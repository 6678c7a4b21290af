----------------------------- MODULE StreamTx ------------------------------
(***************************************************************************)
(* One xDS stream end to end: Manager.StreamGRPC (src/unnamed/part_001     *)
(* 563-599) and the Manager.Stream it runs (350-551), composed through     *)
(* the two unbuffered channels between them.                              *)
(*                                                                         *)
(* StreamGRPC starts a receive pump (Recv, then reqCh <- req; close(reqCh) *)
(* on a Recv error), a send pump (res := <-resCh, then Send, until resCh  *)
(* is closed) and a goroutine that runs Stream and sends its error on     *)
(* errCh; it waits for that error, closes resCh and errCh and returns,    *)
(* after which Recv fails.                                                *)
(*                                                                         *)
(* Stream is modelled for its transaction bookkeeping: the nonce of each  *)
(* response, the map txs from nonce to transaction, the tracing span every *)
(* transaction holds, and the three ways a transaction ends (an ack or    *)
(* nack in handleTx, the stale cleanup on the ticker, the deferred cleanup *)
(* when Stream returns).  The Manager is reduced to its version counter   *)
(* and the stream's notification slot; XdsManager models the rest, and    *)
(* the request checks that end a stream (changed resource_names, wrong    *)
(* type) with it.  The client is Envoy: it sends the first request and    *)
(* then answers every response it got, in order, possibly after the       *)
(* cleanup has already retired it.                                        *)
(***************************************************************************)
EXTENDS Naturals, Sequences, FiniteSets, TLC

CONSTANTS
    MaxVersion,     \* bound on Manager versions
    MaxReqs,        \* bound on requests the client sends
    RandMayFail,    \* crypto/rand.Read may fail
    Fallback,       \* the hash "xxxxxxxx" randomString keeps on failure
    NoNonce,        \* the empty response_nonce of the first request
    None            \* no response in flight / no request pending

VARIABLES
    \* Manager
    version,   \* the Manager's version counter
    slot,      \* the session channel holds a notification
    \* Stream
    dpc,       \* "loop" (select), "push" (in sendUpdate's select),
               \* "ret" (in errCh <- err), "done"
    txs,       \* nonce -> [span, stale]: the in-flight transactions
    inflight,  \* the response sendUpdate is pushing: [nonce, span] or None
    spans,     \* number of spans started (span ids are 1..spans)
    open,      \* spans started and not finished
    \* StreamGRPC
    rpc,       \* receive pump: "recv", "hand" (in reqCh <- req), "done"
    reqCh,     \* the response_nonce of the request the pump hands over, or None
    spc,       \* send pump: "recv" (in <-resCh), "write" (in Send), "done"
    outRes,    \* the response the send pump is writing, or None
    apc,       \* StreamGRPC: "wait" (in <-errCh) or "done"
    reqClosed, \* reqCh is closed
    resClosed, \* resCh is closed
    \* Envoy and the server
    wire,      \* the request Envoy sent and Recv has not returned, or None
    inbox,     \* responses the client got and has not answered, in order
    answered,  \* spans of the pushes the client has answered
    sent,      \* requests sent
    gone,      \* the client went away (Recv fails)
    cancelled  \* ctx is done or the server is draining

mgrVars == <<version, slot>>
drvVars == <<dpc, txs, inflight, spans, open>>
adpVars == <<rpc, reqCh, spc, outRes, apc, reqClosed, resClosed>>
cliVars == <<wire, inbox, answered, sent, gone, cancelled>>
vars == <<mgrVars, drvVars, adpVars, cliVars>>

MaxPushes == 1 + MaxVersion + MaxReqs
Spans == 1..MaxPushes
Nonces == (0..MaxVersion) \X (Spans \cup {Fallback})
Tx == [span : Spans, stale : BOOLEAN]
Pushed == [nonce : Nonces, span : Spans]

NoTxs == [n \in {} |-> [span |-> 1, stale |-> FALSE]]
SpansOf(f) == {f[n].span : n \in DOMAIN f}

\* randomString: eight random letters, or "xxxxxxxx" if rand.Read fails.
\* Eight random letters are modelled as fresh: the id of the push's span.
randomString(fresh) == IF RandMayFail THEN {fresh, Fallback} ELSE {fresh}

\* Mutant of Nonce: the nonce is built from the version alone.
NonceWithoutHash(ver, hash) == <<ver, Fallback>>

\* Mutant of Nonce: the two arguments of the Sprintf are swapped.
NonceSwapped(ver, hash) == <<hash, ver>>

\* BuildDiscoveryResponse's nonce "nonce-<version>-<hash>".
Nonce(ver, hash) == <<ver, hash>>

-----------------------------------------------------------------------------
(* Stream.                                                                 *)

\* sendUpdate up to its select: build the response under the mutex, start
\* the span, and offer the response on resCh.
sendUpdate ==
    \E hash \in randomString(spans + 1) :
        /\ inflight' = [nonce |-> Nonce(version, hash), span |-> spans + 1]
        /\ spans' = spans + 1
        /\ open' = open \cup {spans + 1}
        /\ dpc' = "push"

\* The select in sendUpdate: resCh <- res meets the send pump's receive and
\* the transaction is recorded under its nonce, replacing any with the
\* same nonce ...
Deliver ==
    /\ dpc = "push" /\ spc = "recv" /\ ~resClosed
    /\ txs' = (inflight.nonce :> [span |-> inflight.span, stale |-> FALSE]) @@ txs
    /\ outRes' = inflight /\ spc' = "write"
    /\ inflight' = None /\ dpc' = "loop"
    /\ UNCHANGED <<mgrVars, spans, open, rpc, reqCh, apc, reqClosed, resClosed, cliVars>>

\* ... or the 5 s timer fires: the span is finished, nothing is recorded.
PushTimeout ==
    /\ dpc = "push"
    /\ open' = open \ {inflight.span}
    /\ inflight' = None /\ dpc' = "loop"
    /\ UNCHANGED <<mgrVars, txs, spans, adpVars, cliVars>>

\* handleTx: log, call OnAck, finish the span, delete txs[nonce].
handleTx(nonce) ==
    /\ open' = open \ {txs[nonce].span}
    /\ txs' = [n \in DOMAIN txs \ {nonce} |-> txs[n]]

\* The request case: reqCh <- req meets the select.  A known nonce is an
\* ack or nack; an empty or unknown one (a first request, or an answer the
\* cleanup already retired) is answered with a fresh push.
RecvRequest ==
    /\ dpc = "loop" /\ rpc = "hand"
    /\ reqCh' = None /\ rpc' = "recv"
    /\ \/ /\ reqCh \in DOMAIN txs
          /\ handleTx(reqCh)
          /\ UNCHANGED <<dpc, inflight, spans>>
       \/ /\ reqCh \notin DOMAIN txs
          /\ sendUpdate
          /\ UNCHANGED txs
    /\ UNCHANGED <<mgrVars, spc, outRes, apc, reqClosed, resClosed, cliVars>>

\* The notification case (every update interests this stream).
RecvUpdate ==
    /\ dpc = "loop" /\ slot
    /\ slot' = FALSE
    /\ sendUpdate
    /\ UNCHANGED <<version, txs, adpVars, cliVars>>

\* The cleanup ticker: finish and delete every transaction older than a
\* minute.
Tick ==
    /\ dpc = "loop"
    /\ \E n \in DOMAIN txs : txs[n].stale
    /\ open' = open \ {txs[n].span : n \in {m \in DOMAIN txs : txs[m].stale}}
    /\ txs' = [n \in {m \in DOMAIN txs : ~txs[m].stale} |-> txs[n]]
    /\ UNCHANGED <<mgrVars, dpc, inflight, spans, adpVars, cliVars>>

\* Mutant of Exit: the ok of <-reqCh is not checked, so a closed request
\* channel never ends the loop.
ExitIgnoresClosedReqCh ==
    /\ dpc = "loop" /\ cancelled
    /\ open' = open \ SpansOf(txs)
    /\ txs' = NoTxs
    /\ dpc' = "ret"
    /\ UNCHANGED <<mgrVars, inflight, spans, adpVars, cliVars>>

\* Stream returns (server.Draining, ctx.Done, or a closed reqCh) and the
\* deferred cleanup finishes the span of every transaction left in txs.
Exit ==
    /\ dpc = "loop" /\ (cancelled \/ reqClosed)
    /\ open' = open \ SpansOf(txs)
    /\ txs' = NoTxs
    /\ dpc' = "ret"
    /\ UNCHANGED <<mgrVars, inflight, spans, adpVars, cliVars>>

-----------------------------------------------------------------------------
(* StreamGRPC's goroutines.                                                *)

\* Recv fails once the client is gone or the handler has returned.
RecvFails == gone \/ apc = "done"

\* The receive pump: stream.Recv returns the client's request, which the
\* pump then offers on reqCh ...
PumpRecv ==
    /\ rpc = "recv" /\ ~RecvFails /\ wire # None
    /\ reqCh' = wire /\ wire' = None /\ rpc' = "hand"
    /\ UNCHANGED <<mgrVars, drvVars, spc, outRes, apc, reqClosed, resClosed,
                   inbox, answered, sent, gone, cancelled>>

\* ... or an error: close(reqCh) and return.
PumpRecvError ==
    /\ rpc = "recv" /\ RecvFails
    /\ reqClosed' = TRUE /\ rpc' = "done"
    /\ UNCHANGED <<mgrVars, drvVars, reqCh, spc, outRes, apc, resClosed, cliVars>>

\* The send pump: res, ok := <-resCh on a closed resCh returns.
SendPumpExit ==
    /\ spc = "recv" /\ resClosed
    /\ spc' = "done"
    /\ UNCHANGED <<mgrVars, drvVars, rpc, reqCh, outRes, apc, reqClosed, resClosed, cliVars>>

\* stream.Send(res): the client gets the response unless it is gone (the
\* error is only logged).
SendPumpWrite ==
    /\ spc = "write"
    /\ inbox' = IF gone THEN inbox ELSE Append(inbox, outRes)
    /\ spc' = "recv" /\ outRes' = None
    /\ UNCHANGED <<mgrVars, drvVars, rpc, reqCh, apc, reqClosed, resClosed,
                   wire, answered, sent, gone, cancelled>>

\* Mutant of Collect: resCh is closed before the error is received.
CollectClosesFirst ==
    /\ apc = "wait" /\ ~resClosed
    /\ resClosed' = TRUE
    /\ UNCHANGED <<mgrVars, drvVars, rpc, reqCh, spc, outRes, apc, reqClosed, cliVars>>

\* errCh <- m.Stream(...) meets err := <-errCh; then close(resCh),
\* close(errCh) and return err.
Collect ==
    /\ apc = "wait" /\ dpc = "ret"
    /\ dpc' = "done" /\ apc' = "done"
    /\ resClosed' = TRUE
    /\ UNCHANGED <<mgrVars, txs, inflight, spans, open, rpc, reqCh, spc, outRes,
                   reqClosed, cliVars>>

-----------------------------------------------------------------------------
(* The environment: the Manager, the clock, the server and Envoy.         *)

\* A mutation publishes a new version and notify fills the slot.
Publish ==
    /\ version < MaxVersion
    /\ version' = version + 1 /\ slot' = TRUE
    /\ UNCHANGED <<drvVars, adpVars, cliVars>>

\* A minute passes: every recorded transaction is now older than a minute.
Age ==
    /\ dpc \in {"loop", "push"}
    /\ \E n \in DOMAIN txs : ~txs[n].stale
    /\ txs' = [n \in DOMAIN txs |-> [txs[n] EXCEPT !.stale = TRUE]]
    /\ UNCHANGED <<mgrVars, dpc, inflight, spans, open, adpVars, cliVars>>

CanSend == ~gone /\ wire = None /\ sent < MaxReqs

ClientOpen ==
    /\ CanSend /\ sent = 0
    /\ wire' = NoNonce /\ sent' = 1
    /\ UNCHANGED <<mgrVars, drvVars, adpVars, inbox, answered, gone, cancelled>>

\* Envoy acks or nacks the oldest response it got, by its nonce.
ClientAnswer ==
    /\ CanSend /\ sent > 0 /\ inbox # <<>>
    /\ wire' = Head(inbox).nonce
    /\ answered' = answered \cup {Head(inbox).span}
    /\ inbox' = Tail(inbox) /\ sent' = sent + 1
    /\ UNCHANGED <<mgrVars, drvVars, adpVars, gone, cancelled>>

ClientGone ==
    /\ ~gone /\ gone' = TRUE
    /\ UNCHANGED <<mgrVars, drvVars, adpVars, wire, inbox, answered, sent, cancelled>>

Cancel ==
    /\ ~cancelled /\ cancelled' = TRUE
    /\ UNCHANGED <<mgrVars, drvVars, adpVars, wire, inbox, answered, sent, gone>>

Init ==
    /\ version = 0 /\ slot = FALSE
    /\ dpc = "loop" /\ txs = NoTxs /\ inflight = None
    /\ spans = 0 /\ open = {}
    /\ rpc = "recv" /\ reqCh = None /\ spc = "recv" /\ outRes = None
    /\ apc = "wait" /\ reqClosed = FALSE /\ resClosed = FALSE
    /\ wire = None /\ inbox = <<>> /\ answered = {} /\ sent = 0
    /\ gone = FALSE /\ cancelled = FALSE

Next ==
    \/ Deliver \/ PushTimeout \/ RecvRequest \/ RecvUpdate \/ Tick \/ Exit
    \/ PumpRecv \/ PumpRecvError \/ SendPumpExit \/ SendPumpWrite \/ Collect
    \/ Publish \/ Age \/ ClientOpen \/ ClientAnswer \/ ClientGone \/ Cancel

\* Every goroutine with a ready channel operation eventually takes it, the
\* ticker fires every minute and time passes.  Envoy, the producer and the
\* server's drain are not assumed to do anything, and a push is not
\* assumed to time out.
Fairness ==
    /\ WF_vars(Deliver) /\ WF_vars(RecvRequest) /\ WF_vars(RecvUpdate)
    /\ WF_vars(Tick) /\ WF_vars(Exit) /\ WF_vars(Age)
    /\ WF_vars(PumpRecv) /\ WF_vars(PumpRecvError) /\ WF_vars(SendPumpExit)
    /\ WF_vars(SendPumpWrite) /\ WF_vars(Collect)

Spec == Init /\ [][Next]_vars /\ Fairness

-----------------------------------------------------------------------------
TypeOK ==
    /\ version \in 0..MaxVersion /\ slot \in BOOLEAN
    /\ dpc \in {"loop", "push", "ret", "done"}
    /\ DOMAIN txs \subseteq Nonces /\ \A n \in DOMAIN txs : txs[n] \in Tx
    /\ inflight \in Pushed \cup {None}
    /\ spans \in 0..MaxPushes /\ open \subseteq Spans
    /\ rpc \in {"recv", "hand", "done"} /\ spc \in {"recv", "write", "done"}
    /\ apc \in {"wait", "done"}
    /\ reqCh \in {None, NoNonce} \cup Nonces /\ outRes \in Pushed \cup {None}
    /\ wire \in {None, NoNonce} \cup Nonces
    /\ inbox \in Seq(Pushed) /\ answered \subseteq Spans
    /\ sent \in 0..MaxReqs

\* The stream keeps TxSpec's promise (spec.md 8: "an ack with nonce n
\* retires exactly one transaction on s and leaves others untouched";
\* spec.md 9: spans are released on every exit path): a recorded push is
\* pending while its span is open, and it ends only through an answer to
\* that same push, the stale cleanup, or the end of the stream, which it
\* eventually does.
Pending == open \ IF inflight = None THEN {} ELSE {inflight.span}
Promise == INSTANCE TxSpec WITH
    Pushes <- Spans,
    pending <- Pending,
    stale <- {txs[n].span : n \in {m \in DOMAIN txs : txs[m].stale}} \cap Pending,
    answered <- answered,
    closed <- dpc \in {"ret", "done"}
TxRefinement == Promise!Spec

\* No goroutine of the adapter sends on a closed channel (a panic that
\* would take the whole server down): Stream may still push on resCh until
\* StreamGRPC has its error, and only then is resCh closed.
NoSendOnClosed == dpc = "push" => ~resClosed

\* StreamGRPC returns once the client goes away or the context is done:
\* the receive pump closes reqCh, Stream sees it, and its error is
\* collected.
AdapterReturns == (gone \/ cancelled) ~> apc = "done"

\* Every goroutine StreamGRPC starts ends after it returns (spec.md 4.4:
\* the adapter completes when the driver returns and then stops its
\* tasks): neither pump outlives the stream.
PumpsTerminate == <>[](apc = "done" => rpc = "done" /\ spc = "done")

=============================================================================
