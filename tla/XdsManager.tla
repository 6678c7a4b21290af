---------------------------- MODULE XdsManager ----------------------------
(***************************************************************************)
(* The xDS Manager of pkg/xds (src/unnamed/part_001): one producer that   *)
(* mutates the resource map (Add, Replace, Delete) and fans a change       *)
(* notification out to every session, and one stream driver (Stream) per  *)
(* connected Envoy, each with its client.  They share the Manager's mutex, *)
(* its map, its version counter and the sessions' one-slot channels.      *)
(*                                                                         *)
(* Granularity.  Every critical section that cannot block is one step:    *)
(* Register, BuildDiscoveryResponse, the cleanup of Stream, and a          *)
(* mutation together with the first, non-blocking pass of notify.  The     *)
(* second pass of notify blocks while it holds the mutex: each blocking    *)
(* send, and the producer context's cancellation, are steps of their own.  *)
(* A stream driver is a program counter dpc over the points where Stream   *)
(* waits: "init" (to register), "loop" (its select), "build" (for the      *)
(* mutex in BuildDiscoveryResponse), "push" (on resCh or the 5 s timer),   *)
(* "cleanup" (for the mutex in its deferred cleanup) and "done".          *)
(***************************************************************************)
EXTENDS Naturals, Sequences, FiniteSets, SequencesExt

CONSTANTS
    Names,                  \* resource names
    Vals,                   \* resource payloads
    Streams,                \* client streams (one session each)
    NodeIds,                \* node ids a client may send; "" is no id
    Subscriptions,          \* resource_names lists a client may send
    MaxVersion,             \* bound on published versions
    MaxReqs,                \* bound on requests per client
    ProducerCtxCancellable, \* the producer's context can expire
    PushMayTimeout,         \* the 5 s push deadline can expire
    AddMayFail,             \* Add batches may hold invalid resources
    ClientMayMisbehave,     \* clients may change names or send a wrong type
    NoRes,                  \* absent from the map
    None                    \* empty slot / channel / no response

Producer == "producer"

VARIABLES
    \* Manager
    store,     \* m.resources: name -> payload, NoRes where absent
    version,   \* m.version
    lock,      \* holder of the Manager's mutex: None or Producer
    sessions,  \* m.sessions
    slot,      \* each session's capacity-1 channel: None or a set of names
    \* producer, inside notify
    ppc,       \* "idle" or "fanout" (second pass of notify)
    blocked,   \* sessions still to be sent to in the second pass, in order
    upd,       \* the names of the update being fanned out
    returned,  \* what the producer's last mutation call returned: "nil" or "err"
    \* stream drivers
    dpc,       \* program counter of Stream
    node,      \* node latched from the first request ("" = not latched)
    subs,      \* resources: the latched resource_names
    txs,       \* nonces of in-flight transactions
    resp,      \* response built and being pushed, or None
    nonces,    \* number of responses built on the stream (the nonce)
    \* clients
    reqCh,     \* request handed to the driver, or None
    inbox,     \* nonces of responses received and not yet acknowledged
    last,      \* last response received, or None
    csubs,     \* names the client subscribed with, or None
    cnode,     \* node id the client sends
    sent,      \* requests sent
    gone,      \* client disconnected (stream context done, Recv fails)
    draining,  \* server.Draining() is closed
    hpc,       \* the /config_dump handler: "idle", or "list" (in List, for the mutex)
    \* history
    history,   \* version -> map published under it
    accepted   \* the driver has handled a request of the stream

mgrVars == <<store, version, lock, sessions, slot>>
prodVars == <<ppc, blocked, upd, returned>>
drvVars == <<dpc, node, subs, txs, resp, nonces>>
cliVars == <<reqCh, inbox, last, csubs, cnode, sent, gone, draining, hpc>>
histVars == <<history, accepted>>
vars == <<mgrVars, prodVars, drvVars, cliVars, histVars>>

Stores == [Names -> Vals \cup {NoRes}]
EmptyStore == [n \in Names |-> NoRes]
Present(st) == {n \in Names : st[n] # NoRes}

\* A resource as Add receives it: its name, payload and Validate() outcome.
Resources == [name : Names, val : Vals,
              valid : IF AddMayFail THEN BOOLEAN ELSE {TRUE}]
AddBatches == SeqOf(Resources, 2) \ {<<>>}

Response == [ver : 0..MaxVersion, content : UNION {[D -> Vals] : D \in SUBSET Names},
             nonce : Nat, subs : Subscriptions]
Request == [node : NodeIds, names : Subscriptions, nonce : Nat, typeOk : BOOLEAN]

-----------------------------------------------------------------------------
(* The Manager's map operations.                                           *)

\* snapshot / snapshotAll: with no names, every resource; otherwise the
\* wanted names that are present, silently omitting the others.  The
\* order of the resources in the response is abstracted away.
\* Mutant of snapshot: a wanted name that is absent is not skipped.
snapshotKeepsAbsent(st, want) ==
    LET keep == IF want = <<>> THEN Present(st) ELSE ToSet(want)
    IN [n \in keep |-> st[n]]

snapshot(st, want) ==
    LET keep == IF want = <<>> THEN Present(st) ELSE ToSet(want) \cap Present(st)
    IN [n \in keep |-> st[n]]

\* The loop of Add: writes resources in order until the first invalid one.
AddPrefix(rs) ==
    LET bad == {i \in 1..Len(rs) : ~rs[i].valid}
    IN IF bad = {} THEN rs ELSE SubSeq(rs, 1, Min(bad) - 1)

ApplyAdd(st, rs) == FoldLeft(LAMBDA acc, r : [acc EXCEPT ![r.name] = r.val], st, rs)

\* notify: with a non-empty change, bump the version, try every session's
\* slot without blocking, and, if some were full, keep the mutex for the
\* blocking pass over them in map order (any order).  store' is set by the
\* caller, which returns nil once notify is done.
notify(changed) ==
    IF changed = {}
    THEN UNCHANGED <<version, lock, slot, ppc, blocked, upd, history>> /\ returned' = "nil"
    ELSE LET busy == {s \in sessions : slot[s] # None}
         IN /\ version' = version + 1
            /\ history' = [history EXCEPT ![version + 1] = store']
            /\ slot' = [s \in Streams |->
                          IF s \in sessions /\ slot[s] = None THEN changed ELSE slot[s]]
            /\ \E order \in SetToSeqs(busy) : blocked' = order
            /\ IF busy = {}
               THEN lock' = None /\ ppc' = "idle" /\ upd' = {} /\ returned' = "nil"
               ELSE /\ lock' = Producer /\ ppc' = "fanout" /\ upd' = changed
                    /\ UNCHANGED returned

\* Mutant of Replace: the names of removed resources are not notified.
ReplaceForgetsRemoved(new) ==
    /\ ppc = "idle" /\ lock = None /\ version < MaxVersion
    /\ store' = new
    /\ notify(Present(new))
    /\ UNCHANGED <<sessions, drvVars, cliVars, accepted>>

\* Add: under the mutex, validate and write each resource in turn; an
\* invalid one returns the error after the earlier ones were written,
\* without notify.  Otherwise notify of every name of the batch, and
\* return nil whatever notify returned.
Add(rs) ==
    /\ ppc = "idle" /\ lock = None /\ version < MaxVersion
    /\ LET done == AddPrefix(rs)
       IN /\ store' = ApplyAdd(store, done)
          /\ IF done = rs
             THEN notify({rs[i].name : i \in 1..Len(rs)})
             ELSE /\ UNCHANGED <<version, lock, slot, ppc, blocked, upd, history>>
                  /\ returned' = "err"
    /\ UNCHANGED <<sessions, drvVars, cliVars, accepted>>

\* Replace: every resource is validated before the mutex is taken (a
\* failure returns an error and changes nothing else; it is left out); then the map is swapped and
\* notify names every added, updated and removed resource.
Replace(new) ==
    /\ ppc = "idle" /\ lock = None /\ version < MaxVersion
    /\ store' = new
    /\ notify(Present(new) \cup Present(store))
    /\ UNCHANGED <<sessions, drvVars, cliVars, accepted>>

\* Delete: a present name is removed and notified; an absent one is a
\* no-op (a stutter).
Delete(n) ==
    /\ ppc = "idle" /\ lock = None /\ version < MaxVersion
    /\ store[n] # NoRes
    /\ store' = [store EXCEPT ![n] = NoRes]
    /\ notify({n})
    /\ UNCHANGED <<sessions, drvVars, cliVars, accepted>>

\* Second pass of notify: a blocking send to the next busy session, made
\* when its driver has emptied the slot.  The mutex is held throughout.
FanoutSend ==
    /\ ppc = "fanout"
    /\ slot[Head(blocked)] = None
    /\ slot' = [slot EXCEPT ![Head(blocked)] = upd]
    /\ blocked' = Tail(blocked)
    /\ IF Tail(blocked) = <<>>
       THEN lock' = None /\ ppc' = "idle" /\ upd' = {} /\ returned' = "nil"
       ELSE UNCHANGED <<lock, ppc, upd, returned>>
    /\ UNCHANGED <<store, version, sessions, drvVars, cliVars, histVars>>

\* Second pass of notify: the producer's context is done; the remaining
\* busy sessions miss this update and notify returns ctx.Err(), which
\* Add and Replace drop: they return nil (and Delete returns nothing).
FanoutTimeout ==
    /\ ppc = "fanout"
    /\ ProducerCtxCancellable
    /\ lock' = None /\ ppc' = "idle" /\ blocked' = <<>> /\ upd' = {}
    /\ returned' = "nil"
    /\ UNCHANGED <<store, version, sessions, slot, drvVars, cliVars, histVars>>

-----------------------------------------------------------------------------
(* A stream driver: Manager.Stream.                                        *)

Set(f, s, v) == [f EXCEPT ![s] = v]

\* Open a session: register the slot under the mutex.
Register(s) ==
    /\ dpc[s] = "init" /\ lock = None
    /\ sessions' = sessions \cup {s}
    /\ dpc' = Set(dpc, s, "loop")
    /\ UNCHANGED <<store, version, lock, slot, prodVars, node, subs, txs, resp,
                   nonces, cliVars, histVars>>

\* The select sees server.Draining(), ctx.Done() or a closed reqCh.
Exit(s) ==
    /\ dpc[s] = "loop"
    /\ draining \/ gone[s]
    /\ dpc' = Set(dpc, s, "cleanup")
    /\ UNCHANGED <<mgrVars, prodVars, node, subs, txs, resp, nonces, cliVars, histVars>>

\* The deferred cleanup: unregister and close the slot under the mutex,
\* then finish every open transaction.
Cleanup(s) ==
    /\ dpc[s] = "cleanup" /\ lock = None
    /\ sessions' = sessions \ {s}
    /\ txs' = Set(txs, s, {})
    /\ dpc' = Set(dpc, s, "done")
    /\ UNCHANGED <<store, version, lock, slot, prodVars, node, subs, resp, nonces,
                   cliVars, histVars>>

\* The cleanup ticker: retire the transactions older than a minute, which
\* are the oldest ones.
Tick(s) ==
    /\ dpc[s] = "loop"
    /\ \E k \in 1..nonces[s] :
          /\ \E t \in txs[s] : t <= k
          /\ txs' = Set(txs, s, {t \in txs[s] : t > k})
    /\ UNCHANGED <<mgrVars, prodVars, dpc, node, subs, resp, nonces, cliVars, histVars>>

\* handleTx: an ack or nack of an in-flight push retires its transaction.
handleTx(s, nonce) ==
    /\ txs' = Set(txs, s, txs[s] \ {nonce})
    /\ UNCHANGED dpc

\* The stream has not latched its node and subscription yet.
Unlatched(s) == node[s] = ""

\* A request: the first one (while node is "") latches node and
\* resources; a request whose names differ from the latched ones ends the
\* stream (FailedPrecondition), as does a wrong type URL (InvalidArgument);
\* a known nonce is an ack or nack; an empty or unknown one gets a push.
RecvRequest(s) ==
    /\ dpc[s] = "loop" /\ reqCh[s] # None
    /\ LET req == reqCh[s]
           latch == Unlatched(s)
           want == IF latch THEN req.names ELSE subs[s]
       IN /\ reqCh' = Set(reqCh, s, None)
          /\ node' = IF latch THEN Set(node, s, req.node) ELSE node
          /\ subs' = Set(subs, s, want)
          /\ accepted' = Set(accepted, s, TRUE)
          /\ \/ /\ want # req.names \/ ~req.typeOk
                /\ dpc' = Set(dpc, s, "cleanup")
                /\ UNCHANGED txs
             \/ /\ want = req.names /\ req.typeOk
                /\ req.nonce \in txs[s]
                /\ handleTx(s, req.nonce)
             \/ /\ want = req.names /\ req.typeOk
                /\ req.nonce \notin txs[s]
                /\ dpc' = Set(dpc, s, "build")
                /\ UNCHANGED txs
    /\ UNCHANGED <<mgrVars, prodVars, resp, nonces, inbox, last, csubs, cnode, sent,
                   gone, draining, hpc, history>>

\* A change notification: push if subscribed to everything or to one of
\* the changed names.
\* Mutant of Interested: the wildcard subscription is not special-cased.
InterestedNoWildcard(want, changed) == ToSet(want) \cap changed # {}

Interested(want, changed) == want = <<>> \/ ToSet(want) \cap changed # {}

RecvUpdate(s) ==
    /\ dpc[s] = "loop" /\ slot[s] # None
    /\ slot' = Set(slot, s, None)
    /\ dpc' = Set(dpc, s, IF Interested(subs[s], slot[s]) THEN "build" ELSE "loop")
    /\ UNCHANGED <<store, version, lock, sessions, prodVars, node, subs, txs, resp,
                   nonces, cliVars, histVars>>

\* Mutant of BuildDiscoveryResponse: the resource_names filter is not
\* applied, every resource is sent as if to a wildcard subscription.
BuildDiscoveryResponseUnfiltered(s) ==
    /\ dpc[s] = "build" /\ lock = None
    /\ resp' = Set(resp, s, [ver |-> version, content |-> snapshot(store, <<>>),
                             nonce |-> nonces[s] + 1, subs |-> subs[s]])
    /\ nonces' = Set(nonces, s, nonces[s] + 1)
    /\ dpc' = Set(dpc, s, "push")
    /\ UNCHANGED <<mgrVars, prodVars, node, subs, txs, cliVars, histVars>>

\* sendUpdate, first half: BuildDiscoveryResponse snapshots the map and the
\* version under the mutex and draws a fresh nonce.
BuildDiscoveryResponse(s) ==
    /\ dpc[s] = "build" /\ lock = None
    /\ resp' = Set(resp, s, [ver |-> version, content |-> snapshot(store, subs[s]),
                             nonce |-> nonces[s] + 1, subs |-> subs[s]])
    /\ nonces' = Set(nonces, s, nonces[s] + 1)
    /\ dpc' = Set(dpc, s, "push")
    /\ UNCHANGED <<mgrVars, prodVars, node, subs, txs, cliVars, histVars>>

\* sendUpdate, second half: resCh takes the response (the send pump writes
\* it to the client unless the client is gone) and the transaction is
\* recorded ...
Deliver(s) ==
    /\ dpc[s] = "push"
    /\ txs' = Set(txs, s, txs[s] \cup {resp[s].nonce})
    /\ IF gone[s] THEN UNCHANGED <<inbox, last>>
       ELSE /\ inbox' = Set(inbox, s, Append(inbox[s], resp[s].nonce))
            /\ last' = Set(last, s, resp[s])
    /\ resp' = Set(resp, s, None)
    /\ dpc' = Set(dpc, s, "loop")
    /\ UNCHANGED <<mgrVars, prodVars, node, subs, nonces, reqCh, csubs, cnode, sent,
                   gone, draining, hpc, histVars>>

\* ... or the 5 s timer fires first: the response is dropped and no
\* transaction is recorded.
PushTimeout(s) ==
    /\ dpc[s] = "push"
    /\ PushMayTimeout
    /\ resp' = Set(resp, s, None)
    /\ dpc' = Set(dpc, s, "loop")
    /\ UNCHANGED <<mgrVars, prodVars, node, subs, txs, nonces, cliVars, histVars>>

-----------------------------------------------------------------------------
(* Clients (Envoy and the request pump of StreamGRPC).                     *)

\* The resource_names a client may resend for the subscription it holds:
\* the same names, in any order.
SameNames(names) == {n \in Subscriptions : ToSet(n) = ToSet(names)}

CanSend(s) == ~gone[s] /\ reqCh[s] = None /\ sent[s] < MaxReqs

\* The first request: node id and resource_names, empty nonce.
ClientOpen(s) ==
    /\ CanSend(s) /\ csubs[s] = None
    /\ \E nd \in NodeIds, names \in Subscriptions :
          /\ reqCh' = Set(reqCh, s, [node |-> nd, names |-> names, nonce |-> 0, typeOk |-> TRUE])
          /\ cnode' = Set(cnode, s, nd)
          /\ csubs' = Set(csubs, s, names)
    /\ sent' = Set(sent, s, sent[s] + 1)
    /\ UNCHANGED <<mgrVars, prodVars, drvVars, inbox, last, gone, draining, hpc, histVars>>

\* An ack or nack of the oldest response received (the two differ only in
\* logs, metrics and the OnAck callback).
ClientAck(s) ==
    /\ CanSend(s) /\ csubs[s] # None /\ inbox[s] # <<>>
    /\ \E names \in SameNames(csubs[s]) :
          reqCh' = Set(reqCh, s, [node |-> cnode[s], names |-> names,
                                  nonce |-> Head(inbox[s]), typeOk |-> TRUE])
    /\ inbox' = Set(inbox, s, Tail(inbox[s]))
    /\ sent' = Set(sent, s, sent[s] + 1)
    /\ UNCHANGED <<mgrVars, prodVars, drvVars, last, csubs, cnode, gone, draining, hpc,
                   histVars>>

\* A request that changes the subscription or names another type.
ClientMisbehave(s) ==
    /\ ClientMayMisbehave
    /\ CanSend(s) /\ csubs[s] # None
    /\ \E names \in Subscriptions, ok \in BOOLEAN :
          /\ names # csubs[s] \/ ~ok
          /\ reqCh' = Set(reqCh, s, [node |-> cnode[s], names |-> names, nonce |-> 0,
                                     typeOk |-> ok])
          /\ csubs' = Set(csubs, s, names)
    /\ sent' = Set(sent, s, sent[s] + 1)
    /\ UNCHANGED <<mgrVars, prodVars, drvVars, inbox, last, cnode, gone, draining, hpc,
                   histVars>>

\* The client leaves: from now on the receive pump's Recv fails and it
\* closes reqCh.  Stream sees either ctx.Done() or the closed reqCh and
\* returns the same way, so both are Exit.
ClientDisconnect(s) ==
    /\ ~gone[s]
    /\ gone' = Set(gone, s, TRUE)
    /\ UNCHANGED <<mgrVars, prodVars, drvVars, reqCh, inbox, last, csubs, cnode, sent,
                   draining, hpc, histVars>>

Drain ==
    /\ ~draining
    /\ draining' = TRUE
    /\ UNCHANGED <<mgrVars, prodVars, drvVars, reqCh, inbox, last, csubs, cnode, sent,
                   gone, hpc, histVars>>

-----------------------------------------------------------------------------
(* The introspection endpoint: GET /config_dump.                           *)

\* A request reaches ServeHTTP, which calls ConfigAsYAML, whose List waits
\* for the Manager's mutex.
ServeHTTP ==
    /\ hpc = "idle"
    /\ hpc' = "list"
    /\ UNCHANGED <<mgrVars, prodVars, drvVars, reqCh, inbox, last, csubs, cnode, sent,
                   gone, draining, histVars>>

\* List copies the resources under the mutex.  The sorts, the JSON and
\* YAML conversion and the 200 reply follow after the unlock and touch no
\* shared state; their error path (a resource that fails to marshal after
\* it passed Validate) is not reached.
List ==
    /\ hpc = "list" /\ lock = None
    /\ hpc' = "idle"
    /\ UNCHANGED <<mgrVars, prodVars, drvVars, reqCh, inbox, last, csubs, cnode, sent,
                   gone, draining, histVars>>

-----------------------------------------------------------------------------
Init ==
    /\ store = EmptyStore
    /\ version = 0
    /\ lock = None
    /\ sessions = {}
    /\ slot = [s \in Streams |-> None]
    /\ ppc = "idle" /\ blocked = <<>> /\ upd = {} /\ returned = "nil"
    /\ dpc = [s \in Streams |-> "init"]
    /\ node = [s \in Streams |-> ""]
    /\ subs = [s \in Streams |-> <<>>]
    /\ txs = [s \in Streams |-> {}]
    /\ resp = [s \in Streams |-> None]
    /\ nonces = [s \in Streams |-> 0]
    /\ reqCh = [s \in Streams |-> None]
    /\ inbox = [s \in Streams |-> <<>>]
    /\ last = [s \in Streams |-> None]
    /\ csubs = [s \in Streams |-> None]
    /\ cnode = [s \in Streams |-> ""]
    /\ sent = [s \in Streams |-> 0]
    /\ gone = [s \in Streams |-> FALSE]
    /\ draining = FALSE
    /\ hpc = "idle"
    /\ history = [v \in 0..MaxVersion |-> EmptyStore]
    /\ accepted = [s \in Streams |-> FALSE]

ProducerNext ==
    \/ \E rs \in AddBatches : Add(rs)
    \/ \E new \in Stores : Replace(new)
    \/ \E n \in Names : Delete(n)
    \/ FanoutSend
    \/ FanoutTimeout

DriverNext(s) ==
    \/ Register(s) \/ Exit(s) \/ Cleanup(s) \/ Tick(s)
    \/ RecvRequest(s) \/ RecvUpdate(s)
    \/ BuildDiscoveryResponse(s) \/ Deliver(s) \/ PushTimeout(s)

ClientNext(s) ==
    \/ ClientOpen(s) \/ ClientAck(s) \/ ClientMisbehave(s) \/ ClientDisconnect(s)

Next ==
    \/ ProducerNext
    \/ \E s \in Streams : DriverNext(s) \/ ClientNext(s)
    \/ Drain
    \/ ServeHTTP \/ List

\* The Go runtime runs every goroutine that can proceed: a ready select
\* case is eventually taken, a free mutex eventually granted (sync.Mutex
\* has a starvation mode), and a context deadline eventually fires.  The
\* producer's calls, HTTP requests and everything clients do are not assumed.
Fairness ==
    /\ WF_vars(FanoutSend) /\ WF_vars(FanoutTimeout) /\ WF_vars(List)
    /\ \A s \in Streams :
          /\ WF_vars(Register(s)) /\ WF_vars(Exit(s)) /\ WF_vars(Cleanup(s))
          /\ WF_vars(RecvRequest(s)) /\ WF_vars(RecvUpdate(s))
          /\ WF_vars(BuildDiscoveryResponse(s)) /\ WF_vars(Deliver(s))

Spec == Init /\ [][Next]_vars /\ Fairness

-----------------------------------------------------------------------------
(* Properties.                                                             *)

TypeOK ==
    /\ store \in Stores /\ version \in 0..MaxVersion
    /\ lock \in {None, Producer} /\ sessions \subseteq Streams
    /\ slot \in [Streams -> {None} \cup SUBSET Names]
    /\ ppc \in {"idle", "fanout"} /\ blocked \in Seq(Streams) /\ upd \subseteq Names
    /\ returned \in {"nil", "err"}
    /\ dpc \in [Streams -> {"init", "loop", "build", "push", "cleanup", "done"}]
    /\ node \in [Streams -> NodeIds \cup {""}]
    /\ subs \in [Streams -> Subscriptions]
    /\ txs \in [Streams -> SUBSET Nat]
    /\ resp \in [Streams -> Response \cup {None}]
    /\ reqCh \in [Streams -> Request \cup {None}]
    /\ inbox \in [Streams -> Seq(Nat)]
    /\ last \in [Streams -> Response \cup {None}]
    /\ csubs \in [Streams -> Subscriptions \cup {None}]
    /\ sent \in [Streams -> 0..MaxReqs]
    /\ hpc \in {"idle", "list"}
    /\ history \in [0..MaxVersion -> Stores]

\* Consistency of what Envoy is told (spec.md 5, "every BuildDiscoveryResponse
\* observes either the full effect of a given mutation or none of it"): a
\* response carrying version v holds exactly the subscribed part of the map
\* that was published as v, whatever ran between the mutation, its notify
\* and the snapshot.
ResponseMatchesVersion ==
    \A s \in Streams :
        \A r \in {resp[s], last[s]} \ {None} :
            r.content = snapshot(history[r.ver], r.subs)

\* The map and the counter of the Manager implement StoreSpec: the map
\* never changes except in a mutation that bumps the version by one.
Abstract == INSTANCE StoreSpec
StoreRefinement == Abstract!Spec

\* The subscription is fixed for the life of a stream (spec.md 6,
\* "resource_names ... immutable for the life of the stream"): once Stream
\* has handled a request, later requests never change its resources.
SubscriptionImmutable ==
    [][\A s \in Streams : accepted[s] => subs'[s] = subs[s]]_<<subs, accepted>>

\* A request that names the same resources as the stream's subscription
\* never ends the stream (spec.md 4.3: resource_names are compared with
\* the latched subscription "order-independent"): when Stream handles a
\* well-typed request and returns, the request named a different set.
SubscriptionCompareSetwise ==
    [][\A s \in Streams :
         (/\ dpc[s] = "loop" /\ dpc'[s] = "cleanup"
          /\ reqCh[s] # None /\ reqCh'[s] = None /\ reqCh[s].typeOk)
         => ToSet(reqCh[s].names) # ToSet(subs'[s])]_<<dpc, reqCh, subs>>

\* Every goroutine that waits for the Manager's mutex eventually gets it:
\* a stream driver (to register, to build a response, or to clean up) and
\* the /config_dump handler in List.  notify's blocking second pass holds
\* the mutex while it waits on a session's slot.  Stated as: again and
\* again, nobody waits for the mutex, so every wait ends.
WaitsForMutex ==
    \/ \E s \in Streams : dpc[s] \in {"init", "build", "cleanup"}
    \/ hpc = "list"
LockEventuallyGranted == []<>~WaitsForMutex

\* A producer whose change notification timed out is told so (spec.md 4.2:
\* "abandon the remaining blocked Sessions and return a deadline error to
\* the producer"; spec.md 7: NotificationTimeout is "returned to
\* producer"): when notify's second pass ends without sending to the
\* session it waits on, the mutation returns an error.
ProducerToldOfMiss ==
    [][(ppc = "fanout" /\ ppc' = "idle" /\ slot' = slot) => returned' = "err"]_<<ppc, slot, returned>>

\* Convergence (spec.md 8, "a Session that is slow ... still converges:
\* after the producer stops, the Session eventually receives a snapshot
\* equal to the final store"): a subscribed stream that stays open ends up
\* having received the subscribed part of the current map.
Live(s) == accepted[s] /\ dpc[s] \notin {"cleanup", "done"} /\ ~gone[s] /\ ~draining
Converged(s) == last[s] # None /\ last[s].content = snapshot(store, subs[s])
Convergence == \A s \in Streams : <>[](Live(s) => Converged(s))

=============================================================================
