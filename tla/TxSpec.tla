------------------------------ MODULE TxSpec -------------------------------
(***************************************************************************)
(* What one xDS stream promises about its transactions (spec.md 3, 4.3,   *)
(* 8 and 9).  A transaction is a push the client took; it stays pending    *)
(* until the client answers that very push (ack or nack), until it has    *)
(* been pending for more than a minute (stale), or until the stream ends.  *)
(* No other step retires a push, and every pending push is eventually     *)
(* retired: the tracing span of a push is released on every exit path.    *)
(***************************************************************************)
CONSTANTS
    Pushes      \* identities of pushes (one tracing span each)

VARIABLES
    pending,    \* pushes recorded and not yet retired
    stale,      \* pending pushes older than the cleanup age
    answered,   \* pushes the client has acked or nacked
    closed      \* the stream has ended

avars == <<pending, stale, answered, closed>>

Init ==
    /\ pending = {}
    /\ stale = {}
    /\ answered = {}
    /\ closed = FALSE

\* The client took push p: a new transaction.
Record(p) ==
    /\ ~closed /\ p \notin pending
    /\ pending' = pending \cup {p}
    /\ UNCHANGED <<stale, answered, closed>>

\* The client acks or nacks push p (possibly long after it was retired).
Answer(p) ==
    /\ answered' = answered \cup {p}
    /\ UNCHANGED <<pending, stale, closed>>

\* An answer retires the transaction of the push it answers, and no other.
Retire(p) ==
    /\ p \in pending \cap answered
    /\ pending' = pending \ {p}
    /\ stale' = stale \ {p}
    /\ UNCHANGED <<answered, closed>>

\* A minute passes: every pending push is now old.
Age ==
    /\ stale' = pending
    /\ UNCHANGED <<pending, answered, closed>>

\* The cleanup retires every old push at once.
Expire ==
    /\ stale # {}
    /\ pending' = pending \ stale
    /\ stale' = {}
    /\ UNCHANGED <<answered, closed>>

\* The stream ends and releases every pending push.
Close ==
    /\ ~closed
    /\ closed' = TRUE
    /\ pending' = {} /\ stale' = {}
    /\ UNCHANGED answered

Next ==
    \/ \E p \in Pushes : Record(p) \/ Answer(p) \/ Retire(p)
    \/ Age \/ Expire \/ Close

\* Time passes and the cleanup runs: nothing stays pending forever.
Spec == Init /\ [][Next]_avars /\ WF_avars(Age) /\ WF_avars(Expire)

=============================================================================
