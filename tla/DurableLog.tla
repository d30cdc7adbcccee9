----------------------------- MODULE DurableLog -----------------------------
(***************************************************************************)
(* What a storage backend promises the thread that owns it, whichever      *)
(* database is behind it.  Commands are numbered in the order in which     *)
(* they are accepted.  What becomes durable stays durable, and becomes     *)
(* durable in that order: a command may be lost, but never overtaken.      *)
(* Closing the backend waits until every accepted command is durable,      *)
(* unless the database failed.                                             *)
(***************************************************************************)
EXTENDS Naturals

VARIABLES
    accepted,  \* how many commands were accepted
    stored,    \* the commands that are durable
    faulty,    \* whether the database ever failed
    closed     \* whether the backend was closed

logVars == <<accepted, stored, faulty, closed>>

Init ==
    /\ accepted = 0
    /\ stored = {}
    /\ faulty = FALSE
    /\ closed = FALSE

Accept ==
    /\ ~closed
    /\ accepted' = accepted + 1
    /\ UNCHANGED <<stored, faulty, closed>>

Store ==
    /\ ~closed
    /\ \E ids \in SUBSET (1 .. accepted) :
          /\ \A i \in ids, j \in stored : j < i
          /\ stored' = stored \union ids
    /\ UNCHANGED <<accepted, faulty, closed>>

Fault ==
    /\ ~closed
    /\ faulty' = TRUE
    /\ UNCHANGED <<accepted, stored, closed>>

Close ==
    /\ faulty \/ stored = 1 .. accepted
    /\ closed' = TRUE
    /\ UNCHANGED <<accepted, stored, faulty>>

Next == Accept \/ Store \/ Fault \/ Close

Spec == Init /\ [][Next]_logVars

=============================================================================
