------------------------------ MODULE SignedLog ------------------------------
(***************************************************************************)
(* What the lease ledger promises a hub that writes it alone: one history  *)
(* that grows by an event at a time, whatever happens to the files it is   *)
(* kept in.  It may stop being readable; if it is read again, then with    *)
(* the event whose append was interrupted, never without it.               *)
(***************************************************************************)
EXTENDS Naturals, Sequences

CONSTANT Events

VARIABLES
    log,            \* the history read last
    reads,          \* it can be read now
    shared          \* two hubs have written at once: nothing is promised

vars == <<log, reads, shared>>

\* The first event is the schema marker of an initialised ledger.
Init == log \in {<<e>> : e \in Events} /\ reads = TRUE /\ shared = FALSE

Grow == reads' = TRUE /\ \E e \in Events : log' = Append(log, e)

Obscure == reads /\ reads' = FALSE /\ log' = log

Next == shared' \/ (~shared' /\ (Grow \/ Obscure))

Spec == Init /\ [][Next]_vars
=============================================================================
