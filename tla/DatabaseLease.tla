---------------------------- MODULE DatabaseLease ----------------------------
(***************************************************************************)
(* What the process promises about its database: whoever uses it finds it  *)
(* open until done, and it is closed once, when nobody uses it. Lifecycle  *)
(* implements this with its waits, its timeouts and its ways to fail.      *)
(***************************************************************************)
CONSTANT Users

VARIABLES open,    \* whether the connection pool is
          holders  \* who is using it

vars == <<open, holders>>

Init == open = TRUE /\ holders = {}

Acquire(u) ==
    /\ open
    /\ holders' = holders \cup {u}
    /\ UNCHANGED open

Release(u) ==
    /\ holders' = holders \ {u}
    /\ UNCHANGED open

Close ==
    /\ holders = {}
    /\ open' = FALSE
    /\ UNCHANGED holders

Next == Close \/ \E u \in Users : Acquire(u) \/ Release(u)

Spec == Init /\ [][Next]_vars

=============================================================================
