----------------------------- MODULE SyncRounds -----------------------------
(***************************************************************************)
(* What a bulk-synchronous mode promises its workers.                      *)
(*                                                                         *)
(* A run is a series of R rounds.  In a round every worker contributes     *)
(* once, from the model of the previous round; the round closes over       *)
(* exactly those contributions; then every worker installs the model that  *)
(* closed it and only then contributes again.  The modes that claim to be  *)
(* synchronous are shown to implement this module; it maps to no code.     *)
(***************************************************************************)
EXTENDS Integers

CONSTANTS
  Worker,   \* the workers of the run
  R         \* rounds, a natural number

VARIABLES
  contributed,  \* worker: rounds it has contributed to
  closed,       \* rounds that are closed
  installed     \* worker: rounds whose model it has installed

vars == <<contributed, closed, installed>>

Init ==
  /\ contributed = [w \in Worker |-> 0]
  /\ closed = 0
  /\ installed = [w \in Worker |-> 0]

\* A worker contributes to its next round from the last closed model.
Contribute(w) ==
  /\ contributed[w] < R
  /\ installed[w] = contributed[w]
  /\ contributed' = [contributed EXCEPT ![w] = @ + 1]
  /\ UNCHANGED <<closed, installed>>

\* The round closes over one contribution of every worker.
Close ==
  /\ closed < R
  /\ \A w \in Worker : contributed[w] = closed + 1
  /\ closed' = closed + 1
  /\ UNCHANGED <<contributed, installed>>

\* A worker takes over the model of the round that was just closed.
Install(w) ==
  /\ installed[w] < closed
  /\ installed' = [installed EXCEPT ![w] = @ + 1]
  /\ UNCHANGED <<contributed, closed>>

Next == Close \/ \E w \in Worker : Contribute(w) \/ Install(w)

Spec == Init /\ [][Next]_vars

----------------------------------------------------------------------------
TypeOK ==
  /\ contributed \in [Worker -> 0..R]
  /\ closed \in 0..R
  /\ installed \in [Worker -> 0..R]

\* A contribution is made from the newest closed model and is waited for: no
\* worker is more than one round ahead of what is closed, or of another worker.
Lockstep ==
  \A w \in Worker :
    /\ installed[w] <= closed /\ closed <= contributed[w]
    /\ contributed[w] <= installed[w] + 1
=============================================================================
