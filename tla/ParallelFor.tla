---------------------------- MODULE ParallelFor ----------------------------
(***************************************************************************)
(* What ThreadPool::parallel_for promises its callers, with no thread in   *)
(* sight.  The pipeline stages rely on exactly this: a call names n tasks, *)
(* every index 0 .. n-1 is executed once, in any order and overlap, and    *)
(* the call returns only when all of them have ended, so that the captured *)
(* fn (a lambda on the caller's stack) is dead memory afterwards.          *)
(***************************************************************************)
EXTENDS Naturals

CONSTANT MaxTasks   \* the largest n a call names

VARIABLES
  busy,       \* a call is in progress
  n,          \* its number of tasks
  running,    \* indices whose fn(i) has begun and not ended
  completed,  \* indices whose fn(i) has ended
  closed      \* the pool is being destroyed

vars == <<busy, n, running, completed, closed>>

Indices == 0 .. n - 1

Init ==
  /\ busy = FALSE
  /\ n = 0
  /\ running = {}
  /\ completed = {}
  /\ closed = FALSE

Begin(k) ==
  /\ ~busy /\ ~closed
  /\ busy' = TRUE
  /\ n' = k
  /\ running' = {}
  /\ completed' = {}
  /\ UNCHANGED closed

Start(i) ==
  /\ busy
  /\ i \in Indices \ (running \cup completed)
  /\ running' = running \cup {i}
  /\ UNCHANGED <<busy, n, completed, closed>>

Finish(i) ==
  /\ i \in running
  /\ running' = running \ {i}
  /\ completed' = completed \cup {i}
  /\ UNCHANGED <<busy, n, closed>>

Return ==
  /\ busy
  /\ completed = Indices
  /\ busy' = FALSE
  /\ UNCHANGED <<n, running, completed, closed>>

Close ==
  /\ ~busy /\ ~closed
  /\ closed' = TRUE
  /\ UNCHANGED <<busy, n, running, completed>>

Next ==
  \/ \E k \in 1 .. MaxTasks : Begin(k)
  \/ \E i \in Indices : Start(i) \/ Finish(i)
  \/ Return
  \/ Close

\* Begun calls end: tasks terminate, and a call whose tasks all ended returns.
Fairness ==
  /\ WF_vars(\E i \in Indices : Start(i) \/ Finish(i))
  /\ WF_vars(Return)

Safety == Init /\ [][Next]_vars
Spec == Safety /\ Fairness
=============================================================================
