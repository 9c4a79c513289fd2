----------------------------- MODULE ThreadPool -----------------------------
(***************************************************************************)
(* core/src/thread_pool.cc: a fixed pool whose parallel_for also works on  *)
(* the calling thread.  Every critical section of m_ is one atomic step    *)
(* (none of them blocks inside), next_ is an atomic counter taken outside  *)
(* the lock, and the two condition variables are modelled by the threads   *)
(* asleep on them: a notify only wakes threads that already sleep, which   *)
(* is what makes a lost wake-up possible.                                  *)
(*                                                                         *)
(* The function passed to a call is represented by the number of the call: *)
(* a worker that runs "fn 3" while call 4 is in progress runs a dangling   *)
(* std::function.                                                          *)
(***************************************************************************)
EXTENDS Naturals, FiniteSets

CONSTANTS
  Workers,   \* the worker threads; the pool was built with Cardinality(Workers)+1
  Caller,    \* the thread that builds the pool, calls parallel_for, destroys it
  MaxTasks,  \* bound: largest n of a call
  MaxCalls   \* bound: number of parallel_for calls with n > 0

ASSUME PoolAssumption ==
  /\ IsFiniteSet(Workers)
  /\ Caller \notin Workers
  /\ MaxTasks \in Nat \ {0}
  /\ MaxCalls \in Nat

VARIABLES
  pc,          \* control point of each thread
  registered,  \* registered_
  generation,  \* generation_
  finished,    \* finished_
  next,        \* next_ (atomic)
  fn, n,       \* fn_, n_ as published under the lock
  stop,        \* stop_
  seen,        \* worker's local "seen"
  lfn, ln,     \* fn and n as each thread holds them in its locals
  task,        \* index each thread is executing
  calls,       \* number of calls begun: the identity of the current fn
  hits         \* history: how often each index ran under the current fn

shared == <<registered, generation, finished, next, fn, n, stop>>
locals == <<seen, lfn, ln, task>>
history == <<calls, hits>>
vars == <<pc, shared, locals, history>>

Threads == Workers \cup {Caller}
NWorkers == Cardinality(Workers)   \* nworkers_ and, once built, workers_.size()
Tasks == 0 .. MaxTasks - 1

WorkerPC == {"unborn", "start", "idle", "asleep", "claim", "exec", "checkin", "gone"}
CallerPC == {"spawn", "waitReg", "asleepReg", "ready", "inline", "inlineExec", "wake",
             "claim", "exec", "checkDone", "asleepDone", "stopWake", "join", "gone"}

\* The caller is inside parallel_for: the function it passed is alive.
InCall == pc[Caller] \in {"inline", "inlineExec", "wake", "claim", "exec",
                          "checkDone", "asleepDone"}

GoTo(t, p) == pc' = [pc EXCEPT ![t] = p]

Init ==
  /\ pc = [t \in Threads |-> IF t = Caller THEN "spawn" ELSE "unborn"]
  /\ registered = 0 /\ generation = 0 /\ finished = 0 /\ next = 0
  /\ fn = 0 /\ n = 0 /\ stop = FALSE
  /\ seen = [w \in Workers |-> 0]
  /\ lfn = [t \in Threads |-> 0]
  /\ ln = [t \in Threads |-> 0]
  /\ task = [t \in Threads |-> 0]
  /\ calls = 0
  /\ hits = [i \in Tasks |-> 0]

-----------------------------------------------------------------------------
(* Construction *)

\* emplace_back starts the worker's thread.
Spawn(w) ==
  /\ pc[Caller] = "spawn"
  /\ pc[w] = "unborn"
  /\ GoTo(w, "start")
  /\ UNCHANGED <<shared, locals, history>>

SpawnedAll ==
  /\ pc[Caller] = "spawn"
  /\ \A w \in Workers : pc[w] # "unborn"
  /\ GoTo(Caller, "waitReg")
  /\ UNCHANGED <<shared, locals, history>>

\* The predicate the constructor waits for (mutant: it does not wait).
NoWaitForRegistration == TRUE
AllRegistered == registered = NWorkers

\* One evaluation of the constructor's wait predicate: go on, or sleep.
CheckRegistered ==
  /\ pc[Caller] = "waitReg"
  /\ GoTo(Caller, IF AllRegistered THEN "ready" ELSE "asleepReg")
  /\ UNCHANGED <<shared, locals, history>>

\* A worker records its tid under the lock.
Register(w) ==
  /\ pc[w] = "start"
  /\ registered' = registered + 1
  /\ pc' = [pc EXCEPT ![w] = "idle",
                      ![Caller] = IF registered + 1 = NWorkers /\ @ = "asleepReg"
                                  THEN "waitReg" ELSE @]
  /\ UNCHANGED <<generation, finished, next, fn, n, stop, locals, history>>

-----------------------------------------------------------------------------
(* parallel_for: the call.  With n <= 0 it returns at once, changing nothing. *)

RunsInline(k) == Workers = {} \/ k = 1

BeginCall(k) ==
  /\ pc[Caller] = "ready"
  /\ calls < MaxCalls
  /\ calls' = calls + 1
  /\ lfn' = [lfn EXCEPT ![Caller] = calls + 1]
  /\ ln' = [ln EXCEPT ![Caller] = k]
  /\ hits' = [i \in Tasks |-> 0]
  /\ UNCHANGED <<registered, stop, seen>>

BeginInline(k) ==
  /\ RunsInline(k)
  /\ BeginCall(k)
  /\ GoTo(Caller, "inline")
  /\ task' = [task EXCEPT ![Caller] = 0]
  /\ UNCHANGED <<generation, finished, next, fn, n>>

\* The loop test of the inline loop: run fn(i), or return.
InlineTest ==
  LET i == task[Caller] IN
  /\ pc[Caller] = "inline"
  /\ \/ /\ i < ln[Caller]
        /\ GoTo(Caller, "inlineExec")
        /\ hits' = [hits EXCEPT ![i] = @ + 1]
     \/ /\ i >= ln[Caller]
        /\ GoTo(Caller, "ready")
        /\ UNCHANGED hits
  /\ UNCHANGED <<shared, locals, calls>>

InlineEnd ==
  /\ pc[Caller] = "inlineExec"
  /\ GoTo(Caller, "inline")
  /\ task' = [task EXCEPT ![Caller] = @ + 1]
  /\ UNCHANGED <<shared, seen, lfn, ln, history>>

\* What a call writes under the lock (mutants: a counter is not reset).
PublishKeepsFinished(k) ==
  /\ fn' = calls + 1 /\ n' = k /\ next' = 0
  /\ generation' = generation + 1 /\ UNCHANGED finished
PublishKeepsNext(k) ==
  /\ fn' = calls + 1 /\ n' = k /\ finished' = 0
  /\ generation' = generation + 1 /\ UNCHANGED next
PublishState(k) ==
  /\ fn' = calls + 1 /\ n' = k /\ next' = 0 /\ finished' = 0
  /\ generation' = generation + 1

Publish(k) ==
  /\ ~RunsInline(k)
  /\ BeginCall(k)
  /\ PublishState(k)
  /\ GoTo(Caller, "wake")
  /\ UNCHANGED task

\* notify_all on cv_: the threads asleep there re-evaluate their predicate
\* (mutant: notify_one).
OneWorkerWoken(p) ==
  LET asleep == {w \in Workers : pc[w] = "asleep"}
      woken == IF asleep = {} THEN {} ELSE {CHOOSE w \in asleep : TRUE}
  IN [t \in Threads |-> IF t = Caller THEN p ELSE IF t \in woken THEN "idle" ELSE pc[t]]
WorkersWoken(p) == [t \in Threads |-> IF t = Caller THEN p
                                      ELSE IF pc[t] = "asleep" THEN "idle" ELSE pc[t]]

WakeWorkers ==
  /\ pc[Caller] = "wake"
  /\ pc' = WorkersWoken("claim")
  /\ UNCHANGED <<shared, locals, history>>

-----------------------------------------------------------------------------
(* The shared loop: i = next_.fetch_add(1); while i < n, fn(i). *)

\* A fetched index is run while it is below the n the thread holds (mutant: <=).
RunsPastEnd(t, i) == i <= ln[t]
RunsIndex(t, i) == i < ln[t]

Claim(t) ==
  /\ pc[t] = "claim"
  /\ next' = next + 1
  /\ \/ /\ RunsIndex(t, next)
        /\ GoTo(t, "exec")
        /\ task' = [task EXCEPT ![t] = next]
        /\ hits' = [i \in Tasks |-> IF i = next /\ lfn[t] = calls THEN hits[i] + 1
                                    ELSE hits[i]]
     \/ /\ ~RunsIndex(t, next)
        /\ GoTo(t, IF t = Caller THEN "checkDone" ELSE "checkin")
        /\ UNCHANGED <<task, hits>>
  /\ UNCHANGED <<registered, generation, finished, fn, n, stop, seen, lfn, ln, calls>>

EndTask(t) ==
  /\ pc[t] = "exec"
  /\ GoTo(t, "claim")
  /\ UNCHANGED <<shared, locals, history>>

\* The predicate a call waits for before it returns (mutant: the indices have
\* all been handed out).
AllHandedOut == next >= n
AllFinished == finished = NWorkers

CheckDone ==
  /\ pc[Caller] = "checkDone"
  /\ GoTo(Caller, IF AllFinished THEN "ready" ELSE "asleepDone")
  /\ UNCHANGED <<shared, locals, history>>

-----------------------------------------------------------------------------
(* ThreadPool::worker *)

HasWork(w) == stop \/ generation # seen[w]

WorkerSleep(w) ==
  /\ pc[w] = "idle"
  /\ ~HasWork(w)
  /\ GoTo(w, "asleep")
  /\ UNCHANGED <<shared, locals, history>>

WorkerExit(w) ==
  /\ pc[w] = "idle"
  /\ stop
  /\ GoTo(w, "gone")
  /\ UNCHANGED <<shared, locals, history>>

\* The worker copies fn and n into its locals under the lock.
WorkerTake(w) ==
  /\ pc[w] = "idle"
  /\ ~stop /\ HasWork(w)
  /\ GoTo(w, "claim")
  /\ seen' = [seen EXCEPT ![w] = generation]
  /\ lfn' = [lfn EXCEPT ![w] = fn]
  /\ ln' = [ln EXCEPT ![w] = n]
  /\ UNCHANGED <<shared, task, history>>

\* The check-in that notifies the caller (mutant: it is only told early).
WakesCallerEarly(count) == count < NWorkers
WakesCaller(count) == count = NWorkers

CheckIn(w) ==
  /\ pc[w] = "checkin"
  /\ finished' = finished + 1
  /\ pc' = [pc EXCEPT ![w] = "idle",
                      ![Caller] = IF WakesCaller(finished + 1) /\ @ = "asleepDone"
                                  THEN "checkDone" ELSE @]
  /\ UNCHANGED <<registered, generation, next, fn, n, stop, locals, history>>

\* A condition variable may wake a thread that nobody notified.
SpuriousWakeup(t) ==
  /\ pc[t] \in {"asleep", "asleepReg", "asleepDone"}
  /\ GoTo(t, CASE pc[t] = "asleep" -> "idle"
               [] pc[t] = "asleepReg" -> "waitReg"
               [] pc[t] = "asleepDone" -> "checkDone")
  /\ UNCHANGED <<shared, locals, history>>

-----------------------------------------------------------------------------
(* ~ThreadPool *)

Stop ==
  /\ pc[Caller] = "ready"
  /\ stop' = TRUE
  /\ GoTo(Caller, "stopWake")
  /\ UNCHANGED <<registered, generation, finished, next, fn, n, locals, history>>

StopWake ==
  /\ pc[Caller] = "stopWake"
  /\ pc' = WorkersWoken("join")
  /\ UNCHANGED <<shared, locals, history>>

Join ==
  /\ pc[Caller] = "join"
  /\ \A w \in Workers : pc[w] = "gone"
  /\ GoTo(Caller, "gone")
  /\ UNCHANGED <<shared, locals, history>>

\* The pool is gone: nothing more happens (any other halt is a deadlock).
Destroyed ==
  /\ pc[Caller] = "gone"
  /\ UNCHANGED vars

-----------------------------------------------------------------------------

WorkerStep(w) ==
  \/ Register(w) \/ WorkerSleep(w) \/ WorkerExit(w) \/ WorkerTake(w)
  \/ Claim(w) \/ EndTask(w) \/ CheckIn(w)

CallerStep ==
  \/ \E w \in Workers : Spawn(w)
  \/ SpawnedAll \/ CheckRegistered \/ InlineTest \/ InlineEnd \/ WakeWorkers
  \/ Claim(Caller) \/ EndTask(Caller) \/ CheckDone \/ StopWake \/ Join

Next ==
  \/ CallerStep
  \/ \E k \in 1 .. MaxTasks : BeginInline(k) \/ Publish(k)
  \/ Stop
  \/ \E w \in Workers : WorkerStep(w)
  \/ \E t \in Threads : SpuriousWakeup(t)
  \/ Destroyed

\* The OS runs every runnable thread and tasks terminate.  Starting a call,
\* destroying the pool and spurious wake-ups are nobody's obligation.
Fairness == WF_vars(CallerStep) /\ \A w \in Workers : WF_vars(WorkerStep(w))

Safety == Init /\ [][Next]_vars
Spec == Safety /\ Fairness

-----------------------------------------------------------------------------
(* Properties *)

\* Every variable has its type, the counters stay within their ranges.
TypeOK ==
  /\ pc \in [Threads -> WorkerPC \cup CallerPC]
  /\ \A w \in Workers : pc[w] \in WorkerPC
  /\ pc[Caller] \in CallerPC
  /\ registered \in 0 .. NWorkers
  /\ finished \in 0 .. NWorkers
  /\ generation \in 0 .. MaxCalls
  /\ next \in Nat
  /\ fn \in 0 .. MaxCalls
  /\ n \in 0 .. MaxTasks
  /\ stop \in BOOLEAN
  /\ seen \in [Workers -> 0 .. MaxCalls]
  /\ lfn \in [Threads -> 0 .. MaxCalls]
  /\ ln \in [Threads -> 0 .. MaxTasks]
  /\ task \in [Threads -> 0 .. MaxTasks]
  /\ calls \in 0 .. MaxCalls
  /\ hits \in [Tasks -> Nat]

\* The race the class comment is about: a thread that is about to fetch an
\* index, or runs one, holds the function and the n of the call in progress.
\* A worker left over from an earlier call would run a dangling std::function
\* and eat an index of this one.
NoStaleFunction ==
  \A t \in Threads :
    pc[t] \in {"claim", "exec"} =>
      InCall /\ lfn[t] = calls /\ ln[t] = ln[Caller]

\* What the thread pool test counts: no index runs twice, and when the call
\* has returned each of the n indices ran exactly once.
EachIndexOnce ==
  \A i \in Tasks :
    /\ hits[i] <= (IF i < ln[Caller] THEN 1 ELSE 0)
    /\ pc[Caller] = "ready" /\ i < ln[Caller] => hits[i] = 1

\* tids() and the ADPF session see every worker: the constructor returns only
\* when all of them have recorded their tid.
BuiltMeansRegistered ==
  pc[Caller] \notin {"spawn", "waitReg", "asleepReg"} =>
    \A w \in Workers : pc[w] \notin {"unborn", "start"}

\* No wake-up is lost: a worker sleeps on cv_ although there is work or an end
\* only as long as the notification is still to come, and whoever the caller
\* waits for is on its way: a worker that has yet to register, one that runs or
\* is about to take this call's function, and at the join all that are not gone.
NoLostWakeup ==
  /\ \A w \in Workers : pc[w] = "asleep" /\ HasWork(w) => pc[Caller] \in {"wake", "stopWake"}
  /\ pc[Caller] = "asleepReg" => \E w \in Workers : pc[w] = "start"
  /\ pc[Caller] = "asleepDone" =>
       \E w \in Workers : pc[w] \in {"claim", "exec", "checkin"} \/ (pc[w] = "idle" /\ HasWork(w))
  /\ pc[Caller] = "join" => \A w \in Workers : pc[w] \in {"idle", "gone"}

\* Every wait ends, and the constructor's not too early.
WaitsMatchWork == BuiltMeansRegistered /\ NoLostWakeup

\* What follows from it under fairness: the constructor and every call return,
\* and the destructor joins all workers.
CallerNeverStuck ==
  /\ <>(pc[Caller] = "ready")
  /\ InCall ~> (pc[Caller] = "ready")
  /\ stop ~> (pc[Caller] = "gone")

\* The pool implements ParallelFor: a call's tasks are running while some
\* thread executes them, completed when they ran and no thread is at them.
Running == {task[t] : t \in {u \in Threads : pc[u] \in {"exec", "inlineExec"}}}
PF == INSTANCE ParallelFor WITH
        busy <- InCall,
        n <- ln[Caller],
        running <- Running,
        completed <- {i \in Tasks : hits[i] > 0} \ Running,
        closed <- stop
ImplementsParallelFor == PF!Spec
=============================================================================
