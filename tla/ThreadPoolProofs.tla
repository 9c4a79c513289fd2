-------------------------- MODULE ThreadPoolProofs --------------------------
(***************************************************************************)
(* Proofs about ThreadPool for any finite set of workers, any number of    *)
(* calls and any number of tasks per call.                                 *)
(***************************************************************************)
EXTENDS ThreadPool, FiniteSetTheorems, TLAPS

Building == pc[Caller] \in {"spawn", "waitReg", "asleepReg"}

\* A parallel call is in progress (an inline one never wakes the workers).
Parallel == pc[Caller] \in {"wake", "claim", "exec", "checkDone", "asleepDone"}

Active(w) == pc[w] \in {"claim", "exec", "checkin"}

\* The workers that have consumed the current generation.
CheckedIn == {w \in Workers : seen[w] = generation /\ ~Active(w)}
RegisteredWorkers == {w \in Workers : pc[w] \notin {"unborn", "start"}}

\* The constructor: nothing is published before every worker has registered.
BuildInv ==
  /\ registered = Cardinality(RegisteredWorkers)
  /\ ~Building => RegisteredWorkers = Workers
  /\ Building => generation = 0 /\ finished = 0

\* Workers and generations: a worker is active only inside a parallel call,
\* on that call's function; between calls all have checked in.
GenerationInv ==
  /\ \A w \in Workers : Active(w) =>
       /\ Parallel
       /\ seen[w] = generation
       /\ lfn[w] = calls /\ ln[w] = ln[Caller]
  /\ ~Parallel => \A w \in Workers : seen[w] = generation
  /\ InCall => lfn[Caller] = calls
  /\ Parallel => /\ fn = calls /\ n = ln[Caller]
                 /\ finished = Cardinality(CheckedIn)
  /\ generation <= calls

\* The history against the atomic counter: exactly the fetched indices ran.
Ran(i) ==
  /\ i < ln[Caller]
  /\ Parallel => i < next
  /\ pc[Caller] = "inline" => i < task[Caller]
  /\ pc[Caller] = "inlineExec" => i <= task[Caller]
HitsInv == \A i \in Tasks : hits[i] = IF Ran(i) THEN 1 ELSE 0

LoopInv ==
  /\ pc[Caller] \in {"checkDone", "asleepDone"} => next >= ln[Caller]
  /\ pc[Caller] = "inline" => task[Caller] <= ln[Caller]
  /\ pc[Caller] = "inlineExec" => task[Caller] < ln[Caller]

Inv == TypeOK /\ BuildInv /\ GenerationInv /\ HitsInv /\ LoopInv

-----------------------------------------------------------------------------
\* Counting workers: a set of workers has at most NWorkers members, and that
\* many only when it holds them all.
LEMMA WorkerCounts ==
  ASSUME NEW S \in SUBSET Workers
  PROVE  /\ Cardinality(S) \in 0 .. NWorkers
         /\ Cardinality(S) = NWorkers => S = Workers
         /\ \A w \in Workers \ S : Cardinality(S \cup {w}) = Cardinality(S) + 1
<1>1. IsFiniteSet(Workers)
  BY PoolAssumption
<1>2. /\ IsFiniteSet(S) /\ Cardinality(S) <= Cardinality(Workers)
      /\ Cardinality(S) = Cardinality(Workers) => S = Workers
  BY <1>1, FS_Subset
<1>3. Cardinality(S) \in Nat /\ Cardinality(Workers) \in Nat
  BY <1>1, <1>2, FS_CardinalityType
<1>4. \A w \in Workers \ S : Cardinality(S \cup {w}) = Cardinality(S) + 1
  BY <1>2, FS_AddElement
<1> QED
  BY <1>2, <1>3, <1>4 DEF NWorkers

\* The pool's initial state satisfies the invariant.
LEMMA InitInv == Init => Inv
<1> SUFFICES ASSUME Init PROVE Inv
  OBVIOUS
<1>1. NWorkers \in Nat
  BY PoolAssumption, FS_CardinalityType DEF NWorkers
<1>2. TypeOK
  <2>1. pc \in [Threads -> WorkerPC \cup CallerPC]
    BY DEF Init, Threads, WorkerPC, CallerPC
  <2>2. /\ \A w \in Workers : pc[w] \in WorkerPC
        /\ pc[Caller] \in CallerPC
    BY PoolAssumption DEF Init, Threads, WorkerPC, CallerPC
  <2>3. hits \in [Tasks -> Nat]
    BY DEF Init
  <2>4. /\ seen \in [Workers -> 0 .. MaxCalls]
        /\ lfn \in [Threads -> 0 .. MaxCalls]
        /\ ln \in [Threads -> 0 .. MaxTasks]
        /\ task \in [Threads -> 0 .. MaxTasks]
    BY PoolAssumption DEF Init
  <2>5. /\ registered \in 0 .. NWorkers /\ finished \in 0 .. NWorkers
        /\ generation \in 0 .. MaxCalls /\ next \in Nat /\ fn \in 0 .. MaxCalls
        /\ n \in 0 .. MaxTasks /\ calls \in 0 .. MaxCalls
    BY <1>1, PoolAssumption DEF Init
  <2>6. stop \in BOOLEAN
    BY DEF Init
  <2> QED
    BY <2>1, <2>2, <2>3, <2>4, <2>5, <2>6 DEF TypeOK
<1>3. BuildInv
  <2>1. RegisteredWorkers = {}
    BY PoolAssumption DEF Init, RegisteredWorkers, Threads
  <2> QED
    BY <2>1, FS_EmptySet, PoolAssumption DEF Init, BuildInv, Building, Threads
<1>4. GenerationInv
  BY PoolAssumption DEF Init, GenerationInv, Active, Parallel, InCall, Threads
<1>5. HitsInv /\ LoopInv
  BY PoolAssumption DEF Init, HitsInv, Ran, LoopInv, Parallel, Threads, Tasks
<1> QED
  BY <1>2, <1>3, <1>4, <1>5 DEF Inv

\* Every step keeps the constructor's registration count exact.
LEMMA BuildStep == Inv /\ [Next]_vars => BuildInv'
<1> SUFFICES ASSUME Inv, [Next]_vars PROVE BuildInv'
  OBVIOUS
<1> USE PoolAssumption DEF Inv, TypeOK, Threads, GoTo
<1>1. ASSUME NEW w \in Workers, Spawn(w) PROVE BuildInv'
  BY <1>1 DEF Spawn, shared, locals, history, BuildInv, Building, RegisteredWorkers, WorkerPC, CallerPC
<1>2. ASSUME SpawnedAll PROVE BuildInv'
  BY <1>2 DEF SpawnedAll, shared, locals, history, BuildInv, Building, RegisteredWorkers, WorkerPC, CallerPC
<1>3. ASSUME CheckRegistered PROVE BuildInv'
  <2>1. AllRegistered => RegisteredWorkers = Workers
    BY WorkerCounts DEF BuildInv, AllRegistered, RegisteredWorkers
  <2>2. RegisteredWorkers' = RegisteredWorkers
    BY <1>3 DEF CheckRegistered, RegisteredWorkers, shared, locals, history
  <2> QED
    BY <1>3, <2>1, <2>2 DEF CheckRegistered, BuildInv, Building, shared, locals, history
<1>4. ASSUME NEW w \in Workers, Register(w) PROVE BuildInv'
  <2>1. w \in Workers \ RegisteredWorkers
    BY <1>4 DEF Register, RegisteredWorkers
  <2>2. RegisteredWorkers' = RegisteredWorkers \cup {w}
    BY <1>4 DEF Register, RegisteredWorkers
  <2>3. registered' = Cardinality(RegisteredWorkers')
    BY <1>4, <2>1, <2>2, WorkerCounts DEF Register, BuildInv, RegisteredWorkers
  <2>4. Building' = Building /\ Building
    BY <1>4, <2>1 DEF Register, Building, BuildInv
  <2> QED
    BY <1>4, <2>3, <2>4 DEF Register, BuildInv, locals, history
<1>5. ASSUME NEW k \in 1 .. MaxTasks, BeginInline(k) PROVE BuildInv'
  BY <1>5 DEF BeginInline, BeginCall, shared, locals, history, BuildInv, Building, RegisteredWorkers, WorkerPC, CallerPC
<1>6. ASSUME InlineTest PROVE BuildInv'
  BY <1>6 DEF InlineTest, shared, locals, history, BuildInv, Building, RegisteredWorkers, WorkerPC, CallerPC
<1>7. ASSUME InlineEnd PROVE BuildInv'
  BY <1>7 DEF InlineEnd, shared, locals, history, BuildInv, Building, RegisteredWorkers, WorkerPC, CallerPC
<1>8. ASSUME NEW k \in 1 .. MaxTasks, Publish(k) PROVE BuildInv'
  BY <1>8 DEF Publish, BeginCall, PublishState, RunsInline, shared, locals, history, BuildInv, Building, RegisteredWorkers, WorkerPC, CallerPC
<1>9. ASSUME WakeWorkers PROVE BuildInv'
  BY <1>9 DEF WakeWorkers, WorkersWoken, shared, locals, history, BuildInv, Building, RegisteredWorkers, WorkerPC, CallerPC
<1>10. ASSUME NEW t \in Threads, Claim(t) PROVE BuildInv'
  BY <1>10 DEF Claim, RunsIndex, shared, locals, history, BuildInv, Building, RegisteredWorkers, WorkerPC, CallerPC
<1>11. ASSUME NEW t \in Threads, EndTask(t) PROVE BuildInv'
  BY <1>11 DEF EndTask, shared, locals, history, BuildInv, Building, RegisteredWorkers, WorkerPC, CallerPC
<1>12. ASSUME CheckDone PROVE BuildInv'
  BY <1>12 DEF CheckDone, AllFinished, shared, locals, history, BuildInv, Building, RegisteredWorkers, WorkerPC, CallerPC
<1>13. ASSUME NEW w \in Workers, WorkerSleep(w) PROVE BuildInv'
  BY <1>13 DEF WorkerSleep, HasWork, shared, locals, history, BuildInv, Building, RegisteredWorkers, WorkerPC, CallerPC
<1>14. ASSUME NEW w \in Workers, WorkerExit(w) PROVE BuildInv'
  BY <1>14 DEF WorkerExit, shared, locals, history, BuildInv, Building, RegisteredWorkers, WorkerPC, CallerPC
<1>15. ASSUME NEW w \in Workers, WorkerTake(w) PROVE BuildInv'
  BY <1>15 DEF WorkerTake, HasWork, shared, locals, history, BuildInv, Building, RegisteredWorkers, WorkerPC, CallerPC
<1>16. ASSUME NEW w \in Workers, CheckIn(w) PROVE BuildInv'
  <2>1. ~Building /\ ~Building'
    BY <1>16 DEF CheckIn, Building, GenerationInv, Active, Parallel
  <2>2. RegisteredWorkers' = RegisteredWorkers
    BY <1>16 DEF CheckIn, RegisteredWorkers
  <2> QED
    BY <1>16, <2>1, <2>2 DEF CheckIn, BuildInv
<1>17. ASSUME NEW t \in Threads, SpuriousWakeup(t) PROVE BuildInv'
  BY <1>17 DEF SpuriousWakeup, shared, locals, history, BuildInv, Building, RegisteredWorkers, WorkerPC, CallerPC
<1>18. ASSUME Stop PROVE BuildInv'
  BY <1>18 DEF Stop, shared, locals, history, BuildInv, Building, RegisteredWorkers, WorkerPC, CallerPC
<1>19. ASSUME StopWake PROVE BuildInv'
  BY <1>19 DEF StopWake, WorkersWoken, shared, locals, history, BuildInv, Building, RegisteredWorkers, WorkerPC, CallerPC
<1>20. ASSUME Join PROVE BuildInv'
  BY <1>20 DEF Join, shared, locals, history, BuildInv, Building, RegisteredWorkers, WorkerPC, CallerPC
<1>21. CASE UNCHANGED vars
  BY <1>21 DEF vars, shared, locals, history, shared, locals, history, BuildInv, Building, RegisteredWorkers, WorkerPC, CallerPC
<1> QED
  BY <1>1, <1>2, <1>3, <1>4, <1>5, <1>6, <1>7, <1>8, <1>9, <1>10, <1>11, <1>12, <1>13, <1>14, <1>15, <1>16, <1>17, <1>18, <1>19, <1>20, <1>21 DEF Next, CallerStep, WorkerStep, Destroyed

\* Every step keeps workers on the generation and function of the call in
\* progress, and finished_ equal to the number of workers that consumed it.
LEMMA GenerationStep == Inv /\ [Next]_vars => GenerationInv'
<1> SUFFICES ASSUME Inv, [Next]_vars PROVE GenerationInv'
  OBVIOUS
<1> USE PoolAssumption DEF Inv, TypeOK, Threads, GoTo
<1>1. ASSUME NEW w \in Workers, Spawn(w) PROVE GenerationInv'
  BY <1>1 DEF Spawn, shared, locals, history, GenerationInv, Active, Parallel, InCall, CheckedIn
<1>2. ASSUME SpawnedAll PROVE GenerationInv'
  BY <1>2 DEF SpawnedAll, shared, locals, history, GenerationInv, Active, Parallel, InCall, CheckedIn
<1>3. ASSUME CheckRegistered PROVE GenerationInv'
  BY <1>3 DEF CheckRegistered, AllRegistered, shared, locals, history, GenerationInv, Active, Parallel, InCall, CheckedIn
<1>4. ASSUME NEW w \in Workers, Register(w) PROVE GenerationInv'
  BY <1>4 DEF Register, shared, locals, history, GenerationInv, Active, Parallel, InCall, CheckedIn
<1>5. ASSUME NEW k \in 1 .. MaxTasks, BeginInline(k) PROVE GenerationInv'
  BY <1>5 DEF BeginInline, BeginCall, shared, locals, history, GenerationInv, Active, Parallel, InCall, CheckedIn
<1>6. ASSUME InlineTest PROVE GenerationInv'
  BY <1>6 DEF InlineTest, shared, locals, history, GenerationInv, Active, Parallel, InCall, CheckedIn
<1>7. ASSUME InlineEnd PROVE GenerationInv'
  BY <1>7 DEF InlineEnd, shared, locals, history, GenerationInv, Active, Parallel, InCall, CheckedIn
<1>8. ASSUME NEW k \in 1 .. MaxTasks, Publish(k) PROVE GenerationInv'
  <2>1. \A v \in Workers : seen[v] = generation /\ ~Active(v) /\ ~Active(v)'
    BY <1>8 DEF Publish, BeginCall, GenerationInv, Active, Parallel
  <2>2. CheckedIn' = {} /\ generation' <= calls'
    BY <1>8, <2>1 DEF Publish, BeginCall, PublishState, CheckedIn, GenerationInv
  <2>3. finished' = Cardinality(CheckedIn')
    BY <1>8, <2>2, FS_EmptySet DEF Publish, PublishState
  <2> QED
    BY <1>8, <2>1, <2>2, <2>3 DEF Publish, BeginCall, PublishState, GenerationInv,
       Parallel, InCall
<1>9. ASSUME WakeWorkers PROVE GenerationInv'
  BY <1>9 DEF WakeWorkers, WorkersWoken, shared, locals, history, GenerationInv, Active, Parallel, InCall, CheckedIn
<1>10. ASSUME NEW t \in Threads, Claim(t) PROVE GenerationInv'
  <2>1. \A w \in Workers : Active(w)' <=> Active(w)
    BY <1>10 DEF Claim, Active
  <2>2. CheckedIn' = CheckedIn
    BY <1>10, <2>1 DEF Claim, CheckedIn
  <2>3. Parallel' = Parallel /\ InCall' = InCall
    BY <1>10 DEF Claim, Parallel, InCall
  <2> QED
    BY <1>10, <2>1, <2>2, <2>3 DEF Claim, GenerationInv
<1>11. ASSUME NEW t \in Threads, EndTask(t) PROVE GenerationInv'
  BY <1>11 DEF EndTask, shared, locals, history, GenerationInv, Active, Parallel, InCall, CheckedIn
<1>12. ASSUME CheckDone PROVE GenerationInv'
  <2>1. \A w \in Workers : Active(w)' <=> Active(w)
    BY <1>12 DEF CheckDone, Active
  <2>2. CheckedIn' = CheckedIn
    BY <1>12, <2>1 DEF CheckDone, CheckedIn, shared, locals
  <2>3. AllFinished => CheckedIn = Workers
    BY <1>12, WorkerCounts DEF CheckDone, AllFinished, GenerationInv, Parallel, CheckedIn
  <2>4. CASE AllFinished
    BY <1>12, <2>1, <2>3, <2>4 DEF CheckDone, GenerationInv, CheckedIn, Parallel,
       InCall, shared, locals, history
  <2>5. CASE ~AllFinished
    BY <1>12, <2>1, <2>2, <2>5 DEF CheckDone, GenerationInv, Parallel, InCall,
       shared, locals, history
  <2> QED
    BY <2>4, <2>5
<1>13. ASSUME NEW w \in Workers, WorkerSleep(w) PROVE GenerationInv'
  BY <1>13 DEF WorkerSleep, HasWork, shared, locals, history, GenerationInv, Active, Parallel, InCall, CheckedIn
<1>14. ASSUME NEW w \in Workers, WorkerExit(w) PROVE GenerationInv'
  BY <1>14 DEF WorkerExit, shared, locals, history, GenerationInv, Active, Parallel, InCall, CheckedIn
<1>15. ASSUME NEW w \in Workers, WorkerTake(w) PROVE GenerationInv'
  BY <1>15 DEF WorkerTake, HasWork, shared, locals, history, GenerationInv, Active, Parallel, InCall, CheckedIn
<1>16. ASSUME NEW w \in Workers, CheckIn(w) PROVE GenerationInv'
  <2>1. /\ Active(w) /\ ~Active(w)'
        /\ \A v \in Workers \ {w} : Active(v)' <=> Active(v)
    BY <1>16 DEF CheckIn, Active
  <2>2. Parallel /\ Parallel' /\ seen[w] = generation
    BY <1>16, <2>1 DEF CheckIn, GenerationInv, Parallel
  <2>3. w \in Workers \ CheckedIn /\ CheckedIn' = CheckedIn \cup {w}
    BY <1>16, <2>1, <2>2 DEF CheckIn, CheckedIn, locals
  <2>4. finished' = Cardinality(CheckedIn')
    BY <1>16, <2>2, <2>3, WorkerCounts DEF CheckIn, CheckedIn, GenerationInv
  <2> QED
    BY <1>16, <2>1, <2>2, <2>4 DEF CheckIn, GenerationInv, InCall, Parallel,
       locals, history
<1>17. ASSUME NEW t \in Threads, SpuriousWakeup(t) PROVE GenerationInv'
  BY <1>17 DEF SpuriousWakeup, shared, locals, history, GenerationInv, Active, Parallel, InCall, CheckedIn
<1>18. ASSUME Stop PROVE GenerationInv'
  BY <1>18 DEF Stop, shared, locals, history, GenerationInv, Active, Parallel, InCall, CheckedIn
<1>19. ASSUME StopWake PROVE GenerationInv'
  BY <1>19 DEF StopWake, WorkersWoken, shared, locals, history, GenerationInv, Active, Parallel, InCall, CheckedIn
<1>20. ASSUME Join PROVE GenerationInv'
  BY <1>20 DEF Join, shared, locals, history, GenerationInv, Active, Parallel, InCall, CheckedIn
<1>21. CASE UNCHANGED vars
  BY <1>21 DEF vars, shared, locals, history, shared, locals, history, GenerationInv, Active, Parallel, InCall, CheckedIn
<1> QED
  BY <1>1, <1>2, <1>3, <1>4, <1>5, <1>6, <1>7, <1>8, <1>9, <1>10, <1>11, <1>12, <1>13, <1>14, <1>15, <1>16, <1>17, <1>18, <1>19, <1>20, <1>21 DEF Next, CallerStep, WorkerStep, Destroyed

\* Every step keeps the history equal to what the index counter handed out.
LEMMA HitsStep == Inv /\ [Next]_vars => HitsInv'
<1> SUFFICES ASSUME Inv, [Next]_vars PROVE HitsInv'
  OBVIOUS
<1> USE PoolAssumption DEF Inv, TypeOK, Threads, GoTo
<1>1. ASSUME NEW w \in Workers, Spawn(w) PROVE HitsInv'
  BY <1>1 DEF Spawn, shared, locals, history, HitsInv, Ran, LoopInv, GenerationInv, Parallel, InCall, Tasks
<1>2. ASSUME SpawnedAll PROVE HitsInv'
  BY <1>2 DEF SpawnedAll, shared, locals, history, HitsInv, Ran, LoopInv, GenerationInv, Parallel, InCall, Tasks
<1>3. ASSUME CheckRegistered PROVE HitsInv'
  BY <1>3 DEF CheckRegistered, AllRegistered, shared, locals, history, HitsInv, Ran, LoopInv, GenerationInv, Parallel, InCall, Tasks
<1>4. ASSUME NEW w \in Workers, Register(w) PROVE HitsInv'
  BY <1>4 DEF Register, shared, locals, history, HitsInv, Ran, LoopInv, GenerationInv, Parallel, InCall, Tasks
<1>5. ASSUME NEW k \in 1 .. MaxTasks, BeginInline(k) PROVE HitsInv'
  BY <1>5 DEF BeginInline, BeginCall, shared, locals, history, HitsInv, Ran, LoopInv, GenerationInv, Parallel, InCall, Tasks
<1>6. ASSUME InlineTest PROVE HitsInv'
  <2>1. ~Parallel /\ ~Parallel' /\ pc[Caller] = "inline" /\ ln' = ln /\ task' = task /\ next' = next
    BY <1>6 DEF InlineTest, shared, locals, Parallel, InCall
  <2>2. task[Caller] \in Nat /\ task[Caller] <= ln[Caller] /\ ln[Caller] \in 0 .. MaxTasks
    BY <2>1 DEF LoopInv, Tasks
  <2>3. CASE task[Caller] < ln[Caller]
    <3>1. pc'[Caller] = "inlineExec" /\ hits' = [hits EXCEPT ![task[Caller]] = @ + 1]
      BY <1>6, <2>2, <2>3 DEF InlineTest
    <3>2. \A i \in Tasks : Ran(i)' <=> Ran(i) \/ i = task[Caller]
      BY <2>1, <2>2, <2>3, <3>1 DEF Ran, Tasks
    <3>3. ~Ran(task[Caller]) /\ \A i \in Tasks : hits'[i] = IF i = task[Caller] THEN hits[i] + 1 ELSE hits[i]
      BY <2>1, <3>1 DEF Ran
    <3> QED  BY <3>2, <3>3 DEF HitsInv
  <2>4. CASE task[Caller] >= ln[Caller]
    <3>1. pc'[Caller] = "ready" /\ hits' = hits
      BY <1>6, <2>2, <2>4 DEF InlineTest
    <3>2. \A i \in Tasks : Ran(i)' <=> Ran(i)
      BY <2>1, <2>2, <2>4, <3>1 DEF Ran, Tasks
    <3> QED  BY <3>1, <3>2 DEF HitsInv
  <2> QED  BY <2>2, <2>3, <2>4
<1>7. ASSUME InlineEnd PROVE HitsInv'
  BY <1>7 DEF InlineEnd, shared, locals, history, HitsInv, Ran, LoopInv, GenerationInv, Parallel, InCall, Tasks
<1>8. ASSUME NEW k \in 1 .. MaxTasks, Publish(k) PROVE HitsInv'
  BY <1>8 DEF Publish, BeginCall, PublishState, RunsInline, shared, locals, history, HitsInv, Ran, LoopInv, GenerationInv, Parallel, InCall, Tasks
<1>9. ASSUME WakeWorkers PROVE HitsInv'
  BY <1>9 DEF WakeWorkers, WorkersWoken, shared, locals, history, HitsInv, Ran, LoopInv, GenerationInv, Parallel, InCall, Tasks
<1>10. ASSUME NEW t \in Threads, Claim(t) PROVE HitsInv'
  <2>1. Parallel /\ Parallel' /\ lfn[t] = calls /\ ln[t] = ln[Caller]
    BY <1>10 DEF Claim, GenerationInv, Active, Parallel, InCall
  <2>2. /\ next' = next + 1 /\ ln' = ln /\ next \in Nat
        /\ \A i \in Tasks : i \in Nat
        /\ pc'[Caller] \notin {"inline", "inlineExec"}
        /\ pc[Caller] \notin {"inline", "inlineExec"}
    <3>1. next' = next + 1 /\ ln' = ln /\ next \in Nat /\ \A i \in Tasks : i \in Nat
      BY <1>10 DEF Claim, Tasks
    <3>2. pc[Caller] \notin {"inline", "inlineExec"}
      BY <2>1 DEF Parallel
    <3>3. pc'[Caller] \notin {"inline", "inlineExec"}
      BY <2>1 DEF Parallel
    <3> QED  BY <3>1, <3>2, <3>3
  <2>3. CASE next < ln[t]
    <3>1. hits' = [i \in Tasks |-> IF i = next THEN hits[i] + 1 ELSE hits[i]]
      BY <1>10, <2>1, <2>3 DEF Claim, RunsIndex
    <3> QED
      BY <2>1, <2>2, <2>3, <3>1 DEF HitsInv, Ran, Tasks
  <2>4. CASE ~(next < ln[t])
    <3>1. hits' = hits
      BY <1>10, <2>1, <2>4 DEF Claim, RunsIndex
    <3>2. \A i \in Tasks : Ran(i)' <=> Ran(i)
      BY <2>1, <2>2, <2>4 DEF Ran, Tasks
    <3> QED
      BY <3>1, <3>2 DEF HitsInv
  <2> QED
    BY <2>3, <2>4
<1>11. ASSUME NEW t \in Threads, EndTask(t) PROVE HitsInv'
  BY <1>11 DEF EndTask, shared, locals, history, HitsInv, Ran, LoopInv, GenerationInv, Parallel, InCall, Tasks
<1>12. ASSUME CheckDone PROVE HitsInv'
  BY <1>12 DEF CheckDone, AllFinished, shared, locals, history, HitsInv, Ran, LoopInv, GenerationInv, Parallel, InCall, Tasks
<1>13. ASSUME NEW w \in Workers, WorkerSleep(w) PROVE HitsInv'
  BY <1>13 DEF WorkerSleep, HasWork, shared, locals, history, HitsInv, Ran, LoopInv, GenerationInv, Parallel, InCall, Tasks
<1>14. ASSUME NEW w \in Workers, WorkerExit(w) PROVE HitsInv'
  BY <1>14 DEF WorkerExit, shared, locals, history, HitsInv, Ran, LoopInv, GenerationInv, Parallel, InCall, Tasks
<1>15. ASSUME NEW w \in Workers, WorkerTake(w) PROVE HitsInv'
  BY <1>15 DEF WorkerTake, HasWork, shared, locals, history, HitsInv, Ran, LoopInv, GenerationInv, Parallel, InCall, Tasks
<1>16. ASSUME NEW w \in Workers, CheckIn(w) PROVE HitsInv'
  BY <1>16 DEF CheckIn, shared, locals, history, HitsInv, Ran, LoopInv, GenerationInv, Parallel, InCall, Tasks
<1>17. ASSUME NEW t \in Threads, SpuriousWakeup(t) PROVE HitsInv'
  BY <1>17 DEF SpuriousWakeup, shared, locals, history, HitsInv, Ran, LoopInv, GenerationInv, Parallel, InCall, Tasks
<1>18. ASSUME Stop PROVE HitsInv'
  BY <1>18 DEF Stop, shared, locals, history, HitsInv, Ran, LoopInv, GenerationInv, Parallel, InCall, Tasks
<1>19. ASSUME StopWake PROVE HitsInv'
  BY <1>19 DEF StopWake, WorkersWoken, shared, locals, history, HitsInv, Ran, LoopInv, GenerationInv, Parallel, InCall, Tasks
<1>20. ASSUME Join PROVE HitsInv'
  BY <1>20 DEF Join, shared, locals, history, HitsInv, Ran, LoopInv, GenerationInv, Parallel, InCall, Tasks
<1>21. CASE UNCHANGED vars
  BY <1>21 DEF vars, shared, locals, history, shared, locals, history, HitsInv, Ran, LoopInv, GenerationInv, Parallel, InCall, Tasks
<1> QED
  BY <1>1, <1>2, <1>3, <1>4, <1>5, <1>6, <1>7, <1>8, <1>9, <1>10, <1>11, <1>12, <1>13, <1>14, <1>15, <1>16, <1>17, <1>18, <1>19, <1>20, <1>21 DEF Next, CallerStep, WorkerStep, Destroyed

\* Every step keeps the loop counters where the control points say they are.
LEMMA LoopStep == Inv /\ [Next]_vars => LoopInv'
<1> SUFFICES ASSUME Inv, [Next]_vars PROVE LoopInv'
  OBVIOUS
<1> USE PoolAssumption DEF Inv, TypeOK, Threads, GoTo
<1>1. ASSUME NEW w \in Workers, Spawn(w) PROVE LoopInv'
  BY <1>1 DEF Spawn, shared, locals, history, LoopInv, GenerationInv, Parallel, InCall
<1>2. ASSUME SpawnedAll PROVE LoopInv'
  BY <1>2 DEF SpawnedAll, shared, locals, history, LoopInv, GenerationInv, Parallel, InCall
<1>3. ASSUME CheckRegistered PROVE LoopInv'
  BY <1>3 DEF CheckRegistered, AllRegistered, shared, locals, history, LoopInv, GenerationInv, Parallel, InCall
<1>4. ASSUME NEW w \in Workers, Register(w) PROVE LoopInv'
  BY <1>4 DEF Register, shared, locals, history, LoopInv, GenerationInv, Parallel, InCall
<1>5. ASSUME NEW k \in 1 .. MaxTasks, BeginInline(k) PROVE LoopInv'
  BY <1>5 DEF BeginInline, BeginCall, shared, locals, history, LoopInv, GenerationInv, Parallel, InCall
<1>6. ASSUME InlineTest PROVE LoopInv'
  BY <1>6 DEF InlineTest, shared, locals, history, LoopInv, GenerationInv, Parallel, InCall
<1>7. ASSUME InlineEnd PROVE LoopInv'
  BY <1>7 DEF InlineEnd, shared, locals, history, LoopInv, GenerationInv, Parallel, InCall
<1>8. ASSUME NEW k \in 1 .. MaxTasks, Publish(k) PROVE LoopInv'
  BY <1>8 DEF Publish, BeginCall, PublishState, RunsInline, shared, locals, history, LoopInv, GenerationInv, Parallel, InCall
<1>9. ASSUME WakeWorkers PROVE LoopInv'
  BY <1>9 DEF WakeWorkers, WorkersWoken, shared, locals, history, LoopInv, GenerationInv, Parallel, InCall
<1>10. ASSUME NEW t \in Threads, Claim(t) PROVE LoopInv'
  BY <1>10 DEF Claim, RunsIndex, shared, locals, history, LoopInv, GenerationInv, Parallel, InCall
<1>11. ASSUME NEW t \in Threads, EndTask(t) PROVE LoopInv'
  BY <1>11 DEF EndTask, shared, locals, history, LoopInv, GenerationInv, Parallel, InCall
<1>12. ASSUME CheckDone PROVE LoopInv'
  BY <1>12 DEF CheckDone, AllFinished, shared, locals, history, LoopInv, GenerationInv, Parallel, InCall
<1>13. ASSUME NEW w \in Workers, WorkerSleep(w) PROVE LoopInv'
  BY <1>13 DEF WorkerSleep, HasWork, shared, locals, history, LoopInv, GenerationInv, Parallel, InCall
<1>14. ASSUME NEW w \in Workers, WorkerExit(w) PROVE LoopInv'
  BY <1>14 DEF WorkerExit, shared, locals, history, LoopInv, GenerationInv, Parallel, InCall
<1>15. ASSUME NEW w \in Workers, WorkerTake(w) PROVE LoopInv'
  BY <1>15 DEF WorkerTake, HasWork, shared, locals, history, LoopInv, GenerationInv, Parallel, InCall
<1>16. ASSUME NEW w \in Workers, CheckIn(w) PROVE LoopInv'
  BY <1>16 DEF CheckIn, shared, locals, history, LoopInv, GenerationInv, Parallel, InCall
<1>17. ASSUME NEW t \in Threads, SpuriousWakeup(t) PROVE LoopInv'
  BY <1>17 DEF SpuriousWakeup, shared, locals, history, LoopInv, GenerationInv, Parallel, InCall
<1>18. ASSUME Stop PROVE LoopInv'
  BY <1>18 DEF Stop, shared, locals, history, LoopInv, GenerationInv, Parallel, InCall
<1>19. ASSUME StopWake PROVE LoopInv'
  BY <1>19 DEF StopWake, WorkersWoken, shared, locals, history, LoopInv, GenerationInv, Parallel, InCall
<1>20. ASSUME Join PROVE LoopInv'
  BY <1>20 DEF Join, shared, locals, history, LoopInv, GenerationInv, Parallel, InCall
<1>21. CASE UNCHANGED vars
  BY <1>21 DEF vars, shared, locals, history, shared, locals, history, LoopInv, GenerationInv, Parallel, InCall
<1> QED
  BY <1>1, <1>2, <1>3, <1>4, <1>5, <1>6, <1>7, <1>8, <1>9, <1>10, <1>11, <1>12, <1>13, <1>14, <1>15, <1>16, <1>17, <1>18, <1>19, <1>20, <1>21 DEF Next, CallerStep, WorkerStep, Destroyed

\* Every step preserves the types.
LEMMA TypeStep == Inv /\ [Next]_vars => TypeOK'
<1> SUFFICES ASSUME Inv, [Next]_vars PROVE TypeOK'
  OBVIOUS
<1> USE PoolAssumption DEF Inv, TypeOK, Threads, GoTo
<1>1. ASSUME NEW w \in Workers, Spawn(w) PROVE TypeOK'
  BY <1>1 DEF Spawn, shared, locals, history, WorkerPC, CallerPC, Tasks, GenerationInv, LoopInv
<1>2. ASSUME SpawnedAll PROVE TypeOK'
  BY <1>2 DEF SpawnedAll, shared, locals, history, WorkerPC, CallerPC, Tasks, GenerationInv, LoopInv
<1>3. ASSUME CheckRegistered PROVE TypeOK'
  BY <1>3 DEF CheckRegistered, AllRegistered, shared, locals, history, WorkerPC, CallerPC, Tasks, GenerationInv, LoopInv
<1>4. ASSUME NEW w \in Workers, Register(w) PROVE TypeOK'
  <2>1. registered' \in 0 .. NWorkers
    BY <1>4, BuildStep, WorkerCounts DEF BuildInv, RegisteredWorkers, Next, WorkerStep
  <2>2. /\ pc' \in [Threads -> WorkerPC \cup CallerPC]
        /\ \A v \in Workers : pc'[v] \in WorkerPC
        /\ pc'[Caller] \in CallerPC
    BY <1>4 DEF Register, WorkerPC, CallerPC
  <2> QED
    BY <1>4, <2>1, <2>2 DEF Register, locals, history
<1>5. ASSUME NEW k \in 1 .. MaxTasks, BeginInline(k) PROVE TypeOK'
  <2>1. /\ calls' \in 0 .. MaxCalls
        /\ lfn' \in [Threads -> 0 .. MaxCalls]
        /\ ln' \in [Threads -> 0 .. MaxTasks]
        /\ hits' \in [Tasks -> Nat]
    <3>1. calls + 1 \in 0 .. MaxCalls /\ k \in 0 .. MaxTasks
      BY <1>5 DEF BeginInline, BeginCall
    <3> QED
      BY <1>5, <3>1 DEF BeginInline, BeginCall
  <2>2. /\ pc' \in [Threads -> WorkerPC \cup CallerPC]
        /\ \A v \in Workers : pc'[v] \in WorkerPC
        /\ pc'[Caller] \in CallerPC
    BY <1>5 DEF BeginInline, WorkerPC, CallerPC
  <2>3. task' \in [Threads -> 0 .. MaxTasks]
    BY <1>5 DEF BeginInline
  <2> QED
    BY <1>5, <2>1, <2>2, <2>3 DEF BeginInline, BeginCall
<1>6. ASSUME InlineTest PROVE TypeOK'
  <2>1. hits' \in [Tasks -> Nat]
    BY <1>6 DEF InlineTest
  <2>2. /\ pc' \in [Threads -> WorkerPC \cup CallerPC]
        /\ \A v \in Workers : pc'[v] \in WorkerPC
        /\ pc'[Caller] \in CallerPC
    BY <1>6 DEF InlineTest, WorkerPC, CallerPC
  <2> QED
    BY <1>6, <2>1, <2>2 DEF InlineTest, shared, locals
<1>7. ASSUME InlineEnd PROVE TypeOK'
  <2>1. task[Caller] + 1 \in 0 .. MaxTasks
    BY <1>7 DEF InlineEnd, LoopInv
  <2>2. task' \in [Threads -> 0 .. MaxTasks]
    BY <1>7, <2>1 DEF InlineEnd
  <2>3. /\ pc' \in [Threads -> WorkerPC \cup CallerPC]
        /\ \A v \in Workers : pc'[v] \in WorkerPC
        /\ pc'[Caller] \in CallerPC
    BY <1>7 DEF InlineEnd, WorkerPC, CallerPC
  <2> QED
    BY <1>7, <2>2, <2>3 DEF InlineEnd, shared, history
<1>8. ASSUME NEW k \in 1 .. MaxTasks, Publish(k) PROVE TypeOK'
  <2>1. /\ calls' \in 0 .. MaxCalls
        /\ lfn' \in [Threads -> 0 .. MaxCalls]
        /\ ln' \in [Threads -> 0 .. MaxTasks]
        /\ hits' \in [Tasks -> Nat]
    <3>1. calls + 1 \in 0 .. MaxCalls /\ k \in 0 .. MaxTasks
      BY <1>8 DEF Publish, BeginCall
    <3> QED
      BY <1>8, <3>1 DEF Publish, BeginCall
  <2>2. /\ pc' \in [Threads -> WorkerPC \cup CallerPC]
        /\ \A v \in Workers : pc'[v] \in WorkerPC
        /\ pc'[Caller] \in CallerPC
    BY <1>8 DEF Publish, WorkerPC, CallerPC
  <2>3. /\ fn' \in 0 .. MaxCalls /\ n' \in 0 .. MaxTasks /\ next' \in Nat
        /\ finished' \in 0 .. NWorkers /\ generation' \in 0 .. MaxCalls
    <3>1. NWorkers \in Nat
      BY FS_CardinalityType DEF NWorkers
    <3>2. generation + 1 \in 0 .. MaxCalls /\ calls + 1 \in 0 .. MaxCalls
      BY <1>8 DEF Publish, BeginCall, GenerationInv
    <3> QED
      BY <1>8, <3>1, <3>2 DEF Publish, PublishState
  <2> QED
    BY <1>8, <2>1, <2>2, <2>3 DEF Publish, BeginCall
<1>9. ASSUME WakeWorkers PROVE TypeOK'
  BY <1>9 DEF WakeWorkers, WorkersWoken, shared, locals, history, WorkerPC, CallerPC, Tasks, GenerationInv, LoopInv
<1>10. ASSUME NEW t \in Threads, Claim(t) PROVE TypeOK'
  <2>1. /\ pc' \in [Threads -> WorkerPC \cup CallerPC]
        /\ \A v \in Workers : pc'[v] \in WorkerPC
        /\ pc'[Caller] \in CallerPC
    BY <1>10 DEF Claim, WorkerPC, CallerPC
  <2>2. hits' \in [Tasks -> Nat]
    BY <1>10 DEF Claim
  <2>3. task' \in [Threads -> 0 .. MaxTasks]
    BY <1>10 DEF Claim, RunsIndex
  <2>4. next' \in Nat
    BY <1>10 DEF Claim
  <2> QED
    BY <1>10, <2>1, <2>2, <2>3, <2>4 DEF Claim
<1>11. ASSUME NEW t \in Threads, EndTask(t) PROVE TypeOK'
  BY <1>11 DEF EndTask, shared, locals, history, WorkerPC, CallerPC, Tasks, GenerationInv, LoopInv
<1>12. ASSUME CheckDone PROVE TypeOK'
  BY <1>12 DEF CheckDone, AllFinished, shared, locals, history, WorkerPC, CallerPC, Tasks, GenerationInv, LoopInv
<1>13. ASSUME NEW w \in Workers, WorkerSleep(w) PROVE TypeOK'
  BY <1>13 DEF WorkerSleep, HasWork, shared, locals, history, WorkerPC, CallerPC, Tasks, GenerationInv, LoopInv
<1>14. ASSUME NEW w \in Workers, WorkerExit(w) PROVE TypeOK'
  BY <1>14 DEF WorkerExit, shared, locals, history, WorkerPC, CallerPC, Tasks, GenerationInv, LoopInv
<1>15. ASSUME NEW w \in Workers, WorkerTake(w) PROVE TypeOK'
  BY <1>15 DEF WorkerTake, HasWork, shared, locals, history, WorkerPC, CallerPC, Tasks, GenerationInv, LoopInv
<1>16. ASSUME NEW w \in Workers, CheckIn(w) PROVE TypeOK'
  <2>1. finished' \in 0 .. NWorkers
    <3>1. Parallel /\ Parallel'
      BY <1>16 DEF CheckIn, GenerationInv, Active, Parallel
    <3>2. finished' = Cardinality(CheckedIn')
      BY <1>16, <3>1, GenerationStep DEF GenerationInv, Next, WorkerStep
    <3> QED
      BY <3>2, WorkerCounts DEF CheckedIn
  <2>2. /\ pc' \in [Threads -> WorkerPC \cup CallerPC]
        /\ \A v \in Workers : pc'[v] \in WorkerPC
        /\ pc'[Caller] \in CallerPC
    BY <1>16 DEF CheckIn, WorkerPC, CallerPC
  <2> QED
    BY <1>16, <2>1, <2>2 DEF CheckIn, locals, history
<1>17. ASSUME NEW t \in Threads, SpuriousWakeup(t) PROVE TypeOK'
  BY <1>17 DEF SpuriousWakeup, shared, locals, history, WorkerPC, CallerPC, Tasks, GenerationInv, LoopInv
<1>18. ASSUME Stop PROVE TypeOK'
  BY <1>18 DEF Stop, shared, locals, history, WorkerPC, CallerPC, Tasks, GenerationInv, LoopInv
<1>19. ASSUME StopWake PROVE TypeOK'
  BY <1>19 DEF StopWake, WorkersWoken, shared, locals, history, WorkerPC, CallerPC, Tasks, GenerationInv, LoopInv
<1>20. ASSUME Join PROVE TypeOK'
  BY <1>20 DEF Join, shared, locals, history, WorkerPC, CallerPC, Tasks, GenerationInv, LoopInv
<1>21. CASE UNCHANGED vars
  BY <1>21 DEF vars, shared, locals, history, shared, locals, history, WorkerPC, CallerPC, Tasks, GenerationInv, LoopInv
<1> QED
  BY <1>1, <1>2, <1>3, <1>4, <1>5, <1>6, <1>7, <1>8, <1>9, <1>10, <1>11, <1>12, <1>13, <1>14, <1>15, <1>16, <1>17, <1>18, <1>19, <1>20, <1>21 DEF Next, CallerStep, WorkerStep, Destroyed

\* The inductive invariant holds in every reachable state.
LEMMA Invariance == Safety => []Inv
<1>1. Inv /\ [Next]_vars => Inv'
  BY TypeStep, BuildStep, GenerationStep, HitsStep, LoopStep DEF Inv
<1> QED
  BY InitInv, <1>1, PTL DEF Safety

\* Every variable has its type and every counter its range.
THEOREM TypeCorrect == Spec => []TypeOK
<1>1. Inv => TypeOK
  BY DEF Inv
<1> QED
  BY <1>1, Invariance, PTL DEF Spec

\* No thread fetches an index or runs a task for a call that has returned.
THEOREM NoStaleFunctionHolds == Spec => []NoStaleFunction
<1>1. Inv => NoStaleFunction
  BY PoolAssumption DEF Inv, GenerationInv, Active, Parallel, InCall,
     NoStaleFunction, Threads
<1> QED
  BY <1>1, Invariance, PTL DEF Spec

\* No index of a call runs twice, and a call that returned ran each once.
THEOREM EachIndexOnceHolds == Spec => []EachIndexOnce
<1>1. Inv => EachIndexOnce
  BY PoolAssumption DEF Inv, HitsInv, Ran, Parallel, EachIndexOnce
<1> QED
  BY <1>1, Invariance, PTL DEF Spec

\* The constructor returns only when every worker has recorded its tid.
THEOREM BuiltMeansRegisteredHolds == Spec => []BuiltMeansRegistered
<1>1. Inv => BuiltMeansRegistered
  BY DEF Inv, BuildInv, Building, RegisteredWorkers, BuiltMeansRegistered
<1> QED
  BY <1>1, Invariance, PTL DEF Spec

-----------------------------------------------------------------------------
(* Who sleeps and who will be told *)

\* A worker sleeps on nothing it need not wait for unless the notification is to
\* come, the caller sleeps only while a count is short of all, workers leave only
\* for the stop, and the join finds none of them asleep.
WakeInv ==
  /\ \A w \in Workers : pc[w] = "asleep" /\ HasWork(w) => pc[Caller] \in {"wake", "stopWake"}
  /\ pc[Caller] \in {"waitReg", "asleepReg"} => \A w \in Workers : pc[w] # "unborn"
  /\ pc[Caller] = "asleepReg" => registered # NWorkers
  /\ pc[Caller] = "asleepDone" => finished # NWorkers
  /\ stop <=> pc[Caller] \in {"stopWake", "join", "gone"}
  /\ \A w \in Workers : pc[w] = "gone" => stop
  /\ pc[Caller] = "join" => \A w \in Workers : pc[w] # "asleep"

\* It is inductive on top of the pool's invariant.
LEMMA WakeInvariance == Safety => [](Inv /\ WakeInv)
<1>1. Init => WakeInv
  BY PoolAssumption DEF Init, WakeInv, HasWork, Threads
<1>2. Inv /\ WakeInv /\ [Next]_vars => WakeInv'
  <2> SUFFICES ASSUME Inv, WakeInv, [Next]_vars PROVE WakeInv'
    OBVIOUS
  <2>0. /\ pc \in [Threads -> WorkerPC \cup CallerPC] /\ Caller \in Threads /\ Workers \subseteq Threads
        /\ \A w \in Workers : w # Caller /\ pc[w] \in WorkerPC
        /\ stop \in BOOLEAN /\ pc[Caller] \in CallerPC
    BY PoolAssumption DEF Inv, TypeOK, Threads
  <2> USE DEF GoTo, WakeInv, HasWork
  <2>1. ASSUME NEW w \in Workers, Spawn(w) PROVE WakeInv'
    BY <2>0, <2>1 DEF Spawn, shared, locals
  <2>2. CASE SpawnedAll \/ CheckRegistered
    BY <2>0, <2>2 DEF SpawnedAll, CheckRegistered, AllRegistered, shared, locals
  <2>3. ASSUME NEW w \in Workers, Register(w) PROVE WakeInv'
    BY <2>0, <2>3 DEF Register, locals
  <2>4. ASSUME NEW k \in 1 .. MaxTasks, BeginInline(k) PROVE WakeInv'
    BY <2>0, <2>4 DEF BeginInline, BeginCall
  <2>5. ASSUME NEW k \in 1 .. MaxTasks, Publish(k) PROVE WakeInv'
    BY <2>0, <2>5 DEF Publish, BeginCall, PublishState
  <2>6. CASE InlineTest \/ InlineEnd
    BY <2>0, <2>6 DEF InlineTest, InlineEnd, shared, locals
  <2>7. CASE WakeWorkers \/ StopWake
    BY <2>0, <2>7 DEF WakeWorkers, StopWake, WorkersWoken, shared, locals
  <2>8. ASSUME NEW t \in Threads, Claim(t) \/ EndTask(t) PROVE WakeInv'
    BY <2>0, <2>8 DEF Claim, EndTask, shared, locals
  <2>9. CASE CheckDone
    BY <2>0, <2>9 DEF CheckDone, AllFinished, shared, locals
  <2>10. ASSUME NEW w \in Workers, WorkerSleep(w) \/ WorkerExit(w) \/ WorkerTake(w) PROVE WakeInv'
    <3>1. CASE WorkerSleep(w) \/ WorkerExit(w)
      BY <2>0, <2>10, <3>1 DEF WorkerSleep, WorkerExit, shared, locals
    <3>2. CASE WorkerTake(w)
      <4>1. \A v \in Workers \ {w} : HasWork(v)' <=> HasWork(v)
        BY <3>2 DEF WorkerTake, shared, Inv, TypeOK
      <4> QED  BY <2>0, <2>10, <3>2, <4>1 DEF WorkerTake, shared
    <3> QED  BY <2>10, <3>1, <3>2
  <2>11. ASSUME NEW w \in Workers, CheckIn(w) PROVE WakeInv'
    BY <2>0, <2>11 DEF CheckIn, WakesCaller, locals
  <2>12. ASSUME NEW t \in Threads, SpuriousWakeup(t) PROVE WakeInv'
    BY <2>0, <2>12 DEF SpuriousWakeup, shared, locals
  <2>13. CASE Stop \/ Join
    BY <2>0, <2>13 DEF Stop, Join, shared, locals
  <2>14. CASE UNCHANGED vars
    BY <2>14 DEF vars, shared, locals
  <2> QED
    BY <2>0, <2>1, <2>2, <2>3, <2>4, <2>5, <2>6, <2>7, <2>8, <2>9, <2>10, <2>11, <2>12, <2>13, <2>14
       DEF Next, CallerStep, WorkerStep, Destroyed
<1>3. Inv /\ [Next]_vars => Inv'
  BY TypeStep, BuildStep, GenerationStep, HitsStep, LoopStep DEF Inv
<1> QED
  BY InitInv, <1>1, <1>2, <1>3, PTL DEF Safety

\* No thread sleeps through a notification, and whoever the caller waits for is
\* on its way, for any number of workers.
THEOREM NoLostWakeupHolds == Spec => []NoLostWakeup
<1>1. Inv /\ WakeInv => NoLostWakeup
  <2> SUFFICES ASSUME Inv, WakeInv PROVE NoLostWakeup
    OBVIOUS
  <2>0. \A w \in Workers : pc[w] \in WorkerPC
    BY DEF Inv, TypeOK
  <2>1. ASSUME pc[Caller] = "asleepReg" PROVE \E w \in Workers : pc[w] = "start"
    <3>1. Cardinality(RegisteredWorkers) # NWorkers
      BY <2>1 DEF Inv, BuildInv, WakeInv
    <3>2. RegisteredWorkers # Workers
      BY <3>1 DEF NWorkers
    <3>3. PICK w \in Workers : pc[w] \in {"unborn", "start"}
      BY <3>2 DEF RegisteredWorkers
    <3> QED  BY <2>1, <3>3 DEF WakeInv
  <2>2. ASSUME pc[Caller] \notin {"spawn", "waitReg", "asleepReg"}, NEW w \in Workers
        PROVE  pc[w] \notin {"unborn", "start"}
    BY <2>2 DEF Inv, BuildInv, Building, RegisteredWorkers
  <2>3. ASSUME pc[Caller] = "asleepDone"
        PROVE  \E w \in Workers : pc[w] \in {"claim", "exec", "checkin"} \/ (pc[w] = "idle" /\ HasWork(w))
    <3>1. finished = Cardinality(CheckedIn) /\ finished # NWorkers /\ ~stop
      BY <2>3 DEF Inv, TypeOK, GenerationInv, Parallel, WakeInv
    <3>2. CheckedIn # Workers
      BY <3>1 DEF NWorkers
    <3>3. PICK w \in Workers : seen[w] # generation \/ Active(w)
      BY <3>2 DEF CheckedIn
    <3>4. CASE Active(w)
      BY <3>4 DEF Active
    <3>5. CASE seen[w] # generation
      <4>1. HasWork(w) /\ pc[w] \notin {"asleep", "gone", "unborn", "start"}
        BY <2>2, <2>3, <3>1, <3>5 DEF HasWork, WakeInv
      <4> QED  BY <2>0, <4>1 DEF WorkerPC
    <3> QED  BY <3>3, <3>4, <3>5
  <2>4. ASSUME pc[Caller] = "join", NEW w \in Workers PROVE pc[w] \in {"idle", "gone"}
    <3>1. ~Active(w)
      BY <2>4 DEF Inv, GenerationInv, Parallel
    <3>2. pc[w] \notin {"asleep", "unborn", "start"}
      BY <2>2, <2>4 DEF WakeInv
    <3> QED  BY <2>0, <3>1, <3>2 DEF Active, WorkerPC
  <2> QED  BY <2>1, <2>3, <2>4 DEF NoLostWakeup, WakeInv
<1> QED
  BY <1>1, WakeInvariance, PTL DEF Spec

\* Every wait ends and the constructor's not too early: both hold in every state.
THEOREM WaitsMatchWorkHolds == Spec => []WaitsMatchWork
<1>1. BuiltMeansRegistered /\ NoLostWakeup => WaitsMatchWork
  BY DEF WaitsMatchWork
<1> QED  BY <1>1, BuiltMeansRegisteredHolds, NoLostWakeupHolds, PTL

-----------------------------------------------------------------------------
(* The pool implements ParallelFor's safety part for any set of workers:   *)
(* every step of a thread is a step of the abstract call, or a stutter.    *)

Executing(t) == pc[t] \in {"exec", "inlineExec"}
Completed == {i \in Tasks : hits[i] > 0} \ Running

\* Threads execute different indices of the call, all of them counted, and
\* the pool is destroyed only between calls.
TaskInv ==
  /\ \A t \in Threads : pc[t] = "exec" => task[t] < next /\ task[t] < ln[Caller]
  /\ \A t, u \in Threads :
       pc[t] = "exec" /\ pc[u] = "exec" /\ task[t] = task[u] => t = u
  /\ stop => pc[Caller] \in {"stopWake", "join", "gone"}

\* The strengthening is inductive on top of the pool's invariant.
LEMMA TaskInvariance == Safety => [](Inv /\ TaskInv)
<1>1. Init => TaskInv
  BY PoolAssumption DEF Init, TaskInv, Threads
<1>2. Inv /\ TaskInv /\ [Next]_vars => TaskInv'
  <2> SUFFICES ASSUME Inv, TaskInv, [Next]_vars PROVE TaskInv'
    OBVIOUS
  <2> USE PoolAssumption DEF Inv, TypeOK, Threads, GoTo, TaskInv
  <2>1. ASSUME NEW t \in Threads, Claim(t) PROVE TaskInv'
    <3>1. lfn[t] = calls /\ ln[t] = ln[Caller] /\ next \in Nat
      BY <2>1 DEF Claim, GenerationInv, Active, Parallel, InCall
    <3> QED
      BY <2>1, <3>1 DEF Claim, RunsIndex
  <2>2. ASSUME NEW k \in 1 .. MaxTasks, BeginInline(k) \/ Publish(k) PROVE TaskInv'
    <3>1. \A t \in Threads : pc[t] # "exec" /\ pc'[t] # "exec"
      BY <2>2 DEF BeginInline, Publish, BeginCall, GenerationInv, Active, Parallel
    <3> QED
      BY <2>2, <3>1 DEF BeginInline, Publish, BeginCall
  <2>3. CASE CallerStep /\ ~Claim(Caller)
    BY <2>3 DEF CallerStep, Spawn, SpawnedAll, CheckRegistered, InlineTest, InlineEnd,
       WakeWorkers, WorkersWoken, EndTask, CheckDone, StopWake, Join, shared, locals,
       history
  <2>4. ASSUME NEW w \in Workers, WorkerStep(w), ~Claim(w) PROVE TaskInv'
    BY <2>4 DEF WorkerStep, Register, WorkerSleep, WorkerExit, WorkerTake, EndTask,
       CheckIn, shared, locals, history
  <2>5. ASSUME NEW t \in Threads, SpuriousWakeup(t) PROVE TaskInv'
    BY <2>5 DEF SpuriousWakeup, shared, locals, history
  <2>6. CASE Stop
    BY <2>6 DEF Stop, locals, history
  <2>7. CASE UNCHANGED vars
    BY <2>7 DEF vars, shared, locals, history
  <2> QED
    BY <2>1, <2>2, <2>3, <2>4, <2>5, <2>6, <2>7 DEF Next, Destroyed
<1>3. Inv /\ [Next]_vars => Inv'
  BY TypeStep, BuildStep, GenerationStep, HitsStep, LoopStep DEF Inv
<1> QED
  BY InitInv, <1>1, <1>2, <1>3, PTL DEF Safety

-----------------------------------------------------------------------------
(* Facts about the mapping, in one state. *)

\* Outside parallel_for nothing runs and every index of the last call is completed.
LEMMA QuietBetweenCalls ==
  Inv /\ ~InCall => Running = {} /\ Completed = 0 .. ln[Caller] - 1
<1> SUFFICES ASSUME Inv, ~InCall
             PROVE  Running = {} /\ Completed = 0 .. ln[Caller] - 1
  OBVIOUS
<1> USE PoolAssumption DEF Inv, TypeOK
<1>1. \A t \in Threads : ~Executing(t)
  BY DEF GenerationInv, Active, Parallel, InCall, Executing, Threads, WorkerPC
<1>2. Running = {}
  BY <1>1 DEF Running, Executing
<1>3. \A i \in Tasks : hits[i] > 0 <=> i < ln[Caller]
  BY DEF HitsInv, Ran, Parallel, InCall
<1>4. 0 .. ln[Caller] - 1 \subseteq Tasks
  BY DEF Tasks, Threads
<1> QED
  BY <1>2, <1>3, <1>4 DEF Completed, Tasks, Threads

\* Every index that ran is running or completed; indices being executed ran.
LEMMA RunningIsHit ==
  ASSUME Inv, TaskInv
  PROVE  /\ Running \subseteq {i \in Tasks : hits[i] > 0}
         /\ Running \subseteq 0 .. ln[Caller] - 1
<1> USE PoolAssumption DEF Inv, TypeOK
<1>1. ASSUME NEW t \in Threads, Executing(t)
      PROVE  task[t] \in Tasks /\ task[t] < ln[Caller] /\ hits[task[t]] > 0
  <2>1. CASE pc[t] = "exec"
    <3>1. Parallel /\ pc[Caller] \notin {"inline", "inlineExec"}
      BY <2>1 DEF GenerationInv, Active, Parallel, Threads
    <3>2. task[t] \in Tasks /\ task[t] < ln[Caller] /\ task[t] < next
      BY <2>1 DEF TaskInv, Tasks, Threads
    <3>3. Ran(task[t])
      BY <3>1, <3>2 DEF Ran
    <3>4. hits[task[t]] = 1
      BY <3>2, <3>3 DEF HitsInv
    <3> QED
      BY <3>2, <3>4
  <2>2. CASE pc[t] = "inlineExec"
    <3>1. t = Caller
      BY <2>2 DEF Threads, WorkerPC
    <3>2. task[t] \in Tasks /\ task[t] < ln[Caller]
      BY <2>2, <3>1 DEF LoopInv, Tasks, Threads
    <3>3. Ran(task[t])
      BY <2>2, <3>1, <3>2 DEF Ran, Parallel, Tasks
    <3>4. hits[task[t]] = 1
      BY <3>2, <3>3 DEF HitsInv
    <3> QED
      BY <3>2, <3>4
  <2> QED
    BY <1>1, <2>1, <2>2 DEF Executing
<1> QED
  BY <1>1 DEF Running, Executing, Tasks, Threads

\* Steps that change neither the call, nor who executes what, nor the history.
LEMMA Stutters ==
  ASSUME InCall' = InCall, ln'[Caller] = ln[Caller], Running' = Running,
         hits' = hits, stop' = stop
  PROVE  UNCHANGED PF!vars
  BY DEF PF!vars

-----------------------------------------------------------------------------
(* Each kind of step maps to a step of ParallelFor or to a stutter. *)

\* Publishing a call, or starting it inline, begins the abstract call.
LEMMA BeginMaps ==
  ASSUME Inv, TaskInv, NEW k \in 1 .. MaxTasks, BeginInline(k) \/ Publish(k)
  PROVE  PF!Begin(k)
<1> USE PoolAssumption DEF Inv, TypeOK, Threads
<1>1. ~InCall /\ InCall' /\ ~stop /\ stop' = stop /\ ln'[Caller] = k
  BY DEF BeginInline, Publish, BeginCall, GoTo, InCall, TaskInv
<1>2. \A i \in Tasks : hits'[i] = 0
  BY DEF BeginInline, Publish, BeginCall
<1>3. Running' = {}
  <2>1. \A t \in Threads : ~Executing(t)'
    BY DEF BeginInline, Publish, BeginCall, GoTo, Executing, GenerationInv, Active,
       Parallel, WorkerPC
  <2> QED
    BY <2>1 DEF Running, Executing
<1>4. {i \in Tasks : hits[i] > 0}' = {}
  BY <1>2 DEF Tasks
<1> QED
  BY <1>1, <1>3, <1>4 DEF PF!Begin

\* A thread that executes no index before or after the step, while the others
\* do not move, leaves the running set alone.
LEMMA SameRunning ==
  ASSUME task' = task, \A t \in Threads : Executing(t)' <=> Executing(t)
  PROVE  Running' = Running
BY DEF Running, Executing

\* A thread that begins index i.
LEMMA StartMaps ==
  ASSUME Inv, TaskInv, NEW t \in Threads, NEW i \in Tasks,
         InCall, InCall', i < ln[Caller], hits[i] = 0,
         \A j \in Tasks : hits'[j] = IF j = i THEN 1 ELSE hits[j],
         Running' = Running \cup {i}, ln' = ln, stop' = stop
  PROVE  PF!Start(i)
<1> USE PoolAssumption DEF Inv, TypeOK, Threads, Tasks
<1>1. i \in 0 .. ln[Caller] - 1
  OBVIOUS
<1>2. i \notin Running
  BY RunningIsHit
<1>3. Completed' = Completed
  <2>1. \A j \in Tasks : hits'[j] > 0 /\ j \notin Running'
                            <=> hits[j] > 0 /\ j \notin Running
    BY <1>2
  <2> QED
    BY <2>1 DEF Completed
<1> QED
  BY <1>1, <1>2, <1>3 DEF PF!Start, PF!Indices, Completed

\* A thread that ends index i.
LEMMA FinishMaps ==
  ASSUME Inv, TaskInv, NEW i \in Tasks,
         InCall, InCall', i \in Running, hits' = hits,
         Running' = Running \ {i}, ln' = ln, stop' = stop
  PROVE  PF!Finish(i)
<1>1. hits[i] > 0
  BY RunningIsHit
<1>2. Completed' = Completed \cup {i}
  BY <1>1 DEF Completed
<1> QED
  BY <1>2 DEF PF!Finish, Completed

\* Every step of the pool is a step of the abstract call or a stutter.
LEMMA StepMaps == Inv /\ TaskInv /\ [Next]_vars => [PF!Next]_(PF!vars)
<1> SUFFICES ASSUME Inv, TaskInv, [Next]_vars PROVE [PF!Next]_(PF!vars)
  OBVIOUS
<1> USE PoolAssumption DEF Inv, TypeOK, Threads, GoTo
<1>1. ASSUME NEW k \in 1 .. MaxTasks, BeginInline(k) \/ Publish(k) PROVE PF!Next
  BY <1>1, BeginMaps DEF PF!Next
<1>2. CASE InlineTest
  <2>1. CASE task[Caller] < ln[Caller]
    <3>1. /\ \A t \in Threads : ~Executing(t)
          /\ \A t \in Threads : Executing(t)' <=> t = Caller
          /\ InCall /\ InCall' /\ ln' = ln /\ stop' = stop /\ task' = task
      BY <1>2, <2>1 DEF InlineTest, Executing, GenerationInv, Active, Parallel, InCall,
         WorkerPC, shared, locals
    <3>2. Running = {} /\ Running' = {task[Caller]}
      BY <3>1 DEF Running, Executing
    <3>3. task[Caller] \in Tasks
      BY <2>1 DEF Tasks
    <3>4. hits[task[Caller]] = 0
      BY <1>2, <3>3 DEF InlineTest, HitsInv, Ran, Tasks
    <3>5. \A j \in Tasks : hits'[j] = IF j = task[Caller] THEN 1 ELSE hits[j]
      BY <1>2, <2>1, <3>3, <3>4 DEF InlineTest
    <3>6. PF!Start(task[Caller])
      BY <2>1, <3>1, <3>2, <3>3, <3>4, <3>5, StartMaps
    <3> QED
      BY <2>1, <3>3, <3>6 DEF PF!Next, PF!Indices, Tasks
  <2>2. CASE task[Caller] >= ln[Caller]
    <3>1. InCall /\ ~InCall' /\ ln' = ln /\ stop' = stop /\ hits' = hits
      BY <1>2, <2>2 DEF InlineTest, InCall, shared, locals
    <3>2. Inv'
      BY <1>2, TypeStep, BuildStep, GenerationStep, HitsStep, LoopStep DEF Inv
    <3>3. Running' = Running
      BY <1>2, <2>2, SameRunning DEF InlineTest, Executing, shared, locals
    <3>4. Completed' = 0 .. ln'[Caller] - 1
      <4>1. (Inv /\ ~InCall => Running = {} /\ Completed = 0 .. ln[Caller] - 1)'
        BY QuietBetweenCalls, PTL
      <4> QED
        BY <3>1, <3>2, <4>1
    <3> QED
      BY <3>1, <3>3, <3>4 DEF PF!Next, PF!Return, PF!Indices, Completed
  <2> QED
    BY <2>1, <2>2
<1>3. CASE InlineEnd
  <2>1. /\ \A t \in Threads : Executing(t) <=> t = Caller
        /\ \A t \in Threads : ~Executing(t)'
        /\ InCall /\ InCall' /\ ln' = ln /\ stop' = stop /\ hits' = hits
    BY <1>3 DEF InlineEnd, Executing, GenerationInv, Active, Parallel, InCall, WorkerPC,
       shared, locals, history
  <2>2. Running = {task[Caller]} /\ Running' = {}
    BY <2>1 DEF Running, Executing
  <2>3. task[Caller] \in Tasks /\ task[Caller] < ln[Caller]
    BY <1>3 DEF InlineEnd, LoopInv, Tasks
  <2>4. PF!Finish(task[Caller])
    <3>1. task[Caller] \in Running /\ Running' = Running \ {task[Caller]}
      BY <2>2
    <3> QED
      BY <2>1, <2>3, <3>1, FinishMaps DEF PF!Finish
  <2>5. task[Caller] \in 0 .. ln[Caller] - 1
    BY <2>3 DEF Tasks
  <2> QED
    BY <2>4, <2>5 DEF PF!Next, PF!Indices, PF!Finish
<1>4. ASSUME NEW t \in Threads, Claim(t) PROVE PF!Next \/ UNCHANGED PF!vars
  <2>1. /\ InCall /\ InCall' /\ lfn[t] = calls /\ ln[t] = ln[Caller]
        /\ Parallel /\ ln' = ln /\ stop' = stop /\ next \in Nat
    BY <1>4 DEF Claim, GenerationInv, Active, Parallel, InCall
  <2>2. CASE next < ln[t]
    <3>1. next \in Tasks /\ task'[t] = next
      BY <1>4, <2>1, <2>2 DEF Claim, RunsIndex, Tasks
    <3>2. hits[next] = 0
      BY <3>1, <2>1 DEF HitsInv, Ran, Tasks
    <3>3. \A j \in Tasks : hits'[j] = IF j = next THEN 1 ELSE hits[j]
      <4>1. hits' = [i \in Tasks |-> IF i = next THEN hits[i] + 1 ELSE hits[i]]
        BY <1>4, <2>1, <2>2 DEF Claim, RunsIndex
      <4> QED
        BY <3>1, <3>2, <4>1
    <3>4. /\ \A u \in Threads : Executing(u)' <=> Executing(u) \/ u = t
          /\ \A u \in Threads \ {t} : task'[u] = task[u]
          /\ ~Executing(t)
      BY <1>4, <2>2 DEF Claim, RunsIndex, Executing
    <3>5. Running' = Running \cup {next}
      BY <3>1, <3>4 DEF Running, Executing
    <3>6. PF!Start(next)
      BY <2>1, <2>2, <3>1, <3>2, <3>3, <3>5, StartMaps
    <3> QED
      BY <2>1, <2>2, <3>1, <3>6 DEF PF!Next, PF!Indices, Tasks
  <2>3. CASE ~(next < ln[t])
    <3>1. task' = task /\ hits' = hits /\ \A u \in Threads : Executing(u)' <=> Executing(u)
      BY <1>4, <2>3 DEF Claim, RunsIndex, Executing
    <3> QED
      BY <2>1, <3>1, SameRunning, Stutters
  <2> QED
    BY <2>2, <2>3
<1>5. ASSUME NEW t \in Threads, EndTask(t) PROVE PF!Next
  <2>1. /\ \A u \in Threads : Executing(u)' <=> Executing(u) /\ u # t
        /\ Executing(t) /\ pc[t] = "exec"
        /\ task' = task /\ ln' = ln /\ stop' = stop /\ hits' = hits
    BY <1>5 DEF EndTask, Executing, shared, locals, history
  <2>2. InCall /\ InCall'
    BY <1>5, <2>1 DEF EndTask, InCall, GenerationInv, Active, Parallel
  <2>3. \A u \in Threads \ {t} : Executing(u) => task[u] # task[t]
    BY <2>1 DEF TaskInv, Executing, GenerationInv, Active, Parallel, WorkerPC
  <2>4. task[t] \in Running /\ Running' = Running \ {task[t]}
    BY <2>1, <2>3 DEF Running, Executing
  <2>5. task[t] \in 0 .. ln[Caller] - 1 /\ task[t] \in Tasks
    BY <2>4, RunningIsHit
  <2>6. PF!Finish(task[t])
    <3>1. task[t] \in Tasks /\ task[t] \in Running
      BY <2>4, <2>5
    <3> QED
      BY <2>1, <2>2, <2>4, <3>1, FinishMaps DEF PF!Finish
  <2> QED
    BY <2>5, <2>6 DEF PF!Next, PF!Indices, PF!Finish
<1>6. CASE CheckDone
  <2>1. /\ InCall /\ ln' = ln /\ stop' = stop /\ hits' = hits /\ task' = task
        /\ \A u \in Threads : Executing(u)' <=> Executing(u)
        /\ InCall' <=> ~AllFinished
    BY <1>6 DEF CheckDone, InCall, Executing, shared, locals, history
  <2>2. Running' = Running
    BY <2>1, SameRunning
  <2>3. CASE AllFinished
    <3>1. Inv'
      BY <1>6, TypeStep, BuildStep, GenerationStep, HitsStep, LoopStep
         DEF Inv, Next, CallerStep
    <3>2. Completed' = 0 .. ln'[Caller] - 1
      <4>1. (Inv /\ ~InCall => Running = {} /\ Completed = 0 .. ln[Caller] - 1)'
        BY QuietBetweenCalls, PTL
      <4> QED
        BY <2>1, <2>3, <3>1, <4>1
    <3> QED
      BY <2>1, <2>2, <2>3, <3>2 DEF PF!Next, PF!Return, PF!Indices, Completed
  <2>4. CASE ~AllFinished
    BY <2>1, <2>2, <2>4, Stutters
  <2> QED
    BY <2>3, <2>4
<1>7. CASE Stop
  <2>1. /\ ~InCall /\ ~InCall' /\ ~stop /\ stop' = TRUE /\ hits' = hits /\ ln' = ln
        /\ task' = task /\ \A u \in Threads : Executing(u)' <=> Executing(u)
    BY <1>7 DEF Stop, InCall, Executing, TaskInv, locals, history
  <2> QED
    BY <2>1, SameRunning DEF PF!Next, PF!Close, InCall
<1>8. ASSUME \/ \E w \in Workers : Spawn(w) \/ Register(w) \/ WorkerSleep(w)
                                    \/ WorkerExit(w) \/ CheckIn(w)
             \/ \E t \in Threads : SpuriousWakeup(t)
             \/ SpawnedAll \/ CheckRegistered \/ WakeWorkers \/ StopWake \/ Join
             \/ UNCHANGED vars
      PROVE  UNCHANGED PF!vars
  <2>1. /\ ln' = ln /\ stop' = stop /\ hits' = hits /\ task' = task
    BY <1>8 DEF Spawn, Register, WorkerSleep, WorkerExit, CheckIn, SpuriousWakeup,
       SpawnedAll, CheckRegistered, WakeWorkers, StopWake, Join, vars, shared, locals,
       history
  <2>2. \A u \in Threads : Executing(u)' <=> Executing(u)
    BY <1>8 DEF Spawn, Register, WorkerSleep, WorkerExit, CheckIn, SpuriousWakeup,
       SpawnedAll, CheckRegistered, WakeWorkers, WorkersWoken, StopWake, Join, vars,
       Executing
  <2>3. InCall' = InCall
    BY <1>8 DEF Spawn, Register, WorkerSleep, WorkerExit, CheckIn, SpuriousWakeup,
       SpawnedAll, CheckRegistered, WakeWorkers, WorkersWoken, StopWake, Join, vars,
       InCall
  <2> QED
    BY <2>1, <2>2, <2>3, SameRunning, Stutters
<1>9. ASSUME NEW w \in Workers, WorkerTake(w) PROVE UNCHANGED PF!vars
  <2>1. /\ ln'[Caller] = ln[Caller] /\ stop' = stop /\ hits' = hits /\ task' = task
        /\ InCall' = InCall
        /\ \A u \in Threads : Executing(u)' <=> Executing(u)
    BY <1>9 DEF WorkerTake, InCall, Executing, shared, history
  <2> QED
    BY <2>1, SameRunning, Stutters
<1> QED
  BY <1>1, <1>2, <1>3, <1>4, <1>5, <1>6, <1>7, <1>8, <1>9
     DEF Next, CallerStep, WorkerStep, Destroyed

\* The pool implements the safety part of ParallelFor.
THEOREM ImplementsParallelForSafety == Spec => PF!Safety
<1>1. Init => PF!Init
  <2> SUFFICES ASSUME Init PROVE PF!Init
    OBVIOUS
  <2>1. Running = {} /\ ~InCall /\ ln[Caller] = 0 /\ stop = FALSE
    BY PoolAssumption DEF Init, Running, InCall, Threads
  <2>2. {i \in Tasks : hits[i] > 0} = {}
    BY PoolAssumption DEF Init, Tasks
  <2> QED
    BY <2>1, <2>2 DEF PF!Init
<1> QED
  BY <1>1, StepMaps, TaskInvariance, PTL DEF Spec, Safety, PF!Safety

=============================================================================
