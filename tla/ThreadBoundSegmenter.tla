------------------------ MODULE ThreadBoundSegmenter ------------------------
(***************************************************************************)
(* core/src/seg_litert.cc, class ThreadBoundSegmenter: the LiteRT delegate *)
(* may only be invoked on the thread that initialised it, so each          *)
(* segmenter owns a thread that creates, runs and releases the delegate,   *)
(* and run() posts a job to it and waits.  One mutex and ONE condition     *)
(* variable serve the starter, the callers of run and the owner thread.    *)
(*                                                                         *)
(* The callers are the JNI entry points of android/jni.cc, which hold g_mu *)
(* for their whole length: init replaces g_seg (resetting the old one      *)
(* first), process, segOnly and ndkShoot run it.  run itself has no        *)
(* protection against a second caller: that it never meets one is what     *)
(* g_mu is for.                                                            *)
(*                                                                         *)
(* A job is a number and stands for the pair of buffers the caller lends.  *)
(***************************************************************************)
EXTENDS Naturals, FiniteSets

CONSTANTS
  Clients,   \* threads that call into JNI (UI executor, camera handler, ...)
  Segs,      \* the segmenter objects created one after the other (a bound)
  None,      \* no client, no object
  MaxJobs    \* bound: calls of run

ASSUME SegAssumption ==
  /\ IsFiniteSet(Clients) /\ IsFiniteSet(Segs)
  /\ None \notin Clients \cup Segs
  /\ MaxJobs \in Nat

VARIABLES
  mu,      \* holder of g_mu
  g_seg,   \* the segmenter the JNI layer uses
  pc,      \* control point of each client
  cur,     \* the object the client's call works on
  mine,    \* the job the client posted last
  got,     \* the job whose result the client's run returned
  seg,     \* the fields of each object
  owner,   \* control point of each object's thread th_
  work,    \* the job the owner thread hands to the delegate
  jobs     \* number of jobs posted

clientVars == <<mu, g_seg, pc, cur, mine, got>>
ownerVars == <<owner, work>>
vars == <<clientVars, seg, ownerVars, jobs>>

Jobs == 0 .. MaxJobs
Fresh == [ready |-> FALSE, init_ok |-> FALSE, has_job |-> FALSE, done |-> FALSE,
          stop |-> FALSE, in |-> 0, result |-> 0]

ClientPC == {"out", "reset", "create", "checkReady", "asleepReady", "post", "asleepDone",
             "checkDone", "returned", "stop", "stopWake", "join", "leave"}
OwnerPC == {"unborn", "init", "initialised", "failed", "asleep", "woken", "fetch",
            "invoke", "publish", "release", "gone"}

Init ==
  /\ mu = None /\ g_seg = None
  /\ pc = [c \in Clients |-> "out"]
  /\ cur = [c \in Clients |-> None]
  /\ mine = [c \in Clients |-> 0]
  /\ got = [c \in Clients |-> 0]
  /\ seg = [s \in Segs |-> Fresh]
  /\ owner = [s \in Segs |-> "unborn"]
  /\ work = [s \in Segs |-> 0]
  /\ jobs = 0

GoTo(c, p) == pc' = [pc EXCEPT ![c] = p]

\* notify_all on the object's only condition variable.
WokenClients(s) ==
  [c \in Clients |-> CASE cur[c] = s /\ pc[c] = "asleepReady" -> "checkReady"
                       [] cur[c] = s /\ pc[c] = "asleepDone" -> "checkDone"
                       [] OTHER -> pc[c]]
WokenOwner(s) == IF owner[s] = "asleep" THEN "woken" ELSE owner[s]

-----------------------------------------------------------------------------
(* The JNI entry points, as far as they touch the segmenter *)

\* std::lock_guard on g_mu (mutant: the entry point does not take it).
NoGlobalLock == TRUE
GlobalLockFree == mu = None

BeginInit(c) ==
  /\ pc[c] = "out" /\ GlobalLockFree
  /\ mu' = c
  /\ GoTo(c, "reset")
  /\ UNCHANGED <<g_seg, cur, mine, got, seg, ownerVars, jobs>>

\* process, segOnly, ndkShoot, processDir: run the segmenter there is.
BeginRun(c) ==
  /\ pc[c] = "out" /\ GlobalLockFree
  /\ g_seg # None /\ jobs < MaxJobs
  /\ mu' = c
  /\ cur' = [cur EXCEPT ![c] = g_seg]
  /\ GoTo(c, "post")
  /\ UNCHANGED <<g_seg, mine, got, seg, ownerVars, jobs>>

\* init: g_seg.reset() (mutant: the new segmenter is created first).
CreateBeforeReset(c) ==
  /\ GoTo(c, "create")
  /\ UNCHANGED cur
ResetOld(c) ==
  IF g_seg = None
  THEN /\ GoTo(c, "create")
       /\ UNCHANGED cur
  ELSE /\ GoTo(c, "stop")
       /\ cur' = [cur EXCEPT ![c] = g_seg]

ResetSeg(c) ==
  /\ pc[c] = "reset"
  /\ ResetOld(c)
  /\ UNCHANGED <<mu, g_seg, mine, got, seg, ownerVars, jobs>>

\* init without a model path leaves the app without a segmenter.
NoModel(c) ==
  /\ pc[c] = "create"
  /\ GoTo(c, "leave")
  /\ UNCHANGED <<mu, g_seg, cur, mine, got, seg, ownerVars, jobs>>

\* Segmenter::create: a new object, whose start() spawns the owner thread.
Create(c, s) ==
  /\ pc[c] = "create"
  /\ owner[s] = "unborn"
  /\ owner' = [owner EXCEPT ![s] = "init"]
  /\ cur' = [cur EXCEPT ![c] = s]
  /\ GoTo(c, "checkReady")
  /\ UNCHANGED <<mu, g_seg, mine, got, seg, work, jobs>>

\* start waits for ready_; when init failed, create drops the object again.
CheckReady(c) ==
  LET s == cur[c] IN
  /\ pc[c] = "checkReady"
  /\ \/ /\ ~seg[s].ready
        /\ GoTo(c, "asleepReady")
        /\ UNCHANGED g_seg
     \/ /\ seg[s].ready /\ seg[s].init_ok
        /\ GoTo(c, "leave")
        /\ g_seg' = s
     \/ /\ seg[s].ready /\ ~seg[s].init_ok
        /\ GoTo(c, "stop")
        /\ UNCHANGED g_seg
  /\ UNCHANGED <<mu, cur, mine, got, seg, ownerVars, jobs>>

\* run: what it writes under the lock (mutant: done_ is left from the last job).
PostKeepsDone(r, j) == [r EXCEPT !.in = j, !.has_job = TRUE]
Posted(r, j) == [r EXCEPT !.in = j, !.done = FALSE, !.has_job = TRUE]

\* run: post, notify, and the first test of the predicate, under one lock.
Post(c) ==
  LET s == cur[c]
      r == Posted(seg[s], jobs + 1) IN
  /\ pc[c] = "post"
  /\ jobs' = jobs + 1
  /\ mine' = [mine EXCEPT ![c] = jobs + 1]
  /\ seg' = [seg EXCEPT ![s] = r]
  /\ owner' = [owner EXCEPT ![s] = WokenOwner(s)]
  /\ IF r.done
     THEN /\ GoTo(c, "returned")
          /\ got' = [got EXCEPT ![c] = r.result]
     ELSE /\ GoTo(c, "asleepDone")
          /\ UNCHANGED got
  /\ UNCHANGED <<mu, g_seg, cur, work>>

CheckDone(c) ==
  LET s == cur[c] IN
  /\ pc[c] = "checkDone"
  /\ IF seg[s].done
     THEN /\ GoTo(c, "returned")
          /\ got' = [got EXCEPT ![c] = seg[s].result]
     ELSE /\ GoTo(c, "asleepDone")
          /\ UNCHANGED got
  /\ UNCHANGED <<mu, g_seg, cur, mine, seg, ownerVars, jobs>>

Returned(c) ==
  /\ pc[c] = "returned"
  /\ GoTo(c, "leave")
  /\ UNCHANGED <<mu, g_seg, cur, mine, got, seg, ownerVars, jobs>>

\* The lock_guard's scope ends.
Leave(c) ==
  /\ pc[c] = "leave"
  /\ mu' = None
  /\ cur' = [cur EXCEPT ![c] = None]
  /\ GoTo(c, "out")
  /\ UNCHANGED <<g_seg, mine, got, seg, ownerVars, jobs>>

-----------------------------------------------------------------------------
(* ~ThreadBoundSegmenter, on the client's thread *)

Stop(c) ==
  /\ pc[c] = "stop"
  /\ seg' = [seg EXCEPT ![cur[c]].stop = TRUE]
  /\ GoTo(c, "stopWake")
  /\ UNCHANGED <<mu, g_seg, cur, mine, got, ownerVars, jobs>>

\* The destructor notifies after it has released the lock.
StopWake(c) ==
  /\ pc[c] = "stopWake"
  /\ owner' = [owner EXCEPT ![cur[c]] = WokenOwner(cur[c])]
  /\ pc' = [WokenClients(cur[c]) EXCEPT ![c] = "join"]
  /\ UNCHANGED <<mu, g_seg, cur, mine, got, seg, work, jobs>>

\* When the destructor may return.
Joined(s) == owner[s] = "gone"

\* The object's memory is freed.  From init's reset the call goes on to create;
\* from a failed create it ends, without a segmenter.
Join(c) ==
  LET s == cur[c] IN
  /\ pc[c] = "join"
  /\ Joined(s)
  /\ GoTo(c, IF s = g_seg THEN "create" ELSE "leave")
  /\ g_seg' = None
  /\ cur' = [cur EXCEPT ![c] = None]
  /\ UNCHANGED <<mu, mine, got, seg, ownerVars, jobs>>

-----------------------------------------------------------------------------
(* The owner thread *)

\* LiteRtSegmenter::init, in no lock; it may fail.
InitDelegate(s) ==
  /\ owner[s] = "init"
  /\ \E p \in {"initialised", "failed"} : owner' = [owner EXCEPT ![s] = p]
  /\ UNCHANGED <<clientVars, seg, work, jobs>>

\* cv_.wait(stop_ || has_job_) evaluated with the fields r, the lock held: stop,
\* take the job, or sleep (mutant: it does not look at stop_).
WaitForJob(s, r) ==
  /\ owner' = [owner EXCEPT ![s] = IF r.has_job THEN "fetch" ELSE "asleep"]
  /\ seg' = [seg EXCEPT ![s] = [r EXCEPT !.has_job = FALSE]]
WaitForWork(s, r) ==
  /\ owner' = [owner EXCEPT ![s] = CASE r.stop -> "release"
                                     [] ~r.stop /\ r.has_job -> "fetch"
                                     [] OTHER -> "asleep"]
  /\ seg' = [seg EXCEPT ![s] = IF r.stop THEN r ELSE [r EXCEPT !.has_job = FALSE]]

\* Who is told that the delegate is up, or could not be (mutant: only the former).
NotifiesSuccess(s) == owner[s] = "initialised"
NotifiesReady(s) == TRUE

Announce(s) ==
  LET r == [seg[s] EXCEPT !.ready = TRUE, !.init_ok = (owner[s] = "initialised")] IN
  /\ owner[s] \in {"initialised", "failed"}
  /\ pc' = IF NotifiesReady(s) THEN WokenClients(s) ELSE pc
  /\ IF r.init_ok
     THEN WaitForWork(s, r)
     ELSE /\ seg' = [seg EXCEPT ![s] = r]
          /\ owner' = [owner EXCEPT ![s] = "release"]
  /\ UNCHANGED <<mu, g_seg, cur, mine, got, work, jobs>>

Recheck(s) ==
  /\ owner[s] = "woken"
  /\ WaitForWork(s, seg[s])
  /\ UNCHANGED <<clientVars, work, jobs>>

\* in_ and out_ are read after the unlock.
Fetch(s) ==
  /\ owner[s] = "fetch"
  /\ work' = [work EXCEPT ![s] = seg[s].in]
  /\ owner' = [owner EXCEPT ![s] = "invoke"]
  /\ UNCHANGED <<clientVars, seg, jobs>>

\* LiteRtSegmenter::run reads and writes the lent buffers.
Invoke(s) ==
  /\ owner[s] = "invoke"
  /\ owner' = [owner EXCEPT ![s] = "publish"]
  /\ UNCHANGED <<clientVars, seg, work, jobs>>

Publish(s) ==
  /\ owner[s] = "publish"
  /\ WaitForWork(s, [seg[s] EXCEPT !.result = work[s], !.done = TRUE])
  /\ pc' = WokenClients(s)
  /\ UNCHANGED <<mu, g_seg, cur, mine, got, work, jobs>>

\* s.reset() on the owner thread; then the thread ends.
Release(s) ==
  /\ owner[s] = "release"
  /\ owner' = [owner EXCEPT ![s] = "gone"]
  /\ UNCHANGED <<clientVars, seg, work, jobs>>

SpuriousClient(c) ==
  /\ pc[c] \in {"asleepReady", "asleepDone"}
  /\ GoTo(c, IF pc[c] = "asleepReady" THEN "checkReady" ELSE "checkDone")
  /\ UNCHANGED <<mu, g_seg, cur, mine, got, seg, ownerVars, jobs>>

SpuriousOwner(s) ==
  /\ owner[s] = "asleep"
  /\ owner' = [owner EXCEPT ![s] = "woken"]
  /\ UNCHANGED <<clientVars, seg, work, jobs>>

-----------------------------------------------------------------------------

CallStep(c) ==
  \/ ResetSeg(c) \/ NoModel(c) \/ (\E s \in Segs : Create(c, s)) \/ CheckReady(c)
  \/ Post(c) \/ CheckDone(c) \/ Returned(c) \/ Leave(c)
  \/ Stop(c) \/ StopWake(c) \/ Join(c)

OwnerStep(s) ==
  \/ InitDelegate(s) \/ Announce(s) \/ Recheck(s) \/ Fetch(s) \/ Invoke(s)
  \/ Publish(s) \/ Release(s)

Next ==
  \/ \E c \in Clients : BeginInit(c) \/ BeginRun(c) \/ CallStep(c) \/ SpuriousClient(c)
  \/ \E s \in Segs : OwnerStep(s) \/ SpuriousOwner(s)

\* The OS runs every runnable thread, and the delegate's calls return.
Fairness ==
  /\ \A c \in Clients : WF_vars(CallStep(c))
  /\ \A s \in Segs : WF_vars(OwnerStep(s))

Spec == Init /\ [][Next]_vars /\ Fairness

-----------------------------------------------------------------------------
(* Properties *)

\* Every variable has its type.
TypeOK ==
  /\ mu \in Clients \cup {None}
  /\ g_seg \in Segs \cup {None}
  /\ pc \in [Clients -> ClientPC]
  /\ cur \in [Clients -> Segs \cup {None}]
  /\ mine \in [Clients -> Jobs] /\ got \in [Clients -> Jobs]
  /\ seg \in [Segs -> [ready : BOOLEAN, init_ok : BOOLEAN, has_job : BOOLEAN,
                       done : BOOLEAN, stop : BOOLEAN, in : Jobs, result : Jobs]]
  /\ owner \in [Segs -> OwnerPC]
  /\ work \in [Segs -> Jobs]
  /\ jobs \in Jobs

InRun(c) == pc[c] \in {"asleepDone", "checkDone"}
HasDelegate(s) == owner[s] \notin {"unborn", "gone"}

\* run returns the outcome of the job it posted, never that of another caller
\* or of an earlier job of its own.
OwnResult == \A c \in Clients : pc[c] = "returned" => got[c] = mine[c]

\* While the delegate reads in_ and writes out_, the caller that lent these two
\* buffers (locals of segOnly, members of the pipeline) is still inside run.
BuffersLent ==
  \A s \in Segs :
    owner[s] = "invoke" => \E c \in Clients : InRun(c) /\ cur[c] = s /\ mine[c] = work[s]

\* The delegate of the old segmenter is released before the new one is brought
\* up: a GPU or NPU context exists at most once.  The object whose thread has it
\* is in use until it has given it up: g_seg names it, or the call that creates
\* or destroys it has it in hand.
OneDelegate ==
  /\ Cardinality({s \in Segs : HasDelegate(s)}) <= 1
  /\ \A s \in Segs : HasDelegate(s) => g_seg = s \/ \E c \in Clients : cur[c] = s

\* No wake-up is lost on the shared condition variable, which init, run and the
\* owner thread wait on for different things.  The owner sleeps on a job never,
\* and on a stop only until the destructor notifies; and the owner a client
\* waits for is on its way: it starts the delegate, has the job, or ends.
NoLostWakeup ==
  /\ \A s \in Segs : owner[s] = "asleep" =>
       ~seg[s].has_job /\ (seg[s].stop => \E c \in Clients : pc[c] = "stopWake" /\ cur[c] = s)
  /\ \A c \in Clients :
       LET s == cur[c] IN
       /\ pc[c] = "asleepReady" => owner[s] \in {"init", "initialised", "failed"}
       /\ pc[c] = "asleepDone" => \/ owner[s] = "woken" /\ seg[s].has_job
                                  \/ owner[s] \in {"fetch", "invoke", "publish"}
       /\ pc[c] = "join" => \/ owner[s] = "woken" /\ seg[s].stop
                            \/ owner[s] \in {"release", "gone"}

\* Who sleeps has someone at work for it, and who works has a caller that waits.
WaitsMatchWork == BuffersLent /\ NoLostWakeup

\* What follows from it under fairness: every JNI call that got g_mu returns,
\* however the start, the job and the stop interleave.
CallsReturn == \A c \in Clients : pc[c] # "out" ~> pc[c] = "out"
=============================================================================
