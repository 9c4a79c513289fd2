--------------------- MODULE ThreadBoundSegmenterProofs ---------------------
(***************************************************************************)
(* Proofs about ThreadBoundSegmenter for any finite sets of clients and    *)
(* objects and any number of jobs.  The argument: g_mu gives one client at *)
(* a time an object (Exclusive); that object is the one g_seg names, or    *)
(* g_seg names none (OneObject); so no second delegate can be up, and a    *)
(* job that is posted, fetched or at the delegate is the job of the client *)
(* that waits (JobIsLent), which wakes to its outcome (Answered).          *)
(***************************************************************************)
EXTENDS ThreadBoundSegmenter, FiniteSetTheorems, TLAPS

\* The owner thread has a job in hand.
AtWork(s) == owner[s] \in {"fetch", "invoke", "publish"}
Busy(s) == seg[s].has_job \/ AtWork(s)

\* Only the client that holds g_mu is inside a call or has an object.
Exclusive ==
  \A c \in Clients : pc[c] # "out" \/ cur[c] # None => mu = c

\* A call works on the segmenter of the JNI layer, or there is none.
OneObject ==
  \A c \in Clients :
    /\ cur[c] # None /\ g_seg # None => cur[c] = g_seg
    /\ pc[c] \in {"reset", "create"} => cur[c] = None
    /\ pc[c] = "create" => g_seg = None
    /\ pc[c] \in {"checkReady", "asleepReady", "stop", "stopWake", "join"} => cur[c] # None
    /\ pc[c] \in {"post", "asleepDone", "checkDone", "returned"} => cur[c] = g_seg /\ g_seg # None
    /\ pc[c] = "post" => jobs < MaxJobs
    /\ pc[c] = "leave" => cur[c] \in {None, g_seg}

\* A delegate belongs to an object that is in use.
InUse(s) == g_seg = s \/ \E c \in Clients : cur[c] = s
DelegateInUse == \A s \in Segs : HasDelegate(s) => InUse(s)

\* A job in hand is that of a client that waits for it.
Lent(c, s) ==
  /\ InRun(c) /\ cur[c] = s
  /\ seg[s].in = mine[c] /\ ~seg[s].done
  /\ owner[s] \in {"invoke", "publish"} => work[s] = mine[c]
  /\ ~(seg[s].has_job /\ AtWork(s))
JobIsLent == \A s \in Segs : Busy(s) => \E c \in Clients : Lent(c, s)

\* What a waiting client finds is the outcome of its job.
Answered == \A c \in Clients : InRun(c) /\ seg[cur[c]].done => seg[cur[c]].result = mine[c]

\* What the flags of an object say of its thread: until ready_ is set it starts
\* the delegate, and nobody has posted or stopped; then it waits or works until
\* the stop, or it ends because the delegate did not come up.
NotUp(s) == owner[s] \in {"unborn", "init", "initialised", "failed"}
Up(s) == owner[s] \in {"asleep", "woken", "fetch", "invoke", "publish"}
Stopping(s) == \E c \in Clients : pc[c] \in {"stopWake", "join"} /\ cur[c] = s
ObjectStage(s) ==
  /\ NotUp(s) => ~seg[s].ready /\ ~seg[s].stop /\ ~seg[s].has_job /\ g_seg # s
  /\ ~NotUp(s) => seg[s].ready
  /\ Up(s) => seg[s].init_ok
  /\ owner[s] \in {"release", "gone"} => seg[s].stop \/ ~seg[s].init_ok
  /\ owner[s] = "asleep" =>
       ~seg[s].has_job /\ (seg[s].stop => \E c \in Clients : pc[c] = "stopWake" /\ cur[c] = s)
  /\ g_seg = s => seg[s].init_ok /\ (seg[s].stop => Stopping(s))

\* And what the control point of a client says of the object it has in hand.
ClientStage(c) ==
  LET s == cur[c] IN
  /\ pc[c] \in {"checkReady", "asleepReady"} => owner[s] # "unborn" /\ ~seg[s].stop
  /\ pc[c] = "asleepReady" => ~seg[s].ready
  /\ InRun(c) => seg[s].done \/ (owner[s] = "woken" /\ seg[s].has_job) \/ AtWork(s)
  /\ pc[c] = "asleepDone" => ~seg[s].done
  /\ pc[c] = "stop" => seg[s].ready
  /\ pc[c] \in {"stopWake", "join"} => seg[s].stop
  /\ pc[c] = "join" => owner[s] \in {"woken", "release", "gone"}

Stages == (\A s \in Segs : ObjectStage(s)) /\ (\A c \in Clients : ClientStage(c))

IInv ==
  /\ TypeOK /\ Exclusive /\ OneObject /\ DelegateInUse
  /\ JobIsLent /\ Answered /\ OwnResult /\ Stages

-----------------------------------------------------------------------------
(* What a notify does to the control points *)

\* A wake-up turns a sleeping client into one that tests its predicate again.
LEMMA WokenClientsMove ==
  ASSUME TypeOK, NEW s
  PROVE  /\ WokenClients(s) \in [Clients -> ClientPC]
         /\ \A c \in Clients :
              \/ WokenClients(s)[c] = pc[c]
              \/ pc[c] = "asleepReady" /\ WokenClients(s)[c] = "checkReady"
              \/ pc[c] = "asleepDone" /\ WokenClients(s)[c] = "checkDone"
<1>1. \A c \in Clients : pc[c] \in ClientPC
  BY DEF TypeOK
<1>2. ASSUME NEW c \in Clients
      PROVE  /\ WokenClients(s)[c] \in ClientPC
             /\ \/ WokenClients(s)[c] = pc[c]
                \/ pc[c] = "asleepReady" /\ WokenClients(s)[c] = "checkReady"
                \/ pc[c] = "asleepDone" /\ WokenClients(s)[c] = "checkDone"
  BY <1>1 DEF WokenClients, ClientPC
<1> QED  BY <1>2 DEF WokenClients

\* Neither a client's stage nor who is inside run changes by a wake-up.
\* (A plain step of the owner thread leaves pc alone.)
OnlyWakes ==
  \A c \in Clients :
    \/ pc'[c] = pc[c]
    \/ pc[c] = "asleepReady" /\ pc'[c] = "checkReady"
    \/ pc[c] = "asleepDone" /\ pc'[c] = "checkDone"

LEMMA OwnerOnlyWakes ==
  ASSUME TypeOK, NEW s \in Segs, OwnerStep(s) \/ SpuriousOwner(s)
  PROVE  /\ OnlyWakes /\ pc' \in [Clients -> ClientPC]
         /\ UNCHANGED <<mu, g_seg, cur, mine, got, jobs>>
<1>1. pc' = pc \/ pc' = WokenClients(s)
  BY DEF OwnerStep, SpuriousOwner, InitDelegate, Announce, Recheck, Fetch, Invoke, Publish,
         Release, clientVars
<1>2. UNCHANGED <<mu, g_seg, cur, mine, got, jobs>>
  BY DEF OwnerStep, SpuriousOwner, InitDelegate, Announce, Recheck, Fetch, Invoke, Publish,
         Release, clientVars
<1>3. pc \in [Clients -> ClientPC]
  BY DEF TypeOK
<1> QED  BY <1>1, <1>2, <1>3, WokenClientsMove DEF OnlyWakes

-----------------------------------------------------------------------------
(* Types *)

Fields == [ready : BOOLEAN, init_ok : BOOLEAN, has_job : BOOLEAN,
           done : BOOLEAN, stop : BOOLEAN, in : Jobs, result : Jobs]

\* The wait of the owner thread keeps the types of what it writes.
LEMMA WaitTypes ==
  ASSUME TypeOK, NEW s \in Segs, NEW r \in Fields, WaitForWork(s, r)
  PROVE  owner' \in [Segs -> OwnerPC] /\ seg' \in [Segs -> Fields]
<1>1. [r EXCEPT !.has_job = FALSE] \in Fields
  BY DEF Fields
<1>2. owner \in [Segs -> OwnerPC] /\ seg \in [Segs -> Fields]
  BY DEF TypeOK, Fields
<1>3. seg' \in [Segs -> Fields]
  BY <1>1, <1>2 DEF WaitForWork
<1>4. owner' \in [Segs -> OwnerPC]
  BY <1>2 DEF WaitForWork, OwnerPC
<1> QED  BY <1>3, <1>4

LEMMA OwnerKeepsTypes ==
  ASSUME TypeOK, NEW s \in Segs, OwnerStep(s) \/ SpuriousOwner(s)
  PROVE  TypeOK'
<1>1. /\ owner \in [Segs -> OwnerPC] /\ seg \in [Segs -> Fields] /\ work \in [Segs -> Jobs]
      /\ seg[s] \in Fields
  BY DEF TypeOK, Fields
<1>2. owner' \in [Segs -> OwnerPC] /\ seg' \in [Segs -> Fields] /\ work' \in [Segs -> Jobs]
  <2>1. CASE InitDelegate(s) \/ Fetch(s) \/ Invoke(s) \/ Release(s) \/ SpuriousOwner(s)
    <3>1. seg[s].in \in Jobs
      BY <1>1 DEF Fields
    <3> QED
      BY <2>1, <1>1, <3>1 DEF InitDelegate, Fetch, Invoke, Release, SpuriousOwner, OwnerPC
  <2>2. CASE Announce(s)
    <3> DEFINE r == [seg[s] EXCEPT !.ready = TRUE, !.init_ok = (owner[s] = "initialised")]
    <3>1. r \in Fields
      BY <1>1 DEF Fields
    <3>2. CASE r.init_ok
      BY <2>2, <3>1, <3>2, <1>1, WaitTypes DEF Announce
    <3>3. CASE ~r.init_ok
      BY <2>2, <3>1, <3>3, <1>1 DEF Announce, OwnerPC
    <3> QED  BY <3>2, <3>3
  <2>3. CASE Recheck(s)
    BY <2>3, <1>1, WaitTypes DEF Recheck
  <2>4. CASE Publish(s)
    <3>1. [seg[s] EXCEPT !.result = work[s], !.done = TRUE] \in Fields
      BY <1>1 DEF Fields
    <3> QED  BY <2>4, <3>1, <1>1, WaitTypes DEF Publish
  <2> QED  BY <2>1, <2>2, <2>3, <2>4 DEF OwnerStep
<1> QED
  BY <1>2, OwnerOnlyWakes DEF TypeOK, Fields

LEMMA ClientKeepsTypes ==
  ASSUME SegAssumption, TypeOK, OneObject, NEW c \in Clients,
         BeginInit(c) \/ BeginRun(c) \/ CallStep(c) \/ SpuriousClient(c)
  PROVE  TypeOK'
<1>1. /\ pc \in [Clients -> ClientPC] /\ cur \in [Clients -> Segs \cup {None}]
      /\ owner \in [Segs -> OwnerPC] /\ seg \in [Segs -> Fields]
      /\ cur[c] # None => cur[c] \in Segs
  BY DEF TypeOK, Fields
<1>2. ASSUME NEW p \in ClientPC
      PROVE  [pc EXCEPT ![c] = p] \in [Clients -> ClientPC]
  BY <1>1
<1>3. \A p \in {"out", "reset", "create", "checkReady", "asleepReady", "post", "asleepDone",
                "checkDone", "returned", "stop", "stopWake", "join", "leave"} : p \in ClientPC
  BY DEF ClientPC
<1> USE DEF GoTo
<1>4. CASE BeginInit(c) \/ BeginRun(c)
  BY <1>4, <1>2, <1>3 DEF TypeOK, BeginInit, BeginRun, ownerVars
<1>5. CASE ResetSeg(c) \/ NoModel(c)
  BY <1>5, <1>2, <1>3 DEF TypeOK, ResetSeg, ResetOld, NoModel, ownerVars
<1>6. CASE \E s \in Segs : Create(c, s)
  BY <1>6, <1>2, <1>3 DEF TypeOK, Create, OwnerPC
<1>7. CASE CheckReady(c)
  BY <1>7, <1>1, <1>2, <1>3 DEF TypeOK, CheckReady, ownerVars
<1>8. CASE Post(c)
  <2> DEFINE s == cur[c]
             r == Posted(seg[s], jobs + 1)
  <2>1. s \in Segs /\ jobs + 1 \in Jobs
    BY <1>8, <1>1, SegAssumption DEF Post, OneObject, TypeOK, Jobs
  <2>2. seg[s] \in Fields
    BY <2>1, <1>1
  <2>3. r \in Fields /\ r.result \in Jobs
    BY <2>1, <2>2 DEF Posted, Fields
  <2>4. seg' \in [Segs -> Fields]
    BY <1>8, <1>1, <2>1, <2>3 DEF Post
  <2>5. owner' \in [Segs -> OwnerPC]
    BY <1>8, <1>1, <2>1 DEF Post, WokenOwner, OwnerPC
  <2>6. pc' \in [Clients -> ClientPC] /\ mine' \in [Clients -> Jobs] /\ got' \in [Clients -> Jobs]
    BY <1>8, <1>2, <1>3, <2>1, <2>3 DEF Post, TypeOK
  <2> QED  BY <1>8, <2>1, <2>4, <2>5, <2>6 DEF Post, TypeOK, Fields
<1>9. CASE CheckDone(c)
  <2>1. seg[cur[c]] \in Fields
    BY <1>9, <1>1 DEF CheckDone, OneObject
  <2>2. seg[cur[c]].result \in Jobs
    BY <2>1 DEF Fields
  <2> QED  BY <1>9, <2>2, <1>2, <1>3 DEF CheckDone, TypeOK, ownerVars
<1>10. CASE Returned(c) \/ Leave(c)
  BY <1>10, <1>2, <1>3 DEF TypeOK, Returned, Leave, ownerVars
<1>11. CASE Stop(c)
  <2> DEFINE f == seg[cur[c]]
  <2>1. [f EXCEPT !.stop = TRUE] \in Fields
    <3>1. f \in Fields
      BY <1>11, <1>1 DEF Stop, OneObject
    <3> HIDE DEF f
    <3> QED  BY <3>1 DEF Fields
  <2>2. seg' \in [Segs -> Fields]
    BY <1>11, <1>1, <2>1 DEF Stop
  <2> QED  BY <1>11, <2>2, <1>2, <1>3 DEF Stop, TypeOK, ownerVars, Fields
<1>12. CASE StopWake(c)
  <2>1. owner' \in [Segs -> OwnerPC]
    BY <1>12, <1>1 DEF StopWake, WokenOwner, OneObject, OwnerPC
  <2>2. pc' \in [Clients -> ClientPC]
    BY <1>12, <1>3, WokenClientsMove DEF StopWake
  <2> QED  BY <1>12, <2>1, <2>2 DEF StopWake, TypeOK
<1>13. CASE Join(c)
  BY <1>13, <1>1, <1>2, <1>3 DEF TypeOK, Join, ownerVars
<1>14. CASE SpuriousClient(c)
  BY <1>14, <1>2, <1>3 DEF TypeOK, SpuriousClient, ownerVars
<1> QED
  BY <1>4, <1>5, <1>6, <1>7, <1>8, <1>9, <1>10, <1>11, <1>12, <1>13, <1>14 DEF CallStep

-----------------------------------------------------------------------------
(* g_mu: one client at a time, and one object *)

LEMMA OwnerKeepsLock ==
  ASSUME TypeOK, Exclusive, OneObject, NEW s \in Segs, OwnerStep(s) \/ SpuriousOwner(s)
  PROVE  Exclusive' /\ OneObject'
<1>1. OnlyWakes /\ UNCHANGED <<mu, g_seg, cur, mine, got, jobs>>
  BY OwnerOnlyWakes
<1> QED
  BY <1>1 DEF OnlyWakes, Exclusive, OneObject

\* A client that is inside a call holds g_mu; the others are out, without an
\* object, and stay so.
LEMMA OthersOut ==
  ASSUME SegAssumption, TypeOK, Exclusive, OneObject, NEW c \in Clients,
         BeginInit(c) \/ BeginRun(c) \/ CallStep(c) \/ SpuriousClient(c)
  PROVE  /\ mu \in {None, c} /\ mu' \in {None, c}
         /\ pc[c] # "out" => mu = c
         /\ \A d \in Clients \ {c} : /\ pc[d] = "out" /\ cur[d] = None
                                     /\ pc'[d] = "out" /\ cur'[d] = None
<1>1. /\ pc \in [Clients -> ClientPC] /\ cur \in [Clients -> Segs \cup {None}]
      /\ mu \in Clients \cup {None}
  BY DEF TypeOK
<1>2. mu \in {None, c} /\ mu' \in {None, c} /\ (pc[c] # "out" => mu = c)
  <2> USE DEF CallStep, BeginInit, BeginRun, GlobalLockFree, SpuriousClient, ResetSeg, NoModel,
         Create, CheckReady, Post, CheckDone, Returned, Leave, Stop, StopWake, Join
  <2>1. mu \in {None, c} /\ (pc[c] # "out" => mu = c)
    BY DEF Exclusive
  <2>2. mu' \in {mu, c, None}
    OBVIOUS
  <2> QED  BY <2>1, <2>2
<1>3. SUFFICES ASSUME NEW d \in Clients \ {c}
               PROVE  pc[d] = "out" /\ cur[d] = None /\ pc'[d] = "out" /\ cur'[d] = None
  BY <1>2
<1>4. pc[d] = "out" /\ cur[d] = None
  BY <1>2, SegAssumption DEF Exclusive
<1>5. pc'[d] = pc[d]
  <2>1. CASE StopWake(c)
    BY <2>1, <1>1, <1>4, WokenClientsMove DEF StopWake
  <2>2. CASE ~StopWake(c)
    BY <2>2, <1>1 DEF GoTo, CallStep, BeginInit, BeginRun, SpuriousClient, ResetSeg, ResetOld,
       NoModel, Create, CheckReady, Post, CheckDone, Returned, Leave, Stop, Join
  <2> QED  BY <2>1, <2>2
<1>6. cur'[d] = cur[d]
  BY <1>1 DEF CallStep, BeginInit, BeginRun, SpuriousClient, ResetSeg, ResetOld, NoModel,
     Create, CheckReady, Post, CheckDone, Returned, Leave, Stop, StopWake, Join
<1> QED  BY <1>4, <1>5, <1>6

LEMMA ClientKeepsLock ==
  ASSUME SegAssumption, TypeOK, Exclusive, OneObject, NEW c \in Clients,
         BeginInit(c) \/ BeginRun(c) \/ CallStep(c) \/ SpuriousClient(c)
  PROVE  Exclusive' /\ OneObject'
<1>1. /\ pc \in [Clients -> ClientPC] /\ cur \in [Clients -> Segs \cup {None}]
      /\ mu \in Clients \cup {None} /\ g_seg \in Segs \cup {None} /\ None \notin Segs
  BY DEF TypeOK, SegAssumption
<1>2. Exclusive'
  <2>1. pc'[c] # "out" \/ cur'[c] # None => mu' = c
    BY <1>1, OthersOut DEF GoTo, GlobalLockFree, CallStep, BeginInit, BeginRun, SpuriousClient, ResetSeg,
       ResetOld, NoModel, Create, CheckReady, Post, CheckDone, Returned, Leave, Stop, StopWake,
       Join, Exclusive
  <2> QED  BY <2>1, OthersOut DEF Exclusive
\* The stage of the client that moves.
<1> DEFINE Stage ==
      /\ cur[c] # None /\ g_seg # None => cur[c] = g_seg
      /\ pc[c] \in {"reset", "create"} => cur[c] = None
      /\ pc[c] = "create" => g_seg = None
      /\ pc[c] \in {"checkReady", "asleepReady", "stop", "stopWake", "join"} => cur[c] # None
      /\ pc[c] \in {"post", "asleepDone", "checkDone", "returned"} => cur[c] = g_seg /\ g_seg # None
      /\ pc[c] = "post" => jobs < MaxJobs
      /\ pc[c] = "leave" => cur[c] \in {None, g_seg}
<1>3. Stage
  BY DEF OneObject
<1>4. Stage'
  <2> USE <1>1, <1>3 DEF GoTo
  <2>1. CASE BeginInit(c) \/ BeginRun(c)
    <3>1. mu = None /\ cur[c] = None
      BY <2>1, SegAssumption DEF BeginInit, BeginRun, GlobalLockFree, Exclusive
    <3> QED  BY <2>1, <3>1 DEF BeginInit, BeginRun
  <2>2. CASE ResetSeg(c) \/ NoModel(c)
    BY <2>2 DEF ResetSeg, ResetOld, NoModel
  <2>3. CASE \E s \in Segs : Create(c, s)
    BY <2>3 DEF Create
  <2>4. CASE CheckReady(c)
    BY <2>4 DEF CheckReady
  <2>5. CASE Post(c)
    BY <2>5 DEF Post
  <2>6. CASE CheckDone(c) \/ Returned(c) \/ Leave(c)
    BY <2>6 DEF CheckDone, Returned, Leave
  <2>7. CASE Stop(c)
    BY <2>7 DEF Stop
  <2>8. CASE StopWake(c)
    <3>1. pc'[c] = "join"
      BY <2>8, WokenClientsMove DEF StopWake
    <3> QED  BY <2>8, <3>1 DEF StopWake
  <2>9. CASE Join(c)
    BY <2>9 DEF Join
  <2>10. CASE SpuriousClient(c)
    BY <2>10 DEF SpuriousClient
  <2> QED
    BY <2>1, <2>2, <2>3, <2>4, <2>5, <2>6, <2>7, <2>8, <2>9, <2>10 DEF CallStep
<1> QED  BY <1>2, <1>4, OthersOut DEF OneObject

-----------------------------------------------------------------------------
(* The delegate *)

LEMMA OwnerKeepsInUse ==
  ASSUME TypeOK, DelegateInUse, NEW s \in Segs, OwnerStep(s) \/ SpuriousOwner(s)
  PROVE  DelegateInUse'
<1>1. UNCHANGED <<g_seg, cur>>
  BY OwnerOnlyWakes
<1>2. ASSUME NEW t \in Segs, HasDelegate(t)'
      PROVE  HasDelegate(t)
  <2>1. owner \in [Segs -> OwnerPC]
    BY DEF TypeOK
  <2>2. owner' = owner \/ (owner[s] \notin {"unborn", "gone"} /\ \E p : owner' = [owner EXCEPT ![s] = p])
    BY DEF OwnerStep, SpuriousOwner, InitDelegate, Announce, WaitForWork, Recheck, Fetch, Invoke,
       Publish, Release
  <2> QED  BY <1>2, <2>1, <2>2 DEF HasDelegate
<1> QED  BY <1>1, <1>2 DEF DelegateInUse, InUse

LEMMA ClientKeepsInUse ==
  ASSUME SegAssumption, TypeOK, Exclusive, OneObject, DelegateInUse, NEW c \in Clients,
         BeginInit(c) \/ BeginRun(c) \/ CallStep(c) \/ SpuriousClient(c)
  PROVE  DelegateInUse'
<1> SUFFICES ASSUME NEW t \in Segs, HasDelegate(t)'
             PROVE  InUse(t)'
  BY DEF DelegateInUse
<1>1. /\ cur \in [Clients -> Segs \cup {None}] /\ owner \in [Segs -> OwnerPC]
      /\ t # None
  BY DEF TypeOK, SegAssumption
\* Only the client that moves may have an object.
<1>2. /\ InUse(t) <=> g_seg = t \/ cur[c] = t
      /\ InUse(t)' <=> g_seg' = t \/ cur'[c] = t
  BY <1>1, OthersOut DEF InUse
<1>3. HasDelegate(t) => g_seg = t \/ cur[c] = t
  BY <1>2 DEF DelegateInUse
<1> USE DEF GoTo
<1>4. CASE \E s \in Segs : Create(c, s)
  <2>1. PICK s \in Segs : Create(c, s)
    BY <1>4
  <2>2. g_seg = None /\ cur[c] = None
    BY <2>1 DEF Create, OneObject
  <2>3. s = t
    BY <1>1, <1>3, <2>1, <2>2 DEF Create, HasDelegate
  <2> QED  BY <1>1, <1>2, <2>1, <2>3 DEF Create
<1>5. CASE Post(c) \/ StopWake(c)
  <2>1. HasDelegate(t)
    BY <1>1, <1>5 DEF Post, StopWake, WokenOwner, HasDelegate
  <2> QED  BY <1>2, <1>3, <1>5, <2>1 DEF Post, StopWake
<1>6. CASE Join(c)
  <2>1. HasDelegate(t) /\ t # cur[c]
    BY <1>6 DEF Join, Joined, HasDelegate, ownerVars
  <2>2. g_seg # t
    BY <1>1, <1>6, <2>1 DEF Join, OneObject
  <2> QED  BY <1>3, <2>1, <2>2
<1>7. CASE BeginInit(c) \/ BeginRun(c) \/ SpuriousClient(c) \/ ResetSeg(c) \/ NoModel(c) \/ CheckReady(c)
           \/ CheckDone(c) \/ Returned(c) \/ Leave(c) \/ Stop(c)
  <2>1. HasDelegate(t)
    BY <1>7 DEF HasDelegate, ownerVars, BeginInit, BeginRun, SpuriousClient, ResetSeg, NoModel, CheckReady,
       CheckDone, Returned, Leave, Stop
  <2>2. CASE BeginInit(c) \/ SpuriousClient(c) \/ NoModel(c) \/ CheckDone(c) \/ Returned(c) \/ Stop(c)
    BY <1>2, <1>3, <2>1, <2>2 DEF BeginInit, SpuriousClient, NoModel, CheckDone, Returned, Stop
  <2>3. CASE BeginRun(c) \/ ResetSeg(c) \/ Leave(c)
    <3>1. g_seg' = g_seg /\ cur[c] \in {None, g_seg}
      BY <2>3, SegAssumption DEF BeginRun, GlobalLockFree, Exclusive, ResetSeg, Leave, OneObject
    <3> QED  BY <1>1, <1>2, <1>3, <2>1, <3>1
  <2>4. CASE CheckReady(c)
    <3>1. cur[c] # None /\ cur' = cur /\ g_seg' \in {g_seg, cur[c]}
      BY <2>4 DEF CheckReady, OneObject
    <3> QED  BY <1>1, <1>2, <1>3, <2>1, <3>1 DEF OneObject
  <2> QED  BY <1>7, <2>2, <2>3, <2>4
<1> QED  BY <1>4, <1>5, <1>6, <1>7 DEF CallStep

\* An object in use is the only one.
LEMMA InUseIsOne ==
  ASSUME SegAssumption, Exclusive, OneObject, NEW s \in Segs, NEW t \in Segs, InUse(s), InUse(t)
  PROVE  s = t
<1>1. s # None /\ t # None
  BY DEF SegAssumption
<1>2. ASSUME NEW c \in Clients, NEW d \in Clients, cur[c] # None, cur[d] # None
      PROVE  c = d
  BY <1>2 DEF Exclusive
<1> QED  BY <1>1, <1>2 DEF InUse, OneObject

LEMMA InUseIsOneDelegate ==
  ASSUME SegAssumption, Exclusive, OneObject, DelegateInUse
  PROVE  OneDelegate
<1> DEFINE D == {s \in Segs : HasDelegate(s)}
<1>1. \A s, t \in D : s = t
  BY InUseIsOne DEF DelegateInUse
<1>2. Cardinality(D) <= 1
  <2>1. CASE D = {}
    BY <2>1, FS_EmptySet
  <2>2. CASE D # {}
    <3>1. PICK s \in D : TRUE
      BY <2>2
    <3>2. D = {s}
      BY <1>1, <3>1
    <3> HIDE DEF D
    <3> QED  BY <3>2, FS_Singleton
  <2> HIDE DEF D
  <2> QED  BY <2>1, <2>2
<1> QED  BY <1>2 DEF OneDelegate, DelegateInUse, InUse

-----------------------------------------------------------------------------
(* The job *)

\* Two waiting clients are one.
LEMMA OneWaits ==
  ASSUME Exclusive, NEW c \in Clients, NEW d \in Clients, InRun(c), InRun(d)
  PROVE  c = d
BY DEF Exclusive, InRun

JobInv == JobIsLent /\ Answered /\ OwnResult

\* A thread that has no job in hand and waits takes the posted one, if it need
\* not stop, and touches nothing else of it.
LEMMA WaitKeepsJob ==
  ASSUME NEW s \in Segs, NEW r \in Fields, WaitForWork(s, r), ~AtWork(s), work' = work,
         seg \in [Segs -> Fields], owner \in [Segs -> OwnerPC],
         r.has_job = seg[s].has_job, r.in = seg[s].in, r.done = seg[s].done,
         r.result = seg[s].result, UNCHANGED <<cur, mine>>,
         \A c \in Clients : InRun(c)' <=> InRun(c)
  PROVE  /\ Busy(s)' => Busy(s)
         /\ \A c \in Clients : Lent(c, s) => Lent(c, s)'
         /\ seg'[s].done = seg[s].done /\ seg'[s].result = seg[s].result
<1>1. /\ seg'[s] = IF r.stop THEN r ELSE [r EXCEPT !.has_job = FALSE]
      /\ owner'[s] = CASE r.stop -> "release"
                       [] ~r.stop /\ r.has_job -> "fetch"
                       [] OTHER -> "asleep"
  BY DEF WaitForWork
<1>2. /\ [r EXCEPT !.has_job = FALSE].has_job = FALSE
      /\ [r EXCEPT !.has_job = FALSE].in = r.in
      /\ [r EXCEPT !.has_job = FALSE].done = r.done
      /\ [r EXCEPT !.has_job = FALSE].result = r.result
      /\ r.stop \in BOOLEAN /\ r.has_job \in BOOLEAN
  BY DEF Fields
<1>3. /\ seg'[s].in = seg[s].in /\ seg'[s].done = seg[s].done /\ seg'[s].result = seg[s].result
      /\ seg'[s].has_job => seg[s].has_job
  BY <1>1, <1>2
<1>4. /\ owner'[s] \in {"release", "fetch", "asleep"}
      /\ owner'[s] = "fetch" => seg[s].has_job /\ ~seg'[s].has_job
  BY <1>1, <1>2
<1>5. Busy(s)' => Busy(s)
  BY <1>3, <1>4 DEF Busy, AtWork
<1>6. \A c \in Clients : Lent(c, s) => Lent(c, s)'
  BY <1>3, <1>4 DEF Lent, AtWork
<1> QED  BY <1>3, <1>5, <1>6

\* The owner thread's side: it takes the posted job, passes it on, publishes it.
LEMMA OwnerKeepsJob ==
  ASSUME TypeOK, Exclusive, OneObject, JobInv, NEW s \in Segs, OwnerStep(s) \/ SpuriousOwner(s)
  PROVE  JobInv'
<1>1. OnlyWakes /\ UNCHANGED <<mu, g_seg, cur, mine, got, jobs>>
  BY OwnerOnlyWakes
<1>2. /\ owner \in [Segs -> OwnerPC] /\ seg \in [Segs -> Fields] /\ work \in [Segs -> Jobs]
      /\ seg[s] \in Fields
  BY DEF TypeOK, Fields
<1>3. \A c \in Clients : (InRun(c)' <=> InRun(c)) /\ (pc'[c] = "returned" <=> pc[c] = "returned")
  BY <1>1 DEF OnlyWakes, InRun
<1>4. \A t \in Segs \ {s} : seg'[t] = seg[t] /\ owner'[t] = owner[t] /\ work'[t] = work[t]
  BY <1>2 DEF OwnerStep, SpuriousOwner, InitDelegate, Announce, WaitForWork, Recheck, Fetch,
     Invoke, Publish, Release
<1>5. \A c \in Clients : InRun(c) => cur[c] \in Segs
  BY DEF InRun, OneObject, TypeOK
\* What the step does to the object's job: it makes none, a client that lent one
\* still does while the thread is busy, and what is done is its outcome.
<1> DEFINE Moves ==
      /\ Busy(s)' => Busy(s)
      /\ \A c \in Clients : Busy(s)' /\ Lent(c, s) => Lent(c, s)'
      /\ \A c \in Clients : InRun(c) /\ cur[c] = s /\ seg'[s].done => seg'[s].result = mine[c]
<1>6. \A c \in Clients : InRun(c) /\ cur[c] = s /\ seg[s].done => seg[s].result = mine[c]
  BY DEF JobInv, Answered
<1>7. Moves
  <2>1. CASE InitDelegate(s) \/ SpuriousOwner(s) \/ Release(s) \/ Fetch(s) \/ Invoke(s)
    <3>1. seg' = seg /\ work'[s] \in {work[s], seg[s].in}
      BY <1>2, <2>1 DEF InitDelegate, SpuriousOwner, Release, Fetch, Invoke
    <3>2. CASE InitDelegate(s) \/ SpuriousOwner(s) \/ Release(s)
      BY <1>1, <1>2, <1>3, <1>6, <3>1, <3>2
      DEF InitDelegate, SpuriousOwner, Release, Lent, Busy, AtWork
    <3>3. CASE Fetch(s)
      BY <1>1, <1>2, <1>3, <1>6, <3>1, <3>3 DEF Fetch, Lent, Busy, AtWork
    <3>4. CASE Invoke(s)
      BY <1>1, <1>2, <1>3, <1>6, <3>1, <3>4 DEF Invoke, Lent, Busy, AtWork
    <3> QED  BY <2>1, <3>2, <3>3, <3>4
  <2>2. CASE Announce(s)
    <3> DEFINE r == [seg[s] EXCEPT !.ready = TRUE, !.init_ok = (owner[s] = "initialised")]
    <3>1. /\ r \in Fields /\ r.has_job = seg[s].has_job /\ r.in = seg[s].in
          /\ r.done = seg[s].done /\ r.result = seg[s].result /\ r.stop = seg[s].stop
      BY <1>2 DEF Fields
    <3>2. ~AtWork(s) /\ work' = work
      BY <2>2 DEF Announce, AtWork
    <3> HIDE DEF r
    <3>3. CASE ~r.init_ok
      <4>1. seg'[s] = r /\ owner'[s] = "release"
        BY <1>2, <2>2, <3>3 DEF Announce, r
      <4> QED  BY <1>1, <1>3, <1>6, <3>1, <3>2, <4>1 DEF Lent, Busy, AtWork
    <3>4. CASE r.init_ok
      <4>1. WaitForWork(s, r)
        BY <2>2, <3>4 DEF Announce, r
      <4> QED  BY <1>1, <1>2, <1>3, <1>6, <3>1, <3>2, <4>1, WaitKeepsJob
    <3> QED  BY <3>3, <3>4
  <2>3. CASE Recheck(s)
    <3>1. ~AtWork(s) /\ work' = work /\ WaitForWork(s, seg[s])
      BY <2>3 DEF Recheck, AtWork
    <3> QED  BY <1>1, <1>2, <1>3, <1>6, <3>1, WaitKeepsJob
  <2>4. CASE Publish(s)
    <3> DEFINE r == [seg[s] EXCEPT !.result = work[s], !.done = TRUE]
    <3>1. /\ r \in Fields /\ r.has_job = seg[s].has_job /\ r.result = work[s]
      BY <1>2 DEF Fields
    <3>2. AtWork(s) /\ owner[s] = "publish" /\ WaitForWork(s, r)
      BY <2>4 DEF Publish, AtWork
    <3>3. PICK d \in Clients : Lent(d, s)
      BY <3>2 DEF JobInv, JobIsLent, Busy
    <3>4. ~r.has_job /\ r.result = mine[d]
      BY <3>1, <3>2, <3>3 DEF Lent
    <3> HIDE DEF r
    <3>5. /\ seg'[s].has_job = FALSE /\ seg'[s].result = r.result
          /\ owner'[s] \in {"release", "asleep"}
      <4>1. /\ seg'[s] = IF r.stop THEN r ELSE [r EXCEPT !.has_job = FALSE]
            /\ owner'[s] = CASE r.stop -> "release"
                             [] ~r.stop /\ r.has_job -> "fetch"
                             [] OTHER -> "asleep"
        BY <1>2, <3>2 DEF WaitForWork
      <4>2. /\ [r EXCEPT !.has_job = FALSE].has_job = FALSE
            /\ [r EXCEPT !.has_job = FALSE].result = r.result
        BY <3>1 DEF Fields
      <4>3. r.has_job = FALSE /\ r.stop \in BOOLEAN
        BY <3>1, <3>4 DEF Fields
      <4> QED  BY <4>1, <4>2, <4>3
    <3>6. ~Busy(s)'
      BY <3>5 DEF Busy, AtWork
    <3>7. \A c \in Clients : InRun(c) => c = d
      BY <3>3, OneWaits DEF Lent
    <3> QED  BY <3>4, <3>5, <3>6, <3>7
  <2> QED  BY <2>1, <2>2, <2>3, <2>4 DEF OwnerStep
<1> HIDE DEF Moves
<1>8. JobIsLent'
  <2> SUFFICES ASSUME NEW t \in Segs, Busy(t)'
               PROVE  \E c \in Clients : Lent(c, t)'
    BY DEF JobIsLent
  <2>1. CASE t = s
    BY <1>7, <2>1 DEF Moves, JobInv, JobIsLent
  <2>2. CASE t # s
    <3>1. PICK c \in Clients : Lent(c, t)
      BY <1>4, <2>2 DEF JobInv, JobIsLent, Busy, AtWork
    <3> QED  BY <1>1, <1>3, <1>4, <2>2, <3>1 DEF Lent, AtWork
  <2> QED  BY <2>1, <2>2
<1>9. Answered'
  <2> SUFFICES ASSUME NEW c \in Clients, InRun(c), seg'[cur[c]].done
               PROVE  seg'[cur[c]].result = mine[c]
    BY <1>1, <1>3 DEF Answered
  <2>1. CASE cur[c] = s
    BY <1>7, <2>1 DEF Moves
  <2>2. CASE cur[c] # s
    BY <1>4, <1>5, <2>2 DEF JobInv, Answered
  <2> QED  BY <2>1, <2>2
<1>10. OwnResult'
  BY <1>1, <1>3 DEF JobInv, OwnResult
<1> QED  BY <1>8, <1>9, <1>10 DEF JobInv

\* The caller's side: it lends its buffers with the job and stays until it is done.
LEMMA ClientKeepsJob ==
  ASSUME SegAssumption, TypeOK, Exclusive, OneObject, JobInv, NEW c \in Clients,
         BeginInit(c) \/ BeginRun(c) \/ CallStep(c) \/ SpuriousClient(c)
  PROVE  JobInv'
<1>1. /\ pc \in [Clients -> ClientPC] /\ cur \in [Clients -> Segs \cup {None}]
      /\ owner \in [Segs -> OwnerPC] /\ seg \in [Segs -> Fields]
      /\ mine \in [Clients -> Jobs] /\ got \in [Clients -> Jobs]
  BY DEF TypeOK, Fields
<1>2. \A d \in Clients \ {c} : pc[d] = "out" /\ pc'[d] = "out"
  BY OthersOut
<1>3. \A t \in Segs : Busy(t) => Lent(c, t)
  BY <1>2 DEF JobInv, JobIsLent, Lent, InRun
<1>4. InRun(c) /\ seg[cur[c]].done => seg[cur[c]].result = mine[c]
  BY DEF JobInv, Answered
<1>5. InRun(c) \/ pc[c] = "returned" => cur[c] \in Segs
  BY <1>1 DEF InRun, OneObject
\* What is left to show of the client that moves.
<1>6. SUFFICES /\ \A t \in Segs : Busy(t)' => Lent(c, t)'
               /\ InRun(c)' /\ seg'[cur'[c]].done => seg'[cur'[c]].result = mine'[c]
               /\ pc'[c] = "returned" => got'[c] = mine'[c]
  BY <1>2 DEF JobInv, JobIsLent, Answered, OwnResult, InRun
<1> USE DEF GoTo
<1>7. CASE Post(c)
  <2> DEFINE s == cur[c]
             r == Posted(seg[s], jobs + 1)
  <2>1. pc[c] = "post" /\ s \in Segs
    BY <1>1, <1>7, SegAssumption DEF Post, OneObject
  <2>2. \A t \in Segs : ~Busy(t)
    BY <1>3, <2>1 DEF Lent, InRun
  <2>3. r.done = FALSE /\ r.in = jobs + 1 /\ r.has_job = TRUE
    BY <1>1, <2>1 DEF Posted, Fields
  <2>4. /\ pc'[c] = "asleepDone" /\ mine'[c] = jobs + 1 /\ cur' = cur
        /\ seg'[s] = r /\ (\A t \in Segs \ {s} : seg'[t] = seg[t])
        /\ work' = work
    BY <1>1, <1>7, <2>1, <2>3 DEF Post
  <2>5. \A t \in Segs : ~AtWork(t)'
    BY <1>1, <1>7, <2>1, <2>2 DEF Post, WokenOwner, Busy, AtWork
  <2> HIDE DEF r
  <2>6. \A t \in Segs : Busy(t)' => t = s
    BY <2>2, <2>4, <2>5 DEF Busy
  <2>7. ASSUME NEW t \in Segs, t = s
        PROVE  Lent(c, t)'
    BY <2>3, <2>4, <2>5, <2>7 DEF Lent, InRun, AtWork
  <2> QED  BY <2>3, <2>4, <2>6, <2>7
<1>8. CASE CheckDone(c)
  <2>1. /\ UNCHANGED <<cur, mine, seg, owner, work>> /\ InRun(c)
        /\ pc'[c] = IF seg[cur[c]].done THEN "returned" ELSE "asleepDone"
        /\ got'[c] = IF seg[cur[c]].done THEN seg[cur[c]].result ELSE got[c]
    BY <1>1, <1>8 DEF CheckDone, InRun, ownerVars
  <2>2. ASSUME NEW t \in Segs, Busy(t)
        PROVE  Lent(c, t)'
    BY <1>3, <2>1, <2>2 DEF Lent, InRun, AtWork
  <2> QED  BY <1>4, <2>1, <2>2 DEF Busy, AtWork
<1>9. CASE SpuriousClient(c)
  <2>1. /\ UNCHANGED <<cur, mine, got, seg, owner, work>> /\ (InRun(c)' <=> InRun(c))
        /\ pc'[c] # "returned"
    BY <1>1, <1>9 DEF SpuriousClient, InRun, ownerVars
  <2> QED  BY <1>3, <1>4, <2>1 DEF Lent, Busy, AtWork
\* The other steps are taken by a client that has no job at the segmenter.
<1>10. CASE BeginInit(c) \/ BeginRun(c) \/ ResetSeg(c) \/ NoModel(c) \/ (\E s \in Segs : Create(c, s))
            \/ CheckReady(c) \/ Returned(c) \/ Leave(c) \/ Stop(c) \/ StopWake(c) \/ Join(c)
  <2>1. ~InRun(c)
    BY <1>10 DEF InRun, BeginInit, BeginRun, ResetSeg, NoModel, Create, CheckReady, Returned, Leave,
       Stop, StopWake, Join
  <2>2. \A t \in Segs : ~Busy(t)
    BY <1>3, <2>1 DEF Lent
  <2>3. \A t \in Segs : seg'[t].has_job = seg[t].has_job
    BY <1>1, <1>10 DEF BeginInit, BeginRun, ResetSeg, NoModel, Create, CheckReady, Returned, Leave,
       Stop, StopWake, Join, Fields
  <2>4. \A t \in Segs : ~AtWork(t)'
    BY <1>1, <1>10, <2>2 DEF Busy, AtWork, BeginInit, BeginRun, ResetSeg, NoModel, Create, CheckReady,
       Returned, Leave, Stop, StopWake, Join, WokenOwner, ownerVars
  <2>5. ~InRun(c)' /\ pc'[c] # "returned"
    <3>1. CASE StopWake(c)
      BY <3>1, WokenClientsMove DEF StopWake, InRun
    <3>2. CASE ~StopWake(c)
      BY <1>1, <1>10, <3>2 DEF InRun, BeginInit, BeginRun, ResetSeg, ResetOld, NoModel, Create,
         CheckReady, Returned, Leave, Stop, Join
    <3> QED  BY <3>1, <3>2
  <2> QED  BY <2>2, <2>3, <2>4, <2>5 DEF Busy
<1> QED  BY <1>7, <1>8, <1>9, <1>10 DEF CallStep

-----------------------------------------------------------------------------
(* The stages of an object and of the client that has it in hand *)

\* What a test of the owner's predicate makes of the object.
LEMMA WaitStage ==
  ASSUME NEW s \in Segs, NEW r \in Fields, WaitForWork(s, r),
         seg \in [Segs -> Fields], owner \in [Segs -> OwnerPC]
  PROVE  /\ seg'[s].ready = r.ready /\ seg'[s].init_ok = r.init_ok
         /\ seg'[s].stop = r.stop /\ seg'[s].done = r.done
         /\ r.stop => owner'[s] = "release"
         /\ ~r.stop /\ r.has_job => owner'[s] = "fetch"
         /\ ~r.stop /\ ~r.has_job => owner'[s] = "asleep"
         /\ ~r.stop => ~seg'[s].has_job
<1> DEFINE q == [r EXCEPT !.has_job = FALSE]
<1>1. /\ q.ready = r.ready /\ q.init_ok = r.init_ok /\ q.stop = r.stop /\ q.done = r.done /\ ~q.has_job
      /\ r.stop \in BOOLEAN /\ r.has_job \in BOOLEAN
  BY DEF Fields
<1>2. /\ seg'[s] = IF r.stop THEN r ELSE q
      /\ owner'[s] = CASE r.stop -> "release"
                       [] ~r.stop /\ r.has_job -> "fetch"
                       [] OTHER -> "asleep"
  BY DEF WaitForWork
<1> HIDE DEF q
<1> QED  BY <1>1, <1>2

\* The owner thread's side: only its own object, and the client that waits for it.
LEMMA OwnerKeepsStage ==
  ASSUME TypeOK, Exclusive, OneObject, Stages, NEW s \in Segs, OwnerStep(s) \/ SpuriousOwner(s)
  PROVE  Stages'
<1>1. OnlyWakes /\ UNCHANGED <<mu, g_seg, cur, mine, got, jobs>>
  BY OwnerOnlyWakes
<1>2. /\ owner \in [Segs -> OwnerPC] /\ seg \in [Segs -> Fields] /\ seg[s] \in Fields
      /\ pc \in [Clients -> ClientPC] /\ \A c \in Clients : cur[c] \in Segs \cup {None}
  BY DEF TypeOK, Fields
<1>3. \A t \in Segs \ {s} : seg'[t] = seg[t] /\ owner'[t] = owner[t]
  BY <1>2 DEF OwnerStep, SpuriousOwner, InitDelegate, Announce, WaitForWork, Recheck, Fetch,
     Invoke, Publish, Release
<1>4. /\ \A t \in Segs : Stopping(t)' <=> Stopping(t)
      /\ \A c \in Clients : /\ pc'[c] = "stopWake" <=> pc[c] = "stopWake"
                            /\ InRun(c)' <=> InRun(c)
  BY <1>1 DEF OnlyWakes, Stopping, InRun
<1>5. \A t \in Segs \ {s} : ObjectStage(t)'
  BY <1>1, <1>3, <1>4 DEF Stages, ObjectStage, NotUp, Up
<1>6. ASSUME NEW c \in Clients, cur[c] # s
      PROVE  ClientStage(c)'
  <2>1. CASE cur[c] = None
    <3>1. pc[c] \notin {"checkReady", "asleepReady", "asleepDone", "checkDone", "stop", "stopWake", "join"}
      BY <2>1 DEF OneObject
    <3>2. pc'[c] = pc[c]
      BY <1>1, <3>1 DEF OnlyWakes
    <3> QED  BY <3>1, <3>2 DEF ClientStage, InRun
  <2>2. CASE cur[c] \in Segs
    <3>1. cur'[c] = cur[c] /\ seg'[cur[c]] = seg[cur[c]] /\ owner'[cur[c]] = owner[cur[c]]
      BY <1>1, <1>3, <1>6, <2>2
    <3>2. ClientStage(c)
      BY DEF Stages
    <3> QED  BY <1>1, <3>1, <3>2 DEF OnlyWakes, ClientStage, InRun, AtWork
  <2> QED  BY <1>2, <2>1, <2>2
\* What is left: the object itself, and a client that has it in hand.
<1>7. SUFFICES /\ ObjectStage(s)'
               /\ \A c \in Clients : cur[c] = s => ClientStage(c)'
  BY <1>5, <1>6 DEF Stages
<1>8. /\ ObjectStage(s) /\ \A c \in Clients : ClientStage(c)
      /\ \A c \in Clients : InRun(c) => cur[c] = g_seg
      /\ seg[s].stop \in BOOLEAN /\ seg[s].ready \in BOOLEAN /\ seg[s].init_ok \in BOOLEAN
      /\ seg[s].has_job \in BOOLEAN /\ seg[s].done \in BOOLEAN
  BY <1>2 DEF Stages, OneObject, InRun, Fields
<1>9. CASE InitDelegate(s) \/ Fetch(s) \/ Invoke(s) \/ Release(s) \/ SpuriousOwner(s)
  <2>1. pc' = pc /\ seg' = seg
    BY <1>9 DEF InitDelegate, Fetch, Invoke, Release, SpuriousOwner, clientVars
  <2>2. \/ owner[s] = "init" /\ owner'[s] \in {"initialised", "failed"}
        \/ owner[s] = "fetch" /\ owner'[s] = "invoke"
        \/ owner[s] = "invoke" /\ owner'[s] = "publish"
        \/ owner[s] = "release" /\ owner'[s] = "gone"
        \/ owner[s] = "asleep" /\ owner'[s] = "woken"
    BY <1>2, <1>9 DEF InitDelegate, Fetch, Invoke, Release, SpuriousOwner
  <2>3. ObjectStage(s)'
    BY <1>1, <1>4, <1>8, <2>1, <2>2 DEF ObjectStage, NotUp, Up
  <2>4. ASSUME NEW c \in Clients, cur[c] = s PROVE ClientStage(c)'
    BY <1>1, <1>8, <2>1, <2>2, <2>4 DEF ClientStage, InRun, AtWork
  <2> QED  BY <2>3, <2>4
<1>10. ASSUME owner'[s] \in {"release", "fetch", "asleep"}, seg'[s].ready, seg'[s].stop = seg[s].stop,
              owner'[s] = "release" => seg'[s].stop \/ ~seg'[s].init_ok,
              owner'[s] # "release" => seg'[s].init_ok,
              owner'[s] = "asleep" => ~seg'[s].has_job /\ ~seg'[s].stop,
              g_seg = s => seg'[s].init_ok
       PROVE  ObjectStage(s)'
  BY <1>1, <1>4, <1>8, <1>10 DEF ObjectStage, NotUp, Up
<1>11. CASE Announce(s)
  <2> DEFINE r == [seg[s] EXCEPT !.ready = TRUE, !.init_ok = (owner[s] = "initialised")]
  <2>1. /\ r \in Fields /\ r.ready /\ r.init_ok = (owner[s] = "initialised")
        /\ r.stop = seg[s].stop /\ r.has_job = seg[s].has_job /\ r.done = seg[s].done
    BY <1>2 DEF Fields
  <2>2. /\ owner[s] \in {"initialised", "failed"} /\ pc' = WokenClients(s)
        /\ r.init_ok => WaitForWork(s, r)
        /\ ~r.init_ok => seg'[s] = r /\ owner'[s] = "release"
    BY <1>2, <1>11 DEF Announce, NotifiesReady
  <2> HIDE DEF r
  <2>3. ~seg[s].ready /\ ~seg[s].stop /\ ~seg[s].has_job /\ g_seg # s
    BY <1>8, <2>2 DEF ObjectStage, NotUp
  <2>4. /\ seg'[s].ready /\ seg'[s].init_ok = r.init_ok /\ ~seg'[s].stop /\ seg'[s].done = seg[s].done
        /\ owner'[s] = IF r.init_ok THEN "asleep" ELSE "release"
        /\ r.init_ok => ~seg'[s].has_job
        /\ seg'[s].stop = seg[s].stop
    <3>1. CASE r.init_ok
      BY <1>2, <2>1, <2>2, <2>3, <3>1, WaitStage
    <3>2. CASE ~r.init_ok
      BY <2>1, <2>2, <2>3, <3>2
    <3> QED  BY <3>1, <3>2
  <2>5. ObjectStage(s)'
    BY <1>10, <2>3, <2>4
  <2>6. ASSUME NEW c \in Clients, cur[c] = s PROVE ClientStage(c)'
    <3>1. ~InRun(c) /\ pc[c] \notin {"stop", "stopWake", "join"}
      BY <1>8, <2>3, <2>6 DEF ClientStage
    <3>2. pc'[c] = IF pc[c] = "asleepReady" THEN "checkReady" ELSE pc[c]
      BY <2>2, <2>6, <3>1 DEF WokenClients, InRun
    <3> QED  BY <1>1, <2>4, <2>6, <3>1, <3>2 DEF ClientStage, InRun
  <2> QED  BY <2>5, <2>6
<1>12. CASE Recheck(s) \/ Publish(s)
  <2> DEFINE r == IF owner[s] = "woken" THEN seg[s] ELSE [seg[s] EXCEPT !.result = work[s], !.done = TRUE]
  <2>1. /\ r \in Fields /\ r.ready = seg[s].ready /\ r.init_ok = seg[s].init_ok
        /\ r.stop = seg[s].stop /\ r.has_job = seg[s].has_job
        /\ r.done = (seg[s].done \/ owner[s] # "woken")
    BY <1>2 DEF TypeOK, Fields
  <2>2. WaitForWork(s, r) /\ owner[s] \in {"woken", "publish"}
    BY <1>12 DEF Recheck, Publish
  <2> HIDE DEF r
  <2>3. seg[s].ready /\ seg[s].init_ok
    BY <1>8, <2>2 DEF ObjectStage, NotUp, Up
  <2>4. /\ seg'[s].ready /\ seg'[s].init_ok /\ seg'[s].stop = seg[s].stop
        /\ seg'[s].done = (seg[s].done \/ owner[s] # "woken")
        /\ seg[s].stop => owner'[s] = "release"
        /\ ~seg[s].stop /\ seg[s].has_job => owner'[s] = "fetch"
        /\ ~seg[s].stop /\ ~seg[s].has_job => owner'[s] = "asleep"
        /\ ~seg[s].stop => ~seg'[s].has_job
    BY <1>2, <2>1, <2>2, <2>3, WaitStage
  <2>5. ObjectStage(s)'
    BY <1>8, <1>10, <2>4
  <2>6. ASSUME NEW c \in Clients, cur[c] = s PROVE ClientStage(c)'
    <3>1. InRun(c) => ~seg[s].stop
      <4>1. ASSUME InRun(c), seg[s].stop PROVE FALSE
        <5>1. PICK d \in Clients : pc[d] \in {"stopWake", "join"} /\ cur[d] = s
          BY <1>8, <2>6, <4>1 DEF ObjectStage, Stopping
        <5>2. pc[c] # "out" /\ pc[d] # "out"
          BY <4>1, <5>1 DEF InRun
        <5>3. c = d
          BY <5>2 DEF Exclusive
        <5> QED  BY <4>1, <5>1, <5>3 DEF InRun
      <4> QED  BY <4>1
    <3>2. pc[c] = "join" => seg[s].stop
      BY <1>8, <2>6 DEF ClientStage
    <3>3. /\ pc'[c] = pc[c] \/ (pc[c] = "asleepReady" /\ pc'[c] = "checkReady")
             \/ (pc[c] = "asleepDone" /\ pc'[c] = "checkDone")
          /\ owner[s] = "publish" => pc'[c] \notin {"asleepReady", "asleepDone"}
          /\ owner[s] = "woken" => pc' = pc
      BY <1>1, <1>12, <2>6 DEF OnlyWakes, Recheck, Publish, WokenClients, clientVars
    <3>4. pc[c] # "asleepReady"
      BY <1>8, <2>3, <2>6 DEF ClientStage
    <3>5. pc'[c] = "asleepDone" => ~seg'[s].done
      BY <1>8, <2>2, <2>4, <2>6, <3>3 DEF ClientStage
    <3>6. InRun(c)' => seg'[s].done \/ AtWork(s)'
      BY <1>4, <1>8, <2>2, <2>4, <2>6, <3>1 DEF ClientStage, AtWork
    <3> QED  BY <1>1, <1>8, <2>3, <2>4, <2>6, <3>2, <3>3, <3>4, <3>5, <3>6 DEF ClientStage
  <2> QED  BY <2>5, <2>6
<1> QED  BY <1>9, <1>11, <1>12 DEF OwnerStep

\* The client's side.  No other is in a call, so a stop in progress is its own.
LEMMA ClientKeepsStage ==
  ASSUME SegAssumption, TypeOK, Exclusive, OneObject, JobIsLent, Stages, NEW c \in Clients,
         BeginInit(c) \/ BeginRun(c) \/ CallStep(c) \/ SpuriousClient(c)
  PROVE  Stages'
<1>1. /\ pc \in [Clients -> ClientPC] /\ cur \in [Clients -> Segs \cup {None}]
      /\ owner \in [Segs -> OwnerPC] /\ seg \in [Segs -> Fields]
      /\ cur[c] # None => cur[c] \in Segs
  BY DEF TypeOK, Fields
<1>2. \A d \in Clients \ {c} : pc[d] = "out" /\ cur[d] = None /\ pc'[d] = "out" /\ cur'[d] = None
  BY OthersOut
<1>3. \A d \in Clients \ {c} : ClientStage(d)'
  BY <1>2 DEF ClientStage, InRun
<1>4. SUFFICES ClientStage(c)' /\ \A t \in Segs : ObjectStage(t)'
  BY <1>3 DEF Stages
<1>5. ClientStage(c) /\ \A t \in Segs : ObjectStage(t)
  BY DEF Stages
<1>6. \A t \in Segs : Stopping(t) => pc[c] \in {"stopWake", "join"} /\ cur[c] = t
  BY <1>2 DEF Stopping
<1>7. \A t \in Segs : seg[t].ready \in BOOLEAN /\ seg[t].stop \in BOOLEAN /\ seg[t].init_ok \in BOOLEAN
                      /\ seg[t].has_job \in BOOLEAN /\ seg[t].done \in BOOLEAN
  BY <1>1 DEF Fields
\* A step that leaves the objects alone and neither is nor becomes a stop.
<1>8. ASSUME seg' = seg, owner' = owner, g_seg' = g_seg, pc[c] \notin {"stopWake", "join"}
      PROVE  \A t \in Segs : ObjectStage(t)'
  <2> SUFFICES ASSUME NEW t \in Segs PROVE ObjectStage(t)'
    OBVIOUS
  <2>1. ~Stopping(t) /\ ~\E d \in Clients : pc[d] = "stopWake" /\ cur[d] = t
    BY <1>2, <1>6, <1>8 DEF Stopping
  <2> QED  BY <1>5, <1>8, <2>1 DEF ObjectStage, NotUp, Up
<1>9. CASE BeginInit(c) \/ NoModel(c) \/ Returned(c) \/ Leave(c)
  <2>1. /\ seg' = seg /\ owner' = owner /\ g_seg' = g_seg /\ pc[c] \notin {"stopWake", "join"}
        /\ pc'[c] \in {"reset", "leave", "out"}
    BY <1>1, <1>9 DEF GoTo, BeginInit, NoModel, Returned, Leave, ownerVars
  <2> QED  BY <1>8, <2>1 DEF ClientStage, InRun
<1>10. CASE BeginRun(c) \/ ResetSeg(c)
  <2>1. /\ seg' = seg /\ owner' = owner /\ g_seg' = g_seg /\ pc[c] \notin {"stopWake", "join"}
        /\ \/ pc'[c] \in {"post", "create"}
           \/ pc'[c] = "stop" /\ cur'[c] = g_seg /\ g_seg # None
    BY <1>1, <1>10 DEF GoTo, BeginRun, ResetSeg, ResetOld, ownerVars
  <2>2. g_seg # None => g_seg \in Segs /\ seg[g_seg].ready
    BY <1>5 DEF TypeOK, ObjectStage
  <2> QED  BY <1>8, <2>1, <2>2 DEF ClientStage, InRun
<1>11. CASE SpuriousClient(c) \/ CheckDone(c)
  <2>1. /\ seg' = seg /\ owner' = owner /\ g_seg' = g_seg /\ cur' = cur /\ pc[c] \notin {"stopWake", "join"}
        /\ \/ pc[c] = "asleepReady" /\ pc'[c] = "checkReady"
           \/ InRun(c) /\ pc'[c] \in {"checkDone", "returned"}
           \/ InRun(c) /\ pc'[c] = "asleepDone" /\ ~seg[cur[c]].done
    BY <1>1, <1>11 DEF GoTo, SpuriousClient, CheckDone, ownerVars, InRun
  <2> QED  BY <1>5, <1>8, <2>1 DEF ClientStage, InRun, AtWork
<1>12. CASE CheckReady(c)
  <2> DEFINE s == cur[c]
  <2>1. s \in Segs /\ owner[s] # "unborn" /\ ~seg[s].stop /\ pc[c] = "checkReady"
    BY <1>1, <1>5, <1>12 DEF CheckReady, OneObject, ClientStage
  <2>2. /\ seg' = seg /\ owner' = owner /\ cur' = cur
        /\ \/ ~seg[s].ready /\ pc'[c] = "asleepReady" /\ g_seg' = g_seg
           \/ seg[s].ready /\ seg[s].init_ok /\ pc'[c] = "leave" /\ g_seg' = s
           \/ seg[s].ready /\ pc'[c] = "stop" /\ g_seg' = g_seg
    BY <1>1, <1>12 DEF GoTo, CheckReady, ownerVars
  <2>3. ClientStage(c)'
    BY <2>1, <2>2 DEF ClientStage, InRun
  <2>4. CASE g_seg' = g_seg
    BY <1>8, <2>1, <2>2, <2>3, <2>4
  <2>5. CASE g_seg' # g_seg
    <3>1. g_seg' = s /\ seg[s].ready /\ seg[s].init_ok
      BY <2>2, <2>5
    <3> SUFFICES ASSUME NEW t \in Segs PROVE ObjectStage(t)'
      BY <2>3
    <3> HIDE DEF s
    <3>2. ~Stopping(t) /\ ~\E d \in Clients : pc[d] = "stopWake" /\ cur[d] = t
      BY <1>2, <1>6, <2>1 DEF Stopping
    <3> QED  BY <1>5, <2>1, <2>2, <3>1, <3>2 DEF ObjectStage, NotUp, Up
  <2> QED  BY <2>4, <2>5
<1>13. ASSUME NEW n \in Segs, Create(c, n) PROVE ClientStage(c)' /\ \A t \in Segs : ObjectStage(t)'
  <2>1. /\ seg' = seg /\ g_seg' = g_seg /\ pc[c] = "create" /\ owner[n] = "unborn"
        /\ owner'[n] = "init" /\ \A t \in Segs \ {n} : owner'[t] = owner[t]
        /\ pc'[c] = "checkReady" /\ cur'[c] = n
    BY <1>1, <1>13 DEF GoTo, Create
  <2>2. ClientStage(c)'
    BY <1>5, <2>1 DEF ClientStage, InRun, ObjectStage, NotUp
  <2>3. ASSUME NEW t \in Segs PROVE ObjectStage(t)'
    <3>1. ~Stopping(t) /\ ~\E d \in Clients : pc[d] = "stopWake" /\ cur[d] = t
      BY <1>2, <1>6, <2>1 DEF Stopping
    <3>2. CASE t = n
      BY <1>5, <2>1, <3>1, <3>2 DEF ObjectStage, NotUp, Up
    <3>3. CASE t # n
      BY <1>5, <2>1, <3>1, <3>3 DEF ObjectStage, NotUp, Up
    <3> QED  BY <3>2, <3>3
  <2> QED  BY <2>2, <2>3
\* The object in hand when the owner must be told: no job is under way.
<1>14. ASSUME pc[c] \in {"post", "stop", "stopWake"}
       PROVE  /\ cur[c] \in Segs /\ seg[cur[c]].ready /\ ~Busy(cur[c])
              /\ pc[c] = "post" => Up(cur[c]) /\ ~seg[cur[c]].stop /\ g_seg = cur[c]
              /\ pc[c] # "post" => owner[cur[c]] \in {"asleep", "woken", "release", "gone"}
  <2>1. cur[c] \in Segs
    BY <1>1, <1>14 DEF OneObject
  <2>2. ~Busy(cur[c])
    <3>1. \A d \in Clients : ~InRun(d)
      BY <1>2, <1>14 DEF InRun
    <3> QED  BY <2>1, <3>1 DEF JobIsLent, Lent
  <2>3. pc[c] = "post" => /\ g_seg = cur[c] /\ seg[cur[c]].init_ok /\ ~seg[cur[c]].stop
    BY <1>5, <1>6, <2>1 DEF OneObject, ObjectStage
  <2>4. ~NotUp(cur[c]) /\ seg[cur[c]].ready
    BY <1>5, <1>14, <2>1, <2>3 DEF ObjectStage, ClientStage
  <2>5. owner[cur[c]] \in {"asleep", "woken", "release", "gone"}
    BY <1>1, <2>1, <2>2, <2>4 DEF Busy, AtWork, NotUp, OwnerPC
  <2>6. pc[c] = "post" => Up(cur[c])
    BY <1>5, <2>1, <2>3, <2>5 DEF ObjectStage, Up
  <2> QED  BY <2>1, <2>2, <2>3, <2>4, <2>5, <2>6
<1>15. CASE Post(c)
  <2> DEFINE s == cur[c]
             r == Posted(seg[s], jobs + 1)
  <2>1. /\ s \in Segs /\ Up(s) /\ ~seg[s].stop /\ g_seg = s /\ seg[s].ready /\ ~Busy(s) /\ pc[c] = "post"
    BY <1>14, <1>15 DEF Post
  <2>2. /\ r.ready = seg[s].ready /\ r.init_ok = seg[s].init_ok /\ r.stop = seg[s].stop
        /\ r.done = FALSE /\ r.has_job = TRUE
    BY <1>1, <2>1 DEF Posted, Fields
  <2>3. /\ seg'[s] = r /\ owner'[s] = "woken" /\ pc'[c] = "asleepDone" /\ cur' = cur /\ g_seg' = g_seg
        /\ \A t \in Segs \ {s} : seg'[t] = seg[t] /\ owner'[t] = owner[t]
    <3>1. owner[s] \in {"asleep", "woken"}
      BY <2>1 DEF Up, Busy, AtWork
    <3> QED  BY <1>1, <1>15, <2>1, <2>2, <3>1 DEF GoTo, Post, WokenOwner
  <2> HIDE DEF r
  <2>4. ClientStage(c)'
    BY <2>2, <2>3 DEF ClientStage, InRun
  <2>5. ASSUME NEW t \in Segs PROVE ObjectStage(t)'
    <3> HIDE DEF s
    <3>1. ~Stopping(t) /\ ~\E d \in Clients : pc[d] = "stopWake" /\ cur[d] = t
      BY <1>2, <1>6, <2>1 DEF Stopping
    <3>2. CASE t = s
      BY <1>5, <2>1, <2>2, <2>3, <3>1, <3>2 DEF ObjectStage, NotUp, Up
    <3>3. CASE t # s
      BY <1>5, <2>1, <2>3, <3>1, <3>3 DEF ObjectStage, NotUp, Up
    <3> QED  BY <3>2, <3>3
  <2> QED  BY <2>4, <2>5
<1>16. CASE Stop(c)
  <2> DEFINE s == cur[c]
             r == [seg[s] EXCEPT !.stop = TRUE]
  <2>1. s \in Segs /\ seg[s].ready /\ pc[c] = "stop" /\ ~Busy(s)
        /\ owner[s] \in {"asleep", "woken", "release", "gone"}
    BY <1>14, <1>16 DEF Stop
  <2>2. /\ r.ready = seg[s].ready /\ r.init_ok = seg[s].init_ok /\ r.stop = TRUE
        /\ r.has_job = seg[s].has_job
    BY <1>1, <2>1 DEF Fields
  <2>3. /\ seg'[s] = r /\ owner' = owner /\ pc'[c] = "stopWake" /\ cur' = cur /\ g_seg' = g_seg
        /\ \A t \in Segs \ {s} : seg'[t] = seg[t]
    BY <1>1, <1>16, <2>1 DEF GoTo, Stop, ownerVars
  <2> HIDE DEF r
  <2>4. ClientStage(c)'
    BY <2>2, <2>3 DEF ClientStage, InRun
  <2>5. ASSUME NEW t \in Segs PROVE ObjectStage(t)'
    <3>1. t = s => Stopping(t)' /\ \E d \in Clients : pc'[d] = "stopWake" /\ cur'[d] = t
      BY <2>3 DEF Stopping
    <3>2. ~Stopping(t) /\ ~\E d \in Clients : pc[d] = "stopWake" /\ cur[d] = t
      BY <1>2, <1>6, <2>1 DEF Stopping
    <3> HIDE DEF s
    <3>3. CASE t = s
      BY <1>5, <2>1, <2>2, <2>3, <3>1, <3>3 DEF ObjectStage, NotUp, Up
    <3>4. CASE t # s
      BY <1>5, <2>3, <3>2, <3>4 DEF ObjectStage, NotUp, Up
    <3> QED  BY <3>3, <3>4
  <2> QED  BY <2>4, <2>5
<1>17. CASE StopWake(c)
  <2> DEFINE s == cur[c]
  <2>1. /\ s \in Segs /\ seg[s].ready /\ pc[c] = "stopWake" /\ seg[s].stop
        /\ owner[s] \in {"asleep", "woken", "release", "gone"}
    BY <1>5, <1>14, <1>17 DEF StopWake, ClientStage
  <2>2. /\ seg' = seg /\ pc'[c] = "join" /\ cur' = cur /\ g_seg' = g_seg
        /\ owner'[s] = IF owner[s] = "asleep" THEN "woken" ELSE owner[s]
        /\ \A t \in Segs \ {s} : owner'[t] = owner[t]
    BY <1>1, <1>17, <2>1 DEF StopWake, WokenOwner, WokenClients
  <2>3. ClientStage(c)'
    BY <2>1, <2>2 DEF ClientStage, InRun
  <2>4. ASSUME NEW t \in Segs PROVE ObjectStage(t)'
    <3>1. t = s => Stopping(t)'
      BY <2>2 DEF Stopping
    <3>2. t # s => ~Stopping(t) /\ ~\E d \in Clients : pc[d] = "stopWake" /\ cur[d] = t
      BY <1>2, <1>6 DEF Stopping
    <3> HIDE DEF s
    <3>3. CASE t = s
      BY <1>5, <2>1, <2>2, <3>1, <3>3 DEF ObjectStage, NotUp, Up
    <3>4. CASE t # s
      BY <1>5, <2>2, <3>2, <3>4 DEF ObjectStage, NotUp, Up
    <3> QED  BY <3>3, <3>4
  <2> QED  BY <2>3, <2>4
<1>18. CASE Join(c)
  <2>1. /\ cur[c] \in Segs /\ owner[cur[c]] = "gone" /\ pc[c] = "join"
        /\ seg' = seg /\ owner' = owner /\ g_seg' = None /\ pc'[c] \in {"create", "leave"}
    BY <1>1, <1>18 DEF GoTo, Join, Joined, ownerVars, OneObject
  <2>2. ClientStage(c)'
    BY <2>1 DEF ClientStage, InRun
  <2>3. ASSUME NEW t \in Segs PROVE ObjectStage(t)'
    <3>1. t # None
      BY SegAssumption
    <3>2. owner[t] = "asleep" => ~\E d \in Clients : pc[d] = "stopWake" /\ cur[d] = t
      BY <1>2, <2>1
    <3> QED  BY <1>5, <2>1, <3>1, <3>2 DEF ObjectStage, NotUp, Up
  <2> QED  BY <2>2, <2>3
<1> QED  BY <1>9, <1>10, <1>11, <1>12, <1>13, <1>15, <1>16, <1>17, <1>18 DEF CallStep

-----------------------------------------------------------------------------
(* The theorem *)

LEMMA InitIInv == SegAssumption /\ Init => IInv
<1> SUFFICES ASSUME SegAssumption, Init
             PROVE  IInv
  OBVIOUS
<1>1. Fresh \in Fields /\ Fresh.has_job = FALSE
  BY DEF Fresh, Fields, Jobs, SegAssumption
<1>2. TypeOK
  BY <1>1, SegAssumption DEF Init, TypeOK, Fields, Jobs, ClientPC, OwnerPC
<1>3. Exclusive /\ OneObject /\ DelegateInUse
  BY DEF Init, Exclusive, OneObject, DelegateInUse, HasDelegate
<1>4. JobInv
  BY <1>1 DEF Init, JobInv, JobIsLent, Busy, AtWork, Answered, OwnResult, InRun
<1>5. Stages
  <2>1. \A s \in Segs : seg[s] = Fresh /\ owner[s] = "unborn" /\ g_seg # s
    BY SegAssumption DEF Init
  <2>2. ~Fresh.ready /\ ~Fresh.stop /\ ~Fresh.has_job
    BY DEF Fresh
  <2>3. \A c \in Clients : pc[c] = "out"
    BY DEF Init
  <2> QED  BY <2>1, <2>2, <2>3 DEF Stages, ObjectStage, ClientStage, InRun, NotUp, Up
<1> QED  BY <1>2, <1>3, <1>4, <1>5 DEF IInv, JobInv

LEMMA NextIInv == SegAssumption /\ IInv /\ [Next]_vars => IInv'
<1> SUFFICES ASSUME SegAssumption, IInv, [Next]_vars
             PROVE  IInv'
  OBVIOUS
<1> USE DEF IInv, JobInv
<1>1. CASE \E c \in Clients : BeginInit(c) \/ BeginRun(c) \/ CallStep(c) \/ SpuriousClient(c)
  BY <1>1, ClientKeepsTypes, ClientKeepsLock, ClientKeepsInUse, ClientKeepsJob, ClientKeepsStage
<1>2. CASE \E s \in Segs : OwnerStep(s) \/ SpuriousOwner(s)
  BY <1>2, OwnerKeepsTypes, OwnerKeepsLock, OwnerKeepsInUse, OwnerKeepsJob, OwnerKeepsStage
<1>3. CASE UNCHANGED vars
  BY <1>3 DEF vars, clientVars, ownerVars, TypeOK, Exclusive, OneObject, DelegateInUse, HasDelegate,
     InUse, JobIsLent, Busy, AtWork, Lent, InRun, Answered, OwnResult, Stages, ObjectStage, ClientStage,
     NotUp, Up, Stopping
<1> QED  BY <1>1, <1>2, <1>3 DEF Next

\* While the delegate runs, the job in hand is lent by a client inside run.
LEMMA LentBuffers ==
  ASSUME JobInv
  PROVE  BuffersLent
BY DEF JobInv, JobIsLent, Busy, AtWork, Lent, BuffersLent

\* The invariant of any number of JNI threads, segmenters and jobs, whatever
\* wake-ups the shared condition variable gives.
LEMMA Invariance == Spec => []IInv
<1>1. SegAssumption
  BY SegAssumption
<1> QED  BY <1>1, InitIInv, NextIInv, PTL DEF Spec

\* Every variable keeps its type: no step goes on with an object that is not
\* there, and no job is posted beyond those of the callers.
THEOREM TypeCorrect == Spec => []TypeOK
<1>1. IInv => TypeOK
  BY DEF IInv
<1> QED  BY <1>1, Invariance, PTL

\* run returns the outcome of the job it posted, never an earlier or foreign one.
THEOREM OwnResultHolds == Spec => []OwnResult
<1>1. IInv => OwnResult
  BY DEF IInv
<1> QED  BY <1>1, Invariance, PTL

\* The delegate works only on buffers whose lender still waits inside run.
THEOREM BuffersLentHolds == Spec => []BuffersLent
<1>1. IInv => BuffersLent
  BY LentBuffers DEF IInv, JobInv
<1> QED  BY <1>1, Invariance, PTL

\* No second delegate is up, and none outlives the use of its object.
THEOREM OneDelegateHolds == Spec => []OneDelegate
<1>1. SegAssumption
  BY SegAssumption
<1>2. IInv => OneDelegate
  BY <1>1, InUseIsOneDelegate DEF IInv
<1> QED  BY <1>2, Invariance, PTL

\* Whoever sleeps, sleeps for something that is still to come: the owner never on
\* a job or on a stop that has been notified, a client only while its owner has
\* something to do.
THEOREM NoLostWakeupHolds == Spec => []NoLostWakeup
<1>1. IInv => NoLostWakeup
  <2> SUFFICES ASSUME IInv PROVE NoLostWakeup
    OBVIOUS
  <2>1. \A s \in Segs : ObjectStage(s)
    BY DEF IInv, Stages
  <2>2. ASSUME NEW c \in Clients
        PROVE  LET s == cur[c] IN
               /\ pc[c] = "asleepReady" => owner[s] \in {"init", "initialised", "failed"}
               /\ pc[c] = "asleepDone" => \/ owner[s] = "woken" /\ seg[s].has_job
                                          \/ owner[s] \in {"fetch", "invoke", "publish"}
               /\ pc[c] = "join" => \/ owner[s] = "woken" /\ seg[s].stop
                                    \/ owner[s] \in {"release", "gone"}
    <3>1. ClientStage(c)
      BY DEF IInv, Stages
    <3>2. pc[c] = "asleepReady" => cur[c] \in Segs
      BY DEF IInv, TypeOK, OneObject
    <3>3. pc[c] = "asleepReady" => NotUp(cur[c]) /\ owner[cur[c]] # "unborn"
      BY <2>1, <3>1, <3>2 DEF ObjectStage, ClientStage
    <3> QED  BY <3>1, <3>3 DEF ClientStage, InRun, AtWork, NotUp
  <2> QED  BY <2>1, <2>2 DEF NoLostWakeup, ObjectStage
<1> QED  BY <1>1, Invariance, PTL

\* Who sleeps has someone at work for it, and who works has a caller that waits:
\* both hold in every state.
THEOREM WaitsMatchWorkHolds == Spec => []WaitsMatchWork
<1>1. BuffersLent /\ NoLostWakeup => WaitsMatchWork
  BY DEF WaitsMatchWork
<1> QED  BY <1>1, BuffersLentHolds, NoLostWakeupHolds, PTL
=============================================================================
