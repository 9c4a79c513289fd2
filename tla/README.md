# rawburst-hdr in TLA+

rawburst-hdr takes a burst of RAW frames with a phone camera and merges them into
one picture, on the phone, with an optional portrait blur.  This directory holds
TLA+ models of the parts of it in which order, timing and sharing matter, the TLC
runs that check them and the TLAPS proofs about them.  Paths below are relative to
the repository's root.

## 1. The system

    MainActivity (UI thread) --shoot--> CaptureController --request--> camera service
         |  ^                              |    ^  images, results, failures, timer
         |  |                              v    |  (handler thread "cam")
         |  +------- onBurst ---------- BurstDumper
         | post
         v
    "proc" thread --JNI, under g_mu--> Pipeline.run --> ThreadPool (parallel_for)
         |                                |    +-----> Segmenter (its owner thread)
         |                                +----------> GpuBlur (Vulkan queue)
         +--ndkShoot--> NdkCameraImpl (camera callback threads)
    PowerService: sampler thread, for the energy experiments

    burstpipe_emu --> burst directory --> burstpipe_cli --> Pipeline.run, measured
    (a test burst)    (raw16, meta.txt)        +---> BatterySampler, ClockMonitor (threads)

| component | state | operations | what is hard about it |
|---|---|---|---|
| `ThreadPool` (core/src/thread_pool.cc) | `fn_`, `n_`, `generation_`, `finished_`, `registered_`, `stop_` under `m_`; `next_` atomic; two condition variables | construct, `parallel_for`, destroy, worker loop | lost wake-ups, a worker left over from an earlier call, indices taken outside the lock |
| `ThreadBoundSegmenter` (core/src/seg_litert.cc) | `in_`, `out_`, five flags under `m_`, one condition variable | `start`, `run`, destroy, owner thread | one condition variable for three predicates; buffers lent to another thread; delegate bound to a thread |
| `Pipeline` (core/src/pipeline.cc) | persistent and scratch arenas, output, segmentation thread | `run` | scratch memory reused between stages; segmentation runs beside merging; CPU fallback of the GPU blur |
| `merge_burst`, `merge_burst_wiener` (core/src/merge.cc, merge_wiener.cc) | `num`, `den` accumulators | one parallel pass per parity of the tile row | overlapping tiles written by several threads without a lock |
| `GpuBlur` (core/src/gpu_blur.cc), `LiteRtSegmenter` (core/src/seg_litert.cc) | Vulkan and LiteRT handles; mapped buffers, command buffer, fence | init, `run`, destroy | a fence wait that times out while the GPU still works; an init that is refused half way; handles built on each other |
| thermal policy (core/include/burstpipe/perf_hint.h, android/jni.cc) | EMA of the processing time, number of frames | `report`, `frames_for`, `setPolicy` | a feedback loop that may oscillate; a headroom reading that is not always there |
| `CaptureController`, `BurstDumper` (Kotlin) | current burst; slots, results, failures | `shoot`, callbacks, timer | late, lost, reordered images and results; timer against completion |
| `NdkCameraImpl` (android/ndk_camera.cc) | slots, count, results, `failed_`, `active_` | `shoot`, callbacks | the same with a blocking call, a timeout, and a write without the lock |
| JNI layer (android/jni.cc) | the globals under `g_mu` | `init`, `process`, `segOnly`, `setPolicy`, `ndk*`, `processDir` | replacing what other calls use |
| `MainActivity` | `nativeReady`, `pendingAction`, `stressLeft`, `holdBurst`, `captureOnly`, the messages of three threads | buttons, intents, `onBurst`, stages, stress runs | chains of asynchronous steps that stop when one is refused, and may run twice |
| `BatterySampler`, `ClockMonitor` (core/src/power.cc) | `run_`, thread, samples or sums | start, stop, sampler thread | sums read without a lock; a return that leaves a thread running |
| `PowerService` (Kotlin) | `running`, buffer, file | start, stop, sampler thread | stop that does not wait long enough, two samplers |
| command line (core/cli/main.cc) | burst, options, measured window | load, set up, warm up, measure, report | a dozen ways to return, each with other things to undo |
| burst files (core/src/burst_io.cc), emulator (emu/) | a directory of frames and `meta.txt` | write, load | a writer that is cut off or finds the disk full; a directory written again |
| image kernels (align, merge, finish, bokeh, seg, superres; disc_blur.comp) | none | called on images | edges, radii larger than the image, three versions of one blur, ties in searches |
| tools | - | - | offline analysis |

How they interact: `MainActivity` shoots and is called back (`onBurst`); it sends
work to `proc` as messages.  All of the JNI layer runs under one mutex, `g_mu`.
`Pipeline` and its stages share one `ThreadPool` whose calls do not nest.  The
segmenter is called from a thread that `Pipeline::run` starts and joins, and answers
from its own thread.  The camera service and the GPU are outside: they answer late,
in another order, or never.

What makes each component correct:

- `ThreadPool`: a call runs each index once, under its own function, and returns;
  the constructor returns when every worker is known; nobody sleeps for ever.
- `ThreadBoundSegmenter`: a call gets its own answer, the delegate sees only buffers
  whose lender is waiting, one delegate exists at a time, every call returns.
- Kotlin capture: one burst at a time, ended once, in capture order, by its own
  callbacks; the loss of a frame does not block the next burst.
- NDK capture: what `shoot` hands out is ordered, is not written again and not handed
  out again; `shoot` returns.
- Thermal policy: a hot device merges few frames; the latency loop settles.
- Merge: overlapping tiles are added without a lock and none is lost.
- Pipeline: scratch memory suffices, and a run's output is computed from that run's
  burst and mask, whatever fails.
- GPU blur and LiteRT: whatever is refused when they are set up, all is given back, in an
  order that leaves nothing standing on what is gone.
- Command line: of a complete directory at rest it uses the frames of one burst, all of
  them whole; it reports the window it measured, and ends with its threads joined.
- Image kernels: each computes what its definition says also at the edges, reads only
  what is there, and its variants agree.
- App: a chain of shots does not stop because two shots meet, and an experiment leaves
  one record, its own.

## 2. The modules

| module | models | checked by | proved in |
|---|---|---|---|
| `ParallelFor` | what `parallel_for` promises, with no thread in sight | (as the target of the refinement) | |
| `ThreadPool` | core/src/thread_pool.cc | `MCThreadPool` | `ThreadPoolProofs` |
| `ThreadBoundSegmenter` | class `ThreadBoundSegmenter` in core/src/seg_litert.cc under the JNI entry points that use it | `MCThreadBoundSegmenter` | `ThreadBoundSegmenterProofs` |
| `BurstCapture` | `CaptureController.shoot`, `BurstDumper` | `MCBurstCapture` | `BurstCaptureProofs` |
| `NdkCamera` | `NdkCameraImpl` in android/ndk_camera.cc | `MCNdkCamera` | `NdkCameraProofs` |
| `ThermalControl` | `ThermalPolicy`, `LatencyGovernor` and their use in android/jni.cc | `MCThermalControl` | `SessionProofs` |
| `MergeTiles` | the accumulation in core/src/merge.cc and merge_wiener.cc | `MCMergeTiles` | `ImageProofs` |
| `Pipeline` | `Pipeline::run`, the arena, `VkBlur::run` | `MCPipeline` | `PipelineProofs` |
| `AppSession` | `MainActivity` over `CaptureController` | `MCAppSession` | `SessionProofs` |
| `NativeObject` | an object over C handles: init step by step, use, destructor | (in `CommandLine`) | `CommandLineProofs` |
| `NativeScripts` | the init and destructor orders of `VkBlur` and `LiteRtSegmenter` | (in `CommandLine`) | |
| `CommandLine` | core/cli/main.cc, core/src/power.cc, core/src/burst_io.cc, `write_burst` in emu/ | `MCCommandLine` | `CommandLineProofs` |
| `ImageKernels` | index arithmetic of bokeh.cc, finish.cc, seg.cc and disc_blur.comp | (in `Kernels`) | `ImageProofs` |
| `BurstKernels` | searches of align.cc, merge.cc, merge_wiener.cc, superres.cc | (in `Kernels`) | `ImageProofs` |
| `Kernels` | the kernels called with the arguments of an instance, and their reference definitions | `MCKernels` | `ImageProofs` |

How they fit together.  `ThreadPool` is shown to implement `ParallelFor`;
`MergeTiles` INSTANCEs `ParallelFor` and so holds on that pool; `Pipeline` takes
`parallel_for` as one step, which is what `ParallelFor` permits of a call seen from
its caller, and takes an inference as a step that ends with an answer or a failure,
which is `CallsReturn` and `OwnResult` of `ThreadBoundSegmenter`.  `AppSession` takes a
burst as ended once or never, which is `HandedOverOnce` of `BurstCapture` and its
counterexample to `EveryBurstEnds`.  `CommandLine` holds two `NativeObject`s, the blur and
the segmenter, with the scripts of `NativeScripts`, and takes `Pipeline::run` as one step
that may leave a dispatch behind, which is what `Pipeline` shows of a GPU that is late.
`Kernels` calls the operators of `ImageKernels` and `BurstKernels`.

### State and actions against the code

**ThreadPool.** Each critical section of `m_` is one action, because nothing in it
blocks: `Register` (a worker records its thread id), `Publish` (fn_, n_, next_ = 0,
finished_ = 0, ++generation_), `WorkerTake` (reads them), `CheckIn` (++finished_),
`CheckDone` (the caller's wait).  Between them `Claim` is the lock-free `fetch_add` and
the test of its result, `EndTask` the end of `fn(i)`; the notification of the workers
is its own step (`WakeWorkers`), being outside the lock.  A thread on a condition
variable is `asleep...` and a notification moves only those that sleep, so that a
wake-up can be lost; `SpuriousWakeup` wakes one for nothing.  The function of a call is
the number of the call: `lfn[w] # calls` is a dangling `std::function`.  `BeginInline` is
the shortcut for no workers or one task.

**ThreadBoundSegmenter.** One record per object (`ready_`, `init_ok_`, `has_job_`,
`done_`, `stop_` and the lent buffers, a job number), a program counter per JNI thread
and per owner thread.  A JNI call takes `g_mu` (`BeginInit`, `BeginRun`) and gives it up
in `Leave`; init resets the old object (`Stop`, `StopWake`, `Join`) before it creates the
new one.  `notify_all` moves every sleeper of the object's one condition variable to a
re-check of its own predicate.

**BurstCapture.** A frame is a pair (burst, index).  The camera's part is two
functions, what became of each frame's image and result: pending, delivered or lost.
`Shoot` is the whole of `shoot` with the timer it posts; `OnImage`, `OnResult`,
`OnFailed` and `OnTimer` are whole callbacks, `maybeFinish` and `finish` included.
Results and failures go to their own dumper, images to `current`, as in the code.

**NdkCamera.** The same with slots that are written again: `Reset`, `ClearFailed`,
`Capture`, `ReturnComplete` / `ReturnTimeout` are the steps of `shoot` between its
locks; `failed_ = 0` is outside the lock, and `FailedOverwritesReset` is what an
increment that overlaps it may leave behind.

**ThermalControl.** `Process` is the policy part of `process` (query, choice of n, run,
report to the governor), `SetPolicy` the whole of `setPolicy`.  Milliseconds are whole
numbers; the exponential average is rounded down, and `InBand` allows for it
(`Rounding`).  A headroom query fails on a device without the API and within a second
of another.

**MergeTiles.** A task is a row of tiles; for each image row it does a `Read` and an
`Add`, the two halves of `+=`.  The value of an accumulator row is the set of the rows of
tiles it has received, so that a lost addition is a missing member.

**Pipeline.** A buffer is modelled by the number of the run it was computed from, or
`Torn`.  One action per stage; `Prep`, `Infer` and `Turn` are the segmentation thread;
`Upload` ... `Download` are `VkBlur::run`, `DispatchBegins` and `DispatchEnds` the GPU.  The
arena is its byte offset, and each stage allocates what the code's stage allocates,
with the code's sizes and alignment.

**AppSession.** What is posted to the UI thread is counted (`posted`, `retries`,
`idles`: its order does not matter to the handlers), what is posted to `proc` is a
sequence.  Each handler is one action; that of `cam` at the end of a burst is two,
because between `current = null` and `onBurst` the UI thread may shoot.  The script of
scripts/power_app.sh sends an intent when it has the record of the last one, or has
given up waiting (`GiveUp`).

**NativeObject**, **NativeScripts.** A script lists the calls of init: what each takes, on
which parts it is built, and whether it may be refused or done without.  `Take`, `Skip`
and `Fail` go through it; `Fail` is any `return false`, after which the `unique_ptr` of
`create` runs the destructor.  `DropNext` is the destructor, which waits for the device
first (`DeviceIdle`, vkDeviceWaitIdle) and drops only what is held, as the code's tests
for null handles do.  `Use` leaves the device at work if the fence was given up on.

**CommandLine.** `main` is a program counter with one action per thing it can be told
apart by: each file it reads, each object it makes, each iteration, each stop and join.
`Return` is every `return`: it goes to the destructors of what is there, in the reverse
order of the declarations (`DropSegmenter`, `DropPipeline`, then the samplers).  The
directory is, for each frame's file, the run of the emulator that wrote it, the pixels
this run gives a frame (`--size`) and those that are there, and for `meta.txt` the run, the
size and the frame lines; `EmuOpenFrame` empties a file, `EmuRow` makes it longer,
`EmuCloseFrame` may leave it short, `EmuCut` is a failure to open the next file or the end of
the process.  Each run of the emulator has a length and a size of its own.  `EnoughRead` is
`got == want` in `load_burst`: a frame is taken if it has as many pixels as `meta.txt` asks
for, and it may have more.  The emulator goes on while the command line reads.  `found`
remembers what the directory was like then: complete and at rest, at rest with a run that
was cut off in it, or in use.  `MakePipeline` puts the files out of the state, nobody reads
them afterwards.

**ImageKernels**, **BurstKernels**, **Kernels.** A sum over pixels is linear, so a kernel that
adds is given by how often it counts each pixel; one that interpolates by its two
pixels and the weight of the second, exactly, as a fraction.  A search has the
differences as an argument.  `Kernels` calls each with all arguments of an instance and
keeps the result (`got`) and the places that were read (`reads`: an index with the number
of elements there are).  Its rules (`BoxRule`, `DiscRule`, `ResizeRule`, `TurnRule`,
`InverseRule`, `AlignRule`, `MergeRule` and others) are written from what the kernel is for, with quantifiers and
CHOOSE, not from its loops.  `DiscBlur` has the three versions side by side; on the GPU
one also sees the reads of the workgroup's shared tile.

## 3. What the runs show

| run | question | bounds |
|---|---|---|
| `thread_pool` | lost wake-ups, indices run twice or under an old function, implementation of `ParallelFor` | 2 workers, calls of 1 to 3 tasks, 2 calls |
| `thread_bound_segmenter` | answers mixed up, buffers used after their lender has gone, two delegates, calls that never return | 2 JNI threads, 2 objects one after the other, 3 jobs |
| `burst_capture` | bursts ended twice, complete too early or too late, out of order, or never | 2 bursts of 2 frames |
| `burst_ends` | finding: does every burst end? | same |
| `burst_exposure` | finding: are a burst's frames of one exposure? | same |
| `ndk_camera` | frames overwritten after they were handed out, or out of order; a shoot that hangs | 2 shoots of 2 frames |
| `thermal_control` | a governor that swings or does not settle; a heat that is read and not obeyed | target 450, n from 4 to 8, four loads, 3 changes |
| `merge_tiles` | additions lost between overlapping tiles; rows that belong to no tile | 9 rows, tiles of 4 |
| `pipeline` | an arena too small, a picture or a mask of another burst, a run that hangs | four sizes, three modes, with and without GPU; 1, 8 and 10 frames; 4 levels; 2 runs |
| `app_session` | chains of shots that stop, stress runs that miscount, records that are not the experiment's | 2 intents, 1 press, stress runs of 1 and 2 shots, 2 laps, the camera down once |
| `command_line` | frames that are cut off or older than meta.txt, bursts made of two, windows that miscount, threads and handles left behind, runs that do not end | seven command lines: each mode, each segmenter, measured and not; bursts of 1 and 2 frames of 1 and 2 pixels written up to twice; 2 iterations |
| `kernels` | sums that drift, blurs that disagree, positions off centre, masks turned wrongly, wrong displacements, reads outside | lengths 1 to 12, radii up to 9, discs up to radius 4 on images up to 6 x 4, 14 orientations, one merge frame of 8 x 8 |

Why the bounds are enough:

- *thread_pool*: the races are between one call and the next, so two calls with a
  late worker show them; with three tasks and three threads each thread may run none,
  one or several.  The theorems of section 5 hold for all values.
- *thread_bound_segmenter*: two threads contend for `g_mu`, the second object shows
  re-initialisation, three jobs give a job before, in and after each other.
- *burst_capture*, *ndk_camera*: two bursts are enough for a late callback to meet the
  next burst, two frames for a wrong order and a partial loss.
- *thermal_control*: the thresholds are the code's; the loads are one the device bears
  with any n, one that it bears with few frames, one that it never bears, and one with
  fewer captured frames than the policy would merge.  Three changes lead from any load
  to any other and back.
- *merge_tiles*: five rows of tiles, three even and two odd, so that each parity has
  neighbours, and the last ones are cut off by the edge of the image, one of them to a
  single row.  The theorems hold for every height and tile.
- *pipeline*: the sizes are those of the two phones, of the tests and of the run
  without a camera; 10 frames are more than the pipeline takes.  Two runs are enough
  for something of the first to reach the second.
- *app_session*: two experiments let the remains of one meet the other; one press
  gives the second chain.  `Default`, the count of an intent that gives none, is 30 in
  the code; here it is 3, a number no run asks for, so that a stress run which gets it
  is seen.

- *command_line*: a burst written twice gives every mixture of an old and a new one, of
  the same or another length and size; of a frame of 2 pixels that is cut off as many
  may be there as of a whole one of 1, which is the case that passes `got == want`; 1
  and 2 frames against `--frames` 1 and 3 and the policy's 3 and 1 are fewer, as many
  and more. A window of two iterations is one that is repeated; the third is enabled
  only by time that is over (`MaxIters`). The scripts of the native objects are whole.
- *kernels*: a workgroup of 2 with discs up to 3 stands for 16 and 12 (radius 4 is the
  one left to the CPU), a model input of 4 for 256, a top of 2 for 16 in the tone
  pyramid, tiles of 2 and 4 for 16 and 32; in each the arithmetic meets sizes that are
  no multiple, windows that leave the image on both sides, and the last tile cut off.
  The theorems on the blur and the orientation hold for every size.

`MCPipeline.cfg`, `MCAppSession.cfg` and `MCCommandLine.cfg` switch the deadlock check off:
when the last run has returned, nobody presses, or the program has ended, nothing is
left to do.  In the other modules the
system can always do something, or says explicitly that it is done (`Destroyed`, `Over`,
`Done`).

### Findings

Two runs show the code doing something other than its comments say.

- `burst_ends`: "after two seconds the burst is finished with what there is"
  (CaptureController.kt:174).  The timer does nothing to a burst without a frame and is
  not set again.  Such a burst keeps its place, and every later shot is rejected, if
  another frame or result then stays out.  `BurstWithFrameEnds` is what does hold.
- `burst_exposure`: "all frames of a burst have the same exposure" (CaptureController.kt:21).
  An image that comes after its burst was ended goes to the next one.  `NdkCamera` does the
  same for a shoot that timed out (ndk_camera.cc:222 against ndk_camera.h:4).

Two more things the models show and no run states.  A setPolicy within a second of a burst
gets no headroom, takes the device for one without the API and chooses the latency
governor (jni.cc:188 against the comment above it); `HeatIsObeyed` holds all the same,
since it is about what has been read.  And a directory overwritten by an emulator that
was cut off is read beside the `meta.txt` of the burst that was there before, since nothing in
a frame's file says which burst or size it is of: `load_burst` looks only for `width * height`
pixels of that `meta.txt` (burst_io.cc:61-65).  Frames of the later run are then taken for
frames of the earlier one, and if the later run was of a greater `--size`, also a frame in
whose middle it was cut off, and the first part of a frame that is whole.  No comment or
test promises otherwise, so this is no finding.  `LoadedIsWhole` says exactly how far it goes:
of a directory at rest no loaded frame is older than `meta.txt`, one of the run of `meta.txt`
is whole, even if the disk was full, and one that is cut off is of a greater size than
`meta.txt` has, so with one size for all runs there is none; and if nobody was cut off, all
frames are of the run of `meta.txt` and as many as were asked for.  Of a directory that is
written while it is read nothing is promised.

## 4. Fairness

Liveness is claimed only under what the platform gives:

- `ThreadPool`: weak fairness of the caller and of each worker.  A thread that can run
  is run, tasks end, and a mutex held for a few instructions starves nobody.
  Nothing is assumed of spurious wake-ups, of new calls or of destruction.
- `ThreadBoundSegmenter`: weak fairness of each JNI thread inside a call and of each owner
  thread; the delegate's calls end.
- `BurstCapture`: each frame's image and result comes or is lost, and the handler runs
  a posted timer.  Nobody has to press.
- `NdkCamera`: only the thread in `shoot`, whose wait has a time limit: the camera owes
  nothing.
- `ThermalControl`: bursts keep coming, as in a stress run.
- `Pipeline`: the caller and the segmentation thread; nothing of the GPU.
- `AppSession`: the posted messages, `cam` and `proc` are served, and a burst ends or is
  lost.  The camera need not open, the script need not give up.

- `CommandLine`: `main` and the two sampling threads are run, time passes, and the GPU ends
  a dispatch or loses its device, for which vkDeviceWaitIdle waits without a limit.
  Nobody has to run the emulator.

`Kernels` has none: a kernel is a function.  `MergeTiles` has no liveness property: that a call returns is `ThreadPool`'s.

## 5. What is proved

For all values of the constants allowed by the modules' named assumptions, checked to
the last leaf:

- **`ThreadPoolProofs`** (`PoolAssumption`: finitely many workers, the caller none of
  them): `TypeOK`, `NoStaleFunction`, `EachIndexOnce`, `BuiltMeansRegistered`.  None of
  them is inductive.  `NoStaleFunction` holds because the caller waits until
  `finished = NWorkers`, so one has to know that `finished` counts exactly the workers
  that have checked in for this generation (`GenerationInv`, which needs `BuildInv` for
  the constructor); `EachIndexOnce` needs that the indices that have run are those below
  `next` which no thread still holds (`HitsInv`), and that the caller leaves its loop only
  when `next` has passed n (`LoopInv`).  Cardinalities are treated by one lemma,
  `WorkerCounts`.
  `NoLostWakeup` (with `BuiltMeansRegistered` it is the run's `WaitsMatchWork`) is the safety
  core of `CallerNeverStuck`: whoever sleeps has a notification or a worker still to come.  Its invariant (`WakeInv`) adds to the pool's that the two
  predicates of the caller are false while it sleeps, that `stop_` is set from the moment the
  destructor has it and never before, and that nobody sleeps once it joins.
  Also there: the safety part of `ImplementsParallelFor`.  Each step of a
  thread is a step of `ParallelFor` or changes nothing it sees; the mapping is in
  `ThreadPool`.  It needs `TaskInv` on top: two threads never execute the same index.
- **`ThreadBoundSegmenterProofs`** (`SegAssumption`: finitely many JNI threads and objects):
  `TypeOK`, `OwnResult`, `BuffersLent`, `OneDelegate`.  None of them is inductive: `run`
  itself has no protection against a second caller.  The invariant says what `g_mu`
  gives: only its holder is inside a call or has an object (`Exclusive`), that object is
  `g_seg` or there is no `g_seg` (`OneObject`), so two delegates that are each of an object
  in use are one (`DelegateInUse`); and a job that is posted, fetched or at the delegate
  is the last job of a client that waits and is not done (`JobIsLent`), posted or in hand
  but not both, so a wait that sees `done_` sees the outcome of its own job (`Answered`).
  `NoLostWakeup`, the safety core of `CallsReturn` and with `BuffersLent` the run's
  `WaitsMatchWork`, needs `Stages` on top: what the owner's
  control point says of its object's flags (`ObjectStage`: `ready_` is set when it leaves its
  start, nobody stops an object before, a stop is in the hand of a client until it is
  joined) and what a client's says of the object it holds (`ClientStage`: while it is inside
  `run` the job is posted, in hand or done).
- **`BurstCaptureProofs`** (`CaptureAssumption`: at least one frame and one burst): `TypeOK`,
  `HandedOverOnce`, `SlotsInCaptureOrder`, `CountsSuffice`, for any number of bursts
  and frames.  The invariant says whose callbacks may still come (`Asked`: only those of
  frames and timers of bursts that were shot), that the only burst that has not ended is
  `current`, the last one (`OnlyCurrent`), that a dumper's `finished` and what was handed over
  agree (`EndedOnce`), that a frame lies in one slot of one burst at most (`InOneSlot`, without
  which a sorted list could not be in strict order), and that the counts of results and
  failures are the numbers of the burst's own (`CountsOwn`).  Counting is then enough
  (`CountsSuffice`).  Not too early: N results and failures of N frames leave no frame without
  one, and nothing that comes later takes it back (`StaysComplete`).  Not too late: a burst
  that has not ended is not complete (`NotYetComplete`) and has every frame of its own that
  has come, or is full (`HasWhatCame`; an image that is closed unread has a burst that has
  ended or is full), so once all have come or failed it would be complete.
  The sorted list is defined by CHOOSE; that there is one is proved by ranking each frame by
  the number of those before it.
- **`NdkCameraProofs`** (`NdkAssumption` likewise): `TypeOK`, `OutputIntact`.  `TypeOK` includes that
  `failed_` never exceeds what was asked for, although it is reset outside the lock: it
  forgets, but never counts a failure twice (`CountsFailures`).  `OutputIntact` needs that the
  slots in use hold different frames that have come (`SlotsHold`), that as long as images are
  taken in none of them has been handed out before (`NotTakenYet`), and that what has been
  handed out is what the slots hold, in order, while nothing is taken in (`OutIsSlots`).
- **`PipelineProofs`** (`PipelineAssumption`: positive sizes and numbers of frames, at most
  eight levels, which is what scratch_bytes counts; the code has four):
  `TypeOK`, `FreshOutput`, for every size, mode, number of frames and of runs, with a GPU that
  works, fails or is late.  The invariant is what each stage finds of the stages before it:
  `Staged` (merge, finish, mask and matte), `Segmented` (what the segmentation thread has
  computed, and from which burst, wherever it is), `OneDispatch`, and `Blurred` (the run's one
  dispatch is queued, in execution or done, and what it reads and writes is of this run,
  unless an earlier dispatch overlaps it).
  Also `ArenaFits`, for frames of every size: what the arena has in use before each stage is
  the invariant (`ArenaInv`), and what each stage adds is bounded from its images
  (`Below`: rounding to a cache line adds 63 bytes to an image at most).  For the gray frames
  that needs the sum of all levels: each is at most a quarter of the one below it (`Levels`),
  so three times the levels up to one are never more than the gray frame less that level,
  from which `GrayFits` gets the 4/3 of the comment in scratch_bytes.  The recursive functions
  behind it (`Halved`, `Used`) are shown to exist and to be what their equations say by an
  induction stated on sets of numbers (`Induction`, `Iterated`).
- **`CommandLineProofs`** (`CommandLineAssumption`: options have their types, one length of
  a burst is the longest, a frame has at least a pixel; `ScriptsAssumption`: the scripts of `NativeScripts` are sound, which TLC
  evaluates): `TypeOK`, `LoadedIsWhole`, `WindowIsItsIterations`, `CleanExit`.
  First `ObjectIsClean` of `NativeObject`, for any scripts that are `Sound`: each part is taken
  once, after what it is built on, which is never left out, and dropped before it, and all
  are dropped in the end.  Its invariant adds to the three properties that on the way up
  everything before the current step that could not be left out is held, which is why what
  a step builds on is there, and that on the way down nothing that has been dropped is held,
  which is why nothing is left.  Blur and segmenter of the command line are two such objects
  (`Handles`).  `LoadedIsWhole` needs `Written`: wherever runs were cut off, a frame
  that `meta.txt` lists is not older than it, and of its size if it is of its run (`NotOlder`);
  what the emulator has written so far is of its own run and size; and if no run was cut off,
  all frames that `meta.txt` lists are of its run.  It also needs `Read`, that what main has read
  of a directory at rest fits the `meta.txt` it has read.  A frame that is taken has as many
  pixels as that asks for, so if it is of its run it is whole (`TakenFits`).
  `WindowIsItsIterations` is a sum: runs, iterations in windows and windows are counted by
  main's place in its loops (`Counted`).  `CleanExit` is a matter of the place too: what has been
  joined and dropped there, on every way out (`Ended`).
- **`SessionProofs`**, on `AppSession` (`SessionAssumption`: bounds are numbers, the counts
  of shots, the default of 30 too, positive): `TypeOK` and `RecordsAddUp`, for any number of
  intents, presses and bursts.  Its first part is `RecordsAreWhole`.  `OneExperiment` is what makes
  a record its experiment's own: while the script has not given up, what is left of an
  experiment is in one place only - pendingAction, an idle timer, `captureOnly`, `holdBurst`, a
  message of "proc" or shots left - and it is the one the script waits for; a stress
  run's shots and those left make the number asked for, and no press changes that.  So
  whoever writes a record finds the label and the count of its own experiment
  (`RecordsSoFar`).  Its second part is `RecordIsOnItsWay`, the safety core of
  `ExperimentEnds`: while the script waits and nothing has failed, one of the places an
  experiment goes on from is taken (`GoesOn`).  A shot that is rejected leaves it taken,
  since what rejects it is a burst in progress, which comes to the same stage when it ends
  (`BegunGoesOn`, `GoesOnStill`); a burst or a message that is consumed takes the next
  (`HandedGoesOn`, `ProcGoesOn`), and a stress run has a first shot because its count is
  positive.
  On `ThermalControl` (`ThermalAssumption`: n_min <= n_max, both positive): `ThermalTypeOK`, so the
  governor never leaves n_min .. n_max whatever the times; `HeatIsObeyed`, from
  `HeadroomIsCurrent`: a reading stored since the heat last changed is that heat, also when
  later queries fail; and `NoOscillation`, for every load, if the band is wider than a step
  (`WideBand`: n_min at least 3, a target of 40 ms or more; the code has 4 and 450).  With
  n_min 1 it is false: two frames may be 1.4 and one 0.7 of the target.  A frame
  less takes at most its share off a burst's time, as it does off the EMA, so an EMA that
  is not above the time of the burst stays so (`Falling`), and after a step down from above
  the band neither is below it; the same upwards (`Rising`).  An EMA that
  crosses to the other side of the band, as it does to turn back, has the time
  of the burst beyond it, and an EMA of one load only is never above it (`Swings`).
- **`ImageProofs`**, on `MergeTiles` (`MergeAssumption`: a positive height, an even tile): `TypeOK`,
  `NoRowShared`, `EveryTileCounted`.  The geometry first: `SamePassDisjoint` (rows of tiles
  of one parity do not overlap), `OverRows` (the rows of tiles over a row, at least one, are
  among those the passes go through), `PassesCover` (each of them is one pass's task).  Then
  the invariant: a task in the middle of a `+=` still holds what the row holds (`RegInv`,
  which is where disjointness is needed), and a row has what the passes before gave it
  and what the tasks of this pass have (`SumInv`).
  On `ImageKernels`: `GpuBlurIsDirect` and `GpuBlurIsItsRule`, for every image, workgroup and
  radius the tile has room for: the shader's reads stay in its shared tile, and what they
  count is what the CPU's direct sum counts, which is the disc, each point at the pixel
  nearest to it.  The elements of the tile and the points of the disc are put in
  one-to-one correspondence, so the counts are equal cardinalities; that a row of the
  disc ends at `Span` needs the integer square root to exist, by a least element.
  `ReflectionKeepsColour`: a reflection at the edge keeps the parity, and so the colour,
  of a pixel.  `MaskComesBack`: turning back undoes turning, for every orientation.
  On `Kernels` (`KernelsAssumption`: sizes are positive, a frame has room for one tile of the merge,
  a curve is a table of numbers that never falls, a search's differences are numbers,
  super-resolution looks at least one sample to each side; superres.h:16 has 2): `ReadsStayInside`
  and `ResultIsItsRule`, for every argument.  A call starts from nothing, so both are inductive
  by themselves, and the work is in the kernels.  What goes on from one result to the next
  (pyramid, inverse, running sum, searches) is a function defined by itself; one that is
  defined that way exists and stays among its values (`Followed`), and is the same as another
  that starts alike and goes on alike (`Alike`).  So each needs one step only.
  `ReadsStayInside` (`BoxInside` to `SuperresInside`): a halved level is larger than `Top` as long as
  both sides are (`LevelsAreLarge`), an inverse entry is in the table (`FirstNotBelowExists`), a list
  of seen displacements is no longer than the four candidates (`MergeArgumentsHold`,
  `SeenInOrder`), and what a search takes keeps its tile inside (`BestIsInside`), so a tile that
  counts is never read past the edge.
  `ResultIsItsRule` (`BoxIsItsRule` to `SuperresIsItsRule`): a column's running sum gains the pixel
  that enters and loses the one that leaves, so it is the window's (`ColumnIsItsRule`); the sums by
  rows of the disc count what the sum point by point does, as the points of a row that come
  to one pixel are an interval (`RowOfTheDisc`, `PrefixIsDirect`); an interpolation is centred,
  and clamped where that would leave the image (`BetweenIsCentred`); an inverse that goes on from
  the entry before misses none, as the values asked for rise (`AdvanceGoesOn`).  A search
  has after each candidate the best of those it has tried, in the order of difference,
  length and place in the list (`BestGoesOn`, `AlignIsBest`, `CandidateIsBest`), and there is one
  such only (`OneIsBest`).  For align_frame that order is the rule's because the list goes
  row by row (`SearchOrder`); for the merges because the candidates come in the order of the
  motion field and equal ones differ in nothing but their place (`CandidatesInOrder`, `SeenIsAll`,
  `BestIsFirstInField`).

Each inductive invariant was model-checked on the constants of its module's run before
it was proved.  The proofs do not hang on the speed of a machine: every leaf is also proved
with the provers' time limits cut to a tenth (`tlapm --stretch 0.1`).

Only model-checked is liveness, in every module, as is the fairness part of the refinement (`Settles`,
which the loads also decide, among it): the prover has neither fairness with ENABLED nor
leads-to.  Of `ThreadPool` and `ThreadBoundSegmenter` the part of it that is safety, that nobody
sleeps on a wake-up that will not come, is proved; of `AppSession` that what an experiment
goes on from is always there.  Every safety property that a run
checks and expects to hold is also proved.

## 6. What is not modelled

- Pixel values: weights of the merge and of super-resolution, the Fourier transform of the
  Wiener merge, demosaicing and tone as colours, the division in the guided filter, the
  fit of a fraction of a pixel, rounding of floating point.  The kernels' parallelism is
  `MergeTiles` and `ParallelFor`, their memory is in `Pipeline`.  That the blurs copy a pixel
  of the subject (alpha > 0.98) or one without background is the same in all three and is
  left out.
- Of `ToneMap` the tone pyramid's values: `pyr_down` is there with its reads only, so
  `UpsampleRule`, which is about the kernels that interpolate upwards, does not say
  whether its level is centred where `pyr_up` takes it to be (pixel 2o against 2o + 1/2).
  Reads of prefix tables and of the column sums of the box blur are not in `reads`.
- `Pipeline`'s persistent arena, which is filled once, and the timings.
- Setting up and tearing down the cameras; the ADPF session; thread pinning.  The handle
  of QNN's library, which `add_qnn_htp` opens and never closes, is not a part that is
  dropped.
- Of the command line the limit of 16 frames (`kMaxFrames`), the extra dumps, the CSV file,
  and the energy, which is printed as a number that is none if there are fewer than two
  samples.  Of the burst files the syntax of `meta.txt`.  A size is a number of pixels: two
  shapes of the same area are one size.  `main` reads `meta.txt` once for the pipeline and
  the arena and `load_burst` reads it again (main.cc:161, burst_io.cc:53); that the second may
  have another size, if it is written in between, is not followed further.  A file is read
  in one step, so that a frame of two runs, read while it was written over, is not seen.
- What the emulator renders.
- The NDK mode of `MainActivity`, `processDir`, the slots of `CaptureController` and their
  reuse by the capture stage.
- `PowerService` and `ShellSampler`; the tools.

The list of hazards in PROJECT.json says for each place in the code which property
covers it, or why none does.

## 7. Plan

The order followed so far puts first what everything else stands on: `ParallelFor`,
`ThreadPool` and their proofs; `ThreadBoundSegmenter`; the two capture paths;
`ThermalControl`; `MergeTiles`; `Pipeline`; `AppSession`; `CommandLine` with `NativeObject`;
`Kernels`.  Next:

1. *Slots of the capture stage* in `AppSession`: the burst whose frames a slot holds
   against the messages that still read it.
2. *`PowerService`* with its sampler thread, a stop that waits at most a second, a start
   soon after it, and the flush after five seconds.
3. *The session's globals* in android/jni.cc: `init` against a performance session that
   keeps the old pool's thread ids; `setSegEnabled`, which `run_burst` does not ask.
4. *A late GPU*: the run after one that gave up (`FreshOutput` leaves it out) against
   gpu_blur.h:11.
5. *Proofs* of what items 1 to 4 add.
