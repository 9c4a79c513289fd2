---------------------------- MODULE CommandLine ----------------------------
(***************************************************************************)
(* A burst directory from its writer to its reader, and a measured run     *)
(* from its options to its exit: burstpipe_emu (emu/main.cc, write_burst   *)
(* in emu/sensor_emu.cc), which may be cut off or find the disk full, and  *)
(* burstpipe_cli (core/cli/main.cc) with its two sampling threads          *)
(* (core/src/power.cc), its burst files (core/src/burst_io.cc) and the     *)
(* native objects it sets up (NativeObject, NativeScripts).                *)
(*                                                                         *)
(* The two are processes of their own: the directory may be written again  *)
(* while it is read, and with frames of another size.  A frame file is     *)
(* modelled by which run of the emulator it is of, the pixels that run     *)
(* gives a frame and those that are there, meta.txt by its size and the    *)
(* number of its frame lines.  Pipeline::run is one step here: it is the   *)
(* subject of Pipeline.                                                    *)
(***************************************************************************)
EXTENDS NativeScripts, Naturals

CONSTANTS
  Options,      \* the command lines
  Lengths,      \* frames of a burst
  Sizes,        \* pixels of a frame (--size)
  NMid, NLow,   \* ThermalPolicy's n_mid and n_low
  MaxWrites,    \* bound: runs of the emulator
  MaxIters      \* bound: iterations of a measured window

MaxLength == CHOOSE m \in Lengths : \A l \in Lengths : l <= m

Modes == {"idle", "seg", "burst"}
Segmenters == {"none", "emu", "cpu", "gpu", "npu"}

ASSUME CommandLineAssumption ==
  /\ Options \subseteq
       [valid : BOOLEAN, mode : Modes, timed : BOOLEAN, frames : Nat, mask : BOOLEAN,
        seg : Segmenters, gpuBlur : BOOLEAN, policy : BOOLEAN, repeat : Nat \ {0}]
  /\ Lengths \subseteq Nat \ {0} /\ \E m \in Lengths : \A l \in Lengths : l <= m
  /\ Sizes \subseteq Nat \ {0}
  /\ NMid \in Nat \ {0} /\ NLow \in Nat \ {0}
  /\ MaxWrites \in Nat /\ MaxIters \in Nat \ {0}

Loading == {"meta", "burst", "frames", "mask"}
Working == {"pipe", "gpuInit", "seg", "segInit", "mode", "warm", "clock", "begin",
            "iter", "count", "end", "clkStop", "clkJoin", "batStop", "batJoin", "write"}
Unwinding == {"dropSeg", "dropGpu", "uClkStop", "uClkJoin", "uBatStop", "uBatJoin"}
MainPC == {"off", "exited"} \cup Loading \cup Working \cup Unwinding
ThreadPC == {"none", "look", "sleep", "ended"}

VARIABLES
  dir,       \* the burst directory: frame files, meta.txt, mask_emu.bin
  emu,       \* the emulator
  cut,       \* history: a run of the emulator did not come to its end
  opt,       \* the command line
  pc,        \* main
  n,         \* frames asked for and said to be there
  burst,     \* the burst as loaded: [by, size, want, frames]
  found,     \* history: the directory was complete, or somebody had been cut off in
             \* it, or it was written while it was read
  bat, clk,  \* the threads of BatterySampler and ClockMonitor
  running,   \* their run_
  window,    \* the power window: between t0 and t1
  elapsed,   \* its seconds are over
  iters,     \* PowerWindow::iters
  ran,       \* history: runs made before, and in, the window
  used,      \* frames the last Pipeline::run used
  gpu, seg   \* the native objects

fileVars == <<dir, emu, cut>>
loadVars == <<n, burst, found>>
threadVars == <<bat, clk, running>>
windowVars == <<window, elapsed, iters, ran, used>>
nativeVars == <<gpu, seg>>
vars == <<fileVars, opt, pc, loadVars, threadVars, windowVars, nativeVars>>

Gpu == INSTANCE NativeObject WITH obj <- gpu
Seg == INSTANCE NativeObject WITH obj <- seg

\* The orders in NativeScripts are sound, so that what is proved of NativeObject
\* holds of VkBlur and of LiteRtSegmenter.
ASSUME ScriptsAssumption == Gpu!Sound

NoFile == [by |-> 0, size |-> 0, written |-> 0]
NoMeta == [by |-> 0, size |-> 0, lines |-> 0]
NoBurst == [by |-> 0, size |-> 0, want |-> 0, frames |-> <<>>]

\* Of mask_emu.bin, whose size is fixed, it matters whether all of it is there.
EmptyDir == [frame |-> [i \in 1 .. MaxLength |-> NoFile], meta |-> NoMeta, mask |-> FALSE]
EmuOff == [pc |-> "off", by |-> 0, len |-> MaxLength, size |-> 0, i |-> 1]

Init ==
  /\ dir = EmptyDir /\ emu = EmuOff /\ cut = FALSE
  /\ opt \in Options
  /\ pc = "off"
  /\ n = 0 /\ burst = NoBurst /\ found = "inUse"
  /\ bat = "none" /\ clk = "none"
  /\ running = [bat |-> FALSE, clk |-> FALSE]
  /\ window = "none" /\ elapsed = FALSE /\ iters = 0
  /\ ran = [before |-> 0, inside |-> 0]
  /\ used = 0
  /\ gpu = Gpu!NoObject("blur")
  /\ seg = Seg!NoObject(IF opt.seg = "none" THEN "emu" ELSE opt.seg)

-----------------------------------------------------------------------------
(* The emulator.  It is of interest until the burst has been read, for      *)
(* those command lines that read one.                                       *)

EmuTurn == opt.valid /\ opt.mode # "idle" /\ pc \in Loading \cup {"off"}

Write(d, e) ==
  /\ EmuTurn
  /\ dir' = d /\ emu' = e
  /\ found' = IF pc \in Loading THEN "inUse" ELSE found
  /\ UNCHANGED <<opt, pc, n, burst, threadVars, windowVars, nativeVars>>

EmuStart(len, size) ==
  /\ emu.pc = "off" /\ emu.by < MaxWrites
  /\ Write(dir, [pc |-> "open", by |-> emu.by + 1, len |-> len, size |-> size, i |-> 1])
  /\ UNCHANGED cut

\* write_raw16 opens the frame's file, which empties it, and writes row after
\* row (here: pixel after pixel) without asking whether a row was written: on a
\* full disk the file is closed too short and the burst goes on.
EmuOpenFrame ==
  /\ emu.pc = "open"
  /\ Write([dir EXCEPT !.frame[emu.i] = [by |-> emu.by, size |-> emu.size, written |-> 0]],
           [emu EXCEPT !.pc = "rows"])
  /\ UNCHANGED cut

EmuRow ==
  /\ emu.pc = "rows" /\ dir.frame[emu.i].written < emu.size
  /\ Write([dir EXCEPT !.frame[emu.i].written = @ + 1], emu)
  /\ UNCHANGED cut

EmuCloseFrame ==
  /\ emu.pc = "rows"
  /\ Write(dir, IF emu.i < emu.len THEN [emu EXCEPT !.i = @ + 1, !.pc = "open"]
                                   ELSE [emu EXCEPT !.pc = "meta"])
  /\ UNCHANGED cut

\* meta.txt comes after the frames.  It is written when it is closed, on
\* a full disk in part; the size is in front of the frame lines.
EmuMeta(lines) ==
  /\ emu.pc = "meta" /\ lines <= emu.len
  /\ Write([dir EXCEPT !.meta = [by |-> emu.by, size |-> emu.size, lines |-> lines]],
           [emu EXCEPT !.pc = "mask"])
  /\ UNCHANGED cut

\* mask_emu.bin, for a portrait (here: if the command line will read it).
EmuMask(whole) ==
  /\ emu.pc = "mask" /\ opt.mask
  /\ Write([dir EXCEPT !.mask = whole], [emu EXCEPT !.pc = "off"])
  /\ UNCHANGED cut

EmuNoMask ==
  /\ emu.pc = "mask"
  /\ Write(dir, [emu EXCEPT !.pc = "off"])
  /\ UNCHANGED cut

\* A file cannot be opened, or the process is killed.
EmuCut ==
  /\ emu.pc \notin {"off", "mask"}
  /\ Write(dir, [emu EXCEPT !.pc = "off"])
  /\ cut' = TRUE

Emulator ==
  \/ \E len \in Lengths, size \in Sizes : EmuStart(len, size)
  \/ EmuOpenFrame \/ EmuRow \/ EmuCloseFrame \/ EmuNoMask \/ EmuCut
  \/ \E whole \in BOOLEAN : EmuMask(whole)
  \/ \E lines \in 0 .. MaxLength : EmuMeta(lines)

-----------------------------------------------------------------------------
(* The sampling threads: both are a loop that looks at run_, reads files    *)
(* of /sys into its samples, and sleeps.                                    *)

\* (Mutant: the loop does not look.)
LoopForEver(t, on) == IF t = "sleep" THEN "look" ELSE "sleep"
Loop(t, on) ==
  IF t = "sleep" THEN "look" ELSE IF on THEN "sleep" ELSE "ended"

Alive(t) == t \in {"look", "sleep"}

BatteryThread ==
  /\ Alive(bat)
  /\ bat' = Loop(bat, running.bat)
  /\ UNCHANGED <<fileVars, opt, pc, loadVars, clk, running, windowVars, nativeVars>>

ClockThread ==
  /\ Alive(clk)
  /\ clk' = Loop(clk, running.clk)
  /\ UNCHANGED <<fileVars, opt, pc, loadVars, bat, running, windowVars, nativeVars>>

\* stop() is run_ = false and a join, of a thread that may never have been
\* started.
Joined(t) == ~Alive(t)

-----------------------------------------------------------------------------
(* main: options and loading *)

Least(a, b) == IF a < b THEN a ELSE b

\* A return from anywhere destroys what has been made, the last first.
Return == pc' = "dropSeg"

\* The battery is sampled from here on, if it may be read; with --idle nothing
\* else is looked at.
Start(readable) ==
  /\ pc = "off"
  /\ bat' = IF readable THEN "look" ELSE "none"
  /\ running' = [running EXCEPT !.bat = readable]
  /\ found' = CASE emu.pc # "off" -> "inUse"
                [] emu.pc = "off" /\ cut -> "cutOff"
                [] emu.pc = "off" /\ ~cut -> "complete"
  /\ IF opt.mode = "idle" THEN pc' = "clock"
     ELSE IF opt.valid THEN pc' = "meta" ELSE Return
  /\ UNCHANGED <<fileVars, opt, n, burst, clk, windowVars, nativeVars>>

\* --frames, but no more than there are (mutant: as many as are asked for).
AsAsked(asked, lines) == IF asked > 0 THEN asked ELSE lines
FramesWanted(asked, lines) == IF asked > 0 THEN Least(asked, lines) ELSE lines
LoadMeta ==
  /\ pc = "meta"
  /\ IF dir.meta.lines = 0 THEN Return /\ UNCHANGED n
     ELSE n' = FramesWanted(opt.frames, dir.meta.lines) /\ pc' = "burst"
  /\ UNCHANGED <<fileVars, opt, burst, found, threadVars, windowVars, nativeVars>>

\* load_burst reads meta.txt for itself.
LoadBurst ==
  /\ pc = "burst"
  /\ LET m == dir.meta IN
       IF m.lines = 0 THEN Return /\ UNCHANGED burst
       ELSE /\ burst' = [by |-> m.by, size |-> m.size, want |-> Least(n, m.lines), frames |-> <<>>]
            /\ pc' = "frames"
  /\ UNCHANGED <<fileVars, opt, n, found, threadVars, windowVars, nativeVars>>

\* A frame is taken if its file can be opened and gives as many pixels as the
\* size in meta.txt asks for; it may have more (mutant: if anything can be read).
SomethingRead(f) == f.by > 0 /\ f.written > 0
EnoughRead(f) == f.by > 0 /\ f.written >= burst.size
LoadFrame ==
  /\ pc = "frames" /\ Len(burst.frames) < burst.want
  /\ LET f == dir.frame[Len(burst.frames) + 1] IN
       IF EnoughRead(f) THEN burst' = [burst EXCEPT !.frames = Append(@, f)] /\ UNCHANGED pc
       ELSE Return /\ UNCHANGED burst
  /\ UNCHANGED <<fileVars, opt, n, found, threadVars, windowVars, nativeVars>>

LoadDone ==
  /\ pc = "frames" /\ Len(burst.frames) = burst.want
  /\ pc' = IF opt.mask THEN "mask" ELSE "pipe"
  /\ UNCHANGED <<fileVars, opt, loadVars, threadVars, windowVars, nativeVars>>

LoadMask ==
  /\ pc = "mask"
  /\ IF dir.mask THEN pc' = "pipe" ELSE Return
  /\ UNCHANGED <<fileVars, opt, loadVars, threadVars, windowVars, nativeVars>>

Load == LoadMeta \/ LoadBurst \/ LoadFrame \/ LoadDone \/ LoadMask

-----------------------------------------------------------------------------
(* main: the pipeline and the segmenter are made.  Without a GPU the blur   *)
(* is done on the CPU; without a segmenter only --seg-only ends here.  The  *)
(* files have been read and are left out of the state from here on.         *)

MakePipeline ==
  /\ pc = "pipe"
  /\ IF opt.gpuBlur THEN Gpu!Create("blur") /\ pc' = "gpuInit"
     ELSE pc' = "seg" /\ UNCHANGED gpu
  /\ dir' = EmptyDir /\ emu' = EmuOff /\ cut' = FALSE
  /\ UNCHANGED <<opt, loadVars, threadVars, windowVars, seg>>

GpuInit ==
  /\ pc = "gpuInit"
  /\ \/ (Gpu!InitStep \/ Gpu!TeardownStep) /\ UNCHANGED pc
     \/ gpu.phase \in {"none", "ready"} /\ pc' = "seg" /\ UNCHANGED gpu
  /\ UNCHANGED <<fileVars, opt, loadVars, threadVars, windowVars, seg>>

MakeSegmenter ==
  /\ pc = "seg"
  /\ IF opt.seg = "none" THEN pc' = "mode" /\ UNCHANGED seg
     ELSE Seg!Create(opt.seg) /\ pc' = "segInit"
  /\ UNCHANGED <<fileVars, opt, loadVars, threadVars, windowVars, gpu>>

SegInit ==
  /\ pc = "segInit"
  /\ \/ (Seg!InitStep \/ Seg!TeardownStep) /\ UNCHANGED pc
     \/ seg.phase \in {"none", "ready"} /\ pc' = "mode" /\ UNCHANGED seg
  /\ UNCHANGED <<fileVars, opt, loadVars, threadVars, windowVars, gpu>>

\* A measured window is preceded by a run that is not measured (mutant: the
\* window is opened at once).
AtOnce == "clock"
Before == "warm"
ChooseMode ==
  /\ pc = "mode"
  /\ CASE opt.mode = "seg" -> IF seg.phase = "ready" THEN pc' = Before ELSE Return
       [] opt.mode = "burst" -> pc' = IF opt.timed THEN Before ELSE "iter"
  /\ UNCHANGED <<fileVars, opt, loadVars, threadVars, windowVars, nativeVars>>

Make == MakePipeline \/ GpuInit \/ MakeSegmenter \/ SegInit \/ ChooseMode

-----------------------------------------------------------------------------
(* main: the measured window *)

\* Pipeline::run uses no more frames than the pipeline was made for, on the GPU
\* if there is one and a mask; it may have given up waiting for it.
Clamped(given, max) == Least(given, max)
RunPipeline(given) ==
  /\ used' = Clamped(given, n)
  /\ \/ \E late \in BOOLEAN : Gpu!Use(late)
     \/ UNCHANGED gpu

CountRun ==
  ran' = IF window = "open" THEN [ran EXCEPT !.inside = @ + 1] ELSE [ran EXCEPT !.before = @ + 1]

Warm ==
  /\ pc = "warm"
  /\ IF opt.mode = "burst" THEN RunPipeline(Len(burst.frames)) ELSE UNCHANGED <<used, gpu>>
  /\ CountRun
  /\ pc' = "clock"
  /\ UNCHANGED <<fileVars, opt, loadVars, threadVars, window, elapsed, iters, seg>>

StartClock ==
  /\ pc = "clock"
  /\ clk' = "look"
  /\ running' = [running EXCEPT !.clk = TRUE]
  /\ pc' = "begin"
  /\ UNCHANGED <<fileVars, opt, loadVars, bat, windowVars, nativeVars>>

Begin ==
  /\ pc = "begin"
  /\ window' = "open"
  /\ pc' = IF opt.mode = "idle" THEN "end" ELSE "iter"
  /\ UNCHANGED <<fileVars, opt, loadVars, threadVars, elapsed, iters, ran, used, nativeVars>>

\* With --thermal-policy the headroom chooses the number of frames, n_max being
\* the number that was loaded; a vector that is made longer gets empty frames.
PolicyFrames == IF opt.policy THEN {n, NMid, NLow} ELSE {Len(burst.frames)}

Room == window = "open" /\ opt.timed => iters < MaxIters \/ elapsed

BurstIteration ==
  /\ pc = "iter" /\ opt.mode = "burst" /\ Room
  /\ \E given \in PolicyFrames : RunPipeline(given)
  /\ CountRun
  /\ pc' = "count"
  /\ UNCHANGED <<fileVars, opt, loadVars, threadVars, window, elapsed, iters, seg>>

\* An inference that fails ends --seg-only in the middle of its window.
SegIteration(ok) ==
  /\ pc = "iter" /\ opt.mode = "seg" /\ Room
  /\ IF ok THEN pc' = "count" ELSE Return
  /\ CountRun
  /\ UNCHANGED <<fileVars, opt, loadVars, threadVars, window, elapsed, iters, used, nativeVars>>

\* With --seconds until they are over, else --repeat times; --seg-only without
\* --seconds once.
Count ==
  /\ pc = "count"
  /\ LET measured == window = "open"
         over == IF measured THEN opt.timed => elapsed ELSE ran.before = opt.repeat
     IN /\ iters' = IF measured THEN iters + 1 ELSE iters
        /\ pc' = CASE ~over -> "iter"
                   [] over /\ measured -> "end"
                   [] over /\ ~measured -> "batStop"
  /\ UNCHANGED <<fileVars, opt, loadVars, threadVars, window, elapsed, ran, used, nativeVars>>

TimePasses ==
  /\ window = "open" /\ ~elapsed
  /\ elapsed' = TRUE
  /\ UNCHANGED <<fileVars, opt, pc, loadVars, threadVars, window, iters, ran, used, nativeVars>>

End ==
  /\ pc = "end"
  /\ opt.mode = "idle" => elapsed
  /\ window' = "closed"
  /\ pc' = "clkStop"
  /\ UNCHANGED <<fileVars, opt, loadVars, threadVars, elapsed, iters, ran, used, nativeVars>>

Measure ==
  \/ Warm \/ StartClock \/ Begin \/ BurstIteration \/ Count \/ End
  \/ \E ok \in BOOLEAN : SegIteration(ok)

-----------------------------------------------------------------------------
(* main: stopping, reporting, unwinding.  The samplers are stopped before   *)
(* the report reads what they collected, and again by their destructors.    *)

StopClock ==
  /\ pc \in {"clkStop", "uClkStop"}
  /\ running' = [running EXCEPT !.clk = FALSE]
  /\ pc' = IF pc = "clkStop" THEN "clkJoin" ELSE "uClkJoin"
  /\ UNCHANGED <<fileVars, opt, loadVars, bat, clk, windowVars, nativeVars>>

JoinClock ==
  /\ pc \in {"clkJoin", "uClkJoin"}
  /\ Joined(clk)
  /\ pc' = IF pc = "clkJoin" THEN "batStop" ELSE "uBatStop"
  /\ UNCHANGED <<fileVars, opt, loadVars, threadVars, windowVars, nativeVars>>

StopBattery ==
  /\ pc \in {"batStop", "uBatStop"}
  /\ running' = [running EXCEPT !.bat = FALSE]
  /\ pc' = IF pc = "batStop" THEN "batJoin" ELSE "uBatJoin"
  /\ UNCHANGED <<fileVars, opt, loadVars, bat, clk, windowVars, nativeVars>>

JoinBattery ==
  /\ pc \in {"batJoin", "uBatJoin"}
  /\ Joined(bat)
  /\ pc' = IF pc = "batJoin" THEN "write" ELSE "exited"
  /\ UNCHANGED <<fileVars, opt, loadVars, threadVars, windowVars, nativeVars>>

\* The picture and the report, or neither: main returns.
WriteResults ==
  /\ pc = "write"
  /\ Return
  /\ UNCHANGED <<fileVars, opt, loadVars, threadVars, windowVars, nativeVars>>

\* The segmenter is declared last, the battery sampler first.
DropSegmenter ==
  /\ pc = "dropSeg"
  /\ \/ (Seg!Destroy \/ Seg!TeardownStep) /\ UNCHANGED pc
     \/ seg.phase = "none" /\ pc' = "dropGpu" /\ UNCHANGED seg
  /\ UNCHANGED <<fileVars, opt, loadVars, threadVars, windowVars, gpu>>

DropPipeline ==
  /\ pc = "dropGpu"
  /\ \/ (Gpu!Destroy \/ Gpu!TeardownStep) /\ UNCHANGED pc
     \/ gpu.phase = "none" /\ pc' = "uClkStop" /\ UNCHANGED gpu
  /\ UNCHANGED <<fileVars, opt, loadVars, threadVars, windowVars, seg>>

Finish ==
  \/ StopClock \/ JoinClock \/ StopBattery \/ JoinBattery \/ WriteResults
  \/ DropSegmenter \/ DropPipeline

\* The GPU ends a dispatch, or the device is lost, and nobody waits for it any
\* longer.
GpuEnds ==
  /\ Gpu!DeviceEnds
  /\ UNCHANGED <<fileVars, opt, pc, loadVars, threadVars, windowVars, seg>>

Main == (\E readable \in BOOLEAN : Start(readable)) \/ Load \/ Make \/ Measure \/ Finish

Next == Emulator \/ Main \/ BatteryThread \/ ClockThread \/ TimePasses \/ GpuEnds

\* Main and the two threads are run, time passes, and a dispatch does not last
\* for ever.  Nobody has to run the emulator.
Fairness ==
  /\ WF_vars(Main) /\ WF_vars(BatteryThread) /\ WF_vars(ClockThread)
  /\ WF_vars(TimePasses) /\ WF_vars(GpuEnds)

Spec == Init /\ [][Next]_vars /\ Fairness

-----------------------------------------------------------------------------
(* Properties *)

Files ==
  {f \in [by : 0 .. MaxWrites, size : Sizes \cup {0}, written : Nat] : f.written <= f.size}

\* Every variable has its type.
TypeOK ==
  /\ dir \in [frame : [1 .. MaxLength -> Files], mask : BOOLEAN,
               meta : [by : 0 .. MaxWrites, size : Sizes \cup {0}, lines : 0 .. MaxLength]]
  /\ emu \in [pc : {"off", "open", "rows", "meta", "mask"}, by : 0 .. MaxWrites,
               len : Lengths, size : Sizes \cup {0}, i : 1 .. MaxLength]
  /\ cut \in BOOLEAN /\ found \in {"complete", "cutOff", "inUse"}
  /\ opt \in Options /\ pc \in MainPC
  /\ n \in 0 .. MaxLength
  /\ burst \in [by : 0 .. MaxWrites, size : Sizes \cup {0}, want : 0 .. MaxLength,
                 frames : Seq(Files)]
  /\ bat \in ThreadPC /\ clk \in ThreadPC
  /\ running \in [bat : BOOLEAN, clk : BOOLEAN]
  /\ window \in {"none", "open", "closed"} /\ elapsed \in BOOLEAN
  /\ iters \in Nat /\ ran \in [before : Nat, inside : Nat] /\ used \in Nat
  /\ Gpu!TypeOK /\ Seg!TypeOK

\* load_burst against write_burst, of a directory that is at rest while it is
\* read.  No loaded frame is older than its meta.txt, and a frame that was written
\* with that meta.txt is whole.  A frame that is cut off passes only if it is of a
\* greater size, that is, of a later run that was cut off before it came to its own
\* meta.txt.  If no run was cut off, all frames are those of meta.txt (so whole), as
\* many as were asked for, and Pipeline::run reads no other ones, whatever number
\* the thermal policy chooses.
Whole(f) == f.written = f.size
Fits(f) ==
  /\ f.by >= burst.by
  /\ f.by = burst.by => Whole(f)
  /\ ~Whole(f) => f.size > burst.size
LoadedIsWhole ==
  /\ found # "inUse" /\ pc \in Working =>
       \A i \in DOMAIN burst.frames : Fits(burst.frames[i])
  /\ found = "complete" /\ pc \in Working /\ opt.mode # "idle" =>
       /\ Len(burst.frames) = n
       /\ \A i \in DOMAIN burst.frames : burst.frames[i].by = burst.by
  /\ found = "complete" => used <= Len(burst.frames)

\* What the report says of a window: the runs it counts are those between its
\* two ends, the first run is before it, it lasted as long as was asked for, and
\* nobody writes the samples and clocks any more that it is computed from.
WindowIsItsIterations ==
  pc = "write" =>
    /\ ~Alive(bat) /\ ~Alive(clk)
    /\ window = "none" => clk = "none" /\ iters = 0 /\ ran.before = opt.repeat
    /\ window # "none" =>
         /\ window = "closed"
         /\ iters = ran.inside
         /\ opt.timed => elapsed
         /\ IF opt.mode = "idle" THEN ran.before = 0 /\ iters = 0
            ELSE ran.before = 1 /\ iters >= 1

\* Whichever way main returns, nothing outlives it: a thread that has not been
\* joined would end the program (std::thread), a handle of the GPU or of LiteRT
\* would be leaked.  On the way nothing is dropped that something else is built
\* on, or that the GPU still uses.
CleanExit ==
  /\ pc = "exited" => ~Alive(bat) /\ ~Alive(clk) /\ gpu.phase = "none" /\ seg.phase = "none"
  /\ Gpu!NothingLeaked /\ Gpu!BuiltOnHeld /\ Gpu!DroppedIdle
  /\ Seg!NothingLeaked /\ Seg!BuiltOnHeld

\* A run that has been started ends, with or without results.
EveryRunEnds == pc # "off" ~> pc = "exited"
=============================================================================
