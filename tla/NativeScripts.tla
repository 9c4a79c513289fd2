---------------------------- MODULE NativeScripts ----------------------------
(***************************************************************************)
(* What the native objects of a run take when they are set up, and in      *)
(* which order they let go of it: VkBlur (core/src/gpu_blur.cc) and        *)
(* LiteRtSegmenter with each delegate (core/src/seg_litert.cc).  They are  *)
(* the parameters of NativeObject.                                         *)
(*                                                                         *)
(* A step of init takes parts that are built on others ("on": what must be *)
(* alive as long as they are) and may succeed, be refused, or be done      *)
(* without.  A step that only looks at something takes nothing.            *)
(***************************************************************************)
EXTENDS Sequences

Kinds == {"blur", "emu", "cpu", "gpu", "npu"}

Needs(parts, on) == [takes |-> parts, on |-> on, may |-> {"take", "fail"}]
Sure(parts, on) == [takes |-> parts, on |-> on, may |-> {"take"}]
Optional(parts, on) == [takes |-> parts, on |-> on, may |-> {"take", "skip"}]
Looks == Needs({}, {})

-----------------------------------------------------------------------------
(* VkBlur *)

\* make_buffer: the buffer, a memory type for it, the memory, its mapping.
MakeBuffer(buf, mem, map) ==
  << Needs({buf}, {"dev"}), Looks, Needs({mem}, {"dev"}), Needs({map}, {mem}) >>

\* init: a device is looked for (there is one, its shared memory suffices, it
\* has a compute queue) before it is opened; without a query pool the kernel is
\* not timed.
BlurInit ==
  << Needs({"inst"}, {}), Looks, Looks, Looks, Needs({"dev"}, {"inst"}) >>
  \o MakeBuffer("buf0", "mem0", "map0") \o MakeBuffer("buf1", "mem1", "map1")
  \o MakeBuffer("buf2", "mem2", "map2")
  \o << Needs({"sm"}, {"dev"}),
        Needs({"dsl"}, {"dev"}),
        Needs({"pl"}, {"dev", "dsl"}),
        Needs({"pipe"}, {"dev", "pl", "sm"}),
        Needs({"dpool"}, {"dev"}),
        Needs({"ds"}, {"dpool", "dsl", "buf0", "buf1", "buf2"}),
        Needs({"cp"}, {"dev"}),
        Needs({"cb"}, {"cp"}),
        Needs({"fence"}, {"dev"}),
        Optional({"qp"}, {"dev"}) >>

\* The destructor.  A pool takes what was allocated from it along.
DropBuffers ==
  << {"map0"}, {"buf0"}, {"mem0"}, {"map1"}, {"buf1"}, {"mem1"}, {"map2"}, {"buf2"}, {"mem2"} >>
BlurDrop ==
  << {"qp"}, {"fence"}, {"cp", "cb"}, {"dpool", "ds"}, {"pipe"}, {"pl"}, {"dsl"}, {"sm"} >>
  \o DropBuffers \o << {"dev"}, {"inst"} >>

-----------------------------------------------------------------------------
(* LiteRtSegmenter *)

\* init with add_qnn_htp: the delegate, whose library may be missing for the
\* NPU, is made before the interpreter that computes with it.
DelegateParts(k) ==
  IF k = "cpu" THEN {} ELSE {k}
DelegateSteps(k) ==
  CASE k = "cpu" -> <<>>
    [] k = "gpu" -> << Needs({"gpu"}, {}) >>
    [] k = "npu" -> << Looks, Needs({"npu"}, {}) >>

\* init: the model; the options; the interpreter; the tensors and their sizes;
\* a first inference.
LiteRtInit(k) ==
  << Needs({"model"}, {}), Sure({"opts"}, {}) >>
  \o DelegateSteps(k)
  \o << Needs({"interp"}, {"model", "opts"} \cup DelegateParts(k)), Looks, Looks, Looks >>

\* The destructor, with the interpreter before what it computes with.
LiteRtDrop == << {"interp"}, {"opts"}, {"gpu"}, {"npu"}, {"model"} >>

-----------------------------------------------------------------------------

\* The emulated segmenter has only its mask file to read.
EmuInit == << Looks >>

Scripts ==
  [k \in Kinds |-> CASE k = "blur" -> BlurInit [] k = "emu" -> EmuInit [] OTHER -> LiteRtInit(k)]
Teardowns == [k \in Kinds |-> IF k = "blur" THEN BlurDrop ELSE LiteRtDrop]
=============================================================================
