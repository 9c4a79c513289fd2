---------------------------- MODULE MCKernels ----------------------------
(* Small images for Kernels, with every case of the arithmetic: radii beyond *)
(* the image, sizes that are no multiple of a tile or a workgroup.           *)
EXTENDS Kernels

MCDiscSizes == {<<1, 1>>, <<2, 3>>, <<3, 2>>, <<5, 5>>, <<6, 4>>}
MCOrientations == {-450, -270, -180, -90, -30, 0, 45, 90, 180, 270, 359, 360, 450, 720}
MCToneSizes == {<<2, 2>>, <<3, 3>>, <<3, 7>>, <<8, 5>>, <<11, 6>>, <<13, 9>>}
MCCurves == {lut \in [0 .. 4 -> 0 .. 3] : \A j \in 0 .. 3 : lut[j] <= lut[j + 1]}
MCGraySizes == {<<5, 4>>, <<3, 2>>, <<1, 2>>}
MCFrames == {<<8, 8>>}
MCShifts == {<<0, 0>>, <<1, -1>>, <<-2, 1>>}
=============================================================================
