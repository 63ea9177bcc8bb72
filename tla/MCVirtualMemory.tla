--------------------------- MODULE MCVirtualMemory ---------------------------
(* VirtualMemory for model checking: interchangeable frames.               *)
EXTENDS VirtualMemory, TLC

Symmetry == Permutations(Frames)
OneWindow == {55}
=============================================================================
