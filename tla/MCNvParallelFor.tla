-------------------------- MODULE MCNvParallelFor --------------------------
(* NvParallelFor on a type that ends at 7: 8 and 9 wrap to negative totals *)
(* and 18 to two.                                                          *)
EXTENDS NvParallelFor

MCWanted == -1 .. 9 \cup {18}
MCCpuCounts == {-1, 1, 2, 3, 5}
MCFreeSlots == {0, 1, 2, 5}
=============================================================================
