---------------------------- MODULE MC_Registry ----------------------------
(* Three hart slots and three VM addresses: enough to create three harts,  *)
(* destroy the middle one (a free slot between two live harts, which the   *)
(* broadcast loop must skip without stopping), or destroy one and create   *)
(* it again into a reused address.                                          *)
EXTENDS Registry, TLC

CONSTANTS v1, v2, v3

MCVMs == {v1, v2, v3}
MCNumSlots == 3
MCMaxRegs == 4

\* VM addresses are interchangeable: calloc may return any free one.
VMSymmetry == Permutations(MCVMs)
=============================================================================
