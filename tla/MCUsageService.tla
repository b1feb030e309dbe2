---------------------------- MODULE MCUsageService ----------------------------
(* Small instances of UsageService.                                         *)
EXTENDS UsageService, TLC

MCNone == {}
MCSymmetry == Permutations(Caller) \cup Permutations(Mutator)
===============================================================================
