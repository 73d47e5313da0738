--------------------------- MODULE MCSseExtension ---------------------------
(* Instances of SseExtension for TLC.                                      *)
EXTENDS SseExtension, TLC

(* Tables and sources are interchangeable.                                 *)
Symmetry == Permutations(Table) \cup Permutations(Source)
=============================================================================
