----------------------------- MODULE MCSessions -----------------------------
(* Two tabs of one browser; they are interchangeable. *)
EXTENDS Sessions, TLC
CONSTANTS t1, t2
MCDevice == [t \in Tabs |-> "browser"]
TabSymmetry == Permutations(Tabs)
=============================================================================
