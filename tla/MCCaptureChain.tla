--------------------------- MODULE MCCaptureChain ---------------------------
(* Instances of CaptureChain for TLC.                                       *)
EXTENDS CaptureChain, TLC

\* Two instants on the first day, the rest on the second.
MCDayOf == [t \in 0 .. MaxTime |-> IF t < 2 THEN "d1" ELSE "d2"]
MCDay == {"d1", "d2"}
Symmetry == Permutations(Call) \cup Permutations(Payload)
=============================================================================
