------------------------------ MODULE MCPleState ------------------------------
(* A small instance of PleState for TLC: two prompts that part after their    *)
(* first boundary.  State slots are interchangeable.                          *)
EXTENDS PleState, TLC

CONSTANTS a, b, eos, s1, s2, s3, s4, s5

Vocabulary == {a, b, eos}
TwoStreams == {<<a, b, a, a>>, <<a, b, b, a>>}

FiveSlots == {s1, s2, s3, s4, s5}
SlotSymmetry == Permutations(FiveSlots)
=============================================================================
