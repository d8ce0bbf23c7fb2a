------------------------------- MODULE QsaGroups -------------------------------
(* Positions are compressed in groups of compress_ratio: the parameter that    *)
(* everything in the metadata of a forward shares.                             *)
EXTENDS Naturals

CONSTANT Ratio  \* compress_ratio

ASSUME RatioAssumption == Ratio \in Nat \ {0}
=============================================================================
