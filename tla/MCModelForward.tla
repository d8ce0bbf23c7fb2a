---------------------------- MODULE MCModelForward ----------------------------
(* Small instances of ModelForward for TLC: a PLE layer at the start, which is *)
(* never fetched ahead, a QSA layer, and a PLE layer fetched during it.        *)
EXTENDS ModelForward

ThreeLayers == <<[ple |-> TRUE, qsa |-> FALSE], [ple |-> FALSE, qsa |-> TRUE], [ple |-> TRUE, qsa |-> TRUE]>>

With(ranks, offload, gather, a2a, overlap) ==
    [ranks |-> ranks, offload |-> offload, gather |-> gather, a2a |-> a2a, overlap |-> overlap,
     faults |-> Cardinality(ranks) = 1, forwards |-> IF Cardinality(ranks) = 1 THEN 3 ELSE 2]

Servers ==
    {With({1}, TRUE, FALSE, FALSE, TRUE), With({1}, FALSE, FALSE, FALSE, FALSE)}
    \cup {With({1, 2}, TRUE, TRUE, a2a, a2a) : a2a \in BOOLEAN}
    \cup {With({1, 2}, TRUE, FALSE, TRUE, TRUE), With({1, 2}, FALSE, TRUE, FALSE, FALSE)}
=============================================================================
