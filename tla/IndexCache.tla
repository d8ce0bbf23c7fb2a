------------------------------ MODULE IndexCache ------------------------------
(***************************************************************************)
(* What the compressed index cache promises the scorer, with no ring, page *)
(* or slot in sight: each request sees one pooled key per complete group   *)
(* of its own tokens, a step concerns one request, tokens only grow while  *)
(* a request lives, and a group once visible stays what it was until the   *)
(* request ends or its draft rows are rejected.                            *)
(*                                                                         *)
(* This is the contract of QSAIndexerMetadata and of the pool's comment in *)
(* src/patches/qsa_kv_pool.py ("a stable, collision-free mapping").        *)
(***************************************************************************)
EXTENDS Integers, Sequences

CONSTANTS Request, Ratio

VARIABLES
    committed,  \* committed[r]: the tokens of r that are decided
    drafted,    \* drafted[r]: rows stored behind them, not decided yet
    view        \* view[r]: the pooled keys a row of r can score, by group

vars == <<committed, drafted, view>>

Pooled(t, g) == [i \in 0 .. Ratio - 1 |-> SubSeq(t, 1, g * Ratio + i + 1)]
Groups(t)    == 0 .. (Len(t) \div Ratio) - 1
Exact(t)     == [g \in Groups(t) |-> Pooled(t, g)]
Prefix(s, t) == Len(s) <= Len(t) /\ SubSeq(t, 1, Len(s)) = s

Rows(r) == committed[r] \o drafted[r]

Init ==
    /\ committed = [r \in Request |-> <<>>]
    /\ drafted = [r \in Request |-> <<>>]
    /\ view = [r \in Request |-> Exact(<<>>)]

\* The requests other than r keep everything.
OthersKeep(r) ==
    \A q \in Request \ {r} :
        /\ committed'[q] = committed[q]
        /\ drafted'[q] = drafted[q]
        /\ view'[q] = view[q]

\* A new request starts with whatever prefix is shared with it.
Open(r) ==
    /\ Rows(r) = <<>>
    /\ drafted'[r] = <<>>
    /\ view'[r] = Exact(committed'[r])

\* A forward appends rows: old groups stay, each new one is exact.
Store(r) ==
    /\ Prefix(committed[r], committed'[r])
    /\ Prefix(Rows(r), Rows(r)')
    /\ view'[r] = [g \in Groups(Rows(r)') |->
                    IF g \in Groups(Rows(r)) THEN view[r][g] ELSE Pooled(Rows(r)', g)]

\* A verdict keeps a non-empty part of the drafted rows.
Settle(r) ==
    /\ drafted'[r] = <<>>
    /\ Prefix(committed[r], committed'[r]) /\ Prefix(committed'[r], Rows(r))
    /\ Len(committed'[r]) > Len(committed[r])
    /\ view'[r] = [g \in Groups(committed'[r]) |-> view[r][g]]

Close(r) ==
    /\ drafted[r] = <<>>
    /\ committed'[r] = <<>> /\ drafted'[r] = <<>>
    /\ view'[r] = Exact(<<>>)

Next == \E r \in Request : OthersKeep(r) /\ (Open(r) \/ Store(r) \/ Settle(r) \/ Close(r))

Spec == Init /\ [][Next]_vars
=============================================================================
