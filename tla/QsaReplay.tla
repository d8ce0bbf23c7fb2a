------------------------------- MODULE QsaReplay -------------------------------
(***************************************************************************)
(* Replays of speculative graphs with their extend lengths in flight: the  *)
(* host stages a batch's lengths (StagedLengths) while the device, one or  *)
(* two replays behind, lays out rows (QsaGraphLayout) from whatever the    *)
(* staging buffer holds by then and from the lengths of the requests.      *)
(*                                                                         *)
(* Translated from _replay_cuda_graph_metadata_gpu of                      *)
(* src/patches/qwen_sparse_attn_backend.py.  A request's slot serves the   *)
(* target's verify forwards and the draft's extend forwards in turn: no    *)
(* property relates the two pools.                                         *)
(***************************************************************************)
EXTENDS StagedLengths, FiniteSets, QsaGroups

CONSTANTS
    NumRequests, Stride, DraftTokens, Modes, MaxPadding, MaxLength,
    BatchSize  \* entries of the captured batch, padded ones included

ASSUME LayoutAssumption ==
    /\ NumRequests \in Nat \ {0} /\ DraftTokens \in Nat \ {0}
    /\ Stride \in Nat \ {0} /\ Stride % Ratio = 0
    /\ MaxPadding \in Nat /\ MaxLength \in Nat /\ Ratio <= MaxLength
    /\ BatchSize \in Nat \ {0}
    /\ Modes \subseteq {"verify", "draft_extend"}

VARIABLES
    length,  \* length[r]: tokens of r whose keys are final
    forward  \* the last forward: its mode, its batch and its rows

\* What rows store in the ring is left to QsaGraphLayout itself.
Layout == INSTANCE QsaGraphLayout WITH ring <- <<>>

replayVars == <<vars, length, forward>>

-----------------------------------------------------------------------------
(* A batch is a sequence of [req, extend]; padded entries name request slot 0  *)
(* and come last.  Requests are interchangeable and stand in order.  A replay  *)
(* is given the lengths of such a batch.                                       *)

Real(v) == {i \in DOMAIN v : v[i].req # 0}

Unstaged == [i \in 1 .. BatchSize |-> [req |-> 0, extend |-> 0]]

Batches ==
    {v \in [1 .. BatchSize -> [req : 0 .. NumRequests, extend : 0 .. DraftTokens]] :
        /\ v[1].req # 0
        /\ \A i \in DOMAIN v : v[i].req = 0 <=> v[i].extend = 0
        /\ \A i, j \in DOMAIN v : i < j /\ v[j].req # 0 => v[i].req \in 1 .. v[j].req - 1
        /\ Cardinality(DOMAIN v \ Real(v)) <= MaxPadding}

ASSUME LengthsAssumption == Batches \cup {Unstaged} \subseteq Lengths

\* The entries the layout sees: lengths are the requests' own, in their tensor.
Entries(mode, v) ==
    [i \in DOMAIN v |-> IF i \in Real(v) THEN Layout!Entry(mode, v[i].req, v[i].extend)
                                         ELSE Layout!PaddedEntry]

\* The extend lengths as the replay read them.
WithExtends(b, read) == [i \in DOMAIN b |-> [b[i] EXCEPT !.extend = read[i].extend]]

\* A forward whose batch is b and whose rows were laid out from `seen`.
Forwarded(mode, v, b, seen) ==
    /\ forward' = [mode |-> mode, batch |-> b, rows |-> Layout!GraphRows(seen, Len(b) * DraftTokens)]
    /\ length' = [r \in DOMAIN length |->
                    length[r] + (IF \E i \in Real(v) : v[i].req = r
                                 THEN v[CHOOSE i \in Real(v) : v[i].req = r].extend ELSE 0)]

-----------------------------------------------------------------------------
ReplayInit ==
    /\ Init
    /\ pin = [h \in Half |-> Unstaged] /\ staged = Unstaged /\ last.read = Unstaged
    /\ last.launched = Unstaged
    /\ length \in [1 .. NumRequests -> 1 .. Ratio]
    /\ forward = Layout!NoForward

\* Bound: requests of v stay within MaxLength with all that is queued for them.
Fits(v) ==
    \A i \in Real(v) : length[v[i].req] + DraftTokens * (Len(stream) + 1) <= MaxLength

\* The host launches a draft-extend replay, its lengths staged or on the device.
Launch ==
    \E v \in Batches : /\ "draft_extend" \in Modes /\ Fits(v)
                       /\ Stage(v) \/ HandOver(v)
                       /\ UNCHANGED <<length, forward>>

CopyLengths == Copy /\ UNCHANGED <<length, forward>>

\* The device reaches the oldest replay and lays out its rows.
RunReplay ==
    /\ Run
    /\ LET b == Entries("draft_extend", last'.launched)
       IN  Forwarded("draft_extend", last'.launched, b, WithExtends(b, last'.read))

\* A verify replay has one window per request and stages nothing; its turn comes
\* behind what was queued before it.
Verify ==
    \E v \in Batches :
        /\ "verify" \in Modes /\ stream = <<>> /\ Fits(v)
        /\ LET b == Entries("verify", v) IN Forwarded("verify", v, b, b)
        /\ UNCHANGED vars

\* A finished request leaves its slot to a fresh one.
Replace ==
    \E r \in 1 .. NumRequests :
        /\ stream = <<>>
        /\ length' = [length EXCEPT ![r] = 1] /\ forward' = Layout!NoForward
        /\ UNCHANGED vars

ReplayNext == Launch \/ CopyLengths \/ RunReplay \/ Verify \/ Replace

ReplaySpec == ReplayInit /\ [][ReplayNext]_replayVars

-----------------------------------------------------------------------------
(* Properties *)

ReplayTypeOK ==
    /\ TypeOK
    /\ length \in [1 .. NumRequests -> 1 .. MaxLength]
    /\ forward.rows \in Seq(Layout!RowType)

\* Whatever the host stages meanwhile, each request of the batch that was launched
\* has one row per new token, in order and next to each other, as its packed
\* tokens are.
RowsFollowTheBatch == Layout!RowsFollowTheBatch

\* The rows of a replay stand for the same requests and lengths as those of the same
\* batch run eagerly, padding included where the eager mapping goes by extend lengths.
EagerMirrorsGraph == Layout!EagerMirrorsGraph
=============================================================================
