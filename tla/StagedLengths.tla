----------------------------- MODULE StagedLengths -----------------------------
(***************************************************************************)
(* The host hands every draft-extend replay its extend lengths through one *)
(* of two pinned halves, an asynchronous copy and one device buffer.  The  *)
(* device runs copies and replays in stream order, some way behind.        *)
(*                                                                         *)
(* Translated from _stage_extend_lens and the mode-2 replay of             *)
(* src/patches/qwen_sparse_attn_backend.py.                                *)
(***************************************************************************)
EXTENDS Integers, Sequences

CONSTANTS
    Lengths,  \* the extend lengths of a batch
    MaxAhead  \* replays the runner launches before the device is done with the first

ASSUME AheadAssumption == MaxAhead \in {1, 2}

VARIABLES
    pin,     \* pin[h]: the lengths in pinned half h
    turn,    \* the half that the next replay stages through
    staged,  \* the device buffer
    stream,  \* the launched replays the device is not done with, oldest first
    last     \* the lengths the last replay was launched with, and those it read

vars == <<pin, turn, staged, stream, last>>

Half == 0 .. 1

\* A replay stages through a half, or reads a tensor of its own (half -1).
NoHalf == -1

Replay == [half : Half \cup {NoHalf}, lengths : Lengths, copied : BOOLEAN]

Init ==
    /\ pin \in [Half -> Lengths]
    /\ turn = 0
    /\ staged \in Lengths
    /\ stream = <<>>
    /\ last \in {[launched |-> v, read |-> v] : v \in Lengths}

\* Mutant: every replay stages through the same half.
StageThroughOneHalf(v) ==
    /\ Len(stream) < MaxAhead
    /\ pin' = [pin EXCEPT ![turn] = v]
    /\ stream' = Append(stream, [half |-> turn, lengths |-> v, copied |-> FALSE])
    /\ UNCHANGED <<turn, staged, last>>

\* Mutant: the turn is not wrapped.
StageWithoutWrap(v) ==
    /\ Len(stream) < MaxAhead
    /\ pin' = [pin EXCEPT ![turn] = v]
    /\ turn' = turn + 1
    /\ stream' = Append(stream, [half |-> turn, lengths |-> v, copied |-> FALSE])
    /\ UNCHANGED <<staged, last>>

\* The lengths are written to the half whose turn it is; the copy to the device
\* and the replay behind it are queued.
Stage(v) ==
    /\ Len(stream) < MaxAhead
    /\ pin' = [pin EXCEPT ![turn] = v]
    /\ turn' = 1 - turn
    /\ stream' = Append(stream, [half |-> turn, lengths |-> v, copied |-> FALSE])
    /\ UNCHANGED <<staged, last>>

\* The runner hands over a device tensor: nothing is staged.
HandOver(v) ==
    /\ Len(stream) < MaxAhead
    /\ stream' = Append(stream, [half |-> NoHalf, lengths |-> v, copied |-> TRUE])
    /\ UNCHANGED <<pin, turn, staged, last>>

\* The device copies the oldest replay's half, as it is by now.
Copy ==
    /\ stream # <<>> /\ ~stream[1].copied
    /\ staged' = pin[stream[1].half]
    /\ stream' = [stream EXCEPT ![1].copied = TRUE]
    /\ UNCHANGED <<pin, turn, last>>

\* The device lays out the rows of the oldest replay from its lengths.
Run ==
    /\ stream # <<>> /\ stream[1].copied
    /\ last' = [launched |-> stream[1].lengths,
                read |-> IF stream[1].half = NoHalf THEN stream[1].lengths ELSE staged]
    /\ stream' = Tail(stream)
    /\ UNCHANGED <<pin, turn, staged>>

Next == (\E v \in Lengths : Stage(v) \/ HandOver(v)) \/ Copy \/ Run

Spec == Init /\ [][Next]_vars

-----------------------------------------------------------------------------
(* Properties *)

TypeOK ==
    /\ pin \in [Half -> Lengths]
    /\ turn \in Half
    /\ staged \in Lengths
    /\ stream \in Seq(Replay) /\ Len(stream) <= MaxAhead
    /\ last \in [launched : Lengths, read : Lengths]

\* A replay lays out its rows from the lengths it was launched with, although the
\* host has gone on staging the next one.
ReplaySeesItsOwnLengths == last.read = last.launched

\* What makes it so: the halves of queued replays differ, the newest staged one
\* used the half whose turn is over, and what is queued is still there.
Undisturbed ==
    \A i \in DOMAIN stream : stream[i].half # NoHalf =>
        /\ ~stream[i].copied => pin[stream[i].half] = stream[i].lengths
        /\ stream[i].copied => i = 1 /\ staged = stream[i].lengths
        /\ \A j \in DOMAIN stream : j > i => stream[j].half # stream[i].half
        /\ (\A j \in DOMAIN stream : j > i => stream[j].half = NoHalf)
            => stream[i].half = 1 - turn

\* A replay that staged nothing waits for no copy.
TensorsNeedNoCopy == \A i \in DOMAIN stream : stream[i].half = NoHalf => stream[i].copied

IInv == TypeOK /\ Undisturbed /\ TensorsNeedNoCopy /\ ReplaySeesItsOwnLengths
=============================================================================
