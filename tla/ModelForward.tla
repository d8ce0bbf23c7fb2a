----------------------------- MODULE ModelForward -----------------------------
(***************************************************************************)
(* Forwards of the Qwen4-Exp model on data-parallel ranks.  The host of a  *)
(* rank enqueues a forward layer by layer; its main stream runs what was   *)
(* enqueued in order and stops at every collective until its peers are     *)
(* there; the gather of n-gram rows for the next layer and the QSA indexer *)
(* run on streams of their own, ordered only by events and waits.          *)
(*                                                                         *)
(* Translated from Qwen4ExpModel.forward and Qwen4ExpVLModel.forward, the  *)
(* decoder layers with Qwen4ExpLayerExtensionMixin, and the prefetch of    *)
(* Qwen4ExpPLELayer in src/patches/qwen4_exp_nvfp4.py.                     *)
(***************************************************************************)
EXTENDS Integers, Sequences, FiniteSets, SequencesExt

CONSTANTS
    Server,      \* [ranks, offload, gather, a2a, overlap, faults, forwards]; the last is a bound
    Plan,        \* the layers: [ple, qsa]
    MaxAhead,    \* bound: forwards a host runs ahead of its device
    MaxFaults    \* bound: forwards that fail

ASSUME ForwardAssumption ==
    /\ \A s \in Server : s.ranks # {} /\ IsFiniteSet(s.ranks) /\ s.forwards \in Nat
    /\ Plan \in Seq([ple : BOOLEAN, qsa : BOOLEAN]) /\ Plan # <<>>
    /\ MaxAhead \in Nat \ {0} /\ MaxFaults \in Nat

VARIABLES
    server,    \* the server; never changes
    forward,   \* the number of the forward that the hosts enqueue
    idle,      \* the ranks that take part in it without a batch
    graph,     \* whether it is captured or replayed as a CUDA graph
    host,      \* host[r]: the layer that rank r enqueues next, 0 when it is done
    pending,   \* pending[r]: the PLE layers with a _prefetch_state, and its forward
    main,      \* main[r]: the operations queued on the main stream
    side,      \* side[r]: the tasks queued on the side streams
    started,   \* started[r]: those whose event the main stream has reached
    buffer,    \* buffer[r]: what each prefetch buffer holds
    chosen,    \* chosen[r]: the layer whose selection the indexer left last
    lastHc,    \* last_hc_hidden_states of each rank: the forward it is of, or 0
    seen,      \* seen[r]: the last value read: what was wanted, and what was there
    faults     \* the forwards that failed

vars == <<server, forward, idle, graph, host, pending, main, side, started, buffer, chosen, lastHc, seen, faults>>

-----------------------------------------------------------------------------
(* Operations of a layer: records [op, forward, layer, graph] *)

Rank == server.ranks
Layers == DOMAIN Plan
PleLayers == {i \in Layers : Plan[i].ple}

Op(name, i) == [op |-> name, forward |-> forward, layer |-> i, graph |-> graph]
Ops(names, i) == [k \in DOMAIN names |-> Op(names[k], i)]
When(condition, ops) == IF condition THEN ops ELSE <<>>

Collective == {"ple_gather", "ple_reduce", "ple_scatter", "moe_gather", "moe_scatter", "dispatch", "combine"}

IsIdle(r) == r \in idle

\* Mutant: every layer is taken for one with n-gram rows.
PrefetchesAnyLayer(r, i) == server.offload /\ (~IsIdle(r) \/ server.gather)

\* Without gathered tokens an idle rank has nothing to look up.
Prefetches(r, i) ==
    /\ server.offload
    /\ i \in PleLayers
    /\ ~IsIdle(r) \/ server.gather

\* Whether layer i finds a _prefetch_state.  A graph does what its capture did,
\* which began with none left over; a replay reads and leaves none.
HasPending(r, i) == IF graph THEN i > 1 /\ Prefetches(r, i) ELSE i \in DOMAIN pending[r]

\* start_prefetch finds one that was never consumed, where it runs at all.
LeftOver(r, i) == ~graph /\ i \in DOMAIN pending[r]

\* start_prefetch: the ids are gathered over the ranks on the main stream, then
\* the side stream waits for it and gathers the rows.
StartPrefetch(r, i) == When(server.gather, Ops(<<"ple_gather">>, i)) \o Ops(<<"start_rows">>, i)

\* Mutant: the main stream does not wait for the gather.
ConsumeAtOnce(i) ==
    When(server.gather, Ops(<<"ple_reduce">>, i)) \o Ops(<<"read_rows">>, i)
        \o When(server.gather, Ops(<<"ple_scatter">>, i))

\* _consume_prefetched_embeddings
Consume(i) ==
    Ops(<<"wait_rows">>, i) \o When(server.gather, Ops(<<"ple_reduce">>, i))
        \o Ops(<<"read_rows">>, i) \o When(server.gather, Ops(<<"ple_scatter">>, i))

\* Mutant: a rank without a batch leaves the lookup to the others.
DirectUnlessIdle(r, i) ==
    When(server.gather /\ ~IsIdle(r), Ops(<<"ple_gather", "ple_reduce", "ple_scatter">>, i))

\* The lookup of a layer whose rows were not fetched ahead, or of an idle rank.
Direct(r, i) == When(server.gather, Ops(<<"ple_gather", "ple_reduce", "ple_scatter">>, i))

Ple(r, i) == IF ~Plan[i].ple THEN <<>> ELSE IF HasPending(r, i) THEN Consume(i) ELSE Direct(r, i)

\* The indexer runs beside the projections where graphs are captured.
Attention(r, i) ==
    IF IsIdle(r) \/ ~Plan[i].qsa THEN <<>>
    ELSE IF server.overlap /\ graph THEN Ops(<<"start_index", "wait_index", "attend">>, i)
    ELSE Ops(<<"index", "attend">>, i)

\* Mutant: an empty batch skips the experts whatever they are dispatched by.
ExpertsSkipEmpty(r, i) ==
    IF IsIdle(r) THEN <<>> ELSE Ops(IF server.a2a THEN <<"dispatch", "combine">> ELSE <<"moe_gather", "moe_scatter">>, i)

\* _run_qwen4_exp_mlp: only an expert layer without collectives skips an empty batch.
Experts(r, i) ==
    IF server.a2a THEN Ops(<<"dispatch", "combine">>, i)
    ELSE When(Cardinality(Rank) > 1, Ops(<<"moe_gather", "moe_scatter">>, i))

\* What a layer enqueues for its own work.
LayerOps(r, i) == Ple(r, i) \o Attention(r, i) \o Experts(r, i)

\* A prefetch buffer of its own for graphs, which keep reading the one captured.
BufferOf(o) == <<o.layer, o.graph>>

\* The tasks that a layer's operations hand to the side streams.
Task(o, name) == [o EXCEPT !.op = name]
Sided(ops) ==
    {Task(o, "rows") : o \in {x \in ToSet(ops) : x.op = "start_rows"}}
    \cup {Task(o, "index") : o \in {x \in ToSet(ops) : x.op = "start_index"}}

-----------------------------------------------------------------------------
NoRead == [wanted |-> <<0, 0>>, got |-> <<0, 0>>]

Init ==
    /\ server \in Server
    /\ forward = 0
    /\ idle = {}
    /\ graph = FALSE
    /\ host = [r \in Rank |-> 0]
    /\ pending = [r \in Rank |-> [i \in {} |-> 0]]
    /\ main = [r \in Rank |-> <<>>]
    /\ side = [r \in Rank |-> {}]
    /\ started = [r \in Rank |-> {}]
    /\ buffer = [r \in Rank |-> [b \in PleLayers \X BOOLEAN |-> <<0, 0>>]]
    /\ chosen = [r \in Rank |-> <<0, 0>>]
    /\ lastHc = [r \in Rank |-> 0]
    /\ seen = [r \in Rank |-> NoRead]
    /\ faults = 0

\* The scheduler agrees on the next forward: who has a batch, and whether it is
\* a graph.  A rank without a batch runs it too when another has one.
Begin ==
    /\ forward < server.forwards
    /\ \A r \in Rank : host[r] = 0
    /\ \A r \in Rank, o \in UNION {ToSet(main[q]) : q \in Rank} : o.forward > forward - MaxAhead
    /\ forward' = forward + 1
    /\ idle' \in (SUBSET Rank) \ {Rank}
    /\ graph' \in BOOLEAN
    /\ host' = [r \in Rank |-> 1]
    /\ lastHc' = [r \in Rank |-> 0]
    /\ UNCHANGED <<server, pending, main, side, started, buffer, chosen, seen, faults>>

\* The host of rank r enqueues layer i, the prefetch of the next layer first.
Enqueue(r) ==
    LET i == host[r]
        ahead == i + 1 \in Layers /\ Prefetches(r, i + 1)
        ops == When(ahead, StartPrefetch(r, i + 1)) \o LayerOps(r, i)
        kept == [l \in DOMAIN pending[r] \ {i} |-> pending[r][l]]
    IN  /\ i \in Layers
        /\ ~LeftOver(r, i + 1)
        /\ main' = [main EXCEPT ![r] = @ \o ops]
        /\ side' = [side EXCEPT ![r] = @ \cup Sided(ops)]
        /\ pending' = IF graph THEN pending ELSE [pending EXCEPT ![r] =
                IF ahead THEN [l \in DOMAIN kept \cup {i + 1} |-> forward] ELSE kept]
        /\ host' = [host EXCEPT ![r] = IF i = Len(Plan) THEN 0 ELSE i + 1]
        /\ lastHc' = [lastHc EXCEPT ![r] = IF i = Len(Plan) /\ ~IsIdle(r) THEN forward ELSE @]
        /\ UNCHANGED <<server, forward, idle, graph, started, buffer, chosen, seen, faults>>

\* A prefetch that was never consumed makes a forward raise, but no replay.
Refuse(r) ==
    /\ host[r] \in Layers
    /\ LeftOver(r, host[r] + 1)
    /\ host' = [host EXCEPT ![r] = 0]
    /\ UNCHANGED <<server, forward, idle, graph, pending, main, side, started, buffer, chosen, lastHc, seen, faults>>

\* Anything else that a layer raises leaves what was enqueued and _prefetch_state;
\* a replay runs no layer that could raise, and a failed capture ends the server.
Fail(r) ==
    /\ server.faults /\ faults < MaxFaults /\ ~graph
    /\ host[r] \in Layers
    /\ host' = [host EXCEPT ![r] = 0]
    /\ faults' = faults + 1
    /\ UNCHANGED <<server, forward, idle, graph, pending, main, side, started, buffer, chosen, lastHc, seen>>

-----------------------------------------------------------------------------
(* The device *)

Waits(r, o) ==
    \/ o.op = "wait_rows" /\ Task(o, "rows") \in side[r]
    \/ o.op = "wait_index" /\ Task(o, "index") \in side[r]

\* The main stream of r runs an operation of its own.
Run(r) ==
    /\ main[r] # <<>>
    /\ LET o == Head(main[r])
           this == <<o.forward, o.layer>>
           read == CASE o.op = "read_rows" -> buffer[r][BufferOf(o)]
                     [] o.op = "attend" -> chosen[r]
                     [] OTHER -> this
       IN  /\ o.op \notin Collective
           /\ ~Waits(r, o)
           /\ seen' = IF o.op \in {"read_rows", "attend"}
                      THEN [seen EXCEPT ![r] = [wanted |-> this, got |-> read]] ELSE seen
           /\ chosen' = IF o.op = "index" THEN [chosen EXCEPT ![r] = this] ELSE chosen
           /\ started' = CASE o.op = "start_rows" -> [started EXCEPT ![r] = @ \cup {Task(o, "rows")}]
                           [] o.op = "start_index" -> [started EXCEPT ![r] = @ \cup {Task(o, "index")}]
                           [] OTHER -> started
    /\ main' = [main EXCEPT ![r] = Tail(@)]
    /\ UNCHANGED <<server, forward, idle, graph, host, pending, side, buffer, lastHc, faults>>

Joined == \A r, q \in Rank : main[r] # <<>> /\ Head(main[r]).op \in Collective /\ Head(main[r]) = Head(main[q])

\* A collective runs once every rank has reached it.
Join ==
    /\ Joined
    /\ main' = [r \in Rank |-> Tail(main[r])]
    /\ UNCHANGED <<server, forward, idle, graph, host, pending, side, started, buffer, chosen, lastHc, seen, faults>>

\* A side stream runs its oldest task, once its event was reached.
RunSide(r) ==
    /\ \E t \in side[r] \cap started[r] :
        /\ \A u \in side[r] : u.op = t.op /\ u.layer = t.layer => u.forward >= t.forward
        /\ side' = [side EXCEPT ![r] = @ \ {t}]
        /\ started' = [started EXCEPT ![r] = @ \ {t}]
        /\ buffer' = IF t.op = "rows"
                     THEN [buffer EXCEPT ![r][BufferOf(t)] = <<t.forward, t.layer>>] ELSE buffer
        /\ chosen' = IF t.op = "index" THEN [chosen EXCEPT ![r] = <<t.forward, t.layer>>] ELSE chosen
    /\ UNCHANGED <<server, forward, idle, graph, host, pending, main, lastHc, seen, faults>>

Step(r) == Enqueue(r) \/ Refuse(r) \/ Run(r) \/ RunSide(r)

Next ==
    \/ Begin \/ Join
    \/ \E r \in Rank : Step(r) \/ Fail(r)

\* Hosts and streams go on while they can; forwards need not begin.
Spec == Init /\ [][Next]_vars /\ WF_vars(Join \/ \E r \in Rank : Step(r))

-----------------------------------------------------------------------------
(* Properties *)

TypeOK ==
    /\ server \in Server
    /\ idle \subseteq Rank /\ idle # Rank
    /\ host \in [Rank -> {0} \cup Layers]
    /\ \A r \in Rank : DOMAIN pending[r] \subseteq PleLayers
    /\ \A r \in Rank : started[r] \subseteq side[r]
    /\ lastHc \in [Rank -> 0 .. server.forwards]

\* Whatever the streams' order, and after forwards that failed half-way, a layer
\* reads the rows that were gathered for it in this forward and the selection
\* that its own indexer made.
ReadsAreOwn == \A r \in Rank : seen[r].got = seen[r].wanted

\* Ranks that wait for each other wait at the same collective: an idle rank
\* takes part in every gather, dispatch and scatter that the others take part in.
RanksMeet ==
    \A r, q \in Rank :
        main[r] # <<>> /\ main[q] # <<>> /\ Head(main[r]).op \in Collective /\ Head(main[q]).op \in Collective
            => Head(main[r]) = Head(main[q])

\* Every forward that was begun is worked off on every rank.
WorkedOff(n) ==
    \A r \in Rank : /\ host[r] = 0 \/ forward > n
                    /\ \A o \in ToSet(main[r]) \cup side[r] : o.forward > n

ForwardsComplete == \A n \in 1 .. 3 : forward = n ~> WorkedOff(n)
=============================================================================
