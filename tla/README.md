# A verification project for OneSpark

OneSpark serves one pinned checkpoint on one machine through SGLang.  The
repository holds the deployment scripts and tools, and the SGLang files it
replaces: the QSA sparse-attention backend with its KV pool and metadata, and
the Qwen4-Exp model with its n-gram embeddings (PLE), its forward over streams and
ranks, and its weight loading.  The correctness of that
code is mostly a matter of *addresses*: which slot of which buffer a row of a
forward writes, and whether every later reader finds there what was written for
it.  That is what this project models, checks and proves.

## Inventory

State, operations, and what has to be true, per part.  `PROJECT.json` lists the
same parts under "components", and what can go wrong in each under "hazards".

| Part | State it keeps | Operations | What makes it correct |
| --- | --- | --- | --- |
| QSA index cache (`qsa_kv_pool.py`, `qsa_metadata.py`, backend) | pending ring per request slot, RoPE coordinates beside it, compressed keys at raw slot / ratio | extend chunk, decode row, target-verify rows; pages shared and evicted through the radix tree | a row scores groups pooled from its own request's tokens only; ring members survive until their group is pooled; shared pages are never rewritten |
| Batch metadata (`qsa_metadata.py`, backend) | none between forwards | write plan, row ranges, page table, ring slots | the compacted plan names every completed group exactly once; a row's range holds its own causal groups |
| CUDA-graph layout (backend) | static per-row buffers, two pinned staging halves | capture, replay, padding rows | padding rows write nothing a live request reads; a replay sees its own lengths |
| MTP shared selection (`QSAMTPSharedSparseIndices`) | one frozen selection and captured length per request slot and layer, one trash row | capture in draft-extend, lookup in draft decode | a lookup returns the selection of its own iteration, below the row's length, without duplicates |
| PLE n-gram and short-convolution state (`qwen4_exp_nvfp4.py`) | last tokens per state slot, per-step intermediates, track snapshots | prepare/commit around every forward | a request's history is the tail of its own tokens; padded rows touch slot 0 only; the tree gets the boundary snapshot |
| PLE n-gram hashing, HashK table (`qwen4_exp_nvfp4.py`, `tools/build_hashk_ple.py`) | built table and its sidecar | build, load, gather | the runtime gather addresses the rows the builder filled |
| Model forward and PLE prefetch (`qwen4_exp_nvfp4.py`) | main and side streams, prefetch buffers, one pending prefetch per PLE layer | enqueue a layer, start, consume, idle ranks, graphs | a layer reads the rows and the selection made for it; ranks meet at the same collectives; every forward is worked off |
| Weight loading and packing (`qwen4_exp_nvfp4.py`, `patch/*.py`) | parameters, n-gram tables, fp8 copies | load tensors in any order, fuse, pack, cast | every parameter is filled from the tensors named for it, and copied only when it is whole |
| Deployment (`install.sh`, `launch.sh`, `stop.sh`, `common.sh`, `tools/prepare_runtime.py`, `tools/checkpoint.py`) | receipts under `.state`, the artifact and its sidecar, the container | install, launch, stop, check | what runs is what was verified; a crash between two writes never leaves something that passes |
| Patchers (`patch/*.py`, `patches/generators/*.py`) | target file | anchored edits | idempotent, all or nothing |
| API probe and benchmark (`tools/api_probe.py`) | none | HTTP requests, timing | reporting only |
| Kernels (`sparse_attn.py`, `flash_fwd.py`) | none | attention | numerics, out of reach of a model checker |

How they meet.  The scheduler (SGLang's, not in the repository) forms a batch;
the backend turns it into metadata (write plan, ring slots, page table); the
model's indexer stores keys in the ring, pools complete groups into the
compressed cache and scores the groups a row can see.  Requests come and go by
request slot; their pages come from a paged allocator and are shared through a
radix tree; nothing in the ring, the compressed cache or the shared selection
is cleared when a request leaves.  With MTP, every iteration drafts, verifies a
window of rows and keeps a prefix of them: the rejected rows have already
stored their keys.

The hard behaviours: rejected draft rows; request slots and pages reused
without clearing; two requests sharing pages that both could write; compacted
and padded rows; side-stream work and pinned buffers overwritten while queued;
forwards that fail half-way; ranks that wait for each other; tensors in any order;
crashes between two files of the deployment.

## Modules

| Module | What it is |
| --- | --- |
| `QsaCache` | the index cache: ring, compressed keys, requests, pages, tree; one action per operation |
| `IndexCache` | what the cache promises a scorer, with no slot in sight |
| `MCQsaCache` | token streams for TLC |
| `QsaArithmetic` | lemmas the provers need stated: `\div` and `%`, sequences, running sums, induction over numbers |
| `QsaCacheProofs` | the page discipline, the contents of ring and cache, the refinement of `IndexCache` |
| `QsaGroups` | the compression ratio, which the next modules share |
| `QsaBatch` | the metadata of one forward as functions of a whole batch: write plan, member rows, row ranges, graph write slots |
| `QsaGraphLayout` | which request and length each row of a speculative forward stands for, padding included, and what the rows store |
| `StagedLengths` | the two pinned halves through which a replay gets its extend lengths |
| `QsaReplay`, `MCQsaReplay` | both composed: the host stages batches while the device lays out the rows of earlier ones |
| `QsaForwardProofs` | replays read their own lengths and their rows follow their batch; write plan and row ranges name the groups of the batch |
| `MtpShared` | the sparse selection frozen by one draft-extend forward and reused by the next draft steps |
| `MtpSharedProofs` | an iteration starts from its own selection, for any packing of rows |
| `PleState`, `MCPleState` | the PLE side state, n-gram context and short convolution: working slots, verify intermediates, track snapshots, the tree |
| `PleStateProofs` | working slots, snapshots, tree and intermediates hold tails of their own tokens |
| `PleTable` | which rows an n-gram looks up, how the compressed table places and finds a row, packed rows: operators only |
| `LoadWeights`, `MCLoadWeights` | loading the checkpoint tensor by tensor in any order, then looking n-grams up |
| `LoadWeightsProofs` | loaded parameters are whole, in any order; tokens get their own rows from the tables and from the compressed table, for any hash |
| `ModelForward`, `MCModelForward` | forwards on data-parallel ranks: hosts, main and side streams, collectives |
| `ModelForwardProofs` | layers read what was made for them, ranks wait at one collective |
| `Deployment` | the three scripts as processes over the files they keep and the container name |
| `DeploymentProofs` | receipts and tables survive, and what boots was installed together, for any number of scripts |

### `QsaCache` and the code

* `ring` is `qsa_key_state_buffer` (the RoPE buffer rides the same slots),
  `comp` is `qsa_compressed_k_buffer`, both flat and addressed by the code's
  arithmetic: `RingSlot`, `WriteSlot` (first raw slot / ratio) and `ReadSlot`
  (page id * groups per page + block in page).
* A key is the prefix of tokens that ends at its token; a compressed entry is
  the family of the `Ratio` keys it was pooled from.  Two prefixes that differ
  anywhere have different keys, so any mix-up is visible.
* `Extend` is one prefill chunk: members come from the chunk itself, only the
  pending tail reaches the request's ring, the older rows dump into ring rows
  of request slot 0.  `Decode` and `Verify` are paged rows: each stores its key
  at its ring slot and a row that completes a group pools it from the ring, after
  all rows of the forward stored.
* `Accept` is the verdict over a verify window: the first `k >= 1` rows are kept,
  the others forgotten without undoing what they stored.
* `Admit`, `Publish`, `Release`, `Evict` are the scheduler, the page allocator
  and the radix tree (SGLang's): a prefix of the tree is matched by page, full
  pages are offered to it, an unreferenced leaf is dropped.  They are modelled
  from how these files rely on them ("lifecycle rides the full-KV allocator and
  radix tree") and marked external in the map.
* A forward is modelled per request.  Requests batched together commute: their
  ring slots are disjoint (`RingSlotsApart`) and they write pages that no other
  request can write (`SharedPagesCommitted`).
* A request is published or released only between a verify forward and its
  verdict being applied, never inside: SGLang processes the verify result before
  the request can finish.

### `QsaBatch` and the code

`QsaCache` takes the requests of a forward one by one and says what is stored
where; the code does it with tensors over the batch.  `QsaBatch` translates those
tensors (`Count`, `Ends`, `Owner` are `counts`, `ends`, `rows` of
`_qsa_write_plan`; `RowStart` and `RowEnd` are `build_qsa_row_ranges`; `Cumsum` is
`cumsum` with the 0 in front that the code pads or subtracts, `Holder` is
`repeat_interleave` at one index).  Rows of a batch are numbered from 1, tokens, groups
and entries of the plan from 0 as in the tensors.  Its
invariants say they name the places `QsaCache` uses: each completed group once,
its own members, each row its own causal groups.  A batch is an initial state and
`Build` its only step, so the run lets the system stop: a forward's metadata is
built once.

### `QsaGraphLayout` and the code

`RowEnds` and `EntryOf` are the running totals and the `repeat_interleave` that the
layout and the first branch of the eager mapping are built with.  `GraphRows` is
`_graph_speculative_layout`, `RingsAfter` the ring stores of all rows of a forward; rows
that store at one slot race, and any of them may win.  A forward is followed by its verdict
in one step, because only what is stored between forwards matters here (`qsa_padding_rows`).

`EagerRequests` is `_speculative_row_to_request` with both of its branches, `EagerMaps` the
conditions under which it raises, `EagerLengths` the lengths beside it.  A draft-extend
forward carries its extend lengths, and rows are mapped by them (`EntryByLengths`): the tail
behind the real rows goes to the first entry, as in the graph.  A target verify may carry
none (`Carries`): every entry then has an even share of the rows (`EntryByShares`), so the
rows of a padded entry are its own, request slot 0, where the graph gives them the first
request.  `EagerMirrorsGraph` therefore asks for the same request on every row in the first
case and on every row that stands for a token in the second, for the same length on every
row in both, and that no batch is refused.  Extend lengths of an eager verify, where it has
them, are full windows here; `qwen4_exp_nvfp4.py:311` says that they may be shorter.

### `StagedLengths` and the code

`Stage` and `HandOver` are the two ways through `_stage_extend_lens`; `Copy` and
`Run` are the device, in stream order.  `MaxAhead` is how many replays SGLang's
scheduler launches before the first is done: it launches one batch while it waits
for the batch before.  Nothing in the file enforces that, so the theorems state it
as `AheadAssumption`.

### `QsaReplay` and the code

`_replay_cuda_graph_metadata_gpu` is where the two meet: `Launch` is its host side,
`RunReplay` the device reaching that replay.  The lengths of the requests are theirs
when the replay runs, as `seq_lens` is a device tensor that the forwards before have
advanced; the extend lengths are whatever the staging buffer holds by then.  `Verify`
replays stage nothing.  The module extends `StagedLengths` and instantiates
`QsaGraphLayout` on its own variables, so each layout property is asked of rows that
were laid out from lengths in flight.

### `MtpShared` and the code

`selection[s].length` is `captured_len`; `own` is bookkeeping: whether the row was
captured by the slot's present holder.  The selected indices themselves are
whatever top-k picks below that length.  `Prefill` and `DraftExtend` are the two
captures, with the anchor arithmetic on packed rows (`BlockEnds` are the running totals of the
rows of the entries, which a scheduler may lay out in any order), `DraftStep` is a lookup.  An
iteration runs draft steps, verdict and draft-extend over one set of requests,
as SGLang's speculative worker does.

### `PleState` and the code

`hist` is what the state pool's slots hold, for both parts: the n-gram context and the short
convolution's last inputs.  `inter` is the intermediate state of a verify forward with the
taps that its convolution read, `spare` the track slot.  `RowOfToken`, `Unpacked`,
`StateIndex` and `After` are the tensor steps of `_prepare_ple_batch` and the gathers of
`_commit_ple_batch`, over batches in any order with `query_start_loc` as running totals;
`Tracked`, `TrackSlot`, `TrackOffset` are `_ple_track_targets`.  Here padded rows name
request slot 0, which may be a live request, and are sent to the dummy slot.  `Settle`
applies the verdict from the intermediates, and `Offered` hands the track slot to the tree
(SGLang's).  An input of the convolution is the token it was computed from; `Taps` are the
inputs that the dilated kernel combines for a token (`StepsAreTails` asks that they be the
token's own predecessors at that distance).

### `PleTable`, `LoadWeights` and the code

The vocabulary sizes, multipliers, masked shifts and hashes are the code's own
arithmetic on words of `Width` bits, signed where the code's are.  `BuilderSize`,
`BuilderOffset`, `HashSlot` and `HeadOfRow` are `build_hashk_ple.py`; `HeadOffset` and
`GatherSlot` are the model file: two implementations that have to agree.  A slot of the
compressed table is the set of rows it is the mean of.

A tensor is [layer, module, leaf, item], a parameter the set of pieces that were written
into it with the tensor each came from.  `Load(t)` is one turn of the loop of
`load_weights` on any tensor still to come; `Finish` is what follows the loop, with the
fp8 copies that `patch_fp8.py` inserts there.  The loop has no state that two slices of
the checkpoint share (tables, attention, the rest), so a run loads one slice in all
orders rather than all tensors.  `WithShard` is the overlap arithmetic of
`copy_ple_rows_to_tp_embedding` over all ranks at once; `Switches` is the swap of a table
for an empty fp8 one.  `Looked` is a lookup in each storage mode, zeros where
`patch_ple_off.py` took the tables out.  Plain tables are cut over the tensor-parallel ranks
(`Rank`) and summed (`Summed`); packed ones are indexed by the id itself, without mask or
sum (`Unpacked`), and are "tp1 only" by their docstring (`qwen4_exp_nvfp4.py:196`), so
`LoadAssumption` gives a packed server one rank: with two, an id beyond the first part
would be out of range or another row.  `Lookup` models the windows that PLE layers of
one forward share.

A server with pipeline stages and a PLE layer on one of them would refuse the
`shard_N` tensors of that layer on the other stages (`qwen4_exp_nvfp4.py:2213-2218`
raises before layers are filtered by stage).  `launch.sh` serves one stage on one
machine, so the instances with a stage of their own load the other slices only as far
as they get; `LoadShard` sets `status` to "failed" there.

### `ModelForward` and the code

`Enqueue(r)` is one turn of the loop in `Qwen4ExpModel.forward` on rank `r`'s host: the
prefetch for the next layer is started first, then the layer's own operations are
queued.  `LayerOps` lists them in the code's order.  `Run` is the main stream, `RunSide`
a side stream, `Join` a collective: it runs when it is at the head of every rank's main
stream.  `start_rows` and `start_index` hand a task to a side stream, `wait_rows` and
`wait_index` are the `wait_stream` calls.  `Refuse` is the `RuntimeError` of a prefetch
that was never consumed, `Fail` any other exception in a layer.  A graph does what its capture
did (`HasPending`): a replay runs no Python, so it neither raises nor reads or leaves a
`_prefetch_state`, and one that an eager forward left behind stays for the next eager
forward to refuse.  What is read is checked
by its owner: the buffer's forward and layer against the reader's (`seen`).  `Plan` says
which layers have n-gram rows and which select sparsely.

### `Deployment` and the code

`at[p]` is where script `p` is and `local[p]` what it holds in its variables; a
failed check ends it, as `set -e` does.  The places are those between two effects
or between a read and its use: `StatWeights` and `WriteWeightsReceipt` are the
two ends of `checkpoint.py snapshot --full`, `CopyOverlay`, `ReplaceOverlay` and
`WriteRuntimeReceipt` are `prepare`, `ReplaceTable` and `WriteSidecar` the end of the
builder, `CheckOwner` and `StopContainer` two lines of `stop.sh`.  `Kill` ends a
script anywhere and also stands for the checks that are not modelled (image,
memory, port, the builder's input hashes).  It ends the builder too, though `install.sh:36-42`
runs that in a container of the Docker daemon, which may outlive a killed install and still
move its table into place (`build_hashk_ple.py:212`).  That is part of what `Alone` assumes,
that a build is waited for; besides, an install beside a builder that holds its memory fails
`require_memory 105` (`install.sh:15`).  Files are their versions and hashes are
compared by comparing versions.  `Alone` is an assumption about the operator: an
install or a boot is waited for before the next install and before files are
edited or moved ("After changing runtime inputs, rerun `install.sh`").  Weights may
be replaced at any moment.  Two launches may be under way together, and a stop beside
either; `MaxAtOnce` bounds how many scripts are.

## Runs

| Run | Instance | Asks |
| --- | --- | --- |
| `qsa_sharing` | 2 usable request slots, 2 pages of 2 tokens, ratio 2, ring window 4, 2 drafts | are ring, shared pages and tree consistent, does the whole implement `IndexCache`, is the proofs' invariant an invariant |
| `qsa_pages` | 1 usable slot, 2 pages of 4 tokens (2 groups each), streams that part inside a page | do writer and readers address one slot, is what the tree hands out complete, does every chunk start on a group |
| `qsa_stock_verify` | ring as wide as the ratio (4), 4 drafts: the flags of `launch.sh` | is it enough for verification (it is not: Finding 1) |
| `qsa_batch` | all batches of up to 3 requests, prefixes up to 4, up to 3 new tokens each, one padded token, ratio 2, pages of 4 | does the compacted plan name every completed group once, with its own members; are row ranges causal; do eager plan and graph refresh agree |
| `qsa_padding_rows` | 2 requests, stride 4, draft-extend with fewer rows than captured | do the pending keys survive the rows behind the real ones (they do not: Finding 2) |
| `qsa_replay` | 2 requests in batches of 2 entries, windows of 2, one padded request, verify and draft-extend, 2 replays ahead | does a replay read its own lengths, do rows follow the batch that was launched, do captured layout and eager mapping agree row by row, with extend lengths and without |
| `mtp_shared` | 2 slots, windows of 3, 2 draft steps, 1 front row, 1 padded request, 7 tokens | is each iteration seeded by its own last accepted row, does every draft see every position |
| `ple_state` | 2 request rows (row 0 among them), 5 state slots, servers without MTP and with windows of 2, interval 2, 2 tokens of context, kernel of 2 taps | is each part of the state its own tail through decode, verify, padding, tracking and reuse; does the track slot keep the boundary |
| `load_weights` | 9 servers (device, pinned, packed, compressed, no tables; bf16 and fp8; stages, tied, fused), 2 layers, 1 or 2 ranks (packed tables on 1), 4 shards, trigrams, 4 heads of prime sizes, words of 12 bits | is every parameter whole and from its own tensors in every order, and so its fp8 copy; does a token get the rows of its own n-gram, or slots they went into |
| `model_forward` | 6 servers of 1 and 2 ranks, 3 layers, 2 or 3 forwards, a host one forward ahead, one failure | do layers read what was gathered and selected for them, do ranks meet, is every forward worked off |
| `deployment` | 1 install, 2 launches, 1 stop, 2 at once, 2 versions of patches, builder and weights, 2 polls | does a server boot from files that were installed together, are accepted weights good, is a table or its sidecar never overwritten, is only an own container stopped, does every script end |
| `deployment_two_stops` | 2 stops | does that hold of two stops at once (it does not: Finding 3) |

Bounds.  Two requests are enough for every pairwise mix-up (the invariants
relate at most two requests); two pages with a request that needs both make
sharing, eviction and reuse of a page by another prefix all happen; streams
that part inside a page, at its end, or not at all give hits, partial hits and
misses.  Three rows in `qsa_batch` give an empty row between two others; a
chunk of up to three tokens at ratio 2 ends before, at and behind a group.  In
`mtp_shared` a window of three with one to three kept tokens separates first,
last accepted and last row; in `ple_state` five slots are two working, two
track and one in the tree, so slots are reused at once.  In `qsa_replay` two replays
ahead use both halves while a third is staged.  In `load_weights` four shards and two
ranks cut the tables at different rows, padding behind the last head included; sizes
from three up leave heads with one slot and with several; twelve bits make words wrap.
In `model_forward` a first PLE layer is never fetched ahead and a last one is; three
forwards after a failure see its leftovers refused and overwritten.  The theorems below do
without the bounds.

In `deployment` one install is enough for what is asked of kills and edits,
since an install, once over, runs again on what it left; two launches pass their
checks together; two versions let a checkout move on and go back.

Deadlock checking is on except where the system stops: a batch's metadata is built
(`qsa_batch`), a load ends in a loaded or a failed server (`load_weights`), the
forwards of the bound are done (`model_forward`).  Everywhere else a request can
always leave, a queue be drained or a script be started.

Fairness is assumed in two modules.  In `Deployment` it is weak and only of a script's
own steps: the operating system goes on running a process until it is killed.  The
server need not boot, nobody need start a script, and `ScriptsEnd` holds all the same
because the polls are counted.  In `ModelForward` it is weak fairness of hosts, streams
and collectives taken together: while any of them can go on, one does.  Every forward
has finitely many of their steps, so no part needs fairness of its own; a forward
need not begin and nothing need fail.  `ForwardsComplete` therefore says that streams,
events and collectives never wait in a circle.  Elsewhere no liveness is claimed: what
must eventually happen (a request is scheduled, a queued copy runs) is decided by
SGLang and the driver.

## Proofs

Every theorem is for all values of the constants within the named assumptions.  What TLC
asks of small instances and what is proved are the same definitions.  Of the invariants and
action properties that the passing runs check, all are proved; liveness is not (see the end
of this section).

Two things are common to the proofs.  Functions defined by recursion (running totals) are
reasoned about through `SumsOf`: they exist (`SumsExist`), grow (`SumsGrow`) and every index
lies between two neighbours (`SumsBounded`, `HolderFacts`).  Induction over numbers is done
on sets: `InductiveSet` says that a set with 0 and with every successor has every number, so
that no operator is passed to a theorem.

A module's type theorem is about the variables that its `TypeOK` lists.  Left out are those
whose content other invariants give: the queues, buffers and forwards of `ModelForward`
(`Shapes` in its proofs types them), the intermediates of `PleState` but for their domain
(`StepsAreTails`), and in `Deployment` the container (`BootsFromOneInstall`) and the names of
a script's places.

### Index cache (`QsaCacheProofs`)

`IInv` is inductive; `ReadersSeeOwnGroups` alone is not, for three reasons that
are its other conjuncts: a step that completes a group needs the ring to hold
the pending members (`PendingRing`); a step that admits a request needs every
page of the tree complete (`TreeServesGroups`); and no write may reach a page
that another request or the tree reads, which is the page discipline
(`RequestShape`, `PagesCover`, `SharingIsCached`, `CachedPagesMatch`,
`TreeClosed`).

* The page discipline is preserved by every action for every value of the
  constants (`PageDiscipline`), with no assumption on the ring.  From it:
  `TypeCorrect`, `SharedPagesAreCommitted`, `OneAddress`, `AlignedChunks`.
* The contents need room in the ring, `RingFits`: a pending group that lacks
  its last member plus the rows of one verify window must not wrap onto each
  other.  Under it `Contents` proves `[]IInv`, and `GroupIntegrity`,
  `RingIntegrity`, `TreeIntegrity` follow.
* `WidenedRingFits` discharges `RingFits` for every widened ring and every
  window `_require_chain_speculation` lets through, and for windows of at most
  one row; `StockRingCollides` shows the stock ring has two positions, one
  pending and one in the window, in one slot.
* `KeepsThePromise` is the refinement, also under `RingFits`: each action of `QsaCache`
  is `Open`, `Store`, `Settle` or `Close` of one request in `IndexCache`, or a stutter, under
  the mapping that reads the groups of a request through its page table.

### Forwards (`QsaForwardProofs`)

* Staging.  A replay reads its own lengths for every set of lengths
  (`ReplaysSeeTheirOwnLengths`).  The property alone is not inductive: `Undisturbed` adds
  that the halves of queued replays differ and that the newest staged replay used the half
  whose turn is over, so the next write cannot meet a queued copy.
* Composition.  Every step of `QsaReplay` is a step of the staging protocol or leaves it
  alone (`ReplaysImplementStaging`), so the theorem on lengths carries over for every number
  of requests, batch size and window.
* Rows.  `RowsFollowTheBatch` is about the last forward; its strengthening `ReplayInv` says
  of every queued replay that its batch has distinct live requests whose lengths fit the
  captured rows (`Queued`), and of the last forward that its rows are laid out from its
  *own* batch (`ForwardIsItsBatch`), which holds because the replay read its own lengths.
  `EagerMirrorsGraph` then compares functions of one batch row by row.  By extend lengths
  both mappings are running totals; that even shares of a verify batch end where its windows
  end is `SharesAreWindows`, from `Windows`: real entries, which come first, have a full
  window each.
* Write plan.  `PlanInv` only says that a built plan is `Plan(batch)`; the rest is about
  operators.  `Place` (an entry from a row and a block) and `Entry` (a row and a block from
  an entry) are inverse to each other, which gives "each completed group once" and the
  cardinality.  That the capacity, computed without looking at the lengths, suffices
  (`CapacitySuffices`) needs chunks that begin on a group: a chunk of n tokens then has at
  most n \div ratio groups, and the totals follow by induction over the rows.  A row's range
  of packed keys is the window of its own sequence's groups, cut at its position.

### MTP shared selection (`MtpSharedProofs`)

`SharedInv` adds to `SeedIsCurrent` and `DraftSeesEveryPosition` where the running
iteration stands (`IterationFits`): its requests are ready, behind their front rows, and
have room for a window.  The step that matters is `DraftExtend`: the anchor row
of every entry, computed from running totals, is a row of that entry and its last accepted
one, for every order and padding of the batch.

### PLE state (`PleStateProofs`)

`PleInv` is `TypeOK`, `Slots` and `Tails`.  `Slots` says whose a slot is: working slots,
track slots and slots of the tree are apart (`Apart`), a recorded boundary is within the
request's text (`Counted`), and a verdict is awaited only by live requests that decode and
that the forward has rows of (`Awaited`).  `Tails` is the conjunction of the four properties
that the run checks; none is inductive without the others, since the tree is filled from
snapshots, a request admitted from the tree, and a verdict applied from the intermediates.
`GrowthKeeps` is the lemma on a forward: what it leaves in each slot is the tail of the
grown text, for any order of the batch, with padded rows sent to the dummy slot.

### Weights (`LoadWeightsProofs`)

`LoadInv` says that what is filled is the union of what the tensors that came contribute
(`Arrived`), and that an fp8 copy is of its parameter (`Copied`).  `Contributed` is a
function of the tensor alone, which is why the order cannot matter; `ParametersAreWhole`
follows when none is left.  The compressed table: for any hash, vocabulary and number of
heads the runtime gathers an id from the very slots the builder put the row in and fitted
its projection at (`RowsAreGatheredWhereTheyWerePut`), and a slot stays in the sub-table of
its head even for negative words (`SlotsStayInTheirHead`).

`LookupInv` is for the lookups.  `Tabled`: in whatever order the shards come, a table holds
the rows of those that came (`TableAt`), and a table that changes its type does so at its
first shard, so no row is lost; `ShardsAreCopied` is the lemma on a shard that straddles two
ranks.  `Built`: an artifact was made of shards that the builder accepts, and those it counts
as they are (`DeliveredAreRows`).  `Cached`: the windows that are kept are those of the batch.
From these, `OneRankHasIt` (plain tables, any number of ranks), `PackedRowsAtTheirId` (one rank)
and `PackedIsClosest` give `LookupsGiveOwnRows`, `SlotsAreOfOneHead`
gives `SlotsAreOfTheToken`, and `LoadTypeCorrect` is `TypeOK`.  A token's n-gram is the same
from the windows as from the padded row it stands in (`WindowsGiveOwnColumn`).  Hypotheses are
three facts on folds and searches that TLC evaluates on the instance (`TableFacts`):
`HeadsFollow`, the head sizes are positive and the offsets their running sums, alike in the
builder and the model file; `HashesAreWords`, hashes are integers; `RowsArePairs`, rows are of
an even number of integers.

### Model forward (`ModelForwardProofs`)

Both invariants rest on one order: the operations of a forward in program order, forward
after forward (`Before`).  The queue of a stream is sorted by it, and what is before the head
has happened.  `ReadInv` says which contents a buffer has at each point of that order, so a
task overwrites a buffer only when its last readers are behind.  `MeetInv` says that a
collective queued on one rank is queued on every other rank or has still to be enqueued there
(`Met`, with `KeptAhead` and `OnlyThese` on hosts at different layers), so two ranks at their
heads cannot wait for different ones.  `RanksWaitTogether` has
the hypothesis `FaultsAreAlone`: forwards fail on servers of one rank only, as in the run.
With more ranks, the peers of a rank that raised wait in a collective until the process group
is torn down, and the code promises nothing else.  `LayersReadTheirOwn` does not need it.

### Deployment (`DeploymentProofs`)

`Sound` has one part per thing that a script knows.  `Vouched`: a stamp that a script holds
is not newer than the files, and if it is still theirs after the hash, the files are good (a
replacement gives a new stamp).  `Installed`: what `prepare` and the builder have read is
still so when they write, since only one install is under way (`Apart`, from `Alone`), and
whoever is about to move a table into place finds its name free.  `Launched`: what a launch
has checked is still so at `docker run` and until the server has booted.  From it follow
`VouchedWeightsAreGood`, `TablesAreKept` (tables and sidecars, one install at a time) and
`BootsFitTogether` for any number of scripts, kills, edits and polls.
`OneStopHitsItsOwn` has the hypothesis `OneStopper`, at most one stop script; without it the
property is Finding 3.

### Assumed, and left to TLC

| Assumption | What it is |
| --- | --- |
| `QsaAssumption` | the pool constructor's own checks on ratio, page and ring |
| `RatioAssumption`, `BatchAssumption` | the ratio is positive, a page is a multiple of it |
| `AheadAssumption` | the device is at most two replays behind: SGLang's scheduling |
| `LengthsAssumption` | a batch's lengths are among the lengths staged |
| `LayoutAssumption` | positive sizes; the ring stride a multiple of the ratio; a context of at least one group |
| `MtpAssumption` | the tail is at least as wide as the draft steps, what the docstring of `lookup` says of the gap it covers (`qwen_sparse_attn_backend.py:225`); the caller that chooses it is not in the repository |
| `PleAssumption` | request slots are numbers, 0 among them, and finitely many; dummy and missing slots are no slots |
| `PleTableAssumption`, `LoadAssumption` | ranges of constants; a server is one of the stages of a pipeline of two, or both, of one or more ranks, packed tables on one; batches are of tokens |
| `ForwardAssumption` | finitely many ranks, at least one; at least one layer |
| `DeploymentAssumption` | ranges of constants |

Left to TLC:

* liveness (`ScriptsEnd`, `ForwardsComplete`): the prover has no rules for fairness;
* `HeadsFollow`, `HashesAreWords` and `RowsArePairs`, hypotheses of the theorems on lookups:
  head sizes are found by a search for primes (that there is one up to 2n + 3 is Bertrand's
  postulate), offsets are the library's fold over a set, and hashes fold a `BitXor` of which
  nothing is assumed;
* `PendingKeysSurvive` of `QsaGraphLayout`, which is violated (Finding 2), as are the
  properties of the other two runs that end in a violation.

## Findings

1. **The stock ring does not hold a verify window of `ratio` rows.**
   `qwen_sparse_attn_backend.py:321-322` says "Stock ring (stride == ratio)
   holds one full group: drafts up to the ratio are safe (upstream behaviour)",
   and `launch.sh:58-59` serves with 4 draft tokens, ratio 4 and no
   `SGLANG_QSA_RING_WINDOW`.  In `qsa_stock_verify` a request with one committed
   token verifies rows 1..4; row 4 stores over position 0's key; the verdict
   keeps row 1 only, so position 0 is still pending and its key is a rejected
   draft's.  The run looks at states between forwards, so it does not depend on
   whether the indexer (not in the repository) pools before or after a given row.

2. **Rows behind the real ones store into a live request's ring.**
   `qwen_sparse_attn_backend.py:505-507` gives the rows that fill a replay up to
   its captured shape "safe length/request metadata": length 1 and the batch's
   first request.  Their ring slot is then that of position 0 of that request,
   and `qsa_padding_rows` shows such a row replacing a pending key.  The branch
   serves draft-extend replays with fewer rows than captured and verify replays with
   padded requests; with `Modes = {"verify"}` and `MaxPadding = 1` TLC finds the
   same, and with `Modes = {"verify"}` and `MaxPadding = 0` nothing.  Shown of the host
   refresh.  By `EagerMirrorsGraph` the eager mapping treats the tail of a forward that
   carries extend lengths alike; a verify without them sends padded rows to their own
   padded entry, request slot 0.  The GPU refresh kernel is not in the repository.

3. **`stop.sh` may stop a container of another checkout.**  README.md:96-97 says it
   "removes only the container owned by this checkout", and so does `stop.sh:2`.
   It reads the owner of the container of that name (`stop.sh:11`), then stops and
   removes whatever has the name.  In `deployment_two_stops` two of them pass the
   check, the first removes the container, another checkout starts one of the same
   name, and the second stops it.  One stop at a time does not (`deployment`).

## Not modelled

* Values of keys, scores, top-k, attention, the fit of the compressed table's
  projections and the error of fp8 copies: numerics.
* `sparse_attn.py` and `flash_fwd.py`: kernels without state between launches.
* `launch_graph_metadata`, the GPU replay kernel: not in the repository.
* Forwards rewritten for DP attention (`launch.sh` serves without it).  Whether such a
  forward, which is not captured for the shared selection, ever carries live requests is
  decided by SGLang's scheduler.
* The text edits of `patch/*.py` and the generators: straight lines over one string that
  end at the first missing anchor; what they insert is modelled where it ends up.
* Two installs at once: nothing in the scripts forbids them, nothing in the repository
  promises anything of them, and `Alone` excludes them; the tables of two are not kept.
* Image pull, Docker, memory and port checks: each ends a script, as `Kill` does.
* The API probe and benchmark, which keep no state.

## Plan

Order: what the answers of the service depend on first.  Done: the index cache with its
proofs and refinement, batch metadata, graph layout, staging and their composition with
proofs, shared selection with proofs, PLE state with the short convolution and proofs, hashing
and the compressed table, weight loading and lookups with their proofs, the model's
forward with proofs, the deployment scripts with proofs.

| Next | What | Composition, abstraction | Runs and bounds | Theorems |
| --- | --- | --- | --- | --- |
| 1 | `PleState` | a promise "each request's state is the tail of its text" for it to implement | `ple_state` | every step is a step of the promise or a stutter, from `PleInv` |
| 2 | `Deployment` | abstract: versions installed and booted, no files | `deployment` | from `Sound` |
