------------------------------ MODULE Deployment ------------------------------
(***************************************************************************)
(* install.sh, launch.sh and stop.sh as processes over what they keep on   *)
(* disk (the receipts under .state, the generated overlay, the HashK table *)
(* with its sidecar) and over the one container name, while the operator   *)
(* edits sources, replaces weights and moves a table aside, scripts are    *)
(* killed at any step and another checkout uses the same name.             *)
(*                                                                         *)
(* Translated from src/install.sh, src/launch.sh, src/stop.sh,             *)
(* src/tools/checkpoint.py, src/tools/prepare_runtime.py and the last part *)
(* of src/tools/build_hashk_ple.py.  Files are named by their versions: an *)
(* overlay by the patches it was generated from, a table by its content.   *)
(***************************************************************************)
EXTENDS Integers, FiniteSets

CONSTANTS
    Installers, Launchers, Stoppers,  \* the invocations that may run at once
    Idle,          \* the place of a script that does not run
    Content,       \* what a build may yield; two builds need not agree
    MaxEdits,      \* bound: versions of a file, less one
    MaxAtOnce,     \* bound: scripts under way at once
    MaxPolls       \* health polls of a launch (120 in the code)

Steps ==
    {"stat", "hash", "verified", "copy", "overlay", "runtime", "table", "build", "replace",
     "sidecar", "checkTable", "checkWeights", "checkRuntime", "checkName", "run", "record",
     "poll", "find", "owner", "stop", "remove"}

ASSUME DeploymentAssumption ==
    /\ Idle \notin Steps
    /\ MaxEdits \in Nat
    /\ MaxAtOnce \in Nat \ {0}
    /\ MaxPolls \in Nat \ {0}

VARIABLES
    at,             \* at[p]: the next step of script p
    local,          \* local[p]: its mode, what it has read, its polls
    inputs,         \* versions of the tracked sources: patches, builder
    weights,        \* stamp: what stat shows; good: as pinned
    weightsReceipt, \* .state/checkpoint.json: the stamp verified, 0 for none
    overlay,        \* .state/qwen4_exp.py: its patches version, 0 for none
    runtime,        \* .state/runtime.json: inputs and overlay, or Nothing
    table,          \* ple_hashk_R4.pt: builder and content, or Nothing
    sidecar,        \* its .json: builder and content, or Nothing
    container       \* the container of that name, or Nothing

files == <<weightsReceipt, overlay, runtime, table, sidecar>>
world == <<inputs, weights>>
vars == <<at, local, inputs, weights, weightsReceipt, overlay, runtime, table, sidecar, container>>

Script == Installers \cup Launchers \cup Stoppers
Version == 1 .. MaxEdits + 1
Nothing == [none |-> TRUE]

Fresh == [mode |-> 0, seen |-> 0, built |-> Nothing, polls |-> 0]

Running(ps) == {p \in ps : at[p] # Idle}

\* What a container was started with matters until it has booted.
Booted(owner) == [owner |-> owner, running |-> TRUE, booted |-> TRUE]
Stopped(c) == [owner |-> c.owner, running |-> FALSE, booted |-> FALSE]

Own == container # Nothing /\ container.owner = "self"
Booting == Own /\ container.running /\ ~container.booted

-----------------------------------------------------------------------------
(* Scripts step by step.  A failed check ends the script (set -e).           *)

Go(p, step) == at' = [at EXCEPT ![p] = step]

Forget(p) == local' = [local EXCEPT ![p].seen = 0]

End(p) == Go(p, Idle) /\ local' = [local EXCEPT ![p] = Fresh]

Start(p, step) ==
    /\ at[p] = Idle
    /\ \E mode \in {1, 2} :
        local' = [local EXCEPT ![p] = [Fresh EXCEPT !.mode = IF p \in Stoppers THEN 0 ELSE mode]]
    /\ Go(p, step)
    /\ UNCHANGED <<files, world, container>>

\* Assumed of the operator: an install, a build or a boot is waited for before the
\* next install and before files are touched.  Nothing in the scripts enforces it.
Alone == Running(Installers \cup Launchers) = {} /\ ~Booting

\* tools/checkpoint.py snapshot --full: stat, then hash, then the receipt.
StatWeights(p) ==
    /\ at[p] = "stat"
    /\ local' = [local EXCEPT ![p].seen = weights.stamp]
    /\ Go(p, "hash")
    /\ UNCHANGED <<files, world, container>>

HashWeights(p) ==
    /\ at[p] = "hash"
    /\ IF weights.good THEN Go(p, "verified") /\ UNCHANGED local ELSE End(p)
    /\ UNCHANGED <<files, world, container>>

\* Mutant: the files are looked at again for the receipt.
WriteWeightsReceiptRestat(p) ==
    /\ at[p] = "verified"
    /\ weightsReceipt' = weights.stamp
    /\ Go(p, "copy") /\ Forget(p)
    /\ UNCHANGED <<overlay, runtime, table, sidecar, world, container>>

WriteWeightsReceipt(p) ==
    /\ at[p] = "verified"
    /\ weightsReceipt' = local[p].seen
    /\ Go(p, "copy") /\ Forget(p)
    /\ UNCHANGED <<overlay, runtime, table, sidecar, world, container>>

\* prepare_runtime.py: the overlay is patched aside, then moved into place.
CopyOverlay(p) ==
    /\ at[p] = "copy"
    /\ local' = [local EXCEPT ![p].seen = inputs.patches]
    /\ Go(p, "overlay")
    /\ UNCHANGED <<files, world, container>>

ReplaceOverlay(p) ==
    /\ at[p] = "overlay"
    /\ overlay' = local[p].seen
    /\ Go(p, "runtime") /\ Forget(p)
    /\ UNCHANGED <<weightsReceipt, runtime, table, sidecar, world, container>>

\* The inputs and the overlay are hashed as they are by now.
WriteRuntimeReceipt(p) ==
    /\ at[p] = "runtime"
    /\ runtime' = [inputs |-> inputs, overlay |-> overlay]
    /\ Go(p, "table")
    /\ UNCHANGED <<local, weightsReceipt, overlay, table, sidecar, world, container>>

\* verify_artifact: the sidecar names this checkout's builder and the content.
TableAccepted ==
    /\ table # Nothing /\ sidecar # Nothing
    /\ sidecar.builder = inputs.builder
    /\ sidecar.content = table.content

\* Mutant: a table without its sidecar counts as none.
NoWholeTable == table = Nothing \/ sidecar = Nothing

NoTable == table = Nothing /\ sidecar = Nothing

\* With PLE off there is nothing to do; what exists is verified, never replaced.
DecideTable(p) ==
    /\ at[p] = "table"
    /\ IF local[p].mode = 1 /\ NoTable THEN Go(p, "build") /\ UNCHANGED local ELSE End(p)
    /\ UNCHANGED <<files, world, container>>

\* The builder looks again, takes its provenance, and builds for a long time.
Build(p) ==
    /\ at[p] = "build"
    /\ IF NoTable
       THEN /\ \E c \in Content :
                local' = [local EXCEPT ![p].built = [builder |-> inputs.builder, content |-> c]]
            /\ Go(p, "replace")
       ELSE End(p)
    /\ UNCHANGED <<files, world, container>>

ReplaceTable(p) ==
    /\ at[p] = "replace"
    /\ table' = local[p].built
    /\ Go(p, "sidecar")
    /\ UNCHANGED <<local, weightsReceipt, overlay, runtime, sidecar, world, container>>

\* The sidecar holds the hash taken before the table was moved into place; the
\* verification behind it changes nothing.
WriteSidecar(p) ==
    /\ at[p] = "sidecar"
    /\ sidecar' = local[p].built
    /\ End(p)
    /\ UNCHANGED <<weightsReceipt, overlay, runtime, table, world, container>>

InstallStep(p) ==
    \/ StatWeights(p) \/ HashWeights(p) \/ WriteWeightsReceipt(p)
    \/ CopyOverlay(p) \/ ReplaceOverlay(p) \/ WriteRuntimeReceipt(p)
    \/ DecideTable(p) \/ Build(p) \/ ReplaceTable(p) \/ WriteSidecar(p)

-----------------------------------------------------------------------------
(* launch.sh *)

\* A check that lets the launch go on, or ends it.
Check(p, here, next, ok) ==
    /\ at[p] = here
    /\ IF ok THEN Go(p, next) /\ UNCHANGED local ELSE End(p)
    /\ UNCHANGED <<files, world, container>>

\* Mutant: the overlay's own hash is not compared.
RuntimeAcceptedByInputs == runtime # Nothing /\ runtime.inputs = inputs

\* prepare_runtime.py --check
RuntimeAccepted == runtime # Nothing /\ runtime.inputs = inputs /\ runtime.overlay = overlay

CheckTable(p) == Check(p, "checkTable", "checkWeights", local[p].mode = 2 \/ TableAccepted)
CheckWeights(p) ==
    Check(p, "checkWeights", "checkRuntime", weightsReceipt = weights.stamp)
CheckRuntime(p) == Check(p, "checkRuntime", "checkName", RuntimeAccepted)
CheckName(p) == Check(p, "checkName", "run", container = Nothing)

\* docker run binds the overlay that is there, and fails on a taken name.
DockerRun(p) ==
    /\ at[p] = "run"
    /\ IF container = Nothing
       THEN /\ container' = [owner |-> "self", running |-> TRUE, booted |-> FALSE,
                             mode |-> local[p].mode, overlay |-> overlay]
            /\ Go(p, "record") /\ UNCHANGED local
       ELSE End(p) /\ UNCHANGED container
    /\ UNCHANGED <<files, world>>

\* The launch receipt is written only if the check still passes.
RecordLaunch(p) == Check(p, "record", "poll", RuntimeAccepted)

\* Mutant: one poll too many.
PollOnceMore(p) ==
    /\ at[p] = "poll"
    /\ IF container = Nothing \/ ~container.running \/ container.booted
            \/ local[p].polls = MaxPolls
       THEN End(p)
       ELSE local' = [local EXCEPT ![p].polls = @ + 1] /\ UNCHANGED at
    /\ UNCHANGED <<files, world, container>>

\* Mutant: the polls are not counted.
PollForever(p) ==
    /\ at[p] = "poll"
    /\ IF container = Nothing \/ ~container.running \/ container.booted
       THEN End(p)
       ELSE UNCHANGED <<at, local>>
    /\ UNCHANGED <<files, world, container>>

\* A poll finds the container gone, healthy, or still booting.
Poll(p) ==
    /\ at[p] = "poll"
    /\ IF container = Nothing \/ ~container.running \/ container.booted
            \/ local[p].polls + 1 = MaxPolls
       THEN End(p)
       ELSE local' = [local EXCEPT ![p].polls = @ + 1] /\ UNCHANGED at
    /\ UNCHANGED <<files, world, container>>

LaunchStep(p) ==
    \/ CheckTable(p) \/ CheckWeights(p) \/ CheckRuntime(p) \/ CheckName(p)
    \/ DockerRun(p) \/ RecordLaunch(p) \/ Poll(p)

-----------------------------------------------------------------------------
(* stop.sh *)

FindContainer(p) == Check(p, "find", "owner", container # Nothing)

\* Mutant: the owner is not looked at.
CheckNoOwner(p) == Check(p, "owner", "stop", container # Nothing)

CheckOwner(p) == Check(p, "owner", "stop", Own)

StopContainer(p) ==
    /\ at[p] = "stop"
    /\ IF container = Nothing
       THEN End(p) /\ UNCHANGED container
       ELSE /\ container' = Stopped(container)
            /\ Go(p, "remove") /\ UNCHANGED local
    /\ UNCHANGED <<files, world>>

\* docker rm refuses a running container.
RemoveContainer(p) ==
    /\ at[p] = "remove"
    /\ container' = IF container # Nothing /\ ~container.running THEN Nothing ELSE container
    /\ End(p)
    /\ UNCHANGED <<files, world>>

StopStep(p) ==
    \/ FindContainer(p) \/ CheckOwner(p) \/ StopContainer(p) \/ RemoveContainer(p)

-----------------------------------------------------------------------------
(* The world around the scripts *)

ScriptStep(p) ==
    /\ at[p] # Idle
    /\ \/ p \in Installers /\ InstallStep(p)
       \/ p \in Launchers /\ LaunchStep(p)
       \/ p \in Stoppers /\ StopStep(p)

StartScript(p) ==
    /\ Cardinality(Running(Script)) < MaxAtOnce
    /\ \/ p \in Installers /\ Alone /\ Start(p, "stat")
       \/ p \in Launchers /\ Running(Installers) = {} /\ Start(p, "checkTable")
       \/ p \in Stoppers /\ Start(p, "find")

\* A script is killed, or a step that reads only what is not modelled fails: the
\* image, memory, the port, the builder's input hashes.
Kill(p) ==
    /\ at[p] # Idle
    /\ End(p)
    /\ UNCHANGED <<files, world, container>>

\* The server reads the mounted overlay, patches and table while it boots.
Boot ==
    /\ Booting
    /\ container' = Booted("self")
    /\ UNCHANGED <<at, local, files, world>>

Exit ==
    /\ container # Nothing /\ container.running
    /\ container' = Stopped(container)
    /\ UNCHANGED <<at, local, files, world>>

\* Another checkout takes the name when it is free.
ForeignRun ==
    /\ container = Nothing
    /\ container' = Booted("other")
    /\ UNCHANGED <<at, local, files, world>>

ForeignRemove ==
    /\ container # Nothing /\ container.owner = "other" /\ ~container.running
    /\ container' = Nothing
    /\ UNCHANGED <<at, local, files, world>>

\* A checkout may go back to an earlier version as well.
Edit ==
    /\ Alone
    /\ \E f \in DOMAIN inputs, v \in Version : inputs' = [inputs EXCEPT ![f] = v]
    /\ UNCHANGED <<at, local, files, weights, container>>

\* Weights may be downloaded anew at any time, beside an install too.
ReplaceWeights ==
    /\ weights.stamp <= MaxEdits
    /\ \E good \in BOOLEAN : weights' = [stamp |-> weights.stamp + 1, good |-> good]
    /\ UNCHANGED <<at, local, files, inputs, container>>

\* The operator moves the table or its sidecar aside.
MoveAside ==
    /\ Alone
    /\ ~NoTable
    /\ table' = Nothing
    /\ sidecar' \in {sidecar, Nothing}
    /\ UNCHANGED <<at, local, weightsReceipt, overlay, runtime, world, container>>

Init ==
    /\ at = [p \in Script |-> Idle]
    /\ local = [p \in Script |-> Fresh]
    /\ inputs = [patches |-> 1, builder |-> 1]
    /\ weights \in [stamp : {1}, good : BOOLEAN]
    /\ weightsReceipt = 0
    /\ overlay = 0
    /\ runtime = Nothing
    /\ table = Nothing
    /\ sidecar = Nothing
    /\ container = Nothing

Next ==
    \/ \E p \in Script : StartScript(p) \/ ScriptStep(p) \/ Kill(p)
    \/ Boot \/ Exit \/ ForeignRun \/ ForeignRemove
    \/ Edit \/ ReplaceWeights \/ MoveAside

Spec == Init /\ [][Next]_vars /\ \A p \in Script : WF_vars(ScriptStep(p))

-----------------------------------------------------------------------------
(* Properties *)

Table == [builder : Version, content : Content]

TypeOK ==
    /\ DOMAIN at = Script /\ DOMAIN local = Script
    /\ \A p \in Script : /\ local[p].mode \in 0 .. 2 /\ local[p].seen \in 0 .. MaxEdits + 1
                         /\ local[p].built \in Table \cup {Nothing}
                         /\ local[p].polls \in 0 .. MaxPolls - 1
    /\ inputs \in [patches : Version, builder : Version]
    /\ weights \in [stamp : Version, good : BOOLEAN]
    /\ {weightsReceipt, overlay} \subseteq 0 .. MaxEdits + 1
    /\ runtime \in [inputs : [patches : Version, builder : Version], overlay : Version] \cup {Nothing}
    /\ {table, sidecar} \subseteq Table \cup {Nothing}

\* Weights that a launch accepts by their stamps were hashed and found good, even
\* if they were replaced while the hash ran.
AcceptedWeightsAreGood == weightsReceipt = weights.stamp => weights.good

\* What a server boots with fits together: the overlay it was started with was
\* generated from the very patches that are mounted beside it, and the table came from
\* this checkout's builder in one piece; whatever was killed or edited before.
BootsFromOneInstall ==
    [][Boot =>
        /\ container.overlay = inputs.patches
        /\ container.mode = 1 =>
            table # Nothing /\ table = sidecar /\ table.builder = inputs.builder]_vars

\* stop.sh touches no container of another checkout, whenever the name changes hands:
\* it reads the owner some steps before it acts on the name.
OnlyOwnIsStopped ==
    [][container # Nothing /\ container.owner = "other" =>
        \A p \in Stoppers : ~((StopContainer(p) \/ RemoveContainer(p)) /\ container' # container)]_vars

\* A table that is there, with or without its sidecar, is never overwritten, and no
\* sidecar is, however often installs are killed and started again, one at a time.
TableIsNotOverwritten ==
    [][/\ table # Nothing => table' \in {table, Nothing}
       /\ sidecar # Nothing => sidecar' \in {sidecar, Nothing}]_vars

\* A script that is under way ends, healthy container or not.
ScriptsEnd == \A p \in Script : at[p] # Idle ~> at[p] = Idle
=============================================================================
