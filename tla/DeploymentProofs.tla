---------------------------- MODULE DeploymentProofs ----------------------------
(***************************************************************************)
(* Receipts and tables survive whatever is killed, edited or replaced:     *)
(* proofs about Deployment, for any number of scripts, edits and polls.    *)
(***************************************************************************)
EXTENDS Deployment, TLAPS

Locals == [mode : 0 .. 2, seen : 0 .. MaxEdits + 1, built : Table \cup {Nothing},
           polls : 0 .. MaxPolls - 1]

Inputs == [patches : Version, builder : Version]

Shape ==
    /\ at \in [Script -> Steps \cup {Idle}]
    /\ local \in [Script -> Locals]
    /\ inputs \in Inputs
    /\ weights \in [stamp : Version, good : BOOLEAN]
    /\ weightsReceipt \in 0 .. MaxEdits + 1
    /\ overlay \in 0 .. MaxEdits + 1
    /\ runtime \in [inputs : Inputs, overlay : Version] \cup {Nothing}
    /\ table \in Table \cup {Nothing}
    /\ sidecar \in Table \cup {Nothing}

Installing == {"stat", "hash", "verified", "copy", "overlay", "runtime", "table", "build",
                   "replace", "sidecar"}
Launching == {"checkTable", "checkWeights", "checkRuntime", "checkName", "run", "record", "poll"}
Stopping == {"find", "owner", "stop", "remove"}

\* Installs run alone: no other install, no launch and no boot is under way.
Apart ==
    /\ \A p \in Script : /\ at[p] \in Installing => p \in Installers
                         /\ at[p] \in Launching => p \in Launchers
    /\ \A p, q \in Script : at[p] \in Installing =>
        /\ at[q] \in Installing => p = q
        /\ at[q] \notin Launching
        /\ ~Booting

\* Weights hashed while they were replaced are not the ones whose stamp was taken.
Vouched ==
    /\ weightsReceipt <= weights.stamp
    /\ weightsReceipt = weights.stamp => weights.good
    /\ \A p \in Script :
        /\ at[p] \in {"hash", "verified"} => local[p].seen <= weights.stamp
        /\ at[p] = "verified" /\ local[p].seen = weights.stamp => weights.good

\* What an install has read is still so; an overlay and the patches in its receipt
\* belong together, and so do a table and its sidecar once both are there.
Installed ==
    /\ runtime # Nothing => runtime.overlay = runtime.inputs.patches
    /\ table # Nothing /\ sidecar # Nothing => table = sidecar
    /\ \A p \in Script :
        /\ at[p] = "overlay" => local[p].seen = inputs.patches
        /\ at[p] = "runtime" => overlay = inputs.patches
        /\ at[p] = "replace" => NoTable
        /\ at[p] = "sidecar" => sidecar = Nothing /\ table = local[p].built

\* What a launch has checked is still so when it runs the server, and when that boots.
Launched ==
    /\ \A p \in Script :
        /\ at[p] \in {"checkWeights", "checkRuntime", "checkName", "run"} /\ local[p].mode = 1 =>
            TableAccepted
        /\ at[p] \in {"checkName", "run"} => overlay = inputs.patches
    /\ Booting => /\ container.overlay = inputs.patches
                  /\ container.mode = 1 => TableAccepted

Sound == Shape /\ Apart /\ Vouched /\ Installed /\ Launched

-----------------------------------------------------------------------------
\* A fresh checkout has no receipt and no script under way.
LEMMA InitSound == Init => Sound
<1> SUFFICES ASSUME Init PROVE Sound
    OBVIOUS
<1> USE DeploymentAssumption DEF Init
<1>1. Shape
    BY DEF Shape, Locals, Inputs, Fresh, Version
<1>2. Apart
    BY DEF Apart, Installing, Launching, Steps, Script
<1>3. Vouched
    BY DEF Vouched, Steps
<1>4. Installed
    BY DEF Installed, Steps
<1>5. Launched
    BY DEF Launched, Steps, Booting, Own
<1> QED BY <1>1, <1>2, <1>3, <1>4, <1>5 DEF Sound

\* Every script keeps its shape, whichever step it takes.
LEMMA ShapeStep == ASSUME Sound, Next PROVE Shape'
<1> USE DeploymentAssumption DEF Sound, Shape, Locals, Inputs, Fresh, Go, End, Check, files, world, Steps, Version
<1>1. ASSUME NEW p \in Script, StartScript(p) PROVE Shape'
    BY <1>1, SMTT(40) DEF StartScript, Start
<1>2. ASSUME NEW p \in Installers, InstallStep(p) PROVE Shape'
    <2> USE <1>2 DEF Script, Forget
    <2>1. CASE StatWeights(p) BY <2>1 DEF StatWeights
    <2>2. CASE HashWeights(p) BY <2>2 DEF HashWeights
    <2>3. CASE WriteWeightsReceipt(p) BY <2>3 DEF WriteWeightsReceipt
    <2>4. CASE CopyOverlay(p) BY <2>4 DEF CopyOverlay
    <2>5. CASE ReplaceOverlay(p) BY <2>5 DEF ReplaceOverlay
    <2>6. CASE WriteRuntimeReceipt(p) BY <2>6 DEF WriteRuntimeReceipt, Installed
    <2>7. CASE DecideTable(p) BY <2>7 DEF DecideTable
    <2>8. CASE Build(p) BY <2>8 DEF Build, Table
    <2>9. CASE ReplaceTable(p) BY <2>9 DEF ReplaceTable
    <2>10. CASE WriteSidecar(p) BY <2>10 DEF WriteSidecar
    <2> QED BY <2>1, <2>2, <2>3, <2>4, <2>5, <2>6, <2>7, <2>8, <2>9, <2>10 DEF InstallStep
<1>3. ASSUME NEW p \in Launchers, LaunchStep(p) PROVE Shape'
    <2> USE <1>3 DEF Script
    <2>1. CASE CheckTable(p) \/ CheckWeights(p) \/ CheckRuntime(p) \/ CheckName(p) \/ RecordLaunch(p)
        BY <2>1 DEF CheckTable, CheckWeights, CheckRuntime, CheckName, RecordLaunch
    <2>2. CASE DockerRun(p) BY <2>2 DEF DockerRun
    <2>3. CASE Poll(p) BY <2>3 DEF Poll
    <2> QED BY <2>1, <2>2, <2>3 DEF LaunchStep
<1>4. ASSUME NEW p \in Stoppers, StopStep(p) PROVE Shape'
    BY <1>4 DEF Script, StopStep, FindContainer, CheckOwner, StopContainer, RemoveContainer
<1>5. ASSUME NEW p \in Script, Kill(p) PROVE Shape'
    BY <1>5 DEF Kill
<1>6. CASE Boot \/ Exit \/ ForeignRun \/ ForeignRemove
    BY <1>6 DEF Boot, Exit, ForeignRun, ForeignRemove
<1>7. CASE Edit
    BY <1>7 DEF Edit
<1>8. CASE ReplaceWeights
    BY <1>8 DEF ReplaceWeights
<1>9. CASE MoveAside
    BY <1>9 DEF MoveAside
<1> QED
    BY <1>1, <1>2, <1>3, <1>4, <1>5, <1>6, <1>7, <1>8, <1>9 DEF Next, ScriptStep

\* A receipt never vouches for weights that were not hashed: replacing them moves
\* their stamp past every receipt and every stamp that an install holds.
LEMMA VouchedStep == ASSUME Sound, Next PROVE Vouched'
<1> USE DeploymentAssumption DEF Sound, Shape, Locals, Vouched, Fresh, Go, End, Check, files, world, Steps, Version
<1>1. ASSUME NEW p \in Script, StartScript(p) PROVE Vouched'
    BY <1>1 DEF StartScript, Start
<1>2. ASSUME NEW p \in Installers, InstallStep(p) PROVE Vouched'
    <2> USE <1>2 DEF Script, Forget
    <2>1. CASE StatWeights(p) BY <2>1 DEF StatWeights
    <2>2. CASE HashWeights(p) BY <2>2 DEF HashWeights
    <2>3. CASE WriteWeightsReceipt(p) BY <2>3 DEF WriteWeightsReceipt
    <2>4. CASE CopyOverlay(p) BY <2>4 DEF CopyOverlay
    <2>5. CASE ReplaceOverlay(p) BY <2>5 DEF ReplaceOverlay
    <2>6. CASE WriteRuntimeReceipt(p) BY <2>6 DEF WriteRuntimeReceipt
    <2>7. CASE DecideTable(p) BY <2>7 DEF DecideTable
    <2>8. CASE Build(p) BY <2>8 DEF Build
    <2>9. CASE ReplaceTable(p) BY <2>9 DEF ReplaceTable
    <2>10. CASE WriteSidecar(p) BY <2>10 DEF WriteSidecar
    <2> QED BY <2>1, <2>2, <2>3, <2>4, <2>5, <2>6, <2>7, <2>8, <2>9, <2>10 DEF InstallStep
<1>3. ASSUME NEW p \in Launchers, LaunchStep(p) PROVE Vouched'
    <2> USE <1>3 DEF Script
    <2>1. CASE CheckTable(p) \/ CheckWeights(p) \/ CheckRuntime(p) \/ CheckName(p) \/ RecordLaunch(p)
        BY <2>1 DEF CheckTable, CheckWeights, CheckRuntime, CheckName, RecordLaunch
    <2>2. CASE DockerRun(p) BY <2>2 DEF DockerRun
    <2>3. CASE Poll(p) BY <2>3 DEF Poll
    <2> QED BY <2>1, <2>2, <2>3 DEF LaunchStep
<1>4. ASSUME NEW p \in Stoppers, StopStep(p) PROVE Vouched'
    BY <1>4 DEF Script, StopStep, FindContainer, CheckOwner, StopContainer, RemoveContainer
<1>5. ASSUME NEW p \in Script, Kill(p) PROVE Vouched'
    BY <1>5 DEF Kill
<1>6. CASE Boot \/ Exit \/ ForeignRun \/ ForeignRemove
    BY <1>6 DEF Boot, Exit, ForeignRun, ForeignRemove
<1>7. CASE Edit
    BY <1>7 DEF Edit
<1>8. CASE ReplaceWeights
    BY <1>8 DEF ReplaceWeights
<1>9. CASE MoveAside
    BY <1>9 DEF MoveAside
<1> QED
    BY <1>1, <1>2, <1>3, <1>4, <1>5, <1>6, <1>7, <1>8, <1>9 DEF Next, ScriptStep

-----------------------------------------------------------------------------
(* Where a step of each kind leads *)

\* The next step of one script changes, the other scripts keep theirs.
Moves(p, step) == \A q \in Script : at'[q] = IF q = p THEN step ELSE at[q]

\* What the other scripts hold stays.
OthersHold(p) == \A q \in Script \ {p} : at'[q] = at[q] /\ local'[q] = local[q]

LEMMA StartMoves ==
    ASSUME Shape, NEW p \in Script, NEW step, Start(p, step)
    PROVE  /\ Moves(p, step) /\ OthersHold(p)
           /\ UNCHANGED <<weightsReceipt, overlay, runtime, table, sidecar, inputs, container>>
BY DEF Shape, Start, Go, Moves, OthersHold, files, world

LEMMA InstallMoves ==
    ASSUME Shape, NEW p \in Installers, InstallStep(p)
    PROVE  /\ p \in Script /\ at[p] \in Installing /\ OthersHold(p)
           /\ \E step \in Installing \cup {Idle} : Moves(p, step)
           /\ UNCHANGED <<inputs, container>>
<1> USE DEF Shape, Script, Go, End, Moves, OthersHold, files, world, Installing, Forget
<1>1. CASE StatWeights(p) BY <1>1 DEF StatWeights
<1>2. CASE HashWeights(p) BY <1>2 DEF HashWeights
<1>3. CASE WriteWeightsReceipt(p) BY <1>3 DEF WriteWeightsReceipt
<1>4. CASE CopyOverlay(p) BY <1>4 DEF CopyOverlay
<1>5. CASE ReplaceOverlay(p) BY <1>5 DEF ReplaceOverlay
<1>6. CASE WriteRuntimeReceipt(p) BY <1>6 DEF WriteRuntimeReceipt
<1>7. CASE DecideTable(p) BY <1>7 DEF DecideTable
<1>8. CASE Build(p) BY <1>8 DEF Build
<1>9. CASE ReplaceTable(p) BY <1>9 DEF ReplaceTable
<1>10. CASE WriteSidecar(p) BY <1>10 DEF WriteSidecar
<1> QED BY <1>1, <1>2, <1>3, <1>4, <1>5, <1>6, <1>7, <1>8, <1>9, <1>10 DEF InstallStep

LEMMA LaunchMoves ==
    ASSUME Shape, NEW p \in Launchers, LaunchStep(p)
    PROVE  /\ p \in Script /\ at[p] \in Launching /\ OthersHold(p)
           /\ \E step \in Launching \cup {Idle} : Moves(p, step)
           /\ UNCHANGED <<files, world>>
<1> USE DEF Shape, Script, Go, End, Check, Moves, OthersHold, files, world, Launching
<1>1. CASE CheckTable(p) BY <1>1 DEF CheckTable
<1>2. CASE CheckWeights(p) BY <1>2 DEF CheckWeights
<1>3. CASE CheckRuntime(p) BY <1>3 DEF CheckRuntime
<1>4. CASE CheckName(p) BY <1>4 DEF CheckName
<1>5. CASE DockerRun(p) BY <1>5 DEF DockerRun
<1>6. CASE RecordLaunch(p) BY <1>6 DEF RecordLaunch
<1>7. CASE Poll(p) BY <1>7 DEF Poll
<1> QED BY <1>1, <1>2, <1>3, <1>4, <1>5, <1>6, <1>7 DEF LaunchStep

LEMMA StopMoves ==
    ASSUME Shape, NEW p \in Stoppers, StopStep(p)
    PROVE  /\ p \in Script /\ at[p] \in Stopping /\ OthersHold(p)
           /\ \E step \in Stopping \cup {Idle} : Moves(p, step)
           /\ UNCHANGED <<files, world>>
           /\ Booting' => UNCHANGED container
<1> USE DEF Shape, Script, Go, End, Check, Moves, OthersHold, files, world, Stopping
<1>1. CASE FindContainer(p) BY <1>1 DEF FindContainer
<1>2. CASE CheckOwner(p) BY <1>2 DEF CheckOwner
<1>3. CASE StopContainer(p) BY <1>3 DEF StopContainer, Stopped, Booting
<1>4. CASE RemoveContainer(p) BY <1>4 DEF RemoveContainer, Booting, Own
<1> QED BY <1>1, <1>2, <1>3, <1>4 DEF StopStep

LEMMA KillMoves ==
    ASSUME Shape, NEW p \in Script, Kill(p)
    PROVE  Moves(p, Idle) /\ OthersHold(p) /\ UNCHANGED <<files, world, container>>
BY DEF Shape, Kill, End, Go, Moves, OthersHold, files, world

-----------------------------------------------------------------------------
(* Installs, launches and boots stay apart *)

\* A script on its own way keeps them apart.
LEMMA ApartKept ==
    ASSUME Apart, NEW p \in Script, NEW step, Moves(p, step),
           step \in Installing => at[p] \in Installing,
           step \in Launching => at[p] \in Launching,
           Booting' => Booting \/ at[p] \in Launching
    PROVE  Apart'
BY DEF Apart, Moves

LEMMA ApartStep == ASSUME Sound, Next PROVE Apart'
<1> USE DeploymentAssumption DEF Sound
<1>1. ASSUME NEW p \in Script, StartScript(p) PROVE Apart'
    <2>1. CASE p \in Installers /\ Alone /\ Start(p, "stat")
        <3>1. Moves(p, "stat") /\ UNCHANGED container
            BY <2>1, StartMoves
        <3>2. ~Booting /\ \A q \in Script : at[q] \notin Installing /\ at[q] \notin Launching
            BY <2>1 DEF Alone, Running, Apart, Installing, Launching, Steps
        <3> QED
            BY <2>1, <3>1, <3>2 DEF Apart, Moves, Booting, Own, Installing, Launching
    <2>2. CASE p \in Launchers /\ Running(Installers) = {} /\ Start(p, "checkTable")
        <3>1. Moves(p, "checkTable")
            BY <2>2, StartMoves
        <3>2. \A q \in Script : at[q] \notin Installing
            BY <2>2 DEF Running, Apart, Installing, Steps
        <3> QED
            BY <2>2, <3>1, <3>2 DEF Apart, Moves, Installing, Launching
    <2>3. CASE p \in Stoppers /\ Start(p, "find")
        <3>1. Moves(p, "find") /\ UNCHANGED container
            BY <2>3, StartMoves
        <3> QED
            BY <3>1, ApartKept DEF Booting, Own, Installing, Launching
    <2> QED BY <1>1, <2>1, <2>2, <2>3 DEF StartScript
<1>2. ASSUME NEW p \in Installers, InstallStep(p) PROVE Apart'
    <2>1. PICK step \in Installing \cup {Idle} : Moves(p, step)
        BY <1>2, InstallMoves
    <2>2. p \in Script /\ at[p] \in Installing /\ UNCHANGED container
        BY <1>2, InstallMoves
    <2>3. step \notin Launching
        BY <2>1 DEF Installing, Launching, Steps
    <2> QED BY <2>1, <2>2, <2>3, ApartKept DEF Booting, Own
<1>3. ASSUME NEW p \in Launchers, LaunchStep(p) PROVE Apart'
    <2>1. PICK step \in Launching \cup {Idle} : Moves(p, step)
        BY <1>3, LaunchMoves
    <2>2. p \in Script /\ at[p] \in Launching
        BY <1>3, LaunchMoves
    <2>3. step \notin Installing
        BY <2>1 DEF Installing, Launching, Steps
    <2> QED BY <2>1, <2>2, <2>3, ApartKept
<1>4. ASSUME NEW p \in Stoppers, StopStep(p) PROVE Apart'
    <2>1. PICK step \in Stopping \cup {Idle} : Moves(p, step)
        BY <1>4, StopMoves
    <2>2. p \in Script /\ (Booting' => UNCHANGED container)
        BY <1>4, StopMoves
    <2>3. step \notin Installing /\ step \notin Launching
        BY <2>1 DEF Stopping, Installing, Launching, Steps
    <2> QED BY <2>1, <2>2, <2>3, ApartKept DEF Booting, Own
<1>5. ASSUME NEW p \in Script, Kill(p) PROVE Apart'
    <2>1. Moves(p, Idle) /\ UNCHANGED container
        BY <1>5, KillMoves
    <2>2. Idle \notin Installing /\ Idle \notin Launching
        BY DEF Installing, Launching, Steps
    <2> QED BY <2>1, <2>2, ApartKept DEF Booting, Own
<1>6. CASE Boot \/ Exit \/ ForeignRun \/ ForeignRemove
    <2>1. ~Booting' /\ UNCHANGED at
        BY <1>6 DEF Boot, Exit, ForeignRun, ForeignRemove, Booted, Stopped, Booting, Own
    <2> QED BY <2>1 DEF Apart
<1>7. CASE Edit \/ ReplaceWeights \/ MoveAside
    BY <1>7 DEF Edit, ReplaceWeights, MoveAside, Apart, Booting, Own
<1> QED
    BY <1>1, <1>2, <1>3, <1>4, <1>5, <1>6, <1>7 DEF Next, ScriptStep

-----------------------------------------------------------------------------
(* What installs leave on disk fits together *)

\* A step that neither writes what an install owns nor edits what it has read.
LEMMA InstalledKept ==
    ASSUME Installed, NEW p \in Script, OthersHold(p),
           at'[p] \notin {"overlay", "runtime", "replace", "sidecar"},
           UNCHANGED <<inputs, overlay, runtime, table, sidecar>>
    PROVE  Installed'
BY DEF Installed, NoTable, OthersHold

LEMMA InstalledStep == ASSUME Sound, Next PROVE Installed'
<1> USE DeploymentAssumption DEF Sound
<1>1. ASSUME NEW p \in Script, StartScript(p) PROVE Installed'
    <2>1. PICK step \in {"stat", "checkTable", "find"} : Start(p, step)
        BY <1>1 DEF StartScript
    <2>2. /\ Moves(p, step) /\ OthersHold(p)
          /\ UNCHANGED <<overlay, runtime, table, sidecar, inputs>>
        BY <2>1, StartMoves
    <2> QED BY <2>1, <2>2, InstalledKept DEF Moves
<1>2. ASSUME NEW p \in Installers, InstallStep(p) PROVE Installed'
    <2>1. /\ p \in Script /\ OthersHold(p) /\ at[p] \in Installing /\ inputs' = inputs
        BY <1>2, InstallMoves
    <2>2. \A q \in Script : q # p => at[q] \notin Installing
        BY <2>1 DEF Apart
    <2>3. CASE StatWeights(p) \/ HashWeights(p) \/ WriteWeightsReceipt(p) \/ DecideTable(p)
        <3>1. at'[p] \notin {"overlay", "runtime", "replace", "sidecar"}
            BY <2>1, <2>3 DEF StatWeights, HashWeights, WriteWeightsReceipt, DecideTable, Go, End,
                              Shape, Steps
        <3>2. UNCHANGED <<inputs, overlay, runtime, table, sidecar>>
            BY <2>3 DEF StatWeights, HashWeights, WriteWeightsReceipt, DecideTable, files, world
        <3> QED BY <2>1, <3>1, <3>2, InstalledKept
    <2> USE DEF Shape, Go, End, files, world, Installed, OthersHold, NoTable, Forget, Steps
    <2>4. CASE CopyOverlay(p)
        BY <2>1, <2>4 DEF CopyOverlay
    <2>5. CASE ReplaceOverlay(p)
        BY <2>1, <2>2, <2>5 DEF ReplaceOverlay, Installing
    <2>6. CASE WriteRuntimeReceipt(p)
        BY <2>1, <2>2, <2>6 DEF WriteRuntimeReceipt, Installing
    <2>7. CASE Build(p)
        BY <2>1, <2>7 DEF Build
    <2>8. CASE ReplaceTable(p)
        BY <2>1, <2>2, <2>8 DEF ReplaceTable, Installing
    <2>9. CASE WriteSidecar(p)
        BY <2>1, <2>2, <2>9 DEF WriteSidecar, Installing
    <2> QED BY <1>2, <2>3, <2>4, <2>5, <2>6, <2>7, <2>8, <2>9 DEF InstallStep
<1>3. ASSUME NEW p \in Launchers, LaunchStep(p) PROVE Installed'
    <2>1. PICK step \in Launching \cup {Idle} : Moves(p, step)
        BY <1>3, LaunchMoves
    <2>2. p \in Script /\ OthersHold(p) /\ UNCHANGED <<files, world>>
        BY <1>3, LaunchMoves
    <2>3. at'[p] \notin {"overlay", "runtime", "replace", "sidecar"}
        BY <2>1, <2>2 DEF Moves, Launching, Steps
    <2> QED BY <2>2, <2>3, InstalledKept DEF files, world
<1>4. ASSUME NEW p \in Stoppers, StopStep(p) PROVE Installed'
    <2>1. PICK step \in Stopping \cup {Idle} : Moves(p, step)
        BY <1>4, StopMoves
    <2>2. p \in Script /\ OthersHold(p) /\ UNCHANGED <<files, world>>
        BY <1>4, StopMoves
    <2>3. at'[p] \notin {"overlay", "runtime", "replace", "sidecar"}
        BY <2>1, <2>2 DEF Moves, Stopping, Steps
    <2> QED BY <2>2, <2>3, InstalledKept DEF files, world
<1>5. ASSUME NEW p \in Script, Kill(p) PROVE Installed'
    <2>1. Moves(p, Idle) /\ OthersHold(p) /\ UNCHANGED <<files, world>>
        BY <1>5, KillMoves
    <2>2. at'[p] \notin {"overlay", "runtime", "replace", "sidecar"}
        BY <2>1 DEF Moves, Steps
    <2> QED BY <2>1, <2>2, InstalledKept DEF files, world
<1>6. CASE Boot \/ Exit \/ ForeignRun \/ ForeignRemove \/ ReplaceWeights
    BY <1>6 DEF Boot, Exit, ForeignRun, ForeignRemove, ReplaceWeights, files, world,
                Installed, NoTable
<1>7. CASE Edit \/ MoveAside
    <2>1. \A q \in Script : at[q] \notin Installing
        BY <1>7 DEF Edit, MoveAside, Alone, Running, Apart, Installing, Steps
    <2> QED
        BY <1>7, <2>1 DEF Edit, MoveAside, files, Installed, Installing
<1> QED
    BY <1>1, <1>2, <1>3, <1>4, <1>5, <1>6, <1>7 DEF Next, ScriptStep

-----------------------------------------------------------------------------
(* What a launch has checked is what it runs, and what boots *)

\* A step that neither launches nor touches what a launch relies on.
LEMMA LaunchedKept ==
    ASSUME Launched, NEW p \in Script, OthersHold(p),
           at'[p] \notin {"checkWeights", "checkRuntime", "checkName", "run"},
           UNCHANGED <<inputs, overlay, table, sidecar>>,
           Booting' => UNCHANGED container
    PROVE  Launched'
BY DEF Launched, OthersHold, TableAccepted, Booting, Own

LEMMA LaunchedStep == ASSUME Sound, Next PROVE Launched'
<1> USE DeploymentAssumption DEF Sound
<1>1. ASSUME NEW p \in Script, StartScript(p) PROVE Launched'
    <2>1. PICK step \in {"stat", "checkTable", "find"} : Start(p, step)
        BY <1>1 DEF StartScript
    <2>2. /\ Moves(p, step) /\ OthersHold(p)
          /\ UNCHANGED <<overlay, table, sidecar, inputs, container>>
        BY <2>1, StartMoves
    <2> QED BY <2>1, <2>2, LaunchedKept DEF Moves
<1>2. ASSUME NEW p \in Installers, InstallStep(p) PROVE Launched'
    <2>1. PICK step \in Installing \cup {Idle} : Moves(p, step)
        BY <1>2, InstallMoves
    <2>2. p \in Script /\ at[p] \in Installing /\ UNCHANGED container
        BY <1>2, InstallMoves
    <2>3. ~Booting /\ \A q \in Script : at[q] \notin Launching
        BY <2>2 DEF Apart
    <2>4. ~Booting' /\ \A q \in Script : at'[q] \notin Launching
        BY <2>1, <2>2, <2>3 DEF Moves, Booting, Own, Installing, Launching, Steps
    <2> QED BY <2>4 DEF Launched, Launching
<1>3. ASSUME NEW p \in Launchers, LaunchStep(p) PROVE Launched'
    <2>1. p \in Script /\ OthersHold(p) /\ UNCHANGED <<files, world>>
        BY <1>3, LaunchMoves
    <2> USE DEF Shape, Go, End, Check, files, world, Launched, OthersHold, Steps, TableAccepted
    <2>2. CASE CheckTable(p)
        BY <2>1, <2>2 DEF CheckTable, Booting, Own
    <2>3. CASE CheckWeights(p)
        BY <2>1, <2>3 DEF CheckWeights, Booting, Own
    <2>4. CASE CheckRuntime(p)
        BY <2>1, <2>4 DEF CheckRuntime, RuntimeAccepted, Installed, Booting, Own
    <2>5. CASE CheckName(p)
        BY <2>1, <2>5 DEF CheckName, Booting, Own
    <2>6. CASE DockerRun(p)
        BY <2>1, <2>6 DEF DockerRun, Booting, Own
    <2>7. CASE RecordLaunch(p)
        BY <2>1, <2>7 DEF RecordLaunch, Booting, Own
    <2>8. CASE Poll(p)
        BY <2>1, <2>8 DEF Poll, Booting, Own
    <2> QED BY <1>3, <2>2, <2>3, <2>4, <2>5, <2>6, <2>7, <2>8 DEF LaunchStep
<1>4. ASSUME NEW p \in Stoppers, StopStep(p) PROVE Launched'
    <2>1. PICK step \in Stopping \cup {Idle} : Moves(p, step)
        BY <1>4, StopMoves
    <2>2. /\ p \in Script /\ OthersHold(p) /\ UNCHANGED <<files, world>>
          /\ Booting' => UNCHANGED container
        BY <1>4, StopMoves
    <2>3. at'[p] \notin {"checkWeights", "checkRuntime", "checkName", "run"}
        BY <2>1, <2>2 DEF Moves, Stopping, Steps
    <2> QED BY <2>2, <2>3, LaunchedKept DEF files, world
<1>5. ASSUME NEW p \in Script, Kill(p) PROVE Launched'
    <2>1. Moves(p, Idle) /\ OthersHold(p) /\ UNCHANGED <<files, world, container>>
        BY <1>5, KillMoves
    <2>2. at'[p] \notin {"checkWeights", "checkRuntime", "checkName", "run"}
        BY <2>1 DEF Moves, Steps
    <2> QED BY <2>1, <2>2, LaunchedKept DEF files, world
<1>6. CASE Boot \/ Exit \/ ForeignRun \/ ForeignRemove
    <2>1. ~Booting' /\ UNCHANGED <<at, local, inputs, overlay, table, sidecar>>
        BY <1>6 DEF Boot, Exit, ForeignRun, ForeignRemove, Booted, Stopped, Booting, Own,
                    files, world
    <2> QED BY <2>1 DEF Launched, TableAccepted
<1>7. CASE Edit \/ MoveAside
    <2>1. ~Booting /\ \A q \in Script : at[q] \notin Launching
        BY <1>7 DEF Edit, MoveAside, Alone, Running, Apart, Launching, Steps
    <2>2. ~Booting' /\ UNCHANGED at
        BY <1>7, <2>1 DEF Edit, MoveAside, Booting, Own
    <2> QED BY <2>1, <2>2 DEF Launched, Launching
<1>8. CASE ReplaceWeights
    BY <1>8 DEF ReplaceWeights, files, Launched, TableAccepted, Booting, Own
<1> QED
    BY <1>1, <1>2, <1>3, <1>4, <1>5, <1>6, <1>7, <1>8 DEF Next, ScriptStep

\* The invariant holds in every reachable state.
LEMMA SoundAlways == Spec => []Sound
<1>1. Sound /\ [Next]_vars => Sound'
    <2>1. ASSUME Sound, UNCHANGED vars PROVE Sound'
        BY <2>1 DEF vars, files, world, Sound, Shape, Apart, Vouched, Installed, Launched,
                    NoTable, TableAccepted, Booting, Own
    <2> QED BY <2>1, ShapeStep, ApartStep, VouchedStep, InstalledStep, LaunchedStep DEF Sound
<1> QED
    BY <1>1, InitSound, PTL DEF Spec

-----------------------------------------------------------------------------
\* Every file and every script keeps its shape, for any number of edits and polls.
THEOREM TypeCorrect == Spec => []TypeOK
<1>1. Sound => TypeOK
    BY DEF Sound, Shape, Locals, Inputs, TypeOK
<1> QED BY <1>1, SoundAlways, PTL

\* Weights whose stamp launch.sh accepts were hashed and found good, however often
\* they were replaced beside an install (tools/checkpoint.py).
THEOREM VouchedWeightsAreGood == Spec => []AcceptedWeightsAreGood
<1>1. Sound => AcceptedWeightsAreGood
    BY DEF Sound, Vouched, AcceptedWeightsAreGood
<1> QED BY <1>1, SoundAlways, PTL

\* What boots was checked by its launch and has not changed since: overlay and patches
\* of one version, table and sidecar of one build (launch.sh, prepare_runtime.py --check).
THEOREM BootsFitTogether == Spec => BootsFromOneInstall
<1>1. Sound /\ [Next]_vars =>
        [Boot => /\ container.overlay = inputs.patches
                 /\ container.mode = 1 =>
                      table # Nothing /\ table = sidecar /\ table.builder = inputs.builder]_vars
    BY DEF Sound, Launched, Installed, TableAccepted, Boot
<1> QED
    BY <1>1, SoundAlways, PTL DEF Spec, BootsFromOneInstall

\* No script overwrites a table or a sidecar that is there, whatever was killed before,
\* given that one install runs at a time and its build is waited for (Alone): without
\* it two builders may both find the name free (build_hashk_ple.py, install.sh).
THEOREM TablesAreKept == Spec => TableIsNotOverwritten
<1> DEFINE Kept == /\ table # Nothing => table' \in {table, Nothing}
                   /\ sidecar # Nothing => sidecar' \in {sidecar, Nothing}
<1>1. Sound /\ [Next]_vars => [Kept]_vars
    <2> SUFFICES ASSUME Sound, Next PROVE Kept
        OBVIOUS
    <2> USE DEF files, world
    <2>1. ASSUME NEW p \in Script, StartScript(p) \/ Kill(p) PROVE Kept
        BY <2>1 DEF StartScript, Start, Kill
    <2>2. ASSUME NEW p \in Installers, InstallStep(p) PROVE Kept
        <3>1. ReplaceTable(p) => table = Nothing /\ sidecar' = sidecar
            BY DEF ReplaceTable, Sound, Installed, NoTable, Script
        <3>2. WriteSidecar(p) => sidecar = Nothing /\ table' = table
            BY DEF WriteSidecar, Sound, Installed, Script
        <3> QED
            BY <2>2, <3>1, <3>2 DEF InstallStep, StatWeights, HashWeights, WriteWeightsReceipt,
                CopyOverlay, ReplaceOverlay, WriteRuntimeReceipt, DecideTable, Build
    <2>3. ASSUME NEW p \in Launchers, LaunchStep(p) PROVE Kept
        BY <2>3, LaunchMoves DEF Sound
    <2>4. ASSUME NEW p \in Stoppers, StopStep(p) PROVE Kept
        BY <2>4, StopMoves DEF Sound
    <2>5. CASE Boot \/ Exit \/ ForeignRun \/ ForeignRemove \/ Edit \/ ReplaceWeights
        BY <2>5 DEF Boot, Exit, ForeignRun, ForeignRemove, Edit, ReplaceWeights
    <2>6. CASE MoveAside
        BY <2>6 DEF MoveAside
    <2> QED
        BY <2>1, <2>2, <2>3, <2>4, <2>5, <2>6 DEF Next, ScriptStep
<1> QED
    BY <1>1, SoundAlways, PTL DEF Spec, TableIsNotOverwritten

-----------------------------------------------------------------------------
(* One stop at a time *)

\* While a stop is between its look at the owner and its last act, the name is ours.
Owned == \A p \in Script : at[p] \in {"stop", "remove"} => p \in Stoppers /\ Own

OneStopper == \A p, q \in Stoppers : p = q

\* A stopped container keeps its owner, and is there.
LEMMA StoppedFacts ==
    ASSUME NEW c PROVE Stopped(c) # Nothing /\ Stopped(c).owner = c.owner
<1>1. DOMAIN Stopped(c) # DOMAIN Nothing
    <2>1. "owner" \in DOMAIN Stopped(c) /\ "owner" \notin DOMAIN Nothing
        BY DEF Stopped, Nothing
    <2> QED BY <2>1
<1> QED BY <1>1 DEF Stopped

LEMMA OwnedKept ==
    ASSUME Owned, NEW p \in Script, OthersHold(p), at'[p] \notin {"stop", "remove"},
           Own => Own'
    PROVE  Owned'
BY DEF Owned, OthersHold

LEMMA OwnedStep == ASSUME OneStopper, Shape, Owned, Next PROVE Owned'
<1> USE DeploymentAssumption
<1>1. ASSUME NEW p \in Script, StartScript(p) PROVE Owned'
    <2>1. PICK step \in {"stat", "checkTable", "find"} : Start(p, step)
        BY <1>1 DEF StartScript
    <2>2. Moves(p, step) /\ OthersHold(p) /\ UNCHANGED container
        BY <2>1, StartMoves
    <2> QED BY <2>1, <2>2, OwnedKept DEF Moves, Own
<1>2. ASSUME NEW p \in Installers, InstallStep(p) PROVE Owned'
    <2>1. PICK step \in Installing \cup {Idle} : Moves(p, step)
        BY <1>2, InstallMoves
    <2>2. p \in Script /\ OthersHold(p) /\ UNCHANGED container
        BY <1>2, InstallMoves
    <2>3. at'[p] \notin {"stop", "remove"}
        BY <2>1, <2>2 DEF Moves, Installing, Steps
    <2> QED BY <2>2, <2>3, OwnedKept DEF Own
<1>3. ASSUME NEW p \in Launchers, LaunchStep(p) PROVE Owned'
    <2>1. PICK step \in Launching \cup {Idle} : Moves(p, step)
        BY <1>3, LaunchMoves
    <2>2. p \in Script /\ OthersHold(p)
        BY <1>3, LaunchMoves
    <2>3. at'[p] \notin {"stop", "remove"}
        BY <2>1, <2>2 DEF Moves, Launching, Steps
    <2>4. container # Nothing => UNCHANGED container
        BY <1>3 DEF LaunchStep, CheckTable, CheckWeights, CheckRuntime, CheckName, RecordLaunch,
                    Check, DockerRun, Poll
    <2> QED BY <2>2, <2>3, <2>4, OwnedKept DEF Own
<1>4. ASSUME NEW p \in Stoppers, StopStep(p) PROVE Owned'
    <2>1. p \in Script /\ OthersHold(p) /\ at[p] \in Stopping
        BY <1>4, StopMoves
    <2>2. \A q \in Script : q # p => at[q] \notin {"stop", "remove"}
        BY DEF OneStopper, Owned
    <2>3. CASE FindContainer(p)
        <3>1. at'[p] \notin {"stop", "remove"}
            BY <2>1, <2>3 DEF FindContainer, Check, Go, End, Shape, Steps
        <3>2. UNCHANGED container
            BY <2>3 DEF FindContainer, Check
        <3> QED BY <2>1, <3>1, <3>2, OwnedKept DEF Own
    <2>4. CASE CheckOwner(p)
        <3>1. (at'[p] \in {"stop", "remove"} => Own) /\ UNCHANGED container
            BY <2>1, <2>4 DEF CheckOwner, Check, Go, End, Shape, Steps
        <3> QED BY <2>1, <2>2, <3>1 DEF Owned, OthersHold, Own
    <2>5. CASE StopContainer(p)
        <3>1. Own
            BY <2>1, <2>5 DEF StopContainer, Owned
        <3>2. container' = Stopped(container)
            BY <2>5, <3>1 DEF StopContainer, Own
        <3>3. Own'
            BY <3>1, <3>2, StoppedFacts DEF Own
        <3> QED BY <2>1, <2>2, <3>3 DEF Owned, OthersHold
    <2>6. CASE RemoveContainer(p)
        <3>1. at'[p] \notin {"stop", "remove"}
            BY <2>1, <2>6 DEF RemoveContainer, End, Go, Shape, Steps
        <3> QED BY <2>1, <2>2, <3>1 DEF Owned, OthersHold
    <2> QED BY <1>4, <2>3, <2>4, <2>5, <2>6 DEF StopStep
<1>5. ASSUME NEW p \in Script, Kill(p) PROVE Owned'
    <2>1. Moves(p, Idle) /\ OthersHold(p) /\ UNCHANGED container
        BY <1>5, KillMoves
    <2>2. at'[p] \notin {"stop", "remove"}
        BY <2>1 DEF Moves, Steps
    <2> QED BY <2>1, <2>2, OwnedKept DEF Own
<1>6. CASE Boot
    <2>1. UNCHANGED at /\ container' = Booted("self")
        BY <1>6 DEF Boot
    <2>2. "owner" \in DOMAIN Booted("self") /\ "owner" \notin DOMAIN Nothing
        BY DEF Booted, Nothing
    <2>3. Booted("self") # Nothing
        BY <2>2
    <2> QED BY <2>1, <2>3 DEF Owned, Own, Booted
<1>7. CASE Exit
    BY <1>7, StoppedFacts DEF Exit, Owned, Own
<1>8. CASE ForeignRun \/ ForeignRemove
    BY <1>8 DEF ForeignRun, ForeignRemove, Owned, Own
<1>9. CASE Edit \/ ReplaceWeights \/ MoveAside
    BY <1>9 DEF Edit, ReplaceWeights, MoveAside, Owned, Own
<1> QED
    BY <1>1, <1>2, <1>3, <1>4, <1>5, <1>6, <1>7, <1>8, <1>9 DEF Next, ScriptStep

\* With one stop.sh at a time no container of another checkout is touched, although the
\* owner is read some steps before the name is acted on: only this stop and the owner
\* itself can give the name free.  Two at a time break it (run deployment_two_stops).
THEOREM OneStopHitsItsOwn == OneStopper => (Spec => OnlyOwnIsStopped)
<1> SUFFICES ASSUME OneStopper PROVE Spec => OnlyOwnIsStopped OBVIOUS
<1>1. Init => Owned
    BY DeploymentAssumption DEF Init, Owned, Steps
<1>2. Sound /\ Owned /\ [Next]_vars => Owned'
    <2>1. ASSUME Owned, UNCHANGED vars PROVE Owned'
        BY <2>1 DEF vars, Owned, Own
    <2> QED BY <2>1, OwnedStep DEF Sound
<1>3. Owned /\ [Next]_vars =>
        [container # Nothing /\ container.owner = "other" =>
            \A p \in Stoppers :
                ~((StopContainer(p) \/ RemoveContainer(p)) /\ container' # container)]_vars
    BY DEF Owned, Own, StopContainer, RemoveContainer, Script
<1> QED
    BY <1>1, <1>2, <1>3, SoundAlways, PTL DEF Spec, OnlyOwnIsStopped
=============================================================================
