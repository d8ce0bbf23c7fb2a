CONSTANTS
  Installers = {i1}
  Launchers = {l1, l2}
  Stoppers = {s1}
  Idle = Idle
  Content = {1}
  MaxEdits = 1
  MaxAtOnce = 2
  MaxPolls = 2
SPECIFICATION Spec
INVARIANTS TypeOK AcceptedWeightsAreGood
PROPERTIES BootsFromOneInstall TableIsNotOverwritten OnlyOwnIsStopped ScriptsEnd
