CONSTANTS
  Installers = {i1}
  Launchers = {l1}
  Stoppers = {s1, s2}
  Idle = Idle
  Content = {1}
  MaxEdits = 0
  MaxAtOnce = 2
  MaxPolls = 1
SPECIFICATION Spec
PROPERTY OnlyOwnIsStopped
