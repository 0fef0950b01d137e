SPECIFICATION Spec
CONSTANTS
  s1 = s1
  s2 = s2
  Stacks <- TwoStacks
  HaGuests <- TwoHa
  DrGuests <- TwoDr
  ObsBox = {"obs"}
  SvcBox = {"svc"}
  Oses = {"u24", "u26"}
  DefaultOs = "u26"
  NoOs = NoOs
  Ops = {o1}
  Legacy = {s2}
  Lever = TRUE
  MaxPages = 5
  MaxJobs = 2
  MaxStops = 1
CHECK_DEADLOCK FALSE
INVARIANTS
  LifecycleInv
  RecordPinsOS
  BootstrapUp
  TeardownClean
  PagesSuffice
  ReleaseSafe
PROPERTY CommonsKept
