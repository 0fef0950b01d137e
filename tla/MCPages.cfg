SPECIFICATION Spec
CONSTANTS
  s1 = s1
  s2 = s2
  Stacks <- OneStack
  HaGuests <- OneHa
  DrGuests <- OneDr
  ObsBox = {"obs"}
  SvcBox = {"svc"}
  Oses = {"u24", "u26"}
  DefaultOs = "u26"
  NoOs = NoOs
  Ops = {o1}
  Legacy = {}
  Lever = TRUE
  MaxPages = 4
  MaxJobs = 2
  MaxStops = 1
CHECK_DEADLOCK FALSE
INVARIANT NoShortBoot
