SPECIFICATION FrontSpec
CONSTANTS
  Monitors <- AllMonitors
  Persistent <- PersistentMonitors
  Fluxes = {m1, m2}
  BlochVectors = {0, 1}
  SourceLists = {A, B}
  MaxHistory = 2
  MaxData = 1
  CarefulScript = TRUE
  Designs = {"rho1", "rho2"}
  OptimizerBlochVectors = {0, 1}
  CarefulOptimizer = TRUE
  CarefulJax = TRUE
  Scripts <- ManyScripts
  Levels = {0, 1, 4}
  SourceEnds = {2}
  Decay = 4
  Decimation = 1
  MaxTime = 4
  Careful = TRUE
INVARIANTS
  StepsAreDue
  FinishFollowsSteps
  DecayWasMeasured
  MonitorsContinue
  RegisteredMonitorsAreHeld
  NoDanglingMonitor
  ValuesAreOfTheDesign
  GradientIsConsistent
  GradientIsOfItsCall
PROPERTY
  StopsAtTheFirstCondition
SYMMETRY Symmetric
CHECK_DEADLOCK FALSE
