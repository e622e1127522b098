SPECIFICATION Spec
CONSTANTS
  c1 = c1
  c2 = c2
  a1 = a1
  a2 = a2
  a3 = a3
  d1 = d1
  d2 = d2
  Chunks = {c1, c2}
  Addresses = {a1, a2, a3}
  Devices = {d1, d2}
  Topologies <- MCTopologies
  Program <- MCProgram
  NoChunk = NoChunk
  NoAddress = NoAddress
  NoDevice = NoDevice
INVARIANTS
  LaunchesAreCurrent
  ResultsAreMarked
  CompletePlansAreWholePhases
SYMMETRY Symmetry
