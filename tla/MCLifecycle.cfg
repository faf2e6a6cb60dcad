CONSTANTS
  Procs = {p1, p2}
  Names = {n1}
  SpawnMayFail = TRUE
  None = None
SPECIFICATION FairSpec
INVARIANTS TypeOK OneBackend WorkerKnown OneWinner
PROPERTIES RegistryStable CallsReturn
