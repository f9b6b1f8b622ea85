SPECIFICATION FairSpec
CONSTANTS
  Pids = {0, 1}
  Cpus = {"c1", "c2"}
  Prioridades = {0, 1, 2}
  Ciclos = 2
  Caidas = {"c2"}
  Algoritmo = "CMN"
  AlgoritmosPorCola <- MCColas
  DesalojoEntreColas = TRUE
  Timers = {"t1", "t2"}
CHECK_DEADLOCK FALSE
INVARIANTS
  TokensReady
PROPERTY
  TodosTerminan
