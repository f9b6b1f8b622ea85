SPECIFICATION Spec
CONSTANTS
  Pids = {0, 1, 2}
  Cpus = {c1, c2}
  Prioridades = {0, 1}
  Ciclos = 2
  Caidas = {}
  Algoritmo = "CMN"
  AlgoritmosPorCola <- MCColas
  DesalojoEntreColas = TRUE
  Timers = {"t1", "t2"}
SYMMETRY MCSimetria
CHECK_DEADLOCK FALSE
INVARIANT
  DesalojoEntreColasOcurre
