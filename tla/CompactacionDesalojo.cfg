SPECIFICATION Spec
CONSTANTS
  Pids = {0, 1, 2}
  Cpus = {"c1", "c2"}
  Prioridades = {}
  Mutexes = {}
  Colas = {0}
  PrioridadOriginal <- MCPrioridadOriginal
  TiposIo = {"SLEEP"}
  Ciclos = 2
  CiclosUsados <- MCCiclosUsados
  Caidas = {}
CHECK_DEADLOCK FALSE
INVARIANT
  DesalojadosAlCompactar
