SPECIFICATION Spec
CONSTANTS
  Pids = {0, 1, 2}
  Cpus = {"c1", "c2"}
  Mutexes = {"m", "n"}
  Colas <- MCColas
  PrioridadOriginal <- MCPrioridadOriginal
  TiposIo = {"SLEEP", "STDIN", "STDOUT"}
  Ios = {"d1", "d2", "d3"}
  TipoDe <- MCTipoDe
  IosCaen = {}
  Marcos = 1
  Programas <- MCProgramas
CHECK_DEADLOCK FALSE
INVARIANT
  SiempreHayQuienDespierte
