SPECIFICATION FairSpec
CONSTANTS
  Pids = {0, 1, 2}
  Cpus = {"c1", "c2"}
  Mutexes = {"m", "n"}
  Colas <- MCColas
  PrioridadOriginal <- MCPrioridadOriginal
  TiposIo = {"SLEEP", "STDIN", "STDOUT"}
  Ios = {"d1", "d2", "d3"}
  TipoDe <- MCTipoDe
  IosCaen = {"d3"}
  Marcos = 1
  Programas <- MCProgramas
CHECK_DEADLOCK FALSE
INVARIANTS
  TypeOK
  UnaSolaLista
  DespertarUnico
  MutexConDueno
  HerenciaAlcanza
  HerenciaVuelve
  SuspensionDeBloqueado
PROPERTIES
  TodosTerminan
  CicloDeVida
