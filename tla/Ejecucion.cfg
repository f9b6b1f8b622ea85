SPECIFICATION Spec
CONSTANTS
  Byte = 3
  BytesPalabra = 2
  TamMaxSegmento = 4
  TamSticks <- MCTamSticks
  p1 = p1
  p2 = p2
  Pids <- MCPids
  Nadie = Nadie
  c1 = c1
  c2 = c2
  Cpus <- MCCpus
  Programas <- MCProgramas
SYMMETRY Simetria
CHECK_DEADLOCK FALSE
INVARIANT
  TypeOK
  TablaAlDia
  EsperaGuardada
  CacheFiel
PROPERTY
  ComoSiSola
