SPECIFICATION Spec
VIEW Vista
SYMMETRY Simetria
CONSTANTS
  Pids = {p1, p2}
  Ids = {i1}
  Tamanios = {1, 2}
  SegmentMaxSize = 2
  MaxSegmentos = 2
  Sticks = {"f1", "f2"}
  TamStick <- MCTamStick
  Swaps = {"s1"}
  SticksQueCaen = {}
  SwapsQueCaen = {}
  BlockSize = 2
  TotalBloques = 2
  Estrategias = {TRUE, FALSE}
  Escritores = {p1, p2}
INVARIANTS
  TypeOK
  SegmentosDisjuntos
  HuecosLibres
  SinFugas
  ContenidoIntacto
  BloquesDeSwap
  CompactarAlcanza
