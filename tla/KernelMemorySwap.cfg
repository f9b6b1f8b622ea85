SPECIFICATION Spec
CONSTANTS
  Pids = {p1}
  Ids = {i1}
  Tamanios = {1, 2}
  SegmentMaxSize = 2
  MaxSegmentos = 2
  Sticks = {"f1"}
  TamStick <- MCTamStick
  Swaps = {"s1", "s2"}
  SticksQueCaen = {}
  SwapsQueCaen = {"s1"}
  BlockSize = 1
  TotalBloques = 2
  Estrategias = {TRUE}
  Escritores = {}
INVARIANT
  MapaDeBitsFiel
