SPECIFICATION Spec
CONSTANTS
  p1 = p1
  p2 = p2
  p3 = p3
  p4 = p4
  sa = sa
  sb = sb
  Nadie = Nadie
  Procs = {p1, p2, p3, p4}
  Sems = {sa, sb}
  Inicial <- MCInicial
  MaxValor = 2
INVARIANTS NadieEsperaDeMas EsperaLoQuePidio
PROPERTIES Implementa
CHECK_DEADLOCK FALSE
