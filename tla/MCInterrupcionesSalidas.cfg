SPECIFICATION SpecIntJusta
CONSTANTS
  p1 = p1
  p2 = p2
  p3 = p3
  c1 = c1
  c2 = c2
  sa = sa
  sb = sb
  Nadie = Nadie
  Basura = {Nadie}
  Procs = {p1, p2}
  CPUs = {c1, c2}
  Sems = {sa, sb}
  Inicial <- MCInicialCortos
  Programa <- MCSalidas
  Matables = {}
  DeLaConsola = {}
  Salidas = 1
  Quantum = 2
  RR = TRUE
INVARIANTS SaleSinLlevarse
PROPERTIES SiguenLosDemas
CHECK_DEADLOCK FALSE
