SPECIFICATION SpecIntBucle
CONSTANTS
  p1 = p1
  p2 = p2
  p3 = p3
  c1 = c1
  c2 = c2
  sa = sa
  sb = sb
  Nadie = Nadie
  Basura = {Nadie}
  Procs = {p1, p2, p3}
  CPUs = {c1}
  Sems = {sa, sb}
  Inicial <- MCInicialCortos
  Programa <- MCCortos
  Matables = {p1}
  DeLaConsola = {p2, p3}
  Salidas = 0
  Quantum = 2
  RR = TRUE
INVARIANTS SemaforosAlDia NadieDuplicado ConsolaSinProgramas
CHECK_DEADLOCK FALSE
