SPECIFICATION SpecBucle
CONSTANTS
  p1 = p1
  p2 = p2
  p3 = p3
  c1 = c1
  c2 = c2
  Nadie = Nadie
  Basura = {Nadie}
  Procs = {p1, p2}
  CPUs = {c1}
  Programa <- MCVariables
  Quantum = 2
  RR = TRUE
INVARIANTS NoDeberiaLlegarAca
CHECK_DEADLOCK FALSE
