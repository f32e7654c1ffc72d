SPECIFICATION SpecJusta
CONSTANTS
  p1 = p1
  p2 = p2
  p3 = p3
  c1 = c1
  c2 = c2
  Nadie = Nadie
  Basura = {Nadie}
  Procs = {p1, p2, p3}
  CPUs = {c1, c2}
  Programa <- MCPrograma
  Quantum = 2
  RR = TRUE
INVARIANTS IInv UnSoloLugar CpuEnUnLugar NadaSeDescarta SinNulo MensajeDelQueEjecuta NoRepite
PROPERTIES CumpleCiclo TodosTerminan
CHECK_DEADLOCK FALSE
