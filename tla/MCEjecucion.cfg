SPECIFICATION SpecEjecucion
CONSTANTS
  Pids = {1, 2}
  MARCOS = 15
  MARCOS_SIZE = 6
  STACK_SIZE = 2
  VARIABLE_SIZE = 3
  ENTRADAS_CACHE = 3
  CACHE_X_PROC = 2
  Guiones <- GuionesMC
INVARIANTS EnSuStack LeeLoAsignado SentenciaCorrecta
PROPERTIES SoloCaePor
CHECK_DEADLOCK FALSE
