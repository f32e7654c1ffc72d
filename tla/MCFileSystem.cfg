SPECIFICATION Spec
CONSTANTS
  fa = fa
  fb = fb
  fc = fc
  Paths = {fa, fb, fc}
  CANTIDAD_BLOQUES = 9
  TAMANIO_BLOQUES = 2
  Tamanios = {1, 2, 3}
  MaxTamanio = 8
  MaxReinicios = 1
INVARIANTS UnDuenio
CHECK_DEADLOCK FALSE
