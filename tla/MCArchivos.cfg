SPECIFICATION SpecArchivos
CONSTANTS
  p1 = p1
  p2 = p2
  fa = fa
  fb = fb
  fc = fc
  Nadie = Nadie
  Procs = {p1, p2}
  Paths = {fa, fb, fc}
  CANTIDAD_BLOQUES = 8
  TAMANIO_BLOQUES = 2
  Tamanios = {2, 9}
  MaxTamanio = 13
  MaxReinicios = 0
  Banderas <- MCBanderas
  Basura <- MCBasura
  Descriptores = {3, 4}
  MaxPedidos = 5
INVARIANTS ApuntaASuArchivo CuentaAbiertos SinFallo BitmapExacto UnDuenio TamanioJusto
SYMMETRY MCSimetria
CHECK_DEADLOCK FALSE
