SPECIFICATION SpecHeapJusta
CONSTANTS
  Pids = {1, 2}
  PaginasIniciales = 2
  MARCOS = 7
  MARCOS_SIZE = 6
  Tamanos = {1, 2, 5}
  MaxPedidosHeap = 5
INVARIANTS CadenaIntacta BloquesVigentes DisponibleNoSobra FramesContados
PROPERTIES TodoPedidoSeContesta
CHECK_DEADLOCK FALSE
