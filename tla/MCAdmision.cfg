SPECIFICATION SpecAdmision
CONSTANTS
  c1 = c1
  c2 = c2
  k1 = k1
  k2 = k2
  Consolas = {c1, c2}
  Cpus = {k1, k2}
  MEM = 4
  SERVIDOR = 6
  GRADO_MULTIPROG = 2
  STACK_SIZE = 2
  MEMORIA = 4
  Paginas <- PaginasMC
  LANZAMIENTOS = 3
  INSTRUCCIONES = 1
  Primeros <- PrimerosMC
INVARIANTS GradoContado ProgramaPropio SeBloqueaSoloPorElIndice
PROPERTIES TodosRespondidos
CHECK_DEADLOCK FALSE
