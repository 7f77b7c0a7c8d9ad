SPECIFICATION Spec
CONSTANTS
  Rutas = {r}
  Inodos = {i}
  Fds = {f, g}
  Objs = {o, p}
  Bytes = {b, cero}
  b = b
  CERO = cero
  Textos <- TextosCortos
  MaxTam = 2
  NADA = NADA
  DIR = DIR
  Modos = {1, 10, 101}
  Cap = 1
INVARIANTS
  TipoArchivo
  Propiedad
PROPERTIES
  ImplementaFichero
  OperacionTermina
CHECK_DEADLOCK FALSE
