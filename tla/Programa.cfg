SPECIFICATION SpecPrograma
CONSTANTS
  a = a
  b = b
  c = c
  Modulos = {a, b, c}
  NINGUNO = NINGUNO
  MaxMarcos = 6
  Fuentes <- ProgramasDeTres
  Ordenes <- OrdenesDeTres
INVARIANTS
  TipoOK
  CierreExacto
  SinCiclos
  PasosExactos
  ErroresJustificados
  EjecutableCompleto
  TipoImportacion
  ImportarNoFalla
  DependenciasListas
  UnSoloEspacio
PROPERTIES
  PdcTermina
  RecargaSoloReentrante
  ProgramaTermina
CHECK_DEADLOCK FALSE
