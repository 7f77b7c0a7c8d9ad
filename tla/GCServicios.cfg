SPECIFICATION SpecJusta
CONSTANTS
  Obj = {o1, o2, o3}
  NULO = NULO
  LimiteMenores = 1
  MaxCampos = 1
  Programas <- ProgramasConServicios
PROPERTIES
  AbiertosSeConservan
  RecoleccionTermina
CHECK_DEADLOCK FALSE
