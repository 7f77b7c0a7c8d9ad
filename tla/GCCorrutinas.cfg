SPECIFICATION Spec
CONSTANTS
  Obj = {o1, o2, o3, o4}
  NULO = NULO
  LimiteMenores = 1
  MaxCampos = 1
  Programas <- ProgramasConCorrutinas
INVARIANTS
  AsercionDeMarcar
SYMMETRY Simetria
CHECK_DEADLOCK FALSE
