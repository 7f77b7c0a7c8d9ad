SPECIFICATION Spec
CONSTANTS
  Coros = {c1, c2, c3}
  PRINCIPAL = principal
  Sitios = {s1, s2}
  NADA = NADA
  Programas <- ProgramasDeDosSitios
INVARIANTS
  VuelveAlUltimoAvanzar
CHECK_DEADLOCK FALSE
