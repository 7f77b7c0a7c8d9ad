SPECIFICATION Spec
CONSTANTS
  l1 = l1
  l2 = l2
  l3 = l3
  l4 = l4
  l5 = l5
  l6 = l6
  Llaves = {l1, l2, l3, l4, l5, l6}
  Valores = {v1, v2}
  NADA = NADA
  Hash <- HashDePrueba
  Iguales <- SonIguales
  Juntas = {{l1, l2, l3, l4}, {l1, l4, l5}, {l1, l2, l3, l6}}
  TamMinimo = 2
  Adicionales = {0, 1, 4}
  TamMaximo = 8
INVARIANTS
  TipoOK
  CadenasCorrectas
  FijarSeVe
  RehashearConserva
  EliminarRespetaLasDemas
  IteracionCompleta
PROPERTIES
  ImplementaMapa
