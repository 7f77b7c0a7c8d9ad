SPECIFICATION Spec
CONSTANTS
  Valores <- LosValores
  NULO = "nulo"
  NADA = NADA
  PROC = "proc"
  RUNTIME = "runtime"
  FFI = "ffi"
  Instancias <- LasInstancias
  Metodos <- LosMetodos
  NoEncontrado <- LosNoEncontrado
  Contenido <- LosArreglos
  Objetos <- LosObjetos
  Mensajes = {"llamar", "m", "enviarMensaje"}
  Destinos <- LosDestinos
  Fijas <- LasFijas
  Variadicas <- LasVariadicas
  Prototipos <- LosPrototipos
  MaxVentana = 7
INVARIANTS
  TipoLlamadas
  Entrega
  PilaBalanceada
  SinDesbordar
CHECK_DEADLOCK FALSE
