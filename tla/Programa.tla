-------------------------------- MODULE Programa ------------------------------
(***************************************************************************)
(* From the sources to the running program: Construccion makes executables *)
(* in runs of pdc, and one of them is started and imports its modules as   *)
(* Importacion says.  What the compiler registers has to be enough for     *)
(* every import the program can make.                                      *)
(***************************************************************************)
EXTENDS Construccion

CONSTANTS
  MaxMarcos   \* bound of Importacion

VARIABLES registro, espacios, cargas, marcos, vistos, error

rt == <<registro, espacios, cargas, marcos, vistos, error>>

I == INSTANCE Importacion

InitPrograma == Init /\ I!Inactivo

\* The executable is started; pdc is not run while it lasts.
Ejecutar ==
  /\ exe # NINGUNO /\ fase = "libre"
  /\ I!Arrancar(exe.principal, exe.tabla)
  /\ UNCHANGED vars

EnPdc(accion) == registro = {} /\ accion /\ UNCHANGED rt

PasoDePdc ==
  \/ \E o \in Ordenes : EnPdc(Empezar(o))
  \/ EnPdc(Compilar) \/ EnPdc(Interrumpir) \/ EnPdc(Salir)

PasoDelPrograma == I!Correr /\ UNCHANGED vars

NextPrograma == PasoDePdc \/ Ejecutar \/ PasoDelPrograma

SpecPrograma ==
  /\ InitPrograma
  /\ [][NextPrograma]_<<vars, rt>>
  /\ WF_<<vars, rt>>(EnPdc(Compilar))
  /\ WF_<<vars, rt>>(PasoDelPrograma)

-------------------------------------------------------------------------------
\* A program that starts comes to its end, when no function imports: every
\* import it makes is answered.
ProgramaTermina ==
  (marcos # <<>> /\ I!SinImportarEnFunciones) ~> (marcos = <<>> /\ error = NINGUNO)

TipoImportacion == I!TipoImportacion
ImportarNoFalla == I!ImportarNoFalla
DependenciasListas == I!DependenciasListas
UnSoloEspacio == I!UnSoloEspacio
RecargaSoloReentrante == I!RecargaSoloReentrante
===============================================================================
