---------------------------- MODULE ProgramaPruebas ---------------------------
(***************************************************************************)
(* Proofs about Programa: whatever executable the runs of pdc made, the    *)
(* program finds every module it imports, and the body an import waited    *)
(* for has left its namespace.                                             *)
(***************************************************************************)
EXTENDS Programa, ConstruccionPruebas, Naturales

\* The steps of a program leave the compiler alone, and the other way around.
LEMMA ProgramaEsConstruccion == SpecPrograma => Spec
<1>1. InitPrograma => Init
  BY DEF InitPrograma
<1>2. [NextPrograma]_<<vars, rt>> => [Next]_vars
  BY DEF Next, NextPrograma, PasoDePdc, EnPdc, Ejecutar, PasoDelPrograma, vars, rt
<1> QED
  BY <1>1, <1>2, PTL DEF SpecPrograma, Spec

\* Neither writes a source.
LEMMA FuenteNoCambia ==
  ASSUME [NextPrograma]_<<vars, rt>>
  PROVE  fuente' = fuente
<1>1. [Next]_vars
  BY DEF Next, NextPrograma, PasoDePdc, EnPdc, Ejecutar, PasoDelPrograma, vars, rt
<1> QED
  BY <1>1, LaFuenteQueda

-------------------------------------------------------------------------------
\* The frame on top, when there is one.
LEMMA LaDeEncima ==
  ASSUME TipoImportacion, marcos # <<>>
  PROVE  /\ Len(marcos) \in Nat \ {0} /\ DOMAIN marcos = 1 .. Len(marcos)
         /\ I!Cima \in I!Marcos /\ I!Cima = marcos[Len(marcos)]
<1>1. marcos \in Seq(I!Marcos)
  BY DEF TipoImportacion, I!TipoImportacion
<1>2. Len(marcos) \in Nat \ {0} /\ DOMAIN marcos = 1 .. Len(marcos)
  BY <1>1, EmptySeq, LenProperties
<1> QED
  BY <1>1, <1>2, ElementOfSeq DEF I!Cima

\* The frames under the top one.
LEMMA LosDeAbajo ==
  ASSUME TipoImportacion, marcos # <<>>, NEW abajo, abajo = I!Abajo
  PROVE  /\ abajo \in Seq(I!Marcos) /\ Len(abajo) = Len(marcos) - 1
         /\ DOMAIN abajo = 1 .. Len(marcos) - 1
         /\ \A k \in 1 .. Len(marcos) - 1 : abajo[k] = marcos[k]
<1>1. marcos \in Seq(I!Marcos)
  BY DEF TipoImportacion, I!TipoImportacion
<1>2. Len(marcos) \in Nat \ {0}
  BY LaDeEncima
<1> DEFINE n == Len(marcos) - 1
           S == I!Marcos
<1>3. n \in Int /\ 1 \in Int /\ \A k \in 1 .. n : marcos[k] \in S
  BY <1>1, <1>2, ElementOfSeq
<1>4. /\ SubSeq(marcos, 1, n) \in Seq(S)
      /\ Len(SubSeq(marcos, 1, n)) = IF 1 <= n THEN n - 1 + 1 ELSE 0
      /\ \A k \in 1 .. n - 1 + 1 : SubSeq(marcos, 1, n)[k] = marcos[1 + k - 1]
  <2> HIDE DEF n, S
  <2> QED
    BY <1>3, SubSeqProperties
<1>5. abajo = SubSeq(marcos, 1, n)
  BY DEF I!Abajo
<1>6. /\ abajo \in Seq(S)
      /\ Len(abajo) = IF 1 <= n THEN n - 1 + 1 ELSE 0
      /\ \A k \in 1 .. n - 1 + 1 : abajo[k] = marcos[1 + k - 1]
  <2> HIDE DEF S, n
  <2> QED
    BY ONLY <1>4, <1>5, Zenon
<1> HIDE DEF S
<1>7. n \in Nat /\ n - 1 + 1 = n /\ \A k \in 1 .. n : 1 + k - 1 = k
  BY <1>2
<1> HIDE DEF n
<1>8. Len(abajo) = n
  BY <1>6, <1>7
<1>9. DOMAIN abajo = 1 .. n
  BY <1>6, <1>8, LenProperties
<1>10. \A k \in 1 .. n : abajo[k] = marcos[k]
  BY <1>6, <1>7
<1> USE DEF n
<1> QED
  BY <1>6, <1>8, <1>9, <1>10 DEF S

\* A frame put on top of others.
LEMMA UnoMas ==
  ASSUME NEW q \in Seq(I!Marcos), NEW f \in I!Marcos, NEW r, r = Append(q, f)
  PROVE  /\ r \in Seq(I!Marcos) /\ Len(r) = Len(q) + 1 /\ Len(q) \in Nat
         /\ DOMAIN r = 1 .. Len(q) + 1 /\ DOMAIN q = 1 .. Len(q)
         /\ \A k \in 1 .. Len(q) : r[k] = q[k]
         /\ r[Len(q) + 1] = f
BY AppendProperties, LenProperties

\* Passing an import leaves the frames of the same modules, the ones under the
\* top one as they were.
LEMMA LosAvanzados ==
  ASSUME TipoImportacion, TipoOK, NEW d, I!Importa(d), NEW q, q = I!Avanzados
  PROVE  /\ q \in Seq(I!Marcos) /\ Len(q) = Len(marcos)
         /\ DOMAIN q = 1 .. Len(marcos)
         /\ \A k \in 1 .. Len(marcos) - 1 : q[k] = marcos[k]
         /\ q[Len(marcos)] = IF I!Cima.tipo = "cuerpo"
                             THEN [I!Cima EXCEPT !.pos = I!Proxima(I!Cima) + 1] ELSE I!Cima
         /\ \A k \in 1 .. Len(marcos) :
              q[k].tipo = marcos[k].tipo /\ q[k].modulo = marcos[k].modulo
<1>1. marcos # <<>>
  BY DEF I!Importa
<1>2. /\ Len(marcos) \in Nat \ {0} /\ DOMAIN marcos = 1 .. Len(marcos)
      /\ I!Cima \in I!Marcos /\ I!Cima = marcos[Len(marcos)]
  BY <1>1, LaDeEncima
<1>3. CASE I!Cima.tipo = "cuerpo"
  <2>1. PICK i \in I!Faltan(I!Cima) : i = I!Proxima(I!Cima)
    BY <1>3 DEF I!Importa
  <2>2. i \in Nat
    <3>1. fuente[I!Cima.modulo] \in Seq(Importaciones)
      BY <1>2, FuentesSonProgramas DEF TipoOK, I!Marcos
    <3>2. i \in DOMAIN fuente[I!Cima.modulo]
      BY DEF I!Faltan
    <3> QED
      BY <3>1, <3>2, LenProperties
  <2> DEFINE f == [I!Cima EXCEPT !.pos = I!Proxima(I!Cima) + 1]
  <2>3. f \in I!Marcos /\ f.tipo = I!Cima.tipo /\ f.modulo = I!Cima.modulo
    BY <1>2, <2>1, <2>2 DEF I!Marcos
  <2>4. PICK abajo : abajo = I!Abajo
    OBVIOUS
  <2>5. /\ abajo \in Seq(I!Marcos) /\ Len(abajo) = Len(marcos) - 1
        /\ \A k \in 1 .. Len(marcos) - 1 : abajo[k] = marcos[k]
    BY <1>1, <2>4, LosDeAbajo
  <2>6. q = Append(abajo, f)
    BY <1>3, <2>4 DEF I!Avanzados
  <2> HIDE DEF f
  <2>7. /\ q \in Seq(I!Marcos) /\ Len(q) = Len(abajo) + 1
        /\ DOMAIN q = 1 .. Len(abajo) + 1
        /\ \A k \in 1 .. Len(abajo) : q[k] = abajo[k]
        /\ q[Len(abajo) + 1] = f
    BY <2>3, <2>5, <2>6, UnoMas
  <2>8. Len(abajo) + 1 = Len(marcos)
    BY <1>2, <2>5
  <2>9. ASSUME NEW k \in 1 .. Len(marcos)
        PROVE  q[k].tipo = marcos[k].tipo /\ q[k].modulo = marcos[k].modulo
    <3>1. CASE k = Len(marcos)
      BY <3>1, <1>2, <2>3, <2>7, <2>8
    <3>2. CASE k \in 1 .. Len(marcos) - 1
      BY <3>2, <2>5, <2>7
    <3>3. k = Len(marcos) \/ k \in 1 .. Len(marcos) - 1
      <4>1. Len(marcos) \in Nat
        BY <1>2
      <4> QED
        BY <4>1
    <3> QED
      BY <3>1, <3>2, <3>3
  <2> QED
    BY <1>3, <2>5, <2>7, <2>8, <2>9 DEF f
<1>4. CASE I!Cima.tipo # "cuerpo"
  BY <1>2, <1>4 DEF I!Avanzados, TipoImportacion, I!TipoImportacion
<1> QED
  BY <1>3, <1>4

\* The next import is the first of those the body has yet to make.
LEMMA LaProxima ==
  ASSUME TipoOK, NEW f \in I!Marcos, NEW i \in I!Faltan(f)
  PROVE  I!Proxima(f) \in I!Faltan(f) /\ i \in Nat /\ I!Proxima(f) <= i
<1> DEFINE F == I!Faltan(f)
<1>1. fuente[f.modulo] \in Seq(Importaciones)
  BY FuentesSonProgramas DEF TipoOK, I!Marcos
<1>2. F \in SUBSET Nat /\ F # {}
  BY <1>1, LenProperties DEF I!Faltan
<1>3. \E x \in F : \A y \in F : x <= y
  <2> HIDE DEF F
  <2> QED
    BY <1>2, Minimo
<1>4. I!Proxima(f) = CHOOSE x \in F : \A y \in F : x <= y
  BY DEF I!Proxima, I!Min
<1> HIDE DEF F
<1>5. I!Proxima(f) \in F /\ \A y \in F : I!Proxima(f) <= y
  BY <1>3, <1>4
<1> QED
  BY <1>2, <1>5 DEF F

\* What an import names is a module, and one its module depends on.
LEMMA LoImportado ==
  ASSUME TipoImportacion, TipoOK, NEW d, I!Importa(d)
  PROVE  d \in Modulos /\ d \in Directas(I!Cima.modulo)
<1>1. I!Cima \in I!Marcos
  BY LaDeEncima DEF I!Importa
<1>2. PICK i \in DOMAIN fuente[I!Cima.modulo] : d = fuente[I!Cima.modulo][i].modulo
  BY DEF I!Importa, I!Faltan, I!EnFunciones
<1>3. d \in Directas(I!Cima.modulo)
  BY <1>2 DEF Directas
<1> QED
  BY <1>1, <1>3, DirectasSonModulos DEF I!Marcos

\* The frames an import to run pushes.
LEMMA LosDosMas ==
  ASSUME TipoImportacion, TipoOK, NEW d, I!Importa(d), NEW n \in Nat, NEW r,
         r = Append(Append(I!Avanzados, I!Marco("importar", d, 0)), I!Marco("cuerpo", d, n))
  PROVE  /\ r \in Seq(I!Marcos) /\ Len(r) = Len(marcos) + 2
         /\ \A k \in 1 .. Len(marcos) :
              /\ r[k] = I!Avanzados[k]
              /\ r[k].tipo = marcos[k].tipo /\ r[k].modulo = marcos[k].modulo
         /\ r[Len(marcos) + 1] = I!Marco("importar", d, 0)
         /\ r[Len(marcos) + 2] = I!Marco("cuerpo", d, n)
<1>1. PICK q : q = I!Avanzados
  OBVIOUS
<1>2. /\ q \in Seq(I!Marcos) /\ Len(q) = Len(marcos)
      /\ \A k \in 1 .. Len(marcos) :
           q[k].tipo = marcos[k].tipo /\ q[k].modulo = marcos[k].modulo
  BY <1>1, LosAvanzados
<1> DEFINE e == I!Marco("importar", d, 0)
           f == I!Marco("cuerpo", d, n)
<1>3. e \in I!Marcos /\ f \in I!Marcos
  BY LoImportado DEF I!Marco, I!Marcos
<1> HIDE DEF e, f
<1>4. PICK p : p = Append(q, e)
  OBVIOUS
<1>5. r = Append(p, f)
  BY <1>1, <1>4 DEF e, f
<1>6. /\ p \in Seq(I!Marcos) /\ Len(p) = Len(marcos) + 1 /\ Len(marcos) \in Nat
      /\ \A k \in 1 .. Len(marcos) : p[k] = q[k]
      /\ p[Len(marcos) + 1] = e
  BY <1>2, <1>3, <1>4, UnoMas
<1>7. /\ r \in Seq(I!Marcos) /\ Len(r) = Len(p) + 1
      /\ \A k \in 1 .. Len(p) : r[k] = p[k]
      /\ r[Len(p) + 1] = f
  <2>1. p \in Seq(I!Marcos)
    BY <1>6
  <2> QED
    BY ONLY <2>1, <1>3, <1>5, UnoMas
<1>8. /\ Len(r) = Len(marcos) + 2 /\ r[Len(marcos) + 1] = e
      /\ \A k \in 1 .. Len(marcos) : r[k] = q[k]
  <2>1. Len(r) = Len(marcos) + 2
    BY <1>6, <1>7
  <2>2. Len(marcos) + 1 \in 1 .. Len(p)
    BY <1>6
  <2>3. \A k \in 1 .. Len(marcos) : k \in 1 .. Len(p)
    BY <1>6
  <2> QED
    BY <1>6, <1>7, <2>1, <2>2, <2>3
<1>9. r[Len(marcos) + 2] = f
  <2>1. Len(p) + 1 = Len(marcos) + 2
    BY <1>6
  <2> QED
    BY <1>7, <2>1
<1> QED
  BY <1>1, <1>2, <1>7, <1>8, <1>9 DEF e, f

\* A step keeps the shape of the state of the program.
LEMMA TipoImportacionInductivo ==
  ASSUME TipoOK, TipoImportacion, [NextPrograma]_<<vars, rt>>
  PROVE  TipoImportacion'
<1> USE DEF TipoImportacion, I!TipoImportacion
<1>1. CASE Ejecutar
  <2>1. exe.principal \in Modulos /\ exe.tabla \subseteq Modulos
    BY <1>1 DEF Ejecutar, TipoOK
  <2>2. I!Marco("cuerpo", exe.principal, 1) \in I!Marcos
    BY <2>1 DEF I!Marco, I!Marcos
  <2>3. marcos' \in Seq(I!Marcos)
    BY <1>1, <2>2 DEF Ejecutar, I!Arrancar
  <2> QED
    BY <1>1, <2>1, <2>3 DEF Ejecutar, I!Arrancar, I!Empieza
<1>2. ASSUME NEW d \in Modulos, I!ImportarListo(d)
      PROVE  TipoImportacion'
  <2>1. marcos' \in Seq(I!Marcos)
    BY <1>2, LosAvanzados DEF I!ImportarListo
  <2> QED
    BY <1>2, <2>1 DEF I!ImportarListo, I!Entregar, I!PorCargar
<1>3. ASSUME NEW d \in Modulos, I!ImportarYCargar(d)
      PROVE  TipoImportacion'
  <2>1. CASE d \in registro
    <3>1. cargas[d] + 1 \in Nat
      OBVIOUS
    <3>2. marcos' \in Seq(I!Marcos)
      BY <1>3, <2>1, <3>1, LosDosMas DEF I!ImportarYCargar
    <3> QED
      BY <1>3, <2>1, <3>2 DEF I!ImportarYCargar, I!Empieza
  <2>2. CASE d \notin registro
    BY <1>3, <2>2 DEF I!ImportarYCargar, I!Errores
  <2> QED
    BY <2>1, <2>2
<1>4. CASE I!Exportar
  <2>1. marcos' \in Seq(I!Marcos)
    BY <1>4, LosDeAbajo DEF I!Exportar
  <2>2. I!Cima.modulo \in Modulos /\ I!Cima.carga \in Nat
    BY <1>4, LaDeEncima DEF I!Exportar, I!Marcos
  <2> QED
    BY <1>4, <2>1, <2>2 DEF I!Exportar
<1>5. CASE I!ImportarK1
  <2>1. I!Cima.modulo \in Modulos
    BY <1>5, LaDeEncima DEF I!ImportarK1, I!Marcos
  <2>2. marcos' \in Seq(I!Marcos)
    BY <1>5, LosDeAbajo DEF I!ImportarK1
  <2>3. CASE I!Cima.modulo \in DOMAIN espacios
    BY <1>5, <2>1, <2>2, <2>3 DEF I!ImportarK1, I!Entregar
  <2>4. CASE I!Cima.modulo \notin DOMAIN espacios
    BY <1>5, <2>2, <2>4 DEF I!ImportarK1, I!Errores
  <2> QED
    BY <2>3, <2>4
<1>6. ASSUME NEW m \in Modulos, I!LlamarFuncion(m)
      PROVE  TipoImportacion'
  <2>1. I!Marco("funcion", m, 0) \in I!Marcos
    BY DEF I!Marco, I!Marcos
  <2>2. marcos' \in Seq(I!Marcos)
    BY <1>6, <2>1, UnoMas DEF I!LlamarFuncion
  <2> QED
    BY <1>6, <2>2 DEF I!LlamarFuncion
<1>7. CASE I!Retornar
  <2>1. marcos' \in Seq(I!Marcos)
    BY <1>7, LosDeAbajo DEF I!Retornar
  <2> QED
    BY <1>7, <2>1 DEF I!Retornar
<1>8. CASE UNCHANGED rt
  BY <1>8 DEF rt
<1> QED
  BY <1>1, <1>2, <1>3, <1>4, <1>5, <1>6, <1>7, <1>8
  DEF NextPrograma, PasoDePdc, EnPdc, PasoDelPrograma, I!Correr

-------------------------------------------------------------------------------
\* The registry has what its modules import, and only its modules run.
RegistroCerrado ==
  /\ \A m \in registro : Directas(m) \subseteq registro
  /\ \A m \in Modulos : cargas[m] > 0 => m \in registro
  /\ \A k \in 1 .. Len(marcos) : marcos[k].modulo \in registro

\* A frame that waits for a body has it right on top of it, until the body
\* ends and leaves its namespace.
Atendida(k) ==
  IF k = Len(marcos) THEN marcos[k].modulo \in DOMAIN espacios
  ELSE marcos[k + 1].tipo = "cuerpo" /\ marcos[k + 1].modulo = marcos[k].modulo

EsperasAtendidas ==
  \A k \in 1 .. Len(marcos) : marcos[k].tipo = "importar" => Atendida(k)

\* A step keeps all that runs among the modules of the registry.
LEMMA RegistroCerradoInductivo ==
  ASSUME TipoOK, EjecutableCompleto, TipoImportacion, RegistroCerrado,
         [NextPrograma]_<<vars, rt>>
  PROVE  RegistroCerrado'
<1>0. /\ \A m : Directas(m)' = Directas(m)
      /\ cargas \in [Modulos -> Nat] /\ registro \subseteq Modulos
  <2>1. fuente' = fuente
    BY FuenteNoCambia
  <2> QED
    BY <2>1, AlcanzablesNoCambia DEF TipoImportacion, I!TipoImportacion
<1>1. ASSUME registro' = registro, cargas' = cargas,
             \A k \in 1 .. Len(marcos') : marcos'[k].modulo \in registro
      PROVE  RegistroCerrado'
  BY <1>0, <1>1 DEF RegistroCerrado
<1>2. CASE Ejecutar
  <2> DEFINE p == exe.principal
  <2>1. p \in Modulos /\ exe.tabla = Alcanzables(p)
    BY <1>2 DEF Ejecutar, TipoOK, EjecutableCompleto
  <2>2. registro' = {p} \union Alcanzables(p)
    BY <1>2, <2>1 DEF Ejecutar, I!Arrancar
  <2>3. \A m \in registro' : Directas(m) \subseteq registro'
    BY <2>1, <2>2, AlcanzablesEsCerrado DEF CerradoPara
  <2>4. \A m \in Modulos : cargas'[m] > 0 => m = p
    BY <1>0, <1>2 DEF Ejecutar, I!Arrancar, I!Empieza, RegistroCerrado
  <2>5. Len(marcos') = 1 /\ marcos'[1].modulo = p
    BY <1>2 DEF Ejecutar, I!Arrancar, I!Marco
  <2> QED
    BY <1>0, <2>2, <2>3, <2>4, <2>5 DEF RegistroCerrado
<1>3. ASSUME NEW d \in Modulos, I!ImportarListo(d)
      PROVE  RegistroCerrado'
  <2>1. PICK q : q = I!Avanzados
    OBVIOUS
  <2>2. /\ Len(q) = Len(marcos)
        /\ \A k \in 1 .. Len(marcos) : q[k].modulo = marcos[k].modulo
    BY <1>3, <2>1, LosAvanzados DEF I!ImportarListo
  <2>3. marcos' = q /\ registro' = registro /\ cargas' = cargas
    BY <1>3, <2>1 DEF I!ImportarListo
  <2> QED
    BY <1>1, <2>2, <2>3 DEF RegistroCerrado
<1>4. ASSUME NEW d \in Modulos, I!ImportarYCargar(d)
      PROVE  RegistroCerrado'
  <2>1. d \in registro
    BY <1>4, LoImportado, LaDeEncima DEF I!ImportarYCargar, I!Importa, RegistroCerrado
  <2>2. /\ cargas' = [cargas EXCEPT ![d] = @ + 1] /\ registro' = registro
        /\ marcos' = Append(Append(I!Avanzados, I!Marco("importar", d, 0)),
                            I!Marco("cuerpo", d, cargas[d] + 1))
    BY <1>4, <2>1 DEF I!ImportarYCargar, I!Empieza
  <2>3. I!Importa(d) /\ cargas[d] + 1 \in Nat
    BY <1>0, <1>4 DEF I!ImportarYCargar
  <2>4. PICK r : r = marcos'
    OBVIOUS
  <2>5. PICK n \in Nat : n = cargas[d] + 1
    BY <2>3
  <2>6. /\ Len(r) = Len(marcos) + 2
        /\ \A k \in 1 .. Len(marcos) : r[k].modulo = marcos[k].modulo
        /\ r[Len(marcos) + 1].modulo = d /\ r[Len(marcos) + 2].modulo = d
    <3>1. r = Append(Append(I!Avanzados, I!Marco("importar", d, 0)), I!Marco("cuerpo", d, n))
      BY <2>2, <2>4, <2>5
    <3>2. /\ Len(r) = Len(marcos) + 2
          /\ \A k \in 1 .. Len(marcos) :
               r[k].tipo = marcos[k].tipo /\ r[k].modulo = marcos[k].modulo
          /\ r[Len(marcos) + 1] = I!Marco("importar", d, 0)
          /\ r[Len(marcos) + 2] = I!Marco("cuerpo", d, n)
      BY <2>3, <3>1, LosDosMas, SMTT(30)
    <3> QED
      BY <3>2 DEF I!Marco
  <2>7. Len(marcos) \in Nat
    BY <2>3, LaDeEncima DEF I!Importa
  <2>8. \A k \in 1 .. Len(r) : r[k].modulo \in registro
    <3>1. ASSUME NEW k \in 1 .. Len(marcos) + 2
          PROVE  k \in 1 .. Len(marcos) \/ k = Len(marcos) + 1 \/ k = Len(marcos) + 2
      BY <2>7
    <3> QED
      BY <2>1, <2>6, <3>1 DEF RegistroCerrado
  <2>9. \A m \in Modulos : cargas'[m] > 0 => m \in registro
    BY <1>0, <2>1, <2>2 DEF RegistroCerrado
  <2> QED
    BY <1>0, <2>2, <2>4, <2>8, <2>9 DEF RegistroCerrado
<1>5. CASE I!Exportar \/ I!ImportarK1 \/ I!Retornar
  <2>1. registro' = registro /\ cargas' = cargas /\ marcos # <<>>
    BY <1>5 DEF I!Exportar, I!ImportarK1, I!Retornar
  <2>2. PICK q : q = I!Abajo
    OBVIOUS
  <2>3. marcos' = q \/ marcos' = marcos
    BY <1>5, <2>2 DEF I!Exportar, I!ImportarK1, I!Retornar
  <2>4. /\ Len(q) = Len(marcos) - 1 /\ Len(marcos) \in Nat
        /\ \A k \in 1 .. Len(marcos) - 1 : q[k] = marcos[k]
    BY <2>1, <2>2, LosDeAbajo, LaDeEncima
  <2>5. \A k \in 1 .. Len(q) : q[k].modulo \in registro
    BY <2>4 DEF RegistroCerrado
  <2> QED
    BY <1>1, <2>1, <2>3, <2>5 DEF RegistroCerrado
<1>6. ASSUME NEW m \in Modulos, I!LlamarFuncion(m)
      PROVE  RegistroCerrado'
  <2> DEFINE f == I!Marco("funcion", m, 0)
  <2>1. m \in registro /\ registro' = registro /\ cargas' = cargas
    BY <1>6 DEF I!LlamarFuncion, RegistroCerrado
  <2>2. f \in I!Marcos /\ f.modulo = m /\ marcos \in Seq(I!Marcos)
    BY DEF I!Marco, I!Marcos, TipoImportacion, I!TipoImportacion
  <2>3. marcos' = Append(marcos, f)
    BY <1>6 DEF I!LlamarFuncion
  <2> HIDE DEF f
  <2>4. PICK r : r = marcos'
    OBVIOUS
  <2>5. /\ Len(r) = Len(marcos) + 1 /\ Len(marcos) \in Nat
        /\ \A k \in 1 .. Len(marcos) : r[k] = marcos[k]
        /\ r[Len(marcos) + 1] = f
    BY <2>2, <2>3, <2>4, UnoMas
  <2>6. ASSUME NEW k \in 1 .. Len(marcos) + 1
        PROVE  r[k].modulo \in registro
    <3>1. k \in 1 .. Len(marcos) \/ k = Len(marcos) + 1
      BY <2>5
    <3> QED
      BY <2>1, <2>2, <2>5, <3>1 DEF RegistroCerrado
  <2> QED
    BY <1>1, <2>1, <2>4, <2>5, <2>6
<1>7. CASE UNCHANGED rt
  BY <1>1, <1>7 DEF rt, RegistroCerrado
<1> QED
  BY <1>2, <1>3, <1>4, <1>5, <1>6, <1>7
  DEF NextPrograma, PasoDePdc, EnPdc, PasoDelPrograma, I!Correr

\* A step leaves no frame waiting for what is not there.
LEMMA EsperasInductivo ==
  ASSUME TipoOK, TipoImportacion, EsperasAtendidas, [NextPrograma]_<<vars, rt>>
  PROVE  EsperasAtendidas'
<1>1. ASSUME NEW q, marcos' = q, DOMAIN espacios \subseteq DOMAIN espacios',
             Len(q) = Len(marcos),
             \A k \in 1 .. Len(marcos) :
               q[k].tipo = marcos[k].tipo /\ q[k].modulo = marcos[k].modulo
      PROVE  EsperasAtendidas'
  <2>1. Len(marcos) \in Nat
    BY LenProperties DEF TipoImportacion, I!TipoImportacion
  <2>2. ASSUME NEW k \in 1 .. Len(q), q[k].tipo = "importar"
        PROVE  IF k = Len(q) THEN q[k].modulo \in DOMAIN espacios'
               ELSE q[k + 1].tipo = "cuerpo" /\ q[k + 1].modulo = q[k].modulo
    <3>1. Atendida(k)
      BY <1>1, <2>2 DEF EsperasAtendidas
    <3>2. k # Len(q) => k + 1 \in 1 .. Len(marcos)
      BY <1>1, <2>1
    <3> QED
      BY <1>1, <3>1, <3>2 DEF Atendida
  <2> QED
    BY <1>1, <2>2 DEF EsperasAtendidas, Atendida
<1>2. CASE Ejecutar
  BY <1>2 DEF Ejecutar, I!Arrancar, I!Marco, EsperasAtendidas
<1>3. ASSUME NEW d \in Modulos, I!ImportarListo(d)
      PROVE  EsperasAtendidas'
  <2>1. PICK q : q = I!Avanzados
    OBVIOUS
  <2>2. /\ Len(q) = Len(marcos)
        /\ \A k \in 1 .. Len(marcos) :
             q[k].tipo = marcos[k].tipo /\ q[k].modulo = marcos[k].modulo
    BY <1>3, <2>1, LosAvanzados DEF I!ImportarListo
  <2>3. marcos' = q /\ espacios' = espacios
    BY <1>3, <2>1 DEF I!ImportarListo
  <2> QED
    BY <1>1, <2>2, <2>3
<1>4. ASSUME NEW d \in Modulos, I!ImportarYCargar(d)
      PROVE  EsperasAtendidas'
  <2>1. CASE d \notin registro
    BY <1>1, <1>4, <2>1 DEF I!ImportarYCargar
  <2>2. CASE d \in registro
    <3>1. I!Importa(d) /\ espacios' = espacios
      BY <1>4 DEF I!ImportarYCargar
    <3>2. PICK r : r = marcos'
      OBVIOUS
    <3>3. PICK n \in Nat : n = cargas[d] + 1
      BY DEF TipoImportacion, I!TipoImportacion
    <3>4. r = Append(Append(I!Avanzados, I!Marco("importar", d, 0)), I!Marco("cuerpo", d, n))
      BY <1>4, <2>2, <3>2, <3>3 DEF I!ImportarYCargar
    <3>5. /\ Len(r) = Len(marcos) + 2
          /\ \A k \in 1 .. Len(marcos) :
               r[k].tipo = marcos[k].tipo /\ r[k].modulo = marcos[k].modulo
          /\ r[Len(marcos) + 1] = I!Marco("importar", d, 0)
          /\ r[Len(marcos) + 2] = I!Marco("cuerpo", d, n)
      BY <3>1, <3>4, LosDosMas
    <3>6. /\ r[Len(marcos) + 1].modulo = d /\ r[Len(marcos) + 2].modulo = d
          /\ r[Len(marcos) + 2].tipo = "cuerpo"
      BY <3>5 DEF I!Marco
    <3>7. /\ Len(marcos) \in Nat \ {0}
          /\ marcos[Len(marcos)].tipo # "importar"
      BY <3>1, LaDeEncima DEF I!Importa
    <3>8. ASSUME NEW k \in 1 .. Len(r), r[k].tipo = "importar"
          PROVE  k # Len(r) /\ r[k + 1].tipo = "cuerpo" /\ r[k + 1].modulo = r[k].modulo
      <4>1. CASE k \in 1 .. Len(marcos)
        <5>1. k # Len(marcos) /\ marcos[k].tipo = "importar"
          BY <3>5, <3>7, <3>8, <4>1
        <5>2. k + 1 \in 1 .. Len(marcos)
          BY <3>7, <4>1, <5>1
        <5>3. marcos[k + 1].tipo = "cuerpo" /\ marcos[k + 1].modulo = marcos[k].modulo
          BY <4>1, <5>1 DEF EsperasAtendidas, Atendida
        <5>4. k # Len(r)
          BY <3>5, <3>7, <4>1
        <5> QED
          BY <3>5, <4>1, <5>2, <5>3, <5>4
      <4>2. CASE k = Len(marcos) + 1
        <5>1. k + 1 = Len(marcos) + 2 /\ k # Len(r)
          BY <3>5, <3>7, <4>2
        <5> QED
          BY <3>6, <4>2, <5>1
      <4>3. CASE k = Len(marcos) + 2
        BY <3>6, <3>8, <4>3
      <4>4. k \in 1 .. Len(marcos) \/ k = Len(marcos) + 1 \/ k = Len(marcos) + 2
        BY <3>5, <3>7
      <4> QED
        BY <4>1, <4>2, <4>3, <4>4
    <3> QED
      BY <3>2, <3>8 DEF EsperasAtendidas, Atendida
  <2> QED
    BY <2>1, <2>2
<1>5. ASSUME marcos' = I!Abajo, marcos # <<>>,
             I!Cima.tipo = "cuerpo" => I!Cima.modulo \in DOMAIN espacios'
      PROVE  EsperasAtendidas'
  <2>1. PICK q : q = I!Abajo
    OBVIOUS
  <2>2. /\ Len(q) = Len(marcos) - 1 /\ Len(marcos) \in Nat \ {0}
        /\ \A k \in 1 .. Len(marcos) - 1 : q[k] = marcos[k]
        /\ I!Cima = marcos[Len(marcos)]
    BY <1>5, <2>1, LosDeAbajo, LaDeEncima
  <2>3. ASSUME NEW k \in 1 .. Len(q), q[k].tipo = "importar"
        PROVE  IF k = Len(q) THEN q[k].modulo \in DOMAIN espacios'
               ELSE q[k + 1].tipo = "cuerpo" /\ q[k + 1].modulo = q[k].modulo
    <3>1. k \in 1 .. Len(marcos) /\ k # Len(marcos) /\ q[k] = marcos[k]
      BY <2>2
    <3>2. marcos[k + 1].tipo = "cuerpo" /\ marcos[k + 1].modulo = marcos[k].modulo
      BY <2>3, <3>1 DEF EsperasAtendidas, Atendida
    <3>3. CASE k = Len(q)
      <4>1. k + 1 = Len(marcos)
        BY <2>2, <3>3
      <4> QED
        BY <1>5, <2>2, <3>1, <3>2, <3>3, <4>1
    <3>4. CASE k # Len(q)
      <4>1. k + 1 \in 1 .. Len(marcos) - 1
        BY <2>2, <3>1, <3>4
      <4> QED
        BY <2>2, <3>1, <3>2, <3>4, <4>1
    <3> QED
      BY <3>3, <3>4
  <2> QED
    BY <1>5, <2>1, <2>3 DEF EsperasAtendidas, Atendida
<1>6. CASE marcos' = marcos /\ espacios' = espacios
  BY <1>1, <1>6
<1>7. ASSUME NEW m \in Modulos, I!LlamarFuncion(m)
      PROVE  EsperasAtendidas'
  <2> DEFINE f == I!Marco("funcion", m, 0)
  <2>1. f \in I!Marcos /\ f.tipo = "funcion" /\ marcos \in Seq(I!Marcos)
    BY DEF I!Marco, I!Marcos, TipoImportacion, I!TipoImportacion
  <2>2. /\ marcos' = Append(marcos, f) /\ marcos # <<>> /\ espacios' = espacios
        /\ I!Cima.tipo # "importar"
    BY <1>7 DEF I!LlamarFuncion
  <2> HIDE DEF f
  <2>3. PICK r : r = marcos'
    OBVIOUS
  <2>4. /\ Len(r) = Len(marcos) + 1
        /\ \A k \in 1 .. Len(marcos) : r[k] = marcos[k]
        /\ r[Len(marcos) + 1] = f
    BY <2>1, <2>2, <2>3, UnoMas
  <2>5. Len(marcos) \in Nat /\ marcos[Len(marcos)].tipo # "importar"
    BY <2>2, LaDeEncima
  <2>6. ASSUME NEW k \in 1 .. Len(r), r[k].tipo = "importar"
        PROVE  k # Len(r) /\ r[k + 1].tipo = "cuerpo" /\ r[k + 1].modulo = r[k].modulo
    <3>1. k # Len(marcos) + 1
      BY <2>1, <2>4, <2>6
    <3>2. k \in 1 .. Len(marcos)
      BY <2>4, <2>5, <3>1
    <3>3. k # Len(marcos) /\ marcos[k].tipo = "importar"
      BY <2>4, <2>5, <2>6, <3>2
    <3>4. marcos[k + 1].tipo = "cuerpo" /\ marcos[k + 1].modulo = marcos[k].modulo
      BY <3>2, <3>3 DEF EsperasAtendidas, Atendida
    <3>5. k + 1 \in 1 .. Len(marcos) /\ k # Len(r)
      BY <2>4, <2>5, <3>2, <3>3
    <3> QED
      BY <2>4, <3>2, <3>4, <3>5
  <2> QED
    BY <2>3, <2>6 DEF EsperasAtendidas, Atendida
<1>8. CASE I!Exportar
  <2>1. I!Cima.modulo \in DOMAIN espacios'
    BY <1>8 DEF I!Exportar
  <2> QED
    BY <1>5, <1>8, <2>1 DEF I!Exportar
<1>9. CASE I!ImportarK1 \/ I!Retornar
  BY <1>5, <1>6, <1>9 DEF I!ImportarK1, I!Retornar
<1> QED
  BY <1>2, <1>3, <1>4, <1>6, <1>7, <1>8, <1>9
  DEF NextPrograma, PasoDePdc, EnPdc, PasoDelPrograma, I!Correr, rt

\* An import is answered: the registry has it, and its body left its namespace.
LEMMA ImportarInductivo ==
  ASSUME TipoOK, TipoImportacion, RegistroCerrado, EsperasAtendidas, ImportarNoFalla,
         [NextPrograma]_<<vars, rt>>
  PROVE  ImportarNoFalla'
<1> USE DEF ImportarNoFalla, I!ImportarNoFalla
<1>1. ASSUME NEW d \in Modulos, I!ImportarYCargar(d)
      PROVE  error' = NINGUNO
  <2>1. d \in registro
    BY <1>1, LoImportado, LaDeEncima DEF I!ImportarYCargar, I!Importa, RegistroCerrado
  <2> QED
    BY <1>1, <2>1 DEF I!ImportarYCargar
<1>2. CASE I!ImportarK1
  <2>1. /\ Len(marcos) \in 1 .. Len(marcos) /\ I!Cima = marcos[Len(marcos)]
        /\ I!Cima.tipo = "importar"
    BY <1>2, LaDeEncima DEF I!ImportarK1
  <2>2. I!Cima.modulo \in DOMAIN espacios
    BY <2>1 DEF EsperasAtendidas, Atendida
  <2> QED
    BY <1>2, <2>2 DEF I!ImportarK1
<1> QED
  BY <1>1, <1>2
  DEF NextPrograma, PasoDePdc, EnPdc, Ejecutar, PasoDelPrograma, rt, I!Correr, I!Arrancar,
      I!ImportarListo, I!Exportar, I!LlamarFuncion, I!Retornar

-------------------------------------------------------------------------------
\* What body frame k has imported at place i is there, or is being loaded by a
\* frame above it.
Cubierta(q, e, k, m) ==
  \/ m \in e
  \/ \E j \in 1 .. Len(q) : j > k /\ q[j].tipo = "importar" /\ q[j].modulo = m

Pasada(q, k, i) ==
  /\ q[k].tipo = "cuerpo" /\ i \in DOMAIN fuente[q[k].modulo]
  /\ i < q[k].pos /\ fuente[q[k].modulo][i].en = "cuerpo"

Listas(q, e) ==
  \A k \in 1 .. Len(q) : \A i \in DOMAIN fuente[q[k].modulo] :
    Pasada(q, k, i) => Cubierta(q, e, k, fuente[q[k].modulo][i].modulo)

\* DependenciasListas with the frames and the namespaces as parameters.
LEMMA ListasEsDependenciasListas ==
  ASSUME TipoImportacion
  PROVE  DependenciasListas <=> Listas(marcos, DOMAIN espacios)
<1>1. DOMAIN marcos = 1 .. Len(marcos)
  BY LenProperties DEF TipoImportacion, I!TipoImportacion
<1> QED
  BY <1>1 DEF DependenciasListas, I!DependenciasListas, Listas, Pasada, Cubierta

\* The frames of after a step are covered when each import of theirs was passed
\* before, or is covered now, and no frame that waited went without its module.
LEMMA QuedanListas ==
  ASSUME NEW p, NEW q, NEW e, NEW f, Listas(p, e), e \subseteq f,
         \A k \in 1 .. Len(q) : \A i \in DOMAIN fuente[q[k].modulo] :
           Pasada(q, k, i) =>
             \/ k \in 1 .. Len(p) /\ Pasada(p, k, i) /\ p[k].modulo = q[k].modulo
             \/ Cubierta(q, f, k, fuente[q[k].modulo][i].modulo),
         \A j \in 1 .. Len(p) : p[j].tipo = "importar" =>
           \/ p[j].modulo \in f
           \/ j \in 1 .. Len(q) /\ q[j].tipo = "importar" /\ q[j].modulo = p[j].modulo
  PROVE  Listas(q, f)
<1> SUFFICES ASSUME NEW k \in 1 .. Len(q), NEW i \in DOMAIN fuente[q[k].modulo],
                    Pasada(q, k, i)
             PROVE  Cubierta(q, f, k, fuente[q[k].modulo][i].modulo)
  BY DEF Listas
<1>1. CASE k \in 1 .. Len(p) /\ Pasada(p, k, i) /\ p[k].modulo = q[k].modulo
  <2> DEFINE m == fuente[q[k].modulo][i].modulo
  <2>1. Cubierta(p, e, k, m)
    BY <1>1 DEF Listas
  <2>2. CASE m \in e
    BY <2>2 DEF Cubierta
  <2>3. ASSUME NEW j \in 1 .. Len(p), j > k, p[j].tipo = "importar", p[j].modulo = m
        PROVE  Cubierta(q, f, k, m)
    BY <2>3 DEF Cubierta
  <2> QED
    BY <2>1, <2>2, <2>3 DEF Cubierta
<1> QED
  BY <1>1

\* A step leaves no body past an import that is not there.
LEMMA ListasInductivo ==
  ASSUME TipoOK, TipoImportacion, DependenciasListas, [NextPrograma]_<<vars, rt>>
  PROVE  Listas(marcos, DOMAIN espacios)'
<1>0. /\ fuente' = fuente /\ Listas(marcos, DOMAIN espacios)
      /\ \A q, e : Listas(q, e)' <=> Listas(q', e')
      /\ marcos \in Seq(I!Marcos) /\ Len(marcos) \in Nat
  <2>1. fuente' = fuente
    BY FuenteNoCambia
  <2> QED
    BY <2>1, ListasEsDependenciasListas, LenProperties
    DEF Listas, Pasada, Cubierta, TipoImportacion, I!TipoImportacion
<1>1. SUFFICES Listas(marcos', DOMAIN espacios')
  BY <1>0 DEF Listas, Pasada, Cubierta
<1>2. CASE Ejecutar
  <2>1. marcos' = <<I!Marco("cuerpo", exe.principal, 1)>>
    BY <1>2 DEF Ejecutar, I!Arrancar
  <2>2. exe.principal \in Modulos
    BY <1>2 DEF Ejecutar, TipoOK
  <2>3. fuente[exe.principal] \in Seq(Importaciones)
    BY <2>2, FuentesSonProgramas DEF TipoOK
  <2> QED
    BY <2>1, <2>3, LenProperties DEF Listas, Pasada, I!Marco
<1>3. ASSUME NEW d \in Modulos, I!Importa(d),
             NEW q, q = I!Avanzados, NEW r \in Seq(I!Marcos), NEW e,
             Len(marcos) <= Len(r),
             \A k \in 1 .. Len(marcos) : r[k] = q[k],
             \A k \in 1 .. Len(r) : k > Len(marcos) => r[k].tipo # "cuerpo" \/ r[k].pos = 1,
             DOMAIN espacios \subseteq e,
             Cubierta(r, e, Len(marcos), d)
      PROVE  Listas(r, e)
  <2>1. /\ \A k \in 1 .. Len(marcos) - 1 : q[k] = marcos[k]
        /\ q[Len(marcos)] = IF I!Cima.tipo = "cuerpo"
                            THEN [I!Cima EXCEPT !.pos = I!Proxima(I!Cima) + 1] ELSE I!Cima
        /\ \A k \in 1 .. Len(marcos) :
             q[k].tipo = marcos[k].tipo /\ q[k].modulo = marcos[k].modulo
    BY <1>3, LosAvanzados
  <2>2. Len(marcos) \in Nat \ {0} /\ I!Cima = marcos[Len(marcos)] /\ I!Cima \in I!Marcos
    BY <1>3, LaDeEncima DEF I!Importa
  <2>3. ASSUME NEW k \in 1 .. Len(r), NEW i \in DOMAIN fuente[r[k].modulo], Pasada(r, k, i)
        PROVE  \/ k \in 1 .. Len(marcos) /\ Pasada(marcos, k, i) /\ marcos[k].modulo = r[k].modulo
               \/ Cubierta(r, e, k, fuente[r[k].modulo][i].modulo)
    <3>1. CASE k \in 1 .. Len(marcos) - 1
      <4>1. k \in 1 .. Len(marcos) /\ r[k] = marcos[k]
        BY <1>3, <2>1, <2>2, <3>1
      <4> QED
        BY <2>3, <4>1 DEF Pasada
    <3>2. CASE k = Len(marcos)
      <4>1. k \in 1 .. Len(marcos) /\ r[k] = q[k] /\ marcos[k] = I!Cima
        BY <1>3, <2>2, <3>2
      <4>2. I!Cima.tipo = "cuerpo" /\ r[k].modulo = I!Cima.modulo
        BY <2>1, <2>3, <4>1 DEF Pasada
      <4>3. r[k].pos = I!Proxima(I!Cima) + 1
        BY <2>1, <2>2, <3>2, <4>1, <4>2 DEF I!Marcos
      <4>4. CASE i \in I!Faltan(I!Cima)
        <5>1. I!Proxima(I!Cima) \in I!Faltan(I!Cima) /\ i \in Nat /\ I!Proxima(I!Cima) <= i
          BY <2>2, <4>4, LaProxima
        <5>2. I!Proxima(I!Cima) \in Nat
          BY <2>2, <5>1, LaProxima
        <5>3. i = I!Proxima(I!Cima)
          BY <2>3, <4>3, <5>1, <5>2 DEF Pasada
        <5>4. d = fuente[I!Cima.modulo][i].modulo
          BY <1>3, <4>2, <5>3 DEF I!Importa
        <5> QED
          BY <1>3, <3>2, <4>2, <5>4
      <4>5. CASE i \notin I!Faltan(I!Cima)
        <5>1. fuente[I!Cima.modulo] \in Seq(Importaciones)
          BY <2>2, FuentesSonProgramas DEF TipoOK, I!Marcos
        <5>2. i \in Nat /\ I!Cima.pos \in Nat
          BY <2>2, <4>2, <5>1, LenProperties DEF I!Marcos
        <5>3. i < I!Cima.pos
          BY <2>3, <4>2, <4>5, <5>2 DEF Pasada, I!Faltan
        <5> QED
          BY <2>3, <4>1, <4>2, <5>3 DEF Pasada
      <4> QED
        BY <4>4, <4>5
    <3>3. CASE k > Len(marcos)
      <4>1. r[k].pos = 1
        BY <1>3, <2>3, <3>3 DEF Pasada
      <4>2. r[k] \in I!Marcos
        BY <1>3, ElementOfSeq
      <4>3. fuente[r[k].modulo] \in Seq(Importaciones)
        BY <4>2, FuentesSonProgramas DEF TipoOK, I!Marcos
      <4>4. i >= 1 /\ i \in Nat
        BY <4>3, LenProperties
      <4> QED
        BY <2>3, <4>1, <4>4 DEF Pasada
    <3> QED
      BY <1>3, <2>2, <3>1, <3>2, <3>3
  <2>4. \A j \in 1 .. Len(marcos) : marcos[j].tipo = "importar" =>
          j \in 1 .. Len(r) /\ r[j].tipo = "importar" /\ r[j].modulo = marcos[j].modulo
    BY <1>3, <2>1, <2>2
  <2> QED
    BY <1>0, <1>3, <2>3, <2>4, QuedanListas
<1>4. ASSUME NEW d \in Modulos, I!ImportarListo(d)
      PROVE  Listas(marcos', DOMAIN espacios')
  <2>1. PICK q : q = I!Avanzados
    OBVIOUS
  <2>2. I!Importa(d) /\ marcos' = q /\ espacios' = espacios /\ d \in DOMAIN espacios
    BY <1>4, <2>1 DEF I!ImportarListo, I!PorCargar
  <2>3. q \in Seq(I!Marcos) /\ Len(q) = Len(marcos)
    BY <2>1, <2>2, LosAvanzados
  <2>4. Cubierta(q, DOMAIN espacios, Len(marcos), d)
    BY <2>2 DEF Cubierta
  <2> QED
    BY <1>0, <1>3, <2>1, <2>2, <2>3, <2>4
<1>5. ASSUME NEW d \in Modulos, I!ImportarYCargar(d)
      PROVE  Listas(marcos', DOMAIN espacios')
  <2>1. CASE d \notin registro
    BY <1>0, <1>5, <2>1 DEF I!ImportarYCargar
  <2>2. CASE d \in registro
    <3>1. I!Importa(d) /\ espacios' = espacios
      BY <1>5 DEF I!ImportarYCargar
    <3>2. PICK r : r = marcos'
      OBVIOUS
    <3>3. PICK n \in Nat : n = cargas[d] + 1
      BY DEF TipoImportacion, I!TipoImportacion
    <3>4. r = Append(Append(I!Avanzados, I!Marco("importar", d, 0)), I!Marco("cuerpo", d, n))
      BY <1>5, <2>2, <3>2, <3>3 DEF I!ImportarYCargar
    <3>5. PICK q : q = I!Avanzados
      OBVIOUS
    <3>6. /\ r \in Seq(I!Marcos) /\ Len(r) = Len(marcos) + 2
          /\ \A k \in 1 .. Len(marcos) : r[k] = q[k]
          /\ r[Len(marcos) + 1] = I!Marco("importar", d, 0)
          /\ r[Len(marcos) + 2] = I!Marco("cuerpo", d, n)
      BY <3>1, <3>4, <3>5, LosDosMas, ZenonT(60)
    <3>7. /\ r[Len(marcos) + 1].tipo = "importar" /\ r[Len(marcos) + 1].modulo = d
          /\ r[Len(marcos) + 2].pos = 1
      BY <3>6 DEF I!Marco
    <3>8. Cubierta(r, DOMAIN espacios, Len(marcos), d)
      <4>1. Len(marcos) + 1 \in 1 .. Len(r) /\ Len(marcos) + 1 > Len(marcos)
        BY <1>0, <3>6
      <4> QED
        BY <3>7, <4>1 DEF Cubierta
    <3>9. ASSUME NEW k \in 1 .. Len(r), k > Len(marcos)
          PROVE  r[k].tipo # "cuerpo" \/ r[k].pos = 1
      <4>1. k = Len(marcos) + 1 \/ k = Len(marcos) + 2
        BY <1>0, <3>6, <3>9
      <4> QED
        BY <3>7, <4>1
    <3> QED
      BY <1>0, <1>3, <3>1, <3>2, <3>5, <3>6, <3>8, <3>9
  <2> QED
    BY <2>1, <2>2
<1>6. ASSUME marcos' = I!Abajo, marcos # <<>>, DOMAIN espacios \subseteq DOMAIN espacios',
             I!Cima.tipo = "importar" => I!Cima.modulo \in DOMAIN espacios'
      PROVE  Listas(marcos', DOMAIN espacios')
  <2>1. PICK q : q = I!Abajo
    OBVIOUS
  <2>2. /\ Len(q) = Len(marcos) - 1 /\ Len(marcos) \in Nat \ {0}
        /\ \A k \in 1 .. Len(marcos) - 1 : q[k] = marcos[k]
        /\ I!Cima = marcos[Len(marcos)]
    BY <1>6, <2>1, LosDeAbajo, LaDeEncima
  <2>3. \A k \in 1 .. Len(q) : k \in 1 .. Len(marcos) /\ q[k] = marcos[k]
    BY <2>2
  <2>4. \A j \in 1 .. Len(marcos) : j \in 1 .. Len(q) \/ j = Len(marcos)
    BY <2>2
  <2>5. \A j \in 1 .. Len(marcos) : marcos[j].tipo = "importar" =>
          \/ marcos[j].modulo \in DOMAIN espacios'
          \/ j \in 1 .. Len(q) /\ q[j].tipo = "importar" /\ q[j].modulo = marcos[j].modulo
    BY <1>6, <2>2, <2>3, <2>4
  <2>6. \A k \in 1 .. Len(q) : \A i \in DOMAIN fuente[q[k].modulo] :
          Pasada(q, k, i) =>
            k \in 1 .. Len(marcos) /\ Pasada(marcos, k, i) /\ marcos[k].modulo = q[k].modulo
    BY <2>3 DEF Pasada
  <2> QED
    BY <1>0, <1>6, <2>1, <2>5, <2>6, QuedanListas
<1>7. ASSUME NEW m \in Modulos, I!LlamarFuncion(m)
      PROVE  Listas(marcos', DOMAIN espacios')
  <2> DEFINE f == I!Marco("funcion", m, 0)
  <2>1. f \in I!Marcos /\ f.tipo = "funcion"
    BY DEF I!Marco, I!Marcos
  <2>2. marcos' = Append(marcos, f) /\ espacios' = espacios
    BY <1>7 DEF I!LlamarFuncion
  <2> HIDE DEF f
  <2>3. PICK r : r = marcos'
    OBVIOUS
  <2>4. /\ Len(r) = Len(marcos) + 1
        /\ \A k \in 1 .. Len(marcos) : r[k] = marcos[k]
        /\ r[Len(marcos) + 1] = f
    BY <1>0, <2>1, <2>2, <2>3, UnoMas
  <2>5. \A k \in 1 .. Len(r) : k \in 1 .. Len(marcos) \/ k = Len(marcos) + 1
    BY <1>0, <2>4
  <2>6. \A k \in 1 .. Len(r) : \A i \in DOMAIN fuente[r[k].modulo] :
          Pasada(r, k, i) =>
            k \in 1 .. Len(marcos) /\ Pasada(marcos, k, i) /\ marcos[k].modulo = r[k].modulo
    BY <2>1, <2>4, <2>5 DEF Pasada
  <2>7. \A j \in 1 .. Len(marcos) :
          j \in 1 .. Len(r) /\ r[j] = marcos[j]
    BY <1>0, <2>4
  <2> QED
    <3>1. Listas(r, DOMAIN espacios)
      BY <1>0, <2>6, <2>7, QuedanListas
    <3> QED
      BY <2>2, <2>3, <3>1
<1>8. CASE I!Exportar
  BY <1>6, <1>8 DEF I!Exportar
<1>9. CASE I!ImportarK1 \/ I!Retornar
  BY <1>0, <1>6, <1>9 DEF I!ImportarK1, I!Retornar
<1>10. CASE marcos' = marcos /\ espacios' = espacios
  BY <1>0, <1>10
<1> QED
  BY <1>2, <1>4, <1>5, <1>7, <1>8, <1>9, <1>10
  DEF NextPrograma, PasoDePdc, EnPdc, PasoDelPrograma, I!Correr, rt

-------------------------------------------------------------------------------
\* No module of the registry depends on itself.
RegistroSinCiclos == SinCiclo(registro)

\* A module whose body began has its namespace, or its body is still running.
Cargado(q, e, m) ==
  m \in e \/ \E j \in 1 .. Len(q) : q[j].tipo = "cuerpo" /\ q[j].modulo = m

Cargados == \A m \in Modulos : cargas[m] > 0 => Cargado(marcos, DOMAIN espacios, m)

\* Without a function in between, what runs above a body is something its module
\* depends on.
Cadena(q) ==
  \A j, k \in 1 .. Len(q) :
    j < k /\ q[j].tipo = "cuerpo" /\ (\A l \in j + 1 .. k : q[l].tipo # "funcion")
      => q[k].modulo \in Alcanzables(q[j].modulo)

CargaEnOrden == RegistroSinCiclos /\ Cargados /\ Cadena(marcos)

\* An import that would load a module again comes from a function, called from
\* that module's body or from what it imported.
LEMMA RecargaDesdeFuncion ==
  ASSUME TipoOK, TipoImportacion, RegistroCerrado, CargaEnOrden,
         NEW d, I!Importa(d), I!PorCargar(d), cargas[d] > 0
  PROVE  \E j, k \in DOMAIN marcos :
           /\ j < k /\ marcos[j].tipo = "cuerpo" /\ marcos[j].modulo = d
           /\ marcos[k].tipo = "funcion"
<1> DEFINE n == Len(marcos)
<1>1. /\ d \in Modulos /\ d \in Directas(I!Cima.modulo)
      /\ n \in Nat \ {0} /\ DOMAIN marcos = 1 .. n
      /\ I!Cima = marcos[n] /\ I!Cima.modulo \in Modulos
  BY LoImportado, LaDeEncima DEF I!Importa, I!Marcos
<1>2. PICK j \in 1 .. n : marcos[j].tipo = "cuerpo" /\ marcos[j].modulo = d
  BY <1>1 DEF CargaEnOrden, Cargados, Cargado, I!PorCargar
<1>3. d \in registro /\ d \notin Alcanzables(d)
  BY <1>2 DEF RegistroCerrado, CargaEnOrden, RegistroSinCiclos, SinCiclo
<1>4. CerradoPara(d, Alcanzables(d))
  BY <1>1, AlcanzablesEsCerrado
<1>5. ASSUME \A k \in j + 1 .. n : marcos[k].tipo # "funcion"
      PROVE  FALSE
  <2>1. CASE j = n
    BY <1>1, <1>2, <1>3, <1>4, <2>1 DEF CerradoPara
  <2>2. CASE j < n
    <3>1. I!Cima.modulo \in Alcanzables(d)
      BY <1>1, <1>2, <1>5, <2>2 DEF CargaEnOrden, Cadena
    <3> QED
      BY <1>1, <1>3, <1>4, <3>1 DEF CerradoPara
  <2> QED
    BY <1>1, <2>1, <2>2
<1>6. PICK k \in j + 1 .. n : marcos[k].tipo = "funcion"
  BY <1>5
<1>7. j \in DOMAIN marcos /\ k \in DOMAIN marcos /\ j < k
  BY <1>1
<1> QED
  BY <1>2, <1>6, <1>7

\* The frames an import pushes continue the chain.
LEMMA CadenaConDosMas ==
  ASSUME TipoOK, TipoImportacion, Cadena(marcos), NEW d, I!Importa(d),
         NEW r, Len(r) = Len(marcos) + 2,
         \A k \in 1 .. Len(marcos) :
           r[k].tipo = marcos[k].tipo /\ r[k].modulo = marcos[k].modulo,
         r[Len(marcos) + 1].modulo = d, r[Len(marcos) + 2].modulo = d,
         r[Len(marcos) + 1].tipo = "importar"
  PROVE  Cadena(r)
<1> DEFINE n == Len(marcos)
<1>1. /\ d \in Modulos /\ d \in Directas(I!Cima.modulo)
      /\ n \in Nat \ {0} /\ I!Cima = marcos[n] /\ I!Cima.modulo \in Modulos
  BY LoImportado, LaDeEncima DEF I!Importa, I!Marcos
<1> SUFFICES ASSUME NEW j \in 1 .. Len(r), NEW k \in 1 .. Len(r), j < k,
                    r[j].tipo = "cuerpo",
                    \A l \in j + 1 .. k : r[l].tipo # "funcion"
             PROVE  r[k].modulo \in Alcanzables(r[j].modulo)
  BY DEF Cadena
<1>2. \A l \in j + 1 .. k : l \in 1 .. n => marcos[l].tipo # "funcion"
  BY <1>1
<1>3. CASE k \in 1 .. n
  <2>1. j \in 1 .. n /\ \A l \in j + 1 .. k : l \in 1 .. n
    BY <1>1, <1>3
  <2> QED
    BY <1>2, <1>3, <2>1 DEF Cadena
<1>4. CASE k > n
  <2>1. r[k].modulo = d /\ j # n + 1
    BY <1>1, <1>4
  <2>2. j \in 1 .. n
    BY <1>1, <2>1
  <2>3. marcos[j].modulo \in Modulos
    <3>1. marcos[j] \in I!Marcos
      BY <2>2, ElementOfSeq DEF TipoImportacion, I!TipoImportacion
    <3> QED
      BY <3>1 DEF I!Marcos
  <2>4. CerradoPara(marcos[j].modulo, Alcanzables(marcos[j].modulo))
    BY <2>3, AlcanzablesEsCerrado
  <2>5. CASE j = n
    BY <1>1, <2>1, <2>2, <2>4, <2>5 DEF CerradoPara
  <2>6. CASE j < n
    <3>1. \A l \in j + 1 .. n : l \in j + 1 .. k /\ l \in 1 .. n
      BY <1>1, <1>4, <2>2
    <3>2. I!Cima.modulo \in Alcanzables(marcos[j].modulo)
      BY <1>1, <1>2, <2>2, <2>6, <3>1 DEF Cadena
    <3> QED
      BY <1>1, <2>1, <2>2, <2>4, <3>2 DEF CerradoPara
  <2> QED
    BY <1>1, <2>2, <2>5, <2>6
<1> QED
  BY <1>1, <1>3, <1>4

\* A step keeps the registry free of cycles, and the loads in the order of the
\* imports.
LEMMA CargaEnOrdenInductivo ==
  ASSUME TipoOK, EjecutableCompleto, DependenciasSinCiclos, TipoImportacion,
         RegistroCerrado, CargaEnOrden, [NextPrograma]_<<vars, rt>>
  PROVE  CargaEnOrden'
<1>0. /\ \A m : Alcanzables(m)' = Alcanzables(m)
      /\ \A q : Cadena(q)' <=> Cadena(q')
      /\ cargas \in [Modulos -> Nat] /\ Len(marcos) \in Nat
      /\ marcos \in Seq(I!Marcos)
  <2>1. \A m : Alcanzables(m)' = Alcanzables(m)
    BY FuenteNoCambia, AlcanzablesNoCambia
  <2> QED
    BY <2>1, LenProperties DEF Cadena, TipoImportacion, I!TipoImportacion
<1>1. ASSUME SinCiclo(registro'),
             \A m \in Modulos : cargas'[m] > 0 => Cargado(marcos', DOMAIN espacios', m),
             Cadena(marcos')
      PROVE  CargaEnOrden'
  BY <1>0, <1>1 DEF CargaEnOrden, RegistroSinCiclos, SinCiclo, Cargados, Cargado, Cadena
<1>2. ASSUME registro' = registro, NEW q, marcos' = q,
             \A m \in Modulos : cargas'[m] > 0 =>
               cargas[m] > 0 \/ Cargado(q, DOMAIN espacios', m),
             \A m \in Modulos :
               Cargado(marcos, DOMAIN espacios, m) => Cargado(q, DOMAIN espacios', m),
             Cadena(q)
      PROVE  CargaEnOrden'
  BY <1>1, <1>2 DEF CargaEnOrden, RegistroSinCiclos, Cargados
<1>3. CASE Ejecutar
  <2> DEFINE p == exe.principal
  <2>1. p \in Modulos /\ exe.tabla = Alcanzables(p) /\ SinCiclo(exe.tabla)
    BY <1>3 DEF Ejecutar, TipoOK, EjecutableCompleto, DependenciasSinCiclos
  <2>2. registro' = {p} \union Alcanzables(p)
    BY <1>3, <2>1 DEF Ejecutar, I!Arrancar
  <2>3. SinCiclo(registro')
    BY <2>1, <2>2 DEF SinCiclo
  <2>4. \A m \in Modulos : cargas'[m] > 0 => m = p
    BY <1>0, <1>3 DEF Ejecutar, I!Arrancar, I!Empieza, RegistroCerrado
  <2>5. Len(marcos') = 1 /\ marcos'[1].modulo = p /\ marcos'[1].tipo = "cuerpo"
    BY <1>3 DEF Ejecutar, I!Arrancar, I!Marco
  <2> QED
    BY <1>1, <2>3, <2>4, <2>5 DEF Cargado, Cadena
<1>4. ASSUME NEW q, marcos' = q, registro' = registro, cargas' = cargas, espacios' = espacios,
             Len(q) = Len(marcos),
             \A k \in 1 .. Len(marcos) :
               q[k].tipo = marcos[k].tipo /\ q[k].modulo = marcos[k].modulo
      PROVE  CargaEnOrden'
  <2>1. \A m : Cargado(marcos, DOMAIN espacios, m) => Cargado(q, DOMAIN espacios', m)
    BY <1>4 DEF Cargado
  <2>2. \A j, k \in 1 .. Len(marcos) : \A l \in j + 1 .. k : l \in 1 .. Len(marcos)
    BY <1>0
  <2>3. Cadena(q)
    BY <1>4, <2>2 DEF Cadena, CargaEnOrden
  <2> QED
    BY <1>2, <1>4, <2>1, <2>3
<1>5. ASSUME NEW d \in Modulos, I!ImportarListo(d)
      PROVE  CargaEnOrden'
  <2>1. PICK q : q = I!Avanzados
    OBVIOUS
  <2>2. /\ Len(q) = Len(marcos)
        /\ \A k \in 1 .. Len(marcos) :
             q[k].tipo = marcos[k].tipo /\ q[k].modulo = marcos[k].modulo
    BY <1>5, <2>1, LosAvanzados DEF I!ImportarListo
  <2>3. marcos' = q /\ espacios' = espacios /\ registro' = registro /\ cargas' = cargas
    BY <1>5, <2>1 DEF I!ImportarListo
  <2> QED
    BY <1>4, <2>2, <2>3
<1>6. ASSUME NEW d \in Modulos, I!ImportarYCargar(d)
      PROVE  CargaEnOrden'
  <2>1. CASE d \notin registro
    BY <1>4, <1>6, <2>1 DEF I!ImportarYCargar
  <2>2. CASE d \in registro
    <3>1. /\ I!Importa(d) /\ espacios' = espacios /\ registro' = registro
          /\ cargas' = [cargas EXCEPT ![d] = @ + 1]
      BY <1>6, <2>2 DEF I!ImportarYCargar, I!Empieza
    <3>2. PICK r : r = marcos'
      OBVIOUS
    <3>3. PICK n \in Nat : n = cargas[d] + 1
      BY <1>0
    <3>4. r = Append(Append(I!Avanzados, I!Marco("importar", d, 0)), I!Marco("cuerpo", d, n))
      BY <1>6, <2>2, <3>2, <3>3 DEF I!ImportarYCargar
    <3>5. /\ Len(r) = Len(marcos) + 2
          /\ \A k \in 1 .. Len(marcos) :
               r[k].tipo = marcos[k].tipo /\ r[k].modulo = marcos[k].modulo
          /\ r[Len(marcos) + 1] = I!Marco("importar", d, 0)
          /\ r[Len(marcos) + 2] = I!Marco("cuerpo", d, n)
      BY <3>1, <3>4, LosDosMas
    <3>6. /\ r[Len(marcos) + 1].modulo = d /\ r[Len(marcos) + 2].modulo = d
          /\ r[Len(marcos) + 1].tipo = "importar" /\ r[Len(marcos) + 2].tipo = "cuerpo"
      BY <3>5 DEF I!Marco
    <3>7. Cadena(r)
      BY <3>1, <3>5, <3>6, CadenaConDosMas DEF CargaEnOrden
    <3>8. Cargado(r, DOMAIN espacios', d)
      <4>1. Len(marcos) + 2 \in 1 .. Len(r)
        BY <1>0, <3>5
      <4> QED
        BY <3>6, <4>1 DEF Cargado
    <3>9. \A m \in Modulos : cargas'[m] > 0 => cargas[m] > 0 \/ m = d
      BY <1>0, <3>1
    <3>10. \A m \in Modulos :
             Cargado(marcos, DOMAIN espacios, m) => Cargado(r, DOMAIN espacios', m)
      <4>1. \A k \in 1 .. Len(marcos) : k \in 1 .. Len(r)
        BY <1>0, <3>5
      <4> QED
        BY <3>1, <3>5, <4>1 DEF Cargado
    <3> QED
      BY <1>2, <3>1, <3>2, <3>7, <3>8, <3>9, <3>10
  <2> QED
    BY <2>1, <2>2
<1>7. ASSUME marcos' = I!Abajo, marcos # <<>>, registro' = registro, cargas' = cargas,
             DOMAIN espacios \subseteq DOMAIN espacios',
             I!Cima.tipo = "cuerpo" => I!Cima.modulo \in DOMAIN espacios'
      PROVE  CargaEnOrden'
  <2>1. PICK q : q = I!Abajo
    OBVIOUS
  <2>2. /\ Len(q) = Len(marcos) - 1 /\ Len(marcos) \in Nat \ {0}
        /\ \A k \in 1 .. Len(marcos) - 1 : q[k] = marcos[k]
        /\ I!Cima = marcos[Len(marcos)]
    BY <1>7, <2>1, LosDeAbajo, LaDeEncima
  <2>3. /\ \A k \in 1 .. Len(q) : k \in 1 .. Len(marcos) /\ q[k] = marcos[k]
        /\ \A k \in 1 .. Len(marcos) : k \in 1 .. Len(q) \/ k = Len(marcos)
        /\ \A j, k \in 1 .. Len(q) : \A l \in j + 1 .. k : l \in 1 .. Len(q)
    BY <2>2
  <2>4. \A m : Cargado(marcos, DOMAIN espacios, m) => Cargado(q, DOMAIN espacios', m)
    BY <1>7, <2>2, <2>3 DEF Cargado
  <2>5. Cadena(q)
    BY <2>3 DEF Cadena, CargaEnOrden
  <2> QED
    BY <1>2, <1>7, <2>1, <2>4, <2>5
<1>8. ASSUME NEW m \in Modulos, I!LlamarFuncion(m)
      PROVE  CargaEnOrden'
  <2> DEFINE f == I!Marco("funcion", m, 0)
  <2>1. f \in I!Marcos /\ f.tipo = "funcion"
    BY DEF I!Marco, I!Marcos
  <2>2. /\ marcos' = Append(marcos, f) /\ espacios' = espacios /\ registro' = registro
        /\ cargas' = cargas
    BY <1>8 DEF I!LlamarFuncion
  <2> HIDE DEF f
  <2>3. PICK r : r = marcos'
    OBVIOUS
  <2>4. /\ Len(r) = Len(marcos) + 1
        /\ \A k \in 1 .. Len(marcos) : r[k] = marcos[k]
        /\ r[Len(marcos) + 1] = f
    BY <1>0, <2>1, <2>2, <2>3, UnoMas
  <2>5. \A k \in 1 .. Len(marcos) : k \in 1 .. Len(r)
    BY <1>0, <2>4
  <2>6. \A x : Cargado(marcos, DOMAIN espacios, x) => Cargado(r, DOMAIN espacios', x)
    BY <2>2, <2>4, <2>5 DEF Cargado
  <2>7. Cadena(r)
    <3> SUFFICES ASSUME NEW j \in 1 .. Len(r), NEW k \in 1 .. Len(r), j < k,
                        r[j].tipo = "cuerpo",
                        \A l \in j + 1 .. k : r[l].tipo # "funcion"
                 PROVE  r[k].modulo \in Alcanzables(r[j].modulo)
      BY DEF Cadena
    <3>1. k \in j + 1 .. k
      BY <1>0, <2>4
    <3>2. k # Len(marcos) + 1
      BY <2>1, <2>4, <3>1
    <3>3. /\ j \in 1 .. Len(marcos) /\ k \in 1 .. Len(marcos)
          /\ \A l \in j + 1 .. k : l \in 1 .. Len(marcos)
      BY <1>0, <2>4, <3>2
    <3> QED
      BY <2>4, <3>3 DEF CargaEnOrden, Cadena
  <2> QED
    BY <1>2, <2>2, <2>3, <2>6, <2>7
<1>9. CASE I!Exportar
  <2>1. I!Cima.modulo \in DOMAIN espacios' /\ DOMAIN espacios \subseteq DOMAIN espacios'
    BY <1>9 DEF I!Exportar
  <2> QED
    BY <1>7, <1>9, <2>1 DEF I!Exportar
<1>10. CASE I!ImportarK1 \/ I!Retornar
  BY <1>4, <1>7, <1>10 DEF I!ImportarK1, I!Retornar
<1>11. CASE UNCHANGED rt
  BY <1>4, <1>11 DEF rt
<1> QED
  BY <1>3, <1>5, <1>6, <1>8, <1>9, <1>10, <1>11
  DEF NextPrograma, PasoDePdc, EnPdc, PasoDelPrograma, I!Correr

-------------------------------------------------------------------------------
\* What a step may do to the count of a module: begin its body for the first
\* time, or again with a function above it.
PasoDeRecarga ==
  \A m \in Modulos :
    cargas[m] > 0 /\ cargas'[m] > cargas[m] =>
      \E j, k \in DOMAIN marcos :
        /\ j < k /\ marcos[j].tipo = "cuerpo" /\ marcos[j].modulo = m
        /\ marcos[k].tipo = "funcion"

LEMMA RecargaInductivo ==
  ASSUME TipoOK, TipoImportacion, RegistroCerrado, CargaEnOrden,
         [NextPrograma]_<<vars, rt>>
  PROVE  PasoDeRecarga
<1> SUFFICES ASSUME NEW m \in Modulos, cargas[m] > 0, cargas'[m] > cargas[m]
             PROVE  \E j, k \in DOMAIN marcos :
                      /\ j < k /\ marcos[j].tipo = "cuerpo" /\ marcos[j].modulo = m
                      /\ marcos[k].tipo = "funcion"
  BY DEF PasoDeRecarga
<1>1. cargas \in [Modulos -> Nat] /\ ~(cargas[m] > cargas[m])
  BY DEF TipoImportacion, I!TipoImportacion
<1>2. CASE Ejecutar
  BY <1>2 DEF Ejecutar, I!Arrancar, RegistroCerrado
<1>3. ASSUME NEW d \in Modulos, I!ImportarYCargar(d)
      PROVE  m = d /\ I!Importa(d) /\ I!PorCargar(d)
  BY <1>1, <1>3 DEF I!ImportarYCargar, I!Empieza
<1>4. ASSUME NEW d \in Modulos, I!ImportarYCargar(d)
      PROVE  \E j, k \in DOMAIN marcos :
               /\ j < k /\ marcos[j].tipo = "cuerpo" /\ marcos[j].modulo = m
               /\ marcos[k].tipo = "funcion"
  BY <1>3, <1>4, RecargaDesdeFuncion
<1>5. CASE cargas' = cargas
  BY <1>1, <1>5
<1> QED
  BY <1>2, <1>4, <1>5
  DEF NextPrograma, PasoDePdc, EnPdc, PasoDelPrograma, rt, I!Correr,
      I!ImportarListo, I!Exportar, I!ImportarK1, I!LlamarFuncion, I!Retornar

\* When no function imports, no frame is of a function and everything is of the
\* first load.
UnaCarga ==
  I!SinImportarEnFunciones =>
    /\ \A k \in 1 .. Len(marcos) :
         marcos[k].tipo # "funcion" /\ (marcos[k].tipo = "cuerpo" => marcos[k].carga = 1)
    /\ \A m \in Modulos : cargas[m] <= 1 /\ vistos[m] \subseteq {1}
    /\ \A m \in DOMAIN espacios : espacios[m] = 1

LEMMA UnaCargaInductivo ==
  ASSUME TipoOK, TipoImportacion, RegistroCerrado, CargaEnOrden, UnaCarga,
         [NextPrograma]_<<vars, rt>>
  PROVE  UnaCarga'
<1> DEFINE Primeras(q) ==
             \A k \in 1 .. Len(q) :
               q[k].tipo # "funcion" /\ (q[k].tipo = "cuerpo" => q[k].carga = 1)
<1>1. fuente' = fuente
  BY FuenteNoCambia
<1> SUFFICES ASSUME I!SinImportarEnFunciones
             PROVE  /\ Primeras(marcos')
                    /\ \A m \in Modulos : cargas'[m] <= 1 /\ vistos'[m] \subseteq {1}
                    /\ \A m \in DOMAIN espacios' : espacios'[m] = 1
  BY <1>1 DEF UnaCarga, I!SinImportarEnFunciones, I!EnFunciones
<1>2. /\ Primeras(marcos)
      /\ \A m \in Modulos : cargas[m] <= 1 /\ vistos[m] \subseteq {1}
      /\ \A m \in DOMAIN espacios : espacios[m] = 1
      /\ cargas \in [Modulos -> Nat] /\ vistos \in [Modulos -> SUBSET Nat]
      /\ Len(marcos) \in Nat
  BY LenProperties DEF UnaCarga, TipoImportacion, I!TipoImportacion
<1>3. CASE Ejecutar
  <2>1. Primeras(marcos')
    BY <1>3 DEF Ejecutar, I!Arrancar, I!Marco
  <2>2. \A m \in Modulos : cargas[m] = 0
    BY <1>2, <1>3 DEF Ejecutar, I!Arrancar, RegistroCerrado
  <2> HIDE DEF Primeras
  <2> QED
    BY <1>2, <1>3, <2>1, <2>2 DEF Ejecutar, I!Arrancar, I!Empieza
<1>4. ASSUME NEW d \in Modulos, I!ImportarListo(d)
      PROVE  Primeras(marcos') /\ \A m \in Modulos : vistos'[m] \subseteq {1}
  <2>1. PICK q : q = I!Avanzados
    OBVIOUS
  <2>2. I!Importa(d) /\ marcos' = q /\ d \in DOMAIN espacios
    BY <1>4, <2>1 DEF I!ImportarListo, I!PorCargar
  <2>3. /\ Len(q) = Len(marcos)
        /\ \A k \in 1 .. Len(marcos) - 1 : q[k] = marcos[k]
        /\ q[Len(marcos)] = IF I!Cima.tipo = "cuerpo"
                            THEN [I!Cima EXCEPT !.pos = I!Proxima(I!Cima) + 1] ELSE I!Cima
    BY <2>1, <2>2, LosAvanzados
  <2>4. /\ Len(marcos) \in Nat \ {0} /\ I!Cima = marcos[Len(marcos)] /\ I!Cima \in I!Marcos
        /\ \A k \in 1 .. Len(marcos) : k \in 1 .. Len(marcos) - 1 \/ k = Len(marcos)
    <3>1. Len(marcos) \in Nat \ {0} /\ I!Cima = marcos[Len(marcos)] /\ I!Cima \in I!Marcos
      BY <2>2, LaDeEncima DEF I!Importa
    <3> QED
      BY <3>1
  <2>5. q[Len(marcos)].tipo = I!Cima.tipo /\ q[Len(marcos)].carga = I!Cima.carga
    BY <2>3, <2>4 DEF I!Marcos
  <2>6. Primeras(q)
    BY <1>2, <2>3, <2>4, <2>5
  <2>7. \A m \in Modulos : vistos'[m] \subseteq {1}
    BY <1>2, <1>4, <2>2 DEF I!ImportarListo, I!Entregar
  <2> QED
    BY <2>2, <2>6, <2>7
<1>5. ASSUME NEW d \in Modulos, I!ImportarYCargar(d), d \in registro
      PROVE  Primeras(marcos') /\ \A m \in Modulos : cargas'[m] <= 1
  <2>1. /\ I!Importa(d) /\ I!PorCargar(d)
        /\ cargas' = [cargas EXCEPT ![d] = @ + 1]
    BY <1>5 DEF I!ImportarYCargar, I!Empieza
  <2>2. cargas[d] = 0
    <3>1. SUFFICES ASSUME cargas[d] > 0 PROVE FALSE
      BY <1>2
    <3>2. PICK k \in DOMAIN marcos : marcos[k].tipo = "funcion"
      BY <2>1, <3>1, RecargaDesdeFuncion
    <3>3. DOMAIN marcos = 1 .. Len(marcos)
      BY <2>1, LaDeEncima DEF I!Importa
    <3> QED
      BY <1>2, <3>2, <3>3
  <2>3. PICK r : r = marcos'
    OBVIOUS
  <2>4. PICK n \in Nat : n = cargas[d] + 1
    BY <1>2
  <2>5. r = Append(Append(I!Avanzados, I!Marco("importar", d, 0)), I!Marco("cuerpo", d, n))
    BY <1>5, <2>3, <2>4 DEF I!ImportarYCargar
  <2>6. PICK q : q = I!Avanzados
    OBVIOUS
  <2>7. /\ Len(r) = Len(marcos) + 2
        /\ \A k \in 1 .. Len(marcos) : r[k] = q[k]
        /\ r[Len(marcos) + 1] = I!Marco("importar", d, 0)
        /\ r[Len(marcos) + 2] = I!Marco("cuerpo", d, n)
    BY <2>1, <2>5, <2>6, LosDosMas
  <2>8. /\ \A k \in 1 .. Len(marcos) - 1 : q[k] = marcos[k]
        /\ q[Len(marcos)] = IF I!Cima.tipo = "cuerpo"
                            THEN [I!Cima EXCEPT !.pos = I!Proxima(I!Cima) + 1] ELSE I!Cima
    BY <2>1, <2>6, LosAvanzados
  <2>9. Len(marcos) \in Nat \ {0} /\ I!Cima = marcos[Len(marcos)] /\ I!Cima \in I!Marcos
    BY <2>1, LaDeEncima DEF I!Importa
  <2>10. \A k \in 1 .. Len(r) : \/ k \in 1 .. Len(marcos) - 1 \/ k = Len(marcos)
                                \/ k = Len(marcos) + 1 \/ k = Len(marcos) + 2
    BY <2>7, <2>9
  <2>11. /\ r[Len(marcos)].tipo = I!Cima.tipo /\ r[Len(marcos)].carga = I!Cima.carga
         /\ r[Len(marcos) + 1].tipo = "importar"
         /\ r[Len(marcos) + 2].tipo = "cuerpo" /\ r[Len(marcos) + 2].carga = 1
    BY <2>2, <2>4, <2>7, <2>8, <2>9 DEF I!Marcos, I!Marco
  <2>12. Primeras(r)
    BY <1>2, <2>7, <2>8, <2>9, <2>10, <2>11
  <2>13. \A m \in Modulos : cargas'[m] <= 1
    BY <1>2, <2>1, <2>2
  <2> QED
    BY <2>3, <2>12, <2>13
<1>6. ASSUME marcos' = I!Abajo, marcos # <<>>
      PROVE  Primeras(marcos')
  <2>1. PICK q : q = I!Abajo
    OBVIOUS
  <2>2. /\ Len(q) = Len(marcos) - 1 /\ Len(marcos) \in Nat \ {0}
        /\ \A k \in 1 .. Len(marcos) - 1 : q[k] = marcos[k]
    BY <1>6, <2>1, LosDeAbajo, LaDeEncima
  <2>3. \A k \in 1 .. Len(q) : k \in 1 .. Len(marcos) /\ q[k] = marcos[k]
    BY <2>2
  <2> QED
    BY <1>2, <1>6, <2>1, <2>3
<1>7. CASE I!Exportar
  <2>1. I!Cima.carga = 1
    BY <1>2, <1>7, LaDeEncima DEF I!Exportar
  <2>2. \A m \in DOMAIN espacios' : espacios'[m] = 1
    BY <1>2, <1>7, <2>1 DEF I!Exportar
  <2> HIDE DEF Primeras
  <2> QED
    BY <1>2, <1>6, <1>7, <2>2 DEF I!Exportar
<1>8. CASE I!ImportarK1
  <2>1. Primeras(marcos')
    BY <1>2, <1>6, <1>8 DEF I!ImportarK1
  <2>2. \A m \in Modulos : vistos'[m] \subseteq {1}
    BY <1>2, <1>8 DEF I!ImportarK1, I!Entregar
  <2> HIDE DEF Primeras
  <2> QED
    BY <1>2, <1>8, <2>1, <2>2 DEF I!ImportarK1
<1>9. CASE I!Retornar
  BY <1>2, <1>6, <1>9 DEF I!Retornar
<1>10. ASSUME NEW m \in Modulos, I!LlamarFuncion(m)
       PROVE  FALSE
  BY <1>10 DEF I!LlamarFuncion, I!SinImportarEnFunciones
<1>11. CASE UNCHANGED rt
  BY <1>2, <1>11 DEF rt
<1>12. ASSUME NEW d \in Modulos, I!ImportarYCargar(d), d \notin registro
       PROVE  marcos' = marcos /\ cargas' = cargas /\ vistos' = vistos /\ espacios' = espacios
  BY <1>12 DEF I!ImportarYCargar
<1> HIDE DEF Primeras
<1>13. ASSUME NEW d \in Modulos, I!ImportarYCargar(d)
       PROVE  /\ Primeras(marcos')
              /\ \A m \in Modulos : cargas'[m] <= 1 /\ vistos'[m] \subseteq {1}
              /\ \A m \in DOMAIN espacios' : espacios'[m] = 1
  BY <1>2, <1>5, <1>12, <1>13 DEF I!ImportarYCargar
<1>14. ASSUME NEW d \in Modulos, I!ImportarListo(d)
       PROVE  /\ Primeras(marcos')
              /\ \A m \in Modulos : cargas'[m] <= 1 /\ vistos'[m] \subseteq {1}
              /\ \A m \in DOMAIN espacios' : espacios'[m] = 1
  BY <1>2, <1>4, <1>14 DEF I!ImportarListo
<1> QED
  BY <1>3, <1>7, <1>8, <1>9, <1>10, <1>11, <1>13, <1>14
  DEF NextPrograma, PasoDePdc, EnPdc, PasoDelPrograma, I!Correr

\* One load leaves at most one namespace to see.
LEMMA UnaCargaBasta ==
  ASSUME UnaCarga
  PROVE  UnSoloEspacio
<1> SUFFICES ASSUME I!SinImportarEnFunciones, NEW m \in Modulos
             PROVE  cargas[m] <= 1 /\ Cardinality(vistos[m]) <= 1
  <2>1. \A S : I!Cardinality(S) = Cardinality(S)
    BY DEF I!Cardinality, Cardinality
  <2> QED
    BY <2>1 DEF UnSoloEspacio, I!UnSoloEspacio
<1>1. cargas[m] <= 1 /\ vistos[m] \in SUBSET {1}
  BY DEF UnaCarga
<1>2. IsFiniteSet({1}) /\ Cardinality({1}) = 1
  BY FS_Singleton
<1>3. Cardinality(vistos[m]) <= Cardinality({1})
  BY <1>1, <1>2, FS_Subset
<1> QED
  BY <1>1, <1>2, <1>3

-------------------------------------------------------------------------------
\* What is proved of the compiler holds while programs run.
LEMMA ConstruccionSiempre ==
  SpecPrograma => [](TipoOK /\ EjecutableCompleto /\ DependenciasSinCiclos)
BY ProgramaEsConstruccion, TipoSiempre, EjecutableSiempre, DependenciasSiempre, PTL

\* Type correctness of the running program.
THEOREM TipoImportacionSiempre == SpecPrograma => []TipoImportacion
<1>1. InitPrograma => TipoImportacion
  BY EmptySeq DEF InitPrograma, I!Inactivo, TipoImportacion, I!TipoImportacion
<1>2. TipoOK /\ TipoImportacion /\ [NextPrograma]_<<vars, rt>> => TipoImportacion'
  BY TipoImportacionInductivo
<1> QED
  BY <1>1, <1>2, ConstruccionSiempre, PTL DEF SpecPrograma

\* Nothing runs, and nothing is imported, that the registry does not have.
LEMMA RegistroCerradoSiempre == SpecPrograma => []RegistroCerrado
<1>1. InitPrograma => RegistroCerrado
  BY EmptySeq DEF InitPrograma, I!Inactivo, RegistroCerrado
<1>2. TipoOK /\ EjecutableCompleto /\ TipoImportacion /\ RegistroCerrado
        /\ [NextPrograma]_<<vars, rt>> => RegistroCerrado'
  BY RegistroCerradoInductivo
<1> QED
  BY <1>1, <1>2, ConstruccionSiempre, TipoImportacionSiempre, PTL DEF SpecPrograma

\* Every frame that waits for a body has it above, or has its namespace.
LEMMA EsperasSiempre == SpecPrograma => []EsperasAtendidas
<1>1. InitPrograma => EsperasAtendidas
  BY EmptySeq DEF InitPrograma, I!Inactivo, EsperasAtendidas
<1>2. TipoOK /\ TipoImportacion /\ EsperasAtendidas /\ [NextPrograma]_<<vars, rt>>
        => EsperasAtendidas'
  BY EsperasInductivo
<1> QED
  BY <1>1, <1>2, ConstruccionSiempre, TipoImportacionSiempre, PTL DEF SpecPrograma

\* Whatever executable the runs of pdc made, no import of the program fails:
\* the module is in the registry and the body that ran has left its namespace
\* (pdcrt_ops.c:775 and 808), functions that import again included.
THEOREM ImportarSiempre == SpecPrograma => []ImportarNoFalla
<1>1. InitPrograma => ImportarNoFalla
  BY DEF InitPrograma, I!Inactivo, ImportarNoFalla, I!ImportarNoFalla
<1>2. TipoOK /\ TipoImportacion /\ RegistroCerrado /\ EsperasAtendidas
        /\ ImportarNoFalla /\ [NextPrograma]_<<vars, rt>> => ImportarNoFalla'
  BY ImportarInductivo
<1> QED
  BY <1>1, <1>2, ConstruccionSiempre, TipoImportacionSiempre, RegistroCerradoSiempre,
     EsperasSiempre, PTL DEF SpecPrograma

\* Code that runs after an import finds the module whole: everything a body has
\* imported so far has ended, unless the import came back into it (a function
\* called while its module is being loaded).
THEOREM DependenciasListasSiempre == SpecPrograma => []DependenciasListas
<1>1. InitPrograma => DependenciasListas
  BY DEF InitPrograma, I!Inactivo, DependenciasListas, I!DependenciasListas
<1>2. TipoOK /\ TipoImportacion /\ TipoImportacion' /\ DependenciasListas
        /\ [NextPrograma]_<<vars, rt>> => DependenciasListas'
  <2> SUFFICES ASSUME TipoOK, TipoImportacion, TipoImportacion', DependenciasListas,
                      [NextPrograma]_<<vars, rt>>
               PROVE  DependenciasListas'
    OBVIOUS
  <2>1. Listas(marcos, DOMAIN espacios)'
    BY ListasInductivo
  <2>2. TipoImportacion' => (DependenciasListas' <=> Listas(marcos, DOMAIN espacios)')
    BY ListasEsDependenciasListas, PTL
  <2> QED
    BY <2>1, <2>2
<1> QED
  BY <1>1, <1>2, ConstruccionSiempre, TipoImportacionSiempre, PTL DEF SpecPrograma

\* The registry has no module on a cycle, and modules are loaded in the order of
\* their imports.
LEMMA CargaEnOrdenSiempre == SpecPrograma => []CargaEnOrden
<1>1. InitPrograma => CargaEnOrden
  BY EmptySeq
  DEF InitPrograma, I!Inactivo, CargaEnOrden, RegistroSinCiclos, SinCiclo, Cargados, Cadena
<1>2. TipoOK /\ EjecutableCompleto /\ DependenciasSinCiclos /\ TipoImportacion
        /\ RegistroCerrado /\ CargaEnOrden /\ [NextPrograma]_<<vars, rt>> => CargaEnOrden'
  BY CargaEnOrdenInductivo
<1> QED
  BY <1>1, <1>2, ConstruccionSiempre, TipoImportacionSiempre, RegistroCerradoSiempre,
     PTL DEF SpecPrograma

\* A body begins again only while an earlier run of it is in progress and a
\* function above it makes the import: pdcrt_importar marks no module as being
\* loaded (pdcrt_ops.c:761-790), and the imports of the bodies have no cycle.
THEOREM RecargaSoloReentranteSiempre == SpecPrograma => RecargaSoloReentrante
<1>1. TipoOK /\ TipoImportacion /\ RegistroCerrado /\ CargaEnOrden
        /\ [NextPrograma]_<<vars, rt>> => [PasoDeRecarga]_(I!vars)
  BY RecargaInductivo
<1>2. RecargaSoloReentrante <=> [][PasoDeRecarga]_(I!vars)
  BY DEF RecargaSoloReentrante, I!RecargaSoloReentrante, PasoDeRecarga
<1> QED
  BY <1>1, <1>2, ConstruccionSiempre, TipoImportacionSiempre, RegistroCerradoSiempre,
     CargaEnOrdenSiempre, PTL DEF SpecPrograma

\* When no function imports, every body runs at most once, and everyone that
\* imports a module is given the same namespace.
THEOREM UnSoloEspacioSiempre == SpecPrograma => []UnSoloEspacio
<1>1. InitPrograma => UnaCarga
  BY EmptySeq DEF InitPrograma, I!Inactivo, UnaCarga
<1>2. TipoOK /\ TipoImportacion /\ RegistroCerrado /\ CargaEnOrden /\ UnaCarga
        /\ [NextPrograma]_<<vars, rt>> => UnaCarga'
  BY UnaCargaInductivo
<1>3. UnaCarga => UnSoloEspacio
  BY UnaCargaBasta
<1> QED
  BY <1>1, <1>2, <1>3, ConstruccionSiempre, TipoImportacionSiempre, RegistroCerradoSiempre,
     CargaEnOrdenSiempre, PTL DEF SpecPrograma
===============================================================================
