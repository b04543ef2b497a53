-------------------------- MODULE MemoriaWorkerProofs --------------------------
(***************************************************************************)
(* Proofs about MemoriaWorker, for any File:Tags, sizes, frames, bytes and *)
(* workload: the frames are never shared nor lost, there is always a page  *)
(* to replace, and what a query reads is the flat memory of MemoriaPlana.  *)
(***************************************************************************)
EXTENDS MemoriaWorkerProps, ListasProofs, TLAPS

Tablero == [Tablas -> [Paginas -> Pagina]]

\* MarcosConsistentes, page by page, for the tables tb and the frames oc in use.
Reparto(tb, oc) ==
    /\ \A t, s \in Tablas, p, q \in Paginas :
          tb[t][p].presente /\ tb[s][q].presente /\ tb[t][p].marco = tb[s][q].marco => t = s /\ p = q
    /\ \A t \in Tablas, p \in Paginas : tb[t][p].presente => tb[t][p].marco \in oc
    /\ \A m \in oc : \E t \in Tablas, p \in Paginas : tb[t][p].presente /\ tb[t][p].marco = m

\* What an instruction under way is, and what is left when it is not.
Ordenada ==
    /\ instruccion.resto > 0 => instruccion.tipo \in {"READ", "WRITE"} /\ instruccion.tabla \in Tablas
    /\ ~ (instruccion.resto > 0) => instruccion \in {Ninguna, Fallida}
    /\ instruccion = Fallida => ~query_en_ejecucion

\* LRU has an access, and one only, of every present page.
Accedidas ==
    algoritmo = "LRU" =>
        IsInjective(accesos) /\ ToSet(accesos) = Presentes(tablas_de_paginas)

\* The inductive invariant of the frames.
Repartida == TipoMemoria /\ Ordenada /\ Reparto(tablas_de_paginas, marcos_ocupados) /\ Accedidas

-----------------------------------------------------------------------------
(* Data                                                                    *)

\* The present pages of typed tables are pairs of a File:Tag and a page.
LEMMA PresentesPares ==
    ASSUME NEW tb
    PROVE  /\ Presentes(tb) \subseteq Tablas \X Paginas
           /\ \A t \in Tablas, p \in Paginas : <<t, p>> \in Presentes(tb) <=> tb[t][p].presente
           /\ \A x \in Presentes(tb) : /\ x[1] \in Tablas /\ x[2] \in Paginas
                                       /\ x = <<x[1], x[2]>> /\ tb[x[1]][x[2]].presente
BY DEF Presentes

\* Tables whose pages are present alike have the same present pages.
LEMMA PresentesIguales ==
    ASSUME NEW ta, NEW tb,
           \A t \in Tablas, p \in Paginas : ta[t][p].presente <=> tb[t][p].presente
    PROVE  Presentes(ta) = Presentes(tb)
BY DEF Presentes

\* Reparto is MarcosConsistentes.
LEMMA RepartoMarcos ==
    ASSUME NEW tb \in Tablero, NEW oc
    PROVE  Reparto(tb, oc) <=>
               /\ \A x, y \in Presentes(tb) : tb[x[1]][x[2]].marco = tb[y[1]][y[2]].marco => x = y
               /\ oc = {tb[x[1]][x[2]].marco : x \in Presentes(tb)}
<1> DEFINE M(x) == tb[x[1]][x[2]].marco
<1>1. ASSUME Reparto(tb, oc)
      PROVE  (\A x, y \in Presentes(tb) : M(x) = M(y) => x = y) /\ oc = {M(x) : x \in Presentes(tb)}
  <2>1. \A x, y \in Presentes(tb) : M(x) = M(y) => x = y
    BY <1>1, PresentesPares DEF Reparto
  <2>2. ASSUME NEW m \in oc PROVE \E x \in Presentes(tb) : M(x) = m
    <3>1. PICK t \in Tablas, p \in Paginas : tb[t][p].presente /\ tb[t][p].marco = m
      BY <1>1 DEF Reparto
    <3>2. <<t, p>> \in Presentes(tb) /\ M(<<t, p>>) = m
      BY <3>1, PresentesPares
    <3> QED
      BY <3>2
  <2>3. \A x \in Presentes(tb) : M(x) \in oc
    BY <1>1, PresentesPares DEF Reparto
  <2> QED
    BY <2>1, <2>2, <2>3
<1>2. ASSUME \A x, y \in Presentes(tb) : M(x) = M(y) => x = y, oc = {M(x) : x \in Presentes(tb)}
      PROVE  Reparto(tb, oc)
  <2>1. ASSUME NEW t \in Tablas, NEW p \in Paginas, tb[t][p].presente
        PROVE  <<t, p>> \in Presentes(tb) /\ M(<<t, p>>) = tb[t][p].marco
    BY <2>1, PresentesPares
  <2>2. ASSUME NEW t \in Tablas, NEW s \in Tablas, NEW p \in Paginas, NEW q \in Paginas,
               tb[t][p].presente, tb[s][q].presente, tb[t][p].marco = tb[s][q].marco
        PROVE  t = s /\ p = q
    <3>1. <<t, p>> = <<s, q>>
      BY <1>2, <2>1, <2>2
    <3> QED
      BY <3>1
  <2>3. \A m \in oc : \E t \in Tablas, p \in Paginas : tb[t][p].presente /\ tb[t][p].marco = m
    BY <1>2, PresentesPares
  <2>4. ASSUME NEW t \in Tablas, NEW p \in Paginas, tb[t][p].presente
        PROVE  tb[t][p].marco \in oc
    <3>1. <<t, p>> \in Presentes(tb) /\ M(<<t, p>>) = tb[t][p].marco
      BY <2>1, <2>4
    <3>2. \A x \in Presentes(tb) : M(x) \in oc
      BY <1>2
    <3> HIDE DEF M
    <3>3. M(<<t, p>>) \in oc
      BY <3>1, <3>2
    <3> QED
      BY <3>1, <3>3
  <2> QED
    BY <2>2, <2>3, <2>4 DEF Reparto
<1> QED
  BY <1>1, <1>2

\* The cells of a frame are cells of the memory, and of no other frame.
LEMMA CeldasDeMarco ==
    ASSUME NEW m \in Marcos, NEW o \in Offsets
    PROVE  /\ m * TamPagina + o \in Celdas
           /\ \A k \in Marcos, i \in Offsets : k * TamPagina + i = m * TamPagina + o => k = m /\ i = o
<1>0. TamPagina \in Nat \ {0} /\ CantMarcos \in Nat \ {0} /\ m \in Nat /\ o \in Nat
  BY TamaniosAssumption DEF Marcos, Offsets
<1>1. \A k \in Int : k * TamPagina \in Int
  BY <1>0
<1>2. m * TamPagina + o \in Celdas
  <2>1. (m + 1) * TamPagina <= CantMarcos * TamPagina
    BY <1>0 DEF Marcos
  <2>2. (m + 1) * TamPagina = m * TamPagina + TamPagina /\ m * TamPagina >= 0
    BY <1>0
  <2>3. o < TamPagina
    BY <1>0 DEF Offsets
  <2>4. m * TamPagina \in Nat /\ CantMarcos * TamPagina \in Nat
    BY <1>0
  <2> QED
    BY <1>0, <2>1, <2>2, <2>3, <2>4 DEF Celdas
<1>3. ASSUME NEW k \in Marcos, NEW i \in Offsets, k * TamPagina + i = m * TamPagina + o
      PROVE  k = m /\ i = o
  <2>0. k \in Nat /\ i \in Nat /\ i < TamPagina /\ o < TamPagina
    BY <1>0 DEF Marcos, Offsets
  <2>1. ~ (k < m)
    <3>1. SUFFICES ASSUME k + 1 <= m PROVE FALSE
      BY <1>0, <2>0
    <3>2. (k + 1) * TamPagina <= m * TamPagina /\ (k + 1) * TamPagina = k * TamPagina + TamPagina
      BY <1>0, <2>0, <3>1
    <3> QED
      BY <1>0, <1>1, <1>3, <2>0, <3>2
  <2>2. ~ (m < k)
    <3>1. SUFFICES ASSUME m + 1 <= k PROVE FALSE
      BY <1>0, <2>0
    <3>2. (m + 1) * TamPagina <= k * TamPagina /\ (m + 1) * TamPagina = m * TamPagina + TamPagina
      BY <1>0, <2>0, <3>1
    <3> QED
      BY <1>0, <1>1, <1>3, <2>0, <3>2
  <2>3. k = m
    BY <1>0, <2>0, <2>1, <2>2
  <2> QED
    BY <1>0, <1>1, <1>3, <2>0, <2>3
<1> QED
  BY <1>2, <1>3

\* The initial values are typed.
LEMMA TiposDatos ==
    /\ Ausente \in Pagina /\ ~Ausente.presente /\ ~Ausente.modificado
    /\ Ninguna \in Instruccion /\ Fallida \in Instruccion /\ Ninguna # Fallida
    /\ Ninguna.resto = 0 /\ Fallida.resto = 0
    /\ BloqueCero \in Bloque /\ Inexistente \in Archivo
    /\ 0 \in Marcos /\ 0 \in Paginas /\ Cero \in Valores
BY TamaniosAssumption, BytesAssumption
   DEF Ausente, Pagina, Ninguna, Fallida, Instruccion, BloqueCero, Bloque, Inexistente, Archivo,
       Marcos, Paginas, Offsets

\* The bytes of a frame are a block.
LEMMA ContenidoTipo ==
    ASSUME NEW mem \in [Celdas -> Valores], NEW m \in Marcos
    PROVE  Contenido(mem, m) \in Bloque
BY CeldasDeMarco DEF Contenido, Bloque

\* The Storage after pages are written to it.
LEMMA EscritosTipo ==
    ASSUME TipoMemoria, NEW ps
    PROVE  /\ Escritos(ps) \in [Tablas -> Archivo]
           /\ \A t \in Tablas :
                 /\ Escritos(ps)[t].estado = almacen[t].estado /\ Escritos(ps)[t].n = almacen[t].n
                 /\ \A p \in Paginas :
                       Escritos(ps)[t].bloques[p] =
                           IF <<t, p>> \in ps /\ Escribible(t, p)
                           THEN Contenido(memoria, tablas_de_paginas[t][p].marco)
                           ELSE almacen[t].bloques[p]
<1> DEFINE b(t) == [p \in Paginas |->
                       IF <<t, p>> \in ps /\ Escribible(t, p)
                       THEN Contenido(memoria, tablas_de_paginas[t][p].marco)
                       ELSE almacen[t].bloques[p]]
<1>1. ASSUME NEW t \in Tablas PROVE almacen[t] \in Archivo /\ b(t) \in [Paginas -> Bloque]
  <2>1. almacen[t] \in Archivo /\ almacen[t].bloques \in [Paginas -> Bloque]
    BY DEF TipoMemoria, Archivo
  <2>2. \A p \in Paginas : Contenido(memoria, tablas_de_paginas[t][p].marco) \in Bloque
    BY ContenidoTipo DEF TipoMemoria, Pagina
  <2> QED
    BY <2>1, <2>2
<1>2. Escritos(ps) = [t \in Tablas |-> [almacen[t] EXCEPT !.bloques = b(t)]]
  BY DEF Escritos
<1>3. \A t \in Tablas, p \in Paginas :
         b(t)[p] = IF <<t, p>> \in ps /\ Escribible(t, p)
                   THEN Contenido(memoria, tablas_de_paginas[t][p].marco) ELSE almacen[t].bloques[p]
  OBVIOUS
<1> HIDE DEF b
<1>4. \A t \in Tablas : /\ [almacen[t] EXCEPT !.bloques = b(t)] \in Archivo
                        /\ [almacen[t] EXCEPT !.bloques = b(t)].bloques = b(t)
                        /\ [almacen[t] EXCEPT !.bloques = b(t)].estado = almacen[t].estado
                        /\ [almacen[t] EXCEPT !.bloques = b(t)].n = almacen[t].n
  BY <1>1 DEF Archivo
<1>5. \A t \in Tablas : Escritos(ps)[t] = [almacen[t] EXCEPT !.bloques = b(t)]
  BY <1>2
<1>6. Escritos(ps) \in [Tablas -> Archivo]
  BY <1>2, <1>4
<1>7. ASSUME NEW t \in Tablas
      PROVE  /\ Escritos(ps)[t].estado = almacen[t].estado /\ Escritos(ps)[t].n = almacen[t].n
             /\ Escritos(ps)[t].bloques = b(t)
  BY <1>4, <1>5
<1> QED
  BY <1>3, <1>6, <1>7

-----------------------------------------------------------------------------
(* Steps that do not load a page                                           *)

\* A page table whose pages are present in the same frames.
LEMMA RepartoIgual ==
    ASSUME NEW ta, NEW tb, NEW oc, Reparto(ta, oc),
           \A t \in Tablas, p \in Paginas :
              /\ tb[t][p].presente <=> ta[t][p].presente
              /\ tb[t][p].marco = ta[t][p].marco
    PROVE  Reparto(tb, oc) /\ Presentes(tb) = Presentes(ta)
<1>1. Reparto(tb, oc)
  BY DEF Reparto
<1> QED
  BY <1>1, PresentesIguales

\* What the steps of this part change besides the frames.
Resto ==
    /\ query_en_ejecucion \in BOOLEAN /\ sin_leer \in BOOLEAN
    /\ instruccion \in Instruccion /\ almacen \in [Tablas -> Archivo]
    /\ Ordenada

\* The frames and the page tables stay, but for the modified bits.
LEMMA QuietosInv ==
    ASSUME Repartida, UNCHANGED <<algoritmo, marcos_ocupados, memoria, accesos, puntero_clock>>,
           tablas_de_paginas' \in Tablero,
           \A t \in Tablas, p \in Paginas :
              /\ tablas_de_paginas'[t][p].presente <=> tablas_de_paginas[t][p].presente
              /\ tablas_de_paginas'[t][p].marco = tablas_de_paginas[t][p].marco,
           Resto'
    PROVE  Repartida'
<1>1. TipoMemoria'
  BY DEF Repartida, TipoMemoria, Resto, Tablero
<1>2. Reparto(tablas_de_paginas', marcos_ocupados') /\ Presentes(tablas_de_paginas') = Presentes(tablas_de_paginas)
  BY RepartoIgual DEF Repartida
<1>3. Accedidas'
  BY <1>2 DEF Repartida, Accedidas
<1> QED
  BY <1>1, <1>2, <1>3 DEF Repartida, Resto

\* Nothing of the memory changes.
LEMMA FueraInv ==
    ASSUME Repartida, UNCHANGED <<algoritmo, marco>>, Resto'
    PROVE  Repartida'
BY QuietosInv DEF marco, Repartida, TipoMemoria, Tablero

\* Every frame is let go.
LEMMA TodoLibreInv ==
    ASSUME Repartida, TodoLibre, UNCHANGED algoritmo, Resto'
    PROVE  Repartida'
<1>1. tablas_de_paginas' \in Tablero /\ \A t \in Tablas, p \in Paginas : ~tablas_de_paginas'[t][p].presente
  BY TiposDatos DEF TodoLibre, Tablero
<1>2. TipoMemoria'
  BY <1>1, EmptySeq DEF Repartida, TipoMemoria, Resto, TodoLibre, Tablero
<1>3. Reparto(tablas_de_paginas', marcos_ocupados') /\ Presentes(tablas_de_paginas') = {}
  BY <1>1 DEF Reparto, TodoLibre, Presentes
<1>4. IsInjective(accesos') /\ ToSet(accesos') = {}
  BY DEF TodoLibre, IsInjective, ToSet
<1> QED
  BY <1>2, <1>3, <1>4 DEF Repartida, Resto, Accedidas

\* What becomes of the query after an instruction that only asks the Storage.
LEMMA ResultadoInv ==
    ASSUME Repartida, EntreInstrucciones, NEW b \in BOOLEAN, Resultado(b)
    PROVE  query_en_ejecucion' \in BOOLEAN /\ instruccion' \in Instruccion /\ Ordenada'
<1>1. CASE UNCHANGED <<query_en_ejecucion, instruccion>>
  BY <1>1 DEF Repartida, TipoMemoria, Ordenada
<1>2. CASE Falla
  <2>1. instruccion' = Fallida /\ ~query_en_ejecucion' /\ query_en_ejecucion' \in BOOLEAN
    BY <1>2 DEF Falla
  <2>2. ~ (instruccion'.resto > 0)
    BY <2>1, TiposDatos
  <2> QED
    BY <2>1, <2>2, TiposDatos DEF Ordenada
<1> QED
  BY <1>1, <1>2 DEF Resultado

\* The pages that are flushed are no longer modified.
LEMMA SinModificarTipo ==
    ASSUME TipoMemoria, NEW ps
    PROVE  /\ SinModificar(ps) \in Tablero
           /\ \A s \in Tablas, p \in Paginas :
                 /\ SinModificar(ps)[s][p].presente = tablas_de_paginas[s][p].presente
                 /\ SinModificar(ps)[s][p].marco = tablas_de_paginas[s][p].marco
                 /\ SinModificar(ps)[s][p].modificado =
                       (tablas_de_paginas[s][p].modificado /\ <<s, p>> \notin ps)
<1> DEFINE pg(t, p) == [tablas_de_paginas[t][p] EXCEPT !.modificado = @ /\ <<t, p>> \notin ps]
<1>1. ASSUME NEW t \in Tablas, NEW p \in Paginas
      PROVE  /\ pg(t, p) \in Pagina /\ pg(t, p).presente = tablas_de_paginas[t][p].presente
             /\ pg(t, p).marco = tablas_de_paginas[t][p].marco
             /\ pg(t, p).modificado = (tablas_de_paginas[t][p].modificado /\ <<t, p>> \notin ps)
  <2>1. tablas_de_paginas[t][p] \in Pagina
    BY DEF TipoMemoria
  <2> QED
    BY <2>1 DEF Pagina
<1>2. SinModificar(ps) = [t \in Tablas |-> [p \in Paginas |-> pg(t, p)]]
  BY DEF SinModificar
<1> HIDE DEF pg
<1>3. SinModificar(ps) \in Tablero
  <2>1. \A t \in Tablas : [p \in Paginas |-> pg(t, p)] \in [Paginas -> Pagina]
    BY <1>1
  <2> QED
    BY <1>2, <2>1 DEF Tablero
<1>4. \A t \in Tablas, p \in Paginas : SinModificar(ps)[t][p] = pg(t, p)
  BY <1>2
<1> HIDE DEF SinModificar
<1> QED
  BY <1>1, <1>3, <1>4

LEMMA FlushInv ==
    ASSUME Repartida, NEW t \in Tablas, Flush(t)
    PROVE  Repartida'
<1> DEFINE ps == PorGuardar({t})
<1>1. almacen' \in [Tablas -> Archivo]
  BY EscritosTipo DEF Repartida, Flush
<1>2. query_en_ejecucion' \in BOOLEAN /\ instruccion' \in Instruccion /\ Ordenada'
  BY ResultadoInv DEF Flush, Rechazadas
<1>3. /\ tablas_de_paginas' \in Tablero
      /\ \A s \in Tablas, p \in Paginas :
            /\ tablas_de_paginas'[s][p].presente = tablas_de_paginas[s][p].presente
            /\ tablas_de_paginas'[s][p].marco = tablas_de_paginas[s][p].marco
  <2>1. tablas_de_paginas' = SinModificar(ps)
    BY DEF Flush
  <2>2. TipoMemoria
    BY DEF Repartida
  <2> HIDE DEF ps
  <2>3. /\ SinModificar(ps) \in Tablero
        /\ \A s \in Tablas, p \in Paginas :
              /\ SinModificar(ps)[s][p].presente = tablas_de_paginas[s][p].presente
              /\ SinModificar(ps)[s][p].marco = tablas_de_paginas[s][p].marco
    BY <2>2, SinModificarTipo
  <2> QED
    BY <2>1, <2>3
<1>4. Resto'
  BY <1>1, <1>2 DEF Flush, Resto, Repartida, TipoMemoria
<1>5. UNCHANGED <<algoritmo, marcos_ocupados, memoria, accesos, puntero_clock>>
  BY DEF Flush
<1> QED
  BY <1>3, <1>4, <1>5, QuietosInv

LEMMA CommitInv ==
    ASSUME Repartida, NEW t \in Tablas, Commit(t)
    PROVE  Repartida'
<1> DEFINE ps == PorGuardar({t})
           e  == IF almacen[t].estado = "INEXISTENTE" THEN almacen[t].estado ELSE "COMMITED"
<1>1. Escritos(ps) \in [Tablas -> Archivo] /\ Escritos(ps)[t].estado = almacen[t].estado
  BY EscritosTipo DEF Repartida
<1>2. almacen' = [Escritos(ps) EXCEPT ![t].estado = e]
  BY <1>1 DEF Commit
<1>3. almacen' \in [Tablas -> Archivo]
  <2>1. [Escritos(ps)[t] EXCEPT !.estado = e] \in Archivo
    BY <1>1 DEF Archivo
  <2> QED
    BY <1>1, <1>2, <2>1
<1>4. query_en_ejecucion' \in BOOLEAN /\ instruccion' \in Instruccion /\ Ordenada'
  BY ResultadoInv DEF Commit
<1>5. /\ tablas_de_paginas' \in Tablero
      /\ \A s \in Tablas, p \in Paginas :
            /\ tablas_de_paginas'[s][p].presente = tablas_de_paginas[s][p].presente
            /\ tablas_de_paginas'[s][p].marco = tablas_de_paginas[s][p].marco
  <2>1. tablas_de_paginas' = SinModificar(ps)
    BY DEF Commit
  <2>2. TipoMemoria
    BY DEF Repartida
  <2> HIDE DEF ps
  <2>3. /\ SinModificar(ps) \in Tablero
        /\ \A s \in Tablas, p \in Paginas :
              /\ SinModificar(ps)[s][p].presente = tablas_de_paginas[s][p].presente
              /\ SinModificar(ps)[s][p].marco = tablas_de_paginas[s][p].marco
    BY <2>2, SinModificarTipo
  <2> QED
    BY <2>1, <2>3
<1>6. Resto'
  BY <1>3, <1>4 DEF Commit, Resto, Repartida, TipoMemoria
<1>7. UNCHANGED <<algoritmo, marcos_ocupados, memoria, accesos, puntero_clock>>
  BY DEF Commit
<1> QED
  BY <1>5, <1>6, <1>7, QuietosInv

LEMMA IniciarQueryInv == Repartida /\ IniciarQuery => Repartida'
<1> SUFFICES ASSUME Repartida, IniciarQuery PROVE Repartida'
  OBVIOUS
<1>1. Resto'
  BY TiposDatos DEF Repartida, TipoMemoria, Ordenada, IniciarQuery, Resto
<1> QED
  BY <1>1, FueraInv DEF IniciarQuery

LEMMA FinDeArchivoInv == Repartida /\ FinDeArchivo => Repartida'
<1> SUFFICES ASSUME Repartida, FinDeArchivo PROVE Repartida'
  OBVIOUS
<1>1. Resto'
  BY DEF Repartida, TipoMemoria, Ordenada, FinDeArchivo, Resto
<1> QED
  BY <1>1, FueraInv DEF FinDeArchivo

LEMMA LiberarMarcosInv == Repartida /\ LiberarMarcos => Repartida'
<1> SUFFICES ASSUME Repartida, LiberarMarcos PROVE Repartida'
  OBVIOUS
<1>1. instruccion' = Ninguna /\ UNCHANGED <<algoritmo, query_en_ejecucion, sin_leer, almacen>> /\ TodoLibre
  BY DEF LiberarMarcos
<1>2. Resto'
  BY <1>1, TiposDatos DEF Repartida, TipoMemoria, Ordenada, Resto
<1> QED
  BY <1>1, <1>2, TodoLibreInv

LEMMA EndInv == Repartida /\ End => Repartida'
<1> SUFFICES ASSUME Repartida, End PROVE Repartida'
  OBVIOUS
<1>1. almacen' \in [Tablas -> Archivo]
  BY EscritosTipo DEF Repartida, End, FlushPorDesalojo
<1>2. query_en_ejecucion' \in BOOLEAN /\ instruccion' \in Instruccion /\ Ordenada'
  BY ResultadoInv DEF End
<1>3. TodoLibre /\ UNCHANGED <<algoritmo, sin_leer>>
  BY DEF End, FlushPorDesalojo
<1>4. Resto'
  BY <1>1, <1>2, <1>3 DEF Repartida, TipoMemoria, Resto
<1> QED
  BY <1>3, <1>4, TodoLibreInv

LEMMA DesalojarInv == Repartida /\ Desalojar => Repartida'
<1> SUFFICES ASSUME Repartida, Desalojar PROVE Repartida'
  OBVIOUS
<1>1. almacen' \in [Tablas -> Archivo]
  BY EscritosTipo DEF Repartida, Desalojar, FlushPorDesalojo
<1>2. TodoLibre /\ UNCHANGED <<algoritmo, sin_leer, instruccion>> /\ query_en_ejecucion' = FALSE
  BY DEF Desalojar, FlushPorDesalojo
<1>3. Resto'
  BY <1>1, <1>2 DEF Repartida, TipoMemoria, Ordenada, Resto
<1> QED
  BY <1>2, <1>3, TodoLibreInv

\* The operations that the Storage carries out alone.
LEMMA AjenaInv ==
    ASSUME Repartida, EntreInstrucciones, UNCHANGED <<algoritmo, marco, sin_leer>>,
           \/ UNCHANGED <<query_en_ejecucion, instruccion>>
           \/ Falla,
           almacen' \in [Tablas -> Archivo]
    PROVE  Repartida'
<1>1. Resultado(TRUE) \/ Resultado(FALSE)
  BY DEF Resultado
<1>2. query_en_ejecucion' \in BOOLEAN /\ instruccion' \in Instruccion /\ Ordenada'
  BY <1>1, ResultadoInv
<1>3. Resto'
  BY <1>2 DEF Repartida, TipoMemoria, Resto
<1> QED
  BY <1>3, FueraInv

\* A File:Tag that the Storage changes is still one.
LEMMA CambioTipo ==
    ASSUME TipoMemoria, NEW t \in Tablas, NEW a \in Archivo
    PROVE  [almacen EXCEPT ![t] = a] \in [Tablas -> Archivo]
BY DEF TipoMemoria

LEMMA CreateInv == ASSUME Repartida, NEW t \in Tablas, Create(t) PROVE Repartida'
<1>1. [almacen EXCEPT ![t].estado = "WORK_IN_PROGRESS"] \in [Tablas -> Archivo]
  <2>1. [almacen[t] EXCEPT !.estado = "WORK_IN_PROGRESS"] \in Archivo
    BY DEF Repartida, TipoMemoria, Archivo
  <2> QED
    BY <2>1, CambioTipo DEF Repartida
<1>2. almacen' \in [Tablas -> Archivo]
  BY <1>1 DEF Create, Aceptada, Repartida, TipoMemoria
<1> QED
  BY <1>2, AjenaInv DEF Create, Ajena, Aceptada

LEMMA TruncateInv == ASSUME Repartida, NEW t \in Tablas, NEW n \in Tamanios, Truncate(t, n) PROVE Repartida'
<1> DEFINE b == [p \in Paginas |-> IF p < n THEN almacen[t].bloques[p] ELSE BloqueCero]
           a == [almacen EXCEPT ![t].n = n, ![t].bloques = b]
<1>1. a \in [Tablas -> Archivo]
  <2>1. almacen[t] \in Archivo
    BY DEF Repartida, TipoMemoria
  <2>2. b \in [Paginas -> Bloque]
    BY <2>1, TiposDatos DEF Archivo
  <2>3. n \in 0 .. CantPaginas
    BY PedidosAssumption
  <2> HIDE DEF b
  <2>4. [almacen[t] EXCEPT !.n = n, !.bloques = b] \in Archivo
    BY <2>1, <2>2, <2>3 DEF Archivo
  <2>5. a = [almacen EXCEPT ![t] = [almacen[t] EXCEPT !.n = n, !.bloques = b]]
    BY DEF Repartida, TipoMemoria
  <2> QED
    BY <2>4, <2>5, CambioTipo DEF Repartida
<1>2. almacen' = a \/ UNCHANGED almacen
  BY DEF Truncate, Aceptada
<1>3. almacen' \in [Tablas -> Archivo]
  BY <1>1, <1>2 DEF Repartida, TipoMemoria
<1> QED
  BY <1>3, AjenaInv DEF Truncate, Ajena, Aceptada

LEMMA TagInv == ASSUME Repartida, NEW o \in Tablas, NEW d \in Tablas, Tag(o, d) PROVE Repartida'
<1>1. [almacen EXCEPT ![d] = [almacen[o] EXCEPT !.estado = "WORK_IN_PROGRESS"]] \in [Tablas -> Archivo]
  <2>1. [almacen[o] EXCEPT !.estado = "WORK_IN_PROGRESS"] \in Archivo
    BY DEF Repartida, TipoMemoria, Archivo
  <2> QED
    BY <2>1, CambioTipo DEF Repartida
<1>2. almacen' \in [Tablas -> Archivo]
  BY <1>1 DEF Tag, Aceptada, Repartida, TipoMemoria
<1> QED
  BY <1>2, AjenaInv DEF Tag, Ajena, Aceptada

LEMMA DeleteInv == ASSUME Repartida, NEW t \in Tablas, Delete(t) PROVE Repartida'
<1>1. [almacen EXCEPT ![t] = Inexistente] \in [Tablas -> Archivo]
  BY TiposDatos, CambioTipo DEF Repartida
<1>2. almacen' \in [Tablas -> Archivo]
  BY <1>1 DEF Delete, Aceptada, Repartida, TipoMemoria
<1> QED
  BY <1>2, AjenaInv DEF Delete, Ajena, Aceptada

LEMMA PedirInv ==
    ASSUME Repartida, NEW tipo \in {"READ", "WRITE"}, NEW t \in Tablas, NEW dir \in Direcciones,
           NEW largo \in Largos, NEW v \in Valores, Pedir(tipo, t, dir, largo, v)
    PROVE  Repartida'
<1> DEFINE i == [tipo |-> tipo, tabla |-> t, direccion |-> dir, resto |-> largo, valor |-> v]
<1>1. i \in Instruccion /\ i.resto > 0 /\ i.tipo \in {"READ", "WRITE"} /\ i.tabla \in Tablas
  BY PedidosAssumption DEF Instruccion
<1>2. instruccion' = i /\ i # Fallida
  BY <1>1, TiposDatos DEF Pedir
<1> HIDE DEF i
<1>3. Resto'
  BY <1>1, <1>2 DEF Pedir, Repartida, TipoMemoria, Ordenada, Resto
<1> QED
  BY <1>3, FueraInv DEF Pedir

LEMMA SinPaginaInv == Repartida /\ SinPagina => Repartida'
<1> SUFFICES ASSUME Repartida, SinPagina PROVE Repartida'
  OBVIOUS
<1>1. instruccion' = Fallida /\ query_en_ejecucion' = FALSE /\ sin_leer' \in BOOLEAN
  BY DEF SinPagina, Legible
<1>2. ~ (instruccion'.resto > 0) /\ instruccion' \in Instruccion
  BY <1>1, TiposDatos
<1>3. Ordenada'
  BY <1>1, <1>2 DEF Ordenada
<1>4. Resto'
  BY <1>1, <1>2, <1>3 DEF SinPagina, Repartida, TipoMemoria, Resto
<1> QED
  BY <1>4, FueraInv DEF SinPagina

-----------------------------------------------------------------------------
(* Steps that touch a page                                                 *)

\* The page of the instruction under way, and the instruction that is left.
LEMMA EnCursoHechos ==
    ASSUME TipoMemoria, Ordenada, EnCurso
    PROVE  /\ instruccion.tabla \in Tablas /\ instruccion.tipo \in {"READ", "WRITE"}
           /\ instruccion # Ninguna /\ instruccion # Fallida
           /\ instruccion.valor \in Valores
           /\ Num \in Nat /\ Offset \in Offsets /\ Bytes \in 1 .. TamPagina - Offset
           /\ Offset + Bytes - 1 \in Offsets
           /\ (Actual \in Presentes(tablas_de_paginas) => Num \in Paginas)
           /\ (Legible(instruccion.tabla, Num) => Num \in Paginas)
<1>1. instruccion.tabla \in Tablas /\ instruccion.tipo \in {"READ", "WRITE"}
  BY DEF Ordenada, EnCurso
<1>2. instruccion.direccion \in Nat /\ instruccion.resto \in Nat /\ instruccion.valor \in Valores
  BY DEF TipoMemoria, Instruccion
<1>3. TamPagina \in Nat \ {0}
  BY TamaniosAssumption
<1>4. Num \in Nat /\ Offset \in 0 .. TamPagina - 1
  BY <1>2, <1>3 DEF Num, Offset
<1>5. Bytes \in 1 .. TamPagina - Offset
  BY <1>2, <1>3, <1>4 DEF Bytes, EnCurso
<1>6. Actual \in Presentes(tablas_de_paginas) => Num \in Paginas
  BY PresentesPares DEF Actual
<1>7. Legible(instruccion.tabla, Num) => Num \in Paginas
  <2>1. almacen[instruccion.tabla].n \in 0 .. CantPaginas
    BY <1>1 DEF TipoMemoria, Archivo
  <2> QED
    BY <1>4, <2>1, TamaniosAssumption DEF Legible, Paginas
<1>8. instruccion # Ninguna /\ instruccion # Fallida
  BY TiposDatos DEF EnCurso
<1>9. Offset + Bytes - 1 \in Offsets
  BY <1>3, <1>4, <1>5 DEF Offsets
<1> QED
  BY <1>1, <1>2, <1>4, <1>5, <1>6, <1>7, <1>8, <1>9 DEF Offsets

LEMMA RestanteInv ==
    ASSUME TipoMemoria, Ordenada, EnCurso, NEW b \in BOOLEAN, instruccion' = Restante(b),
           b = query_en_ejecucion'
    PROVE  instruccion' \in Instruccion /\ Ordenada'
<1>1. /\ instruccion.tabla \in Tablas /\ instruccion.tipo \in {"READ", "WRITE"}
      /\ Bytes \in Nat /\ Bytes > 0
  BY EnCursoHechos, TamaniosAssumption DEF Offsets
<1>2. CASE instruccion.resto > Bytes
  <2> DEFINE i == [instruccion EXCEPT !.direccion = instruccion.direccion + Bytes,
                                      !.resto = instruccion.resto - Bytes]
  <2>1. instruccion' = i
    BY <1>2 DEF Restante
  <2>2. i \in Instruccion /\ i.resto > 0 /\ i.tipo = instruccion.tipo /\ i.tabla = instruccion.tabla
    <3>1. instruccion \in Instruccion
      BY DEF TipoMemoria
    <3>2. instruccion.direccion \in Nat /\ instruccion.resto \in Nat
      BY <3>1 DEF Instruccion
    <3>3. instruccion.direccion + Bytes \in Nat /\ instruccion.resto - Bytes \in Nat
      BY <1>1, <1>2, <3>2
    <3>4. instruccion.resto - Bytes > 0
      BY <1>1, <1>2, <3>2
    <3>5. ASSUME NEW d \in Nat, NEW r \in Nat
          PROVE  LET j == [instruccion EXCEPT !.direccion = d, !.resto = r]
                 IN  /\ j \in Instruccion /\ j.resto = r
                     /\ j.tipo = instruccion.tipo /\ j.tabla = instruccion.tabla
      BY <3>1 DEF Instruccion
    <3>6. i \in Instruccion /\ i.resto = instruccion.resto - Bytes
          /\ i.tipo = instruccion.tipo /\ i.tabla = instruccion.tabla
      BY <3>3, <3>5
    <3> QED
      BY <3>4, <3>6
  <2> HIDE DEF i
  <2>3. instruccion' # Fallida
    BY <2>1, <2>2, TiposDatos
  <2> QED
    BY <1>1, <2>1, <2>2, <2>3 DEF Ordenada
<1>3. CASE ~ (instruccion.resto > Bytes)
  <2>1. instruccion' = IF b THEN Ninguna ELSE Fallida
    BY <1>3 DEF Restante
  <2>2. ~ (instruccion'.resto > 0) /\ (instruccion' = Fallida => ~b) /\ instruccion' \in Instruccion
    BY <2>1, TiposDatos
  <2> QED
    BY <2>1, <2>2 DEF Ordenada
<1> QED
  BY <1>2, <1>3

\* The page of the instruction is present in frame m, and the others as in tb.
LEMMA PresenteTipo ==
    ASSUME TipoMemoria, Ordenada, EnCurso, Num \in Paginas, NEW tb \in Tablero, NEW m \in Marcos
    PROVE  /\ Presente(tb, m) \in Tablero
           /\ Presente(tb, m)[instruccion.tabla][Num].presente
           /\ Presente(tb, m)[instruccion.tabla][Num].marco = m
           /\ Presente(tb, m)[instruccion.tabla][Num].modificado =
                 ((tb[instruccion.tabla][Num].presente /\ tb[instruccion.tabla][Num].modificado)
                     \/ instruccion.tipo = "WRITE")
           /\ \A t \in Tablas, p \in Paginas :
                 <<t, p>> # Actual => Presente(tb, m)[t][p] = tb[t][p]
<1> DEFINE s == instruccion.tabla
           q == Num
           pg == [marco |-> m, presente |-> TRUE, uso |-> TRUE,
                  modificado |-> (tb[s][q].presente /\ tb[s][q].modificado) \/ instruccion.tipo = "WRITE"]
<1>1. s \in Tablas /\ q \in Paginas
  BY EnCursoHechos
<1>2. Presente(tb, m) = [tb EXCEPT ![s][q] = pg]
  BY DEF Presente
<1>3. /\ pg \in Pagina /\ pg.presente /\ pg.marco = m
      /\ pg.modificado = ((tb[s][q].presente /\ tb[s][q].modificado) \/ instruccion.tipo = "WRITE")
  <2>1. tb[s][q] \in Pagina
    BY <1>1 DEF Tablero
  <2> QED
    BY <2>1 DEF Pagina
<1> HIDE DEF pg
<1>4. Presente(tb, m) \in Tablero /\ Presente(tb, m)[s][q] = pg
  BY <1>1, <1>2, <1>3 DEF Tablero
<1>5. ASSUME NEW t \in Tablas, NEW p \in Paginas, <<t, p>> # Actual
      PROVE  Presente(tb, m)[t][p] = tb[t][p]
  BY <1>1, <1>2, <1>5 DEF Tablero, Actual
<1> QED
  BY <1>3, <1>4, <1>5

\* A page that was not present comes to a frame that was not in use.
LEMMA RepartoAgregar ==
    ASSUME NEW ta, NEW tb, NEW oc, NEW t \in Tablas, NEW p \in Paginas, NEW m,
           Reparto(ta, oc), ~ta[t][p].presente, m \notin oc,
           tb[t][p].presente, tb[t][p].marco = m,
           \A s \in Tablas, q \in Paginas : <<s, q>> # <<t, p>> =>
              /\ tb[s][q].presente = ta[s][q].presente
              /\ tb[s][q].presente => tb[s][q].marco = ta[s][q].marco
    PROVE  Reparto(tb, oc \union {m}) /\ Presentes(tb) = Presentes(ta) \union {<<t, p>>}
<1>1. \A r, s \in Tablas, o, q \in Paginas :
         tb[r][o].presente /\ tb[s][q].presente /\ tb[r][o].marco = tb[s][q].marco => r = s /\ o = q
  BY DEF Reparto
<1>2. \A s \in Tablas, q \in Paginas : tb[s][q].presente => tb[s][q].marco \in oc \union {m}
  BY DEF Reparto
<1>3. ASSUME NEW k \in oc \union {m}
      PROVE  \E s \in Tablas, q \in Paginas : tb[s][q].presente /\ tb[s][q].marco = k
  <2>1. CASE k = m
    BY <2>1
  <2>2. CASE k # m
    <3>1. PICK s \in Tablas, q \in Paginas : ta[s][q].presente /\ ta[s][q].marco = k
      BY <1>3, <2>2 DEF Reparto
    <3>2. <<s, q>> # <<t, p>>
      BY <3>1
    <3> QED
      BY <3>1, <3>2
  <2> QED
    BY <2>1, <2>2
<1>4. Presentes(tb) = Presentes(ta) \union {<<t, p>>}
  BY DEF Presentes
<1> QED
  BY <1>1, <1>2, <1>3, <1>4 DEF Reparto

\* A page leaves its frame.
LEMMA RepartoQuitar ==
    ASSUME NEW ta, NEW tb, NEW oc, NEW t \in Tablas, NEW p \in Paginas,
           Reparto(ta, oc), ta[t][p].presente,
           ~tb[t][p].presente,
           \A s \in Tablas, q \in Paginas : <<s, q>> # <<t, p>> =>
              /\ tb[s][q].presente = ta[s][q].presente
              /\ tb[s][q].presente => tb[s][q].marco = ta[s][q].marco
    PROVE  Reparto(tb, oc \ {ta[t][p].marco}) /\ Presentes(tb) = Presentes(ta) \ {<<t, p>>}
<1>1. \A r, s \in Tablas, o, q \in Paginas :
         tb[r][o].presente /\ tb[s][q].presente /\ tb[r][o].marco = tb[s][q].marco => r = s /\ o = q
  BY DEF Reparto
<1>2. ASSUME NEW s \in Tablas, NEW q \in Paginas, tb[s][q].presente
      PROVE  tb[s][q].marco \in oc \ {ta[t][p].marco}
  BY <1>2 DEF Reparto
<1>3. ASSUME NEW k \in oc \ {ta[t][p].marco}
      PROVE  \E s \in Tablas, q \in Paginas : tb[s][q].presente /\ tb[s][q].marco = k
  <2>1. PICK s \in Tablas, q \in Paginas : ta[s][q].presente /\ ta[s][q].marco = k
    BY <1>3 DEF Reparto
  <2>2. <<s, q>> # <<t, p>>
    BY <2>1
  <2> QED
    BY <2>1, <2>2
<1>4. Presentes(tb) = Presentes(ta) \ {<<t, p>>}
  BY DEF Presentes
<1> QED
  BY <1>1, <1>2, <1>3, <1>4 DEF Reparto

\* The bytes that READ and WRITE leave in the memory.
LEMMA CopiaTipo ==
    ASSUME TipoMemoria, Ordenada, EnCurso, NEW mem \in [Celdas -> Valores], NEW m \in Marcos
    PROVE  Copia(mem, m) \in [Celdas -> Valores]
BY EnCursoHechos DEF Copia

\* memcpy of a block copies bytes, wherever it begins.
LEMMA CargadaTipo ==
    ASSUME TipoMemoria, Ordenada, EnCurso, Num \in Paginas, NEW m \in Marcos
    PROVE  Cargada(m) \in [Celdas -> Valores]
<1>1. almacen[instruccion.tabla].bloques[Num] \in [Offsets -> Valores]
  BY EnCursoHechos DEF TipoMemoria, Archivo, Bloque
<1>2. memoria \in [Celdas -> Valores]
  BY DEF TipoMemoria
<1> QED
  BY <1>1, <1>2 DEF Cargada

\* With every frame in use, the hand finds a page in any of them.
LEMMA Aguja ==
    ASSUME Repartida, MarcosLibres = {}, NEW k \in Marcos
    PROVE  /\ EnAguja(k) \in Presentes(tablas_de_paginas)
           /\ tablas_de_paginas[EnAguja(k)[1]][EnAguja(k)[2]].marco = (puntero_clock + k) % CantMarcos
<1> DEFINE m == (puntero_clock + k) % CantMarcos
           tb == tablas_de_paginas
<1>1. m \in Marcos
  BY TamaniosAssumption DEF Repartida, TipoMemoria, Marcos
<1>2. m \in marcos_ocupados
  BY <1>1 DEF MarcosLibres
<1> HIDE DEF m
<1>3. PICK t \in Tablas, p \in Paginas : tb[t][p].presente /\ tb[t][p].marco = m
  BY <1>2 DEF Repartida, Reparto
<1>4. \E tp \in Presentes(tb) : tb[tp[1]][tp[2]].marco = m
  <2>1. <<t, p>> \in Presentes(tb) /\ tb[<<t, p>>[1]][<<t, p>>[2]].marco = m
    BY <1>3, PresentesPares
  <2> QED
    BY <2>1
<1>5. EnAguja(k) = CHOOSE tp \in Presentes(tb) : tb[tp[1]][tp[2]].marco = m
  BY DEF EnAguja, m
<1> QED
  BY <1>4, <1>5 DEF m

\* With every frame in use the four rounds of CLOCK-M end at one of them.
LEMMA VueltasDelClock ==
    ASSUME Repartida, MarcosLibres = {}
    PROVE  PosicionClock \in Marcos
<1>1. \A S \in SUBSET Marcos : S # {} => Min(S) \in Marcos
  <2>1. Marcos \subseteq Nat
    BY TamaniosAssumption DEF Marcos
  <2> QED
    BY <2>1, MinNat
<1>2. \A u, b : Candidatos(u, b) \in SUBSET Marcos
  BY DEF Candidatos
<1>3. Candidatos({}, FALSE) # {} \/ Candidatos({}, TRUE) # {}
  <2> DEFINE mod == tablas_de_paginas[EnAguja(0)[1]][EnAguja(0)[2]].modificado
  <2>1. 0 \in Marcos
    BY TiposDatos
  <2>2. EnAguja(0) \in Presentes(tablas_de_paginas)
    BY <2>1, Aguja
  <2>3. EnAguja(0)[1] \in Tablas /\ EnAguja(0)[2] \in Paginas
    BY <2>2, PresentesPares
  <2>4. mod \in BOOLEAN
    BY <2>3 DEF Repartida, TipoMemoria, Pagina
  <2>5. mod = FALSE \/ mod = TRUE
    BY <2>4
  <2>6. 0 \in Candidatos({}, mod)
    BY <2>1 DEF Candidatos
  <2> HIDE DEF mod
  <2>7. CASE mod = FALSE
    BY <2>6, <2>7
  <2>8. CASE mod = TRUE
    BY <2>6, <2>8
  <2> QED
    BY <2>5, <2>7, <2>8
<1> QED
  BY <1>1, <1>2, <1>3 DEF PosicionClock

\* The victim is a present page.
LEMMA VictimaPresente ==
    ASSUME Repartida, MarcosLibres = {}
    PROVE  /\ Victima \in Presentes(tablas_de_paginas)
           /\ SiempreHayVictima
<1>1. CASE algoritmo = "LRU"
  <2>1. accesos \in Seq(Tablas \X Paginas) /\ ToSet(accesos) = Presentes(tablas_de_paginas)
    BY <1>1 DEF Repartida, TipoMemoria, Accedidas
  <2>2. Presentes(tablas_de_paginas) # {}
    BY Aguja, TiposDatos
  <2>3. accesos # <<>> /\ DOMAIN accesos = 1 .. Len(accesos) /\ Len(accesos) \in Nat
    BY <2>1, <2>2, ElementosLista
  <2>4. 1 \in 1 .. Len(accesos)
    BY <2>1, <2>3, EmptySeq
  <2>5. accesos[1] \in ToSet(accesos)
    BY <2>3, <2>4 DEF ToSet
  <2> QED
    BY <1>1, <2>1, <2>3, <2>5 DEF Victima, VictimaLRU, SiempreHayVictima
<1>2. CASE algoritmo # "LRU"
  <2>1. PosicionClock \in Marcos
    BY VueltasDelClock
  <2>2. PosicionClock # SinMarco
    BY <2>1, TamaniosAssumption DEF Marcos, SinMarco
  <2>3. EnAguja(PosicionClock) \in Presentes(tablas_de_paginas)
    BY <2>1, Aguja
  <2> QED
    BY <1>2, <2>2, <2>3 DEF Victima, SiempreHayVictima
<1> QED
  BY <1>1, <1>2

\* The victim leaves, and the other pages stay where they are, modified or not.
LEMMA SinVictimaTipo ==
    ASSUME TipoMemoria, NEW v
    PROVE  /\ SinVictima(v) \in Tablero
           /\ \A t \in Tablas, p \in Paginas :
                 /\ <<t, p>> = v => SinVictima(v)[t][p] = Ausente
                 /\ <<t, p>> # v =>
                       /\ SinVictima(v)[t][p].presente = tablas_de_paginas[t][p].presente
                       /\ SinVictima(v)[t][p].modificado = tablas_de_paginas[t][p].modificado
                       /\ SinVictima(v)[t][p].marco = tablas_de_paginas[t][p].marco
<1> DEFINE b(t, p) == ~(algoritmo = "CLOCK-M" /\ \E k \in Limpiadas : EnAguja(k) = <<t, p>>)
           o(t, p) == [tablas_de_paginas[t][p] EXCEPT !.uso = @ /\ b(t, p)]
           g(t, p) == IF <<t, p>> = v THEN Ausente ELSE o(t, p)
<1>1. SinVictima(v) = [t \in Tablas |-> [p \in Paginas |-> g(t, p)]]
  BY DEF SinVictima
<1> HIDE DEF b
<1>2. ASSUME NEW t \in Tablas, NEW p \in Paginas
      PROVE  /\ o(t, p) \in Pagina /\ o(t, p).presente = tablas_de_paginas[t][p].presente
             /\ o(t, p).modificado = tablas_de_paginas[t][p].modificado
             /\ o(t, p).marco = tablas_de_paginas[t][p].marco
  <2>1. tablas_de_paginas[t][p] \in Pagina
    BY DEF TipoMemoria
  <2> QED
    BY <2>1 DEF Pagina
<1> HIDE DEF o
<1>3. \A t \in Tablas, p \in Paginas : g(t, p) \in Pagina
  BY <1>2, TiposDatos
<1>4. \A t \in Tablas, p \in Paginas :
         g(t, p) = IF <<t, p>> = v THEN Ausente ELSE o(t, p)
  OBVIOUS
<1> HIDE DEF g
<1>5. SinVictima(v) \in Tablero
  <2>1. \A t \in Tablas : [p \in Paginas |-> g(t, p)] \in [Paginas -> Pagina]
    BY <1>3
  <2> QED
    BY <1>1, <2>1 DEF Tablero
<1>6. \A t \in Tablas, p \in Paginas : SinVictima(v)[t][p] = g(t, p)
  BY <1>1
<1> HIDE DEF SinVictima
<1> QED
  BY <1>2, <1>4, <1>5, <1>6

\* The page accessed goes to the end of the list, once sale has left it.
LEMMA UltimoAccesoInv ==
    ASSUME Repartida, Actual \in Tablas \X Paginas, NEW sale,
           Actual \notin Presentes(tablas_de_paginas) \ {sale}
    PROVE  /\ UltimoAcceso(sale) \in Seq(Tablas \X Paginas)
           /\ algoritmo = "LRU" =>
                 /\ IsInjective(UltimoAcceso(sale))
                 /\ ToSet(UltimoAcceso(sale)) =
                       (Presentes(tablas_de_paginas) \ {sale}) \union {Actual}
<1>0. accesos \in Seq(Tablas \X Paginas)
  BY DEF Repartida, TipoMemoria
<1>1. CASE algoritmo = "LRU"
  <2> DEFINE r == RemoveFirst(accesos, sale)
  <2>1. IsInjective(accesos) /\ ToSet(accesos) = Presentes(tablas_de_paginas)
    BY <1>1 DEF Repartida, Accedidas
  <2>2. r \in Seq(Tablas \X Paginas) /\ ToSet(r) = ToSet(accesos) \ {sale} /\ IsInjective(r)
    BY <1>0, <2>1, QuitarLista
  <2> HIDE DEF r
  <2>3. /\ Append(r, Actual) \in Seq(Tablas \X Paginas)
        /\ ToSet(Append(r, Actual)) = ToSet(r) \union {Actual}
        /\ Actual \notin ToSet(r) => IsInjective(Append(r, Actual))
    BY <2>2, AgregarLista
  <2>4. UltimoAcceso(sale) = Append(r, Actual)
    BY <1>1 DEF UltimoAcceso, r
  <2> QED
    BY <2>1, <2>2, <2>3, <2>4
<1>2. CASE algoritmo # "LRU"
  BY <1>0, <1>2 DEF UltimoAcceso
<1> QED
  BY <1>1, <1>2

\* The step of an instruction that leaves its page present: the frames and the
\* list of accesses after it.
LEMMA PasoInv ==
    ASSUME Repartida, EnCurso, Num \in Paginas, NEW b \in BOOLEAN, NEW sale,
           UNCHANGED <<algoritmo, sin_leer>>,
           marcos_ocupados' \subseteq Marcos, memoria' \in [Celdas -> Valores],
           tablas_de_paginas' \in Tablero, puntero_clock' \in Marcos,
           query_en_ejecucion' = b, instruccion' = Restante(b), almacen' \in [Tablas -> Archivo],
           accesos' = UltimoAcceso(sale),
           Actual \notin Presentes(tablas_de_paginas) \ {sale},
           Presentes(tablas_de_paginas') = (Presentes(tablas_de_paginas) \ {sale}) \union {Actual},
           Reparto(tablas_de_paginas', marcos_ocupados')
    PROVE  Repartida'
<1>1. TipoMemoria /\ Ordenada
  BY DEF Repartida
<1>2. instruccion' \in Instruccion /\ Ordenada'
  BY <1>1, RestanteInv
<1>3. Actual \in Tablas \X Paginas
  BY <1>1, EnCursoHechos DEF Actual
<1>4. /\ accesos' \in Seq(Tablas \X Paginas)
      /\ algoritmo' = "LRU" => IsInjective(accesos') /\ ToSet(accesos') = Presentes(tablas_de_paginas')
  BY <1>3, UltimoAccesoInv
<1>5. TipoMemoria'
  BY <1>1, <1>2, <1>4 DEF TipoMemoria, Tablero
<1>6. Accedidas'
  BY <1>4 DEF Accedidas
<1> QED
  BY <1>2, <1>5, <1>6 DEF Repartida

LEMMA EnMemoriaInv == Repartida /\ EnMemoria => Repartida'
<1> SUFFICES ASSUME Repartida, EnMemoria PROVE Repartida'
  OBVIOUS
<1> DEFINE t == instruccion.tabla
           m == tablas_de_paginas[t][Num].marco
<1>0. TipoMemoria /\ Ordenada /\ EnCurso
  BY DEF Repartida, EnMemoria
<1>1. t \in Tablas /\ Num \in Paginas /\ Actual = <<t, Num>> /\ Actual \in Presentes(tablas_de_paginas)
  BY <1>0, EnCursoHechos DEF Actual, EnMemoria
<1>2. m \in Marcos /\ tablas_de_paginas[t][Num].presente /\ tablas_de_paginas \in Tablero
  BY <1>0, <1>1, PresentesPares DEF TipoMemoria, Pagina, Tablero
<1>3. /\ memoria' = Copia(memoria, m) /\ tablas_de_paginas' = Presente(tablas_de_paginas, m)
      /\ accesos' = UltimoAcceso(Actual) /\ instruccion' = Restante(query_en_ejecucion)
      /\ UNCHANGED <<algoritmo, marcos_ocupados, puntero_clock, query_en_ejecucion, sin_leer, almacen>>
  BY DEF EnMemoria
<1> HIDE DEF m
<1>4. memoria' \in [Celdas -> Valores]
  BY <1>0, <1>2, <1>3, CopiaTipo DEF TipoMemoria
<1>5. /\ tablas_de_paginas' \in Tablero
      /\ tablas_de_paginas'[t][Num].presente /\ tablas_de_paginas'[t][Num].marco = m
      /\ \A s \in Tablas, p \in Paginas : <<s, p>> # Actual => tablas_de_paginas'[s][p] = tablas_de_paginas[s][p]
  BY <1>0, <1>1, <1>2, <1>3, PresenteTipo
<1>6. ASSUME NEW s \in Tablas, NEW p \in Paginas
      PROVE  /\ tablas_de_paginas'[s][p].presente <=> tablas_de_paginas[s][p].presente
             /\ tablas_de_paginas'[s][p].marco = tablas_de_paginas[s][p].marco
  <2>1. CASE <<s, p>> = Actual
    <3>1. s = t /\ p = Num
      BY <1>1, <2>1
    <3> QED
      BY <1>2, <1>5, <3>1 DEF m
  <2>2. CASE <<s, p>> # Actual
    BY <1>5, <2>2
  <2> QED
    BY <2>1, <2>2
<1>7. /\ Reparto(tablas_de_paginas', marcos_ocupados')
      /\ Presentes(tablas_de_paginas') = Presentes(tablas_de_paginas)
  BY <1>3, <1>6, RepartoIgual DEF Repartida
<1>8. /\ Actual \notin Presentes(tablas_de_paginas) \ {Actual}
      /\ Presentes(tablas_de_paginas') = (Presentes(tablas_de_paginas) \ {Actual}) \union {Actual}
  BY <1>1, <1>7
<1>9. /\ query_en_ejecucion \in BOOLEAN /\ marcos_ocupados' \subseteq Marcos
      /\ puntero_clock' \in Marcos /\ almacen' \in [Tablas -> Archivo]
  BY <1>0, <1>3 DEF TipoMemoria
<1> QED
  BY <1>0, <1>1, <1>3, <1>4, <1>5, <1>7, <1>8, <1>9, PasoInv

LEMMA CargarEnLibreInv == Repartida /\ CargarEnLibre => Repartida'
<1> SUFFICES ASSUME Repartida, CargarEnLibre PROVE Repartida'
  OBVIOUS
<1> DEFINE t == instruccion.tabla
           m == Min(MarcosLibres)
<1>0. TipoMemoria /\ Ordenada /\ EnCurso /\ MarcosLibres # {} /\ query_en_ejecucion
      /\ Actual \notin Presentes(tablas_de_paginas) /\ Legible(t, Num)
  BY DEF Repartida, CargarEnLibre, Cargable, Falta
<1>1. t \in Tablas /\ Num \in Paginas /\ Actual = <<t, Num>>
  BY <1>0, EnCursoHechos DEF Actual
<1>2. m \in MarcosLibres
  <2>1. MarcosLibres \in SUBSET Nat
    BY TamaniosAssumption DEF MarcosLibres, Marcos
  <2> QED
    BY <1>0, <2>1, MinNat
<1>3. m \in Marcos /\ m \notin marcos_ocupados /\ ~tablas_de_paginas[t][Num].presente
      /\ tablas_de_paginas \in Tablero
  BY <1>0, <1>1, <1>2, PresentesPares DEF TipoMemoria, MarcosLibres, Tablero
<1>4. /\ memoria' = Copia(Cargada(m), m) /\ tablas_de_paginas' = Presente(tablas_de_paginas, m)
      /\ accesos' = UltimoAcceso(Actual) /\ instruccion' = Restante(TRUE)
      /\ marcos_ocupados' = marcos_ocupados \union {m}
      /\ UNCHANGED <<algoritmo, puntero_clock, query_en_ejecucion, sin_leer, almacen>>
  BY DEF CargarEnLibre
<1> HIDE DEF m
<1>5. memoria' \in [Celdas -> Valores]
  BY <1>0, <1>1, <1>3, <1>4, CopiaTipo, CargadaTipo
<1>6. /\ tablas_de_paginas' \in Tablero
      /\ tablas_de_paginas'[t][Num].presente /\ tablas_de_paginas'[t][Num].marco = m
      /\ \A s \in Tablas, p \in Paginas : <<s, p>> # Actual => tablas_de_paginas'[s][p] = tablas_de_paginas[s][p]
  BY <1>0, <1>1, <1>3, <1>4, PresenteTipo
<1>7. /\ Reparto(tablas_de_paginas', marcos_ocupados')
      /\ Presentes(tablas_de_paginas') = Presentes(tablas_de_paginas) \union {Actual}
  <2>1. Reparto(tablas_de_paginas, marcos_ocupados)
    BY DEF Repartida
  <2>2. \A s \in Tablas, q \in Paginas : <<s, q>> # <<t, Num>> =>
           /\ tablas_de_paginas'[s][q].presente = tablas_de_paginas[s][q].presente
           /\ tablas_de_paginas'[s][q].presente =>
                 tablas_de_paginas'[s][q].marco = tablas_de_paginas[s][q].marco
    BY <1>1, <1>6
  <2>3. /\ Reparto(tablas_de_paginas', marcos_ocupados \union {m})
        /\ Presentes(tablas_de_paginas') = Presentes(tablas_de_paginas) \union {<<t, Num>>}
    <3>1. PICK tb : tb = tablas_de_paginas'
      OBVIOUS
    <3>2. t \in Tablas /\ Num \in Paginas /\ ~tablas_de_paginas[t][Num].presente /\ m \notin marcos_ocupados
      BY <1>1, <1>3
    <3>3. tb[t][Num].presente /\ tb[t][Num].marco = m
      BY <1>6, <3>1
    <3>4. \A s \in Tablas, q \in Paginas : <<s, q>> # <<t, Num>> =>
             /\ tb[s][q].presente = tablas_de_paginas[s][q].presente
             /\ tb[s][q].presente => tb[s][q].marco = tablas_de_paginas[s][q].marco
      BY <2>2, <3>1
    <3> HIDE DEF t
    <3>5. Reparto(tb, marcos_ocupados \union {m}) /\ Presentes(tb) = Presentes(tablas_de_paginas) \union {<<t, Num>>}
      BY <2>1, <3>2, <3>3, <3>4, RepartoAgregar
    <3> QED
      BY <3>1, <3>5
  <2> QED
    BY <1>1, <1>4, <2>3
<1>8. /\ Actual \notin Presentes(tablas_de_paginas) \ {Actual}
      /\ Presentes(tablas_de_paginas') = (Presentes(tablas_de_paginas) \ {Actual}) \union {Actual}
  BY <1>0, <1>7
<1>9. /\ query_en_ejecucion' = TRUE /\ marcos_ocupados' \subseteq Marcos
      /\ puntero_clock' \in Marcos /\ almacen' \in [Tablas -> Archivo]
  BY <1>0, <1>3, <1>4 DEF TipoMemoria
<1> QED
  BY <1>0, <1>1, <1>4, <1>5, <1>6, <1>7, <1>8, <1>9, PasoInv

\* What the replacement of a page finds and leaves: the victim was present, and
\* the page of the instruction has its frame.
LEMMA ReemplazarHechos ==
    ASSUME Repartida, Reemplazar,
           NEW v, v = Victima, NEW m, m = tablas_de_paginas[v[1]][v[2]].marco
    PROVE  /\ EnCurso /\ query_en_ejecucion /\ Legible(instruccion.tabla, Num)
           /\ instruccion.tabla \in Tablas /\ Num \in Paginas /\ Actual = <<instruccion.tabla, Num>>
           /\ Actual \notin Presentes(tablas_de_paginas)
           /\ v \in Presentes(tablas_de_paginas) /\ m \in Marcos
           /\ ~tablas_de_paginas[instruccion.tabla][Num].presente
           /\ almacen' = Escritos(AGuardar(v)) /\ memoria' = Copia(Cargada(m), m)
           /\ tablas_de_paginas' \in Tablero
           /\ tablas_de_paginas'[instruccion.tabla][Num].presente
           /\ tablas_de_paginas'[instruccion.tabla][Num].marco = m
           /\ tablas_de_paginas'[instruccion.tabla][Num].modificado = (instruccion.tipo = "WRITE")
           /\ ~tablas_de_paginas'[v[1]][v[2]].presente
           /\ \A t \in Tablas, p \in Paginas : <<t, p>> # Actual /\ <<t, p>> # v =>
                 /\ tablas_de_paginas'[t][p].presente = tablas_de_paginas[t][p].presente
                 /\ tablas_de_paginas'[t][p].modificado = tablas_de_paginas[t][p].modificado
                 /\ tablas_de_paginas'[t][p].marco = tablas_de_paginas[t][p].marco
           /\ Presentes(tablas_de_paginas') = (Presentes(tablas_de_paginas) \ {v}) \union {Actual}
           /\ Reparto(tablas_de_paginas', marcos_ocupados')
<1> DEFINE s == instruccion.tabla
           tv == SinVictima(v)
           pr == Presentes(tablas_de_paginas)
<1>0. TipoMemoria /\ Ordenada /\ EnCurso /\ MarcosLibres = {} /\ query_en_ejecucion
      /\ Actual \notin pr /\ Legible(s, Num)
  BY DEF Repartida, Reemplazar, Cargable, Falta
<1>1. s \in Tablas /\ Num \in Paginas /\ Actual = <<s, Num>>
  BY <1>0, EnCursoHechos DEF Actual
<1>2. v \in pr
  BY <1>0, VictimaPresente
<1>3. v[1] \in Tablas /\ v[2] \in Paginas /\ v = <<v[1], v[2]>> /\ tablas_de_paginas[v[1]][v[2]].presente
  BY <1>2, PresentesPares
<1>4. m \in Marcos /\ ~tablas_de_paginas[s][Num].presente /\ tablas_de_paginas \in Tablero
  BY <1>0, <1>1, <1>3, PresentesPares DEF TipoMemoria, Pagina, Tablero
<1>5. /\ tablas_de_paginas' = Presente(tv, m) /\ almacen' = Escritos(AGuardar(v))
      /\ memoria' = Copia(Cargada(m), m) /\ marcos_ocupados' = marcos_ocupados
  BY DEF Reemplazar
<1>6. /\ tv \in Tablero
      /\ tv[v[1]][v[2]] = Ausente
      /\ \A t \in Tablas, p \in Paginas :
            <<t, p>> # v => /\ tv[t][p].presente = tablas_de_paginas[t][p].presente
                            /\ tv[t][p].modificado = tablas_de_paginas[t][p].modificado
                            /\ tv[t][p].marco = tablas_de_paginas[t][p].marco
  BY <1>0, <1>3, SinVictimaTipo
<1> HIDE DEF tv
<1>7. Actual # v
  BY <1>0, <1>2
<1>8. /\ tablas_de_paginas' \in Tablero
      /\ tablas_de_paginas'[s][Num].presente /\ tablas_de_paginas'[s][Num].marco = m
      /\ tablas_de_paginas'[s][Num].modificado = ((tv[s][Num].presente /\ tv[s][Num].modificado)
                                                    \/ instruccion.tipo = "WRITE")
      /\ \A t \in Tablas, p \in Paginas : <<t, p>> # Actual => tablas_de_paginas'[t][p] = tv[t][p]
  BY <1>0, <1>1, <1>4, <1>5, <1>6, PresenteTipo
<1>9. tv[s][Num].presente = FALSE
  BY <1>1, <1>4, <1>6, <1>7
<1>10. tablas_de_paginas'[s][Num].modificado = (instruccion.tipo = "WRITE")
  BY <1>8, <1>9
<1>11. ~tablas_de_paginas'[v[1]][v[2]].presente
  BY <1>3, <1>6, <1>7, <1>8, TiposDatos
<1>12. \A t \in Tablas, p \in Paginas : <<t, p>> # Actual /\ <<t, p>> # v =>
          /\ tablas_de_paginas'[t][p].presente = tablas_de_paginas[t][p].presente
          /\ tablas_de_paginas'[t][p].modificado = tablas_de_paginas[t][p].modificado
          /\ tablas_de_paginas'[t][p].marco = tablas_de_paginas[t][p].marco
  BY <1>6, <1>8
<1>13. Reparto(tv, marcos_ocupados \ {m}) /\ Presentes(tv) = pr \ {v}
  <2>1. ~tv[v[1]][v[2]].presente
    BY <1>6, TiposDatos
  <2>2. \A t \in Tablas, p \in Paginas : <<t, p>> # <<v[1], v[2]>> =>
           /\ tv[t][p].presente = tablas_de_paginas[t][p].presente
           /\ tv[t][p].presente => tv[t][p].marco = tablas_de_paginas[t][p].marco
    BY <1>3, <1>6
  <2>3. Reparto(tablas_de_paginas, marcos_ocupados)
    BY DEF Repartida
  <2>4. /\ Reparto(tv, marcos_ocupados \ {tablas_de_paginas[v[1]][v[2]].marco})
        /\ Presentes(tv) = Presentes(tablas_de_paginas) \ {<<v[1], v[2]>>}
    <3>1. v[1] \in Tablas /\ v[2] \in Paginas /\ tablas_de_paginas[v[1]][v[2]].presente
      BY <1>3
    <3> QED
      BY <2>1, <2>2, <2>3, <3>1, RepartoQuitar
  <2> QED
    BY <1>3, <2>4
<1>14. /\ Reparto(tablas_de_paginas', (marcos_ocupados \ {m}) \union {m})
       /\ Presentes(tablas_de_paginas') = (pr \ {v}) \union {Actual}
  <2>1. ~tv[s][Num].presente /\ m \notin marcos_ocupados \ {m}
    BY <1>9
  <2>2. \A t \in Tablas, p \in Paginas : <<t, p>> # <<s, Num>> =>
           /\ tablas_de_paginas'[t][p].presente = tv[t][p].presente
           /\ tablas_de_paginas'[t][p].presente => tablas_de_paginas'[t][p].marco = tv[t][p].marco
    BY <1>1, <1>8
  <2>3. /\ Reparto(tablas_de_paginas', (marcos_ocupados \ {m}) \union {m})
        /\ Presentes(tablas_de_paginas') = Presentes(tv) \union {<<s, Num>>}
    <3>1. /\ s \in Tablas /\ Num \in Paginas /\ Reparto(tv, marcos_ocupados \ {m})
          /\ tablas_de_paginas'[s][Num].presente /\ tablas_de_paginas'[s][Num].marco = m
      BY <1>1, <1>8, <1>13
    <3> DEFINE oc == marcos_ocupados \ {m}
    <3>2. Reparto(tv, oc) /\ m \notin oc
      BY <2>1, <3>1
    <3> HIDE DEF s, oc
    <3>3. /\ Reparto(tablas_de_paginas', oc \union {m})
          /\ Presentes(tablas_de_paginas') = Presentes(tv) \union {<<s, Num>>}
      <4> DEFINE tp == tablas_de_paginas'
                 n == Num
      <4>1. /\ s \in Tablas /\ n \in Paginas /\ Reparto(tv, oc) /\ ~tv[s][n].presente /\ m \notin oc
            /\ tp[s][n].presente /\ tp[s][n].marco = m
        BY <2>1, <3>1, <3>2
      <4>2. \A r \in Tablas, q \in Paginas : <<r, q>> # <<s, n>> =>
               /\ tp[r][q].presente = tv[r][q].presente
               /\ tp[r][q].presente => tp[r][q].marco = tv[r][q].marco
        BY <2>2
      <4> HIDE DEF tp, n
      <4>3. Reparto(tp, oc \union {m}) /\ Presentes(tp) = Presentes(tv) \union {<<s, n>>}
        BY <4>1, <4>2, RepartoAgregar
      <4> QED
        BY <4>3 DEF tp, n
    <3> QED
      BY <3>3 DEF oc
  <2> QED
    BY <1>1, <1>13, <2>3
<1>15. (marcos_ocupados \ {m}) \union {m} = marcos_ocupados'
  <2>1. m \in marcos_ocupados
    BY <1>3 DEF Repartida, Reparto
  <2> QED
    BY <1>5, <2>1
<1> QED
  BY <1>0, <1>1, <1>2, <1>4, <1>5, <1>8, <1>10, <1>11, <1>12, <1>14, <1>15

LEMMA ReemplazarInv == Repartida /\ Reemplazar => Repartida'
<1> SUFFICES ASSUME Repartida, Reemplazar PROVE Repartida'
  OBVIOUS
<1> DEFINE v == Victima
           m == tablas_de_paginas[v[1]][v[2]].marco
           bien == Rechazadas(AGuardar(v)) = {}
<1>1. /\ accesos' = UltimoAcceso(v) /\ query_en_ejecucion' = bien /\ instruccion' = Restante(bien)
      /\ puntero_clock' = IF algoritmo = "LRU" THEN puntero_clock ELSE Siguiente(m)
      /\ UNCHANGED <<algoritmo, marcos_ocupados, sin_leer>> /\ bien \in BOOLEAN
  BY DEF Reemplazar
<1>2. v = Victima /\ m = tablas_de_paginas[v[1]][v[2]].marco /\ TipoMemoria /\ Ordenada
  BY DEF Repartida
<1> HIDE DEF v, m, bien
<1>3. /\ EnCurso /\ Num \in Paginas /\ Actual \notin Presentes(tablas_de_paginas)
      /\ m \in Marcos
      /\ almacen' = Escritos(AGuardar(v)) /\ memoria' = Copia(Cargada(m), m)
      /\ tablas_de_paginas' \in Tablero
      /\ Presentes(tablas_de_paginas') = (Presentes(tablas_de_paginas) \ {v}) \union {Actual}
      /\ Reparto(tablas_de_paginas', marcos_ocupados')
  BY <1>2, ReemplazarHechos
<1>4. almacen' \in [Tablas -> Archivo]
  BY <1>2, <1>3, EscritosTipo
<1>5. memoria' \in [Celdas -> Valores]
  BY <1>2, <1>3, CopiaTipo, CargadaTipo
<1>6. puntero_clock' \in Marcos
  BY <1>1, <1>2, <1>3, TamaniosAssumption DEF TipoMemoria, Siguiente, Marcos
<1>7. marcos_ocupados' \subseteq Marcos
  BY <1>1, <1>2 DEF TipoMemoria
<1>8. Actual \notin Presentes(tablas_de_paginas) \ {v}
  BY <1>3
<1> QED
  BY <1>1, <1>3, <1>4, <1>5, <1>6, <1>7, <1>8, PasoInv

LEMMA InitInv == Init => Repartida
<1> SUFFICES ASSUME Init PROVE Repartida
  OBVIOUS
<1>1. tablas_de_paginas = [t \in Tablas |-> [p \in Paginas |-> Ausente]] /\ Ausente \in Pagina
  BY TiposDatos DEF Init
<1>2. tablas_de_paginas \in Tablero /\ \A t \in Tablas, p \in Paginas : ~tablas_de_paginas[t][p].presente
  BY <1>1, TiposDatos DEF Tablero
<1>3. almacen \in [Tablas -> Archivo]
  <2>1. [Inexistente EXCEPT !.estado = "WORK_IN_PROGRESS", !.n = CantPaginas] \in Archivo
    <3>1. CantPaginas \in 0 .. CantPaginas
      BY TamaniosAssumption
    <3> HIDE DEF Inexistente
    <3> QED
      BY <3>1, TiposDatos DEF Archivo
  <2> QED
    BY <2>1, TiposDatos DEF Init
<1>4. memoria \in [Celdas -> Valores]
  BY BytesAssumption DEF Init
<1>5. /\ algoritmo \in Algoritmos /\ marcos_ocupados = {} /\ accesos = <<>> /\ puntero_clock = 0
      /\ query_en_ejecucion = FALSE /\ sin_leer = FALSE /\ instruccion = Ninguna
  BY DEF Init
<1>6. TipoMemoria
  BY <1>2, <1>3, <1>4, <1>5, TiposDatos, EmptySeq DEF TipoMemoria, Tablero
<1>7. Ordenada
  BY <1>5, TiposDatos DEF Ordenada
<1>8. Reparto(tablas_de_paginas, marcos_ocupados) /\ Presentes(tablas_de_paginas) = {}
  BY <1>2, <1>5 DEF Reparto, Presentes
<1>9. Accedidas
  BY <1>5, <1>8 DEF Accedidas, IsInjective, ToSet
<1> QED
  BY <1>6, <1>7, <1>8, <1>9 DEF Repartida

LEMMA PasoNulo == Repartida /\ (OtrosWorkers \/ UNCHANGED vars) => Repartida'
BY DEF OtrosWorkers, marco, Repartida, vars, TipoMemoria, Ordenada, Reparto, Accedidas, Presentes

LEMMA NextInv == Repartida /\ [Next]_vars => Repartida'
<1> SUFFICES ASSUME Repartida, [Next]_vars PROVE Repartida'
  OBVIOUS
<1>1. CASE IniciarQuery BY <1>1, IniciarQueryInv
<1>2. CASE FinDeArchivo BY <1>2, FinDeArchivoInv
<1>3. CASE LiberarMarcos BY <1>3, LiberarMarcosInv
<1>4. CASE End BY <1>4, EndInv
<1>5. CASE Desalojar BY <1>5, DesalojarInv
<1>6. CASE EnMemoria BY <1>6, EnMemoriaInv
<1>7. CASE SinPagina BY <1>7, SinPaginaInv
<1>8. CASE CargarEnLibre BY <1>8, CargarEnLibreInv
<1>9. CASE Reemplazar BY <1>9, ReemplazarInv
<1>10. ASSUME NEW t \in Tablas, Flush(t) PROVE Repartida' BY <1>10, FlushInv
<1>11. ASSUME NEW t \in Tablas, Commit(t) PROVE Repartida' BY <1>11, CommitInv
<1>12. ASSUME NEW t \in Tablas, Create(t) PROVE Repartida' BY <1>12, CreateInv
<1>13. ASSUME NEW t \in Tablas, Delete(t) PROVE Repartida' BY <1>13, DeleteInv
<1>14. ASSUME NEW t \in Tablas, NEW n \in Tamanios, Truncate(t, n) PROVE Repartida'
  BY <1>14, TruncateInv
<1>15. ASSUME NEW t \in Tablas, NEW d \in Tablas, Tag(t, d) PROVE Repartida' BY <1>15, TagInv
<1>16. ASSUME NEW t \in Tablas, NEW dir \in Direcciones, NEW largo \in Largos,
              Pedir("READ", t, dir, largo, Cero)
       PROVE  Repartida'
  BY <1>16, PedirInv, BytesAssumption
<1>17. ASSUME NEW t \in Tablas, NEW dir \in Direcciones, NEW largo \in Largos, NEW v \in Valores,
              Pedir("WRITE", t, dir, largo, v)
       PROVE  Repartida'
  BY <1>17, PedirInv
<1>18. CASE OtrosWorkers \/ UNCHANGED vars BY <1>18, PasoNulo
<1> QED
  BY <1>1, <1>2, <1>3, <1>4, <1>5, <1>6, <1>7, <1>8, <1>9, <1>10, <1>11, <1>12, <1>13, <1>14,
     <1>15, <1>16, <1>17, <1>18 DEF Next, DelWorker

-----------------------------------------------------------------------------
(* The frames                                                              *)

\* The inductive invariant holds in every run.
THEOREM SpecRepartida == Spec => []Repartida
<1> QED
  BY InitInv, NextInv, PTL DEF Spec

\* TypeOK: every variable keeps its type, whatever the instructions, the
\* Storage's answers and the algorithm (worker/src/tabla_de_paginas.c).
THEOREM TiposMemoria == Spec => []TypeOK
<1> DEFINE Lugares == sin_lugar \in SinLugares
<1>1. Init => Lugares
  BY DEF Init
<1>2. Lugares /\ [Next]_vars => Lugares'
  BY DEF Next, OtrosWorkers, vars
<1>3. Repartida /\ Lugares => TypeOK
  BY LugaresAssumption DEF Repartida, TypeOK
<1> QED
  BY <1>1, <1>2, <1>3, SpecRepartida, PTL DEF Spec

\* MarcosConsistentes: two present pages never share a frame, and the bitmap
\* marcos_ocupados is exactly the frames of the present pages, after any loads,
\* replacements, flushes, evictions and failed queries.
THEOREM MarcosNuncaCompartidos == Spec => []MarcosConsistentes
<1>1. Repartida => MarcosConsistentes
  <2> SUFFICES ASSUME Repartida PROVE MarcosConsistentes
    OBVIOUS
  <2>1. tablas_de_paginas \in Tablero /\ Reparto(tablas_de_paginas, marcos_ocupados)
    BY DEF Repartida, TipoMemoria, Tablero
  <2> QED
    BY <2>1, RepartoMarcos DEF MarcosConsistentes
<1> QED
  BY <1>1, SpecRepartida, PTL

\* SiempreHayVictima: with every frame in use, reemplazar_pagina_LRU and the
\* four rounds of reemplazar_pagina_CLOCK_M always find a page, so that the
\* error branches of obtener_marco are never taken.
THEOREM SiempreVictima == Spec => []SiempreHayVictima
<1>1. Repartida => SiempreHayVictima
  <2> SUFFICES ASSUME Repartida, MarcosLibres = {} PROVE SiempreHayVictima
    BY DEF SiempreHayVictima
  <2> QED
    BY VictimaPresente
<1> QED
  BY <1>1, SpecRepartida, PTL
=============================================================================
