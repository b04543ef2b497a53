--------------------------- MODULE MemoriaPlanaProofs ---------------------------
(***************************************************************************)
(* MemoriaWorker implements MemoriaPlana: what a query reads is a flat     *)
(* memory, for any sizes, frames, bytes and workload, as long as addresses *)
(* begin pages and the Storage changes only File:Tags with no page present *)
(* (the runs of MemoriaDesalineada.cfg show what happens otherwise).       *)
(***************************************************************************)
EXTENDS MemoriaWorkerProofs

\* The hypotheses of this module: READ and WRITE begin where a page does, and
\* CREATE, TRUNCATE, TAG and DELETE name File:Tags none of whose pages is present.
Hipotesis == (\A d \in Direcciones : d % TamPagina = 0) /\ ConPaginas = FALSE

\* The loop of an instruction is always at the beginning of a page.
Alineada == EnCurso => Offset = 0

\* A page not modified is its block in the Storage, but for an instruction that
\* failed, after which liberar_marcos_query lets every page go.
Limpias ==
    instruccion # Fallida =>
        \A t \in Tablas, p \in Paginas :
            tablas_de_paginas[t][p].presente /\ ~tablas_de_paginas[t][p].modificado =>
                Contenido(memoria, tablas_de_paginas[t][p].marco) = almacen[t].bloques[p]

\* The blocks a File:Tag has lost are as those it has not had yet.
FueraCero ==
    \A t \in Tablas, p \in Paginas : p >= almacen[t].n => almacen[t].bloques[p] = BloqueCero

\* The inductive invariant of the bytes.
Coherente == Repartida /\ Alineada /\ Limpias /\ FueraCero

-----------------------------------------------------------------------------
(* The flat memory, page by page                                           *)

\* What a query reads in a page.
LEMMA VistaPagina ==
    /\ \A t \in Tablas, p \in Paginas :
          Vista[t][p] = IF tablas_de_paginas[t][p].presente
                        THEN Contenido(memoria, tablas_de_paginas[t][p].marco)
                        ELSE almacen[t].bloques[p]
    /\ \A t \in Tablas, p \in Paginas :
          Vista'[t][p] = IF tablas_de_paginas'[t][p].presente
                         THEN Contenido(memoria', tablas_de_paginas'[t][p].marco)
                         ELSE almacen'[t].bloques[p]
    /\ \A t \in Tablas : Vista[t] = [p \in Paginas |-> Vista[t][p]] /\ Vista'[t] = [p \in Paginas |-> Vista'[t][p]]
BY DEF Vista

\* Intacta of MemoriaPlana: the page is read as before, or the Storage refused
\* it and the query ends, and the Storage has what it had, or the bytes of the page.
Conservada(t, p) ==
    /\ \/ Vista'[t][p] = Vista[t][p]
       \/ Vista'[t][p] = almacen[t].bloques[p] /\ ~Escribible(t, p) /\ ~query_en_ejecucion'
    /\ \/ almacen'[t].bloques[p] = almacen[t].bloques[p]
       \/ almacen'[t].bloques[p] = Vista[t][p] /\ Escribible(t, p)

MismoArchivo(t) == almacen'[t].estado = almacen[t].estado /\ almacen'[t].n = almacen[t].n

\* Every page conserved is a Guardar of the flat memory.
LEMMA PasoGuardar ==
    ASSUME \A t \in Tablas, p \in Paginas : Conservada(t, p),
           \A t \in Tablas : MismoArchivo(t)
    PROVE  Plana!Next
<1>1. Plana!Guardar
  BY DEF Plana!Guardar, Plana!Intacta, Plana!Guardado, Plana!Acepta, Conservada, Escribible, MismoArchivo
<1> QED
  BY <1>1 DEF Plana!Next

\* So is a COMMIT that leaves the Storage with the bytes of the File:Tag it
\* takes, which are all if the query goes on.
LEMMA PasoCommit ==
    ASSUME NEW t \in Tablas,
           \A s \in Tablas, p \in Paginas : Conservada(s, p),
           \A s \in Tablas : almacen'[s].n = almacen[s].n,
           \A s \in Tablas : s # t => almacen'[s].estado = almacen[s].estado,
           \/ almacen'[t].estado = almacen[t].estado
           \/ /\ almacen[t].estado = "WORK_IN_PROGRESS" /\ almacen'[t].estado = "COMMITED"
              /\ \A p \in Paginas :
                    Escribible(t, p) \/ (p < almacen[t].n /\ query_en_ejecucion') =>
                        almacen'[t].bloques[p] = Vista[t][p]
    PROVE  Plana!Next
<1>1. Plana!Guardar
  BY DEF Plana!Guardar, Plana!Intacta, Plana!Guardado, Plana!Acepta, Conservada, Escribible
<1> QED
  BY <1>1 DEF Plana!Next

\* Nothing that is read changes.
LEMMA PasoQuieto ==
    ASSUME UNCHANGED <<memoria, tablas_de_paginas, almacen>>
    PROVE  Plana!Next
<1>1. UNCHANGED Vista
  BY DEF Vista
<1>2. \A t \in Tablas, p \in Paginas : Conservada(t, p)
  BY <1>1 DEF Conservada
<1>3. \A t \in Tablas : MismoArchivo(t)
  BY DEF MismoArchivo
<1> QED
  BY <1>2, <1>3, PasoGuardar

\* The Storage changes a File:Tag with no page present.
LEMMA PasoCambiar ==
    ASSUME NEW t \in Tablas, UNCHANGED <<memoria, tablas_de_paginas>>,
           \A p \in Paginas : ~tablas_de_paginas[t][p].presente,
           \A s \in Tablas \ {t} : almacen'[s] = almacen[s],
           almacen'[t].estado # "COMMITED",
           almacen'[t].estado # almacen[t].estado \/ almacen'[t].n # almacen[t].n
    PROVE  Plana!Next
<1>1. \A s \in Tablas \ {t}, p \in Paginas : Vista'[s][p] = Vista[s][p]
  BY VistaPagina
<1>2. ASSUME NEW s \in Tablas \ {t} PROVE Vista'[s] = Vista[s]
  <2>1. \A p \in Paginas : Vista'[s][p] = Vista[s][p]
    BY <1>1
  <2>2. Vista[s] = [p \in Paginas |-> Vista[s][p]] /\ Vista'[s] = [p \in Paginas |-> Vista'[s][p]]
    BY VistaPagina
  <2>3. [p \in Paginas |-> Vista'[s][p]] = [p \in Paginas |-> Vista[s][p]]
    BY <2>1
  <2> QED
    BY <2>2, <2>3
<1>3. \A p \in Paginas : Vista'[t][p] = almacen'[t].bloques[p]
  BY VistaPagina
<1>4. Plana!Cambiar(t)
  BY <1>2, <1>3 DEF Plana!Cambiar, Plana!Guardado
<1> QED
  BY <1>4 DEF Plana!Next

-----------------------------------------------------------------------------
(* The bytes of a frame                                                    *)

\* The cells of frame m from the offset i of one of its bytes are its own.
LEMMA CeldaAjena ==
    ASSUME NEW m \in Marcos, NEW k \in Marcos, NEW o \in Offsets, NEW a \in Offsets, NEW b \in Offsets
    PROVE  k * TamPagina + o \in m * TamPagina + a .. m * TamPagina + b <=> k = m /\ o \in a .. b
<1>0. /\ TamPagina \in Nat /\ o \in Nat /\ a \in Nat /\ b \in Nat /\ b < TamPagina
      /\ m * TamPagina \in Int /\ k * TamPagina \in Int
  BY TamaniosAssumption DEF Offsets, Marcos
<1>1. ASSUME k * TamPagina + o \in m * TamPagina + a .. m * TamPagina + b
      PROVE  k = m /\ o \in a .. b
  <2> DEFINE i == k * TamPagina + o - m * TamPagina
  <2>1. i \in a .. b
    BY <1>0, <1>1
  <2>2. i \in Offsets
    BY <1>0, <2>1 DEF Offsets
  <2>3. k * TamPagina + o = m * TamPagina + i
    BY <1>0
  <2> HIDE DEF i
  <2> QED
    BY <2>1, <2>2, <2>3, CeldasDeMarco
<1>2. ASSUME k = m, o \in a .. b
      PROVE  k * TamPagina + o \in m * TamPagina + a .. m * TamPagina + b
  BY <1>0, <1>2
<1> QED
  BY <1>1, <1>2

\* READ copies nothing to the memory, WRITE the bytes of its page, and neither
\* touches another frame.
LEMMA CopiaContenido ==
    ASSUME TipoMemoria, Ordenada, EnCurso, NEW mem \in [Celdas -> Valores], NEW m \in Marcos
    PROVE  /\ \A k \in Marcos : k # m => Contenido(Copia(mem, m), k) = Contenido(mem, k)
           /\ instruccion.tipo = "READ" => Contenido(Copia(mem, m), m) = Contenido(mem, m)
           /\ instruccion.tipo = "WRITE" =>
                 Contenido(Copia(mem, m), m) =
                     [o \in Offsets |-> IF o \in Offset .. Offset + Bytes - 1
                                        THEN instruccion.valor ELSE Contenido(mem, m)[o]]
<1>1. CASE instruccion.tipo = "READ"
  BY <1>1 DEF Copia
<1>2. CASE instruccion.tipo = "WRITE"
  <2> DEFINE a == Offset
             b == Offset + Bytes - 1
             v == instruccion.valor
  <2>1. a \in Offsets /\ b \in Offsets /\ Bytes \in Nat /\ a \in Nat /\ m * TamPagina \in Int
    BY EnCursoHechos, TamaniosAssumption DEF Offsets, Marcos
  <2>2. m * TamPagina + Offset + Bytes - 1 = m * TamPagina + b
    BY <2>1
  <2>3. \A d \in Celdas :
           Copia(mem, m)[d] = IF d \in m * TamPagina + a .. m * TamPagina + b THEN v ELSE mem[d]
    BY <1>2, <2>2 DEF Copia
  <2> HIDE DEF a, b, v
  <2>4. \A k \in Marcos, o \in Offsets :
           Copia(mem, m)[k * TamPagina + o] =
               IF k = m /\ o \in a .. b THEN v ELSE mem[k * TamPagina + o]
    BY <2>1, <2>3, CeldaAjena, CeldasDeMarco
  <2>5. ASSUME NEW k \in Marcos, k # m PROVE Contenido(Copia(mem, m), k) = Contenido(mem, k)
    BY <2>4, <2>5 DEF Contenido
  <2>6. Contenido(Copia(mem, m), m) =
           [o \in Offsets |-> IF o \in a .. b THEN v ELSE Contenido(mem, m)[o]]
    BY <2>4 DEF Contenido
  <2> QED
    BY <1>2, <2>5, <2>6 DEF a, b, v
<1> QED
  BY <1>1, <1>2, EnCursoHechos

\* A block loaded from the beginning of its page fills its frame and no other.
LEMMA CargadaContenido ==
    ASSUME TipoMemoria, Ordenada, EnCurso, Num \in Paginas, Offset = 0, NEW m \in Marcos
    PROVE  /\ \A k \in Marcos : k # m => Contenido(Cargada(m), k) = Contenido(memoria, k)
           /\ Contenido(Cargada(m), m) = almacen[instruccion.tabla].bloques[Num]
<1> DEFINE b == almacen[instruccion.tabla].bloques[Num]
<1>1. b \in [Offsets -> Valores]
  BY EnCursoHechos DEF TipoMemoria, Archivo, Bloque
<1>2. m * TamPagina \in Int /\ TamPagina \in Nat \ {0} /\ Offset = 0
  BY TamaniosAssumption DEF Marcos
<1>3. \A d \in Celdas :
         Cargada(m)[d] = IF d - m * TamPagina \in Offsets THEN b[d - m * TamPagina] ELSE memoria[d]
  <2>1. m * TamPagina + Offset = m * TamPagina
    BY <1>2
  <2> QED
    BY <2>1 DEF Cargada
<1> HIDE DEF b
<1>4. ASSUME NEW k \in Marcos, NEW o \in Offsets
      PROVE  Cargada(m)[k * TamPagina + o] = IF k = m THEN b[o] ELSE memoria[k * TamPagina + o]
  <2> DEFINE d == k * TamPagina + o
             i == d - m * TamPagina
  <2>0. d \in Celdas /\ o \in Int /\ k * TamPagina \in Int
    BY CeldasDeMarco, TamaniosAssumption DEF Offsets, Marcos
  <2>1. CASE k = m
    <3>1. i = o
      BY <1>2, <2>0, <2>1
    <3> QED
      BY <1>3, <2>0, <2>1, <3>1
  <2>2. CASE k # m
    <3>1. d = m * TamPagina + i
      BY <1>2, <2>0
    <3> HIDE DEF i
    <3>2. i \notin Offsets
      BY <2>2, <3>1, CeldasDeMarco
    <3> QED
      BY <1>3, <2>0, <2>2, <3>2 DEF i
  <2> QED
    BY <2>1, <2>2
<1>5. \A k \in Marcos : k # m => Contenido(Cargada(m), k) = Contenido(memoria, k)
  BY <1>4 DEF Contenido
<1>6. Contenido(Cargada(m), m) = [o \in Offsets |-> b[o]]
  BY <1>4 DEF Contenido
<1> QED
  BY <1>1, <1>5, <1>6 DEF b

-----------------------------------------------------------------------------
(* Steps that touch a page                                                 *)

\* The rest of an instruction begins where a page does.
LEMMA RestanteAlineada ==
    ASSUME TipoMemoria, Ordenada, EnCurso, Alineada, NEW b \in BOOLEAN, instruccion' = Restante(b)
    PROVE  Alineada'
<1>1. /\ instruccion \in Instruccion /\ instruccion.direccion \in Nat /\ instruccion.resto \in Nat
      /\ TamPagina \in Nat \ {0} /\ instruccion.direccion % TamPagina = 0
  BY TamaniosAssumption DEF TipoMemoria, Instruccion, Alineada, Offset
<1>2. CASE instruccion.resto > Bytes
  <2>1. Bytes = TamPagina
    BY <1>1, <1>2 DEF Bytes, Offset
  <2>2. instruccion'.direccion = instruccion.direccion + TamPagina
    <3>1. instruccion' = [instruccion EXCEPT !.direccion = instruccion.direccion + TamPagina,
                                             !.resto = instruccion.resto - TamPagina]
      BY <1>2, <2>1 DEF Restante
    <3> QED
      BY <1>1, <3>1 DEF Instruccion
  <2>3. (instruccion.direccion + TamPagina) % TamPagina = 0
    <3> SUFFICES ASSUME NEW d \in Nat, NEW n \in Nat \ {0}, d % n = 0
                 PROVE  (d + n) % n = 0
      BY <1>1
    <3> DEFINE q == d \div n
    <3>1. q \in Nat /\ d = (n * q) + (d % n)
      OBVIOUS
    <3>2. d + n = ((q + 1) * n) + 0
      BY <3>1
    <3>3. q + 1 \in Nat /\ 0 \in 0 .. n - 1
      BY <3>1
    <3> HIDE DEF q
    <3>4. \A e \in Nat : ((e * n) + 0) % n = 0
      OBVIOUS
    <3>5. (((q + 1) * n) + 0) % n = 0
      BY <3>3, <3>4
    <3> QED
      BY <3>2, <3>5
  <2> QED
    BY <2>2, <2>3 DEF Alineada, Offset
<1>3. CASE ~ (instruccion.resto > Bytes)
  <2>1. instruccion' \in {Ninguna, Fallida}
    BY <1>3 DEF Restante
  <2> QED
    BY <2>1, TiposDatos DEF Alineada, EnCurso
<1> QED
  BY <1>2, <1>3

\* A round of READ or WRITE: its page is in frame m, which held it or has been
\* loaded with it (mem), and another page stays as it was or leaves conserved.
LEMMA PasoPagina ==
    ASSUME Coherente, EnCurso, Num \in Paginas, NEW m \in Marcos, NEW mem \in [Celdas -> Valores],
           NEW t, t = instruccion.tabla, memoria' = Copia(mem, m),
           Contenido(mem, m) = Vista[t][Num],
           \A k \in Marcos : k # m => Contenido(mem, k) = Contenido(memoria, k),
           tablas_de_paginas'[t][Num].presente, tablas_de_paginas'[t][Num].marco = m,
           ~tablas_de_paginas'[t][Num].modificado =>
               instruccion.tipo = "READ" /\ Vista[t][Num] = almacen[t].bloques[Num],
           almacen'[t].bloques[Num] = almacen[t].bloques[Num],
           \A s \in Tablas, q \in Paginas : <<s, q>> # Actual =>
              \/ /\ tablas_de_paginas'[s][q].presente = tablas_de_paginas[s][q].presente
                 /\ tablas_de_paginas'[s][q].modificado = tablas_de_paginas[s][q].modificado
                 /\ tablas_de_paginas'[s][q].marco = tablas_de_paginas[s][q].marco
                 /\ tablas_de_paginas[s][q].presente => tablas_de_paginas[s][q].marco # m
                 /\ almacen'[s].bloques[q] = almacen[s].bloques[q]
              \/ ~tablas_de_paginas'[s][q].presente /\ Conservada(s, q),
           \A s \in Tablas : MismoArchivo(s)
    PROVE  Plana!Next /\ Limpias'
<1> DEFINE a == Offset
           h == Offset + Bytes - 1
           v == instruccion.valor
           tb == tablas_de_paginas
           Queda(s, q) == /\ tb'[s][q].presente = tb[s][q].presente
                          /\ tb'[s][q].modificado = tb[s][q].modificado
                          /\ tb'[s][q].marco = tb[s][q].marco
                          /\ tb[s][q].presente => tb[s][q].marco # m
                          /\ almacen'[s].bloques[q] = almacen[s].bloques[q]
<1>0. TipoMemoria /\ Ordenada
  BY DEF Coherente, Repartida
<1>1. /\ t \in Tablas /\ instruccion.tipo \in {"READ", "WRITE"} /\ Actual = <<t, Num>>
      /\ a \in Offsets /\ h \in Offsets /\ v \in Valores /\ instruccion # Fallida
  BY <1>0, EnCursoHechos DEF Actual
<1>2. /\ \A k \in Marcos : k # m => Contenido(memoria', k) = Contenido(memoria, k)
      /\ instruccion.tipo = "READ" => Contenido(memoria', m) = Vista[t][Num]
      /\ instruccion.tipo = "WRITE" =>
            Contenido(memoria', m) = [o \in Offsets |-> IF o \in a .. h THEN v ELSE Vista[t][Num][o]]
  BY <1>0, CopiaContenido
<1>3. Vista'[t][Num] = Contenido(memoria', m)
  BY <1>1, VistaPagina
<1>4. ASSUME NEW s \in Tablas, NEW q \in Paginas, <<s, q>> # Actual, Queda(s, q)
      PROVE  /\ Conservada(s, q)
             /\ tb[s][q].presente => Contenido(memoria', tb'[s][q].marco) = Contenido(memoria, tb[s][q].marco)
  <2>1. CASE tb[s][q].presente
    <3>1. tb[s][q].marco \in Marcos
      BY <1>0 DEF TipoMemoria, Pagina
    <3>2. Contenido(memoria', tb'[s][q].marco) = Contenido(memoria, tb[s][q].marco)
      BY <1>2, <1>4, <2>1, <3>1
    <3>3. tb'[s][q].presente
      BY <1>4, <2>1
    <3>4. /\ Vista'[s][q] = Contenido(memoria', tb'[s][q].marco)
          /\ Vista[s][q] = Contenido(memoria, tb[s][q].marco)
      BY <2>1, <3>3, VistaPagina
    <3>5. Vista'[s][q] = Vista[s][q]
      BY <3>2, <3>4
    <3> QED
      BY <1>4, <3>2, <3>5 DEF Conservada
  <2>2. CASE ~tb[s][q].presente
    <3>1. Vista'[s][q] = Vista[s][q]
      BY <1>4, <2>2, VistaPagina
    <3> QED
      BY <1>4, <2>2, <3>1 DEF Conservada
  <2> QED
    BY <2>1, <2>2
<1>5. \A s \in Tablas, q \in Paginas :
         <<s, q>> # Actual => Queda(s, q) \/ (~tb'[s][q].presente /\ Conservada(s, q))
  OBVIOUS
<1> HIDE DEF Queda
<1>6. \A s \in Tablas, q \in Paginas : <<s, q>> # Actual => Conservada(s, q)
  BY <1>4, <1>5
<1>7. Plana!Next
  <2>1. CASE instruccion.tipo = "READ"
    <3>1. Vista'[t][Num] = Vista[t][Num]
      BY <1>2, <1>3, <2>1
    <3>2. Conservada(t, Num)
      BY <3>1 DEF Conservada
    <3>3. ASSUME NEW s \in Tablas, NEW q \in Paginas PROVE Conservada(s, q)
      <4>1. CASE <<s, q>> = Actual
        <5>1. s = t /\ q = Num
          BY <1>1, <4>1
        <5> QED
          BY <3>2, <5>1
      <4> QED
        BY <1>6, <4>1
    <3> QED
      BY <3>3, PasoGuardar
  <2>2. CASE instruccion.tipo = "WRITE"
    <3>1. PICK n \in Paginas, d \in Offsets, b \in Offsets, w \in Valores :
             n = Num /\ d = a /\ b = h /\ w = v
      BY <1>1
    <3>2. Vista'[t][n] = [o \in Offsets |-> IF o \in d .. b THEN w ELSE Vista[t][n][o]]
      BY <1>2, <1>3, <2>2, <3>1
    <3>3. \A s \in Tablas, q \in Paginas : <<s, q>> # <<t, n>> => Conservada(s, q)
      BY <1>1, <1>6, <3>1
    <3>4. /\ t \in Tablas /\ almacen'[t].bloques[n] = almacen[t].bloques[n]
          /\ \A s \in Tablas : MismoArchivo(s)
      BY <1>1, <3>1
    <3>5. Plana!Escribir(t, n, d, b, w)
      BY <3>2, <3>3, <3>4 DEF Plana!Escribir, Plana!Intacta, Plana!Guardado, Plana!Acepta,
                              Conservada, Escribible, MismoArchivo
    <3> QED
      BY <3>4, <3>5 DEF Plana!Next
  <2> QED
    BY <1>1, <2>1, <2>2
<1>8. Limpias'
  <2> SUFFICES ASSUME NEW s \in Tablas, NEW q \in Paginas, tb'[s][q].presente, ~tb'[s][q].modificado
               PROVE  Contenido(memoria', tb'[s][q].marco) = almacen'[s].bloques[q]
    BY DEF Limpias
  <2>1. CASE <<s, q>> = Actual
    <3>1. s = t /\ q = Num
      BY <1>1, <2>1
    <3> QED
      BY <1>2, <3>1
  <2>2. CASE <<s, q>> # Actual
    <3>1. Queda(s, q)
      BY <1>5, <2>2
    <3>2. tb[s][q].presente /\ ~tb[s][q].modificado /\ almacen'[s].bloques[q] = almacen[s].bloques[q]
      BY <3>1 DEF Queda
    <3>3. Contenido(memoria, tb[s][q].marco) = almacen[s].bloques[q]
      BY <1>1, <3>2 DEF Coherente, Limpias
    <3> QED
      BY <1>4, <2>2, <3>1, <3>2, <3>3
  <2> QED
    BY <2>1, <2>2
<1> QED
  BY <1>7, <1>8

\* What a step shows of the flat memory, and the rest of the invariant after it.
Paso == Plana!Next /\ Alineada' /\ Limpias' /\ FueraCero'

\* FueraCero only looks at the Storage.
LEMMA FueraIgual == FueraCero /\ UNCHANGED almacen => FueraCero'
BY DEF FueraCero

LEMMA EnMemoriaPaso == ASSUME Coherente, EnMemoria PROVE Paso
<1> DEFINE t == instruccion.tabla
           m == tablas_de_paginas[t][Num].marco
<1>0. TipoMemoria /\ Ordenada /\ EnCurso /\ Reparto(tablas_de_paginas, marcos_ocupados)
  BY DEF Coherente, Repartida, EnMemoria
<1>1. t \in Tablas /\ Num \in Paginas /\ Actual = <<t, Num>> /\ instruccion # Fallida
      /\ instruccion.tipo \in {"READ", "WRITE"} /\ Actual \in Presentes(tablas_de_paginas)
  BY <1>0, EnCursoHechos DEF Actual, EnMemoria
<1>2. m \in Marcos /\ tablas_de_paginas[t][Num].presente /\ tablas_de_paginas \in Tablero
      /\ memoria \in [Celdas -> Valores]
  BY <1>0, <1>1, PresentesPares DEF TipoMemoria, Pagina, Tablero
<1>3. /\ memoria' = Copia(memoria, m) /\ tablas_de_paginas' = Presente(tablas_de_paginas, m)
      /\ instruccion' = Restante(query_en_ejecucion) /\ almacen' = almacen
      /\ query_en_ejecucion \in BOOLEAN
  BY <1>0 DEF EnMemoria, TipoMemoria
<1>4. Vista[t][Num] = Contenido(memoria, m)
  BY <1>1, <1>2, VistaPagina
<1>5. \A s \in Tablas, q \in Paginas :
         <<s, q>> # Actual /\ tablas_de_paginas[s][q].presente => tablas_de_paginas[s][q].marco # m
  BY <1>0, <1>1, <1>2 DEF Reparto
<1>6. ~tablas_de_paginas[t][Num].modificado => Vista[t][Num] = almacen[t].bloques[Num]
  BY <1>1, <1>2, <1>4 DEF Coherente, Limpias
<1> HIDE DEF m
<1>7. /\ tablas_de_paginas'[t][Num].presente /\ tablas_de_paginas'[t][Num].marco = m
      /\ tablas_de_paginas'[t][Num].modificado =
            ((tablas_de_paginas[t][Num].presente /\ tablas_de_paginas[t][Num].modificado)
                \/ instruccion.tipo = "WRITE")
      /\ \A s \in Tablas, q \in Paginas : <<s, q>> # Actual => tablas_de_paginas'[s][q] = tablas_de_paginas[s][q]
  BY <1>0, <1>1, <1>2, <1>3, PresenteTipo
<1>8. ~tablas_de_paginas'[t][Num].modificado =>
         instruccion.tipo = "READ" /\ Vista[t][Num] = almacen[t].bloques[Num]
  BY <1>1, <1>2, <1>6, <1>7
<1>9. \A s \in Tablas, q \in Paginas : <<s, q>> # Actual =>
         /\ tablas_de_paginas'[s][q].presente = tablas_de_paginas[s][q].presente
         /\ tablas_de_paginas'[s][q].modificado = tablas_de_paginas[s][q].modificado
         /\ tablas_de_paginas'[s][q].marco = tablas_de_paginas[s][q].marco
         /\ tablas_de_paginas[s][q].presente => tablas_de_paginas[s][q].marco # m
         /\ almacen'[s].bloques[q] = almacen[s].bloques[q]
  BY <1>3, <1>5, <1>7
<1>10. \A s \in Tablas : MismoArchivo(s)
  BY <1>3 DEF MismoArchivo
<1>11. almacen'[t].bloques[Num] = almacen[t].bloques[Num]
  BY <1>3
<1>12. \A k \in Marcos : k # m => Contenido(memoria, k) = Contenido(memoria, k)
  OBVIOUS
<1>13. Plana!Next /\ Limpias'
  BY <1>0, <1>1, <1>2, <1>3, <1>4, <1>7, <1>8, <1>9, <1>10, <1>11, <1>12, PasoPagina
<1>14. Alineada' /\ FueraCero'
  BY <1>0, <1>3, RestanteAlineada, FueraIgual DEF Coherente
<1> QED
  BY <1>13, <1>14 DEF Paso

LEMMA CargarEnLibrePaso == ASSUME Coherente, CargarEnLibre PROVE Paso
<1> DEFINE t == instruccion.tabla
           m == Min(MarcosLibres)
<1>0. TipoMemoria /\ Ordenada /\ EnCurso /\ MarcosLibres # {} /\ query_en_ejecucion
      /\ Reparto(tablas_de_paginas, marcos_ocupados) /\ Offset = 0
      /\ Actual \notin Presentes(tablas_de_paginas) /\ Legible(t, Num)
  BY DEF Coherente, Repartida, CargarEnLibre, Cargable, Falta, Alineada
<1>1. t \in Tablas /\ Num \in Paginas /\ Actual = <<t, Num>>
      /\ instruccion.tipo \in {"READ", "WRITE"}
  BY <1>0, EnCursoHechos DEF Actual
<1>2. m \in MarcosLibres
  <2>1. MarcosLibres \in SUBSET Nat
    BY TamaniosAssumption DEF MarcosLibres, Marcos
  <2> QED
    BY <1>0, <2>1, MinNat
<1>3. m \in Marcos /\ m \notin marcos_ocupados /\ ~tablas_de_paginas[t][Num].presente
      /\ tablas_de_paginas \in Tablero
  BY <1>0, <1>1, <1>2, PresentesPares DEF TipoMemoria, MarcosLibres, Tablero
<1>4. /\ memoria' = Copia(Cargada(m), m) /\ tablas_de_paginas' = Presente(tablas_de_paginas, m)
      /\ instruccion' = Restante(TRUE) /\ almacen' = almacen
  BY DEF CargarEnLibre
<1> HIDE DEF m
<1>5. Cargada(m) \in [Celdas -> Valores]
  BY <1>0, <1>1, <1>3, CargadaTipo
<1>6. /\ Vista[t][Num] = almacen[t].bloques[Num]
      /\ Contenido(Cargada(m), m) = almacen[t].bloques[Num]
      /\ \A k \in Marcos : k # m => Contenido(Cargada(m), k) = Contenido(memoria, k)
  BY <1>0, <1>1, <1>3, VistaPagina, CargadaContenido
<1>7. /\ tablas_de_paginas'[t][Num].presente /\ tablas_de_paginas'[t][Num].marco = m
      /\ tablas_de_paginas'[t][Num].modificado =
            ((tablas_de_paginas[t][Num].presente /\ tablas_de_paginas[t][Num].modificado)
                \/ instruccion.tipo = "WRITE")
      /\ \A s \in Tablas, q \in Paginas : <<s, q>> # Actual => tablas_de_paginas'[s][q] = tablas_de_paginas[s][q]
  BY <1>0, <1>1, <1>3, <1>4, PresenteTipo
<1>8. ~tablas_de_paginas'[t][Num].modificado =>
         instruccion.tipo = "READ" /\ Vista[t][Num] = almacen[t].bloques[Num]
  BY <1>1, <1>6, <1>7
<1>9. \A s \in Tablas, q \in Paginas : tablas_de_paginas[s][q].presente => tablas_de_paginas[s][q].marco # m
  BY <1>0, <1>3 DEF Reparto
<1>10. \A s \in Tablas, q \in Paginas : <<s, q>> # Actual =>
          /\ tablas_de_paginas'[s][q].presente = tablas_de_paginas[s][q].presente
          /\ tablas_de_paginas'[s][q].modificado = tablas_de_paginas[s][q].modificado
          /\ tablas_de_paginas'[s][q].marco = tablas_de_paginas[s][q].marco
          /\ tablas_de_paginas[s][q].presente => tablas_de_paginas[s][q].marco # m
          /\ almacen'[s].bloques[q] = almacen[s].bloques[q]
  BY <1>4, <1>7, <1>9
<1>11. almacen'[t].bloques[Num] = almacen[t].bloques[Num] /\ \A s \in Tablas : MismoArchivo(s)
  BY <1>4 DEF MismoArchivo
<1>12. Contenido(Cargada(m), m) = Vista[t][Num]
  BY <1>6
<1>13. Plana!Next /\ Limpias'
  BY <1>0, <1>1, <1>3, <1>4, <1>5, <1>6, <1>7, <1>8, <1>10, <1>11, <1>12, PasoPagina
<1>14. Alineada' /\ FueraCero'
  BY <1>0, <1>4, RestanteAlineada, FueraIgual DEF Coherente
<1> QED
  BY <1>13, <1>14 DEF Paso

\* The Storage loses no block that FueraCero is about when pages are written.
LEMMA FueraEscritos ==
    ASSUME TipoMemoria, FueraCero, NEW ps,
           \A t \in Tablas : almacen'[t].n = almacen[t].n,
           \A t \in Tablas, p \in Paginas : almacen'[t].bloques[p] = Escritos(ps)[t].bloques[p]
    PROVE  FueraCero'
<1> SUFFICES ASSUME NEW t \in Tablas, NEW p \in Paginas, p >= almacen'[t].n
             PROVE  almacen'[t].bloques[p] = BloqueCero
  BY DEF FueraCero, BloqueCero
<1>1. p >= almacen[t].n
  OBVIOUS
<1>2. ~Escribible(t, p)
  <2>1. p \in Int /\ almacen[t].n \in Int
    BY TamaniosAssumption DEF TipoMemoria, Archivo, Paginas
  <2> QED
    BY <1>1, <2>1 DEF Escribible
<1>3. Escritos(ps)[t].bloques[p] = almacen[t].bloques[p]
  BY <1>2, EscritosTipo
<1> QED
  BY <1>1, <1>3 DEF FueraCero

LEMMA ReemplazarPaso == ASSUME Coherente, Reemplazar PROVE Paso
<1>1. PICK v, m : v = Victima /\ m = tablas_de_paginas[v[1]][v[2]].marco
  OBVIOUS
<1> DEFINE t == instruccion.tabla
           tb == tablas_de_paginas
<1>2. TipoMemoria /\ Ordenada /\ Reparto(tb, marcos_ocupados) /\ Repartida
  BY DEF Coherente, Repartida
<1>3. /\ EnCurso /\ t \in Tablas /\ Num \in Paginas /\ Actual = <<t, Num>>
      /\ Actual \notin Presentes(tb) /\ v \in Presentes(tb) /\ m \in Marcos
      /\ ~tb[t][Num].presente
      /\ almacen' = Escritos(AGuardar(v)) /\ memoria' = Copia(Cargada(m), m)
      /\ tb'[t][Num].presente /\ tb'[t][Num].marco = m
      /\ tb'[t][Num].modificado = (instruccion.tipo = "WRITE")
      /\ ~tb'[v[1]][v[2]].presente
      /\ \A s \in Tablas, q \in Paginas : <<s, q>> # Actual /\ <<s, q>> # v =>
            /\ tb'[s][q].presente = tb[s][q].presente
            /\ tb'[s][q].modificado = tb[s][q].modificado
            /\ tb'[s][q].marco = tb[s][q].marco
  BY <1>1, <1>2, ReemplazarHechos
<1>4. v[1] \in Tablas /\ v[2] \in Paginas /\ v = <<v[1], v[2]>> /\ tb[v[1]][v[2]].presente /\ Actual # v
  BY <1>3, PresentesPares
<1>5. Offset = 0 /\ instruccion.tipo \in {"READ", "WRITE"} /\ instruccion # Fallida
  BY <1>2, <1>3, EnCursoHechos DEF Coherente, Alineada
<1>6. /\ \A s \in Tablas : MismoArchivo(s)
      /\ \A s \in Tablas, q \in Paginas :
            almacen'[s].bloques[q] = IF <<s, q>> \in AGuardar(v) /\ Escribible(s, q)
                                     THEN Contenido(memoria, tb[s][q].marco) ELSE almacen[s].bloques[q]
  BY <1>2, <1>3, EscritosTipo DEF MismoArchivo
<1>7. \A s \in Tablas, q \in Paginas : <<s, q>> # v => almacen'[s].bloques[q] = almacen[s].bloques[q]
  BY <1>6 DEF AGuardar
<1>8. Conservada(v[1], v[2])
  <2>1. /\ Vista[v[1]][v[2]] = Contenido(memoria, m)
        /\ Vista'[v[1]][v[2]] = almacen'[v[1]].bloques[v[2]]
    BY <1>1, <1>3, <1>4, VistaPagina
  <2>2. CASE tb[v[1]][v[2]].modificado
    <3>1. v \in AGuardar(v)
      BY <1>3, <2>2 DEF AGuardar, Sucias
    <3>2. almacen'[v[1]].bloques[v[2]] = IF Escribible(v[1], v[2]) THEN Contenido(memoria, m)
                                         ELSE almacen[v[1]].bloques[v[2]]
      BY <1>1, <1>4, <1>6, <3>1
    <3>3. ~Escribible(v[1], v[2]) => ~query_en_ejecucion'
      BY <1>1, <3>1 DEF Reemplazar, Rechazadas
    <3> QED
      BY <2>1, <3>2, <3>3 DEF Conservada
  <2>3. CASE ~tb[v[1]][v[2]].modificado
    <3>1. v \notin AGuardar(v)
      BY <2>3 DEF AGuardar, Sucias
    <3>2. almacen'[v[1]].bloques[v[2]] = almacen[v[1]].bloques[v[2]]
      BY <1>4, <1>6, <3>1
    <3>3. Contenido(memoria, m) = almacen[v[1]].bloques[v[2]]
      BY <1>1, <1>4, <1>5, <2>3 DEF Coherente, Limpias
    <3> QED
      BY <2>1, <3>2, <3>3 DEF Conservada
  <2> QED
    BY <2>2, <2>3
<1>9. Cargada(m) \in [Celdas -> Valores]
  BY <1>2, <1>3, CargadaTipo
<1>10. /\ Vista[t][Num] = almacen[t].bloques[Num]
       /\ Contenido(Cargada(m), m) = almacen[t].bloques[Num]
       /\ \A k \in Marcos : k # m => Contenido(Cargada(m), k) = Contenido(memoria, k)
  BY <1>2, <1>3, <1>5, VistaPagina, CargadaContenido
<1>11. Contenido(Cargada(m), m) = Vista[t][Num]
  BY <1>10
<1>12. ~tb'[t][Num].modificado => instruccion.tipo = "READ" /\ Vista[t][Num] = almacen[t].bloques[Num]
  BY <1>3, <1>5, <1>10
<1>13. almacen'[t].bloques[Num] = almacen[t].bloques[Num]
  BY <1>3, <1>4, <1>7
<1>14. \A s \in Tablas, q \in Paginas :
          <<s, q>> # v /\ tb[s][q].presente => tb[s][q].marco # m
  BY <1>1, <1>2, <1>4 DEF Reparto
<1>15. ASSUME NEW s \in Tablas, NEW q \in Paginas, <<s, q>> # Actual
       PROVE  \/ /\ tb'[s][q].presente = tb[s][q].presente
                 /\ tb'[s][q].modificado = tb[s][q].modificado
                 /\ tb'[s][q].marco = tb[s][q].marco
                 /\ tb[s][q].presente => tb[s][q].marco # m
                 /\ almacen'[s].bloques[q] = almacen[s].bloques[q]
              \/ ~tb'[s][q].presente /\ Conservada(s, q)
  <2>1. CASE <<s, q>> = v
    <3>1. s = v[1] /\ q = v[2]
      BY <2>1
    <3> QED
      BY <1>3, <1>8, <3>1
  <2>2. CASE <<s, q>> # v
    BY <1>3, <1>7, <1>14, <1>15, <2>2
  <2> QED
    BY <2>1, <2>2
<1>16. Plana!Next /\ Limpias'
  BY <1>3, <1>6, <1>9, <1>10, <1>11, <1>12, <1>13, <1>15, PasoPagina
<1>17. Alineada'
  <2>1. PICK b \in BOOLEAN : instruccion' = Restante(b)
    BY DEF Reemplazar
  <2> QED
    BY <1>2, <1>3, <2>1, RestanteAlineada DEF Coherente
<1>18. FueraCero'
  BY <1>2, <1>3, <1>6, FueraEscritos DEF MismoArchivo, Coherente
<1> QED
  BY <1>16, <1>17, <1>18 DEF Paso

-----------------------------------------------------------------------------
(* Steps that save pages                                                   *)

\* No instruction is under way after it.
LEMMA SinCurso == instruccion' \in {Ninguna, Fallida} => Alineada'
BY TiposDatos DEF Alineada, EnCurso

\* The step saves the modified pages ps of t, and goes on if all are taken.
SeGuardan(t, ps) ==
    /\ instruccion = Ninguna /\ ps = PorGuardar({t})
    /\ UNCHANGED memoria /\ tablas_de_paginas' = SinModificar(ps)
    /\ \A s \in Tablas : almacen'[s].n = almacen[s].n
    /\ \A s \in Tablas, p \in Paginas : almacen'[s].bloques[p] = Escritos(ps)[s].bloques[p]
    /\ instruccion' # Fallida => Rechazadas(ps) = {}

\* The pages of t saved in the Storage: nothing that is read changes, and when
\* the Storage takes them all it has the bytes of t.
LEMMA GuardarTabla ==
    ASSUME Coherente, NEW t \in Tablas, NEW ps, SeGuardan(t, ps)
    PROVE  /\ \A s \in Tablas, p \in Paginas : Conservada(s, p)
           /\ \A p \in Paginas :
                 Escribible(t, p) \/ Rechazadas(ps) = {} => almacen'[t].bloques[p] = Vista[t][p]
           /\ Limpias' /\ FueraCero'
<1> DEFINE tb == tablas_de_paginas
<1>0. TipoMemoria /\ Ninguna # Fallida
  BY TiposDatos DEF Coherente, Repartida
<1>a. \A s \in Tablas, p \in Paginas :
         /\ SinModificar(ps)[s][p].presente = tb[s][p].presente
         /\ SinModificar(ps)[s][p].marco = tb[s][p].marco
         /\ SinModificar(ps)[s][p].modificado = (tb[s][p].modificado /\ <<s, p>> \notin ps)
  BY <1>0, SinModificarTipo
<1>b. \A s \in Tablas, p \in Paginas :
         Escritos(ps)[s].bloques[p] = IF <<s, p>> \in ps /\ Escribible(s, p)
                                      THEN Contenido(memoria, tb[s][p].marco) ELSE almacen[s].bloques[p]
  BY <1>0, EscritosTipo
<1>c. /\ instruccion = Ninguna /\ ps = PorGuardar({t})
      /\ UNCHANGED memoria /\ tablas_de_paginas' = SinModificar(ps)
      /\ \A s \in Tablas : almacen'[s].n = almacen[s].n
      /\ \A s \in Tablas, p \in Paginas : almacen'[s].bloques[p] = Escritos(ps)[s].bloques[p]
      /\ instruccion' # Fallida => Rechazadas(ps) = {}
  BY DEF SeGuardan
<1>1. \A s \in Tablas, p \in Paginas :
         /\ tb'[s][p].presente = tb[s][p].presente /\ tb'[s][p].marco = tb[s][p].marco
         /\ tb'[s][p].modificado = (tb[s][p].modificado /\ <<s, p>> \notin ps)
  BY <1>a, <1>c
<1>2. \A s \in Tablas, p \in Paginas :
         almacen'[s].bloques[p] = IF <<s, p>> \in ps /\ Escribible(s, p)
                                  THEN Contenido(memoria, tb[s][p].marco) ELSE almacen[s].bloques[p]
  BY <1>b, <1>c
<1>3. \A s \in Tablas, p \in Paginas : <<s, p>> \in ps <=> s = t /\ tb[s][p].presente /\ tb[s][p].modificado
  BY <1>c, PresentesPares DEF PorGuardar, Sucias
<1>4. \A s \in Tablas, p \in Paginas :
         Vista[s][p] = IF tb[s][p].presente THEN Contenido(memoria, tb[s][p].marco) ELSE almacen[s].bloques[p]
  BY VistaPagina
<1>5. \A s \in Tablas, p \in Paginas :
         Vista'[s][p] = IF tb[s][p].presente THEN Contenido(memoria, tb[s][p].marco) ELSE almacen'[s].bloques[p]
  <2>1. \A s \in Tablas, p \in Paginas :
           Vista'[s][p] = IF tb'[s][p].presente THEN Contenido(memoria', tb'[s][p].marco)
                          ELSE almacen'[s].bloques[p]
    BY VistaPagina
  <2> QED
    BY <1>1, <1>c, <2>1
<1>6. \A s \in Tablas, p \in Paginas :
         tb[s][p].presente /\ ~tb[s][p].modificado =>
             Contenido(memoria, tb[s][p].marco) = almacen[s].bloques[p]
  BY <1>0, <1>c DEF Coherente, Limpias
<1>7. ASSUME NEW s \in Tablas, NEW p \in Paginas
      PROVE  Conservada(s, p)
  <2> DEFINE c == Contenido(memoria, tb[s][p].marco)
  <2>1. /\ almacen'[s].bloques[p] = IF <<s, p>> \in ps /\ Escribible(s, p) THEN c ELSE almacen[s].bloques[p]
        /\ Vista[s][p] = IF tb[s][p].presente THEN c ELSE almacen[s].bloques[p]
        /\ Vista'[s][p] = IF tb[s][p].presente THEN c ELSE almacen'[s].bloques[p]
    BY <1>2, <1>4, <1>5
  <2>2. <<s, p>> \in ps => tb[s][p].presente
    BY <1>3
  <2> HIDE DEF c
  <2>3. CASE tb[s][p].presente
    BY <2>1, <2>3 DEF Conservada
  <2>4. CASE ~tb[s][p].presente
    BY <2>1, <2>2, <2>4 DEF Conservada
  <2> QED
    BY <2>3, <2>4
<1>8. ASSUME NEW p \in Paginas, Escribible(t, p) \/ Rechazadas(ps) = {}
      PROVE  almacen'[t].bloques[p] = Vista[t][p]
  <2> DEFINE c == Contenido(memoria, tb[t][p].marco)
  <2>0. <<t, p>> \in ps => Escribible(t, p)
    BY <1>8 DEF Rechazadas
  <2>1. /\ almacen'[t].bloques[p] = IF <<t, p>> \in ps THEN c ELSE almacen[t].bloques[p]
        /\ Vista[t][p] = IF tb[t][p].presente THEN c ELSE almacen[t].bloques[p]
    BY <1>2, <1>4, <2>0
  <2>2. tb[t][p].presente /\ ~tb[t][p].modificado => c = almacen[t].bloques[p]
    BY <1>6
  <2>3. <<t, p>> \in ps <=> tb[t][p].presente /\ tb[t][p].modificado
    BY <1>3
  <2> HIDE DEF c
  <2> QED
    BY <2>1, <2>2, <2>3
<1>9. Limpias'
  <2> SUFFICES ASSUME instruccion' # Fallida, NEW s \in Tablas, NEW p \in Paginas,
                      tb'[s][p].presente, ~tb'[s][p].modificado
               PROVE  Contenido(memoria', tb'[s][p].marco) = almacen'[s].bloques[p]
    BY DEF Limpias
  <2>1. <<s, p>> \in ps => Escribible(s, p)
    <3>1. <<s, p>> \notin Rechazadas(ps)
      BY <1>c
    <3> QED
      BY <3>1 DEF Rechazadas
  <2>2. tb[s][p].presente /\ (tb[s][p].modificado => <<s, p>> \in ps)
    BY <1>1
  <2>3. Contenido(memoria', tb'[s][p].marco) = Contenido(memoria, tb[s][p].marco)
    BY <1>1, <1>c
  <2> QED
    BY <1>2, <1>6, <2>1, <2>2, <2>3
<1>10. FueraCero'
  BY <1>0, <1>c, FueraEscritos DEF Coherente
<1> QED
  BY <1>7, <1>8, <1>9, <1>10

\* An instruction that asked the Storage ends, well or not.
LEMMA ResultadoFin ==
    ASSUME NEW b \in BOOLEAN, EntreInstrucciones, Resultado(b)
    PROVE  /\ instruccion' \in {Ninguna, Fallida} /\ (instruccion' # Fallida => b)
           /\ query_en_ejecucion' => b
BY DEF Resultado, EntreInstrucciones, Falla

LEMMA FlushPaso == ASSUME Coherente, NEW t \in Tablas, Flush(t) PROVE Paso
<1>1. PICK ps : ps = PorGuardar({t})
  OBVIOUS
<1>2. /\ EntreInstrucciones /\ almacen' = Escritos(ps) /\ tablas_de_paginas' = SinModificar(ps)
      /\ UNCHANGED memoria /\ Resultado(Rechazadas(ps) = {}) /\ instruccion = Ninguna
  BY <1>1 DEF Flush, EntreInstrucciones
<1>3. instruccion' \in {Ninguna, Fallida} /\ (instruccion' # Fallida => Rechazadas(ps) = {})
  BY <1>2, ResultadoFin
<1>4. TipoMemoria
  BY DEF Coherente, Repartida
<1>5. \A s \in Tablas : MismoArchivo(s)
  BY <1>2, <1>4, EscritosTipo DEF MismoArchivo
<1>6. (\A s \in Tablas, p \in Paginas : Conservada(s, p)) /\ Limpias' /\ FueraCero'
  <2>1. SeGuardan(t, ps)
    BY <1>1, <1>2, <1>3, <1>5 DEF SeGuardan, MismoArchivo
  <2> QED
    BY <2>1, GuardarTabla
<1> QED
  BY <1>3, <1>5, <1>6, PasoGuardar, SinCurso DEF Paso

LEMMA CommitPaso == ASSUME Coherente, NEW t \in Tablas, Commit(t) PROVE Paso
<1>1. PICK ps : ps = PorGuardar({t})
  OBVIOUS
<1> DEFINE e == Escritos(ps)
           f == IF e[t].estado = "INEXISTENTE" THEN e[t].estado ELSE "COMMITED"
<1>2. /\ EntreInstrucciones /\ almacen' = [e EXCEPT ![t].estado = f]
      /\ tablas_de_paginas' = SinModificar(ps) /\ UNCHANGED memoria
      /\ Resultado(Rechazadas(ps) = {} /\ almacen[t].estado # "INEXISTENTE")
      /\ instruccion = Ninguna
  BY <1>1 DEF Commit, EntreInstrucciones
<1>3. instruccion' \in {Ninguna, Fallida} /\ (instruccion' # Fallida => Rechazadas(ps) = {})
  BY <1>2, ResultadoFin
<1>q. query_en_ejecucion' => Rechazadas(ps) = {}
  BY <1>2, ResultadoFin
<1>4. TipoMemoria
  BY DEF Coherente, Repartida
<1>5. /\ e \in [Tablas -> Archivo]
      /\ \A s \in Tablas : e[s].estado = almacen[s].estado /\ e[s].n = almacen[s].n
  BY <1>4, EscritosTipo
<1> HIDE DEF e
<1>6. \A s \in Tablas : s # t => almacen'[s] = e[s]
  BY <1>2, <1>5
<1>7. almacen'[t] = [e[t] EXCEPT !.estado = f]
  BY <1>2, <1>5
<1> HIDE DEF f
<1>8. almacen'[t].estado = f /\ almacen'[t].n = e[t].n /\ almacen'[t].bloques = e[t].bloques
  <2>1. e[t] \in Archivo
    BY <1>5
  <2> QED
    BY <1>7, <2>1 DEF Archivo
<1>9. \A s \in Tablas : almacen'[s].n = almacen[s].n
  BY <1>5, <1>6, <1>8
<1>10. \A s \in Tablas, p \in Paginas : almacen'[s].bloques[p] = Escritos(ps)[s].bloques[p]
  BY <1>6, <1>8 DEF e
<1>11. /\ \A s \in Tablas, p \in Paginas : Conservada(s, p)
       /\ \A p \in Paginas :
             Escribible(t, p) \/ Rechazadas(ps) = {} => almacen'[t].bloques[p] = Vista[t][p]
       /\ Limpias' /\ FueraCero'
  <2>1. SeGuardan(t, ps)
    BY <1>1, <1>2, <1>3, <1>9, <1>10 DEF SeGuardan
  <2> QED
    BY <2>1, GuardarTabla
<1>12. \A s \in Tablas : s # t => almacen'[s].estado = almacen[s].estado
  BY <1>5, <1>6
<1>13. \/ almacen'[t].estado = almacen[t].estado
       \/ /\ almacen[t].estado = "WORK_IN_PROGRESS" /\ almacen'[t].estado = "COMMITED"
          /\ \A p \in Paginas :
                Escribible(t, p) \/ (p < almacen[t].n /\ query_en_ejecucion') =>
                    almacen'[t].bloques[p] = Vista[t][p]
  <2>1. almacen[t].estado \in {"INEXISTENTE", "WORK_IN_PROGRESS", "COMMITED"}
    BY <1>4 DEF TipoMemoria, Archivo
  <2>2. almacen'[t].estado = IF almacen[t].estado = "INEXISTENTE" THEN almacen[t].estado ELSE "COMMITED"
    BY <1>5, <1>8 DEF f
  <2> QED
    BY <1>q, <1>11, <2>1, <2>2
<1> QED
  BY <1>3, <1>9, <1>11, <1>12, <1>13, PasoCommit, SinCurso DEF Paso

\* No page is present after TodoLibre.
LEMMA NadaPresente ==
    ASSUME TodoLibre
    PROVE  /\ \A t \in Tablas, p \in Paginas : ~tablas_de_paginas'[t][p].presente
           /\ \A t \in Tablas, p \in Paginas : Vista'[t][p] = almacen'[t].bloques[p]
           /\ Limpias'
<1>1. \A t \in Tablas, p \in Paginas : ~tablas_de_paginas'[t][p].presente
  BY TiposDatos DEF TodoLibre
<1>2. \A t \in Tablas, p \in Paginas : Vista'[t][p] = almacen'[t].bloques[p]
  BY <1>1, VistaPagina
<1>3. Limpias'
  BY <1>1 DEF Limpias
<1> QED
  BY <1>1, <1>2, <1>3

\* flush_por_desalojo: what the Storage takes of the modified pages is what was
\* read, and the other pages were copies.
LEMMA GuardarTodo ==
    ASSUME Coherente, instruccion = Ninguna, FlushPorDesalojo,
           query_en_ejecucion' => Rechazadas(PorGuardar(Tablas)) = {}
    PROVE  Plana!Next /\ Limpias' /\ FueraCero'
<1> DEFINE tb == tablas_de_paginas
<1>1. PICK ps : ps = PorGuardar(Tablas)
  OBVIOUS
<1>2. TipoMemoria /\ Ninguna # Fallida /\ almacen' = Escritos(ps) /\ TodoLibre
  BY <1>1, TiposDatos DEF Coherente, Repartida, FlushPorDesalojo
<1>3. /\ \A s \in Tablas : MismoArchivo(s)
      /\ \A s \in Tablas, p \in Paginas :
            almacen'[s].bloques[p] = IF <<s, p>> \in ps /\ Escribible(s, p)
                                     THEN Contenido(memoria, tb[s][p].marco) ELSE almacen[s].bloques[p]
  BY <1>2, EscritosTipo DEF MismoArchivo
<1>4. \A s \in Tablas, p \in Paginas : <<s, p>> \in ps <=> tb[s][p].presente /\ tb[s][p].modificado
  BY <1>1, PresentesPares DEF PorGuardar, Sucias
<1>5. \A s \in Tablas, p \in Paginas :
         tb[s][p].presente /\ ~tb[s][p].modificado =>
             Contenido(memoria, tb[s][p].marco) = almacen[s].bloques[p]
  BY <1>2 DEF Coherente, Limpias
<1>6. ASSUME NEW s \in Tablas, NEW p \in Paginas PROVE Conservada(s, p)
  <2> DEFINE c == Contenido(memoria, tb[s][p].marco)
  <2>1. /\ almacen'[s].bloques[p] = IF <<s, p>> \in ps /\ Escribible(s, p) THEN c ELSE almacen[s].bloques[p]
        /\ Vista[s][p] = IF tb[s][p].presente THEN c ELSE almacen[s].bloques[p]
        /\ Vista'[s][p] = almacen'[s].bloques[p]
    BY <1>2, <1>3, VistaPagina, NadaPresente
  <2>2. <<s, p>> \in ps <=> tb[s][p].presente /\ tb[s][p].modificado
    BY <1>4
  <2>3. tb[s][p].presente /\ ~tb[s][p].modificado => c = almacen[s].bloques[p]
    BY <1>5
  <2>a. <<s, p>> \in ps /\ ~Escribible(s, p) => ~query_en_ejecucion'
    BY <1>1 DEF Rechazadas
  <2> HIDE DEF c
  <2>4. CASE <<s, p>> \in ps
    BY <2>1, <2>2, <2>4, <2>a DEF Conservada
  <2>5. CASE <<s, p>> \notin ps
    BY <2>1, <2>2, <2>3, <2>5 DEF Conservada
  <2> QED
    BY <2>4, <2>5
<1>7. Plana!Next
  BY <1>3, <1>6, PasoGuardar
<1>8. Limpias' /\ FueraCero'
  BY <1>2, <1>3, NadaPresente, FueraEscritos DEF MismoArchivo, Coherente
<1> QED
  BY <1>7, <1>8

LEMMA EndPaso == ASSUME Coherente, End PROVE Paso
<1>1. instruccion = Ninguna /\ FlushPorDesalojo /\ EntreInstrucciones
  BY DEF End, EntreInstrucciones
<1>2. instruccion' \in {Ninguna, Fallida} /\ (query_en_ejecucion' => Rechazadas(PorGuardar(Tablas)) = {})
  BY <1>1, ResultadoFin DEF End
<1> QED
  BY <1>1, <1>2, GuardarTodo, SinCurso DEF Paso

LEMMA DesalojarPaso == ASSUME Coherente, Desalojar PROVE Paso
<1>1. instruccion = Ninguna /\ FlushPorDesalojo /\ instruccion' = Ninguna /\ ~query_en_ejecucion'
  BY DEF Desalojar, EntreInstrucciones
<1> QED
  BY <1>1, GuardarTodo, SinCurso DEF Paso

\* A query that failed leaves what the Storage had.
LEMMA LiberarMarcosPaso == ASSUME Coherente, LiberarMarcos PROVE Paso
<1>1. instruccion = Fallida /\ TodoLibre /\ instruccion' = Ninguna /\ UNCHANGED almacen
  BY DEF LiberarMarcos
<1>2. Plana!Descartar
  BY <1>1, NadaPresente DEF Plana!Descartar, Plana!Guardado
<1>3. Plana!Next
  BY <1>2 DEF Plana!Next
<1> QED
  BY <1>1, <1>3, NadaPresente, SinCurso, FueraIgual DEF Paso, Coherente

-----------------------------------------------------------------------------
(* Steps that leave the memory as it is                                    *)

\* Neither the memory nor the Storage changes.
LEMMA QuietoPaso ==
    ASSUME Coherente, UNCHANGED <<memoria, tablas_de_paginas, almacen>>,
           instruccion' # Fallida => instruccion # Fallida,
           Alineada'
    PROVE  Paso
<1>1. Limpias'
  BY DEF Coherente, Limpias
<1> QED
  BY <1>1, PasoQuieto, FueraIgual DEF Coherente, Paso

LEMMA QuietosPaso ==
    ASSUME Coherente, IniciarQuery \/ FinDeArchivo \/ SinPagina
    PROVE  Paso
<1>1. UNCHANGED <<memoria, tablas_de_paginas, almacen>>
  BY DEF IniciarQuery, FinDeArchivo, SinPagina, marco
<1>2. /\ instruccion' \in {Ninguna, Fallida}
      /\ instruccion' # Fallida => instruccion # Fallida
  BY TiposDatos DEF IniciarQuery, FinDeArchivo, SinPagina, EntreInstrucciones
<1> QED
  BY <1>1, <1>2, SinCurso, QuietoPaso

LEMMA PedirPaso ==
    ASSUME Hipotesis, Coherente, NEW tipo \in {"READ", "WRITE"}, NEW t \in Tablas,
           NEW dir \in Direcciones, NEW largo \in Largos, NEW v \in Valores,
           Pedir(tipo, t, dir, largo, v)
    PROVE  Paso
<1>1. UNCHANGED <<memoria, tablas_de_paginas, almacen>> /\ instruccion = Ninguna
  BY DEF Pedir, marco, EntreInstrucciones
<1>2. instruccion'.direccion = dir /\ dir % TamPagina = 0
  BY DEF Pedir, Hipotesis
<1>3. Alineada'
  BY <1>2 DEF Alineada, Offset
<1> QED
  BY <1>1, <1>3, TiposDatos, QuietoPaso

\* An operation that the Storage refuses.
LEMMA AjenaFalla ==
    ASSUME Coherente, EntreInstrucciones, UNCHANGED <<memoria, tablas_de_paginas, almacen>>, Falla
    PROVE  Paso
BY SinCurso, QuietoPaso DEF Falla

\* An operation that changes t, with no page of it present.
LEMMA AjenaCambia ==
    ASSUME Coherente, EntreInstrucciones, NEW t \in Tablas, NEW a, UNCHANGED instruccion,
           almacen' = [almacen EXCEPT ![t] = a], UNCHANGED <<memoria, tablas_de_paginas>>,
           \A p \in Paginas : ~tablas_de_paginas[t][p].presente,
           a.estado # "COMMITED",
           a.estado # almacen[t].estado \/ a.n # almacen[t].n,
           \A p \in Paginas : p >= a.n => a.bloques[p] = BloqueCero
    PROVE  Paso
<1>1. almacen'[t] = a /\ \A s \in Tablas \ {t} : almacen'[s] = almacen[s]
  BY DEF Coherente, Repartida, TipoMemoria
<1>2. Plana!Next
  BY <1>1, PasoCambiar
<1>3. FueraCero'
  BY <1>1 DEF Coherente, FueraCero, BloqueCero
<1>4. Limpias' /\ Alineada'
  <2>1. instruccion' = Ninguna /\ instruccion = Ninguna /\ Ninguna # Fallida
    BY TiposDatos DEF EntreInstrucciones
  <2> QED
    BY <1>1, <2>1, SinCurso DEF Coherente, Limpias
<1> QED
  BY <1>2, <1>3, <1>4 DEF Paso

\* An operation of the Storage finds no page of its File:Tag, and no other
\* variable changes.
LEMMA AjenaHechos ==
    ASSUME Hipotesis, NEW op, NEW t \in Tablas, Ajena(op, t)
    PROVE  /\ EntreInstrucciones /\ UNCHANGED <<memoria, tablas_de_paginas>>
           /\ \A p \in Paginas : ~tablas_de_paginas[t][p].presente
BY DEF Hipotesis, Ajena, marco

LEMMA CreatePaso == ASSUME Hipotesis, Coherente, NEW t \in Tablas, Create(t) PROVE Paso
<1>1. /\ EntreInstrucciones /\ UNCHANGED <<memoria, tablas_de_paginas>>
      /\ \A p \in Paginas : ~tablas_de_paginas[t][p].presente
  BY AjenaHechos DEF Create
<1>2. CASE Falla /\ UNCHANGED almacen
  BY <1>1, <1>2, AjenaFalla
<1>3. CASE /\ almacen[t].estado = "INEXISTENTE"
           /\ Aceptada([almacen EXCEPT ![t].estado = "WORK_IN_PROGRESS"])
  <2> DEFINE a == [almacen[t] EXCEPT !.estado = "WORK_IN_PROGRESS"]
  <2>0. almacen[t] \in Archivo
    BY DEF Coherente, Repartida, TipoMemoria
  <2>1. almacen' = [almacen EXCEPT ![t] = a] /\ UNCHANGED instruccion
    BY <1>3 DEF Aceptada
  <2>2. a.estado = "WORK_IN_PROGRESS" /\ a.n = almacen[t].n /\ a.bloques = almacen[t].bloques
    BY <2>0 DEF Archivo
  <2> HIDE DEF a
  <2>3. \A p \in Paginas : p >= a.n => a.bloques[p] = BloqueCero
    BY <2>2 DEF Coherente, FueraCero
  <2>4. a.estado # "COMMITED" /\ a.estado # almacen[t].estado
    BY <1>3, <2>2
  <2> QED
    BY <1>1, <2>1, <2>3, <2>4, AjenaCambia
<1> QED
  BY <1>2, <1>3 DEF Create

LEMMA DeletePaso == ASSUME Hipotesis, Coherente, NEW t \in Tablas, Delete(t) PROVE Paso
<1>1. /\ EntreInstrucciones /\ UNCHANGED <<memoria, tablas_de_paginas>>
      /\ \A p \in Paginas : ~tablas_de_paginas[t][p].presente
  BY AjenaHechos DEF Delete
<1>2. CASE Falla /\ UNCHANGED almacen
  BY <1>1, <1>2, AjenaFalla
<1>3. CASE almacen[t].estado # "INEXISTENTE" /\ Aceptada([almacen EXCEPT ![t] = Inexistente])
  <2>1. almacen' = [almacen EXCEPT ![t] = Inexistente] /\ UNCHANGED instruccion
    BY <1>3 DEF Aceptada
  <2>2. /\ Inexistente.estado = "INEXISTENTE"
        /\ \A p \in Paginas : Inexistente.bloques[p] = BloqueCero
    BY DEF Inexistente
  <2>3. Inexistente.estado # "COMMITED" /\ Inexistente.estado # almacen[t].estado
    BY <1>3, <2>2
  <2> QED
    BY <1>1, <2>1, <2>2, <2>3, AjenaCambia
<1> QED
  BY <1>2, <1>3 DEF Delete

LEMMA TagPaso ==
    ASSUME Hipotesis, Coherente, NEW o \in Tablas, NEW d \in Tablas, Tag(o, d) PROVE Paso
<1>1. /\ EntreInstrucciones /\ UNCHANGED <<memoria, tablas_de_paginas>>
      /\ \A p \in Paginas : ~tablas_de_paginas[d][p].presente
  BY AjenaHechos DEF Tag
<1>2. CASE Falla /\ UNCHANGED almacen
  BY <1>1, <1>2, AjenaFalla
<1>3. CASE /\ almacen[d].estado = "INEXISTENTE"
           /\ Aceptada([almacen EXCEPT ![d] = [almacen[o] EXCEPT !.estado = "WORK_IN_PROGRESS"]])
  <2> DEFINE a == [almacen[o] EXCEPT !.estado = "WORK_IN_PROGRESS"]
  <2>0. almacen[o] \in Archivo
    BY DEF Coherente, Repartida, TipoMemoria
  <2>1. almacen' = [almacen EXCEPT ![d] = a] /\ UNCHANGED instruccion
    BY <1>3 DEF Aceptada
  <2>2. a.estado = "WORK_IN_PROGRESS" /\ a.n = almacen[o].n /\ a.bloques = almacen[o].bloques
    BY <2>0 DEF Archivo
  <2> HIDE DEF a
  <2>3. \A p \in Paginas : p >= a.n => a.bloques[p] = BloqueCero
    BY <2>2 DEF Coherente, FueraCero
  <2>4. a.estado # "COMMITED" /\ a.estado # almacen[d].estado
    BY <1>3, <2>2
  <2> QED
    BY <1>1, <2>1, <2>3, <2>4, AjenaCambia
<1> QED
  BY <1>2, <1>3 DEF Tag

\* TRUNCATE to the size the File:Tag has changes nothing; to another one, the
\* blocks it loses are forgotten.
LEMMA TruncatePaso ==
    ASSUME Hipotesis, Coherente, NEW t \in Tablas, NEW n \in Tamanios, Truncate(t, n) PROVE Paso
<1> DEFINE b == [p \in Paginas |-> IF p < n THEN almacen[t].bloques[p] ELSE BloqueCero]
           a == [almacen[t] EXCEPT !.n = n, !.bloques = b]
<1>0. /\ almacen \in [Tablas -> Archivo] /\ almacen[t] \in Archivo
      /\ almacen[t].bloques \in [Paginas -> Bloque] /\ n \in Nat /\ Paginas \subseteq Nat
  BY PedidosAssumption, TamaniosAssumption DEF Coherente, Repartida, TipoMemoria, Archivo, Paginas
<1>1. /\ EntreInstrucciones /\ UNCHANGED <<memoria, tablas_de_paginas>>
      /\ \A p \in Paginas : ~tablas_de_paginas[t][p].presente
  BY AjenaHechos DEF Truncate
<1>2. CASE Falla /\ UNCHANGED almacen
  BY <1>1, <1>2, AjenaFalla
<1>3. CASE /\ almacen[t].estado = "WORK_IN_PROGRESS"
           /\ Aceptada([almacen EXCEPT ![t].n = n, ![t].bloques = b])
  <2>1. almacen' = [almacen EXCEPT ![t] = a] /\ UNCHANGED <<query_en_ejecucion, instruccion>>
    BY <1>0, <1>3 DEF Aceptada
  <2>2. \A p \in Paginas : b[p] = IF p < n THEN almacen[t].bloques[p] ELSE BloqueCero
    OBVIOUS
  <2>3. b = [p \in Paginas |-> b[p]]
    OBVIOUS
  <2> HIDE DEF b
  <2>4. a.estado = "WORK_IN_PROGRESS" /\ a.n = n /\ a.bloques = b
    BY <1>0, <1>3 DEF Archivo
  <2>5. CASE n = almacen[t].n
    <3>1. \A p \in Paginas : b[p] = almacen[t].bloques[p]
      BY <1>0, <2>2, <2>5 DEF Coherente, FueraCero
    <3>2. b = almacen[t].bloques
      BY <1>0, <2>3, <3>1
    <3>3. a = almacen[t]
      BY <1>0, <2>5, <3>2 DEF Archivo
    <3> HIDE DEF a
    <3>4. almacen' = almacen
      BY <1>0, <2>1, <3>3
    <3>5. Alineada'
      BY <1>1, <2>1, SinCurso DEF EntreInstrucciones
    <3> QED
      BY <1>1, <2>1, <3>4, <3>5, QuietoPaso
  <2>6. CASE n # almacen[t].n
    <3>1. \A p \in Paginas : p >= a.n => a.bloques[p] = BloqueCero
      BY <1>0, <2>2, <2>4
    <3>2. a.estado # "COMMITED" /\ a.n # almacen[t].n
      BY <2>4, <2>6
    <3> HIDE DEF a
    <3> QED
      BY <1>1, <2>1, <3>1, <3>2, AjenaCambia
  <2> QED
    BY <2>5, <2>6
<1> QED
  BY <1>2, <1>3 DEF Truncate

-----------------------------------------------------------------------------
(* The flat memory                                                         *)

LEMMA InitCoherente == Init => Coherente /\ Plana!Init
<1> SUFFICES ASSUME Init PROVE Coherente /\ Plana!Init
  OBVIOUS
<1>1. Repartida
  BY InitInv
<1>2. instruccion = Ninguna /\ \A t \in Tablas, p \in Paginas : ~tablas_de_paginas[t][p].presente
  BY TiposDatos DEF Init
<1>3. Alineada /\ Limpias
  BY <1>2, TiposDatos DEF Alineada, Limpias, EnCurso
<1>4. \A t \in Tablas, p \in Paginas : almacen[t].bloques[p] = BloqueCero
  <2> DEFINE w == [Inexistente EXCEPT !.estado = "WORK_IN_PROGRESS", !.n = CantPaginas]
  <2>1. w.bloques = Inexistente.bloques /\ \A p \in Paginas : Inexistente.bloques[p] = BloqueCero
    BY DEF Inexistente
  <2>2. \A t \in Tablas : almacen[t] \in {Inexistente, w}
    BY DEF Init
  <2> HIDE DEF w
  <2> QED
    BY <2>1, <2>2
<1>5. Plana!Init
  BY <1>2, VistaPagina DEF Plana!Init, Plana!Guardado
<1> QED
  BY <1>1, <1>3, <1>4, <1>5 DEF Coherente, FueraCero

\* A step of the Worker keeps the invariant, and is a step of the flat memory.
LEMMA DelWorkerPaso == Hipotesis /\ Coherente /\ DelWorker => Paso
<1> SUFFICES ASSUME Hipotesis, Coherente, DelWorker PROVE Paso
  OBVIOUS
<1>1. CASE IniciarQuery \/ FinDeArchivo \/ SinPagina BY <1>1, QuietosPaso
<1>2. CASE LiberarMarcos BY <1>2, LiberarMarcosPaso
<1>3. CASE End BY <1>3, EndPaso
<1>4. CASE Desalojar BY <1>4, DesalojarPaso
<1>5. CASE EnMemoria BY <1>5, EnMemoriaPaso
<1>6. CASE CargarEnLibre BY <1>6, CargarEnLibrePaso
<1>7. CASE Reemplazar BY <1>7, ReemplazarPaso
<1>8. ASSUME NEW t \in Tablas, Flush(t) PROVE Paso BY <1>8, FlushPaso
<1>9. ASSUME NEW t \in Tablas, Commit(t) PROVE Paso BY <1>9, CommitPaso
<1>10. ASSUME NEW t \in Tablas, Create(t) PROVE Paso BY <1>10, CreatePaso
<1>11. ASSUME NEW t \in Tablas, Delete(t) PROVE Paso BY <1>11, DeletePaso
<1>12. ASSUME NEW t \in Tablas, NEW n \in Tamanios, Truncate(t, n) PROVE Paso
  BY <1>12, TruncatePaso
<1>13. ASSUME NEW t \in Tablas, NEW d \in Tablas, Tag(t, d) PROVE Paso BY <1>13, TagPaso
<1>14. ASSUME NEW t \in Tablas, NEW dir \in Direcciones, NEW largo \in Largos,
              Pedir("READ", t, dir, largo, Cero)
       PROVE  Paso
  BY <1>14, PedirPaso, BytesAssumption
<1>15. ASSUME NEW t \in Tablas, NEW dir \in Direcciones, NEW largo \in Largos, NEW v \in Valores,
              Pedir("WRITE", t, dir, largo, v)
       PROVE  Paso
  BY <1>15, PedirPaso
<1> QED
  BY <1>1, <1>2, <1>3, <1>4, <1>5, <1>6, <1>7, <1>8, <1>9, <1>10, <1>11, <1>12, <1>13, <1>14,
     <1>15 DEF DelWorker

\* What other Workers do to the free blocks does not show, and breaks nothing.
LEMMA OtrosPaso ==
    ASSUME Coherente, OtrosWorkers \/ UNCHANGED vars
    PROVE  /\ UNCHANGED <<Vista, almacen, instruccion = Fallida>>
           /\ Alineada' /\ Limpias' /\ FueraCero'
<1>1. UNCHANGED <<memoria, tablas_de_paginas, almacen, instruccion>>
  BY DEF OtrosWorkers, marco, vars
<1> QED
  BY <1>1 DEF Vista, Coherente, Alineada, EnCurso, Offset, Limpias, FueraCero

\* The invariant of the bytes holds in every run whose instructions begin where
\* a page does, with the File:Tags the Storage changes out of the memory.
THEOREM SpecCoherente ==
    ASSUME Hipotesis
    PROVE  Spec => []Coherente
<1>1. Coherente /\ [Next]_vars => Coherente'
  <2> SUFFICES ASSUME Coherente, [Next]_vars PROVE Coherente'
    OBVIOUS
  <2>1. Repartida'
    BY NextInv DEF Coherente
  <2>2. CASE DelWorker
    BY <2>1, <2>2, DelWorkerPaso DEF Paso, Coherente
  <2>3. CASE OtrosWorkers \/ UNCHANGED vars
    BY <2>1, <2>3, OtrosPaso DEF Coherente
  <2> QED
    BY <2>2, <2>3 DEF Next
<1> QED
  BY <1>1, InitCoherente, PTL DEF Spec

\* CopiaFiel: a present page that has not been modified is the block the
\* Storage has, while the query runs ("Cargar página desde Storage").
THEOREM CopiasFieles ==
    ASSUME Hipotesis
    PROVE  Spec => []CopiaFiel
<1>1. Coherente => CopiaFiel
  <2> SUFFICES ASSUME Coherente, query_en_ejecucion,
                      NEW x \in Presentes(tablas_de_paginas) \ Sucias(tablas_de_paginas)
               PROVE  Vista[x[1]][x[2]] = almacen[x[1]].bloques[x[2]]
    BY DEF CopiaFiel
  <2>1. /\ x[1] \in Tablas /\ x[2] \in Paginas
        /\ tablas_de_paginas[x[1]][x[2]].presente /\ ~tablas_de_paginas[x[1]][x[2]].modificado
    BY PresentesPares DEF Sucias
  <2>2. instruccion # Fallida
    BY DEF Coherente, Repartida, Ordenada
  <2> QED
    BY <2>1, <2>2, VistaPagina DEF Coherente, Limpias
<1> QED
  BY <1>1, SpecCoherente, PTL

\* ImplementaPlana: misses, replacements by LRU or CLOCK-M, flushes, COMMIT, END
\* and evictions never show in what a query reads: every step of the Worker is a
\* step of the flat memory of MemoriaPlana.
THEOREM MemoriaEsPlana ==
    ASSUME Hipotesis
    PROVE  Spec => ImplementaPlana
<1>1. Init => Plana!Init
  BY InitCoherente
<1>2. Coherente /\ [Next]_vars => [Plana!Next]_<<Vista, almacen, instruccion = Fallida>>
  <2> SUFFICES ASSUME Coherente, [Next]_vars
               PROVE  Plana!Next \/ UNCHANGED <<Vista, almacen, instruccion = Fallida>>
    OBVIOUS
  <2>1. CASE DelWorker
    BY <2>1, DelWorkerPaso DEF Paso
  <2>2. CASE OtrosWorkers \/ UNCHANGED vars
    BY <2>2, OtrosPaso
  <2> QED
    BY <2>1, <2>2 DEF Next
<1> QED
  BY <1>1, <1>2, SpecCoherente, PTL DEF Spec, ImplementaPlana, Plana!Spec
=============================================================================
