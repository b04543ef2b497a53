----------------------------- MODULE MemoriaWorker -----------------------------
(***************************************************************************)
(* The internal memory of a Worker: frames, one page table per File:Tag,   *)
(* replacement by LRU or CLOCK-M, and the instructions of a query that go  *)
(* through it (worker/src/tabla_de_paginas.c, query_intepreter.c).         *)
(*                                                                         *)
(* A page is loaded from the Storage when an instruction touches it, is    *)
(* changed in memory, and goes back when it is replaced, by FLUSH and      *)
(* COMMIT, and when the query ends or is evicted. A query runs in one      *)
(* thread and the listener touches the memory only once that thread has    *)
(* stopped, so an action is one page of an instruction: the code up to the *)
(* Storage's answer and what is done with it.                              *)
(***************************************************************************)
EXTENDS Integers, Sequences, FiniteSets, SequencesExt

CONSTANTS
    Tablas,        \* the File:Tags
    CantPaginas,   \* bound: blocks of a File:Tag
    CantMarcos,    \* frames (TAM_MEMORIA / block size)
    TamPagina,     \* bytes of a page, which is a block of the Storage
    Valores,       \* bytes
    Cero,          \* the byte new blocks are made of
    Direcciones,   \* workload: base addresses of READ and WRITE
    Tamanios,      \* workload: blocks TRUNCATE leaves
    Largos,        \* workload: bytes that READ and WRITE are asked for
    Basura,        \* bytes malloc may leave in the memory
    Algoritmos,    \* the replacement algorithms a Worker is configured with
    Ajenas,        \* workload: the operations that the Storage carries out alone
    ConPaginas,    \* workload: whether they change File:Tags with present pages
    SinLugares     \* workload: the pages that may at once lack a block for their copy

Paginas   == 0 .. CantPaginas - 1
Marcos    == 0 .. CantMarcos - 1
Offsets   == 0 .. TamPagina - 1
Celdas    == 0 .. CantMarcos * TamPagina - 1
SinMarco  == -1

ASSUME TamaniosAssumption ==
    CantPaginas \in Nat \ {0} /\ CantMarcos \in Nat \ {0} /\ TamPagina \in Nat \ {0}
ASSUME BytesAssumption == Cero \in Valores /\ Basura \subseteq Valores /\ Basura # {}
ASSUME PedidosAssumption ==
    /\ Direcciones \subseteq Nat /\ Largos \subseteq Nat \ {0} /\ Tamanios \subseteq 0 .. CantPaginas
ASSUME AlgoritmosAssumption == Algoritmos \subseteq {"LRU", "CLOCK-M"}
ASSUME AjenasAssumption ==
    Ajenas \subseteq {"CREATE", "TRUNCATE", "TAG", "DELETE"} /\ ConPaginas \in BOOLEAN
ASSUME LugaresAssumption == SinLugares \subseteq SUBSET (Tablas \X Paginas)

VARIABLES
    algoritmo,         \* memoria->algoritmo_reemplazo
    marcos_ocupados,   \* frames in use
    memoria,           \* the bytes of the frames
    tablas_de_paginas, \* the page table of every File:Tag
    accesos,           \* the present pages by ultimo_acceso, oldest first
    puntero_clock,
    query_en_ejecucion,
    sin_leer,          \* an answer whose payload nobody read is in the socket
    instruccion,       \* the READ or WRITE under way, and what is left of it
    almacen,           \* the Storage: state and blocks of every File:Tag
    sin_lugar          \* the pages whose block is shared when no block is free

marco == <<marcos_ocupados, memoria, tablas_de_paginas, accesos, puntero_clock>>
vars  == <<algoritmo, marcos_ocupados, memoria, tablas_de_paginas, accesos, puntero_clock,
           query_en_ejecucion, sin_leer, instruccion, almacen, sin_lugar>>

-----------------------------------------------------------------------------
(* Data                                                                    *)

Pagina == [marco : Marcos, presente : BOOLEAN, modificado : BOOLEAN, uso : BOOLEAN]

\* A page that is not present. The rest of its t_pagina is not read until it
\* is loaded again, which sets it all.
Ausente == [marco |-> 0, presente |-> FALSE, modificado |-> FALSE, uso |-> FALSE]

Instruccion == [tipo : {"ninguna", "READ", "WRITE", "fallida"}, tabla : Tablas \union {"ninguna"},
                direccion : Nat, resto : Nat, valor : Valores]

Ninguna == [tipo |-> "ninguna", tabla |-> "ninguna", direccion |-> 0, resto |-> 0, valor |-> Cero]

\* An instruction that failed: liberar_marcos_query comes next.
Fallida == [Ninguna EXCEPT !.tipo = "fallida"]

Bloque     == [Offsets -> Valores]
BloqueCero == [o \in Offsets |-> Cero]

Archivo == [estado : {"INEXISTENTE", "WORK_IN_PROGRESS", "COMMITED"},
            n : 0 .. CantPaginas, bloques : [Paginas -> Bloque]]

Inexistente == [estado |-> "INEXISTENTE", n |-> 0, bloques |-> [p \in Paginas |-> BloqueCero]]

\* What the Storage answers: whether a block can be read, and written. The
\* block of a page that others share is copied to a free one, if there is any.
Legible(t, p)    == almacen[t].estado # "INEXISTENTE" /\ p < almacen[t].n
Escribible(t, p) ==
    almacen[t].estado = "WORK_IN_PROGRESS" /\ p < almacen[t].n /\ <<t, p>> \notin sin_lugar

Presentes(tablas) == {tp \in Tablas \X Paginas : tablas[tp[1]][tp[2]].presente}
Sucias(tablas)    == {tp \in Presentes(tablas) : tablas[tp[1]][tp[2]].modificado}

\* The bytes of a frame, as a block.
Contenido(mem, m) == [o \in Offsets |-> mem[m * TamPagina + o]]

\* almacen once the pages ps, where the Storage takes them, are written to it.
Escritos(ps) ==
    [t \in Tablas |->
        [almacen[t] EXCEPT !.bloques =
            [p \in Paginas |->
                IF <<t, p>> \in ps /\ Escribible(t, p)
                THEN Contenido(memoria, tablas_de_paginas[t][p].marco)
                ELSE almacen[t].bloques[p]]]]

Rechazadas(ps) == {tp \in ps : ~Escribible(tp[1], tp[2])}

-----------------------------------------------------------------------------
(* Replacement                                                             *)

MarcosLibres == Marcos \ marcos_ocupados

\* reemplazar_pagina_LRU: the page with the smallest ultimo_acceso.
VictimaLRU == accesos[1]

\* The page in the frame that is k frames after the hand.
EnAguja(k) ==
    CHOOSE tp \in Presentes(tablas_de_paginas) :
        tablas_de_paginas[tp[1]][tp[2]].marco = (puntero_clock + k) % CantMarcos

\* The frames, from the hand, whose page has these bits; usadas is the set of
\* the frames whose uso is still 1.
Candidatos(usadas, modificado) ==
    {k \in Marcos : k \notin usadas
                    /\ tablas_de_paginas[EnAguja(k)[1]][EnAguja(k)[2]].modificado = modificado}

Usadas == {k \in Marcos : tablas_de_paginas[EnAguja(k)[1]][EnAguja(k)[2]].uso}

\* Mutant: the second round leaves uso as it finds it.
PosicionSinLimpiar ==
    IF Candidatos(Usadas, FALSE) # {} THEN Min(Candidatos(Usadas, FALSE))
    ELSE IF Candidatos(Usadas, TRUE) # {} THEN Min(Candidatos(Usadas, TRUE))
    ELSE SinMarco

\* The four rounds of reemplazar_pagina_CLOCK_M: the first clean page not in
\* use, then the first modified one not in use, and both again once the
\* second round has cleared uso everywhere.
PosicionClock ==
    CASE Candidatos(Usadas, FALSE) # {} -> Min(Candidatos(Usadas, FALSE))
      [] Candidatos(Usadas, FALSE) = {} /\ Candidatos(Usadas, TRUE) # {} ->
            Min(Candidatos(Usadas, TRUE))
      [] OTHER ->
            IF Candidatos({}, FALSE) # {} THEN Min(Candidatos({}, FALSE))
            ELSE IF Candidatos({}, TRUE) # {} THEN Min(Candidatos({}, TRUE)) ELSE SinMarco

\* The frames the second round went past, whose uso it cleared.
Limpiadas ==
    CASE Candidatos(Usadas, FALSE) # {} -> {}
      [] Candidatos(Usadas, FALSE) = {} /\ Candidatos(Usadas, TRUE) # {} ->
            {k \in Marcos : k < PosicionClock}
      [] OTHER -> Marcos

\* Mutant: the hand goes past the last frame.
SiguienteSinVuelta(m) == m + 1

\* Where the hand stays after frame m is given away.
Siguiente(m) == (m + 1) % CantMarcos

Victima == IF algoritmo = "LRU" THEN VictimaLRU ELSE EnAguja(PosicionClock)

\* Mutant: the victim keeps its presence bit.
SinVictimaPresente(v) ==
    [t \in Tablas |-> [p \in Paginas |->
        [tablas_de_paginas[t][p] EXCEPT !.modificado = @ /\ <<t, p>> # v]]]

\* The page tables once the victim v has left.
SinVictima(v) ==
    [t \in Tablas |-> [p \in Paginas |->
        IF <<t, p>> = v THEN Ausente
        ELSE [tablas_de_paginas[t][p] EXCEPT
                !.uso = @ /\ ~(algoritmo = "CLOCK-M" /\ \E k \in Limpiadas : EnAguja(k) = <<t, p>>)]]]

-----------------------------------------------------------------------------
(* A query: from ejecutarQuery until END, an eviction, an error or the end *)
(* of its file. Between two instructions, instruccion is Ninguna.          *)

EntreInstrucciones == query_en_ejecucion /\ instruccion = Ninguna

IniciarQuery ==
    /\ ~query_en_ejecucion /\ instruccion = Ninguna
    /\ query_en_ejecucion' = TRUE
    /\ UNCHANGED <<algoritmo, marco, sin_leer, instruccion, almacen>>

\* The last line has been executed: the pages stay where they are.
FinDeArchivo ==
    /\ EntreInstrucciones
    /\ query_en_ejecucion' = FALSE
    /\ UNCHANGED <<algoritmo, marco, sin_leer, instruccion, almacen>>

\* Every frame is free and no page present.
TodoLibre ==
    /\ marcos_ocupados' = {}
    /\ accesos' = <<>>
    /\ tablas_de_paginas' = [t \in Tablas |-> [p \in Paginas |-> Ausente]]
    /\ UNCHANGED <<memoria, puntero_clock>>

\* liberar_marcos_query, after an instruction that failed: what the query had
\* not saved is lost.
LiberarMarcos ==
    /\ instruccion = Fallida
    /\ TodoLibre
    /\ instruccion' = Ninguna
    /\ UNCHANGED <<algoritmo, query_en_ejecucion, sin_leer, almacen>>

\* The Storage refused what the instruction asked for.
Falla == instruccion' = Fallida /\ query_en_ejecucion' = FALSE

\* What follows an instruction whose requests the Storage took, or did not.
Resultado(bien) ==
    \/ bien /\ UNCHANGED <<query_en_ejecucion, instruccion>>
    \/ ~bien /\ Falla

\* The pages flush_paginas_modificadas writes to the Storage.
PorGuardar(tablas) == {tp \in Sucias(tablas_de_paginas) : tp[1] \in tablas}

\* The page tables once the pages ps have been written to the Storage.
SinModificar(ps) ==
    [t \in Tablas |-> [p \in Paginas |->
        [tablas_de_paginas[t][p] EXCEPT !.modificado = @ /\ <<t, p>> \notin ps]]]

\* FLUSH. modificado is cleared whatever the Storage answers.
Flush(t) ==
    LET ps == PorGuardar({t}) IN
    /\ EntreInstrucciones /\ (ps # {} => ~sin_leer)
    /\ almacen' = Escritos(ps)
    /\ tablas_de_paginas' = SinModificar(ps)
    /\ Resultado(Rechazadas(ps) = {})
    /\ UNCHANGED <<algoritmo, marcos_ocupados, memoria, accesos, puntero_clock, sin_leer>>

\* COMMIT flushes, and commits whatever became of the flush.
Commit(t) ==
    LET ps == PorGuardar({t}) IN
    /\ EntreInstrucciones /\ ~sin_leer
    /\ almacen' = [Escritos(ps) EXCEPT ![t].estado =
                      IF @ = "INEXISTENTE" THEN @ ELSE "COMMITED"]
    /\ tablas_de_paginas' = SinModificar(ps)
    /\ Resultado(Rechazadas(ps) = {} /\ almacen[t].estado # "INEXISTENTE")
    /\ UNCHANGED <<algoritmo, marcos_ocupados, memoria, accesos, puntero_clock, sin_leer>>

\* flush_por_desalojo: every table is flushed and every frame let go.
FlushPorDesalojo ==
    LET ps == PorGuardar(Tablas) IN
    /\ ps # {} => ~sin_leer
    /\ almacen' = Escritos(ps)
    /\ TodoLibre

End ==
    /\ EntreInstrucciones
    /\ FlushPorDesalojo
    /\ Resultado(Rechazadas(PorGuardar(Tablas)) = {})
    /\ UNCHANGED <<algoritmo, sin_leer>>

\* The query thread has stopped before an instruction: the listener flushes.
Desalojar ==
    /\ EntreInstrucciones
    /\ query_en_ejecucion' = FALSE
    /\ FlushPorDesalojo
    /\ UNCHANGED <<algoritmo, sin_leer, instruccion>>

-----------------------------------------------------------------------------
(* Instructions the Storage carries out alone: the pages in memory stay.   *)

Aceptada(cambio) == almacen' = cambio /\ UNCHANGED <<query_en_ejecucion, instruccion>>

Ajena(op, t) ==
    /\ EntreInstrucciones /\ ~sin_leer /\ op \in Ajenas
    /\ ConPaginas \/ \A p \in Paginas : ~tablas_de_paginas[t][p].presente
    /\ UNCHANGED <<algoritmo, marco, sin_leer>>

Create(t) ==
    /\ Ajena("CREATE", t)
    /\ \/ /\ almacen[t].estado = "INEXISTENTE"
          /\ Aceptada([almacen EXCEPT ![t].estado = "WORK_IN_PROGRESS"])
       \/ almacen[t].estado # "INEXISTENTE" /\ Falla /\ UNCHANGED almacen

Truncate(t, n) ==
    /\ Ajena("TRUNCATE", t)
    /\ \/ /\ almacen[t].estado = "WORK_IN_PROGRESS"
          /\ Aceptada([almacen EXCEPT ![t].n = n,
                                      ![t].bloques = [p \in Paginas |->
                                          IF p < n THEN @[p] ELSE BloqueCero]])
       \/ almacen[t].estado # "WORK_IN_PROGRESS" /\ Falla /\ UNCHANGED almacen

Tag(o, d) ==
    /\ Ajena("TAG", d) /\ o # d
    /\ \/ /\ almacen[o].estado # "INEXISTENTE" /\ almacen[d].estado = "INEXISTENTE"
          /\ Aceptada([almacen EXCEPT ![d] = [almacen[o] EXCEPT !.estado = "WORK_IN_PROGRESS"]])
       \/ /\ almacen[o].estado = "INEXISTENTE" \/ almacen[d].estado # "INEXISTENTE"
          /\ Falla /\ UNCHANGED almacen

Delete(t) ==
    /\ Ajena("DELETE", t)
    /\ \/ almacen[t].estado # "INEXISTENTE" /\ Aceptada([almacen EXCEPT ![t] = Inexistente])
       \/ almacen[t].estado = "INEXISTENTE" /\ Falla /\ UNCHANGED almacen

\* Other Workers take the last free block, or free one.
OtrosWorkers ==
    /\ sin_lugar' \in SinLugares
    /\ UNCHANGED <<algoritmo, marco, query_en_ejecucion, sin_leer, instruccion, almacen>>

-----------------------------------------------------------------------------
(* READ and WRITE: one page per round of their loop                        *)

Pedir(tipo, t, dir, largo, v) ==
    /\ EntreInstrucciones
    /\ instruccion' = [tipo |-> tipo, tabla |-> t, direccion |-> dir, resto |-> largo, valor |-> v]
    /\ UNCHANGED <<algoritmo, marco, query_en_ejecucion, sin_leer, almacen>>

EnCurso == instruccion.resto > 0
Num     == instruccion.direccion \div TamPagina
Offset  == instruccion.direccion % TamPagina
Bytes   == IF instruccion.resto < TamPagina - Offset THEN instruccion.resto ELSE TamPagina - Offset
Actual  == <<instruccion.tabla, Num>>

\* The bytes of frame m that WRITE copies.
Copia(mem, m) ==
    IF instruccion.tipo = "READ" THEN mem
    ELSE [d \in Celdas |->
             IF d \in m * TamPagina + Offset .. m * TamPagina + Offset + Bytes - 1
             THEN instruccion.valor ELSE mem[d]]

\* What the loop has left once this page is done. A query that failed on
\* the way goes on with the loop, and fails at its end.
Restante(bien) ==
    IF instruccion.resto > Bytes
    THEN [instruccion EXCEPT !.direccion = @ + Bytes, !.resto = @ - Bytes]
    ELSE IF bien THEN Ninguna ELSE Fallida

\* Mutant: WRITE does not mark its page.
PresenteSinMarcar(tablas, m) ==
    [tablas EXCEPT ![instruccion.tabla][Num] =
        [marco |-> m, presente |-> TRUE, uso |-> TRUE, modificado |-> @.presente /\ @.modificado]]

\* The page is in frame m, just used, and WRITE has changed it.
Presente(tablas, m) ==
    [tablas EXCEPT ![instruccion.tabla][Num] =
        [marco |-> m, presente |-> TRUE, uso |-> TRUE,
         modificado |-> (@.presente /\ @.modificado) \/ instruccion.tipo = "WRITE"]]

\* The page is the last one accessed, and sale no longer counts. Only LRU
\* reads ultimo_acceso.
UltimoAcceso(sale) ==
    IF algoritmo = "LRU" THEN Append(RemoveFirst(accesos, sale), Actual) ELSE accesos

EnMemoria ==
    LET m == tablas_de_paginas[instruccion.tabla][Num].marco IN
    /\ EnCurso /\ Actual \in Presentes(tablas_de_paginas)
    /\ memoria' = Copia(memoria, m)
    /\ tablas_de_paginas' = Presente(tablas_de_paginas, m)
    /\ accesos' = UltimoAcceso(Actual)
    /\ instruccion' = Restante(query_en_ejecucion)
    /\ UNCHANGED <<algoritmo, marcos_ocupados, puntero_clock, query_en_ejecucion, sin_leer, almacen>>

Falta == EnCurso /\ Actual \notin Presentes(tablas_de_paginas) /\ ~sin_leer

\* No page: the loop ends. A query that had failed does not read the block
\* the Storage sends.
SinPagina ==
    /\ Falta
    /\ ~query_en_ejecucion \/ ~Legible(instruccion.tabla, Num)
    /\ query_en_ejecucion' = FALSE
    /\ sin_leer' = Legible(instruccion.tabla, Num)
    /\ instruccion' = Fallida
    /\ UNCHANGED <<algoritmo, marco, almacen>>

\* memcpy of the block into frame m, from the offset of the address on.
Cargada(m) ==
    LET base == m * TamPagina + Offset IN
    [d \in Celdas |-> IF d - base \in Offsets THEN almacen[instruccion.tabla].bloques[Num][d - base]
                      ELSE memoria[d]]

Cargable == Falta /\ query_en_ejecucion /\ Legible(instruccion.tabla, Num)

CargarEnLibre ==
    LET m == Min(MarcosLibres) IN
    /\ Cargable /\ MarcosLibres # {}
    /\ memoria' = Copia(Cargada(m), m)
    /\ tablas_de_paginas' = Presente(tablas_de_paginas, m)
    /\ marcos_ocupados' = marcos_ocupados \union {m}
    /\ accesos' = UltimoAcceso(Actual)
    /\ instruccion' = Restante(TRUE)
    /\ UNCHANGED <<algoritmo, puntero_clock, query_en_ejecucion, sin_leer, almacen>>

\* Mutant: a modified victim is not written back.
AGuardarNunca(v) == {}

\* A modified victim is written back before its frame is given away.
AGuardar(v) == {v} \intersect Sucias(tablas_de_paginas)

\* The Storage may refuse the victim: the query fails, and the load goes on.
Reemplazar ==
    LET v == Victima
        m == tablas_de_paginas[v[1]][v[2]].marco
        bien == Rechazadas(AGuardar(v)) = {}
    IN  /\ Cargable /\ MarcosLibres = {}
        /\ almacen' = Escritos(AGuardar(v))
        /\ memoria' = Copia(Cargada(m), m)
        /\ tablas_de_paginas' = Presente(SinVictima(v), m)
        /\ accesos' = UltimoAcceso(v)
        /\ puntero_clock' = IF algoritmo = "LRU" THEN puntero_clock ELSE Siguiente(m)
        /\ query_en_ejecucion' = bien
        /\ instruccion' = Restante(bien)
        /\ UNCHANGED <<algoritmo, marcos_ocupados, sin_leer>>

-----------------------------------------------------------------------------
\* One File:Tag to write, whole and empty of data, and the others to create.
Init ==
    /\ algoritmo \in Algoritmos
    /\ marcos_ocupados = {}
    /\ memoria \in [Celdas -> Basura]
    /\ tablas_de_paginas = [t \in Tablas |-> [p \in Paginas |-> Ausente]]
    /\ accesos = <<>>
    /\ puntero_clock = 0
    /\ query_en_ejecucion = FALSE
    /\ sin_leer = FALSE
    /\ instruccion = Ninguna
    /\ almacen \in [Tablas -> {Inexistente,
                               [Inexistente EXCEPT !.estado = "WORK_IN_PROGRESS", !.n = CantPaginas]}]
    /\ sin_lugar \in SinLugares

DelWorker ==
    \/ IniciarQuery \/ FinDeArchivo \/ LiberarMarcos \/ End \/ Desalojar
    \/ EnMemoria \/ SinPagina \/ CargarEnLibre \/ Reemplazar
    \/ \E t \in Tablas :
          \/ Flush(t) \/ Commit(t) \/ Create(t) \/ Delete(t)
          \/ \E n \in Tamanios : Truncate(t, n)
          \/ \E d \in Tablas : Tag(t, d)
          \/ \E dir \in Direcciones, largo \in Largos :
                \/ Pedir("READ", t, dir, largo, Cero)
                \/ \E v \in Valores : Pedir("WRITE", t, dir, largo, v)

Next == (DelWorker /\ UNCHANGED sin_lugar) \/ OtrosWorkers

Spec == Init /\ [][Next]_vars
=============================================================================
