----------------------------- MODULE MemoriaPlana ------------------------------
(***************************************************************************)
(* What a query may take the Worker's memory for: every File:Tag is a flat *)
(* array of bytes that only its own WRITEs change. Frames, page tables and *)
(* replacement do not show. The Storage keeps a copy that follows behind;  *)
(* bytes it has not got yet are lost only when it refuses them, and then   *)
(* the query does not go on.                                               *)
(***************************************************************************)
EXTENDS Integers

CONSTANTS Tablas, Paginas, Offsets, Valores

VARIABLES
    vista,     \* the bytes of every page, as the query reads them
    almacen,   \* the Storage: state and blocks of every File:Tag
    sin_lugar, \* the pages it has no block for
    sigue,     \* a query is running
    fallida    \* an instruction has failed and the query is being closed

Acepta(t, p) ==
    almacen[t].estado = "WORK_IN_PROGRESS" /\ p < almacen[t].n /\ <<t, p>> \notin sin_lugar

Guardado(t, p) == almacen[t].bloques[p]

\* Page p of t, which this step does not write: it reads the same, unless the
\* Storage refuses it, which ends the query, and the Storage may be given it.
Intacta(t, p) ==
    /\ \/ vista'[t][p] = vista[t][p]
       \/ vista'[t][p] = Guardado(t, p) /\ ~Acepta(t, p) /\ ~sigue'
    /\ \/ Guardado(t, p)' = Guardado(t, p)
       \/ Guardado(t, p)' = vista[t][p] /\ Acepta(t, p)

\* WRITE of v in the bytes from..to of a page.
Escribir(t, p, desde, hasta, v) ==
    /\ vista'[t][p] = [o \in Offsets |-> IF o \in desde .. hasta THEN v ELSE vista[t][p][o]]
    /\ Guardado(t, p)' = Guardado(t, p)
    /\ \A s \in Tablas, q \in Paginas : <<s, q>> # <<t, p>> => Intacta(s, q)
    /\ \A s \in Tablas : almacen'[s].estado = almacen[s].estado /\ almacen'[s].n = almacen[s].n

\* Nothing is written: pages go to the Storage. Those of a File:Tag go before
\* it is COMMITED, all of them if the query goes on.
Guardar ==
    /\ \A t \in Tablas, p \in Paginas : Intacta(t, p)
    /\ \A t \in Tablas :
          /\ almacen'[t].n = almacen[t].n
          /\ \/ almacen'[t].estado = almacen[t].estado
             \/ /\ almacen[t].estado = "WORK_IN_PROGRESS" /\ almacen'[t].estado = "COMMITED"
                /\ \A p \in Paginas :
                      Acepta(t, p) \/ (p < almacen[t].n /\ sigue') => Guardado(t, p)' = vista[t][p]

\* A query that failed leaves what the Storage had.
Descartar ==
    /\ fallida
    /\ \A t \in Tablas, p \in Paginas : vista'[t][p] = Guardado(t, p)
    /\ UNCHANGED almacen

\* The Storage changes t on its own (CREATE, TRUNCATE, TAG, DELETE), and t
\* reads as the Storage has it then.
Cambiar(t) ==
    /\ almacen'[t].estado # almacen[t].estado \/ almacen'[t].n # almacen[t].n
    /\ almacen'[t].estado # "COMMITED"
    /\ \A s \in Tablas \ {t} : almacen'[s] = almacen[s] /\ vista'[s] = vista[s]
    /\ \A p \in Paginas : vista'[t][p] = Guardado(t, p)'

Init == \A t \in Tablas, p \in Paginas : vista[t][p] = Guardado(t, p)

Next ==
    \/ Guardar \/ Descartar
    \/ \E t \in Tablas :
          \/ Cambiar(t)
          \/ \E p \in Paginas, desde, hasta \in Offsets, v \in Valores : Escribir(t, p, desde, hasta, v)

Spec == Init /\ [][Next]_<<vista, almacen, fallida>>
=============================================================================
