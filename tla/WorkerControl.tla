------------------------------ MODULE WorkerControl ----------------------------
(***************************************************************************)
(* The threads of a Worker: the listener that takes the Master's packets   *)
(* (worker/src/hilo-master.c) and one thread for each query it is told to  *)
(* execute (worker/src/query_intepreter.c), one at a time under            *)
(* mutex_ejecucion_query. What instructions do to the memory is in         *)
(* MemoriaWorker; here they go well or are refused by the Storage.         *)
(***************************************************************************)
EXTENDS Canales

CONSTANTS
    SinEnd,      \* the queries whose file lacks the END
    \* Requests of one instruction, of END's flush and of an eviction's flush
    \* that the Storage may refuse: each sends the Master a QUERY_FINALIZADA.
    RechazosInstruccion, RechazosEnd, RechazosDesalojo,
    LecturaTardia  \* whether a READ may answer after a refusal, that of the
                   \* victim's write: the load goes on after it

ASSUME ControlAssumption ==
    /\ SinEnd \subseteq Queries
    /\ RechazosInstruccion \subseteq Nat \ {0} /\ RechazosEnd \subseteq Nat
    /\ RechazosDesalojo \subseteq Nat /\ LecturaTardia \in BOOLEAN

VARIABLES
    ejecuciones,         \* the query threads of each Worker
    query_en_ejecucion,  \* a refusal of the Storage clears it, whoever asked
    query_desalojada,
    pc_actual,
    sem_desalojo,
    escucha,             \* the listener of each Worker
    avance               \* what has become of every query, whoever knows it

control == <<ejecuciones, query_en_ejecucion, query_desalojada, pc_actual, sem_desalojo, escucha, avance>>

\* A query thread waits for the mutex or executes; pc is the next line.
Ejecucion == [query : Queries, pc : 0 .. Lineas, paso : {"espera", "ejecuta"}]

Escucha == [paso : {"lee", "espera"}, query : Queries \union {"ninguna"}]

Leyendo == [paso |-> "lee", query |-> "ninguna"]

Avance == [hechas : 0 .. Lineas, fallo : BOOLEAN]

\* n packets with the reason of a refusal.
Rechazos(q, n) == [k \in 1 .. n |-> QueryFinalizada(q, "ERROR")]

Avisar(w, mensajes) == a_master' = [a_master EXCEPT ![w] = @ \o mensajes]

-----------------------------------------------------------------------------
(* The listener                                                            *)

Escuchando(w) == escucha[w].paso = "lee"

LeerEjecutar(w) ==
    LET m == Head(a_worker[w]) IN
    /\ Escuchando(w) /\ Llega(a_worker[w], "EJECUTAR_QUERY")
    /\ a_worker' = [a_worker EXCEPT ![w] = Tail(@)]
    /\ ejecuciones' = [ejecuciones EXCEPT ![w] =
                          @ \union {[query |-> m.query, pc |-> m.pc, paso |-> "espera"]}]
    /\ UNCHANGED <<query_en_ejecucion, query_desalojada, pc_actual, sem_desalojo, escucha, avance,
                   a_master, a_query>>

\* marcar_query_desalojada; then it waits for the query thread.
LeerDesalojar(w) ==
    /\ Escuchando(w) /\ Llega(a_worker[w], "DESALOJAR_QUERY")
    /\ a_worker' = [a_worker EXCEPT ![w] = Tail(@)]
    /\ query_desalojada' = [query_desalojada EXCEPT ![w] = TRUE]
    /\ escucha' = [escucha EXCEPT ![w] = [paso |-> "espera", query |-> Head(a_worker[w]).query]]
    /\ UNCHANGED <<ejecuciones, query_en_ejecucion, pc_actual, sem_desalojo, avance, a_master,
                   a_query>>

\* The query thread has stopped: flush, and the answer with pc_actual.
ResponderDesalojo(w, n) ==
    LET q == escucha[w].query IN
    /\ escucha[w].paso = "espera" /\ sem_desalojo[w] > 0 /\ n \in RechazosDesalojo
    /\ sem_desalojo' = [sem_desalojo EXCEPT ![w] = @ - 1]
    /\ Avisar(w, Append(Rechazos(q, n), DesalojoQuery(q, pc_actual[w])))
    /\ avance' = [avance EXCEPT ![q].fallo = @ \/ n > 0]
    /\ query_en_ejecucion' = [query_en_ejecucion EXCEPT ![w] = @ /\ n = 0]
    /\ escucha' = [escucha EXCEPT ![w] = Leyendo]
    /\ UNCHANGED <<ejecuciones, query_desalojada, pc_actual, a_worker, a_query>>

-----------------------------------------------------------------------------
(* A query thread                                                          *)

MutexLibre(w) == \A e \in ejecuciones[w] : e.paso # "ejecuta"

\* It takes the mutex, and the control variables start again.
Comenzar(w, e) ==
    /\ e.paso = "espera" /\ MutexLibre(w)
    /\ ejecuciones' = [ejecuciones EXCEPT ![w] = (@ \ {e}) \union {[e EXCEPT !.paso = "ejecuta"]}]
    /\ query_en_ejecucion' = [query_en_ejecucion EXCEPT ![w] = TRUE]
    /\ query_desalojada' = [query_desalojada EXCEPT ![w] = FALSE]
    /\ pc_actual' = [pc_actual EXCEPT ![w] = e.pc]
    /\ UNCHANGED <<sem_desalojo, escucha, avance, canales>>

Termina(w, e) ==
    /\ ejecuciones' = [ejecuciones EXCEPT ![w] = @ \ {e}]
    /\ query_en_ejecucion' = [query_en_ejecucion EXCEPT ![w] = FALSE]

\* Mutant: one line too many.
EnLineaDeMas(w, e) == e.paso = "ejecuta" /\ e.pc <= Lineas /\ ~query_desalojada[w]

\* The thread has a line to execute and has not been told to stop.
EnLinea(w, e) == e.paso = "ejecuta" /\ e.pc < Lineas /\ ~query_desalojada[w]

EsEnd(e) == e.pc = Lineas - 1 /\ e.query \notin SinEnd

Hecha(e) == avance' = [avance EXCEPT ![e.query].hechas = e.pc + 1]

\* Mutant: the listener is not told of the next line.
AvanzaSinAvisar(w, e) ==
    /\ ejecuciones' = [ejecuciones EXCEPT ![w] = (@ \ {e}) \union {[e EXCEPT !.pc = @ + 1]}]
    /\ UNCHANGED <<pc_actual, query_en_ejecucion>>

\* actualizar_pc, after an instruction.
Avanza(w, e) ==
    /\ ejecuciones' = [ejecuciones EXCEPT ![w] = (@ \ {e}) \union {[e EXCEPT !.pc = @ + 1]}]
    /\ pc_actual' = [pc_actual EXCEPT ![w] = e.pc + 1]
    /\ UNCHANGED query_en_ejecucion

\* After an instruction that went well the thread goes on, unless the listener
\* has had a refusal meanwhile: then it stops as if it were its own.
Sigue(w, e) ==
    \/ query_en_ejecucion[w] /\ Avanza(w, e)
    \/ ~query_en_ejecucion[w] /\ Termina(w, e) /\ UNCHANGED pc_actual

\* A READ sends what it has read, page by page; the others send nothing.
Lecturas(e) == {<<>>, <<LecturaRealizada(e.query)>>}
LecturasTardias(e) == IF LecturaTardia THEN Lecturas(e) ELSE {<<>>}

Instruccion(w, e) ==
    /\ EnLinea(w, e) /\ ~EsEnd(e)
    /\ Hecha(e) /\ Sigue(w, e)
    /\ \E l \in Lecturas(e) : Avisar(w, l)
    /\ UNCHANGED <<query_desalojada, sem_desalojo, escucha, a_worker, a_query>>

\* Mutant: the query goes on after a refusal.
RechazadaSigue(w, e, n) ==
    /\ EnLinea(w, e) /\ ~EsEnd(e) /\ n \in RechazosInstruccion
    /\ \E l \in Lecturas(e), t \in LecturasTardias(e) : Avisar(w, l \o Rechazos(e.query, n) \o t)
    /\ avance' = [avance EXCEPT ![e.query].fallo = TRUE]
    /\ Avanza(w, e)
    /\ UNCHANGED <<query_desalojada, sem_desalojo, escucha, a_worker, a_query>>

\* The Storage refuses n of its requests.
InstruccionRechazada(w, e, n) ==
    /\ EnLinea(w, e) /\ ~EsEnd(e) /\ n \in RechazosInstruccion
    /\ \E l \in Lecturas(e), t \in LecturasTardias(e) : Avisar(w, l \o Rechazos(e.query, n) \o t)
    /\ avance' = [avance EXCEPT ![e.query].fallo = TRUE]
    /\ Termina(w, e)
    /\ UNCHANGED <<query_desalojada, pc_actual, sem_desalojo, escucha, a_worker, a_query>>

\* END says COMPLETADA whatever became of its flush.
End(w, e, n) ==
    /\ EnLinea(w, e) /\ EsEnd(e) /\ n \in RechazosEnd
    /\ Avisar(w, Append(Rechazos(e.query, n), QueryFinalizada(e.query, "COMPLETADA")))
    /\ \/ n = 0 /\ Hecha(e) /\ Sigue(w, e)
       \/ /\ n > 0
          /\ avance' = [avance EXCEPT ![e.query].fallo = TRUE]
          /\ Termina(w, e) /\ UNCHANGED pc_actual
    /\ UNCHANGED <<query_desalojada, sem_desalojo, escucha, a_worker, a_query>>

\* The eviction is seen before the next line, and never at the end of the file.
Ceder(w, e) ==
    /\ e.paso = "ejecuta" /\ e.pc < Lineas /\ query_desalojada[w]
    /\ Termina(w, e)
    /\ sem_desalojo' = [sem_desalojo EXCEPT ![w] = @ + 1]
    /\ UNCHANGED <<query_desalojada, pc_actual, escucha, avance, canales>>

FinDeArchivo(w, e) ==
    /\ e.paso = "ejecuta" /\ e.pc = Lineas
    /\ Termina(w, e)
    /\ UNCHANGED <<query_desalojada, pc_actual, sem_desalojo, escucha, avance, canales>>

-----------------------------------------------------------------------------
(* The process ends                                                        *)

\* What reaches the Master of what the Worker sent: all of it, or any part
\* from the start if it left packets unread (the connection is reset).
Entregado(w) ==
    {SubSeq(a_master[w], 1, k) : k \in IF a_worker[w] = <<>> THEN {Len(a_master[w])}
                                       ELSE 0 .. Len(a_master[w])}

Caer(w) ==
    /\ w \notin caido /\ caidas < MaxCaidas
    /\ caido' = caido \union {w} /\ caidas' = caidas + 1
    /\ a_worker' = [a_worker EXCEPT ![w] = <<>>]
    /\ \E s \in Entregado(w) : a_master' = [a_master EXCEPT ![w] = s]
    /\ ejecuciones' = [ejecuciones EXCEPT ![w] = {}]
    /\ query_en_ejecucion' = [query_en_ejecucion EXCEPT ![w] = FALSE]
    /\ query_desalojada' = [query_desalojada EXCEPT ![w] = FALSE]
    /\ pc_actual' = [pc_actual EXCEPT ![w] = 0]
    /\ sem_desalojo' = [sem_desalojo EXCEPT ![w] = 0]
    /\ escucha' = [escucha EXCEPT ![w] = Leyendo]
    /\ UNCHANGED <<avance, a_query>>

-----------------------------------------------------------------------------
InitControl ==
    /\ ejecuciones = [w \in Workers |-> {}]
    /\ query_en_ejecucion = [w \in Workers |-> FALSE]
    /\ query_desalojada = [w \in Workers |-> FALSE]
    /\ pc_actual = [w \in Workers |-> 0]
    /\ sem_desalojo = [w \in Workers |-> 0]
    /\ escucha = [w \in Workers |-> Leyendo]
    /\ avance = [q \in Queries |-> [hechas |-> 0, fallo |-> FALSE]]

Escuchar(w) ==
    LeerEjecutar(w) \/ LeerDesalojar(w) \/ \E n \in RechazosDesalojo : ResponderDesalojo(w, n)

\* The steps of the thread of query q in Worker w.
Ejecutar(w, q) ==
    \E e \in ejecuciones[w] :
        /\ e.query = q
        /\ \/ Comenzar(w, e) \/ Instruccion(w, e) \/ Ceder(w, e) \/ FinDeArchivo(w, e)
           \/ \E n \in RechazosInstruccion : InstruccionRechazada(w, e, n)
           \/ \E n \in RechazosEnd : End(w, e, n)

NextControl == \E w \in Workers : Escuchar(w) \/ \E q \in Queries : Ejecutar(w, q)
=============================================================================
