--------------------------------- MODULE Master --------------------------------
(***************************************************************************)
(* The planner of the Master: the lists READY and EXEC, the Workers, and   *)
(* the two planning algorithms (master/src/hilo-query_control.c and        *)
(* hilo-worker.c).                                                         *)
(*                                                                         *)
(* Nobody owns the planner. Every thread runs it on its own stack: the one *)
(* of a Query Control when the query arrives and when it ages, the one     *)
(* that reads a Worker's socket when the Worker connects and when a query  *)
(* ends. mutex_planificacion is meant to let one in at a time. The short   *)
(* sections under the mutexes of the lists, the queries and the Workers    *)
(* are parts of one action.                                                *)
(*                                                                         *)
(* A Worker that goes down is noticed by the thread that reads its socket, *)
(* once it has read all that was there; a planner may notice it before,    *)
(* when it cannot send. Then it plans again, inside the planner it was in. *)
(***************************************************************************)
EXTENDS Canales, SequencesExt

CONSTANTS
    Algoritmos,   \* "FIFO", "PRIORIDADES": what the Master is configured with
    Prioridades,  \* workload: the priorities the queries come with
    Aging,        \* whether TIEMPO_AGING is positive
    SinWorker, SinQuery

ASSUME PrioridadesAssumption == Prioridades \subseteq Nat /\ Prioridades # {}
ASSUME MasterAssumption ==
    /\ Algoritmos \subseteq {"FIFO", "PRIORIDADES"} /\ Aging \in BOOLEAN
    /\ SinWorker \notin Workers /\ SinQuery \notin Queries /\ Queries \intersect Workers = {}

VARIABLES
    algoritmo,
    query,              \* t_query of every query
    disponible,         \* the Workers that are free
    queries_ready,
    queries_exec,
    lista_workers_info, \* the Workers connected
    mutex_planificacion,
    sem_ejecutar_query,
    hilo                \* every thread: where it is, and its planner's locals

master == <<algoritmo, query, disponible, queries_ready, queries_exec, lista_workers_info,
            mutex_planificacion, sem_ejecutar_query, hilo>>

Hilos == Queries \union Workers

Pasos == {"fuera", "libre", "semaforo", "desconectar", "planificar", "iterar", "asignar", "enviar",
          "soltar", "desalojar", "esperar", "enviar_relevo"}

\* pila: the planners this one was called from, and whether each unlocks next.
Hilo == [paso : Pasos, i : Nat, query : Queries \union {SinQuery},
         worker : Workers \union {SinWorker}, pila : Seq([i : Nat, suelta : BOOLEAN])]

Afuera == [paso |-> "fuera", i |-> 0, query |-> SinQuery, worker |-> SinWorker, pila |-> <<>>]

Query == [estado : {"NUEVA", "READY", "EXEC", "EXIT"}, prioridad : Nat,
          worker : Workers \union {SinWorker}, pc : 0 .. Lineas, desalojada : BOOLEAN]

Nueva == [estado |-> "NUEVA", prioridad |-> 0, worker |-> SinWorker, pc |-> 0, desalojada |-> FALSE]

En(t, paso)   == hilo[t].paso = paso
Pasa(t, paso) == hilo' = [hilo EXCEPT ![t].paso = paso]

-----------------------------------------------------------------------------
(* Connections                                                             *)

ConectarQuery(q, p) ==
    /\ query[q].estado = "NUEVA"
    /\ query' = [query EXCEPT ![q].estado = "READY", ![q].prioridad = p]
    /\ queries_ready' = Append(queries_ready, q)
    /\ Pasa(q, "planificar")
    /\ UNCHANGED <<algoritmo, disponible, queries_exec, lista_workers_info, mutex_planificacion,
                   sem_ejecutar_query, canales>>

ConectarWorker(w) ==
    /\ En(w, "fuera") /\ w \notin caido
    /\ lista_workers_info' = Append(lista_workers_info, w)
    /\ disponible' = disponible \union {w}
    /\ Pasa(w, "semaforo")
    /\ UNCHANGED <<algoritmo, query, queries_ready, queries_exec, mutex_planificacion,
                   sem_ejecutar_query, canales>>

\* Mutant: the semaphore starts at one.
IniciarSemaforoEnUno(w) ==
    /\ En(w, "semaforo")
    /\ sem_ejecutar_query' = 1
    /\ Pasa(w, "planificar")
    /\ UNCHANGED <<algoritmo, query, disponible, queries_ready, queries_exec, lista_workers_info,
                   mutex_planificacion, canales>>

\* Each Worker that connects starts the semaphore every planner waits for.
IniciarSemaforo(w) ==
    /\ En(w, "semaforo")
    /\ sem_ejecutar_query' = 0
    /\ Pasa(w, "planificar")
    /\ UNCHANGED <<algoritmo, query, disponible, queries_ready, queries_exec, lista_workers_info,
                   mutex_planificacion, canales>>

-----------------------------------------------------------------------------
(* Planning                                                                *)

\* obtener_worker_disponible: the first free one of the list.
HayWorker == \E w \in ToSet(lista_workers_info) : w \in disponible
WorkerDisponible ==
    lista_workers_info[CHOOSE k \in DOMAIN lista_workers_info :
        /\ lista_workers_info[k] \in disponible
        /\ \A j \in 1 .. k - 1 : lista_workers_info[j] \notin disponible]

\* The first query of READY with the smallest prioridad.
MejorQuery ==
    queries_ready[CHOOSE k \in DOMAIN queries_ready :
        /\ \A j \in DOMAIN queries_ready :
              query[queries_ready[k]].prioridad <= query[queries_ready[j]].prioridad
        /\ \A j \in 1 .. k - 1 :
              query[queries_ready[k]].prioridad < query[queries_ready[j]].prioridad]

\* Mutant: the Worker is not marked as busy.
TomaSinOcupar(t, q, w) ==
    /\ queries_ready' = RemoveFirst(queries_ready, q)
    /\ UNCHANGED disponible
    /\ hilo' = [hilo EXCEPT ![t].paso = "asignar", ![t].query = q, ![t].worker = w]

\* The query leaves READY and the Worker is marked as busy.
Toma(t, q, w) ==
    /\ queries_ready' = RemoveFirst(queries_ready, q)
    /\ disponible' = disponible \ {w}
    /\ hilo' = [hilo EXCEPT ![t].paso = "asignar", ![t].query = q, ![t].worker = w]

\* The loop of a thread: that of a Worker that went down ends.
Suelto(t) == IF t \in Workers /\ t \notin ToSet(lista_workers_info) THEN Afuera
             ELSE [Afuera EXCEPT !.paso = "libre"]

\* The planner returns to its thread, or to the planner that called it.
Regreso(t) ==
    LET pila == hilo[t].pila IN
    [hilo EXCEPT ![t] =
        IF pila = <<>> THEN Suelto(t)
        ELSE [Afuera EXCEPT !.paso = IF Last(pila).suelta THEN "soltar" ELSE "iterar",
                            !.i = IF Last(pila).suelta THEN Last(pila).i ELSE Last(pila).i - 1,
                            !.pila = Front(pila)]]

PlanificarFifo(t) ==
    /\ En(t, "planificar") /\ algoritmo = "FIFO" /\ ~mutex_planificacion
    /\ \/ /\ queries_ready # <<>> /\ HayWorker
          /\ Toma(t, Head(queries_ready), WorkerDisponible)
          /\ mutex_planificacion' = TRUE
       \/ /\ queries_ready = <<>> \/ ~HayWorker
          /\ hilo' = Regreso(t)
          /\ UNCHANGED <<disponible, queries_ready, mutex_planificacion>>
    /\ UNCHANGED <<algoritmo, query, queries_exec, lista_workers_info, sem_ejecutar_query, canales>>

\* planificar_queries_prioridades goes round once for each Worker.
PlanificarPrioridades(t) ==
    /\ En(t, "planificar") /\ algoritmo = "PRIORIDADES" /\ ~mutex_planificacion
    /\ mutex_planificacion' = TRUE
    /\ hilo' = [hilo EXCEPT ![t].paso = "iterar", ![t].i = Len(lista_workers_info)]
    /\ UNCHANGED <<algoritmo, query, disponible, queries_ready, queries_exec, lista_workers_info,
                   sem_ejecutar_query, canales>>

Vuelta(t) ==
    [hilo EXCEPT ![t] = [Afuera EXCEPT !.paso = "iterar", !.i = hilo[t].i - 1, !.pila = hilo[t].pila]]

Ronda(t) == En(t, "iterar") /\ hilo[t].i > 0 /\ queries_ready # <<>>

FinPlanificar(t) ==
    /\ En(t, "iterar")
    /\ hilo[t].i = 0 \/ queries_ready = <<>>
    /\ mutex_planificacion' = FALSE
    /\ hilo' = Regreso(t)
    /\ UNCHANGED <<algoritmo, query, disponible, queries_ready, queries_exec, lista_workers_info,
                   sem_ejecutar_query, canales>>

Asignar(t) ==
    /\ Ronda(t) /\ HayWorker
    /\ Toma(t, MejorQuery, WorkerDisponible)
    /\ UNCHANGED <<algoritmo, query, queries_exec, lista_workers_info, mutex_planificacion,
                   sem_ejecutar_query, canales>>

\* The id is read from the t_worker again. A Worker that left has freed it
\* meanwhile: its id is still there or it is not, and then it is that of nobody.
Leido(w) == IF w \in ToSet(lista_workers_info) THEN {w} ELSE {w, SinWorker}

\* The query goes to EXEC on that Worker. EJECUTAR_QUERY is still to be sent.
PasarAExec(t) ==
    LET q == hilo[t].query IN
    /\ En(t, "asignar")
    /\ queries_exec' = Append(queries_exec, q)
    /\ \E w \in Leido(hilo[t].worker) :
          /\ query' = [query EXCEPT ![q].estado = "EXEC", ![q].worker = w, ![q].desalojada = FALSE]
          /\ hilo' = [hilo EXCEPT ![t].paso = "enviar", ![t].worker = w]
    /\ UNCHANGED <<algoritmo, disponible, queries_ready, lista_workers_info, mutex_planificacion,
                   sem_ejecutar_query, canales>>

\* Sent to a Worker that went down, the packet is lost and nobody is told.
Manda(w, m) ==
    /\ w \in ToSet(lista_workers_info)
    /\ a_worker' = IF w \in caido THEN a_worker ELSE [a_worker EXCEPT ![w] = Append(@, m)]

\* EJECUTAR_QUERY is sent and the mutex let go, which ends FIFO. The other
\* algorithm goes on with its rounds without the mutex.
Enviar(t) ==
    LET q == hilo[t].query IN
    /\ En(t, "enviar")
    /\ Manda(hilo[t].worker, EjecutarQuery(q, query[q].pc))
    /\ mutex_planificacion' = FALSE
    /\ hilo' = IF algoritmo = "FIFO" THEN Regreso(t) ELSE Vuelta(t)
    /\ UNCHANGED <<algoritmo, query, disponible, queries_ready, queries_exec, lista_workers_info,
                   sem_ejecutar_query, a_master, a_query>>

\* Mutant: the query is not put back in READY.
PerderQuery(q) ==
    /\ queries_exec' = RemoveFirst(queries_exec, q)
    /\ UNCHANGED queries_ready
    /\ query' = [query EXCEPT ![q].estado = "READY", ![q].worker = SinWorker]

\* The query of a packet that could not be sent.
DevolverAReady(q) ==
    /\ queries_exec' = RemoveFirst(queries_exec, q)
    /\ queries_ready' = Append(queries_ready, q)
    /\ query' = [query EXCEPT ![q].estado = "READY", ![q].worker = SinWorker]

\* Whom the packet is for. After an eviction it is the Worker the query has by
\* then, which is none if another thread has put it back in READY meanwhile.
Destino(t) == IF En(t, "enviar_relevo") THEN query[hilo[t].query].worker ELSE hilo[t].worker

\* manejar_fallo_envio_worker: the planner calls planificar_queries without
\* having let its mutex go, unless the Worker's reader has failed the query.
FallarEnvio(t) ==
    LET h == hilo[t]
        marco == [i |-> h.i, suelta |-> h.paso = "enviar"]
    IN  /\ h.paso \in {"enviar", "enviar_relevo"}
        /\ Destino(t) \in caido \/ Destino(t) \notin ToSet(lista_workers_info)
        /\ disponible' = disponible \union ({Destino(t)} \intersect ToSet(lista_workers_info))
        /\ \/ /\ h.query \in ToSet(queries_exec)
              /\ DevolverAReady(h.query)
              /\ hilo' = [hilo EXCEPT ![t] =
                             [Afuera EXCEPT !.paso = "planificar", !.pila = Append(h.pila, marco)]]
           \/ /\ h.query \notin ToSet(queries_exec)
              /\ hilo' = IF h.paso = "enviar" THEN [hilo EXCEPT ![t].paso = "soltar"] ELSE Vuelta(t)
              /\ UNCHANGED <<query, queries_ready, queries_exec>>
        /\ UNCHANGED <<algoritmo, lista_workers_info, mutex_planificacion, sem_ejecutar_query, canales>>

\* After a packet that could not be sent the planner goes on as if it had been.
Soltar(t) ==
    /\ En(t, "soltar")
    /\ mutex_planificacion' = FALSE
    /\ hilo' = IF algoritmo = "FIFO" THEN Regreso(t) ELSE Vuelta(t)
    /\ UNCHANGED <<algoritmo, query, disponible, queries_ready, queries_exec, lista_workers_info,
                   sem_ejecutar_query, canales>>

Desalojables == {k \in DOMAIN queries_exec :
                    query[MejorQuery].prioridad < query[queries_exec[k]].prioridad}

\* The first query of EXEC with the largest prioridad.
Victima ==
    queries_exec[CHOOSE k \in Desalojables :
        /\ \A j \in Desalojables :
              query[queries_exec[k]].prioridad >= query[queries_exec[j]].prioridad
        /\ \A j \in Desalojables : j < k =>
              query[queries_exec[k]].prioridad > query[queries_exec[j]].prioridad]

ElegirVictima(t) ==
    /\ Ronda(t) /\ ~HayWorker /\ Desalojables # {}
    /\ queries_ready' = RemoveFirst(queries_ready, MejorQuery)
    /\ query' = [query EXCEPT ![MejorQuery].estado = "EXEC", ![MejorQuery].desalojada = FALSE,
                              ![MejorQuery].worker = query[Victima].worker]
    /\ hilo' = [hilo EXCEPT ![t].paso = "desalojar", ![t].query = MejorQuery,
                            ![t].worker = query[Victima].worker]
    /\ UNCHANGED <<algoritmo, disponible, queries_exec, lista_workers_info, mutex_planificacion,
                   sem_ejecutar_query, canales>>

NadieDesalojable(t) ==
    /\ Ronda(t) /\ ~HayWorker /\ Desalojables = {}
    /\ hilo' = Vuelta(t)
    /\ UNCHANGED <<algoritmo, query, disponible, queries_ready, queries_exec, lista_workers_info,
                   mutex_planificacion, sem_ejecutar_query, canales>>

\* The queries of EXEC on a Worker, and the first of them.
EnWorker(w) == {k \in DOMAIN queries_exec : query[queries_exec[k]].worker = w}
PrimeraEn(w) == queries_exec[CHOOSE k \in EnWorker(w) : \A j \in EnWorker(w) : k <= j]

\* The query of a Worker that can be told to leave it.
Desalojable(w) ==
    /\ EnWorker(w) # {}
    /\ ~query[PrimeraEn(w)].desalojada /\ query[PrimeraEn(w)].estado = "EXEC"

\* desalojar_query_en_worker: DESALOJAR_QUERY for the query that is there by
\* now. If there is none nothing is sent, and the planner waits all the same.
Desalojar(t) ==
    LET w == hilo[t].worker IN
    /\ En(t, "desalojar")
    /\ \/ Desalojable(w) /\ Manda(w, DesalojarQuery(PrimeraEn(w)))
       \/ ~(Desalojable(w) /\ w \in ToSet(lista_workers_info)) /\ UNCHANGED a_worker
    /\ Pasa(t, "esperar")
    /\ UNCHANGED <<algoritmo, query, disponible, queries_ready, queries_exec, lista_workers_info,
                   mutex_planificacion, sem_ejecutar_query, a_master, a_query>>

\* Somebody's eviction has ended: the query takes the Worker.
Relevar(t) ==
    /\ En(t, "esperar") /\ sem_ejecutar_query > 0
    /\ sem_ejecutar_query' = sem_ejecutar_query - 1
    /\ queries_exec' = Append(queries_exec, hilo[t].query)
    /\ disponible' = disponible \ {hilo[t].worker}
    /\ Pasa(t, "enviar_relevo")
    /\ UNCHANGED <<algoritmo, query, queries_ready, lista_workers_info, mutex_planificacion, canales>>

EnviarRelevo(t) ==
    LET q == hilo[t].query IN
    /\ En(t, "enviar_relevo")
    /\ Manda(Destino(t), EjecutarQuery(q, query[q].pc))
    /\ hilo' = Vuelta(t)
    /\ UNCHANGED <<algoritmo, query, disponible, queries_ready, queries_exec, lista_workers_info,
                   mutex_planificacion, sem_ejecutar_query, a_master, a_query>>

\* aplicar_aging_a_query: a query that waits gains priority, and its thread plans.
Envejecer(q) ==
    /\ Aging /\ algoritmo = "PRIORIDADES" /\ En(q, "libre")
    /\ query[q].estado = "READY" /\ query[q].prioridad > 0
    /\ query' = [query EXCEPT ![q].prioridad = @ - 1]
    /\ Pasa(q, "planificar")
    /\ UNCHANGED <<algoritmo, disponible, queries_ready, queries_exec, lista_workers_info,
                   mutex_planificacion, sem_ejecutar_query, canales>>

-----------------------------------------------------------------------------
(* What a Worker sends, read by its thread when it is not planning         *)

Lee(w, tipo) == En(w, "libre") /\ Llega(a_master[w], tipo)

\* A reading goes to the query that is on the Worker, as the Master knows.
RecibirLectura(w) ==
    /\ Lee(w, "LECTURA_REALIZADA")
    /\ a_master' = [a_master EXCEPT ![w] = Tail(@)]
    /\ a_query' = [q \in Queries |->
          IF EnWorker(w) # {} /\ q = PrimeraEn(w)
          THEN [a_query[q] EXCEPT !.lecturas = @ \union {Head(a_master[w]).query}] ELSE a_query[q]]
    /\ UNCHANGED <<master, a_worker>>

\* Mutant: nobody plans when a query ends.
SinPlanificar(w) == UNCHANGED hilo

PlanificaAlTerminar(w) == Pasa(w, "planificar")

\* mutex_workers, which the clean-up of a disconnection keeps.
MutexWorkersLibre == \A w \in Workers : ~En(w, "desconectar")

\* So does the end of a query: its id in the packet is not looked at.
RecibirFin(w) ==
    LET q == PrimeraEn(w)
        m == Head(a_master[w])
    IN  /\ Lee(w, "QUERY_FINALIZADA") /\ EnWorker(w) # {} /\ MutexWorkersLibre
        /\ a_master' = [a_master EXCEPT ![w] = Tail(@)]
        /\ a_query' = [a_query EXCEPT ![q].finales = Append(@, <<m.query, m.motivo>>)]
        /\ disponible' = disponible \union {w}
        /\ queries_exec' = RemoveFirst(queries_exec, q)
        /\ query' = [query EXCEPT ![q].estado = "EXIT"]
        /\ PlanificaAlTerminar(w)
        /\ UNCHANGED <<algoritmo, queries_ready, lista_workers_info, mutex_planificacion,
                       sem_ejecutar_query, a_worker>>

\* An end for a Worker with no query is discarded.
DescartarFin(w) ==
    /\ Lee(w, "QUERY_FINALIZADA") /\ EnWorker(w) = {}
    /\ a_master' = [a_master EXCEPT ![w] = Tail(@)]
    /\ UNCHANGED <<master, a_worker, a_query>>

\* Mutant: the query is left in EXEC too.
VuelveSinSalir(q, pc) ==
    /\ UNCHANGED queries_exec
    /\ queries_ready' = Append(queries_ready, q)
    /\ query' = [query EXCEPT ![q].estado = "READY", ![q].worker = SinWorker,
                              ![q].pc = pc, ![q].desalojada = TRUE]

\* An evicted query goes back to READY.
Vuelve(q, pc) ==
    /\ queries_exec' = RemoveFirst(queries_exec, q)
    /\ queries_ready' = Append(queries_ready, q)
    /\ query' = [query EXCEPT ![q].estado = "READY", ![q].worker = SinWorker,
                              ![q].pc = pc, ![q].desalojada = TRUE]

\* procesar_desalojo_completado: back to READY where it stopped, if it is
\* still in EXEC, and the planner that waits goes on.
RecibirDesalojo(w) ==
    LET m == Head(a_master[w]) IN
    /\ Lee(w, "DESALOJO_QUERY")
    /\ a_master' = [a_master EXCEPT ![w] = Tail(@)]
    /\ disponible' = disponible \union ({w} \intersect ToSet(lista_workers_info))
    /\ sem_ejecutar_query' = sem_ejecutar_query + 1
    /\ \/ m.query \in ToSet(queries_exec) /\ Vuelve(m.query, m.pc)
       \/ /\ m.query \notin ToSet(queries_exec)
          /\ UNCHANGED <<query, queries_ready, queries_exec>>
    /\ UNCHANGED <<algoritmo, lista_workers_info, mutex_planificacion, hilo, a_worker, a_query>>

-----------------------------------------------------------------------------
(* A Worker that goes down: manejar_desconexion_worker                     *)

\* Its thread has read all there was. The Worker leaves the list.
Desconectar(w) ==
    /\ En(w, "libre") /\ w \in caido /\ a_master[w] = <<>> /\ MutexWorkersLibre
    /\ lista_workers_info' = RemoveFirst(lista_workers_info, w)
    /\ disponible' = disponible \ {w}
    /\ Pasa(w, "desconectar")
    /\ UNCHANGED <<algoritmo, query, queries_ready, queries_exec, mutex_planificacion,
                   sem_ejecutar_query, canales>>

\* Mutant: the query of the Worker that went down is told but stays in EXEC.
AvisarSinQuitar(q) ==
    /\ UNCHANGED <<queries_exec, query>>
    /\ a_query' = [a_query EXCEPT ![q].finales = Append(@, <<q, "ERROR_DESCONEXION_WORKER">>)]

\* The query that was on it ends.
FinalizarPorCaida(q) ==
    /\ queries_exec' = RemoveFirst(queries_exec, q)
    /\ query' = [query EXCEPT ![q].estado = "EXIT"]
    /\ a_query' = [a_query EXCEPT ![q].finales = Append(@, <<q, "ERROR_DESCONEXION_WORKER">>)]

FinalizarQueryDe(w) ==
    /\ En(w, "desconectar")
    /\ \/ EnWorker(w) # {} /\ FinalizarPorCaida(PrimeraEn(w))
       \/ EnWorker(w) = {} /\ UNCHANGED <<query, queries_exec, a_query>>
    /\ Pasa(w, "planificar")
    /\ UNCHANGED <<algoritmo, disponible, queries_ready, lista_workers_info, mutex_planificacion,
                   sem_ejecutar_query, a_worker, a_master>>

-----------------------------------------------------------------------------
InitMaster ==
    /\ algoritmo \in Algoritmos
    /\ query = [q \in Queries |-> Nueva]
    /\ disponible = {}
    /\ queries_ready = <<>> /\ queries_exec = <<>> /\ lista_workers_info = <<>>
    /\ mutex_planificacion = FALSE
    /\ sem_ejecutar_query = 0
    /\ hilo = [t \in Hilos |-> Afuera]

\* The steps a thread takes on its own.
Planificacion(t) ==
    \/ PlanificarFifo(t) \/ PlanificarPrioridades(t) \/ FinPlanificar(t) \/ Asignar(t)
    \/ PasarAExec(t) \/ Enviar(t) \/ FallarEnvio(t) \/ Soltar(t)
    \/ ElegirVictima(t) \/ NadieDesalojable(t) \/ Desalojar(t) \/ Relevar(t) \/ EnviarRelevo(t)

Lectura(w) ==
    \/ IniciarSemaforo(w) \/ RecibirLectura(w) \/ RecibirFin(w) \/ DescartarFin(w)
    \/ RecibirDesalojo(w) \/ Desconectar(w) \/ FinalizarQueryDe(w)

NextMaster ==
    \/ \E q \in Queries : Envejecer(q) \/ \E p \in Prioridades : ConectarQuery(q, p)
    \/ \E w \in Workers : ConectarWorker(w) \/ Lectura(w)
    \/ \E t \in Hilos : Planificacion(t)
=============================================================================
