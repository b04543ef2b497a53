----------------------------- MODULE CerrojosMaster ----------------------------
(***************************************************************************)
(* The functions of the Master as the mutexes they take, in the order they *)
(* take them (master/src/hilo-query_control.c and hilo-worker.c), for the  *)
(* module Cerrojos. What a function does when no mutex is taken in between *)
(* is a function of its own, and a search of a list looks at one element:  *)
(* each one it looks at has its mutex taken and let go before the next.    *)
(* The waits on sem_ejecutar_query are in Sistema.                         *)
(***************************************************************************)
EXTENDS PasosDeCerrojo

CONSTANTS
    Queries,  \* each t_query has a mutex
    Workers   \* and so does each t_worker

\* A search of the list.
Buscar(lista, X) == {Con(lista, Con(x, <<>>)) : x \in X}

ObtenerWorker == Buscar("workers_info", Workers)
MarcarWorker == Buscar("workers_info", Workers)
ObtenerSocket == Con("workers_info", <<>>)

Luego(S, T) == {s \o t : s \in S, t \in T}
Nombrar(nombre, S) == {Funcion(nombre, s) : s \in S}

\* The query goes from READY to EXEC.
AExec(q) == Con("queries_exec", Con(q, <<>>))

\* manejar_fallo_envio_worker up to where it calls the planner, or without it
\* when the query was not in EXEC any more.
VolverAReady(q) ==
    Luego({Con("queries_exec", <<>>) \o Con("queries_ready", Con(q, <<>>))}, MarcarWorker)
YaNoEstaba == Luego({Con("queries_exec", <<>>)}, MarcarWorker)

-----------------------------------------------------------------------------
(* planificar_queries_fifo                                                 *)

FifoSinNada ==
    {Con("planificacion", Con("queries_ready", <<>>))}
    \union {<<Tomar("planificacion"), Tomar("queries_ready")>> \o s
              \o <<Soltar("planificacion"), Soltar("queries_ready")>> : s \in ObtenerWorker}

\* Up to where EJECUTAR_QUERY is sent.
FifoHastaEnviar(q) ==
    {<<Tomar("planificacion")>> \o Con("queries_ready", s) \o AExec(q) \o ObtenerSocket :
        s \in ObtenerWorker}

Soltada == {<<Soltar("planificacion")>>}

FifoEnviando ==
    UNION {Luego(FifoHastaEnviar(q), Soltada) \union Luego(FifoHastaEnviar(q), Luego(YaNoEstaba, Soltada)) :
              q \in Queries}

\* The send fails and the planner is called again with the mutex taken.
FifoFallando ==
    UNION {Luego(FifoHastaEnviar(q), Luego(VolverAReady(q), Luego(FifoSinNada, Soltada))) : q \in Queries}

-----------------------------------------------------------------------------
(* planificar_queries_prioridades, with one Worker: one round              *)

ContarWorkers == <<Tomar("planificacion")>> \o Con("workers_info", <<>>)

\* A round with no query in READY; one that looks for a Worker in vain and for
\* a victim among the queries of EXEC.
PrioridadesSinNada ==
    {ContarWorkers \o Con("queries_ready", <<>>) \o <<Soltar("planificacion")>>}
    \union {ContarWorkers \o Con("queries_ready", s \o Con(q, <<>>) \o e) \o <<Soltar("planificacion")>> :
              s \in ObtenerWorker, q \in Queries, e \in Buscar("queries_exec", Queries)}

PrioridadesHastaEnviar(q) ==
    {ContarWorkers \o Con("queries_ready", s \o Con(q, <<>>)) \o AExec(q) \o ObtenerSocket :
        s \in ObtenerWorker}

\* After it the mutex is let go twice.
SoltadaDosVeces == {<<Soltar("planificacion"), Soltar("planificacion")>>}

\* DESALOJAR_QUERY is sent to v, or to nobody.
AvisarDesalojo(v) ==
    LET buscar == Con("queries_exec", Con(v, <<>>)) IN {buscar, buscar \o Con(v, ObtenerSocket)}

\* A victim is found, and then q takes its Worker.
DesalojarHastaEnviar(q, v) ==
    Luego({ContarWorkers \o Con("queries_ready", s \o Con(q, <<>>) \o Con("queries_exec", Con(v, <<>>)))
             \o Con(q, <<>>) : s \in ObtenerWorker},
          Luego(AvisarDesalojo(v),
                {Con("queries_exec", <<>>) \o m \o ObtenerSocket : m \in MarcarWorker}))

Desalojando == UNION {DesalojarHastaEnviar(x[1], x[2]) : x \in {y \in Queries \X Queries : y[1] # y[2]}}

PrioridadesEnviando ==
    Luego(Desalojando, Soltada)
    \union UNION {Luego(PrioridadesHastaEnviar(q), SoltadaDosVeces)
                    \union Luego(PrioridadesHastaEnviar(q), Luego(YaNoEstaba, SoltadaDosVeces)) :
                    q \in Queries}

PrioridadesFallando ==
    UNION {Luego(PrioridadesHastaEnviar(q),
                 Luego(VolverAReady(q), Luego(PrioridadesSinNada, SoltadaDosVeces))) : q \in Queries}

-----------------------------------------------------------------------------
(* The threads of the Query Controls and those of the Workers              *)

\* Aging looks at t_query alone.
ConectarQuery == {Con("workers_info", <<>>), Con("queries_ready", <<>>)}
AplicarAging == {Con(q, <<>>) : q \in Queries}
ConectarWorker == {Con("workers_info", <<>>), Con("workers", <<>>)}
BuscarPorWorker == Buscar("queries_exec", Queries)

\* Mutant: the query's mutex before that of its list.
QueryFinalizadaAlReves ==
    UNION {{Con("workers", Con(q, Con("queries_exec", m))) : m \in MarcarWorker} : q \in Queries}

\* procesar_query_finalizada, from the search of the query to its removal.
QueryFinalizada ==
    UNION {{Con("workers", Con("queries_exec", Con(q, m))) : m \in MarcarWorker} : q \in Queries}

\* procesar_desalojo_completado takes the query's mutex before those of the lists.
DesalojoCompletado ==
    UNION {{<<Tomar(q)>> \o Con("queries_exec", <<>>) \o <<Tomar("queries_ready"), Soltar(q),
            Soltar("queries_ready")>> \o m : m \in MarcarWorker} : q \in Queries}

\* manejar_desconexion_worker keeps mutex_workers all along.
DesconexionWorker ==
    {Con("workers", Con("workers_info", <<>>) \o Con("queries_exec", <<>>))}
    \union {Con("workers", Con("workers_info", <<>>) \o Con("queries_exec", Con(q, <<>>))
                             \o Con(q, <<>>) \o Con(q, <<>>)) : q \in Queries}

Atencion ==
    Nombrar("atender_query_control", ConectarQuery \union AplicarAging)
    \union Nombrar("atender_worker", ConectarWorker \union BuscarPorWorker)
    \union Nombrar("procesar_query_finalizada", QueryFinalizada)
    \union Nombrar("manejar_desconexion_worker", DesconexionWorker)

FuncionesFifo ==
    Atencion \union Nombrar("planificar_queries", FifoSinNada \union FifoEnviando)
    \union Nombrar("manejar_fallo_envio_worker", FifoFallando)

FuncionesPrioridades ==
    Atencion \union Nombrar("planificar_queries", PrioridadesSinNada \union PrioridadesEnviando)
    \union Nombrar("manejar_fallo_envio_worker", PrioridadesFallando)
    \union Nombrar("procesar_desalojo_completado", DesalojoCompletado)
=============================================================================
