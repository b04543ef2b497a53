-------------------------------- MODULE Sistema --------------------------------
(***************************************************************************)
(* The Master and its Workers, and what the Query Controls get from them.  *)
(***************************************************************************)
EXTENDS Master, WorkerControl

vars == <<master, control, canales, enchufes>>

Init == InitCanales /\ InitMaster /\ InitControl

\* Somebody stops a Worker that is connected.
CaerConectado(w) == ~En(w, "fuera") /\ Caer(w) /\ UNCHANGED master

\* And starts it again, once the Master has done with the old connection.
Rearrancar(w) ==
    /\ w \in caido /\ En(w, "fuera")
    /\ caido' = caido \ {w}
    /\ UNCHANGED <<master, control, canales, caidas>>

Next ==
    \/ NextMaster /\ UNCHANGED <<control, enchufes>>
    \/ NextControl /\ UNCHANGED <<master, enchufes>>
    \/ \E w \in Workers : CaerConectado(w) \/ Rearrancar(w)

\* Every thread goes on: the planners of the Master, the readers of its
\* sockets, and the listeners and query threads of the Workers. Nobody has to
\* connect, and no query has to age.
Fairness ==
    /\ \A t \in Hilos : WF_vars(Planificacion(t) /\ UNCHANGED <<control, enchufes>>)
    /\ \A w \in Workers :
          /\ WF_vars(Lectura(w) /\ UNCHANGED <<control, enchufes>>)
          /\ WF_vars(Escuchar(w) /\ UNCHANGED <<master, enchufes>>)
          /\ \A q \in Queries : WF_vars(Ejecutar(w, q) /\ UNCHANGED <<master, enchufes>>)

Spec == Init /\ [][Next]_vars /\ Fairness

-----------------------------------------------------------------------------
\* The values every variable can take.
TypeOK ==
    /\ algoritmo \in Algoritmos
    /\ query \in [Queries -> Query]
    /\ disponible \subseteq Workers
    /\ queries_ready \in Seq(Queries) /\ queries_exec \in Seq(Queries)
    /\ lista_workers_info \in Seq(Workers)
    /\ mutex_planificacion \in BOOLEAN
    /\ sem_ejecutar_query \in Nat
    /\ hilo \in [Hilos -> Hilo]
    /\ ejecuciones \in [Workers -> SUBSET Ejecucion]
    /\ query_en_ejecucion \in [Workers -> BOOLEAN]
    /\ query_desalojada \in [Workers -> BOOLEAN]
    /\ pc_actual \in [Workers -> 0 .. Lineas]
    /\ sem_desalojo \in [Workers -> Nat]
    /\ escucha \in [Workers -> Escucha]
    /\ avance \in [Queries -> Avance]
    /\ a_worker \in [Workers -> Seq(HaciaWorker)]
    /\ a_master \in [Workers -> Seq(HaciaMaster)]
    /\ a_query \in [Queries -> HaciaQuery]
    /\ caido \subseteq Workers /\ caidas \in 0 .. MaxCaidas

\* The query that a planner has taken from READY and not put in EXEC yet.
Lleva(h) == IF h.paso \in {"asignar", "desalojar", "esperar"} THEN h.query ELSE SinQuery

\* Everywhere a query is: its places in READY and in EXEC, and the planners
\* that carry it.
Lugares(q) ==
    ({"READY"} \X {k \in DOMAIN queries_ready : queries_ready[k] = q})
    \union ({"EXEC"} \X {k \in DOMAIN queries_exec : queries_exec[k] = q})
    \union ({"planificador"} \X {t \in Hilos : Lleva(hilo[t]) = q})

\* A query that is neither new nor finished is in READY once, in EXEC once, or
\* in the hands of one planner that is placing it: never in two places
\* and never nowhere.
EnUnLugar ==
    \A q \in Queries :
        IF query[q].estado \in {"NUEVA", "EXIT"} THEN Lugares(q) = {}
        ELSE \E lugar \in Lugares(q) : Lugares(q) = {lugar}

\* Two queries of EXEC are never on the same Worker.
UnaPorWorker ==
    \A j, k \in DOMAIN queries_exec :
        query[queries_exec[j]].worker = query[queries_exec[k]].worker => j = k

Cuantos(canal, tipo) == Cardinality({k \in DOMAIN canal : canal[k].tipo = tipo})

\* Evictions asked for and not yet answered, wherever they are, of w and of all
\* the Workers.
PedidosDe(w) ==
    Cuantos(a_worker[w], "DESALOJAR_QUERY") + Cuantos(a_master[w], "DESALOJO_QUERY")
    + (IF escucha[w].paso = "espera" THEN 1 ELSE 0)
Pedidos == UNION {{w} \X (1 .. PedidosDe(w)) : w \in Workers}

\* Every answer lets one planner go on and there is a planner waiting for it:
\* none ever takes a Worker without an eviction that somebody asked for.
UnRelevoPorDesalojo ==
    sem_ejecutar_query + Cardinality(Pedidos) <= Cardinality({t \in Hilos : En(t, "esperar")})

\* A query of EXEC is on a Worker of the list, or somebody is going to take it
\* out: the planner that cannot send it, or the thread that sees its Worker gone.
NadieVarado ==
    \A k \in DOMAIN queries_exec :
        LET q == queries_exec[k]
            w == query[q].worker
        IN  \/ w \in ToSet(lista_workers_info)
            \/ \E t \in Hilos : hilo[t].query = q /\ hilo[t].paso \in {"enviar", "enviar_relevo"}
            \/ w # SinWorker /\ En(w, "desconectar")

\* However many times a query is evicted, and wherever it goes on, no
\* instruction is executed twice and none is passed over.
SinRepetirNiSaltar ==
    [][\A q \in Queries : avance'[q].hechas \in {avance[q].hechas, avance[q].hechas + 1}]_vars

S == INSTANCE Servicio

\* Instructions, readings and final messages are those of Servicio.
ImplementaServicio == S!Spec

\* Once there is a Worker the query gets its final message, unless some Worker
\* goes down.
EsAtendida(q) ==
    (query[q].estado # "NUEVA" /\ lista_workers_info # <<>>)
        ~> (a_query[q].finales # <<>> \/ caidas > 0)

\* Every query whose file ends with END is attended to. With PRIORIDADES it is
\* not so: a planner may wait for an eviction that nobody was asked for.
Terminan == \A q \in Queries \ SinEnd : EsAtendida(q)
=============================================================================
