------------------------------ MODULE ServidorMaster ----------------------------
(***************************************************************************)
(* The Master as its clients see it: the thread of each connection, first  *)
(* in the handshake, with a limit of ten seconds (master/src/servidor.c),  *)
(* and then attending to a Query Control (hilo-query_control.c) or reading *)
(* a Worker's messages (hilo-worker.c). It plans in FIFO order, and each   *)
(* planning is one step: how planners interleave is in Master.             *)
(***************************************************************************)
EXTENDS Enchufes

CONSTANT SinQuery

ASSUME SinQueryAssumption == SinQuery \notin QueryControls

VARIABLES
    hilo_master,         \* the thread of every connection
    lista_workers_info,  \* the Workers connected
    disponible,          \* those that are free
    queries_ready,
    queries_exec,        \* the query of each Worker
    path                 \* the file of each query

master == <<hilo_master, lista_workers_info, disponible, queries_ready, queries_exec, path>>
planes == <<lista_workers_info, disponible, queries_ready, queries_exec, path>>

HiloMaster(paso) == [paso |-> paso, header |-> "ninguno"]

EnMaster(x, paso)   == hilo_master[x].paso = paso
PasaMaster(x, paso) == hilo_master' = [hilo_master EXCEPT ![x].paso = paso]

LeeMaster(x, paso) ==
    /\ hilo_master' = [hilo_master EXCEPT ![x].paso = paso,
                                          ![x].header = Header(a_servidor, AMaster(x))]
    /\ a_servidor' = Resto(a_servidor, AMaster(x))

-----------------------------------------------------------------------------
(* The handshake                                                           *)

\* Mutant: without the limit of ten seconds.
RecibirSaludoSinPlazo(x) ==
    LET h == Header(a_servidor, AMaster(x)) IN
    /\ EnMaster(x, "saludo") /\ Vuelve(a_servidor, AMaster(x), "cliente")
    /\ IF h \in {"HANDSHAKE_WORKER", "HANDSHAKE_QUERY_CONTROL"}
       THEN LeeMaster(x, "identificar") /\ UNCHANGED <<a_cliente, cerrado>>
       ELSE /\ LeeMaster(x, "fin")
            /\ Cerrar({AMaster(x)}, "servidor")
            /\ IF h = "error" THEN UNCHANGED a_cliente
               ELSE AlCliente(AMaster(x), RespuestaHandshakeDesconocido)
    /\ UNCHANGED planes

\* The client says what it is, says something else, closes, or lets the ten
\* seconds go by.
RecibirSaludo(x) ==
    LET h == Header(a_servidor, AMaster(x)) IN
    /\ EnMaster(x, "saludo")
    /\ IF h \in {"HANDSHAKE_WORKER", "HANDSHAKE_QUERY_CONTROL"}
       THEN LeeMaster(x, "identificar") /\ UNCHANGED <<a_cliente, cerrado>>
       ELSE /\ LeeMaster(x, "fin")
            /\ Cerrar({AMaster(x)}, "servidor")
            /\ IF h = "error" THEN UNCHANGED a_cliente
               ELSE AlCliente(AMaster(x), RespuestaHandshakeDesconocido)
    /\ UNCHANGED planes

Despachar(x) ==
    /\ a_servidor' = Resto(a_servidor, AMaster(x))
    /\ Cerrar({AMaster(x)}, "servidor")
    /\ PasaMaster(x, "fin")
    /\ UNCHANGED <<a_cliente, planes>>

Responder(x) ==
    /\ a_servidor' = Resto(a_servidor, AMaster(x))
    /\ AlCliente(AMaster(x), RespuestaHandshake)
    /\ PasaMaster(x, "agregar")
    /\ UNCHANGED cerrado

\* No payload, or an id that is negative: closed without an answer.
SaludarWorker(x) ==
    LET p == Payload(a_servidor, AMaster(x)) IN
    /\ EnMaster(x, "identificar") /\ hilo_master[x].header = "HANDSHAKE_WORKER"
    /\ IF p = <<>> \/ p[1] < 0 THEN Despachar(x) ELSE Responder(x) /\ UNCHANGED planes

SaludarQueryControl(x) ==
    LET p == Payload(a_servidor, AMaster(x)) IN
    /\ EnMaster(x, "identificar") /\ hilo_master[x].header = "HANDSHAKE_QUERY_CONTROL"
    /\ IF p = <<>> \/ p[2] < 0 THEN Despachar(x)
       ELSE /\ Responder(x)
            /\ path' = [path EXCEPT ![x] = p[1]]
            /\ UNCHANGED <<lista_workers_info, disponible, queries_ready, queries_exec>>

-----------------------------------------------------------------------------
(* The connections                                                         *)

AgregarWorker(x) ==
    /\ EnMaster(x, "agregar") /\ x \in Workers
    /\ lista_workers_info' = Append(lista_workers_info, x)
    /\ disponible' = disponible \union {x}
    /\ PasaMaster(x, "planificar")
    /\ UNCHANGED <<enchufes, queries_ready, queries_exec, path>>

AgregarQuery(x) ==
    /\ EnMaster(x, "agregar") /\ x \in QueryControls
    /\ queries_ready' = Append(queries_ready, x)
    /\ PasaMaster(x, "planificar")
    /\ UNCHANGED <<enchufes, lista_workers_info, disponible, queries_exec, path>>

\* The positions of the Workers that are free.
Libres == {k \in DOMAIN lista_workers_info : lista_workers_info[k] \in disponible}

\* Where the thread goes on: to its socket, while it has one.
Vuelta(x) ==
    IF x \in QueryControls THEN "mirar"
    ELSE IF Contains(lista_workers_info, x) THEN "espera" ELSE "fin"

\* The first query of READY goes to the first Worker that is free.
PlanificarFifo(x) ==
    /\ EnMaster(x, "planificar") /\ PasaMaster(x, Vuelta(x))
    /\ IF queries_ready = <<>> \/ Libres = {}
       THEN UNCHANGED <<a_cliente, disponible, queries_ready, queries_exec>>
       ELSE LET q == Head(queries_ready)
                w == lista_workers_info[Min(Libres)]
            IN  /\ queries_ready' = Tail(queries_ready)
                /\ disponible' = disponible \ {w}
                /\ queries_exec' = [queries_exec EXCEPT ![w] = q]
                /\ AlCliente(AMaster(w), ComandoEjecutar(q, path[q], 0))
    /\ UNCHANGED <<a_servidor, cerrado, lista_workers_info, path>>

RecibirDeWorker(x) ==
    /\ EnMaster(x, "espera") /\ Vuelve(a_servidor, AMaster(x), "cliente")
    /\ LeeMaster(x, IF Header(a_servidor, AMaster(x)) = "error" THEN "despedir" ELSE "mensaje")
    /\ UNCHANGED <<a_cliente, cerrado, planes>>

LeeMensaje(x, header) ==
    /\ EnMaster(x, "mensaje") /\ hilo_master[x].header = header
    /\ Vuelve(a_servidor, AMaster(x), "cliente")
    /\ a_servidor' = Resto(a_servidor, AMaster(x))

\* The reading goes to the Query Control of the query on that Worker, if any.
ProcesarLectura(x) ==
    LET p == Payload(a_servidor, AMaster(x))
        q == queries_exec[x]
    IN
    /\ LeeMensaje(x, "LECTURA_REALIZADA")
    /\ IF q = SinQuery THEN UNCHANGED a_cliente
       ELSE AlCliente(AMaster(q), MensajeLecturaQC(p[1], p[2], p[3]))
    /\ PasaMaster(x, "espera")
    /\ UNCHANGED <<cerrado, planes>>

\* The query of a Worker leaves EXEC, and its Query Control is told and closed.
Finalizar(x, motivo) ==
    LET q == queries_exec[x] IN
    /\ AlCliente(AMaster(q), MensajeFinalizacion(motivo))
    /\ Cerrar({AMaster(q)}, "servidor")
    /\ queries_exec' = [queries_exec EXCEPT ![x] = SinQuery]

\* Of no query: the message is dropped, and nobody plans.
ProcesarFin(x) ==
    /\ LeeMensaje(x, "QUERY_FINALIZADA")
    /\ IF queries_exec[x] = SinQuery
       THEN PasaMaster(x, "espera") /\ UNCHANGED <<a_cliente, cerrado, disponible, queries_exec>>
       ELSE /\ Finalizar(x, Payload(a_servidor, AMaster(x))[2])
            /\ disponible' = disponible \union {x}
            /\ PasaMaster(x, "planificar")
    /\ UNCHANGED <<lista_workers_info, queries_ready, path>>

\* The Worker is gone. Its socket is never closed.
DesconectarWorker(x) ==
    /\ EnMaster(x, "despedir")
    /\ lista_workers_info' = RemoveFirst(lista_workers_info, x)
    /\ disponible' = disponible \ {x}
    /\ IF queries_exec[x] = SinQuery THEN UNCHANGED <<a_cliente, cerrado, queries_exec>>
       ELSE Finalizar(x, "ERROR_DESCONEXION_WORKER")
    /\ PasaMaster(x, "planificar")
    /\ UNCHANGED <<a_servidor, queries_ready, path>>

\* The thread of a Query Control looks at its socket until the Master closes it
\* (header < 0 never holds: when the Query Control leaves, the thread goes round).
DejarDeMirar(x) ==
    /\ EnMaster(x, "mirar") /\ "servidor" \in cerrado[AMaster(x)]
    /\ PasaMaster(x, "fin")
    /\ UNCHANGED <<enchufes, planes>>

\* The process ends, and its sockets with it.
CaerMaster ==
    /\ caidos' = caidos \union {"master"}
    /\ hilo_master' = [x \in Clientes |->
            IF EnMaster(x, "sin_conectar") THEN hilo_master[x] ELSE HiloMaster("fin")]
    /\ lista_workers_info' = <<>> /\ disponible' = {} /\ queries_ready' = <<>>
    /\ queries_exec' = [w \in Workers |-> SinQuery]
    /\ Cerrar({AMaster(x) : x \in {y \in Clientes : ~EnMaster(y, "sin_conectar")}}, "servidor")
    /\ UNCHANGED <<a_servidor, a_cliente, path>>

InitMaster ==
    /\ hilo_master = [x \in Clientes |-> HiloMaster("sin_conectar")]
    /\ lista_workers_info = <<>> /\ disponible = {} /\ queries_ready = <<>>
    /\ queries_exec = [w \in Workers |-> SinQuery]
    /\ path = [q \in QueryControls |-> "ninguno"]

AtenderEnMaster(x) ==
    \/ RecibirSaludo(x) \/ SaludarWorker(x) \/ SaludarQueryControl(x)
    \/ AgregarWorker(x) \/ AgregarQuery(x) \/ PlanificarFifo(x)
    \/ RecibirDeWorker(x) \/ ProcesarLectura(x) \/ ProcesarFin(x) \/ DesconectarWorker(x)
    \/ DejarDeMirar(x)
=============================================================================
