----------------------------- MODULE ServidorStorage ----------------------------
(***************************************************************************)
(* The Storage as its clients see it: the thread of each connection, first *)
(* in the handshake (storage/src/servidor.c) and then taking operations    *)
(* and answering them (storage/src/hilo-worker.c, operaciones.c). What the *)
(* operations do to the disk is in StorageFS; here they go well or not.    *)
(***************************************************************************)
EXTENDS Enchufes

CONSTANT BlockSize

ASSUME StorageAssumption == BlockSize \in Nat \ {0}

VARIABLES
    hilo_storage,        \* the thread of every connection
    workers_conectados,
    worker_id_counter

storage == <<hilo_storage, workers_conectados, worker_id_counter>>

Conectables == Workers \union Ajenos

\* header: the last one read. operacion: the last one carried out.
HiloStorage(paso) == [paso |-> paso, header |-> "ninguno", id |-> 0, operacion |-> Nula]

EnStorage(x, paso)   == hilo_storage[x].paso = paso
PasaStorage(x, paso) == hilo_storage' = [hilo_storage EXCEPT ![x].paso = paso]

LeeStorage(x, paso) ==
    /\ Vuelve(a_servidor, AStorage(x), "cliente")
    /\ hilo_storage' = [hilo_storage EXCEPT ![x].paso = paso,
                                            ![x].header = Header(a_servidor, AStorage(x))]
    /\ a_servidor' = Resto(a_servidor, AStorage(x))

\* There is no limit to how long a client may take to say who it is.
RecibirSaludoStorage(x) ==
    /\ EnStorage(x, "saludo") /\ LeeStorage(x, "identificar")
    /\ UNCHANGED <<a_cliente, cerrado, workers_conectados, worker_id_counter>>

\* Anything but a Worker: its payload, if any, is read and thrown away.
RechazarCliente(x) ==
    /\ EnStorage(x, "identificar") /\ hilo_storage[x].header # "HANDSHAKE_WORKER"
    /\ Vuelve(a_servidor, AStorage(x), "cliente")
    /\ a_servidor' = Resto(a_servidor, AStorage(x))
    /\ AlCliente(AStorage(x), RespuestaHandshakeDesconocido)
    /\ Cerrar({AStorage(x)}, "servidor")
    /\ PasaStorage(x, "fin")
    /\ UNCHANGED <<workers_conectados, worker_id_counter>>

\* A Worker without an id, or with one that is not positive, is given one.
IdentificarWorker(x) ==
    LET p == Payload(a_servidor, AStorage(x))
        sin_id == p = <<>> \/ p[1] <= 0
    IN
    /\ EnStorage(x, "identificar") /\ hilo_storage[x].header = "HANDSHAKE_WORKER"
    /\ Vuelve(a_servidor, AStorage(x), "cliente")
    /\ a_servidor' = Resto(a_servidor, AStorage(x))
    /\ worker_id_counter' = IF sin_id THEN worker_id_counter + 1 ELSE worker_id_counter
    /\ hilo_storage' = [hilo_storage EXCEPT ![x].paso = "contar",
                                            ![x].id = IF sin_id THEN worker_id_counter ELSE p[1]]
    /\ AlCliente(AStorage(x), RespuestaHandshakeStorage(BlockSize))
    /\ UNCHANGED <<cerrado, workers_conectados>>

ContarWorker(x) ==
    /\ EnStorage(x, "contar")
    /\ workers_conectados' = workers_conectados + 1
    /\ PasaStorage(x, "espera")
    /\ UNCHANGED <<enchufes, worker_id_counter>>

\* An error is not told from a header here: its payload is NULL.
RecibirOperacion(x) ==
    /\ EnStorage(x, "espera") /\ LeeStorage(x, "payload")
    /\ UNCHANGED <<a_cliente, cerrado, workers_conectados, worker_id_counter>>

\* The contents of a block of a File:Tag.
Contenido(f, t, n) == <<f, t, n>>

\* The two answers an operation may have; a handshake here has none.
Respuestas(o) ==
    IF o.op = "HANDSHAKE_WORKER" THEN {<<>>}
    ELSE {ErrorOperacion("ERROR"),
          IF o.op = "READ_BLOCK" THEN RespuestaRead(Contenido(o.file, o.tag, o.bloque), BlockSize)
          ELSE Paquete(RespuestaDe[o.op], <<>>)}

\* Mutant: a refused operation is not answered.
OperarSinNegar(x) ==
    LET p == Payload(a_servidor, AStorage(x))
        o == IF p = <<>> THEN Nula ELSE Deserializar(hilo_storage[x].header, p)
    IN
    /\ EnStorage(x, "payload") /\ Vuelve(a_servidor, AStorage(x), "cliente")
    /\ a_servidor' = Resto(a_servidor, AStorage(x))
    /\ IF o = Nula
       THEN PasaStorage(x, "despedir") /\ UNCHANGED a_cliente
       ELSE /\ hilo_storage' = [hilo_storage EXCEPT ![x].paso = "espera", ![x].operacion = o]
            /\ \E r \in (Respuestas(o) \ {ErrorOperacion("ERROR")}) \union {<<>>} :
                    AlCliente(AStorage(x), r)
    /\ UNCHANGED <<cerrado, workers_conectados, worker_id_counter>>

\* Mutant: without a payload it goes on to the next operation.
OperarSinCortar(x) ==
    LET p == Payload(a_servidor, AStorage(x))
        o == IF p = <<>> THEN Nula ELSE Deserializar(hilo_storage[x].header, p)
    IN
    /\ EnStorage(x, "payload") /\ Vuelve(a_servidor, AStorage(x), "cliente")
    /\ a_servidor' = Resto(a_servidor, AStorage(x))
    /\ IF o = Nula
       THEN PasaStorage(x, "espera") /\ UNCHANGED a_cliente
       ELSE /\ hilo_storage' = [hilo_storage EXCEPT ![x].paso = "espera", ![x].operacion = o]
            /\ \E r \in Respuestas(o) : AlCliente(AStorage(x), r)
    /\ UNCHANGED <<cerrado, workers_conectados, worker_id_counter>>

\* Without a payload, or with a header it does not know, the thread gives up.
Operar(x) ==
    LET p == Payload(a_servidor, AStorage(x))
        o == IF p = <<>> THEN Nula ELSE Deserializar(hilo_storage[x].header, p)
    IN
    /\ EnStorage(x, "payload") /\ Vuelve(a_servidor, AStorage(x), "cliente")
    /\ a_servidor' = Resto(a_servidor, AStorage(x))
    /\ IF o = Nula
       THEN PasaStorage(x, "despedir") /\ UNCHANGED a_cliente
       ELSE /\ hilo_storage' = [hilo_storage EXCEPT ![x].paso = "espera", ![x].operacion = o]
            /\ \E r \in Respuestas(o) : AlCliente(AStorage(x), r)
    /\ UNCHANGED <<cerrado, workers_conectados, worker_id_counter>>

\* Mutant: the Worker that leaves is still counted.
DespedirWorkerSinRestar(x) ==
    /\ EnStorage(x, "despedir")
    /\ Cerrar({AStorage(x)}, "servidor")
    /\ PasaStorage(x, "fin")
    /\ UNCHANGED <<a_servidor, a_cliente, workers_conectados, worker_id_counter>>

DespedirWorker(x) ==
    /\ EnStorage(x, "despedir")
    /\ workers_conectados' = workers_conectados - 1
    /\ Cerrar({AStorage(x)}, "servidor")
    /\ PasaStorage(x, "fin")
    /\ UNCHANGED <<a_servidor, a_cliente, worker_id_counter>>

\* The process ends, and its sockets with it. It reads each request before it
\* answers, so nothing it sent is lost.
CaerStorage ==
    /\ caidos' = caidos \union {"storage"}
    /\ hilo_storage' = [x \in Conectables |->
            IF EnStorage(x, "sin_conectar") THEN hilo_storage[x] ELSE HiloStorage("fin")]
    /\ workers_conectados' = 0
    /\ Cerrar({AStorage(x) : x \in {y \in Conectables : ~EnStorage(y, "sin_conectar")}}, "servidor")
    /\ UNCHANGED <<a_servidor, a_cliente, worker_id_counter>>

InitStorage ==
    /\ hilo_storage = [x \in Conectables |-> HiloStorage("sin_conectar")]
    /\ workers_conectados = 0 /\ worker_id_counter = 1

AtenderEnStorage(x) ==
    \/ RecibirSaludoStorage(x) \/ RechazarCliente(x) \/ IdentificarWorker(x) \/ ContarWorker(x)
    \/ RecibirOperacion(x) \/ Operar(x) \/ DespedirWorker(x)
=============================================================================
