------------------------------- MODULE Conexiones -------------------------------
(***************************************************************************)
(* The four programs and their connections, from the first packet to the   *)
(* last: who they are, what they ask for, what they are answered and what  *)
(* each one does when another one leaves. Clients that are neither a       *)
(* Worker nor a Query Control may connect to either server.                *)
(***************************************************************************)
EXTENDS ServidorMaster, ServidorStorage, QueryControl, ClienteWorker, FiniteSets

vars == <<enchufes, caidos, master, storage, control, worker>>

-----------------------------------------------------------------------------
(* connect and accept: the server starts a thread that waits for a greeting *)

Acepta(hilo, x) == [hilo EXCEPT ![x].paso = "saludo"]

ConectarQueryControl(q) ==
    /\ EnControl(q, "inicio")
    /\ IF "master" \in caidos
       THEN PasaControl(q, "rechazado") /\ UNCHANGED hilo_master
       ELSE PasaControl(q, "conectado") /\ hilo_master' = Acepta(hilo_master, q)
    /\ UNCHANGED <<enchufes, caidos, planes, storage, worker>>

ConectarWorkerAStorage(w) ==
    /\ EnWorker(w, "inicio")
    /\ IF "storage" \in caidos
       THEN Rechazado(w) /\ UNCHANGED <<a_servidor, a_cliente, hilo_storage>>
       ELSE /\ worker' = [worker EXCEPT ![w].paso = "storage"]
            /\ hilo_storage' = Acepta(hilo_storage, w)
            /\ UNCHANGED enchufes
    /\ UNCHANGED <<caidos, master, workers_conectados, worker_id_counter, control>>

ConectarWorkerAMaster(w) ==
    /\ EnWorker(w, "conectar_master")
    /\ IF "master" \in caidos
       THEN Rechazado(w) /\ UNCHANGED <<a_servidor, a_cliente, hilo_master>>
       ELSE /\ worker' = [worker EXCEPT ![w].paso = "master"]
            /\ hilo_master' = Acepta(hilo_master, w)
            /\ UNCHANGED enchufes
    /\ UNCHANGED <<caidos, planes, storage, control>>

\* A client that is neither says something that is not expected, or nothing.
Desconocido == Paquete("HANDSHAKE_MASTER", <<>>)

SinLlamar(x) == EnMaster(x, "sin_conectar") /\ EnStorage(x, "sin_conectar")

HayIncidentes ==
    Cardinality(caidos) + Cardinality({x \in Ajenos : ~SinLlamar(x)})
        + Cardinality({q \in QueryControls : control[q].cierre_local}) < MaxIncidentes

AjenoLlamaAlMaster(x) ==
    /\ HayIncidentes /\ SinLlamar(x) /\ "master" \notin caidos
    /\ hilo_master' = Acepta(hilo_master, x)
    /\ \E s \in {<<>>, Desconocido} : AlServidor(AMaster(x), s)
    /\ UNCHANGED <<a_cliente, cerrado, caidos, planes, storage, control, worker>>

AjenoLlamaAlStorage(x) ==
    /\ HayIncidentes /\ SinLlamar(x) /\ "storage" \notin caidos
    /\ hilo_storage' = Acepta(hilo_storage, x)
    /\ AlServidor(AStorage(x), Desconocido)
    /\ UNCHANGED <<a_cliente, cerrado, caidos, master, workers_conectados, worker_id_counter,
                   control, worker>>

AjenoCuelga(x) ==
    /\ ~SinLlamar(x) /\ cerrado[AMaster(x)] \union cerrado[AStorage(x)] = {}
    /\ Cerrar({AMaster(x), AStorage(x)}, "cliente")
    /\ UNCHANGED <<a_servidor, a_cliente, caidos, master, storage, control, worker>>

-----------------------------------------------------------------------------
(* The programs                                                            *)

HiloDelMaster(x)  == AtenderEnMaster(x) /\ UNCHANGED <<caidos, storage, control, worker>>
HiloDelStorage(x) == AtenderEnStorage(x) /\ UNCHANGED <<caidos, master, control, worker>>

ProgramaControl(q) ==
    \/ ConectarQueryControl(q)
    \/ Controlar(q) /\ UNCHANGED <<caidos, master, storage, worker>>

Enter(q) == HayIncidentes /\ PulsarEnter(q) /\ UNCHANGED <<caidos, master, storage, worker>>

\* The three threads of a Worker.
Principal(w) ==
    \/ ConectarWorkerAStorage(w) \/ ConectarWorkerAMaster(w)
    \/ Arrancar(w) /\ UNCHANGED <<caidos, master, storage, control>>

Listener(w)    == Oir(w) /\ UNCHANGED <<caidos, master, storage, control>>
HiloDeQuery(w) == EjecutarQuery(w) /\ UNCHANGED <<caidos, master, storage, control>>

\* A process goes down: the Worker when Enter is pressed, the servers by a signal.
Caer ==
    /\ HayIncidentes
    /\ \/ "master" \notin caidos /\ CaerMaster /\ UNCHANGED <<storage, control, worker>>
       \/ "storage" \notin caidos /\ CaerStorage /\ UNCHANGED <<master, control, worker>>
       \/ \E w \in Workers : CaerWorker(w) /\ UNCHANGED <<master, storage, control>>

Init == InitEnchufes /\ InitMaster /\ InitStorage /\ InitControl /\ InitWorker

Next ==
    \/ \E x \in Clientes : HiloDelMaster(x)
    \/ \E x \in Conectables : HiloDelStorage(x)
    \/ \E q \in QueryControls : ProgramaControl(q) \/ Enter(q)
    \/ \E w \in Workers : Principal(w) \/ Listener(w) \/ HiloDeQuery(w)
    \/ \E x \in Ajenos : AjenoLlamaAlMaster(x) \/ AjenoLlamaAlStorage(x) \/ AjenoCuelga(x)
    \/ Caer

Spec == Init /\ [][Next]_vars

\* Every thread that can go on does: those of the two servers, the Query
\* Controls and the three of each Worker. Nothing makes anybody press Enter,
\* go down, call or hang up.
Fairness ==
    /\ \A x \in Clientes : WF_vars(HiloDelMaster(x))
    /\ \A x \in Conectables : WF_vars(HiloDelStorage(x))
    /\ \A q \in QueryControls : WF_vars(ProgramaControl(q))
    /\ \A w \in Workers : WF_vars(Principal(w)) /\ WF_vars(Listener(w)) /\ WF_vars(HiloDeQuery(w))

FairSpec == Spec /\ Fairness

-----------------------------------------------------------------------------
(* Properties                                                              *)

\* Every variable keeps its shape, the semaphore of the answers never counts
\* more than the one request that is waiting, and the Storage counts the Workers
\* whose threads attend to operations (mutex_workers and workers_conectados).
TypeOK ==
    /\ cerrado \in [Enlaces -> SUBSET {"cliente", "servidor"}]
    /\ caidos \subseteq {"master", "storage"} \union Workers
    /\ disponible \subseteq Workers /\ queries_exec \in [Workers -> QueryControls \union {SinQuery}]
    /\ \A w \in Workers : worker[w].sem_respuesta_storage \in {0, 1}
    /\ workers_conectados =
        Cardinality({x \in Conectables : hilo_storage[x].paso \in {"espera", "payload", "despedir"}})

\* The operation that a line of a query asks for, from its words.
Pretende(linea, q) ==
    LET verbo == linea[1]
        f == linea[2][1]
        t == linea[2][2]
    IN  CASE verbo = "CREATE" -> [op |-> "CREATE_FILE", query_id |-> q, file |-> f, tag |-> t]
          [] verbo = "COMMIT" -> [op |-> "COMMIT_TAG", query_id |-> q, file |-> f, tag |-> t]
          [] verbo = "DELETE" -> [op |-> "REMOVE_TAG", query_id |-> q, file |-> f, tag |-> t]
          [] verbo = "TRUNCATE" ->
                [op |-> "TRUNCATE_FILE", query_id |-> q, file |-> f, tag |-> t, tamanio |-> linea[3]]
          [] verbo = "TAG" ->
                [op |-> "TAG_FILE", query_id |-> q, file_origen |-> f, tag_origen |-> t,
                 file_destino |-> linea[3][1], tag_destino |-> linea[3][2]]
          [] OTHER -> Nula

\* The pages that READ or WRITE goes through, from its words.
Abarca(linea) == linea[3] \div BlockSize .. (linea[3] + linea[4] - 1) \div BlockSize

\* While a Worker waits for the answer to an operation that the Storage has
\* carried out, what it carried out is what the line of the query says, after
\* two serialisations that do not share a line of code (worker/src/
\* serializacion.c, storage/src/deserializacion.c): the origin of a TAG is not
\* its destination, a page that READ or WRITE needs is one of those it touches.
Entendido ==
    \A w \in Workers :
        /\ worker[w].ejecuta = "respuesta" /\ worker[w].tarea # <<>>
        /\ hilo_storage[w].paso = "espera" /\ a_servidor[AStorage(w)] = <<>>
        => LET o == hilo_storage[w].operacion
               linea == Lineas(w)[worker[w].pc + 1]
           IN  \/ o = Pretende(linea, worker[w].query)
               \/ o.op = "WRITE_BLOCK" /\ <<o.file, o.tag, o.bloque>> \in Sucias
               \/ /\ linea[1] \in {"READ", "WRITE"}
                  /\ \E n \in Abarca(linea) :
                        o = [op |-> "READ_BLOCK", query_id |-> worker[w].query,
                             file |-> linea[2][1], tag |-> linea[2][2], bloque |-> n]

\* The answer a Worker reads is the answer to what it asked: nothing of one
\* operation stays in the socket for the next (the contents of a READ, the size
\* of an empty payload), however each of them ends.
PedidoYRespuesta ==
    \A w \in Workers :
        Ejecuta(w, "cuerpo") \/ Ejecuta(w, "semaforo") =>
            \/ worker[w].leido \in {RespuestaDe[PedidoEnCurso(w)], "ERROR_OPERACION"}
            \/ worker[w].leido = "error" /\ "servidor" \in cerrado[AStorage(w)]

\* The query thread reads its own answer before it waits on the semaphore, so
\* it finds it posted; only without a Storage does it wait for ever.
EsperaConMotivo ==
    \A w \in Workers :
        Ejecuta(w, "semaforo") /\ worker[w].sem_respuesta_storage = 0 =>
            "servidor" \in cerrado[AStorage(w)]

\* A Query Control says that the Master left only if it did: a query that ends,
\* whatever the reason, is never taken for a Master that went down, though the
\* final message and the end of the connection arrive together.
MotivoVeraz ==
    \A q \in QueryControls : control[q].dicho = "DESCONEXION DEL MASTER" => "master" \in caidos

\* A Query Control that the Master accepted hears how its query ended, unless
\* nobody can execute it: no Worker is connected or the Storage is down.
Enterado ==
    \A q \in QueryControls :
        EnControl(q, "escucha") ~>
            EnControl(q, "fin") \/ lista_workers_info = <<>> \/ "storage" \in caidos

\* Whoever connects to the Master and does not say who it is does not keep a
\* thread for ever: the handshake has a limit of ten seconds.
SaludoAtendido ==
    \A x \in Clientes : EnMaster(x, "saludo") ~> ~(EnMaster(x, "saludo") \/ EnMaster(x, "identificar"))

\* Whoever leaves is dismissed by the Storage: its thread ends and its socket
\* is closed, whatever it was in the middle of.
SeDespiden ==
    \A x \in Conectables :
        ~EnStorage(x, "sin_conectar") /\ "cliente" \in cerrado[AStorage(x)] ~>
            EnStorage(x, "fin") /\ "servidor" \in cerrado[AStorage(x)]
=============================================================================
