------------------------------ MODULE ClienteWorker -----------------------------
(***************************************************************************)
(* A Worker as the others see it: it greets the Storage and then the       *)
(* Master (worker/src/worker.c, hilo-storage.c, hilo-master.c), it listens *)
(* to the Master, and its query thread asks the Storage for what each      *)
(* instruction needs, one request at a time, and waits on                  *)
(* sem_respuesta_storage for the answer that it has just read itself       *)
(* (query_intepreter.c, tabla_de_paginas.c). Evictions are in              *)
(* WorkerControl, and what is in the memory, in MemoriaWorker: here any    *)
(* page may be missing and any may have to be written.                     *)
(***************************************************************************)
EXTENDS Enchufes, FiniteSetsExt

CONSTANTS
    Ids,     \* workload: the ids they are started with
    Sucias   \* bound: the pages that may be dirty, <<File, Tag, page>>

ASSUME IdsAssumption == Ids \subseteq Int
ASSUME SuciasAssumption ==
    IsFiniteSet(Sucias) /\ \A v \in Sucias : v = <<v[1], v[2], v[3]>>

\* A line that has all the words of its verb: FILE:TAG with its colon, an address
\* and a size. Lines with words missing are left out.
Completa(linea) ==
    LET verbo == linea[1] IN
    /\ verbo \in {"CREATE", "COMMIT", "FLUSH", "DELETE", "TRUNCATE", "WRITE", "READ", "TAG"} =>
            Len(linea[2]) >= 2
    /\ verbo = "TAG" => Len(linea[3]) >= 2
    /\ verbo \in {"READ", "WRITE"} => linea[3] \in Nat /\ linea[4] \in Nat

ASSUME ArchivosAssumption ==
    \A a \in DOMAIN Archivos :
        /\ Archivos[a] \in Seq(ToSet(Archivos[a]))
        /\ \A k \in DOMAIN Archivos[a] : Completa(Archivos[a][k])

VARIABLE worker

\* paso: the main thread and then the listener. ejecuta: the query thread.
\* tarea: what is left of the instruction. paginas: those an access has not come
\* to yet. leido: the header of the answer.
WorkerInicial(id) ==
    [paso |-> "inicio", id |-> id, header |-> "ninguno", tamanio_bloque |-> 0,
     espera |-> <<>>, ejecuta |-> "libre", query |-> "ninguna", archivo |-> "ninguno", pc |-> 0,
     tarea |-> <<>>, paginas |-> <<>>, leido |-> "ninguno", sem_respuesta_storage |-> 0,
     query_en_ejecucion |-> FALSE]

EnWorker(w, paso) == worker[w].paso = paso
Ejecuta(w, paso)  == worker[w].ejecuta = paso

DelMaster(w)  == Vuelve(a_cliente, AMaster(w), "servidor")
DelStorage(w) == Vuelve(a_cliente, AStorage(w), "servidor")

-----------------------------------------------------------------------------
(* Start-up                                                                *)

SaludarStorage(w) ==
    /\ EnWorker(w, "storage")
    /\ AlServidor(AStorage(w), HandshakeWorker(worker[w].id))
    /\ worker' = [worker EXCEPT ![w].paso = "ok_storage"]
    /\ UNCHANGED <<a_cliente, cerrado>>

\* It exits, and its sockets are closed.
Rechazado(w) ==
    /\ worker' = [worker EXCEPT ![w].paso = "rechazado"]
    /\ Cerrar({AMaster(w), AStorage(w)}, "cliente")

RecibirOkStorage(w) ==
    /\ EnWorker(w, "ok_storage") /\ DelStorage(w)
    /\ a_cliente' = Resto(a_cliente, AStorage(w))
    /\ IF Header(a_cliente, AStorage(w)) = "HANDSHAKE_OK"
       THEN worker' = [worker EXCEPT ![w].paso = "bloque"] /\ UNCHANGED cerrado
       ELSE Rechazado(w)
    /\ UNCHANGED a_servidor

RecibirTamanioBloque(w) ==
    /\ EnWorker(w, "bloque") /\ Payload(a_cliente, AStorage(w)) # <<>>
    /\ a_cliente' = Resto(a_cliente, AStorage(w))
    /\ worker' = [worker EXCEPT ![w].paso = "conectar_master",
                                ![w].tamanio_bloque = Payload(a_cliente, AStorage(w))[1]]
    /\ UNCHANGED <<a_servidor, cerrado>>

SaludarMaster(w) ==
    /\ EnWorker(w, "master")
    /\ AlServidor(AMaster(w), HandshakeWorker(worker[w].id))
    /\ worker' = [worker EXCEPT ![w].paso = "ok_master"]
    /\ UNCHANGED <<a_cliente, cerrado>>

RecibirOkMaster(w) ==
    /\ EnWorker(w, "ok_master") /\ DelMaster(w)
    /\ a_cliente' = Resto(a_cliente, AMaster(w))
    /\ IF Header(a_cliente, AMaster(w)) = "HANDSHAKE_OK"
       THEN worker' = [worker EXCEPT ![w].paso = "payload_ok"] /\ UNCHANGED cerrado
       ELSE Rechazado(w)
    /\ UNCHANGED a_servidor

\* The size of that answer is read, and the listener starts.
RecibirPayloadOk(w) ==
    /\ EnWorker(w, "payload_ok") /\ DelMaster(w)
    /\ a_cliente' = Resto(a_cliente, AMaster(w))
    /\ worker' = [worker EXCEPT ![w].paso = "escucha"]
    /\ UNCHANGED <<a_servidor, cerrado>>

-----------------------------------------------------------------------------
(* The listener                                                            *)

\* When the Master is lost, header < 0 does not hold and the listener goes round.
EscucharMaster(w) ==
    /\ EnWorker(w, "escucha") /\ DelMaster(w)
    /\ a_cliente' = Resto(a_cliente, AMaster(w))
    /\ worker' = [worker EXCEPT ![w].paso = "payload", ![w].header = Header(a_cliente, AMaster(w))]
    /\ UNCHANGED <<a_servidor, cerrado>>

\* EJECUTAR_QUERY starts a thread; the payload of anything else is dropped.
AtenderMaster(w) ==
    LET p == Payload(a_cliente, AMaster(w)) IN
    /\ EnWorker(w, "payload") /\ DelMaster(w)
    /\ a_cliente' = Resto(a_cliente, AMaster(w))
    /\ worker' = [worker EXCEPT ![w].paso = "escucha",
                                ![w].espera = IF worker[w].header = "EJECUTAR_QUERY" /\ p # <<>>
                                              THEN Append(@, p) ELSE @]
    /\ UNCHANGED <<a_servidor, cerrado>>

-----------------------------------------------------------------------------
(* The query thread                                                        *)

\* It takes mutex_ejecucion_query and opens the file; if it cannot, it ends.
Comenzar(w) ==
    LET e == Head(worker[w].espera) IN
    /\ Ejecuta(w, "libre") /\ worker[w].espera # <<>>
    /\ worker' = [worker EXCEPT ![w].espera = Tail(@), ![w].archivo = e[1], ![w].query = e[2],
                                ![w].pc = e[3],
                                ![w].ejecuta = IF e[1] \in DOMAIN Archivos THEN "linea" ELSE "libre",
                                ![w].query_en_ejecucion = e[1] \in DOMAIN Archivos]
    /\ UNCHANGED enchufes

Lineas(w) == Archivos[worker[w].archivo]

Pedido(p)  == [hace |-> "pedir", paquete |-> p]
Informe(p) == [hace |-> "informar", paquete |-> p]

Escritura(w, pagina) ==
    Pedido(OperacionWrite(pagina[1], pagina[2], pagina[3], "datos", worker[w].tamanio_bloque,
                          worker[w].query))

\* flush_paginas_modificadas, of the pages that are dirty.
Escrituras(w, sucias) ==
    LET s == SetToSeq(sucias) IN [k \in DOMAIN s |-> Escritura(w, s[k])]

Flush(w, i) == {Escrituras(w, s) : s \in SUBSET {p \in Sucias : p[1] = i.file /\ p[2] = i.tag}}
FlushPorDesalojo(w) == {Escrituras(w, s) : s \in SUBSET Sucias}

\* The instruction of the next line.
Instruccion(w) == ParsearInstruccion(Lineas(w)[worker[w].pc + 1])

\* The pages an access goes through.
Paginas(w, i) ==
    LET b == worker[w].tamanio_bloque
        primera == i.base \div b
    IN  [k \in 1 .. ((i.base + i.tamanio - 1) \div b - primera + 1) |-> primera + k - 1]

\* buscar_pagina: nothing if the page is there, or the page is read and, to make
\* room for it, a dirty one may be written.
Buscar(w, i, n) ==
    LET leer == <<Pedido(OperacionRead(i.file, i.tag, n, worker[w].query))>> IN
    {<<>>, leer} \union {leer \o <<Escritura(w, v)>> : v \in Sucias}

\* The reading of each page is sent, unless the page is blank.
Informes(i, n) == {<<>>, <<Informe(MensajeLectura(i.file, i.tag, <<i.file, i.tag, n>>))>>}

Acceso(w, i, n) ==
    IF i.tipo = "WRITE" THEN Buscar(w, i, n)
    ELSE {a \o b : a \in Buscar(w, i, n), b \in Informes(i, n)}

\* Everything an instruction may have to do, request by request. READ and WRITE
\* go page by page.
Tareas(w, i) ==
    LET q == worker[w].query IN
    CASE i.tipo = "CREATE"   -> {<<Pedido(OperacionCreate(i.file, i.tag, q))>>}
      [] i.tipo = "TRUNCATE" -> {<<Pedido(OperacionTruncate(i.file, i.tag, i.tamanio, q))>>}
      [] i.tipo = "DELETE"   -> {<<Pedido(OperacionDelete(i.file, i.tag, q))>>}
      [] i.tipo = "TAG"      ->
            {<<Pedido(OperacionTag(i.file, i.tag, i.file_destino, i.tag_destino, q))>>}
      [] i.tipo = "COMMIT"   ->
            {f \o <<Pedido(OperacionCommit(i.file, i.tag, q))>> : f \in Flush(w, i)}
      [] i.tipo = "FLUSH"    -> Flush(w, i)
      [] i.tipo = "END"      ->
            {f \o <<Informe(FinQuery(q, "COMPLETADA"))>> : f \in FlushPorDesalojo(w)}
      [] OTHER -> {<<>>}

\* The next line, or the end of the file.
TomarLinea(w) ==
    /\ Ejecuta(w, "linea")
    /\ IF worker[w].pc = Len(Lineas(w))
       THEN worker' = [worker EXCEPT ![w].ejecuta = "libre", ![w].query_en_ejecucion = FALSE]
       ELSE LET i == Instruccion(w) IN
            \E t \in Tareas(w, i) :
                worker' = [worker EXCEPT ![w].ejecuta = "instruccion", ![w].tarea = t,
                                         ![w].paginas = IF i.tipo \in {"READ", "WRITE"}
                                                        THEN Paginas(w, i) ELSE <<>>]
    /\ UNCHANGED enchufes

\* The loop of READ and of WRITE goes on to the next page.
AccederPagina(w) ==
    /\ Ejecuta(w, "instruccion") /\ worker[w].tarea = <<>> /\ worker[w].paginas # <<>>
    /\ \E t \in Acceso(w, Instruccion(w), Head(worker[w].paginas)) :
            worker' = [worker EXCEPT ![w].tarea = t, ![w].paginas = Tail(@)]
    /\ UNCHANGED enchufes

\* Nothing is left of the instruction; if it was refused, nor of the query.
TerminarInstruccion(w) ==
    /\ Ejecuta(w, "instruccion") /\ worker[w].tarea = <<>> /\ worker[w].paginas = <<>>
    /\ worker' = IF worker[w].query_en_ejecucion
                 THEN [worker EXCEPT ![w].ejecuta = "linea", ![w].pc = @ + 1]
                 ELSE [worker EXCEPT ![w].ejecuta = "libre"]
    /\ UNCHANGED enchufes

Toca(w, hace) ==
    Ejecuta(w, "instruccion") /\ worker[w].tarea # <<>> /\ Head(worker[w].tarea).hace = hace

Informar(w) ==
    /\ Toca(w, "informar")
    /\ AlServidor(AMaster(w), Head(worker[w].tarea).paquete)
    /\ worker' = [worker EXCEPT ![w].tarea = Tail(@)]
    /\ UNCHANGED <<a_cliente, cerrado>>

Pedir(w) ==
    /\ Toca(w, "pedir")
    /\ AlServidor(AStorage(w), Head(worker[w].tarea).paquete)
    /\ worker' = [worker EXCEPT ![w].ejecuta = "respuesta"]
    /\ UNCHANGED <<a_cliente, cerrado>>

\* esperar_respuesta_storage. One header 0 is skipped, and the contents of READ
\* stay in the socket. An error is taken for a header nobody expects.
EsperarRespuesta(w) ==
    LET h == Header(a_cliente, AStorage(w)) IN
    /\ Ejecuta(w, "respuesta") \/ Ejecuta(w, "respuesta_tras_cero")
    /\ DelStorage(w)
    /\ a_cliente' = Resto(a_cliente, AStorage(w))
    /\ worker' =
        IF h = "HANDSHAKE_STORAGE" /\ Ejecuta(w, "respuesta")
        THEN [worker EXCEPT ![w].ejecuta = "respuesta_tras_cero"]
        ELSE IF h = "RESPUESTA_READ_BLOCK"
        THEN [worker EXCEPT ![w].ejecuta = "semaforo", ![w].leido = h,
                            ![w].sem_respuesta_storage = @ + 1]
        ELSE [worker EXCEPT ![w].ejecuta = "cuerpo", ![w].leido = h]
    /\ UNCHANGED <<a_servidor, cerrado>>

\* Mutant: a refusal does not post the semaphore.
LeerRespuestaSinPostear(w) ==
    LET p == Payload(a_cliente, AStorage(w))
        h == worker[w].leido
        avisa == h = "ERROR_OPERACION" /\ p # <<>>
        postea == h \in {RespuestaDe[o] : o \in Operaciones}
    IN
    /\ Ejecuta(w, "cuerpo") /\ DelStorage(w)
    /\ a_cliente' = Resto(a_cliente, AStorage(w))
    /\ worker' = [worker EXCEPT ![w].ejecuta = "semaforo",
                                ![w].sem_respuesta_storage = IF postea THEN @ + 1 ELSE @,
                                ![w].query_en_ejecucion = @ /\ ~avisa]
    /\ IF avisa THEN AlServidor(AMaster(w), FinQuery(worker[w].query, p[1]))
       ELSE UNCHANGED a_servidor
    /\ UNCHANGED cerrado

\* Its payload: a refusal ends the query and is told to the Master; an answer
\* nobody expects is dropped, and nobody posts the semaphore.
LeerRespuesta(w) ==
    LET p == Payload(a_cliente, AStorage(w))
        h == worker[w].leido
        avisa == h = "ERROR_OPERACION" /\ p # <<>>
        postea == avisa \/ h \in {RespuestaDe[o] : o \in Operaciones}
    IN
    /\ Ejecuta(w, "cuerpo") /\ DelStorage(w)
    /\ a_cliente' = Resto(a_cliente, AStorage(w))
    /\ worker' = [worker EXCEPT ![w].ejecuta = "semaforo",
                                ![w].sem_respuesta_storage = IF postea THEN @ + 1 ELSE @,
                                ![w].query_en_ejecucion = @ /\ ~avisa]
    /\ IF avisa THEN AlServidor(AMaster(w), FinQuery(worker[w].query, p[1]))
       ELSE UNCHANGED a_servidor
    /\ UNCHANGED cerrado

\* The header of the packet that is asked for.
PedidoEnCurso(w) == Head(worker[w].tarea).paquete[1].header

\* Mutant: the contents of READ are never read.
EsperarSemaforoSinLeer(w) ==
    /\ Ejecuta(w, "semaforo") /\ worker[w].sem_respuesta_storage > 0
    /\ worker' = [worker EXCEPT ![w].sem_respuesta_storage = @ - 1, ![w].ejecuta = "instruccion",
                                ![w].tarea = Tail(@)]
    /\ UNCHANGED enchufes

\* After sem_wait: READ goes for the contents, unless the query was refused,
\* and then the access stops there. Everything else goes on.
EsperarSemaforo(w) ==
    /\ Ejecuta(w, "semaforo") /\ worker[w].sem_respuesta_storage > 0
    /\ worker' =
        IF PedidoEnCurso(w) # "READ_BLOCK"
        THEN [worker EXCEPT ![w].sem_respuesta_storage = @ - 1, ![w].ejecuta = "instruccion",
                            ![w].tarea = Tail(@)]
        ELSE IF worker[w].query_en_ejecucion
        THEN [worker EXCEPT ![w].sem_respuesta_storage = @ - 1, ![w].ejecuta = "contenido"]
        ELSE [worker EXCEPT ![w].sem_respuesta_storage = @ - 1, ![w].ejecuta = "instruccion",
                            ![w].tarea = <<>>, ![w].paginas = <<>>]
    /\ UNCHANGED enchufes

\* Without contents, or with a size it does not believe, the access stops.
LeerContenido(w) ==
    LET p == Payload(a_cliente, AStorage(w))
        creible == Len(p) = 3 /\ p[2] > 0 /\ p[2] <= worker[w].tamanio_bloque * 2
    IN
    /\ Ejecuta(w, "contenido") /\ DelStorage(w)
    /\ a_cliente' = Resto(a_cliente, AStorage(w))
    /\ worker' = [worker EXCEPT ![w].ejecuta = "instruccion",
                                ![w].tarea = IF creible THEN Tail(@) ELSE <<>>,
                                ![w].paginas = IF creible THEN @ ELSE <<>>]
    /\ UNCHANGED <<a_servidor, cerrado>>

-----------------------------------------------------------------------------
\* The process ends, with all its threads.
CaerWorker(w) ==
    /\ worker[w].paso \notin {"inicio", "rechazado"}
    /\ caidos' = caidos \union {w}
    /\ worker' = [worker EXCEPT ![w] = [WorkerInicial(@.id) EXCEPT !.paso = "caido"]]
    /\ Cerrar({AMaster(w), AStorage(w)}, "cliente")
    /\ \E s \in Llegado(a_servidor[AMaster(w)], a_cliente[AMaster(w)]),
          t \in Llegado(a_servidor[AStorage(w)], a_cliente[AStorage(w)]) :
            a_servidor' = [a_servidor EXCEPT ![AMaster(w)] = s, ![AStorage(w)] = t]
    /\ UNCHANGED a_cliente

InitWorker == worker \in [Workers -> {WorkerInicial(id) : id \in Ids}]

Arrancar(w) ==
    \/ SaludarStorage(w) \/ RecibirOkStorage(w) \/ RecibirTamanioBloque(w)
    \/ SaludarMaster(w) \/ RecibirOkMaster(w) \/ RecibirPayloadOk(w)

EjecutarQuery(w) ==
    \/ Comenzar(w) \/ TomarLinea(w) \/ AccederPagina(w) \/ TerminarInstruccion(w) \/ Informar(w)
    \/ Pedir(w) \/ EsperarRespuesta(w) \/ LeerRespuesta(w) \/ EsperarSemaforo(w) \/ LeerContenido(w)

Oir(w) == EscucharMaster(w) \/ AtenderMaster(w)
=============================================================================
