-------------------------------- MODULE Enchufes --------------------------------
(***************************************************************************)
(* The sockets of the programs: those of the Master's server, one for each *)
(* Query Control, Worker or stranger, and those of the Storage's, one for  *)
(* each Worker or stranger. TCP keeps the order of each direction, and a   *)
(* packet arrives whole (utils/src/utils/serializacion.c and               *)
(* deserializacion.c).                                                     *)
(***************************************************************************)
EXTENDS Paquetes, SequencesExt

CONSTANTS
    QueryControls, Workers,
    Ajenos,         \* clients that are neither
    Archivos,       \* the query files: the lines of each path
    MaxIncidentes   \* bound: how many processes leave or go down and strangers call

ASSUME EnchufesAssumption == MaxIncidentes \in Nat
ASSUME ClientesAssumption ==
    /\ QueryControls \intersect Workers = {}
    /\ (QueryControls \union Workers) \intersect Ajenos = {}
    /\ {"master", "storage"} \intersect Workers = {}
    /\ IsFiniteSet(Workers) /\ IsFiniteSet(Ajenos)

VARIABLES
    a_servidor,  \* the stream of each socket towards the server
    a_cliente,   \* and towards the client
    cerrado,     \* the ends of each socket that are closed
    caidos       \* the processes that went down

enchufes == <<a_servidor, a_cliente, cerrado>>

AMaster(x)  == <<"master", x>>
AStorage(x) == <<"storage", x>>

Clientes == QueryControls \union Workers \union Ajenos
Enlaces  == {AMaster(x) : x \in Clientes} \union {AStorage(x) : x \in Workers \union Ajenos}

Servidor(c) == c[1]

\* send: nothing reaches an end that is closed, and the sender is not told.
Enviado(canal, c, paquete, destino) ==
    IF destino \in cerrado[c] THEN canal ELSE [canal EXCEPT ![c] = @ \o paquete]

AlCliente(c, paquete)  == a_cliente' = Enviado(a_cliente, c, paquete, "cliente")
AlServidor(c, paquete) == a_servidor' = Enviado(a_servidor, c, paquete, "servidor")

\* recv returns: there is something to read, or the other end is closed.
Vuelve(canal, c, otro) == canal[c] # <<>> \/ otro \in cerrado[c]

\* obtener_header. The size of an empty payload reads as header 0; that of a
\* payload with fields is garbage. With nothing to read it is an error.
Header(canal, c) ==
    IF canal[c] = <<>> THEN "error"
    ELSE LET p == Head(canal[c]) IN
         IF p.tipo = "header" THEN p.header
         ELSE IF p.campos = <<>> THEN "HANDSHAKE_STORAGE" ELSE "basura"

\* obtener_payload, where <<>> is NULL. A header is garbage as a size.
Payload(canal, c) ==
    IF canal[c] = <<>> THEN <<>>
    ELSE IF Head(canal[c]).tipo = "cuerpo" THEN Head(canal[c]).campos ELSE <<"basura">>

\* The stream without the word that was read.
Resto(canal, c) == [canal EXCEPT ![c] = IF @ = <<>> THEN @ ELSE Tail(@)]

Cerrar(cs, extremo) ==
    cerrado' = [c \in Enlaces |-> IF c \in cs THEN cerrado[c] \union {extremo} ELSE cerrado[c]]

\* What the other end still gets from a process that dies: all of it or, if
\* the process left something unread, only some of the first packets.
Llegado(pendiente, sin_leer) ==
    {SubSeq(pendiente, 1, k) : k \in
        {j \in 0 .. Len(pendiente) :
            \/ j = Len(pendiente)
            \/ sin_leer # <<>> /\ pendiente[j + 1].tipo = "header"}}

InitEnchufes ==
    /\ a_servidor = [c \in Enlaces |-> <<>>]
    /\ a_cliente = [c \in Enlaces |-> <<>>]
    /\ cerrado = [c \in Enlaces |-> {}]
    /\ caidos = {}
=============================================================================
