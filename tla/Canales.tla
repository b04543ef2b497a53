-------------------------------- MODULE Canales --------------------------------
(***************************************************************************)
(* The sockets between the Master, its Workers and the Query Controls, and *)
(* the packets that go through them (utils/src/utils/estructuras.h and the *)
(* serializacion.c of each program). TCP keeps the order of each socket.   *)
(***************************************************************************)
EXTENDS Integers, Sequences, FiniteSets

CONSTANTS
    Queries,   \* one Query Control, hence one query, each
    Workers,
    Lineas,    \* instructions of a query's file, the last of which is END
    MaxCaidas  \* bound: how many times a Worker may go down

ASSUME LineasAssumption == Lineas \in Nat \ {0} /\ MaxCaidas \in Nat
ASSUME FinitosAssumption == IsFiniteSet(Queries) /\ IsFiniteSet(Workers)

VARIABLES
    a_worker,  \* from the Master to each Worker
    a_master,  \* from each Worker to the Master
    a_query,   \* what each Query Control has been sent
    caido,     \* the Workers that went down: their end of the socket is closed
    caidas

canales == <<a_worker, a_master, a_query>>
enchufes == <<caido, caidas>>

Motivos == {"COMPLETADA", "ERROR", "ERROR_DESCONEXION_WORKER"}

EjecutarQuery(q, pc)    == [tipo |-> "EJECUTAR_QUERY", query |-> q, pc |-> pc]
DesalojarQuery(q)       == [tipo |-> "DESALOJAR_QUERY", query |-> q, pc |-> 0]
LecturaRealizada(q)     == [tipo |-> "LECTURA_REALIZADA", query |-> q, pc |-> 0]
QueryFinalizada(q, mot) == [tipo |-> "QUERY_FINALIZADA", query |-> q, motivo |-> mot]
DesalojoQuery(q, pc)    == [tipo |-> "DESALOJO_QUERY", query |-> q, pc |-> pc]

HaciaWorker ==
    [tipo : {"EJECUTAR_QUERY", "DESALOJAR_QUERY"}, query : Queries, pc : 0 .. Lineas]

HaciaMaster ==
    [tipo : {"LECTURA_REALIZADA", "DESALOJO_QUERY"}, query : Queries, pc : 0 .. Lineas]
        \union [tipo : {"QUERY_FINALIZADA"}, query : Queries, motivo : Motivos]

\* A Query Control: whose readings it has been sent, and which final messages.
HaciaQuery == [lecturas : SUBSET Queries, finales : Seq(Queries \X Motivos)]

\* The packet at the head of a socket.
Llega(canal, tipo) == canal # <<>> /\ Head(canal).tipo = tipo

InitCanales ==
    /\ a_worker = [w \in Workers |-> <<>>]
    /\ a_master = [w \in Workers |-> <<>>]
    /\ a_query  = [q \in Queries |-> [lecturas |-> {}, finales |-> <<>>]]
    /\ caido = {} /\ caidas = 0
=============================================================================
