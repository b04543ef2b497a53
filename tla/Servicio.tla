-------------------------------- MODULE Servicio -------------------------------
(***************************************************************************)
(* What a Query Control asks of the system: its instructions are executed  *)
(* one after the other, each one once, wherever and however many times the *)
(* query is evicted; the readings it gets are its own; and it is told how  *)
(* the query ended, once, and truly.                                       *)
(***************************************************************************)
EXTENDS Integers, Sequences

CONSTANTS Queries, Lineas

VARIABLES
    avance,   \* of every query, the instructions executed and whether one failed
    a_query   \* what its Query Control has been sent

Init ==
    /\ avance = [q \in Queries |-> [hechas |-> 0, fallo |-> FALSE]]
    /\ a_query = [q \in Queries |-> [lecturas |-> {}, finales |-> <<>>]]

\* The next instruction of a query that has not ended.
Ejecutar(q) ==
    /\ avance[q].hechas < Lineas /\ ~avance[q].fallo /\ a_query[q].finales = <<>>
    /\ avance' = [avance EXCEPT ![q].hechas = @ + 1]
    /\ UNCHANGED a_query

Fallar(q) ==
    /\ ~avance[q].fallo /\ a_query[q].finales = <<>>
    /\ avance' = [avance EXCEPT ![q].fallo = TRUE]
    /\ UNCHANGED a_query

\* A reading of q reaches q, from an instruction executed or from one that failed.
Leer(q) ==
    /\ avance[q].hechas > 0 \/ avance[q].fallo
    /\ a_query[q].finales = <<>>
    /\ a_query' = [a_query EXCEPT ![q].lecturas = {q}]
    /\ UNCHANGED avance

Finalizar(q) ==
    /\ a_query[q].finales = <<>>
    /\ \/ /\ avance[q].hechas = Lineas /\ ~avance[q].fallo
          /\ a_query' = [a_query EXCEPT ![q].finales = << <<q, "COMPLETADA">> >>]
       \/ /\ avance[q].fallo
          /\ a_query' = [a_query EXCEPT ![q].finales = << <<q, "ERROR">> >>]
       \/ a_query' = [a_query EXCEPT ![q].finales = << <<q, "ERROR_DESCONEXION_WORKER">> >>]
    /\ UNCHANGED avance

Next == \E q \in Queries : Ejecutar(q) \/ Fallar(q) \/ Leer(q) \/ Finalizar(q)

Spec == Init /\ [][Next]_<<avance, a_query>>
=============================================================================
