----------------------------- MODULE PasosDeCerrojo ----------------------------
(* A path of a function as the mutexes it takes and lets go.                 *)
EXTENDS Sequences

Tomar(m)  == [op |-> "lock", mutex |-> m]
Soltar(m) == [op |-> "unlock", mutex |-> m]

\* s with m taken.
Con(m, s) == <<Tomar(m)>> \o s \o <<Soltar(m)>>

Funcion(nombre, pasos) == [nombre |-> nombre, pasos |-> pasos]

Ninguna == Funcion("ninguna", <<>>)
=============================================================================
