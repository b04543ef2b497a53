---------------------------- MODULE ArchivosLogicos ----------------------------
(***************************************************************************)
(* What the Storage is for, without blocks, links or threads: a set of     *)
(* File:Tags, each an array of block contents that belongs to it alone. An *)
(* operation happens at once, or not at all.                               *)
(***************************************************************************)
EXTENDS Integers

CONSTANTS Tags, BASE, BlockSize, MaxLogicos, Tamanios, Contenidos, Cero

Logicos == 0 .. MaxLogicos - 1
Bloques(tam) == (tam + BlockSize - 1) \div BlockSize
Nada == "nada"   \* past the end of a File:Tag

VARIABLE arch    \* what is known of every File:Tag

SinDatos == [l \in Logicos |-> Nada]
Ausente  == [existe |-> FALSE, size |-> 0, estado |-> "WORK_IN_PROGRESS", datos |-> SinDatos]
Nuevo    == [Ausente EXCEPT !.existe = TRUE]

Editable(t) == arch[t].existe /\ arch[t].estado = "WORK_IN_PROGRESS"

\* CREATE, and the first half of TAG.
Crear(t) ==
    /\ ~ arch[t].existe
    /\ arch' = [arch EXCEPT ![t] = Nuevo]

\* TRUNCATE: what fits is kept, what is added reads as zeros.
Truncar(t, tam) ==
    /\ Editable(t)
    /\ arch' = [arch EXCEPT
          ![t].size = tam,
          ![t].datos = [l \in Logicos |-> IF l >= Bloques(tam) THEN Nada
                                          ELSE IF @[l] = Nada THEN Cero ELSE @[l]]]

\* WRITE: one block of one File:Tag changes, and of no other.
Escribir(t, l, d) ==
    /\ Editable(t)
    /\ l < Bloques(arch[t].size)
    /\ arch' = [arch EXCEPT ![t].datos[l] = d]

\* COMMIT: the contents stay as they are for good.
Commitear(t) ==
    /\ Editable(t)
    /\ arch' = [arch EXCEPT ![t].estado = "COMMITED"]

\* The second half of TAG: the contents of o, in the state d was left in.
Copiar(o, d) ==
    /\ o # d /\ arch[o].existe /\ arch[d].existe
    /\ arch' = [arch EXCEPT ![d].size = arch[o].size, ![d].datos = arch[o].datos]

\* DELETE
Borrar(t) ==
    /\ arch[t].existe
    /\ arch' = [arch EXCEPT ![t] = Ausente]

Init ==
    arch = [t \in Tags |->
              IF t = BASE THEN [existe |-> TRUE, size |-> BlockSize, estado |-> "COMMITED",
                                datos |-> [SinDatos EXCEPT ![0] = Cero]]
              ELSE Ausente]

Next ==
    \E t \in Tags :
        \/ Crear(t) \/ Commitear(t) \/ Borrar(t)
        \/ \E tam \in Tamanios : Truncar(t, tam)
        \/ \E l \in Logicos, d \in Contenidos : Escribir(t, l, d)
        \/ \E d \in Tags : Copiar(t, d)

Spec == Init /\ [][Next]_arch
=============================================================================
