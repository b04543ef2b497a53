---------------------------- MODULE MCStorageCargas ----------------------------
(* Two instances of StorageFS in one for TLC: what the Workers ask for is     *)
(* chosen at the start among several workloads.                              *)
EXTENDS StorageFSRefina, TLC

CONSTANTS w1, w2, ft1, ft2, c0, c1

VARIABLE carga   \* the operations on blocks that the Workers ask for

DosWorkers == {w1, w2}
TresTags   == {BASE, ft1, ft2}
DosContenidos == {c0, c1}
Simetria == Permutations(Workers) \union Permutations(Tags \ {BASE})
TodasLasOperaciones == OperacionesFS
TamaniosUnBloque == {0, 2}

\* Without the DELETE of a shared block (StorageLibreEnUso.cfg): either no
\* File:Tag shares blocks before it is COMMITED, or none is deleted.
SinDelete == {"CREATE", "TRUNCATE", "WRITE", "READ", "TAG"}
SinTag    == {"CREATE", "TRUNCATE", "WRITE", "READ", "COMMIT", "DELETE"}

InitCargas == Init /\ carga \in {SinDelete, SinTag}
NextCargas ==
    /\ Next /\ \A w \in Workers : hilo'[w].op \in carga \union {"ninguna"}
    /\ UNCHANGED carga
SpecCargas == InitCargas /\ [][NextCargas]_<<vars, carga>>
=============================================================================
