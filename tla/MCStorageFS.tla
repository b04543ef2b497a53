------------------------------ MODULE MCStorageFS ------------------------------
(* Instances of StorageFS for TLC.                                           *)
EXTENDS StorageFSRefina, TLC

CONSTANTS w1, w2, ft1, ft2, c0, c1

DosWorkers == {w1, w2}
DosTags    == {BASE, ft1}
TresTags   == {BASE, ft1, ft2}
DosContenidos == {c0, c1}

\* The Workers are alike, and so are the tags other than BASE.
Simetria == Permutations(Workers) \union Permutations(Tags \ {BASE})

TodasLasOperaciones == OperacionesFS
TamaniosUnBloque == {0, 2}
===============================================================================
