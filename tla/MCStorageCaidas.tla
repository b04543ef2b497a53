---------------------------- MODULE MCStorageCaidas ----------------------------
(* Instances of StorageCaidas for TLC.                                       *)
EXTENDS StorageCaidas, TLC

CONSTANTS w1, ft1, ft2, c0, c1

UnWorker == {w1}
TresTags == {BASE, ft1, ft2}
DosContenidos == {c0, c1}
Simetria == Permutations(Tags \ {BASE})
SinLectura == OperacionesFS \ {"READ"}
TamaniosDosBloques == {0, 2, 3}
=============================================================================
