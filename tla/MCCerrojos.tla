------------------------------- MODULE MCCerrojos ------------------------------
(* An instance of Cerrojos for TLC: the Master with each algorithm, and the  *)
(* Storage.                                                                  *)
EXTENDS CerrojosProgramas, TLC

CONSTANTS h1, h2, qc1, qc2, wk1, ft1, ft2

DosHilos == {h1, h2}
DosQueries == {qc1, qc2}
UnWorker == {wk1}
DosFileTags == {ft1, ft2}

ASSUME SonEllos == LosProgramas

Simetria == Permutations(Hilos) \union Permutations(Queries) \union Permutations(FileTags)
=============================================================================
