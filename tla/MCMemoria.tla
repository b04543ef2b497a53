------------------------------- MODULE MCMemoria -------------------------------
(* Instances of MemoriaWorker for TLC.                                       *)
EXTENDS MemoriaWorkerProps, TLC

CONSTANTS ta, tb

UnaTabla        == {ta}
DosTablas       == {ta, tb}
Simetria        == Permutations(Tablas)
Bits            == {0, 1}
SoloCeros       == {0}
Alineadas       == {0}
Desalineadas    == {0, 1}
Unos            == {1}
DosOTres        == {2, 3}
AmbosAlgoritmos == {"LRU", "CLOCK-M"}
TodasLasAjenas  == {"CREATE", "TRUNCATE", "TAG", "DELETE"}
SoloMemoria     == {}
PaginasCero     == {{}, Tablas \X {0}}
SiempreHayLugar == {{}}
=============================================================================
