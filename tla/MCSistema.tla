------------------------------- MODULE MCSistema -------------------------------
(* Instances of Sistema for TLC.                                             *)
EXTENDS Sistema, TLC

CONSTANTS qc1, qc2, wk1, wk2

DosQueries   == {qc1, qc2}
UnWorker     == {wk1}
DosWorkers   == {wk1, wk2}
Fifo         == {"FIFO"}
PorPrioridad == {"PRIORIDADES"}
CeroYUno     == {0, 1}
Cero         == {0}
Uno          == {1}
LaSegunda    == {qc2}
Ninguna      == {}
=============================================================================
