CONSTANTS
    qc1 = qc1
    qc2 = qc2
    wk1 = wk1
    wk2 = wk2
    SinWorker = SinWorker
    SinQuery = SinQuery
    Queries <- DosQueries
    Workers <- DosWorkers
    Lineas = 2
    MaxCaidas = 1
    Algoritmos <- Fifo
    Prioridades <- Cero
    Aging = FALSE
    SinEnd <- Ninguna
    RechazosInstruccion <- Uno
    RechazosEnd <- Cero
    RechazosDesalojo <- Cero
    LecturaTardia = FALSE
SPECIFICATION Spec
\* When every query has ended nobody has anything left to do.
CHECK_DEADLOCK FALSE
INVARIANT UnaPorWorker
INVARIANT EnUnLugar
INVARIANT NadieVarado
PROPERTY ImplementaServicio
PROPERTY Terminan
