CONSTANTS
    qc1 = qc1
    qc2 = qc2
    wk1 = wk1
    wk2 = wk2
    SinWorker = SinWorker
    SinQuery = SinQuery
    Queries <- DosQueries
    Workers <- UnWorker
    Lineas = 2
    MaxCaidas = 0
    Algoritmos <- PorPrioridad
    Prioridades <- CeroYUno
    Aging = FALSE
    SinEnd <- Ninguna
    RechazosInstruccion <- Ninguna
    RechazosEnd <- Cero
    RechazosDesalojo <- Cero
    LecturaTardia = FALSE
SPECIFICATION Spec
\* A planner that waits for an eviction nobody answers stops everything.
CHECK_DEADLOCK FALSE
PROPERTY Terminan
