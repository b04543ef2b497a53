CONSTANTS
    qc1 = qc1
    qc2 = qc2
    wk1 = wk1
    wk2 = wk2
    SinWorker = SinWorker
    SinQuery = SinQuery
    Queries <- DosQueries
    Workers <- UnWorker
    Lineas = 2
    MaxCaidas = 0
    Algoritmos <- PorPrioridad
    Prioridades <- CeroYUno
    Aging = FALSE
    SinEnd <- Ninguna
    RechazosInstruccion <- Uno
    RechazosEnd <- Cero
    RechazosDesalojo <- Cero
    LecturaTardia = FALSE
SPECIFICATION Spec
\* When every query has ended nobody has anything left to do; an eviction nobody
\* answers stops the planner for ever.
CHECK_DEADLOCK FALSE
INVARIANT UnaPorWorker
