CONSTANTS
    qc1 = qc1
    qc2 = qc2
    wk1 = wk1
    wk2 = wk2
    SinWorker = SinWorker
    SinQuery = SinQuery
    Queries <- DosQueries
    Workers <- UnWorker
    Lineas = 3
    MaxCaidas = 1
    Algoritmos <- PorPrioridad
    Prioridades <- CeroYUno
    Aging = TRUE
    SinEnd <- LaSegunda
    RechazosInstruccion <- Uno
    RechazosEnd <- CeroYUno
    RechazosDesalojo <- CeroYUno
    LecturaTardia = FALSE
SPECIFICATION Spec
\* When every query has ended nobody has anything left to do; an eviction nobody
\* answers stops the planner for ever.
CHECK_DEADLOCK FALSE
INVARIANT TypeOK
INVARIANT EnUnLugar
INVARIANT UnRelevoPorDesalojo
PROPERTY SinRepetirNiSaltar
