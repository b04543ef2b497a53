CONSTANTS
    h1 = h1
    h2 = h2
    qc1 = qc1
    qc2 = qc2
    wk1 = wk1
    ft1 = ft1
    ft2 = ft2
    Nadie = Nadie
    Hilos <- DosHilos
    Queries <- DosQueries
    Workers <- UnWorker
    FileTags <- DosFileTags
    Mutexes <- LosMutexes
    Nivel <- LosNiveles
    Modulos <- LosModulos
    Funciones <- LasFunciones
    Invertidas <- LasInvertidas
    Retenedoras <- LasRetenedoras
    Retenibles <- DosFileTags
SPECIFICATION Spec
SYMMETRY Simetria
\* The threads that wait for each other stop for ever.
CHECK_DEADLOCK FALSE
INVARIANT RetenidosConocidos
INVARIANT InterbloqueosConocidos
