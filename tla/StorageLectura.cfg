CONSTANTS
    w1 = w1
    w2 = w2
    ft1 = ft1
    ft2 = ft2
    c0 = c0
    c1 = c1
    BASE = BASE
    Nadie = Nadie
    Cero = c0
    Workers <- DosWorkers
    Tags <- DosTags
    Contenidos <- DosContenidos
    TotalBlocks = 2
    BlockSize = 2
    MaxLogicos = 1
    Tamanios <- TamaniosUnBloque
    Operaciones <- TodasLasOperaciones
    BorraCommited = FALSE
SPECIFICATION Spec
SYMMETRY Simetria
\* TAG of a File:Tag onto itself, or two TAGs that cross, wait forever; a
\* failed READ can end the process: the Storage really stops.
CHECK_DEADLOCK FALSE
PROPERTY LecturaContestada
