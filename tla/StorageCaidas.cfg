CONSTANTS
    w1 = w1
    ft1 = ft1
    ft2 = ft2
    c0 = c0
    c1 = c1
    BASE = BASE
    Nadie = Nadie
    Cero = c0
    Workers <- UnWorker
    Tags <- TresTags
    Contenidos <- DosContenidos
    TotalBlocks = 3
    BlockSize = 2
    MaxLogicos = 2
    Tamanios <- TamaniosDosBloques
    Operaciones <- SinLectura
    BorraCommited = FALSE
    MaxCaidas = 1
    UsaDanadas = FALSE
SPECIFICATION SpecCaidas
SYMMETRY Simetria
CHECK_DEADLOCK FALSE
INVARIANT OcupadoSiReferenciado
INVARIANT IndiceVeraz
INVARIANT DanoPropio
PROPERTY ImplementaConCaidas
