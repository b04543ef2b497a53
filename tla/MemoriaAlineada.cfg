CONSTANTS
    ta = ta
    tb = tb
    Tablas <- DosTablas
    CantPaginas = 2
    CantMarcos = 2
    TamPagina = 2
    Valores <- Bits
    Cero = 0
    Basura <- SoloCeros
    Direcciones <- Alineadas
    Tamanios <- Unos
    Largos <- DosOTres
    Algoritmos <- AmbosAlgoritmos
    Ajenas <- TodasLasAjenas
    ConPaginas = FALSE
    SinLugares <- PaginasCero
SPECIFICATION Spec
SYMMETRY Simetria
CHECK_DEADLOCK FALSE
INVARIANT TypeOK
INVARIANT MarcosConsistentes
INVARIANT SiempreHayVictima
INVARIANT CopiaFiel
PROPERTY ImplementaPlana
