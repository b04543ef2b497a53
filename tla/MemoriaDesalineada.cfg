CONSTANTS
    ta = ta
    tb = tb
    Tablas <- DosTablas
    CantPaginas = 2
    CantMarcos = 2
    TamPagina = 2
    Valores <- Bits
    Cero = 0
    Basura <- SoloCeros
    Direcciones <- Desalineadas
    Tamanios <- Unos
    Largos <- Unos
    Algoritmos <- AmbosAlgoritmos
    Ajenas <- SoloMemoria
    ConPaginas = FALSE
    SinLugares <- SiempreHayLugar
SPECIFICATION Spec
SYMMETRY Simetria
CHECK_DEADLOCK FALSE
INVARIANT CopiaFiel
