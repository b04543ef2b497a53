SPECIFICATION FairSpec
CONSTANTS
    QueryControls = {q1}
    Workers = {w1}
    Ajenos = {x1}
    Archivos <- MCArchivos
    Peticiones <- MCPeticiones
    Sucias <- MCSucias
    Ids <- MCIds
    BlockSize = 2
    MaxIncidentes = 1
    SinQuery = ninguna
INVARIANT TypeOK
INVARIANT Entendido
INVARIANT PedidoYRespuesta
INVARIANT EsperaConMotivo
INVARIANT MotivoVeraz
PROPERTY Enterado
PROPERTY SaludoAtendido
PROPERTY SeDespiden
CHECK_DEADLOCK FALSE
