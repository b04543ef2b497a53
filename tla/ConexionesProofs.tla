---------------------------- MODULE ConexionesProofs ----------------------------
(***************************************************************************)
(* Proofs about Conexiones, for any Query Controls, Workers, strangers,    *)
(* query files, dirty pages and incidents.                                 *)
(***************************************************************************)
EXTENDS Conexiones, ListasProofs, FiniteSetTheorems, TLAPS

-----------------------------------------------------------------------------
(* The shape of the state                                                  *)

CamposControl ==
    {"paso", "pedido", "activo", "cierre_local", "header", "lecturas", "motivo", "dicho"}
CamposWorker ==
    {"paso", "id", "header", "tamanio_bloque", "espera", "ejecuta", "query", "archivo", "pc", "tarea",
     "paginas", "leido", "sem_respuesta_storage", "query_en_ejecucion"}

FormaEnchufes ==
    /\ DOMAIN a_servidor = Enlaces /\ DOMAIN a_cliente = Enlaces
    /\ cerrado \in [Enlaces -> SUBSET {"cliente", "servidor"}]
    /\ caidos \subseteq {"master", "storage"} \union Workers
FormaMaster ==
    /\ DOMAIN hilo_master = Clientes
    /\ \A x \in Clientes : DOMAIN hilo_master[x] = {"paso", "header"}
FormaStorage ==
    /\ DOMAIN hilo_storage = Conectables
    /\ \A x \in Conectables : DOMAIN hilo_storage[x] = {"paso", "header", "id", "operacion"}
FormaControl ==
    /\ DOMAIN control = QueryControls
    /\ \A q \in QueryControls : DOMAIN control[q] = CamposControl

\* The semaphore of the answers has the one that was posted, until it is taken.
FormaWorker ==
    /\ DOMAIN worker = Workers
    /\ \A w \in Workers :
          /\ DOMAIN worker[w] = CamposWorker
          /\ worker[w].sem_respuesta_storage \in {0, 1}
          /\ worker[w].ejecuta # "semaforo" => worker[w].sem_respuesta_storage = 0

Formas == FormaEnchufes /\ FormaMaster /\ FormaStorage /\ FormaControl /\ FormaWorker

LEMMA LosEnlaces ==
    /\ \A x \in Clientes : AMaster(x) \in Enlaces
    /\ \A x \in Conectables : AStorage(x) \in Enlaces
    /\ \A x, y : AMaster(x) # AStorage(y)
    /\ \A x, y : (AMaster(x) = AMaster(y) => x = y) /\ (AStorage(x) = AStorage(y) => x = y)
    /\ \A x \in Workers : x \in Clientes /\ x \in Conectables
    /\ \A x \in QueryControls : x \in Clientes
    /\ \A x \in Ajenos : x \in Clientes /\ x \in Conectables
    /\ \A w \in Ajenos \union Workers, q \in QueryControls : w # q
    /\ \A x \in Ajenos, w \in Workers : x # w
BY ClientesAssumption DEF Enlaces, AMaster, AStorage, Clientes, Conectables

\* What the operations on sockets do.
LEMMA AlEnviar ==
    ASSUME NEW canal, DOMAIN canal = Enlaces, NEW c \in Enlaces, NEW p, NEW otro
    PROVE  LET r == Enviado(canal, c, p, otro) IN
           /\ DOMAIN r = Enlaces
           /\ \A d \in Enlaces \ {c} : r[d] = canal[d]
           /\ otro \in cerrado[c] => r[c] = canal[c]
           /\ otro \notin cerrado[c] => r[c] = canal[c] \o p
BY DEF Enviado

LEMMA AlLeer ==
    ASSUME NEW canal, DOMAIN canal = Enlaces, NEW c \in Enlaces
    PROVE  LET r == Resto(canal, c) IN
           /\ DOMAIN r = Enlaces
           /\ \A d \in Enlaces \ {c} : r[d] = canal[d]
           /\ canal[c] = <<>> => r[c] = canal[c]
           /\ canal[c] # <<>> => r[c] = Tail(canal[c])
BY DEF Resto

LEMMA AlCerrar ==
    ASSUME FormaEnchufes, NEW cs, NEW e \in {"cliente", "servidor"}, Cerrar(cs, e)
    PROVE  /\ cerrado' \in [Enlaces -> SUBSET {"cliente", "servidor"}]
           /\ \A c \in Enlaces : cerrado'[c] = IF c \in cs THEN cerrado[c] \union {e} ELSE cerrado[c]
BY DEF Cerrar, FormaEnchufes

\* Taking a line: the end of the query or an instruction.
LEMMA AlTomarLinea ==
    ASSUME NEW w \in Workers, TomarLinea(w)
    PROVE  LET i == Instruccion(w) IN
           /\ worker[w].ejecuta = "linea"
           /\ \/ /\ worker[w].pc = Len(Lineas(w))
                 /\ worker' = [worker EXCEPT ![w].ejecuta = "libre", ![w].query_en_ejecucion = FALSE]
              \/ /\ worker[w].pc # Len(Lineas(w))
                 /\ \E t \in Tareas(w, i) :
                      worker' = [worker EXCEPT ![w].ejecuta = "instruccion", ![w].tarea = t,
                                               ![w].paginas = IF i.tipo \in {"READ", "WRITE"}
                                                              THEN Paginas(w, i) ELSE <<>>]
<1>1. CASE worker[w].pc = Len(Lineas(w))
  BY <1>1 DEF TomarLinea, Ejecuta
<1>2. CASE worker[w].pc # Len(Lineas(w))
  <2> DEFINE i == Instruccion(w)
  <2>1. \E t \in Tareas(w, i) :
            worker' = [worker EXCEPT ![w].ejecuta = "instruccion", ![w].tarea = t,
                                     ![w].paginas = IF i.tipo \in {"READ", "WRITE"}
                                                    THEN Paginas(w, i) ELSE <<>>]
    BY <1>2, Zenon DEF TomarLinea
  <2> QED
    BY <1>2, <2>1, Zenon DEF TomarLinea, Ejecuta
<1> QED
  BY <1>1, <1>2, Zenon

\* Each thread keeps the shape of what it touches.
LEMMA FormaHiloMaster ==
    ASSUME Formas, NEW x \in Clientes, HiloDelMaster(x) PROVE Formas'
<1> USE DEF Formas
<1>1. FormaMaster'
  BY DEF FormaMaster, HiloDelMaster, AtenderEnMaster, RecibirSaludo, SaludarWorker, SaludarQueryControl,
         AgregarWorker, AgregarQuery, PlanificarFifo, RecibirDeWorker, ProcesarLectura, ProcesarFin,
         DesconectarWorker, DejarDeMirar, LeeMaster, PasaMaster, Despachar, Responder, LeeMensaje, Finalizar
<1>2. DOMAIN a_servidor' = Enlaces /\ DOMAIN a_cliente' = Enlaces
  BY DEF FormaEnchufes, HiloDelMaster, AtenderEnMaster, RecibirSaludo, SaludarWorker, SaludarQueryControl,
         AgregarWorker, AgregarQuery, PlanificarFifo, RecibirDeWorker, ProcesarLectura, ProcesarFin,
         DesconectarWorker, DejarDeMirar, LeeMaster, Despachar, Responder, LeeMensaje, Finalizar,
         Resto, AlCliente, Enviado, enchufes
<1>3. cerrado' \in [Enlaces -> SUBSET {"cliente", "servidor"}]
  BY DEF FormaEnchufes, HiloDelMaster, AtenderEnMaster, RecibirSaludo, SaludarWorker, SaludarQueryControl,
         AgregarWorker, AgregarQuery, PlanificarFifo, RecibirDeWorker, ProcesarLectura, ProcesarFin,
         DesconectarWorker, DejarDeMirar, LeeMaster, Despachar, Responder, LeeMensaje, Finalizar,
         Cerrar, enchufes
<1>4. UNCHANGED <<caidos, hilo_storage, control, worker>>
  BY DEF HiloDelMaster, storage
<1> QED
  BY <1>1, <1>2, <1>3, <1>4 DEF FormaEnchufes, FormaStorage, FormaControl, FormaWorker

LEMMA FormaHiloStorage ==
    ASSUME Formas, NEW x \in Conectables, HiloDelStorage(x) PROVE Formas'
<1> USE DEF Formas
<1>1. FormaStorage'
  BY DEF FormaStorage, HiloDelStorage, AtenderEnStorage, RecibirSaludoStorage, RechazarCliente,
         IdentificarWorker, ContarWorker, RecibirOperacion, Operar, DespedirWorker, LeeStorage, PasaStorage
<1>2. DOMAIN a_servidor' = Enlaces /\ DOMAIN a_cliente' = Enlaces
  BY DEF FormaEnchufes, HiloDelStorage, AtenderEnStorage, RecibirSaludoStorage, RechazarCliente,
         IdentificarWorker, ContarWorker, RecibirOperacion, Operar, DespedirWorker, LeeStorage,
         Resto, AlCliente, Enviado, enchufes
<1>3. cerrado' \in [Enlaces -> SUBSET {"cliente", "servidor"}]
  BY DEF FormaEnchufes, HiloDelStorage, AtenderEnStorage, RecibirSaludoStorage, RechazarCliente,
         IdentificarWorker, ContarWorker, RecibirOperacion, Operar, DespedirWorker, LeeStorage,
         Cerrar, enchufes
<1>4. UNCHANGED <<caidos, hilo_master, control, worker>>
  BY DEF HiloDelStorage, master
<1> QED
  BY <1>1, <1>2, <1>3, <1>4 DEF FormaEnchufes, FormaMaster, FormaControl, FormaWorker

LEMMA FormaHiloControl ==
    ASSUME Formas, NEW q \in QueryControls, ProgramaControl(q) \/ Enter(q) PROVE Formas'
<1> USE DEF Formas
<1>1. FormaControl' /\ FormaMaster'
  BY ZenonT(60), LosEnlaces
     DEF FormaControl, CamposControl, FormaMaster, ProgramaControl, Enter, ConectarQueryControl, Controlar,
         Acepta, PasaControl, LeeControl, Saludar, RecibirOk, Escuchar, Procesar, Terminar, PulsarEnter, master
<1>2. DOMAIN a_servidor' = Enlaces /\ DOMAIN a_cliente' = Enlaces
  BY DEF FormaEnchufes, ProgramaControl, Enter, ConectarQueryControl, Controlar,
         LeeControl, Saludar, RecibirOk, Escuchar, Procesar, Terminar, PulsarEnter,
         Resto, AlServidor, Enviado, enchufes
<1>3. cerrado' \in [Enlaces -> SUBSET {"cliente", "servidor"}]
  BY DEF FormaEnchufes, ProgramaControl, Enter, ConectarQueryControl, Controlar,
         LeeControl, Saludar, RecibirOk, Escuchar, Procesar, Terminar, PulsarEnter, Cerrar, enchufes
<1>4. UNCHANGED <<caidos, hilo_storage, worker>>
  BY DEF ProgramaControl, Enter, ConectarQueryControl, storage
<1> QED
  BY <1>1, <1>2, <1>3, <1>4 DEF FormaEnchufes, FormaStorage, FormaWorker

LEMMA FormaHiloWorker ==
    ASSUME Formas, NEW w \in Workers, Principal(w) \/ Listener(w) \/ HiloDeQuery(w) PROVE Formas'
<1> USE DEF Formas
<1>1. FormaMaster' /\ FormaStorage'
  BY LosEnlaces
     DEF FormaMaster, FormaStorage, Principal, Listener, HiloDeQuery, ConectarWorkerAStorage,
         ConectarWorkerAMaster, Acepta, Rechazado, master, storage
<1>2. CASE Principal(w) \/ Listener(w)
  <2>1. FormaWorker'
    BY <1>2
       DEF FormaWorker, CamposWorker, Principal, Listener, ConectarWorkerAStorage, ConectarWorkerAMaster,
           Rechazado, Arrancar, SaludarStorage, RecibirOkStorage, RecibirTamanioBloque, SaludarMaster,
           RecibirOkMaster, RecibirPayloadOk, Oir, EscucharMaster, AtenderMaster
  <2>2. DOMAIN a_servidor' = Enlaces /\ DOMAIN a_cliente' = Enlaces
    BY <1>2
       DEF FormaEnchufes, Principal, Listener, ConectarWorkerAStorage, ConectarWorkerAMaster,
           Rechazado, Arrancar, SaludarStorage, RecibirOkStorage, RecibirTamanioBloque, SaludarMaster,
           RecibirOkMaster, RecibirPayloadOk, Oir, EscucharMaster, AtenderMaster,
           Resto, AlServidor, Enviado, enchufes
  <2>3. cerrado' \in [Enlaces -> SUBSET {"cliente", "servidor"}]
    BY <1>2
       DEF FormaEnchufes, Principal, Listener, ConectarWorkerAStorage, ConectarWorkerAMaster,
           Rechazado, Arrancar, SaludarStorage, RecibirOkStorage, RecibirTamanioBloque, SaludarMaster,
           RecibirOkMaster, RecibirPayloadOk, Oir, EscucharMaster, AtenderMaster, Cerrar, enchufes
  <2>4. UNCHANGED <<caidos, control>>
    BY <1>2 DEF Principal, Listener, ConectarWorkerAStorage, ConectarWorkerAMaster
  <2> QED
    BY <1>1, <2>1, <2>2, <2>3, <2>4 DEF FormaEnchufes, FormaControl
<1>3. CASE HiloDeQuery(w)
  <2>1. FormaWorker'
    <3> USE DEF FormaWorker, CamposWorker, Ejecuta
    <3>1. CASE Comenzar(w)
      BY <3>1 DEF Comenzar
    <3>2. CASE TomarLinea(w)
      <4>1. worker[w].ejecuta # "semaforo"
        BY <3>2, AlTomarLinea
      <4>2. CASE worker[w].pc = Len(Lineas(w))
        <5>1. worker' = [worker EXCEPT ![w].ejecuta = "libre", ![w].query_en_ejecucion = FALSE]
          BY <3>2, <4>2, AlTomarLinea, Zenon
        <5> QED
          BY <4>1, <5>1
      <4>3. CASE worker[w].pc # Len(Lineas(w))
        <5> DEFINE i == Instruccion(w)
                   p == IF i.tipo \in {"READ", "WRITE"} THEN Paginas(w, i) ELSE <<>>
        <5>1. PICK t \in Tareas(w, i) : worker' = [worker EXCEPT ![w].ejecuta = "instruccion",
                                                                ![w].tarea = t, ![w].paginas = p]
          BY <3>2, <4>3, AlTomarLinea, Zenon
        <5> HIDE DEF p
        <5> QED
          BY <4>1, <5>1
      <4> QED
        BY <4>2, <4>3
    <3>3. CASE AccederPagina(w)
      BY <3>3 DEF AccederPagina
    <3>4. CASE TerminarInstruccion(w)
      BY <3>4 DEF TerminarInstruccion
    <3>5. CASE Informar(w)
      BY <3>5 DEF Informar
    <3>6. CASE Pedir(w)
      BY <3>6 DEF Pedir, Toca
    <3>7. CASE EsperarRespuesta(w)
      BY <3>7 DEF EsperarRespuesta
    <3>8. CASE LeerRespuesta(w)
      <4>1. worker[w].ejecuta # "semaforo"
        BY <3>8 DEF LeerRespuesta
      <4>2. \E b, c : worker' = [worker EXCEPT ![w].ejecuta = "semaforo",
                                              ![w].sem_respuesta_storage = IF b THEN @ + 1 ELSE @,
                                              ![w].query_en_ejecucion = c]
        BY <3>8, Zenon DEF LeerRespuesta
      <4> QED
        BY <4>1, <4>2
    <3>9. CASE EsperarSemaforo(w)
      BY <3>9 DEF EsperarSemaforo
    <3>10. CASE LeerContenido(w)
      BY <3>10, SMTT(30) DEF LeerContenido
    <3> QED
      BY <1>3, <3>1, <3>2, <3>3, <3>4, <3>5, <3>6, <3>7, <3>8, <3>9, <3>10, SMTT(30) DEF HiloDeQuery, EjecutarQuery
  <2>2. DOMAIN a_servidor' = Enlaces /\ DOMAIN a_cliente' = Enlaces
    BY <1>3
       DEF FormaEnchufes, HiloDeQuery, EjecutarQuery, Comenzar, TomarLinea, AccederPagina,
           TerminarInstruccion, Informar, Pedir, EsperarRespuesta, LeerRespuesta, EsperarSemaforo,
           LeerContenido, Resto, AlServidor, Enviado, enchufes
  <2>3. UNCHANGED <<cerrado, caidos, control>>
    BY <1>3
       DEF HiloDeQuery, EjecutarQuery, Comenzar, TomarLinea, AccederPagina,
           TerminarInstruccion, Informar, Pedir, EsperarRespuesta, LeerRespuesta, EsperarSemaforo,
           LeerContenido, enchufes
  <2> QED
    BY <1>1, <2>1, <2>2, <2>3 DEF FormaEnchufes, FormaControl
<1> QED
  BY <1>2, <1>3

LEMMA FormaAjeno ==
    ASSUME Formas, NEW x \in Ajenos, AjenoLlamaAlMaster(x) \/ AjenoLlamaAlStorage(x) \/ AjenoCuelga(x)
    PROVE  Formas'
BY LosEnlaces
   DEF Formas, FormaEnchufes, FormaMaster, FormaStorage, FormaControl, FormaWorker, AjenoLlamaAlMaster,
       AjenoLlamaAlStorage, AjenoCuelga, Acepta, AlServidor, Enviado, Cerrar, master, storage

LEMMA FormaCaer ==
    ASSUME Formas, Caer PROVE Formas'
<1> USE DEF Formas
<1>1. FormaEnchufes'
  BY DEF FormaEnchufes, Caer, CaerMaster, CaerStorage, CaerWorker, Cerrar
<1>2. FormaMaster' /\ FormaStorage' /\ FormaControl'
  BY DEF FormaMaster, FormaStorage, FormaControl, Caer, CaerMaster, CaerStorage, CaerWorker, HiloMaster,
         HiloStorage, master, storage
<1>3. FormaWorker'
  <2>1. ASSUME NEW w \in Workers, CaerWorker(w) PROVE FormaWorker'
    BY <2>1 DEF FormaWorker, CamposWorker, CaerWorker, WorkerInicial
  <2>2. ASSUME UNCHANGED worker PROVE FormaWorker'
    BY <2>2 DEF FormaWorker
  <2> QED
    BY <2>1, <2>2 DEF Caer
<1> QED
  BY <1>1, <1>2, <1>3

\* Formas is inductive.
LEMMA FormasSiempre == Spec => []Formas
<1>1. Init => Formas
  BY DEF Init, InitEnchufes, InitMaster, InitStorage, InitControl, InitWorker, HiloMaster, HiloStorage,
         ControlInicial, WorkerInicial, Formas, FormaEnchufes, FormaMaster, FormaStorage, FormaControl,
         FormaWorker, CamposControl, CamposWorker
<1>2. ASSUME Formas, [Next]_vars PROVE Formas'
  <2>1. CASE UNCHANGED vars
    BY <1>2, <2>1 DEF Formas, FormaEnchufes, FormaMaster, FormaStorage, FormaControl, FormaWorker, vars,
           enchufes, master, storage
  <2>2. CASE Next
    BY <1>2, <2>2, FormaHiloMaster, FormaHiloStorage, FormaHiloControl, FormaHiloWorker, FormaAjeno, FormaCaer
       DEF Next
  <2> QED
    BY <1>2, <2>1, <2>2
<1> QED
  BY <1>1, <1>2, PTL DEF Spec

-----------------------------------------------------------------------------
(* What each actor may touch                                               *)

Igual(c) == a_servidor'[c] = a_servidor[c] /\ a_cliente'[c] = a_cliente[c] /\ cerrado'[c] = cerrado[c]

LEMMA AlcanceMaster ==
    ASSUME Formas, NEW x \in Clientes, HiloDelMaster(x)
    PROVE  /\ UNCHANGED <<caidos, storage, control, worker>>
           /\ hilo_master[x].paso \notin {"sin_conectar", "fin"} /\ hilo_master'[x].paso # "sin_conectar"
           /\ \A y \in Clientes \ {x} : hilo_master'[y] = hilo_master[y]
           /\ \A y \in Clientes \ {x} : a_servidor'[AMaster(y)] = a_servidor[AMaster(y)]
           /\ \A y \in Conectables : Igual(AStorage(y))
<1> USE DEF HiloDelMaster, AtenderEnMaster, RecibirSaludo, SaludarWorker, SaludarQueryControl,
            AgregarWorker, AgregarQuery, PlanificarFifo, RecibirDeWorker, ProcesarLectura, ProcesarFin,
            DesconectarWorker, DejarDeMirar, LeeMaster, Despachar, Responder, LeeMensaje, Finalizar
<1>1. /\ hilo_master[x].paso \notin {"sin_conectar", "fin"} /\ hilo_master'[x].paso # "sin_conectar"
      /\ \A y \in Clientes \ {x} : hilo_master'[y] = hilo_master[y]
  BY DEF Formas, FormaMaster, EnMaster, PasaMaster, Vuelta
<1>2. a_servidor' = Resto(a_servidor, AMaster(x)) \/ UNCHANGED a_servidor
  BY DEF enchufes
<1>3. (\E y, p : AlCliente(AMaster(y), p)) \/ UNCHANGED a_cliente
  BY DEF enchufes
<1>4. (\E y : Cerrar({AMaster(y)}, "servidor")) \/ UNCHANGED cerrado
  BY DEF enchufes
<1>5. \A c \in Enlaces \ {AMaster(x)} : a_servidor'[c] = a_servidor[c]
  BY <1>2 DEF Resto, Formas, FormaEnchufes
<1>6. \A c \in Enlaces : (\A y : c # AMaster(y)) => a_cliente'[c] = a_cliente[c] /\ cerrado'[c] = cerrado[c]
  BY <1>3, <1>4 DEF AlCliente, Enviado, Cerrar, Formas, FormaEnchufes
<1> QED
  BY <1>1, <1>5, <1>6, LosEnlaces DEF Igual

LEMMA AlcanceStorage ==
    ASSUME Formas, NEW x \in Conectables, HiloDelStorage(x)
    PROVE  /\ UNCHANGED <<caidos, master, control, worker>>
           /\ hilo_storage[x].paso \notin {"sin_conectar", "fin"} /\ hilo_storage'[x].paso # "sin_conectar"
           /\ \A y \in Conectables \ {x} : hilo_storage'[y] = hilo_storage[y]
           /\ \A c \in Enlaces \ {AStorage(x)} : Igual(c)
<1> USE DEF HiloDelStorage, AtenderEnStorage, RecibirSaludoStorage, RechazarCliente, IdentificarWorker,
            ContarWorker, RecibirOperacion, Operar, DespedirWorker, LeeStorage
<1>1. /\ hilo_storage[x].paso \notin {"sin_conectar", "fin"} /\ hilo_storage'[x].paso # "sin_conectar"
      /\ \A y \in Conectables \ {x} : hilo_storage'[y] = hilo_storage[y]
  BY DEF Formas, FormaStorage, EnStorage, PasaStorage
<1>2. a_servidor' = Resto(a_servidor, AStorage(x)) \/ UNCHANGED a_servidor
  BY DEF enchufes
<1>3. (\E p : AlCliente(AStorage(x), p)) \/ UNCHANGED a_cliente
  BY DEF enchufes
<1>4. Cerrar({AStorage(x)}, "servidor") \/ UNCHANGED cerrado
  BY DEF enchufes
<1> QED
  BY <1>1, <1>2, <1>3, <1>4 DEF Igual, Resto, AlCliente, Enviado, Cerrar, Formas, FormaEnchufes

LEMMA AlcanceControl ==
    ASSUME Formas, NEW q \in QueryControls, ProgramaControl(q) \/ Enter(q)
    PROVE  /\ UNCHANGED <<caidos, planes, storage, worker>>
           /\ \A p \in QueryControls \ {q} : control'[p] = control[p]
           /\ \/ UNCHANGED hilo_master
              \/ /\ control[q].paso = "inicio" /\ control'[q].paso # "inicio" /\ "master" \notin caidos
                 /\ hilo_master' = Acepta(hilo_master, q)
           /\ control'[q].paso = "inicio" => control[q].paso = "inicio"
           /\ \A c \in Enlaces \ {AMaster(q)} : Igual(c)
<1> USE DEF ProgramaControl, Enter, ConectarQueryControl, Controlar, Saludar, RecibirOk, Escuchar, Procesar,
            Terminar, PulsarEnter
<1>1. /\ \A p \in QueryControls \ {q} : control'[p] = control[p]
      /\ control'[q].paso = "inicio" => control[q].paso = "inicio"
  BY ZenonT(60) DEF Formas, FormaControl, CamposControl, PasaControl, LeeControl, EnControl
<1>2. \/ UNCHANGED <<hilo_master, planes>>
      \/ /\ control[q].paso = "inicio" /\ control'[q].paso # "inicio" /\ "master" \notin caidos
         /\ hilo_master' = Acepta(hilo_master, q) /\ UNCHANGED planes
  BY DEF Formas, FormaControl, CamposControl, PasaControl, EnControl, master, planes
<1>3. (\E p : AlServidor(AMaster(q), p)) \/ UNCHANGED a_servidor
  BY DEF enchufes
<1>4. a_cliente' = Resto(a_cliente, AMaster(q)) \/ UNCHANGED a_cliente
  BY DEF enchufes, LeeControl
<1>5. Cerrar({AMaster(q)}, "cliente") \/ UNCHANGED cerrado
  BY DEF enchufes
<1>6. \A c \in Enlaces \ {AMaster(q)} : Igual(c)
  BY <1>3, <1>4, <1>5 DEF Igual, Resto, AlServidor, Enviado, Cerrar, Formas, FormaEnchufes
<1>7. UNCHANGED <<caidos, storage, worker>>
  OBVIOUS
<1> QED
  BY <1>1, <1>2, <1>6, <1>7

LEMMA AlcanceWorker ==
    ASSUME Formas, NEW w \in Workers, Principal(w) \/ Listener(w) \/ HiloDeQuery(w)
    PROVE  /\ UNCHANGED <<caidos, planes, workers_conectados, worker_id_counter, control>>
           /\ \A v \in Workers \ {w} : worker'[v] = worker[v]
           /\ \/ UNCHANGED hilo_master
              \/ ConectarWorkerAMaster(w) /\ hilo_master' = Acepta(hilo_master, w) /\ "master" \notin caidos
           /\ \/ UNCHANGED hilo_storage
              \/ ConectarWorkerAStorage(w) /\ hilo_storage' = Acepta(hilo_storage, w) /\ "storage" \notin caidos
           /\ \A c \in Enlaces \ {AMaster(w), AStorage(w)} : Igual(c)
<1> USE DEF Principal, Listener, HiloDeQuery, ConectarWorkerAStorage, ConectarWorkerAMaster,
            Rechazado, Arrancar, SaludarStorage, RecibirOkStorage, RecibirTamanioBloque, SaludarMaster,
            RecibirOkMaster, RecibirPayloadOk, Oir, EscucharMaster, AtenderMaster,
            EjecutarQuery, Comenzar, AccederPagina, TerminarInstruccion, Informar, Pedir,
            EsperarRespuesta, LeerRespuesta, EsperarSemaforo, LeerContenido
<1>1. \A v \in Workers \ {w} : worker'[v] = worker[v]
  <2>1. CASE TomarLinea(w)
    BY <2>1 DEF TomarLinea, Formas, FormaWorker
  <2>2. CASE ~TomarLinea(w)
    BY <2>2 DEF Formas, FormaWorker
  <2> QED
    BY <2>1, <2>2
<1>2. /\ UNCHANGED <<caidos, planes, workers_conectados, worker_id_counter, control>>
      /\ \/ UNCHANGED hilo_master
         \/ ConectarWorkerAMaster(w) /\ hilo_master' = Acepta(hilo_master, w) /\ "master" \notin caidos
      /\ \/ UNCHANGED hilo_storage
         \/ ConectarWorkerAStorage(w) /\ hilo_storage' = Acepta(hilo_storage, w) /\ "storage" \notin caidos
  BY DEF master, storage, planes
<1>3. \/ AlServidor(AMaster(w), HandshakeWorker(worker[w].id)) \/ UNCHANGED a_servidor
      \/ \E p : AlServidor(AMaster(w), p) \/ AlServidor(AStorage(w), p)
  BY DEF enchufes, TomarLinea
<1>4. \/ a_cliente' = Resto(a_cliente, AMaster(w)) \/ a_cliente' = Resto(a_cliente, AStorage(w))
      \/ UNCHANGED a_cliente
  BY DEF enchufes, TomarLinea
<1>5. Cerrar({AMaster(w), AStorage(w)}, "cliente") \/ UNCHANGED cerrado
  BY DEF enchufes, TomarLinea
<1>6. \A c \in Enlaces \ {AMaster(w), AStorage(w)} : Igual(c)
  BY <1>3, <1>4, <1>5 DEF Igual, Resto, AlServidor, Enviado, Cerrar, Formas, FormaEnchufes
<1> QED
  BY <1>1, <1>2, <1>6

-----------------------------------------------------------------------------
(* Who has connected, and how many Workers the Storage attends to          *)

AntesDelMaster == {"inicio", "storage", "ok_storage", "bloque", "conectar_master"}

\* Before a client connects no thread attends to it. Without the Master, none does.
Comienzos ==
    /\ \A w \in Workers :
          /\ worker[w].paso = "inicio" => hilo_storage[w].paso = "sin_conectar"
          /\ worker[w].paso \in AntesDelMaster => hilo_master[w].paso = "sin_conectar"
    /\ \A q \in QueryControls : control[q].paso = "inicio" => hilo_master[q].paso = "sin_conectar"
    /\ "master" \in caidos => \A x \in Clientes : hilo_master[x].paso \in {"sin_conectar", "fin"}
    /\ "storage" \in caidos => \A x \in Conectables : hilo_storage[x].paso \in {"sin_conectar", "fin"}

\* How a Worker starts: it connects to the Storage and later to the Master.
LEMMA AvanceWorker ==
    ASSUME Formas, NEW w \in Workers, Principal(w) \/ Listener(w) \/ HiloDeQuery(w)
    PROVE  /\ worker'[w].paso # "inicio"
              \/ (worker[w].paso = "inicio" /\ UNCHANGED <<hilo_storage, hilo_master>>)
           /\ worker'[w].paso \in AntesDelMaster =>
                 worker[w].paso \in AntesDelMaster /\ UNCHANGED hilo_master
<1> USE DEF Formas, FormaWorker, CamposWorker, AntesDelMaster, EnWorker
<1>1. CASE Principal(w)
  BY <1>1
     DEF Principal, ConectarWorkerAStorage, ConectarWorkerAMaster,
         Rechazado, Arrancar, SaludarStorage, RecibirOkStorage, RecibirTamanioBloque, SaludarMaster,
         RecibirOkMaster, RecibirPayloadOk, master
<1>2. CASE Listener(w)
  BY <1>2 DEF Listener, Oir, EscucharMaster, AtenderMaster
<1>3. CASE HiloDeQuery(w)
  <2>1. UNCHANGED <<hilo_master, hilo_storage>>
    BY <1>3 DEF HiloDeQuery, master, storage
  <2>2. CASE TomarLinea(w)
    <3>1. worker'[w].paso = worker[w].paso
      BY <2>2 DEF TomarLinea
    <3> QED
      BY <2>1, <3>1
  <2>3. CASE ~TomarLinea(w)
    <3>1. worker'[w].paso = worker[w].paso
      <4>1. CASE AccederPagina(w) \/ Informar(w) \/ Pedir(w)
        BY <4>1 DEF AccederPagina, Informar, Pedir
      <4>5. CASE Comenzar(w)
        BY <4>5 DEF Comenzar
      <4>4. CASE TerminarInstruccion(w)
        BY <4>4 DEF TerminarInstruccion
      <4>2. CASE EsperarRespuesta(w) \/ EsperarSemaforo(w) \/ LeerContenido(w)
        BY <4>2 DEF EsperarRespuesta, EsperarSemaforo, LeerContenido
      <4>3. CASE LeerRespuesta(w)
        BY <4>3 DEF LeerRespuesta
      <4> QED
        BY <1>3, <2>3, <4>1, <4>2, <4>3, <4>4, <4>5 DEF HiloDeQuery, EjecutarQuery
    <3> QED
      BY <2>1, <3>1
  <2> QED
    BY <2>2, <2>3
<1> QED
  BY <1>1, <1>2, <1>3

LEMMA ComienzosPaso ==
    ASSUME Formas, Comienzos, [Next]_vars PROVE Comienzos'
<1> USE DEF Comienzos
<1>1. CASE UNCHANGED vars
  BY <1>1 DEF vars, master, storage
<1>2. ASSUME NEW x \in Clientes, HiloDelMaster(x) PROVE Comienzos'
  BY <1>2, AlcanceMaster, LosEnlaces DEF storage
<1>3. ASSUME NEW x \in Conectables, HiloDelStorage(x) PROVE Comienzos'
  BY <1>3, AlcanceStorage, LosEnlaces DEF master
<1>4. ASSUME NEW q \in QueryControls, ProgramaControl(q) \/ Enter(q) PROVE Comienzos'
  BY <1>4, AlcanceControl, LosEnlaces DEF storage, Acepta, Formas, FormaMaster
<1>5. ASSUME NEW w \in Workers, Principal(w) \/ Listener(w) \/ HiloDeQuery(w) PROVE Comienzos'
  BY <1>5, AlcanceWorker, AvanceWorker, LosEnlaces
     DEF Acepta, Formas, FormaMaster, FormaStorage
<1>6. ASSUME NEW x \in Ajenos, AjenoLlamaAlMaster(x) \/ AjenoLlamaAlStorage(x) \/ AjenoCuelga(x)
      PROVE  Comienzos'
  <2>1. CASE AjenoLlamaAlMaster(x)
    BY <2>1, LosEnlaces DEF AjenoLlamaAlMaster, Acepta, Formas, FormaMaster, storage
  <2>2. CASE AjenoLlamaAlStorage(x)
    BY <2>2, LosEnlaces DEF AjenoLlamaAlStorage, Acepta, Formas, FormaStorage, master
  <2>3. CASE AjenoCuelga(x)
    BY <2>3 DEF AjenoCuelga, master, storage
  <2> QED
    BY <1>6, <2>1, <2>2, <2>3
<1>7. CASE Caer
  <2>1. CASE CaerMaster /\ UNCHANGED <<storage, control, worker>>
    BY <2>1, LosEnlaces DEF CaerMaster, EnMaster, HiloMaster, storage
  <2>2. CASE CaerStorage /\ UNCHANGED <<master, control, worker>>
    BY <2>2, LosEnlaces DEF CaerStorage, EnStorage, HiloStorage, master
  <2>3. ASSUME NEW w \in Workers, CaerWorker(w) /\ UNCHANGED <<master, storage, control>>
        PROVE  Comienzos'
    <3>1. w \notin {"master", "storage"}
      BY ClientesAssumption
    <3> QED
      BY <2>3, <3>1 DEF CaerWorker, WorkerInicial, Formas, FormaWorker, AntesDelMaster, master, storage
  <2> QED
    BY <1>7, <2>1, <2>2, <2>3 DEF Caer
<1> QED
  BY <1>1, <1>2, <1>3, <1>4, <1>5, <1>6, <1>7 DEF Next

LEMMA ComienzosSiempre == Spec => []Comienzos
<1>1. Init => Comienzos
  BY LosEnlaces, ClientesAssumption
     DEF Init, InitEnchufes, InitMaster, InitStorage, HiloMaster, HiloStorage, Comienzos
<1> QED
  BY <1>1, FormasSiempre, ComienzosPaso, PTL DEF Spec

Contados == {x \in Conectables : hilo_storage[x].paso \in {"espera", "payload", "despedir"}}
Cuenta   == workers_conectados = Cardinality(Contados)

LEMMA CuentaPaso ==
    ASSUME Formas, Comienzos, Cuenta, [Next]_vars PROVE Cuenta'
<1>0. IsFiniteSet(Contados)
  BY ClientesAssumption, FS_Union, FS_Subset DEF Contados, Conectables
<1>1. ASSUME NEW x \in Conectables, HiloDelStorage(x) PROVE Cuenta'
  <2>0. \A y \in Conectables \ {x} : hilo_storage'[y] = hilo_storage[y]
    BY <1>1, AlcanceStorage
  <2>1. CASE ContarWorker(x)
    <3>1. Contados' = Contados \union {x} /\ x \notin Contados
      BY <2>0, <2>1 DEF ContarWorker, PasaStorage, EnStorage, Contados, Formas, FormaStorage
    <3> QED
      BY <1>0, <2>1, <3>1, FS_AddElement, FS_CardinalityType DEF Cuenta, ContarWorker
  <2>2. CASE DespedirWorker(x)
    <3>1. Contados' = Contados \ {x} /\ x \in Contados
      BY <2>0, <2>2 DEF DespedirWorker, PasaStorage, EnStorage, Contados, Formas, FormaStorage
    <3> QED
      BY <1>0, <2>2, <3>1, FS_RemoveElement, FS_CardinalityType DEF Cuenta, DespedirWorker
  <2>3. CASE RecibirSaludoStorage(x) \/ RechazarCliente(x) \/ IdentificarWorker(x)
             \/ RecibirOperacion(x) \/ Operar(x)
    <3>1. Contados' = Contados /\ UNCHANGED workers_conectados
      BY <2>0, <2>3
         DEF RecibirSaludoStorage, RechazarCliente, IdentificarWorker, RecibirOperacion, Operar,
             LeeStorage, PasaStorage, EnStorage, Contados, Formas, FormaStorage
    <3> QED
      BY <3>1 DEF Cuenta
  <2> QED
    BY <1>1, <2>1, <2>2, <2>3 DEF HiloDelStorage, AtenderEnStorage
<1>2. ASSUME UNCHANGED <<hilo_storage, workers_conectados>> PROVE Cuenta'
  BY <1>2 DEF Cuenta, Contados
<1>3. ASSUME NEW x \in Conectables, hilo_storage' = Acepta(hilo_storage, x), UNCHANGED workers_conectados,
             hilo_storage[x].paso = "sin_conectar"
      PROVE  Cuenta'
  <2>1. Contados' = Contados
    BY <1>3 DEF Acepta, Contados, Formas, FormaStorage
  <2> QED
    BY <1>3, <2>1 DEF Cuenta
<1>4. ASSUME NEW w \in Workers, Principal(w) \/ Listener(w) \/ HiloDeQuery(w) PROVE Cuenta'
  <2>1. CASE UNCHANGED hilo_storage
    BY <1>2, <1>4, <2>1, AlcanceWorker
  <2>2. CASE ConectarWorkerAStorage(w) /\ hilo_storage' = Acepta(hilo_storage, w)
    BY <1>3, <1>4, <2>2, AlcanceWorker, LosEnlaces DEF ConectarWorkerAStorage, EnWorker, Comienzos
  <2> QED
    BY <1>4, <2>1, <2>2, AlcanceWorker
<1>5. ASSUME NEW x \in Ajenos, AjenoLlamaAlMaster(x) \/ AjenoLlamaAlStorage(x) \/ AjenoCuelga(x)
      PROVE  Cuenta'
  <2>1. CASE AjenoLlamaAlStorage(x)
    BY <1>3, <2>1, LosEnlaces DEF AjenoLlamaAlStorage, SinLlamar, EnStorage
  <2>2. CASE AjenoLlamaAlMaster(x) \/ AjenoCuelga(x)
    BY <1>2, <2>2 DEF AjenoLlamaAlMaster, AjenoCuelga, storage
  <2> QED
    BY <1>5, <2>1, <2>2
<1>6. CASE Caer
  <2>1. CASE CaerStorage
    <3>1. Contados' = {}
      BY <2>1 DEF CaerStorage, EnStorage, HiloStorage, Contados
    <3> QED
      BY <2>1, <3>1, FS_EmptySet DEF CaerStorage, Cuenta
  <2>2. CASE ~CaerStorage
    BY <1>2, <1>6, <2>2 DEF Caer, storage
  <2> QED
    BY <2>1, <2>2
<1>7. ASSUME NEW x \in Clientes, HiloDelMaster(x) PROVE Cuenta'
  BY <1>2, <1>7, AlcanceMaster DEF storage
<1>8. ASSUME NEW q \in QueryControls, ProgramaControl(q) \/ Enter(q) PROVE Cuenta'
  BY <1>2, <1>8, AlcanceControl DEF storage
<1>9. CASE UNCHANGED vars
  BY <1>2, <1>9 DEF vars, storage
<1> QED
  BY <1>1, <1>4, <1>5, <1>6, <1>7, <1>8, <1>9 DEF Next

LEMMA CuentaSiempre == Spec => []Cuenta
<1>1. Init => Cuenta
  <2>1. Init => Contados = {} /\ workers_conectados = 0
    BY DEF Init, InitStorage, HiloStorage, Contados
  <2> QED
    BY <2>1, FS_EmptySet DEF Cuenta
<1> QED
  BY <1>1, FormasSiempre, ComienzosSiempre, CuentaPaso, PTL DEF Spec

-----------------------------------------------------------------------------
(* The Master: its threads and its lists                                   *)

AtendidosMaster == {"planificar", "espera", "mensaje", "despedir"}

Listas ==
    /\ lista_workers_info \in Seq(Workers) /\ IsInjective(lista_workers_info)
    /\ disponible \subseteq Workers
    /\ queries_ready \in Seq(QueryControls) /\ IsInjective(queries_ready)
    /\ queries_exec \in [Workers -> QueryControls \union {SinQuery}]

\* A query is on one Worker or in READY once.
Repartidas ==
    /\ \A v, w \in Workers : queries_exec[v] = queries_exec[w] /\ queries_exec[v] # SinQuery => v = w
    /\ \A w \in Workers : queries_exec[w] \notin ToSet(queries_ready)

Aceptada(q) == q \in ToSet(queries_ready) \/ \E w \in Workers : queries_exec[w] = q

\* Whom the Master may still send something has its socket open.
Abiertos ==
    /\ \A x \in Clientes :
          /\ hilo_master[x].paso \in {"sin_conectar", "saludo", "identificar", "agregar"} =>
                "servidor" \notin cerrado[AMaster(x)]
          /\ hilo_master[x].paso \in {"espera", "mensaje", "despedir"} => x \in ToSet(lista_workers_info)
    /\ \A w \in ToSet(lista_workers_info) :
          hilo_master[w].paso \in AtendidosMaster /\ "servidor" \notin cerrado[AMaster(w)]
    /\ \A q \in QueryControls :
          Aceptada(q) => /\ hilo_master[q].paso \in {"planificar", "mirar"}
                         /\ "servidor" \notin cerrado[AMaster(q)]

Plan == Listas /\ Repartidas /\ Abiertos

Cierra(c) == "servidor" \in cerrado[c]

\* The clients close only their end.
LEMMA NoCierran ==
    ASSUME Formas,
           \/ \E q \in QueryControls : ProgramaControl(q) \/ Enter(q)
           \/ \E w \in Workers : Principal(w) \/ Listener(w) \/ HiloDeQuery(w)
           \/ \E x \in Ajenos : AjenoLlamaAlMaster(x) \/ AjenoLlamaAlStorage(x) \/ AjenoCuelga(x)
           \/ \E w \in Workers : CaerWorker(w)
    PROVE  \A c \in Enlaces : Cierra(c)' = Cierra(c)
<1>1. UNCHANGED cerrado \/ \E cs : Cerrar(cs, "cliente")
  <2>1. ASSUME NEW q \in QueryControls, ProgramaControl(q) \/ Enter(q)
        PROVE  UNCHANGED cerrado \/ \E cs : Cerrar(cs, "cliente")
    BY <2>1
       DEF ProgramaControl, Enter, ConectarQueryControl, Controlar, Saludar, RecibirOk, Escuchar, Procesar,
           Terminar, PulsarEnter, enchufes
  <2>2. ASSUME NEW w \in Workers, Principal(w) \/ Listener(w) \/ HiloDeQuery(w)
        PROVE  UNCHANGED cerrado \/ \E cs : Cerrar(cs, "cliente")
    BY <2>2
       DEF Principal, Listener, HiloDeQuery, ConectarWorkerAStorage, ConectarWorkerAMaster,
            Rechazado, Arrancar, SaludarStorage, RecibirOkStorage, RecibirTamanioBloque, SaludarMaster,
            RecibirOkMaster, RecibirPayloadOk, Oir, EscucharMaster, AtenderMaster,
            EjecutarQuery, Comenzar, TomarLinea, AccederPagina, TerminarInstruccion, Informar, Pedir,
            EsperarRespuesta, LeerRespuesta, EsperarSemaforo, LeerContenido, enchufes
  <2>3. ASSUME NEW x \in Ajenos, AjenoLlamaAlMaster(x) \/ AjenoLlamaAlStorage(x) \/ AjenoCuelga(x)
        PROVE  UNCHANGED cerrado \/ \E cs : Cerrar(cs, "cliente")
    BY <2>3 DEF AjenoLlamaAlMaster, AjenoLlamaAlStorage, AjenoCuelga
  <2>4. ASSUME NEW w \in Workers, CaerWorker(w) PROVE \E cs : Cerrar(cs, "cliente")
    BY <2>4 DEF CaerWorker
  <2> QED
    BY <2>1, <2>2, <2>3, <2>4, Zenon
<1> QED
  BY <1>1 DEF Cierra, Cerrar, Formas, FormaEnchufes

\* What the Storage closes is not the Master's.
LEMMA NoCierraStorage ==
    ASSUME Formas, \/ \E x \in Conectables : HiloDelStorage(x)
                   \/ CaerStorage
    PROVE  \A x \in Clientes : cerrado'[AMaster(x)] = cerrado[AMaster(x)]
<1>1. CASE CaerStorage
  BY <1>1, LosEnlaces DEF CaerStorage, Cerrar
<1>2. ASSUME NEW x \in Conectables, HiloDelStorage(x)
      PROVE  \A y \in Clientes : cerrado'[AMaster(y)] = cerrado[AMaster(y)]
  BY <1>2, AlcanceStorage, LosEnlaces DEF Igual
<1> QED
  BY <1>1, <1>2

\* A client that connects does so once.
LEMMA PlanConectar ==
    ASSUME Formas, Plan, UNCHANGED planes, \A c \in Enlaces : Cierra(c)' = Cierra(c),
           \/ UNCHANGED hilo_master
           \/ \E x \in Clientes : hilo_master[x].paso = "sin_conectar" /\ hilo_master' = Acepta(hilo_master, x)
    PROVE  Plan'
<1>1. Listas' /\ Repartidas' /\ UNCHANGED <<lista_workers_info, queries_ready, queries_exec>>
  BY DEF Plan, Listas, Repartidas, planes
<1>2. Abiertos'
  BY <1>1, ElementosLista, LosEnlaces, SMTT(60)
     DEF Plan, Listas, Abiertos, Aceptada, Acepta, Formas, FormaMaster, AtendidosMaster, Cierra
<1> QED
  BY <1>1, <1>2 DEF Plan

\* READY without its first query.
LEMMA SacarPrimera ==
    ASSUME NEW S, NEW s \in Seq(S), IsInjective(s), s # <<>>
    PROVE  /\ Tail(s) \in Seq(S) /\ IsInjective(Tail(s)) /\ Head(s) \in S
           /\ ToSet(Tail(s)) = ToSet(s) \ {Head(s)} /\ Head(s) \in ToSet(s)
<1>1. Len(s) \in Nat \ {0} /\ DOMAIN s = 1 .. Len(s)
  BY EmptySeq, LenProperties
<1>2. /\ Tail(s) \in Seq(S) /\ Len(Tail(s)) = Len(s) - 1
      /\ \A i \in 1 .. Len(Tail(s)) : Tail(s)[i] = s[i + 1]
  BY HeadTailProperties
<1>3. DOMAIN Tail(s) = 1 .. Len(s) - 1
  BY <1>2, LenProperties
<1>4. Head(s) = s[1] /\ Head(s) \in S
  BY <1>1, HeadTailProperties
<1> DEFINE t == Tail(s)
           h == Head(s)
<1> HIDE DEF t, h
<1>5. IsInjective(t)
  BY <1>1, <1>2, <1>3 DEF IsInjective, t
<1>6. ASSUME NEW x \in ToSet(t) PROVE x \in ToSet(s) \ {h}
  BY <1>1, <1>2, <1>3, <1>4, <1>6 DEF IsInjective, ToSet, t, h
<1>7. ASSUME NEW x \in ToSet(s) \ {h} PROVE x \in ToSet(t)
  <2>1. PICK k \in 1 .. Len(s) : s[k] = x
    BY <1>1 DEF ToSet
  <2>2. k - 1 \in 1 .. Len(s) - 1 /\ t[k - 1] = x
    BY <1>1, <1>2, <1>4, <2>1 DEF t, h
  <2> QED
    BY <1>3, <2>2 DEF ToSet, t
<1>8. h \in ToSet(s)
  BY <1>1, <1>4 DEF ToSet, h
<1> QED
  BY <1>2, <1>4, <1>5, <1>6, <1>7, <1>8 DEF t, h

\* Only the thread of x goes on, and it closes nothing: the lists do not change.
LEMMA PlanSigue ==
    ASSUME Formas, Plan, NEW x \in Clientes, UNCHANGED <<planes, cerrado>>,
           \A y \in Clientes \ {x} : hilo_master'[y] = hilo_master[y],
           hilo_master'[x].paso \in {"espera", "mensaje", "despedir"} =>
                 hilo_master[x].paso \in {"espera", "mensaje", "despedir"},
           hilo_master'[x].paso \in {"sin_conectar", "saludo", "identificar", "agregar"} =>
                 hilo_master[x].paso \in {"sin_conectar", "saludo", "identificar", "agregar"},
           hilo_master[x].paso \in AtendidosMaster => hilo_master'[x].paso \in AtendidosMaster,
           x \in QueryControls /\ Aceptada(x) => hilo_master'[x].paso \in {"planificar", "mirar"}
    PROVE  Plan'
<1>1. Listas' /\ Repartidas' /\ UNCHANGED <<lista_workers_info, queries_ready, queries_exec>>
  BY DEF Plan, Listas, Repartidas, planes
<1>2. \A w \in ToSet(lista_workers_info) : w \in Clientes
  BY ElementosLista, LosEnlaces DEF Plan, Listas
<1>3. Abiertos'
  BY <1>1, <1>2, LosEnlaces DEF Plan, Abiertos, Aceptada
<1> QED
  BY <1>1, <1>3 DEF Plan

LEMMA PlanSaludo ==
    ASSUME Formas, Plan, NEW x \in Clientes,
           RecibirSaludo(x) \/ SaludarWorker(x) \/ SaludarQueryControl(x)
    PROVE  Plan'
<1>1. hilo_master[x].paso \in {"saludo", "identificar"}
  BY DEF RecibirSaludo, SaludarWorker, SaludarQueryControl, EnMaster
<1>2. \A y \in Clientes \ {x} : hilo_master'[y] = hilo_master[y]
  BY DEF RecibirSaludo, SaludarWorker, SaludarQueryControl, LeeMaster, Despachar, Responder, PasaMaster,
         Formas, FormaMaster
<1>3. UNCHANGED <<lista_workers_info, disponible, queries_ready, queries_exec>>
  BY DEF RecibirSaludo, SaludarWorker, SaludarQueryControl, Despachar, planes
<1>4. \/ UNCHANGED cerrado /\ hilo_master'[x].paso \in {"identificar", "agregar"}
      \/ Cerrar({AMaster(x)}, "servidor") /\ hilo_master'[x].paso = "fin"
  BY DEF RecibirSaludo, SaludarWorker, SaludarQueryControl, LeeMaster, Despachar, Responder, PasaMaster,
         Formas, FormaMaster
<1>5. Listas' /\ Repartidas'
  BY <1>3 DEF Plan, Listas, Repartidas
<1>6. \A w \in ToSet(lista_workers_info) : w \in Clientes
  BY ElementosLista, LosEnlaces DEF Plan, Listas
<1>7. \A y \in Clientes \ {x} : cerrado'[AMaster(y)] = cerrado[AMaster(y)]
  BY <1>4, LosEnlaces DEF Cerrar
<1>8. Abiertos'
  BY <1>1, <1>2, <1>3, <1>4, <1>6, <1>7, LosEnlaces DEF Plan, Abiertos, Aceptada, AtendidosMaster
<1> QED
  BY <1>5, <1>8 DEF Plan

LEMMA PlanAgregar ==
    ASSUME Formas, Plan, NEW x \in Clientes, AgregarWorker(x) \/ AgregarQuery(x)
    PROVE  Plan'
<1>1. \A y \in Clientes \ {x} : hilo_master'[y] = hilo_master[y]
  BY DEF AgregarWorker, AgregarQuery, PasaMaster, Formas, FormaMaster
<1>2. hilo_master[x].paso = "agregar" /\ hilo_master'[x].paso = "planificar" /\ UNCHANGED cerrado
  BY DEF AgregarWorker, AgregarQuery, PasaMaster, EnMaster, enchufes, Formas, FormaMaster
<1>3. \A w \in ToSet(lista_workers_info) : w \in Clientes
  BY ElementosLista, LosEnlaces DEF Plan, Listas
<1>4. CASE AgregarWorker(x)
  <2>1. x \in Workers /\ x \notin ToSet(lista_workers_info)
    BY <1>2, <1>4 DEF AgregarWorker, Plan, Abiertos, AtendidosMaster
  <2>2. /\ lista_workers_info' \in Seq(Workers) /\ IsInjective(lista_workers_info')
        /\ ToSet(lista_workers_info') = ToSet(lista_workers_info) \union {x}
    BY <1>4, <2>1, AgregarLista DEF AgregarWorker, Plan, Listas
  <2>3. Listas' /\ Repartidas' /\ UNCHANGED <<queries_ready, queries_exec>>
    BY <1>4, <2>1, <2>2 DEF AgregarWorker, Plan, Listas, Repartidas
  <2>4. Abiertos'
    BY <1>1, <1>2, <1>3, <2>2, <2>3, LosEnlaces DEF Plan, Abiertos, Aceptada, AtendidosMaster
  <2> QED
    BY <2>3, <2>4 DEF Plan
<1>5. CASE AgregarQuery(x)
  <2>1. x \in QueryControls /\ ~Aceptada(x) /\ x # SinQuery
    BY <1>2, <1>5, SinQueryAssumption DEF AgregarQuery, Plan, Abiertos
  <2>2. /\ queries_ready' \in Seq(QueryControls) /\ IsInjective(queries_ready')
        /\ ToSet(queries_ready') = ToSet(queries_ready) \union {x}
    BY <1>5, <2>1, AgregarLista DEF AgregarQuery, Plan, Listas, Aceptada
  <2>3. Listas' /\ UNCHANGED <<lista_workers_info, queries_exec>>
    BY <1>5, <2>2 DEF AgregarQuery, Plan, Listas
  <2>4. Repartidas'
    BY <2>1, <2>2, <2>3 DEF Plan, Repartidas, Aceptada
  <2>5. Abiertos'
    BY <1>1, <1>2, <1>3, <2>2, <2>3, LosEnlaces DEF Plan, Abiertos, Aceptada, AtendidosMaster
  <2> QED
    BY <2>3, <2>4, <2>5 DEF Plan
<1> QED
  BY <1>4, <1>5

LEMMA PlanPlanificar ==
    ASSUME Formas, Plan, NEW x \in Clientes, PlanificarFifo(x)
    PROVE  Plan'
<1>1. \A y \in Clientes \ {x} : hilo_master'[y] = hilo_master[y]
  BY DEF PlanificarFifo, PasaMaster, Formas, FormaMaster
<1>2. /\ hilo_master[x].paso = "planificar" /\ hilo_master'[x].paso = Vuelta(x)
      /\ UNCHANGED <<cerrado, lista_workers_info>>
  BY DEF PlanificarFifo, PasaMaster, EnMaster, Formas, FormaMaster
<1>3. \A w \in ToSet(lista_workers_info) : w \in Clientes /\ w \in Workers
  BY ElementosLista, LosEnlaces DEF Plan, Listas
<1>4. /\ x \in QueryControls => Vuelta(x) = "mirar"
      /\ x \in ToSet(lista_workers_info) => Vuelta(x) = "espera"
      /\ Vuelta(x) = "espera" => x \in ToSet(lista_workers_info)
      /\ Vuelta(x) \in {"mirar", "espera", "fin"}
  <2>1. Contains(lista_workers_info, x) <=> x \in ToSet(lista_workers_info)
    BY ElementosLista DEF Contains, Plan, Listas
  <2> QED
    BY <1>3, <2>1, LosEnlaces DEF Vuelta
<1>5. CASE queries_ready = <<>> \/ Libres = {}
  <2>1. Listas' /\ Repartidas' /\ UNCHANGED <<queries_ready, queries_exec>>
    BY <1>2, <1>5 DEF PlanificarFifo, Plan, Listas, Repartidas
  <2>2. Abiertos'
    <3>1. \A y \in Clientes :
            /\ hilo_master'[y].paso \in {"sin_conectar", "saludo", "identificar", "agregar"} =>
                  "servidor" \notin cerrado'[AMaster(y)]
            /\ hilo_master'[y].paso \in {"espera", "mensaje", "despedir"} => y \in ToSet(lista_workers_info')
      BY <1>1, <1>2, <1>4 DEF Plan, Abiertos
    <3>2. \A v \in ToSet(lista_workers_info') :
            hilo_master'[v].paso \in AtendidosMaster /\ "servidor" \notin cerrado'[AMaster(v)]
      BY <1>1, <1>2, <1>3, <1>4 DEF Plan, Abiertos, AtendidosMaster
    <3>3. \A p \in QueryControls :
            Aceptada(p)' => /\ hilo_master'[p].paso \in {"planificar", "mirar"}
                            /\ "servidor" \notin cerrado'[AMaster(p)]
      BY <1>1, <1>2, <1>4, <2>1, LosEnlaces DEF Plan, Abiertos, Aceptada
    <3> QED
      BY <3>1, <3>2, <3>3 DEF Abiertos
  <2> QED
    BY <2>1, <2>2 DEF Plan
<1>6. CASE ~(queries_ready = <<>> \/ Libres = {})
  <2> DEFINE q == Head(queries_ready)
             w == lista_workers_info[Min(Libres)]
  <2>1. w \in Workers
    <3>1. Libres \in SUBSET Nat /\ Libres # {} /\ \A k \in Libres : k \in 1 .. Len(lista_workers_info)
      BY <1>6, LenProperties DEF Libres, Plan, Listas
    <3>2. Min(Libres) \in 1 .. Len(lista_workers_info)
      BY <3>1, MinNat
    <3> QED
      BY <3>2, ElementOfSeq DEF Plan, Listas
  <2>2. /\ queries_ready' = Tail(queries_ready) /\ disponible' = disponible \ {w}
        /\ queries_exec' = [queries_exec EXCEPT ![w] = q]
    BY <1>6 DEF PlanificarFifo
  <2>3. /\ Tail(queries_ready) \in Seq(QueryControls) /\ IsInjective(Tail(queries_ready))
        /\ q \in QueryControls /\ q \in ToSet(queries_ready)
        /\ ToSet(Tail(queries_ready)) = ToSet(queries_ready) \ {q}
    BY <1>6, SacarPrimera DEF Plan, Listas
  <2> HIDE DEF q, w
  <2>4. Listas'
    BY <1>2, <2>1, <2>2, <2>3 DEF Plan, Listas
  <2>5. Repartidas'
    BY <2>1, <2>2, <2>3 DEF Plan, Listas, Repartidas
  <2>6. \A p \in QueryControls : Aceptada(p)' => Aceptada(p)
    BY <2>1, <2>2, <2>3 DEF Plan, Listas, Aceptada
  <2>7. Abiertos'
    <3>1. \A y \in Clientes :
            /\ hilo_master'[y].paso \in {"sin_conectar", "saludo", "identificar", "agregar"} =>
                  "servidor" \notin cerrado'[AMaster(y)]
            /\ hilo_master'[y].paso \in {"espera", "mensaje", "despedir"} => y \in ToSet(lista_workers_info')
      BY <1>1, <1>2, <1>4 DEF Plan, Abiertos
    <3>2. \A v \in ToSet(lista_workers_info') :
            hilo_master'[v].paso \in AtendidosMaster /\ "servidor" \notin cerrado'[AMaster(v)]
      BY <1>1, <1>2, <1>3, <1>4 DEF Plan, Abiertos, AtendidosMaster
    <3>3. \A p \in QueryControls :
            Aceptada(p)' => /\ hilo_master'[p].paso \in {"planificar", "mirar"}
                            /\ "servidor" \notin cerrado'[AMaster(p)]
      BY <1>1, <1>2, <1>4, <2>6, LosEnlaces DEF Plan, Abiertos
    <3> QED
      BY <3>1, <3>2, <3>3 DEF Abiertos
  <2> QED
    BY <2>4, <2>5, <2>7 DEF Plan
<1> QED
  BY <1>5, <1>6

LEMMA PlanMensajes ==
    ASSUME Formas, Plan, NEW x \in Clientes, RecibirDeWorker(x) \/ ProcesarLectura(x) \/ DejarDeMirar(x)
    PROVE  Plan'
<1>1. /\ \A y \in Clientes \ {x} : hilo_master'[y] = hilo_master[y]
      /\ UNCHANGED <<planes, cerrado>>
  BY DEF RecibirDeWorker, ProcesarLectura, DejarDeMirar, LeeMaster, PasaMaster, enchufes, Formas, FormaMaster
<1>2. CASE RecibirDeWorker(x) \/ ProcesarLectura(x)
  <2>1. /\ hilo_master[x].paso \in {"espera", "mensaje"}
        /\ hilo_master'[x].paso \in {"espera", "mensaje", "despedir"}
    BY <1>2 DEF RecibirDeWorker, ProcesarLectura, LeeMensaje, LeeMaster, PasaMaster, EnMaster, Formas, FormaMaster
  <2>2. ~(x \in QueryControls /\ Aceptada(x))
    BY <2>1 DEF Plan, Abiertos
  <2> QED
    BY <1>1, <2>1, <2>2, PlanSigue DEF AtendidosMaster
<1>3. CASE DejarDeMirar(x)
  <2>1. /\ hilo_master[x].paso = "mirar" /\ hilo_master'[x].paso = "fin" /\ "servidor" \in cerrado[AMaster(x)]
    BY <1>3 DEF DejarDeMirar, PasaMaster, EnMaster, Formas, FormaMaster
  <2>2. ~(x \in QueryControls /\ Aceptada(x))
    BY <2>1 DEF Plan, Abiertos
  <2> QED
    BY <1>1, <2>1, <2>2, PlanSigue DEF AtendidosMaster
<1> QED
  BY <1>2, <1>3

\* The query on a Worker ends: nobody else has it, and its socket is closed.
LEMMA AlFinalizar ==
    ASSUME Formas, Plan, NEW x \in Workers, queries_exec[x] # SinQuery, NEW m, Finalizar(x, m)
    PROVE  LET q == queries_exec[x] IN
           /\ q \in QueryControls /\ Aceptada(q) /\ "servidor" \notin cerrado[AMaster(q)]
           /\ queries_exec' \in [Workers -> QueryControls \union {SinQuery}]
           /\ queries_exec'[x] = SinQuery /\ \A w \in Workers \ {x} : queries_exec'[w] = queries_exec[w]
           /\ \A y \in Clientes \ {q} : cerrado'[AMaster(y)] = cerrado[AMaster(y)]
           /\ UNCHANGED queries_ready => Repartidas' /\ \A p \in QueryControls : Aceptada(p)' => Aceptada(p) /\ p # q
<1> DEFINE q == queries_exec[x]
<1>1. q \in QueryControls /\ Aceptada(q)
  BY DEF Plan, Listas, Aceptada
<1>2. /\ queries_exec' = [queries_exec EXCEPT ![x] = SinQuery] /\ Cerrar({AMaster(q)}, "servidor")
  BY DEF Finalizar
<1>3. \A y \in Clientes \ {q} : cerrado'[AMaster(y)] = cerrado[AMaster(y)]
  BY <1>2, LosEnlaces DEF Cerrar
<1>4. UNCHANGED queries_ready => Repartidas' /\ \A p \in QueryControls : Aceptada(p)' => Aceptada(p) /\ p # q
  <2>1. SinQuery \notin ToSet(queries_ready)
    BY ElementosLista, SinQueryAssumption DEF Plan, Listas
  <2> QED
    BY <1>1, <1>2, <2>1, SinQueryAssumption DEF Plan, Listas, Repartidas, Aceptada
<1> QED
  BY <1>1, <1>2, <1>3, <1>4 DEF Plan, Listas, Abiertos

LEMMA PlanFin ==
    ASSUME Formas, Plan, NEW x \in Clientes, ProcesarFin(x)
    PROVE  Plan'
<1>1. \A y \in Clientes \ {x} : hilo_master'[y] = hilo_master[y]
  BY DEF ProcesarFin, PasaMaster, Formas, FormaMaster
<1>2. hilo_master[x].paso = "mensaje" /\ x \in ToSet(lista_workers_info)
  BY DEF ProcesarFin, LeeMensaje, EnMaster, Plan, Abiertos
<1>3. \A w \in ToSet(lista_workers_info) : w \in Clientes /\ w \in Workers
  BY ElementosLista, LosEnlaces DEF Plan, Listas
<1>4. x \in Workers /\ x \notin QueryControls
  BY <1>2, <1>3, LosEnlaces
<1>5. CASE queries_exec[x] = SinQuery
  <2>1. UNCHANGED <<planes, cerrado>> /\ hilo_master'[x].paso = "espera"
    BY <1>5 DEF ProcesarFin, PasaMaster, planes, Formas, FormaMaster
  <2> QED
    BY <1>1, <1>2, <1>4, <2>1, PlanSigue DEF AtendidosMaster
<1>6. CASE queries_exec[x] # SinQuery
  <2> DEFINE q == queries_exec[x]
  <2>1. \E m : Finalizar(x, m)
    BY <1>6 DEF ProcesarFin
  <2>2. /\ q \in QueryControls /\ queries_exec' \in [Workers -> QueryControls \union {SinQuery}]
        /\ \A y \in Clientes \ {q} : cerrado'[AMaster(y)] = cerrado[AMaster(y)]
        /\ UNCHANGED queries_ready => Repartidas' /\ \A p \in QueryControls : Aceptada(p)' => Aceptada(p) /\ p # q
        /\ Aceptada(q)
    BY <1>4, <1>6, <2>1, AlFinalizar
  <2>3. /\ UNCHANGED <<lista_workers_info, queries_ready>> /\ disponible' = disponible \union {x}
        /\ hilo_master'[x].paso = "planificar"
    BY <1>6 DEF ProcesarFin, PasaMaster, Formas, FormaMaster
  <2>4. Listas' /\ Repartidas'
    BY <1>4, <2>2, <2>3 DEF Plan, Listas
  <2> HIDE DEF q
  <2>5. Abiertos'
    BY <1>1, <1>2, <1>3, <2>2, <2>3, LosEnlaces DEF Plan, Abiertos, AtendidosMaster
  <2> QED
    BY <2>4, <2>5 DEF Plan
<1> QED
  BY <1>5, <1>6

LEMMA PlanDesconectar ==
    ASSUME Formas, Plan, NEW x \in Clientes, DesconectarWorker(x)
    PROVE  Plan'
<1>1. \A y \in Clientes \ {x} : hilo_master'[y] = hilo_master[y]
  BY DEF DesconectarWorker, PasaMaster, Formas, FormaMaster
<1>2. /\ hilo_master[x].paso = "despedir" /\ x \in ToSet(lista_workers_info)
      /\ hilo_master'[x].paso = "planificar"
  BY DEF DesconectarWorker, PasaMaster, EnMaster, Plan, Abiertos, Formas, FormaMaster
<1>3. \A w \in ToSet(lista_workers_info) : w \in Clientes /\ w \in Workers
  BY ElementosLista, LosEnlaces DEF Plan, Listas
<1>4. x \in Workers /\ x \notin QueryControls
  BY <1>2, <1>3, LosEnlaces
<1>5. /\ lista_workers_info' \in Seq(Workers) /\ IsInjective(lista_workers_info')
      /\ ToSet(lista_workers_info') = ToSet(lista_workers_info) \ {x}
      /\ disponible' \subseteq Workers /\ UNCHANGED queries_ready
  BY QuitarLista DEF DesconectarWorker, Plan, Listas
<1>6. CASE queries_exec[x] = SinQuery
  <2>1. UNCHANGED <<queries_exec, cerrado>>
    BY <1>6 DEF DesconectarWorker
  <2>2. Listas' /\ Repartidas'
    BY <1>5, <2>1 DEF Plan, Listas, Repartidas
  <2>3. Abiertos'
    BY <1>1, <1>2, <1>3, <1>4, <1>5, <2>1, LosEnlaces DEF Plan, Abiertos, Aceptada, AtendidosMaster
  <2> QED
    BY <2>2, <2>3 DEF Plan
<1>7. CASE queries_exec[x] # SinQuery
  <2> DEFINE q == queries_exec[x]
  <2>1. \E m : Finalizar(x, m)
    BY <1>7 DEF DesconectarWorker
  <2>2. /\ q \in QueryControls /\ queries_exec' \in [Workers -> QueryControls \union {SinQuery}]
        /\ \A y \in Clientes \ {q} : cerrado'[AMaster(y)] = cerrado[AMaster(y)]
        /\ UNCHANGED queries_ready => Repartidas' /\ \A p \in QueryControls : Aceptada(p)' => Aceptada(p) /\ p # q
        /\ Aceptada(q)
    BY <1>4, <1>7, <2>1, AlFinalizar
  <2>4. Listas' /\ Repartidas'
    BY <1>5, <2>2 DEF Plan, Listas
  <2> HIDE DEF q
  <2>5. Abiertos'
    BY <1>1, <1>2, <1>3, <1>5, <2>2, LosEnlaces DEF Plan, Abiertos, AtendidosMaster
  <2> QED
    BY <2>4, <2>5 DEF Plan
<1> QED
  BY <1>6, <1>7

LEMMA PlanCaer ==
    ASSUME Formas, Plan, CaerMaster PROVE Plan'
<1>1. /\ lista_workers_info' = <<>> /\ disponible' = {} /\ queries_ready' = <<>>
      /\ queries_exec' = [w \in Workers |-> SinQuery]
  BY DEF CaerMaster
<1>2. ToSet(<<>>) = {} /\ IsInjective(<<>>)
  BY DEF ToSet, IsInjective
<1>3. Listas' /\ Repartidas'
  BY <1>1, <1>2, EmptySeq DEF Listas, Repartidas
<1>4. \A q \in QueryControls : ~Aceptada(q)'
  BY <1>1, <1>2, SinQueryAssumption DEF Aceptada
<1>5. \A x \in Clientes :
        \/ hilo_master'[x].paso = "fin"
        \/ hilo_master'[x].paso = "sin_conectar" /\ "servidor" \notin cerrado'[AMaster(x)]
  BY LosEnlaces DEF CaerMaster, EnMaster, HiloMaster, Cerrar, Plan, Abiertos
<1>6. Abiertos'
  BY <1>1, <1>2, <1>4, <1>5 DEF Abiertos
<1> QED
  BY <1>3, <1>6 DEF Plan

\* Plan is inductive.
LEMMA PlanPaso ==
    ASSUME Formas, Comienzos, Plan, [Next]_vars PROVE Plan'
<1>1. CASE UNCHANGED vars
  BY <1>1 DEF vars, master, enchufes, Plan, Listas, Repartidas, Abiertos, Aceptada
<1>2. ASSUME NEW x \in Clientes, HiloDelMaster(x) PROVE Plan'
  BY <1>2, PlanSaludo, PlanAgregar, PlanPlanificar, PlanMensajes, PlanFin, PlanDesconectar
     DEF HiloDelMaster, AtenderEnMaster
<1>3. ASSUME UNCHANGED master, \A x \in Clientes : Cierra(AMaster(x))' = Cierra(AMaster(x)) PROVE Plan'
  <2>1. \A w \in ToSet(lista_workers_info) : w \in Clientes
    BY ElementosLista, LosEnlaces DEF Plan, Listas
  <2> QED
    BY <1>3, <2>1, LosEnlaces DEF master, Plan, Listas, Repartidas, Abiertos, Aceptada, Cierra
<1>4. CASE \/ \E x \in Conectables : HiloDelStorage(x)
           \/ CaerStorage /\ UNCHANGED <<master, control, worker>>
  BY <1>3, <1>4, NoCierraStorage, AlcanceStorage DEF Cierra
<1>5. ASSUME NEW q \in QueryControls, ProgramaControl(q) \/ Enter(q) PROVE Plan'
  BY <1>5, AlcanceControl, NoCierran, PlanConectar, LosEnlaces DEF Comienzos
<1>6. ASSUME NEW w \in Workers, Principal(w) \/ Listener(w) \/ HiloDeQuery(w) PROVE Plan'
  BY <1>6, AlcanceWorker, NoCierran, PlanConectar, LosEnlaces
     DEF Comienzos, ConectarWorkerAMaster, EnWorker, AntesDelMaster
<1>7. ASSUME NEW x \in Ajenos, AjenoLlamaAlMaster(x) \/ AjenoLlamaAlStorage(x) \/ AjenoCuelga(x)
      PROVE  Plan'
  <2>1. /\ UNCHANGED planes
        /\ \/ UNCHANGED hilo_master
           \/ hilo_master[x].paso = "sin_conectar" /\ hilo_master' = Acepta(hilo_master, x)
    BY <1>7 DEF AjenoLlamaAlMaster, AjenoLlamaAlStorage, AjenoCuelga, master, planes, SinLlamar, EnMaster
  <2> QED
    BY <1>7, <2>1, NoCierran, PlanConectar, LosEnlaces
<1>8. CASE \E w \in Workers : CaerWorker(w) /\ UNCHANGED <<master, storage, control>>
  BY <1>3, <1>8, NoCierran, LosEnlaces
<1>9. CASE CaerMaster
  BY <1>9, PlanCaer
<1> QED
  BY <1>1, <1>2, <1>4, <1>5, <1>6, <1>7, <1>8, <1>9 DEF Next, Caer

LEMMA PlanSiempre == Spec => []Plan
<1>1. Init => Plan
  <2>1. ToSet(<<>>) = {} /\ IsInjective(<<>>)
    BY DEF ToSet, IsInjective
  <2> QED
    BY <2>1, EmptySeq, LosEnlaces, SinQueryAssumption
       DEF Init, InitEnchufes, InitMaster, HiloMaster, Plan, Listas, Repartidas, Abiertos, Aceptada
<1> QED
  BY <1>1, FormasSiempre, ComienzosSiempre, PlanPaso, PTL DEF Spec

\* Every variable keeps its shape, the semaphore of the answers counts one
\* answer at most, and the Storage counts the Workers it attends to
\* (sem_respuesta_storage in worker/src/query_intepreter.c, workers_conectados in
\* storage/src/hilo-worker.c).
THEOREM TiposConexiones == Spec => []TypeOK
<1>1. Formas /\ Cuenta /\ Plan => TypeOK
  BY DEF Formas, FormaEnchufes, FormaWorker, Cuenta, Contados, Plan, Listas, TypeOK
<1> QED
  BY <1>1, FormasSiempre, CuentaSiempre, PlanSiempre, PTL

-----------------------------------------------------------------------------
(* The streams: a header is always followed by its payload                 *)

Motivos == {"COMPLETADA", "ERROR", "ERROR_DESCONEXION_WORKER"}

\* The payload c that may follow the header h.
Empareja(h, c) ==
    /\ h.tipo = "header" /\ c.tipo = "cuerpo" /\ h.header # "error"
    /\ h.header = "QUERY_FINALIZADA" => c.campos # <<>> /\ c.campos[2] \in Motivos
    /\ h.header = "QC_FINALIZACION" => c.campos # <<>> /\ c.campos[1] \in Motivos
    /\ h.header = "QC_LECTURA" => c.campos # <<>>
    /\ h.header = "EJECUTAR_QUERY" => c.campos[3] = 0
    /\ h.header = "ERROR_OPERACION" => c.campos # <<>> /\ c.campos[1] \in Motivos

EsPaquete(p) == p = <<p[1], p[2]>> /\ Empareja(p[1], p[2])

\* A stream, or what is left of it after a word has been read.
EnOrden(s) ==
    /\ s \in Seq(ToSet(s))
    /\ \A k \in 1 .. Len(s) : s[k].tipo = "header" => k + 1 \in 1 .. Len(s) /\ Empareja(s[k], s[k + 1])
    /\ \A k \in 1 .. Len(s) : s[k].tipo # "header" /\ k + 1 \in 1 .. Len(s) => s[k + 1].tipo = "header"

\* What is left begins with a packet, or with the payload of the header h.
Entero(s)    == s # <<>> => Head(s).tipo = "header"
Pagado(s, h) == s # <<>> /\ Empareja(PalabraHeader(h), Head(s))

LEMMA EsUnPaquete ==
    ASSUME NEW h, NEW cs, Empareja(PalabraHeader(h), PalabraCuerpo(cs))
    PROVE  EsPaquete(Paquete(h, cs))
<1> DEFINE a == PalabraHeader(h)
           b == PalabraCuerpo(cs)
<1> HIDE DEF a, b
<1>1. <<a, b>>[1] = a /\ <<a, b>>[2] = b
  OBVIOUS
<1> QED
  BY <1>1 DEF EsPaquete, Paquete, a, b

\* Words of either kind with nothing that the pairing says anything about.
LEMMA EsUnPaqueteComun ==
    ASSUME NEW h, NEW cs,
           h \notin {"QUERY_FINALIZADA", "QC_FINALIZACION", "QC_LECTURA", "EJECUTAR_QUERY",
                      "ERROR_OPERACION", "error"}
    PROVE  EsPaquete(Paquete(h, cs))
<1>1. Empareja(PalabraHeader(h), PalabraCuerpo(cs))
  BY DEF Empareja, PalabraHeader, PalabraCuerpo
<1> QED
  BY <1>1, EsUnPaquete

\* A list of anything is a list of its own elements.
LEMMA EsLista ==
    ASSUME NEW S, NEW s \in Seq(S) PROVE s \in Seq(ToSet(s))
<1>1. Len(s) \in Nat /\ DOMAIN s = 1 .. Len(s) /\ s \in [1 .. Len(s) -> S]
  BY LenProperties
<1>2. s \in [1 .. Len(s) -> ToSet(s)]
  BY <1>1 DEF ToSet
<1> QED
  BY <1>1, <1>2

LEMMA Vacio == EnOrden(<<>>) /\ Entero(<<>>)
BY EmptySeq, LenProperties DEF EnOrden, Entero, ToSet

\* Reading a word.
LEMMA LeerPalabra ==
    ASSUME NEW s, EnOrden(s), s # <<>>
    PROVE  /\ EnOrden(Tail(s))
           /\ Head(s).tipo = "header" => Pagado(Tail(s), Head(s).header)
           /\ Head(s).tipo # "header" => Entero(Tail(s))
<1> DEFINE S == ToSet(s)
           t == Tail(s)
<1>1. Len(s) \in Nat \ {0} /\ s \in Seq(S)
  BY EmptySeq DEF EnOrden
<1>2. /\ t \in Seq(S) /\ Len(t) = Len(s) - 1
      /\ \A i \in 1 .. Len(t) : t[i] = s[i + 1]
  BY <1>1, HeadTailProperties
<1>3. Head(s) = s[1] /\ (t # <<>> => Head(t) = t[1])
  BY <1>1, <1>2
<1>4. t \in Seq(ToSet(t)) /\ (t = <<>> <=> Len(t) = 0)
  BY <1>2, EsLista, EmptySeq
<1> HIDE DEF t
<1>5. EnOrden(t)
  <2>1. ASSUME NEW k \in 1 .. Len(t), t[k].tipo = "header"
        PROVE  k + 1 \in 1 .. Len(t) /\ Empareja(t[k], t[k + 1])
    <3>1. k + 1 \in 1 .. Len(s) /\ s[k + 1].tipo = "header"
      BY <1>1, <1>2, <2>1
    <3>2. (k + 1) + 1 \in 1 .. Len(s) /\ Empareja(s[k + 1], s[(k + 1) + 1])
      BY <3>1 DEF EnOrden
    <3>3. k + 1 \in 1 .. Len(t)
      BY <1>1, <1>2, <3>2
    <3> QED
      BY <1>2, <2>1, <3>2, <3>3
  <2>2. ASSUME NEW k \in 1 .. Len(t), t[k].tipo # "header", k + 1 \in 1 .. Len(t)
        PROVE  t[k + 1].tipo = "header"
    BY <1>1, <1>2, <2>2 DEF EnOrden
  <2> QED
    BY <1>4, <2>1, <2>2 DEF EnOrden
<1>6. Head(s).tipo = "header" => t # <<>> /\ Empareja(Head(s), Head(t))
  BY <1>1, <1>2, <1>3, <1>4 DEF EnOrden
<1>7. Head(s).tipo # "header" => Entero(t)
  <2>1. CASE t = <<>>
    BY <2>1 DEF Entero
  <2>2. CASE t # <<>> /\ Head(s).tipo # "header"
    <3>1. 1 \in 1 .. Len(s) /\ 1 + 1 \in 1 .. Len(s) /\ 1 \in 1 .. Len(t) /\ t[1] = s[1 + 1]
      BY <1>1, <1>2, <1>4, <2>2
    <3> QED
      BY <1>3, <2>2, <3>1 DEF EnOrden, Entero
  <2> QED
    BY <2>1, <2>2
<1> QED
  BY <1>5, <1>6, <1>7 DEF t, Pagado, Empareja, PalabraHeader

\* Sending a packet.
LEMMA EnviarDos ==
    ASSUME NEW s, EnOrden(s), NEW h, NEW c, Empareja(h, c)
    PROVE  /\ EnOrden(s \o <<h, c>>)
           /\ Entero(s) => Entero(s \o <<h, c>>)
           /\ \A g : Pagado(s, g) => Pagado(s \o <<h, c>>, g)
<1> DEFINE S == ToSet(s) \union {h, c}
           p == <<h, c>>
           r == s \o p
           n == Len(s)
<1>1. s \in Seq(S) /\ n \in Nat /\ p \in Seq(S) /\ Len(p) = 2 /\ p[1] = h /\ p[2] = c
  BY SeqMonotonic, LenProperties DEF EnOrden
<1>2. /\ r \in Seq(S) /\ Len(r) = n + 2
      /\ \A i \in 1 .. n : r[i] = s[i]
      /\ r[n + 1] = h /\ r[n + 2] = c
  <2>1. /\ r \in Seq(S) /\ Len(r) = n + 2
        /\ \A i \in 1 .. n + 2 : r[i] = IF i <= n THEN s[i] ELSE p[i - n]
    BY <1>1, ConcatProperties
  <2> HIDE DEF r, p
  <2>2. n + 1 - n = 1 /\ n + 2 - n = 2 /\ ~(n + 1 <= n) /\ ~(n + 2 <= n)
    BY <1>1
  <2> QED
    BY <1>1, <2>1, <2>2
<1>4. s = <<>> => n = 0
  BY EmptySeq
<1> HIDE DEF r, p
<1>3. r \in Seq(ToSet(r)) /\ r # <<>> /\ Head(r) = r[1] /\ (s # <<>> => n # 0 /\ Head(s) = s[1])
  <2>1. r \in Seq(ToSet(r))
    BY <1>2, EsLista
  <2>2. r # <<>> /\ Head(r) = r[1]
    BY <1>1, <1>2, EmptySeq
  <2>3. s # <<>> => n # 0 /\ Head(s) = s[1]
    BY <1>1, EmptySeq
  <2> QED
    BY <2>1, <2>2, <2>3
<1>5. EnOrden(r)
  <2>1. ASSUME NEW k \in 1 .. Len(r), r[k].tipo = "header"
        PROVE  k + 1 \in 1 .. Len(r) /\ Empareja(r[k], r[k + 1])
    <3>1. CASE k \in 1 .. n
      <4>1. k + 1 \in 1 .. n /\ Empareja(s[k], s[k + 1])
        BY <1>2, <2>1, <3>1 DEF EnOrden
      <4> QED
        BY <1>1, <1>2, <3>1, <4>1
    <3>2. CASE k = n + 1
      BY <1>1, <1>2, <3>2
    <3>3. CASE k = n + 2
      BY <1>2, <2>1, <3>3 DEF Empareja
    <3>4. k \in 1 .. n \/ k = n + 1 \/ k = n + 2
      BY <1>1, <1>2
    <3> QED
      BY <3>1, <3>2, <3>3, <3>4, Zenon
  <2>2. ASSUME NEW k \in 1 .. Len(r), r[k].tipo # "header", k + 1 \in 1 .. Len(r)
        PROVE  r[k + 1].tipo = "header"
    <3>1. CASE k + 1 \in 1 .. n
      <4>1. k \in 1 .. n /\ s[k].tipo # "header"
        BY <1>1, <1>2, <2>2, <3>1
      <4>2. s[k + 1].tipo = "header"
        BY <3>1, <4>1 DEF EnOrden
      <4> QED
        BY <1>2, <3>1, <4>2
    <3>2. CASE k = n
      BY <1>2, <3>2 DEF Empareja
    <3>3. CASE k = n + 1
      BY <1>2, <2>2, <3>3 DEF Empareja
    <3> QED
      BY <1>1, <1>2, <2>2, <3>1, <3>2, <3>3
  <2> QED
    BY <1>3, <2>1, <2>2 DEF EnOrden
<1>6. s # <<>> => Head(r) = Head(s)
  BY <1>1, <1>2, <1>3
<1>7. s = <<>> => Head(r) = h
  BY <1>2, <1>3, <1>4
<1> QED
  BY <1>3, <1>5, <1>6, <1>7 DEF r, p, Entero, Pagado, Empareja

LEMMA EnviarPaquete ==
    ASSUME NEW s, EnOrden(s), NEW p, EsPaquete(p)
    PROVE  /\ EnOrden(s \o p)
           /\ Entero(s) => Entero(s \o p)
           /\ \A g : Pagado(s, g) => Pagado(s \o p, g)
BY EnviarDos, Zenon DEF EsPaquete

\* What arrives of a process that dies is still in order, up to the word that
\* the reader is at.
LEMMA LlegaEnOrden ==
    ASSUME NEW s, EnOrden(s), NEW u, NEW t \in Llegado(s, u)
    PROVE  /\ EnOrden(t)
           /\ Entero(s) => Entero(t)
           /\ \A g : Pagado(s, g) => Pagado(t, g)
<1> DEFINE n == Len(s)
<1>1. n \in Nat /\ s \in Seq(ToSet(s)) /\ (s # <<>> => n # 0 /\ Head(s) = s[1])
  BY LenProperties, EmptySeq DEF EnOrden
<1>2. PICK k \in 0 .. n : t = SubSeq(s, 1, k) /\ (k = n \/ s[k + 1].tipo = "header")
  BY DEF Llegado
<1>3. t \in Seq(ToSet(s)) /\ Len(t) = k /\ \A i \in 1 .. k : t[i] = s[i]
  <2>1. \A i \in 1 .. k : s[i] \in ToSet(s)
    BY <1>1, ElementOfSeq
  <2> QED
    BY <1>1, <1>2, <2>1, SubSeqProperties
<1>4. t \in Seq(ToSet(t)) /\ (t = <<>> <=> k = 0) /\ (t # <<>> => Head(t) = t[1])
  BY <1>3, EsLista, EmptySeq
<1>5. EnOrden(t)
  <2>1. ASSUME NEW j \in 1 .. k, t[j].tipo = "header"
        PROVE  j + 1 \in 1 .. k /\ Empareja(t[j], t[j + 1])
    <3>1. j \in 1 .. n /\ s[j].tipo = "header"
      BY <1>1, <1>2, <1>3, <2>1
    <3>2. j + 1 \in 1 .. n /\ Empareja(s[j], s[j + 1])
      BY <3>1 DEF EnOrden
    <3>3. j # k
      BY <1>1, <1>2, <3>2 DEF Empareja
    <3> QED
      BY <1>1, <1>2, <1>3, <2>1, <3>2, <3>3
  <2>2. ASSUME NEW j \in 1 .. k, t[j].tipo # "header", j + 1 \in 1 .. k
        PROVE  t[j + 1].tipo = "header"
    <3>1. j \in 1 .. n /\ j + 1 \in 1 .. n /\ t[j] = s[j] /\ t[j + 1] = s[j + 1]
      BY <1>1, <1>2, <1>3, <2>2
    <3> QED
      BY <2>2, <3>1 DEF EnOrden
  <2> QED
    BY <1>3, <1>4, <2>1, <2>2 DEF EnOrden
<1>6. t # <<>> => s # <<>> /\ Head(t) = Head(s)
  <2>1. ASSUME t # <<>> PROVE s # <<>> /\ t[1] = s[1]
    BY <1>1, <1>2, <1>3, <1>4, <2>1, EmptySeq
  <2> QED
    BY <1>1, <1>4, <2>1
<1>7. s # <<>> /\ Head(s).tipo # "header" => t # <<>>
  BY <1>1, <1>2, <1>4
<1> QED
  BY <1>5, <1>6, <1>7 DEF Entero, Pagado, Empareja

-----------------------------------------------------------------------------
(* What a Worker's query thread has to send                                *)

Escribibles(w) == {Escritura(w, v) : v \in Sucias}

\* What an instruction sends of its own, besides the pages that are written.
Propias(w, i) ==
    LET q == worker[w].query IN
    CASE i.tipo = "CREATE"   -> {Pedido(OperacionCreate(i.file, i.tag, q))}
      [] i.tipo = "TRUNCATE" -> {Pedido(OperacionTruncate(i.file, i.tag, i.tamanio, q))}
      [] i.tipo = "DELETE"   -> {Pedido(OperacionDelete(i.file, i.tag, q))}
      [] i.tipo = "TAG"      -> {Pedido(OperacionTag(i.file, i.tag, i.file_destino, i.tag_destino, q))}
      [] i.tipo = "COMMIT"   -> {Pedido(OperacionCommit(i.file, i.tag, q))}
      [] i.tipo = "END"      -> {Informe(FinQuery(q, "COMPLETADA"))}
      [] OTHER -> {}

Lectura(w, i, n) == Pedido(OperacionRead(i.file, i.tag, n, worker[w].query))
Leida(i, n)      == Informe(MensajeLectura(i.file, i.tag, <<i.file, i.tag, n>>))

\* A list without repetitions of any finite set.
LEMMA EnLista ==
    ASSUME NEW S, IsFiniteSet(S)
    PROVE  SetToSeq(S) \in Seq(S)
<1> DEFINE n == Cardinality(S)
<1>1. n \in Nat /\ ExistsBijection(1 .. n, S)
  BY FS_CardinalityType
<1>2. \E f \in [1 .. n -> S] : IsInjective(f)
  <2>1. PICK f \in Bijection(1 .. n, S) : TRUE
    BY <1>1 DEF ExistsBijection
  <2>2. f \in [1 .. n -> S] /\ \A a, b \in 1 .. n : f[a] = f[b] => a = b
    BY <2>1 DEF Bijection, Injection, Surjection, IsInjective
  <2> QED
    BY <2>2 DEF IsInjective
<1>3. SetToSeq(S) \in [1 .. n -> S]
  BY <1>2 DEF SetToSeq
<1> QED
  BY <1>1, <1>3

LEMMA EscriturasLista ==
    ASSUME NEW w, NEW s \in SUBSET Sucias
    PROVE  Escrituras(w, s) \in Seq(Escribibles(w))
<1> DEFINE l == SetToSeq(s)
<1>1. l \in Seq(s)
  BY EnLista, SuciasAssumption, FS_Subset
<1> HIDE DEF l
<1>2. Len(l) \in Nat /\ DOMAIN l = 1 .. Len(l) /\ \A k \in 1 .. Len(l) : l[k] \in s
  BY <1>1, LenProperties, ElementOfSeq
<1>3. [k \in DOMAIN l |-> Escritura(w, l[k])] \in [1 .. Len(l) -> Escribibles(w)]
  BY <1>2 DEF Escribibles
<1> QED
  BY <1>2, <1>3 DEF Escrituras, l

LEMMA TareasLista ==
    ASSUME NEW w, NEW i, NEW t \in Tareas(w, i)
    PROVE  t \in Seq(Escribibles(w) \union Propias(w, i))
<1> DEFINE P == Escribibles(w) \union Propias(w, i)
<1>1. \A f \in Flush(w, i) \union FlushPorDesalojo(w) : f \in Seq(P)
  BY EscriturasLista, SeqMonotonic DEF Flush, FlushPorDesalojo
<1>2. \A e \in P : <<e>> \in Seq(P)
  OBVIOUS
<1>3. ASSUME NEW f \in Seq(P), NEW e \in P PROVE f \o <<e>> \in Seq(P)
  BY <1>2, ConcatProperties
<1>4. <<>> \in Seq(P)
  OBVIOUS
<1>5. CASE i.tipo \in {"CREATE", "TRUNCATE", "DELETE", "TAG"}
  <2>1. \E e \in P : t = <<e>>
    BY <1>5 DEF Tareas, Propias
  <2> QED
    BY <1>2, <2>1
<1>6. CASE i.tipo = "COMMIT"
  <2>1. PICK f \in Flush(w, i), e \in P : t = f \o <<e>>
    BY <1>6 DEF Tareas, Propias
  <2>2. f \in Seq(P)
    BY <1>1
  <2>3. f \o <<e>> \in Seq(P)
    BY <1>3, <2>1, <2>2
  <2> QED
    BY <2>1, <2>3
<1>7. CASE i.tipo = "FLUSH"
  BY <1>1, <1>7 DEF Tareas
<1>8. CASE i.tipo = "END"
  <2>1. PICK f \in FlushPorDesalojo(w), e \in P : t = f \o <<e>>
    BY <1>8 DEF Tareas, Propias
  <2>2. f \in Seq(P)
    BY <1>1
  <2>3. f \o <<e>> \in Seq(P)
    BY <1>3, <2>1, <2>2
  <2> QED
    BY <2>1, <2>3
<1>9. CASE i.tipo \notin {"CREATE", "TRUNCATE", "DELETE", "TAG", "COMMIT", "FLUSH", "END"}
  BY <1>4, <1>9 DEF Tareas
<1> QED
  BY <1>5, <1>6, <1>7, <1>8, <1>9

LEMMA AccesoLista ==
    ASSUME NEW w, NEW i, NEW n, NEW t \in Acceso(w, i, n)
    PROVE  /\ t \in Seq(Escribibles(w) \union {Lectura(w, i, n), Leida(i, n)})
           /\ \A k \in 1 .. Len(t) : t[k] = Lectura(w, i, n) => k = 1
<1> DEFINE P == Escribibles(w) \union {Lectura(w, i, n), Leida(i, n)}
           l == Lectura(w, i, n)
           a == Leida(i, n)
<1>1. /\ \A v \in Sucias : Escritura(w, v) \in P /\ Escritura(w, v) # l
      /\ l \in P /\ a \in P /\ a # l
  BY DEF Escribibles, Escritura, Lectura, Leida, Pedido, Informe, OperacionWrite, OperacionRead, Paquete,
         PalabraHeader
<1>2. \E b \in Buscar(w, i, n), c \in {<<>>, <<a>>} : t = b \o c
  <2>1. CASE i.tipo = "WRITE"
    <3>1. t \in Buscar(w, i, n)
      BY <2>1 DEF Acceso
    <3>2. t = t \o <<>>
      BY <3>1 DEF Buscar
    <3> QED
      BY <3>1, <3>2
  <2>2. CASE i.tipo # "WRITE"
    BY <2>2 DEF Acceso, Informes, Leida
  <2> QED
    BY <2>1, <2>2
<1>3. \A b \in Buscar(w, i, n) :
        b \in {<<>>, <<l>>} \/ \E v \in Sucias : b = <<l>> \o <<Escritura(w, v)>>
  BY DEF Buscar, Lectura
<1> DEFINE Bien(s) == s \in Seq(P) /\ \A k \in 1 .. Len(s) : s[k] = l => k = 1
<1> HIDE DEF P, l, a
<1>4. Bien(<<>>) /\ Bien(<<l>>) /\ Bien(<<a>>)
  BY <1>1
<1>5. ASSUME NEW s, Bien(s), NEW e \in P, e # l PROVE Bien(s \o <<e>>)
  <2>1. s \in Seq(P) /\ <<e>> \in Seq(P) /\ Len(<<e>>) = 1 /\ <<e>>[1] = e /\ Len(s) \in Nat
    BY <1>5, LenProperties
  <2> DEFINE r == s \o <<e>>
  <2>2. /\ r \in Seq(P) /\ Len(r) = Len(s) + 1
        /\ \A k \in 1 .. Len(s) + 1 : r[k] = IF k <= Len(s) THEN s[k] ELSE <<e>>[k - Len(s)]
    BY <2>1, ConcatProperties
  <2> HIDE DEF r
  <2>3. ASSUME NEW k \in 1 .. Len(r), r[k] = l PROVE k = 1
    <3>1. k \in 1 .. Len(s)
      BY <1>5, <2>1, <2>2, <2>3
    <3> QED
      BY <1>5, <2>1, <2>2, <2>3, <3>1
  <2> QED
    BY <2>2, <2>3 DEF r
<1>6. \A b \in Buscar(w, i, n) : Bien(b)
  BY <1>1, <1>3, <1>4, <1>5
<1>7. PICK b \in Buscar(w, i, n), c \in {<<>>, <<a>>} : t = b \o c
  BY <1>2
<1>8. Bien(b)
  BY <1>6
<1>9. CASE c = <<>>
  <2>1. b \o <<>> = b
    BY <1>8, ConcatEmptySeq
  <2> QED
    BY <1>7, <1>8, <1>9, <2>1 DEF P, l, a
<1>10. CASE c = <<a>>
  BY <1>1, <1>5, <1>7, <1>8, <1>10 DEF P, l, a
<1> QED
  BY <1>9, <1>10

-----------------------------------------------------------------------------
(* The streams are in order, and each reader is where it believes          *)

EnSuMaster(w)  == a_cliente[AMaster(w)]
EnSuStorage(w) == a_cliente[AStorage(w)]

Corrientes ==
    /\ \A x \in Clientes : EnOrden(a_servidor[AMaster(x)]) /\ EnOrden(a_cliente[AMaster(x)])
    /\ \A x \in Conectables : EnOrden(a_cliente[AStorage(x)])

\* Where each thread of the Master is in its stream.
LectoresDelMaster ==
    \A x \in Clientes :
        /\ hilo_master[x].paso \in {"identificar", "mensaje"} =>
              Pagado(a_servidor[AMaster(x)], hilo_master[x].header)
        /\ hilo_master[x].paso \notin {"identificar", "mensaje", "fin"} => Entero(a_servidor[AMaster(x)])

\* Where a Worker is in its streams. Without a Master nothing else comes.
LectoresDelWorker ==
    \A w \in Workers :
        /\ worker[w].paso \notin {"payload_ok", "payload", "rechazado", "caido"} => Entero(EnSuMaster(w))
        /\ worker[w].paso = "payload_ok" => Pagado(EnSuMaster(w), "HANDSHAKE_OK")
        /\ worker[w].paso = "payload" =>
              \/ Pagado(EnSuMaster(w), worker[w].header)
              \/ worker[w].header = "error" /\ EnSuMaster(w) = <<>> /\ Cierra(AMaster(w))
        /\ worker[w].ejecuta = "cuerpo" /\ worker[w].leido = "ERROR_OPERACION" =>
              Pagado(EnSuStorage(w), "ERROR_OPERACION")

\* The words of an EJECUTAR_QUERY that waits for its turn. None does, and no query
\* runs, before the listener starts.
Ordenes ==
    \A w \in Workers :
        /\ worker[w].paso \notin {"escucha", "payload"} => worker[w].espera = <<>> /\ worker[w].ejecuta = "libre"
        /\ worker[w].espera \in Seq(ToSet(worker[w].espera))
        /\ \A k \in 1 .. Len(worker[w].espera) : worker[w].espera[k][3] = 0

Encargos ==
    \A w \in Workers :
        /\ worker[w].tarea \in Seq(ToSet(worker[w].tarea))
        /\ \A k \in 1 .. Len(worker[w].tarea) : EsPaquete(worker[w].tarea[k].paquete)

Cauces == Corrientes /\ LectoresDelMaster /\ LectoresDelWorker /\ Ordenes /\ Encargos

\* What the Master sends is a packet, to somebody whose socket is open if it is
\* a Worker.
LEMMA MasterEnvia ==
    ASSUME Formas, Plan, Cauces, NEW x \in Clientes, HiloDelMaster(x)
    PROVE  \/ UNCHANGED a_cliente
           \/ \E y \in Clientes : \E p :
                /\ EsPaquete(p) /\ AlCliente(AMaster(y), p)
                /\ y \in Workers => ~Cierra(AMaster(y))
<1> DEFINE Bien(y, p) == /\ y \in Clientes /\ EsPaquete(p) /\ AlCliente(AMaster(y), p)
                         /\ y \in Workers => ~Cierra(AMaster(y))
<1> SUFFICES UNCHANGED a_cliente \/ \E y, p : Bien(y, p)
  OBVIOUS
<1>1. /\ EsPaquete(RespuestaHandshakeDesconocido) /\ EsPaquete(RespuestaHandshake)
      /\ \A q, a : EsPaquete(ComandoEjecutar(q, a, 0))
      /\ \A a, b, c : EsPaquete(MensajeLecturaQC(a, b, c))
      /\ \A m \in Motivos : EsPaquete(MensajeFinalizacion(m))
  <2>1. EsPaquete(RespuestaHandshakeDesconocido) /\ EsPaquete(RespuestaHandshake)
    BY EsUnPaqueteComun DEF RespuestaHandshakeDesconocido, RespuestaHandshake
  <2>2. ASSUME NEW q, NEW a PROVE EsPaquete(ComandoEjecutar(q, a, 0))
    <3>1. Empareja(PalabraHeader("EJECUTAR_QUERY"), PalabraCuerpo(<<a, q, 0>>))
      BY DEF Empareja, PalabraHeader, PalabraCuerpo
    <3> QED
      BY <3>1, EsUnPaquete DEF ComandoEjecutar
  <2>3. ASSUME NEW a, NEW b, NEW c PROVE EsPaquete(MensajeLecturaQC(a, b, c))
    <3>1. Empareja(PalabraHeader("QC_LECTURA"), PalabraCuerpo(<<a, b, c>>))
      BY DEF Empareja, PalabraHeader, PalabraCuerpo
    <3> QED
      BY <3>1, EsUnPaquete DEF MensajeLecturaQC
  <2>4. ASSUME NEW m \in Motivos PROVE EsPaquete(MensajeFinalizacion(m))
    <3>1. Empareja(PalabraHeader("QC_FINALIZACION"), PalabraCuerpo(<<m>>))
      BY DEF Empareja, PalabraHeader, PalabraCuerpo
    <3> QED
      BY <3>1, EsUnPaquete DEF MensajeFinalizacion
  <2> QED
    BY <2>1, <2>2, <2>3, <2>4
<1>2. CASE RecibirSaludo(x)
  <2>1. UNCHANGED a_cliente \/ AlCliente(AMaster(x), RespuestaHandshakeDesconocido)
    BY <1>2 DEF RecibirSaludo
  <2>2. ~Cierra(AMaster(x))
    BY <1>2 DEF RecibirSaludo, EnMaster, Plan, Abiertos, Cierra
  <2> QED
    BY <1>1, <2>1, <2>2
<1>3. CASE SaludarWorker(x) \/ SaludarQueryControl(x)
  <2>1. UNCHANGED a_cliente \/ AlCliente(AMaster(x), RespuestaHandshake)
    BY <1>3 DEF SaludarWorker, SaludarQueryControl, Despachar, Responder
  <2>2. ~Cierra(AMaster(x))
    BY <1>3 DEF SaludarWorker, SaludarQueryControl, EnMaster, Plan, Abiertos, Cierra
  <2> QED
    BY <1>1, <2>1, <2>2
<1>4. CASE PlanificarFifo(x)
  <2>1. CASE queries_ready = <<>> \/ Libres = {}
    BY <1>4, <2>1 DEF PlanificarFifo
  <2>2. CASE ~(queries_ready = <<>> \/ Libres = {})
    <3> DEFINE w == lista_workers_info[Min(Libres)]
               p == ComandoEjecutar(Head(queries_ready), path[Head(queries_ready)], 0)
    <3>1. AlCliente(AMaster(w), p)
      BY <1>4, <2>2 DEF PlanificarFifo
    <3>2. w \in ToSet(lista_workers_info) /\ w \in Workers
      <4>1. Libres \in SUBSET Nat /\ Libres # {} /\ \A k \in Libres : k \in 1 .. Len(lista_workers_info)
        BY <2>2, LenProperties DEF Libres, Plan, Listas
      <4>2. Min(Libres) \in 1 .. Len(lista_workers_info)
        BY <4>1, MinNat
      <4> QED
        BY <4>2, ElementOfSeq, ElementosLista DEF Plan, Listas
    <3> HIDE DEF w
    <3>3. ~Cierra(AMaster(w)) /\ w \in Clientes
      BY <3>2, LosEnlaces DEF Plan, Abiertos, Cierra
    <3> QED
      BY <1>1, <3>1, <3>3
  <2> QED
    BY <2>1, <2>2
<1>5. CASE ProcesarLectura(x)
  <2>1. hilo_master[x].paso = "mensaje" /\ x \in Workers
    BY <1>5, ElementosLista DEF ProcesarLectura, LeeMensaje, EnMaster, Plan, Abiertos, Listas
  <2> DEFINE q == queries_exec[x]
             c == Payload(a_servidor, AMaster(x))
  <2>2. CASE q = SinQuery
    BY <1>5, <2>2 DEF ProcesarLectura
  <2>3. CASE q # SinQuery
    <3>1. AlCliente(AMaster(q), MensajeLecturaQC(c[1], c[2], c[3]))
      BY <1>5, <2>3 DEF ProcesarLectura
    <3>2. q \in Clientes /\ q \notin Workers
      BY <2>1, <2>3, LosEnlaces DEF Plan, Listas
    <3> QED
      BY <1>1, <3>1, <3>2
  <2> QED
    BY <2>2, <2>3
<1>6. ASSUME NEW m \in Motivos, Finalizar(x, m), x \in Workers, queries_exec[x] # SinQuery
      PROVE  \E y, p : Bien(y, p)
  <2>1. AlCliente(AMaster(queries_exec[x]), MensajeFinalizacion(m))
    BY <1>6 DEF Finalizar
  <2>2. queries_exec[x] \in Clientes /\ queries_exec[x] \notin Workers
    BY <1>6, LosEnlaces DEF Plan, Listas
  <2> QED
    BY <1>1, <2>1, <2>2
<1>7. CASE ProcesarFin(x)
  <2>1. /\ hilo_master[x].paso = "mensaje" /\ x \in Workers
        /\ hilo_master[x].header = "QUERY_FINALIZADA"
    BY <1>7, ElementosLista DEF ProcesarFin, LeeMensaje, EnMaster, Plan, Abiertos, Listas
  <2>2. CASE queries_exec[x] = SinQuery
    BY <1>7, <2>2 DEF ProcesarFin
  <2>3. CASE queries_exec[x] # SinQuery
    <3>1. Finalizar(x, Payload(a_servidor, AMaster(x))[2])
      BY <1>7, <2>3 DEF ProcesarFin
    <3>2. Payload(a_servidor, AMaster(x))[2] \in Motivos
      BY <2>1 DEF Cauces, LectoresDelMaster, Pagado, Empareja, PalabraHeader, Payload
    <3> QED
      BY <1>6, <2>1, <2>3, <3>1, <3>2
  <2> QED
    BY <2>2, <2>3
<1>8. CASE DesconectarWorker(x)
  <2>1. hilo_master[x].paso = "despedir" /\ x \in Workers
    BY <1>8, ElementosLista DEF DesconectarWorker, EnMaster, Plan, Abiertos, Listas
  <2>2. UNCHANGED a_cliente
        \/ (queries_exec[x] # SinQuery /\ Finalizar(x, "ERROR_DESCONEXION_WORKER"))
    BY <1>8 DEF DesconectarWorker
  <2> QED
    BY <1>6, <2>1, <2>2 DEF Motivos
<1>9. CASE AgregarWorker(x) \/ AgregarQuery(x) \/ RecibirDeWorker(x) \/ DejarDeMirar(x)
  BY <1>9 DEF AgregarWorker, AgregarQuery, RecibirDeWorker, DejarDeMirar, enchufes
<1> QED
  BY <1>2, <1>3, <1>4, <1>5, <1>7, <1>8, <1>9 DEF HiloDelMaster, AtenderEnMaster

\* Reading a header, at the beginning of a packet, and reading its payload.
LEMMA LeerHeader ==
    ASSUME NEW canal, NEW c, EnOrden(canal[c]), Entero(canal[c])
    PROVE  IF canal[c] = <<>> THEN Header(canal, c) = "error"
           ELSE Head(canal[c]).header = Header(canal, c) /\ Pagado(Tail(canal[c]), Header(canal, c))
BY LeerPalabra DEF Entero, Header

LEMMA LeerCuerpo ==
    ASSUME NEW canal, NEW c, EnOrden(canal[c]), NEW h, Pagado(canal[c], h)
    PROVE  /\ canal[c] # <<>> /\ Entero(Tail(canal[c]))
           /\ Payload(canal, c) = Head(canal[c]).campos
           /\ Empareja(PalabraHeader(h), Head(canal[c]))
BY LeerPalabra DEF Pagado, Payload, Empareja

LEMMA MasterLee ==
    ASSUME Formas, Cauces, NEW x \in Clientes, HiloDelMaster(x)
    PROVE  LET s == a_servidor'[AMaster(x)] IN
           /\ EnOrden(s)
           /\ hilo_master'[x].paso \in {"identificar", "mensaje"} => Pagado(s, hilo_master'[x].header)
           /\ hilo_master'[x].paso \notin {"identificar", "mensaje", "fin"} => Entero(s)
<1> DEFINE c == AMaster(x)
           s == a_servidor[c]
<1>1. /\ c \in Enlaces /\ EnOrden(s)
      /\ hilo_master[x].paso \in {"identificar", "mensaje"} => Pagado(s, hilo_master[x].header)
      /\ hilo_master[x].paso \notin {"identificar", "mensaje", "fin"} => Entero(s)
  BY LosEnlaces DEF Cauces, Corrientes, LectoresDelMaster
<1>2. CASE AgregarWorker(x) \/ AgregarQuery(x) \/ DesconectarWorker(x) \/ DejarDeMirar(x)
  <2>1. UNCHANGED a_servidor
    BY <1>2 DEF AgregarWorker, AgregarQuery, DesconectarWorker, DejarDeMirar, enchufes
  <2>2. /\ hilo_master[x].paso \notin {"identificar", "mensaje", "fin"}
        /\ hilo_master'[x].paso \notin {"identificar", "mensaje"}
    BY <1>2 DEF AgregarWorker, AgregarQuery, DesconectarWorker, DejarDeMirar, EnMaster, PasaMaster,
                Formas, FormaMaster
  <2> QED
    BY <1>1, <2>1, <2>2
<1>3. CASE PlanificarFifo(x)
  <2>1. UNCHANGED a_servidor
    BY <1>3 DEF PlanificarFifo
  <2>2. hilo_master[x].paso = "planificar" /\ hilo_master'[x].paso \notin {"identificar", "mensaje"}
    BY <1>3 DEF PlanificarFifo, EnMaster, PasaMaster, Vuelta, Formas, FormaMaster
  <2> QED
    BY <1>1, <2>1, <2>2
<1>4. CASE SaludarWorker(x) \/ SaludarQueryControl(x) \/ ProcesarLectura(x) \/ ProcesarFin(x)
  <2>1. /\ a_servidor' = Resto(a_servidor, c)
        /\ hilo_master[x].paso \in {"identificar", "mensaje"}
        /\ hilo_master'[x].paso \notin {"identificar", "mensaje"}
    BY <1>4
       DEF SaludarWorker, SaludarQueryControl, ProcesarLectura, ProcesarFin, LeeMensaje, Despachar, Responder,
           EnMaster, PasaMaster, Formas, FormaMaster
  <2>2. s # <<>> /\ Entero(Tail(s)) /\ EnOrden(Tail(s))
    BY <1>1, <2>1, LeerCuerpo, LeerPalabra
  <2>3. a_servidor'[c] = Tail(s)
    BY <1>1, <2>1, <2>2, AlLeer DEF Formas, FormaEnchufes
  <2> QED
    BY <2>1, <2>2, <2>3
<1>5. CASE RecibirSaludo(x) \/ RecibirDeWorker(x)
  <2> DEFINE h == Header(a_servidor, c)
  <2>1. /\ a_servidor' = Resto(a_servidor, c) /\ hilo_master[x].paso \in {"saludo", "espera"}
        /\ hilo_master'[x].header = h
        /\ hilo_master'[x].paso \in {"identificar", "mensaje"} => h # "error"
        /\ hilo_master'[x].paso \notin {"identificar", "mensaje", "fin"} => h = "error" /\ hilo_master[x].paso = "espera"
    BY <1>5 DEF RecibirSaludo, RecibirDeWorker, LeeMaster, EnMaster, Formas, FormaMaster
  <2>2. Entero(s) /\ (s # <<>> => EnOrden(Tail(s)) /\ Pagado(Tail(s), h)) /\ (s = <<>> => h = "error")
    BY <1>1, <2>1, LeerHeader, LeerPalabra
  <2>3. a_servidor'[c] = IF s = <<>> THEN s ELSE Tail(s)
    BY <1>1, AlLeer, <2>1 DEF Formas, FormaEnchufes
  <2>4. CASE s = <<>>
    BY <1>1, <2>1, <2>2, <2>3, <2>4
  <2>5. CASE s # <<>>
    <3>1. h # "error"
      BY <2>2, <2>5 DEF Pagado, Empareja, PalabraHeader
    <3> QED
      BY <1>1, <2>1, <2>2, <2>3, <2>5, <3>1
  <2> QED
    BY <2>4, <2>5
<1> QED
  BY <1>2, <1>3, <1>4, <1>5 DEF HiloDelMaster, AtenderEnMaster

\* A reader finds in t, later, what it was going to find in s.
Sigue(s, t) ==
    /\ EnOrden(s) => EnOrden(t)
    /\ Entero(s) => Entero(t)
    /\ \A g : Pagado(s, g) => Pagado(t, g)

LEMMA AlEnviarSigue ==
    ASSUME NEW canal, DOMAIN canal = Enlaces, NEW c \in Enlaces, EnOrden(canal[c]), NEW p, EsPaquete(p), NEW otro
    PROVE  \A d \in Enlaces : Sigue(canal[d], Enviado(canal, c, p, otro)[d])
<1> DEFINE r == Enviado(canal, c, p, otro)
<1>1. \A d \in Enlaces \ {c} : r[d] = canal[d]
  BY AlEnviar
<1>2. r[c] = canal[c] \/ r[c] = canal[c] \o p
  BY AlEnviar
<1> HIDE DEF r
<1>3. Sigue(canal[c], r[c])
  BY <1>2, EnviarPaquete DEF Sigue
<1>4. \A d \in Enlaces \ {c} : Sigue(canal[d], r[d])
  BY <1>1 DEF Sigue
<1> QED
  BY <1>3, <1>4 DEF r

\* The ends of the sockets that are closed stay closed.
LEMMA SiguenCerrados ==
    ASSUME Formas, Next PROVE \A c \in Enlaces : cerrado[c] \subseteq cerrado'[c]
<1>1. UNCHANGED cerrado \/ \E cs, e : Cerrar(cs, e)
  <2>1. ASSUME NEW x \in Clientes, HiloDelMaster(x) PROVE UNCHANGED cerrado \/ \E cs, e : Cerrar(cs, e)
    BY <2>1
       DEF HiloDelMaster, AtenderEnMaster, RecibirSaludo, SaludarWorker, SaludarQueryControl,
            AgregarWorker, AgregarQuery, PlanificarFifo, RecibirDeWorker, ProcesarLectura, ProcesarFin,
            DesconectarWorker, DejarDeMirar, LeeMaster, Despachar, Responder, LeeMensaje, Finalizar, enchufes
  <2>2. ASSUME NEW x \in Conectables, HiloDelStorage(x) PROVE UNCHANGED cerrado \/ \E cs, e : Cerrar(cs, e)
    BY <2>2
       DEF HiloDelStorage, AtenderEnStorage, RecibirSaludoStorage, RechazarCliente, IdentificarWorker,
            ContarWorker, RecibirOperacion, Operar, DespedirWorker, LeeStorage, enchufes
  <2>3. ASSUME NEW q \in QueryControls, ProgramaControl(q) \/ Enter(q)
        PROVE  UNCHANGED cerrado \/ \E cs, e : Cerrar(cs, e)
    BY <2>3
       DEF ProgramaControl, Enter, ConectarQueryControl, Controlar, Saludar, RecibirOk, Escuchar, Procesar,
           Terminar, PulsarEnter, enchufes
  <2>4. ASSUME NEW w \in Workers, Principal(w) \/ Listener(w) \/ HiloDeQuery(w)
        PROVE  UNCHANGED cerrado \/ \E cs, e : Cerrar(cs, e)
    BY <2>4
       DEF Principal, Listener, HiloDeQuery, ConectarWorkerAStorage, ConectarWorkerAMaster,
            Rechazado, Arrancar, SaludarStorage, RecibirOkStorage, RecibirTamanioBloque, SaludarMaster,
            RecibirOkMaster, RecibirPayloadOk, Oir, EscucharMaster, AtenderMaster,
            EjecutarQuery, Comenzar, TomarLinea, AccederPagina, TerminarInstruccion, Informar, Pedir,
            EsperarRespuesta, LeerRespuesta, EsperarSemaforo, LeerContenido, enchufes
  <2>5. ASSUME NEW x \in Ajenos, AjenoLlamaAlMaster(x) \/ AjenoLlamaAlStorage(x) \/ AjenoCuelga(x)
        PROVE  UNCHANGED cerrado \/ \E cs, e : Cerrar(cs, e)
    BY <2>5 DEF AjenoLlamaAlMaster, AjenoLlamaAlStorage, AjenoCuelga
  <2>6. ASSUME Caer PROVE \E cs, e : Cerrar(cs, e)
    BY <2>6 DEF Caer, CaerMaster, CaerStorage, CaerWorker
  <2> QED
    BY <2>1, <2>2, <2>3, <2>4, <2>5, <2>6 DEF Next
<1> QED
  BY <1>1 DEF Cerrar

LEMMA CaucesMaster ==
    ASSUME Formas, Plan, Cauces, Next, NEW x \in Clientes, HiloDelMaster(x) PROVE Cauces'
<1>1. /\ UNCHANGED worker
      /\ \A y \in Clientes \ {x} : hilo_master'[y] = hilo_master[y]
      /\ \A y \in Clientes \ {x} : a_servidor'[AMaster(y)] = a_servidor[AMaster(y)]
      /\ \A y \in Conectables : a_cliente'[AStorage(y)] = a_cliente[AStorage(y)]
  BY AlcanceMaster DEF Igual
<1>2. /\ \A y \in Clientes : Sigue(a_cliente[AMaster(y)], a_cliente'[AMaster(y)])
      /\ \A w \in Workers : Cierra(AMaster(w)) => a_cliente'[AMaster(w)] = a_cliente[AMaster(w)]
  <2>1. CASE UNCHANGED a_cliente
    BY <2>1 DEF Sigue
  <2>2. ASSUME NEW y \in Clientes, NEW p, EsPaquete(p), AlCliente(AMaster(y), p),
               y \in Workers => ~Cierra(AMaster(y))
        PROVE  <1>2!:
    <3>1. AMaster(y) \in Enlaces /\ EnOrden(a_cliente[AMaster(y)])
      BY LosEnlaces DEF Cauces, Corrientes
    <3>2. \A d \in Enlaces : Sigue(a_cliente[d], a_cliente'[d])
      BY <2>2, <3>1, AlEnviarSigue DEF AlCliente, Formas, FormaEnchufes
    <3>3. \A d \in Enlaces \ {AMaster(y)} : a_cliente'[d] = a_cliente[d]
      BY <2>2, <3>1, AlEnviar DEF AlCliente, Formas, FormaEnchufes
    <3> QED
      BY <2>2, <3>2, <3>3, LosEnlaces
  <2> QED
    BY <2>1, <2>2, MasterEnvia
<1>3. Corrientes' /\ LectoresDelMaster'
  BY <1>1, <1>2, MasterLee DEF Cauces, Corrientes, LectoresDelMaster, Sigue
<1>4. LectoresDelWorker'
  <2>1. \A w \in Workers : Cierra(AMaster(w)) => Cierra(AMaster(w))'
    BY SiguenCerrados, LosEnlaces DEF Cierra
  <2> QED
    BY <1>1, <1>2, <2>1, LosEnlaces DEF Cauces, LectoresDelWorker, EnSuMaster, EnSuStorage, Sigue
<1>5. Ordenes' /\ Encargos'
  BY <1>1 DEF Cauces, Ordenes, Encargos
<1> QED
  BY <1>3, <1>4, <1>5 DEF Cauces

\* What the Storage understands is an operation or a greeting.
LEMMA LoDeserializado ==
    ASSUME NEW h, NEW p, Deserializar(h, p) # Nula
    PROVE  Deserializar(h, p).op = h /\ h \in Operaciones \union {"HANDSHAKE_WORKER"}
BY DEF Deserializar, FileTag, DeserializarTruncate, DeserializarWrite, DeserializarRead, DeserializarTag,
       Operaciones, RespuestaDe

LEMMA RespuestasEnteras ==
    ASSUME NEW o, o.op \in Operaciones \union {"HANDSHAKE_WORKER"}, NEW r \in Respuestas(o)
    PROVE  r = <<>> \/ EsPaquete(r)
<1>1. \A d : EsPaquete(RespuestaRead(d, BlockSize))
  BY EsUnPaqueteComun DEF RespuestaRead
<1>2. EsPaquete(ErrorOperacion("ERROR"))
  <2>1. Empareja(PalabraHeader("ERROR_OPERACION"), PalabraCuerpo(<<"ERROR">>))
    BY DEF Empareja, PalabraHeader, PalabraCuerpo, Motivos
  <2> QED
    BY <2>1, EsUnPaquete DEF ErrorOperacion
<1>3. o.op \in Operaciones => EsPaquete(Paquete(RespuestaDe[o.op], <<>>))
  BY EsUnPaqueteComun DEF RespuestaDe, Operaciones
<1> QED
  BY <1>1, <1>2, <1>3 DEF Respuestas

LEMMA CaucesStorage ==
    ASSUME Formas, Cauces, Next, NEW x \in Conectables, HiloDelStorage(x) PROVE Cauces'
<1>1. UNCHANGED <<worker, hilo_master>> /\ (\A y \in Clientes : Igual(AMaster(y)))
      /\ \A y \in Conectables \ {x} : Igual(AStorage(y))
  BY AlcanceStorage, LosEnlaces DEF master
<1>2. UNCHANGED a_cliente \/ (\E p : EsPaquete(p) /\ AlCliente(AStorage(x), p)) \/ AlCliente(AStorage(x), <<>>)
  <2>1. CASE Operar(x)
    <3> DEFINE c == Payload(a_servidor, AStorage(x))
               o == IF c = <<>> THEN Nula ELSE Deserializar(hilo_storage[x].header, c)
    <3>1. CASE o = Nula
      BY <2>1, <3>1 DEF Operar
    <3>2. CASE o # Nula
      <4>1. PICK r \in Respuestas(o) : AlCliente(AStorage(x), r)
        BY <2>1, <3>2 DEF Operar
      <4>2. o.op \in Operaciones \union {"HANDSHAKE_WORKER"}
        BY <3>2, LoDeserializado
      <4> HIDE DEF o
      <4> QED
        BY <4>1, <4>2, RespuestasEnteras
    <3> QED
      BY <3>1, <3>2
  <2>2. CASE RechazarCliente(x)
    BY <2>2, EsUnPaqueteComun DEF RechazarCliente, RespuestaHandshakeDesconocido
  <2>3. CASE IdentificarWorker(x)
    BY <2>3, EsUnPaqueteComun DEF IdentificarWorker, RespuestaHandshakeStorage
  <2>4. CASE RecibirSaludoStorage(x) \/ ContarWorker(x) \/ RecibirOperacion(x) \/ DespedirWorker(x)
    BY <2>4 DEF RecibirSaludoStorage, ContarWorker, RecibirOperacion, DespedirWorker, enchufes
  <2> QED
    BY <2>1, <2>2, <2>3, <2>4 DEF HiloDelStorage, AtenderEnStorage
<1>3. Sigue(a_cliente[AStorage(x)], a_cliente'[AStorage(x)])
  <2>1. AStorage(x) \in Enlaces /\ EnOrden(a_cliente[AStorage(x)])
    BY LosEnlaces DEF Cauces, Corrientes
  <2>2. CASE \E p : EsPaquete(p) /\ AlCliente(AStorage(x), p)
    BY <2>1, <2>2, AlEnviarSigue DEF AlCliente, Formas, FormaEnchufes
  <2>3. CASE AlCliente(AStorage(x), <<>>)
    <3>1. a_cliente[AStorage(x)] \o <<>> = a_cliente[AStorage(x)]
      BY <2>1, ConcatEmptySeq DEF EnOrden
    <3> QED
      BY <2>1, <2>3, <3>1, AlEnviar DEF AlCliente, Formas, FormaEnchufes, Sigue
  <2>4. CASE UNCHANGED a_cliente
    BY <2>4 DEF Sigue
  <2> QED
    BY <1>2, <2>2, <2>3, <2>4
<1>4. Corrientes' /\ LectoresDelMaster'
  BY <1>1, <1>3, LosEnlaces DEF Cauces, Corrientes, LectoresDelMaster, Igual, Sigue
<1>5. LectoresDelWorker'
  <2>1. ASSUME NEW w \in Workers
        PROVE  /\ EnSuMaster(w)' = EnSuMaster(w) /\ Cierra(AMaster(w))' = Cierra(AMaster(w))
               /\ Sigue(EnSuStorage(w), EnSuStorage(w)')
    BY <1>1, <1>3, LosEnlaces DEF Igual, EnSuMaster, EnSuStorage, Cierra, Sigue
  <2> QED
    BY <1>1, <2>1 DEF Cauces, LectoresDelWorker, Sigue
<1>6. Ordenes' /\ Encargos'
  BY <1>1 DEF Cauces, Ordenes, Encargos
<1> QED
  BY <1>4, <1>5, <1>6 DEF Cauces

\* What a client does leaves the threads of the Master where they are.
LEMMA SiguenLectores ==
    ASSUME Formas, Cauces, NEW x \in Clientes,
           UNCHANGED hilo_master \/ (hilo_master[x].paso = "sin_conectar" /\ hilo_master' = Acepta(hilo_master, x)),
           \A y \in Clientes : Sigue(a_servidor[AMaster(y)], a_servidor'[AMaster(y)])
    PROVE  LectoresDelMaster'
<1>1. \A y \in Clientes :
        hilo_master'[y] = hilo_master[y]
        \/ (hilo_master[y].paso = "sin_conectar" /\ hilo_master'[y].paso = "saludo")
  BY DEF Acepta, Formas, FormaMaster
<1> QED
  BY <1>1 DEF Cauces, LectoresDelMaster, Sigue

LEMMA EnviarSigue ==
    ASSUME Formas, NEW c \in Enlaces, EnOrden(a_servidor[c]), NEW p, EsPaquete(p), AlServidor(c, p)
    PROVE  /\ \A d \in Enlaces : Sigue(a_servidor[d], a_servidor'[d])
           /\ \A d \in Enlaces \ {c} : a_servidor'[d] = a_servidor[d]
BY AlEnviarSigue, AlEnviar DEF AlServidor, Formas, FormaEnchufes

LEMMA CaucesControl ==
    ASSUME Formas, Cauces, Comienzos, NEW q \in QueryControls, ProgramaControl(q) \/ Enter(q) PROVE Cauces'
<1> DEFINE c == AMaster(q)
<1>1. /\ UNCHANGED worker /\ \A d \in Enlaces \ {c} : Igual(d)
      /\ UNCHANGED hilo_master \/ (hilo_master[q].paso = "sin_conectar" /\ hilo_master' = Acepta(hilo_master, q))
  BY AlcanceControl DEF Comienzos
<1>2. c \in Enlaces /\ q \in Clientes /\ EnOrden(a_servidor[c]) /\ EnOrden(a_cliente[c])
  BY LosEnlaces DEF Cauces, Corrientes
<1>3. Sigue(a_servidor[c], a_servidor'[c])
  <2>1. UNCHANGED a_servidor \/ AlServidor(c, HandshakeMaster(control[q].pedido[1], control[q].pedido[2]))
    BY DEF ProgramaControl, Enter, ConectarQueryControl, Controlar, Saludar, RecibirOk, Escuchar, Procesar,
           Terminar, PulsarEnter, enchufes
  <2>2. EsPaquete(HandshakeMaster(control[q].pedido[1], control[q].pedido[2]))
    BY EsUnPaqueteComun DEF HandshakeMaster
  <2>3. CASE UNCHANGED a_servidor
    BY <2>3 DEF Sigue
  <2> QED
    BY <1>2, <2>1, <2>2, <2>3, EnviarSigue
<1>4. EnOrden(a_cliente'[c])
  <2>1. UNCHANGED a_cliente \/ a_cliente' = Resto(a_cliente, c)
    BY DEF ProgramaControl, Enter, ConectarQueryControl, Controlar, Saludar, RecibirOk, Escuchar, Procesar,
           Terminar, PulsarEnter, LeeControl, enchufes
  <2>2. CASE a_cliente' = Resto(a_cliente, c)
    BY <1>2, <2>2, AlLeer, LeerPalabra DEF Formas, FormaEnchufes
  <2> QED
    BY <1>2, <2>1, <2>2
<1>5. \A x \in Clientes : Sigue(a_servidor[AMaster(x)], a_servidor'[AMaster(x)])
  BY <1>1, <1>3, LosEnlaces DEF Igual, Sigue
<1>6. Corrientes'
  BY <1>1, <1>4, <1>5, LosEnlaces DEF Cauces, Corrientes, Igual, Sigue
<1>7. LectoresDelMaster'
  BY <1>1, <1>2, <1>5, SiguenLectores
<1>8. LectoresDelWorker' /\ Ordenes' /\ Encargos'
  <2>1. ASSUME NEW w \in Workers
        PROVE  EnSuMaster(w)' = EnSuMaster(w) /\ EnSuStorage(w)' = EnSuStorage(w)
               /\ Cierra(AMaster(w))' = Cierra(AMaster(w))
    BY <1>1, LosEnlaces DEF Igual, EnSuMaster, EnSuStorage, Cierra
  <2> QED
    BY <1>1, <2>1 DEF Cauces, LectoresDelWorker, Ordenes, Encargos
<1> QED
  BY <1>6, <1>7, <1>8 DEF Cauces

\* The three threads of a Worker: the main one and the listener leave the query
\* alone, but for those that wait; the query thread leaves them alone.
DeLaQuery(x) ==
    <<x.ejecuta, x.query, x.archivo, x.pc, x.tarea, x.paginas, x.leido, x.sem_respuesta_storage,
      x.query_en_ejecucion>>
DelProceso(x) == <<x.paso, x.id, x.header, x.tamanio_bloque>>

LEMMA AlcancePrincipal ==
    ASSUME Formas, NEW w \in Workers, Principal(w) \/ Listener(w)
    PROVE  DeLaQuery(worker'[w]) = DeLaQuery(worker[w])
<1> USE DEF Formas, FormaWorker, CamposWorker
<1>1. CASE Principal(w)
  BY <1>1
     DEF Principal, ConectarWorkerAStorage, ConectarWorkerAMaster, Rechazado, Arrancar, SaludarStorage,
         RecibirOkStorage, RecibirTamanioBloque, SaludarMaster, RecibirOkMaster, RecibirPayloadOk, DeLaQuery
<1>2. CASE Listener(w)
  BY <1>2 DEF Listener, Oir, EscucharMaster, AtenderMaster, DeLaQuery
<1> QED
  BY <1>1, <1>2

LEMMA AlcanceQuery ==
    ASSUME Formas, NEW w \in Workers, HiloDeQuery(w)
    PROVE  /\ DelProceso(worker'[w]) = DelProceso(worker[w])
           /\ UNCHANGED <<cerrado, hilo_master, hilo_storage>> /\ a_cliente'[AMaster(w)] = a_cliente[AMaster(w)]
<1> USE DEF Formas, FormaWorker, CamposWorker
<1>1. UNCHANGED <<hilo_master, hilo_storage>>
  BY SMTT(30) DEF HiloDeQuery, master, storage
<1>2. UNCHANGED cerrado
  BY DEF HiloDeQuery, EjecutarQuery, Comenzar, TomarLinea, AccederPagina, TerminarInstruccion, Informar, Pedir,
         EsperarRespuesta, LeerRespuesta, EsperarSemaforo, LeerContenido, enchufes
<1>3. UNCHANGED a_cliente \/ a_cliente' = Resto(a_cliente, AStorage(w))
  BY DEF HiloDeQuery, EjecutarQuery, Comenzar, TomarLinea, AccederPagina, TerminarInstruccion, Informar, Pedir,
         EsperarRespuesta, LeerRespuesta, EsperarSemaforo, LeerContenido, enchufes
<1>4. a_cliente'[AMaster(w)] = a_cliente[AMaster(w)]
  BY <1>3, LosEnlaces DEF Resto, FormaEnchufes
<1>5. DelProceso(worker'[w]) = DelProceso(worker[w])
  <2>1. CASE AccederPagina(w) \/ Informar(w) \/ Pedir(w)
    BY <2>1 DEF AccederPagina, Informar, Pedir, DelProceso
  <2>2. CASE Comenzar(w)
    BY <2>2 DEF Comenzar, DelProceso
  <2>3. CASE TerminarInstruccion(w)
    BY <2>3 DEF TerminarInstruccion, DelProceso
  <2>4. CASE EsperarRespuesta(w) \/ EsperarSemaforo(w) \/ LeerContenido(w)
    BY <2>4 DEF EsperarRespuesta, EsperarSemaforo, LeerContenido, DelProceso
  <2>5. CASE LeerRespuesta(w)
    BY <2>5 DEF LeerRespuesta, DelProceso
  <2>6. CASE TomarLinea(w)
    BY <2>6, ZenonT(60) DEF TomarLinea, DelProceso
  <2> QED
    BY <2>1, <2>2, <2>3, <2>4, <2>5, <2>6 DEF HiloDeQuery, EjecutarQuery
<1> QED
  BY <1>1, <1>2, <1>4, <1>5

\* What a query asks for and tells are packets.
LEMMA EncargosEnteros ==
    ASSUME NEW w, NEW i, NEW n,
           NEW e \in Escribibles(w) \union Propias(w, i) \union {Lectura(w, i, n), Leida(i, n)}
    PROVE  EsPaquete(e.paquete)
<1>1. \A a, b, c, d, f : EsPaquete(Pedido(OperacionWrite(a, b, c, "datos", d, f)).paquete)
  BY EsUnPaqueteComun DEF Pedido, OperacionWrite
<1>2. EsPaquete(Lectura(w, i, n).paquete) /\ EsPaquete(Leida(i, n).paquete)
  BY EsUnPaqueteComun DEF Lectura, Leida, Pedido, Informe, OperacionRead, MensajeLectura
<1>3. ASSUME e \in Propias(w, i) PROVE EsPaquete(e.paquete)
  <2> DEFINE q == worker[w].query
  <2>1. /\ \A a, b : EsPaquete(OperacionCreate(a, b, q)) /\ EsPaquete(OperacionDelete(a, b, q))
        /\ \A a, b : EsPaquete(OperacionCommit(a, b, q))
        /\ \A a, b, c : EsPaquete(OperacionTruncate(a, b, c, q))
        /\ \A a, b, c, d : EsPaquete(OperacionTag(a, b, c, d, q))
    BY EsUnPaqueteComun DEF OperacionCreate, OperacionDelete, OperacionCommit, OperacionTruncate, OperacionTag
  <2>2. EsPaquete(FinQuery(q, "COMPLETADA"))
    <3>1. Empareja(PalabraHeader("QUERY_FINALIZADA"), PalabraCuerpo(<<q, "COMPLETADA">>))
      BY DEF Empareja, PalabraHeader, PalabraCuerpo, Motivos
    <3> QED
      BY <3>1, EsUnPaquete DEF FinQuery
  <2>3. \/ \E a, b : e = Pedido(OperacionCreate(a, b, q)) \/ e = Pedido(OperacionDelete(a, b, q))
                     \/ e = Pedido(OperacionCommit(a, b, q))
        \/ \E a, b, c : e = Pedido(OperacionTruncate(a, b, c, q))
        \/ \E a, b, c, d : e = Pedido(OperacionTag(a, b, c, d, q))
        \/ e = Informe(FinQuery(q, "COMPLETADA"))
    BY <1>3, Zenon DEF Propias
  <2> QED
    BY <2>1, <2>2, <2>3 DEF Pedido, Informe
<1> QED
  BY <1>1, <1>2, <1>3 DEF Escribibles, Escritura

\* What a Worker sends is a packet.
LEMMA WorkerEnvia ==
    ASSUME Formas, Cauces, NEW w \in Workers, Principal(w) \/ Listener(w) \/ HiloDeQuery(w)
    PROVE  \A x \in Clientes : Sigue(a_servidor[AMaster(x)], a_servidor'[AMaster(x)])
<1>1. AMaster(w) \in Enlaces /\ AStorage(w) \in Enlaces /\ EnOrden(a_servidor[AMaster(w)])
  BY LosEnlaces DEF Cauces, Corrientes
<1>2. CASE UNCHANGED a_servidor
  BY <1>2 DEF Sigue
<1>3. ASSUME NEW p, AlServidor(AStorage(w), p) PROVE \A x \in Clientes : UNCHANGED a_servidor[AMaster(x)]
  BY <1>1, <1>3, AlEnviar, LosEnlaces DEF AlServidor, Formas, FormaEnchufes
<1>4. ASSUME NEW p, EsPaquete(p), AlServidor(AMaster(w), p)
      PROVE  \A x \in Clientes : Sigue(a_servidor[AMaster(x)], a_servidor'[AMaster(x)])
  BY <1>1, <1>4, EnviarSigue, LosEnlaces
<1>5. CASE SaludarMaster(w)
  <2>1. EsPaquete(HandshakeWorker(worker[w].id))
    BY EsUnPaqueteComun DEF HandshakeWorker
  <2> QED
    BY <1>4, <1>5, <2>1 DEF SaludarMaster
<1>6. CASE Informar(w)
  <2>1. EsPaquete(Head(worker[w].tarea).paquete)
    <3>1. worker[w].tarea # <<>> /\ worker[w].tarea \in Seq(ToSet(worker[w].tarea))
      BY <1>6 DEF Informar, Toca, Cauces, Encargos
    <3>2. 1 \in 1 .. Len(worker[w].tarea) /\ Head(worker[w].tarea) = worker[w].tarea[1]
      BY <3>1, EmptySeq
    <3> QED
      BY <3>2 DEF Cauces, Encargos
  <2> QED
    BY <1>4, <1>6, <2>1 DEF Informar
<1>7. CASE LeerRespuesta(w)
  <2> DEFINE p == Payload(a_cliente, AStorage(w))
  <2>1. CASE UNCHANGED a_servidor
    BY <1>2, <2>1
  <2>2. CASE worker[w].leido = "ERROR_OPERACION" /\ p # <<>>
    <3>1. AlServidor(AMaster(w), FinQuery(worker[w].query, p[1]))
      BY <1>7, <2>2 DEF LeerRespuesta
    <3>2. Pagado(EnSuStorage(w), "ERROR_OPERACION")
      BY <1>7, <2>2 DEF LeerRespuesta, Ejecuta, Cauces, LectoresDelWorker
    <3>3. p[1] \in Motivos
      BY <3>2 DEF EnSuStorage, Pagado, Empareja, PalabraHeader, Payload
    <3>4. Empareja(PalabraHeader("QUERY_FINALIZADA"), PalabraCuerpo(<<worker[w].query, p[1]>>))
      BY <3>3 DEF Empareja, PalabraHeader, PalabraCuerpo
    <3>5. EsPaquete(FinQuery(worker[w].query, p[1]))
      BY <3>4, EsUnPaquete DEF FinQuery
    <3> QED
      BY <1>4, <3>1, <3>5
  <2> QED
    BY <1>7, <2>1, <2>2 DEF LeerRespuesta
<1>8. CASE SaludarStorage(w) \/ Pedir(w)
  BY <1>3, <1>8 DEF SaludarStorage, Pedir, Sigue
<1> QED
  <2>1. \/ SaludarMaster(w) \/ Informar(w) \/ LeerRespuesta(w) \/ SaludarStorage(w) \/ Pedir(w)
        \/ UNCHANGED a_servidor
    BY DEF Principal, Listener, HiloDeQuery, ConectarWorkerAStorage, ConectarWorkerAMaster, Arrancar,
           RecibirOkStorage, RecibirTamanioBloque, RecibirOkMaster, RecibirPayloadOk, Oir, EscucharMaster,
           AtenderMaster, EjecutarQuery, Comenzar, TomarLinea, AccederPagina, TerminarInstruccion,
           EsperarRespuesta, EsperarSemaforo, LeerContenido, enchufes
  <2> QED
    BY <2>1, <1>2, <1>5, <1>6, <1>7, <1>8

\* Where a Worker is after it reads.
LEMMA LeePrincipal ==
    ASSUME Formas, Cauces, NEW w \in Workers, Principal(w) \/ Listener(w)
    PROVE  /\ EnOrden(a_cliente'[AMaster(w)]) /\ EnOrden(a_cliente'[AStorage(w)])
           /\ worker'[w].paso \notin {"payload_ok", "payload", "rechazado", "caido"} => Entero(a_cliente'[AMaster(w)])
           /\ worker'[w].paso = "payload_ok" => Pagado(a_cliente'[AMaster(w)], "HANDSHAKE_OK")
           /\ worker'[w].paso = "payload" =>
                 \/ Pagado(a_cliente'[AMaster(w)], worker'[w].header)
                 \/ worker'[w].header = "error" /\ a_cliente'[AMaster(w)] = <<>> /\ Cierra(AMaster(w))
           /\ worker[w].ejecuta # "libre" => a_cliente'[AStorage(w)] = a_cliente[AStorage(w)]
<1> DEFINE m == AMaster(w)
           t == AStorage(w)
           s == a_cliente[m]
           h == Header(a_cliente, m)
           W == worker'[w]
<1> USE DEF FormaWorker, CamposWorker
<1>1. /\ m \in Enlaces /\ t \in Enlaces /\ m # t /\ EnOrden(s) /\ EnOrden(a_cliente[t])
      /\ DOMAIN a_cliente = Enlaces /\ FormaWorker
  BY LosEnlaces DEF Cauces, Corrientes, Formas, FormaEnchufes
<1>2. CASE UNCHANGED a_cliente /\ worker[w].paso \in AntesDelMaster \union {"master"}
           /\ W.paso \in AntesDelMaster \union {"master", "ok_master", "rechazado"}
  BY <1>1, <1>2 DEF Cauces, LectoresDelWorker, EnSuMaster, AntesDelMaster
<1>3. CASE RecibirOkStorage(w) \/ RecibirTamanioBloque(w)
  <2>1. a_cliente' = Resto(a_cliente, t)
    BY <1>3 DEF RecibirOkStorage, RecibirTamanioBloque
  <2>2. /\ worker[w].paso \in {"ok_storage", "bloque"} /\ W.paso \in {"bloque", "conectar_master", "rechazado"}
        /\ worker[w].ejecuta = "libre"
    BY <1>1, <1>3 DEF RecibirOkStorage, RecibirTamanioBloque, EnWorker, Rechazado, Cauces, Ordenes
  <2>3. a_cliente'[m] = s /\ EnOrden(a_cliente'[t])
    BY <1>1, <2>1, AlLeer, LeerPalabra
  <2> QED
    BY <1>1, <2>2, <2>3 DEF Cauces, LectoresDelWorker, EnSuMaster
<1>4. CASE RecibirOkMaster(w) \/ RecibirPayloadOk(w) \/ EscucharMaster(w) \/ AtenderMaster(w)
  <2>1. a_cliente' = Resto(a_cliente, m)
    BY <1>4 DEF RecibirOkMaster, RecibirPayloadOk, EscucharMaster, AtenderMaster
  <2>2. /\ a_cliente'[m] = (IF s = <<>> THEN s ELSE Tail(s)) /\ EnOrden(a_cliente'[m])
        /\ a_cliente'[t] = a_cliente[t]
    BY <1>1, <2>1, AlLeer, LeerPalabra
  <2>3. CASE RecibirOkMaster(w)
    <3>1. worker[w].paso = "ok_master" /\ (W.paso = "rechazado" \/ (W.paso = "payload_ok" /\ h = "HANDSHAKE_OK"))
      <4>1. CASE h = "HANDSHAKE_OK"
        BY <1>1, <2>3, <4>1 DEF RecibirOkMaster, EnWorker
      <4>2. CASE h # "HANDSHAKE_OK"
        BY <1>1, <2>3, <4>2 DEF RecibirOkMaster, EnWorker, Rechazado
      <4> QED
        BY <4>1, <4>2
    <3>2. Entero(s)
      BY <3>1 DEF Cauces, LectoresDelWorker, EnSuMaster
    <3>3. h = "HANDSHAKE_OK" => s # <<>> /\ Pagado(Tail(s), h)
      BY <1>1, <3>2, LeerHeader
    <3> QED
      BY <1>1, <2>2, <3>1, <3>3
  <2>4. CASE RecibirPayloadOk(w)
    <3>1. W.paso = "escucha" /\ Pagado(s, "HANDSHAKE_OK")
      BY <1>1, <2>4 DEF RecibirPayloadOk, EnWorker, Cauces, LectoresDelWorker, EnSuMaster
    <3>2. s # <<>> /\ Entero(Tail(s))
      BY <1>1, <3>1, LeerCuerpo
    <3> QED
      BY <1>1, <2>2, <3>1, <3>2
  <2>5. CASE EscucharMaster(w)
    <3>1. W.paso = "payload" /\ W.header = h /\ Entero(s) /\ (s # <<>> \/ Cierra(m))
      BY <1>1, <2>5
         DEF EscucharMaster, EnWorker, DelMaster, Vuelve, Cierra, Cauces, LectoresDelWorker, EnSuMaster
    <3>2. s # <<>> => Pagado(Tail(s), h)
      BY <1>1, <3>1, LeerHeader
    <3>3. s = <<>> => h = "error"
      BY DEF Header
    <3> QED
      BY <1>1, <2>2, <3>1, <3>2, <3>3
  <2>6. CASE AtenderMaster(w)
    <3>1. W.paso = "escucha" /\ (s = <<>> \/ Pagado(s, worker[w].header))
      BY <1>1, <2>6 DEF AtenderMaster, EnWorker, Cauces, LectoresDelWorker, EnSuMaster
    <3>2. s # <<>> => Entero(Tail(s))
      BY <1>1, <3>1, LeerCuerpo
    <3> QED
      BY <1>1, <2>2, <3>1, <3>2 DEF Entero
  <2> QED
    BY <1>4, <2>3, <2>4, <2>5, <2>6
<1> QED
  <2>1. CASE ConectarWorkerAStorage(w) \/ ConectarWorkerAMaster(w) \/ SaludarStorage(w) \/ SaludarMaster(w)
    <3>1. UNCHANGED a_cliente
      BY <2>1 DEF ConectarWorkerAStorage, ConectarWorkerAMaster, SaludarStorage, SaludarMaster, enchufes
    <3> QED
      BY <1>1, <1>2, <2>1, <3>1
         DEF ConectarWorkerAStorage, ConectarWorkerAMaster, SaludarStorage, SaludarMaster, EnWorker, Rechazado,
             AntesDelMaster
  <2> QED
    BY <1>3, <1>4, <2>1 DEF Principal, Listener, Arrancar, Oir

LEMMA LeeQuery ==
    ASSUME Formas, Cauces, NEW w \in Workers, HiloDeQuery(w)
    PROVE  /\ EnOrden(a_cliente'[AStorage(w)])
           /\ worker'[w].ejecuta = "cuerpo" /\ worker'[w].leido = "ERROR_OPERACION" =>
                 Pagado(a_cliente'[AStorage(w)], "ERROR_OPERACION")
<1> DEFINE t == AStorage(w)
           s == a_cliente[t]
           W == worker'[w]
<1> USE DEF FormaWorker, CamposWorker
<1>1. t \in Enlaces /\ EnOrden(s) /\ DOMAIN a_cliente = Enlaces /\ FormaWorker
  BY LosEnlaces DEF Cauces, Corrientes, Formas, FormaEnchufes
<1>2. CASE EsperarRespuesta(w)
  <2>1. a_cliente' = Resto(a_cliente, t)
    BY <1>2 DEF EsperarRespuesta
  <2>2. a_cliente'[t] = (IF s = <<>> THEN s ELSE Tail(s)) /\ EnOrden(a_cliente'[t])
    BY <1>1, <2>1, AlLeer, LeerPalabra
  <2>3. W.ejecuta = "cuerpo" => W.leido = Header(a_cliente, t)
    BY <1>1, <1>2 DEF EsperarRespuesta
  <2>4. Header(a_cliente, t) = "ERROR_OPERACION" => s # <<>> /\ Pagado(Tail(s), "ERROR_OPERACION")
    BY <1>1, LeerPalabra DEF Header
  <2> QED
    BY <2>2, <2>3, <2>4
<1>3. CASE LeerRespuesta(w) \/ LeerContenido(w)
  <2>1. a_cliente' = Resto(a_cliente, t)
    BY <1>3 DEF LeerRespuesta, LeerContenido
  <2>2. EnOrden(a_cliente'[t])
    BY <1>1, <2>1, AlLeer, LeerPalabra
  <2>3. W.ejecuta # "cuerpo"
    <3>1. CASE LeerRespuesta(w)
      BY <1>1, <3>1 DEF LeerRespuesta
    <3>2. CASE LeerContenido(w)
      BY <1>1, <3>2 DEF LeerContenido
    <3> QED
      BY <1>3, <3>1, <3>2
  <2> QED
    BY <2>2, <2>3
<1>4. CASE Comenzar(w) \/ TomarLinea(w) \/ AccederPagina(w) \/ TerminarInstruccion(w) \/ Informar(w) \/ Pedir(w)
           \/ EsperarSemaforo(w)
  <2>1. UNCHANGED a_cliente
    BY <1>4 DEF Comenzar, TomarLinea, AccederPagina, TerminarInstruccion, Informar, Pedir, EsperarSemaforo, enchufes
  <2>2. W.ejecuta # "cuerpo"
    <3>1. CASE Comenzar(w) \/ Informar(w) \/ Pedir(w)
      BY <1>1, <3>1 DEF Comenzar, Informar, Pedir, Toca, Ejecuta
    <3>2. CASE AccederPagina(w)
      BY <1>1, <3>2 DEF AccederPagina, Ejecuta
    <3>3. CASE TerminarInstruccion(w)
      BY <1>1, <3>3 DEF TerminarInstruccion, Ejecuta
    <3>4. CASE EsperarSemaforo(w)
      BY <1>1, <3>4 DEF EsperarSemaforo, Ejecuta
    <3>5. CASE TomarLinea(w)
      <4>1. CASE worker[w].pc = Len(Lineas(w))
        BY <1>1, <3>5, <4>1 DEF TomarLinea
      <4>2. CASE worker[w].pc # Len(Lineas(w))
        BY <1>1, <3>5, <4>2, ZenonT(60) DEF TomarLinea
      <4> QED
        BY <4>1, <4>2
    <3> QED
      BY <1>4, <3>1, <3>2, <3>3, <3>4, <3>5
  <2> QED
    BY <1>1, <2>1, <2>2, SMTT(30)
<1> QED
  BY <1>2, <1>3, <1>4 DEF HiloDeQuery, EjecutarQuery

\* Lists of which nothing is known but that they are lists.
LEMMA Nada == \A s : s = <<>> => s \in Seq(ToSet(s)) /\ Len(s) = 0
OBVIOUS

LEMMA Cola ==
    ASSUME NEW s, s \in Seq(ToSet(s)), s # <<>>
    PROVE  /\ Tail(s) \in Seq(ToSet(Tail(s))) /\ Len(Tail(s)) = Len(s) - 1 /\ Len(s) \in Nat \ {0}
           /\ \A k \in 1 .. Len(Tail(s)) : k + 1 \in 1 .. Len(s) /\ Tail(s)[k] = s[k + 1]
           /\ 1 \in 1 .. Len(s) /\ Head(s) = s[1]
<1>1. Len(s) \in Nat \ {0}
  BY EmptySeq
<1>2. Tail(s) \in Seq(ToSet(s)) /\ Len(Tail(s)) = Len(s) - 1 /\ \A k \in 1 .. Len(Tail(s)) : Tail(s)[k] = s[k + 1]
  BY <1>1, HeadTailProperties
<1>3. Tail(s) \in Seq(ToSet(Tail(s)))
  BY <1>2, EsLista
<1> QED
  BY <1>1, <1>2, <1>3

LEMMA OrdenesWorker ==
    ASSUME Formas, Cauces, NEW w \in Workers, Principal(w) \/ Listener(w) \/ HiloDeQuery(w) PROVE Ordenes'
<1> DEFINE e == worker[w].espera
           E == worker'[w].espera
<1> USE DEF FormaWorker, CamposWorker
<1>1. /\ FormaWorker /\ e \in Seq(ToSet(e)) /\ \A k \in 1 .. Len(e) : e[k][3] = 0
      /\ worker[w].paso \notin {"escucha", "payload"} => e = <<>> /\ worker[w].ejecuta = "libre"
  BY DEF Cauces, Ordenes, Formas
<1>2. \A v \in Workers \ {w} : worker'[v] = worker[v]
  BY AlcanceWorker
<1>3. worker'[w].paso \notin {"escucha", "payload"} => E = <<>> /\ worker'[w].ejecuta = "libre"
  <2>1. CASE Principal(w)
    <3>1. worker[w].paso \notin {"escucha", "payload"} /\ E = e /\ worker'[w].ejecuta = worker[w].ejecuta
      BY <1>1, <2>1
         DEF Principal, ConectarWorkerAStorage, ConectarWorkerAMaster, Rechazado, Arrancar, SaludarStorage,
             RecibirOkStorage, RecibirTamanioBloque, SaludarMaster, RecibirOkMaster, RecibirPayloadOk, EnWorker
    <3> QED
      BY <1>1, <3>1
  <2>2. CASE Listener(w)
    BY <1>1, <2>2 DEF Listener, Oir, EscucharMaster, AtenderMaster
  <2>3. CASE HiloDeQuery(w)
    <3>1. worker'[w].paso = worker[w].paso
      BY <2>3, AlcanceQuery DEF DelProceso
    <3>2. e # <<>> \/ worker[w].ejecuta # "libre"
      BY <2>3 DEF HiloDeQuery, EjecutarQuery, Comenzar, TomarLinea, AccederPagina, TerminarInstruccion, Informar,
                  Pedir, EsperarRespuesta, LeerRespuesta, EsperarSemaforo, LeerContenido, Toca, Ejecuta
    <3> QED
      BY <1>1, <3>1, <3>2
  <2> QED
    BY <2>1, <2>2, <2>3
<1>4. E \in Seq(ToSet(E)) /\ \A k \in 1 .. Len(E) : E[k][3] = 0
  <2>1. CASE AtenderMaster(w)
    <3> DEFINE p == Payload(a_cliente, AMaster(w))
    <3>1. CASE worker[w].header = "EJECUTAR_QUERY" /\ p # <<>>
      <4>1. E = Append(e, p)
        BY <1>1, <2>1, <3>1 DEF AtenderMaster
      <4>2. p[3] = 0
        <5>1. Pagado(EnSuMaster(w), "EJECUTAR_QUERY")
          BY <2>1, <3>1 DEF AtenderMaster, EnWorker, Cauces, LectoresDelWorker
        <5> QED
          BY <5>1 DEF Pagado, Empareja, PalabraHeader, EnSuMaster, Payload
      <4> HIDE DEF p
      <4>3. /\ Append(e, p) \in Seq(ToSet(e) \union {p}) /\ Len(Append(e, p)) = Len(e) + 1 /\ Len(e) \in Nat
            /\ \A k \in 1 .. Len(e) : Append(e, p)[k] = e[k]
            /\ Append(e, p)[Len(e) + 1] = p
        <5>1. e \in Seq(ToSet(e) \union {p})
          BY <1>1, SeqMonotonic
        <5> QED
          BY <5>1, AppendProperties
      <4>4. E \in Seq(ToSet(E))
        BY <4>1, <4>3, EsLista
      <4> QED
        BY <1>1, <4>1, <4>2, <4>3, <4>4
    <3>2. CASE ~(worker[w].header = "EJECUTAR_QUERY" /\ p # <<>>)
      <4>1. E = e
        BY <1>1, <2>1, <3>2 DEF AtenderMaster
      <4> QED
        BY <1>1, <4>1
    <3> QED
      BY <3>1, <3>2
  <2>2. CASE Comenzar(w)
    <3>1. E = Tail(e) /\ e # <<>>
      BY <1>1, <2>2 DEF Comenzar
    <3>2. \A k \in 1 .. Len(E) : k + 1 \in 1 .. Len(e) /\ E[k] = e[k + 1]
      BY <1>1, <3>1, Cola
    <3>3. \A k \in 1 .. Len(E) : E[k][3] = 0
      BY <1>1, <3>2
    <3>4. Tail(e) \in Seq(ToSet(Tail(e)))
      BY <1>1, <3>1, Cola
    <3>5. E \in Seq(ToSet(E))
      BY <3>1, <3>4, Zenon
    <3> QED
      BY <3>3, <3>5
  <2>3. CASE ~AtenderMaster(w) /\ ~Comenzar(w)
    <3>1. E = e
      <4>1. CASE Principal(w)
        BY <1>1, <4>1
           DEF Principal, ConectarWorkerAStorage, ConectarWorkerAMaster, Rechazado, Arrancar, SaludarStorage,
               RecibirOkStorage, RecibirTamanioBloque, SaludarMaster, RecibirOkMaster, RecibirPayloadOk
      <4>2. CASE EscucharMaster(w)
        BY <1>1, <4>2 DEF EscucharMaster
      <4>3. CASE TomarLinea(w)
        <5>1. CASE worker[w].pc = Len(Lineas(w))
          BY <1>1, <4>3, <5>1 DEF TomarLinea
        <5>2. CASE worker[w].pc # Len(Lineas(w))
          <6>1. \E t, p : worker' = [worker EXCEPT ![w].ejecuta = "instruccion", ![w].tarea = t, ![w].paginas = p]
            BY <4>3, <5>2, Zenon DEF TomarLinea
          <6> QED
            BY <1>1, <6>1
        <5> QED
          BY <5>1, <5>2
      <4>4. CASE AccederPagina(w) \/ Informar(w) \/ Pedir(w)
        BY <1>1, <4>4 DEF AccederPagina, Informar, Pedir
      <4>5. CASE TerminarInstruccion(w)
        BY <1>1, <4>5 DEF TerminarInstruccion
      <4>6. CASE EsperarRespuesta(w) \/ EsperarSemaforo(w) \/ LeerContenido(w)
        BY <1>1, <4>6 DEF EsperarRespuesta, EsperarSemaforo, LeerContenido
      <4>7. CASE LeerRespuesta(w)
        BY <1>1, <4>7 DEF LeerRespuesta
      <4> QED
        BY <2>3, <4>1, <4>2, <4>3, <4>4, <4>5, <4>6, <4>7 DEF Listener, Oir, HiloDeQuery, EjecutarQuery
    <3> QED
      BY <1>1, <3>1
  <2> QED
    BY <2>1, <2>2, <2>3
<1> QED
  BY <1>2, <1>3, <1>4 DEF Cauces, Ordenes

LEMMA EncargosWorker ==
    ASSUME Formas, Cauces, NEW w \in Workers, Principal(w) \/ Listener(w) \/ HiloDeQuery(w) PROVE Encargos'
<1> DEFINE t == worker[w].tarea
           T == worker'[w].tarea
           Bien(s) == s \in Seq(ToSet(s)) /\ \A k \in 1 .. Len(s) : EsPaquete(s[k].paquete)
<1> USE DEF FormaWorker, CamposWorker
<1>1. FormaWorker /\ Bien(t)
  BY DEF Cauces, Encargos, Formas
<1>2. \A v \in Workers \ {w} : worker'[v] = worker[v]
  BY AlcanceWorker
<1>3. Bien(<<>>) /\ (t # <<>> => Bien(Tail(t)))
  BY <1>1, Cola DEF ToSet
<1>4. ASSUME NEW i, NEW n, NEW s \in Seq(Escribibles(w) \union Propias(w, i) \union {Lectura(w, i, n), Leida(i, n)})
      PROVE  Bien(s)
  <2>1. \A k \in 1 .. Len(s) : EsPaquete(s[k].paquete)
    BY <1>4, EncargosEnteros, ElementOfSeq
  <2> QED
    BY <1>4, <2>1, EsLista
<1> HIDE DEF Bien
<1>5. Bien(T)
  <2>1. CASE Principal(w) \/ Listener(w)
    BY <1>1, <2>1, AlcancePrincipal DEF DeLaQuery
  <2>2. CASE TomarLinea(w)
    <3> DEFINE i == Instruccion(w)
    <3>1. CASE worker[w].pc = Len(Lineas(w))
      BY <1>1, <2>2, <3>1 DEF TomarLinea
    <3>2. CASE worker[w].pc # Len(Lineas(w))
      <4>1. T \in Tareas(w, i)
        BY <1>1, <2>2, <3>2 DEF TomarLinea
      <4>2. T \in Seq(Escribibles(w) \union Propias(w, i))
        BY <4>1, TareasLista
      <4>3. T \in Seq(Escribibles(w) \union Propias(w, i) \union {Lectura(w, i, 0), Leida(i, 0)})
        BY <4>2, SeqMonotonic
      <4> QED
        BY <1>4, <4>3
    <3> QED
      BY <3>1, <3>2
  <2>3. CASE AccederPagina(w)
    <3> DEFINE i == Instruccion(w)
               n == Head(worker[w].paginas)
    <3>1. T \in Acceso(w, i, n)
      BY <1>1, <2>3 DEF AccederPagina
    <3> HIDE DEF n, i
    <3>2. T \in Seq(Escribibles(w) \union {Lectura(w, i, n), Leida(i, n)})
      BY <3>1, AccesoLista
    <3>3. T \in Seq(Escribibles(w) \union Propias(w, i) \union {Lectura(w, i, n), Leida(i, n)})
      BY <3>2, SeqMonotonic
    <3> QED
      BY <1>4, <3>3
  <2>4. CASE Comenzar(w)
    BY <1>1, <2>4 DEF Comenzar
  <2>5. CASE TerminarInstruccion(w)
    BY <1>1, <2>5 DEF TerminarInstruccion
  <2>6. CASE Informar(w) \/ Pedir(w)
    BY <1>1, <1>3, <2>6 DEF Informar, Pedir, Toca
  <2>7. CASE EsperarRespuesta(w)
    BY <1>1, <2>7 DEF EsperarRespuesta
  <2>8. CASE LeerRespuesta(w)
    BY <1>1, <2>8 DEF LeerRespuesta
  <2>9. CASE EsperarSemaforo(w) \/ LeerContenido(w)
    <3>1. T = t \/ T = <<>> \/ T = Tail(t)
      BY <1>1, <2>9 DEF EsperarSemaforo, LeerContenido
    <3>2. Tail(<<>>) = <<>>
      OBVIOUS
    <3> QED
      BY <1>1, <1>3, <3>1, <3>2
  <2> QED
    BY <2>1, <2>2, <2>3, <2>4, <2>5, <2>6, <2>7, <2>8, <2>9 DEF HiloDeQuery, EjecutarQuery
<1> QED
  BY <1>2, <1>5 DEF Cauces, Encargos, Bien

LEMMA CaucesWorker ==
    ASSUME Formas, Cauces, Comienzos, NEW w \in Workers, Principal(w) \/ Listener(w) \/ HiloDeQuery(w)
    PROVE  Cauces'
<1> DEFINE m == AMaster(w)
           t == AStorage(w)
<1>1. /\ \A v \in Workers \ {w} : worker'[v] = worker[v]
      /\ UNCHANGED hilo_master \/ (hilo_master[w].paso = "sin_conectar" /\ hilo_master' = Acepta(hilo_master, w))
      /\ \A c \in Enlaces \ {m, t} : Igual(c)
  <2>1. ConectarWorkerAMaster(w) => hilo_master[w].paso = "sin_conectar"
    BY DEF ConectarWorkerAMaster, EnWorker, Comienzos, AntesDelMaster
  <2> QED
    BY <2>1, AlcanceWorker
<1>2. \A x \in Clientes : Sigue(a_servidor[AMaster(x)], a_servidor'[AMaster(x)])
  BY WorkerEnvia
<1>3. /\ EnOrden(a_cliente'[m]) /\ EnOrden(a_cliente'[t])
      /\ worker'[w].paso \notin {"payload_ok", "payload", "rechazado", "caido"} => Entero(a_cliente'[m])
      /\ worker'[w].paso = "payload_ok" => Pagado(a_cliente'[m], "HANDSHAKE_OK")
      /\ worker'[w].paso = "payload" =>
            \/ Pagado(a_cliente'[m], worker'[w].header)
            \/ worker'[w].header = "error" /\ a_cliente'[m] = <<>> /\ Cierra(m)
      /\ worker'[w].ejecuta = "cuerpo" /\ worker'[w].leido = "ERROR_OPERACION" =>
            Pagado(a_cliente'[t], "ERROR_OPERACION")
  <2>1. CASE Principal(w) \/ Listener(w)
    <3>1. worker'[w].ejecuta = worker[w].ejecuta /\ worker'[w].leido = worker[w].leido
      BY <2>1, AlcancePrincipal DEF DeLaQuery
    <3>2. worker[w].ejecuta # "libre" => a_cliente'[t] = a_cliente[t]
      BY <2>1, LeePrincipal
    <3> QED
      BY <2>1, <3>1, <3>2, LeePrincipal DEF Cauces, LectoresDelWorker, EnSuStorage
  <2>2. CASE HiloDeQuery(w)
    <3>1. /\ worker'[w].paso = worker[w].paso /\ worker'[w].header = worker[w].header
          /\ a_cliente'[m] = a_cliente[m]
      BY <2>2, AlcanceQuery DEF DelProceso
    <3>2. EnOrden(a_cliente[m])
      BY LosEnlaces DEF Cauces, Corrientes
    <3> QED
      BY <2>2, <3>1, <3>2, LeeQuery DEF Cauces, LectoresDelWorker, EnSuMaster
  <2> QED
    BY <2>1, <2>2
<1>4. Corrientes'
  BY <1>1, <1>2, <1>3, LosEnlaces DEF Cauces, Corrientes, Igual, Sigue
<1>5. LectoresDelMaster'
  BY <1>1, <1>2, LosEnlaces, SiguenLectores
<1>6. LectoresDelWorker'
  <2>1. \A c \in Enlaces : Cierra(c)' = Cierra(c)
    BY NoCierran
  <2>2. ASSUME NEW v \in Workers \ {w}
        PROVE  worker'[v] = worker[v] /\ EnSuMaster(v)' = EnSuMaster(v) /\ EnSuStorage(v)' = EnSuStorage(v)
    BY <1>1, LosEnlaces DEF Igual, EnSuMaster, EnSuStorage
  <2>3. \A v \in Workers : Cierra(AMaster(v))' = Cierra(AMaster(v))
    BY <2>1, LosEnlaces
  <2> HIDE DEF m, t
  <2>4. EnSuMaster(w)' = a_cliente'[m] /\ EnSuStorage(w)' = a_cliente'[t] /\ m = AMaster(w)
    BY DEF EnSuMaster, EnSuStorage, m, t
  <2> QED
    BY <1>3, <2>2, <2>3, <2>4 DEF Cauces, LectoresDelWorker
<1> QED
  BY <1>4, <1>5, <1>6, OrdenesWorker, EncargosWorker DEF Cauces

LEMMA CaucesAjeno ==
    ASSUME Formas, Cauces, NEW x \in Ajenos, AjenoLlamaAlMaster(x) \/ AjenoLlamaAlStorage(x) \/ AjenoCuelga(x)
    PROVE  Cauces'
<1>1. /\ UNCHANGED <<worker, a_cliente>>
      /\ UNCHANGED hilo_master \/ (hilo_master[x].paso = "sin_conectar" /\ hilo_master' = Acepta(hilo_master, x))
  BY DEF AjenoLlamaAlMaster, AjenoLlamaAlStorage, AjenoCuelga, master, SinLlamar, EnMaster
<1>2. EsPaquete(Desconocido)
  BY EsUnPaqueteComun DEF Desconocido
<1>3. AMaster(x) \in Enlaces /\ AStorage(x) \in Enlaces /\ x \in Clientes /\ EnOrden(a_servidor[AMaster(x)])
  BY LosEnlaces DEF Cauces, Corrientes
<1>4. \A y \in Clientes : Sigue(a_servidor[AMaster(y)], a_servidor'[AMaster(y)])
  <2>1. CASE AlServidor(AMaster(x), Desconocido)
    BY <1>2, <1>3, <2>1, EnviarSigue, LosEnlaces
  <2>2. CASE AlServidor(AMaster(x), <<>>)
    <3>1. a_servidor[AMaster(x)] \o <<>> = a_servidor[AMaster(x)]
      BY <1>3, ConcatEmptySeq DEF EnOrden
    <3>2. \A d \in Enlaces \ {AMaster(x)} : a_servidor'[d] = a_servidor[d]
      BY <1>3, <2>2, AlEnviar DEF AlServidor, Formas, FormaEnchufes
    <3>3. a_servidor'[AMaster(x)] = a_servidor[AMaster(x)]
      <4> DEFINE s == a_servidor[AMaster(x)]
      <4> HIDE DEF s
      <4>1. a_servidor'[AMaster(x)] = s \o <<>> \/ a_servidor'[AMaster(x)] = s
        <5>1. \/ a_servidor' = a_servidor
              \/ a_servidor' = [a_servidor EXCEPT ![AMaster(x)] = a_servidor[AMaster(x)] \o <<>>]
          BY <2>2, Zenon DEF AlServidor, Enviado
        <5> QED
          BY <1>3, <5>1 DEF Formas, FormaEnchufes, s
      <4> QED
        BY <3>1, <4>1, Zenon DEF s
    <3> QED
      BY <3>2, <3>3, LosEnlaces DEF Sigue
  <2>3. CASE AlServidor(AStorage(x), Desconocido)
    <3>1. \A d \in Enlaces \ {AStorage(x)} : a_servidor'[d] = a_servidor[d]
      BY <1>3, <2>3, AlEnviar DEF AlServidor, Formas, FormaEnchufes
    <3> QED
      BY <3>1, LosEnlaces DEF Sigue
  <2>4. CASE UNCHANGED a_servidor
    BY <2>4 DEF Sigue
  <2> QED
    BY <2>1, <2>2, <2>3, <2>4 DEF AjenoLlamaAlMaster, AjenoLlamaAlStorage, AjenoCuelga
<1>5. Corrientes'
  BY <1>1, <1>4 DEF Cauces, Corrientes, Sigue
<1>6. LectoresDelMaster'
  BY <1>1, <1>3, <1>4, SiguenLectores
<1>7. \A w \in Workers : Cierra(AMaster(w))' = Cierra(AMaster(w))
  BY NoCierran, LosEnlaces
<1> QED
  BY <1>1, <1>5, <1>6, <1>7 DEF Cauces, LectoresDelWorker, Ordenes, Encargos, EnSuMaster, EnSuStorage

LEMMA CaucesCaer ==
    ASSUME Formas, Cauces, Next, Caer PROVE Cauces'
<1>1. \A w \in Workers : Cierra(AMaster(w)) => Cierra(AMaster(w))'
  BY SiguenCerrados, LosEnlaces DEF Cierra
<1>2. CASE CaerMaster /\ UNCHANGED <<storage, control, worker>>
  <2>1. UNCHANGED <<a_servidor, a_cliente, worker>>
    BY <1>2 DEF CaerMaster
  <2>2. \A x \in Clientes : hilo_master'[x] = hilo_master[x] \/ hilo_master'[x].paso = "fin"
    BY <1>2 DEF CaerMaster, HiloMaster
  <2>3. LectoresDelMaster'
    BY <2>1, <2>2 DEF Cauces, LectoresDelMaster
  <2> QED
    BY <1>1, <2>1, <2>3
       DEF Cauces, Corrientes, LectoresDelWorker, Ordenes, Encargos, EnSuMaster, EnSuStorage
<1>3. CASE CaerStorage /\ UNCHANGED <<master, control, worker>>
  <2>1. UNCHANGED <<a_servidor, a_cliente, worker, hilo_master>>
    BY <1>3 DEF CaerStorage, master
  <2> QED
    BY <1>1, <2>1
       DEF Cauces, Corrientes, LectoresDelMaster, LectoresDelWorker, Ordenes, Encargos, EnSuMaster, EnSuStorage
<1>4. ASSUME NEW w \in Workers, CaerWorker(w), UNCHANGED <<master, storage, control>> PROVE Cauces'
  <2>1. UNCHANGED a_cliente /\ UNCHANGED hilo_master
    BY <1>4 DEF CaerWorker, master
  <2>2. \A v \in Workers \ {w} : worker'[v] = worker[v]
    BY <1>4 DEF CaerWorker, Formas, FormaWorker
  <2>3. /\ worker'[w].paso = "caido" /\ worker'[w].ejecuta = "libre"
        /\ worker'[w].espera = <<>> /\ worker'[w].tarea = <<>>
    BY <1>4 DEF CaerWorker, WorkerInicial, Formas, FormaWorker
  <2>4. \A x \in Clientes : Sigue(a_servidor[AMaster(x)], a_servidor'[AMaster(x)])
    <3>1. AMaster(w) \in Enlaces /\ AStorage(w) \in Enlaces /\ DOMAIN a_servidor = Enlaces
          /\ EnOrden(a_servidor[AMaster(w)])
      BY LosEnlaces DEF Formas, FormaEnchufes, Cauces, Corrientes
    <3>2. PICK s \in Llegado(a_servidor[AMaster(w)], a_cliente[AMaster(w)]),
               t \in Llegado(a_servidor[AStorage(w)], a_cliente[AStorage(w)]) :
            a_servidor' = [a_servidor EXCEPT ![AMaster(w)] = s, ![AStorage(w)] = t]
      BY <1>4, Zenon DEF CaerWorker
    <3>3. Sigue(a_servidor[AMaster(w)], s)
      BY <3>1, LlegaEnOrden DEF Sigue
    <3>4. a_servidor'[AMaster(w)] = s /\ \A d \in Enlaces \ {AMaster(w), AStorage(w)} : a_servidor'[d] = a_servidor[d]
      BY <3>1, <3>2, LosEnlaces
    <3> QED
      BY <3>3, <3>4, LosEnlaces DEF Sigue
  <2>5. Corrientes'
    BY <2>1, <2>4 DEF Cauces, Corrientes, Sigue
  <2>6. LectoresDelMaster'
    BY <2>1, <2>4, LosEnlaces, SiguenLectores
  <2>7. LectoresDelWorker'
    BY <1>1, <2>1, <2>2, <2>3 DEF Cauces, LectoresDelWorker, EnSuMaster, EnSuStorage
  <2>8. Ordenes' /\ Encargos'
    <3>2. Ordenes'
      BY <2>2, <2>3, Nada DEF Cauces, Ordenes
    <3>3. Encargos'
      BY <2>2, <2>3, Nada DEF Cauces, Encargos
    <3> QED
      BY <3>2, <3>3
  <2> QED
    BY <2>5, <2>6, <2>7, <2>8 DEF Cauces
<1> QED
  BY <1>2, <1>3, <1>4 DEF Caer

LEMMA CaucesSiempre == Spec => []Cauces
<1>1. Init => Cauces
  <2> SUFFICES ASSUME Init PROVE Cauces
    OBVIOUS
  <2>1. \A x \in Clientes : a_servidor[AMaster(x)] = <<>> /\ a_cliente[AMaster(x)] = <<>>
    BY LosEnlaces DEF Init, InitEnchufes
  <2>2. \A x \in Conectables : a_cliente[AStorage(x)] = <<>>
    BY LosEnlaces DEF Init, InitEnchufes
  <2>3. \A x \in Clientes : hilo_master[x].paso = "sin_conectar"
    BY DEF Init, InitMaster, HiloMaster
  <2>4. \A w \in Workers : /\ worker[w].paso = "inicio" /\ worker[w].ejecuta = "libre"
                           /\ worker[w].espera = <<>> /\ worker[w].tarea = <<>>
    BY DEF Init, InitWorker, WorkerInicial
  <2>6. Corrientes /\ LectoresDelMaster
    BY <2>1, <2>2, <2>3, Vacio DEF Corrientes, LectoresDelMaster
  <2>7. LectoresDelWorker
    BY <2>1, <2>4, Vacio, LosEnlaces DEF LectoresDelWorker, EnSuMaster
  <2>8. Ordenes
    BY <2>4, Nada DEF Ordenes
  <2>9. Encargos
    BY <2>4, Nada DEF Encargos
  <2> QED
    BY <2>6, <2>7, <2>8, <2>9 DEF Cauces
<1>2. Formas /\ Comienzos /\ Plan /\ Cauces /\ [Next]_vars => Cauces'
  <2> SUFFICES ASSUME Formas, Comienzos, Plan, Cauces, [Next]_vars PROVE Cauces'
    OBVIOUS
  <2>1. CASE UNCHANGED vars
    BY <2>1 DEF vars, enchufes, master, Cauces, Corrientes, LectoresDelMaster, LectoresDelWorker, Ordenes,
                Encargos, EnSuMaster, EnSuStorage, Cierra
  <2>2. CASE Next
    BY <2>2, CaucesMaster, CaucesStorage, CaucesControl, CaucesWorker, CaucesAjeno, CaucesCaer DEF Next
  <2> QED
    BY <2>1, <2>2
<1> QED
  BY <1>1, <1>2, FormasSiempre, ComienzosSiempre, PlanSiempre, PTL DEF Spec

-----------------------------------------------------------------------------
(* A Query Control and the Master                                          *)

\* The final message is on its way; nothing but the messages of a query is.
HayFin(s) == \E e \in ToSet(s) : e.tipo = "header" /\ e.header = "QC_FINALIZACION"
SoloMensajes(s) == \A e \in ToSet(s) : e.tipo = "header" => e.header \in {"QC_LECTURA", "QC_FINALIZACION"}

\* The Master closes the socket of a query that it has accepted when it has sent
\* the final message.
Avisado(q, s) ==
    /\ SoloMensajes(s)
    /\ "servidor" \in cerrado[AMaster(q)] => HayFin(s) \/ "master" \in caidos

SinSaludar == {"sin_conectar", "saludo", "identificar"}

\* What a Query Control has been sent and what it has read of it, while nobody
\* has pressed Enter.
Conexion(q) ==
    LET c == control[q]
        s == a_cliente[AMaster(q)]
        hilo == hilo_master[q].paso
    IN
    /\ c.paso \in {"inicio", "conectado", "espera_ok"} => c.activo /\ c.motivo = "ninguno"
    /\ c.paso \in {"inicio", "conectado"} =>
          a_servidor[AMaster(q)] = <<>> /\ s = <<>> /\ hilo \in {"sin_conectar", "saludo", "fin"}
    /\ hilo \in SinSaludar => s = <<>>
    /\ c.paso \in {"escucha", "payload", "terminar"} => hilo \notin SinSaludar
    /\ c.paso \notin {"rechazado", "fin"} => "cliente" \notin cerrado[AMaster(q)]
    /\ c.paso = "espera_ok" =>
          Entero(s) /\ (s # <<>> /\ Head(s).header = "HANDSHAKE_OK" =>
                            Head(Tail(s)).campos = <<>> /\ Avisado(q, Tail(s)))
    /\ c.paso = "escucha" =>
          /\ s # <<>> /\ Head(s).tipo # "header" => Head(s).campos = <<>>
          /\ IF c.activo THEN c.motivo = "ninguno" /\ Avisado(q, s) ELSE c.motivo # "ninguno"
    /\ c.paso = "payload" =>
          /\ c.activo /\ c.motivo = "ninguno"
          /\ \/ c.header = "error" /\ s = <<>> /\ "master" \in caidos
             \/ c.header = "QC_LECTURA" /\ Pagado(s, c.header) /\ Avisado(q, s)
             \/ c.header = "QC_FINALIZACION" /\ Pagado(s, c.header)
    /\ c.paso = "terminar" => "master" \in caidos

\* With Enter or without it.
Dicho(q) ==
    LET c == control[q] IN
    /\ c.paso # "fin" => c.dicho = "ninguno"
    /\ c.motivo \in Motivos \union {"ninguno"}
    /\ c.paso = "payload" /\ c.header = "QC_FINALIZACION" => Pagado(a_cliente[AMaster(q)], "QC_FINALIZACION")
    /\ c.dicho = "DESCONEXION DEL MASTER" => "master" \in caidos

Controles == \A q \in QueryControls : Dicho(q) /\ (~control[q].cierre_local => Conexion(q))

\* The words of a stream after reading one and after sending two.
LEMMA PalabrasResto ==
    ASSUME NEW s, EnOrden(s), s # <<>>
    PROVE  ToSet(s) = ToSet(Tail(s)) \union {Head(s)}
<1>1. /\ s \in Seq(ToSet(s)) /\ Tail(s) \in Seq(ToSet(Tail(s)))
      /\ Len(Tail(s)) = Len(s) - 1 /\ Len(s) \in Nat \ {0} /\ Head(s) = s[1]
      /\ \A k \in 1 .. Len(Tail(s)) : Tail(s)[k] = s[k + 1]
  BY Cola DEF EnOrden
<1> DEFINE t == Tail(s)
           a == Head(s)
<1>2. /\ \A x : x \in ToSet(s) <=> \E k \in 1 .. Len(s) : s[k] = x
      /\ \A x : x \in ToSet(t) <=> \E k \in 1 .. Len(t) : t[k] = x
  BY <1>1, ElementosLista
<1> HIDE DEF t, a
<1>3. ASSUME NEW x \in ToSet(s) PROVE x \in ToSet(t) \union {a}
  <2>1. PICK k \in 1 .. Len(s) : s[k] = x
    BY <1>2, <1>3
  <2>2. k = 1 \/ (k - 1 \in 1 .. Len(t) /\ t[k - 1] = x)
    BY <1>1, <2>1 DEF t
  <2> QED
    BY <1>1, <1>2, <2>1, <2>2 DEF a
<1>4. ASSUME NEW x \in ToSet(t) \union {a} PROVE x \in ToSet(s)
  <2>1. CASE x = a
    BY <1>1, <1>2, <2>1 DEF a
  <2>2. CASE x \in ToSet(t)
    <3>1. PICK k \in 1 .. Len(t) : t[k] = x
      BY <1>2, <2>2
    <3>2. k + 1 \in 1 .. Len(s) /\ s[k + 1] = x
      BY <1>1, <3>1 DEF t
    <3> QED
      BY <1>2, <3>2
  <2> QED
    BY <1>4, <2>1, <2>2
<1> QED
  BY <1>3, <1>4 DEF t, a

LEMMA PalabrasEnviado ==
    ASSUME NEW s, EnOrden(s), NEW p, EsPaquete(p)
    PROVE  /\ ToSet(s \o p) = ToSet(s) \union {p[1], p[2]}
           /\ s \o p # <<>>
           /\ s # <<>> => Head(s \o p) = Head(s) /\ Tail(s \o p) = Tail(s) \o p
           /\ s = <<>> => s \o p = p
<1> DEFINE S == ToSet(s) \union {p[1], p[2]}
           r == s \o p
           n == Len(s)
<1>1. s \in Seq(ToSet(s)) /\ s \in Seq(S) /\ n \in Nat /\ p \in Seq(S) /\ Len(p) = 2
  <2>1. p = <<p[1], p[2]>>
    BY DEF EsPaquete
  <2>2. <<p[1], p[2]>> \in Seq(S) /\ Len(<<p[1], p[2]>>) = 2
    OBVIOUS
  <2>3. s \in Seq(ToSet(s))
    BY DEF EnOrden
  <2> QED
    BY <2>1, <2>2, <2>3, SeqMonotonic, LenProperties
<1> HIDE DEF S
<1>2. /\ r \in Seq(S) /\ Len(r) = n + 2
      /\ \A i \in 1 .. n + 2 : r[i] = IF i <= n THEN s[i] ELSE p[i - n]
  <2>1. /\ r \in Seq(S) /\ Len(r) = Len(s) + Len(p)
        /\ \A i \in 1 .. Len(s) + Len(p) : r[i] = IF i <= Len(s) THEN s[i] ELSE p[i - Len(s)]
    BY <1>1, ConcatProperties, Zenon
  <2> QED
    BY <1>1, <2>1
<1> HIDE DEF r
<1>3. /\ \A i \in 1 .. n : r[i] = s[i]
      /\ r[n + 1] = p[1] /\ r[n + 2] = p[2]
  <2>1. n + 1 - n = 1 /\ n + 2 - n = 2 /\ ~(n + 1 <= n) /\ ~(n + 2 <= n)
    BY <1>1
  <2> QED
    BY <1>1, <1>2, <2>1
<1> USE DEF S
<1>4. /\ \A x : x \in ToSet(s) <=> \E k \in 1 .. n : s[k] = x
      /\ \A x : x \in ToSet(r) <=> \E k \in 1 .. n + 2 : r[k] = x
  BY <1>1, <1>2, ElementosLista
<1>5. ToSet(r) = S
  <2>1. ASSUME NEW x \in S PROVE x \in ToSet(r)
    <3>1. CASE x \in ToSet(s)
      <4>1. PICK k \in 1 .. n : s[k] = x
        BY <1>4, <3>1
      <4>2. k \in 1 .. n + 2 /\ r[k] = x
        BY <1>1, <1>3, <4>1
      <4> QED
        BY <1>4, <4>2
    <3>2. CASE x \in {p[1], p[2]}
      <4>1. n + 1 \in 1 .. n + 2 /\ n + 2 \in 1 .. n + 2
        BY <1>1
      <4> QED
        BY <1>3, <1>4, <3>2, <4>1
    <3> QED
      BY <2>1, <3>1, <3>2
  <2>2. ASSUME NEW x \in ToSet(r) PROVE x \in S
    <3>1. PICK k \in 1 .. n + 2 : r[k] = x
      BY <1>4, <2>2
    <3>2. k \in 1 .. n \/ k = n + 1 \/ k = n + 2
      BY <1>1, <3>1
    <3> QED
      BY <1>3, <1>4, <3>1, <3>2
  <2> QED
    BY <2>1, <2>2
<1>6. r # <<>>
  BY <1>1, <1>2, EmptySeq
<1>7. s = <<>> => r = p
  BY <1>1, ConcatEmptySeq DEF r
<1> HIDE DEF S
<1>8. ASSUME s # <<>> PROVE Head(r) = Head(s) /\ Tail(r) = Tail(s) \o p
  <2>1. n # 0 /\ Head(s) = s[1] /\ Head(r) = r[1]
    BY <1>1, <1>2, <1>6, <1>8, EmptySeq
  <2>2. Tail(r) \in Seq(S) /\ Len(Tail(r)) = n + 1 /\ \A i \in 1 .. n + 1 : Tail(r)[i] = r[i + 1]
    BY <1>1, <1>2, <1>6, HeadTailProperties
  <2>3. Tail(s) \in Seq(S) /\ Len(Tail(s)) = n - 1 /\ \A i \in 1 .. n - 1 : Tail(s)[i] = s[i + 1]
    BY <1>1, <1>8, HeadTailProperties
  <2> DEFINE u == Tail(s) \o p
  <2>4. /\ u \in Seq(S) /\ Len(u) = n + 1
        /\ \A i \in 1 .. n + 1 : u[i] = IF i <= n - 1 THEN Tail(s)[i] ELSE p[i - (n - 1)]
    <3>1. /\ u \in Seq(S) /\ Len(u) = Len(Tail(s)) + Len(p)
          /\ \A i \in 1 .. Len(Tail(s)) + Len(p) :
                u[i] = IF i <= Len(Tail(s)) THEN Tail(s)[i] ELSE p[i - Len(Tail(s))]
      BY <1>1, <2>3, ConcatProperties, Zenon
    <3>2. Len(Tail(s)) + Len(p) = n + 1
      BY <1>1, <2>3
    <3> QED
      BY <2>3, <3>1, <3>2
  <2> HIDE DEF u
  <2>5. \A i \in 1 .. n + 1 : Tail(r)[i] = u[i]
    <3>1. ASSUME NEW i \in 1 .. n + 1 PROVE Tail(r)[i] = u[i]
      <4>1. CASE i <= n - 1
        BY <1>1, <1>3, <2>2, <2>3, <2>4, <4>1
      <4>2. CASE i = n
        <5>1. i - (n - 1) = 1 /\ i + 1 = n + 1 /\ ~(i <= n - 1)
          BY <1>1, <4>2
        <5> QED
          BY <1>3, <2>2, <2>4, <5>1
      <4>3. CASE i = n + 1
        <5>1. i - (n - 1) = 2 /\ i + 1 = n + 2 /\ ~(i <= n - 1)
          BY <1>1, <4>3
        <5> QED
          BY <1>3, <2>2, <2>4, <5>1
      <4>4. i <= n - 1 \/ i = n \/ i = n + 1
        BY <1>1
      <4> QED
        BY <4>1, <4>2, <4>3, <4>4
    <3> QED
      BY <3>1
  <2>6. Tail(r) = u
    BY <2>2, <2>4, <2>5, SeqEqual
  <2> QED
    BY <1>1, <1>3, <2>1, <2>6 DEF u
<1> QED
  BY <1>5, <1>6, <1>7, <1>8 DEF r, S

LEMMA AlLeerMensaje ==
    ASSUME NEW q, NEW s, EnOrden(s), s # <<>>, Avisado(q, s)
    PROVE  /\ SoloMensajes(Tail(s))
           /\ ~(Head(s).tipo = "header" /\ Head(s).header = "QC_FINALIZACION") => Avisado(q, Tail(s))
BY PalabrasResto DEF Avisado, SoloMensajes, HayFin

LEMMA AlEnviarMensaje ==
    ASSUME NEW s, EnOrden(s), NEW p, EsPaquete(p), p[1].header \in {"QC_LECTURA", "QC_FINALIZACION"}
    PROVE  /\ SoloMensajes(s) => SoloMensajes(s \o p)
           /\ HayFin(s) => HayFin(s \o p)
           /\ p[1].header = "QC_FINALIZACION" => HayFin(s \o p)
<1>1. p[1].tipo = "header" /\ p[2].tipo = "cuerpo"
  BY DEF EsPaquete, Empareja
<1>2. ToSet(s \o p) = ToSet(s) \union {p[1], p[2]}
  BY PalabrasEnviado
<1> QED
  BY <1>1, <1>2 DEF SoloMensajes, HayFin

\* What does not touch the connection of a Query Control.
LEMMA ConexionIgual ==
    ASSUME NEW q \in QueryControls, Igual(AMaster(q)), control'[q] = control[q],
           hilo_master'[q] = hilo_master[q], "master" \in caidos => "master" \in caidos'
    PROVE  /\ Conexion(q) => Conexion(q)'
           /\ Dicho(q) => Dicho(q)'
<1>1. \A s : Avisado(q, s) => Avisado(q, s)'
  BY DEF Avisado, HayFin, Igual
<1> QED
  BY <1>1 DEF Igual, Conexion, Dicho

\* The messages that the Master sends to a Query Control it has greeted.
LEMMA MasterAControl ==
    ASSUME Formas, Plan, Cauces, NEW x \in Clientes, HiloDelMaster(x), NEW q \in QueryControls,
           x # q \/ hilo_master[q].paso \notin {"saludo", "identificar"}
    PROVE  /\ x # q => hilo_master'[q] = hilo_master[q] /\ UNCHANGED a_servidor[AMaster(q)]
           /\ x = q => hilo_master[q].paso \notin SinSaludar \union {"fin"} /\ hilo_master'[q].paso \notin SinSaludar
           /\ \/ UNCHANGED <<a_cliente[AMaster(q)], cerrado[AMaster(q)]>>
              \/ /\ x # q /\ hilo_master[q].paso \notin SinSaludar \union {"fin"}
                 /\ \E p : /\ EsPaquete(p) /\ AlCliente(AMaster(q), p)
                           /\ \/ p[1].header = "QC_LECTURA" /\ UNCHANGED cerrado
                              \/ p[1].header = "QC_FINALIZACION" /\ Cerrar({AMaster(q)}, "servidor")
<1> DEFINE c == AMaster(q)
<1>1. c \in Enlaces /\ q \in Clientes /\ DOMAIN a_cliente = Enlaces
  BY LosEnlaces DEF Formas, FormaEnchufes
<1>2. x # q => hilo_master'[q] = hilo_master[q] /\ UNCHANGED a_servidor[c]
  BY <1>1, AlcanceMaster
<1>3. x = q => hilo_master[q].paso \notin SinSaludar \union {"fin"} /\ hilo_master'[q].paso \notin SinSaludar
  <2>1. ASSUME x = q PROVE hilo_master[q].paso \notin SinSaludar \union {"fin"}
    BY <2>1, AlcanceMaster DEF SinSaludar
  <2>2. ASSUME x = q PROVE hilo_master'[q].paso \notin SinSaludar
    BY <1>1, <2>1, <2>2
       DEF SinSaludar, HiloDelMaster, AtenderEnMaster, RecibirSaludo, SaludarWorker, SaludarQueryControl,
            AgregarWorker, AgregarQuery, PlanificarFifo, RecibirDeWorker, ProcesarLectura, ProcesarFin,
            DesconectarWorker, DejarDeMirar, LeeMaster, PasaMaster, LeeMensaje, EnMaster, Vuelta, Formas, FormaMaster
  <2> QED
    BY <2>1, <2>2
<1> DEFINE Bien(p) == /\ EsPaquete(p) /\ AlCliente(c, p)
                      /\ \/ p[1].header = "QC_LECTURA" /\ UNCHANGED cerrado
                         \/ p[1].header = "QC_FINALIZACION" /\ Cerrar({c}, "servidor")
<1>4. UNCHANGED <<a_cliente[c], cerrado[c]>>
      \/ (x # q /\ hilo_master[q].paso \notin SinSaludar \union {"fin"} /\ \E p : Bien(p))
  <2>1. ASSUME NEW d \in Clientes \ {q}, NEW p, AlCliente(AMaster(d), p) PROVE UNCHANGED a_cliente[c]
    BY <1>1, <2>1, AlEnviar, LosEnlaces DEF AlCliente
  <2>2. ASSUME NEW d \in Clientes \ {q}, Cerrar({AMaster(d)}, "servidor") PROVE UNCHANGED cerrado[c]
    BY <1>1, <2>2, LosEnlaces DEF Cerrar
  <2>3. Aceptada(q) => hilo_master[q].paso \notin SinSaludar \union {"fin"}
    BY DEF Plan, Abiertos, SinSaludar
  <2>4. CASE RecibirSaludo(x) \/ SaludarWorker(x) \/ SaludarQueryControl(x)
    <3>1. x # q
      BY <2>4 DEF RecibirSaludo, SaludarWorker, SaludarQueryControl, EnMaster
    <3>2. UNCHANGED a_cliente \/ \E p : AlCliente(AMaster(x), p)
      BY <2>4 DEF RecibirSaludo, SaludarWorker, SaludarQueryControl, Despachar, Responder
    <3>3. UNCHANGED cerrado \/ Cerrar({AMaster(x)}, "servidor")
      BY <2>4 DEF RecibirSaludo, SaludarWorker, SaludarQueryControl, Despachar, Responder
    <3> QED
      BY <2>1, <2>2, <3>1, <3>2, <3>3
  <2>5. CASE PlanificarFifo(x)
    <3>1. UNCHANGED cerrado
      BY <2>5 DEF PlanificarFifo
    <3>2. CASE queries_ready = <<>> \/ Libres = {}
      BY <2>5, <3>1, <3>2 DEF PlanificarFifo
    <3>3. CASE ~(queries_ready = <<>> \/ Libres = {})
      <4> DEFINE w == lista_workers_info[Min(Libres)]
                 p == ComandoEjecutar(Head(queries_ready), path[Head(queries_ready)], 0)
      <4>1. AlCliente(AMaster(w), p)
        BY <2>5, <3>3 DEF PlanificarFifo
      <4>2. w \in Workers
        <5>1. Libres \in SUBSET Nat /\ Libres # {} /\ \A k \in Libres : k \in 1 .. Len(lista_workers_info)
          BY <3>3, LenProperties DEF Libres, Plan, Listas
        <5>2. Min(Libres) \in 1 .. Len(lista_workers_info)
          BY <5>1, MinNat
        <5> QED
          BY <5>2, ElementOfSeq DEF Plan, Listas
      <4> HIDE DEF w, p
      <4> QED
        BY <2>1, <3>1, <4>1, <4>2, LosEnlaces
    <3> QED
      BY <3>2, <3>3
  <2>6. CASE ProcesarLectura(x)
    <3>1. UNCHANGED cerrado /\ hilo_master[x].paso = "mensaje"
      BY <2>6 DEF ProcesarLectura, LeeMensaje, EnMaster
    <3>2. x \in Workers
      BY <3>1, ElementosLista DEF Plan, Abiertos, Listas
    <3>3. CASE queries_exec[x] = SinQuery
      BY <2>6, <3>1, <3>3 DEF ProcesarLectura
    <3>4. CASE queries_exec[x] # SinQuery
      <4> DEFINE o == Payload(a_servidor, AMaster(x))
                 p == MensajeLecturaQC(o[1], o[2], o[3])
      <4>1. AlCliente(AMaster(queries_exec[x]), p) /\ queries_exec[x] \in QueryControls
        BY <2>6, <3>2, <3>4 DEF ProcesarLectura, Plan, Listas
      <4>2. EsPaquete(p) /\ p[1].header = "QC_LECTURA"
        <5>1. Empareja(PalabraHeader("QC_LECTURA"), PalabraCuerpo(<<o[1], o[2], o[3]>>))
          BY DEF Empareja, PalabraHeader, PalabraCuerpo
        <5>2. EsPaquete(p)
          BY <5>1, EsUnPaquete DEF MensajeLecturaQC
        <5> QED
          BY <5>2 DEF MensajeLecturaQC, Paquete, PalabraHeader
      <4> HIDE DEF p
      <4>3. CASE queries_exec[x] = q
        BY <2>3, <3>1, <3>2, <4>1, <4>2, <4>3, LosEnlaces DEF Aceptada
      <4>4. CASE queries_exec[x] # q
        BY <2>1, <3>1, <4>1, <4>4, LosEnlaces
      <4> QED
        BY <4>3, <4>4
    <3> QED
      BY <3>3, <3>4
  <2>7. ASSUME NEW m \in Motivos, Finalizar(x, m), x \in Workers, queries_exec[x] # SinQuery PROVE <1>4!:
    <3> DEFINE p == MensajeFinalizacion(m)
    <3>1. /\ AlCliente(AMaster(queries_exec[x]), p) /\ queries_exec[x] \in QueryControls
          /\ Cerrar({AMaster(queries_exec[x])}, "servidor")
      BY <2>7 DEF Finalizar, Plan, Listas
    <3>2. EsPaquete(p) /\ p[1].header = "QC_FINALIZACION"
      <4>1. Empareja(PalabraHeader("QC_FINALIZACION"), PalabraCuerpo(<<m>>))
        BY DEF Empareja, PalabraHeader, PalabraCuerpo
      <4>2. EsPaquete(p)
        BY <4>1, EsUnPaquete DEF MensajeFinalizacion
      <4> QED
        BY <4>2 DEF MensajeFinalizacion, Paquete, PalabraHeader
    <3> HIDE DEF p
    <3>3. CASE queries_exec[x] = q
      BY <2>3, <2>7, <3>1, <3>2, <3>3, LosEnlaces DEF Aceptada
    <3>4. CASE queries_exec[x] # q
      BY <2>1, <2>2, <3>1, <3>4, LosEnlaces
    <3> QED
      BY <3>3, <3>4
  <2>8. CASE ProcesarFin(x)
    <3>1. /\ hilo_master[x].paso = "mensaje" /\ x \in Workers
          /\ hilo_master[x].header = "QUERY_FINALIZADA"
      BY <2>8, ElementosLista DEF ProcesarFin, LeeMensaje, EnMaster, Plan, Abiertos, Listas
    <3>2. CASE queries_exec[x] = SinQuery
      BY <2>8, <3>2 DEF ProcesarFin
    <3>3. CASE queries_exec[x] # SinQuery
      <4>1. Finalizar(x, Payload(a_servidor, AMaster(x))[2])
        BY <2>8, <3>3 DEF ProcesarFin
      <4>2. Payload(a_servidor, AMaster(x))[2] \in Motivos
        BY <3>1 DEF Cauces, LectoresDelMaster, Pagado, Empareja, PalabraHeader, Payload
      <4> QED
        BY <2>7, <3>1, <3>3, <4>1, <4>2
    <3> QED
      BY <3>2, <3>3
  <2>9. CASE DesconectarWorker(x)
    <3>1. hilo_master[x].paso = "despedir" /\ x \in Workers
      BY <2>9, ElementosLista DEF DesconectarWorker, EnMaster, Plan, Abiertos, Listas
    <3>2. UNCHANGED <<a_cliente, cerrado>>
          \/ (queries_exec[x] # SinQuery /\ Finalizar(x, "ERROR_DESCONEXION_WORKER"))
      BY <2>9 DEF DesconectarWorker
    <3> QED
      BY <2>7, <3>1, <3>2 DEF Motivos
  <2>10. CASE AgregarWorker(x) \/ AgregarQuery(x) \/ RecibirDeWorker(x) \/ DejarDeMirar(x)
    BY <2>10 DEF AgregarWorker, AgregarQuery, RecibirDeWorker, DejarDeMirar, enchufes
  <2> QED
    BY <2>4, <2>5, <2>6, <2>8, <2>9, <2>10 DEF HiloDelMaster, AtenderEnMaster
<1> QED
  BY <1>2, <1>3, <1>4

LEMMA ConexionSaludo ==
    ASSUME Formas, Plan, Cauces, Comienzos, NEW q \in QueryControls, HiloDelMaster(q), Conexion(q), Dicho(q),
           hilo_master[q].paso \in {"saludo", "identificar"}
    PROVE  Conexion(q)' /\ Dicho(q)'
<1> DEFINE c == AMaster(q)
           s == a_cliente[c]
           S == a_servidor[c]
           C == control[q]
<1>1. /\ c \in Enlaces /\ q \in Clientes /\ DOMAIN a_cliente = Enlaces /\ DOMAIN a_servidor = Enlaces
      /\ control'[q] = C /\ UNCHANGED caidos /\ FormaMaster /\ FormaEnchufes
  BY LosEnlaces, AlcanceMaster DEF Formas, FormaEnchufes
<1>2. s = <<>> /\ C.paso \notin {"escucha", "payload", "terminar"} /\ ~Cierra(c)
  BY <1>1 DEF Conexion, SinSaludar, Plan, Abiertos, Cierra
<1> DEFINE Quedan(t) == t = <<>> \/ (Head(t).tipo = "header" /\ Head(t).header = "HANDSHAKE_ERROR")
<1>3. Quedan(RespuestaHandshakeDesconocido) /\ <<>> \o RespuestaHandshakeDesconocido = RespuestaHandshakeDesconocido
  BY DEF RespuestaHandshakeDesconocido, Paquete, PalabraHeader
<1>4. CASE RecibirSaludo(q)
  <2> DEFINE h == Header(a_servidor, c)
  <2>1. hilo_master[q].paso = "saludo" /\ (S = <<>> => h = "error")
    BY <1>4 DEF RecibirSaludo, EnMaster, Header
  <2>2. CASE h \in {"HANDSHAKE_WORKER", "HANDSHAKE_QUERY_CONTROL"}
    <3>1. /\ UNCHANGED <<a_cliente, cerrado>> /\ hilo_master'[q].paso = "identificar"
          /\ S # <<>>
      BY <1>1, <1>4, <2>1, <2>2 DEF RecibirSaludo, LeeMaster, FormaMaster
    <3> QED
      BY <1>1, <1>2, <3>1 DEF Conexion, Dicho, SinSaludar
  <2>3. CASE h \notin {"HANDSHAKE_WORKER", "HANDSHAKE_QUERY_CONTROL"}
    <3>1. /\ hilo_master'[q].paso = "fin" /\ cerrado'[c] = cerrado[c] \union {"servidor"}
          /\ a_servidor' = Resto(a_servidor, c)
          /\ h = "error" => UNCHANGED a_cliente
          /\ h # "error" => AlCliente(c, RespuestaHandshakeDesconocido)
      BY <1>1, <1>4, <2>3 DEF RecibirSaludo, LeeMaster, FormaMaster, Cerrar
    <3>2. S = <<>> => a_servidor'[c] = <<>> /\ a_cliente'[c] = <<>>
      BY <1>1, <1>2, <2>1, <3>1, AlLeer
    <3>3. Quedan(a_cliente'[c])
      <4>1. CASE h = "error"
        BY <1>2, <3>1, <4>1
      <4>2. CASE h # "error"
        <5>1. a_cliente'[c] = s \/ a_cliente'[c] = s \o RespuestaHandshakeDesconocido
          BY <1>1, <3>1, <4>2, AlEnviar DEF AlCliente
        <5> QED
          BY <1>2, <1>3, <5>1
      <4> QED
        BY <4>1, <4>2
    <3> HIDE DEF h
    <3>4. Dicho(q)'
      BY <1>1, <1>2 DEF Dicho
    <3> QED
      BY <1>1, <1>2, <3>1, <3>2, <3>3, <3>4 DEF Conexion, SinSaludar, Entero
  <2> QED
    BY <2>2, <2>3
<1>5. CASE SaludarWorker(q) \/ SaludarQueryControl(q)
  <2>1. C.paso \notin {"inicio", "conectado"}
    BY <1>5 DEF SaludarWorker, SaludarQueryControl, EnMaster, Conexion
  <2>2. CASE Despachar(q)
    <3>1. UNCHANGED a_cliente /\ hilo_master'[q].paso = "fin" /\ cerrado'[c] = cerrado[c] \union {"servidor"}
      BY <1>1, <2>2 DEF Despachar, PasaMaster, FormaMaster, Cerrar
    <3> QED
      BY <1>1, <1>2, <2>1, <3>1 DEF Conexion, Dicho, SinSaludar, Entero
  <2>3. CASE Responder(q)
    <3>1. AlCliente(c, RespuestaHandshake) /\ hilo_master'[q].paso = "agregar" /\ UNCHANGED cerrado
      BY <1>1, <2>3 DEF Responder, PasaMaster, FormaMaster
    <3>2. a_cliente'[c] = s \/ a_cliente'[c] = s \o RespuestaHandshake
      BY <1>1, <3>1, AlEnviar DEF AlCliente
    <3>3. <<>> \o RespuestaHandshake = <<PalabraHeader("HANDSHAKE_OK"), PalabraCuerpo(<<>>)>>
      BY DEF RespuestaHandshake, Paquete
    <3> DEFINE t == <<PalabraHeader("HANDSHAKE_OK"), PalabraCuerpo(<<>>)>>
    <3>4. Head(t).tipo = "header" /\ Tail(t) = <<PalabraCuerpo(<<>>)>>
      BY DEF PalabraHeader
    <3>5. Head(<<PalabraCuerpo(<<>>)>>).campos = <<>> /\ SoloMensajes(<<PalabraCuerpo(<<>>)>>)
      BY DEF PalabraCuerpo, SoloMensajes, ToSet
    <3>6. a_cliente'[c] = <<>> \/ a_cliente'[c] = t
      BY <1>2, <3>2, <3>3
    <3> HIDE DEF t
    <3>7. Avisado(q, <<PalabraCuerpo(<<>>)>>)'
      BY <1>2, <3>1, <3>5 DEF Avisado, Cierra
    <3>8. /\ Entero(a_cliente'[c])
          /\ a_cliente'[c] # <<>> => Head(Tail(a_cliente'[c])).campos = <<>> /\ Avisado(q, Tail(a_cliente[c]))'
      BY <3>4, <3>5, <3>6, <3>7 DEF Entero
    <3>9. Dicho(q)'
      BY <1>1, <1>2 DEF Dicho
    <3> QED
      BY <1>1, <1>2, <2>1, <3>1, <3>8, <3>9 DEF Conexion, SinSaludar
  <2> QED
    BY <1>5, <2>2, <2>3 DEF SaludarWorker, SaludarQueryControl
<1> QED
  BY <1>4, <1>5
     DEF HiloDelMaster, AtenderEnMaster, AgregarWorker, AgregarQuery, PlanificarFifo, RecibirDeWorker,
         ProcesarLectura, ProcesarFin, DesconectarWorker, DejarDeMirar, LeeMensaje, EnMaster

LEMMA ConexionMensaje ==
    ASSUME Formas, Cauces, NEW q \in QueryControls, Conexion(q), Dicho(q), "master" \notin caidos, UNCHANGED caidos,
           hilo_master[q].paso \notin SinSaludar \union {"fin"}, control'[q] = control[q],
           hilo_master'[q] = hilo_master[q], UNCHANGED a_servidor[AMaster(q)],
           NEW p, EsPaquete(p), AlCliente(AMaster(q), p),
           \/ p[1].header = "QC_LECTURA" /\ UNCHANGED cerrado
           \/ p[1].header = "QC_FINALIZACION" /\ Cerrar({AMaster(q)}, "servidor")
    PROVE  Conexion(q)' /\ Dicho(q)'
<1> DEFINE c == AMaster(q)
           s == a_cliente[c]
           C == control[q]
           Despues(t) == SoloMensajes(t) /\ ("servidor" \in cerrado'[c] => HayFin(t) \/ "master" \in caidos)
<1>1. /\ c \in Enlaces /\ DOMAIN a_cliente = Enlaces /\ EnOrden(s) /\ cerrado[c] \subseteq {"cliente", "servidor"}
      /\ "cliente" \in cerrado'[c] <=> "cliente" \in cerrado[c]
      /\ p[1].header = "QC_LECTURA" => cerrado'[c] = cerrado[c]
  BY LosEnlaces DEF Formas, FormaEnchufes, Cauces, Corrientes, Cerrar
<1>2. /\ "cliente" \in cerrado[c] => a_cliente'[c] = s
      /\ "cliente" \notin cerrado[c] => a_cliente'[c] = s \o p
  BY <1>1, AlEnviar DEF AlCliente
<1>3. Sigue(s, s \o p) /\ Sigue(s, s)
  BY <1>1, EnviarPaquete DEF Sigue
<1>4. ASSUME NEW t, EnOrden(t), Avisado(q, t) PROVE Despues(t \o p)
  <2>1. SoloMensajes(t \o p) /\ (HayFin(t) => HayFin(t \o p)) /\ (p[1].header = "QC_FINALIZACION" => HayFin(t \o p))
    BY <1>4, AlEnviarMensaje DEF Avisado
  <2> QED
    BY <1>1, <1>4, <2>1 DEF Avisado
<1>5. Dicho(q)'
  BY <1>2, <1>3 DEF Dicho, Sigue
<1>6. CASE "cliente" \in cerrado[c]
  <2>1. C.paso \in {"rechazado", "fin"}
    BY <1>6 DEF Conexion
  <2> QED
    BY <1>5, <2>1 DEF Conexion
<1>7. CASE "cliente" \notin cerrado[c]
  <2>1. a_cliente'[c] = s \o p
    BY <1>2, <1>7
  <2>2. C.paso \notin {"inicio", "conectado"}
    BY DEF Conexion, SinSaludar
  <2>3. C.paso = "espera_ok" =>
          /\ Entero(s \o p)
          /\ Head(s \o p).header = "HANDSHAKE_OK" =>
                Head(Tail(s \o p)).campos = <<>> /\ Despues(Tail(s \o p))
    <3>1. CASE s = <<>>
      BY <1>1, <1>3, <3>1, PalabrasEnviado DEF Conexion, Sigue, EsPaquete
    <3>2. ASSUME s # <<>>, C.paso = "espera_ok", Head(s \o p).header = "HANDSHAKE_OK"
          PROVE  Head(Tail(s \o p)).campos = <<>> /\ Despues(Tail(s \o p))
      <4>1. Head(s \o p) = Head(s) /\ Tail(s \o p) = Tail(s) \o p
        BY <1>1, <3>2, PalabrasEnviado
      <4>2. Head(Tail(s)).campos = <<>> /\ Avisado(q, Tail(s)) /\ Head(s).tipo = "header"
        BY <3>2, <4>1 DEF Conexion, Entero
      <4>3. EnOrden(Tail(s)) /\ Tail(s) # <<>>
        BY <1>1, <3>2, <4>2, LeerPalabra DEF Pagado
      <4>4. Head(Tail(s) \o p) = Head(Tail(s))
        BY <4>3, PalabrasEnviado
      <4>5. Despues(Tail(s) \o p)
        BY <1>4, <4>2, <4>3
      <4> QED
        BY <4>1, <4>2, <4>4, <4>5
    <3> QED
      BY <1>3, <3>1, <3>2 DEF Conexion, Sigue
  <2>4. C.paso = "escucha" =>
          /\ Head(s \o p).tipo # "header" => Head(s \o p).campos = <<>>
          /\ IF C.activo THEN C.motivo = "ninguno" /\ Despues(s \o p) ELSE C.motivo # "ninguno"
    <3>1. s # <<>> => Head(s \o p) = Head(s)
      BY <1>1, PalabrasEnviado
    <3>2. s = <<>> => Head(s \o p).tipo = "header"
      BY <1>1, PalabrasEnviado DEF EsPaquete, Empareja
    <3> QED
      BY <1>1, <1>4, <3>1, <3>2 DEF Conexion
  <2>5. C.paso = "payload" =>
          /\ C.activo /\ C.motivo = "ninguno"
          /\ \/ C.header = "QC_LECTURA" /\ Pagado(s \o p, C.header) /\ Despues(s \o p)
             \/ C.header = "QC_FINALIZACION" /\ Pagado(s \o p, C.header)
    BY <1>1, <1>3, <1>4 DEF Conexion, Sigue
  <2>6. C.paso # "terminar"
    BY DEF Conexion
  <2>7. s \o p # <<>>
    BY <1>1, PalabrasEnviado
  <2>8. /\ Despues(s \o p) => Avisado(q, a_cliente[AMaster(q)])'
        /\ Despues(Tail(s \o p)) => Avisado(q, Tail(a_cliente[AMaster(q)]))'
    BY <2>1 DEF Avisado, SoloMensajes, HayFin
  <2> HIDE DEF Despues
  <2>10. Conexion(q)'
    BY <1>1, <1>7, <2>1, <2>2, <2>3, <2>4, <2>5, <2>6, <2>7, <2>8 DEF Conexion
  <2> QED
    BY <1>5, <2>10
<1> QED
  BY <1>6, <1>7

LEMMA ControlesMaster ==
    ASSUME Formas, Plan, Cauces, Comienzos, Controles, NEW x \in Clientes, HiloDelMaster(x)
    PROVE  Controles'
<1> SUFFICES ASSUME NEW q \in QueryControls PROVE Dicho(q)' /\ (~control'[q].cierre_local => Conexion(q)')
  BY DEF Controles
<1>1. /\ control'[q] = control[q] /\ UNCHANGED caidos /\ q \in Clientes
      /\ hilo_master[x].paso \notin {"sin_conectar", "fin"} /\ "master" \notin caidos
  BY AlcanceMaster, LosEnlaces DEF Comienzos
<1>2. Dicho(q) /\ (~control[q].cierre_local => Conexion(q))
  BY DEF Controles
<1>3. Dicho(q)'
  <2>1. Sigue(a_cliente[AMaster(q)], a_cliente'[AMaster(q)])
    <3>1. CASE UNCHANGED a_cliente
      BY <3>1 DEF Sigue
    <3>2. ASSUME NEW y \in Clientes, NEW p, EsPaquete(p), AlCliente(AMaster(y), p)
          PROVE  Sigue(a_cliente[AMaster(q)], a_cliente'[AMaster(q)])
      <4>1. AMaster(y) \in Enlaces /\ EnOrden(a_cliente[AMaster(y)]) /\ AMaster(q) \in Enlaces
        BY <1>1, LosEnlaces DEF Cauces, Corrientes
      <4> QED
        BY <3>2, <4>1, AlEnviarSigue DEF AlCliente, Formas, FormaEnchufes
    <3> QED
      BY <3>1, <3>2, MasterEnvia
  <2> QED
    BY <1>1, <1>2, <2>1 DEF Dicho, Sigue
<1>4. ASSUME Conexion(q) PROVE Conexion(q)'
  <2>1. CASE x = q /\ hilo_master[q].paso \in {"saludo", "identificar"}
    BY <1>2, <1>4, <2>1, ConexionSaludo
  <2>2. CASE ~(x = q /\ hilo_master[q].paso \in {"saludo", "identificar"})
    <3>1. /\ x # q => hilo_master'[q] = hilo_master[q] /\ UNCHANGED a_servidor[AMaster(q)]
          /\ x = q => hilo_master[q].paso \notin SinSaludar \union {"fin"} /\ hilo_master'[q].paso \notin SinSaludar
      BY <2>2, MasterAControl
    <3>2. CASE UNCHANGED <<a_cliente[AMaster(q)], cerrado[AMaster(q)]>>
      <4>1. \A t : Avisado(q, t) => Avisado(q, t)'
        BY <1>1, <3>2 DEF Avisado, HayFin
      <4> QED
        BY <1>1, <1>4, <3>1, <3>2, <4>1 DEF Conexion, SinSaludar
    <3>3. CASE /\ x # q /\ hilo_master[q].paso \notin SinSaludar \union {"fin"}
               /\ \E p : /\ EsPaquete(p) /\ AlCliente(AMaster(q), p)
                         /\ \/ p[1].header = "QC_LECTURA" /\ UNCHANGED cerrado
                            \/ p[1].header = "QC_FINALIZACION" /\ Cerrar({AMaster(q)}, "servidor")
      BY <1>1, <1>2, <1>4, <3>1, <3>3, ConexionMensaje
    <3> QED
      BY <2>2, <3>2, <3>3, MasterAControl
  <2> QED
    BY <2>1, <2>2
<1> QED
  BY <1>1, <1>2, <1>3, <1>4

LEMMA DichoPaso ==
    ASSUME Formas, Cauces, Controles, NEW q \in QueryControls, ProgramaControl(q) \/ Enter(q) PROVE Dicho(q)'
<1> DEFINE c == AMaster(q)
           s == a_cliente[c]
           C == control[q]
           D == control'[q]
<1> USE DEF FormaControl, CamposControl
<1>1. FormaControl /\ c \in Enlaces /\ DOMAIN a_cliente = Enlaces /\ EnOrden(s) /\ UNCHANGED caidos
  BY LosEnlaces, AlcanceControl DEF Formas, FormaEnchufes, Cauces, Corrientes
<1>2. Dicho(q) /\ (~C.cierre_local => Conexion(q))
  BY DEF Controles
<1>3. CASE ConectarQueryControl(q) \/ Saludar(q) \/ PulsarEnter(q)
  <2>1. UNCHANGED a_cliente
    BY <1>3 DEF ConectarQueryControl, Saludar, PulsarEnter, enchufes
  <2>2. /\ D.dicho = C.dicho /\ D.motivo = C.motivo /\ D.header = C.header
        /\ C.paso # "fin" /\ D.paso # "fin" /\ (D.paso = "payload" => C.paso = "payload")
    BY <1>1, <1>3 DEF ConectarQueryControl, Saludar, PulsarEnter, PasaControl, EnControl
  <2> QED
    BY <1>1, <1>2, <2>1, <2>2 DEF Dicho
<1>4. CASE RecibirOk(q)
  <2>1. /\ D.dicho = C.dicho /\ D.motivo = C.motivo /\ C.paso = "espera_ok"
        /\ D.paso \in {"escucha", "rechazado"}
    BY <1>1, <1>4 DEF RecibirOk, LeeControl, EnControl
  <2> QED
    BY <1>1, <1>2, <2>1 DEF Dicho
<1>5. CASE Escuchar(q)
  <2>1. /\ D.dicho = C.dicho /\ D.motivo = C.motivo /\ C.paso = "escucha"
        /\ D.paso \in {"escucha", "payload"} /\ D.header = Header(a_cliente, c)
        /\ a_cliente' = Resto(a_cliente, c)
    BY <1>1, <1>5 DEF Escuchar, LeeControl, EnControl
  <2>2. Header(a_cliente, c) = "QC_FINALIZACION" => s # <<>> /\ Pagado(Tail(s), "QC_FINALIZACION")
    BY <1>1, LeerPalabra DEF Header
  <2>3. s # <<>> => a_cliente'[c] = Tail(s)
    BY ZenonT(60), <1>1, <2>1, AlLeer
  <2> QED
    BY <1>1, <1>2, <2>1, <2>2, <2>3 DEF Dicho
<1>6. CASE Procesar(q)
  <2> DEFINE p == Payload(a_cliente, c)
  <2>1. C.paso = "payload"
    BY <1>6 DEF Procesar, EnControl
  <2>2. CASE C.header = "QC_LECTURA" /\ p # <<>>
    <3>1. control' = [control EXCEPT ![q].paso = "escucha", ![q].lecturas = @ \union {p}]
      BY <1>6, <2>2, Zenon DEF Procesar
    <3> HIDE DEF p
    <3> QED
      BY <1>1, <1>2, <2>1, <3>1 DEF Dicho
  <2>3. CASE C.header = "QC_FINALIZACION" /\ p # <<>>
    <3>1. control' = [control EXCEPT ![q].paso = "escucha", ![q].activo = FALSE, ![q].motivo = p[1]]
      BY <1>6, <2>3 DEF Procesar
    <3>2. p[1] \in Motivos
      BY <1>2, <2>1, <2>3 DEF Dicho, Pagado, Empareja, PalabraHeader, Payload
    <3> HIDE DEF p
    <3> QED
      BY <1>1, <1>2, <2>1, <3>1, <3>2 DEF Dicho
  <2>4. CASE ~(C.header = "QC_LECTURA" /\ p # <<>>) /\ ~(C.header = "QC_FINALIZACION" /\ p # <<>>)
    <3>1. control' = [control EXCEPT ![q].paso = "terminar"]
      BY <1>6, <2>4 DEF Procesar
    <3> QED
      BY <1>1, <1>2, <2>1, <3>1 DEF Dicho
  <2> QED
    BY <2>2, <2>3, <2>4
<1>7. CASE Terminar(q)
  <2>1. /\ D.paso = "fin" /\ D.motivo = C.motivo
        /\ D.dicho = IF C.motivo # "ninguno" THEN C.motivo
                     ELSE IF C.cierre_local THEN "DESCONEXION DEL QUERY CONTROL" ELSE "DESCONEXION DEL MASTER"
    BY <1>1, <1>7 DEF Terminar
  <2>2. C.paso = "terminar" \/ (C.paso = "escucha" /\ ~C.activo)
    BY <1>7 DEF Terminar, EnControl
  <2>3. C.motivo = "ninguno" /\ ~C.cierre_local => "master" \in caidos
    BY <1>2, <2>2 DEF Conexion
  <2>4. C.motivo # "DESCONEXION DEL MASTER"
    BY <1>2 DEF Dicho, Motivos
  <2>5. D.dicho = "DESCONEXION DEL MASTER" => "master" \in caidos
    BY <2>1, <2>3, <2>4
  <2> QED
    BY <1>1, <1>2, <2>1, <2>5 DEF Dicho
<1> QED
  BY <1>3, <1>4, <1>5, <1>6, <1>7 DEF ProgramaControl, Controlar, Enter

LEMMA ConexionPaso ==
    ASSUME Formas, Cauces, Comienzos, NEW q \in QueryControls, Conexion(q), Dicho(q),
           ProgramaControl(q) \/ Enter(q), ~control[q].cierre_local, ~control'[q].cierre_local
    PROVE  Conexion(q)'
<1> DEFINE c == AMaster(q)
           s == a_cliente[c]
           C == control[q]
           D == control'[q]
           hilo == hilo_master[q].paso
<1> USE DEF FormaControl, CamposControl
<1>1. /\ FormaControl /\ c \in Enlaces /\ q \in Clientes /\ DOMAIN a_cliente = Enlaces
      /\ EnOrden(s) /\ UNCHANGED caidos
  BY LosEnlaces, AlcanceControl DEF Formas, FormaEnchufes, Cauces, Corrientes
<1>2. CASE ConectarQueryControl(q)
  <2>1. C.paso = "inicio" /\ UNCHANGED enchufes /\ D.activo = C.activo /\ D.motivo = C.motivo
    BY <1>1, <1>2 DEF ConectarQueryControl, EnControl, PasaControl
  <2>2. CASE "master" \in caidos
    <3>1. UNCHANGED hilo_master /\ D.paso = "rechazado"
      BY <1>1, <1>2, <2>2 DEF ConectarQueryControl, PasaControl
    <3> QED
      BY <2>1, <3>1 DEF Conexion, SinSaludar, enchufes
  <2>3. CASE "master" \notin caidos
    <3>1. hilo_master'[q].paso = "saludo" /\ D.paso = "conectado"
      BY <1>1, <1>2, <2>3 DEF ConectarQueryControl, PasaControl, Acepta, Formas, FormaMaster
    <3> QED
      BY <2>1, <3>1 DEF Conexion, SinSaludar, enchufes
  <2> QED
    BY <2>2, <2>3
<1>3. UNCHANGED hilo_master \/ ConectarQueryControl(q)
  BY DEF ProgramaControl, Controlar, Enter, master
<1>4. CASE Saludar(q) /\ UNCHANGED hilo_master
  <2>1. /\ C.paso = "conectado" /\ D.paso = "espera_ok" /\ UNCHANGED <<a_cliente, cerrado>>
        /\ D.activo = C.activo /\ D.motivo = C.motivo
    BY <1>1, <1>4 DEF Saludar, EnControl, PasaControl
  <2> QED
    BY <1>4, <2>1, Vacio DEF Conexion, SinSaludar
<1>5. CASE RecibirOk(q) /\ UNCHANGED hilo_master
  <2>1. C.paso = "espera_ok" /\ D.activo = C.activo /\ D.motivo = C.motivo /\ a_cliente' = Resto(a_cliente, c)
    BY <1>1, <1>5 DEF RecibirOk, EnControl, LeeControl
  <2>2. a_cliente'[c] = IF s = <<>> THEN <<>> ELSE Tail(s)
    BY <1>1, <2>1, AlLeer
  <2>3. CASE Header(a_cliente, c) = "HANDSHAKE_OK"
    <3>1. D.paso = "escucha" /\ UNCHANGED cerrado
      BY <1>1, <1>5, <2>3 DEF RecibirOk, LeeControl
    <3>2. s # <<>> /\ Head(s).tipo = "header" /\ Head(s).header = "HANDSHAKE_OK"
      BY <2>1, <2>3 DEF Header, Conexion, Entero
    <3>3. Head(Tail(s)).campos = <<>> /\ Avisado(q, Tail(s)) /\ C.activo /\ C.motivo = "ninguno"
          /\ hilo \notin SinSaludar
      BY <2>1, <3>2 DEF Conexion
    <3>4. Avisado(q, a_cliente[AMaster(q)])'
      BY <1>1, <2>2, <3>1, <3>2, <3>3 DEF Avisado, SoloMensajes, HayFin
    <3> QED
      BY <1>1, <1>5, <2>1, <2>2, <3>1, <3>2, <3>3, <3>4 DEF Conexion
  <2>4. CASE Header(a_cliente, c) # "HANDSHAKE_OK"
    <3>1. D.paso = "rechazado"
      BY <1>1, <1>5, <2>4 DEF RecibirOk, LeeControl
    <3> QED
      BY <1>5, <2>2, <3>1 DEF Conexion
  <2> QED
    BY <2>3, <2>4
<1>6. CASE Escuchar(q) /\ UNCHANGED hilo_master
  <2> DEFINE h == Header(a_cliente, c)
  <2>1. /\ C.paso = "escucha" /\ C.activo /\ D.activo = C.activo /\ D.motivo = C.motivo
        /\ D.header = h /\ a_cliente' = Resto(a_cliente, c) /\ UNCHANGED cerrado
        /\ D.paso = IF h = "HANDSHAKE_STORAGE" THEN "escucha" ELSE "payload"
        /\ s # <<>> \/ "servidor" \in cerrado[c] \/ "cliente" \in cerrado[c]
    BY <1>1, <1>6 DEF Escuchar, EnControl, LeeControl, VuelveAControl, Vuelve
  <2>2. /\ C.motivo = "ninguno" /\ Avisado(q, s) /\ hilo \notin SinSaludar /\ "cliente" \notin cerrado[c]
        /\ s # <<>> /\ Head(s).tipo # "header" => Head(s).campos = <<>>
    BY <2>1 DEF Conexion
  <2>3. a_cliente'[c] = IF s = <<>> THEN <<>> ELSE Tail(s)
    BY <1>1, <2>1, AlLeer
  <2>4. CASE s = <<>>
    <3>1. h = "error" /\ "master" \in caidos
      BY <2>1, <2>2, <2>4 DEF Header, Avisado, HayFin, ToSet
    <3> QED
      BY <1>1, <1>6, <2>1, <2>2, <2>3, <2>4, <3>1 DEF Conexion
  <2>5. CASE s # <<>>
    <3>1. a_cliente'[c] = Tail(s) /\ SoloMensajes(Tail(s))
          /\ (~(Head(s).tipo = "header" /\ Head(s).header = "QC_FINALIZACION") => Avisado(q, Tail(s)))
      BY <1>1, <2>2, <2>3, <2>5, AlLeerMensaje
    <3>2. Avisado(q, Tail(s)) => Avisado(q, a_cliente[AMaster(q)])'
      BY <1>1, <2>1, <3>1 DEF Avisado, SoloMensajes, HayFin
    <3>3. CASE Head(s).tipo # "header"
      <4>1. h = "HANDSHAKE_STORAGE" /\ Entero(Tail(s))
        BY <1>1, <2>2, <2>5, <3>3, LeerPalabra DEF Header
      <4> QED
        BY <1>1, <1>6, <2>1, <2>2, <3>1, <3>2, <3>3, <4>1 DEF Conexion, Entero
    <3>4. CASE Head(s).tipo = "header"
      <4>1. h = Head(s).header /\ h \in {"QC_LECTURA", "QC_FINALIZACION"} /\ Pagado(Tail(s), h)
        <5>1. Head(s) \in ToSet(s)
          BY <1>1, <2>5, PalabrasResto
        <5> QED
          BY <1>1, <2>2, <2>5, <3>4, <5>1, LeerPalabra DEF Header, Avisado, SoloMensajes
      <4> HIDE DEF h
      <4> QED
        BY <1>1, <1>6, <2>1, <2>2, <3>1, <3>2, <3>4, <4>1 DEF Conexion
    <3> QED
      BY <3>3, <3>4
  <2> QED
    BY <2>4, <2>5
<1>7. CASE Procesar(q) /\ UNCHANGED hilo_master
  <2> DEFINE p == Payload(a_cliente, c)
             h == C.header
  <2>1. C.paso = "payload" /\ a_cliente' = Resto(a_cliente, c) /\ UNCHANGED cerrado
    BY <1>7 DEF Procesar, EnControl
  <2>2. /\ C.activo /\ C.motivo = "ninguno" /\ hilo \notin SinSaludar /\ "cliente" \notin cerrado[c]
        /\ \/ h = "error" /\ s = <<>> /\ "master" \in caidos
           \/ h = "QC_LECTURA" /\ Pagado(s, h) /\ Avisado(q, s)
           \/ h = "QC_FINALIZACION" /\ Pagado(s, h)
    BY <2>1 DEF Conexion
  <2>3. a_cliente'[c] = IF s = <<>> THEN <<>> ELSE Tail(s)
    BY <1>1, <2>1, AlLeer
  <2>4. CASE h = "error" /\ "master" \in caidos
    <3>1. D.paso = "terminar" /\ D.motivo = C.motivo
      BY <1>1, <1>7, <2>4 DEF Procesar
    <3> QED
      BY <1>1, <1>7, <2>1, <2>2, <2>4, <3>1 DEF Conexion
  <2>5. CASE h = "QC_LECTURA" /\ Pagado(s, h) /\ Avisado(q, s)
    <3>1. s # <<>> /\ p # <<>> /\ Head(s).tipo # "header" /\ Entero(Tail(s))
      BY ZenonT(60), <1>1, <2>5, LeerCuerpo DEF Pagado, Empareja, PalabraHeader, Payload
    <3>2. control' = [control EXCEPT ![q].paso = "escucha", ![q].lecturas = @ \union {p}]
      BY <1>7, <2>5, <3>1, Zenon DEF Procesar
    <3> HIDE DEF p
    <3>3. D.paso = "escucha" /\ D.activo = C.activo /\ D.motivo = C.motivo
      BY <1>1, <3>2
    <3>4. Avisado(q, Tail(s)) /\ a_cliente'[c] = Tail(s)
      BY <1>1, <2>3, <2>5, <3>1, AlLeerMensaje
    <3>5. Avisado(q, a_cliente[AMaster(q)])'
      BY <1>1, <2>1, <3>4 DEF Avisado, SoloMensajes, HayFin
    <3> QED
      BY <1>1, <1>7, <2>1, <2>2, <3>1, <3>3, <3>4, <3>5 DEF Conexion, Entero
  <2>6. CASE h = "QC_FINALIZACION" /\ Pagado(s, h)
    <3>1. s # <<>> /\ p # <<>> /\ p[1] \in Motivos /\ Entero(Tail(s))
      BY ZenonT(60), <1>1, <2>6, LeerCuerpo DEF Pagado, Empareja, PalabraHeader, Payload
    <3>2. control' = [control EXCEPT ![q].paso = "escucha", ![q].activo = FALSE, ![q].motivo = p[1]]
      BY <1>7, <2>6, <3>1 DEF Procesar
    <3>3. D.paso = "escucha" /\ ~D.activo /\ D.motivo # "ninguno"
      BY <1>1, <3>1, <3>2 DEF Motivos
    <3>4. a_cliente'[c] = Tail(s)
      BY <2>3, <3>1
    <3> QED
      BY <1>1, <1>7, <2>1, <2>2, <3>1, <3>3, <3>4 DEF Conexion, Entero
  <2> QED
    BY <2>2, <2>4, <2>5, <2>6
<1>8. CASE Terminar(q) /\ UNCHANGED hilo_master
  <2>1. D.paso = "fin" /\ UNCHANGED a_cliente
    BY <1>1, <1>8 DEF Terminar
  <2> QED
    BY <1>8, <2>1 DEF Conexion
<1>9. ~Enter(q)
  BY <1>1 DEF Enter, PulsarEnter
<1> QED
  BY <1>2, <1>3, <1>4, <1>5, <1>6, <1>7, <1>8, <1>9 DEF ProgramaControl, Controlar

LEMMA EnterQueda ==
    ASSUME Formas, NEW q \in QueryControls, ProgramaControl(q) \/ Enter(q), ~control'[q].cierre_local
    PROVE  ~control[q].cierre_local
<1> USE DEF Formas, FormaControl, CamposControl
<1>1. CASE Procesar(q)
  BY <1>1 DEF Procesar
<1>2. CASE ConectarQueryControl(q) \/ Saludar(q) \/ RecibirOk(q) \/ Escuchar(q) \/ Terminar(q)
  BY ZenonT(60), <1>2 DEF ConectarQueryControl, Saludar, RecibirOk, Escuchar, Terminar, PasaControl, LeeControl
<1>3. CASE Enter(q)
  BY <1>3 DEF Enter, PulsarEnter
<1> QED
  BY <1>1, <1>2, <1>3 DEF ProgramaControl, Controlar

LEMMA ControlesControl ==
    ASSUME Formas, Cauces, Comienzos, Controles, NEW q \in QueryControls, ProgramaControl(q) \/ Enter(q)
    PROVE  Controles'
<1>1. ASSUME NEW p \in QueryControls \ {q} PROVE Dicho(p)' /\ (~control'[p].cierre_local => Conexion(p)')
  <2>1. control'[p] = control[p] /\ UNCHANGED caidos
    BY AlcanceControl
  <2>2. hilo_master'[p] = hilo_master[p]
    BY AlcanceControl, LosEnlaces DEF Acepta, Formas, FormaMaster
  <2>3. Igual(AMaster(p))
    BY AlcanceControl, LosEnlaces
  <2> QED
    BY <2>1, <2>2, <2>3, ConexionIgual DEF Controles
<1>2. Dicho(q)' /\ (~control'[q].cierre_local => Conexion(q)')
  BY DichoPaso, ConexionPaso, EnterQueda DEF Controles
<1> QED
  BY <1>1, <1>2 DEF Controles

\* Nobody else touches a connection between a Query Control and the Master.
LEMMA ControlesOtros ==
    ASSUME Formas, Controles,
           \/ \E x \in Conectables : HiloDelStorage(x)
           \/ \E w \in Workers : Principal(w) \/ Listener(w) \/ HiloDeQuery(w)
           \/ \E x \in Ajenos : AjenoLlamaAlMaster(x) \/ AjenoLlamaAlStorage(x) \/ AjenoCuelga(x)
           \/ CaerStorage /\ UNCHANGED <<master, control, worker>>
           \/ \E w \in Workers : CaerWorker(w) /\ UNCHANGED <<master, storage, control>>
    PROVE  Controles'
<1> DEFINE Ajena(q) ==
      /\ control'[q] = control[q]
      /\ hilo_master'[q] = hilo_master[q]
      /\ Igual(AMaster(q))
      /\ ("master" \in caidos) => ("master" \in caidos')
<1>1. ASSUME NEW q \in QueryControls PROVE Ajena(q)
  <2> DEFINE c == AMaster(q)
  <2>1. c \in Enlaces /\ q \in Clientes /\ DOMAIN a_servidor = Enlaces /\ DOMAIN a_cliente = Enlaces
    BY LosEnlaces DEF Formas, FormaEnchufes
  <2>2. ASSUME NEW x \in Conectables, HiloDelStorage(x) PROVE Ajena(q)
    BY <2>1, <2>2, AlcanceStorage, LosEnlaces DEF master
  <2>3. ASSUME NEW w \in Workers, Principal(w) \/ Listener(w) \/ HiloDeQuery(w) PROVE Ajena(q)
    BY <2>1, <2>3, AlcanceWorker, LosEnlaces DEF Acepta, Formas, FormaMaster
  <2>4. ASSUME NEW x \in Ajenos, AjenoLlamaAlMaster(x) \/ AjenoLlamaAlStorage(x) \/ AjenoCuelga(x) PROVE Ajena(q)
    <3>1. UNCHANGED <<control, a_cliente, caidos>>
      BY <2>4 DEF AjenoLlamaAlMaster, AjenoLlamaAlStorage, AjenoCuelga
    <3>2. hilo_master'[q] = hilo_master[q]
      BY <2>1, <2>4, LosEnlaces
         DEF AjenoLlamaAlMaster, AjenoLlamaAlStorage, AjenoCuelga, Acepta, master, Formas, FormaMaster
    <3>3. UNCHANGED cerrado[c] /\ UNCHANGED a_servidor[c]
      BY <2>1, <2>4, LosEnlaces
         DEF AjenoLlamaAlMaster, AjenoLlamaAlStorage, AjenoCuelga, Cerrar, AlServidor, Enviado
    <3> QED
      BY <3>1, <3>2, <3>3 DEF Igual
  <2>5. CASE CaerStorage /\ UNCHANGED <<master, control, worker>>
    BY <2>1, <2>5, LosEnlaces DEF CaerStorage, master, Cerrar, Igual
  <2>6. ASSUME NEW w \in Workers, CaerWorker(w), UNCHANGED <<master, storage, control>> PROVE Ajena(q)
    <3>1. UNCHANGED <<a_cliente, control, hilo_master>> /\ ("master" \in caidos => "master" \in caidos')
      BY <2>6 DEF CaerWorker, master
    <3>2. UNCHANGED cerrado[c]
      BY <2>1, <2>6, LosEnlaces DEF CaerWorker, Cerrar
    <3>3. PICK s, t : a_servidor' = [a_servidor EXCEPT ![AMaster(w)] = s, ![AStorage(w)] = t]
      BY <2>6, Zenon DEF CaerWorker
    <3>4. UNCHANGED a_servidor[c]
      BY <2>1, <3>3, LosEnlaces
    <3> QED
      BY <3>1, <3>2, <3>4 DEF Igual
  <2> QED
    BY <2>2, <2>3, <2>4, <2>5, <2>6
<1> QED
  BY <1>1, ConexionIgual DEF Controles

LEMMA ControlesCaer ==
    ASSUME Formas, Controles, CaerMaster, UNCHANGED <<storage, control, worker>> PROVE Controles'
<1>1. ASSUME NEW q \in QueryControls
      PROVE  /\ control'[q] = control[q] /\ "master" \in caidos' /\ UNCHANGED <<a_servidor, a_cliente>>
             /\ hilo_master'[q] = hilo_master[q] \/ hilo_master'[q].paso = "fin"
             /\ "cliente" \in cerrado'[AMaster(q)] <=> "cliente" \in cerrado[AMaster(q)]
  <2>1. AMaster(q) \in Enlaces /\ q \in Clientes
    BY LosEnlaces
  <2> QED
    BY <2>1 DEF CaerMaster, HiloMaster, Cerrar
<1>2. ASSUME NEW q \in QueryControls, Conexion(q) PROVE Conexion(q)'
  <2>1. \A s : Avisado(q, s) => Avisado(q, s)'
    BY <1>1 DEF Avisado
  <2> QED
    BY <1>1, <1>2, <2>1 DEF Conexion, SinSaludar
<1> QED
  BY <1>1, <1>2 DEF Controles, Dicho

LEMMA ControlesSiempre == Spec => []Controles
<1>1. Init => Controles
  <2> SUFFICES ASSUME Init, NEW q \in QueryControls PROVE Dicho(q) /\ Conexion(q)
    BY DEF Controles
  <2>1. PICK p \in Peticiones : control[q] = ControlInicial(p)
    BY DEF Init, InitControl
  <2>2. /\ control[q].paso = "inicio" /\ control[q].activo /\ control[q].motivo = "ninguno"
        /\ control[q].dicho = "ninguno"
    BY <2>1 DEF ControlInicial
  <2>3. /\ AMaster(q) \in Enlaces /\ hilo_master[q].paso = "sin_conectar"
        /\ a_cliente[AMaster(q)] = <<>> /\ a_servidor[AMaster(q)] = <<>> /\ cerrado[AMaster(q)] = {}
    BY LosEnlaces DEF Init, InitMaster, InitEnchufes, HiloMaster
  <2> QED
    BY <2>2, <2>3 DEF Dicho, Conexion, SinSaludar
<1>2. Formas /\ Comienzos /\ Plan /\ Cauces /\ Controles /\ [Next]_vars => Controles'
  <2> SUFFICES ASSUME Formas, Comienzos, Plan, Cauces, Controles, [Next]_vars PROVE Controles'
    OBVIOUS
  <2>1. CASE UNCHANGED vars
    BY ZenonT(60), <2>1 DEF vars, enchufes, master, Controles, Dicho, Conexion, Avisado
  <2>2. CASE Next
    BY <2>2, ControlesMaster, ControlesControl, ControlesOtros, ControlesCaer DEF Next, Caer
  <2> QED
    BY <2>1, <2>2
<1> QED
  BY <1>1, <1>2, FormasSiempre, ComienzosSiempre, PlanSiempre, CaucesSiempre, PTL DEF Spec

\* Whatever the Query Controls, Workers and strangers do, a Query Control says
\* that the Master left only if it did: the final message is always ahead of the
\* end of the connection (atender_master in query_control/src/hilo-master.c,
\* procesar_query_finalizada and manejar_desconexion_worker in
\* master/src/hilo-worker.c).
THEOREM MotivosVeraces == Spec => []MotivoVeraz
<1>1. Controles => MotivoVeraz
  BY DEF Controles, Dicho, MotivoVeraz
<1> QED
  BY <1>1, ControlesSiempre, PTL

-----------------------------------------------------------------------------
(* What a query asks for, line by line                                     *)

\* What a line of x, a Worker, says.
Linea(x) == Archivos[x.archivo][x.pc + 1]

EsPedido(e) == e.hace = "pedir"
EsRead(e)   == EsPedido(e) /\ e.paquete[1].header = "READ_BLOCK"

\* What the Storage understands of a request.
Operada(e) == Deserializar(e.paquete[1].header, e.paquete[2].campos)

\* The Storage understands the request e of x as what the line says.
Comprendida(x, e) ==
    LET o == Operada(e) IN
    \/ o = Pretende(Linea(x), x.query)
    \/ o.op = "WRITE_BLOCK" /\ <<o.file, o.tag, o.bloque>> \in Sucias
    \/ /\ Linea(x)[1] \in {"READ", "WRITE"}
       /\ \E n \in Abarca(Linea(x)) :
             o = [op |-> "READ_BLOCK", query_id |-> x.query, file |-> Linea(x)[2][1],
                  tag |-> Linea(x)[2][2], bloque |-> n]

Encarga(x, e) ==
    EsPedido(e) =>
        /\ e.paquete = Paquete(e.paquete[1].header, e.paquete[2].campos) /\ e.paquete[2].campos # <<>>
        /\ e.paquete[1].header \in Operaciones /\ Operada(e).op = e.paquete[1].header
        /\ Comprendida(x, e)

\* An access of one page, or nothing to write to make room for a page: a
\* refused request cannot be followed by the reading of another page.
Seguro ==
    \/ Sucias = {}
    \/ \A a \in DOMAIN Archivos : \A k \in DOMAIN Archivos[a] :
          LET linea == Archivos[a][k] IN
          linea[1] \in {"READ", "WRITE"} =>
              (linea[3] + linea[4] - 1) \div BlockSize <= linea[3] \div BlockSize

EnInstruccion == {"instruccion", "respuesta", "cuerpo", "semaforo", "contenido"}

\* Where the query of x is in its file, and what is left of the instruction.
Ubicado(x) ==
    /\ x.ejecuta \in {"libre", "linea"} => x.tarea = <<>> /\ x.paginas = <<>>
    /\ x.ejecuta # "libre" => x.archivo \in DOMAIN Archivos /\ x.pc \in 0 .. Len(Archivos[x.archivo])
    /\ x.ejecuta \in {"linea", "contenido"} => x.query_en_ejecucion
    /\ x.ejecuta \in EnInstruccion => x.pc # Len(Archivos[x.archivo])
    /\ x.ejecuta \in EnInstruccion \ {"instruccion"} => x.tarea # <<>> /\ EsPedido(Head(x.tarea))

Encargado(x) ==
    x.ejecuta \in EnInstruccion =>
        /\ \A k \in 1 .. Len(x.tarea) : Encarga(x, x.tarea[k]) /\ (k # 1 => ~EsRead(x.tarea[k]))
        /\ x.paginas # <<>> =>
              Linea(x)[1] \in {"READ", "WRITE"} /\ x.paginas \in Seq(Abarca(Linea(x)))

\* After a refusal no page is asked for.
Detenido(x) ==
    Seguro /\ x.ejecuta \in EnInstruccion =>
        /\ Sucias = {} \/ x.paginas = <<>> \/ Tail(x.paginas) = <<>>
        /\ \A k \in 1 .. Len(x.tarea) : EsPedido(x.tarea[k]) /\ ~EsRead(x.tarea[k]) => x.paginas = <<>>
        /\ ~x.query_en_ejecucion =>
              \/ x.paginas = <<>> /\ \A k \in 1 .. Len(x.tarea) : ~EsRead(x.tarea[k])
              \/ x.ejecuta = "semaforo" /\ EsRead(Head(x.tarea))

Trabajo(x) == Ubicado(x) /\ Encargado(x) /\ Detenido(x)

-----------------------------------------------------------------------------
(* A Worker and the Storage                                                *)

\* x is the Worker, h its thread in the Storage, s and c the streams between them.
\* The contents of a block that nobody has read: what a READ that was answered
\* after a refusal leaves.
Viejo(c) == ~Seguro /\ c = <<c[1]>> /\ c[1].tipo = "cuerpo" /\ c[1].campos # <<>>

Atento(s, h) == h.paso = "fin" \/ (h.paso \in {"contar", "espera"} /\ s = <<>>)

\* The request of x is on its way, or has been carried out.
Pendiente(x, s, h) ==
    LET p == Head(x.tarea).paquete IN
    \/ h.paso = "fin"
    \/ h.paso \in {"contar", "espera"} /\ s = p
    \/ h.paso = "payload" /\ h.header = p[1].header /\ s = <<p[2]>>
Hecha(x, s, h) ==
    h.paso = "fin" \/ (h.paso = "espera" /\ s = <<>> /\ h.operacion = Operada(Head(x.tarea)))

Contesta(x, r) == r \in Respuestas(Operada(Head(x.tarea)))

EsContenido(c) == c = <<c[1]>> /\ c[1].tipo = "cuerpo" /\ c[1].campos # <<>>

ConversaRespuesta(x, s, c, h) ==
    \/ Pendiente(x, s, h) /\ (c = <<>> \/ Viejo(c))
    \/ Hecha(x, s, h) /\ Contesta(x, c)
    \/ Hecha(x, s, h) /\ c # <<>> /\ Viejo(<<Head(c)>>) /\ Contesta(x, Tail(c))

ConversaCuerpo(x, s, c, h) ==
    \/ x.leido = "error" /\ c = <<>> /\ h.paso = "fin"
    \/ /\ Hecha(x, s, h) /\ x.leido # "RESPUESTA_READ_BLOCK"
       /\ \E r \in Respuestas(Operada(Head(x.tarea))) : x.leido = r[1].header /\ c = <<r[2]>>
    \/ /\ ~Seguro /\ x.leido = "basura"
       /\ \/ Pendiente(x, s, h) /\ c = <<>>
          \/ Hecha(x, s, h) /\ Contesta(x, c)

ConversaSemaforo(x, s, c, h) ==
    \/ x.leido = "error" /\ x.sem_respuesta_storage = 0 /\ h.paso = "fin"
    \/ /\ Hecha(x, s, h) /\ x.sem_respuesta_storage = 1
       /\ \/ x.leido = "ERROR_OPERACION" /\ ~x.query_en_ejecucion /\ c = <<>>
          \/ x.leido = RespuestaDe[Head(x.tarea).paquete[1].header] /\ ~EsRead(Head(x.tarea)) /\ c = <<>>
          \/ /\ x.leido = "RESPUESTA_READ_BLOCK" /\ EsRead(Head(x.tarea)) /\ EsContenido(c)
             /\ Seguro => x.query_en_ejecucion
    \/ ~Seguro /\ x.leido = "basura" /\ x.sem_respuesta_storage = 0

Conversa(x, s, c, h) ==
    CASE x.ejecuta \in {"libre", "linea", "instruccion"} -> Atento(s, h) /\ (c = <<>> \/ Viejo(c))
      [] x.ejecuta = "respuesta" -> ConversaRespuesta(x, s, c, h)
      [] x.ejecuta = "cuerpo"    -> ConversaCuerpo(x, s, c, h)
      [] x.ejecuta = "semaforo"  -> ConversaSemaforo(x, s, c, h)
      [] x.ejecuta = "contenido" -> Atento(s, h) /\ EsContenido(c)
      [] OTHER -> FALSE

\* From the connection to the size of a block, and then the queries.
Sesion(x, s, c, h) ==
    CASE x.paso = "inicio"  -> h.paso = "sin_conectar" /\ s = <<>> /\ c = <<>>
      [] x.paso = "storage" -> h.paso \in {"saludo", "fin"} /\ s = <<>> /\ c = <<>>
      [] x.paso = "ok_storage" ->
            \/ /\ c = <<>>
               /\ \/ h.paso = "fin"
                  \/ h.paso = "saludo" /\ s = HandshakeWorker(x.id)
                  \/ /\ h.paso = "identificar" /\ h.header = "HANDSHAKE_WORKER"
                     /\ s = <<PalabraCuerpo(<<x.id>>)>>
            \/ c = RespuestaHandshakeStorage(BlockSize) /\ Atento(s, h)
      [] x.paso = "bloque" -> c = <<PalabraCuerpo(<<BlockSize>>)>> /\ Atento(s, h)
      [] x.paso \in {"conectar_master", "master", "ok_master", "payload_ok", "escucha", "payload"} ->
            x.tamanio_bloque = BlockSize /\ Conversa(x, s, c, h)
      [] OTHER -> x.paso \in {"rechazado", "caido"} /\ x.ejecuta = "libre"

Vivo(x) == x.paso \notin {"rechazado", "caido"}

SesionDe(w) ==
    LET x == worker[w]
        e == AStorage(w)
    IN  /\ Trabajo(x)
        /\ Sesion(x, a_servidor[e], a_cliente[e], hilo_storage[w])
        /\ "servidor" \in cerrado[e] <=> hilo_storage[w].paso = "fin"
        /\ Vivo(x) => "cliente" \notin cerrado[e]

Sesiones == \A w \in Workers : SesionDe(w)

LEMMA PedidoEncargado ==
    ASSUME NEW x, NEW h \in Operaciones, NEW cs, cs # <<>>, Deserializar(h, cs).op = h,
           Comprendida(x, Pedido(Paquete(h, cs)))
    PROVE  Encarga(x, Pedido(Paquete(h, cs))) /\ (h # "READ_BLOCK" => ~EsRead(Pedido(Paquete(h, cs))))
BY DEF Encarga, Operada, EsRead, EsPedido, Pedido, Paquete, PalabraHeader, PalabraCuerpo

LEMMA InformeEncargado ==
    ASSUME NEW x, NEW p PROVE Encarga(x, Informe(p)) /\ ~EsRead(Informe(p)) /\ ~EsPedido(Informe(p))
BY DEF Encarga, EsRead, EsPedido, Informe

\* The pages that are written are those of Sucias, whatever the line is.
LEMMA EscribiblesEncargadas ==
    ASSUME NEW w, NEW e \in Escribibles(w)
    PROVE  Encarga(worker[w], e) /\ ~EsRead(e) /\ Sucias # {}
<1>1. PICK v \in Sucias : e = Escritura(w, v)
  BY DEF Escribibles
<1> DEFINE cs == <<worker[w].query, v[1], v[2], v[3], worker[w].tamanio_bloque, "datos">>
<1>2. e = Pedido(Paquete("WRITE_BLOCK", cs))
  BY <1>1 DEF Escritura, OperacionWrite
<1>3. Deserializar("WRITE_BLOCK", cs) = DeserializarWrite(cs)
  BY DEF Deserializar
<1>4. Operada(e) = DeserializarWrite(cs)
  BY <1>2, <1>3 DEF Operada, Pedido, Paquete, PalabraHeader, PalabraCuerpo
<1>5. v = <<v[1], v[2], v[3]>>
  BY SuciasAssumption
<1>6. /\ Deserializar("WRITE_BLOCK", cs).op = "WRITE_BLOCK" /\ cs # <<>> /\ "WRITE_BLOCK" \in Operaciones
      /\ LET o == DeserializarWrite(cs) IN o.op = "WRITE_BLOCK" /\ <<o.file, o.tag, o.bloque>> = <<v[1], v[2], v[3]>>
  BY <1>3 DEF DeserializarWrite, Operaciones, RespuestaDe
<1>7. Comprendida(worker[w], e)
  BY <1>1, <1>4, <1>5, <1>6 DEF Comprendida
<1> HIDE DEF cs
<1> QED
  BY <1>1, <1>2, <1>6, <1>7, PedidoEncargado

\* What a line asks for of its own is what it says.
LEMMA PropiasEncargadas ==
    ASSUME NEW w, Completa(Linea(worker[w])), NEW e \in Propias(w, Instruccion(w))
    PROVE  Encarga(worker[w], e) /\ ~EsRead(e)
<1> DEFINE l == Linea(worker[w])
           q == worker[w].query
           i == Instruccion(w)
           verbo == l[1]
<1>1. i = ParsearInstruccion(l)
  BY DEF Instruccion, Linea, Lineas
<1>2. verbo \in {"CREATE", "COMMIT", "FLUSH", "DELETE", "TRUNCATE", "WRITE", "READ", "TAG"} =>
          SepararFileTag(l[2]) = <<l[2][1], l[2][2]>>
  BY DEF Completa, SepararFileTag
<1>3. verbo = "TAG" => SepararFileTag(l[3]) = <<l[3][1], l[3][2]>>
  BY DEF Completa, SepararFileTag
<1>4. ASSUME NEW h \in Operaciones \ {"READ_BLOCK"}, NEW cs, cs # <<>>, e = Pedido(Paquete(h, cs)),
             Deserializar(h, cs) = Pretende(l, q), Deserializar(h, cs).op = h
      PROVE  Encarga(worker[w], e) /\ ~EsRead(e)
  <2>1. Operada(e) = Deserializar(h, cs)
    BY <1>4 DEF Operada, Pedido, Paquete, PalabraHeader, PalabraCuerpo
  <2> QED
    BY <1>4, <2>1, PedidoEncargado DEF Comprendida
<1>5. {"CREATE_FILE", "COMMIT_TAG", "REMOVE_TAG", "TRUNCATE_FILE", "TAG_FILE"} \subseteq Operaciones \ {"READ_BLOCK"}
  BY DEF Operaciones, RespuestaDe
<1>6. CASE verbo \in {"CREATE", "COMMIT", "DELETE"}
  <2> DEFINE h == IF verbo = "CREATE" THEN "CREATE_FILE"
                  ELSE IF verbo = "COMMIT" THEN "COMMIT_TAG" ELSE "REMOVE_TAG"
             cs == <<q, l[2][1], l[2][2]>>
  <2>1. i.tipo = verbo /\ i.file = l[2][1] /\ i.tag = l[2][2]
    BY <1>1, <1>2, <1>6 DEF ParsearInstruccion
  <2>2. e = Pedido(Paquete(h, cs))
    BY <1>6, <2>1 DEF Propias, OperacionCreate, OperacionCommit, OperacionDelete
  <2>3. Deserializar(h, cs) = FileTag(h, cs) /\ FileTag(h, cs).op = h /\ Pretende(l, q) = FileTag(h, cs)
    BY <1>6 DEF Deserializar, FileTag, Pretende
  <2>4. h \in Operaciones \ {"READ_BLOCK"} /\ cs # <<>>
    BY <1>5
  <2> HIDE DEF h, cs
  <2> QED
    BY <1>4, <2>2, <2>3, <2>4
<1>7. CASE verbo = "TRUNCATE"
  <2> DEFINE cs == <<q, l[2][1], l[2][2], l[3]>>
  <2>1. i.tipo = verbo /\ i.file = l[2][1] /\ i.tag = l[2][2] /\ i.tamanio = l[3]
    BY <1>1, <1>2, <1>7 DEF ParsearInstruccion
  <2>2. e = Pedido(Paquete("TRUNCATE_FILE", cs))
    BY <1>7, <2>1 DEF Propias, OperacionTruncate
  <2>3. /\ Deserializar("TRUNCATE_FILE", cs) = Pretende(l, q)
        /\ Deserializar("TRUNCATE_FILE", cs).op = "TRUNCATE_FILE" /\ cs # <<>>
    BY <1>7 DEF Deserializar, DeserializarTruncate, Pretende
  <2> HIDE DEF cs
  <2> QED
    BY <1>4, <1>5, <2>2, <2>3
<1>8. CASE verbo = "TAG"
  <2> DEFINE cs == <<q, l[2][1], l[2][2], l[3][1], l[3][2]>>
  <2>1. /\ i.tipo = verbo /\ i.file = l[2][1] /\ i.tag = l[2][2]
        /\ i.file_destino = l[3][1] /\ i.tag_destino = l[3][2]
    BY <1>1, <1>2, <1>3, <1>8 DEF ParsearInstruccion
  <2>2. e = Pedido(Paquete("TAG_FILE", cs))
    BY <1>8, <2>1 DEF Propias, OperacionTag
  <2>3. /\ Deserializar("TAG_FILE", cs) = Pretende(l, q)
        /\ Deserializar("TAG_FILE", cs).op = "TAG_FILE" /\ cs # <<>>
    BY <1>8 DEF Deserializar, DeserializarTag, Pretende
  <2> HIDE DEF cs
  <2> QED
    BY <1>4, <1>5, <2>2, <2>3
<1>9. CASE verbo \notin {"CREATE", "COMMIT", "DELETE", "TRUNCATE", "TAG"}
  <2>1. i.tipo \notin {"CREATE", "COMMIT", "DELETE", "TRUNCATE", "TAG"}
    BY <1>1, <1>9 DEF ParsearInstruccion
  <2>2. e = Informe(FinQuery(q, "COMPLETADA"))
    BY <2>1 DEF Propias
  <2> QED
    BY <2>2, InformeEncargado
<1> QED
  BY <1>6, <1>7, <1>8, <1>9

\* READ and WRITE ask for the pages they go through.
LEMMA LecturasEncargadas ==
    ASSUME NEW w, Completa(Linea(worker[w])), Linea(worker[w])[1] \in {"READ", "WRITE"},
           NEW n \in Abarca(Linea(worker[w]))
    PROVE  LET i == Instruccion(w) IN
           /\ Encarga(worker[w], Lectura(w, i, n)) /\ EsPedido(Lectura(w, i, n))
           /\ Encarga(worker[w], Leida(i, n)) /\ ~EsRead(Leida(i, n)) /\ ~EsPedido(Leida(i, n))
<1> DEFINE l == Linea(worker[w])
           q == worker[w].query
           i == Instruccion(w)
           cs == <<q, l[2][1], l[2][2], n>>
           e == Lectura(w, i, n)
<1>1. i = ParsearInstruccion(l) /\ SepararFileTag(l[2]) = <<l[2][1], l[2][2]>>
  BY DEF Instruccion, Linea, Lineas, Completa, SepararFileTag
<1>2. i.file = l[2][1] /\ i.tag = l[2][2]
  BY <1>1 DEF ParsearInstruccion
<1>3. e = Pedido(Paquete("READ_BLOCK", cs))
  BY <1>2 DEF Lectura, OperacionRead
<1>4. /\ Deserializar("READ_BLOCK", cs) = [op |-> "READ_BLOCK", query_id |-> q, file |-> l[2][1],
                                           tag |-> l[2][2], bloque |-> n]
      /\ Deserializar("READ_BLOCK", cs).op = "READ_BLOCK" /\ cs # <<>> /\ "READ_BLOCK" \in Operaciones
  BY DEF Deserializar, DeserializarRead, Operaciones, RespuestaDe
<1>5. Operada(e) = Deserializar("READ_BLOCK", cs)
  BY <1>3 DEF Operada, Pedido, Paquete, PalabraHeader, PalabraCuerpo
<1>6. Comprendida(worker[w], e)
  BY <1>4, <1>5 DEF Comprendida
<1> HIDE DEF cs
<1>7. Encarga(worker[w], e) /\ EsPedido(e)
  BY <1>3, <1>4, <1>6, PedidoEncargado DEF EsPedido, Pedido
<1> QED
  BY <1>7, InformeEncargado DEF Leida

\* The words of a line are complete.
LEMMA LineaCompleta ==
    ASSUME NEW x, x.archivo \in DOMAIN Archivos, x.pc \in 0 .. Len(Archivos[x.archivo]),
           x.pc # Len(Archivos[x.archivo])
    PROVE  Completa(Linea(x)) /\ x.pc + 1 \in 0 .. Len(Archivos[x.archivo])
<1> DEFINE a == Archivos[x.archivo]
<1>1. a \in Seq(ToSet(a)) /\ \A k \in DOMAIN a : Completa(a[k])
  BY ArchivosAssumption
<1> HIDE DEF a
<1>2. Len(a) \in Nat /\ DOMAIN a = 1 .. Len(a)
  BY <1>1, LenProperties
<1>3. x.pc + 1 \in DOMAIN a /\ x.pc + 1 \in 0 .. Len(a)
  BY <1>2 DEF a
<1> QED
  BY <1>1, <1>3 DEF a, Linea

LEMMA ArchivoLargo ==
    ASSUME NEW a \in DOMAIN Archivos PROVE Len(Archivos[a]) \in Nat
BY ArchivosAssumption, LenProperties

\* The pages of an access are those that its line spans.
LEMMA PaginasLista ==
    ASSUME NEW w, Completa(Linea(worker[w])), Linea(worker[w])[1] \in {"READ", "WRITE"},
           worker[w].tamanio_bloque = BlockSize
    PROVE  LET l == Linea(worker[w])
               p == Paginas(w, Instruccion(w))
           IN  /\ p \in Seq(Abarca(l))
               /\ (l[3] + l[4] - 1) \div BlockSize <= l[3] \div BlockSize => p = <<>> \/ Tail(p) = <<>>
<1> DEFINE l == Linea(worker[w])
           i == Instruccion(w)
           p == Paginas(w, i)
           primera == l[3] \div BlockSize
           ultima == (l[3] + l[4] - 1) \div BlockSize
           n == ultima - primera + 1
<1>1. i.base = l[3] /\ i.tamanio = l[4]
  BY DEF Instruccion, Linea, Lineas, ParsearInstruccion
<1>2. l[3] \in Nat /\ l[4] \in Nat
  BY DEF Completa
<1>3. primera \in Int /\ ultima \in Int
  BY <1>2, StorageAssumption
<1>4. p = [k \in 1 .. n |-> primera + k - 1] /\ Abarca(l) = primera .. ultima
  BY <1>1 DEF Paginas, Abarca
<1> HIDE DEF p, primera, ultima, l
<1> DEFINE m == IF n >= 0 THEN n ELSE 0
<1>5. m \in Nat /\ 1 .. n = 1 .. m /\ n \in Int
  BY <1>3
<1>6. p \in [1 .. m -> Abarca(l)]
  BY <1>3, <1>4, <1>5
<1>7. p \in Seq(Abarca(l))
  BY <1>5, <1>6
<1>8. ASSUME ultima <= primera PROVE p = <<>> \/ Tail(p) = <<>>
  <2>1. Len(p) = m /\ m \in {0, 1}
    BY <1>3, <1>5, <1>6, <1>7, <1>8
  <2> HIDE DEF m
  <2>2. CASE m = 0
    BY <1>7, <2>1, <2>2, EmptySeq
  <2>3. CASE m = 1
    <3>1. p # <<>>
      <4>1. Len(<<>>) = 0
        OBVIOUS
      <4> QED
        BY <2>1, <2>3, <4>1
    <3>2. Tail(p) \in Seq(Abarca(l)) /\ Len(Tail(p)) = 0
      <4>1. Tail(p) \in Seq(Abarca(l)) /\ Len(Tail(p)) = Len(p) - 1
        BY <1>7, <3>1, HeadTailProperties, Zenon
      <4> QED
        BY <2>1, <2>3, <4>1
    <3> QED
      BY <3>2, EmptySeq
  <2> QED
    BY <2>1, <2>2, <2>3
<1> QED
  BY <1>7, <1>8 DEF p, primera, ultima, l

LEMMA EncargaIgual ==
    ASSUME NEW x, NEW y, y.archivo = x.archivo, y.pc = x.pc, y.query = x.query, NEW e, Encarga(x, e)
    PROVE  Encarga(y, e)
BY DEF Encarga, Comprendida, Linea

\* What the query thread does leaves it somewhere in its file, with what is left
\* of its instruction.
LEMMA UbicadoPaso ==
    ASSUME Formas, Cauces, NEW w \in Workers, HiloDeQuery(w), Ubicado(worker[w]),
           worker[w].ejecuta # "respuesta_tras_cero"
    PROVE  Ubicado(worker'[w])
<1> DEFINE x == worker[w]
           y == worker'[w]
<1> USE DEF Formas, FormaWorker, CamposWorker, EnInstruccion
<1>1. CASE Comenzar(w)
  <2>1. x.espera # <<>> /\ x.ejecuta = "libre" /\ Head(x.espera)[3] = 0
    <3>1. x.espera # <<>> /\ x.ejecuta = "libre"
      BY <1>1 DEF Comenzar, Ejecuta
    <3>2. x.espera \in Seq(ToSet(x.espera)) /\ \A k \in 1 .. Len(x.espera) : x.espera[k][3] = 0
      BY DEF Cauces, Ordenes
    <3> QED
      BY <3>1, <3>2, Cola
  <2>2. /\ y.pc = Head(x.espera)[3] /\ y.archivo = Head(x.espera)[1] /\ y.tarea = x.tarea
        /\ y.paginas = x.paginas /\ y.query_en_ejecucion = (Head(x.espera)[1] \in DOMAIN Archivos)
        /\ y.ejecuta = IF Head(x.espera)[1] \in DOMAIN Archivos THEN "linea" ELSE "libre"
    BY <1>1 DEF Comenzar
  <2>3. y.ejecuta # "libre" => y.archivo \in DOMAIN Archivos /\ y.pc \in 0 .. Len(Archivos[y.archivo])
    BY <2>1, <2>2, ArchivoLargo
  <2> QED
    BY <2>1, <2>2, <2>3 DEF Ubicado
<1>2. CASE TomarLinea(w)
  <2>1. x.ejecuta = "linea" /\ Lineas(w) = Archivos[x.archivo]
    BY <1>2 DEF TomarLinea, Ejecuta, Lineas
  <2>2. CASE x.pc = Len(Lineas(w))
    <3>1. y = [x EXCEPT !.ejecuta = "libre", !.query_en_ejecucion = FALSE]
      BY <1>2, <2>2 DEF TomarLinea
    <3> QED
      BY <2>1, <3>1 DEF Ubicado
  <2>3. CASE x.pc # Len(Lineas(w))
    <3>1. y.ejecuta = "instruccion" /\ y.archivo = x.archivo /\ y.pc = x.pc
      <4> DEFINE P == IF Instruccion(w).tipo \in {"READ", "WRITE"} THEN Paginas(w, Instruccion(w)) ELSE <<>>
      <4>1. \E t \in Tareas(w, Instruccion(w)) :
               worker' = [worker EXCEPT ![w].ejecuta = "instruccion", ![w].tarea = t, ![w].paginas = P]
        BY <1>2, <2>3, AlTomarLinea
      <4> HIDE DEF P
      <4> QED
        BY <4>1
    <3> QED
      BY <2>1, <2>3, <3>1 DEF Ubicado
  <2> QED
    BY <2>2, <2>3
<1>3. CASE AccederPagina(w)
  <2>1. x.ejecuta = "instruccion"
    BY <1>3 DEF AccederPagina, Ejecuta
  <2>2. PICK t : y = [x EXCEPT !.tarea = t, !.paginas = Tail(x.paginas)]
    BY <1>3 DEF AccederPagina
  <2> QED
    BY <2>1, <2>2 DEF Ubicado
<1>4. CASE TerminarInstruccion(w)
  <2>1. /\ x.ejecuta = "instruccion" /\ x.tarea = <<>> /\ x.paginas = <<>>
        /\ y = IF x.query_en_ejecucion THEN [x EXCEPT !.ejecuta = "linea", !.pc = @ + 1]
               ELSE [x EXCEPT !.ejecuta = "libre"]
    BY <1>4 DEF TerminarInstruccion, Ejecuta
  <2>2. x.pc + 1 \in 0 .. Len(Archivos[x.archivo])
    BY <2>1, LineaCompleta DEF Ubicado
  <2>3. CASE x.query_en_ejecucion
    BY <2>1, <2>2, <2>3 DEF Ubicado
  <2>4. CASE ~x.query_en_ejecucion
    BY <2>1, <2>4 DEF Ubicado
  <2> QED
    BY <2>3, <2>4
<1>5. CASE Informar(w)
  <2>1. x.ejecuta = "instruccion" /\ y = [x EXCEPT !.tarea = Tail(@)]
    BY <1>5 DEF Informar, Toca, Ejecuta
  <2> QED
    BY <2>1 DEF Ubicado
<1>6. CASE Pedir(w)
  <2>1. /\ x.ejecuta = "instruccion" /\ y = [x EXCEPT !.ejecuta = "respuesta"]
        /\ x.tarea # <<>> /\ Head(x.tarea).hace = "pedir"
    BY <1>6 DEF Pedir, Toca, Ejecuta
  <2> QED
    BY <2>1 DEF Ubicado, EsPedido
<1>7. CASE EsperarRespuesta(w)
  <2>1. x.ejecuta = "respuesta"
    BY <1>7 DEF EsperarRespuesta, Ejecuta
  <2>2. /\ y.archivo = x.archivo /\ y.pc = x.pc /\ y.tarea = x.tarea /\ y.paginas = x.paginas
        /\ y.ejecuta \in {"respuesta_tras_cero", "semaforo", "cuerpo"}
    BY <1>7 DEF EsperarRespuesta
  <2> QED
    BY <2>1, <2>2 DEF Ubicado
<1>8. CASE LeerRespuesta(w)
  <2>1. x.ejecuta = "cuerpo"
    BY <1>8 DEF LeerRespuesta, Ejecuta
  <2>2. \E s, e : worker' = [worker EXCEPT ![w].ejecuta = "semaforo", ![w].sem_respuesta_storage = s,
                                           ![w].query_en_ejecucion = e]
    BY <1>8, Zenon DEF LeerRespuesta
  <2>3. /\ y.archivo = x.archivo /\ y.pc = x.pc /\ y.tarea = x.tarea /\ y.paginas = x.paginas
        /\ y.ejecuta = "semaforo"
    BY <2>2
  <2> QED
    BY <2>1, <2>3 DEF Ubicado
<1>9. CASE EsperarSemaforo(w)
  <2>1. x.ejecuta = "semaforo"
    BY <1>9 DEF EsperarSemaforo, Ejecuta
  <2>2. /\ y.archivo = x.archivo /\ y.pc = x.pc /\ y.query_en_ejecucion = x.query_en_ejecucion
        /\ \/ y.ejecuta = "instruccion"
           \/ y.ejecuta = "contenido" /\ y.tarea = x.tarea /\ x.query_en_ejecucion
    BY <1>9 DEF EsperarSemaforo
  <2> QED
    BY <2>1, <2>2 DEF Ubicado
<1>10. CASE LeerContenido(w)
  <2>1. x.ejecuta = "contenido"
    BY <1>10 DEF LeerContenido, Ejecuta
  <2>2. \E t, p : worker' = [worker EXCEPT ![w].ejecuta = "instruccion", ![w].tarea = t, ![w].paginas = p]
    BY <1>10, Zenon DEF LeerContenido
  <2>3. y.archivo = x.archivo /\ y.pc = x.pc /\ y.ejecuta = "instruccion"
    BY <2>2
  <2> QED
    BY <2>1, <2>3 DEF Ubicado
<1> QED
  BY <1>1, <1>2, <1>3, <1>4, <1>5, <1>6, <1>7, <1>8, <1>9, <1>10 DEF HiloDeQuery, EjecutarQuery

\* The first requests of an instruction.
LEMMA AlEmpezarInstruccion ==
    ASSUME Formas, NEW w \in Workers, TomarLinea(w), worker[w].pc # Len(Lineas(w)), Trabajo(worker[w]),
           worker[w].tamanio_bloque = BlockSize
    PROVE  Encargado(worker'[w]) /\ Detenido(worker'[w])
<1> DEFINE x == worker[w]
           y == worker'[w]
           l == Linea(x)
           i == Instruccion(w)
           P == IF i.tipo \in {"READ", "WRITE"} THEN Paginas(w, i) ELSE <<>>
<1>1. x.ejecuta = "linea" /\ x.archivo \in DOMAIN Archivos /\ x.pc \in 0 .. Len(Archivos[x.archivo])
      /\ x.pc # Len(Archivos[x.archivo]) /\ x.query_en_ejecucion
  BY DEF TomarLinea, Ejecuta, Trabajo, Ubicado, Lineas
<1>2. Completa(l)
  BY <1>1, LineaCompleta
<1>3. i = ParsearInstruccion(l) /\ (i.tipo \in {"READ", "WRITE"} <=> l[1] \in {"READ", "WRITE"})
  BY DEF Instruccion, Linea, Lineas, ParsearInstruccion
<1>4. PICK t \in Tareas(w, i) :
        worker' = [worker EXCEPT ![w].ejecuta = "instruccion", ![w].tarea = t, ![w].paginas = P]
  BY AlTomarLinea
<1> HIDE DEF P
<1>5. /\ y.archivo = x.archivo /\ y.pc = x.pc /\ y.query = x.query /\ y.ejecuta = "instruccion"
      /\ y.tarea = t /\ y.paginas = P /\ y.query_en_ejecucion
  BY <1>1, <1>4 DEF Formas, FormaWorker, CamposWorker
<1>6. Linea(y) = l
  BY <1>5 DEF Linea
<1>7. ASSUME NEW k \in 1 .. Len(t) PROVE Encarga(y, t[k]) /\ ~EsRead(t[k])
  <2>1. t[k] \in Escribibles(w) \union Propias(w, i)
    BY TareasLista, ElementOfSeq
  <2>2. Encarga(x, t[k]) /\ ~EsRead(t[k])
    BY <1>2, <2>1, EscribiblesEncargadas, PropiasEncargadas
  <2> QED
    BY <1>5, <2>2, EncargaIgual
<1>8. P # <<>> => l[1] \in {"READ", "WRITE"} /\ P \in Seq(Abarca(l)) /\ t = <<>>
  <2> SUFFICES ASSUME i.tipo \in {"READ", "WRITE"} PROVE Paginas(w, i) \in Seq(Abarca(l)) /\ t = <<>>
    BY <1>3 DEF P
  <2>1. t = <<>>
    BY <1>4 DEF Tareas
  <2> QED
    BY <1>2, <1>3, <2>1, PaginasLista
<1>9. Seguro => Sucias = {} \/ P = <<>> \/ Tail(P) = <<>>
  <2> SUFFICES ASSUME Seguro, Sucias # {}, l[1] \in {"READ", "WRITE"}, P = Paginas(w, i)
               PROVE  P = <<>> \/ Tail(P) = <<>>
    BY <1>3 DEF P
  <2>1. x.pc + 1 \in DOMAIN Archivos[x.archivo]
    BY <1>1, ArchivosAssumption, LenProperties
  <2>2. (l[3] + l[4] - 1) \div BlockSize <= l[3] \div BlockSize
    BY <1>1, <2>1 DEF Seguro, Linea
  <2> QED
    BY <1>2, <2>2, PaginasLista
<1>10. Encargado(y)
  BY <1>5, <1>6, <1>7, <1>8 DEF Encargado
<1>11. ASSUME NEW k \in 1 .. Len(t) PROVE P = <<>>
  <2>1. t # <<>>
    <3>1. Len(<<>>) = 0
      OBVIOUS
    <3> QED
      BY <3>1
  <2> QED
    BY <1>8, <2>1
<1> QED
  BY <1>5, <1>9, <1>10, <1>11 DEF Detenido

\* What an access does at its next page.
LEMMA AlAcceder ==
    ASSUME Formas, NEW w \in Workers, AccederPagina(w), Trabajo(worker[w])
    PROVE  Encargado(worker'[w]) /\ Detenido(worker'[w])
<1> DEFINE x == worker[w]
           y == worker'[w]
           l == Linea(x)
           i == Instruccion(w)
           n == Head(x.paginas)
<1>1. /\ x.ejecuta = "instruccion" /\ x.paginas # <<>> /\ x.tarea = <<>> /\ x.archivo \in DOMAIN Archivos
      /\ x.pc \in 0 .. Len(Archivos[x.archivo]) /\ x.pc # Len(Archivos[x.archivo])
  BY DEF AccederPagina, Ejecuta, Trabajo, Ubicado, EnInstruccion
<1>2. Completa(l) /\ l[1] \in {"READ", "WRITE"} /\ x.paginas \in Seq(Abarca(l))
  BY <1>1, LineaCompleta DEF Trabajo, Encargado, EnInstruccion
<1>3. n \in Abarca(l) /\ Tail(x.paginas) \in Seq(Abarca(l))
  BY <1>1, <1>2, HeadTailProperties
<1>4. PICK t \in Acceso(w, i, n) : worker' = [worker EXCEPT ![w].tarea = t, ![w].paginas = Tail(@)]
  BY DEF AccederPagina
<1>5. /\ y.archivo = x.archivo /\ y.pc = x.pc /\ y.query = x.query /\ y.ejecuta = "instruccion"
      /\ y.tarea = t /\ y.paginas = Tail(x.paginas) /\ y.query_en_ejecucion = x.query_en_ejecucion
  BY <1>1, <1>4 DEF Formas, FormaWorker, CamposWorker
<1>6. Linea(y) = l
  BY <1>5 DEF Linea
<1>7. ASSUME NEW k \in 1 .. Len(t)
      PROVE  /\ Encarga(y, t[k]) /\ (k # 1 => ~EsRead(t[k]))
             /\ EsPedido(t[k]) /\ ~EsRead(t[k]) => Sucias # {}
  <2>1. t[k] \in Escribibles(w) \union {Lectura(w, i, n), Leida(i, n)} /\ (t[k] = Lectura(w, i, n) => k = 1)
    BY AccesoLista, ElementOfSeq
  <2>2. CASE t[k] \in Escribibles(w)
    BY <1>5, <2>2, EscribiblesEncargadas, EncargaIgual
  <2>3. CASE t[k] = Leida(i, n)
    BY <1>2, <1>3, <1>5, <2>3, LecturasEncargadas, EncargaIgual
  <2>4. CASE t[k] = Lectura(w, i, n)
    <3>1. EsRead(Lectura(w, i, n))
      BY DEF EsRead, EsPedido, Lectura, Pedido, OperacionRead, Paquete, PalabraHeader
    <3> QED
      BY <1>2, <1>3, <1>5, <2>1, <2>4, <3>1, LecturasEncargadas, EncargaIgual
  <2> QED
    BY <2>1, <2>2, <2>3, <2>4
<1>8. Encargado(y)
  BY <1>2, <1>3, <1>5, <1>6, <1>7 DEF Encargado
<1>9. Seguro => x.query_en_ejecucion /\ (Sucias # {} => Tail(x.paginas) = <<>>)
  BY <1>1 DEF Trabajo, Detenido, EnInstruccion
<1> QED
  BY <1>5, <1>7, <1>8, <1>9 DEF Detenido

\* What is left of an instruction when one thing of it has been done.
LEMMA SigueLaTarea ==
    ASSUME NEW x, NEW y, Encargado(x), Detenido(x), x.tarea # <<>>, x.tarea \in Seq(ToSet(x.tarea)),
           x.ejecuta \in EnInstruccion, y.ejecuta \in EnInstruccion,
           y.archivo = x.archivo, y.pc = x.pc, y.query = x.query, y.paginas = x.paginas,
           y.query_en_ejecucion = x.query_en_ejecucion,
           y.tarea = x.tarea \/ y.tarea = Tail(x.tarea),
           x.ejecuta = "semaforo" /\ EsRead(Head(x.tarea)) => x.query_en_ejecucion
    PROVE  Encargado(y) /\ Detenido(y)
<1>1. \A k \in 1 .. Len(y.tarea) :
        \E j \in 1 .. Len(x.tarea) : x.tarea[j] = y.tarea[k] /\ (k # 1 => j # 1)
  <2>1. CASE y.tarea = x.tarea
    BY <2>1
  <2>2. CASE y.tarea = Tail(x.tarea)
    <3>1. /\ Len(x.tarea) \in Nat \ {0}
          /\ \A k \in 1 .. Len(y.tarea) : k + 1 \in 1 .. Len(x.tarea) /\ y.tarea[k] = x.tarea[k + 1]
      BY <2>2, Cola
    <3> QED
      BY <3>1
  <2> QED
    BY <2>1, <2>2
<1>2. Linea(y) = Linea(x)
  BY DEF Linea
<1>3. ASSUME NEW k \in 1 .. Len(y.tarea)
      PROVE  /\ Encarga(y, y.tarea[k]) /\ (k # 1 => ~EsRead(y.tarea[k]))
             /\ Seguro /\ EsPedido(y.tarea[k]) /\ ~EsRead(y.tarea[k]) => y.paginas = <<>>
             /\ Seguro /\ ~x.query_en_ejecucion => ~EsRead(y.tarea[k])
  <2>1. PICK j \in 1 .. Len(x.tarea) : x.tarea[j] = y.tarea[k] /\ (k # 1 => j # 1)
    BY <1>1
  <2>2. Encarga(x, x.tarea[j]) /\ (j # 1 => ~EsRead(x.tarea[j]))
    BY DEF Encargado
  <2>3. Seguro => /\ EsPedido(x.tarea[j]) /\ ~EsRead(x.tarea[j]) => x.paginas = <<>>
                  /\ ~x.query_en_ejecucion => ~EsRead(x.tarea[j])
    BY DEF Detenido
  <2> QED
    BY <2>1, <2>2, <2>3, EncargaIgual
<1>4. Encargado(y)
  BY <1>2, <1>3 DEF Encargado
<1>5. Seguro => /\ Sucias = {} \/ x.paginas = <<>> \/ Tail(x.paginas) = <<>>
                /\ ~x.query_en_ejecucion => x.paginas = <<>>
  BY DEF Detenido
<1>6. Detenido(y)
  BY <1>3, <1>5 DEF Detenido
<1> QED
  BY <1>4, <1>6

\* A refusal leaves nothing to ask for but, at most, what is waited for.
LEMMA AlNegar ==
    ASSUME NEW x, NEW y, Ubicado(x), Encargado(x), Detenido(x), x.tarea \in Seq(ToSet(x.tarea)),
           x.ejecuta = "cuerpo", y.ejecuta = "semaforo",
           y.archivo = x.archivo, y.pc = x.pc, y.query = x.query, y.paginas = x.paginas, y.tarea = x.tarea,
           y.query_en_ejecucion = x.query_en_ejecucion \/ ~y.query_en_ejecucion
    PROVE  Encargado(y) /\ Detenido(y)
<1>1. x.tarea # <<>> /\ EsPedido(Head(x.tarea))
  BY DEF Ubicado, EnInstruccion
<1>2. 1 \in 1 .. Len(x.tarea) /\ Head(x.tarea) = x.tarea[1]
  BY <1>1, Cola
<1>3. Linea(y) = Linea(x)
  BY DEF Linea
<1>4. \A k \in 1 .. Len(x.tarea) : Encarga(y, x.tarea[k]) /\ (k # 1 => ~EsRead(x.tarea[k]))
  BY EncargaIgual DEF Encargado, EnInstruccion
<1>5. Encargado(y)
  BY <1>3, <1>4 DEF Encargado, EnInstruccion
<1>6. ASSUME Seguro, ~EsRead(Head(x.tarea))
      PROVE  x.paginas = <<>> /\ \A k \in 1 .. Len(x.tarea) : ~EsRead(x.tarea[k])
  BY <1>1, <1>2, <1>4, <1>6 DEF Detenido, EnInstruccion
<1>7. Detenido(y)
  BY <1>6 DEF Detenido, EnInstruccion
<1> QED
  BY <1>5, <1>7

\* Out of an instruction there is nothing to say of it.
LEMMA SinInstruccion ==
    ASSUME NEW y, y.ejecuta \notin EnInstruccion PROVE Encargado(y) /\ Detenido(y)
BY DEF Encargado, Detenido

LEMMA TrabajoPaso ==
    ASSUME Formas, Cauces, NEW w \in Workers, HiloDeQuery(w), Trabajo(worker[w]),
           worker[w].ejecuta # "respuesta_tras_cero", worker'[w].ejecuta # "respuesta_tras_cero",
           worker[w].ejecuta # "libre" => worker[w].tamanio_bloque = BlockSize
    PROVE  Trabajo(worker'[w])
<1> DEFINE x == worker[w]
           y == worker'[w]
<1>1. Ubicado(y)
  BY UbicadoPaso DEF Trabajo
<1>2. Ubicado(x) /\ Encargado(x) /\ Detenido(x) /\ x.tarea \in Seq(ToSet(x.tarea))
  BY DEF Trabajo, Cauces, Encargos
<1> USE DEF Formas, FormaWorker, CamposWorker, EnInstruccion
<1>3. CASE Comenzar(w) \/ TerminarInstruccion(w)
  <2>1. y.ejecuta \notin EnInstruccion
    <3>1. CASE Comenzar(w)
      BY <3>1 DEF Comenzar
    <3>2. CASE TerminarInstruccion(w)
      BY <3>2 DEF TerminarInstruccion
    <3> QED
      BY <1>3, <3>1, <3>2
  <2> QED
    BY <1>1, <2>1, SinInstruccion DEF Trabajo
<1>4. CASE TomarLinea(w)
  <2>1. CASE x.pc = Len(Lineas(w))
    <3>1. y.ejecuta = "libre"
      BY <1>4, <2>1 DEF TomarLinea
    <3> QED
      BY <1>1, <3>1, SinInstruccion DEF Trabajo
  <2>2. CASE x.pc # Len(Lineas(w))
    <3>1. x.ejecuta # "libre"
      BY <1>4 DEF TomarLinea, Ejecuta
    <3> QED
      BY <1>1, <1>4, <2>2, <3>1, AlEmpezarInstruccion DEF Trabajo
  <2> QED
    BY <2>1, <2>2
<1>5. CASE AccederPagina(w)
  BY <1>1, <1>5, AlAcceder DEF Trabajo
<1>6. CASE Informar(w) \/ Pedir(w)
  <2>1. /\ x.ejecuta = "instruccion" /\ x.tarea # <<>> /\ y.ejecuta \in {"instruccion", "respuesta"}
        /\ y.archivo = x.archivo /\ y.pc = x.pc /\ y.query = x.query /\ y.paginas = x.paginas
        /\ y.query_en_ejecucion = x.query_en_ejecucion /\ (y.tarea = x.tarea \/ y.tarea = Tail(x.tarea))
    <3>1. x.ejecuta = "instruccion" /\ x.tarea # <<>>
      BY <1>6 DEF Informar, Pedir, Toca, Ejecuta
    <3>2. y = [x EXCEPT !.tarea = Tail(@)] \/ y = [x EXCEPT !.ejecuta = "respuesta"]
      BY <1>6 DEF Informar, Pedir
    <3> QED
      BY <3>1, <3>2
  <2> QED
    BY <1>1, <1>2, <2>1, SigueLaTarea DEF Trabajo
<1>7. CASE EsperarRespuesta(w)
  <2>1. /\ x.ejecuta = "respuesta" /\ y.ejecuta \in {"semaforo", "cuerpo"}
        /\ y.archivo = x.archivo /\ y.pc = x.pc /\ y.query = x.query /\ y.paginas = x.paginas
        /\ y.query_en_ejecucion = x.query_en_ejecucion /\ y.tarea = x.tarea
    <3>1. x.ejecuta = "respuesta"
      BY <1>7 DEF EsperarRespuesta, Ejecuta
    <3> QED
      BY <1>7, <3>1 DEF EsperarRespuesta
  <2>2. x.tarea # <<>>
    BY <1>2, <2>1 DEF Ubicado
  <2> QED
    BY <1>1, <1>2, <2>1, <2>2, SigueLaTarea DEF Trabajo
<1>8. CASE LeerRespuesta(w)
  <2>1. x.ejecuta = "cuerpo"
    BY <1>8 DEF LeerRespuesta, Ejecuta
  <2>2. \E s, a : worker' = [worker EXCEPT ![w].ejecuta = "semaforo", ![w].sem_respuesta_storage = s,
                                           ![w].query_en_ejecucion = @ /\ ~a]
    BY <1>8, Zenon DEF LeerRespuesta
  <2>3. /\ y.archivo = x.archivo /\ y.pc = x.pc /\ y.query = x.query /\ y.tarea = x.tarea
        /\ y.paginas = x.paginas /\ y.ejecuta = "semaforo"
        /\ \E a : y.query_en_ejecucion = (x.query_en_ejecucion /\ ~a)
    BY <2>2
  <2>4. y.query_en_ejecucion = x.query_en_ejecucion \/ ~y.query_en_ejecucion
    BY <2>3
  <2> QED
    BY <1>1, <1>2, <2>1, <2>3, <2>4, AlNegar DEF Trabajo
<1>9. CASE EsperarSemaforo(w)
  <2>1. x.ejecuta = "semaforo"
    BY <1>9 DEF EsperarSemaforo, Ejecuta
  <2>2. x.tarea # <<>> /\ EsPedido(Head(x.tarea))
    BY <1>2, <2>1 DEF Ubicado
  <2>3. /\ y.archivo = x.archivo /\ y.pc = x.pc /\ y.query = x.query
        /\ y.query_en_ejecucion = x.query_en_ejecucion
        /\ \/ ~EsRead(Head(x.tarea)) /\ y.ejecuta = "instruccion" /\ y.tarea = Tail(x.tarea) /\ y.paginas = x.paginas
           \/ y.ejecuta = "contenido" /\ x.query_en_ejecucion /\ y.tarea = x.tarea /\ y.paginas = x.paginas
           \/ y.ejecuta = "instruccion" /\ y.tarea = <<>> /\ y.paginas = <<>>
    BY <1>9 DEF EsperarSemaforo, PedidoEnCurso, EsRead
  <2>4. CASE y.tarea = <<>> /\ y.paginas = <<>>
    <3>1. Len(y.tarea) = 0
      BY <2>4, Nada
    <3> QED
      BY <1>1, <2>4, <3>1 DEF Trabajo, Encargado, Detenido
  <2>5. CASE ~(y.tarea = <<>> /\ y.paginas = <<>>)
    BY <1>1, <1>2, <2>1, <2>2, <2>3, <2>5, SigueLaTarea DEF Trabajo
  <2> QED
    BY <2>4, <2>5
<1>10. CASE LeerContenido(w)
  <2>1. x.ejecuta = "contenido"
    BY <1>10 DEF LeerContenido, Ejecuta
  <2>2. x.tarea # <<>>
    BY <1>2, <2>1 DEF Ubicado
  <2>3. \E b \in BOOLEAN :
            worker' = [worker EXCEPT ![w].ejecuta = "instruccion",
                                     ![w].tarea = IF b THEN Tail(@) ELSE <<>>,
                                     ![w].paginas = IF b THEN @ ELSE <<>>]
    <3> DEFINE p == Payload(a_cliente, AStorage(w))
               creible == Len(p) = 3 /\ p[2] > 0 /\ p[2] <= worker[w].tamanio_bloque * 2
    <3>1. worker' = [worker EXCEPT ![w].ejecuta = "instruccion",
                                   ![w].tarea = IF creible THEN Tail(@) ELSE <<>>,
                                   ![w].paginas = IF creible THEN @ ELSE <<>>]
      BY <1>10, Zenon DEF LeerContenido
    <3> HIDE DEF creible
    <3>2. CASE creible
      <4> WITNESS TRUE \in BOOLEAN
      <4> QED
        BY <3>1, <3>2
    <3>3. CASE ~creible
      <4> WITNESS FALSE \in BOOLEAN
      <4> QED
        BY <3>1, <3>3
    <3> QED
      BY <3>2, <3>3
  <2>4. /\ y.archivo = x.archivo /\ y.pc = x.pc /\ y.query = x.query /\ y.ejecuta = "instruccion"
        /\ y.query_en_ejecucion = x.query_en_ejecucion
        /\ \/ y.tarea = Tail(x.tarea) /\ y.paginas = x.paginas
           \/ y.tarea = <<>> /\ y.paginas = <<>>
    BY <2>3
  <2>5. CASE y.tarea = <<>> /\ y.paginas = <<>>
    <3>1. Len(y.tarea) = 0
      BY <2>5, Nada
    <3> QED
      BY <1>1, <2>5, <3>1 DEF Trabajo, Encargado, Detenido
  <2>6. CASE ~(y.tarea = <<>> /\ y.paginas = <<>>)
    BY <1>1, <1>2, <2>1, <2>2, <2>4, <2>6, SigueLaTarea DEF Trabajo
  <2> QED
    BY <2>5, <2>6
<1> QED
  BY <1>3, <1>4, <1>5, <1>6, <1>7, <1>8, <1>9, <1>10 DEF HiloDeQuery, EjecutarQuery

\* What a request is made of.
LEMMA PedidoEntero ==
    ASSUME NEW x, NEW e, EsPedido(e), Encarga(x, e)
    PROVE  LET p == e.paquete IN
           /\ p = <<p[1], p[2]>> /\ p # <<>> /\ Head(p) = p[1] /\ Tail(p) = <<p[2]>> /\ <<>> \o p = p
           /\ p[1].tipo = "header" /\ p[1].header \in Operaciones
           /\ p[2].tipo = "cuerpo" /\ p[2].campos # <<>>
           /\ Deserializar(p[1].header, p[2].campos) = Operada(e)
           /\ Operada(e).op = p[1].header /\ Operada(e) # Nula
<1> DEFINE p == e.paquete
<1>1. /\ p = Paquete(p[1].header, p[2].campos) /\ p[2].campos # <<>>
      /\ p[1].header \in Operaciones /\ Operada(e).op = p[1].header
  BY DEF Encarga
<1>2. Deserializar(p[1].header, p[2].campos) = Operada(e)
  BY DEF Operada
<1>3. Operada(e) # Nula
  BY <1>1 DEF Nula, Operaciones, RespuestaDe
<1> HIDE DEF p
<1>4. /\ p = <<p[1], p[2]>> /\ p # <<>> /\ Head(p) = p[1] /\ Tail(p) = <<p[2]>> /\ <<>> \o p = p
      /\ p[1].tipo = "header" /\ p[2].tipo = "cuerpo"
  <2> DEFINE a == PalabraHeader(p[1].header)
             b == PalabraCuerpo(p[2].campos)
  <2>1. p = <<a, b>> /\ a.tipo = "header" /\ b.tipo = "cuerpo"
    BY <1>1 DEF Paquete, PalabraHeader, PalabraCuerpo
  <2> HIDE DEF a, b
  <2>2. \A u, v : LET q == <<u, v>> IN q # <<>> /\ Head(q) = u /\ Tail(q) = <<v>> /\ <<>> \o q = q
    OBVIOUS
  <2> QED
    BY <2>1, <2>2
<1> QED
  BY <1>1, <1>2, <1>3, <1>4 DEF p

\* With nothing to read and the Worker there, its thread in the Storage waits.
LEMMA StorageEspera ==
    ASSUME Formas, NEW w \in Workers, "cliente" \notin cerrado[AStorage(w)],
           a_servidor[AStorage(w)] = <<>>, hilo_storage[w].paso \notin {"contar", "despedir"}
    PROVE  ~HiloDelStorage(w)
BY DEF HiloDelStorage, AtenderEnStorage, RecibirSaludoStorage, RechazarCliente, IdentificarWorker,
       ContarWorker, RecibirOperacion, Operar, DespedirWorker, LeeStorage, Vuelve, EnStorage

LEMMA StorageAtento ==
    ASSUME Formas, NEW w \in Workers, "cliente" \notin cerrado[AStorage(w)],
           Atento(a_servidor[AStorage(w)], hilo_storage[w]), HiloDelStorage(w)
    PROVE  /\ Atento(a_servidor'[AStorage(w)], hilo_storage'[w])
           /\ Igual(AStorage(w)) /\ hilo_storage'[w].paso # "fin"
<1>1. hilo_storage[w].paso # "fin"
  BY AlcanceStorage, LosEnlaces
<1>2. hilo_storage[w].paso = "contar" /\ a_servidor[AStorage(w)] = <<>>
  BY <1>1, StorageEspera DEF Atento
<1>3. ContarWorker(w)
  BY <1>2 DEF HiloDelStorage, AtenderEnStorage, RecibirSaludoStorage, RechazarCliente, IdentificarWorker,
       RecibirOperacion, Operar, DespedirWorker, EnStorage
<1>4. hilo_storage'[w].paso = "espera"
  BY <1>3, LosEnlaces DEF ContarWorker, PasaStorage, Formas, FormaStorage
<1> QED
  BY <1>2, <1>3, <1>4 DEF ContarWorker, enchufes, Atento, Igual

\* What an answer is.
LEMMA LasRespuestas ==
    ASSUME NEW o, o.op \in Operaciones, NEW r \in Respuestas(o)
    PROVE  /\ r = <<r[1], r[2]>> /\ r # <<>> /\ Head(r) = r[1] /\ Tail(r) = <<r[2]>> /\ <<>> \o r = r
           /\ r[1].tipo = "header" /\ r[2].tipo = "cuerpo"
           /\ \/ r[1].header = "ERROR_OPERACION" /\ r[2].campos # <<>>
              \/ r[1].header = "RESPUESTA_READ_BLOCK" /\ o.op = "READ_BLOCK" /\ r[2].campos # <<>>
              \/ r[1].header = RespuestaDe[o.op] /\ o.op # "READ_BLOCK" /\ r[2].campos = <<>>
<1>1. \E h, cs : /\ r = Paquete(h, cs)
                 /\ \/ h = "ERROR_OPERACION" /\ cs # <<>>
                    \/ h = "RESPUESTA_READ_BLOCK" /\ o.op = "READ_BLOCK" /\ cs # <<>>
                    \/ h = RespuestaDe[o.op] /\ o.op # "READ_BLOCK" /\ cs = <<>>
  <2>1. o.op # "HANDSHAKE_WORKER"
    BY DEF Operaciones, RespuestaDe
  <2>2. r \in {ErrorOperacion("ERROR"),
               IF o.op = "READ_BLOCK" THEN RespuestaRead(Contenido(o.file, o.tag, o.bloque), BlockSize)
               ELSE Paquete(RespuestaDe[o.op], <<>>)}
    BY <2>1, Zenon DEF Respuestas
  <2>3. \A v : <<v>> # <<>>
    OBVIOUS
  <2>4. \A u, v, z : <<u, v, z>> # <<>>
    OBVIOUS
  <2>5. CASE r = ErrorOperacion("ERROR")
    <3>1. r = Paquete("ERROR_OPERACION", <<"ERROR">>) /\ <<"ERROR">> # <<>>
      BY <2>3, <2>5 DEF ErrorOperacion
    <3> WITNESS "ERROR_OPERACION", <<"ERROR">>
    <3> QED
      BY <3>1
  <2>6. CASE o.op = "READ_BLOCK" /\ r = RespuestaRead(Contenido(o.file, o.tag, o.bloque), BlockSize)
    <3> DEFINE cs == <<1, BlockSize, Contenido(o.file, o.tag, o.bloque)>>
    <3>1. r = Paquete("RESPUESTA_READ_BLOCK", cs) /\ cs # <<>>
      BY <2>4, <2>6 DEF RespuestaRead
    <3> HIDE DEF cs
    <3> WITNESS "RESPUESTA_READ_BLOCK", cs
    <3> QED
      BY <2>6, <3>1
  <2>7. CASE o.op # "READ_BLOCK" /\ r = Paquete(RespuestaDe[o.op], <<>>)
    BY <2>7, Zenon
  <2> QED
    BY <2>2, <2>5, <2>6, <2>7, Zenon
<1>2. PICK h, cs : /\ r = Paquete(h, cs)
                   /\ \/ h = "ERROR_OPERACION" /\ cs # <<>>
                      \/ h = "RESPUESTA_READ_BLOCK" /\ o.op = "READ_BLOCK" /\ cs # <<>>
                      \/ h = RespuestaDe[o.op] /\ o.op # "READ_BLOCK" /\ cs = <<>>
  BY <1>1
<1> DEFINE a == PalabraHeader(h)
           b == PalabraCuerpo(cs)
<1>3. r = <<a, b>> /\ a.tipo = "header" /\ a.header = h /\ b.tipo = "cuerpo" /\ b.campos = cs
  BY <1>2 DEF Paquete, PalabraHeader, PalabraCuerpo
<1> HIDE DEF a, b
<1>4. \A u, v : LET q == <<u, v>> IN
        q[1] = u /\ q[2] = v /\ q # <<>> /\ Head(q) = u /\ Tail(q) = <<v>> /\ <<>> \o q = q
  OBVIOUS
<1> QED
  BY <1>2, <1>3, <1>4

\* The Storage takes a request and answers it.
LEMMA StoragePendiente ==
    ASSUME Formas, NEW w \in Workers, "cliente" \notin cerrado[AStorage(w)], HiloDelStorage(w),
           Pendiente(worker[w], a_servidor[AStorage(w)], hilo_storage[w]),
           EsPedido(Head(worker[w].tarea)), Encarga(worker[w], Head(worker[w].tarea))
    PROVE  /\ UNCHANGED cerrado /\ hilo_storage'[w].paso # "fin"
           /\ \/ /\ Pendiente(worker[w], a_servidor'[AStorage(w)], hilo_storage'[w])
                 /\ a_cliente'[AStorage(w)] = a_cliente[AStorage(w)]
              \/ /\ Hecha(worker[w], a_servidor'[AStorage(w)], hilo_storage'[w])
                 /\ \E r : Contesta(worker[w], r) /\ a_cliente'[AStorage(w)] = a_cliente[AStorage(w)] \o r
<1> DEFINE x == worker[w]
           t == AStorage(w)
           h == hilo_storage[w]
           e == Head(x.tarea)
           p == e.paquete
<1>1. /\ p = <<p[1], p[2]>> /\ p # <<>> /\ Head(p) = p[1] /\ Tail(p) = <<p[2]>>
      /\ p[1].tipo = "header" /\ p[1].header \in Operaciones
      /\ p[2].tipo = "cuerpo" /\ p[2].campos # <<>>
      /\ Deserializar(p[1].header, p[2].campos) = Operada(e) /\ Operada(e) # Nula
  BY PedidoEntero
<1>2. h.paso # "fin" /\ t \in Enlaces /\ DOMAIN a_servidor = Enlaces /\ DOMAIN a_cliente = Enlaces
      /\ w \in Conectables /\ FormaStorage
  BY AlcanceStorage, LosEnlaces DEF Formas, FormaEnchufes
<1> HIDE DEF p, e
<1>3. \/ h.paso \in {"contar", "espera"} /\ a_servidor[t] = p
      \/ h.paso = "payload" /\ h.header = p[1].header /\ a_servidor[t] = <<p[2]>>
  BY <1>2 DEF Pendiente, p, e
<1>4. CASE h.paso = "contar" /\ a_servidor[t] = p
  <2>1. ContarWorker(w)
    BY <1>4 DEF HiloDelStorage, AtenderEnStorage, RecibirSaludoStorage, RechazarCliente, IdentificarWorker,
         RecibirOperacion, Operar, DespedirWorker, EnStorage
  <2>2. hilo_storage'[w].paso = "espera"
    BY <1>2, <2>1 DEF ContarWorker, PasaStorage, FormaStorage
  <2> QED
    BY <1>4, <2>1, <2>2 DEF ContarWorker, enchufes, Pendiente, p, e
<1>5. CASE h.paso = "espera" /\ a_servidor[t] = p
  <2>1. RecibirOperacion(w)
    BY <1>5 DEF HiloDelStorage, AtenderEnStorage, RecibirSaludoStorage, RechazarCliente, IdentificarWorker,
         ContarWorker, Operar, DespedirWorker, EnStorage
  <2>2. Header(a_servidor, t) = p[1].header
    BY <1>1, <1>5 DEF Header
  <2>3. hilo_storage'[w].paso = "payload" /\ hilo_storage'[w].header = p[1].header
    BY <1>2, <2>1, <2>2 DEF RecibirOperacion, LeeStorage, FormaStorage
  <2>4. a_servidor' = Resto(a_servidor, t)
    BY <2>1 DEF RecibirOperacion, LeeStorage
  <2>5. a_servidor'[t] = <<p[2]>>
    BY <1>1, <1>2, <1>5, <2>4, AlLeer
  <2> QED
    BY <2>1, <2>3, <2>5 DEF RecibirOperacion, Pendiente, p, e
<1>6. CASE h.paso = "payload" /\ h.header = p[1].header /\ a_servidor[t] = <<p[2]>>
  <2>1. Operar(w)
    BY <1>6 DEF HiloDelStorage, AtenderEnStorage, RecibirSaludoStorage, RechazarCliente, IdentificarWorker,
         ContarWorker, RecibirOperacion, DespedirWorker, EnStorage
  <2>2. <<p[2]>> # <<>> /\ Head(<<p[2]>>) = p[2] /\ Tail(<<p[2]>>) = <<>>
    OBVIOUS
  <2>3. Payload(a_servidor, t) = p[2].campos
    BY <1>1, <1>6, <2>2 DEF Payload
  <2> DEFINE o == Operada(e)
  <2>4. /\ a_servidor' = Resto(a_servidor, t) /\ UNCHANGED cerrado
        /\ hilo_storage' = [hilo_storage EXCEPT ![w].paso = "espera", ![w].operacion = o]
        /\ \E r \in Respuestas(o) : AlCliente(t, r)
    <3> DEFINE c == Payload(a_servidor, t)
               d == IF c = <<>> THEN Nula ELSE Deserializar(hilo_storage[w].header, c)
    <3>1. d = o /\ o # Nula
      BY <1>1, <1>6, <2>3
    <3>2. /\ a_servidor' = Resto(a_servidor, t) /\ UNCHANGED cerrado
          /\ IF d = Nula
             THEN PasaStorage(w, "despedir") /\ UNCHANGED a_cliente
             ELSE /\ hilo_storage' = [hilo_storage EXCEPT ![w].paso = "espera", ![w].operacion = d]
                  /\ \E r \in Respuestas(d) : AlCliente(t, r)
      BY <2>1, Zenon DEF Operar
    <3> HIDE DEF d, o
    <3> QED
      BY <3>1, <3>2
  <2>5. PICK r \in Respuestas(o) : AlCliente(t, r)
    BY <2>4
  <2> HIDE DEF o
  <2>6. hilo_storage'[w].paso = "espera" /\ hilo_storage'[w].operacion = o
    BY <1>2, <2>4 DEF FormaStorage
  <2>7. a_servidor'[t] = <<>>
    <3> DEFINE q == <<p[2]>>
    <3>1. q # <<>> /\ Tail(q) = <<>> /\ a_servidor[t] = q
      BY <1>6, <2>2
    <3> HIDE DEF q
    <3> QED
      BY <1>2, <2>4, <3>1, AlLeer
  <2>8. a_cliente'[t] = a_cliente[t] \o r
    BY <1>2, <2>5, AlEnviar DEF AlCliente
  <2> QED
    BY <2>4, <2>5, <2>6, <2>7, <2>8 DEF Hecha, Contesta, o, e
<1> QED
  BY <1>3, <1>4, <1>5, <1>6

\* The Storage closes the socket when its thread ends.
LEMMA StorageCierra ==
    ASSUME Formas, NEW w \in Workers, HiloDelStorage(w),
           "servidor" \in cerrado[AStorage(w)] <=> hilo_storage[w].paso = "fin"
    PROVE  /\ "servidor" \in cerrado'[AStorage(w)] <=> hilo_storage'[w].paso = "fin"
           /\ "cliente" \in cerrado'[AStorage(w)] <=> "cliente" \in cerrado[AStorage(w)]
<1>1. hilo_storage[w].paso # "fin" /\ AStorage(w) \in Enlaces /\ w \in Conectables /\ FormaStorage /\ FormaEnchufes
  BY AlcanceStorage, LosEnlaces DEF Formas
<1>2. CASE RechazarCliente(w) \/ DespedirWorker(w)
  <2>1. Cerrar({AStorage(w)}, "servidor") /\ PasaStorage(w, "fin")
    BY <1>2 DEF RechazarCliente, DespedirWorker
  <2>2. cerrado'[AStorage(w)] = cerrado[AStorage(w)] \union {"servidor"}
    BY <1>1, <2>1, AlCerrar
  <2>3. hilo_storage'[w].paso = "fin"
    BY <1>1, <2>1 DEF PasaStorage, FormaStorage
  <2> QED
    BY <2>2, <2>3
<1>3. CASE RecibirSaludoStorage(w) \/ IdentificarWorker(w) \/ ContarWorker(w) \/ RecibirOperacion(w) \/ Operar(w)
  <2>1. UNCHANGED cerrado
    BY <1>3 DEF RecibirSaludoStorage, IdentificarWorker, ContarWorker, RecibirOperacion, Operar, enchufes
  <2>2. hilo_storage'[w].paso # "fin"
    BY <1>1, <1>3
       DEF RecibirSaludoStorage, IdentificarWorker, ContarWorker, RecibirOperacion, Operar, LeeStorage,
           PasaStorage, FormaStorage
  <2> QED
    BY <1>1, <2>1, <2>2
<1> QED
  BY <1>2, <1>3 DEF HiloDelStorage, AtenderEnStorage

\* It greets the Worker.
LEMMA StorageSaluda ==
    ASSUME Formas, NEW w \in Workers, HiloDelStorage(w), worker[w].paso = "ok_storage",
           "cliente" \notin cerrado[AStorage(w)],
           Sesion(worker[w], a_servidor[AStorage(w)], a_cliente[AStorage(w)], hilo_storage[w])
    PROVE  Sesion(worker[w], a_servidor'[AStorage(w)], a_cliente'[AStorage(w)], hilo_storage'[w])
<1> DEFINE x == worker[w]
           t == AStorage(w)
           h == hilo_storage[w]
           a == PalabraHeader("HANDSHAKE_WORKER")
           b == PalabraCuerpo(<<x.id>>)
<1>1. h.paso # "fin" /\ t \in Enlaces /\ DOMAIN a_servidor = Enlaces /\ DOMAIN a_cliente = Enlaces
      /\ w \in Conectables /\ FormaStorage
  BY AlcanceStorage, LosEnlaces DEF Formas, FormaEnchufes
<1>2. \/ a_cliente[t] = <<>> /\ h.paso = "saludo" /\ a_servidor[t] = <<a, b>>
      \/ a_cliente[t] = <<>> /\ h.paso = "identificar" /\ h.header = "HANDSHAKE_WORKER" /\ a_servidor[t] = <<b>>
      \/ a_cliente[t] = RespuestaHandshakeStorage(BlockSize) /\ Atento(a_servidor[t], h)
  BY <1>1 DEF Sesion, HandshakeWorker, Paquete
<1>3. a.tipo = "header" /\ a.header = "HANDSHAKE_WORKER" /\ b.tipo = "cuerpo"
  BY DEF PalabraHeader, PalabraCuerpo
<1> HIDE DEF a, b
<1>4. <<a, b>> # <<>> /\ Head(<<a, b>>) = a /\ Tail(<<a, b>>) = <<b>> /\ <<b>> # <<>> /\ Tail(<<b>>) = <<>>
  OBVIOUS
<1>5. CASE a_cliente[t] = <<>> /\ h.paso = "saludo" /\ a_servidor[t] = <<a, b>>
  <2>1. RecibirSaludoStorage(w)
    BY <1>5 DEF HiloDelStorage, AtenderEnStorage, RechazarCliente, IdentificarWorker, ContarWorker,
         RecibirOperacion, Operar, DespedirWorker, EnStorage
  <2>2. a_servidor' = Resto(a_servidor, t) /\ UNCHANGED a_cliente
    BY <2>1 DEF RecibirSaludoStorage, LeeStorage
  <2>3. Header(a_servidor, t) = "HANDSHAKE_WORKER"
    BY <1>3, <1>4, <1>5 DEF Header
  <2>4. hilo_storage'[w].paso = "identificar" /\ hilo_storage'[w].header = "HANDSHAKE_WORKER"
    BY <1>1, <2>1, <2>3 DEF RecibirSaludoStorage, LeeStorage, FormaStorage
  <2>5. a_servidor'[t] = <<b>>
    <3> DEFINE q == <<a, b>>
    <3>1. q # <<>> /\ Tail(q) = <<b>> /\ a_servidor[t] = q
      BY <1>4, <1>5
    <3> HIDE DEF q
    <3> QED
      BY <1>1, <2>2, <3>1, AlLeer
  <2> QED
    BY <1>5, <2>2, <2>4, <2>5 DEF Sesion, b
<1>6. CASE a_cliente[t] = <<>> /\ h.paso = "identificar" /\ h.header = "HANDSHAKE_WORKER" /\ a_servidor[t] = <<b>>
  <2> DEFINE r == RespuestaHandshakeStorage(BlockSize)
  <2>1. IdentificarWorker(w)
    BY <1>6 DEF HiloDelStorage, AtenderEnStorage, RechazarCliente, RecibirSaludoStorage, ContarWorker,
         RecibirOperacion, Operar, DespedirWorker, EnStorage
  <2>2. a_servidor' = Resto(a_servidor, t) /\ AlCliente(t, r)
    BY <2>1 DEF IdentificarWorker
  <2>3. hilo_storage'[w].paso = "contar"
    BY <1>1, <2>1 DEF IdentificarWorker, FormaStorage
  <2>4. a_servidor'[t] = <<>>
    <3> DEFINE q == <<b>>
    <3>1. q # <<>> /\ Tail(q) = <<>> /\ a_servidor[t] = q
      BY <1>4, <1>6
    <3> HIDE DEF q
    <3> QED
      BY <1>1, <2>2, <3>1, AlLeer
  <2>5. a_cliente'[t] = r
    <3>1. <<>> \o r = r
      BY DEF RespuestaHandshakeStorage, Paquete
    <3> HIDE DEF r
    <3>2. a_cliente'[t] = a_cliente[t] \o r
      BY <1>1, <2>2, AlEnviar DEF AlCliente
    <3> QED
      BY <1>6, <3>1, <3>2
  <2> QED
    BY <2>3, <2>4, <2>5 DEF Sesion, Atento
<1>7. CASE a_cliente[t] = RespuestaHandshakeStorage(BlockSize) /\ Atento(a_servidor[t], h)
  BY <1>7, StorageAtento DEF Sesion, Igual
<1> QED
  BY <1>2, <1>5, <1>6, <1>7

LEMMA TresPalabras == ASSUME NEW u, NEW v, NEW z PROVE <<u>> \o <<v, z>> = <<u, v, z>>
<1> DEFINE S == {u, v, z}
           a == <<u>>
           b == <<v, z>>
           c == <<u, v, z>>
           r == a \o b
<1>1. a \in Seq(S) /\ b \in Seq(S) /\ c \in Seq(S) /\ Len(a) = 1 /\ Len(b) = 2 /\ Len(c) = 3
  OBVIOUS
<1>2. a[1] = u /\ b[1] = v /\ b[2] = z /\ c[1] = u /\ c[2] = v /\ c[3] = z
  OBVIOUS
<1> HIDE DEF a, b, c, S
<1>3. r \in Seq(S) /\ Len(r) = 3 /\ \A i \in 1 .. 3 : r[i] = IF i <= 1 THEN a[i] ELSE b[i - 1]
  <2>1. /\ r \in Seq(S) /\ Len(r) = Len(a) + Len(b)
        /\ \A i \in 1 .. Len(a) + Len(b) : r[i] = IF i <= Len(a) THEN a[i] ELSE b[i - Len(a)]
    BY <1>1, ConcatProperties, Zenon
  <2> HIDE DEF r
  <2> QED
    BY <1>1, <2>1
<1> HIDE DEF r
<1>4. \A i \in 1 .. 3 : r[i] = c[i]
  <2>1. r[1] = u /\ r[2] = v /\ r[3] = z
    BY <1>2, <1>3
  <2> QED
    BY <1>2, <2>1
<1>5. r = c
  BY <1>1, <1>3, <1>4, SeqEqual
<1> QED
  BY <1>5 DEF r, a, b, c

\* What it does while the Worker waits for an answer.
LEMMA StorageConversa ==
    ASSUME Formas, NEW w \in Workers, HiloDelStorage(w), "cliente" \notin cerrado[AStorage(w)],
           Trabajo(worker[w]), worker[w].tarea \in Seq(ToSet(worker[w].tarea)),
           Conversa(worker[w], a_servidor[AStorage(w)], a_cliente[AStorage(w)], hilo_storage[w])
    PROVE  Conversa(worker[w], a_servidor'[AStorage(w)], a_cliente'[AStorage(w)], hilo_storage'[w])
<1> DEFINE x == worker[w]
           t == AStorage(w)
           s == a_servidor[t]
           c == a_cliente[t]
           h == hilo_storage[w]
<1>1. h.paso # "fin"
  BY AlcanceStorage, LosEnlaces
<1>2. ~Hecha(x, s, h)
  BY <1>1, StorageEspera DEF Hecha
<1>3. x.ejecuta \in {"respuesta", "cuerpo"} => EsPedido(Head(x.tarea)) /\ Encarga(x, Head(x.tarea))
  <2> SUFFICES ASSUME x.ejecuta \in {"respuesta", "cuerpo"} PROVE EsPedido(Head(x.tarea)) /\ Encarga(x, Head(x.tarea))
    OBVIOUS
  <2>1. x.tarea # <<>> /\ EsPedido(Head(x.tarea))
    BY DEF Trabajo, Ubicado, EnInstruccion
  <2>2. 1 \in 1 .. Len(x.tarea) /\ Head(x.tarea) = x.tarea[1]
    BY <2>1, Cola
  <2> QED
    BY <2>1, <2>2 DEF Trabajo, Encargado, EnInstruccion
<1>4. CASE x.ejecuta \in {"libre", "linea", "instruccion", "contenido"}
  BY <1>4, StorageAtento DEF Conversa, Igual
<1>5. CASE x.ejecuta = "respuesta"
  <2>1. Pendiente(x, s, h) /\ (c = <<>> \/ Viejo(c))
    BY <1>2, <1>5 DEF Conversa, ConversaRespuesta
  <2>2. CASE Pendiente(x, a_servidor'[t], hilo_storage'[w]) /\ a_cliente'[t] = c
    BY <1>5, <2>1, <2>2 DEF Conversa, ConversaRespuesta
  <2>3. CASE Hecha(x, a_servidor'[t], hilo_storage'[w]) /\ \E r : Contesta(x, r) /\ a_cliente'[t] = c \o r
    <3>1. PICK r : Contesta(x, r) /\ a_cliente'[t] = c \o r
      BY <2>3
    <3>2. Operada(Head(x.tarea)).op \in Operaciones
      BY <1>3, <1>5, PedidoEntero
    <3>3. r = <<r[1], r[2]>> /\ <<>> \o r = r
      BY <3>1, <3>2, LasRespuestas DEF Contesta
    <3>4. CASE c = <<>>
      BY <1>5, <2>3, <3>1, <3>3, <3>4 DEF Conversa, ConversaRespuesta
    <3>5. CASE Viejo(c)
      <4>1. c = <<c[1]>>
        BY <3>5 DEF Viejo
      <4>2. \A u, v, z : LET q == <<u>> \o <<v, z>> IN q # <<>> /\ Head(q) = u /\ Tail(q) = <<v, z>>
        <5> SUFFICES ASSUME NEW u, NEW v, NEW z
                     PROVE LET q == <<u>> \o <<v, z>> IN q # <<>> /\ Head(q) = u /\ Tail(q) = <<v, z>>
          OBVIOUS
        <5>1. <<u>> \o <<v, z>> = <<u, v, z>>
          BY TresPalabras
        <5>2. <<u, v, z>> # <<>> /\ Head(<<u, v, z>>) = u /\ Tail(<<u, v, z>>) = <<v, z>>
          OBVIOUS
        <5> QED
          BY <5>1, <5>2, Zenon
      <4>3. LET q == c \o r IN q # <<>> /\ Head(q) = c[1] /\ Tail(q) = r
        <5> DEFINE u == c[1]
                   v == r[1]
                   z == r[2]
        <5>1. c = <<u>> /\ r = <<v, z>>
          BY <3>3, <4>1
        <5> HIDE DEF u, v, z, c
        <5>2. LET q == <<u>> \o <<v, z>> IN q # <<>> /\ Head(q) = u /\ Tail(q) = <<v, z>>
          BY <4>2
        <5> QED
          BY <5>1, <5>2, Zenon DEF u
      <4> QED
        BY <1>5, <2>3, <3>1, <3>5, <4>1, <4>3 DEF Conversa, ConversaRespuesta
    <3> QED
      BY <2>1, <3>4, <3>5
  <2> QED
    BY <1>3, <1>5, <2>1, <2>2, <2>3, StoragePendiente
<1>6. CASE x.ejecuta = "cuerpo"
  <2>1. ~Seguro /\ x.leido = "basura" /\ Pendiente(x, s, h) /\ c = <<>>
    BY <1>1, <1>2, <1>6 DEF Conversa, ConversaCuerpo
  <2>2. CASE Pendiente(x, a_servidor'[t], hilo_storage'[w]) /\ a_cliente'[t] = c
    BY <1>6, <2>1, <2>2 DEF Conversa, ConversaCuerpo
  <2>3. CASE Hecha(x, a_servidor'[t], hilo_storage'[w]) /\ \E r : Contesta(x, r) /\ a_cliente'[t] = c \o r
    <3>1. PICK r : Contesta(x, r) /\ a_cliente'[t] = c \o r
      BY <2>3
    <3>2. Operada(Head(x.tarea)).op \in Operaciones
      BY <1>3, <1>6, PedidoEntero
    <3>3. <<>> \o r = r
      BY <3>1, <3>2, LasRespuestas DEF Contesta
    <3> QED
      BY <1>6, <2>1, <2>3, <3>1, <3>3 DEF Conversa, ConversaCuerpo
  <2> QED
    BY <1>3, <1>6, <2>1, <2>2, <2>3, StoragePendiente
<1>7. CASE x.ejecuta = "semaforo"
  BY <1>1, <1>2, <1>7 DEF Conversa, ConversaSemaforo
<1> QED
  BY <1>4, <1>5, <1>6, <1>7 DEF Conversa

LEMMA SesionStorage ==
    ASSUME Formas, Cauces, NEW w \in Workers, HiloDelStorage(w), SesionDe(w) PROVE SesionDe(w)'
<1> DEFINE x == worker[w]
           t == AStorage(w)
           h == hilo_storage[w]
<1>1. /\ Trabajo(x) /\ Sesion(x, a_servidor[t], a_cliente[t], h)
      /\ "servidor" \in cerrado[t] <=> h.paso = "fin"
      /\ Vivo(x) => "cliente" \notin cerrado[t]
  BY DEF SesionDe
<1>2. UNCHANGED worker /\ h.paso \notin {"sin_conectar", "fin"}
  BY AlcanceStorage, LosEnlaces
<1>3. x.tarea \in Seq(ToSet(x.tarea))
  BY DEF Cauces, Encargos
<1>4. Sesion(x, a_servidor'[t], a_cliente'[t], hilo_storage'[w])
  <2>1. CASE ~Vivo(x)
    BY <1>1, <2>1 DEF Vivo, Sesion
  <2>2. CASE Vivo(x) /\ x.paso \in {"inicio", "storage"}
    <3>1. h.paso = "saludo" /\ a_servidor[t] = <<>>
      BY <1>1, <1>2, <2>2 DEF Sesion
    <3> QED
      BY <1>1, <2>2, <3>1, StorageEspera
  <2>3. CASE Vivo(x) /\ x.paso = "ok_storage"
    BY <1>1, <2>3, StorageSaluda
  <2>4. CASE Vivo(x) /\ x.paso = "bloque"
    BY <1>1, <2>4, StorageAtento DEF Sesion, Igual
  <2>5. CASE Vivo(x) /\ x.paso \in {"conectar_master", "master", "ok_master", "payload_ok", "escucha", "payload"}
    BY <1>1, <1>3, <2>5, StorageConversa DEF Sesion
  <2> QED
    BY <1>1, <2>1, <2>2, <2>3, <2>4, <2>5 DEF Sesion, Vivo
<1> QED
  BY <1>1, <1>2, <1>4, StorageCierra DEF SesionDe

\* The main thread and the listener leave what the query has to do as it is.
LEMMA TrabajoIgual ==
    ASSUME NEW x, NEW y, Trabajo(x), DeLaQuery(y) = DeLaQuery(x) PROVE Trabajo(y)
<1>1. /\ y.ejecuta = x.ejecuta /\ y.query = x.query /\ y.archivo = x.archivo /\ y.pc = x.pc /\ y.tarea = x.tarea
      /\ y.paginas = x.paginas /\ y.query_en_ejecucion = x.query_en_ejecucion
  BY DEF DeLaQuery
<1>2. Linea(y) = Linea(x)
  BY <1>1 DEF Linea
<1>3. \A e : Encarga(x, e) => Encarga(y, e)
  BY <1>1, EncargaIgual
<1>4. Ubicado(y)
  BY <1>1 DEF Trabajo, Ubicado
<1>5. Encargado(y)
  BY <1>1, <1>2, <1>3 DEF Trabajo, Encargado
<1>6. Detenido(y)
  BY <1>1 DEF Trabajo, Detenido
<1> QED
  BY <1>4, <1>5, <1>6 DEF Trabajo

\* So is the conversation.
LEMMA ConversaIgual ==
    ASSUME NEW x, NEW y, DeLaQuery(y) = DeLaQuery(x), NEW s, NEW c, NEW h, Conversa(x, s, c, h)
    PROVE  Conversa(y, s, c, h)
<1>1. /\ y.ejecuta = x.ejecuta /\ y.tarea = x.tarea /\ y.leido = x.leido
      /\ y.sem_respuesta_storage = x.sem_respuesta_storage /\ y.query_en_ejecucion = x.query_en_ejecucion
  BY DEF DeLaQuery
<1>2. /\ Pendiente(y, s, h) <=> Pendiente(x, s, h)
      /\ Hecha(y, s, h) <=> Hecha(x, s, h)
      /\ \A r : Contesta(y, r) <=> Contesta(x, r)
  BY <1>1 DEF Pendiente, Hecha, Contesta
<1>3. ConversaRespuesta(x, s, c, h) => ConversaRespuesta(y, s, c, h)
  BY <1>2 DEF ConversaRespuesta
<1>4. ConversaCuerpo(x, s, c, h) => ConversaCuerpo(y, s, c, h)
  BY <1>1, <1>2 DEF ConversaCuerpo
<1>5. ConversaSemaforo(x, s, c, h) => ConversaSemaforo(y, s, c, h)
  BY <1>1, <1>2 DEF ConversaSemaforo
<1> QED
  BY <1>1, <1>3, <1>4, <1>5 DEF Conversa

Conectado == {"conectar_master", "master", "ok_master", "payload_ok", "escucha", "payload"}

\* It leaves: it had no query.
LEMMA SesionRechazado ==
    ASSUME Formas, Cauces, NEW w \in Workers, SesionDe(w), Rechazado(w), worker[w].ejecuta = "libre",
           UNCHANGED hilo_storage
    PROVE  SesionDe(w)'
<1>1. worker'[w].paso = "rechazado" /\ DeLaQuery(worker'[w]) = DeLaQuery(worker[w])
  BY DEF Rechazado, DeLaQuery, Formas, FormaWorker, CamposWorker
<1>2. "servidor" \in cerrado'[AStorage(w)] <=> "servidor" \in cerrado[AStorage(w)]
  <2> DEFINE e == AStorage(w)
             cs == {AMaster(w), e}
  <2>1. Cerrar(cs, "cliente") /\ FormaEnchufes /\ e \in Enlaces
    BY LosEnlaces DEF Rechazado, Formas
  <2> HIDE DEF cs
  <2>2. cerrado'[e] = cerrado[e] \/ cerrado'[e] = cerrado[e] \union {"cliente"}
    BY <2>1, AlCerrar
  <2> QED
    BY <2>2
<1>3. Trabajo(worker'[w]) /\ worker'[w].ejecuta = "libre"
  BY <1>1, TrabajoIgual DEF SesionDe, DeLaQuery
<1> QED
  BY <1>1, <1>2, <1>3 DEF SesionDe, Sesion, Vivo

\* The packets of the start, the one it sends and the one it is sent.
LEMMA SesionArrancar ==
    ASSUME Formas, Cauces, NEW w \in Workers, SesionDe(w),
           SaludarStorage(w) \/ RecibirOkStorage(w) \/ RecibirTamanioBloque(w), UNCHANGED hilo_storage
    PROVE  SesionDe(w)'
<1> DEFINE x == worker[w]
           t == AStorage(w)
           h == hilo_storage[w]
<1>1. /\ Trabajo(x) /\ Sesion(x, a_servidor[t], a_cliente[t], h)
      /\ "servidor" \in cerrado[t] <=> h.paso = "fin"
      /\ Vivo(x) => "cliente" \notin cerrado[t]
  BY DEF SesionDe
<1>2. t \in Enlaces /\ DOMAIN a_servidor = Enlaces /\ DOMAIN a_cliente = Enlaces /\ FormaWorker
  BY LosEnlaces DEF Formas, FormaEnchufes
<1>3. x.ejecuta = "libre"
  BY DEF Cauces, Ordenes, SaludarStorage, RecibirOkStorage, RecibirTamanioBloque, EnWorker
<1> DEFINE b == PalabraCuerpo(<<BlockSize>>)
<1>4. \A u : <<b>> # <<>> /\ Head(<<u>>) = u /\ Tail(<<u>>) = <<>>
  OBVIOUS
<1>5. CASE SaludarStorage(w)
  <2> DEFINE p == HandshakeWorker(x.id)
  <2>1. x.paso = "storage" /\ h.paso \in {"saludo", "fin"} /\ a_servidor[t] = <<>> /\ a_cliente[t] = <<>>
    BY <1>1, <1>5 DEF SaludarStorage, EnWorker, Sesion
  <2>2. worker'[w] = [x EXCEPT !.paso = "ok_storage"]
    BY <1>2, <1>5 DEF SaludarStorage, FormaWorker
  <2>3. worker'[w].paso = "ok_storage" /\ worker'[w].id = x.id /\ DeLaQuery(worker'[w]) = DeLaQuery(x)
    BY <1>2, <2>2 DEF FormaWorker, CamposWorker, DeLaQuery
  <2>4. <<>> \o p = p
    BY DEF HandshakeWorker, Paquete
  <2> HIDE DEF p
  <2>5. h.paso = "fin" \/ a_servidor'[t] = p
    <3>1. AlServidor(t, p)
      BY <1>5 DEF SaludarStorage, p
    <3>2. "servidor" \notin cerrado[t] => a_servidor'[t] = a_servidor[t] \o p
      BY <1>2, <3>1, AlEnviar DEF AlServidor
    <3> QED
      BY <1>1, <2>1, <2>4, <3>2
  <2>6. UNCHANGED <<a_cliente, cerrado>>
    BY <1>5 DEF SaludarStorage
  <2>7. Sesion(worker'[w], a_servidor'[t], a_cliente'[t], hilo_storage'[w])
    BY <2>1, <2>3, <2>5, <2>6 DEF Sesion, p
  <2>8. Trabajo(worker'[w])
    BY <1>1, <2>3, TrabajoIgual
  <2> QED
    BY <1>1, <2>1, <2>3, <2>6, <2>7, <2>8 DEF SesionDe, Vivo
<1>6. CASE RecibirOkStorage(w)
  <2> DEFINE r == RespuestaHandshakeStorage(BlockSize)
  <2>1. x.paso = "ok_storage" /\ a_cliente' = Resto(a_cliente, t) /\ UNCHANGED a_servidor
    BY <1>6 DEF RecibirOkStorage, EnWorker
  <2>2. r # <<>> /\ Head(r).tipo = "header" /\ Head(r).header = "HANDSHAKE_OK" /\ Tail(r) = <<b>>
    BY DEF RespuestaHandshakeStorage, Paquete, PalabraHeader
  <2> HIDE DEF r, b
  <2>3. CASE a_cliente[t] = <<>>
    <3>1. Header(a_cliente, t) = "error"
      BY <2>3 DEF Header
    <3>2. Rechazado(w)
      BY <1>6, <3>1 DEF RecibirOkStorage
    <3> QED
      BY <1>3, <3>2, SesionRechazado
  <2>4. CASE a_cliente[t] = r /\ Atento(a_servidor[t], h)
    <3>1. Header(a_cliente, t) = "HANDSHAKE_OK"
      BY <2>2, <2>4 DEF Header
    <3>2. worker' = [worker EXCEPT ![w].paso = "bloque"] /\ UNCHANGED cerrado
      BY <1>6, <3>1 DEF RecibirOkStorage
    <3>3. worker'[w].paso = "bloque" /\ DeLaQuery(worker'[w]) = DeLaQuery(x)
      BY <1>2, <3>2 DEF FormaWorker, CamposWorker, DeLaQuery
    <3>4. a_cliente'[t] = <<b>>
      BY <1>2, <2>1, <2>2, <2>4, AlLeer
    <3>5. Sesion(worker'[w], a_servidor'[t], a_cliente'[t], hilo_storage'[w])
      BY <2>1, <2>4, <3>3, <3>4 DEF Sesion, b
    <3> QED
      BY <1>1, <2>1, <3>2, <3>3, <3>5, TrabajoIgual DEF SesionDe, Vivo
  <2> QED
    BY <1>1, <2>1, <2>3, <2>4 DEF Sesion, r
<1>7. CASE RecibirTamanioBloque(w)
  <2>1. x.paso = "bloque" /\ a_cliente' = Resto(a_cliente, t) /\ UNCHANGED <<a_servidor, cerrado>>
    BY <1>7 DEF RecibirTamanioBloque, EnWorker
  <2>2. a_cliente[t] = <<b>> /\ Atento(a_servidor[t], h)
    BY <1>1, <2>1 DEF Sesion
  <2>3. b.tipo = "cuerpo" /\ b.campos = <<BlockSize>> /\ <<BlockSize>>[1] = BlockSize
    BY DEF PalabraCuerpo
  <2> HIDE DEF b
  <2> DEFINE q == <<b>>
  <2>4. q # <<>> /\ Head(q) = b /\ Tail(q) = <<>> /\ a_cliente[t] = q
    BY <1>4, <2>2
  <2> HIDE DEF q
  <2>5. Payload(a_cliente, t) = <<BlockSize>>
    BY <2>3, <2>4 DEF Payload
  <2>6. a_cliente'[t] = <<>>
    BY <1>2, <2>1, <2>4, AlLeer
  <2>7. worker' = [worker EXCEPT ![w].paso = "conectar_master", ![w].tamanio_bloque = BlockSize]
    BY <1>7, <2>3, <2>5 DEF RecibirTamanioBloque
  <2>8. /\ worker'[w].paso = "conectar_master" /\ worker'[w].tamanio_bloque = BlockSize
        /\ DeLaQuery(worker'[w]) = DeLaQuery(x) /\ worker'[w].ejecuta = "libre"
    BY <1>2, <1>3, <2>7 DEF FormaWorker, CamposWorker, DeLaQuery
  <2>9. Sesion(worker'[w], a_servidor'[t], a_cliente'[t], hilo_storage'[w])
    BY <2>1, <2>2, <2>6, <2>8 DEF Sesion, Conversa
  <2> QED
    BY <1>1, <2>1, <2>8, <2>9, TrabajoIgual DEF SesionDe, Vivo
<1> QED
  BY <1>5, <1>6, <1>7

\* What happens between a Worker and the Master is of no matter to the Storage.
LEMMA SesionPrincipal ==
    ASSUME Formas, Cauces, NEW w \in Workers, SesionDe(w), Principal(w) \/ Listener(w)
    PROVE  SesionDe(w)'
<1> DEFINE x == worker[w]
           y == worker'[w]
           t == AStorage(w)
           h == hilo_storage[w]
<1>1. /\ Trabajo(x) /\ Sesion(x, a_servidor[t], a_cliente[t], h)
      /\ "servidor" \in cerrado[t] <=> h.paso = "fin"
      /\ Vivo(x) => "cliente" \notin cerrado[t]
  BY DEF SesionDe
<1>2. t \in Enlaces /\ t # AMaster(w) /\ w \in Conectables /\ FormaWorker /\ FormaStorage /\ FormaEnchufes
  BY LosEnlaces DEF Formas
<1>3. DeLaQuery(y) = DeLaQuery(x) /\ Trabajo(y)
  BY <1>1, AlcancePrincipal, TrabajoIgual
<1>4. CASE ConectarWorkerAStorage(w)
  <2>1. x.paso = "inicio" /\ x.ejecuta = "libre"
    BY <1>4 DEF ConectarWorkerAStorage, EnWorker, Cauces, Ordenes
  <2>2. CASE "storage" \in caidos
    <3>1. Rechazado(w) /\ UNCHANGED hilo_storage
      BY <1>4, <2>2 DEF ConectarWorkerAStorage
    <3> QED
      BY <2>1, <3>1, SesionRechazado
  <2>3. CASE "storage" \notin caidos
    <3>1. /\ worker' = [worker EXCEPT ![w].paso = "storage"]
          /\ hilo_storage' = Acepta(hilo_storage, w) /\ UNCHANGED enchufes
      BY <1>4, <2>3 DEF ConectarWorkerAStorage
    <3>2. y.paso = "storage" /\ hilo_storage'[w].paso = "saludo"
      BY <1>2, <3>1 DEF FormaWorker, CamposWorker, FormaStorage, Acepta
    <3>3. h.paso = "sin_conectar" /\ a_servidor[t] = <<>> /\ a_cliente[t] = <<>>
      BY <1>1, <2>1 DEF Sesion
    <3>4. UNCHANGED <<a_servidor, a_cliente, cerrado>>
      BY <3>1 DEF enchufes
    <3>5. Sesion(y, a_servidor'[t], a_cliente'[t], hilo_storage'[w])
      BY <3>2, <3>3, <3>4 DEF Sesion
    <3> QED
      BY <1>1, <1>3, <2>1, <3>2, <3>3, <3>4, <3>5 DEF SesionDe, Vivo
  <2> QED
    BY <2>2, <2>3
<1>5. CASE SaludarStorage(w) \/ RecibirOkStorage(w) \/ RecibirTamanioBloque(w)
  <2>1. UNCHANGED hilo_storage
    BY <1>5, AlcanceWorker DEF ConectarWorkerAStorage, SaludarStorage, RecibirOkStorage, RecibirTamanioBloque, EnWorker
  <2> QED
    BY <1>5, <2>1, SesionArrancar
<1>6. CASE Rechazado(w) /\ UNCHANGED hilo_storage /\ x.ejecuta = "libre"
  BY <1>6, SesionRechazado
<1>7. CASE /\ ConectarWorkerAMaster(w) \/ SaludarMaster(w) \/ RecibirOkMaster(w) \/ RecibirPayloadOk(w) \/ Listener(w)
           /\ ~Rechazado(w)
  <2>1. x.paso \in Conectado /\ y.paso \in Conectado /\ y.tamanio_bloque = x.tamanio_bloque
    BY <1>2, <1>7
       DEF ConectarWorkerAMaster, SaludarMaster, RecibirOkMaster, RecibirPayloadOk, Listener, Oir,
           EscucharMaster, AtenderMaster, EnWorker, FormaWorker, CamposWorker, Conectado
  <2>2. UNCHANGED hilo_storage
    BY <2>1, AlcanceWorker DEF ConectarWorkerAStorage, EnWorker, Conectado
  <2>3. UNCHANGED cerrado
    BY <1>7
       DEF ConectarWorkerAMaster, SaludarMaster, RecibirOkMaster, RecibirPayloadOk, Listener, Oir,
           EscucharMaster, AtenderMaster, enchufes
  <2>4. a_cliente'[t] = a_cliente[t]
    <3>1. UNCHANGED a_cliente \/ a_cliente' = Resto(a_cliente, AMaster(w))
      BY <1>7
         DEF ConectarWorkerAMaster, SaludarMaster, RecibirOkMaster, RecibirPayloadOk, Listener, Oir,
             EscucharMaster, AtenderMaster, enchufes
    <3> QED
      BY <1>2, <3>1 DEF Resto, FormaEnchufes
  <2>5. a_servidor'[t] = a_servidor[t]
    <3>1. UNCHANGED a_servidor \/ AlServidor(AMaster(w), HandshakeWorker(x.id))
      BY <1>7
         DEF ConectarWorkerAMaster, SaludarMaster, RecibirOkMaster, RecibirPayloadOk, Listener, Oir,
             EscucharMaster, AtenderMaster, enchufes
    <3> QED
      BY <1>2, <3>1 DEF AlServidor, Enviado, FormaEnchufes
  <2>6. x.tamanio_bloque = BlockSize /\ Conversa(x, a_servidor[t], a_cliente[t], h)
    BY <1>1, <2>1 DEF Sesion, Conectado
  <2>7. Conversa(y, a_servidor[t], a_cliente[t], h)
    BY <1>3, <2>6, ConversaIgual
  <2>8. Sesion(y, a_servidor'[t], a_cliente'[t], hilo_storage'[w])
    BY <2>1, <2>2, <2>4, <2>5, <2>6, <2>7 DEF Sesion, Conectado
  <2> QED
    BY <1>1, <1>3, <2>1, <2>2, <2>3, <2>8 DEF SesionDe, Vivo, Conectado
<1>8. ASSUME ConectarWorkerAMaster(w) \/ RecibirOkMaster(w), Rechazado(w)
      PROVE  UNCHANGED hilo_storage /\ x.ejecuta = "libre"
  <2>1. x.ejecuta = "libre"
    BY <1>8 DEF ConectarWorkerAMaster, RecibirOkMaster, EnWorker, Cauces, Ordenes
  <2>2. UNCHANGED hilo_storage
    BY <1>8, AlcanceWorker DEF ConectarWorkerAStorage, ConectarWorkerAMaster, RecibirOkMaster, EnWorker
  <2> QED
    BY <2>1, <2>2
<1>9. SaludarMaster(w) \/ RecibirPayloadOk(w) \/ Listener(w) => ~Rechazado(w)
  BY <1>2
     DEF SaludarMaster, RecibirPayloadOk, Listener, Oir, EscucharMaster, AtenderMaster, Rechazado, FormaWorker,
         CamposWorker
<1> QED
  BY <1>4, <1>5, <1>6, <1>7, <1>8, <1>9 DEF Principal, Arrancar

\* What the query thread does on its own, without the Storage.
ASolas(w) ==
    Comenzar(w) \/ TomarLinea(w) \/ AccederPagina(w) \/ TerminarInstruccion(w) \/ Informar(w)

LEMMA ConversaASolas ==
    ASSUME Formas, NEW w \in Workers, ASolas(w), NEW s, NEW c, NEW h, Conversa(worker[w], s, c, h)
    PROVE  Conversa(worker'[w], s, c, h)
<1> DEFINE x == worker[w]
           y == worker'[w]
           Propio == {"libre", "linea", "instruccion"}
<1> USE DEF Formas, FormaWorker, CamposWorker
<1>1. x.ejecuta \in Propio /\ y.ejecuta \in Propio
  <2>1. CASE Comenzar(w)
    BY <2>1 DEF Comenzar, Ejecuta
  <2>2. CASE TomarLinea(w)
    <3>1. x.ejecuta = "linea"
      BY <2>2 DEF TomarLinea, Ejecuta
    <3>2. CASE x.pc = Len(Lineas(w))
      BY <2>2, <3>1, <3>2 DEF TomarLinea
    <3>3. CASE x.pc # Len(Lineas(w))
      <4> DEFINE i == Instruccion(w)
                 P == IF i.tipo \in {"READ", "WRITE"} THEN Paginas(w, i) ELSE <<>>
      <4>1. \E t \in Tareas(w, i) :
                worker' = [worker EXCEPT ![w].ejecuta = "instruccion", ![w].tarea = t, ![w].paginas = P]
        BY <2>2, <3>3, AlTomarLinea
      <4> HIDE DEF P, i
      <4> QED
        BY <3>1, <4>1
    <3> QED
      BY <3>2, <3>3
  <2>3. CASE AccederPagina(w)
    BY <2>3 DEF AccederPagina, Ejecuta
  <2>4. CASE TerminarInstruccion(w)
    BY <2>4 DEF TerminarInstruccion, Ejecuta
  <2>5. CASE Informar(w)
    BY <2>5 DEF Informar, Toca, Ejecuta
  <2> QED
    BY <2>1, <2>2, <2>3, <2>4, <2>5 DEF ASolas
<1> HIDE DEF x, y
<1> QED
  BY <1>1 DEF Conversa, x, y

\* It sends a request.
LEMMA ConversaPedir ==
    ASSUME Formas, Cauces, NEW w \in Workers, Pedir(w), SesionDe(w),
           Conversa(worker[w], a_servidor[AStorage(w)], a_cliente[AStorage(w)], hilo_storage[w])
    PROVE  Conversa(worker'[w], a_servidor'[AStorage(w)], a_cliente'[AStorage(w)], hilo_storage[w])
<1> DEFINE x == worker[w]
           y == worker'[w]
           t == AStorage(w)
           h == hilo_storage[w]
           e == Head(x.tarea)
           p == e.paquete
<1>1. x.ejecuta = "instruccion" /\ x.tarea # <<>> /\ EsPedido(e) /\ AlServidor(t, p) /\ UNCHANGED a_cliente
  BY DEF Pedir, Toca, Ejecuta, EsPedido
<1>2. y.ejecuta = "respuesta" /\ y.tarea = x.tarea
  BY DEF Pedir, Formas, FormaWorker, CamposWorker
<1>3. Encarga(x, e)
  <2>1. 1 \in 1 .. Len(x.tarea) /\ e = x.tarea[1]
    BY <1>1, Cola DEF Cauces, Encargos
  <2> QED
    BY <1>1, <2>1 DEF SesionDe, Trabajo, Encargado, EnInstruccion
<1>4. <<>> \o p = p
  BY <1>1, <1>3, PedidoEntero
<1>5. Atento(a_servidor[t], h) /\ (a_cliente[t] = <<>> \/ Viejo(a_cliente[t]))
  BY <1>1 DEF Conversa
<1>6. "servidor" \notin cerrado[t] => a_servidor'[t] = a_servidor[t] \o p
  <2>1. t \in Enlaces /\ DOMAIN a_servidor = Enlaces
    BY LosEnlaces DEF Formas, FormaEnchufes
  <2> HIDE DEF p
  <2> QED
    BY <1>1, <2>1, AlEnviar DEF AlServidor
<1>7. Pendiente(y, a_servidor'[t], h)
  <2>1. CASE h.paso = "fin"
    BY <2>1 DEF Pendiente
  <2>2. CASE h.paso # "fin"
    <3>1. "servidor" \notin cerrado[t] /\ h.paso \in {"contar", "espera"} /\ a_servidor[t] = <<>>
      BY <1>5, <2>2 DEF SesionDe, Atento
    <3>2. a_servidor'[t] = p /\ p = Head(y.tarea).paquete
      BY <1>2, <1>4, <1>6, <3>1
    <3> HIDE DEF p, e
    <3> QED
      BY <3>1, <3>2 DEF Pendiente
  <2> QED
    BY <2>1, <2>2
<1> QED
  BY <1>1, <1>2, <1>5, <1>7 DEF Conversa, ConversaRespuesta

\* What a stream reads as.
LEMMA AlLeerDelStorage ==
    ASSUME Formas, NEW w \in Workers, a_cliente' = Resto(a_cliente, AStorage(w))
    PROVE  LET c == a_cliente[AStorage(w)]
               d == a_cliente'[AStorage(w)]
           IN  /\ c = <<>> => d = <<>> /\ Header(a_cliente, AStorage(w)) = "error"
                              /\ Payload(a_cliente, AStorage(w)) = <<>>
               /\ c # <<>> =>
                    /\ d = Tail(c)
                    /\ Head(c).tipo = "header" => Header(a_cliente, AStorage(w)) = Head(c).header
                    /\ Head(c).tipo # "header" /\ Head(c).campos # <<>> => Header(a_cliente, AStorage(w)) = "basura"
                    /\ Head(c).tipo = "cuerpo" => Payload(a_cliente, AStorage(w)) = Head(c).campos
<1>1. AStorage(w) \in Enlaces /\ DOMAIN a_cliente = Enlaces
  BY LosEnlaces DEF Formas, FormaEnchufes
<1> QED
  BY <1>1, AlLeer DEF Header, Payload

LEMMA UnaPalabra ==
    ASSUME NEW c, c = <<c[1]>> PROVE c # <<>> /\ Head(c) = c[1] /\ Tail(c) = <<>>
<1>1. \A u : LET q == <<u>> IN q # <<>> /\ Head(q) = u /\ Tail(q) = <<>>
  OBVIOUS
<1> DEFINE u == c[1]
<1>2. c = <<u>>
  OBVIOUS
<1> HIDE DEF u
<1>3. c # <<>> /\ Head(c) = u /\ Tail(c) = <<>>
  BY <1>1, <1>2
<1> QED
  BY <1>3 DEF u

\* Where its answer finds it.
LEMMA ElPedido ==
    ASSUME Cauces, NEW w \in Workers, Trabajo(worker[w]),
           worker[w].ejecuta \in {"respuesta", "cuerpo", "semaforo", "contenido"}
    PROVE  LET x == worker[w]
               e == Head(x.tarea)
           IN  /\ x.tarea # <<>> /\ EsPedido(e) /\ Encarga(x, e) /\ Operada(e).op \in Operaciones
               /\ Operada(e).op = e.paquete[1].header
               /\ EsRead(e) <=> Operada(e).op = "READ_BLOCK"
               /\ Seguro /\ EsRead(e) /\ x.ejecuta # "semaforo" => x.query_en_ejecucion
<1> DEFINE x == worker[w]
           e == Head(x.tarea)
<1>1. x.tarea # <<>> /\ EsPedido(e)
  BY DEF Trabajo, Ubicado, EnInstruccion
<1>2. 1 \in 1 .. Len(x.tarea) /\ e = x.tarea[1]
  BY <1>1, Cola DEF Cauces, Encargos
<1>3. Encarga(x, e)
  BY <1>2 DEF Trabajo, Encargado, EnInstruccion
<1>4. Operada(e).op \in Operaciones /\ Operada(e).op = e.paquete[1].header
  BY <1>1, <1>3, PedidoEntero
<1>5. Seguro /\ EsRead(e) /\ x.ejecuta # "semaforo" => x.query_en_ejecucion
  BY <1>2 DEF Trabajo, Detenido, EnInstruccion
<1> QED
  BY <1>1, <1>3, <1>4, <1>5 DEF EsRead

LEMMA ConversaEsperarRespuesta ==
    ASSUME Formas, Cauces, NEW w \in Workers, EsperarRespuesta(w), SesionDe(w),
           Conversa(worker[w], a_servidor[AStorage(w)], a_cliente[AStorage(w)], hilo_storage[w])
    PROVE  Conversa(worker'[w], a_servidor'[AStorage(w)], a_cliente'[AStorage(w)], hilo_storage[w])
<1> DEFINE x == worker[w]
           y == worker'[w]
           t == AStorage(w)
           h == hilo_storage[w]
           s == a_servidor[t]
           c == a_cliente[t]
           d == a_cliente'[t]
           H == Header(a_cliente, t)
           e == Head(x.tarea)
<1>1. /\ x.ejecuta = "respuesta" /\ (c # <<>> \/ "servidor" \in cerrado[t])
      /\ a_cliente' = Resto(a_cliente, t) /\ UNCHANGED a_servidor
  <2>1. x.ejecuta = "respuesta"
    BY DEF EsperarRespuesta, Ejecuta, Conversa
  <2> QED
    BY <2>1 DEF EsperarRespuesta, DelStorage, Vuelve
<1>2. /\ x.tarea # <<>> /\ EsPedido(e) /\ Operada(e).op \in Operaciones
      /\ EsRead(e) <=> Operada(e).op = "READ_BLOCK"
      /\ Seguro /\ EsRead(e) => x.query_en_ejecucion
  BY <1>1, ElPedido DEF SesionDe
<1> HIDE DEF e
<1>3. H # "HANDSHAKE_STORAGE" =>
        /\ y.tarea = x.tarea /\ y.query_en_ejecucion = x.query_en_ejecucion /\ y.leido = H
        /\ H = "RESPUESTA_READ_BLOCK" => y.ejecuta = "semaforo" /\ y.sem_respuesta_storage = 1
        /\ H # "RESPUESTA_READ_BLOCK" => y.ejecuta = "cuerpo"
  <2>1. x.sem_respuesta_storage = 0 /\ FormaWorker
    BY <1>1 DEF Formas, FormaWorker
  <2> HIDE DEF H
  <2>2. H # "HANDSHAKE_STORAGE" =>
          worker' = IF H = "RESPUESTA_READ_BLOCK"
                    THEN [worker EXCEPT ![w].ejecuta = "semaforo", ![w].leido = H,
                                        ![w].sem_respuesta_storage = @ + 1]
                    ELSE [worker EXCEPT ![w].ejecuta = "cuerpo", ![w].leido = H]
    BY DEF EsperarRespuesta, H
  <2> QED
    BY <2>1, <2>2 DEF FormaWorker, CamposWorker
<1>4. H # "HANDSHAKE_STORAGE" =>
        \A u, v : /\ Hecha(y, u, v) <=> Hecha(x, u, v)
                  /\ Pendiente(y, u, v) <=> Pendiente(x, u, v)
                  /\ Contesta(y, u) <=> Contesta(x, u)
  BY <1>3 DEF Hecha, Pendiente, Contesta
<1>5. CASE Pendiente(x, s, h) /\ c = <<>>
  <2>1. h.paso = "fin" /\ H = "error" /\ d = <<>>
    BY <1>1, <1>5, AlLeerDelStorage DEF SesionDe
  <2> HIDE DEF H
  <2> QED
    BY <1>3, <2>1 DEF Conversa, ConversaCuerpo
<1>6. CASE Pendiente(x, s, h) /\ Viejo(c)
  <2>1. c # <<>> /\ Head(c) = c[1] /\ Tail(c) = <<>> /\ c[1].tipo = "cuerpo" /\ c[1].campos # <<>> /\ ~Seguro
    BY <1>6, UnaPalabra DEF Viejo
  <2>2. H = "basura" /\ d = <<>>
    BY <1>1, <2>1, AlLeerDelStorage
  <2> HIDE DEF H
  <2> QED
    BY <1>1, <1>3, <1>4, <1>6, <2>1, <2>2 DEF Conversa, ConversaCuerpo
<1>7. CASE Hecha(x, s, h) /\ Contesta(x, c)
  <2>1. /\ c # <<>> /\ Head(c) = c[1] /\ Tail(c) = <<c[2]>>
        /\ c[1].tipo = "header" /\ c[2].tipo = "cuerpo"
        /\ \/ c[1].header = "ERROR_OPERACION"
           \/ c[1].header = "RESPUESTA_READ_BLOCK" /\ Operada(e).op = "READ_BLOCK" /\ c[2].campos # <<>>
           \/ c[1].header = RespuestaDe[Operada(e).op] /\ Operada(e).op # "READ_BLOCK"
    BY <1>2, <1>7, LasRespuestas DEF Contesta, e
  <2>2. H = c[1].header /\ d = <<c[2]>>
    BY <1>1, <2>1, AlLeerDelStorage
  <2>3. H # "HANDSHAKE_STORAGE"
    BY <1>2, <2>1, <2>2 DEF Operaciones, RespuestaDe
  <2> HIDE DEF H
  <2>4. CASE H = "RESPUESTA_READ_BLOCK"
    <3>1. EsRead(e) /\ c[2].campos # <<>>
      BY <1>2, <2>1, <2>2, <2>4 DEF Operaciones, RespuestaDe
    <3>2. EsContenido(d)
      <4> DEFINE q == c[2]
      <4> HIDE DEF q
      <4>1. d = <<q>> /\ q.tipo = "cuerpo" /\ q.campos # <<>>
        BY <2>1, <2>2, <3>1 DEF q
      <4>2. d = <<d[1]>> /\ d[1] = q
        BY <4>1
      <4> QED
        BY <4>1, <4>2 DEF EsContenido
    <3> HIDE DEF d
    <3>3. Hecha(y, s, h) /\ EsRead(Head(y.tarea)) /\ y.sem_respuesta_storage = 1
          /\ y.leido = "RESPUESTA_READ_BLOCK" /\ (Seguro => y.query_en_ejecucion) /\ y.ejecuta = "semaforo"
      BY <1>2, <1>3, <1>4, <1>7, <2>3, <2>4, <3>1 DEF e
    <3>4. ConversaSemaforo(y, s, d, h)
      BY <3>2, <3>3 DEF ConversaSemaforo
    <3> QED
      BY <1>1, <3>3, <3>4 DEF Conversa, d
  <2>5. CASE H # "RESPUESTA_READ_BLOCK"
    <3>1. Hecha(y, s, h) /\ y.leido = c[1].header /\ y.leido # "RESPUESTA_READ_BLOCK" /\ y.ejecuta = "cuerpo"
          /\ y.tarea = x.tarea
      BY <1>3, <1>4, <1>7, <2>2, <2>3, <2>5
    <3>2. c \in Respuestas(Operada(Head(y.tarea)))
      BY <1>7, <3>1 DEF Contesta
    <3> HIDE DEF c, d
    <3>3. ConversaCuerpo(y, s, d, h)
      BY <2>2, <3>1, <3>2 DEF ConversaCuerpo
    <3> QED
      BY <1>1, <3>1, <3>3 DEF Conversa, d
  <2> QED
    BY <2>4, <2>5
<1>8. CASE Hecha(x, s, h) /\ c # <<>> /\ Viejo(<<Head(c)>>) /\ Contesta(x, Tail(c))
  <2>1. Head(c).tipo = "cuerpo" /\ Head(c).campos # <<>> /\ ~Seguro
    <3> DEFINE q == Head(c)
    <3> HIDE DEF q
    <3>1. Viejo(<<q>>) /\ <<q>>[1] = q
      BY <1>8 DEF q
    <3>2. q.tipo = "cuerpo" /\ q.campos # <<>> /\ ~Seguro
      BY <3>1 DEF Viejo
    <3> QED
      BY <3>2 DEF q
  <2>2. H = "basura" /\ d = Tail(c)
    BY <1>1, <1>8, <2>1, AlLeerDelStorage
  <2> HIDE DEF H
  <2>3. y.ejecuta = "cuerpo" /\ y.leido = "basura" /\ Hecha(y, s, h) /\ Contesta(y, d)
    BY <1>3, <1>4, <1>8, <2>2
  <2> HIDE DEF d
  <2>4. ConversaCuerpo(y, s, d, h)
    BY <2>1, <2>3 DEF ConversaCuerpo
  <2> QED
    BY <1>1, <2>3, <2>4 DEF Conversa, d
<1> QED
  BY <1>1, <1>5, <1>6, <1>7, <1>8 DEF Conversa, ConversaRespuesta

LEMMA ConversaLeerRespuesta ==
    ASSUME Formas, Cauces, NEW w \in Workers, LeerRespuesta(w), SesionDe(w),
           Conversa(worker[w], a_servidor[AStorage(w)], a_cliente[AStorage(w)], hilo_storage[w])
    PROVE  Conversa(worker'[w], a_servidor'[AStorage(w)], a_cliente'[AStorage(w)], hilo_storage[w])
<1> DEFINE x == worker[w]
           y == worker'[w]
           t == AStorage(w)
           h == hilo_storage[w]
           s == a_servidor[t]
           c == a_cliente[t]
           d == a_cliente'[t]
           p == Payload(a_cliente, t)
           e == Head(x.tarea)
           avisa == x.leido = "ERROR_OPERACION" /\ p # <<>>
           postea == avisa \/ x.leido \in {RespuestaDe[o] : o \in Operaciones}
<1>1. /\ x.ejecuta = "cuerpo" /\ (c # <<>> \/ "servidor" \in cerrado[t]) /\ a_cliente' = Resto(a_cliente, t)
      /\ worker' = [worker EXCEPT ![w].ejecuta = "semaforo",
                                  ![w].sem_respuesta_storage = IF postea THEN @ + 1 ELSE @,
                                  ![w].query_en_ejecucion = @ /\ ~avisa]
  BY Zenon DEF LeerRespuesta, Ejecuta, DelStorage, Vuelve
<1>2. a_servidor'[t] = s
  <2>1. UNCHANGED a_servidor \/ \E q : AlServidor(AMaster(w), q)
    BY DEF LeerRespuesta
  <2> QED
    BY <2>1, LosEnlaces DEF AlServidor, Enviado, Formas, FormaEnchufes
<1>3. /\ x.tarea # <<>> /\ EsPedido(e) /\ Operada(e).op \in Operaciones
      /\ EsRead(e) <=> Operada(e).op = "READ_BLOCK"
      /\ Operada(e).op = e.paquete[1].header
  BY <1>1, ElPedido DEF SesionDe
<1> HIDE DEF e, avisa, postea
<1>4. /\ y.tarea = x.tarea /\ y.leido = x.leido /\ y.ejecuta = "semaforo"
      /\ y.sem_respuesta_storage = IF postea THEN 1 ELSE 0
      /\ avisa => ~y.query_en_ejecucion
  <2>1. x.sem_respuesta_storage = 0 /\ FormaWorker
    BY <1>1 DEF Formas, FormaWorker
  <2>2. CASE avisa /\ postea
    <3>1. worker' = [worker EXCEPT ![w].ejecuta = "semaforo",
                                   ![w].sem_respuesta_storage = @ + 1,
                                   ![w].query_en_ejecucion = FALSE]
      BY <1>1, <2>2
    <3>2. /\ y.tarea = x.tarea /\ y.leido = x.leido /\ y.ejecuta = "semaforo"
          /\ y.sem_respuesta_storage = 1 /\ y.query_en_ejecucion = FALSE
      BY <2>1, <3>1 DEF FormaWorker, CamposWorker
    <3> QED
      BY <2>2, <3>2
  <2>3. CASE ~avisa /\ postea
    <3>1. worker' = [worker EXCEPT ![w].ejecuta = "semaforo",
                                   ![w].sem_respuesta_storage = @ + 1,
                                   ![w].query_en_ejecucion = @ /\ TRUE]
      BY <1>1, <2>3
    <3>2. /\ y.tarea = x.tarea /\ y.leido = x.leido /\ y.ejecuta = "semaforo"
          /\ y.sem_respuesta_storage = 1
      BY <2>1, <3>1 DEF FormaWorker, CamposWorker
    <3> QED
      BY <2>3, <3>2
  <2>4. CASE ~avisa /\ ~postea
    <3>1. worker' = [worker EXCEPT ![w].ejecuta = "semaforo",
                                   ![w].sem_respuesta_storage = @,
                                   ![w].query_en_ejecucion = @ /\ TRUE]
      BY <1>1, <2>4
    <3>2. /\ y.tarea = x.tarea /\ y.leido = x.leido /\ y.ejecuta = "semaforo"
          /\ y.sem_respuesta_storage = 0
      BY <2>1, <3>1 DEF FormaWorker, CamposWorker
    <3> QED
      BY <2>4, <3>2
  <2> QED
    BY <2>2, <2>3, <2>4 DEF postea
<1>5. \A u, v : Hecha(y, u, v) <=> Hecha(x, u, v)
  BY <1>4 DEF Hecha
<1>6. CASE x.leido = "error" /\ c = <<>> /\ h.paso = "fin"
  <2>1. p = <<>>
    BY <1>1, <1>6, AlLeerDelStorage
  <2>2. ~postea
    BY <1>6, <2>1 DEF postea, avisa, RespuestaDe, Operaciones
  <2>3. ConversaSemaforo(y, s, d, h)
    BY <1>4, <1>6, <2>2 DEF ConversaSemaforo
  <2> QED
    BY <1>2, <1>4, <2>3 DEF Conversa
<1>7. CASE /\ Hecha(x, s, h) /\ x.leido # "RESPUESTA_READ_BLOCK"
           /\ \E r \in Respuestas(Operada(e)) : x.leido = r[1].header /\ c = <<r[2]>>
  <2>1. PICK r \in Respuestas(Operada(e)) : x.leido = r[1].header /\ c = <<r[2]>>
    BY <1>7
  <2>2. /\ r[2].tipo = "cuerpo"
        /\ \/ x.leido = "ERROR_OPERACION" /\ r[2].campos # <<>>
           \/ x.leido = RespuestaDe[Operada(e).op] /\ Operada(e).op # "READ_BLOCK"
    BY <1>3, <1>7, <2>1, LasRespuestas
  <2>3. c # <<>> /\ Head(c) = r[2] /\ d = <<>>
    <3> DEFINE u == r[2]
    <3> HIDE DEF u
    <3>1. c = <<u>>
      BY <2>1 DEF u
    <3>2. c # <<>> /\ Head(c) = u /\ Tail(c) = <<>>
      BY <3>1
    <3> QED
      BY <1>1, <3>2, AlLeerDelStorage DEF u
  <2>4. p = r[2].campos
    BY <1>1, <2>2, <2>3, AlLeerDelStorage
  <2> HIDE DEF p
  <2>5. CASE x.leido = "ERROR_OPERACION" /\ r[2].campos # <<>>
    <3>1. avisa /\ postea
      BY <2>4, <2>5 DEF avisa, postea
    <3> HIDE DEF d
    <3>2. ConversaSemaforo(y, s, d, h)
      BY <1>4, <1>5, <1>7, <2>3, <2>5, <3>1 DEF ConversaSemaforo, d
    <3> QED
      BY <1>2, <1>4, <3>2 DEF Conversa, d
  <2>6. CASE x.leido = RespuestaDe[Operada(e).op] /\ Operada(e).op # "READ_BLOCK"
    <3>1. postea
      BY <1>3, <2>6 DEF postea
    <3>2. y.leido = RespuestaDe[Head(y.tarea).paquete[1].header] /\ ~EsRead(Head(y.tarea))
      BY <1>3, <1>4, <2>6 DEF e
    <3>3. ConversaSemaforo(y, s, d, h)
      BY <1>4, <1>5, <1>7, <2>3, <3>1, <3>2 DEF ConversaSemaforo
    <3> QED
      BY <1>2, <1>4, <3>3 DEF Conversa
  <2> QED
    BY <2>2, <2>5, <2>6
<1>8. CASE ~Seguro /\ x.leido = "basura"
  <2>1. ~postea
    BY <1>8 DEF postea, avisa, RespuestaDe, Operaciones
  <2>2. ConversaSemaforo(y, s, d, h)
    BY <1>4, <1>8, <2>1 DEF ConversaSemaforo
  <2> QED
    BY <1>2, <1>4, <2>2 DEF Conversa
<1> QED
  BY <1>1, <1>6, <1>7, <1>8 DEF Conversa, ConversaCuerpo, e

LEMMA ConversaEsperarSemaforo ==
    ASSUME Formas, Cauces, NEW w \in Workers, EsperarSemaforo(w), SesionDe(w),
           Conversa(worker[w], a_servidor[AStorage(w)], a_cliente[AStorage(w)], hilo_storage[w])
    PROVE  Conversa(worker'[w], a_servidor'[AStorage(w)], a_cliente'[AStorage(w)], hilo_storage[w])
<1> DEFINE x == worker[w]
           y == worker'[w]
           t == AStorage(w)
           h == hilo_storage[w]
           s == a_servidor[t]
           c == a_cliente[t]
           e == Head(x.tarea)
<1>1. x.ejecuta = "semaforo" /\ x.sem_respuesta_storage > 0 /\ UNCHANGED enchufes
  BY DEF EsperarSemaforo, Ejecuta
<1>2. EsPedido(e) /\ (EsRead(e) <=> PedidoEnCurso(w) = "READ_BLOCK")
  BY <1>1, ElPedido DEF SesionDe, EsRead, PedidoEnCurso
<1>3. y.ejecuta = IF ~EsRead(e) \/ ~x.query_en_ejecucion THEN "instruccion" ELSE "contenido"
  BY <1>2 DEF EsperarSemaforo, Formas, FormaWorker, CamposWorker
<1>4. /\ Hecha(x, s, h)
      /\ \/ x.leido = "ERROR_OPERACION" /\ ~x.query_en_ejecucion /\ c = <<>>
         \/ ~EsRead(e) /\ c = <<>>
         \/ EsRead(e) /\ EsContenido(c) /\ (Seguro => x.query_en_ejecucion)
  BY <1>1 DEF Conversa, ConversaSemaforo
<1>5. Atento(s, h)
  BY <1>4 DEF Hecha, Atento
<1>6. UNCHANGED <<a_servidor, a_cliente>>
  BY <1>1 DEF enchufes
<1> HIDE DEF e
<1>7. CASE y.ejecuta = "instruccion"
  <2>1. c = <<>> \/ Viejo(c)
    BY <1>3, <1>4, <1>7 DEF EsContenido, Viejo
  <2> QED
    BY <1>5, <1>6, <1>7, <2>1 DEF Conversa
<1>8. CASE y.ejecuta = "contenido"
  <2>1. EsContenido(c)
    BY <1>3, <1>4, <1>8
  <2> QED
    BY <1>5, <1>6, <1>8, <2>1 DEF Conversa
<1> QED
  BY <1>3, <1>7, <1>8

LEMMA ConversaLeerContenido ==
    ASSUME Formas, Cauces, NEW w \in Workers, LeerContenido(w), SesionDe(w),
           Conversa(worker[w], a_servidor[AStorage(w)], a_cliente[AStorage(w)], hilo_storage[w])
    PROVE  Conversa(worker'[w], a_servidor'[AStorage(w)], a_cliente'[AStorage(w)], hilo_storage[w])
<1> DEFINE t == AStorage(w)
           c == a_cliente[t]
<1>1. /\ worker[w].ejecuta = "contenido" /\ UNCHANGED a_servidor
      /\ a_cliente' = Resto(a_cliente, t)
  BY DEF LeerContenido, Ejecuta
<1>2. worker'[w].ejecuta = "instruccion"
  BY SMTT(30) DEF LeerContenido, Formas, FormaWorker, CamposWorker
<1>3. Atento(a_servidor[t], hilo_storage[w]) /\ EsContenido(c)
  BY <1>1 DEF Conversa
<1>4. c # <<>> /\ Tail(c) = <<>>
  BY <1>3, UnaPalabra DEF EsContenido
<1>5. a_cliente'[t] = <<>>
  BY <1>1, <1>4, AlLeerDelStorage
<1> QED
  BY <1>1, <1>2, <1>3, <1>5 DEF Conversa

\* What the query thread does keeps its session.
LEMMA SesionQuery ==
    ASSUME Formas, Cauces, NEW w \in Workers, SesionDe(w), HiloDeQuery(w) PROVE SesionDe(w)'
<1> DEFINE x == worker[w]
           y == worker'[w]
           t == AStorage(w)
           h == hilo_storage[w]
<1>1. /\ Trabajo(x) /\ Sesion(x, a_servidor[t], a_cliente[t], h)
      /\ "servidor" \in cerrado[t] <=> h.paso = "fin"
      /\ Vivo(x) => "cliente" \notin cerrado[t]
  BY DEF SesionDe
<1>2. y.paso = x.paso /\ y.tamanio_bloque = x.tamanio_bloque /\ UNCHANGED <<cerrado, hilo_storage>>
  BY AlcanceQuery DEF DelProceso
<1>3. x.paso \in {"escucha", "payload"}
  <2>1. x.ejecuta # "libre" \/ x.espera # <<>>
    <3>1. Comenzar(w) => x.espera # <<>>
      BY DEF Comenzar
    <3>2. TomarLinea(w) => x.ejecuta # "libre"
      BY DEF TomarLinea, Ejecuta
    <3>3. ~Comenzar(w) /\ ~TomarLinea(w) => x.ejecuta # "libre"
      BY DEF HiloDeQuery, EjecutarQuery, AccederPagina, TerminarInstruccion, Informar, Pedir, EsperarRespuesta,
             LeerRespuesta, EsperarSemaforo, LeerContenido, Toca, Ejecuta
    <3> QED
      BY <3>1, <3>2, <3>3
  <2> QED
    BY <2>1 DEF Cauces, Ordenes
<1>4. x.tamanio_bloque = BlockSize /\ Conversa(x, a_servidor[t], a_cliente[t], h)
  BY <1>1, <1>3 DEF Sesion
<1>5. Conversa(y, a_servidor'[t], a_cliente'[t], h)
  <2>1. CASE ASolas(w)
    <3>1. a_servidor'[t] = a_servidor[t] /\ a_cliente'[t] = a_cliente[t]
      <4>1. CASE Informar(w)
        BY <4>1, LosEnlaces DEF Informar, AlServidor, Enviado, Formas, FormaEnchufes
      <4>2. CASE ~Informar(w)
        BY <2>1, <4>2 DEF ASolas, Comenzar, TomarLinea, AccederPagina, TerminarInstruccion, enchufes
      <4> QED
        BY <4>1, <4>2
    <3>2. Conversa(y, a_servidor[t], a_cliente[t], h)
      BY <1>4, <2>1, ConversaASolas
    <3> QED
      BY <3>1, <3>2
  <2>2. CASE Pedir(w)
    BY <1>4, <2>2, ConversaPedir
  <2>3. CASE EsperarRespuesta(w)
    BY <1>4, <2>3, ConversaEsperarRespuesta
  <2>4. CASE LeerRespuesta(w)
    BY <1>4, <2>4, ConversaLeerRespuesta
  <2>5. CASE EsperarSemaforo(w)
    BY <1>4, <2>5, ConversaEsperarSemaforo
  <2>6. CASE LeerContenido(w)
    BY <1>4, <2>6, ConversaLeerContenido
  <2> QED
    BY <2>1, <2>2, <2>3, <2>4, <2>5, <2>6 DEF HiloDeQuery, EjecutarQuery, ASolas
<1>6. Trabajo(y)
  <2>1. x.ejecuta # "respuesta_tras_cero"
    BY <1>4 DEF Conversa
  <2>2. y.ejecuta # "respuesta_tras_cero"
    BY <1>5 DEF Conversa
  <2> QED
    BY <1>1, <1>4, <2>1, <2>2, TrabajoPaso
<1>7. Sesion(y, a_servidor'[t], a_cliente'[t], hilo_storage'[w])
  BY <1>2, <1>3, <1>4, <1>5 DEF Sesion
<1> QED
  BY <1>1, <1>2, <1>3, <1>6, <1>7 DEF SesionDe, Vivo

-----------------------------------------------------------------------------
(* Everybody else leaves the session of a Worker alone                     *)

LEMMA SesionIgual ==
    ASSUME NEW w \in Workers, SesionDe(w), worker'[w] = worker[w], hilo_storage'[w] = hilo_storage[w],
           Igual(AStorage(w))
    PROVE  SesionDe(w)'
BY DEF SesionDe, Igual

\* A Worker that goes down leaves no query, and what it had asked for may be lost.
LEMMA SesionCaerWorker ==
    ASSUME Formas, NEW w \in Workers, SesionDe(w), CaerWorker(w), UNCHANGED hilo_storage
    PROVE  SesionDe(w)'
<1> DEFINE y == worker'[w]
           e == AStorage(w)
<1>1. y.paso = "caido" /\ y.ejecuta = "libre" /\ y.tarea = <<>> /\ y.paginas = <<>>
  BY DEF CaerWorker, WorkerInicial, Formas, FormaWorker
<1>2. Trabajo(y)
  BY <1>1, SinInstruccion DEF Trabajo, Ubicado, EnInstruccion
<1>3. Sesion(y, a_servidor'[e], a_cliente'[e], hilo_storage'[w]) /\ ~Vivo(y)
  BY <1>1 DEF Sesion, Vivo
<1>4. "servidor" \in cerrado'[e] <=> "servidor" \in cerrado[e]
  <2> DEFINE cs == {AMaster(w), e}
  <2>1. Cerrar(cs, "cliente") /\ FormaEnchufes /\ e \in Enlaces
    BY LosEnlaces DEF CaerWorker, Formas
  <2> HIDE DEF cs
  <2>2. cerrado'[e] = cerrado[e] \/ cerrado'[e] = cerrado[e] \union {"cliente"}
    BY <2>1, AlCerrar
  <2> QED
    BY <2>2
<1> QED
  BY <1>2, <1>3, <1>4 DEF SesionDe

\* A thread that ends takes part in any conversation.
LEMMA FinDelHilo ==
    ASSUME NEW x, NEW s, NEW c, NEW h, NEW k, k.paso = "fin", Conversa(x, s, c, h)
    PROVE  Conversa(x, s, c, k)
<1>1. Atento(s, k) /\ Pendiente(x, s, k) /\ Hecha(x, s, k)
  BY DEF Atento, Pendiente, Hecha
<1>2. ConversaRespuesta(x, s, c, h) => ConversaRespuesta(x, s, c, k)
  BY <1>1 DEF ConversaRespuesta
<1>3. ConversaCuerpo(x, s, c, h) => ConversaCuerpo(x, s, c, k)
  BY <1>1 DEF ConversaCuerpo
<1>4. ConversaSemaforo(x, s, c, h) => ConversaSemaforo(x, s, c, k)
  BY <1>1 DEF ConversaSemaforo
<1> QED
  BY <1>1, <1>2, <1>3, <1>4 DEF Conversa

\* The Storage that goes down closes the sockets of its threads.
LEMMA SesionCaerStorage ==
    ASSUME Formas, NEW w \in Workers, SesionDe(w), CaerStorage, UNCHANGED worker
    PROVE  SesionDe(w)'
<1> DEFINE x == worker[w]
           e == AStorage(w)
           h == hilo_storage[w]
           k == hilo_storage'[w]
<1>1. /\ a_servidor'[e] = a_servidor[e] /\ a_cliente'[e] = a_cliente[e] /\ worker'[w] = x
      /\ w \in Conectables /\ e \in Enlaces
  BY LosEnlaces DEF CaerStorage
<1>2. k = IF h.paso = "sin_conectar" THEN h ELSE HiloStorage("fin")
  BY <1>1 DEF CaerStorage, EnStorage
<1>3. cerrado'[e] = IF h.paso # "sin_conectar" THEN cerrado[e] \union {"servidor"} ELSE cerrado[e]
  <2>1. e \in {AStorage(v) : v \in {u \in Conectables : ~EnStorage(u, "sin_conectar")}}
            <=> h.paso # "sin_conectar"
    BY <1>1, LosEnlaces DEF EnStorage
  <2> QED
    BY <1>1, <2>1, AlCerrar DEF CaerStorage, Formas
<1>4. /\ "servidor" \in cerrado'[e] <=> k.paso = "fin"
      /\ "cliente" \in cerrado'[e] <=> "cliente" \in cerrado[e]
  BY <1>2, <1>3 DEF SesionDe, HiloStorage
<1>5. Sesion(x, a_servidor[e], a_cliente[e], k)
  <2>1. CASE h.paso = "sin_conectar"
    BY <1>2, <2>1 DEF SesionDe
  <2>2. CASE h.paso # "sin_conectar"
    <3>1. k.paso = "fin"
      BY <1>2, <2>2 DEF HiloStorage
    <3>2. Sesion(x, a_servidor[e], a_cliente[e], h)
      BY DEF SesionDe
    <3>3. Conversa(x, a_servidor[e], a_cliente[e], h) => Conversa(x, a_servidor[e], a_cliente[e], k)
      BY <3>1, FinDelHilo
    <3> QED
      BY <2>2, <3>1, <3>2, <3>3 DEF Sesion, Atento
  <2> QED
    BY <2>1, <2>2
<1> QED
  BY <1>1, <1>4, <1>5 DEF SesionDe

LEMMA SesionesPaso ==
    ASSUME Formas, Cauces, Sesiones, Next PROVE Sesiones'
<1> SUFFICES ASSUME NEW w \in Workers PROVE SesionDe(w)'
  BY DEF Sesiones
<1> DEFINE e == AStorage(w)
<1>1. SesionDe(w) /\ w \in Clientes /\ w \in Conectables /\ e \in Enlaces
  BY LosEnlaces DEF Sesiones
<1>2. ASSUME NEW x \in Clientes, HiloDelMaster(x) PROVE SesionDe(w)'
  BY <1>1, <1>2, AlcanceMaster, SesionIgual DEF storage
<1>3. ASSUME NEW x \in Conectables, HiloDelStorage(x) PROVE SesionDe(w)'
  <2>1. CASE x = w
    BY <1>1, <1>3, <2>1, SesionStorage
  <2>2. CASE x # w
    BY <1>1, <1>3, <2>2, AlcanceStorage, SesionIgual, LosEnlaces
  <2> QED
    BY <2>1, <2>2
<1>4. ASSUME NEW q \in QueryControls, ProgramaControl(q) \/ Enter(q) PROVE SesionDe(w)'
  BY <1>1, <1>4, AlcanceControl, SesionIgual, LosEnlaces DEF storage
<1>5. ASSUME NEW v \in Workers, Principal(v) \/ Listener(v) \/ HiloDeQuery(v) PROVE SesionDe(w)'
  <2>1. CASE v = w
    BY <1>1, <1>5, <2>1, SesionPrincipal, SesionQuery
  <2>2. CASE v # w
    <3>1. worker'[w] = worker[w] /\ Igual(e)
      BY <1>1, <1>5, <2>2, AlcanceWorker, LosEnlaces
    <3>2. hilo_storage' = hilo_storage \/ hilo_storage' = Acepta(hilo_storage, v)
      BY <1>5, AlcanceWorker
    <3>3. hilo_storage'[w] = hilo_storage[w]
      BY <1>1, <2>2, <3>2 DEF Acepta, Formas, FormaStorage
    <3> QED
      BY <1>1, <3>1, <3>3, SesionIgual
  <2> QED
    BY <2>1, <2>2
<1>6. ASSUME NEW x \in Ajenos, AjenoLlamaAlMaster(x) \/ AjenoLlamaAlStorage(x) \/ AjenoCuelga(x)
      PROVE  SesionDe(w)'
  <2>1. x # w /\ AMaster(x) # e /\ AStorage(x) # e /\ AMaster(x) \in Enlaces /\ AStorage(x) \in Enlaces
    BY <1>1, LosEnlaces
  <2>2. worker' = worker /\ a_cliente' = a_cliente /\ hilo_storage'[w] = hilo_storage[w]
    BY <1>1, <1>6, <2>1
       DEF AjenoLlamaAlMaster, AjenoLlamaAlStorage, AjenoCuelga, Acepta, storage, Formas, FormaStorage
  <2>3. a_servidor'[e] = a_servidor[e]
    BY <1>1, <1>6, <2>1
       DEF AjenoLlamaAlMaster, AjenoLlamaAlStorage, AjenoCuelga, AlServidor, Enviado, Formas, FormaEnchufes
  <2>4. cerrado'[e] = cerrado[e]
    BY <1>1, <1>6, <2>1 DEF AjenoLlamaAlMaster, AjenoLlamaAlStorage, AjenoCuelga, Cerrar
  <2> QED
    BY <1>1, <2>2, <2>3, <2>4, SesionIgual DEF Igual
<1>7. CASE Caer
  <2>1. CASE CaerMaster /\ UNCHANGED <<storage, control, worker>>
    <3>1. a_servidor'[e] = a_servidor[e] /\ a_cliente'[e] = a_cliente[e] /\ cerrado'[e] = cerrado[e]
      BY <1>1, <2>1, LosEnlaces DEF CaerMaster, Cerrar, Formas, FormaEnchufes, AMaster, AStorage
    <3> QED
      BY <1>1, <2>1, <3>1, SesionIgual DEF Igual, storage
  <2>2. CASE CaerStorage /\ UNCHANGED <<master, control, worker>>
    BY <1>1, <2>2, SesionCaerStorage
  <2>3. ASSUME NEW v \in Workers, CaerWorker(v), UNCHANGED <<master, storage, control>>
        PROVE  SesionDe(w)'
    <3>1. CASE v = w
      BY <1>1, <2>3, <3>1, SesionCaerWorker DEF storage
    <3>2. CASE v # w
      <4>1. /\ worker'[w] = worker[w] /\ hilo_storage' = hilo_storage
            /\ a_cliente'[e] = a_cliente[e] /\ a_servidor'[e] = a_servidor[e] /\ cerrado'[e] = cerrado[e]
        BY <1>1, <2>3, <3>2, LosEnlaces DEF CaerWorker, storage, Cerrar, Formas, FormaEnchufes, FormaWorker
      <4> QED
        BY <1>1, <4>1, SesionIgual DEF Igual
    <3> QED
      BY <3>1, <3>2
  <2> QED
    BY <1>7, <2>1, <2>2, <2>3 DEF Caer
<1> QED
  BY <1>2, <1>3, <1>4, <1>5, <1>6, <1>7 DEF Next

LEMMA SesionesSiempre == Spec => []Sesiones
<1>1. Init => Sesiones
  <2> SUFFICES ASSUME Init, NEW w \in Workers PROVE SesionDe(w)
    BY DEF Sesiones
  <2> DEFINE x == worker[w]
             e == AStorage(w)
  <2>1. /\ x.paso = "inicio" /\ x.ejecuta = "libre" /\ x.tarea = <<>> /\ x.paginas = <<>>
    BY DEF Init, InitWorker, WorkerInicial
  <2>2. /\ hilo_storage[w].paso = "sin_conectar"
        /\ a_servidor[e] = <<>> /\ a_cliente[e] = <<>> /\ cerrado[e] = {}
    BY LosEnlaces DEF Init, InitEnchufes, InitStorage, HiloStorage
  <2>3. Trabajo(x)
    BY <2>1, SinInstruccion DEF Trabajo, Ubicado, EnInstruccion
  <2> QED
    BY <2>1, <2>2, <2>3 DEF SesionDe, Sesion
<1>2. Formas /\ Cauces /\ Sesiones /\ [Next]_vars => Sesiones'
  <2> SUFFICES ASSUME Formas, Cauces, Sesiones, [Next]_vars PROVE Sesiones'
    OBVIOUS
  <2>1. CASE UNCHANGED vars
    BY <2>1, SesionIgual DEF vars, enchufes, storage, Sesiones, Igual
  <2>2. CASE Next
    BY <2>2, SesionesPaso
  <2> QED
    BY <2>1, <2>2
<1> QED
  BY <1>1, <1>2, FormasSiempre, CaucesSiempre, PTL DEF Spec

\* Whoever executes something has a session with the Storage that is past the
\* size of the blocks.
LEMMA Conversando ==
    ASSUME Cauces, Sesiones, NEW w \in Workers, worker[w].ejecuta # "libre"
    PROVE  /\ Trabajo(worker[w])
           /\ Conversa(worker[w], a_servidor[AStorage(w)], a_cliente[AStorage(w)], hilo_storage[w])
           /\ hilo_storage[w].paso = "fin" => "servidor" \in cerrado[AStorage(w)]
<1>1. worker[w].paso \in {"escucha", "payload"}
  BY DEF Cauces, Ordenes
<1> QED
  BY <1>1 DEF Sesiones, SesionDe, Sesion

-----------------------------------------------------------------------------
(* What the sessions say                                                   *)

\* While a Worker waits for an answer, what the Storage has carried out is what
\* the line of the query says, whatever the query, the page that is missing and
\* the page that makes room for it: the words that worker/src/serializacion.c
\* puts in a packet are the ones that storage/src/deserializacion.c takes out.
THEOREM LosDosSeEntienden == Spec => []Entendido
<1>1. Cauces /\ Sesiones => Entendido
  <2> SUFFICES ASSUME Cauces, Sesiones, NEW w \in Workers,
                      worker[w].ejecuta = "respuesta", worker[w].tarea # <<>>,
                      hilo_storage[w].paso = "espera", a_servidor[AStorage(w)] = <<>>
               PROVE  LET o == hilo_storage[w].operacion
                          linea == Lineas(w)[worker[w].pc + 1]
                      IN  \/ o = Pretende(linea, worker[w].query)
                          \/ o.op = "WRITE_BLOCK" /\ <<o.file, o.tag, o.bloque>> \in Sucias
                          \/ /\ linea[1] \in {"READ", "WRITE"}
                             /\ \E n \in Abarca(linea) :
                                   o = [op |-> "READ_BLOCK", query_id |-> worker[w].query,
                                        file |-> linea[2][1], tag |-> linea[2][2], bloque |-> n]
    BY DEF Entendido
  <2> DEFINE x == worker[w]
             e == Head(x.tarea)
             h == hilo_storage[w]
             s == a_servidor[AStorage(w)]
  <2>1. /\ Trabajo(x) /\ ConversaRespuesta(x, s, a_cliente[AStorage(w)], h)
    BY Conversando DEF Conversa
  <2>2. EsPedido(e) /\ Encarga(x, e)
    BY <2>1, ElPedido
  <2>3. h.operacion = Operada(e)
    <3>1. e.paquete # <<>>
      BY <2>2, PedidoEntero DEF Encarga
    <3>2. ~Pendiente(x, s, h)
      BY <3>1 DEF Pendiente
    <3> QED
      BY <2>1, <3>2 DEF ConversaRespuesta, Hecha
  <2>4. Comprendida(x, e)
    BY <2>2 DEF Encarga
  <2> QED
    BY <2>3, <2>4 DEF Comprendida, Linea, Lineas
<1> QED
  BY <1>1, CaucesSiempre, SesionesSiempre, PTL

\* The answer that a Worker reads is the answer to what it asked
\* (worker/src/hilo-storage.c, esperar_respuesta_storage), when an access
\* touches one page or nothing has to be written to make room for a page. The
\* hypothesis is needed: buscar_pagina (worker/src/tabla_de_paginas.c) leaves the
\* contents of a READ in the socket if the WRITE_BLOCK of its victim is refused,
\* and the access goes on with its next page.
THEOREM RespuestasDeLoPedido == Seguro => (Spec => []PedidoYRespuesta)
<1> SUFFICES ASSUME Seguro PROVE Spec => []PedidoYRespuesta
  OBVIOUS
<1>1. Cauces /\ Sesiones => PedidoYRespuesta
  <2> SUFFICES ASSUME Cauces, Sesiones, NEW w \in Workers,
                      worker[w].ejecuta \in {"cuerpo", "semaforo"}
               PROVE  \/ worker[w].leido \in {RespuestaDe[PedidoEnCurso(w)], "ERROR_OPERACION"}
                      \/ worker[w].leido = "error" /\ "servidor" \in cerrado[AStorage(w)]
    BY DEF PedidoYRespuesta, Ejecuta
  <2> DEFINE x == worker[w]
             e == Head(x.tarea)
  <2>1. /\ Trabajo(x)
        /\ Conversa(x, a_servidor[AStorage(w)], a_cliente[AStorage(w)], hilo_storage[w])
        /\ hilo_storage[w].paso = "fin" => "servidor" \in cerrado[AStorage(w)]
    BY Conversando
  <2>2. /\ Operada(e).op \in Operaciones /\ Operada(e).op = PedidoEnCurso(w)
        /\ EsRead(e) => PedidoEnCurso(w) = "READ_BLOCK"
    BY <2>1, ElPedido DEF PedidoEnCurso
  <2>3. RespuestaDe["READ_BLOCK"] = "RESPUESTA_READ_BLOCK"
    BY DEF RespuestaDe
  <2>4. CASE x.ejecuta = "cuerpo"
    <3>1. CASE \E r \in Respuestas(Operada(e)) : x.leido = r[1].header
      BY <2>2, <2>3, <3>1, LasRespuestas
    <3> QED
      BY <2>1, <2>4, <3>1 DEF Conversa, ConversaCuerpo
  <2>5. CASE x.ejecuta = "semaforo"
    BY <2>1, <2>2, <2>3, <2>5 DEF Conversa, ConversaSemaforo, PedidoEnCurso
  <2> QED
    BY <2>4, <2>5
<1> QED
  BY <1>1, CaucesSiempre, SesionesSiempre, PTL

\* With the same hypothesis, whoever waits on sem_respuesta_storage without a
\* post has lost the Storage: the thread that waits is the one that reads the
\* answer and posts (worker/src/query_intepreter.c), so the post comes before
\* the wait, after a refusal as after an answer.
THEOREM EsperasConMotivo == Seguro => (Spec => []EsperaConMotivo)
<1> SUFFICES ASSUME Seguro PROVE Spec => []EsperaConMotivo
  OBVIOUS
<1>1. Cauces /\ Sesiones => EsperaConMotivo
  BY Conversando DEF EsperaConMotivo, Ejecuta, Conversa, ConversaSemaforo
<1> QED
  BY <1>1, CaucesSiempre, SesionesSiempre, PTL
=============================================================================
