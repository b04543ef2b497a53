# Verification of the tolmedo/tp-2025-2c-Los-adictOS query engine

TLA+ modules, TLC configurations and TLAPS proofs about the distributed query engine of this repository. Names in the
modules are those of the C code (Spanish); `PROJECT.json` gives, for each definition, the lines it translates.

Contents: [1 The system](#1-the-system) · [2 What is hard](#2-what-is-hard) · [3 Modules](#3-modules) ·
[4 Correspondence with the code](#4-correspondence-with-the-code) · [5 Runs](#5-runs) · [6 Proofs](#6-proofs) ·
[7 What was found](#7-what-was-found) · [8 Not modelled](#8-not-modelled) · [9 Plan](#9-plan)

## 1 The system

Four programs talk over TCP with typed packets (`utils/src/utils/`):

    Query Control --> Master <--> Worker (several) <--> Storage

| component | state | operations | talks to |
|---|---|---|---|
| **Storage**, block filesystem (`storage/src/filesystem.c`, `operaciones.c`, `hilo-worker.c`) | bitmap, physical block files, hard links of each File:Tag, `metadata.config`, hash index, one mutex per File:Tag, global `error_read` | CREATE, TRUNCATE, WRITE, READ, DELETE, COMMIT, TAG, one thread per Worker connection | Workers (request, answer) |
| **Worker**, internal memory (`worker/src/tabla_de_paginas.c`) | frames, page tables, LRU ages, CLOCK-M hand | miss and load, replacement, write-back, flush, release of frames | Storage |
| **Worker**, interpreter and threads (`query_intepreter.c`, `hilo-master.c`, `hilo-storage.c`) | `query_desalojada`, `pc_actual`, `query_en_ejecucion`, `mutex_ejecucion_query`, `sem_desalojo` | execute a query from a line, stop at an eviction, report readings and the end | Master, Storage |
| **Master**, planner (`master/src/hilo-query_control.c`, `hilo-worker.c`) | READY, EXEC, Workers, `t_query`, `mutex_planificacion`, `sem_ejecutar_query` | connect, plan by FIFO or PRIORIDADES, evict, age, end | Workers, Query Controls |
| **Master**, server (`master/src/servidor.c`) | a thread for each connection, `SO_RCVTIMEO` | accept, handshake of Workers and Query Controls, refusal of others | Workers, Query Controls |
| **Storage**, server (`storage/src/servidor.c`, `hilo-worker.c`) | a thread for each connection, `workers_conectados`, `worker_id_counter` | accept, handshake, take and answer operations, dismiss | Workers |
| **Query Control** (`query_control/src/`) | `query_control_activo`, `cierre_local_solicitado` | greets, asks for a file, takes readings and one final message, leaves when Enter is pressed | Master |
| messages (`utils/`, every `serializacion.c` and `deserializacion.c`) | streams | write and read packets field by field, parse the lines of a query | all |
| configuration, logging | start-up values | read once | all |

What makes each one correct:

- *Storage*: a block that is linked is never free; links and metadata agree whenever the File:Tag's mutex is free; a
  COMMITED tag does not change; deduplication and copy-on-write are invisible.
- *Worker memory*: a page is in one frame and a frame has one page; there is always a victim; a query reads what it
  wrote, whatever is replaced or flushed.
- *Master and Workers*: a query is in one list at a time; a Worker has one query; an eviction lets exactly one planner
  go on; a query resumes where it stopped; its Query Control gets its own readings and one true final message, also
  when a Worker goes down.
- *Locks*: no function returns with a mutex taken, and threads do not wait for each other in a circle.
- *Connections*: an operation arrives as it was meant, an answer is that of its request, and whoever leaves, is refused
  or says nothing is noticed and dismissed.

## 2 What is hard

`PROJECT.json` lists each hazard at its line. In short: Storage operations are sequences of file system calls that only
share a File:Tag mutex with operations on the *same* File:Tag, while blocks are shared between them; `error_read` is
one global for all threads. In the Master every thread runs the planner on its own stack, including the thread that
must read the answer the planner waits for, and the planner frees its mutex twice. In a Worker two threads hand the
query over through flags that one of them resets. Each refused request produces a final message of its own. Any of
the four programs may go down in the middle of anything; a send that fails calls the planner from inside the planner;
`t_header` has no negative value, so most tests of `header < 0` never hold and a lost connection is noticed one read
later, or never; a word of a packet left unread is taken for the next header.

## 3 Modules

| module | what it is |
|---|---|
| `StorageFS` | the Storage, thread by thread and step by step |
| `StorageFSProps` | its type invariant, safety invariants and action properties |
| `ArchivosLogicos` | abstract: a File:Tag is an array of contents of its own; an operation happens at once |
| `StorageFSRefina` | refinement mapping, `StorageFS` implements `ArchivosLogicos` |
| `StorageFSProofs` | its proofs: types, mutexes, links and metadata, COMMITED tags, physical blocks, and the refinement of `ArchivosLogicos` |
| `MemoriaWorker` | frames, page tables, LRU and CLOCK-M, and the instructions that use them |
| `MemoriaPlana` | abstract: each File:Tag is a flat array of bytes, with the Storage's copy following behind |
| `MemoriaWorkerProps` | invariants, and `MemoriaWorker` implements `MemoriaPlana` |
| `MemoriaWorkerProofs` | its proofs: frames, page tables and victims |
| `MemoriaPlanaProofs` | the proof that `MemoriaWorker` implements `MemoriaPlana` |
| `ListasProofs` | lemmas about lists without repetitions, for the proofs of memory and of the Sistema |
| `Canales` | packets and sockets between Master, Workers and Query Controls |
| `Master` | the planner: connections, FIFO, PRIORIDADES, evictions, aging, what Workers send |
| `WorkerControl` | a Worker's listener and query threads |
| `Servicio` | abstract: what a Query Control asks of the system |
| `Sistema` | `Master` and `WorkerControl` composed over `Canales`, with Workers that go down and start again; fairness; properties; implements `Servicio` (FIFO) |
| `SistemaProofs` | its proofs with both algorithms: types, where each query is, evictions |
| `SistemaFifoProofs` | its proofs with FIFO: Workers, falls and the refinement of `Servicio` |
| `StorageCaidas` | `StorageFS` with crashes at any step and the start on the disk they leave |
| `PasosDeCerrojo`, `CerrojosMaster`, `CerrojosStorage` | each path of each function as the mutexes it takes and lets go |
| `Cerrojos` | threads that execute paths of any program, the mutexes they keep and the waits that never end |
| `CerrojosProgramas` | the two programs, Master and Storage, with the levels of their mutexes |
| `CerrojosProofs` | proofs about threads and paths, and what each path of the two programs keeps and in which order it takes |
| `Paquetes` | the packets as written and as read, the parser of lines |
| `Enchufes` | streams of packets, ends that close, `obtener_header` and `obtener_payload` |
| `ServidorStorage`, `ServidorMaster`, `QueryControl`, `ClienteWorker` | the four programs as their connections see them |
| `Conexiones` | those four composed over `Enchufes`, with strangers, departures and falls; fairness; properties |
| `ConexionesProofs` | its proofs: shape, who is connected, motives, and the sessions of Workers with the Storage |
| `MCStorageFS`, `MCStorageCargas`, `MCStorageCaidas`, `MCMemoria`, `MCSistema`, `MCCerrojos`, `MCConexiones` | instances for TLC |

A definition preceded by a comment that starts with `Mutant` is a bug put in on purpose: the specification does not
use it, `PROJECT.json` says which property notices it.

## 4 Correspondence with the code

**StorageFS.** `hilo[w]` is the stack of the thread that serves Worker `w`: `pc` is the next call other threads can
notice, `m` the `t_file_metadata` in memory, `i` the loop index. An operation starts with the action of its name, which
takes the File:Tag mutex together with the tests made right after it, and goes on through `EscribirEnSitio`,
`ReservarBloque`, `Desenlazar`, `Enlazar`, `Agrandar`, `Achicar`, `BorrarEnlace`, `ContarReferencias`, `MarcarLibre`,
`BuscarHash`, `GuardarHash`, `CrearDestino`, `TomarDestino`, `CopiarEnlace` and `GuardarMetadata`: each is one critical
section of the bitmap or the index, or one call on the file tree. `Referencias(b)` is `st_nlink`. The hash of a block is
its contents, and contents are members of a small set. Opening a file that exists and linking are taken to succeed. A
Worker that reconnects is a thread that is idle again.

**StorageCaidas.** A crash (`Caer`) may come between any two steps; `CaerCreando` and `CaerQuitando` come in the middle
of `crear_tag` and of the last step of `eliminar_file`, which are one step of `StorageFS` and several calls on the file
tree. The mutexes and the threads are lost, the disk stays, and `Arrancar` is `inicializar_bitmap` and
`inicializar_blocks_index` with FRESH_START=FALSE: they recover nothing. `danadas` has the File:Tags that were being
changed. A crash between the `fopen` and the `fclose` of a `metadata.config`, which leaves it empty, is left out.

**MemoriaWorker.** An action is one page of an instruction: what the code does up to the Storage's answer and what
follows from it, `WRITE_BLOCK` of the victim included. `almacen` is the Storage as this Worker sees it; what other
Workers change in the File:Tags it uses is left out, but they do take and free blocks (`OtrosWorkers`): `sin_lugar` has
the pages whose block is shared while no block is free, which `escribir_bloque` refuses for that, as it does those of a
COMMITED File:Tag or beyond its size (`Escribible`). The fields of a page that is not present are not read again and
have no value. LRU ages are kept as an order (`accesos`). An access that does not begin a page loads it shifted, as the
code does; bytes that would fall outside the memory are dropped.

**Master.** `hilo[t]` is a thread, of a Query Control or of a Worker's reader: `paso` says where in
`planificar_queries` it is (`libre`: outside), with the planner's locals. A step of the planner goes from one wait or
send to the next: `PlanificarFifo`/`PlanificarPrioridades` take the mutex; `Asignar`, `ElegirVictima` and
`NadieDesalojable` are a round of the loop under the mutexes of the lists; `Enviar` sends `EJECUTAR_QUERY` and unlocks;
`Desalojar`, `Relevar` (after `sem_wait`) and `EnviarRelevo` are the eviction. The short sections under the mutexes of
lists, queries and Workers are parts of one action. An unlock by a thread that is not the owner frees the mutex, which
is what a default glibc mutex does. `sem_ejecutar_query` is a static `sem_t`, zero until a Worker connects.

`FallarEnvio` is `manejar_fallo_envio_worker`, up to the call of the planner inside the planner (`pila`): with its mutex
taken that thread stays there for ever. A Worker that went down is noticed by its thread (`Desconectar`, which keeps
`mutex_workers`, then `FinalizarQueryDe`); a query may be on its way to it meanwhile. SIGPIPE is left out, and a packet
arrives whole or not at all.

**WorkerControl.** `ejecuciones[w]` has the query threads of Worker `w`, waiting for `mutex_ejecucion_query` or
executing; two threads of one query waiting at the same line would count as one. The eviction check and the instruction
that follows it are one action. `avance` is a history variable: the instructions of each query that have been executed,
wherever. A refusal of the Storage (`RechazosInstruccion`, `RechazosEnd`, `RechazosDesalojo`: how many in one
instruction, in END's flush and in an eviction's flush) sends `QUERY_FINALIZADA` each. Blank lines and comments after END
are left out.

**Sistema.** A step is one of the Master or one of a Worker; the sockets are sequences that keep their order. `caido` has
the Workers whose process ended: what they had sent still arrives, what is sent to them is lost, and once the Master has
noticed they may start again (`Rearrancar`).

**Cerrojos.** A function of the C code is the set of its paths, and a path the sequence of its `pthread_mutex_lock` and
`unlock`; what happens between them is in the other modules. A search of a list looks at one element. `Llamar` starts
any path of the program in any thread, so the paths need not be possible together: the results are an over-approximation
of the interleavings and hold for the code. `Nivel` is the order in which the functions take the mutexes. `Cerrojos` is
about any programs; `LosProgramas` says that its constants are those of the Master and of the Storage. The planner by
priorities is one round of its loop, at whose end it has the mutexes of the beginning. Each early return is a path, those
that keep a mutex included: `escribir_bloque` when `escritura_bloque` cannot open the block's file (`filesystem.c:629`,
`:649`) and `crear_file` without a path for its file (`:802`), also when `copiar_tag` calls it (`SinSoltarFileTag`).
`donde` is a history variable, the function in which a mutex was taken: `Retenido` says that its owner has left it.

**Conexiones.** A socket is two sequences of words, and a word is what one `obtener_header` or one `obtener_payload`
reads, so a program that reads out of turn takes a size for a header, as in the code. `hilo_master[x]` and
`hilo_storage[x]` are the threads of a connection; `worker[w]` has the main thread, which becomes the listener (`paso`),
and the query thread (`ejecuta`), whose `tarea` is what is left of the instruction: the requests and messages that
`ejecutar_instruccion` makes, with any page missing and any of `Sucias` dirty. READ and WRITE go page by page, and
`paginas` are those they have not come to yet. The Storage accepts or refuses each
operation as it likes, since `StorageFS` says when. The planner is one step and FIFO, because `Master` has its
interleavings. A process that goes down closes its sockets; if it left something unread, the other end may lose the last
packets.

## 5 Runs

`tlc -config X.cfg M` with two workers; times are indicative. Deadlock is not checked where the system may stop: when
every query has ended, or (Storage) when a TAG of a File:Tag onto itself, or two TAGs that cross, wait for ever.

| run | module, configuration | checks | what it shows |
|---|---|---|---|
| `storage_cargas` | MCStorageCargas: 2 threads, 3 File:Tags of 1 block, 3 blocks; either no COMMIT or DELETE, or no TAG (80 s) | `TypeOK`, `Disciplina`, `OcupadoSiReferenciado`, `IndiceVeraz`, `CommitedCongelado`, `ImplementaArchivos` | mutexes keep links and metadata in step; copy on write and deduplication are invisible; COMMITED is final |
| `storage_caidas` | MCStorageCaidas: 1 thread, 3 File:Tags of 2 blocks, 3 blocks, 1 crash, all operations but READ | `OcupadoSiReferenciado`, `IndiceVeraz`, `DanoPropio`, `ImplementaConCaidas` | a crash at any step damages only the File:Tag of the operation it interrupts |
| `storage_libre_en_uso` | MCStorageFS: 2 threads, all operations | `OcupadoSiReferenciado` **violated** | §7 |
| `storage_lectura` | MCStorageFS: 2 threads, READ | `LecturaContestada` **violated** | §7 |
| `memoria_alineada` | MCMemoria: 2 File:Tags of 2 pages, 2 frames, LRU and CLOCK-M (1 min, a million states) | `TypeOK`, `MarcosConsistentes`, `SiempreHayVictima`, `CopiaFiel`, `ImplementaPlana` | replacement and flush do not change what a query reads; bytes the Storage refuses end the query |
| `memoria_desalineada` | the same, accesses to the middle of a page | `CopiaFiel` **violated** | §7 |
| `sistema_fifo` | MCSistema: FIFO, 2 queries, 2 Workers, 2 lines, a Worker may go down once | `UnaPorWorker`, `EnUnLugar`, `NadieVarado`, `ImplementaServicio`, `Terminan` | one query per Worker, nobody left behind by a fall, readings and final messages are right; while no Worker falls, every query ends |
| `sistema_prioridades` | MCSistema: PRIORIDADES with aging, 2 queries of 3 lines, 1 Worker that may go down once, refusals everywhere (2 min, 7 million states) | `TypeOK`, `EnUnLugar`, `UnRelevoPorDesalojo`, `SinRepetirNiSaltar` | a query resumes at the line where it was evicted; each answer lets one planner go on |
| `sistema_dos_planificadores` | MCSistema: PRIORIDADES, 2 queries, 1 Worker | `UnaPorWorker` **violated** | §7 |
| `sistema_no_terminan` | MCSistema: PRIORIDADES, 2 queries, 1 Worker, no falls, no refusals | `Terminan` **violated** | §7 |
| `cerrojos` | MCCerrojos: 2 threads, 2 queries, 1 Worker, 2 File:Tags; the Master with each algorithm and the Storage (`LosProgramas`, which TLC evaluates) | `RetenidosConocidos`, `InterbloqueosConocidos` | only `escribir_bloque` and `crear_file` keep a mutex, that of a File:Tag; threads stop for ever only on those or through three functions |
| `conexiones` | MCConexiones: 1 Query Control, 1 Worker, 1 stranger, a file of eight lines on one page, 1 incident (3 min) | `TypeOK`, `Entendido`, `PedidoYRespuesta`, `EsperaConMotivo`, `MotivoVeraz`, `Enterado`, `SaludoAtendido`, `SeDespiden` | operations arrive as meant, answers match requests, ends and departures are noticed |

**Why these bounds.** Storage: sharing and copy-on-write need two File:Tags and a third to reuse what is freed; a second
logical block makes the loops turn; two threads are enough for any pair of steps to cross. `carga`, `BorraCommited` and
`Operaciones` split the workload so that each run finishes; where a run leaves operations out because the property fails
with them, §7 says so. One crash is enough for what it damages to be met by everything that follows; with one thread,
what is damaged is one operation's. Memory: two frames for four pages force replacements of clean and dirty pages within
an instruction and between File:Tags; lengths 2 and 3 with pages of 2 bytes give
accesses to a whole page and to a page and part of the next, which TRUNCATE to one page makes fail half way.
Sistema: one Worker is where queries fight; two let a query move. Two priorities and aging let two queries evict each
other again and again. One fall is enough to meet every step of a planner. Cerrojos: one thread is enough to stop on a
mutex that was kept, and any circle of waits in these programs comes down to two, since each of the three functions
closes one with a thread in an ordinary function, and one Worker suffices because a `t_worker` is only taken under
`workers_info`. Conexiones: one incident (`MaxIncidentes`) is one program that goes down, one stranger or one Enter, at
any step; an id that is positive and one that is not, a priority that is valid and one that is not, make both branches
of each handshake. The file has a line of each shape: with a size, with an address, with two File:Tags, without
arguments, unknown; CREATE and FLUSH have the shapes of DELETE and of END. In `memoria_alineada` the first page of each
File:Tag may lack a block for its copy (`PaginasCero`), so that a flush can be refused whole, in part or not at all, and
the victim of a replacement too. The Storage runs use the symmetry of the threads and of the tags other than BASE,
`memoria_alineada` that of the File:Tags, `cerrojos` that of threads, queries and File:Tags; no run with a liveness
property uses any.

Every action and every disjunct is taken by some passing run: `sistema_fifo` covers FIFO and the falls,
`sistema_prioridades` the rest of Master and WorkerControl.

**Limits stated by the configurations.** `SinRepetirNiSaltar` is checked with two queries: with three, the two planners
of §7 can address an eviction to one query of a Worker while another runs on it; the answer carries the other's line and
the first one later skips an instruction. `ImplementaServicio` is checked with at most one refusal per instruction, none
in END and no late reading: otherwise a second `QUERY_FINALIZADA` ends the next query of that Worker, and a reading
sent after a refusal reaches another Query Control (setting `RechazosInstruccion <- UnoODos`, `RechazosEnd <- CeroYUno`
or `LecturaTardia = TRUE` in `SistemaFifo.cfg` shows each). `IndiceVeraz` is checked with `BorraCommited = FALSE`,
`ImplementaPlana` with `ConPaginas = FALSE` (a TRUNCATE or DELETE of a File:Tag whose pages are in memory leaves them
there). `NadieVarado` and `Terminan` are checked with FIFO: with PRIORIDADES a planner waits for a Worker that went down
or for a query that ended. After a crash nobody operates on the File:Tags it damaged (`UsaDanadas = FALSE`): with TRUE
`storage_caidas` fails. `PedidoYRespuesta` is checked with accesses of one page and one query: in a READ of two pages,
when the write of a victim is refused the second answer stays unread, and the next query on that Worker takes its
contents for a header.

**Fairness.** Storage, memory and Cerrojos: none, only safety is claimed. `Sistema`: weak fairness for each thread: the
planner steps and the reader of each socket in the Master, the listener and each query thread in a Worker. `Conexiones`
(`FairSpec`): weak fairness for the thread of each connection in the two servers, for each Query Control and for each of
the three threads of a Worker. Each is a POSIX thread that, once it can go on, is scheduled; that a `recv` of the
Master's handshake returns after ten seconds is the kernel's promise. Nobody is obliged to connect, to go down, to press
Enter, to call or to hang up, and no query to age. `Terminan` needs the premises it states (a Worker, none that goes
down, a file that ends with END), and FIFO; `Enterado`, that a Worker is connected and the Storage is up.

## 6 Proofs

`tlapm M.tla` checks them, each in ten minutes at most. A theorem holds for every value of the constants that satisfies
the assumptions of the modules it extends, which are named, and which TLC evaluates on the runs. Hypotheses that are not
assumptions of a module are written in the theorem and given below.

| module | theorem | says |
|---|---|---|
| `StorageFSProofs` | `Tipado` | `Spec => []TypeOK` |
| | `Disciplinado` | `Spec => []Disciplina`, the inductive invariant below |
| | `Respaldada` | `Spec => []MetadataRespaldada`: a File:Tag whose mutex is free has each block its metadata lists linked where it says |
| | `Congelado` | `Spec => CommitedCongelado`: once COMMITED, metadata changes only by DELETE or by the TAG that is filling it |
| | `Repartido` | `CargaSegura => (Spec => []Reparto)`, the inductive invariant of the physical blocks |
| | `BloquesOcupados` | `CargaSegura => (Spec => []OcupadoSiReferenciado)`: no linked block is free in the bitmap |
| | `IndiceFiel` | `CargaSegura => (Spec => []IndiceVeraz)`: the index gives for a content a block that has it |
| | `ArchivosSeparados` | `CargaSegura => (Spec => ImplementaArchivos)`: the refinement of `ArchivosLogicos` |
| `MemoriaWorkerProofs` | `TiposMemoria` | `Spec => []TypeOK` |
| | `MarcosNuncaCompartidos` | `Spec => []MarcosConsistentes`: no frame has two pages, none is lost |
| | `SiempreVictima` | `Spec => []SiempreHayVictima`: LRU and CLOCK-M always find a page |
| `MemoriaPlanaProofs` | `CopiasFieles` | a page not modified is its block (`Hipotesis`) |
| | `MemoriaEsPlana` | `Spec => ImplementaPlana`: the refinement of the flat memory (`Hipotesis`) |
| `SistemaProofs` | `TiposSistema` | `Spec => [](TypeOK /\ Sanos)` |
| | `CadaQueryEnUnLugar` | `Spec => []EnUnLugar`, with both algorithms |
| | `UnRelevoPorCadaDesalojo` | `Spec => []UnRelevoPorDesalojo`, with both algorithms |
| `SistemaFifoProofs` | `UnaQueryPorWorker` | with FIFO, `UnaPorWorker` always |
| | `NadieQuedaVarado` | with FIFO, `NadieVarado` always |
| | `ServicioFifo` | with FIFO, `ImplementaServicio`: the refinement of the service (`UnRechazo`) |
| `ConexionesProofs` | `TiposConexiones` | `Spec => []TypeOK`, with the Storage's count of Workers |
| | `MotivosVeraces` | `Spec => []MotivoVeraz`: nobody takes the end of a query for a fall of the Master |
| | `LosDosSeEntienden` | `Spec => []Entendido`: what the Storage carries out is what the line says |
| | `RespuestasDeLoPedido` | `Seguro => (Spec => []PedidoYRespuesta)` |
| | `EsperasConMotivo` | `Seguro => (Spec => []EsperaConMotivo)` |
| `CerrojosProofs` | `MutexesRetenidos` | `Spec => []RetenidosConocidos` of the Master and the Storage (`LosProgramas`) |
| | `InterbloqueosSoloConocidos` | `Spec => []InterbloqueosConocidos` of the Master and the Storage (`LosProgramas`) |

**Storage.** `MetadataRespaldada` is not inductive: in the middle of an operation links and metadata disagree, and the
mutex may be released only when they agree again. `Disciplina` adds (`Cerrojos`) which mutexes a thread holds at each
step, and (`Orden`) how far the links of the File:Tag it holds have come: `Coinciden` gives, for each step, the logical
blocks on which links and the metadata in memory agree; `Indices` and `Listados` bound the loop index and the blocks
about to be linked. `TypeOK /\ Disciplina` is inductive; there is a lemma for each action, and lemmas for the frames
they share: a step touches only tags whose mutex the thread holds (`Seccion`, `Fuera`, `SinTocar`). `Congelado` needs
one fact more (`SinCommitear`): from the test of the state to the write of the metadata the tag stays without COMMIT on
the disk, because whoever would COMMIT it needs the mutex. TAG makes no test and fills the tag it has just created.

`Reparto` is about the physical blocks, which no mutex of a File:Tag protects: links, index, bitmap and threads must not
lead two ways to a block that one of them changes. `Suyos` is the block a thread has for itself (reserved and not yet
linked, or unlinked and not yet freed); `Apartados` says that it is taken, that no link and no index line leads to it and
that no other thread has it. `EnlacesOcupados` and `IndiceOcupado` say that links and index lead to taken blocks. That a
count of one reference allows a free needs that nobody else can come to the block between the count and the free:
`Exclusivas` says that a block with a link that no COMMIT has passed (`Fijo`, `Pasado`) has that link only and is not in
the index. `Fundado` is what each step relies on: a WRITE in place writes a block of its own, a COMMIT links a block that
the index holds. A lemma for each action (`...Reparto`) shows that it keeps all this, and a common one (`Reparte`) deals
with the threads that do not move. `CargaSegura` is the hypothesis, and it is the two loads of `storage_cargas`: without
COMMIT or DELETE (`SinQuitar`), or without TAG and with no DELETE of a COMMITED tag (`SinCompartir`). Outside it the
property is false, which is what `storage_libre_en_uso` shows (§7, 2). `TagsAssumption` says that tags are finitely many,
for references to be counted.

The refinement of `ArchivosLogicos` (`ArchivosSeparados`) adds `Fiel`: a File:Tag has the blocks of its size (`Medidas`),
and what a thread has in memory differs from `metadata.config` only in what its operation is there to change
(`EnMemoria`; `Recorte` for TRUNCATE), with the block it is about to link already holding the contents it is to show.
`AlFrente` and `Mira` say what the refinement mapping shows of a tag given who is at work on it. Each operation takes
effect at one step: CREATE at the directory, TRUNCATE and DELETE when they take the mutex, WRITE at the write in place or
at the unlink of the old block, COMMIT and TAG at the write of the metadata. A lemma for each action (`...Fiel`) shows
that it is that step of `ArchivosLogicos` (`EsTruncar`, `EsEscribir`, ...) or is not seen; `Efecto` and `VistoResto` do
what they share, that no other tag looks different. That is where `Reparto` is needed: a block whose contents change is
one that nobody else is linked to (`EscritoPropio`), and a block that COMMIT puts in the place of another reads the same.
The zeros that TRUNCATE adds are block 0, which `indice[Cero] = 0` and `IndiceOcupado` keep at zeros. `NadaAssumption`
says that the mark for "past the end" is not a content.

**Worker memory.** The invariant `Repartida` is `TipoMemoria` (`TypeOK` but for `sin_lugar`), `Ordenada` (what an
instruction under way may be), `Reparto` (different present pages have different frames, and the bitmap is the set of
those) and `Accedidas` (the LRU order has each present page once, and no other). LRU then takes the first of its order;
for CLOCK-M, `Aguja` finds a present page in any frame the hand points to and `VueltasDelClock` that the four rounds
stop at one, since the last two accept a page whatever its use bit was. Addresses may be unaligned here. For the
refinement, `Coherente` adds that the loop stands at the beginning of a page (`Alineada`), that a page not modified is
its block, except when an instruction failed and before `liberar_marcos_query` (`Limpias`), and that blocks beyond the
size are zeros (`FueraCero`). There is a lemma for each action (`...Paso`): it is a step of `MemoriaPlana` or changes
nothing that is seen. A page that the Storage refuses may be lost, so the lemmas also show that the query does not go on
after it (`ResultadoFin`; in a replacement, `bien`). `LugaresAssumption` says that `SinLugares` are sets of pages.
`Hipotesis` says that addresses begin pages and `ConPaginas = FALSE`. Neither is a weakness of the argument: without the
first the property is false (§7, 4) and without the second too ("Limits").

**Master and Workers.** Each thread of the Master at each step has the query, Worker and planner to go back to that the
step uses (`HiloSano`), which is what makes the reads of its locals typed. `Ubicadas` says where each query is: those of
NUEVA are those whose thread has not started (`Presentadas`), those of the lists are there once and in a state
that fits (`EnLasListas`), a planner carries only a query that is in no list and no other planner carries (`Llevadas`),
and each of the rest is in one of those places (`NingunaPerdida`); an action moves one query (`UnaSeMueve`) or none
(`NadaSeMueve`). `UnRelevoPorDesalojo` is a count, the value of `sem_ejecutar_query` and the packets of eviction on the
way or answered against the planners that wait: `Cuantos...` lemmas follow it message by message, and the set of those
packets has to be finite to be counted, hence `FinitosAssumption` (the queries and the Workers of a run are finitely
many).

With FIFO nobody evicts (`SinDesalojos`), so no wait comes between the lock of the planner and its unlock, and that is
what PRIORIDADES breaks (§7, 1). `Exclusion`: one thread at a time is inside the planner. `Conectados` says which
Workers the list has, by the step of their readers; `Repartidas`, that a free Worker has no query of EXEC, that nobody
else has the Worker a planner has chosen, and that two queries of EXEC have different Workers. Falls are in: a thread
that noticed one and a planner that could not send may still have to take the query out of EXEC, and they are the
exceptions that `NadieVarado` names. `Servida`, for the refinement, says of each Worker that it has nothing (`Vacio`) or
that everything in its two sockets and its query thread is about one query of EXEC (`Ocupado`, `Cauce`): the order to
execute it and nothing else, or the thread at the line it has reached and its readings, or what the thread left behind,
with a final message, if there is one, that comes last and is true (`Cierto`). Each step is then a step of `Servicio` or
leaves it as it was. `UnRechazo` says that an instruction has at most one refusal, that the flush of END is not refused
and that a reading is not sent after a refusal: those of `SistemaFifo.cfg`, and with any of them dropped the refinement
is false ("Limits").

**Mutexes.** The owner of a mutex is a thread whose path has taken it and not let it go yet, or the mutex is one of
those that may be kept (`Posesion`, the inductive invariant; an unlock by another thread may free it earlier, never the
other way round). In a circle of threads whose paths respect the levels, none of which waits for a mutex that was kept,
each one waits for a mutex of a level strictly lower than those it has; the one that waits for a mutex of least level
contradicts it (`SinCiclo`). This needs that a path leaves taken only what its function may (`TodasSueltan`), and
`ProgramasBuenos` shows it of the Master's and the Storage's, and which functions respect the levels, with a calculus of
paths: a path lets go what it takes but for some mutexes (`Deja`), takes below what it has taken and not let go
(`Baja`), and below a level (`Debajo`); lemmas say when one path after another keeps that, and a lemma for each group of
functions applies them (`FifoPlanifica`, `PrioridadesPlanifica`, `MasterAtiende`, `StorageOpera`, `StorageCopia`).
`DistintosAssumption` says that the mutexes of different things are different mutexes.

**Connections.** `Formas` is the shape of the state; `Cuenta`, that `workers_conectados` counts the threads of the
Storage between the handshake and the farewell; `Plan`, who is connected to the Master and what its lists and threads
have. `Cauces` is about words: each stream between the Master and its clients, and each stream from the Storage, is a
sequence of packets, whole but for the first, and the reader is at a header or at a payload accordingly. On it rest the
two kinds of conversation. `Controles` says how far a Query Control and its thread of the Master have come: what has been
written and not read is the rest of the greeting, or messages of the query, and when the Master has closed the socket the
final message is still in the stream or has been read; so end of file comes after it. `Sesiones` says the same of a
Worker and its thread of the Storage: from the greeting to the size of a block (`Sesion`), and then, for each step of the
query thread (`Conversa`), whether its request is on the way (`Pendiente`) or has been carried out (`Hecha`) and what of
the answer is left to read. `Trabajo` goes along with it: what is left of an instruction is what its line asks for
(`Encargado`), the words of each request give back the operation (`Comprendida`), and after a refusal no page is asked
for (`Detenido`). `Seguro` is the hypothesis of the last two theorems: an access touches one page, or no page ever has to
be written to make room. It holds in `conexiones`, and without it both are false: the contents of a READ whose victim the
Storage refuses to write stay in the socket (`Viejo`) and the next request reads them ("Limits"). The invariant carries
both cases, so `LosDosSeEntienden` does not need it. `ClientesAssumption` says that a client is a Query Control, a Worker
or a stranger, and that there are finitely many Workers and strangers; `ArchivosAssumption`, that lines have their words;
`SuciasAssumption`, that dirty pages are finitely many triples.

**Only model-checked.** With crashes, `OcupadoSiReferenciado`, `IndiceVeraz`, `DanoPropio` and the refinement of
`ArchivosLogicos` (`StorageCaidas`); `SinRepetirNiSaltar`. Out of the prover's reach, and left to TLC: liveness under
fairness (`Terminan`, `Enterado`, `SaludoAtendido`, `SeDespiden`) and `ENABLED`.

## 7 What was found

1. **Two planners at once** (`sistema_dos_planificadores`, `hilo-query_control.c:282`). The planner unlocks after each
   assignment, keeps going round and unlocks again at 243 or 340, which frees the mutex of a planner that waits for
   an eviction. A third one takes the Worker that the eviction has just freed; two queries end up on one Worker.
2. **A linked block is freed** (`storage_libre_en_uso`, `filesystem.c:922`). Unlink, count and free are three steps of
   DELETE; two of them on File:Tags that share a block can both count one reference, and the second free falls on a
   block already given to somebody else. This is why `storage_cargas` has TAG and DELETE in different loads.
3. **A READ answered with another's reason** (`storage_lectura`, `operaciones.c:133`). `error_read` is reset and read
   without a lock by all threads.
4. **Pages loaded shifted** (`memoria_desalineada`, `tabla_de_paginas.c:170`). A miss caused by an access to the middle
   of a page copies the block to that offset. This is why `memoria_alineada` has aligned addresses.
5. **Queries that never end** (`sistema_no_terminan`, `hilo-query_control.c:326`). A query that executes its last line
   while DESALOJAR_QUERY is on its way is never answered for: the Worker's listener waits on `sem_desalojo` for ever and
   the planner on `sem_ejecutar_query`, with `mutex_planificacion` taken. The other query stays where it is.
6. **Three functions that can close a circle of waits** (`cerrojos`): `procesar_desalojo_completado` takes a query's
   mutex before that of EXEC, the planner called from `manejar_fallo_envio_worker` takes `mutex_planificacion` again,
   and `copiar_tag` takes the destination's mutex with the origin's taken.
   The same run has the mutex of a File:Tag that three returns keep (`filesystem.c:629`, `:649`, `:802`): the next
   operation on that File:Tag waits for ever. It takes a block's file that cannot be opened, or memory that runs out.
7. **Losses that are not noticed** (`Conexiones`): `header < 0` never holds, so a Worker that lost the Master reads
   for ever, the Master does not see that a Query Control left, and the Storage notices a departure only by the payload.
   The final message and the answers are right in spite of it, which is what the run shows.

Seen while modelling and not given a run: TRUNCATE never frees the blocks it unlinks (`filesystem.c:1184`); the hash
index keeps lines of blocks that were freed (`filesystem.c:1308`), and two COMMITs of equal contents both append one;
the Storage's handshake has no limit of time; the Master never closes the socket of a Worker that left; the ones of
"Limits" above; `END` says COMPLETADA although its flush failed; COMMIT is sent although its flush failed, so that a
query that fails may leave a COMMITED File:Tag without the pages for which there was no free block.

## 8 Not modelled

SIGPIPE, which would end a process that writes to a closed socket; packets cut in the middle, and lengths in bytes;
lines with words missing; the freeing of `t_query` while a thread polls it; two Workers with one id;
`worker_id_counter++` by two threads at once; the start-up race of a Worker between its listener (`worker.c:39`) and the
creation of its memory (`main.c:74`); a crash of the Storage in the middle of writing one `metadata.config`; the steps of
the format; what other Workers change in a File:Tag while its pages are in memory; configuration and logging. `PROJECT.json`
gives the reason for each component.

## 9 Plan

Done, in this order: Storage with its abstract specification and its inductive invariant; the Worker's memory with its
own; Master and Workers composed, with the service they give; Workers that go down and sends that fail; the mutexes of
Master and Storage; the Storage's crashes; the packets, the handshakes and the connections of the four programs.

Proved so far: types and discipline of the Storage, COMMITED tags and, for the loads of `storage_cargas`, the use of the
physical blocks and the refinement of `ArchivosLogicos`; the frames of the Worker's memory and its refinement; where each
query is, evictions and, with FIFO, the service of the Master; the mutexes of Master and Storage; the conversations of
Query Controls with the Master and of Workers with the Storage.

Next, in this order:

1. `DanoPropio` of `StorageCaidas` from `Disciplina`, and the blocks after a crash.
2. Two Workers over one Storage with their memories: what a query may see of what another one changes.
