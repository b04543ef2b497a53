---------------------------- MODULE CerrojosProgramas ---------------------------
(***************************************************************************)
(* The two programs whose threads share mutexes, for the module Cerrojos:  *)
(* the Master, with each of its algorithms, and the Storage. Their         *)
(* functions are those of CerrojosMaster and CerrojosStorage.              *)
(***************************************************************************)
EXTENDS Cerrojos, CerrojosMaster, CerrojosStorage

\* The mutexes of the lists and of the tables; besides them, every t_query, every
\* t_worker and every File:Tag has its own.
MutexesGlobales ==
    {"workers", "planificacion", "queries_ready", "queries_exec", "workers_info",
     "locks_dict", "bitmap", "hash_index"}

ASSUME DistintosAssumption ==
    /\ Queries \intersect MutexesGlobales = {} /\ Workers \intersect MutexesGlobales = {}
    /\ FileTags \intersect MutexesGlobales = {}
    /\ Queries \intersect Workers = {} /\ FileTags \intersect Workers = {}

LosMutexes == MutexesGlobales \union Queries \union Workers \union FileTags

\* The order the programs keep, but for the functions of LasInvertidas:
\* mutex_workers and mutex_planificacion first, then the lists and the queries.
LosNiveles ==
    [m \in LosMutexes |->
        CASE m \in {"workers", "planificacion"} -> 5
          [] m = "queries_ready" -> 4
          [] m = "queries_exec" -> 3
          [] m \in Queries \union FileTags -> 2
          [] m = "workers_info" -> 1
          [] OTHER -> 0]

LasFunciones == [fifo |-> FuncionesFifo, prioridades |-> FuncionesPrioridades, storage |-> FuncionesStorage]
LosModulos == DOMAIN LasFunciones

\* Those that take a mutex with one below it taken.
LasInvertidas == {"procesar_desalojo_completado", "manejar_fallo_envio_worker", "copiar_tag"}

\* Those that may return with the mutex of a File:Tag taken.
LasRetenedoras == {"escribir_bloque", "crear_file", "copiar_tag"}

\* The threads are those of the two programs.
LosProgramas ==
    /\ Modulos = LosModulos /\ Funciones = LasFunciones
    /\ Mutexes = LosMutexes /\ Nivel = LosNiveles
    /\ Invertidas = LasInvertidas
    /\ Retenedoras = LasRetenedoras /\ Retenibles = FileTags
=============================================================================
