----------------------------- MODULE StorageCaidas -----------------------------
(***************************************************************************)
(* The Storage of StorageFS when its process can end at any point and is   *)
(* started again with FRESH_START=FALSE. What it keeps in memory is lost:  *)
(* the threads, the mutexes, error_read. The disk stays as it was, because *)
(* every change of it (the bitmap is mapped and synced) is made at once;   *)
(* and the start only opens the bitmap and the index: there is no recovery.*)
(* A metadata.config is written whole.                                     *)
(***************************************************************************)
EXTENDS StorageFSRefina

CONSTANTS
    MaxCaidas,    \* bound: times the process ends
    UsaDanadas    \* workload: whether a File:Tag is operated on, other than by
                  \* READ, after an operation on it was interrupted

ASSUME CaidasAssumption == MaxCaidas \in Nat /\ UsaDanadas \in BOOLEAN

VARIABLES
    caidas,    \* how many times it has ended
    danadas    \* the File:Tags it was in the middle of changing

varsCaidas == <<ocupado, contenido, enlaces, directorios, archivos, meta, indice, lock, error_read, vivo,
                hilo, caidas, danadas>>

InitCaidas == Init /\ caidas = 0 /\ danadas = {}

\* The File:Tags that operations in progress change.
EnCurso == {hilo[w].tag : w \in {v \in Workers : hilo[v].op \notin {"ninguna", "READ"}}}

\* Mutant: the start finds the bitmap new and writes it again.
ArrancarConBitmapNuevo == ocupado' = {0}

\* inicializar_bitmap and inicializar_blocks_index of what the disk has.
Arrancar == UNCHANGED ocupado

Cae(tags) ==
    /\ caidas < MaxCaidas /\ caidas' = caidas + 1
    /\ danadas' = danadas \union tags
    /\ lock' = [t \in Tags |-> Nadie]
    /\ error_read' = 0
    /\ vivo' = TRUE
    /\ hilo' = [w \in Workers |-> Ocioso]
    /\ Arrancar

\* Between two steps, or because a READ ended the process.
Caer ==
    /\ Cae(EnCurso)
    /\ UNCHANGED <<contenido, enlaces, directorios, archivos, meta, indice>>

\* Between the mkdir of crear_tag and its metadata.config.
CaerCreando(w, t) ==
    /\ \/ Pide(w, "CREATE", t)
       \/ En(w, "crear_destino") /\ hilo[w].tag = t /\ lock[t] = Nadie
    /\ t \notin directorios
    /\ directorios' = directorios \union {t}
    /\ Cae(EnCurso \union {t})
    /\ UNCHANGED <<contenido, enlaces, archivos, meta, indice>>

\* Between the unlink of metadata.config and the rmdirs of eliminar_file.
CaerQuitando(w) ==
    LET t == hilo[w].tag IN
    /\ En(w, "quitar")
    /\ archivos' = archivos \ {t}
    /\ meta' = [meta EXCEPT ![t] = MetaVacia]
    /\ Cae(EnCurso)
    /\ UNCHANGED <<contenido, enlaces, directorios, indice>>

Usadas(h) == {h.tag} \union IF h.op = "TAG" THEN {h.orig} ELSE {}

\* The Workers leave alone what the workload says.
Permitido ==
    UsaDanadas \/ \A w \in Workers :
        hilo[w].pc = "ocioso" /\ hilo'[w].op \notin {"ninguna", "READ"} =>
            Usadas(hilo'[w]) \intersect danadas = {}

NextCaidas ==
    \/ Next /\ Permitido /\ UNCHANGED <<caidas, danadas>>
    \/ Caer
    \/ \E w \in Workers : CaerQuitando(w) \/ \E t \in Tags : CaerCreando(w, t)

SpecCaidas == InitCaidas /\ [][NextCaidas]_varsCaidas

-----------------------------------------------------------------------------
\* A crash harms only the File:Tags that were being changed: every other one
\* that has a directory can be used, and its links are those its metadata.config
\* lists.
DanoPropio ==
    \A t \in Tags : lock[t] = Nadie /\ t \notin danadas =>
        /\ t \in directorios => t \in archivos
        /\ t \in archivos => Entera(t)

ConCaidas ==
    INSTANCE ArchivosLogicos WITH
        arch <- [t \in Tags |-> IF t \in danadas THEN AL!Ausente ELSE Visto(t)]

\* As long as nobody operates again on the File:Tags that were being changed,
\* a crash is as if they had been deleted, and nothing else: the Storage goes
\* on implementing ArchivosLogicos for the others, although it recovers nothing.
ImplementaConCaidas == ConCaidas!Spec
=============================================================================
