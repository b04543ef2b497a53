------------------------------- MODULE StorageFS -------------------------------
(***************************************************************************)
(* The Storage process: a block filesystem kept in ordinary files and      *)
(* served by one thread per connected Worker (storage/src/hilo-worker.c).  *)
(*                                                                         *)
(* A File:Tag (here a "tag") is a directory with a metadata.config and one *)
(* hard link per logical block; the physical block files carry the data,   *)
(* and the number of links of a physical block is its reference count.     *)
(* A bitmap says which physical blocks are taken, and a hash index maps    *)
(* contents to the block that holds them, for COMMIT to deduplicate.       *)
(*                                                                         *)
(* Each File:Tag has a mutex; the bitmap and the index have one each. One  *)
(* action is one step that other threads can observe: a critical section   *)
(* of the bitmap or the index, or one call on the shared file tree.        *)
(***************************************************************************)
EXTENDS Integers, FiniteSets

CONSTANTS
    Workers,        \* the Worker connections, one Storage thread each
    Tags,           \* the File:Tag names
    BASE,           \* initial_file:BASE, created by the format
    TotalBlocks,    \* physical blocks (FS_SIZE / BLOCK_SIZE)
    BlockSize,      \* bytes of a block
    MaxLogicos,     \* bound: logical blocks of one File:Tag
    Tamanios,       \* bound: the sizes TRUNCATE is asked for
    Contenidos,     \* contents a block can have (a hash identifies one)
    Cero,           \* the all-zero content
    Operaciones,    \* workload: the operations the Workers send
    BorraCommited,  \* workload: whether DELETE is sent for COMMITED tags
    Nadie           \* holder of a free mutex

Bloques   == 0 .. TotalBlocks - 1
Logicos   == 0 .. MaxLogicos - 1
SinBloque == -1
BloqueO   == Bloques \union {SinBloque}

\* Blocks a size needs: division rounded up (truncar_file).
Necesarios(tam) == (tam + BlockSize - 1) \div BlockSize

OperacionesFS == {"CREATE", "TRUNCATE", "WRITE", "READ", "DELETE", "COMMIT", "TAG"}

ASSUME BloquesAssumption   == TotalBlocks \in Nat \ {0}
ASSUME LogicosAssumption   == MaxLogicos \in Nat \ {0}
ASSUME TamaniosAssumption  ==
    /\ BlockSize \in Nat \ {0}
    /\ BlockSize \in Tamanios
    /\ \A tam \in Tamanios \union {0} : tam \in Nat /\ Necesarios(tam) \in 0 .. MaxLogicos
ASSUME ContenidosAssumption == Cero \in Contenidos
ASSUME TagsAssumption      == BASE \in Tags /\ IsFiniteSet(Tags)
ASSUME WorkersAssumption   == Nadie \notin Workers
ASSUME OperacionesAssumption == Operaciones \subseteq OperacionesFS
ASSUME WorkloadAssumption  == BorraCommited \in BOOLEAN

VARIABLES
    ocupado,      \* the bitmap: blocks marked as taken
    contenido,    \* contents of every physical block file
    enlaces,      \* logical_blocks/ of every tag: hard links to blocks
    directorios,  \* tags whose directory exists
    archivos,     \* tags whose metadata.config exists
    meta,         \* what metadata.config says (MetaVacia when absent)
    indice,       \* blocks_hash_index.config: first block listed for a content
    lock,         \* holder of each File:Tag mutex
    error_read,   \* the global with the reason of the last failed read
    vivo,         \* the Storage process is running
    hilo          \* local state of every thread

disco == <<ocupado, contenido, enlaces, directorios, archivos, meta, indice>>
vars  == <<ocupado, contenido, enlaces, directorios, archivos, meta, indice, lock, error_read, vivo, hilo>>

-----------------------------------------------------------------------------
(* Data                                                                    *)

Estados == {"WORK_IN_PROGRESS", "COMMITED"}

Metadata == [size : Tamanios \union {0}, estado : Estados, n : 0 .. MaxLogicos,
             blocks : [Logicos -> BloqueO]]

SinEnlaces == [l \in Logicos |-> SinBloque]

\* The metadata crear_tag writes: no size, no blocks.
MetaVacia == [size |-> 0, estado |-> "WORK_IN_PROGRESS", n |-> 0, blocks |-> SinEnlaces]

Pasos == {"ocioso", "responder", "leer", "leido",
          "escribir", "en_sitio", "reservar", "copiar", "desenlazar", "enlazar",
          "agrandar", "achicar", "borrar", "quitar", "commitear", "indexar",
          "contar", "liberar", "crear_destino", "tomar_destino", "copiar_enlace",
          "guardar"}

Respuestas == {"ok", "error", "inexistente", "preexistente", "fuera_de_limite",
               "no_permitida", "espacio_insuficiente"}

Hilo == [pc : Pasos, op : OperacionesFS \union {"ninguna"},
         tag : Tags,       \* the File:Tag operated on (the new one, in TAG)
         orig : Tags,      \* the File:Tag copied, in TAG
         i : Logicos,
         m : Metadata,     \* the t_file_metadata in memory
         arg : Tamanios \union {0},
         b : BloqueO, dato : Contenidos, res : Respuestas]

Ocioso == [pc |-> "ocioso", op |-> "ninguna", tag |-> BASE, orig |-> BASE, i |-> 0,
           m |-> MetaVacia, arg |-> 0, b |-> SinBloque, dato |-> Cero, res |-> "ok"]

\* st_nlink of a physical block file: its own name and the logical links to it.
Referencias(b) ==
    1 + Cardinality({p \in Tags \X Logicos : enlaces[p[1]][p[2]] = b})

\* Mutant: off by one.
CompartidoPorDos(b) == Referencias(b) <= 3

\* Only one logical block is linked to b: escribir_bloque writes it in place.
Exclusivo(b) == Referencias(b) = 2

\* No logical block is linked to b: eliminar_file and commitear_tag free it.
SinUso(b) == Referencias(b) = 1

\* bitarray scan of obtener_bloque_libre: the lowest free block.
Libres == Bloques \ ocupado
PrimerLibre == CHOOSE b \in Libres : \A c \in Libres : b <= c

-----------------------------------------------------------------------------
(* Control                                                                 *)

En(w, paso) == vivo /\ hilo[w].pc = paso

\* The thread goes on with new local values, holding the mutexes it holds.
Sigue(w, h) == hilo' = [hilo EXCEPT ![w] = h] /\ UNCHANGED <<lock, error_read, vivo>>

\* A request accepted under the mutex of t.
Toma(w, t, h) ==
    /\ lock[t] = Nadie
    /\ lock' = [lock EXCEPT ![t] = w]
    /\ hilo' = [hilo EXCEPT ![w] = h]
    /\ UNCHANGED <<error_read, vivo>>

\* Every mutex of w is released and the answer r is on its way.
Fin(w, r) ==
    /\ lock' = [t \in Tags |-> IF lock[t] = w THEN Nadie ELSE lock[t]]
    /\ hilo' = [hilo EXCEPT ![w] = [Ocioso EXCEPT !.pc = "responder", !.res = r]]
    /\ UNCHANGED <<error_read, vivo>>

\* Mutant: a COMMIT that leaves the state as it was.
AvanzaSinEstado(h) ==
    IF h.i + 1 < h.m.n
    THEN [h EXCEPT !.i = @ + 1, !.pc = IF h.op = "DELETE" THEN "borrar" ELSE "commitear"]
    ELSE [h EXCEPT !.pc = IF h.op = "DELETE" THEN "quitar" ELSE "guardar"]

\* Next round of the loop over the blocks of h.m, or what follows the loop.
Avanza(h) ==
    IF h.i + 1 < h.m.n
    THEN [h EXCEPT !.i = @ + 1, !.pc = IF h.op = "DELETE" THEN "borrar" ELSE "commitear"]
    ELSE IF h.op = "DELETE" THEN [h EXCEPT !.pc = "quitar"]
         ELSE [h EXCEPT !.pc = "guardar", !.m.estado = "COMMITED"]

\* A thread without work that is sent operation op for tag t, free to lock.
Pide(w, op, t) == En(w, "ocioso") /\ op \in Operaciones /\ lock[t] = Nadie

Responder(w) ==
    /\ En(w, "responder")
    /\ Sigue(w, Ocioso)
    /\ UNCHANGED disco

-----------------------------------------------------------------------------
(* CREATE: crear_file and crear_tag                                        *)

\* mkdir of the tag and its first metadata.config.
CrearTag(t) ==
    /\ t \notin directorios
    /\ directorios' = directorios \union {t}
    /\ archivos' = archivos \union {t}
    /\ meta' = [meta EXCEPT ![t] = MetaVacia]
    /\ UNCHANGED <<ocupado, contenido, enlaces, indice>>

Create(w, t) ==
    /\ Pide(w, "CREATE", t)
    /\ \/ CrearTag(t) /\ Fin(w, "ok")
       \/ t \in directorios /\ Fin(w, "preexistente") /\ UNCHANGED disco

-----------------------------------------------------------------------------
(* READ: read_block and leer_bloque. error_read is written under the mutex *)
(* of the tag, and read by read_block after that mutex is released.        *)

Read(w, t, i) ==
    /\ En(w, "ocioso") /\ "READ" \in Operaciones
    /\ error_read' = 0
    /\ hilo' = [hilo EXCEPT ![w] = [Ocioso EXCEPT !.pc = "leer", !.op = "READ",
                                                  !.tag = t, !.i = i]]
    /\ UNCHANGED <<lock, vivo>> /\ UNCHANGED disco

LeerBloque(w) ==
    LET h == hilo[w]
        causa == IF h.tag \notin archivos THEN "error"
                 ELSE IF h.i >= meta[h.tag].n THEN "fuera_de_limite" ELSE "ok"
    IN  /\ En(w, "leer") /\ lock[h.tag] = Nadie
        /\ error_read' = CASE causa = "error" -> 1
                           [] causa = "fuera_de_limite" -> 3
                           [] OTHER -> 0
        /\ hilo' = [hilo EXCEPT ![w] = [h EXCEPT !.pc = "leido", !.res = causa]]
        /\ UNCHANGED <<lock, vivo>> /\ UNCHANGED disco

\* A NULL content that error_read no longer explains is serialised all the
\* same: memcpy from NULL ends the process.
ResponderRead(w) ==
    /\ En(w, "leido")
    /\ \/ /\ hilo[w].res = "ok" \/ error_read # 0
          /\ LET motivo == IF hilo[w].res = "ok" THEN "ok"
                           ELSE IF error_read = 1 THEN "error" ELSE "fuera_de_limite"
             IN  Sigue(w, [Ocioso EXCEPT !.pc = "responder", !.res = motivo])
       \/ /\ hilo[w].res # "ok" /\ error_read = 0
          /\ vivo' = FALSE
          /\ UNCHANGED <<lock, error_read, hilo>>
    /\ UNCHANGED disco

-----------------------------------------------------------------------------
(* WRITE: escribir_bloque                                                  *)

\* Mutant: the state is not tested.
MotivoWriteSinEstado(t, i) ==
    IF t \notin archivos THEN "error"
    ELSE IF meta[t].size < BlockSize THEN "fuera_de_limite"
    ELSE IF i >= meta[t].n THEN "error" ELSE "ok"

MotivoWrite(t, i) ==
    IF t \notin archivos THEN "error"
    ELSE IF meta[t].size < BlockSize THEN "fuera_de_limite"
    ELSE IF meta[t].estado = "COMMITED" THEN "no_permitida"
    ELSE IF i >= meta[t].n THEN "error" ELSE "ok"

Write(w, t, i, d) ==
    /\ Pide(w, "WRITE", t)
    /\ \/ MotivoWrite(t, i) # "ok" /\ Fin(w, MotivoWrite(t, i))
       \/ /\ MotivoWrite(t, i) = "ok"
          /\ Toma(w, t, [Ocioso EXCEPT !.pc = "escribir", !.op = "WRITE", !.tag = t,
                                       !.i = i, !.m = meta[t], !.dato = d])
    /\ UNCHANGED disco

\* One link besides the block's own: nobody shares it, write it in place.
ContarParaEscribir(w) ==
    LET h == hilo[w] IN
    /\ En(w, "escribir")
    /\ Sigue(w, [h EXCEPT !.pc = IF Exclusivo(h.m.blocks[h.i])
                                 THEN "en_sitio" ELSE "reservar"])
    /\ UNCHANGED disco

EscribirEnSitio(w) ==
    LET h == hilo[w] IN
    /\ En(w, "en_sitio")
    /\ contenido' = [contenido EXCEPT ![h.m.blocks[h.i]] = h.dato]
    /\ Sigue(w, [h EXCEPT !.pc = "guardar"])
    /\ UNCHANGED <<ocupado, enlaces, directorios, archivos, meta, indice>>

\* Mutant: the bit is left for later.
ReservarSinMarcar(w) ==
    /\ En(w, "reservar")
    /\ IF Libres = {} THEN Fin(w, "espacio_insuficiente")
       ELSE Sigue(w, [hilo[w] EXCEPT !.pc = "copiar", !.b = PrimerLibre])
    /\ UNCHANGED disco

\* obtener_bloque_libre: found and marked in one critical section.
ReservarBloque(w) ==
    /\ En(w, "reservar")
    /\ \/ /\ Libres # {}
          /\ ocupado' = ocupado \union {PrimerLibre}
          /\ Sigue(w, [hilo[w] EXCEPT !.pc = "copiar", !.b = PrimerLibre])
       \/ /\ Libres = {}
          /\ Fin(w, "espacio_insuficiente")
          /\ UNCHANGED ocupado
    /\ UNCHANGED <<contenido, enlaces, directorios, archivos, meta, indice>>

EscribirNuevo(w) ==
    LET h == hilo[w] IN
    /\ En(w, "copiar")
    /\ contenido' = [contenido EXCEPT ![h.b] = h.dato]
    /\ Sigue(w, [h EXCEPT !.pc = "desenlazar"])
    /\ UNCHANGED <<ocupado, enlaces, directorios, archivos, meta, indice>>

\* unlink of the logical block, in WRITE and in COMMIT.
Desenlazar(w) ==
    LET h == hilo[w] IN
    /\ En(w, "desenlazar")
    /\ \/ /\ enlaces[h.tag][h.i] # SinBloque
          /\ enlaces' = [enlaces EXCEPT ![h.tag][h.i] = SinBloque]
          /\ Sigue(w, [h EXCEPT !.pc = "enlazar"])
       \/ /\ enlaces[h.tag][h.i] = SinBloque
          /\ IF h.op = "WRITE" THEN Fin(w, "error") ELSE Sigue(w, Avanza(h))
          /\ UNCHANGED enlaces
    /\ UNCHANGED <<ocupado, contenido, directorios, archivos, meta, indice>>

\* Mutant: metadata.blocks keeps the block that was unlinked.
ReasignadaAMedias(h) == h

\* metadata->blocks[bloque_logico] = bloque_nuevo.
Reasignada(h) == [h EXCEPT !.m.blocks[h.i] = h.b]

\* link of the logical block to h.b. COMMIT goes on to count the references
\* that the block it leaves still has.
Enlazar(w) ==
    LET h == hilo[w]
        anterior == h.m.blocks[h.i]
    IN  /\ En(w, "enlazar")
        /\ enlaces' = [enlaces EXCEPT ![h.tag][h.i] = h.b]
        /\ Sigue(w, IF h.op = "WRITE" THEN [Reasignada(h) EXCEPT !.pc = "guardar"]
                    ELSE [Reasignada(h) EXCEPT !.pc = "contar", !.b = anterior])
        /\ UNCHANGED <<ocupado, contenido, directorios, archivos, meta, indice>>

-----------------------------------------------------------------------------
(* TRUNCATE: truncar_file                                                  *)

\* Mutant: the state is not tested.
MotivoTruncateSinEstado(t) ==
    IF t \notin directorios THEN "inexistente" ELSE IF t \notin archivos THEN "error" ELSE "ok"

MotivoTruncate(t) ==
    IF t \notin directorios THEN "inexistente"
    ELSE IF t \notin archivos THEN "error"
    ELSE IF meta[t].estado = "COMMITED" THEN "no_permitida" ELSE "ok"

\* The metadata with the new size, its blocks cut to those that remain.
Redimensionada(m, tam) ==
    [m EXCEPT !.size = tam, !.n = Necesarios(tam),
              !.blocks = [l \in Logicos |-> IF l < Necesarios(tam) THEN m.blocks[l]
                                            ELSE SinBloque]]

Truncate(w, t, tam) ==
    LET h == [Ocioso EXCEPT !.op = "TRUNCATE", !.tag = t, !.m = meta[t], !.arg = tam]
        n == meta[t].n
    IN  /\ Pide(w, "TRUNCATE", t)
        /\ \/ MotivoTruncate(t) # "ok" /\ Fin(w, MotivoTruncate(t))
           \/ /\ MotivoTruncate(t) = "ok"
              /\ Toma(w, t, CASE Necesarios(tam) > n -> [h EXCEPT !.pc = "agrandar", !.i = n]
                              [] Necesarios(tam) < n -> [h EXCEPT !.pc = "achicar", !.i = n - 1]
                              [] OTHER -> [h EXCEPT !.pc = "guardar",
                                                    !.m = Redimensionada(meta[t], tam)])
        /\ UNCHANGED disco

\* A new logical block is a link to physical block 0; a leftover is replaced.
Agrandar(w) ==
    LET h == hilo[w]
        m == [h.m EXCEPT !.blocks[h.i] = 0]
    IN  /\ En(w, "agrandar")
        /\ enlaces' = [enlaces EXCEPT ![h.tag][h.i] = 0]
        /\ Sigue(w, IF h.i + 1 < Necesarios(h.arg) THEN [h EXCEPT !.m = m, !.i = @ + 1]
                    ELSE [h EXCEPT !.m = Redimensionada(m, h.arg), !.pc = "guardar"])
        /\ UNCHANGED <<ocupado, contenido, directorios, archivos, meta, indice>>

\* Mutants: one round too many, one too few.
SiguienteAchicarLargo(h) ==
    IF h.i >= Necesarios(h.arg) THEN [h EXCEPT !.i = @ - 1, !.pc = "achicar"]
    ELSE [h EXCEPT !.m = Redimensionada(h.m, h.arg), !.pc = "guardar"]
SiguienteAchicarCorto(h) ==
    IF h.i > Necesarios(h.arg) + 1 THEN [h EXCEPT !.i = @ - 1, !.pc = "achicar"]
    ELSE [h EXCEPT !.m = Redimensionada(h.m, h.arg), !.pc = "guardar"]

\* The round after logical block h.i has been dealt with.
SiguienteAchicar(h) ==
    IF h.i > Necesarios(h.arg) THEN [h EXCEPT !.i = @ - 1, !.pc = "achicar"]
    ELSE [h EXCEPT !.m = Redimensionada(h.m, h.arg), !.pc = "guardar"]

\* The references are counted before the unlink, so the link that is about
\* to go is among them.
Achicar(w) ==
    LET h == hilo[w]
        b == h.m.blocks[h.i]
    IN  /\ En(w, "achicar")
        /\ enlaces' = [enlaces EXCEPT ![h.tag][h.i] = SinBloque]
        /\ Sigue(w, IF enlaces[h.tag][h.i] # SinBloque /\ Referencias(b) = 1
                    THEN [h EXCEPT !.pc = "liberar", !.b = b]
                    ELSE SiguienteAchicar(h))
        /\ UNCHANGED <<ocupado, contenido, directorios, archivos, meta, indice>>

-----------------------------------------------------------------------------
(* DELETE: eliminar_file. Freeing a block takes three steps: unlink, stat, *)
(* and marcar_bloque_libre.                                                *)

Delete(w, t) ==
    /\ Pide(w, "DELETE", t)
    /\ BorraCommited \/ meta[t].estado # "COMMITED"
    /\ \/ t \notin archivos /\ Fin(w, "error")
       \/ /\ t \in archivos
          /\ Toma(w, t, [Ocioso EXCEPT !.op = "DELETE", !.tag = t, !.m = meta[t],
                                       !.pc = IF meta[t].n = 0 THEN "quitar" ELSE "borrar"])
    /\ UNCHANGED disco

BorrarEnlace(w) ==
    LET h == hilo[w] IN
    /\ En(w, "borrar")
    /\ \/ /\ enlaces[h.tag][h.i] # SinBloque
          /\ enlaces' = [enlaces EXCEPT ![h.tag][h.i] = SinBloque]
          /\ Sigue(w, [h EXCEPT !.pc = "contar", !.b = h.m.blocks[h.i]])
       \/ /\ enlaces[h.tag][h.i] = SinBloque
          /\ Fin(w, "error")
          /\ UNCHANGED enlaces
    /\ UNCHANGED <<ocupado, contenido, directorios, archivos, meta, indice>>

\* contar_referencias_bloque_fisico after an unlink, in DELETE and in COMMIT.
ContarReferencias(w) ==
    LET h == hilo[w] IN
    /\ En(w, "contar")
    /\ Sigue(w, IF SinUso(h.b) THEN [h EXCEPT !.pc = "liberar"] ELSE Avanza(h))
    /\ UNCHANGED disco

MarcarLibre(w) ==
    LET h == hilo[w] IN
    /\ En(w, "liberar")
    /\ ocupado' = ocupado \ {h.b}
    /\ Sigue(w, IF h.op = "TRUNCATE" THEN SiguienteAchicar(h) ELSE Avanza(h))
    /\ UNCHANGED <<contenido, enlaces, directorios, archivos, meta, indice>>

\* metadata.config goes, and the directories with it unless links are left.
QuitarTag(w) ==
    LET t == hilo[w].tag
        vacio == enlaces[t] = SinEnlaces
    IN  /\ En(w, "quitar")
        /\ archivos' = archivos \ {t}
        /\ meta' = [meta EXCEPT ![t] = MetaVacia]
        /\ directorios' = IF vacio THEN directorios \ {t} ELSE directorios
        /\ Fin(w, IF vacio THEN "ok" ELSE "error")
        /\ UNCHANGED <<ocupado, contenido, enlaces, indice>>

-----------------------------------------------------------------------------
(* COMMIT: commitear_tag                                                   *)

Commit(w, t) ==
    LET h == [Ocioso EXCEPT !.op = "COMMIT", !.tag = t, !.m = meta[t]] IN
    /\ Pide(w, "COMMIT", t)
    /\ \/ t \notin archivos /\ Fin(w, "error")
       \/ t \in archivos /\ meta[t].estado = "COMMITED" /\ Fin(w, "ok")
       \/ /\ t \in archivos /\ meta[t].estado # "COMMITED"
          /\ Toma(w, t, IF meta[t].n = 0
                        THEN [h EXCEPT !.pc = "guardar", !.m.estado = "COMMITED"]
                        ELSE [h EXCEPT !.pc = "commitear"])
    /\ UNCHANGED disco

\* buscar_bloque_por_hash with the contents of the logical block. Block 0 is
\* never deduplicated.
BuscarHash(w) ==
    LET h == hilo[w]
        b == h.m.blocks[h.i]
        encontrado == indice[contenido[b]]
    IN  /\ En(w, "commitear")
        /\ Sigue(w, IF b = 0 THEN Avanza(h)
                    ELSE IF encontrado # SinBloque
                         THEN [h EXCEPT !.pc = "desenlazar", !.b = encontrado]
                         ELSE [h EXCEPT !.pc = "indexar", !.dato = contenido[b]])
        /\ UNCHANGED disco

\* guardar_hash_bloque appends a line; a search stops at the first one.
GuardarHash(w) ==
    LET h == hilo[w] IN
    /\ En(w, "indexar")
    /\ \/ /\ indice[h.dato] = SinBloque
          /\ indice' = [indice EXCEPT ![h.dato] = h.m.blocks[h.i]]
       \/ /\ indice[h.dato] # SinBloque
          /\ UNCHANGED indice
    /\ Sigue(w, Avanza(h))
    /\ UNCHANGED <<ocupado, contenido, enlaces, directorios, archivos, meta>>

-----------------------------------------------------------------------------
(* TAG: copiar_tag. The new tag is created under its mutex, which is let   *)
(* go and taken again to fill it; the origin's is held all along.          *)

Tag(w, o, d) ==
    /\ Pide(w, "TAG", o)
    /\ \/ o \notin archivos /\ Fin(w, "error")
       \/ /\ o \in archivos
          /\ Toma(w, o, [Ocioso EXCEPT !.pc = "crear_destino", !.op = "TAG",
                                       !.tag = d, !.orig = o, !.m = meta[o]])
    /\ UNCHANGED disco

CrearDestino(w) ==
    LET h == hilo[w] IN
    /\ En(w, "crear_destino") /\ lock[h.tag] = Nadie
    /\ \/ CrearTag(h.tag) /\ Sigue(w, [h EXCEPT !.pc = "tomar_destino"])
       \/ h.tag \in directorios /\ Fin(w, "preexistente") /\ UNCHANGED disco

TomarDestino(w) ==
    LET h == hilo[w] IN
    /\ En(w, "tomar_destino") /\ lock[h.tag] = Nadie
    /\ \/ h.tag \notin archivos /\ Fin(w, "error")
       \/ /\ h.tag \in archivos
          /\ Toma(w, h.tag, [h EXCEPT !.pc = IF h.m.n = 0 THEN "guardar" ELSE "copiar_enlace",
                                      !.m.estado = meta[h.tag].estado])
    /\ UNCHANGED disco

CopiarEnlace(w) ==
    LET h == hilo[w] IN
    /\ En(w, "copiar_enlace")
    /\ \/ /\ enlaces[h.tag][h.i] = SinBloque
          /\ enlaces' = [enlaces EXCEPT ![h.tag][h.i] = h.m.blocks[h.i]]
          /\ Sigue(w, IF h.i + 1 < h.m.n THEN [h EXCEPT !.i = @ + 1]
                      ELSE [h EXCEPT !.pc = "guardar"])
       \/ /\ enlaces[h.tag][h.i] # SinBloque
          /\ Fin(w, "error")
          /\ UNCHANGED enlaces
    /\ UNCHANGED <<ocupado, contenido, directorios, archivos, meta, indice>>

-----------------------------------------------------------------------------
\* guardar_metadata_file at the end of WRITE, TRUNCATE, COMMIT and TAG.
GuardarMetadata(w) ==
    LET h == hilo[w] IN
    /\ En(w, "guardar")
    /\ meta' = [meta EXCEPT ![h.tag] = h.m]
    /\ Fin(w, "ok")
    /\ UNCHANGED <<ocupado, contenido, enlaces, directorios, archivos, indice>>

\* A freshly formatted filesystem (formatear, crear_initial_file).
Init ==
    /\ ocupado = {0}
    /\ contenido = [b \in Bloques |-> Cero]
    /\ enlaces = [t \in Tags |-> IF t = BASE THEN [SinEnlaces EXCEPT ![0] = 0] ELSE SinEnlaces]
    /\ directorios = {BASE}
    /\ archivos = {BASE}
    /\ meta = [t \in Tags |->
                 IF t = BASE
                 THEN [size |-> BlockSize, estado |-> "COMMITED", n |-> 1,
                       blocks |-> [SinEnlaces EXCEPT ![0] = 0]]
                 ELSE MetaVacia]
    /\ indice = [c \in Contenidos |-> IF c = Cero THEN 0 ELSE SinBloque]
    /\ lock = [t \in Tags |-> Nadie]
    /\ error_read = 0
    /\ vivo = TRUE
    /\ hilo = [w \in Workers |-> Ocioso]

\* What a Worker asks for next.
Pedido(w) ==
    \E t \in Tags :
        \/ Create(w, t) \/ Delete(w, t) \/ Commit(w, t)
        \/ \E tam \in Tamanios : Truncate(w, t, tam)
        \/ \E i \in Logicos : Read(w, t, i)
        \/ \E i \in Logicos, d \in Contenidos : Write(w, t, i, d)
        \/ \E d \in Tags : Tag(w, t, d)

\* What the thread serving it does.
Paso(w) ==
    \/ Responder(w) \/ LeerBloque(w) \/ ResponderRead(w)
    \/ ContarParaEscribir(w) \/ EscribirEnSitio(w) \/ ReservarBloque(w) \/ EscribirNuevo(w)
    \/ Desenlazar(w) \/ Enlazar(w) \/ Agrandar(w) \/ Achicar(w)
    \/ BorrarEnlace(w) \/ ContarReferencias(w) \/ MarcarLibre(w) \/ QuitarTag(w)
    \/ BuscarHash(w) \/ GuardarHash(w)
    \/ CrearDestino(w) \/ TomarDestino(w) \/ CopiarEnlace(w) \/ GuardarMetadata(w)

Next == \E w \in Workers : Pedido(w) \/ Paso(w)

Spec == Init /\ [][Next]_vars

=============================================================================
