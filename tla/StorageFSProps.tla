---------------------------- MODULE StorageFSProps ----------------------------
(* What the Storage promises about its disk, and the invariant behind it.    *)
EXTENDS StorageFS

\* The values every variable can take: a bitmap over the physical blocks,
\* links to them, threads at one of their steps.
TypeOK ==
    /\ ocupado \subseteq Bloques
    /\ contenido \in [Bloques -> Contenidos]
    /\ enlaces \in [Tags -> [Logicos -> BloqueO]]
    /\ directorios \subseteq Tags
    /\ archivos \subseteq Tags
    /\ meta \in [Tags -> Metadata]
    /\ indice \in [Contenidos -> BloqueO]
    /\ lock \in [Tags -> Workers \union {Nadie}]
    /\ error_read \in 0 .. 3
    /\ vivo \in BOOLEAN
    /\ hilo \in [Workers -> Hilo]

\* The disk is whole for t: every block its metadata.config lists is the one
\* its logical link leads to.
Entera(t) ==
    \A l \in Logicos : l < meta[t].n =>
        meta[t].blocks[l] # SinBloque /\ enlaces[t][l] = meta[t].blocks[l]

\* What a thread finds when it takes the mutex of a File:Tag is whole,
\* whatever was done to that tag and its blocks before: this is what the
\* File:Tag mutexes are for (comment of filesystem.c:32).
MetadataRespaldada == \A t \in archivos : lock[t] = Nadie => Entera(t)

\* The mutexes a thread in local state h holds.
Posee(h) ==
    CASE h.pc \in {"ocioso", "responder", "leer", "leido"} -> {}
      [] h.pc \in {"crear_destino", "tomar_destino"} -> {h.orig}
      [] h.pc \in {"copiar_enlace", "guardar"} /\ h.op = "TAG" -> {h.orig, h.tag}
      [] OTHER -> {h.tag}

\* A mutex is held by exactly the thread that is inside its section.
Cerrojos == \A w \in Workers, t \in Tags : lock[t] = w <=> t \in Posee(hilo[w])

\* The metadata in memory and the links agree on logical block l.
Coincide(h, l) == h.m.blocks[l] # SinBloque /\ enlaces[h.tag][l] = h.m.blocks[l]

\* The logical blocks on which they agree at each step of each operation.
Coinciden(h) ==
    CASE h.pc = "enlazar"                            -> {l \in Logicos : l < h.m.n /\ l # h.i}
      [] h.pc \in {"agrandar", "copiar_enlace"}      -> {l \in Logicos : l < h.i}
      [] h.pc = "achicar"                            -> {l \in Logicos : l <= h.i}
      [] h.pc = "liberar" /\ h.op = "TRUNCATE"       -> {l \in Logicos : l < h.i}
      [] h.pc = "borrar"                             -> {l \in Logicos : l < h.m.n /\ l >= h.i}
      [] h.pc \in {"contar", "liberar"} /\ h.op = "DELETE"
                                                     -> {l \in Logicos : l < h.m.n /\ l > h.i}
      [] h.pc = "quitar"                             -> {}
      [] OTHER                                       -> {l \in Logicos : l < h.m.n}

\* The operations each step belongs to.
OperacionesDe(paso) ==
    CASE paso \in {"escribir", "en_sitio", "reservar", "copiar"} -> {"WRITE"}
      [] paso \in {"desenlazar", "enlazar"} -> {"WRITE", "COMMIT"}
      [] paso \in {"agrandar", "achicar"} -> {"TRUNCATE"}
      [] paso \in {"borrar", "quitar"} -> {"DELETE"}
      [] paso \in {"commitear", "indexar"} -> {"COMMIT"}
      [] paso = "contar" -> {"DELETE", "COMMIT"}
      [] paso = "liberar" -> {"DELETE", "COMMIT", "TRUNCATE"}
      [] paso \in {"crear_destino", "tomar_destino", "copiar_enlace"} -> {"TAG"}
      [] paso = "guardar" -> {"WRITE", "TRUNCATE", "COMMIT", "TAG"}
      [] OTHER -> OperacionesFS \union {"ninguna"}

\* What the code after a step relies on: the loop index ...
Indices(h) ==
    /\ h.pc \in {"escribir", "en_sitio", "reservar", "copiar", "desenlazar", "enlazar",
                 "borrar", "commitear", "indexar", "contar", "copiar_enlace"} => h.i < h.m.n
    /\ h.pc = "liberar" /\ h.op # "TRUNCATE" => h.i < h.m.n
    /\ h.pc = "agrandar" => h.m.n <= h.i /\ h.i < Necesarios(h.arg)
    /\ h.pc \in {"achicar", "liberar"} /\ h.op = "TRUNCATE" =>
          Necesarios(h.arg) <= h.i /\ h.i < h.m.n
    /\ h.pc \in {"crear_destino", "tomar_destino"} => h.i = 0

\* ... the blocks it is about to link ...
Listados(h) ==
    /\ h.pc \in {"copiar", "desenlazar", "enlazar"} => h.b # SinBloque
    /\ h.pc \in {"crear_destino", "tomar_destino", "copiar_enlace"} =>
          \A l \in Logicos : l < h.m.n => h.m.blocks[l] # SinBloque

\* ... and, of the tags it holds, the metadata, in memory and on disk.
EnOrden(h) ==
    /\ h.pc \in {"crear_destino", "tomar_destino", "copiar_enlace", "guardar"} /\ h.op = "TAG" =>
          h.orig \in archivos /\ Entera(h.orig)
    /\ h.pc \in {"copiar_enlace", "guardar"} /\ h.op = "TAG" => h.orig # h.tag
    /\ h.tag \in Posee(h) /\ h.pc \notin {"crear_destino", "tomar_destino"} =>
          h.tag \in archivos /\ \A l \in Coinciden(h) : Coincide(h, l)
    /\ h.pc = "copiar_enlace" => Entera(h.tag)
    /\ h.op = "WRITE" /\ h.pc \in {"escribir", "en_sitio", "reservar", "copiar", "desenlazar"} =>
          h.m = meta[h.tag]

Orden(w) ==
    /\ hilo[w].op \in OperacionesDe(hilo[w].pc)
    /\ Indices(hilo[w]) /\ Listados(hilo[w]) /\ EnOrden(hilo[w])

\* The inductive invariant behind MetadataRespaldada: who holds each mutex,
\* and how far the links of a held tag are from its metadata.
Disciplina == Cerrojos /\ MetadataRespaldada /\ \A w \in Workers : Orden(w)

\* COMMITED is final: once metadata.config says so it changes only when the
\* tag is deleted, or by the TAG operation that created the tag and is still
\* to fill it. WRITE, TRUNCATE and COMMIT test the state when they start and
\* write the metadata they read when they end.
CommitedCongelado ==
    [][\A t \in archivos \intersect archivos' :
          meta[t].estado = "COMMITED" /\ meta'[t] # meta[t] =>
             \E w \in Workers : lock[t] = w /\ hilo[w].op = "TAG" /\ hilo[w].tag = t]_vars

\* No block with a logical link to it is free in the bitmap: it would be
\* handed out, and written, while a File:Tag uses it (comment of
\* filesystem.c:34).
OcupadoSiReferenciado == \A b \in Bloques : Referencias(b) > 1 => b \in ocupado

\* The block the index gives for a content has that content, so COMMIT
\* replaces a block by one that reads the same.
IndiceVeraz ==
    \A c \in Contenidos : indice[c] # SinBloque => contenido[indice[c]] = c

\* A READ that fails is answered with the reason it failed for, and the
\* Storage goes on (operaciones.c:136-151).
LecturaContestada ==
    [][\A w \in Workers : hilo[w].pc = "leido" =>
          vivo' /\ (hilo'[w] = hilo[w] \/ hilo'[w].res = hilo[w].res)]_vars

=============================================================================
