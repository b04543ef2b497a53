-------------------------------- MODULE Paquetes --------------------------------
(***************************************************************************)
(* What the programs say to each other: a packet is a header, the size of  *)
(* its payload, and the payload, field after field, if it has any. Each    *)
(* program writes its packets (serializacion.c) and reads those of the     *)
(* others (deserializacion.c) by itself, so the order of the fields is     *)
(* written twice. Also the lines of a query's file, as a Worker reads them *)
(* (worker/src/deserializacion.c).                                         *)
(***************************************************************************)
EXTENDS Integers, Sequences

\* The stream of a socket is made of words: what obtener_header reads, and what
\* obtener_payload reads, the size with the fields that follow it.
PalabraHeader(h)  == [tipo |-> "header", header |-> h, campos |-> <<>>]
PalabraCuerpo(cs) == [tipo |-> "cuerpo", header |-> "ninguno", campos |-> cs]

Paquete(header, campos) == <<PalabraHeader(header), PalabraCuerpo(campos)>>

-----------------------------------------------------------------------------
(* The packets, as their senders write them                                *)

HandshakeWorker(id)             == Paquete("HANDSHAKE_WORKER", <<id>>)
HandshakeMaster(archivo, prio)  == Paquete("HANDSHAKE_QUERY_CONTROL", <<archivo, prio>>)
RespuestaHandshake              == Paquete("HANDSHAKE_OK", <<>>)
RespuestaHandshakeStorage(tam)  == Paquete("HANDSHAKE_OK", <<tam>>)
RespuestaHandshakeDesconocido   == Paquete("HANDSHAKE_ERROR", <<>>)

OperacionCreate(f, t, q)        == Paquete("CREATE_FILE", <<q, f, t>>)
OperacionTruncate(f, t, tam, q) == Paquete("TRUNCATE_FILE", <<q, f, t, tam>>)
OperacionWrite(f, t, n, datos, tam, q) == Paquete("WRITE_BLOCK", <<q, f, t, n, tam, datos>>)
OperacionRead(f, t, n, q)       == Paquete("READ_BLOCK", <<q, f, t, n>>)
OperacionTag(fo, to, fd, td, q) == Paquete("TAG_FILE", <<q, fo, to, fd, td>>)
OperacionCommit(f, t, q)        == Paquete("COMMIT_TAG", <<q, f, t>>)
OperacionDelete(f, t, q)        == Paquete("REMOVE_TAG", <<q, f, t>>)

ErrorOperacion(motivo)          == Paquete("ERROR_OPERACION", <<motivo>>)
RespuestaRead(datos, tam)       == Paquete("RESPUESTA_READ_BLOCK", <<1, tam, datos>>)

ComandoEjecutar(q, path, pc)    == Paquete("EJECUTAR_QUERY", <<path, q, pc>>)
MensajeLectura(f, t, datos)     == Paquete("LECTURA_REALIZADA", <<f, t, datos>>)
FinQuery(q, motivo)             == Paquete("QUERY_FINALIZADA", <<q, motivo>>)
MensajeLecturaQC(f, t, datos)   == Paquete("QC_LECTURA", <<f, t, datos>>)
MensajeFinalizacion(motivo)     == Paquete("QC_FINALIZACION", <<motivo>>)

\* The answer to each operation that goes well; only READ's has fields.
RespuestaDe ==
    [CREATE_FILE |-> "RESPUESTA_CREATE_FILE", TRUNCATE_FILE |-> "RESPUESTA_TRUNCATE_FILE",
     TAG_FILE |-> "RESPUESTA_TAG_FILE", COMMIT_TAG |-> "RESPUESTA_COMMIT_TAG",
     WRITE_BLOCK |-> "RESPUESTA_WRITE_BLOCK", READ_BLOCK |-> "RESPUESTA_READ_BLOCK",
     REMOVE_TAG |-> "RESPUESTA_REMOVE_TAG"]

Operaciones == DOMAIN RespuestaDe

-----------------------------------------------------------------------------
(* The operations, as the Storage reads them                               *)

Nula == [op |-> "NULL"]

FileTag(op, p) == [op |-> op, query_id |-> p[1], file |-> p[2], tag |-> p[3]]

\* Mutant: the origin of a TAG is read for its destination.
DeserializarTagAlReves(p) ==
    [op |-> "TAG_FILE", query_id |-> p[1],
     file_destino |-> p[2], tag_destino |-> p[3], file_origen |-> p[4], tag_origen |-> p[5]]

DeserializarTag(p) ==
    [op |-> "TAG_FILE", query_id |-> p[1],
     file_origen |-> p[2], tag_origen |-> p[3], file_destino |-> p[4], tag_destino |-> p[5]]

DeserializarWrite(p) ==
    [op |-> "WRITE_BLOCK", query_id |-> p[1], file |-> p[2], tag |-> p[3],
     bloque |-> p[4], tamanio |-> p[5], contenido |-> p[6]]

DeserializarRead(p) ==
    [op |-> "READ_BLOCK", query_id |-> p[1], file |-> p[2], tag |-> p[3], bloque |-> p[4]]

DeserializarTruncate(p) ==
    [op |-> "TRUNCATE_FILE", query_id |-> p[1], file |-> p[2], tag |-> p[3], tamanio |-> p[4]]

\* deserializar: NULL for every other header but that of the handshake.
Deserializar(header, p) ==
    CASE header \in {"CREATE_FILE", "COMMIT_TAG", "REMOVE_TAG"} -> FileTag(header, p)
      [] header = "TRUNCATE_FILE"    -> DeserializarTruncate(p)
      [] header = "WRITE_BLOCK"      -> DeserializarWrite(p)
      [] header = "READ_BLOCK"       -> DeserializarRead(p)
      [] header = "TAG_FILE"         -> DeserializarTag(p)
      [] header = "HANDSHAKE_WORKER" -> [op |-> header]
      [] OTHER                       -> Nula

-----------------------------------------------------------------------------
(* The lines of a query's file                                             *)

\* FILE:TAG, split at the colons; with no tag, both are empty.
SepararFileTag(partes) == IF Len(partes) >= 2 THEN <<partes[1], partes[2]>> ELSE <<"", "">>

\* A line is the sequence of its words; verbs that are not known give no
\* instruction.
ParsearInstruccion(linea) ==
    LET verbo == linea[1]
        ft    == SepararFileTag(linea[2])
        otro  == SepararFileTag(linea[3])
    IN  CASE verbo \in {"CREATE", "COMMIT", "FLUSH", "DELETE"} ->
                [tipo |-> verbo, file |-> ft[1], tag |-> ft[2]]
          [] verbo = "TRUNCATE" ->
                [tipo |-> verbo, file |-> ft[1], tag |-> ft[2], tamanio |-> linea[3]]
          [] verbo = "WRITE" ->
                [tipo |-> verbo, file |-> ft[1], tag |-> ft[2],
                 base |-> linea[3], tamanio |-> linea[4]]
          [] verbo = "READ" ->
                [tipo |-> verbo, file |-> ft[1], tag |-> ft[2],
                 base |-> linea[3], tamanio |-> linea[4]]
          [] verbo = "TAG" ->
                [tipo |-> verbo, file |-> ft[1], tag |-> ft[2],
                 file_destino |-> otro[1], tag_destino |-> otro[2]]
          [] verbo = "END" -> [tipo |-> verbo]
          [] OTHER -> [tipo |-> "NULL"]
=============================================================================
