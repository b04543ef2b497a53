---------------------------- MODULE CerrojosStorage ----------------------------
(***************************************************************************)
(* The operations of the Storage as the mutexes they take, in the order    *)
(* they take them (storage/src/filesystem.c), for the module Cerrojos.     *)
(* Each early return is a path: most let go what was taken before them,    *)
(* and three do not. An operation on blocks handles at most one.           *)
(***************************************************************************)
EXTENDS PasosDeCerrojo

CONSTANT FileTags   \* each File:Tag has a mutex, created the first time it is asked for

ObtenerLock == Con("locks_dict", <<>>)

\* obtener_lock_file_tag, and the operation with the mutex it returns.
ConFileTag(ft, s) == ObtenerLock \o Con(ft, s)

\* A return that leaves the mutex of the File:Tag taken.
SinSoltarFileTag(ft, s) == ObtenerLock \o (<<Tomar(ft)>> \o s)

SinTomar == <<>>
Bitmap == Con("bitmap", <<>>)      \* obtener_bloque_libre, marcar_bloque_libre
Hash == Con("hash_index", <<>>)  \* buscar_bloque_por_hash, guardar_hash_bloque

LeerBloque(ft) == {ConFileTag(ft, SinTomar)}

\* escritura_bloque cannot open the file of the block, which is the one the
\* File:Tag has or the one just reserved: escribir_bloque returns there and then.
EscribirBloque(ft) ==
    {ConFileTag(ft, s) : s \in {SinTomar, Bitmap}}
    \union {SinSoltarFileTag(ft, s) : s \in {SinTomar, Bitmap}}

\* The second return is the one with no path for the file.
CrearFile(ft) == {ConFileTag(ft, SinTomar), SinSoltarFileTag(ft, SinTomar)}

EliminarFile(ft) == {ConFileTag(ft, s) : s \in {SinTomar, Bitmap}}
TruncarFile(ft) == {ConFileTag(ft, s) : s \in {SinTomar, Bitmap}}

\* Mutant: a COMMIT of what is already COMMITTED returns with the mutex taken.
CommitSinSoltar(ft) ==
    {SinSoltarFileTag(ft, SinTomar)}
    \union {ConFileTag(ft, s) : s \in {Hash, Hash \o Bitmap, Hash \o Hash}}

CommitearTag(ft) == {ConFileTag(ft, s) : s \in {SinTomar, Hash, Hash \o Bitmap, Hash \o Hash}}

\* With the origin taken: crear_file, and the destination again if it was created.
CopiarTag(origen, destino) ==
    {ConFileTag(origen, s) : s \in CrearFile(destino)
        \union {SinTomar, ConFileTag(destino, SinTomar) \o ConFileTag(destino, SinTomar)}}

OtrasOperaciones(ft) == LeerBloque(ft) \union EliminarFile(ft) \union TruncarFile(ft)

FuncionesStorage ==
    {Funcion("escribir_bloque", s) : s \in UNION {EscribirBloque(ft) : ft \in FileTags}}
    \union {Funcion("crear_file", s) : s \in UNION {CrearFile(ft) : ft \in FileTags}}
    \union {Funcion("commitear_tag", s) : s \in UNION {CommitearTag(ft) : ft \in FileTags}}
    \union {Funcion("otra", s) : s \in UNION {OtrasOperaciones(ft) : ft \in FileTags}}
    \union {Funcion("copiar_tag", s) : s \in UNION {CopiarTag(x[1], x[2]) : x \in FileTags \X FileTags}}
=============================================================================
