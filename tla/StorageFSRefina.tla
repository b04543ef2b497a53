---------------------------- MODULE StorageFSRefina ----------------------------
(* StorageFS implements ArchivosLogicos: the refinement mapping.             *)
EXTENDS StorageFSProps

\* What a File:Tag shows past its end is not a content.
ASSUME NadaAssumption == "nada" \notin Contenidos

\* The local states of the threads inside one of ops for tag t: at most one,
\* by its mutex.
Haciendo(ops, t) == {hilo[w] : w \in {v \in Workers :
                        lock[t] = v /\ hilo[v].tag = t /\ hilo[v].op \in ops}}
El(hs) == CHOOSE h \in hs : TRUE

\* The size of t. A TRUNCATE counts as done when it takes the mutex, because
\* it drops links that metadata.config goes on listing until the end.
SizeDe(t) == LET hs == Haciendo({"TRUNCATE"}, t)
             IN  IF hs = {} THEN meta[t].size ELSE El(hs).arg

\* The blocks of t. WRITE and COMMIT give a block up when they unlink it, and
\* the one that replaces it is listed in memory until the end.
BloquesDe(t) ==
    LET hs == Haciendo({"WRITE", "COMMIT"}, t)
        h  == El(hs)
    IN  IF hs = {} THEN meta[t].blocks
        ELSE IF h.pc = "enlazar" THEN [h.m.blocks EXCEPT ![h.i] = h.b]
        ELSE h.m.blocks

\* A File:Tag as its user sees it: the contents of its blocks. It is gone
\* from the moment a DELETE starts to take it apart.
Visto(t) ==
    IF t \notin archivos \/ Haciendo({"DELETE"}, t) # {}
    THEN [existe |-> FALSE, size |-> 0, estado |-> "WORK_IN_PROGRESS",
          datos |-> [l \in Logicos |-> "nada"]]
    ELSE [existe |-> TRUE, size |-> SizeDe(t), estado |-> meta[t].estado,
          datos |-> [l \in Logicos |->
                       IF l >= Necesarios(SizeDe(t)) THEN "nada"
                       ELSE IF l < meta[t].n THEN contenido[BloquesDe(t)[l]] ELSE Cero]]

AL == INSTANCE ArchivosLogicos WITH arch <- [t \in Tags |-> Visto(t)]

\* Sharing blocks between File:Tags, copying them on write, deduplicating and
\* freeing them is invisible: every step changes at most one File:Tag, in the
\* way one operation of ArchivosLogicos does.
ImplementaArchivos == AL!Spec
=============================================================================
