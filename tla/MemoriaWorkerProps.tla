-------------------------- MODULE MemoriaWorkerProps ---------------------------
(* What the internal memory of a Worker promises to the queries it runs.     *)
EXTENDS MemoriaWorker

\* The values of the variables that instructions change.
TipoMemoria ==
    /\ algoritmo \in Algoritmos
    /\ marcos_ocupados \subseteq Marcos
    /\ memoria \in [Celdas -> Valores]
    /\ tablas_de_paginas \in [Tablas -> [Paginas -> Pagina]]
    /\ accesos \in Seq(Tablas \X Paginas)
    /\ puntero_clock \in Marcos
    /\ query_en_ejecucion \in BOOLEAN
    /\ sin_leer \in BOOLEAN
    /\ instruccion \in Instruccion
    /\ almacen \in [Tablas -> Archivo]

\* The values every variable can take.
TypeOK == TipoMemoria /\ sin_lugar \subseteq Tablas \X Paginas

\* A frame belongs to one present page at most, and the frames in use are
\* exactly those of the present pages: otherwise two File:Tags would write on
\* each other, or a frame would never be given again.
MarcosConsistentes ==
    /\ \A x, y \in Presentes(tablas_de_paginas) :
          tablas_de_paginas[x[1]][x[2]].marco = tablas_de_paginas[y[1]][y[2]].marco => x = y
    /\ marcos_ocupados =
          {tablas_de_paginas[x[1]][x[2]].marco : x \in Presentes(tablas_de_paginas)}

\* With every frame in use there is a present page to replace, whatever the
\* bits of the pages and their last accesses: a query is never told that there
\* is no frame (tabla_de_paginas.c:163, 234).
SiempreHayVictima == MarcosLibres = {} =>
    IF algoritmo = "LRU" THEN accesos # <<>> /\ VictimaLRU \in Presentes(tablas_de_paginas)
    ELSE PosicionClock # SinMarco

\* The bytes of page p of t as an instruction reads them: in its frame when it
\* is present, in the Storage otherwise.
Vista ==
    [t \in Tablas |-> [p \in Paginas |->
        IF tablas_de_paginas[t][p].presente
        THEN Contenido(memoria, tablas_de_paginas[t][p].marco) ELSE almacen[t].bloques[p]]]

Plana == INSTANCE MemoriaPlana
    WITH vista <- Vista, fallida <- (instruccion = Fallida), sigue <- query_en_ejecucion

\* Misses, replacements, flushes, COMMIT, END and evictions do not change what
\* a query reads: the memory is the flat array of bytes MemoriaPlana describes.
\* When the Storage refuses a page the bytes may be lost, and the query ends.
ImplementaPlana == Plana!Spec

\* A page that is present and has not been modified is a copy of the block in
\* the Storage ("Cargar página desde Storage", tabla_de_paginas.c:99).
CopiaFiel ==
    query_en_ejecucion =>
        \A x \in Presentes(tablas_de_paginas) \ Sucias(tablas_de_paginas) :
            Vista[x[1]][x[2]] = almacen[x[1]].bloques[x[2]]
=============================================================================
