---------------------------- MODULE StorageFSProofs ----------------------------
(* Proofs about StorageFS, for every number of threads, tags and blocks.     *)
EXTENDS StorageFSRefina, FiniteSetTheorems, WellFoundedInduction, TLAPS

\* A step of w that leaves the tags of the other threads alone preserves the
\* discipline, if it keeps its own: what the mutexes give.
LEMMA Marco ==
    ASSUME TypeOK, Disciplina, NEW w \in Workers,
           \A v \in Workers : v # w => hilo'[v] = hilo[v],
           \A t \in Tags : lock[t] \notin {w, Nadie} =>
              /\ lock'[t] = lock[t] /\ enlaces'[t] = enlaces[t] /\ meta'[t] = meta[t]
              /\ t \in archivos' <=> t \in archivos,
           \A t \in Tags : lock[t] \in {w, Nadie} => lock'[t] \in {w, Nadie},
           \A t \in Tags : lock'[t] = w <=> t \in Posee(hilo'[w]),
           Orden(w)',
           \A t \in archivos' : t \in Tags /\ (lock[t] \in {w, Nadie} /\ lock'[t] = Nadie => Entera(t)')
    PROVE  Disciplina'
<1>1. Cerrojos'
  BY WorkersAssumption DEF Disciplina, Cerrojos
<1>2. MetadataRespaldada'
  BY WorkersAssumption DEF TypeOK, Disciplina, MetadataRespaldada, Entera
<1>3. ASSUME NEW v \in Workers, v # w PROVE Orden(v)'
  <2>1. PICK h \in Hilo : h = hilo[v]
    BY DEF TypeOK
  <2>2. h.op \in OperacionesDe(h.pc) /\ Indices(h) /\ Listados(h) /\ EnOrden(h)
    BY <2>1 DEF Disciplina, Orden
  <2>3. \A t \in Tags : t \in Posee(h) =>
            /\ enlaces'[t] = enlaces[t] /\ meta'[t] = meta[t]
            /\ (t \in archivos') <=> (t \in archivos)
    BY <1>3, <2>1, WorkersAssumption DEF Disciplina, Cerrojos
  <2>4. h.tag \in Tags /\ h.orig \in Tags
    BY DEF Hilo
  <2>5. EnOrden(h)'
    <3>1. h.tag \in Posee(h) => Entera(h.tag)' <=> Entera(h.tag)
      BY <2>3, <2>4 DEF Entera
    <3>2. h.orig \in Posee(h) => Entera(h.orig)' <=> Entera(h.orig)
      BY <2>3, <2>4 DEF Entera
    <3>3. h.pc \in {"crear_destino", "tomar_destino", "copiar_enlace", "guardar"} /\ h.op = "TAG" =>
              h.orig \in Posee(h)
      BY DEF Posee
    <3>4. /\ h.pc = "copiar_enlace" => h.tag \in Posee(h)
          /\ h.pc \in {"escribir", "en_sitio", "reservar", "copiar", "desenlazar"} => h.tag \in Posee(h)
      BY DEF Posee
    <3>5. h.tag \in Posee(h) => \A l : Coincide(h, l)' <=> Coincide(h, l)
      BY <2>3, <2>4 DEF Coincide
    <3> HIDE DEF Posee, Coinciden
    <3> QED
      BY <2>2, <2>3, <2>4, <3>1, <3>2, <3>3, <3>4, <3>5 DEF EnOrden
  <2>6. hilo'[v] = h
    BY <1>3, <2>1
  <2> QED
    BY <2>2, <2>5, <2>6 DEF Orden, Indices, Listados
<1> QED
  BY <1>1, <1>2, <1>3 DEF Disciplina

-----------------------------------------------------------------------------
(* Types of the data the steps build                                       *)

\* The initial values are typed.
LEMMA Tipos ==
    /\ MetaVacia \in Metadata /\ Ocioso \in Hilo
    /\ SinEnlaces \in [Logicos -> BloqueO]
    /\ 0 \in Logicos /\ 0 \in Bloques
<1>1. 0 \in Logicos /\ 0 \in Bloques
  BY LogicosAssumption, BloquesAssumption DEF Logicos, Bloques
<1>2. SinEnlaces \in [Logicos -> BloqueO]
  BY DEF SinEnlaces, BloqueO
<1>3. MetaVacia \in Metadata
  BY <1>2, LogicosAssumption DEF MetaVacia, Metadata, Estados
<1>4. Ocioso \in Hilo
  BY <1>1, <1>3, TagsAssumption, ContenidosAssumption
     DEF Ocioso, Hilo, Pasos, Respuestas, BloqueO
<1> QED
  BY <1>1, <1>2, <1>3, <1>4

\* The next round of DELETE and COMMIT leaves a typed thread.
LEMMA AvanzaTipo ==
    ASSUME NEW h \in Hilo
    PROVE  Avanza(h) \in Hilo
<1>1. h.m \in Metadata /\ h.i \in Logicos
  BY DEF Hilo
<1>2. h.i + 1 < h.m.n => h.i + 1 \in Logicos
  BY <1>1, LogicosAssumption DEF Metadata, Logicos
<1>3. [h.m EXCEPT !.estado = "COMMITED"] \in Metadata
  BY <1>1 DEF Metadata, Estados
<1>4. [h EXCEPT !.pc = "guardar", !.m.estado = "COMMITED"] \in Hilo
  BY <1>3 DEF Hilo, Pasos
<1>5. CASE h.i + 1 < h.m.n
  <2>1. \A p \in Pasos : [h EXCEPT !.i = h.i + 1, !.pc = p] \in Hilo
    BY <1>2, <1>5 DEF Hilo
  <2> QED
    BY <1>5, <2>1 DEF Avanza, Pasos
<1>6. CASE ~ (h.i + 1 < h.m.n)
  <2>1. [h EXCEPT !.pc = "quitar"] \in Hilo
    BY DEF Hilo, Pasos
  <2> QED
    BY <1>4, <1>6, <2>1 DEF Avanza
<1> QED
  BY <1>5, <1>6

\* truncar_file leaves typed metadata, with the blocks that remain.
LEMMA RedimensionadaTipo ==
    ASSUME NEW m \in Metadata, NEW tam \in Tamanios \union {0}
    PROVE  /\ Redimensionada(m, tam) \in Metadata
           /\ Redimensionada(m, tam).n = Necesarios(tam)
           /\ \A l \in Logicos : l < Necesarios(tam) =>
                 Redimensionada(m, tam).blocks[l] = m.blocks[l]
<1>1. Necesarios(tam) \in 0 .. MaxLogicos
  BY TamaniosAssumption
<1>2. [l \in Logicos |-> IF l < Necesarios(tam) THEN m.blocks[l] ELSE SinBloque]
          \in [Logicos -> BloqueO]
  BY DEF Metadata, BloqueO
<1> QED
  BY <1>1, <1>2 DEF Redimensionada, Metadata

\* obtener_bloque_libre returns a block of the disk that was free.
LEMMA PrimerLibreTipo ==
    ASSUME TypeOK, Libres # {}
    PROVE  PrimerLibre \in Libres /\ PrimerLibre \in Bloques
<1>1. Libres \subseteq Nat
  BY BloquesAssumption DEF Libres, Bloques
<1>2. \E b \in Libres : \A c \in Libres : b <= c
  <2>1. PICK b \in Libres : \A c \in Libres : <<c, b>> \notin OpToRel(<, Nat)
    BY <1>1, NatLessThanWellFounded, WFMin
  <2>2. ASSUME NEW c \in Libres PROVE b <= c
    <3>1. <<c, b>> \in Nat \X Nat /\ ~ (<<c, b>>[1] < <<c, b>>[2])
      BY <1>1, <2>1 DEF OpToRel
    <3> QED
      BY <1>1, <3>1
  <2> QED
    BY <2>2
<1> QED
  BY <1>2 DEF PrimerLibre, Libres

-----------------------------------------------------------------------------
(* The four shapes of a step                                               *)

\* The step goes on inside the same section, or outside any.
LEMMA Continua ==
    ASSUME TypeOK, Disciplina, NEW w \in Workers, NEW h \in Hilo,
           hilo' = [hilo EXCEPT ![w] = h], lock' = lock, archivos' = archivos,
           \A t \in Tags : lock[t] # w => enlaces'[t] = enlaces[t] /\ meta'[t] = meta[t],
           Posee(h) = Posee(hilo[w]),
           h.op \in OperacionesDe(h.pc), Indices(h), Listados(h), EnOrden(h)'
    PROVE  Disciplina' /\ hilo' \in [Workers -> Hilo]
<1>1. hilo'[w] = h /\ \A v \in Workers : v # w => hilo'[v] = hilo[v]
  BY DEF TypeOK
<1>2. Orden(w)'
  BY <1>1 DEF Orden, Indices, Listados
<1>3. \A t \in Tags : lock'[t] = w <=> t \in Posee(hilo'[w])
  BY <1>1 DEF Disciplina, Cerrojos
<1>4. \A t \in archivos' : t \in Tags /\ (lock[t] \in {w, Nadie} /\ lock'[t] = Nadie => Entera(t)')
  BY WorkersAssumption DEF TypeOK, Disciplina, MetadataRespaldada, Entera
<1>5. \A t \in Tags : lock[t] \notin {w, Nadie} =>
              /\ lock'[t] = lock[t] /\ enlaces'[t] = enlaces[t] /\ meta'[t] = meta[t]
              /\ t \in archivos' <=> t \in archivos
  OBVIOUS
<1>6. \A t \in Tags : lock[t] \in {w, Nadie} => lock'[t] \in {w, Nadie}
  OBVIOUS
<1>7. hilo' \in [Workers -> Hilo]
  BY DEF TypeOK
<1> HIDE DEF Disciplina, Orden
<1> QED
  BY <1>1, <1>2, <1>3, <1>4, <1>5, <1>6, <1>7, Marco

\* The step takes the mutex of t.
LEMMA Entrada ==
    ASSUME TypeOK, Disciplina, NEW w \in Workers, NEW t \in Tags, NEW h \in Hilo,
           Toma(w, t, h), UNCHANGED <<enlaces, meta, archivos>>,
           Posee(h) = Posee(hilo[w]) \union {t},
           h.op \in OperacionesDe(h.pc), Indices(h), Listados(h), EnOrden(h)
    PROVE  /\ Disciplina' /\ hilo' \in [Workers -> Hilo]
           /\ lock' \in [Tags -> Workers \union {Nadie}]
<1>1. hilo'[w] = h /\ \A v \in Workers : v # w => hilo'[v] = hilo[v]
  BY DEF TypeOK, Toma
<1>2. Orden(w)'
  <2>1. EnOrden(h)'
    BY DEF EnOrden, Entera, Coincide
  <2> QED
    BY <1>1, <2>1 DEF Orden, Indices, Listados
<1>3. lock' = [lock EXCEPT ![t] = w] /\ lock[t] = Nadie
  BY DEF Toma
<1>4. \A s \in Tags : lock'[s] = w <=> s \in Posee(hilo'[w])
  BY <1>1, <1>3 DEF TypeOK, Disciplina, Cerrojos
<1>5. \A s \in archivos' : s \in Tags /\ (lock[s] \in {w, Nadie} /\ lock'[s] = Nadie => Entera(s)')
  BY <1>3, WorkersAssumption DEF TypeOK, Disciplina, MetadataRespaldada, Entera
<1>6. \A s \in Tags : lock[s] \notin {w, Nadie} =>
              /\ lock'[s] = lock[s] /\ enlaces'[s] = enlaces[s] /\ meta'[s] = meta[s]
              /\ s \in archivos' <=> s \in archivos
  BY <1>3 DEF TypeOK
<1>7. \A s \in Tags : lock[s] \in {w, Nadie} => lock'[s] \in {w, Nadie}
  BY <1>3 DEF TypeOK
<1>8. hilo' \in [Workers -> Hilo] /\ lock' \in [Tags -> Workers \union {Nadie}]
  BY <1>3 DEF TypeOK, Toma
<1> QED
  BY <1>1, <1>2, <1>4, <1>5, <1>6, <1>7, <1>8, Marco

\* The step releases every mutex it holds.
LEMMA Cierre ==
    ASSUME TypeOK, Disciplina, NEW w \in Workers, NEW r \in Respuestas, Fin(w, r),
           \A t \in Tags : lock[t] # w =>
              enlaces'[t] = enlaces[t] /\ meta'[t] = meta[t] /\ ((t \in archivos') <=> (t \in archivos)),
           archivos' \subseteq Tags,
           \A t \in archivos' : lock[t] = w => Entera(t)'
    PROVE  /\ Disciplina' /\ hilo' \in [Workers -> Hilo]
           /\ lock' \in [Tags -> Workers \union {Nadie}]
<1> DEFINE h == [Ocioso EXCEPT !.pc = "responder", !.res = r]
<1>1. h \in Hilo
  BY Tipos DEF Hilo, Pasos
<1>2. hilo' = [hilo EXCEPT ![w] = h] /\ lock' = [t \in Tags |-> IF lock[t] = w THEN Nadie ELSE lock[t]]
  BY DEF Fin
<1>3. h.pc = "responder" /\ h.op = "ninguna"
  BY DEF Ocioso
<1> HIDE DEF h
<1>4. hilo'[w] = h /\ \A v \in Workers : v # w => hilo'[v] = hilo[v]
  BY <1>2 DEF TypeOK
<1>5. Posee(h) = {}
  BY <1>3 DEF Posee
<1>6. Orden(w)'
  BY <1>3, <1>4, <1>5 DEF Orden, Indices, Listados, EnOrden, OperacionesDe
<1>7. \A t \in Tags : lock'[t] = w <=> t \in Posee(hilo'[w])
  BY <1>2, <1>4, <1>5, WorkersAssumption
<1>8. \A t \in archivos' : t \in Tags /\ (lock[t] \in {w, Nadie} /\ lock'[t] = Nadie => Entera(t)')
  BY WorkersAssumption DEF TypeOK, Disciplina, MetadataRespaldada, Entera
<1>9. \A s \in Tags : lock[s] \notin {w, Nadie} =>
              /\ lock'[s] = lock[s] /\ enlaces'[s] = enlaces[s] /\ meta'[s] = meta[s]
              /\ s \in archivos' <=> s \in archivos
  BY <1>2
<1>10. \A s \in Tags : lock[s] \in {w, Nadie} => lock'[s] \in {w, Nadie}
  BY <1>2
<1>11. hilo' \in [Workers -> Hilo] /\ lock' \in [Tags -> Workers \union {Nadie}]
  BY <1>1, <1>2 DEF TypeOK
<1> QED
  BY <1>4, <1>6, <1>7, <1>8, <1>9, <1>10, <1>11, Marco

-----------------------------------------------------------------------------
(* One lemma per action                                                    *)

\* What the invariant says of one thread.
LEMMA Hechos ==
    ASSUME TypeOK, Disciplina, NEW w \in Workers
    PROVE  /\ hilo[w] \in Hilo /\ hilo[w].op \in OperacionesDe(hilo[w].pc)
           /\ Indices(hilo[w]) /\ Listados(hilo[w]) /\ EnOrden(hilo[w])
           /\ \A t \in Tags : lock[t] = w <=> t \in Posee(hilo[w])
BY DEF TypeOK, Disciplina, Orden, Cerrojos

\* What a thread relies on outlives the steps that leave the disk alone.
LEMMA EnOrdenIgual ==
    ASSUME NEW h, EnOrden(h), UNCHANGED <<enlaces, meta, archivos>>
    PROVE  EnOrden(h)'
BY DEF EnOrden, Entera, Coincide

\* Steps outside the sections keep no promise about the tags.
LEMMA Fuera ==
    ASSUME NEW h \in Hilo, h.pc \in {"ocioso", "responder", "leer", "leido"}
    PROVE  /\ Posee(h) = {} /\ h.op \in OperacionesDe(h.pc)
           /\ Indices(h) /\ Listados(h) /\ EnOrden(h)
<1>1. Posee(h) = {}
  BY DEF Posee
<1>2. h.op \in OperacionesDe(h.pc)
  BY DEF Hilo, OperacionesDe
<1> QED
  BY <1>1, <1>2 DEF Indices, Listados, EnOrden

\* Answering, and READ: nothing on disk, no mutex.
LEMMA FueraInv ==
    ASSUME TypeOK, Disciplina, NEW w \in Workers, NEW h \in Hilo,
           hilo[w].pc \in {"ocioso", "responder", "leer", "leido"},
           h.pc \in {"ocioso", "responder", "leer", "leido"},
           hilo' = [hilo EXCEPT ![w] = h], UNCHANGED disco, UNCHANGED lock,
           error_read' \in 0 .. 3, vivo' \in BOOLEAN
    PROVE  TypeOK' /\ Disciplina'
<1>1. /\ Posee(h) = Posee(hilo[w]) /\ h.op \in OperacionesDe(h.pc)
      /\ Indices(h) /\ Listados(h) /\ EnOrden(h)'
  BY Fuera, Hechos, EnOrdenIgual DEF disco
<1>2. Disciplina' /\ hilo' \in [Workers -> Hilo]
  BY <1>1, Continua DEF disco
<1> QED
  BY <1>2 DEF TypeOK, disco

\* A request turned down.
LEMMA RechazoInv ==
    ASSUME TypeOK, Disciplina, NEW w \in Workers, NEW r \in Respuestas,
           En(w, "ocioso"), Fin(w, r), UNCHANGED disco
    PROVE  TypeOK' /\ Disciplina'
<1>1. \A t \in Tags : lock[t] # w
  BY Hechos, Fuera DEF En
<1>2. /\ Disciplina' /\ hilo' \in [Workers -> Hilo]
      /\ lock' \in [Tags -> Workers \union {Nadie}]
  BY <1>1, Cierre DEF disco, TypeOK
<1> QED
  BY <1>2 DEF TypeOK, disco, Fin

\* CREATE, on a new tag and on an existing one, keeps types and discipline.
LEMMA CreateInv ==
    ASSUME TypeOK, Disciplina, NEW w \in Workers, NEW t \in Tags, Create(w, t)
    PROVE  TypeOK' /\ Disciplina'
<1>1. En(w, "ocioso") /\ lock[t] = Nadie
  BY DEF Create, Pide
<1>2. CASE Fin(w, "preexistente") /\ UNCHANGED disco
  BY <1>1, <1>2, RechazoInv DEF Respuestas
<1>3. CASE CrearTag(t) /\ Fin(w, "ok")
  <2>1. \A s \in Tags : lock[s] # w
    BY <1>1, Hechos, Fuera DEF En
  <2>2. meta'[t] = MetaVacia /\ MetaVacia.n = 0
    BY <1>3 DEF CrearTag, TypeOK, MetaVacia
  <2>3. Entera(t)'
    BY <2>2, LogicosAssumption DEF Entera, Logicos
  <2>4. \A s \in Tags : s # t =>
            enlaces'[s] = enlaces[s] /\ meta'[s] = meta[s] /\ ((s \in archivos') <=> (s \in archivos))
    BY <1>3 DEF CrearTag, TypeOK
  <2>5. archivos' \subseteq Tags /\ \A s \in Tags : lock[s] \in {w, Nadie} => lock'[s] \in {w, Nadie}
    BY <1>3 DEF CrearTag, TypeOK, Fin
  <2> DEFINE h == [Ocioso EXCEPT !.pc = "responder", !.res = "ok"]
  <2>6. h \in Hilo /\ h.pc = "responder"
    BY Tipos DEF Hilo, Pasos, Respuestas, Ocioso
  <2>7. hilo' = [hilo EXCEPT ![w] = h] /\ lock' = lock
    BY <1>3, <2>1 DEF Fin, TypeOK
  <2> HIDE DEF h
  <2>8. hilo'[w] = h /\ (\A v \in Workers : v # w => hilo'[v] = hilo[v]) /\ hilo' \in [Workers -> Hilo]
    BY <2>6, <2>7 DEF TypeOK
  <2>9. Posee(h) = {} /\ h.op \in OperacionesDe(h.pc) /\ Indices(h) /\ Listados(h)
    BY <2>6, Fuera
  <2>10. EnOrden(h)'
    BY <2>6, <2>9 DEF EnOrden
  <2>11. Orden(w)'
    BY <2>8, <2>9, <2>10 DEF Orden, Indices, Listados
  <2>12. \A s \in archivos' : s \in Tags /\ (lock[s] \in {w, Nadie} /\ lock'[s] = Nadie => Entera(s)')
    BY <2>1, <2>3, <2>4, <2>5 DEF Disciplina, MetadataRespaldada, Entera
  <2>13. Disciplina'
    BY <1>1, <2>1, <2>4, <2>5, <2>7, <2>8, <2>9, <2>11, <2>12, WorkersAssumption, Marco
  <2>14. meta' \in [Tags -> Metadata]
    BY <1>3, Tipos DEF CrearTag, TypeOK
  <2> QED
    BY <1>3, <2>7, <2>8, <2>13, <2>14 DEF TypeOK, CrearTag, Fin
<1> QED
  BY <1>2, <1>3 DEF Create

\* A step of a section that changes neither links nor metadata, and keeps the
\* blocks on which they agree.
LEMMA SinTocar ==
    ASSUME TypeOK, Disciplina, NEW w \in Workers, NEW h1 \in Hilo,
           hilo' = [hilo EXCEPT ![w] = h1], UNCHANGED <<lock, enlaces, meta, archivos>>,
           hilo[w].pc \notin {"ocioso", "responder", "leer", "leido"},
           h1.pc \notin {"ocioso", "responder", "leer", "leido"},
           hilo[w].op \notin {"TAG", "ninguna"},
           h1.op = hilo[w].op, h1.tag = hilo[w].tag, h1.m.blocks = hilo[w].m.blocks,
           \A l \in Logicos : l \in Coinciden(h1) => l \in Coinciden(hilo[w]),
           h1.op \in OperacionesDe(h1.pc), Indices(h1), Listados(h1),
           /\ h1.op = "WRITE"
           /\ h1.pc \in {"escribir", "en_sitio", "reservar", "copiar", "desenlazar"}
           => h1.m = meta[h1.tag]
    PROVE  Disciplina' /\ hilo' \in [Workers -> Hilo]
<1>1. PICK h \in Hilo : h = hilo[w]
  BY Hechos
<1>2. /\ h.op \in OperacionesDe(h.pc) /\ EnOrden(h)
      /\ \A t \in Tags : lock[t] = w <=> t \in Posee(h)
  BY <1>1, Hechos
<1>3. h.pc \notin {"crear_destino", "tomar_destino", "copiar_enlace"}
      /\ h1.pc \notin {"crear_destino", "tomar_destino", "copiar_enlace"}
  BY <1>1, <1>2 DEF OperacionesDe
<1>4. Posee(h) = {h.tag} /\ Posee(h1) = {h.tag}
  BY <1>1, <1>3 DEF Posee
<1>5. h.tag \in archivos /\ \A l \in Coinciden(h) : Coincide(h, l)
  BY <1>2, <1>3, <1>4 DEF EnOrden
<1>6. \A l : l \in Coinciden(h1) => l \in Logicos
  BY DEF Coinciden
<1>7. \A l \in Coinciden(h1) : Coincide(h1, l)
  BY <1>1, <1>5, <1>6 DEF Coincide
<1>8. EnOrden(h1)
  BY <1>1, <1>3, <1>5, <1>7 DEF EnOrden
<1> QED
  BY <1>1, <1>4, <1>8, EnOrdenIgual, Continua

\* WRITE counts the references of the block it is to write.
LEMMA ContarParaEscribirInv ==
    ASSUME TypeOK, Disciplina, NEW w \in Workers, ContarParaEscribir(w)
    PROVE  TypeOK' /\ Disciplina'
<1>1. PICK h \in Hilo : h = hilo[w]
  BY Hechos
<1>2. PICK h1 : h1 = [h EXCEPT !.pc = IF Exclusivo(h.m.blocks[h.i]) THEN "en_sitio" ELSE "reservar"]
  OBVIOUS
<1>3. h.pc = "escribir" /\ h.op = "WRITE" /\ Indices(h) /\ h.m = meta[h.tag]
  <2>1. h.pc = "escribir"
    BY <1>1 DEF ContarParaEscribir, En
  <2>2. h.op = "WRITE"
    BY <1>1, <2>1, Hechos DEF OperacionesDe
  <2>3. h.tag \in Posee(h)
    BY <2>1 DEF Posee
  <2> QED
    BY <1>1, <2>1, <2>2, <2>3, Hechos DEF EnOrden
<1>4. /\ h1 \in Hilo /\ h1.pc \in {"en_sitio", "reservar"} /\ h1.op = h.op /\ h1.tag = h.tag
      /\ h1.m = h.m /\ h1.i = h.i
  BY <1>2 DEF Hilo, Pasos
<1>5. Coinciden(h1) = Coinciden(h)
  BY <1>3, <1>4 DEF Coinciden
<1>6. h1.op \in OperacionesDe(h1.pc) /\ Indices(h1) /\ Listados(h1)
  BY <1>3, <1>4 DEF OperacionesDe, Indices, Listados
<1>7. hilo' = [hilo EXCEPT ![w] = h1]
  BY <1>1, <1>2 DEF ContarParaEscribir, Sigue
<1>8. UNCHANGED <<disco, lock, error_read, vivo>>
  BY DEF ContarParaEscribir, Sigue
<1>9. Disciplina' /\ hilo' \in [Workers -> Hilo]
  BY <1>1, <1>3, <1>4, <1>5, <1>6, <1>7, <1>8, SinTocar DEF disco
<1> QED
  BY <1>8, <1>9 DEF TypeOK, disco

\* WRITE writes a block nobody shares in place.
LEMMA EscribirEnSitioInv ==
    ASSUME TypeOK, Disciplina, NEW w \in Workers, EscribirEnSitio(w)
    PROVE  TypeOK' /\ Disciplina'
<1>1. PICK h \in Hilo : h = hilo[w]
  BY Hechos
<1>2. PICK h1 : h1 = [h EXCEPT !.pc = "guardar"]
  OBVIOUS
<1>3. h.pc = "en_sitio" /\ h.op = "WRITE"
  <2>1. h.pc = "en_sitio"
    BY <1>1 DEF EscribirEnSitio, En
  <2> QED
    BY <1>1, <2>1, Hechos DEF OperacionesDe
<1>4. /\ h1 \in Hilo /\ h1.pc = "guardar" /\ h1.op = h.op /\ h1.tag = h.tag /\ h1.m = h.m
  BY <1>2 DEF Hilo, Pasos
<1>5. Coinciden(h1) = Coinciden(h)
  BY <1>3, <1>4 DEF Coinciden
<1>6. h1.op \in OperacionesDe(h1.pc) /\ Indices(h1) /\ Listados(h1)
  BY <1>3, <1>4 DEF OperacionesDe, Indices, Listados
<1>7. hilo' = [hilo EXCEPT ![w] = h1]
  BY <1>1, <1>2 DEF EscribirEnSitio, Sigue
<1>8. /\ UNCHANGED <<ocupado, enlaces, directorios, archivos, meta, indice>>
      /\ UNCHANGED <<lock, error_read, vivo>>
      /\ contenido' = [contenido EXCEPT ![h.m.blocks[h.i]] = h.dato]
  BY <1>1 DEF EscribirEnSitio, Sigue
<1>9. Disciplina' /\ hilo' \in [Workers -> Hilo]
  BY <1>1, <1>3, <1>4, <1>5, <1>6, <1>7, <1>8, SinTocar
<1>10. h.dato \in Contenidos
  BY DEF Hilo
<1> QED
  BY <1>8, <1>9, <1>10 DEF TypeOK

\* WRITE takes a free block, or fails with the tag still whole.
LEMMA ReservarBloqueInv ==
    ASSUME TypeOK, Disciplina, NEW w \in Workers, ReservarBloque(w)
    PROVE  TypeOK' /\ Disciplina'
<1>1. PICK h \in Hilo : h = hilo[w]
  BY Hechos
<1>2. h.pc = "reservar"
  BY <1>1 DEF ReservarBloque, En
<1>3. /\ h.op = "WRITE" /\ Posee(h) = {h.tag} /\ h.tag \in Tags
      /\ Coinciden(h) = {l \in Logicos : l < h.m.n}
  BY <1>1, <1>2, Hechos DEF OperacionesDe, Posee, Hilo, Coinciden
<1>4. h.m = meta[h.tag] /\ Indices(h) /\ \A l \in Coinciden(h) : Coincide(h, l)
  BY <1>1, <1>2, <1>3, Hechos DEF EnOrden
<1>5. UNCHANGED <<contenido, enlaces, directorios, archivos, meta, indice>>
  BY DEF ReservarBloque
<1>6. CASE Libres = {} /\ Fin(w, "espacio_insuficiente") /\ UNCHANGED ocupado
  <2>1. Entera(h.tag)'
    BY <1>3, <1>4, <1>5 DEF Entera, Coincide
  <2>2. \A t \in archivos' : lock[t] = w => Entera(t)'
    BY <1>1, <1>3, <1>5, <2>1, Hechos DEF TypeOK
  <2>3. archivos' \subseteq Tags
    BY <1>5 DEF TypeOK
  <2>4. /\ Disciplina' /\ hilo' \in [Workers -> Hilo]
        /\ lock' \in [Tags -> Workers \union {Nadie}]
    BY <1>5, <1>6, <2>2, <2>3, Cierre DEF Respuestas
  <2> QED
    BY <1>5, <1>6, <2>4 DEF TypeOK, Fin
<1>7. CASE /\ Libres # {} /\ ocupado' = ocupado \union {PrimerLibre}
           /\ Sigue(w, [hilo[w] EXCEPT !.pc = "copiar", !.b = PrimerLibre])
  <2>1. PICK h1 : h1 = [h EXCEPT !.pc = "copiar", !.b = PrimerLibre]
    OBVIOUS
  <2>2. PrimerLibre \in Bloques /\ PrimerLibre # SinBloque /\ PrimerLibre \in BloqueO
    BY <1>7, PrimerLibreTipo, BloquesAssumption DEF Bloques, SinBloque, BloqueO
  <2>3. /\ h1 \in Hilo /\ h1.pc = "copiar" /\ h1.op = h.op /\ h1.tag = h.tag
        /\ h1.m = h.m /\ h1.i = h.i /\ h1.b = PrimerLibre
    BY <2>1, <2>2 DEF Hilo, Pasos
  <2>4. Coinciden(h1) = Coinciden(h)
    BY <1>3, <2>3 DEF Coinciden
  <2>5. h1.op \in OperacionesDe(h1.pc) /\ Indices(h1) /\ Listados(h1)
    BY <1>2, <1>3, <1>4, <2>2, <2>3 DEF OperacionesDe, Indices, Listados
  <2>6. hilo' = [hilo EXCEPT ![w] = h1] /\ UNCHANGED <<lock, error_read, vivo>>
    BY <1>1, <1>7, <2>1 DEF Sigue
  <2>7. Disciplina' /\ hilo' \in [Workers -> Hilo]
    BY <1>1, <1>2, <1>3, <1>4, <1>5, <2>3, <2>4, <2>5, <2>6, SinTocar
  <2> QED
    BY <1>5, <1>7, <2>2, <2>6, <2>7 DEF TypeOK
<1> QED
  BY <1>6, <1>7 DEF ReservarBloque

\* WRITE fills the block it took.
LEMMA EscribirNuevoInv ==
    ASSUME TypeOK, Disciplina, NEW w \in Workers, EscribirNuevo(w)
    PROVE  TypeOK' /\ Disciplina'
<1>1. PICK h \in Hilo : h = hilo[w]
  BY Hechos
<1>2. PICK h1 : h1 = [h EXCEPT !.pc = "desenlazar"]
  OBVIOUS
<1>3. h.pc = "copiar"
  BY <1>1 DEF EscribirNuevo, En
<1>4. h.op = "WRITE" /\ h.tag \in Posee(h)
  BY <1>1, <1>3, Hechos DEF OperacionesDe, Posee
<1>5. Indices(h) /\ Listados(h) /\ h.m = meta[h.tag]
  BY <1>1, <1>3, <1>4, Hechos DEF EnOrden
<1>6. /\ h1 \in Hilo /\ h1.pc = "desenlazar" /\ h1.op = h.op /\ h1.tag = h.tag
      /\ h1.m = h.m /\ h1.i = h.i /\ h1.b = h.b
  BY <1>2 DEF Hilo, Pasos
<1>7. Coinciden(h1) = Coinciden(h)
  BY <1>3, <1>4, <1>6 DEF Coinciden
<1>8. h1.op \in OperacionesDe(h1.pc) /\ Indices(h1) /\ Listados(h1)
  BY <1>3, <1>4, <1>5, <1>6 DEF OperacionesDe, Indices, Listados
<1>9. /\ hilo' = [hilo EXCEPT ![w] = h1] /\ UNCHANGED <<lock, error_read, vivo>>
      /\ UNCHANGED <<ocupado, enlaces, directorios, archivos, meta, indice>>
      /\ contenido' = [contenido EXCEPT ![h.b] = h.dato]
  BY <1>1, <1>2 DEF EscribirNuevo, Sigue
<1>10. Disciplina' /\ hilo' \in [Workers -> Hilo]
  BY <1>1, <1>3, <1>4, <1>5, <1>6, <1>7, <1>8, <1>9, SinTocar
<1>11. h.dato \in Contenidos
  BY DEF Hilo
<1> QED
  BY <1>9, <1>10, <1>11 DEF TypeOK

\* A thread answers its Worker.
LEMMA ResponderInv ==
    ASSUME TypeOK, Disciplina, NEW w \in Workers, Responder(w)
    PROVE  TypeOK' /\ Disciplina'
<1>1. /\ hilo[w].pc = "responder" /\ hilo' = [hilo EXCEPT ![w] = Ocioso]
      /\ UNCHANGED <<disco, lock, error_read, vivo>>
  BY DEF Responder, En, Sigue
<1>2. error_read' \in 0 .. 3 /\ vivo' \in BOOLEAN
  BY <1>1 DEF TypeOK
<1>3. Ocioso \in Hilo /\ Ocioso.pc = "ocioso"
  BY Tipos DEF Ocioso
<1> QED
  BY <1>1, <1>2, <1>3, FueraInv

\* READ starts: error_read is cleared, without any mutex.
LEMMA ReadInv ==
    ASSUME TypeOK, Disciplina, NEW w \in Workers, NEW t \in Tags, NEW i \in Logicos, Read(w, t, i)
    PROVE  TypeOK' /\ Disciplina'
<1>1. PICK h1 : h1 = [Ocioso EXCEPT !.pc = "leer", !.op = "READ", !.tag = t, !.i = i]
  OBVIOUS
<1>2. h1 \in Hilo /\ h1.pc = "leer"
  BY <1>1, Tipos DEF Hilo, Pasos, OperacionesFS
<1>3. /\ hilo[w].pc = "ocioso" /\ hilo' = [hilo EXCEPT ![w] = h1]
      /\ UNCHANGED disco /\ UNCHANGED lock /\ UNCHANGED vivo /\ error_read' = 0
  BY <1>1 DEF Read, En
<1>4. error_read' \in 0 .. 3 /\ vivo' \in BOOLEAN
  BY <1>3 DEF TypeOK
<1> QED
  BY <1>2, <1>3, <1>4, FueraInv

\* leer_bloque looks the block up.
LEMMA LeerBloqueInv ==
    ASSUME TypeOK, Disciplina, NEW w \in Workers, LeerBloque(w)
    PROVE  TypeOK' /\ Disciplina'
<1>1. PICK h \in Hilo : h = hilo[w]
  BY Hechos
<1> DEFINE causa == IF h.tag \notin archivos THEN "error"
                    ELSE IF h.i >= meta[h.tag].n THEN "fuera_de_limite" ELSE "ok"
<1>2. PICK h1 : h1 = [h EXCEPT !.pc = "leido", !.res = causa]
  OBVIOUS
<1>3. h1 \in Hilo /\ h1.pc = "leido"
  BY <1>2 DEF Hilo, Pasos, Respuestas
<1>4. /\ h.pc = "leer" /\ hilo' = [hilo EXCEPT ![w] = h1]
      /\ UNCHANGED disco /\ UNCHANGED lock /\ UNCHANGED vivo
  BY <1>1, <1>2 DEF LeerBloque, En
<1>5. error_read' \in 0 .. 3
  BY DEF LeerBloque
<1>6. vivo' \in BOOLEAN
  BY <1>4 DEF TypeOK
<1> QED
  BY <1>1, <1>3, <1>4, <1>5, <1>6, FueraInv

\* read_block answers, or the process ends.
LEMMA ResponderReadInv ==
    ASSUME TypeOK, Disciplina, NEW w \in Workers, ResponderRead(w)
    PROVE  TypeOK' /\ Disciplina'
<1>1. hilo[w].pc = "leido" /\ UNCHANGED disco
  BY DEF ResponderRead, En
<1>2. CASE vivo' = FALSE /\ UNCHANGED <<lock, error_read, hilo>>
  <2>1. hilo[w] \in Hilo /\ hilo' = [hilo EXCEPT ![w] = hilo[w]]
    BY <1>2 DEF TypeOK
  <2>2. error_read' \in 0 .. 3 /\ vivo' \in BOOLEAN
    BY <1>2 DEF TypeOK
  <2> QED
    BY <1>1, <1>2, <2>1, <2>2, FueraInv
<1>3. CASE \E motivo \in Respuestas : Sigue(w, [Ocioso EXCEPT !.pc = "responder", !.res = motivo])
  <2>1. PICK motivo \in Respuestas : Sigue(w, [Ocioso EXCEPT !.pc = "responder", !.res = motivo])
    BY <1>3
  <2>2. PICK h1 : h1 = [Ocioso EXCEPT !.pc = "responder", !.res = motivo]
    OBVIOUS
  <2>3. h1 \in Hilo /\ h1.pc = "responder"
    BY <2>2, Tipos DEF Hilo, Pasos
  <2>4. hilo' = [hilo EXCEPT ![w] = h1] /\ UNCHANGED <<lock, error_read, vivo>>
    BY <2>1, <2>2 DEF Sigue
  <2>5. error_read' \in 0 .. 3 /\ vivo' \in BOOLEAN
    BY <2>4 DEF TypeOK
  <2> QED
    BY <1>1, <2>3, <2>4, <2>5, FueraInv
<1> QED
  BY <1>2, <1>3 DEF ResponderRead, Respuestas

\* A request accepted: the thread takes the mutex of an existing tag, which
\* it finds whole, with a copy of its metadata.
LEMMA AceptaInv ==
    ASSUME TypeOK, Disciplina, NEW w \in Workers, NEW t \in Tags, NEW h1 \in Hilo,
           En(w, "ocioso"), Toma(w, t, h1), UNCHANGED disco, t \in archivos,
           Posee(h1) = {t}, h1.op \in OperacionesDe(h1.pc), Indices(h1), Listados(h1),
           \/ /\ h1.op = "TAG" /\ h1.orig = t
              /\ h1.pc \in {"crear_destino", "tomar_destino"}
           \/ /\ h1.op # "TAG" /\ h1.tag = t
              /\ h1.pc \notin {"crear_destino", "tomar_destino", "copiar_enlace"}
              /\ \A l \in Coinciden(h1) : /\ l \in Logicos /\ l < meta[t].n
                                           /\ h1.m.blocks[l] = meta[t].blocks[l]
              /\ h1.op = "WRITE" => h1.m = meta[t]
    PROVE  TypeOK' /\ Disciplina'
<1>1. Entera(t)
  BY DEF Toma, Disciplina, MetadataRespaldada
<1>2. \A s \in Tags : lock[s] # w
  BY Hechos, Fuera DEF En
<1>3. Posee(hilo[w]) = {}
  BY Hechos, Fuera DEF En
<1>4. EnOrden(h1)
  <2>1. CASE h1.op = "TAG"
    BY <1>1, <2>1 DEF EnOrden
  <2>2. CASE h1.op # "TAG"
    <3>1. \A l \in Coinciden(h1) : Coincide(h1, l)
      BY <1>1, <2>2 DEF Entera, Coincide
    <3> QED
      BY <2>2, <3>1 DEF EnOrden
  <2> QED
    BY <2>1, <2>2
<1>5. /\ Disciplina' /\ hilo' \in [Workers -> Hilo]
      /\ lock' \in [Tags -> Workers \union {Nadie}]
  BY <1>3, <1>4, Entrada DEF disco
<1> QED
  BY <1>5 DEF TypeOK, disco, Toma

\* WRITE is turned down, or takes the mutex and the metadata.
LEMMA WriteInv ==
    ASSUME TypeOK, Disciplina, NEW w \in Workers, NEW t \in Tags,
           NEW i \in Logicos, NEW d \in Contenidos, Write(w, t, i, d)
    PROVE  TypeOK' /\ Disciplina'
<1>1. En(w, "ocioso") /\ UNCHANGED disco
  BY DEF Write, Pide
<1>2. MotivoWrite(t, i) \in Respuestas
  BY DEF MotivoWrite, Respuestas
<1>3. CASE Fin(w, MotivoWrite(t, i))
  BY <1>1, <1>2, <1>3, RechazoInv
<1>4. CASE /\ MotivoWrite(t, i) = "ok"
           /\ Toma(w, t, [Ocioso EXCEPT !.pc = "escribir", !.op = "WRITE", !.tag = t,
                                        !.i = i, !.m = meta[t], !.dato = d])
  <2>1. PICK h1 : h1 = [Ocioso EXCEPT !.pc = "escribir", !.op = "WRITE", !.tag = t,
                                      !.i = i, !.m = meta[t], !.dato = d]
    OBVIOUS
  <2>2. meta[t] \in Metadata
    BY DEF TypeOK
  <2>3. t \in archivos /\ i < meta[t].n
    BY <1>4, <2>2 DEF MotivoWrite, Metadata, Logicos
  <2>4. /\ h1 \in Hilo /\ h1.pc = "escribir" /\ h1.op = "WRITE" /\ h1.tag = t
        /\ h1.m = meta[t] /\ h1.i = i
    BY <2>1, <2>2, Tipos DEF Hilo, Pasos, OperacionesFS
  <2>5. /\ Posee(h1) = {t} /\ h1.op \in OperacionesDe(h1.pc) /\ Indices(h1) /\ Listados(h1)
        /\ Coinciden(h1) = {l \in Logicos : l < meta[t].n}
    BY <2>3, <2>4 DEF Posee, OperacionesDe, Indices, Listados, Coinciden
  <2> QED
    BY <1>1, <1>4, <2>1, <2>3, <2>4, <2>5, AceptaInv
<1> QED
  BY <1>3, <1>4 DEF Write

\* TRUNCATE is turned down, or takes the mutex to grow, shrink or keep the file.
LEMMA TruncateInv ==
    ASSUME TypeOK, Disciplina, NEW w \in Workers, NEW t \in Tags,
           NEW tam \in Tamanios, Truncate(w, t, tam)
    PROVE  TypeOK' /\ Disciplina'
<1>1. En(w, "ocioso") /\ UNCHANGED disco
  BY DEF Truncate, Pide
<1>2. CASE Fin(w, MotivoTruncate(t))
  <2>1. MotivoTruncate(t) \in Respuestas
    BY DEF MotivoTruncate, Respuestas
  <2> QED
    BY <1>1, <1>2, <2>1, RechazoInv
<1>3. CASE ~ Fin(w, MotivoTruncate(t))
  <2> DEFINE n == meta[t].n
             k == Necesarios(tam)
             h == [Ocioso EXCEPT !.op = "TRUNCATE", !.tag = t, !.m = meta[t], !.arg = tam]
  <2>1. PICK h1 : h1 = CASE k > n -> [h EXCEPT !.pc = "agrandar", !.i = n]
                         [] k < n -> [h EXCEPT !.pc = "achicar", !.i = n - 1]
                         [] OTHER -> [h EXCEPT !.pc = "guardar", !.m = Redimensionada(meta[t], tam)]
    OBVIOUS
  <2>2. MotivoTruncate(t) = "ok" /\ Toma(w, t, h1)
    BY <1>3, <2>1 DEF Truncate
  <2>3. t \in archivos
    BY <2>2 DEF MotivoTruncate
  <2>4. meta[t] \in Metadata /\ n \in 0 .. MaxLogicos /\ k \in 0 .. MaxLogicos
    BY TamaniosAssumption DEF TypeOK, Metadata
  <2>5. /\ Redimensionada(meta[t], tam) \in Metadata /\ Redimensionada(meta[t], tam).n = k
        /\ \A l \in Logicos : l < k => Redimensionada(meta[t], tam).blocks[l] = meta[t].blocks[l]
    BY <2>4, RedimensionadaTipo
  <2>6. h \in Hilo /\ h.op = "TRUNCATE" /\ h.tag = t /\ h.m = meta[t] /\ h.arg = tam
    BY <2>4, Tipos DEF Hilo, OperacionesFS
  <2> HIDE DEF h, k, n
  <2>7. CASE k > n
    <3>1. n \in Logicos /\ h1 = [h EXCEPT !.pc = "agrandar", !.i = n]
      BY <2>1, <2>4, <2>7, LogicosAssumption DEF Logicos
    <3>2. /\ h1 \in Hilo /\ h1.pc = "agrandar" /\ h1.op = "TRUNCATE" /\ h1.tag = t
          /\ h1.m = meta[t] /\ h1.i = n /\ h1.arg = tam
      BY <2>6, <3>1 DEF Hilo, Pasos
    <3>3. /\ Posee(h1) = {t} /\ h1.op \in OperacionesDe(h1.pc) /\ Listados(h1)
          /\ Coinciden(h1) = {l \in Logicos : l < n}
      BY <3>2 DEF Posee, OperacionesDe, Listados, Coinciden
    <3>4. Indices(h1)
      BY <2>4, <2>7, <3>2 DEF Indices, n, k
    <3> QED
      BY <1>1, <2>2, <2>3, <3>2, <3>3, <3>4, AceptaInv DEF n
  <2>8. CASE k < n
    <3>1. n - 1 \in Logicos /\ h1 = [h EXCEPT !.pc = "achicar", !.i = n - 1]
      BY <2>1, <2>4, <2>8, LogicosAssumption DEF Logicos
    <3>2. /\ h1 \in Hilo /\ h1.pc = "achicar" /\ h1.op = "TRUNCATE" /\ h1.tag = t
          /\ h1.m = meta[t] /\ h1.i = n - 1 /\ h1.arg = tam
      BY <2>6, <3>1 DEF Hilo, Pasos
    <3>3. /\ Posee(h1) = {t} /\ h1.op \in OperacionesDe(h1.pc) /\ Listados(h1)
          /\ Coinciden(h1) = {l \in Logicos : l <= n - 1}
      BY <3>2 DEF Posee, OperacionesDe, Listados, Coinciden
    <3>4. Indices(h1) /\ \A l \in Logicos : l <= n - 1 => l < n
      BY <2>4, <2>8, <3>2 DEF Indices, n, k, Logicos
    <3> QED
      BY <1>1, <2>2, <2>3, <3>2, <3>3, <3>4, AceptaInv DEF n
  <2>9. CASE k = n
    <3>1. h1 = [h EXCEPT !.pc = "guardar", !.m = Redimensionada(meta[t], tam)]
      BY <2>1, <2>4, <2>9
    <3>2. /\ h1 \in Hilo /\ h1.pc = "guardar" /\ h1.op = "TRUNCATE" /\ h1.tag = t
          /\ h1.m = Redimensionada(meta[t], tam)
      BY <2>5, <2>6, <3>1 DEF Hilo, Pasos
    <3>3. /\ Posee(h1) = {t} /\ h1.op \in OperacionesDe(h1.pc) /\ Listados(h1) /\ Indices(h1)
          /\ Coinciden(h1) = {l \in Logicos : l < k}
      BY <2>5, <3>2 DEF Posee, OperacionesDe, Listados, Indices, Coinciden
    <3>4. \A l \in Coinciden(h1) : /\ l \in Logicos /\ l < n
                                  /\ h1.m.blocks[l] = meta[t].blocks[l]
      BY <2>5, <2>9, <3>2, <3>3
    <3> QED
      BY <1>1, <2>2, <2>3, <3>2, <3>3, <3>4, AceptaInv DEF n
  <2> QED
    BY <2>4, <2>7, <2>8, <2>9
<1> QED
  BY <1>2, <1>3

\* DELETE is turned down, or takes the mutex.
LEMMA DeleteInv ==
    ASSUME TypeOK, Disciplina, NEW w \in Workers, NEW t \in Tags, Delete(w, t)
    PROVE  TypeOK' /\ Disciplina'
<1>1. En(w, "ocioso") /\ UNCHANGED disco
  BY DEF Delete, Pide
<1>2. CASE Fin(w, "error")
  BY <1>1, <1>2, RechazoInv DEF Respuestas
<1>3. PICK h1 : h1 = [Ocioso EXCEPT !.op = "DELETE", !.tag = t, !.m = meta[t],
                                    !.pc = IF meta[t].n = 0 THEN "quitar" ELSE "borrar"]
  OBVIOUS
<1>4. CASE t \in archivos /\ Toma(w, t, h1)
  <2>1. meta[t] \in Metadata
    BY DEF TypeOK
  <2>2. /\ h1 \in Hilo /\ h1.op = "DELETE" /\ h1.tag = t /\ h1.m = meta[t] /\ h1.i = 0
        /\ h1.pc = IF meta[t].n = 0 THEN "quitar" ELSE "borrar"
    BY <1>3, <2>1, Tipos DEF Hilo, Pasos, OperacionesFS, Ocioso
  <2>3. Posee(h1) = {t} /\ h1.op \in OperacionesDe(h1.pc) /\ Indices(h1) /\ Listados(h1)
    BY <2>1, <2>2 DEF Posee, OperacionesDe, Indices, Listados, Metadata
  <2>4. \A l \in Coinciden(h1) : l \in Logicos /\ l < meta[t].n
    BY <2>2 DEF Coinciden
  <2> QED
    BY <1>1, <1>4, <2>2, <2>3, <2>4, AceptaInv
<1> QED
  BY <1>2, <1>3, <1>4 DEF Delete

\* COMMIT is turned down, has nothing to do, or takes the mutex.
LEMMA CommitInv ==
    ASSUME TypeOK, Disciplina, NEW w \in Workers, NEW t \in Tags, Commit(w, t)
    PROVE  TypeOK' /\ Disciplina'
<1>1. En(w, "ocioso") /\ UNCHANGED disco
  BY DEF Commit, Pide
<1>2. CASE Fin(w, "error") \/ Fin(w, "ok")
  BY <1>1, <1>2, RechazoInv DEF Respuestas
<1>3. PICK h0 : h0 = [Ocioso EXCEPT !.op = "COMMIT", !.tag = t, !.m = meta[t]]
  OBVIOUS
<1>4. PICK h1 : h1 = IF meta[t].n = 0 THEN [h0 EXCEPT !.pc = "guardar", !.m.estado = "COMMITED"]
                     ELSE [h0 EXCEPT !.pc = "commitear"]
  OBVIOUS
<1>5. CASE t \in archivos /\ Toma(w, t, h1)
  <2>1. meta[t] \in Metadata /\ [meta[t] EXCEPT !.estado = "COMMITED"] \in Metadata
    BY DEF TypeOK, Metadata, Estados
  <2>2. h0 \in Hilo /\ h0.op = "COMMIT" /\ h0.tag = t /\ h0.m = meta[t] /\ h0.i = 0
    BY <1>3, <2>1, Tipos DEF Hilo, OperacionesFS, Ocioso
  <2>3. /\ h1 \in Hilo /\ h1.op = "COMMIT" /\ h1.tag = t /\ h1.i = 0
        /\ h1.m.n = meta[t].n /\ h1.m.blocks = meta[t].blocks
        /\ h1.pc = IF meta[t].n = 0 THEN "guardar" ELSE "commitear"
    BY ZenonT(60), <1>4, <2>1, <2>2 DEF Hilo, Pasos, Metadata
  <2>4. Posee(h1) = {t} /\ h1.op \in OperacionesDe(h1.pc) /\ Indices(h1) /\ Listados(h1)
    BY <2>1, <2>3 DEF Posee, OperacionesDe, Indices, Listados, Metadata
  <2>5. \A l \in Coinciden(h1) : l \in Logicos /\ l < meta[t].n
    BY <2>3 DEF Coinciden
  <2> QED
    BY <1>1, <1>5, <2>3, <2>4, <2>5, AceptaInv
<1> QED
  BY <1>2, <1>3, <1>4, <1>5 DEF Commit

\* TAG is turned down, or takes the mutex of its origin.
LEMMA TagInv ==
    ASSUME TypeOK, Disciplina, NEW w \in Workers, NEW o \in Tags, NEW d \in Tags, Tag(w, o, d)
    PROVE  TypeOK' /\ Disciplina'
<1>1. En(w, "ocioso") /\ UNCHANGED disco
  BY DEF Tag, Pide
<1>2. CASE Fin(w, "error")
  BY <1>1, <1>2, RechazoInv DEF Respuestas
<1>3. PICK h1 : h1 = [Ocioso EXCEPT !.pc = "crear_destino", !.op = "TAG",
                                    !.tag = d, !.orig = o, !.m = meta[o]]
  OBVIOUS
<1>4. CASE o \in archivos /\ Toma(w, o, h1)
  <2>1. meta[o] \in Metadata
    BY DEF TypeOK
  <2>2. /\ h1 \in Hilo /\ h1.op = "TAG" /\ h1.tag = d /\ h1.orig = o /\ h1.m = meta[o]
        /\ h1.i = 0 /\ h1.pc = "crear_destino"
    BY <1>3, <2>1, Tipos DEF Hilo, Pasos, OperacionesFS, Ocioso
  <2>3. Entera(o)
    BY <1>4 DEF Toma, Disciplina, MetadataRespaldada
  <2>4. Posee(h1) = {o} /\ h1.op \in OperacionesDe(h1.pc) /\ Indices(h1) /\ Listados(h1)
    BY <2>2, <2>3 DEF Posee, OperacionesDe, Indices, Listados, Entera
  <2> QED
    BY <1>1, <1>4, <2>2, <2>4, AceptaInv
<1> QED
  BY <1>2, <1>3, <1>4 DEF Tag

-----------------------------------------------------------------------------
(* Steps that move links                                                   *)

\* A step of a section of a single tag that may change the links of that tag,
\* and keeps those on which the metadata in memory must still agree.
LEMMA TocaEnlacesInv ==
    ASSUME TypeOK, Disciplina, NEW w \in Workers, NEW h \in Hilo, NEW h1 \in Hilo,
           h = hilo[w], hilo' = [hilo EXCEPT ![w] = h1],
           UNCHANGED <<lock, meta, archivos>>,
           \A t \in Tags : t # h.tag => enlaces'[t] = enlaces[t],
           h.pc \notin {"ocioso", "responder", "leer", "leido"},
           h1.pc \notin {"ocioso", "responder", "leer", "leido"},
           h.op \notin {"TAG", "ninguna"},
           h1.op = h.op, h1.tag = h.tag,
           \A l \in Logicos : l \in Coinciden(h1) =>
              h1.m.blocks[l] # SinBloque /\ enlaces'[h.tag][l] = h1.m.blocks[l],
           h1.op \in OperacionesDe(h1.pc), Indices(h1), Listados(h1),
           /\ h1.op = "WRITE"
           /\ h1.pc \in {"escribir", "en_sitio", "reservar", "copiar", "desenlazar"}
           => h1.m = meta[h1.tag]
    PROVE  Disciplina' /\ hilo' \in [Workers -> Hilo]
<1>1. /\ h.op \in OperacionesDe(h.pc) /\ EnOrden(h)
      /\ \A t \in Tags : lock[t] = w <=> t \in Posee(h)
  BY Hechos
<1>2. h.pc \notin {"crear_destino", "tomar_destino", "copiar_enlace"}
      /\ h1.pc \notin {"crear_destino", "tomar_destino", "copiar_enlace"}
  BY <1>1 DEF OperacionesDe
<1>3. Posee(h) = {h.tag} /\ Posee(h1) = {h.tag} /\ h.tag \in Tags
  BY <1>2 DEF Posee, Hilo
<1>4. h.tag \in archivos
  BY <1>1, <1>2, <1>3 DEF EnOrden
<1>5. \A l : l \in Coinciden(h1) => l \in Logicos
  BY DEF Coinciden
<1>6. \A l \in Coinciden(h1) : Coincide(h1, l)'
  BY <1>5 DEF Coincide
<1>7. Coinciden(h1)' = Coinciden(h1)
  BY DEF Coinciden
<1>8. EnOrden(h1)'
  BY <1>2, <1>4, <1>6, <1>7 DEF EnOrden
<1>9. \A t \in Tags : lock[t] # w => enlaces'[t] = enlaces[t] /\ meta'[t] = meta[t]
  BY <1>1, <1>3
<1> QED
  BY <1>3, <1>8, <1>9, Continua

\* Where a section of a single tag stands.
LEMMA Seccion ==
    ASSUME TypeOK, Disciplina, NEW w \in Workers, NEW h \in Hilo, h = hilo[w],
           h.pc \notin {"ocioso", "responder", "leer", "leido",
                        "crear_destino", "tomar_destino"},
           h.op # "TAG"
    PROVE  /\ h.tag \in Tags /\ h.tag \in archivos
           /\ \A t \in Tags : lock[t] = w <=> t = h.tag
           /\ \A l \in Coinciden(h) : Coincide(h, l)
           /\ h.op \in OperacionesDe(h.pc) /\ Indices(h) /\ Listados(h)
           /\ h.m \in Metadata /\ h.i \in Logicos /\ h.arg \in Tamanios \union {0}
<1>1. Posee(h) = {h.tag} /\ h.tag \in Tags
  BY DEF Posee, Hilo
<1>2. h.m \in Metadata /\ h.i \in Logicos /\ h.arg \in Tamanios \union {0}
  BY DEF Hilo
<1> QED
  BY <1>1, <1>2, Hechos DEF EnOrden

\* A section that ends with its tag whole.
LEMMA TerminaInv ==
    ASSUME TypeOK, Disciplina, NEW w \in Workers, NEW h \in Hilo, h = hilo[w],
           NEW r \in Respuestas, Fin(w, r),
           \A t \in Tags : lock[t] = w => t = h.tag,
           \A t \in Tags : t # h.tag => enlaces'[t] = enlaces[t] /\ meta'[t] = meta[t]
                                     /\ ((t \in archivos') <=> (t \in archivos)),
           h.tag \in Tags, lock[h.tag] = w, archivos' \subseteq Tags,
           h.tag \in archivos' => Entera(h.tag)'
    PROVE  /\ Disciplina' /\ hilo' \in [Workers -> Hilo]
           /\ lock' \in [Tags -> Workers \union {Nadie}]
<1>1. \A t \in Tags : lock[t] # w => t # h.tag
  OBVIOUS
<1>2. \A t \in archivos' : lock[t] = w => Entera(t)'
  <2> HIDE DEF Entera
  <2> SUFFICES ASSUME NEW t \in archivos', lock[t] = w PROVE Entera(t)'
    OBVIOUS
  <2>1. t = h.tag
    OBVIOUS
  <2> QED
    BY <2>1
<1> QED
  BY <1>1, <1>2, Cierre

\* The next round of DELETE and COMMIT relies on the blocks not yet visited.
LEMMA AvanzaHechos ==
    ASSUME NEW h \in Hilo, h.op \in {"DELETE", "COMMIT"}, h.i < h.m.n, NEW h1, h1 = Avanza(h)
    PROVE  /\ h1 \in Hilo /\ h1.op = h.op /\ h1.tag = h.tag /\ h1.m.blocks = h.m.blocks
           /\ h1.pc \in {"borrar", "commitear", "quitar", "guardar"}
           /\ h1.op \in OperacionesDe(h1.pc) /\ Indices(h1) /\ Listados(h1)
           /\ \A l \in Coinciden(h1) : /\ l \in Logicos /\ l < h.m.n
                                       /\ h.op = "DELETE" => l > h.i
<1>1. h1 \in Hilo
  BY AvanzaTipo
<1>2. h.m \in Metadata /\ h.i \in Logicos /\ h.m.n \in 0 .. MaxLogicos /\ h.i \in Int /\ h.m.n \in Int
  BY LogicosAssumption DEF Hilo, Metadata, Logicos
<1>3. CASE h.i + 1 < h.m.n
  <2>1. /\ h1.op = h.op /\ h1.tag = h.tag /\ h1.m = h.m /\ h1.i = h.i + 1
        /\ h1.pc = IF h.op = "DELETE" THEN "borrar" ELSE "commitear"
    BY <1>3 DEF Avanza, Hilo
  <2>2. h1.op \in OperacionesDe(h1.pc) /\ Indices(h1) /\ Listados(h1)
    BY <1>3, <2>1 DEF OperacionesDe, Indices, Listados
  <2>3. \A l \in Coinciden(h1) : /\ l \in Logicos /\ l < h.m.n
                                 /\ h.op = "DELETE" => l >= h.i + 1
    BY <2>1 DEF Coinciden
  <2>4. \A l \in Logicos : l >= h.i + 1 => l > h.i
    BY <1>2 DEF Logicos
  <2> QED
    BY <1>1, <2>1, <2>2, <2>3, <2>4
<1>4. CASE ~ (h.i + 1 < h.m.n)
  <2>1. /\ h1.op = h.op /\ h1.tag = h.tag /\ h1.m.blocks = h.m.blocks /\ h1.m.n = h.m.n
        /\ h1.pc = IF h.op = "DELETE" THEN "quitar" ELSE "guardar"
    BY <1>2, <1>4 DEF Avanza, Hilo, Metadata
  <2>2. h1.op \in OperacionesDe(h1.pc) /\ Indices(h1) /\ Listados(h1)
    BY <2>1 DEF OperacionesDe, Indices, Listados
  <2>3. \A l \in Coinciden(h1) : l \in Logicos /\ l < h.m.n /\ h.op # "DELETE"
    BY <2>1 DEF Coinciden
  <2> QED
    BY <1>1, <2>1, <2>2, <2>3
<1> QED
  BY <1>3, <1>4

\* The next round of a shrinking TRUNCATE relies on the blocks below.
LEMMA AchicarHechos ==
    ASSUME NEW h \in Hilo, h.op = "TRUNCATE", Necesarios(h.arg) <= h.i, h.i < h.m.n,
           NEW h1, h1 = SiguienteAchicar(h)
    PROVE  /\ h1 \in Hilo /\ h1.op = h.op /\ h1.tag = h.tag
           /\ h1.pc \in {"achicar", "guardar"}
           /\ h1.op \in OperacionesDe(h1.pc) /\ Indices(h1) /\ Listados(h1)
           /\ \A l \in Coinciden(h1) : /\ l \in Logicos /\ l < h.i
                                       /\ h1.m.blocks[l] = h.m.blocks[l]
<1>1. /\ h.m \in Metadata /\ h.i \in Logicos /\ h.m.n \in 0 .. MaxLogicos
      /\ h.arg \in Tamanios \union {0} /\ Necesarios(h.arg) \in 0 .. MaxLogicos
  BY TamaniosAssumption DEF Hilo, Metadata
<1>2. CASE h.i > Necesarios(h.arg)
  <2>1. h.i - 1 \in Logicos
    BY <1>1, <1>2, LogicosAssumption DEF Logicos
  <2>2. h1 = [h EXCEPT !.i = h.i - 1, !.pc = "achicar"]
    BY <1>2 DEF SiguienteAchicar
  <2>3. /\ h1 \in Hilo /\ h1.op = h.op /\ h1.tag = h.tag /\ h1.m = h.m /\ h1.arg = h.arg
        /\ h1.i = h.i - 1 /\ h1.pc = "achicar"
    BY <2>1, <2>2 DEF Hilo, Pasos
  <2>4. h1.op \in OperacionesDe(h1.pc) /\ Listados(h1)
    BY <2>3 DEF OperacionesDe, Listados
  <2>5. Indices(h1)
    BY <1>1, <1>2, <2>3 DEF Indices, Logicos
  <2>6. \A l \in Coinciden(h1) : l \in Logicos /\ l <= h.i - 1
    BY <2>3 DEF Coinciden
  <2>7. \A l \in Logicos : l <= h.i - 1 => l < h.i
    BY <1>1 DEF Logicos
  <2> QED
    BY <2>3, <2>4, <2>5, <2>6, <2>7
<1>3. CASE ~ (h.i > Necesarios(h.arg))
  <2>1. h1 = [h EXCEPT !.m = Redimensionada(h.m, h.arg), !.pc = "guardar"]
    BY <1>3 DEF SiguienteAchicar
  <2>2. /\ Redimensionada(h.m, h.arg) \in Metadata
        /\ Redimensionada(h.m, h.arg).n = Necesarios(h.arg)
        /\ \A l \in Logicos : l < Necesarios(h.arg) =>
              Redimensionada(h.m, h.arg).blocks[l] = h.m.blocks[l]
    BY <1>1, RedimensionadaTipo
  <2>3. /\ h1 \in Hilo /\ h1.op = h.op /\ h1.tag = h.tag
        /\ h1.m = Redimensionada(h.m, h.arg) /\ h1.pc = "guardar"
    BY <2>1, <2>2 DEF Hilo, Pasos
  <2>4. h1.op \in OperacionesDe(h1.pc) /\ Listados(h1) /\ Indices(h1)
    BY <2>3 DEF OperacionesDe, Listados, Indices
  <2>5. \A l \in Coinciden(h1) : l \in Logicos /\ l < Necesarios(h.arg)
    BY <2>2, <2>3 DEF Coinciden
  <2>6. \A l \in Logicos : l < Necesarios(h.arg) => l < h.i
    BY <1>1 DEF Logicos
  <2> QED
    BY <2>2, <2>3, <2>4, <2>5, <2>6
<1> QED
  BY <1>2, <1>3

\* DELETE and COMMIT count the references of the block they left.
LEMMA ContarReferenciasInv ==
    ASSUME TypeOK, Disciplina, NEW w \in Workers, ContarReferencias(w)
    PROVE  TypeOK' /\ Disciplina'
<1>1. PICK h \in Hilo : h = hilo[w]
  BY Hechos
<1>2. PICK h1 : h1 = IF SinUso(h.b) THEN [h EXCEPT !.pc = "liberar"] ELSE Avanza(h)
  OBVIOUS
<1>3. /\ h.pc = "contar" /\ hilo' = [hilo EXCEPT ![w] = h1]
      /\ UNCHANGED disco /\ UNCHANGED <<lock, error_read, vivo>>
  BY <1>1, <1>2 DEF ContarReferencias, En, Sigue
<1>4. h.op \in {"DELETE", "COMMIT"} /\ Indices(h) /\ h.i < h.m.n
  BY <1>1, <1>3, Hechos DEF OperacionesDe, Indices
<1>5. Disciplina' /\ hilo' \in [Workers -> Hilo]
  <2>1. CASE SinUso(h.b)
    <3>1. /\ h1 \in Hilo /\ h1.pc = "liberar" /\ h1.op = h.op /\ h1.tag = h.tag
          /\ h1.m = h.m /\ h1.i = h.i
      BY <1>2, <2>1 DEF Hilo, Pasos
    <3>2. h1.op \in OperacionesDe(h1.pc) /\ Indices(h1) /\ Listados(h1)
      BY <1>4, <3>1 DEF OperacionesDe, Indices, Listados
    <3>3. Coinciden(h1) = Coinciden(h)
      BY <1>3, <1>4, <3>1 DEF Coinciden
    <3> QED
      BY <1>1, <1>3, <1>4, <3>1, <3>2, <3>3, SinTocar DEF disco
  <2>2. CASE ~ SinUso(h.b)
    <3>1. h1 = Avanza(h)
      BY <1>2, <2>2
    <3>2. /\ h1 \in Hilo /\ h1.op = h.op /\ h1.tag = h.tag /\ h1.m.blocks = h.m.blocks
          /\ h1.pc \in {"borrar", "commitear", "quitar", "guardar"}
          /\ h1.op \in OperacionesDe(h1.pc) /\ Indices(h1) /\ Listados(h1)
          /\ \A l \in Coinciden(h1) : /\ l \in Logicos /\ l < h.m.n
                                      /\ h.op = "DELETE" => l > h.i
      BY <1>4, <3>1, AvanzaHechos
    <3>3. \A l \in Logicos : l \in Coinciden(h1) => l \in Coinciden(h)
      BY <1>3, <1>4, <3>2 DEF Coinciden
    <3> QED
      BY <1>1, <1>3, <1>4, <3>2, <3>3, SinTocar DEF disco
  <2> QED
    BY <2>1, <2>2
<1> QED
  BY <1>3, <1>5 DEF TypeOK, disco

\* A block is marked as free and its loop goes on.
LEMMA MarcarLibreInv ==
    ASSUME TypeOK, Disciplina, NEW w \in Workers, MarcarLibre(w)
    PROVE  TypeOK' /\ Disciplina'
<1>1. PICK h \in Hilo : h = hilo[w]
  BY Hechos
<1>2. PICK h1 : h1 = IF h.op = "TRUNCATE" THEN SiguienteAchicar(h) ELSE Avanza(h)
  OBVIOUS
<1>3. /\ h.pc = "liberar" /\ hilo' = [hilo EXCEPT ![w] = h1]
      /\ ocupado' = ocupado \ {h.b} /\ UNCHANGED <<lock, error_read, vivo>>
      /\ UNCHANGED <<contenido, enlaces, directorios, archivos, meta, indice>>
  BY <1>1, <1>2 DEF MarcarLibre, En, Sigue
<1>4. h.op \in {"DELETE", "COMMIT", "TRUNCATE"} /\ Indices(h) /\ h.op # "TAG"
  BY <1>1, <1>3, Hechos DEF OperacionesDe
<1>5. h.tag \in Tags /\ (\A t \in Tags : lock[t] = w <=> t = h.tag)
      /\ \A l \in Coinciden(h) : Coincide(h, l)
  BY <1>1, <1>3, <1>4, Seccion
<1>6. Disciplina' /\ hilo' \in [Workers -> Hilo]
  <2>1. CASE h.op = "TRUNCATE"
    <3>1. Necesarios(h.arg) <= h.i /\ h.i < h.m.n /\ h1 = SiguienteAchicar(h)
      BY <1>2, <1>3, <1>4, <2>1 DEF Indices
    <3>2. /\ h1 \in Hilo /\ h1.op = h.op /\ h1.tag = h.tag
          /\ h1.pc \in {"achicar", "guardar"}
          /\ h1.op \in OperacionesDe(h1.pc) /\ Indices(h1) /\ Listados(h1)
          /\ \A l \in Coinciden(h1) : /\ l \in Logicos /\ l < h.i
                                      /\ h1.m.blocks[l] = h.m.blocks[l]
      BY <2>1, <3>1, AchicarHechos
    <3>3. \A l \in Logicos : l \in Coinciden(h1) =>
             h1.m.blocks[l] # SinBloque /\ enlaces'[h.tag][l] = h1.m.blocks[l]
      BY <1>3, <1>5, <2>1, <3>2 DEF Coinciden, Coincide
    <3> QED
      BY <1>1, <1>3, <1>4, <2>1, <3>2, <3>3, TocaEnlacesInv
  <2>2. CASE h.op # "TRUNCATE"
    <3>1. h.i < h.m.n /\ h1 = Avanza(h)
      BY <1>2, <1>3, <1>4, <2>2 DEF Indices
    <3>2. /\ h1 \in Hilo /\ h1.op = h.op /\ h1.tag = h.tag /\ h1.m.blocks = h.m.blocks
          /\ h1.pc \in {"borrar", "commitear", "quitar", "guardar"}
          /\ h1.op \in OperacionesDe(h1.pc) /\ Indices(h1) /\ Listados(h1)
          /\ \A l \in Coinciden(h1) : /\ l \in Logicos /\ l < h.m.n
                                      /\ h.op = "DELETE" => l > h.i
      BY <1>4, <2>2, <3>1, AvanzaHechos
    <3>3. \A l \in Logicos : l \in Coinciden(h1) => l \in Coinciden(h)
      BY <1>3, <1>4, <2>2, <3>2 DEF Coinciden
    <3> QED
      BY <1>1, <1>3, <1>4, <2>2, <3>2, <3>3, SinTocar
  <2> QED
    BY <2>1, <2>2
<1> QED
  BY <1>3, <1>6 DEF TypeOK

\* WRITE and COMMIT unlink a logical block, the first half of moving it.
LEMMA DesenlazarInv ==
    ASSUME TypeOK, Disciplina, NEW w \in Workers, Desenlazar(w)
    PROVE  TypeOK' /\ Disciplina'
<1>1. PICK h \in Hilo : h = hilo[w]
  BY Hechos
<1>2. /\ h.pc = "desenlazar"
      /\ UNCHANGED <<ocupado, contenido, directorios, archivos, meta, indice>>
  BY <1>1 DEF Desenlazar, En
<1>3. h.op \in {"WRITE", "COMMIT"}
  BY <1>1, <1>2, Hechos DEF OperacionesDe
<1>4. /\ h.tag \in Tags /\ h.tag \in archivos /\ (\A t \in Tags : lock[t] = w <=> t = h.tag)
      /\ (\A l \in Coinciden(h) : Coincide(h, l)) /\ Indices(h) /\ Listados(h)
      /\ h.m \in Metadata /\ h.i \in Logicos
  BY <1>1, <1>2, <1>3, Seccion
<1>5. h.i < h.m.n /\ h.b # SinBloque /\ Coinciden(h) = {l \in Logicos : l < h.m.n}
  BY <1>2, <1>3, <1>4 DEF Indices, Listados, Coinciden
<1>6. CASE /\ enlaces' = [enlaces EXCEPT ![h.tag][h.i] = SinBloque]
           /\ Sigue(w, [h EXCEPT !.pc = "enlazar"])
  <2>1. PICK h1 : h1 = [h EXCEPT !.pc = "enlazar"]
    OBVIOUS
  <2>2. /\ h1 \in Hilo /\ h1.pc = "enlazar" /\ h1.op = h.op /\ h1.tag = h.tag
        /\ h1.m = h.m /\ h1.i = h.i /\ h1.b = h.b
    BY <2>1 DEF Hilo, Pasos
  <2>3. /\ h1.op \in OperacionesDe(h1.pc) /\ Indices(h1) /\ Listados(h1)
        /\ Coinciden(h1) = {l \in Logicos : l < h.m.n /\ l # h.i}
    BY <1>3, <1>5, <2>2 DEF OperacionesDe, Indices, Listados, Coinciden
  <2>4. /\ \A t \in Tags : t # h.tag => enlaces'[t] = enlaces[t]
        /\ \A l \in Logicos : l # h.i => enlaces'[h.tag][l] = enlaces[h.tag][l]
        /\ enlaces' \in [Tags -> [Logicos -> BloqueO]]
    BY <1>4, <1>6 DEF TypeOK, BloqueO
  <2>5. \A l \in Logicos : l \in Coinciden(h1) =>
           h1.m.blocks[l] # SinBloque /\ enlaces'[h.tag][l] = h1.m.blocks[l]
    BY <1>4, <1>5, <2>2, <2>3, <2>4 DEF Coincide
  <2>6. hilo' = [hilo EXCEPT ![w] = h1] /\ UNCHANGED <<lock, error_read, vivo>>
    BY <1>6, <2>1 DEF Sigue
  <2>7. Disciplina' /\ hilo' \in [Workers -> Hilo]
    BY <1>1, <1>2, <1>3, <2>2, <2>3, <2>4, <2>5, <2>6, TocaEnlacesInv
  <2> QED
    BY <1>2, <2>4, <2>6, <2>7 DEF TypeOK
<1>7. CASE h.op = "WRITE" /\ Fin(w, "error") /\ UNCHANGED enlaces
  <2>1. h.m = meta[h.tag]
    BY <1>1, <1>2, <1>7, Hechos DEF EnOrden
  <2>2. Entera(h.tag)'
    BY <1>2, <1>4, <1>5, <1>7, <2>1 DEF Entera, Coincide
  <2>3. archivos' \subseteq Tags
    BY <1>2 DEF TypeOK
  <2>4. /\ Disciplina' /\ hilo' \in [Workers -> Hilo]
        /\ lock' \in [Tags -> Workers \union {Nadie}]
    BY <1>1, <1>2, <1>4, <1>7, <2>2, <2>3, TerminaInv DEF Respuestas
  <2> QED
    BY <1>2, <1>7, <2>4 DEF TypeOK, Fin
<1>8. CASE h.op # "WRITE" /\ Sigue(w, Avanza(h)) /\ UNCHANGED enlaces
  <2>1. PICK h1 : h1 = Avanza(h)
    OBVIOUS
  <2>2. /\ h1 \in Hilo /\ h1.op = h.op /\ h1.tag = h.tag /\ h1.m.blocks = h.m.blocks
        /\ h1.pc \in {"borrar", "commitear", "quitar", "guardar"}
        /\ h1.op \in OperacionesDe(h1.pc) /\ Indices(h1) /\ Listados(h1)
        /\ \A l \in Coinciden(h1) : l \in Logicos /\ l < h.m.n
    BY <1>3, <1>5, <1>8, <2>1, AvanzaHechos
  <2>3. hilo' = [hilo EXCEPT ![w] = h1] /\ UNCHANGED <<lock, error_read, vivo>>
    BY <1>8, <2>1 DEF Sigue
  <2>4. Disciplina' /\ hilo' \in [Workers -> Hilo]
    BY <1>1, <1>2, <1>3, <1>5, <1>8, <2>2, <2>3, SinTocar
  <2> QED
    BY <1>2, <1>8, <2>3, <2>4 DEF TypeOK
<1> QED
  BY <1>1, <1>6, <1>7, <1>8 DEF Desenlazar

\* WRITE and COMMIT link the logical block again: metadata and links agree.
LEMMA EnlazarInv ==
    ASSUME TypeOK, Disciplina, NEW w \in Workers, Enlazar(w)
    PROVE  TypeOK' /\ Disciplina'
<1>1. PICK h \in Hilo : h = hilo[w]
  BY Hechos
<1>2. PICK h1 : h1 = IF h.op = "WRITE" THEN [Reasignada(h) EXCEPT !.pc = "guardar"]
                     ELSE [Reasignada(h) EXCEPT !.pc = "contar", !.b = h.m.blocks[h.i]]
  OBVIOUS
<1>3. /\ h.pc = "enlazar"
      /\ UNCHANGED <<ocupado, contenido, directorios, archivos, meta, indice>>
      /\ enlaces' = [enlaces EXCEPT ![h.tag][h.i] = h.b]
      /\ hilo' = [hilo EXCEPT ![w] = h1] /\ UNCHANGED <<lock, error_read, vivo>>
  BY <1>1, <1>2 DEF Enlazar, En, Sigue
<1>4. h.op \in {"WRITE", "COMMIT"}
  BY <1>1, <1>3, Hechos DEF OperacionesDe
<1>5. /\ h.tag \in Tags /\ (\A l \in Coinciden(h) : Coincide(h, l)) /\ Indices(h) /\ Listados(h)
      /\ h.m \in Metadata /\ h.i \in Logicos
  BY <1>1, <1>3, <1>4, Seccion
<1>6. /\ h.i < h.m.n /\ h.b # SinBloque /\ h.b \in BloqueO
      /\ Coinciden(h) = {l \in Logicos : l < h.m.n /\ l # h.i}
  BY <1>3, <1>5 DEF Indices, Listados, Coinciden, Hilo
<1>7. [h.m EXCEPT !.blocks[h.i] = h.b] \in Metadata
  BY <1>5, <1>6 DEF Metadata
<1>8. PICK h0 : h0 = Reasignada(h)
  OBVIOUS
<1>9. h0 \in Hilo /\ h0.op = h.op /\ h0.tag = h.tag /\ h0.i = h.i /\ h0.m = [h.m EXCEPT !.blocks[h.i] = h.b]
  BY <1>7, <1>8 DEF Reasignada, Hilo
<1>10. h.m.blocks[h.i] \in BloqueO
  BY <1>5 DEF Metadata
<1>11. /\ h1 \in Hilo /\ h1.op = h.op /\ h1.tag = h.tag /\ h1.i = h.i
       /\ h1.m = [h.m EXCEPT !.blocks[h.i] = h.b]
       /\ h1.pc = IF h.op = "WRITE" THEN "guardar" ELSE "contar"
  BY ZenonT(60), <1>2, <1>8, <1>9, <1>10 DEF Hilo, Pasos
<1>12. /\ h1.m.n = h.m.n /\ h1.m.blocks[h.i] = h.b
       /\ \A l \in Logicos : l # h.i => h1.m.blocks[l] = h.m.blocks[l]
  BY <1>5, <1>11 DEF Metadata
<1>13. /\ h1.op \in OperacionesDe(h1.pc) /\ Indices(h1) /\ Listados(h1)
       /\ Coinciden(h1) = {l \in Logicos : l < h.m.n}
  BY <1>4, <1>6, <1>11, <1>12 DEF OperacionesDe, Indices, Listados, Coinciden
<1>14. /\ \A t \in Tags : t # h.tag => enlaces'[t] = enlaces[t]
       /\ \A l \in Logicos : enlaces'[h.tag][l] = IF l = h.i THEN h.b ELSE enlaces[h.tag][l]
       /\ enlaces' \in [Tags -> [Logicos -> BloqueO]]
  BY <1>3, <1>5, <1>6 DEF TypeOK
<1>15. \A l \in Logicos : l \in Coinciden(h1) =>
          h1.m.blocks[l] # SinBloque /\ enlaces'[h.tag][l] = h1.m.blocks[l]
  BY <1>5, <1>6, <1>12, <1>13, <1>14 DEF Coincide
<1>16. Disciplina' /\ hilo' \in [Workers -> Hilo]
  BY ZenonT(60), <1>1, <1>3, <1>4, <1>11, <1>13, <1>14, <1>15, TocaEnlacesInv
<1> QED
  BY <1>3, <1>14, <1>16 DEF TypeOK

\* TRUNCATE links a new logical block to physical block 0.
LEMMA AgrandarInv ==
    ASSUME TypeOK, Disciplina, NEW w \in Workers, Agrandar(w)
    PROVE  TypeOK' /\ Disciplina'
<1>1. PICK h \in Hilo : h = hilo[w]
  BY Hechos
<1>2. PICK m : m = [h.m EXCEPT !.blocks[h.i] = 0]
  OBVIOUS
<1>3. PICK h1 : h1 = IF h.i + 1 < Necesarios(h.arg) THEN [h EXCEPT !.m = m, !.i = @ + 1]
                     ELSE [h EXCEPT !.m = Redimensionada(m, h.arg), !.pc = "guardar"]
  OBVIOUS
<1>4. /\ h.pc = "agrandar"
      /\ UNCHANGED <<ocupado, contenido, directorios, archivos, meta, indice>>
      /\ enlaces' = [enlaces EXCEPT ![h.tag][h.i] = 0]
      /\ hilo' = [hilo EXCEPT ![w] = h1] /\ UNCHANGED <<lock, error_read, vivo>>
  BY <1>1, <1>2, <1>3 DEF Agrandar, En, Sigue
<1>5. h.op = "TRUNCATE"
  BY <1>1, <1>4, Hechos DEF OperacionesDe
<1>6. /\ h.tag \in Tags /\ (\A l \in Coinciden(h) : Coincide(h, l)) /\ Indices(h)
      /\ h.m \in Metadata /\ h.i \in Logicos /\ h.arg \in Tamanios \union {0}
  BY <1>1, <1>4, <1>5, Seccion
<1>7. /\ Coinciden(h) = {l \in Logicos : l < h.i}
      /\ h.m.n <= h.i /\ h.i < Necesarios(h.arg) /\ Necesarios(h.arg) \in 0 .. MaxLogicos
  BY <1>4, <1>6, TamaniosAssumption DEF Indices, Coinciden
<1>8. 0 \in BloqueO /\ 0 # SinBloque
  BY Tipos DEF BloqueO, SinBloque
<1>9. /\ m \in Metadata /\ m.n = h.m.n /\ m.blocks[h.i] = 0
      /\ \A l \in Logicos : l # h.i => m.blocks[l] = h.m.blocks[l]
  BY <1>2, <1>6, <1>8 DEF Metadata
<1>10. /\ \A t \in Tags : t # h.tag => enlaces'[t] = enlaces[t]
       /\ \A l \in Logicos : enlaces'[h.tag][l] = IF l = h.i THEN 0 ELSE enlaces[h.tag][l]
       /\ enlaces' \in [Tags -> [Logicos -> BloqueO]]
  BY <1>4, <1>6, <1>8 DEF TypeOK
<1>11. \A l \in Logicos : l <= h.i => m.blocks[l] # SinBloque /\ enlaces'[h.tag][l] = m.blocks[l]
  <2>1. \A l \in Logicos : l <= h.i => l = h.i \/ l < h.i
    BY <1>6 DEF Logicos
  <2> QED
    BY <1>6, <1>7, <1>8, <1>9, <1>10, <2>1 DEF Coincide
<1>12. Disciplina' /\ hilo' \in [Workers -> Hilo]
  <2>1. CASE h.i + 1 < Necesarios(h.arg)
    <3>1. h.i + 1 \in Logicos
      BY <1>6, <1>7, <2>1, LogicosAssumption DEF Logicos
    <3>2. h1 = [h EXCEPT !.m = m, !.i = h.i + 1]
      BY <1>3, <2>1
    <3>3. /\ h1 \in Hilo /\ h1.pc = "agrandar" /\ h1.op = h.op /\ h1.tag = h.tag
          /\ h1.m = m /\ h1.i = h.i + 1 /\ h1.arg = h.arg
      BY <1>4, <1>9, <3>1, <3>2 DEF Hilo
    <3>4. /\ h1.op \in OperacionesDe(h1.pc) /\ Listados(h1)
          /\ Coinciden(h1) = {l \in Logicos : l < h.i + 1}
      BY <1>5, <3>3 DEF OperacionesDe, Listados, Coinciden
    <3>5. Indices(h1)
      BY <1>6, <1>7, <1>9, <2>1, <3>3 DEF Indices, Logicos, Metadata
    <3>6. \A l \in Logicos : l < h.i + 1 => l <= h.i
      BY <1>6 DEF Logicos
    <3>7. \A l \in Logicos : l \in Coinciden(h1) =>
             h1.m.blocks[l] # SinBloque /\ enlaces'[h.tag][l] = h1.m.blocks[l]
      BY <1>11, <3>3, <3>4, <3>6
    <3> QED
      BY <1>1, <1>4, <1>5, <1>10, <3>3, <3>4, <3>5, <3>7, TocaEnlacesInv
  <2>2. CASE ~ (h.i + 1 < Necesarios(h.arg))
    <3>1. h1 = [h EXCEPT !.m = Redimensionada(m, h.arg), !.pc = "guardar"]
      BY <1>3, <2>2
    <3>2. /\ Redimensionada(m, h.arg) \in Metadata
          /\ Redimensionada(m, h.arg).n = Necesarios(h.arg)
          /\ \A l \in Logicos : l < Necesarios(h.arg) =>
                Redimensionada(m, h.arg).blocks[l] = m.blocks[l]
      BY <1>6, <1>9, RedimensionadaTipo
    <3>3. /\ h1 \in Hilo /\ h1.op = h.op /\ h1.tag = h.tag
          /\ h1.m = Redimensionada(m, h.arg) /\ h1.pc = "guardar"
      BY <3>1, <3>2 DEF Hilo, Pasos
    <3>4. h1.op \in OperacionesDe(h1.pc) /\ Listados(h1) /\ Indices(h1)
      BY <1>5, <3>3 DEF OperacionesDe, Listados, Indices
    <3>5. \A l \in Coinciden(h1) : l \in Logicos /\ l < Necesarios(h.arg)
      BY <1>5, <3>2, <3>3 DEF Coinciden
    <3>6. \A l \in Logicos : l < Necesarios(h.arg) => l <= h.i
      BY <1>6, <1>7, <2>2 DEF Logicos
    <3>7. \A l \in Logicos : l \in Coinciden(h1) =>
             h1.m.blocks[l] # SinBloque /\ enlaces'[h.tag][l] = h1.m.blocks[l]
      BY <1>11, <3>2, <3>3, <3>5, <3>6
    <3> QED
      BY <1>1, <1>4, <1>5, <1>10, <3>3, <3>4, <3>7, TocaEnlacesInv
  <2> QED
    BY <2>1, <2>2
<1> QED
  BY <1>4, <1>10, <1>12 DEF TypeOK

\* TRUNCATE unlinks the last logical block.
LEMMA AchicarInv ==
    ASSUME TypeOK, Disciplina, NEW w \in Workers, Achicar(w)
    PROVE  TypeOK' /\ Disciplina'
<1>1. PICK h \in Hilo : h = hilo[w]
  BY Hechos
<1>2. PICK b : b = h.m.blocks[h.i]
  OBVIOUS
<1>3. PICK h1 : h1 = IF enlaces[h.tag][h.i] # SinBloque /\ Referencias(b) = 1
                     THEN [h EXCEPT !.pc = "liberar", !.b = b]
                     ELSE SiguienteAchicar(h)
  OBVIOUS
<1>4. /\ h.pc = "achicar"
      /\ UNCHANGED <<ocupado, contenido, directorios, archivos, meta, indice>>
      /\ enlaces' = [enlaces EXCEPT ![h.tag][h.i] = SinBloque]
      /\ hilo' = [hilo EXCEPT ![w] = h1] /\ UNCHANGED <<lock, error_read, vivo>>
  BY <1>1, <1>2, <1>3 DEF Achicar, En, Sigue
<1>5. h.op = "TRUNCATE"
  BY <1>1, <1>4, Hechos DEF OperacionesDe
<1>6. /\ h.tag \in Tags /\ (\A l \in Coinciden(h) : Coincide(h, l)) /\ Indices(h)
      /\ h.m \in Metadata /\ h.i \in Logicos /\ h.arg \in Tamanios \union {0}
  BY <1>1, <1>4, <1>5, Seccion
<1>7. /\ Coinciden(h) = {l \in Logicos : l <= h.i}
      /\ Necesarios(h.arg) <= h.i /\ h.i < h.m.n
  BY <1>4, <1>5, <1>6 DEF Indices, Coinciden
<1>8. /\ \A t \in Tags : t # h.tag => enlaces'[t] = enlaces[t]
      /\ \A l \in Logicos : l # h.i => enlaces'[h.tag][l] = enlaces[h.tag][l]
      /\ enlaces' \in [Tags -> [Logicos -> BloqueO]]
  BY <1>4, <1>6 DEF TypeOK, BloqueO
<1>9. \A l \in Logicos : l < h.i => l # h.i /\ l <= h.i
  BY <1>6 DEF Logicos
<1>10. /\ h1 \in Hilo /\ h1.op = h.op /\ h1.tag = h.tag
       /\ h1.pc \in {"liberar", "achicar", "guardar"}
       /\ h1.op \in OperacionesDe(h1.pc) /\ Indices(h1) /\ Listados(h1)
       /\ \A l \in Coinciden(h1) : /\ l \in Logicos /\ l < h.i
                                   /\ h1.m.blocks[l] = h.m.blocks[l]
  <2>1. CASE h1 = [h EXCEPT !.pc = "liberar", !.b = b]
    <3>1. b \in BloqueO
      BY <1>2, <1>6 DEF Metadata
    <3>2. /\ h1 \in Hilo /\ h1.op = h.op /\ h1.tag = h.tag /\ h1.pc = "liberar"
          /\ h1.m = h.m /\ h1.i = h.i /\ h1.arg = h.arg
      BY <2>1, <3>1 DEF Hilo, Pasos
    <3>3. /\ h1.op \in OperacionesDe(h1.pc) /\ Indices(h1) /\ Listados(h1)
          /\ Coinciden(h1) = {l \in Logicos : l < h.i}
      BY <1>5, <1>7, <3>2 DEF OperacionesDe, Indices, Listados, Coinciden
    <3> QED
      BY <3>2, <3>3
  <2>2. CASE h1 = SiguienteAchicar(h)
    BY <1>5, <1>7, <2>2, AchicarHechos
  <2> QED
    BY <1>3, <2>1, <2>2
<1>11. \A l \in Logicos : l \in Coinciden(h1) =>
          h1.m.blocks[l] # SinBloque /\ enlaces'[h.tag][l] = h1.m.blocks[l]
  BY <1>6, <1>7, <1>8, <1>9, <1>10 DEF Coincide
<1>12. Disciplina' /\ hilo' \in [Workers -> Hilo]
  BY <1>1, <1>4, <1>5, <1>8, <1>10, <1>11, TocaEnlacesInv
<1> QED
  BY <1>4, <1>8, <1>12 DEF TypeOK

\* DELETE unlinks a logical block, which is always there.
LEMMA BorrarEnlaceInv ==
    ASSUME TypeOK, Disciplina, NEW w \in Workers, BorrarEnlace(w)
    PROVE  TypeOK' /\ Disciplina'
<1>1. PICK h \in Hilo : h = hilo[w]
  BY Hechos
<1>2. /\ h.pc = "borrar"
      /\ UNCHANGED <<ocupado, contenido, directorios, archivos, meta, indice>>
  BY <1>1 DEF BorrarEnlace, En
<1>3. h.op = "DELETE"
  BY <1>1, <1>2, Hechos DEF OperacionesDe
<1>4. /\ h.tag \in Tags /\ (\A l \in Coinciden(h) : Coincide(h, l)) /\ Indices(h)
      /\ h.m \in Metadata /\ h.i \in Logicos
  BY <1>1, <1>2, <1>3, Seccion
<1>5. h.i < h.m.n /\ Coinciden(h) = {l \in Logicos : l < h.m.n /\ l >= h.i}
  BY <1>2, <1>4 DEF Indices, Coinciden
<1>6. Coincide(h, h.i)
  BY <1>4, <1>5 DEF Logicos
<1>7. enlaces[h.tag][h.i] # SinBloque
  BY <1>6 DEF Coincide
<1>8. PICK h1 : h1 = [h EXCEPT !.pc = "contar", !.b = h.m.blocks[h.i]]
  OBVIOUS
<1>9. /\ enlaces' = [enlaces EXCEPT ![h.tag][h.i] = SinBloque]
      /\ hilo' = [hilo EXCEPT ![w] = h1] /\ UNCHANGED <<lock, error_read, vivo>>
  BY <1>1, <1>7, <1>8 DEF BorrarEnlace, Sigue
<1>10. h.m.blocks[h.i] \in BloqueO
  BY <1>4 DEF Metadata
<1>11. /\ h1 \in Hilo /\ h1.pc = "contar" /\ h1.op = h.op /\ h1.tag = h.tag
       /\ h1.m = h.m /\ h1.i = h.i
  BY <1>8, <1>10 DEF Hilo, Pasos
<1>12. /\ h1.op \in OperacionesDe(h1.pc) /\ Indices(h1) /\ Listados(h1)
       /\ Coinciden(h1) = {l \in Logicos : l < h.m.n /\ l > h.i}
  BY <1>3, <1>5, <1>11 DEF OperacionesDe, Indices, Listados, Coinciden
<1>13. /\ \A t \in Tags : t # h.tag => enlaces'[t] = enlaces[t]
       /\ \A l \in Logicos : l # h.i => enlaces'[h.tag][l] = enlaces[h.tag][l]
       /\ enlaces' \in [Tags -> [Logicos -> BloqueO]]
  BY <1>4, <1>9 DEF TypeOK, BloqueO
<1>14. \A l \in Logicos : l > h.i => l # h.i /\ l >= h.i
  BY <1>4 DEF Logicos
<1>15. \A l \in Logicos : l \in Coinciden(h1) =>
          h1.m.blocks[l] # SinBloque /\ enlaces'[h.tag][l] = h1.m.blocks[l]
  BY <1>4, <1>5, <1>11, <1>12, <1>13, <1>14 DEF Coincide
<1>16. Disciplina' /\ hilo' \in [Workers -> Hilo]
  BY <1>1, <1>2, <1>3, <1>9, <1>11, <1>12, <1>13, <1>15, TocaEnlacesInv
<1> QED
  BY <1>2, <1>9, <1>13, <1>16 DEF TypeOK

\* DELETE removes the metadata and the directory.
LEMMA QuitarTagInv ==
    ASSUME TypeOK, Disciplina, NEW w \in Workers, QuitarTag(w)
    PROVE  TypeOK' /\ Disciplina'
<1>1. PICK h \in Hilo : h = hilo[w]
  BY Hechos
<1>2. PICK r : r = IF enlaces[h.tag] = SinEnlaces THEN "ok" ELSE "error"
  OBVIOUS
<1>3. /\ h.pc = "quitar" /\ Fin(w, r)
      /\ archivos' = archivos \ {h.tag} /\ meta' = [meta EXCEPT ![h.tag] = MetaVacia]
      /\ directorios' \subseteq directorios
      /\ UNCHANGED <<ocupado, contenido, enlaces, indice>>
  BY <1>1, <1>2 DEF QuitarTag, En
<1>4. h.op = "DELETE"
  BY <1>1, <1>3, Hechos DEF OperacionesDe
<1>5. h.tag \in Tags /\ \A t \in Tags : lock[t] = w <=> t = h.tag
  BY <1>1, <1>3, <1>4, Seccion
<1>6. \A t \in Tags : t # h.tag => enlaces'[t] = enlaces[t] /\ meta'[t] = meta[t]
                                /\ ((t \in archivos') <=> (t \in archivos))
  BY <1>3 DEF TypeOK
<1>7. archivos' \subseteq Tags /\ h.tag \notin archivos'
  BY <1>3 DEF TypeOK
<1>8. /\ Disciplina' /\ hilo' \in [Workers -> Hilo]
      /\ lock' \in [Tags -> Workers \union {Nadie}]
  BY <1>1, <1>2, <1>3, <1>5, <1>6, <1>7, TerminaInv DEF Respuestas
<1>9. meta' \in [Tags -> Metadata]
  BY <1>3, Tipos DEF TypeOK
<1> QED
  BY <1>3, <1>7, <1>8, <1>9 DEF TypeOK, Fin

\* COMMIT looks for a block with the contents of a logical block.
LEMMA BuscarHashInv ==
    ASSUME TypeOK, Disciplina, NEW w \in Workers, BuscarHash(w)
    PROVE  TypeOK' /\ Disciplina'
<1>1. PICK h \in Hilo : h = hilo[w]
  BY Hechos
<1>2. PICK b : b = h.m.blocks[h.i]
  OBVIOUS
<1>3. PICK h1 : h1 = IF b = 0 THEN Avanza(h)
                     ELSE IF indice[contenido[b]] # SinBloque
                          THEN [h EXCEPT !.pc = "desenlazar", !.b = indice[contenido[b]]]
                          ELSE [h EXCEPT !.pc = "indexar", !.dato = contenido[b]]
  OBVIOUS
<1>4. /\ h.pc = "commitear" /\ UNCHANGED disco
      /\ hilo' = [hilo EXCEPT ![w] = h1] /\ UNCHANGED <<lock, error_read, vivo>>
  BY <1>1, <1>2, <1>3 DEF BuscarHash, En, Sigue
<1>5. h.op = "COMMIT"
  BY <1>1, <1>4, Hechos DEF OperacionesDe
<1>6. /\ h.tag \in Tags /\ (\A l \in Coinciden(h) : Coincide(h, l)) /\ Indices(h)
      /\ h.m \in Metadata /\ h.i \in Logicos
  BY <1>1, <1>4, <1>5, Seccion
<1>7. h.i < h.m.n /\ Coinciden(h) = {l \in Logicos : l < h.m.n}
  BY <1>4, <1>6 DEF Indices, Coinciden
<1>8. Coincide(h, h.i)
  BY <1>6, <1>7
<1>9. b \in Bloques
  BY <1>2, <1>6, <1>8 DEF Coincide, Metadata, BloqueO
<1>10. contenido[b] \in Contenidos
  BY <1>9 DEF TypeOK
<1>11. indice[contenido[b]] \in BloqueO
  BY <1>10 DEF TypeOK
<1>12. /\ h1 \in Hilo /\ h1.op = h.op /\ h1.tag = h.tag /\ h1.m.blocks = h.m.blocks
       /\ h1.pc \notin {"ocioso", "responder", "leer", "leido"}
       /\ h1.op \in OperacionesDe(h1.pc) /\ Indices(h1) /\ Listados(h1)
       /\ \A l \in Coinciden(h1) : l \in Logicos /\ l < h.m.n
  <2>1. CASE h1 = Avanza(h)
    BY <1>5, <1>7, <2>1, AvanzaHechos
  <2>2. CASE h1 = [h EXCEPT !.pc = "desenlazar", !.b = indice[contenido[b]]]
              /\ indice[contenido[b]] # SinBloque
    <3>1. /\ h1 \in Hilo /\ h1.pc = "desenlazar" /\ h1.op = h.op /\ h1.tag = h.tag
          /\ h1.m = h.m /\ h1.i = h.i /\ h1.b = indice[contenido[b]]
      BY <1>11, <2>2 DEF Hilo, Pasos
    <3>2. /\ h1.op \in OperacionesDe(h1.pc) /\ Indices(h1) /\ Listados(h1)
          /\ Coinciden(h1) = {l \in Logicos : l < h.m.n}
      BY <1>5, <1>7, <2>2, <3>1 DEF OperacionesDe, Indices, Listados, Coinciden
    <3> QED
      BY <3>1, <3>2
  <2>3. CASE h1 = [h EXCEPT !.pc = "indexar", !.dato = contenido[b]]
    <3>1. /\ h1 \in Hilo /\ h1.pc = "indexar" /\ h1.op = h.op /\ h1.tag = h.tag
          /\ h1.m = h.m /\ h1.i = h.i
      BY <1>10, <2>3 DEF Hilo, Pasos
    <3>2. /\ h1.op \in OperacionesDe(h1.pc) /\ Indices(h1) /\ Listados(h1)
          /\ Coinciden(h1) = {l \in Logicos : l < h.m.n}
      BY <1>5, <1>7, <3>1 DEF OperacionesDe, Indices, Listados, Coinciden
    <3> QED
      BY <3>1, <3>2
  <2> QED
    BY <1>3, <2>1, <2>2, <2>3
<1>13. Disciplina' /\ hilo' \in [Workers -> Hilo]
  BY <1>1, <1>4, <1>5, <1>7, <1>12, SinTocar DEF disco
<1> QED
  BY <1>4, <1>13 DEF TypeOK, disco

\* COMMIT adds a content to the index.
LEMMA GuardarHashInv ==
    ASSUME TypeOK, Disciplina, NEW w \in Workers, GuardarHash(w)
    PROVE  TypeOK' /\ Disciplina'
<1>1. PICK h \in Hilo : h = hilo[w]
  BY Hechos
<1>2. PICK h1 : h1 = Avanza(h)
  OBVIOUS
<1>3. /\ h.pc = "indexar"
      /\ UNCHANGED <<ocupado, contenido, enlaces, directorios, archivos, meta>>
      /\ hilo' = [hilo EXCEPT ![w] = h1] /\ UNCHANGED <<lock, error_read, vivo>>
  BY <1>1, <1>2 DEF GuardarHash, En, Sigue
<1>4. h.op = "COMMIT"
  BY <1>1, <1>3, Hechos DEF OperacionesDe
<1>5. h.i < h.m.n /\ Coinciden(h) = {l \in Logicos : l < h.m.n} /\ h.m \in Metadata /\ h.i \in Logicos
  BY <1>1, <1>3, <1>4, Seccion DEF Indices, Coinciden
<1>6. /\ h1 \in Hilo /\ h1.op = h.op /\ h1.tag = h.tag /\ h1.m.blocks = h.m.blocks
      /\ h1.pc \in {"borrar", "commitear", "quitar", "guardar"}
      /\ h1.op \in OperacionesDe(h1.pc) /\ Indices(h1) /\ Listados(h1)
      /\ \A l \in Coinciden(h1) : l \in Logicos /\ l < h.m.n
  BY <1>2, <1>4, <1>5, AvanzaHechos
<1>7. Disciplina' /\ hilo' \in [Workers -> Hilo]
  BY <1>1, <1>3, <1>4, <1>5, <1>6, SinTocar
<1>8. h.m.blocks[h.i] \in BloqueO
  BY <1>5 DEF Metadata
<1>9. indice' \in [Contenidos -> BloqueO]
  BY <1>1, <1>8 DEF GuardarHash, TypeOK
<1> QED
  BY <1>3, <1>7, <1>9 DEF TypeOK

-----------------------------------------------------------------------------
(* TAG, which holds two mutexes at its end                                 *)

\* What TAG relies on: it holds its origin from the start, whole, and at the
\* end the new tag as well.
LEMMA SeccionTag ==
    ASSUME TypeOK, Disciplina, NEW w \in Workers, NEW h \in Hilo, h = hilo[w], h.op = "TAG",
           h.pc \in {"crear_destino", "tomar_destino", "copiar_enlace", "guardar"}
    PROVE  /\ h.tag \in Tags /\ h.orig \in Tags /\ h.m \in Metadata /\ h.i \in Logicos
           /\ h.orig \in archivos /\ Entera(h.orig)
           /\ h.pc \in {"crear_destino", "tomar_destino"} =>
                 /\ \A t \in Tags : lock[t] = w <=> t = h.orig
                 /\ Posee(h) = {h.orig} /\ h.i = 0
                 /\ \A l \in Logicos : l < h.m.n => h.m.blocks[l] # SinBloque
           /\ h.pc \in {"copiar_enlace", "guardar"} =>
                 /\ \A t \in Tags : lock[t] = w <=> t \in {h.orig, h.tag}
                 /\ Posee(h) = {h.orig, h.tag} /\ h.orig # h.tag /\ h.tag \in archivos
                 /\ \A l \in Coinciden(h) : Coincide(h, l)
           /\ h.pc = "copiar_enlace" =>
                 /\ Entera(h.tag) /\ h.i < h.m.n
                 /\ \A l \in Logicos : l < h.m.n => h.m.blocks[l] # SinBloque
<1>1. h.tag \in Tags /\ h.orig \in Tags /\ h.m \in Metadata /\ h.i \in Logicos
  BY DEF Hilo
<1>2. Indices(h) /\ Listados(h) /\ EnOrden(h) /\ \A t \in Tags : lock[t] = w <=> t \in Posee(h)
  BY Hechos
<1>3. h.pc \in {"crear_destino", "tomar_destino"} => Posee(h) = {h.orig}
  BY DEF Posee
<1>4. h.pc \in {"copiar_enlace", "guardar"} => Posee(h) = {h.orig, h.tag}
  BY DEF Posee
<1>5. h.orig \in archivos /\ Entera(h.orig)
  BY <1>2 DEF EnOrden
<1>6. h.pc \in {"copiar_enlace", "guardar"} =>
         /\ h.orig # h.tag /\ h.tag \in archivos
         /\ \A l \in Coinciden(h) : Coincide(h, l)
  BY <1>2, <1>4 DEF EnOrden
<1>7. h.pc = "copiar_enlace" => Entera(h.tag)
  BY <1>2 DEF EnOrden
<1>8. /\ h.pc \in {"crear_destino", "tomar_destino"} => h.i = 0
      /\ h.pc = "copiar_enlace" => h.i < h.m.n
  BY <1>2 DEF Indices
<1>9. h.pc \in {"crear_destino", "tomar_destino", "copiar_enlace"} =>
         \A l \in Logicos : l < h.m.n => h.m.blocks[l] # SinBloque
  BY <1>2 DEF Listados
<1> HIDE DEF Entera, Coinciden, Coincide, Posee
<1> QED
  BY <1>1, <1>2, <1>3, <1>4, <1>5, <1>6, <1>7, <1>8, <1>9

\* TAG creates the new tag.
LEMMA CrearDestinoInv ==
    ASSUME TypeOK, Disciplina, NEW w \in Workers, CrearDestino(w)
    PROVE  TypeOK' /\ Disciplina'
<1>1. PICK h \in Hilo : h = hilo[w]
  BY Hechos
<1>2. h.pc = "crear_destino" /\ lock[h.tag] = Nadie
  BY <1>1 DEF CrearDestino, En
<1>3. h.op = "TAG"
  BY <1>1, <1>2, Hechos DEF OperacionesDe
<1>4. /\ h.tag \in Tags /\ h.orig \in Tags /\ h.m \in Metadata
      /\ h.orig \in archivos /\ Entera(h.orig)
      /\ \A t \in Tags : lock[t] = w <=> t = h.orig
      /\ Posee(h) = {h.orig} /\ h.i = 0
      /\ \A l \in Logicos : l < h.m.n => h.m.blocks[l] # SinBloque
  BY <1>1, <1>2, <1>3, SeccionTag
<1>5. h.orig # h.tag
  BY <1>2, <1>4, WorkersAssumption
<1>6. CASE Fin(w, "preexistente") /\ UNCHANGED disco
  <2>1. \A t \in archivos' : lock[t] = w => Entera(t)'
    BY <1>4, <1>6 DEF TypeOK, disco, Entera
  <2>2. archivos' \subseteq Tags
    BY <1>6 DEF TypeOK, disco
  <2>3. /\ Disciplina' /\ hilo' \in [Workers -> Hilo]
        /\ lock' \in [Tags -> Workers \union {Nadie}]
    BY <1>6, <2>1, <2>2, Cierre DEF disco, Respuestas
  <2> QED
    BY <1>6, <2>3 DEF TypeOK, disco, Fin
<1>7. CASE CrearTag(h.tag) /\ Sigue(w, [h EXCEPT !.pc = "tomar_destino"])
  <2>1. PICK h1 : h1 = [h EXCEPT !.pc = "tomar_destino"]
    OBVIOUS
  <2>2. /\ h1 \in Hilo /\ h1.pc = "tomar_destino" /\ h1.op = "TAG" /\ h1.tag = h.tag
        /\ h1.orig = h.orig /\ h1.m = h.m /\ h1.i = 0
    BY <1>3, <1>4, <2>1 DEF Hilo, Pasos
  <2>3. /\ hilo' = [hilo EXCEPT ![w] = h1] /\ UNCHANGED <<lock, error_read, vivo>>
        /\ directorios' = directorios \union {h.tag} /\ archivos' = archivos \union {h.tag}
        /\ meta' = [meta EXCEPT ![h.tag] = MetaVacia]
        /\ UNCHANGED <<ocupado, contenido, enlaces, indice>>
    BY <1>7, <2>1 DEF Sigue, CrearTag
  <2>4. hilo'[w] = h1 /\ (\A v \in Workers : v # w => hilo'[v] = hilo[v]) /\ hilo' \in [Workers -> Hilo]
    BY <2>2, <2>3 DEF TypeOK
  <2>5. \A s \in Tags : s # h.tag =>
            enlaces'[s] = enlaces[s] /\ meta'[s] = meta[s] /\ ((s \in archivos') <=> (s \in archivos))
    BY <2>3 DEF TypeOK
  <2>6. meta'[h.tag] = MetaVacia /\ MetaVacia.n = 0 /\ meta' \in [Tags -> Metadata]
    BY <1>4, <2>3, Tipos DEF TypeOK, MetaVacia
  <2>7. Entera(h.tag)'
    BY <2>6, LogicosAssumption DEF Entera, Logicos
  <2>8. Entera(h.orig)'
    BY <1>4, <1>5, <2>5 DEF Entera
  <2>9. Posee(h1) = {h.orig} /\ h1.op \in OperacionesDe(h1.pc) /\ Indices(h1) /\ Listados(h1)
    BY <1>4, <2>2 DEF Posee, OperacionesDe, Indices, Listados
  <2>10. EnOrden(h1)'
    BY <1>4, <2>2, <2>3, <2>8 DEF EnOrden
  <2>11. Orden(w)'
    BY <2>4, <2>9, <2>10 DEF Orden, Indices, Listados
  <2>12. archivos' \subseteq Tags
    BY <1>4, <2>3 DEF TypeOK
  <2>13. \A s \in archivos' : s \in Tags /\ (lock[s] \in {w, Nadie} /\ lock'[s] = Nadie => Entera(s)')
    BY <2>3, <2>5, <2>7, <2>12 DEF Disciplina, MetadataRespaldada, Entera
  <2>14. \A s \in Tags : lock[s] \notin {w, Nadie} =>
            /\ lock'[s] = lock[s] /\ enlaces'[s] = enlaces[s] /\ meta'[s] = meta[s]
            /\ s \in archivos' <=> s \in archivos
    BY <1>2, <2>3, <2>5
  <2>15. \A s \in Tags : lock[s] \in {w, Nadie} => lock'[s] \in {w, Nadie}
    BY <2>3
  <2>16. \A s \in Tags : lock'[s] = w <=> s \in Posee(hilo'[w])
    BY <1>4, <2>3, <2>4, <2>9
  <2>17. Disciplina'
    BY <2>4, <2>11, <2>13, <2>14, <2>15, <2>16, Marco
  <2> QED
    BY <1>4, <2>3, <2>4, <2>6, <2>12, <2>17 DEF TypeOK
<1> QED
  BY <1>1, <1>6, <1>7 DEF CrearDestino

\* TAG takes the mutex of the new tag.
LEMMA TomarDestinoInv ==
    ASSUME TypeOK, Disciplina, NEW w \in Workers, TomarDestino(w)
    PROVE  TypeOK' /\ Disciplina'
<1>1. PICK h \in Hilo : h = hilo[w]
  BY Hechos
<1>2. h.pc = "tomar_destino" /\ lock[h.tag] = Nadie /\ UNCHANGED disco
  BY <1>1 DEF TomarDestino, En
<1>3. h.op = "TAG"
  BY <1>1, <1>2, Hechos DEF OperacionesDe
<1>4. /\ h.tag \in Tags /\ h.orig \in Tags /\ h.m \in Metadata
      /\ h.orig \in archivos /\ Entera(h.orig)
      /\ \A t \in Tags : lock[t] = w <=> t = h.orig
      /\ Posee(h) = {h.orig} /\ h.i = 0
      /\ \A l \in Logicos : l < h.m.n => h.m.blocks[l] # SinBloque
  BY <1>1, <1>2, <1>3, SeccionTag
<1>5. h.orig # h.tag
  BY <1>2, <1>4, WorkersAssumption
<1>6. CASE Fin(w, "error")
  <2>1. \A t \in archivos' : lock[t] = w => Entera(t)'
    BY <1>2, <1>4 DEF TypeOK, disco, Entera
  <2>2. archivos' \subseteq Tags
    BY <1>2 DEF TypeOK, disco
  <2>3. /\ Disciplina' /\ hilo' \in [Workers -> Hilo]
        /\ lock' \in [Tags -> Workers \union {Nadie}]
    BY <1>2, <1>6, <2>1, <2>2, Cierre DEF disco, Respuestas
  <2> QED
    BY <1>2, <1>6, <2>3 DEF TypeOK, disco, Fin
<1>7. PICK h1 : h1 = [h EXCEPT !.pc = IF h.m.n = 0 THEN "guardar" ELSE "copiar_enlace",
                               !.m.estado = meta[h.tag].estado]
  OBVIOUS
<1>8. CASE h.tag \in archivos /\ Toma(w, h.tag, h1)
  <2>1. [h.m EXCEPT !.estado = meta[h.tag].estado] \in Metadata
    BY <1>4 DEF TypeOK, Metadata
  <2>2. /\ h1 \in Hilo /\ h1.op = "TAG" /\ h1.tag = h.tag /\ h1.orig = h.orig /\ h1.i = 0
        /\ h1.m.n = h.m.n /\ h1.m.blocks = h.m.blocks
        /\ h1.pc = IF h.m.n = 0 THEN "guardar" ELSE "copiar_enlace"
    BY <1>3, <1>4, <1>7, <2>1 DEF Hilo, Pasos, Metadata
  <2>3. /\ Posee(h1) = {h.orig, h.tag} /\ h1.op \in OperacionesDe(h1.pc)
        /\ Indices(h1) /\ Listados(h1)
    BY <1>4, <2>2 DEF Posee, OperacionesDe, Indices, Listados, Metadata
  <2>4. Coinciden(h1) = {l \in Logicos : l < 0}
    BY <2>2 DEF Coinciden
  <2>5. Coinciden(h1) = {}
    BY <2>4, LogicosAssumption DEF Logicos
  <2>6. Entera(h.tag)
    BY <1>2, <1>8 DEF Disciplina, MetadataRespaldada
  <2>7. EnOrden(h1)
    BY <1>4, <1>5, <1>8, <2>2, <2>5, <2>6 DEF EnOrden
  <2>8. Posee(h1) = Posee(hilo[w]) \union {h.tag}
    BY <1>1, <1>4, <2>3
  <2>9. /\ Disciplina' /\ hilo' \in [Workers -> Hilo]
        /\ lock' \in [Tags -> Workers \union {Nadie}]
    BY <1>2, <1>4, <1>8, <2>2, <2>3, <2>7, <2>8, Entrada DEF disco
  <2> QED
    BY <1>2, <1>8, <2>9 DEF TypeOK, disco, Toma
<1> QED
  BY <1>1, <1>6, <1>7, <1>8 DEF TomarDestino

\* TAG links a block of its origin to the new tag.
LEMMA CopiarEnlaceInv ==
    ASSUME TypeOK, Disciplina, NEW w \in Workers, CopiarEnlace(w)
    PROVE  TypeOK' /\ Disciplina'
<1>1. PICK h \in Hilo : h = hilo[w]
  BY Hechos
<1>2. /\ h.pc = "copiar_enlace"
      /\ UNCHANGED <<ocupado, contenido, directorios, archivos, meta, indice>>
  BY <1>1 DEF CopiarEnlace, En
<1>3. h.op = "TAG"
  BY <1>1, <1>2, Hechos DEF OperacionesDe
<1>4. /\ h.tag \in Tags /\ h.orig \in Tags /\ h.m \in Metadata /\ h.i \in Logicos
      /\ h.orig \in archivos /\ Entera(h.orig)
      /\ \A t \in Tags : lock[t] = w <=> t \in {h.orig, h.tag}
      /\ Posee(h) = {h.orig, h.tag} /\ h.orig # h.tag /\ h.tag \in archivos
      /\ \A l \in Coinciden(h) : Coincide(h, l)
      /\ Entera(h.tag) /\ h.i < h.m.n
      /\ \A l \in Logicos : l < h.m.n => h.m.blocks[l] # SinBloque
  BY <1>1, <1>2, <1>3, SeccionTag
<1>5. CASE Fin(w, "error") /\ UNCHANGED enlaces
  <2>1. \A t \in archivos' : lock[t] = w => Entera(t)'
    BY <1>2, <1>4, <1>5 DEF TypeOK, Entera
  <2>2. archivos' \subseteq Tags
    BY <1>2 DEF TypeOK
  <2>3. /\ Disciplina' /\ hilo' \in [Workers -> Hilo]
        /\ lock' \in [Tags -> Workers \union {Nadie}]
    BY <1>2, <1>5, <2>1, <2>2, Cierre DEF Respuestas
  <2> QED
    BY <1>2, <1>5, <2>3 DEF TypeOK, Fin
<1>6. PICK h1 : h1 = IF h.i + 1 < h.m.n THEN [h EXCEPT !.i = @ + 1] ELSE [h EXCEPT !.pc = "guardar"]
  OBVIOUS
<1>7. CASE /\ enlaces[h.tag][h.i] = SinBloque
           /\ enlaces' = [enlaces EXCEPT ![h.tag][h.i] = h.m.blocks[h.i]]
           /\ Sigue(w, h1)
  <2>1. /\ \A t \in Tags : t # h.tag => enlaces'[t] = enlaces[t]
        /\ \A l \in Logicos : enlaces'[h.tag][l] = IF l = h.i THEN h.m.blocks[h.i]
                                                   ELSE enlaces[h.tag][l]
        /\ enlaces' \in [Tags -> [Logicos -> BloqueO]]
    BY <1>4, <1>7 DEF TypeOK, Metadata
  <2>2. hilo' = [hilo EXCEPT ![w] = h1] /\ UNCHANGED <<lock, error_read, vivo>>
    BY <1>7 DEF Sigue
  <2>3. Entera(h.tag)'
    BY <1>2, <1>4, <1>7, <2>1 DEF Entera
  <2>4. Entera(h.orig)'
    BY <1>2, <1>4, <2>1 DEF Entera
  <2>5. h.i + 1 < h.m.n => h.i + 1 \in Logicos
    BY <1>4, LogicosAssumption DEF Metadata, Logicos
  <2>6. /\ h1 \in Hilo /\ h1.op = "TAG" /\ h1.tag = h.tag /\ h1.orig = h.orig /\ h1.m = h.m
        /\ \/ h1.pc = "copiar_enlace" /\ h1.i = h.i + 1 /\ h.i + 1 < h.m.n
           \/ h1.pc = "guardar" /\ h1.i = h.i /\ ~ (h.i + 1 < h.m.n)
    BY <1>2, <1>3, <1>6, <2>5 DEF Hilo, Pasos
  <2>7. /\ Posee(h1) = {h.orig, h.tag} /\ h1.op \in OperacionesDe(h1.pc)
        /\ Indices(h1) /\ Listados(h1)
    BY <1>4, <2>6 DEF Posee, OperacionesDe, Indices, Listados
  <2>8. \A l \in Coinciden(h1) : l \in Logicos /\ (l = h.i \/ l < h.i)
    <3>1. CASE h1.pc = "copiar_enlace"
      BY <1>4, <2>6, <3>1 DEF Coinciden, Logicos
    <3>2. CASE h1.pc = "guardar"
      BY <1>4, <2>6, <3>2 DEF Coinciden, Logicos, Metadata
    <3> QED
      BY <2>6, <3>1, <3>2
  <2>9. Coinciden(h) = {l \in Logicos : l < h.i}
    BY <1>2 DEF Coinciden
  <2>10. \A l \in Coinciden(h1) : Coincide(h1, l)'
    <3> SUFFICES ASSUME NEW l \in Coinciden(h1) PROVE Coincide(h1, l)'
      OBVIOUS
    <3>1. CASE l = h.i
      BY <1>4, <2>1, <2>6, <3>1 DEF Coincide
    <3>2. CASE l < h.i
      BY <1>4, <2>1, <2>6, <2>8, <2>9, <3>2 DEF Coincide, Logicos
    <3> QED
      BY <2>8, <3>1, <3>2
  <2>11. Coinciden(h1)' = Coinciden(h1)
    BY DEF Coinciden
  <2>12. EnOrden(h1)'
    <3> HIDE DEF Coinciden, Coincide, Entera
    <3> QED
      BY <1>2, <1>4, <2>3, <2>4, <2>6, <2>10, <2>11 DEF EnOrden
  <2>13. \A t \in Tags : lock[t] # w => enlaces'[t] = enlaces[t] /\ meta'[t] = meta[t]
    BY <1>2, <1>4, <2>1
  <2>14. Disciplina' /\ hilo' \in [Workers -> Hilo]
    BY <1>1, <1>2, <1>4, <2>2, <2>6, <2>7, <2>12, <2>13, Continua
  <2> QED
    BY <1>2, <2>1, <2>2, <2>14 DEF TypeOK
<1> QED
  BY <1>1, <1>5, <1>6, <1>7 DEF CopiarEnlace

\* The metadata in memory goes to disk, whole, and the mutexes are let go.
LEMMA GuardarMetadataInv ==
    ASSUME TypeOK, Disciplina, NEW w \in Workers, GuardarMetadata(w)
    PROVE  TypeOK' /\ Disciplina'
<1>1. PICK h \in Hilo : h = hilo[w]
  BY Hechos
<1>2. /\ h.pc = "guardar" /\ meta' = [meta EXCEPT ![h.tag] = h.m] /\ Fin(w, "ok")
      /\ UNCHANGED <<ocupado, contenido, enlaces, directorios, archivos, indice>>
  BY <1>1 DEF GuardarMetadata, En
<1>3. h.op \in {"WRITE", "TRUNCATE", "COMMIT", "TAG"} /\ h.tag \in Tags /\ h.m \in Metadata
  BY <1>1, <1>2, Hechos DEF OperacionesDe, Hilo
<1>4. Coinciden(h) = {l \in Logicos : l < h.m.n}
  BY <1>2, <1>3 DEF Coinciden
<1>5. /\ meta'[h.tag] = h.m /\ meta' \in [Tags -> Metadata]
      /\ \A t \in Tags : t # h.tag => meta'[t] = meta[t]
  BY <1>2, <1>3 DEF TypeOK
<1>6. archivos' \subseteq Tags
  BY <1>2 DEF TypeOK
<1>7. CASE h.op = "TAG"
  <2>1. /\ h.orig \in Tags /\ Entera(h.orig) /\ h.orig # h.tag
        /\ \A t \in Tags : lock[t] = w <=> t \in {h.orig, h.tag}
        /\ \A l \in Coinciden(h) : Coincide(h, l)
    BY <1>1, <1>2, <1>7, SeccionTag
  <2>2. Entera(h.tag)' /\ Entera(h.orig)'
    BY <1>2, <1>3, <1>4, <1>5, <2>1 DEF Entera, Coincide
  <2>3. \A t \in archivos' : lock[t] = w => Entera(t)'
    <3> SUFFICES ASSUME NEW t \in archivos', lock[t] = w PROVE Entera(t)'
      OBVIOUS
    <3>1. t = h.orig \/ t = h.tag
      BY <1>6, <2>1
    <3> QED
      BY <2>2, <3>1
  <2>4. \A t \in Tags : lock[t] # w => t # h.tag
    BY <2>1
  <2>5. /\ Disciplina' /\ hilo' \in [Workers -> Hilo]
        /\ lock' \in [Tags -> Workers \union {Nadie}]
    BY <1>2, <1>5, <1>6, <2>3, <2>4, Cierre DEF Respuestas
  <2> QED
    BY <1>2, <1>5, <2>5 DEF TypeOK, Fin
<1>8. CASE h.op # "TAG"
  <2>1. /\ \A t \in Tags : lock[t] = w <=> t = h.tag
        /\ \A l \in Coinciden(h) : Coincide(h, l)
    BY <1>1, <1>2, <1>8, Seccion
  <2>2. Entera(h.tag)'
    BY <1>2, <1>3, <1>4, <1>5, <2>1 DEF Entera, Coincide
  <2>3. /\ Disciplina' /\ hilo' \in [Workers -> Hilo]
        /\ lock' \in [Tags -> Workers \union {Nadie}]
    BY <1>1, <1>2, <1>3, <1>5, <1>6, <2>1, <2>2, TerminaInv DEF Respuestas
  <2> QED
    BY <1>2, <1>5, <2>3 DEF TypeOK, Fin
<1> QED
  BY <1>7, <1>8

-----------------------------------------------------------------------------
(* The theorems                                                            *)

\* A freshly formatted filesystem is typed and in order.
LEMMA InitInv == Init => TypeOK /\ Disciplina
<1> SUFFICES ASSUME Init PROVE TypeOK /\ Disciplina
  OBVIOUS
<1>1. /\ MetaVacia \in Metadata /\ Ocioso \in Hilo /\ SinEnlaces \in [Logicos -> BloqueO]
      /\ 0 \in Logicos /\ 0 \in Bloques /\ 0 \in BloqueO
  BY Tipos DEF BloqueO
<1>2. [SinEnlaces EXCEPT ![0] = 0] \in [Logicos -> BloqueO]
  BY <1>1
<1>3. [size |-> BlockSize, estado |-> "COMMITED", n |-> 1,
       blocks |-> [SinEnlaces EXCEPT ![0] = 0]] \in Metadata
  BY <1>2, LogicosAssumption, TamaniosAssumption DEF Metadata, Estados
<1>4. TypeOK
  <2>1. meta \in [Tags -> Metadata]
    BY <1>1, <1>3 DEF Init
  <2>2. enlaces \in [Tags -> [Logicos -> BloqueO]]
    BY <1>1, <1>2 DEF Init
  <2>3. indice \in [Contenidos -> BloqueO] /\ contenido \in [Bloques -> Contenidos]
    BY <1>1, ContenidosAssumption DEF Init, BloqueO
  <2>4. hilo \in [Workers -> Hilo] /\ lock \in [Tags -> Workers \union {Nadie}]
    BY <1>1 DEF Init
  <2> QED
    BY <1>1, <2>1, <2>2, <2>3, <2>4, TagsAssumption DEF Init, TypeOK
<1>5. \A w \in Workers : hilo[w] = Ocioso
  BY DEF Init
<1>6. Ocioso.pc = "ocioso"
  BY DEF Ocioso
<1>7. Posee(Ocioso) = {} /\ Ocioso.op \in OperacionesDe(Ocioso.pc)
      /\ Indices(Ocioso) /\ Listados(Ocioso) /\ EnOrden(Ocioso)
  BY <1>1, <1>6, Fuera
<1>8. Cerrojos
  <2>1. \A t \in Tags : lock[t] = Nadie
    BY DEF Init
  <2> QED
    BY <1>5, <1>7, <2>1, WorkersAssumption DEF Cerrojos
<1>9. \A w \in Workers : Orden(w)
  BY <1>5, <1>7 DEF Orden
<1>10. MetadataRespaldada
  <2>1. archivos = {BASE} /\ meta[BASE].n = 1 /\ meta[BASE].blocks = enlaces[BASE]
        /\ enlaces[BASE] = [SinEnlaces EXCEPT ![0] = 0]
    BY TagsAssumption DEF Init
  <2>2. \A l \in Logicos : l < 1 => l = 0
    BY LogicosAssumption DEF Logicos
  <2>3. enlaces[BASE][0] = 0 /\ 0 # SinBloque
    BY <1>1, <2>1 DEF SinBloque
  <2>4. Entera(BASE)
    BY <2>1, <2>2, <2>3 DEF Entera
  <2> QED
    BY <2>1, <2>4 DEF MetadataRespaldada
<1> QED
  BY <1>4, <1>8, <1>9, <1>10 DEF Disciplina

\* Every step of the Storage keeps the types and the discipline.
LEMMA NextInv == TypeOK /\ Disciplina /\ [Next]_vars => TypeOK' /\ Disciplina'
<1> SUFFICES ASSUME TypeOK, Disciplina, [Next]_vars PROVE TypeOK' /\ Disciplina'
  OBVIOUS
<1>1. CASE UNCHANGED vars
  <2>1. TypeOK'
    BY <1>1 DEF vars, TypeOK
  <2>2. Cerrojos' /\ MetadataRespaldada'
    BY <1>1 DEF vars, Disciplina, Cerrojos, MetadataRespaldada, Entera
  <2>3. ASSUME NEW w \in Workers PROVE Orden(w)'
    <3>1. PICK h \in Hilo : h = hilo[w]
      BY DEF TypeOK
    <3>2. h.op \in OperacionesDe(h.pc) /\ Indices(h) /\ Listados(h) /\ EnOrden(h)
      BY <3>1 DEF Disciplina, Orden
    <3>3. EnOrden(h)'
      BY <1>1, <3>2, EnOrdenIgual DEF vars
    <3>4. hilo'[w] = h
      BY <1>1, <3>1 DEF vars
    <3> QED
      BY <3>2, <3>3, <3>4 DEF Orden, Indices, Listados
  <2> QED
    BY <2>1, <2>2, <2>3 DEF Disciplina
<1>2. ASSUME NEW w \in Workers, Pedido(w) PROVE TypeOK' /\ Disciplina'
  <2>1. PICK t \in Tags :
           \/ Create(w, t) \/ Delete(w, t) \/ Commit(w, t)
           \/ \E tam \in Tamanios : Truncate(w, t, tam)
           \/ \E i \in Logicos : Read(w, t, i)
           \/ \E i \in Logicos, d \in Contenidos : Write(w, t, i, d)
           \/ \E d \in Tags : Tag(w, t, d)
    BY <1>2 DEF Pedido
  <2> QED
    BY <2>1, CreateInv, DeleteInv, CommitInv, TruncateInv, ReadInv, WriteInv, TagInv
<1>3. ASSUME NEW w \in Workers, Paso(w) PROVE TypeOK' /\ Disciplina'
  BY <1>3, ResponderInv, LeerBloqueInv, ResponderReadInv, ContarParaEscribirInv,
     EscribirEnSitioInv, ReservarBloqueInv, EscribirNuevoInv, DesenlazarInv, EnlazarInv,
     AgrandarInv, AchicarInv, BorrarEnlaceInv, ContarReferenciasInv, MarcarLibreInv,
     QuitarTagInv, BuscarHashInv, GuardarHashInv, CrearDestinoInv, TomarDestinoInv,
     CopiarEnlaceInv, GuardarMetadataInv
  DEF Paso
<1> QED
  BY <1>1, <1>2, <1>3 DEF Next

\* Types and discipline together are inductive.
LEMMA Inductivo == Spec => [](TypeOK /\ Disciplina)
<1>1. TypeOK /\ Disciplina /\ [Next]_vars => (TypeOK /\ Disciplina)'
  BY NextInv
<1> QED
  BY InitInv, <1>1, PTL DEF Spec

\* Whatever the Workers ask for and however their threads interleave, every
\* variable keeps its type: no File:Tag ever holds a block outside the disk,
\* and no loop over the blocks of a file leaves its bounds.
THEOREM Tipado == Spec => []TypeOK
BY Inductivo, PTL

\* The File:Tag mutexes are held by exactly the threads inside their sections
\* and every thread finds the metadata and the links it relies on.
THEOREM Disciplinado == Spec => []Disciplina
BY Inductivo, PTL

\* What a thread finds when it takes the mutex of a File:Tag is whole: every
\* block of its metadata.config is the one its logical link leads to.
THEOREM Respaldada == Spec => []MetadataRespaldada
<1>1. Disciplina => MetadataRespaldada
  BY DEF Disciplina
<1> QED
  BY Disciplinado, <1>1, PTL


-----------------------------------------------------------------------------
(* COMMITED is final                                                       *)

\* The operations that test the state of a File:Tag when they take its mutex.
Escritoras == {"WRITE", "TRUNCATE", "COMMIT"}

\* A thread is inside the section of one of them.
Escribe(h) == h.op \in Escritoras /\ h.tag \in Posee(h)

\* The test made when the section began still holds: while a thread is in it
\* nobody commits that tag. A metadata.config lives in the directory of its tag,
\* so creating a tag never rewrites one.
SinCommitear ==
    /\ archivos \subseteq directorios
    /\ \A w \in Workers : Escribe(hilo[w]) => meta[hilo[w].tag].estado # "COMMITED"

\* The steps outside any section.
DeFuera == {"ocioso", "responder", "leer", "leido"}

\* Between its first and its last step a writing operation holds the mutex of
\* the tag it writes.
LEMMA EnSeccion ==
    ASSUME TypeOK, Disciplina, NEW w \in Workers,
           hilo[w].op \in Escritoras, hilo[w].pc \notin DeFuera
    PROVE  Escribe(hilo[w])
<1>1. PICK h \in Hilo : h = hilo[w]
  BY Hechos
<1>2. h.op \in OperacionesDe(h.pc)
  BY <1>1, Hechos
<1>3. h.pc \notin {"crear_destino", "tomar_destino"}
  BY <1>1, <1>2 DEF OperacionesDe, Escritoras
<1>4. Posee(h) = {h.tag}
  BY <1>1, <1>3 DEF Posee, DeFuera, Escritoras
<1> QED
  BY <1>1, <1>4 DEF Escribe

\* A step that rewrites no metadata and does not enter a section, or enters one
\* on a tag it has tested.
LEMMA PasoSinMeta ==
    ASSUME TypeOK, Disciplina, SinCommitear, NEW w \in Workers, NEW h1,
           hilo' = [hilo EXCEPT ![w] = h1],
           UNCHANGED <<meta, archivos, directorios>>,
           \/ h1.op \notin Escritoras
           \/ hilo[w].pc \notin DeFuera /\ h1.op = hilo[w].op /\ h1.tag = hilo[w].tag
           \/ meta[h1.tag].estado # "COMMITED"
    PROVE  SinCommitear'
<1>1. hilo'[w] = h1 /\ \A v \in Workers : v # w => hilo'[v] = hilo[v]
  BY DEF TypeOK
<1>2. ASSUME NEW v \in Workers, v # w, Escribe(hilo[v])' PROVE (meta[hilo[v].tag].estado # "COMMITED")'
  <2>1. PICK k : k = hilo[v] /\ k = hilo'[v]
    BY <1>1, <1>2
  <2>2. Escribe(k)
    BY <1>2, <2>1 DEF Escribe
  <2> QED
    BY <2>1, <2>2 DEF SinCommitear
<1>3. ASSUME Escribe(hilo[w])' PROVE (meta[hilo[w].tag].estado # "COMMITED")'
  <2>1. h1.op \in Escritoras
    BY <1>1, <1>3 DEF Escribe
  <2>2. CASE hilo[w].pc \notin DeFuera /\ h1.op = hilo[w].op /\ h1.tag = hilo[w].tag
    BY <1>1, <2>1, <2>2, EnSeccion DEF SinCommitear
  <2> QED
    BY <1>1, <2>1, <2>2
<1> QED
  BY <1>2, <1>3 DEF SinCommitear

\* A step that makes the metadata of one tag empty and starts no writing section.
LEMMA PasoMetaVacia ==
    ASSUME TypeOK, SinCommitear, NEW w \in Workers, NEW h1, NEW t \in Tags,
           hilo' = [hilo EXCEPT ![w] = h1], h1.op \notin Escritoras,
           meta' = [meta EXCEPT ![t] = MetaVacia], archivos' \subseteq directorios'
    PROVE  SinCommitear'
<1>1. hilo'[w] = h1 /\ \A v \in Workers : v # w => hilo'[v] = hilo[v]
  BY DEF TypeOK
<1>2. \A s \in Tags : meta'[s] = meta[s] \/ meta'[s].estado = "WORK_IN_PROGRESS"
  BY DEF TypeOK, MetaVacia
<1>3. ASSUME NEW v \in Workers, Escribe(hilo[v])' PROVE (meta[hilo[v].tag].estado # "COMMITED")'
  <2>1. v # w
    BY <1>1, <1>3 DEF Escribe
  <2>2. PICK k \in Hilo : k = hilo[v] /\ k = hilo'[v]
    BY <1>1, <2>1 DEF TypeOK
  <2>3. Escribe(k) /\ k.tag \in Tags
    BY <1>3, <2>2 DEF Escribe, Hilo
  <2> QED
    BY <1>2, <2>2, <2>3 DEF SinCommitear
<1> QED
  BY <1>3 DEF SinCommitear

\* A step that answers.
LEMMA Contesta ==
    ASSUME NEW w \in Workers, NEW r, Fin(w, r)
    PROVE  \E h1 : hilo' = [hilo EXCEPT ![w] = h1] /\ h1.op \notin Escritoras
<1>1. [Ocioso EXCEPT !.pc = "responder", !.res = r].op \notin Escritoras
  BY DEF Ocioso, Escritoras
<1> QED
  BY <1>1 DEF Fin

\* CREATE.
LEMMA CreateCongela ==
    ASSUME TypeOK, Disciplina, SinCommitear, NEW w \in Workers, NEW t \in Tags, Create(w, t)
    PROVE  SinCommitear'
<1>1. CASE Fin(w, "preexistente") /\ UNCHANGED disco
  BY <1>1, Contesta, PasoSinMeta DEF disco
<1>2. CASE CrearTag(t) /\ Fin(w, "ok")
  BY <1>2, Contesta, PasoMetaVacia DEF CrearTag, SinCommitear
<1> QED
  BY <1>1, <1>2 DEF Create

\* The requests that leave the disk as it is: refused, or accepted after the test
\* of the state.
LEMMA PedidoCongela ==
    ASSUME TypeOK, Disciplina, SinCommitear, NEW w \in Workers, NEW t \in Tags,
           \/ Delete(w, t) \/ Commit(w, t)
           \/ \E tam \in Tamanios : Truncate(w, t, tam)
           \/ \E i \in Logicos : Read(w, t, i)
           \/ \E i \in Logicos, d \in Contenidos : Write(w, t, i, d)
           \/ \E d \in Tags : Tag(w, t, d)
    PROVE  SinCommitear'
<1>1. ASSUME UNCHANGED disco, \E r : Fin(w, r) PROVE SinCommitear'
  BY <1>1, Contesta, PasoSinMeta DEF disco
<1>2. CASE Delete(w, t)
  <2>1. CASE \E r : Fin(w, r)
    BY <1>1, <1>2, <2>1 DEF Delete
  <2>2. CASE \E h1 : h1.op = "DELETE" /\ hilo' = [hilo EXCEPT ![w] = h1]
    BY <1>2, <2>2, PasoSinMeta DEF Delete, disco, Escritoras
  <2> QED
    BY <1>2, <2>1, <2>2 DEF Delete, Toma, Ocioso
<1>3. CASE Commit(w, t)
  <2>1. CASE \E r : Fin(w, r)
    BY <1>1, <1>3, <2>1 DEF Commit
  <2>2. CASE \E h1 : h1.tag = t /\ meta[t].estado # "COMMITED" /\ hilo' = [hilo EXCEPT ![w] = h1]
    BY <1>3, <2>2, PasoSinMeta DEF Commit, disco
  <2> QED
    <3> DEFINE h == [Ocioso EXCEPT !.op = "COMMIT", !.tag = t, !.m = meta[t]]
               h1 == IF meta[t].n = 0 THEN [h EXCEPT !.pc = "guardar", !.m.estado = "COMMITED"]
                     ELSE [h EXCEPT !.pc = "commitear"]
    <3>1. h1.tag = t
      BY DEF Ocioso
    <3>2. \/ \E r : Fin(w, r)
          \/ meta[t].estado # "COMMITED" /\ Toma(w, t, h1)
      BY <1>3 DEF Commit
    <3> HIDE DEF h1
    <3> QED
      BY <2>1, <2>2, <3>1, <3>2 DEF Toma
<1>4. CASE \E tam \in Tamanios : Truncate(w, t, tam)
  <2>1. CASE \E r : Fin(w, r)
    BY <1>1, <1>4, <2>1 DEF Truncate
  <2>2. CASE \E h1 : h1.tag = t /\ meta[t].estado # "COMMITED" /\ hilo' = [hilo EXCEPT ![w] = h1]
    BY <1>4, <2>2, PasoSinMeta DEF Truncate, disco
  <2> QED
    <3>1. PICK tam \in Tamanios : Truncate(w, t, tam)
      BY <1>4
    <3> DEFINE h == [Ocioso EXCEPT !.op = "TRUNCATE", !.tag = t, !.m = meta[t], !.arg = tam]
               n == meta[t].n
               h1 == CASE Necesarios(tam) > n -> [h EXCEPT !.pc = "agrandar", !.i = n]
                       [] Necesarios(tam) < n -> [h EXCEPT !.pc = "achicar", !.i = n - 1]
                       [] OTHER -> [h EXCEPT !.pc = "guardar",
                                             !.m = Redimensionada(meta[t], tam)]
    <3>2. h.tag = t
      BY DEF Ocioso
    <3>3. /\ [h EXCEPT !.pc = "agrandar", !.i = n].tag = t
          /\ [h EXCEPT !.pc = "achicar", !.i = n - 1].tag = t
          /\ [h EXCEPT !.pc = "guardar", !.m = Redimensionada(meta[t], tam)].tag = t
      BY DEF Ocioso
    <3>4. h1.tag = t
      BY <3>3
    <3>5. \/ \E r : Fin(w, r)
          \/ MotivoTruncate(t) = "ok" /\ Toma(w, t, h1)
      BY <3>1 DEF Truncate
    <3> HIDE DEF h1
    <3>6. MotivoTruncate(t) = "ok" => meta[t].estado # "COMMITED"
      BY DEF MotivoTruncate
    <3> QED
      BY <2>1, <2>2, <3>4, <3>5, <3>6 DEF Toma
<1>5. CASE \E i \in Logicos : Read(w, t, i)
  <2>1. \E h1 : h1.op = "READ" /\ hilo' = [hilo EXCEPT ![w] = h1]
    BY <1>5 DEF Read, Ocioso
  <2> QED
    BY <1>5, <2>1, PasoSinMeta DEF Read, disco, Escritoras
<1>6. CASE \E i \in Logicos, d \in Contenidos : Write(w, t, i, d)
  <2>1. CASE \E r : Fin(w, r)
    BY <1>1, <1>6, <2>1 DEF Write
  <2>2. CASE \E h1 : h1.tag = t /\ meta[t].estado # "COMMITED" /\ hilo' = [hilo EXCEPT ![w] = h1]
    BY <1>6, <2>2, PasoSinMeta DEF Write, disco
  <2> QED
    <3>1. PICK i \in Logicos, d \in Contenidos : Write(w, t, i, d)
      BY <1>6
    <3>2. MotivoWrite(t, i) = "ok" => meta[t].estado # "COMMITED"
      BY DEF MotivoWrite
    <3> QED
      BY <2>1, <2>2, <3>1, <3>2 DEF Write, Toma, Ocioso
<1>7. CASE \E d \in Tags : Tag(w, t, d)
  <2>1. CASE \E r : Fin(w, r)
    BY <1>1, <1>7, <2>1 DEF Tag
  <2>2. CASE \E h1 : h1.op = "TAG" /\ hilo' = [hilo EXCEPT ![w] = h1]
    BY <1>7, <2>2, PasoSinMeta DEF Tag, disco, Escritoras
  <2> QED
    BY <1>7, <2>1, <2>2 DEF Tag, Toma, Ocioso
<1> QED
  BY <1>2, <1>3, <1>4, <1>5, <1>6, <1>7

\* The steps of a section that go on with the same operation on the same tag.
LEMMA PasoCongela ==
    ASSUME TypeOK, Disciplina, SinCommitear, NEW w \in Workers,
           \/ ContarParaEscribir(w) \/ EscribirEnSitio(w) \/ ReservarBloque(w) \/ EscribirNuevo(w)
           \/ Desenlazar(w) \/ Enlazar(w) \/ Agrandar(w) \/ Achicar(w)
           \/ BorrarEnlace(w) \/ ContarReferencias(w) \/ MarcarLibre(w)
           \/ BuscarHash(w) \/ GuardarHash(w) \/ CopiarEnlace(w)
    PROVE  SinCommitear'
<1> DEFINE h == hilo[w]
<1>1. h.pc \notin DeFuera
  BY DEF DeFuera, ContarParaEscribir, EscribirEnSitio, ReservarBloque, EscribirNuevo,
         Desenlazar, Enlazar, Agrandar, Achicar, BorrarEnlace, ContarReferencias, MarcarLibre,
         BuscarHash, GuardarHash, CopiarEnlace, En
<1>2. UNCHANGED <<meta, archivos, directorios>>
  BY DEF disco, ContarParaEscribir, EscribirEnSitio, ReservarBloque, EscribirNuevo,
         Desenlazar, Enlazar, Agrandar, Achicar, BorrarEnlace, ContarReferencias, MarcarLibre,
         BuscarHash, GuardarHash, CopiarEnlace
<1>3. h \in Hilo
  BY Hechos
<1>4. /\ Avanza(h).op = h.op /\ Avanza(h).tag = h.tag
      /\ SiguienteAchicar(h).op = h.op /\ SiguienteAchicar(h).tag = h.tag
  BY <1>3 DEF Avanza, SiguienteAchicar, Hilo
<1>5. ASSUME NEW h1, hilo' = [hilo EXCEPT ![w] = h1], h1.op = h.op, h1.tag = h.tag
      PROVE  SinCommitear'
  BY <1>1, <1>2, <1>5, PasoSinMeta
<1>6. ASSUME NEW r, Fin(w, r) PROVE SinCommitear'
  BY <1>2, <1>6, Contesta, PasoSinMeta
<1>7. CASE ContarParaEscribir(w)
  BY <1>3, <1>5, <1>7 DEF ContarParaEscribir, Sigue, Hilo
<1>8. CASE EscribirEnSitio(w) \/ EscribirNuevo(w)
  BY <1>3, <1>5, <1>8 DEF EscribirEnSitio, EscribirNuevo, Sigue, Hilo
<1>9. CASE ReservarBloque(w)
  BY <1>3, <1>5, <1>6, <1>9 DEF ReservarBloque, Sigue, Hilo
<1>10. CASE Desenlazar(w)
  BY <1>3, <1>4, <1>5, <1>6, <1>10 DEF Desenlazar, Sigue, Hilo
<1>11. CASE Enlazar(w)
  BY <1>3, <1>5, <1>11 DEF Enlazar, Reasignada, Sigue, Hilo
<1>12. CASE Agrandar(w)
  <2> DEFINE m == [h.m EXCEPT !.blocks[h.i] = 0]
             h1 == IF h.i + 1 < Necesarios(h.arg) THEN [h EXCEPT !.m = m, !.i = @ + 1]
                   ELSE [h EXCEPT !.m = Redimensionada(m, h.arg), !.pc = "guardar"]
  <2>1. h1.op = h.op /\ h1.tag = h.tag
    <3> HIDE DEF m
    <3> QED
      BY <1>3 DEF Hilo
  <2>2. hilo' = [hilo EXCEPT ![w] = h1]
    BY <1>12 DEF Agrandar, Sigue
  <2> HIDE DEF h1
  <2> QED
    BY <1>5, <2>1, <2>2
<1>13. CASE Achicar(w)
  <2>1. PICK b : b = h.m.blocks[h.i]
    OBVIOUS
  <2>2. [h EXCEPT !.pc = "liberar", !.b = b].op = h.op /\ [h EXCEPT !.pc = "liberar", !.b = b].tag = h.tag
    BY <1>3 DEF Hilo
  <2> QED
    BY <1>4, <1>5, <1>13, <2>1, <2>2 DEF Achicar, Sigue
<1>14. CASE BorrarEnlace(w)
  BY <1>3, <1>5, <1>6, <1>14 DEF BorrarEnlace, Sigue, Hilo
<1>15. CASE ContarReferencias(w)
  BY <1>3, <1>4, <1>5, <1>15 DEF ContarReferencias, Sigue, Hilo
<1>16. CASE MarcarLibre(w)
  BY <1>3, <1>4, <1>5, <1>16 DEF MarcarLibre, Sigue
<1>17. CASE BuscarHash(w)
  BY <1>3, <1>4, <1>5, <1>17 DEF BuscarHash, Sigue, Hilo
<1>18. CASE GuardarHash(w)
  BY <1>4, <1>5, <1>18 DEF GuardarHash, Sigue
<1>19. CASE CopiarEnlace(w)
  BY <1>3, <1>5, <1>6, <1>19 DEF CopiarEnlace, Sigue, Hilo
<1> QED
  BY <1>7, <1>8, <1>9, <1>10, <1>11, <1>12, <1>13, <1>14, <1>15, <1>16, <1>17, <1>18, <1>19

\* The steps outside the sections.
LEMMA RespuestaCongela ==
    ASSUME TypeOK, Disciplina, SinCommitear, NEW w \in Workers,
           Responder(w) \/ LeerBloque(w) \/ ResponderRead(w)
    PROVE  SinCommitear'
<1>1. UNCHANGED <<meta, archivos, directorios>>
  BY DEF disco, Responder, LeerBloque, ResponderRead
<1>2. hilo[w] \in Hilo /\ hilo[w].op \in OperacionesDe(hilo[w].pc)
  BY Hechos
<1>3. ASSUME NEW h1, hilo' = [hilo EXCEPT ![w] = h1], h1.op \notin Escritoras PROVE SinCommitear'
  BY <1>1, <1>3, PasoSinMeta
<1>4. CASE Responder(w)
  BY <1>3, <1>4 DEF Responder, Sigue, Ocioso, Escritoras
<1>5. CASE LeerBloque(w)
  <2>1. PICK h1 : /\ hilo' = [hilo EXCEPT ![w] = h1]
                  /\ h1.op = hilo[w].op /\ h1.tag = hilo[w].tag /\ h1.pc = "leido"
    <3>1. PICK r : hilo' = [hilo EXCEPT ![w] = [hilo[w] EXCEPT !.pc = "leido", !.res = r]]
      BY <1>5 DEF LeerBloque
    <3>2. /\ [hilo[w] EXCEPT !.pc = "leido", !.res = r].op = hilo[w].op
          /\ [hilo[w] EXCEPT !.pc = "leido", !.res = r].tag = hilo[w].tag
          /\ [hilo[w] EXCEPT !.pc = "leido", !.res = r].pc = "leido"
      BY <1>2 DEF Hilo
    <3> QED
      BY <3>1, <3>2
  <2> QED
    <3>1. hilo'[w] = h1 /\ \A v \in Workers : v # w => hilo'[v] = hilo[v]
      BY <2>1 DEF TypeOK
    <3>2. ~ Escribe(h1)
      BY <2>1 DEF Escribe, Posee
    <3>3. \A v \in Workers : hilo'[v] = hilo[v] \/ hilo'[v] = h1
      BY <3>1
    <3>4. ASSUME NEW v \in Workers, Escribe(hilo[v])' PROVE (meta[hilo[v].tag].estado # "COMMITED")'
      <4>1. Escribe(hilo'[v])
        BY <3>4 DEF Escribe, Posee
      <4>2. hilo'[v] = hilo[v]
        BY <3>2, <3>3, <4>1
      <4> QED
        BY <1>1, <4>1, <4>2 DEF SinCommitear
    <3> QED
      BY <1>1, <3>4 DEF SinCommitear
<1>6. CASE ResponderRead(w)
  <2>1. CASE UNCHANGED hilo
    BY <1>1, <2>1 DEF SinCommitear, Escribe, Posee
  <2>2. CASE \E r : hilo' = [hilo EXCEPT ![w] = [Ocioso EXCEPT !.pc = "responder", !.res = r]]
    <3>1. \A r : [Ocioso EXCEPT !.pc = "responder", !.res = r].op \notin Escritoras
      BY DEF Ocioso, Escritoras
    <3> QED
      BY <1>3, <2>2, <3>1
  <2> QED
    BY <1>6, <2>1, <2>2 DEF ResponderRead, Sigue
<1> QED
  BY <1>4, <1>5, <1>6

\* The steps that rewrite a metadata.config, or create one.
LEMMA MetaCongela ==
    ASSUME TypeOK, Disciplina, SinCommitear, NEW w \in Workers,
           QuitarTag(w) \/ CrearDestino(w) \/ TomarDestino(w) \/ GuardarMetadata(w)
    PROVE  SinCommitear'
<1>1. PICK h \in Hilo : h = hilo[w]
  BY Hechos
<1>2. h.tag \in Tags /\ h.op \in OperacionesDe(h.pc)
  BY <1>1, Hechos DEF Hilo
<1>3. CASE QuitarTag(w)
  <2>1. PICK h1 : hilo' = [hilo EXCEPT ![w] = h1] /\ h1.op \notin Escritoras
    BY <1>3, Contesta DEF QuitarTag
  <2>2. meta' = [meta EXCEPT ![h.tag] = MetaVacia] /\ archivos' \subseteq directorios'
    BY <1>1, <1>3 DEF QuitarTag, SinCommitear
  <2> QED
    BY <1>2, <2>1, <2>2, PasoMetaVacia
<1>4. CASE CrearDestino(w)
  <2>1. CASE Fin(w, "preexistente") /\ UNCHANGED disco
    BY <2>1, Contesta, PasoSinMeta DEF disco
  <2>2. CASE CrearTag(h.tag) /\ Sigue(w, [h EXCEPT !.pc = "tomar_destino"])
    <3>1. h.op = "TAG"
      BY <1>1, <1>2, <1>4 DEF CrearDestino, En, OperacionesDe
    <3>2. [h EXCEPT !.pc = "tomar_destino"].op \notin Escritoras
      BY <3>1 DEF Escritoras, Hilo
    <3>3. PICK h1 : hilo' = [hilo EXCEPT ![w] = h1] /\ h1.op \notin Escritoras
      BY <1>1, <2>2, <3>2 DEF Sigue
    <3> QED
      BY <1>2, <2>2, <3>3, PasoMetaVacia DEF CrearTag, SinCommitear
  <2> QED
    BY <1>1, <1>4, <2>1, <2>2 DEF CrearDestino
<1>5. CASE TomarDestino(w)
  <2>1. h.op = "TAG" /\ UNCHANGED disco
    BY <1>1, <1>2, <1>5 DEF TomarDestino, En, OperacionesDe
  <2>2. CASE \E r : Fin(w, r)
    BY <2>1, <2>2, Contesta, PasoSinMeta DEF disco
  <2>3. CASE \E h1 : h1.op = "TAG" /\ hilo' = [hilo EXCEPT ![w] = h1]
    BY <2>1, <2>3, PasoSinMeta DEF disco, Escritoras
  <2> QED
    BY <1>1, <1>5, <2>1, <2>2, <2>3 DEF TomarDestino, Toma, Hilo
<1>6. CASE GuardarMetadata(w)
  <2>1. PICK h1 : hilo' = [hilo EXCEPT ![w] = h1] /\ h1.op \notin Escritoras
    BY <1>6, Contesta DEF GuardarMetadata
  <2>2. hilo'[w] = h1 /\ \A v \in Workers : v # w => hilo'[v] = hilo[v]
    BY <2>1 DEF TypeOK
  <2>3. meta' = [meta EXCEPT ![h.tag] = h.m] /\ h.pc = "guardar" /\ UNCHANGED <<archivos, directorios>>
    BY <1>1, <1>6 DEF GuardarMetadata, En
  <2>4. h.tag \in Posee(h)
    BY <2>3 DEF Posee
  <2>5. lock[h.tag] = w
    BY <1>1, <1>2, <2>4, Hechos
  <2>6. ASSUME NEW v \in Workers, Escribe(hilo[v])' PROVE (meta[hilo[v].tag].estado # "COMMITED")'
    <3>1. v # w
      BY <2>1, <2>2, <2>6 DEF Escribe
    <3>2. PICK k \in Hilo : k = hilo[v] /\ k = hilo'[v]
      BY <2>2, <3>1 DEF TypeOK
    <3>3. Escribe(k) /\ k.tag \in Tags /\ k.tag \in Posee(k)
      BY <2>6, <3>2 DEF Escribe, Hilo
    <3>4. lock[k.tag] = v
      BY <3>2, <3>3, Hechos
    <3>5. meta'[k.tag] = meta[k.tag]
      BY <2>3, <2>5, <3>1, <3>3, <3>4 DEF TypeOK
    <3> QED
      BY <3>2, <3>3, <3>5 DEF SinCommitear
  <2> QED
    BY <2>3, <2>6 DEF SinCommitear
<1> QED
  BY <1>3, <1>4, <1>5, <1>6

\* Every step of the Storage keeps the test of the state good.
LEMMA SinCommitearInv ==
    TypeOK /\ Disciplina /\ SinCommitear /\ [Next]_vars => SinCommitear'
<1> SUFFICES ASSUME TypeOK, Disciplina, SinCommitear, [Next]_vars PROVE SinCommitear'
  OBVIOUS
<1>1. CASE UNCHANGED vars
  BY <1>1 DEF vars, SinCommitear, Escribe, Posee
<1>2. ASSUME NEW w \in Workers, Pedido(w) PROVE SinCommitear'
  <2>1. PICK t \in Tags :
           \/ Create(w, t) \/ Delete(w, t) \/ Commit(w, t)
           \/ \E tam \in Tamanios : Truncate(w, t, tam)
           \/ \E i \in Logicos : Read(w, t, i)
           \/ \E i \in Logicos, d \in Contenidos : Write(w, t, i, d)
           \/ \E d \in Tags : Tag(w, t, d)
    BY <1>2 DEF Pedido
  <2> QED
    BY <2>1, CreateCongela, PedidoCongela
<1>3. ASSUME NEW w \in Workers, Paso(w) PROVE SinCommitear'
  BY <1>3, PasoCongela, RespuestaCongela, MetaCongela DEF Paso
<1> QED
  BY <1>1, <1>2, <1>3 DEF Next

\* A step that rewrites the metadata of a COMMITED tag is the DELETE of that tag
\* or the end of the TAG that created it.
LEMMA PasoCongelado ==
    ASSUME TypeOK, Disciplina, SinCommitear, [Next]_vars, NEW t \in archivos \intersect archivos',
           meta[t].estado = "COMMITED", meta'[t] # meta[t]
    PROVE  \E w \in Workers : lock[t] = w /\ hilo[w].op = "TAG" /\ hilo[w].tag = t
<1>1. t \in Tags /\ t \in directorios
  BY DEF TypeOK, SinCommitear
<1>2. PICK w \in Workers : meta' # meta /\ (Pedido(w) \/ Paso(w))
  BY DEF Next, vars
<1>3. ~ (\E s \in Tags : CrearTag(s))
  BY <1>1 DEF CrearTag, TypeOK
<1>4. ~ QuitarTag(w)
  BY <1>1 DEF QuitarTag, TypeOK
<1>5. GuardarMetadata(w)
  <2>1. ~ Pedido(w)
    BY <1>2, <1>3 DEF Pedido, Create, Delete, Commit, Truncate, Read, Write, Tag, disco
  <2>2. ~ CrearDestino(w)
    BY <1>2, <1>3, Hechos DEF CrearDestino, disco, Hilo
  <2>3. ~ (\/ ContarParaEscribir(w) \/ EscribirEnSitio(w) \/ ReservarBloque(w) \/ EscribirNuevo(w)
           \/ Desenlazar(w) \/ Enlazar(w) \/ Agrandar(w) \/ Achicar(w))
    BY <1>2 DEF disco, ContarParaEscribir, EscribirEnSitio, ReservarBloque, EscribirNuevo,
                Desenlazar, Enlazar, Agrandar, Achicar
  <2>4. ~ (\/ Responder(w) \/ LeerBloque(w) \/ ResponderRead(w)
           \/ BorrarEnlace(w) \/ ContarReferencias(w) \/ MarcarLibre(w)
           \/ BuscarHash(w) \/ GuardarHash(w) \/ TomarDestino(w) \/ CopiarEnlace(w))
    BY <1>2 DEF disco, Responder, LeerBloque, ResponderRead, BorrarEnlace, ContarReferencias,
                MarcarLibre, BuscarHash, GuardarHash, TomarDestino, CopiarEnlace
  <2> QED
    BY <1>2, <1>4, <2>1, <2>2, <2>3, <2>4 DEF Paso
<1>6. PICK h \in Hilo : h = hilo[w]
  BY Hechos
<1>7. h.tag = t /\ h.pc = "guardar"
  BY <1>1, <1>5, <1>6 DEF GuardarMetadata, En, TypeOK
<1>8. h.op \in {"WRITE", "TRUNCATE", "COMMIT", "TAG"} /\ t \in Posee(h)
  BY <1>6, <1>7, Hechos DEF OperacionesDe, Posee
<1>9. lock[t] = w
  BY <1>1, <1>6, <1>8, Hechos
<1>10. h.op \notin Escritoras
  BY <1>6, <1>7, <1>8 DEF SinCommitear, Escribe
<1> QED
  BY <1>6, <1>7, <1>8, <1>9, <1>10 DEF Escritoras

\* A formatted filesystem has no thread in a section.
LEMMA SinCommitearInit == Init => SinCommitear
<1>1. ~ Escribe(Ocioso)
  BY DEF Ocioso, Escribe, Escritoras
<1> QED
  BY <1>1 DEF Init, SinCommitear

\* While WRITE, TRUNCATE or COMMIT holds the mutex of a tag that it found not
\* COMMITED, nobody commits it: the test is as good at the end of the section as
\* when it was made.
THEOREM SeccionSinCommitear == Spec => []SinCommitear
<1>1. TypeOK /\ Disciplina /\ SinCommitear /\ [Next]_vars => SinCommitear'
  BY SinCommitearInv
<1> QED
  BY Inductivo, SinCommitearInit, <1>1, PTL DEF Spec

\* COMMITED is final, whatever the Workers ask for and however their threads
\* interleave: only the DELETE of the tag, or the TAG that created it and is
\* about to fill it, rewrites a metadata.config that says COMMITED.
THEOREM Congelado == Spec => CommitedCongelado
<1> DEFINE Paso1 == \A t \in archivos \intersect archivos' :
                       meta[t].estado = "COMMITED" /\ meta'[t] # meta[t] =>
                         \E w \in Workers : lock[t] = w /\ hilo[w].op = "TAG" /\ hilo[w].tag = t
<1>1. TypeOK /\ Disciplina /\ SinCommitear /\ [Next]_vars => [Paso1]_vars
  BY PasoCongelado
<1>2. Spec => [][Paso1]_vars
  <2> HIDE DEF Paso1
  <2> QED
    BY Inductivo, SeccionSinCommitear, <1>1, PTL DEF Spec
<1> QED
  BY <1>2 DEF CommitedCongelado

-----------------------------------------------------------------------------
(* The physical blocks: who may use, write and free each one               *)

\* The two workloads without the DELETE of a shared block: no block goes out
\* of use by COMMIT or DELETE, or none is shared before its tag is COMMITED.
SinQuitar    == Operaciones \intersect {"COMMIT", "DELETE"} = {}
SinCompartir == "TAG" \notin Operaciones /\ ~ BorraCommited
CargaSegura  == SinQuitar \/ SinCompartir

\* What may lead to a physical block from outside the thread that has it.
Enlazado(b) == \E t \in Tags, l \in Logicos : enlaces[t][l] = b
EnIndice(b) == \E c \in Contenidos : indice[c] = b
Unico(t, l) ==
    \A s \in Tags, k \in Logicos : enlaces[s][k] = enlaces[t][l] => s = t /\ k = l

\* The block a thread has for itself: reserved and not yet linked, or unlinked
\* and not yet freed.
Suyos(h) ==
    CASE h.pc = "copiar" -> {h.b}
      [] h.pc \in {"desenlazar", "enlazar"} /\ h.op = "WRITE" -> {h.b}
      [] h.pc \in {"contar", "liberar"} -> {h.b} \ {0}
      [] h.pc = "enlazar" /\ h.op = "COMMIT" -> {h.m.blocks[h.i]}
      [] OTHER -> {}

\* It is taken, nothing else leads to it, and no other thread has it.
Apartado(b)  == b \in ocupado /\ b # 0 /\ ~ Enlazado(b) /\ ~ EnIndice(b)
Apartados    == \A w \in Workers : \A b \in Suyos(hilo[w]) :
                    Apartado(b) /\ \A v \in Workers : b \in Suyos(hilo[v]) => v = w

\* The links lead to taken blocks, and so does the index, to their contents.
EnlacesOcupados == \A t \in Tags, l \in Logicos :
                       enlaces[t][l] # SinBloque => enlaces[t][l] \in ocupado
IndiceOcupado   == \A c \in Contenidos :
                       indice[c] # SinBloque => indice[c] \in ocupado /\ contenido[indice[c]] = c

\* The File:Tag of the format keeps block 0 linked.
Base == /\ BASE \in archivos /\ BASE \in directorios /\ enlaces[BASE][0] = 0
        /\ meta[BASE].estado = "COMMITED" /\ 0 \in ocupado

\* COMMIT has dealt with logical block l, or the tag is COMMITED already: its
\* block may be in the index, and shared.
Pasado(h, l) ==
    h.op = "COMMIT" /\ (h.pc = "guardar" \/ l < h.i \/ (l = h.i /\ h.pc \in {"contar", "liberar"}))
Fijo(t, l) ==
    \/ meta[t].estado = "COMMITED"
    \/ \E w \in Workers : lock[t] = w /\ hilo[w].tag = t /\ Pasado(hilo[w], l)

\* Any other block is in one place only; without COMMIT the index stays as
\* the format left it.
Exclusivas == \A t \in Tags, l \in Logicos :
                  enlaces[t][l] \notin {SinBloque, 0} /\ ~ Fijo(t, l) =>
                      ~ EnIndice(enlaces[t][l]) /\ Unico(t, l)
Compartidas == /\ SinCompartir => Exclusivas
               /\ SinQuitar => \A b \in Bloques : EnIndice(b) => b = 0

Ausentes == \A t \in Tags \ archivos : meta[t] = MetaVacia

\* What each step relies on.
Fundado(h) ==
    /\ h.op \in Operaciones \union {"ninguna"}
    /\ h.pc \in DeFuera => h.op \in {"READ", "ninguna"}
    /\ h.tag = BASE => h.pc \in DeFuera \union {"crear_destino"}
    /\ h.pc = "en_sitio" =>
          /\ Unico(h.tag, h.i)
          /\ h.m.blocks[h.i] # 0 /\ ~ EnIndice(h.m.blocks[h.i])
    /\ h.pc = "liberar" => h.b # 0 /\ h.op # "TRUNCATE"
    /\ h.op = "DELETE" => BorraCommited \/ meta[h.tag].estado # "COMMITED"
    /\ h.op = "TAG" => h.m.n = meta[h.orig].n /\ h.m.blocks = meta[h.orig].blocks
    /\ h.op = "COMMIT" =>
          /\ h.pc \in {"desenlazar", "enlazar", "indexar"} => h.m.blocks[h.i] # 0
          /\ h.pc \in {"desenlazar", "enlazar"} => EnIndice(h.b)
          /\ h.pc = "indexar" => contenido[h.m.blocks[h.i]] = h.dato
          /\ h.pc = "guardar" => h.m.estado = "COMMITED"

Globales == EnlacesOcupados /\ IndiceOcupado /\ Base /\ Compartidas /\ Ausentes
Reparto  == Apartados /\ Globales /\ \A w \in Workers : Fundado(hilo[w])

\* The pairs that the references of a block count are finitely many.
LEMMA EnlacesFinitos ==
    ASSUME NEW b
    PROVE  IsFiniteSet({p \in Tags \X Logicos : enlaces[p[1]][p[2]] = b})
<1>1. IsFiniteSet(Logicos)
  BY FS_Interval, LogicosAssumption DEF Logicos
<1>2. IsFiniteSet(Tags \X Logicos)
  BY <1>1, TagsAssumption, FS_Product
<1> QED
  BY <1>2, FS_Subset

\* A block that a logical link leads to has more references than its own name.
LEMMA EnlazadoCuenta ==
    ASSUME NEW t \in Tags, NEW l \in Logicos
    PROVE  Referencias(enlaces[t][l]) > 1
<1> DEFINE S == {p \in Tags \X Logicos : enlaces[p[1]][p[2]] = enlaces[t][l]}
<1>1. <<t, l>> \in S
  OBVIOUS
<1>2. IsFiniteSet(S)
  BY EnlacesFinitos
<1> HIDE DEF S
<1>3. Cardinality(S) \in Nat /\ Cardinality(S) # 0
  BY <1>1, <1>2, FS_CardinalityType, FS_EmptySet
<1>4. 1 + Cardinality(S) > 1
  BY <1>3
<1> QED
  BY <1>4 DEF Referencias, S

\* A block with two references has one logical link.
LEMMA ExclusivoUnico ==
    ASSUME NEW t \in Tags, NEW l \in Logicos, Exclusivo(enlaces[t][l])
    PROVE  Unico(t, l)
<1> DEFINE S == {p \in Tags \X Logicos : enlaces[p[1]][p[2]] = enlaces[t][l]}
<1>1. <<t, l>> \in S
  OBVIOUS
<1>2. IsFiniteSet(S)
  BY EnlacesFinitos
<1>3. 1 + Cardinality(S) = 2
  BY DEF Exclusivo, Referencias
<1>4. \A s \in Tags, k \in Logicos : enlaces[s][k] = enlaces[t][l] => <<s, k>> \in S
  OBVIOUS
<1> HIDE DEF S
<1>5. Cardinality(S) = 1
  BY <1>2, <1>3, FS_CardinalityType
<1>6. \E x : S = {x}
  BY <1>2, <1>5, FS_Singleton
<1> QED
  BY <1>1, <1>4, <1>6 DEF Unico

\* A block with more references than its own name has a link.
LEMMA CuentaEnlazado ==
    ASSUME NEW b, Referencias(b) > 1
    PROVE  Enlazado(b)
<1> DEFINE S == {p \in Tags \X Logicos : enlaces[p[1]][p[2]] = b}
<1>1. 1 + Cardinality(S) > 1
  BY DEF Referencias
<1>2. S = {} => Cardinality(S) = 0
  BY FS_EmptySet
<1>3. S # {}
  BY <1>1, <1>2
<1> QED
  BY <1>3 DEF Enlazado

\* What the threads that do not move need of a step, for all to keep what is theirs.
LEMMA Reparte ==
    ASSUME TypeOK, Disciplina, Reparto, NEW w \in Workers, NEW h1 \in Hilo,
           hilo' = [hilo EXCEPT ![w] = h1],
           Globales', Fundado(h1)',
           \A b \in Suyos(h1) : Apartado(b)' /\ \A v \in Workers : b \in Suyos(hilo[v]) => v = w,
           \A t \in Tags : lock[t] \notin {w, Nadie} => meta'[t] = meta[t],
           \A b \in Bloques : EnIndice(b) => EnIndice(b)',
           \A v \in Workers, k \in Hilo : v # w /\ k = hilo[v] =>
              /\ \A b \in Suyos(k) : Apartado(b)'
              /\ k.pc = "en_sitio" => Unico(k.tag, k.i)' /\ ~ EnIndice(k.m.blocks[k.i])'
              /\ k.op = "COMMIT" /\ k.pc = "indexar" =>
                    contenido'[k.m.blocks[k.i]] = contenido[k.m.blocks[k.i]]
    PROVE  Reparto'
<1>1. hilo'[w] = h1 /\ \A v \in Workers : v # w => hilo'[v] = hilo[v]
  BY DEF TypeOK
<1>2. Apartados'
  <2> SUFFICES ASSUME NEW v \in Workers, NEW b \in Suyos(hilo'[v])
               PROVE  Apartado(b)' /\ \A u \in Workers : b \in Suyos(hilo'[u]) => u = v
    BY DEF Apartados, Apartado, Suyos
  <2>1. CASE v = w
    BY <1>1, <2>1
  <2>2. CASE v # w
    <3>1. hilo'[v] = hilo[v] /\ hilo[v] \in Hilo
      BY <1>1, <2>2 DEF TypeOK
    <3>2. Apartado(b)'
      BY <2>2, <3>1
    <3>3. \A u \in Workers : b \in Suyos(hilo[u]) => u = v
      BY <3>1 DEF Reparto, Apartados
    <3>4. \A u \in Workers : b \in Suyos(hilo'[u]) => u = v
      BY <1>1, <2>2, <3>1, <3>3
    <3> QED
      BY <3>2, <3>4
  <2> QED
    BY <2>1, <2>2
<1>3. ASSUME NEW v \in Workers, v # w PROVE Fundado(hilo[v])'
  <2>1. PICK k \in Hilo : k = hilo[v] /\ k = hilo'[v]
    BY <1>1, <1>3 DEF TypeOK
  <2>2. Fundado(k)
    BY <2>1 DEF Reparto
  <2>3. \A t \in Tags : t \in Posee(k) => meta'[t] = meta[t]
    BY <1>3, <2>1, WorkersAssumption, Hechos
  <2>4. k.tag \in Tags /\ k.orig \in Tags /\ k.op \in OperacionesDe(k.pc)
    BY <2>1, Hechos DEF Hilo
  <2>5. k.op = "DELETE" => meta'[k.tag] = meta[k.tag]
    <3>1. k.op = "DELETE" => k.tag \in Posee(k)
      BY <2>2, <2>4 DEF Posee, Fundado, DeFuera, OperacionesDe
    <3> QED
      BY <2>3, <2>4, <3>1
  <2>6. k.op = "TAG" => meta'[k.orig] = meta[k.orig]
    <3>1. k.op = "TAG" => k.pc \in {"crear_destino", "tomar_destino", "copiar_enlace", "guardar"}
      BY <2>1, <2>2, <2>4 DEF Fundado, DeFuera, OperacionesDe, Hilo, Pasos
    <3>2. k.op = "TAG" => k.orig \in Posee(k)
      BY <3>1 DEF Posee
    <3> QED
      BY <2>3, <2>4, <3>2
  <2>7. k.pc \in {"desenlazar", "enlazar"} => k.b \in Bloques
    <3>1. Listados(k)
      BY ZenonT(60), <2>1, Hechos
    <3>2. k.b \in BloqueO
      BY DEF Hilo
    <3> QED
      BY <3>1, <3>2 DEF Listados, BloqueO
  <2>8. Fundado(k)'
    BY <1>3, <2>1, <2>2, <2>5, <2>6, <2>7 DEF Fundado
  <2> QED
    BY <2>1, <2>8 DEF Fundado
<1> QED
  BY <1>1, <1>2, <1>3 DEF Reparto, Fundado

\* A thread that goes on with its COMMIT has at least the blocks behind it that
\* it had.
Adelanta(h, h1) ==
    h.op = "COMMIT" =>
        h1.op = "COMMIT" /\ h1.tag = h.tag /\ \A l \in Logicos : Pasado(h, l) => Pasado(h1, l)

\* What COMMIT has dealt with stays so.
LEMMA FijoSigue ==
    ASSUME TypeOK, NEW w \in Workers, NEW h1,
           hilo' = [hilo EXCEPT ![w] = h1], Adelanta(hilo[w], h1),
           \A t \in Tags : lock[t] \notin {w, Nadie} => lock'[t] = lock[t],
           hilo[w].op = "COMMIT" => UNCHANGED lock,
           \A t \in Tags : meta[t].estado = "COMMITED" => meta'[t].estado = "COMMITED"
    PROVE  \A t \in Tags, l \in Logicos : Fijo(t, l) => Fijo(t, l)'
<1>1. hilo'[w] = h1 /\ \A v \in Workers : v # w => hilo'[v] = hilo[v]
  BY DEF TypeOK
<1> SUFFICES ASSUME NEW t \in Tags, NEW l \in Logicos, Fijo(t, l) PROVE Fijo(t, l)'
  OBVIOUS
<1>2. CASE meta[t].estado = "COMMITED"
  BY <1>2 DEF Fijo
<1>3. CASE \E v \in Workers : lock[t] = v /\ hilo[v].tag = t /\ Pasado(hilo[v], l)
  <2>1. PICK v \in Workers : lock[t] = v /\ hilo[v].tag = t /\ Pasado(hilo[v], l)
    BY <1>3
  <2>2. CASE v # w
    <3>1. lock'[t] = v /\ hilo'[v] = hilo[v]
      BY <1>1, <2>1, <2>2, WorkersAssumption
    <3>2. Pasado(hilo'[v], l)
      BY <2>1, <3>1
    <3> QED
      BY <2>1, <3>1, <3>2 DEF Fijo, Pasado
  <2>3. CASE v = w
    <3>1. hilo[w].op = "COMMIT"
      BY <2>1, <2>3 DEF Pasado
    <3>2. lock'[t] = w /\ h1.tag = t /\ Pasado(h1, l)
      BY <2>1, <2>3, <3>1 DEF Adelanta
    <3> QED
      BY <1>1, <3>2 DEF Fijo, Pasado
  <2> QED
    BY <2>2, <2>3
<1> QED
  BY <1>2, <1>3 DEF Fijo

\* What the threads that do not move need of the links and the index.
LEMMA AjenosIgual ==
    ASSUME TypeOK, Reparto, NEW v \in Workers, NEW k \in Hilo, k = hilo[v],
           UNCHANGED <<ocupado, enlaces, indice>>
    PROVE  /\ \A b \in Suyos(k) : Apartado(b)'
           /\ k.pc = "en_sitio" => Unico(k.tag, k.i)' /\ ~ EnIndice(k.m.blocks[k.i])'
<1>1. \A b \in Suyos(k) : Apartado(b)
  BY DEF Reparto, Apartados
<1>2. Fundado(k)
  BY DEF Reparto
<1> QED
  BY <1>1, <1>2 DEF Apartado, Enlazado, EnIndice, Unico, Fundado

\* A step that leaves the disk alone.
LEMMA Quieto ==
    ASSUME TypeOK, Disciplina, Reparto, NEW w \in Workers, NEW h1 \in Hilo,
           hilo' = [hilo EXCEPT ![w] = h1], UNCHANGED disco,
           \A t \in Tags : lock[t] \notin {w, Nadie} => lock'[t] = lock[t],
           hilo[w].op = "COMMIT" => UNCHANGED lock,
           Adelanta(hilo[w], h1), Suyos(h1) \subseteq Suyos(hilo[w]), Fundado(h1)
    PROVE  Reparto'
<1>1. \A t \in Tags, l \in Logicos : Fijo(t, l) => Fijo(t, l)'
  BY FijoSigue DEF disco
<1>2. Globales'
  <2>1. EnlacesOcupados' /\ IndiceOcupado' /\ Base' /\ Ausentes'
    BY DEF Reparto, Globales, EnlacesOcupados, IndiceOcupado, Base, Ausentes, disco
  <2>2. Compartidas'
    <3> HIDE DEF Fijo
    <3> QED
      BY <1>1 DEF Reparto, Globales, Compartidas, Exclusivas, EnIndice, Unico, disco
  <2> QED
    BY <2>1, <2>2 DEF Globales
<1>3. Fundado(h1)'
  BY DEF Fundado, Unico, EnIndice, disco
<1>4. \A b \in Suyos(h1) : Apartado(b)' /\ \A v \in Workers : b \in Suyos(hilo[v]) => v = w
  BY DEF Reparto, Apartados, Apartado, Enlazado, EnIndice, disco
<1>5. \A b : EnIndice(b) => EnIndice(b)'
  BY DEF EnIndice, disco
<1>6. UNCHANGED <<ocupado, enlaces, indice, meta, contenido>>
  BY DEF disco
<1> HIDE DEF Globales, Fundado, Apartado, Suyos, Adelanta, disco
<1> QED
  BY <1>2, <1>3, <1>4, <1>5, <1>6, AjenosIgual, Reparte

\* A step that makes one logical link of a tag whose mutex it holds lead to x, or
\* nowhere.
LEMMA Enlace ==
    ASSUME TypeOK, Disciplina, Reparto, NEW w \in Workers, NEW h1 \in Hilo,
           NEW t \in Tags, NEW l \in Logicos, NEW x \in BloqueO,
           hilo' = [hilo EXCEPT ![w] = h1], lock[t] = w, t # BASE,
           enlaces' = [enlaces EXCEPT ![t][l] = x],
           UNCHANGED <<ocupado, contenido, directorios, archivos, meta, indice>>,
           UNCHANGED lock, Adelanta(hilo[w], h1), Fundado(h1)',
           x # SinBloque => x \in ocupado,
           \A v \in Workers : v # w =>
              /\ x \notin Suyos(hilo[v])
              /\ hilo[v].pc = "en_sitio" => x # hilo[v].m.blocks[hilo[v].i],
           SinCompartir => \/ x \in {SinBloque, 0}
                           \/ ~ Enlazado(x) /\ ~ EnIndice(x)
                           \/ Fijo(t, l)' /\ EnIndice(x),
           \A b \in Suyos(h1) : Apartado(b)' /\ \A v \in Workers : b \in Suyos(hilo[v]) => v = w
    PROVE  Reparto'
<1>1. \A s \in Tags, k \in Logicos : Fijo(s, k) => Fijo(s, k)'
  BY FijoSigue
<1>2. \A s \in Tags, k \in Logicos :
         enlaces'[s][k] = IF s = t /\ k = l THEN x ELSE enlaces[s][k]
  BY DEF TypeOK
<1>3. \A b : Enlazado(b)' => Enlazado(b) \/ b = x
  BY <1>2 DEF Enlazado
<1>4. \A b : EnIndice(b)' <=> EnIndice(b)
  BY DEF EnIndice
<1>5. EnlacesOcupados' /\ IndiceOcupado' /\ Base' /\ Ausentes'
  <2>1. EnlacesOcupados'
    BY <1>2 DEF Reparto, Globales, EnlacesOcupados
  <2>2. Base'
    BY <1>2, TagsAssumption, Tipos DEF Reparto, Globales, Base
  <2> QED
    BY <2>1, <2>2 DEF Reparto, Globales, IndiceOcupado, Ausentes
<1>6. ASSUME SinCompartir PROVE Exclusivas'
  <2> SUFFICES ASSUME NEW s \in Tags, NEW k \in Logicos,
                      enlaces'[s][k] \notin {SinBloque, 0}, ~ Fijo(s, k)'
               PROVE  ~ EnIndice(enlaces[s][k])' /\ Unico(s, k)'
    BY DEF Exclusivas
  <2>0. EnIndice(enlaces[s][k])' <=> EnIndice(enlaces'[s][k])
    BY DEF EnIndice
  <2> HIDE DEF Fijo
  <2>1. CASE s = t /\ k = l
    <3>1. ~ Enlazado(x) /\ ~ EnIndice(x)
      BY <1>2, <1>6, <2>1
    <3> QED
      BY <1>2, <2>1, <2>0, <3>1 DEF Enlazado, Unico
  <2>2. CASE ~ (s = t /\ k = l)
    <3>1. enlaces'[s][k] = enlaces[s][k] /\ ~ Fijo(s, k)
      BY <1>1, <1>2, <2>2
    <3>2. ~ EnIndice(enlaces[s][k]) /\ Unico(s, k)
      BY <1>6, <3>1 DEF Reparto, Globales, Compartidas, Exclusivas
    <3>3. enlaces[s][k] # x
      BY <1>6, <3>1, <3>2 DEF Enlazado
    <3> QED
      BY <1>2, <2>2, <2>0, <3>1, <3>2, <3>3 DEF Unico
  <2> QED
    BY <2>1, <2>2
<1>7. Globales'
  BY <1>4, <1>5, <1>6 DEF Reparto, Globales, Compartidas
<1>8. ASSUME NEW v \in Workers, NEW k \in Hilo, v # w, k = hilo[v]
      PROVE  /\ \A b \in Suyos(k) : Apartado(b)'
             /\ k.pc = "en_sitio" => Unico(k.tag, k.i)' /\ ~ EnIndice(k.m.blocks[k.i])'
  <2>1. \A b \in Suyos(k) : Apartado(b) /\ b # x
    BY <1>8 DEF Reparto, Apartados
  <2>2. \A b \in Suyos(k) : Apartado(b)'
    BY <1>3, <1>4, <2>1 DEF Apartado
  <2>3. ASSUME k.pc = "en_sitio" PROVE Unico(k.tag, k.i)' /\ ~ EnIndice(k.m.blocks[k.i])'
    <3>1. Unico(k.tag, k.i) /\ ~ EnIndice(k.m.blocks[k.i])
      BY <1>8, <2>3 DEF Reparto, Fundado
    <3>2. k.op # "TAG"
      BY <1>8, <2>3, Hechos DEF OperacionesDe
    <3>3. /\ k.tag \in Tags /\ lock[k.tag] = v /\ k.i \in Logicos
          /\ k.i \in Coinciden(k) => Coincide(k, k.i)
      BY <1>8, <2>3, <3>2, Seccion
    <3>4. k.i \in Coinciden(k)
      BY <1>8, <2>3, <3>3, Hechos DEF Coinciden, Indices
    <3>5. enlaces[k.tag][k.i] = k.m.blocks[k.i] /\ k.tag # t
      BY <1>8, <3>3, <3>4 DEF Coincide
    <3>6. k.m.blocks[k.i] # x
      BY <1>8, <2>3
    <3> QED
      BY <1>2, <1>4, <3>1, <3>3, <3>5, <3>6 DEF Unico
  <2> QED
    BY <2>2, <2>3
<1>9. \A b : EnIndice(b) => EnIndice(b)'
  BY <1>4
<1> HIDE DEF Globales, Fundado, Apartado, Suyos, Adelanta, Fijo
<1> QED
  BY <1>7, <1>8, <1>9, Reparte

\* Outside the sections a thread has no block and relies on nothing.
LEMMA FueraFundado ==
    ASSUME NEW h, h.pc \in DeFuera, h.op \in {"READ", "ninguna"} \intersect (Operaciones \union {"ninguna"})
    PROVE  Fundado(h) /\ Suyos(h) = {}
BY DEF Fundado, Suyos, DeFuera

\* An answer that leaves the disk alone; COMMIT has none before its end.
LEMMA FinReparto ==
    ASSUME TypeOK, Disciplina, Reparto, NEW w \in Workers, NEW r \in Respuestas, Fin(w, r),
           UNCHANGED disco, hilo[w].op # "COMMIT"
    PROVE  Reparto'
<1> DEFINE h1 == [Ocioso EXCEPT !.pc = "responder", !.res = r]
<1>1. h1 \in Hilo /\ h1.pc \in DeFuera /\ h1.op = "ninguna"
  BY Tipos DEF Hilo, Pasos, Ocioso, DeFuera
<1>2. hilo' = [hilo EXCEPT ![w] = h1]
  BY DEF Fin
<1> HIDE DEF h1
<1>3. Fundado(h1) /\ Suyos(h1) = {}
  BY <1>1, FueraFundado
<1>4. \A t \in Tags : lock[t] \notin {w, Nadie} => lock'[t] = lock[t]
  BY DEF Fin
<1>5. Adelanta(hilo[w], h1)
  BY DEF Adelanta
<1> QED
  BY <1>1, <1>2, <1>3, <1>4, <1>5, Quieto

\* A thread that starts or ends nothing: it is free, or it reads.
LEMMA FueraReparto ==
    ASSUME TypeOK, Disciplina, Reparto, NEW w \in Workers, NEW h1 \in Hilo,
           hilo' = [hilo EXCEPT ![w] = h1], UNCHANGED disco, UNCHANGED lock,
           hilo[w].pc \in DeFuera, h1.pc \in DeFuera,
           h1.op \in {"READ", "ninguna"} \intersect (Operaciones \union {"ninguna"})
    PROVE  Reparto'
<1>1. Fundado(h1) /\ Suyos(h1) = {}
  BY FueraFundado
<1>2. hilo[w].op # "COMMIT"
  BY DEF Reparto, Fundado
<1> QED
  BY <1>1, <1>2, Quieto DEF Adelanta

\* READ, and the answers: outside the sections.
LEMMA LecturasPaso ==
    ASSUME TypeOK, Disciplina, Reparto, NEW w \in Workers,
           \/ \E t \in Tags, i \in Logicos : Read(w, t, i)
           \/ Responder(w) \/ LeerBloque(w) \/ ResponderRead(w)
    PROVE  \E h1 \in Hilo :
              /\ hilo' = [hilo EXCEPT ![w] = h1] /\ UNCHANGED disco /\ UNCHANGED lock
              /\ hilo[w].pc \in DeFuera /\ h1.pc \in DeFuera
              /\ h1.op \in {"READ", "ninguna"} \intersect (Operaciones \union {"ninguna"})
<1>1. PICK h \in Hilo : h = hilo[w]
  BY Hechos
<1>2. Fundado(h)
  BY <1>1 DEF Reparto
<1>3. CASE \E t \in Tags, i \in Logicos : Read(w, t, i)
  <2>1. PICK t \in Tags, i \in Logicos : Read(w, t, i)
    BY <1>3
  <2> DEFINE h1 == [Ocioso EXCEPT !.pc = "leer", !.op = "READ", !.tag = t, !.i = i]
  <2>2. h1 \in Hilo /\ h1.pc = "leer" /\ h1.op = "READ"
    BY Tipos DEF Hilo, Pasos, OperacionesFS, Ocioso
  <2>3. hilo' = [hilo EXCEPT ![w] = h1] /\ UNCHANGED disco /\ UNCHANGED lock
        /\ hilo[w].pc = "ocioso" /\ "READ" \in Operaciones
    BY <2>1 DEF Read, En
  <2> HIDE DEF h1
  <2> QED
    BY <2>2, <2>3 DEF DeFuera
<1>4. CASE Responder(w)
  <2>1. Ocioso.pc = "ocioso" /\ Ocioso.op = "ninguna" /\ Ocioso \in Hilo
    BY Tipos DEF Ocioso
  <2> QED
    BY <1>4, <2>1 DEF Responder, Sigue, En, DeFuera
<1>5. CASE LeerBloque(w)
  <2>1. PICK r : /\ hilo' = [hilo EXCEPT ![w] = [h EXCEPT !.pc = "leido", !.res = r]]
                 /\ r \in Respuestas
    BY <1>1, <1>5 DEF LeerBloque, Respuestas
  <2> DEFINE h1 == [h EXCEPT !.pc = "leido", !.res = r]
  <2>2. h1 \in Hilo /\ h1.pc = "leido" /\ h1.op = h.op
    BY <2>1 DEF Hilo, Pasos
  <2>3. h.pc = "leer" /\ UNCHANGED disco /\ UNCHANGED lock
    BY <1>1, <1>5 DEF LeerBloque, En
  <2>4. h.op \in {"READ", "ninguna"} \intersect (Operaciones \union {"ninguna"})
    BY <1>2, <2>3 DEF Fundado, DeFuera
  <2>5. hilo' = [hilo EXCEPT ![w] = h1]
    BY <2>1
  <2> HIDE DEF h1
  <2> QED
    BY <1>1, <2>2, <2>3, <2>4, <2>5 DEF DeFuera
<1>6. CASE ResponderRead(w)
  <2>1. hilo[w].pc = "leido" /\ UNCHANGED disco /\ UNCHANGED lock
    BY <1>6 DEF ResponderRead, En, Sigue
  <2>2. CASE UNCHANGED hilo
    <3>1. hilo' = [hilo EXCEPT ![w] = h]
      BY <1>1, <2>2 DEF TypeOK
    <3>2. h.op \in {"READ", "ninguna"} \intersect (Operaciones \union {"ninguna"})
      BY <1>1, <1>2, <2>1 DEF Fundado, DeFuera
    <3> QED
      BY <1>1, <2>1, <3>1, <3>2 DEF DeFuera
  <2>3. CASE ~ UNCHANGED hilo
    <3>1. PICK r \in Respuestas : hilo' = [hilo EXCEPT ![w] = [Ocioso EXCEPT !.pc = "responder", !.res = r]]
      BY <1>6, <2>3 DEF ResponderRead, Sigue, Respuestas
    <3> DEFINE h1 == [Ocioso EXCEPT !.pc = "responder", !.res = r]
    <3>2. h1 \in Hilo /\ h1.pc = "responder" /\ h1.op = "ninguna"
      BY Tipos DEF Hilo, Pasos, Ocioso
    <3>3. hilo' = [hilo EXCEPT ![w] = h1]
      BY <3>1
    <3> HIDE DEF h1
    <3> QED
      BY <2>1, <3>2, <3>3 DEF DeFuera
  <2> QED
    BY <2>2, <2>3
<1> QED
  BY <1>3, <1>4, <1>5, <1>6

\* READ, and the answers.
LEMMA LecturasReparto ==
    ASSUME TypeOK, Disciplina, Reparto, NEW w \in Workers,
           \/ \E t \in Tags, i \in Logicos : Read(w, t, i)
           \/ Responder(w) \/ LeerBloque(w) \/ ResponderRead(w)
    PROVE  Reparto'
<1>1. PICK h1 \in Hilo : /\ hilo' = [hilo EXCEPT ![w] = h1] /\ UNCHANGED disco /\ UNCHANGED lock
                         /\ hilo[w].pc \in DeFuera /\ h1.pc \in DeFuera
                         /\ h1.op \in {"READ", "ninguna"} \intersect (Operaciones \union {"ninguna"})
  BY LecturasPaso
<1> QED
  BY <1>1, FueraReparto

\* A request turned down.
LEMMA RechazoReparto ==
    ASSUME TypeOK, Disciplina, Reparto, NEW w \in Workers, NEW r \in Respuestas,
           En(w, "ocioso"), Fin(w, r), UNCHANGED disco
    PROVE  Reparto'
<1>1. hilo[w].op # "COMMIT"
  BY DEF Reparto, Fundado, En, DeFuera
<1> QED
  BY <1>1, FinReparto

\* A request accepted, for a thread that has no block yet.
LEMMA TomaReparto ==
    ASSUME TypeOK, Disciplina, Reparto, NEW w \in Workers, NEW t \in Tags, NEW h1 \in Hilo,
           Toma(w, t, h1), UNCHANGED disco, hilo[w].op # "COMMIT", Suyos(h1) = {}, Fundado(h1)
    PROVE  Reparto'
<1>1. \A s \in Tags : lock[s] \notin {w, Nadie} => lock'[s] = lock[s]
  BY DEF Toma, TypeOK
<1> QED
  BY <1>1, Quieto DEF Adelanta, Toma

\* The requests that start a section on one tag or turn it down.
LEMMA WriteReparto ==
    ASSUME TypeOK, Disciplina, Reparto, NEW w \in Workers, NEW t \in Tags,
           NEW i \in Logicos, NEW d \in Contenidos, Write(w, t, i, d)
    PROVE  Reparto'
<1>1. En(w, "ocioso") /\ "WRITE" \in Operaciones /\ UNCHANGED disco
  BY DEF Write, Pide
<1>2. CASE Fin(w, MotivoWrite(t, i))
  BY <1>1, <1>2, RechazoReparto DEF MotivoWrite, Respuestas
<1>3. CASE ~ Fin(w, MotivoWrite(t, i))
  <2> DEFINE h1 == [Ocioso EXCEPT !.pc = "escribir", !.op = "WRITE", !.tag = t,
                                  !.i = i, !.m = meta[t], !.dato = d]
  <2>1. /\ h1 \in Hilo /\ h1.pc = "escribir" /\ h1.op = "WRITE" /\ h1.tag = t
    BY Tipos DEF Hilo, Pasos, OperacionesFS, Ocioso, TypeOK
  <2>2. Toma(w, t, h1) /\ MotivoWrite(t, i) = "ok"
    BY <1>3 DEF Write
  <2>3. t # BASE
    BY <2>2 DEF MotivoWrite, Reparto, Globales, Base
  <2> HIDE DEF h1
  <2>4. Fundado(h1) /\ Suyos(h1) = {}
    BY <1>1, <2>1, <2>3 DEF Fundado, Suyos, DeFuera
  <2>5. hilo[w].op # "COMMIT"
    BY <1>1 DEF Reparto, Fundado, En, DeFuera
  <2> QED
    BY <1>1, <2>1, <2>2, <2>4, <2>5, TomaReparto
<1> QED
  BY <1>2, <1>3

LEMMA TruncateReparto ==
    ASSUME TypeOK, Disciplina, Reparto, NEW w \in Workers, NEW t \in Tags,
           NEW tam \in Tamanios, Truncate(w, t, tam)
    PROVE  Reparto'
<1>1. En(w, "ocioso") /\ "TRUNCATE" \in Operaciones /\ UNCHANGED disco
  BY DEF Truncate, Pide
<1>2. CASE Fin(w, MotivoTruncate(t))
  BY <1>1, <1>2, RechazoReparto DEF MotivoTruncate, Respuestas
<1>3. CASE ~ Fin(w, MotivoTruncate(t))
  <2> DEFINE h == [Ocioso EXCEPT !.op = "TRUNCATE", !.tag = t, !.m = meta[t], !.arg = tam]
             n == meta[t].n
  <2>1. MotivoTruncate(t) = "ok"
    BY <1>3 DEF Truncate
  <2>2. t # BASE
    BY <2>1 DEF MotivoTruncate, Reparto, Globales, Base
  <2>3. n \in Nat /\ meta[t] \in Metadata /\ (n > 0 => n - 1 \in Logicos) /\ (n < MaxLogicos => n \in Logicos)
        /\ n <= MaxLogicos /\ Necesarios(tam) \in 0 .. MaxLogicos
    BY LogicosAssumption, TamaniosAssumption DEF TypeOK, Metadata, Logicos
  <2>4. h \in Hilo /\ h.op = "TRUNCATE" /\ h.tag = t
    BY Tipos, <2>3 DEF Hilo, OperacionesFS, Ocioso
  <2>5. PICK h1 : Toma(w, t, h1) /\ h1 = CASE Necesarios(tam) > n -> [h EXCEPT !.pc = "agrandar", !.i = n]
                              [] Necesarios(tam) < n -> [h EXCEPT !.pc = "achicar", !.i = n - 1]
                              [] OTHER -> [h EXCEPT !.pc = "guardar",
                                                    !.m = Redimensionada(meta[t], tam)]
    BY <1>3 DEF Truncate
  <2> HIDE DEF h
  <2>6. h1 \in Hilo /\ h1.op = "TRUNCATE" /\ h1.tag = t /\ h1.pc \in {"agrandar", "achicar", "guardar"}
    <3>1. CASE Necesarios(tam) > n
      <4>1. n \in Logicos
        BY <2>3, <3>1, LogicosAssumption
      <4>2. h1 = [h EXCEPT !.pc = "agrandar", !.i = n]
        BY <2>3, <2>5, <3>1
      <4> HIDE DEF n
      <4> QED
        BY <2>4, <4>1, <4>2 DEF Hilo, Pasos
    <3>2. CASE Necesarios(tam) < n
      <4>1. n - 1 \in Logicos /\ h1 = [h EXCEPT !.pc = "achicar", !.i = n - 1]
        BY <2>3, <2>5, <3>2
      <4> HIDE DEF n
      <4> QED
        BY <2>4, <4>1 DEF Hilo, Pasos
    <3>3. CASE ~ (Necesarios(tam) > n) /\ ~ (Necesarios(tam) < n)
      <4>1. Redimensionada(meta[t], tam) \in Metadata
        BY <2>3, RedimensionadaTipo
      <4>2. h1 = [h EXCEPT !.pc = "guardar", !.m = Redimensionada(meta[t], tam)]
        BY <2>5, <3>3
      <4> QED
        BY <2>4, <4>1, <4>2 DEF Hilo, Pasos
    <3> QED
      BY <3>1, <3>2, <3>3
  <2>7. Fundado(h1) /\ Suyos(h1) = {}
    BY <1>1, <2>2, <2>6 DEF Fundado, Suyos, DeFuera
  <2>8. hilo[w].op # "COMMIT"
    BY <1>1 DEF Reparto, Fundado, En, DeFuera
  <2> QED
    BY <1>1, <2>5, <2>6, <2>7, <2>8, TomaReparto
<1> QED
  BY <1>2, <1>3

LEMMA DeleteReparto ==
    ASSUME TypeOK, Disciplina, Reparto, CargaSegura, NEW w \in Workers, NEW t \in Tags, Delete(w, t)
    PROVE  Reparto'
<1>1. En(w, "ocioso") /\ "DELETE" \in Operaciones /\ UNCHANGED disco
  BY DEF Delete, Pide
<1>2. CASE Fin(w, "error")
  BY <1>1, <1>2, RechazoReparto DEF Respuestas
<1>3. CASE ~ Fin(w, "error")
  <2> DEFINE h1 == [Ocioso EXCEPT !.op = "DELETE", !.tag = t, !.m = meta[t],
                                  !.pc = IF meta[t].n = 0 THEN "quitar" ELSE "borrar"]
  <2>1. /\ h1 \in Hilo /\ h1.pc \in {"quitar", "borrar"} /\ h1.op = "DELETE" /\ h1.tag = t
    BY Tipos DEF Hilo, Pasos, OperacionesFS, Ocioso, TypeOK
  <2>2. Toma(w, t, h1) /\ meta[t].estado # "COMMITED"
    <3>1. ~ BorraCommited
      BY <1>1 DEF CargaSegura, SinQuitar, SinCompartir
    <3> QED
      BY <1>3, <3>1 DEF Delete
  <2>3. t # BASE
    BY <2>2 DEF Reparto, Globales, Base
  <2> HIDE DEF h1
  <2>4. Fundado(h1) /\ Suyos(h1) = {}
    BY <1>1, <2>1, <2>2, <2>3 DEF Fundado, Suyos, DeFuera
  <2>5. hilo[w].op # "COMMIT"
    BY <1>1 DEF Reparto, Fundado, En, DeFuera
  <2> QED
    BY <1>1, <2>1, <2>2, <2>4, <2>5, TomaReparto
<1> QED
  BY <1>2, <1>3

LEMMA CommitReparto ==
    ASSUME TypeOK, Disciplina, Reparto, NEW w \in Workers, NEW t \in Tags, Commit(w, t)
    PROVE  Reparto'
<1>1. En(w, "ocioso") /\ "COMMIT" \in Operaciones /\ UNCHANGED disco
  BY DEF Commit, Pide
<1>2. CASE Fin(w, "error") \/ Fin(w, "ok")
  BY <1>1, <1>2, RechazoReparto DEF Respuestas
<1>3. CASE ~ (Fin(w, "error") \/ Fin(w, "ok"))
  <2> DEFINE h == [Ocioso EXCEPT !.op = "COMMIT", !.tag = t, !.m = meta[t]]
  <2>1. meta[t].estado # "COMMITED"
    BY <1>3 DEF Commit
  <2>2. t # BASE
    BY <2>1 DEF Reparto, Globales, Base
  <2>3. h \in Hilo /\ h.op = "COMMIT" /\ h.tag = t
    BY Tipos DEF Hilo, OperacionesFS, Ocioso, TypeOK
  <2>4. PICK h1 : Toma(w, t, h1) /\ h1 = IF meta[t].n = 0
                        THEN [h EXCEPT !.pc = "guardar", !.m.estado = "COMMITED"]
                        ELSE [h EXCEPT !.pc = "commitear"]
    BY <1>3 DEF Commit
  <2> HIDE DEF h
  <2>5. h1 \in Hilo /\ h1.op = "COMMIT" /\ h1.tag = t /\ h1.pc \in {"guardar", "commitear"}
        /\ (h1.pc = "guardar" => h1.m.estado = "COMMITED")
    BY <2>3, <2>4 DEF Hilo, Pasos, Metadata, Estados
  <2>6. Fundado(h1) /\ Suyos(h1) = {}
    BY <1>1, <2>2, <2>5 DEF Fundado, Suyos, DeFuera
  <2>7. hilo[w].op # "COMMIT"
    BY <1>1 DEF Reparto, Fundado, En, DeFuera
  <2> QED
    BY <1>1, <2>4, <2>5, <2>6, <2>7, TomaReparto
<1> QED
  BY <1>2, <1>3

LEMMA TagReparto ==
    ASSUME TypeOK, Disciplina, Reparto, NEW w \in Workers, NEW o \in Tags, NEW d \in Tags, Tag(w, o, d)
    PROVE  Reparto'
<1>1. En(w, "ocioso") /\ "TAG" \in Operaciones /\ UNCHANGED disco
  BY DEF Tag, Pide
<1>2. CASE Fin(w, "error")
  BY <1>1, <1>2, RechazoReparto DEF Respuestas
<1>3. CASE ~ Fin(w, "error")
  <2> DEFINE h1 == [Ocioso EXCEPT !.pc = "crear_destino", !.op = "TAG",
                                  !.tag = d, !.orig = o, !.m = meta[o]]
  <2>1. /\ h1 \in Hilo /\ h1.pc = "crear_destino" /\ h1.op = "TAG" /\ h1.orig = o /\ h1.m = meta[o]
    BY Tipos DEF Hilo, Pasos, OperacionesFS, Ocioso, TypeOK
  <2>2. Toma(w, o, h1)
    BY <1>3 DEF Tag
  <2> HIDE DEF h1
  <2>3. Fundado(h1) /\ Suyos(h1) = {}
    BY <1>1, <2>1 DEF Fundado, Suyos, DeFuera
  <2>4. hilo[w].op # "COMMIT"
    BY <1>1 DEF Reparto, Fundado, En, DeFuera
  <2> QED
    BY <1>1, <2>1, <2>2, <2>3, <2>4, TomaReparto
<1> QED
  BY <1>2, <1>3

\* A block of a tag that is not COMMITED, and that COMMIT has not dealt with, is
\* in one place only.
LEMMA Exclusiva ==
    ASSUME Reparto, SinCompartir, NEW w \in Workers, NEW h, h = hilo[w], NEW l \in Logicos,
           h.tag \in Tags, lock[h.tag] = w, meta[h.tag].estado # "COMMITED", ~ Pasado(h, l),
           enlaces[h.tag][l] \notin {SinBloque, 0}
    PROVE  ~ EnIndice(enlaces[h.tag][l]) /\ Unico(h.tag, l)
<1>1. ~ Fijo(h.tag, l)
  BY DEF Fijo
<1> QED
  BY <1>1 DEF Reparto, Globales, Compartidas, Exclusivas

\* A thread that changes the links of a tag does not do it to that of the format.
LEMMA NoBase ==
    ASSUME TypeOK, Disciplina, Reparto, NEW w \in Workers, NEW h \in Hilo, h = hilo[w],
           h.pc \notin DeFuera \union {"crear_destino", "tomar_destino"}, h.op # "TAG"
    PROVE  /\ h.tag \in Tags /\ h.tag # BASE /\ h.tag \in archivos
           /\ \A t \in Tags : lock[t] = w <=> t = h.tag
           /\ \A l \in Coinciden(h) : Coincide(h, l)
           /\ h.op \in OperacionesDe(h.pc) /\ Indices(h) /\ Listados(h) /\ Fundado(h)
           /\ h.m \in Metadata /\ h.i \in Logicos /\ h.i \in Nat
<1>1. Fundado(h)
  BY DEF Reparto
<1>2. h.i \in Logicos /\ h.i \in Nat
  BY LogicosAssumption DEF Hilo, Logicos
<1>3. h.tag # BASE
  BY <1>1 DEF Fundado
<1> QED
  BY <1>1, <1>2, <1>3, Seccion DEF DeFuera

\* WRITE counts the references of the block it is to write: with one link it has
\* the block for itself.
LEMMA ContarParaEscribirReparto ==
    ASSUME TypeOK, Disciplina, SinCommitear, Reparto, CargaSegura, NEW w \in Workers,
           ContarParaEscribir(w)
    PROVE  Reparto'
<1>1. PICK h \in Hilo : h = hilo[w]
  BY Hechos
<1> DEFINE b  == h.m.blocks[h.i]
           h1 == [h EXCEPT !.pc = IF Exclusivo(b) THEN "en_sitio" ELSE "reservar"]
<1>2. h.pc = "escribir" /\ h.op = "WRITE"
  BY <1>1, Hechos DEF ContarParaEscribir, En, OperacionesDe
<1>3. /\ h.tag \in Tags /\ h.tag # BASE /\ h.i \in Logicos /\ lock[h.tag] = w
      /\ \A l \in Coinciden(h) : Coincide(h, l)
      /\ Indices(h) /\ Fundado(h)
  BY <1>1, <1>2, NoBase DEF DeFuera
<1>4. b # SinBloque /\ enlaces[h.tag][h.i] = b
  <2>1. h.i \in Coinciden(h)
    BY <1>2, <1>3 DEF Coinciden, Indices
  <2> QED
    BY <1>3, <2>1 DEF Coincide
<1>5. hilo' = [hilo EXCEPT ![w] = h1] /\ UNCHANGED <<lock, disco>>
  BY <1>1 DEF ContarParaEscribir, Sigue
<1>6. meta[h.tag].estado # "COMMITED"
  BY <1>1, <1>2, EnSeccion DEF SinCommitear, Escritoras, DeFuera
<1>7. h1 \in Hilo /\ h1.op = "WRITE" /\ h1.tag = h.tag /\ h1.i = h.i /\ h1.m = h.m
      /\ h1.pc = IF Exclusivo(b) THEN "en_sitio" ELSE "reservar"
  BY <1>2 DEF Hilo, Pasos
<1>8. ASSUME Exclusivo(b) PROVE Unico(h.tag, h.i) /\ b # 0 /\ ~ EnIndice(b)
  <2>1. Unico(h.tag, h.i)
    BY <1>3, <1>4, <1>8, ExclusivoUnico
  <2>2. b # 0
    BY <1>3, <1>4, <2>1, TagsAssumption, Tipos DEF Reparto, Globales, Base, Unico
  <2>3. ~ EnIndice(b)
    <3>1. CASE SinCompartir
      <4>1. ~ Pasado(h, h.i)
        BY <1>2 DEF Pasado
      <4> QED
        BY <1>1, <1>3, <1>4, <1>6, <2>2, <3>1, <4>1, Exclusiva
    <3>2. CASE SinQuitar
      <4>1. b \in Bloques
        BY <1>3, <1>4 DEF TypeOK, BloqueO
      <4> QED
        BY <2>2, <3>2, <4>1 DEF Reparto, Globales, Compartidas
    <3> QED
      BY <3>1, <3>2 DEF CargaSegura
  <2> QED
    BY <2>1, <2>2, <2>3
<1> HIDE DEF h1
<1>9. Fundado(h1)
  BY <1>2, <1>3, <1>7, <1>8 DEF Fundado, DeFuera
<1>10. Suyos(h1) = {} /\ Adelanta(h, h1)
  BY <1>2, <1>7 DEF Suyos, Adelanta
<1> QED
  BY <1>1, <1>5, <1>7, <1>9, <1>10, Quieto

\* The next round of DELETE or COMMIT: no block of its own, and COMMIT has dealt
\* with one more.
LEMMA AvanzaReparto ==
    ASSUME NEW h \in Hilo, h.op \in {"DELETE", "COMMIT"}, h.tag # BASE, h.i < h.m.n,
           h.pc # "guardar", NEW h1, h1 = Avanza(h), Fundado(h)
    PROVE  /\ h1 \in Hilo /\ Fundado(h1) /\ Suyos(h1) = {} /\ Adelanta(h, h1)
           /\ h1.op = h.op /\ h1.tag = h.tag
           /\ h1.op = "COMMIT" => \A l \in Logicos : l <= h.i => Pasado(h1, l)
<1>1. /\ h1 \in Hilo /\ h1.op = h.op /\ h1.tag = h.tag
      /\ h1.pc \in {"borrar", "commitear", "quitar", "guardar"}
  BY AvanzaHechos
<1>2. h.i \in Nat /\ h.m \in Metadata /\ Logicos \subseteq Nat
  BY LogicosAssumption DEF Hilo, Logicos
<1>3. h1.op = "COMMIT" => (h1.pc = "guardar" /\ h1.m.estado = "COMMITED") \/ (h1.pc = "commitear" /\ h1.i = h.i + 1)
  <2>1. CASE h.i + 1 < h.m.n
    BY <1>1, <2>1 DEF Avanza, Hilo
  <2>2. CASE ~ (h.i + 1 < h.m.n)
    BY <1>1, <1>2, <2>2 DEF Avanza, Hilo, Metadata
  <2> QED
    BY <2>1, <2>2
<1>4. Fundado(h1)
  BY <1>1, <1>3 DEF Fundado, DeFuera
<1>5. Suyos(h1) = {}
  BY <1>1 DEF Suyos
<1>6. h1.op = "COMMIT" => \A l \in Logicos : l <= h.i => Pasado(h1, l)
  <2>1. \A l \in Logicos : l <= h.i => l < h.i + 1
    BY <1>2
  <2> QED
    BY <1>3, <2>1 DEF Pasado
<1>7. Adelanta(h, h1)
  <2>1. \A l \in Logicos : Pasado(h, l) => l <= h.i
    BY <1>2 DEF Pasado
  <2> QED
    BY <1>1, <1>6, <2>1 DEF Adelanta
<1> QED
  BY <1>1, <1>4, <1>5, <1>6, <1>7

\* DELETE and COMMIT count the references of the block they have just unlinked:
\* block 0 has always one.
LEMMA ContarReferenciasReparto ==
    ASSUME TypeOK, Disciplina, Reparto, NEW w \in Workers, ContarReferencias(w)
    PROVE  Reparto'
<1>1. PICK h \in Hilo : h = hilo[w]
  BY Hechos
<1>2. h.pc = "contar" /\ h.op \in {"DELETE", "COMMIT"} /\ UNCHANGED <<lock, disco>>
  BY <1>1, Hechos DEF ContarReferencias, En, OperacionesDe, Sigue
<1>3. /\ h.tag # BASE /\ Indices(h) /\ Fundado(h)
  BY <1>1, <1>2, NoBase DEF DeFuera
<1>4. CASE SinUso(h.b)
  <2> DEFINE h1 == [h EXCEPT !.pc = "liberar"]
  <2>1. hilo' = [hilo EXCEPT ![w] = h1]
    BY <1>1, <1>4 DEF ContarReferencias, Sigue
  <2>2. h1 \in Hilo /\ h1.op = h.op /\ h1.tag = h.tag /\ h1.b = h.b /\ h1.i = h.i
        /\ h1.m = h.m /\ h1.pc = "liberar"
    BY DEF Hilo, Pasos
  <2>3. h.b # 0
    <3>1. Referencias(enlaces[BASE][0]) > 1
      BY TagsAssumption, Tipos, EnlazadoCuenta
    <3> QED
      BY <1>4, <3>1 DEF SinUso, Reparto, Globales, Base
  <2> HIDE DEF h1
  <2>4. Fundado(h1)
    BY <1>2, <1>3, <2>2, <2>3 DEF Fundado, DeFuera
  <2>5. Suyos(h1) = Suyos(h) /\ Adelanta(h, h1)
    BY <1>2, <2>2 DEF Suyos, Adelanta, Pasado
  <2> QED
    BY <1>1, <1>2, <2>1, <2>2, <2>4, <2>5, Quieto
<1>5. CASE ~ SinUso(h.b)
  <2>1. PICK h1 : h1 = Avanza(h)
    OBVIOUS
  <2>2. hilo' = [hilo EXCEPT ![w] = h1]
    BY <1>1, <1>5, <2>1 DEF ContarReferencias, Sigue
  <2>3. h.i < h.m.n
    BY <1>2, <1>3 DEF Indices
  <2>4. h1 \in Hilo /\ Fundado(h1) /\ Suyos(h1) = {} /\ Adelanta(h, h1)
    BY <1>2, <1>3, <2>1, <2>3, AvanzaReparto
  <2> QED
    BY <1>1, <1>2, <2>2, <2>4, Quieto
<1> QED
  BY <1>4, <1>5

\* COMMIT looks for the contents of a block in the index.
LEMMA BuscarHashReparto ==
    ASSUME TypeOK, Disciplina, Reparto, NEW w \in Workers, BuscarHash(w)
    PROVE  Reparto'
<1>1. PICK h \in Hilo : h = hilo[w]
  BY Hechos
<1> DEFINE b == h.m.blocks[h.i]
           e == indice[contenido[b]]
<1>2. h.pc = "commitear" /\ h.op = "COMMIT" /\ UNCHANGED <<lock, disco>>
  BY <1>1, Hechos DEF BuscarHash, En, OperacionesDe, Sigue
<1>3. /\ h.tag \in Tags /\ h.tag # BASE /\ h.i \in Logicos
      /\ \A l \in Coinciden(h) : Coincide(h, l)
      /\ Indices(h) /\ Fundado(h)
  BY <1>1, <1>2, NoBase DEF DeFuera
<1>4. h.i < h.m.n
  BY <1>2, <1>3 DEF Indices
<1>5. b \in Bloques /\ contenido[b] \in Contenidos /\ e \in BloqueO
  <2>1. h.i \in Coinciden(h)
    BY <1>2, <1>3, <1>4 DEF Coinciden
  <2>2. b # SinBloque /\ b \in BloqueO
    BY <1>3, <2>1 DEF Coincide, Hilo, Metadata
  <2> QED
    BY <2>2 DEF TypeOK, BloqueO
<1>6. CASE b = 0
  <2>1. PICK h1 : h1 = Avanza(h)
    OBVIOUS
  <2>2. hilo' = [hilo EXCEPT ![w] = h1]
    BY <1>1, <1>6, <2>1 DEF BuscarHash, Sigue
  <2>3. h1 \in Hilo /\ Fundado(h1) /\ Suyos(h1) = {} /\ Adelanta(h, h1)
    BY <1>2, <1>3, <1>4, <2>1, AvanzaReparto
  <2> QED
    BY <1>1, <1>2, <2>2, <2>3, Quieto
<1>7. CASE b # 0
  <2>1. PICK h1 : h1 = IF e # SinBloque THEN [h EXCEPT !.pc = "desenlazar", !.b = e]
                       ELSE [h EXCEPT !.pc = "indexar", !.dato = contenido[b]]
    OBVIOUS
  <2>2. hilo' = [hilo EXCEPT ![w] = h1]
    BY <1>1, <1>7, <2>1 DEF BuscarHash, Sigue
  <2> HIDE DEF b, e
  <2>3. /\ h1 \in Hilo /\ h1.op = "COMMIT" /\ h1.tag = h.tag /\ h1.i = h.i /\ h1.m = h.m
        /\ \/ h1.pc = "desenlazar" /\ h1.b = e /\ e # SinBloque
           \/ h1.pc = "indexar" /\ h1.dato = contenido[b]
    BY <1>2, <1>5, <2>1 DEF Hilo, Pasos
  <2>4. e # SinBloque => EnIndice(e)
    BY <1>5 DEF EnIndice, e
  <2>5. Fundado(h1)
    BY <1>2, <1>3, <1>7, <2>3, <2>4 DEF Fundado, DeFuera, b
  <2>6. Suyos(h1) = {} /\ Adelanta(h, h1)
    BY <1>2, <2>3 DEF Suyos, Adelanta, Pasado
  <2> QED
    BY <1>1, <1>2, <2>2, <2>3, <2>5, <2>6, Quieto
<1> QED
  BY <1>6, <1>7

\* TAG takes the tag it created.
LEMMA TomarDestinoReparto ==
    ASSUME TypeOK, Disciplina, Reparto, NEW w \in Workers, TomarDestino(w)
    PROVE  Reparto'
<1>1. PICK h \in Hilo : h = hilo[w]
  BY Hechos
<1>2. h.pc = "tomar_destino" /\ h.op = "TAG" /\ UNCHANGED disco
  BY <1>1, Hechos DEF TomarDestino, En, OperacionesDe
<1>3. Fundado(h) /\ h.tag \in Tags
  BY <1>1 DEF Reparto, Hilo
<1>4. CASE Fin(w, "error")
  BY <1>1, <1>2, <1>4, FinReparto DEF Respuestas
<1>5. CASE ~ Fin(w, "error")
  <2> DEFINE h1 == [h EXCEPT !.pc = IF h.m.n = 0 THEN "guardar" ELSE "copiar_enlace",
                             !.m.estado = meta[h.tag].estado]
  <2>1. Toma(w, h.tag, h1)
    BY <1>1, <1>5 DEF TomarDestino
  <2>2. /\ h1 \in Hilo /\ h1.op = "TAG" /\ h1.tag = h.tag /\ h1.orig = h.orig
        /\ h1.m.n = h.m.n /\ h1.m.blocks = h.m.blocks /\ h1.pc \in {"guardar", "copiar_enlace"}
    BY <1>2, <1>3 DEF Hilo, Pasos, Metadata, TypeOK
  <2> HIDE DEF h1
  <2>3. Fundado(h1) /\ Suyos(h1) = {}
    BY <1>2, <1>3, <2>2 DEF Fundado, Suyos, DeFuera
  <2> QED
    BY <1>1, <1>2, <1>3, <2>1, <2>2, <2>3, TomaReparto
<1> QED
  BY <1>4, <1>5

\* The contents of a block change when no other tag leads to it, nor the index.
LEMMA Escritura ==
    ASSUME TypeOK, Disciplina, Reparto, NEW w \in Workers, NEW h \in Hilo, NEW h1 \in Hilo,
           NEW x \in Bloques, NEW d \in Contenidos,
           h = hilo[w], hilo' = [hilo EXCEPT ![w] = h1], lock[h.tag] = w,
           contenido' = [contenido EXCEPT ![x] = d],
           UNCHANGED <<ocupado, enlaces, directorios, archivos, meta, indice>>, UNCHANGED lock,
           h.op = "WRITE", h1.op = "WRITE", h1.tag = h.tag, h.tag # BASE,
           h1.pc \notin DeFuera \union {"en_sitio"}, h1.pc # "liberar",
           ~ EnIndice(x), \A t \in Tags, l \in Logicos : t # h.tag => enlaces[t][l] # x,
           Suyos(h1) \subseteq Suyos(h)
    PROVE  Reparto'
<1>1. \A b \in Bloques : b # x => contenido'[b] = contenido[b]
  BY DEF TypeOK
<1>2. \A b : EnIndice(b)' <=> EnIndice(b)
  BY DEF EnIndice
<1>3. \A t \in Tags, l \in Logicos : Fijo(t, l) => Fijo(t, l)'
  BY FijoSigue DEF Adelanta
<1>4. Globales'
  <2>1. EnlacesOcupados' /\ Base' /\ Ausentes'
    BY DEF Reparto, Globales, EnlacesOcupados, Base, Ausentes
  <2>2. IndiceOcupado'
    <3> SUFFICES ASSUME NEW c \in Contenidos, indice[c] # SinBloque
                 PROVE  indice[c] \in ocupado /\ contenido'[indice[c]] = c
      BY DEF IndiceOcupado
    <3>1. indice[c] \in ocupado /\ contenido[indice[c]] = c
      BY DEF Reparto, Globales, IndiceOcupado
    <3>2. indice[c] # x /\ indice[c] \in Bloques
      BY <3>1 DEF EnIndice, TypeOK
    <3> QED
      BY <1>1, <3>1, <3>2
  <2>3. Compartidas'
    <3> HIDE DEF Fijo
    <3> QED
      BY <1>2, <1>3 DEF Reparto, Globales, Compartidas, Exclusivas, EnIndice, Unico
  <2> QED
    BY <2>1, <2>2, <2>3 DEF Globales
<1>5. Fundado(h1)'
  <2>1. Fundado(h)
    BY DEF Reparto
  <2> QED
    BY <2>1 DEF Fundado
<1>6. \A b \in Suyos(h1) : Apartado(b)' /\ \A v \in Workers : b \in Suyos(hilo[v]) => v = w
  BY DEF Reparto, Apartados, Apartado, Enlazado, EnIndice
<1>7. ASSUME NEW v \in Workers, NEW k \in Hilo, v # w, k = hilo[v], k.op = "COMMIT", k.pc = "indexar"
      PROVE  contenido'[k.m.blocks[k.i]] = contenido[k.m.blocks[k.i]]
  <2>1. /\ k.tag \in Tags /\ k.i \in Logicos /\ lock[k.tag] = v /\ Indices(k)
        /\ \A l \in Coinciden(k) : Coincide(k, l)
    BY <1>7, NoBase DEF DeFuera
  <2>2. k.i \in Coinciden(k)
    BY <1>7, <2>1 DEF Coinciden, Indices
  <2>3. enlaces[k.tag][k.i] = k.m.blocks[k.i] /\ k.m.blocks[k.i] # SinBloque /\ k.tag # h.tag
    BY <1>7, <2>1, <2>2 DEF Coincide
  <2>4. k.m.blocks[k.i] \in Bloques
    BY <2>1, <2>3 DEF TypeOK, BloqueO
  <2> QED
    BY <1>1, <2>1, <2>3, <2>4
<1> HIDE DEF Globales, Fundado, Apartado, Suyos, Adelanta
<1> QED
  BY <1>2, <1>4, <1>5, <1>6, <1>7, AjenosIgual, Reparte

\* WRITE in place: the block has no other link.
LEMMA EscribirEnSitioReparto ==
    ASSUME TypeOK, Disciplina, Reparto, NEW w \in Workers, EscribirEnSitio(w)
    PROVE  Reparto'
<1>1. PICK h \in Hilo : h = hilo[w]
  BY Hechos
<1> DEFINE b  == h.m.blocks[h.i]
           h1 == [h EXCEPT !.pc = "guardar"]
<1>2. h.pc = "en_sitio" /\ h.op = "WRITE"
  BY <1>1, Hechos DEF EscribirEnSitio, En, OperacionesDe
<1>3. /\ h.tag \in Tags /\ h.tag # BASE /\ h.i \in Logicos /\ lock[h.tag] = w
      /\ \A l \in Coinciden(h) : Coincide(h, l)
      /\ Indices(h) /\ Fundado(h)
  BY <1>1, <1>2, NoBase DEF DeFuera
<1>4. b # SinBloque /\ enlaces[h.tag][h.i] = b
  <2>1. h.i \in Coinciden(h)
    BY <1>2, <1>3 DEF Coinciden, Indices
  <2> QED
    BY <1>3, <2>1 DEF Coincide
<1>5. b \in Bloques
  BY <1>3, <1>4 DEF TypeOK, BloqueO
<1>6. /\ hilo' = [hilo EXCEPT ![w] = h1] /\ contenido' = [contenido EXCEPT ![b] = h.dato]
      /\ UNCHANGED <<ocupado, enlaces, directorios, archivos, meta, indice>> /\ UNCHANGED lock
  BY <1>1 DEF EscribirEnSitio, Sigue
<1>7. Unico(h.tag, h.i) /\ ~ EnIndice(b)
  BY <1>2, <1>3 DEF Fundado
<1>8. \A t \in Tags, l \in Logicos : t # h.tag => enlaces[t][l] # b
  BY <1>4, <1>7 DEF Unico
<1>9. h1 \in Hilo /\ h1.op = "WRITE" /\ h1.tag = h.tag /\ h1.pc = "guardar" /\ h.dato \in Contenidos
  BY <1>2 DEF Hilo, Pasos
<1>10. Suyos(h1) = {}
  BY <1>9 DEF Suyos
<1> HIDE DEF h1, b
<1> QED
  BY <1>1, <1>2, <1>3, <1>5, <1>6, <1>7, <1>8, <1>9, <1>10, Escritura DEF DeFuera

\* WRITE of the block it has reserved: nothing leads to it.
LEMMA EscribirNuevoReparto ==
    ASSUME TypeOK, Disciplina, Reparto, NEW w \in Workers, EscribirNuevo(w)
    PROVE  Reparto'
<1>1. PICK h \in Hilo : h = hilo[w]
  BY Hechos
<1> DEFINE b  == h.b
           h1 == [h EXCEPT !.pc = "desenlazar"]
<1>2. h.pc = "copiar" /\ h.op = "WRITE"
  BY <1>1, Hechos DEF EscribirNuevo, En, OperacionesDe
<1>3. h.tag \in Tags /\ h.tag # BASE /\ lock[h.tag] = w
  BY <1>1, <1>2, NoBase DEF DeFuera
<1>4. h.b \in Suyos(h)
  BY <1>2 DEF Suyos
<1>5. Apartado(b)
  BY <1>1, <1>4 DEF Reparto, Apartados
<1>6. b \in Bloques /\ ~ EnIndice(b) /\ \A t \in Tags, l \in Logicos : t # h.tag => enlaces[t][l] # b
  BY <1>5 DEF Apartado, Enlazado, TypeOK
<1>7. /\ hilo' = [hilo EXCEPT ![w] = h1] /\ contenido' = [contenido EXCEPT ![b] = h.dato]
      /\ UNCHANGED <<ocupado, enlaces, directorios, archivos, meta, indice>> /\ UNCHANGED lock
  BY <1>1 DEF EscribirNuevo, Sigue
<1>8. /\ h1 \in Hilo /\ h1.op = "WRITE" /\ h1.tag = h.tag /\ h1.pc = "desenlazar" /\ h1.b = h.b
      /\ h.dato \in Contenidos
  BY <1>2 DEF Hilo, Pasos
<1>9. Suyos(h1) \subseteq Suyos(h)
  BY <1>2, <1>8 DEF Suyos
<1> HIDE DEF h1, b
<1> QED
  BY <1>1, <1>2, <1>3, <1>6, <1>7, <1>8, <1>9, Escritura DEF DeFuera

\* obtener_bloque_libre hands out a block that nothing leads to.
LEMMA ReservarBloqueReparto ==
    ASSUME TypeOK, Disciplina, Reparto, NEW w \in Workers, ReservarBloque(w)
    PROVE  Reparto'
<1>1. PICK h \in Hilo : h = hilo[w]
  BY Hechos
<1>2. h.pc = "reservar" /\ h.op = "WRITE"
  BY <1>1, Hechos DEF ReservarBloque, En, OperacionesDe
<1>3. h.tag # BASE /\ Fundado(h)
  BY <1>1, <1>2, NoBase DEF DeFuera
<1>4. CASE Libres = {}
  BY <1>1, <1>2, <1>4, FinReparto DEF ReservarBloque, Respuestas, disco
<1>5. CASE Libres # {}
  <2>1. PICK p : p = PrimerLibre /\ p \in Libres /\ p \in Bloques
    BY <1>5, PrimerLibreTipo
  <2> DEFINE h1 == [h EXCEPT !.pc = "copiar", !.b = p]
  <2>2. /\ hilo' = [hilo EXCEPT ![w] = h1] /\ ocupado' = ocupado \union {p} /\ UNCHANGED lock
        /\ UNCHANGED <<contenido, enlaces, directorios, archivos, meta, indice>>
    BY <1>1, <1>5, <2>1 DEF ReservarBloque, Sigue
  <2>3. /\ h1 \in Hilo /\ h1.op = "WRITE" /\ h1.tag = h.tag /\ h1.pc = "copiar" /\ h1.b = p
    BY <1>2, <2>1 DEF Hilo, Pasos, BloqueO
  <2> HIDE DEF h1
  <2>4. p \notin ocupado /\ p # SinBloque
    BY <2>1, BloquesAssumption DEF Libres, Bloques, SinBloque
  <2>5. p # 0 /\ ~ Enlazado(p) /\ ~ EnIndice(p)
    BY <2>4 DEF Reparto, Globales, Base, EnlacesOcupados, IndiceOcupado, Enlazado, EnIndice
  <2>6. Suyos(h1) = {p}
    BY <2>3 DEF Suyos
  <2>7. Apartado(p)' /\ \A v \in Workers : p \notin Suyos(hilo[v])
    <3>1. Apartado(p)'
      BY <2>2, <2>5 DEF Apartado, Enlazado, EnIndice
    <3>2. ~ Apartado(p)
      BY <2>4 DEF Apartado
    <3> QED
      BY <3>1, <3>2 DEF Reparto, Apartados
  <2>8. \A t \in Tags, l \in Logicos : Fijo(t, l) => Fijo(t, l)'
    BY <1>1, <1>2, <2>2, FijoSigue DEF Adelanta
  <2>9. Globales'
    <3>1. EnlacesOcupados' /\ IndiceOcupado' /\ Base' /\ Ausentes'
      BY <2>2 DEF Reparto, Globales, EnlacesOcupados, IndiceOcupado, Base, Ausentes
    <3>2. Compartidas'
      <4> HIDE DEF Fijo
      <4> QED
        BY <2>2, <2>8 DEF Reparto, Globales, Compartidas, Exclusivas, EnIndice, Unico
    <3> QED
      BY <3>1, <3>2 DEF Globales
  <2>10. Fundado(h1)'
    BY <1>2, <1>3, <2>3 DEF Fundado, DeFuera
  <2>11. ASSUME NEW v \in Workers, NEW k \in Hilo, v # w, k = hilo[v]
         PROVE  /\ \A b \in Suyos(k) : Apartado(b)'
                /\ k.pc = "en_sitio" => Unico(k.tag, k.i)' /\ ~ EnIndice(k.m.blocks[k.i])'
    BY <2>2, <2>11 DEF Reparto, Apartados, Fundado, Apartado, Enlazado, EnIndice, Unico
  <2>12. \A b : EnIndice(b) => EnIndice(b)'
    BY <2>2 DEF EnIndice
  <2> HIDE DEF Globales, Fundado, Apartado, Suyos
  <2> QED
    BY <2>2, <2>3, <2>6, <2>7, <2>9, <2>10, <2>11, <2>12, Reparte
<1> QED
  BY <1>4, <1>5

\* marcar_bloque_libre frees a block that only the thread has.
LEMMA MarcarLibreReparto ==
    ASSUME TypeOK, Disciplina, Reparto, NEW w \in Workers, MarcarLibre(w)
    PROVE  Reparto'
<1>1. PICK h \in Hilo : h = hilo[w]
  BY Hechos
<1>2. h.pc = "liberar" /\ h.op \in OperacionesDe(h.pc) /\ Fundado(h)
  BY <1>1, Hechos DEF MarcarLibre, En, Reparto
<1>3. h.op \in {"DELETE", "COMMIT"} /\ h.b # 0
  BY <1>2 DEF Fundado, OperacionesDe
<1>4. h.tag # BASE /\ Indices(h)
  BY <1>1, <1>2, <1>3, NoBase DEF DeFuera
<1>5. PICK h1 : h1 = Avanza(h)
  OBVIOUS
<1>6. h1 \in Hilo /\ Fundado(h1) /\ Suyos(h1) = {} /\ Adelanta(h, h1)
  BY <1>2, <1>3, <1>4, <1>5, AvanzaReparto DEF Indices
<1>7. /\ hilo' = [hilo EXCEPT ![w] = h1] /\ ocupado' = ocupado \ {h.b} /\ UNCHANGED lock
      /\ UNCHANGED <<contenido, enlaces, directorios, archivos, meta, indice>>
  BY <1>1, <1>3, <1>5 DEF MarcarLibre, Sigue
<1>8. h.b \in Suyos(h)
  BY <1>2, <1>3 DEF Suyos
<1>9. Apartado(h.b) /\ \A v \in Workers : h.b \in Suyos(hilo[v]) => v = w
  BY <1>1, <1>8 DEF Reparto, Apartados
<1>10. \A t \in Tags, l \in Logicos : Fijo(t, l) => Fijo(t, l)'
  BY <1>1, <1>6, <1>7, FijoSigue
<1>11. Globales'
  <2>1. EnlacesOcupados' /\ IndiceOcupado'
    BY <1>7, <1>9 DEF Reparto, Globales, EnlacesOcupados, IndiceOcupado, Apartado, Enlazado, EnIndice
  <2>2. Base' /\ Ausentes'
    BY <1>3, <1>7 DEF Reparto, Globales, Base, Ausentes
  <2>3. Compartidas'
    <3> HIDE DEF Fijo
    <3> QED
      BY <1>7, <1>10 DEF Reparto, Globales, Compartidas, Exclusivas, EnIndice, Unico
  <2> QED
    BY <2>1, <2>2, <2>3 DEF Globales
<1>12. Fundado(h1)'
  BY <1>6, <1>7 DEF Fundado, EnIndice, Unico
<1>13. ASSUME NEW v \in Workers, NEW k \in Hilo, v # w, k = hilo[v]
       PROVE  /\ \A b \in Suyos(k) : Apartado(b)'
              /\ k.pc = "en_sitio" => Unico(k.tag, k.i)' /\ ~ EnIndice(k.m.blocks[k.i])'
  <2>1. \A b \in Suyos(k) : Apartado(b) /\ b # h.b
    BY <1>9, <1>13 DEF Reparto, Apartados
  <2>2. \A b \in Suyos(k) : Apartado(b)'
    BY <1>7, <2>1 DEF Apartado, Enlazado, EnIndice
  <2> QED
    BY <1>7, <1>13, <2>2 DEF Reparto, Fundado, EnIndice, Unico
<1>14. \A b : EnIndice(b) => EnIndice(b)'
  BY <1>7 DEF EnIndice
<1> HIDE DEF Globales, Fundado, Apartado, Suyos
<1> QED
  BY <1>6, <1>7, <1>11, <1>12, <1>13, <1>14, Reparte

\* guardar_hash_bloque lists a block that has one link, of a tag being COMMITED.
LEMMA GuardarHashReparto ==
    ASSUME TypeOK, Disciplina, SinCommitear, Reparto, CargaSegura, NEW w \in Workers, GuardarHash(w)
    PROVE  Reparto'
<1>1. PICK h \in Hilo : h = hilo[w]
  BY Hechos
<1>2. h.pc = "indexar" /\ h.op = "COMMIT"
  BY <1>1, Hechos DEF GuardarHash, En, OperacionesDe
<1>3. /\ h.tag \in Tags /\ h.tag # BASE /\ h.i \in Logicos /\ lock[h.tag] = w /\ h.i \in Nat
      /\ \A l \in Coinciden(h) : Coincide(h, l)
      /\ Indices(h) /\ Fundado(h)
  BY <1>1, <1>2, NoBase DEF DeFuera
<1>4. PICK h1 : h1 = Avanza(h)
  OBVIOUS
<1>5. /\ h1 \in Hilo /\ Fundado(h1) /\ Suyos(h1) = {} /\ Adelanta(h, h1) /\ h1.tag = h.tag
      /\ Pasado(h1, h.i)
  BY <1>2, <1>3, <1>4, AvanzaReparto DEF Indices
<1>6. hilo' = [hilo EXCEPT ![w] = h1] /\ UNCHANGED lock
      /\ UNCHANGED <<ocupado, contenido, enlaces, directorios, archivos, meta>>
  BY <1>1, <1>4 DEF GuardarHash, Sigue
<1>7. CASE UNCHANGED indice
  BY <1>1, <1>5, <1>6, <1>7, Quieto DEF disco
<1>8. CASE ~ UNCHANGED indice
  <2> DEFINE b == h.m.blocks[h.i]
  <2>1. indice[h.dato] = SinBloque /\ indice' = [indice EXCEPT ![h.dato] = b] /\ h.dato \in Contenidos
    BY <1>1, <1>8 DEF GuardarHash, Hilo
  <2>2. b # 0 /\ contenido[b] = h.dato
    BY <1>2, <1>3 DEF Fundado
  <2>3. enlaces[h.tag][h.i] = b /\ b # SinBloque
    <3>1. h.i \in Coinciden(h)
      BY <1>2, <1>3 DEF Coinciden, Indices
    <3> QED
      BY <1>3, <3>1 DEF Coincide
  <2>4. SinCompartir
    BY <1>2, <1>3 DEF CargaSegura, SinQuitar, Fundado
  <2> HIDE DEF b
  <2>5. meta[h.tag].estado # "COMMITED" /\ ~ Pasado(h, h.i)
    BY <1>1, <1>2, <1>3, EnSeccion DEF SinCommitear, Escritoras, DeFuera, Pasado
  <2>6. ~ EnIndice(b) /\ Unico(h.tag, h.i)
    BY <1>1, <1>3, <2>2, <2>3, <2>4, <2>5, Exclusiva
  <2>7. \A c : EnIndice(c)' => EnIndice(c) \/ c = b
    BY <2>1 DEF EnIndice, TypeOK
  <2>8. \A c : c # SinBloque /\ EnIndice(c) => EnIndice(c)'
    BY <2>1 DEF EnIndice, TypeOK
  <2>9. \A t \in Tags, l \in Logicos : Fijo(t, l) => Fijo(t, l)'
    BY <1>1, <1>5, <1>6, FijoSigue
  <2>10. Fijo(h.tag, h.i)'
    <3>1. hilo'[w] = h1
      BY <1>6 DEF TypeOK
    <3> QED
      BY <1>3, <1>5, <1>6, <3>1 DEF Fijo, Pasado
  <2>11. Globales'
    <3>1. EnlacesOcupados' /\ Base' /\ Ausentes'
      BY <1>6 DEF Reparto, Globales, EnlacesOcupados, Base, Ausentes
    <3>2. IndiceOcupado'
      <4>1. b \in ocupado
        BY <1>3, <2>3 DEF Reparto, Globales, EnlacesOcupados
      <4> QED
        BY <1>6, <2>1, <2>2, <4>1 DEF Reparto, Globales, IndiceOcupado, TypeOK
    <3>3. Exclusivas'
      <4> SUFFICES ASSUME NEW s \in Tags, NEW k \in Logicos,
                          enlaces'[s][k] \notin {SinBloque, 0}, ~ Fijo(s, k)'
                   PROVE  ~ EnIndice(enlaces[s][k])' /\ Unico(s, k)'
        BY DEF Exclusivas
      <4> HIDE DEF Fijo
      <4>1. ~ EnIndice(enlaces[s][k]) /\ Unico(s, k)
        BY <1>6, <2>4, <2>9 DEF Reparto, Globales, Compartidas, Exclusivas
      <4>2. enlaces[s][k] # b
        BY <1>3, <2>3, <2>6, <2>10 DEF Unico
      <4> QED
        BY <1>6, <2>7, <4>1, <4>2 DEF Unico
    <3> QED
      BY <2>4, <3>1, <3>2, <3>3, <1>2, <1>3 DEF Globales, Compartidas, SinQuitar, Fundado
  <2>12. Fundado(h1)'
    <3>1. h1.pc \in {"borrar", "commitear", "quitar", "guardar"} /\ h1.op = "COMMIT"
      BY <1>2, <1>3, <1>4, AvanzaHechos DEF Indices
    <3> QED
      BY <1>5, <3>1 DEF Fundado, DeFuera
  <2>13. ASSUME NEW v \in Workers, NEW k \in Hilo, v # w, k = hilo[v]
         PROVE  /\ \A c \in Suyos(k) : Apartado(c)'
                /\ k.pc = "en_sitio" => Unico(k.tag, k.i)' /\ ~ EnIndice(k.m.blocks[k.i])'
    <3>1. \A c \in Suyos(k) : Apartado(c) /\ c # b
      BY <1>3, <2>3, <2>13 DEF Reparto, Apartados, Apartado, Enlazado
    <3>2. \A c \in Suyos(k) : Apartado(c)'
      BY <1>6, <2>7, <3>1 DEF Apartado, Enlazado
    <3>3. ASSUME k.pc = "en_sitio" PROVE Unico(k.tag, k.i)' /\ ~ EnIndice(k.m.blocks[k.i])'
      <4>1. /\ k.tag \in Tags /\ lock[k.tag] = v /\ k.i \in Logicos /\ Fundado(k)
            /\ \A l \in Coinciden(k) : Coincide(k, l)
            /\ Indices(k)
        BY <2>13, <3>3, Hechos, NoBase DEF OperacionesDe, DeFuera
      <4>2. enlaces[k.tag][k.i] = k.m.blocks[k.i]
        BY <3>3, <4>1 DEF Coinciden, Indices, Coincide
      <4>3. k.tag # h.tag
        BY <1>3, <2>13, <4>1
      <4>4. Unico(k.tag, k.i) /\ ~ EnIndice(k.m.blocks[k.i])
        BY <3>3, <4>1 DEF Fundado
      <4>5. k.m.blocks[k.i] # b
        BY <1>3, <2>3, <4>1, <4>2, <4>3, <4>4 DEF Unico
      <4> QED
        BY <1>6, <2>7, <4>4, <4>5 DEF Unico
    <3> QED
      BY <3>2, <3>3
  <2>14. \A c \in Bloques : EnIndice(c) => EnIndice(c)'
    BY <2>8, BloquesAssumption DEF Bloques, SinBloque
  <2> HIDE DEF Globales, Fundado, Apartado, Suyos
  <2> QED
    BY <1>5, <1>6, <2>11, <2>12, <2>13, <2>14, Reparte
<1> QED
  BY <1>7, <1>8

\* A thread that writes in place does it on a block that its link leads to.
LEMMA EnSitioEnlazado ==
    ASSUME TypeOK, Disciplina, Reparto, NEW v \in Workers, NEW k \in Hilo, k = hilo[v], k.pc = "en_sitio"
    PROVE  /\ k.tag \in Tags /\ lock[k.tag] = v /\ k.i \in Logicos
           /\ enlaces[k.tag][k.i] = k.m.blocks[k.i] /\ k.m.blocks[k.i] \notin {SinBloque, 0}
           /\ Unico(k.tag, k.i) /\ ~ EnIndice(k.m.blocks[k.i])
<1>1. k.op # "TAG"
  BY Hechos DEF OperacionesDe
<1>2. /\ k.tag \in Tags /\ lock[k.tag] = v /\ k.i \in Logicos /\ Fundado(k)
      /\ \A l \in Coinciden(k) : Coincide(k, l)
      /\ Indices(k)
  BY <1>1, NoBase DEF DeFuera
<1>3. k.i \in Coinciden(k)
  BY <1>2 DEF Coinciden, Indices
<1>4. Coincide(k, k.i)
  BY <1>2, <1>3
<1> QED
  BY <1>2, <1>4 DEF Coincide, Fundado

\* What the other threads have or are about to write is not block 0, nor a block
\* of the index, nor one that this thread has.
LEMMA Ajeno ==
    ASSUME TypeOK, Disciplina, Reparto, NEW w \in Workers, NEW x,
           x \in {SinBloque, 0} \/ EnIndice(x) \/ x \in Suyos(hilo[w])
    PROVE  \A v \in Workers : v # w =>
              /\ x \notin Suyos(hilo[v])
              /\ hilo[v].pc = "en_sitio" => x # hilo[v].m.blocks[hilo[v].i]
<1> SUFFICES ASSUME NEW v \in Workers, v # w
             PROVE  /\ x \notin Suyos(hilo[v])
                    /\ hilo[v].pc = "en_sitio" => x # hilo[v].m.blocks[hilo[v].i]
  OBVIOUS
<1>1. \A b \in Suyos(hilo[v]) : Apartado(b) /\ b \notin Suyos(hilo[w]) /\ b # SinBloque
  BY BloquesAssumption DEF Reparto, Apartados, Apartado, TypeOK, Bloques, SinBloque
<1>2. x \notin Suyos(hilo[v])
  BY <1>1 DEF Apartado
<1>3. ASSUME hilo[v].pc = "en_sitio" PROVE x # hilo[v].m.blocks[hilo[v].i]
  <2>1. PICK k \in Hilo : k = hilo[v]
    BY DEF TypeOK
  <2>2. /\ k.tag \in Tags /\ k.i \in Logicos /\ enlaces[k.tag][k.i] = k.m.blocks[k.i]
        /\ k.m.blocks[k.i] \notin {SinBloque, 0} /\ ~ EnIndice(k.m.blocks[k.i])
    BY <1>3, <2>1, EnSitioEnlazado
  <2>3. Enlazado(k.m.blocks[k.i])
    BY <2>2 DEF Enlazado
  <2>4. x \in Suyos(hilo[w]) => ~ Enlazado(x)
    BY DEF Reparto, Apartados, Apartado
  <2> QED
    BY <2>1, <2>2, <2>3, <2>4
<1> QED
  BY <1>2, <1>3

\* A block whose only link goes is the thread's.
LEMMA Desligado ==
    ASSUME TypeOK, Reparto, NEW t \in Tags, NEW l \in Logicos, NEW b, b = enlaces[t][l],
           b \notin {SinBloque, 0}, ~ EnIndice(b), Unico(t, l),
           enlaces' = [enlaces EXCEPT ![t][l] = SinBloque], UNCHANGED <<ocupado, indice>>
    PROVE  Apartado(b)' /\ \A v \in Workers : b \notin Suyos(hilo[v])
<1>1. \A s \in Tags, k \in Logicos :
         enlaces'[s][k] = IF s = t /\ k = l THEN SinBloque ELSE enlaces[s][k]
  BY DEF TypeOK
<1>2. b \in ocupado /\ Enlazado(b)
  BY DEF Reparto, Globales, EnlacesOcupados, Enlazado
<1>3. ~ Enlazado(b)'
  BY <1>1 DEF Enlazado, Unico
<1>4. Apartado(b)'
  BY <1>2, <1>3 DEF Apartado, EnIndice
<1>5. \A v \in Workers : b \notin Suyos(hilo[v])
  BY <1>2 DEF Reparto, Apartados, Apartado
<1> QED
  BY <1>4, <1>5

\* unlink of the logical block, in WRITE and in COMMIT.
LEMMA DesenlazarReparto ==
    ASSUME TypeOK, Disciplina, SinCommitear, Reparto, CargaSegura, NEW w \in Workers, Desenlazar(w)
    PROVE  Reparto'
<1>1. PICK h \in Hilo : h = hilo[w]
  BY Hechos
<1> DEFINE b  == h.m.blocks[h.i]
           h1 == [h EXCEPT !.pc = "enlazar"]
<1>2. h.pc = "desenlazar" /\ h.op \in {"WRITE", "COMMIT"}
  BY <1>1, Hechos DEF Desenlazar, En, OperacionesDe
<1>3. /\ h.tag \in Tags /\ h.tag # BASE /\ h.i \in Logicos /\ lock[h.tag] = w
      /\ \A l \in Coinciden(h) : Coincide(h, l)
      /\ Indices(h) /\ Fundado(h)
  BY <1>1, <1>2, NoBase DEF DeFuera
<1>4. b # SinBloque /\ enlaces[h.tag][h.i] = b
  <2>1. h.i \in Coinciden(h)
    BY <1>2, <1>3 DEF Coinciden, Indices
  <2> QED
    BY <1>3, <2>1 DEF Coincide
<1>5. /\ hilo' = [hilo EXCEPT ![w] = h1] /\ enlaces' = [enlaces EXCEPT ![h.tag][h.i] = SinBloque]
      /\ UNCHANGED <<ocupado, contenido, directorios, archivos, meta, indice>> /\ UNCHANGED lock
  BY <1>1, <1>4 DEF Desenlazar, Sigue
<1>6. /\ h1 \in Hilo /\ h1.op = h.op /\ h1.tag = h.tag /\ h1.pc = "enlazar" /\ h1.b = h.b
      /\ h1.m = h.m /\ h1.i = h.i
  BY DEF Hilo, Pasos
<1> HIDE DEF h1
<1>7. Fundado(h1)'
  BY <1>2, <1>3, <1>5, <1>6 DEF Fundado, DeFuera, EnIndice
<1>8. Adelanta(h, h1)
  BY <1>2, <1>6 DEF Adelanta, Pasado
<1>9. \A c \in Suyos(h1) : Apartado(c)' /\ \A v \in Workers : c \in Suyos(hilo[v]) => v = w
  <2>1. CASE h.op = "WRITE"
    <3>1. Suyos(h1) = {h.b} /\ Suyos(h) = {h.b}
      BY <1>2, <1>6, <2>1 DEF Suyos
    <3>2. Apartado(h.b) /\ \A v \in Workers : h.b \in Suyos(hilo[v]) => v = w
      BY <1>1, <3>1 DEF Reparto, Apartados
    <3>3. Enlazado(h.b)' => Enlazado(h.b)
      <4>1. h.b # SinBloque
        BY <3>2, BloquesAssumption DEF Apartado, TypeOK, Bloques, SinBloque
      <4> QED
        BY <1>5, <4>1 DEF Enlazado, TypeOK
    <3>4. Apartado(h.b)'
      BY <1>5, <3>2, <3>3 DEF Apartado, EnIndice
    <3> QED
      BY <3>1, <3>2, <3>4
  <2>2. CASE h.op = "COMMIT"
    <3>1. Suyos(h1) = {b} /\ b # 0
      BY <1>2, <1>3, <1>6, <2>2 DEF Suyos, Fundado
    <3>2. SinCompartir
      BY <1>3, <2>2 DEF CargaSegura, SinQuitar, Fundado
    <3>3. meta[h.tag].estado # "COMMITED" /\ ~ Pasado(h, h.i)
      <4>1. Escribe(h)
        BY <1>1, <1>2, <2>2, EnSeccion DEF Escritoras, DeFuera
      <4> QED
        BY <1>1, <1>2, <1>3, <4>1 DEF SinCommitear, Pasado, Logicos
    <3> HIDE DEF b
    <3>4. ~ EnIndice(b) /\ Unico(h.tag, h.i)
      BY <1>1, <1>3, <1>4, <3>1, <3>2, <3>3, Exclusiva
    <3>5. Apartado(b)' /\ \A v \in Workers : b \notin Suyos(hilo[v])
      BY <1>3, <1>4, <1>5, <3>1, <3>4, Desligado
    <3> QED
      BY <3>1, <3>5
  <2> QED
    BY <1>2, <2>1, <2>2
<1>10. \A v \in Workers : v # w =>
              /\ SinBloque \notin Suyos(hilo[v])
              /\ hilo[v].pc = "en_sitio" => SinBloque # hilo[v].m.blocks[hilo[v].i]
  BY Ajeno
<1>11. SinBloque \in BloqueO
  BY DEF BloqueO
<1> QED
  BY <1>1, <1>3, <1>5, <1>6, <1>7, <1>8, <1>9, <1>10, <1>11, Enlace

\* link of the logical block: WRITE to the block it reserved, COMMIT to one of the
\* index; the block that COMMIT leaves stays its own.
LEMMA EnlazarReparto ==
    ASSUME TypeOK, Disciplina, Reparto, NEW w \in Workers, Enlazar(w)
    PROVE  Reparto'
<1>1. PICK h \in Hilo : h = hilo[w]
  BY Hechos
<1> DEFINE b == h.m.blocks[h.i]
           x == h.b
<1>2. h.pc = "enlazar" /\ h.op \in {"WRITE", "COMMIT"}
  BY <1>1, Hechos DEF Enlazar, En, OperacionesDe
<1>3. /\ h.tag \in Tags /\ h.tag # BASE /\ h.i \in Logicos /\ lock[h.tag] = w
      /\ Listados(h) /\ Fundado(h)
  BY <1>1, <1>2, NoBase DEF DeFuera
<1>4. x \in Bloques /\ x \in BloqueO /\ x # SinBloque
  BY <1>2, <1>3 DEF Listados, Hilo, BloqueO
<1>5. PICK h1 : h1 = IF h.op = "WRITE" THEN [Reasignada(h) EXCEPT !.pc = "guardar"]
                     ELSE [Reasignada(h) EXCEPT !.pc = "contar", !.b = b]
  OBVIOUS
<1>6. /\ hilo' = [hilo EXCEPT ![w] = h1] /\ enlaces' = [enlaces EXCEPT ![h.tag][h.i] = x]
      /\ UNCHANGED <<ocupado, contenido, directorios, archivos, meta, indice>> /\ UNCHANGED lock
  BY <1>1, <1>5 DEF Enlazar, Sigue
<1>7. /\ h1 \in Hilo /\ h1.op = h.op /\ h1.tag = h.tag /\ h1.i = h.i
      /\ h.op = "WRITE" => h1.pc = "guardar"
      /\ h.op = "COMMIT" => h1.pc = "contar" /\ h1.b = b
  <2>1. PICK m \in Metadata : Reasignada(h) = [h EXCEPT !.m = m]
    <3>1. [h.m EXCEPT !.blocks[h.i] = x] \in Metadata
      BY <1>3, <1>4 DEF Hilo, Metadata
    <3> QED
      BY <3>1 DEF Reasignada
  <2>2. b \in BloqueO
    BY <1>3 DEF Hilo, Metadata
  <2> HIDE DEF b
  <2>3. h1 = IF h.op = "WRITE" THEN [h EXCEPT !.m = m, !.pc = "guardar"]
             ELSE [h EXCEPT !.m = m, !.pc = "contar", !.b = b]
    BY <1>5, <2>1 DEF Hilo
  <2>4. CASE h.op = "WRITE"
    BY <2>1, <2>3, <2>4 DEF Hilo, Pasos
  <2>5. CASE h.op = "COMMIT"
    BY <2>1, <2>2, <2>3, <2>5 DEF Hilo, Pasos
  <2> QED
    BY <1>2, <2>4, <2>5
<1>8. Fundado(h1)'
  BY <1>2, <1>3, <1>7 DEF Fundado, DeFuera
<1>9. Adelanta(h, h1)
  BY <1>2, <1>7 DEF Adelanta, Pasado
<1>10. \A c : c # x /\ Apartado(c) => Apartado(c)'
  BY <1>6 DEF Apartado, Enlazado, EnIndice, TypeOK
<1>11. CASE h.op = "WRITE"
  <2>1. Suyos(h) = {x} /\ Suyos(h1) = {}
    BY <1>2, <1>7, <1>11 DEF Suyos
  <2>2. Apartado(x)
    BY <1>1, <2>1 DEF Reparto, Apartados
  <2>3. \A v \in Workers : v # w =>
              /\ x \notin Suyos(hilo[v])
              /\ hilo[v].pc = "en_sitio" => x # hilo[v].m.blocks[hilo[v].i]
    BY <1>1, <2>1, Ajeno
  <2>4. x \in ocupado /\ ~ Enlazado(x) /\ ~ EnIndice(x)
    BY <2>2 DEF Apartado
  <2> HIDE DEF x
  <2> QED
    BY <1>1, <1>3, <1>4, <1>6, <1>7, <1>8, <1>9, <2>1, <2>3, <2>4, Enlace
<1>12. CASE h.op = "COMMIT"
  <2>1. Suyos(h) = {b} /\ Suyos(h1) \subseteq {b}
    BY <1>2, <1>7, <1>12 DEF Suyos
  <2>2. Apartado(b) /\ \A v \in Workers : b \in Suyos(hilo[v]) => v = w
    BY <1>1, <2>1 DEF Reparto, Apartados
  <2>3. EnIndice(x)
    BY <1>2, <1>3, <1>12 DEF Fundado
  <2>4. x \in ocupado
    BY <1>4, <2>3 DEF EnIndice, Reparto, Globales, IndiceOcupado
  <2>5. b # x
    BY <2>2, <2>3 DEF Apartado
  <2>6. \A v \in Workers : v # w =>
              /\ x \notin Suyos(hilo[v])
              /\ hilo[v].pc = "en_sitio" => x # hilo[v].m.blocks[hilo[v].i]
    BY <2>3, Ajeno
  <2>7. Fijo(h.tag, h.i)'
    <3>1. hilo'[w] = h1
      BY <1>6 DEF TypeOK
    <3> QED
      BY <1>3, <1>6, <1>7, <1>12, <3>1 DEF Fijo, Pasado
  <2>8. \A c \in Suyos(h1) : Apartado(c)' /\ \A v \in Workers : c \in Suyos(hilo[v]) => v = w
    BY <1>10, <2>1, <2>2, <2>5
  <2> HIDE DEF x, b
  <2> QED
    BY <1>1, <1>3, <1>4, <1>6, <1>7, <1>8, <1>9, <2>3, <2>4, <2>6, <2>7, <2>8, Enlace
<1> QED
  BY <1>2, <1>11, <1>12

\* TRUNCATE links a new logical block to physical block 0.
LEMMA AgrandarReparto ==
    ASSUME TypeOK, Disciplina, Reparto, NEW w \in Workers, Agrandar(w)
    PROVE  Reparto'
<1>1. PICK h \in Hilo : h = hilo[w]
  BY Hechos
<1>2. h.pc = "agrandar" /\ h.op = "TRUNCATE"
  BY <1>1, Hechos DEF Agrandar, En, OperacionesDe
<1>3. /\ h.tag \in Tags /\ h.tag # BASE /\ h.i \in Logicos /\ lock[h.tag] = w
      /\ Indices(h) /\ Fundado(h) /\ h.m \in Metadata /\ h.i \in Nat
  BY <1>1, <1>2, NoBase DEF DeFuera
<1> DEFINE m  == [h.m EXCEPT !.blocks[h.i] = 0]
           r  == Redimensionada(m, h.arg)
           h1 == IF h.i + 1 < Necesarios(h.arg) THEN [h EXCEPT !.m = m, !.i = h.i + 1]
                 ELSE [h EXCEPT !.m = r, !.pc = "guardar"]
<1>4. /\ hilo' = [hilo EXCEPT ![w] = h1] /\ enlaces' = [enlaces EXCEPT ![h.tag][h.i] = 0]
      /\ UNCHANGED <<ocupado, contenido, directorios, archivos, meta, indice>> /\ UNCHANGED lock
  BY <1>1 DEF Agrandar, Sigue
<1>5. h1 \in Hilo /\ h1.op = "TRUNCATE" /\ h1.tag = h.tag /\ h1.pc \in {"agrandar", "guardar"}
  <2>1. h.arg \in Tamanios \union {0} /\ Necesarios(h.arg) \in 0 .. MaxLogicos
    BY TamaniosAssumption DEF Hilo
  <2>2. m \in Metadata
    BY <1>3, Tipos DEF Metadata, BloqueO
  <2>3. r \in Metadata
    <3> HIDE DEF m
    <3> QED
      BY <2>1, <2>2, RedimensionadaTipo
  <2>4. h.i + 1 < Necesarios(h.arg) => h.i + 1 \in Logicos
    BY <1>3, <2>1, LogicosAssumption DEF Logicos
  <2> HIDE DEF m, r
  <2>5. CASE h.i + 1 < Necesarios(h.arg)
    BY <1>2, <2>2, <2>4, <2>5 DEF Hilo
  <2>6. CASE ~ (h.i + 1 < Necesarios(h.arg))
    BY <1>2, <2>3, <2>6 DEF Hilo, Pasos
  <2> QED
    BY <2>5, <2>6
<1> HIDE DEF h1
<1>6. Fundado(h1)'
  BY <1>3, <1>2, <1>5 DEF Fundado, DeFuera
<1>7. Suyos(h1) = {} /\ Adelanta(h, h1)
  BY <1>2, <1>5 DEF Suyos, Adelanta
<1>8. 0 \in ocupado /\ 0 \in BloqueO
  BY Tipos DEF Reparto, Globales, Base, BloqueO
<1>9. \A v \in Workers : v # w =>
              /\ 0 \notin Suyos(hilo[v])
              /\ hilo[v].pc = "en_sitio" => 0 # hilo[v].m.blocks[hilo[v].i]
  BY Ajeno
<1> QED
  BY <1>1, <1>3, <1>4, <1>5, <1>6, <1>7, <1>8, <1>9, Enlace

\* TRUNCATE unlinks a logical block: it counts its references before, so it never
\* finds it out of use.
LEMMA AchicarReparto ==
    ASSUME TypeOK, Disciplina, Reparto, NEW w \in Workers, Achicar(w)
    PROVE  Reparto'
<1>1. PICK h \in Hilo : h = hilo[w]
  BY Hechos
<1>2. h.pc = "achicar" /\ h.op = "TRUNCATE"
  BY <1>1, Hechos DEF Achicar, En, OperacionesDe
<1>3. /\ h.tag \in Tags /\ h.tag # BASE /\ h.i \in Logicos /\ lock[h.tag] = w /\ h.i \in Nat
      /\ Indices(h) /\ Fundado(h) /\ \A l \in Coinciden(h) : Coincide(h, l)
  BY <1>1, <1>2, NoBase DEF DeFuera
<1>4. enlaces[h.tag][h.i] = h.m.blocks[h.i]
  <2>1. h.i \in Coinciden(h)
    BY <1>2, <1>3 DEF Coinciden
  <2> QED
    BY <1>3, <2>1 DEF Coincide
<1>5. Referencias(h.m.blocks[h.i]) # 1
  <2>1. Referencias(enlaces[h.tag][h.i]) > 1
    BY <1>3, EnlazadoCuenta
  <2> QED
    BY <1>4, <2>1
<1>6. PICK h1 : h1 = SiguienteAchicar(h)
  OBVIOUS
<1>7. /\ hilo' = [hilo EXCEPT ![w] = h1] /\ enlaces' = [enlaces EXCEPT ![h.tag][h.i] = SinBloque]
      /\ UNCHANGED <<ocupado, contenido, directorios, archivos, meta, indice>> /\ UNCHANGED lock
  BY <1>1, <1>5, <1>6 DEF Achicar, Sigue
<1>8. h1 \in Hilo /\ h1.op = "TRUNCATE" /\ h1.tag = h.tag /\ h1.pc \in {"achicar", "guardar"}
  <2>1. Necesarios(h.arg) <= h.i /\ h.i < h.m.n
    BY <1>2, <1>3 DEF Indices
  <2> QED
    BY <1>2, <1>6, <2>1, AchicarHechos
<1>9. Fundado(h1)'
  BY <1>3, <1>2, <1>8 DEF Fundado, DeFuera
<1>10. Suyos(h1) = {} /\ Adelanta(h, h1)
  BY <1>2, <1>8 DEF Suyos, Adelanta
<1>11. SinBloque \in BloqueO
  BY DEF BloqueO
<1>12. \A v \in Workers : v # w =>
              /\ SinBloque \notin Suyos(hilo[v])
              /\ hilo[v].pc = "en_sitio" => SinBloque # hilo[v].m.blocks[hilo[v].i]
  BY Ajeno
<1> QED
  BY <1>1, <1>3, <1>7, <1>8, <1>9, <1>10, <1>11, <1>12, Enlace

\* DELETE unlinks a logical block of a tag that is not COMMITED: no other link
\* leads to its block.
LEMMA BorrarEnlaceReparto ==
    ASSUME TypeOK, Disciplina, Reparto, CargaSegura, NEW w \in Workers, BorrarEnlace(w)
    PROVE  Reparto'
<1>1. PICK h \in Hilo : h = hilo[w]
  BY Hechos
<1> DEFINE b  == h.m.blocks[h.i]
           h1 == [h EXCEPT !.pc = "contar", !.b = b]
<1>2. h.pc = "borrar" /\ h.op = "DELETE"
  BY <1>1, Hechos DEF BorrarEnlace, En, OperacionesDe
<1>3. /\ h.tag \in Tags /\ h.tag # BASE /\ h.i \in Logicos /\ lock[h.tag] = w /\ h.i \in Nat
      /\ Indices(h) /\ Fundado(h) /\ \A l \in Coinciden(h) : Coincide(h, l)
  BY <1>1, <1>2, NoBase DEF DeFuera
<1>4. b # SinBloque /\ enlaces[h.tag][h.i] = b
  <2>1. h.i \in Coinciden(h)
    BY <1>2, <1>3 DEF Coinciden, Indices
  <2> QED
    BY <1>3, <2>1 DEF Coincide
<1>5. /\ hilo' = [hilo EXCEPT ![w] = h1] /\ enlaces' = [enlaces EXCEPT ![h.tag][h.i] = SinBloque]
      /\ UNCHANGED <<ocupado, contenido, directorios, archivos, meta, indice>> /\ UNCHANGED lock
  BY <1>1, <1>4 DEF BorrarEnlace, Sigue
<1>6. h1 \in Hilo /\ h1.op = "DELETE" /\ h1.tag = h.tag /\ h1.pc = "contar" /\ h1.b = b
  <2>1. b \in BloqueO
    BY <1>3 DEF Hilo, Metadata
  <2> HIDE DEF b
  <2> QED
    BY <1>2, <2>1 DEF Hilo, Pasos
<1> HIDE DEF h1
<1>7. Fundado(h1)'
  BY <1>2, <1>3, <1>5, <1>6 DEF Fundado, DeFuera
<1>8. Suyos(h1) = {b} \ {0} /\ Adelanta(h, h1)
  BY <1>2, <1>6 DEF Suyos, Adelanta
<1>9. ASSUME b # 0 PROVE Apartado(b)' /\ \A v \in Workers : b \notin Suyos(hilo[v])
  <2>1. SinCompartir /\ ~ BorraCommited
    BY <1>2, <1>3 DEF CargaSegura, SinQuitar, SinCompartir, Fundado
  <2>2. meta[h.tag].estado # "COMMITED" /\ ~ Pasado(h, h.i)
    BY <1>2, <1>3, <2>1 DEF Fundado, Pasado
  <2> HIDE DEF b
  <2>3. ~ EnIndice(b) /\ Unico(h.tag, h.i)
    BY <1>1, <1>3, <1>4, <1>9, <2>1, <2>2, Exclusiva
  <2> QED
    BY <1>3, <1>4, <1>5, <1>9, <2>3, Desligado
<1>10. SinBloque \in BloqueO
  BY DEF BloqueO
<1>11. \A v \in Workers : v # w =>
              /\ SinBloque \notin Suyos(hilo[v])
              /\ hilo[v].pc = "en_sitio" => SinBloque # hilo[v].m.blocks[hilo[v].i]
  BY Ajeno
<1>12. \A c \in Suyos(h1) : Apartado(c)' /\ \A v \in Workers : c \in Suyos(hilo[v]) => v = w
  BY <1>8, <1>9
<1> HIDE DEF b
<1> QED
  BY ZenonT(60), <1>1, <1>3, <1>5, <1>6, <1>7, <1>8, <1>10, <1>11, <1>12, Enlace

\* TAG links a logical block of the new tag to the block of the origin.
LEMMA CopiarEnlaceReparto ==
    ASSUME TypeOK, Disciplina, Reparto, NEW w \in Workers, CopiarEnlace(w)
    PROVE  Reparto'
<1>1. PICK h \in Hilo : h = hilo[w]
  BY Hechos
<1>2. h.pc = "copiar_enlace" /\ h.op = "TAG" /\ Indices(h) /\ EnOrden(h)
  BY <1>1, Hechos DEF CopiarEnlace, En, OperacionesDe
<1>3. Fundado(h) /\ h.tag \in Tags /\ h.orig \in Tags /\ h.i \in Logicos
  BY <1>1 DEF Reparto, Hilo
<1>4. Posee(h) = {h.orig, h.tag}
  BY <1>2 DEF Posee
<1>5. lock[h.tag] = w /\ lock[h.orig] = w
  BY <1>1, <1>3, <1>4, Hechos
<1>6. CASE enlaces[h.tag][h.i] # SinBloque
  BY <1>1, <1>2, <1>6, FinReparto DEF CopiarEnlace, Respuestas, disco
<1>7. CASE enlaces[h.tag][h.i] = SinBloque
  <2> DEFINE x == h.m.blocks[h.i]
  <2>1. PICK h1 : h1 = IF h.i + 1 < h.m.n THEN [h EXCEPT !.i = h.i + 1]
                       ELSE [h EXCEPT !.pc = "guardar"]
    OBVIOUS
  <2>2. /\ hilo' = [hilo EXCEPT ![w] = h1] /\ enlaces' = [enlaces EXCEPT ![h.tag][h.i] = x]
        /\ UNCHANGED <<ocupado, contenido, directorios, archivos, meta, indice>> /\ UNCHANGED lock
    BY <1>1, <1>7, <2>1 DEF CopiarEnlace, Sigue
  <2>3. /\ h1 \in Hilo /\ h1.op = "TAG" /\ h1.tag = h.tag /\ h1.orig = h.orig /\ h1.m = h.m
        /\ h1.pc \in {"copiar_enlace", "guardar"}
    <3>1. h.i + 1 < h.m.n => h.i + 1 \in Logicos
      BY <1>3, LogicosAssumption DEF Hilo, Metadata, Logicos
    <3>2. CASE h.i + 1 < h.m.n
      BY <1>2, <2>1, <3>1, <3>2 DEF Hilo
    <3>3. CASE ~ (h.i + 1 < h.m.n)
      BY <1>2, <2>1, <3>3 DEF Hilo, Pasos
    <3> QED
      BY <3>2, <3>3
  <2>4. Fundado(h1)'
    BY <1>2, <1>3, <2>2, <2>3 DEF Fundado, DeFuera
  <2>5. Suyos(h1) = {} /\ Adelanta(h, h1)
    BY <1>2, <2>3 DEF Suyos, Adelanta
  <2>6. x # SinBloque /\ enlaces[h.orig][h.i] = x
    <3>1. h.i < meta[h.orig].n /\ meta[h.orig].blocks[h.i] = x
      BY <1>2, <1>3 DEF Fundado, Indices
    <3>2. Entera(h.orig)
      BY <1>2 DEF EnOrden
    <3> QED
      BY <1>3, <3>1, <3>2 DEF Entera
  <2>7. x \in ocupado /\ Enlazado(x) /\ x \in BloqueO
    BY <1>3, <2>6 DEF Reparto, Globales, EnlacesOcupados, Enlazado, Hilo, Metadata
  <2> HIDE DEF x
  <2>8. ASSUME NEW v \in Workers, v # w
        PROVE  /\ x \notin Suyos(hilo[v])
               /\ hilo[v].pc = "en_sitio" => x # hilo[v].m.blocks[hilo[v].i]
    <3>1. x \notin Suyos(hilo[v])
      BY <2>7 DEF Reparto, Apartados, Apartado
    <3>2. PICK k \in Hilo : k = hilo[v]
      BY DEF TypeOK
    <3>3. ASSUME k.pc = "en_sitio" PROVE x # k.m.blocks[k.i]
      <4>1. k.tag \in Tags /\ lock[k.tag] = v /\ k.i \in Logicos
            /\ enlaces[k.tag][k.i] = k.m.blocks[k.i] /\ Unico(k.tag, k.i)
        BY <3>2, <3>3, EnSitioEnlazado
      <4>2. k.tag # h.orig
        BY <1>5, <2>8, <4>1
      <4> QED
        BY <1>3, <2>6, <4>1, <4>2 DEF Unico
    <3> QED
      BY <3>1, <3>2, <3>3
  <2>9. ~ SinCompartir /\ h.tag # BASE
    BY <1>2, <1>3 DEF SinCompartir, Fundado, DeFuera
  <2> QED
    BY <1>1, <1>3, <1>5, <2>2, <2>3, <2>4, <2>5, <2>7, <2>8, <2>9, Enlace
<1> QED
  BY <1>6, <1>7

\* A step that writes the metadata of one tag, and does not undo its COMMIT.
LEMMA Metadatos ==
    ASSUME TypeOK, Disciplina, Reparto, NEW w \in Workers, NEW h1 \in Hilo,
           NEW t \in Tags, NEW m \in Metadata,
           hilo' = [hilo EXCEPT ![w] = h1], lock[t] \in {w, Nadie}, t # BASE,
           meta' = [meta EXCEPT ![t] = m],
           UNCHANGED <<ocupado, contenido, enlaces, indice>>,
           \A s \in Tags : lock[s] \notin {w, Nadie} => lock'[s] = lock[s],
           BASE \in archivos' /\ BASE \in directorios', Ausentes',
           Suyos(h1) = {}, Fundado(h1)',
           hilo[w].op = "COMMIT" => hilo[w].tag = t,
           SinCompartir =>
              (meta[t].estado = "COMMITED" \/ hilo[w].op = "COMMIT" => m.estado = "COMMITED")
    PROVE  Reparto'
<1>1. hilo'[w] = h1 /\ \A v \in Workers : v # w => hilo'[v] = hilo[v]
  BY DEF TypeOK
<1>2. meta'[t] = m /\ \A s \in Tags : s # t => meta'[s] = meta[s]
  BY DEF TypeOK
<1>3. ASSUME SinCompartir, NEW s \in Tags, NEW l \in Logicos, Fijo(s, l) PROVE Fijo(s, l)'
  <2>1. CASE meta[s].estado = "COMMITED"
    BY <1>2, <1>3, <2>1 DEF Fijo
  <2>2. CASE \E v \in Workers : lock[s] = v /\ hilo[v].tag = s /\ Pasado(hilo[v], l)
    <3>1. PICK v \in Workers : lock[s] = v /\ hilo[v].tag = s /\ Pasado(hilo[v], l)
      BY <2>2
    <3>2. CASE v = w
      BY <1>2, <1>3, <3>1, <3>2 DEF Pasado, Fijo
    <3>3. CASE v # w
      <4>1. lock'[s] = v /\ hilo'[v].tag = s /\ Pasado(hilo'[v], l)
        BY <1>1, <3>1, <3>3, WorkersAssumption
      <4> QED
        BY <4>1 DEF Fijo, Pasado
    <3> QED
      BY <3>2, <3>3
  <2> QED
    BY <1>3, <2>1, <2>2 DEF Fijo
<1>4. Globales'
  <2>1. EnlacesOcupados' /\ IndiceOcupado'
    BY DEF Reparto, Globales, EnlacesOcupados, IndiceOcupado
  <2>2. Base'
    BY <1>2, TagsAssumption DEF Reparto, Globales, Base
  <2>3. Compartidas'
    <3> HIDE DEF Fijo
    <3> QED
      BY <1>3 DEF Reparto, Globales, Compartidas, Exclusivas, EnIndice, Unico
  <2> QED
    BY <2>1, <2>2, <2>3 DEF Globales
<1>5. \A s \in Tags : lock[s] \notin {w, Nadie} => meta'[s] = meta[s]
  BY <1>2
<1>6. \A b \in Bloques : EnIndice(b) => EnIndice(b)'
  BY DEF EnIndice
<1> HIDE DEF Globales, Fundado, Apartado, Suyos
<1> QED
  BY <1>4, <1>5, <1>6, AjenosIgual, Reparte

\* CREATE and TAG create a tag that has no directory, so no metadata.config that
\* said COMMITED.
LEMMA CrearReparto ==
    ASSUME TypeOK, Disciplina, SinCommitear, Reparto, NEW w \in Workers, NEW h1 \in Hilo,
           NEW t \in Tags, lock[t] = Nadie, CrearTag(t), hilo' = [hilo EXCEPT ![w] = h1],
           \A s \in Tags : lock[s] \notin {w, Nadie} => lock'[s] = lock[s],
           Suyos(h1) = {}, Fundado(h1)', hilo[w].op # "COMMIT"
    PROVE  Reparto'
<1>1. t # BASE /\ t \notin archivos
  BY DEF CrearTag, SinCommitear, Reparto, Globales, Base
<1>2. meta[t] = MetaVacia /\ MetaVacia \in Metadata
  BY <1>1, Tipos DEF Reparto, Globales, Ausentes
<1>3. /\ meta' = [meta EXCEPT ![t] = MetaVacia] /\ archivos' = archivos \union {t}
      /\ directorios' = directorios \union {t} /\ UNCHANGED <<ocupado, contenido, enlaces, indice>>
  BY DEF CrearTag
<1>4. Ausentes'
  BY <1>3 DEF Reparto, Globales, Ausentes, TypeOK
<1>5. BASE \in archivos' /\ BASE \in directorios'
  BY <1>3 DEF Reparto, Globales, Base
<1> HIDE DEF Ausentes, Fundado
<1> QED
  BY <1>1, <1>2, <1>3, <1>4, <1>5, Metadatos

LEMMA CreateReparto ==
    ASSUME TypeOK, Disciplina, SinCommitear, Reparto, NEW w \in Workers, NEW t \in Tags, Create(w, t)
    PROVE  Reparto'
<1>1. En(w, "ocioso") /\ lock[t] = Nadie
  BY DEF Create, Pide
<1>2. CASE Fin(w, "preexistente") /\ UNCHANGED disco
  BY <1>1, <1>2, RechazoReparto DEF Respuestas
<1>3. CASE CrearTag(t) /\ Fin(w, "ok")
  <2> DEFINE h1 == [Ocioso EXCEPT !.pc = "responder", !.res = "ok"]
  <2>1. h1 \in Hilo /\ h1.pc = "responder" /\ h1.op = "ninguna"
    BY Tipos DEF Hilo, Pasos, Ocioso, Respuestas
  <2>2. hilo' = [hilo EXCEPT ![w] = h1] /\ \A s \in Tags : lock[s] \notin {w, Nadie} => lock'[s] = lock[s]
    BY <1>3 DEF Fin
  <2> HIDE DEF h1
  <2>3. Suyos(h1) = {} /\ Fundado(h1)'
    BY <2>1 DEF Suyos, Fundado, DeFuera
  <2>4. hilo[w].op # "COMMIT"
    BY <1>1 DEF Reparto, Fundado, En, DeFuera
  <2> QED
    BY <1>1, <1>3, <2>1, <2>2, <2>3, <2>4, CrearReparto
<1> QED
  BY <1>2, <1>3 DEF Create

LEMMA CrearDestinoReparto ==
    ASSUME TypeOK, Disciplina, SinCommitear, Reparto, NEW w \in Workers, CrearDestino(w)
    PROVE  Reparto'
<1>1. PICK h \in Hilo : h = hilo[w]
  BY Hechos
<1>2. h.pc = "crear_destino" /\ h.op = "TAG" /\ EnOrden(h) /\ Fundado(h)
  BY <1>1, Hechos DEF CrearDestino, En, OperacionesDe, Reparto
<1>3. h.tag \in Tags /\ h.orig \in Tags /\ lock[h.tag] = Nadie
  BY <1>1 DEF CrearDestino, Hilo
<1>4. CASE Fin(w, "preexistente") /\ UNCHANGED disco
  BY <1>1, <1>2, <1>4, FinReparto DEF Respuestas
<1>5. CASE CrearTag(h.tag) /\ Sigue(w, [h EXCEPT !.pc = "tomar_destino"])
  <2> DEFINE h1 == [h EXCEPT !.pc = "tomar_destino"]
  <2>1. /\ h1 \in Hilo /\ h1.pc = "tomar_destino" /\ h1.op = "TAG" /\ h1.tag = h.tag
        /\ h1.orig = h.orig /\ h1.m = h.m
    BY <1>2 DEF Hilo, Pasos
  <2>2. hilo' = [hilo EXCEPT ![w] = h1] /\ UNCHANGED lock
    BY <1>5 DEF Sigue
  <2> HIDE DEF h1
  <2>3. h.orig # h.tag /\ h.tag # BASE
    BY <1>2, <1>5 DEF EnOrden, CrearTag, SinCommitear, Reparto, Globales, Base
  <2>4. meta'[h.orig] = meta[h.orig]
    BY <1>3, <1>5, <2>3 DEF CrearTag, TypeOK
  <2>5. Fundado(h1)'
    BY <1>2, <2>1, <2>3, <2>4 DEF Fundado, DeFuera
  <2>6. Suyos(h1) = {}
    BY <2>1 DEF Suyos
  <2> QED
    BY <1>1, <1>2, <1>3, <1>5, <2>1, <2>2, <2>5, <2>6, CrearReparto
<1> QED
  BY <1>1, <1>4, <1>5 DEF CrearDestino

\* DELETE takes away the metadata.config of a tag that is not COMMITED.
LEMMA QuitarTagReparto ==
    ASSUME TypeOK, Disciplina, Reparto, CargaSegura, NEW w \in Workers, QuitarTag(w)
    PROVE  Reparto'
<1>1. PICK h \in Hilo : h = hilo[w]
  BY Hechos
<1>2. h.pc = "quitar" /\ h.op = "DELETE"
  BY <1>1, Hechos DEF QuitarTag, En, OperacionesDe
<1>3. h.tag \in Tags /\ h.tag # BASE /\ lock[h.tag] = w /\ Fundado(h)
  BY <1>1, <1>2, NoBase DEF DeFuera
<1>4. meta[h.tag].estado # "COMMITED"
  BY <1>2, <1>3 DEF CargaSegura, SinQuitar, SinCompartir, Fundado
<1>5. PICK r \in Respuestas : Fin(w, r)
  BY <1>1 DEF QuitarTag, Respuestas
<1> DEFINE h1 == [Ocioso EXCEPT !.pc = "responder", !.res = r]
<1>6. h1 \in Hilo /\ h1.pc = "responder" /\ h1.op = "ninguna"
  BY Tipos DEF Hilo, Pasos, Ocioso
<1>7. hilo' = [hilo EXCEPT ![w] = h1] /\ \A s \in Tags : lock[s] \notin {w, Nadie} => lock'[s] = lock[s]
  BY <1>5 DEF Fin
<1> HIDE DEF h1
<1>8. Suyos(h1) = {} /\ Fundado(h1)'
  BY <1>6 DEF Suyos, Fundado, DeFuera
<1>9. /\ meta' = [meta EXCEPT ![h.tag] = MetaVacia] /\ archivos' = archivos \ {h.tag}
      /\ directorios' \in {directorios, directorios \ {h.tag}}
      /\ UNCHANGED <<ocupado, contenido, enlaces, indice>> /\ MetaVacia \in Metadata
  BY <1>1, Tipos DEF QuitarTag
<1>10. Ausentes' /\ BASE \in archivos' /\ BASE \in directorios'
  BY <1>3, <1>9 DEF Reparto, Globales, Ausentes, Base, TypeOK
<1> HIDE DEF Ausentes, Fundado
<1> QED
  BY <1>1, <1>2, <1>3, <1>4, <1>6, <1>7, <1>8, <1>9, <1>10, Metadatos

\* guardar_metadata_file: COMMIT makes its tag COMMITED, and nobody else writes
\* over a COMMITED one.
LEMMA GuardarMetadataReparto ==
    ASSUME TypeOK, Disciplina, SinCommitear, Reparto, NEW w \in Workers, GuardarMetadata(w)
    PROVE  Reparto'
<1>1. PICK h \in Hilo : h = hilo[w]
  BY Hechos
<1>2. h.pc = "guardar" /\ h.op \in {"WRITE", "TRUNCATE", "COMMIT", "TAG"}
  BY <1>1, Hechos DEF GuardarMetadata, En, OperacionesDe
<1>3. Fundado(h) /\ h.tag \in Tags /\ h.m \in Metadata
  BY <1>1 DEF Reparto, Hilo
<1>4. h.tag \in Posee(h) /\ h.tag # BASE
  BY <1>2, <1>3 DEF Posee, Fundado, DeFuera
<1>5. lock[h.tag] = w /\ h.tag \in archivos
  BY <1>1, <1>2, <1>3, <1>4, Hechos DEF EnOrden
<1>6. SinCompartir =>
         (meta[h.tag].estado = "COMMITED" \/ h.op = "COMMIT" => h.m.estado = "COMMITED")
  <2>1. CASE h.op = "TAG"
    BY <1>3, <2>1 DEF SinCompartir, Fundado
  <2>2. CASE h.op = "COMMIT"
    BY <1>2, <1>3, <2>2 DEF Fundado
  <2>3. CASE h.op \in {"WRITE", "TRUNCATE"}
    BY <1>1, <1>2, <2>3, EnSeccion DEF SinCommitear, Escritoras, DeFuera
  <2> QED
    BY <1>2, <2>1, <2>2, <2>3
<1>7. Fin(w, "ok") /\ meta' = [meta EXCEPT ![h.tag] = h.m]
      /\ UNCHANGED <<ocupado, contenido, enlaces, directorios, archivos, indice>>
  BY <1>1 DEF GuardarMetadata
<1> DEFINE h1 == [Ocioso EXCEPT !.pc = "responder", !.res = "ok"]
<1>8. h1 \in Hilo /\ h1.pc = "responder" /\ h1.op = "ninguna"
  BY Tipos DEF Hilo, Pasos, Ocioso, Respuestas
<1>9. hilo' = [hilo EXCEPT ![w] = h1] /\ \A s \in Tags : lock[s] \notin {w, Nadie} => lock'[s] = lock[s]
  BY <1>7 DEF Fin
<1> HIDE DEF h1
<1>10. Suyos(h1) = {} /\ Fundado(h1)'
  BY <1>8 DEF Suyos, Fundado, DeFuera
<1>11. Ausentes' /\ BASE \in archivos' /\ BASE \in directorios'
  BY <1>5, <1>7 DEF Reparto, Globales, Ausentes, Base, TypeOK
<1> HIDE DEF Ausentes, Fundado
<1> QED
  BY <1>1, <1>3, <1>4, <1>5, <1>6, <1>7, <1>8, <1>9, <1>10, <1>11, Metadatos

\* A formatted filesystem has one link, to block 0, and one index entry, for it.
LEMMA RepartoInit == Init => Reparto
<1> SUFFICES ASSUME Init PROVE Reparto
  OBVIOUS
<1>1. 0 \in Logicos /\ 0 \in Bloques /\ SinBloque \notin Bloques /\ 0 # SinBloque
  BY Tipos, BloquesAssumption DEF Bloques, SinBloque
<1>2. \A w \in Workers : hilo[w].pc = "ocioso" /\ hilo[w].op = "ninguna"
  BY DEF Init, Ocioso
<1>3. \A t \in Tags, l \in Logicos : enlaces[t][l] \in {SinBloque, 0}
  BY DEF Init, SinEnlaces
<1>4. \A c \in Contenidos : indice[c] = IF c = Cero THEN 0 ELSE SinBloque
  BY DEF Init
<1>5. Apartados
  BY <1>2 DEF Apartados, Suyos
<1>6. \A w \in Workers : Fundado(hilo[w])
  BY <1>2 DEF Fundado, DeFuera
<1>7. EnlacesOcupados /\ IndiceOcupado
  BY <1>1, <1>3, <1>4 DEF EnlacesOcupados, IndiceOcupado, Init
<1>8. Base
  <2>1. enlaces[BASE][0] = 0
    BY <1>1, TagsAssumption DEF Init, SinEnlaces
  <2> QED
    BY <2>1, TagsAssumption DEF Base, Init
<1>9. Compartidas
  BY <1>1, <1>3, <1>4 DEF Compartidas, Exclusivas, EnIndice
<1>10. Ausentes
  BY DEF Ausentes, Init
<1> QED
  BY <1>5, <1>6, <1>7, <1>8, <1>9, <1>10 DEF Reparto, Globales

\* Every step of the Storage keeps what the blocks are shared by.
LEMMA RepartoInv ==
    CargaSegura /\ TypeOK /\ Disciplina /\ SinCommitear /\ Reparto /\ [Next]_vars => Reparto'
<1> SUFFICES ASSUME CargaSegura, TypeOK, Disciplina, SinCommitear, Reparto, [Next]_vars PROVE Reparto'
  OBVIOUS
<1>1. CASE UNCHANGED vars
  BY <1>1 DEF vars, Reparto, Apartados, Apartado, Enlazado, EnIndice, Suyos, Globales,
              EnlacesOcupados, IndiceOcupado, Base, Compartidas, Exclusivas, Unico, Fijo, Pasado,
              Ausentes, Fundado
<1>2. ASSUME NEW w \in Workers, Pedido(w) PROVE Reparto'
  <2>1. PICK t \in Tags :
           \/ Create(w, t) \/ Delete(w, t) \/ Commit(w, t)
           \/ \E tam \in Tamanios : Truncate(w, t, tam)
           \/ \E i \in Logicos : Read(w, t, i)
           \/ \E i \in Logicos, d \in Contenidos : Write(w, t, i, d)
           \/ \E d \in Tags : Tag(w, t, d)
    BY <1>2 DEF Pedido
  <2> QED
    BY <2>1, CreateReparto, DeleteReparto, CommitReparto, TruncateReparto, LecturasReparto,
       WriteReparto, TagReparto
<1>3. ASSUME NEW w \in Workers, Paso(w) PROVE Reparto'
  <2>1. CASE \/ Responder(w) \/ LeerBloque(w) \/ ResponderRead(w)
             \/ ContarParaEscribir(w) \/ EscribirEnSitio(w) \/ ReservarBloque(w) \/ EscribirNuevo(w)
             \/ Desenlazar(w) \/ Enlazar(w) \/ Agrandar(w) \/ Achicar(w)
    BY <2>1, LecturasReparto, ContarParaEscribirReparto, EscribirEnSitioReparto,
       ReservarBloqueReparto, EscribirNuevoReparto, DesenlazarReparto, EnlazarReparto,
       AgrandarReparto, AchicarReparto
  <2>2. CASE \/ BorrarEnlace(w) \/ ContarReferencias(w) \/ MarcarLibre(w) \/ QuitarTag(w)
             \/ BuscarHash(w) \/ GuardarHash(w)
             \/ CrearDestino(w) \/ TomarDestino(w) \/ CopiarEnlace(w) \/ GuardarMetadata(w)
    BY <2>2, BorrarEnlaceReparto, ContarReferenciasReparto, MarcarLibreReparto, QuitarTagReparto,
       BuscarHashReparto, GuardarHashReparto, CrearDestinoReparto, TomarDestinoReparto,
       CopiarEnlaceReparto, GuardarMetadataReparto
  <2> QED
    BY <1>3, <2>1, <2>2 DEF Paso
<1> QED
  BY <1>1, <1>2, <1>3 DEF Next

\* Unless a shared block can be deleted, every block is in the hands of one thread,
\* or of the links and the index.
THEOREM Repartido == CargaSegura => (Spec => []Reparto)
<1> SUFFICES ASSUME CargaSegura PROVE Spec => []Reparto
  OBVIOUS
<1>1. TypeOK /\ Disciplina /\ SinCommitear /\ Reparto /\ [Next]_vars => Reparto'
  BY RepartoInv
<1> QED
  BY Inductivo, SeccionSinCommitear, RepartoInit, <1>1, PTL DEF Spec

\* Then no block with a logical link is free in the bitmap, for every number of
\* threads, tags and blocks, however the operations interleave.
THEOREM BloquesOcupados == CargaSegura => (Spec => []OcupadoSiReferenciado)
<1> SUFFICES ASSUME CargaSegura PROVE Spec => []OcupadoSiReferenciado
  OBVIOUS
<1>1. TypeOK /\ Reparto => OcupadoSiReferenciado
  <2> SUFFICES ASSUME TypeOK, Reparto, NEW b \in Bloques, Referencias(b) > 1 PROVE b \in ocupado
    BY DEF OcupadoSiReferenciado
  <2>1. Enlazado(b)
    BY CuentaEnlazado
  <2>2. b # SinBloque
    BY BloquesAssumption DEF Bloques, SinBloque
  <2> QED
    BY <2>1, <2>2 DEF Enlazado, Reparto, Globales, EnlacesOcupados
<1>2. Spec => []Reparto
  BY Repartido
<1> QED
  BY Inductivo, <1>1, <1>2, PTL

\* And the block that the index gives for a content has that content: COMMIT never
\* replaces a block by one that reads differently.
THEOREM IndiceFiel == CargaSegura => (Spec => []IndiceVeraz)
<1> SUFFICES ASSUME CargaSegura PROVE Spec => []IndiceVeraz
  OBVIOUS
<1>1. Reparto => IndiceVeraz
  BY DEF Reparto, Globales, IndiceOcupado, IndiceVeraz
<1>2. Spec => []Reparto
  BY Repartido
<1> QED
  BY <1>1, <1>2, PTL

-----------------------------------------------------------------------------
(* The refinement of ArchivosLogicos. An operation takes effect for the      *)
(* users of its tag at one step: CREATE when it makes the directory,         *)
(* TRUNCATE and DELETE when they take the mutex, WRITE when it writes in     *)
(* place or unlinks the old block, COMMIT and TAG when they rewrite          *)
(* metadata.config. The other steps do not show.                             *)

\* The operations whose thread Visto looks at: their tag is not on disk as its
\* users see it.
Sobre == {"WRITE", "COMMIT", "TRUNCATE", "DELETE"}

\* A File:Tag with these metadata, to the user of the Storage.
Ficha(size, estado, n, bloques, cont) ==
    [existe |-> TRUE, size |-> size, estado |-> estado,
     datos |-> [l \in Logicos |-> IF l >= Necesarios(size) THEN "nada"
                                  ELSE IF l < n THEN cont[bloques[l]] ELSE Cero]]

\* The blocks of the tag h is at work on.
Lista(h, m) == IF h.op \notin {"WRITE", "COMMIT"} THEN m.blocks
               ELSE IF h.pc = "enlazar" THEN [h.m.blocks EXCEPT ![h.i] = h.b] ELSE h.m.blocks

\* What the user sees of a tag that h is at work on.
Mira(h, existe, m, cont) ==
    IF ~ existe \/ h.op = "DELETE" THEN AL!Ausente
    ELSE Ficha(IF h.op = "TRUNCATE" THEN h.arg ELSE m.size, m.estado, m.n, Lista(h, m), cont)

\* h is the thread at work on t, or nobody is.
AlFrente(t, h) ==
    \/ \E w \in Workers : lock[t] = w /\ hilo[w].tag = t /\ h = hilo[w]
    \/ /\ h.op \notin Sobre
       /\ \A w \in Workers : lock[t] = w /\ hilo[w].tag = t => hilo[w].op \notin Sobre

\* What the refinement mapping shows of a tag, given who is at work on it ...
LEMMA VistoEs == \A t \in Tags : \A h : AlFrente(t, h) => Visto(t) = Mira(h, t \in archivos, meta[t], contenido)
<1> SUFFICES ASSUME NEW t \in Tags, NEW h, AlFrente(t, h)
             PROVE  Visto(t) = Mira(h, t \in archivos, meta[t], contenido)
  OBVIOUS
<1>1. \A ops : ops \subseteq Sobre => Haciendo(ops, t) = IF h.op \in ops THEN {h} ELSE {}
  BY DEF AlFrente, Haciendo
<1>2. El({h}) = h
  BY DEF El
<1>3. SizeDe(t) = IF h.op = "TRUNCATE" THEN h.arg ELSE meta[t].size
  BY <1>1, <1>2 DEF SizeDe, Sobre
<1>4. BloquesDe(t) = Lista(h, meta[t])
  BY <1>1, <1>2 DEF BloquesDe, Sobre, Lista
<1>5. Haciendo({"DELETE"}, t) # {} <=> h.op = "DELETE"
  BY <1>1 DEF Sobre
<1> QED
  BY <1>3, <1>4, <1>5 DEF Visto, Mira, Ficha, AL!Ausente, AL!SinDatos, AL!Nada, AL!Logicos, Logicos

\* ... and what it shows after a step.
LEMMA VistoSera == \A t \in Tags : \A h : AlFrente(t, h)' => Visto(t)' = Mira(h, t \in archivos', meta'[t], contenido')
<1>1. (\A t \in Tags : \A h : AlFrente(t, h) => Visto(t) = Mira(h, t \in archivos, meta[t], contenido))'
  BY VistoEs, PTL
<1> QED
  BY <1>1

\* What TRUNCATE has in memory of the tag with metadata m: the blocks that stay, and
\* then those it has added.
Recorte(h, m) ==
    /\ h.m.estado = m.estado
    /\ h.pc # "guardar" => h.m.n = m.n
    /\ h.pc = "guardar" => h.m.size = h.arg /\ h.m.n = Necesarios(h.arg)
    /\ \A l \in Logicos : l < m.n /\ l < h.m.n => h.m.blocks[l] = m.blocks[l]
    /\ h.pc \in {"agrandar", "guardar"} =>
          \A l \in Logicos : m.n <= l /\ l < (IF h.pc = "agrandar" THEN h.i ELSE h.m.n) =>
              h.m.blocks[l] = 0

\* What a thread has in memory agrees with metadata.config but for what it is
\* there to change, and the block it is about to link has the right contents.
EnMemoria(h) ==
    /\ h.op \in {"WRITE", "COMMIT"} => h.m.n = meta[h.tag].n /\ h.m.size = meta[h.tag].size
    /\ h.op = "WRITE" => h.m.estado = meta[h.tag].estado
    /\ h.op = "WRITE" /\ h.pc = "desenlazar" => contenido[h.b] = h.dato
    /\ h.op = "COMMIT" /\ h.pc = "desenlazar" => contenido[h.b] = contenido[h.m.blocks[h.i]]
    /\ h.op = "TRUNCATE" => Recorte(h, meta[h.tag])
    /\ h.op = "TAG" => h.m.size = meta[h.orig].size
    /\ h.op = "TAG" /\ h.pc \in {"copiar_enlace", "guardar"} =>
          h.m.estado = meta[h.tag].estado /\ Entera(h.tag)

\* A File:Tag has the blocks of its size, and the format's line of the index stays.
Medidas == \A t \in Tags : meta[t].n = Necesarios(meta[t].size)
Fiel    == Medidas /\ indice[Cero] = 0 /\ \A w \in Workers : EnMemoria(hilo[w])

\* The block whose file the thread is about to write.
PorEscribir(h, b) ==
    \/ h.pc = "copiar" /\ b = h.b
    \/ h.pc = "en_sitio" /\ b = h.m.blocks[h.i]

\* It is not in the index, it is linked from the tag being written at most, and no
\* other thread has it.
LEMMA EscritoPropio ==
    ASSUME TypeOK, Disciplina, Reparto, NEW w \in Workers, NEW b \in Bloques, PorEscribir(hilo[w], b)
    PROVE  /\ ~ EnIndice(b)
           /\ \A t \in Tags, l \in Logicos : enlaces[t][l] = b =>
                 hilo[w].pc = "en_sitio" /\ t = hilo[w].tag /\ l = hilo[w].i /\ lock[t] = w
           /\ \A v \in Workers : b \in Suyos(hilo[v]) => v = w
<1>1. PICK h \in Hilo : h = hilo[w]
  BY Hechos
<1>2. CASE h.pc = "copiar"
  <2>1. b \in Suyos(h)
    BY <1>1, <1>2 DEF PorEscribir, Suyos
  <2>2. Apartado(b) /\ \A v \in Workers : b \in Suyos(hilo[v]) => v = w
    BY <1>1, <2>1 DEF Reparto, Apartados
  <2> QED
    BY <2>2 DEF Apartado, Enlazado
<1>3. CASE h.pc = "en_sitio"
  <2>1. b = h.m.blocks[h.i] /\ Unico(h.tag, h.i) /\ ~ EnIndice(b)
    BY <1>1, <1>3 DEF PorEscribir, Reparto, Fundado
  <2>2. h.op = "WRITE"
    BY <1>1, <1>3, Hechos DEF OperacionesDe
  <2>3. /\ h.tag \in Tags /\ lock[h.tag] = w /\ h.i \in Logicos
        /\ \A l \in Coinciden(h) : Coincide(h, l)
        /\ h.i < h.m.n
    BY <1>1, <1>3, <2>2, Seccion DEF Indices
  <2>4. enlaces[h.tag][h.i] = b
    BY <1>3, <2>1, <2>3 DEF Coinciden, Coincide
  <2>5. \A v \in Workers : b \notin Suyos(hilo[v])
    BY <2>3, <2>4 DEF Reparto, Apartados, Apartado, Enlazado
  <2> QED
    BY <1>1, <1>3, <2>1, <2>3, <2>4, <2>5 DEF Unico
<1> QED
  BY <1>1, <1>2, <1>3 DEF PorEscribir

\* What a thread has in memory outlives the steps of the others.
LEMMA MemoriaAjena ==
    ASSUME TypeOK, Disciplina, Reparto, NEW w \in Workers, NEW v \in Workers, v # w,
           EnMemoria(hilo[v]),
           \A t \in Tags : lock[t] # w => enlaces'[t] = enlaces[t],
           \A t \in Tags : lock[t] \notin {w, Nadie} => meta'[t] = meta[t],
           \A b \in Bloques : contenido'[b] # contenido[b] => PorEscribir(hilo[w], b)
    PROVE  \A k \in Hilo : k = hilo[v] => EnMemoria(k)'
<1> SUFFICES ASSUME NEW k \in Hilo, k = hilo[v] PROVE EnMemoria(k)'
  OBVIOUS
<1>1. /\ k.op \in OperacionesDe(k.pc) /\ Indices(k) /\ Listados(k)
      /\ \A t \in Tags : lock[t] = v <=> t \in Posee(k)
  BY Hechos
<1>2. k.tag \in Tags /\ k.orig \in Tags /\ k.i \in Logicos /\ k.m \in Metadata /\ k.b \in BloqueO
  BY DEF Hilo
<1>3. Fundado(k) /\ EnMemoria(k)
  BY DEF Reparto
<1>4. \A t \in Tags : t \in Posee(k) => enlaces'[t] = enlaces[t] /\ meta'[t] = meta[t]
  BY <1>1, WorkersAssumption
<1>5. k.op \in Sobre => k.tag \in Posee(k)
  BY <1>1, <1>3 DEF Sobre, Fundado, DeFuera, Posee, OperacionesDe
<1>6. k.op = "TAG" => k.orig \in Posee(k)
  <2>1. k.op = "TAG" => k.pc \in {"crear_destino", "tomar_destino", "copiar_enlace", "guardar"}
    BY <1>1, <1>2, <1>3 DEF Fundado, DeFuera, OperacionesDe, Hilo, Pasos
  <2> QED
    BY <2>1 DEF Posee
<1>7. k.op = "TAG" /\ k.pc \in {"copiar_enlace", "guardar"} => k.tag \in Posee(k)
  BY DEF Posee
<1>8. \A b \in Bloques : EnIndice(b) \/ b \in Suyos(k) => contenido'[b] = contenido[b]
  BY EscritoPropio
<1>8a. \A b \in Bloques, l \in Logicos : enlaces[k.tag][l] = b /\ lock[k.tag] = v => contenido'[b] = contenido[b]
  BY <1>2, EscritoPropio
<1>9. k.op = "WRITE" /\ k.pc = "desenlazar" => contenido'[k.b] = contenido[k.b]
  BY <1>1, <1>2, <1>8 DEF Suyos, Listados, BloqueO
<1>10. ASSUME k.op = "COMMIT", k.pc = "desenlazar"
       PROVE  contenido'[k.b] = contenido[k.b] /\ contenido'[k.m.blocks[k.i]] = contenido[k.m.blocks[k.i]]
  <2>1. k.b \in Bloques /\ EnIndice(k.b)
    BY <1>1, <1>2, <1>3, <1>10 DEF Listados, BloqueO, Fundado
  <2>2. lock[k.tag] = v /\ \A l \in Coinciden(k) : Coincide(k, l)
    BY <1>10, Seccion
  <2>3. k.i \in Coinciden(k)
    BY <1>1, <1>2, <1>10 DEF Indices, Coinciden
  <2>4. enlaces[k.tag][k.i] = k.m.blocks[k.i] /\ k.m.blocks[k.i] # SinBloque
    BY <2>2, <2>3 DEF Coincide
  <2>5. k.m.blocks[k.i] \in Bloques 
    BY <1>2, <2>4 DEF Metadata, BloqueO
  <2>6. contenido'[k.m.blocks[k.i]] = contenido[k.m.blocks[k.i]]
    BY <1>2, <1>8a, <2>2, <2>4, <2>5
  <2> QED
    BY <1>8, <2>1, <2>6
<1>11. k.op = "TAG" /\ k.pc \in {"copiar_enlace", "guardar"} => Entera(k.tag)' <=> Entera(k.tag)
  BY <1>2, <1>4, <1>7 DEF Entera
<1> HIDE DEF Posee, Entera, Recorte
<1> QED
  BY <1>2, <1>3, <1>4, <1>5, <1>6, <1>7, <1>9, <1>10, <1>11 DEF EnMemoria, Sobre

\* The blocks a user reads are linked from the tag, or in the index, or the thread
\* at work on the tag has them.
LEMMA Leidos ==
    ASSUME TypeOK, Disciplina, Reparto, Fiel, NEW v \in Workers, NEW k \in Hilo, k = hilo[v],
           k.op \in {"WRITE", "COMMIT", "TRUNCATE"}, NEW l \in Logicos, l < meta[k.tag].n,
           k.op = "TRUNCATE" => l < Necesarios(k.arg)
    PROVE  /\ k.tag \in Tags /\ lock[k.tag] = v /\ Lista(k, meta[k.tag])[l] \in Bloques
           /\ \/ enlaces[k.tag][l] = Lista(k, meta[k.tag])[l]
              \/ EnIndice(Lista(k, meta[k.tag])[l])
              \/ Lista(k, meta[k.tag])[l] \in Suyos(k)
<1>1. /\ k.op \in OperacionesDe(k.pc) /\ Fundado(k) /\ EnMemoria(k)
      /\ k.m \in Metadata /\ k.b \in BloqueO /\ k.pc \in Pasos
  BY Hechos DEF Reparto, Fiel, Hilo
<1>2. k.pc \notin {"ocioso", "responder", "leer", "leido", "crear_destino", "tomar_destino"}
  BY <1>1 DEF Fundado, DeFuera, OperacionesDe
<1>3. /\ k.tag \in Tags /\ lock[k.tag] = v /\ Indices(k) /\ Listados(k) /\ k.i \in Logicos
      /\ \A j \in Coinciden(k) : Coincide(k, j)
  BY <1>2, Seccion
<1>4. k.arg \in Tamanios \union {0} /\ meta[k.tag] \in Metadata
  BY <1>3 DEF Hilo, TypeOK
<1>5. Necesarios(k.arg) \in Nat /\ k.m.n \in Nat /\ meta[k.tag].n \in Nat /\ k.i \in Int /\ l \in Int
  <2>1. Necesarios(k.arg) \in 0 .. MaxLogicos
    BY <1>4, TamaniosAssumption
  <2>2. k.m.n \in 0 .. MaxLogicos /\ meta[k.tag].n \in 0 .. MaxLogicos
    BY <1>1, <1>4 DEF Metadata
  <2> QED
    BY <1>3, <2>1, <2>2, LogicosAssumption DEF Logicos
<1>6. CASE k.op # "TRUNCATE" /\ k.pc = "enlazar" /\ l = k.i
  <2>1. Lista(k, meta[k.tag])[l] = k.b
    BY <1>1, <1>6 DEF Lista, Metadata
  <2>2. k.b \in Bloques
    BY <1>1, <1>3, <1>6 DEF Listados, BloqueO
  <2>3. k.op = "WRITE" => k.b \in Suyos(k)
    BY <1>6 DEF Suyos
  <2>4. k.op = "COMMIT" => EnIndice(k.b)
    BY <1>1, <1>6 DEF Fundado
  <2> QED
    BY <1>3, <1>6, <2>1, <2>2, <2>3, <2>4
<1>7. CASE k.op # "TRUNCATE" /\ ~ (k.pc = "enlazar" /\ l = k.i)
  <2>1. Lista(k, meta[k.tag])[l] = k.m.blocks[l]
    BY <1>1, <1>7 DEF Lista, Metadata
  <2>2. l \in Coinciden(k)
    BY <1>1, <1>7 DEF Coinciden, EnMemoria, OperacionesDe
  <2>3. Coincide(k, l)
    BY <1>3, <2>2
  <2> QED
    BY <1>1, <1>3, <2>1, <2>3 DEF Coincide, Metadata, BloqueO
<1>8. CASE k.op = "TRUNCATE"
  <2>1. Recorte(k, meta[k.tag])
    BY <1>1, <1>8 DEF EnMemoria
  <2>2. Lista(k, meta[k.tag])[l] = meta[k.tag].blocks[l]
    BY <1>8 DEF Lista
  <2>3. k.pc \in {"agrandar", "achicar", "guardar"}
    BY <1>1, <1>2, <1>8 DEF OperacionesDe, Pasos, Fundado
  <2>4. l < k.m.n
    BY <1>5, <1>8, <2>1 DEF Recorte
  <2>5. l \in Coinciden(k)
    BY <1>3, <1>5, <1>8, <2>1, <2>3, <2>4 DEF Coinciden, Indices, Recorte
  <2>6. Coincide(k, l) /\ k.m.blocks[l] = meta[k.tag].blocks[l]
    BY <1>3, <2>1, <2>4, <2>5 DEF Recorte
  <2> QED
    BY <1>1, <1>3, <2>2, <2>6 DEF Coincide, Metadata, BloqueO
<1> QED
  BY <1>6, <1>7, <1>8

\* What it shows of a tag depends on nothing else.
LEMMA MiraIgual ==
    ASSUME NEW h, NEW t, NEW A, NEW m, NEW cont, NEW g, NEW otro,
           m.n \in Int, Necesarios(h.arg) \in Int,
           g.op = h.op, h.op = "TRUNCATE" => g.arg = h.arg,
           t \in A /\ h.op # "DELETE" =>
              \A l \in Logicos : l < m.n /\ (h.op = "TRUNCATE" => l < Necesarios(h.arg)) =>
                  otro[Lista(g, m)[l]] = cont[Lista(h, m)[l]]
    PROVE  Mira(g, t \in A, m, otro) = Mira(h, t \in A, m, cont)
<1>1. CASE t \notin A \/ h.op = "DELETE"
  BY <1>1 DEF Mira
<1>2. CASE t \in A /\ h.op # "DELETE"
  <2> DEFINE size == IF h.op = "TRUNCATE" THEN h.arg ELSE m.size
  <2>1. /\ Mira(h, t \in A, m, cont) = Ficha(size, m.estado, m.n, Lista(h, m), cont)
        /\ Mira(g, t \in A, m, otro) = Ficha(size, m.estado, m.n, Lista(g, m), otro)
    BY <1>2 DEF Mira
  <2>2. \A l \in Logicos : ~ (l >= Necesarios(size)) /\ l < m.n => otro[Lista(g, m)[l]] = cont[Lista(h, m)[l]]
    <3>1. \A l \in Logicos : l \in Int
      BY DEF Logicos
    <3> QED
      BY <1>2, <3>1
  <2> HIDE DEF size
  <2> QED
    BY <2>1, <2>2 DEF Ficha
<1> QED
  BY <1>1, <1>2

\* A thread at work on no tag.
LEMMA NadieAlFrente ==
    Ocioso.op \notin Sobre /\ \A m : Lista(Ocioso, m) = m.blocks
BY DEF Ocioso, Sobre, Lista

\* The tags that the step does not work on look as they did.
LEMMA VistoResto ==
    ASSUME TypeOK, Disciplina, Reparto, Fiel, NEW w \in Workers, NEW h1 \in Hilo,
           hilo' = [hilo EXCEPT ![w] = h1], NEW t \in Tags,
           lock[t] = w => hilo[w].tag # t \/ hilo[w].op \notin Sobre,
           lock'[t] = w => h1.tag # t \/ h1.op \notin Sobre,
           lock'[t] = lock[t] \/ {lock[t], lock'[t]} \subseteq {w, Nadie},
           meta'[t] = meta[t], (t \in archivos') <=> (t \in archivos),
           \A b \in Bloques : contenido'[b] # contenido[b] => PorEscribir(hilo[w], b)
    PROVE  Visto(t)' = Visto(t)
<1>1. hilo'[w] = h1 /\ \A v \in Workers : v # w => hilo'[v] = hilo[v]
  BY DEF TypeOK
<1>2. meta[t] \in Metadata /\ meta[t].n \in Int
  BY LogicosAssumption DEF TypeOK, Metadata
<1>3. \A b \in Bloques : (EnIndice(b) \/ (\E v \in Workers : v # w /\ b \in Suyos(hilo[v]))
                          \/ (\E l \in Logicos : enlaces[t][l] = b
                                 /\ ~ (lock[t] = w /\ hilo[w].tag = t /\ hilo[w].pc = "en_sitio")))
                         => contenido'[b] = contenido[b]
  BY EscritoPropio
<1>4. CASE \E v \in Workers : v # w /\ lock[t] = v /\ hilo[v].tag = t /\ hilo[v].op \in Sobre
  <2>1. PICK v \in Workers, k \in Hilo :
           v # w /\ lock[t] = v /\ k = hilo[v] /\ k = hilo'[v] /\ k.tag = t /\ k.op \in Sobre
    BY <1>1, <1>4, Hechos
  <2>2. lock'[t] = v
    BY <2>1, WorkersAssumption
  <2>3. AlFrente(t, k) /\ AlFrente(t, k)'
    BY <2>1, <2>2 DEF AlFrente
  <2>4. /\ Visto(t) = Mira(k, t \in archivos, meta[t], contenido)
        /\ Visto(t)' = Mira(k, t \in archivos', meta'[t], contenido')
    BY <2>3, VistoEs, VistoSera
  <2>5. ASSUME k.op # "DELETE", NEW l \in Logicos, l < meta[t].n, k.op = "TRUNCATE" => l < Necesarios(k.arg)
        PROVE  contenido'[Lista(k, meta[t])[l]] = contenido[Lista(k, meta[t])[l]]
    <3> DEFINE b == Lista(k, meta[t])[l]
    <3>1. k.op \in {"WRITE", "COMMIT", "TRUNCATE"}
      BY <2>1, <2>5 DEF Sobre
    <3>2. b \in Bloques /\ (enlaces[t][l] = b \/ EnIndice(b) \/ b \in Suyos(k))
      BY <2>1, <2>5, <3>1, Leidos
    <3> HIDE DEF b
    <3>3. contenido'[b] = contenido[b]
      BY <1>3, <2>1, <3>2
    <3> QED
      BY <3>3 DEF b
  <2>6. Necesarios(k.arg) \in Int
    BY TamaniosAssumption DEF Hilo
  <2> QED
    BY <1>2, <2>4, <2>5, <2>6, MiraIgual
<1>5. CASE ~ \E v \in Workers : v # w /\ lock[t] = v /\ hilo[v].tag = t /\ hilo[v].op \in Sobre
  <2>1. AlFrente(t, Ocioso)
    BY <1>5, NadieAlFrente DEF AlFrente
  <2>2. AlFrente(t, Ocioso)'
    <3>1. ASSUME NEW v \in Workers, lock'[t] = v, hilo'[v].tag = t PROVE hilo'[v].op \notin Sobre
      <4>1. CASE v = w
        BY <1>1, <3>1, <4>1
      <4>2. CASE v # w
        <5>1. lock[t] = v
          BY <3>1, <4>2, WorkersAssumption
        <5> QED
          BY <1>1, <1>5, <3>1, <4>2, <5>1
      <4> QED
        BY <4>1, <4>2
    <3> QED
      BY <3>1, NadieAlFrente DEF AlFrente
  <2>3. /\ Visto(t) = Mira(Ocioso, t \in archivos, meta[t], contenido)
        /\ Visto(t)' = Mira(Ocioso, t \in archivos', meta'[t], contenido')
    BY <2>1, <2>2, VistoEs, VistoSera
  <2>4. t \in archivos => Entera(t)
    <3>1. CASE lock[t] = Nadie
      BY <3>1 DEF Disciplina, MetadataRespaldada
    <3>2. ASSUME NEW v \in Workers, lock[t] = v PROVE Entera(t)
      <4>1. PICK k \in Hilo : k = hilo[v]
        BY Hechos
      <4>2. t \in Posee(k) /\ EnMemoria(k) /\ EnOrden(k) /\ k.op \in OperacionesDe(k.pc) /\ Fundado(k)
        BY <3>2, <4>1, Hechos DEF Fiel, Reparto
      <4>3. k.tag # t \/ k.op \notin Sobre
        BY <1>5, <3>2, <4>1
      <4>4. k.op = "TAG" /\ k.pc \in {"crear_destino", "tomar_destino", "copiar_enlace", "guardar"}
        BY <4>2, <4>3 DEF Posee, OperacionesDe, Sobre, Fundado, DeFuera, Hilo, Pasos, OperacionesFS
      <4>5. CASE t = k.orig
        BY <4>2, <4>4, <4>5 DEF EnOrden
      <4>6. CASE t = k.tag /\ k.pc \in {"copiar_enlace", "guardar"}
        BY <4>2, <4>4, <4>6 DEF EnMemoria
      <4> QED
        BY <4>2, <4>4, <4>5, <4>6 DEF Posee
    <3> QED
      BY <3>1, <3>2 DEF TypeOK
  <2>5. ASSUME t \in archivos, NEW l \in Logicos, l < meta[t].n
        PROVE  contenido'[meta[t].blocks[l]] = contenido[meta[t].blocks[l]]
    <3>1. enlaces[t][l] = meta[t].blocks[l] /\ meta[t].blocks[l] \in Bloques
      BY <1>2, <2>4, <2>5 DEF Entera, Metadata, BloqueO
    <3>2. ~ (lock[t] = w /\ hilo[w].tag = t /\ hilo[w].pc = "en_sitio")
      BY Hechos DEF OperacionesDe, Sobre
    <3> QED
      BY <1>3, <3>1, <3>2
  <2>6. Necesarios(Ocioso.arg) \in Int
    BY TamaniosAssumption DEF Ocioso
  <2>7. t \in archivos /\ Ocioso.op # "DELETE" =>
          \A l \in Logicos : l < meta[t].n /\ (Ocioso.op = "TRUNCATE" => l < Necesarios(Ocioso.arg)) =>
           contenido'[Lista(Ocioso, meta[t])[l]] = contenido[Lista(Ocioso, meta[t])[l]]
    BY <2>5, NadieAlFrente
  <2>8. Mira(Ocioso, t \in archivos, meta[t], contenido') = Mira(Ocioso, t \in archivos, meta[t], contenido)
    BY <1>2, <2>6, <2>7, MiraIgual
  <2> QED
    BY <2>3, <2>8
<1> QED
  BY <1>4, <1>5

\* The File:Tags as the users see them; of them only t changes, to x.
Vista == [t \in Tags |-> Visto(t)]
Cambia(t, x) == Vista' = [Vista EXCEPT ![t] = x]

\* The step of w leaves every tag but t alone, except for block contents that no
\* other sees.
SoloTag(w, h1, t) ==
    /\ hilo' = [hilo EXCEPT ![w] = h1]
    /\ lock[t] \in {w, Nadie}
    /\ \A s \in Tags : s # t =>
          /\ lock[s] = w => hilo[w].tag # s \/ hilo[w].op \notin Sobre
          /\ lock'[s] = w => h1.tag # s \/ h1.op \notin Sobre
          /\ lock'[s] = lock[s] \/ {lock[s], lock'[s]} \subseteq {w, Nadie}
          /\ meta'[s] = meta[s] /\ ((s \in archivos') <=> (s \in archivos))
    /\ \A s \in Tags : lock[s] # w => enlaces'[s] = enlaces[s]
    /\ \A b \in Bloques : contenido'[b] # contenido[b] => PorEscribir(hilo[w], b)
    /\ indice'[Cero] = indice[Cero]

\* A step of w at work on t: the invariant, and that no other tag looks different.
LEMMA Efecto ==
    ASSUME TypeOK, Disciplina, Reparto, Fiel, NEW w \in Workers, NEW h1 \in Hilo, NEW t \in Tags,
           SoloTag(w, h1, t), meta'[t].n = Necesarios(meta'[t].size), EnMemoria(h1)'
    PROVE  /\ Fiel'
           /\ \A x : Visto(t)' = x => Cambia(t, x)
           /\ Visto(t)' = Visto(t) => UNCHANGED Vista
<1>1. \A s \in Tags : s # t => Visto(s)' = Visto(s)
  BY VistoResto DEF SoloTag
<1>2. /\ \A x : Visto(t)' = x => Cambia(t, x)
      /\ Visto(t)' = Visto(t) => UNCHANGED Vista
  BY <1>1 DEF Vista, Cambia
<1>3. Medidas'
  <2>1. \A s \in Tags : s # t => meta'[s] = meta[s]
    BY DEF SoloTag
  <2> QED
    BY <2>1 DEF Fiel, Medidas
<1>4. \A s \in Tags : lock[s] \notin {w, Nadie} => meta'[s] = meta[s]
  BY DEF SoloTag
<1>5. \A v \in Workers : EnMemoria(hilo[v])'
  <2>1. hilo'[w] = h1 /\ \A v \in Workers : v # w => hilo'[v] = hilo[v]
    BY DEF TypeOK, SoloTag
  <2>2. EnMemoria(hilo[w])'
    BY <2>1 DEF EnMemoria, Recorte, Entera
  <2>3. ASSUME NEW v \in Workers, v # w PROVE EnMemoria(hilo[v])'
    <3>1. PICK k \in Hilo : k = hilo[v] /\ k = hilo'[v]
      BY <2>1, <2>3, Hechos
    <3>2. EnMemoria(hilo[v])
      BY DEF Fiel
    <3>3. EnMemoria(k)'
      BY <1>4, <2>3, <3>1, <3>2, MemoriaAjena DEF SoloTag
    <3> QED
      BY <3>1, <3>3 DEF EnMemoria, Recorte, Entera
  <2> QED
    BY <2>2, <2>3
<1>6. indice'[Cero] = indice[Cero]
  BY DEF SoloTag
<1> QED
  BY <1>2, <1>3, <1>5, <1>6 DEF Fiel

\* A step that changes nothing of what is seen, made in the section of a tag or
\* outside all of them.
LEMMA Invisible ==
    ASSUME TypeOK, Disciplina, Reparto, Fiel, NEW w \in Workers, NEW h1 \in Hilo,
           hilo' = [hilo EXCEPT ![w] = h1], hilo[w].op \notin Sobre, h1.op \notin Sobre,
           \A s \in Tags : lock'[s] = lock[s] \/ {lock[s], lock'[s]} \subseteq {w, Nadie},
           \A s \in Tags : lock[s] # w => enlaces'[s] = enlaces[s],
           UNCHANGED <<meta, archivos, contenido, indice>>, EnMemoria(h1)'
    PROVE  Fiel' /\ UNCHANGED Vista
<1>1. \A s \in Tags : Visto(s)' = Visto(s)
  BY VistoResto
<1>2. \A v \in Workers : EnMemoria(hilo[v])'
  <2>1. hilo'[w] = h1 /\ \A v \in Workers : v # w => hilo'[v] = hilo[v]
    BY DEF TypeOK
  <2>2. EnMemoria(hilo[w])'
    BY <2>1 DEF EnMemoria, Recorte, Entera
  <2>3. ASSUME NEW v \in Workers, v # w PROVE EnMemoria(hilo[v])'
    <3>1. PICK k \in Hilo : k = hilo[v] /\ k = hilo'[v]
      BY <2>1, <2>3, Hechos
    <3>2. EnMemoria(hilo[v])
      BY DEF Fiel
    <3>3. EnMemoria(k)'
      BY <2>3, <3>1, <3>2, MemoriaAjena
    <3> QED
      BY <3>1, <3>3 DEF EnMemoria, Recorte, Entera
  <2> QED
    BY <2>2, <2>3
<1> QED
  BY <1>1, <1>2 DEF Fiel, Medidas, Vista

\* The same in the section of an operation that has a tag to itself.
LEMMA EnSuSeccion ==
    ASSUME TypeOK, Disciplina, Reparto, Fiel, NEW w \in Workers, NEW h \in Hilo, NEW h1 \in Hilo,
           h = hilo[w], hilo' = [hilo EXCEPT ![w] = h1], h.op \in Sobre,
           h1.op = h.op, h1.tag = h.tag, h1.arg = h.arg,
           UNCHANGED <<lock, meta, archivos>>,
           \A s \in Tags : s # h.tag => enlaces'[s] = enlaces[s],
           \A b \in Bloques : contenido'[b] # contenido[b] => PorEscribir(h, b),
           h.op \in {"WRITE", "COMMIT"} =>
              \A l \in Logicos : l < meta[h.tag].n =>
                contenido'[Lista(h1, meta[h.tag])[l]] = contenido[Lista(h, meta[h.tag])[l]],
           h.op \notin {"WRITE", "COMMIT"} => UNCHANGED contenido,
           indice'[Cero] = indice[Cero], EnMemoria(h1)'
    PROVE  Fiel' /\ UNCHANGED Vista
<1>1. h.op \in OperacionesDe(h.pc) /\ Fundado(h) /\ h.tag \in Tags /\ h.arg \in Tamanios \union {0}
  BY Hechos DEF Reparto, Hilo
<1>2. h.pc \notin {"ocioso", "responder", "leer", "leido", "crear_destino", "tomar_destino"} /\ h.op # "TAG"
  BY <1>1 DEF Fundado, DeFuera, OperacionesDe, Sobre
<1>3. \A t \in Tags : lock[t] = w <=> t = h.tag
  BY <1>2, Seccion
<1>4. hilo'[w] = h1
  BY DEF TypeOK
<1>5. AlFrente(h.tag, h) /\ AlFrente(h.tag, h1)'
  BY <1>1, <1>3, <1>4 DEF AlFrente
<1>6. /\ Visto(h.tag) = Mira(h, h.tag \in archivos, meta[h.tag], contenido)
      /\ Visto(h.tag)' = Mira(h1, h.tag \in archivos, meta[h.tag], contenido')
  BY <1>1, <1>5, VistoEs, VistoSera
<1>7. meta[h.tag].n \in Int /\ Necesarios(h.arg) \in Int
  <2>1. meta[h.tag] \in Metadata
    BY <1>1 DEF TypeOK
  <2>2. meta[h.tag].n \in Int
    BY <2>1, LogicosAssumption DEF Metadata
  <2> QED
    BY <1>1, <2>2, TamaniosAssumption
<1>8. h.tag \in archivos /\ h.op # "DELETE" =>
        \A l \in Logicos : l < meta[h.tag].n /\ (h.op = "TRUNCATE" => l < Necesarios(h.arg)) =>
         contenido'[Lista(h1, meta[h.tag])[l]] = contenido[Lista(h, meta[h.tag])[l]]
  BY DEF Lista
<1>9. Visto(h.tag)' = Visto(h.tag)
  <2>1. Mira(h1, h.tag \in archivos, meta[h.tag], contenido') = Mira(h, h.tag \in archivos, meta[h.tag], contenido)
    BY <1>7, <1>8, MiraIgual
  <2> QED
    BY <1>6, <2>1
<1>10. PICK t \in Tags : t = h.tag
  BY <1>1
<1>11. lock[t] = w /\ meta'[t].n = Necesarios(meta'[t].size) /\ Visto(t)' = Visto(t)
  BY <1>3, <1>9, <1>10 DEF Fiel, Medidas
<1>12. \A s \in Tags : s # t => lock[s] # w /\ lock'[s] # w /\ lock'[s] = lock[s] /\ meta'[s] = meta[s]
                               /\ ((s \in archivos') <=> (s \in archivos)) /\ enlaces'[s] = enlaces[s]
  BY <1>3, <1>10
<1>13. \A s \in Tags : lock[s] # w => enlaces'[s] = enlaces[s]
  BY <1>11, <1>12
<1>14. \A b \in Bloques : contenido'[b] # contenido[b] => PorEscribir(hilo[w], b)
  OBVIOUS
<1>15. \A s \in Tags : s # t =>
              /\ lock[s] = w => hilo[w].tag # s \/ hilo[w].op \notin Sobre
              /\ lock'[s] = w => h1.tag # s \/ h1.op \notin Sobre
              /\ lock'[s] = lock[s] \/ {lock[s], lock'[s]} \subseteq {w, Nadie}
              /\ meta'[s] = meta[s] /\ ((s \in archivos') <=> (s \in archivos))
  BY <1>12
<1>16. SoloTag(w, h1, t)
  BY <1>11, <1>13, <1>14, <1>15 DEF SoloTag
<1> HIDE DEF Fiel, Vista
<1> QED
  BY <1>11, <1>16, Efecto

\* A step outside the writing operations that leaves the disk alone.
LEMMA Callada ==
    ASSUME TypeOK, Disciplina, Reparto, Fiel, NEW w \in Workers, NEW h1 \in Hilo,
           hilo' = [hilo EXCEPT ![w] = h1], UNCHANGED disco,
           hilo[w].op \notin Sobre, h1.op \in {"READ", "ninguna"},
           \A s \in Tags : lock'[s] = lock[s] \/ {lock[s], lock'[s]} \subseteq {w, Nadie}
    PROVE  Fiel' /\ UNCHANGED Vista
<1>1. EnMemoria(h1)'
  BY DEF EnMemoria
<1>2. UNCHANGED <<meta, archivos, contenido, indice, enlaces>>
  BY DEF disco
<1>3. h1.op \notin Sobre
  BY DEF Sobre
<1> HIDE DEF EnMemoria, Sobre, disco
<1> QED
  BY <1>1, <1>2, <1>3, Invisible

\* The steps outside any section.
LEMMA DeFueraSobre ==
    ASSUME Reparto, NEW w \in Workers, hilo[w].pc \in DeFuera
    PROVE  hilo[w].op \notin Sobre
BY DEF Reparto, Fundado, Sobre

\* An answer outside the writing operations.
LEMMA FinFiel ==
    ASSUME TypeOK, Disciplina, Reparto, Fiel, NEW w \in Workers, NEW r \in Respuestas, Fin(w, r),
           UNCHANGED disco, hilo[w].op \notin Sobre
    PROVE  Fiel' /\ UNCHANGED Vista
<1> DEFINE h1 == [Ocioso EXCEPT !.pc = "responder", !.res = r]
<1>1. h1 \in Hilo /\ h1.op = "ninguna"
  BY Tipos DEF Hilo, Pasos, Ocioso
<1>2. hilo' = [hilo EXCEPT ![w] = h1]
  BY DEF Fin
<1> HIDE DEF h1
<1>3. \A t \in Tags : lock'[t] = lock[t] \/ {lock[t], lock'[t]} \subseteq {w, Nadie}
  BY DEF Fin
<1> QED
  BY <1>1, <1>2, <1>3, Callada

\* A request turned down.
LEMMA RechazoFiel ==
    ASSUME TypeOK, Disciplina, Reparto, Fiel, NEW w \in Workers, NEW r \in Respuestas,
           En(w, "ocioso"), Fin(w, r), UNCHANGED disco
    PROVE  Fiel' /\ UNCHANGED Vista
<1>1. hilo[w].op \notin Sobre
  BY DeFueraSobre DEF En, DeFuera
<1> QED
  BY <1>1, FinFiel

\* READ, and the answers.
LEMMA LecturasFiel ==
    ASSUME TypeOK, Disciplina, Reparto, Fiel, NEW w \in Workers,
           \/ \E t \in Tags, i \in Logicos : Read(w, t, i)
           \/ Responder(w) \/ LeerBloque(w) \/ ResponderRead(w)
    PROVE  Fiel' /\ UNCHANGED Vista
<1>1. PICK h1 \in Hilo : /\ hilo' = [hilo EXCEPT ![w] = h1] /\ UNCHANGED disco /\ UNCHANGED lock
                         /\ hilo[w].pc \in DeFuera /\ h1.pc \in DeFuera
                         /\ h1.op \in {"READ", "ninguna"} \intersect (Operaciones \union {"ninguna"})
  BY LecturasPaso
<1>2. hilo[w].op \notin Sobre
  BY <1>1, DeFueraSobre
<1> QED
  BY <1>1, <1>2, Callada

\* What nobody is at work on shows what its metadata and blocks are.
LEMMA MiraLibre ==
    ASSUME NEW h, NEW t, NEW A, NEW m, NEW cont, h.op \notin {"TRUNCATE", "DELETE"}, Lista(h, m) = m.blocks
    PROVE  Mira(h, t \in A, m, cont) = IF t \in A THEN Ficha(m.size, m.estado, m.n, m.blocks, cont)
                                                  ELSE AL!Ausente
BY DEF Mira

\* A request accepted, which looks after its tag from then on.
LEMMA TomaFiel ==
    ASSUME TypeOK, Disciplina, Reparto, Fiel, NEW w \in Workers, NEW t \in Tags, NEW h1 \in Hilo,
           En(w, "ocioso"), Toma(w, t, h1), UNCHANGED disco, h1.tag = t, EnMemoria(h1)
    PROVE  /\ Fiel'
           /\ \A x : Visto(t)' = x => Cambia(t, x)
           /\ Visto(t)' = Visto(t) => UNCHANGED Vista
           /\ Visto(t) = IF t \in archivos
                         THEN Ficha(meta[t].size, meta[t].estado, meta[t].n, meta[t].blocks, contenido)
                         ELSE AL!Ausente
           /\ Visto(t)' = Mira(h1, t \in archivos, meta[t], contenido)
<1>1. hilo' = [hilo EXCEPT ![w] = h1] /\ lock[t] = Nadie /\ lock' = [lock EXCEPT ![t] = w]
  BY DEF Toma
<1>2. hilo[w].op \notin Sobre
  BY DeFueraSobre DEF En, DeFuera
<1>3. UNCHANGED <<ocupado, contenido, enlaces, directorios, archivos, meta, indice>>
  BY DEF disco
<1>4. EnMemoria(h1)'
  BY <1>3 DEF EnMemoria, Entera
<1>5. hilo'[w] = h1 /\ lock'[t] = w /\ \A s \in Tags : s # t => lock'[s] = lock[s]
  BY <1>1 DEF TypeOK
<1>6. \A s \in Tags : lock[s] # w
  BY Hechos, Fuera DEF En
<1>7. AlFrente(t, Ocioso) /\ AlFrente(t, h1)'
  BY <1>1, <1>5, NadieAlFrente, WorkersAssumption DEF AlFrente
<1>8. /\ Visto(t) = Mira(Ocioso, t \in archivos, meta[t], contenido)
      /\ Visto(t)' = Mira(h1, t \in archivos, meta[t], contenido)
  BY <1>3, <1>7, VistoEs, VistoSera
<1>9. Ocioso.op = "ninguna" /\ Lista(Ocioso, meta[t]) = meta[t].blocks
  BY NadieAlFrente DEF Ocioso
<1>10. Visto(t) = IF t \in archivos
                  THEN Ficha(meta[t].size, meta[t].estado, meta[t].n, meta[t].blocks, contenido)
                  ELSE AL!Ausente
  BY <1>8, <1>9, MiraLibre
<1>11. meta'[t].n = Necesarios(meta'[t].size)
  BY <1>3 DEF Fiel, Medidas
<1>12. \A s \in Tags : s # t =>
          /\ lock[s] = w => hilo[w].tag # s \/ hilo[w].op \notin Sobre
          /\ lock'[s] = w => h1.tag # s \/ h1.op \notin Sobre
          /\ lock'[s] = lock[s] \/ {lock[s], lock'[s]} \subseteq {w, Nadie}
          /\ meta'[s] = meta[s] /\ ((s \in archivos') <=> (s \in archivos))
  BY <1>3, <1>5, <1>6
<1>14. /\ \A s \in Tags : lock[s] # w => enlaces'[s] = enlaces[s]
       /\ \A b \in Bloques : contenido'[b] # contenido[b] => PorEscribir(hilo[w], b)
       /\ indice'[Cero] = indice[Cero] /\ lock[t] \in {w, Nadie}
  BY <1>1, <1>3
<1> HIDE DEF EnMemoria, Vista, Fiel
<1>15. SoloTag(w, h1, t)
  BY <1>1, <1>12, <1>14 DEF SoloTag
<1>13. /\ Fiel'
       /\ \A x : Visto(t)' = x => Cambia(t, x)
       /\ Visto(t)' = Visto(t) => UNCHANGED Vista
  BY <1>4, <1>11, <1>15, Efecto
<1> QED
  BY <1>8, <1>10, <1>13

\* The request of a WRITE, of a COMMIT and of a TAG does not show.
LEMMA WriteFiel ==
    ASSUME TypeOK, Disciplina, Reparto, Fiel, NEW w \in Workers, NEW t \in Tags,
           NEW i \in Logicos, NEW d \in Contenidos, Write(w, t, i, d)
    PROVE  Fiel' /\ UNCHANGED Vista
<1>1. En(w, "ocioso") /\ UNCHANGED disco
  BY DEF Write, Pide
<1>2. CASE Fin(w, MotivoWrite(t, i))
  BY <1>1, <1>2, RechazoFiel DEF MotivoWrite, Respuestas
<1>3. CASE ~ Fin(w, MotivoWrite(t, i))
  <2> DEFINE h1 == [Ocioso EXCEPT !.pc = "escribir", !.op = "WRITE", !.tag = t,
                                  !.i = i, !.m = meta[t], !.dato = d]
  <2>1. /\ h1 \in Hilo /\ h1.pc = "escribir" /\ h1.op = "WRITE" /\ h1.tag = t /\ h1.m = meta[t]
    BY Tipos DEF Hilo, Pasos, OperacionesFS, Ocioso, TypeOK
  <2>2. Toma(w, t, h1)
    BY <1>3 DEF Write
  <2> HIDE DEF h1
  <2>3. EnMemoria(h1) /\ Lista(h1, meta[t]) = meta[t].blocks
    BY <2>1 DEF EnMemoria, Lista
  <2>4. /\ Fiel' /\ (Visto(t)' = Visto(t) => UNCHANGED Vista)
        /\ Visto(t) = IF t \in archivos
                      THEN Ficha(meta[t].size, meta[t].estado, meta[t].n, meta[t].blocks, contenido)
                      ELSE AL!Ausente
        /\ Visto(t)' = Mira(h1, t \in archivos, meta[t], contenido)
    BY <1>1, <2>1, <2>2, <2>3, TomaFiel
  <2>5. Visto(t)' = Visto(t)
    BY <2>1, <2>3, <2>4, MiraLibre
  <2> QED
    BY <2>4, <2>5
<1> QED
  BY <1>2, <1>3

\* COMMIT starts from the metadata on disk.
LEMMA CommitFiel ==
    ASSUME TypeOK, Disciplina, Reparto, Fiel, NEW w \in Workers, NEW t \in Tags, Commit(w, t)
    PROVE  Fiel' /\ UNCHANGED Vista
<1>1. En(w, "ocioso") /\ UNCHANGED disco
  BY DEF Commit, Pide
<1>2. CASE Fin(w, "error") \/ Fin(w, "ok")
  BY <1>1, <1>2, RechazoFiel DEF Respuestas
<1>3. CASE ~ (Fin(w, "error") \/ Fin(w, "ok"))
  <2> DEFINE h == [Ocioso EXCEPT !.op = "COMMIT", !.tag = t, !.m = meta[t]]
  <2>1. h \in Hilo /\ h.op = "COMMIT" /\ h.tag = t /\ h.m = meta[t]
    BY Tipos DEF Hilo, OperacionesFS, Ocioso, TypeOK
  <2>2. PICK h1 : Toma(w, t, h1) /\ h1 = IF meta[t].n = 0
                        THEN [h EXCEPT !.pc = "guardar", !.m.estado = "COMMITED"]
                        ELSE [h EXCEPT !.pc = "commitear"]
    BY <1>3 DEF Commit
  <2> HIDE DEF h
  <2>3. /\ h1 \in Hilo /\ h1.op = "COMMIT" /\ h1.tag = t /\ h1.pc \in {"guardar", "commitear"}
        /\ h1.m.n = meta[t].n /\ h1.m.size = meta[t].size /\ h1.m.blocks = meta[t].blocks
    BY <2>1, <2>2 DEF Hilo, Pasos, Metadata, Estados
  <2>4. EnMemoria(h1) /\ Lista(h1, meta[t]) = meta[t].blocks
    BY <2>3 DEF EnMemoria, Lista
  <2>5. /\ Fiel' /\ (Visto(t)' = Visto(t) => UNCHANGED Vista)
        /\ Visto(t) = IF t \in archivos
                      THEN Ficha(meta[t].size, meta[t].estado, meta[t].n, meta[t].blocks, contenido)
                      ELSE AL!Ausente
        /\ Visto(t)' = Mira(h1, t \in archivos, meta[t], contenido)
    BY <1>1, <2>2, <2>3, <2>4, TomaFiel
  <2>6. Visto(t)' = Visto(t)
    BY <2>3, <2>4, <2>5, MiraLibre
  <2> QED
    BY <2>5, <2>6
<1> QED
  BY <1>2, <1>3

\* TAG starts from the metadata of its origin.
LEMMA TagFiel ==
    ASSUME TypeOK, Disciplina, Reparto, Fiel, NEW w \in Workers, NEW o \in Tags, NEW d \in Tags, Tag(w, o, d)
    PROVE  Fiel' /\ UNCHANGED Vista
<1>1. En(w, "ocioso") /\ UNCHANGED disco
  BY DEF Tag, Pide
<1>2. CASE Fin(w, "error")
  BY <1>1, <1>2, RechazoFiel DEF Respuestas
<1>3. CASE ~ Fin(w, "error")
  <2> DEFINE g == [Ocioso EXCEPT !.pc = "crear_destino", !.op = "TAG",
                                 !.tag = d, !.orig = o, !.m = meta[o]]
  <2>0. /\ g \in Hilo /\ g.pc = "crear_destino" /\ g.op = "TAG" /\ g.orig = o /\ g.m = meta[o]
    BY Tipos DEF Hilo, Pasos, OperacionesFS, Ocioso, TypeOK
  <2>2. Toma(w, o, g)
    BY <1>3 DEF Tag
  <2> HIDE DEF g
  <2>1. PICK h1 \in Hilo : /\ h1 = g /\ h1.pc = "crear_destino" /\ h1.op = "TAG"
                           /\ h1.orig = o /\ h1.m = meta[o]
    BY <2>0
  <2>3. UNCHANGED <<meta, archivos, contenido, indice, enlaces>>
    BY <1>1 DEF disco
  <2>5. EnMemoria(h1)'
    BY <2>1, <2>3 DEF EnMemoria
  <2>4. hilo[w].op \notin Sobre /\ h1.op \notin Sobre
    BY <1>1, <2>1, DeFueraSobre DEF En, DeFuera, Sobre
  <2>6. /\ hilo' = [hilo EXCEPT ![w] = h1]
        /\ \A s \in Tags : lock'[s] = lock[s] \/ {lock[s], lock'[s]} \subseteq {w, Nadie}
    BY <2>1, <2>2 DEF Toma, TypeOK
  <2> HIDE DEF EnMemoria
  <2> QED
    BY <2>1, <2>3, <2>4, <2>5, <2>6, Invisible
<1> QED
  BY <1>2, <1>3

\* TRUNCATE has taken effect for its tag when it takes the mutex.
LEMMA EsTruncar ==
    ASSUME NEW t \in Tags, NEW tam \in Tamanios, NEW estado, NEW datos, NEW size, NEW si, NEW x,
           AL!Editable(t),
           Visto(t) = [existe |-> si, size |-> size, estado |-> estado, datos |-> datos],
           x = [existe |-> si, size |-> tam, estado |-> estado,
                datos |-> [l \in Logicos |-> IF l >= Necesarios(tam) THEN "nada"
                                             ELSE IF datos[l] = "nada" THEN Cero ELSE datos[l]]],
           Cambia(t, x)
    PROVE  AL!Next
<1> DEFINE D == [l \in Logicos |-> IF l >= Necesarios(tam) THEN "nada"
                                   ELSE IF datos[l] = "nada" THEN Cero ELSE datos[l]]
           V1 == [Vista EXCEPT ![t].size = tam]
           r  == [existe |-> si, size |-> tam, estado |-> estado, datos |-> datos]
<1>1. Vista[t] = Visto(t) /\ Vista = [s \in Tags |-> Vista[s]]
  BY DEF Vista
<1>3. [Vista[t] EXCEPT !.size = tam] = r
  <2>1. Vista[t] \in [existe : {si}, size : {size}, estado : {estado}, datos : {datos}]
    BY <1>1
  <2> QED
    BY <2>1
<1>4. V1 = [Vista EXCEPT ![t] = r]
  BY <1>1, <1>3
<1>5. V1[t] = r /\ V1 = [s \in Tags |-> V1[s]] /\ \A s \in Tags : s # t => V1[s] = Vista[s]
  BY <1>1, <1>4
<1> HIDE DEF V1
<1>6. [V1 EXCEPT ![t].datos = [l \in Logicos |-> IF l >= Necesarios(tam) THEN "nada"
                                                 ELSE IF V1[t].datos[l] = "nada" THEN Cero ELSE V1[t].datos[l]]]
      = [V1 EXCEPT ![t].datos = D]
  <2>1. V1[t].datos = datos
    BY <1>5
  <2> QED
    BY <2>1
<1> HIDE DEF D
<1>7. [V1[t] EXCEPT !.datos = D] = [existe |-> si, size |-> tam, estado |-> estado, datos |-> D]
  <2>1. V1[t] \in [existe : {si}, size : {tam}, estado : {estado}, datos : {datos}]
    BY <1>5
  <2> QED
    BY <2>1
<1>8. [V1 EXCEPT ![t].datos = D] = [Vista EXCEPT ![t] = x]
  <2>1. x = [existe |-> si, size |-> tam, estado |-> estado, datos |-> D]
    BY DEF D
  <2>2. [V1 EXCEPT ![t].datos = D] = [V1 EXCEPT ![t] = x]
    BY <1>7, <2>1
  <2>3. /\ [V1 EXCEPT ![t] = x] = [s \in Tags |-> IF s = t THEN x ELSE Vista[s]]
        /\ [Vista EXCEPT ![t] = x] = [s \in Tags |-> IF s = t THEN x ELSE Vista[s]]
    BY <1>1, <1>5
  <2> QED
    BY <2>2, <2>3
<1>9. Vista' = [Vista EXCEPT ![t].size = tam,
                             ![t].datos = [l \in Logicos |-> IF l >= Necesarios(tam) THEN "nada"
                                                             ELSE IF @[l] = "nada" THEN Cero ELSE @[l]]]
  BY <1>6, <1>8 DEF V1, Cambia
<1>10. AL!Truncar(t, tam)
  BY <1>9 DEF AL!Truncar, AL!Bloques, AL!Nada, AL!Logicos, Necesarios, Vista, Logicos
<1> QED
  BY <1>10 DEF AL!Next

\* A tag that users see, what they see of it, and an array with one block changed.
Presente(t) == Visto(t).existe
Registro(existe, size, estado, datos) ==
    [existe |-> existe, size |-> size, estado |-> estado, datos |-> datos]
Pisa(datos, l, c, D) == D = [datos EXCEPT ![l] = c]

\* The tag has the size and contents of another: TAG of ArchivosLogicos.
LEMMA EsCopiar ==
    ASSUME NEW o \in Tags, NEW d \in Tags, o # d, Presente(o), Presente(d),
           NEW estado, NEW datos, NEW size, NEW si, NEW tam, NEW otros, NEW x,
           Visto(d) = Registro(si, size, estado, datos),
           Visto(o).size = tam, Visto(o).datos = otros,
           x = Registro(si, tam, estado, otros), Cambia(d, x)
    PROVE  AL!Next
<1> DEFINE V1 == [Vista EXCEPT ![d].size = tam]
           r  == Registro(si, tam, estado, datos)
<1>1. Vista[d] = Visto(d) /\ Vista[o] = Visto(o) /\ Vista = [s \in Tags |-> Vista[s]]
  BY DEF Vista
<1>3. [Vista[d] EXCEPT !.size = tam] = r
  <2>1. Vista[d] \in [existe : {si}, size : {size}, estado : {estado}, datos : {datos}]
    BY <1>1 DEF Registro
  <2> QED
    BY <2>1 DEF Registro
<1>4. V1 = [Vista EXCEPT ![d] = r]
  BY <1>1, <1>3
<1>5. V1[d] = r /\ V1 = [s \in Tags |-> V1[s]] /\ \A s \in Tags : s # d => V1[s] = Vista[s]
  BY <1>1, <1>4
<1> HIDE DEF V1
<1>7. [V1[d] EXCEPT !.datos = otros] = x
  <2>1. V1[d] \in [existe : {si}, size : {tam}, estado : {estado}, datos : {datos}]
    BY <1>5 DEF Registro
  <2> QED
    BY <2>1 DEF Registro
<1>8. [V1 EXCEPT ![d].datos = otros] = [Vista EXCEPT ![d] = x]
  <2>2. [V1 EXCEPT ![d].datos = otros] = [V1 EXCEPT ![d] = x]
    BY <1>7
  <2>3. /\ [V1 EXCEPT ![d] = x] = [s \in Tags |-> IF s = d THEN x ELSE Vista[s]]
        /\ [Vista EXCEPT ![d] = x] = [s \in Tags |-> IF s = d THEN x ELSE Vista[s]]
    BY <1>1, <1>5
  <2> QED
    BY <2>2, <2>3
<1>9. Vista' = [Vista EXCEPT ![d].size = Vista[o].size, ![d].datos = Vista[o].datos]
  BY <1>1, <1>8 DEF V1, Cambia
<1>10. AL!Copiar(o, d)
  BY <1>9 DEF AL!Copiar, Vista, Presente
<1> QED
  BY <1>10 DEF AL!Next

\* One block of the tag has other contents: WRITE of ArchivosLogicos.
LEMMA EsEscribir ==
    ASSUME NEW t \in Tags, NEW l \in Logicos, NEW c \in Contenidos, AL!Editable(t),
           NEW estado, NEW datos, NEW size, NEW si, NEW D, NEW x, l < Necesarios(size),
           Visto(t) = Registro(si, size, estado, datos), Pisa(datos, l, c, D),
           x = Registro(si, size, estado, D), Cambia(t, x)
    PROVE  AL!Next
<1>1. Vista[t] = Visto(t)
  BY DEF Vista
<1>2. Vista[t] \in [existe : {si}, size : {size}, estado : {estado}, datos : {datos}]
  BY <1>1 DEF Registro
<1>3. [Vista EXCEPT ![t].datos[l] = c] = [Vista EXCEPT ![t].datos = D]
  <2>1. Vista[t].datos = datos
    BY <1>1 DEF Registro
  <2> QED
    BY <2>1 DEF Pisa
<1>5. [Vista[t] EXCEPT !.datos = D] = x
  BY <1>2 DEF Registro
<1>6. Vista' = [Vista EXCEPT ![t].datos[l] = c]
  BY <1>3, <1>5 DEF Cambia
<1>7. l < AL!Bloques(Vista[t].size)
  BY <1>1 DEF AL!Bloques, Necesarios, Registro
<1>8. AL!Escribir(t, l, c)
  BY <1>6, <1>7 DEF AL!Escribir, Vista
<1> QED
  BY <1>8 DEF AL!Next, AL!Logicos, Logicos

\* COMMIT changes nothing but the state.
LEMMA EsCommitear ==
    ASSUME NEW t \in Tags, AL!Editable(t), NEW estado, NEW datos, NEW size, NEW si, NEW x,
           Visto(t) = Registro(si, size, estado, datos),
           x = Registro(si, size, "COMMITED", datos), Cambia(t, x)
    PROVE  AL!Next
<1>1. Vista[t] \in [existe : {si}, size : {size}, estado : {estado}, datos : {datos}]
  BY DEF Vista, Registro
<1>2. [Vista[t] EXCEPT !.estado = "COMMITED"] = x
  BY <1>1 DEF Registro
<1>3. Vista' = [Vista EXCEPT ![t].estado = "COMMITED"]
  BY <1>2 DEF Cambia
<1>4. AL!Commitear(t)
  BY <1>3 DEF AL!Commitear, Vista
<1> QED
  BY <1>4 DEF AL!Next

\* A tag is gone.
LEMMA EsBorrar ==
    ASSUME NEW t \in Tags, Presente(t), Cambia(t, AL!Ausente)
    PROVE  AL!Next
BY DEF AL!Next, AL!Borrar, Presente, Vista, Cambia

\* A tag appears, empty.
LEMMA EsCrear ==
    ASSUME NEW t \in Tags, ~ Presente(t), Cambia(t, AL!Nuevo)
    PROVE  AL!Next
BY DEF AL!Next, AL!Crear, Presente, Vista, Cambia

\* TRUNCATE takes effect for the users of its tag when it takes the mutex.
LEMMA TruncateFiel ==
    ASSUME TypeOK, Disciplina, SinCommitear, Reparto, Fiel, NEW w \in Workers, NEW t \in Tags,
           NEW tam \in Tamanios, Truncate(w, t, tam)
    PROVE  Fiel' /\ (AL!Next \/ UNCHANGED Vista)
<1>1. En(w, "ocioso") /\ UNCHANGED disco
  BY DEF Truncate, Pide
<1>2. CASE Fin(w, MotivoTruncate(t))
  BY <1>1, <1>2, RechazoFiel DEF MotivoTruncate, Respuestas
<1>3. CASE ~ Fin(w, MotivoTruncate(t))
  <2> DEFINE h == [Ocioso EXCEPT !.op = "TRUNCATE", !.tag = t, !.m = meta[t], !.arg = tam]
             n == meta[t].n
             k == Necesarios(tam)
  <2>1. /\ h \in Hilo /\ h.op = "TRUNCATE" /\ h.tag = t /\ h.m = meta[t] /\ h.arg = tam
        /\ meta[t] \in Metadata
    BY Tipos DEF Hilo, OperacionesFS, Ocioso, TypeOK
  <2>2. n \in Nat /\ k \in Nat /\ k <= MaxLogicos /\ n <= MaxLogicos
    <3>1. n \in 0 .. MaxLogicos /\ k \in 0 .. MaxLogicos
      BY <2>1, TamaniosAssumption DEF Metadata
    <3> QED
      BY <3>1, LogicosAssumption
  <2>3. Redimensionada(meta[t], tam) \in Metadata
    BY <2>1, RedimensionadaTipo
  <2>4. /\ MotivoTruncate(t) = "ok"
        /\ Toma(w, t, CASE k > n -> [h EXCEPT !.pc = "agrandar", !.i = n]
                        [] k < n -> [h EXCEPT !.pc = "achicar", !.i = n - 1]
                        [] OTHER -> [h EXCEPT !.pc = "guardar", !.m = Redimensionada(meta[t], tam)])
    BY <1>3 DEF Truncate
  <2>5. t \in archivos /\ meta[t].estado = "WORK_IN_PROGRESS"
    BY <2>1, <2>4 DEF MotivoTruncate, Metadata, Estados
  <2> HIDE DEF h
  <2>6. PICK h1 \in Hilo : /\ Toma(w, t, h1) /\ h1.op = "TRUNCATE" /\ h1.tag = t /\ h1.arg = tam
                           /\ Recorte(h1, meta[t])
    <3>1. CASE k > n
      <4> DEFINE h1 == [h EXCEPT !.pc = "agrandar", !.i = n]
      <4>1. n \in Logicos
        BY <2>2, <3>1, LogicosAssumption DEF Logicos
      <4>2. /\ h1 \in Hilo /\ h1.op = "TRUNCATE" /\ h1.tag = t /\ h1.arg = tam
            /\ h1.pc = "agrandar" /\ h1.i = n /\ h1.m = meta[t]
        BY <2>1, <4>1 DEF Hilo, Pasos
      <4>3. Toma(w, t, h1)
        BY <2>2, <2>4, <3>1
      <4> HIDE DEF h1, n
      <4>4. Recorte(h1, meta[t])
        BY <2>2, <4>2 DEF Recorte, n, Logicos
      <4> QED
        BY <4>2, <4>3, <4>4
    <3>2. CASE k < n
      <4> DEFINE h1 == [h EXCEPT !.pc = "achicar", !.i = n - 1]
      <4>1. n - 1 \in Logicos
        BY <2>2, <3>2, LogicosAssumption DEF Logicos
      <4>2. /\ h1 \in Hilo /\ h1.op = "TRUNCATE" /\ h1.tag = t /\ h1.arg = tam
            /\ h1.pc = "achicar" /\ h1.m = meta[t]
        BY <2>1, <4>1 DEF Hilo, Pasos
      <4>3. Toma(w, t, h1)
        BY <2>2, <2>4, <3>2
      <4> HIDE DEF h1
      <4>4. Recorte(h1, meta[t])
        BY <4>2 DEF Recorte
      <4> QED
        BY <4>2, <4>3, <4>4
    <3>3. CASE k = n
      <4> DEFINE h1 == [h EXCEPT !.pc = "guardar", !.m = Redimensionada(meta[t], tam)]
      <4>2. /\ h1 \in Hilo /\ h1.op = "TRUNCATE" /\ h1.tag = t /\ h1.arg = tam
            /\ h1.pc = "guardar" /\ h1.m = Redimensionada(meta[t], tam)
        BY <2>1, <2>3 DEF Hilo, Pasos
      <4>3. Toma(w, t, h1)
        BY <2>2, <2>4, <3>3
      <4> HIDE DEF h1
      <4>4. /\ h1.m.estado = meta[t].estado /\ h1.m.size = tam /\ h1.m.n = k
            /\ \A l \in Logicos : l < k => h1.m.blocks[l] = meta[t].blocks[l]
        BY <2>1, <4>2 DEF Redimensionada, Metadata
      <4>5. Recorte(h1, meta[t])
        BY <2>2, <3>3, <4>2, <4>4 DEF Recorte, Logicos
      <4> QED
        BY <4>2, <4>3, <4>5
    <3> QED
      BY <2>2, <3>1, <3>2, <3>3
  <2>7. EnMemoria(h1)
    BY <2>6 DEF EnMemoria
  <2> HIDE DEF k, n
  <2>8. /\ Fiel' /\ \A x : Visto(t)' = x => Cambia(t, x)
        /\ Visto(t) = Ficha(meta[t].size, meta[t].estado, meta[t].n, meta[t].blocks, contenido)
        /\ Visto(t)' = Mira(h1, t \in archivos, meta[t], contenido)
    BY <1>1, <2>5, <2>6, <2>7, TomaFiel
  <2>9. Visto(t)' = Ficha(tam, meta[t].estado, meta[t].n, meta[t].blocks, contenido)
    BY <2>5, <2>6, <2>8 DEF Mira, Lista
  <2>10. \A l \in Logicos : l < meta[t].n => contenido[meta[t].blocks[l]] # "nada"
    <3>1. Entera(t)
      BY <2>4, <2>5 DEF Toma, Disciplina, MetadataRespaldada
    <3>2. \A l \in Logicos : l < meta[t].n => meta[t].blocks[l] \in Bloques
      BY <2>1, <3>1 DEF Entera, Metadata, BloqueO
    <3> QED
      BY <3>2, NadaAssumption DEF TypeOK
  <2> DEFINE datos == [l \in Logicos |-> IF l >= Necesarios(meta[t].size) THEN "nada"
                             ELSE IF l < meta[t].n THEN contenido[meta[t].blocks[l]] ELSE Cero]
  <2>11. AL!Editable(t)
    BY <2>5, <2>8 DEF Ficha, AL!Editable
  <2>12. \A l \in Logicos :
            (IF l < meta[t].n THEN contenido[meta[t].blocks[l]] ELSE Cero)
            = IF datos[l] = "nada" THEN Cero ELSE datos[l]
    <3>1. Necesarios(meta[t].size) = meta[t].n /\ \A l \in Logicos : l \in Int
      BY DEF Fiel, Medidas, Logicos
    <3>2. meta[t].n \in Int
      BY <2>2 DEF n
    <3> QED
      BY <2>10, <3>1, <3>2
  <2>13. Visto(t) = [existe |-> TRUE, size |-> meta[t].size, estado |-> meta[t].estado, datos |-> datos]
    BY <2>8 DEF Ficha
  <2> HIDE DEF datos
  <2>14. Visto(t)' = [existe |-> TRUE, size |-> tam, estado |-> meta[t].estado,
                      datos |-> [l \in Logicos |-> IF l >= Necesarios(tam) THEN "nada"
                                                   ELSE IF datos[l] = "nada" THEN Cero ELSE datos[l]]]
    BY <2>9, <2>12 DEF Ficha
  <2> DEFINE otros == [l \in Logicos |-> IF l >= Necesarios(tam) THEN "nada"
                                        ELSE IF datos[l] = "nada" THEN Cero ELSE datos[l]]
  <2>15. PICK si, x : /\ Visto(t) = [existe |-> si, size |-> meta[t].size, estado |-> meta[t].estado, datos |-> datos]
                      /\ x = [existe |-> si, size |-> tam, estado |-> meta[t].estado, datos |-> otros]
                      /\ Visto(t)' = x
    BY Zenon, <2>13, <2>14
  <2>16. Cambia(t, x)
    BY <2>8, <2>15
  <2>17. AL!Next
    BY ZenonT(60), <2>11, <2>15, <2>16, EsTruncar
  <2> QED
    BY <2>8, <2>17
<1> QED
  BY <1>2, <1>3

\* DELETE takes effect for the users of its tag when it takes the mutex.
LEMMA DeleteFiel ==
    ASSUME TypeOK, Disciplina, Reparto, Fiel, NEW w \in Workers, NEW t \in Tags, Delete(w, t)
    PROVE  Fiel' /\ (AL!Next \/ UNCHANGED Vista)
<1>1. En(w, "ocioso") /\ UNCHANGED disco
  BY DEF Delete, Pide
<1>2. CASE Fin(w, "error")
  BY <1>1, <1>2, RechazoFiel DEF Respuestas
<1>3. CASE ~ Fin(w, "error")
  <2> DEFINE g == [Ocioso EXCEPT !.op = "DELETE", !.tag = t, !.m = meta[t],
                                 !.pc = IF meta[t].n = 0 THEN "quitar" ELSE "borrar"]
  <2>1. g \in Hilo /\ g.op = "DELETE" /\ g.tag = t
    BY Tipos DEF Hilo, Pasos, OperacionesFS, Ocioso, TypeOK
  <2>2. t \in archivos /\ Toma(w, t, g)
    BY <1>3 DEF Delete
  <2> HIDE DEF g
  <2>3. EnMemoria(g)
    BY <2>1 DEF EnMemoria
  <2>4. /\ Fiel' /\ \A x : Visto(t)' = x => Cambia(t, x)
        /\ Visto(t) = Ficha(meta[t].size, meta[t].estado, meta[t].n, meta[t].blocks, contenido)
        /\ Visto(t)' = Mira(g, t \in archivos, meta[t], contenido)
    BY <1>1, <2>1, <2>2, <2>3, TomaFiel
  <2>5. Presente(t)
    BY <2>4 DEF Presente, Ficha
  <2>6. Visto(t)' = AL!Ausente
    BY <2>1, <2>4 DEF Mira
  <2> QED
    BY <2>4, <2>5, <2>6, EsBorrar
<1> QED
  BY <1>2, <1>3

\* A File:Tag without size has no blocks.
LEMMA SinTamanio == Necesarios(0) = 0
<1>1. BlockSize \in Nat /\ BlockSize > 0
  BY TamaniosAssumption
<1>2. \A n \in Nat : n > 0 => (0 + n - 1) \div n = 0
  OBVIOUS
<1> QED
  BY <1>1, <1>2 DEF Necesarios

\* The record of a File:Tag just created.
LEMMA NuevoEs == AL!Nuevo = [existe |-> TRUE, size |-> 0, estado |-> "WORK_IN_PROGRESS", datos |-> AL!SinDatos]
<1>1. PICK no, si : no = FALSE /\ si = TRUE
  OBVIOUS
<1>2. AL!Ausente = [existe |-> no, size |-> 0, estado |-> "WORK_IN_PROGRESS", datos |-> AL!SinDatos]
  BY Zenon, <1>1 DEF AL!Ausente
<1>3. AL!Nuevo = [AL!Ausente EXCEPT !.existe = si]
  BY Zenon, <1>1 DEF AL!Nuevo
<1>4. AL!Ausente \in [existe : {no}, size : {0}, estado : {"WORK_IN_PROGRESS"}, datos : {AL!SinDatos}]
  BY <1>2
<1>5. [AL!Ausente EXCEPT !.existe = si]
      = [existe |-> si, size |-> 0, estado |-> "WORK_IN_PROGRESS", datos |-> AL!SinDatos]
  BY <1>4
<1> QED
  BY Zenon, <1>1, <1>3, <1>5

\* A new File:Tag, from CREATE or from TAG.
LEMMA CreaFiel ==
    ASSUME TypeOK, Disciplina, SinCommitear, Reparto, Fiel, NEW w \in Workers, NEW h1 \in Hilo,
           NEW t \in Tags, hilo' = [hilo EXCEPT ![w] = h1], CrearTag(t),
           lock[t] = Nadie, lock'[t] = Nadie, hilo[w].op \notin Sobre, h1.op \notin Sobre,
           \A s \in Tags : lock'[s] = lock[s] \/ {lock[s], lock'[s]} \subseteq {w, Nadie},
           EnMemoria(h1)'
    PROVE  Fiel' /\ AL!Next
<1>1. /\ t \notin archivos /\ t \in archivos' /\ meta'[t] = MetaVacia
      /\ \A s \in Tags : s # t => meta'[s] = meta[s] /\ ((s \in archivos') <=> (s \in archivos))
      /\ UNCHANGED <<contenido, enlaces, indice>>
  BY DEF CrearTag, SinCommitear, TypeOK
<1>2. AlFrente(t, Ocioso) /\ AlFrente(t, Ocioso)'
  BY NadieAlFrente, WorkersAssumption DEF AlFrente
<1>3. /\ Visto(t) = Mira(Ocioso, t \in archivos, meta[t], contenido)
      /\ Visto(t)' = Mira(Ocioso, t \in archivos', meta'[t], contenido')
  BY <1>2, VistoEs, VistoSera
<1>4. Visto(t) = AL!Ausente
  BY <1>1, <1>3 DEF Mira
<1>5. Visto(t)' = Ficha(0, "WORK_IN_PROGRESS", 0, SinEnlaces, contenido')
  BY <1>1, <1>3 DEF Mira, Lista, Ocioso, MetaVacia
<1>6. Visto(t)' = AL!Nuevo
  <2>1. \A l \in Logicos : l >= Necesarios(0)
    BY SinTamanio DEF Logicos
  <2>2. Visto(t)' = [existe |-> TRUE, size |-> 0, estado |-> "WORK_IN_PROGRESS", datos |-> AL!SinDatos]
    BY <1>5, <2>1 DEF Ficha, AL!SinDatos, AL!Nada, AL!Logicos, Logicos
  <2> QED
    BY <2>2, NuevoEs
<1>7. ~ Presente(t)
  BY <1>4 DEF Presente, AL!Ausente
<1>8. meta'[t].n = Necesarios(meta'[t].size)
  BY <1>1, SinTamanio DEF MetaVacia
<1>9. \A s \in Tags : s # t =>
              /\ lock[s] = w => hilo[w].tag # s \/ hilo[w].op \notin Sobre
              /\ lock'[s] = w => h1.tag # s \/ h1.op \notin Sobre
              /\ lock'[s] = lock[s] \/ {lock[s], lock'[s]} \subseteq {w, Nadie}
              /\ meta'[s] = meta[s] /\ ((s \in archivos') <=> (s \in archivos))
  BY <1>1
<1>10. /\ \A s \in Tags : lock[s] # w => enlaces'[s] = enlaces[s]
       /\ \A b \in Bloques : contenido'[b] # contenido[b] => PorEscribir(hilo[w], b)
       /\ indice'[Cero] = indice[Cero] /\ lock[t] \in {w, Nadie}
  BY <1>1
<1> HIDE DEF EnMemoria, Vista, Fiel
<1>12. SoloTag(w, h1, t)
  BY <1>9, <1>10 DEF SoloTag
<1>11. /\ Fiel'
       /\ \A x : Visto(t)' = x => Cambia(t, x)
       /\ Visto(t)' = Visto(t) => UNCHANGED Vista
  BY <1>8, <1>12, Efecto
<1> QED
  BY <1>6, <1>7, <1>11, EsCrear

\* CREATE.
LEMMA CreateFiel ==
    ASSUME TypeOK, Disciplina, SinCommitear, Reparto, Fiel, NEW w \in Workers, NEW t \in Tags, Create(w, t)
    PROVE  Fiel' /\ (AL!Next \/ UNCHANGED Vista)
<1>1. En(w, "ocioso") /\ lock[t] = Nadie
  BY DEF Create, Pide
<1>2. CASE Fin(w, "preexistente") /\ UNCHANGED disco
  BY <1>1, <1>2, RechazoFiel DEF Respuestas
<1>3. CASE CrearTag(t) /\ Fin(w, "ok")
  <2> DEFINE h1 == [Ocioso EXCEPT !.pc = "responder", !.res = "ok"]
  <2>1. h1 \in Hilo /\ h1.op = "ninguna"
    BY Tipos DEF Hilo, Pasos, Respuestas, Ocioso
  <2>2. /\ hilo' = [hilo EXCEPT ![w] = h1] /\ lock'[t] = Nadie
        /\ \A s \in Tags : lock'[s] = lock[s] \/ {lock[s], lock'[s]} \subseteq {w, Nadie}
    BY <1>1, <1>3 DEF Fin
  <2> HIDE DEF h1
  <2>3. EnMemoria(h1)' /\ h1.op \notin Sobre
    BY <2>1 DEF EnMemoria, Sobre
  <2>4. hilo[w].op \notin Sobre
    BY <1>1, DeFueraSobre DEF En, DeFuera
  <2> QED
    BY <1>1, <1>3, <2>1, <2>2, <2>3, <2>4, CreaFiel
<1> QED
  BY <1>2, <1>3 DEF Create

\* TAG creates its destination, empty, under the mutex of the origin.
LEMMA CrearDestinoFiel ==
    ASSUME TypeOK, Disciplina, SinCommitear, Reparto, Fiel, NEW w \in Workers, CrearDestino(w)
    PROVE  Fiel' /\ (AL!Next \/ UNCHANGED Vista)
<1>1. PICK h \in Hilo : h = hilo[w]
  BY Hechos
<1>2. h.pc = "crear_destino" /\ lock[h.tag] = Nadie /\ h.op = "TAG" /\ h.op \notin Sobre
  BY <1>1, Hechos DEF CrearDestino, En, OperacionesDe, Sobre
<1>3. CASE Fin(w, "preexistente") /\ UNCHANGED disco
  BY <1>1, <1>2, <1>3, FinFiel DEF Respuestas
<1>4. CASE CrearTag(h.tag) /\ Sigue(w, [h EXCEPT !.pc = "tomar_destino"])
  <2>1. PICK h1 \in Hilo : h1 = [h EXCEPT !.pc = "tomar_destino"]
    BY DEF Hilo, Pasos
  <2>2. /\ h1.op = "TAG" /\ h1.tag = h.tag /\ h1.orig = h.orig /\ h1.m = h.m /\ h1.pc = "tomar_destino"
        /\ h.tag \in Tags /\ h.orig \in Tags
    BY <1>2, <2>1 DEF Hilo
  <2>3. h.orig \in archivos
    BY <1>1, <1>2, Hechos DEF EnOrden
  <2>4. h.orig # h.tag
    BY <1>4, <2>3 DEF CrearTag, SinCommitear
  <2>5. meta'[h.orig] = meta[h.orig]
    BY <1>4, <2>2, <2>4 DEF CrearTag, TypeOK
  <2>6. EnMemoria(h)
    BY <1>1 DEF Fiel
  <2>7. EnMemoria(h1)'
    BY <1>2, <2>2, <2>5, <2>6 DEF EnMemoria
  <2>8. hilo' = [hilo EXCEPT ![w] = h1] /\ lock' = lock
    BY <1>4, <2>1 DEF Sigue
  <2>9. h1.op \notin Sobre
    BY <2>2 DEF Sobre
  <2>10. PICK t \in Tags : t = h.tag
    BY <2>2
  <2> HIDE DEF EnMemoria
  <2> QED
    BY <1>1, <1>2, <1>4, <2>7, <2>8, <2>9, <2>10, CreaFiel
<1> QED
  BY <1>1, <1>3, <1>4 DEF CrearDestino

\* Taking the mutex of the destination does not show.
LEMMA TomarDestinoFiel ==
    ASSUME TypeOK, Disciplina, Reparto, Fiel, NEW w \in Workers, TomarDestino(w)
    PROVE  Fiel' /\ UNCHANGED Vista
<1>1. PICK h \in Hilo : h = hilo[w]
  BY Hechos
<1>2. h.pc = "tomar_destino" /\ lock[h.tag] = Nadie /\ h.op = "TAG" /\ h.op \notin Sobre /\ h.tag \in Tags
  BY <1>1, Hechos DEF TomarDestino, En, OperacionesDe, Sobre, Hilo
<1>3. UNCHANGED disco
  BY DEF TomarDestino
<1>4. CASE Fin(w, "error")
  BY <1>1, <1>2, <1>3, <1>4, FinFiel DEF Respuestas
<1>5. CASE ~ Fin(w, "error")
  <2> DEFINE g == [h EXCEPT !.pc = IF h.m.n = 0 THEN "guardar" ELSE "copiar_enlace",
                            !.m.estado = meta[h.tag].estado]
  <2>1. h.tag \in archivos /\ Toma(w, h.tag, g)
    BY <1>1, <1>5 DEF TomarDestino
  <2>2. /\ g \in Hilo /\ g.op = "TAG" /\ g.tag = h.tag /\ g.orig = h.orig
        /\ g.m.estado = meta[h.tag].estado /\ g.m.size = h.m.size
    <3>1. meta[h.tag].estado \in Estados
      BY <1>2 DEF TypeOK, Metadata
    <3> QED
      BY <1>2, <3>1 DEF Hilo, Pasos, Metadata
  <2> HIDE DEF g
  <2>3. PICK h1 \in Hilo : h1 = g
    BY <2>2
  <2>4. UNCHANGED <<meta, archivos, contenido, indice, enlaces>>
    BY <1>3 DEF disco
  <2>5. Entera(h.tag)
    BY <1>2, <2>1 DEF Disciplina, MetadataRespaldada
  <2>6. h.m.size = meta[h.orig].size
    BY <1>1, <1>2 DEF Fiel, EnMemoria
  <2>7. EnMemoria(h1)'
    BY <2>2, <2>3, <2>4, <2>5, <2>6 DEF EnMemoria, Entera
  <2>8. /\ hilo' = [hilo EXCEPT ![w] = h1]
        /\ \A s \in Tags : lock'[s] = lock[s] \/ {lock[s], lock'[s]} \subseteq {w, Nadie}
    BY <2>1, <2>3 DEF Toma, TypeOK
  <2>9. h1.op \notin Sobre
    BY <2>2, <2>3 DEF Sobre
  <2> HIDE DEF EnMemoria
  <2> QED
    BY <1>1, <1>2, <2>4, <2>7, <2>8, <2>9, Invisible
<1> QED
  BY <1>4, <1>5

\* The links of the destination do not show until its metadata lists them.
LEMMA CopiarEnlaceFiel ==
    ASSUME TypeOK, Disciplina, Reparto, Fiel, NEW w \in Workers, CopiarEnlace(w)
    PROVE  Fiel' /\ UNCHANGED Vista
<1>1. PICK h \in Hilo : h = hilo[w]
  BY Hechos
<1>2. /\ h.pc = "copiar_enlace" /\ h.op = "TAG" /\ h.op \notin Sobre /\ h.tag \in Tags /\ h.i \in Logicos
      /\ Entera(h.tag) /\ lock[h.tag] = w
  <2>1. h.pc = "copiar_enlace" /\ h.op \in OperacionesDe(h.pc) /\ EnOrden(h)
        /\ \A t \in Tags : lock[t] = w <=> t \in Posee(h)
    BY <1>1, Hechos DEF CopiarEnlace, En
  <2>2. h.op = "TAG" /\ h.tag \in Tags /\ h.i \in Logicos
    BY <2>1 DEF OperacionesDe, Hilo
  <2>3. h.tag \in Posee(h)
    BY <2>1, <2>2 DEF Posee
  <2> QED
    BY <2>1, <2>2, <2>3 DEF EnOrden, Sobre
<1>3. UNCHANGED <<ocupado, contenido, directorios, archivos, meta, indice>>
  BY DEF CopiarEnlace
<1>4. CASE Fin(w, "error") /\ UNCHANGED enlaces
  <2>1. UNCHANGED disco
    BY <1>3, <1>4 DEF disco
  <2> QED
    BY <1>1, <1>2, <1>4, <2>1, FinFiel DEF Respuestas
<1>5. CASE ~ (Fin(w, "error") /\ UNCHANGED enlaces)
  <2>1. /\ enlaces[h.tag][h.i] = SinBloque
        /\ enlaces' = [enlaces EXCEPT ![h.tag][h.i] = h.m.blocks[h.i]]
        /\ Sigue(w, IF h.i + 1 < h.m.n THEN [h EXCEPT !.i = @ + 1] ELSE [h EXCEPT !.pc = "guardar"])
    BY <1>1, <1>5 DEF CopiarEnlace
  <2>2. PICK h1 \in Hilo : /\ Sigue(w, h1) /\ h1.op = "TAG" /\ h1.tag = h.tag /\ h1.orig = h.orig
                           /\ h1.m = h.m
    <3>1. CASE h.i + 1 < h.m.n
      <4>1. h.i + 1 \in Logicos
        <5>1. h.m.n \in 0 .. MaxLogicos
          BY DEF Hilo, Metadata
        <5> QED
          BY <1>2, <3>1, <5>1, LogicosAssumption DEF Logicos
      <4>2. /\ [h EXCEPT !.i = @ + 1] \in Hilo /\ [h EXCEPT !.i = @ + 1].op = "TAG"
            /\ [h EXCEPT !.i = @ + 1].tag = h.tag /\ [h EXCEPT !.i = @ + 1].orig = h.orig
            /\ [h EXCEPT !.i = @ + 1].m = h.m
        BY <1>2, <4>1 DEF Hilo
      <4> QED
        BY <2>1, <3>1, <4>2
    <3>2. CASE ~ (h.i + 1 < h.m.n)
      <4>1. /\ [h EXCEPT !.pc = "guardar"] \in Hilo /\ [h EXCEPT !.pc = "guardar"].op = "TAG"
            /\ [h EXCEPT !.pc = "guardar"].tag = h.tag /\ [h EXCEPT !.pc = "guardar"].orig = h.orig
            /\ [h EXCEPT !.pc = "guardar"].m = h.m
        BY <1>2 DEF Hilo, Pasos
      <4> QED
        BY <2>1, <3>2, <4>1
    <3> QED
      BY <3>1, <3>2
  <2>3. Entera(h.tag)'
    BY <1>2, <1>3, <2>1 DEF Entera, TypeOK
  <2>4. EnMemoria(h)
    BY <1>1 DEF Fiel
  <2>5. h.m.size = meta[h.orig].size /\ h.m.estado = meta[h.tag].estado
    BY <1>2, <2>4 DEF EnMemoria
  <2>6. EnMemoria(h1)'
    BY <1>3, <2>2, <2>3, <2>5 DEF EnMemoria, Entera
  <2>7. hilo' = [hilo EXCEPT ![w] = h1] /\ lock' = lock
    BY <2>2 DEF Sigue
  <2>8. \A s \in Tags : lock[s] # w => enlaces'[s] = enlaces[s]
    BY <1>2, <2>1 DEF TypeOK
  <2>9. h1.op \notin Sobre
    BY <2>2 DEF Sobre
  <2> HIDE DEF EnMemoria
  <2>10. \A s \in Tags : lock'[s] = lock[s] \/ {lock[s], lock'[s]} \subseteq {w, Nadie}
    BY <2>7
  <2> QED
    BY <1>1, <1>2, <1>3, <2>6, <2>7, <2>8, <2>9, <2>10, Invisible
<1> QED
  BY <1>4, <1>5

\* A step of a writing operation that leaves the blocks of its tag and their
\* contents as they were.
LEMMA MismaLista ==
    ASSUME TypeOK, Disciplina, Reparto, Fiel, NEW w \in Workers, NEW h \in Hilo, NEW h1 \in Hilo,
           h = hilo[w], Sigue(w, h1), h.op \in Sobre,
           h1.op = h.op, h1.tag = h.tag, h1.arg = h.arg,
           UNCHANGED <<meta, archivos, contenido>>,
           \A s \in Tags : s # h.tag => enlaces'[s] = enlaces[s],
           h.op \in {"WRITE", "COMMIT"} => Lista(h1, meta[h.tag]) = Lista(h, meta[h.tag]),
           indice'[Cero] = indice[Cero], EnMemoria(h1)'
    PROVE  Fiel' /\ UNCHANGED Vista
<1>1. hilo' = [hilo EXCEPT ![w] = h1] /\ UNCHANGED lock
  BY DEF Sigue
<1>2. h.op \in {"WRITE", "COMMIT"} =>
        \A l \in Logicos : l < meta[h.tag].n =>
           contenido'[Lista(h1, meta[h.tag])[l]] = contenido[Lista(h, meta[h.tag])[l]]
  OBVIOUS
<1>3. h.op \notin {"WRITE", "COMMIT"} => UNCHANGED contenido
  OBVIOUS
<1>4. \A b \in Bloques : contenido'[b] # contenido[b] => PorEscribir(h, b)
  OBVIOUS
<1>5. UNCHANGED <<lock, meta, archivos>>
  BY <1>1
<1> HIDE DEF EnMemoria, Lista, Sobre
<1> QED
  BY ZenonT(60), <1>1, <1>2, <1>3, <1>4, <1>5, EnSuSeccion

\* Choosing between writing in place and in a new block.
LEMMA ContarParaEscribirFiel ==
    ASSUME TypeOK, Disciplina, Reparto, Fiel, NEW w \in Workers, ContarParaEscribir(w)
    PROVE  Fiel' /\ UNCHANGED Vista
<1>1. PICK h \in Hilo : h = hilo[w]
  BY Hechos
<1>2. h.pc = "escribir" /\ h.op = "WRITE" /\ EnMemoria(h)
  BY <1>1, Hechos DEF ContarParaEscribir, En, OperacionesDe, Fiel
<1>3. PICK h1 \in Hilo : /\ Sigue(w, h1) /\ h1.op = "WRITE" /\ h1.tag = h.tag /\ h1.arg = h.arg
                         /\ h1.m = h.m /\ h1.pc \in {"en_sitio", "reservar"}
  <2>1. \A p \in Pasos : /\ [h EXCEPT !.pc = p] \in Hilo /\ [h EXCEPT !.pc = p].op = "WRITE"
                         /\ [h EXCEPT !.pc = p].tag = h.tag /\ [h EXCEPT !.pc = p].arg = h.arg
                         /\ [h EXCEPT !.pc = p].m = h.m /\ [h EXCEPT !.pc = p].pc = p
    BY <1>2 DEF Hilo
  <2>2. \E p \in {"en_sitio", "reservar"} : Sigue(w, [h EXCEPT !.pc = p])
    BY <1>1 DEF ContarParaEscribir
  <2> QED
    BY <2>1, <2>2 DEF Pasos
<1>4. UNCHANGED <<meta, archivos, contenido, enlaces, indice>>
  BY DEF ContarParaEscribir, disco
<1>5. EnMemoria(h1)'
  BY <1>2, <1>3, <1>4 DEF EnMemoria
<1>6. Lista(h1, meta[h.tag]) = Lista(h, meta[h.tag]) /\ h.op \in Sobre
  BY <1>2, <1>3 DEF Lista, Sobre
<1> HIDE DEF EnMemoria, Lista, Sobre
<1> QED
  BY <1>1, <1>2, <1>3, <1>4, <1>5, <1>6, MismaLista

\* A new block is nobody's yet.
LEMMA ReservarBloqueFiel ==
    ASSUME TypeOK, Disciplina, Reparto, Fiel, NEW w \in Workers, ReservarBloque(w), Libres # {}
    PROVE  Fiel' /\ UNCHANGED Vista
<1>1. PICK h \in Hilo : h = hilo[w]
  BY Hechos
<1>2. h.pc = "reservar" /\ h.op = "WRITE" /\ EnMemoria(h)
  BY <1>1, Hechos DEF ReservarBloque, En, OperacionesDe, Fiel
<1>3. PICK h1 \in Hilo : /\ Sigue(w, h1) /\ h1.op = "WRITE" /\ h1.tag = h.tag /\ h1.arg = h.arg
                         /\ h1.m = h.m /\ h1.pc = "copiar"
  <2>1. \A b \in Bloques : LET g == [h EXCEPT !.pc = "copiar", !.b = b] IN
           /\ g \in Hilo /\ g.op = "WRITE" /\ g.tag = h.tag /\ g.arg = h.arg
           /\ g.m = h.m /\ g.pc = "copiar"
    BY <1>2 DEF Hilo, Pasos, BloqueO
  <2>2. Sigue(w, [h EXCEPT !.pc = "copiar", !.b = PrimerLibre])
    BY <1>1 DEF ReservarBloque
  <2>3. PrimerLibre \in Bloques
    BY PrimerLibreTipo
  <2> QED
    BY <2>1, <2>2, <2>3
<1>4. UNCHANGED <<meta, archivos, contenido, enlaces, indice>>
  BY DEF ReservarBloque
<1>5. EnMemoria(h1)'
  BY <1>2, <1>3, <1>4 DEF EnMemoria
<1>6. Lista(h1, meta[h.tag]) = Lista(h, meta[h.tag]) /\ h.op \in Sobre
  BY <1>2, <1>3 DEF Lista, Sobre
<1> HIDE DEF EnMemoria, Lista, Sobre
<1> QED
  BY <1>1, <1>2, <1>3, <1>4, <1>5, <1>6, MismaLista

\* Link, of WRITE or of COMMIT: the block was seen in its place already.
LEMMA EnlazarFiel ==
    ASSUME TypeOK, Disciplina, Reparto, Fiel, NEW w \in Workers, Enlazar(w)
    PROVE  Fiel' /\ UNCHANGED Vista
<1>1. PICK h \in Hilo : h = hilo[w]
  BY Hechos
<1>2. /\ h.pc = "enlazar" /\ h.op \in {"WRITE", "COMMIT"} /\ EnMemoria(h)
      /\ h.m \in Metadata /\ h.b \in BloqueO /\ h.i \in Logicos
  BY <1>1, Hechos DEF Enlazar, En, OperacionesDe, Fiel, Hilo
<1>3. PICK m1 \in Metadata : /\ m1 = [h.m EXCEPT !.blocks[h.i] = h.b]
                             /\ m1.n = h.m.n /\ m1.size = h.m.size /\ m1.estado = h.m.estado
                             /\ m1.blocks = [h.m.blocks EXCEPT ![h.i] = h.b]
  <2> DEFINE bs == [h.m.blocks EXCEPT ![h.i] = h.b]
  <2>1. bs \in [Logicos -> BloqueO]
    BY <1>2 DEF Metadata
  <2>2. [h.m EXCEPT !.blocks[h.i] = h.b] = [h.m EXCEPT !.blocks = bs]
    OBVIOUS
  <2> HIDE DEF bs
  <2>3. LET m1 == [h.m EXCEPT !.blocks = bs] IN
          m1 \in Metadata /\ m1.n = h.m.n /\ m1.size = h.m.size /\ m1.estado = h.m.estado /\ m1.blocks = bs
    BY <1>2, <2>1 DEF Metadata
  <2> QED
    BY <2>2, <2>3 DEF bs
<1>4. PICK h1 \in Hilo : /\ Sigue(w, h1) /\ h1.op = h.op /\ h1.tag = h.tag /\ h1.arg = h.arg
                         /\ h1.m = m1 /\ h1.pc \in {"guardar", "contar"}
  <2>1. Reasignada(h) = [h EXCEPT !.m = m1] 
    BY <1>3 DEF Reasignada
  <2>2. CASE h.op = "WRITE"
    <3>1. LET g == [h EXCEPT !.m = m1, !.pc = "guardar"] IN
           /\ g \in Hilo /\ g.op = h.op /\ g.tag = h.tag /\ g.arg = h.arg /\ g.m = m1 /\ g.pc = "guardar"
      BY DEF Hilo, Pasos
    <3>2. Sigue(w, [h EXCEPT !.m = m1, !.pc = "guardar"])
      BY <1>1, <2>1, <2>2 DEF Enlazar
    <3> QED
      BY <3>1, <3>2
  <2>3. CASE h.op # "WRITE"
    <3> DEFINE b == h.m.blocks[h.i]
    <3>1. b \in BloqueO
      BY <1>2 DEF Metadata
    <3>2. Sigue(w, [h EXCEPT !.m = m1, !.pc = "contar", !.b = b])
      BY <1>1, <2>1, <2>3 DEF Enlazar
    <3> HIDE DEF b
    <3>3. LET g == [h EXCEPT !.m = m1, !.pc = "contar", !.b = b] IN
           /\ g \in Hilo /\ g.op = h.op /\ g.tag = h.tag /\ g.arg = h.arg /\ g.m = m1 /\ g.pc = "contar"
      BY <3>1 DEF Hilo, Pasos
    <3> QED
      BY <3>2, <3>3
  <2> QED
    BY <2>2, <2>3
<1>5. UNCHANGED <<meta, archivos, contenido, indice>>
  BY DEF Enlazar
<1>6. \A s \in Tags : s # h.tag => enlaces'[s] = enlaces[s]
  BY <1>1 DEF Enlazar, TypeOK
<1>7. EnMemoria(h1)'
  BY <1>2, <1>3, <1>4, <1>5 DEF EnMemoria
<1>8. Lista(h1, meta[h.tag]) = Lista(h, meta[h.tag]) /\ h.op \in Sobre
  BY <1>2, <1>3, <1>4 DEF Lista, Sobre
<1> HIDE DEF EnMemoria, Lista, Sobre
<1> QED
  BY <1>1, <1>2, <1>4, <1>5, <1>6, <1>7, <1>8, MismaLista

\* Nor is it seen while it is written.
LEMMA EscribirNuevoFiel ==
    ASSUME TypeOK, Disciplina, Reparto, Fiel, NEW w \in Workers, EscribirNuevo(w)
    PROVE  Fiel' /\ UNCHANGED Vista
<1>1. PICK h \in Hilo : h = hilo[w]
  BY Hechos
<1>2. h.pc = "copiar" /\ h.op = "WRITE" /\ EnMemoria(h) /\ Listados(h)
  BY <1>1, Hechos DEF EscribirNuevo, En, OperacionesDe, Fiel
<1>3. h.tag \in Tags /\ h.b \in Bloques /\ h.m \in Metadata /\ h.dato \in Contenidos
  BY <1>2 DEF Hilo, Listados, BloqueO
<1>4. PICK h1 \in Hilo : /\ Sigue(w, h1) /\ h1.op = "WRITE" /\ h1.tag = h.tag /\ h1.arg = h.arg
                         /\ h1.m = h.m /\ h1.pc = "desenlazar" /\ h1.b = h.b /\ h1.dato = h.dato
  <2>1. LET g == [h EXCEPT !.pc = "desenlazar"] IN
           /\ g \in Hilo /\ g.op = "WRITE" /\ g.tag = h.tag /\ g.arg = h.arg
           /\ g.m = h.m /\ g.pc = "desenlazar" /\ g.b = h.b /\ g.dato = h.dato
    BY <1>2 DEF Hilo, Pasos
  <2>2. Sigue(w, [h EXCEPT !.pc = "desenlazar"])
    BY <1>1 DEF EscribirNuevo
  <2> QED
    BY <2>1, <2>2
<1>5. UNCHANGED <<meta, archivos, enlaces, indice>> /\ contenido' = [contenido EXCEPT ![h.b] = h.dato]
  BY <1>1 DEF EscribirNuevo
<1>6. contenido'[h.b] = h.dato /\ \A b : b # h.b => contenido'[b] = contenido[b]
  <2>1. contenido'[h.b] = h.dato
    BY <1>3, <1>5 DEF TypeOK
  <2>2. ASSUME NEW b, b # h.b PROVE contenido'[b] = contenido[b]
    BY <1>5, <2>2
  <2> QED
    BY <2>1, <2>2
<1>7. EnMemoria(h1)'
  BY <1>2, <1>4, <1>5, <1>6 DEF EnMemoria
<1>8. Lista(h1, meta[h.tag]) = h.m.blocks /\ Lista(h, meta[h.tag]) = h.m.blocks /\ h.op \in Sobre
  BY <1>2, <1>4 DEF Lista, Sobre
<1>9. ASSUME NEW l \in Logicos, l < meta[h.tag].n
      PROVE  contenido'[h.m.blocks[l]] = contenido[h.m.blocks[l]]
  <2>1. enlaces[h.tag][l] = h.m.blocks[l]
    <3>1. \A j \in Coinciden(h) : Coincide(h, j)
      BY <1>1, <1>2, Seccion
    <3>2. l \in Coinciden(h)
      BY <1>2, <1>9 DEF Coinciden, EnMemoria
    <3> QED
      BY <3>1, <3>2 DEF Coincide
  <2>2. enlaces[h.tag][l] # h.b
    BY <1>1, <1>2, <1>3, EscritoPropio DEF PorEscribir
  <2> QED
    BY <1>6, <2>1, <2>2
<1>10. h.op \in {"WRITE", "COMMIT"} =>
        \A l \in Logicos : l < meta[h.tag].n =>
           contenido'[Lista(h1, meta[h.tag])[l]] = contenido[Lista(h, meta[h.tag])[l]]
  BY <1>8, <1>9
<1>11. h.op \notin {"WRITE", "COMMIT"} => UNCHANGED contenido
  BY <1>2
<1>12. \A b \in Bloques : contenido'[b] # contenido[b] => PorEscribir(h, b)
  BY <1>2, <1>6 DEF PorEscribir
<1>13. UNCHANGED <<lock, meta, archivos>> /\ hilo' = [hilo EXCEPT ![w] = h1]
  BY <1>4, <1>5 DEF Sigue
<1>14. h1.op = h.op /\ indice'[Cero] = indice[Cero] /\ \A s \in Tags : s # h.tag => enlaces'[s] = enlaces[s]
  BY <1>2, <1>4, <1>5
<1> HIDE DEF EnMemoria, Lista, Sobre
<1> QED
  BY ZenonT(60), <1>1, <1>4, <1>7, <1>8, <1>10, <1>11, <1>12, <1>13, <1>14, EnSuSeccion

\* COMMIT unlinks a block whose contents it has found in another.
LEMMA DesenlazarCommitFiel ==
    ASSUME TypeOK, Disciplina, Reparto, Fiel, NEW w \in Workers, Desenlazar(w), hilo[w].op = "COMMIT"
    PROVE  Fiel' /\ UNCHANGED Vista
<1>1. PICK h \in Hilo : h = hilo[w]
  BY Hechos
<1>2. h.pc = "desenlazar" /\ h.op = "COMMIT" /\ EnMemoria(h)
  BY <1>1 DEF Desenlazar, En, Fiel
<1>3. h.tag \in Tags /\ h.m \in Metadata /\ h.i \in Logicos /\ Coincide(h, h.i)
  <2>1. /\ \A j \in Coinciden(h) : Coincide(h, j) 
        /\ Indices(h) /\ h.tag \in Tags /\ h.m \in Metadata /\ h.i \in Logicos
    BY <1>1, <1>2, Seccion
  <2>2. h.i \in Coinciden(h)
    BY <1>2, <2>1 DEF Coinciden, Indices
  <2> QED
    BY <2>1, <2>2
<1>4. PICK h1 \in Hilo : /\ Sigue(w, h1) /\ h1.op = "COMMIT" /\ h1.tag = h.tag /\ h1.arg = h.arg
                         /\ h1.m = h.m /\ h1.pc = "enlazar" /\ h1.b = h.b /\ h1.i = h.i
  <2>1. LET g == [h EXCEPT !.pc = "enlazar"] IN
           /\ g \in Hilo /\ g.op = "COMMIT" /\ g.tag = h.tag /\ g.arg = h.arg
           /\ g.m = h.m /\ g.pc = "enlazar" /\ g.b = h.b /\ g.i = h.i
    BY <1>2 DEF Hilo, Pasos
  <2>2. Sigue(w, [h EXCEPT !.pc = "enlazar"])
    BY <1>1, <1>3 DEF Desenlazar, Coincide
  <2> QED
    BY <2>1, <2>2
<1>5. UNCHANGED <<meta, archivos, contenido, indice>> /\ \A s \in Tags : s # h.tag => enlaces'[s] = enlaces[s]
  BY <1>1 DEF Desenlazar, TypeOK
<1>6. contenido[h.b] = contenido[h.m.blocks[h.i]]
  BY <1>2 DEF EnMemoria
<1>7. EnMemoria(h1)'
  BY <1>2, <1>4, <1>5 DEF EnMemoria
<1>8. /\ Lista(h1, meta[h.tag]) = [h.m.blocks EXCEPT ![h.i] = h.b] /\ Lista(h, meta[h.tag]) = h.m.blocks
      /\ h.op \in Sobre
  BY <1>2, <1>4 DEF Lista, Sobre
<1>9. \A l \in Logicos : contenido'[[h.m.blocks EXCEPT ![h.i] = h.b][l]] = contenido[h.m.blocks[l]]
  BY <1>3, <1>5, <1>6 DEF Metadata
<1>10. h.op \in {"WRITE", "COMMIT"} =>
        \A l \in Logicos : l < meta[h.tag].n =>
           contenido'[Lista(h1, meta[h.tag])[l]] = contenido[Lista(h, meta[h.tag])[l]]
  BY <1>8, <1>9
<1>11. h.op \notin {"WRITE", "COMMIT"} => UNCHANGED contenido
  BY <1>2
<1>12. \A b \in Bloques : contenido'[b] # contenido[b] => PorEscribir(h, b)
  BY <1>5
<1>13. UNCHANGED <<lock, meta, archivos>> /\ hilo' = [hilo EXCEPT ![w] = h1]
  BY <1>4, <1>5 DEF Sigue
<1>14. h1.op = h.op /\ indice'[Cero] = indice[Cero] /\ \A s \in Tags : s # h.tag => enlaces'[s] = enlaces[s]
  BY <1>2, <1>4, <1>5
<1> HIDE DEF EnMemoria, Lista, Sobre
<1> QED
  BY ZenonT(60), <1>1, <1>4, <1>7, <1>8, <1>10, <1>11, <1>12, <1>13, <1>14, EnSuSeccion

\* The next round of DELETE or COMMIT.
LEMMA AvanzaFiel ==
    ASSUME TypeOK, Disciplina, Reparto, Fiel, NEW w \in Workers, NEW h \in Hilo, h = hilo[w],
           h.op \in {"DELETE", "COMMIT"}, h.i < h.m.n, h.pc # "enlazar", Sigue(w, Avanza(h)),
           UNCHANGED <<meta, archivos, contenido, enlaces>>, indice'[Cero] = indice[Cero]
    PROVE  Fiel' /\ UNCHANGED Vista
<1>1. PICK h1 \in Hilo : h1 = Avanza(h)
  BY AvanzaTipo
<1>2. /\ h1.op = h.op /\ h1.tag = h.tag /\ h1.m.blocks = h.m.blocks
      /\ h1.pc \in {"borrar", "commitear", "quitar", "guardar"}
  BY <1>1, AvanzaHechos
<1>3. h1.arg = h.arg /\ h1.m.n = h.m.n /\ h1.m.size = h.m.size
  <2>1. h.m \in Metadata
    BY DEF Hilo
  <2>2. CASE h.i + 1 < h.m.n
    BY <1>1, <2>2 DEF Avanza, Hilo
  <2>3. CASE ~ (h.i + 1 < h.m.n)
    BY <1>1, <2>1, <2>3 DEF Avanza, Hilo, Metadata
  <2> QED
    BY <2>2, <2>3
<1>4. EnMemoria(h)
  BY DEF Fiel
<1>5. EnMemoria(h1)'
  BY <1>2, <1>3, <1>4 DEF EnMemoria
<1>6. h.op \in {"WRITE", "COMMIT"} => Lista(h1, meta[h.tag]) = Lista(h, meta[h.tag])
  BY <1>2 DEF Lista
<1>7. h.op \in Sobre /\ Sigue(w, h1) /\ \A s \in Tags : s # h.tag => enlaces'[s] = enlaces[s]
  BY <1>1 DEF Sobre
<1> HIDE DEF EnMemoria, Lista, Sobre
<1> QED
  BY <1>2, <1>3, <1>5, <1>6, <1>7, MismaLista

\* A step of DELETE, or of COMMIT with the blocks as they are, to another step.
LEMMA PasaFiel ==
    ASSUME TypeOK, Disciplina, Reparto, Fiel, NEW w \in Workers, NEW h \in Hilo, h = hilo[w],
           h.op \in {"DELETE", "COMMIT"}, h.pc # "enlazar", NEW h1 \in Hilo, Sigue(w, h1),
           h1.op = h.op, h1.tag = h.tag, h1.arg = h.arg, h1.m = h.m, h1.i = h.i, h1.pc # "enlazar",
           h1.pc = "desenlazar" => contenido[h1.b] = contenido[h1.m.blocks[h1.i]],
           UNCHANGED <<meta, archivos, contenido, indice>>,
           \A s \in Tags : s # h.tag => enlaces'[s] = enlaces[s]
    PROVE  Fiel' /\ UNCHANGED Vista
<1>1. EnMemoria(h)
  BY DEF Fiel
<1>2. EnMemoria(h1)'
  BY <1>1 DEF EnMemoria
<1>3. h.op \in {"WRITE", "COMMIT"} => Lista(h1, meta[h.tag]) = Lista(h, meta[h.tag])
  BY DEF Lista
<1>4. h.op \in Sobre
  BY DEF Sobre
<1> HIDE DEF EnMemoria, Lista, Sobre
<1> QED
  BY <1>2, <1>3, <1>4, MismaLista

\* DELETE took effect at the start: its links go unseen.
LEMMA BorrarEnlaceFiel ==
    ASSUME TypeOK, Disciplina, Reparto, Fiel, NEW w \in Workers, BorrarEnlace(w)
    PROVE  Fiel' /\ UNCHANGED Vista
<1>1. PICK h \in Hilo : h = hilo[w]
  BY Hechos
<1>2. h.pc = "borrar" /\ h.op = "DELETE"
  BY <1>1, Hechos DEF BorrarEnlace, En, OperacionesDe
<1>3. h.tag \in Tags /\ h.m \in Metadata /\ h.i \in Logicos /\ Coincide(h, h.i)
  <2>1. /\ \A j \in Coinciden(h) : Coincide(h, j) 
        /\ Indices(h) /\ h.tag \in Tags /\ h.m \in Metadata /\ h.i \in Logicos
    BY <1>1, <1>2, Seccion
  <2>2. h.i \in Coinciden(h)
    BY <1>2, <2>1 DEF Coinciden, Indices, Logicos
  <2> QED
    BY <2>1, <2>2
<1>4. PICK h1 \in Hilo : /\ Sigue(w, h1) /\ h1.op = h.op /\ h1.tag = h.tag /\ h1.arg = h.arg
                         /\ h1.m = h.m /\ h1.i = h.i /\ h1.pc = "contar"
  <2> DEFINE b == h.m.blocks[h.i]
  <2>1. b \in BloqueO
    BY <1>3 DEF Metadata
  <2>2. Sigue(w, [h EXCEPT !.pc = "contar", !.b = b])
    BY <1>1, <1>3 DEF BorrarEnlace, Coincide
  <2> HIDE DEF b
  <2>3. LET g == [h EXCEPT !.pc = "contar", !.b = b] IN
           /\ g \in Hilo /\ g.op = h.op /\ g.tag = h.tag /\ g.arg = h.arg
           /\ g.m = h.m /\ g.i = h.i /\ g.pc = "contar"
    BY <2>1 DEF Hilo, Pasos
  <2> QED
    BY <2>2, <2>3
<1>5. UNCHANGED <<meta, archivos, contenido, indice>> /\ \A s \in Tags : s # h.tag => enlaces'[s] = enlaces[s]
  BY <1>1 DEF BorrarEnlace, TypeOK
<1> QED
  BY <1>1, <1>2, <1>4, <1>5, PasaFiel

\* Counting references, in DELETE and in COMMIT.
LEMMA ContarReferenciasFiel ==
    ASSUME TypeOK, Disciplina, Reparto, Fiel, NEW w \in Workers, ContarReferencias(w)
    PROVE  Fiel' /\ UNCHANGED Vista
<1>1. PICK h \in Hilo : h = hilo[w]
  BY Hechos
<1>2. h.pc = "contar" /\ h.op \in {"DELETE", "COMMIT"} /\ h.i < h.m.n
  BY <1>1, Hechos DEF ContarReferencias, En, OperacionesDe, Indices
<1>3. UNCHANGED <<meta, archivos, contenido, enlaces, indice>>
  BY DEF ContarReferencias, disco
<1>4. CASE Sigue(w, Avanza(h))
  BY <1>1, <1>2, <1>3, <1>4, AvanzaFiel
<1>5. CASE Sigue(w, [h EXCEPT !.pc = "liberar"])
  <2>1. PICK h1 \in Hilo : /\ Sigue(w, h1) /\ h1.op = h.op /\ h1.tag = h.tag /\ h1.arg = h.arg
                           /\ h1.m = h.m /\ h1.i = h.i /\ h1.pc = "liberar"
    <3>1. LET g == [h EXCEPT !.pc = "liberar"] IN
           /\ g \in Hilo /\ g.op = h.op /\ g.tag = h.tag /\ g.arg = h.arg
           /\ g.m = h.m /\ g.i = h.i /\ g.pc = "liberar"
      BY DEF Hilo, Pasos
    <3> QED
      BY <1>5, <3>1
  <2> QED
    BY <1>1, <1>2, <1>3, <2>1, PasaFiel
<1> QED
  BY <1>1, <1>4, <1>5 DEF ContarReferencias

\* Freeing a block nobody is linked to.
LEMMA MarcarLibreFiel ==
    ASSUME TypeOK, Disciplina, Reparto, Fiel, NEW w \in Workers, MarcarLibre(w)
    PROVE  Fiel' /\ UNCHANGED Vista
<1>1. PICK h \in Hilo : h = hilo[w]
  BY Hechos
<1>2. h.pc = "liberar" /\ h.op \in {"DELETE", "COMMIT"} /\ h.i < h.m.n
  BY <1>1, Hechos DEF MarcarLibre, En, OperacionesDe, Indices, Reparto, Fundado
<1>3. UNCHANGED <<meta, archivos, contenido, enlaces, indice>> /\ Sigue(w, Avanza(h))
  BY <1>1, <1>2 DEF MarcarLibre
<1> QED
  BY <1>1, <1>2, <1>3, AvanzaFiel

\* The block COMMIT finds in the index has the contents it looked for.
LEMMA BuscarHashFiel ==
    ASSUME TypeOK, Disciplina, Reparto, Fiel, NEW w \in Workers, BuscarHash(w)
    PROVE  Fiel' /\ UNCHANGED Vista
<1>1. PICK h \in Hilo : h = hilo[w]
  BY Hechos
<1>2. h.pc = "commitear" /\ h.op = "COMMIT" /\ h.i < h.m.n
  BY <1>1, Hechos DEF BuscarHash, En, OperacionesDe, Indices
<1>3. UNCHANGED <<meta, archivos, contenido, enlaces, indice>>
  BY DEF BuscarHash, disco
<1>4. h.m.blocks[h.i] \in Bloques
  <2>1. /\ \A j \in Coinciden(h) : Coincide(h, j) 
        /\ Indices(h) /\ h.m \in Metadata /\ h.i \in Logicos
    BY <1>1, <1>2, Seccion
  <2>2. h.i \in Coinciden(h)
    BY <1>2, <2>1 DEF Coinciden
  <2> QED
    BY <2>1, <2>2 DEF Coincide, Metadata, BloqueO
<1>5. CASE Sigue(w, Avanza(h))
  BY <1>1, <1>2, <1>3, <1>5, AvanzaFiel
<1>6. CASE ~ Sigue(w, Avanza(h))
  <2> DEFINE c == contenido[h.m.blocks[h.i]]
  <2>1. c \in Contenidos /\ indice[c] \in BloqueO
    BY <1>4 DEF TypeOK
  <2>2. \/ indice[c] # SinBloque /\ Sigue(w, [h EXCEPT !.pc = "desenlazar", !.b = indice[c]])
        \/ Sigue(w, [h EXCEPT !.pc = "indexar", !.dato = c])
    BY <1>1, <1>6 DEF BuscarHash
  <2>3. indice[c] # SinBloque => contenido[indice[c]] = c
    BY <2>1 DEF Reparto, Globales, IndiceOcupado
  <2> HIDE DEF c
  <2>4. PICK h1 \in Hilo : /\ Sigue(w, h1) /\ h1.op = h.op /\ h1.tag = h.tag /\ h1.arg = h.arg
                           /\ h1.m = h.m /\ h1.i = h.i /\ h1.pc \in {"desenlazar", "indexar"}
                           /\ h1.pc = "desenlazar" => contenido[h1.b] = c
    <3>1. CASE indice[c] # SinBloque /\ Sigue(w, [h EXCEPT !.pc = "desenlazar", !.b = indice[c]])
      <4> DEFINE b == indice[c]
      <4>1. b \in BloqueO /\ contenido[b] = c
        BY <2>1, <2>3, <3>1
      <4> HIDE DEF b
      <4>2. LET g == [h EXCEPT !.pc = "desenlazar", !.b = b] IN
             /\ g \in Hilo /\ g.op = h.op /\ g.tag = h.tag /\ g.arg = h.arg
             /\ g.m = h.m /\ g.i = h.i /\ g.pc = "desenlazar" /\ g.b = b
        BY <4>1 DEF Hilo, Pasos
      <4> QED
        BY <3>1, <4>1, <4>2 DEF b
    <3>2. CASE Sigue(w, [h EXCEPT !.pc = "indexar", !.dato = c])
      <4>1. LET g == [h EXCEPT !.pc = "indexar", !.dato = c] IN
             /\ g \in Hilo /\ g.op = h.op /\ g.tag = h.tag /\ g.arg = h.arg
             /\ g.m = h.m /\ g.i = h.i /\ g.pc = "indexar"
        BY <2>1 DEF Hilo, Pasos
      <4> QED
        BY <3>2, <4>1
    <3> QED
      BY <2>2, <3>1, <3>2
  <2>5. h1.pc = "desenlazar" => contenido[h1.b] = contenido[h1.m.blocks[h1.i]]
    BY <2>4 DEF c
  <2> QED
    BY <1>1, <1>2, <1>3, <2>4, <2>5, PasaFiel
<1> QED
  BY <1>5, <1>6

\* The index is not seen.
LEMMA GuardarHashFiel ==
    ASSUME TypeOK, Disciplina, Reparto, Fiel, NEW w \in Workers, GuardarHash(w)
    PROVE  Fiel' /\ UNCHANGED Vista
<1>1. PICK h \in Hilo : h = hilo[w]
  BY Hechos
<1>2. h.pc = "indexar" /\ h.op = "COMMIT" /\ h.i < h.m.n
  BY <1>1, Hechos DEF GuardarHash, En, OperacionesDe, Indices
<1>3. UNCHANGED <<meta, archivos, contenido, enlaces>> /\ Sigue(w, Avanza(h))
  BY <1>1 DEF GuardarHash
<1>4. indice'[Cero] = indice[Cero]
  <2>1. indice[Cero] # SinBloque
    BY DEF Fiel, SinBloque
  <2>2. CASE indice[h.dato] = SinBloque /\ indice' = [indice EXCEPT ![h.dato] = h.m.blocks[h.i]]
    BY <2>1, <2>2 DEF TypeOK
  <2> QED
    BY <1>1, <2>2 DEF GuardarHash
<1> QED
  BY <1>1, <1>2, <1>3, <1>4, AvanzaFiel

\* A step of TRUNCATE is invisible: it took effect at the start.
LEMMA RecortaFiel ==
    ASSUME TypeOK, Disciplina, Reparto, Fiel, NEW w \in Workers, NEW h \in Hilo, h = hilo[w],
           h.op = "TRUNCATE", NEW h1 \in Hilo, Sigue(w, h1),
           h1.op = h.op, h1.tag = h.tag, h1.arg = h.arg, Recorte(h1, meta[h.tag]),
           UNCHANGED <<meta, archivos, contenido, indice>>,
           \A s \in Tags : s # h.tag => enlaces'[s] = enlaces[s]
    PROVE  Fiel' /\ UNCHANGED Vista
<1>1. EnMemoria(h1)'
  BY DEF EnMemoria, Recorte
<1>2. h.op \in Sobre
  BY DEF Sobre
<1> HIDE DEF EnMemoria, Lista, Sobre, Recorte
<1> QED
  BY <1>1, <1>2, MismaLista

\* TRUNCATE links block 0, of zeros, where it adds one.
LEMMA AgrandarFiel ==
    ASSUME TypeOK, Disciplina, Reparto, Fiel, NEW w \in Workers, Agrandar(w)
    PROVE  Fiel' /\ UNCHANGED Vista
<1>1. PICK h \in Hilo : h = hilo[w]
  BY Hechos
<1>2. /\ h.pc = "agrandar" /\ h.op = "TRUNCATE"
      /\ h.m.n <= h.i /\ h.i < Necesarios(h.arg) /\ EnMemoria(h)
  BY <1>1, Hechos DEF Agrandar, En, OperacionesDe, Indices, Fiel
<1>3. /\ h.m \in Metadata /\ h.i \in Logicos /\ h.arg \in Tamanios \union {0} /\ h.tag \in Tags
      /\ h.m.n \in Nat /\ h.i \in Nat /\ Necesarios(h.arg) \in Nat /\ Necesarios(h.arg) <= MaxLogicos
  <2>1. h.m \in Metadata /\ h.i \in Logicos /\ h.arg \in Tamanios \union {0} /\ h.tag \in Tags
    BY DEF Hilo
  <2>2. h.m.n \in 0 .. MaxLogicos /\ Necesarios(h.arg) \in 0 .. MaxLogicos
    BY <2>1, TamaniosAssumption DEF Metadata
  <2> QED
    BY <2>1, <2>2, LogicosAssumption DEF Logicos
<1>4. /\ h.m.estado = meta[h.tag].estado /\ h.m.n = meta[h.tag].n
      /\ \A l \in Logicos : l < h.m.n => h.m.blocks[l] = meta[h.tag].blocks[l]
      /\ \A l \in Logicos : h.m.n <= l /\ l < h.i => h.m.blocks[l] = 0
  <2>1. Recorte(h, meta[h.tag])
    BY <1>2 DEF EnMemoria
  <2> QED
    BY <1>2, <2>1 DEF Recorte
<1>5. PICK m1 \in Metadata :
         /\ m1 = [h.m EXCEPT !.blocks[h.i] = 0] /\ m1.n = h.m.n /\ m1.estado = h.m.estado
         /\ m1.blocks[h.i] = 0 /\ \A l \in Logicos : l # h.i => m1.blocks[l] = h.m.blocks[l]
  <2> DEFINE bs == [h.m.blocks EXCEPT ![h.i] = 0]
  <2>1. bs \in [Logicos -> BloqueO] /\ bs[h.i] = 0 /\ \A l \in Logicos : l # h.i => bs[l] = h.m.blocks[l]
    BY <1>3, Tipos DEF Metadata, BloqueO
  <2>2. [h.m EXCEPT !.blocks[h.i] = 0] = [h.m EXCEPT !.blocks = bs]
    OBVIOUS
  <2> HIDE DEF bs
  <2>3. LET m1 == [h.m EXCEPT !.blocks = bs] IN
          m1 \in Metadata /\ m1.n = h.m.n /\ m1.estado = h.m.estado /\ m1.blocks = bs
    BY <1>3, <2>1 DEF Metadata
  <2> QED
    BY <2>1, <2>2, <2>3
<1>6. UNCHANGED <<meta, archivos, contenido, indice>> /\ \A s \in Tags : s # h.tag => enlaces'[s] = enlaces[s]
  BY <1>1 DEF Agrandar, TypeOK
<1>7. PICK h1 \in Hilo : /\ Sigue(w, h1) /\ h1.op = h.op /\ h1.tag = h.tag /\ h1.arg = h.arg
                         /\ Recorte(h1, meta[h.tag])
  <2>1. CASE h.i + 1 < Necesarios(h.arg)
    <3>1. h.i + 1 \in Logicos
      BY <1>3, <2>1, LogicosAssumption DEF Logicos
    <3>2. Sigue(w, [h EXCEPT !.m = m1, !.i = h.i + 1])
      BY <1>1, <1>5, <2>1 DEF Agrandar
    <3> DEFINE g == [h EXCEPT !.m = m1, !.i = h.i + 1]
    <3>3. /\ g \in Hilo /\ g.op = h.op /\ g.tag = h.tag /\ g.arg = h.arg
          /\ g.m = m1 /\ g.i = h.i + 1 /\ g.pc = "agrandar"
      BY <1>2, <1>5, <3>1 DEF Hilo, Pasos
    <3> HIDE DEF g
    <3>4. \A l \in Logicos : l < h.m.n => m1.blocks[l] = h.m.blocks[l]
      BY <1>2, <1>3, <1>5 DEF Logicos
    <3>5. \A l \in Logicos : h.m.n <= l /\ l < h.i + 1 => m1.blocks[l] = 0
      <4>1. \A l \in Logicos : l < h.i + 1 => l < h.i \/ l = h.i
        BY <1>3 DEF Logicos
      <4> QED
        BY <1>4, <1>5, <4>1
    <3>6. Recorte(g, meta[h.tag])
      BY <1>4, <1>5, <3>3, <3>4, <3>5 DEF Recorte
    <3> QED
      BY <3>2, <3>3, <3>6 DEF g
  <2>2. CASE ~ (h.i + 1 < Necesarios(h.arg))
    <3>0. Necesarios(h.arg) = h.i + 1
      BY <1>2, <1>3, <2>2
    <3>1. Sigue(w, [h EXCEPT !.m = Redimensionada(m1, h.arg), !.pc = "guardar"])
      BY <1>1, <1>5, <2>2 DEF Agrandar
    <3>2. /\ Redimensionada(m1, h.arg) \in Metadata
          /\ Redimensionada(m1, h.arg).n = Necesarios(h.arg)
          /\ \A l \in Logicos : l < Necesarios(h.arg) => Redimensionada(m1, h.arg).blocks[l] = m1.blocks[l]
      BY <1>3, RedimensionadaTipo
    <3>3. Redimensionada(m1, h.arg).size = h.arg /\ Redimensionada(m1, h.arg).estado = m1.estado
      BY DEF Redimensionada, Metadata
    <3> DEFINE g == [h EXCEPT !.m = Redimensionada(m1, h.arg), !.pc = "guardar"]
    <3>4. /\ g \in Hilo /\ g.op = h.op /\ g.tag = h.tag /\ g.arg = h.arg
          /\ g.m = Redimensionada(m1, h.arg) /\ g.pc = "guardar"
      BY <3>2 DEF Hilo, Pasos
    <3> HIDE DEF g
    <3>5. \A l \in Logicos : l < h.m.n /\ l < Necesarios(h.arg) => g.m.blocks[l] = h.m.blocks[l]
      <4>1. \A l \in Logicos : l < h.m.n => l # h.i
        BY <1>2, <1>3 DEF Logicos
      <4> QED
        BY <1>5, <3>2, <3>4, <4>1
    <3>6. \A l \in Logicos : h.m.n <= l /\ l < Necesarios(h.arg) => g.m.blocks[l] = 0
      <4>1. \A l \in Logicos : l < h.i + 1 => l < h.i \/ l = h.i
        BY <1>3 DEF Logicos
      <4> QED
        BY <1>4, <1>5, <3>0, <3>2, <3>4, <4>1
    <3>7. Recorte(g, meta[h.tag])
      <4>1. g.m.n = Necesarios(h.arg) /\ g.m.size = h.arg /\ g.m.estado = meta[h.tag].estado
        BY <1>4, <1>5, <3>2, <3>3, <3>4
      <4> QED
        BY <1>4, <3>4, <3>5, <3>6, <4>1 DEF Recorte
    <3> QED
      BY <3>1, <3>4, <3>7 DEF g
  <2> QED
    BY <2>1, <2>2
<1> QED
  BY <1>1, <1>2, <1>6, <1>7, RecortaFiel

\* TRUNCATE unlinks blocks past its new end.
LEMMA AchicarFiel ==
    ASSUME TypeOK, Disciplina, Reparto, Fiel, NEW w \in Workers, Achicar(w)
    PROVE  Fiel' /\ UNCHANGED Vista
<1>1. PICK h \in Hilo : h = hilo[w]
  BY Hechos
<1>2. /\ h.pc = "achicar" /\ h.op = "TRUNCATE"
      /\ Necesarios(h.arg) <= h.i /\ h.i < h.m.n /\ EnMemoria(h)
  BY <1>1, Hechos DEF Achicar, En, OperacionesDe, Indices, Fiel
<1>3. /\ h.m \in Metadata /\ h.i \in Logicos /\ h.arg \in Tamanios \union {0} /\ h.tag \in Tags
      /\ h.m.n \in Nat /\ h.i \in Nat /\ Necesarios(h.arg) \in Nat /\ Necesarios(h.arg) <= MaxLogicos
  <2>1. h.m \in Metadata /\ h.i \in Logicos /\ h.arg \in Tamanios \union {0} /\ h.tag \in Tags
    BY DEF Hilo
  <2>2. h.m.n \in 0 .. MaxLogicos /\ Necesarios(h.arg) \in 0 .. MaxLogicos
    BY <2>1, TamaniosAssumption DEF Metadata
  <2> QED
    BY <2>1, <2>2, LogicosAssumption DEF Logicos
<1>4. /\ h.m.estado = meta[h.tag].estado /\ h.m.n = meta[h.tag].n
      /\ \A l \in Logicos : l < h.m.n => h.m.blocks[l] = meta[h.tag].blocks[l]
  <2>1. Recorte(h, meta[h.tag])
    BY <1>2 DEF EnMemoria
  <2> QED
    BY <1>2, <2>1 DEF Recorte
<1>5. UNCHANGED <<meta, archivos, contenido, indice>> /\ \A s \in Tags : s # h.tag => enlaces'[s] = enlaces[s]
  BY <1>1 DEF Achicar, TypeOK
<1>6. \A g \in Hilo : g.op = "TRUNCATE" /\ g.pc \in {"achicar", "liberar"} /\ g.m = h.m
                        => Recorte(g, meta[h.tag])
  BY <1>4 DEF Recorte
<1>7. PICK h1 \in Hilo : /\ Sigue(w, h1) /\ h1.op = h.op /\ h1.tag = h.tag /\ h1.arg = h.arg
                         /\ Recorte(h1, meta[h.tag])
  <2>1. CASE Sigue(w, [h EXCEPT !.pc = "liberar", !.b = h.m.blocks[h.i]])
    <3> DEFINE b == h.m.blocks[h.i]
    <3>1. b \in BloqueO
      BY <1>3 DEF Metadata
    <3>2. Sigue(w, [h EXCEPT !.pc = "liberar", !.b = b])
      BY <2>1
    <3> HIDE DEF b
    <3>3. LET g == [h EXCEPT !.pc = "liberar", !.b = b] IN
           /\ g \in Hilo /\ g.op = h.op /\ g.tag = h.tag /\ g.arg = h.arg
           /\ g.m = h.m /\ g.pc = "liberar"
      BY <3>1 DEF Hilo, Pasos
    <3> QED
      BY <1>2, <1>6, <3>2, <3>3
  <2>2. CASE Sigue(w, SiguienteAchicar(h)) /\ h.i > Necesarios(h.arg)
    <3>1. h.i - 1 \in Logicos
      BY <1>3, <2>2, LogicosAssumption DEF Logicos
    <3>2. Sigue(w, [h EXCEPT !.i = h.i - 1, !.pc = "achicar"])
      BY <2>2 DEF SiguienteAchicar
    <3>3. LET g == [h EXCEPT !.i = h.i - 1, !.pc = "achicar"] IN
           /\ g \in Hilo /\ g.op = h.op /\ g.tag = h.tag /\ g.arg = h.arg
           /\ g.m = h.m /\ g.pc = "achicar"
      BY <3>1 DEF Hilo, Pasos
    <3> QED
      BY <1>2, <1>6, <3>2, <3>3
  <2>3. CASE Sigue(w, SiguienteAchicar(h)) /\ ~ (h.i > Necesarios(h.arg))
    <3>1. Sigue(w, [h EXCEPT !.m = Redimensionada(h.m, h.arg), !.pc = "guardar"])
      BY <2>3 DEF SiguienteAchicar
    <3>2. /\ Redimensionada(h.m, h.arg) \in Metadata
          /\ Redimensionada(h.m, h.arg).n = Necesarios(h.arg)
          /\ \A l \in Logicos : l < Necesarios(h.arg) => Redimensionada(h.m, h.arg).blocks[l] = h.m.blocks[l]
      BY <1>3, RedimensionadaTipo
    <3>3. Redimensionada(h.m, h.arg).size = h.arg /\ Redimensionada(h.m, h.arg).estado = h.m.estado
      BY <1>3 DEF Redimensionada, Metadata
    <3> DEFINE g == [h EXCEPT !.m = Redimensionada(h.m, h.arg), !.pc = "guardar"]
    <3>4. /\ g \in Hilo /\ g.op = h.op /\ g.tag = h.tag /\ g.arg = h.arg
          /\ g.m = Redimensionada(h.m, h.arg) /\ g.pc = "guardar"
      BY <3>2 DEF Hilo, Pasos
    <3> HIDE DEF g
    <3>5. \A l \in Logicos : l < h.m.n /\ l < Necesarios(h.arg) => g.m.blocks[l] = meta[h.tag].blocks[l]
      BY <1>4, <3>2, <3>4
    <3>6. \A l \in Logicos : ~ (h.m.n <= l /\ l < Necesarios(h.arg))
      BY <1>2, <1>3 DEF Logicos
    <3>7. Recorte(g, meta[h.tag])
      <4>1. g.m.n = Necesarios(h.arg) /\ g.m.size = h.arg /\ g.m.estado = meta[h.tag].estado
        BY <1>4, <3>2, <3>3, <3>4
      <4> QED
        BY <1>4, <3>4, <3>5, <3>6, <4>1 DEF Recorte
    <3> QED
      BY <3>1, <3>4, <3>7 DEF g
  <2>4. Sigue(w, [h EXCEPT !.pc = "liberar", !.b = h.m.blocks[h.i]]) \/ Sigue(w, SiguienteAchicar(h))
    BY <1>1 DEF Achicar
  <2> QED
    BY <2>1, <2>2, <2>3, <2>4
<1> QED
  BY <1>1, <1>2, <1>5, <1>7, RecortaFiel

\* The step of WRITE that users notice.
LEMMA EscribeFiel ==
    ASSUME TypeOK, Disciplina, SinCommitear, Reparto, Fiel, NEW w \in Workers,
           NEW h \in Hilo, NEW h1 \in Hilo, h = hilo[w], Sigue(w, h1), h.op = "WRITE", h.i < h.m.n,
           h1.op = h.op, h1.tag = h.tag,
           UNCHANGED <<meta, archivos, indice>>,
           \A s \in Tags : s # h.tag => enlaces'[s] = enlaces[s],
           \A b \in Bloques : contenido'[b] # contenido[b] => PorEscribir(h, b),
           \A l \in Logicos : l < h.m.n =>
              contenido'[Lista(h1, meta[h.tag])[l]] =
                 IF l = h.i THEN h.dato ELSE contenido[Lista(h, meta[h.tag])[l]],
           EnMemoria(h1)'
    PROVE  Fiel' /\ AL!Next
<1>0. hilo' = [hilo EXCEPT ![w] = h1] /\ UNCHANGED lock
  BY DEF Sigue
<1>1. h.op \in OperacionesDe(h.pc) /\ Fundado(h)
  BY Hechos DEF Reparto
<1>2. h.pc \notin {"ocioso", "responder", "leer", "leido", "crear_destino", "tomar_destino"} /\ h.op # "TAG"
  BY <1>1 DEF Fundado, DeFuera, OperacionesDe
<1>3. /\ h.tag \in Tags /\ h.tag \in archivos /\ h.i \in Logicos /\ h.dato \in Contenidos
      /\ \A t \in Tags : lock[t] = w <=> t = h.tag
  BY <1>2, Seccion DEF Hilo
<1>4. hilo'[w] = h1
  BY <1>0 DEF TypeOK
<1>5. AlFrente(h.tag, h) /\ AlFrente(h.tag, h1)'
  BY <1>0, <1>3, <1>4 DEF AlFrente
<1>6. /\ Visto(h.tag) = Mira(h, h.tag \in archivos, meta[h.tag], contenido)
      /\ Visto(h.tag)' = Mira(h1, h.tag \in archivos, meta[h.tag], contenido')
  BY <1>3, <1>5, VistoEs, VistoSera
<1>7. /\ Visto(h.tag) = Ficha(meta[h.tag].size, meta[h.tag].estado, meta[h.tag].n, Lista(h, meta[h.tag]), contenido)
      /\ Visto(h.tag)' = Ficha(meta[h.tag].size, meta[h.tag].estado, meta[h.tag].n, Lista(h1, meta[h.tag]), contenido')
  BY <1>3, <1>6 DEF Mira
<1>8. PICK t \in Tags : t = h.tag
  BY <1>3
<1>9. h.m.n = meta[t].n /\ meta[t].n = Necesarios(meta[t].size)
  BY <1>8 DEF Fiel, EnMemoria, Medidas
<1>10. AL!Editable(t)
  <2>1. Escribe(h)
    BY <1>2, EnSeccion DEF Escritoras, DeFuera
  <2>2. meta[t].estado # "COMMITED" /\ meta[t] \in Metadata
    BY <1>8, <2>1 DEF SinCommitear, TypeOK
  <2>3. meta[t].estado = "WORK_IN_PROGRESS"
    BY <2>2 DEF Metadata, Estados
  <2> QED
    BY <1>7, <1>8, <2>3 DEF AL!Editable, Ficha
<1> DEFINE datos == [l \in Logicos |-> IF l >= Necesarios(meta[t].size) THEN "nada"
                          ELSE IF l < meta[t].n THEN contenido[Lista(h, meta[t])[l]] ELSE Cero]
           otros == [l \in Logicos |-> IF l >= Necesarios(meta[t].size) THEN "nada"
                          ELSE IF l < meta[t].n THEN contenido'[Lista(h1, meta[t])[l]] ELSE Cero]
<1>11. otros = [datos EXCEPT ![h.i] = h.dato]
  <2>1. ASSUME NEW l \in Logicos
        PROVE  otros[l] = IF l = h.i THEN h.dato ELSE datos[l]
    <3>1. CASE l < meta[t].n
      <4>1. contenido'[Lista(h1, meta[t])[l]] = IF l = h.i THEN h.dato ELSE contenido[Lista(h, meta[t])[l]]
        BY <1>8, <1>9, <3>1
      <4>2. ~ (l >= meta[t].n)
        <5>1. meta[t] \in Metadata
          BY DEF TypeOK
        <5>2. meta[t].n \in Int /\ l \in Int
          BY <5>1, LogicosAssumption DEF Metadata, Logicos
        <5> QED
          BY <3>1, <5>2
      <4> QED
        BY <1>9, <3>1, <4>1, <4>2
    <3>2. CASE ~ (l < meta[t].n)
      BY <1>9, <3>2
    <3> QED
      BY <3>1, <3>2
  <2> QED
    BY <1>3, <2>1
<1>12. /\ Visto(t) = [existe |-> TRUE, size |-> meta[t].size, estado |-> meta[t].estado, datos |-> datos]
       /\ Visto(t)' = [existe |-> TRUE, size |-> meta[t].size, estado |-> meta[t].estado, datos |-> otros]
  BY <1>7, <1>8 DEF Ficha
<1> HIDE DEF datos, otros
<1>13. PICK si, x : /\ Visto(t) = [existe |-> si, size |-> meta[t].size, estado |-> meta[t].estado, datos |-> datos]
                    /\ x = [existe |-> si, size |-> meta[t].size, estado |-> meta[t].estado, datos |-> otros]
                    /\ Visto(t)' = x
  BY Zenon, <1>12
<1>14. /\ \A s \in Tags : s # t =>
              /\ lock[s] = w => hilo[w].tag # s \/ hilo[w].op \notin Sobre
              /\ lock'[s] = w => h1.tag # s \/ h1.op \notin Sobre
              /\ lock'[s] = lock[s] \/ {lock[s], lock'[s]} \subseteq {w, Nadie}
              /\ meta'[s] = meta[s] /\ ((s \in archivos') <=> (s \in archivos))
       /\ \A s \in Tags : lock[s] # w => enlaces'[s] = enlaces[s]
       /\ \A b \in Bloques : contenido'[b] # contenido[b] => PorEscribir(hilo[w], b)
       /\ indice'[Cero] = indice[Cero] /\ lock[t] \in {w, Nadie}
  BY <1>0, <1>3, <1>8
<1>20. SoloTag(w, h1, t)
  BY <1>0, <1>14 DEF SoloTag
<1>21. meta'[t].n = Necesarios(meta'[t].size)
  BY <1>9
<1> HIDE DEF EnMemoria, Vista, Fiel
<1>15. /\ Fiel'
       /\ \A y : Visto(t)' = y => Cambia(t, y)
       /\ Visto(t)' = Visto(t) => UNCHANGED Vista
  BY <1>20, <1>21, Efecto
<1>16. Cambia(t, x)
  BY <1>13, <1>15
<1>17. h.i < Necesarios(meta[t].size)
  BY <1>9
<1>19. AL!Next
  <2>1. PICK l \in Logicos, c \in Contenidos : l = h.i /\ c = h.dato
    BY <1>3
  <2>2. x = Registro(si, meta[t].size, meta[t].estado, otros)
    BY <1>13 DEF Registro
  <2>5. Pisa(datos, l, c, otros)
    BY <1>11, <2>1 DEF Pisa
  <2>3. l < Necesarios(meta[t].size)
    BY <1>17, <2>1
  <2>4. Visto(t) = Registro(si, meta[t].size, meta[t].estado, datos)
    BY <1>13 DEF Registro
  <2> QED
    BY <1>10, <2>2, <2>3, <2>4, <1>16, <2>5, EsEscribir
<1> QED
  BY <1>15, <1>19

\* WRITE in place takes effect when it writes a block that only its tag is linked to.
LEMMA EscribirEnSitioFiel ==
    ASSUME TypeOK, Disciplina, SinCommitear, Reparto, Fiel, NEW w \in Workers, EscribirEnSitio(w)
    PROVE  Fiel' /\ AL!Next
<1>1. PICK h \in Hilo : h = hilo[w]
  BY Hechos
<1>2. h.pc = "en_sitio" /\ h.op = "WRITE" /\ EnMemoria(h) /\ h.i < h.m.n
  BY <1>1, Hechos DEF EscribirEnSitio, En, OperacionesDe, Fiel, Indices
<1>3. /\ h.tag \in Tags /\ h.m \in Metadata /\ h.i \in Logicos /\ h.dato \in Contenidos
      /\ \A l \in Logicos : l < h.m.n => enlaces[h.tag][l] = h.m.blocks[l] /\ h.m.blocks[l] \in Bloques
  <2>1. /\ \A j \in Coinciden(h) : Coincide(h, j) 
        /\ h.tag \in Tags /\ h.m \in Metadata /\ h.i \in Logicos
    BY <1>1, <1>2, Seccion
  <2>2. \A l \in Logicos : l < h.m.n => l \in Coinciden(h)
    BY <1>2 DEF Coinciden
  <2>3. h.dato \in Contenidos
    BY DEF Hilo
  <2> QED
    BY <2>1, <2>2, <2>3 DEF Coincide, Metadata, BloqueO
<1>4. PICK h1 \in Hilo : /\ Sigue(w, h1) /\ h1.op = "WRITE" /\ h1.tag = h.tag
                         /\ h1.m = h.m /\ h1.pc = "guardar"
  <2>1. LET g == [h EXCEPT !.pc = "guardar"] IN
           /\ g \in Hilo /\ g.op = "WRITE" /\ g.tag = h.tag /\ g.m = h.m /\ g.pc = "guardar"
    BY <1>2 DEF Hilo, Pasos
  <2>2. Sigue(w, [h EXCEPT !.pc = "guardar"])
    BY <1>1 DEF EscribirEnSitio
  <2> QED
    BY <2>1, <2>2
<1>5. PICK b \in Bloques : b = h.m.blocks[h.i]
  BY <1>2, <1>3
<1>6. UNCHANGED <<meta, archivos, enlaces, indice>> /\ contenido' = [contenido EXCEPT ![b] = h.dato]
  BY <1>1, <1>5 DEF EscribirEnSitio
<1>7. contenido'[b] = h.dato /\ \A c : c # b => contenido'[c] = contenido[c]
  <2>1. contenido'[b] = h.dato
    BY <1>5, <1>6 DEF TypeOK
  <2>2. ASSUME NEW c, c # b PROVE contenido'[c] = contenido[c]
    BY <1>6, <2>2
  <2> QED
    BY <2>1, <2>2
<1>8. \A l \in Logicos : enlaces[h.tag][l] = b => l = h.i
  BY <1>1, <1>2, <1>3, <1>5, EscritoPropio DEF PorEscribir
<1>9. \A c \in Bloques : contenido'[c] # contenido[c] => PorEscribir(h, c)
  BY <1>2, <1>5, <1>7 DEF PorEscribir
<1>10. Lista(h1, meta[h.tag]) = h.m.blocks /\ Lista(h, meta[h.tag]) = h.m.blocks
  BY <1>2, <1>4 DEF Lista
<1>11. \A l \in Logicos : l < h.m.n =>
          contenido'[h.m.blocks[l]] = IF l = h.i THEN h.dato ELSE contenido[h.m.blocks[l]]
  BY <1>3, <1>5, <1>7, <1>8
<1>12. \A l \in Logicos : l < h.m.n =>
          contenido'[Lista(h1, meta[h.tag])[l]] =
             IF l = h.i THEN h.dato ELSE contenido[Lista(h, meta[h.tag])[l]]
  BY <1>10, <1>11
<1>13. EnMemoria(h1)'
  BY <1>2, <1>4, <1>6 DEF EnMemoria
<1>14. UNCHANGED <<meta, archivos, indice>> /\ h1.op = h.op
       /\ \A s \in Tags : s # h.tag => enlaces'[s] = enlaces[s]
  BY <1>2, <1>4, <1>6
<1> HIDE DEF EnMemoria, Lista
<1> QED
  BY <1>1, <1>2, <1>4, <1>9, <1>12, <1>13, <1>14, EscribeFiel

\* WRITE to a new block takes effect when the old one is unlinked.
LEMMA DesenlazarWriteFiel ==
    ASSUME TypeOK, Disciplina, SinCommitear, Reparto, Fiel, NEW w \in Workers, Desenlazar(w),
           hilo[w].op = "WRITE"
    PROVE  Fiel' /\ AL!Next
<1>1. PICK h \in Hilo : h = hilo[w]
  BY Hechos
<1>2. h.pc = "desenlazar" /\ h.op = "WRITE" /\ EnMemoria(h) /\ h.i < h.m.n
  BY <1>1, Hechos DEF Desenlazar, En, Fiel, Indices
<1>3. h.tag \in Tags /\ h.m \in Metadata /\ h.i \in Logicos /\ Coincide(h, h.i)
  <2>1. /\ \A j \in Coinciden(h) : Coincide(h, j) 
        /\ h.tag \in Tags /\ h.m \in Metadata /\ h.i \in Logicos
    BY <1>1, <1>2, Seccion
  <2>2. h.i \in Coinciden(h)
    BY <1>2, <2>1 DEF Coinciden
  <2> QED
    BY <2>1, <2>2
<1>4. PICK h1 \in Hilo : /\ Sigue(w, h1) /\ h1.op = "WRITE" /\ h1.tag = h.tag /\ h1.m = h.m
                         /\ h1.pc = "enlazar" /\ h1.b = h.b /\ h1.i = h.i
  <2>1. LET g == [h EXCEPT !.pc = "enlazar"] IN
           /\ g \in Hilo /\ g.op = "WRITE" /\ g.tag = h.tag /\ g.m = h.m
           /\ g.pc = "enlazar" /\ g.b = h.b /\ g.i = h.i
    BY <1>2 DEF Hilo, Pasos
  <2>2. Sigue(w, [h EXCEPT !.pc = "enlazar"])
    BY <1>1, <1>3 DEF Desenlazar, Coincide
  <2> QED
    BY <2>1, <2>2
<1>5. UNCHANGED <<meta, archivos, contenido, indice>> /\ \A s \in Tags : s # h.tag => enlaces'[s] = enlaces[s]
  BY <1>1 DEF Desenlazar, TypeOK
<1>6. contenido[h.b] = h.dato
  BY <1>2 DEF EnMemoria
<1>7. EnMemoria(h1)'
  BY <1>2, <1>4, <1>5 DEF EnMemoria
<1>8. Lista(h1, meta[h.tag]) = [h.m.blocks EXCEPT ![h.i] = h.b] /\ Lista(h, meta[h.tag]) = h.m.blocks
  BY <1>2, <1>4 DEF Lista
<1>9. \A l \in Logicos : contenido'[[h.m.blocks EXCEPT ![h.i] = h.b][l]] =
                            IF l = h.i THEN h.dato ELSE contenido[h.m.blocks[l]]
  BY <1>3, <1>5, <1>6 DEF Metadata
<1>10. \A l \in Logicos : l < h.m.n =>
          contenido'[Lista(h1, meta[h.tag])[l]] =
             IF l = h.i THEN h.dato ELSE contenido[Lista(h, meta[h.tag])[l]]
  BY <1>8, <1>9
<1>11. \A b \in Bloques : contenido'[b] # contenido[b] => PorEscribir(h, b)
  BY <1>5
<1>12. UNCHANGED <<meta, archivos, indice>> /\ h1.op = h.op
  BY <1>2, <1>4, <1>5
<1> HIDE DEF EnMemoria, Lista
<1> QED
  BY <1>1, <1>2, <1>4, <1>5, <1>7, <1>10, <1>11, <1>12, EscribeFiel

\* The end of an operation, which lets go of its tag.
LEMMA TerminaFiel ==
    ASSUME TypeOK, Disciplina, Reparto, Fiel, NEW w \in Workers, NEW h \in Hilo, h = hilo[w],
           NEW t \in Tags, h.tag = t, lock[t] = w, NEW r \in Respuestas, Fin(w, r),
           UNCHANGED <<contenido, enlaces, indice>>,
           \A s \in Tags : s # t => meta'[s] = meta[s] /\ ((s \in archivos') <=> (s \in archivos)),
           meta'[t].n = Necesarios(meta'[t].size)
    PROVE  /\ Fiel'
           /\ \A x : Visto(t)' = x => Cambia(t, x)
           /\ Visto(t)' = Visto(t) => UNCHANGED Vista
           /\ Visto(t) = Mira(h, t \in archivos, meta[t], contenido)
           /\ Visto(t)' = IF t \in archivos'
                          THEN Ficha(meta'[t].size, meta'[t].estado, meta'[t].n, meta'[t].blocks, contenido)
                          ELSE AL!Ausente
<1> DEFINE h1 == [Ocioso EXCEPT !.pc = "responder", !.res = r]
<1>1. h1 \in Hilo /\ h1.op = "ninguna"
  BY Tipos DEF Hilo, Pasos, Ocioso
<1>2. hilo' = [hilo EXCEPT ![w] = h1] /\ \A s \in Tags : lock'[s] = IF lock[s] = w THEN Nadie ELSE lock[s]
  BY DEF Fin
<1> HIDE DEF h1
<1>3. EnMemoria(h1)' /\ h1.op \notin Sobre
  BY <1>1 DEF EnMemoria, Sobre
<1>4. AlFrente(t, h) /\ AlFrente(t, Ocioso)'
  BY <1>2, NadieAlFrente, WorkersAssumption DEF AlFrente
<1>5. /\ Visto(t) = Mira(h, t \in archivos, meta[t], contenido)
      /\ Visto(t)' = Mira(Ocioso, t \in archivos', meta'[t], contenido')
  BY <1>4, VistoEs, VistoSera
<1>6. Visto(t)' = IF t \in archivos'
                  THEN Ficha(meta'[t].size, meta'[t].estado, meta'[t].n, meta'[t].blocks, contenido)
                  ELSE AL!Ausente
  BY <1>5 DEF Mira, Lista, Ocioso
<1>7. /\ \A s \in Tags : s # t =>
             /\ lock[s] = w => hilo[w].tag # s \/ hilo[w].op \notin Sobre
             /\ lock'[s] = w => h1.tag # s \/ h1.op \notin Sobre
             /\ lock'[s] = lock[s] \/ {lock[s], lock'[s]} \subseteq {w, Nadie}
             /\ meta'[s] = meta[s] /\ ((s \in archivos') <=> (s \in archivos))
      /\ \A s \in Tags : lock[s] # w => enlaces'[s] = enlaces[s]
      /\ \A b \in Bloques : contenido'[b] # contenido[b] => PorEscribir(hilo[w], b)
      /\ indice'[Cero] = indice[Cero] /\ lock[t] \in {w, Nadie}
  BY <1>2, <1>3
<1> HIDE DEF EnMemoria, Vista, Fiel
<1>9. SoloTag(w, h1, t)
  BY <1>2, <1>7 DEF SoloTag
<1>8. /\ Fiel'
      /\ \A x : Visto(t)' = x => Cambia(t, x)
      /\ Visto(t)' = Visto(t) => UNCHANGED Vista
  BY <1>1, <1>3, <1>9, Efecto
<1> QED
  BY <1>5, <1>6, <1>8

\* No block left for WRITE: nothing has changed.
LEMMA SinEspacioFiel ==
    ASSUME TypeOK, Disciplina, Reparto, Fiel, NEW w \in Workers, En(w, "reservar"),
           Fin(w, "espacio_insuficiente"), UNCHANGED disco
    PROVE  Fiel' /\ UNCHANGED Vista
<1>1. PICK h \in Hilo : h = hilo[w]
  BY Hechos
<1>2. h.pc = "reservar" /\ h.op = "WRITE" /\ h.m = meta[h.tag]
  BY <1>1, Hechos DEF En, OperacionesDe, EnOrden
<1>3. PICK t \in Tags : t = h.tag /\ lock[t] = w /\ t \in archivos
  BY <1>1, <1>2, Seccion
<1>4. UNCHANGED <<contenido, enlaces, indice, meta, archivos>>
  BY DEF disco
<1>5. meta'[t].n = Necesarios(meta'[t].size)
  BY <1>4 DEF Fiel, Medidas
<1>6. \A s \in Tags : s # t => meta'[s] = meta[s] /\ ((s \in archivos') <=> (s \in archivos))
  BY <1>4
<1>7. "espacio_insuficiente" \in Respuestas
  BY DEF Respuestas
<1> HIDE DEF Fiel, Vista
<1>8. /\ Fiel'
      /\ Visto(t)' = Visto(t) => UNCHANGED Vista
      /\ Visto(t) = Mira(h, t \in archivos, meta[t], contenido)
      /\ Visto(t)' = IF t \in archivos'
                     THEN Ficha(meta'[t].size, meta'[t].estado, meta'[t].n, meta'[t].blocks, contenido)
                     ELSE AL!Ausente
  BY <1>1, <1>3, <1>4, <1>5, <1>6, <1>7, TerminaFiel
<1>9. Visto(t) = Ficha(meta[t].size, meta[t].estado, meta[t].n, h.m.blocks, contenido)
  BY <1>2, <1>3, <1>8 DEF Mira, Lista
<1>10. Visto(t)' = Visto(t)
  BY <1>2, <1>3, <1>4, <1>8, <1>9
<1> QED
  BY <1>8, <1>10

\* The end of DELETE.
LEMMA QuitarTagFiel ==
    ASSUME TypeOK, Disciplina, Reparto, Fiel, NEW w \in Workers, QuitarTag(w)
    PROVE  Fiel' /\ UNCHANGED Vista
<1>1. PICK h \in Hilo : h = hilo[w]
  BY Hechos
<1>2. h.pc = "quitar" /\ h.op = "DELETE"
  BY <1>1, Hechos DEF QuitarTag, En, OperacionesDe
<1>3. PICK t \in Tags : t = h.tag /\ lock[t] = w
  BY <1>1, <1>2, Seccion
<1>4. /\ archivos' = archivos \ {t} /\ meta' = [meta EXCEPT ![t] = MetaVacia]
      /\ UNCHANGED <<contenido, enlaces, indice>>
      /\ \E r \in Respuestas : Fin(w, r)
  BY <1>1, <1>3 DEF QuitarTag, Respuestas
<1>5. PICK r \in Respuestas : Fin(w, r)
  BY <1>4
<1>6. /\ \A s \in Tags : s # t => meta'[s] = meta[s] /\ ((s \in archivos') <=> (s \in archivos))
      /\ meta'[t].n = Necesarios(meta'[t].size)
  BY <1>4, SinTamanio DEF TypeOK, MetaVacia
<1> HIDE DEF Fiel, Vista
<1>7. /\ Fiel'
      /\ Visto(t)' = Visto(t) => UNCHANGED Vista
      /\ Visto(t) = Mira(h, t \in archivos, meta[t], contenido)
      /\ Visto(t)' = IF t \in archivos'
                     THEN Ficha(meta'[t].size, meta'[t].estado, meta'[t].n, meta'[t].blocks, contenido)
                     ELSE AL!Ausente
  BY <1>1, <1>3, <1>4, <1>5, <1>6, TerminaFiel
<1>8. Visto(t) = AL!Ausente
  BY <1>2, <1>7 DEF Mira
<1>9. Visto(t)' = AL!Ausente
  BY <1>4, <1>7
<1> QED
  BY <1>7, <1>8, <1>9

\* The end of the operations that rewrite metadata.config.
LEMMA GuardaFiel ==
    ASSUME TypeOK, Disciplina, Reparto, Fiel, NEW w \in Workers, GuardarMetadata(w),
           NEW h \in Hilo, h = hilo[w], NEW t \in Tags, h.tag = t, lock[t] = w, t \in archivos,
           h.m.n = Necesarios(h.m.size)
    PROVE  /\ Fiel'
           /\ \A x : Visto(t)' = x => Cambia(t, x)
           /\ Visto(t)' = Visto(t) => UNCHANGED Vista
           /\ Visto(t) = Mira(h, t \in archivos, meta[t], contenido)
           /\ Visto(t)' = Ficha(h.m.size, h.m.estado, h.m.n, h.m.blocks, contenido)
<1>1. /\ meta' = [meta EXCEPT ![t] = h.m] /\ Fin(w, "ok") /\ "ok" \in Respuestas
      /\ UNCHANGED <<contenido, enlaces, indice, archivos>>
  BY DEF GuardarMetadata, Respuestas
<1>2. meta'[t] = h.m /\ \A s \in Tags : s # t => meta'[s] = meta[s] /\ ((s \in archivos') <=> (s \in archivos))
  BY <1>1 DEF TypeOK
<1>3. meta'[t].n = Necesarios(meta'[t].size)
  BY <1>2
<1> HIDE DEF Fiel, Vista
<1>4. /\ Fiel'
      /\ \A x : Visto(t)' = x => Cambia(t, x)
      /\ Visto(t)' = Visto(t) => UNCHANGED Vista
      /\ Visto(t) = Mira(h, t \in archivos, meta[t], contenido)
      /\ Visto(t)' = IF t \in archivos'
                     THEN Ficha(meta'[t].size, meta'[t].estado, meta'[t].n, meta'[t].blocks, contenido)
                     ELSE AL!Ausente
  BY <1>1, <1>2, <1>3, TerminaFiel
<1> QED
  BY <1>1, <1>2, <1>4

\* WRITE: the new contents were already in sight.
LEMMA GuardarWriteFiel ==
    ASSUME TypeOK, Disciplina, Reparto, Fiel, NEW w \in Workers, GuardarMetadata(w),
           hilo[w].op = "WRITE"
    PROVE  Fiel' /\ UNCHANGED Vista
<1>1. PICK h \in Hilo : h = hilo[w]
  BY Hechos
<1>2. h.pc = "guardar" /\ h.op = "WRITE" /\ EnMemoria(h)
  BY <1>1 DEF GuardarMetadata, En, Fiel
<1>3. PICK t \in Tags : t = h.tag /\ lock[t] = w /\ t \in archivos
  BY <1>1, <1>2, Seccion
<1>4. h.m.n = meta[t].n /\ h.m.size = meta[t].size /\ h.m.estado = meta[t].estado
  BY <1>2, <1>3 DEF EnMemoria
<1>5. h.m.n = Necesarios(h.m.size)
  BY <1>4 DEF Fiel, Medidas
<1> HIDE DEF Fiel, Vista
<1>6. /\ Fiel'
      /\ Visto(t)' = Visto(t) => UNCHANGED Vista
      /\ Visto(t) = Mira(h, t \in archivos, meta[t], contenido)
      /\ Visto(t)' = Ficha(h.m.size, h.m.estado, h.m.n, h.m.blocks, contenido)
  BY <1>1, <1>3, <1>5, GuardaFiel
<1>7. Visto(t) = Ficha(meta[t].size, meta[t].estado, meta[t].n, h.m.blocks, contenido)
  BY <1>2, <1>3, <1>6 DEF Mira, Lista
<1> QED
  BY <1>4, <1>6, <1>7

\* TRUNCATE: the new size was already in sight, and what was added reads as zeros.
LEMMA GuardarTruncateFiel ==
    ASSUME TypeOK, Disciplina, Reparto, Fiel, NEW w \in Workers, GuardarMetadata(w),
           hilo[w].op = "TRUNCATE"
    PROVE  Fiel' /\ UNCHANGED Vista
<1>1. PICK h \in Hilo : h = hilo[w]
  BY Hechos
<1>2. h.pc = "guardar" /\ h.op = "TRUNCATE" /\ EnMemoria(h)
  BY <1>1 DEF GuardarMetadata, En, Fiel
<1>3. PICK t \in Tags : t = h.tag /\ lock[t] = w /\ t \in archivos
  BY <1>1, <1>2, Seccion
<1>4. Recorte(h, meta[t])
  BY <1>2, <1>3 DEF EnMemoria
<1>5. /\ h.m.estado = meta[t].estado /\ h.m.size = h.arg /\ h.m.n = Necesarios(h.arg)
      /\ \A l \in Logicos : l < meta[t].n /\ l < h.m.n => h.m.blocks[l] = meta[t].blocks[l]
      /\ \A l \in Logicos : meta[t].n <= l /\ l < h.m.n => h.m.blocks[l] = 0
  BY <1>2, <1>4 DEF Recorte
<1>6. h.m.n = Necesarios(h.m.size)
  BY <1>5
<1>7. contenido[0] = Cero
  <2>1. indice[Cero] = 0
    BY DEF Fiel
  <2>2. IndiceOcupado
    BY DEF Reparto, Globales
  <2> QED
    BY <2>1, <2>2, ContenidosAssumption DEF IndiceOcupado, SinBloque
<1> HIDE DEF Fiel, Vista
<1>8. /\ Fiel'
      /\ Visto(t)' = Visto(t) => UNCHANGED Vista
      /\ Visto(t) = Mira(h, t \in archivos, meta[t], contenido)
      /\ Visto(t)' = Ficha(h.m.size, h.m.estado, h.m.n, h.m.blocks, contenido)
  BY <1>1, <1>3, <1>6, GuardaFiel
<1>9. Visto(t) = Ficha(h.arg, meta[t].estado, meta[t].n, meta[t].blocks, contenido)
  BY <1>2, <1>3, <1>8 DEF Mira, Lista
<1>10. meta[t].n \in Int /\ h.m.n \in Int
  <2>1. meta[t] \in Metadata /\ h.m \in Metadata
    BY DEF TypeOK, Hilo
  <2> QED
    BY <2>1, LogicosAssumption DEF Metadata
<1>11. \A l \in Logicos : ~ (l >= h.m.n) =>
          (IF l < meta[t].n THEN contenido[meta[t].blocks[l]] ELSE Cero)
          = (IF l < h.m.n THEN contenido[h.m.blocks[l]] ELSE Cero)
  BY <1>5, <1>7, <1>10 DEF Logicos
<1>12. Ficha(h.arg, meta[t].estado, meta[t].n, meta[t].blocks, contenido)
       = Ficha(h.m.size, h.m.estado, h.m.n, h.m.blocks, contenido)
  BY <1>5, <1>11 DEF Ficha
<1> QED
  BY <1>8, <1>9, <1>12

\* COMMIT: the contents stay, the state changes.
LEMMA GuardarCommitFiel ==
    ASSUME TypeOK, Disciplina, SinCommitear, Reparto, Fiel, NEW w \in Workers, GuardarMetadata(w),
           hilo[w].op = "COMMIT"
    PROVE  Fiel' /\ AL!Next
<1>1. PICK h \in Hilo : h = hilo[w]
  BY Hechos
<1>2. h.pc = "guardar" /\ h.op = "COMMIT" /\ EnMemoria(h) /\ Fundado(h)
  BY <1>1 DEF GuardarMetadata, En, Fiel, Reparto
<1>3. PICK t \in Tags : t = h.tag /\ lock[t] = w /\ t \in archivos
  BY <1>1, <1>2, Seccion
<1>4. h.m.n = meta[t].n /\ h.m.size = meta[t].size /\ h.m.estado = "COMMITED"
  BY <1>2, <1>3 DEF EnMemoria, Fundado
<1>5. h.m.n = Necesarios(h.m.size)
  BY <1>4 DEF Fiel, Medidas
<1> HIDE DEF Fiel, Vista
<1>6. /\ Fiel'
      /\ \A x : Visto(t)' = x => Cambia(t, x)
      /\ Visto(t) = Mira(h, t \in archivos, meta[t], contenido)
      /\ Visto(t)' = Ficha(h.m.size, h.m.estado, h.m.n, h.m.blocks, contenido)
  BY <1>1, <1>3, <1>5, GuardaFiel
<1>7. Visto(t) = Ficha(meta[t].size, meta[t].estado, meta[t].n, h.m.blocks, contenido)
  BY <1>2, <1>3, <1>6 DEF Mira, Lista
<1>8. AL!Editable(t)
  <2>1. Escribe(h)
    BY <1>1, <1>2, EnSeccion DEF Escritoras, DeFuera
  <2>2. meta[t].estado # "COMMITED" /\ meta[t] \in Metadata
    BY <1>1, <1>3, <2>1 DEF SinCommitear, TypeOK
  <2>3. meta[t].estado = "WORK_IN_PROGRESS"
    BY <2>2 DEF Metadata, Estados
  <2> QED
    BY <1>7, <2>3 DEF AL!Editable, Ficha
<1>9. PICK si, datos, x :
         /\ Visto(t) = Registro(si, meta[t].size, meta[t].estado, datos)
         /\ x = Registro(si, meta[t].size, "COMMITED", datos)
         /\ Visto(t)' = x
  <2> DEFINE d == [l \in Logicos |-> IF l >= Necesarios(meta[t].size) THEN "nada"
                                     ELSE IF l < meta[t].n THEN contenido[h.m.blocks[l]] ELSE Cero]
  <2>1. Visto(t) = Registro(TRUE, meta[t].size, meta[t].estado, d)
    BY Zenon, <1>7 DEF Ficha, Registro
  <2>2. Visto(t)' = Ficha(meta[t].size, "COMMITED", meta[t].n, h.m.blocks, contenido)
    BY Zenon, <1>4, <1>6
  <2>3. Visto(t)' = Registro(TRUE, meta[t].size, "COMMITED", d)
    BY Zenon, <2>2 DEF Ficha, Registro
  <2> HIDE DEF d
  <2> QED
    BY Zenon, <2>1, <2>3
<1>10. Cambia(t, x)
  BY <1>6, <1>9
<1>11. AL!Next
  BY <1>8, <1>9, <1>10, EsCommitear
<1> QED
  BY <1>6, <1>11

\* TAG: the new tag is filled at once with the contents of its origin.
LEMMA GuardarTagFiel ==
    ASSUME TypeOK, Disciplina, Reparto, Fiel, NEW w \in Workers, GuardarMetadata(w),
           hilo[w].op = "TAG"
    PROVE  Fiel' /\ AL!Next
<1>1. PICK h \in Hilo : h = hilo[w]
  BY Hechos
<1>2. h.pc = "guardar" /\ h.op = "TAG" /\ EnMemoria(h) /\ Fundado(h)
  BY <1>1 DEF GuardarMetadata, En, Fiel, Reparto
<1>3. PICK t \in Tags, o \in Tags :
         /\ t = h.tag /\ o = h.orig /\ o # t /\ t \in archivos /\ o \in archivos
         /\ lock[t] = w /\ lock[o] = w
  BY <1>1, <1>2, SeccionTag
<1>4. /\ h.m.n = meta[o].n /\ h.m.size = meta[o].size /\ h.m.blocks = meta[o].blocks
      /\ h.m.estado = meta[t].estado
  BY <1>2, <1>3 DEF EnMemoria, Fundado
<1>5. h.m.n = Necesarios(h.m.size)
  BY <1>4 DEF Fiel, Medidas
<1>12. Visto(o) = Mira(Ocioso, o \in archivos, meta[o], contenido)
  <2>1. AlFrente(o, Ocioso)
    BY <1>1, <1>2, <1>3, NadieAlFrente, WorkersAssumption DEF AlFrente, Sobre
  <2> QED
    BY <2>1, VistoEs
<1>13. Visto(o) = Ficha(meta[o].size, meta[o].estado, meta[o].n, meta[o].blocks, contenido)
  BY <1>3, <1>12, NadieAlFrente, MiraLibre DEF Mira, Lista, Ocioso
<1> HIDE DEF Fiel, Vista
<1>6. /\ Fiel'
      /\ \A x : Visto(t)' = x => Cambia(t, x)
      /\ Visto(t) = Mira(h, t \in archivos, meta[t], contenido)
      /\ Visto(t)' = Ficha(h.m.size, h.m.estado, h.m.n, h.m.blocks, contenido)
  BY <1>1, <1>3, <1>5, GuardaFiel
<1>7. Visto(t) = Ficha(meta[t].size, meta[t].estado, meta[t].n, meta[t].blocks, contenido)
  BY <1>2, <1>3, <1>6 DEF Mira, Lista
<1>8. Presente(o) /\ Presente(t)
  BY <1>7, <1>13 DEF Presente, Ficha
<1>9. PICK si, datos, otros, x :
         /\ Visto(t) = Registro(si, meta[t].size, meta[t].estado, datos)
         /\ Visto(o).size = meta[o].size /\ Visto(o).datos = otros
         /\ x = Registro(si, meta[o].size, meta[t].estado, otros)
         /\ Visto(t)' = x
  <2> DEFINE D(s) == [l \in Logicos |-> IF l >= Necesarios(meta[s].size) THEN "nada"
                          ELSE IF l < meta[s].n THEN contenido[meta[s].blocks[l]] ELSE Cero]
  <2>1. Visto(t) = Registro(TRUE, meta[t].size, meta[t].estado, D(t))
    BY Zenon, <1>7 DEF Ficha, Registro
  <2>2. Visto(t)' = Ficha(meta[o].size, meta[t].estado, meta[o].n, meta[o].blocks, contenido)
    BY Zenon, <1>4, <1>6
  <2>3. Visto(t)' = Registro(TRUE, meta[o].size, meta[t].estado, D(o))
    BY Zenon, <2>2 DEF Ficha, Registro
  <2>4. Visto(o).size = meta[o].size /\ Visto(o).datos = D(o)
    BY <1>13 DEF Ficha
  <2> HIDE DEF D
  <2> QED
    BY Zenon, <2>1, <2>3, <2>4
<1>10. Cambia(t, x)
  BY <1>6, <1>9
<1>11. AL!Next
  BY <1>3, <1>8, <1>9, <1>10, EsCopiar
<1> QED
  BY <1>6, <1>11

\* guardar_metadata_file, whatever operation it ends.
LEMMA GuardarMetadataFiel ==
    ASSUME TypeOK, Disciplina, SinCommitear, Reparto, Fiel, NEW w \in Workers, GuardarMetadata(w)
    PROVE  Fiel' /\ (AL!Next \/ UNCHANGED Vista)
<1>1. hilo[w].op \in {"WRITE", "TRUNCATE", "COMMIT", "TAG"}
  BY Hechos DEF GuardarMetadata, En, OperacionesDe
<1> QED
  BY <1>1, GuardarWriteFiel, GuardarTruncateFiel, GuardarCommitFiel, GuardarTagFiel

\* A formatted filesystem is BASE, with one block of zeros.
LEMMA FielInit == Init => Fiel /\ AL!Init
<1> SUFFICES ASSUME Init PROVE Fiel /\ AL!Init
  OBVIOUS
<1>1. BlockSize \in Nat /\ BlockSize > 0 /\ Necesarios(BlockSize) = 1
  <2>1. \A n \in Nat : n > 0 => (n + n - 1) \div n = 1
    OBVIOUS
  <2> QED
    BY <2>1, TamaniosAssumption DEF Necesarios
<1>2. \A t \in Tags : meta[t] = IF t = BASE
                                THEN [size |-> BlockSize, estado |-> "COMMITED", n |-> 1,
                                      blocks |-> [SinEnlaces EXCEPT ![0] = 0]]
                                ELSE MetaVacia
  BY DEF Init
<1>3. Medidas
  BY <1>1, <1>2, SinTamanio DEF Medidas, MetaVacia
<1>4. \A w \in Workers : hilo[w] = Ocioso
  BY DEF Init
<1>5. \A w \in Workers : EnMemoria(hilo[w])
  BY <1>4 DEF EnMemoria, Ocioso
<1>6. indice[Cero] = 0
  BY ContenidosAssumption DEF Init
<1>7. \A t \in Tags : Visto(t) = Mira(Ocioso, t \in archivos, meta[t], contenido)
  <2>1. \A t \in Tags : AlFrente(t, Ocioso)
    BY <1>4, NadieAlFrente DEF AlFrente
  <2> QED
    BY <2>1, VistoEs
<1>8. \A t \in Tags : Visto(t) = IF t = BASE
                                 THEN Ficha(BlockSize, "COMMITED", 1, [SinEnlaces EXCEPT ![0] = 0], contenido)
                                 ELSE AL!Ausente
  <2>1. archivos = {BASE} /\ Ocioso.op = "ninguna"
    BY DEF Init, Ocioso
  <2>2. ASSUME NEW t \in Tags, t # BASE PROVE Visto(t) = AL!Ausente
    BY <1>7, <2>1, <2>2 DEF Mira
  <2>3. Visto(BASE) = Ficha(BlockSize, "COMMITED", 1, [SinEnlaces EXCEPT ![0] = 0], contenido)
    <3>1. Visto(BASE) = Mira(Ocioso, BASE \in archivos, meta[BASE], contenido)
      BY <1>7, TagsAssumption
    <3>2. Lista(Ocioso, meta[BASE]) = meta[BASE].blocks
      BY NadieAlFrente
    <3>3. /\ meta[BASE].size = BlockSize /\ meta[BASE].estado = "COMMITED"
          /\ meta[BASE].n = 1 /\ meta[BASE].blocks = [SinEnlaces EXCEPT ![0] = 0]
      <4>1. meta[BASE] = [size |-> BlockSize, estado |-> "COMMITED", n |-> 1,
                          blocks |-> [SinEnlaces EXCEPT ![0] = 0]]
        BY Zenon, <1>2, TagsAssumption
      <4> QED
        BY <4>1
    <3>4. BASE \in archivos
      BY <2>1
    <3> QED
      BY <2>1, <3>1, <3>2, <3>3, <3>4 DEF Mira
  <2> QED
    BY <2>2, <2>3
<1>9. Ficha(BlockSize, "COMMITED", 1, [SinEnlaces EXCEPT ![0] = 0], contenido)
      = [existe |-> TRUE, size |-> BlockSize, estado |-> "COMMITED",
         datos |-> [AL!SinDatos EXCEPT ![0] = Cero]]
  <2> DEFINE bs == [SinEnlaces EXCEPT ![0] = 0]
             D  == [l \in Logicos |-> IF l >= Necesarios(BlockSize) THEN "nada"
                                      ELSE IF l < 1 THEN contenido[bs[l]] ELSE Cero]
  <2>1. 0 \in Logicos /\ 0 \in Bloques /\ \A l \in Logicos : l \in Int /\ (l # 0 => l >= 1)
    BY LogicosAssumption, BloquesAssumption DEF Logicos, Bloques
  <2>2. contenido[bs[0]] = Cero
    BY <2>1 DEF Init, SinEnlaces
  <2> HIDE DEF bs
  <2>3. D = [l \in Logicos |-> IF l = 0 THEN Cero ELSE "nada"]
    BY <1>1, <2>1, <2>2
  <2>4. [AL!SinDatos EXCEPT ![0] = Cero] = [l \in Logicos |-> IF l = 0 THEN Cero ELSE "nada"]
    BY <2>1 DEF AL!SinDatos, AL!Nada, AL!Logicos, Logicos
  <2>5. [AL!SinDatos EXCEPT ![0] = Cero] = D
    BY <2>3, <2>4
  <2> QED
    BY <2>5 DEF Ficha, bs
<1>10. AL!Init
  BY <1>8, <1>9 DEF AL!Init
<1> QED
  BY <1>3, <1>5, <1>6, <1>10 DEF Fiel

\* Without a step nothing looks different.
LEMMA FielQuieto ==
    ASSUME Fiel, UNCHANGED vars
    PROVE  Fiel' /\ UNCHANGED Vista
<1>1. UNCHANGED <<archivos, meta, contenido, lock, hilo, enlaces, indice>>
  BY DEF vars
<1>2. \A ops : \A t \in Tags : Haciendo(ops, t)' = Haciendo(ops, t)
  BY <1>1 DEF Haciendo
<1>3. \A t \in Tags : SizeDe(t)' = SizeDe(t) /\ BloquesDe(t)' = BloquesDe(t)
  BY <1>1, <1>2 DEF SizeDe, BloquesDe
<1>4. \A t \in Tags : Visto(t)' = Visto(t)
  BY <1>1, <1>2, <1>3 DEF Visto
<1>5. Fiel'
  BY <1>1 DEF Fiel, Medidas, EnMemoria, Recorte, Entera
<1> QED
  BY <1>4, <1>5 DEF Vista

\* Every step is one operation on one File:Tag, or does not show.
LEMMA FielInv ==
    ASSUME TypeOK, Disciplina, SinCommitear, Reparto, Fiel, [Next]_vars
    PROVE  Fiel' /\ (AL!Next \/ UNCHANGED Vista)
<1>1. CASE UNCHANGED vars
  BY <1>1, FielQuieto
<1>2. ASSUME NEW w \in Workers, Pedido(w) PROVE Fiel' /\ (AL!Next \/ UNCHANGED Vista)
  <2>1. PICK t \in Tags :
           \/ Create(w, t) \/ Delete(w, t) \/ Commit(w, t)
           \/ \E tam \in Tamanios : Truncate(w, t, tam)
           \/ \E i \in Logicos : Read(w, t, i)
           \/ \E i \in Logicos, d \in Contenidos : Write(w, t, i, d)
           \/ \E d \in Tags : Tag(w, t, d)
    BY <1>2 DEF Pedido
  <2> QED
    BY <2>1, CreateFiel, DeleteFiel, CommitFiel, TruncateFiel, LecturasFiel, WriteFiel, TagFiel
<1>3. ASSUME NEW w \in Workers, Paso(w) PROVE Fiel' /\ (AL!Next \/ UNCHANGED Vista)
  <2>1. CASE ReservarBloque(w)
    <3>1. Libres = {} => /\ En(w, "reservar") /\ Fin(w, "espacio_insuficiente")
                         /\ UNCHANGED disco
      BY <2>1 DEF ReservarBloque, disco
    <3> QED
      BY <2>1, <3>1, ReservarBloqueFiel, SinEspacioFiel
  <2>2. CASE Desenlazar(w)
    <3>1. hilo[w].op \in {"WRITE", "COMMIT"}
      BY <2>2, Hechos DEF Desenlazar, En, OperacionesDe
    <3> QED
      BY <2>2, <3>1, DesenlazarWriteFiel, DesenlazarCommitFiel
  <2>3. CASE \/ Responder(w) \/ LeerBloque(w) \/ ResponderRead(w)
             \/ ContarParaEscribir(w) \/ EscribirEnSitio(w) \/ EscribirNuevo(w)
             \/ Enlazar(w) \/ Agrandar(w) \/ Achicar(w)
    BY <2>3, LecturasFiel, ContarParaEscribirFiel, EscribirEnSitioFiel, EscribirNuevoFiel,
       EnlazarFiel, AgrandarFiel, AchicarFiel
  <2>4. CASE \/ BorrarEnlace(w) \/ ContarReferencias(w) \/ MarcarLibre(w) \/ QuitarTag(w)
             \/ BuscarHash(w) \/ GuardarHash(w)
             \/ CrearDestino(w) \/ TomarDestino(w) \/ CopiarEnlace(w) \/ GuardarMetadata(w)
    BY <2>4, BorrarEnlaceFiel, ContarReferenciasFiel, MarcarLibreFiel, QuitarTagFiel,
       BuscarHashFiel, GuardarHashFiel, CrearDestinoFiel, TomarDestinoFiel,
       CopiarEnlaceFiel, GuardarMetadataFiel
  <2> QED
    BY <1>3, <2>1, <2>2, <2>3, <2>4 DEF Paso
<1> QED
  BY <1>1, <1>2, <1>3 DEF Next

\* Unless a shared block can be deleted, the Storage is a set of File:Tags with an
\* array of blocks each, which the operations of ArchivosLogicos change one at a
\* time: however many threads share, copy and free the physical blocks.
THEOREM ArchivosSeparados == CargaSegura => (Spec => ImplementaArchivos)
<1> SUFFICES ASSUME CargaSegura PROVE Spec => ImplementaArchivos
  OBVIOUS
<1>1. Spec => [](TypeOK /\ Disciplina)
  BY Inductivo
<1>2. Spec => []SinCommitear
  BY SeccionSinCommitear
<1>3. Spec => []Reparto
  BY Repartido
<1>4. Init => Fiel /\ AL!Init
  BY FielInit
<1>5. TypeOK /\ Disciplina /\ SinCommitear /\ Reparto /\ Fiel /\ [Next]_vars => Fiel' /\ [AL!Next]_Vista
  BY FielInv
<1>6. Spec => []Fiel
  BY <1>1, <1>2, <1>3, <1>4, <1>5, PTL DEF Spec
<1>7. Spec => AL!Init /\ [][AL!Next]_Vista
  <2> HIDE DEF Vista
  <2> QED
    BY <1>1, <1>2, <1>3, <1>4, <1>5, <1>6, PTL DEF Spec
<1>8. AL!Spec <=> AL!Init /\ [][AL!Next]_Vista
  BY DEF AL!Spec, Vista
<1> QED
  BY <1>7, <1>8 DEF ImplementaArchivos
=============================================================================
