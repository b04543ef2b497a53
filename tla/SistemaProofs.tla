----------------------------- MODULE SistemaProofs ------------------------------
(* Proofs about Sistema, for every number of Workers and queries, files of    *)
(* every length and both planning algorithms: types, where every query is,    *)
(* and the evictions in flight.                                               *)
EXTENDS Sistema, ListasProofs, FiniteSetTheorems, TLAPS

\* What a thread of the Master relies on at each step: a query and a Worker when
\* it carries them and, among the planners, a round to go back to.
HiloSano(h) ==
    /\ h.paso \in {"asignar", "enviar", "desalojar", "esperar", "enviar_relevo"} => h.query \in Queries
    /\ h.paso = "asignar" => h.worker \in Workers
    /\ algoritmo = "PRIORIDADES" =>
          /\ h.paso \in {"asignar", "enviar", "soltar", "desalojar", "esperar", "enviar_relevo"} => h.i > 0
          /\ \A k \in DOMAIN h.pila : h.pila[k].i > 0
    /\ algoritmo = "FIFO" =>
          /\ h.paso \notin {"iterar", "desalojar", "esperar", "enviar_relevo"}
          /\ \A k \in DOMAIN h.pila : h.pila[k].suelta

Sanos ==
    /\ \A t \in Hilos : HiloSano(hilo[t])
    /\ \A w \in Workers : escucha[w].paso = "espera" => escucha[w].query \in Queries

\* The parts of the type invariant.
TiposMaster ==
    /\ algoritmo \in Algoritmos
    /\ query \in [Queries -> Query]
    /\ disponible \subseteq Workers
    /\ queries_ready \in Seq(Queries) /\ queries_exec \in Seq(Queries)
    /\ lista_workers_info \in Seq(Workers)
    /\ mutex_planificacion \in BOOLEAN
    /\ sem_ejecutar_query \in Nat
    /\ hilo \in [Hilos -> Hilo]
TiposControl ==
    /\ ejecuciones \in [Workers -> SUBSET Ejecucion]
    /\ query_en_ejecucion \in [Workers -> BOOLEAN]
    /\ query_desalojada \in [Workers -> BOOLEAN]
    /\ pc_actual \in [Workers -> 0 .. Lineas]
    /\ sem_desalojo \in [Workers -> Nat]
    /\ escucha \in [Workers -> Escucha]
    /\ avance \in [Queries -> Avance]
TiposCanales ==
    /\ a_worker \in [Workers -> Seq(HaciaWorker)]
    /\ a_master \in [Workers -> Seq(HaciaMaster)]
    /\ a_query \in [Queries -> HaciaQuery]
    /\ caido \subseteq Workers /\ caidas \in 0 .. MaxCaidas

LEMMA PartesDelTipo == TypeOK <=> TiposMaster /\ TiposControl /\ TiposCanales
BY DEF TypeOK, TiposMaster, TiposControl, TiposCanales

-----------------------------------------------------------------------------
(* What the searches of the planner find                                   *)

\* A position of a list with the smallest value, the first of them.
LEMMA PrimeroMenor ==
    ASSUME NEW n \in Nat, NEW f \in [1 .. n -> Nat], n # 0
    PROVE  \E k \in 1 .. n : /\ \A j \in 1 .. n : f[k] <= f[j]
                             /\ \A j \in 1 .. k - 1 : f[k] < f[j]
<1> DEFINE V == {f[j] : j \in 1 .. n}
<1>1. V \in SUBSET Nat /\ V # {}
  <2>1. 1 \in 1 .. n
    OBVIOUS
  <2> QED
    BY <2>1
<1>2. PICK v \in V : \A y \in V : v <= y
  BY <1>1, MinNat
<1> DEFINE K == {j \in 1 .. n : f[j] = v}
<1>3. K \in SUBSET Nat /\ K # {}
  BY <1>2
<1>4. PICK k \in K : \A y \in K : k <= y
  BY <1>3, MinNat
<1>5. k \in 1 .. n /\ f[k] = v
  BY <1>4
<1>6. \A j \in 1 .. n : f[k] <= f[j]
  BY <1>2, <1>5
<1>7. ASSUME NEW j \in 1 .. k - 1 PROVE f[k] < f[j]
  <2>1. j \in 1 .. n /\ ~ (k <= j)
    BY <1>5
  <2>2. f[j] # v
    BY <1>4, <2>1
  <2>3. f[k] \in Nat /\ f[j] \in Nat
    BY <1>5, <2>1
  <2> QED
    BY <1>5, <1>6, <2>1, <2>2, <2>3
<1> QED
  BY <1>5, <1>6, <1>7

\* A position with the largest value among the first n.
LEMMA Mayor ==
    ASSUME NEW n \in Nat, NEW f \in [1 .. n -> Nat], n # 0
    PROVE  \E k \in 1 .. n : \A j \in 1 .. n : f[j] <= f[k]
<1> DEFINE Malos == {m \in 1 .. n : ~ \E k \in 1 .. m : \A j \in 1 .. m : f[j] <= f[k]}
<1>1. CASE Malos = {}
  <2>1. n \in 1 .. n
    OBVIOUS
  <2>2. n \notin Malos
    <3> HIDE DEF Malos
    <3> QED
      BY <1>1
  <2> QED
    BY <2>1, <2>2
<1>2. CASE Malos # {}
  <2>1. Malos \in SUBSET Nat
    OBVIOUS
  <2>2. PICK m \in Malos : \A y \in Malos : m <= y
    BY <1>2, <2>1, MinNat
  <2>3. m \in 1 .. n /\ ~ \E k \in 1 .. m : \A j \in 1 .. m : f[j] <= f[k]
    BY <2>2
  <2>4. m # 1
    <3>1. f[1] \in Nat
      OBVIOUS
    <3>2. m = 1 => 1 \in 1 .. m /\ \A j \in 1 .. m : f[j] <= f[1]
      BY <3>1
    <3> QED
      BY <2>3, <3>2
  <2>5. m - 1 \in 1 .. n /\ m - 1 \notin Malos
    <3>1. m - 1 \in 1 .. n /\ ~ (m <= m - 1)
      BY <2>3, <2>4
    <3> HIDE DEF Malos
    <3> QED
      BY <2>2, <3>1
  <2>6. PICK k \in 1 .. m - 1 : \A j \in 1 .. m - 1 : f[j] <= f[k]
    BY <2>5
  <2>7. \A j \in 1 .. m : j \in 1 .. m - 1 \/ j = m
    BY <2>3
  <2>8. f[k] \in Nat /\ f[m] \in Nat /\ k \in 1 .. m /\ m \in 1 .. m /\ \A j \in 1 .. m : f[j] \in Nat
    BY <2>3, <2>6
  <2>9. CASE f[k] <= f[m]
    <3>1. \A j \in 1 .. m : f[j] <= f[m]
      BY <2>6, <2>7, <2>8, <2>9
    <3> QED
      BY <2>3, <2>8, <3>1
  <2>10. CASE f[m] <= f[k]
    <3>1. \A j \in 1 .. m : f[j] <= f[k]
      BY <2>6, <2>7, <2>8, <2>10
    <3> QED
      BY <2>3, <2>8, <3>1
  <2> QED
    BY <2>8, <2>9, <2>10
<1> QED
  BY <1>1, <1>2

\* encontrar_query_por_worker returns a query of EXEC on that Worker.
LEMMA PrimeraEnHay ==
    ASSUME TiposMaster, NEW w, EnWorker(w) # {}
    PROVE  /\ PrimeraEn(w) \in Queries /\ PrimeraEn(w) \in ToSet(queries_exec)
           /\ query[PrimeraEn(w)].worker = w
<1>1. DOMAIN queries_exec = 1 .. Len(queries_exec) /\ Len(queries_exec) \in Nat
      /\ \A k \in DOMAIN queries_exec : queries_exec[k] \in Queries
  BY LenProperties, ElementOfSeq DEF TiposMaster
<1>2. EnWorker(w) \in SUBSET Nat
  BY <1>1 DEF EnWorker
<1>3. \E k \in EnWorker(w) : \A j \in EnWorker(w) : k <= j
  BY <1>2, MinNat
<1>4. PICK k \in EnWorker(w) : PrimeraEn(w) = queries_exec[k]
  BY <1>3 DEF PrimeraEn
<1> QED
  BY <1>1, <1>4 DEF EnWorker, ToSet

\* obtener_worker_disponible returns a Worker of the list that is free.
LEMMA WorkerDisponibleHay ==
    ASSUME TiposMaster, HayWorker
    PROVE  /\ WorkerDisponible \in disponible /\ WorkerDisponible \in ToSet(lista_workers_info)
           /\ WorkerDisponible \in Workers
<1>1. DOMAIN lista_workers_info = 1 .. Len(lista_workers_info) /\ Len(lista_workers_info) \in Nat
  BY LenProperties DEF TiposMaster
<1> DEFINE K == {k \in DOMAIN lista_workers_info : lista_workers_info[k] \in disponible}
<1>2. K \in SUBSET Nat /\ K # {}
  BY <1>1 DEF HayWorker, ToSet
<1>3. PICK k \in K : \A y \in K : k <= y
  BY <1>2, MinNat
<1>4. \A j \in 1 .. k - 1 : lista_workers_info[j] \notin disponible
  <2>1. ASSUME NEW j \in 1 .. k - 1 PROVE j \notin K
    BY <1>1, <1>3
  <2>2. \A j \in 1 .. k - 1 : j \in DOMAIN lista_workers_info
    BY <1>1, <1>3
  <2> QED
    BY <2>1, <2>2
<1>5. PICK m \in DOMAIN lista_workers_info :
         lista_workers_info[m] \in disponible /\ WorkerDisponible = lista_workers_info[m]
  BY <1>3, <1>4 DEF WorkerDisponible
<1> QED
  BY <1>5 DEF ToSet, TiposMaster

\* The query that planificar_queries_prioridades chooses is one of READY.
LEMMA MejorQueryHay ==
    ASSUME TiposMaster, queries_ready # <<>>
    PROVE  MejorQuery \in ToSet(queries_ready) /\ MejorQuery \in Queries
<1>1. DOMAIN queries_ready = 1 .. Len(queries_ready) /\ Len(queries_ready) \in Nat /\ Len(queries_ready) # 0
      /\ \A k \in DOMAIN queries_ready : queries_ready[k] \in Queries
  BY LenProperties, ElementOfSeq, EmptySeq DEF TiposMaster
<1> DEFINE f == [k \in 1 .. Len(queries_ready) |-> query[queries_ready[k]].prioridad]
<1>2. f \in [1 .. Len(queries_ready) -> Nat]
  BY <1>1 DEF TiposMaster, Query
<1>3. \E k \in 1 .. Len(queries_ready) : /\ \A j \in 1 .. Len(queries_ready) : f[k] <= f[j]
                                          /\ \A i \in 1 .. k - 1 : f[k] < f[i]
  <2> HIDE DEF f
  <2> QED
    BY <1>1, <1>2, PrimeroMenor
<1>4. PICK k \in 1 .. Len(queries_ready) :
         /\ \A j \in 1 .. Len(queries_ready) : f[k] <= f[j]
         /\ \A j \in 1 .. k - 1 : f[k] < f[j]
  BY <1>3
<1>5. \A j \in 1 .. k - 1 : j \in 1 .. Len(queries_ready)
  BY <1>1
<1>6. /\ \A j \in DOMAIN queries_ready :
            query[queries_ready[k]].prioridad <= query[queries_ready[j]].prioridad
      /\ \A j \in 1 .. k - 1 :
            query[queries_ready[k]].prioridad < query[queries_ready[j]].prioridad
  BY <1>1, <1>4, <1>5
<1>7. PICK m \in DOMAIN queries_ready : MejorQuery = queries_ready[m]
  BY <1>1, <1>6 DEF MejorQuery
<1> QED
  BY <1>1, <1>7 DEF ToSet

\* A victim is a query of EXEC: among those of larger prioridad there is a first
\* one of the largest.
LEMMA VictimaHay ==
    ASSUME TiposMaster, Desalojables # {}
    PROVE  Victima \in ToSet(queries_exec) /\ Victima \in Queries
<1>1. DOMAIN queries_exec = 1 .. Len(queries_exec) /\ Len(queries_exec) \in Nat
      /\ \A k \in DOMAIN queries_exec : queries_exec[k] \in Queries
  BY LenProperties, ElementOfSeq DEF TiposMaster
<1> DEFINE n == Len(queries_exec)
           D == Desalojables
           p == [k \in 1 .. n |-> query[queries_exec[k]].prioridad]
           f == [k \in 1 .. n |-> IF k \in D THEN p[k] + 1 ELSE 0]
<1>2. D \subseteq 1 .. n /\ n \in Nat /\ n # 0
  BY <1>1 DEF Desalojables
<1>3. p \in [1 .. n -> Nat]
  BY <1>1 DEF TiposMaster, Query
<1> HIDE DEF n, D, p
<1>4. f \in [1 .. n -> Nat]
  BY <1>3
<1>5. PICK m \in 1 .. n : \A j \in 1 .. n : f[j] <= f[m]
  <2> HIDE DEF f
  <2> QED
    BY <1>2, <1>4, Mayor
<1>6. PICK d \in D : d \in 1 .. n
  BY <1>2 DEF D
<1>7. m \in D
  BY <1>3, <1>5, <1>6
<1>8. \A j \in D : p[j] <= p[m]
  BY <1>2, <1>3, <1>5, <1>7
<1> DEFINE K == {j \in D : p[j] = p[m]}
<1>9. K \in SUBSET Nat /\ K # {}
  <2>1. \A j \in D : j \in Nat
    BY <1>2
  <2>2. m \in K
    BY <1>7
  <2> QED
    BY <2>1, <2>2
<1>10. PICK k \in K : \A y \in K : k <= y
  BY <1>9, MinNat
<1>11. k \in D /\ k \in 1 .. n /\ p[k] = p[m]
  BY <1>2, <1>10
<1>12. \A j \in D : p[k] >= p[j]
  BY <1>2, <1>3, <1>8, <1>11
<1>13. ASSUME NEW j \in D, j < k PROVE p[k] > p[j]
  <2>1. p[j] # p[m]
    BY <1>2, <1>10, <1>11, <1>13
  <2>2. p[j] \in Nat /\ p[k] \in Nat /\ p[k] >= p[j]
    BY <1>2, <1>3, <1>11, <1>12
  <2> QED
    BY <1>11, <2>1, <2>2
<1>14. \A j \in 1 .. n : p[j] = query[queries_exec[j]].prioridad
  BY DEF p
<1>15. \A j \in D : j \in 1 .. n
  BY <1>2
<1>16. /\ \A j \in Desalojables : query[queries_exec[k]].prioridad >= query[queries_exec[j]].prioridad
       /\ \A j \in Desalojables : j < k =>
             query[queries_exec[k]].prioridad > query[queries_exec[j]].prioridad
  BY <1>11, <1>12, <1>13, <1>14, <1>15 DEF D
<1>17. PICK i \in Desalojables : Victima = queries_exec[i]
  BY <1>11, <1>16 DEF Victima, D
<1>18. i \in DOMAIN queries_exec
  BY <1>17 DEF Desalojables
<1> QED
  BY <1>1, <1>17, <1>18 DEF ToSet

-----------------------------------------------------------------------------
(* Where a thread goes                                                     *)

\* Back to its thread, or to the planner that called it.
LEMMA RegresoSano ==
    ASSUME TiposMaster, Sanos, NEW t \in Hilos
    PROVE  \E h \in Hilo : /\ Regreso(t) = [hilo EXCEPT ![t] = h] /\ HiloSano(h)
                           /\ Lleva(h) = SinQuery
                           /\ h.paso \in {"fuera", "libre", "soltar", "iterar"}
                           /\ h.paso = "fuera" => t \in Workers /\ t \notin ToSet(lista_workers_info)
                           /\ hilo[t].pila = <<>> =>
                                 h.pila = <<>> /\ h.paso \in {"fuera", "libre"}
<1> DEFINE pila == hilo[t].pila
           Marcos == [i : Nat, suelta : BOOLEAN]
           h == IF pila = <<>> THEN Suelto(t)
                ELSE [Afuera EXCEPT !.paso = IF Last(pila).suelta THEN "soltar" ELSE "iterar",
                                    !.i = IF Last(pila).suelta THEN Last(pila).i ELSE Last(pila).i - 1,
                                    !.pila = Front(pila)]
<1>1. hilo[t] \in Hilo /\ HiloSano(hilo[t]) /\ algoritmo \in {"FIFO", "PRIORIDADES"}
  BY MasterAssumption DEF TiposMaster, Sanos
<1>2. Regreso(t) = [hilo EXCEPT ![t] = h]
  BY DEF Regreso
<1>3. Afuera \in Hilo /\ [Afuera EXCEPT !.paso = "libre"] \in Hilo
  <2>1. <<>> \in Seq(Marcos)
    BY EmptySeq
  <2> QED
    BY <2>1 DEF Afuera, Hilo, Pasos
<1>4. CASE pila = <<>>
  <2>1. h = Suelto(t)
    BY <1>4
  <2>2. h \in {Afuera, [Afuera EXCEPT !.paso = "libre"]}
        /\ (h = Afuera => t \in Workers /\ t \notin ToSet(lista_workers_info))
    BY <2>1 DEF Suelto, Afuera
  <2> HIDE DEF h
  <2>3. /\ h \in Hilo /\ h.paso \in {"fuera", "libre"} /\ h.pila = <<>>
        /\ h.paso = "fuera" => h = Afuera
    BY <1>3, <2>2 DEF Afuera
  <2>4. HiloSano(h) /\ Lleva(h) = SinQuery
    BY <2>3 DEF HiloSano, Lleva
  <2> QED
    BY <1>2, <2>2, <2>3, <2>4
<1>5. CASE pila # <<>>
  <2>1. pila \in Seq(Marcos)
    BY <1>1 DEF Hilo
  <2>2. Len(pila) \in Nat /\ Len(pila) # 0 /\ DOMAIN pila = 1 .. Len(pila)
        /\ \A k \in 1 .. Len(pila) : pila[k] \in Marcos
    BY <1>5, <2>1, EmptySeq, LenProperties, ElementOfSeq
  <2> DEFINE u == Last(pila)
             r == Front(pila)
  <2>3. u = pila[Len(pila)] /\ Len(pila) \in DOMAIN pila /\ u \in Marcos
    BY <2>2 DEF Last
  <2>4. /\ r \in Seq(Marcos) /\ Len(r) = Len(pila) - 1 /\ DOMAIN r = 1 .. Len(pila) - 1
        /\ \A k \in 1 .. Len(pila) - 1 : r[k] = pila[k] /\ k \in DOMAIN pila
    <3>1. \A k \in 1 .. Len(pila) - 1 : pila[k] \in Marcos
      BY <2>2
    <3>2. /\ SubSeq(pila, 1, Len(pila) - 1) \in Seq(Marcos)
          /\ Len(SubSeq(pila, 1, Len(pila) - 1)) =
                IF 1 <= Len(pila) - 1 THEN (Len(pila) - 1) - 1 + 1 ELSE 0
          /\ \A k \in 1 .. (Len(pila) - 1) - 1 + 1 :
                SubSeq(pila, 1, Len(pila) - 1)[k] = pila[1 + k - 1]
      BY <2>2, <3>1, SubSeqProperties
    <3>3. r = SubSeq(pila, 1, Len(pila) - 1)
      BY DEF Front
    <3> HIDE DEF r
    <3>4. Len(r) = Len(pila) - 1 /\ r \in Seq(Marcos)
      BY <2>2, <3>2, <3>3
    <3> QED
      BY <2>2, <3>2, <3>3, <3>4, LenProperties
  <2>5. /\ u.i \in Nat /\ u.suelta \in BOOLEAN
        /\ algoritmo = "PRIORIDADES" => u.i > 0
        /\ algoritmo = "FIFO" => u.suelta
    BY <1>1, <2>3 DEF HiloSano
  <2> DEFINE i == IF u.suelta THEN u.i ELSE u.i - 1
             paso == IF u.suelta THEN "soltar" ELSE "iterar"
  <2>6. h = [Afuera EXCEPT !.paso = paso, !.i = i, !.pila = r]
    BY <1>5
  <2>7. i \in Nat /\ paso \in {"soltar", "iterar"}
        /\ (algoritmo = "PRIORIDADES" /\ paso = "soltar" => i > 0)
        /\ (algoritmo = "FIFO" => paso = "soltar")
    BY <1>1, <2>5
  <2> HIDE DEF h, i, paso, r, u
  <2>8. h \in Hilo /\ h.paso = paso /\ h.i = i /\ h.pila = r /\ h.query = SinQuery
    BY <1>3, <2>4, <2>6, <2>7 DEF Hilo, Pasos, Afuera
  <2>9. HiloSano(h)
    BY <1>1, <2>4, <2>7, <2>8 DEF HiloSano
  <2>10. Lleva(h) = SinQuery
    BY <2>7, <2>8 DEF Lleva
  <2> QED
    BY <1>2, <1>5, <2>7, <2>8, <2>9, <2>10
<1> QED
  BY <1>4, <1>5

\* On to the next round of planificar_queries_prioridades.
LEMMA VueltaSana ==
    ASSUME TiposMaster, Sanos, NEW t \in Hilos, hilo[t].i > 0, algoritmo = "PRIORIDADES"
    PROVE  \E h \in Hilo : /\ Vuelta(t) = [hilo EXCEPT ![t] = h] /\ HiloSano(h)
                           /\ Lleva(h) = SinQuery /\ h.paso = "iterar" /\ h.pila = hilo[t].pila
<1> DEFINE h == [Afuera EXCEPT !.paso = "iterar", !.i = hilo[t].i - 1, !.pila = hilo[t].pila]
<1>1. hilo[t] \in Hilo /\ HiloSano(hilo[t])
  BY DEF TiposMaster, Sanos
<1>2. hilo[t].i - 1 \in Nat /\ hilo[t].pila \in Seq([i : Nat, suelta : BOOLEAN])
  BY <1>1 DEF Hilo
<1>3. h \in Hilo /\ h.paso = "iterar" /\ h.pila = hilo[t].pila
  BY <1>2 DEF Hilo, Pasos, Afuera
<1>4. Vuelta(t) = [hilo EXCEPT ![t] = h]
  BY DEF Vuelta
<1> HIDE DEF h
<1>5. HiloSano(h) /\ Lleva(h) = SinQuery
  BY <1>1, <1>3 DEF HiloSano, Lleva
<1> QED
  BY <1>3, <1>4, <1>5

-----------------------------------------------------------------------------
(* Types                                                                   *)

\* What a query becomes.
LEMMA QueryTipo ==
    ASSUME TiposMaster, NEW q \in Queries, NEW w \in Workers \union {SinWorker},
           NEW e \in {"NUEVA", "READY", "EXEC", "EXIT"}, NEW d \in BOOLEAN, NEW n \in 0 .. Lineas,
           NEW p \in Nat
    PROVE  /\ [query EXCEPT ![q].estado = e] \in [Queries -> Query]
           /\ [query EXCEPT ![q].estado = e, ![q].worker = w] \in [Queries -> Query]
           /\ [query EXCEPT ![q].estado = e, ![q].worker = w, ![q].desalojada = d] \in [Queries -> Query]
           /\ [query EXCEPT ![q].estado = e, ![q].desalojada = d, ![q].worker = w] \in [Queries -> Query]
           /\ [query EXCEPT ![q].estado = e, ![q].worker = w, ![q].pc = n, ![q].desalojada = d]
                 \in [Queries -> Query]
           /\ [query EXCEPT ![q].estado = e, ![q].prioridad = p] \in [Queries -> Query]
           /\ [query EXCEPT ![q].prioridad = p] \in [Queries -> Query]
<1>1. [query EXCEPT ![q].estado = e] \in [Queries -> Query]
  BY DEF TiposMaster, Query
<1>2. [query EXCEPT ![q].estado = e, ![q].worker = w] \in [Queries -> Query]
  BY DEF TiposMaster, Query
<1>3. [query EXCEPT ![q].estado = e, ![q].worker = w, ![q].desalojada = d] \in [Queries -> Query]
  BY DEF TiposMaster, Query
<1>4. [query EXCEPT ![q].estado = e, ![q].desalojada = d, ![q].worker = w] \in [Queries -> Query]
  BY DEF TiposMaster, Query
<1>5. [query EXCEPT ![q].estado = e, ![q].worker = w, ![q].pc = n, ![q].desalojada = d] \in [Queries -> Query]
  <2> DEFINE r == [query[q] EXCEPT !.estado = e, !.worker = w, !.pc = n, !.desalojada = d]
  <2>1. r \in Query
    BY DEF TiposMaster, Query
  <2>2. [query EXCEPT ![q].estado = e, ![q].worker = w, ![q].pc = n, ![q].desalojada = d]
           = [query EXCEPT ![q] = r]
    BY DEF TiposMaster
  <2> QED
    BY <2>1, <2>2 DEF TiposMaster
<1>6. [query EXCEPT ![q].estado = e, ![q].prioridad = p] \in [Queries -> Query]
  BY DEF TiposMaster, Query
<1>7. [query EXCEPT ![q].prioridad = p] \in [Queries -> Query]
  BY DEF TiposMaster, Query
<1> QED
  BY <1>1, <1>2, <1>3, <1>4, <1>5, <1>6, <1>7

\* A step of the Master that moves one thread and keeps the types of the rest.
LEMMA PasoTipos ==
    ASSUME TypeOK, Sanos, NEW t \in Hilos, NEW h \in Hilo, HiloSano(h),
           hilo' = [hilo EXCEPT ![t] = h], UNCHANGED <<algoritmo, control, enchufes>>,
           query' \in [Queries -> Query], disponible' \subseteq Workers,
           queries_ready' \in Seq(Queries), queries_exec' \in Seq(Queries),
           lista_workers_info' \in Seq(Workers), mutex_planificacion' \in BOOLEAN,
           sem_ejecutar_query' \in Nat, a_worker' \in [Workers -> Seq(HaciaWorker)],
           a_master' \in [Workers -> Seq(HaciaMaster)], a_query' \in [Queries -> HaciaQuery]
    PROVE  TypeOK' /\ Sanos'
<1>1. TypeOK'
  BY DEF TypeOK, control, enchufes
<1>2. escucha' = escucha /\ \A u \in Hilos : hilo'[u] = IF u = t THEN h ELSE hilo[u]
  BY DEF TypeOK, control
<1>3. \A k : HiloSano(k)' <=> HiloSano(k)
  BY DEF HiloSano
<1>4. \A u \in Hilos : HiloSano(hilo'[u])
  BY <1>2 DEF Sanos
<1>5. \A u \in Hilos : HiloSano(hilo[u])'
  BY <1>4 DEF HiloSano
<1> QED
  BY <1>1, <1>2, <1>5 DEF Sanos

\* The same when only the step changes.
LEMMA PasaTipo ==
    ASSUME TiposMaster, Sanos, NEW t \in Hilos, NEW p \in Pasos, Pasa(t, p),
           p \notin {"asignar", "enviar", "soltar", "iterar", "desalojar", "esperar", "enviar_relevo"}
    PROVE  \E h \in Hilo : /\ hilo' = [hilo EXCEPT ![t] = h] /\ HiloSano(h)
                           /\ h.paso = p /\ Lleva(h) = SinQuery /\ h.pila = hilo[t].pila
                           /\ h.query = hilo[t].query
<1> DEFINE h == [hilo[t] EXCEPT !.paso = p]
<1>1. hilo[t] \in Hilo /\ HiloSano(hilo[t])
  BY DEF TiposMaster, Sanos
<1>2. /\ h \in Hilo /\ h.paso = p /\ h.pila = hilo[t].pila /\ h.query = hilo[t].query
      /\ hilo' = [hilo EXCEPT ![t] = h]
  BY <1>1 DEF Hilo, Pasa
<1> HIDE DEF h
<1>3. HiloSano(h) /\ Lleva(h) = SinQuery
  BY <1>1, <1>2 DEF HiloSano, Lleva
<1> QED
  BY <1>2, <1>3

\* Connections, aging and the semaphore.
LEMMA ConectarTipos ==
    ASSUME TypeOK, Sanos, UNCHANGED <<control, enchufes>>,
           \/ \E q \in Queries : Envejecer(q) \/ \E p \in Prioridades : ConectarQuery(q, p)
           \/ \E w \in Workers : ConectarWorker(w) \/ IniciarSemaforo(w)
    PROVE  TypeOK' /\ Sanos'
<1>1. TiposMaster
  BY PartesDelTipo
<1>2. ASSUME NEW q \in Queries, Envejecer(q) PROVE TypeOK' /\ Sanos'
  <2>1. q \in Hilos /\ "planificar" \in Pasos
    BY DEF Hilos, Pasos
  <2>2. PICK h \in Hilo : hilo' = [hilo EXCEPT ![q] = h] /\ HiloSano(h)
    BY <1>1, <1>2, <2>1, PasaTipo DEF Envejecer
  <2>3. query[q].prioridad - 1 \in Nat
    BY <1>1, <1>2 DEF Envejecer, TiposMaster, Query
  <2>4. query' \in [Queries -> Query]
    BY <1>1, <1>2, <2>3 DEF Envejecer, TiposMaster, Query
  <2> QED
    BY <1>2, <2>1, <2>2, <2>4, PasoTipos DEF Envejecer, TypeOK, canales
<1>3. ASSUME NEW q \in Queries, NEW p \in Prioridades, ConectarQuery(q, p) PROVE TypeOK' /\ Sanos'
  <2>1. q \in Hilos /\ "planificar" \in Pasos /\ p \in Nat
    BY PrioridadesAssumption DEF Hilos, Pasos
  <2>2. PICK h \in Hilo : hilo' = [hilo EXCEPT ![q] = h] /\ HiloSano(h)
    BY <1>1, <1>3, <2>1, PasaTipo DEF ConectarQuery
  <2>3. query' \in [Queries -> Query]
    BY <1>1, <1>3, <2>1 DEF ConectarQuery, TiposMaster, Query
  <2>4. queries_ready' \in Seq(Queries)
    BY <1>1, <1>3, AppendProperties DEF ConectarQuery, TiposMaster
  <2> QED
    BY <1>3, <2>1, <2>2, <2>3, <2>4, PasoTipos DEF ConectarQuery, TypeOK, canales
<1>4. ASSUME NEW w \in Workers, ConectarWorker(w) PROVE TypeOK' /\ Sanos'
  <2>1. w \in Hilos /\ "semaforo" \in Pasos
    BY DEF Hilos, Pasos
  <2>2. PICK h \in Hilo : hilo' = [hilo EXCEPT ![w] = h] /\ HiloSano(h)
    BY <1>1, <1>4, <2>1, PasaTipo DEF ConectarWorker
  <2>3. lista_workers_info' \in Seq(Workers)
    BY <1>1, <1>4, AppendProperties DEF ConectarWorker, TiposMaster
  <2> QED
    BY <1>4, <2>1, <2>2, <2>3, PasoTipos DEF ConectarWorker, TypeOK, canales
<1>5. ASSUME NEW w \in Workers, IniciarSemaforo(w) PROVE TypeOK' /\ Sanos'
  <2>1. w \in Hilos /\ "planificar" \in Pasos
    BY DEF Hilos, Pasos
  <2>2. PICK h \in Hilo : hilo' = [hilo EXCEPT ![w] = h] /\ HiloSano(h)
    BY <1>1, <1>5, <2>1, PasaTipo DEF IniciarSemaforo
  <2> QED
    BY <1>5, <2>1, <2>2, PasoTipos DEF IniciarSemaforo, TypeOK, canales
<1> QED
  BY <1>2, <1>3, <1>4, <1>5

\* A query is taken from READY for a free Worker.
LEMMA TomaTipo ==
    ASSUME TiposMaster, Sanos, NEW t \in Hilos, NEW q \in Queries, NEW w \in Workers, Toma(t, q, w),
           algoritmo = "PRIORIDADES" => hilo[t].i > 0
    PROVE  /\ \E h \in Hilo : /\ hilo' = [hilo EXCEPT ![t] = h] /\ HiloSano(h)
                              /\ h.paso = "asignar" /\ h.query = q /\ h.worker = w
                              /\ h.pila = hilo[t].pila
           /\ queries_ready' \in Seq(Queries) /\ disponible' \subseteq Workers
<1> DEFINE h == [hilo[t] EXCEPT !.paso = "asignar", !.query = q, !.worker = w]
<1>1. hilo[t] \in Hilo /\ HiloSano(hilo[t])
  BY DEF TiposMaster, Sanos
<1>2. /\ h \in Hilo /\ h.paso = "asignar" /\ h.query = q /\ h.worker = w
      /\ h.pila = hilo[t].pila /\ h.i = hilo[t].i
  BY <1>1 DEF Hilo, Pasos
<1>3. hilo' = [hilo EXCEPT ![t] = h]
  BY DEF Toma, TiposMaster
<1> HIDE DEF h
<1>4. HiloSano(h)
  BY <1>1, <1>2 DEF HiloSano
<1>5. queries_ready' \in Seq(Queries)
  BY QuitarTipo DEF Toma, TiposMaster
<1> QED
  BY <1>2, <1>3, <1>4, <1>5 DEF Toma, TiposMaster

\* A packet sent to a Worker of the list.
LEMMA MandaTipo ==
    ASSUME TypeOK, NEW w, NEW m \in HaciaWorker, Manda(w, m)
    PROVE  a_worker' \in [Workers -> Seq(HaciaWorker)] /\ w \in Workers
<1>1. w \in Workers
  BY ElementosLista DEF Manda, TypeOK
<1>2. Append(a_worker[w], m) \in Seq(HaciaWorker)
  BY <1>1, AppendProperties DEF TypeOK
<1> QED
  BY <1>1, <1>2 DEF Manda, TypeOK

\* After EJECUTAR_QUERY, sent or not, each algorithm goes its way.
LEMMA SigueSano ==
    ASSUME TiposMaster, Sanos, NEW t \in Hilos, hilo[t].paso \in {"enviar", "soltar"},
           hilo' = IF algoritmo = "FIFO" THEN Regreso(t) ELSE Vuelta(t)
    PROVE  \E h \in Hilo : /\ hilo' = [hilo EXCEPT ![t] = h] /\ HiloSano(h)
                           /\ Lleva(h) = SinQuery
                           /\ h.paso \in {"fuera", "libre", "soltar", "iterar"}
<1>1. CASE algoritmo = "FIFO"
  BY <1>1, RegresoSano
<1>2. CASE algoritmo # "FIFO"
  <2>1. algoritmo = "PRIORIDADES"
    BY <1>2, MasterAssumption DEF TiposMaster
  <2>2. hilo[t].i > 0
    BY <2>1 DEF Sanos, HiloSano
  <2>3. PICK h \in Hilo : /\ Vuelta(t) = [hilo EXCEPT ![t] = h] /\ HiloSano(h)
                          /\ Lleva(h) = SinQuery /\ h.paso = "iterar"
    BY <2>1, <2>2, VueltaSana
  <2> QED
    BY <1>2, <2>3
<1> QED
  BY <1>1, <1>2

\* The planners choose a query and a Worker.
LEMMA PlanificarTipos ==
    ASSUME TypeOK, Sanos, UNCHANGED <<control, enchufes>>, NEW t \in Hilos,
           PlanificarFifo(t) \/ PlanificarPrioridades(t) \/ FinPlanificar(t) \/ Asignar(t)
    PROVE  TypeOK' /\ Sanos'
<1>1. TiposMaster /\ hilo[t] \in Hilo /\ HiloSano(hilo[t])
  BY PartesDelTipo DEF TiposMaster, Sanos
<1>2. ASSUME NEW q \in Queries, NEW w \in Workers, Toma(t, q, w),
             algoritmo = "PRIORIDADES" => hilo[t].i > 0, mutex_planificacion' \in BOOLEAN,
             UNCHANGED <<algoritmo, query, queries_exec, lista_workers_info, sem_ejecutar_query, canales>>
      PROVE  TypeOK' /\ Sanos'
  <2>1. PICK h \in Hilo : hilo' = [hilo EXCEPT ![t] = h] /\ HiloSano(h)
    BY <1>1, <1>2, TomaTipo
  <2>2. queries_ready' \in Seq(Queries) /\ disponible' \subseteq Workers
    BY <1>1, <1>2, TomaTipo
  <2> QED
    BY <1>2, <2>1, <2>2, PasoTipos DEF TypeOK, canales
<1>3. CASE PlanificarFifo(t)
  <2>1. CASE /\ queries_ready # <<>> /\ HayWorker
             /\ Toma(t, Head(queries_ready), WorkerDisponible)
             /\ mutex_planificacion' = TRUE
    <3>1. Head(queries_ready) \in Queries
      BY <2>1, <1>1, HeadTailProperties DEF TiposMaster
    <3>2. WorkerDisponible \in Workers
      BY <2>1, <1>1, WorkerDisponibleHay
    <3> QED
      BY <1>2, <1>3, <2>1, <3>1, <3>2 DEF PlanificarFifo
  <2>2. CASE hilo' = Regreso(t) /\ UNCHANGED <<disponible, queries_ready, mutex_planificacion>>
    <3>1. PICK h \in Hilo : Regreso(t) = [hilo EXCEPT ![t] = h] /\ HiloSano(h)
      BY <1>1, RegresoSano
    <3> QED
      BY <1>3, <2>2, <3>1, PasoTipos DEF PlanificarFifo, TypeOK, canales
  <2> QED
    BY <1>3, <2>1, <2>2 DEF PlanificarFifo
<1>4. CASE PlanificarPrioridades(t)
  <2> DEFINE h == [hilo[t] EXCEPT !.paso = "iterar", !.i = Len(lista_workers_info)]
  <2>1. Len(lista_workers_info) \in Nat
    BY <1>1, LenProperties DEF TiposMaster
  <2>2. h \in Hilo /\ h.paso = "iterar" /\ h.pila = hilo[t].pila
    BY <1>1, <2>1 DEF Hilo, Pasos
  <2>3. hilo' = [hilo EXCEPT ![t] = h]
    BY <1>4, <1>1 DEF PlanificarPrioridades, TiposMaster
  <2> HIDE DEF h
  <2>4. HiloSano(h)
    BY <1>1, <1>4, <2>2 DEF HiloSano, PlanificarPrioridades
  <2> QED
    BY <1>4, <2>2, <2>3, <2>4, PasoTipos DEF PlanificarPrioridades, TypeOK, canales
<1>5. CASE FinPlanificar(t)
  <2>1. PICK h \in Hilo : Regreso(t) = [hilo EXCEPT ![t] = h] /\ HiloSano(h)
    BY <1>1, RegresoSano
  <2> QED
    BY <1>5, <2>1, PasoTipos DEF FinPlanificar, TypeOK, canales
<1>6. CASE Asignar(t)
  <2>1. MejorQuery \in Queries /\ WorkerDisponible \in Workers
    BY <1>1, <1>6, MejorQueryHay, WorkerDisponibleHay DEF Asignar, Ronda
  <2> QED
    BY <1>1, <1>2, <1>6, <2>1 DEF Asignar, Ronda, TypeOK
<1> QED
  BY <1>3, <1>4, <1>5, <1>6

\* A query goes to EXEC on the Worker that was chosen.
LEMMA PasarAExecTipo ==
    ASSUME TypeOK, Sanos, UNCHANGED <<control, enchufes>>, NEW t \in Hilos, PasarAExec(t)
    PROVE  TypeOK' /\ Sanos'
<1>1. TiposMaster /\ hilo[t] \in Hilo /\ HiloSano(hilo[t])
  BY PartesDelTipo DEF TiposMaster, Sanos
<1> DEFINE q == hilo[t].query
<1>2. q \in Queries /\ hilo[t].worker \in Workers
  BY <1>1 DEF PasarAExec, En, HiloSano
<1>3. PICK w \in Leido(hilo[t].worker) :
         /\ query' = [query EXCEPT ![q].estado = "EXEC", ![q].worker = w, ![q].desalojada = FALSE]
         /\ hilo' = [hilo EXCEPT ![t].paso = "enviar", ![t].worker = w]
  BY DEF PasarAExec
<1>4. w \in Workers \union {SinWorker}
  BY <1>2 DEF Leido
<1> DEFINE h == [hilo[t] EXCEPT !.paso = "enviar", !.worker = w]
<1>5. h \in Hilo /\ h.paso = "enviar" /\ h.pila = hilo[t].pila /\ h.query = q /\ h.i = hilo[t].i
  BY <1>1, <1>4 DEF Hilo, Pasos
<1>6. hilo' = [hilo EXCEPT ![t] = h]
  BY <1>1, <1>3 DEF TiposMaster
<1>7. query' \in [Queries -> Query]
  <2>1. "EXEC" \in {"NUEVA", "READY", "EXEC", "EXIT"} /\ FALSE \in BOOLEAN
        /\ 0 \in 0 .. Lineas /\ 0 \in Nat
    BY LineasAssumption
  <2> HIDE DEF q
  <2> QED
    BY <1>1, <1>2, <1>3, <1>4, <2>1, QueryTipo
<1>8. queries_exec' \in Seq(Queries)
  BY <1>1, <1>2, AppendProperties DEF PasarAExec, TiposMaster
<1> HIDE DEF h
<1>9. HiloSano(h)
  BY <1>1, <1>2, <1>5 DEF HiloSano, PasarAExec, En
<1> QED
  BY <1>5, <1>6, <1>7, <1>8, <1>9, PasoTipos DEF PasarAExec, TypeOK, canales

\* EJECUTAR_QUERY is sent, or was not and the planner lets its mutex go.
LEMMA EnviarTipos ==
    ASSUME TypeOK, Sanos, UNCHANGED <<control, enchufes>>, NEW t \in Hilos,
           Enviar(t) \/ Soltar(t) \/ NadieDesalojable(t) \/ EnviarRelevo(t)
    PROVE  TypeOK' /\ Sanos'
<1>1. TiposMaster /\ hilo[t] \in Hilo /\ HiloSano(hilo[t]) /\ algoritmo \in {"FIFO", "PRIORIDADES"}
  BY PartesDelTipo, MasterAssumption DEF TiposMaster, Sanos
<1>2. ASSUME NEW q \in Queries, NEW w, Manda(w, EjecutarQuery(q, query[q].pc))
      PROVE  a_worker' \in [Workers -> Seq(HaciaWorker)]
  <2>1. EjecutarQuery(q, query[q].pc) \in HaciaWorker
    BY <1>1, <1>2 DEF EjecutarQuery, HaciaWorker, TiposMaster, Query
  <2> QED
    BY <1>2, <2>1, MandaTipo
<1>3. CASE Enviar(t)
  <2>1. PICK h \in Hilo : hilo' = [hilo EXCEPT ![t] = h] /\ HiloSano(h)
    BY <1>1, <1>3, SigueSano DEF Enviar, En
  <2>2. hilo[t].query \in Queries
    BY <1>1, <1>3 DEF Enviar, En, HiloSano
  <2>3. a_worker' \in [Workers -> Seq(HaciaWorker)]
    BY <1>2, <1>3, <2>2 DEF Enviar
  <2> QED
    BY <1>3, <2>1, <2>3, PasoTipos DEF Enviar, TypeOK
<1>4. CASE Soltar(t)
  <2>1. PICK h \in Hilo : hilo' = [hilo EXCEPT ![t] = h] /\ HiloSano(h)
    BY <1>1, <1>4, SigueSano DEF Soltar, En
  <2> QED
    BY <1>4, <2>1, PasoTipos DEF Soltar, TypeOK, canales
<1>5. CASE NadieDesalojable(t)
  <2>1. hilo[t].i > 0 /\ algoritmo = "PRIORIDADES"
    BY <1>1, <1>5 DEF NadieDesalojable, Ronda, En, HiloSano
  <2>2. PICK h \in Hilo : Vuelta(t) = [hilo EXCEPT ![t] = h] /\ HiloSano(h)
    BY <1>1, <2>1, VueltaSana
  <2> QED
    BY <1>5, <2>2, PasoTipos DEF NadieDesalojable, TypeOK, canales
<1>6. CASE EnviarRelevo(t)
  <2>1. hilo[t].i > 0 /\ algoritmo = "PRIORIDADES" /\ hilo[t].query \in Queries
    BY <1>1, <1>6 DEF EnviarRelevo, En, HiloSano
  <2>2. PICK h \in Hilo : Vuelta(t) = [hilo EXCEPT ![t] = h] /\ HiloSano(h)
    BY <1>1, <2>1, VueltaSana
  <2>3. a_worker' \in [Workers -> Seq(HaciaWorker)]
    BY <1>2, <1>6, <2>1 DEF EnviarRelevo
  <2> QED
    BY <1>6, <2>2, <2>3, PasoTipos DEF EnviarRelevo, TypeOK
<1> QED
  BY <1>3, <1>4, <1>5, <1>6

\* A planner that asked for an eviction waits for it, and then relieves.
LEMMA EsperaSana ==
    ASSUME TiposMaster, Sanos, NEW t \in Hilos, hilo[t].paso \in {"desalojar", "esperar"},
           NEW p \in {"esperar", "enviar_relevo"}, Pasa(t, p)
    PROVE  \E h \in Hilo : /\ hilo' = [hilo EXCEPT ![t] = h] /\ HiloSano(h)
                           /\ h.paso = p /\ h.query = hilo[t].query /\ h.worker = hilo[t].worker
<1> DEFINE h == [hilo[t] EXCEPT !.paso = p]
<1>1. hilo[t] \in Hilo /\ HiloSano(hilo[t])
  BY DEF TiposMaster, Sanos
<1>2. /\ h \in Hilo /\ h.paso = p /\ h.pila = hilo[t].pila /\ h.query = hilo[t].query
      /\ h.worker = hilo[t].worker /\ h.i = hilo[t].i
      /\ hilo' = [hilo EXCEPT ![t] = h]
  BY <1>1 DEF Hilo, Pasos, Pasa
<1> HIDE DEF h
<1>3. HiloSano(h)
  BY <1>1, <1>2 DEF HiloSano
<1> QED
  BY <1>2, <1>3

\* A packet that could not be sent.
LEMMA FallarEnvioTipo ==
    ASSUME TypeOK, Sanos, UNCHANGED <<control, enchufes>>, NEW t \in Hilos, FallarEnvio(t)
    PROVE  TypeOK' /\ Sanos'
<1> DEFINE g == hilo[t]
           marco == [i |-> g.i, suelta |-> g.paso = "enviar"]
           h == [Afuera EXCEPT !.paso = "planificar", !.pila = Append(g.pila, marco)]
           q == g.query
<1>1. /\ TiposMaster /\ g \in Hilo /\ HiloSano(g) /\ algoritmo \in {"FIFO", "PRIORIDADES"}
      /\ g.paso \in {"enviar", "enviar_relevo"} /\ q \in Queries
  BY PartesDelTipo, MasterAssumption DEF TiposMaster, Sanos, FallarEnvio, HiloSano
<1>2. disponible' \subseteq Workers
  BY <1>1, ElementosLista DEF FallarEnvio, TiposMaster
<1>3. CASE q \in ToSet(queries_exec) /\ DevolverAReady(q) /\ hilo' = [hilo EXCEPT ![t] = h]
  <2> DEFINE Marcos == [i : Nat, suelta : BOOLEAN]
             r == Append(g.pila, marco)
  <2>1. g.pila \in Seq(Marcos) /\ marco \in Marcos
    BY <1>1 DEF Hilo
  <2>2. /\ r \in Seq(Marcos) /\ DOMAIN r = 1 .. Len(g.pila) + 1 /\ DOMAIN g.pila = 1 .. Len(g.pila)
        /\ Len(g.pila) \in Nat
        /\ \A k \in 1 .. Len(g.pila) : r[k] = g.pila[k]
        /\ r[Len(g.pila) + 1] = marco
    <3> HIDE DEF marco, Marcos
    <3> QED
      BY <2>1, AppendProperties, LenProperties
  <2>3. /\ marco.i = g.i /\ (marco.suelta = (g.paso = "enviar"))
    OBVIOUS
  <2>4. h = [Afuera EXCEPT !.paso = "planificar", !.pila = r]
    OBVIOUS
  <2> HIDE DEF marco, r, h
  <2>5. h \in Hilo /\ h.paso = "planificar" /\ h.pila = r
    BY <2>2, <2>4 DEF Hilo, Pasos, Afuera
  <2>6. ASSUME NEW k \in DOMAIN r
        PROVE  /\ algoritmo = "PRIORIDADES" => r[k].i > 0
               /\ algoritmo = "FIFO" => r[k].suelta
    <3>1. CASE k \in 1 .. Len(g.pila)
      BY <1>1, <2>2, <3>1 DEF HiloSano
    <3>2. CASE k = Len(g.pila) + 1
      BY <1>1, <2>2, <2>3, <3>2 DEF HiloSano
    <3> QED
      BY <2>2, <3>1, <3>2
  <2>7. HiloSano(h)
    BY <2>5, <2>6 DEF HiloSano
  <2>8. queries_exec' \in Seq(Queries)
    BY <1>1, <1>3, QuitarTipo DEF DevolverAReady, TiposMaster
  <2>9. queries_ready' \in Seq(Queries)
    BY <1>1, <1>3, AppendProperties DEF DevolverAReady, TiposMaster
  <2>10. query' \in [Queries -> Query]
    BY <1>1, <1>3 DEF DevolverAReady, TiposMaster, Query
  <2> QED
    BY <1>2, <1>3, <2>5, <2>7, <2>8, <2>9, <2>10, PasoTipos DEF FallarEnvio, TypeOK, canales
<1>4. CASE /\ hilo' = IF g.paso = "enviar" THEN [hilo EXCEPT ![t].paso = "soltar"] ELSE Vuelta(t)
           /\ UNCHANGED <<query, queries_ready, queries_exec>>
  <2>1. CASE g.paso = "enviar"
    <3> DEFINE s == [hilo[t] EXCEPT !.paso = "soltar"]
    <3>1. s \in Hilo /\ s.paso = "soltar" /\ s.pila = g.pila /\ s.i = g.i
          /\ hilo' = [hilo EXCEPT ![t] = s]
      BY <1>1, <1>4, <2>1 DEF Hilo, Pasos
    <3> HIDE DEF s
    <3>2. HiloSano(s)
      BY <1>1, <2>1, <3>1 DEF HiloSano
    <3> QED
      BY <1>2, <1>4, <3>1, <3>2, PasoTipos DEF FallarEnvio, TypeOK, canales
  <2>2. CASE g.paso = "enviar_relevo"
    <3>1. g.i > 0 /\ algoritmo = "PRIORIDADES"
      BY <1>1, <2>2 DEF HiloSano
    <3>2. PICK s \in Hilo : Vuelta(t) = [hilo EXCEPT ![t] = s] /\ HiloSano(s)
      BY <1>1, <3>1, VueltaSana
    <3> QED
      BY <1>2, <1>4, <2>2, <3>2, PasoTipos DEF FallarEnvio, TypeOK, canales
  <2> QED
    BY <1>1, <2>1, <2>2
<1> QED
  BY <1>3, <1>4 DEF FallarEnvio

\* A query of smaller prioridad is evicted, and the planner waits.
LEMMA ElegirVictimaTipo ==
    ASSUME TypeOK, Sanos, UNCHANGED <<control, enchufes>>, NEW t \in Hilos, ElegirVictima(t)
    PROVE  TypeOK' /\ Sanos'
<1> DEFINE q == MejorQuery
           w == query[Victima].worker
           h == [hilo[t] EXCEPT !.paso = "desalojar", !.query = q, !.worker = w]
<1>1. TiposMaster /\ hilo[t] \in Hilo /\ HiloSano(hilo[t])
  BY PartesDelTipo DEF TiposMaster, Sanos
<1>2. q \in Queries /\ Victima \in Queries /\ hilo[t].i > 0 /\ hilo[t].paso = "iterar"
  BY <1>1, MejorQueryHay, VictimaHay DEF ElegirVictima, Ronda, En
<1>3. w \in Workers \union {SinWorker}
  BY <1>1, <1>2 DEF TiposMaster, Query
<1>4. /\ query' = [query EXCEPT ![q].estado = "EXEC", ![q].desalojada = FALSE, ![q].worker = w]
      /\ hilo' = [hilo EXCEPT ![t].paso = "desalojar", ![t].query = q, ![t].worker = w]
  BY DEF ElegirVictima
<1> HIDE DEF q, w
<1>5. query' \in [Queries -> Query]
  <2>1. "EXEC" \in {"NUEVA", "READY", "EXEC", "EXIT"} /\ FALSE \in BOOLEAN
        /\ 0 \in 0 .. Lineas /\ 0 \in Nat
    BY LineasAssumption
  <2> QED
    BY <1>1, <1>2, <1>3, <1>4, <2>1, QueryTipo
<1>6. /\ h \in Hilo /\ h.paso = "desalojar" /\ h.query = q /\ h.worker = w
      /\ h.pila = hilo[t].pila /\ h.i = hilo[t].i
  BY <1>1, <1>2, <1>3 DEF Hilo, Pasos
<1>7. hilo' = [hilo EXCEPT ![t] = h]
  BY <1>1, <1>4 DEF TiposMaster
<1> HIDE DEF h
<1>8. HiloSano(h)
  BY <1>1, <1>2, <1>6 DEF HiloSano
<1>9. queries_ready' \in Seq(Queries)
  BY <1>1, QuitarTipo DEF ElegirVictima, TiposMaster
<1> QED
  BY <1>5, <1>6, <1>7, <1>8, <1>9, PasoTipos DEF ElegirVictima, TypeOK, canales

LEMMA DesalojarTipos ==
    ASSUME TypeOK, Sanos, UNCHANGED <<control, enchufes>>, NEW t \in Hilos, Desalojar(t) \/ Relevar(t)
    PROVE  TypeOK' /\ Sanos'
<1>1. TiposMaster /\ hilo[t] \in Hilo /\ HiloSano(hilo[t])
  BY PartesDelTipo DEF TiposMaster, Sanos
<1>2. CASE Desalojar(t)
  <2> DEFINE w == hilo[t].worker
  <2>1. hilo[t].paso \in {"desalojar", "esperar"} /\ "esperar" \in {"esperar", "enviar_relevo"}
    BY <1>2 DEF Desalojar, En
  <2>2. PICK h \in Hilo : hilo' = [hilo EXCEPT ![t] = h] /\ HiloSano(h)
    BY <1>1, <1>2, <2>1, EsperaSana DEF Desalojar
  <2>3. a_worker' \in [Workers -> Seq(HaciaWorker)]
    <3>1. CASE Desalojable(w) /\ Manda(w, DesalojarQuery(PrimeraEn(w)))
      <4>1. PrimeraEn(w) \in Queries
        BY <1>1, <3>1, PrimeraEnHay DEF Desalojable
      <4>2. DesalojarQuery(PrimeraEn(w)) \in HaciaWorker
        BY <4>1, LineasAssumption DEF DesalojarQuery, HaciaWorker
      <4> QED
        BY <3>1, <4>2, MandaTipo
    <3>2. CASE UNCHANGED a_worker
      BY <3>2 DEF TypeOK
    <3> QED
      BY <1>2, <3>1, <3>2 DEF Desalojar
  <2> QED
    BY <1>2, <2>2, <2>3, PasoTipos DEF Desalojar, TypeOK
<1>3. CASE Relevar(t)
  <2>1. hilo[t].paso \in {"desalojar", "esperar"} /\ "enviar_relevo" \in {"esperar", "enviar_relevo"}
        /\ hilo[t].query \in Queries
    BY <1>1, <1>3 DEF Relevar, En, HiloSano
  <2>2. PICK h \in Hilo : hilo' = [hilo EXCEPT ![t] = h] /\ HiloSano(h)
    BY <1>1, <1>3, <2>1, EsperaSana DEF Relevar
  <2>3. sem_ejecutar_query' \in Nat
    BY <1>1, <1>3 DEF Relevar, TiposMaster
  <2>4. queries_exec' \in Seq(Queries)
    BY <1>1, <1>3, <2>1, AppendProperties DEF Relevar, TiposMaster
  <2>5. disponible' \subseteq Workers
    BY <1>1, <1>3 DEF Relevar, TiposMaster
  <2> QED
    BY <1>3, <2>2, <2>3, <2>4, <2>5, PasoTipos DEF Relevar, TypeOK, canales
<1> QED
  BY <1>2, <1>3

\* The packet that the reader of a Worker takes from its socket.
LEMMA LeeTipo ==
    ASSUME TypeOK, NEW w \in Workers, NEW tipo, Lee(w, tipo)
    PROVE  /\ Head(a_master[w]) \in HaciaMaster /\ Head(a_master[w]).tipo = tipo
           /\ Head(a_master[w]).query \in Queries
           /\ tipo = "QUERY_FINALIZADA" => Head(a_master[w]).motivo \in Motivos
           /\ tipo # "QUERY_FINALIZADA" => Head(a_master[w]).pc \in 0 .. Lineas
           /\ [a_master EXCEPT ![w] = Tail(@)] \in [Workers -> Seq(HaciaMaster)]
<1>1. a_master[w] \in Seq(HaciaMaster) /\ a_master[w] # <<>> /\ Head(a_master[w]).tipo = tipo
  BY DEF Lee, Llega, TypeOK
<1>2. Head(a_master[w]) \in HaciaMaster /\ Tail(a_master[w]) \in Seq(HaciaMaster)
  BY <1>1, HeadTailProperties
<1>3. \A m \in HaciaMaster : /\ m.query \in Queries
                             /\ m.tipo = "QUERY_FINALIZADA" => m.motivo \in Motivos
                             /\ m.tipo # "QUERY_FINALIZADA" => m.pc \in 0 .. Lineas
  BY DEF HaciaMaster
<1>4. [a_master EXCEPT ![w] = Tail(@)] \in [Workers -> Seq(HaciaMaster)]
  BY <1>2 DEF TypeOK
<1> QED
  BY <1>1, <1>2, <1>3, <1>4

\* A query is told how it ended.
LEMMA AvisoTipo ==
    ASSUME TypeOK, NEW q \in Queries, NEW p \in Queries, NEW mot \in Motivos,
           a_query' = [a_query EXCEPT ![q].finales = Append(@, <<p, mot>>)]
    PROVE  a_query' \in [Queries -> HaciaQuery]
<1>1. a_query[q] \in HaciaQuery /\ a_query \in [Queries -> HaciaQuery]
  BY DEF TypeOK
<1>2. a_query[q].finales \in Seq(Queries \X Motivos) /\ <<p, mot>> \in Queries \X Motivos
  BY <1>1 DEF HaciaQuery
<1> DEFINE r == [a_query[q] EXCEPT !.finales = Append(@, <<p, mot>>)]
           f == Append(a_query[q].finales, <<p, mot>>)
<1>3. f \in Seq(Queries \X Motivos)
  BY <1>2, AppendProperties
<1>4. r = [a_query[q] EXCEPT !.finales = f]
  OBVIOUS
<1>5. a_query' = [a_query EXCEPT ![q] = r]
  BY <1>1
<1> HIDE DEF f, r
<1>6. r \in HaciaQuery
  BY <1>1, <1>3, <1>4 DEF HaciaQuery
<1> QED
  BY <1>1, <1>5, <1>6

\* A step of a Worker's reader that moves no thread.
LEMMA SinMoverTipos ==
    ASSUME TypeOK, Sanos, UNCHANGED <<algoritmo, control, enchufes, hilo>>,
           query' \in [Queries -> Query], disponible' \subseteq Workers,
           queries_ready' \in Seq(Queries), queries_exec' \in Seq(Queries),
           lista_workers_info' \in Seq(Workers), mutex_planificacion' \in BOOLEAN,
           sem_ejecutar_query' \in Nat, a_worker' \in [Workers -> Seq(HaciaWorker)],
           a_master' \in [Workers -> Seq(HaciaMaster)], a_query' \in [Queries -> HaciaQuery]
    PROVE  TypeOK' /\ Sanos'
<1>1. TypeOK'
  BY DEF TypeOK, control, enchufes
<1>2. Sanos'
  BY DEF Sanos, HiloSano, control
<1> QED
  BY <1>1, <1>2

\* What a Worker sends is read.
LEMMA RecibirTipos ==
    ASSUME TypeOK, Sanos, UNCHANGED <<control, enchufes>>, NEW w \in Workers,
           RecibirLectura(w) \/ RecibirFin(w) \/ DescartarFin(w) \/ RecibirDesalojo(w)
    PROVE  TypeOK' /\ Sanos'
<1> DEFINE m == Head(a_master[w])
           q == PrimeraEn(w)
<1>1. TiposMaster /\ w \in Hilos
  BY PartesDelTipo DEF Hilos
<1>2. CASE RecibirLectura(w)
  <2>1. m.query \in Queries /\ [a_master EXCEPT ![w] = Tail(@)] \in [Workers -> Seq(HaciaMaster)]
    BY <1>2, LeeTipo DEF RecibirLectura
  <2>2. ASSUME NEW p \in Queries
        PROVE  [a_query[p] EXCEPT !.lecturas = @ \union {m.query}] \in HaciaQuery
    <3> DEFINE r == a_query[p]
               l == r.lecturas \union {m.query}
    <3>1. r \in HaciaQuery
      BY DEF TypeOK
    <3>2. l \in SUBSET Queries
      BY <2>1, <3>1 DEF HaciaQuery
    <3>3. [a_query[p] EXCEPT !.lecturas = @ \union {m.query}] = [r EXCEPT !.lecturas = l]
      OBVIOUS
    <3> HIDE DEF l, r
    <3> QED
      BY <3>1, <3>2, <3>3 DEF HaciaQuery
  <2>3. a_query' \in [Queries -> HaciaQuery]
    BY <1>2, <2>2 DEF RecibirLectura, TypeOK
  <2> QED
    BY <1>2, <2>1, <2>3, SinMoverTipos DEF RecibirLectura, TypeOK, master
<1>3. CASE DescartarFin(w)
  <2>1. [a_master EXCEPT ![w] = Tail(@)] \in [Workers -> Seq(HaciaMaster)]
    BY <1>3, LeeTipo DEF DescartarFin
  <2> QED
    BY <1>3, <2>1, SinMoverTipos DEF DescartarFin, TypeOK, master
<1>4. CASE RecibirFin(w)
  <2>1. /\ m.query \in Queries /\ m.motivo \in Motivos
        /\ [a_master EXCEPT ![w] = Tail(@)] \in [Workers -> Seq(HaciaMaster)]
    BY <1>4, LeeTipo DEF RecibirFin
  <2>2. q \in Queries
    BY <1>1, <1>4, PrimeraEnHay DEF RecibirFin
  <2>3. a_query' \in [Queries -> HaciaQuery]
    <3>1. a_query' = [a_query EXCEPT ![q].finales = Append(@, <<m.query, m.motivo>>)]
      BY <1>4 DEF RecibirFin
    <3> HIDE DEF m, q
    <3> QED
      BY <2>1, <2>2, <3>1, AvisoTipo
  <2>4. query' \in [Queries -> Query]
    <3>1. query' = [query EXCEPT ![q].estado = "EXIT"]
      BY <1>4 DEF RecibirFin
    <3> HIDE DEF q
    <3> QED
      BY <1>1, <2>2, <3>1 DEF TiposMaster, Query
  <2>5. queries_exec' \in Seq(Queries)
    BY <1>1, <1>4, QuitarTipo DEF RecibirFin, TiposMaster
  <2>6. PICK h \in Hilo : hilo' = [hilo EXCEPT ![w] = h] /\ HiloSano(h)
    <3>1. "planificar" \in Pasos /\ Pasa(w, "planificar")
      BY <1>4 DEF Pasos, RecibirFin, PlanificaAlTerminar
    <3> QED
      BY <1>1, <3>1, PasaTipo
  <2>7. disponible' \subseteq Workers /\ a_master' \in [Workers -> Seq(HaciaMaster)]
    BY <1>1, <1>4, <2>1 DEF RecibirFin, TiposMaster
  <2> QED
    BY <1>1, <1>4, <2>3, <2>4, <2>5, <2>6, <2>7, PasoTipos DEF RecibirFin, TypeOK
<1>5. CASE RecibirDesalojo(w)
  <2>1. /\ m.query \in Queries /\ m.pc \in 0 .. Lineas
        /\ [a_master EXCEPT ![w] = Tail(@)] \in [Workers -> Seq(HaciaMaster)]
    BY <1>5, LeeTipo DEF RecibirDesalojo
  <2>2. /\ disponible' \subseteq Workers /\ a_master' \in [Workers -> Seq(HaciaMaster)]
        /\ sem_ejecutar_query' \in Nat
    BY <1>1, <1>5, <2>1 DEF RecibirDesalojo, TiposMaster
  <2>3. CASE Vuelve(m.query, m.pc)
    <3>1. queries_exec' \in Seq(Queries)
      BY <1>1, <2>3, QuitarTipo DEF Vuelve, TiposMaster
    <3>2. queries_ready' \in Seq(Queries)
      BY <1>1, <2>1, <2>3, AppendProperties DEF Vuelve, TiposMaster
    <3>3. query' \in [Queries -> Query]
      <4>1. /\ "READY" \in {"NUEVA", "READY", "EXEC", "EXIT"} /\ TRUE \in BOOLEAN /\ 0 \in Nat
            /\ SinWorker \in Workers \union {SinWorker}
        OBVIOUS
      <4>2. query' = [query EXCEPT ![m.query].estado = "READY", ![m.query].worker = SinWorker,
                                   ![m.query].pc = m.pc, ![m.query].desalojada = TRUE]
        BY <2>3 DEF Vuelve
      <4> DEFINE x == m.query
                 n == m.pc
      <4> HIDE DEF m
      <4>3. x \in Queries /\ n \in 0 .. Lineas
            /\ query' = [query EXCEPT ![x].estado = "READY", ![x].worker = SinWorker,
                                      ![x].pc = n, ![x].desalojada = TRUE]
        BY <2>1, <4>2
      <4> HIDE DEF x, n
      <4> QED
        BY <1>1, <4>1, <4>3, QueryTipo
    <3> QED
      BY <1>5, <2>2, <3>1, <3>2, <3>3, SinMoverTipos DEF RecibirDesalojo, TypeOK
  <2>4. CASE UNCHANGED <<query, queries_ready, queries_exec>>
    BY <1>5, <2>2, <2>4, SinMoverTipos DEF RecibirDesalojo, TypeOK
  <2> QED
    BY <1>5, <2>3, <2>4 DEF RecibirDesalojo
<1> QED
  BY <1>2, <1>3, <1>4, <1>5

\* A Worker that went down leaves the list, and its query ends.
LEMMA DesconectarTipos ==
    ASSUME TypeOK, Sanos, UNCHANGED <<control, enchufes>>, NEW w \in Workers,
           Desconectar(w) \/ FinalizarQueryDe(w)
    PROVE  TypeOK' /\ Sanos'
<1>1. TiposMaster /\ w \in Hilos /\ "desconectar" \in Pasos /\ "planificar" \in Pasos
  BY PartesDelTipo DEF Hilos, Pasos
<1>2. CASE Desconectar(w)
  <2>1. PICK h \in Hilo : hilo' = [hilo EXCEPT ![w] = h] /\ HiloSano(h)
    BY <1>1, <1>2, PasaTipo DEF Desconectar
  <2>2. lista_workers_info' \in Seq(Workers) /\ disponible' \subseteq Workers
    BY <1>1, <1>2, QuitarTipo DEF Desconectar, TiposMaster
  <2> QED
    BY <1>1, <1>2, <2>1, <2>2, PasoTipos DEF Desconectar, TypeOK, canales
<1>3. CASE FinalizarQueryDe(w)
  <2>1. PICK h \in Hilo : hilo' = [hilo EXCEPT ![w] = h] /\ HiloSano(h)
    BY <1>1, <1>3, PasaTipo DEF FinalizarQueryDe
  <2>2. CASE EnWorker(w) # {} /\ FinalizarPorCaida(PrimeraEn(w))
    <3> DEFINE q == PrimeraEn(w)
    <3>1. q \in Queries /\ "ERROR_DESCONEXION_WORKER" \in Motivos
      BY <1>1, <2>2, PrimeraEnHay DEF Motivos
    <3>2. /\ query' = [query EXCEPT ![q].estado = "EXIT"]
          /\ a_query' = [a_query EXCEPT ![q].finales = Append(@, <<q, "ERROR_DESCONEXION_WORKER">>)]
      BY <2>2 DEF FinalizarPorCaida
    <3>3. queries_exec' \in Seq(Queries)
      BY <1>1, <2>2, QuitarTipo DEF FinalizarPorCaida, TiposMaster
    <3> HIDE DEF q
    <3>4. query' \in [Queries -> Query]
      BY <1>1, <3>1, <3>2 DEF TiposMaster, Query
    <3>5. a_query' \in [Queries -> HaciaQuery]
      BY <3>1, <3>2, AvisoTipo
    <3> QED
      BY <1>1, <1>3, <2>1, <3>3, <3>4, <3>5, PasoTipos DEF FinalizarQueryDe, TypeOK
  <2>3. CASE UNCHANGED <<query, queries_exec, a_query>>
    BY <1>1, <1>3, <2>1, <2>3, PasoTipos DEF FinalizarQueryDe, TypeOK
  <2> QED
    BY <1>3, <2>2, <2>3 DEF FinalizarQueryDe
<1> QED
  BY <1>2, <1>3

\* Every step of the Master.
LEMMA MasterTipos ==
    ASSUME TypeOK, Sanos, NextMaster, UNCHANGED <<control, enchufes>>
    PROVE  TypeOK' /\ Sanos'
<1>1. CASE \/ \E q \in Queries : Envejecer(q) \/ \E p \in Prioridades : ConectarQuery(q, p)
           \/ \E w \in Workers : ConectarWorker(w) \/ IniciarSemaforo(w)
  BY <1>1, ConectarTipos
<1>2. ASSUME NEW t \in Hilos, Planificacion(t) PROVE TypeOK' /\ Sanos'
  BY <1>2, PlanificarTipos, PasarAExecTipo, EnviarTipos, FallarEnvioTipo, ElegirVictimaTipo, DesalojarTipos
     DEF Planificacion
<1>3. ASSUME NEW w \in Workers, RecibirLectura(w) \/ RecibirFin(w) \/ DescartarFin(w) \/ RecibirDesalojo(w)
      PROVE  TypeOK' /\ Sanos'
  BY <1>3, RecibirTipos
<1>4. ASSUME NEW w \in Workers, Desconectar(w) \/ FinalizarQueryDe(w) PROVE TypeOK' /\ Sanos'
  BY <1>4, DesconectarTipos
<1> QED
  BY <1>1, <1>2, <1>3, <1>4 DEF NextMaster, Lectura

\* The packets that a Worker sends together.
LEMMA AvisarTipo ==
    ASSUME TypeOK, NEW w \in Workers, NEW s \in Seq(HaciaMaster), Avisar(w, s)
    PROVE  a_master' \in [Workers -> Seq(HaciaMaster)]
<1>1. a_master[w] \o s \in Seq(HaciaMaster)
  BY ConcatProperties DEF TypeOK
<1> QED
  BY <1>1 DEF Avisar, TypeOK

\* The refusals of n requests, with no eviction among them.
LEMMA RechazosTipo ==
    ASSUME NEW q \in Queries, NEW n \in Nat
    PROVE  /\ Rechazos(q, n) \in Seq(HaciaMaster) /\ Len(Rechazos(q, n)) = n
           /\ \A k \in 1 .. n : Rechazos(q, n)[k].tipo = "QUERY_FINALIZADA"
<1>1. QueryFinalizada(q, "ERROR") \in HaciaMaster /\ QueryFinalizada(q, "ERROR").tipo = "QUERY_FINALIZADA"
  BY DEF QueryFinalizada, HaciaMaster, Motivos
<1>2. /\ Rechazos(q, n) \in [1 .. n -> HaciaMaster]
      /\ \A k \in 1 .. n : Rechazos(q, n)[k] = QueryFinalizada(q, "ERROR")
  BY <1>1 DEF Rechazos
<1>3. Rechazos(q, n) \in Seq(HaciaMaster)
  BY <1>2, SeqDef
<1>4. Len(Rechazos(q, n)) = n
  BY <1>2, <1>3, LenProperties
<1> QED
  BY <1>1, <1>2, <1>3, <1>4

\* A step of a Worker keeps what it does not touch.
LEMMA PasoControlTipos ==
    ASSUME TypeOK, Sanos, UNCHANGED <<master, enchufes, a_query>>,
           ejecuciones' \in [Workers -> SUBSET Ejecucion],
           query_en_ejecucion' \in [Workers -> BOOLEAN], query_desalojada' \in [Workers -> BOOLEAN],
           pc_actual' \in [Workers -> 0 .. Lineas], sem_desalojo' \in [Workers -> Nat],
           escucha' \in [Workers -> Escucha],
           \A w \in Workers : escucha'[w].paso = "espera" => escucha'[w].query \in Queries,
           avance' \in [Queries -> Avance],
           a_worker' \in [Workers -> Seq(HaciaWorker)], a_master' \in [Workers -> Seq(HaciaMaster)]
    PROVE  TypeOK' /\ Sanos'
<1>1. TypeOK'
  BY DEF TypeOK, master, enchufes
<1>2. Sanos'
  BY DEF Sanos, HiloSano, master
<1> QED
  BY <1>1, <1>2

\* The listener.
LEMMA EscucharTipos ==
    ASSUME TypeOK, Sanos, UNCHANGED <<master, enchufes>>, NEW w \in Workers, Escuchar(w)
    PROVE  TypeOK' /\ Sanos'
<1> DEFINE m == Head(a_worker[w])
           q == escucha[w].query
<1>1. ASSUME NEW tipo, Llega(a_worker[w], tipo)
      PROVE  /\ m \in HaciaWorker /\ m.query \in Queries /\ m.pc \in 0 .. Lineas
             /\ [a_worker EXCEPT ![w] = Tail(@)] \in [Workers -> Seq(HaciaWorker)]
  <2>1. a_worker[w] \in Seq(HaciaWorker) /\ a_worker[w] # <<>>
    BY <1>1 DEF TypeOK, Llega
  <2>2. m \in HaciaWorker /\ Tail(a_worker[w]) \in Seq(HaciaWorker)
    BY <2>1, HeadTailProperties
  <2>3. \A x \in HaciaWorker : x.query \in Queries /\ x.pc \in 0 .. Lineas
    BY DEF HaciaWorker
  <2>4. [a_worker EXCEPT ![w] = Tail(@)] \in [Workers -> Seq(HaciaWorker)]
    BY <2>2 DEF TypeOK
  <2> QED
    BY <2>2, <2>3, <2>4
<1>2. CASE LeerEjecutar(w)
  <2>1. /\ m.query \in Queries /\ m.pc \in 0 .. Lineas
        /\ [a_worker EXCEPT ![w] = Tail(@)] \in [Workers -> Seq(HaciaWorker)]
    BY <1>1, <1>2 DEF LeerEjecutar
  <2>2. [query |-> m.query, pc |-> m.pc, paso |-> "espera"] \in Ejecucion
    BY <2>1 DEF Ejecucion
  <2>3. ejecuciones' \in [Workers -> SUBSET Ejecucion]
    BY <1>2, <2>2 DEF LeerEjecutar, TypeOK
  <2> QED
    BY <1>2, <2>1, <2>3, PasoControlTipos DEF LeerEjecutar, TypeOK, Sanos
<1>3. CASE LeerDesalojar(w)
  <2>1. m.query \in Queries /\ [a_worker EXCEPT ![w] = Tail(@)] \in [Workers -> Seq(HaciaWorker)]
    BY <1>1, <1>3 DEF LeerDesalojar
  <2> DEFINE e == [paso |-> "espera", query |-> m.query]
  <2>2. e \in Escucha /\ e.query \in Queries
    BY <2>1 DEF Escucha
  <2>3. escucha' = [escucha EXCEPT ![w] = e]
    BY <1>3 DEF LeerDesalojar
  <2> HIDE DEF e
  <2>4. escucha' \in [Workers -> Escucha]
        /\ \A u \in Workers : escucha'[u].paso = "espera" => escucha'[u].query \in Queries
    BY <2>2, <2>3 DEF TypeOK, Sanos
  <2>5. query_desalojada' \in [Workers -> BOOLEAN]
    BY <1>3 DEF LeerDesalojar, TypeOK
  <2> QED
    BY <1>3, <2>1, <2>4, <2>5, PasoControlTipos DEF LeerDesalojar, TypeOK
<1>4. ASSUME NEW n \in RechazosDesalojo, ResponderDesalojo(w, n) PROVE TypeOK' /\ Sanos'
  <2>1. q \in Queries /\ n \in Nat /\ sem_desalojo[w] \in Nat /\ sem_desalojo[w] > 0
        /\ pc_actual[w] \in 0 .. Lineas
    BY <1>4, ControlAssumption DEF ResponderDesalojo, Sanos, TypeOK
  <2>2. Append(Rechazos(q, n), DesalojoQuery(q, pc_actual[w])) \in Seq(HaciaMaster)
    <3>1. DesalojoQuery(q, pc_actual[w]) \in HaciaMaster
      BY <2>1 DEF DesalojoQuery, HaciaMaster
    <3>2. Rechazos(q, n) \in Seq(HaciaMaster)
      BY <2>1, RechazosTipo
    <3> QED
      BY <3>1, <3>2, AppendProperties
  <2>3. a_master' \in [Workers -> Seq(HaciaMaster)]
    BY <1>4, <2>2, AvisarTipo DEF ResponderDesalojo
  <2>4. avance' \in [Queries -> Avance]
    <3>1. avance[q] \in Avance
      BY <2>1 DEF TypeOK
    <3>2. avance' = [avance EXCEPT ![q].fallo = @ \/ n > 0]
      BY <1>4 DEF ResponderDesalojo
    <3> DEFINE b == avance[q].fallo \/ n > 0
    <3>3. avance' = [avance EXCEPT ![q].fallo = b]
      BY <3>2
    <3>4. b \in BOOLEAN
      BY <3>1 DEF Avance
    <3> HIDE DEF b, q
    <3> QED
      BY <2>1, <3>3, <3>4 DEF TypeOK, Avance
  <2>5. sem_desalojo' \in [Workers -> Nat]
    <3>1. sem_desalojo[w] - 1 \in Nat
      BY <2>1
    <3> QED
      BY <1>4, <3>1 DEF ResponderDesalojo, TypeOK
  <2>6. query_en_ejecucion' \in [Workers -> BOOLEAN]
    BY <1>4 DEF ResponderDesalojo, TypeOK
  <2>7. escucha' \in [Workers -> Escucha]
        /\ \A u \in Workers : escucha'[u].paso = "espera" => escucha'[u].query \in Queries
    BY <1>4 DEF ResponderDesalojo, TypeOK, Sanos, Leyendo, Escucha
  <2> QED
    BY <1>4, <2>3, <2>4, <2>5, <2>6, <2>7, PasoControlTipos DEF ResponderDesalojo, TypeOK
<1> QED
  BY <1>2, <1>3, <1>4 DEF Escuchar

\* What is left of a query thread that ends, or goes on to the next line.
LEMMA SigueTipos ==
    ASSUME TypeOK, NEW w \in Workers, NEW e \in ejecuciones[w],
           \/ Termina(w, e) /\ UNCHANGED pc_actual
           \/ Sigue(w, e) /\ e.pc < Lineas
    PROVE  /\ ejecuciones' \in [Workers -> SUBSET Ejecucion]
           /\ query_en_ejecucion' \in [Workers -> BOOLEAN]
           /\ pc_actual' \in [Workers -> 0 .. Lineas]
<1>1. e \in Ejecucion /\ ejecuciones[w] \subseteq Ejecucion
  BY DEF TypeOK
<1>2. CASE Termina(w, e) /\ UNCHANGED pc_actual
  BY <1>2 DEF Termina, TypeOK
<1>3. CASE Avanza(w, e) /\ e.pc < Lineas
  <2> DEFINE n == e.pc + 1
             r == [e EXCEPT !.pc = n]
  <2>1. n \in 0 .. Lineas
    BY <1>1, <1>3, LineasAssumption DEF Ejecucion
  <2>2. /\ ejecuciones' = [ejecuciones EXCEPT ![w] = (@ \ {e}) \union {r}]
        /\ pc_actual' = [pc_actual EXCEPT ![w] = n]
        /\ UNCHANGED query_en_ejecucion
    BY <1>3 DEF Avanza
  <2> HIDE DEF n
  <2>3. r \in Ejecucion
    BY <1>1, <2>1 DEF Ejecucion
  <2> HIDE DEF r
  <2> QED
    BY <1>1, <2>1, <2>2, <2>3 DEF TypeOK
<1> QED
  BY <1>2, <1>3 DEF Sigue

\* What has been recorded of a query whose thread executes or is refused a line.
LEMMA HechaTipo ==
    ASSUME TypeOK, NEW w \in Workers, NEW e \in ejecuciones[w],
           \/ Hecha(e) /\ e.pc < Lineas
           \/ avance' = [avance EXCEPT ![e.query].fallo = TRUE]
    PROVE  avance' \in [Queries -> Avance]
<1>1. e \in Ejecucion /\ e.query \in Queries /\ e.pc \in 0 .. Lineas
  BY DEF TypeOK, Ejecucion
<1>2. CASE Hecha(e) /\ e.pc < Lineas
  <2>1. e.pc + 1 \in 0 .. Lineas
    BY <1>1, <1>2, LineasAssumption
  <2> QED
    BY <1>1, <1>2, <2>1 DEF Hecha, TypeOK, Avance
<1>3. CASE avance' = [avance EXCEPT ![e.query].fallo = TRUE]
  BY <1>1, <1>3 DEF TypeOK, Avance
<1> QED
  BY <1>2, <1>3

\* A query thread.
LEMMA EjecutarTipos ==
    ASSUME TypeOK, Sanos, UNCHANGED <<master, enchufes>>, NEW w \in Workers, NEW q \in Queries,
           Ejecutar(w, q)
    PROVE  TypeOK' /\ Sanos'
<1>1. PICK e \in ejecuciones[w] :
         \/ Comenzar(w, e) \/ Instruccion(w, e) \/ Ceder(w, e) \/ FinDeArchivo(w, e)
         \/ \E n \in RechazosInstruccion : InstruccionRechazada(w, e, n)
         \/ \E n \in RechazosEnd : End(w, e, n)
  BY DEF Ejecutar
<1>2. e \in Ejecucion /\ e.query \in Queries /\ e.pc \in 0 .. Lineas /\ Lineas \in Nat
  BY LineasAssumption DEF TypeOK, Ejecucion
<1>3. \A l \in Lecturas(e) \union LecturasTardias(e) : l \in Seq(HaciaMaster)
  <2>1. LecturaRealizada(e.query) \in HaciaMaster
    BY <1>2 DEF LecturaRealizada, HaciaMaster
  <2>2. <<>> \in Seq(HaciaMaster) /\ <<LecturaRealizada(e.query)>> \in Seq(HaciaMaster)
    BY <2>1
  <2> QED
    BY <2>2 DEF Lecturas, LecturasTardias
<1>4. CASE Comenzar(w, e)
  <2>1. [e EXCEPT !.paso = "ejecuta"] \in Ejecucion
    BY <1>2 DEF Ejecucion
  <2>2. ejecuciones' \in [Workers -> SUBSET Ejecucion]
    BY <1>4, <2>1 DEF Comenzar, TypeOK
  <2>3. /\ query_en_ejecucion' \in [Workers -> BOOLEAN] /\ query_desalojada' \in [Workers -> BOOLEAN]
        /\ pc_actual' \in [Workers -> 0 .. Lineas]
    BY <1>2, <1>4 DEF Comenzar, TypeOK
  <2> QED
    BY <1>4, <2>2, <2>3, PasoControlTipos DEF Comenzar, TypeOK, Sanos, canales
<1>5. CASE Instruccion(w, e)
  <2>1. /\ ejecuciones' \in [Workers -> SUBSET Ejecucion] /\ query_en_ejecucion' \in [Workers -> BOOLEAN]
        /\ pc_actual' \in [Workers -> 0 .. Lineas]
    BY <1>5, SigueTipos DEF Instruccion, EnLinea
  <2>2. avance' \in [Queries -> Avance]
    BY <1>5, HechaTipo DEF Instruccion, EnLinea
  <2>3. a_master' \in [Workers -> Seq(HaciaMaster)]
    BY <1>3, <1>5, AvisarTipo DEF Instruccion
  <2> QED
    BY <1>5, <2>1, <2>2, <2>3, PasoControlTipos DEF Instruccion, TypeOK, Sanos
<1>6. ASSUME NEW n \in RechazosInstruccion, InstruccionRechazada(w, e, n) PROVE TypeOK' /\ Sanos'
  <2>1. /\ ejecuciones' \in [Workers -> SUBSET Ejecucion] /\ query_en_ejecucion' \in [Workers -> BOOLEAN]
        /\ pc_actual' \in [Workers -> 0 .. Lineas]
    BY <1>6, SigueTipos DEF InstruccionRechazada
  <2>2. avance' \in [Queries -> Avance]
    BY <1>6, HechaTipo DEF InstruccionRechazada
  <2>3. a_master' \in [Workers -> Seq(HaciaMaster)]
    <3>1. PICK l \in Lecturas(e), t \in LecturasTardias(e) : Avisar(w, l \o Rechazos(e.query, n) \o t)
      BY <1>6 DEF InstruccionRechazada
    <3>2. Rechazos(e.query, n) \in Seq(HaciaMaster)
      BY <1>2, RechazosTipo, ControlAssumption
    <3>3. l \o Rechazos(e.query, n) \in Seq(HaciaMaster)
      BY <1>3, <3>2, ConcatProperties
    <3>4. l \o Rechazos(e.query, n) \o t \in Seq(HaciaMaster)
      BY <1>3, <3>3, ConcatProperties
    <3> QED
      BY <3>1, <3>4, AvisarTipo
  <2> QED
    BY <1>6, <2>1, <2>2, <2>3, PasoControlTipos DEF InstruccionRechazada, TypeOK, Sanos
<1>7. ASSUME NEW n \in RechazosEnd, End(w, e, n) PROVE TypeOK' /\ Sanos'
  <2>1. /\ ejecuciones' \in [Workers -> SUBSET Ejecucion] /\ query_en_ejecucion' \in [Workers -> BOOLEAN]
        /\ pc_actual' \in [Workers -> 0 .. Lineas]
    BY <1>7, SigueTipos DEF End, EnLinea
  <2>2. avance' \in [Queries -> Avance]
    BY <1>7, HechaTipo DEF End, EnLinea
  <2>3. a_master' \in [Workers -> Seq(HaciaMaster)]
    <3>1. Rechazos(e.query, n) \in Seq(HaciaMaster)
      BY <1>2, RechazosTipo, ControlAssumption
    <3>2. QueryFinalizada(e.query, "COMPLETADA") \in HaciaMaster
      BY <1>2 DEF QueryFinalizada, HaciaMaster, Motivos
    <3>3. Append(Rechazos(e.query, n), QueryFinalizada(e.query, "COMPLETADA")) \in Seq(HaciaMaster)
      BY <3>1, <3>2, AppendProperties
    <3> QED
      BY <1>7, <3>3, AvisarTipo DEF End
  <2> QED
    BY <1>7, <2>1, <2>2, <2>3, PasoControlTipos DEF End, TypeOK, Sanos
<1>8. CASE Ceder(w, e) \/ FinDeArchivo(w, e)
  <2>1. /\ ejecuciones' \in [Workers -> SUBSET Ejecucion] /\ query_en_ejecucion' \in [Workers -> BOOLEAN]
        /\ pc_actual' \in [Workers -> 0 .. Lineas]
    BY <1>8, SigueTipos DEF Ceder, FinDeArchivo
  <2>2. sem_desalojo' \in [Workers -> Nat]
    BY <1>8 DEF Ceder, FinDeArchivo, TypeOK
  <2> QED
    BY <1>8, <2>1, <2>2, PasoControlTipos DEF Ceder, FinDeArchivo, TypeOK, Sanos, canales
<1> QED
  BY <1>1, <1>4, <1>5, <1>6, <1>7, <1>8

\* What reaches the Master of a Worker that goes down is a part of what it sent.
LEMMA EntregadoTipo ==
    ASSUME TypeOK, NEW w \in Workers, NEW s \in Entregado(w)
    PROVE  /\ s \in Seq(HaciaMaster) /\ Len(s) <= Len(a_master[w])
           /\ \A k \in 1 .. Len(s) : s[k] = a_master[w][k]
<1> DEFINE c == a_master[w]
<1>1. c \in Seq(HaciaMaster) /\ Len(c) \in Nat /\ \A k \in 1 .. Len(c) : c[k] \in HaciaMaster
  BY LenProperties, ElementOfSeq DEF TypeOK
<1>2. PICK n \in 0 .. Len(c) : s = SubSeq(c, 1, n)
  BY <1>1 DEF Entregado
<1>3. \A k \in 1 .. n : c[k] \in HaciaMaster /\ 1 + k - 1 = k
  BY <1>1
<1> HIDE DEF c
<1>4. /\ SubSeq(c, 1, n) \in Seq(HaciaMaster)
      /\ Len(SubSeq(c, 1, n)) = IF 1 <= n THEN n - 1 + 1 ELSE 0
      /\ \A k \in 1 .. n - 1 + 1 : SubSeq(c, 1, n)[k] = c[1 + k - 1]
  BY <1>3, SubSeqProperties
<1>5. s \in Seq(HaciaMaster) /\ Len(s) = n /\ \A k \in 1 .. Len(s) : s[k] = c[k]
  BY <1>2, <1>3, <1>4
<1> QED
  BY <1>1, <1>2, <1>5 DEF c

\* A Worker goes down, and is started again.
LEMMA CaerTipos ==
    ASSUME TypeOK, Sanos, NEW w \in Workers, CaerConectado(w) \/ Rearrancar(w)
    PROVE  TypeOK' /\ Sanos'
<1>1. CASE Rearrancar(w)
  <2>1. TypeOK'
    BY <1>1 DEF Rearrancar, TypeOK, master, control, canales
  <2>2. Sanos'
    BY <1>1 DEF Rearrancar, Sanos, HiloSano, master, control
  <2> QED
    BY <2>1, <2>2
<1>2. CASE CaerConectado(w)
  <2>1. PICK s \in Entregado(w) : a_master' = [a_master EXCEPT ![w] = s]
    BY <1>2 DEF CaerConectado, Caer
  <2>2. a_master' \in [Workers -> Seq(HaciaMaster)]
    BY <2>1, EntregadoTipo DEF TypeOK
  <2>3. a_worker' \in [Workers -> Seq(HaciaWorker)]
    <3>1. <<>> \in Seq(HaciaWorker)
      OBVIOUS
    <3> QED
      BY <1>2, <3>1 DEF CaerConectado, Caer, TypeOK
  <2>4. caido' \subseteq Workers /\ caidas' \in 0 .. MaxCaidas
    BY <1>2, LineasAssumption DEF CaerConectado, Caer, TypeOK
  <2>5. /\ ejecuciones' \in [Workers -> SUBSET Ejecucion]
        /\ query_en_ejecucion' \in [Workers -> BOOLEAN] /\ query_desalojada' \in [Workers -> BOOLEAN]
    BY <1>2 DEF CaerConectado, Caer, TypeOK
  <2>6. pc_actual' \in [Workers -> 0 .. Lineas] /\ sem_desalojo' \in [Workers -> Nat]
    BY <1>2, LineasAssumption DEF CaerConectado, Caer, TypeOK
  <2>7. Leyendo \in Escucha /\ Leyendo.paso # "espera"
    BY DEF Leyendo, Escucha
  <2>8. escucha' = [escucha EXCEPT ![w] = Leyendo]
    BY <1>2 DEF CaerConectado, Caer
  <2>9. escucha' \in [Workers -> Escucha]
        /\ \A u \in Workers : escucha'[u].paso = "espera" => escucha'[u].query \in Queries
    BY <2>7, <2>8 DEF TypeOK, Sanos
  <2>10. UNCHANGED <<master, avance, a_query>>
    BY <1>2 DEF CaerConectado, Caer
  <2>11. TypeOK'
    BY <2>2, <2>3, <2>4, <2>5, <2>6, <2>9, <2>10 DEF TypeOK, master
  <2>12. Sanos'
    BY <2>9, <2>10 DEF Sanos, HiloSano, master
  <2> QED
    BY <2>11, <2>12
<1> QED
  BY <1>1, <1>2

LEMMA InitTipos == Init => TypeOK /\ Sanos
<1> SUFFICES ASSUME Init PROVE TypeOK /\ Sanos
  OBVIOUS
<1>1. Lineas \in Nat /\ MaxCaidas \in Nat
  BY LineasAssumption
<1>2. TiposMaster
  <2>1. Afuera \in Hilo /\ Nueva \in Query
    BY <1>1, EmptySeq DEF Afuera, Hilo, Pasos, Nueva, Query
  <2> QED
    BY <2>1, EmptySeq DEF Init, InitMaster, TiposMaster
<1>3. TiposControl
  BY <1>1 DEF Init, InitControl, TiposControl, Leyendo, Escucha, Avance
<1>4. TiposCanales
  <2>1. [lecturas |-> {}, finales |-> <<>>] \in HaciaQuery
    BY EmptySeq DEF HaciaQuery
  <2> QED
    BY <1>1, <2>1, EmptySeq DEF Init, InitCanales, TiposCanales
<1>5. HiloSano(Afuera)
  BY DEF HiloSano, Afuera
<1>6. Sanos
  BY <1>5 DEF Init, InitMaster, InitControl, Sanos, Leyendo
<1> QED
  BY <1>2, <1>3, <1>4, <1>6, PartesDelTipo

LEMMA PasoTipoSano == TypeOK /\ Sanos /\ [Next]_vars => TypeOK' /\ Sanos'
<1> SUFFICES ASSUME TypeOK, Sanos, [Next]_vars PROVE TypeOK' /\ Sanos'
  OBVIOUS
<1>1. CASE NextMaster /\ UNCHANGED <<control, enchufes>>
  BY <1>1, MasterTipos
<1>2. CASE NextControl /\ UNCHANGED <<master, enchufes>>
  BY <1>2, EscucharTipos, EjecutarTipos DEF NextControl
<1>3. ASSUME NEW w \in Workers, CaerConectado(w) \/ Rearrancar(w) PROVE TypeOK' /\ Sanos'
  BY <1>3, CaerTipos
<1>4. CASE UNCHANGED vars
  <2>1. TypeOK'
    BY <1>4 DEF vars, master, control, canales, enchufes, TypeOK
  <2>2. Sanos'
    BY <1>4 DEF vars, master, control, Sanos, HiloSano
  <2> QED
    BY <2>1, <2>2
<1> QED
  BY <1>1, <1>2, <1>3, <1>4 DEF Next

\* Every variable of the Master, the Workers and their sockets keeps its type,
\* and every thread of the Master what its next step relies on.
THEOREM TiposSistema == Spec => [](TypeOK /\ Sanos)
<1>1. Init => TypeOK /\ Sanos
  BY InitTipos
<1>2. TypeOK /\ Sanos /\ [Next]_vars => TypeOK' /\ Sanos'
  BY PasoTipoSano
<1> QED
  BY <1>1, <1>2, PTL DEF Spec

-----------------------------------------------------------------------------
(* Where every query is                                                    *)

\* A query is new until its thread starts.
Presentadas == \A q \in Queries : query[q].estado = "NUEVA" <=> En(q, "fuera")

EnLasListas ==
    /\ IsInjective(queries_ready) /\ IsInjective(queries_exec)
    /\ \A q \in ToSet(queries_ready) : query[q].estado = "READY" /\ q \notin ToSet(queries_exec)
    /\ \A q \in ToSet(queries_exec) : query[q].estado = "EXEC"

\* The query that a planner carries is in neither list, and no other has it.
Llevadas ==
    \A t \in Hilos : LET q == Lleva(hilo[t]) IN q # SinQuery =>
        /\ q \notin ToSet(queries_ready) /\ q \notin ToSet(queries_exec)
        /\ query[q].estado = IF hilo[t].paso = "asignar" THEN "READY" ELSE "EXEC"
        /\ \A u \in Hilos : Lleva(hilo[u]) = q => u = t

NingunaPerdida ==
    \A q \in Queries : query[q].estado \in {"READY", "EXEC"} =>
        \/ q \in ToSet(queries_ready) \/ q \in ToSet(queries_exec)
        \/ \E t \in Hilos : Lleva(hilo[t]) = q

Ubicadas == Presentadas /\ EnLasListas /\ Llevadas /\ NingunaPerdida

\* EnUnLugar counts the places that Ubicadas describes.
LEMMA UnSoloLugar == TypeOK /\ Sanos /\ Ubicadas => EnUnLugar
<1> SUFFICES ASSUME TypeOK, Sanos, Ubicadas, NEW q \in Queries
             PROVE  IF query[q].estado \in {"NUEVA", "EXIT"} THEN Lugares(q) = {}
                    ELSE \E lugar \in Lugares(q) : Lugares(q) = {lugar}
  BY DEF EnUnLugar
<1> DEFINE R == {k \in DOMAIN queries_ready : queries_ready[k] = q}
           X == {k \in DOMAIN queries_exec : queries_exec[k] = q}
           P == {t \in Hilos : Lleva(hilo[t]) = q}
<1>1. q # SinQuery /\ query[q].estado \in {"NUEVA", "READY", "EXEC", "EXIT"}
  BY MasterAssumption DEF TypeOK, Query
<1>2. /\ q \in ToSet(queries_ready) <=> R # {}
      /\ q \in ToSet(queries_exec) <=> X # {}
      /\ (\E t \in Hilos : Lleva(hilo[t]) = q) <=> P # {}
  BY DEF ToSet
<1>3. /\ R # {} => \E k \in R : R = {k}
      /\ X # {} => \E k \in X : X = {k}
      /\ P # {} => \E k \in P : P = {k}
  <2>1. \A j, k \in R : j = k
    BY DEF Ubicadas, EnLasListas, IsInjective
  <2>2. \A j, k \in X : j = k
    BY DEF Ubicadas, EnLasListas, IsInjective
  <2>3. \A j, k \in P : j = k
    BY <1>1 DEF Ubicadas, Llevadas
  <2> HIDE DEF R, X, P
  <2> QED
    BY <2>1, <2>2, <2>3
<1>4. Lugares(q) = ({"READY"} \X R) \union ({"EXEC"} \X X) \union ({"planificador"} \X P)
  BY DEF Lugares
<1>5. /\ R # {} => query[q].estado = "READY" /\ X = {} /\ P = {}
      /\ X # {} => query[q].estado = "EXEC" /\ R = {} /\ P = {}
      /\ P # {} => query[q].estado \in {"READY", "EXEC"} /\ R = {} /\ X = {}
      /\ query[q].estado \in {"READY", "EXEC"} => R # {} \/ X # {} \/ P # {}
  <2>1. R # {} => query[q].estado = "READY" /\ X = {} /\ P = {}
    BY <1>1, <1>2 DEF Ubicadas, EnLasListas, Llevadas
  <2>2. X # {} => query[q].estado = "EXEC" /\ R = {} /\ P = {}
    BY <1>1, <1>2 DEF Ubicadas, EnLasListas, Llevadas
  <2>3. P # {} => query[q].estado \in {"READY", "EXEC"} /\ R = {} /\ X = {}
    BY <1>1, <1>2 DEF Ubicadas, Llevadas
  <2>4. query[q].estado \in {"READY", "EXEC"} => R # {} \/ X # {} \/ P # {}
    BY <1>2 DEF Ubicadas, NingunaPerdida
  <2> QED
    BY <2>1, <2>2, <2>3, <2>4
<1> HIDE DEF R, X, P
<1>6. CASE R # {}
  <2>1. PICK k \in R : R = {k}
    BY <1>3, <1>6
  <2>2. Lugares(q) = {<<"READY", k>>}
    BY <1>4, <1>5, <1>6, <2>1
  <2> QED
    BY <1>5, <1>6, <2>2
<1>7. CASE X # {}
  <2>1. PICK k \in X : X = {k}
    BY <1>3, <1>7
  <2>2. Lugares(q) = {<<"EXEC", k>>}
    BY <1>4, <1>5, <1>7, <2>1
  <2> QED
    BY <1>5, <1>7, <2>2
<1>8. CASE P # {}
  <2>1. PICK k \in P : P = {k}
    BY <1>3, <1>8
  <2>2. Lugares(q) = {<<"planificador", k>>}
    BY <1>4, <1>5, <1>8, <2>1
  <2> QED
    BY <1>5, <1>8, <2>2
<1>9. CASE R = {} /\ X = {} /\ P = {}
  <2>1. Lugares(q) = {}
    BY <1>4, <1>9
  <2> QED
    BY <1>1, <1>5, <1>9, <2>1
<1> QED
  BY <1>6, <1>7, <1>8, <1>9

\* A step that moves a thread and no query.
LEMMA NadaSeMueve ==
    ASSUME TypeOK, Sanos, Ubicadas, NEW t \in Hilos, NEW h,
           hilo' = [hilo EXCEPT ![t] = h], Lleva(h) = Lleva(hilo[t]),
           Lleva(h) # SinQuery => (h.paso = "asignar" <=> hilo[t].paso = "asignar"),
           t \in Queries => h.paso # "fuera" /\ hilo[t].paso # "fuera",
           UNCHANGED <<queries_ready, queries_exec>>,
           \A q \in Queries : query'[q].estado = query[q].estado
    PROVE  Ubicadas'
<1>1. \A u \in Hilos : hilo'[u] = IF u = t THEN h ELSE hilo[u]
  BY DEF TypeOK
<1>2. \A u \in Hilos : Lleva(hilo'[u]) = Lleva(hilo[u])
  BY <1>1
<1>3. \A u \in Hilos : Lleva(hilo[u]) \in Queries \union {SinQuery}
  BY DEF Sanos, HiloSano, Lleva
<1>4. ToSet(queries_ready) \subseteq Queries /\ ToSet(queries_exec) \subseteq Queries
  BY ElementosLista DEF TypeOK
<1>5. Presentadas'
  BY <1>1 DEF Ubicadas, Presentadas, En, Hilos
<1>6. EnLasListas'
  BY <1>4 DEF Ubicadas, EnLasListas
<1>7. ASSUME NEW u \in Hilos, Lleva(hilo'[u]) # SinQuery
      PROVE  LET q == Lleva(hilo'[u]) IN
             /\ q \notin ToSet(queries_ready) /\ q \notin ToSet(queries_exec)
             /\ query'[q].estado = IF hilo'[u].paso = "asignar" THEN "READY" ELSE "EXEC"
             /\ \A v \in Hilos : Lleva(hilo'[v]) = q => v = u
  <2>1. hilo'[u].paso = "asignar" <=> hilo[u].paso = "asignar"
    BY <1>1, <1>2, <1>7
  <2>2. Lleva(hilo[u]) # SinQuery /\ Lleva(hilo[u]) \in Queries
    BY <1>2, <1>3, <1>7
  <2> QED
    BY <1>2, <2>1, <2>2 DEF Ubicadas, Llevadas
<1>8. Llevadas'
  BY <1>7 DEF Llevadas, Lleva
<1>9. NingunaPerdida'
  <2>1. \A q \in Queries : query'[q].estado \in {"READY", "EXEC"} =>
           \/ q \in ToSet(queries_ready) \/ q \in ToSet(queries_exec)
           \/ \E u \in Hilos : Lleva(hilo'[u]) = q
    BY <1>2 DEF Ubicadas, NingunaPerdida
  <2> QED
    BY <2>1 DEF NingunaPerdida, Lleva
<1> QED
  BY <1>5, <1>6, <1>8, <1>9 DEF Ubicadas

\* A step that moves one query and one thread.
LEMMA UnaSeMueve ==
    ASSUME TypeOK, Sanos, Ubicadas, NEW t \in Hilos, NEW h, NEW q \in Queries,
           hilo' = [hilo EXCEPT ![t] = h],
           queries_ready' \in Seq(Queries), queries_exec' \in Seq(Queries),
           IsInjective(queries_ready'), IsInjective(queries_exec'),
           \A p \in Queries : p # q => /\ p \in ToSet(queries_ready') <=> p \in ToSet(queries_ready)
                                       /\ p \in ToSet(queries_exec') <=> p \in ToSet(queries_exec)
                                       /\ query'[p].estado = query[p].estado,
           Lleva(h) \in {q, SinQuery}, Lleva(hilo[t]) \in {q, SinQuery},
           \A u \in Hilos : u # t => Lleva(hilo[u]) # q,
           \/ /\ q \in ToSet(queries_ready') /\ q \notin ToSet(queries_exec')
              /\ Lleva(h) # q /\ query'[q].estado = "READY"
           \/ /\ q \notin ToSet(queries_ready') /\ q \in ToSet(queries_exec')
              /\ Lleva(h) # q /\ query'[q].estado = "EXEC"
           \/ /\ q \notin ToSet(queries_ready') /\ q \notin ToSet(queries_exec')
              /\ Lleva(h) = q /\ query'[q].estado = IF h.paso = "asignar" THEN "READY" ELSE "EXEC"
           \/ /\ q \notin ToSet(queries_ready') /\ q \notin ToSet(queries_exec')
              /\ Lleva(h) # q /\ query'[q].estado = "EXIT",
           q = t \/ query[q].estado # "NUEVA",
           t \in Queries => h.paso # "fuera" /\ (hilo[t].paso # "fuera" \/ t = q)
    PROVE  Ubicadas'
<1>1. \A u \in Hilos : hilo'[u] = IF u = t THEN h ELSE hilo[u]
  BY DEF TypeOK
<1>2. \A u \in Hilos : Lleva(hilo'[u]) = IF u = t THEN Lleva(h) ELSE Lleva(hilo[u])
  BY <1>1
<1>3. \A u \in Hilos : Lleva(hilo[u]) \in Queries \union {SinQuery}
  BY DEF Sanos, HiloSano, Lleva
<1>4. ToSet(queries_ready') \subseteq Queries /\ ToSet(queries_exec') \subseteq Queries
      /\ SinQuery \notin Queries
  BY ElementosLista, MasterAssumption
<1>5. Presentadas'
  <2>1. \A p \in Queries : p \in Hilos
    BY DEF Hilos
  <2>2. query'[q].estado # "NUEVA"
    OBVIOUS
  <2>3. ASSUME NEW p \in Queries PROVE query'[p].estado = "NUEVA" <=> hilo'[p].paso = "fuera"
    <3>1. CASE p = q
      BY <1>1, <2>1, <2>2, <3>1 DEF Ubicadas, Presentadas, En
    <3>2. CASE p # q
      BY <1>1, <2>1, <3>2 DEF Ubicadas, Presentadas, En
    <3> QED
      BY <3>1, <3>2
  <2> QED
    BY <2>3 DEF Presentadas, En
<1>6. EnLasListas'
  <2>1. \A p \in ToSet(queries_ready') : query'[p].estado = "READY" /\ p \notin ToSet(queries_exec')
    BY <1>4 DEF Ubicadas, EnLasListas
  <2>2. \A p \in ToSet(queries_exec') : query'[p].estado = "EXEC"
    BY <1>4 DEF Ubicadas, EnLasListas
  <2> QED
    BY <2>1, <2>2 DEF EnLasListas
<1>7. ASSUME NEW u \in Hilos, Lleva(hilo'[u]) # SinQuery
      PROVE  LET p == Lleva(hilo'[u]) IN
             /\ p \notin ToSet(queries_ready') /\ p \notin ToSet(queries_exec')
             /\ query'[p].estado = IF hilo'[u].paso = "asignar" THEN "READY" ELSE "EXEC"
             /\ \A v \in Hilos : Lleva(hilo'[v]) = p => v = u
  <2>1. CASE u = t
    BY <1>1, <1>2, <1>4, <1>7, <2>1
  <2>2. CASE u # t
    <3>1. Lleva(hilo'[u]) = Lleva(hilo[u]) /\ Lleva(hilo[u]) \in Queries /\ Lleva(hilo[u]) # q
          /\ hilo'[u] = hilo[u]
      BY <1>1, <1>2, <1>3, <1>7, <2>2
    <3>2. LET p == Lleva(hilo[u]) IN
          /\ p \notin ToSet(queries_ready) /\ p \notin ToSet(queries_exec)
          /\ query[p].estado = IF hilo[u].paso = "asignar" THEN "READY" ELSE "EXEC"
          /\ \A v \in Hilos : Lleva(hilo[v]) = p => v = u
      BY <1>4, <3>1 DEF Ubicadas, Llevadas
    <3>3. \A v \in Hilos : Lleva(hilo'[v]) = Lleva(hilo[u]) => v = u
      BY <1>2, <1>4, <3>1, <3>2
    <3> QED
      BY <3>1, <3>2, <3>3
  <2> QED
    BY <2>1, <2>2
<1>8. Llevadas'
  BY <1>7 DEF Llevadas, Lleva
<1>9. NingunaPerdida'
  <2>1. ASSUME NEW p \in Queries, query'[p].estado \in {"READY", "EXEC"}
        PROVE  \/ p \in ToSet(queries_ready') \/ p \in ToSet(queries_exec')
               \/ \E u \in Hilos : Lleva(hilo'[u]) = p
    <3>1. CASE p = q
      BY <1>2, <2>1, <3>1
    <3>2. CASE p # q
      <4>1. \/ p \in ToSet(queries_ready) \/ p \in ToSet(queries_exec)
            \/ \E u \in Hilos : Lleva(hilo[u]) = p
        BY <2>1, <3>2 DEF Ubicadas, NingunaPerdida
      <4>2. \A u \in Hilos : Lleva(hilo[u]) = p => Lleva(hilo'[u]) = p
        BY <1>2, <1>4, <3>2
      <4> QED
        BY <3>2, <4>1, <4>2
    <3> QED
      BY <3>1, <3>2
  <2> QED
    BY <2>1 DEF NingunaPerdida, Lleva
<1> QED
  BY <1>5, <1>6, <1>8, <1>9 DEF Ubicadas

\* A query of READY, or of EXEC, is nowhere else.
LEMMA SoloEnReady ==
    ASSUME TypeOK, Ubicadas, NEW q \in ToSet(queries_ready)
    PROVE  /\ q \in Queries /\ query[q].estado = "READY" /\ q \notin ToSet(queries_exec)
           /\ \A u \in Hilos : Lleva(hilo[u]) # q
<1>1. q \in Queries /\ q # SinQuery
  BY ElementosLista, MasterAssumption DEF TypeOK
<1> QED
  BY <1>1 DEF Ubicadas, EnLasListas, Llevadas

LEMMA SoloEnExec ==
    ASSUME TypeOK, Ubicadas, NEW q \in ToSet(queries_exec)
    PROVE  /\ q \in Queries /\ query[q].estado = "EXEC" /\ q \notin ToSet(queries_ready)
           /\ \A u \in Hilos : Lleva(hilo[u]) # q
<1>1. q \in Queries /\ q # SinQuery
  BY ElementosLista, MasterAssumption DEF TypeOK
<1> QED
  BY <1>1 DEF Ubicadas, EnLasListas, Llevadas

LEMMA ConectarUbica ==
    ASSUME TypeOK, Sanos, Ubicadas,
           \/ \E q \in Queries : Envejecer(q) \/ \E p \in Prioridades : ConectarQuery(q, p)
           \/ \E w \in Workers : ConectarWorker(w) \/ IniciarSemaforo(w)
    PROVE  Ubicadas'
<1>1. TiposMaster /\ {"planificar", "semaforo"} \subseteq Pasos
  BY PartesDelTipo DEF Pasos
<1>2. ASSUME NEW q \in Queries, Envejecer(q) PROVE Ubicadas'
  <2>1. q \in Hilos /\ hilo[q].paso = "libre"
    BY <1>2 DEF Hilos, Envejecer, En
  <2>2. PICK h \in Hilo : hilo' = [hilo EXCEPT ![q] = h] /\ Lleva(h) = SinQuery /\ h.paso = "planificar"
    BY <1>1, <1>2, <2>1, PasaTipo DEF Envejecer
  <2>3. \A p \in Queries : query'[p].estado = query[p].estado
    BY <1>2 DEF Envejecer, TypeOK, Query
  <2>4. Lleva(hilo[q]) = SinQuery
    BY <2>1 DEF Lleva
  <2> QED
    BY <1>2, <2>1, <2>2, <2>3, <2>4, NadaSeMueve DEF Envejecer
<1>3. ASSUME NEW q \in Queries, NEW p \in Prioridades, ConectarQuery(q, p) PROVE Ubicadas'
  <2>1. q \in Hilos /\ query[q].estado = "NUEVA" /\ hilo[q].paso = "fuera"
    BY <1>3 DEF Hilos, ConectarQuery, Ubicadas, Presentadas, En
  <2>2. PICK h \in Hilo : hilo' = [hilo EXCEPT ![q] = h] /\ Lleva(h) = SinQuery /\ h.paso = "planificar"
    BY <1>1, <1>3, <2>1, PasaTipo DEF ConectarQuery
  <2>3. Lleva(hilo[q]) = SinQuery /\ q # SinQuery
    BY <2>1, MasterAssumption DEF Lleva
  <2>4. /\ q \notin ToSet(queries_ready) /\ q \notin ToSet(queries_exec)
        /\ \A u \in Hilos : Lleva(hilo[u]) # q
    BY <2>1, <2>3 DEF Ubicadas, EnLasListas, Llevadas
  <2>5. /\ queries_ready' \in Seq(Queries) /\ IsInjective(queries_ready')
        /\ ToSet(queries_ready') = ToSet(queries_ready) \union {q}
    BY <1>3, <2>4, AgregarLista DEF ConectarQuery, TypeOK, Ubicadas, EnLasListas
  <2>6. /\ queries_exec' = queries_exec /\ queries_exec \in Seq(Queries) /\ IsInjective(queries_exec)
    BY <1>3 DEF ConectarQuery, TypeOK, Ubicadas, EnLasListas
  <2>7. query'[q].estado = "READY" /\ \A x \in Queries : x # q => query'[x].estado = query[x].estado
    BY <1>3 DEF ConectarQuery, TypeOK, Query
  <2> QED
    BY <2>1, <2>2, <2>3, <2>4, <2>5, <2>6, <2>7, UnaSeMueve
<1>4. ASSUME NEW w \in Workers, ConectarWorker(w) \/ IniciarSemaforo(w) PROVE Ubicadas'
  <2>1. w \in Hilos /\ hilo[w].paso \in {"fuera", "semaforo"} /\ w \notin Queries
    BY <1>4, MasterAssumption DEF Hilos, ConectarWorker, IniciarSemaforo, En
  <2>2. PICK p \in {"semaforo", "planificar"} : Pasa(w, p)
    BY <1>4 DEF ConectarWorker, IniciarSemaforo
  <2>3. PICK h \in Hilo : hilo' = [hilo EXCEPT ![w] = h] /\ Lleva(h) = SinQuery
    BY <1>1, <2>1, <2>2, PasaTipo
  <2>4. Lleva(hilo[w]) = SinQuery
    BY <2>1 DEF Lleva
  <2>5. UNCHANGED <<query, queries_ready, queries_exec>>
    BY <1>4 DEF ConectarWorker, IniciarSemaforo
  <2> QED
    BY <2>1, <2>3, <2>4, <2>5, NadaSeMueve
<1> QED
  BY <1>2, <1>3, <1>4

\* The planner takes a query from READY for a free Worker.
LEMMA TomaUbica ==
    ASSUME TypeOK, Sanos, Ubicadas, NEW t \in Hilos, NEW q \in ToSet(queries_ready), NEW w \in Workers,
           Toma(t, q, w), hilo[t].paso \in {"planificar", "iterar"}, UNCHANGED <<query, queries_exec>>
    PROVE  Ubicadas'
<1>1. TiposMaster /\ hilo[t] \in Hilo
  BY PartesDelTipo DEF TiposMaster
<1>2. q \in Queries /\ query[q].estado = "READY" /\ q \notin ToSet(queries_exec)
      /\ \A u \in Hilos : Lleva(hilo[u]) # q
  BY SoloEnReady
<1> DEFINE h == [hilo[t] EXCEPT !.paso = "asignar", !.query = q, !.worker = w]
<1>3. h.paso = "asignar" /\ h.query = q
  BY <1>1 DEF Hilo
<1>4. hilo' = [hilo EXCEPT ![t] = h]
  BY <1>1 DEF Toma, TiposMaster
<1> HIDE DEF h
<1>5. Lleva(h) = q /\ Lleva(hilo[t]) = SinQuery
  BY <1>3 DEF Lleva
<1>6. /\ queries_ready' \in Seq(Queries) /\ IsInjective(queries_ready')
      /\ ToSet(queries_ready') = ToSet(queries_ready) \ {q}
  BY QuitarLista DEF Toma, TypeOK, Ubicadas, EnLasListas
<1>7. queries_exec' = queries_exec /\ queries_exec \in Seq(Queries) /\ IsInjective(queries_exec)
  BY DEF TypeOK, Ubicadas, EnLasListas
<1> QED
  BY <1>2, <1>3, <1>4, <1>5, <1>6, <1>7, UnaSeMueve

LEMMA PlanificarUbica ==
    ASSUME TypeOK, Sanos, Ubicadas, NEW t \in Hilos,
           PlanificarFifo(t) \/ PlanificarPrioridades(t) \/ FinPlanificar(t) \/ Asignar(t)
    PROVE  Ubicadas'
<1>1. TiposMaster /\ hilo[t] \in Hilo /\ Queries \intersect Workers = {}
  BY PartesDelTipo, MasterAssumption DEF TiposMaster
<1>2. hilo[t].paso \in {"planificar", "iterar"} /\ UNCHANGED <<query, queries_exec>>
  BY DEF PlanificarFifo, PlanificarPrioridades, FinPlanificar, Asignar, Ronda, En
<1>3. Lleva(hilo[t]) = SinQuery
  BY <1>2 DEF Lleva
<1>4. CASE hilo' = Regreso(t) /\ UNCHANGED queries_ready
  <2>1. PICK h \in Hilo : /\ Regreso(t) = [hilo EXCEPT ![t] = h] /\ Lleva(h) = SinQuery
                          /\ h.paso = "fuera" => t \in Workers
    BY <1>1, RegresoSano
  <2> QED
    BY <1>1, <1>2, <1>3, <1>4, <2>1, NadaSeMueve
<1>5. CASE PlanificarFifo(t)
  <2>1. CASE /\ queries_ready # <<>> /\ HayWorker
             /\ Toma(t, Head(queries_ready), WorkerDisponible)
    <3>1. Head(queries_ready) \in ToSet(queries_ready)
      BY <1>1, <2>1, ElementosLista, HeadTailProperties, EmptySeq DEF TiposMaster
    <3>2. WorkerDisponible \in Workers
      BY <2>1, <1>1, WorkerDisponibleHay
    <3> QED
      BY <1>2, <2>1, <3>1, <3>2, TomaUbica
  <2> QED
    BY <1>4, <1>5, <2>1 DEF PlanificarFifo
<1>6. CASE PlanificarPrioridades(t)
  <2> DEFINE h == [hilo[t] EXCEPT !.paso = "iterar", !.i = Len(lista_workers_info)]
  <2>1. h.paso = "iterar"
    BY <1>1 DEF Hilo
  <2>2. hilo' = [hilo EXCEPT ![t] = h] /\ UNCHANGED queries_ready
    BY <1>6, <1>1 DEF PlanificarPrioridades, TiposMaster
  <2> HIDE DEF h
  <2>3. Lleva(h) = SinQuery
    BY <2>1 DEF Lleva
  <2> QED
    BY <1>2, <1>3, <2>1, <2>2, <2>3, NadaSeMueve
<1>7. CASE FinPlanificar(t)
  BY <1>4, <1>7 DEF FinPlanificar
<1>8. CASE Asignar(t)
  <2>1. MejorQuery \in ToSet(queries_ready) /\ WorkerDisponible \in Workers
    BY <1>1, <1>8, MejorQueryHay, WorkerDisponibleHay DEF Asignar, Ronda
  <2> QED
    BY <1>2, <1>8, <2>1, TomaUbica DEF Asignar
<1> QED
  BY <1>5, <1>6, <1>7, <1>8

LEMMA PasarAExecUbica ==
    ASSUME TypeOK, Sanos, Ubicadas, NEW t \in Hilos, PasarAExec(t)
    PROVE  Ubicadas'
<1> DEFINE q == hilo[t].query
<1>1. hilo[t] \in Hilo /\ HiloSano(hilo[t]) /\ hilo[t].paso = "asignar" /\ q \in Queries
  BY DEF TypeOK, Sanos, PasarAExec, En, HiloSano
<1>2. PICK w \in Leido(hilo[t].worker) :
         /\ query' = [query EXCEPT ![q].estado = "EXEC", ![q].worker = w, ![q].desalojada = FALSE]
         /\ hilo' = [hilo EXCEPT ![t].paso = "enviar", ![t].worker = w]
  BY DEF PasarAExec
<1> DEFINE h == [hilo[t] EXCEPT !.paso = "enviar", !.worker = w]
<1>3. h.paso = "enviar"
  BY <1>1 DEF Hilo
<1>4. hilo' = [hilo EXCEPT ![t] = h]
  BY <1>1, <1>2 DEF TypeOK
<1> HIDE DEF h
<1>5. Lleva(hilo[t]) = q /\ Lleva(h) = SinQuery /\ q # SinQuery
  BY <1>1, <1>3, MasterAssumption DEF Lleva
<1>6. /\ q \notin ToSet(queries_ready) /\ q \notin ToSet(queries_exec)
      /\ query[q].estado = "READY" /\ \A u \in Hilos : u # t => Lleva(hilo[u]) # q
  BY <1>1, <1>5 DEF Ubicadas, Llevadas
<1>7. queries_exec' = Append(queries_exec, q) /\ queries_ready' = queries_ready
  BY DEF PasarAExec
<1> HIDE DEF q
<1>8. /\ queries_exec' \in Seq(Queries) /\ IsInjective(queries_exec')
      /\ ToSet(queries_exec') = ToSet(queries_exec) \union {q}
  BY <1>1, <1>6, <1>7, AgregarLista DEF TypeOK, Ubicadas, EnLasListas
<1>9. queries_ready' \in Seq(Queries) /\ IsInjective(queries_ready')
  BY <1>7 DEF TypeOK, Ubicadas, EnLasListas
<1>10. query'[q].estado = "EXEC" /\ \A x \in Queries : x # q => query'[x].estado = query[x].estado
  BY <1>1, <1>2 DEF TypeOK, Query
<1> QED
  BY <1>1, <1>3, <1>4, <1>5, <1>6, <1>7, <1>8, <1>9, <1>10, UnaSeMueve

LEMMA EnviarUbica ==
    ASSUME TypeOK, Sanos, Ubicadas, NEW t \in Hilos,
           Enviar(t) \/ Soltar(t) \/ NadieDesalojable(t) \/ EnviarRelevo(t)
    PROVE  Ubicadas'
<1>1. TiposMaster /\ hilo[t] \in Hilo /\ HiloSano(hilo[t]) /\ Queries \intersect Workers = {}
      /\ algoritmo \in {"FIFO", "PRIORIDADES"}
  BY PartesDelTipo, MasterAssumption DEF TiposMaster, Sanos
<1>2. hilo[t].paso \in {"enviar", "soltar", "iterar", "enviar_relevo"}
      /\ UNCHANGED <<query, queries_ready, queries_exec>>
  BY DEF Enviar, Soltar, NadieDesalojable, EnviarRelevo, Ronda, En
<1>3. Lleva(hilo[t]) = SinQuery
  BY <1>2 DEF Lleva
<1>4. CASE Enviar(t) \/ Soltar(t)
  <2>1. hilo[t].paso \in {"enviar", "soltar"}
        /\ hilo' = IF algoritmo = "FIFO" THEN Regreso(t) ELSE Vuelta(t)
    BY <1>4 DEF Enviar, Soltar, En
  <2>2. CASE algoritmo = "FIFO"
    <3>1. PICK h \in Hilo : /\ Regreso(t) = [hilo EXCEPT ![t] = h] /\ Lleva(h) = SinQuery
                            /\ h.paso = "fuera" => t \in Workers
      BY <1>1, RegresoSano
    <3> QED
      BY <1>1, <1>2, <1>3, <2>1, <2>2, <3>1, NadaSeMueve
  <2>3. CASE algoritmo = "PRIORIDADES"
    <3>1. hilo[t].i > 0
      BY <1>1, <2>1, <2>3 DEF HiloSano
    <3>2. PICK h \in Hilo : /\ Vuelta(t) = [hilo EXCEPT ![t] = h] /\ Lleva(h) = SinQuery
                            /\ h.paso = "iterar"
      BY <1>1, <2>3, <3>1, VueltaSana
    <3> QED
      BY <1>2, <1>3, <2>1, <2>3, <3>2, NadaSeMueve
  <2> QED
    BY <1>1, <2>2, <2>3
<1>5. CASE NadieDesalojable(t) \/ EnviarRelevo(t)
  <2>1. hilo[t].i > 0 /\ algoritmo = "PRIORIDADES" /\ hilo' = Vuelta(t)
    BY <1>1, <1>5 DEF NadieDesalojable, EnviarRelevo, Ronda, En, HiloSano
  <2>2. PICK h \in Hilo : /\ Vuelta(t) = [hilo EXCEPT ![t] = h] /\ Lleva(h) = SinQuery
                          /\ h.paso = "iterar"
    BY <1>1, <2>1, VueltaSana
  <2> QED
    BY <1>2, <1>3, <2>1, <2>2, NadaSeMueve
<1> QED
  BY <1>4, <1>5

\* A query of EXEC goes back to READY, or ends.
LEMMA SaleDeExec ==
    ASSUME TypeOK, Sanos, Ubicadas, NEW t \in Hilos, NEW h, NEW q \in ToSet(queries_exec),
           hilo' = [hilo EXCEPT ![t] = h], Lleva(h) = SinQuery, Lleva(hilo[t]) = SinQuery,
           t \in Queries => h.paso # "fuera" /\ hilo[t].paso # "fuera",
           queries_exec' = RemoveFirst(queries_exec, q),
           \/ queries_ready' = Append(queries_ready, q) /\ query'[q].estado = "READY"
           \/ queries_ready' = queries_ready /\ query'[q].estado = "EXIT",
           \A p \in Queries : p # q => query'[p].estado = query[p].estado
    PROVE  Ubicadas'
<1>1. q \in Queries /\ query[q].estado = "EXEC" /\ q \notin ToSet(queries_ready) /\ q # SinQuery
      /\ \A u \in Hilos : Lleva(hilo[u]) # q
  BY SoloEnExec, MasterAssumption
<1>2. /\ queries_exec' \in Seq(Queries) /\ IsInjective(queries_exec')
      /\ ToSet(queries_exec') = ToSet(queries_exec) \ {q}
  BY QuitarLista DEF TypeOK, Ubicadas, EnLasListas
<1>3. queries_ready \in Seq(Queries) /\ IsInjective(queries_ready)
  BY DEF TypeOK, Ubicadas, EnLasListas
<1>4. CASE queries_ready' = Append(queries_ready, q) /\ query'[q].estado = "READY"
  <2>1. /\ queries_ready' \in Seq(Queries) /\ IsInjective(queries_ready')
        /\ ToSet(queries_ready') = ToSet(queries_ready) \union {q}
    BY <1>1, <1>3, <1>4, AgregarLista
  <2> QED
    BY <1>1, <1>2, <1>4, <2>1, UnaSeMueve
<1>5. CASE queries_ready' = queries_ready /\ query'[q].estado = "EXIT"
  BY <1>1, <1>2, <1>3, <1>5, UnaSeMueve
<1> QED
  BY <1>4, <1>5

LEMMA FallarEnvioUbica ==
    ASSUME TypeOK, Sanos, Ubicadas, NEW t \in Hilos, FallarEnvio(t)
    PROVE  Ubicadas'
<1> DEFINE g == hilo[t]
           marco == [i |-> g.i, suelta |-> g.paso = "enviar"]
           h == [Afuera EXCEPT !.paso = "planificar", !.pila = Append(g.pila, marco)]
           q == g.query
<1>1. /\ TiposMaster /\ g \in Hilo /\ HiloSano(g) /\ algoritmo \in {"FIFO", "PRIORIDADES"}
      /\ g.paso \in {"enviar", "enviar_relevo"} /\ q \in Queries
  BY PartesDelTipo, MasterAssumption DEF TiposMaster, Sanos, FallarEnvio, HiloSano
<1>2. Lleva(g) = SinQuery
  BY <1>1 DEF Lleva
<1>3. CASE q \in ToSet(queries_exec) /\ DevolverAReady(q) /\ hilo' = [hilo EXCEPT ![t] = h]
  <2>1. h.paso = "planificar"
    BY DEF Afuera
  <2> HIDE DEF h
  <2>2. Lleva(h) = SinQuery
    BY <2>1 DEF Lleva
  <2>3. /\ queries_exec' = RemoveFirst(queries_exec, q) /\ queries_ready' = Append(queries_ready, q)
        /\ query' = [query EXCEPT ![q].estado = "READY", ![q].worker = SinWorker]
    BY <1>3 DEF DevolverAReady
  <2> HIDE DEF q
  <2>4. query'[q].estado = "READY" /\ \A p \in Queries : p # q => query'[p].estado = query[p].estado
    BY <1>1, <2>3 DEF TypeOK, Query
  <2> QED
    BY <1>1, <1>2, <1>3, <2>1, <2>2, <2>3, <2>4, SaleDeExec
<1>4. CASE /\ hilo' = IF g.paso = "enviar" THEN [hilo EXCEPT ![t].paso = "soltar"] ELSE Vuelta(t)
           /\ UNCHANGED <<query, queries_ready, queries_exec>>
  <2>1. CASE g.paso = "enviar"
    <3> DEFINE s == [hilo[t] EXCEPT !.paso = "soltar"]
    <3>1. s.paso = "soltar" /\ hilo' = [hilo EXCEPT ![t] = s]
      BY <1>1, <1>4, <2>1 DEF Hilo
    <3> HIDE DEF s
    <3>2. Lleva(s) = SinQuery
      BY <3>1 DEF Lleva
    <3> QED
      BY <1>1, <1>2, <1>4, <3>1, <3>2, NadaSeMueve
  <2>2. CASE g.paso = "enviar_relevo"
    <3>1. g.i > 0 /\ algoritmo = "PRIORIDADES"
      BY <1>1, <2>2 DEF HiloSano
    <3>2. PICK s \in Hilo : /\ Vuelta(t) = [hilo EXCEPT ![t] = s] /\ Lleva(s) = SinQuery
                            /\ s.paso = "iterar"
      BY <1>1, <3>1, VueltaSana
    <3> QED
      BY <1>1, <1>2, <1>4, <2>2, <3>2, NadaSeMueve
  <2> QED
    BY <1>1, <2>1, <2>2
<1> QED
  BY <1>3, <1>4 DEF FallarEnvio

LEMMA ElegirVictimaUbica ==
    ASSUME TypeOK, Sanos, Ubicadas, NEW t \in Hilos, ElegirVictima(t)
    PROVE  Ubicadas'
<1> DEFINE q == MejorQuery
           w == query[Victima].worker
           h == [hilo[t] EXCEPT !.paso = "desalojar", !.query = q, !.worker = w]
<1>1. TiposMaster /\ hilo[t] \in Hilo /\ hilo[t].paso = "iterar"
  BY PartesDelTipo DEF TiposMaster, ElegirVictima, Ronda, En
<1>2. q \in ToSet(queries_ready)
  BY <1>1, MejorQueryHay DEF ElegirVictima, Ronda
<1>3. q \in Queries /\ query[q].estado = "READY" /\ q \notin ToSet(queries_exec)
      /\ \A u \in Hilos : Lleva(hilo[u]) # q
  BY <1>2, SoloEnReady
<1>4. /\ query' = [query EXCEPT ![q].estado = "EXEC", ![q].desalojada = FALSE, ![q].worker = w]
      /\ hilo' = [hilo EXCEPT ![t].paso = "desalojar", ![t].query = q, ![t].worker = w]
      /\ queries_ready' = RemoveFirst(queries_ready, q) /\ queries_exec' = queries_exec
  BY DEF ElegirVictima
<1> HIDE DEF q, w
<1>5. h.paso = "desalojar" /\ h.query = q
  BY <1>1 DEF Hilo
<1>6. hilo' = [hilo EXCEPT ![t] = h]
  BY <1>1, <1>4 DEF TiposMaster
<1> HIDE DEF h
<1>7. Lleva(h) = q /\ Lleva(hilo[t]) = SinQuery
  BY <1>1, <1>5 DEF Lleva
<1>8. /\ queries_ready' \in Seq(Queries) /\ IsInjective(queries_ready')
      /\ ToSet(queries_ready') = ToSet(queries_ready) \ {q}
  BY <1>4, QuitarLista DEF TypeOK, Ubicadas, EnLasListas
<1>9. queries_exec' \in Seq(Queries) /\ IsInjective(queries_exec')
  BY <1>4 DEF TypeOK, Ubicadas, EnLasListas
<1>10. query'[q].estado = "EXEC" /\ \A x \in Queries : x # q => query'[x].estado = query[x].estado
  BY <1>3, <1>4 DEF TypeOK, Query
<1>11. /\ \A p \in Queries : p # q => /\ p \in ToSet(queries_ready') <=> p \in ToSet(queries_ready)
                                      /\ p \in ToSet(queries_exec') <=> p \in ToSet(queries_exec)
                                      /\ query'[p].estado = query[p].estado
       /\ q \notin ToSet(queries_ready') /\ q \notin ToSet(queries_exec')
       /\ query'[q].estado = IF h.paso = "asignar" THEN "READY" ELSE "EXEC"
  BY <1>3, <1>4, <1>5, <1>8, <1>10
<1> QED
  BY <1>1, <1>3, <1>5, <1>6, <1>7, <1>8, <1>9, <1>11, UnaSeMueve

LEMMA DesalojarUbica ==
    ASSUME TypeOK, Sanos, Ubicadas, NEW t \in Hilos, Desalojar(t) \/ Relevar(t)
    PROVE  Ubicadas'
<1>1. TiposMaster /\ hilo[t] \in Hilo /\ HiloSano(hilo[t])
  BY PartesDelTipo DEF TiposMaster, Sanos
<1>2. CASE Desalojar(t)
  <2>1. hilo[t].paso = "desalojar"
    BY <1>2 DEF Desalojar, En
  <2>2. PICK h \in Hilo : hilo' = [hilo EXCEPT ![t] = h] /\ h.paso = "esperar" /\ h.query = hilo[t].query
    BY <1>1, <1>2, <2>1, EsperaSana DEF Desalojar
  <2>3. Lleva(h) = Lleva(hilo[t])
    BY <2>1, <2>2 DEF Lleva
  <2>4. UNCHANGED <<query, queries_ready, queries_exec>>
    BY <1>2 DEF Desalojar
  <2> QED
    BY <2>1, <2>2, <2>3, <2>4, NadaSeMueve
<1>3. CASE Relevar(t)
  <2> DEFINE q == hilo[t].query
  <2>1. hilo[t].paso = "esperar" /\ q \in Queries
    BY <1>1, <1>3 DEF Relevar, En, HiloSano
  <2>2. PICK h \in Hilo : hilo' = [hilo EXCEPT ![t] = h] /\ h.paso = "enviar_relevo"
    BY <1>1, <1>3, <2>1, EsperaSana DEF Relevar
  <2>3. Lleva(hilo[t]) = q /\ Lleva(h) = SinQuery /\ q # SinQuery
    BY <2>1, <2>2, MasterAssumption DEF Lleva
  <2>4. /\ q \notin ToSet(queries_ready) /\ q \notin ToSet(queries_exec)
        /\ query[q].estado = "EXEC" /\ \A u \in Hilos : u # t => Lleva(hilo[u]) # q
    BY <2>1, <2>3 DEF Ubicadas, Llevadas
  <2>5. queries_exec' = Append(queries_exec, q) /\ queries_ready' = queries_ready /\ query' = query
    BY <1>3 DEF Relevar
  <2> HIDE DEF q
  <2>6. /\ queries_exec' \in Seq(Queries) /\ IsInjective(queries_exec')
        /\ ToSet(queries_exec') = ToSet(queries_exec) \union {q}
    BY <2>1, <2>4, <2>5, AgregarLista DEF TypeOK, Ubicadas, EnLasListas
  <2>7. queries_ready' \in Seq(Queries) /\ IsInjective(queries_ready')
    BY <2>5 DEF TypeOK, Ubicadas, EnLasListas
  <2> QED
    BY <2>1, <2>2, <2>3, <2>4, <2>5, <2>6, <2>7, UnaSeMueve
<1> QED
  BY <1>2, <1>3

\* A step of the Master that leaves its threads and lists alone.
LEMMA RecibirUbica ==
    ASSUME TypeOK, Sanos, Ubicadas, NEW w \in Workers,
           RecibirLectura(w) \/ RecibirFin(w) \/ DescartarFin(w) \/ RecibirDesalojo(w)
    PROVE  Ubicadas'
<1> DEFINE m == Head(a_master[w])
           q == PrimeraEn(w)
<1>1. TiposMaster /\ w \in Hilos /\ w \notin Queries /\ hilo \in [Hilos -> Hilo]
  BY PartesDelTipo, MasterAssumption DEF Hilos, TiposMaster
<1>2. hilo[w].paso = "libre"
  BY DEF RecibirLectura, RecibirFin, DescartarFin, RecibirDesalojo, Lee, En
<1>3. Lleva(hilo[w]) = SinQuery /\ hilo = [hilo EXCEPT ![w] = hilo[w]]
  BY <1>1, <1>2 DEF Lleva
<1>4. CASE UNCHANGED <<query, queries_ready, queries_exec, hilo>>
  BY <1>1, <1>3, <1>4, NadaSeMueve
<1>5. CASE RecibirLectura(w) \/ DescartarFin(w)
  BY <1>4, <1>5 DEF RecibirLectura, DescartarFin, master
<1>6. CASE RecibirFin(w)
  <2>1. q \in Queries /\ q \in ToSet(queries_exec)
    BY <1>1, <1>6, PrimeraEnHay DEF RecibirFin
  <2>2. PICK h \in Hilo : hilo' = [hilo EXCEPT ![w] = h] /\ Lleva(h) = SinQuery
    <3>1. "planificar" \in Pasos /\ Pasa(w, "planificar")
      BY <1>6 DEF Pasos, RecibirFin, PlanificaAlTerminar
    <3> QED
      BY <1>1, <3>1, PasaTipo
  <2>3. /\ queries_exec' = RemoveFirst(queries_exec, q) /\ queries_ready' = queries_ready
        /\ query' = [query EXCEPT ![q].estado = "EXIT"]
    BY <1>6 DEF RecibirFin
  <2> HIDE DEF q
  <2>4. query'[q].estado = "EXIT" /\ \A p \in Queries : p # q => query'[p].estado = query[p].estado
    BY <2>1, <2>3 DEF TypeOK, Query
  <2> QED
    BY <1>1, <1>3, <2>1, <2>2, <2>3, <2>4, SaleDeExec
<1>7. CASE RecibirDesalojo(w)
  <2>1. CASE m.query \in ToSet(queries_exec) /\ Vuelve(m.query, m.pc)
    <3> DEFINE x == m.query
    <3>1. /\ queries_exec' = RemoveFirst(queries_exec, x) /\ queries_ready' = Append(queries_ready, x)
          /\ query' = [query EXCEPT ![x].estado = "READY", ![x].worker = SinWorker,
                                    ![x].pc = m.pc, ![x].desalojada = TRUE]
      BY <2>1 DEF Vuelve
    <3>2. x \in ToSet(queries_exec) /\ hilo' = hilo
      BY <1>7, <2>1 DEF RecibirDesalojo
    <3> HIDE DEF m
    <3> DEFINE n == m.pc
    <3>3. query' = [query EXCEPT ![x].estado = "READY", ![x].worker = SinWorker,
                                 ![x].pc = n, ![x].desalojada = TRUE]
      BY <3>1
    <3> HIDE DEF n, x
    <3>4. x \in Queries
      BY <3>2, SoloEnExec
    <3>5. query'[x].estado = "READY" /\ \A p \in Queries : p # x => query'[p].estado = query[p].estado
      BY <3>3, <3>4 DEF TypeOK, Query
    <3> QED
      BY <1>1, <1>3, <3>1, <3>2, <3>5, SaleDeExec DEF x
  <2>2. CASE UNCHANGED <<query, queries_ready, queries_exec>>
    BY <1>4, <1>7, <2>2 DEF RecibirDesalojo
  <2> QED
    BY <1>7, <2>1, <2>2 DEF RecibirDesalojo
<1> QED
  BY <1>5, <1>6, <1>7

LEMMA DesconectarUbica ==
    ASSUME TypeOK, Sanos, Ubicadas, NEW w \in Workers, Desconectar(w) \/ FinalizarQueryDe(w)
    PROVE  Ubicadas'
<1>1. TiposMaster /\ w \in Hilos /\ w \notin Queries
  BY PartesDelTipo, MasterAssumption DEF Hilos
<1>2. hilo[w].paso \in {"libre", "desconectar"}
  BY DEF Desconectar, FinalizarQueryDe, En
<1>3. PICK p \in {"desconectar", "planificar"} : Pasa(w, p) /\ p \in Pasos
  BY DEF Desconectar, FinalizarQueryDe, Pasos
<1>4. PICK h \in Hilo : hilo' = [hilo EXCEPT ![w] = h] /\ Lleva(h) = SinQuery
  BY <1>1, <1>3, PasaTipo
<1>5. Lleva(hilo[w]) = SinQuery
  BY <1>2 DEF Lleva
<1>6. CASE UNCHANGED <<query, queries_ready, queries_exec>>
  BY <1>1, <1>4, <1>5, <1>6, NadaSeMueve
<1>7. CASE EnWorker(w) # {} /\ FinalizarPorCaida(PrimeraEn(w)) /\ UNCHANGED queries_ready
  <2> DEFINE q == PrimeraEn(w)
  <2>1. q \in Queries /\ q \in ToSet(queries_exec)
    BY <1>1, <1>7, PrimeraEnHay
  <2>2. queries_exec' = RemoveFirst(queries_exec, q) /\ query' = [query EXCEPT ![q].estado = "EXIT"]
    BY <1>7 DEF FinalizarPorCaida
  <2> HIDE DEF q
  <2>3. query'[q].estado = "EXIT" /\ \A x \in Queries : x # q => query'[x].estado = query[x].estado
    BY <2>1, <2>2 DEF TypeOK, Query
  <2> QED
    BY <1>1, <1>4, <1>5, <1>7, <2>1, <2>2, <2>3, SaleDeExec
<1> QED
  BY <1>6, <1>7 DEF Desconectar, FinalizarQueryDe

LEMMA PasoUbica == TypeOK /\ Sanos /\ Ubicadas /\ [Next]_vars => Ubicadas'
<1> SUFFICES ASSUME TypeOK, Sanos, Ubicadas, [Next]_vars PROVE Ubicadas'
  OBVIOUS
<1>1. CASE UNCHANGED master
  <2>1. Presentadas' /\ EnLasListas'
    BY <1>1 DEF master, Ubicadas, Presentadas, En, EnLasListas
  <2>2. Llevadas' /\ NingunaPerdida'
    BY <1>1 DEF master, Ubicadas, Llevadas, NingunaPerdida, Lleva
  <2> QED
    BY <2>1, <2>2 DEF Ubicadas
<1>2. CASE NextMaster
  <2>1. CASE \/ \E q \in Queries : Envejecer(q) \/ \E p \in Prioridades : ConectarQuery(q, p)
             \/ \E w \in Workers : ConectarWorker(w) \/ IniciarSemaforo(w)
    BY <2>1, ConectarUbica
  <2>2. ASSUME NEW t \in Hilos, Planificacion(t) PROVE Ubicadas'
    BY <2>2, PlanificarUbica, PasarAExecUbica, EnviarUbica, FallarEnvioUbica, ElegirVictimaUbica,
       DesalojarUbica DEF Planificacion
  <2>3. ASSUME NEW w \in Workers, RecibirLectura(w) \/ RecibirFin(w) \/ DescartarFin(w) \/ RecibirDesalojo(w)
        PROVE  Ubicadas'
    BY <2>3, RecibirUbica
  <2>4. ASSUME NEW w \in Workers, Desconectar(w) \/ FinalizarQueryDe(w) PROVE Ubicadas'
    BY <2>4, DesconectarUbica
  <2> QED
    BY <1>2, <2>1, <2>2, <2>3, <2>4 DEF NextMaster, Lectura
<1>3. UNCHANGED master \/ NextMaster
  BY DEF Next, vars, CaerConectado, Rearrancar
<1> QED
  BY <1>1, <1>2, <1>3

LEMMA InitUbica == Init => Ubicadas
<1> SUFFICES ASSUME Init PROVE Ubicadas
  OBVIOUS
<1>1. \A t \in Hilos : hilo[t] = Afuera
  BY DEF Init, InitMaster
<1>2. \A t \in Hilos : hilo[t].paso = "fuera" /\ Lleva(hilo[t]) = SinQuery
  BY <1>1 DEF Afuera, Lleva
<1>3. \A q \in Queries : query[q].estado = "NUEVA" /\ q \in Hilos
  BY DEF Init, InitMaster, Nueva, Hilos
<1>4. Presentadas /\ Llevadas /\ NingunaPerdida
  BY <1>2, <1>3 DEF Presentadas, En, Llevadas, NingunaPerdida
<1>5. EnLasListas
  BY DEF Init, InitMaster, EnLasListas, ToSet, IsInjective
<1> QED
  BY <1>4, <1>5 DEF Ubicadas

\* Between READY, EXEC and the planners that carry it, a query is never in two
\* places and never lost, whatever planners run at the same time, Workers go
\* down and packets cannot be sent.
THEOREM CadaQueryEnUnLugar == Spec => []EnUnLugar
<1>1. Init => Ubicadas
  BY InitUbica
<1>2. TypeOK /\ Sanos /\ Ubicadas /\ [Next]_vars => Ubicadas'
  BY PasoUbica
<1>3. TypeOK /\ Sanos /\ Ubicadas => EnUnLugar
  BY UnSoloLugar
<1> QED
  BY <1>1, <1>2, <1>3, TiposSistema, PTL DEF Spec

-----------------------------------------------------------------------------
(* The evictions in flight                                                 *)

\* The packets of a type in a socket, when one is sent, read or lost.
LEMMA CuantosFinito ==
    ASSUME NEW T, NEW s \in Seq(T), NEW c
    PROVE  /\ IsFiniteSet({k \in DOMAIN s : s[k].tipo = c}) /\ Cuantos(s, c) \in Nat
           /\ s = <<>> => Cuantos(s, c) = 0
<1> DEFINE K == {k \in DOMAIN s : s[k].tipo = c}
<1>1. DOMAIN s = 1 .. Len(s) /\ Len(s) \in Nat
  BY LenProperties
<1>2. K \in SUBSET (1 .. Len(s))
  BY <1>1
<1>3. IsFiniteSet(1 .. Len(s))
  BY <1>1, FS_Interval
<1> HIDE DEF K
<1>4. IsFiniteSet(K)
  BY <1>2, <1>3, FS_Subset
<1>5. Cardinality(K) \in Nat
  BY <1>4, FS_CardinalityType
<1>6. s = <<>> => Cardinality(K) = 0
  <2>1. s = <<>> => K = {}
    BY DEF K
  <2> QED
    BY <2>1, FS_EmptySet
<1> QED
  BY <1>4, <1>5, <1>6 DEF K, Cuantos

LEMMA CuantosAgrega ==
    ASSUME NEW T, NEW s \in Seq(T), NEW r \in Seq(T), NEW c
    PROVE  /\ (\A k \in 1 .. Len(r) : r[k].tipo # c) => Cuantos(s \o r, c) = Cuantos(s, c)
           /\ (Len(r) # 0 /\ \A k \in 1 .. Len(r) : r[k].tipo = c <=> k = Len(r))
                 => Cuantos(s \o r, c) = Cuantos(s, c) + 1
<1> DEFINE n == Len(s)
           m == Len(r)
           K == {k \in DOMAIN s : s[k].tipo = c}
           L == {k \in DOMAIN (s \o r) : (s \o r)[k].tipo = c}
<1>1. /\ n \in Nat /\ m \in Nat /\ DOMAIN s = 1 .. n /\ DOMAIN (s \o r) = 1 .. n + m
      /\ \A k \in 1 .. n + m : (s \o r)[k] = IF k <= n THEN s[k] ELSE r[k - n]
  <2>1. s \o r \in Seq(T) /\ Len(s \o r) = n + m
        /\ \A k \in 1 .. n + m : (s \o r)[k] = IF k <= n THEN s[k] ELSE r[k - n]
    BY ConcatProperties
  <2> QED
    BY <2>1, LenProperties
<1>2. K = {k \in 1 .. n : s[k].tipo = c}
  BY <1>1
<1>3. L = {k \in 1 .. n + m : (IF k <= n THEN s[k] ELSE r[k - n]).tipo = c}
  BY <1>1
<1>4. IsFiniteSet(K) /\ Cuantos(s, c) = Cardinality(K) /\ Cuantos(s \o r, c) = Cardinality(L)
  BY CuantosFinito DEF Cuantos
<1> HIDE DEF n, m, K, L
<1>5. ASSUME \A k \in 1 .. m : r[k].tipo # c PROVE Cardinality(L) = Cardinality(K)
  <2>1. \A k \in 1 .. n + m : k > n => k - n \in 1 .. m
    BY <1>1
  <2>2. K = L
    BY <1>1, <1>2, <1>3, <1>5, <2>1
  <2> QED
    BY <2>2
<1>6. ASSUME m # 0, \A k \in 1 .. m : r[k].tipo = c <=> k = m PROVE Cardinality(L) = Cardinality(K) + 1
  <2>1. \A k \in 1 .. n + m : k > n => k - n \in 1 .. m /\ (k - n = m <=> k = n + m)
    BY <1>1
  <2>2. n + m \in 1 .. n + m /\ ~ (n + m <= n) /\ \A k \in 1 .. n : k \in 1 .. n + m /\ k # n + m
    BY <1>1, <1>6
  <2>3. L = K \union {n + m}
    BY <1>1, <1>2, <1>3, <1>6, <2>1, <2>2
  <2>4. n + m \notin K
    BY <1>2, <2>2
  <2> QED
    BY <1>4, <2>3, <2>4, FS_AddElement
<1> QED
  BY <1>4, <1>5, <1>6 DEF m

LEMMA CuantosEnvia ==
    ASSUME NEW T, NEW s \in Seq(T), NEW e \in T, NEW c
    PROVE  Cuantos(Append(s, e), c) = Cuantos(s, c) + (IF e.tipo = c THEN 1 ELSE 0)
<1> DEFINE r == <<e>>
<1>1. r \in Seq(T) /\ Len(r) = 1 /\ r[1] = e /\ Append(s, e) = s \o r
  BY AppendProperties, ConcatProperties
<1> HIDE DEF r
<1>2. Cuantos(s, c) \in Nat
  BY CuantosFinito
<1>3. CASE e.tipo = c
  <2>1. Len(r) # 0 /\ \A k \in 1 .. Len(r) : r[k].tipo = c <=> k = Len(r)
    BY <1>1, <1>3
  <2>2. Cuantos(s \o r, c) = Cuantos(s, c) + 1
    BY <1>1, <2>1, CuantosAgrega
  <2> QED
    BY <1>1, <1>3, <2>2
<1>4. CASE e.tipo # c
  <2>1. \A k \in 1 .. Len(r) : r[k].tipo # c
    BY <1>1, <1>4
  <2>2. Cuantos(s \o r, c) = Cuantos(s, c)
    BY <1>1, <2>1, CuantosAgrega
  <2> QED
    BY <1>1, <1>2, <1>4, <2>2
<1> QED
  BY <1>3, <1>4

LEMMA CuantosLee ==
    ASSUME NEW T, NEW s \in Seq(T), s # <<>>, NEW c
    PROVE  Cuantos(Tail(s), c) = Cuantos(s, c) - (IF Head(s).tipo = c THEN 1 ELSE 0)
<1> DEFINE n == Len(s)
           K == {k \in DOMAIN s : s[k].tipo = c}
           L == {k \in DOMAIN Tail(s) : Tail(s)[k].tipo = c}
           M == K \ {1}
           f == [k \in L |-> k + 1]
<1>1. /\ n \in Nat /\ n # 0 /\ DOMAIN s = 1 .. n /\ DOMAIN Tail(s) = 1 .. n - 1 /\ Head(s) = s[1]
      /\ \A k \in 1 .. n - 1 : Tail(s)[k] = s[k + 1]
  BY HeadTailProperties, LenProperties, EmptySeq
<1>2. IsFiniteSet(K) /\ IsFiniteSet(L)
      /\ Cuantos(s, c) = Cardinality(K) /\ Cuantos(Tail(s), c) = Cardinality(L) /\ Cuantos(s, c) \in Nat
  BY CuantosFinito, HeadTailProperties DEF Cuantos
<1>3. L = {k \in 1 .. n - 1 : s[k + 1].tipo = c}
  BY <1>1
<1>4. M = {k \in 2 .. n : s[k].tipo = c}
  BY <1>1
<1>5. 1 \in K <=> Head(s).tipo = c
  BY <1>1
<1> HIDE DEF n, K, L, M
<1>6. f \in [L -> M]
  BY <1>1, <1>3, <1>4
<1>7. \A a, b \in L : f[a] = f[b] => a = b
  BY <1>1, <1>3
<1>8. \A k \in M : k - 1 \in L /\ f[k - 1] = k
  BY <1>1, <1>3, <1>4
<1>9. ExistsBijection(L, M)
  <2> HIDE DEF f
  <2>1. f \in Injection(L, M)
    BY <1>6, <1>7 DEF Injection, IsInjective
  <2>2. f \in Surjection(L, M)
    BY <1>6, <1>8 DEF Surjection
  <2>3. f \in Bijection(L, M)
    BY <2>1, <2>2 DEF Bijection
  <2> QED
    BY <2>3 DEF ExistsBijection
<1>10. Cardinality(M) = Cardinality(L)
  BY <1>2, <1>9, FS_Bijection
<1>11. Cardinality(M) = IF 1 \in K THEN Cardinality(K) - 1 ELSE Cardinality(K)
  BY <1>2, FS_RemoveElement DEF M
<1> QED
  BY <1>2, <1>5, <1>10, <1>11

LEMMA CuantosPierde ==
    ASSUME NEW T, NEW s \in Seq(T), NEW r \in Seq(T), NEW c, Len(r) <= Len(s),
           \A k \in 1 .. Len(r) : r[k] = s[k]
    PROVE  Cuantos(r, c) <= Cuantos(s, c)
<1> DEFINE K == {k \in DOMAIN s : s[k].tipo = c}
           L == {k \in DOMAIN r : r[k].tipo = c}
<1>1. /\ Len(s) \in Nat /\ Len(r) \in Nat /\ DOMAIN s = 1 .. Len(s) /\ DOMAIN r = 1 .. Len(r)
  BY LenProperties
<1>2. L \in SUBSET K
  BY <1>1
<1>3. IsFiniteSet(K) /\ Cuantos(s, c) = Cardinality(K) /\ Cuantos(r, c) = Cardinality(L)
  BY CuantosFinito DEF Cuantos
<1> HIDE DEF K, L
<1> QED
  BY <1>2, <1>3, FS_Subset

\* The planners that wait for an eviction.
Esperan == {t \in Hilos : En(t, "esperar")}

LEMMA EsperanFinito ==
    /\ IsFiniteSet(Esperan) /\ Cardinality(Esperan) \in Nat
    /\ IsFiniteSet(Esperan') /\ Cardinality(Esperan') \in Nat
<1>1. IsFiniteSet(Hilos)
  BY FinitosAssumption, FS_Union DEF Hilos
<1>2. Esperan \in SUBSET Hilos /\ Esperan' \in SUBSET Hilos
  BY DEF Esperan
<1>3. IsFiniteSet(Esperan) /\ IsFiniteSet(Esperan')
  BY <1>1, <1>2, FS_Subset
<1> QED
  BY <1>3, FS_CardinalityType

\* Those that wait after a thread moves.
LEMMA EsperanTras ==
    ASSUME hilo \in [Hilos -> Hilo], NEW t \in Hilos, NEW h, hilo' = [hilo EXCEPT ![t] = h]
    PROVE  /\ (h.paso = "esperar" <=> En(t, "esperar")) => Cardinality(Esperan') = Cardinality(Esperan)
           /\ h.paso = "esperar" /\ ~En(t, "esperar") => Cardinality(Esperan') = Cardinality(Esperan) + 1
           /\ h.paso # "esperar" /\ En(t, "esperar") => Cardinality(Esperan') = Cardinality(Esperan) - 1
<1>1. \A u \in Hilos : hilo'[u] = IF u = t THEN h ELSE hilo[u]
  OBVIOUS
<1>2. IsFiniteSet(Esperan)
  BY EsperanFinito
<1>3. (h.paso = "esperar" <=> En(t, "esperar")) => Esperan' = Esperan
  BY <1>1 DEF Esperan, En
<1>4. h.paso = "esperar" /\ ~En(t, "esperar") => Esperan' = Esperan \union {t} /\ t \notin Esperan
  BY <1>1 DEF Esperan, En
<1>5. h.paso # "esperar" /\ En(t, "esperar") => Esperan' = Esperan \ {t} /\ t \in Esperan
  BY <1>1 DEF Esperan, En
<1> QED
  BY <1>2, <1>3, <1>4, <1>5, FS_AddElement, FS_RemoveElement

LEMMA PedidosDeNat ==
    ASSUME TypeOK, NEW w \in Workers
    PROVE  PedidosDe(w) \in Nat
<1>1. Cuantos(a_worker[w], "DESALOJAR_QUERY") \in Nat /\ Cuantos(a_master[w], "DESALOJO_QUERY") \in Nat
  BY CuantosFinito DEF TypeOK
<1> QED
  BY <1>1 DEF PedidosDe

LEMMA PedidosDeNatDespues ==
    ASSUME TypeOK', NEW w \in Workers
    PROVE  PedidosDe(w)' \in Nat
<1>1. Cuantos(a_worker'[w], "DESALOJAR_QUERY") \in Nat /\ Cuantos(a_master'[w], "DESALOJO_QUERY") \in Nat
  BY CuantosFinito DEF TypeOK
<1>2. PedidosDe(w)' = Cuantos(a_worker'[w], "DESALOJAR_QUERY") + Cuantos(a_master'[w], "DESALOJO_QUERY")
                      + (IF escucha'[w].paso = "espera" THEN 1 ELSE 0)
  BY DEF PedidosDe, Cuantos
<1> QED
  BY <1>1, <1>2

\* What the evictions in flight become when those of one Worker change.
LEMMA PedidosTras ==
    ASSUME IsFiniteSet(Pedidos), NEW w \in Workers,
           \A v \in Workers : PedidosDe(v) \in Nat /\ PedidosDe(v)' \in Nat,
           \A v \in Workers : v # w => PedidosDe(v)' = PedidosDe(v)
    PROVE  /\ PedidosDe(w)' <= PedidosDe(w) =>
                 IsFiniteSet(Pedidos') /\ Cardinality(Pedidos') <= Cardinality(Pedidos)
           /\ PedidosDe(w)' = PedidosDe(w) + 1 =>
                 IsFiniteSet(Pedidos') /\ Cardinality(Pedidos') = Cardinality(Pedidos) + 1
           /\ PedidosDe(w)' = PedidosDe(w) - 1 =>
                 IsFiniteSet(Pedidos') /\ Cardinality(Pedidos') = Cardinality(Pedidos) - 1
<1> DEFINE n == PedidosDe(w)
           m == PedidosDe(w)'
<1>1. \A x : x \in Pedidos <=> \E v \in Workers : \E k \in 1 .. PedidosDe(v) : x = <<v, k>>
  BY DEF Pedidos
<1>2. \A x : x \in Pedidos' <=> \E v \in Workers : \E k \in 1 .. PedidosDe(v)' : x = <<v, k>>
  BY DEF Pedidos
<1>3. n \in Nat /\ m \in Nat
  OBVIOUS
<1>4. \A k : k \in 1 .. n <=> <<w, k>> \in Pedidos
  BY <1>1
<1>5. \A k : k \in 1 .. m <=> <<w, k>> \in Pedidos'
  BY <1>2
<1>6. \A x : (~ \E k : x = <<w, k>>) => (x \in Pedidos' <=> x \in Pedidos)
  BY <1>1, <1>2
<1> DEFINE P == Pedidos
           Q == Pedidos'
<1> HIDE DEF n, m, P, Q
<1>7. /\ \A k : k \in 1 .. n <=> <<w, k>> \in P
      /\ \A k : k \in 1 .. m <=> <<w, k>> \in Q
      /\ \A x : (~ \E k : x = <<w, k>>) => (x \in Q <=> x \in P)
      /\ IsFiniteSet(P)
  BY <1>4, <1>5, <1>6 DEF P, Q
<1>8. m <= n => IsFiniteSet(Q) /\ Cardinality(Q) <= Cardinality(P)
  <2>1. m <= n => \A k : k \in 1 .. m => k \in 1 .. n
    BY <1>3
  <2>2. m <= n => Q \in SUBSET P
    BY <1>7, <2>1
  <2> QED
    BY <1>7, <2>2, FS_Subset
<1>9. m = n + 1 => IsFiniteSet(Q) /\ Cardinality(Q) = Cardinality(P) + 1
  <2>1. m = n + 1 => (\A k : k \in 1 .. m <=> k \in 1 .. n \/ k = n + 1) /\ n + 1 \notin 1 .. n
    BY <1>3
  <2>2. m = n + 1 => Q = P \union {<<w, n + 1>>} /\ <<w, n + 1>> \notin P
    BY <1>7, <2>1
  <2> QED
    BY <1>7, <2>2, FS_AddElement
<1>10. m = n - 1 => IsFiniteSet(Q) /\ Cardinality(Q) = Cardinality(P) - 1
  <2>1. m = n - 1 => (\A k : k \in 1 .. m <=> k \in 1 .. n /\ k # n) /\ n \in 1 .. n
    BY <1>3
  <2>2. m = n - 1 => Q = P \ {<<w, n>>} /\ <<w, n>> \in P
    BY <1>7, <2>1
  <2> QED
    BY <1>7, <2>2, FS_RemoveElement
<1> QED
  BY <1>8, <1>9, <1>10 DEF n, m, P, Q

\* UnRelevoPorDesalojo is inductive, once the evictions in flight are known to be
\* finitely many.
Relevos == IsFiniteSet(Pedidos) /\ UnRelevoPorDesalojo

LEMMA RelevosSuma ==
    ASSUME TypeOK, IsFiniteSet(Pedidos)
    PROVE  /\ Cardinality(Pedidos) \in Nat /\ Cardinality(Esperan) \in Nat /\ sem_ejecutar_query \in Nat
           /\ UnRelevoPorDesalojo <=>
                 sem_ejecutar_query + Cardinality(Pedidos) <= Cardinality(Esperan)
BY FS_CardinalityType, EsperanFinito DEF TypeOK, UnRelevoPorDesalojo, Esperan

\* A step that leaves the packets and the listeners as they were.
LEMMA RelevosQuietos ==
    ASSUME TypeOK, TypeOK', Relevos,
           \A v \in Workers : PedidosDe(v)' = PedidosDe(v),
           sem_ejecutar_query' + Cardinality(Esperan) <= sem_ejecutar_query + Cardinality(Esperan')
    PROVE  Relevos'
<1>1. Pedidos' = Pedidos
  BY DEF Pedidos
<1>2. IsFiniteSet(Pedidos) /\ IsFiniteSet(Pedidos')
  BY <1>1 DEF Relevos
<1>3. /\ Cardinality(Pedidos) \in Nat /\ Cardinality(Esperan) \in Nat /\ sem_ejecutar_query \in Nat
      /\ sem_ejecutar_query + Cardinality(Pedidos) <= Cardinality(Esperan)
  BY <1>2, RelevosSuma DEF Relevos
<1>4. /\ Cardinality(Pedidos') \in Nat /\ Cardinality(Esperan') \in Nat /\ sem_ejecutar_query' \in Nat
      /\ UnRelevoPorDesalojo' <=>
            sem_ejecutar_query' + Cardinality(Pedidos') <= Cardinality(Esperan')
  <2>1. Cardinality(Pedidos') \in Nat
    BY <1>2, FS_CardinalityType
  <2>2. Cardinality(Esperan') \in Nat
    BY EsperanFinito
  <2> QED
    BY <2>1, <2>2 DEF TypeOK, UnRelevoPorDesalojo, Esperan
<1> HIDE DEF Relevos
<1>5. sem_ejecutar_query' + Cardinality(Pedidos') <= Cardinality(Esperan')
  BY <1>1, <1>3, <1>4
<1> QED
  BY <1>2, <1>4, <1>5 DEF Relevos

\* A step that changes the evictions in flight of one Worker.
LEMMA RelevosDe ==
    ASSUME TypeOK, TypeOK', Relevos, NEW w \in Workers,
           \A v \in Workers : v # w => PedidosDe(v)' = PedidosDe(v),
           \/ /\ PedidosDe(w)' <= PedidosDe(w)
              /\ sem_ejecutar_query' + Cardinality(Esperan) <= sem_ejecutar_query + Cardinality(Esperan')
           \/ /\ PedidosDe(w)' = PedidosDe(w) + 1
              /\ sem_ejecutar_query' + Cardinality(Esperan) + 1 <= sem_ejecutar_query + Cardinality(Esperan')
           \/ /\ PedidosDe(w)' = PedidosDe(w) - 1
              /\ sem_ejecutar_query' + Cardinality(Esperan) <= sem_ejecutar_query + Cardinality(Esperan') + 1
    PROVE  Relevos'
<1>1. \A v \in Workers : PedidosDe(v) \in Nat /\ PedidosDe(v)' \in Nat
  <2>1. \A v \in Workers : PedidosDe(v) \in Nat
    BY PedidosDeNat
  <2>2. \A v \in Workers : PedidosDe(v)' \in Nat
    BY PedidosDeNatDespues
  <2> QED
    BY <2>1, <2>2
<1>2. IsFiniteSet(Pedidos)
  BY DEF Relevos
<1>3. /\ Cardinality(Pedidos) \in Nat /\ Cardinality(Esperan) \in Nat /\ sem_ejecutar_query \in Nat
      /\ sem_ejecutar_query + Cardinality(Pedidos) <= Cardinality(Esperan)
  BY <1>2, RelevosSuma DEF Relevos
<1>4. /\ PedidosDe(w)' <= PedidosDe(w) =>
            IsFiniteSet(Pedidos') /\ Cardinality(Pedidos') <= Cardinality(Pedidos)
      /\ PedidosDe(w)' = PedidosDe(w) + 1 =>
            IsFiniteSet(Pedidos') /\ Cardinality(Pedidos') = Cardinality(Pedidos) + 1
      /\ PedidosDe(w)' = PedidosDe(w) - 1 =>
            IsFiniteSet(Pedidos') /\ Cardinality(Pedidos') = Cardinality(Pedidos) - 1
  BY <1>1, <1>2, PedidosTras
<1>5. IsFiniteSet(Pedidos')
  BY <1>4
<1>6. Cardinality(Pedidos') \in Nat /\ Cardinality(Esperan') \in Nat /\ sem_ejecutar_query' \in Nat
  <2>1. Cardinality(Pedidos') \in Nat
    BY <1>5, FS_CardinalityType
  <2>2. Cardinality(Esperan') \in Nat
    BY EsperanFinito
  <2> QED
    BY <2>1, <2>2 DEF TypeOK
<1>7. UnRelevoPorDesalojo' <=> sem_ejecutar_query' + Cardinality(Pedidos') <= Cardinality(Esperan')
  BY DEF UnRelevoPorDesalojo, Esperan
<1>8. sem_ejecutar_query' + Cardinality(Pedidos') <= Cardinality(Esperan')
  BY <1>3, <1>4, <1>6
<1> QED
  BY <1>5, <1>7, <1>8 DEF Relevos

\* The steps that neither send nor read a packet of an eviction.
LEMMA MasterRelevos ==
    ASSUME TypeOK, Sanos, TypeOK', Relevos, UNCHANGED <<a_worker, a_master, escucha>>,
           sem_ejecutar_query' <= sem_ejecutar_query, NEW t \in Hilos, NEW h,
           hilo' = [hilo EXCEPT ![t] = h], h.paso = "esperar" <=> hilo[t].paso = "esperar"
    PROVE  Relevos'
<1>1. \A v \in Workers : PedidosDe(v)' = PedidosDe(v)
  BY DEF PedidosDe, Cuantos
<1>2. Cardinality(Esperan') = Cardinality(Esperan) /\ Cardinality(Esperan) \in Nat
  BY EsperanTras, EsperanFinito DEF TypeOK, En
<1>3. sem_ejecutar_query' + Cardinality(Esperan) <= sem_ejecutar_query + Cardinality(Esperan')
  BY <1>2 DEF TypeOK
<1> QED
  BY <1>1, <1>3, RelevosQuietos

\* Those of the planner, but for the sending of packets and the wait.
LEMMA PlanificarRelevos ==
    ASSUME TypeOK, Sanos, TypeOK', Relevos, UNCHANGED <<control, enchufes>>, NEW t \in Hilos,
           \/ PlanificarFifo(t) \/ PlanificarPrioridades(t) \/ FinPlanificar(t) \/ Asignar(t)
           \/ PasarAExec(t) \/ FallarEnvio(t) \/ Soltar(t) \/ ElegirVictima(t) \/ NadieDesalojable(t)
    PROVE  Relevos'
<1>1. TiposMaster /\ hilo[t] \in Hilo /\ HiloSano(hilo[t])
  BY PartesDelTipo DEF TiposMaster, Sanos
<1>2. UNCHANGED <<a_worker, a_master, escucha, sem_ejecutar_query>>
  BY DEF PlanificarFifo, PlanificarPrioridades, FinPlanificar, Asignar, PasarAExec, FallarEnvio, Soltar,
         ElegirVictima, NadieDesalojable, canales, control
<1>3. hilo[t].paso \in {"planificar", "iterar", "asignar", "enviar", "enviar_relevo", "soltar"}
  BY DEF PlanificarFifo, PlanificarPrioridades, FinPlanificar, Asignar, PasarAExec, FallarEnvio, Soltar,
         ElegirVictima, NadieDesalojable, Ronda, En
<1>4. \E h : hilo' = [hilo EXCEPT ![t] = h] /\ h.paso # "esperar"
  <2>1. CASE hilo' = Regreso(t)
    BY <1>1, <2>1, RegresoSano
  <2>2. CASE hilo' = Vuelta(t)
    <3> DEFINE h == [Afuera EXCEPT !.paso = "iterar", !.i = hilo[t].i - 1, !.pila = hilo[t].pila]
    <3>1. h.paso = "iterar" /\ hilo' = [hilo EXCEPT ![t] = h]
      BY <2>2 DEF Vuelta, Afuera
    <3> HIDE DEF h
    <3> QED
      BY <3>1
  <2>3. CASE \E q, w : Toma(t, q, w)
    <3>1. PICK q, w : Toma(t, q, w)
      BY <2>3
    <3> DEFINE h == [hilo[t] EXCEPT !.paso = "asignar", !.query = q, !.worker = w]
    <3>2. h.paso = "asignar" /\ hilo' = [hilo EXCEPT ![t] = h]
      BY <1>1, <3>1 DEF Hilo, Toma, TiposMaster
    <3> QED
      BY <3>2
  <2>4. CASE PlanificarFifo(t)
    BY <2>1, <2>3, <2>4 DEF PlanificarFifo
  <2>5. CASE PlanificarPrioridades(t)
    <3> DEFINE h == [hilo[t] EXCEPT !.paso = "iterar", !.i = Len(lista_workers_info)]
    <3>1. h.paso = "iterar" /\ hilo' = [hilo EXCEPT ![t] = h]
      BY <1>1, <2>5 DEF Hilo, PlanificarPrioridades, TiposMaster
    <3> QED
      BY <3>1
  <2>6. CASE PasarAExec(t)
    <3>1. PICK w : hilo' = [hilo EXCEPT ![t].paso = "enviar", ![t].worker = w]
      BY <2>6 DEF PasarAExec
    <3> DEFINE h == [hilo[t] EXCEPT !.paso = "enviar", !.worker = w]
    <3>2. h.paso = "enviar" /\ hilo' = [hilo EXCEPT ![t] = h]
      BY <1>1, <3>1 DEF Hilo, TiposMaster
    <3> QED
      BY <3>2
  <2>7. CASE FallarEnvio(t)
    <3>1. CASE hilo' = [hilo EXCEPT ![t].paso = "soltar"]
      <4> DEFINE h == [hilo[t] EXCEPT !.paso = "soltar"]
      <4>1. h.paso = "soltar" /\ hilo' = [hilo EXCEPT ![t] = h]
        BY <1>1, <3>1 DEF Hilo, TiposMaster
      <4> QED
        BY <4>1
    <3>2. CASE \E p : hilo' = [hilo EXCEPT ![t] = [Afuera EXCEPT !.paso = "planificar", !.pila = p]]
      <4>1. PICK p : hilo' = [hilo EXCEPT ![t] = [Afuera EXCEPT !.paso = "planificar", !.pila = p]]
        BY <3>2
      <4> DEFINE h == [Afuera EXCEPT !.paso = "planificar", !.pila = p]
      <4>2. h.paso = "planificar" /\ hilo' = [hilo EXCEPT ![t] = h]
        BY <4>1 DEF Afuera
      <4> HIDE DEF h
      <4> QED
        BY <4>2
    <3> QED
      BY <2>2, <2>7, <3>1, <3>2 DEF FallarEnvio
  <2>8. CASE ElegirVictima(t)
    <3>1. PICK q, w : hilo' = [hilo EXCEPT ![t].paso = "desalojar", ![t].query = q, ![t].worker = w]
      BY <2>8 DEF ElegirVictima
    <3> DEFINE h == [hilo[t] EXCEPT !.paso = "desalojar", !.query = q, !.worker = w]
    <3>2. h.paso = "desalojar" /\ hilo' = [hilo EXCEPT ![t] = h]
      BY <1>1, <3>1 DEF Hilo, TiposMaster
    <3> QED
      BY <3>2
  <2> QED
    BY <2>1, <2>2, <2>3, <2>4, <2>5, <2>6, <2>7, <2>8 DEF FinPlanificar, Asignar, Soltar, NadieDesalojable
<1>5. sem_ejecutar_query' <= sem_ejecutar_query
  BY <1>2 DEF TypeOK
<1> QED
  BY <1>2, <1>3, <1>4, <1>5, MasterRelevos

LEMMA ConectarRelevos ==
    ASSUME TypeOK, Sanos, Ubicadas, TypeOK', Relevos, UNCHANGED <<control, enchufes>>,
           \/ \E q \in Queries : Envejecer(q) \/ \E p \in Prioridades : ConectarQuery(q, p)
           \/ \E w \in Workers : \/ ConectarWorker(w) \/ IniciarSemaforo(w)
                                 \/ Desconectar(w) \/ FinalizarQueryDe(w)
    PROVE  Relevos'
<1>1. TiposMaster /\ sem_ejecutar_query' <= sem_ejecutar_query
      /\ UNCHANGED <<a_worker, a_master, escucha>>
  <2>1. sem_ejecutar_query' \in {0, sem_ejecutar_query} /\ UNCHANGED <<a_worker, a_master, escucha>>
    BY DEF Envejecer, ConectarQuery, ConectarWorker, IniciarSemaforo, Desconectar, FinalizarQueryDe,
           canales, control
  <2> QED
    BY <2>1, PartesDelTipo DEF TypeOK
<1>2. ASSUME NEW t \in Hilos, NEW p \in {"planificar", "semaforo", "desconectar"}, Pasa(t, p),
             hilo[t].paso # "esperar"
      PROVE  Relevos'
  <2>1. PICK h \in Hilo : hilo' = [hilo EXCEPT ![t] = h] /\ h.paso = p
    <3>1. p \in Pasos
      BY DEF Pasos
    <3> QED
      BY <1>1, <1>2, <3>1, PasaTipo
  <2> QED
    BY <1>1, <1>2, <2>1, MasterRelevos
<1>3. ASSUME NEW q \in Queries, Envejecer(q) PROVE Relevos'
  BY <1>2, <1>3 DEF Envejecer, En, Hilos
<1>4. ASSUME NEW w \in Workers,
             ConectarWorker(w) \/ IniciarSemaforo(w) \/ Desconectar(w) \/ FinalizarQueryDe(w)
      PROVE  Relevos'
  BY <1>2, <1>4 DEF ConectarWorker, IniciarSemaforo, Desconectar, FinalizarQueryDe, En, Hilos
<1>5. ASSUME NEW q \in Queries, NEW p \in Prioridades, ConectarQuery(q, p) PROVE Relevos'
  <2>1. hilo[q].paso = "fuera" /\ q \in Hilos /\ Pasa(q, "planificar")
    BY <1>5 DEF ConectarQuery, Ubicadas, Presentadas, En, Hilos
  <2> QED
    BY <1>2, <2>1
<1> QED
  BY <1>3, <1>4, <1>5

\* What the evictions in flight of a Worker are after a step.
LEMMA PedidosDespues ==
    ASSUME NEW v \in Workers
    PROVE  PedidosDe(v)' = Cuantos(a_worker'[v], "DESALOJAR_QUERY") + Cuantos(a_master'[v], "DESALOJO_QUERY")
                           + (IF escucha'[v].paso = "espera" THEN 1 ELSE 0)
BY DEF PedidosDe, Cuantos

\* The packets that the planner sends to a Worker.
LEMMA MandaRelevos ==
    ASSUME TypeOK, NEW w, NEW m \in HaciaWorker, Manda(w, m), UNCHANGED <<a_master, escucha>>
    PROVE  /\ w \in Workers /\ \A v \in Workers : v # w => PedidosDe(v)' = PedidosDe(v)
           /\ \/ PedidosDe(w)' = PedidosDe(w)
              \/ m.tipo = "DESALOJAR_QUERY" /\ PedidosDe(w)' = PedidosDe(w) + 1
<1>1. w \in Workers
  BY ElementosLista DEF Manda, TypeOK
<1>2. \A v \in Workers : v # w => PedidosDe(v)' = PedidosDe(v)
  BY DEF Manda, TypeOK, PedidosDe, Cuantos
<1>3. CASE a_worker' = a_worker
  BY <1>1, <1>2, <1>3 DEF PedidosDe, Cuantos
<1>4. CASE a_worker' = [a_worker EXCEPT ![w] = Append(@, m)]
  <2> DEFINE c == a_worker[w]
             d == Cuantos(a_master[w], "DESALOJO_QUERY")
             e == IF escucha[w].paso = "espera" THEN 1 ELSE 0
             b == IF m.tipo = "DESALOJAR_QUERY" THEN 1 ELSE 0
  <2>1. c \in Seq(HaciaWorker) /\ a_worker'[w] = Append(c, m)
    BY <1>1, <1>4 DEF TypeOK
  <2>2. Cuantos(c, "DESALOJAR_QUERY") \in Nat /\ d \in Nat
    BY <1>1, <2>1, CuantosFinito DEF TypeOK
  <2>3. Cuantos(Append(c, m), "DESALOJAR_QUERY") = Cuantos(c, "DESALOJAR_QUERY") + b
    BY <2>1, CuantosEnvia
  <2>4. PedidosDe(w) = Cuantos(c, "DESALOJAR_QUERY") + d + e
    BY DEF PedidosDe
  <2>5. PedidosDe(w)' = Cuantos(Append(c, m), "DESALOJAR_QUERY") + d + e
    BY <1>1, <2>1, PedidosDespues
  <2>6. e \in Nat /\ b \in {0, 1} /\ (b = 1 => m.tipo = "DESALOJAR_QUERY")
    OBVIOUS
  <2> HIDE DEF c, d, e, b
  <2>7. PedidosDe(w)' = PedidosDe(w) + b /\ PedidosDe(w) \in Nat
    BY <2>2, <2>3, <2>4, <2>5, <2>6
  <2> QED
    BY <1>1, <1>2, <2>6, <2>7
<1> QED
  BY <1>3, <1>4 DEF Manda

LEMMA EnviarRelevos ==
    ASSUME TypeOK, Sanos, TypeOK', Relevos, UNCHANGED <<control, enchufes>>, NEW t \in Hilos,
           Enviar(t) \/ EnviarRelevo(t)
    PROVE  Relevos'
<1>1. TiposMaster /\ hilo[t] \in Hilo /\ HiloSano(hilo[t]) /\ hilo[t].paso \in {"enviar", "enviar_relevo"}
      /\ hilo[t].query \in Queries /\ UNCHANGED <<a_master, escucha, sem_ejecutar_query>>
  BY PartesDelTipo DEF TiposMaster, Sanos, HiloSano, Enviar, EnviarRelevo, En, control
<1> DEFINE q == hilo[t].query
           m == EjecutarQuery(q, query[q].pc)
<1>2. PICK w : Manda(w, m)
  BY DEF Enviar, EnviarRelevo
<1>3. m \in HaciaWorker /\ m.tipo = "EJECUTAR_QUERY"
  BY <1>1 DEF EjecutarQuery, HaciaWorker, TiposMaster, Query
<1>4. \E h : hilo' = [hilo EXCEPT ![t] = h] /\ h.paso # "esperar"
  <2>1. CASE hilo' = Regreso(t)
    BY <1>1, <2>1, RegresoSano
  <2>2. CASE hilo' = Vuelta(t)
    <3> DEFINE h == [Afuera EXCEPT !.paso = "iterar", !.i = hilo[t].i - 1, !.pila = hilo[t].pila]
    <3>1. h.paso = "iterar" /\ hilo' = [hilo EXCEPT ![t] = h]
      BY <2>2 DEF Vuelta, Afuera
    <3> HIDE DEF h
    <3> QED
      BY <3>1
  <2> QED
    BY <2>1, <2>2 DEF Enviar, EnviarRelevo
<1> HIDE DEF m
<1>5. w \in Workers /\ \A v \in Workers : PedidosDe(v)' = PedidosDe(v)
  BY <1>1, <1>2, <1>3, MandaRelevos
<1>6. Cardinality(Esperan') = Cardinality(Esperan) /\ Cardinality(Esperan) \in Nat
  BY <1>1, <1>4, EsperanTras, EsperanFinito DEF TypeOK, En
<1>7. sem_ejecutar_query' + Cardinality(Esperan) <= sem_ejecutar_query + Cardinality(Esperan')
  BY <1>1, <1>6 DEF TypeOK
<1> QED
  BY <1>5, <1>7, RelevosQuietos

\* The planner that asks for an eviction, and the one that an eviction lets go on.
LEMMA DesalojarRelevos ==
    ASSUME TypeOK, Sanos, TypeOK', Relevos, UNCHANGED <<control, enchufes>>, NEW t \in Hilos,
           Desalojar(t) \/ Relevar(t)
    PROVE  Relevos'
<1>1. TiposMaster /\ hilo[t] \in Hilo /\ HiloSano(hilo[t]) /\ sem_ejecutar_query \in Nat
      /\ UNCHANGED escucha
  BY PartesDelTipo DEF TiposMaster, Sanos, control
<1>2. CASE Desalojar(t)
  <2>1. hilo[t].paso = "desalojar" /\ UNCHANGED <<a_master, sem_ejecutar_query>>
    BY <1>2 DEF Desalojar, En
  <2>2. PICK h \in Hilo : hilo' = [hilo EXCEPT ![t] = h] /\ h.paso = "esperar"
    BY <1>1, <1>2, <2>1, EsperaSana DEF Desalojar
  <2>3. Cardinality(Esperan') = Cardinality(Esperan) + 1 /\ Cardinality(Esperan) \in Nat
    BY <1>1, <2>1, <2>2, EsperanTras, EsperanFinito DEF TypeOK, En
  <2>4. CASE UNCHANGED a_worker
    <3>1. \A v \in Workers : PedidosDe(v)' = PedidosDe(v)
      BY <1>1, <2>1, <2>4 DEF PedidosDe, Cuantos
    <3>2. sem_ejecutar_query' + Cardinality(Esperan) <= sem_ejecutar_query + Cardinality(Esperan')
      BY <1>1, <2>1, <2>3
    <3> QED
      BY <3>1, <3>2, RelevosQuietos
  <2>5. CASE \E w : Desalojable(w) /\ Manda(w, DesalojarQuery(PrimeraEn(w)))
    <3>1. PICK w : Desalojable(w) /\ Manda(w, DesalojarQuery(PrimeraEn(w)))
      BY <2>5
    <3> DEFINE m == DesalojarQuery(PrimeraEn(w))
    <3>2. m \in HaciaWorker
      <4>1. PrimeraEn(w) \in Queries
        BY <1>1, <3>1, PrimeraEnHay DEF Desalojable
      <4> QED
        BY <4>1, LineasAssumption DEF DesalojarQuery, HaciaWorker
    <3> HIDE DEF m
    <3>3. /\ w \in Workers /\ \A v \in Workers : v # w => PedidosDe(v)' = PedidosDe(v)
          /\ PedidosDe(w)' = PedidosDe(w) \/ PedidosDe(w)' = PedidosDe(w) + 1
      BY <1>1, <2>1, <3>1, <3>2, MandaRelevos DEF m
    <3>4. PedidosDe(w) \in Nat
      BY <3>3, PedidosDeNat
    <3>5. sem_ejecutar_query' + Cardinality(Esperan) + 1 <= sem_ejecutar_query + Cardinality(Esperan')
          /\ sem_ejecutar_query' + Cardinality(Esperan) <= sem_ejecutar_query + Cardinality(Esperan')
      BY <1>1, <2>1, <2>3
    <3>6. PedidosDe(w)' <= PedidosDe(w) \/ PedidosDe(w)' = PedidosDe(w) + 1
      BY <3>3, <3>4
    <3> QED
      BY <3>3, <3>5, <3>6, RelevosDe
  <2> QED
    BY <1>2, <2>4, <2>5 DEF Desalojar
<1>3. CASE Relevar(t)
  <2>1. /\ hilo[t].paso = "esperar" /\ UNCHANGED <<a_worker, a_master>>
        /\ sem_ejecutar_query > 0 /\ sem_ejecutar_query' = sem_ejecutar_query - 1
    BY <1>3 DEF Relevar, En, canales
  <2>2. PICK h \in Hilo : hilo' = [hilo EXCEPT ![t] = h] /\ h.paso = "enviar_relevo"
    BY <1>1, <1>3, <2>1, EsperaSana DEF Relevar
  <2>3. Cardinality(Esperan') = Cardinality(Esperan) - 1 /\ Cardinality(Esperan) \in Nat
    BY <1>1, <2>1, <2>2, EsperanTras, EsperanFinito DEF TypeOK, En
  <2>4. \A v \in Workers : PedidosDe(v)' = PedidosDe(v)
    BY <1>1, <2>1 DEF PedidosDe, Cuantos
  <2>5. sem_ejecutar_query' + Cardinality(Esperan) <= sem_ejecutar_query + Cardinality(Esperan')
    BY <1>1, <2>1, <2>3
  <2> QED
    BY <2>4, <2>5, RelevosQuietos
<1> QED
  BY <1>2, <1>3

\* What a Worker sends is read: an eviction lets one planner go on.
LEMMA RecibirRelevos ==
    ASSUME TypeOK, Sanos, TypeOK', Relevos, UNCHANGED <<control, enchufes>>, NEW w \in Workers,
           RecibirLectura(w) \/ RecibirFin(w) \/ DescartarFin(w) \/ RecibirDesalojo(w)
    PROVE  Relevos'
<1> DEFINE c == a_master[w]
           n == IF Head(c).tipo = "DESALOJO_QUERY" THEN 1 ELSE 0
           a == Cuantos(a_worker[w], "DESALOJAR_QUERY")
           e == IF escucha[w].paso = "espera" THEN 1 ELSE 0
<1>1. TiposMaster /\ w \in Hilos /\ sem_ejecutar_query \in Nat /\ UNCHANGED <<escucha, a_worker>>
      /\ hilo[w].paso = "libre" /\ c # <<>> /\ a_master' = [a_master EXCEPT ![w] = Tail(c)]
  BY PartesDelTipo DEF TiposMaster, Hilos, control, RecibirLectura, RecibirFin, DescartarFin,
     RecibirDesalojo, Lee, Llega, En
<1>2. sem_ejecutar_query' = sem_ejecutar_query + n
  BY <1>1 DEF RecibirLectura, RecibirFin, DescartarFin, RecibirDesalojo, Lee, Llega, master
<1>3. Cardinality(Esperan') = Cardinality(Esperan) /\ Cardinality(Esperan) \in Nat
  <2>1. CASE hilo' = hilo
    BY <2>1, EsperanFinito DEF Esperan, En
  <2>2. CASE Pasa(w, "planificar")
    <3>1. PICK h \in Hilo : hilo' = [hilo EXCEPT ![w] = h] /\ h.paso = "planificar"
      <4>1. "planificar" \in Pasos
        BY DEF Pasos
      <4> QED
        BY <1>1, <2>2, <4>1, PasaTipo
    <3> QED
      BY <1>1, <3>1, EsperanTras, EsperanFinito DEF TypeOK, En
  <2> QED
    BY <2>1, <2>2 DEF RecibirLectura, RecibirFin, DescartarFin, RecibirDesalojo, master, PlanificaAlTerminar
<1>4. \A v \in Workers : v # w => PedidosDe(v)' = PedidosDe(v)
  BY <1>1 DEF TypeOK, PedidosDe, Cuantos
<1>5. c \in Seq(HaciaMaster) /\ a_master'[w] = Tail(c)
  BY <1>1 DEF TypeOK
<1>6. /\ Cuantos(Tail(c), "DESALOJO_QUERY") = Cuantos(c, "DESALOJO_QUERY") - n
      /\ Cuantos(c, "DESALOJO_QUERY") \in Nat /\ a \in Nat
  BY <1>1, <1>5, CuantosLee, CuantosFinito DEF TypeOK
<1>7. PedidosDe(w) = a + Cuantos(c, "DESALOJO_QUERY") + e
  BY DEF PedidosDe
<1>8. PedidosDe(w)' = a + Cuantos(Tail(c), "DESALOJO_QUERY") + e
  BY <1>1, <1>5, PedidosDespues
<1>9. e \in Nat /\ n \in {0, 1}
  OBVIOUS
<1> HIDE DEF a, e, n, c
<1>10. PedidosDe(w)' = PedidosDe(w) - n /\ PedidosDe(w) \in Nat
  BY <1>6, <1>7, <1>8, <1>9
<1>11. \/ /\ PedidosDe(w)' <= PedidosDe(w)
          /\ sem_ejecutar_query' + Cardinality(Esperan) <= sem_ejecutar_query + Cardinality(Esperan')
       \/ /\ PedidosDe(w)' = PedidosDe(w) - 1
          /\ sem_ejecutar_query' + Cardinality(Esperan) <= sem_ejecutar_query + Cardinality(Esperan') + 1
  BY <1>1, <1>2, <1>3, <1>9, <1>10
<1> QED
  BY <1>4, <1>11, RelevosDe

\* Packets sent together have the types of each.
LEMMA ConcatSin ==
    ASSUME NEW T, NEW s \in Seq(T), NEW r \in Seq(T), NEW c,
           \A k \in 1 .. Len(s) : s[k].tipo # c, \A k \in 1 .. Len(r) : r[k].tipo # c
    PROVE  s \o r \in Seq(T) /\ \A k \in 1 .. Len(s \o r) : (s \o r)[k].tipo # c
<1>1. /\ s \o r \in Seq(T) /\ Len(s \o r) = Len(s) + Len(r) /\ Len(s) \in Nat /\ Len(r) \in Nat
      /\ \A k \in 1 .. Len(s) + Len(r) : (s \o r)[k] = IF k <= Len(s) THEN s[k] ELSE r[k - Len(s)]
  BY ConcatProperties, LenProperties
<1>2. \A k \in 1 .. Len(s) + Len(r) : k <= Len(s) => k \in 1 .. Len(s)
  BY <1>1
<1>3. \A k \in 1 .. Len(s) + Len(r) : ~ (k <= Len(s)) => k - Len(s) \in 1 .. Len(r)
  BY <1>1
<1> QED
  BY <1>1, <1>2, <1>3

\* A step of one Worker that answers no more evictions than it was asked for.
LEMMA ControlRelevos ==
    ASSUME TypeOK, TypeOK', Relevos, UNCHANGED master, NEW w \in Workers,
           \A v \in Workers : v # w => /\ a_worker'[v] = a_worker[v] /\ a_master'[v] = a_master[v]
                                       /\ escucha'[v] = escucha[v],
           PedidosDe(w)' <= PedidosDe(w)
    PROVE  Relevos'
<1>1. Cardinality(Esperan') = Cardinality(Esperan) /\ Cardinality(Esperan) \in Nat
  BY EsperanFinito DEF master, Esperan, En
<1>2. \A v \in Workers : v # w => PedidosDe(v)' = PedidosDe(v)
  BY DEF PedidosDe, Cuantos
<1>3. sem_ejecutar_query' + Cardinality(Esperan) <= sem_ejecutar_query + Cardinality(Esperan')
  BY <1>1 DEF TypeOK, master
<1> QED
  BY <1>2, <1>3, RelevosDe

\* A step of one Worker that sends packets other than the answer to an eviction.
LEMMA AvisarRelevos ==
    ASSUME TypeOK, TypeOK', Relevos, UNCHANGED <<master, a_worker, escucha>>, NEW w \in Workers,
           NEW r \in Seq(HaciaMaster), Avisar(w, r), \A k \in 1 .. Len(r) : r[k].tipo # "DESALOJO_QUERY"
    PROVE  Relevos'
<1> DEFINE c == a_master[w]
<1>1. c \in Seq(HaciaMaster) /\ a_master'[w] = c \o r
      /\ \A v \in Workers : v # w => a_master'[v] = a_master[v]
  BY DEF Avisar, TypeOK
<1>2. Cuantos(c \o r, "DESALOJO_QUERY") = Cuantos(c, "DESALOJO_QUERY")
  BY <1>1, CuantosAgrega
<1>3. PedidosDe(w)' = PedidosDe(w)
  BY <1>1, <1>2, PedidosDespues DEF PedidosDe
<1>4. PedidosDe(w)' <= PedidosDe(w)
  BY <1>3, PedidosDeNat
<1> QED
  BY <1>1, <1>4, ControlRelevos

\* The listener.
LEMMA EscucharRelevos ==
    ASSUME TypeOK, Sanos, TypeOK', Relevos, UNCHANGED <<master, enchufes>>, NEW w \in Workers, Escuchar(w)
    PROVE  Relevos'
<1> DEFINE c == a_worker[w]
           d == a_master[w]
           a == Cuantos(c, "DESALOJAR_QUERY")
           b == Cuantos(d, "DESALOJO_QUERY")
<1>1. c \in Seq(HaciaWorker) /\ d \in Seq(HaciaMaster) /\ a \in Nat /\ b \in Nat
  BY CuantosFinito DEF TypeOK
<1>2. PedidosDe(w) = a + b + (IF escucha[w].paso = "espera" THEN 1 ELSE 0)
  BY DEF PedidosDe
<1>3. CASE LeerEjecutar(w)
  <2>1. /\ c # <<>> /\ Head(c).tipo = "EJECUTAR_QUERY" /\ UNCHANGED <<escucha, a_master>>
        /\ a_worker' = [a_worker EXCEPT ![w] = Tail(c)]
    BY <1>3 DEF LeerEjecutar, Llega
  <2>2. Cuantos(Tail(c), "DESALOJAR_QUERY") = a
    BY <1>1, <2>1, CuantosLee
  <2>3. a_worker'[w] = Tail(c) /\ \A v \in Workers : v # w => a_worker'[v] = a_worker[v]
    BY <2>1 DEF TypeOK
  <2>4. PedidosDe(w)' <= PedidosDe(w)
    <3>1. PedidosDe(w)' = a + b + (IF escucha[w].paso = "espera" THEN 1 ELSE 0)
      BY <2>1, <2>2, <2>3, PedidosDespues
    <3> HIDE DEF a, b
    <3> QED
      BY <1>1, <1>2, <3>1
  <2> QED
    BY <2>1, <2>3, <2>4, ControlRelevos
<1>4. CASE LeerDesalojar(w)
  <2>1. /\ c # <<>> /\ Head(c).tipo = "DESALOJAR_QUERY" /\ UNCHANGED a_master
        /\ a_worker' = [a_worker EXCEPT ![w] = Tail(c)]
        /\ escucha[w].paso = "lee"
    BY <1>4 DEF LeerDesalojar, Llega, Escuchando
  <2> DEFINE e == [paso |-> "espera", query |-> Head(c).query]
  <2>5. escucha' = [escucha EXCEPT ![w] = e] /\ e.paso = "espera"
    BY <1>4 DEF LeerDesalojar
  <2> HIDE DEF e
  <2>2. Cuantos(Tail(c), "DESALOJAR_QUERY") = a - 1
    BY <1>1, <2>1, CuantosLee
  <2>3. /\ a_worker'[w] = Tail(c) /\ escucha'[w].paso = "espera"
        /\ \A v \in Workers : v # w => a_worker'[v] = a_worker[v] /\ escucha'[v] = escucha[v]
    BY <2>1, <2>5 DEF TypeOK
  <2>4. PedidosDe(w)' <= PedidosDe(w)
    <3>1. PedidosDe(w)' = (a - 1) + b + 1 /\ PedidosDe(w) = a + b + 0
      BY <1>2, <2>1, <2>2, <2>3, PedidosDespues
    <3> HIDE DEF a, b
    <3> QED
      BY <1>1, <3>1
  <2> QED
    BY <2>1, <2>3, <2>4, ControlRelevos
<1>5. ASSUME NEW n \in RechazosDesalojo, ResponderDesalojo(w, n) PROVE Relevos'
  <2> DEFINE q == escucha[w].query
             s == Rechazos(q, n)
             m == DesalojoQuery(q, pc_actual[w])
             r == Append(s, m)
  <2>1. q \in Queries /\ n \in Nat /\ pc_actual[w] \in 0 .. Lineas /\ escucha[w].paso = "espera"
    BY <1>5, ControlAssumption DEF ResponderDesalojo, Sanos, TypeOK
  <2>2. /\ s \in Seq(HaciaMaster) /\ Len(s) = n
        /\ \A k \in 1 .. n : s[k].tipo = "QUERY_FINALIZADA"
    BY <2>1, RechazosTipo
  <2>3. m \in HaciaMaster /\ m.tipo = "DESALOJO_QUERY"
    BY <2>1 DEF DesalojoQuery, HaciaMaster
  <2>4. a_master' = [a_master EXCEPT ![w] = d \o r]
    BY <1>5 DEF ResponderDesalojo, Avisar
  <2>5. UNCHANGED a_worker /\ escucha' = [escucha EXCEPT ![w] = Leyendo]
    BY <1>5 DEF ResponderDesalojo
  <2> HIDE DEF q, s, m
  <2>6. /\ r \in Seq(HaciaMaster) /\ Len(r) = n + 1 /\ r[n + 1] = m
        /\ \A k \in 1 .. n : r[k] = s[k]
    BY <2>2, <2>3, AppendProperties
  <2> HIDE DEF r
  <2>7. Len(r) # 0 /\ \A k \in 1 .. Len(r) : r[k].tipo = "DESALOJO_QUERY" <=> k = Len(r)
    <3>1. \A k \in 1 .. Len(r) : k \in 1 .. n \/ k = n + 1
      BY <2>1, <2>6
    <3>2. \A k \in 1 .. n : k # n + 1
      BY <2>1
    <3> QED
      BY <2>1, <2>2, <2>3, <2>6, <3>1, <3>2
  <2>8. Cuantos(d \o r, "DESALOJO_QUERY") = b + 1
    BY <1>1, <2>6, <2>7, CuantosAgrega
  <2>9. /\ a_master'[w] = d \o r /\ escucha'[w].paso = "lee"
        /\ \A v \in Workers : v # w => a_master'[v] = a_master[v] /\ escucha'[v] = escucha[v]
    BY <2>4, <2>5 DEF TypeOK, Leyendo
  <2>10. PedidosDe(w)' <= PedidosDe(w)
    <3>1. PedidosDe(w)' = a + (b + 1) + 0 /\ PedidosDe(w) = a + b + 1
      BY <1>2, <2>1, <2>5, <2>8, <2>9, PedidosDespues
    <3> HIDE DEF a, b
    <3> QED
      BY <1>1, <3>1
  <2> QED
    BY <2>5, <2>9, <2>10, ControlRelevos
<1> QED
  BY <1>3, <1>4, <1>5 DEF Escuchar

\* A query thread.
LEMMA EjecutarRelevos ==
    ASSUME TypeOK, TypeOK', Relevos, UNCHANGED <<master, enchufes>>, NEW w \in Workers, NEW q \in Queries,
           Ejecutar(w, q)
    PROVE  Relevos'
<1>1. PICK e \in ejecuciones[w] :
         \/ Comenzar(w, e) \/ Instruccion(w, e) \/ Ceder(w, e) \/ FinDeArchivo(w, e)
         \/ \E n \in RechazosInstruccion : InstruccionRechazada(w, e, n)
         \/ \E n \in RechazosEnd : End(w, e, n)
  BY DEF Ejecutar
<1>2. e.query \in Queries
  BY DEF TypeOK, Ejecucion
<1>3. ASSUME NEW l \in Lecturas(e) \union LecturasTardias(e)
      PROVE  l \in Seq(HaciaMaster) /\ \A k \in 1 .. Len(l) : l[k].tipo # "DESALOJO_QUERY"
  <2>1. l = <<>> \/ l = <<LecturaRealizada(e.query)>>
    BY DEF Lecturas, LecturasTardias
  <2>2. LecturaRealizada(e.query) \in HaciaMaster /\ LecturaRealizada(e.query).tipo = "LECTURA_REALIZADA"
    BY <1>2, LineasAssumption DEF LecturaRealizada, HaciaMaster
  <2> DEFINE m == LecturaRealizada(e.query)
  <2> HIDE DEF m
  <2>3. CASE l = <<>>
    BY <2>3
  <2>4. CASE l = <<m>>
    BY <2>2, <2>4 DEF m
  <2> QED
    BY <2>1, <2>3, <2>4 DEF m
<1>4. CASE Comenzar(w, e) \/ Ceder(w, e) \/ FinDeArchivo(w, e)
  <2>1. UNCHANGED <<a_worker, a_master, escucha>>
    BY <1>4 DEF Comenzar, Ceder, FinDeArchivo, canales
  <2>2. PedidosDe(w)' = PedidosDe(w)
    BY <2>1 DEF PedidosDe, Cuantos
  <2>3. PedidosDe(w)' <= PedidosDe(w)
    BY <2>2, PedidosDeNat
  <2> QED
    BY <2>1, <2>3, ControlRelevos
<1>5. CASE Instruccion(w, e)
  <2>1. PICK l \in Lecturas(e) : Avisar(w, l)
    BY <1>5 DEF Instruccion
  <2> QED
    BY <1>3, <1>5, <2>1, AvisarRelevos DEF Instruccion
<1>6. ASSUME NEW n \in RechazosInstruccion, InstruccionRechazada(w, e, n) PROVE Relevos'
  <2>1. PICK l \in Lecturas(e), t \in LecturasTardias(e) : Avisar(w, l \o Rechazos(e.query, n) \o t)
    BY <1>6 DEF InstruccionRechazada
  <2> DEFINE s == Rechazos(e.query, n)
             r == l \o s
             x == r \o t
  <2>2. /\ s \in Seq(HaciaMaster) /\ \A k \in 1 .. Len(s) : s[k].tipo # "DESALOJO_QUERY"
    BY <1>2, RechazosTipo, ControlAssumption
  <2>3. /\ l \in Seq(HaciaMaster) /\ \A k \in 1 .. Len(l) : l[k].tipo # "DESALOJO_QUERY"
        /\ t \in Seq(HaciaMaster) /\ \A k \in 1 .. Len(t) : t[k].tipo # "DESALOJO_QUERY"
    BY <1>3
  <2> HIDE DEF s
  <2>4. r \in Seq(HaciaMaster) /\ \A k \in 1 .. Len(r) : r[k].tipo # "DESALOJO_QUERY"
    BY <2>2, <2>3, ConcatSin
  <2> HIDE DEF r
  <2>5. x \in Seq(HaciaMaster) /\ \A k \in 1 .. Len(x) : x[k].tipo # "DESALOJO_QUERY"
    BY <2>3, <2>4, ConcatSin
  <2>6. Avisar(w, x)
    BY <2>1 DEF r, s
  <2> HIDE DEF x
  <2> QED
    BY <1>6, <2>5, <2>6, AvisarRelevos DEF InstruccionRechazada
<1>7. ASSUME NEW n \in RechazosEnd, End(w, e, n) PROVE Relevos'
  <2> DEFINE s == Rechazos(e.query, n)
             m == QueryFinalizada(e.query, "COMPLETADA")
             x == s \o <<m>>
  <2>1. s \in Seq(HaciaMaster) /\ \A k \in 1 .. Len(s) : s[k].tipo # "DESALOJO_QUERY"
    BY <1>2, RechazosTipo, ControlAssumption
  <2>2. m \in HaciaMaster /\ m.tipo = "QUERY_FINALIZADA"
    BY <1>2 DEF QueryFinalizada, HaciaMaster, Motivos
  <2>3. Avisar(w, Append(s, m))
    BY <1>7 DEF End
  <2> HIDE DEF s, m
  <2>4. <<m>> \in Seq(HaciaMaster) /\ Append(s, m) = x
        /\ \A k \in 1 .. Len(<<m>>) : <<m>>[k].tipo # "DESALOJO_QUERY"
    BY <2>1, <2>2, AppendProperties, ConcatProperties
  <2>5. x \in Seq(HaciaMaster) /\ \A k \in 1 .. Len(x) : x[k].tipo # "DESALOJO_QUERY"
    BY <2>1, <2>4, ConcatSin
  <2>6. Avisar(w, x)
    BY <2>3, <2>4
  <2> HIDE DEF x
  <2> QED
    BY <1>7, <2>5, <2>6, AvisarRelevos DEF End
<1> QED
  BY <1>1, <1>4, <1>5, <1>6, <1>7

\* A Worker that goes down takes with it the evictions it has not answered.
LEMMA CaerRelevos ==
    ASSUME TypeOK, TypeOK', Relevos, NEW w \in Workers, CaerConectado(w)
    PROVE  Relevos'
<1> DEFINE d == a_master[w]
<1>1. PICK s \in Entregado(w) : a_master' = [a_master EXCEPT ![w] = s]
  BY DEF CaerConectado, Caer
<1>2. s \in Seq(HaciaMaster) /\ Len(s) <= Len(d) /\ \A k \in 1 .. Len(s) : s[k] = d[k]
  BY EntregadoTipo
<1>3. d \in Seq(HaciaMaster) /\ a_worker[w] \in Seq(HaciaWorker) /\ <<>> \in Seq(HaciaWorker)
  BY EmptySeq DEF TypeOK
<1>4. Cuantos(s, "DESALOJO_QUERY") <= Cuantos(d, "DESALOJO_QUERY")
  BY <1>2, <1>3, CuantosPierde
<1>5. /\ Cuantos(s, "DESALOJO_QUERY") \in Nat /\ Cuantos(d, "DESALOJO_QUERY") \in Nat
      /\ Cuantos(a_worker[w], "DESALOJAR_QUERY") \in Nat
  BY <1>2, <1>3, CuantosFinito
<1>6. Cuantos(<<>>, "DESALOJAR_QUERY") = 0
  BY <1>3, CuantosFinito
<1>7. UNCHANGED master /\ a_worker' = [a_worker EXCEPT ![w] = <<>>]
      /\ escucha' = [escucha EXCEPT ![w] = Leyendo]
  BY DEF CaerConectado, Caer
<1>8. /\ a_master'[w] = s /\ a_worker'[w] = <<>> /\ escucha'[w].paso = "lee"
      /\ \A v \in Workers : v # w => /\ a_worker'[v] = a_worker[v] /\ a_master'[v] = a_master[v]
                                     /\ escucha'[v] = escucha[v]
  BY <1>1, <1>7 DEF TypeOK, Leyendo
<1>9. PedidosDe(w)' = 0 + Cuantos(s, "DESALOJO_QUERY") + 0
  BY <1>6, <1>8, PedidosDespues
<1>10. PedidosDe(w) = Cuantos(a_worker[w], "DESALOJAR_QUERY") + Cuantos(d, "DESALOJO_QUERY")
                      + (IF escucha[w].paso = "espera" THEN 1 ELSE 0)
  BY DEF PedidosDe
<1> HIDE DEF d
<1>11. PedidosDe(w)' <= PedidosDe(w)
  BY <1>4, <1>5, <1>9, <1>10
<1> QED
  BY <1>7, <1>8, <1>11, ControlRelevos

LEMMA PasoRelevos ==
    TypeOK /\ Sanos /\ Ubicadas /\ TypeOK' /\ Relevos /\ [Next]_vars => Relevos'
<1> SUFFICES ASSUME TypeOK, Sanos, Ubicadas, TypeOK', Relevos, [Next]_vars PROVE Relevos'
  OBVIOUS
<1>1. CASE NextMaster /\ UNCHANGED <<control, enchufes>>
  <2>1. ASSUME NEW t \in Hilos, Planificacion(t) PROVE Relevos'
    BY <1>1, <2>1, PlanificarRelevos, EnviarRelevos, DesalojarRelevos DEF Planificacion
  <2>2. ASSUME NEW w \in Workers, RecibirLectura(w) \/ RecibirFin(w) \/ DescartarFin(w) \/ RecibirDesalojo(w)
        PROVE  Relevos'
    BY <1>1, <2>2, RecibirRelevos
  <2>3. CASE \/ \E q \in Queries : Envejecer(q) \/ \E p \in Prioridades : ConectarQuery(q, p)
             \/ \E w \in Workers : \/ ConectarWorker(w) \/ IniciarSemaforo(w)
                                   \/ Desconectar(w) \/ FinalizarQueryDe(w)
    BY <1>1, <2>3, ConectarRelevos
  <2> QED
    BY <1>1, <2>1, <2>2, <2>3 DEF NextMaster, Lectura
<1>2. CASE NextControl /\ UNCHANGED <<master, enchufes>>
  BY <1>2, EscucharRelevos, EjecutarRelevos DEF NextControl
<1>3. ASSUME NEW w \in Workers, CaerConectado(w) PROVE Relevos'
  BY <1>3, CaerRelevos
<1>4. CASE UNCHANGED <<master, control, canales>>
  <2>1. \A v \in Workers : PedidosDe(v)' = PedidosDe(v)
    BY <1>4 DEF control, canales, PedidosDe, Cuantos
  <2>2. Cardinality(Esperan') = Cardinality(Esperan) /\ Cardinality(Esperan) \in Nat
    BY <1>4, EsperanFinito DEF master, Esperan, En
  <2>3. sem_ejecutar_query' + Cardinality(Esperan) <= sem_ejecutar_query + Cardinality(Esperan')
    BY <1>4, <2>2 DEF TypeOK, master
  <2> QED
    BY <2>1, <2>3, RelevosQuietos
<1> QED
  BY <1>1, <1>2, <1>3, <1>4 DEF Next, Rearrancar, vars

LEMMA InitRelevos == Init => Relevos
<1> SUFFICES ASSUME Init PROVE Relevos
  OBVIOUS
<1>1. TypeOK
  BY InitTipos
<1>2. \A w \in Workers : PedidosDe(w) = 0
  <2>1. <<>> \in Seq(HaciaWorker) /\ <<>> \in Seq(HaciaMaster)
    BY EmptySeq
  <2>2. Cuantos(<<>>, "DESALOJAR_QUERY") = 0 /\ Cuantos(<<>>, "DESALOJO_QUERY") = 0
    BY <2>1, CuantosFinito
  <2> QED
    BY <2>2 DEF Init, InitCanales, InitControl, Leyendo, PedidosDe
<1>3. Pedidos = {}
  BY <1>2 DEF Pedidos
<1>4. IsFiniteSet(Pedidos) /\ Cardinality(Pedidos) = 0
  BY <1>3, FS_EmptySet
<1>5. sem_ejecutar_query = 0
  BY DEF Init, InitMaster
<1> QED
  BY <1>1, <1>4, <1>5, RelevosSuma DEF Relevos

\* sem_ejecutar_query, which every Worker that connects sets back to zero and
\* which all the planners share, never lets a planner go on without an eviction
\* that somebody asked for.
THEOREM UnRelevoPorCadaDesalojo == Spec => []UnRelevoPorDesalojo
<1>1. Init => Ubicadas /\ Relevos
  BY InitUbica, InitRelevos
<1>2. TypeOK /\ Sanos /\ Ubicadas /\ [Next]_vars => Ubicadas'
  BY PasoUbica
<1>3. TypeOK /\ Sanos /\ Ubicadas /\ TypeOK' /\ Relevos /\ [Next]_vars => Relevos'
  BY PasoRelevos
<1>4. Relevos => UnRelevoPorDesalojo
  BY DEF Relevos
<1> QED
  BY <1>1, <1>2, <1>3, <1>4, TiposSistema, PTL DEF Spec
=============================================================================
