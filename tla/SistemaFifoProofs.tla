--------------------------- MODULE SistemaFifoProofs ----------------------------
(* FIFO, proved: one query for each Worker, none left on a Worker that is     *)
(* gone, and what a Query Control gets. The first two fail with PRIORIDADES.  *)
EXTENDS SistemaProofs

\* A planner that has taken mutex_planificacion and not let it go: among them the
\* one that plans again because a packet could not be sent.
Dentro(h) == h.paso \in {"asignar", "enviar", "soltar"} \/ h.pila # <<>>

Exclusion ==
    \A t \in Hilos :
        /\ Dentro(hilo[t]) => mutex_planificacion = TRUE /\ \A u \in Hilos : Dentro(hilo[u]) => u = t
        /\ hilo[t].pila # <<>> => hilo[t].paso = "planificar"

\* The list of Workers and what their readers think of it.
Conectados ==
    /\ IsInjective(lista_workers_info) /\ disponible \subseteq ToSet(lista_workers_info)
    /\ \A w \in Workers :
          /\ hilo[w].paso \in {"libre", "semaforo"} => w \in ToSet(lista_workers_info)
          /\ hilo[w].paso \in {"fuera", "desconectar"} => w \notin ToSet(lista_workers_info)

\* EXEC and the Workers.
UnaCadaUna ==
    \A q, p \in ToSet(queries_exec) : query[q].worker = query[p].worker => q = p

LibresVacios == \A w \in disponible : \A q \in ToSet(queries_exec) : query[q].worker # w

\* The Worker chosen for a query is still free of others, and connected or not
\* forgotten yet: nobody else can have it, not even if its id is read wrong.
PorAsignar ==
    \A t \in Hilos : hilo[t].paso = "asignar" =>
        /\ hilo[t].worker \notin disponible /\ hilo[hilo[t].worker].paso # "fuera"
        /\ \A q \in ToSet(queries_exec) : query[q].worker \notin {hilo[t].worker, SinWorker}

PorEnviar ==
    \A t \in Hilos : hilo[t].paso = "enviar" =>
        /\ hilo[t].worker # SinWorker => hilo[hilo[t].worker].paso # "fuera"
        /\ \A q \in ToSet(queries_exec) : q = hilo[t].query <=> query[q].worker = hilo[t].worker

ConDestino ==
    \A q \in ToSet(queries_exec) :
        \/ query[q].worker \in ToSet(lista_workers_info)
        \/ \E t \in Hilos : hilo[t].query = q /\ hilo[t].paso = "enviar"
        \/ query[q].worker \in Workers /\ hilo[query[q].worker].paso = "desconectar"

Repartidas == UnaCadaUna /\ LibresVacios /\ PorAsignar /\ PorEnviar /\ ConDestino

Fifo == Exclusion /\ Conectados /\ Repartidas

\* What every step starts from.
Parte == TypeOK /\ Sanos /\ Ubicadas /\ Relevos

-----------------------------------------------------------------------------
\* With FIFO nobody is ever told to evict a query.
LEMMA SinDesalojos ==
    ASSUME Parte, algoritmo = "FIFO", NEW w \in Workers
    PROVE  ~ Llega(a_master[w], "DESALOJO_QUERY")
<1>1. Esperan = {}
  BY DEF Parte, Sanos, HiloSano, Esperan, En
<1>2. Cardinality(Esperan) = 0
  BY <1>1, FS_EmptySet
<1>3. /\ IsFiniteSet(Pedidos) /\ Cardinality(Pedidos) \in Nat /\ sem_ejecutar_query \in Nat
      /\ sem_ejecutar_query + Cardinality(Pedidos) <= Cardinality(Esperan)
  BY RelevosSuma DEF Parte, Relevos
<1>4. Cardinality(Pedidos) = 0
  BY <1>2, <1>3
<1>5. Pedidos = {}
  BY <1>3, <1>4, FS_EmptySet
<1>6. PedidosDe(w) \in Nat
  BY PedidosDeNat DEF Parte
<1>7. \A k \in 1 .. PedidosDe(w) : <<w, k>> \in Pedidos
  BY DEF Pedidos
<1>8. PedidosDe(w) = 0
  BY <1>5, <1>6, <1>7
<1> DEFINE K == {k \in DOMAIN a_master[w] : a_master[w][k].tipo = "DESALOJO_QUERY"}
<1>9. a_master[w] \in Seq(HaciaMaster) /\ a_worker[w] \in Seq(HaciaWorker)
  BY DEF Parte, TypeOK
<1>10. IsFiniteSet(K) /\ Cuantos(a_master[w], "DESALOJO_QUERY") = Cardinality(K)
       /\ Cuantos(a_master[w], "DESALOJO_QUERY") \in Nat /\ Cuantos(a_worker[w], "DESALOJAR_QUERY") \in Nat
  BY <1>9, CuantosFinito DEF Cuantos
<1>11. Cuantos(a_master[w], "DESALOJO_QUERY") = 0
  BY <1>8, <1>10 DEF PedidosDe
<1>12. K = {}
  BY <1>10, <1>11, FS_EmptySet
<1>13. ASSUME Llega(a_master[w], "DESALOJO_QUERY") PROVE FALSE
  <2>1. 1 \in DOMAIN a_master[w] /\ Head(a_master[w]) = a_master[w][1]
    BY <1>9, <1>13, EmptySeq, LenProperties, HeadTailProperties DEF Llega
  <2>2. 1 \in K
    BY <1>13, <2>1 DEF Llega
  <2> QED
    BY <1>12, <2>2
<1> QED
  BY <1>13

\* mutex_planificacion lets one planner in.
LEMMA ExclusionSigue ==
    ASSUME Exclusion, hilo \in [Hilos -> Hilo], mutex_planificacion \in BOOLEAN, NEW t \in Hilos, NEW h,
           hilo' = [hilo EXCEPT ![t] = h], h.pila # <<>> => h.paso = "planificar",
           \/ ~Dentro(h) /\ mutex_planificacion' = mutex_planificacion
           \/ ~Dentro(h) /\ Dentro(hilo[t])
           \/ /\ Dentro(h) /\ mutex_planificacion' = TRUE
              /\ ~mutex_planificacion \/ Dentro(hilo[t])
    PROVE  Exclusion'
<1>1. \A u \in Hilos : hilo'[u] = IF u = t THEN h ELSE hilo[u]
  OBVIOUS
<1>2. \A u \in Hilos : Dentro(hilo[u]) => mutex_planificacion = TRUE
                                          /\ \A v \in Hilos : Dentro(hilo[v]) => v = u
  BY DEF Exclusion
<1>3. \A u \in Hilos : Dentro(hilo'[u]) <=> IF u = t THEN Dentro(h) ELSE Dentro(hilo[u])
  BY <1>1
<1>4. \A u \in Hilos : Dentro(hilo'[u]) => mutex_planificacion' = TRUE
                                           /\ \A v \in Hilos : Dentro(hilo'[v]) => v = u
  <2>1. CASE ~Dentro(h) /\ mutex_planificacion' = mutex_planificacion
    BY <1>2, <1>3, <2>1
  <2>2. CASE ~Dentro(h) /\ Dentro(hilo[t])
    BY <1>2, <1>3, <2>2
  <2>3. CASE Dentro(h) /\ mutex_planificacion' = TRUE /\ (~mutex_planificacion \/ Dentro(hilo[t]))
    BY <1>2, <1>3, <2>3
  <2> QED
    BY <2>1, <2>2, <2>3
<1>5. \A u \in Hilos : hilo'[u].pila # <<>> => hilo'[u].paso = "planificar"
  BY <1>1 DEF Exclusion
<1> QED
  BY <1>4, <1>5 DEF Exclusion, Dentro

LEMMA ConectadosSiguen ==
    ASSUME Conectados, hilo \in [Hilos -> Hilo], NEW t \in Hilos, NEW h, hilo' = [hilo EXCEPT ![t] = h],
           lista_workers_info' = lista_workers_info, disponible' \subseteq ToSet(lista_workers_info),
           t \in Workers =>
              /\ h.paso \in {"libre", "semaforo"} => t \in ToSet(lista_workers_info)
              /\ h.paso \in {"fuera", "desconectar"} => t \notin ToSet(lista_workers_info)
    PROVE  Conectados'
<1>1. \A u \in Hilos : hilo'[u] = IF u = t THEN h ELSE hilo[u]
  OBVIOUS
<1>2. \A w \in Workers : w \in Hilos
  BY DEF Hilos
<1> QED
  BY <1>1, <1>2 DEF Conectados

\* The steps that put no query in EXEC and choose no Worker: what is left in EXEC
\* stays where it was, and what the step frees was not in use.
LEMMA RepartidasSiguen ==
    ASSUME Parte, Repartidas, NEW t \in Hilos, NEW h, hilo' = [hilo EXCEPT ![t] = h],
           h.paso \notin {"asignar", "enviar"},
           ToSet(queries_exec') \subseteq ToSet(queries_exec),
           \A q \in ToSet(queries_exec') : query'[q].worker = query[q].worker,
           \A w \in disponible' : \/ w \in disponible
                                  \/ /\ \A q \in ToSet(queries_exec') : query[q].worker # w
                                     /\ \A u \in Hilos : u # t /\ hilo[u].paso = "asignar" =>
                                           hilo[u].worker # w,
           h.paso = "fuera" => \A u \in Hilos : u # t => hilo[u].paso \notin {"asignar", "enviar"},
           \A w \in ToSet(lista_workers_info) :
              \/ w \in ToSet(lista_workers_info')
              \/ w = t /\ t \in Workers /\ h.paso = "desconectar",
           hilo[t].paso = "enviar" =>
              \A q \in ToSet(queries_exec') :
                 q = hilo[t].query => query[q].worker \in ToSet(lista_workers_info'),
           hilo[t].paso = "desconectar" => \A q \in ToSet(queries_exec') : query[q].worker # t
    PROVE  Repartidas'
<1> DEFINE X == ToSet(queries_exec')
<1>1. /\ \A u \in Hilos : hilo'[u] = IF u = t THEN h ELSE hilo[u]
      /\ Workers \subseteq Hilos
      /\ \A u \in Hilos : hilo[u].worker \in Workers \union {SinWorker}
      /\ \A u \in Hilos : hilo[u].paso = "asignar" => hilo[u].worker \in Workers
  BY DEF Parte, TypeOK, Hilo, Hilos, Sanos, HiloSano
<1>2. X \subseteq ToSet(queries_exec) /\ \A q \in X : query'[q].worker = query[q].worker
  OBVIOUS
<1>3. \A q, p \in X : query'[q].worker = query'[p].worker => q = p
  BY <1>2 DEF Repartidas, UnaCadaUna
<1>4. \A w \in disponible' : \A q \in X : query'[q].worker # w
  BY <1>2 DEF Repartidas, LibresVacios
<1>5. ASSUME NEW u \in Hilos, hilo'[u].paso = "asignar"
      PROVE  /\ hilo'[u].worker \notin disponible' /\ hilo'[hilo'[u].worker].paso # "fuera"
             /\ \A q \in X : query'[q].worker \notin {hilo'[u].worker, SinWorker}
  <2> DEFINE w == hilo[u].worker
  <2>1. u # t /\ hilo[u].paso = "asignar" /\ hilo'[u].worker = w /\ w \in Workers
    BY <1>1, <1>5
  <2>2. /\ w \notin disponible /\ hilo[w].paso # "fuera"
        /\ \A q \in ToSet(queries_exec) : query[q].worker \notin {w, SinWorker}
    BY <2>1 DEF Repartidas, PorAsignar
  <2>3. hilo'[w].paso # "fuera"
    BY <1>1, <2>1, <2>2
  <2> QED
    BY <1>2, <2>1, <2>2, <2>3
<1>6. ASSUME NEW u \in Hilos, hilo'[u].paso = "enviar"
      PROVE  /\ hilo'[u].worker # SinWorker => hilo'[hilo'[u].worker].paso # "fuera"
             /\ \A q \in X : q = hilo'[u].query <=> query'[q].worker = hilo'[u].worker
  <2> DEFINE w == hilo[u].worker
  <2>1. /\ u # t /\ hilo[u].paso = "enviar" /\ hilo'[u].worker = w /\ hilo'[u].query = hilo[u].query
        /\ w \in Workers \union {SinWorker}
    BY <1>1, <1>6
  <2>2. /\ w # SinWorker => hilo[w].paso # "fuera"
        /\ \A q \in ToSet(queries_exec) : q = hilo[u].query <=> query[q].worker = w
    BY <2>1 DEF Repartidas, PorEnviar
  <2>3. w # SinWorker => hilo'[w].paso # "fuera"
    BY <1>1, <2>1, <2>2
  <2> QED
    BY <1>2, <2>1, <2>2, <2>3
<1>7. ASSUME NEW q \in X
      PROVE  \/ query'[q].worker \in ToSet(lista_workers_info')
             \/ \E u \in Hilos : hilo'[u].query = q /\ hilo'[u].paso = "enviar"
             \/ query'[q].worker \in Workers /\ hilo'[query'[q].worker].paso = "desconectar"
  <2> DEFINE w == query[q].worker
  <2>1. \/ w \in ToSet(lista_workers_info)
        \/ \E u \in Hilos : hilo[u].query = q /\ hilo[u].paso = "enviar"
        \/ w \in Workers /\ hilo[w].paso = "desconectar"
    BY <1>2 DEF Repartidas, ConDestino
  <2>2. query'[q].worker = w
    BY <1>2
  <2>3. CASE w \in ToSet(lista_workers_info)
    BY <1>1, <2>2, <2>3
  <2>4. ASSUME NEW u \in Hilos, hilo[u].query = q, hilo[u].paso = "enviar"
        PROVE  \/ w \in ToSet(lista_workers_info')
               \/ \E v \in Hilos : hilo'[v].query = q /\ hilo'[v].paso = "enviar"
    BY <1>1, <2>4
  <2>5. CASE w \in Workers /\ hilo[w].paso = "desconectar"
    BY <1>1, <2>2, <2>5
  <2> QED
    BY <2>1, <2>2, <2>3, <2>4, <2>5
<1> QED
  BY <1>3, <1>4, <1>5, <1>6, <1>7
     DEF Repartidas, UnaCadaUna, LibresVacios, PorAsignar, PorEnviar, ConDestino

\* Nobody else has a Worker chosen or a packet to send while a planner is in.
LEMMA NadieMas ==
    ASSUME Exclusion, NEW t \in Hilos, ~mutex_planificacion \/ Dentro(hilo[t])
    PROVE  /\ \A u \in Hilos : u # t => hilo[u].paso \notin {"asignar", "enviar"} /\ ~Dentro(hilo[u])
           /\ ~mutex_planificacion => hilo[t].pila = <<>>
           /\ hilo[t].paso # "planificar" => hilo[t].pila = <<>>
BY DEF Exclusion, Dentro

\* With its planner done a thread waits for work, or ends if its Worker is gone.
LEMMA RegresoSuelto ==
    ASSUME NEW t \in Hilos, hilo[t].pila = <<>>
    PROVE  \E h : /\ Regreso(t) = [hilo EXCEPT ![t] = h]
                  /\ h.pila = <<>> /\ h.paso \in {"fuera", "libre"} /\ ~Dentro(h)
                  /\ t \in Workers => /\ h.paso \in {"libre", "semaforo"} => t \in ToSet(lista_workers_info)
                                      /\ h.paso \in {"fuera", "desconectar"} => t \notin ToSet(lista_workers_info)
<1>1. Regreso(t) = [hilo EXCEPT ![t] = Suelto(t)]
  BY DEF Regreso
<1>2. /\ Suelto(t).pila = <<>> /\ Suelto(t).paso \in {"fuera", "libre"}
      /\ t \in Workers => /\ Suelto(t).paso = "libre" => t \in ToSet(lista_workers_info)
                          /\ Suelto(t).paso = "fuera" => t \notin ToSet(lista_workers_info)
  BY DEF Suelto, Afuera
<1> DEFINE h == Suelto(t)
<1> HIDE DEF h
<1>3. /\ Regreso(t) = [hilo EXCEPT ![t] = h] /\ h.pila = <<>> /\ h.paso \in {"fuera", "libre"}
      /\ t \in Workers => /\ h.paso = "libre" => t \in ToSet(lista_workers_info)
                          /\ h.paso = "fuera" => t \notin ToSet(lista_workers_info)
  BY <1>1, <1>2 DEF h
<1> QED
  BY <1>3 DEF Dentro

\* The planner takes a free Worker: it has no query, and until it has one
\* nobody else may take it.
LEMMA TomaFifo ==
    ASSUME Parte, Fifo, NEW t \in Hilos, NEW q \in Queries, NEW w \in Workers, Toma(t, q, w),
           hilo[t].paso = "planificar", ~mutex_planificacion, mutex_planificacion' = TRUE,
           w \in disponible, w \in ToSet(lista_workers_info),
           UNCHANGED <<query, queries_exec, lista_workers_info>>
    PROVE  Fifo'
<1>1. /\ hilo \in [Hilos -> Hilo] /\ mutex_planificacion \in BOOLEAN /\ Workers \subseteq Hilos
      /\ SinWorker \notin Workers /\ ToSet(lista_workers_info) \subseteq Workers
  BY ElementosLista, MasterAssumption DEF Parte, TypeOK, Hilos
<1>2. hilo[t].pila = <<>> /\ \A u \in Hilos : hilo[u].paso \notin {"asignar", "enviar"}
  BY NadieMas DEF Fifo
<1> DEFINE h == [hilo[t] EXCEPT !.paso = "asignar", !.query = q, !.worker = w]
<1>3. h.paso = "asignar" /\ h.query = q /\ h.worker = w /\ h.pila = <<>>
  BY <1>1, <1>2 DEF Hilo
<1>4. hilo' = [hilo EXCEPT ![t] = h] /\ disponible' = disponible \ {w}
  BY <1>1 DEF Toma
<1> HIDE DEF h
<1>5. Exclusion'
  BY <1>1, <1>3, <1>4, ExclusionSigue DEF Fifo, Dentro
<1>6. Conectados'
  BY <1>1, <1>3, <1>4, ConectadosSiguen DEF Fifo, Conectados
<1>7. \A u \in Hilos : hilo'[u] = IF u = t THEN h ELSE hilo[u]
  BY <1>1, <1>4
<1>8. \A x \in ToSet(queries_exec) : query[x].worker \notin {w, SinWorker}
  BY <1>1, <1>2 DEF Fifo, Repartidas, LibresVacios, ConDestino
<1>9. PorAsignar'
  <2>1. hilo'[w].paso # "fuera"
    BY <1>1, <1>3, <1>7 DEF Fifo, Conectados
  <2> QED
    BY <1>2, <1>3, <1>4, <1>7, <1>8, <2>1 DEF PorAsignar
<1>10. PorEnviar'
  BY <1>2, <1>3, <1>7 DEF PorEnviar
<1>11. UnaCadaUna' /\ LibresVacios'
  BY <1>4 DEF Fifo, Repartidas, UnaCadaUna, LibresVacios
<1>12. ConDestino'
  <2>1. \A x \in ToSet(queries_exec) :
           \/ query[x].worker \in ToSet(lista_workers_info)
           \/ query[x].worker \in Workers /\ hilo[query[x].worker].paso = "desconectar"
    BY <1>2 DEF Fifo, Repartidas, ConDestino
  <2>2. \A v \in Workers : hilo[v].paso = "desconectar" => hilo'[v].paso = "desconectar"
    BY <1>1, <1>7
  <2> QED
    BY <2>1, <2>2 DEF ConDestino
<1> QED
  BY <1>5, <1>6, <1>9, <1>10, <1>11, <1>12 DEF Fifo, Repartidas

\* The query goes to EXEC on the Worker chosen for it, or on none if its id was
\* read wrong: either way no other query is there.
LEMMA PasarAExecFifo ==
    ASSUME Parte, Fifo, NEW t \in Hilos, PasarAExec(t)
    PROVE  Fifo'
<1> DEFINE q == hilo[t].query
           m == hilo[t].worker
<1>1. /\ hilo \in [Hilos -> Hilo] /\ mutex_planificacion \in BOOLEAN /\ Workers \subseteq Hilos
      /\ SinWorker \notin Workers /\ hilo[t].paso = "asignar" /\ q \in Queries /\ m \in Workers
      /\ q # SinQuery /\ disponible \subseteq Workers
  BY MasterAssumption DEF Parte, TypeOK, Hilos, PasarAExec, En, Sanos, HiloSano
<1>2. hilo[t].pila = <<>> /\ Dentro(hilo[t]) /\ mutex_planificacion = TRUE
      /\ \A u \in Hilos : u # t => hilo[u].paso \notin {"asignar", "enviar"}
  BY <1>1, NadieMas DEF Fifo, Dentro, Exclusion
<1>3. PICK w \in Leido(m) :
         /\ query' = [query EXCEPT ![q].estado = "EXEC", ![q].worker = w, ![q].desalojada = FALSE]
         /\ hilo' = [hilo EXCEPT ![t].paso = "enviar", ![t].worker = w]
  BY DEF PasarAExec
<1>4. w \in {m, SinWorker}
  BY DEF Leido
<1>5. q \notin ToSet(queries_exec)
  BY <1>1 DEF Parte, Ubicadas, Llevadas, Lleva
<1>6. /\ queries_exec' = Append(queries_exec, q) /\ disponible' = disponible
      /\ lista_workers_info' = lista_workers_info /\ mutex_planificacion' = mutex_planificacion
  BY DEF PasarAExec
<1>7. /\ m \notin disponible /\ hilo[m].paso # "fuera"
      /\ \A x \in ToSet(queries_exec) : query[x].worker \notin {m, SinWorker}
  BY <1>1 DEF Fifo, Repartidas, PorAsignar
<1> DEFINE h == [hilo[t] EXCEPT !.paso = "enviar", !.worker = w]
<1>8. h.paso = "enviar" /\ h.query = q /\ h.worker = w /\ h.pila = <<>>
  BY <1>1, <1>2 DEF Hilo
<1>9. hilo' = [hilo EXCEPT ![t] = h]
  BY <1>1, <1>3
<1> HIDE DEF h
<1>10. Exclusion'
  BY <1>1, <1>2, <1>6, <1>8, <1>9, ExclusionSigue DEF Fifo, Dentro
<1>11. Conectados'
  BY <1>1, <1>6, <1>8, <1>9, ConectadosSiguen DEF Fifo, Conectados
<1>12. \A u \in Hilos : hilo'[u] = IF u = t THEN h ELSE hilo[u]
  BY <1>1, <1>9
<1> HIDE DEF q, m
<1>13. ToSet(queries_exec') = ToSet(queries_exec) \union {q} /\ ToSet(queries_exec) \subseteq Queries
  BY <1>1, <1>6, AgregarLista, ElementosLista DEF Parte, TypeOK
<1>14. query'[q].worker = w /\ \A x \in Queries : x # q => query'[x].worker = query[x].worker
  BY <1>1, <1>3 DEF Parte, TypeOK, Query
<1>15. \A x \in ToSet(queries_exec') : x = q <=> query'[x].worker = w
  BY <1>4, <1>5, <1>7, <1>13, <1>14
<1>16. UnaCadaUna'
  BY <1>5, <1>13, <1>14, <1>15 DEF Fifo, Repartidas, UnaCadaUna
<1>17. LibresVacios'
  BY <1>1, <1>4, <1>5, <1>6, <1>7, <1>13, <1>14 DEF Fifo, Repartidas, LibresVacios
<1>18. PorAsignar'
  BY <1>2, <1>8, <1>12 DEF PorAsignar
<1>19. PorEnviar'
  <2>1. w # SinWorker => hilo'[w].paso # "fuera"
    BY <1>1, <1>4, <1>7, <1>8, <1>12
  <2> QED
    BY <1>2, <1>8, <1>12, <1>15, <2>1 DEF PorEnviar
<1>20. ConDestino'
  <2>1. \A x \in ToSet(queries_exec) :
           \/ query[x].worker \in ToSet(lista_workers_info)
           \/ query[x].worker \in Workers /\ hilo[query[x].worker].paso = "desconectar"
    BY <1>1, <1>2 DEF Fifo, Repartidas, ConDestino
  <2>2. \A v \in Workers : hilo[v].paso = "desconectar" => hilo'[v].paso = "desconectar"
    BY <1>1, <1>12
  <2>3. hilo'[t].query = q /\ hilo'[t].paso = "enviar"
    BY <1>8, <1>12
  <2>4. \A x \in ToSet(queries_exec') : x = q \/ (x \in ToSet(queries_exec) /\ query'[x].worker = query[x].worker)
    BY <1>13, <1>14
  <2> QED
    BY <1>6, <2>1, <2>2, <2>3, <2>4 DEF ConDestino
<1> QED
  BY <1>10, <1>11, <1>16, <1>17, <1>18, <1>19, <1>20 DEF Fifo, Repartidas

\* A planner that is done, with its mutex let go.
LEMMA RegresoFifo ==
    ASSUME Parte, Fifo, NEW t \in Hilos, hilo' = Regreso(t), hilo[t].pila = <<>>,
           UNCHANGED <<query, disponible, queries_exec, lista_workers_info>>,
           hilo[t].paso # "desconectar",
           \/ ~mutex_planificacion /\ mutex_planificacion' = mutex_planificacion
           \/ Dentro(hilo[t]) /\ mutex_planificacion' = FALSE,
           hilo[t].paso = "enviar" => hilo[t].worker \in ToSet(lista_workers_info)
    PROVE  Fifo'
<1>1. hilo \in [Hilos -> Hilo] /\ mutex_planificacion \in BOOLEAN
  BY DEF Parte, TypeOK
<1>2. PICK h : /\ hilo' = [hilo EXCEPT ![t] = h]
               /\ h.pila = <<>> /\ h.paso \in {"fuera", "libre"} /\ ~Dentro(h)
               /\ t \in Workers => /\ h.paso \in {"libre", "semaforo"} => t \in ToSet(lista_workers_info)
                                   /\ h.paso \in {"fuera", "desconectar"} => t \notin ToSet(lista_workers_info)
  BY RegresoSuelto
<1>3. Exclusion'
  BY <1>1, <1>2, ExclusionSigue DEF Fifo
<1>4. Conectados'
  BY <1>1, <1>2, ConectadosSiguen DEF Fifo, Conectados
<1>5. \A u \in Hilos : u # t => hilo[u].paso \notin {"asignar", "enviar"}
  BY NadieMas DEF Fifo
<1>6. hilo[t].paso = "enviar" =>
         \A q \in ToSet(queries_exec) :
            q = hilo[t].query => query[q].worker \in ToSet(lista_workers_info)
  BY DEF Fifo, Repartidas, PorEnviar
<1>7. Repartidas'
  BY <1>2, <1>5, <1>6, RepartidasSiguen DEF Fifo
<1> QED
  BY <1>3, <1>4, <1>7 DEF Fifo

LEMMA PlanificarFifoSigue ==
    ASSUME Parte, Fifo, NEW t \in Hilos, PlanificarFifo(t)
    PROVE  Fifo'
<1>1. TiposMaster /\ hilo[t].paso = "planificar" /\ ~mutex_planificacion
  BY PartesDelTipo DEF Parte, PlanificarFifo, En
<1>2. hilo[t].pila = <<>>
  BY <1>1, NadieMas DEF Fifo
<1>3. CASE /\ queries_ready # <<>> /\ HayWorker
           /\ Toma(t, Head(queries_ready), WorkerDisponible)
           /\ mutex_planificacion' = TRUE
  <2>1. Head(queries_ready) \in Queries
    BY <1>1, <1>3, HeadTailProperties, EmptySeq DEF TiposMaster
  <2>2. /\ WorkerDisponible \in disponible /\ WorkerDisponible \in ToSet(lista_workers_info)
        /\ WorkerDisponible \in Workers
    BY <1>1, <1>3, WorkerDisponibleHay
  <2>3. UNCHANGED <<query, queries_exec, lista_workers_info>>
    BY DEF PlanificarFifo
  <2> DEFINE q == Head(queries_ready)
             w == WorkerDisponible
  <2>4. Toma(t, q, w)
    BY <1>3
  <2> HIDE DEF q, w
  <2> QED
    BY <1>1, <1>3, <2>1, <2>2, <2>3, <2>4, TomaFifo DEF q, w
<1>4. CASE hilo' = Regreso(t) /\ UNCHANGED <<disponible, queries_ready, mutex_planificacion>>
  BY <1>1, <1>2, <1>4, RegresoFifo DEF PlanificarFifo
<1> QED
  BY <1>3, <1>4 DEF PlanificarFifo

LEMMA EnviarFifo ==
    ASSUME Parte, Fifo, algoritmo = "FIFO", NEW t \in Hilos, Enviar(t) \/ Soltar(t)
    PROVE  Fifo'
<1>1. /\ hilo[t].paso \in {"enviar", "soltar"} /\ hilo' = Regreso(t) /\ mutex_planificacion' = FALSE
      /\ UNCHANGED <<query, disponible, queries_exec, lista_workers_info>>
  BY DEF Enviar, Soltar, En
<1>2. Dentro(hilo[t]) /\ hilo[t].pila = <<>>
  BY <1>1, NadieMas DEF Fifo, Dentro
<1>3. hilo[t].paso = "enviar" => hilo[t].worker \in ToSet(lista_workers_info)
  BY DEF Enviar, Soltar, En, Manda
<1> QED
  BY <1>1, <1>2, <1>3, RegresoFifo

\* A packet that could not be sent: the query leaves EXEC, and with it whatever
\* was on the Worker that is marked as free.
LEMMA FallarEnvioFifo ==
    ASSUME Parte, Fifo, algoritmo = "FIFO", NEW t \in Hilos, FallarEnvio(t)
    PROVE  Fifo'
<1> DEFINE g == hilo[t]
           q == g.query
           m == g.worker
           marco == [i |-> g.i, suelta |-> g.paso = "enviar"]
<1>1. /\ hilo \in [Hilos -> Hilo] /\ mutex_planificacion \in BOOLEAN /\ g \in Hilo
      /\ g.paso = "enviar" /\ q \in Queries /\ disponible \subseteq Workers
  BY DEF Parte, TypeOK, Sanos, HiloSano, FallarEnvio
<1>2. Dentro(g) /\ mutex_planificacion = TRUE /\ g.pila = <<>>
      /\ \A u \in Hilos : u # t => hilo[u].paso \notin {"asignar", "enviar"}
  BY <1>1, NadieMas DEF Fifo, Dentro, Exclusion
<1>3. /\ disponible' = disponible \union ({m} \intersect ToSet(lista_workers_info))
      /\ UNCHANGED <<lista_workers_info, mutex_planificacion>>
  BY <1>1 DEF FallarEnvio, Destino, En
<1>4. PICK h : /\ hilo' = [hilo EXCEPT ![t] = h]
               /\ \/ /\ q \in ToSet(queries_exec) /\ DevolverAReady(q)
                     /\ h.paso = "planificar" /\ Dentro(h)
                  \/ /\ q \notin ToSet(queries_exec) /\ UNCHANGED <<query, queries_exec>>
                     /\ h.paso = "soltar" /\ h.pila = <<>> /\ Dentro(h)
  <2>1. CASE /\ q \in ToSet(queries_exec) /\ DevolverAReady(q)
             /\ hilo' = [hilo EXCEPT ![t] =
                            [Afuera EXCEPT !.paso = "planificar", !.pila = Append(g.pila, marco)]]
    <3> DEFINE h == [Afuera EXCEPT !.paso = "planificar", !.pila = Append(g.pila, marco)]
    <3>1. h.paso = "planificar" /\ h.pila = Append(<<>>, marco)
      BY <1>2 DEF Afuera
    <3>2. Append(<<>>, marco) # <<>>
      <4>1. <<>> \in Seq({marco})
        BY EmptySeq
      <4>2. Append(<<>>, marco) \in Seq({marco}) /\ Append(<<>>, marco) # <<>>
        BY <4>1, AppendProperties
      <4> QED
        BY <4>2
    <3>3. hilo' = [hilo EXCEPT ![t] = h]
      BY <2>1
    <3> HIDE DEF h
    <3> QED
      BY <2>1, <3>1, <3>2, <3>3 DEF Dentro
  <2>2. CASE /\ q \notin ToSet(queries_exec) /\ hilo' = [hilo EXCEPT ![t].paso = "soltar"]
             /\ UNCHANGED <<query, queries_exec>>
    <3> DEFINE h == [hilo[t] EXCEPT !.paso = "soltar"]
    <3>1. h.paso = "soltar" /\ h.pila = <<>> /\ hilo' = [hilo EXCEPT ![t] = h]
      BY <1>1, <1>2, <2>2 DEF Hilo
    <3> HIDE DEF h
    <3> QED
      BY <2>2, <3>1 DEF Dentro
  <2> QED
    BY <1>1, <2>1, <2>2 DEF FallarEnvio
<1>5. Exclusion'
  BY <1>1, <1>2, <1>3, <1>4, ExclusionSigue DEF Fifo
<1>6. Conectados'
  BY <1>1, <1>3, <1>4, ConectadosSiguen DEF Fifo, Conectados
<1> HIDE DEF q, m
<1>7. \A x \in ToSet(queries_exec) : x = q <=> query[x].worker = m
  BY <1>1 DEF Fifo, Repartidas, PorEnviar, q, m
<1>8. ToSet(queries_exec') = ToSet(queries_exec) \ {q}
      /\ \A x \in ToSet(queries_exec') : query'[x].worker = query[x].worker
  <2>1. CASE q \in ToSet(queries_exec) /\ DevolverAReady(q)
    <3>1. queries_exec \in Seq(Queries) /\ IsInjective(queries_exec)
      BY DEF Parte, TypeOK, Ubicadas, EnLasListas
    <3>2. ToSet(queries_exec') = ToSet(queries_exec) \ {q}
      BY <2>1, <3>1, QuitarLista DEF DevolverAReady
    <3>3. \A x \in Queries : x # q => query'[x].worker = query[x].worker
      BY <1>1, <2>1 DEF DevolverAReady, Parte, TypeOK, Query
    <3>4. ToSet(queries_exec) \subseteq Queries
      BY <3>1, ElementosLista
    <3> QED
      BY <3>2, <3>3, <3>4
  <2>2. CASE q \notin ToSet(queries_exec) /\ UNCHANGED <<query, queries_exec>>
    BY <2>2
  <2> QED
    BY <1>4, <2>1, <2>2
<1>9. Repartidas'
  BY <1>1, <1>2, <1>3, <1>4, <1>7, <1>8, RepartidasSiguen DEF Fifo, q
<1> QED
  BY <1>5, <1>6, <1>9 DEF Fifo

\* A thread that is not planning takes its next step.
LEMMA PasaFifo ==
    ASSUME Parte, Fifo, NEW t \in Hilos, NEW p \in {"semaforo", "planificar", "desconectar"}, Pasa(t, p),
           hilo[t].paso \in {"fuera", "libre", "semaforo", "desconectar"},
           mutex_planificacion' = mutex_planificacion
    PROVE  \E h : hilo' = [hilo EXCEPT ![t] = h] /\ h.paso = p /\ Exclusion'
<1>1. TiposMaster /\ p \in Pasos /\ hilo \in [Hilos -> Hilo] /\ mutex_planificacion \in BOOLEAN
  BY PartesDelTipo DEF Parte, Pasos, TiposMaster
<1>2. hilo[t].pila = <<>>
  BY DEF Fifo, Exclusion
<1>3. PICK h : hilo' = [hilo EXCEPT ![t] = h] /\ h.paso = p /\ h.pila = <<>>
  BY <1>1, <1>2, PasaTipo DEF Parte
<1>4. ~Dentro(h)
  BY <1>3 DEF Dentro
<1> QED
  BY <1>1, <1>3, <1>4, ExclusionSigue DEF Fifo

LEMMA ConectarFifo ==
    ASSUME Parte, Fifo, algoritmo = "FIFO",
           \/ \E q \in Queries, p \in Prioridades : ConectarQuery(q, p)
           \/ \E w \in Workers : ConectarWorker(w) \/ IniciarSemaforo(w)
    PROVE  Fifo'
<1>1. /\ hilo \in [Hilos -> Hilo] /\ lista_workers_info \in Seq(Workers) /\ disponible \subseteq Workers
      /\ Workers \subseteq Hilos /\ Queries \subseteq Hilos /\ SinWorker \notin Workers
      /\ Queries \intersect Workers = {}
  BY MasterAssumption DEF Parte, TypeOK, Hilos
<1>2. ASSUME NEW q \in Queries, NEW p \in Prioridades, ConectarQuery(q, p) PROVE Fifo'
  <2>1. q \in Hilos /\ q \notin Workers /\ hilo[q].paso = "fuera"
    BY <1>1, <1>2 DEF ConectarQuery, Parte, Ubicadas, Presentadas, En
  <2>2. /\ Pasa(q, "planificar")
        /\ UNCHANGED <<disponible, queries_exec, lista_workers_info, mutex_planificacion>>
    BY <1>2 DEF ConectarQuery
  <2>3. PICK h : hilo' = [hilo EXCEPT ![q] = h] /\ h.paso = "planificar" /\ Exclusion'
    BY <2>1, <2>2, PasaFifo
  <2>4. \A x \in Queries : query'[x].worker = query[x].worker
    BY <1>2 DEF ConectarQuery, Parte, TypeOK, Query
  <2>5. ToSet(queries_exec) \subseteq Queries
    BY ElementosLista DEF Parte, TypeOK
  <2>6. Conectados'
    BY <1>1, <2>1, <2>2, <2>3, ConectadosSiguen DEF Fifo, Conectados
  <2>7. Repartidas'
    BY <2>1, <2>2, <2>3, <2>4, <2>5, RepartidasSiguen DEF Fifo
  <2> QED
    BY <2>3, <2>6, <2>7 DEF Fifo
<1>3. ASSUME NEW w \in Workers, ConectarWorker(w) PROVE Fifo'
  <2>1. /\ w \in Hilos /\ hilo[w].paso = "fuera" /\ Pasa(w, "semaforo")
        /\ lista_workers_info' = Append(lista_workers_info, w) /\ disponible' = disponible \union {w}
        /\ UNCHANGED <<query, queries_exec, mutex_planificacion>>
    BY <1>1, <1>3 DEF ConectarWorker, En
  <2>2. PICK h : hilo' = [hilo EXCEPT ![w] = h] /\ h.paso = "semaforo" /\ Exclusion'
    BY <2>1, PasaFifo
  <2>3. w \notin ToSet(lista_workers_info) /\ IsInjective(lista_workers_info)
    BY <2>1 DEF Fifo, Conectados
  <2>4. /\ ToSet(lista_workers_info') = ToSet(lista_workers_info) \union {w}
        /\ IsInjective(lista_workers_info')
    BY <1>1, <2>1, <2>3, AgregarLista
  <2>5. \A u \in Hilos : hilo'[u] = IF u = w THEN h ELSE hilo[u]
    BY <1>1, <2>1, <2>2
  <2>6. Conectados'
    BY <1>1, <2>1, <2>2, <2>4, <2>5 DEF Fifo, Conectados
  <2>7. ASSUME NEW q \in ToSet(queries_exec) PROVE query[q].worker # w
    <3>1. ASSUME NEW u \in Hilos, hilo[u].query = q, hilo[u].paso = "enviar", query[q].worker = w
          PROVE  FALSE
      <4>1. hilo[u].worker = w
        BY <3>1 DEF Fifo, Repartidas, PorEnviar
      <4> QED
        BY <1>1, <2>1, <3>1, <4>1 DEF Fifo, Repartidas, PorEnviar
    <3> QED
      BY <2>1, <2>3, <3>1 DEF Fifo, Repartidas, ConDestino
  <2>8. \A u \in Hilos : hilo[u].paso = "asignar" => hilo[u].worker # w
    BY <2>1 DEF Fifo, Repartidas, PorAsignar
  <2>9. Repartidas'
    BY <2>1, <2>2, <2>4, <2>7, <2>8, RepartidasSiguen DEF Fifo
  <2> QED
    BY <2>2, <2>6, <2>9 DEF Fifo
<1>4. ASSUME NEW w \in Workers, IniciarSemaforo(w) PROVE Fifo'
  <2>1. /\ w \in Hilos /\ hilo[w].paso = "semaforo" /\ Pasa(w, "planificar")
        /\ UNCHANGED <<query, disponible, queries_exec, lista_workers_info, mutex_planificacion>>
    BY <1>1, <1>4 DEF IniciarSemaforo, En
  <2>2. PICK h : hilo' = [hilo EXCEPT ![w] = h] /\ h.paso = "planificar" /\ Exclusion'
    BY <2>1, PasaFifo
  <2>3. Conectados'
    BY <1>1, <2>1, <2>2, ConectadosSiguen DEF Fifo, Conectados
  <2>4. Repartidas'
    BY <2>1, <2>2, RepartidasSiguen DEF Fifo
  <2> QED
    BY <2>2, <2>3, <2>4 DEF Fifo
<1> QED
  BY <1>2, <1>3, <1>4

\* Once the first query of a Worker leaves EXEC there is none on it.
LEMMA WorkerVacio ==
    ASSUME Parte, UnaCadaUna, NEW w \in Workers, EnWorker(w) # {},
           queries_exec' = RemoveFirst(queries_exec, PrimeraEn(w)),
           query' = [query EXCEPT ![PrimeraEn(w)].estado = "EXIT"]
    PROVE  /\ PrimeraEn(w) \in ToSet(queries_exec) /\ query[PrimeraEn(w)].worker = w
           /\ ToSet(queries_exec') \subseteq ToSet(queries_exec)
           /\ \A q \in ToSet(queries_exec') : query'[q].worker = query[q].worker /\ query[q].worker # w
<1> DEFINE p == PrimeraEn(w)
<1>1. TiposMaster /\ queries_exec \in Seq(Queries) /\ IsInjective(queries_exec)
  BY PartesDelTipo DEF Parte, TypeOK, Ubicadas, EnLasListas
<1>2. p \in Queries /\ p \in ToSet(queries_exec) /\ query[p].worker = w
  BY <1>1, PrimeraEnHay
<1> HIDE DEF p
<1>3. ToSet(queries_exec') = ToSet(queries_exec) \ {p}
  BY <1>1, QuitarLista DEF p
<1>4. \A q \in ToSet(queries_exec') : query[q].worker # w
  BY <1>2, <1>3 DEF UnaCadaUna
<1>5. \A q \in Queries : query'[q].worker = query[q].worker
  BY <1>2 DEF p, Parte, TypeOK, Query
<1>6. ToSet(queries_exec) \subseteq Queries
  BY <1>1, ElementosLista
<1> QED
  BY <1>2, <1>3, <1>4, <1>5, <1>6 DEF p

LEMMA FifoQuieto ==
    ASSUME Fifo, UNCHANGED master
    PROVE  Fifo'
<1>1. UNCHANGED <<query, disponible, queries_exec, lista_workers_info, mutex_planificacion, hilo>>
  BY DEF master
<1>2. Exclusion' /\ Conectados'
  BY <1>1 DEF Fifo, Exclusion, Dentro, Conectados
<1>3. UnaCadaUna' /\ LibresVacios' /\ PorAsignar'
  BY <1>1 DEF Fifo, Repartidas, UnaCadaUna, LibresVacios, PorAsignar
<1>4. PorEnviar' /\ ConDestino'
  BY <1>1 DEF Fifo, Repartidas, PorEnviar, ConDestino
<1> QED
  BY <1>2, <1>3, <1>4 DEF Fifo, Repartidas

\* The algorithm is read from the configuration, once.
LEMMA AlgoritmoFijo == [Next]_vars => algoritmo' = algoritmo
<1> SUFFICES ASSUME [Next]_vars PROVE algoritmo' = algoritmo
  OBVIOUS
<1>1. CASE UNCHANGED master
  BY <1>1 DEF master
<1>2. CASE NextMaster
  <2>1. ASSUME NEW q \in Queries, Envejecer(q) \/ \E p \in Prioridades : ConectarQuery(q, p)
        PROVE  algoritmo' = algoritmo
    BY <2>1 DEF Envejecer, ConectarQuery
  <2>2. ASSUME NEW w \in Workers, ConectarWorker(w) \/ Lectura(w) PROVE algoritmo' = algoritmo
    BY <2>2 DEF ConectarWorker, Lectura, IniciarSemaforo, RecibirLectura, RecibirFin, DescartarFin,
                RecibirDesalojo, Desconectar, FinalizarQueryDe, master
  <2>3. ASSUME NEW t \in Hilos, Planificacion(t) PROVE algoritmo' = algoritmo
    BY <2>3 DEF Planificacion, PlanificarFifo, PlanificarPrioridades, FinPlanificar, Asignar, PasarAExec,
                Enviar, FallarEnvio, Soltar, ElegirVictima, NadieDesalojable, Desalojar, Relevar, EnviarRelevo
  <2> QED
    BY <1>2, <2>1, <2>2, <2>3 DEF NextMaster
<1>3. UNCHANGED master \/ NextMaster
  BY DEF Next, vars, CaerConectado, Rearrancar
<1> QED
  BY <1>1, <1>2, <1>3

LEMMA RecibirFifo ==
    ASSUME Parte, Fifo, algoritmo = "FIFO", NEW w \in Workers,
           RecibirLectura(w) \/ RecibirFin(w) \/ DescartarFin(w) \/ RecibirDesalojo(w)
    PROVE  Fifo'
<1>1. /\ hilo \in [Hilos -> Hilo] /\ w \in Hilos /\ hilo[w].paso = "libre"
      /\ ~ RecibirDesalojo(w)
  BY SinDesalojos DEF Parte, TypeOK, Hilos, RecibirLectura, RecibirFin, DescartarFin, RecibirDesalojo, Lee, En
<1>2. CASE RecibirLectura(w) \/ DescartarFin(w)
  <2>1. UNCHANGED master
    BY <1>2 DEF RecibirLectura, DescartarFin
  <2> QED
    BY <2>1, FifoQuieto
<1>3. CASE RecibirFin(w)
  <2>1. /\ EnWorker(w) # {} /\ Pasa(w, "planificar")
        /\ disponible' = disponible \union {w}
        /\ queries_exec' = RemoveFirst(queries_exec, PrimeraEn(w))
        /\ query' = [query EXCEPT ![PrimeraEn(w)].estado = "EXIT"]
        /\ UNCHANGED <<lista_workers_info, mutex_planificacion>>
    BY <1>3 DEF RecibirFin, PlanificaAlTerminar
  <2>2. PICK h : hilo' = [hilo EXCEPT ![w] = h] /\ h.paso = "planificar" /\ Exclusion'
    BY <1>1, <2>1, PasaFifo
  <2>3. /\ PrimeraEn(w) \in ToSet(queries_exec) /\ query[PrimeraEn(w)].worker = w
        /\ ToSet(queries_exec') \subseteq ToSet(queries_exec)
        /\ \A q \in ToSet(queries_exec') : query'[q].worker = query[q].worker /\ query[q].worker # w
    BY <2>1, WorkerVacio DEF Fifo, Repartidas
  <2>4. disponible' \subseteq ToSet(lista_workers_info)
    BY <1>1, <2>1 DEF Fifo, Conectados
  <2>5. Conectados'
    BY <1>1, <2>1, <2>2, <2>4, ConectadosSiguen DEF Fifo
  <2>6. \A u \in Hilos : hilo[u].paso = "asignar" => hilo[u].worker # w
    BY <2>3 DEF Fifo, Repartidas, PorAsignar
  <2>7. Repartidas'
    BY <1>1, <2>1, <2>2, <2>3, <2>6, RepartidasSiguen DEF Fifo
  <2> QED
    BY <2>2, <2>5, <2>7 DEF Fifo
<1> QED
  BY <1>1, <1>2, <1>3

LEMMA DesconectarFifo ==
    ASSUME Parte, Fifo, NEW w \in Workers, Desconectar(w) \/ FinalizarQueryDe(w)
    PROVE  Fifo'
<1>1. /\ hilo \in [Hilos -> Hilo] /\ w \in Hilos /\ Workers \subseteq Hilos
      /\ lista_workers_info \in Seq(Workers)
  BY DEF Parte, TypeOK, Hilos
<1>2. CASE Desconectar(w)
  <2>1. /\ hilo[w].paso = "libre" /\ Pasa(w, "desconectar") /\ disponible' = disponible \ {w}
        /\ lista_workers_info' = RemoveFirst(lista_workers_info, w)
        /\ UNCHANGED <<query, queries_exec, mutex_planificacion>>
    BY <1>2 DEF Desconectar, En
  <2>2. PICK h : hilo' = [hilo EXCEPT ![w] = h] /\ h.paso = "desconectar" /\ Exclusion'
    BY <1>1, <2>1, PasaFifo
  <2>3. /\ ToSet(lista_workers_info') = ToSet(lista_workers_info) \ {w}
        /\ IsInjective(lista_workers_info')
    BY <1>1, <2>1, QuitarLista DEF Fifo, Conectados
  <2>4. \A u \in Hilos : hilo'[u] = IF u = w THEN h ELSE hilo[u]
    BY <1>1, <2>2
  <2>5. Conectados'
    BY <1>1, <2>1, <2>2, <2>3, <2>4 DEF Fifo, Conectados
  <2>6. Repartidas'
    BY <1>1, <2>1, <2>2, <2>3, RepartidasSiguen DEF Fifo
  <2> QED
    BY <2>2, <2>5, <2>6 DEF Fifo
<1>3. CASE FinalizarQueryDe(w)
  <2>1. /\ hilo[w].paso = "desconectar" /\ Pasa(w, "planificar")
        /\ UNCHANGED <<disponible, lista_workers_info, mutex_planificacion>>
    BY <1>3 DEF FinalizarQueryDe, En
  <2>2. PICK h : hilo' = [hilo EXCEPT ![w] = h] /\ h.paso = "planificar" /\ Exclusion'
    BY <1>1, <2>1, PasaFifo
  <2>3. Conectados'
    BY <1>1, <2>1, <2>2, ConectadosSiguen DEF Fifo, Conectados
  <2>4. /\ ToSet(queries_exec') \subseteq ToSet(queries_exec)
        /\ \A q \in ToSet(queries_exec') : query'[q].worker = query[q].worker /\ query[q].worker # w
    <3>1. CASE EnWorker(w) # {} /\ FinalizarPorCaida(PrimeraEn(w))
      BY <3>1, WorkerVacio DEF FinalizarPorCaida, Fifo, Repartidas
    <3>2. CASE EnWorker(w) = {} /\ UNCHANGED <<query, queries_exec>>
      BY <3>2 DEF EnWorker, ToSet
    <3> QED
      BY <1>3, <3>1, <3>2 DEF FinalizarQueryDe
  <2>5. Repartidas'
    BY <1>1, <2>1, <2>2, <2>4, RepartidasSiguen DEF Fifo
  <2> QED
    BY <2>2, <2>3, <2>5 DEF Fifo
<1> QED
  BY <1>2, <1>3

\* The other actions of the planners are those of PRIORIDADES.
LEMMA SoloFifo ==
    ASSUME Parte, algoritmo = "FIFO", NEW t \in Hilos
    PROVE  /\ Planificacion(t) => \/ PlanificarFifo(t) \/ PasarAExec(t) \/ Enviar(t)
                                  \/ FallarEnvio(t) \/ Soltar(t)
           /\ ~ Envejecer(t)
<1>1. hilo[t].paso \notin {"iterar", "desalojar", "esperar", "enviar_relevo"}
  BY DEF Parte, Sanos, HiloSano
<1> QED
  BY <1>1 DEF Planificacion, PlanificarPrioridades, FinPlanificar, Asignar, ElegirVictima,
              NadieDesalojable, Desalojar, Relevar, EnviarRelevo, Envejecer, Ronda, En

LEMMA PasoFifo ==
    Parte /\ (algoritmo = "FIFO" => Fifo) /\ [Next]_vars => (algoritmo = "FIFO" => Fifo)'
<1> SUFFICES ASSUME Parte, algoritmo = "FIFO" => Fifo, [Next]_vars, algoritmo' = "FIFO" PROVE Fifo'
  OBVIOUS
<1>1. algoritmo = "FIFO" /\ Fifo
  <2>1. algoritmo' = algoritmo
    BY AlgoritmoFijo
  <2> QED
    BY <2>1
<1>2. CASE UNCHANGED master
  BY <1>1, <1>2, FifoQuieto
<1>3. CASE NextMaster
  <2>1. CASE \/ \E q \in Queries, p \in Prioridades : ConectarQuery(q, p)
             \/ \E w \in Workers : ConectarWorker(w) \/ IniciarSemaforo(w)
    BY <1>1, <2>1, ConectarFifo
  <2>2. ASSUME NEW q \in Queries, Envejecer(q) PROVE FALSE
    BY <1>1, <2>2, SoloFifo DEF Hilos
  <2>3. ASSUME NEW t \in Hilos, Planificacion(t) PROVE Fifo'
    BY <1>1, <2>3, SoloFifo, PlanificarFifoSigue, PasarAExecFifo, EnviarFifo, FallarEnvioFifo
  <2>4. ASSUME NEW w \in Workers, RecibirLectura(w) \/ RecibirFin(w) \/ DescartarFin(w) \/ RecibirDesalojo(w)
        PROVE  Fifo'
    BY <1>1, <2>4, RecibirFifo
  <2>5. ASSUME NEW w \in Workers, Desconectar(w) \/ FinalizarQueryDe(w) PROVE Fifo'
    BY <1>1, <2>5, DesconectarFifo
  <2> QED
    BY <1>3, <2>1, <2>2, <2>3, <2>4, <2>5 DEF NextMaster, Lectura
<1>4. UNCHANGED master \/ NextMaster
  BY DEF Next, vars, CaerConectado, Rearrancar
<1> QED
  BY <1>2, <1>3, <1>4

LEMMA InitFifo == Init => Fifo
<1> SUFFICES ASSUME Init PROVE Fifo
  OBVIOUS
<1>1. /\ \A t \in Hilos : hilo[t].paso = "fuera" /\ hilo[t].pila = <<>>
      /\ lista_workers_info = <<>> /\ queries_exec = <<>> /\ disponible = {}
      /\ Workers \subseteq Hilos
  BY DEF Init, InitMaster, Afuera, Hilos
<1>2. ToSet(lista_workers_info) = {} /\ ToSet(queries_exec) = {} /\ IsInjective(lista_workers_info)
  BY <1>1 DEF ToSet, IsInjective
<1>3. Exclusion
  BY <1>1 DEF Exclusion, Dentro
<1>4. Conectados
  BY <1>1, <1>2 DEF Conectados
<1>5. Repartidas
  BY <1>1, <1>2 DEF Repartidas, UnaCadaUna, LibresVacios, PorAsignar, PorEnviar, ConDestino
<1> QED
  BY <1>3, <1>4, <1>5 DEF Fifo

LEMMA FifoSiempre == Spec => [](Parte /\ (algoritmo = "FIFO" => Fifo))
<1>1. Init => Parte /\ (algoritmo = "FIFO" => Fifo)
  BY InitTipos, InitUbica, InitRelevos, InitFifo DEF Parte
<1>2. Parte /\ (algoritmo = "FIFO" => Fifo) /\ [Next]_vars => (Parte /\ (algoritmo = "FIFO" => Fifo))'
  BY PasoTipoSano, PasoUbica, PasoRelevos, PasoFifo DEF Parte
<1> QED
  BY <1>1, <1>2, PTL DEF Spec

-----------------------------------------------------------------------------
\* With FIFO no two queries of EXEC are on the same Worker, whoever plans, fails to
\* send or reads the id of a Worker that is gone (obtener_worker_disponible,
\* manejar_fallo_envio_worker).
THEOREM UnaQueryPorWorker == Spec => [](algoritmo = "FIFO" => UnaPorWorker)
<1>1. Parte /\ Fifo => UnaPorWorker
  BY DEF Parte, Ubicadas, EnLasListas, IsInjective, Fifo, Repartidas, UnaCadaUna, UnaPorWorker, ToSet
<1> QED
  BY <1>1, FifoSiempre, PTL

\* With FIFO a query of EXEC whose Worker has left the list is about to be taken
\* out, by the planner that cannot send it or by manejar_desconexion_worker.
THEOREM NadieQuedaVarado == Spec => [](algoritmo = "FIFO" => NadieVarado)
<1>1. Parte /\ Fifo => NadieVarado
  <2> SUFFICES ASSUME Parte, Fifo, NEW k \in DOMAIN queries_exec
               PROVE  LET q == queries_exec[k]
                          w == query[q].worker
                      IN  \/ w \in ToSet(lista_workers_info)
                          \/ \E t \in Hilos : hilo[t].query = q /\ hilo[t].paso \in {"enviar", "enviar_relevo"}
                          \/ w # SinWorker /\ En(w, "desconectar")
    BY DEF NadieVarado
  <2>1. queries_exec[k] \in ToSet(queries_exec) /\ SinWorker \notin Workers
    BY MasterAssumption DEF ToSet
  <2> QED
    BY <2>1 DEF Fifo, Repartidas, ConDestino, En
<1> QED
  BY <1>1, FifoSiempre, PTL

-----------------------------------------------------------------------------
(* FIFO, what a Query Control gets                                         *)

\* The query threads of a Worker that have a line left.
Vivas(w) == {e \in ejecuciones[w] : e.pc < Lineas}

\* A query of EXEC whose EJECUTAR_QUERY has been sent.
Enviada(q) ==
    q \in ToSet(queries_exec) /\ \A t \in Hilos : hilo[t].paso = "enviar" => hilo[t].query # q

Vacio(w) == a_worker[w] = <<>> /\ a_master[w] = <<>> /\ Vivas(w) = {}

SinHacer == [hechas |-> 0, fallo |-> FALSE]

\* The end that a Worker says is the one its query has had.
Cierto(motivo, av) ==
    \/ motivo = "COMPLETADA" /\ av.hechas = Lineas /\ ~av.fallo
    \/ motivo = "ERROR" /\ av.fallo

\* What w has of the query q that the Master has there: the order to execute it,
\* or a thread at the line it has come to, or neither; and its readings on
\* their way to the Master, with a final message, if any, at the end.
Cauce(w, q) ==
    /\ \/ a_worker[w] = <<>>
       \/ /\ a_worker[w] = <<EjecutarQuery(q, 0)>> /\ a_master[w] = <<>> /\ Vivas(w) = {}
          /\ avance[q] = SinHacer
    /\ \A e \in Vivas(w) : e.query = q /\ e.pc = avance[q].hechas /\ ~avance[q].fallo /\ Vivas(w) = {e}
    /\ \A k \in DOMAIN a_master[w] : LET m == a_master[w][k] IN
          /\ m.query = q
          /\ \/ m.tipo = "LECTURA_REALIZADA" /\ (avance[q].hechas > 0 \/ avance[q].fallo)
             \/ /\ m.tipo = "QUERY_FINALIZADA" /\ k = Len(a_master[w]) /\ Vivas(w) = {}
                /\ Cierto(m.motivo, avance[q])

Ocupado(w) ==
    w \in ToSet(lista_workers_info) /\ \E q \in Queries : Enviada(q) /\ query[q].worker = w /\ Cauce(w, q)

\* A query begins once, where it is sent, and it gets one final message.
Intactas ==
    \A q \in Queries :
        /\ query[q].pc = 0 /\ a_query[q].lecturas \subseteq {q}
        /\ query[q].estado # "EXIT" => a_query[q].finales = <<>>
        /\ query[q].estado # "EXIT" /\ ~Enviada(q) => avance[q] = SinHacer

SinCaidos == \A w \in caido : a_worker[w] = <<>> /\ Vivas(w) = {}

\* The query that a planner has to send to a Worker of the list is still in EXEC.
PorMandar ==
    \A t \in Hilos : hilo[t].paso = "enviar" /\ hilo[t].worker \in ToSet(lista_workers_info) =>
        hilo[t].query \in ToSet(queries_exec)

Servida ==
    /\ \A w \in Workers : escucha[w].paso = "lee" /\ (Vacio(w) \/ Ocupado(w))
    /\ Intactas /\ SinCaidos /\ PorMandar

\* The query of EXEC that a Worker has is the one its messages are taken for.
LEMMA PrimeraUnica ==
    ASSUME Parte, Fifo, NEW w \in Workers, NEW q \in ToSet(queries_exec), query[q].worker = w
    PROVE  EnWorker(w) # {} /\ PrimeraEn(w) = q
<1>1. EnWorker(w) # {}
  BY DEF EnWorker, ToSet
<1>2. TiposMaster
  BY PartesDelTipo DEF Parte
<1>3. PrimeraEn(w) \in ToSet(queries_exec) /\ query[PrimeraEn(w)].worker = w
  BY <1>1, <1>2, PrimeraEnHay
<1> QED
  BY <1>1, <1>3 DEF Fifo, Repartidas, UnaCadaUna

\* Nobody but t takes a step in the Master.
SoloMueve(t) == \A u \in Hilos : u # t => hilo'[u] = hilo[u]

\* Which queries have been sent: after a step of t, those of before, except for
\* the query that t has to send or takes out of EXEC.
LEMMA EnviadasTras ==
    ASSUME NEW t \in Hilos, SoloMueve(t), NEW q \in Queries \union {SinQuery},
           \A x \in Queries : x # q => (x \in ToSet(queries_exec') <=> x \in ToSet(queries_exec)),
           hilo[t].paso = "enviar" => hilo[t].query = q,
           hilo'[t].paso = "enviar" => hilo'[t].query = q
    PROVE  \A x \in Queries : x # q => (Enviada(x)' <=> Enviada(x))
<1> SUFFICES ASSUME NEW x \in Queries, x # q PROVE Enviada(x)' <=> Enviada(x)
  OBVIOUS
<1>1. \A u \in Hilos : hilo'[u].paso = "enviar" /\ hilo'[u].query = x <=>
                       hilo[u].paso = "enviar" /\ hilo[u].query = x
  BY DEF SoloMueve
<1> QED
  BY <1>1 DEF Enviada

\* A step of t leaves the queries that others have to send in EXEC.
LEMMA PorMandarTras ==
    ASSUME PorMandar, NEW t \in Hilos, SoloMueve(t),
           hilo'[t].paso = "enviar" => hilo'[t].query \in ToSet(queries_exec'),
           \A u \in Hilos : u # t /\ hilo[u].paso = "enviar"
                                  /\ hilo[u].worker \in ToSet(lista_workers_info') =>
              /\ hilo[u].worker \in ToSet(lista_workers_info)
              /\ hilo[u].query \in ToSet(queries_exec) => hilo[u].query \in ToSet(queries_exec')
    PROVE  PorMandar'
<1> SUFFICES ASSUME NEW u \in Hilos, hilo'[u].paso = "enviar",
                    hilo'[u].worker \in ToSet(lista_workers_info')
             PROVE  hilo'[u].query \in ToSet(queries_exec')
  BY DEF PorMandar
<1> QED
  BY DEF PorMandar, SoloMueve

\* A step of the Master about one query leaves what the other Workers have.
LEMMA OtrosServidos ==
    ASSUME Servida, UNCHANGED control, NEW q \in Queries \union {SinQuery}, NEW v \in Workers,
           a_worker'[v] = a_worker[v], a_master'[v] = a_master[v],
           v \in ToSet(lista_workers_info) => v \in ToSet(lista_workers_info') \/ Vacio(v),
           q \in Queries => (Enviada(q) => query[q].worker # v),
           \A x \in Queries : x # q => /\ Enviada(x)' <=> Enviada(x)
                                       /\ Enviada(x) => query'[x].worker = query[x].worker
    PROVE  Vacio(v)' \/ Ocupado(v)'
<1>1. UNCHANGED <<ejecuciones, avance>>
  BY DEF control
<1>2. /\ Vacio(v)' <=> Vacio(v)
      /\ \A x \in Queries : Cauce(v, x)' <=> Cauce(v, x)
  BY <1>1 DEF Vacio, Cauce, Vivas
<1>3. ASSUME Ocupado(v), ~Vacio(v) PROVE Ocupado(v)'
  <2>1. v \in ToSet(lista_workers_info')
    BY <1>3 DEF Ocupado
  <2>2. PICK x \in Queries : Enviada(x) /\ query[x].worker = v /\ Cauce(v, x)
    BY <1>3 DEF Ocupado
  <2>3. Enviada(x)' /\ query'[x].worker = v /\ Cauce(v, x)'
    BY <1>2, <2>2
  <2> QED
    BY <2>1, <2>3 DEF Ocupado
<1> QED
  BY <1>2, <1>3 DEF Servida

\* The steps of the Master that send nothing to anybody.
LEMMA MasterServida ==
    ASSUME Servida, UNCHANGED <<control, canales, caido>>, PorMandar',
           NEW q \in Queries \union {SinQuery}, q \in Queries => ~Enviada(q) /\ ~Enviada(q)',
           \A w \in Workers : w \in ToSet(lista_workers_info) =>
              w \in ToSet(lista_workers_info') \/ Vacio(w),
           \A x \in Queries : /\ x # q => (Enviada(x)' <=> Enviada(x))
                              /\ Enviada(x) => query'[x].worker = query[x].worker
                              /\ query'[x].pc = query[x].pc
                              /\ query'[x].estado = "EXIT" <=> query[x].estado = "EXIT"
    PROVE  Servida' /\ UNCHANGED <<avance, a_query>>
<1>1. UNCHANGED <<a_worker, a_master, a_query, ejecuciones, escucha, avance, caido>>
  BY DEF control, canales
<1>2. ASSUME NEW w \in Workers PROVE escucha'[w].paso = "lee" /\ (Vacio(w)' \/ Ocupado(w)')
  <2>1. escucha'[w].paso = "lee"
    BY <1>1 DEF Servida
  <2>2. Vacio(w)' \/ Ocupado(w)'
    BY <1>1, OtrosServidos
  <2> QED
    BY <2>1, <2>2
<1>3. Intactas'
  <2>1. \A x \in Queries : Intactas =>
           /\ query'[x].pc = 0 /\ a_query'[x].lecturas \subseteq {x}
           /\ query'[x].estado # "EXIT" => a_query'[x].finales = <<>>
           /\ query'[x].estado # "EXIT" /\ ~Enviada(x)' => avance'[x] = SinHacer
    BY <1>1 DEF Intactas
  <2> QED
    BY <2>1 DEF Servida, Intactas, SinHacer
<1>4. SinCaidos'
  BY <1>1 DEF Servida, SinCaidos, Vivas
<1> QED
  BY <1>1, <1>2, <1>3, <1>4 DEF Servida

\* The steps of one Worker, about its query.
LEMMA WorkerServida ==
    ASSUME Parte, Servida, NEW w \in Workers, NEW q \in Queries \union {SinQuery},
           UNCHANGED <<master, a_query>>,
           \A v \in Workers : v # w => /\ a_worker'[v] = a_worker[v] /\ a_master'[v] = a_master[v]
                                       /\ ejecuciones'[v] = ejecuciones[v],
           escucha'[w].paso = "lee", \A v \in Workers : v # w => escucha'[v] = escucha[v],
           caido' \subseteq caido \union {w}, w \in caido' => a_worker'[w] = <<>> /\ Vivas(w)' = {},
           \A x \in Queries : x # q => avance'[x] = avance[x],
           \/ w \in ToSet(lista_workers_info) /\ Enviada(q) /\ query[q].worker = w /\ Cauce(w, q)'
           \/ avance' = avance /\ Vacio(w)'
    PROVE  Servida'
<1>1. UNCHANGED <<query, queries_exec, lista_workers_info, hilo, a_query>>
  BY DEF master
<1>2. \A x \in Queries : Enviada(x)' <=> Enviada(x)
  BY <1>1 DEF Enviada
<1>3. ASSUME NEW v \in Workers PROVE escucha'[v].paso = "lee" /\ (Vacio(v)' \/ Ocupado(v)')
  <2>1. CASE v = w
    <3>1. CASE w \in ToSet(lista_workers_info) /\ Enviada(q) /\ query[q].worker = w /\ Cauce(w, q)'
      <4>1. q \in Queries
        BY <3>1, ElementosLista DEF Enviada, Parte, TypeOK
      <4> QED
        BY <1>1, <1>2, <2>1, <3>1, <4>1 DEF Ocupado
    <3> QED
      BY <2>1, <3>1
  <2>2. CASE v # w
    <3>1. escucha'[v].paso = "lee" /\ (Vacio(v) \/ Ocupado(v))
      BY <2>2 DEF Servida
    <3>2. Vacio(v)' <=> Vacio(v)
      BY <2>2 DEF Vacio, Vivas
    <3>3. ASSUME Ocupado(v) PROVE Ocupado(v)'
      <4>1. PICK x \in Queries : Enviada(x) /\ query[x].worker = v /\ Cauce(v, x)
        BY <3>3 DEF Ocupado
      <4>2. avance'[x] = avance[x]
        BY <2>2, <4>1
      <4>3. Cauce(v, x)'
        BY <2>2, <4>1, <4>2 DEF Cauce, Vivas
      <4> QED
        BY <1>1, <1>2, <3>3, <4>1, <4>3 DEF Ocupado
    <3> QED
      BY <3>1, <3>2, <3>3
  <2> QED
    BY <2>1, <2>2
<1>4. Intactas'
  <2>1. \A x \in Queries : ~Enviada(x) => avance'[x] = avance[x]
    OBVIOUS
  <2>2. \A x \in Queries : Intactas =>
           /\ query'[x].pc = 0 /\ a_query'[x].lecturas \subseteq {x}
           /\ query'[x].estado # "EXIT" => a_query'[x].finales = <<>>
           /\ query'[x].estado # "EXIT" /\ ~Enviada(x)' => avance'[x] = SinHacer
    BY <1>1, <1>2, <2>1 DEF Intactas
  <2> QED
    BY <2>2 DEF Servida, Intactas, SinHacer
<1>5. PorMandar'
  BY <1>1 DEF Servida, PorMandar
<1>6. SinCaidos'
  <2>1. ASSUME NEW v \in caido' PROVE a_worker'[v] = <<>> /\ Vivas(v)' = {}
    <3>1. v = w \/ (v \in caido /\ v \in Workers)
      BY DEF Parte, TypeOK
    <3>2. CASE v \in caido /\ v \in Workers /\ v # w
      BY <3>2 DEF Servida, SinCaidos, Vivas
    <3> QED
      BY <3>1, <3>2
  <2> QED
    BY <2>1 DEF SinCaidos
<1> QED
  BY <1>3, <1>4, <1>5, <1>6 DEF Servida

LEMMA ConectarServida ==
    ASSUME Parte, Fifo, Servida, UNCHANGED <<control, enchufes>>,
           \/ \E q \in Queries, p \in Prioridades : ConectarQuery(q, p)
           \/ \E w \in Workers : ConectarWorker(w) \/ IniciarSemaforo(w)
    PROVE  Servida' /\ UNCHANGED <<avance, a_query>>
<1>1. /\ UNCHANGED <<control, canales, caido>> /\ UNCHANGED queries_exec
      /\ query \in [Queries -> Query] /\ SinQuery \notin Queries
      /\ ToSet(lista_workers_info) \subseteq ToSet(lista_workers_info')
      /\ lista_workers_info \in Seq(Workers)
  <2>1. lista_workers_info \in Seq(Workers)
    BY DEF Parte, TypeOK
  <2>2. \A w \in Workers : ToSet(lista_workers_info) \subseteq ToSet(Append(lista_workers_info, w))
    BY <2>1, AgregarLista
  <2> QED
    BY <2>1, <2>2, MasterAssumption
       DEF Parte, TypeOK, enchufes, ConectarQuery, ConectarWorker, IniciarSemaforo
<1>2. \A x \in Queries : /\ query'[x].worker = query[x].worker /\ query'[x].pc = query[x].pc
                         /\ query'[x].estado = "EXIT" <=> query[x].estado = "EXIT"
  <2>1. ASSUME NEW q \in Queries, NEW p \in Prioridades, ConectarQuery(q, p), NEW x \in Queries
        PROVE  /\ query'[x].worker = query[x].worker /\ query'[x].pc = query[x].pc
               /\ query'[x].estado = IF x = q THEN "READY" ELSE query[x].estado
               /\ query[q].estado = "NUEVA"
    BY <1>1, <2>1 DEF ConectarQuery, Query
  <2> QED
    BY <2>1 DEF ConectarWorker, IniciarSemaforo
<1>3. PICK t \in Hilos : /\ SoloMueve(t)
                         /\ hilo[t].paso \in {"fuera", "semaforo"} /\ hilo'[t].paso # "enviar"
                         /\ \A u \in Hilos : u # t /\ hilo[u].paso = "enviar"
                               /\ hilo[u].worker \in ToSet(lista_workers_info') =>
                                     hilo[u].worker \in ToSet(lista_workers_info)
  <2>1. hilo \in [Hilos -> Hilo] /\ Workers \subseteq Hilos /\ Queries \subseteq Hilos
        /\ SinWorker \notin Workers
    BY MasterAssumption DEF Parte, TypeOK, Hilos
  <2>2. ASSUME NEW q \in Queries, NEW p \in Prioridades, ConectarQuery(q, p)
        PROVE  hilo[q].paso = "fuera" /\ hilo'[q].paso = "planificar" /\ SoloMueve(q)
               /\ UNCHANGED lista_workers_info
    BY <2>1, <2>2 DEF ConectarQuery, Pasa, SoloMueve, Parte, Ubicadas, Presentadas, En, Hilo
  <2>3. ASSUME NEW w \in Workers, IniciarSemaforo(w)
        PROVE  hilo[w].paso = "semaforo" /\ hilo'[w].paso = "planificar" /\ SoloMueve(w)
               /\ UNCHANGED lista_workers_info
    BY <2>1, <2>3 DEF IniciarSemaforo, Pasa, SoloMueve, En, Hilo
  <2>4. ASSUME NEW w \in Workers, ConectarWorker(w)
        PROVE  /\ hilo[w].paso = "fuera" /\ hilo'[w].paso = "semaforo" /\ SoloMueve(w)
               /\ ToSet(lista_workers_info') = ToSet(lista_workers_info) \union {w}
    <3>1. ToSet(Append(lista_workers_info, w)) = ToSet(lista_workers_info) \union {w}
      BY <1>1, AgregarLista
    <3> QED
      BY <2>1, <2>4, <3>1 DEF ConectarWorker, Pasa, SoloMueve, En, Hilo
  <2>5. ASSUME NEW w \in Workers, hilo[w].paso = "fuera", NEW u \in Hilos, hilo[u].paso = "enviar"
        PROVE  hilo[u].worker # w
    BY <2>1, <2>5 DEF Fifo, Repartidas, PorEnviar
  <2> QED
    BY <2>1, <2>2, <2>3, <2>4, <2>5
<1>4. PorMandar'
  BY <1>1, <1>3, PorMandarTras DEF Servida
<1>5. \A x \in Queries : Enviada(x)' <=> Enviada(x)
  BY <1>1, <1>3, EnviadasTras
<1> QED
  BY <1>1, <1>2, <1>4, <1>5, MasterServida

LEMMA PlanificarServida ==
    ASSUME Parte, Servida, UNCHANGED <<control, enchufes>>, algoritmo = "FIFO",
           NEW t \in Hilos, PlanificarFifo(t) \/ Soltar(t)
    PROVE  Servida' /\ UNCHANGED <<avance, a_query>>
<1>1. /\ UNCHANGED <<control, canales, caido, query, queries_exec, lista_workers_info>>
      /\ SinQuery \notin Queries /\ hilo \in [Hilos -> Hilo] /\ hilo[t].paso \in {"planificar", "soltar"}
  BY MasterAssumption DEF Parte, TypeOK, enchufes, PlanificarFifo, Soltar, En
<1>2. SoloMueve(t) /\ hilo'[t].paso # "enviar"
  <2>1. CASE hilo' = Regreso(t)
    BY <1>1, <2>1 DEF SoloMueve, Regreso, Suelto, Afuera
  <2>2. ASSUME NEW q, NEW w, Toma(t, q, w) PROVE SoloMueve(t) /\ hilo'[t].paso # "enviar"
    BY <1>1, <2>2 DEF SoloMueve, Toma, Hilo
  <2> QED
    BY <2>1, <2>2 DEF PlanificarFifo, Soltar
<1>3. PorMandar'
  BY <1>1, <1>2, PorMandarTras DEF Servida
<1>4. \A x \in Queries : Enviada(x)' <=> Enviada(x)
  BY <1>1, <1>2, EnviadasTras
<1> QED
  BY <1>1, <1>3, <1>4, MasterServida

LEMMA PasarAExecServida ==
    ASSUME Parte, Fifo, Servida, UNCHANGED <<control, enchufes>>, NEW t \in Hilos, PasarAExec(t)
    PROVE  Servida' /\ UNCHANGED <<avance, a_query>>
<1> PICK q \in Queries : q = hilo[t].query
  BY DEF PasarAExec, En, Parte, Sanos, HiloSano
<1>1. /\ UNCHANGED <<control, canales, caido, lista_workers_info>> /\ hilo \in [Hilos -> Hilo]
      /\ hilo[t].paso = "asignar" /\ q = hilo[t].query /\ query \in [Queries -> Query]
      /\ queries_exec \in Seq(Queries) /\ queries_exec' = Append(queries_exec, q) /\ q # SinQuery
  BY MasterAssumption DEF Parte, TypeOK, enchufes, PasarAExec, En, Sanos, HiloSano
<1>2. PICK m \in Leido(hilo[t].worker) :
         /\ query' = [query EXCEPT ![q].estado = "EXEC", ![q].worker = m, ![q].desalojada = FALSE]
         /\ hilo' = [hilo EXCEPT ![t].paso = "enviar", ![t].worker = m]
  BY DEF PasarAExec
<1>3. SoloMueve(t) /\ hilo'[t].paso = "enviar" /\ hilo'[t].query = q
  BY <1>1, <1>2 DEF SoloMueve, Hilo
<1>4. q \notin ToSet(queries_exec) /\ query[q].estado = "READY"
  BY <1>1 DEF Parte, Ubicadas, Llevadas, Lleva
<1>5. ASSUME NEW x \in Queries
      PROVE  /\ x # q => query'[x].worker = query[x].worker
             /\ query'[x].pc = query[x].pc
             /\ query'[x].estado = IF x = q THEN "EXEC" ELSE query[x].estado
  BY <1>1, <1>2 DEF Query
<1>6. ToSet(queries_exec') = ToSet(queries_exec) \union {q}
  BY <1>1, AgregarLista
<1>7. PorMandar'
  <2>1. \A u \in Hilos : u # t => hilo[u].paso # "enviar"
    BY <1>1, NadieMas DEF Fifo, Dentro
  <2> QED
    BY <1>1, <1>3, <1>6, <2>1, PorMandarTras DEF Servida
<1>8. \A x \in Queries : x # q => (Enviada(x)' <=> Enviada(x))
  BY <1>1, <1>3, <1>6, EnviadasTras
<1>9. ~Enviada(q) /\ ~Enviada(q)'
  BY <1>3, <1>4 DEF Enviada
<1> QED
  BY <1>1, <1>4, <1>5, <1>7, <1>8, <1>9, MasterServida

LEMMA FallarEnvioServida ==
    ASSUME Parte, Fifo, Servida, UNCHANGED <<control, enchufes>>, algoritmo = "FIFO",
           NEW t \in Hilos, FallarEnvio(t)
    PROVE  Servida' /\ UNCHANGED <<avance, a_query>>
<1> PICK q \in Queries : q = hilo[t].query
  BY DEF FallarEnvio, En, Parte, Sanos, HiloSano
<1>1. /\ UNCHANGED <<control, canales, caido, lista_workers_info>> /\ hilo \in [Hilos -> Hilo]
      /\ hilo[t].paso = "enviar" /\ q = hilo[t].query /\ query \in [Queries -> Query]
      /\ queries_exec \in Seq(Queries) /\ IsInjective(queries_exec)
  BY DEF Parte, TypeOK, enchufes, FallarEnvio, Sanos, HiloSano, Ubicadas, EnLasListas
<1>2. \A u \in Hilos : u # t => hilo[u].paso # "enviar"
  BY <1>1, NadieMas DEF Fifo, Dentro
<1>3. SoloMueve(t) /\ hilo'[t].paso # "enviar"
  <2>1. PICK h : hilo' = [hilo EXCEPT ![t] = h] /\ h.paso \in {"planificar", "soltar"}
    <3>1. \A m : [Afuera EXCEPT !.paso = "planificar", !.pila = m].paso = "planificar"
      BY DEF Afuera
    <3>2. [hilo[t] EXCEPT !.paso = "soltar"].paso = "soltar"
      BY <1>1 DEF Hilo
    <3> QED
      BY <1>1, <3>1, <3>2 DEF FallarEnvio
  <2> QED
    BY <1>1, <2>1 DEF SoloMueve
<1>4. /\ \A x \in Queries : x # q => (x \in ToSet(queries_exec') <=> x \in ToSet(queries_exec))
      /\ q \notin ToSet(queries_exec')
      /\ \A x \in Queries : /\ x # q => query'[x].worker = query[x].worker
                            /\ query'[x].pc = query[x].pc
                            /\ query'[x].estado = "EXIT" <=> query[x].estado = "EXIT"
  <2>1. CASE q \in ToSet(queries_exec) /\ DevolverAReady(q)
    <3>1. ToSet(queries_exec') = ToSet(queries_exec) \ {q}
      BY <1>1, <2>1, QuitarLista DEF DevolverAReady
    <3>2. query[q].estado = "EXEC"
      BY <2>1 DEF Parte, Ubicadas, EnLasListas
    <3>3. ASSUME NEW x \in Queries
          PROVE  /\ x # q => query'[x].worker = query[x].worker
                 /\ query'[x].pc = query[x].pc
                 /\ query'[x].estado = IF x = q THEN "READY" ELSE query[x].estado
      BY <1>1, <2>1 DEF DevolverAReady, Query
    <3> QED
      BY <3>1, <3>2, <3>3
  <2>2. CASE q \notin ToSet(queries_exec) /\ UNCHANGED <<query, queries_exec>>
    BY <2>2
  <2> QED
    BY <2>1, <2>2 DEF FallarEnvio
<1>5. PorMandar'
  BY <1>1, <1>2, <1>3, PorMandarTras DEF Servida
<1>6. \A x \in Queries : x # q => (Enviada(x)' <=> Enviada(x))
  BY <1>1, <1>3, <1>4, EnviadasTras
<1>7. ~Enviada(q) /\ ~Enviada(q)'
  BY <1>1, <1>4 DEF Enviada
<1> QED
  BY <1>1, <1>4, <1>5, <1>6, <1>7, MasterServida

\* A Worker that leaves the list has nothing left: it is down, and all it sent
\* has been read.
LEMMA DesconectarServida ==
    ASSUME Parte, Fifo, Servida, UNCHANGED <<control, enchufes>>, NEW w \in Workers, Desconectar(w)
    PROVE  Servida' /\ UNCHANGED <<avance, a_query>>
<1>1. /\ UNCHANGED <<control, canales, caido, query, queries_exec>> /\ hilo \in [Hilos -> Hilo]
      /\ w \in Hilos /\ hilo[w].paso = "libre" /\ hilo'[w].paso = "desconectar" /\ SoloMueve(w)
      /\ SinQuery \notin Queries
  BY MasterAssumption DEF Parte, TypeOK, enchufes, Hilos, Hilo, Desconectar, En, Pasa, SoloMueve
<1>2. ToSet(lista_workers_info') = ToSet(lista_workers_info) \ {w}
  BY QuitarLista DEF Desconectar, Parte, TypeOK, Fifo, Conectados
<1>3. Vacio(w)
  BY DEF Desconectar, Servida, SinCaidos, Vacio
<1>4. PorMandar'
  BY <1>1, <1>2, PorMandarTras DEF Servida
<1>5. \A x \in Queries : Enviada(x)' <=> Enviada(x)
  BY <1>1, EnviadasTras
<1> QED
  BY <1>1, <1>2, <1>3, <1>4, <1>5, MasterServida

\* A query is sent to a Worker that has nothing: it begins there.
LEMMA EnviarServida ==
    ASSUME Parte, Fifo, Servida, UNCHANGED <<control, enchufes>>, algoritmo = "FIFO",
           NEW t \in Hilos, Enviar(t)
    PROVE  Servida' /\ UNCHANGED <<avance, a_query>>
<1>1. PICK q \in Queries, w \in Workers :
         /\ q = hilo[t].query /\ w = hilo[t].worker /\ w \in ToSet(lista_workers_info)
         /\ Manda(w, EjecutarQuery(q, query[q].pc))
  <2>1. ToSet(lista_workers_info) \subseteq Workers
    BY ElementosLista DEF Parte, TypeOK
  <2>2. hilo[t].query \in Queries /\ Manda(hilo[t].worker, EjecutarQuery(hilo[t].query, query[hilo[t].query].pc))
    BY DEF Enviar, En, Parte, Sanos, HiloSano
  <2> QED
    BY <2>1, <2>2 DEF Manda
<1>2. /\ UNCHANGED <<control, caido, query, queries_exec, lista_workers_info, a_master, a_query>>
      /\ UNCHANGED <<ejecuciones, avance, escucha>>
      /\ hilo[t].paso = "enviar" /\ hilo' = Regreso(t) /\ hilo \in [Hilos -> Hilo] /\ w # SinWorker
      /\ query \in [Queries -> Query] /\ a_worker \in [Workers -> Seq(HaciaWorker)]
  BY MasterAssumption DEF Enviar, En, enchufes, control, Parte, TypeOK
<1>3. SoloMueve(t) /\ hilo'[t].paso # "enviar"
  BY <1>2 DEF SoloMueve, Regreso, Suelto, Afuera
<1>4. \A u \in Hilos : u # t => hilo[u].paso # "enviar"
  BY <1>2, NadieMas DEF Fifo, Dentro
<1>5. /\ q \in ToSet(queries_exec) /\ query[q].worker = w /\ ~Enviada(q)
      /\ \A x \in ToSet(queries_exec) : query[x].worker = w => x = q
  BY <1>1, <1>2 DEF Servida, PorMandar, Fifo, Repartidas, PorEnviar, Enviada
<1>6. Enviada(q)'
  BY <1>2, <1>3, <1>4, <1>5 DEF Enviada, SoloMueve
<1>7. Vacio(w)
  BY <1>5 DEF Servida, Ocupado, Enviada
<1>8. avance[q] = SinHacer /\ query[q].pc = 0
  BY <1>5 DEF Servida, Intactas, Parte, Ubicadas, EnLasListas
<1>9. \A x \in Queries : x # q => (Enviada(x)' <=> Enviada(x))
  BY <1>1, <1>2, <1>3, EnviadasTras
<1>10. /\ a_worker'[w] = IF w \in caido THEN <<>> ELSE <<EjecutarQuery(q, 0)>>
       /\ \A v \in Workers : v # w => a_worker'[v] = a_worker[v]
  <2>1. a_worker[w] = <<>> /\ Append(<<>>, EjecutarQuery(q, 0)) = <<EjecutarQuery(q, 0)>>
    BY <1>7 DEF Vacio
  <2> QED
    BY <1>1, <1>2, <1>8, <2>1 DEF Manda
<1>11. ASSUME NEW v \in Workers PROVE escucha'[v].paso = "lee" /\ (Vacio(v)' \/ Ocupado(v)')
  <2>1. CASE v = w
    <3>1. /\ a_master'[w] = <<>> /\ Vivas(w)' = {} /\ avance'[q] = SinHacer
          /\ a_worker'[w] \in {<<>>, <<EjecutarQuery(q, 0)>>}
      BY <1>2, <1>7, <1>8, <1>10 DEF Vacio, Vivas
    <3>2. Cauce(w, q)'
      BY <3>1 DEF Cauce, SinHacer
    <3> QED
      BY <1>1, <1>2, <1>5, <1>6, <2>1, <3>2 DEF Ocupado, Servida
  <2>2. CASE v # w
    BY <1>2, <1>5, <1>9, <1>10, <2>2, OtrosServidos DEF Servida
  <2> QED
    BY <2>1, <2>2
<1>12. Intactas'
  <2>1. \A x \in Queries : Intactas =>
           /\ query'[x].pc = 0 /\ a_query'[x].lecturas \subseteq {x}
           /\ query'[x].estado # "EXIT" => a_query'[x].finales = <<>>
           /\ query'[x].estado # "EXIT" /\ ~Enviada(x)' => avance'[x] = SinHacer
    BY <1>2, <1>6, <1>9 DEF Intactas
  <2> QED
    BY <2>1 DEF Servida, Intactas, SinHacer
<1>13. SinCaidos'
  BY <1>2, <1>7, <1>10 DEF Servida, SinCaidos, Vivas, Vacio, Parte, TypeOK
<1>14. PorMandar'
  BY <1>2, <1>3, <1>4, PorMandarTras DEF Servida
<1> QED
  BY <1>2, <1>11, <1>12, <1>13, <1>14 DEF Servida

\* A Worker whose messages are read has a query in EXEC, and they are about it.
LEMMA HayMensaje ==
    ASSUME Parte, Fifo, Servida, NEW w \in Workers, a_master[w] # <<>>
    PROVE  \E q \in Queries :
              /\ Enviada(q) /\ query[q].worker = w /\ query[q].estado = "EXEC" /\ Cauce(w, q)
              /\ w \in ToSet(lista_workers_info) /\ EnWorker(w) # {} /\ PrimeraEn(w) = q
              /\ a_worker[w] = <<>> /\ a_query[q].finales = <<>>
              /\ Len(a_master[w]) \in Nat \ {0} /\ DOMAIN a_master[w] = 1 .. Len(a_master[w])
              /\ Head(a_master[w]) = a_master[w][1] /\ Head(a_master[w]).query = q
<1>1. PICK q \in Queries : /\ Enviada(q) /\ query[q].worker = w /\ Cauce(w, q)
                           /\ w \in ToSet(lista_workers_info)
  BY DEF Servida, Vacio, Ocupado
<1>2. q \in ToSet(queries_exec) /\ query[q].estado = "EXEC"
  BY <1>1 DEF Enviada, Parte, Ubicadas, EnLasListas
<1>3. EnWorker(w) # {} /\ PrimeraEn(w) = q
  BY <1>1, <1>2, PrimeraUnica
<1>4. a_worker[w] = <<>> /\ a_query[q].finales = <<>>
  BY <1>1, <1>2 DEF Cauce, Servida, Intactas
<1>5. /\ Len(a_master[w]) \in Nat \ {0} /\ DOMAIN a_master[w] = 1 .. Len(a_master[w])
      /\ Head(a_master[w]) = a_master[w][1]
  <2>1. a_master[w] \in Seq(HaciaMaster)
    BY DEF Parte, TypeOK
  <2> QED
    BY <2>1, EmptySeq, LenProperties, HeadTailProperties
<1>6. Head(a_master[w]).query = q
  <2>1. 1 \in DOMAIN a_master[w]
    BY <1>5
  <2> QED
    BY <1>1, <1>5, <2>1 DEF Cauce
<1> QED
  BY <1>1, <1>2, <1>3, <1>4, <1>5, <1>6

LEMMA RecibirLecturaServida ==
    ASSUME Parte, Fifo, Servida, UNCHANGED <<control, enchufes>>, NEW w \in Workers, RecibirLectura(w)
    PROVE  Servida' /\ S!Next
<1>1. a_master[w] # <<>> /\ Head(a_master[w]).tipo = "LECTURA_REALIZADA"
  BY DEF RecibirLectura, Lee, Llega
<1>2. PICK q \in Queries :
         /\ Enviada(q) /\ query[q].worker = w /\ query[q].estado = "EXEC" /\ Cauce(w, q)
         /\ w \in ToSet(lista_workers_info) /\ EnWorker(w) # {} /\ PrimeraEn(w) = q
         /\ a_worker[w] = <<>> /\ a_query[q].finales = <<>>
         /\ Len(a_master[w]) \in Nat \ {0} /\ DOMAIN a_master[w] = 1 .. Len(a_master[w])
         /\ Head(a_master[w]) = a_master[w][1] /\ Head(a_master[w]).query = q
  BY <1>1, HayMensaje
<1>3. /\ UNCHANGED <<control, caido, query, queries_exec, lista_workers_info, hilo, a_worker>>
      /\ UNCHANGED <<ejecuciones, avance, escucha>> /\ a_master' = [a_master EXCEPT ![w] = Tail(@)]
      /\ a_master \in [Workers -> Seq(HaciaMaster)] /\ a_query \in [Queries -> HaciaQuery]
  BY DEF RecibirLectura, master, enchufes, control, Parte, TypeOK
<1>4. avance[q].hechas > 0 \/ avance[q].fallo
  <2>1. 1 \in DOMAIN a_master[w]
    BY <1>2
  <2> QED
    BY <1>1, <1>2, <2>1 DEF Cauce
<1>5. a_query' = [a_query EXCEPT ![q].lecturas = {q}]
  <2>1. a_query[q].lecturas \union {q} = {q}
    BY DEF Servida, Intactas
  <2>2. a_query' = [x \in Queries |-> IF x = q THEN [a_query[x] EXCEPT !.lecturas = @ \union {q}]
                                               ELSE a_query[x]]
    BY <1>2 DEF RecibirLectura
  <2>3. [a_query[q] EXCEPT !.lecturas = @ \union {q}] = [a_query[q] EXCEPT !.lecturas = {q}]
    BY <2>1, <1>3 DEF HaciaQuery
  <2> QED
    BY <1>3, <2>2, <2>3
<1>6. S!Next
  BY <1>2, <1>3, <1>4, <1>5 DEF S!Next, S!Leer
<1>7. \A x \in Queries : Enviada(x)' <=> Enviada(x)
  BY <1>3 DEF Enviada
<1>8. Cauce(w, q)'
  <2>1. a_master'[w] = Tail(a_master[w]) /\ a_worker'[w] = <<>> /\ Vivas(w)' = Vivas(w)
    BY <1>2, <1>3 DEF Vivas
  <2>2. /\ DOMAIN a_master'[w] = 1 .. Len(a_master[w]) - 1 /\ Len(a_master'[w]) = Len(a_master[w]) - 1
        /\ \A k \in 1 .. Len(a_master[w]) - 1 : a_master'[w][k] = a_master[w][k + 1]
    BY <1>1, <1>3, <2>1, HeadTailProperties, LenProperties
  <2>3. ASSUME NEW k \in DOMAIN a_master'[w]
        PROVE  /\ k + 1 \in DOMAIN a_master[w] /\ a_master'[w][k] = a_master[w][k + 1]
               /\ k + 1 = Len(a_master[w]) <=> k = Len(a_master'[w])
    <3> DEFINE n == Len(a_master[w])
               r == Len(a_master'[w])
    <3>1. n \in Nat /\ r = n - 1 /\ k \in 1 .. n - 1
      BY <1>2, <2>2
    <3>2. k + 1 \in DOMAIN a_master[w] /\ a_master'[w][k] = a_master[w][k + 1]
      BY <1>2, <2>2, <3>1
    <3> HIDE DEF n, r
    <3>3. k + 1 = n <=> k = r
      BY <3>1
    <3> QED
      BY <3>2, <3>3 DEF n, r
  <2> QED
    BY <1>2, <1>3, <2>1, <2>3 DEF Cauce
<1>9. ASSUME NEW v \in Workers PROVE escucha'[v].paso = "lee" /\ (Vacio(v)' \/ Ocupado(v)')
  <2>1. CASE v = w
    BY <1>2, <1>3, <1>7, <1>8, <2>1 DEF Ocupado, Servida
  <2>2. CASE v # w
    BY <1>2, <1>3, <1>7, <2>2, OtrosServidos DEF Servida
  <2> QED
    BY <2>1, <2>2
<1>10. Intactas'
  <2>1. \A x \in Queries :
           /\ a_query'[x].finales = a_query[x].finales
           /\ a_query'[x].lecturas = IF x = q THEN {q} ELSE a_query[x].lecturas
    BY <1>3, <1>5 DEF HaciaQuery
  <2>2. \A x \in Queries : Intactas =>
           /\ query'[x].pc = 0 /\ a_query'[x].lecturas \subseteq {x}
           /\ query'[x].estado # "EXIT" => a_query'[x].finales = <<>>
           /\ query'[x].estado # "EXIT" /\ ~Enviada(x)' => avance'[x] = SinHacer
    BY <1>3, <1>7, <2>1 DEF Intactas
  <2> QED
    BY <2>2 DEF Servida, Intactas, SinHacer
<1>11. SinCaidos' /\ PorMandar'
  BY <1>3 DEF Servida, SinCaidos, Vivas, PorMandar
<1> QED
  BY <1>6, <1>9, <1>10, <1>11 DEF Servida

\* The end of the query that was on a Worker, which has nothing else.
LEMMA FinServida ==
    ASSUME Parte, Fifo, Servida, NEW w \in Workers, NEW q \in Queries, NEW motivo,
           q \in ToSet(queries_exec), query[q].worker = w, Enviada(q) \/ w \notin ToSet(lista_workers_info),
           queries_exec' = RemoveFirst(queries_exec, q), query' = [query EXCEPT ![q].estado = "EXIT"],
           UNCHANGED <<control, caido, lista_workers_info, a_worker>>,
           \A v \in Workers : v # w => a_master'[v] = a_master[v], Vacio(w)',
           hilo[w].paso # "enviar", Pasa(w, "planificar"),
           Cierto(motivo, avance[q]) \/ motivo = "ERROR_DESCONEXION_WORKER",
           a_query' = [a_query EXCEPT ![q].finales = Append(@, <<q, motivo>>)]
    PROVE  Servida' /\ S!Next
<1>1. /\ UNCHANGED <<ejecuciones, avance, escucha>> /\ hilo \in [Hilos -> Hilo] /\ w \in Hilos
      /\ queries_exec \in Seq(Queries) /\ IsInjective(queries_exec) /\ w # SinWorker
      /\ query \in [Queries -> Query] /\ a_query \in [Queries -> HaciaQuery] /\ query[q].estado = "EXEC"
  BY MasterAssumption DEF control, Parte, TypeOK, Hilos, Ubicadas, EnLasListas
<1>2. SoloMueve(w) /\ hilo'[w].paso = "planificar"
  BY <1>1 DEF SoloMueve, Pasa, Hilo
<1>3. ToSet(queries_exec') = ToSet(queries_exec) \ {q}
  BY <1>1, QuitarLista
<1>4. ~Enviada(q)' /\ \A x \in Queries : x # q => (Enviada(x)' <=> Enviada(x))
  <2>1. ~Enviada(q)'
    BY <1>3 DEF Enviada
  <2>2. \A x \in Queries : x # q => (Enviada(x)' <=> Enviada(x))
    BY <1>1, <1>2, <1>3, EnviadasTras
  <2> QED
    BY <2>1, <2>2
<1>5. ASSUME NEW x \in Queries
      PROVE  /\ query'[x].worker = query[x].worker /\ query'[x].pc = query[x].pc
             /\ query'[x].estado = IF x = q THEN "EXIT" ELSE query[x].estado
             /\ a_query'[x].lecturas = a_query[x].lecturas
             /\ x # q => a_query'[x].finales = a_query[x].finales
  BY <1>1 DEF Query, HaciaQuery
<1>6. a_query[q].finales = <<>> /\ a_query' = [a_query EXCEPT ![q].finales = << <<q, motivo>> >>]
  <2>1. a_query[q].finales = <<>>
    BY <1>1 DEF Servida, Intactas
  <2>2. Append(<<>>, <<q, motivo>>) = << <<q, motivo>> >>
    OBVIOUS
  <2> QED
    BY <2>1, <2>2
<1>7. S!Next
  BY <1>1, <1>6 DEF S!Next, S!Finalizar, Cierto
<1>8. ASSUME NEW v \in Workers PROVE escucha'[v].paso = "lee" /\ (Vacio(v)' \/ Ocupado(v)')
  <2>1. CASE v # w
    <3>1. a_worker'[v] = a_worker[v] /\ a_master'[v] = a_master[v] /\ query[q].worker # v
      BY <2>1
    <3>2. Vacio(v)' \/ Ocupado(v)'
      BY <1>4, <1>5, <3>1, OtrosServidos
    <3> QED
      BY <1>1, <3>2 DEF Servida
  <2> QED
    BY <1>1, <2>1 DEF Servida
<1>9. Intactas'
  <2>1. \A x \in Queries : Intactas =>
           /\ query'[x].pc = 0 /\ a_query'[x].lecturas \subseteq {x}
           /\ query'[x].estado # "EXIT" => a_query'[x].finales = <<>>
           /\ query'[x].estado # "EXIT" /\ ~Enviada(x)' => avance'[x] = SinHacer
    BY <1>1, <1>4, <1>5 DEF Intactas
  <2> QED
    BY <2>1 DEF Servida, Intactas, SinHacer
<1>10. SinCaidos'
  BY <1>1 DEF Servida, SinCaidos, Vivas
<1>11. PorMandar'
  <2>1. ASSUME NEW u \in Hilos, hilo[u].paso = "enviar", hilo[u].worker \in ToSet(lista_workers_info)
        PROVE  hilo[u].query # q
    BY <2>1 DEF Enviada, Fifo, Repartidas, PorEnviar
  <2> QED
    BY <1>1, <1>2, <1>3, <2>1, PorMandarTras DEF Servida
<1> QED
  BY <1>7, <1>8, <1>9, <1>10, <1>11 DEF Servida

LEMMA RecibirFinServida ==
    ASSUME Parte, Fifo, Servida, UNCHANGED <<control, enchufes>>, NEW w \in Workers, RecibirFin(w)
    PROVE  Servida' /\ S!Next
<1>1. /\ a_master[w] # <<>> /\ Head(a_master[w]).tipo = "QUERY_FINALIZADA" /\ hilo[w].paso = "libre"
  BY DEF RecibirFin, Lee, Llega, En
<1>2. PICK q \in Queries :
         /\ Enviada(q) /\ query[q].worker = w /\ query[q].estado = "EXEC" /\ Cauce(w, q)
         /\ w \in ToSet(lista_workers_info) /\ EnWorker(w) # {} /\ PrimeraEn(w) = q
         /\ a_worker[w] = <<>> /\ a_query[q].finales = <<>>
         /\ Len(a_master[w]) \in Nat \ {0} /\ DOMAIN a_master[w] = 1 .. Len(a_master[w])
         /\ Head(a_master[w]) = a_master[w][1] /\ Head(a_master[w]).query = q
  BY <1>1, HayMensaje
<1>3. PICK m : m = Head(a_master[w])
  OBVIOUS
<1>4. m.query = q /\ Len(a_master[w]) = 1 /\ Vivas(w) = {} /\ Cierto(m.motivo, avance[q])
  <2>1. 1 \in DOMAIN a_master[w]
    BY <1>2
  <2> QED
    BY <1>1, <1>2, <1>3, <2>1 DEF Cauce
<1>5. /\ a_master' = [a_master EXCEPT ![w] = Tail(@)] /\ UNCHANGED <<lista_workers_info, a_worker>>
      /\ a_query' = [a_query EXCEPT ![q].finales = Append(@, <<q, m.motivo>>)]
      /\ queries_exec' = RemoveFirst(queries_exec, q) /\ query' = [query EXCEPT ![q].estado = "EXIT"]
      /\ Pasa(w, "planificar") /\ UNCHANGED <<control, caido>>
  BY <1>2, <1>3, <1>4 DEF RecibirFin, PlanificaAlTerminar, enchufes
<1>6. Vacio(w)' /\ \A v \in Workers : v # w => a_master'[v] = a_master[v]
  <2>1. a_master \in [Workers -> Seq(HaciaMaster)]
    BY DEF Parte, TypeOK
  <2>2. Tail(a_master[w]) = <<>>
    <3>1. Tail(a_master[w]) \in Seq(HaciaMaster) /\ Len(Tail(a_master[w])) = 0
      BY <1>1, <1>4, <2>1, HeadTailProperties
    <3> QED
      BY <3>1, EmptySeq
  <2> QED
    BY <1>2, <1>4, <1>5, <2>1, <2>2 DEF Vacio, Vivas, control
<1> QED
  BY <1>1, <1>2, <1>4, <1>5, <1>6, FinServida DEF Enviada

LEMMA FinalizarQueryServida ==
    ASSUME Parte, Fifo, Servida, UNCHANGED <<control, enchufes>>, NEW w \in Workers, FinalizarQueryDe(w)
    PROVE  Servida' /\ (S!Next \/ UNCHANGED <<avance, a_query>>)
<1>1. /\ hilo[w].paso = "desconectar" /\ w \notin ToSet(lista_workers_info) /\ Pasa(w, "planificar")
      /\ UNCHANGED <<control, caido, lista_workers_info, a_worker, a_master>>
      /\ hilo \in [Hilos -> Hilo] /\ w \in Hilos /\ SinQuery \notin Queries
  BY MasterAssumption
     DEF FinalizarQueryDe, En, Fifo, Conectados, enchufes, Parte, TypeOK, Hilos
<1>2. Vacio(w) /\ Vacio(w)'
  BY <1>1 DEF Servida, Ocupado, Vacio, Vivas, control
<1>3. CASE EnWorker(w) # {} /\ FinalizarPorCaida(PrimeraEn(w))
  <2>1. PICK q \in Queries : q = PrimeraEn(w) /\ q \in ToSet(queries_exec) /\ query[q].worker = w
    BY <1>3, PartesDelTipo, PrimeraEnHay DEF Parte
  <2>2. /\ queries_exec' = RemoveFirst(queries_exec, q) /\ query' = [query EXCEPT ![q].estado = "EXIT"]
        /\ a_query' = [a_query EXCEPT ![q].finales = Append(@, <<q, "ERROR_DESCONEXION_WORKER">>)]
    BY <1>3, <2>1 DEF FinalizarPorCaida
  <2> QED
    BY <1>1, <1>2, <2>1, <2>2, FinServida
<1>4. CASE UNCHANGED <<query, queries_exec, a_query>>
  <2>1. SoloMueve(w) /\ hilo'[w].paso = "planificar"
    BY <1>1 DEF SoloMueve, Pasa, Hilo
  <2>2. PorMandar'
    BY <1>1, <1>4, <2>1, PorMandarTras DEF Servida
  <2>3. \A x \in Queries : Enviada(x)' <=> Enviada(x)
    BY <1>1, <1>4, <2>1, EnviadasTras
  <2>4. UNCHANGED <<control, canales, caido>>
    BY <1>1, <1>4 DEF canales
  <2> QED
    BY <1>1, <1>4, <2>2, <2>3, <2>4, MasterServida
<1> QED
  BY <1>3, <1>4 DEF FinalizarQueryDe

LEMMA NextMasterServida ==
    ASSUME Parte, Fifo, Servida, algoritmo = "FIFO", NextMaster, UNCHANGED <<control, enchufes>>
    PROVE  Servida' /\ (S!Next \/ UNCHANGED <<avance, a_query>>)
<1>1. CASE \/ \E q \in Queries, p \in Prioridades : ConectarQuery(q, p)
           \/ \E w \in Workers : ConectarWorker(w) \/ IniciarSemaforo(w)
  BY <1>1, ConectarServida
<1>2. ASSUME NEW q \in Queries, Envejecer(q) PROVE FALSE
  BY <1>2, SoloFifo DEF Hilos
<1>3. ASSUME NEW t \in Hilos, Planificacion(t) PROVE Servida' /\ UNCHANGED <<avance, a_query>>
  BY <1>3, SoloFifo, PlanificarServida, PasarAExecServida, EnviarServida, FallarEnvioServida
<1>4. ASSUME NEW w \in Workers, DescartarFin(w) \/ RecibirDesalojo(w) PROVE FALSE
  <2>1. a_master[w] # <<>> /\ ~ RecibirDesalojo(w)
    BY <1>4, SinDesalojos DEF DescartarFin, RecibirDesalojo, Lee, Llega
  <2> QED
    BY <1>4, <2>1, HayMensaje DEF DescartarFin
<1>5. ASSUME NEW w \in Workers, Lectura(w), ~ IniciarSemaforo(w)
      PROVE  Servida' /\ (S!Next \/ UNCHANGED <<avance, a_query>>)
  BY <1>4, <1>5, RecibirLecturaServida, RecibirFinServida, DesconectarServida, FinalizarQueryServida
     DEF Lectura
<1> QED
  BY <1>1, <1>2, <1>3, <1>5 DEF NextMaster

-----------------------------------------------------------------------------
\* A thread with a line left is the only one of its Worker, and what it executes
\* is the query that the Master has there.
LEMMA UnaViva ==
    ASSUME Parte, Servida, NEW w \in Workers, NEW e \in ejecuciones[w], e.pc < Lineas
    PROVE  \E q \in Queries :
              /\ q = e.query /\ w \in ToSet(lista_workers_info) /\ Enviada(q) /\ query[q].worker = w
              /\ Cauce(w, q) /\ a_worker[w] = <<>> /\ Vivas(w) = {e} /\ e \in Ejecucion
              /\ e.pc = avance[q].hechas /\ ~avance[q].fallo /\ a_query[q].finales = <<>>
              /\ DOMAIN a_master[w] = 1 .. Len(a_master[w]) /\ Len(a_master[w]) \in Nat
              /\ \A k \in 1 .. Len(a_master[w]) : LET m == a_master[w][k] IN
                    m.query = q /\ m.tipo = "LECTURA_REALIZADA" /\ avance[q].hechas > 0
<1>1. e \in Vivas(w) /\ e \in Ejecucion
  BY DEF Vivas, Parte, TypeOK
<1>2. PICK q \in Queries : /\ Enviada(q) /\ query[q].worker = w /\ Cauce(w, q)
                           /\ w \in ToSet(lista_workers_info)
  BY <1>1 DEF Servida, Vacio, Ocupado
<1>3. /\ q = e.query /\ e.pc = avance[q].hechas /\ ~avance[q].fallo /\ Vivas(w) = {e}
      /\ a_worker[w] = <<>>
  BY <1>1, <1>2 DEF Cauce
<1>4. a_query[q].finales = <<>>
  BY <1>2 DEF Enviada, Servida, Intactas, Parte, Ubicadas, EnLasListas
<1>5. DOMAIN a_master[w] = 1 .. Len(a_master[w]) /\ Len(a_master[w]) \in Nat
  BY LenProperties DEF Parte, TypeOK
<1>6. ASSUME NEW k \in 1 .. Len(a_master[w])
      PROVE  /\ a_master[w][k].query = q /\ a_master[w][k].tipo = "LECTURA_REALIZADA"
             /\ avance[q].hechas > 0
  BY <1>1, <1>2, <1>3, <1>5 DEF Cauce
<1> QED
  BY <1>1, <1>2, <1>3, <1>4, <1>5, <1>6

\* A step of that thread with nothing to tell the Master.
LEMMA CallaServida ==
    ASSUME Parte, Servida, NEW w \in Workers, NEW e \in ejecuciones[w], e.pc < Lineas,
           UNCHANGED <<master, canales, escucha, avance, caido>>,
           \A v \in Workers : v # w => ejecuciones'[v] = ejecuciones[v],
           \A f \in Vivas(w)' : f.query = e.query /\ f.pc = e.pc /\ Vivas(w)' = {f}
    PROVE  Servida'
<1>1. PICK q \in Queries :
         /\ q = e.query /\ w \in ToSet(lista_workers_info) /\ Enviada(q) /\ query[q].worker = w
         /\ Cauce(w, q) /\ a_worker[w] = <<>> /\ Vivas(w) = {e} /\ e \in Ejecucion
         /\ e.pc = avance[q].hechas /\ ~avance[q].fallo /\ a_query[q].finales = <<>>
         /\ DOMAIN a_master[w] = 1 .. Len(a_master[w]) /\ Len(a_master[w]) \in Nat
         /\ \A k \in 1 .. Len(a_master[w]) : LET m == a_master[w][k] IN
               m.query = q /\ m.tipo = "LECTURA_REALIZADA" /\ avance[q].hechas > 0
  BY UnaViva
<1>2. UNCHANGED <<a_worker, a_master, a_query, escucha, avance, caido>>
  BY DEF canales
<1>3. Cauce(w, q)'
  <2>1. ASSUME NEW k \in DOMAIN a_master'[w]
        PROVE  /\ a_master'[w][k].query = q /\ a_master'[w][k].tipo = "LECTURA_REALIZADA"
               /\ avance'[q].hechas > 0
    BY <1>1, <1>2, <2>1
  <2>2. \A f \in Vivas(w)' : f.query = q /\ f.pc = avance'[q].hechas /\ ~avance'[q].fallo
                             /\ Vivas(w)' = {f}
    BY <1>1, <1>2
  <2> QED
    BY <1>1, <1>2, <2>1, <2>2 DEF Cauce
<1>4. escucha'[w].paso = "lee" /\ w \notin caido'
  BY <1>1, <1>2 DEF Servida, SinCaidos
<1> QED
  BY <1>1, <1>2, <1>3, <1>4, WorkerServida

\* What a thread may tell of q: readings and, if no thread is left, its end.
Noticias(q, r, av, vivas) ==
    \A k \in 1 .. Len(r) :
        /\ r[k].query = q
        /\ \/ r[k].tipo = "LECTURA_REALIZADA"
           \/ /\ r[k].tipo = "QUERY_FINALIZADA" /\ k = Len(r) /\ vivas = {}
              /\ Cierto(r[k].motivo, av)

\* A step of that thread that takes the query further and tells the Master r.
LEMMA AvisaServida ==
    ASSUME Parte, Servida, NEW w \in Workers, NEW e \in ejecuciones[w], e.pc < Lineas,
           UNCHANGED <<master, a_query, a_worker, escucha, caido>>,
           \A v \in Workers : v # w => ejecuciones'[v] = ejecuciones[v],
           NEW r \in Seq(HaciaMaster), Avisar(w, r),
           \A x \in Queries : x # e.query => avance'[x] = avance[x],
           avance'[e.query].hechas > 0 \/ avance'[e.query].fallo,
           \A f \in Vivas(w)' : /\ f.query = e.query /\ f.pc = avance'[e.query].hechas
                                /\ ~avance'[e.query].fallo /\ Vivas(w)' = {f},
           Noticias(e.query, r, avance'[e.query], Vivas(w)')
    PROVE  Servida'
<1>1. PICK q \in Queries :
         /\ q = e.query /\ w \in ToSet(lista_workers_info) /\ Enviada(q) /\ query[q].worker = w
         /\ Cauce(w, q) /\ a_worker[w] = <<>> /\ Vivas(w) = {e} /\ e \in Ejecucion
         /\ e.pc = avance[q].hechas /\ ~avance[q].fallo /\ a_query[q].finales = <<>>
         /\ DOMAIN a_master[w] = 1 .. Len(a_master[w]) /\ Len(a_master[w]) \in Nat
         /\ \A k \in 1 .. Len(a_master[w]) : LET m == a_master[w][k] IN
               m.query = q /\ m.tipo = "LECTURA_REALIZADA" /\ avance[q].hechas > 0
  BY UnaViva
<1>2. /\ \A x \in Queries : x # q => avance'[x] = avance[x]
      /\ a_master \in [Workers -> Seq(HaciaMaster)]
  BY <1>1 DEF Parte, TypeOK
<1> DEFINE c == a_master[w]
           s == c \o r
<1>3. a_master'[w] = s /\ \A v \in Workers : v # w => a_master'[v] = a_master[v]
  BY <1>2 DEF Avisar
<1>4. /\ DOMAIN s = 1 .. Len(c) + Len(r) /\ Len(s) = Len(c) + Len(r)
      /\ Len(c) \in Nat /\ Len(r) \in Nat
      /\ \A k \in 1 .. Len(c) + Len(r) : s[k] = IF k <= Len(c) THEN c[k] ELSE r[k - Len(c)]
  BY <1>2, ConcatProperties, LenProperties
<1>5. ASSUME NEW k \in DOMAIN a_master'[w]
      PROVE  /\ a_master'[w][k].query = q
             /\ \/ a_master'[w][k].tipo = "LECTURA_REALIZADA"
                \/ /\ a_master'[w][k].tipo = "QUERY_FINALIZADA" /\ k = Len(a_master'[w])
                   /\ Vivas(w)' = {} /\ Cierto(a_master'[w][k].motivo, avance'[q])
  <2>1. k \in 1 .. Len(c) + Len(r) /\ a_master'[w][k] = s[k]
    BY <1>3, <1>4
  <2>2. CASE k <= Len(c)
    BY <1>1, <1>4, <2>1, <2>2
  <2>3. CASE ~ (k <= Len(c))
    <3> DEFINE n == Len(c)
               i == Len(r)
               j == k - n
    <3>0. n \in Nat /\ i \in Nat /\ k \in 1 .. n + i /\ ~ (k <= n) /\ j = k - n
      BY <1>4, <2>1, <2>3
    <3>1. j \in 1 .. Len(r) /\ s[k] = r[j] /\ (j = Len(r) => k = Len(s))
      <4>1. s[k] = r[j] /\ Len(s) = n + i
        BY <1>4, <2>1, <2>3
      <4> HIDE DEF n, i, j, s
      <4>2. j \in 1 .. i /\ (j = i => k = n + i)
        BY <3>0
      <4> QED
        BY <4>1, <4>2 DEF i
    <3> HIDE DEF j, s
    <3> QED
      BY <1>1, <1>3, <2>1, <3>1 DEF Noticias
  <2> QED
    BY <2>2, <2>3
<1> HIDE DEF s, c
<1>6. Cauce(w, q)'
  <2>1. \A f \in Vivas(w)' : f.query = q /\ f.pc = avance'[q].hechas /\ ~avance'[q].fallo
                             /\ Vivas(w)' = {f}
    BY <1>1, <1>2
  <2>2. a_worker'[w] = <<>> /\ (avance'[q].hechas > 0 \/ avance'[q].fallo)
    BY <1>1, <1>2
  <2> QED
    BY <1>2, <1>5, <2>1, <2>2 DEF Cauce, Cierto
<1>7. escucha'[w].paso = "lee" /\ w \notin caido'
  BY <1>1 DEF Servida, SinCaidos
<1> QED
  BY <1>1, <1>2, <1>3, <1>6, <1>7, WorkerServida

LEMMA EscucharServida ==
    ASSUME Parte, Servida, UNCHANGED <<master, enchufes>>, NEW w \in Workers, Escuchar(w)
    PROVE  Servida' /\ UNCHANGED <<avance, a_query>>
<1>1. escucha[w].paso = "lee" /\ a_worker[w] # <<>>
  BY DEF Servida, Escuchar, LeerEjecutar, LeerDesalojar, ResponderDesalojo, Llega
<1>2. PICK q \in Queries : /\ Enviada(q) /\ query[q].worker = w /\ Cauce(w, q)
                           /\ w \in ToSet(lista_workers_info)
  BY <1>1 DEF Servida, Vacio, Ocupado
<1>3. /\ a_worker[w] = <<EjecutarQuery(q, 0)>> /\ a_master[w] = <<>> /\ Vivas(w) = {}
      /\ avance[q].hechas = 0 /\ avance[q].fallo = FALSE
  BY <1>1, <1>2 DEF Cauce, SinHacer
<1>4. Head(a_worker[w]) = EjecutarQuery(q, 0) /\ Tail(a_worker[w]) = <<>>
  BY <1>3
<1>5. LeerEjecutar(w)
  BY <1>1, <1>4 DEF Escuchar, LeerDesalojar, ResponderDesalojo, Llega, EjecutarQuery
<1> DEFINE e == [query |-> q, pc |-> 0, paso |-> "espera"]
<1>6. /\ ejecuciones'[w] = ejecuciones[w] \union {e}
      /\ \A v \in Workers : v # w => ejecuciones'[v] = ejecuciones[v] /\ a_worker'[v] = a_worker[v]
      /\ a_worker'[w] = <<>> /\ UNCHANGED <<escucha, avance, a_master, a_query, caido>>
  BY <1>4, <1>5 DEF LeerEjecutar, EjecutarQuery, enchufes, Parte, TypeOK
<1>7. e.query = q /\ e.pc = 0 /\ 0 < Lineas
  BY LineasAssumption
<1> HIDE DEF e
<1>8. Vivas(w)' = {e}
  <2>1. \A f \in ejecuciones[w] : ~ (f.pc < Lineas)
    BY <1>3 DEF Vivas
  <2>2. Vivas(w)' = {f \in ejecuciones[w] \union {e} : f.pc < Lineas}
    BY <1>6 DEF Vivas
  <2> QED
    BY <1>7, <2>1, <2>2
<1>9. Cauce(w, q)'
  <2>1. a_master'[w] = <<>> /\ avance'[q] = avance[q] /\ DOMAIN <<>> = {}
    BY <1>3, <1>6
  <2> QED
    BY <1>3, <1>6, <1>7, <1>8, <2>1 DEF Cauce
<1>10. w \notin caido /\ escucha'[w].paso = "lee"
  BY <1>1, <1>6 DEF Servida, SinCaidos
<1>11. /\ UNCHANGED <<master, a_query>> /\ caido' \subseteq caido \union {w}
       /\ \A v \in Workers : v # w => /\ a_worker'[v] = a_worker[v] /\ a_master'[v] = a_master[v]
                                      /\ ejecuciones'[v] = ejecuciones[v]
                                      /\ escucha'[v] = escucha[v]
       /\ \A x \in Queries : avance'[x] = avance[x]
  BY <1>6
<1> QED
  BY <1>2, <1>6, <1>9, <1>10, <1>11, WorkerServida

\* What is left of the thread when it ends, or goes on to the next line.
LEMMA TrasLaLinea ==
    ASSUME Parte, NEW w \in Workers, NEW e \in ejecuciones[w], Vivas(w) = {e}, Sigue(w, e) \/ Termina(w, e)
    PROVE  /\ \A v \in Workers : v # w => ejecuciones'[v] = ejecuciones[v]
           /\ \A f \in Vivas(w)' : f.query = e.query /\ f.pc = e.pc + 1 /\ Vivas(w)' = {f}
           /\ Termina(w, e) \/ e.pc + 1 = Lineas => Vivas(w)' = {}
<1>1. ejecuciones \in [Workers -> SUBSET Ejecucion] /\ e \in Ejecucion
  BY DEF Parte, TypeOK
<1>2. \A f \in ejecuciones[w] : f # e => ~ (f.pc < Lineas)
  BY DEF Vivas
<1>3. CASE Termina(w, e)
  <2>1. /\ ejecuciones'[w] = ejecuciones[w] \ {e}
        /\ \A v \in Workers : v # w => ejecuciones'[v] = ejecuciones[v]
    BY <1>1, <1>3 DEF Termina
  <2>2. Vivas(w)' = {}
    BY <1>2, <2>1 DEF Vivas
  <2> QED
    BY <2>1, <2>2
<1>4. CASE Avanza(w, e) /\ ~Termina(w, e)
  <2> DEFINE g == [e EXCEPT !.pc = @ + 1]
  <2>1. g.query = e.query /\ g.pc = e.pc + 1
    BY <1>1 DEF Ejecucion
  <2>2. /\ ejecuciones'[w] = (ejecuciones[w] \ {e}) \union {g}
        /\ \A v \in Workers : v # w => ejecuciones'[v] = ejecuciones[v]
    BY <1>1, <1>4 DEF Avanza
  <2> HIDE DEF g
  <2>3. Vivas(w)' = IF g.pc < Lineas THEN {g} ELSE {}
    <3>1. Vivas(w)' = {f \in (ejecuciones[w] \ {e}) \union {g} : f.pc < Lineas}
      BY <2>2 DEF Vivas
    <3> QED
      BY <1>2, <3>1
  <2>4. Lineas \in Nat
    BY LineasAssumption
  <2> QED
    BY <1>4, <2>1, <2>2, <2>3, <2>4
<1> QED
  BY <1>3, <1>4 DEF Sigue

\* Readings, and at the end what the Storage refused.
AvisoDeError(l, q) == l \o Rechazos(q, 1) \o <<>>

LEMMA AvisoDe ==
    ASSUME NEW e \in Ejecucion, NEW q \in Queries, q = e.query, NEW l \in Lecturas(e), Lineas \in Nat
    PROVE  /\ l \in Seq(HaciaMaster)
           /\ \A k \in 1 .. Len(l) : l[k].query = q /\ l[k].tipo = "LECTURA_REALIZADA"
           /\ AvisoDeError(l, q) \in Seq(HaciaMaster)
           /\ \A av, vivas : av.fallo /\ vivas = {} => Noticias(q, AvisoDeError(l, q), av, vivas)
<1>1. /\ LecturaRealizada(q) \in HaciaMaster /\ QueryFinalizada(q, "ERROR") \in HaciaMaster
      /\ LecturaRealizada(q).query = q /\ LecturaRealizada(q).tipo = "LECTURA_REALIZADA"
      /\ QueryFinalizada(q, "ERROR").query = q /\ QueryFinalizada(q, "ERROR").tipo = "QUERY_FINALIZADA"
      /\ QueryFinalizada(q, "ERROR").motivo = "ERROR"
  BY DEF LecturaRealizada, QueryFinalizada, HaciaMaster, Motivos
<1> DEFINE L == LecturaRealizada(q)
           F == QueryFinalizada(q, "ERROR")
<1>2. l \in {<<>>, <<L>>} /\ L \in HaciaMaster /\ F \in HaciaMaster
  BY <1>1 DEF Lecturas
<1>3. l \in Seq(HaciaMaster) /\ Len(l) \in {0, 1} /\ \A k \in 1 .. Len(l) : l[k] = L
  <2> HIDE DEF L
  <2>1. CASE l = <<>>
    BY <2>1, EmptySeq
  <2>2. CASE l = <<L>>
    BY <1>2, <2>2
  <2> QED
    BY <1>2, <2>1, <2>2
<1> DEFINE R == Rechazos(q, 1)
<1>4. R \in Seq(HaciaMaster) /\ Len(R) = 1 /\ R[1] = F
  <2>1. R \in Seq(HaciaMaster) /\ Len(R) = 1
    BY RechazosTipo
  <2>2. R[1] = F
    BY DEF Rechazos
  <2> QED
    BY <2>1, <2>2
<1> HIDE DEF L, F, R
<1> DEFINE p == l \o R
<1>5. /\ p \in Seq(HaciaMaster) /\ Len(p) = Len(l) + 1
      /\ \A k \in 1 .. Len(l) + 1 : p[k] = IF k <= Len(l) THEN l[k] ELSE R[k - Len(l)]
  BY <1>3, <1>4, ConcatProperties
<1>6. \A k \in 1 .. Len(p) : p[k] = L \/ (k = Len(p) /\ p[k] = F)
  BY <1>3, <1>4, <1>5
<1> HIDE DEF p
<1>7. p \o <<>> = p
  BY <1>5, ConcatEmptySeq
<1>8. \A k \in 1 .. Len(p) : /\ p[k].query = q
                             /\ \/ p[k].tipo = "LECTURA_REALIZADA"
                                \/ p[k].tipo = "QUERY_FINALIZADA" /\ k = Len(p) /\ p[k].motivo = "ERROR"
  BY <1>1, <1>6 DEF L, F
<1>9. \A k \in 1 .. Len(l) : l[k].query = q /\ l[k].tipo = "LECTURA_REALIZADA"
  BY <1>1, <1>3 DEF L
<1>10. AvisoDeError(l, q) = p
  BY <1>7 DEF p, R, AvisoDeError
<1>11. \A av, vivas : av.fallo /\ vivas = {} => Noticias(q, p, av, vivas)
  BY <1>8 DEF Noticias, Cierto
<1> QED
  BY <1>3, <1>5, <1>9, <1>10, <1>11

\* An instruction that goes well.
LEMMA InstruccionServida ==
    ASSUME Parte, Servida, UNCHANGED <<master, enchufes>>, NEW w \in Workers, NEW e \in ejecuciones[w],
           Instruccion(w, e)
    PROVE  Servida' /\ S!Next
<1>1. /\ e.pc < Lineas /\ Hecha(e) /\ Sigue(w, e) /\ UNCHANGED <<escucha, a_worker, a_query, caido>>
  BY DEF Instruccion, EnLinea, enchufes
<1>2. PICK q \in Queries :
         /\ q = e.query /\ w \in ToSet(lista_workers_info) /\ Enviada(q) /\ query[q].worker = w
         /\ Cauce(w, q) /\ a_worker[w] = <<>> /\ Vivas(w) = {e} /\ e \in Ejecucion
         /\ e.pc = avance[q].hechas /\ ~avance[q].fallo /\ a_query[q].finales = <<>>
         /\ DOMAIN a_master[w] = 1 .. Len(a_master[w]) /\ Len(a_master[w]) \in Nat
         /\ \A k \in 1 .. Len(a_master[w]) : LET m == a_master[w][k] IN
               m.query = q /\ m.tipo = "LECTURA_REALIZADA" /\ avance[q].hechas > 0
  BY <1>1, UnaViva
<1>3. /\ avance \in [Queries -> Avance] /\ Lineas \in Nat /\ e.pc \in 0 .. Lineas
      /\ avance' = [avance EXCEPT ![q].hechas = e.pc + 1]
  BY <1>1, <1>2, LineasAssumption DEF Parte, TypeOK, Hecha, Ejecucion
<1>4. S!Next
  BY <1>1, <1>2, <1>3 DEF S!Next, S!Ejecutar
<1>5. /\ avance'[q].hechas = e.pc + 1 /\ avance'[q].hechas > 0 /\ ~avance'[q].fallo
      /\ \A x \in Queries : x # q => avance'[x] = avance[x]
  BY <1>1, <1>2, <1>3 DEF Avance
<1>6. PICK l \in Lecturas(e) : Avisar(w, l)
  BY DEF Instruccion
<1>7. l \in Seq(HaciaMaster) /\ \A k \in 1 .. Len(l) : l[k].query = q /\ l[k].tipo = "LECTURA_REALIZADA"
  BY <1>2, <1>3, <1>6, AvisoDe
<1>8. /\ \A v \in Workers : v # w => ejecuciones'[v] = ejecuciones[v]
      /\ \A f \in Vivas(w)' : f.query = q /\ f.pc = avance'[q].hechas /\ Vivas(w)' = {f}
  BY <1>1, <1>2, <1>5, TrasLaLinea
<1>9. Noticias(e.query, l, avance'[e.query], Vivas(w)')
  BY <1>2, <1>7 DEF Noticias
<1>10. Servida'
  BY <1>1, <1>2, <1>5, <1>6, <1>7, <1>8, <1>9, AvisaServida
<1> QED
  BY <1>4, <1>10

\* The Storage refuses a request of the instruction: the query ends with ERROR.
LEMMA RechazadaServida ==
    ASSUME Parte, Servida, UNCHANGED <<master, enchufes>>, LecturaTardia = FALSE,
           NEW w \in Workers, NEW e \in ejecuciones[w], InstruccionRechazada(w, e, 1)
    PROVE  Servida' /\ S!Next
<1>1. /\ e.pc < Lineas /\ Termina(w, e) /\ UNCHANGED <<escucha, a_worker, a_query, caido>>
  BY DEF InstruccionRechazada, EnLinea, enchufes
<1>2. PICK q \in Queries :
         /\ q = e.query /\ w \in ToSet(lista_workers_info) /\ Enviada(q) /\ query[q].worker = w
         /\ Cauce(w, q) /\ a_worker[w] = <<>> /\ Vivas(w) = {e} /\ e \in Ejecucion
         /\ e.pc = avance[q].hechas /\ ~avance[q].fallo /\ a_query[q].finales = <<>>
         /\ DOMAIN a_master[w] = 1 .. Len(a_master[w]) /\ Len(a_master[w]) \in Nat
         /\ \A k \in 1 .. Len(a_master[w]) : LET m == a_master[w][k] IN
               m.query = q /\ m.tipo = "LECTURA_REALIZADA" /\ avance[q].hechas > 0
  BY <1>1, UnaViva
<1>3. /\ avance \in [Queries -> Avance] /\ Lineas \in Nat /\ avance' = [avance EXCEPT ![q].fallo = TRUE]
  BY <1>2, LineasAssumption DEF Parte, TypeOK, InstruccionRechazada
<1>4. S!Next
  BY <1>1, <1>2, <1>3 DEF S!Next, S!Fallar
<1>5. avance'[q].fallo /\ \A x \in Queries : x # q => avance'[x] = avance[x]
  BY <1>3 DEF Avance
<1>6. PICK l \in Lecturas(e) : Avisar(w, AvisoDeError(l, q))
  BY <1>2 DEF InstruccionRechazada, LecturasTardias, AvisoDeError
<1>7. PICK r \in Seq(HaciaMaster) :
         Avisar(w, r) /\ \A av, vivas : av.fallo /\ vivas = {} => Noticias(q, r, av, vivas)
  BY <1>2, <1>3, <1>6, AvisoDe
<1>8. /\ \A v \in Workers : v # w => ejecuciones'[v] = ejecuciones[v]
      /\ Vivas(w)' = {} /\ \A f \in Vivas(w)' : FALSE
  BY <1>1, <1>2, TrasLaLinea
<1>9. Noticias(q, r, avance'[q], Vivas(w)')
  BY <1>5, <1>7, <1>8
<1>10. Servida'
  BY <1>1, <1>2, <1>5, <1>7, <1>8, <1>9, AvisaServida
<1> QED
  BY <1>4, <1>10

\* END: the query has gone through all its lines.
LEMMA EndServida ==
    ASSUME Parte, Servida, UNCHANGED <<master, enchufes>>,
           NEW w \in Workers, NEW e \in ejecuciones[w], End(w, e, 0)
    PROVE  Servida' /\ S!Next
<1>1. /\ e.pc < Lineas /\ e.pc = Lineas - 1 /\ Hecha(e) /\ Sigue(w, e)
      /\ UNCHANGED <<escucha, a_worker, a_query, caido>>
  BY DEF End, EnLinea, EsEnd, enchufes
<1>2. PICK q \in Queries :
         /\ q = e.query /\ w \in ToSet(lista_workers_info) /\ Enviada(q) /\ query[q].worker = w
         /\ Cauce(w, q) /\ a_worker[w] = <<>> /\ Vivas(w) = {e} /\ e \in Ejecucion
         /\ e.pc = avance[q].hechas /\ ~avance[q].fallo /\ a_query[q].finales = <<>>
         /\ DOMAIN a_master[w] = 1 .. Len(a_master[w]) /\ Len(a_master[w]) \in Nat
         /\ \A k \in 1 .. Len(a_master[w]) : LET m == a_master[w][k] IN
               m.query = q /\ m.tipo = "LECTURA_REALIZADA" /\ avance[q].hechas > 0
  BY <1>1, UnaViva
<1>3. /\ avance \in [Queries -> Avance] /\ Lineas \in Nat \ {0}
      /\ avance' = [avance EXCEPT ![q].hechas = Lineas] /\ avance[q].hechas + 1 = Lineas
  <2>1. Lineas \in Nat \ {0} /\ e.pc + 1 = Lineas
    BY <1>1, <1>2, LineasAssumption DEF Ejecucion
  <2> QED
    BY <1>1, <1>2, <2>1 DEF Parte, TypeOK, Hecha
<1>4. S!Next
  BY <1>1, <1>2, <1>3 DEF S!Next, S!Ejecutar
<1>5. /\ avance'[q].hechas = Lineas /\ avance'[q].hechas > 0 /\ ~avance'[q].fallo
      /\ \A x \in Queries : x # q => avance'[x] = avance[x]
  BY <1>2, <1>3 DEF Avance
<1> DEFINE F == QueryFinalizada(q, "COMPLETADA")
           r == Append(Rechazos(q, 0), F)
<1>6. /\ F \in HaciaMaster /\ F.query = q /\ F.tipo = "QUERY_FINALIZADA" /\ F.motivo = "COMPLETADA"
      /\ Avisar(w, r)
  BY <1>2 DEF QueryFinalizada, HaciaMaster, Motivos, End
<1> HIDE DEF F
<1>7. r \in Seq(HaciaMaster) /\ Len(r) = 1 /\ r[1] = F
  <2>1. Rechazos(q, 0) \in Seq(HaciaMaster) /\ Len(Rechazos(q, 0)) = 0
    BY DEF Rechazos
  <2> QED
    BY <1>6, <2>1, AppendProperties
<1> HIDE DEF r
<1>8. (\A v \in Workers : v # w => ejecuciones'[v] = ejecuciones[v]) /\ Vivas(w)' = {}
  BY <1>1, <1>2, <1>3, TrasLaLinea
<1>9. Noticias(q, r, avance'[q], Vivas(w)')
  BY <1>5, <1>6, <1>7, <1>8 DEF Cierto, Noticias
<1>10. \A f \in Vivas(w)' : FALSE
  BY <1>8
<1>11. Servida'
  BY <1>1, <1>2, <1>5, <1>6, <1>7, <1>8, <1>9, <1>10, AvisaServida
<1> QED
  BY <1>4, <1>11

\* A step after which a Worker has the threads with a line left that it had.
LEMMA SinVivasServida ==
    ASSUME Parte, Servida, NEW w \in Workers, UNCHANGED <<master, canales, escucha, avance, caido>>,
           \A v \in Workers : v # w => ejecuciones'[v] = ejecuciones[v], Vivas(w)' = Vivas(w)
    PROVE  Servida'
<1>1. UNCHANGED <<a_worker, a_master, a_query, escucha, avance, caido>>
  BY DEF canales
<1>2. \A x \in Queries : Cauce(w, x)' <=> Cauce(w, x)
  BY <1>1 DEF Cauce
<1>3. w \in caido' => a_worker'[w] = <<>> /\ Vivas(w)' = {}
  BY <1>1 DEF Servida, SinCaidos
<1>4. escucha'[w].paso = "lee"
  BY <1>1 DEF Servida
<1>5. CASE Vacio(w)
  <2>1. Vacio(w)'
    BY <1>1, <1>5 DEF Vacio
  <2> QED
    BY <1>1, <1>3, <1>4, <2>1, WorkerServida, SinQuery \in Queries \union {SinQuery}
<1>6. CASE Ocupado(w)
  <2>1. PICK x \in Queries : /\ Enviada(x) /\ query[x].worker = w /\ Cauce(w, x)
                             /\ w \in ToSet(lista_workers_info)
    BY <1>6 DEF Ocupado
  <2> QED
    BY <1>1, <1>2, <1>3, <1>4, <2>1, WorkerServida
<1> QED
  BY <1>5, <1>6 DEF Servida

LEMMA EjecutarServida ==
    ASSUME RechazosInstruccion \subseteq {1}, RechazosEnd \subseteq {0}, LecturaTardia = FALSE,
           Parte, Servida, UNCHANGED <<master, enchufes>>, NEW w \in Workers, NEW q \in Queries,
           Ejecutar(w, q)
    PROVE  Servida' /\ (S!Next \/ UNCHANGED <<avance, a_query>>)
<1>1. PICK e \in ejecuciones[w] :
         /\ e.query = q
         /\ \/ Comenzar(w, e) \/ Instruccion(w, e) \/ Ceder(w, e) \/ FinDeArchivo(w, e)
            \/ \E n \in RechazosInstruccion : InstruccionRechazada(w, e, n)
            \/ \E n \in RechazosEnd : End(w, e, n)
  BY DEF Ejecutar
<1>2. /\ ejecuciones \in [Workers -> SUBSET Ejecucion] /\ e \in Ejecucion /\ Lineas \in Nat \ {0}
      /\ e.pc \in 0 .. Lineas
  BY LineasAssumption DEF Parte, TypeOK, Ejecucion
<1>3. e.pc < Lineas => Vivas(w) = {e}
  BY UnaViva
<1>4. CASE Comenzar(w, e)
  <2> DEFINE g == [e EXCEPT !.paso = "ejecuta"]
  <2>1. g.query = e.query /\ g.pc = e.pc
    BY <1>2 DEF Ejecucion
  <2>2. /\ ejecuciones'[w] = (ejecuciones[w] \ {e}) \union {g}
        /\ \A v \in Workers : v # w => ejecuciones'[v] = ejecuciones[v]
        /\ UNCHANGED <<master, canales, escucha, avance, caido>>
    BY <1>2, <1>4 DEF Comenzar, enchufes
  <2> HIDE DEF g
  <2>3. Vivas(w)' = {f \in (ejecuciones[w] \ {e}) \union {g} : f.pc < Lineas}
    BY <2>2 DEF Vivas
  <2>4. CASE e.pc < Lineas
    <3>1. Vivas(w)' = {g}
      BY <1>3, <2>1, <2>3, <2>4 DEF Vivas
    <3>2. \A f \in Vivas(w)' : f.query = e.query /\ f.pc = e.pc /\ Vivas(w)' = {f}
      BY <2>1, <3>1
    <3>3. Servida'
      BY <2>2, <2>4, <3>2, CallaServida
    <3> QED
      BY <2>2, <3>3 DEF canales
  <2>5. CASE ~ (e.pc < Lineas)
    <3>1. Vivas(w)' = Vivas(w)
      BY <2>1, <2>3, <2>5 DEF Vivas
    <3>2. Servida'
      BY <2>2, <3>1, SinVivasServida
    <3> QED
      BY <2>2, <3>2 DEF canales
  <2> QED
    BY <2>4, <2>5
<1>5. CASE Ceder(w, e)
  <2>1. e.pc < Lineas /\ Termina(w, e) /\ UNCHANGED <<master, canales, escucha, avance, caido>>
    BY <1>5 DEF Ceder, enchufes
  <2>2. /\ \A v \in Workers : v # w => ejecuciones'[v] = ejecuciones[v]
        /\ \A f \in Vivas(w)' : FALSE
    BY <1>3, <2>1, TrasLaLinea
  <2>3. Servida'
    BY <2>1, <2>2, CallaServida
  <2> QED
    BY <2>1, <2>3 DEF canales
<1>6. CASE FinDeArchivo(w, e)
  <2>1. /\ ejecuciones'[w] = ejecuciones[w] \ {e} /\ e.pc = Lineas
        /\ \A v \in Workers : v # w => ejecuciones'[v] = ejecuciones[v]
        /\ UNCHANGED <<master, canales, escucha, avance, caido>>
    BY <1>2, <1>6 DEF FinDeArchivo, Termina, enchufes
  <2>2. Vivas(w)' = Vivas(w)
    BY <1>2, <2>1 DEF Vivas
  <2>3. Servida'
    BY <2>1, <2>2, SinVivasServida
  <2> QED
    BY <2>1, <2>3 DEF canales
<1>7. CASE Instruccion(w, e)
  BY <1>7, InstruccionServida
<1>8. ASSUME NEW n \in RechazosInstruccion, InstruccionRechazada(w, e, n) PROVE Servida' /\ S!Next
  <2>1. n = 1
    OBVIOUS
  <2> QED
    BY <1>8, <2>1, RechazadaServida
<1>9. ASSUME NEW n \in RechazosEnd, End(w, e, n) PROVE Servida' /\ S!Next
  <2>1. n = 0
    OBVIOUS
  <2> QED
    BY <1>9, <2>1, EndServida
<1> QED
  BY <1>1, <1>4, <1>5, <1>6, <1>7, <1>8, <1>9

-----------------------------------------------------------------------------
\* A Worker goes down: of what it said the Master gets a part from the start.
LEMMA CaerServida ==
    ASSUME Parte, Servida, NEW w \in Workers, CaerConectado(w)
    PROVE  Servida' /\ UNCHANGED <<avance, a_query>>
<1>1. /\ UNCHANGED <<master, avance, a_query>> /\ caido' = caido \union {w}
      /\ a_worker'[w] = <<>> /\ ejecuciones'[w] = {} /\ escucha'[w].paso = "lee"
      /\ \A v \in Workers : v # w => /\ a_worker'[v] = a_worker[v] /\ a_master'[v] = a_master[v]
                                     /\ ejecuciones'[v] = ejecuciones[v] /\ escucha'[v] = escucha[v]
  BY DEF CaerConectado, Caer, Leyendo, Parte, TypeOK
<1>2. Vivas(w)' = {}
  BY <1>1 DEF Vivas
<1>3. PICK k \in 0 .. Len(a_master[w]) : a_master'[w] = SubSeq(a_master[w], 1, k)
  <2>1. Len(a_master[w]) \in Nat
    BY LenProperties DEF Parte, TypeOK
  <2> QED
    BY <2>1 DEF CaerConectado, Caer, Entregado, Parte, TypeOK
<1>4. /\ a_master'[w] \in Seq(HaciaMaster) /\ Len(a_master'[w]) = k /\ Len(a_master[w]) \in Nat
      /\ DOMAIN a_master'[w] = 1 .. k /\ DOMAIN a_master[w] = 1 .. Len(a_master[w])
      /\ \A j \in 1 .. k : a_master'[w][j] = a_master[w][j]
  <2>1. a_master[w] \in Seq(HaciaMaster) /\ Len(a_master[w]) \in Nat
        /\ DOMAIN a_master[w] = 1 .. Len(a_master[w])
        /\ \A j \in 1 .. Len(a_master[w]) : a_master[w][j] \in HaciaMaster
    BY LenProperties, ElementOfSeq DEF Parte, TypeOK
  <2>2. /\ SubSeq(a_master[w], 1, k) \in Seq(HaciaMaster)
        /\ Len(SubSeq(a_master[w], 1, k)) = IF 1 <= k THEN k - 1 + 1 ELSE 0
        /\ \A j \in 1 .. k - 1 + 1 : SubSeq(a_master[w], 1, k)[j] = a_master[w][1 + j - 1]
    BY <2>1, SubSeqProperties
  <2>3. Len(a_master'[w]) = k
    BY <1>3, <2>2
  <2>4. \A j \in 1 .. k : a_master'[w][j] = a_master[w][j]
    BY <1>3, <2>2
  <2> QED
    BY <1>3, <2>1, <2>2, <2>3, <2>4, LenProperties
<1>5. CASE Vacio(w)
  <2>1. a_master'[w] = <<>>
    BY <1>4, <1>5, EmptySeq DEF Vacio
  <2>2. Vacio(w)'
    BY <1>1, <1>2, <2>1 DEF Vacio
  <2>3. SinQuery \in Queries \union {SinQuery}
    OBVIOUS
  <2> QED
    BY <1>1, <1>2, <2>2, <2>3, WorkerServida
<1>6. CASE Ocupado(w)
  <2>1. PICK q \in Queries : /\ Enviada(q) /\ query[q].worker = w /\ Cauce(w, q)
                             /\ w \in ToSet(lista_workers_info)
    BY <1>6 DEF Ocupado
  <2>2. ASSUME NEW j \in DOMAIN a_master'[w]
        PROVE  /\ j \in DOMAIN a_master[w] /\ a_master'[w][j] = a_master[w][j]
               /\ j = Len(a_master[w]) => j = Len(a_master'[w])
    BY <1>3, <1>4
  <2>3. Cauce(w, q)'
    BY <1>1, <1>2, <2>1, <2>2 DEF Cauce
  <2> QED
    BY <1>1, <1>2, <2>1, <2>3, WorkerServida
<1> QED
  BY <1>1, <1>5, <1>6 DEF Servida

LEMMA RearrancarServida ==
    ASSUME Parte, Servida, NEW w \in Workers, Rearrancar(w)
    PROVE  Servida' /\ UNCHANGED <<avance, a_query>>
<1>1. /\ caido' \subseteq caido
      /\ UNCHANGED <<hilo, query, queries_exec, lista_workers_info, a_worker, a_master, a_query>>
      /\ UNCHANGED <<ejecuciones, escucha, avance>>
  BY DEF Rearrancar, master, control, canales
<1>2. /\ \A x \in Queries : Enviada(x)' <=> Enviada(x)
      /\ \A v \in Workers : Vivas(v)' = Vivas(v)
  BY <1>1 DEF Enviada, Vivas
<1>3. \A v \in Workers : /\ Vacio(v)' <=> Vacio(v)
                         /\ \A x \in Queries : Cauce(v, x)' <=> Cauce(v, x)
  BY <1>1, <1>2 DEF Vacio, Cauce
<1>4. \A v \in Workers : Ocupado(v)' <=> Ocupado(v)
  BY <1>1, <1>2, <1>3 DEF Ocupado
<1>5. Intactas'
  BY <1>1, <1>2 DEF Servida, Intactas
<1>6. SinCaidos' /\ PorMandar'
  BY <1>1, <1>2 DEF Servida, SinCaidos, PorMandar, Parte, TypeOK
<1> QED
  BY <1>1, <1>3, <1>4, <1>5, <1>6 DEF Servida

-----------------------------------------------------------------------------
\* An instruction asks the Storage for one thing that may be refused, the flush of
\* END goes well, and nothing is read once the Storage has refused something.
UnRechazo == RechazosInstruccion \subseteq {1} /\ RechazosEnd \subseteq {0} /\ LecturaTardia = FALSE

LEMMA PasoServicio ==
    ASSUME UnRechazo, Parte, Fifo, Servida, algoritmo = "FIFO", [Next]_vars
    PROVE  Servida' /\ [S!Next]_<<avance, a_query>>
<1>1. CASE NextMaster /\ UNCHANGED <<control, enchufes>>
  BY <1>1, NextMasterServida
<1>2. CASE NextControl /\ UNCHANGED <<master, enchufes>>
  BY <1>2, EscucharServida, EjecutarServida DEF NextControl, UnRechazo
<1>3. ASSUME NEW w \in Workers, CaerConectado(w) \/ Rearrancar(w)
      PROVE  Servida' /\ UNCHANGED <<avance, a_query>>
  BY <1>3, CaerServida, RearrancarServida
<1>4. CASE UNCHANGED vars
  <2>1. UNCHANGED <<hilo, query, queries_exec, lista_workers_info, a_worker, a_master, a_query,
                    ejecuciones, escucha, avance, caido>>
    BY <1>4 DEF vars, master, control, canales, enchufes
  <2>2. /\ \A x \in Queries : Enviada(x)' <=> Enviada(x)
        /\ \A v \in Workers : /\ Vacio(v)' <=> Vacio(v)
                              /\ \A x \in Queries : Cauce(v, x)' <=> Cauce(v, x)
    BY <2>1 DEF Enviada, Vacio, Cauce, Vivas
  <2>3. \A v \in Workers : Ocupado(v)' <=> Ocupado(v)
    BY <2>1, <2>2 DEF Ocupado
  <2>4. Intactas'
    BY <2>1, <2>2 DEF Servida, Intactas
  <2>5. SinCaidos' /\ PorMandar'
    BY <2>1 DEF Servida, SinCaidos, PorMandar, Vivas
  <2> QED
    BY <2>1, <2>2, <2>3, <2>4, <2>5 DEF Servida
<1> QED
  BY <1>1, <1>2, <1>3, <1>4 DEF Next

LEMMA InitServida == Init => Servida
<1> SUFFICES ASSUME Init PROVE Servida
  OBVIOUS
<1>1. /\ \A w \in Workers : /\ a_worker[w] = <<>> /\ a_master[w] = <<>> /\ ejecuciones[w] = {}
                            /\ escucha[w].paso = "lee"
      /\ \A q \in Queries : /\ query[q].pc = 0 /\ a_query[q].lecturas = {} /\ a_query[q].finales = <<>>
                            /\ avance[q] = [hechas |-> 0, fallo |-> FALSE]
      /\ \A t \in Hilos : hilo[t].paso = "fuera"
      /\ caido = {}
  BY DEF Init, InitCanales, InitMaster, InitControl, Leyendo, Nueva, Afuera
<1>2. Intactas
  BY <1>1 DEF Intactas, SinHacer
<1> QED
  BY <1>1, <1>2 DEF Servida, Vacio, Vivas, SinCaidos, PorMandar

\* ImplementaServicio: with FIFO, and whatever Workers go down, each instruction
\* is executed once and in order (ejecutar_query_thread), a Query Control gets only its
\* own readings (procesar_lectura_realizada looks at the Worker, not at the id),
\* and one final message, which is true (procesar_query_finalizada).
THEOREM ServicioFifo ==
    ASSUME UnRechazo
    PROVE  Spec /\ algoritmo = "FIFO" => ImplementaServicio
<1> DEFINE J == algoritmo = "FIFO" /\ Servida
<1>1. Init => S!Init
  BY DEF Init, InitCanales, InitControl, S!Init
<1>2. Init /\ algoritmo = "FIFO" => J
  BY InitServida
<1>3. Parte /\ (algoritmo = "FIFO" => Fifo) /\ J /\ [Next]_vars =>
         J' /\ [S!Next]_<<avance, a_query>>
  <2> SUFFICES ASSUME Parte, algoritmo = "FIFO", Fifo, Servida, [Next]_vars
               PROVE  J' /\ [S!Next]_<<avance, a_query>>
    OBVIOUS
  <2>1. algoritmo' = "FIFO"
    BY AlgoritmoFijo
  <2> QED
    BY <2>1, PasoServicio
<1> HIDE DEF J
<1> QED
  BY <1>1, <1>2, <1>3, FifoSiempre, PTL DEF Spec, ImplementaServicio, S!Spec
=============================================================================
