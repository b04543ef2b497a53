----------------------------- MODULE CerrojosProofs ----------------------------
(***************************************************************************)
(* For any queries, Workers, File:Tags and threads: the functions of the   *)
(* Master and of the Storage let go what they take, but for the mutex of a *)
(* File:Tag that escribir_bloque, crear_file and copiar_tag may keep, and  *)
(* but for three of them take it in the order of their levels. So threads  *)
(* stop for ever on mutexes only in those, or waiting for what those kept. *)
(***************************************************************************)
EXTENDS CerrojosProgramas, WellFoundedInduction, TLAPS

Tipado ==
    /\ modulo \in Modulos
    /\ dueno \in [Mutexes -> Hilos \union {Nadie}]
    /\ donde \in [Mutexes -> Nombres]
    /\ funcion \in [Hilos -> [nombre : Nombres, pasos : Seq(Paso)]]
    /\ siguiente \in [Hilos -> Nat \ {0}]

\* The mutexes that f may have taken when it returns.
Quedan(f) == IF f.nombre \in Retenedoras THEN Retenibles ELSE {}

\* What every function of the programs leaves taken is among them.
TodasSueltan ==
    \A d \in Modulos : \A f \in Funciones[d] : Tomados(f, Len(f.pasos) + 1) \subseteq Quedan(f)

\* So is what each thread executes.
Sueltan == \A t \in Hilos : Tomados(funcion[t], Len(funcion[t].pasos) + 1) \subseteq Quedan(funcion[t])

\* A mutex of a File:Tag that one of those functions took.
Guardado(m) == m \in Retenibles /\ donde[m] \in Retenedoras

\* A thread that has a mutex took it in the function it executes, and has not
\* come to where it lets it go, or it is one that may be kept. (It may have lost
\* one it took: somebody else can let it go, as the planner does.)
Posesion ==
    \A t \in Hilos, m \in Mutexes : dueno[m] = t =>
        \/ m \in Tomados(funcion[t], siguiente[t]) /\ donde[m] = funcion[t].nombre
        \/ Guardado(m)

IInv == Tipado /\ Sueltan /\ Posesion

\* Who executes nothing has taken nothing.
LEMMA NingunaSuelta ==
    /\ Ninguna \in [nombre : Nombres, pasos : Seq(Paso)]
    /\ \A k : Tomados(Ninguna, k) = {}
  <1>1. Ninguna = [nombre |-> "ninguna", pasos |-> <<>>]
    BY DEF Ninguna, Funcion
  <1>2. <<>> \in Seq(Paso) /\ DOMAIN <<>> = {}
    OBVIOUS
  <1>3. Ninguna.pasos = <<>>
    BY <1>1
  <1>4. DOMAIN Ninguna.pasos = {}
    BY <1>2, <1>3
  <1>5. \A k : Tomados(Ninguna, k) = {}
    BY <1>4 DEF Tomados
  <1>6. Ninguna \in [nombre : Nombres, pasos : Seq(Paso)]
    <2>1. "ninguna" \in Nombres
      BY DEF Nombres
    <2>2. \A a \in Nombres, b \in Seq(Paso) :
            [nombre |-> a, pasos |-> b] \in [nombre : Nombres, pasos : Seq(Paso)]
      OBVIOUS
    <2> QED
      BY <1>1, <1>2, <2>1, <2>2
  <1> QED
    BY <1>5, <1>6

LEMMA Inicio == Init => IInv
  <1> SUFFICES ASSUME Init PROVE IInv
    OBVIOUS
  <1>1. Tipado
    <2>1. Ninguna.nombre = "ninguna" /\ "ninguna" \in Nombres
      BY DEF Ninguna, Funcion, Nombres
    <2> QED
      BY <2>1, NingunaSuelta DEF Init, Tipado
  <1>2. Sueltan
    BY NingunaSuelta DEF Init, Sueltan
  <1>3. Posesion
    BY MutexesAssumption DEF Init, Posesion
  <1> QED
    BY <1>1, <1>2, <1>3 DEF IInv

\* The step of a thread that is at a lock or at an unlock.
LEMMA ElPaso ==
    ASSUME Tipado, NEW t \in Hilos, NEW op, EnPaso(t, op)
    PROVE  /\ Mutex(t) \in Mutexes
           /\ siguiente[t] \in DOMAIN funcion[t].pasos
           /\ funcion[t].pasos[siguiente[t]] = [op |-> op, mutex |-> Mutex(t)]
  <1>1. funcion[t].pasos[siguiente[t]] \in Paso
    BY DEF Tipado, EnPaso
  <1> QED
    BY <1>1 DEF EnPaso, Mutex, Paso

LEMMA LlamarConserva ==
    ASSUME TodasSueltan, IInv, NEW t \in Hilos, Llamar(t)
    PROVE  IInv'
  <1>1. PICK f \in Funciones[modulo] : funcion' = [funcion EXCEPT ![t] = f]
    BY DEF Llamar
  <1>2. f \in [nombre : Nombres, pasos : Seq(Paso)] /\ Tomados(f, Len(f.pasos) + 1) \subseteq Quedan(f)
    BY FuncionesAssumption DEF IInv, Tipado, TodasSueltan
  <1>3. Tipado'
    BY <1>1, <1>2 DEF IInv, Tipado, Llamar
  <1>4. Sueltan'
    <2> SUFFICES ASSUME NEW u \in Hilos
                 PROVE  Tomados(funcion'[u], Len(funcion'[u].pasos) + 1) \subseteq Quedan(funcion'[u])
      BY DEF Sueltan, Tomados, Quedan
    <2>1. CASE u = t
      <3>1. funcion'[u] = f
        BY <1>1, <2>1 DEF IInv, Tipado
      <3> QED
        BY <1>2, <3>1
    <2>2. CASE u # t
      <3>1. funcion'[u] = funcion[u]
        BY <1>1, <2>2 DEF IInv, Tipado
      <3> QED
        BY <3>1 DEF IInv, Sueltan
    <2> QED
      BY <2>1, <2>2
  <1>5. Posesion'
    <2> SUFFICES ASSUME NEW u \in Hilos, NEW m \in Mutexes, dueno[m] = u, ~Guardado(m)
                 PROVE  m \in Tomados(funcion'[u], siguiente'[u]) /\ donde[m] = funcion'[u].nombre
      BY DEF Posesion, Llamar, Tomados, Guardado
    <2>1. u # t
      BY NingunaSuelta DEF Llamar, IInv, Posesion
    <2>2. funcion'[u] = funcion[u] /\ siguiente'[u] = siguiente[u]
      BY <1>1, <2>1 DEF Llamar, IInv, Tipado
    <2> QED
      BY <2>2 DEF IInv, Posesion
  <1> QED
    BY <1>3, <1>4, <1>5 DEF IInv

LEMMA BloquearConserva ==
    ASSUME IInv, NEW t \in Hilos, Bloquear(t)
    PROVE  IInv'
  <1> DEFINE f == funcion[t]
             k == siguiente[t]
  <1>1. /\ Mutex(t) \in Mutexes
        /\ k \in DOMAIN f.pasos /\ f.pasos[k] = Tomar(Mutex(t))
    BY ElPaso DEF IInv, Bloquear, Tomar
  <1>2. k \in Nat /\ DOMAIN f.pasos \subseteq Nat
    BY DEF IInv, Tipado
  <1>3. siguiente'[t] = k + 1 /\ \A u \in Hilos : funcion'[u] = funcion[u]
    BY DEF Bloquear, IInv, Tipado
  <1>4. Tipado'
    BY <1>1, <1>2 DEF IInv, Tipado, Bloquear
  <1>5. Sueltan'
    BY DEF Bloquear, IInv, Sueltan, Tomados, Quedan
  <1>6. /\ donde'[Mutex(t)] = f.nombre
        /\ \A m \in Mutexes \ {Mutex(t)} : dueno'[m] = dueno[m] /\ donde'[m] = donde[m]
    BY <1>1 DEF Bloquear, IInv, Tipado
  <1>7. Posesion'
    <2> SUFFICES ASSUME NEW u \in Hilos, NEW m \in Mutexes, dueno'[m] = u, ~Guardado(m)'
                 PROVE  m \in Tomados(funcion[u], siguiente'[u]) /\ donde'[m] = funcion[u].nombre
      BY <1>3 DEF Posesion
    <2>1. CASE m = Mutex(t)
      <3>1. u = t
        BY <1>1, <2>1 DEF Bloquear, IInv, Tipado
      <3> QED
        BY <1>1, <1>2, <1>3, <1>6, <2>1, <3>1 DEF Tomados
    <2>2. CASE m # Mutex(t)
      <3>1. m \in Tomados(funcion[u], siguiente[u]) /\ donde'[m] = funcion[u].nombre
        BY <1>6, <2>2 DEF IInv, Posesion, Guardado
      <3>2. CASE u # t
        BY <3>1, <3>2 DEF Bloquear, IInv, Tipado
      <3>3. CASE u = t
        <4>1. m \in Tomados(f, k) /\ f.pasos[k] # Soltar(m)
          BY <1>1, <3>1, <3>3 DEF Tomar, Soltar
        <4> HIDE DEF f, k
        <4>2. m \in Tomados(f, k + 1)
          BY <1>2, <4>1 DEF Tomados
        <4> QED
          BY <1>3, <3>1, <3>3, <4>2 DEF f
      <3> QED
        BY <3>2, <3>3
    <2> QED
      BY <2>1, <2>2
  <1> QED
    BY <1>4, <1>5, <1>7 DEF IInv

LEMMA DesbloquearConserva ==
    ASSUME IInv, NEW t \in Hilos, Desbloquear(t)
    PROVE  IInv'
  <1> DEFINE f == funcion[t]
             k == siguiente[t]
  <1>1. /\ Mutex(t) \in Mutexes
        /\ k \in DOMAIN f.pasos /\ f.pasos[k] = Soltar(Mutex(t))
    BY ElPaso DEF IInv, Desbloquear, Soltar
  <1>2. k \in Nat /\ DOMAIN f.pasos \subseteq Nat
    BY DEF IInv, Tipado
  <1>3. siguiente'[t] = k + 1 /\ \A u \in Hilos : funcion'[u] = funcion[u]
    BY DEF Desbloquear, IInv, Tipado
  <1>4. Tipado'
    <2>1. Ninguna.nombre \in Nombres
      BY DEF Ninguna, Funcion, Nombres
    <2> QED
      BY <1>1, <1>2, <2>1 DEF IInv, Tipado, Desbloquear
  <1>5. Sueltan'
    BY DEF Desbloquear, IInv, Sueltan, Tomados, Quedan
  <1>6. Posesion'
    <2> SUFFICES ASSUME NEW u \in Hilos, NEW m \in Mutexes, dueno'[m] = u, ~Guardado(m)'
                 PROVE  m \in Tomados(funcion[u], siguiente'[u]) /\ donde'[m] = funcion[u].nombre
      BY <1>3 DEF Posesion
    <2>1. m # Mutex(t) /\ dueno[m] = u /\ donde'[m] = donde[m]
      BY <1>1, MutexesAssumption DEF Desbloquear, IInv, Tipado
    <2>2. m \in Tomados(funcion[u], siguiente[u]) /\ donde'[m] = funcion[u].nombre
      BY <2>1 DEF IInv, Posesion, Guardado
    <2>3. CASE u # t
      BY <2>2, <2>3 DEF Desbloquear, IInv, Tipado
    <2>4. CASE u = t
      <3>1. f.pasos[k] # Soltar(m)
        BY <1>1, <2>1 DEF Soltar
      <3>2. m \in Tomados(f, k)
        BY <2>2, <2>4
      <3> HIDE DEF f, k
      <3>3. m \in Tomados(f, k + 1)
        BY <1>2, <3>1, <3>2 DEF Tomados
      <3> QED
        BY <1>3, <2>2, <2>4, <3>3 DEF f
    <2> QED
      BY <2>3, <2>4
  <1> QED
    BY <1>4, <1>5, <1>6 DEF IInv

LEMMA VolverConserva ==
    ASSUME IInv, NEW t \in Hilos, Volver(t)
    PROVE  IInv'
  <1>1. Tipado'
    BY NingunaSuelta DEF IInv, Tipado, Volver
  <1>2. Sueltan'
    <2> SUFFICES ASSUME NEW u \in Hilos
                 PROVE  Tomados(funcion'[u], Len(funcion'[u].pasos) + 1) \subseteq Quedan(funcion'[u])
      BY DEF Sueltan, Tomados, Quedan
    <2>1. funcion'[u] = Ninguna \/ funcion'[u] = funcion[u]
      BY DEF Volver, IInv, Tipado
    <2> QED
      BY <2>1, NingunaSuelta DEF IInv, Sueltan
  <1>3. Posesion'
    <2> SUFFICES ASSUME NEW u \in Hilos, NEW m \in Mutexes, dueno[m] = u, ~Guardado(m)
                 PROVE  m \in Tomados(funcion'[u], siguiente'[u]) /\ donde[m] = funcion'[u].nombre
      BY DEF Posesion, Volver, Tomados, Guardado
    <2>1. m \in Tomados(funcion[u], siguiente[u]) /\ donde[m] = funcion[u].nombre
      BY DEF IInv, Posesion
    <2>2. u # t
      <3> SUFFICES ASSUME u = t PROVE FALSE
        OBVIOUS
      <3>1. m \in Quedan(funcion[t])
        BY <2>1 DEF Volver, IInv, Sueltan
      <3> QED
        BY <2>1, <3>1 DEF Quedan, Guardado
    <2>3. funcion'[u] = funcion[u] /\ siguiente'[u] = siguiente[u]
      BY <2>2 DEF Volver, IInv, Tipado
    <2> QED
      BY <2>1, <2>3
  <1> QED
    BY <1>1, <1>2, <1>3 DEF IInv

LEMMA PasoConserva ==
    ASSUME TodasSueltan, IInv, [Next]_vars
    PROVE  IInv'
  <1>1. CASE UNCHANGED vars
    BY <1>1 DEF vars, IInv, Tipado, Sueltan, Posesion, Tomados, Quedan, Guardado
  <1>2. ASSUME NEW t \in Hilos, Llamar(t) \/ Bloquear(t) \/ Desbloquear(t) \/ Volver(t)
        PROVE  IInv'
    BY <1>2, LlamarConserva, BloquearConserva, DesbloquearConserva, VolverConserva
  <1> QED
    BY <1>1, <1>2 DEF Next

LEMMA SoloGuardados == IInv => RetenidosConocidos
  BY DEF IInv, Posesion, Guardado, RetenidosConocidos, Retenido

\* Follow a circular wait of threads whose functions respect the levels, none of
\* which waits for a mutex left taken: each mutex waited for is below the one
\* before, and a set of levels has a least one.
LEMMA SinCiclo ==
    ASSUME IInv, NEW C \in SUBSET Hilos, Interbloqueo(C), \A t \in C : ~Retenido(Mutex(t))
    PROVE  \E t \in C : ~Ordenada(funcion[t])
  <1> SUFFICES ASSUME \A t \in C : Ordenada(funcion[t])
               PROVE  FALSE
    OBVIOUS
  <1> DEFINE Niveles == {Nivel[Mutex(t)] : t \in C}
  <1>1. \A t \in C : EnPaso(t, "lock") /\ Mutex(t) \in Mutexes
    BY ElPaso DEF Interbloqueo, IInv
  <1>2. Niveles \subseteq Nat /\ Niveles # {}
    BY <1>1, MutexesAssumption DEF Interbloqueo
  <1>3. PICK n \in Niveles : \A j \in Niveles : ~(<<j, n>> \in OpToRel(<, Nat))
    <2> HIDE DEF Niveles
    <2> QED
      BY <1>2, NatLessThanWellFounded, WFMin
  <1>4. \A j \in Niveles : ~(j < n)
    BY <1>2, <1>3 DEF OpToRel
  <1>5. PICK t \in C : n = Nivel[Mutex(t)]
    OBVIOUS
  <1>6. PICK u \in C : dueno[Mutex(t)] = u
    BY DEF Interbloqueo, EsperaA
  <1>7. Mutex(t) \in Tomados(funcion[u], siguiente[u])
    BY <1>6 DEF Retenido
  <1>8. siguiente[u] \in DOMAIN funcion[u].pasos /\ funcion[u].pasos[siguiente[u]].op = "lock"
    BY <1>1 DEF EnPaso
  <1>9. Nivel[Mutex(u)] < Nivel[Mutex(t)]
    BY <1>7, <1>8 DEF Ordenada, Mutex
  <1> QED
    BY <1>4, <1>5, <1>9

-----------------------------------------------------------------------------
(* The functions of the programs let go what they take, and take it in     *)
(* order: a calculus of the paths they are made of                         *)

\* What s takes and is not in D, it lets go later.
Deja(s, D) ==
    \A i \in DOMAIN s : s[i].op = "lock" /\ s[i].mutex \notin D =>
        \E j \in DOMAIN s : i < j /\ s[j] = Soltar(s[i].mutex)

\* What s takes is below what it has taken before and not let go yet.
Baja(s) ==
    \A i, k \in DOMAIN s :
        i < k /\ s[i].op = "lock" /\ s[k].op = "lock"
              /\ (\A j \in DOMAIN s : i < j /\ j < k => s[j] # Soltar(s[i].mutex))
            => LosNiveles[s[k].mutex] < LosNiveles[s[i].mutex]

\* Everything s takes is below n.
Debajo(s, n) == \A k \in DOMAIN s : s[k].op = "lock" => LosNiveles[s[k].mutex] < n

UnPaso == [op : {"lock", "unlock"}, mutex : LosMutexes]

\* A path that leaves nothing taken but D.
Suelto(s, D) == s \in Seq(UnPaso) /\ Deja(s, D)

\* And, besides, takes everything in order and below n.
Bien(s, D, n) == Suelto(s, D) /\ Baja(s) /\ Debajo(s, n)

\* The levels of the mutexes are what LosNiveles says.
LEMMA Niveles ==
    /\ LosNiveles["workers"] = 5 /\ LosNiveles["planificacion"] = 5
    /\ LosNiveles["queries_ready"] = 4 /\ LosNiveles["queries_exec"] = 3
    /\ LosNiveles["workers_info"] = 1
    /\ LosNiveles["locks_dict"] = 0 /\ LosNiveles["bitmap"] = 0 /\ LosNiveles["hash_index"] = 0
    /\ \A q \in Queries : LosNiveles[q] = 2
    /\ \A ft \in FileTags : LosNiveles[ft] = 2
    /\ \A w \in Workers : LosNiveles[w] = 0
    /\ MutexesGlobales \subseteq LosMutexes /\ Queries \subseteq LosMutexes
    /\ Workers \subseteq LosMutexes /\ FileTags \subseteq LosMutexes
  BY DistintosAssumption DEF LosNiveles, LosMutexes, MutexesGlobales

LEMMA NadaTomado == Suelto(<<>>, {}) /\ \A n : Bien(<<>>, {}, n)
  BY DEF Bien, Suelto, Deja, Baja, Debajo

\* What one step does.
LEMMA UnoToma ==
    ASSUME NEW m \in LosMutexes
    PROVE  /\ Suelto(<<Tomar(m)>>, {m})
           /\ \A n : LosNiveles[m] < n => Bien(<<Tomar(m)>>, {m}, n)
  BY DEF Bien, Suelto, Deja, Baja, Debajo, Tomar, UnPaso

LEMMA UnoSuelta ==
    ASSUME NEW m \in LosMutexes
    PROVE  Suelto(<<Soltar(m)>>, {}) /\ \A n : Bien(<<Soltar(m)>>, {}, n)
  BY DEF Bien, Suelto, Deja, Baja, Debajo, Soltar, UnPaso

\* The steps of one path after another.
LEMMA Seguidas ==
    ASSUME NEW s \in Seq(UnPaso), NEW t \in Seq(UnPaso)
    PROVE  /\ s \o t \in Seq(UnPaso)
           /\ DOMAIN s = 1 .. Len(s) /\ DOMAIN t = 1 .. Len(t)
           /\ DOMAIN (s \o t) = 1 .. Len(s) + Len(t)
           /\ Len(s) \in Nat /\ Len(t) \in Nat
           /\ \A i \in DOMAIN s : (s \o t)[i] = s[i]
           /\ \A i \in DOMAIN t : (s \o t)[Len(s) + i] = t[i]
           /\ \A i \in DOMAIN (s \o t) :
                i \in DOMAIN s \/ (\E k \in DOMAIN t : i = Len(s) + k)
  <1>1. \A i \in 1 .. Len(s) + Len(t) : i > Len(s) => i - Len(s) \in 1 .. Len(t)
    OBVIOUS
  <1>2. \A i \in 1 .. Len(s) + Len(t) : i > Len(s) => i = Len(s) + (i - Len(s))
    OBVIOUS
  <1>3. /\ s \o t \in Seq(UnPaso) /\ Len(s) \in Nat /\ Len(t) \in Nat
        /\ DOMAIN s = 1 .. Len(s) /\ DOMAIN t = 1 .. Len(t)
        /\ DOMAIN (s \o t) = 1 .. Len(s) + Len(t)
        /\ \A i \in 1 .. Len(s) : (s \o t)[i] = s[i]
        /\ \A i \in 1 .. Len(t) : (s \o t)[Len(s) + i] = t[i]
    OBVIOUS
  <1>4. \A i \in 1 .. Len(s) + Len(t) :
            i \in 1 .. Len(s) \/ (\E k \in 1 .. Len(t) : i = Len(s) + k)
    <2> SUFFICES ASSUME NEW i \in 1 .. Len(s) + Len(t), i > Len(s)
                 PROVE  \E k \in 1 .. Len(t) : i = Len(s) + k
      BY <1>3
    <2>1. i - Len(s) \in 1 .. Len(t) /\ i = Len(s) + (i - Len(s))
      BY <1>1, <1>2
    <2> QED
      BY <2>1
  <1> QED
    BY <1>3, <1>4

\* Two paths leave what each of them leaves.
LEMMA SueltasSeguidas ==
    ASSUME NEW D, NEW E, NEW s, NEW t, Suelto(s, D), Suelto(t, E)
    PROVE  Suelto(s \o t, D \union E)
  <1> DEFINE n == Len(s)
             r == s \o t
  <1>1. s \in Seq(UnPaso) /\ t \in Seq(UnPaso)
    BY DEF Suelto
  <1>2. /\ r \in Seq(UnPaso) /\ n \in Nat
        /\ DOMAIN s \subseteq DOMAIN r /\ \A i \in DOMAIN s : r[i] = s[i]
        /\ \A i \in DOMAIN t : n + i \in DOMAIN r /\ r[n + i] = t[i] /\ i \in Nat
        /\ \A i \in DOMAIN r : i \in DOMAIN s \/ (\E k \in DOMAIN t : i = n + k)
    BY <1>1, Seguidas
  <1> HIDE DEF n, r
  <1>3. ASSUME NEW i \in DOMAIN r, r[i].op = "lock", r[i].mutex \notin D \union E
        PROVE  \E j \in DOMAIN r : i < j /\ r[j] = Soltar(r[i].mutex)
    <2>1. CASE i \in DOMAIN s
      BY <1>2, <1>3, <2>1 DEF Suelto, Deja
    <2>2. ASSUME NEW k \in DOMAIN t, i = n + k
          PROVE  \E j \in DOMAIN r : i < j /\ r[j] = Soltar(r[i].mutex)
      <3>1. PICK j \in DOMAIN t : k < j /\ t[j] = Soltar(t[k].mutex)
        BY <1>2, <1>3, <2>2 DEF Suelto, Deja
      <3>2. n + j \in DOMAIN r /\ r[n + j] = t[j] /\ i < n + j /\ r[i] = t[k]
        BY <1>2, <2>2, <3>1
      <3> QED
        BY <3>1, <3>2
    <2> QED
      BY <1>2, <2>1, <2>2
  <1> QED
    BY <1>2, <1>3 DEF Suelto, Deja, r

\* After a path that leaves D taken, one that leaves nothing.
LEMMA SiguenSueltas ==
    ASSUME NEW D, NEW s, NEW t, Suelto(s, D), Suelto(t, {})
    PROVE  Suelto(s \o t, D)
  <1>1. Suelto(s \o t, D \union {})
    BY SueltasSeguidas
  <1> QED
    BY <1>1

\* And if the second takes everything below what the first leaves taken, the
\* whole is in order.
LEMMA BienSeguidas ==
    ASSUME NEW D, NEW E, NEW s, NEW t, NEW n, NEW k, Bien(s, D, n), Bien(t, E, k),
           n \in Nat, k \in Nat, k <= n, D \subseteq LosMutexes,
           \A m \in D : k <= LosNiveles[m] /\ LosNiveles[m] \in Nat,
           \A m \in LosMutexes : LosNiveles[m] \in Nat
    PROVE  Bien(s \o t, D \union E, n)
  <1> DEFINE l == Len(s)
             r == s \o t
  <1>1. s \in Seq(UnPaso) /\ t \in Seq(UnPaso)
    BY DEF Bien, Suelto
  <1>2. /\ r \in Seq(UnPaso) /\ l \in Nat
        /\ DOMAIN s \subseteq DOMAIN r /\ \A i \in DOMAIN s : r[i] = s[i] /\ i <= l /\ i \in Nat
        /\ \A i \in DOMAIN t : l + i \in DOMAIN r /\ r[l + i] = t[i] /\ i \in Nat /\ i > 0
        /\ \A i \in DOMAIN r : i \in DOMAIN s \/ (\E j \in DOMAIN t : i = l + j)
    BY <1>1, Seguidas
  <1>3. \A i \in DOMAIN s : s[i].mutex \in LosMutexes
    <2>1. \A i \in DOMAIN s : s[i] \in UnPaso
      BY <1>1
    <2> QED
      BY <2>1 DEF UnPaso
  <1>4. \A i \in DOMAIN t : t[i].mutex \in LosMutexes
    <2>1. \A i \in DOMAIN t : t[i] \in UnPaso
      BY <1>1
    <2> QED
      BY <2>1 DEF UnPaso
  <1>5. Suelto(r, D \union E)
    BY SueltasSeguidas DEF Bien
  <1> HIDE DEF l, r
  <1>6. Debajo(r, n)
    <2> SUFFICES ASSUME NEW i \in DOMAIN r, r[i].op = "lock" PROVE LosNiveles[r[i].mutex] < n
      BY DEF Debajo
    <2>1. CASE i \in DOMAIN s
      BY <1>2, <2>1 DEF Bien, Debajo
    <2>2. ASSUME NEW j \in DOMAIN t, i = l + j PROVE LosNiveles[r[i].mutex] < n
      <3>1. r[i] = t[j]
        BY <1>2, <2>2
      <3>2. LosNiveles[t[j].mutex] < k
        BY <3>1 DEF Bien, Debajo
      <3> QED
        BY <1>4, <3>1, <3>2
    <2> QED
      BY <1>2, <2>1, <2>2
  <1>7. Baja(r)
    <2> SUFFICES ASSUME NEW i \in DOMAIN r, NEW h \in DOMAIN r,
                        i < h, r[i].op = "lock", r[h].op = "lock",
                        \A j \in DOMAIN r : i < j /\ j < h => r[j] # Soltar(r[i].mutex)
                 PROVE  LosNiveles[r[h].mutex] < LosNiveles[r[i].mutex]
      BY DEF Baja
    <2>1. CASE h \in DOMAIN s
      <3>1. i \in DOMAIN s
        BY <1>2, <2>1
      <3>2. \A j \in DOMAIN s : i < j /\ j < h => s[j] # Soltar(s[i].mutex)
        BY <1>2, <3>1
      <3> QED
        BY <1>2, <2>1, <3>1, <3>2 DEF Bien, Baja
    <2>2. CASE i \in DOMAIN s /\ h \notin DOMAIN s
      <3>1. PICK j \in DOMAIN t : h = l + j
        BY <1>2, <2>2
      <3>2. r[h] = t[j] /\ LosNiveles[t[j].mutex] < k
        BY <1>2, <3>1 DEF Bien, Debajo
      <3>3. s[i].mutex \in D
        <4> SUFFICES ASSUME s[i].mutex \notin D PROVE FALSE
          OBVIOUS
        <4>1. PICK a \in DOMAIN s : i < a /\ s[a] = Soltar(s[i].mutex)
          BY <1>2, <2>2 DEF Bien, Suelto, Deja
        <4>2. a \in DOMAIN r /\ a < h /\ r[a] = s[a] /\ r[i] = s[i]
          BY <1>2, <2>2, <3>1, <4>1
        <4> QED
          BY <4>1, <4>2
      <3>4. r[i] = s[i]
        BY <1>2, <2>2
      <3> QED
        BY <1>4, <3>2, <3>3, <3>4
    <2>3. CASE i \notin DOMAIN s
      <3>1. PICK a \in DOMAIN t : i = l + a
        BY <1>2, <2>3
      <3>2. h \notin DOMAIN s
        BY <1>2, <3>1
      <3>3. PICK b \in DOMAIN t : h = l + b
        BY <1>2, <3>2
      <3>4. r[i] = t[a] /\ r[h] = t[b] /\ a < b
        BY <1>2, <3>1, <3>3
      <3>5. ASSUME NEW j \in DOMAIN t, a < j, j < b PROVE t[j] # Soltar(t[a].mutex)
        <4>1. l + j \in DOMAIN r /\ i < l + j /\ l + j < h /\ r[l + j] = t[j]
          BY <1>2, <3>1, <3>3, <3>5
        <4> QED
          BY <3>4, <4>1
      <3> QED
        BY <3>4, <3>5 DEF Bien, Baja
    <2> QED
      BY <2>1, <2>2, <2>3
  <1> QED
    BY <1>5, <1>6, <1>7 DEF Bien, r

LEMMA SiguenBien ==
    ASSUME NEW D, NEW s, NEW t, NEW n, NEW k, Bien(s, D, n), Bien(t, {}, k),
           n \in Nat, k \in Nat, k <= n, D \subseteq LosMutexes,
           \A m \in D : k <= LosNiveles[m] /\ LosNiveles[m] \in Nat,
           \A m \in LosMutexes : LosNiveles[m] \in Nat
    PROVE  Bien(s \o t, D, n)
  <1>1. Bien(s \o t, D \union {}, n)
    BY BienSeguidas
  <1> QED
    BY <1>1

\* Letting go m, of what was left taken.
LEMMA SueltaSuelta ==
    ASSUME NEW D, NEW m \in LosMutexes, NEW s, Suelto(s, D \union {m})
    PROVE  Suelto(s \o <<Soltar(m)>>, D)
  <1> DEFINE n == Len(s)
             t == <<Soltar(m)>>
             r == s \o t
  <1>1. s \in Seq(UnPaso) /\ t \in Seq(UnPaso) /\ 1 \in DOMAIN t /\ t[1] = Soltar(m)
    BY DEF Suelto, Soltar, UnPaso
  <1>2. \A i \in DOMAIN t : t[i].op = "unlock"
    BY DEF Soltar
  <1>3. /\ r \in Seq(UnPaso) /\ n \in Nat
        /\ DOMAIN s \subseteq DOMAIN r /\ \A i \in DOMAIN s : r[i] = s[i] /\ i <= n /\ i \in Nat
        /\ \A i \in DOMAIN t : n + i \in DOMAIN r /\ r[n + i] = t[i] /\ i \in Nat /\ i > 0
        /\ \A i \in DOMAIN r : i \in DOMAIN s \/ (\E j \in DOMAIN t : i = n + j)
    <2> HIDE DEF t
    <2> QED
      BY <1>1, Seguidas
  <1> HIDE DEF n, t, r
  <1>4. ASSUME NEW i \in DOMAIN r, r[i].op = "lock", r[i].mutex \notin D
        PROVE  \E j \in DOMAIN r : i < j /\ r[j] = Soltar(r[i].mutex)
    <2>1. i \in DOMAIN s /\ r[i] = s[i]
      BY <1>2, <1>3, <1>4
    <2>2. CASE s[i].mutex = m
      <3>1. n + 1 \in DOMAIN r /\ r[n + 1] = Soltar(m) /\ i < n + 1
        BY <1>1, <1>3, <2>1
      <3> QED
        BY <2>1, <2>2, <3>1
    <2>3. CASE s[i].mutex # m
      <3>1. PICK j \in DOMAIN s : i < j /\ s[j] = Soltar(s[i].mutex)
        BY <1>4, <2>1, <2>3 DEF Suelto, Deja
      <3> QED
        BY <1>3, <2>1, <3>1
    <2> QED
      BY <2>2, <2>3
  <1>5. Suelto(r, D)
    BY <1>3, <1>4 DEF Suelto, Deja
  <1> QED
    BY <1>5 DEF r, t

LEMMA SueltaBien ==
    ASSUME NEW D, NEW m \in LosMutexes, NEW s, NEW n, Bien(s, D \union {m}, n)
    PROVE  Bien(s \o <<Soltar(m)>>, D, n)
  <1> DEFINE l == Len(s)
             t == <<Soltar(m)>>
             r == s \o t
  <1>1. s \in Seq(UnPaso) /\ t \in Seq(UnPaso)
    BY DEF Bien, Suelto, Soltar, UnPaso
  <1>2. \A i \in DOMAIN t : t[i].op = "unlock"
    BY DEF Soltar
  <1>3. /\ r \in Seq(UnPaso)
        /\ DOMAIN s \subseteq DOMAIN r /\ \A i \in DOMAIN s : r[i] = s[i]
        /\ \A i \in DOMAIN t : r[l + i] = t[i]
        /\ \A i \in DOMAIN r : i \in DOMAIN s \/ (\E j \in DOMAIN t : i = l + j)
    <2> HIDE DEF t
    <2> QED
      BY <1>1, Seguidas
  <1>4. Suelto(r, D)
    BY SueltaSuelta DEF Bien
  <1> HIDE DEF l, t, r
  <1>5. \A i \in DOMAIN r : r[i].op = "lock" => i \in DOMAIN s
    BY <1>2, <1>3
  <1>6. Debajo(r, n)
    BY <1>3, <1>5 DEF Bien, Debajo
  <1>7. Baja(r)
    BY <1>3, <1>5 DEF Bien, Baja
  <1> QED
    BY <1>4, <1>6, <1>7 DEF Bien, r, t

LEMMA NivelesNaturales == \A m \in LosMutexes : LosNiveles[m] \in Nat
  BY DEF LosNiveles

\* A path with m taken all along.
LEMMA ConDeja ==
    ASSUME NEW m \in LosMutexes, NEW D, NEW s, Suelto(s, D)
    PROVE  Suelto(Con(m, s), D)
  <1>1. Suelto(<<Tomar(m)>> \o s, {m} \union D)
    BY UnoToma, SueltasSeguidas
  <1>2. {m} \union D = D \union {m}
    OBVIOUS
  <1>3. Suelto((<<Tomar(m)>> \o s) \o <<Soltar(m)>>, D)
    BY <1>1, <1>2, SueltaSuelta
  <1> QED
    BY <1>3 DEF Con

LEMMA ConSuelto ==
    ASSUME NEW m \in LosMutexes, NEW s, Suelto(s, {})
    PROVE  Suelto(Con(m, s), {})
  BY ConDeja

LEMMA ConBien ==
    ASSUME NEW m \in LosMutexes, NEW s, NEW k \in Nat, NEW n \in Nat, Bien(s, {}, k),
           k <= LosNiveles[m], LosNiveles[m] < n
    PROVE  Bien(Con(m, s), {}, n)
  <1>1. Bien(<<Tomar(m)>> \o s, {m}, n)
    <2>1. LosNiveles[m] \in Nat
      BY NivelesNaturales
    <2>2. k <= n
      BY <2>1
    <2>3. Bien(<<Tomar(m)>>, {m}, n)
      BY UnoToma
    <2> QED
      BY <2>1, <2>2, <2>3, SiguenBien, NivelesNaturales
  <1>2. Bien(<<Tomar(m)>> \o s, {} \union {m}, n)
    BY <1>1
  <1>3. Bien((<<Tomar(m)>> \o s) \o <<Soltar(m)>>, {}, n)
    BY <1>2, SueltaBien
  <1> QED
    BY <1>3 DEF Con

\* The same of every path of a set.
TodosSueltos(S, D) == \A s \in S : Suelto(s, D)
TodosBien(S, D, n) == \A s \in S : Bien(s, D, n)

LEMMA LuegoSueltos ==
    ASSUME NEW D, NEW S, NEW T, TodosSueltos(S, D), TodosSueltos(T, {})
    PROVE  TodosSueltos(Luego(S, T), D)
  <1> SUFFICES ASSUME NEW r \in Luego(S, T) PROVE Suelto(r, D)
    BY DEF TodosSueltos
  <1>1. PICK s \in S, t \in T : r = s \o t
    BY DEF Luego
  <1> QED
    BY <1>1, SiguenSueltas DEF TodosSueltos

LEMMA LuegoBien ==
    ASSUME NEW D \in SUBSET LosMutexes, NEW S, NEW T, NEW n \in Nat, NEW k \in Nat, k <= n,
           \A m \in D : k <= LosNiveles[m],
           TodosBien(S, D, n), TodosBien(T, {}, k)
    PROVE  TodosBien(Luego(S, T), D, n)
  <1> SUFFICES ASSUME NEW r \in Luego(S, T) PROVE Bien(r, D, n)
    BY DEF TodosBien
  <1>1. PICK s \in S, t \in T : r = s \o t
    BY DEF Luego
  <1>2. Bien(s, D, n) /\ Bien(t, {}, k)
    BY <1>1 DEF TodosBien
  <1> QED
    BY <1>1, <1>2, SiguenBien, NivelesNaturales

LEMMA BienEsSuelto ==
    ASSUME NEW S, NEW D, NEW n, TodosBien(S, D, n)
    PROVE  TodosSueltos(S, D)
  BY DEF TodosBien, TodosSueltos, Bien

\* A search of a list takes the mutex of the list and one of its elements at a time.
LEMMA BuscarBien ==
    ASSUME NEW lista \in LosMutexes, NEW X \in SUBSET LosMutexes, NEW n \in Nat,
           LosNiveles[lista] < n, \A x \in X : LosNiveles[x] < LosNiveles[lista]
    PROVE  TodosBien(Buscar(lista, X), {}, n)
  <1> SUFFICES ASSUME NEW x \in X PROVE Bien(Con(lista, Con(x, <<>>)), {}, n)
    BY DEF TodosBien, Buscar
  <1>1. LosNiveles[x] \in Nat /\ LosNiveles[lista] \in Nat
    BY NivelesNaturales
  <1>2. Bien(Con(x, <<>>), {}, LosNiveles[lista])
    <2>1. Bien(<<>>, {}, 0) /\ 0 <= LosNiveles[x]
      BY <1>1, NadaTomado
    <2> QED
      BY <1>1, <2>1, ConBien
  <1> QED
    BY <1>1, <1>2, ConBien

LEMMA BienSube ==
    ASSUME NEW s, NEW D, NEW k \in Nat, NEW n \in Nat, k <= n, Bien(s, D, k)
    PROVE  Bien(s, D, n)
  <1>1. \A i \in DOMAIN s : s[i].op = "lock" => LosNiveles[s[i].mutex] \in Nat
    <2>1. \A i \in DOMAIN s : s[i] \in UnPaso
      BY DEF Bien, Suelto
    <2> QED
      BY <2>1, NivelesNaturales DEF UnPaso
  <1>2. Debajo(s, n)
    <2> SUFFICES ASSUME NEW i \in DOMAIN s, s[i].op = "lock" PROVE LosNiveles[s[i].mutex] < n
      BY DEF Debajo
    <2>1. LosNiveles[s[i].mutex] < k /\ LosNiveles[s[i].mutex] \in Nat
      BY <1>1 DEF Bien, Debajo
    <2> QED
      BY <2>1
  <1> QED
    BY <1>2 DEF Bien

LEMMA TodosSuben ==
    ASSUME NEW S, NEW D, NEW k \in Nat, NEW n \in Nat, k <= n, TodosBien(S, D, k)
    PROVE  TodosBien(S, D, n)
  BY BienSube DEF TodosBien

\* Where the mutex that a path leaves taken is let go.
Suelta(t, m) == \E j \in DOMAIN t : t[j] = Soltar(m)
TodosSueltan(T, m) == \A t \in T : Suelta(t, m)

LEMMA SueltaLuego ==
    ASSUME NEW m, NEW s \in Seq(UnPaso), NEW t \in Seq(UnPaso), Suelta(t, m)
    PROVE  Suelta(s \o t, m)
  <1> DEFINE n == Len(s)
             r == s \o t
  <1>1. n \in Nat /\ \A i \in DOMAIN t : n + i \in DOMAIN r /\ r[n + i] = t[i]
    BY Seguidas
  <1> HIDE DEF n, r
  <1> QED
    BY <1>1 DEF Suelta, r

LEMMA Cierra ==
    ASSUME NEW D, NEW s, NEW t, Suelto(s, D), Suelto(t, {}), \A m \in D : Suelta(t, m)
    PROVE  Suelto(s \o t, {})
  <1> DEFINE n == Len(s)
             r == s \o t
  <1>1. s \in Seq(UnPaso) /\ t \in Seq(UnPaso)
    BY DEF Suelto
  <1>2. /\ n \in Nat
        /\ \A i \in DOMAIN s : i <= n /\ i \in Nat
        /\ \A i \in DOMAIN t : n + i \in DOMAIN r /\ r[n + i] = t[i] /\ i \in Nat /\ i > 0
    BY <1>1, Seguidas
  <1>3. Suelto(r, D)
    BY SiguenSueltas
  <1>4. \A i \in DOMAIN r : i \in DOMAIN s \/ (\E k \in DOMAIN t : i = n + k /\ r[i] = t[k])
    BY <1>1, Seguidas
  <1> HIDE DEF n, r
  <1>5. ASSUME NEW i \in DOMAIN r, r[i].op = "lock"
        PROVE  \E j \in DOMAIN r : i < j /\ r[j] = Soltar(r[i].mutex)
    <2>1. CASE r[i].mutex \notin D
      BY <1>3, <1>5, <2>1 DEF Suelto, Deja
    <2>2. CASE r[i].mutex \in D /\ i \in DOMAIN s
      <3>1. PICK j \in DOMAIN t : t[j] = Soltar(r[i].mutex)
        BY <2>2 DEF Suelta
      <3>2. n + j \in DOMAIN r /\ r[n + j] = Soltar(r[i].mutex) /\ i < n + j
        BY <1>2, <2>2, <3>1
      <3> QED
        BY <2>2, <3>2
    <2>3. ASSUME NEW k \in DOMAIN t, i = n + k, r[i] = t[k]
          PROVE  \E j \in DOMAIN r : i < j /\ r[j] = Soltar(r[i].mutex)
      <3>1. PICK j \in DOMAIN t : k < j /\ t[j] = Soltar(t[k].mutex)
        BY <1>5, <2>3 DEF Suelto, Deja
      <3>2. n + j \in DOMAIN r /\ r[n + j] = t[j] /\ i < n + j
        BY <1>2, <2>3, <3>1
      <3> QED
        BY <2>3, <3>1, <3>2
    <2> QED
      BY <1>4, <1>5, <2>1, <2>2, <2>3
  <1> QED
    BY <1>3, <1>5 DEF Suelto, Deja, r

LEMMA LuegoSueltan ==
    ASSUME NEW m, NEW S, NEW T, TodosSueltos(S, {}), TodosSueltos(T, {}), TodosSueltan(T, m)
    PROVE  TodosSueltan(Luego(S, T), m)
  <1> SUFFICES ASSUME NEW r \in Luego(S, T) PROVE Suelta(r, m)
    BY DEF TodosSueltan
  <1>1. PICK s \in S, t \in T : r = s \o t
    BY DEF Luego
  <1> QED
    BY <1>1, SueltaLuego DEF TodosSueltos, TodosSueltan, Suelto

LEMMA CierranSueltos ==
    ASSUME NEW m, NEW S, NEW T, TodosSueltos(S, {m}), TodosSueltos(T, {}), TodosSueltan(T, m)
    PROVE  TodosSueltos(Luego(S, T), {})
  <1> SUFFICES ASSUME NEW r \in Luego(S, T) PROVE Suelto(r, {})
    BY DEF TodosSueltos
  <1>1. PICK s \in S, t \in T : r = s \o t
    BY DEF Luego
  <1> QED
    BY <1>1, Cierra DEF TodosSueltos, TodosSueltan

LEMMA CierranBien ==
    ASSUME NEW m \in LosMutexes, NEW S, NEW T, NEW n \in Nat, NEW k \in Nat,
           k <= n, k <= LosNiveles[m],
           TodosBien(S, {m}, n), TodosBien(T, {}, k), TodosSueltan(T, m)
    PROVE  TodosBien(Luego(S, T), {}, n)
  <1>1. TodosSueltos(Luego(S, T), {})
    BY BienEsSuelto, CierranSueltos
  <1>2. TodosBien(Luego(S, T), {m}, n)
    BY LuegoBien
  <1> QED
    BY <1>1, <1>2 DEF TodosSueltos, TodosBien, Bien

-----------------------------------------------------------------------------
(* The Master                                                              *)

\* The mutexes of the lists and of the tables are mutexes of the programs.
LEMMA Listas ==
    /\ "workers" \in LosMutexes /\ "planificacion" \in LosMutexes
    /\ "queries_ready" \in LosMutexes /\ "queries_exec" \in LosMutexes
    /\ "workers_info" \in LosMutexes /\ "locks_dict" \in LosMutexes
    /\ "bitmap" \in LosMutexes /\ "hash_index" \in LosMutexes
  BY DEF LosMutexes, MutexesGlobales

\* A path that goes after another, both below n.
LEMMA DosBien ==
    ASSUME NEW s, NEW t, NEW n \in Nat, NEW k \in Nat, k <= n, Bien(s, {}, n), Bien(t, {}, k)
    PROVE  Bien(s \o t, {}, n)
  BY SiguenBien, NivelesNaturales

\* A mutex that is taken and let go at once.
LEMMA ConNada ==
    ASSUME NEW m \in LosMutexes, NEW n \in Nat, LosNiveles[m] < n
    PROVE  Bien(Con(m, <<>>), {}, n)
  <1>1. Bien(<<>>, {}, 0) /\ LosNiveles[m] \in Nat
    BY NadaTomado, NivelesNaturales
  <1> QED
    BY <1>1, ConBien

LEMMA Piezas ==
    /\ TodosBien(ObtenerWorker, {}, 2) /\ TodosBien(MarcarWorker, {}, 2)
    /\ Bien(ObtenerSocket, {}, 2)
    /\ TodosBien(YaNoEstaba, {}, 4)
    /\ \A q \in Queries : /\ Bien(Con(q, <<>>), {}, 3)
                          /\ Bien(AExec(q), {}, 4)
                          /\ TodosBien(VolverAReady(q), {}, 5)
  <1>1. TodosBien(ObtenerWorker, {}, 2) /\ TodosBien(MarcarWorker, {}, 2)
    <2>1. TodosBien(Buscar("workers_info", Workers), {}, 2)
      BY Listas, Niveles, BuscarBien
    <2> QED
      BY <2>1 DEF ObtenerWorker, MarcarWorker
  <1>2. Bien(ObtenerSocket, {}, 2)
    BY Listas, Niveles, ConNada DEF ObtenerSocket
  <1>3. Bien(Con("queries_exec", <<>>), {}, 4)
    BY Listas, Niveles, ConNada
  <1>4. TodosBien(YaNoEstaba, {}, 4)
    <2>1. TodosBien({Con("queries_exec", <<>>)}, {}, 4)
      BY <1>3 DEF TodosBien
    <2>2. TodosBien(Luego({Con("queries_exec", <<>>)}, MarcarWorker), {}, 4)
      BY <1>1, <2>1, LuegoBien
    <2> QED
      BY <2>2 DEF YaNoEstaba
  <1>5. ASSUME NEW q \in Queries
        PROVE  /\ Bien(Con(q, <<>>), {}, 3)
               /\ Bien(AExec(q), {}, 4)
               /\ TodosBien(VolverAReady(q), {}, 5)
    <2>1. q \in LosMutexes /\ LosNiveles[q] = 2
      BY Niveles
    <2>2. Bien(Con(q, <<>>), {}, 3)
      BY <2>1, ConNada
    <2>3. Bien(AExec(q), {}, 4)
      BY <2>2, Listas, Niveles, ConBien DEF AExec
    <2>4. Bien(Con("queries_ready", Con(q, <<>>)), {}, 5)
      BY <2>2, Listas, Niveles, ConBien
    <2>5. Bien(Con("queries_exec", <<>>), {}, 5)
      BY <1>3, BienSube
    <2>6. Bien(Con("queries_exec", <<>>) \o Con("queries_ready", Con(q, <<>>)), {}, 5)
      BY <2>4, <2>5, DosBien
    <2>7. TodosBien({Con("queries_exec", <<>>) \o Con("queries_ready", Con(q, <<>>))}, {}, 5)
      BY <2>6 DEF TodosBien
    <2>8. TodosBien(VolverAReady(q), {}, 5)
      BY <1>1, <2>7, LuegoBien DEF VolverAReady
    <2> QED
      BY <2>2, <2>3, <2>8
  <1> QED
    BY <1>1, <1>2, <1>4, <1>5

\* A path that leaves mutex_planificacion taken goes on below it.
LEMMA SiguePlanificando ==
    ASSUME NEW s, NEW t, NEW k \in Nat, k <= 5,
           Bien(s, {"planificacion"}, 6), Bien(t, {}, k)
    PROVE  Bien(s \o t, {"planificacion"}, 6)
  <1>1. \A m \in {"planificacion"} : k <= LosNiveles[m] /\ LosNiveles[m] \in Nat
    BY Niveles, Listas
  <1>2. {"planificacion"} \subseteq LosMutexes
    BY Listas
  <1> QED
    BY <1>1, <1>2, SiguenBien, NivelesNaturales

LEMMA EmpiezaPlanificando == Bien(<<Tomar("planificacion")>>, {"planificacion"}, 6)
  <1>1. "planificacion" \in LosMutexes /\ LosNiveles["planificacion"] < 6
    BY Listas, Niveles
  <1> QED
    BY <1>1, UnoToma

LEMMA TerminaDePlanificar ==
    ASSUME NEW s, Bien(s, {"planificacion"}, 6)
    PROVE  Bien(s \o <<Soltar("planificacion")>>, {}, 6)
  <1>1. Bien(s, {} \union {"planificacion"}, 6)
    OBVIOUS
  <1> QED
    BY <1>1, SueltaBien, Listas

LEMMA Soltadas ==
    /\ TodosBien(Soltada, {}, 0) /\ TodosSueltan(Soltada, "planificacion")
    /\ TodosBien(SoltadaDosVeces, {}, 0) /\ TodosSueltan(SoltadaDosVeces, "planificacion")
  <1>1. TodosBien(Soltada, {}, 0) /\ TodosSueltan(Soltada, "planificacion")
    BY UnoSuelta, Listas DEF TodosBien, TodosSueltan, Soltada, Suelta
  <1>2. Bien(<<Soltar("planificacion"), Soltar("planificacion")>>, {}, 0)
    BY Listas DEF Bien, Suelto, Deja, Baja, Debajo, Soltar, UnPaso
  <1>3. TodosBien(SoltadaDosVeces, {}, 0) /\ TodosSueltan(SoltadaDosVeces, "planificacion")
    BY <1>2 DEF TodosBien, TodosSueltan, SoltadaDosVeces, Suelta
  <1> QED
    BY <1>1, <1>3

\* planificar_queries_fifo, whole; with the query sent; and when the send fails,
\* which does not respect the levels.
LEMMA FifoPlanifica ==
    /\ TodosBien(FifoSinNada, {}, 6) /\ TodosBien(FifoEnviando, {}, 6)
    /\ TodosSueltos(FifoFallando, {})
  <1>1. TodosBien(FifoSinNada, {}, 6)
    <2>1. Bien(Con("planificacion", Con("queries_ready", <<>>)), {}, 6)
      <3>1. Bien(Con("queries_ready", <<>>), {}, 5)
        BY Listas, Niveles, ConNada
      <3> QED
        BY <3>1, Listas, Niveles, ConBien
    <2>2. ASSUME NEW s \in ObtenerWorker
          PROVE  Bien(<<Tomar("planificacion"), Tomar("queries_ready")>> \o s
                        \o <<Soltar("planificacion"), Soltar("queries_ready")>>, {}, 6)
      <3> DEFINE a == <<Tomar("planificacion"), Tomar("queries_ready")>>
                 b == <<Soltar("planificacion"), Soltar("queries_ready")>>
                 D == {"planificacion", "queries_ready"}
      <3>1. Bien(a, D, 6)
        BY Listas, Niveles DEF Bien, Suelto, Deja, Baja, Debajo, Tomar, UnPaso
      <3>2. Bien(s, {}, 2)
        BY Piezas DEF TodosBien
      <3>3. /\ D \subseteq LosMutexes
            /\ \A m \in D : 2 <= LosNiveles[m] /\ LosNiveles[m] \in Nat
        BY Listas, Niveles
      <3>4. Bien(a \o s, D, 6)
        <4> HIDE DEF a, D
        <4> QED
          BY <3>1, <3>2, <3>3, SiguenBien, NivelesNaturales
      <3>5. Bien(b, {}, 0) /\ \A m \in D : Suelta(b, m)
        BY Listas DEF Bien, Suelto, Deja, Baja, Debajo, Soltar, UnPaso, Suelta
      <3> HIDE DEF a, b, D
      <3>6. Bien(a \o s \o b, D, 6)
        BY <3>3, <3>4, <3>5, SiguenBien, NivelesNaturales
      <3>7. Suelto(a \o s \o b, {})
        BY <3>4, <3>5, Cierra DEF Bien
      <3> QED
        BY <3>6, <3>7 DEF Bien, a, b
    <2> QED
      BY <2>1, <2>2 DEF TodosBien, FifoSinNada
  <1>2. ASSUME NEW q \in Queries PROVE TodosBien(FifoHastaEnviar(q), {"planificacion"}, 6)
    <2>1. ASSUME NEW s \in ObtenerWorker
          PROVE  Bien(<<Tomar("planificacion")>> \o Con("queries_ready", s) \o AExec(q)
                        \o ObtenerSocket, {"planificacion"}, 6)
      <3>1. Bien(s, {}, 2)
        BY Piezas DEF TodosBien
      <3>2. Bien(Con("queries_ready", s), {}, 5)
        BY <3>1, Listas, Niveles, ConBien
      <3>3. Bien(<<Tomar("planificacion")>> \o Con("queries_ready", s), {"planificacion"}, 6)
        BY <3>2, EmpiezaPlanificando, SiguePlanificando
      <3>4. Bien(<<Tomar("planificacion")>> \o Con("queries_ready", s) \o AExec(q),
                 {"planificacion"}, 6)
        BY <3>3, Piezas, SiguePlanificando
      <3> QED
        BY <3>4, Piezas, SiguePlanificando
    <2> QED
      BY <2>1 DEF TodosBien, FifoHastaEnviar
  <1>3. TodosBien(FifoEnviando, {}, 6)
    <2>1. ASSUME NEW q \in Queries
          PROVE  /\ TodosBien(Luego(FifoHastaEnviar(q), Soltada), {}, 6)
                 /\ TodosBien(Luego(FifoHastaEnviar(q), Luego(YaNoEstaba, Soltada)), {}, 6)
      <3>1. LosNiveles["planificacion"] = 5 /\ "planificacion" \in LosMutexes
        BY Niveles, Listas
      <3>2. TodosBien(Luego(FifoHastaEnviar(q), Soltada), {}, 6)
        BY <1>2, <3>1, Soltadas, CierranBien
      <3>3. TodosBien(Luego(YaNoEstaba, Soltada), {}, 4)
        BY Piezas, Soltadas, LuegoBien
      <3>4. TodosSueltan(Luego(YaNoEstaba, Soltada), "planificacion")
        BY Piezas, Soltadas, BienEsSuelto, LuegoSueltan
      <3> QED
        BY <1>2, <3>1, <3>2, <3>3, <3>4, CierranBien
    <2> QED
      BY <2>1 DEF TodosBien, FifoEnviando
  <1>4. TodosSueltos(FifoFallando, {})
    <2>1. ASSUME NEW q \in Queries
          PROVE  TodosSueltos(Luego(FifoHastaEnviar(q),
                    Luego(VolverAReady(q), Luego(FifoSinNada, Soltada))), {})
      <3>1. /\ TodosSueltos(FifoHastaEnviar(q), {"planificacion"})
            /\ TodosSueltos(VolverAReady(q), {}) /\ TodosSueltos(FifoSinNada, {})
            /\ TodosSueltos(Soltada, {})
        BY <1>1, <1>2, Piezas, Soltadas, BienEsSuelto
      <3>2. /\ TodosSueltos(Luego(FifoSinNada, Soltada), {})
            /\ TodosSueltan(Luego(FifoSinNada, Soltada), "planificacion")
        BY <3>1, Soltadas, LuegoSueltos, LuegoSueltan
      <3>3. /\ TodosSueltos(Luego(VolverAReady(q), Luego(FifoSinNada, Soltada)), {})
            /\ TodosSueltan(Luego(VolverAReady(q), Luego(FifoSinNada, Soltada)), "planificacion")
        BY <3>1, <3>2, LuegoSueltos, LuegoSueltan
      <3> QED
        BY <3>1, <3>3, CierranSueltos
    <2> QED
      BY <2>1 DEF TodosSueltos, FifoFallando
  <1> QED
    BY <1>1, <1>3, <1>4

\* planificar_queries_prioridades: the same.
LEMMA PrioridadesPlanifica ==
    /\ TodosBien(PrioridadesSinNada, {}, 6) /\ TodosBien(PrioridadesEnviando, {}, 6)
    /\ TodosSueltos(PrioridadesFallando, {})
  <1>1. Bien(ContarWorkers, {"planificacion"}, 6)
    <2>1. Bien(Con("workers_info", <<>>), {}, 2)
      BY Listas, Niveles, ConNada
    <2> QED
      BY <2>1, EmpiezaPlanificando, SiguePlanificando DEF ContarWorkers
  <1>2. ASSUME NEW s \in ObtenerWorker, NEW q \in Queries
        PROVE  Bien(s \o Con(q, <<>>), {}, 3)
    <2>1. Bien(s, {}, 3)
      BY Piezas, BienSube DEF TodosBien
    <2> QED
      BY <2>1, Piezas, DosBien
  <1>3. TodosBien(PrioridadesSinNada, {}, 6)
    <2>1. Bien(ContarWorkers \o Con("queries_ready", <<>>) \o <<Soltar("planificacion")>>, {}, 6)
      <3>1. Bien(Con("queries_ready", <<>>), {}, 5)
        BY Listas, Niveles, ConNada
      <3> QED
        BY <1>1, <3>1, SiguePlanificando, TerminaDePlanificar
    <2>2. ASSUME NEW s \in ObtenerWorker, NEW q \in Queries, NEW e \in Buscar("queries_exec", Queries)
          PROVE  Bien(ContarWorkers \o Con("queries_ready", s \o Con(q, <<>>) \o e)
                        \o <<Soltar("planificacion")>>, {}, 6)
      <3>1. Bien(e, {}, 4)
        <4>1. TodosBien(Buscar("queries_exec", Queries), {}, 4)
          BY Listas, Niveles, BuscarBien
        <4> QED
          BY <4>1 DEF TodosBien
      <3>2. Bien(s \o Con(q, <<>>), {}, 4)
        BY <1>2, BienSube
      <3>3. Bien(s \o Con(q, <<>>) \o e, {}, 4)
        BY <3>1, <3>2, DosBien
      <3>4. Bien(Con("queries_ready", s \o Con(q, <<>>) \o e), {}, 5)
        BY <3>3, Listas, Niveles, ConBien
      <3> QED
        BY <1>1, <3>4, SiguePlanificando, TerminaDePlanificar
    <2>3. ASSUME NEW r \in PrioridadesSinNada PROVE Bien(r, {}, 6)
      <3>1. CASE r = ContarWorkers \o Con("queries_ready", <<>>) \o <<Soltar("planificacion")>>
        BY <2>1, <3>1
      <3>2. ASSUME NEW s \in ObtenerWorker, NEW q \in Queries,
                   NEW e \in Buscar("queries_exec", Queries),
                   r = ContarWorkers \o Con("queries_ready", s \o Con(q, <<>>) \o e)
                        \o <<Soltar("planificacion")>>
            PROVE  Bien(r, {}, 6)
        BY <2>2, <3>2
      <3> QED
        BY <3>1, <3>2 DEF PrioridadesSinNada
    <2> QED
      BY <2>3 DEF TodosBien
  <1>4. ASSUME NEW q \in Queries PROVE TodosBien(PrioridadesHastaEnviar(q), {"planificacion"}, 6)
    <2>1. ASSUME NEW s \in ObtenerWorker
          PROVE  Bien(ContarWorkers \o Con("queries_ready", s \o Con(q, <<>>)) \o AExec(q)
                        \o ObtenerSocket, {"planificacion"}, 6)
      <3>1. Bien(Con("queries_ready", s \o Con(q, <<>>)), {}, 5)
        BY <1>2, Listas, Niveles, ConBien
      <3>2. Bien(ContarWorkers \o Con("queries_ready", s \o Con(q, <<>>)), {"planificacion"}, 6)
        BY <1>1, <3>1, SiguePlanificando
      <3>3. Bien(ContarWorkers \o Con("queries_ready", s \o Con(q, <<>>)) \o AExec(q),
                 {"planificacion"}, 6)
        BY <3>2, Piezas, SiguePlanificando
      <3> QED
        BY <3>3, Piezas, SiguePlanificando
    <2> QED
      BY <2>1 DEF TodosBien, PrioridadesHastaEnviar
  <1>5. ASSUME NEW q \in Queries, NEW v \in Queries
        PROVE  TodosBien(DesalojarHastaEnviar(q, v), {"planificacion"}, 6)
    <2> DEFINE exec == Con("queries_exec", Con(v, <<>>))
    <2>1. Bien(exec, {}, 4)
      BY Piezas, Listas, Niveles, ConBien
    <2>2. Bien(exec \o Con(v, ObtenerSocket), {}, 4)
      <3>1. v \in LosMutexes /\ LosNiveles[v] = 2
        BY Niveles
      <3>2. Bien(Con(v, ObtenerSocket), {}, 3)
        BY <3>1, Piezas, ConBien
      <3> HIDE DEF exec
      <3> QED
        BY <2>1, <3>2, DosBien
    <2>3. TodosBien(AvisarDesalojo(v), {}, 4)
      BY <2>1, <2>2 DEF TodosBien, AvisarDesalojo
    <2> DEFINE buscar(s) == ContarWorkers \o Con("queries_ready", s \o Con(q, <<>>) \o exec)
                              \o Con(q, <<>>)
               tomar(m) == Con("queries_exec", <<>>) \o m \o ObtenerSocket
    <2>4. ASSUME NEW s \in ObtenerWorker PROVE Bien(buscar(s), {"planificacion"}, 6)
      <3> HIDE DEF exec
      <3>1. Bien(s \o Con(q, <<>>), {}, 4)
        BY <1>2, BienSube
      <3>2. Bien(s \o Con(q, <<>>) \o exec, {}, 4)
        BY <2>1, <3>1, DosBien
      <3>3. Bien(Con("queries_ready", s \o Con(q, <<>>) \o exec), {}, 5)
        BY <3>2, Listas, Niveles, ConBien
      <3>4. Bien(ContarWorkers \o Con("queries_ready", s \o Con(q, <<>>) \o exec),
                 {"planificacion"}, 6)
        BY <1>1, <3>3, SiguePlanificando
      <3> QED
        BY <3>4, Piezas, SiguePlanificando
    <2>5. ASSUME NEW m \in MarcarWorker PROVE Bien(tomar(m), {}, 4)
      <3>1. Bien(Con("queries_exec", <<>>), {}, 4) /\ Bien(m, {}, 2)
        BY Listas, Niveles, ConNada, Piezas DEF TodosBien
      <3>2. Bien(Con("queries_exec", <<>>) \o m, {}, 4)
        BY <3>1, DosBien
      <3> QED
        BY <3>2, Piezas, DosBien
    <2>6. DesalojarHastaEnviar(q, v) =
            Luego({buscar(s) : s \in ObtenerWorker},
                  Luego(AvisarDesalojo(v), {tomar(m) : m \in MarcarWorker}))
      BY DEF DesalojarHastaEnviar
    <2> HIDE DEF buscar, tomar
    <2>7. /\ TodosBien({buscar(s) : s \in ObtenerWorker}, {"planificacion"}, 6)
          /\ TodosBien({tomar(m) : m \in MarcarWorker}, {}, 4)
      BY <2>4, <2>5 DEF TodosBien
    <2>8. TodosBien(Luego(AvisarDesalojo(v), {tomar(m) : m \in MarcarWorker}), {}, 4)
      BY <2>3, <2>7, LuegoBien
    <2>9. \A m \in {"planificacion"} : 4 <= LosNiveles[m]
      BY Niveles
    <2> QED
      BY <2>6, <2>7, <2>8, <2>9, Listas, LuegoBien
  <1>6. LosNiveles["planificacion"] = 5 /\ "planificacion" \in LosMutexes
    BY Niveles, Listas
  <1>7. TodosBien(PrioridadesEnviando, {}, 6)
    <2>1. ASSUME NEW q \in Queries
          PROVE  /\ TodosBien(Luego(PrioridadesHastaEnviar(q), SoltadaDosVeces), {}, 6)
                 /\ TodosBien(Luego(PrioridadesHastaEnviar(q), Luego(YaNoEstaba, SoltadaDosVeces)), {}, 6)
      <3>1. TodosBien(Luego(PrioridadesHastaEnviar(q), SoltadaDosVeces), {}, 6)
        BY <1>4, <1>6, Soltadas, CierranBien
      <3>2. TodosBien(Luego(YaNoEstaba, SoltadaDosVeces), {}, 4)
        BY Piezas, Soltadas, LuegoBien
      <3>3. TodosSueltan(Luego(YaNoEstaba, SoltadaDosVeces), "planificacion")
        BY Piezas, Soltadas, BienEsSuelto, LuegoSueltan
      <3> QED
        BY <1>4, <1>6, <3>1, <3>2, <3>3, CierranBien
    <2>2. TodosBien(Luego(Desalojando, Soltada), {}, 6)
      <3>1. TodosBien(Desalojando, {"planificacion"}, 6)
        BY <1>5 DEF TodosBien, Desalojando
      <3> QED
        BY <1>6, <3>1, Soltadas, CierranBien
    <2>3. ASSUME NEW r \in PrioridadesEnviando PROVE Bien(r, {}, 6)
      <3>1. CASE r \in Luego(Desalojando, Soltada)
        BY <2>2, <3>1 DEF TodosBien
      <3>2. ASSUME NEW q \in Queries,
                   \/ r \in Luego(PrioridadesHastaEnviar(q), SoltadaDosVeces)
                   \/ r \in Luego(PrioridadesHastaEnviar(q), Luego(YaNoEstaba, SoltadaDosVeces))
            PROVE  Bien(r, {}, 6)
        BY <2>1, <3>2 DEF TodosBien
      <3> QED
        BY <3>1, <3>2 DEF PrioridadesEnviando
    <2> QED
      BY <2>3 DEF TodosBien
  <1>8. TodosSueltos(PrioridadesFallando, {})
    <2>1. ASSUME NEW q \in Queries
          PROVE  TodosSueltos(Luego(PrioridadesHastaEnviar(q),
                    Luego(VolverAReady(q), Luego(PrioridadesSinNada, SoltadaDosVeces))), {})
      <3>1. /\ TodosSueltos(PrioridadesHastaEnviar(q), {"planificacion"})
            /\ TodosSueltos(VolverAReady(q), {}) /\ TodosSueltos(PrioridadesSinNada, {})
            /\ TodosSueltos(SoltadaDosVeces, {})
        BY <1>3, <1>4, Piezas, Soltadas, BienEsSuelto
      <3>2. /\ TodosSueltos(Luego(PrioridadesSinNada, SoltadaDosVeces), {})
            /\ TodosSueltan(Luego(PrioridadesSinNada, SoltadaDosVeces), "planificacion")
        BY <3>1, Soltadas, LuegoSueltos, LuegoSueltan
      <3>3. /\ TodosSueltos(Luego(VolverAReady(q), Luego(PrioridadesSinNada, SoltadaDosVeces)), {})
            /\ TodosSueltan(Luego(VolverAReady(q), Luego(PrioridadesSinNada, SoltadaDosVeces)),
                            "planificacion")
        BY <3>1, <3>2, LuegoSueltos, LuegoSueltan
      <3> QED
        BY <3>1, <3>3, CierranSueltos
    <2> QED
      BY <2>1 DEF TodosSueltos, PrioridadesFallando
  <1> QED
    BY <1>3, <1>7, <1>8

\* The other functions of the Master's threads; only procesar_desalojo_completado
\* does not respect the levels.
LEMMA MasterAtiende ==
    /\ TodosBien(ConectarQuery, {}, 6) /\ TodosBien(AplicarAging, {}, 6)
    /\ TodosBien(ConectarWorker, {}, 6) /\ TodosBien(BuscarPorWorker, {}, 6)
    /\ TodosBien(QueryFinalizada, {}, 6) /\ TodosBien(DesconexionWorker, {}, 6)
    /\ TodosSueltos(DesalojoCompletado, {})
  <1>1. TodosBien(ConectarQuery, {}, 6) /\ TodosBien(ConectarWorker, {}, 6)
    <2>1. /\ Bien(Con("workers_info", <<>>), {}, 6) /\ Bien(Con("queries_ready", <<>>), {}, 6)
          /\ Bien(Con("workers", <<>>), {}, 6)
      BY Listas, Niveles, ConNada
    <2> QED
      BY <2>1 DEF TodosBien, ConectarQuery, ConectarWorker
  <1>2. TodosBien(AplicarAging, {}, 6)
    <2>1. ASSUME NEW q \in Queries PROVE Bien(Con(q, <<>>), {}, 6)
      BY Piezas, BienSube
    <2> QED
      BY <2>1 DEF TodosBien, AplicarAging
  <1>3. TodosBien(BuscarPorWorker, {}, 6)
    BY Listas, Niveles, BuscarBien DEF BuscarPorWorker
  <1>4. TodosBien(QueryFinalizada, {}, 6)
    <2>1. ASSUME NEW q \in Queries, NEW m \in MarcarWorker
          PROVE  Bien(Con("workers", Con("queries_exec", Con(q, m))), {}, 6)
      <3>1. Bien(m, {}, 2) /\ q \in LosMutexes /\ LosNiveles[q] = 2
        BY Piezas, Niveles DEF TodosBien
      <3>2. Bien(Con(q, m), {}, 3)
        BY <3>1, ConBien
      <3>3. Bien(Con("queries_exec", Con(q, m)), {}, 4)
        BY <3>2, Listas, Niveles, ConBien
      <3> QED
        BY <3>3, Listas, Niveles, ConBien
    <2> QED
      BY <2>1 DEF TodosBien, QueryFinalizada
  <1>5. TodosBien(DesconexionWorker, {}, 6)
    <2>1. Bien(Con("workers_info", <<>>), {}, 4) /\ Bien(Con("queries_exec", <<>>), {}, 4)
      BY Listas, Niveles, ConNada
    <2>2. Bien(Con("workers", Con("workers_info", <<>>) \o Con("queries_exec", <<>>)), {}, 6)
      <3>1. Bien(Con("workers_info", <<>>) \o Con("queries_exec", <<>>), {}, 4)
        BY <2>1, DosBien
      <3> QED
        BY <3>1, Listas, Niveles, ConBien
    <2>3. ASSUME NEW q \in Queries
          PROVE  Bien(Con("workers", Con("workers_info", <<>>) \o Con("queries_exec", Con(q, <<>>))
                                       \o Con(q, <<>>) \o Con(q, <<>>)), {}, 6)
      <3>1. Bien(Con(q, <<>>), {}, 3)
        BY Piezas
      <3>2. Bien(Con("queries_exec", Con(q, <<>>)), {}, 4)
        BY <3>1, Listas, Niveles, ConBien
      <3>3. Bien(Con("workers_info", <<>>) \o Con("queries_exec", Con(q, <<>>)), {}, 4)
        BY <2>1, <3>2, DosBien
      <3>4. Bien(Con("workers_info", <<>>) \o Con("queries_exec", Con(q, <<>>)) \o Con(q, <<>>), {}, 4)
        BY <3>1, <3>3, DosBien
      <3>5. Bien(Con("workers_info", <<>>) \o Con("queries_exec", Con(q, <<>>)) \o Con(q, <<>>)
                   \o Con(q, <<>>), {}, 4)
        BY <3>1, <3>4, DosBien
      <3> QED
        BY <3>5, Listas, Niveles, ConBien
    <2> QED
      BY <2>2, <2>3 DEF TodosBien, DesconexionWorker
  <1>6. TodosSueltos(DesalojoCompletado, {})
    <2>1. ASSUME NEW q \in Queries, NEW m \in MarcarWorker
          PROVE  Suelto(<<Tomar(q)>> \o Con("queries_exec", <<>>)
                          \o <<Tomar("queries_ready"), Soltar(q), Soltar("queries_ready")>> \o m, {})
      <3> DEFINE a == <<Tomar(q)>> \o Con("queries_exec", <<>>)
                 b == <<Tomar("queries_ready"), Soltar(q), Soltar("queries_ready")>>
      <3>1. q \in LosMutexes
        BY Niveles
      <3>2. Suelto(a, {q})
        BY <3>1, Listas, UnoToma, NadaTomado, ConSuelto, SiguenSueltas
      <3>3. Suelto(b, {}) /\ Suelta(b, q)
        BY <3>1, Listas DEF Suelto, Deja, Tomar, Soltar, UnPaso, Suelta
      <3>4. Suelto(m, {})
        BY Piezas DEF TodosBien, Bien
      <3> HIDE DEF a, b
      <3>5. Suelto(a \o b, {})
        BY <3>2, <3>3, Cierra
      <3>6. Suelto(a \o b \o m, {})
        BY <3>4, <3>5, SiguenSueltas
      <3> QED
        BY <3>6 DEF a, b
    <2> QED
      BY <2>1 DEF TodosSueltos, DesalojoCompletado
  <1> QED
    BY <1>1, <1>2, <1>3, <1>4, <1>5, <1>6

-----------------------------------------------------------------------------
(* The Storage                                                             *)

\* An operation on a File:Tag leaves taken what it leaves with its mutex taken.
LEMMA ConFileTagDeja ==
    ASSUME NEW ft \in FileTags, NEW D, NEW s, Suelto(s, D)
    PROVE  Suelto(ConFileTag(ft, s), D)
  <1>1. ft \in LosMutexes
    BY Niveles
  <1>2. Suelto(Con("locks_dict", <<>>), {}) /\ Suelto(Con(ft, s), D)
    BY <1>1, Listas, NadaTomado, ConDeja
  <1>3. Suelto(Con("locks_dict", <<>>) \o Con(ft, s), {} \union D)
    BY <1>2, SueltasSeguidas
  <1> QED
    BY <1>3 DEF ConFileTag, ObtenerLock

LEMMA ConFileTagBien ==
    ASSUME NEW ft \in FileTags, NEW s, Bien(s, {}, 1)
    PROVE  Bien(ConFileTag(ft, s), {}, 6)
  <1>1. ft \in LosMutexes /\ LosNiveles[ft] = 2
    BY Niveles
  <1>2. Bien(Con("locks_dict", <<>>), {}, 6)
    BY Listas, Niveles, ConNada
  <1>3. Bien(Con(ft, s), {}, 6)
    BY <1>1, ConBien
  <1> QED
    BY <1>2, <1>3, DosBien DEF ConFileTag, ObtenerLock

\* The returns that keep the mutex of the File:Tag keep nothing else, and took it
\* in order.
LEMMA SinSoltarBien ==
    ASSUME NEW ft \in FileTags, NEW s, Bien(s, {}, 1)
    PROVE  Bien(SinSoltarFileTag(ft, s), {ft}, 6)
  <1>1. ft \in LosMutexes /\ LosNiveles[ft] = 2
    BY Niveles
  <1>2. Bien(Con("locks_dict", <<>>), {}, 6)
    BY Listas, Niveles, ConNada
  <1>3. Bien(<<Tomar(ft)>> \o s, {ft}, 6)
    <2>1. Bien(<<Tomar(ft)>>, {ft}, 6)
      <3>1. LosNiveles[ft] < 6
        BY <1>1
      <3> QED
        BY <1>1, <3>1, UnoToma
    <2>2. \A m \in {ft} : 1 <= LosNiveles[m] /\ LosNiveles[m] \in Nat
      BY <1>1
    <2> QED
      BY <1>1, <2>1, <2>2, SiguenBien, NivelesNaturales
  <1>4. Bien(Con("locks_dict", <<>>) \o (<<Tomar(ft)>> \o s), {} \union {ft}, 6)
    BY <1>2, <1>3, BienSeguidas, NivelesNaturales
  <1>5. {} \union {ft} = {ft}
    OBVIOUS
  <1> QED
    BY <1>4, <1>5 DEF SinSoltarFileTag, ObtenerLock

LEMMA DejaMas ==
    ASSUME NEW s, NEW D, NEW E, D \subseteq E, Suelto(s, D)
    PROVE  Suelto(s, E)
  BY DEF Suelto, Deja

\* Every operation but copiar_tag takes in order; escribir_bloque and crear_file
\* may leave the mutex of their File:Tag.
LEMMA StorageOpera ==
    ASSUME NEW ft \in FileTags
    PROVE  /\ TodosBien(CommitearTag(ft), {}, 6) /\ TodosBien(OtrasOperaciones(ft), {}, 6)
           /\ \A s \in EscribirBloque(ft) \union CrearFile(ft) : Suelto(s, FileTags) /\ Baja(s)
  <1>1. Bien(SinTomar, {}, 1)
    BY NadaTomado DEF SinTomar
  <1>2. Bien(Bitmap, {}, 1) /\ Bien(Hash, {}, 1)
    BY Listas, Niveles, ConNada DEF Bitmap, Hash
  <1>3. Bien(Hash \o Bitmap, {}, 1) /\ Bien(Hash \o Hash, {}, 1)
    BY <1>2, DosBien
  <1>4. \A s \in {SinTomar, Bitmap, Hash, Hash \o Bitmap, Hash \o Hash} :
            Bien(ConFileTag(ft, s), {}, 6)
    BY <1>1, <1>2, <1>3, ConFileTagBien
  <1>5. \A s \in {SinTomar, Bitmap} : Bien(SinSoltarFileTag(ft, s), {ft}, 6)
    BY <1>1, <1>2, SinSoltarBien
  <1>6. TodosBien(CommitearTag(ft), {}, 6) /\ TodosBien(OtrasOperaciones(ft), {}, 6)
    BY <1>4 DEF TodosBien, OtrasOperaciones, LeerBloque, EliminarFile, TruncarFile, CommitearTag
  <1>7. ASSUME NEW s \in EscribirBloque(ft) \union CrearFile(ft)
        PROVE  Suelto(s, FileTags) /\ Baja(s)
    <2>1. Bien(s, {}, 6) \/ Bien(s, {ft}, 6)
      BY <1>4, <1>5 DEF EscribirBloque, CrearFile
    <2>2. {} \subseteq FileTags /\ {ft} \subseteq FileTags
      OBVIOUS
    <2> QED
      BY <2>1, <2>2, DejaMas DEF Bien
  <1> QED
    BY <1>6, <1>7

\* copiar_tag leaves what crear_file does, and not in the order of the levels.
LEMMA StorageCopia ==
    ASSUME NEW origen \in FileTags, NEW destino \in FileTags
    PROVE  TodosSueltos(CopiarTag(origen, destino), FileTags)
  <1> DEFINE d == ConFileTag(destino, SinTomar)
  <1>1. Suelto(SinTomar, {})
    BY NadaTomado DEF SinTomar
  <1>2. Suelto(d, {})
    BY <1>1, ConFileTagDeja
  <1> HIDE DEF d
  <1>3. Suelto(d \o d, {})
    BY <1>2, SiguenSueltas
  <1>4. \A s \in {SinTomar, d \o d} : Suelto(s, FileTags)
    <2>1. {} \subseteq FileTags
      OBVIOUS
    <2> QED
      BY <1>1, <1>3, <2>1, DejaMas
  <1>5. \A s \in CrearFile(destino) : Suelto(s, FileTags)
    BY StorageOpera
  <1>6. \A s \in CrearFile(destino) \union {SinTomar, d \o d} : Suelto(ConFileTag(origen, s), FileTags)
    BY <1>4, <1>5, ConFileTagDeja
  <1> QED
    BY <1>6 DEF TodosSueltos, CopiarTag, d

-----------------------------------------------------------------------------
(* The theorems                                                            *)

\* What every function of the two programs is.
BuenaFuncion(f) ==
    /\ Suelto(f.pasos, IF f.nombre \in LasRetenedoras THEN FileTags ELSE {})
    /\ f.nombre \in LasInvertidas \/ Baja(f.pasos)

\* The same of the paths of a function.
BuenosPasos(nombre, S) ==
    \A s \in S : /\ Suelto(s, {}) \/ (nombre \in LasRetenedoras /\ Suelto(s, FileTags))
                 /\ nombre \in LasInvertidas \/ Baja(s)

LEMMA NombrarBuenas ==
    ASSUME NEW nombre, NEW S
    PROVE  /\ BuenosPasos(nombre, S) => \A f \in Nombrar(nombre, S) : BuenaFuncion(f)
           /\ TodosBien(S, {}, 6) => \A f \in Nombrar(nombre, S) : BuenaFuncion(f)
           /\ nombre \in LasInvertidas /\ TodosSueltos(S, {})
                => \A f \in Nombrar(nombre, S) : BuenaFuncion(f)
  <1>1. ASSUME BuenosPasos(nombre, S), NEW s \in S
        PROVE  BuenaFuncion([nombre |-> nombre, pasos |-> s])
    <2>1. Suelto(s, IF nombre \in LasRetenedoras THEN FileTags ELSE {})
      <3>1. {} \subseteq FileTags
        OBVIOUS
      <3> QED
        BY <1>1, <3>1, DejaMas DEF BuenosPasos
    <2>2. nombre \in LasInvertidas \/ Baja(s)
      BY <1>1 DEF BuenosPasos
    <2> QED
      BY <2>1, <2>2 DEF BuenaFuncion
  <1>2. BuenosPasos(nombre, S) => \A f \in Nombrar(nombre, S) : BuenaFuncion(f)
    BY <1>1 DEF Nombrar, Funcion
  <1>3. TodosBien(S, {}, 6) => BuenosPasos(nombre, S)
    BY DEF TodosBien, Bien, BuenosPasos
  <1>4. nombre \in LasInvertidas /\ TodosSueltos(S, {}) => BuenosPasos(nombre, S)
    BY DEF TodosSueltos, BuenosPasos
  <1> QED
    BY <1>2, <1>3, <1>4

LEMMA FuncionesBuenas ==
    \A f \in FuncionesFifo \union FuncionesPrioridades \union FuncionesStorage : BuenaFuncion(f)
  <1>1. /\ "procesar_desalojo_completado" \in LasInvertidas
        /\ "manejar_fallo_envio_worker" \in LasInvertidas /\ "copiar_tag" \in LasInvertidas
    BY DEF LasInvertidas
  <1>2. \A f \in Atencion : BuenaFuncion(f)
    <2>1. TodosBien(ConectarQuery \union AplicarAging, {}, 6)
      BY MasterAtiende DEF TodosBien
    <2>2. TodosBien(ConectarWorker \union BuscarPorWorker, {}, 6)
      BY MasterAtiende DEF TodosBien
    <2> QED
      BY <2>1, <2>2, MasterAtiende, NombrarBuenas DEF Atencion
  <1>3. \A f \in FuncionesFifo : BuenaFuncion(f)
    <2>1. TodosBien(FifoSinNada \union FifoEnviando, {}, 6)
      BY FifoPlanifica DEF TodosBien
    <2> QED
      BY <1>1, <1>2, <2>1, FifoPlanifica, NombrarBuenas DEF FuncionesFifo
  <1>4. \A f \in FuncionesPrioridades : BuenaFuncion(f)
    <2>1. TodosBien(PrioridadesSinNada \union PrioridadesEnviando, {}, 6)
      BY PrioridadesPlanifica DEF TodosBien
    <2> QED
      BY <1>1, <1>2, <2>1, PrioridadesPlanifica, MasterAtiende, NombrarBuenas
      DEF FuncionesPrioridades
  <1>5. \A f \in FuncionesStorage : BuenaFuncion(f)
    <2> DEFINE E == UNION {EscribirBloque(ft) : ft \in FileTags}
               F == UNION {CrearFile(ft) : ft \in FileTags}
               K == UNION {CommitearTag(ft) : ft \in FileTags}
               O == UNION {OtrasOperaciones(ft) : ft \in FileTags}
               C == UNION {CopiarTag(x[1], x[2]) : x \in FileTags \X FileTags}
    <2>1. TodosBien(K, {}, 6) /\ TodosBien(O, {}, 6)
      BY StorageOpera DEF TodosBien
    <2>2. {"escribir_bloque", "crear_file", "copiar_tag"} = LasRetenedoras
      BY DEF LasRetenedoras
    <2>3. BuenosPasos("escribir_bloque", E) /\ BuenosPasos("crear_file", F)
      BY <2>2, StorageOpera DEF BuenosPasos
    <2>4. BuenosPasos("copiar_tag", C)
      BY <1>1, <2>2, StorageCopia DEF BuenosPasos, TodosSueltos
    <2>5. FuncionesStorage = Nombrar("escribir_bloque", E) \union Nombrar("crear_file", F)
            \union Nombrar("commitear_tag", K) \union Nombrar("otra", O) \union Nombrar("copiar_tag", C)
      BY DEF FuncionesStorage, Nombrar
    <2> HIDE DEF E, F, K, O, C
    <2> QED
      BY <2>1, <2>3, <2>4, <2>5, NombrarBuenas
  <1> QED
    BY <1>3, <1>4, <1>5

LEMMA ProgramasBuenos ==
    ASSUME LosProgramas
    PROVE  /\ TodasSueltan
           /\ \A d \in Modulos : \A f \in Funciones[d] : f.nombre \in Invertidas \/ Ordenada(f)
  <1>1. \A d \in Modulos : \A f \in Funciones[d] : BuenaFuncion(f)
    BY FuncionesBuenas DEF LosProgramas, LosModulos, LasFunciones
  <1>2. Paso = UnPaso
    BY DEF LosProgramas, Paso, UnPaso
  <1>3. ASSUME NEW d \in Modulos, NEW f \in Funciones[d]
        PROVE  Tomados(f, Len(f.pasos) + 1) \subseteq Quedan(f)
    <2> DEFINE s == f.pasos
    <2>1. Suelto(s, Quedan(f))
      BY <1>1 DEF BuenaFuncion, LosProgramas, Quedan
    <2> HIDE DEF s
    <2>2. \A j \in DOMAIN s : j \in Nat /\ j < Len(s) + 1
      BY <2>1 DEF Suelto
    <2>3. ASSUME NEW i \in DOMAIN s, NEW m, s[i] = Tomar(m), m \notin Quedan(f)
          PROVE  \E j \in DOMAIN s : i < j /\ s[j] = Soltar(m)
      BY <2>1, <2>3 DEF Suelto, Deja, Tomar
    <2> QED
      BY <2>2, <2>3 DEF Tomados, s
  <1>4. ASSUME NEW d \in Modulos, NEW f \in Funciones[d], f.nombre \notin Invertidas
        PROVE  Ordenada(f)
    <2>1. Baja(f.pasos)
      BY <1>1, <1>4 DEF BuenaFuncion, LosProgramas
    <2>2. Nivel = LosNiveles
      BY DEF LosProgramas
    <2> DEFINE s == f.pasos
    <2>3. ASSUME NEW k \in DOMAIN s, s[k].op = "lock", NEW m \in Tomados(f, k)
          PROVE  Nivel[s[k].mutex] < Nivel[m]
      <3>1. PICK i \in DOMAIN s : /\ i < k /\ s[i] = Tomar(m)
                                  /\ \A j \in DOMAIN s : i < j /\ j < k => s[j] # Soltar(m)
        BY DEF Tomados
      <3>2. s[i].op = "lock" /\ s[i].mutex = m
        BY <3>1 DEF Tomar
      <3> QED
        BY <2>1, <2>2, <2>3, <3>1, <3>2 DEF Baja
    <2> QED
      BY <2>3 DEF Ordenada
  <1> QED
    BY <1>3, <1>4 DEF TodasSueltan

\* A thread executes a function of its program, or none.
DelPrograma ==
    modulo \in Modulos /\ \A t \in Hilos : funcion[t] = Ninguna \/ funcion[t] \in Funciones[modulo]

LEMMA DelProgramaSiempre ==
    /\ Init => DelPrograma
    /\ IInv /\ DelPrograma /\ [Next]_vars => DelPrograma'
  <1>1. Init => DelPrograma
    BY DEF Init, DelPrograma
  <1>2. ASSUME IInv, DelPrograma, [Next]_vars PROVE DelPrograma'
    <2>1. CASE UNCHANGED vars
      BY <1>2, <2>1 DEF vars, DelPrograma
    <2>2. ASSUME NEW t \in Hilos, Llamar(t) \/ Volver(t) PROVE DelPrograma'
      BY <1>2, <2>2 DEF Llamar, Volver, DelPrograma, IInv, Tipado
    <2>3. ASSUME NEW t \in Hilos, Bloquear(t) \/ Desbloquear(t) PROVE DelPrograma'
      BY <1>2, <2>3 DEF Bloquear, Desbloquear, DelPrograma
    <2> QED
      BY <1>2, <2>1, <2>2, <2>3 DEF Next
  <1> QED
    BY <1>1, <1>2

LEMMA SoloConocidos ==
    ASSUME LosProgramas, IInv, DelPrograma PROVE InterbloqueosConocidos
  <1> SUFFICES ASSUME NEW C \in SUBSET Hilos, Interbloqueo(C)
               PROVE  \E t \in C : \/ funcion[t].nombre \in Invertidas
                                   \/ Retenido(Mutex(t)) /\ donde[Mutex(t)] \in Retenedoras
    BY DEF InterbloqueosConocidos
  <1>1. ASSUME NEW t \in C, Retenido(Mutex(t))
        PROVE  donde[Mutex(t)] \in Retenedoras
    <2>1. EnPaso(t, "lock") /\ t \in Hilos
      BY DEF Interbloqueo
    <2>2. Mutex(t) \in Mutexes
      BY <2>1, ElPaso DEF IInv
    <2> QED
      BY <1>1, <2>2, SoloGuardados DEF RetenidosConocidos
  <1>2. CASE \A t \in C : ~Retenido(Mutex(t))
    <2>1. PICK t \in C : ~Ordenada(funcion[t])
      BY <1>2, SinCiclo
    <2>2. funcion[t] # Ninguna
      <3>1. siguiente[t] \in DOMAIN funcion[t].pasos
        BY DEF Interbloqueo, EnPaso
      <3>2. DOMAIN Ninguna.pasos = {}
        BY DEF Ninguna, Funcion
      <3> QED
        BY <3>1, <3>2
    <2>3. funcion[t] \in Funciones[modulo] /\ modulo \in Modulos
      BY <2>2 DEF DelPrograma
    <2> QED
      BY <2>1, <2>3, ProgramasBuenos
  <1> QED
    BY <1>1, <1>2

\* The functions of the Master (the planner by priorities, in one round of its
\* loop) and of the Storage, for any queries, Workers, File:Tags and threads: the
\* only mutex that a thread has out of the function it took it in is that of a
\* File:Tag, kept by escribir_bloque or crear_file.
THEOREM MutexesRetenidos == ASSUME LosProgramas PROVE Spec => []RetenidosConocidos
  <1>1. Init => IInv
    BY Inicio
  <1>2. IInv /\ [Next]_vars => IInv'
    BY PasoConserva, ProgramasBuenos
  <1>3. IInv => RetenidosConocidos
    BY SoloGuardados
  <1> QED
    BY <1>1, <1>2, <1>3, PTL DEF Spec

\* And threads of theirs stop for ever only if one of them is in
\* procesar_desalojo_completado, in the planner called again after a failed send
\* or in copiar_tag, or waits for a mutex kept so: by their order, and but for
\* those, neither program can deadlock on its mutexes.
THEOREM InterbloqueosSoloConocidos == ASSUME LosProgramas PROVE Spec => []InterbloqueosConocidos
  <1>1. Init => IInv /\ DelPrograma
    BY Inicio, DelProgramaSiempre
  <1>2. IInv /\ DelPrograma /\ [Next]_vars => (IInv /\ DelPrograma)'
    <2>1. TodasSueltan
      BY ProgramasBuenos
    <2> QED
      BY <2>1, PasoConserva, DelProgramaSiempre
  <1>3. IInv /\ DelPrograma => InterbloqueosConocidos
    BY SoloConocidos
  <1> QED
    BY <1>1, <1>2, <1>3, PTL DEF Spec
=============================================================================
