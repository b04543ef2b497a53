-------------------------------- MODULE Cerrojos -------------------------------
(***************************************************************************)
(* The mutexes of a program and the threads that take them. A function of  *)
(* the program is the sequence of mutexes it takes and lets go along one   *)
(* of its paths (CerrojosMaster, CerrojosStorage); a thread runs one after *)
(* the other. They are default mutexes: whoever lets one go frees it, its  *)
(* owner or not, and whoever takes one it already has waits for ever.      *)
(***************************************************************************)
EXTENDS PasosDeCerrojo, Integers

CONSTANTS
    Hilos,
    Mutexes,
    Nivel,      \* of each mutex: those of a higher level are taken first
    Modulos,    \* the programs
    Funciones,  \* of each program, the paths of its functions
    Invertidas, \* the functions that do not respect the levels
    Retenedoras, \* those with a return that lets go not all they took
    Retenibles,  \* and the mutexes they leave taken
    Nadie

Paso == [op : {"lock", "unlock"}, mutex : Mutexes]

ASSUME MutexesAssumption == Nivel \in [Mutexes -> Nat] /\ Nadie \notin Hilos
Nombres == {"ninguna"} \union {f.nombre : f \in UNION {Funciones[d] : d \in Modulos}}
ASSUME FuncionesAssumption ==
    \A d \in Modulos : Funciones[d] \subseteq [nombre : Nombres, pasos : Seq(Paso)]

VARIABLES
    modulo,
    dueno,     \* of each mutex, the thread that took it last and has it
    donde,     \* history: the function it took it in
    funcion,   \* what each thread executes
    siguiente  \* and its next step

vars == <<modulo, dueno, donde, funcion, siguiente>>

\* The mutexes that f has taken and not let go before its step k.
Tomados(f, k) ==
    {m \in Mutexes : \E i \in DOMAIN f.pasos :
        /\ i < k /\ f.pasos[i] = Tomar(m)
        /\ \A j \in DOMAIN f.pasos : i < j /\ j < k => f.pasos[j] # Soltar(m)}

\* f takes every mutex below those it has.
Ordenada(f) ==
    \A k \in DOMAIN f.pasos : f.pasos[k].op = "lock" =>
        \A m \in Tomados(f, k) : Nivel[f.pasos[k].mutex] < Nivel[m]

-----------------------------------------------------------------------------
Init ==
    /\ modulo \in Modulos
    /\ dueno = [m \in Mutexes |-> Nadie]
    /\ donde = [m \in Mutexes |-> Ninguna.nombre]
    /\ funcion = [t \in Hilos |-> Ninguna]
    /\ siguiente = [t \in Hilos |-> 1]

Llamar(t) ==
    /\ funcion[t] = Ninguna
    /\ \E f \in Funciones[modulo] : funcion' = [funcion EXCEPT ![t] = f]
    /\ siguiente' = [siguiente EXCEPT ![t] = 1]
    /\ UNCHANGED <<modulo, dueno, donde>>

EnPaso(t, op) ==
    /\ siguiente[t] \in DOMAIN funcion[t].pasos
    /\ funcion[t].pasos[siguiente[t]].op = op

Mutex(t) == funcion[t].pasos[siguiente[t]].mutex

Bloquear(t) ==
    /\ EnPaso(t, "lock") /\ dueno[Mutex(t)] = Nadie
    /\ dueno' = [dueno EXCEPT ![Mutex(t)] = t]
    /\ donde' = [donde EXCEPT ![Mutex(t)] = funcion[t].nombre]
    /\ siguiente' = [siguiente EXCEPT ![t] = @ + 1]
    /\ UNCHANGED <<modulo, funcion>>

Desbloquear(t) ==
    /\ EnPaso(t, "unlock")
    /\ dueno' = [dueno EXCEPT ![Mutex(t)] = Nadie]
    /\ donde' = [donde EXCEPT ![Mutex(t)] = Ninguna.nombre]
    /\ siguiente' = [siguiente EXCEPT ![t] = @ + 1]
    /\ UNCHANGED <<modulo, funcion>>

Volver(t) ==
    /\ funcion[t] # Ninguna /\ siguiente[t] = Len(funcion[t].pasos) + 1
    /\ funcion' = [funcion EXCEPT ![t] = Ninguna]
    /\ siguiente' = [siguiente EXCEPT ![t] = 1]
    /\ UNCHANGED <<modulo, dueno, donde>>

Next == \E t \in Hilos : Llamar(t) \/ Bloquear(t) \/ Desbloquear(t) \/ Volver(t)

Spec == Init /\ [][Next]_vars

-----------------------------------------------------------------------------
\* The thread that has m has left the function it took it in.
Retenido(m) ==
    \E t \in Hilos : dueno[m] = t /\ m \notin Tomados(funcion[t], siguiente[t])

\* A function that returns with a mutex taken is escribir_bloque, when the file
\* of the block does not open, or crear_file, called by copiar_tag or not; and the
\* mutex is that of a File:Tag. Nobody keeps a mutex of a list, of a table or of
\* the planner, whichever early return is taken.
RetenidosConocidos ==
    \A m \in Mutexes : Retenido(m) => m \in Retenibles /\ donde[m] \in Retenedoras

\* t waits for a mutex that u has.
EsperaA(t, u) == EnPaso(t, "lock") /\ dueno[Mutex(t)] = u

\* Each thread of C waits for one of C that is where it lets its mutex go later,
\* or for a mutex that was left taken: none of them ever goes on.
Interbloqueo(C) ==
    C # {} /\ \A t \in C : EnPaso(t, "lock") /\ (Retenido(Mutex(t)) \/ \E u \in C : EsperaA(t, u))

\* Threads stop for ever on mutexes only when one of them is in a function that
\* takes mutexes against their levels, and those are known
\* (procesar_desalojo_completado and the planner called again after a failed send
\* in the Master, copiar_tag in the Storage), or waits for a mutex that one of the
\* functions of RetenidosConocidos kept.
InterbloqueosConocidos ==
    \A C \in SUBSET Hilos : Interbloqueo(C) =>
        \E t \in C : \/ funcion[t].nombre \in Invertidas
                     \/ Retenido(Mutex(t)) /\ donde[Mutex(t)] \in Retenedoras
=============================================================================
