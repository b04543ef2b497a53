------------------------------- MODULE QueryControl -----------------------------
(***************************************************************************)
(* A Query Control (query_control/src/hilo-master.c, main.c): it asks the  *)
(* Master to execute a file, prints the readings it gets and says how the  *)
(* query ended. Whoever started it may press Enter to leave.               *)
(***************************************************************************)
EXTENDS Enchufes

CONSTANT Peticiones  \* workload: what they are started with, the file and the priority

VARIABLE control

ControlInicial(pedido) ==
    [paso |-> "inicio", pedido |-> pedido, activo |-> TRUE, cierre_local |-> FALSE,
     header |-> "ninguno", lecturas |-> {}, motivo |-> "ninguno", dicho |-> "ninguno"]

EnControl(q, paso)   == control[q].paso = paso
PasaControl(q, paso) == control' = [control EXCEPT ![q].paso = paso]

\* Once Enter has shut its own socket down, recv returns even with nothing to read.
VuelveAControl(q) ==
    Vuelve(a_cliente, AMaster(q), "servidor") \/ "cliente" \in cerrado[AMaster(q)]

LeeControl(q, paso) ==
    /\ VuelveAControl(q)
    /\ control' = [control EXCEPT ![q].paso = paso, ![q].header = Header(a_cliente, AMaster(q))]
    /\ a_cliente' = Resto(a_cliente, AMaster(q))

Saludar(q) ==
    /\ EnControl(q, "conectado")
    /\ IF "cliente" \in cerrado[AMaster(q)] THEN UNCHANGED a_servidor
       ELSE AlServidor(AMaster(q), HandshakeMaster(control[q].pedido[1], control[q].pedido[2]))
    /\ PasaControl(q, "espera_ok")
    /\ UNCHANGED <<a_cliente, cerrado>>

\* The size of the answer, which has no payload, stays unread.
RecibirOk(q) ==
    /\ EnControl(q, "espera_ok")
    /\ IF Header(a_cliente, AMaster(q)) = "HANDSHAKE_OK"
       THEN LeeControl(q, "escucha") /\ UNCHANGED cerrado
       ELSE LeeControl(q, "rechazado") /\ Cerrar({AMaster(q)}, "cliente")
    /\ UNCHANGED a_servidor

\* Mutant: a header 0 is taken for that of a message.
EscucharSinSaltar(q) ==
    /\ EnControl(q, "escucha") /\ control[q].activo /\ LeeControl(q, "payload")
    /\ UNCHANGED <<a_servidor, cerrado>>

\* A header 0 is skipped. An error is not told from a header: its payload is NULL.
Escuchar(q) ==
    /\ EnControl(q, "escucha") /\ control[q].activo
    /\ LeeControl(q, IF Header(a_cliente, AMaster(q)) = "HANDSHAKE_STORAGE" THEN "escucha"
                     ELSE "payload")
    /\ UNCHANGED <<a_servidor, cerrado>>

\* A reading is printed; the final message ends the loop; anything else cuts it.
Procesar(q) ==
    LET p == Payload(a_cliente, AMaster(q))
        h == control[q].header
    IN
    /\ EnControl(q, "payload") /\ VuelveAControl(q)
    /\ a_cliente' = Resto(a_cliente, AMaster(q))
    /\ control' =
        IF h = "QC_LECTURA" /\ p # <<>>
        THEN [control EXCEPT ![q].paso = "escucha", ![q].lecturas = @ \union {p}]
        ELSE IF h = "QC_FINALIZACION" /\ p # <<>>
        THEN [control EXCEPT ![q].paso = "escucha", ![q].activo = FALSE, ![q].motivo = p[1]]
        ELSE [control EXCEPT ![q].paso = "terminar"]
    /\ UNCHANGED <<a_servidor, cerrado>>

\* The loop ends, and it says why.
Terminar(q) ==
    /\ EnControl(q, "terminar") \/ (EnControl(q, "escucha") /\ ~control[q].activo)
    /\ Cerrar({AMaster(q)}, "cliente")
    /\ control' = [control EXCEPT ![q].paso = "fin",
                                  ![q].dicho = IF control[q].motivo # "ninguno" THEN control[q].motivo
                                               ELSE IF control[q].cierre_local
                                               THEN "DESCONEXION DEL QUERY CONTROL"
                                               ELSE "DESCONEXION DEL MASTER"]
    /\ UNCHANGED <<a_servidor, a_cliente>>

\* esperar_enter, in a thread of its own: qc_solicitar_cierre.
PulsarEnter(q) ==
    /\ ~control[q].cierre_local /\ control[q].paso \notin {"rechazado", "fin"}
    /\ control' = [control EXCEPT ![q].cierre_local = TRUE, ![q].activo = FALSE]
    /\ IF EnControl(q, "inicio") THEN UNCHANGED cerrado ELSE Cerrar({AMaster(q)}, "cliente")
    /\ UNCHANGED <<a_servidor, a_cliente>>

InitControl == control \in [QueryControls -> {ControlInicial(p) : p \in Peticiones}]

Controlar(q) == Saludar(q) \/ RecibirOk(q) \/ Escuchar(q) \/ Procesar(q) \/ Terminar(q)
=============================================================================
