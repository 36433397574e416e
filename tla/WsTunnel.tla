------------------------------ MODULE WsTunnel ------------------------------
(***************************************************************************)
(* One WebSocket-over-HTTP/3 tunnel: the connection actor's per-stream     *)
(* state (crates/lb-quic/src/conn_actor.rs: setup_ws_tunnel,               *)
(* pump_ws_tunnels, ws_drain_inbound, ws_handle_client_fin,                *)
(* ws_handle_client_reset, ws_teardown), the two bounded channels of       *)
(* H3WsTunnel (ws_tunnel.rs), and the injected relay task on their other   *)
(* end.  Inbound is client to relay, outbound is relay to client.          *)
(***************************************************************************)
EXTENDS Naturals

CONSTANTS Depth,    \* H3_WS_TUNNEL_DEPTH
          MaxIn,    \* bound: chunks the client sends
          MaxOut    \* bound: chunks the relay writes

VARIABLES
  cSent, cEnd,   \* client's half: chunks sent; open, fin or reset
  unread,        \* chunks in quiche's receive buffer
  cGot, cFin,    \* what the client received: chunks; open, fin, reset, error
  head200,       \* the client received the 200
  wnd,           \* the client's stream accepts bytes
  stage,         \* WsTunnelState: dialing, pending_ok, active, removed
  toReader,      \* to_reader is Some
  inQ, inTerm,   \* actor-to-relay channel: chunks, then none or Reset
  outQ, outPend, \* relay-to-actor channel, and the chunk being written
  relay,         \* relay task: dialing, running, done
  verdict,       \* the ready oneshot: none, ready, failed or closed
  rGot, rEnd,    \* what the relay read: chunks; open, eof or reset
  rSent          \* chunks the relay wrote

client == <<cSent, cEnd, cGot, cFin, head200, wnd>>
inbound == <<unread, toReader, inQ, inTerm>>
outbound == <<outQ, outPend>>
relayVars == <<relay, verdict, rGot, rEnd, rSent>>
vars == <<client, stage, inbound, outbound, relayVars>>

Init ==
  /\ cSent = 0 /\ cEnd = "open" /\ unread = 0
  /\ cGot = 0 /\ cFin = "open" /\ head200 = FALSE /\ wnd = TRUE
  /\ stage = "dialing" /\ toReader = TRUE /\ inQ = 0 /\ inTerm = "none"
  /\ outQ = 0 /\ outPend = 0
  /\ relay = "dialing" /\ verdict = "none" /\ rGot = 0 /\ rEnd = "open"
  /\ rSent = 0
----------------------------------------------------------------------------
(* The client and quiche's buffers (external). *)

ClientData ==
  /\ cEnd = "open" /\ cSent < MaxIn
  /\ cSent' = cSent + 1 /\ unread' = unread + 1
  /\ UNCHANGED <<cEnd, cGot, cFin, head200, wnd, stage, toReader, inQ, inTerm,
                 outbound, relayVars>>

ClientEnds ==
  /\ cEnd = "open"
  /\ \/ cEnd' = "fin" /\ UNCHANGED unread
     \/ cEnd' = "reset" /\ unread' = 0
  /\ UNCHANGED <<cSent, cGot, cFin, head200, wnd, stage, toReader, inQ, inTerm,
                 outbound, relayVars>>

WindowOpens ==
  /\ ~wnd
  /\ wnd' = TRUE
  /\ UNCHANGED <<cSent, cEnd, cGot, cFin, head200, stage, inbound, outbound,
                 relayVars>>
----------------------------------------------------------------------------
(* The relay task behind H3WsTunnel (the WsRelayLauncher). *)

\* The upstream handshake ends: a verdict, or the sender dropped without one.
RelayHandshake ==
  /\ relay = "dialing"
  /\ \/ verdict' = "ready" /\ relay' = "running"
     \/ verdict' \in {"failed", "closed"} /\ relay' = "done"
  /\ UNCHANGED <<client, stage, inbound, outbound, rGot, rEnd, rSent>>

\* poll_read: data, then Reset as an error, or a closed channel as EOF.
RelayRead ==
  /\ relay = "running" /\ rEnd = "open"
  /\ \/ /\ inQ > 0
        /\ inQ' = inQ - 1 /\ rGot' = rGot + 1
        /\ UNCHANGED <<inTerm, rEnd>>
     \/ /\ inQ = 0 /\ inTerm = "Reset"
        /\ inTerm' = "none" /\ rEnd' = "reset"
        /\ UNCHANGED <<inQ, rGot>>
     \/ /\ inQ = 0 /\ inTerm = "none" /\ ~toReader
        /\ rEnd' = "eof"
        /\ UNCHANGED <<inQ, inTerm, rGot>>
  /\ UNCHANGED <<client, stage, unread, toReader, outbound, relay, verdict,
                 rSent>>

\* poll_write: parks until a slot is free.
RelayWrite ==
  /\ relay = "running" /\ outQ < Depth /\ rSent < MaxOut
  /\ outQ' = outQ + 1 /\ rSent' = rSent + 1
  /\ UNCHANGED <<client, stage, inbound, outPend, relay, verdict, rGot, rEnd>>

\* proxy_frames returns (either end closed, error, or its idle timeout):
\* poll_shutdown or drop closes the write half.
RelayEnds ==
  /\ relay = "running"
  /\ relay' = "done" /\ inQ' = 0 /\ inTerm' = "none"
  /\ UNCHANGED <<client, stage, unread, toReader, outbound, verdict, rGot,
                 rEnd, rSent>>
----------------------------------------------------------------------------
(* The actor. *)

\* to_remove: the task is aborted, then the state and its channels drop.
Remove ==
  /\ stage' = "removed" /\ toReader' = FALSE /\ outQ' = 0 /\ outPend' = 0
  /\ relay' = "done" /\ inQ' = 0 /\ inTerm' = "none"

\* (1) Upstream readiness gates the 200; failure is answered inline.
PumpVerdict ==
  /\ stage = "dialing" /\ verdict # "none"
  /\ IF verdict = "ready"
       THEN stage' = "pending_ok" /\ UNCHANGED <<cFin, inbound, outbound, relay>>
       ELSE Remove /\ cFin' = "error" /\ UNCHANGED unread
  /\ UNCHANGED <<cSent, cEnd, cGot, head200, wnd, verdict, rGot, rEnd, rSent>>

\* (2) The 200 head, retried while the window is full.
PumpOk ==
  /\ stage = "pending_ok" /\ wnd
  /\ stage' = "active" /\ head200' = TRUE /\ wnd' \in BOOLEAN
  /\ UNCHANGED <<cSent, cEnd, cGot, cFin, inbound, outbound, relayVars>>

\* try_send whose result is ignored, then the sender drops.
SendReset ==
  /\ inTerm' = IF relay # "done" /\ inQ < Depth THEN "Reset" ELSE inTerm
  /\ toReader' = FALSE

\* Mutation: inbound DATA is read whatever room the channel has.
DrainInboundUngated ==
  /\ stage = "active" /\ toReader /\ cEnd # "reset" /\ unread > 0
  /\ unread' = unread - 1
  /\ inQ' = IF relay # "done" /\ inQ < Depth THEN inQ + 1 ELSE inQ
  /\ UNCHANGED <<client, stage, toReader, inTerm, outbound, relayVars>>

\* (3a) ws_drain_inbound: one chunk while the channel has capacity.
DrainInbound ==
  /\ stage = "active" /\ toReader /\ inQ < Depth
  /\ IF cEnd = "reset"
       THEN SendReset /\ UNCHANGED <<unread, inQ>>
       ELSE /\ unread > 0 /\ unread' = unread - 1
            /\ inQ' = IF relay = "done" THEN inQ ELSE inQ + 1
            /\ UNCHANGED <<toReader, inTerm>>
  /\ UNCHANGED <<client, stage, outbound, relayVars>>

\* Event::Finished, seen once every byte is read: a clean EOF by dropping the
\* sender, or Reset when the probe finds the stream reset.
HandleClientFin ==
  /\ stage # "removed" /\ toReader /\ unread = 0 /\ cEnd # "open"
  /\ IF cEnd = "reset" THEN SendReset
     ELSE toReader' = FALSE /\ UNCHANGED inTerm
  /\ UNCHANGED <<client, stage, unread, inQ, outbound, relayVars>>

\* Event::Reset.
HandleClientReset ==
  /\ stage # "removed" /\ toReader /\ cEnd = "reset"
  /\ SendReset
  /\ UNCHANGED <<client, stage, unread, inQ, outbound, relayVars>>

\* (3b) Outbound: the retained chunk first, then the next one.
PumpOut ==
  /\ stage = "active"
  /\ \/ /\ outPend = 0 /\ outQ > 0
        /\ outPend' = 1 /\ outQ' = outQ - 1
        /\ UNCHANGED <<cGot, wnd>>
     \/ /\ outPend = 1 /\ wnd
        /\ outPend' = 0 /\ cGot' = cGot + 1 /\ wnd' \in BOOLEAN
        /\ UNCHANGED outQ
  /\ UNCHANGED <<cSent, cEnd, cFin, head200, stage, inbound, relayVars>>

\* (4) The relay finished and its channel is drained: FIN once, and remove.
PumpFin ==
  /\ stage = "active" /\ relay = "done" /\ outPend = 0 /\ outQ = 0
  /\ cFin' = IF wnd THEN "fin" ELSE cFin
  /\ Remove
  /\ UNCHANGED <<cSent, cEnd, cGot, head200, wnd, unread, verdict, rGot, rEnd,
                 rSent>>

\* A send on the tunnel stream fails: ws_teardown and removal.
Teardown ==
  /\ \/ stage = "pending_ok"
     \/ stage = "active" /\ outPend = 1
  /\ cFin' = "reset"
  /\ Remove
  /\ UNCHANGED <<cSent, cEnd, cGot, head200, wnd, unread, verdict, rGot, rEnd,
                 rSent>>

\* The actor's loop ends: the relay is aborted and the state dropped.
ActorEnds ==
  /\ stage # "removed"
  /\ cFin' = "reset"
  /\ Remove
  /\ UNCHANGED <<cSent, cEnd, cGot, head200, wnd, unread, verdict, rGot, rEnd,
                 rSent>>
----------------------------------------------------------------------------
Client == ClientData \/ ClientEnds
Relay == RelayHandshake \/ RelayRead \/ RelayEnds
Actor == PumpVerdict \/ PumpOk \/ DrainInbound \/ HandleClientFin
         \/ HandleClientReset \/ PumpOut \/ PumpFin

Next == Client \/ WindowOpens \/ Relay \/ RelayWrite \/ Actor \/ Teardown
        \/ ActorEnds

Spec == Init /\ [][Next]_vars

\* The actor ticks every 2 ms while a tunnel lives; the relay has a dial
\* timeout and an idle timeout, so it always ends; the client reads.
FairSpec == Spec /\ WF_vars(Actor) /\ WF_vars(RelayHandshake)
                 /\ WF_vars(RelayEnds) /\ WF_vars(WindowOpens)
----------------------------------------------------------------------------
TypeOK ==
  /\ cSent \in 0..MaxIn /\ cEnd \in {"open", "fin", "reset"} /\ unread \in Nat
  /\ cGot \in Nat /\ cFin \in {"open", "fin", "reset", "error"}
  /\ head200 \in BOOLEAN /\ wnd \in BOOLEAN
  /\ stage \in {"dialing", "pending_ok", "active", "removed"}
  /\ toReader \in BOOLEAN /\ inQ \in 0..Depth /\ inTerm \in {"none", "Reset"}
  /\ outQ \in 0..Depth /\ outPend \in {0, 1}
  /\ relay \in {"dialing", "running", "done"}
  /\ verdict \in {"none", "ready", "failed", "closed"}
  /\ rGot \in Nat /\ rEnd \in {"open", "eof", "reset"} /\ rSent \in 0..MaxOut

\* Inbound backpressure loses nothing: until the client resets, each of its
\* chunks is with the relay, in the channel, or unread in quiche.
InboundNotLost ==
  (stage = "active" /\ toReader /\ relay = "running" /\ cEnd # "reset") =>
     cSent = rGot + inQ + unread

\* The relay takes a finished client for a clean EOF only with all its bytes.
EofHasAllData == (rEnd = "eof" /\ cEnd = "fin") => rGot = cSent

\* Both together: nothing is lost on the way in, and an end is an end.
InboundWhole == InboundNotLost /\ EofHasAllData

\* Every tunnel is removed in the end, whichever side gives up.
TunnelReclaimed == <>(stage = "removed")

Outbound == INSTANCE StreamPipe
              WITH sent <- rSent, got <- cGot,
                   srcEnd <- IF relay = "done" THEN "fin" ELSE "open",
                   dstEnd <- IF cFin \in {"reset", "error"} THEN "abort"
                             ELSE cFin

\* The client sees a prefix of what the relay wrote, and a FIN only once all
\* of it was written to its stream.
OutboundPipe == Outbound!PipeSpec

\* TunnelInbound::Reset: "an abnormal drop, NOT a clean EOF".
ResetIsNotEof == rEnd = "eof" => cEnd # "reset"
============================================================================
