---------------------------- MODULE MCListeners ----------------------------
(***************************************************************************)
(* The TCP side of the process: the admission gate by itself, with its     *)
(* counters step by step, and the listeners from boot to the end of a      *)
(* drain.  They share no state here, so a behaviour runs one of them       *)
(* (subject) and leaves the other alone.                                   *)
(*                                                                         *)
(* Four connections from two addresses at the gate; caps of three and two. *)
(***************************************************************************)
EXTENDS ConnGate, Drain, TLC

CONSTANTS c1, c2, c3, c4, p1, p2

MCPeerOf == (c1 :> p1) @@ (c2 :> p1) @@ (c3 :> p1) @@ (c4 :> p2)

VARIABLE subject

mcVars == <<subject, gateVars, vars>>

OnGate(A) == subject = "gate" /\ A /\ UNCHANGED <<subject, vars>>
OnProcess(A) == subject = "process" /\ A /\ UNCHANGED <<subject, gateVars>>

MCInit == subject \in {"gate", "process"} /\ GateInit /\ Init
MCNext == OnGate(GateNext) \/ OnProcess(Next)

(* The runtime polls every task, every timer fires, and a select that is   *)
(* offered a signal again and again takes it some time.  Nothing says that *)
(* the work of a connection ends, that a client connects or that a signal  *)
(* comes.                                                                  *)
MCFairness ==
  /\ WF_mcVars(OnProcess(MainStep))
  /\ \A k \in Callers : WF_mcVars(OnProcess(DrainStep(k)))
  /\ \A l \in Listeners : WF_mcVars(OnProcess(LoopStep(l)))
  /\ \A x \in Conns : WF_mcVars(OnProcess(CancelStep(x)))
  /\ \A s \in Terminal \cup Reloads : SF_mcVars(OnProcess(TakeSignal(s)))

MCSpec == MCInit /\ [][MCNext]_mcVars /\ MCFairness
=============================================================================
