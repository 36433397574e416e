---------------------------- MODULE StreamPipe ----------------------------
(***************************************************************************)
(* What every relayed direction of ExpressGateway promises, whatever the   *)
(* protocols on its two ends: the destination receives the pieces the      *)
(* source sent, in order, and is told "complete" only when the source was  *)
(* complete and every piece had arrived.  A direction may be aborted at    *)
(* any moment; an aborted one is never presented as complete.              *)
(*                                                                         *)
(* This is the contract the code states for RespEvent ("on ANY abort a     *)
(* single Reset and NEVER End", crates/lb-quic/src/h3_bridge.rs), for the  *)
(* request body (drain_request_body in conn_actor.rs) and for a Mode B     *)
(* relay half (pump_dir in raw_proxy.rs).  The pieces are counted: each    *)
(* hop is a FIFO, so the n-th piece that arrives is the n-th one sent.     *)
(***************************************************************************)
EXTENDS Naturals

VARIABLES sent,     \* pieces the source has produced
          srcEnd,   \* how the source ended: "open", "fin" or "reset"
          got,      \* pieces the destination has received
          dstEnd    \* what the destination was told: "open", "fin", "abort"

pipeVars == <<sent, srcEnd, got, dstEnd>>

PipeTypeOK ==
  /\ sent \in Nat /\ got \in Nat
  /\ srcEnd \in {"open", "fin", "reset"}
  /\ dstEnd \in {"open", "fin", "abort"}

\* A source may be complete from the start: a response the gateway composes.
PipeInit ==
  /\ \/ sent = 0 /\ srcEnd = "open"
     \/ sent \in Nat /\ srcEnd = "fin"
  /\ got = 0 /\ dstEnd = "open"

Produce ==
  /\ srcEnd = "open"
  /\ sent' = sent + 1
  /\ UNCHANGED <<srcEnd, got, dstEnd>>

FinishSource ==
  /\ srcEnd = "open"
  /\ srcEnd' \in {"fin", "reset"}
  /\ UNCHANGED <<sent, got, dstEnd>>

\* One step may hand over several pieces (a read that drains a window).
Deliver ==
  /\ dstEnd = "open"
  /\ got' \in Nat /\ got < got' /\ got' <= sent
  /\ UNCHANGED <<sent, srcEnd, dstEnd>>

\* The end may come with the last pieces.
Complete ==
  /\ dstEnd = "open" /\ srcEnd = "fin"
  /\ got' = sent /\ dstEnd' = "fin"
  /\ UNCHANGED <<sent, srcEnd>>

\* An abort may take the source with it.
Abort ==
  /\ dstEnd = "open"
  /\ dstEnd' = "abort"
  /\ srcEnd' = srcEnd \/ (srcEnd = "open" /\ srcEnd' \in {"fin", "reset"})
  /\ UNCHANGED <<sent, got>>

PipeNext == Produce \/ FinishSource \/ Deliver \/ Complete \/ Abort

PipeSpec == PipeInit /\ [][PipeNext]_pipeVars

\* The promise as an invariant: complete at the destination means complete
\* at the source, with nothing missing.
CompleteIsWhole == dstEnd = "fin" => srcEnd = "fin" /\ got = sent
============================================================================
