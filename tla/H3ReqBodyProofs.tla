-------------------------- MODULE H3ReqBodyProofs --------------------------
(***************************************************************************)
(* The request body of an HTTP/3 stream, for every channel depth, body cap *)
(* and client: the properties of H3ReqBody proved from one inductive       *)
(* invariant.                                                              *)
(***************************************************************************)
EXTENDS H3ReqBody, TLAPS

\* TypeOK in two halves: the provers that know numbers are not the ones that
\* know Boolean-valued variables.
FlagsOK == bodyTx \in BOOLEAN /\ upWin \in BOOLEAN /\ excused \in BOOLEAN
DataOK ==
  /\ cell \in Cells /\ conn \in {"up", "down"}
  /\ cSent \in 0..MaxSend /\ cEnd \in {"open", "fin", "reset"}
  /\ cTrail \in {"none", "ok", "pseudo", "read"}
  /\ unread \in Nat /\ seen \in Nat
  /\ queued \in 0..Depth /\ term \in {"none", "End", "Reset"}
  /\ task \in {"none", "acquire", "peek", "body", "resp", "gone"}
  /\ hand \in {0, 1} /\ up \in Nat
  /\ upEnd \in {"open", "complete", "unfinished", "aborted"}

\* Before the task exists nothing has moved out of quiche's buffer.
BeforeHeaders ==
  task = "none" =>
     /\ ~bodyTx /\ queued = 0 /\ term = "none" /\ hand = 0 /\ up = 0
     /\ seen = 0
     /\ cEnd # "reset" => cSent = unread

\* Which stages of the upstream task go with which upstream outcome.
Stages ==
  /\ upEnd = "open" <=> task \in {"none", "acquire", "peek", "body"}
  /\ task \in {"acquire", "peek"} => up = 0 /\ hand = 0
  /\ cell # "H3" => hand = 0
  /\ task = "resp" => ~bodyTx /\ queued = 0 /\ term = "none" /\ hand = 0
  /\ task = "gone" => queued = 0 /\ term = "none" /\ hand = 0
  /\ upEnd \in {"complete", "unfinished"} => task \in {"resp", "gone"}

\* What the actor has read is upstream, in hand or in the channel, and is
\* within the cap while the stream stays in its body phase.
Accounting ==
  (bodyTx /\ rxOpen) => seen = up + hand + queued /\ seen <= MaxBody

\* A terminal event goes with a dropped sender, and an End in the channel
\* vouches for the whole body.
EndIsWhole ==
  /\ term # "none" => ~bodyTx
  /\ (term = "End" /\ rxOpen) =>
        /\ cEnd = "fin" /\ cTrail \in {"none", "read"}
        /\ cSent = up + hand + queued /\ up + hand + queued <= MaxBody

IInv == /\ FlagsOK /\ DataOK /\ BeforeHeaders /\ Stages /\ Accounting /\ EndIsWhole
        /\ NothingLost /\ NoTruncatedBody
----------------------------------------------------------------------------
LEMMA InitInv == Init => IInv
<1> SUFFICES ASSUME Init PROVE IInv
  OBVIOUS
<1> USE DepthAssumption, BodyAssumption DEF Init
<1>1. FlagsOK
  BY Zenon DEF FlagsOK
<1>2. DataOK
  BY DEF DataOK
<1>3. BeforeHeaders /\ Stages
  BY DEF BeforeHeaders, Stages
<1>4. Accounting /\ EndIsWhole
  BY DEF Accounting, EndIsWhole, rxOpen
<1>5. NothingLost /\ NoTruncatedBody
  BY DEF NothingLost, NoTruncatedBody, rxOpen
<1> QED
  BY <1>1, <1>2, <1>3, <1>4, <1>5 DEF IInv

\* The Boolean variables keep their type in every step.
LEMMA FlagsStep == FlagsOK /\ [Next]_vars => FlagsOK'
<1> SUFFICES ASSUME FlagsOK, [Next]_vars PROVE FlagsOK'
  OBVIOUS
<1> USE DEF FlagsOK, client, actor, channel, egress, SendTerminal, Leave
<1>1. CASE ClientData
  BY <1>1, Zenon DEF ClientData
<1>2. CASE ClientTrailers
  BY <1>2, Zenon DEF ClientTrailers
<1>3. CASE ClientFin
  BY <1>3, Zenon DEF ClientFin
<1>4. CASE ClientReset
  BY <1>4, Zenon DEF ClientReset
<1>5. CASE ActorEnds
  BY <1>5, Zenon DEF ActorEnds
<1>6. CASE PollHeaders
  BY <1>6, Zenon DEF PollHeaders
<1>7. CASE DrainChunk
  BY <1>7, Zenon DEF DrainChunk
<1>8. CASE DrainError
  BY <1>8, Zenon DEF DrainError
<1>9. CASE PollTrailers
  BY <1>9, Zenon DEF PollTrailers
<1>10. CASE PollFinished
  BY <1>10, Zenon DEF PollFinished
<1>11. CASE PollReset
  BY <1>11, Zenon DEF PollReset
<1>12. CASE AcquireH1
  BY <1>12, Zenon DEF AcquireH1
<1>13. CASE PeekH1
  BY <1>13, Zenon DEF PeekH1
<1>14. CASE BodyH1
  BY <1>14, Zenon DEF BodyH1
<1>15. CASE PeekH2
  BY <1>15, Zenon DEF PeekH2
<1>16. CASE BodyH2
  BY <1>16, Zenon DEF BodyH2
<1>17. CASE PeekH3
  BY <1>17, Zenon DEF PeekH3
<1>18. CASE SendH3
  BY <1>18, Zenon DEF SendH3
<1>19. CASE NextH3
  BY <1>19, Zenon DEF NextH3
<1>20. CASE BreakH3
  BY <1>20, Zenon DEF BreakH3
<1>21. CASE UnfinishedH3
  BY <1>21, Zenon DEF UnfinishedH3
<1>22. CASE ResponseDone
  BY <1>22, Zenon DEF ResponseDone
<1>23. CASE UpstreamWindow
  BY <1>23, Zenon DEF UpstreamWindow
<1>24. CASE UNCHANGED vars
  BY <1>24 DEF vars
<1> QED
  BY <1>1, <1>2, <1>3, <1>4, <1>5, <1>6, <1>7, <1>8, <1>9, <1>10, <1>11, <1>12,
     <1>13, <1>14, <1>15, <1>16, <1>17, <1>18, <1>19, <1>20, <1>21, <1>22, <1>23, <1>24
     DEF Next, Client, Actor, Upstream

\* Every step of the actor, the upstream task, the client and the connection
\* preserves the invariant.
LEMMA StepInv == IInv /\ [Next]_vars => IInv'
<1> SUFFICES ASSUME IInv, [Next]_vars
             PROVE /\ DataOK' /\ BeforeHeaders' /\ Stages' /\ Accounting'
                   /\ EndIsWhole' /\ NothingLost' /\ NoTruncatedBody'
  BY FlagsStep DEF IInv
<1> USE DepthAssumption, BodyAssumption
        DEF IInv, DataOK, BeforeHeaders, Stages, Accounting, EndIsWhole,
            NothingLost, NoTruncatedBody, rxOpen,
            client, actor, channel, egress, SendTerminal, Leave,
            AtChunk, AtEnd, AtReset, Dropped
<1>1. CASE ClientData
  BY <1>1, SMT DEF ClientData
<1>2. CASE ClientTrailers
  BY <1>2, SMT DEF ClientTrailers
<1>3. CASE ClientFin
  BY <1>3, SMT DEF ClientFin
<1>4. CASE ClientReset
  BY <1>4, SMT DEF ClientReset
<1>5. CASE ActorEnds
  BY <1>5, SMT DEF ActorEnds
<1>6. CASE PollHeaders
  BY <1>6, SMT DEF PollHeaders
<1>7. CASE DrainChunk
  <2>1. CASE seen + 1 > MaxBody
    BY <1>7, <2>1, SMT DEF DrainChunk
  <2>2. CASE ~(seen + 1 > MaxBody)
    BY <1>7, <2>2, SMT DEF DrainChunk
  <2> QED
    BY <2>1, <2>2
<1>8. CASE DrainError
  BY <1>8, SMT DEF DrainError
<1>9. CASE PollTrailers
  <2>1. CASE cTrail = "pseudo"
    BY <1>9, <2>1, SMT DEF PollTrailers
  <2>2. CASE cTrail # "pseudo"
    BY <1>9, <2>2, SMT DEF PollTrailers
  <2> QED
    BY <2>1, <2>2
<1>10. CASE PollFinished
  BY <1>10, SMT DEF PollFinished
<1>11. CASE PollReset
  BY <1>11, SMT DEF PollReset
<1>12. CASE AcquireH1
  BY <1>12, SMT DEF AcquireH1
<1>13. CASE PeekH1
  BY <1>13, SMT DEF PeekH1
<1>14. CASE BodyH1
  <2>1. CASE upEnd' = "open"
    BY <1>14, <2>1, SMT DEF BodyH1
  <2>2. CASE upEnd' = "complete"
    BY <1>14, <2>2, SMT DEF BodyH1
  <2>3. CASE upEnd' = "aborted"
    BY <1>14, <2>3, SMT DEF BodyH1
  <2> QED
    BY <1>14, <2>1, <2>2, <2>3, SMT DEF BodyH1
<1>15. CASE PeekH2
  BY <1>15, SMT DEF PeekH2
<1>16. CASE BodyH2
  <2>1. CASE upEnd' = "open"
    BY <1>16, <2>1, SMT DEF BodyH2
  <2>2. CASE upEnd' = "complete"
    BY <1>16, <2>2, SMT DEF BodyH2
  <2>3. CASE upEnd' = "aborted"
    BY <1>16, <2>3, SMT DEF BodyH2
  <2> QED
    BY <1>16, <2>1, <2>2, <2>3, SMT DEF BodyH2
<1>17. CASE PeekH3
  BY <1>17, SMT DEF PeekH3
<1>18. CASE SendH3
  BY <1>18, SMT DEF SendH3
<1>19. CASE NextH3
  BY <1>19, SMT DEF NextH3
<1>20. CASE BreakH3
  BY <1>20, SMT DEF BreakH3
<1>21. CASE UnfinishedH3
  BY <1>21, SMT DEF UnfinishedH3
<1>22. CASE ResponseDone
  BY <1>22, SMT DEF ResponseDone
<1>23. CASE UpstreamWindow
  BY <1>23, SMT DEF UpstreamWindow
<1>24. CASE UNCHANGED vars
  BY <1>24 DEF vars
<1> QED
  BY <1>1, <1>2, <1>3, <1>4, <1>5, <1>6, <1>7, <1>8, <1>9, <1>10, <1>11, <1>12,
     <1>13, <1>14, <1>15, <1>16, <1>17, <1>18, <1>19, <1>20, <1>21, <1>22, <1>23, <1>24
     DEF Next, Client, Actor, Upstream
----------------------------------------------------------------------------
\* The state of the request direction keeps its type for every channel depth
\* and body cap; in particular the body channel never holds more than
\* H3_BODY_CHANNEL_DEPTH chunks.
THEOREM TypeCorrect == Spec => []TypeOK
<1>1. IInv => TypeOK
  BY Zenon DEF IInv, TypeOK, FlagsOK, DataOK
<1> QED
  BY InitInv, StepInv, <1>1, PTL DEF Spec

\* drain_request_body's capacity gate loses no chunk, whatever the depth.
THEOREM BackpressureLosesNothing == Spec => []NothingLost
<1>1. IInv => NothingLost
  BY DEF IInv
<1> QED
  BY InitInv, StepInv, <1>1, PTL DEF Spec

\* A request body that has begun to flow is never ended upstream as complete
\* unless the client ended it and all of it was written.
THEOREM NeverTruncated == Spec => []NoTruncatedBody
<1>1. IInv => NoTruncatedBody
  BY DEF IInv
<1> QED
  BY InitInv, StepInv, <1>1, PTL DEF Spec
----------------------------------------------------------------------------
(* The request direction implements the pipe. *)

\* Nothing is invented: what is upstream and on its way there was sent.
Conserved == up + hand + queued + unread <= cSent

\* A task that finds the channel closed before any event was left by a
\* connection that is gone; one whose request is complete while the connection
\* lives has all of it.
ClosedByLoss ==
  /\ (task \in {"acquire", "peek"} /\ ~bodyTx /\ term = "none" /\ queued = 0) => conn = "down"
  /\ (upEnd = "complete" /\ conn = "up") => cEnd = "fin" /\ up = cSent

PipeInv == Conserved /\ ClosedByLoss

LEMMA PipeInvInit == Init => PipeInv
  BY DEF Init, PipeInv, Conserved, ClosedByLoss

\* Every step keeps the two facts.
LEMMA PipeInvStep == IInv /\ PipeInv /\ [Next]_vars => PipeInv'
<1> SUFFICES ASSUME IInv, PipeInv, [Next]_vars PROVE PipeInv'
  OBVIOUS
<1> USE DepthAssumption, BodyAssumption
        DEF IInv, DataOK, BeforeHeaders, Stages, EndIsWhole,
            PipeInv, Conserved, ClosedByLoss, rxOpen,
            client, actor, channel, egress, SendTerminal, Leave,
            AtChunk, AtEnd, AtReset, Dropped
<1>1. CASE Client
  BY <1>1, SMT DEF Client, ClientData, ClientTrailers, ClientFin, ClientReset
<1>2. CASE ActorEnds \/ UpstreamWindow \/ UNCHANGED vars
  BY <1>2, SMT DEF ActorEnds, UpstreamWindow, vars
<1>3. CASE PollHeaders
  BY <1>3, SMT DEF PollHeaders
<1>4. CASE DrainChunk
  <2>1. CASE seen + 1 > MaxBody
    BY <1>4, <2>1, SMT DEF DrainChunk
  <2>2. CASE ~(seen + 1 > MaxBody)
    BY <1>4, <2>2, SMT DEF DrainChunk
  <2> QED BY <2>1, <2>2
<1>5. CASE DrainError
  BY <1>5, SMT DEF DrainError
<1>6. CASE PollTrailers
  <2>1. CASE cTrail = "pseudo"
    BY <1>6, <2>1, SMT DEF PollTrailers
  <2>2. CASE cTrail # "pseudo"
    BY <1>6, <2>2, SMT DEF PollTrailers
  <2> QED BY <2>1, <2>2
<1>7. CASE PollFinished \/ PollReset
  BY <1>7, SMT DEF PollFinished, PollReset
<1>8. CASE AcquireH1
  BY <1>8, SMT DEF AcquireH1
<1>9. CASE PeekH1 \/ PeekH2
  BY <1>9, SMT DEF PeekH1, PeekH2
<1>10. CASE BodyH1 \/ BodyH2
  BY <1>10, SMT DEF BodyH1, BodyH2
<1>11. CASE PeekH3
  BY <1>11, SMT DEF PeekH3
<1>12. CASE SendH3 \/ BreakH3 \/ UnfinishedH3 \/ ResponseDone
  BY <1>12, SMT DEF SendH3, BreakH3, UnfinishedH3, ResponseDone
<1>13. CASE NextH3
  BY <1>13, SMT DEF NextH3
<1> QED
  BY <1>1, <1>2, <1>3, <1>4, <1>5, <1>6, <1>7, <1>8, <1>9, <1>10, <1>11, <1>12, <1>13
     DEF Next, Actor, Upstream

\* Each step of the request is a step of the pipe or leaves it alone: the
\* client produces and ends, a chunk written upstream delivers, the end sent
\* upstream completes, every way the task leaves early aborts.
LEMMA RequestStep ==
  ASSUME IInv, PipeInv, [Next]_vars
  PROVE  [Pipe!PipeNext]_(Pipe!pipeVars)
<1> USE DepthAssumption, BodyAssumption
        DEF IInv, DataOK, BeforeHeaders, Stages, EndIsWhole,
            PipeInv, Conserved, ClosedByLoss, rxOpen, Told, Orphaned,
            client, actor, channel, egress, SendTerminal, Leave,
            AtChunk, AtEnd, AtReset, Dropped
<1>1. ASSUME UNCHANGED <<cSent, cEnd, up, upEnd>>, conn' = conn
      PROVE  UNCHANGED Pipe!pipeVars
  BY <1>1, Zenon DEF Pipe!pipeVars
<1>2. CASE ClientData
  <2>1. Told' = Told
    BY <1>2, SMT DEF ClientData
  <2> QED BY <1>2, <2>1, SMT DEF ClientData, Pipe!PipeNext, Pipe!Produce
<1>3. CASE ClientFin \/ ClientReset
  <2>1. Told' = Told
    BY <1>3, SMT DEF ClientFin, ClientReset
  <2> QED BY <1>3, <2>1, SMT DEF ClientFin, ClientReset, Pipe!PipeNext, Pipe!FinishSource
<1>4. CASE ActorEnds
  BY <1>4, SMT DEF ActorEnds, Pipe!pipeVars
<1>5. CASE ClientTrailers \/ Actor \/ UpstreamWindow \/ UNCHANGED vars
  BY <1>1, <1>5, Zenon DEF ClientTrailers, UpstreamWindow, vars, Actor, PollHeaders, DrainChunk,
     DrainError, PollTrailers, PollFinished, PollReset
<1>6. ASSUME upEnd = "open", upEnd' = "open", up' = up + 1, up' <= cSent,
             UNCHANGED <<cSent, cEnd>>
      PROVE  Pipe!PipeNext
  BY <1>6, SMT DEF Pipe!PipeNext, Pipe!Deliver
<1>7. ASSUME upEnd = "open", upEnd' = "complete", cEnd = "fin", up = cSent,
             UNCHANGED <<cSent, cEnd, up>>
      PROVE  Pipe!PipeNext
  BY <1>7, SMT DEF Pipe!PipeNext, Pipe!Complete
<1>8. ASSUME upEnd \in {"open", "unfinished"}, upEnd' = "aborted", UNCHANGED <<cSent, cEnd, up>>
      PROVE  Pipe!PipeNext
  BY <1>8, SMT DEF Pipe!PipeNext, Pipe!Abort
<1>9. ASSUME upEnd = "open", upEnd' = "complete", conn = "down", up = 0,
             UNCHANGED <<cSent, cEnd, up, conn>>
      PROVE  Pipe!PipeNext
  BY <1>9, SMT DEF Pipe!PipeNext, Pipe!Abort, Pipe!Complete
<1>10. CASE AcquireH1 \/ PeekH1 \/ PeekH2 \/ PeekH3
  BY <1>1, <1>6, <1>7, <1>8, <1>9, <1>10, SMT DEF AcquireH1, PeekH1, PeekH2, PeekH3
<1>11. CASE BodyH1 \/ BodyH2
  BY <1>6, <1>7, <1>8, <1>11, SMT DEF BodyH1, BodyH2
<1>12. CASE SendH3 \/ BreakH3
  BY <1>6, <1>8, <1>12, SMT DEF SendH3, BreakH3
<1>13. CASE NextH3
  <2>1. CASE upEnd' = "unfinished"
    BY <1>13, <2>1, SMT DEF NextH3, Pipe!pipeVars
  <2>2. CASE upEnd' # "unfinished"
    BY <1>1, <1>7, <1>8, <1>13, <2>2, SMT DEF NextH3
  <2> QED BY <2>1, <2>2
<1>14. CASE UnfinishedH3 \/ ResponseDone
  BY <1>1, <1>8, <1>14, SMT DEF UnfinishedH3, ResponseDone
<1> QED
  BY <1>2, <1>3, <1>4, <1>5, <1>10, <1>11, <1>12, <1>13, <1>14, Zenon
     DEF Next, Client, Upstream

\* The request a backend sees is a prefix of the one the client sent, and is
\* ended as complete only after the whole of it: every request of H3ReqBody,
\* orphaned ones counted as aborted, is a behaviour of StreamPipe.
THEOREM RequestIsPipe == Spec => ImplementsPipe
<1>1. Init => Pipe!PipeInit
  BY SMT DEF Init, Told, Pipe!PipeInit
<1> QED
  BY InitInv, StepInv, PipeInvInit, PipeInvStep, RequestStep, <1>1, PTL
     DEF Spec, ImplementsPipe, Pipe!PipeSpec
============================================================================
