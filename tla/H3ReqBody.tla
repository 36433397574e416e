----------------------------- MODULE H3ReqBody -----------------------------
(***************************************************************************)
(* The request direction of one HTTP/3 request stream: the client's stream *)
(* as quiche buffers it, the connection actor that moves DATA into the     *)
(* bounded body channel (crates/lb-quic/src/conn_actor.rs: poll_h3,        *)
(* drain_request_body), and the task that drains the channel into the      *)
(* upstream request (crates/lb-quic/src/h3_bridge.rs: write_h1_request,    *)
(* H3ReqStreamBody, stream_request_to_h3_upstream).                        *)
(*                                                                         *)
(* The actor and the upstream task run concurrently; a step is one channel *)
(* operation with the code around it, so each turn of the drain loop is a  *)
(* step of its own.  The channel holds "queued" chunks and then at most    *)
(* one terminal event, because the actor drops its sender as it sends one. *)
(* A body is counted in chunks (at most H3_BODY_CHUNK_MAX bytes each).     *)
(***************************************************************************)
EXTENDS Naturals

CONSTANTS Depth,    \* H3_BODY_CHANNEL_DEPTH
          MaxBody,  \* MAX_REQUEST_BODY_BYTES, in chunks
          MaxSend,  \* bound: chunks the client sends
          Cells     \* upstream protocols of the listener: "H1", "H2", "H3"

ASSUME DepthAssumption == Depth \in Nat \ {0}
ASSUME BodyAssumption == MaxBody \in Nat /\ MaxSend \in Nat
ASSUME CellsAssumption == Cells \subseteq {"H1", "H2", "H3"}

VARIABLES
  cell,     \* the upstream protocol this request is routed to
  conn,     \* the QUIC connection and its actor: "up" or "down"
  cSent,    \* chunks the client has sent
  cEnd,     \* the client's end of the stream: "open", "fin", "reset"
  cTrail,   \* trailing HEADERS: "none", "ok", "pseudo" or "read"
  unread,   \* chunks in quiche's receive buffer
  seen,     \* body_seen: chunks the actor has read
  bodyTx,   \* the stream has a sender in body_tx_by_stream
  queued, term,  \* the channel: chunks, then "none", "End" or "Reset"
  task,     \* upstream task: none, acquire, peek, body, resp, gone
  hand,     \* chunks the H3 task holds (ReqSend::InHand)
  up,       \* chunks written upstream
  upEnd,    \* upstream request: open, complete, unfinished, aborted
  upWin,    \* the H3 upstream stream's send window is open
  excused   \* the upstream failed, answered early, or someone stalled

client == <<conn, cSent, cEnd, cTrail>>
actor == <<unread, seen, bodyTx>>
channel == <<queued, term>>
egress == <<task, hand, up, upEnd, upWin, excused>>
vars == <<cell, client, actor, channel, egress>>

Init ==
  /\ cell \in Cells
  /\ conn = "up" /\ cSent = 0 /\ cEnd = "open" /\ cTrail = "none"
  /\ unread = 0 /\ seen = 0 /\ bodyTx = FALSE
  /\ queued = 0 /\ term = "none"
  /\ task = "none" /\ hand = 0 /\ up = 0 /\ upEnd = "open"
  /\ upWin = TRUE /\ excused = FALSE
----------------------------------------------------------------------------
(* The client, and quiche's receive buffer (external). *)

ClientData ==
  /\ conn = "up" /\ cEnd = "open" /\ cTrail = "none" /\ cSent < MaxSend
  /\ cSent' = cSent + 1 /\ unread' = unread + 1
  /\ UNCHANGED <<cell, conn, cEnd, cTrail, seen, bodyTx, channel, egress>>

ClientTrailers ==
  /\ conn = "up" /\ cEnd = "open" /\ cTrail = "none"
  /\ cTrail' \in {"ok", "pseudo"}
  /\ UNCHANGED <<cell, conn, cSent, cEnd, actor, channel, egress>>

ClientFin ==
  /\ conn = "up" /\ cEnd = "open"
  /\ cEnd' = "fin"
  /\ UNCHANGED <<cell, conn, cSent, cTrail, actor, channel, egress>>

\* RESET_STREAM: quiche discards what it had buffered.
ClientReset ==
  /\ conn = "up" /\ cEnd = "open"
  /\ cEnd' = "reset" /\ unread' = 0
  /\ UNCHANGED <<cell, conn, cSent, cTrail, seen, bodyTx, channel, egress>>

\* The actor loop ends (cancel, closed connection, closed inbound channel):
\* its maps drop, the request's sender with them.  The spawned upstream
\* task is not aborted.
ActorEnds ==
  /\ conn = "up"
  /\ conn' = "down" /\ bodyTx' = FALSE
  /\ UNCHANGED <<cell, cSent, cEnd, cTrail, unread, seen, channel, egress>>
----------------------------------------------------------------------------
(* The actor. *)

\* The receiver lives as long as the upstream task.
rxOpen == task \notin {"none", "gone"}

\* try_send whose result is ignored: nothing is queued when the channel is
\* full or closed.  The actor then drops the sender.
SendTerminal(e) ==
  /\ term' = IF rxOpen /\ queued < Depth THEN e ELSE term
  /\ bodyTx' = FALSE
  /\ UNCHANGED queued

\* First HEADERS of the stream: the channels are built and the task spawned.
PollHeaders ==
  /\ conn = "up" /\ task = "none" /\ cEnd # "reset"
  /\ task' = IF cell = "H1" THEN "acquire" ELSE "peek"
  /\ IF cEnd = "fin" /\ cSent = 0 /\ cTrail = "none"
       THEN term' = "End" /\ bodyTx' = FALSE
       ELSE term' = "none" /\ bodyTx' = TRUE
  /\ UNCHANGED <<cell, client, unread, seen, queued, hand, up, upEnd, upWin,
                 excused>>

\* Mutation: the drain loop reads without looking at the capacity.
DrainChunkUngated ==
  /\ bodyTx /\ cEnd # "reset" /\ unread > 0
  /\ unread' = unread - 1 /\ seen' = seen + 1
  /\ queued' = IF rxOpen /\ queued < Depth THEN queued + 1 ELSE queued
  /\ UNCHANGED <<cell, client, term, bodyTx, egress>>

\* recv_body gives a chunk, only while the channel has capacity.
DrainChunk ==
  /\ bodyTx /\ queued < Depth /\ cEnd # "reset" /\ unread > 0
  /\ unread' = unread - 1 /\ seen' = seen + 1
  /\ IF seen + 1 > MaxBody
       THEN SendTerminal("Reset")
       ELSE /\ queued' = IF rxOpen THEN queued + 1 ELSE queued
            /\ UNCHANGED <<term, bodyTx>>
  /\ UNCHANGED <<cell, client, egress>>

\* recv_body reports the peer's reset.
DrainError ==
  /\ bodyTx /\ queued < Depth /\ cEnd = "reset"
  /\ SendTerminal("Reset")
  /\ UNCHANGED <<cell, client, unread, seen, egress>>

\* The trailing HEADERS frame, surfaced once the DATA before it is read.
PollTrailers ==
  /\ bodyTx /\ unread = 0 /\ cEnd # "reset" /\ cTrail \in {"ok", "pseudo"}
  /\ IF cTrail = "pseudo"
       THEN SendTerminal("Reset") /\ UNCHANGED cTrail
       ELSE cTrail' = "read" /\ UNCHANGED <<bodyTx, channel>>
  /\ UNCHANGED <<cell, conn, cSent, cEnd, unread, seen, egress>>

\* Event::Finished, queued by the read of the last byte; the zero-length
\* stream_recv probe tells a FIN from a reset.
PollFinished ==
  /\ bodyTx /\ unread = 0 /\ cEnd # "open"
  /\ cEnd = "fin" => cTrail \in {"none", "read"}
  /\ SendTerminal(IF cEnd = "reset" THEN "Reset" ELSE "End")
  /\ UNCHANGED <<cell, client, unread, seen, egress>>

PollReset ==
  /\ bodyTx /\ cEnd = "reset"
  /\ SendTerminal("Reset")
  /\ UNCHANGED <<cell, client, unread, seen, egress>>
----------------------------------------------------------------------------
(* The upstream task: what body_rx.recv() returns next. *)

AtChunk == queued > 0
AtEnd == queued = 0 /\ term = "End"
AtReset == queued = 0 /\ term = "Reset"
Dropped == queued = 0 /\ term = "none" /\ ~bodyTx

\* The task returns: the receiver drops, what was queued with it.
Leave(end, why) ==
  /\ task' = "gone" /\ upEnd' = end /\ excused' = (excused \/ why)
  /\ queued' = 0 /\ term' = "none" /\ hand' = 0
  /\ UNCHANGED <<cell, client, actor, up, upWin>>

\* The H1 task takes its connection before it looks at the body.
AcquireH1 ==
  /\ cell = "H1" /\ task = "acquire"
  /\ \/ /\ task' = "peek"
        /\ UNCHANGED <<cell, client, actor, channel, hand, up, upEnd, upWin,
                       excused>>
     \/ Leave("aborted", TRUE)

\* write_h1_request reads the first event; with a chunk it writes head and
\* chunk, otherwise the head of a bodyless request.
PeekH1 ==
  /\ cell = "H1" /\ task = "peek"
  /\ \/ /\ AtChunk
        /\ queued' = queued - 1 /\ up' = up + 1 /\ task' = "body"
        /\ UNCHANGED <<cell, client, actor, term, hand, upEnd, upWin, excused>>
     \/ /\ AtEnd \/ Dropped
        /\ upEnd' = "complete" /\ task' = "resp" /\ term' = "none"
        /\ UNCHANGED <<cell, client, actor, queued, hand, up, upWin, excused>>
     \/ AtReset /\ Leave("aborted", FALSE)
     \/ (AtChunk \/ AtEnd \/ Dropped) /\ Leave("aborted", TRUE)

\* Mutation: the write loop takes a closed channel for the end.
BodyH1ClosedIsEnd ==
  /\ cell = "H1" /\ task = "body"
  /\ \/ /\ AtChunk
        /\ queued' = queued - 1 /\ up' = up + 1
        /\ UNCHANGED <<cell, client, actor, term, task, hand, upEnd, upWin,
                       excused>>
     \/ /\ AtEnd \/ Dropped
        /\ upEnd' = "complete" /\ task' = "resp" /\ term' = "none"
        /\ UNCHANGED <<cell, client, actor, queued, hand, up, upWin, excused>>

\* The write loop, the terminating chunk and the flush; each write may fail.
BodyH1 ==
  /\ cell = "H1" /\ task = "body"
  /\ \/ /\ AtChunk
        /\ queued' = queued - 1 /\ up' = up + 1
        /\ UNCHANGED <<cell, client, actor, term, task, hand, upEnd, upWin,
                       excused>>
     \/ /\ AtEnd
        /\ upEnd' = "complete" /\ task' = "resp" /\ term' = "none"
        /\ UNCHANGED <<cell, client, actor, queued, hand, up, upWin, excused>>
     \/ (AtReset \/ Dropped) /\ Leave("aborted", FALSE)
     \/ (AtChunk \/ AtEnd) /\ Leave("aborted", TRUE)

\* h3_to_h2_stream_resp peeks before it dials; the peeked chunk is the
\* body's first frame.
PeekH2 ==
  /\ cell = "H2" /\ task = "peek"
  /\ \/ /\ AtChunk
        /\ queued' = queued - 1 /\ up' = up + 1 /\ task' = "body"
        /\ UNCHANGED <<cell, client, actor, term, hand, upEnd, upWin, excused>>
     \/ /\ AtEnd \/ Dropped
        /\ upEnd' = "complete" /\ task' = "resp" /\ term' = "none"
        /\ UNCHANGED <<cell, client, actor, queued, hand, up, upWin, excused>>
     \/ AtReset /\ Leave("aborted", FALSE)
     \/ (AtChunk \/ AtEnd \/ Dropped) /\ Leave("aborted", TRUE)

\* H3ReqStreamBody::poll_frame, polled by hyper while the H2 window is open.
BodyH2 ==
  /\ cell = "H2" /\ task = "body"
  /\ \/ /\ AtChunk
        /\ queued' = queued - 1 /\ up' = up + 1
        /\ UNCHANGED <<cell, client, actor, term, task, hand, upEnd, upWin,
                       excused>>
     \/ /\ AtEnd
        /\ upEnd' = "complete" /\ task' = "resp" /\ term' = "none"
        /\ UNCHANGED <<cell, client, actor, queued, hand, up, upWin, excused>>
     \/ (AtReset \/ Dropped) /\ Leave("aborted", FALSE)
     \/ Leave("aborted", TRUE)

\* stream_request_to_h3_upstream peeks, acquires, and sends HEADERS (with
\* FIN when there is no body).
PeekH3 ==
  /\ cell = "H3" /\ task = "peek"
  /\ \/ /\ AtChunk
        /\ queued' = queued - 1 /\ hand' = 1 /\ task' = "body"
        /\ UNCHANGED <<cell, client, actor, term, up, upEnd, upWin, excused>>
     \/ /\ AtEnd \/ Dropped
        /\ upEnd' = "complete" /\ task' = "resp" /\ term' = "none"
        /\ UNCHANGED <<cell, client, actor, queued, hand, up, upWin, excused>>
     \/ AtReset /\ Leave("aborted", FALSE)
     \/ (AtChunk \/ AtEnd \/ Dropped) /\ Leave("aborted", TRUE)

\* send_body of the chunk in hand: Done (closed window) keeps it.
SendH3 ==
  /\ cell = "H3" /\ task = "body" /\ hand = 1 /\ upWin
  /\ hand' = 0 /\ up' = up + 1
  /\ UNCHANGED <<cell, client, actor, channel, task, upEnd, upWin, excused>>

\* The next event, pulled only in ReqSend::AwaitNext (j2_req_event_action).
\* The FIN is one send_body call whose Done counts as sent.
NextH3 ==
  /\ cell = "H3" /\ task = "body" /\ hand = 0
  /\ \/ /\ AtChunk
        /\ queued' = queued - 1 /\ hand' = 1
        /\ UNCHANGED <<cell, client, actor, term, task, up, upEnd, upWin,
                       excused>>
     \/ /\ AtEnd
        /\ upEnd' = IF upWin THEN "complete" ELSE "unfinished"
        /\ task' = "resp" /\ term' = "none"
        /\ UNCHANGED <<cell, client, actor, queued, hand, up, upWin, excused>>
     \/ (AtReset \/ Dropped) /\ Leave("aborted", FALSE)

\* The event loop of the H3 task ends early: an upstream error, a response
\* that is complete before the request, or H3_RESP_IDLE_TIMEOUT with a
\* closed window or a silent client.
BreakH3 ==
  /\ cell = "H3" /\ task = "body"
  /\ Leave("aborted", TRUE)

\* The upstream never saw the end of the request: it answers all the same,
\* or the idle deadline ends the wait.
UnfinishedH3 ==
  /\ cell = "H3" /\ task = "resp" /\ upEnd = "unfinished"
  /\ \E answered \in BOOLEAN : Leave("aborted", answered)

\* The response has been relayed, or the relay gave up; the request that
\* reached the upstream is not taken back.
ResponseDone ==
  /\ task = "resp" /\ upEnd = "complete"
  /\ Leave(upEnd, FALSE)

\* The H3 upstream grants or withholds send window (external).
UpstreamWindow ==
  /\ cell = "H3" /\ task = "body"
  /\ upWin' = ~upWin
  /\ UNCHANGED <<cell, client, actor, channel, task, hand, up, upEnd, excused>>
----------------------------------------------------------------------------
Actor == PollHeaders \/ DrainChunk \/ DrainError \/ PollTrailers
         \/ PollFinished \/ PollReset
Upstream == AcquireH1 \/ PeekH1 \/ BodyH1 \/ PeekH2 \/ BodyH2
            \/ PeekH3 \/ SendH3 \/ NextH3 \/ BreakH3 \/ UnfinishedH3 \/ ResponseDone
Client == ClientData \/ ClientTrailers \/ ClientFin \/ ClientReset

Next == Client \/ Actor \/ Upstream \/ UpstreamWindow \/ ActorEnds

Spec == Init /\ [][Next]_vars

\* The actor polls on every tick and the runtime schedules the upstream
\* task; an upstream that keeps reading and answering is assumed.
FairSpec == Spec /\ WF_vars(Actor) /\ WF_vars(Upstream)
----------------------------------------------------------------------------
(* Properties. *)

TypeOK ==
  /\ cell \in Cells /\ conn \in {"up", "down"}
  /\ cSent \in 0..MaxSend /\ cEnd \in {"open", "fin", "reset"}
  /\ cTrail \in {"none", "ok", "pseudo", "read"}
  /\ unread \in Nat /\ seen \in Nat /\ bodyTx \in BOOLEAN
  /\ queued \in 0..Depth /\ term \in {"none", "End", "Reset"}
  /\ task \in {"none", "acquire", "peek", "body", "resp", "gone"}
  /\ hand \in {0, 1} /\ up \in Nat
  /\ upEnd \in {"open", "complete", "unfinished", "aborted"}
  /\ upWin \in BOOLEAN /\ excused \in BOOLEAN

\* Backpressure loses nothing: while the stream is in its body phase and the
\* upstream task lives, every chunk the client sent is upstream, in the
\* task's hand, in the channel or still unread in quiche.
NothingLost ==
  (bodyTx /\ rxOpen /\ cEnd # "reset") => cSent = up + hand + queued + unread

\* A request whose body has begun to flow upstream is ended there as complete
\* only if the client ended it cleanly, within the cap, with acceptable
\* trailers, and every chunk of it was written.
NoTruncatedBody ==
  (upEnd = "complete" /\ up > 0) =>
     /\ cEnd = "fin" /\ up = cSent /\ up <= MaxBody
     /\ cTrail \in {"none", "read"}

\* Every request whose sending side is over (FIN, reset or lost connection)
\* lets go of its upstream task.
RequestSettles ==
  (task # "none" /\ (cEnd # "open" \/ conn = "down")) ~> (task = "gone")

\* drain_request_body: "a truncated request must never reach the backend as
\* complete".
TruncatedNeverComplete ==
  upEnd = "complete" => cEnd = "fin" /\ up = cSent

\* poll_h3: "The clean `End` is emitted later by the `Finished` event": a
\* request that nobody broke is not aborted.
AbortHasCause ==
  upEnd = "aborted" =>
     \/ excused \/ conn = "down" \/ cEnd = "reset"
     \/ seen > MaxBody \/ cTrail = "pseudo"

\* ReqSend::Ended: "Clean end-of-request: a FIN (send_body(.., true)) has been
\* written".
EndedMeansFin == upEnd # "unfinished"
----------------------------------------------------------------------------
(* The request direction implements the pipe. *)

\* The one case in which it does not, shown by TruncatedNeverComplete: a
\* connection lost after HEADERS and before the first DATA, whose request is
\* sent as a bodyless one.  The mapping counts it as aborted.
Orphaned == conn = "down" /\ up = 0 /\ ~(cEnd = "fin" /\ cSent = 0)

\* What the upstream has been told of the request.
Told == IF upEnd = "complete" /\ ~Orphaned THEN "fin"
        ELSE IF upEnd \in {"complete", "aborted"} THEN "abort" ELSE "open"

Pipe == INSTANCE StreamPipe
          WITH sent <- cSent, srcEnd <- cEnd, got <- up, dstEnd <- Told

\* The upstream request is a prefix of what the client sent and, orphaned
\* requests apart, is complete only when the client's request is.
ImplementsPipe == Pipe!PipeSpec
============================================================================
