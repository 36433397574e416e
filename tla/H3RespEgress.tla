---------------------------- MODULE H3RespEgress ----------------------------
(***************************************************************************)
(* The response direction of one HTTP/3 request stream: the task that      *)
(* reads the upstream response (crates/lb-quic/src/h3_bridge.rs:           *)
(* stream_h1_response, stream_h2_response, and the event loop of           *)
(* stream_request_to_h3_upstream), the bounded RespEvent channel, and the  *)
(* connection actor that ships the events onto the client's stream         *)
(* (conn_actor.rs: drain_resp_channels, drain_streams_to_conn,             *)
(* reap_client_cancelled_responses).                                       *)
(*                                                                         *)
(* Events are Head, Body*, Trailers?, then End or Reset, so the channel is *)
(* one count per kind and the next event is the first kind present.        *)
(***************************************************************************)
EXTENDS Naturals

CONSTANTS Depth,      \* H3_RESP_CHANNEL_DEPTH
          Cap,        \* MAX_RESPONSE_BODY_BYTES, in chunks
          MaxChunks,  \* bound: chunks the backend sends
          Kinds       \* producers: "H1", "H2", "H3", "inline"

VARIABLES
  kind,     \* which producer serves the stream
  bSent, bTrail,  \* body chunks and trailers the backend has sent
  bEnd,     \* the backend's end: open, fin, reset, or short (a clean end
            \* with less body than its content-length)
  prod,     \* producer: head, body, trail (trailers relayed) or done
  read,     \* chunks the producer has taken from the backend
  chHead, chBody, chTrail, chTerm,  \* the channel
  rx,       \* the stream has a receiver in resp_rx_by_stream
  tx,       \* the stream has a StreamTx in stream_response
  item,     \* the StreamTx queue: none, head, body or trail
  ended, reset,   \* StreamTx flags
  wnd,      \* the client's stream accepts bytes
  cHead, cGot, cEnd,  \* what the client received: open, fin, reset, gone
  stop      \* the client cancelled the response (STOP_SENDING)

backend == <<kind, bSent, bTrail, bEnd>>
channel == <<chHead, chBody, chTrail, chTerm>>
egress == <<rx, tx, item, ended, reset>>
client == <<wnd, cHead, cGot, cEnd, stop>>
vars == <<backend, prod, read, channel, egress, client>>

Init ==
  /\ kind \in Kinds
  /\ bSent = (IF kind = "inline" THEN 1 ELSE 0) /\ bTrail = FALSE
  /\ bEnd = (IF kind = "inline" THEN "fin" ELSE "open")
  /\ prod = "head" /\ read = 0
  /\ chHead = 0 /\ chBody = 0 /\ chTrail = 0 /\ chTerm = "none"
  /\ rx = TRUE /\ tx = TRUE /\ item = "none" /\ ended = FALSE /\ reset = FALSE
  /\ wnd = TRUE /\ cHead = FALSE /\ cGot = 0 /\ cEnd = "open" /\ stop = FALSE
----------------------------------------------------------------------------
(* The backend (external). *)

BackendData ==
  /\ bEnd = "open" /\ ~bTrail /\ bSent < MaxChunks
  /\ bSent' = bSent + 1
  /\ UNCHANGED <<kind, bTrail, bEnd, prod, read, channel, egress, client>>

\* The trailing section; over HTTP/2 and chunked HTTP/1 it is also the end.
BackendTrailers ==
  /\ bEnd = "open" /\ ~bTrail
  /\ bTrail' = TRUE /\ bEnd' = IF kind = "H3" THEN "open" ELSE "fin"
  /\ UNCHANGED <<kind, bSent, prod, read, channel, egress, client>>

BackendEnds ==
  /\ bEnd = "open"
  /\ bEnd' \in {"fin", "reset", "short"}
  /\ UNCHANGED <<kind, bSent, bTrail, prod, read, channel, egress, client>>
----------------------------------------------------------------------------
(* The producer task.  send().await blocks while the channel is full. *)

used == chHead + chBody + chTrail + (IF chTerm = "none" THEN 0 ELSE 1)
Room == rx /\ used < Depth

\* The response head, or a head that is refused: RespEvent::Reset.
ProdHead ==
  /\ prod = "head" /\ Room
  /\ \/ chHead' = 1 /\ prod' = "body" /\ UNCHANGED chTerm
     \/ /\ kind # "inline"
        /\ chTerm' = "Reset" /\ prod' = "done" /\ UNCHANGED chHead
  /\ UNCHANGED <<backend, read, chBody, chTrail, egress, client>>

\* emit_data!: one slice, or Reset once the total is over the cap.
ProdBody ==
  /\ prod = "body" /\ read < bSent /\ Room
  /\ read' = read + 1
  /\ IF read + 1 > Cap
       THEN chTerm' = "Reset" /\ prod' = "done" /\ UNCHANGED chBody
       ELSE chBody' = chBody + 1 /\ UNCHANGED <<chTerm, prod>>
  /\ UNCHANGED <<backend, chHead, chTrail, egress, client>>

ProdTrailers ==
  /\ prod = "body" /\ read = bSent /\ bTrail /\ Room
  /\ chTrail' = 1 /\ prod' = "trail"
  /\ UNCHANGED <<backend, read, chHead, chBody, chTerm, egress, client>>

\* The clean end of the upstream response.
ProdEnd ==
  /\ prod \in {"body", "trail"} /\ read = bSent /\ bEnd = "fin"
  /\ bTrail => prod = "trail"
  /\ Room
  /\ chTerm' = "End" /\ prod' = "done"
  /\ UNCHANGED <<backend, read, chHead, chBody, chTrail, egress, client>>

\* Mutation: a premature EOF is taken for the end of the response.
ProdAbortAsEnd ==
  /\ prod \in {"head", "body", "trail"} /\ bEnd \in {"reset", "short"}
  /\ bEnd = "short" => prod # "head" /\ read = bSent
  /\ Room
  /\ chTerm' = (IF bEnd = "short" THEN "End" ELSE "Reset") /\ prod' = "done"
  /\ UNCHANGED <<backend, read, chHead, chBody, chTrail, egress, client>>

\* Every RespAbort but ClientGone: Reset, never End.
ProdAbort ==
  /\ prod \in {"head", "body", "trail"} /\ bEnd \in {"reset", "short"}
  /\ bEnd = "short" => prod # "head" /\ read = bSent
  /\ Room
  /\ chTerm' = "Reset" /\ prod' = "done"
  /\ UNCHANGED <<backend, read, chHead, chBody, chTrail, egress, client>>

\* RespAbort::ClientGone: the next send finds the receiver dropped.
ProdClientGone ==
  /\ ~rx
  /\ \/ prod = "head"
     \/ prod = "body" /\ (read < bSent \/ bTrail)
     \/ prod \in {"body", "trail"} /\ bEnd # "open"
  /\ prod' = "done"
  /\ UNCHANGED <<backend, read, channel, egress, client>>

\* The task panics: its sender is dropped with no terminal event.
ProdDies ==
  /\ prod # "done" /\ rx
  /\ prod' = "done"
  /\ UNCHANGED <<backend, read, channel, egress, client>>

Producer == ProdHead \/ ProdBody \/ ProdTrailers \/ ProdEnd \/ ProdAbort
            \/ ProdClientGone
----------------------------------------------------------------------------
(* The actor. *)

DropReceiver == rx' = FALSE /\ chHead' = 0 /\ chBody' = 0 /\ chTrail' = 0
                /\ chTerm' = "none"

\* A peer cancel seen on the write side: receiver and StreamTx go.
Reap ==
  /\ rx /\ stop
  /\ DropReceiver /\ tx' = FALSE /\ item' = "none"
  /\ UNCHANGED <<backend, prod, read, ended, reset, client>>

\* drain_resp_channels for this stream: the stale receiver of a finished
\* stream is dropped; otherwise one event is pulled into an empty queue.
Pull ==
  /\ rx
  /\ \/ ~tx /\ DropReceiver /\ UNCHANGED <<tx, item, ended, reset>>
     \/ /\ tx /\ ~ended /\ ~reset /\ item = "none"
        /\ \/ /\ chHead > 0
              /\ item' = "head" /\ chHead' = 0
              /\ UNCHANGED <<chBody, chTrail, chTerm, ended, reset>>
           \/ /\ chHead = 0 /\ chBody > 0
              /\ item' = "body" /\ chBody' = chBody - 1
              /\ UNCHANGED <<chHead, chTrail, chTerm, ended, reset>>
           \/ /\ chHead + chBody = 0 /\ chTrail > 0
              /\ item' = "trail" /\ chTrail' = 0
              /\ UNCHANGED <<chHead, chBody, chTerm, ended, reset>>
           \/ /\ chHead + chBody + chTrail = 0 /\ chTerm # "none"
              /\ ended' = (chTerm = "End") /\ reset' = (chTerm = "Reset")
              /\ chTerm' = "none"
              /\ UNCHANGED <<chHead, chBody, chTrail, item>>
           \/ /\ used = 0 /\ prod = "done"
              /\ reset' = TRUE
              /\ UNCHANGED <<channel, item, ended>>
        /\ UNCHANGED <<rx, tx>>
  /\ UNCHANGED <<backend, prod, read, client>>

\* drain_streams_to_conn for this stream.  A send refused for want of window
\* leaves the item at the front of the queue.
ShipItem ==
  /\ tx /\ ~stop /\ wnd /\ item \in {"head", "body"}
  /\ item' = "none" /\ wnd' \in BOOLEAN
  /\ cHead' = (cHead \/ item = "head")
  /\ cGot' = IF item = "body" THEN cGot + 1 ELSE cGot
  /\ UNCHANGED <<backend, prod, read, channel, rx, tx, ended, reset, cEnd, stop>>

\* The trailing section carries the FIN; the StreamTx is removed.
ShipTrailers ==
  /\ tx /\ ~stop /\ wnd /\ item = "trail"
  /\ item' = "none" /\ tx' = FALSE /\ cEnd' = "fin"
  /\ UNCHANGED <<backend, prod, read, channel, rx, ended, reset, wnd, cHead,
                 cGot, stop>>

\* RESET_STREAM, never FIN.
ShipReset ==
  /\ tx /\ ~stop /\ reset
  /\ tx' = FALSE /\ cEnd' = "reset"
  /\ UNCHANGED <<backend, prod, read, channel, rx, item, ended, reset, wnd,
                 cHead, cGot, stop>>

\* The FIN after the queue drained: send_body(&[], true), once; a refusal for
\* want of window (Done, StreamBlocked) is taken for success.
ShipFin ==
  /\ tx /\ ~stop /\ ended /\ ~reset /\ item = "none"
  /\ tx' = FALSE /\ cEnd' = IF wnd THEN "fin" ELSE cEnd
  /\ UNCHANGED <<backend, prod, read, channel, rx, item, ended, reset, wnd,
                 cHead, cGot, stop>>

\* The same calls on a stream the client cancelled fail; it is shut down.
ShipStopped ==
  /\ tx /\ stop /\ (item # "none" \/ ended \/ reset)
  /\ tx' = FALSE /\ item' = "none"
  /\ UNCHANGED <<backend, prod, read, channel, rx, ended, reset, client>>

\* The actor's loop ends and drops its maps.
ActorEnds ==
  /\ rx \/ tx
  /\ DropReceiver /\ tx' = FALSE /\ item' = "none"
  /\ cEnd' = IF cEnd = "open" THEN "gone" ELSE cEnd
  /\ UNCHANGED <<backend, prod, read, ended, reset, wnd, cHead, cGot, stop>>

Actor == Reap \/ Pull \/ ShipItem \/ ShipTrailers \/ ShipReset \/ ShipFin
         \/ ShipStopped
----------------------------------------------------------------------------
(* The client (external): it grants window as it reads, and may cancel. *)

WindowOpens ==
  /\ ~wnd /\ cEnd = "open" /\ ~stop
  /\ wnd' = TRUE
  /\ UNCHANGED <<backend, prod, read, channel, egress, cHead, cGot, cEnd, stop>>

ClientStops ==
  /\ ~stop /\ cEnd = "open"
  /\ stop' = TRUE /\ cEnd' = "gone"
  /\ UNCHANGED <<backend, prod, read, channel, egress, wnd, cHead, cGot>>

Backend == BackendData \/ BackendTrailers \/ BackendEnds

Next == Backend \/ Producer \/ ProdDies \/ Actor \/ ActorEnds \/ WindowOpens \/ ClientStops

Spec == Init /\ [][Next]_vars

\* The actor ticks, the runtime schedules the producer, the client reads.
FairSpec ==
  Spec /\ WF_vars(Producer) /\ WF_vars(Actor) /\ WF_vars(WindowOpens)
----------------------------------------------------------------------------
(* Properties. *)

TypeOK ==
  /\ kind \in Kinds /\ bSent \in 0..MaxChunks /\ bTrail \in BOOLEAN
  /\ bEnd \in {"open", "fin", "reset", "short"}
  /\ prod \in {"head", "body", "trail", "done"} /\ read \in 0..bSent
  /\ chHead \in {0, 1} /\ chBody \in Nat /\ chTrail \in {0, 1}
  /\ chTerm \in {"none", "End", "Reset"} /\ used <= Depth
  /\ rx \in BOOLEAN /\ tx \in BOOLEAN /\ ended \in BOOLEAN /\ reset \in BOOLEAN
  /\ item \in {"none", "head", "body", "trail"}
  /\ wnd \in BOOLEAN /\ cHead \in BOOLEAN /\ stop \in BOOLEAN /\ cGot \in Nat
  /\ cEnd \in {"open", "fin", "reset", "gone"}

\* Body never precedes the head, and a client that sees the end of a response
\* has its head and every chunk of it, within the cap.
FinHasAllData ==
  /\ cGot > 0 => cHead
  /\ cEnd = "fin" => cHead /\ cGot = bSent /\ bSent <= Cap

\* When the backend has answered, in full or not, the gateway lets go of the
\* upstream and of the stream's state.
ResponseReleased == (bEnd # "open") ~> (prod = "done" /\ ~rx /\ ~tx)

Pipe == INSTANCE StreamPipe
          WITH sent <- bSent, got <- cGot,
               srcEnd <- IF bTrail THEN "fin"
                         ELSE IF bEnd = "short" THEN "reset" ELSE bEnd,
               dstEnd <- IF cEnd \in {"reset", "gone"} THEN "abort" ELSE cEnd

\* The client sees a prefix of the upstream response, and the end of it only
\* when the upstream response ended cleanly and whole.  A trailing section
\* counts as the end here, as it does in the code; FinIsWhole shows what that
\* loses over HTTP/3.
ImplementsPipe == Pipe!PipeSpec

\* stream_request_to_h3_upstream: a clean FIN with less body than declared is
\* a truncated response: "RESET downstream, never a clean End".
FinIsWhole == cEnd = "fin" => bEnd \notin {"reset", "short"}

\* drain_resp_channels: "a missing StreamTx means the stream already
\* terminated correctly".
RemovedIsTerminated == ~tx => cEnd # "open"

\* reap_client_cancelled_responses: a client that cancels the response stream
\* "must stop the upstream read".
CancelStopsRead == stop ~> (prod = "done")
============================================================================
