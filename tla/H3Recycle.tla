----------------------------- MODULE H3Recycle -----------------------------
(***************************************************************************)
(* Request admission and connection recycling on one HTTP/3 connection:    *)
(* the HEADERS arm of poll_h3, try_send_pending_goaway, and the drain-then *)
(* -recycle arm of run_actor (crates/lb-quic/src/conn_actor.rs).  Streams  *)
(* are their ids divided by four; HEADERS of different streams complete in *)
(* any order because QUIC streams are independent.                         *)
(***************************************************************************)
EXTENDS Integers, FiniteSets

CONSTANTS Streams,     \* request streams the client opens
          RequestCap   \* max_requests_per_h3_connection, not 0

ASSUME StreamsAssumption == Streams \subseteq Nat
ASSUME RequestCapAssumption == RequestCap \in Nat \ {0}

VARIABLES
  unseen,     \* streams whose HEADERS have not been processed
  overCap,    \* body over MAX_REQUEST_BODY_BYTES: sender gone, 413 pending
  bodies,     \* body_tx_by_stream
  resp,       \* resp_rx_by_stream and stream_response
  ws,         \* ws_tunnels
  admitted, rejected,  \* streams past the recycling gate, and refused by it
  answered,   \* streams whose response was sent, or that were reset
  lands,      \* how often each stream passed the gate
  served, pending, goawaySent, lastId,  \* requests_served, goaway_*
  announced,  \* the id the GOAWAY frame carried
  ctrl,       \* the control stream accepts a frame
  life        \* up, or recycled

maps == <<bodies, resp, ws>>
goaway == <<served, pending, goawaySent, lastId, announced>>
recycleVars == <<unseen, overCap, maps, admitted, rejected, answered, lands, goaway,
                 ctrl, life>>

RecycleInit ==
  /\ unseen = Streams /\ overCap = {} /\ bodies = {} /\ resp = {} /\ ws = {}
  /\ admitted = {} /\ rejected = {} /\ answered = {}
  /\ lands = [s \in Streams |-> 0]
  /\ served = 0 /\ pending = FALSE /\ goawaySent = FALSE /\ lastId = 0
  /\ announced = 0 /\ ctrl \in BOOLEAN /\ life = "up"

Idle == bodies = {} /\ resp = {} /\ ws = {}
----------------------------------------------------------------------------
\* Mutation: the gate looks at the frame, not at the decision to send it.
RejectsOnceSent(s) == goawaySent /\ s > lastId

\* Past the cap GOAWAY: H3_REQUEST_REJECTED, neither counted nor routed.
Rejects(s) == pending /\ s > lastId

Reject(s) ==
  /\ life = "up" /\ s \in unseen /\ Rejects(s)
  /\ unseen' = unseen \ {s} /\ rejected' = rejected \cup {s}
  /\ UNCHANGED <<overCap, maps, admitted, answered, lands, goaway, ctrl, life>>

\* Count the stream, remember its id, and at the cap send the GOAWAY, or
\* leave it pending while the control stream is blocked.
Count(s) ==
  /\ served' = served + 1 /\ lastId' = s
  /\ pending' = (pending \/ served + 1 >= RequestCap)
  /\ goawaySent' = (goawaySent \/ (pending' /\ ctrl))
  /\ announced' = IF goawaySent' /\ ~goawaySent THEN s ELSE announced
  /\ lands' = [lands EXCEPT ![s] = @ + 1]
  /\ admitted' = admitted \cup {s}

\* HEADERS of a stream that passes the gate: malformed (reset), answered
\* inline, a bodyless request, a request with a body, or a WebSocket CONNECT.
Headers(s) ==
  /\ life = "up" /\ s \in unseen /\ ~Rejects(s)
  /\ unseen' = unseen \ {s}
  /\ Count(s)
  /\ \/ answered' = answered \cup {s} /\ UNCHANGED maps
     \/ resp' = resp \cup {s} /\ UNCHANGED <<bodies, ws, answered>>
     \/ /\ resp' = resp \cup {s} /\ bodies' = bodies \cup {s}
        /\ UNCHANGED <<ws, answered>>
     \/ ws' = ws \cup {s} /\ UNCHANGED <<bodies, resp, answered>>
  /\ UNCHANGED <<overCap, rejected, ctrl, life>>

\* drain_request_body over the cap: the sender is removed, the task answers 413.
BodyOverCap(s) ==
  /\ life = "up" /\ s \in bodies
  /\ bodies' = bodies \ {s} /\ overCap' = overCap \cup {s}
  /\ UNCHANGED <<unseen, resp, ws, admitted, rejected, answered, lands, goaway,
                 ctrl, life>>

\* Finished or Reset of the request stream.
BodyEnds(s) ==
  /\ life = "up" /\ s \in bodies
  /\ bodies' = bodies \ {s}
  /\ UNCHANGED <<unseen, overCap, resp, ws, admitted, rejected, answered, lands,
                 goaway, ctrl, life>>

\* A trailing section on a stream without a sender is not recognised as one:
\* it passes the gate again and is reset as a malformed request.
TrailersAfterOverCap(s) ==
  /\ life = "up" /\ s \in overCap
  /\ overCap' = overCap \ {s}
  /\ IF Rejects(s)
       THEN rejected' = rejected \cup {s}
            /\ UNCHANGED <<goaway, lands, admitted>>
       ELSE Count(s) /\ UNCHANGED rejected
  /\ answered' = answered \cup {s}
  /\ UNCHANGED <<unseen, maps, ctrl, life>>

\* The response stream reaches its end and leaves the maps; the upload of
\* its request may still be going on.
ResponseEnds(s) ==
  /\ life = "up" /\ s \in resp \cup ws
  /\ resp' = resp \ {s} /\ ws' = ws \ {s} /\ answered' = answered \cup {s}
  /\ UNCHANGED <<unseen, overCap, bodies, admitted, rejected, lands, goaway,
                 ctrl, life>>

\* Mutation: the GOAWAY is tried only on new HEADERS.
RetryGoawayNever == FALSE /\ UNCHANGED recycleVars

\* run_actor retries the GOAWAY on every tick.
RetryGoaway ==
  /\ life = "up" /\ pending /\ ~goawaySent /\ ctrl
  /\ goawaySent' = TRUE /\ announced' = lastId
  /\ UNCHANGED <<unseen, overCap, maps, admitted, rejected, answered, lands,
                 served, pending, lastId, ctrl, life>>

\* The client drains the control stream (external).
CtrlOpens ==
  /\ life = "up" /\ ~ctrl
  /\ ctrl' = TRUE
  /\ UNCHANGED <<unseen, overCap, maps, admitted, rejected, answered, lands,
                 goaway, life>>

\* Mutation: a running upload does not hold the connection.
RecycleEarly ==
  /\ life = "up" /\ goawaySent /\ resp = {} /\ ws = {}
  /\ life' = "recycled"
  /\ UNCHANGED <<unseen, overCap, maps, admitted, rejected, answered, lands,
                 goaway, ctrl>>

\* Drain-then-recycle: every per-stream map is empty.
Recycle ==
  /\ life = "up" /\ goawaySent /\ Idle
  /\ life' = "recycled"
  /\ UNCHANGED <<unseen, overCap, maps, admitted, rejected, answered, lands,
                 goaway, ctrl>>

RecycleNext ==
  \/ \E s \in Streams : Reject(s) \/ Headers(s) \/ BodyOverCap(s) \/ BodyEnds(s)
                        \/ TrailersAfterOverCap(s) \/ ResponseEnds(s)
  \/ RetryGoaway \/ CtrlOpens \/ Recycle

RecycleSpec == RecycleInit /\ [][RecycleNext]_recycleVars

\* The actor ticks; uploads and responses end; the client reads its control
\* stream.
RecycleFairSpec ==
  /\ RecycleSpec
  /\ WF_recycleVars(RetryGoaway) /\ WF_recycleVars(CtrlOpens) /\ WF_recycleVars(Recycle)
  /\ \A s \in Streams : WF_recycleVars(BodyEnds(s)) /\ WF_recycleVars(ResponseEnds(s))
----------------------------------------------------------------------------
RecycleTypeOK ==
  /\ unseen \subseteq Streams /\ overCap \subseteq Streams
  /\ bodies \subseteq Streams /\ resp \subseteq Streams /\ ws \subseteq Streams
  /\ admitted \subseteq Streams /\ rejected \subseteq Streams
  /\ answered \subseteq Streams /\ lands \in [Streams -> Nat]
  /\ served \in Nat /\ lastId \in Nat /\ announced \in Nat
  /\ pending \in BOOLEAN /\ goawaySent \in BOOLEAN /\ ctrl \in BOOLEAN
  /\ life \in {"up", "recycled"}

\* Recycling never cuts work short: on a recycled connection every request
\* that passed the gate was answered, and its upload was over.
RecycleLosesNothing ==
  life = "recycled" => admitted \subseteq answered /\ bodies = {}

\* From the moment the cap is reached, not from the moment the GOAWAY is
\* written, no stream above the last processed one is admitted.
AdmissionStops ==
  [][\A s \in admitted' \ admitted : pending => s <= lastId]_recycleVars

\* A connection that reached its cap is recycled.
CapRecycles == pending ~> (life = "recycled")

\* try_send_pending_goaway: "goaway_last_id is the highest admitted request
\* stream id".
GoawayIsHighest == goawaySent => \A s \in admitted : s <= announced

\* poll_h3: "reject any request stream opened AFTER the GOAWAY's
\* last-processed id", and no other.
OnlyAboveGoawayRejected == goawaySent => \A s \in rejected : s > announced

\* poll_h3: "each request stream lands here exactly once".
LandsOnce == \A s \in Streams : lands[s] <= 1
============================================================================
