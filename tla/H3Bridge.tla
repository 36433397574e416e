------------------------------ MODULE H3Bridge ------------------------------
(* The bridge from HTTP/3 to a backend: the request head, the reading of *)
(* the response, and the chunked coding of an HTTP/1.1 body.             *)
EXTENDS Naturals, SequencesExt, FiniteSetsExt, FiniteSets, Integers, TLC

-----------------------------------------------------------------------------
(***************************************************************************)
(* The head of an HTTP/3 request, from the field section quiche decoded to *)
(* the head the backend is sent: the pseudo-header rules, the defaulting   *)
(* parse, the authority check, the WebSocket branch and the three upstream *)
(* heads (crates/lb-quic/src/h3_bridge.rs and conn_actor.rs: poll_h3).     *)
(*                                                                         *)
(* A field is a name and a value.  Values are kept as far as the code      *)
(* tells them apart: CONNECT or another method, a scheme with or without a *)
(* mandatory authority, an authority that is empty, valid or not, the      *)
(* websocket protocol or another, a content-length that parses or not.     *)
(***************************************************************************)

CONSTANTS Bodies   \* bound: body lengths a request may have

VARIABLES hdHead,   \* the field section
          hdBody,   \* the length of the body that follows it
          hdWs,     \* WebSocket: "off", "on" (no relay launcher) or "relay"
          hdOutcome \* what poll_h3 did with it

headVars == <<hdHead, hdBody, hdWs, hdOutcome>>

F(name, value) == [name |-> name, value |-> value]
Option(fields) == {<<>>} \cup {<<f>> : f \in fields}

\* Heads in the usual order, each field at most once.
UsualHeads ==
  { m \o s \o p \o a \o x \o r :
      m \in Option({F(":method", "GET"), F(":method", "CONNECT")}),
      s \in Option({F(":scheme", "https"), F(":scheme", "urn")}),
      p \in Option({F(":path", "/x")}),
      a \in Option({F(":authority", "a"), F(":authority", "a,b"), F(":authority", "")}),
      x \in Option({F(":protocol", "websocket"), F(":protocol", "other")}),
      r \in Option({F("host", "h"), F("content-length", "2")}) }

\* A field one head may carry in addition, anywhere.
StrayFields ==
  { F(":method", "GET"), F(":path", "/y"), F(":authority", "b"), F(":scheme", "https"),
    F(":protocol", "websocket"), F(":status", "200"), F("content-length", "bad") }

HeadInit ==
  /\ hdHead \in UsualHeads /\ hdBody \in Bodies
  /\ hdWs \in {"off", "on", "relay"}
  /\ hdOutcome = [kind |-> "new"]
----------------------------------------------------------------------------
Pseudo(f) == f.name \in {":method", ":scheme", ":path", ":authority", ":protocol", ":status"}
Names(fields) == {f.name : f \in fields}
Valued(fields, name) == {f.value : f \in {g \in fields : g.name = name}}

\* The pseudo-headers a request may carry.
Registered(wsEnabled) ==
  {":method", ":scheme", ":path", ":authority"} \cup (IF wsEnabled THEN {":protocol"} ELSE {})

\* One field of the loop; bad is the early return.
ScanField(wsEnabled, st, f) ==
  IF st.bad THEN st
  ELSE IF Pseudo(f)
    THEN [st EXCEPT !.bad = \/ st.regular
                            \/ f.name \notin Registered(wsEnabled)
                            \/ f.name \in Names(st.seen),
                    !.seen = @ \cup {f}]
    ELSE [st EXCEPT !.regular = TRUE, !.seen = @ \cup {f}]

\* What the method asks of the others, after the loop.
MandatoryPresent(seen) ==
  LET has == Names(seen) method == Valued(seen, ":method") IN
  IF method = {} THEN FALSE
  ELSE IF method = {"CONNECT"} /\ ":protocol" \in has
    THEN {":scheme", ":path", ":authority"} \subseteq has
  ELSE IF method = {"CONNECT"}
    THEN ":scheme" \notin has /\ ":path" \notin has /\ ":authority" \in has
  ELSE /\ ":protocol" \notin has /\ ":scheme" \in has /\ ":path" \in has
       /\ Valued(seen, ":scheme") = {"https"} => ":authority" \in has \/ "host" \in has

\* validate_request_pseudo_headers: no Err was returned.
Validate(head, wsEnabled) ==
  LET scan == FoldLeft(LAMBDA st, f : ScanField(wsEnabled, st, f),
                       [seen |-> {}, regular |-> FALSE, bad |-> FALSE], head)
  IN  ~scan.bad /\ MandatoryPresent(scan.seen)

LastValue(head, name, default) ==
  LET at == {i \in DOMAIN head : head[i].name = name}
  IN  IF at = {} THEN default ELSE head[Max(at)].value

\* H3Request::from_headers: what is missing is defaulted, :scheme dropped.
FromHeaders(head) ==
  [ method |-> LastValue(head, ":method", "GET"),
    path |-> LastValue(head, ":path", "/"),
    authority |-> LastValue(head, ":authority", ""),
    extra |-> SelectSeq(head, LAMBDA f :
                f.name \notin {":method", ":path", ":authority", ":scheme"}) ]

\* lb_core::authority::validate.
AuthorityOk(value) == value # "a,b"

\* setup_ws_tunnel: only the websocket protocol, and only with a launcher.
SetupWsTunnel(req, protocol) ==
  IF protocol # "websocket" THEN [kind |-> "inline", status |-> 501]
  ELSE IF hdWs # "relay" THEN [kind |-> "inline", status |-> 502]
  ELSE [kind |-> "tunnel", authority |-> req.authority, path |-> req.path]

\* Event::Headers for a new request stream.
Decide(head) ==
  LET req == FromHeaders(head)
      protocol == SelectSeq(req.extra, LAMBDA f : f.name = ":protocol")
  IN  IF ~Validate(head, hdWs # "off") THEN [kind |-> "reset"]
      ELSE IF req.authority # "" /\ ~AuthorityOk(req.authority)
        THEN [kind |-> "inline", status |-> 400]
      ELSE IF hdWs # "off" /\ protocol # <<>> THEN SetupWsTunnel(req, protocol[1].value)
      ELSE [kind |-> "forward", req |-> req]

PollHead ==
  /\ hdOutcome.kind = "new"
  /\ hdOutcome' = Decide(hdHead)
  /\ UNCHANGED <<hdHead, hdBody, hdWs>>

\* The client's head has one more field than the usual ones (bound: only
\* where every branch behind the check can be taken).
ClientStrays ==
  /\ hdOutcome.kind = "new" /\ hdWs = "relay" /\ hdHead \in UsualHeads
  /\ \E f \in StrayFields, i \in 0..Len(hdHead) :
       hdHead' = InsertAt(hdHead, i + 1, f)
  /\ UNCHANGED <<hdBody, hdWs, hdOutcome>>

HeadNext == ClientStrays \/ PollHead
----------------------------------------------------------------------------
(* The heads the backends are sent.                                        *)

\* The first content-length of the request that parses.
Declared(req) ==
  LET lengths == SelectSeq(req.extra, LAMBDA f : f.name = "content-length" /\ f.value # "bad")
  IN  IF lengths = <<>> THEN {} ELSE {2}

\* write_h1_request: framing, decided on the first event.
Framing(req, body) ==
  IF body = 0 THEN [kind |-> "length", length |-> 0]
  ELSE IF Declared(req) # {} THEN [kind |-> "length", length |-> CHOOSE n \in Declared(req) : TRUE]
  ELSE [kind |-> "chunked"]

\* build_h1_head: request line, Host if there is an authority, framing.
HeadH1(req, body) ==
  [ method |-> req.method, path |-> req.path, fields |-> <<>>,
    host |-> IF req.authority = "" THEN {} ELSE {req.authority}, framing |-> Framing(req, body) ]

\* h2_request_body_from_rx: the backend's address stands in for an authority.
HeadH2(req) ==
  [ method |-> req.method, path |-> req.path,
    host |-> {IF req.authority = "" THEN "backend" ELSE req.authority},
    fields |-> SelectSeq(req.extra, LAMBDA f : ~Pseudo(f)) ]

\* h3_to_h3_stream_resp: the SNI stands in for it, and no field goes along.
HeadH3(req) ==
  [ method |-> req.method, path |-> req.path, fields |-> <<>>,
    host |-> {IF req.authority = "" THEN "sni" ELSE req.authority} ]

Sent(req) == {HeadH1(req, hdBody), HeadH2(req), HeadH3(req)}
----------------------------------------------------------------------------
(* The rules of RFC 9114 and 8441, stated over the whole head. *)
WellFormed(head, wsEnabled) ==
  LET fields == ToSet(head) names == Names(fields)
      connect == F(":method", "CONNECT") \in fields
      extended == wsEnabled /\ ":protocol" \in names
  IN  /\ \A i, j \in DOMAIN head : i < j /\ Pseudo(head[j]) =>
           Pseudo(head[i]) /\ head[i].name # head[j].name
      /\ \A f \in fields : Pseudo(f) => f.name \in Registered(wsEnabled)
      /\ ":method" \in names
      /\ extended => connect
      /\ (~connect \/ extended) => {":scheme", ":path"} \subseteq names
      /\ (connect /\ ~extended) => {":scheme", ":path"} \cap names = {}
      /\ connect => ":authority" \in names
      /\ F(":scheme", "https") \in fields => {":authority", "host"} \cap names # {}

(* Only a well-formed head leaves poll_h3 other than by a stream reset.    *)
ResetIffMalformed ==
  hdOutcome.kind # "new" => (hdOutcome.kind = "reset" <=> ~WellFormed(hdHead, hdWs # "off"))

(* What reaches a backend, or opens a tunnel, is what the client asked:    *)
(* the method it named and, but for a CONNECT, the path it named, never a  *)
(* default of from_headers; an authority it named is the one that arrives, *)
(* and no pseudo-header travels as an ordinary field.                      *)
ForwardedIsAsked ==
  /\ hdOutcome.kind = "forward" => \A sent \in Sent(hdOutcome.req) :
       /\ F(":method", sent.method) \in ToSet(hdHead)
       /\ sent.method = "CONNECT" \/ F(":path", sent.path) \in ToSet(hdHead)
       /\ \A a \in Valued(ToSet(hdHead), ":authority") \ {""} : sent.host = {a}
       /\ \A f \in ToSet(sent.fields) : ~Pseudo(f)
  /\ hdOutcome.kind = "tunnel" =>
       /\ {F(":method", "CONNECT"), F(":protocol", "websocket"),
           F(":path", hdOutcome.path), F(":authority", hdOutcome.authority)} \subseteq ToSet(hdHead)

(* An extended CONNECT never reaches a backend as a request, on a listener *)
(* with WebSocket support or without.                                      *)
ProtocolNeverForwarded ==
  hdOutcome.kind = "forward" => ":protocol" \notin Names(ToSet(hdHead))

HeadsSound == ResetIffMalformed /\ ForwardedIsAsked /\ ProtocolNeverForwarded

(* Refuted: a request that names its authority in Host alone is accepted   *)
(* (h3_bridge.rs:461-466), and arrives without it.                         *)
HostArrives ==
  hdOutcome.kind = "forward" => \A sent \in Sent(hdOutcome.req) :
    Valued(ToSet(hdHead), "host") # {} /\ ":authority" \notin Names(ToSet(hdHead))
      => sent.host = Valued(ToSet(hdHead), "host")

(* Refuted: the length an HTTP/1.1 backend is told is the client's, not    *)
(* that of the body written.                                               *)
LengthIsWritten ==
  hdOutcome.kind = "forward" =>
    LET framing == HeadH1(hdOutcome.req, hdBody).framing
    IN  framing.kind = "length" => framing.length = hdBody

-----------------------------------------------------------------------------
(***************************************************************************)
(* How an upstream response is read and handed on as response events: the  *)
(* three readers of crates/lb-quic/src/h3_bridge.rs (stream_h1_response,   *)
(* stream_h2_response and the event loop of stream_request_to_h3_upstream) *)
(* and the two sinks of the last one (H3RespOut::Wire for an HTTP/3 front, *)
(* Decoded for an HTTP/1.1 or HTTP/2 front).                               *)
(*                                                                         *)
(* A response is a head, body units, optional trailers and an end; behind  *)
(* an interim head (1xx) the final head is more of the same connection.    *)
(* Field sections count one unit towards the cap per field.  The channel   *)
(* behind the sink is modelled by whether its receiver is still there; its *)
(* bound is the subject of H3RespEgress.                                   *)
(***************************************************************************)

CONSTANTS RespCap,   \* MAX_RESPONSE_BODY_BYTES, in units
          MaxUnits,  \* bound: body units a backend sends
          Protocols, \* readers: "H1", "H2", "H3"
          Sinks      \* "wire" and "decoded"

VARIABLES rrProto, rrSink,
  rrAsk,     \* the request was a HEAD
  rrHead,    \* the backend's head: status class, length, chunked, fields
  rrSent,    \* body units the backend has sent
  rrTrail,   \* the trailers it has sent: none, plain or pseudo
  rrEnd,     \* open, fin or reset
  rrAt,      \* reader: head, body, done
  rrRead,    \* body units taken from the backend
  rrTotal,   \* units counted towards the cap
  rrOut,     \* events: status, fields, body units, trailers, terminals
  rrGone,    \* the receiver was dropped
  rrParked   \* the upstream connection was given back as reusable

respVars == <<rrProto, rrSink, rrAsk, rrHead, rrSent, rrTrail, rrEnd, rrAt, rrRead,
              rrTotal, rrOut, rrGone, rrParked>>
rrBackend == <<rrProto, rrSink, rrAsk, rrHead, rrSent, rrTrail, rrEnd>>

\* A response head: its status (interim, nobody: 204 and 304, or final), a
\* content-length, chunked coding (HTTP/1.1), and its other fields.
Heads ==
  [status : {"interim", "nobody", "final"}, length : {{}, {0}, {1}, {2}},
   chunked : BOOLEAN, fields : SUBSET {"x", "hop"}]

RespInit ==
  /\ rrProto \in Protocols /\ rrSink \in (IF rrProto = "H3" THEN Sinks ELSE {"wire"})
  /\ rrAsk \in BOOLEAN
  /\ rrHead \in {h \in Heads : /\ h.chunked => rrProto = "H1"
                               /\ h.status # "final" => h.fields = {} /\ ~h.chunked
                               /\ h.status = "interim" => h.length = {} /\ rrProto # "H2"}
  /\ rrSent = 0 /\ rrTrail = "none" /\ rrEnd = "open"
  /\ rrAt = "head" /\ rrRead = 0 /\ rrTotal = 0 /\ rrGone = FALSE /\ rrParked = FALSE
  /\ rrOut = [heads |-> 0, fields |-> {}, body |-> 0, trailers |-> FALSE, ends |-> 0, resets |-> 0]
----------------------------------------------------------------------------
(* The backend and the client (external).                                  *)

Bodiless == rrAsk \/ rrHead.status \in {"nobody", "interim"}

\* Behind an interim head an HTTP/1.1 connection carries the final response.
BackendBody ==
  /\ rrEnd = "open" /\ rrTrail = "none" /\ rrSent < MaxUnits
  /\ ~Bodiless \/ (rrHead.status = "interim" /\ rrProto = "H1")
  /\ rrSent' = rrSent + 1
  /\ UNCHANGED <<rrProto, rrSink, rrAsk, rrHead, rrTrail, rrEnd, rrAt, rrRead, rrTotal, rrOut,
                 rrGone, rrParked>>

\* HTTP/1.1 has trailers only in the chunked coding; over HTTP/3 the head
\* behind an interim one is a section with a pseudo-header.
BackendTrails ==
  /\ rrEnd = "open" /\ rrTrail = "none"
  /\ \/ ~Bodiless /\ (rrProto = "H1" => rrHead.chunked) /\ rrTrail' = "plain"
     \/ rrHead.status = "interim" /\ rrProto = "H3" /\ rrTrail' = "pseudo"
  /\ UNCHANGED <<rrProto, rrSink, rrAsk, rrHead, rrSent, rrEnd, rrAt, rrRead, rrTotal, rrOut,
                 rrGone, rrParked>>

\* The HTTP/2 library refuses a body that does not match its length.
BackendStops ==
  /\ rrEnd = "open"
  /\ rrEnd' \in {"fin", "reset"}
  /\ rrProto = "H2" /\ rrEnd' = "fin" /\ ~Bodiless => rrHead.length \subseteq {rrSent}
  /\ UNCHANGED <<rrProto, rrSink, rrAsk, rrHead, rrSent, rrTrail, rrAt, rrRead, rrTotal, rrOut,
                 rrGone, rrParked>>

ClientLeaves ==
  /\ ~rrGone /\ rrGone' = TRUE
  /\ UNCHANGED <<rrBackend, rrAt, rrRead, rrTotal, rrOut, rrParked>>
----------------------------------------------------------------------------
(* The sinks.  A send on a closed channel is RespAbort::ClientGone.        *)

Counted(n) == IF rrSink = "wire" THEN n ELSE 0
IsResponseHopByHop(field) == field = "hop"
Emit(f) == rrOut' = IF rrGone THEN rrOut ELSE f
Reset == [rrOut EXCEPT !.resets = @ + 1]
TwoResets == [rrOut EXCEPT !.resets = @ + 2]

\* The fields of the head that go on: the wire strips hop-by-hop fields,
\* the decoded sink leaves that to its front.
Forwarded ==
  (IF rrSink = "wire" THEN {f \in rrHead.fields : ~IsResponseHopByHop(f)} ELSE rrHead.fields)
  \cup (IF rrHead.length = {} THEN {} ELSE {"content-length"})

\* Leaving the reader; only stream_request_to_h3_upstream's early return on
\* a failed on_head leaves the pooled connection marked reusable.
Leave(parked) == rrAt' = "done" /\ rrParked' = parked

\* Finished with less body than declared, for a response that has a body.
Underrun == \E n \in rrHead.length : ~Bodiless /\ rrRead < n

\* The head of the response, and the framing decided from it.
ReadHead ==
  /\ rrAt = "head"
  /\ LET refused == rrProto = "H1" /\ rrHead.chunked /\ rrHead.length # {}
         total == Counted(Cardinality(Forwarded))
     IN  IF refused \/ total > RespCap
           THEN /\ Emit(Reset) /\ Leave(rrProto = "H3")
                /\ UNCHANGED rrTotal
         ELSE IF rrGone
           THEN Leave(rrProto = "H3") /\ UNCHANGED <<rrOut, rrTotal>>
         ELSE /\ rrOut' = [rrOut EXCEPT !.heads = @ + 1, !.fields = Forwarded]
              /\ rrTotal' = total /\ rrAt' = "body" /\ UNCHANGED rrParked
  /\ UNCHANGED <<rrBackend, rrRead, rrGone>>

\* RespFraming::ContentLength; and the units it leaves to read.
LengthFramed == rrProto = "H1" /\ ~rrHead.chunked /\ rrHead.length # {}
Wanted == IF LengthFramed THEN CHOOSE n \in rrHead.length : TRUE ELSE MaxUnits

\* emit_data!, on_data: over the cap the relay ends; the event loop sends a
\* second Reset on its way out.
ReadBody ==
  /\ rrAt = "body" /\ rrRead < rrSent /\ rrRead < Wanted
  /\ rrRead' = rrRead + 1
  /\ IF rrTotal + 1 > RespCap
       THEN Emit(IF rrProto = "H3" THEN TwoResets ELSE Reset) /\ Leave(FALSE)
     ELSE IF rrGone THEN Leave(FALSE) /\ UNCHANGED rrOut
     ELSE rrOut' = [rrOut EXCEPT !.body = @ + 1] /\ UNCHANGED <<rrAt, rrParked>>
  /\ rrTotal' = rrTotal + 1
  /\ UNCHANGED <<rrBackend, rrGone>>

\* Body bytes read along with an HTTP/1.1 head that are more than its length.
SurplusWithHead ==
  /\ rrProto = "H1" /\ rrAt = "body" /\ rrRead = 0 /\ rrSent > Wanted
  /\ Emit(Reset) /\ Leave(FALSE)
  /\ UNCHANGED <<rrBackend, rrRead, rrTotal, rrGone>>

\* on_trailers; an HTTP/3 section with a pseudo-header ends the response.
ReadTrailers ==
  /\ rrAt = "body" /\ rrRead = rrSent /\ rrTrail # "none" /\ ~rrOut.trailers
  /\ IF rrTrail = "pseudo" \/ rrTotal + Counted(1) > RespCap
       THEN Emit(IF rrProto = "H3" THEN TwoResets ELSE Reset) /\ Leave(FALSE) /\ UNCHANGED rrTotal
     ELSE IF rrGone THEN Leave(FALSE) /\ UNCHANGED <<rrOut, rrTotal>>
     ELSE /\ rrOut' = [rrOut EXCEPT !.trailers = TRUE]
          /\ rrTotal' = rrTotal + Counted(1) /\ UNCHANGED <<rrAt, rrParked>>
  /\ UNCHANGED <<rrBackend, rrRead, rrGone>>

\* The reader needs no more of the backend: the length is reached, or the
\* coding or the stream has ended.
Finished ==
  IF LengthFramed THEN rrRead = Wanted
  ELSE rrRead = rrSent /\ rrEnd = "fin" /\ (rrTrail # "none" => rrOut.trailers)

ReadEnd ==
  /\ rrAt = "body" /\ Finished /\ (rrProto = "H3" => ~Underrun)
  /\ Emit([rrOut EXCEPT !.ends = @ + 1]) /\ Leave(FALSE)
  /\ UNCHANGED <<rrBackend, rrRead, rrTotal, rrGone>>

\* A connection that ends before the head, a reset, and a clean end with
\* less than the head declared: never an End.
ReadAbort ==
  /\ \/ rrAt = "head" /\ rrEnd # "open" /\ rrSent = 0
     \/ rrAt = "body" /\ ~Finished /\ rrEnd = "reset"
     \/ rrAt = "body" /\ LengthFramed /\ rrRead = rrSent /\ rrRead < Wanted /\ rrEnd = "fin"
     \/ rrAt = "body" /\ rrProto = "H3" /\ Finished /\ Underrun
  /\ Emit(Reset) /\ Leave(FALSE)
  /\ UNCHANGED <<rrBackend, rrRead, rrTotal, rrGone>>

\* H3_RESP_IDLE_TIMEOUT: the loop falls through without an end.
IdleDeadline ==
  /\ rrProto = "H3" /\ rrAt \in {"head", "body"} /\ rrEnd = "open"
  /\ Emit(Reset) /\ Leave(FALSE)
  /\ UNCHANGED <<rrBackend, rrRead, rrTotal, rrGone>>

RespNext ==
  \/ BackendBody \/ BackendTrails \/ BackendStops \/ ClientLeaves
  \/ ReadHead \/ ReadBody \/ SurplusWithHead \/ ReadTrailers \/ ReadEnd \/ ReadAbort
  \/ IdleDeadline
----------------------------------------------------------------------------
(* A response that ends cleanly is whole: all the backend sent of it, its  *)
(* trailers included, and no less than the length it declared.             *)
EndIsWhole ==
  rrOut.ends > 0 =>
    /\ rrOut.ends = 1 /\ rrOut.resets = 0 /\ rrOut.heads = 1
    /\ rrOut.body = rrRead /\ (rrTrail # "none" => rrOut.trailers \/ rrRead < rrSent)
    /\ Bodiless \/ \A n \in rrHead.length : rrOut.body >= n
    /\ rrOut.body = rrSent \/ rrHead.length = {rrOut.body}

(* Nothing but events of one response is sent: a head before anything of   *)
(* the body, no body after trailers or a terminal, never End after Reset.  *)
EventsInOrder ==
  /\ rrOut.heads <= 1 /\ rrOut.ends + (IF rrOut.resets > 0 THEN 1 ELSE 0) <= 1
  /\ rrOut.body > 0 \/ rrOut.trailers \/ rrOut.ends > 0 => rrOut.heads = 1

(* The cap bounds what is handed on: on the wire all of it, for a decoding *)
(* front the body.                                                         *)
RespCapHolds ==
  /\ rrOut.body <= RespCap
  /\ rrSink = "wire" => Cardinality(rrOut.fields) + rrOut.body
                        + (IF rrOut.trailers THEN 1 ELSE 0) <= RespCap

(* No connection-specific field is put on an HTTP/3 stream.                *)
NoHopOnWire == rrSink = "wire" => "hop" \notin rrOut.fields

RespReadSound == EndIsWhole /\ EventsInOrder /\ RespCapHolds /\ NoHopOnWire

(* Refuted, h3_bridge.rs:2926 "non-reusable on EVERY exit": an on_head that *)
(* fails returns before the mark.                                          *)
NeverParked == ~rrParked

(* Refuted: only the HTTP/3 reader knows that the answer to a HEAD, a 204  *)
(* or a 304 has no body whatever its length says; the HTTP/1.1 one waits   *)
(* for it, and takes the end of the connection for a truncation.           *)
BodilessEnds ==
  Bodiless /\ rrOut.heads = 1 /\ rrAt = "done" /\ rrEnd = "fin" /\ ~rrGone => rrOut.ends = 1

(* Refuted: the HTTP/1.1 reader takes an interim response for the final    *)
(* one, and what follows for its body.                                     *)
InterimIsNotFinal == rrHead.status = "interim" => rrOut.ends = 0

(* Refuted: more body than declared passes on HTTP/3 (only an under-run is *)
(* checked), and is cut or refused on HTTP/1.1 by how it was read.         *)
LengthExact ==
  rrOut.ends = 1 /\ ~Bodiless => \A n \in rrHead.length : rrOut.body = n

-----------------------------------------------------------------------------
(* The two incremental decoders of HTTP/1.1 chunked bodies: ChunkDecoder   *)
(* of lb-quic/src/h3_bridge.rs, which reads a backend's response, and      *)
(* ChunkedDecoder of lb-h1/src/chunked.rs with its encoder.  Both are fed  *)
(* the same wire in the same pieces; a piece may end anywhere.             *)
(*                                                                         *)
(* A byte is a member of Bytes: a hex digit, "x" (any other text), "sp"    *)
(* and "+", the separators, "cr" and "lf".                                 *)

CONSTANTS
  MaxSizeLine,      \* MAX_CHUNK_SIZE_LINE
  MaxTrailers,      \* MAX_TRAILER_SECTION
  MaxHexDigits,     \* 16 in parse_chunk_size_hex
  MaxHeaderBytes,   \* the limit given to parse_headers_with_limit
  Messages          \* [chunks, trailers]: what a sender encodes

VARIABLES
  ckMessage,        \* the message on the wire, of at most one element
  ckWire,           \* its bytes, or those of a damaged one
  ckFed,            \* how many were fed
  ckBridge,         \* ChunkDecoder
  ckStrict          \* ChunkedDecoder

chunkVars == <<ckMessage, ckWire, ckFed, ckBridge, ckStrict>>

Digits == "0" :> 0 @@ "1" :> 1 @@ "2" :> 2
Bytes == DOMAIN Digits \cup {"x", "sp", "+", ";", ":", "cr", "lf"}
Crlf == <<"cr", "lf">>

Drop(s, n) == SubSeq(s, n + 1, Len(s))

\* The index of the first line end; 0 when there is none.
FindCrlf(s) ==
  LET at == {i \in 1 .. Len(s) - 1 : SubSeq(s, i, i + 1) = Crlf}
  IN IF at = {} THEN 0 ELSE Min(at)

FindDoubleCrlf(s) ==
  LET at == {i \in 1 .. Len(s) - 3 : SubSeq(s, i, i + 3) = Crlf \o Crlf}
  IN IF at = {} THEN 0 ELSE Min(at)

Hex(s) == FoldLeft(LAMBDA n, c : 16 * n + Digits[c], 0, s)
AllDigits(s) == s # <<>> /\ \A i \in DOMAIN s : s[i] \in DOMAIN Digits

\* What stands before the first separator `c`, or everything.
Before(s, c) ==
  LET at == {i \in DOMAIN s : s[i] = c} IN IF at = {} THEN s ELSE SubSeq(s, 1, Min(at) - 1)

Trimmed(s) ==
  LET kept == {i \in DOMAIN s : s[i] # "sp"}
  IN IF kept = {} THEN <<>> ELSE SubSeq(s, Min(kept), Max(kept))

-----------------------------------------------------------------------------
(* ChunkedEncoder.                                                          *)

Encode(chunk) == IF chunk = <<>> THEN <<>> ELSE <<ToString(Len(chunk))>> \o Crlf \o chunk \o Crlf

Finish(trailers) ==
  <<"0">> \o Crlf \o FoldLeft(LAMBDA s, t : s \o t[1] \o <<":">> \o t[2] \o Crlf, <<>>, trailers) \o Crlf

Encoded(m) == FoldLeft(LAMBDA s, c : s \o Encode(c), <<>>, m.chunks) \o Finish(m.trailers)

-----------------------------------------------------------------------------
(* ChunkDecoder.  Each step returns its argument when it must wait.         *)

NewBridge ==
  [buf |-> <<>>, inChunk |-> {}, done |-> FALSE, complete |-> FALSE, err |-> FALSE,
   trailerBuf |-> <<>>, trailers |-> <<>>, out |-> <<>>]

Fail(d) == [d EXCEPT !.err = TRUE]

\* The hex digits of a size line, to the separator, trimmed; a sign passes.
BridgeSize(line) ==
  LET hex == Trimmed(Before(line, ";"))
      digits == IF hex # <<>> /\ hex[1] = "+" THEN Tail(hex) ELSE hex
  IN IF AllDigits(digits) THEN {Hex(digits)} ELSE {}

BridgeSizeLine(d) ==
  LET nl == FindCrlf(d.buf)
      size == BridgeSize(SubSeq(d.buf, 1, nl - 1))
      next == [d EXCEPT !.buf = Drop(@, nl + 1)]
  IN CASE nl = 0 -> IF Len(d.buf) > MaxSizeLine THEN Fail(d) ELSE d
       [] nl > 0 /\ (nl - 1 > MaxSizeLine \/ size = {}) -> Fail(d)
       [] nl > 0 /\ nl - 1 <= MaxSizeLine /\ size = {0} -> [next EXCEPT !.done = TRUE]
       [] OTHER -> [next EXCEPT !.inChunk = size]

BridgeChunk(d, left) ==
  LET take == IF Len(d.buf) < left THEN Len(d.buf) ELSE left IN
  CASE left = 0 /\ Len(d.buf) < 2 -> d
    [] left = 0 /\ Len(d.buf) >= 2 ->
         IF SubSeq(d.buf, 1, 2) = Crlf THEN [d EXCEPT !.buf = Drop(@, 2), !.inChunk = {}] ELSE Fail(d)
    [] OTHER -> [d EXCEPT !.out = @ \o SubSeq(d.buf, 1, take), !.buf = Drop(@, take), !.inChunk = {left - take}]

\* parse_trailer_section, one line.
BridgeTrailer(d) ==
  LET all == d.trailerBuf \o d.buf
      nl == FindCrlf(all)
      line == SubSeq(all, 1, nl - 1)
      name == Trimmed(Before(line, ":"))
      held == [d EXCEPT !.trailerBuf = Drop(all, nl + 1), !.buf = <<>>]
  IN CASE Len(all) > MaxTrailers /\ d.buf # <<>> -> Fail(d)
       [] (Len(all) <= MaxTrailers \/ d.buf = <<>>) /\ nl = 0 ->
            [d EXCEPT !.trailerBuf = all, !.buf = <<>>]
       [] (Len(all) <= MaxTrailers \/ d.buf = <<>>) /\ nl = 1 -> [held EXCEPT !.complete = TRUE]
       [] OTHER -> IF ":" \notin Range(line) \/ name = <<>> THEN Fail(d)
                   ELSE [held EXCEPT !.trailers =
                           Append(@, <<name, Trimmed(Drop(line, Len(Before(line, ":")) + 1))>>)]

BridgeStep(d) ==
  CASE d.err \/ d.complete -> d
    [] ~(d.err \/ d.complete) /\ d.done -> BridgeTrailer(d)
    [] ~(d.err \/ d.done) /\ d.inChunk = {} -> BridgeSizeLine(d)
    [] OTHER -> BridgeChunk(d, CHOOSE left \in d.inChunk : TRUE)

\* feed runs the loop until it waits.
RECURSIVE BridgeLoop(_)
BridgeLoop(d) == LET next == BridgeStep(d) IN IF next = d THEN d ELSE BridgeLoop(next)

BridgeFeed(d, piece) == BridgeLoop([d EXCEPT !.buf = @ \o piece])

-----------------------------------------------------------------------------
(* ChunkedDecoder.                                                          *)

NewStrict ==
  [buf |-> <<>>, state |-> "size", remaining |-> 0, err |-> FALSE, trailers |-> <<>>, out |-> <<>>]

StrictSize(line) ==
  LET hex == Before(line, ";")
  IN IF AllDigits(hex) /\ Len(hex) <= MaxHexDigits THEN {Hex(hex)} ELSE {}

StrictSizeLine(d) ==
  LET nl == FindCrlf(d.buf)
      size == StrictSize(SubSeq(d.buf, 1, nl - 1))
  IN CASE nl = 0 -> d
       [] nl > 0 /\ size = {} -> Fail(d)
       [] OTHER -> [d EXCEPT !.buf = Drop(@, nl + 1), !.remaining = Max(size),
                             !.state = IF size = {0} THEN "trailers" ELSE "data"]

StrictData(d) ==
  LET take == IF Len(d.buf) < d.remaining THEN Len(d.buf) ELSE d.remaining
  IN IF d.remaining = 0 THEN [d EXCEPT !.state = "crlf"]
     ELSE [d EXCEPT !.out = @ \o SubSeq(d.buf, 1, take), !.buf = Drop(@, take), !.remaining = @ - take]

StrictCrlf(d) ==
  CASE Len(d.buf) < 2 -> d
    [] Len(d.buf) >= 2 /\ SubSeq(d.buf, 1, 2) = Crlf -> [d EXCEPT !.buf = Drop(@, 2), !.state = "size"]
    [] OTHER -> Fail(d)

IsToken(name) == name # <<>> /\ \A i \in DOMAIN name : name[i] \in DOMAIN Digits \cup {"x", "+"}

\* One line of the block before the blank line: a name that is a token, and a colon.
TrailerLine(line) ==
  LET name == Before(line, ":") IN
  IF ":" \in Range(line) /\ IsToken(name)
  THEN {<<name, Trimmed(Drop(line, Len(name) + 1))>>} ELSE {}

RECURSIVE TrailerBlock(_)
TrailerBlock(block) ==
  IF block = <<>> THEN {<<>>}
  ELSE LET nl == FindCrlf(block) IN
       {<<first>> \o rest : first \in TrailerLine(SubSeq(block, 1, nl - 1)), rest \in TrailerBlock(Drop(block, nl + 1))}

StrictTrailers(d) ==
  LET end == FindDoubleCrlf(d.buf)
      parsed == TrailerBlock(SubSeq(d.buf, 1, end + 1))
  IN CASE Len(d.buf) < 2 -> d
       [] Len(d.buf) >= 2 /\ SubSeq(d.buf, 1, 2) = Crlf -> [d EXCEPT !.buf = Drop(@, 2), !.state = "done"]
       [] Len(d.buf) >= 2 /\ SubSeq(d.buf, 1, 2) # Crlf /\ end = 0 -> d
       [] OTHER -> IF parsed = {} THEN Fail(d)
                   ELSE [d EXCEPT !.trailers = CHOOSE t \in parsed : TRUE,
                                  !.buf = Drop(@, end + 3), !.state = "done"]

StrictStep(d) ==
  CASE d.err \/ d.state = "done" -> d
    [] ~d.err /\ d.state = "size" -> StrictSizeLine(d)
    [] ~d.err /\ d.state = "data" -> StrictData(d)
    [] ~d.err /\ d.state = "crlf" -> StrictCrlf(d)
    [] ~d.err /\ d.state = "trailers" -> StrictTrailers(d)

RECURSIVE StrictLoop(_)
StrictLoop(d) == LET next == StrictStep(d) IN IF next = d THEN d ELSE StrictLoop(next)

StrictFeed(d, piece) == StrictLoop([d EXCEPT !.buf = @ \o piece])

-----------------------------------------------------------------------------
(* parse_headers_with_limit, which is called again with a longer buffer.    *)

ParseHeaders(buf) ==
  LET end == FindDoubleCrlf(buf)
      parsed == TrailerBlock(SubSeq(buf, 1, end + 1))
  IN CASE end = 0 -> [verdict |-> IF Len(buf) > MaxHeaderBytes THEN "too large" ELSE "incomplete", fields |-> {}]
       [] end > 0 /\ end + 3 > MaxHeaderBytes -> [verdict |-> "too large", fields |-> {}]
       [] OTHER -> [verdict |-> IF parsed = {} THEN "invalid" ELSE "ok", fields |-> parsed]

-----------------------------------------------------------------------------

\* A wire is what a sender encodes, or that with one byte changed or left out.
Damaged(wire) ==
  {ReplaceAt(wire, i, b) : i \in DOMAIN wire, b \in Bytes} \cup {RemoveAt(wire, i) : i \in DOMAIN wire}

ChunkInit ==
  /\ \E m \in Messages :
       \/ ckMessage = {m} /\ ckWire = Encoded(m)
       \/ ckMessage = {} /\ ckWire \in Damaged(Encoded(m))
  /\ ckFed = 0 /\ ckBridge = NewBridge /\ ckStrict = NewStrict

\* One read of the socket.  A decoder that failed or is complete is not fed again.
Read(n) ==
  /\ ckFed + n <= Len(ckWire)
  /\ LET piece == SubSeq(ckWire, ckFed + 1, ckFed + n) IN
       /\ ckBridge' = IF ckBridge.err \/ ckBridge.complete THEN ckBridge ELSE BridgeFeed(ckBridge, piece)
       /\ ckStrict' = IF ckStrict.err \/ ckStrict.state = "done" THEN ckStrict ELSE StrictFeed(ckStrict, piece)
  /\ ckFed' = ckFed + n
  /\ UNCHANGED <<ckMessage, ckWire>>

ChunkNext == \E n \in 1 .. Len(ckWire) : Read(n)

-----------------------------------------------------------------------------

Seen == SubSeq(ckWire, 1, ckFed)
BridgeResult(d) == [out |-> d.out, trailers |-> d.trailers, err |-> d.err, complete |-> d.complete]
StrictResult(d) == [out |-> d.out, trailers |-> d.trailers, err |-> d.err, complete |-> d.state = "done"]

\* One of the bridge's two limits is within reach of a line, or of what follows the
\* last chunk.
AtLimit ==
  \/ \E i \in 1 .. Len(ckWire) - MaxSizeLine : FindCrlf(SubSeq(ckWire, i, i + MaxSizeLine)) = 0
  \/ \E i \in 1 .. Len(ckWire) - MaxTrailers - 3 : SubSeq(ckWire, i, i + 2) = <<"0">> \o Crlf

\* How the wire is cut into reads makes no difference: after every read the decoder
\* has what it would have after one read of everything so far.
PiecesDoNotMatter ==
  /\ AtLimit \/ BridgeResult(ckBridge) = BridgeResult(BridgeFeed(NewBridge, Seen))
  /\ StrictResult(ckStrict) = StrictResult(StrictFeed(NewStrict, Seen))

\* What the encoder wrote is read back, whole and no earlier than its last byte.
RoundTrip ==
  \A m \in ckMessage :
    \A r \in {StrictResult(ckStrict)} \cup (IF AtLimit THEN {} ELSE {BridgeResult(ckBridge)}) :
      /\ ~r.err /\ IsPrefix(r.out, FlattenSeq(m.chunks))
      /\ r.complete <=> ckFed = Len(ckWire)
      /\ r.complete => r.out = FlattenSeq(m.chunks) /\ r.trailers = m.trailers

\* Of a damaged wire too: what the strict decoder takes for a complete body, the
\* other takes for the same.
StrictAgrees ==
  (StrictResult(ckStrict).complete /\ ~AtLimit) => BridgeResult(ckBridge) = StrictResult(ckStrict)

\* What follows the last chunk, as far as it was fed.
Section ==
  LET at == {i \in 1 .. Len(ckWire) - 2 : SubSeq(ckWire, i, i + 2) = <<"0">> \o Crlf}
  IN IF at = {} THEN <<>> ELSE SubSeq(ckWire, Max(at) + 3, ckFed)

\* A verdict of the header parser stands however much more arrives, and on a
\* trailer section it is the strict decoder's.
HeadersStable ==
  /\ \A n \in 0 .. Len(Section) :
       ParseHeaders(SubSeq(Section, 1, n)).verdict # "incomplete" =>
         ParseHeaders(Section) = ParseHeaders(SubSeq(Section, 1, n))
  /\ (ckMessage # {} /\ ckStrict.trailers # <<>> /\ ParseHeaders(Section).verdict # "too large") =>
       ParseHeaders(Section).fields = {ckStrict.trailers}

ChunkedSound == PiecesDoNotMatter /\ RoundTrip /\ StrictAgrees /\ HeadersStable

\* Refuted: without the exception.  A size line of exactly the limit is refused if a
\* read ends between its CR and its LF, and a trailer section over the limit is
\* refused only if it comes in one read.
LimitsDoNotMatter ==
  BridgeResult(ckBridge) = BridgeResult(BridgeFeed(NewBridge, Seen))

\* Refuted: the bridge trims a size and takes a sign before it.
BridgeAgrees ==
  BridgeResult(ckBridge).complete => StrictResult(ckStrict).complete
=============================================================================
