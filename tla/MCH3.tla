-------------------------------- MODULE MCH3 --------------------------------
(***************************************************************************)
(* One HTTP/3 connection: the head of a request and its body on their way  *)
(* upstream, an upstream response being read, chunked or not, and on its   *)
(* way to the client, a WebSocket tunnel, and the recycling of the         *)
(* connection at its request cap.  They share no state here, so a          *)
(* behaviour runs one of them (subject) and leaves the others alone.       *)
(***************************************************************************)
EXTENDS H3ReqBody, H3Recycle

CONSTANTS Cap, MaxChunks, Kinds, MaxIn, MaxOut,
  MaxSizeLine, MaxTrailers, MaxHexDigits, MaxHeaderBytes,
  Bodies, RespCap, MaxUnits, Protocols, Sinks

ASSUME CapAssumption == Cap \in Nat \ {0}
ASSUME KindsAssumption == Kinds \subseteq {"H1", "H2", "H3", "inline"}

VARIABLES subject,
  kind, bSent, bTrail, bEnd, prod, read, chHead, chBody, chTrail, chTerm,
  rx, tx, item, ended, reset, wnd, cHead, cGot, respEnd, stop,
  wsSent, wsEnd, wsUnread, wsGot, cFin, head200, wsWnd, stage, toReader, inQ, inTerm,
  outQ, outPend, relay, verdict, rGot, rEnd, rSent,
  ckMessage, ckWire, ckFed, ckBridge, ckStrict,
  hdHead, hdBody, hdWs, hdOutcome,
  rrProto, rrSink, rrAsk, rrHead, rrSent, rrTrail, rrEnd, rrAt, rrRead, rrTotal, rrOut,
  rrGone, rrParked

(* Bodies for the chunked coding: empty, of two chunks, of chunks that     *)
(* look like framing, with one trailer and with two.                       *)
MCMessages ==
  { [chunks |-> <<>>, trailers |-> <<>>],
    [chunks |-> <<<<"x", "x">>, <<"0", "cr">>>>, trailers |-> <<>>],
    [chunks |-> <<<<"cr", "lf">>, <<>>, <<"lf">>>>, trailers |-> <<<<<<"x">>, <<"x">>>>>>],
    [chunks |-> <<<<"2">>>>, trailers |-> <<<<<<"x">>, <<>>>>, <<<<"x">>, <<"x">>>>>>] }

Resp == INSTANCE H3RespEgress WITH cEnd <- respEnd
Tunnel == INSTANCE WsTunnel WITH
  cSent <- wsSent, cEnd <- wsEnd, cGot <- wsGot, wnd <- wsWnd, unread <- wsUnread
Bridge == INSTANCE H3Bridge WITH Messages <- MCMessages

response == <<kind, bSent, bTrail, bEnd, prod, read, chHead, chBody, chTrail, chTerm,
              rx, tx, item, ended, reset, wnd, cHead, cGot, respEnd, stop>>
tunnel == <<wsSent, wsEnd, wsUnread, wsGot, cFin, head200, wsWnd, stage, toReader, inQ, inTerm,
            outQ, outPend, relay, verdict, rGot, rEnd, rSent>>
chunked == <<ckMessage, ckWire, ckFed, ckBridge, ckStrict>>
heads == <<hdHead, hdBody, hdWs, hdOutcome>>
reading == <<rrProto, rrSink, rrAsk, rrHead, rrSent, rrTrail, rrEnd, rrAt, rrRead, rrTotal, rrOut,
             rrGone, rrParked>>
mcVars == <<subject, vars, response, tunnel, recycleVars, chunked, heads, reading>>

MCInit ==
  /\ subject \in {"request", "response", "tunnel", "recycle", "chunked", "heads", "reading"}
  /\ Init /\ (subject # "request" => cell = "H1")
  /\ Resp!Init /\ (subject # "response" => kind = "H1")
  /\ Tunnel!Init
  /\ RecycleInit /\ (subject # "recycle" => ctrl)
  /\ IF subject = "chunked" THEN Bridge!ChunkInit
     ELSE ckMessage = <<>> /\ ckWire = <<>> /\ ckFed = 0 /\ ckBridge = <<>> /\ ckStrict = <<>>
  /\ IF subject = "heads" THEN Bridge!HeadInit
     ELSE hdHead = <<>> /\ hdBody = 0 /\ hdWs = "off" /\ hdOutcome = <<>>
  /\ IF subject = "reading" THEN Bridge!RespInit
     ELSE /\ rrProto = "H1" /\ rrSink = "wire" /\ rrAsk = FALSE /\ rrHead = <<>> /\ rrSent = 0
          /\ rrTrail = "none" /\ rrEnd = "open" /\ rrAt = "head" /\ rrRead = 0 /\ rrTotal = 0
          /\ rrOut = <<>> /\ rrGone = FALSE /\ rrParked = FALSE

Others(chosen) ==
  /\ UNCHANGED subject
  /\ chosen # "request" => UNCHANGED vars
  /\ chosen # "response" => UNCHANGED response
  /\ chosen # "tunnel" => UNCHANGED tunnel
  /\ chosen # "recycle" => UNCHANGED recycleVars
  /\ chosen # "chunked" => UNCHANGED chunked
  /\ chosen # "heads" => UNCHANGED heads
  /\ chosen # "reading" => UNCHANGED reading

OnRequest(A) == subject = "request" /\ A /\ Others("request")
OnResponse(A) == subject = "response" /\ A /\ Others("response")
OnTunnel(A) == subject = "tunnel" /\ A /\ Others("tunnel")
OnRecycle(A) == subject = "recycle" /\ A /\ Others("recycle")
OnChunked(A) == subject = "chunked" /\ A /\ Others("chunked")
OnHeads(A) == subject = "heads" /\ A /\ Others("heads")
OnReading(A) == subject = "reading" /\ A /\ Others("reading")

MCNext ==
  OnRequest(Next) \/ OnResponse(Resp!Next) \/ OnTunnel(Tunnel!Next) \/ OnRecycle(RecycleNext)
  \/ OnChunked(Bridge!ChunkNext) \/ OnHeads(Bridge!HeadNext) \/ OnReading(Bridge!RespNext)

(* The actor ticks, the runtime schedules the tasks, the client reads both *)
(* its streams and its control stream, and uploads and responses end.      *)
MCFairness ==
  /\ WF_vars(subject = "request" /\ Actor) /\ WF_vars(subject = "request" /\ Upstream)
  /\ WF_response(subject = "response" /\ Resp!Producer) /\ WF_response(subject = "response" /\ Resp!Actor)
  /\ WF_response(subject = "response" /\ Resp!WindowOpens)
  /\ WF_tunnel(subject = "tunnel" /\ Tunnel!Actor) /\ WF_tunnel(subject = "tunnel" /\ Tunnel!RelayHandshake)
  /\ WF_tunnel(subject = "tunnel" /\ Tunnel!RelayEnds) /\ WF_tunnel(subject = "tunnel" /\ Tunnel!WindowOpens)
  /\ WF_recycleVars(subject = "recycle" /\ RetryGoaway) /\ WF_recycleVars(subject = "recycle" /\ CtrlOpens)
  /\ WF_recycleVars(subject = "recycle" /\ Recycle)
  /\ \A s \in Streams : /\ WF_recycleVars(subject = "recycle" /\ BodyEnds(s))
                        /\ WF_recycleVars(subject = "recycle" /\ ResponseEnds(s))

MCSpec == MCInit /\ [][MCNext]_mcVars /\ MCFairness

(* A client that sees the end of a response has all of it, and a relay     *)
(* that sees the end of a tunnel's input has all of it, with nothing lost  *)
(* to backpressure (drain_resp_channels, ws_drain_inbound).  Before that,  *)
(* a backend's response is read as what it is however its bytes arrive     *)
(* (ChunkDecoder, stream_h1_response and its HTTP/2 and HTTP/3 cousins),   *)
(* and the request it answers is the one the client made, never one of     *)
(* defaults (validate_request_pseudo_headers, H3Request::from_headers).    *)
EndsAreWhole ==
  /\ TypeOK /\ RecycleTypeOK
  /\ Resp!TypeOK /\ Resp!FinHasAllData /\ Tunnel!TypeOK /\ Tunnel!InboundWhole
  /\ subject = "chunked" => Bridge!ChunkedSound
  /\ subject = "reading" => Bridge!RespReadSound
  /\ subject = "heads" => Bridge!HeadsSound

(* The request towards the backend, and the response and the tunnel        *)
(* towards the client, are pipes: a prefix of what the source wrote, and a *)
(* clean end only after the whole of it.                                   *)
StreamsArePipes ==
  /\ Pipe!PipeInit /\ Resp!Pipe!PipeInit /\ Tunnel!Outbound!PipeInit
  /\ [][ /\ Pipe!PipeNext \/ UNCHANGED Pipe!pipeVars
         /\ Resp!Pipe!PipeNext \/ UNCHANGED Resp!Pipe!pipeVars
         /\ Tunnel!Outbound!PipeNext \/ UNCHANGED Tunnel!Outbound!pipeVars ]_mcVars

(* A request that was sent or lost is let go, an answered one is released, *)
(* a tunnel removed, a connection at its cap recycled.                     *)
StreamsEnd ==
  /\ RequestSettles /\ Resp!ResponseReleased
  /\ subject = "tunnel" => Tunnel!TunnelReclaimed
  /\ CapRecycles
=============================================================================
