-------------------------------- MODULE MCL7 --------------------------------
(***************************************************************************)
(* The HTTP/1 and HTTP/2 front ends of lb-l7: the request leg of each of   *)
(* the six protocol pairs, the connection drivers, the decisions on a      *)
(* request's header fields, WebSocket, gRPC, the table of watched requests *)
(* and the rate detectors; and the codecs of header blocks and HTTP/2      *)
(* frames.  They share no state, so a behaviour runs one of them (subject) *)
(* and leaves the others alone.                                            *)
(***************************************************************************)
EXTENDS Integers, Sequences, FiniteSets, TLC

CONSTANTS LegDepth, LegCap,
          FcH1, FcH2, FcKeepAlive, FcThreshold, FcWindow, FcBudget, FcRequests, FcSends, FcTicks,
          FrMaxHeaders,
          WpClientFrames, WpBackendFrames, WpPings, WpWindow, WpTicks,
          Proxies, Watched, MaxRegistered, HeaderTimeout, LastTick,
          Threshold, Window, MinRate, StallAfter, LastInstant, MaxEvents,
          HourMs, MinuteMs, SecondMs, MicrosPerMs, NanosPerMs, WordMax, MaxDeadline,
          DeadlineDigits, DialMs,
          Overhead, Base, MaxShift, TableSizes, MaxBlocks,
          MaxFrameSize, MaxFrames

VARIABLES subject,
          legKind, legIn, legCall, legPump, legChan, legUp, legLeft,
          fcParent, fcConn, fcGlitch, fcIo, fcTerms, fcClock,
          frReq, frOut, frMsg,
          wpFront, wpAt, wpAnswer, wpHand, wpClosing, wpPeer, wpPingLog, wpClock,
          tick, connSeq, table, watch, swept,
          detector, instant, history, state, flagged,
          gcHeader, gcSent, gcAt, gcTimer, gcAnswer, gcCause, gcLink, gcNow,
          hpEnc, hpDec, hpWire, hpSent, hpGot, hpAt, hpBlocks, hpSetting,
          fmSent, fmWire, fmBuf, fmGot, fmErr

(* Prefixes of one or two bits, so that small numbers take several bytes.  *)
SamplePrefixMax ==
  [indexed |-> 3, incremental |-> 2, plain |-> 2, resize |-> 3, string |-> 1, qindexed |-> 1,
   qreference |-> 1, qname |-> 1, insert_count |-> 3, base |-> 2]
SampleTextLength == "" :> 0 @@ "m" :> 1 @@ "x" :> 1 @@ "v" :> 3
SampleStatic == <<[name |-> "m", value |-> ""]>>

Leg == INSTANCE RequestLeg
Front == INSTANCE Front
Ws == INSTANCE WsProxy
Slow == INSTANCE SlowClients
Grpc == INSTANCE GrpcProxy
Codec == INSTANCE H2Codec WITH PrefixMax <- SamplePrefixMax, TextLength <- SampleTextLength,
                               Static <- SampleStatic

leg == <<legKind, legIn, legCall, legPump, legChan, legUp, legLeft>>
conn == <<fcParent, fcConn, fcGlitch, fcIo, fcTerms, fcClock>>
verdict == <<frReq, frOut, frMsg>>
ws == <<wpFront, wpAt, wpAnswer, wpHand, wpClosing, wpPeer, wpPingLog, wpClock>>
watchdog == <<tick, connSeq, table, watch, swept>>
detectors == <<detector, instant, history, state, flagged>>
grpc == <<gcHeader, gcSent, gcAt, gcTimer, gcAnswer, gcCause, gcLink, gcNow>>
blocks == <<hpEnc, hpDec, hpWire, hpSent, hpGot, hpAt, hpBlocks, hpSetting>>
framing == <<fmSent, fmWire, fmBuf, fmGot, fmErr>>
vars == <<subject, leg, conn, verdict, ws, watchdog, detectors, grpc, blocks, framing>>

(* One initial state of each component stands beside the others' subjects. *)
Init ==
  /\ subject \in {"leg", "conn", "verdict", "ws", "watchdog", "detectors", "grpc", "blocks",
                 "framing"}
  /\ Leg!Init /\ (subject # "leg" => legKind = "h1h1")
  /\ Front!Init
  /\ IF subject = "verdict" THEN Front!VerdictInit
     ELSE frReq = <<>> /\ frOut = "none" /\ frMsg = Front!TooManyHeaders
  /\ Ws!Init /\ (subject # "ws" => wpFront = "h1")
  /\ Slow!WatchInit
  /\ Slow!DetectorInit /\ (subject # "detectors" => detector = "rate")
  /\ IF subject = "grpc" THEN Grpc!GrpcInit
     ELSE /\ gcHeader = <<>> /\ gcSent = <<>> /\ gcAt = "new" /\ gcTimer = <<>> /\ gcAnswer = <<>>
          /\ gcCause = "none" /\ gcLink = "none" /\ gcNow = 0
  /\ IF subject = "blocks" THEN Codec!HpackInit
     ELSE /\ hpEnc = <<>> /\ hpDec = <<>> /\ hpWire = <<>> /\ hpSent = <<>> /\ hpGot = <<>>
          /\ hpAt = "idle" /\ hpBlocks = 0 /\ hpSetting = 0
  /\ Codec!FrameInit

Others(chosen) ==
  /\ UNCHANGED subject
  /\ chosen # "leg" => UNCHANGED leg
  /\ chosen # "conn" => UNCHANGED conn
  /\ chosen # "verdict" => UNCHANGED verdict
  /\ chosen # "ws" => UNCHANGED ws
  /\ chosen # "watchdog" => UNCHANGED watchdog
  /\ chosen # "detectors" => UNCHANGED detectors
  /\ chosen # "grpc" => UNCHANGED grpc
  /\ chosen # "blocks" => UNCHANGED blocks
  /\ chosen # "framing" => UNCHANGED framing

Next ==
  \/ subject = "leg" /\ Leg!Next /\ Others("leg")
  \/ subject = "conn" /\ Front!Next /\ Others("conn")
  \/ subject = "verdict" /\ Front!VerdictNext /\ Others("verdict")
  \/ subject = "ws" /\ Ws!Next /\ Others("ws")
  \/ subject = "watchdog" /\ Slow!WatchNext /\ Others("watchdog")
  \/ subject = "detectors" /\ Slow!DetectorNext /\ Others("detectors")
  \/ subject = "grpc" /\ Grpc!GrpcNext /\ Others("grpc")
  \/ subject = "blocks" /\ Codec!HpackNext /\ Others("blocks")
  \/ subject = "framing" /\ Codec!FrameNext /\ Others("framing")

(* The tasks of a request leg, the backend and the client's total timer go *)
(* on; so do the driver of a connection, with its timers, and the relay.   *)
LegFairness ==
  /\ WF_leg(subject = "leg" /\ Leg!Pump)
  /\ WF_leg(subject = "leg" /\ Leg!Call)
  /\ WF_leg(subject = "leg" /\ Leg!Backend)
  /\ WF_leg(subject = "leg" /\ Leg!ClientLeaves)
ConnFairness == \A c \in FcH1 \cup FcH2 : WF_conn(subject = "conn" /\ Front!Driver(c))
GrpcFairness ==
  /\ WF_grpc(subject = "grpc" /\ Grpc!Elapse)
  /\ WF_grpc(subject = "grpc" /\ Grpc!Deadline)
RelayFairness == WF_ws(subject = "ws" /\ Ws!Relay)

(* A peer that stopped reading reads again: no timer of the proxy ends a   *)
(* write of a closing sequence.                                            *)
PeersRead == \A s \in {"client", "backend"} : WF_ws(subject = "ws" /\ Ws!PeerDrains(s))

Spec == Init /\ [][Next]_vars /\ LegFairness /\ ConnFairness /\ GrpcFairness
        /\ RelayFairness /\ PeersRead

(* The same with peers that may never read again.                          *)
WedgedSpec == Init /\ [][Next]_vars /\ RelayFairness

(* A request reaches the backend as complete only when it is, is answered  *)
(* for what it was, and is held in bounded memory (h1_proxy.rs,            *)
(* h2_proxy.rs: validate before relay).  A gRPC call has one deadline, is  *)
(* answered once for what happened, and leaves no backend link open        *)
(* (grpc_proxy.rs).                                                        *)
LegSound ==
  /\ Leg!TypeOK /\ Leg!CompleteIsComplete /\ Leg!AnswerJustified /\ Leg!BoundedWindow
  /\ subject = "grpc" => Grpc!GrpcSound

(* The connection drivers: the keep-alive cap is exact, requests in flight *)
(* are dropped only by a timer or the client, one connection's glitches    *)
(* drain that connection alone, and the close leaves nothing unread.  The  *)
(* watchdog forgets a request that answered, and a detector flags what was *)
(* really too much or too slow (watchdog.rs, security.rs, slowloris.rs).   *)
(* Both ends of a connection keep the same header table, and frames and    *)
(* header blocks arrive as they were sent (hpack.rs, qpack.rs, frame.rs).  *)
ConnSound ==
  /\ Front!TypeOK /\ Front!CapExact /\ Front!DropsHaveCause
  /\ Front!GlitchDrainLocal /\ Front!GlitchScoreExact /\ Front!ClosesCleanly
  /\ subject = "watchdog" => Slow!WatchdogSound
  /\ subject = "detectors" => Slow!DetectorsSound
  /\ subject = "blocks" => Codec!HpackSound
  /\ subject = "framing" => Codec!FramesSound

(* A request is forwarded only with one authority and one framing, and     *)
(* without a field that belongs to the connection.                         *)
VerdictSound ==
  subject = "verdict" =>
    /\ Front!VerdictTypeOK /\ Front!ForwardedIsSound /\ Front!RefusedOnlyWhenFull
    /\ Front!FrontsAgree /\ Front!AnswersAreClean

(* The client is switched to WebSocket only after the backend was, frames  *)
(* pass in order, and a Close gets through.                                *)
WsSound == Ws!TypeOK /\ Ws!NoEarlySwitch /\ Ws!RelayedInOrder /\ Ws!CloseDelivered

(* Requests are answered, pumps return, connections end, closing relays    *)
(* return, a gRPC call with a deadline is answered by it.                  *)
L7Ends ==
  /\ subject = "leg" => Leg!CallSettles /\ Leg!PumpReturns
  /\ subject = "conn" => Front!ConnEnds
  /\ Ws!ClosingEnds
  /\ subject = "grpc" => Grpc!StalledIsAnswered

(* Refuted on this instance.                                               *)
NeverTruncated == Leg!NeverTruncated
WedgedIsReclaimed == Ws!WedgedIsReclaimed
SmuggleIsGlitch == subject = "verdict" => Front!SmuggleIsGlitch
=============================================================================
