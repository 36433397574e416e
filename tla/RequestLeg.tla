----------------------------- MODULE RequestLeg -----------------------------
(***************************************************************************)
(* One request through the six cells of lb-l7 (h1_proxy.rs, h2_proxy.rs):  *)
(* the front protocol, then the backend's.  A cell may first look ahead a  *)
(* window of the body; what fits is validated before the backend is        *)
(* dialled.  A longer body is streamed by a pump task through a bounded    *)
(* channel, and the backend's answer is held until the pump's verdict.     *)
(* The cells towards HTTP/3 stream at once and hold nothing back.  The     *)
(* body is counted in chunks; the lookahead window is as deep as the       *)
(* channel.                                                                *)
(***************************************************************************)
EXTENDS Integers, Sequences

CONSTANTS LegDepth, LegCap

VARIABLES
  legKind,  \* the cell
  legIn,    \* the inbound body: chunks delivered, and how it stands
  legCall,  \* the proxying call (or its detached send task) and its answer
  legPump,  \* the pump: its place, chunks in hand, cause of an abort, verdict
  legChan,  \* the request-body channel
  legUp,    \* the backend: its view of the body, chunks, the response head
  legLeft   \* the client is gone

legVars == <<legKind, legIn, legCall, legPump, legChan, legUp, legLeft>>

ToH1 == {"h1h1", "h2h1"}
ToH2 == {"h1h2", "h2h2"}
ToH3 == {"h1h3", "h2h3"}
Cells == ToH1 \cup ToH2 \cup ToH3
Ends == {"whole", "forbidden", "cut"}

NoPump == [at |-> "off", hand |-> 0, why |-> "none", verdict |-> "none"]

Init ==
  /\ legKind \in Cells
  /\ legIn = [chunks |-> 0, state |-> "open"]
  /\ legCall = [at |-> CASE legKind \in ToH3 -> "start" [] legKind = "h1h1" -> "dial" [] OTHER -> "look",
                look |-> 0, out |-> "none"]
  /\ legPump = NoPump
  /\ legChan = <<>>
  /\ legUp = [body |-> "unsent", chunks |-> 0, head |-> "none"]
  /\ legLeft = FALSE

Answer(how) == legCall' = [legCall EXCEPT !.at = "done", !.look = 0, !.out = how]
Goto(place) == legCall' = [legCall EXCEPT !.at = place]
Whole == legIn.state = "whole" /\ legUp.chunks = legIn.chunks

-----------------------------------------------------------------------------
(* What body.frame() yields: a chunk, the end (with valid trailers or      *)
(* none), forbidden trailers, or a body cut short.                         *)
Chunk == legIn.state = "open" /\ legIn' = [legIn EXCEPT !.chunks = @ + 1]
Finish(end) ==
  \/ legIn.state = "open" /\ legIn' = [legIn EXCEPT !.state = end]
  \/ legIn.state = "cut" /\ end = "cut" /\ UNCHANGED legIn

Fault(end) == IF end = "whole" THEN "ok" ELSE "badRequest"

\* Phase 1: frames are held until the body ends or the window is passed.
Look ==
  /\ legCall.at = "look"
  /\ \/ /\ Chunk
        /\ LET n == legCall.look + 1 IN
           IF n > LegCap THEN Answer("tooLarge")
           ELSE legCall' = [legCall EXCEPT !.look = n, !.at = IF n > LegDepth THEN "dial" ELSE "look"]
     \/ \E end \in Ends :
          /\ Finish(end)
          /\ IF end = "whole" THEN Goto("whole") ELSE Answer("badRequest")
  /\ UNCHANGED <<legKind, legPump, legChan, legUp, legLeft>>

\* Branch A: the validated body is sent in one piece under a plain timeout.
Buffered ==
  /\ legCall.at = "whole"
  /\ \/ Answer("badGateway") /\ UNCHANGED legUp
     \/ /\ \E how \in {"relayed", "badGateway", "timeout"} : Answer(how)
        /\ legUp' = [legUp EXCEPT !.body = "whole", !.chunks = legCall.look]
  /\ UNCHANGED <<legKind, legIn, legPump, legChan, legLeft>>

\* Branch B: the request goes out with the channel as its body, and the
\* pump starts with what was looked ahead.
Stream ==
  /\ legPump' = [NoPump EXCEPT !.at = IF legCall.look > 0 THEN "send" ELSE "read", !.hand = legCall.look]
  /\ legUp' = [legUp EXCEPT !.body = "reading"]
  /\ legCall' = [legCall EXCEPT !.at = "send", !.look = 0]
  /\ UNCHANGED <<legKind, legIn, legChan, legLeft>>

DialH1 ==
  /\ legCall.at = "dial"
  /\ \/ Stream
     \/ Answer("badGateway") /\ UNCHANGED <<legKind, legIn, legPump, legChan, legUp, legLeft>>

-----------------------------------------------------------------------------
(* The pump.                                                               *)
RxOpen == legUp.body = "reading"
Room == Len(legChan) < LegDepth

At(place) == legPump' = [legPump EXCEPT !.at = place]
Verdict(v) == legPump' = [legPump EXCEPT !.at = "gone", !.hand = 0, !.verdict = v]
AbortFor(v) == legPump' = [legPump EXCEPT !.at = "abort", !.hand = 0, !.why = v]

\* send_chunked!: a receiver that is gone is no fault of the client's.
PumpSends ==
  /\ legPump.at = "send"
  /\ \/ /\ ~RxOpen
        /\ IF legKind \in ToH3 THEN Verdict("none") ELSE legPump' = [legPump EXCEPT !.at = "drain", !.hand = 0]
        /\ UNCHANGED legChan
     \/ /\ RxOpen /\ Room
        /\ legChan' = Append(legChan, "data")
        /\ legPump' = [legPump EXCEPT !.hand = @ - 1, !.at = IF legPump.hand = 1 THEN "read" ELSE "send"]
  /\ UNCHANGED <<legKind, legIn, legCall, legUp, legLeft>>

\* The main loop: one frame of the inbound body.
PumpReads(onEnd) ==
  /\ legPump.at = "read"
  /\ \/ /\ Chunk
        /\ IF legIn.chunks + 1 > LegCap THEN AbortFor("tooLarge")
           ELSE legPump' = [legPump EXCEPT !.hand = 1, !.at = "send"]
     \/ /\ Finish("whole")
        /\ onEnd
     \/ /\ \E end \in {"forbidden", "cut"} : Finish(end)
        /\ AbortFor("badRequest")
  /\ UNCHANGED <<legKind, legCall, legChan, legUp, legLeft>>

\* Trailers travel as the last frame; without them the dropped sender is
\* the clean end.
CleanEnd == Verdict("ok") \/ At("trailers")

\* A final frame waits for room, and is dropped when nobody reads.
LastFrame(frame, next) ==
  /\ \/ RxOpen /\ Room /\ legChan' = Append(legChan, frame)
     \/ ~RxOpen /\ UNCHANGED legChan
  /\ next
  /\ UNCHANGED <<legKind, legIn, legCall, legUp, legLeft>>

PumpTrailers == legPump.at = "trailers" /\ LastFrame("trailers", Verdict("ok"))

\* The error goes into the channel ahead of the verdict.
PumpAborts == legPump.at = "abort" /\ LastFrame("abort", Verdict(legPump.why))

\* inject_abort!: the sender is held until the receiver is dropped, or the
\* observation times out.
PumpInjects == legPump.at = "abort" /\ LastFrame("abort", At("observe"))
PumpObserved ==
  /\ legPump.at = "observe"
  /\ Verdict(legPump.why)
  /\ UNCHANGED <<legKind, legIn, legCall, legChan, legUp, legLeft>>

\* drain_and_validate!: the rest of the body still decides the verdict.
PumpDrains ==
  /\ legPump.at = "drain"
  /\ \/ /\ Chunk
        /\ IF legIn.chunks + 1 > LegCap THEN Verdict("tooLarge") ELSE UNCHANGED legPump
     \/ \E end \in Ends : Finish(end) /\ Verdict(Fault(end))
  /\ UNCHANGED <<legKind, legCall, legChan, legUp, legLeft>>

\* pump.abort() drops the sender without a verdict.
StopPump == IF legPump.at = "gone" THEN UNCHANGED legPump ELSE Verdict("lost")

-----------------------------------------------------------------------------
(* The backend, behind hyper or the HTTP/3 connector.                      *)
UpTakes ==
  /\ RxOpen /\ legChan # <<>>
  /\ LET frame == Head(legChan) IN
     /\ legChan' = IF frame = "data" THEN Tail(legChan) ELSE <<>>
     /\ legUp' = CASE frame = "data" -> [legUp EXCEPT !.chunks = @ + 1]
                   [] frame \in {"trailers", "end"} -> [legUp EXCEPT !.body = "whole"]
                   [] frame = "abort" -> [legUp EXCEPT !.body = "aborted", !.head = IF @ = "none" THEN "failed" ELSE @]
  /\ UNCHANGED <<legKind, legIn, legCall, legPump, legLeft>>

\* A dropped sender is the clean end of a StreamBody; the HTTP/3 connector
\* wants an explicit End.
UpEof ==
  /\ RxOpen /\ legChan = <<>> /\ legPump.at = "gone"
  /\ legUp' = IF legKind \in ToH3
              THEN [legUp EXCEPT !.body = "aborted", !.head = IF @ = "none" THEN "failed" ELSE @]
              ELSE [legUp EXCEPT !.body = "whole"]
  /\ UNCHANGED <<legKind, legIn, legCall, legPump, legChan, legLeft>>

CloseUp == /\ legUp' = [legUp EXCEPT !.body = IF RxOpen THEN "dropped" ELSE @]
           /\ legChan' = <<>>

UpAnswers ==
  /\ legUp.head = "none" /\ legUp.body \in {"reading", "whole"}
  /\ \/ legUp' = [legUp EXCEPT !.head = "some"] /\ UNCHANGED legChan
     \/ RxOpen /\ legUp' = [legUp EXCEPT !.head = "some", !.body = "dropped"] /\ legChan' = <<>>
     \/ legUp' = [legUp EXCEPT !.head = "failed", !.body = IF RxOpen THEN "dropped" ELSE @] /\ legChan' = <<>>
  /\ UNCHANGED <<legKind, legIn, legCall, legPump, legLeft>>

\* After its head the backend may still stop reading.
UpDrops ==
  /\ RxOpen /\ legUp.head = "some"
  /\ CloseUp
  /\ UNCHANGED <<legKind, legIn, legCall, legPump, legLeft>>

-----------------------------------------------------------------------------
(* The call.                                                               *)
Told(v) == CASE v = "ok" -> "relayed" [] v = "lost" -> "badRequest" [] OTHER -> v
Untouched == UNCHANGED <<legKind, legIn, legLeft>>

\* The head arrived: relay only once the body's verdict is in.
Gate ==
  /\ legCall.at = "gate" /\ legPump.verdict # "none"
  /\ Answer(Told(legPump.verdict))
  /\ IF legPump.verdict = "ok" THEN UNCHANGED <<legUp, legChan>> ELSE CloseUp
  /\ Untouched /\ UNCHANGED legPump

\* The send failed: the pump's verdict, if it comes in time, is the cause.
Classify ==
  /\ legCall.at = "classify"
  /\ Answer(IF legPump.verdict \in {"badRequest", "tooLarge"} THEN legPump.verdict ELSE "badGateway")
  /\ StopPump /\ CloseUp /\ Untouched

SendH1 ==
  /\ legCall.at = "send"
  /\ \/ legUp.head = "some" /\ Goto("gate") /\ UNCHANGED legPump
     \/ legUp.head = "failed" /\ Goto("classify") /\ UNCHANGED legPump
     \/ legUp.head = "none" /\ Goto("sever") /\ StopPump
  /\ Untouched /\ UNCHANGED <<legUp, legChan>>

\* The deadline: pump.abort() came first, conn_handle.abort() comes now.
Sever ==
  /\ legCall.at = "sever"
  /\ Answer("timeout")
  /\ CloseUp /\ Untouched /\ UNCHANGED legPump

\* drive_h2_upstream_send: the verdict is polled first; reset_peer and the
\* pool's eviction close the connection before the body is dropped.
SendH2 ==
  /\ legCall.at = "send"
  /\ LET v == legPump.verdict IN
     \/ v = "ok" /\ Goto("head") /\ UNCHANGED <<legPump, legUp, legChan>>
     \/ v \notin {"none", "ok"} /\ Answer(Told(v)) /\ CloseUp /\ UNCHANGED legPump
     \/ v = "none" /\ legUp.head = "some" /\ Goto("gate") /\ UNCHANGED <<legPump, legUp, legChan>>
     \/ v = "none" /\ legUp.head = "failed" /\ Goto("classify") /\ UNCHANGED <<legPump, legUp, legChan>>
     \/ v = "none" /\ legUp.head = "none" /\ Answer("timeout") /\ CloseUp /\ StopPump
  /\ Untouched

HeadH2 ==
  /\ legCall.at = "head"
  /\ \/ legUp.head = "some" /\ Answer("relayed") /\ UNCHANGED <<legUp, legChan>>
     \/ legUp.head = "failed" /\ Answer("badGateway") /\ CloseUp
     \/ legUp.head = "none" /\ Answer("timeout") /\ CloseUp
  /\ Untouched /\ UNCHANGED legPump

StartH3 == legCall.at = "start" /\ Stream

\* Towards HTTP/3 the head is relayed as it comes.
SendH3 ==
  /\ legCall.at = "send"
  /\ \/ legUp.head = "some" /\ Answer("relayed") /\ UNCHANGED <<legPump, legUp, legChan>>
     \/ legUp.head = "failed" /\ Answer("badGateway") /\ StopPump /\ CloseUp
  /\ Untouched

\* The client's connection ends: by its total timer, or by the client.  The
\* calls that run in the client's own future are dropped with it.
ClientLeaves ==
  /\ ~legLeft /\ legCall.at # "sever" /\ (legIn.state = "open" \/ legCall.at # "done")
  /\ legLeft' = TRUE
  /\ legIn' = [legIn EXCEPT !.state = IF @ = "open" THEN "cut" ELSE @]
  /\ IF legCall.at = "done" \/ (legKind \in ToH2 /\ legPump.at # "off")
     THEN UNCHANGED legCall ELSE Answer("closed")
  /\ IF legKind \in ToH1 /\ legCall.at # "done" THEN CloseUp ELSE UNCHANGED <<legUp, legChan>>
  /\ UNCHANGED <<legKind, legPump>>
-----------------------------------------------------------------------------
(* The cells.  Each is a copy of the parts above in its own function; they *)
(* differ in the lookahead, in how an abort reaches the backend, and in    *)
(* who waits for the head.                                                 *)
In(cell) == legKind = cell
(* The HTTP/3 cells mark the end with an event of its own.                 *)
MarkedEnd == At("trailers")

DialH1H1 == In("h1h1") /\ DialH1
SendChunkedH1H1 == In("h1h1") /\ PumpSends
\* Mutation: a pump whose receiver is gone does not read on.
ReadH1H1NoDrain == In("h1h1") /\ (PumpReads(CleanEnd) \/ PumpTrailers \/ PumpAborts)
ReadH1H1 == In("h1h1") /\ (PumpReads(CleanEnd) \/ PumpTrailers \/ PumpAborts \/ PumpDrains)
\* Mutation: the head is relayed without waiting for the pump's verdict.
CallH1H1Ungated ==
  /\ In("h1h1")
  /\ \/ SendH1 \/ Classify \/ Sever
     \/ legCall.at = "gate" /\ Answer("relayed") /\ Untouched /\ UNCHANGED <<legPump, legUp, legChan>>
CallH1H1 == In("h1h1") /\ (SendH1 \/ Classify \/ Sever \/ Gate)

LookH2H1 == In("h2h1") /\ Look
BufferedH2H1 == In("h2h1") /\ Buffered
DialH2H1 == In("h2h1") /\ DialH1
SendChunkedH2H1 == In("h2h1") /\ PumpSends
ReadH2H1 == In("h2h1") /\ (PumpReads(CleanEnd) \/ PumpTrailers \/ PumpAborts \/ PumpDrains)
CallH2H1 == In("h2h1") /\ (SendH1 \/ Classify \/ Sever \/ Gate)

LookH1H2 == In("h1h2") /\ Look
BufferedH1H2 == In("h1h2") /\ Buffered
StreamH1H2 == In("h1h2") /\ legCall.at = "dial" /\ Stream
SendChunkedH1H2 == In("h1h2") /\ (PumpSends \/ PumpDrains)
ReadH1H2 == In("h1h2") /\ (PumpReads(CleanEnd) \/ PumpTrailers \/ PumpInjects \/ PumpObserved)

LookH2H2 == In("h2h2") /\ Look
BufferedH2H2 == In("h2h2") /\ Buffered
StreamH2H2 == In("h2h2") /\ legCall.at = "dial" /\ Stream
SendChunkedH2H2 == In("h2h2") /\ (PumpSends \/ PumpDrains)
ReadH2H2 == In("h2h2") /\ (PumpReads(CleanEnd) \/ PumpTrailers \/ PumpInjects \/ PumpObserved)

DriveH2UpstreamSend == legKind \in ToH2 /\ (SendH2 \/ HeadH2 \/ Classify \/ Gate)

PumpEnds == legPump.at = "trailers" /\ LastFrame("end", Verdict("none"))
PumpResets == legPump.at = "abort" /\ LastFrame("abort", Verdict("none"))

StartH1H3 == In("h1h3") /\ StartH3
PumpH1H3 == In("h1h3") /\ (PumpSends \/ PumpReads(MarkedEnd) \/ PumpEnds \/ PumpResets)
CallH1H3 == In("h1h3") /\ SendH3

StartH2H3 == In("h2h3") /\ StartH3
PumpH2H3 == In("h2h3") /\ (PumpSends \/ PumpReads(MarkedEnd) \/ PumpEnds \/ PumpResets)
CallH2H3 == In("h2h3") /\ SendH3

Pump ==
  \/ SendChunkedH1H1 \/ ReadH1H1 \/ SendChunkedH2H1 \/ ReadH2H1
  \/ SendChunkedH1H2 \/ ReadH1H2 \/ SendChunkedH2H2 \/ ReadH2H2
  \/ PumpH1H3 \/ PumpH2H3

Call ==
  \/ DialH1H1 \/ CallH1H1
  \/ LookH2H1 \/ BufferedH2H1 \/ DialH2H1 \/ CallH2H1
  \/ LookH1H2 \/ BufferedH1H2 \/ StreamH1H2
  \/ LookH2H2 \/ BufferedH2H2 \/ StreamH2H2 \/ DriveH2UpstreamSend
  \/ StartH1H3 \/ CallH1H3 \/ StartH2H3 \/ CallH2H3

Backend == UpTakes \/ UpEof \/ UpAnswers \/ UpDrops

Next == Pump \/ Call \/ Backend \/ ClientLeaves

TypeOK ==
  /\ legIn.chunks \in 0..LegCap + 1 /\ legIn.state \in {"open"} \cup Ends
  /\ legCall.at \in {"look", "whole", "dial", "start", "send", "head", "gate", "classify", "sever", "done"}
  /\ legCall.out \in {"none", "relayed", "badRequest", "tooLarge", "badGateway", "timeout", "closed"}
  /\ legPump.at \in {"off", "send", "read", "trailers", "abort", "observe", "drain", "gone"}
  /\ legUp.body \in {"unsent", "reading", "whole", "aborted", "dropped"}
  /\ legUp.head \in {"none", "some", "failed"}

(* A truncated, oversized or malformed request never reaches the backend   *)
(* as a complete one (H1PumpAbort, PumpAbort), except in the interval      *)
(* between the two aborts of an HTTP/1 cell whose deadline has passed.     *)
CompleteIsComplete ==
  legUp.body = "whole" => Whole \/ (legKind \in ToH1 /\ (legCall.at = "sever" \/ legCall.out = "timeout"))

(* The same without the exception.                                         *)
NeverTruncated == legUp.body = "whole" => Whole

(* The answer has its cause in the request: a response is relayed for a    *)
(* body that was validated to its end, 413 and 400 for what they say, and  *)
(* an upstream fault never hides them (the validate-before-relay gate,     *)
(* F-CAP-1).                                                               *)
AnswerJustified ==
  /\ legCall.out = "relayed" /\ legKind \notin ToH3 => legIn.state = "whole"
  /\ legCall.out = "tooLarge" => legIn.chunks > LegCap
  /\ legCall.out = "badRequest" => legIn.state \in {"forbidden", "cut"}

(* What a cell retains of a body is bounded by the window, whatever the    *)
(* body's size: one frame beyond what the channel holds.                   *)
Retained == legCall.look + legPump.hand + Len(SelectSeq(legChan, LAMBDA f : f = "data"))
BoundedWindow == Retained <= LegDepth + 1

(* Every call is answered and every pump ends, though client, backend and  *)
(* pump may each wait for another.                                         *)
CallSettles == <>(legCall.at = "done")
PumpReturns == <>[](legPump.at \in {"off", "gone"})
=============================================================================
