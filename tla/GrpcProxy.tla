----------------------------- MODULE GrpcProxy -----------------------------
(* The gRPC proxy of lb-l7 (grpc_proxy.rs) and the parts of lb-grpc it     *)
(* uses: deadline.rs, frame.rs and status.rs.  One call, from the request  *)
(* the HTTP/2 front handed over until both sides are done with it.  The    *)
(* backend, the dial and hyper's client connection are external.           *)
EXTENDS Integers, FiniteSetsExt

CONSTANTS
  HourMs, MinuteMs, SecondMs,   \* milliseconds of the long units, each a multiple of the next
  MicrosPerMs, NanosPerMs,      \* the short units in one millisecond
  WordMax,                      \* u64::MAX; in milliseconds still more than MaxDeadline
  MaxDeadline,                  \* GrpcConfig::max_deadline, in milliseconds
  DeadlineDigits,               \* the numbers a client may write
  DialMs                        \* bound on the dial

VARIABLES
  gcHeader,   \* the client's grpc-timeout
  gcSent,     \* the grpc-timeout of the forwarded request, of at most one element
  gcAt,       \* where the handler is
  gcTimer,    \* when the gateway's own deadline passes, of at most one element
  gcAnswer,   \* the status the client was given
  gcCause,    \* what the backend, the dial or the client did
  gcLink,     \* the task of the backend's connection
  gcNow       \* the clock

grpcVars == <<gcHeader, gcSent, gcAt, gcTimer, gcAnswer, gcCause, gcLink, gcNow>>

-----------------------------------------------------------------------------
(* GrpcDeadline.                                                            *)

Capped(n) == IF n > WordMax THEN WordMax ELSE n

\* A value that is a number and one letter; `digits` is empty when it is not a u64.
TimeoutTexts ==
  [digits : {{}} \cup {{d} : d \in DeadlineDigits}, unit : {"H", "M", "S", "m", "u", "n", "x"}]

\* The milliseconds; empty for a value that does not parse.
ParseTimeout(text) ==
  {CASE text.unit = "H" -> Capped(d * HourMs)
     [] text.unit = "M" -> Capped(d * MinuteMs)
     [] text.unit = "S" -> Capped(d * SecondMs)
     [] text.unit = "m" -> d
     [] text.unit = "u" -> Capped(d + MicrosPerMs - 1) \div MicrosPerMs
     [] text.unit = "n" -> Capped(d + NanosPerMs - 1) \div NanosPerMs
     : d \in IF text.unit = "x" THEN {} ELSE text.digits}

FormatTimeout(ms) ==
  CASE ms = 0 -> [digits |-> {0}, unit |-> "m"]
    [] ms # 0 /\ ms % HourMs = 0 -> [digits |-> {ms \div HourMs}, unit |-> "H"]
    [] ms % HourMs # 0 /\ ms % MinuteMs = 0 -> [digits |-> {ms \div MinuteMs}, unit |-> "M"]
    [] ms % MinuteMs # 0 /\ ms % SecondMs = 0 -> [digits |-> {ms \div SecondMs}, unit |-> "S"]
    [] OTHER -> [digits |-> {ms}, unit |-> "m"]

-----------------------------------------------------------------------------
(* GrpcStatus.                                                              *)

HttpStatuses == {200, 400, 401, 403, 404, 409, 418, 429, 499, 500, 501, 502, 503, 504}

FromHttpStatus(http) ==
  CASE http = 200 -> "ok"
    [] http \in {400, 500} -> "internal"
    [] http = 401 -> "unauthenticated"
    [] http = 403 -> "permission_denied"
    [] http \in {404, 501} -> "unimplemented"
    [] http = 409 -> "aborted"
    [] http \in {429} \cup 502 .. 504 -> "unavailable"
    [] http = 499 -> "cancelled"
    [] OTHER -> "unknown"

-----------------------------------------------------------------------------
(* The health probe.  The body is a frame of protobuf fields, or no frame.  *)

\* "skip": a field of another number, of a length that fits; "broken": a group, a
\* cut varint or length, or a name that is not UTF-8; "past": a fixed-width field
\* that reaches over the end.
Fields == {"unnamed", "named", "skip", "past", "broken"}
ProbeBodies ==
  {[frame |-> f, fields |-> <<>>] : f \in {"empty", "undecodable", "compressed"}}
    \cup [frame : {"plain"}, fields : UNION {[1 .. n -> Fields] : n \in 0 .. 2}]

\* decode_health_check_service: the first field that is not skipped decides.
DecodeService(body) ==
  LET stops == {i \in DOMAIN body.fields : body.fields[i] # "skip"} IN
  IF body.frame = "plain" /\ stops # {} /\ body.fields[Min(stops)] = "named" THEN "named" ELSE ""

-----------------------------------------------------------------------------
(* The call.  A header is absent, opaque (no text) or a text.               *)

Headers ==
  [kind : {"absent", "opaque"}, text : {[digits |-> {}, unit |-> "x"]}]
    \cup [kind : {"text"}, text : TimeoutTexts]

GrpcInit ==
  /\ gcHeader \in Headers
  /\ gcSent = {} /\ gcAt = "arrived" /\ gcTimer = {} /\ gcAnswer = "none"
  /\ gcCause = "none" /\ gcLink = "none" /\ gcNow = 0

Answer(status, cause) ==
  gcAt' = "answered" /\ gcAnswer' = status /\ gcCause' = cause

\* handle, then handle_health_check: the body is collected; one that fails counts as empty.
HandleHealthCheck(body) ==
  /\ gcAt = "arrived"
  /\ Answer(IF DecodeService(body) = "" THEN "ok" ELSE "not_found", "probe")
  /\ UNCHANGED <<gcHeader, gcSent, gcTimer, gcLink, gcNow>>

Effective(text) == {IF ms < MaxDeadline THEN ms ELSE MaxDeadline : ms \in ParseTimeout(text)}

\* The head of forward: parse_and_clamp_grpc_timeout, then the dial begins.
Forward ==
  /\ gcAt = "arrived"
  /\ IF gcHeader.kind = "absent" \/ (gcHeader.kind = "text" /\ ParseTimeout(gcHeader.text) # {})
     THEN /\ gcSent' = {FormatTimeout(ms) : ms \in Effective(gcHeader.text)}
          /\ gcAt' = "dialing"
          /\ UNCHANGED <<gcAnswer, gcCause>>
     ELSE Answer("invalid_argument", "malformed") /\ UNCHANGED gcSent
  /\ UNCHANGED <<gcHeader, gcTimer, gcLink, gcNow>>

DialFails ==
  /\ gcAt = "dialing" /\ Answer("unavailable", "dial")
  /\ UNCHANGED <<gcHeader, gcSent, gcTimer, gcLink, gcNow>>

\* Dialled and shaken hands: the connection's task is spawned, the timer starts.
Dialed ==
  /\ gcAt = "dialing" /\ gcAt' = "sending"
  /\ gcLink' = "open"
  /\ gcTimer' = {gcNow + ms : ms \in Effective(gcHeader.text)}
  /\ UNCHANGED <<gcHeader, gcSent, gcAnswer, gcCause, gcNow>>

Deadline ==
  /\ gcAt = "sending" /\ \E at \in gcTimer : gcNow >= at
  /\ Answer("deadline_exceeded", "stall")
  /\ gcLink' = "aborted"
  /\ UNCHANGED <<gcHeader, gcSent, gcTimer, gcNow>>

SendFails ==
  /\ gcAt = "sending" /\ Answer("unavailable", "send")
  /\ gcLink' = "aborted"
  /\ UNCHANGED <<gcHeader, gcSent, gcTimer, gcNow>>

\* The head of the response; the timeout polls it before its timer.
\* finalize_upstream: a 200 is relayed, another status becomes trailers.
ResponseHead(http) ==
  /\ gcAt = "sending"
  /\ IF http = 200 THEN gcAt' = "relaying" /\ gcCause' = "head" /\ UNCHANGED gcAnswer
     ELSE Answer(FromHttpStatus(http), "status")
  /\ UNCHANGED <<gcHeader, gcSent, gcTimer, gcLink, gcNow>>

\* The backend's trailers, or its failure, end the body.
BodyEnds(cause) ==
  /\ gcAt = "relaying" /\ Answer(IF cause = "trailers" THEN "backend's" ELSE "reset", cause)
  /\ UNCHANGED <<gcHeader, gcSent, gcTimer, gcLink, gcNow>>

\* The client resets its stream: the handler, or the body, is dropped.
ClientResets ==
  /\ gcAt # "answered" /\ Answer("reset", "client")
  /\ UNCHANGED <<gcHeader, gcSent, gcTimer, gcLink, gcNow>>

\* hyper ends a connection with no handle and no stream.
LinkCloses ==
  /\ gcLink = "open" /\ gcAt = "answered"
  /\ gcLink' = "closed"
  /\ UNCHANGED <<gcHeader, gcSent, gcAt, gcTimer, gcAnswer, gcCause, gcNow>>

Elapse ==
  /\ gcNow < CASE gcAt = "dialing" -> DialMs [] gcAt = "sending" -> DialMs + MaxDeadline [] OTHER -> 0
  /\ gcNow' = gcNow + 1
  /\ UNCHANGED <<gcHeader, gcSent, gcAt, gcTimer, gcAnswer, gcCause, gcLink>>

GrpcNext ==
  \/ Forward \/ DialFails \/ Dialed \/ Deadline \/ SendFails
  \/ ClientResets \/ LinkCloses \/ Elapse
  \/ \E body \in ProbeBodies : HandleHealthCheck(body)
  \/ \E http \in HttpStatuses : ResponseHead(http)
  \/ \E cause \in {"trailers", "failure"} : BodyEnds(cause)

-----------------------------------------------------------------------------

\* The least number of milliseconds that is no shorter than what the client wrote.
Asked(text) ==
  LET nanos(d) == CASE text.unit = "H" -> d * HourMs * NanosPerMs
                    [] text.unit = "M" -> d * MinuteMs * NanosPerMs
                    [] text.unit = "S" -> d * SecondMs * NanosPerMs
                    [] text.unit = "m" -> d * NanosPerMs
                    [] text.unit = "u" -> d * (NanosPerMs \div MicrosPerMs)
                    [] text.unit = "n" -> d
  IN {CHOOSE ms \in 0 .. MaxDeadline :
        /\ ms = MaxDeadline \/ ms * NanosPerMs >= nanos(d)
        /\ \A less \in 0 .. ms - 1 : less * NanosPerMs < nanos(d)
      : d \in IF text.unit = "x" THEN {} ELSE text.digits}

\* The deadline the backend is told, as it will read it, is the one the gateway
\* keeps itself: the client's, rounded up and clamped.  A deadline that is not
\* zero never becomes zero on the way.
OneDeadline ==
  gcAt \notin {"arrived", "answered"} =>
    /\ UNION {ParseTimeout(text) : text \in gcSent} = Asked(gcHeader.text)
    /\ \A at \in gcTimer : \E ms \in Asked(gcHeader.text) : at - ms \in 0 .. DialMs

\* What the gateway answers in its own name is what happened: a success only to a
\* probe or with the backend's trailers, a deadline only after it passed, a
\* malformed header before the backend saw anything.
AnswerIsCause ==
  /\ gcAnswer = "ok" => gcCause = "probe"
  /\ gcAnswer = "deadline_exceeded" => (gcCause = "stall" /\ \E at \in gcTimer : gcNow >= at)
  /\ gcAnswer = "invalid_argument" => (gcSent = {} /\ gcLink = "none")
  /\ gcAnswer = "unavailable" => gcCause \in {"dial", "send", "status"}
  /\ gcAnswer = "backend's" => gcCause = "trailers"

\* A call the gateway gave up on leaves no task behind: what is still open after
\* an answer is hyper's to close.
NothingLeftOpen ==
  (gcAt = "answered" /\ gcLink = "open") =>
    gcCause \in {"status", "trailers", "failure", "client"}

GrpcSound == OneDeadline /\ AnswerIsCause /\ NothingLeftOpen

\* A call with a deadline gets a response even if the backend never answers.
StalledIsAnswered ==
  (gcAt = "sending" /\ gcTimer # {}) ~> gcAt # "sending"

\* Refuted: "the clamp also bounds the gateway-side timeout".  The timer starts when the
\* dial is over, and a relayed body has none.
WithinDeadline ==
  (gcAt \in {"dialing", "sending"}) => \A ms \in Effective(gcHeader.text) : gcNow <= ms

\* Refuted: ParsedTimeout calls a header that is no text "Absent ... Forward"; it is refused.
OpaqueIsForwarded == gcHeader.kind = "opaque" => gcAnswer # "invalid_argument"
=============================================================================
