---------------------------- MODULE SlowClients -----------------------------
(* The guards against clients that are slow or too busy: the request     *)
(* watchdog and the rate and stall detectors.                            *)
EXTENDS Integers, FiniteSets, Sequences

-----------------------------------------------------------------------------
(* The table of requests watched for a missed deadline, shared by the      *)
(* proxies of every listener: lb-security/src/watchdog.rs, its callers in  *)
(* lb-l7/src/h1_proxy.rs and h2_proxy.rs, and the sweeper async_main       *)
(* spawns.  A request is named by its peer and a sequence number that each *)
(* proxy counts for itself.  The rate check is left out: progress is       *)
(* called once, right after register, so its window has never elapsed.     *)

CONSTANTS
  Proxies,          \* the H1 and H2 proxies of the listeners
  Watched,          \* requests, all from one address
  MaxRegistered,    \* WatchdogConfig::max_registered
  HeaderTimeout,    \* HttpTimeouts::header
  LastTick          \* bound on the clock

VARIABLES
  tick,             \* the clock
  connSeq,          \* proxy -> conn_seq
  table,            \* the entries: set of [seq, deadline, owner]; seq is the key
  watch,            \* request -> [at, proxy, seq]
  swept             \* requests a sweep has reported

watchVars == <<tick, connSeq, table, watch, swept>>

WatchInit ==
  /\ tick = 0 /\ connSeq = [p \in Proxies |-> 0] /\ table = {} /\ swept = {}
  /\ watch = [r \in Watched |-> [at |-> "none", proxy |-> CHOOSE p \in Proxies : TRUE, seq |-> 0]]

Without(seq) == {e \in table : e.seq # seq}

\* register looks at the length of the table ...
Register(r, p) ==
  /\ watch[r].at = "none"
  /\ connSeq' = [connSeq EXCEPT ![p] = @ + 1]
  /\ watch' = [watch EXCEPT ![r] =
       [at |-> IF Cardinality(table) < MaxRegistered THEN "insert" ELSE "running",
        proxy |-> p, seq |-> connSeq[p] + 1]]
  /\ UNCHANGED <<tick, table, swept>>

\* ... and inserts; the deadline was taken before.
Insert(r) ==
  /\ watch[r].at = "insert"
  /\ table' = Without(watch[r].seq)
                \cup {[seq |-> watch[r].seq, deadline |-> tick + HeaderTimeout, owner |-> r]}
  /\ watch' = [watch EXCEPT ![r].at = "progress"]
  /\ UNCHANGED <<tick, connSeq, swept>>

\* The one call of progress; what it returns is only logged.
Progress(r) ==
  /\ watch[r].at = "progress"
  /\ table' = {e \in table : e.seq # watch[r].seq \/ tick <= e.deadline}
  /\ watch' = [watch EXCEPT ![r].at = "running"]
  /\ UNCHANGED <<tick, connSeq, swept>>

Leave(r, at) ==
  /\ watch[r].at = "running"
  /\ watch' = [watch EXCEPT ![r].at = at]
  /\ UNCHANGED <<tick, connSeq, swept>>

\* The upstream answered, with a response or an error.
Complete(r) == Leave(r, "answered") /\ table' = Without(watch[r].seq)

\* No backend to pick: the early return leaves the entry to the sweeper ...
NoBackend(r) == Leave(r, "refused") /\ UNCHANGED table

\* ... and so does the future of a request whose connection is gone.
Abandon(r) == Leave(r, "abandoned") /\ UNCHANGED table

SweepExpired ==
  /\ table' = {e \in table : tick <= e.deadline}
  /\ swept' = swept \cup {e.owner : e \in table \ table'}
  /\ UNCHANGED <<tick, connSeq, watch>>

Tick ==
  /\ tick < LastTick /\ tick' = tick + 1
  /\ UNCHANGED <<connSeq, table, watch, swept>>

WatchNext ==
  \/ Tick \/ SweepExpired
  \/ \E r \in Watched :
       \/ Insert(r) \/ Progress(r) \/ Complete(r) \/ NoBackend(r) \/ Abandon(r)
       \/ \E p \in Proxies : Register(r, p)

-----------------------------------------------------------------------------

\* An answered request has no entry left, whoever else used its number, so a
\* sweep after it never reports it; and what the sweeper has left to do is what
\* was refused, abandoned or is still running.
AnsweredIsGone ==
  \A e \in table : watch[e.owner].at # "answered"

\* The table passes its capacity by the calls of register that were between
\* their check and their insert, and by no more.
TableBounded ==
  Cardinality(table) + Cardinality({r \in Watched : watch[r].at = "insert"})
    <= MaxRegistered + Cardinality(Watched) - 1

\* Every key is held once.
KeysDistinct == \A e, f \in table : e.seq = f.seq => e = f

WatchdogSound == AnsweredIsGone /\ TableBounded /\ KeysDistinct

\* Refuted.  ConnId says of seq that it is "Unique within the listener across the
\* lifetime of the watchdog": the two proxies of a TLS listener count apart.
SeqUnique ==
  \A r, s \in Watched :
    (r # s /\ watch[r].seq = watch[s].seq) => watch[r].seq = 0

\* Refuted: a request that runs is watched until its deadline.  Another proxy's
\* request of the same number takes its entry away when it is answered.
RunningIsWatched ==
  \A r \in Watched :
    (watch[r].at = "running" /\ r \notin swept) =>
      \E e \in table : e.owner = r

\* Refuted: the table never holds more than max_registered entries.
TableCapped == Cardinality(table) <= MaxRegistered

-----------------------------------------------------------------------------
(* The rate and stall detectors: lb-h2/src/security.rs, and slow_post.rs   *)
(* and slowloris.rs of lb-security.  Each is a small counter over a clock  *)
(* its caller passes in.  `history` records what really happened, and the  *)
(* properties compare the two.  One detector is watched at a time.         *)

CONSTANTS
  Threshold,        \* events allowed in one window
  Window,           \* ticks of one window; for a byte rate, of one second
  MinRate,          \* bytes for each window
  StallAfter,          \* ticks of a phase, or until a stream counts as stalled
  LastInstant,      \* bound on the clock
  MaxEvents         \* bound on the events, or on the bytes

VARIABLES
  detector,         \* which: "reset", "control", "stall" or "rate"
  instant,          \* the clock
  history,          \* the events: [at, size], oldest first
  state,            \* the detector's own fields
  flagged           \* it has returned an error

detectorVars == <<detector, instant, history, state, flagged>>

States ==
  [reset |-> [start |-> 0, count |-> 0, prev |-> 0],
   control |-> [start |-> {}, count |-> 0],
   stall |-> [progress |-> {}],
   rate |-> [at |-> 0, bytes |-> 0, received |-> 0, called |-> 0]]

DetectorInit ==
  /\ detector \in DOMAIN States
  /\ instant = 0 /\ history = <<>> /\ state = States[detector] /\ flagged = FALSE

\* What a caller does with an error is to close the connection.
Observe(size) ==
  /\ ~flagged /\ Len(history) < MaxEvents
  /\ history' = Append(history, [at |-> instant, size |-> size])
  /\ UNCHANGED <<detector, instant>>

-----------------------------------------------------------------------------
(* RapidResetDetector: two buckets, in thousandths.                         *)

Rotated(s) ==
  LET elapsed == instant - s.start IN
  IF elapsed <= Window THEN [s EXCEPT !.count = @ + 1]
  ELSE [start |-> instant, count |-> 1, prev |-> IF elapsed > 2 * Window THEN 0 ELSE s.count]

Estimate(s) ==
  s.prev * (1000 - ((instant - s.start) * 1000) \div Window) + s.count * 1000

RecordReset ==
  /\ detector = "reset" /\ Observe(1)
  /\ state' = Rotated(state)
  /\ flagged' = (Estimate(state') > Threshold * 1000)

-----------------------------------------------------------------------------
(* SettingsFloodDetector and PingFloodDetector: one window.                 *)

OnControl ==
  /\ detector = "control" /\ Observe(1)
  /\ state' = IF \A start \in state.start : instant - start >= Window
              THEN [start |-> {instant}, count |-> 1]
              ELSE [state EXCEPT !.count = @ + 1]
  /\ flagged' = (state'.count > Threshold)

-----------------------------------------------------------------------------
(* ZeroWindowStallDetector, for one stream.                                 *)

OnWindowUpdate(increment) ==
  /\ detector = "stall" /\ Observe(increment)
  /\ state' = IF state.progress = {} \/ increment > 0 THEN [progress |-> {instant}] ELSE state
  /\ UNCHANGED flagged

CheckStalled ==
  /\ detector = "stall"
  /\ flagged' = \E last \in state.progress : instant - last > StallAfter
  /\ UNCHANGED <<detector, instant, history, state>>

-----------------------------------------------------------------------------
(* SlowPostDetector and SlowlorisDetector: bytes received, in all, at an    *)
(* instant since the phase began.  A call within a second of the last       *)
(* checkpoint is not a check.                                               *)

CheckRate(total) ==
  IF instant - state.at < Window
  THEN state' = [state EXCEPT !.received = total, !.called = instant] /\ UNCHANGED flagged
  ELSE /\ state' = [at |-> instant, bytes |-> total, received |-> total, called |-> instant]
       /\ flagged' = (((total - state.bytes) * Window) \div (instant - state.at) < MinRate)

\* check_header_timeout, and the first test of record_body_bytes.
TimedOut == instant > StallAfter

RecordBytes(size) ==
  /\ detector = "rate" /\ ~flagged /\ state.received + size <= MaxEvents
  /\ IF TimedOut THEN flagged' = TRUE /\ UNCHANGED state ELSE CheckRate(state.received + size)
  /\ UNCHANGED <<detector, instant, history>>

-----------------------------------------------------------------------------

Pass ==
  /\ instant < LastInstant /\ instant' = instant + 1
  /\ UNCHANGED <<detector, history, state, flagged>>

DetectorNext ==
  \/ RecordReset \/ OnControl \/ CheckStalled \/ Pass
  \/ \E size \in 0 .. 1 : OnWindowUpdate(size) \/ RecordBytes(size)

-----------------------------------------------------------------------------

EventsSince(t) == Cardinality({i \in DOMAIN history : history[i].at >= t})

\* While a flood detector stays silent, no stretch of one window has held twice
\* the threshold: neither does a burst across the boundary of two windows.
SilentMeansBounded ==
  (detector \in {"reset", "control"} /\ ~flagged) =>
    EventsSince(instant - Window + 1) <= 2 * Threshold

\* The two buckets do better at the boundary itself: a burst that fills one
\* window is still counted in full when the next begins.
BoundaryBurstSeen ==
  (detector = "reset" /\ ~flagged /\ state.start = instant /\ history # <<>>)
    => EventsSince(instant - Window + 1) <= Threshold

\* A stream is reported stalled only if its last credit, or the first frame that
\* was seen of it, is older than the timeout.
StallIsReal ==
  (detector = "stall" /\ flagged) =>
    \A i \in DOMAIN history :
      (history[i].size > 0 \/ i = 1) => instant - history[i].at > StallAfter

\* While a byte rate passes, what was received up to the last checkpoint is at
\* least the rate times its time, and the calls since cover less than a second.
RateKept ==
  (detector = "rate" /\ ~flagged) =>
    /\ state.bytes * Window >= MinRate * state.at
    /\ state.called - state.at < Window /\ state.called <= StallAfter

DetectorsSound == SilentMeansBounded /\ BoundaryBurstSeen /\ StallIsReal /\ RateKept

\* Refuted: the detector for resets speaks only when the threshold was passed
\* within one window.  A burst almost two windows old still counts in full.
FlagIsExact ==
  (detector = "reset" /\ flagged) => EventsSince(instant - Window) > Threshold

\* Refuted.  The module says the stall detector "fires when the peer holds a
\* stream open without granting any receive-window credit"; a stream of which
\* no WINDOW_UPDATE was ever seen is never reported.
SilentStreamStalls ==
  (detector = "stall" /\ history = <<>>) => instant <= StallAfter \/ flagged
=============================================================================
