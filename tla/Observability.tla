--------------------------- MODULE Observability ----------------------------
(* What the process counts and reports about itself: the metrics registry, *)
(* the counters carried over into it, and the admin endpoint.            *)
EXTENDS Integers, Sequences, FiniteSets

-----------------------------------------------------------------------------
(* The registry of metric handles, shared by every thread of the process:  *)
(* lb-observability/src/lib.rs.  Each accessor first looks the name up and *)
(* only if that found nothing takes the map entry, looks again and creates *)
(* the metric; a name that holds another kind of metric is an error.       *)

CONSTANTS
  Callers,        \* threads that ask for a handle
  Names,          \* metric names
  MaxAdds         \* bound on the additions to one metric

VARIABLES
  handles,        \* DashMap: set of [name, kind, id], one for each name
  exposed,        \* ids the prometheus registry gathers
  calls,          \* caller -> its call: [at, name, kind, id]
  counts,         \* id -> what was added through that handle
  added           \* name -> what callers added to the metric

registry == <<handles, exposed, calls, counts, added>>

Idle == [at |-> "idle", name |-> CHOOSE n \in Names : TRUE, kind |-> "counter", id |-> 0]

RegistryInit ==
  /\ handles = {} /\ exposed = {} /\ calls = [c \in Callers |-> Idle]
  /\ counts = <<>> /\ added = [n \in Names |-> 0]

HandleOf(name) == {h \in handles : h.name = name}

GotHandle(c, id) == calls' = [calls EXCEPT ![c].at = "got", ![c].id = id]

Matched(c, h) ==
  IF h.kind = calls[c].kind THEN GotHandle(c, h.id)
  ELSE calls' = [calls EXCEPT ![c].at = "mismatch"]

Ask(c, name, kind) ==
  /\ calls[c].at = "idle" /\ added[name] < MaxAdds
  /\ calls' = [calls EXCEPT ![c] = [at |-> "lookup", name |-> name, kind |-> kind, id |-> 0]]
  /\ UNCHANGED <<handles, exposed, counts, added>>

Counter(c, name) == Ask(c, name, "counter")
CounterVec(c, name) == Ask(c, name, "counter_vec")
Histogram(c, name) == Ask(c, name, "histogram")
HistogramVec(c, name) == Ask(c, name, "histogram_vec")
Gauge(c, name) == Ask(c, name, "gauge")
GaugeVec(c, name) == Ask(c, name, "gauge_vec")

Lookup(c) ==
  /\ calls[c].at = "lookup"
  /\ \/ \E h \in HandleOf(calls[c].name) : Matched(c, h)
     \/ HandleOf(calls[c].name) = {} /\ calls' = [calls EXCEPT ![c].at = "entry"]
  /\ UNCHANGED <<handles, exposed, counts, added>>

\* A new metric is registered with prometheus, then its handle is stored.
Create(c) ==
  LET id == Len(counts) + 1 IN
  /\ counts' = Append(counts, 0)
  /\ exposed' = exposed \cup {id}
  /\ handles' = (handles \ HandleOf(calls[c].name))
                  \cup {[name |-> calls[c].name, kind |-> calls[c].kind, id |-> id]}
  /\ GotHandle(c, id)

TakeEntry(c) ==
  /\ calls[c].at = "entry"
  /\ \/ HandleOf(calls[c].name) = {} /\ Create(c)
     \/ /\ \E h \in HandleOf(calls[c].name) : Matched(c, h)
        /\ UNCHANGED <<handles, exposed, counts>>
  /\ UNCHANGED added

\* The caller adds through the handle it got; after a mismatch it adds nothing.
Increment(c) ==
  /\ calls[c].at \in {"got", "mismatch"}
  /\ calls' = [calls EXCEPT ![c] = Idle]
  /\ IF calls[c].at = "got"
     THEN /\ counts' = [counts EXCEPT ![calls[c].id] = @ + 1]
          /\ added' = [added EXCEPT ![calls[c].name] = @ + 1]
     ELSE UNCHANGED <<counts, added>>
  /\ UNCHANGED <<handles, exposed>>

RegistryNext ==
  \E c \in Callers :
    \/ Lookup(c) \/ TakeEntry(c) \/ Increment(c)
    \/ \E n \in Names : \/ Counter(c, n) \/ CounterVec(c, n) \/ Histogram(c, n)
                        \/ HistogramVec(c, n) \/ Gauge(c, n) \/ GaugeVec(c, n)

RegistrySpec == RegistryInit /\ [][RegistryNext]_registry

-----------------------------------------------------------------------------

\* Nothing a thread adds to a metric is missing from what a scrape gathers: all
\* threads that ask for a name at the same moment get one handle.
NothingUncounted ==
  \A n \in Names :
    \/ \E h \in HandleOf(n) : h.id \in exposed /\ counts[h.id] = added[n]
    \/ HandleOf(n) = {} /\ added[n] = 0

\* A name keeps the kind it was first registered with.
KindKept ==
  /\ \A h, g \in handles : h.name = g.name => h = g
  /\ \A c \in Callers : calls[c].at = "got" =>
       \E h \in handles : h.id = calls[c].id /\ h.name = calls[c].name /\ h.kind = calls[c].kind

-----------------------------------------------------------------------------
(* Counters the process keeps outside of the metrics registry and carries  *)
(* over into it: the panic counter, bound once the registry exists while   *)
(* any thread may panic; the sampler of the XDP statistics, whose kernel   *)
(* map may be older than the process or be replaced; and the budget for    *)
(* label values.  lb/src/main.rs, xdp_metrics.rs, label_budget.rs,         *)
(* lb-l4-xdp/src/stats_export.rs.                                          *)

CONSTANTS
  Panicking,      \* threads that may panic
  Cpus,           \* processors, each with its own cell of the STATS map
  MaxPackets,     \* bound on the packets of the process
  Tuples,         \* tuples of label values
  Ceiling         \* series admitted for one family

ASSUME ReportAssumption ==
  IsFiniteSet(Panicking) /\ IsFiniteSet(Cpus) /\ Ceiling \in Nat

VARIABLES
  hooks,          \* thread -> "none", "unbound" (saw no counter) or "counted"
  fallback,       \* PANIC_TOTAL_FALLBACK
  panicTotal,     \* the registered counter
  binder,         \* bind_panic_counter: [at, pre]
  stats,          \* STATS map: processor -> packets
  packets,        \* packets since this process started
  installed,      \* the sampler has a handle to the map
  baseline,       \* SamplerBaseline: {} or {the last sum}
  exported,       \* xdp_packets_total
  samplerErrors,  \* a failed sample was counted
  seen            \* EnforcedLabelBudget: the tuples admitted

report == <<hooks, fallback, panicTotal, binder, stats, packets, installed,
            baseline, exported, samplerErrors, seen>>
panics == <<hooks, fallback, panicTotal, binder>>
sampling == <<stats, packets, installed, baseline, exported, samplerErrors>>

ReportInit ==
  /\ hooks = [t \in Panicking |-> "none"] /\ fallback = 0 /\ panicTotal = 0
  /\ binder = [at |-> "start", pre |-> 0]
  /\ stats \in [Cpus -> 0 .. 1] /\ packets = 0 /\ installed = FALSE
  /\ baseline = {} /\ exported = 0 /\ samplerErrors = FALSE
  /\ seen = {}

-----------------------------------------------------------------------------
(* Panics.  The hook reads whether the counter is bound, then counts; the  *)
(* binder drains the fallback into the counter before it publishes it.     *)

PanicHook(t) ==
  /\ hooks[t] = "none"
  /\ IF binder.at = "bound"
     THEN panicTotal' = panicTotal + 1 /\ hooks' = [hooks EXCEPT ![t] = "counted"]
     ELSE hooks' = [hooks EXCEPT ![t] = "unbound"] /\ UNCHANGED panicTotal
  /\ UNCHANGED <<fallback, binder>>

CountFallback(t) ==
  /\ hooks[t] = "unbound"
  /\ fallback' = fallback + 1 /\ hooks' = [hooks EXCEPT ![t] = "counted"]
  /\ UNCHANGED <<panicTotal, binder>>

\* Mutation: the fallback is read, and cleared only when the counter is set.
DrainFallbackRead ==
  /\ binder.at = "start"
  /\ binder' = [at |-> "drained", pre |-> fallback]
  /\ UNCHANGED <<hooks, panicTotal, fallback>>

DrainFallback ==
  /\ binder.at = "start"
  /\ binder' = [at |-> "drained", pre |-> fallback]
  /\ fallback' = 0
  /\ UNCHANGED <<hooks, panicTotal>>

AddDrained ==
  /\ binder.at = "drained"
  /\ panicTotal' = panicTotal + binder.pre
  /\ binder' = [at |-> "added", pre |-> 0]
  /\ UNCHANGED <<hooks, fallback>>

BindCounter ==
  /\ binder.at = "added"
  /\ binder' = [binder EXCEPT !.at = "bound"]
  /\ UNCHANGED <<hooks, fallback, panicTotal>>

\* What the accessor reports.
PanicCount == panicTotal + fallback

-----------------------------------------------------------------------------
(* The sampler.                                                             *)

Packet(cpu) ==
  /\ packets < MaxPackets
  /\ stats' = [stats EXCEPT ![cpu] = @ + 1] /\ packets' = packets + 1
  /\ UNCHANGED <<installed, baseline, exported, samplerErrors>>

\* The map is replaced and counts from zero again.
MapReplaced ==
  /\ stats' = [cpu \in Cpus |-> 0]
  /\ UNCHANGED <<packets, installed, baseline, exported, samplerErrors>>

InstallStatsHandle ==
  /\ ~installed /\ installed' = TRUE
  /\ UNCHANGED <<stats, packets, baseline, exported, samplerErrors>>

\* The sum over the processors, as the number of packets in all their cells.
InCells == UNION {{cpu} \X (1 .. stats[cpu]) : cpu \in Cpus}
ReadStats == Cardinality(InCells)

\* The first sample only sets the baseline; a sum that went down adds nothing.
Delta(sum) ==
  IF \E b \in baseline : sum > b THEN sum - CHOOSE b \in baseline : TRUE ELSE 0

Sample ==
  /\ IF installed
     THEN /\ exported' = exported + Delta(ReadStats)
          /\ baseline' = {ReadStats}
          /\ UNCHANGED samplerErrors
     ELSE samplerErrors' = TRUE /\ UNCHANGED <<exported, baseline>>
  /\ UNCHANGED <<stats, packets, installed>>

-----------------------------------------------------------------------------

\* A tuple of label values is admitted for good or refused at the ceiling.
Admit(tuple) ==
  /\ seen' = IF tuple \in seen \/ Cardinality(seen) >= Ceiling THEN seen ELSE seen \cup {tuple}

PanicNext ==
  /\ \/ DrainFallback \/ AddDrained \/ BindCounter
     \/ \E t \in Panicking : PanicHook(t) \/ CountFallback(t)
  /\ UNCHANGED <<sampling, seen>>

SamplerNext ==
  /\ MapReplaced \/ InstallStatsHandle \/ Sample \/ \E cpu \in Cpus : Packet(cpu)
  /\ UNCHANGED <<panics, seen>>

LabelNext == (\E tuple \in Tuples : Admit(tuple)) /\ UNCHANGED <<panics, sampling>>

\* The three share nothing.
ReportNext == PanicNext \/ SamplerNext \/ LabelNext

ReportSpec == ReportInit /\ [][ReportNext]_report

-----------------------------------------------------------------------------

\* No panic is lost or counted twice while the counter is being bound.
PanicsExact ==
  PanicCount + binder.pre = Cardinality({t \in Panicking : hooks[t] = "counted"})

\* The exported total never runs ahead of the packets this process saw, though
\* the map may hold an earlier process's packets or be replaced under it.
ExportedSound == exported <= packets

LabelsBounded == Cardinality(seen) <= Ceiling

\* Refuted: once the counter is bound a scrape shows every panic.  A hook that
\* looked before leaves its panic in the fallback, which only panic_total reads.
ScrapeShowsPanics ==
  binder.at = "bound" =>
    panicTotal = Cardinality({t \in Panicking : hooks[t] = "counted"})

-----------------------------------------------------------------------------
(* The admin endpoint: probes, metrics and the token in front of them.      *)
(* lb-observability/src/admin_http.rs and probes.rs, and                    *)
(* lb-security/src/admin_auth.rs; async_main flips the probes.              *)

CONSTANTS Clients   \* connections to the endpoint

VARIABLES
  token,        \* a token hash is configured
  probeState,   \* ProbeRegistry: "starting", "ready" or "draining"
  draining,     \* the drain has begun: async_main is past the signal loop
  marked,       \* set_draining has returned
  acceptor,     \* the accept loop: "up" or "cancelled"
  conns,        \* client -> "none", "open" or "refused"
  reply         \* the last answer: [path, status, state] or [path |-> "none", ...]

adminvars == <<token, probeState, draining, marked, acceptor, conns, reply>>

Paths == {"/metrics", "/livez", "/healthz", "/readyz", "/startupz", "/other"}

\* An Authorization header: absent, not a bearer token, wrong or right.
Headers == {"none", "basic", "wrong", "right"}

NoReply == [path |-> "none", status |-> 0, state |-> "starting", header |-> "none"]

AdminInit ==
  /\ token \in BOOLEAN /\ probeState = "starting" /\ draining = FALSE /\ marked = FALSE
  /\ acceptor = "up" /\ conns = [c \in Clients |-> "none"] /\ reply = NoReply

-----------------------------------------------------------------------------
(* The registry of the probes.                                              *)

\* Only a starting process becomes ready: compare_exchange.
ProbeSetReady ==
  /\ probeState' = IF probeState = "starting" THEN "ready" ELSE probeState
  /\ UNCHANGED <<token, draining, marked, acceptor, conns, reply>>

SetDraining ==
  /\ draining /\ probeState' = "draining" /\ marked' = TRUE
  /\ UNCHANGED <<token, draining, acceptor, conns, reply>>

\* A terminal signal: the accept loop is cancelled before the coordinator runs.
CancelAdmin ==
  /\ ~draining /\ probeState # "starting"
  /\ draining' = TRUE /\ acceptor' = "cancelled"
  /\ UNCHANGED <<token, probeState, marked, conns, reply>>

-----------------------------------------------------------------------------
(* Requests.                                                                *)

Accept(c) ==
  /\ conns[c] # "open"
  /\ conns' = [conns EXCEPT ![c] = IF acceptor = "up" THEN "open" ELSE "refused"]
  /\ UNCHANGED <<token, probeState, draining, marked, acceptor, reply>>

IsProbePath(path) == path \in {"/livez", "/healthz", "/startupz", "/readyz"}

Authorize(header) == token => header = "right"

StatusOf(path) ==
  CASE path = "/metrics" -> 200
    [] path \in {"/livez", "/healthz"} -> 200
    [] path = "/readyz" -> IF probeState = "ready" THEN 200 ELSE 503
    [] path = "/startupz" -> IF probeState # "starting" THEN 200 ELSE 503
    [] OTHER -> 404

Route(path, get, header) ==
  IF ~get THEN 405
  ELSE IF token /\ ~IsProbePath(path) /\ ~Authorize(header) THEN 403
  ELSE StatusOf(path)

\* An open connection is served also after the accept loop has ended.
Request(c, path, get, header) ==
  /\ conns[c] = "open"
  /\ reply' = [path |-> path, status |-> Route(path, get, header), state |-> probeState,
               header |-> header]
  /\ UNCHANGED <<token, probeState, draining, marked, acceptor, conns>>

AdminNext ==
  \/ ProbeSetReady \/ SetDraining \/ CancelAdmin
  \/ \E c \in Clients :
       \/ Accept(c)
       \/ \E path \in Paths, get \in BOOLEAN, header \in Headers : Request(c, path, get, header)

AdminSpec == AdminInit /\ [][AdminNext]_adminvars

-----------------------------------------------------------------------------

\* A process marked as draining is never ready again, whatever order set_ready
\* and set_draining come in.
DrainingSticks == marked => probeState = "draining"

\* Readiness and startup answers are those of the state they were taken in; a
\* probe never needs the token, and everything else does when one is set.
AnswersSound ==
  /\ reply.path = "/readyz" /\ reply.status = 200 => reply.state = "ready"
  /\ reply.path \in {"/livez", "/healthz"} => reply.status \in {200, 405}
  /\ reply.status = 403 => ~IsProbePath(reply.path)
  /\ reply.path = "/metrics" /\ reply.status = 200 /\ token => reply.header = "right"

\* What the process reports is what happened: no addition to a metric and no
\* panic is lost, packets are not counted twice, probes and token answer as the
\* state demands, and a draining process is never ready again.
ReportSound ==
  /\ NothingUncounted /\ KindKept
  /\ PanicsExact /\ ExportedSound /\ LabelsBounded
  /\ AnswersSound /\ DrainingSticks

\* Refuted: while the process drains, a client that connects reads 503 from
\* /readyz.  The accept loop has been cancelled first, so it is refused.
DrainIsReported ==
  \A c \in Clients : draining => conns[c] # "refused"
=============================================================================
