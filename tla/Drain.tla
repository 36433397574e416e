------------------------------- MODULE Drain -------------------------------
(***************************************************************************)
(* The life of the gateway process around its TCP listeners: boot, the     *)
(* accept loops and their connection tasks (crates/lb/src/main.rs:         *)
(* run_listener), the signal loop (async_main), and the drain coordinator  *)
(* with its task tracker and its two cancellation tokens                   *)
(* (crates/lb-core/src/shutdown.rs: Shutdown::run_drain).                  *)
(*                                                                         *)
(* Main drains with the full specification; another caller of the same     *)
(* Shutdown may drain first, with the full specification or through the    *)
(* legacy shim drain(deadline), which marks nothing and has no listener    *)
(* phase.  Timers are steps that may come at any moment.  Metrics, and the *)
(* detach closure the binary leaves out, are not modelled; the admission   *)
(* gate is its per-listener counter (ConnGate has the rest).               *)
(***************************************************************************)
EXTENDS Naturals, FiniteSets

CONSTANTS Listeners, Conns,
          Callers, Legacy,  \* callers of run_drain; those that use drain()
          Main,             \* the caller that is async_main
          MaxInflight,      \* the gate's cap and each semaphore's permits
          Terminal,         \* SIGTERM, SIGINT
          Reloads           \* SIGHUP, SIGUSR1

ASSUME FiniteAssumption == IsFiniteSet(Listeners) /\ IsFiniteSet(Conns)
ASSUME CallersAssumption == Main \in Callers \ Legacy /\ Legacy \subseteq Callers
ASSUME InflightAssumption == MaxInflight \in Nat \ {0}

None == "none"
NoReport == [outcome |-> None, remaining |-> 0]
\* What a caller that finds no report returns in its place.
Stub == [outcome |-> "clean", remaining |-> 0]
Signals == Terminal \cup Reloads

VARIABLES
  main, sig,       \* async_main; signals latched on their streams
  ready,           \* probes: the gateway reports Ready
  loop, hand,      \* each accept loop and the socket it holds
  conn, home,      \* each client connection and the listener it went to
  gate, sem,       \* the gate's live count; free permits of each semaphore
  ltok, tok,       \* the listener token and its parent are cancelled
  closed,          \* TaskTracker::close
  dr,              \* where each caller is inside run_drain
  started, outcome, report, completed, \* DrainState and the winner's result
  ret              \* what run_drain returned to each caller

world == <<main, sig, ready>>
accept == <<loop, hand>>
clients == <<conn, home>>
slots == <<gate, sem>>
tokens == <<ltok, tok, closed>>
drain == <<dr, started, outcome, report, completed, ret>>
vars == <<world, accept, clients, slots, tokens, drain>>

Ended == {"gone", "failed", "aborted"}
Tasks == {"running", "grace", "ending", "releasing"}

\* What the tracker counts: accept loops and connection tasks.
Tracked == {l \in Listeners : loop[l] \notin Ended}
           \cup {c \in Conns : conn[c] \in Tasks}

\* A loop that ends closes its socket; what waits there is reset.
Close(l, end) ==
  /\ loop' = [loop EXCEPT ![l] = end] /\ hand' = [hand EXCEPT ![l] = None]
  /\ conn' = [c \in Conns |-> IF home[c] = l /\ conn[c] \in {"backlog", "hand"}
                              THEN "dropped" ELSE conn[c]]

\* The loop is done with the socket it holds.
Settle(l, fate) ==
  /\ loop' = [loop EXCEPT ![l] = "select"] /\ hand' = [hand EXCEPT ![l] = None]
  /\ conn' = [conn EXCEPT ![hand[l]] = fate]

Init ==
  /\ main = "boot" /\ sig = {} /\ ready = FALSE
  /\ loop = [l \in Listeners |-> "bind"] /\ hand = [l \in Listeners |-> None]
  /\ conn = [c \in Conns |-> "new"] /\ home = [c \in Conns |-> None]
  /\ gate = 0 /\ sem = [l \in Listeners |-> MaxInflight]
  /\ ltok = FALSE /\ tok = FALSE /\ closed = FALSE
  /\ dr = [k \in Callers |-> "out"] /\ started = FALSE /\ outcome = None
  /\ report = NoReport /\ completed = FALSE /\ ret = [k \in Callers |-> NoReport]
----------------------------------------------------------------------------
(* Clients. *)

Connect(c, l) ==
  /\ conn[c] = "new" /\ loop[l] \notin {"bind"} \cup Ended
  /\ conn' = [conn EXCEPT ![c] = "backlog"] /\ home' = [home EXCEPT ![c] = l]
  /\ UNCHANGED <<world, accept, slots, tokens, drain>>
----------------------------------------------------------------------------
(* run_listener. *)

\* The socket is bound inside the spawned task, whose error nobody reads.
Bind(l) ==
  /\ loop[l] = "bind"
  /\ loop' \in {[loop EXCEPT ![l] = "select"], [loop EXCEPT ![l] = "failed"]}
  /\ UNCHANGED <<world, hand, clients, slots, tokens, drain>>

\* Mutation: the cancel arm is armed only while a connection is pending.
CancelledIfPending(l) ==
  /\ loop[l] = "select" /\ ltok /\ \E c \in Conns : conn[c] = "backlog" /\ home[c] = l
  /\ Close(l, "gone")
  /\ UNCHANGED <<world, home, slots, tokens, drain>>

\* The biased cancel arm.
Cancelled(l) ==
  /\ loop[l] = "select" /\ ltok
  /\ Close(l, "gone")
  /\ UNCHANGED <<world, home, slots, tokens, drain>>

Accept(l, c) ==
  /\ loop[l] = "select" /\ ~ltok /\ conn[c] = "backlog" /\ home[c] = l
  /\ loop' = [loop EXCEPT ![l] = "check"] /\ hand' = [hand EXCEPT ![l] = c]
  /\ conn' = [conn EXCEPT ![c] = "hand"]
  /\ UNCHANGED <<world, home, slots, tokens, drain>>

\* classify_accept_error: descriptor pressure and resets back off, anything
\* else ends the loop.
AcceptError(l) ==
  /\ loop[l] = "select" /\ ~ltok
  /\ \/ loop' = [loop EXCEPT ![l] = "backoff"] /\ UNCHANGED <<hand, conn>>
     \/ Close(l, "failed")
  /\ UNCHANGED <<world, home, slots, tokens, drain>>

BackoffEnds(l) ==
  /\ loop[l] = "backoff"
  /\ loop' = [loop EXCEPT ![l] = "select"]
  /\ UNCHANGED <<world, hand, clients, slots, tokens, drain>>

\* The synchronous check between a successful accept and the admission.
TailCheck(l) ==
  /\ loop[l] = "check"
  /\ IF ltok THEN Close(l, "gone")
     ELSE loop' = [loop EXCEPT ![l] = "admit"] /\ UNCHANGED <<hand, conn>>
  /\ UNCHANGED <<world, home, slots, tokens, drain>>

\* admit_connection, before the semaphore; a refused socket is closed.
Admit(l) ==
  /\ loop[l] = "admit"
  /\ IF gate >= MaxInflight THEN Settle(l, "refused") /\ UNCHANGED gate
     ELSE /\ gate' = gate + 1
          /\ loop' = [loop EXCEPT ![l] = "acquire"] /\ UNCHANGED <<hand, conn>>
  /\ UNCHANGED <<world, home, sem, tokens, drain>>

\* Mutation: a shed connection keeps its admission slot.
AcquireLeaks(l) ==
  /\ loop[l] = "acquire"
  /\ IF sem[l] = 0 THEN Settle(l, "shed") /\ UNCHANGED <<gate, sem>>
     ELSE /\ sem' = [sem EXCEPT ![l] = @ - 1] /\ UNCHANGED gate
          /\ loop' = [loop EXCEPT ![l] = "spawn"] /\ UNCHANGED <<hand, conn>>
  /\ UNCHANGED <<world, home, tokens, drain>>

\* try_acquire_owned; a shed connection gives its admission permit back.
Acquire(l) ==
  /\ loop[l] = "acquire"
  /\ IF sem[l] = 0 THEN Settle(l, "shed") /\ gate' = gate - 1 /\ UNCHANGED sem
     ELSE /\ sem' = [sem EXCEPT ![l] = @ - 1] /\ UNCHANGED gate
          /\ loop' = [loop EXCEPT ![l] = "spawn"] /\ UNCHANGED <<hand, conn>>
  /\ UNCHANGED <<world, home, tokens, drain>>

\* The balancer picks and the task is spawned on the tracker, or the pick
\* fails and both permits are dropped.
SpawnConn(l) ==
  /\ loop[l] = "spawn"
  /\ \/ Settle(l, "running") /\ UNCHANGED slots
     \/ /\ Settle(l, "dropped")
        /\ gate' = gate - 1 /\ sem' = [sem EXCEPT ![l] = @ + 1]
  /\ UNCHANGED <<world, home, tokens, drain>>
----------------------------------------------------------------------------
(* A connection task. *)

Move(c, from, to) == conn[c] = from /\ conn' = [conn EXCEPT ![c] = to]

\* The biased cancel arm starts the per-connection grace ...
CancelConn(c) ==
  /\ tok /\ Move(c, "running", "grace")
  /\ UNCHANGED <<world, accept, home, slots, tokens, drain>>

\* ... in which the work may still finish ...
WorkEnds(c) ==
  /\ (Move(c, "running", "ending") /\ ~tok) \/ Move(c, "grace", "ending")
  /\ UNCHANGED <<world, accept, home, slots, tokens, drain>>

\* ... and after which it is abandoned.
GraceEnds(c) ==
  /\ Move(c, "grace", "ending")
  /\ UNCHANGED <<world, accept, home, slots, tokens, drain>>

\* The permits are dropped in the reverse order of their declaration.
ReleaseGate(c) ==
  /\ Move(c, "ending", "releasing")
  /\ gate' = gate - 1
  /\ UNCHANGED <<world, accept, home, sem, tokens, drain>>

ReleaseSem(c) ==
  /\ Move(c, "releasing", "done")
  /\ sem' = [sem EXCEPT ![home[c]] = @ + 1]
  /\ UNCHANGED <<world, accept, home, gate, tokens, drain>>
----------------------------------------------------------------------------
(* Shutdown::run_drain. *)

Phase(k, from, to) == dr[k] = from /\ dr' = [dr EXCEPT ![k] = to]

\* The compare-and-swap latch: one caller wins, the others poll.
Call(k) ==
  /\ IF k = Main THEN main = "drain" ELSE main # "boot"
  /\ Phase(k, "out", IF started THEN "poll" ELSE "mark")
  /\ started' = TRUE
  /\ UNCHANGED <<world, accept, clients, slots, tokens, outcome, report,
                 completed, ret>>

\* The mark_draining closure flips /readyz; the shim has none.
MarkDraining(k) ==
  /\ Phase(k, "mark", "settle")
  /\ ready' = (ready /\ k \in Legacy)
  /\ UNCHANGED <<main, sig, accept, clients, slots, tokens, started, outcome,
                 report, completed, ret>>

\* ReadinessSettle, then ListenerCancel.
CancelListeners(k) ==
  /\ Phase(k, "settle", "jitter")
  /\ ltok' = (ltok \/ k \notin Legacy)
  /\ UNCHANGED <<world, accept, clients, slots, tok, closed, started, outcome,
                 report, completed, ret>>

\* The jitter ends: close the tracker and cancel the parent token, which
\* cancels its child.
CancelAll(k) ==
  /\ Phase(k, "jitter", "wait")
  /\ closed' = TRUE /\ tok' = TRUE /\ ltok' = TRUE
  /\ UNCHANGED <<world, accept, clients, slots, started, outcome, report,
                 completed, ret>>

\* Mutation: the wait looks at the connections only.
WaitIgnoresLoops(k) ==
  /\ Phase(k, "wait", "len")
  /\ closed
  /\ outcome' = IF Tracked \cap Conns = {} THEN "clean" ELSE "timeout"
  /\ UNCHANGED <<world, accept, clients, slots, tokens, started, report,
                 completed, ret>>

\* TaskTracker::wait, under the in-flight deadline.
Wait(k) ==
  /\ Phase(k, "wait", "len")
  /\ outcome' = IF closed /\ Tracked = {} THEN "clean" ELSE "timeout"
  /\ UNCHANGED <<world, accept, clients, slots, tokens, started, report,
                 completed, ret>>

\* The length is read after the wait; the report is published ...
Publish(k) ==
  /\ Phase(k, "len", "publish")
  /\ report' = [outcome |-> outcome, remaining |-> Cardinality(Tracked)]
  /\ UNCHANGED <<world, accept, clients, slots, tokens, started, outcome,
                 completed, ret>>

\* ... before the drain is marked complete.
Complete(k) ==
  /\ Phase(k, "publish", "ret")
  /\ completed' = TRUE /\ ret' = [ret EXCEPT ![k] = report]
  /\ UNCHANGED <<world, accept, clients, slots, tokens, started, outcome, report>>

\* A caller that lost waits for the winner and returns its report; the stub
\* stands for a report that is not there.
Poll(k) ==
  /\ Phase(k, "poll", "ret")
  /\ completed
  /\ ret' = [ret EXCEPT ![k] = IF report = NoReport THEN Stub ELSE report]
  /\ UNCHANGED <<world, accept, clients, slots, tokens, started, outcome,
                 report, completed>>
----------------------------------------------------------------------------
(* async_main. *)

\* Every listener has been spawned; the probes flip to Ready.
SetReady ==
  /\ main = "boot"
  /\ main' = "wait" /\ ready' = TRUE
  /\ UNCHANGED <<sig, accept, clients, slots, tokens, drain>>

\* A signal is delivered; its stream coalesces and latches it.
Send(s) ==
  /\ main \notin {"boot", "exited"} /\ s \notin sig
  /\ sig' = sig \cup {s}
  /\ UNCHANGED <<main, ready, accept, clients, slots, tokens, drain>>

TakeSignal(s) ==
  /\ main = "wait" /\ s \in sig
  /\ sig' = sig \ {s}
  /\ main' = IF s \in Terminal THEN "drain" ELSE "serve"
  /\ UNCHANGED <<ready, accept, clients, slots, tokens, drain>>

\* reload_all_tls or reload_config is over; the loop awaits the next signal.
Served ==
  /\ main = "serve"
  /\ main' = "wait"
  /\ UNCHANGED <<sig, ready, accept, clients, slots, tokens, drain>>

\* run_drain has returned; what is left of the loops is aborted at its next
\* await, and the QUIC listeners are shut down in bounded time.
Drained ==
  /\ main = "drain" /\ dr[Main] = "ret"
  /\ main' = "after"
  /\ UNCHANGED <<sig, ready, accept, clients, slots, tokens, drain>>

AbortLoop(l) ==
  /\ main = "after" /\ loop[l] \in {"bind", "select", "backoff"}
  /\ Close(l, "aborted")
  /\ UNCHANGED <<world, home, slots, tokens, drain>>

\* The runtime is dropped with every task still on it.
Exit ==
  /\ main = "after"
  /\ main' = "exited"
  /\ loop' = [l \in Listeners |-> IF loop[l] \in Ended THEN loop[l] ELSE "aborted"]
  /\ hand' = [l \in Listeners |-> None]
  /\ conn' = [c \in Conns |-> IF conn[c] \in Tasks \cup {"backlog", "hand"}
                              THEN "killed" ELSE conn[c]]
  /\ gate' = 0 /\ sem' = [l \in Listeners |-> MaxInflight]
  /\ UNCHANGED <<sig, ready, home, tokens, drain>>
----------------------------------------------------------------------------
LoopStep(l) ==
  \/ Bind(l) \/ Cancelled(l) \/ AcceptError(l) \/ BackoffEnds(l) \/ TailCheck(l)
  \/ Admit(l) \/ Acquire(l) \/ SpawnConn(l) \/ \E c \in Conns : Accept(l, c)

CancelStep(c) == CancelConn(c) \/ GraceEnds(c) \/ ReleaseGate(c) \/ ReleaseSem(c)

DrainStep(k) ==
  /\ main # "exited"
  /\ \/ Call(k) \/ MarkDraining(k) \/ CancelListeners(k) \/ CancelAll(k) \/ Wait(k)
     \/ Publish(k) \/ Complete(k) \/ Poll(k)

MainStep == SetReady \/ Served \/ Drained \/ Exit

Next ==
  \/ \E l \in Listeners : LoopStep(l) \/ AbortLoop(l)
  \/ \E c \in Conns : CancelStep(c) \/ WorkEnds(c)
  \/ \E c \in Conns, l \in Listeners : Connect(c, l)
  \/ \E k \in Callers : DrainStep(k)
  \/ MainStep
  \/ \E s \in Signals : Send(s) \/ TakeSignal(s)

Spec == Init /\ [][Next]_vars

\* The runtime polls every task, every timer fires, and a select that is
\* offered a signal again and again takes it some time.  Nothing says that the
\* work of a connection ends, that a client connects or that a signal comes.
FairSpec ==
  /\ Spec
  /\ WF_vars(MainStep)
  /\ \A k \in Callers : WF_vars(DrainStep(k))
  /\ \A l \in Listeners : WF_vars(LoopStep(l))
  /\ \A c \in Conns : WF_vars(CancelStep(c))
  /\ \A s \in Signals : SF_vars(TakeSignal(s))
----------------------------------------------------------------------------
(* Properties. *)

TypeOK ==
  /\ main \in {"boot", "wait", "serve", "drain", "after", "exited"}
  /\ sig \subseteq Signals
  /\ {ready, ltok, tok, closed, started, completed} \subseteq BOOLEAN
  /\ loop \in [Listeners -> {"bind", "select", "backoff", "check", "admit",
                             "acquire", "spawn"} \cup Ended]
  /\ hand \in [Listeners -> Conns \cup {None}]
  /\ conn \in [Conns -> Tasks \cup {"new", "backlog", "hand", "done", "refused",
                                    "shed", "dropped", "killed"}]
  /\ home \in [Conns -> Listeners \cup {None}]
  /\ gate \in 0..MaxInflight /\ sem \in [Listeners -> 0..MaxInflight]
  /\ dr \in [Callers -> {"out", "mark", "settle", "jitter", "wait", "len",
                         "publish", "ret", "poll"}]
  /\ outcome \in {None, "clean", "timeout"}

\* A drain reported clean is final: no accept loop and no connection task is
\* left, none remained when it was counted, and none appears afterwards,
\* whatever the accept loops were doing when the tokens were cancelled.
CleanMeansQuiet ==
  report.outcome = "clean" => Tracked = {} /\ report.remaining = 0

\* Every caller of run_drain gets the report of the one drain that ran.
OneReport == \A k \in Callers : ret[k] # NoReport => completed /\ ret[k] = report

\* The report can be believed, whoever asked for it.
ReportTrue == CleanMeansQuiet /\ OneReport

\* The two permits of a connection come back exactly once, on every path out
\* of the accept loop and of the task (the counter drift that the tail check
\* of case C-3 is there to prevent).
PermitsExact ==
  /\ gate = Cardinality({l \in Listeners : loop[l] \in {"acquire", "spawn"}})
            + Cardinality({c \in Conns : conn[c] \in {"running", "grace", "ending"}})
  /\ \A l \in Listeners :
       MaxInflight - sem[l] =
         (IF loop[l] = "spawn" THEN 1 ELSE 0)
         + Cardinality({c \in Conns : conn[c] \in Tasks /\ home[c] = l})

\* The state is well-formed, no count leaves its range and none drifts
\* (run_listener and the connection's task).
SlotsExact == TypeOK /\ PermitsExact

\* Once the listener token is cancelled every accept loop leaves, from any
\* stage of an accept and from a backoff, without being aborted first.
ListenersLeave == ltok ~> (\A l \in Listeners : loop[l] \in Ended)

\* A terminal signal ends the process, through any number of reloads before
\* and around it, with connections that never finish and another caller's
\* drain in progress.
TerminalStops == \A s \in Terminal : (s \in sig) ~> (main = "exited")

\* Draining ends, for the accept loops and for the process.
DrainEnds == ListenersLeave /\ TerminalStops

\* The comment at set_ready: "now that every listener has bound".
ReadyMeansBound == ready => \A l \in Listeners : loop[l] \notin {"bind", "failed"}
============================================================================
