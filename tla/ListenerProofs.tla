--------------------------- MODULE ListenerProofs ---------------------------
(***************************************************************************)
(* The two ends of a listener's life, for any finite sets of listeners and *)
(* connections, any caps and any number of callers of run_drain: the drain *)
(* of the process, and the connection gate.                                *)
(*                                                                         *)
(* The drain's report can be believed because a quiet process stays quiet  *)
(* (QuietStays) and because one caller alone is ever inside the drain      *)
(* (OneDrains): nobody publishes twice, and nobody waits for a report that *)
(* is not there.  The permits are exact because every accept loop that     *)
(* holds a socket holds one of its own (Handed), so the counts move by     *)
(* exactly one.                                                            *)
(***************************************************************************)
EXTENDS Drain, ConnGate, FiniteSetTheorems, TLAPS

Draining == {"mark", "settle", "jitter", "wait", "len", "publish"}
Phases == Draining \cup {"out", "ret", "poll"}
Reports == [outcome : {None, "clean", "timeout"}, remaining : Nat]

ReportTypes ==
  /\ dr \in [Callers -> Phases] /\ ret \in [Callers -> Reports] /\ report \in Reports
  /\ outcome \in {None, "clean", "timeout"}
  /\ started \in BOOLEAN /\ completed \in BOOLEAN

\* The compare-and-swap latch: one caller is inside, and none once it is done.
OneDrains ==
  /\ ~started => \A k \in Callers : dr[k] = "out"
  /\ \A j, k \in Callers : dr[j] \in Draining /\ dr[k] \in Draining => j = k
  /\ completed => started /\ \A k \in Callers : dr[k] \notin Draining
  /\ ~completed => \A k \in Callers : ret[k] = NoReport

\* What the caller inside has found out.
FoundOut ==
  /\ \A k \in Callers : dr[k] = "len" => outcome # None
  /\ \A k \in Callers : dr[k] = "publish" => report.outcome # None
  /\ completed => report.outcome # None
  /\ outcome = "clean" => Tracked = {}

ReportInv == ReportTypes /\ OneDrains /\ FoundOut /\ ReportTrue

Accepting == {"check", "admit", "acquire", "spawn"}

\* The socket in the hand of an accept loop came to that loop.
Handed ==
  \A l \in Listeners : loop[l] \in Accepting =>
    hand[l] \in Conns /\ conn[hand[l]] = "hand" /\ home[hand[l]] = l

Homed == \A c \in Conns : conn[c] \in Tasks => home[c] \in Listeners

Places ==
  /\ loop \in [Listeners -> Accepting \cup {"bind", "select", "backoff"} \cup Ended]
  /\ hand \in [Listeners -> Conns \cup {None}]
  /\ conn \in [Conns -> Tasks \cup {"new", "backlog", "hand", "done", "refused", "shed",
                                     "dropped", "killed"}]
  /\ home \in [Conns -> Listeners \cup {None}]
Permits == gate \in 0..MaxInflight /\ sem \in [Listeners -> 0..MaxInflight]

\* Who holds a permit of the gate, and of the semaphore of a listener.
Passing == {l \in Listeners : loop[l] \in {"acquire", "spawn"}}
Serving == {c \in Conns : conn[c] \in {"running", "grace", "ending"}}
Holding(l) == {c \in Conns : conn[c] \in Tasks /\ home[c] = l}
Spawning(l) == IF loop[l] = "spawn" THEN 1 ELSE 0

GateExact == gate = Cardinality(Passing) + Cardinality(Serving)
SemExact(l) == MaxInflight - sem[l] = Spawning(l) + Cardinality(Holding(l))
Exact == GateExact /\ \A l \in Listeners : SemExact(l)

\* The state of async_main and of the two tokens.
World ==
  /\ main \in {"boot", "wait", "serve", "drain", "after", "exited"}
  /\ sig \subseteq Signals /\ ready \in BOOLEAN
Cancels == ltok \in BOOLEAN /\ tok \in BOOLEAN /\ closed \in BOOLEAN

SlotsInv == Places /\ Permits /\ Handed /\ Homed /\ Exact
----------------------------------------------------------------------------
(* Counting. *)

(* The size of a set of tasks: none, one more, one fewer, and the size of  *)
(* a part of a finite set is a number.                                     *)
LEMMA NoneLeft == Cardinality({}) = 0
  BY FS_EmptySet

LEMMA PartFinite ==
  ASSUME NEW S, NEW T, IsFiniteSet(S), T \subseteq S
  PROVE  IsFiniteSet(T) /\ Cardinality(T) \in Nat
  BY FS_Subset, FS_CardinalityType

LEMMA OneMore ==
  ASSUME NEW S, IsFiniteSet(S), NEW x, x \notin S
  PROVE  Cardinality(S \cup {x}) = Cardinality(S) + 1
  BY FS_AddElement

LEMMA OneFewer ==
  ASSUME NEW S, IsFiniteSet(S), NEW x \in S
  PROVE  Cardinality(S \ {x}) = Cardinality(S) - 1
  BY FS_RemoveElement

LEMMA TwoFinite ==
  ASSUME NEW S, NEW T, IsFiniteSet(S), IsFiniteSet(T)
  PROVE  IsFiniteSet(S \cup T)
  BY FS_Union, Zenon
----------------------------------------------------------------------------
(* The report. *)

(* Nothing that the tracker counts appears once it counts nothing: an      *)
(* accept loop that has ended does not start again, and a connection task  *)
(* is spawned by an accept loop.                                           *)
LEMMA QuietStays ==
  ASSUME Tracked = {}, [Next]_vars
  PROVE  Tracked' = {}
<1>1. (\A l \in Listeners : loop[l] \in Ended) /\ (\A c \in Conns : conn[c] \notin Tasks)
  BY DEF Tracked
<1>2. ASSUME NEW l \in Listeners, LoopStep(l) \/ AbortLoop(l) PROVE FALSE
  BY <1>1, <1>2 DEF LoopStep, Bind, Cancelled, AcceptError, BackoffEnds, TailCheck, Admit,
                    Acquire, SpawnConn, Accept, AbortLoop, Ended
<1>3. ASSUME NEW c \in Conns, CancelStep(c) \/ WorkEnds(c) PROVE FALSE
  BY <1>1, <1>3 DEF CancelStep, WorkEnds, CancelConn, GraceEnds, ReleaseGate, ReleaseSem, Move, Tasks
<1>4. ASSUME NEW c \in Conns, NEW l \in Listeners, Connect(c, l) PROVE FALSE
  BY <1>1, <1>4 DEF Connect
<1>5. CASE Exit
  BY <1>1, <1>5 DEF Exit, Tracked, Ended, Tasks
<1>6. ASSUME UNCHANGED <<loop, conn>> PROVE Tracked' = {}
  BY <1>1, <1>6 DEF Tracked
<1>7. ASSUME NEW k \in Callers, DrainStep(k) PROVE UNCHANGED <<loop, conn>>
  BY <1>7, Zenon DEF DrainStep, Call, MarkDraining, CancelListeners, CancelAll, Wait, Publish, Complete,
                     Poll, accept, clients
<1>8. ASSUME SetReady \/ Served \/ Drained \/ \E s \in Signals : Send(s) \/ TakeSignal(s)
      PROVE  UNCHANGED <<loop, conn>>
  BY <1>8, Zenon DEF SetReady, Served, Drained, Send, TakeSignal, accept, clients
<1>9. CASE UNCHANGED vars
  BY <1>6, <1>9 DEF vars, accept, clients
<1> QED BY <1>2, <1>3, <1>4, <1>5, <1>6, <1>7, <1>8, <1>9 DEF Next, MainStep

(* The steps outside run_drain leave the drain's own state alone.          *)
LEMMA DrainOnly ==
  ASSUME [Next]_vars, \A k \in Callers : ~DrainStep(k)
  PROVE  UNCHANGED drain
<1>1. ASSUME NEW l \in Listeners, LoopStep(l) \/ AbortLoop(l) PROVE UNCHANGED drain
  BY <1>1, Zenon DEF LoopStep, Bind, Cancelled, AcceptError, BackoffEnds, TailCheck, Admit, Acquire,
                     SpawnConn, Accept, AbortLoop
<1>2. ASSUME NEW c \in Conns, CancelStep(c) \/ WorkEnds(c) PROVE UNCHANGED drain
  BY <1>2, Zenon DEF CancelStep, WorkEnds, CancelConn, GraceEnds, ReleaseGate, ReleaseSem
<1>3. ASSUME NEW c \in Conns, NEW l \in Listeners, Connect(c, l) PROVE UNCHANGED drain
  BY <1>3, Zenon DEF Connect
<1>4. ASSUME MainStep \/ \E s \in Signals : Send(s) \/ TakeSignal(s) PROVE UNCHANGED drain
  BY <1>4, Zenon DEF MainStep, SetReady, Served, Drained, Exit, Send, TakeSignal
<1>5. CASE UNCHANGED vars
  BY <1>5 DEF vars
<1> QED BY <1>1, <1>2, <1>3, <1>4, <1>5 DEF Next

(* What the tracker counts is finite.                                      *)
LEMMA TrackedFinite ==
  ASSUME IsFiniteSet(Listeners), IsFiniteSet(Conns)
  PROVE  Cardinality(Tracked) \in Nat
<1>1. IsFiniteSet(Listeners \cup Conns)
  BY TwoFinite
<1>2. Tracked \subseteq Listeners \cup Conns
  BY DEF Tracked
<1> QED BY <1>1, <1>2, PartFinite

(* A step of run_drain (Shutdown::run_drain) keeps the latch, the outcome  *)
(* and the report in agreement.                                            *)
LEMMA DrainStepKeeps ==
  ASSUME IsFiniteSet(Listeners), IsFiniteSet(Conns), ReportInv, NEW k \in Callers, DrainStep(k)
  PROVE  ReportInv'
<1>1. Tracked' = Tracked
  <2>1. UNCHANGED <<loop, conn>>
    BY Zenon DEF DrainStep, Call, MarkDraining, CancelListeners, CancelAll, Wait, Publish, Complete,
                 Poll, accept, clients
  <2> QED BY <2>1 DEF Tracked
<1> USE <1>1 DEF ReportInv, ReportTypes, OneDrains, FoundOut, ReportTrue, CleanMeansQuiet, OneReport,
                 Phases, Draining, Phase, None
<1>2. CASE Call(k)
  BY <1>2 DEF Call
<1>3. CASE MarkDraining(k)
  BY <1>3 DEF MarkDraining
<1>4. CASE CancelListeners(k)
  BY <1>4 DEF CancelListeners
<1>5. CASE CancelAll(k)
  BY <1>5 DEF CancelAll
<1>6. CASE Wait(k)
  BY <1>6 DEF Wait
<1>7. CASE Publish(k)
  <2> DEFINE told == [outcome |-> outcome, remaining |-> Cardinality(Tracked)]
  <2>1. report' = told /\ told.outcome = outcome /\ told.remaining = Cardinality(Tracked)
    BY <1>7 DEF Publish
  <2>2. told \in Reports
    BY TrackedFinite DEF Reports
  <2>3. told.outcome = "clean" => told.remaining = 0
    BY <2>1, NoneLeft
  <2>4. ~completed
    BY <1>7 DEF Publish
  <2> HIDE DEF told
  <2> QED BY <1>7, <2>1, <2>2, <2>3, <2>4 DEF Publish
<1>8. CASE Complete(k)
  BY <1>8 DEF Complete
<1>9. CASE Poll(k)
  <2>1. report # NoReport
    BY <1>9 DEF Poll, NoReport
  <2> QED BY <1>9, <2>1 DEF Poll
<1> HIDE DEF ReportInv
<1> QED BY <1>2, <1>3, <1>4, <1>5, <1>6, <1>7, <1>8, <1>9, Zenon DEF DrainStep

(* Whoever calls run_drain and whatever the listeners do meanwhile, latch, *)
(* outcome and report stay in agreement.                                   *)
LEMMA ReportInvariant == Spec => []ReportInv
<1> USE FiniteAssumption
<1>1. Init => ReportInv
  <2>1. NoReport \in Reports /\ NoReport.outcome = None
    BY DEF NoReport, Reports
  <2> SUFFICES ASSUME Init PROVE ReportInv
    OBVIOUS
  <2>2. ReportTypes
    BY <2>1, Zenon DEF Init, ReportTypes, Phases, None
  <2>3. OneDrains /\ FoundOut
    BY DEF Init, OneDrains, FoundOut, Draining, None
  <2>4. ReportTrue
    BY <2>1 DEF Init, ReportTrue, CleanMeansQuiet, OneReport, None
  <2> QED BY <2>2, <2>3, <2>4 DEF ReportInv
<1>2. ReportInv /\ [Next]_vars => ReportInv'
  <2> SUFFICES ASSUME ReportInv, [Next]_vars PROVE ReportInv'
    OBVIOUS
  <2>1. ASSUME NEW k \in Callers, DrainStep(k) PROVE ReportInv'
    BY <2>1, DrainStepKeeps
  <2>2. CASE \A k \in Callers : ~DrainStep(k)
    <3>1. UNCHANGED drain
      BY <2>2, DrainOnly
    <3>2. UNCHANGED <<dr, started, outcome, report, completed, ret>>
      BY <3>1 DEF drain
    <3>3. Tracked = {} => Tracked' = {}
      BY QuietStays
    <3> QED BY <3>2, <3>3 DEF ReportInv, ReportTypes, OneDrains, FoundOut, ReportTrue,
                              CleanMeansQuiet, OneReport
  <2> QED BY <2>1, <2>2
<1> QED BY <1>1, <1>2, PTL DEF Spec

(* The report of a drain can be believed, for any number of listeners,     *)
(* connections and callers of run_drain: a drain that was reported clean   *)
(* left nothing behind and nothing appears later, and every caller of      *)
(* run_drain was given the report of the one drain that ran.               *)
THEOREM DrainReportTrue == Spec => []ReportTrue
<1>1. ReportInv => ReportTrue
  BY DEF ReportInv
<1> QED BY <1>1, ReportInvariant, PTL
----------------------------------------------------------------------------
(* The permits. *)

(* An accept loop and a connection task move only their own socket.        *)
LEMMA HandsKept ==
  ASSUME Places, Handed, Homed, [Next]_vars
  PROVE  Places' /\ Handed' /\ Homed'
<1> USE DEF Places, Handed, Homed, Accepting, Ended, Tasks, None, clients, accept
<1>1. ASSUME NEW l \in Listeners, NEW end \in {"gone", "failed", "aborted"}, Close(l, end),
             UNCHANGED home
      PROVE  Places' /\ Handed' /\ Homed'
  BY <1>1 DEF Close
<1>2. ASSUME NEW l \in Listeners, NEW fate \in {"refused", "shed", "dropped", "running"},
             loop[l] \in Accepting, Settle(l, fate), UNCHANGED home
      PROVE  Places' /\ Handed' /\ Homed'
  BY <1>2 DEF Settle
<1>3. ASSUME UNCHANGED <<loop, hand, conn, home>> PROVE Places' /\ Handed' /\ Homed'
  BY <1>3
<1>4. ASSUME NEW l \in Listeners, Bind(l) PROVE Places' /\ Handed' /\ Homed'
  BY <1>4 DEF Bind
<1>5. ASSUME NEW l \in Listeners, Cancelled(l) \/ AbortLoop(l) PROVE Places' /\ Handed' /\ Homed'
  BY <1>1, <1>5 DEF Cancelled, AbortLoop
<1>6. ASSUME NEW l \in Listeners, AcceptError(l) PROVE Places' /\ Handed' /\ Homed'
  BY <1>1, <1>6 DEF AcceptError
<1>7. ASSUME NEW l \in Listeners, BackoffEnds(l) PROVE Places' /\ Handed' /\ Homed'
  BY <1>7 DEF BackoffEnds
<1>8. ASSUME NEW l \in Listeners, TailCheck(l) PROVE Places' /\ Handed' /\ Homed'
  BY <1>1, <1>8 DEF TailCheck
<1>9. ASSUME NEW l \in Listeners, Admit(l) PROVE Places' /\ Handed' /\ Homed'
  BY <1>2, <1>9 DEF Admit
<1>10. ASSUME NEW l \in Listeners, Acquire(l) PROVE Places' /\ Handed' /\ Homed'
  BY <1>2, <1>10 DEF Acquire
<1>11. ASSUME NEW l \in Listeners, SpawnConn(l) PROVE Places' /\ Handed' /\ Homed'
  BY <1>2, <1>11 DEF SpawnConn
<1>12. ASSUME NEW l \in Listeners, NEW c \in Conns, Accept(l, c) PROVE Places' /\ Handed' /\ Homed'
  BY <1>12 DEF Accept
<1>13. ASSUME NEW c \in Conns, CancelStep(c) \/ WorkEnds(c) PROVE Places' /\ Handed' /\ Homed'
  BY <1>13 DEF CancelStep, WorkEnds, CancelConn, GraceEnds, ReleaseGate, ReleaseSem, Move
<1>14. ASSUME NEW c \in Conns, NEW l \in Listeners, Connect(c, l) PROVE Places' /\ Handed' /\ Homed'
  BY <1>14 DEF Connect
<1>15. CASE Exit
  BY <1>15 DEF Exit
<1>16. ASSUME \/ \E k \in Callers : DrainStep(k)
              \/ SetReady \/ Served \/ Drained
              \/ \E s \in Signals : Send(s) \/ TakeSignal(s)
              \/ UNCHANGED vars
       PROVE  UNCHANGED <<loop, hand, conn, home>>
  BY <1>16, Zenon DEF DrainStep, Call, MarkDraining, CancelListeners, CancelAll, Wait, Publish,
                      Complete, Poll, SetReady, Served, Drained, Send, TakeSignal, vars
<1> HIDE DEF Places, Handed, Homed
<1> QED BY <1>3, <1>4, <1>5, <1>6, <1>7, <1>8, <1>9, <1>10, <1>11, <1>12, <1>13, <1>14, <1>15, <1>16,
           Zenon DEF Next, LoopStep, MainStep

(* PermitsExact in these terms.                                            *)
LEMMA SlotsAre == Exact => PermitsExact
  BY Zenon DEF PermitsExact, Exact, GateExact, SemExact, Passing, Serving, Holding, Spawning

(* The holders are finitely many.                                          *)
LEMMA HoldersFinite ==
  ASSUME IsFiniteSet(Listeners), IsFiniteSet(Conns)
  PROVE  /\ IsFiniteSet(Passing) /\ Cardinality(Passing) \in Nat
         /\ IsFiniteSet(Serving) /\ Cardinality(Serving) \in Nat
         /\ \A l \in Listeners : IsFiniteSet(Holding(l)) /\ Cardinality(Holding(l)) \in Nat
<1>1. Passing \subseteq Listeners /\ Serving \subseteq Conns
  BY DEF Passing, Serving
<1>2. ASSUME NEW l \in Listeners PROVE Holding(l) \subseteq Conns
  BY DEF Holding
<1> QED BY <1>1, <1>2, PartFinite

(* A loop that ends, ends outside the admission: it drops sockets that     *)
(* hold no permit.                                                         *)
LEMMA CloseFreesNone ==
  ASSUME Places, NEW l \in Listeners, NEW end \in Ended, Close(l, end), UNCHANGED home,
         loop[l] \notin {"acquire", "spawn"}
  PROVE  /\ Passing' = Passing /\ Serving' = Serving
         /\ \A m \in Listeners : Holding(m)' = Holding(m) /\ Spawning(m)' = Spawning(m)
<1> USE DEF Places, Close, Ended, Tasks, Accepting
<1>1. Passing' = Passing
  BY DEF Passing
<1>2. Serving' = Serving
  BY DEF Serving
<1>3. ASSUME NEW m \in Listeners PROVE Holding(m)' = Holding(m) /\ Spawning(m)' = Spawning(m)
  BY DEF Holding, Spawning
<1> QED BY <1>1, <1>2, <1>3

(* A loop that settles its socket leaves the admission, and the socket is  *)
(* served or gone.                                                         *)
LEMMA SettleMovesOne ==
  ASSUME Places, Handed, NEW l \in Listeners, loop[l] \in Accepting,
         NEW fate \in {"refused", "shed", "dropped", "running"}, Settle(l, fate), UNCHANGED home
  PROVE  /\ Passing' = Passing \ {l}
         /\ hand[l] \notin Serving /\ hand[l] \notin Holding(l)
         /\ Serving' = IF fate = "running" THEN Serving \cup {hand[l]} ELSE Serving
         /\ \A m \in Listeners : m # l => Holding(m)' = Holding(m) /\ Spawning(m)' = Spawning(m)
         /\ Holding(l)' = IF fate = "running" THEN Holding(l) \cup {hand[l]} ELSE Holding(l)
         /\ Spawning(l)' = 0
<1>1. hand[l] \in Conns /\ conn[hand[l]] = "hand" /\ home[hand[l]] = l
  BY DEF Handed
<1> USE <1>1 DEF Places, Settle, Tasks
<1>2. Passing' = Passing \ {l}
  BY DEF Passing
<1>3. hand[l] \notin Serving /\ hand[l] \notin Holding(l)
  BY DEF Serving, Holding
<1>4. Serving' = IF fate = "running" THEN Serving \cup {hand[l]} ELSE Serving
  BY DEF Serving
<1>5. ASSUME NEW m \in Listeners, m # l
      PROVE  Holding(m)' = Holding(m) /\ Spawning(m)' = Spawning(m)
  BY <1>5 DEF Holding, Spawning
<1>6. Holding(l)' = IF fate = "running" THEN Holding(l) \cup {hand[l]} ELSE Holding(l)
  BY DEF Holding
<1>7. Spawning(l)' = 0
  BY DEF Spawning
<1> QED BY <1>2, <1>3, <1>4, <1>5, <1>6, <1>7

(* Both counts follow the holders, on every step of an accept loop ...     *)
LEMMA LoopsExact ==
  ASSUME IsFiniteSet(Listeners), IsFiniteSet(Conns), MaxInflight \in Nat, SlotsInv,
         NEW l \in Listeners, LoopStep(l) \/ AbortLoop(l)
  PROVE  Permits' /\ Exact'
<1>1. Places /\ Permits /\ Handed /\ GateExact /\ \A m \in Listeners : SemExact(m)
  BY DEF SlotsInv, Exact
<1>2. SUFFICES Permits' /\ GateExact' /\ \A m \in Listeners : SemExact(m)'
  BY DEF Exact
<1>3. /\ IsFiniteSet(Passing) /\ Cardinality(Passing) \in Nat
      /\ IsFiniteSet(Serving) /\ Cardinality(Serving) \in Nat
      /\ \A m \in Listeners : IsFiniteSet(Holding(m)) /\ Cardinality(Holding(m)) \in Nat
  BY HoldersFinite
<1>4. ASSUME UNCHANGED <<gate, sem>>, Passing' = Passing, Serving' = Serving,
             \A m \in Listeners : Holding(m)' = Holding(m) /\ Spawning(m)' = Spawning(m)
      PROVE  Permits' /\ GateExact' /\ \A m \in Listeners : SemExact(m)'
  BY <1>1, <1>4 DEF Permits, GateExact, SemExact
<1>5. ASSUME NEW end \in Ended, Close(l, end), UNCHANGED <<home, gate, sem>>,
             loop[l] \notin {"acquire", "spawn"}
      PROVE  Permits' /\ GateExact' /\ \A m \in Listeners : SemExact(m)'
  BY <1>1, <1>4, <1>5, CloseFreesNone
<1>6. ASSUME NEW to \in {"select", "failed", "check", "admit", "backoff"},
             loop' = [loop EXCEPT ![l] = to], loop[l] \notin {"acquire", "spawn"},
             \A c \in Conns : conn'[c] = conn[c] \/ (conn[c] = "backlog" /\ conn'[c] = "hand"),
             UNCHANGED <<home, gate, sem>>
      PROVE  Permits' /\ GateExact' /\ \A m \in Listeners : SemExact(m)'
  <2>1. Passing' = Passing
    BY <1>1, <1>6 DEF Passing, Places
  <2>2. Serving' = Serving
    BY <1>6 DEF Serving
  <2>3. ASSUME NEW m \in Listeners PROVE Holding(m)' = Holding(m) /\ Spawning(m)' = Spawning(m)
    BY <1>1, <1>6 DEF Holding, Spawning, Tasks, Places
  <2> QED BY <1>4, <1>6, <2>1, <2>2, <2>3
<1>7. CASE Bind(l) \/ BackoffEnds(l)
  BY <1>6, <1>7 DEF Bind, BackoffEnds, clients, slots
<1>8. CASE Cancelled(l) \/ AbortLoop(l)
  BY <1>5, <1>8 DEF Cancelled, AbortLoop, slots, Ended
<1>9. CASE AcceptError(l)
  BY <1>5, <1>6, <1>9 DEF AcceptError, slots, Ended
<1>10. CASE TailCheck(l)
  BY <1>5, <1>6, <1>10 DEF TailCheck, slots, Ended
<1>11. ASSUME NEW c \in Conns, Accept(l, c)
       PROVE  Permits' /\ GateExact' /\ \A m \in Listeners : SemExact(m)'
  BY <1>1, <1>6, <1>11 DEF Accept, slots, Places
<1>12. CASE Admit(l)
  <2>1. CASE gate >= MaxInflight
    <3>1. loop[l] \in Accepting /\ Settle(l, "refused") /\ UNCHANGED <<home, gate, sem>>
      BY <1>12, <2>1 DEF Admit, Accepting
    <3>2. l \notin Passing /\ Spawning(l) = 0
      BY <1>12 DEF Admit, Passing, Spawning
    <3> QED BY <1>1, <1>4, <3>1, <3>2, SettleMovesOne
  <2>2. CASE ~(gate >= MaxInflight)
    <3>1. /\ gate' = gate + 1 /\ loop' = [loop EXCEPT ![l] = "acquire"]
          /\ UNCHANGED <<conn, home, sem>> /\ loop[l] = "admit"
      BY <1>12, <2>2 DEF Admit
    <3>2. Passing' = Passing \cup {l} /\ l \notin Passing
      BY <1>1, <3>1 DEF Passing, Places
    <3>3. Cardinality(Passing') = Cardinality(Passing) + 1
      BY <1>3, <3>2, OneMore
    <3>4. Serving' = Serving
      BY <3>1 DEF Serving
    <3>5. ASSUME NEW m \in Listeners PROVE Holding(m)' = Holding(m) /\ Spawning(m)' = Spawning(m)
      BY <1>1, <3>1 DEF Holding, Spawning, Places
    <3>6. Permits'
      BY <1>1, <2>2, <3>1 DEF Permits
    <3> QED BY <1>1, <1>3, <3>1, <3>3, <3>4, <3>5, <3>6 DEF GateExact, SemExact, Permits
  <2> QED BY <2>1, <2>2
<1>13. CASE Acquire(l)
  <2>1. l \in Passing /\ Spawning(l) = 0 /\ loop[l] \in Accepting
    BY <1>13 DEF Acquire, Passing, Spawning, Accepting
  <2>2. CASE sem[l] = 0
    <3>1. Settle(l, "shed") /\ gate' = gate - 1 /\ UNCHANGED <<home, sem>>
      BY <1>13, <2>2 DEF Acquire
    <3>2. /\ Passing' = Passing \ {l} /\ Serving' = Serving
          /\ \A m \in Listeners : Holding(m)' = Holding(m) /\ Spawning(m)' = Spawning(m)
      BY <1>1, <2>1, <3>1, SettleMovesOne
    <3>3. Cardinality(Passing') = Cardinality(Passing) - 1
      BY <1>3, <2>1, <3>2, OneFewer
    <3>4. GateExact'
      BY <1>1, <1>3, <3>1, <3>2, <3>3 DEF GateExact
    <3>5. gate' \in Nat
      <4>1. Cardinality(Passing') \in Nat
        BY <1>3, <3>2, PartFinite
      <4> QED BY <1>3, <3>2, <3>4, <4>1 DEF GateExact
    <3> QED BY <1>1, <3>1, <3>2, <3>4, <3>5 DEF SemExact, Permits
  <2>3. CASE sem[l] # 0
    <3>1. /\ sem' = [sem EXCEPT ![l] = @ - 1] /\ loop' = [loop EXCEPT ![l] = "spawn"]
          /\ UNCHANGED <<conn, home, gate>>
      BY <1>13, <2>3 DEF Acquire
    <3>2. Passing' = Passing /\ Serving' = Serving
      BY <1>1, <2>1, <3>1 DEF Passing, Serving, Places
    <3>3. ASSUME NEW m \in Listeners
          PROVE  Holding(m)' = Holding(m) /\ Spawning(m)' = IF m = l THEN 1 ELSE Spawning(m)
      BY <1>1, <3>1 DEF Holding, Spawning, Places
    <3>4. Permits'
      BY <1>1, <2>3, <3>1 DEF Permits
    <3>5. GateExact'
      BY <1>1, <3>1, <3>2 DEF GateExact
    <3>6. ASSUME NEW m \in Listeners PROVE SemExact(m)'
      BY <1>1, <1>3, <2>1, <3>1, <3>3 DEF SemExact, Permits
    <3> QED BY <3>4, <3>5, <3>6
  <2> QED BY <2>2, <2>3
<1>14. CASE SpawnConn(l)
  <2>1. l \in Passing /\ Spawning(l) = 1 /\ loop[l] \in Accepting
    BY <1>14 DEF SpawnConn, Passing, Spawning, Accepting
  <2>2. CASE Settle(l, "running") /\ UNCHANGED <<home, gate, sem>>
    <3>1. /\ Passing' = Passing \ {l} /\ Serving' = Serving \cup {hand[l]}
          /\ Holding(l)' = Holding(l) \cup {hand[l]} /\ Spawning(l)' = 0
          /\ hand[l] \notin Serving /\ hand[l] \notin Holding(l)
          /\ \A m \in Listeners : m # l => Holding(m)' = Holding(m) /\ Spawning(m)' = Spawning(m)
      BY <1>1, <2>1, <2>2, SettleMovesOne
    <3>2. /\ Cardinality(Passing') = Cardinality(Passing) - 1
          /\ Cardinality(Serving') = Cardinality(Serving) + 1
          /\ Cardinality(Holding(l)') = Cardinality(Holding(l)) + 1
      BY <1>3, <2>1, <3>1, OneFewer, OneMore
    <3>3. GateExact'
      BY <1>1, <1>3, <2>2, <3>2 DEF GateExact, Permits
    <3>4. ASSUME NEW m \in Listeners, m # l PROVE SemExact(m)'
      BY <1>1, <2>2, <3>1, <3>4 DEF SemExact
    <3>5. SemExact(l)'
      BY <1>1, <1>3, <2>1, <2>2, <3>1, <3>2 DEF SemExact, Permits
    <3>6. Permits'
      BY <1>1, <2>2 DEF Permits
    <3> QED BY <3>3, <3>4, <3>5, <3>6
  <2>3. CASE /\ Settle(l, "dropped") /\ gate' = gate - 1 /\ sem' = [sem EXCEPT ![l] = @ + 1]
             /\ UNCHANGED home
    <3>1. /\ Passing' = Passing \ {l} /\ Serving' = Serving
          /\ Holding(l)' = Holding(l) /\ Spawning(l)' = 0
          /\ \A m \in Listeners : m # l => Holding(m)' = Holding(m) /\ Spawning(m)' = Spawning(m)
      BY <1>1, <2>1, <2>3, SettleMovesOne
    <3>2. Cardinality(Passing') = Cardinality(Passing) - 1 /\ Cardinality(Passing') \in Nat
      BY <1>3, <2>1, <3>1, OneFewer, PartFinite
    <3>3. GateExact'
      BY <1>1, <1>3, <2>3, <3>1, <3>2 DEF GateExact, Permits
    <3>4. ASSUME NEW m \in Listeners PROVE SemExact(m)'
      BY <1>1, <1>3, <2>1, <2>3, <3>1 DEF SemExact, Permits
    <3>5. gate' \in Nat
      BY <1>3, <3>1, <3>2, <3>3 DEF GateExact
    <3>6. sem[l] + 1 \in 0..MaxInflight
      BY <1>1, <1>3, <2>1 DEF SemExact, Permits
    <3>7. Permits'
      BY <1>1, <2>3, <3>5, <3>6 DEF Permits
    <3> QED BY <3>3, <3>4, <3>7
  <2> QED BY <1>14, <2>2, <2>3 DEF SpawnConn, slots
<1> QED BY <1>7, <1>8, <1>9, <1>10, <1>11, <1>12, <1>13, <1>14, Zenon DEF LoopStep

(* ... and on every other step: a task gives back the gate's permit, then  *)
(* its listener's, and the exit of the process takes everything down.      *)
LEMMA TasksExact ==
  ASSUME IsFiniteSet(Listeners), IsFiniteSet(Conns), MaxInflight \in Nat, SlotsInv, [Next]_vars,
         \A l \in Listeners : ~LoopStep(l) /\ ~AbortLoop(l)
  PROVE  Permits' /\ Exact'
<1>1. Places /\ Permits /\ Homed /\ GateExact /\ \A m \in Listeners : SemExact(m)
  BY DEF SlotsInv, Exact
<1>2. SUFFICES Permits' /\ GateExact' /\ \A m \in Listeners : SemExact(m)'
  BY DEF Exact
<1>3. /\ IsFiniteSet(Serving) /\ Cardinality(Serving) \in Nat /\ Cardinality(Passing) \in Nat
      /\ \A m \in Listeners : IsFiniteSet(Holding(m)) /\ Cardinality(Holding(m)) \in Nat
  BY HoldersFinite
<1>4. ASSUME UNCHANGED <<loop, home>>, Serving' = Serving, UNCHANGED <<gate, sem>>,
             \A m \in Listeners : Holding(m)' = Holding(m)
      PROVE  Permits' /\ GateExact' /\ \A m \in Listeners : SemExact(m)'
  BY <1>1, <1>4 DEF Permits, GateExact, SemExact, Passing, Spawning
<1>5. ASSUME NEW c \in Conns, CancelConn(c) \/ WorkEnds(c) \/ GraceEnds(c)
      PROVE  Permits' /\ GateExact' /\ \A m \in Listeners : SemExact(m)'
  <2>1. UNCHANGED <<loop, home>> /\ UNCHANGED <<gate, sem>>
    BY <1>5, Zenon DEF CancelConn, WorkEnds, GraceEnds, accept, slots
  <2>2. Serving' = Serving /\ \A m \in Listeners : Holding(m)' = Holding(m)
    BY <1>1, <1>5 DEF CancelConn, WorkEnds, GraceEnds, Move, Serving, Holding, Tasks, Places
  <2> QED BY <1>4, <2>1, <2>2
<1>6. ASSUME NEW c \in Conns, NEW l \in Listeners, Connect(c, l)
      PROVE  Permits' /\ GateExact' /\ \A m \in Listeners : SemExact(m)'
  <2>1. UNCHANGED loop /\ UNCHANGED <<gate, sem>>
    BY <1>6, Zenon DEF Connect, accept, slots
  <2>2. Serving' = Serving /\ \A m \in Listeners : Holding(m)' = Holding(m)
    BY <1>1, <1>6 DEF Connect, Serving, Holding, Tasks, Places
  <2> QED BY <1>1, <2>1, <2>2 DEF Permits, GateExact, SemExact, Passing, Spawning
<1>7. ASSUME NEW c \in Conns, ReleaseGate(c)
      PROVE  Permits' /\ GateExact' /\ \A m \in Listeners : SemExact(m)'
  <2>1. UNCHANGED <<loop, home, sem>> /\ gate' = gate - 1 /\ c \in Serving
    BY <1>7 DEF ReleaseGate, Move, Serving, accept
  <2>2. Serving' = Serving \ {c} /\ \A m \in Listeners : Holding(m)' = Holding(m)
    BY <1>1, <1>7 DEF ReleaseGate, Move, Serving, Holding, Tasks, Places
  <2>3. Cardinality(Serving') = Cardinality(Serving) - 1 /\ Cardinality(Serving') \in Nat
    BY <1>3, <2>1, <2>2, OneFewer, PartFinite
  <2>4. GateExact' /\ gate' \in Nat
    BY <1>1, <1>3, <2>1, <2>3 DEF GateExact, Permits, Passing
  <2> QED BY <1>1, <2>1, <2>2, <2>4 DEF SemExact, Permits, Spawning
<1>8. ASSUME NEW c \in Conns, ReleaseSem(c)
      PROVE  Permits' /\ GateExact' /\ \A m \in Listeners : SemExact(m)'
  <2>0. PICK h \in Listeners : h = home[c]
    BY <1>1, <1>8 DEF ReleaseSem, Move, Homed, Tasks
  <2>1. c \in Holding(h) /\ sem' = [sem EXCEPT ![h] = @ + 1]
    BY <1>8, <2>0 DEF ReleaseSem, Move, Holding, Tasks
  <2>2. UNCHANGED <<loop, home, gate>>
    BY <1>8 DEF ReleaseSem, accept
  <2>3. Serving' = Serving /\ Holding(h)' = Holding(h) \ {c}
        /\ \A m \in Listeners : m # h => Holding(m)' = Holding(m)
    BY <1>1, <1>8, <2>0 DEF ReleaseSem, Move, Serving, Holding, Tasks, Places
  <2>4. /\ Cardinality(Holding(h)') = Cardinality(Holding(h)) - 1
        /\ Cardinality(Holding(h)') \in Nat
    BY <1>3, <2>1, <2>3, OneFewer, PartFinite
  <2>5. GateExact'
    BY <1>1, <2>2, <2>3 DEF GateExact, Passing
  <2>6. ASSUME NEW m \in Listeners, m # h PROVE SemExact(m)'
    BY <1>1, <2>1, <2>2, <2>3, <2>6 DEF SemExact, Spawning, Permits
  <2>7. Spawning(h) \in {0, 1} /\ Spawning(h)' = Spawning(h)
    BY <2>2 DEF Spawning
  <2>8. sem[h] \in 0..MaxInflight /\ sem'[h] = sem[h] + 1
    BY <1>1, <2>1 DEF Permits
  <2>9. SemExact(h)' /\ sem'[h] \in 0..MaxInflight
    BY <1>1, <1>3, <2>1, <2>4, <2>7, <2>8 DEF SemExact
  <2>10. Permits'
    BY <1>1, <2>1, <2>2, <2>9 DEF Permits
  <2> QED BY <2>5, <2>6, <2>9, <2>10
<1>9. CASE Exit
  <2>1. gate' = 0 /\ sem' = [l \in Listeners |-> MaxInflight]
    BY <1>9 DEF Exit
  <2>2. Passing' = {} /\ Serving' = {}
    BY <1>9 DEF Exit, Passing, Serving, Tasks, Ended
  <2>3. ASSUME NEW m \in Listeners PROVE Holding(m)' = {} /\ Spawning(m)' = 0
    BY <1>9 DEF Exit, Holding, Spawning, Tasks, Ended
  <2> QED BY <2>1, <2>2, <2>3, NoneLeft DEF Permits, GateExact, SemExact
<1>10. ASSUME \/ \E k \in Callers : DrainStep(k)
              \/ SetReady \/ Served \/ Drained
              \/ \E s \in Signals : Send(s) \/ TakeSignal(s)
              \/ UNCHANGED vars
       PROVE  UNCHANGED <<loop, home>> /\ UNCHANGED conn /\ UNCHANGED <<gate, sem>>
  BY <1>10, Zenon DEF DrainStep, Call, MarkDraining, CancelListeners, CancelAll, Wait, Publish,
                      Complete, Poll, SetReady, Served, Drained, Send, TakeSignal, vars, accept,
                      clients, slots
<1>11. ASSUME UNCHANGED <<loop, home>>, UNCHANGED conn, UNCHANGED <<gate, sem>>
       PROVE  Permits' /\ GateExact' /\ \A m \in Listeners : SemExact(m)'
  BY <1>4, <1>11 DEF Serving, Holding
<1> QED BY <1>5, <1>6, <1>7, <1>8, <1>9, <1>10, <1>11, Zenon DEF Next, CancelStep, MainStep

(* The main task, the signals and the tokens keep their types.             *)
LEMMA WorldKept ==
  ASSUME World, Cancels, [Next]_vars
  PROVE  World' /\ Cancels'
<1> USE DEF World, Cancels
<1>1. ASSUME UNCHANGED <<world, tokens>> PROVE World' /\ Cancels'
  BY <1>1, Zenon DEF world, tokens
<1>2. ASSUME NEW l \in Listeners, LoopStep(l) \/ AbortLoop(l) PROVE UNCHANGED <<world, tokens>>
  BY <1>2, Zenon DEF LoopStep, Bind, Cancelled, AcceptError, BackoffEnds, TailCheck, Admit, Acquire,
                     SpawnConn, Accept, AbortLoop
<1>3. ASSUME NEW c \in Conns, CancelStep(c) \/ WorkEnds(c) PROVE UNCHANGED <<world, tokens>>
  BY <1>3, Zenon DEF CancelStep, WorkEnds, CancelConn, GraceEnds, ReleaseGate, ReleaseSem
<1>4. ASSUME NEW c \in Conns, NEW l \in Listeners, Connect(c, l) PROVE UNCHANGED <<world, tokens>>
  BY <1>4, Zenon DEF Connect
<1>5. ASSUME NEW k \in Callers, Call(k) \/ Wait(k) \/ Publish(k) \/ Complete(k) \/ Poll(k)
      PROVE  UNCHANGED <<world, tokens>>
  BY <1>5, Zenon DEF Call, Wait, Publish, Complete, Poll
<1>6. ASSUME NEW k \in Callers, MarkDraining(k) PROVE World' /\ Cancels'
  BY <1>6, Zenon DEF MarkDraining, tokens
<1>7. ASSUME NEW k \in Callers, CancelListeners(k) \/ CancelAll(k) PROVE World' /\ Cancels'
  BY <1>7, Zenon DEF CancelListeners, CancelAll, world
<1>8. CASE MainStep
  BY <1>8, Zenon DEF MainStep, SetReady, Served, Drained, Exit, tokens
<1>9. ASSUME NEW s \in Signals, Send(s) \/ TakeSignal(s) PROVE World' /\ Cancels'
  BY <1>9 DEF Send, TakeSignal, tokens
<1>10. CASE UNCHANGED vars
  BY <1>1, <1>10 DEF vars
<1> HIDE DEF World, Cancels
<1> QED BY <1>1, <1>2, <1>3, <1>4, <1>5, <1>6, <1>7, <1>8, <1>9, <1>10, Zenon DEF Next, DrainStep

(* What the invariants say covers the types.                               *)
LEMMA TypesCovered == ReportInv /\ SlotsInv /\ World /\ Cancels => TypeOK
<1> SUFFICES ASSUME ReportInv, SlotsInv, World, Cancels PROVE TypeOK
  OBVIOUS
<1>1. {ready, ltok, tok, closed, started, completed} \subseteq BOOLEAN
  BY Zenon DEF ReportInv, ReportTypes, World, Cancels
<1>2. dr \in [Callers -> {"out", "mark", "settle", "jitter", "wait", "len", "publish", "ret", "poll"}]
  BY DEF ReportInv, ReportTypes, Phases, Draining
<1>3. loop \in [Listeners -> {"bind", "select", "backoff", "check", "admit", "acquire", "spawn"}
                             \cup Ended]
  BY DEF SlotsInv, Places, Accepting
<1> QED BY <1>1, <1>2, <1>3, Zenon DEF TypeOK, ReportInv, ReportTypes, SlotsInv, Places, Permits, World

(* Both permits of a connection come back exactly once on every path out   *)
(* of run_listener and of the connection's task, for any number of         *)
(* listeners and connections: the gate and the semaphores count their      *)
(* holders, no more and no fewer, and so never pass the cap; and the state *)
(* of the process is well-formed throughout.                               *)
THEOREM DrainSlotsExact == Spec => []SlotsExact
<1> USE FiniteAssumption, InflightAssumption
<1>1. Init => SlotsInv /\ World /\ Cancels
  <2> SUFFICES ASSUME Init PROVE SlotsInv /\ World /\ Cancels
    OBVIOUS
  <2>1. Places /\ Permits /\ Handed /\ Homed
    BY DEF Init, Places, Permits, Handed, Homed, Accepting, Tasks
  <2>2. Passing = {} /\ Serving = {} /\ \A m \in Listeners : Holding(m) = {} /\ Spawning(m) = 0
    BY DEF Init, Passing, Serving, Holding, Spawning, Tasks
  <2>3. Exact
    BY <2>2, NoneLeft DEF Init, Exact, GateExact, SemExact
  <2>4. World /\ Cancels
    BY Zenon DEF Init, World, Cancels
  <2> QED BY <2>1, <2>3, <2>4 DEF SlotsInv
<1>2. SlotsInv /\ World /\ Cancels /\ [Next]_vars => (SlotsInv /\ World /\ Cancels)'
  <2> SUFFICES ASSUME SlotsInv, World, Cancels, [Next]_vars PROVE SlotsInv' /\ World' /\ Cancels'
    BY Zenon
  <2>1. Places' /\ Handed' /\ Homed'
    BY HandsKept DEF SlotsInv
  <2>2. Permits' /\ Exact'
    BY LoopsExact, TasksExact
  <2>3. World' /\ Cancels'
    BY WorldKept
  <2> QED BY <2>1, <2>2, <2>3 DEF SlotsInv
<1>3. ReportInv /\ SlotsInv /\ World /\ Cancels => SlotsExact
  BY SlotsAre, TypesCovered DEF SlotsInv, SlotsExact
<1> QED BY <1>1, <1>2, <1>3, ReportInvariant, PTL DEF Spec

-----------------------------------------------------------------------------
(***************************************************************************)
(* The caps of the connection gate: the two counters are the sizes of two  *)
(* sets of connections.                                                    *)
(***************************************************************************)

Stage == {"idle", "reserved", "rollback", "held", "gc", "release"}

PcOK == pc \in [Sockets -> Stage]
CountsOK == /\ perListener \in Nat /\ perIp \in [Peers -> Nat]
            /\ entries \subseteq Peers
ListenerCount == Cardinality(Counted) = perListener /\ perListener <= ListenerCap
PeerCount == \A p \in Peers : /\ Cardinality(Held(p)) = perIp[p]
                              /\ perIp[p] <= PerIpCap

\* A permit's address has an entry: Drop always finds the counter it must
\* decrement.  An entry without a permit is about to be collected.
EntryForPermit == \A p \in Peers : perIp[p] > 0 => p \in entries
ZeroIsCollected ==
  \A p \in entries : perIp[p] > 0 \/ \E c \in Sockets : PeerOf[c] = p /\ pc[c] = "gc"

IInv == /\ PcOK /\ CountsOK /\ ListenerCount /\ PeerCount /\ EntryForPermit
        /\ ZeroIsCollected
----------------------------------------------------------------------------
\* The sets the counters count are finite.
LEMMA SetsFinite == /\ IsFiniteSet(Counted)
                    /\ \A p \in Peers : IsFiniteSet(Held(p))
<1>1. Counted \subseteq Sockets /\ \A p \in Peers : Held(p) \subseteq Sockets
  BY DEF Counted, Held
<1> QED
  BY <1>1, SocketsAssumption, FS_Subset

LEMMA InitInv == GateInit => IInv
<1> SUFFICES ASSUME GateInit PROVE IInv
  OBVIOUS
<1> USE CapAssumption DEF GateInit
<1>1. PcOK /\ CountsOK
  BY DEF PcOK, CountsOK, Stage
<1>2. Counted = {} /\ \A p \in Peers : Held(p) = {}
  BY DEF Counted, Held
<1>3. ListenerCount /\ PeerCount
  BY <1>2, FS_EmptySet DEF ListenerCount, PeerCount
<1>4. EntryForPermit /\ ZeroIsCollected
  BY DEF EntryForPermit, ZeroIsCollected
<1> QED
  BY <1>1, <1>3, <1>4 DEF IInv

\* A connection that enters or leaves the gate changes the count by one.
LEMMA CountedAdd ==
  ASSUME PcOK, NEW c \in Sockets, NEW s \in Stage, pc[c] = "idle", s # "idle",
         pc' = [pc EXCEPT ![c] = s]
  PROVE  Cardinality(Counted') = Cardinality(Counted) + 1
<1>1. Counted' = Counted \cup {c} /\ c \notin Counted
  BY DEF Counted, PcOK
<1> QED
  BY <1>1, SetsFinite, FS_AddElement

LEMMA CountedRemove ==
  ASSUME PcOK, NEW c \in Sockets, pc[c] # "idle", pc' = [pc EXCEPT ![c] = "idle"]
  PROVE  Cardinality(Counted') = Cardinality(Counted) - 1
<1>1. Counted' = Counted \ {c} /\ c \in Counted
  BY DEF Counted, PcOK
<1> QED
  BY <1>1, SetsFinite, FS_RemoveElement

LEMMA CountedSame ==
  ASSUME PcOK, NEW c \in Sockets, NEW s \in Stage, pc[c] # "idle", s # "idle",
         pc' = [pc EXCEPT ![c] = s]
  PROVE  Counted' = Counted
BY DEF Counted, PcOK

\* The same for the permits of one address.
LEMMA HeldAdd ==
  ASSUME PcOK, NEW c \in Sockets, pc[c] # "held", pc' = [pc EXCEPT ![c] = "held"]
  PROVE  /\ Cardinality(Held(PeerOf[c])') = Cardinality(Held(PeerOf[c])) + 1
         /\ \A p \in Peers : p # PeerOf[c] => Held(p)' = Held(p)
<1>1. Held(PeerOf[c])' = Held(PeerOf[c]) \cup {c} /\ c \notin Held(PeerOf[c])
  BY DEF Held, PcOK
<1>2. PeerOf[c] \in Peers
  BY PeerAssumption
<1>3. \A p \in Peers : p # PeerOf[c] => Held(p)' = Held(p)
  BY DEF Held, PcOK
<1>4. Cardinality(Held(PeerOf[c]) \cup {c}) = Cardinality(Held(PeerOf[c])) + 1
  BY <1>1, <1>2, SetsFinite, FS_AddElement, Zenon
<1> QED
  BY <1>1, <1>3, <1>4, Zenon

LEMMA HeldRemove ==
  ASSUME PcOK, NEW c \in Sockets, NEW s \in Stage, pc[c] = "held", s # "held",
         pc' = [pc EXCEPT ![c] = s]
  PROVE  /\ Cardinality(Held(PeerOf[c])') = Cardinality(Held(PeerOf[c])) - 1
         /\ \A p \in Peers : p # PeerOf[c] => Held(p)' = Held(p)
<1>1. Held(PeerOf[c])' = Held(PeerOf[c]) \ {c} /\ c \in Held(PeerOf[c])
  BY DEF Held, PcOK
<1>2. PeerOf[c] \in Peers
  BY PeerAssumption
<1>3. \A p \in Peers : p # PeerOf[c] => Held(p)' = Held(p)
  BY DEF Held, PcOK
<1>4. Cardinality(Held(PeerOf[c]) \ {c}) = Cardinality(Held(PeerOf[c])) - 1
  BY <1>1, <1>2, SetsFinite, FS_RemoveElement, Zenon
<1> QED
  BY <1>1, <1>3, <1>4, Zenon

LEMMA HeldSame ==
  ASSUME PcOK, NEW c \in Sockets, NEW s \in Stage, pc[c] # "held", s # "held",
         pc' = [pc EXCEPT ![c] = s]
  PROVE  \A p \in Peers : Held(p)' = Held(p)
BY DEF Held, PcOK
----------------------------------------------------------------------------
\* Every atomic step of admit and of drop preserves the invariant.
LEMMA StepInv == IInv /\ [GateNext]_gateVars => IInv'
<1> SUFFICES ASSUME IInv, [GateNext]_gateVars PROVE IInv'
  OBVIOUS
<1>0. /\ "reserved" \in Stage /\ "rollback" \in Stage /\ "held" \in Stage
      /\ "release" \in Stage
      /\ "reserved" \notin {"idle", "held"} /\ "rollback" \notin {"idle", "held"}
      /\ "release" \notin {"idle", "held"} /\ "held" # "idle" /\ "gc" # "held"
      /\ "gc" # "idle" /\ "idle" \in Stage
  BY DEF Stage
<1>1. ASSUME NEW c \in Sockets, Reserve(c) PROVE IInv'
  <2>1. /\ pc' = [pc EXCEPT ![c] = "reserved"] /\ pc[c] = "idle" /\ PcOK
        /\ perListener < ListenerCap /\ perListener' = perListener + 1
        /\ perIp' = perIp /\ entries' = entries
    BY <1>1 DEF Reserve, IInv
  <2>2. PcOK' /\ CountsOK'
    BY <2>1 DEF IInv, PcOK, CountsOK, Stage
  <2>3. Cardinality(Counted') = Cardinality(Counted) + 1
    BY <1>0, <2>1, CountedAdd, Zenon
  <2>4. \A p \in Peers : Held(p)' = Held(p)
    BY <1>0, <2>1, HeldSame, Zenon
  <2>5. ListenerCount'
    BY <2>1, <2>3, CapAssumption DEF IInv, ListenerCount, CountsOK
  <2>6. PeerCount' /\ EntryForPermit'
    BY <2>1, <2>4 DEF IInv, PeerCount, EntryForPermit
  <2>7. ZeroIsCollected'
    BY <2>1 DEF IInv, ZeroIsCollected, PcOK
  <2> QED
    BY <2>2, <2>5, <2>6, <2>7 DEF IInv
<1>2. ASSUME NEW c \in Sockets, CountPeer(c) PROVE IInv'
  <2> DEFINE q == PeerOf[c]
  <2>0. q \in Peers /\ PcOK /\ pc[c] = "reserved"
    BY <1>2, PeerAssumption DEF IInv, CountPeer
  <2>1. CASE perIp[q] >= PerIpCap
    <3>1. /\ pc' = [pc EXCEPT ![c] = "rollback"] /\ perIp' = perIp
          /\ perListener' = perListener /\ entries' = entries \cup {q}
      BY <1>2, <2>1 DEF CountPeer
    <3>2. Counted' = Counted /\ \A p \in Peers : Held(p)' = Held(p)
      BY <1>0, <2>0, <3>1, CountedSame, HeldSame, Zenon
    <3>3. PcOK' /\ CountsOK'
      BY <2>0, <3>1 DEF IInv, PcOK, CountsOK, Stage
    <3>4. ListenerCount' /\ PeerCount' /\ EntryForPermit'
      BY <3>1, <3>2 DEF IInv, ListenerCount, PeerCount, EntryForPermit
    <3>5. perIp[q] > 0
      BY <2>0, <2>1, CapAssumption DEF IInv, CountsOK
    <3>6. ZeroIsCollected'
      BY <2>0, <3>1, <3>5 DEF IInv, ZeroIsCollected, PcOK
    <3> QED
      BY <3>3, <3>4, <3>6 DEF IInv
  <2>2. CASE ~(perIp[q] >= PerIpCap)
    <3>1. /\ pc' = [pc EXCEPT ![c] = "held"]
          /\ perIp' = [perIp EXCEPT ![q] = @ + 1]
          /\ perListener' = perListener /\ entries' = entries \cup {q}
      BY <1>2, <2>2 DEF CountPeer
    <3>2. Counted' = Counted
      BY <1>0, <2>0, <3>1, CountedSame, Zenon
    <3>3. /\ Cardinality(Held(q)') = Cardinality(Held(q)) + 1
          /\ \A p \in Peers : p # q => Held(p)' = Held(p)
      BY <1>0, <2>0, <3>1, HeldAdd, Zenon
    <3>4. PcOK' /\ CountsOK'
      BY <2>0, <3>1 DEF IInv, PcOK, CountsOK, Stage
    <3>5. ListenerCount'
      BY <3>1, <3>2 DEF IInv, ListenerCount
    <3>6. PeerCount'
      BY <2>0, <2>2, <3>1, <3>3, CapAssumption DEF IInv, PeerCount, CountsOK
    <3>7. EntryForPermit' /\ ZeroIsCollected'
      BY <2>0, <3>1 DEF IInv, EntryForPermit, ZeroIsCollected, CountsOK, PcOK
    <3> QED
      BY <3>4, <3>5, <3>6, <3>7 DEF IInv
  <2> QED
    BY <2>1, <2>2
<1>3. ASSUME NEW c \in Sockets, Rollback(c) \/ Release(c) PROVE IInv'
  <2>1. /\ pc' = [pc EXCEPT ![c] = "idle"] /\ pc[c] \in {"rollback", "release"}
        /\ perListener' = perListener - 1 /\ perIp' = perIp /\ entries' = entries
        /\ PcOK
    BY <1>3 DEF Rollback, Release, IInv
  <2>2. Cardinality(Counted') = Cardinality(Counted) - 1
    BY <1>0, <2>1, CountedRemove, Zenon
  <2>3. \A p \in Peers : Held(p)' = Held(p)
    BY <1>0, <2>1, HeldSame, Zenon
  <2>4. Cardinality(Counted') \in Nat
    <3>1. Counted' \subseteq Sockets
      BY DEF Counted
    <3> QED
      BY <3>1, SocketsAssumption, FS_Subset, FS_CardinalityType
  <2>5. PcOK' /\ CountsOK' /\ ListenerCount'
    BY <2>1, <2>2, <2>4, CapAssumption
       DEF IInv, PcOK, CountsOK, ListenerCount, Stage
  <2>6. PeerCount' /\ EntryForPermit'
    BY <2>1, <2>3 DEF IInv, PeerCount, EntryForPermit
  <2>7. ZeroIsCollected'
    BY <2>1 DEF IInv, ZeroIsCollected, PcOK
  <2> QED
    BY <2>5, <2>6, <2>7 DEF IInv
<1>4. ASSUME NEW c \in Sockets, DropPeer(c) PROVE IInv'
  <2> DEFINE q == PeerOf[c]
             s == IF perIp[q] <= 1 THEN "gc" ELSE "release"
  <2>0. q \in Peers /\ PcOK /\ pc[c] = "held" /\ s \in Stage /\ s \notin {"held", "idle"}
    BY <1>4, PeerAssumption DEF IInv, DropPeer, Stage
  <2>1. perIp[q] > 0 /\ q \in entries
    <3>1. c \in Held(q)
      BY <2>0 DEF Held
    <3>2. Cardinality(Held(q)) # 0
      BY <2>0, <3>1, SetsFinite, FS_EmptySet
    <3> QED
      BY <2>0, <3>2 DEF IInv, PeerCount, EntryForPermit, CountsOK
  <2>2. /\ pc' = [pc EXCEPT ![c] = s]
        /\ perIp' = [perIp EXCEPT ![q] = @ - 1]
        /\ perListener' = perListener /\ entries' = entries
    BY <1>4, <2>0, <2>1 DEF DropPeer, IInv, CountsOK
  <2>3. Counted' = Counted
    BY <1>0, <2>0, <2>2, CountedSame, Zenon
  <2>4. /\ Cardinality(Held(q)') = Cardinality(Held(q)) - 1
        /\ \A p \in Peers : p # q => Held(p)' = Held(p)
    BY <1>0, <2>0, <2>2, HeldRemove, Zenon
  <2> HIDE DEF s
  <2>5. PcOK' /\ CountsOK'
    BY <2>0, <2>1, <2>2 DEF IInv, PcOK, CountsOK
  <2>6. ListenerCount'
    BY <2>2, <2>3 DEF IInv, ListenerCount
  <2>7. PeerCount'
    BY <2>0, <2>1, <2>2, <2>4, CapAssumption DEF IInv, PeerCount, CountsOK
  <2>8. EntryForPermit'
    BY <2>0, <2>1, <2>2 DEF IInv, EntryForPermit, CountsOK
  <2>9. ZeroIsCollected'
    <3>1. perIp'[q] > 0 \/ pc'[c] = "gc"
      BY <2>0, <2>1, <2>2 DEF IInv, CountsOK, PcOK, s
    <3>2. \A d \in Sockets : pc[d] = "gc" => pc'[d] = "gc"
      BY <2>0, <2>2 DEF PcOK
    <3>3. \A p \in Peers : p # q => perIp'[p] = perIp[p]
      BY <2>0, <2>2 DEF IInv, CountsOK
    <3> QED
      BY <2>0, <2>2, <3>1, <3>2, <3>3 DEF IInv, ZeroIsCollected, CountsOK
  <2> QED
    BY <2>5, <2>6, <2>7, <2>8, <2>9 DEF IInv
<1>5. ASSUME NEW c \in Sockets, Gc(c) PROVE IInv'
  <2>1. /\ pc' = [pc EXCEPT ![c] = "release"] /\ pc[c] = "gc" /\ PcOK
        /\ perListener' = perListener /\ perIp' = perIp
        /\ entries' = IF perIp[PeerOf[c]] = 0 THEN entries \ {PeerOf[c]} ELSE entries
    BY <1>5 DEF Gc, IInv
  <2>2. Counted' = Counted /\ \A p \in Peers : Held(p)' = Held(p)
    BY <1>0, <2>1, CountedSame, HeldSame, Zenon
  <2>3. PcOK' /\ CountsOK'
    BY <2>1 DEF IInv, PcOK, CountsOK, Stage
  <2>4. ListenerCount' /\ PeerCount' /\ EntryForPermit'
    BY <2>1, <2>2 DEF IInv, ListenerCount, PeerCount, EntryForPermit
  <2>5. ZeroIsCollected'
    BY <2>1, PeerAssumption DEF IInv, ZeroIsCollected, PcOK, CountsOK
  <2> QED
    BY <2>3, <2>4, <2>5 DEF IInv
<1>6. CASE UNCHANGED gateVars
  BY <1>6 DEF gateVars, IInv, PcOK, CountsOK, ListenerCount, PeerCount, Counted, Held,
              EntryForPermit, ZeroIsCollected
<1> QED
  BY <1>1, <1>2, <1>3, <1>4, <1>5, <1>6 DEF GateNext, Moves
----------------------------------------------------------------------------
\* The gate's counters stay within their caps, whatever the caps are.
THEOREM GateTypeCorrect == GateSpec => []GateTypeOK
<1>1. IInv => GateTypeOK
  BY CapAssumption DEF IInv, GateTypeOK, PcOK, CountsOK, ListenerCount, PeerCount, Stage
<1> QED
  BY InitInv, StepInv, <1>1, PTL DEF GateSpec

\* ConnGate::admit never lets more permits exist than either cap allows, and
\* each counter is exactly the number of connections it stands for: no slot
\* leaks and no decrement underflows, for any number of connections.
THEOREM GateCapsHold == GateSpec => []CapsHold
<1>1. IInv /\ GateTypeOK => CapsHold
  BY DEF IInv, CapsHold, ListenerCount, PeerCount
<1> QED
  BY InitInv, StepInv, GateTypeCorrect, <1>1, PTL DEF GateSpec

\* remove_if collects the entry of every address that has no connection left.
THEOREM GateCollects == GateSpec => []EntriesCollected
<1>1. IInv => EntriesCollected
  <2> SUFFICES ASSUME IInv, NEW p \in entries
               PROVE \E c \in Sockets : PeerOf[c] = p /\ pc[c] \in {"held", "gc"}
    BY DEF EntriesCollected
  <2>1. CASE perIp[p] > 0
    <3>1. p \in Peers /\ Cardinality(Held(p)) > 0
      BY <2>1 DEF IInv, CountsOK, PeerCount
    <3>2. Held(p) # {}
      BY <3>1, FS_EmptySet
    <3> QED
      BY <3>2 DEF Held
  <2>2. CASE ~(perIp[p] > 0)
    BY <2>2 DEF IInv, ZeroIsCollected
  <2> QED
    BY <2>1, <2>2
<1> QED
  BY InitInv, StepInv, <1>1, PTL DEF GateSpec
=============================================================================
