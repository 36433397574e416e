----------------------------- MODULE XdpControl -----------------------------
(* The user-space side of the L4 path: attaching the XDP program, the gate *)
(* on conntrack inserts, and the consistent-hash tables.                 *)
EXTENDS Naturals, Sequences, FiniteSets, FiniteSetsExt, SequencesExt

-----------------------------------------------------------------------------
(***************************************************************************)
(* Bringing the XDP program up, replacing it and taking it down (lb        *)
(* xdp.rs; lb-l4-xdp loader.rs, nic_compat.rs, bpffs.rs), next to an       *)
(* operator who attaches and detaches programs of their own.  Kernel       *)
(* (external): an interface takes one program, an attach to a taken one    *)
(* fails, a program leaves with its link, and links die with the process.  *)
(***************************************************************************)

CONSTANTS MaxStarts,       \* bound on restarts
          ForeignProg      \* the operator's program id

VARIABLES capability,      \* what has_cap answers, per capability: "yes", "no" or "error"
          nic,             \* [driver, firmware, kernel] as resolved
          requested,       \* runtime.xdp_mode
          starts,          \* process number; its program's id
          stage,           \* "off", "ladder", "up", "without" (runs without XDP)
          rungs,           \* modes the ladder has left
          onNic,           \* {} or {program id}
          mode,            \* the mode of our program, when it is on
          link,            \* attached_links holds our link
          gauge,           \* stats_export: the recorded attach mode
          admin,           \* an admin call in progress: [call, at]
          verdict          \* how the last admin call ended

attachVars == <<capability, nic, requested, starts, stage, rungs, onNic, mode, link, gauge, admin,
                verdict>>

Idle == [call |-> "none", at |-> "idle"]
Ours == {starts}
KeepBoot == UNCHANGED <<capability, nic, requested, starts, stage, rungs>>

-----------------------------------------------------------------------------
(* probe_caps_with: CAP_BPF with CAP_NET_ADMIN, else CAP_SYS_ADMIN; an     *)
(* error asking for CAP_BPF counts as "no", one for CAP_NET_ADMIN ends the *)
(* probe.                                                                  *)
CapsSuffice ==
  \/ capability.bpf = "yes" /\ capability.net = "yes"
  \/ capability.bpf = "yes" /\ capability.net = "no" /\ capability.sys = "yes"
  \/ capability.bpf # "yes" /\ capability.sys = "yes"

(* classify: a blocklisted driver with firmware older than its first safe  *)
(* one; classify_unresolved_firmware: of these only ena has a kernel to go *)
(* by when the firmware cannot be read.                                    *)
Blocklist == {"mlx5_core", "ena", "ice"}
Classify == nic.driver \in Blocklist /\ nic.firmware = "old"
ClassifyUnresolvedFirmware ==
  nic.firmware = "unresolved" /\ nic.driver = "ena" /\ nic.kernel = "old"

(* drv_supported: an unreadable driver is let through.                     *)
DrvRefused == Classify \/ ClassifyUnresolvedFirmware

(* load_from_bytes and kernel_load: the license section, the map creation  *)
(* or the verifier may refuse.                                             *)
LoadOutcomes == {"ladder", "without"}

Ladder ==
  CASE requested = "auto"   -> <<"drv", "skb">>
    [] requested = "native" -> <<"drv">>
    [] requested = "skb"    -> <<"skb">>
    [] requested = "hw"     -> <<"hw">>

(* try_attach_xdp up to the ladder.                                        *)
TryAttach ==
  /\ stage = "off"
  /\ IF CapsSuffice THEN stage' \in LoadOutcomes ELSE stage' = "without"
  /\ rungs' = IF stage' = "ladder" THEN Ladder ELSE << >>
  /\ UNCHANGED <<capability, nic, requested, starts, onNic, mode, link, gauge, admin, verdict>>

(* attach_with_fallback, one rung: the blocklist demotes, an unsupported   *)
(* mode goes on, any other error (a taken interface among them) ends it.   *)
Demote ==
  /\ stage = "ladder" /\ rungs # << >> /\ rungs' = Tail(rungs)
  /\ UNCHANGED <<capability, nic, requested, starts, stage, onNic, mode, link, gauge, admin, verdict>>

AttachRung ==
  /\ stage = "ladder" /\ rungs # << >> /\ ~ (Head(rungs) = "drv" /\ DrvRefused)
  /\ onNic = {} /\ onNic' = Ours
  /\ mode' = Head(rungs) /\ gauge' = Head(rungs) /\ link' = TRUE
  /\ stage' = "up" /\ rungs' = << >>
  /\ UNCHANGED <<capability, nic, requested, starts, admin, verdict>>

GiveUp ==
  /\ stage = "ladder"
  /\ rungs # << >> => ~ (Head(rungs) = "drv" /\ DrvRefused)
  /\ stage' = "without" /\ rungs' = << >>
  /\ UNCHANGED <<capability, nic, requested, starts, onNic, mode, link, gauge, admin, verdict>>

-----------------------------------------------------------------------------
(* attach_replacing and detach_verifying, between whose queries, detach    *)
(* and attach the operator may act.                                        *)
Called(c) == admin = Idle /\ stage = "up" /\ admin' = [call |-> c, at |-> "query"]
StartAdmin ==
  /\ \E c \in {"replace", "detach"} : Called(c)
  /\ verdict' = "none" /\ UNCHANGED <<onNic, mode, link, gauge>> /\ KeepBoot

Ends(v) == admin' = Idle /\ verdict' = v

QueryBefore ==
  /\ admin.at = "query"
  /\ \/ onNic = Ours /\ admin' = [admin EXCEPT !.at = "unlink"] /\ UNCHANGED verdict
     \/ onNic = {} /\ Ends("nothing attached")
     \/ onNic = {ForeignProg} /\ Ends("foreign")
     \/ Ends("query failed")
  /\ UNCHANGED <<onNic, mode, link, gauge>> /\ KeepBoot

Unlink ==
  /\ admin.at = "unlink"
  /\ onNic' = IF link THEN onNic \ Ours ELSE onNic
  /\ link' = FALSE
  /\ admin' = [admin EXCEPT !.at = IF admin.call = "replace" THEN "attach" ELSE "verify"]
  /\ UNCHANGED <<mode, gauge, verdict>> /\ KeepBoot

AttachAgain ==
  /\ admin.at = "attach"
  /\ \/ /\ onNic = {} /\ onNic' = Ours /\ link' = TRUE
        /\ mode' \in {"drv", "skb", "hw"} /\ Ends("replaced")
     \/ Ends("attach failed") /\ UNCHANGED <<onNic, link, mode>>
  /\ UNCHANGED gauge /\ KeepBoot

Verify ==
  /\ admin.at = "verify"
  /\ Ends(IF onNic = {} THEN "detached" ELSE "left attached") \/ Ends("query failed")
  /\ UNCHANGED <<onNic, mode, link, gauge>> /\ KeepBoot

-----------------------------------------------------------------------------
OperatorAttach ==
  /\ onNic = {} /\ onNic' = {ForeignProg}
  /\ UNCHANGED <<mode, link, gauge, admin, verdict>> /\ KeepBoot

OperatorDetach ==
  /\ onNic = {ForeignProg} /\ onNic' = {}
  /\ UNCHANGED <<mode, link, gauge, admin, verdict>> /\ KeepBoot

(* An exit or crash at any point, and the next start.                      *)
Restart ==
  /\ starts < MaxStarts /\ starts' = starts + 1
  /\ stage' = "off" /\ rungs' = << >> /\ gauge' = "none" /\ admin' = Idle /\ verdict' = "none"
  /\ onNic' = IF link THEN onNic \ Ours ELSE onNic
  /\ link' = FALSE
  /\ UNCHANGED <<capability, nic, requested, mode>>

(* The capabilities decide whether there is a ladder and the NIC how it    *)
(* goes, so one of them varies at a time.                                  *)
AttachInit ==
  /\ capability \in [bpf : {"yes", "no", "error"}, net : {"yes", "no", "error"},
                     sys : {"yes", "no", "error"}]
  /\ nic \in [driver : {"mlx5_core", "ena", "other", "unresolved"},
              firmware : {"old", "new", "unresolved"}, kernel : {"old", "new", "unresolved"}]
  /\ \/ capability = [bpf |-> "yes", net |-> "yes", sys |-> "no"]
     \/ nic = [driver |-> "other", firmware |-> "new", kernel |-> "new"]
  /\ requested \in {"auto", "native", "skb", "hw"}
  /\ starts = 1 /\ stage = "off" /\ rungs = << >> /\ onNic = {} /\ mode = "none"
  /\ link = FALSE /\ gauge = "none" /\ admin = Idle /\ verdict = "none"

AttachNext ==
  \/ TryAttach \/ Demote \/ AttachRung \/ GiveUp
  \/ StartAdmin \/ QueryBefore \/ Unlink \/ AttachAgain \/ Verify
  \/ OperatorAttach \/ OperatorDetach \/ Restart

-----------------------------------------------------------------------------
(* Whatever the capabilities, the NIC and the errors of each rung, the     *)
(* ladder attaches only with the capabilities, in a mode the operator      *)
(* asked for and never natively on a NIC the blocklist refuses; and our    *)
(* link is held exactly while our program is on the interface, through     *)
(* replacements, failed ones and restarts (attach_with_fallback,           *)
(* attach_replacing, detach_verifying).                                    *)
AttachSound ==
  /\ link <=> onNic = Ours
  /\ onNic = Ours => CapsSuffice
  /\ gauge # "none" =>
       /\ \E i \in DOMAIN Ladder : Ladder[i] = gauge
       /\ gauge = "drv" =>
            ~ (nic.driver \in {"mlx5_core", "ena", "ice"} /\ nic.firmware = "old")
            /\ ~ (nic.driver = "ena" /\ nic.firmware = "unresolved" /\ nic.kernel = "old")

(* Refuted: a program found after the detach is ours, which "should be     *)
(* impossible on a healthy kernel" (loader.rs:680); it may be the          *)
(* operator's, attached in between.                                        *)
LeftAttachedIsOurs == verdict = "left attached" => onNic # {ForeignProg}

(* Refuted: the recorded mode is the mode in force.  attach_replacing does *)
(* not record the mode it attaches in.                                     *)
GaugeTrue == onNic = Ours => gauge = mode

-----------------------------------------------------------------------------
(***************************************************************************)
(* The token bucket ahead of user space's conntrack inserts (lb-l4-xdp     *)
(* loader.rs, CtInsertGate), called by several threads without a lock: the *)
(* wall clock and last_refill_ns are read one after the other, one         *)
(* compare-exchange claims the refill, and the tokens are added and taken  *)
(* by compare-exchange loops, each one atomic step.  The wall clock may be *)
(* set back.                                                               *)
(***************************************************************************)

CONSTANTS Threads, Second,     \* clock ticks per second
          RefillPerSec,        \* also the burst; 0 disables the gate
          GateHorizon, MaxSetbacks

VARIABLES tokens, lastRefill, wall,
          caller,              \* per thread, where in try_admit it is and what it read
          latest,              \* history: the latest time the clock has shown
          setbacks, admits     \* history: setbacks of the clock, calls admitted

gateVars == <<tokens, lastRefill, wall, caller, latest, setbacks, admits>>

MinOf(a, b) == IF a < b THEN a ELSE b
GateIdle == [at |-> "idle", now |-> 0, last |-> 0, add |-> 0]

(* With the gate disabled every call returns true at once.                 *)
ReadClock(t) ==
  /\ caller[t].at = "idle" /\ RefillPerSec # 0
  /\ caller' = [caller EXCEPT ![t] = [GateIdle EXCEPT !.at = "load", !.now = wall]]
  /\ UNCHANGED <<tokens, lastRefill, wall, latest, setbacks, admits>>

LoadLast(t) ==
  /\ caller[t].at = "load"
  /\ caller' = [caller EXCEPT ![t].at = "claim", ![t].last = lastRefill]
  /\ UNCHANGED <<tokens, lastRefill, wall, latest, setbacks, admits>>

Refill(c) == IF c.now > c.last THEN ((c.now - c.last) * RefillPerSec) \div Second ELSE 0

\* Mutation: the refill is added whether or not the exchange claimed it.
ClaimRefillUnchecked(t) ==
  /\ caller[t].at = "claim"
  /\ lastRefill' = IF Refill(caller[t]) > 0 THEN caller[t].now ELSE lastRefill
  /\ caller' = [caller EXCEPT ![t].at = IF Refill(caller[t]) > 0 THEN "add" ELSE "take",
                              ![t].add = Refill(caller[t])]
  /\ UNCHANGED <<tokens, wall, latest, setbacks, admits>>

ClaimRefill(t) ==
  LET claimed == Refill(caller[t]) > 0 /\ lastRefill = caller[t].last IN
  /\ caller[t].at = "claim"
  /\ lastRefill' = IF claimed THEN caller[t].now ELSE lastRefill
  /\ caller' = [caller EXCEPT ![t].at = IF claimed THEN "add" ELSE "take",
                              ![t].add = IF claimed THEN Refill(caller[t]) ELSE 0]
  /\ UNCHANGED <<tokens, wall, latest, setbacks, admits>>

AddTokens(t) ==
  /\ caller[t].at = "add"
  /\ tokens' = MinOf(tokens + caller[t].add, RefillPerSec)
  /\ caller' = [caller EXCEPT ![t].at = "take", ![t].add = 0]
  /\ UNCHANGED <<lastRefill, wall, latest, setbacks, admits>>

TakeToken(t) ==
  /\ caller[t].at = "take"
  /\ tokens' = IF tokens = 0 THEN 0 ELSE tokens - 1
  /\ admits' = IF tokens = 0 THEN admits ELSE admits + 1
  /\ caller' = [caller EXCEPT ![t] = GateIdle]
  /\ UNCHANGED <<lastRefill, wall, latest, setbacks>>

ClockTick ==
  /\ wall < GateHorizon
  /\ wall' = wall + 1 /\ latest' = IF wall + 1 > latest THEN wall + 1 ELSE latest
  /\ UNCHANGED <<tokens, lastRefill, caller, setbacks, admits>>

ClockSetback(to) ==
  /\ setbacks < MaxSetbacks /\ to < wall
  /\ wall' = to /\ setbacks' = setbacks + 1
  /\ UNCHANGED <<tokens, lastRefill, caller, latest, admits>>

GateInit ==
  /\ tokens = RefillPerSec /\ lastRefill = 0 /\ wall = 0 /\ latest = 0
  /\ caller = [t \in Threads |-> GateIdle]
  /\ setbacks = 0 /\ admits = 0

GateNext ==
  \/ \E t \in Threads :
       ReadClock(t) \/ LoadLast(t) \/ ClaimRefill(t) \/ AddTokens(t) \/ TakeToken(t)
  \/ ClockTick
  \/ \E to \in 0 .. GateHorizon : ClockSetback(to)

-----------------------------------------------------------------------------
(* However the calls interleave and the clock jumps back, no more inserts  *)
(* are admitted, counting the tokens in hand and those a claimed refill    *)
(* has yet to add, than the burst and the rate over the time the clock has *)
(* ever shown (try_admit).                                                 *)
AdmitsBounded ==
  /\ lastRefill <= latest
  /\ Second * (admits + tokens + MapThenSumSet(LAMBDA t : caller[t].add, Threads))
       <= Second * RefillPerSec + RefillPerSec * lastRefill

GateTypeOK ==
  /\ tokens \in 0 .. RefillPerSec /\ lastRefill \in 0 .. GateHorizon
  /\ \A t \in Threads : caller[t].at \in {"idle", "load", "claim", "add", "take"}

-----------------------------------------------------------------------------
(***************************************************************************)
(* The consistent-hash tables: Maglev (lb-balancer maglev.rs, lb-l4-xdp    *)
(* lib.rs), the ring (ring_hash.rs), and the swap manager that puts a      *)
(* bounded conntrack table in front of one (lib.rs, HotSwapManager).       *)
(* Hashes are arbitrary values, fixed for a behaviour.                     *)
(***************************************************************************)

CONSTANTS Ids,         \* backend names
          Rosters,     \* the backend lists configured, each without repetition
          TableSize,   \* prime
          Vnodes,      \* virtual nodes per backend
          RingSize,    \* hash values of the ring
          Flows5, FlowSlots

VARIABLES permutation, \* per name, <<offset, skip>>
          vnodeHash,   \* per name and virtual node, its place on the ring
          roster,      \* the backends in force, in order
          maglev,      \* the table: slot -> index into the list
          flowIndex, insertOrder,   \* ConntrackTable
          pinned,      \* history: the backend each tracked flow got when inserted
          answer       \* history: the last flow routed

hashVars == <<permutation, vnodeHash, roster, maglev, flowIndex, insertOrder, pinned,
              answer>>
-----------------------------------------------------------------------------
(* is_prime: a table of another size is refused.                           *)
IsPrime(n) == n > 1 /\ \A d \in 2 .. n - 1 : n % d # 0

(* populate: the backends take turns, each taking the next free slot of    *)
(* its own permutation of the table.  Slots and indices count from 0.      *)
Slot(b, c) == (permutation[b][1] + c * permutation[b][2]) % TableSize

TakeSlot(table, b, i) ==
  LET free == {c \in 0 .. TableSize - 1 : table[Slot(b, c)] = TableSize}
  IN  [table EXCEPT ![Slot(b, Min(free))] = i]

Populate(r) ==
  FoldLeft(LAMBDA table, k : TakeSlot(table, r[(k % Len(r)) + 1], k % Len(r)),
           [s \in 0 .. TableSize - 1 |-> TableSize],
           [k \in 1 .. TableSize |-> k - 1])

(* lookup.                                                                 *)
Lookup(key) == maglev[key % TableSize]

(* RingHash: the points in hash order, and the first at or after the key.  *)
(* Equal hashes keep the order of the list, of which the binary search may *)
(* find any.                                                               *)
Points(r) == {<<vnodeHash[<<r[i], v>>], i>> : i \in DOMAIN r, v \in 1 .. Vnodes}
RingPicks(r, h) ==
  LET hashes == {p[1] : p \in Points(r)}
      after == {x \in hashes : x >= h}
      at == IF after = {} THEN Min(hashes) ELSE Min(after)
      ties == {p[2] : p \in {q \in Points(r) : q[1] = at}}
  IN  IF at = h THEN ties ELSE {Min(ties)}

-----------------------------------------------------------------------------
(* ConntrackTable: first in, first out.                                    *)
TrackInsert(f, i, tracked, order) ==
  LET full == f \notin DOMAIN tracked /\ Cardinality(DOMAIN tracked) >= FlowSlots
      kept == IF full THEN DOMAIN tracked \ {Head(order)} ELSE DOMAIN tracked
  IN  [entries |-> [g \in kept \cup {f} |-> IF g = f THEN i ELSE tracked[g]],
       order |-> IF f \in DOMAIN tracked THEN order
                 ELSE Append(IF full THEN Tail(order) ELSE order, f)]

TrackRemove(f, tracked, order) ==
  [entries |-> [g \in DOMAIN tracked \ {f} |-> tracked[g]],
   order |-> SelectSeq(order, LAMBDA g : g # f)]

(* route_flow: the tracked index while it is in range, else the table's.   *)
RouteFlow(f, key) ==
  \/ /\ f \in DOMAIN flowIndex /\ flowIndex[f] < Len(roster)
     /\ answer' = <<f, flowIndex[f]>>
     /\ UNCHANGED <<flowIndex, insertOrder, pinned>>
  \/ LET left == TrackRemove(f, flowIndex, insertOrder)
         i == Lookup(key)
         t == TrackInsert(f, i, left.entries, left.order)
     IN  /\ ~ (f \in DOMAIN flowIndex /\ flowIndex[f] < Len(roster))
         /\ flowIndex' = t.entries /\ insertOrder' = t.order
         /\ pinned' = [g \in DOMAIN t.entries |-> IF g = f THEN roster[i + 1] ELSE pinned[g]]
         /\ answer' = <<f, i>>

Route(f, key) == RouteFlow(f, key) /\ UNCHANGED <<permutation, vnodeHash, roster, maglev>>

SwapBackends(r) ==
  /\ r # roster /\ roster' = r /\ maglev' = Populate(r)
  /\ answer' = << >>
  /\ UNCHANGED <<permutation, vnodeHash, flowIndex, insertOrder, pinned>>

(* Renumbering the slots makes any one permutation the identity, and the   *)
(* two tables share no hash, so one of them may be fixed.                  *)
Anchor == CHOOSE b \in Ids : TRUE

HashInit ==
  /\ IsPrime(TableSize)
  /\ permutation \in [Ids -> (0 .. TableSize - 1) \X (1 .. TableSize - 1)]
  /\ permutation[Anchor] = <<0, 1>>
  /\ vnodeHash \in [Ids \X (1 .. Vnodes) -> 0 .. RingSize - 1]
  /\ \/ \A b \in Ids : permutation[b] = <<0, 1>>
     \/ \A x \in DOMAIN vnodeHash : vnodeHash[x] = 0
  /\ roster \in Rosters /\ maglev = Populate(roster)
  /\ flowIndex = << >> /\ insertOrder = << >> /\ pinned = << >> /\ answer = << >>

HashNext ==
  \/ \E f \in Flows5, key \in 0 .. TableSize - 1 : Route(f, key)
  \/ \E r \in Rosters : SwapBackends(r)

-----------------------------------------------------------------------------
(* Whatever the hashes, populate leaves no slot empty and no backend with  *)
(* more than one slot above another.                                       *)
MaglevBalanced ==
  LET share(i) == Cardinality({s \in DOMAIN maglev : maglev[s] = i})
      indices == 0 .. Len(roster) - 1
  IN  /\ \A s \in DOMAIN maglev : maglev[s] \in indices
      /\ \A i, j \in indices : share(i) <= share(j) + 1

(* Taking a backend out of the ring moves no key of another, as long as no *)
(* two points hash alike (RingHash::new, pick_with_key).                   *)
RingConsistent ==
  Cardinality({vnodeHash[x] : x \in DOMAIN vnodeHash}) = Cardinality(DOMAIN vnodeHash) =>
    \A i \in DOMAIN roster : Len(roster) > 1 =>
      LET left == RemoveAt(roster, i) IN
      \A h \in 0 .. RingSize - 1 :
        \A k \in RingPicks(roster, h) \ {i} :
          {left[m] : m \in RingPicks(left, h)} = {roster[k]}

(* The eviction order lists exactly the tracked flows, each once and never *)
(* more than the capacity, whatever swaps, stale entries and evictions     *)
(* came in between; and every answer is an index of the list in force.     *)
ConntrackExact ==
  /\ IsInjective(insertOrder) /\ ToSet(insertOrder) = DOMAIN flowIndex
  /\ Len(insertOrder) <= FlowSlots
  /\ DOMAIN pinned = DOMAIN flowIndex
  /\ answer # << >> => answer[2] < Len(roster)

(* Refuted: "in-flight flows continue to reach their original backend"     *)
(* (lib.rs:388).  The table keeps an index, which a swap that reorders the *)
(* list turns into another backend.                                        *)
FlowsStay ==
  answer # << >> => roster[answer[2] + 1] = pinned[answer[1]]

HashTypeOK ==
  /\ roster \in Rosters
  /\ DOMAIN flowIndex \subseteq Flows5
=============================================================================
