----------------------------- MODULE MCDatapath -----------------------------
(***************************************************************************)
(* The packet side: the router of the terminating QUIC listener with its   *)
(* replay window, the window's arena, the Retry secret and tokens across   *)
(* restarts, the flow table of the passthrough mode and its reading of     *)
(* public headers; and the XDP program with its maps, its checksum         *)
(* updates, the gate on conntrack inserts, the hash tables and the         *)
(* attaching of the program.  They share no state here, so a behaviour     *)
(* runs one of them (subject) and leaves the others alone.                 *)
(***************************************************************************)
EXTENDS RetryToken, Sequences, TLC

CONSTANTS Subjects,
          ClientCids, Tokens, ReplaySize, MaxConnections, ChannelDepth, MaxActors, MaxPackets,
          Digests, MaxTokens,
          ClientIds, FlowCap, IdleTicks, MaxFlows,
          MaxCidLen, MaxRouted, CidBytes, VarintBase, PassFlows, MaxIds,
          XdpBackends, CtEntries, Cpus, Caps, RateWindow, XdpHorizon, FlowsMax,
          Lanes,
          Threads, Second, RefillPerSec, GateHorizon, MaxSetbacks,
          TableSize, Vnodes, RingSize, Flows5, FlowSlots,
          MaxStarts, ForeignProg

VARIABLES subject,
  routes, actor, replay, forgotten, reaping, received, router, shutdown,
  arena, freeHead, front, back, index, offered, replayed,
  flows, flow, handling, sweeping,
  phTable, phLens, phMeant, phCut, phSeen, phRoute,
  tracked, denied, rate, newFlowCap, pruning, xdpClock, asked, assigned, outcome,
  segment,
  tokens, lastRefill, wall, caller, latest, setbacks, admits,
  permutation, vnodeHash, roster, maglev, flowIndex, insertOrder, pinned, answer,
  capability, nic, requested, starts, stage, rungs, onNic, mode, link, gauge, admin, verdict

(* One client with a TCP and a UDP flow and a flow to a port of the L7     *)
(* proxy over IPv4, and a TCP flow over IPv6.                              *)
Tuple(f, p, o) == [family |-> f, proto |-> p, client |-> "c", port |-> o]
SampleFlows == {Tuple("v4", "tcp", "l4"), Tuple("v4", "udp", "l4"), Tuple("v4", "tcp", "l7"),
                Tuple("v6", "tcp", "l4")}

(* Two-word addresses over the sample words and four eight-word ones.      *)
SampleAddresses ==
  (Lanes \X Lanes)
    \cup {<<0, 0, a, 65535, b, 0, 1, 65534>> : a \in {0, 65535}, b \in {1, 65534}}

(* Lists that grow, shrink, reorder and replace one another.               *)
SampleRosters == {<<"a", "b", "c">>, <<"c", "a">>, <<"b">>, <<"b", "a", "c">>}

Router == INSTANCE QuicRouter
Guard == INSTANCE ZeroRtt
Pass == INSTANCE Passthrough
Xdp == INSTANCE XdpPath WITH XdpFlows <- SampleFlows, Addresses <- SampleAddresses
Control == INSTANCE XdpControl WITH Ids <- {"a", "b", "c"}, Rosters <- SampleRosters

routing == <<routes, actor, replay, forgotten, reaping, received, router, shutdown>>
guarding == <<arena, freeHead, front, back, index, offered, replayed>>
passing == <<flows, flow, handling, sweeping>>
reading == <<phTable, phLens, phMeant, phCut, phSeen, phRoute>>
filtering == <<tracked, denied, rate, newFlowCap, pruning, xdpClock, asked, assigned, outcome>>
summing == <<segment>>
gating == <<tokens, lastRefill, wall, caller, latest, setbacks, admits>>
hashing == <<permutation, vnodeHash, roster, maglev, flowIndex, insertOrder, pinned, answer>>
attaching == <<capability, nic, requested, starts, stage, rungs, onNic, mode, link, gauge, admin,
               verdict>>
quic == <<routing, guarding, tokenVars, passing, reading>>
xdp == <<filtering, summing, gating, hashing, attaching>>
vars == <<subject, quic, xdp>>

OnRouter(A) == subject = "router" /\ A /\ UNCHANGED <<subject, guarding, tokenVars, passing, reading, xdp>>
OnGuard(A) == subject = "guard" /\ A /\ UNCHANGED <<subject, routing, tokenVars, passing, reading, xdp>>
OnToken(A) == subject = "token" /\ A /\ UNCHANGED <<subject, routing, guarding, passing, reading, xdp>>
OnPass(A) == subject = "pass" /\ A /\ UNCHANGED <<subject, routing, guarding, tokenVars, reading, xdp>>
OnPublic(A) == subject = "public" /\ A /\ UNCHANGED <<subject, routing, guarding, tokenVars, passing, xdp>>
OnXdp(A) == subject = "xdp" /\ A /\ UNCHANGED <<subject, quic, summing, gating, hashing, attaching>>
OnSums(A) == subject = "sums" /\ A /\ UNCHANGED <<subject, quic, filtering, gating, hashing, attaching>>
OnGate(A) == subject = "gate" /\ A /\ UNCHANGED <<subject, quic, filtering, summing, hashing, attaching>>
OnHash(A) == subject = "hash" /\ A /\ UNCHANGED <<subject, quic, filtering, summing, gating, attaching>>
OnAttach(A) == subject = "attach" /\ A /\ UNCHANGED <<subject, quic, filtering, summing, gating, hashing>>

Init ==
  /\ subject \in Subjects
  /\ Router!RouterInit /\ Guard!GuardInit /\ TokenInit /\ Pass!PassInit
  /\ Pass!HeaderInit
  /\ subject # "token" => file = [state |-> "absent"]
  /\ Xdp!XdpInit /\ Control!GateInit
  /\ IF subject = "sums" THEN Xdp!ChecksumInit ELSE segment = << >>
  /\ IF subject = "hash" THEN Control!HashInit ELSE
       /\ permutation = << >> /\ vnodeHash = << >> /\ roster = << >> /\ maglev = << >>
       /\ flowIndex = << >> /\ insertOrder = << >> /\ pinned = << >> /\ answer = << >>
  /\ IF subject = "attach" THEN Control!AttachInit ELSE
       /\ capability = << >> /\ nic = << >> /\ requested = "" /\ starts = 0 /\ stage = ""
       /\ rungs = << >> /\ onNic = {} /\ mode = "" /\ link = FALSE /\ gauge = ""
       /\ admin = << >> /\ verdict = ""

Next ==
  \/ OnRouter(Router!RouterNext) \/ OnGuard(Guard!GuardNext)
  \/ OnToken(TokenNext) \/ OnPass(Pass!PassNext)
  \/ OnPublic(Pass!HeaderNext)
  \/ OnXdp(Xdp!XdpNext) \/ OnSums(Xdp!ChecksumNext) \/ OnGate(Control!GateNext)
  \/ OnHash(Control!HashNext) \/ OnAttach(Control!AttachNext)

(* The runtime polls every task and every timer fires.  Nothing says that  *)
(* a packet comes or that the shutdown token fires.                        *)
Fairness ==
  /\ WF_routing(OnRouter(Router!RouterExit))
  /\ \A a \in 1 .. MaxActors :
       /\ WF_routing(OnRouter(a \in DOMAIN actor /\ Router!ReturnOnShutdown(a)))
       /\ WF_routing(OnRouter(a \in DOMAIN actor /\ Router!DropGuard(a)))
  /\ WF_passing(OnPass(Pass!HandlerStep))
  /\ WF_passing(OnPass(Pass!SweepMark))
  /\ WF_passing(OnPass(Pass!SweepRemove))
  /\ WF_passing(OnPass(Pass!Tick))
  /\ \A f \in 1 .. MaxFlows : WF_passing(OnPass(f \in Pass!Live /\ Pass!PumpStep(f)))

Spec == Init /\ [][Next]_vars /\ Fairness

(* However packets, ending actors, guards dropped key by key and the       *)
(* shutdown interleave, no more connections run than max_connections, each *)
(* running one is found under both of its IDs, no entry outlives its       *)
(* actor, and a replay key starts a second connection only after the       *)
(* window dropped it (dispatch_packet, spawn_new_connection,               *)
(* CidEntryGuard::drop).  The window's slab never outgrows its capacity    *)
(* and orphans no slot (alloc_node, free_node).  The passthrough reads a   *)
(* public header as it was meant or not at all, and sends a packet to the  *)
(* flow whose ID it carries (parse_public_header, forward_short).          *)
RouterSound ==
  /\ Router!RouterTypeOK /\ Router!ConnectionsCapped /\ Router!RoutesExact
  /\ Router!ReplayedOnce /\ Guard!GuardTypeOK /\ Guard!SlabExact
  /\ Pass!HeaderSound

(* The replay guard's slab and linked list (zero_rtt.rs) is a              *)
(* least-recently-seen window of max_tokens digests, slot reuse included.  *)
GuardIsWindow ==
  /\ Guard!Window!WindowInit
  /\ [][subject = "guard" => Guard!Window!WindowNext]_vars

(* The shutdown token ends the router and empties its map; silence empties *)
(* the passthrough table and frees every flow told to close.               *)
DatapathEnds ==
  /\ Router!ShutdownEmpties
  /\ subject = "pass" => [](Pass!PassTypeOK) /\ Pass!IdleIsReclaimed

(* The XDP side: a CPU asks for at most twice its cap of conntrack entries *)
(* in a second; a rewritten frame verifies; the insert gate admits no more *)
(* than its rate, whoever races whom; the Maglev table is full and even,   *)
(* the ring moves no key without need and the conntrack order is exact     *)
(* across swaps; and the program is on the interface only as configured    *)
(* and allowed (is_under_flood, csum16_update, CtInsertGate::try_admit,    *)
(* populate, route_flow, attach_with_fallback).                            *)
XdpSound ==
  /\ Xdp!XdpTypeOK /\ Xdp!MissesBounded
  /\ subject = "sums" => Xdp!ChecksumsVerify
  /\ Control!GateTypeOK /\ Control!AdmitsBounded
  /\ subject = "hash" =>
       Control!HashTypeOK /\ Control!MaglevBalanced /\ Control!RingConsistent /\ Control!ConntrackExact
  /\ subject = "attach" => Control!AttachSound

(* No frame goes to a backend its flow was not given or has lost to an RST *)
(* or FIN+ACK, and none of a denied client goes anywhere, established      *)
(* flows included (handle_ipv4, handle_ipv6).                              *)
XdpStepsAllowed ==
  [][subject = "xdp" => Xdp!SentAsAssignedStep /\ Xdp!DeniedGoNowhereStep]_vars

(* Refuted on this instance.                                               *)
FlowsCapped == Pass!FlowsCapped
NoOrphan == Pass!NoOrphan
RoutedHomeAlways == Pass!RoutedHomeAlways
EnteredIsFound == Pass!EnteredIsFound
MissesSlide == Xdp!MissesSlide
UdpChecksumStays == [][subject = "sums" => Xdp!UdpChecksumStaysStep]_vars
FlowsStay == subject = "hash" => Control!FlowsStay
LeftAttachedIsOurs == Control!LeftAttachedIsOurs
GaugeTrue == Control!GaugeTrue

(* Stated by cleanup_guard.rs: a packet on the ID of a connection that is  *)
(* gone sees Closed and reaps the entry.                                   *)
ClosedIsReaped == Router!ClosedIsReaped
=============================================================================
