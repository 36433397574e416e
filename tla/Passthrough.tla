---------------------------- MODULE Passthrough -----------------------------
(* The passthrough mode of QUIC: its flow table and its reading of public *)
(* headers.                                                              *)
EXTENDS Naturals, FiniteSets, Sequences, Functions, Integers, SequencesExt, TLC

-----------------------------------------------------------------------------
(***************************************************************************)
(* Mode A, QUIC without termination (crates/lb-quic/src/passthrough.rs):   *)
(* one task reads the listener's socket and handles one datagram after the *)
(* other; a flow table maps connection IDs to flows; each flow has a       *)
(* forward pump (a bounded backlog to the backend's socket) and a reverse  *)
(* pump, which also learns the backend's own ID; a sweeper reclaims idle   *)
(* flows and the handler evicts the oldest ones at the cap.                *)
(*                                                                         *)
(* Datagrams are not counted: what a pump relays changes nothing here, a   *)
(* full backlog only drops, and a forward pump that has ended early (its   *)
(* send failed) or ends with its flow leaves the rest of the flow as it    *)
(* was.  A reply with a short header is relayed and no more.               *)
(*                                                                         *)
(* A flow's last_seen_ms is kept as its age in clock ticks, up to the idle *)
(* timeout; a sweep takes less than a tick.  Backend IDs are random: each  *)
(* flow's is its own.  An ID is a whole value here; how it is found in a   *)
(* datagram is the subject of PublicHeader.                                *)
(***************************************************************************)

CONSTANTS ClientIds,     \* bound: IDs that clients choose
          FlowCap,       \* max_quic_connections
          IdleTicks,     \* flow_idle_timeout
          MaxFlows       \* bound: flows created

VARIABLES
  flows,     \* the flow table: connection ID -> flow
  flow,      \* the flows created; Gone once freed
  handling,  \* the receive loop: idle, or evict / bind with dcid and peer
  sweeping   \* the keys a sweep collected and has yet to remove

flowVars == <<flows, flow, handling, sweeping>>

Dcids == {<<"client", i>> : i \in 1 .. ClientIds}
BackendCid(f) == <<"backend", f>>
Idle == [stage |-> "idle"]
Gone == [live |-> FALSE]
Live == {f \in DOMAIN flow : flow[f].live}
KeysIn(table, f) == {c \in DOMAIN table : table[c] = f}
Keys(f) == KeysIn(flows, f)
Keyed == {flows[c] : c \in DOMAIN flows}

(* A flow's value is dropped when neither the table nor the reverse pump   *)
(* refers to it; then its channel is closed and the forward pump ends, and *)
(* with both pumps the socket.                                             *)
Collect(fs, table) ==
  [f \in DOMAIN fs |-> IF fs[f].live /\ KeysIn(table, f) = {} /\ fs[f].rev = "exit"
                       THEN Gone ELSE fs[f]]

PassInit ==
  /\ flows = << >> /\ flow = << >> /\ handling = Idle /\ sweeping = {}
----------------------------------------------------------------------------
(* handle_inbound, one datagram at a time. *)

Receive == handling = Idle

Touched(r) == [r EXCEPT !.age = 0]

(* forward_long_existing, forward_short and handle_initial for an ID in    *)
(* the table: the flow is touched (and follows the client's address, and   *)
(* the datagram is queued for the forward pump).                           *)
ForwardKnown ==
  /\ Receive
  /\ \E c \in DOMAIN flows : flow' = [flow EXCEPT ![flows[c]] = Touched(@)]
  /\ UNCHANGED <<flows, handling, sweeping>>

(* A datagram that leaves no trace: unparsable, an unknown ID, an ID below *)
(* the length floor, another address under strict_source_binding, a Retry  *)
(* minted, a token that does not verify.                                   *)
Stateless == Receive /\ UNCHANGED flowVars

(* IDs that no state mentions are interchangeable: the least one stands    *)
(* for them.                                                               *)
Unused == Dcids \ (DOMAIN flows \cup sweeping)
NewIds == ((Dcids \cap sweeping) \ DOMAIN flows)
          \cup {c \in Unused : \A d \in Unused : c[2] <= d[2]}

(* The cap check: at twice max_quic_connections entries, evict first.      *)
Admission(table) == IF Cardinality(DOMAIN table) >= 2 * FlowCap THEN "evict" ELSE "bind"

(* A new ID whose token verifies (or, with mint_retry off, none).          *)
InitialNew ==
  /\ Receive
  /\ \E c \in NewIds : handling' = [stage |-> Admission(flows), dcid |-> c]
  /\ UNCHANGED <<flows, flow, sweeping>>

(* reclaim_flows: cancel, then take every key of the victims.              *)
Cancelled(victims) ==
  [f \in DOMAIN flow |-> IF f \in victims THEN [flow[f] EXCEPT !.closed = TRUE] ELSE flow[f]]

(* The loop ends when the table is below the cap, or empty.                *)
EvictOldest ==
  /\ handling.stage = "evict"
  /\ \E v \in Keyed :
       /\ \A f \in Keyed : flow[f].age <= flow[v].age
       /\ flows' = Restrict(flows, DOMAIN flows \ Keys(v))
       /\ flow' = Collect(Cancelled({v}), flows')
  /\ handling' = [handling EXCEPT !.stage = Admission(flows')]
  /\ UNCHANGED sweeping

EvictNothing ==
  /\ handling.stage = "evict" /\ Keyed = {}
  /\ handling' = [handling EXCEPT !.stage = "bind"]
  /\ UNCHANGED <<flows, flow, sweeping>>

(* pick_backend, bind and connect may fail; else the flow is registered,   *)
(* its first datagram queued and its pumps spawned.                        *)
InitialInsert ==
  /\ handling.stage = "bind" /\ Len(flow) < MaxFlows
  /\ flow' = Append(flow, [live |-> TRUE, age |-> 0, closed |-> FALSE, rev |-> "recv"])
  /\ flows' = [c \in DOMAIN flows \cup {handling.dcid} |->
                 IF c = handling.dcid THEN Len(flow) + 1 ELSE flows[c]]
  /\ handling' = Idle
  /\ UNCHANGED <<sweeping>>

InitialFails ==
  /\ handling.stage = "bind" /\ handling' = Idle
  /\ UNCHANGED <<flows, flow, sweeping>>
----------------------------------------------------------------------------
(* The idle sweeper, concurrent with the receive loop. *)

(* Mutation: the sweep passes over a flow that was told to close.          *)
IdleFlowsOpen == {f \in Keyed : flow[f].age >= IdleTicks /\ ~flow[f].closed}

IdleFlows == {f \in Keyed : flow[f].age >= IdleTicks}

SweepMark ==
  /\ sweeping = {} /\ IdleFlows # {}
  /\ flow' = Cancelled(IdleFlows)
  /\ sweeping' = UNION {Keys(f) : f \in IdleFlows}
  /\ UNCHANGED <<flows, handling>>

SweepRemove ==
  /\ sweeping # {} /\ sweeping' = {}
  /\ flows' = Restrict(flows, DOMAIN flows \ sweeping)
  /\ flow' = Collect(flow, flows')
  /\ UNCHANGED <<handling>>

Tick ==
  /\ sweeping = {} /\ \E f \in Live : flow[f].age < IdleTicks
  /\ flow' = [f \in DOMAIN flow |->
                IF f \in Live /\ flow[f].age < IdleTicks THEN [flow[f] EXCEPT !.age = @ + 1]
                ELSE flow[f]]
  /\ UNCHANGED <<flows, handling, sweeping>>
----------------------------------------------------------------------------
(* The pumps of flow f. *)

(* A datagram with a long header names the backend's ID; recv may fail.    *)
ReverseRecv(f) ==
  /\ flow[f].rev = "recv" /\ ~flow[f].closed
  /\ \E r \in {"long", "exit"} : flow' = [flow EXCEPT ![f].rev = r]
  /\ UNCHANGED <<flows, handling, sweeping>>

(* The entry is made only if the ID is not there; then the datagram goes   *)
(* to the flow's peer.                                                     *)
ReverseSend(f) ==
  /\ flow[f].rev = "long"
  /\ flows' = [c \in DOMAIN flows \cup {BackendCid(f)} |->
                 IF c \in DOMAIN flows THEN flows[c] ELSE f]
  /\ flow' = [flow EXCEPT ![f].rev = "recv"]
  /\ UNCHANGED <<handling, sweeping>>

(* Both pumps wait on the flow's token.                                    *)
PumpsExit(f) ==
  /\ flow[f].closed /\ flow[f].rev = "recv"
  /\ flow' = Collect([flow EXCEPT ![f].rev = "exit"], flows)
  /\ UNCHANGED <<flows, handling, sweeping>>

HandlerStep == EvictOldest \/ EvictNothing \/ InitialInsert \/ InitialFails
PumpStep(f) == ReverseSend(f) \/ PumpsExit(f)

PassNext ==
  \/ ForwardKnown \/ Stateless \/ InitialNew
  \/ HandlerStep \/ SweepMark \/ SweepRemove \/ Tick
  \/ \E f \in Live : PumpStep(f) \/ ReverseRecv(f)
----------------------------------------------------------------------------
PassTypeOK ==
  /\ DOMAIN flows \subseteq Dcids \cup {BackendCid(f) : f \in Live}
  /\ Keyed \subseteq Live
  /\ \A f \in Live :
       /\ flow[f].closed \in BOOLEAN /\ flow[f].age \in 0 .. IdleTicks
       /\ flow[f].rev \in {"recv", "long", "exit"}
  /\ handling.stage \in {"idle", "evict", "bind"}

(* However sweeps, evictions and learnt IDs interleave, and however long   *)
(* bind and connect take, no more than twice the configured number of      *)
(* flows is found under the ID that created it (handle_initial's cap       *)
(* check).                                                                 *)
ClientIdsBounded == Cardinality(DOMAIN flows \cap Dcids) <= 2 * FlowCap

(* When clients fall silent the table empties and every flow that was told *)
(* to close is freed, pump and socket, even when its pump put a key back   *)
(* after the reclaim (sweep_idle_flows, reclaim_flows, reverse_pump).      *)
IdleIsReclaimed ==
  []<><<ForwardKnown \/ InitialNew>>_flowVars
    \/ <>[](flows = << >> /\ \A f \in Live : ~flow[f].closed)

(* Refuted: the flow cap is on unique flows (passthrough.rs:93-95,         *)
(* 828-830).                                                               *)
FlowsCapped == Cardinality(Keyed) <= FlowCap

(* Refuted: a flow is in the table, or told to close, or gone.             *)
NoOrphan == \A f \in Live : f \in Keyed \/ flow[f].closed

-----------------------------------------------------------------------------
(* What the pass-through router reads of a datagram it cannot decrypt, and   *)
(* where it sends one with a short header: lb-quic/src/public_header.rs, and *)
(* handle_inbound and forward_short of passthrough.rs.  A short header does  *)
(* not say how long its connection ID is; the router tries the lengths it    *)
(* knows.                                                                    *)
(*                                                                           *)
(* A datagram is a sequence of units [n, w]: a byte, the version as one      *)
(* unit, or a byte that starts an integer of w bytes.  Its first byte stands *)
(* beside it.                                                                *)

CONSTANTS
  MaxCidLen,        \* MAX_CID_LEN
  MaxRouted,        \* max_dcid_len_routed
  CidBytes,         \* the bytes of connection IDs
  VarintBase,       \* 256
  PassFlows,        \* the flows
  MaxIds            \* bound on the IDs

VARIABLES
  phTable,          \* connection ID -> flow
  phLens,           \* flow -> short_dcid_len: the length of its backend's last ID, or 0
  phMeant,          \* the datagram as its sender means it
  phCut,            \* how many units of it arrived
  phSeen,           \* what the parser made of it, of at most one element
  phRoute           \* the flow it was sent to, of at most one element

headerVars == <<phTable, phLens, phMeant, phCut, phSeen, phRoute>>

Cids(least) == UNION {[1 .. n -> CidBytes] : n \in least .. MaxCidLen}
B(n) == [n |-> n, w |-> 1]
Raw(bytes) == [i \in DOMAIN bytes |-> B(bytes[i])]

\* The smallest way to write a length, and one that is longer than it need be.
Varint(v, w) == IF w = 1 THEN <<B(v)>> ELSE <<[n |-> v \div VarintBase, w |-> 2], B(v % VarintBase)>>

\* The datagrams peers send: [type, dcid, scid, token, payload, width].  A short
\* header is followed by no fewer bytes than header protection samples, which is
\* as many as the longest ID has.
Long(type, dcid, scid, token, payload, width) ==
  [type |-> type, dcid |-> dcid, scid |-> scid, token |-> token, payload |-> payload, width |-> width]
Typed == {"initial", "zero_rtt", "handshake"}
Datagrams ==
       {Long(t, d, <<1>>, k, 1, w) : t \in Typed, d \in Cids(0), k \in {0, 2}, w \in 1 .. 2}
  \cup {Long(t, d, <<1>>, 0, 1, 1) : t \in {"retry", "negotiation"}, d \in Cids(0)}
  \cup {Long("short", d, <<>>, 0, p, 1) : d \in Cids(1), p \in MaxCidLen .. MaxCidLen + 1}

\* The units after the first byte; what follows a packet in its datagram is "coalesced".
Units(m) ==
  IF m.type = "short" THEN Raw(m.dcid) \o [i \in 1 .. m.payload |-> B(1)]
  ELSE <<B(IF m.type = "negotiation" THEN 0 ELSE 1), B(Len(m.dcid))>> \o Raw(m.dcid)
         \o <<B(Len(m.scid))>> \o Raw(m.scid)
         \o (IF m.type = "initial"
             THEN Varint(m.token, m.width) \o [i \in 1 .. m.token |-> B(0)] ELSE <<>>)
         \o (IF m.type \in Typed THEN Varint(m.payload, m.width) ELSE <<>>)
         \o [i \in 1 .. m.payload |-> B(1)]
-----------------------------------------------------------------------------
(* The parser.  No element is an error; a slice is taken only if it is there. *)

Slice(s, from, n) == IF from + n - 1 <= Len(s) THEN {SubSeq(s, from, from + n - 1)} ELSE {}
Bytes(units) == [i \in DOMAIN units |-> units[i].n]

\* [value, next]
DecodeVarint(s, at) ==
  IF at > Len(s) \/ at + s[at].w - 1 > Len(s) THEN {}
  ELSE {[value |-> IF s[at].w = 1 THEN s[at].n ELSE s[at].n * VarintBase + s[at + 1].n,
         next |-> at + s[at].w]}

\* A length byte no larger than the maximum and as many bytes: [cid, next].
CidAt(s, at) ==
  IF at > Len(s) \/ s[at].n > MaxCidLen THEN {}
  ELSE {[cid |-> Bytes(c), next |-> at + 1 + s[at].n] : c \in Slice(s, at + 1, s[at].n)}

\* A length that does not run over the end.
LengthAt(s, at) == {l \in DecodeVarint(s, at) : l.next + l.value - 1 <= Len(s)}

\* The Initial's token: [value: its length, next].
TokenAt(s, at) ==
  {[value |-> t.value, next |-> t.next + t.value]
     : t \in {l \in DecodeVarint(s, at) : l.next + l.value - 1 <= Len(s)}}

Header(type, d, s, token) == [type |-> type, dcid |-> d, scid |-> s, token |-> token]

\* parse_long: the version decides before the type bits.
ParseLong(type, s) ==
  UNION {UNION {
    IF s[1].n = 0 THEN {Header("negotiation", d.cid, c.cid, 0)}
    ELSE CASE type = "initial" ->
                UNION {{Header(type, d.cid, c.cid, t.value) : l \in LengthAt(s, t.next)}
                         : t \in TokenAt(s, c.next)}
           [] type \in {"zero_rtt", "handshake"} ->
                {Header(type, d.cid, c.cid, 0) : l \in LengthAt(s, c.next)}
           [] OTHER -> {Header("retry", d.cid, c.cid, 0)}
    : c \in CidAt(s, d.next)} : d \in IF Len(s) < 2 THEN {} ELSE CidAt(s, 2)}

\* parse_short, for a length the caller supplies.
ParseShort(s, len) ==
  IF len \notin 1 .. MaxCidLen THEN {}
  ELSE {Header("short", Bytes(d), <<>>, 0) : d \in Slice(s, 1, len)}

\* parse_public_header; the fixed bit is set in all that peers send.
ParsePublicHeader(type, s) ==
  IF type = "short" THEN ParseShort(s, MaxRouted) ELSE ParseLong(type, s)

\* forward_short: the length already parsed, then the known ones, shortest first.
ForwardShort(s, default) ==
  LET lens == {phLens[f] : f \in {phTable[k] : k \in DOMAIN phTable}} \ {0, Len(default)}
      hits == {n \in lens : \E d \in Slice(s, 1, n) : Bytes(d) \in DOMAIN phTable}
  IN IF default \in DOMAIN phTable THEN {phTable[default]}
     ELSE UNION {{phTable[Bytes(d)] : d \in Slice(s, 1, n)}
                   : n \in {h \in hits : \A g \in hits : h <= g}}
-----------------------------------------------------------------------------

HeaderInit ==
  /\ phTable = <<>> /\ phLens = [f \in PassFlows |-> 0]
  /\ phMeant = Long("none", <<>>, <<>>, 0, 0, 1) /\ phCut = 0 /\ phSeen = {} /\ phRoute = {}

Room(cid) == Cardinality(DOMAIN phTable \cup {cid}) <= MaxIds

\* handle_initial puts a new flow under the ID the client made up.
Open(f, cid) ==
  /\ Room(cid) /\ phLens[f] = 0 /\ \A k \in DOMAIN phTable : phTable[k] # f
  /\ phTable' = (cid :> f) @@ phTable
  /\ UNCHANGED <<phLens, phMeant, phCut, phSeen, phRoute>>

\* reverse_pump: a backend's reply with a long header names its ID.  An entry
\* that is there stays.
Learn(f, cid) ==
  /\ Room(cid) /\ \E k \in DOMAIN phTable : phTable[k] = f
  /\ phTable' = phTable @@ (cid :> f) /\ phLens' = [phLens EXCEPT ![f] = Len(cid)]
  /\ UNCHANGED <<phMeant, phCut, phSeen, phRoute>>

\* handle_inbound, on what arrived of the datagram.  Parsing does not read the
\* table: datagrams that are cut, or looked up nowhere, come to an empty one.
HandleInbound(m, cut) ==
  /\ cut <= Len(Units(m))
  /\ (cut < Len(Units(m)) \/ m.type \notin {"short", "handshake"}) => phTable = <<>>
  /\ LET s == SubSeq(Units(m), 1, cut) seen == ParsePublicHeader(m.type, s) IN
       /\ phMeant' = m /\ phCut' = cut /\ phSeen' = seen
       /\ phRoute' = UNION {CASE h.type \in {"zero_rtt", "handshake"} ->
                                     {phTable[k] : k \in {h.dcid} \cap DOMAIN phTable}
                              [] h.type = "short" -> ForwardShort(s, h.dcid)
                              [] OTHER -> {} : h \in seen}
  /\ UNCHANGED <<phTable, phLens>>

\* A behaviour ends with its one datagram.
HeaderNext ==
  /\ phMeant.type = "none"
  /\ \/ \E f \in PassFlows, cid \in Cids(1) : Open(f, cid) \/ Learn(f, cid)
     \/ \E m \in Datagrams : \E cut \in 0 .. Len(Units(m)) : HandleInbound(m, cut)
-----------------------------------------------------------------------------

\* A datagram that arrived whole is read as it was meant, whatever the width its
\* lengths were written with; of a short header the router reads a fixed length.
ParsedIsMeant ==
  (phMeant.type \notin {"none", "short"} /\ phCut = Len(Units(phMeant))) =>
    phSeen = {Header(phMeant.type, phMeant.dcid, phMeant.scid,
                     IF phMeant.type = "initial" THEN phMeant.token ELSE 0)}

\* Of one that lost its end nothing is made up: it is refused, or what was read
\* is what it says.  One that announces its length is refused.
CutNeverLies ==
  /\ \A h \in phSeen : phMeant.type # "short" => h.dcid = phMeant.dcid /\ h.scid = phMeant.scid
  /\ (phMeant.type \in Typed /\ phCut < Len(Units(phMeant))) => phSeen = {}

\* A datagram is sent to the flow its ID is entered for or to none, and a short
\* one with the ID its backend last announced does get there, as long as no ID
\* in use begins with another.
RoutedHome ==
  LET owner == {phTable[k] : k \in {phMeant.dcid} \cap DOMAIN phTable} IN
  (\A k, l \in DOMAIN phTable \cup {phMeant.dcid} : (k # <<>> /\ IsPrefix(k, l)) => k = l) =>
    /\ phRoute \subseteq owner
    /\ (/\ phMeant.type = "short" /\ phCut = Len(Units(phMeant))
        /\ \E f \in owner : phLens[f] = Len(phMeant.dcid)) => phRoute = owner

HeaderSound == ParsedIsMeant /\ CutNeverLies /\ RoutedHome

\* Refuted: the same for any table.  A shorter ID that begins a longer one takes
\* its packets.
RoutedHomeAlways ==
  (phMeant.type = "short" /\ phMeant.dcid \in DOMAIN phTable) =>
    phRoute \subseteq {phTable[phMeant.dcid]}

\* Refuted: an ID in the table is found.  A flow keeps one length, that of its
\* backend's last ID, and short packets with an earlier ID of another length
\* are dropped.
EnteredIsFound ==
  (phMeant.type = "short" /\ phCut = Len(Units(phMeant)) /\ phMeant.dcid \in DOMAIN phTable) =>
    phRoute # {}
=============================================================================
