------------------------------ MODULE XdpPath -------------------------------
(* The XDP program: its maps and its incremental checksums.              *)
EXTENDS Naturals, Sequences, FiniteSets, SequencesExt

-----------------------------------------------------------------------------
(***************************************************************************)
(* The XDP program (lb-l4-xdp/ebpf/src/main.rs) with its maps, and what    *)
(* user space writes into them (loader.rs).  One packet is one step, but   *)
(* for the removal that follows the transmission of a FIN+ACK, which user  *)
(* space may precede with an insert of its own.  Addresses and ports are   *)
(* abstracted to a flow: its family, protocol, client and kind of port.    *)
(***************************************************************************)

CONSTANTS XdpFlows,    \* [family, proto, client, port] records, the 5-tuples
          XdpBackends,
          CtEntries,   \* max_entries of each conntrack map
          Cpus,
          Caps,        \* the caps user space sets; the map starts at 0, no cap
          RateWindow, XdpHorizon,
          FlowsMax     \* where the miss counter saturates (u32::MAX), above every cap

VARIABLES tracked,     \* the conntrack maps: flow -> a backend or "zero"
          denied,      \* acl_deny_trie, a set of clients
          rate,        \* new_flow_rate: per CPU, when the window began and its misses
          newFlowCap,  \* new_flow_cap_cfg
          pruning,     \* per CPU, flows sent on whose entry is not yet removed
          xdpClock,
          asked,       \* history: per CPU, when a miss asked for an entry under this cap
          assigned,    \* history: the entry of each flow that nothing has ended
          outcome      \* history: what the last packet led to, if not just XDP_PASS

xdpVars == <<tracked, denied, rate, newFlowCap, pruning, xdpClock, asked,
             assigned, outcome>>

Entries == XdpBackends \cup {"zero"}
Without(f, x) == [y \in DOMAIN f \ {x} |-> f[y]]
With(f, x, v) == [y \in DOMAIN f \cup {x} |-> IF y = x THEN v ELSE f[y]]

(* A frame: whole says that every header the program reads is there, ihl   *)
(* that the IPv4 header length is at least five words, ext how many        *)
(* extension headers precede the payload or fragment header.               *)
Whole(f, flags) == [flow |-> f, whole |-> TRUE, ihl |-> TRUE, frag |-> FALSE, ext |-> 0,
                    flags |-> flags]
Frames ==
  UNION {
    {Whole(f, {}), [Whole(f, {}) EXCEPT !.whole = FALSE], [Whole(f, {}) EXCEPT !.frag = TRUE]}
      \cup (IF f.family = "v4" THEN {[Whole(f, {}) EXCEPT !.ihl = FALSE]}
            ELSE {[Whole(f, {}) EXCEPT !.ext = n] : n \in 2 .. 3})
      \cup (IF f.proto = "tcp" THEN {Whole(f, g) : g \in {{"rst"}, {"fin"}, {"fin", "ack"}}}
            ELSE {}) :
    f \in XdpFlows}

-----------------------------------------------------------------------------
(* is_under_flood: the window restarts only when more than its length has  *)
(* gone by, the miss is counted, and then compared.                        *)
Roll(w, t) == IF t - w.start > RateWindow THEN [start |-> t, flows |-> 0] ELSE w

Counted(w, t) == [Roll(w, t) EXCEPT !.flows = IF @ = FlowsMax THEN @ ELSE @ + 1]
UnderFlood(w, t) == newFlowCap # 0 /\ Counted(w, t).flows > newFlowCap

-----------------------------------------------------------------------------
(* How far a frame gets, in the order of handle_ipv4 and handle_ipv6: the  *)
(* deny list is IPv4 only and read after the fragment check, the ports     *)
(* after the deny list, the conntrack map after an RST.                    *)
Readable(p) == p.whole /\ p.ihl /\ p.ext <= 2 /\ ~ p.frag
Denied(p) == p.flow.family = "v4" /\ p.flow.client \in denied
Balanced(p) ==
  Readable(p) /\ ~ Denied(p) /\ p.flow.proto \in {"tcp", "udp"} /\ p.flow.port # "l7"
Looked(p) == Balanced(p) /\ "rst" \notin p.flags
Hit(p) == Looked(p) /\ p.flow \in DOMAIN tracked

Done(p, act, to) == outcome' = {[flow |-> p.flow, act |-> act, to |-> to]}
PassedUp == outcome' = {}

Drop(p) ==
  /\ Readable(p) /\ Denied(p)
  /\ Done(p, "drop", "none")
  /\ UNCHANGED <<tracked, rate, pruning, asked, assigned>>

(* XDP_PASS with no map touched: a header missing, too many extension      *)
(* headers, a fragment, another protocol, a port of the L7 proxy, or an    *)
(* entry without a backend.                                                *)
PassUp(p) ==
  /\ \/ ~ Readable(p)
     \/ Readable(p) /\ ~ Denied(p) /\ ~ Balanced(p)
     \/ Hit(p) /\ tracked[p.flow] = "zero"
  /\ PassedUp
  /\ UNCHANGED <<tracked, rate, pruning, asked, assigned>>

(* An RST removes the flow's entry and goes to the stack.                  *)
\* Mutation: the entry outlives the RST.
RstPruneKeeps(p) ==
  /\ Balanced(p) /\ "rst" \in p.flags
  /\ assigned' = Without(assigned, p.flow)
  /\ PassedUp
  /\ UNCHANGED <<tracked, rate, pruning, asked>>

RstPrune(p) ==
  /\ Balanced(p) /\ "rst" \in p.flags
  /\ tracked' = Without(tracked, p.flow)
  /\ assigned' = Without(assigned, p.flow)
  /\ PassedUp
  /\ UNCHANGED <<rate, pruning, asked>>

(* A miss asks user space for an entry (STAT_PASS) unless the CPU has had  *)
(* its share of misses.                                                    *)
Miss(c, p) ==
  LET flood == UnderFlood(rate[c], xdpClock) IN
  /\ Looked(p) /\ ~ Hit(p)
  /\ rate' = IF newFlowCap = 0 THEN rate ELSE [rate EXCEPT ![c] = Counted(@, xdpClock)]
  /\ asked' = [asked EXCEPT ![c] = IF flood \/ newFlowCap = 0 THEN @ ELSE Append(@, xdpClock)]
  /\ IF flood THEN PassedUp ELSE Done(p, "ask", "none")
  /\ UNCHANGED <<tracked, pruning, assigned>>

(* A hit is rewritten and sent to its backend; a FIN+ACK leaves the entry  *)
(* to be removed.                                                          *)
Transmit(c, p) ==
  /\ Hit(p) /\ tracked[p.flow] # "zero"
  /\ Done(p, "tx", tracked[p.flow])
  /\ pruning' = [pruning EXCEPT ![c] = IF {"fin", "ack"} \subseteq p.flags THEN {p.flow} ELSE {}]
  /\ UNCHANGED <<tracked, rate, asked, assigned>>

Receive(c, p) ==
  /\ pruning[c] = {}
  /\ Drop(p) \/ PassUp(p) \/ RstPrune(p) \/ Miss(c, p) \/ Transmit(c, p)
  /\ UNCHANGED <<denied, newFlowCap, xdpClock>>

FinPrune(c) ==
  \E f \in pruning[c] :
    /\ tracked' = Without(tracked, f)
    /\ assigned' = Without(assigned, f)
    /\ pruning' = [pruning EXCEPT ![c] = {}]
    /\ UNCHANGED <<denied, rate, newFlowCap, xdpClock, asked, outcome>>

-----------------------------------------------------------------------------
(* User space.  An insert into a full LRU map evicts some other entry of   *)
(* that map; the kernel decides which.                                     *)
Family(f) == {g \in DOMAIN tracked : g.family = f.family}
Insert(f, e) ==
  /\ \E victims \in IF f \in DOMAIN tracked \/ Cardinality(Family(f)) < CtEntries THEN {{}}
                    ELSE {{g} : g \in Family(f)} :
       tracked' = With([g \in DOMAIN tracked \ victims |-> tracked[g]], f, e)
  /\ assigned' = With(assigned, f, e)
  /\ UNCHANGED <<denied, rate, newFlowCap, pruning, xdpClock, asked, outcome>>

InsertAclDeny(client) ==
  /\ client \notin denied /\ denied' = denied \cup {client}
  /\ UNCHANGED <<tracked, rate, newFlowCap, pruning, xdpClock, asked, assigned,
                 outcome>>

SetNewFlowCap(n) ==
  /\ n # newFlowCap /\ newFlowCap' = n
  /\ asked' = [c \in Cpus |-> << >>]
  /\ UNCHANGED <<tracked, denied, rate, pruning, xdpClock, assigned, outcome>>

XdpTick ==
  /\ xdpClock < XdpHorizon /\ xdpClock' = xdpClock + 1
  /\ asked' = [c \in Cpus |-> SelectSeq(asked[c], LAMBDA t : t + RateWindow > xdpClock + 1)]
  /\ UNCHANGED <<tracked, denied, rate, newFlowCap, pruning, assigned, outcome>>

XdpInit ==
  /\ tracked = << >> /\ denied = {} /\ assigned = << >>
  /\ rate = [c \in Cpus |-> [start |-> 0, flows |-> 0]]
  /\ newFlowCap = 0
  /\ pruning = [c \in Cpus |-> {}] /\ xdpClock = 0 /\ asked = [c \in Cpus |-> << >>]
  /\ outcome = {}

XdpNext ==
  \/ \E c \in Cpus : FinPrune(c) \/ \E p \in Frames : Receive(c, p)
  \/ \E f \in XdpFlows, e \in Entries : f.port = "l4" /\ Insert(f, e)
  \/ \E f \in XdpFlows : InsertAclDeny(f.client)
  \/ \E n \in Caps : SetNewFlowCap(n)
  \/ XdpTick

-----------------------------------------------------------------------------
(* A frame goes to the backend user space last gave its flow, and not once *)
(* an RST or a FIN+ACK of the flow has gone by without a new entry: not    *)
(* through evictions, denials or another family's tuple (CONNTRACK).       *)
SentAsAssignedStep ==
  \A o \in outcome' \ outcome : o.act = "tx" =>
     o.flow \in DOMAIN assigned /\ o.to = assigned[o.flow]

(* From the moment a client is denied, none of its IPv4 frames is sent to  *)
(* a backend or asks for an entry, established flows included, and only    *)
(* denied clients are dropped (ACL_DENY_TRIE ahead of CONNTRACK).          *)
DeniedGoNowhereStep ==
  \A o \in outcome' \ outcome :
     (o.flow.family = "v4" /\ o.flow.client \in denied) <=> o.act = "drop"

(* In any stretch of one window's length a CPU asks for at most twice the  *)
(* cap of entries, however the misses straddle window boundaries           *)
(* (is_under_flood).                                                       *)
MissesBounded ==
  newFlowCap # 0 => \A c \in Cpus : Len(asked[c]) <= 2 * newFlowCap

(* Refuted: the comment's sliding window (main.rs:407), which would allow  *)
(* only the cap itself.                                                    *)
MissesSlide == newFlowCap # 0 => \A c \in Cpus : Len(asked[c]) <= newFlowCap

(* The state is well-formed, and a map never outgrows its max_entries.     *)
XdpTypeOK ==
  /\ DOMAIN tracked \subseteq XdpFlows /\ Range(tracked) \subseteq Entries
  /\ \A f \in DOMAIN tracked : Cardinality(Family(f)) <= CtEntries
  /\ denied \subseteq {f.client : f \in XdpFlows}
  /\ rate \in [Cpus -> [start : 0 .. XdpHorizon, flows : 0 .. FlowsMax]]
  /\ newFlowCap \in Caps \cup {0}
  /\ pruning \in [Cpus -> SUBSET XdpFlows]

-----------------------------------------------------------------------------
(***************************************************************************)
(* Rewriting a frame's destination in place (lb-l4-xdp/ebpf/src/main.rs,   *)
(* rewrite_v4, rewrite_v6): the checksums are not recomputed but updated   *)
(* word by word after RFC 1624.  The state is one frame, rewritten any     *)
(* number of times; its reference is the full checksum (sim.rs).           *)
(***************************************************************************)

CONSTANTS Lanes,       \* sample 16-bit words
          Addresses    \* destination addresses, sequences of 2 or 8 words

VARIABLE segment       \* what of the frame the checksums cover, and the checksums

Half == 65536
Complement(w) == Half - 1 - w

Fold32(sum) ==
  LET once == (sum % Half) + (sum \div Half)
  IN  ((once % Half) + (once \div Half)) % Half

Csum16Update(check, old, new) ==
  Complement(Fold32(Complement(check) + Complement(old) + new))

(* csum16_update_u32 and csum16_update_v6: the words of the address, most  *)
(* significant first.                                                      *)
CsumUpdateAddress(check, old, new) ==
  FoldLeftDomain(LAMBDA c, i : Csum16Update(c, old[i], new[i]), check, old)

FullChecksum(words) == Complement(Fold32(FoldLeft(LAMBDA a, w : a + w, 0, words)))

-----------------------------------------------------------------------------
(* rest stands for the other words both checksums cover; the IP version    *)
(* and the protocol number are among them, so it is never 0.               *)
Covered(s) == s.dst \o <<s.port, s.rest>>
L4Sum(s) == FullChecksum(Covered(s))
L3Sum(s) == FullChecksum(s.dst \o <<s.rest>>)

(* A sender leaves UDP's checksum out as 0 (IPv4 only) and sends a         *)
(* computed 0 as its other representation.                                 *)
SentChecks(s) ==
  CASE s.proto = "tcp"                      -> {L4Sum(s)}
    [] s.proto = "udp" /\ Len(s.dst) = 2    -> {0, IF L4Sum(s) = 0 THEN Half - 1 ELSE L4Sum(s)}
    [] OTHER                                -> {IF L4Sum(s) = 0 THEN Half - 1 ELSE L4Sum(s)}

Unsummed == [proto : {"tcp", "udp"}, dst : Addresses, port : Lanes, rest : Lanes \ {0}]
ChecksumInit ==
  \E s \in Unsummed : \E c \in SentChecks(s) :
    segment = [proto |-> s.proto, dst |-> s.dst, port |-> s.port, rest |-> s.rest,
               l3 |-> L3Sum(s), l4 |-> c]

Rewrite(dst, port) ==
  /\ Len(dst) = Len(segment.dst)
  /\ segment' =
       [segment EXCEPT
          !.dst = dst, !.port = port,
          !.l3 = IF Len(dst) = 2 THEN CsumUpdateAddress(@, segment.dst, dst) ELSE @,
          !.l4 = IF segment.proto = "udp" /\ @ = 0 THEN @
                 ELSE Csum16Update(CsumUpdateAddress(@, segment.dst, dst), segment.port, port)]

ChecksumNext == \E dst \in Addresses, port \in Lanes : Rewrite(dst, port)

-----------------------------------------------------------------------------
(* What the receiver computes over the words and their checksum.           *)
Accepts(words, check) == FullChecksum(Append(words, check)) = 0

(* A frame that verified when it came verifies when it leaves, whichever   *)
(* of zero's two representations the words and checksums take and however  *)
(* often the frame is rewritten (csum16_update).                           *)
ChecksumsVerify ==
  /\ Len(segment.dst) = 2 => Accepts(segment.dst \o <<segment.rest>>, segment.l3)
  /\ Accepts(Covered(segment), segment.l4) \/ (segment.proto = "udp" /\ segment.l4 = 0)

(* Refuted: the update can arrive at 0, which in UDP says that there is no *)
(* checksum, and which "IPv6 requires" not to be (main.rs:1119).           *)
UdpChecksumStaysStep ==
  segment.proto = "udp" /\ segment.l4 # 0 => segment'.l4 # 0
=============================================================================
