------------------------------ MODULE ConnGate ------------------------------
(***************************************************************************)
(* The connection gate every accept loop consults (crates/lb-security/src/ *)
(* conn_gate.rs): a lock-free counter per listener and a sharded map of    *)
(* counters per source address.  Each atomic operation of admit and of the *)
(* permit's Drop is a step, so admissions and drops of different           *)
(* connections interleave between them.                                    *)
(***************************************************************************)
EXTENDS Integers, FiniteSets

CONSTANTS Sockets,      \* connections being accepted or served
          Peers,        \* source addresses
          PeerOf,       \* the address each connection comes from
          ListenerCap, PerIpCap

ASSUME SocketsAssumption == IsFiniteSet(Sockets)
ASSUME PeerAssumption == PeerOf \in [Sockets -> Peers]
ASSUME CapAssumption == ListenerCap \in Nat /\ PerIpCap \in Nat \ {0}

VARIABLES perListener,  \* AtomicU32
          perIp,        \* the counters of per_ip, 0 where there is no entry
          entries,      \* the addresses that have an entry
          pc            \* where each connection is in admit or in drop

gateVars == <<perListener, perIp, entries, pc>>

GateInit ==
  /\ perListener = 0
  /\ perIp = [p \in Peers |-> 0] /\ entries = {}
  /\ pc = [c \in Sockets |-> "idle"]

\* Connections that own a slot of the listener, and those holding a permit.
Counted == {c \in Sockets : pc[c] # "idle"}
Held(p) == {c \in Sockets : pc[c] = "held" /\ PeerOf[c] = p}
----------------------------------------------------------------------------
\* The compare_exchange that succeeds; at the cap admit returns OverCap.
Reserve(c) ==
  /\ pc[c] = "idle" /\ perListener < ListenerCap
  /\ perListener' = perListener + 1
  /\ pc' = [pc EXCEPT ![c] = "reserved"]
  /\ UNCHANGED <<perIp, entries>>

\* entry(peer).or_insert(0) under the shard lock: refuse or count.
CountPeer(c) ==
  /\ pc[c] = "reserved"
  /\ entries' = entries \cup {PeerOf[c]}
  /\ IF perIp[PeerOf[c]] >= PerIpCap
       THEN pc' = [pc EXCEPT ![c] = "rollback"] /\ UNCHANGED perIp
       ELSE /\ perIp' = [perIp EXCEPT ![PeerOf[c]] = @ + 1]
            /\ pc' = [pc EXCEPT ![c] = "held"]
  /\ UNCHANGED perListener

\* OverCap::PerIp gives the listener slot back.
Rollback(c) ==
  /\ pc[c] = "rollback"
  /\ perListener' = perListener - 1
  /\ pc' = [pc EXCEPT ![c] = "idle"]
  /\ UNCHANGED <<perIp, entries>>

\* Mutation: the zero that asks for collection is read before the decrement.
DropPeerReadsFirst(c) ==
  /\ pc[c] = "held"
  /\ IF PeerOf[c] \in entries
       THEN /\ perIp' = [perIp EXCEPT ![PeerOf[c]] = IF @ > 0 THEN @ - 1 ELSE @]
            /\ pc' = [pc EXCEPT ![c] =
                        IF perIp[PeerOf[c]] = 0 THEN "gc" ELSE "release"]
       ELSE pc' = [pc EXCEPT ![c] = "release"] /\ UNCHANGED perIp
  /\ UNCHANGED <<perListener, entries>>

\* ConnPermit::drop: the address's counter, under the shard lock.
DropPeer(c) ==
  /\ pc[c] = "held"
  /\ IF PeerOf[c] \in entries
       THEN /\ perIp' = [perIp EXCEPT ![PeerOf[c]] = IF @ > 0 THEN @ - 1 ELSE @]
            /\ pc' = [pc EXCEPT ![c] =
                        IF perIp[PeerOf[c]] <= 1 THEN "gc" ELSE "release"]
       ELSE pc' = [pc EXCEPT ![c] = "release"] /\ UNCHANGED perIp
  /\ UNCHANGED <<perListener, entries>>

\* Mutation: the entry is removed on the strength of the earlier read.
GcStale(c) ==
  /\ pc[c] = "gc"
  /\ entries' = entries \ {PeerOf[c]}
  /\ perIp' = [perIp EXCEPT ![PeerOf[c]] = 0]
  /\ pc' = [pc EXCEPT ![c] = "release"]
  /\ UNCHANGED perListener

\* remove_if(v == 0), the shard lock taken again: an admission may have come
\* in between.
Gc(c) ==
  /\ pc[c] = "gc"
  /\ entries' = IF perIp[PeerOf[c]] = 0 THEN entries \ {PeerOf[c]} ELSE entries
  /\ pc' = [pc EXCEPT ![c] = "release"]
  /\ UNCHANGED <<perListener, perIp>>

\* The listener slot goes last.
Release(c) ==
  /\ pc[c] = "release"
  /\ perListener' = perListener - 1
  /\ pc' = [pc EXCEPT ![c] = "idle"]
  /\ UNCHANGED <<perIp, entries>>

\* The steps a connection takes without waiting for its peer.
Moves(c) == CountPeer(c) \/ Rollback(c) \/ Gc(c) \/ Release(c)

GateNext == \E c \in Sockets : Reserve(c) \/ DropPeer(c) \/ Moves(c)

GateSpec == GateInit /\ [][GateNext]_gateVars
----------------------------------------------------------------------------
GateTypeOK ==
  /\ perListener \in 0..ListenerCap
  /\ perIp \in [Peers -> 0..PerIpCap] /\ entries \subseteq Peers
  /\ pc \in [Sockets -> {"idle", "reserved", "rollback", "held", "gc", "release"}]

\* Both caps hold at every moment for the permits that exist, and a refused
\* or closing connection is not forgotten in the listener's count.
CapsHold ==
  /\ GateTypeOK
  /\ Cardinality(Counted) = perListener /\ perListener <= ListenerCap
  /\ \A p \in Peers : /\ Cardinality(Held(p)) = perIp[p]
                      /\ perIp[p] <= PerIpCap

\* When the last connection of an address is gone so is its entry: the map
\* does not grow with the addresses ever seen.
EntriesCollected ==
  \A p \in entries : \E c \in Sockets : PeerOf[c] = p /\ pc[c] \in {"held", "gc"}
=============================================================================
