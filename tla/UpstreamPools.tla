--------------------------- MODULE UpstreamPools ----------------------------
(* The connection pools of lb-io: the two pools of idle connections, one   *)
(* for TCP and one for QUIC, beside the shared connections of              *)
(* Http2Upstream.                                                          *)
EXTENDS Http2Upstream, Sequences, FiniteSetsExt, Functions

-----------------------------------------------------------------------------
(***************************************************************************)
(* The idle-connection pool of lb-io (pool.rs): one FIFO of parked sockets *)
(* per peer behind a lock, and one atomic count of them all that is read   *)
(* and written outside that lock.  A caller acquires, holds, and drops or  *)
(* takes its connection.  Time and the peer may spoil a parked socket at   *)
(* any moment (past max_age, past idle_timeout, closed, unread bytes), so  *)
(* a check of one may always come out either way.                          *)
(***************************************************************************)

CONSTANTS Callers, TcpConns, TcpPerPeerMax, TcpTotalMax

\* Callers are tasks and connections are sockets: a process has finitely many.
ASSUME TcpAssumption ==
  /\ "none" \notin TcpConns /\ IsFiniteSet(TcpConns)
  /\ IsFiniteSet(Callers) /\ Callers # {}
  /\ TcpPerPeerMax \in Nat /\ TcpTotalMax \in Nat

VARIABLES
  tcpIdle,    \* per_peer: the parked connections of each peer, oldest first
  tcpTotal,   \* total: the atomic count
  tcpCall     \* each caller's place, peer and connection ("none": no one)

tcpVars == <<tcpIdle, tcpTotal, tcpCall>>

TcpOut == [at |-> "out", peer |-> "none", conn |-> "none"]

TcpParked == UNION {Range(tcpIdle[p]) : p \in Peers}
TcpHeld == {tcpCall[t].conn : t \in Callers} \ {"none"}
TcpSpare == TcpConns \ (TcpParked \cup TcpHeld)  \* bound: names for new connections
TcpNewConn == CHOOSE c \in TcpSpare : TRUE
TcpIdleCount == Cardinality(TcpParked)
TcpAt(place) == {t \in Callers : tcpCall[t].at = place}

TcpInit ==
  /\ tcpIdle = [p \in Peers |-> <<>>]
  /\ tcpTotal = 0
  /\ tcpCall = [t \in Callers |-> TcpOut]

TcpGoto(t, place) == tcpCall' = [tcpCall EXCEPT ![t].at = place]

TcpAcquire(t) ==
  /\ tcpCall[t] = TcpOut
  /\ \E p \in Peers :
       tcpCall' = [tcpCall EXCEPT ![t] = [TcpOut EXCEPT !.at = "pop", !.peer = p]]
  /\ UNCHANGED <<tcpIdle, tcpTotal>>

\* Under the peer's lock; an empty queue sends the caller to dial.
TcpPopIdle(t) ==
  LET p == tcpCall[t].peer IN
  /\ tcpCall[t].at = "pop"
  /\ IF tcpIdle[p] = <<>>
       THEN TcpGoto(t, "dial") /\ UNCHANGED tcpIdle
       ELSE /\ tcpCall' = [tcpCall EXCEPT ![t].at = "popped",
                                          ![t].conn = Head(tcpIdle[p])]
            /\ tcpIdle' = [tcpIdle EXCEPT ![p] = Tail(@)]
  /\ UNCHANGED tcpTotal

\* The count follows after the lock is gone.
TcpCountPop(t) ==
  /\ tcpCall[t].at = "popped"
  /\ tcpTotal' = tcpTotal - 1
  /\ TcpGoto(t, "check")
  /\ UNCHANGED tcpIdle

\* A one-byte read of the parked socket; see above.
ProbeAlive == BOOLEAN

\* A flawed connection is closed and the next one tried; a socket the
\* runtime will not adopt fails the call.
ValidateAndUpgrade(t) ==
  /\ tcpCall[t].at = "check"
  /\ \E alive \in ProbeAlive :
       \/ ~alive /\ tcpCall' = [tcpCall EXCEPT ![t].at = "pop", ![t].conn = "none"]
       \/ alive /\ TcpGoto(t, "held")
       \/ alive /\ tcpCall' = [tcpCall EXCEPT ![t] = TcpOut]
  /\ UNCHANGED <<tcpIdle, tcpTotal>>

DialNewAsync(t) ==
  /\ tcpCall[t].at = "dial"
  /\ \/ /\ TcpSpare # {}
        /\ tcpCall' = [tcpCall EXCEPT ![t].at = "held", ![t].conn = TcpNewConn]
     \/ tcpCall' = [tcpCall EXCEPT ![t] = TcpOut]
  /\ UNCHANGED <<tcpIdle, tcpTotal>>

TakeStream(t) ==
  /\ tcpCall[t].at = "held"
  /\ TcpGoto(t, "taken")
  /\ UNCHANGED <<tcpIdle, tcpTotal>>

\* The holder of a taken stream closes it in its own time.
CloseTaken(t) ==
  /\ tcpCall[t].at = "taken"
  /\ tcpCall' = [tcpCall EXCEPT ![t] = TcpOut]
  /\ UNCHANGED <<tcpIdle, tcpTotal>>

\* Drop: closed when not reusable, past max_age, not convertible, or when
\* the count is at total_max; otherwise on to the lock.
ReturnToPool(t) ==
  /\ tcpCall[t].at = "held"
  /\ \/ tcpCall' = [tcpCall EXCEPT ![t] = TcpOut]
     \/ /\ tcpTotal < TcpTotalMax
        /\ TcpGoto(t, "park")
  /\ UNCHANGED <<tcpIdle, tcpTotal>>

Evicted(q) == IF Len(q) >= TcpPerPeerMax THEN Min({Len(q) - TcpPerPeerMax + 1, Len(q)}) ELSE 0

\* Under the lock: the oldest entries make room, and every change is counted.
TcpParkIdle(t) ==
  LET p == tcpCall[t].peer  q == tcpIdle[p] IN
  /\ tcpCall[t].at = "park"
  /\ tcpIdle' = [tcpIdle EXCEPT ![p] =
       Append(SubSeq(q, Evicted(q) + 1, Len(q)), tcpCall[t].conn)]
  /\ tcpTotal' = tcpTotal - Evicted(q) + 1
  /\ tcpCall' = [tcpCall EXCEPT ![t] = TcpOut]

TcpNext ==
  \E t \in Callers :
       \/ TcpAcquire(t) \/ TcpPopIdle(t) \/ TcpCountPop(t) \/ ValidateAndUpgrade(t)
       \/ DialNewAsync(t) \/ TakeStream(t) \/ CloseTaken(t)
       \/ ReturnToPool(t) \/ TcpParkIdle(t)

TcpSpec == TcpInit /\ [][TcpNext]_tcpVars

TcpTypeOK ==
  /\ tcpIdle \in [Peers -> Seq(TcpConns)]
  /\ tcpTotal \in Nat

(* A connection has one owner: no socket is parked twice, parked while a   *)
(* caller has it, or with two callers (take_stream detaches the wrapper    *)
(* from the pool before Drop runs).                                        *)
TcpOneOwner ==
  /\ \A p \in Peers : IsInjective(tcpIdle[p])
  /\ \A p, q \in Peers : p # q => Range(tcpIdle[p]) \cap Range(tcpIdle[q]) = {}
  /\ TcpParked \cap TcpHeld = {}
  /\ \A t, u \in Callers : tcpCall[t].conn = tcpCall[u].conn /\ t # u => tcpCall[t].conn = "none"

(* The count that gates parking is the number of parked sockets, plus those*)
(* a caller has popped and not yet counted, at every interleaving; so it   *)
(* neither underflows nor drifts over a long life.                         *)
TcpCountExact == tcpTotal = TcpIdleCount + Cardinality(TcpAt("popped"))

(* total_max is read before the lock, so callers that pass the test        *)
(* together overshoot it; the overshoot is bounded by their number.        *)
TcpIdleBounded ==
  TcpIdleCount + Cardinality(TcpAt("park")) <= TcpTotalMax - 1 + Cardinality(Callers)

(* A peer's queue is bounded at every step.                                *)
TcpQueueBounded == \A p \in Peers : Len(tcpIdle[p]) <= Max({TcpPerPeerMax, 1})

-----------------------------------------------------------------------------
(***************************************************************************)
(* The upstream QUIC pool of lb-io (quic_pool.rs).  It has the shape of    *)
(* the TCP pool, with three differences: a parked one is probed with a     *)
(* PING and an awaited answer, a drop counts its insertion after the       *)
(* queue's lock is released, and a dedicated dial never touches the pool.  *)
(* The count is a usize: a decrement that overtakes its increment wraps,   *)
(* which the model keeps as arithmetic modulo QuicWrap.                    *)
(***************************************************************************)

CONSTANTS QuicConns, QuicPerPeerMax, QuicTotalMax, QuicWrap

\* A usize is far wider than a limit and the tasks that may overshoot it.
ASSUME QuicAssumption ==
  /\ "none" \notin QuicConns /\ IsFiniteSet(QuicConns)
  /\ QuicPerPeerMax \in Nat /\ QuicTotalMax \in Nat
  /\ QuicWrap \in Nat /\ QuicWrap > QuicTotalMax + 2 * Cardinality(Callers)

VARIABLES
  quicIdle,   \* per_peer: parked connections, oldest first
  quicTotal,  \* total
  quicCall    \* each caller's place, peer, connection and evictions to count

quicVars == <<quicIdle, quicTotal, quicCall>>

QuicOut == [at |-> "out", peer |-> "none", conn |-> "none", evicted |-> 0]

QuicParked == UNION {Range(quicIdle[p]) : p \in Peers}
QuicHeld == {quicCall[t].conn : t \in Callers} \ {"none"}
QuicSpare == QuicConns \ (QuicParked \cup QuicHeld)  \* bound: names for new connections
QuicNewConn == CHOOSE c \in QuicSpare : TRUE
QuicIdleCount == Cardinality(QuicParked)
QuicAt(place) == {t \in Callers : quicCall[t].at = place}
QuicEvicting == {t \in QuicAt("parked") : quicCall[t].evicted = 1}

QuicInit ==
  /\ quicIdle = [p \in Peers |-> <<>>]
  /\ quicTotal = 0
  /\ quicCall = [t \in Callers |-> QuicOut]

QuicLeave(t) == quicCall' = [quicCall EXCEPT ![t] = QuicOut]

QuicAcquire(t) ==
  /\ quicCall[t] = QuicOut
  /\ \E p \in Peers :
       quicCall' = [quicCall EXCEPT ![t] = [QuicOut EXCEPT !.at = "pop", !.peer = p]]
  /\ UNCHANGED <<quicIdle, quicTotal>>

QuicPopIdle(t) ==
  LET p == quicCall[t].peer IN
  /\ quicCall[t].at = "pop"
  /\ IF quicIdle[p] = <<>>
       THEN quicCall' = [quicCall EXCEPT ![t].at = "dial"] /\ UNCHANGED quicIdle
       ELSE /\ quicCall' = [quicCall EXCEPT ![t].at = "popped",
                                            ![t].conn = Head(quicIdle[p])]
            /\ quicIdle' = [quicIdle EXCEPT ![p] = Tail(@)]
  /\ UNCHANGED quicTotal

QuicCountPop(t) ==
  /\ quicCall[t].at = "popped"
  /\ quicTotal' = (quicTotal - 1) % QuicWrap
  /\ quicCall' = [quicCall EXCEPT ![t].at = "check"]
  /\ UNCHANGED quicIdle

\* An expired entry is dropped unprobed.
SkipExpired(t) ==
  /\ quicCall[t].at = "check"
  /\ quicCall' = [quicCall EXCEPT ![t].at = "pop", ![t].conn = "none"]
  /\ UNCHANGED <<quicIdle, quicTotal>>

\* PING out, then one datagram in within probe_timeout.  Any datagram that
\* quiche accepts passes the probe: an acknowledgement, or the peer's close
\* that was waiting in the socket.  Silence, and a late answer, fail it.
ProbeLiveness(t) ==
  /\ quicCall[t].at = "check"
  /\ \/ quicCall' = [quicCall EXCEPT ![t].at = "held"]
     \/ quicCall' = [quicCall EXCEPT ![t].at = "pop", ![t].conn = "none"]
  /\ UNCHANGED <<quicIdle, quicTotal>>

\* bind, connect, and drive the handshake until it is established, closed,
\* failed, or five seconds old; nothing of the pool is touched.
ConnectAndDrive == {"established", "failed"}

DialNew(t) ==
  /\ quicCall[t].at = "dial"
  /\ \E outcome \in ConnectAndDrive :
     \/ outcome = "failed" /\ QuicLeave(t)
     \/ /\ outcome = "established" /\ QuicSpare # {}
        /\ quicCall' = [quicCall EXCEPT ![t].at = "held", ![t].conn = QuicNewConn]
  /\ UNCHANGED <<quicIdle, quicTotal>>

\* Raw relaying dials past the pool and keeps the connection for itself.
DialDedicated(t) ==
  /\ quicCall[t] = QuicOut
  /\ "established" \in ConnectAndDrive /\ QuicSpare # {}
  /\ quicCall' = [quicCall EXCEPT ![t] = [QuicOut EXCEPT !.at = "dedicated", !.conn = QuicNewConn]]
  /\ UNCHANGED <<quicIdle, quicTotal>>

\* take_conn, or the end of a dedicated connection: nothing is parked.
Discard(t) ==
  /\ quicCall[t].at \in {"held", "dedicated"}
  /\ QuicLeave(t)
  /\ UNCHANGED <<quicIdle, quicTotal>>

\* Drop: a connection that is not reusable or that quiche holds closed is
\* gone; max_age is not looked at here.  The count is read before the lock.
DropPooled(t) ==
  /\ quicCall[t].at = "held"
  /\ \/ QuicLeave(t)
     \/ /\ quicTotal < QuicTotalMax
        /\ quicCall' = [quicCall EXCEPT ![t].at = "park"]
  /\ UNCHANGED <<quicIdle, quicTotal>>

\* Under the lock: at most one eviction, then the push.
QuicParkIdle(t) ==
  LET p == quicCall[t].peer
      full == Len(quicIdle[p]) >= QuicPerPeerMax /\ quicIdle[p] # <<>>
  IN
  /\ quicCall[t].at = "park"
  /\ quicIdle' = [quicIdle EXCEPT ![p] =
       Append(IF full THEN Tail(@) ELSE @, quicCall[t].conn)]
  /\ quicCall' = [quicCall EXCEPT ![t].at = "parked", ![t].conn = "none",
                                  ![t].evicted = IF full THEN 1 ELSE 0]
  /\ UNCHANGED quicTotal

\* Mutation: the eviction is forgotten.
BadCountPark(t) ==
  /\ quicCall[t].at = "parked"
  /\ quicTotal' = (quicTotal + 1) % QuicWrap
  /\ QuicLeave(t)
  /\ UNCHANGED quicIdle

\* After the lock: the eviction and the insertion reach the count.
CountPark(t) ==
  /\ quicCall[t].at = "parked"
  /\ quicTotal' = (quicTotal - quicCall[t].evicted + 1) % QuicWrap
  /\ QuicLeave(t)
  /\ UNCHANGED quicIdle

QuicNext ==
  \E t \in Callers :
       \/ QuicAcquire(t) \/ QuicPopIdle(t) \/ QuicCountPop(t) \/ SkipExpired(t)
       \/ ProbeLiveness(t) \/ DialNew(t) \/ DialDedicated(t) \/ Discard(t)
       \/ DropPooled(t) \/ QuicParkIdle(t) \/ CountPark(t)

QuicSpec == QuicInit /\ [][QuicNext]_quicVars

QuicTypeOK ==
  /\ quicIdle \in [Peers -> Seq(QuicConns)]
  /\ quicTotal \in 0..(QuicWrap - 1)

(* The count may wrap while an insertion is still uncounted, and comes back*)
(* by itself: modulo the wrap it is the number of parked connections, plus *)
(* the pops and evictions and less the insertions still to be counted.     *)
QuicCountExact ==
  quicTotal = (QuicIdleCount + Cardinality(QuicAt("popped")) - Cardinality(QuicAt("parked"))
               + Cardinality(QuicEvicting)) % QuicWrap

(* What callers that test the count together park stays below total_max    *)
(* plus their number, whatever is still uncounted when they test it.       *)
QuicIdleBounded ==
  QuicIdleCount + Cardinality(QuicAt("park")) <= QuicTotalMax - 1 + Cardinality(Callers)

(* A queue stays within per_peer_max even though a drop evicts once only.  *)
QuicQueueBounded == \A p \in Peers : Len(quicIdle[p]) <= Max({QuicPerPeerMax, 1})

(* A dedicated connection is its caller's alone.                           *)
QuicOneOwner ==
  /\ \A p \in Peers : IsInjective(quicIdle[p])
  /\ \A p, q \in Peers : p # q => Range(quicIdle[p]) \cap Range(quicIdle[q]) = {}
  /\ QuicParked \cap QuicHeld = {}
  /\ \A t, u \in Callers : quicCall[t].conn = quicCall[u].conn /\ t # u => quicCall[t].conn = "none"

-----------------------------------------------------------------------------
(* A pooled connection has one owner, and a dropped or replaced table      *)
(* entry takes its connection down with it (pool.rs, quic_pool.rs,         *)
(* http2_pool.rs).                                                         *)
ConnectionsOwned == TcpOneOwner /\ QuicOneOwner /\ NoOrphan /\ ResetCovers

(* The pools' unlocked counters account for every parked connection, and   *)
(* the queues stay within their limits up to the callers that pass the     *)
(* unlocked test together.                                                 *)
PoolsAccounted ==
  /\ TcpTypeOK /\ TcpCountExact /\ TcpIdleBounded /\ TcpQueueBounded
  /\ QuicTypeOK /\ QuicCountExact /\ QuicIdleBounded /\ QuicQueueBounded
=============================================================================
