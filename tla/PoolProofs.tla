----------------------------- MODULE PoolProofs -----------------------------
(***************************************************************************)
(* Proofs about the connection pools: who owns a pooled connection, and    *)
(* what the counts that gate parking count, for any finite number of       *)
(* connections and callers.                                                *)
(***************************************************************************)
EXTENDS UpstreamPools, FiniteSetTheorems, TLAPS

-----------------------------------------------------------------------------
(***************************************************************************)
(* The shared HTTP/2 connections.                                          *)
(***************************************************************************)

H2Places == {"new", "dial", "dialled", "sent", "answered", "failed", "cancelled", "reset"}

H2Types ==
  /\ h2Entry \in [Peers -> H2Conns \cup {"none"}]
  /\ h2Up \subseteq H2Conns
  /\ h2Req \in [H2Reqs -> [at : H2Places, peer : Peers \cup {"none"}, conn : H2Conns \cup {"none"}]]
  /\ \A r \in H2Reqs : h2Req[r].at # "new" => h2Req[r].peer \in Peers
  /\ \A r \in H2Reqs : h2Req[r].at \in {"dialled", "sent"} => h2Req[r].conn \in H2Conns

\* A request on a live connection is on the one that is cached for its peer:
\* so reset_peer, which knows the address only, takes down the right one.
OnCached ==
  \A r \in H2Reqs :
    h2Req[r].at = "sent" /\ h2Req[r].conn \in h2Up => h2Entry[h2Req[r].peer] = h2Req[r].conn

H2Inv == H2Types /\ OnCached /\ NoOrphan /\ ResetCovers

\* No connection is up at first.
LEMMA H2InitInv == H2Init => H2Inv
  BY SMT DEF H2Init, New, H2Inv, H2Types, H2Places, OnCached, NoOrphan, ResetCovers

\* Every step of a request, of the table and of the peers keeps it.
LEMMA H2StepInv == H2Inv /\ [H2Next]_h2Vars => H2Inv'
<1> SUFFICES ASSUME H2Inv, [H2Next]_h2Vars PROVE H2Inv'
  OBVIOUS
<1> USE H2ConnsAssumption
        DEF H2Inv, H2Types, H2Places, OnCached, NoOrphan, ResetCovers, Finish, Evict, New
<1>1. CASE \E r \in H2Reqs : AcquireSender(r)
  <2>1. PICK r \in H2Reqs, p \in Peers :
          \/ /\ h2Entry[p] \in h2Up
             /\ h2Req' = [h2Req EXCEPT ![r] = [at |-> "sent", peer |-> p, conn |-> h2Entry[p]]]
             /\ UNCHANGED <<h2Entry, h2Up>>
          \/ /\ h2Entry[p] \notin h2Up
             /\ h2Entry' = [h2Entry EXCEPT ![p] = "none"]
             /\ h2Req' = [h2Req EXCEPT ![r] = [at |-> "dial", peer |-> p, conn |-> "none"]]
             /\ UNCHANGED h2Up /\ h2Req[r].at = "new"
    BY <1>1, Zenon DEF AcquireSender
  <2>2. CASE h2Entry[p] \in h2Up
    <3>1. h2Req' = [h2Req EXCEPT ![r] = [at |-> "sent", peer |-> p, conn |-> h2Entry[p]]] /\ UNCHANGED <<h2Entry, h2Up>>
      BY <2>1, <2>2
    <3> QED BY <1>1, <2>2, <3>1, SMT DEF AcquireSender
  <2>3. CASE h2Entry[p] \notin h2Up
    <3>1. /\ h2Entry' = [h2Entry EXCEPT ![p] = "none"] /\ UNCHANGED h2Up /\ h2Req[r].at = "new"
          /\ h2Req' = [h2Req EXCEPT ![r] = [at |-> "dial", peer |-> p, conn |-> "none"]]
      BY <2>1, <2>3
    <3>2. H2Types'
      BY <3>1, SMT
    <3>3. OnCached'
      BY <2>3, <3>1, SMT
    <3>4. NoOrphan' /\ ResetCovers'
      BY <2>3, <3>1, SMT
    <3> QED BY <3>2, <3>3, <3>4
  <2> QED BY <2>2, <2>3
<1>2. CASE \E r \in H2Reqs : DialAndHandshake(r)
  BY <1>2, SMT DEF DialAndHandshake
<1>3. CASE \E r \in H2Reqs : ReplaceEntry(r)
  BY <1>3, SMT DEF ReplaceEntry
<1>4. CASE \E r \in H2Reqs : SendRequest(r)
  BY <1>4, SMT DEF SendRequest
<1>5. CASE \E r \in H2Reqs : CancelRequest(r)
  BY <1>5, SMT DEF CancelRequest
<1>6. CASE \E r \in H2Reqs : ResetPeer(r)
  BY <1>6, SMT DEF ResetPeer
<1>7. CASE \E r \in H2Reqs : Again(r)
  BY <1>7, SMT DEF Again
<1>8. CASE \E c \in H2Conns : PeerCloses(c)
  BY <1>8, SMT DEF PeerCloses
<1>9. CASE UNCHANGED h2Vars
  BY <1>9, SMT DEF h2Vars
<1> QED
  BY <1>1, <1>2, <1>3, <1>4, <1>5, <1>6, <1>7, <1>8, <1>9, Zenon DEF H2Next, Step

-----------------------------------------------------------------------------
(***************************************************************************)
(* The two pools of idle connections: who owns what.                       *)
(***************************************************************************)

\* What a queue of distinct connections is after the oldest one leaves.
LEMMA TailDistinct ==
  ASSUME NEW S, NEW q \in Seq(S), q # <<>>, IsInjective(q)
  PROVE  /\ Head(q) \in S /\ Head(q) \in Range(q)
         /\ Tail(q) \in Seq(S) /\ IsInjective(Tail(q))
         /\ Range(Tail(q)) \subseteq Range(q) \ {Head(q)}
<1>1. /\ Head(q) = q[1] /\ 1 \in DOMAIN q /\ Tail(q) \in Seq(S) /\ Head(q) \in S
      /\ DOMAIN q = 1..Len(q) /\ Len(q) \in Nat
  BY SMT
<1>2. /\ DOMAIN Tail(q) = 1..Len(q) - 1
      /\ \A i \in DOMAIN Tail(q) : Tail(q)[i] = q[i + 1] /\ i + 1 \in DOMAIN q
  BY <1>1, SMT
<1>3. IsInjective(Tail(q))
  BY <1>1, <1>2, SMT DEF IsInjective
<1>4. ASSUME NEW i \in DOMAIN Tail(q)
      PROVE  Tail(q)[i] \in Range(q) /\ Tail(q)[i] # Head(q)
  BY <1>1, <1>2, SMT DEF IsInjective, Range
<1> QED BY <1>1, <1>3, <1>4 DEF Range

\* The same after the n oldest ones leave.
LEMMA SubSeqDistinct ==
  ASSUME NEW S, NEW q \in Seq(S), IsInjective(q), NEW n \in 0..Len(q)
  PROVE  LET r == SubSeq(q, n + 1, Len(q)) IN
         r \in Seq(S) /\ IsInjective(r) /\ Range(r) \subseteq Range(q)
<1> DEFINE r == SubSeq(q, n + 1, Len(q))
<1>1. /\ r \in Seq(S) /\ DOMAIN r = 1..Len(q) - n
      /\ \A i \in DOMAIN r : r[i] = q[i + n] /\ i + n \in DOMAIN q
  BY SMT
<1> HIDE DEF r
<1>2. IsInjective(r)
  BY <1>1, SMT DEF IsInjective
<1>3. Range(r) \subseteq Range(q)
  BY <1>1, SMT DEF Range
<1> QED BY <1>1, <1>2, <1>3 DEF r

\* The same after a connection that is not in the queue is parked.
LEMMA AppendDistinct ==
  ASSUME NEW S, NEW q \in Seq(S), IsInjective(q), NEW c \in S, c \notin Range(q)
  PROVE  /\ Append(q, c) \in Seq(S) /\ IsInjective(Append(q, c))
         /\ Range(Append(q, c)) \subseteq Range(q) \cup {c}
<1> DEFINE r == Append(q, c)
<1>1. /\ r \in Seq(S) /\ DOMAIN r = 1..Len(q) + 1 /\ DOMAIN q = 1..Len(q) /\ Len(q) \in Nat
      /\ r[Len(q) + 1] = c /\ \A i \in DOMAIN q : r[i] = q[i]
  BY SMT
<1> HIDE DEF r
<1>2. \A i \in DOMAIN r : i = Len(q) + 1 \/ i \in DOMAIN q
  BY <1>1, SMT
<1>3. \A i \in DOMAIN q : q[i] # c
  BY DEF Range
<1>4. IsInjective(r)
  BY <1>1, <1>2, <1>3, SMT DEF IsInjective
<1>5. Range(r) \subseteq Range(q) \cup {c}
  BY <1>1, <1>2, SMT DEF Range
<1> QED BY <1>1, <1>4, <1>5 DEF r

\* Who has what: the queues of a pool and what its callers hold.
Owned(S, idle, has) ==
  /\ idle \in [Peers -> Seq(S)]
  /\ has \in [Callers -> S \cup {"none"}]
  /\ \A p \in Peers : IsInjective(idle[p])
  /\ \A p, q \in Peers : p # q => Range(idle[p]) \cap Range(idle[q]) = {}
  /\ \A p \in Peers, t \in Callers : has[t] \notin Range(idle[p])
  /\ \A t, u \in Callers : has[t] = has[u] /\ t # u => has[t] = "none"

\* A caller that pops the oldest idle connection becomes its owner.
LEMMA PopOwned ==
  ASSUME NEW S, NEW idle, NEW has, Owned(S, idle, has), "none" \notin S,
         NEW p \in Peers, NEW t \in Callers, has[t] = "none", idle[p] # <<>>
  PROVE  Owned(S, [idle EXCEPT ![p] = Tail(@)], [has EXCEPT ![t] = Head(idle[p])])
<1> DEFINE q == idle[p]  c == Head(idle[p])
           idle2 == [idle EXCEPT ![p] = Tail(@)]
           has2 == [has EXCEPT ![t] = c]
<1>1. q \in Seq(S) /\ IsInjective(q)
  BY DEF Owned
<1>2. /\ c \in S /\ c \in Range(q) /\ Tail(q) \in Seq(S) /\ IsInjective(Tail(q))
      /\ Range(Tail(q)) \subseteq Range(q) \ {c}
  BY <1>1, TailDistinct
<1>3. /\ idle2 \in [Peers -> Seq(S)] /\ idle2[p] = Tail(q)
      /\ \A o \in Peers : o # p => idle2[o] = idle[o]
  BY <1>2 DEF Owned
<1>4. /\ has2 \in [Callers -> S \cup {"none"}] /\ has2[t] = c
      /\ \A u \in Callers : u # t => has2[u] = has[u]
  BY <1>2 DEF Owned
<1>5. /\ \A o \in Peers : IsInjective(idle2[o])
      /\ \A o \in Peers : Range(idle2[o]) \subseteq Range(idle[o]) /\ c \notin Range(idle2[o])
  BY <1>2, <1>3 DEF Owned
<1> HIDE DEF idle2, has2, c, q
<1>6. \A o, r \in Peers : o # r => Range(idle2[o]) \cap Range(idle2[r]) = {}
  BY <1>5, Zenon DEF Owned
<1>7. \A o \in Peers, u \in Callers : has2[u] \notin Range(idle2[o])
  BY <1>4, <1>5 DEF Owned
<1>8. \A u, v \in Callers : has2[u] = has2[v] /\ u # v => has2[u] = "none"
  BY <1>2, <1>4 DEF Owned, q
<1> QED BY <1>3, <1>4, <1>5, <1>6, <1>7, <1>8 DEF Owned, idle2, has2, c, q

\* A caller that parks its connection gives it up.
LEMMA ParkOwned ==
  ASSUME NEW S, NEW idle, NEW has, Owned(S, idle, has), "none" \notin S,
         NEW p \in Peers, NEW t \in Callers, has[t] \in S,
         NEW kept \in Seq(S), IsInjective(kept), Range(kept) \subseteq Range(idle[p])
  PROVE  Owned(S, [idle EXCEPT ![p] = Append(kept, has[t])], [has EXCEPT ![t] = "none"])
<1> DEFINE c == has[t]
           idle2 == [idle EXCEPT ![p] = Append(kept, has[t])]
           has2 == [has EXCEPT ![t] = "none"]
<1>1. c \in S /\ \A o \in Peers : c \notin Range(idle[o])
  BY DEF Owned
<1>2. /\ Append(kept, c) \in Seq(S) /\ IsInjective(Append(kept, c))
      /\ Range(Append(kept, c)) \subseteq Range(kept) \cup {c}
  BY <1>1, AppendDistinct
<1>3. /\ idle2 \in [Peers -> Seq(S)] /\ idle2[p] = Append(kept, c)
      /\ \A o \in Peers : o # p => idle2[o] = idle[o]
  BY <1>2 DEF Owned
<1>4. /\ has2 \in [Callers -> S \cup {"none"}] /\ has2[t] = "none"
      /\ \A u \in Callers : u # t => has2[u] = has[u] /\ has[u] # c
  BY <1>1 DEF Owned
<1>5. /\ \A o \in Peers : IsInjective(idle2[o])
      /\ \A o \in Peers : Range(idle2[o]) \subseteq Range(idle[o]) \cup {c}
      /\ \A o \in Peers : o # p => c \notin Range(idle2[o])
  BY <1>1, <1>2, <1>3 DEF Owned
<1>9. \A o \in Peers : "none" \notin Range(idle2[o])
  BY <1>3 DEF Range
<1> HIDE DEF idle2, has2, c
<1>6. \A o, r \in Peers : o # r => Range(idle2[o]) \cap Range(idle2[r]) = {}
  <2> SUFFICES ASSUME NEW o \in Peers, NEW r \in Peers, o # r,
                      NEW x \in Range(idle2[o]) \cap Range(idle2[r])
               PROVE  FALSE
    BY Zenon
  <2>1. x # c
    BY <1>5
  <2>2. x \in Range(idle[o]) /\ x \in Range(idle[r])
    BY <1>5, <2>1
  <2> QED BY <2>2 DEF Owned
<1>7. \A o \in Peers, u \in Callers : has2[u] \notin Range(idle2[o])
  BY <1>4, <1>5, <1>9 DEF Owned
<1>8. \A u, v \in Callers : has2[u] = has2[v] /\ u # v => has2[u] = "none"
  BY <1>4 DEF Owned
<1> QED BY <1>3, <1>4, <1>5, <1>6, <1>7, <1>8 DEF Owned, idle2, has2, c

\* A caller that has none dials a connection that nobody has.
LEMMA DialOwned ==
  ASSUME NEW S, NEW idle, NEW has, Owned(S, idle, has), NEW t \in Callers, NEW c \in S,
         \A p \in Peers : c \notin Range(idle[p]), \A u \in Callers : has[u] # c
  PROVE  Owned(S, idle, [has EXCEPT ![t] = c])
  BY DEF Owned

\* A caller may close the connection it has.
LEMMA CloseOwned ==
  ASSUME NEW S, NEW idle, NEW has, Owned(S, idle, has), "none" \notin S, NEW t \in Callers
  PROVE  Owned(S, idle, [has EXCEPT ![t] = "none"])
<1>1. \A p \in Peers : "none" \notin Range(idle[p])
  BY DEF Owned, Range
<1> QED BY <1>1 DEF Owned

TcpPlaces == {"out", "pop", "popped", "check", "dial", "held", "taken", "park"}

TcpHas == [t \in Callers |-> tcpCall[t].conn]

\* A caller has a connection exactly where the code has one in hand.
TcpInv ==
  /\ tcpCall \in [Callers -> [at : TcpPlaces, peer : Peers \cup {"none"}, conn : TcpConns \cup {"none"}]]
  /\ \A t \in Callers : tcpCall[t].at # "out" => tcpCall[t].peer \in Peers
  /\ \A t \in Callers : tcpCall[t].conn = "none" <=> tcpCall[t].at \in {"out", "pop", "dial"}
  /\ Owned(TcpConns, tcpIdle, TcpHas)

\* What the callers have and the queues hold is owned once.
LEMMA TcpInvOwner == TcpInv => TcpOneOwner
<1> SUFFICES ASSUME TcpInv PROVE TcpOneOwner
  OBVIOUS
<1>1. \A t \in Callers : TcpHas[t] = tcpCall[t].conn
  BY DEF TcpHas
<1> QED BY <1>1 DEF TcpInv, Owned, TcpOneOwner, TcpParked, TcpHeld

\* Nothing is parked and nobody has a connection at first.
LEMMA TcpInitInv == TcpInit => TcpInv
<1> SUFFICES ASSUME TcpInit PROVE TcpInv
  OBVIOUS
<1>1. Owned(TcpConns, tcpIdle, TcpHas)
  BY DEF TcpInit, Owned, TcpHas, TcpOut, IsInjective, Range
<1> QED BY <1>1, TcpAssumption DEF TcpInit, TcpInv, TcpOut, TcpPlaces

\* The oldest entries that make room are entries of the queue, and they make
\* enough of it.
LEMMA EvictedBound ==
  ASSUME NEW q \in Seq(TcpConns)
  PROVE  /\ Evicted(q) \in 0..Len(q)
         /\ Len(q) - Evicted(q) < TcpPerPeerMax \/ Evicted(q) = Len(q)
<1>1. Len(q) \in Nat /\ TcpPerPeerMax \in Nat
  BY TcpAssumption
<1> DEFINE a == Len(q) - TcpPerPeerMax + 1  b == Len(q)
<1>2. CASE Len(q) >= TcpPerPeerMax
  <2>1. Evicted(q) = Min({a, b}) /\ a \in Nat /\ b \in Nat
    BY <1>1, <1>2 DEF Evicted
  <2> HIDE DEF a, b
  <2>2. \E x \in {a, b} : \A y \in {a, b} : x <= y
    BY <2>1
  <2>3. Min({a, b}) \in {a, b} /\ \A y \in {a, b} : Min({a, b}) <= y
    BY <2>2 DEF Min
  <2>4. Evicted(q) \in Nat /\ Evicted(q) <= b
    BY <2>1, <2>3
  <2>5. Evicted(q) = a \/ Evicted(q) = b
    BY <2>1, <2>3
  <2>6. b = Len(q) /\ b - a < TcpPerPeerMax
    BY <1>1 DEF a, b
  <2> QED BY <1>1, <2>1, <2>4, <2>5, <2>6
<1>3. CASE ~(Len(q) >= TcpPerPeerMax)
  BY <1>1, <1>3 DEF Evicted
<1> QED BY <1>2, <1>3

\* Every step of a caller of the TCP pool keeps it.
LEMMA TcpStepInv == TcpInv /\ [TcpNext]_tcpVars => TcpInv'
<1> SUFFICES ASSUME TcpInv, [TcpNext]_tcpVars PROVE TcpInv'
  OBVIOUS
<1> DEFINE Call == [at : TcpPlaces, peer : Peers \cup {"none"}, conn : TcpConns \cup {"none"}]
           Sound(r) == /\ r \in Call /\ (r.at # "out" => r.peer \in Peers)
                       /\ (r.conn = "none" <=> r.at \in {"out", "pop", "dial"})
<1>0. /\ tcpCall \in [Callers -> Call] /\ \A t \in Callers : Sound(tcpCall[t])
      /\ Owned(TcpConns, tcpIdle, TcpHas) /\ "none" \notin TcpConns
      /\ TcpHas \in [Callers -> TcpConns \cup {"none"}] /\ \A t \in Callers : TcpHas[t] = tcpCall[t].conn
  BY TcpAssumption DEF TcpInv, TcpHas
<1>1. ASSUME NEW t \in Callers, NEW r, Sound(r), tcpCall' = [tcpCall EXCEPT ![t] = r],
             Owned(TcpConns, tcpIdle', [TcpHas EXCEPT ![t] = r.conn])
      PROVE  TcpInv'
  <2>1. TcpHas' = [TcpHas EXCEPT ![t] = r.conn]
    BY <1>0, <1>1 DEF TcpHas
  <2>2. tcpCall' \in [Callers -> Call] /\ \A u \in Callers : Sound(tcpCall'[u])
    BY <1>0, <1>1
  <2> QED BY <1>1, <2>1, <2>2 DEF TcpInv
<1> HIDE DEF Call
<1>2. ASSUME NEW t \in Callers, NEW r, Sound(r), tcpCall' = [tcpCall EXCEPT ![t] = r], UNCHANGED tcpIdle,
             r.conn \in {tcpCall[t].conn, "none"}
      PROVE  TcpInv'
  <2>1. [TcpHas EXCEPT ![t] = tcpCall[t].conn] = TcpHas
    BY <1>0
  <2>2. Owned(TcpConns, tcpIdle', [TcpHas EXCEPT ![t] = r.conn])
    BY <1>0, <1>2, <2>1, CloseOwned, Zenon
  <2> QED BY <1>1, <1>2, <2>2, Zenon
<1>3. ASSUME NEW t \in Callers, NEW place \in TcpPlaces, TcpGoto(t, place), UNCHANGED tcpIdle,
             place # "out", tcpCall[t].at # "out",
             tcpCall[t].at \in {"pop", "dial"} <=> place \in {"pop", "dial"}
      PROVE  TcpInv'
  <2> DEFINE r == [tcpCall[t] EXCEPT !.at = place]
  <2>1. Sound(r) /\ r.conn = tcpCall[t].conn
    BY <1>0, <1>3 DEF Call
  <2>2. tcpCall' = [tcpCall EXCEPT ![t] = r]
    BY <1>3 DEF TcpGoto
  <2> QED BY <1>2, <1>3, <2>1, <2>2, Zenon
<1>4. Sound(TcpOut) /\ TcpOut.conn = "none"
  BY DEF Call, TcpOut, TcpPlaces
<1>5. ASSUME NEW t \in Callers, TcpAcquire(t) PROVE TcpInv'
  <2>1. PICK p \in Peers : tcpCall' = [tcpCall EXCEPT ![t] = [TcpOut EXCEPT !.at = "pop", !.peer = p]]
    BY <1>5, Zenon DEF TcpAcquire
  <2> DEFINE r == [TcpOut EXCEPT !.at = "pop", !.peer = p]
  <2>2. Sound(r) /\ r.conn = "none"
    BY Zenon DEF Call, TcpOut, TcpPlaces
  <2>3. UNCHANGED tcpIdle
    BY <1>5 DEF TcpAcquire
  <2> HIDE DEF r
  <2> QED BY <1>2, <2>1, <2>2, <2>3, Zenon DEF r
<1>6. ASSUME NEW t \in Callers, TcpPopIdle(t) PROVE TcpInv'
  <2> DEFINE p == tcpCall[t].peer
  <2>1. tcpCall[t].at = "pop" /\ p \in Peers /\ tcpCall[t].conn = "none"
    BY <1>0, <1>6 DEF TcpPopIdle
  <2>2. CASE tcpIdle[p] = <<>>
    BY <1>3, <1>6, <2>1, <2>2 DEF TcpPopIdle, TcpPlaces
  <2>3. CASE tcpIdle[p] # <<>>
    <3> DEFINE c == Head(tcpIdle[p])
               r == [tcpCall[t] EXCEPT !.at = "popped", !.conn = c]
    <3>1. c \in TcpConns
      BY <1>0, <2>1, <2>3, TailDistinct DEF Owned
    <3>2. Sound(r) /\ r.conn = c
      BY <1>0, <2>1, <3>1, Zenon DEF Call, TcpPlaces
    <3>3. tcpCall' = [tcpCall EXCEPT ![t] = r] /\ tcpIdle' = [tcpIdle EXCEPT ![p] = Tail(@)]
      BY <1>0, <1>6, <2>3, Zenon DEF TcpPopIdle
    <3>4. Owned(TcpConns, tcpIdle', [TcpHas EXCEPT ![t] = c])
      BY <1>0, <2>1, <2>3, <3>3, PopOwned, Zenon
    <3> HIDE DEF r, c
    <3> QED BY <1>1, <3>2, <3>3, <3>4, Zenon
  <2> QED BY <2>2, <2>3
<1>7. ASSUME NEW t \in Callers, TcpCountPop(t) \/ TakeStream(t) PROVE TcpInv'
  BY <1>3, <1>7 DEF TcpCountPop, TakeStream, TcpPlaces
<1>8. ASSUME NEW t \in Callers, UNCHANGED tcpIdle, tcpCall' = [tcpCall EXCEPT ![t] = TcpOut] PROVE TcpInv'
  BY <1>2, <1>4, <1>8, Zenon
<1>9. ASSUME NEW t \in Callers, ValidateAndUpgrade(t) PROVE TcpInv'
  <2> DEFINE r == [tcpCall[t] EXCEPT !.at = "pop", !.conn = "none"]
  <2>1. tcpCall[t].at = "check" /\ UNCHANGED tcpIdle
    BY <1>9 DEF ValidateAndUpgrade
  <2>2. Sound(r) /\ r.conn = "none"
    BY <1>0, <2>1, Zenon DEF Call, TcpPlaces
  <2>3. CASE tcpCall' = [tcpCall EXCEPT ![t].at = "pop", ![t].conn = "none"]
    <3>1. tcpCall' = [tcpCall EXCEPT ![t] = r]
      BY <1>0, <2>3, Zenon
    <3> HIDE DEF r
    <3> QED BY <1>2, <2>1, <2>2, <3>1, Zenon
  <2>4. CASE TcpGoto(t, "held")
    BY <1>3, <2>1, <2>4 DEF TcpPlaces
  <2> QED BY <1>8, <1>9, <2>1, <2>3, <2>4 DEF ValidateAndUpgrade
<1>10. ASSUME NEW t \in Callers, DialNewAsync(t) PROVE TcpInv'
  <2>1. tcpCall[t].at = "dial" /\ UNCHANGED tcpIdle
    BY <1>10 DEF DialNewAsync
  <2>2. CASE TcpSpare # {} /\ tcpCall' = [tcpCall EXCEPT ![t].at = "held", ![t].conn = TcpNewConn]
    <3> DEFINE r == [tcpCall[t] EXCEPT !.at = "held", !.conn = TcpNewConn]
    <3>1. TcpNewConn \in TcpSpare
      BY <2>2 DEF TcpNewConn
    <3>2. /\ TcpNewConn \in TcpConns /\ \A p \in Peers : TcpNewConn \notin Range(tcpIdle[p])
          /\ \A u \in Callers : TcpHas[u] # TcpNewConn
      BY <1>0, <3>1 DEF TcpSpare, TcpParked, TcpHeld
    <3>3. Sound(r) /\ r.conn = TcpNewConn
      BY <1>0, <2>1, <3>2, Zenon DEF Call, TcpPlaces
    <3>4. tcpCall' = [tcpCall EXCEPT ![t] = r]
      BY <1>0, <2>2, Zenon
    <3>5. Owned(TcpConns, tcpIdle', [TcpHas EXCEPT ![t] = TcpNewConn])
      BY <1>0, <2>1, <3>2, DialOwned, Zenon
    <3> HIDE DEF r
    <3> QED BY <1>1, <3>3, <3>4, <3>5, Zenon
  <2> QED BY <1>8, <1>10, <2>1, <2>2 DEF DialNewAsync
<1>11. ASSUME NEW t \in Callers, CloseTaken(t) PROVE TcpInv'
  BY <1>8, <1>11, Zenon DEF CloseTaken
<1>12. ASSUME NEW t \in Callers, ReturnToPool(t) PROVE TcpInv'
  BY <1>3, <1>8, <1>12 DEF ReturnToPool, TcpPlaces
<1>13. ASSUME NEW t \in Callers, TcpParkIdle(t) PROVE TcpInv'
  <2> DEFINE p == tcpCall[t].peer  q == tcpIdle[p]
             kept == SubSeq(q, Evicted(q) + 1, Len(q))
  <2>1. p \in Peers /\ tcpCall[t].conn \in TcpConns /\ TcpHas[t] = tcpCall[t].conn
    BY <1>0, <1>13, Zenon DEF TcpParkIdle, Call
  <2>2. q \in Seq(TcpConns) /\ IsInjective(q)
    BY <1>0, <2>1 DEF Owned
  <2>3. kept \in Seq(TcpConns) /\ IsInjective(kept) /\ Range(kept) \subseteq Range(q)
    BY <2>2, EvictedBound, SubSeqDistinct
  <2>4. /\ tcpIdle' = [tcpIdle EXCEPT ![p] = Append(kept, TcpHas[t])]
        /\ tcpCall' = [tcpCall EXCEPT ![t] = TcpOut]
    BY <1>13, <2>1 DEF TcpParkIdle
  <2> HIDE DEF kept
  <2>5. Owned(TcpConns, tcpIdle', [TcpHas EXCEPT ![t] = "none"])
    BY <1>0, <2>1, <2>3, <2>4, ParkOwned, Zenon
  <2> QED BY <1>1, <1>4, <2>4, <2>5, Zenon
<1>14. CASE UNCHANGED tcpVars
  BY <1>14 DEF tcpVars, TcpInv, TcpHas
<1> QED BY <1>5, <1>6, <1>7, <1>9, <1>10, <1>11, <1>12, <1>13, <1>14 DEF TcpNext

QuicPlaces == {"out", "pop", "popped", "check", "dial", "held", "dedicated", "park", "parked"}

QuicCallRecord ==
  [at : QuicPlaces, peer : Peers \cup {"none"}, conn : QuicConns \cup {"none"}, evicted : {0, 1}]

QuicHas == [t \in Callers |-> quicCall[t].conn]

\* A caller knows its peer while it uses the pool, and has a connection
\* exactly where the code has one in hand.
QuicSound(r) ==
  /\ r \in QuicCallRecord
  /\ r.at \notin {"out", "dedicated"} => r.peer \in Peers
  /\ r.conn = "none" <=> r.at \in {"out", "pop", "dial", "parked"}

QuicInv ==
  /\ quicCall \in [Callers -> QuicCallRecord]
  /\ \A t \in Callers : QuicSound(quicCall[t])
  /\ Owned(QuicConns, quicIdle, QuicHas)

\* The same for the QUIC pool.
LEMMA QuicInvOwner == QuicInv => QuicOneOwner
<1> SUFFICES ASSUME QuicInv PROVE QuicOneOwner
  OBVIOUS
<1>1. \A t \in Callers : QuicHas[t] = quicCall[t].conn
  BY DEF QuicHas
<1> QED BY <1>1 DEF QuicInv, Owned, QuicOneOwner, QuicParked, QuicHeld

\* The same for the QUIC pool.
LEMMA QuicInitInv == QuicInit => QuicInv
<1> SUFFICES ASSUME QuicInit PROVE QuicInv
  OBVIOUS
<1>1. Owned(QuicConns, quicIdle, QuicHas)
  BY DEF QuicInit, Owned, QuicHas, QuicOut, IsInjective, Range
<1> QED BY <1>1, QuicAssumption DEF QuicInit, QuicInv, QuicSound, QuicCallRecord, QuicOut, QuicPlaces

\* Every step of a caller of the QUIC pool keeps it.
LEMMA QuicStepInv == QuicInv /\ [QuicNext]_quicVars => QuicInv'
<1> SUFFICES ASSUME QuicInv, [QuicNext]_quicVars PROVE QuicInv'
  OBVIOUS
<1>0. /\ quicCall \in [Callers -> QuicCallRecord] /\ \A t \in Callers : QuicSound(quicCall[t])
      /\ Owned(QuicConns, quicIdle, QuicHas) /\ "none" \notin QuicConns
      /\ QuicHas \in [Callers -> QuicConns \cup {"none"}]
      /\ \A t \in Callers : QuicHas[t] = quicCall[t].conn
  BY QuicAssumption DEF QuicInv, QuicHas, Owned
<1>1. ASSUME NEW t \in Callers, NEW r, QuicSound(r), quicCall' = [quicCall EXCEPT ![t] = r],
             Owned(QuicConns, quicIdle', [QuicHas EXCEPT ![t] = r.conn])
      PROVE  QuicInv'
  <2>1. QuicHas' = [QuicHas EXCEPT ![t] = r.conn]
    BY <1>0, <1>1 DEF QuicHas
  <2>2. quicCall' \in [Callers -> QuicCallRecord] /\ \A u \in Callers : QuicSound(quicCall'[u])
    BY <1>0, <1>1 DEF QuicSound
  <2> QED BY <1>1, <2>1, <2>2 DEF QuicInv
<1>2. ASSUME NEW t \in Callers, NEW r, QuicSound(r), quicCall' = [quicCall EXCEPT ![t] = r],
             UNCHANGED quicIdle, r.conn \in {quicCall[t].conn, "none"}
      PROVE  QuicInv'
  <2>1. [QuicHas EXCEPT ![t] = quicCall[t].conn] = QuicHas
    BY <1>0
  <2>2. Owned(QuicConns, quicIdle', [QuicHas EXCEPT ![t] = r.conn])
    BY <1>0, <1>2, <2>1, CloseOwned, Zenon
  <2> QED BY <1>1, <1>2, <2>2, Zenon
<1>3. ASSUME NEW t \in Callers, NEW place \in QuicPlaces, quicCall' = [quicCall EXCEPT ![t].at = place],
             UNCHANGED quicIdle, quicCall[t].at \notin {"out", "dedicated"},
             quicCall[t].at \in {"out", "pop", "dial", "parked"} <=> place \in {"out", "pop", "dial", "parked"}
      PROVE  QuicInv'
  <2> DEFINE r == [quicCall[t] EXCEPT !.at = place]
  <2>1. QuicSound(r) /\ r.conn = quicCall[t].conn
    BY <1>0, <1>3 DEF QuicSound, QuicCallRecord
  <2>2. quicCall' = [quicCall EXCEPT ![t] = r]
    BY <1>3
  <2> QED BY <1>2, <1>3, <2>1, <2>2, Zenon
<1>4. QuicSound(QuicOut) /\ QuicOut.conn = "none"
  BY DEF QuicSound, QuicCallRecord, QuicOut, QuicPlaces
<1>5. ASSUME NEW t \in Callers, UNCHANGED quicIdle, QuicLeave(t) PROVE QuicInv'
  BY <1>2, <1>4, <1>5, Zenon DEF QuicLeave
<1>6. ASSUME NEW t \in Callers, UNCHANGED quicIdle, quicCall[t].at = "check",
             quicCall' = [quicCall EXCEPT ![t].at = "pop", ![t].conn = "none"]
      PROVE  QuicInv'
  <2> DEFINE r == [quicCall[t] EXCEPT !.at = "pop", !.conn = "none"]
  <2>1. QuicSound(r) /\ r.conn = "none"
    BY <1>0, <1>6 DEF QuicSound, QuicCallRecord, QuicPlaces
  <2>2. quicCall' = [quicCall EXCEPT ![t] = r]
    BY <1>0, <1>6, Zenon
  <2> HIDE DEF r
  <2> QED BY <1>2, <1>6, <2>1, <2>2, Zenon
<1>7. ASSUME QuicSpare # {}
      PROVE  /\ QuicNewConn \in QuicConns /\ \A p \in Peers : QuicNewConn \notin Range(quicIdle[p])
             /\ \A u \in Callers : QuicHas[u] # QuicNewConn
  <2>1. QuicNewConn \in QuicSpare
    BY <1>7 DEF QuicNewConn
  <2> QED BY <1>0, <2>1 DEF QuicSpare, QuicParked, QuicHeld
<1>8. ASSUME NEW t \in Callers, QuicAcquire(t) PROVE QuicInv'
  <2>1. PICK p \in Peers : quicCall' = [quicCall EXCEPT ![t] = [QuicOut EXCEPT !.at = "pop", !.peer = p]]
    BY <1>8, Zenon DEF QuicAcquire
  <2> DEFINE r == [QuicOut EXCEPT !.at = "pop", !.peer = p]
  <2>2. QuicSound(r) /\ r.conn = "none"
    BY Zenon DEF QuicSound, QuicCallRecord, QuicOut, QuicPlaces
  <2>3. UNCHANGED quicIdle
    BY <1>8 DEF QuicAcquire
  <2> HIDE DEF r
  <2> QED BY <1>2, <2>1, <2>2, <2>3, Zenon DEF r
<1>9. ASSUME NEW t \in Callers, QuicPopIdle(t) PROVE QuicInv'
  <2> DEFINE p == quicCall[t].peer
  <2>1. quicCall[t].at = "pop" /\ p \in Peers /\ quicCall[t].conn = "none"
    BY <1>0, <1>9 DEF QuicPopIdle, QuicSound
  <2>2. CASE quicIdle[p] = <<>>
    BY <1>3, <1>9, <2>1, <2>2 DEF QuicPopIdle, QuicPlaces
  <2>3. CASE quicIdle[p] # <<>>
    <3> DEFINE c == Head(quicIdle[p])
               r == [quicCall[t] EXCEPT !.at = "popped", !.conn = c]
    <3>1. c \in QuicConns
      BY <1>0, <2>1, <2>3, TailDistinct DEF Owned
    <3>2. QuicSound(r) /\ r.conn = c
      BY <1>0, <2>1, <3>1, Zenon DEF QuicSound, QuicCallRecord, QuicPlaces
    <3>3. quicCall' = [quicCall EXCEPT ![t] = r] /\ quicIdle' = [quicIdle EXCEPT ![p] = Tail(@)]
      BY <1>0, <1>9, <2>3, Zenon DEF QuicPopIdle
    <3>4. Owned(QuicConns, quicIdle', [QuicHas EXCEPT ![t] = c])
      BY <1>0, <2>1, <2>3, <3>3, PopOwned, Zenon
    <3> HIDE DEF r, c
    <3> QED BY <1>1, <3>2, <3>3, <3>4, Zenon
  <2> QED BY <2>2, <2>3
<1>10. ASSUME NEW t \in Callers, QuicCountPop(t) PROVE QuicInv'
  BY <1>3, <1>10, Zenon DEF QuicCountPop, QuicPlaces
<1>11. ASSUME NEW t \in Callers, SkipExpired(t) PROVE QuicInv'
  BY <1>6, <1>11, Zenon DEF SkipExpired
<1>12. ASSUME NEW t \in Callers, ProbeLiveness(t) PROVE QuicInv'
  <2>1. CASE quicCall' = [quicCall EXCEPT ![t].at = "held"]
    BY <1>3, <1>12, <2>1, Zenon DEF ProbeLiveness, QuicPlaces
  <2> QED BY <1>6, <1>12, <2>1 DEF ProbeLiveness
<1>13. ASSUME NEW t \in Callers, DialNew(t) PROVE QuicInv'
  <2>1. quicCall[t].at = "dial" /\ UNCHANGED quicIdle
    BY <1>13 DEF DialNew
  <2>2. CASE QuicSpare # {} /\ quicCall' = [quicCall EXCEPT ![t].at = "held", ![t].conn = QuicNewConn]
    <3> DEFINE r == [quicCall[t] EXCEPT !.at = "held", !.conn = QuicNewConn]
    <3>1. QuicSound(r) /\ r.conn = QuicNewConn
      BY <1>0, <1>7, <2>1, <2>2 DEF QuicSound, QuicCallRecord, QuicPlaces
    <3>2. quicCall' = [quicCall EXCEPT ![t] = r]
      BY <1>0, <2>2, Zenon
    <3>3. Owned(QuicConns, quicIdle', [QuicHas EXCEPT ![t] = QuicNewConn])
      BY <1>0, <1>7, <2>1, <2>2, DialOwned, Zenon
    <3> HIDE DEF r
    <3> QED BY <1>1, <3>1, <3>2, <3>3, Zenon
  <2> QED BY <1>5, <1>13, <2>1, <2>2 DEF DialNew
<1>14. ASSUME NEW t \in Callers, DialDedicated(t) PROVE QuicInv'
  <2> DEFINE r == [QuicOut EXCEPT !.at = "dedicated", !.conn = QuicNewConn]
  <2>1. UNCHANGED quicIdle /\ QuicSpare # {} /\ quicCall' = [quicCall EXCEPT ![t] = r]
    BY <1>14 DEF DialDedicated
  <2>2. QuicSound(r) /\ r.conn = QuicNewConn
    BY <1>0, <1>7, <2>1, Zenon DEF QuicSound, QuicCallRecord, QuicOut, QuicPlaces
  <2> HIDE DEF r
  <2>3. Owned(QuicConns, quicIdle', [QuicHas EXCEPT ![t] = QuicNewConn])
    BY <1>0, <1>7, <2>1, DialOwned, Zenon
  <2> QED BY <1>1, <2>1, <2>2, <2>3, Zenon
<1>15. ASSUME NEW t \in Callers, Discard(t) \/ CountPark(t) PROVE QuicInv'
  BY <1>5, <1>15 DEF Discard, CountPark
<1>16. ASSUME NEW t \in Callers, DropPooled(t) PROVE QuicInv'
  <2>1. CASE quicCall' = [quicCall EXCEPT ![t].at = "park"]
    BY <1>3, <1>16, <2>1, Zenon DEF DropPooled, QuicPlaces
  <2> QED BY <1>5, <1>16, <2>1 DEF DropPooled
<1>17. ASSUME NEW t \in Callers, QuicParkIdle(t) PROVE QuicInv'
  <2> DEFINE p == quicCall[t].peer  q == quicIdle[p]
             full == Len(q) >= QuicPerPeerMax /\ q # <<>>
             kept == IF full THEN Tail(q) ELSE q
             r == [quicCall[t] EXCEPT !.at = "parked", !.conn = "none", !.evicted = IF full THEN 1 ELSE 0]
  <2>1. p \in Peers /\ quicCall[t].conn \in QuicConns /\ QuicHas[t] = quicCall[t].conn
    BY <1>0, <1>17 DEF QuicParkIdle, QuicSound, QuicCallRecord
  <2>2. q \in Seq(QuicConns) /\ IsInjective(q)
    BY <1>0, <2>1 DEF Owned
  <2>3. kept \in Seq(QuicConns) /\ IsInjective(kept) /\ Range(kept) \subseteq Range(q)
    BY <2>2, TailDistinct
  <2>4. quicIdle' = [quicIdle EXCEPT ![p] = Append(kept, QuicHas[t])]
    BY <1>17, <2>1 DEF QuicParkIdle
  <2>5. quicCall' = [quicCall EXCEPT ![t] = r]
    BY <1>0, <1>17, Zenon DEF QuicParkIdle
  <2>6. QuicSound(r) /\ r.conn = "none"
    <3>1. (IF full THEN 1 ELSE 0) \in {0, 1}
      OBVIOUS
    <3> HIDE DEF full
    <3> QED BY <1>0, <2>1, <3>1, Zenon DEF QuicSound, QuicCallRecord, QuicPlaces
  <2> HIDE DEF kept, r
  <2>7. Owned(QuicConns, quicIdle', [QuicHas EXCEPT ![t] = "none"])
    BY <1>0, <2>1, <2>3, <2>4, ParkOwned, Zenon
  <2> QED BY <1>1, <2>5, <2>6, <2>7, Zenon
<1>18. CASE UNCHANGED quicVars
  BY <1>18 DEF quicVars, QuicInv, QuicHas
<1> QED BY <1>8, <1>9, <1>10, <1>11, <1>12, <1>13, <1>14, <1>15, <1>16, <1>17, <1>18 DEF QuicNext

-----------------------------------------------------------------------------
(***************************************************************************)
(* The lengths of the queues.                                              *)
(***************************************************************************)

\* Max of two numbers is one of them, and no less than either.
LEMMA MaxOfTwo ==
  ASSUME NEW a \in Nat PROVE Max({a, 1}) \in Nat /\ Max({a, 1}) >= a /\ Max({a, 1}) >= 1
<1>1. \E x \in {a, 1} : \A y \in {a, 1} : x >= y
  OBVIOUS
<1>2. Max({a, 1}) \in {a, 1} /\ \A y \in {a, 1} : Max({a, 1}) >= y
  BY <1>1 DEF Max
<1> QED BY <1>2

\* A pop shortens a TCP queue; a park first evicts down to per_peer_max - 1.
LEMMA TcpBoundStep == TcpInv /\ TcpQueueBounded /\ [TcpNext]_tcpVars => TcpQueueBounded'
<1> SUFFICES ASSUME TcpInv, TcpQueueBounded, [TcpNext]_tcpVars PROVE TcpQueueBounded'
  OBVIOUS
<1> DEFINE m == Max({TcpPerPeerMax, 1})
<1>0. /\ m \in Nat /\ m >= TcpPerPeerMax /\ m >= 1 /\ TcpPerPeerMax \in Nat
      /\ tcpIdle \in [Peers -> Seq(TcpConns)] /\ \A p \in Peers : Len(tcpIdle[p]) <= m
  BY TcpAssumption, MaxOfTwo, Zenon DEF TcpInv, Owned, TcpQueueBounded
<1> HIDE DEF m
<1>1. ASSUME NEW p \in Peers, NEW q, tcpIdle' = [tcpIdle EXCEPT ![p] = q], Len(q) <= m
      PROVE  TcpQueueBounded'
  <2>1. \A o \in Peers : Len(tcpIdle'[o]) <= m
    BY <1>0, <1>1
  <2> QED BY <2>1 DEF TcpQueueBounded, m
<1>2. CASE UNCHANGED tcpIdle
  BY <1>2, Zenon DEF TcpQueueBounded
<1>3. ASSUME NEW t \in Callers, TcpPopIdle(t) PROVE TcpQueueBounded'
  <2> DEFINE p == tcpCall[t].peer
  <2>1. p \in Peers
    BY <1>3 DEF TcpPopIdle, TcpInv
  <2>3. \/ UNCHANGED tcpIdle
        \/ tcpIdle[p] # <<>> /\ tcpIdle' = [tcpIdle EXCEPT ![p] = Tail(@)]
    BY <1>3, Zenon DEF TcpPopIdle
  <2>2. tcpIdle[p] # <<>> => Len(Tail(tcpIdle[p])) <= m
    BY <1>0, <2>1
  <2> QED BY <1>1, <1>2, <2>1, <2>2, <2>3, Zenon
<1>4. ASSUME NEW t \in Callers, TcpParkIdle(t) PROVE TcpQueueBounded'
  <2> DEFINE p == tcpCall[t].peer  q == tcpIdle[p]
             kept == SubSeq(q, Evicted(q) + 1, Len(q))
  <2>1. p \in Peers /\ tcpIdle' = [tcpIdle EXCEPT ![p] = Append(kept, tcpCall[t].conn)]
    BY <1>4 DEF TcpParkIdle, TcpInv
  <2>2. q \in Seq(TcpConns) /\ Len(q) \in Nat /\ Len(q) <= m
    BY <1>0, <2>1
  <2>3. Evicted(q) \in 0..Len(q) /\ Len(q) - Evicted(q) + 1 <= m
    BY <1>0, <2>2, EvictedBound
  <2>4. kept \in Seq(TcpConns) /\ Len(kept) = Len(q) - Evicted(q)
    BY <2>2, <2>3
  <2>5. Len(Append(kept, tcpCall[t].conn)) <= m
    BY <2>2, <2>3, <2>4
  <2> QED BY <1>1, <2>1, <2>5, Zenon
<1> QED BY <1>2, <1>3, <1>4, Zenon DEF TcpNext, tcpVars, TcpAcquire, TcpCountPop, ValidateAndUpgrade,
             DialNewAsync, TakeStream, CloseTaken, ReturnToPool

\* The same for a QUIC queue, where a park evicts one entry of a full queue.
LEMMA QuicBoundStep == QuicInv /\ QuicQueueBounded /\ [QuicNext]_quicVars => QuicQueueBounded'
<1> SUFFICES ASSUME QuicInv, QuicQueueBounded, [QuicNext]_quicVars PROVE QuicQueueBounded'
  OBVIOUS
<1> DEFINE m == Max({QuicPerPeerMax, 1})
<1>0. /\ m \in Nat /\ m >= QuicPerPeerMax /\ m >= 1 /\ QuicPerPeerMax \in Nat
      /\ quicIdle \in [Peers -> Seq(QuicConns)] /\ \A p \in Peers : Len(quicIdle[p]) <= m
  BY QuicAssumption, MaxOfTwo, Zenon DEF QuicInv, Owned, QuicQueueBounded
<1> HIDE DEF m
<1>1. ASSUME NEW p \in Peers, NEW q, quicIdle' = [quicIdle EXCEPT ![p] = q], Len(q) <= m
      PROVE  QuicQueueBounded'
  <2>1. \A o \in Peers : Len(quicIdle'[o]) <= m
    BY <1>0, <1>1
  <2> QED BY <2>1 DEF QuicQueueBounded, m
<1>2. CASE UNCHANGED quicIdle
  BY <1>2, Zenon DEF QuicQueueBounded
<1>3. ASSUME NEW t \in Callers, QuicPopIdle(t) PROVE QuicQueueBounded'
  <2> DEFINE p == quicCall[t].peer
  <2>1. p \in Peers
    BY <1>3 DEF QuicPopIdle, QuicInv, QuicSound
  <2>3. \/ UNCHANGED quicIdle
        \/ quicIdle[p] # <<>> /\ quicIdle' = [quicIdle EXCEPT ![p] = Tail(@)]
    BY <1>3, Zenon DEF QuicPopIdle
  <2>2. quicIdle[p] # <<>> => Len(Tail(quicIdle[p])) <= m
    BY <1>0, <2>1
  <2> QED BY <1>1, <1>2, <2>1, <2>2, <2>3, Zenon
<1>4. ASSUME NEW t \in Callers, QuicParkIdle(t) PROVE QuicQueueBounded'
  <2> DEFINE p == quicCall[t].peer  q == quicIdle[p]
             kept == IF Len(q) >= QuicPerPeerMax /\ q # <<>> THEN Tail(q) ELSE q
  <2>1. p \in Peers /\ quicIdle' = [quicIdle EXCEPT ![p] = Append(kept, quicCall[t].conn)]
    BY <1>4 DEF QuicParkIdle, QuicInv, QuicSound
  <2>2. q \in Seq(QuicConns) /\ Len(q) \in Nat /\ Len(q) <= m
    BY <1>0, <2>1
  <2>3. kept \in Seq(QuicConns) /\ Len(kept) + 1 <= m
    BY <1>0, <2>2
  <2> HIDE DEF kept
  <2>4. Len(Append(kept, quicCall[t].conn)) <= m
    BY <2>3
  <2> QED BY <1>1, <2>1, <2>4, Zenon
<1> QED BY <1>2, <1>3, <1>4, Zenon DEF QuicNext, quicVars, QuicAcquire, QuicCountPop, SkipExpired,
             ProbeLiveness, DialNew, DialDedicated, Discard, DropPooled, CountPark

\* At every interleaving of any number of callers, a pooled connection has
\* one owner: it is parked once, or with one caller (pool.rs, quic_pool.rs);
\* and a table entry of http2_pool.rs that is dropped or replaced takes its
\* connection down with it.
THEOREM EveryConnectionOwned == TcpSpec /\ QuicSpec /\ H2Spec => []ConnectionsOwned
<1>1. TcpSpec => []TcpInv
  BY TcpInitInv, TcpStepInv, PTL DEF TcpSpec
<1>2. QuicSpec => []QuicInv
  BY QuicInitInv, QuicStepInv, PTL DEF QuicSpec
<1>3. H2Spec => []H2Inv
  BY H2InitInv, H2StepInv, PTL DEF H2Spec
<1>4. TcpInv /\ QuicInv /\ H2Inv => ConnectionsOwned
  BY TcpInvOwner, QuicInvOwner, Zenon DEF ConnectionsOwned, H2Inv
<1> QED BY <1>1, <1>2, <1>3, <1>4, PTL

\* However the callers interleave, the queue of a peer never holds more than
\* per_peer_max connections (one, where the limit is zero): the TCP pool's
\* loop of evictions and the QUIC pool's single one both suffice.
THEOREM QueuesBounded == TcpSpec /\ QuicSpec => [](TcpQueueBounded /\ QuicQueueBounded)
<1>1. TcpInit => TcpQueueBounded
  BY TcpAssumption, MaxOfTwo DEF TcpInit, TcpQueueBounded
<1>2. QuicInit => QuicQueueBounded
  BY QuicAssumption, MaxOfTwo DEF QuicInit, QuicQueueBounded
<1>3. TcpSpec => []TcpQueueBounded
  BY <1>1, TcpInitInv, TcpStepInv, TcpBoundStep, PTL DEF TcpSpec
<1>4. QuicSpec => []QuicQueueBounded
  BY <1>2, QuicInitInv, QuicStepInv, QuicBoundStep, PTL DEF QuicSpec
<1> QED BY <1>3, <1>4, PTL
-----------------------------------------------------------------------------
(***************************************************************************)
(* The two pools of idle connections: what the unlocked counts count.      *)
(***************************************************************************)

\* How many callers are somewhere changes with the one caller that moves.
LEMMA CountMoves ==
  ASSUME NEW A, NEW B, NEW C, IsFiniteSet(C), A \subseteq C, B \subseteq C,
         NEW t, A \ {t} = B \ {t}
  PROVE  /\ Cardinality(A) \in Nat /\ Cardinality(B) \in Nat
         /\ Cardinality(A) <= Cardinality(C) /\ Cardinality(C) \in Nat
         /\ t \in A /\ t \in B => Cardinality(B) = Cardinality(A)
         /\ t \in A /\ t \notin B => Cardinality(B) = Cardinality(A) - 1
         /\ t \notin A /\ t \in B => Cardinality(B) = Cardinality(A) + 1
         /\ t \notin A /\ t \notin B => Cardinality(B) = Cardinality(A)
<1>1. IsFiniteSet(A) /\ IsFiniteSet(B) /\ Cardinality(A) <= Cardinality(C)
  BY FS_Subset
<1>2. Cardinality(A) \in Nat /\ Cardinality(B) \in Nat /\ Cardinality(C) \in Nat
  BY <1>1, FS_CardinalityType
<1>3. /\ Cardinality(A \ {t}) = IF t \in A THEN Cardinality(A) - 1 ELSE Cardinality(A)
      /\ Cardinality(B \ {t}) = IF t \in B THEN Cardinality(B) - 1 ELSE Cardinality(B)
  BY <1>1, FS_RemoveElement, Zenon
<1>4. Cardinality(A \ {t}) = Cardinality(B \ {t})
  OBVIOUS
<1> DEFINE a == Cardinality(A)  b == Cardinality(B)  c == Cardinality(C)
           x == Cardinality(A \ {t})  y == Cardinality(B \ {t})
<1>5. /\ a \in Nat /\ b \in Nat /\ c \in Nat /\ a <= c /\ x = y
      /\ x = (IF t \in A THEN a - 1 ELSE a) /\ y = (IF t \in B THEN b - 1 ELSE b)
  BY <1>1, <1>2, <1>3, <1>4, Zenon
<1> HIDE DEF a, b, c, x, y
<1>6. /\ t \in A /\ t \in B => b = a
      /\ t \in A /\ t \notin B => b = a - 1
      /\ t \notin A /\ t \in B => b = a + 1
      /\ t \notin A /\ t \notin B => b = a
  <2>1. t \in A => x = a - 1
    BY <1>5, Zenon
  <2>2. t \notin A => x = a
    BY <1>5, Zenon
  <2>3. t \in B => x = b - 1
    BY <1>5, Zenon
  <2>4. t \notin B => x = b
    BY <1>5, Zenon
  <2>5. a \in Nat /\ b \in Nat
    BY <1>5
  <2>6. CASE t \in A /\ t \in B
    BY <2>1, <2>3, <2>5, <2>6
  <2>7. CASE t \in A /\ t \notin B
    BY <2>1, <2>4, <2>5, <2>7
  <2>8. CASE t \notin A /\ t \in B
    BY <2>2, <2>3, <2>5, <2>8
  <2>9. CASE t \notin A /\ t \notin B
    BY <2>2, <2>4, <2>9
  <2> QED BY <2>6, <2>7, <2>8, <2>9, Zenon
<1> QED BY <1>5, <1>6, Zenon DEF a, b, c

\* The first n entries of a queue, and what a queue is without some of its
\* connections.
Oldest(q, n) == {q[i] : i \in 1..n}
Without(q, gone, kept) == gone \subseteq Range(q) /\ Range(kept) = Range(q) \ gone

\* The first n entries of a queue of distinct connections are n connections,
\* and they are what leaves when the queue loses them.
LEMMA OldestLeave ==
  ASSUME NEW S, NEW q \in Seq(S), IsInjective(q), NEW n \in 0..Len(q)
  PROVE  /\ Cardinality(Oldest(q, n)) = n
         /\ Without(q, Oldest(q, n), SubSeq(q, n + 1, Len(q)))
<1> DEFINE oldest == {q[i] : i \in 1..n}
           r == SubSeq(q, n + 1, Len(q))
<1>1. /\ DOMAIN q = 1..Len(q) /\ Len(q) \in Nat /\ n \in Nat /\ 1..n \subseteq DOMAIN q
      /\ DOMAIN r = 1..Len(q) - n
      /\ \A i \in DOMAIN r : r[i] = q[i + n] /\ i + n \in DOMAIN q
  BY SMT
<1>2. oldest \subseteq Range(q)
  BY <1>1 DEF Range
<1>3. IsFiniteSet(oldest) /\ Cardinality(oldest) = n
  <2> DEFINE f == [i \in 1..n |-> q[i]]
  <2>1. f \in Bijection(1..n, oldest)
    BY <1>1 DEF Bijection, Injection, Surjection, IsInjective
  <2>2. ExistsBijection(1..n, oldest)
    BY <2>1 DEF ExistsBijection
  <2>3. IsFiniteSet(1..n) /\ Cardinality(1..n) = n
    <3>1. 1 \in Int /\ n \in Int
      BY <1>1
    <3>2. IsFiniteSet(1..n) /\ Cardinality(1..n) = IF 1 > n THEN 0 ELSE n - 1 + 1
      BY <3>1, FS_Interval, Zenon
    <3> QED BY <1>1, <3>2
  <2> QED BY <2>2, <2>3, FS_Bijection
<1>4. Range(r) = Range(q) \ oldest
  <2> HIDE DEF r
  <2>1. ASSUME NEW i \in DOMAIN r PROVE r[i] \in Range(q) /\ r[i] \notin oldest
    BY <1>1, <2>1 DEF Range, IsInjective
  <2>2. ASSUME NEW j \in DOMAIN q, q[j] \notin oldest PROVE q[j] \in Range(r)
    <3>1. j - n \in DOMAIN r /\ r[j - n] = q[j]
      BY <1>1, <2>2
    <3> QED BY <3>1 DEF Range
  <2> QED BY <2>1, <2>2 DEF Range
<1> QED BY <1>2, <1>3, <1>4 DEF Oldest, Without

\* The connections in the queues.
ParkedIn(idle) == UNION {Range(idle[p]) : p \in Peers}

\* The connections in finitely many names are finitely many.
LEMMA ParkedFinite ==
  ASSUME NEW S, NEW idle \in [Peers -> Seq(S)], IsFiniteSet(S)
  PROVE  IsFiniteSet(ParkedIn(idle)) /\ Cardinality(ParkedIn(idle)) \in Nat
<1>1. \A p \in Peers : Range(idle[p]) \subseteq S
  BY DEF Range
<1>2. ParkedIn(idle) \subseteq S
  BY <1>1, Zenon DEF ParkedIn
<1> QED BY <1>2, FS_Subset, FS_CardinalityType

\* A pop takes one connection out of the pool.
LEMMA PopCounts ==
  ASSUME NEW S, NEW idle, NEW has, Owned(S, idle, has), IsFiniteSet(S),
         NEW p \in Peers, idle[p] # <<>>
  PROVE  Cardinality(ParkedIn([idle EXCEPT ![p] = Tail(@)])) = Cardinality(ParkedIn(idle)) - 1
<1> DEFINE q == idle[p]  c == Head(q)  idle2 == [idle EXCEPT ![p] = Tail(@)]
<1>1. /\ q \in Seq(S) /\ IsInjective(q) /\ idle \in [Peers -> Seq(S)]
      /\ \A o \in Peers : o # p => Range(idle[o]) \cap Range(q) = {}
  BY DEF Owned
<1>2. /\ Head(q) = q[1] /\ 1 \in 0..Len(q) /\ Tail(q) = SubSeq(q, 1 + 1, Len(q)) /\ Tail(q) \in Seq(S)
  BY <1>1
<1>3. Oldest(q, 1) = {c}
  BY <1>2 DEF Oldest
<1>4. c \in Range(q) /\ Range(Tail(q)) = Range(q) \ {c}
  <2>1. Without(q, Oldest(q, 1), SubSeq(q, 1 + 1, Len(q)))
    BY <1>1, <1>2, OldestLeave, Zenon
  <2> QED BY <1>2, <1>3, <2>1, Zenon DEF Without
<1>5. idle2[p] = Tail(q) /\ \A o \in Peers : o # p => idle2[o] = idle[o]
  BY <1>1
<1> HIDE DEF idle2, c, q
<1>8. \A o \in Peers : \A x : x \in Range(idle2[o]) <=> x \in Range(idle[o]) /\ x # c
  BY <1>1, <1>4, <1>5, Zenon DEF q
<1>6. ParkedIn(idle2) = ParkedIn(idle) \ {c}
  <2>1. \A x : x \in ParkedIn(idle2) <=> \E o \in Peers : x \in Range(idle2[o])
    BY Zenon DEF ParkedIn
  <2>2. \A x : x \in ParkedIn(idle) <=> \E o \in Peers : x \in Range(idle[o])
    BY Zenon DEF ParkedIn
  <2>3. \A x : x \in ParkedIn(idle2) <=> x \in ParkedIn(idle) /\ x # c
    BY <1>8, <2>1, <2>2, Zenon
  <2> QED BY <2>3
<1>7. c \in ParkedIn(idle)
  BY <1>4, Zenon DEF ParkedIn, q
<1> QED BY <1>1, <1>6, <1>7, ParkedFinite, FS_RemoveElement, Zenon DEF idle2

\* A park adds one and takes out the ones that make room.
LEMMA ParkCounts ==
  ASSUME NEW S, NEW idle, NEW has, Owned(S, idle, has), IsFiniteSet(S),
         NEW p \in Peers, NEW t \in Callers, has[t] \in S,
         NEW kept \in Seq(S), NEW gone, Without(idle[p], gone, kept)
  PROVE  Cardinality(ParkedIn([idle EXCEPT ![p] = Append(kept, has[t])]))
           = Cardinality(ParkedIn(idle)) - Cardinality(gone) + 1
<1> DEFINE q == idle[p]  c == has[t]  idle2 == [idle EXCEPT ![p] = Append(kept, c)]
           P == ParkedIn(idle)
<1>1. /\ q \in Seq(S) /\ idle \in [Peers -> Seq(S)]
      /\ \A o \in Peers : o # p => Range(idle[o]) \cap Range(q) = {}
      /\ \A o \in Peers : c \notin Range(idle[o])
  BY DEF Owned
<1>9. gone \subseteq Range(q) /\ Range(kept) = Range(q) \ gone
  BY DEF Without
<1>2. Range(Append(kept, c)) = Range(kept) \cup {c}
  <2> DEFINE r == Append(kept, c)
  <2>1. /\ DOMAIN r = 1..Len(kept) + 1 /\ DOMAIN kept = 1..Len(kept) /\ Len(kept) \in Nat
        /\ r[Len(kept) + 1] = c /\ \A i \in DOMAIN kept : r[i] = kept[i]
    BY SMT
  <2> HIDE DEF r
  <2>2. \A i \in DOMAIN r : i = Len(kept) + 1 \/ i \in DOMAIN kept
    BY <2>1, SMT
  <2>3. Len(kept) + 1 \in DOMAIN r /\ \A i \in DOMAIN kept : i \in DOMAIN r
    BY <2>1, SMT
  <2> QED BY <2>1, <2>2, <2>3, Zenon DEF Range, r
<1>3. idle2[p] = Append(kept, c) /\ \A o \in Peers : o # p => idle2[o] = idle[o]
  BY <1>1
<1> HIDE DEF idle2, c, q
<1>4. ParkedIn(idle2) = (P \ gone) \cup {c}
  <2>1. \A o \in Peers : o # p => \A x : x \in Range(idle2[o]) <=> x \in Range(idle[o]) /\ x \notin gone
    BY <1>1, <1>3, <1>9 DEF q
  <2>2. \A x : x \in Range(idle2[p]) <=> (x \in Range(idle[p]) /\ x \notin gone) \/ x = c
    BY <1>2, <1>3, <1>9 DEF q
  <2>3. \A x : x \in ParkedIn(idle2) <=> \E o \in Peers : x \in Range(idle2[o])
    BY Zenon DEF ParkedIn
  <2>4. \A x : x \in P <=> \E o \in Peers : x \in Range(idle[o])
    BY Zenon DEF ParkedIn
  <2> HIDE DEF P
  <2>5. \A x : x \in ParkedIn(idle2) <=> (x \in P /\ x \notin gone) \/ x = c
    BY <2>1, <2>2, <2>3, <2>4, Zenon
  <2> QED BY <2>5
<1>5. c \notin P /\ gone \subseteq P
  BY <1>1, <1>9, Zenon DEF ParkedIn, q
<1>6. IsFiniteSet(P) /\ Cardinality(P) \in Nat
  BY <1>1, ParkedFinite
<1> HIDE DEF P
<1>7. IsFiniteSet(P \ gone) /\ Cardinality(P \ gone) = Cardinality(P) - Cardinality(gone)
  <2>1. P \cap gone = gone
    BY <1>5
  <2> QED BY <1>6, <2>1, FS_Difference, Zenon
<1>8. Cardinality((P \ gone) \cup {c}) = Cardinality(P \ gone) + 1
  BY <1>5, <1>7, FS_AddElement, Zenon
<1> QED BY <1>4, <1>7, <1>8, Zenon DEF idle2, P, c

TcpAccounts == TcpCountExact /\ TcpIdleBounded

\* Who is at a place after one caller moved.
LEMMA TcpAtMoves ==
  ASSUME NEW t \in Callers, \A u \in Callers : u # t => tcpCall'[u].at = tcpCall[u].at, NEW place
  PROVE  /\ Cardinality(TcpAt(place)) \in Nat /\ Cardinality(TcpAt(place)') \in Nat
         /\ Cardinality(TcpAt(place)) <= Cardinality(Callers) /\ Cardinality(Callers) \in Nat
         /\ tcpCall[t].at = place /\ tcpCall'[t].at = place => Cardinality(TcpAt(place)') = Cardinality(TcpAt(place))
         /\ tcpCall[t].at = place /\ tcpCall'[t].at # place => Cardinality(TcpAt(place)') = Cardinality(TcpAt(place)) - 1
         /\ tcpCall[t].at # place /\ tcpCall'[t].at = place => Cardinality(TcpAt(place)') = Cardinality(TcpAt(place)) + 1
         /\ tcpCall[t].at # place /\ tcpCall'[t].at # place => Cardinality(TcpAt(place)') = Cardinality(TcpAt(place))
<1> DEFINE A == TcpAt(place)  B == TcpAt(place)'
<1>1. /\ IsFiniteSet(Callers) /\ A \subseteq Callers /\ B \subseteq Callers /\ A \ {t} = B \ {t}
      /\ t \in A <=> tcpCall[t].at = place
      /\ t \in B <=> tcpCall'[t].at = place
  BY TcpAssumption DEF TcpAt
<1> HIDE DEF A, B
<1>2. /\ Cardinality(A) \in Nat /\ Cardinality(B) \in Nat
      /\ Cardinality(A) <= Cardinality(Callers) /\ Cardinality(Callers) \in Nat
      /\ t \in A /\ t \in B => Cardinality(B) = Cardinality(A)
      /\ t \in A /\ t \notin B => Cardinality(B) = Cardinality(A) - 1
      /\ t \notin A /\ t \in B => Cardinality(B) = Cardinality(A) + 1
      /\ t \notin A /\ t \notin B => Cardinality(B) = Cardinality(A)
  BY <1>1, CountMoves, Zenon
<1> QED BY <1>1, <1>2, Zenon DEF A, B

\* Nothing is parked at first.
LEMMA TcpInitAccounts == TcpInit => TcpAccounts /\ TcpTypeOK
<1> SUFFICES ASSUME TcpInit PROVE TcpAccounts /\ TcpTypeOK
  OBVIOUS
<1>1. TcpParked = {} /\ TcpAt("popped") = {} /\ TcpAt("park") = {}
  BY DEF TcpInit, TcpParked, Range, TcpAt, TcpOut
<1>2. Cardinality({}) = 0 /\ Cardinality(Callers) \in Nat /\ Cardinality(Callers) # 0
  <2>1. IsFiniteSet(Callers) /\ Callers # {}
    BY TcpAssumption
  <2> QED BY <2>1, FS_EmptySet, FS_CardinalityType, Zenon
<1>3. TcpAccounts
  <2>1. Cardinality(TcpParked) = 0 /\ Cardinality(TcpAt("popped")) = 0 /\ Cardinality(TcpAt("park")) = 0
    BY <1>1, <1>2
  <2> QED BY <1>2, <2>1, TcpAssumption DEF TcpInit, TcpAccounts, TcpCountExact, TcpIdleBounded, TcpIdleCount
<1> QED BY <1>3 DEF TcpInit, TcpTypeOK

\* Every step of a caller of the TCP pool moves the count with the queues.
LEMMA TcpStepAccounts == TcpInv /\ TcpAccounts /\ [TcpNext]_tcpVars => TcpAccounts'
<1> SUFFICES ASSUME TcpInv, TcpAccounts, [TcpNext]_tcpVars PROVE TcpAccounts'
  OBVIOUS
<1> DEFINE P == Cardinality(TcpParked)  W == Cardinality(TcpAt("popped"))  K == Cardinality(TcpAt("park"))
           C == Cardinality(Callers)
<1>0. /\ Owned(TcpConns, tcpIdle, TcpHas) /\ IsFiniteSet(TcpConns) /\ TcpTotalMax \in Nat
      /\ tcpCall \in [Callers -> [at : TcpPlaces, peer : Peers \cup {"none"}, conn : TcpConns \cup {"none"}]]
      /\ TcpParked = ParkedIn(tcpIdle) /\ TcpParked' = ParkedIn(tcpIdle') /\ P \in Nat
      /\ tcpTotal = P + W /\ P + K <= TcpTotalMax - 1 + C
  <2>1. Owned(TcpConns, tcpIdle, TcpHas) /\ IsFiniteSet(TcpConns) /\ TcpTotalMax \in Nat
    BY TcpAssumption DEF TcpInv
  <2>2. TcpParked = ParkedIn(tcpIdle) /\ TcpParked' = ParkedIn(tcpIdle')
    BY DEF TcpParked, ParkedIn
  <2>3. P \in Nat
    BY <2>1, <2>2, ParkedFinite DEF Owned
  <2> QED BY <2>1, <2>2, <2>3 DEF TcpInv, TcpAccounts, TcpCountExact, TcpIdleBounded, TcpIdleCount
<1>1. ASSUME tcpTotal' = P' + W', P' + K' <= TcpTotalMax - 1 + C PROVE TcpAccounts'
  BY <1>1 DEF TcpAccounts, TcpCountExact, TcpIdleBounded, TcpIdleCount
<1> HIDE DEF P, W, K, C
<1>2. ASSUME NEW t \in Callers, \A u \in Callers : u # t => tcpCall'[u].at = tcpCall[u].at
      PROVE  /\ W \in Nat /\ W' \in Nat /\ K \in Nat /\ K' \in Nat /\ C \in Nat /\ K <= C
             /\ tcpCall[t].at # "popped" /\ tcpCall'[t].at # "popped" => W' = W
             /\ tcpCall[t].at # "popped" /\ tcpCall'[t].at = "popped" => W' = W + 1
             /\ tcpCall[t].at = "popped" /\ tcpCall'[t].at # "popped" => W' = W - 1
             /\ tcpCall[t].at # "park" /\ tcpCall'[t].at # "park" => K' = K
             /\ tcpCall[t].at # "park" /\ tcpCall'[t].at = "park" => K' = K + 1
             /\ tcpCall[t].at = "park" /\ tcpCall'[t].at # "park" => K' = K - 1
  BY <1>2, TcpAtMoves, Zenon DEF W, K, C
<1>3. ASSUME UNCHANGED tcpIdle PROVE P' = P
  BY <1>0, <1>3 DEF P
<1>4. ASSUME NEW t \in Callers, \A u \in Callers : u # t => tcpCall'[u] = tcpCall[u],
             UNCHANGED <<tcpIdle, tcpTotal>>,
             tcpCall[t].at \notin {"popped", "park"}, tcpCall'[t].at \notin {"popped", "park"}
      PROVE  TcpAccounts'
  BY <1>0, <1>1, <1>2, <1>3, <1>4
<1>5. ASSUME NEW t \in Callers, TcpAcquire(t) PROVE TcpAccounts'
  <2>1. /\ \A u \in Callers : u # t => tcpCall'[u] = tcpCall[u]
        /\ tcpCall[t].at = "out" /\ tcpCall'[t].at = "pop" /\ UNCHANGED <<tcpIdle, tcpTotal>>
    BY <1>0, <1>5 DEF TcpAcquire, TcpOut
  <2> QED BY <1>4, <2>1
<1>6. ASSUME NEW t \in Callers, TcpPopIdle(t) PROVE TcpAccounts'
  <2> DEFINE p == tcpCall[t].peer
  <2>1. /\ \A u \in Callers : u # t => tcpCall'[u] = tcpCall[u]
        /\ tcpCall[t].at = "pop" /\ UNCHANGED tcpTotal /\ p \in Peers
    BY <1>0, <1>6 DEF TcpPopIdle, TcpGoto, TcpInv
  <2>2. CASE tcpIdle[p] = <<>>
    <3>1. tcpCall'[t].at = "dial" /\ UNCHANGED tcpIdle
      BY <1>0, <1>6, <2>2 DEF TcpPopIdle, TcpGoto
    <3> QED BY <1>4, <2>1, <3>1
  <2>3. CASE tcpIdle[p] # <<>>
    <3>1. tcpCall'[t].at = "popped" /\ tcpIdle' = [tcpIdle EXCEPT ![p] = Tail(@)]
      BY <1>0, <1>6, <2>3 DEF TcpPopIdle
    <3>2. P' = P - 1
      BY <1>0, <2>1, <2>3, <3>1, PopCounts, Zenon DEF P
    <3>3. W' = W + 1 /\ K' = K /\ W \in Nat /\ K \in Nat /\ C \in Nat
      BY <1>2, <2>1, <3>1
    <3> QED BY <1>0, <1>1, <2>1, <3>2, <3>3
  <2> QED BY <2>2, <2>3
<1>7. ASSUME NEW t \in Callers, TcpCountPop(t) PROVE TcpAccounts'
  <2>1. /\ \A u \in Callers : u # t => tcpCall'[u] = tcpCall[u]
        /\ tcpCall[t].at = "popped" /\ tcpCall'[t].at = "check" /\ tcpTotal' = tcpTotal - 1 /\ UNCHANGED tcpIdle
    BY <1>0, <1>7 DEF TcpCountPop, TcpGoto
  <2>2. W' = W - 1 /\ K' = K /\ W \in Nat /\ K \in Nat /\ C \in Nat /\ P' = P
    BY <1>2, <1>3, <2>1
  <2> QED BY <1>0, <1>1, <2>1, <2>2
<1>8. ASSUME NEW t \in Callers, ValidateAndUpgrade(t) \/ DialNewAsync(t) \/ TakeStream(t) \/ CloseTaken(t)
      PROVE  TcpAccounts'
  <2>1. /\ \A u \in Callers : u # t => tcpCall'[u] = tcpCall[u]
        /\ tcpCall[t].at \in {"check", "dial", "held", "taken"} /\ UNCHANGED <<tcpIdle, tcpTotal>>
    BY <1>0, <1>8 DEF ValidateAndUpgrade, DialNewAsync, TakeStream, CloseTaken, TcpGoto
  <2>2. tcpCall'[t].at \in {"pop", "held", "taken", "out"}
    BY <1>0, <1>8 DEF ValidateAndUpgrade, DialNewAsync, TakeStream, CloseTaken, TcpGoto, TcpOut
  <2> QED BY <1>4, <2>1, <2>2
<1>9. ASSUME NEW t \in Callers, ReturnToPool(t) PROVE TcpAccounts'
  <2>1. /\ \A u \in Callers : u # t => tcpCall'[u] = tcpCall[u]
        /\ tcpCall[t].at = "held" /\ UNCHANGED <<tcpIdle, tcpTotal>>
    BY <1>0, <1>9 DEF ReturnToPool, TcpGoto
  <2>2. CASE tcpTotal < TcpTotalMax /\ TcpGoto(t, "park")
    <3>1. tcpCall'[t].at = "park"
      BY <1>0, <2>2 DEF TcpGoto
    <3>2. W' = W /\ K' = K + 1 /\ W \in Nat /\ K' \in Nat /\ C \in Nat /\ P' = P
      BY <1>2, <1>3, <2>1, <3>1
    <3>3. K' <= C
      BY TcpAssumption, FS_Subset DEF K, C, TcpAt
    <3> QED BY <1>0, <1>1, <2>1, <2>2, <3>2, <3>3
  <2>3. CASE tcpCall' = [tcpCall EXCEPT ![t] = TcpOut]
    <3>1. tcpCall'[t].at = "out"
      BY <1>0, <2>3 DEF TcpOut
    <3> QED BY <1>4, <2>1, <3>1
  <2> QED BY <1>9, <2>2, <2>3 DEF ReturnToPool
<1>10. ASSUME NEW t \in Callers, TcpParkIdle(t) PROVE TcpAccounts'
  <2> DEFINE p == tcpCall[t].peer  q == tcpIdle[p]  n == Evicted(q)
             kept == SubSeq(q, n + 1, Len(q))
             gone == Oldest(q, n)
  <2>1. /\ p \in Peers /\ tcpCall[t].conn \in TcpConns /\ TcpHas[t] = tcpCall[t].conn
        /\ tcpCall[t].at = "park"
    <3>1. tcpCall[t].at = "park"
      BY <1>10 DEF TcpParkIdle
    <3> QED BY <1>0, <3>1 DEF TcpInv, TcpHas
  <2>2. q \in Seq(TcpConns) /\ IsInjective(q)
    BY <1>0, <2>1 DEF Owned
  <2>3. n \in 0..Len(q) /\ kept \in Seq(TcpConns)
    BY <2>2, EvictedBound
  <2>4. Cardinality(gone) = n /\ Without(q, gone, kept)
    BY <2>2, <2>3, OldestLeave, Zenon
  <2>5. /\ tcpIdle' = [tcpIdle EXCEPT ![p] = Append(kept, TcpHas[t])] /\ tcpTotal' = tcpTotal - n + 1
        /\ tcpCall' = [tcpCall EXCEPT ![t] = TcpOut]
    BY <1>10, <2>1 DEF TcpParkIdle
  <2> HIDE DEF kept, gone
  <2>6. P' = P - Cardinality(gone) + 1
    <3>1. Owned(TcpConns, tcpIdle, TcpHas) /\ IsFiniteSet(TcpConns) /\ TcpHas[t] \in TcpConns
      BY <1>0, <2>1, Zenon
    <3>2. kept \in Seq(TcpConns) /\ Without(tcpIdle[p], gone, kept) /\ p \in Peers
      BY <2>1, <2>3, <2>4, Zenon
    <3> HIDE DEF p
    <3>3. Cardinality(ParkedIn([tcpIdle EXCEPT ![p] = Append(kept, TcpHas[t])]))
            = Cardinality(ParkedIn(tcpIdle)) - Cardinality(gone) + 1
      BY <3>1, <3>2, ParkCounts, SMT
    <3>4. tcpIdle' = [tcpIdle EXCEPT ![p] = Append(kept, TcpHas[t])]
      BY <2>5
    <3>5. TcpParked = ParkedIn(tcpIdle) /\ TcpParked' = ParkedIn(tcpIdle')
      BY <1>0
    <3> QED BY <3>3, <3>4, <3>5, Zenon DEF P
  <2>7. /\ \A u \in Callers : u # t => tcpCall'[u] = tcpCall[u]
        /\ tcpCall'[t].at = "out"
    BY <1>0, <2>5 DEF TcpOut
  <2>8. W' = W /\ K' = K - 1 /\ W \in Nat /\ K \in Nat /\ C \in Nat
    BY <1>2, <2>1, <2>7
  <2>9. n \in Nat /\ P' = P - n + 1
    BY <2>2, <2>3, <2>4, <2>6
  <2> HIDE DEF n
  <2> QED BY <1>0, <1>1, <2>5, <2>8, <2>9
<1>11. CASE UNCHANGED tcpVars
  BY <1>0, <1>11 DEF tcpVars, TcpAccounts, TcpCountExact, TcpIdleBounded, TcpIdleCount, TcpParked, TcpAt
<1> QED BY <1>5, <1>6, <1>7, <1>8, <1>9, <1>10, <1>11, Zenon DEF TcpNext

\* Two remainders of one number are the same.
LEMMA OneRemainder ==
  ASSUME NEW w \in Nat, w > 0, NEW a \in Int, NEW b \in Int, NEW r \in 0..w-1, NEW s \in 0..w-1,
         w * a + r = w * b + s
  PROVE  r = s
<1>1. w * (a - b) = s - r
  OBVIOUS
<1>2. CASE a - b >= 1
  <2>1. w * (a - b) >= w
    BY <1>2
  <2> QED BY <1>1, <2>1
<1>3. CASE b - a >= 1
  <2>1. w * (b - a) >= w
    BY <1>3
  <2>2. w * (b - a) = r - s
    OBVIOUS
  <2> QED BY <2>1, <2>2
<1>4. CASE a = b
  BY <1>4
<1> QED BY <1>2, <1>3, <1>4

\* What % is.
LEMMA Remainder ==
  ASSUME NEW w \in Nat, w > 0, NEW x \in Int
  PROVE  /\ x % w \in 0..w-1
         /\ \E a \in Int : x = w * a + (x % w)
<1>1. x % w \in 0..w-1
  OBVIOUS
<1>2. x \div w \in Int /\ x = w * (x \div w) + (x % w)
  OBVIOUS
<1> QED BY <1>1, <1>2

\* A remainder may be taken before or after an addition.
LEMMA ShiftRemainder ==
  ASSUME NEW w \in Nat, w > 0, NEW x \in Int, NEW d \in Int
  PROVE  ((x % w) + d) % w = (x + d) % w
<1>1. PICK a \in Int : x = w * a + (x % w)
  BY Remainder
<1> DEFINE y == x % w
<1>2. y \in 0..w-1 /\ x = w * a + y
  BY <1>1, Remainder
<1> HIDE DEF y
<1>3. PICK b \in Int : y + d = w * b + ((y + d) % w)
  BY <1>2, Remainder
<1>4. PICK c \in Int : x + d = w * c + ((x + d) % w)
  BY Remainder
<1> DEFINE r == (y + d) % w  s == (x + d) % w
<1>5. r \in 0..w-1 /\ s \in 0..w-1
  BY <1>2, Remainder
<1> HIDE DEF r, s
<1>6. x + d = w * a + (w * b + r) /\ x + d = w * c + s
  BY <1>2, <1>3, <1>4 DEF r, s
<1>7. w * (a + b) + r = w * c + s
  BY <1>5, <1>6
<1>8. a + b \in Int
  OBVIOUS
<1>9. r = s
  BY <1>5, <1>7, <1>8, OneRemainder
<1> QED BY <1>9 DEF r, s, y

\* A small number is its own remainder, and one just below zero a large one.
LEMMA SmallRemainder ==
  ASSUME NEW w \in Nat, w > 0, NEW x \in Int
  PROVE  /\ x \in 0..w-1 => x % w = x
         /\ x < 0 /\ x + w >= 0 => x % w = x + w
<1>1. PICK a \in Int : x = w * a + (x % w)
  BY Remainder
<1>2. x % w \in 0..w-1
  BY Remainder
<1> DEFINE r == x % w
<1> HIDE DEF r
<1>3. w * a + r = w * 0 + x /\ w * a + r = w * (-1) + (x + w) /\ r \in 0..w-1
  BY <1>1, <1>2 DEF r
<1>4. x \in 0..w-1 => r = x
  BY <1>3, OneRemainder
<1>5. x < 0 /\ x + w >= 0 => r = x + w
  BY <1>3, OneRemainder
<1> QED BY <1>4, <1>5 DEF r

QuicAccounts == QuicCountExact /\ QuicIdleBounded

\* Who is at a place after one caller of the QUIC pool moved.
LEMMA QuicAtMoves ==
  ASSUME NEW t \in Callers, \A u \in Callers : u # t => quicCall'[u].at = quicCall[u].at, NEW place
  PROVE  /\ Cardinality(QuicAt(place)) \in Nat /\ Cardinality(QuicAt(place)') \in Nat
         /\ Cardinality(QuicAt(place)) <= Cardinality(Callers) /\ Cardinality(Callers) \in Nat
         /\ quicCall[t].at = place /\ quicCall'[t].at # place => Cardinality(QuicAt(place)') = Cardinality(QuicAt(place)) - 1
         /\ quicCall[t].at # place /\ quicCall'[t].at = place => Cardinality(QuicAt(place)') = Cardinality(QuicAt(place)) + 1
         /\ quicCall[t].at # place /\ quicCall'[t].at # place => Cardinality(QuicAt(place)') = Cardinality(QuicAt(place))
<1> DEFINE A == QuicAt(place)  B == QuicAt(place)'
<1>1. /\ IsFiniteSet(Callers) /\ A \subseteq Callers /\ B \subseteq Callers /\ A \ {t} = B \ {t}
      /\ t \in A <=> quicCall[t].at = place
      /\ t \in B <=> quicCall'[t].at = place
  BY TcpAssumption DEF QuicAt
<1> HIDE DEF A, B
<1>2. /\ Cardinality(A) \in Nat /\ Cardinality(B) \in Nat
      /\ Cardinality(A) <= Cardinality(Callers) /\ Cardinality(Callers) \in Nat
      /\ t \in A /\ t \notin B => Cardinality(B) = Cardinality(A) - 1
      /\ t \notin A /\ t \in B => Cardinality(B) = Cardinality(A) + 1
      /\ t \notin A /\ t \notin B => Cardinality(B) = Cardinality(A)
  BY <1>1, CountMoves, Zenon
<1> QED BY <1>1, <1>2, Zenon DEF A, B

\* The same for those that have an eviction to count.
LEMMA QuicEvictingMoves ==
  ASSUME NEW t \in Callers, \A u \in Callers : u # t => quicCall'[u] = quicCall[u]
  PROVE  LET e == quicCall[t].at = "parked" /\ quicCall[t].evicted = 1
             f == quicCall'[t].at = "parked" /\ quicCall'[t].evicted = 1
         IN  /\ Cardinality(QuicEvicting) \in Nat /\ Cardinality(QuicEvicting') \in Nat
             /\ Cardinality(QuicEvicting) <= Cardinality(QuicAt("parked"))
             /\ e /\ ~f => Cardinality(QuicEvicting') = Cardinality(QuicEvicting) - 1
             /\ ~e /\ f => Cardinality(QuicEvicting') = Cardinality(QuicEvicting) + 1
             /\ ~e /\ ~f => Cardinality(QuicEvicting') = Cardinality(QuicEvicting)
<1> DEFINE A == QuicEvicting  B == QuicEvicting'
           e == quicCall[t].at = "parked" /\ quicCall[t].evicted = 1
           f == quicCall'[t].at = "parked" /\ quicCall'[t].evicted = 1
<1>1. /\ IsFiniteSet(Callers) /\ A \subseteq Callers /\ B \subseteq Callers /\ A \ {t} = B \ {t}
      /\ t \in A <=> e
      /\ t \in B <=> f
      /\ A \subseteq QuicAt("parked") /\ QuicAt("parked") \subseteq Callers
  BY TcpAssumption DEF QuicEvicting, QuicAt
<1> HIDE DEF A, B, e, f
<1>2. /\ Cardinality(A) \in Nat /\ Cardinality(B) \in Nat
      /\ t \in A /\ t \notin B => Cardinality(B) = Cardinality(A) - 1
      /\ t \notin A /\ t \in B => Cardinality(B) = Cardinality(A) + 1
      /\ t \notin A /\ t \notin B => Cardinality(B) = Cardinality(A)
  BY <1>1, CountMoves, Zenon
<1>3. Cardinality(A) <= Cardinality(QuicAt("parked"))
  BY <1>1, FS_Subset
<1> QED BY <1>1, <1>2, <1>3, Zenon DEF A, B, e, f

\* Nothing is parked at first.
LEMMA QuicInitAccounts == QuicInit => QuicAccounts
<1> SUFFICES ASSUME QuicInit PROVE QuicAccounts
  OBVIOUS
<1>1. QuicParked = {} /\ QuicAt("popped") = {} /\ QuicAt("parked") = {} /\ QuicAt("park") = {} /\ QuicEvicting = {}
  BY DEF QuicInit, QuicParked, Range, QuicAt, QuicOut, QuicEvicting
<1>2. Cardinality({}) = 0 /\ Cardinality(Callers) \in Nat /\ Cardinality(Callers) # 0
  <2>1. IsFiniteSet(Callers) /\ Callers # {}
    BY TcpAssumption
  <2> QED BY <2>1, FS_EmptySet, FS_CardinalityType, Zenon
<1>3. /\ Cardinality(QuicParked) = 0 /\ Cardinality(QuicAt("popped")) = 0 /\ Cardinality(QuicAt("parked")) = 0
      /\ Cardinality(QuicAt("park")) = 0 /\ Cardinality(QuicEvicting) = 0
  BY <1>1, <1>2
<1>4. 0 % QuicWrap = 0
  BY <1>2, QuicAssumption, SmallRemainder
<1> QED BY <1>2, <1>3, <1>4, QuicAssumption DEF QuicInit, QuicAccounts, QuicCountExact, QuicIdleBounded, QuicIdleCount

\* Every step of a caller of the QUIC pool moves the count with the queues,
\* or leaves the difference with a caller that will count it.
LEMMA QuicStepAccounts == QuicInv /\ QuicAccounts /\ [QuicNext]_quicVars => QuicAccounts'
<1> SUFFICES ASSUME QuicInv, QuicAccounts, [QuicNext]_quicVars PROVE QuicAccounts'
  OBVIOUS
<1> DEFINE P == Cardinality(QuicParked)  W == Cardinality(QuicAt("popped"))  K == Cardinality(QuicAt("park"))
           D == Cardinality(QuicAt("parked"))  E == Cardinality(QuicEvicting)
           C == Cardinality(Callers)
<1>0. /\ Owned(QuicConns, quicIdle, QuicHas) /\ IsFiniteSet(QuicConns) /\ QuicTotalMax \in Nat
      /\ QuicWrap \in Nat /\ QuicWrap > QuicTotalMax + 2 * C
      /\ quicCall \in [Callers -> QuicCallRecord]
      /\ QuicParked = ParkedIn(quicIdle) /\ QuicParked' = ParkedIn(quicIdle') /\ P \in Nat
      /\ quicTotal = (P + W - D + E) % QuicWrap /\ P + K <= QuicTotalMax - 1 + C
  <2>1. Owned(QuicConns, quicIdle, QuicHas) /\ IsFiniteSet(QuicConns) /\ QuicTotalMax \in Nat
    BY QuicAssumption DEF QuicInv
  <2>2. QuicParked = ParkedIn(quicIdle) /\ QuicParked' = ParkedIn(quicIdle')
    BY DEF QuicParked, ParkedIn
  <2>3. P \in Nat
    BY <2>1, <2>2, ParkedFinite DEF Owned
  <2> QED BY <2>1, <2>2, <2>3, QuicAssumption DEF QuicInv, QuicAccounts, QuicCountExact, QuicIdleBounded, QuicIdleCount
<1>1. ASSUME quicTotal' = (P' + W' - D' + E') % QuicWrap, P' + K' <= QuicTotalMax - 1 + C PROVE QuicAccounts'
  BY <1>1 DEF QuicAccounts, QuicCountExact, QuicIdleBounded, QuicIdleCount
<1> HIDE DEF P, W, K, D, E, C
<1>2. ASSUME NEW t \in Callers, \A u \in Callers : u # t => quicCall'[u] = quicCall[u]
      PROVE  /\ W \in Nat /\ W' \in Nat /\ K \in Nat /\ K' \in Nat /\ C \in Nat /\ D \in Nat /\ D' \in Nat
             /\ W <= C /\ D <= C
             /\ quicCall[t].at # "popped" /\ quicCall'[t].at # "popped" => W' = W
             /\ quicCall[t].at # "popped" /\ quicCall'[t].at = "popped" => W' = W + 1
             /\ quicCall[t].at = "popped" /\ quicCall'[t].at # "popped" => W' = W - 1
             /\ quicCall[t].at # "park" /\ quicCall'[t].at # "park" => K' = K
             /\ quicCall[t].at # "park" /\ quicCall'[t].at = "park" => K' = K + 1
             /\ quicCall[t].at = "park" /\ quicCall'[t].at # "park" => K' = K - 1
             /\ quicCall[t].at # "parked" /\ quicCall'[t].at # "parked" => D' = D
             /\ quicCall[t].at # "parked" /\ quicCall'[t].at = "parked" => D' = D + 1
             /\ quicCall[t].at = "parked" /\ quicCall'[t].at # "parked" => D' = D - 1
  <2>1. \A u \in Callers : u # t => quicCall'[u].at = quicCall[u].at
    BY <1>2, Zenon
  <2> QED BY <2>1, QuicAtMoves, Zenon DEF W, K, C, D
<1>3. ASSUME NEW t \in Callers, \A u \in Callers : u # t => quicCall'[u] = quicCall[u]
      PROVE  /\ E \in Nat /\ E' \in Nat /\ E <= D
             /\ quicCall[t].at # "parked" /\ quicCall'[t].at # "parked" => E' = E
             /\ quicCall[t].at # "parked" /\ quicCall'[t].at = "parked" =>
                  (quicCall'[t].evicted = 1 => E' = E + 1) /\ (quicCall'[t].evicted # 1 => E' = E)
             /\ quicCall[t].at = "parked" /\ quicCall'[t].at # "parked" =>
                  (quicCall[t].evicted = 1 => E' = E - 1) /\ (quicCall[t].evicted # 1 => E' = E)
  BY <1>3, QuicEvictingMoves, Zenon DEF E, D
<1>4. ASSUME UNCHANGED quicIdle PROVE P' = P
  BY <1>0, <1>4 DEF P
<1>5. ASSUME NEW t \in Callers, \A u \in Callers : u # t => quicCall'[u] = quicCall[u],
             UNCHANGED <<quicIdle, quicTotal>>,
             quicCall[t].at \notin {"popped", "park", "parked"}, quicCall'[t].at \notin {"popped", "park", "parked"}
      PROVE  QuicAccounts'
  <2>1. W' = W /\ K' = K /\ D' = D
    BY <1>2, <1>5
  <2>2. E' = E
    BY <1>3, <1>5
  <2>3. P' = P
    BY <1>4, <1>5
  <2> QED BY <1>0, <1>1, <1>5, <2>1, <2>2, <2>3
<1>6. ASSUME NEW t \in Callers, QuicAcquire(t) \/ DialDedicated(t) PROVE QuicAccounts'
  <2>1. /\ \A u \in Callers : u # t => quicCall'[u] = quicCall[u]
        /\ quicCall[t] = QuicOut /\ UNCHANGED <<quicIdle, quicTotal>>
    BY <1>0, <1>6, Zenon DEF QuicAcquire, DialDedicated
  <2>3. ASSUME QuicAcquire(t) PROVE quicCall'[t].at = "pop"
    <3>1. PICK p \in Peers : quicCall' = [quicCall EXCEPT ![t] = [QuicOut EXCEPT !.at = "pop", !.peer = p]]
      BY <2>3, Zenon DEF QuicAcquire
    <3>2. quicCall'[t].at = "pop"
      BY <1>0, <3>1 DEF QuicOut
    <3> QED BY <3>2
  <2>4. ASSUME DialDedicated(t) PROVE quicCall'[t].at = "dedicated"
    BY <1>0, <2>4 DEF DialDedicated, QuicOut
  <2>2. quicCall[t].at = "out" /\ quicCall'[t].at \in {"pop", "dedicated"}
    <3>1. quicCall[t].at = "out"
      BY <2>1 DEF QuicOut
    <3> QED BY <1>6, <2>3, <2>4, <3>1
  <2> QED BY <1>5, <2>1, <2>2
<1>7. ASSUME NEW t \in Callers, QuicPopIdle(t) PROVE QuicAccounts'
  <2> DEFINE p == quicCall[t].peer
  <2>1. /\ \A u \in Callers : u # t => quicCall'[u] = quicCall[u]
        /\ quicCall[t].at = "pop" /\ UNCHANGED quicTotal /\ p \in Peers
    BY <1>0, <1>7 DEF QuicPopIdle, QuicInv, QuicSound
  <2>2. CASE quicIdle[p] = <<>>
    <3>1. quicCall'[t].at = "dial" /\ UNCHANGED quicIdle
      BY <1>0, <1>7, <2>2 DEF QuicPopIdle, QuicCallRecord
    <3> QED BY <1>5, <2>1, <3>1
  <2>3. CASE quicIdle[p] # <<>>
    <3>1. quicCall'[t].at = "popped" /\ quicIdle' = [quicIdle EXCEPT ![p] = Tail(@)]
      BY <1>0, <1>7, <2>3 DEF QuicPopIdle, QuicCallRecord
    <3>2. P' = P - 1
      BY <1>0, <2>1, <2>3, <3>1, PopCounts, Zenon DEF P
    <3>3. W' = W + 1 /\ K' = K /\ D' = D /\ W \in Nat /\ K \in Nat /\ D \in Nat /\ C \in Nat
      BY <1>2, <2>1, <3>1
    <3>4. E' = E /\ E \in Nat
      BY <1>3, <2>1, <3>1
    <3>5. P' + W' - D' + E' = P + W - D + E
      BY <1>0, <3>2, <3>3, <3>4
    <3> QED BY <1>0, <1>1, <2>1, <3>2, <3>3, <3>5
  <2> QED BY <2>2, <2>3
<1>8. ASSUME NEW t \in Callers, QuicCountPop(t) PROVE QuicAccounts'
  <2>1. /\ \A u \in Callers : u # t => quicCall'[u] = quicCall[u]
        /\ quicCall[t].at = "popped" /\ quicTotal' = (quicTotal - 1) % QuicWrap /\ UNCHANGED quicIdle
    BY <1>0, <1>8 DEF QuicCountPop
  <2>6. quicCall'[t].at = "check"
    BY <1>0, <1>8 DEF QuicCountPop, QuicCallRecord
  <2>2. W' = W - 1 /\ K' = K /\ D' = D /\ W \in Nat /\ K \in Nat /\ D \in Nat /\ C \in Nat /\ P' = P
    BY <1>2, <1>4, <2>1, <2>6
  <2>3. E' = E /\ E \in Nat
    BY <1>3, <2>1, <2>6
  <2>4. (((P + W - D + E) % QuicWrap) + (-1)) % QuicWrap = (P + W - D + E + (-1)) % QuicWrap
    <3> DEFINE x == P + W - D + E  d == -1
    <3>1. x \in Int /\ d \in Int /\ QuicWrap \in Nat /\ QuicWrap > 0
      BY <1>0, <2>2, <2>3
    <3> HIDE DEF x, d
    <3>2. ((x % QuicWrap) + d) % QuicWrap = (x + d) % QuicWrap
      BY <3>1, ShiftRemainder, Zenon
    <3> QED BY <3>2 DEF x, d
  <2>5. P' + W' - D' + E' = P + W - D + E + (-1)
    BY <1>0, <2>2, <2>3
  <2>7. quicTotal' = (quicTotal + (-1)) % QuicWrap
    BY <1>0, <2>1, <2>2, <2>3
  <2> QED BY <1>0, <1>1, <2>2, <2>4, <2>5, <2>7
<1>9. ASSUME NEW t \in Callers, SkipExpired(t) \/ ProbeLiveness(t) \/ DialNew(t) \/ Discard(t) PROVE QuicAccounts'
  <2>1. /\ \A u \in Callers : u # t => quicCall'[u] = quicCall[u]
        /\ quicCall[t].at \in {"check", "dial", "held", "dedicated"} /\ UNCHANGED <<quicIdle, quicTotal>>
    BY <1>0, <1>9 DEF SkipExpired, ProbeLiveness, DialNew, Discard, QuicLeave
  <2>2. quicCall'[t].at \in {"pop", "held", "out"}
    BY <1>0, <1>9 DEF SkipExpired, ProbeLiveness, DialNew, Discard, QuicLeave, QuicOut, QuicCallRecord
  <2> QED BY <1>5, <2>1, <2>2
<1>10. ASSUME NEW t \in Callers, DropPooled(t) PROVE QuicAccounts'
  <2>1. /\ \A u \in Callers : u # t => quicCall'[u] = quicCall[u]
        /\ quicCall[t].at = "held" /\ UNCHANGED <<quicIdle, quicTotal>>
    BY <1>0, <1>10 DEF DropPooled, QuicLeave
  <2>2. CASE quicTotal < QuicTotalMax /\ quicCall' = [quicCall EXCEPT ![t].at = "park"]
    <3>1. quicCall'[t].at = "park"
      BY <1>0, <2>2 DEF QuicCallRecord
    <3>2. /\ W' = W /\ K' = K + 1 /\ D' = D /\ W \in Nat /\ K \in Nat /\ D \in Nat /\ C \in Nat
          /\ W <= C /\ D <= C /\ P' = P
      BY <1>2, <1>4, <2>1, <3>1
    <3>3. E' = E /\ E \in Nat /\ E <= D
      BY <1>3, <2>1, <3>1
    <3> DEFINE x == P + W - D + E
    <3>4. x \in Int /\ x + QuicWrap >= 0 /\ x < QuicWrap /\ QuicWrap > 0 /\ x >= P - D
          /\ QuicWrap - C >= QuicTotalMax /\ x >= -C
      BY <1>0, <3>2, <3>3
    <3>5. quicTotal = x % QuicWrap
      BY <1>0
    <3> HIDE DEF x
    <3>6. x >= 0
      <4>1. ASSUME x < 0 PROVE FALSE
        <5>1. quicTotal = x + QuicWrap
          BY <1>0, <3>4, <3>5, <4>1, SmallRemainder
        <5> QED BY <1>0, <2>2, <3>2, <3>4, <5>1
      <4> QED BY <3>4, <4>1
    <3>7. quicTotal = x
      BY <1>0, <3>4, <3>5, <3>6, SmallRemainder
    <3>8. P <= QuicTotalMax - 1 + D
      BY <1>0, <2>2, <3>2, <3>4, <3>7
    <3>9. K' + D <= C
      <4> DEFINE A == QuicAt("park")'  B == QuicAt("parked")'
      <4>1. A \cap B = {} /\ A \subseteq Callers /\ B \subseteq Callers /\ IsFiniteSet(Callers)
        BY TcpAssumption DEF QuicAt
      <4>2. IsFiniteSet(A) /\ IsFiniteSet(B) /\ A \cup B \subseteq Callers
        BY <4>1, FS_Subset
      <4>3. Cardinality(A \cup B) = Cardinality(A) + Cardinality(B) - Cardinality(A \cap B)
        BY <4>2, FS_Union, Zenon
      <4>4. Cardinality(A \cup B) <= Cardinality(Callers) /\ Cardinality(A \cap B) = 0
        BY <4>1, <4>2, FS_Subset, FS_EmptySet
      <4>5. K' = Cardinality(A) /\ D' = Cardinality(B) /\ C = Cardinality(Callers)
        BY DEF K, D, C
      <4> HIDE DEF A, B
      <4>6. K' + D' - 0 <= C
        BY <4>3, <4>4, <4>5
      <4> QED BY <3>2, <4>6
    <3>10. P' + K' <= QuicTotalMax - 1 + C
      BY <1>0, <3>2, <3>8, <3>9
    <3>11. quicTotal' = (P' + W' - D' + E') % QuicWrap
      BY <2>1, <3>2, <3>3, <3>5 DEF x
    <3> QED BY <1>1, <3>10, <3>11
  <2>3. CASE QuicLeave(t)
    <3>1. quicCall'[t].at = "out"
      BY <1>0, <2>3 DEF QuicLeave, QuicOut
    <3> QED BY <1>5, <2>1, <3>1
  <2> QED BY <1>10, <2>2, <2>3 DEF DropPooled
<1>11. ASSUME NEW t \in Callers, QuicParkIdle(t) PROVE QuicAccounts'
  <2> DEFINE p == quicCall[t].peer  q == quicIdle[p]
             full == Len(q) >= QuicPerPeerMax /\ q # <<>>
             n == IF full THEN 1 ELSE 0
             kept == IF full THEN Tail(q) ELSE q
  <2>1. /\ p \in Peers /\ quicCall[t].conn \in QuicConns /\ QuicHas[t] = quicCall[t].conn
        /\ quicCall[t].at = "park"
    <3>1. quicCall[t].at = "park"
      BY <1>11 DEF QuicParkIdle
    <3> QED BY <1>0, <3>1 DEF QuicInv, QuicHas, QuicSound, QuicCallRecord
  <2>2. q \in Seq(QuicConns) /\ IsInjective(q)
    BY <1>0, <2>1 DEF Owned
  <2>3. /\ n \in 0..Len(q) /\ n \in {0, 1} /\ kept = SubSeq(q, n + 1, Len(q)) /\ kept \in Seq(QuicConns)
    <3>1. CASE full
      <4>1. n = 1 /\ kept = Tail(q) /\ q # <<>>
        BY <3>1
      <4>2. Tail(q) = SubSeq(q, 1 + 1, Len(q)) /\ Tail(q) \in Seq(QuicConns) /\ 1 \in 0..Len(q)
        BY <2>2, <4>1
      <4> QED BY <4>1, <4>2, Zenon
    <3>2. CASE ~full
      <4>1. n = 0 /\ kept = q
        BY <3>2
      <4>2. q = SubSeq(q, 0 + 1, Len(q)) /\ 0 \in 0..Len(q)
        BY <2>2
      <4> QED BY <2>2, <4>1, <4>2, Zenon
    <3> QED BY <3>1, <3>2, Zenon
  <2>5. /\ quicIdle' = [quicIdle EXCEPT ![p] = Append(kept, QuicHas[t])] /\ UNCHANGED quicTotal
    BY <1>11, <2>1 DEF QuicParkIdle
  <2>7. /\ \A u \in Callers : u # t => quicCall'[u] = quicCall[u]
        /\ quicCall'[t].at = "parked" /\ quicCall'[t].evicted = n
    BY <1>0, <1>11 DEF QuicParkIdle, QuicCallRecord
  <2> HIDE DEF n, kept, q
  <2> DEFINE gone == Oldest(q, n)
  <2>4. Cardinality(gone) = n /\ Without(q, gone, kept)
    BY <2>2, <2>3, OldestLeave, Zenon
  <2> HIDE DEF gone
  <2>6. P' = P - Cardinality(gone) + 1
    <3>1. Owned(QuicConns, quicIdle, QuicHas) /\ IsFiniteSet(QuicConns) /\ QuicHas[t] \in QuicConns
      BY <1>0, <2>1, Zenon
    <3>2. kept \in Seq(QuicConns) /\ Without(quicIdle[p], gone, kept) /\ p \in Peers
      BY <2>1, <2>3, <2>4, Zenon DEF q
    <3> HIDE DEF p
    <3>3. Cardinality(ParkedIn([quicIdle EXCEPT ![p] = Append(kept, QuicHas[t])]))
            = Cardinality(ParkedIn(quicIdle)) - Cardinality(gone) + 1
      BY <3>1, <3>2, ParkCounts, SMT
    <3>5. QuicParked = ParkedIn(quicIdle) /\ QuicParked' = ParkedIn(quicIdle')
      BY <1>0
    <3> QED BY <2>5, <3>3, <3>5, Zenon DEF P
  <2>8. W' = W /\ K' = K - 1 /\ D' = D + 1 /\ W \in Nat /\ K \in Nat /\ D \in Nat /\ C \in Nat
    BY <1>2, <2>1, <2>7
  <2>9. E \in Nat /\ E' = E + n
    BY <1>3, <2>1, <2>3, <2>7
  <2>10. n \in Nat /\ P' = P - n + 1
    BY <2>3, <2>4, <2>6
  <2>11. P' + W' - D' + E' = P + W - D + E
    BY <1>0, <2>8, <2>9, <2>10
  <2> QED BY <1>0, <1>1, <2>5, <2>8, <2>10, <2>11
<1>12. ASSUME NEW t \in Callers, CountPark(t) PROVE QuicAccounts'
  <2> DEFINE n == quicCall[t].evicted
  <2>1. /\ \A u \in Callers : u # t => quicCall'[u] = quicCall[u]
        /\ quicCall[t].at = "parked" /\ quicCall'[t].at = "out" /\ UNCHANGED quicIdle
        /\ quicTotal' = (quicTotal - n + 1) % QuicWrap
    BY <1>0, <1>12 DEF CountPark, QuicLeave, QuicOut
  <2>2. n \in {0, 1}
    BY <1>0 DEF QuicCallRecord
  <2>3. W' = W /\ K' = K /\ D' = D - 1 /\ W \in Nat /\ K \in Nat /\ D \in Nat /\ C \in Nat /\ P' = P
    BY <1>2, <1>4, <2>1
  <2>4. E \in Nat /\ E' = E - n
    BY <1>3, <2>1, <2>2
  <2> HIDE DEF n
  <2>5. (((P + W - D + E) % QuicWrap) + (1 - n)) % QuicWrap = (P + W - D + E + (1 - n)) % QuicWrap
    <3> DEFINE x == P + W - D + E  d == 1 - n
    <3>1. x \in Int /\ d \in Int /\ QuicWrap \in Nat /\ QuicWrap > 0
      BY <1>0, <2>2, <2>3, <2>4
    <3> HIDE DEF x, d
    <3>2. ((x % QuicWrap) + d) % QuicWrap = (x + d) % QuicWrap
      BY <3>1, ShiftRemainder, Zenon
    <3> QED BY <3>2 DEF x, d
  <2>6. P' + W' - D' + E' = P + W - D + E + (1 - n)
    BY <1>0, <2>2, <2>3, <2>4
  <2>7. quicTotal' = (quicTotal + (1 - n)) % QuicWrap
    BY <1>0, <2>1, <2>2, <2>3, <2>4
  <2> QED BY <1>0, <1>1, <2>3, <2>5, <2>6, <2>7
<1>13. CASE UNCHANGED quicVars
  BY <1>0, <1>13 DEF quicVars, QuicAccounts, QuicCountExact, QuicIdleBounded, QuicIdleCount, QuicParked, QuicAt, QuicEvicting
<1> QED BY <1>6, <1>7, <1>8, <1>9, <1>10, <1>11, <1>12, <1>13, Zenon DEF QuicNext

\* Whatever callers interleave, the counts that gate parking account for
\* every connection that is parked, popped or evicted, and the pools
\* overshoot their limits by no more than the callers that test the count
\* together (pop_idle, park, return_to_pool of pool.rs and quic_pool.rs).
THEOREM CountsAccount == TcpSpec /\ QuicSpec => []PoolsAccounted
<1>1. TcpSpec => [](TcpInv /\ TcpAccounts)
  BY TcpInitInv, TcpStepInv, TcpInitAccounts, TcpStepAccounts, PTL DEF TcpSpec
<1>2. QuicSpec => [](QuicInv /\ QuicAccounts)
  BY QuicInitInv, QuicStepInv, QuicInitAccounts, QuicStepAccounts, PTL DEF QuicSpec
<1>3. TcpInv /\ TcpAccounts => TcpTypeOK
  <2> SUFFICES ASSUME TcpInv, TcpAccounts PROVE TcpTypeOK
    OBVIOUS
  <2>1. tcpIdle \in [Peers -> Seq(TcpConns)] /\ IsFiniteSet(TcpConns) /\ TcpParked = ParkedIn(tcpIdle)
    BY TcpAssumption DEF TcpInv, Owned, TcpParked, ParkedIn
  <2>2. Cardinality(TcpParked) \in Nat
    BY <2>1, ParkedFinite
  <2>3. Cardinality(TcpAt("popped")) \in Nat
    BY TcpAssumption, FS_Subset, FS_CardinalityType, Zenon DEF TcpAt
  <2> QED BY <2>1, <2>2, <2>3 DEF TcpTypeOK, TcpAccounts, TcpCountExact, TcpIdleCount
<1>4. QuicInv /\ QuicAccounts => QuicTypeOK
  <2> SUFFICES ASSUME QuicInv, QuicAccounts PROVE QuicTypeOK
    OBVIOUS
  <2>1. quicIdle \in [Peers -> Seq(QuicConns)] /\ IsFiniteSet(QuicConns) /\ QuicParked = ParkedIn(quicIdle)
    BY QuicAssumption DEF QuicInv, Owned, QuicParked, ParkedIn
  <2>2. Cardinality(QuicParked) \in Nat
    BY <2>1, ParkedFinite
  <2>3. \A S \in SUBSET Callers : Cardinality(S) \in Nat
    BY TcpAssumption, FS_Subset, FS_CardinalityType
  <2>4. /\ Cardinality(QuicAt("popped")) \in Nat /\ Cardinality(QuicAt("parked")) \in Nat
        /\ Cardinality(QuicEvicting) \in Nat /\ Cardinality(Callers) \in Nat
    BY <2>3 DEF QuicAt, QuicEvicting
  <2>5. quicTotal \in 0..(QuicWrap - 1)
    BY <2>2, <2>4, QuicAssumption, Remainder DEF QuicAccounts, QuicCountExact, QuicIdleCount
  <2> QED BY <2>1, <2>5 DEF QuicTypeOK
<1>5. TcpSpec /\ QuicSpec => [](TcpQueueBounded /\ QuicQueueBounded)
  BY QueuesBounded
<1>6. /\ TcpTypeOK /\ TcpAccounts /\ TcpQueueBounded /\ QuicTypeOK /\ QuicAccounts /\ QuicQueueBounded
      => PoolsAccounted
  BY Zenon DEF PoolsAccounted, TcpAccounts, QuicAccounts
<1> QED BY <1>1, <1>2, <1>3, <1>4, <1>5, <1>6, PTL
=============================================================================
