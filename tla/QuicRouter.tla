----------------------------- MODULE QuicRouter -----------------------------
(***************************************************************************)
(* The packet router of the terminating QUIC listener                      *)
(* (crates/lb-quic/src/router.rs, cleanup_guard.rs): one task reads the    *)
(* socket and hands each packet to the connection actor registered under   *)
(* its destination connection ID, answers an Initial without a token with  *)
(* a Retry, and spawns an actor for an Initial whose token verifies and    *)
(* has not been seen before.  An actor's CidEntryGuard removes its two     *)
(* entries when its task ends.                                             *)
(*                                                                         *)
(* The connection map is a DashMap (external): a reference obtained with   *)
(* get holds its shard's read lock, and insert and remove wait for the     *)
(* write lock.  Each connection ID is its own shard here; sharing a shard  *)
(* can only make more steps wait.                                          *)
(***************************************************************************)
EXTENDS Naturals, FiniteSets, Sequences

CONSTANTS ClientCids,     \* destination IDs clients put in an Initial
          Tokens,         \* replay keys: client SCID and token prefix
          ReplaySize,     \* replay_capacity
          MaxConnections, \* max_connections
          ChannelDepth,   \* ACTOR_CHANNEL_DEPTH
          MaxActors,      \* bound: connections accepted
          MaxPackets      \* bound: packets that arrive

VARIABLES
  routes,     \* connections: connection ID -> actor
  actor,      \* sequence of the actors spawned
  replay,     \* the replay window, least recently seen first
  forgotten,  \* history: how often the window dropped a key
  reaping,    \* the ID whose entry the router waits to remove, if any
  received,   \* packets read so far
  router,     \* running or done
  shutdown    \* the listener's cancellation token

routerVars == <<routes, actor, replay, forgotten, reaping, received, router, shutdown>>

Lru == INSTANCE LruWindow WITH WindowKeys <- Tokens, WindowSize <- ReplaySize,
                               window <- replay, offered <- {}, refused <- FALSE

(* The server's own ID of an actor is random, so it is new.                *)
ServerCid(a) == <<"scid", a>>

RouterInit ==
  /\ routes = << >> /\ actor = << >> /\ replay = << >>
  /\ forgotten = [k \in Tokens |-> 0]
  /\ reaping = {} /\ received = 0
  /\ router = "running" /\ shutdown = FALSE

Running == {a \in DOMAIN actor : actor[a].task = "running"}

(* A shard whose lock is held by the router keeps writers out.             *)
Writable(c) == c \notin reaping
Without(f, c) == [x \in DOMAIN f \ {c} |-> f[x]]
Cids == ClientCids \cup {ServerCid(a) : a \in DOMAIN actor}
----------------------------------------------------------------------------
(* The router task. *)

Reads == /\ router = "running" /\ reaping = {} /\ ~shutdown
         /\ received < MaxPackets /\ received' = received + 1

(* Mutation: the sender is cloned and the reference dropped before the     *)
(* entry is reaped.                                                        *)
ForwardToActorUnlocked(c) ==
  /\ IF actor[routes[c]].task = "running"
     THEN /\ actor' = IF actor[routes[c]].queued < ChannelDepth
                      THEN [actor EXCEPT ![routes[c]].queued = @ + 1] ELSE actor
          /\ UNCHANGED <<routes, reaping>>
     ELSE routes' = Without(routes, c) /\ UNCHANGED <<actor, reaping>>
  /\ UNCHANGED <<replay, forgotten, router, shutdown>>

(* try_send: a full channel drops the packet, a closed one has the entry   *)
(* removed, with the reference that found it still in hand.                *)
ForwardToActor(c) ==
  /\ IF actor[routes[c]].task = "running"
     THEN /\ actor' = IF actor[routes[c]].queued < ChannelDepth
                      THEN [actor EXCEPT ![routes[c]].queued = @ + 1] ELSE actor
          /\ UNCHANGED reaping
     ELSE reaping' = {c} /\ UNCHANGED actor
  /\ UNCHANGED <<routes, replay, forgotten, router, shutdown>>

(* A packet for a known ID.                                                *)
DispatchKnown == Reads /\ \E c \in DOMAIN routes : ForwardToActor(c)

(* An unknown ID: anything but an Initial is dropped, an Initial without a *)
(* token is answered with a stateless Retry, one whose token does not      *)
(* verify is dropped.                                                      *)
DispatchStateless ==
  /\ Reads
  /\ UNCHANGED <<routes, actor, replay, forgotten, reaping, router, shutdown>>

AtCap == Cardinality(DOMAIN routes) >= 2 * MaxConnections

(* spawn_new_connection: both IDs are registered, the packet is queued.    *)
SpawnNewConnection(c, k) ==
  LET a == Len(actor) + 1
      keys == <<ServerCid(a), c>>
  IN /\ a <= MaxActors
     /\ routes' = [x \in DOMAIN routes \cup {ServerCid(a), c} |->
                     IF x \in {ServerCid(a), c} THEN a ELSE routes[x]]
     /\ actor' = Append(actor, [task |-> "running", queued |-> 1, keys |-> keys, token |-> k])

CheckReplay(k) ==
  /\ replay' = Lru!Seen(replay, k)
  /\ forgotten' = IF ~Lru!Known(replay, k) /\ Len(replay) >= ReplaySize
                  THEN [forgotten EXCEPT ![Head(replay)] = @ + 1] ELSE forgotten

(* An Initial for an unknown ID with a token that verifies: a replay is    *)
(* dropped; at the cap, or when the configuration cannot be built, the     *)
(* connection is refused after its token was recorded.                     *)
DispatchInitial ==
  /\ Reads
  /\ \E c \in ClientCids \ DOMAIN routes, k \in Tokens :
       /\ CheckReplay(k)
       /\ \/ UNCHANGED <<routes, actor>>
          \/ ~Lru!Known(replay, k) /\ ~AtCap /\ SpawnNewConnection(c, k)
  /\ UNCHANGED <<reaping, router, shutdown>>

(* The biased select sees the cancellation before the next packet.         *)
RouterExit ==
  /\ router = "running" /\ reaping = {} /\ shutdown /\ router' = "done"
  /\ UNCHANGED <<routes, actor, replay, forgotten, reaping, received, shutdown>>

(* remove waits for the write lock of the shard its own caller holds for   *)
(* reading: it never gets it.  No step ends the wait.                      *)
----------------------------------------------------------------------------
(* The actor tasks (run_actor, seen from the router). *)

Consume(a) ==
  /\ actor[a].task = "running" /\ actor[a].queued > 0
  /\ actor' = [actor EXCEPT ![a].queued = @ - 1]
  /\ UNCHANGED <<routes, replay, forgotten, reaping, received, router, shutdown>>

(* run_actor returns, or unwinds: the channel's receiver is dropped with   *)
(* its parameters, before the guard.                                       *)
Return(a) ==
  /\ actor[a].task = "running"
  /\ actor' = [actor EXCEPT ![a].task = "returned"]
  /\ UNCHANGED <<routes, replay, forgotten, reaping, received, router, shutdown>>

ReturnOnShutdown(a) == shutdown /\ Return(a)

(* CidEntryGuard::drop: one key after the other, by key.                   *)
DropGuard(a) ==
  /\ actor[a].task = "returned" /\ actor[a].keys # << >>
  /\ Writable(Head(actor[a].keys))
  /\ routes' = Without(routes, Head(actor[a].keys))
  /\ actor' = [actor EXCEPT ![a].keys = Tail(@),
                            ![a].task = IF Len(actor[a].keys) = 1 THEN "gone" ELSE @]
  /\ UNCHANGED <<replay, forgotten, reaping, received, router, shutdown>>

ShutdownFires ==
  /\ ~shutdown /\ shutdown' = TRUE
  /\ UNCHANGED <<routes, actor, replay, forgotten, reaping, received, router>>
----------------------------------------------------------------------------
RouterNext ==
  \/ DispatchKnown \/ DispatchStateless \/ DispatchInitial \/ RouterExit
  \/ ShutdownFires
  \/ \E a \in DOMAIN actor : Consume(a) \/ Return(a) \/ DropGuard(a)

RouterTypeOK ==
  /\ DOMAIN routes \subseteq Cids /\ \A c \in DOMAIN routes : routes[c] \in DOMAIN actor
  /\ \A a \in DOMAIN actor :
       /\ actor[a].task \in {"running", "returned", "gone"}
       /\ actor[a].queued \in 0 .. ChannelDepth
       /\ actor[a].token \in Tokens
  /\ reaping \subseteq Cids /\ received \in 0 .. MaxPackets
  /\ router \in {"running", "done"} /\ shutdown \in BOOLEAN

(* The cap counts map entries, removed one at a time; still no more        *)
(* connections run than max_connections allows (spawn_new_connection).     *)
ConnectionsCapped == Cardinality(Running) <= MaxConnections

(* A connection is found under both of its IDs for as long as it runs: no  *)
(* other connection's guard takes an entry away, although guards remove by *)
(* key (CidEntryGuard::drop); and no entry outlives its connection.        *)
RoutesExact ==
  /\ \A a \in Running : \A i \in DOMAIN actor[a].keys :
       actor[a].keys[i] \in DOMAIN routes /\ routes[actor[a].keys[i]] = a
  /\ \A c \in DOMAIN routes : actor[routes[c]].task # "gone"

(* A replay key starts a second connection only after the window dropped   *)
(* it (check_0rtt_token, dispatch_packet).                                 *)
ReplayedOnce ==
  \A k \in Tokens :
    Cardinality({a \in DOMAIN actor : actor[a].token = k}) <= 1 + forgotten[k]

(* After the shutdown token fires, the router returns and every actor's    *)
(* entries go, unless the router is waiting on its own lock.               *)
ShutdownEmpties == shutdown ~> (reaping # {} \/ (router = "done" /\ routes = << >>))

(* Refuted: a packet on the ID of a connection that is gone sees Closed    *)
(* and reaps the entry (cleanup_guard.rs:7-10).                            *)
ClosedIsReaped == \A c \in ClientCids : (reaping = {c}) ~> (c \notin DOMAIN routes)
=============================================================================
