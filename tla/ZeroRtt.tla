------------------------------ MODULE ZeroRtt ------------------------------
(***************************************************************************)
(* The 0-RTT replay guard as it is built (lb-security/src/zero_rtt.rs,     *)
(* ZeroRttReplayGuard): a slab of nodes that are linked into a list from   *)
(* the least to the most recently seen digest, a free list through the     *)
(* same nodes, and a hash index.  A token's digest is an HMAC under a      *)
(* process-local key: distinct tokens have distinct digests.               *)
(***************************************************************************)
EXTENDS Naturals, Sequences, FiniteSets, Functions

CONSTANTS Digests, MaxTokens

VARIABLES
  arena,      \* sequence of [digest, prev, next]; slots are 1 .. Len(arena)
  freeHead,   \* free_head
  front,      \* least recently seen
  back,       \* most recently seen
  index,      \* digest -> slot
  offered,    \* history: the last digest
  replayed    \* verdict of the last check_and_record

guardVars == <<arena, freeHead, front, back, index, offered, replayed>>

NIL == 0

(* The list as a record, so that each helper is a function of it.          *)
List == [arena |-> arena, free |-> freeHead, front |-> front, back |-> back]

GuardInit ==
  /\ arena = << >> /\ freeHead = NIL /\ front = NIL /\ back = NIL
  /\ index = << >> /\ offered = {} /\ replayed = FALSE

Linked(a, i, field, v) == IF i = NIL THEN a ELSE [a EXCEPT ![i] = [@ EXCEPT ![field] = v]]

(* A free slot is reused before the slab grows.                            *)
AllocNode(l, d) ==
  LET node == [digest |-> d, prev |-> NIL, next |-> NIL]
  IN IF l.free = NIL
     THEN [list |-> [l EXCEPT !.arena = Append(@, node)], slot |-> Len(l.arena) + 1]
     ELSE [list |-> [l EXCEPT !.free = l.arena[l.free].next, !.arena[l.free] = node],
           slot |-> l.free]

FreeNode(l, i) ==
  [l EXCEPT !.arena[i].prev = NIL, !.arena[i].next = l.free, !.free = i]

PushBack(l, i) ==
  LET a == [l.arena EXCEPT ![i].prev = l.back, ![i].next = NIL]
  IN [l EXCEPT !.arena = Linked(a, l.back, "next", i),
               !.front = IF l.back = NIL THEN i ELSE @,
               !.back = i]

Unlink(l, i) ==
  LET p == l.arena[i].prev
      n == l.arena[i].next
  IN [l EXCEPT !.arena = Linked(Linked(@, p, "next", n), n, "prev", p),
               !.front = IF p = NIL THEN n ELSE @,
               !.back = IF n = NIL THEN p ELSE @]

(* Mutation: a known digest keeps its place.                               *)
MoveToBackNever(l, i) == l

MoveToBack(l, i) == IF l.back = i THEN l ELSE PushBack(Unlink(l, i), i)

Become(l) == /\ arena' = l.arena /\ freeHead' = l.free
             /\ front' = l.front /\ back' = l.back

(* check_and_record on a known digest: promote it and refuse.              *)
Replay(d) ==
  /\ d \in DOMAIN index
  /\ Become(MoveToBack(List, index[d]))
  /\ offered' = {d} /\ replayed' = TRUE /\ UNCHANGED index

(* On a new one: evict_lru at capacity, then insert at the back.           *)
Record(d) ==
  LET full == Cardinality(DOMAIN index) >= MaxTokens /\ front # NIL
      room == IF full THEN FreeNode(Unlink(List, front), front) ELSE List
      kept == IF full THEN Restrict(index, DOMAIN index \ {arena[front].digest}) ELSE index
      got  == AllocNode(room, d)
  IN /\ d \notin DOMAIN index
     /\ Become(PushBack(got.list, got.slot))
     /\ index' = [x \in DOMAIN kept \cup {d} |-> IF x = d THEN got.slot ELSE kept[x]]
     /\ offered' = {d} /\ replayed' = FALSE

GuardNext == \E d \in Digests : Replay(d) \/ Record(d)
----------------------------------------------------------------------------
GuardTypeOK ==
  LET slots == NIL .. Len(arena)
  IN /\ \A i \in DOMAIN arena : /\ arena[i].digest \in Digests
                                /\ arena[i].prev \in slots /\ arena[i].next \in slots
     /\ {freeHead, front, back} \subseteq slots
     /\ DOMAIN index \subseteq Digests /\ Range(index) \subseteq DOMAIN arena
     /\ replayed \in BOOLEAN

(* The digests from front to back, at most as many as there are slots.     *)
Walk ==
  LET seq[n \in 0 .. Len(arena)] ==
        IF n = 0 THEN [at |-> front, out |-> << >>]
        ELSE IF seq[n - 1].at = NIL THEN seq[n - 1]
             ELSE [at |-> arena[seq[n - 1].at].next,
                   out |-> Append(seq[n - 1].out, arena[seq[n - 1].at].digest)]
  IN seq[Len(arena)].out

Window == INSTANCE LruWindow WITH WindowKeys <- Digests, WindowSize <- MaxTokens,
                                  window <- Walk, refused <- replayed

(* The slab never outgrows the capacity, and list and index hold the same  *)
(* digests: no slot is orphaned by the free list (alloc_node, free_node).  *)
SlabExact ==
  /\ Len(arena) <= MaxTokens
  /\ Range(Walk) = DOMAIN index /\ Len(Walk) = Cardinality(DOMAIN index)
  /\ back = (IF index = << >> THEN NIL ELSE index[Walk[Len(Walk)]])
=============================================================================
