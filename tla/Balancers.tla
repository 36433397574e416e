----------------------------- MODULE Balancers -----------------------------
(***************************************************************************)
(* The stateful and load-based policies of lb-balancer over one backend    *)
(* list that reloads replace: round robin, smooth weighted round robin,    *)
(* least connections, least requests, power of two choices and EWMA.  A    *)
(* pick reads the list's copies of the counters; sync_from_state refreshes *)
(* them from the shared BackendState (lb-core backend.rs).                 *)
(***************************************************************************)
EXTENDS Integers, Sequences, SequencesExt, FiniteSets, FiniteSetsExt

CONSTANTS Names,         \* backend ids
          Lists,         \* backend lists, sequences of [id, weight]
          CounterWidth,  \* the round-robin counter wraps at 2^CounterWidth
          MaxLoad,       \* bound on the connections a backend holds
          Latencies      \* latency_ns values, 0 for "none seen"

VARIABLES policy,        \* the policy in use
          list,          \* the list in force
          load, latency, \* BackendState: connections and EWMA latency, by name
          seenLoad, seenLatency,   \* the list's copies
          counter,       \* RoundRobin
          ids, current,  \* WeightedRoundRobin: backend_ids, current_weights
          tally,         \* history: WRR picks of the round so far, by position, for a
                         \* round begun with these weights and all current weights 0
          pick           \* history: the position last picked, 0 for none

balancerVars ==
  <<policy, list, load, latency, seenLoad, seenLatency, counter, ids, current, tally, pick>>

Weight(i) == list[i].weight
Total == FoldLeft(LAMBDA a, b : a + b.weight, 0, list)
MaxTotal == Max({FoldLeft(LAMBDA a, b : a + b.weight, 0, l) : l \in Lists})
ListIds == [i \in DOMAIN list |-> list[i].id]
First(S) == Min(S)

-----------------------------------------------------------------------------
Using(p) == policy = p /\ UNCHANGED policy
LoadBased == {"least", "p2c", "ewma"}
LoadKept == UNCHANGED <<list, load, latency, seenLoad, seenLatency>>

(* RoundRobin::pick. *)
PickRoundRobin ==
  /\ Using("rr")
  /\ pick' = (counter % Len(list)) + 1
  /\ counter' = (counter + 1) % (2 ^ CounterWidth)
  /\ UNCHANGED <<ids, current, tally>> /\ LoadKept

(* WeightedRoundRobin::pick, sync_weights first: the list is compared by   *)
(* id, so new weights meet the old current weights.  All weights zero is   *)
(* an error, after the sync.                                               *)
Synced == IF ids = ListIds THEN current ELSE [i \in DOMAIN list |-> 0]

\* Mutation: the pick pays its own weight.
ChargedOwn(best) == Weight(best)

(* What a pick pays: the sum of the weights.                               *)
Charged(best) == Total

AllZero(w) == \A i \in DOMAIN w : w[i] = 0
PickWeighted ==
  LET raised == [i \in DOMAIN list |-> Synced[i] + Weight(i)]
      best == First({i \in DOMAIN list : \A j \in DOMAIN list : raised[j] <= raised[i]})
      round == IF AllZero(Synced) THEN [i \in DOMAIN list |-> 0] ELSE tally
  IN  /\ Using("wrr") /\ ids' = ListIds
      /\ IF Total = 0
         THEN current' = Synced /\ tally' = round /\ pick' = 0
         ELSE /\ current' = [raised EXCEPT ![best] = @ - Charged(best)]
              /\ tally' = IF round = << >> THEN round ELSE [round EXCEPT ![best] = @ + 1]
              /\ pick' = best
      /\ UNCHANGED counter /\ LoadKept

(* LeastConnections::pick; LeastRequest::pick is the same over requests.   *)
Least == {i \in DOMAIN list : \A j \in DOMAIN list : seenLoad[i] <= seenLoad[j]}
PickLeast ==
  /\ Using("least")
  /\ pick' = First(Least)
  /\ UNCHANGED <<counter, ids, current, tally>> /\ LoadKept

(* PowerOfTwoChoices::pick: two different positions, the less loaded one,  *)
(* the first on a tie.                                                     *)
PickTwo ==
  /\ Using("p2c")
  /\ IF Len(list) = 1 THEN pick' = 1
     ELSE \E a, b \in DOMAIN list :
            a # b /\ pick' = (IF seenLoad[a] <= seenLoad[b] THEN a ELSE b)
  /\ UNCHANGED <<counter, ids, current, tally>> /\ LoadKept

(* Ewma::pick: a backend without a latency counts as the slowest seen.     *)
ColdStart == LET slowest == Max({seenLatency[i] : i \in DOMAIN list})
             IN  IF slowest > 0 THEN slowest ELSE 1
Score(i) == (IF seenLatency[i] = 0 THEN ColdStart ELSE seenLatency[i]) * (seenLoad[i] + 1)
PickEwma ==
  /\ Using("ewma")
  /\ pick' = First({i \in DOMAIN list : \A j \in DOMAIN list : Score(i) <= Score(j)})
  /\ UNCHANGED <<counter, ids, current, tally>> /\ LoadKept

-----------------------------------------------------------------------------
(* Reload brings a list whose copies start at zero; the policies keep      *)
(* their state.                                                            *)
Reload(l) ==
  /\ l # list /\ list' = l
  /\ seenLoad' = [i \in DOMAIN l |-> 0] /\ seenLatency' = [i \in DOMAIN l |-> 0]
  /\ tally' = << >> /\ pick' = 0
  /\ UNCHANGED <<policy, load, latency, counter, ids, current>>

SyncFromState ==
  /\ policy \in LoadBased
  /\ seenLoad' = [i \in DOMAIN list |-> load[list[i].id]]
  /\ seenLatency' = [i \in DOMAIN list |-> latency[list[i].id]]
  /\ UNCHANGED <<policy, list, load, latency, counter, ids, current, tally, pick>>

(* inc_connections, dec_connections (which stops at 0), set_latency_ns; a   *)
(* counter the policy in use does not read stays where it is.              *)
IncConnections(n) ==
  /\ policy \in LoadBased /\ load[n] < MaxLoad /\ load' = [load EXCEPT ![n] = @ + 1]
  /\ UNCHANGED <<policy, list, latency, seenLoad, seenLatency, counter, ids, current, tally, pick>>
DecConnections(n) ==
  /\ load' = [load EXCEPT ![n] = IF @ = 0 THEN 0 ELSE @ - 1]
  /\ UNCHANGED <<policy, list, latency, seenLoad, seenLatency, counter, ids, current, tally, pick>>
SetLatency(n, ns) ==
  /\ policy = "ewma" /\ latency' = [latency EXCEPT ![n] = ns]
  /\ UNCHANGED <<policy, list, load, seenLoad, seenLatency, counter, ids, current, tally, pick>>

BalancerInit ==
  /\ policy \in LoadBased \cup {"rr", "wrr"}
  /\ list \in Lists
  /\ load = [n \in Names |-> 0] /\ latency = [n \in Names |-> 0]
  /\ seenLoad = [i \in DOMAIN list |-> 0] /\ seenLatency = [i \in DOMAIN list |-> 0]
  /\ counter = 0 /\ ids = << >> /\ current = << >>
  /\ tally = << >> /\ pick = 0

BalancerNext ==
  \/ PickRoundRobin \/ PickWeighted \/ PickLeast \/ PickTwo \/ PickEwma
  \/ SyncFromState \/ \E l \in Lists : Reload(l)
  \/ \E n \in Names : IncConnections(n) \/ DecConnections(n) \/ \E ns \in Latencies : SetLatency(n, ns)

-----------------------------------------------------------------------------
(* Smooth weighted round robin stays centred: its current weights sum to   *)
(* zero and none falls to minus a total weight, whatever reloads of lists  *)
(* and weights fall between picks (pick, sync_weights).                    *)
WeightsCentred ==
  /\ Len(current) = Len(ids)
  /\ FoldLeft(LAMBDA a, w : a + w, 0, current) = 0
  /\ \A i \in DOMAIN current : current[i] > - MaxTotal

(* From a fresh start no backend is picked beyond its weight before every  *)
(* other has had its own: a round of total-weight picks is exactly         *)
(* proportional.                                                           *)
WeightsHonoured == \A i \in DOMAIN tally : tally[i] <= Weight(i)

(* Refuted: a backend whose weight a reload sets to 0 can be picked once   *)
(* more, on the current weight it had.                                     *)
ZeroWeightUnpicked == policy = "wrr" /\ pick # 0 => Weight(pick) > 0

(* The power of two choices never picks a backend that is strictly more    *)
(* loaded than all others, and EWMA never a cold backend over a warm one   *)
(* of no more connections, by the copies the list holds.                   *)
PicksAvoidTheWorstStep ==
  /\ policy = "p2c" /\ pick' \notin {0, pick} /\ Len(list) > 1 =>
       \E j \in DOMAIN list \ {pick'} : seenLoad[pick'] <= seenLoad[j]
  /\ policy = "ewma" /\ pick' \notin {0, pick} =>
       \A j \in DOMAIN list :
         seenLatency[pick'] = 0 /\ seenLatency[j] > 0 /\ j < pick' => seenLoad[j] > seenLoad[pick']

BalancerTypeOK ==
  /\ list \in Lists /\ load \in [Names -> 0 .. MaxLoad]
  /\ counter \in 0 .. 2 ^ CounterWidth - 1
  /\ pick \in 0 .. Len(list)
=============================================================================
