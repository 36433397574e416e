----------------------------- MODULE MCUpstream -----------------------------
(***************************************************************************)
(* What the proxies use to reach a backend: the three connection pools,    *)
(* the resolver, the two-phase send deadline and the balancing policies.   *)
(* They share no state, so a behaviour runs one of them (subject) and      *)
(* leaves the others alone.                                                *)
(***************************************************************************)
EXTENDS UpstreamPools, DnsResolver

CONSTANTS Names, CounterWidth, MaxLoad, Latencies

VARIABLES subject,
          policy, list, load, latency, seenLoad, seenLatency, counter, ids, current, tally, pick

\* Backend lists: a weight of 0, a reordering, a new weight, another length, none.
SampleLists ==
  LET one(n, w) == [id |-> n, weight |-> w] IN
  {<<one("a", 3), one("b", 1)>>, <<one("b", 1), one("a", 3)>>, <<one("a", 0), one("b", 1)>>,
   <<one("a", 2), one("b", 1), one("c", 1)>>, <<one("a", 0)>>}

Balancer == INSTANCE Balancers WITH Lists <- SampleLists

balancing == <<policy, list, load, latency, seenLoad, seenLatency, counter, ids, current, tally,
               pick>>
vars == <<subject, tcpVars, quicVars, h2Vars, dnsVars, sendVars, balancing>>

Init ==
  /\ subject \in {"tcp", "quic", "h2", "dns", "send", "balancer"}
  /\ TcpInit /\ QuicInit /\ H2Init /\ DnsInit /\ SendInit
  /\ IF subject = "balancer" THEN Balancer!BalancerInit
     ELSE /\ policy = "rr" /\ list = << >> /\ load = << >> /\ latency = << >>
          /\ seenLoad = << >> /\ seenLatency = << >> /\ counter = 0 /\ ids = << >>
          /\ current = << >> /\ tally = << >> /\ pick = 0

Others(chosen) ==
  /\ UNCHANGED subject
  /\ chosen # "tcp" => UNCHANGED tcpVars
  /\ chosen # "quic" => UNCHANGED quicVars
  /\ chosen # "h2" => UNCHANGED h2Vars
  /\ chosen # "dns" => UNCHANGED dnsVars
  /\ chosen # "send" => UNCHANGED sendVars
  /\ chosen # "balancer" => UNCHANGED balancing

Next ==
  \/ subject = "tcp" /\ TcpNext /\ Others("tcp")
  \/ subject = "quic" /\ QuicNext /\ Others("quic")
  \/ subject = "h2" /\ H2Next /\ Others("h2")
  \/ subject = "dns" /\ DnsNext /\ Others("dns")
  \/ subject = "send" /\ SendNext /\ Others("send")
  \/ subject = "balancer" /\ Balancer!BalancerNext /\ Others("balancer")

Fairness ==
  /\ \A r \in H2Reqs : WF_h2Vars(subject = "h2" /\ Step(r) /\ Others("h2"))
  /\ \A t \in Tasks : SF_dnsVars(subject = "dns" /\ Work(t) /\ Others("dns"))

Spec == Init /\ [][Next]_vars /\ Fairness

(* Weighted round robin stays centred and proportional through reloads of  *)
(* the list and of its weights (weighted_round_robin.rs).                  *)
WeightsKept ==
  subject = "balancer" =>
    Balancer!BalancerTypeOK /\ Balancer!WeightsCentred /\ Balancer!WeightsHonoured

(* The send deadline (idle_send.rs) judges progress, never bare duration;  *)
(* the load-based policies (p2c.rs, ewma.rs) never pick the worst.         *)
DecisionsHonest ==
  [][/\ subject = "send" => HonestVerdict
     /\ subject = "balancer" => Balancer!PicksAvoidTheWorstStep]_vars

(* Requests over a shared connection and callers of the resolver all end.  *)
UpstreamEnds == RequestsEnd /\ CallsReturn

\* Refuted on this instance.
ZeroWeightUnpicked == Balancer!ZeroWeightUnpicked
=============================================================================
