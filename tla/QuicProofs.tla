----------------------------- MODULE QuicProofs -----------------------------
(***************************************************************************)
(* Proofs about QUIC and HTTP/3 connections: the contract of a relayed     *)
(* direction, the response direction of an HTTP/3 stream, the recycling of *)
(* an HTTP/3 connection, and Retry tokens.                                 *)
(***************************************************************************)
EXTENDS StreamPipe, H3RespEgress, H3Recycle, RetryToken, TLAPS

-----------------------------------------------------------------------------
(***************************************************************************)
(* The contract of a relayed direction says what it is meant to say, so    *)
(* that every component shown to implement StreamPipe inherits it.         *)
(***************************************************************************)

\* The destination never has more than was sent.
PipeInv == PipeTypeOK /\ got <= sent /\ CompleteIsWhole

LEMMA PipeInitInv == PipeInit => PipeInv
  BY DEF PipeInit, PipeInv, PipeTypeOK, CompleteIsWhole

LEMMA PipeStepInv == PipeInv /\ [PipeNext]_pipeVars => PipeInv'
<1> SUFFICES ASSUME PipeInv, [PipeNext]_pipeVars PROVE PipeInv'
  OBVIOUS
<1> USE DEF PipeInv, PipeTypeOK, CompleteIsWhole
<1>1. CASE Produce
  BY <1>1 DEF Produce
<1>2. CASE FinishSource
  BY <1>2 DEF FinishSource
<1>3. CASE Deliver
  BY <1>3 DEF Deliver
<1>4. CASE Complete
  BY <1>4 DEF Complete
<1>5. CASE Abort
  BY <1>5 DEF Abort
<1>6. CASE UNCHANGED pipeVars
  BY <1>6 DEF pipeVars
<1> QED
  BY <1>1, <1>2, <1>3, <1>4, <1>5, <1>6 DEF PipeNext

\* A direction that follows the contract is complete at the destination only
\* if the source completed it and every piece arrived: no abort of the source
\* (RESET, a lost connection, a dead task) is ever shown as a clean end.
THEOREM PipeComplete == PipeSpec => []CompleteIsWhole
<1>1. PipeInv => CompleteIsWhole
  BY DEF PipeInv
<1> QED
  BY PipeInitInv, PipeStepInv, <1>1, PTL DEF PipeSpec

\* Once the destination has been told complete or aborted, nothing more is
\* handed over and the verdict never changes.
THEOREM PipeVerdictFinal ==
  PipeSpec => [][dstEnd # "open" => dstEnd' = dstEnd /\ got' = got]_pipeVars
<1>1. [PipeNext]_pipeVars => [dstEnd # "open" => dstEnd' = dstEnd /\ got' = got]_pipeVars
  BY DEF PipeNext, Produce, FinishSource, Deliver, Complete, Abort, pipeVars
<1> QED
  BY <1>1, PTL DEF PipeSpec

-----------------------------------------------------------------------------
(***************************************************************************)
(* The response of an HTTP/3 stream, for every channel depth and body cap: *)
(* a client that sees the end of a response has all of it.                 *)
(***************************************************************************)

RespData ==
  /\ bSent \in Nat /\ read \in Nat /\ cGot \in Nat /\ chBody \in Nat /\ read <= bSent
  /\ chHead \in {0, 1} /\ chTrail \in {0, 1} /\ chTerm \in {"none", "End", "Reset"}
  /\ item \in {"none", "head", "body", "trail"}
  /\ prod \in {"head", "body", "trail", "done"}
  /\ bEnd \in {"open", "fin", "reset", "short"}
  /\ cEnd \in {"open", "fin", "reset", "gone"}

\* The producer has read the whole of a response that ended within the cap.
AllRead == read = bSent /\ read <= Cap /\ (bTrail \/ bEnd = "fin")

\* Trailers and End are vouched for, wherever they are on their way.
Vouched ==
  /\ (prod = "trail" \/ chTrail = 1 \/ item = "trail" \/ chTerm = "End" \/ ended) => AllRead
  /\ (chTrail = 1 \/ item = "trail") => prod \in {"trail", "done"}
  /\ (chTerm # "none" \/ ended) => prod = "done"
  /\ prod = "head" => read = 0
  /\ prod = "body" => read <= Cap

inHand == IF item = "body" THEN 1 ELSE 0

\* What the producer read is with the client, in hand or in the channel; only
\* the chunk that broke the cap is not, and a Reset follows it.
Shipped ==
  tx => \/ cGot + inHand + chBody = read
        \/ /\ cGot + inHand + chBody + 1 = read /\ prod = "done"
           /\ chTrail = 0 /\ item # "trail" /\ chTerm # "End" /\ ~ended

\* The events are taken in order: head, body, trailers, end.
Ordered ==
  /\ tx => rx
  /\ tx /\ ended => item = "none" /\ chBody = 0
  /\ tx /\ item = "trail" => chBody = 0
  /\ tx => \/ cHead \/ (item \in {"none", "head"} /\ cGot = 0 /\ ~ended)
  /\ tx => \/ cHead \/ item = "head" \/ chHead = 1
           \/ chBody = 0 /\ chTrail = 0 /\ chTerm # "End" /\ prod \in {"head", "done"}

\* What the client was told.
ToldClient ==
  /\ cGot > 0 => cHead
  /\ tx /\ ~stop => cEnd = "open"
  /\ stop => cEnd # "open"
  /\ cEnd = "fin" => AllRead /\ ~tx /\ cHead /\ cGot = bSent

RespInv == RespData /\ Vouched /\ Shipped /\ Ordered /\ ToldClient

LEMMA RespInitInv ==
  ASSUME Cap \in Nat PROVE Init => RespInv
  BY SMT DEF Init, RespInv, RespData, Vouched, Shipped, Ordered, ToldClient, AllRead, inHand

\* Every step of the backend, the producer, the actor and the client keeps it.
LEMMA RespStepInv ==
  ASSUME Cap \in Nat, Depth \in Nat, RespInv, [Next]_vars
  PROVE  RespInv'
<1> USE DEF RespInv, RespData, Vouched, Shipped, Ordered, ToldClient, AllRead, inHand,
            backend, channel, egress, client, DropReceiver
<1>1. CASE BackendData
  BY <1>1, SMT DEF BackendData
<1>2. CASE BackendTrailers
  BY <1>2, SMT DEF BackendTrailers
<1>3. CASE BackendEnds
  BY <1>3, SMT DEF BackendEnds
<1>4. CASE ProdHead
  BY <1>4, SMT DEF ProdHead
<1>5. CASE ProdBody
  BY <1>5, SMT DEF ProdBody
<1>6. CASE ProdTrailers
  BY <1>6, SMT DEF ProdTrailers
<1>7. CASE ProdEnd
  BY <1>7, SMT DEF ProdEnd
<1>8. CASE ProdAbort
  BY <1>8, SMT DEF ProdAbort
<1>9. CASE ProdClientGone \/ ProdDies
  BY <1>9, SMT DEF ProdClientGone, ProdDies
<1>10. CASE Reap
  BY <1>10, SMT DEF Reap
<1>11. CASE Pull
  <2>1. UNCHANGED <<bSent, bTrail, bEnd, prod, read, cHead, cGot, cEnd, stop>>
    BY <1>11, Zenon DEF Pull
  <2>2. ASSUME ~tx, DropReceiver, UNCHANGED <<tx, item, ended>> PROVE RespInv'
    <3>1. ~tx'
      BY <2>2
    <3> QED BY <2>1, <2>2, <3>1, SMT
  <2>3. ASSUME tx, rx, ~ended, item = "none", chHead > 0, item' = "head", chHead' = 0,
               UNCHANGED <<chBody, chTrail, chTerm, ended, rx, tx>>
        PROVE  RespInv'
    BY <2>1, <2>3, SMT
  <2>4. ASSUME tx, rx, ~ended, item = "none", chHead = 0, chBody > 0, item' = "body",
               chBody' = chBody - 1, UNCHANGED <<chHead, chTrail, chTerm, ended, rx, tx>>
        PROVE  RespInv'
    BY <2>1, <2>4, SMT
  <2>5. ASSUME tx, rx, ~ended, item = "none", chHead + chBody = 0, chTrail > 0, item' = "trail",
               chTrail' = 0, UNCHANGED <<chHead, chBody, chTerm, ended, rx, tx>>
        PROVE  RespInv'
    BY <2>1, <2>5, SMT
  <2>6. ASSUME tx, rx, ~ended, item = "none", chHead + chBody + chTrail = 0, chTerm # "none",
               ended' = (chTerm = "End"), chTerm' = "none",
               UNCHANGED <<chHead, chBody, chTrail, item, rx, tx>>
        PROVE  RespInv'
    <3>1. ended' <=> chTerm = "End"
      BY <2>6, Zenon
    <3>2. tx' /\ rx'
      BY <2>6
    <3>3. chHead = 0 /\ chBody = 0 /\ chTrail = 0
      BY <2>6, SMT
    <3> QED BY <2>1, <2>6, <3>1, <3>2, <3>3, SMT
  <2>7. ASSUME UNCHANGED <<channel, item, ended, rx, tx>> PROVE RespInv'
    BY <2>1, <2>7, SMT
  <2> QED BY <1>11, <2>2, <2>3, <2>4, <2>5, <2>6, <2>7, Zenon DEF Pull
<1>12. CASE ShipItem
  <2>1. UNCHANGED <<bSent, bTrail, bEnd, prod, read, chHead, chBody, chTrail, chTerm, rx, tx, ended,
                    cEnd, stop>>
    BY <1>12, Zenon DEF ShipItem
  <2>2. tx /\ item' = "none" /\ cHead' = (cHead \/ item = "head")
    BY <1>12, Zenon DEF ShipItem
  <2>3. CASE item = "head"
    <3>1. cHead' /\ cGot' = cGot
      BY <1>12, <2>2, <2>3, Zenon DEF ShipItem
    <3> QED BY <2>1, <2>2, <2>3, <3>1, SMT
  <2>4. CASE item = "body"
    <3>1. cHead' /\ cHead
      BY <2>2, <2>4, Zenon
    <3>2. cGot' = cGot + 1
      BY <1>12, <2>4 DEF ShipItem
    <3> QED BY <2>1, <2>2, <2>4, <3>1, <3>2, SMT
  <2> QED BY <1>12, <2>3, <2>4, Zenon DEF ShipItem
<1>13. CASE ShipTrailers
  BY <1>13, SMT DEF ShipTrailers
<1>14. CASE ShipReset \/ ShipStopped
  BY <1>14, SMT DEF ShipReset, ShipStopped
<1>15. CASE ShipFin
  BY <1>15, SMT DEF ShipFin
<1>16. CASE ActorEnds
  BY <1>16, SMT DEF ActorEnds
<1>17. CASE WindowOpens \/ ClientStops
  BY <1>17, SMT DEF WindowOpens, ClientStops
<1>18. CASE UNCHANGED vars
  BY <1>18, SMT DEF vars
<1> QED
  BY <1>1, <1>2, <1>3, <1>4, <1>5, <1>6, <1>7, <1>8, <1>9, <1>10, <1>11, <1>12, <1>13, <1>14,
     <1>15, <1>16, <1>17, <1>18, Zenon DEF Next, Backend, Producer, Actor

\* A client that sees the end of a response has its head and every chunk the
\* upstream sent, within the cap, whatever the depth of the event channel and
\* however producer, actor and client interleave (drain_resp_channels,
\* drain_streams_to_conn).
THEOREM ResponseIsWhole ==
  ASSUME Cap \in Nat, Depth \in Nat PROVE Spec => []FinHasAllData
<1>1. RespInv => FinHasAllData
  BY DEF RespInv, ToldClient, AllRead, FinHasAllData
<1>2. Init => RespInv
  BY RespInitInv
<1>3. RespInv /\ [Next]_vars => RespInv'
  BY RespStepInv
<1> QED BY <1>1, <1>2, <1>3, PTL DEF Spec

\* Each step of the response is a step of the pipe or leaves it alone.
LEMMA ResponseStep ==
  ASSUME Cap \in Nat, Depth \in Nat, RespInv, [Next]_vars
  PROVE  [Pipe!PipeNext]_(Pipe!pipeVars)
<1> USE DEF RespInv, RespData, Vouched, Shipped, Ordered, ToldClient, AllRead, inHand,
            backend, channel, egress, client, DropReceiver
<1>1. ASSUME UNCHANGED <<bSent, bTrail, bEnd, cGot, cEnd>> PROVE UNCHANGED Pipe!pipeVars
  BY <1>1, Zenon DEF Pipe!pipeVars
<1>2. CASE BackendData
  BY <1>2, SMT DEF BackendData, Pipe!PipeNext, Pipe!Produce
<1>3. CASE BackendTrailers
  BY <1>3, SMT DEF BackendTrailers, Pipe!PipeNext, Pipe!FinishSource
<1>4. CASE BackendEnds
  BY <1>4, SMT DEF BackendEnds, Pipe!PipeNext, Pipe!FinishSource, Pipe!pipeVars
<1>5. CASE ShipItem
  <2>1. CASE item = "head"
    BY <1>1, <1>5, <2>1, Zenon DEF ShipItem
  <2>2. CASE item = "body"
    BY <1>5, <2>2, SMT DEF ShipItem, Pipe!PipeNext, Pipe!Deliver
  <2> QED BY <1>5, <2>1, <2>2, Zenon DEF ShipItem
<1>6. ASSUME UNCHANGED <<bSent, bTrail, bEnd, cGot>>, cEnd = "open", cEnd' \in {"reset", "gone"}
      PROVE  Pipe!PipeNext
  BY <1>6, SMT DEF Pipe!PipeNext, Pipe!Abort
<1>7. ASSUME UNCHANGED <<bSent, bTrail, bEnd, cGot>>, cEnd = "open", cEnd' = "fin",
             cGot = bSent, bTrail \/ bEnd = "fin"
      PROVE  Pipe!PipeNext
  BY <1>7, SMT DEF Pipe!PipeNext, Pipe!Complete
<1>8. CASE ShipTrailers
  BY <1>7, <1>8, SMT DEF ShipTrailers
<1>9. CASE ShipReset
  BY <1>6, <1>9, SMT DEF ShipReset
<1>10. CASE ShipFin
  BY <1>1, <1>7, <1>10, SMT DEF ShipFin
<1>11. CASE ActorEnds \/ ClientStops
  BY <1>1, <1>6, <1>11, SMT DEF ActorEnds, ClientStops
<1>12. CASE Producer \/ ProdDies \/ Reap \/ Pull \/ ShipStopped \/ WindowOpens \/ UNCHANGED vars
  BY <1>1, <1>12, Zenon DEF Producer, ProdHead, ProdBody, ProdTrailers, ProdEnd, ProdAbort,
     ProdClientGone, ProdDies, Reap, Pull, ShipStopped, WindowOpens, vars
<1> QED
  BY <1>2, <1>3, <1>4, <1>5, <1>8, <1>9, <1>10, <1>11, <1>12, Zenon DEF Next, Backend, Actor

\* The client sees a prefix of the upstream response, and the end of it only
\* when the upstream ended it cleanly and all of it arrived: every behaviour of
\* the response direction is one of StreamPipe.
THEOREM ResponseIsPipe ==
  ASSUME Cap \in Nat, Depth \in Nat PROVE Spec => ImplementsPipe
<1>1. Init => Pipe!PipeInit
  BY SMT DEF Init, Pipe!PipeInit
<1>2. Init => RespInv
  BY RespInitInv
<1>3. RespInv /\ [Next]_vars => RespInv'
  BY RespStepInv
<1>4. RespInv /\ [Next]_vars => [Pipe!PipeNext]_(Pipe!pipeVars)
  BY ResponseStep
<1> QED BY <1>1, <1>2, <1>3, <1>4, PTL DEF Spec, ImplementsPipe, Pipe!PipeSpec

-----------------------------------------------------------------------------
(***************************************************************************)
(* Recycling an HTTP/3 connection, for any number of streams and any cap.  *)
(*                                                                         *)
(* That a recycled connection has answered what it admitted is not         *)
(* inductive: it says nothing before the recycling.  The invariant that    *)
(* carries it says where an admitted request is at every moment: answered, *)
(* or in one of the maps whose emptiness the recycling waits for.          *)
(***************************************************************************)

Somewhere == admitted \subseteq answered \cup resp \cup ws

RecycleInv == RecycleTypeOK /\ Somewhere /\ RecycleLosesNothing

(* A new connection has the types, with its control stream open or not.    *)
LEMMA RecycleInitTypes == RecycleInit => RecycleTypeOK
<1> SUFFICES ASSUME RecycleInit PROVE RecycleTypeOK
  OBVIOUS
<1>1. pending \in BOOLEAN /\ goawaySent \in BOOLEAN /\ ctrl \in BOOLEAN /\ life \in {"up", "recycled"}
  BY Zenon DEF RecycleInit
<1>2. /\ unseen \subseteq Streams /\ overCap \subseteq Streams
      /\ bodies \subseteq Streams /\ resp \subseteq Streams /\ ws \subseteq Streams
      /\ admitted \subseteq Streams /\ rejected \subseteq Streams /\ answered \subseteq Streams
  BY Zenon DEF RecycleInit
<1>3. lands \in [Streams -> Nat] /\ served \in Nat /\ lastId \in Nat /\ announced \in Nat
  BY SMT DEF RecycleInit
<1> QED BY <1>1, <1>2, <1>3 DEF RecycleTypeOK

(* Every step keeps the types, whatever the order in which the HEADERS of  *)
(* the streams complete (poll_h3).                                         *)
LEMMA RecycleTypes ==
  ASSUME Streams \subseteq Nat, RecycleTypeOK, [RecycleNext]_recycleVars
  PROVE  RecycleTypeOK'
<1>1. ASSUME NEW s \in Streams, Count(s), rejected' \subseteq Streams
      PROVE  /\ admitted' \subseteq Streams /\ lands' \in [Streams -> Nat]
             /\ served' \in Nat /\ lastId' \in Nat /\ announced' \in Nat
             /\ pending' \in BOOLEAN /\ goawaySent' \in BOOLEAN
  BY <1>1 DEF Count, RecycleTypeOK
<1>2. ASSUME NEW s \in Streams, Reject(s) PROVE RecycleTypeOK'
  BY <1>2 DEF Reject, RecycleTypeOK, maps, goaway
<1>3. ASSUME NEW s \in Streams, Headers(s) PROVE RecycleTypeOK'
  <2>1. rejected' \subseteq Streams
    BY <1>3 DEF Headers, RecycleTypeOK
  <2>2. /\ unseen' \subseteq Streams /\ overCap' \subseteq Streams
        /\ bodies' \subseteq Streams /\ resp' \subseteq Streams /\ ws' \subseteq Streams
        /\ answered' \subseteq Streams /\ ctrl' \in BOOLEAN /\ life' \in {"up", "recycled"}
    BY <1>3, Zenon DEF Headers, RecycleTypeOK, maps
  <2> QED BY <1>1, <1>3, <2>1, <2>2 DEF Headers, RecycleTypeOK
<1>4. ASSUME NEW s \in Streams, BodyOverCap(s) PROVE RecycleTypeOK'
  BY <1>4 DEF BodyOverCap, RecycleTypeOK, goaway
<1>5. ASSUME NEW s \in Streams, BodyEnds(s) PROVE RecycleTypeOK'
  BY <1>5 DEF BodyEnds, RecycleTypeOK, goaway
<1>6. ASSUME NEW s \in Streams, TrailersAfterOverCap(s) PROVE RecycleTypeOK'
  <2>1. /\ unseen' \subseteq Streams /\ overCap' \subseteq Streams
        /\ bodies' \subseteq Streams /\ resp' \subseteq Streams /\ ws' \subseteq Streams
        /\ answered' \subseteq Streams /\ ctrl' \in BOOLEAN /\ life' \in {"up", "recycled"}
        /\ rejected' \subseteq Streams
    BY <1>6, Zenon DEF TrailersAfterOverCap, RecycleTypeOK, maps
  <2>2. CASE Rejects(s)
    BY <1>6, <2>1, <2>2, Zenon DEF TrailersAfterOverCap, RecycleTypeOK, goaway
  <2>3. CASE ~Rejects(s)
    <3>1. Count(s)
      BY <1>6, <2>3 DEF TrailersAfterOverCap
    <3> QED BY <1>1, <2>1, <3>1 DEF RecycleTypeOK
  <2> QED BY <2>2, <2>3
<1>7. ASSUME NEW s \in Streams, ResponseEnds(s) PROVE RecycleTypeOK'
  BY <1>7 DEF ResponseEnds, RecycleTypeOK, goaway
<1>8. CASE RetryGoaway
  BY <1>8 DEF RetryGoaway, RecycleTypeOK, maps
<1>9. CASE CtrlOpens
  BY <1>9 DEF CtrlOpens, RecycleTypeOK, maps, goaway
<1>10. CASE Recycle
  BY <1>10 DEF Recycle, RecycleTypeOK, maps, goaway
<1>11. CASE UNCHANGED recycleVars
  BY <1>11 DEF recycleVars, RecycleTypeOK, maps, goaway
<1> QED BY <1>2, <1>3, <1>4, <1>5, <1>6, <1>7, <1>8, <1>9, <1>10, <1>11 DEF RecycleNext

(* An admitted request stays answered or in a map: each arm of the HEADERS *)
(* handler answers it or files it, and it leaves the maps only answered.   *)
LEMMA SomewhereKept ==
  ASSUME RecycleInv, [RecycleNext]_recycleVars
  PROVE  Somewhere' /\ RecycleLosesNothing'
<1> USE DEF RecycleInv, Somewhere, RecycleLosesNothing
<1>1. ASSUME NEW s \in Streams, Reject(s) PROVE Somewhere' /\ RecycleLosesNothing'
  BY <1>1 DEF Reject, maps
<1>2. ASSUME NEW s \in Streams, Headers(s) PROVE Somewhere' /\ RecycleLosesNothing'
  <2>1. admitted' = admitted \cup {s} /\ life' = "up"
    BY <1>2 DEF Headers, Count
  <2> QED BY <1>2, <2>1 DEF Headers, maps
<1>3. ASSUME NEW s \in Streams, BodyOverCap(s) PROVE Somewhere' /\ RecycleLosesNothing'
  BY <1>3 DEF BodyOverCap
<1>4. ASSUME NEW s \in Streams, BodyEnds(s) PROVE Somewhere' /\ RecycleLosesNothing'
  BY <1>4 DEF BodyEnds
<1>5. ASSUME NEW s \in Streams, TrailersAfterOverCap(s) PROVE Somewhere' /\ RecycleLosesNothing'
  <2>1. admitted' \subseteq admitted \cup {s} /\ answered' = answered \cup {s} /\ life' = "up"
    BY <1>5 DEF TrailersAfterOverCap, Count
  <2> QED BY <1>5, <2>1 DEF TrailersAfterOverCap, maps
<1>6. ASSUME NEW s \in Streams, ResponseEnds(s) PROVE Somewhere' /\ RecycleLosesNothing'
  BY <1>6 DEF ResponseEnds
<1>7. CASE RetryGoaway
  BY <1>7 DEF RetryGoaway, maps
<1>8. CASE CtrlOpens
  BY <1>8 DEF CtrlOpens, maps
<1>9. CASE Recycle
  BY <1>9 DEF Recycle, Idle, maps
<1>10. CASE UNCHANGED recycleVars
  BY <1>10 DEF recycleVars, maps
<1> QED BY <1>1, <1>2, <1>3, <1>4, <1>5, <1>6, <1>7, <1>8, <1>9, <1>10 DEF RecycleNext

(* Recycling loses nothing: on a connection that was closed for having     *)
(* reached its request cap, every admitted request was answered and no     *)
(* upload was still running, for any cap and any number of streams         *)
(* (run_actor, the drain-then-recycle arm).                                *)
THEOREM RecyclingIsLossless == RecycleSpec => []RecycleLosesNothing
<1> USE StreamsAssumption
<1>1. RecycleInit => RecycleInv
  BY RecycleInitTypes DEF RecycleInit, RecycleInv, Somewhere, RecycleLosesNothing
<1>2. RecycleInv /\ [RecycleNext]_recycleVars => RecycleInv'
  BY RecycleTypes, SomewhereKept DEF RecycleInv
<1>3. RecycleInv => RecycleLosesNothing
  BY DEF RecycleInv
<1> QED BY <1>1, <1>2, <1>3, PTL DEF RecycleSpec

(* Once the cap is reached, whether or not the GOAWAY could be written, no *)
(* stream above the last one processed is admitted (poll_h3).              *)
THEOREM CapStopsAdmission == RecycleSpec => AdmissionStops
<1> USE StreamsAssumption
<1>1. RecycleInit => RecycleTypeOK
  BY RecycleInitTypes
<1>2. RecycleTypeOK /\ [RecycleNext]_recycleVars => RecycleTypeOK'
  BY RecycleTypes
<1>3. RecycleTypeOK /\ [RecycleNext]_recycleVars => [\A s \in admitted' \ admitted : pending => s <= lastId]_recycleVars
  <2> SUFFICES ASSUME RecycleTypeOK, RecycleNext, NEW s \in admitted' \ admitted, pending
               PROVE  s <= lastId
    OBVIOUS
  <2>1. \E r \in Streams : admitted' \subseteq admitted \cup {r} /\ ~Rejects(r)
    BY Zenon DEF RecycleNext, Reject, Headers, BodyOverCap, BodyEnds, TrailersAfterOverCap, Count,
           ResponseEnds, RetryGoaway, CtrlOpens, Recycle
  <2> QED BY <2>1 DEF Rejects, RecycleTypeOK
<1> QED BY <1>1, <1>2, <1>3, PTL DEF RecycleSpec, AdmissionStops

-----------------------------------------------------------------------------
(***************************************************************************)
(* Retry tokens, for any number of boots, tokens and peers.                *)
(*                                                                         *)
(* verify knows a token's age only by the time it carries, which counts    *)
(* from the construction of the signer that minted it.  The invariant ties *)
(* that count to real time: a token of the running boot was minted at      *)
(* origin + issued.  No boot is ever counted twice, and while a secret is  *)
(* being created the boot has no tokens yet; without these two facts a new *)
(* origin could re-date an old token.                                      *)
(***************************************************************************)

Records == [secret : Nat, peer : Peers, odcid : Odcids, issued : Nat, at : Nat, boot : Nat]
Verdicts == [token : Records, peer : Peers, at : Nat, boot : Nat]

TokenTypes ==
  /\ clock \in 0 .. Horizon /\ origin \in 0 .. clock /\ boots \in 0 .. MaxBoots
  /\ file.state \in {"absent", "partial", "whole"}
  /\ file.state = "whole" => file.secret \in 0 .. MaxBoots + 1
  /\ daemon \in {"down", "created", "up"} /\ signer \in 0 .. MaxBoots + 1
  /\ minted \subseteq Records /\ accepted \subseteq Verdicts

Dated ==
  \A t \in minted :
    /\ t.issued <= Horizon /\ t.boot <= boots
    /\ daemon = "created" => t.boot < boots
    /\ t.boot = boots => t.at = origin + t.issued

TokenInv == TokenTypes /\ Dated /\ TokensBound /\ SecretKept

(* The first boot begins with no token and no signer.                      *)
LEMMA TokenInitInv ==
  ASSUME Horizon \in Nat, MaxBoots \in Nat, TokenInit
  PROVE  TokenInv
<1>1. file.state \in {"absent", "partial", "whole"} /\ daemon \in {"down", "created", "up"}
  BY DEF TokenInit
<1>2. file.state = "whole" => file.secret \in 0 .. MaxBoots + 1
  BY DEF TokenInit
<1> QED BY <1>1, <1>2 DEF TokenInit, TokenInv, TokenTypes, Dated, TokensBound, SecretKept

(* A step keeps the types.                                                 *)
LEMMA TokenTypesKept ==
  ASSUME Horizon \in Nat, MaxBoots \in Nat, TokenInv, TokenNext
  PROVE  TokenTypes'
<1> USE DEF TokenInv
<1>1. CASE LoadSecret
  BY <1>1 DEF LoadSecret, Loadable, Start, TokenTypes
<1>2. CASE CreateSecret
  BY <1>2 DEF CreateSecret, TokenTypes
<1>3. CASE WriteSecret
  BY <1>3 DEF WriteSecret, Start, TokenTypes
<1>4. CASE Crash
  BY <1>4 DEF Crash, TokenTypes
<1>5. CASE RemoveFile
  BY <1>5 DEF RemoveFile, TokenTypes
<1>6. CASE Tick
  BY <1>6 DEF Tick, TokenTypes
<1>7. ASSUME NEW p \in Peers, NEW o \in Odcids, MintAt(p, o) PROVE TokenTypes'
  <2>1. [secret |-> signer, peer |-> p, odcid |-> o, issued |-> clock - origin, at |-> clock,
         boot |-> boots] \in Records
    BY DEF TokenTypes, Records
  <2> QED BY <1>7, <2>1 DEF MintAt, TokenTypes
<1>8. ASSUME NEW t \in minted, NEW p \in Peers, Verify(t, p) PROVE TokenTypes'
  <2>1. [token |-> t, peer |-> p, at |-> clock, boot |-> boots] \in Verdicts
    BY DEF TokenTypes, Verdicts
  <2> QED BY <1>8, <2>1 DEF Verify, TokenTypes
<1> QED BY <1>1, <1>2, <1>3, <1>4, <1>5, <1>6, <1>7, <1>8 DEF TokenNext

(* A step keeps every token of the running boot dated from its origin.     *)
LEMMA DatedKept ==
  ASSUME Horizon \in Nat, MaxBoots \in Nat, TokenInv, TokenNext
  PROVE  Dated'
<1> USE DEF TokenInv
<1>1. CASE LoadSecret
  BY <1>1 DEF LoadSecret, Start, Dated, TokenTypes, Records
<1>2. CASE CreateSecret
  BY <1>2 DEF CreateSecret, Dated, TokenTypes, Records
<1>3. CASE WriteSecret
  BY <1>3 DEF WriteSecret, Start, Dated, TokenTypes, Records
<1>4. CASE Crash
  BY <1>4 DEF Crash, Dated, TokenTypes, Records
<1>5. CASE RemoveFile \/ Tick
  BY <1>5 DEF RemoveFile, Tick, Dated
<1>6. ASSUME NEW p \in Peers, NEW o \in Odcids, MintAt(p, o) PROVE Dated'
  <2> DEFINE new == [secret |-> signer, peer |-> p, odcid |-> o, issued |-> clock - origin,
                     at |-> clock, boot |-> boots]
  <2>1. /\ new.issued <= Horizon /\ new.boot <= boots /\ daemon # "created"
        /\ new.at = origin + new.issued
    BY <1>6 DEF MintAt, TokenTypes
  <2> HIDE DEF new
  <2>2. minted' = minted \cup {new} /\ UNCHANGED <<daemon, boots, origin>>
    BY <1>6 DEF MintAt, new
  <2> QED BY <2>1, <2>2 DEF Dated
<1>7. ASSUME NEW t \in minted, NEW p \in Peers, Verify(t, p) PROVE Dated'
  BY <1>7 DEF Verify, Dated
<1> QED BY <1>1, <1>2, <1>3, <1>4, <1>5, <1>6, <1>7 DEF TokenNext

(* Only verify admits, and it admits what is bound to its presenter and,   *)
(* if this boot minted it, young enough.                                   *)
LEMMA BoundKept ==
  ASSUME Horizon \in Nat, MaxBoots \in Nat, MaxAge \in Nat, TokenInv, TokenNext
  PROVE  TokensBound'
<1> USE DEF TokenInv
<1>1. CASE UNCHANGED accepted
  BY <1>1 DEF TokensBound
<1>2. ASSUME NEW t \in minted, NEW p \in Peers, Verify(t, p) PROVE TokensBound'
  <2> DEFINE x == [token |-> t, peer |-> p, at |-> clock, boot |-> boots]
  <2>1. CASE ~Accepts(t, p)
    BY <1>2, <2>1 DEF Verify, TokensBound
  <2>2. CASE Accepts(t, p)
    <3>1. x.token.peer = x.peer
      BY <2>2 DEF Accepts
    <3>2. x.token.boot = x.boot => x.at - x.token.at <= MaxAge
      BY <2>2 DEF Accepts, Age, Dated, TokenTypes, Records
    <3> HIDE DEF x
    <3>3. accepted' = accepted \cup {x}
      BY <1>2, <2>2 DEF Verify, x
    <3> QED BY <3>1, <3>2, <3>3 DEF TokensBound
  <2> QED BY <2>1, <2>2
<1>3. CASE LoadSecret \/ CreateSecret \/ WriteSecret \/ Crash \/ RemoveFile \/ Tick
  BY <1>1, <1>3, Zenon DEF LoadSecret, CreateSecret, WriteSecret, Crash, RemoveFile, Tick
<1>4. CASE \E p \in Peers, o \in Odcids : MintAt(p, o)
  BY <1>1, <1>4, Zenon DEF MintAt
<1> QED BY <1>2, <1>3, <1>4, Zenon DEF TokenNext

(* A signer is built only from a secret that is whole in the file, and the *)
(* file of a running process is left alone.                                *)
LEMMA SecretKeptKept ==
  ASSUME TokenInv, TokenNext
  PROVE  SecretKept'
<1> USE DEF TokenInv, SecretKept
<1>1. CASE LoadSecret \/ CreateSecret \/ WriteSecret
  BY <1>1 DEF LoadSecret, Loadable, Start, CreateSecret, WriteSecret
<1>2. CASE Crash \/ RemoveFile \/ Tick
  BY <1>2 DEF Crash, RemoveFile, Tick
<1>3. CASE \/ \E p \in Peers, o \in Odcids : MintAt(p, o)
          \/ \E t \in minted, p \in Peers : Verify(t, p)
  BY <1>3, Zenon DEF MintAt, Verify
<1> QED BY <1>1, <1>2, <1>3 DEF TokenNext

(* However boots, crashes and packets interleave: a Retry token is         *)
(* accepted only from its peer and, by the process that minted it, only    *)
(* within max_age; and no process signs with a secret that the next boot   *)
(* would not load (verify, load_or_generate_retry_secret).                 *)
THEOREM TokensAreBound == TokenSpec => []TokensSound
<1> USE TimeAssumption
<1>1. TokenInit => TokenInv
  BY TokenInitInv
<1>2. TokenInv /\ [TokenNext]_tokenVars => TokenInv'
  <2> SUFFICES ASSUME TokenInv, [TokenNext]_tokenVars PROVE TokenInv'
    OBVIOUS
  <2>1. CASE TokenNext
    BY <2>1, TokenTypesKept, DatedKept, BoundKept, SecretKeptKept DEF TokenInv
  <2>2. CASE UNCHANGED tokenVars
    BY <2>2 DEF tokenVars, TokenInv, TokenTypes, Dated, TokensBound, SecretKept
  <2> QED BY <2>1, <2>2
<1>3. TokenInv => TokensSound
  BY DEF TokenInv, TokensSound, TokenTypeOK, TokenTypes, Dated, Records
<1> QED BY <1>1, <1>2, <1>3, PTL DEF TokenSpec
=============================================================================
