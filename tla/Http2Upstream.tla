--------------------------- MODULE Http2Upstream ----------------------------
(* Sending a request to an HTTP/2 backend: the pool of shared connections *)
(* and the two-phase send deadline.                                      *)
EXTENDS Integers, FiniteSets

-----------------------------------------------------------------------------
(***************************************************************************)
(* The upstream HTTP/2 pool of lb-io (http2_pool.rs): one multiplexed      *)
(* connection per peer in a locked table.  A connection's driver task      *)
(* belongs to the table entry; dropping the entry aborts the driver, which *)
(* closes the connection under every request still on it.                  *)
(***************************************************************************)

CONSTANTS Peers, H2Conns, H2Reqs

ASSUME H2ConnsAssumption == "none" \notin H2Conns

VARIABLES
  h2Entry,  \* peers: each peer's cached connection, or "none"
  h2Up,     \* the connections whose driver runs
  h2Req     \* each request's place, peer and connection

h2Vars == <<h2Entry, h2Up, h2Req>>

New == [at |-> "new", peer |-> "none", conn |-> "none"]

H2Init ==
  /\ h2Entry = [p \in Peers |-> "none"]
  /\ h2Up = {}
  /\ h2Req = [r \in H2Reqs |-> New]

Finish(r, how) == h2Req' = [h2Req EXCEPT ![r].at = how]

\* take_alive_sender, under the lock: a live connection is cloned, a dead
\* one removed, and the caller of a miss goes on to dial.
AcquireSender(r) ==
  /\ h2Req[r].at = "new"
  /\ \E p \in Peers :
       \/ /\ h2Entry[p] \in h2Up
          /\ h2Req' = [h2Req EXCEPT ![r] = [at |-> "sent", peer |-> p, conn |-> h2Entry[p]]]
          /\ UNCHANGED h2Entry
       \/ /\ h2Entry[p] \notin h2Up
          /\ h2Entry' = [h2Entry EXCEPT ![p] = "none"]
          /\ h2Req' = [h2Req EXCEPT ![r] = [at |-> "dial", peer |-> p, conn |-> "none"]]
  /\ UNCHANGED h2Up

\* The lock is not held while a connection is dialled and shakes hands.
DialAndHandshake(r) ==
  /\ h2Req[r].at = "dial"
  /\ \/ Finish(r, "failed") /\ UNCHANGED h2Up
     \/ \E c \in H2Conns \ (h2Up \cup {h2Req[q].conn : q \in H2Reqs} \cup {h2Entry[p] : p \in Peers}) :
          /\ h2Req' = [h2Req EXCEPT ![r].at = "dialled", ![r].conn = c]
          /\ h2Up' = h2Up \cup {c}
  /\ UNCHANGED h2Entry

\* Mutation: an entry that is replaced keeps its driver.
BadReplaceEntry(r) ==
  LET p == h2Req[r].peer IN
  /\ h2Req[r].at = "dialled"
  /\ h2Entry' = [h2Entry EXCEPT ![p] = h2Req[r].conn]
  /\ Finish(r, "sent")
  /\ UNCHANGED h2Up

\* The entry that another caller put there meanwhile is dropped, and with
\* it that caller's connection.
ReplaceEntry(r) ==
  LET p == h2Req[r].peer IN
  /\ h2Req[r].at = "dialled"
  /\ h2Entry' = [h2Entry EXCEPT ![p] = h2Req[r].conn]
  /\ h2Up' = h2Up \ {h2Entry[p]}
  /\ Finish(r, "sent")

\* evict and reset_peer remove by address, whatever is cached there now.
Evict(p) ==
  /\ h2Entry' = [h2Entry EXCEPT ![p] = "none"]
  /\ h2Up' = h2Up \ {h2Entry[p]}

\* Mutation: only a live connection ends the wait.
BadSendRequest(r) ==
  /\ h2Req[r].at = "sent"
  /\ h2Req[r].conn \in h2Up
  /\ Finish(r, "answered")
  /\ UNCHANGED <<h2Entry, h2Up>>

\* send_request and send_request_idle: an answer needs a live connection;
\* an error or a timeout evicts.
SendRequest(r) ==
  /\ h2Req[r].at = "sent"
  /\ \/ /\ h2Req[r].conn \in h2Up
        /\ Finish(r, "answered")
        /\ UNCHANGED <<h2Entry, h2Up>>
     \/ Finish(r, "failed") /\ Evict(h2Req[r].peer)

\* The caller is cancelled while it waits: nothing is evicted.
CancelRequest(r) ==
  /\ h2Req[r].at \in {"dial", "sent"}
  /\ Finish(r, "cancelled")
  /\ UNCHANGED <<h2Entry, h2Up>>

\* The request's pump found its body cut short.
ResetPeer(r) ==
  /\ h2Req[r].at = "sent"
  /\ Evict(h2Req[r].peer)
  /\ Finish(r, "reset")

\* The peer or the network ends a connection.
PeerCloses(c) ==
  /\ c \in h2Up
  /\ h2Up' = h2Up \ {c}
  /\ UNCHANGED <<h2Entry, h2Req>>

Again(r) ==
  /\ h2Req[r].at \in {"answered", "failed", "cancelled", "reset"}
  /\ h2Req' = [h2Req EXCEPT ![r] = New]
  /\ UNCHANGED <<h2Entry, h2Up>>

Step(r) == AcquireSender(r) \/ DialAndHandshake(r) \/ ReplaceEntry(r) \/ SendRequest(r)

H2Next ==
  \/ \E r \in H2Reqs : Step(r) \/ CancelRequest(r) \/ ResetPeer(r) \/ Again(r)
  \/ \E c \in H2Conns : PeerCloses(c)

\* The send timeout and the dial timeout end every wait.
H2Fairness == \A r \in H2Reqs : WF_h2Vars(Step(r))

H2Spec == H2Init /\ [][H2Next]_h2Vars /\ H2Fairness

H2TypeOK ==
  /\ h2Entry \in [Peers -> H2Conns \cup {"none"}]
  /\ h2Up \subseteq H2Conns
  /\ \A r \in H2Reqs : h2Req[r].at \in {"new", "dial", "dialled", "sent", "answered", "failed", "cancelled", "reset"}

(* No driver outlives its entry: a connection that runs is cached, or is   *)
(* the one its dialler is about to cache (PeerEntry's Drop aborts).        *)
NoOrphan ==
  \A c \in h2Up :
    \/ \E p \in Peers : h2Entry[p] = c
    \/ \E r \in H2Reqs : h2Req[r].at = "dialled" /\ h2Req[r].conn = c

(* A cut-short request never stays on a live connection: whatever happened *)
(* to the table between its send and reset_peer, the connection it was     *)
(* sent on is down afterwards, though reset_peer knows only the address.   *)
ResetCovers == \A r \in H2Reqs : h2Req[r].at = "reset" => h2Req[r].conn \notin h2Up

(* Refuted: a request fails only when its peer or its own time limit ends  *)
(* it.  Two callers that miss together both dial; the second closes the    *)
(* first's connection, and the first's failure evicts the second's.        *)
OthersLeaveItAlone ==
  [][\A r \in H2Reqs : h2Req[r].at = "sent" /\ h2Req'[r].at = "sent" /\ h2Req[r].conn \in h2Up
       => \/ h2Req[r].conn \in h2Up'
          \/ UNCHANGED h2Entry]_h2Vars

(* Every request ends, whatever the others do to its connection.           *)
RequestsEnd == \A r \in H2Reqs : (h2Req[r].at \in {"dial", "dialled", "sent"}) ~> (h2Req[r].at \notin {"dial", "dialled", "sent"})

-----------------------------------------------------------------------------
(***************************************************************************)
(* The two-phase deadline on an upstream send (lb-io idle_send.rs): while  *)
(* the upload runs, a watchdog that the pump's progress re-arms; once the  *)
(* pump has finished, a fixed wait for the response head.  Pump and helper *)
(* share two atomics and nothing else.  Time is discrete, and does not     *)
(* pass a due timer (late timers only widen the windows).                  *)
(***************************************************************************)

CONSTANTS IdleLimit, HeadLimit, EndOfTime

ASSUME SendAssumption == IdleLimit \in Nat /\ HeadLimit \in Nat /\ EndOfTime \in Nat

VARIABLES
  sendNow,       \* the clock
  sendProgress,  \* last_progress
  sendComplete,  \* upload_complete
  sendUploaded,  \* when the pump finished (history)
  sendHead,      \* the response head is ready
  sendLoop       \* the helper: place, captured complete, deadline, anchor

sendVars == <<sendNow, sendProgress, sendComplete, sendUploaded, sendHead, sendLoop>>

NoAnchor == -1

SendInit ==
  /\ sendNow = 0 /\ sendProgress = 0
  /\ sendComplete = FALSE /\ sendUploaded = EndOfTime
  /\ sendHead = FALSE
  /\ sendLoop = [at |-> "top", complete |-> FALSE, deadline |-> 0, anchor |-> NoAnchor]

\* One turn of the loop up to the select; the anchor is set once.
Arm ==
  /\ sendLoop.at = "top"
  /\ LET anchor == IF sendComplete /\ sendLoop.anchor = NoAnchor
                     THEN sendNow + HeadLimit ELSE sendLoop.anchor
     IN sendLoop' = [at |-> "select", complete |-> sendComplete, anchor |-> anchor,
                     deadline |-> IF sendComplete THEN anchor ELSE sendProgress + IdleLimit]
  /\ UNCHANGED <<sendNow, sendProgress, sendComplete, sendUploaded, sendHead>>

\* The biased arm: a head that is ready wins over a due timer.
HeadReady ==
  /\ sendLoop.at = "select" /\ sendHead
  /\ sendLoop' = [sendLoop EXCEPT !.at = "ok"]
  /\ UNCHANGED <<sendNow, sendProgress, sendComplete, sendUploaded, sendHead>>

\* Mutation: the flag captured before the sleep decides.
BadTimerFires ==
  /\ sendLoop.at = "select" /\ ~sendHead
  /\ sendNow >= sendLoop.deadline
  /\ sendLoop' = [sendLoop EXCEPT !.at = IF sendLoop.complete THEN "head" ELSE "recheck"]
  /\ UNCHANGED <<sendNow, sendProgress, sendComplete, sendUploaded, sendHead>>

\* The timer: upload_complete is read again before idleness is judged.
TimerFires ==
  /\ sendLoop.at = "select" /\ ~sendHead
  /\ sendNow >= sendLoop.deadline
  /\ sendLoop' = [sendLoop EXCEPT !.at = IF sendLoop.complete THEN "head"
                                         ELSE IF sendComplete THEN "top" ELSE "recheck"]
  /\ UNCHANGED <<sendNow, sendProgress, sendComplete, sendUploaded, sendHead>>

RecheckProgress ==
  /\ sendLoop.at = "recheck"
  /\ sendLoop' = [sendLoop EXCEPT !.at = IF sendNow - sendProgress < IdleLimit THEN "top" ELSE "idle"]
  /\ UNCHANGED <<sendNow, sendProgress, sendComplete, sendUploaded, sendHead>>

\* The pump: every chunk handed on, and the end of the upload.
Bump ==
  /\ ~sendComplete
  /\ sendProgress' = sendNow
  /\ UNCHANGED <<sendNow, sendComplete, sendUploaded, sendHead, sendLoop>>

Complete ==
  /\ ~sendComplete
  /\ sendComplete' = TRUE /\ sendUploaded' = sendNow
  /\ UNCHANGED <<sendNow, sendProgress, sendHead, sendLoop>>

Answer ==
  /\ ~sendHead /\ sendHead' = TRUE
  /\ UNCHANGED <<sendNow, sendProgress, sendComplete, sendUploaded, sendLoop>>

Tick ==
  /\ sendLoop.at = "select" /\ ~sendHead /\ sendNow < sendLoop.deadline
  /\ sendNow < EndOfTime
  /\ sendNow' = sendNow + 1
  /\ UNCHANGED <<sendProgress, sendComplete, sendUploaded, sendHead, sendLoop>>

SendNext == Arm \/ HeadReady \/ TimerFires \/ RecheckProgress \/ Bump \/ Complete \/ Answer \/ Tick

SendSpec == SendInit /\ [][SendNext]_sendVars

SendTypeOK ==
  /\ sendNow \in 0..EndOfTime /\ sendProgress \in 0..sendNow
  /\ sendLoop.at \in {"top", "select", "recheck", "ok", "idle", "head"}

(* A slow upload that keeps moving is never cut: the idle verdict comes    *)
(* only a full idle limit after the last chunk, and not after the upload   *)
(* was over when the timer fired; the head verdict comes only a full head  *)
(* limit after the upload, and at most one idle limit later than that.     *)
HonestVerdict ==
  /\ sendLoop'.at = "idle" /\ sendLoop.at # "idle"
       => sendNow - sendProgress >= IdleLimit /\ sendUploaded >= sendNow
  /\ sendLoop'.at = "head" /\ sendLoop.at # "head"
       => /\ sendUploaded + HeadLimit <= sendNow
          /\ sendNow <= sendUploaded + IdleLimit + HeadLimit
=============================================================================
