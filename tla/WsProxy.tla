------------------------------- MODULE WsProxy -------------------------------
(***************************************************************************)
(* WebSocket through the HTTP/1 and HTTP/2 front ends of lb-l7: the        *)
(* handshake with the backend before the client is answered, and the frame *)
(* relay of proxy_frames with its timeouts, ping limit and closing         *)
(* sequences.                                                              *)
(***************************************************************************)
EXTENDS Integers, Sequences, FiniteSets, SequencesExt

CONSTANTS
    WpClientFrames,   \* bound: frames the client sends
    WpBackendFrames,  \* bound: frames the backend sends
    WpPings,   \* ping_rate_limit_per_window
    WpWindow,  \* ping_rate_limit_window in ticks
    WpTicks    \* bound: the clock of the ping window

VARIABLES
    wpFront,   \* "h1" (Upgrade) or "h2" (extended CONNECT)
    wpAt,      \* where the handler, then the relay task, is
    wpAnswer,  \* the status the client was given
    wpHand,    \* the frame being forwarded, as a sequence of at most one
    wpClosing, \* the closing sequence still to be run, every step awaited
    wpPeer,    \* the two peers: what they sent, what they got, how they are
    wpPingLog, \* client_ping_log
    wpClock

wpVars == <<wpFront, wpAt, wpAnswer, wpHand, wpClosing, wpPeer, wpPingLog, wpClock>>

Sides == {"client", "backend"}
Other(s) == IF s = "client" THEN "backend" ELSE "client"

Frame(kind, n) == [kind |-> kind, n |-> n]
CloseFrames == {"close", "policy", "away", "plain"}

TypeOK ==
    /\ wpFront \in {"h1", "h2", "any"}
    /\ wpAt \in {"pick", "dial", "upgrade", "select", "send", "closing", "backpressure", "done"}
    /\ wpAnswer \in {"", "101", "200", "switched", "400", "502", "504"}
    /\ Len(wpHand) <= 1
    /\ \A s \in Sides : /\ wpPeer[s].state \in {"absent", "open", "eof", "error"}
                        /\ wpPeer[s].wedged \in {"never", "now", "past"}
    /\ wpClock \in 0..WpTicks

NewPeer(state) == [sent |-> <<>>, taken |-> 0, got |-> <<>>, state |-> state, wedged |-> "never"]

Init ==
    /\ wpFront \in {"h1", "h2"}
    /\ wpAt = "pick"
    /\ wpAnswer = ""
    /\ wpHand = <<>>
    /\ wpClosing = <<>>
    /\ wpPeer = [client |-> NewPeer("open"), backend |-> NewPeer("absent")]
    /\ wpPingLog = <<>>
    /\ wpClock = 0

(*------------------------------- the peers ------------------------------*)

Ready(s) == wpPeer[s].taken < Len(wpPeer[s].sent)

(* A peer's next frame reaches the proxy.  It is seen only by the select,  *)
(* so it may as well arrive there; a backend's pings are like its data.    *)
PeerSends(s) ==
    /\ wpAt = "select"
    /\ ~Ready(s)
    /\ wpPeer[s].state = "open"
    /\ Len(wpPeer[s].sent) < (IF s = "client" THEN WpClientFrames ELSE WpBackendFrames)
    /\ wpPeer[s].sent # <<>> => Last(wpPeer[s].sent).kind # "close"
    /\ \E kind \in {"data", "close"} \cup (IF s = "client" THEN {"ping"} ELSE {}) :
         wpPeer' = [wpPeer EXCEPT ![s].sent = Append(@, Frame(kind, Len(@)))]
    /\ UNCHANGED <<wpFront, wpAt, wpAnswer, wpHand, wpClosing, wpPingLog, wpClock>>

(* What else a peer does shows where the relay reads from it or writes to  *)
(* it: it ends its stream, its connection breaks, ...                      *)
WritingTo(s) ==
    \/ wpAt = "send" /\ s = Other(wpHand[1].side)
    \/ wpAt \in {"closing", "backpressure"} /\ wpClosing # <<>> /\ s = Head(wpClosing).side

PeerLeaves(s) ==
    /\ wpPeer[s].state = "open"
    /\ \/ wpAt = "select" /\ wpPeer' = [wpPeer EXCEPT ![s].state = "eof"]
       \/ (wpAt = "select" \/ WritingTo(s)) /\ wpPeer' = [wpPeer EXCEPT ![s].state = "error"]
    /\ UNCHANGED <<wpFront, wpAt, wpAnswer, wpHand, wpClosing, wpPingLog, wpClock>>

(* ... or it stops reading, so that writes to it park, and reads again     *)
(* (once, as a bound).                                                     *)
Wedged(s) == wpPeer[s].wedged = "now"

PeerWedges(s) ==
    /\ WritingTo(s)
    /\ wpPeer[s].wedged = "never"
    /\ wpPeer' = [wpPeer EXCEPT ![s].wedged = "now"]
    /\ UNCHANGED <<wpFront, wpAt, wpAnswer, wpHand, wpClosing, wpPingLog, wpClock>>

PeerDrains(s) ==
    /\ Wedged(s)
    /\ wpPeer' = [wpPeer EXCEPT ![s].wedged = "past"]
    /\ UNCHANGED <<wpFront, wpAt, wpAnswer, wpHand, wpClosing, wpPingLog, wpClock>>

Tick ==
    /\ wpAt = "select"
    /\ wpClock < WpTicks
    /\ wpClock' = wpClock + 1
    /\ UNCHANGED <<wpFront, wpAt, wpAnswer, wpHand, wpClosing, wpPeer, wpPingLog>>

(*------------------------------ the handshake ---------------------------*)

Answer(status) ==
    /\ wpAt' = "done"
    /\ wpAnswer' = status
    /\ UNCHANGED <<wpFront, wpHand, wpClosing, wpPeer, wpPingLog, wpClock>>

(* handle_ws_upgrade of h1_proxy up to the dial: a bad handshake, no       *)
(* backend or one that is not HTTP/1.                                      *)
PickH1 ==
    /\ wpFront = "h1" /\ wpAt = "pick"
    /\ \/ \E status \in {"400", "502"} : Answer(status)
       \/ /\ wpAt' = "dial"
          /\ UNCHANGED <<wpFront, wpAnswer, wpHand, wpClosing, wpPeer, wpPingLog, wpClock>>

(* handle_ws_extended_connect of h2_proxy: the same refusals, and 400 for a*)
(* missing :path or :scheme.                                               *)
PickH2 ==
    /\ wpFront = "h2" /\ wpAt = "pick"
    /\ \/ \E status \in {"400", "502"} : Answer(status)
       \/ /\ wpAt' = "dial"
          /\ UNCHANGED <<wpFront, wpAnswer, wpHand, wpClosing, wpPeer, wpPingLog, wpClock>>

Upgraded(status) ==
    /\ wpAt' = "upgrade"
    /\ wpAnswer' = status
    /\ wpPeer' = [wpPeer EXCEPT !["backend"].state = "open"]
    /\ UNCHANGED <<wpFront, wpHand, wpClosing, wpPingLog, wpClock>>

(* dial_upstream_ws under the header timeout: refused, elapsed or done.    *)
DialH1 ==
    /\ wpFront = "h1" /\ wpAt = "dial"
    /\ Answer("502") \/ Answer("504") \/ Upgraded("101")

DialH2 ==
    /\ wpFront = "h2" /\ wpAt = "dial"
    /\ Answer("502") \/ Answer("504") \/ Upgraded("200")

(* run_h1_ws_splice_task and the task h2_proxy spawns: hyper hands the     *)
(* upgraded connection over, or fails and the backend socket is dropped.   *)
(* From here on the two front ends do not differ.                          *)
Splice ==
    /\ wpAt = "upgrade"
    /\ wpAt' \in {"select", "done"}
    /\ wpFront' = "any" /\ wpAnswer' = "switched"
    /\ UNCHANGED <<wpHand, wpClosing, wpPeer, wpPingLog, wpClock>>

(*--------------------------- proxy_frames: select -----------------------*)

Silent(s) == ~Ready(s) /\ wpPeer[s].state = "open"
NextFrame(s) == wpPeer[s].sent[wpPeer[s].taken + 1]

Step(side, frame) == [side |-> side, frame |-> frame]

(* The closing sequences.  "flush" stands for SinkExt::close.              *)
Policy == <<Step("client", "policy"), Step("client", "flush"),
            Step("backend", "plain"), Step("backend", "flush")>>
Idle == <<Step("client", "away"), Step("backend", "away")>>

StartClosing(steps) ==
    /\ wpAt' = "closing"
    /\ wpHand' = <<>>
    /\ wpClosing' = steps

(* ClientToBackend(Ok(Some(msg))): a ping is logged, the log pruned, and   *)
(* one too many ends the tunnel.                                           *)
TakeClient ==
    /\ wpAt = "select"
    /\ Ready("client")
    /\ wpPeer' = [wpPeer EXCEPT !["client"].taken = @ + 1]
    /\ LET frame == NextFrame("client")
           kept == SelectSeq(Append(wpPingLog, wpClock), LAMBDA t : wpClock - t <= WpWindow)
           log == IF frame.kind = "ping" THEN kept ELSE wpPingLog
       IN /\ wpPingLog' = log
          /\ IF frame.kind = "ping" /\ Len(log) > WpPings
             THEN StartClosing(Policy)
             ELSE /\ wpAt' = "send"
                  /\ wpHand' = <<[side |-> "client", frame |-> frame]>>
                  /\ UNCHANGED wpClosing
    /\ UNCHANGED <<wpFront, wpAnswer, wpClock>>

(* BackendToClient(Ok(Some(msg))): the client's arm is polled first.       *)
TakeBackend ==
    /\ wpAt = "select"
    /\ Silent("client")
    /\ Ready("backend")
    /\ wpPeer' = [wpPeer EXCEPT !["backend"].taken = @ + 1]
    /\ wpAt' = "send"
    /\ wpHand' = <<[side |-> "backend", frame |-> NextFrame("backend")]>>
    /\ UNCHANGED <<wpFront, wpAnswer, wpClosing, wpPingLog, wpClock>>

(* Ok(None) and Err of either side.                                        *)
TakeEnd(s) ==
    /\ wpAt = "select"
    /\ ~Ready(s)
    /\ s = "backend" => Silent("client")
    /\ wpPeer[s].state \in {"eof", "error"}
    /\ IF wpPeer[s].state = "eof"
       THEN StartClosing(<<Step(Other(s), "plain")>>)
       ELSE wpAt' = "done" /\ UNCHANGED <<wpHand, wpClosing>>
    /\ UNCHANGED <<wpFront, wpAnswer, wpPeer, wpPingLog, wpClock>>

(* Neither side has anything: the idle or the read-frame timer, whichever  *)
(* is configured shorter.                                                  *)
Timeout ==
    /\ wpAt = "select"
    /\ Silent("client") /\ Silent("backend")
    /\ StartClosing(Idle) \/ StartClosing(Policy)
    /\ UNCHANGED <<wpFront, wpAnswer, wpPeer, wpPingLog, wpClock>>

(*--------------------------- proxy_frames: send -------------------------*)

Give(peer, s, frame) == [peer EXCEPT ![s].got = Append(@, frame)]

(* The forward completes; a Close is followed by closing the side it came  *)
(* from.                                                                   *)
\* Mutation: a Close ends the tunnel without being passed on.
ForwardNoClose ==
    /\ wpAt = "send"
    /\ LET from == wpHand[1].side
           frame == wpHand[1].frame
       IN /\ ~Wedged(Other(from))
          /\ wpPeer[Other(from)].state # "error"
          /\ wpPeer' = IF frame.kind = "close" THEN wpPeer ELSE Give(wpPeer, Other(from), frame)
          /\ IF frame.kind = "close"
             THEN StartClosing(<<Step(from, "flush")>>)
             ELSE wpAt' = "select" /\ wpHand' = <<>> /\ UNCHANGED wpClosing
    /\ UNCHANGED <<wpFront, wpAnswer, wpPingLog, wpClock>>
Forward ==
    /\ wpAt = "send"
    /\ LET from == wpHand[1].side
           frame == wpHand[1].frame
       IN /\ ~Wedged(Other(from))
          /\ wpPeer[Other(from)].state # "error"
          /\ wpPeer' = Give(wpPeer, Other(from), frame)
          /\ IF frame.kind = "close"
             THEN StartClosing(<<Step(from, "flush")>>)
             ELSE wpAt' = "select" /\ wpHand' = <<>> /\ UNCHANGED wpClosing
    /\ UNCHANGED <<wpFront, wpAnswer, wpPingLog, wpClock>>

ForwardFails ==
    /\ wpAt = "send"
    /\ wpPeer[Other(wpHand[1].side)].state = "error"
    /\ wpAt' = "done"
    /\ wpHand' = <<>>
    /\ UNCHANGED <<wpFront, wpAnswer, wpClosing, wpPeer, wpPingLog, wpClock>>

(* The send parked past the read-frame budget: close_backpressure.         *)
WriteTimeout ==
    /\ wpAt = "send"
    /\ Wedged(Other(wpHand[1].side))
    /\ wpPeer[Other(wpHand[1].side)].state # "error"
    /\ wpAt' = "backpressure"
    /\ wpHand' = <<>>
    /\ wpClosing' = Policy
    /\ UNCHANGED <<wpFront, wpAnswer, wpPeer, wpPingLog, wpClock>>

(*-------------------------- proxy_frames: closing -----------------------*)

(* Each `let _ = … .send/.close().await` completes, or fails and is passed *)
(* over; on a wedged peer it parks: no timer is around it.                 *)
CloseStep ==
    /\ wpAt \in {"closing", "backpressure"}
    /\ wpClosing # <<>>
    /\ LET step == Head(wpClosing) IN
         /\ wpPeer[step.side].state # "error" => ~Wedged(step.side)
         /\ wpPeer' = IF step.frame = "flush" \/ wpPeer[step.side].state = "error"
                      THEN wpPeer ELSE Give(wpPeer, step.side, Frame(step.frame, 0))
    /\ wpClosing' = Tail(wpClosing)
    /\ UNCHANGED <<wpFront, wpAt, wpAnswer, wpHand, wpPingLog, wpClock>>

Return ==
    /\ wpAt \in {"closing", "backpressure"}
    /\ wpClosing = <<>>
    /\ wpAt' = "done"
    /\ UNCHANGED <<wpFront, wpAnswer, wpHand, wpClosing, wpPeer, wpPingLog, wpClock>>

(*---------------------------- the specification -------------------------*)

Handshake == PickH1 \/ PickH2 \/ DialH1 \/ DialH2 \/ Splice
Relay ==
    \/ TakeClient \/ TakeBackend \/ (\E s \in Sides : TakeEnd(s)) \/ Timeout
    \/ Forward \/ ForwardFails \/ WriteTimeout
    \/ CloseStep \/ Return

Next ==
    \/ Handshake
    \/ Relay
    \/ Tick
    \/ \E s \in Sides : PeerSends(s) \/ PeerLeaves(s) \/ PeerWedges(s) \/ PeerDrains(s)

(*------------------------------- properties -----------------------------*)

(* The client is told the tunnel is open only once the backend has agreed. *)
NoEarlySwitch == wpAnswer \in {"101", "200"} => wpPeer["backend"].state # "absent"

(* Each peer got the other's frames in order, none invented or skipped,    *)
(* followed at most by the one Close of a closing sequence.                *)
RelayedInOrder ==
    \A s \in Sides :
        LET own == SelectSeq(wpPeer[s].got, LAMBDA f : f.kind \in {"data", "ping", "close"})
        IN /\ IsPrefix(own, wpPeer[Other(s)].sent)
           /\ Len(own) \in {Len(wpPeer[s].got), Len(wpPeer[s].got) - 1}
           /\ Len(own) < Len(wpPeer[s].got) =>
                Last(wpPeer[s].got).kind \in {"policy", "away", "plain"}

(* A Close that was taken from one peer has reached the other by the time  *)
(* the relay returns, unless that one failed or would not read.            *)
CloseDelivered ==
    wpAt = "done" => \A s \in Sides :
        LET n == wpPeer[s].taken IN
        n > 0 /\ wpPeer[s].sent[n].kind = "close" =>
            \/ wpPeer[Other(s)].state = "error"
            \/ \E i \in DOMAIN wpPeer[Other(s)].got :
                 wpPeer[Other(s)].got[i].kind \in CloseFrames

(* Once the relay has decided to end, it ends.                             *)
ClosingEnds == (wpAt \in {"closing", "backpressure"}) ~> (wpAt = "done")

(* A relay that gave up on a peer which would not read returns and releases*)
(* the connection ("the point is that we stop polling the producer and     *)
(* return, releasing the connection", ws_proxy.rs:438-439).                *)
WedgedIsReclaimed == (wpAt = "backpressure") ~> (wpAt = "done")
=============================================================================
