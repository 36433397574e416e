------------------------------ MODULE RawRelay ------------------------------
(***************************************************************************)
(* QUIC Mode B: one client connection re-originated to one upstream        *)
(* connection, with the streams of the two relayed under the same id       *)
(* (crates/lb-quic/src/raw_proxy.rs: run_raw_proxy_actor_inner,            *)
(* run_dual_pump, relay_streams, admit_or_refuse, pump_dir).               *)
(*                                                                         *)
(* The actor owns both quiche connections: packets reach them only while   *)
(* it waits in select, and a relay pass runs without interruption, one     *)
(* step per half.  quiche is external, modelled as pump_dir uses it: a     *)
(* stream is unknown on a leg until the peer or the relay opens it, opening *)
(* costs a stream credit, and a stream whose two sides are over is         *)
(* collected.  Bytes are counted, a unit standing for a relay window's     *)
(* share; datagrams are left out.                                          *)
(***************************************************************************)
EXTENDS Naturals, FiniteSets

CONSTANTS
  Bidi, ClientUni, UpUni, \* stream ids: bidirectional (all opened by the
                          \* client) and unidirectional, by opener
  Window,                 \* STREAM_RELAY_WINDOW
  PeerWindow,             \* what a destination takes before it reads
  MaxRelayStreams,        \* max_relay_streams
  MaxSend,                \* bound: bytes the source of each half sends
  MaxCredit               \* bound: streams a peer lets the relay open

ASSUME WindowAssumption ==
  {Window, PeerWindow, MaxRelayStreams} \subseteq Nat \ {0}
ASSUME SidsAssumption ==
  /\ Bidi \cap ClientUni = {} /\ Bidi \cap UpUni = {} /\ ClientUni \cap UpUni = {}
  /\ IsFiniteSet(Bidi \cup ClientUni \cup UpUni)

Sids == Bidi \cup ClientUni \cup UpUni
Legs == {"client", "up"}
Dirs == {"c2u", "u2c"}
Halves == Sids \X Dirs
Src(h) == <<h[1], IF h[2] = "c2u" THEN "client" ELSE "up">>
Dst(h) == <<h[1], IF h[2] = "c2u" THEN "up" ELSE "client">>

ASSUME BoundsAssumption == MaxCredit \in Nat /\ MaxSend \in [Halves -> Nat]

\* The directions in which a stream carries data.
Carries(h) == h[1] \in Bidi \cup (IF h[2] = "c2u" THEN ClientUni ELSE UpUni)
\* The peer on the source leg is the one that opened the stream.
Opens(h) == h[1] \in (IF h[2] = "c2u" THEN Bidi \cup ClientUni ELSE UpUni)

\* The relay has streams to open on this leg.
Mirrors(g) == \E h \in Halves : Opens(h) /\ Dst(h)[2] = g

VARIABLES
  pc,       \* handshake, dial, select, pump, closed, abandoned
  todo,     \* halves still to be pumped in this pass
  table,    \* streams: the ids in the relay table
  half,     \* RelayHalf of each direction of each id
  sent, srcEnd,     \* what the source peer has sent, and how it ended
  unread, finRead,  \* the source leg: bytes to read; its end has been read
  known,    \* each id on each leg: no, live, collected
  got, dstEnd,      \* what the destination was given and told
  buffered, \* ... and has not read yet
  stop,     \* the destination sent STOP_SENDING
  stopped,  \* the source was sent STOP_SENDING
  credit    \* streams the relay may still open on each leg

relay == <<pc, todo, table, half>>
source == <<sent, srcEnd, unread, finRead, stopped>>
dest == <<got, dstEnd, buffered, stop>>
vars == <<relay, source, dest, known, credit>>

NewHalf == [pending |-> 0, fin |-> FALSE, done |-> FALSE]

Init ==
  /\ pc = "handshake" /\ todo = {} /\ table = {}
  /\ half = [h \in Halves |-> NewHalf]
  /\ sent = [h \in Halves |-> 0] /\ srcEnd = [h \in Halves |-> "open"]
  /\ unread = [h \in Halves |-> 0] /\ finRead = [h \in Halves |-> FALSE]
  /\ known = [x \in Sids \X Legs |-> "no"]
  /\ got = [h \in Halves |-> 0] /\ dstEnd = [h \in Halves |-> "open"]
  /\ buffered = [h \in Halves |-> 0] /\ stop = [h \in Halves |-> FALSE]
  /\ stopped = [h \in Halves |-> FALSE]
  /\ credit \in {c \in [Legs -> {0, 1}] : \A g \in Legs : ~Mirrors(g) => c[g] = 0}
----------------------------------------------------------------------------
(* Connection phases. *)

\* drive_client_to_established, then dial_dedicated.  A client that is gone
\* before is closed; a dial that fails returns without closing the client.
Established ==
  /\ pc = "handshake"
  /\ pc' \in {"dial", "closed"}
  /\ UNCHANGED <<todo, table, half, source, dest, known, credit>>

Dialed ==
  /\ pc = "dial"
  /\ pc' \in {"select", "abandoned"}
  /\ UNCHANGED <<todo, table, half, source, dest, known, credit>>

\* Cancel, a closed leg or a gone router end the pump; both legs are closed.
Stop ==
  /\ pc = "select"
  /\ pc' = "closed"
  /\ UNCHANGED <<todo, table, half, source, dest, known, credit>>
----------------------------------------------------------------------------
(* Packets from the two peers. *)

CanSend(h) ==
  /\ pc = "select" /\ Carries(h) /\ srcEnd[h] = "open" /\ ~stopped[h]
  /\ known[Src(h)] = "live" \/ (known[Src(h)] = "no" /\ Opens(h))

PeerData(h) ==
  /\ CanSend(h) /\ sent[h] < MaxSend[h]
  /\ sent' = [sent EXCEPT ![h] = @ + 1]
  /\ unread' = [unread EXCEPT ![h] = @ + 1]
  /\ known' = [known EXCEPT ![Src(h)] = "live"]
  /\ UNCHANGED <<relay, srcEnd, finRead, stopped, dest, credit>>

PeerFin(h) ==
  /\ CanSend(h)
  /\ srcEnd' = [srcEnd EXCEPT ![h] = "fin"]
  /\ known' = [known EXCEPT ![Src(h)] = "live"]
  /\ UNCHANGED <<relay, sent, unread, finRead, stopped, dest, credit>>

\* A reset discards what has not been read; a stopped source answers with one.
PeerReset(h) ==
  /\ pc = "select" /\ Carries(h) /\ srcEnd[h] = "open" /\ known[Src(h)] = "live"
  /\ srcEnd' = [srcEnd EXCEPT ![h] = "reset"]
  /\ unread' = [unread EXCEPT ![h] = 0]
  /\ UNCHANGED <<relay, sent, finRead, stopped, dest, known, credit>>

PeerStop(h) ==
  /\ pc = "select" /\ Carries(h) /\ known[Dst(h)] = "live"
  /\ dstEnd[h] = "open" /\ ~stop[h]
  /\ stop' = [stop EXCEPT ![h] = TRUE]
  /\ UNCHANGED <<relay, source, got, dstEnd, buffered, known, credit>>

PeerReads(h) ==
  /\ pc = "select" /\ buffered[h] > 0
  /\ buffered' = [buffered EXCEPT ![h] = 0]
  /\ UNCHANGED <<relay, source, got, dstEnd, stop, known, credit>>

\* MAX_STREAMS.
Grant(g) ==
  /\ pc = "select" /\ Mirrors(g) /\ credit[g] < MaxCredit
  /\ credit' = [credit EXCEPT ![g] = @ + 1]
  /\ UNCHANGED <<relay, source, dest, known>>

\* quiche collects a stream whose receiving side has been read to its end and
\* whose sending side is over.
Collect(s, g) ==
  /\ pc = "select" /\ known[<<s, g>>] = "live"
  /\ \A d \in Dirs : LET h == <<s, d>> IN Carries(h) =>
        /\ Src(h) = <<s, g>> => finRead[h] \/ stopped[h]
        /\ Dst(h) = <<s, g>> => dstEnd[h] # "open"
  /\ known' = [known EXCEPT ![<<s, g>>] = "collected"]
  /\ UNCHANGED <<relay, source, dest, credit>>
----------------------------------------------------------------------------
(* One relay pass. *)

\* quiche's readable(): bytes, a FIN or a reset that was not read yet.
Readable(h) ==
  /\ Carries(h) /\ known[Src(h)] = "live" /\ ~finRead[h] /\ ~stopped[h]
  /\ unread[h] > 0 \/ srcEnd[h] # "open"

\* Mutation: the cap is not checked.
AdmittedAll(t, d) == {t \cup {s \in Sids : Readable(<<s, d>>)}}

\* admit_or_refuse over the readable ids of one leg: new ones enter the table
\* while it is below the cap.
Admitted(t, d) ==
  LET new == {s \in Sids : Readable(<<s, d>>)} \ t IN
  {t \cup a : a \in {x \in SUBSET new :
      \/ x = new /\ Cardinality(t \cup new) <= MaxRelayStreams
      \/ x # new /\ Cardinality(t \cup x) = MaxRelayStreams}}

\* Mutation: a readable id gets a new entry even if it has one.
StartPassOverwrites ==
  /\ pc = "select"
  /\ \E t1 \in Admitted(table, "c2u") : \E t2 \in Admitted(t1, "u2c") :
       /\ table' = t2
       /\ half' = [h \in Halves |-> IF h[1] \in t2 /\ Readable(h) THEN NewHalf ELSE half[h]]
       /\ todo' = {h \in t2 \X Dirs : ~half'[h].done}
  /\ pc' = "pump"
  /\ UNCHANGED <<source, dest, known, credit>>

\* Mutation: only the readable halves are visited.
StartPassReadable ==
  /\ pc = "select"
  /\ \E t1 \in Admitted(table, "c2u") : \E t2 \in Admitted(t1, "u2c") :
       /\ table' = t2
       /\ half' = [h \in Halves |-> IF h[1] \in t2 \ table THEN NewHalf ELSE half[h]]
       /\ todo' = {h \in t2 \X Dirs : Readable(h) /\ ~half'[h].done}
  /\ pc' = "pump"
  /\ UNCHANGED <<source, dest, known, credit>>

\* The table takes the client's readable ids, then the upstream's; a new entry
\* has fresh halves.  Every half of the table that is not done is then visited
\* (pump_dir returns at once from one that is).
StartPass ==
  /\ pc = "select"
  /\ \E t1 \in Admitted(table, "c2u") : \E t2 \in Admitted(t1, "u2c") :
       /\ table' = t2
       /\ half' = [h \in Halves |-> IF h[1] \in t2 \ table THEN NewHalf ELSE half[h]]
       /\ todo' = {h \in t2 \X Dirs : ~half'[h].done}
  /\ pc' = "pump"
  /\ UNCHANGED <<source, dest, known, credit>>

\* pump_dir's reads: up to the window, unless the FIN was read before.
Reading(h) == ~half[h].fin /\ half[h].pending < Window
Take(h) ==
  IF ~Reading(h) THEN 0
  ELSE IF unread[h] < Window - half[h].pending THEN unread[h]
  ELSE Window - half[h].pending
SeesFin(h) ==
  half[h].fin \/ (Reading(h) /\ srcEnd[h] = "fin" /\ Take(h) = unread[h] /\ ~finRead[h])

\* stream_send can open the mirror stream, or has it.
CanOpen(h) == known[Dst(h)] = "live" \/ (known[Dst(h)] = "no" /\ credit[Dst(h)[2]] > 0)

Smaller(a, b) == IF a < b THEN a ELSE b

\* A pass visits the client-to-upstream half of an id first.
Visit(h) ==
  /\ pc = "pump" /\ h \in todo
  /\ h[2] = "u2c" => <<h[1], "c2u">> \notin todo
  /\ todo' = todo \ {h}
  /\ UNCHANGED <<pc, table>>

Ended(h) == [pending |-> 0, fin |-> half[h].fin, done |-> TRUE]

\* Mutation: a reset is passed on as a clean end.
PumpResetAsFin(h) ==
  /\ Visit(h) /\ Reading(h)
  /\ known[Src(h)] = "live" /\ srcEnd[h] = "reset" /\ ~finRead[h]
  /\ half' = [half EXCEPT ![h] = Ended(h)]
  /\ finRead' = [finRead EXCEPT ![h] = TRUE]
  /\ dstEnd' = [dstEnd EXCEPT ![h] = IF known[Dst(h)] = "live" THEN "fin" ELSE @]
  /\ UNCHANGED <<sent, srcEnd, unread, stopped, got, buffered, stop, known, credit>>

\* stream_recv: StreamReset.  propagate_cancel resets the destination's stream
\* if it exists, drops what is pending and ends the half.
PumpReset(h) ==
  /\ Visit(h) /\ Reading(h)
  /\ known[Src(h)] = "live" /\ srcEnd[h] = "reset" /\ ~finRead[h]
  /\ half' = [half EXCEPT ![h] = Ended(h)]
  /\ finRead' = [finRead EXCEPT ![h] = TRUE]
  /\ dstEnd' = [dstEnd EXCEPT ![h] = IF known[Dst(h)] = "live" THEN "reset" ELSE @]
  /\ UNCHANGED <<sent, srcEnd, unread, stopped, got, buffered, stop, known, credit>>

\* stream_recv: any other error, which an unknown or collected stream and the
\* wrong direction of a unidirectional one return.  The half ends silently.
PumpRecvError(h) ==
  /\ Visit(h) /\ Reading(h)
  /\ ~Carries(h) \/ known[Src(h)] # "live"
  /\ half' = [half EXCEPT ![h] = Ended(h)]
  /\ UNCHANGED <<source, dest, known, credit>>

\* The reads of this visit return data, a FIN or nothing.
Reads(h) ==
  /\ Reading(h) => /\ Carries(h) /\ known[Src(h)] = "live"
                   /\ srcEnd[h] = "reset" => finRead[h]
  /\ unread' = [unread EXCEPT ![h] = @ - Take(h)]
  /\ finRead' = [finRead EXCEPT ![h] = @ \/ SeesFin(h)]

\* stream_send: StreamStopped.  propagate_cancel stops the source and ends the
\* half without a FIN.
PumpStopped(h) ==
  /\ Visit(h) /\ Reads(h)
  /\ half[h].pending + Take(h) > 0 \/ SeesFin(h)
  /\ stop[h]
  /\ half' = [half EXCEPT ![h] = Ended(h)]
  /\ stopped' = [stopped EXCEPT ![h] = TRUE]
  /\ UNCHANGED <<sent, srcEnd, dest, known, credit>>

\* What was read and what was pending is offered to the destination, which
\* takes what its window allows; StreamLimit keeps everything for the next
\* pass; the FIN goes out once nothing is pending.
PumpSend(h) ==
  /\ Visit(h) /\ Reads(h)
  /\ LET p == half[h].pending + Take(h)
         sends == (p > 0 \/ SeesFin(h)) /\ CanOpen(h)
         n == IF sends THEN Smaller(p, PeerWindow - buffered[h]) ELSE 0
         fin == sends /\ SeesFin(h) /\ n = p
     IN /\ (p > 0 \/ SeesFin(h)) => ~stop[h]
        /\ half' = [half EXCEPT ![h] = [pending |-> p - n, fin |-> SeesFin(h), done |-> fin]]
        /\ got' = [got EXCEPT ![h] = @ + n]
        /\ buffered' = [buffered EXCEPT ![h] = @ + n]
        /\ dstEnd' = [dstEnd EXCEPT ![h] = IF fin THEN "fin" ELSE @]
        /\ known' = [known EXCEPT ![Dst(h)] = IF sends THEN "live" ELSE @]
        /\ credit' = [credit EXCEPT ![Dst(h)[2]] =
                        IF sends /\ known[Dst(h)] = "no" THEN @ - 1 ELSE @]
  /\ UNCHANGED <<sent, srcEnd, stopped, stop>>

\* streams.retain: an entry goes when both directions are done.
Reclaim ==
  /\ pc = "pump" /\ todo = {}
  /\ table' = {s \in table : ~half[<<s, "c2u">>].done \/ ~half[<<s, "u2c">>].done}
  /\ pc' = "select"
  /\ UNCHANGED <<todo, half, source, dest, known, credit>>
----------------------------------------------------------------------------
PumpDir(h) == PumpReset(h) \/ PumpRecvError(h) \/ PumpStopped(h) \/ PumpSend(h)

Pass == StartPass \/ (\E h \in Halves : PumpDir(h)) \/ Reclaim

Peer == \/ \E h \in Halves : PeerData(h) \/ PeerFin(h) \/ PeerReset(h)
                             \/ PeerStop(h) \/ PeerReads(h)
        \/ \E g \in Legs : Grant(g) \/ \E s \in Sids : Collect(s, g)

Next == Established \/ Dialed \/ Stop \/ Peer \/ Pass

Spec == Init /\ [][Next]_vars

\* The relay tick wakes the loop again and again; a destination reads what it
\* was given, and a peer keeps granting streams.
FairSpec ==
  /\ Spec /\ WF_vars(Pass)
  /\ SF_vars(\E h \in Halves : PeerReads(h))
  /\ SF_vars(\E g \in Legs : Grant(g))
----------------------------------------------------------------------------
(* Properties. *)

TypeOK ==
  /\ pc \in {"handshake", "dial", "select", "pump", "closed", "abandoned"}
  /\ todo \subseteq Halves /\ table \subseteq Sids
  /\ half \in [Halves -> [pending : 0..Window, fin : BOOLEAN, done : BOOLEAN]]
  /\ sent \in [Halves -> Nat] /\ srcEnd \in [Halves -> {"open", "fin", "reset"}]
  /\ unread \in [Halves -> Nat] /\ finRead \in [Halves -> BOOLEAN]
  /\ known \in [Sids \X Legs -> {"no", "live", "collected"}]
  /\ got \in [Halves -> Nat] /\ dstEnd \in [Halves -> {"open", "fin", "reset"}]
  /\ buffered \in [Halves -> 0..PeerWindow] /\ credit \in [Legs -> Nat]
  /\ stop \in [Halves -> BOOLEAN] /\ stopped \in [Halves -> BOOLEAN]

\* The memory of one connection is bounded: at most MaxRelayStreams entries,
\* each with at most a window pending per direction, and pending bytes exist
\* only for ids in the table.
RelayBounded ==
  /\ Cardinality(table) <= MaxRelayStreams
  /\ \A h \in Halves : half[h].pending <= Window /\ (half[h].pending > 0 => h[1] \in table)

\* Backpressure, stream limits, re-admission of an id and the end of the other
\* direction lose no byte: unless the direction was cancelled, what the source
\* sent is unread, pending or with the destination.
NothingDropped ==
  \A h \in Halves : (srcEnd[h] # "reset" /\ ~stopped[h]) =>
     sent[h] = unread[h] + half[h].pending + got[h]

\* A FIN that was read and not passed on is still owed by a live half, so
\* that no reclaimed entry swallows the end of a stream.
FinOwed ==
  \A h \in Halves :
    (finRead[h] /\ srcEnd[h] = "fin" /\ dstEnd[h] = "open" /\ ~stopped[h])
    => h[1] \in table /\ half[h].fin /\ ~half[h].done

\* Neither a byte nor an end is lost.
NothingLost == NothingDropped /\ FinOwed

\* Each direction of each stream is a pipe: in order, and complete only if the
\* source was complete and everything arrived ("never a clean FIN" after a
\* reset).  The end of the connection aborts what is open.
PipeEnd(h) ==
  IF dstEnd[h] = "fin" THEN "fin"
  ELSE IF dstEnd[h] = "reset" \/ stopped[h] \/ pc = "closed" THEN "abort"
  ELSE "open"
Pipe(h) == INSTANCE StreamPipe WITH
  sent <- sent[h], srcEnd <- srcEnd[h], got <- got[h], dstEnd <- PipeEnd(h)
HalvesArePipes ==
  /\ \A h \in Halves : Pipe(h)!PipeInit
  /\ [][\A h \in Halves : Pipe(h)!PipeNext \/ UNCHANGED Pipe(h)!pipeVars]_vars

\* A stream that its source finished is ended at the destination too, even
\* when the mirror stream could not be opened at first, unless the direction
\* is stopped or the connection ends: this is about the live halves of the
\* table, for an id that the full table keeps out waits.  Each half can owe an
\* end once, so no half owes one for ever exactly if again and again none does.
OwesEnd(h) ==
  /\ srcEnd[h] = "fin" /\ h[1] \in table /\ ~half[h].done
  /\ dstEnd[h] = "open" /\ ~stopped[h] /\ pc # "closed"
FinishedArrives == []<>(\A h \in Halves : ~OwesEnd(h))

\* pump_dir: on StreamLimit "never drop"; a generic error means that the
\* connection is being torn down.  So a half ends early only for a cause.
HalfEndsForCause ==
  \A h \in Halves : (Carries(h) /\ h[1] \in table /\ half[h].done) =>
     dstEnd[h] # "open" \/ stopped[h] \/ srcEnd[h] = "reset"
============================================================================
