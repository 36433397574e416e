--------------------------- MODULE RawRelayProofs ---------------------------
(***************************************************************************)
(* What the relay of raw QUIC streams promises, from the invariant of      *)
(* RawRelayInvariant: nothing is lost, each direction of each stream is a  *)
(* pipe, and the memory of a connection is bounded.                        *)
(***************************************************************************)
EXTENDS RawRelayInvariant

(* Every step of the peers, of quiche and of the relay keeps the           *)
(* invariant.                                                              *)
LEMMA RelayStep ==
  ASSUME RelayInv, [Next]_vars
  PROVE  RelayInv'
<1>1. TypeOK /\ TypeOK'
  BY RelayTypes DEF RelayInv
<1>2. \A h \in Halves : h[1] \in Sids /\ Src(h) \in Sids \X Legs
  BY EndsTyped
<1>3. ASSUME UNCHANGED <<todo, table, half, source, dest, known>> PROVE RelayInv'
  <2>1. ASSUME NEW k \in Halves PROVE HalfInv(k)'
    BY <1>3, UntouchedKeeps DEF RelayInv, Untouched, source, dest
  <2>2. Visited'
    BY <1>3, Zenon DEF RelayInv, Visited
  <2> QED BY <1>1, <2>1, <2>2, Zenon DEF RelayInv
<1>4. CASE Established \/ Dialed \/ Stop \/ UNCHANGED vars
  BY <1>3, <1>4 DEF Established, Dialed, Stop, vars, relay
<1>5. ASSUME NEW h \in Halves, PeerData(h) \/ PeerFin(h) \/ PeerReset(h)
      PROVE  RelayInv'
  <2>1. UNCHANGED <<relay, finRead, stopped, dest>>
    BY <1>5 DEF PeerData, PeerFin, PeerReset
  <2>2. \A k \in Halves : k # h => Untouched(k)
    <3> SUFFICES ASSUME NEW k \in Halves, k # h PROVE Untouched(k)
      OBVIOUS
    <3>1. known'[Src(k)] \in {known[Src(k)], "live"}
      BY <1>1, <1>2, <1>5 DEF PeerData, PeerFin, PeerReset, TypeOK
    <3>2. sent'[k] = sent[k] /\ srcEnd'[k] = srcEnd[k] /\ unread'[k] = unread[k]
      BY <1>1, <1>5 DEF PeerData, PeerFin, PeerReset, TypeOK
    <3> QED BY <2>1, <3>1, <3>2 DEF Untouched, relay, dest
  <2>3. \A k \in Halves : k # h => HalfInv(k)'
    BY <2>1, <2>2, UntouchedKeeps DEF RelayInv, relay
  <2>4. HalfInv(h) /\ srcEnd[h] = "open"
    BY <1>5 DEF RelayInv, PeerData, PeerFin, PeerReset, CanSend
  <2>5. /\ unread[h] \in Nat /\ sent[h] \in Nat /\ got[h] \in Nat /\ half[h].pending \in Nat
    BY <1>1 DEF TypeOK
  <2>6. known'[Src(h)] = "live"
    BY <1>1, <1>2, <1>5, Zenon DEF PeerData, PeerFin, PeerReset, TypeOK
  <2>7. \/ srcEnd'[h] = "open" /\ sent'[h] = sent[h] + 1 /\ unread'[h] = unread[h] + 1
        \/ srcEnd'[h] = "fin" /\ UNCHANGED <<sent, unread>>
        \/ srcEnd'[h] = "reset" /\ unread'[h] = 0 /\ UNCHANGED sent
    BY <1>1, <1>5, <2>4 DEF PeerData, PeerFin, PeerReset, TypeOK
  <2>8. Held(h)' /\ Seen(h)' /\ Owed(h)'
    BY <2>1, <2>4, <2>6, Zenon DEF HalfInv, Held, Seen, Owed, Carries, relay, dest
  <2>9. Counted(h)' /\ Told(h)'
    BY <2>1, <2>4, <2>5, <2>7 DEF HalfInv, Seen, Counted, Told, relay, dest
  <2> QED BY <1>1, <2>1, <2>3, <2>8, <2>9 DEF RelayInv, HalfInv, Visited, relay
<1>6. ASSUME NEW h \in Halves, PeerStop(h) \/ PeerReads(h) PROVE RelayInv'
  <2>1. /\ UNCHANGED <<relay, source, got, dstEnd, known>>
        /\ \A k \in Halves : stop[k] => stop'[k]
        /\ \A k \in Halves : dstEnd[k] # "open" => stop'[k] = stop[k]
    BY <1>1, <1>6 DEF PeerStop, PeerReads, TypeOK
  <2>2. ASSUME NEW k \in Halves PROVE HalfInv(k)'
    <3>1. HalfInv(k)
      BY DEF RelayInv
    <3>2. Held(k)' /\ Seen(k)' /\ Counted(k)' /\ Owed(k)'
      BY <2>1, <3>1, Zenon DEF HalfInv, Held, Seen, Counted, Owed, Carries, relay, source
    <3>3. Told(k)'
      BY <2>1, <3>1, Zenon DEF HalfInv, Told, relay, source
    <3> QED BY <3>2, <3>3 DEF HalfInv
  <2>3. Visited'
    BY <2>1, Zenon DEF RelayInv, Visited, relay
  <2> QED BY <1>1, <2>2, <2>3, Zenon DEF RelayInv
<1>7. ASSUME NEW g \in Legs, Grant(g) PROVE RelayInv'
  BY <1>3, <1>7 DEF Grant, relay
<1>8. ASSUME NEW g \in Legs, NEW s \in Sids, Collect(s, g) PROVE RelayInv'
  <2>1. UNCHANGED <<relay, source, dest>>
    BY <1>8 DEF Collect
  <2>2. ASSUME NEW k \in Halves PROVE HalfInv(k)'
    <3>1. CASE Src(k) # <<s, g>>
      <4>1. known'[Src(k)] = known[Src(k)]
        BY <1>1, <1>2, <1>8, <3>1 DEF Collect, TypeOK
      <4> QED BY <2>1, <4>1, UntouchedKeeps DEF RelayInv, Untouched, relay, source, dest
    <3>2. CASE Src(k) = <<s, g>>
      <4>1. k = <<s, k[2]>> /\ k[2] \in Dirs
        BY <3>2 DEF Src, Halves
      <4>2. Carries(k) => finRead[k] \/ stopped[k]
        BY <1>8, <3>2, <4>1, Zenon DEF Collect
      <4>3. known'[Src(k)] = "collected" /\ known[Src(k)] = "live"
        BY <1>1, <1>8, <3>2 DEF Collect, TypeOK
      <4> QED BY <2>1, <4>2, <4>3, Zenon
              DEF RelayInv, HalfInv, Held, Seen, Counted, Owed, Told, Carries, relay, source, dest
    <3> QED BY <3>1, <3>2
  <2> QED BY <1>1, <2>1, <2>2, Zenon DEF RelayInv, Visited, relay
<1>9. CASE StartPass
  <2>1. UNCHANGED <<source, dest, known, credit>>
    BY <1>9 DEF StartPass
  <2>2. PICK t1 \in Admitted(table, "c2u") : \E t2 \in Admitted(t1, "u2c") :
           /\ table' = t2
           /\ half' = [h \in Halves |-> IF h[1] \in t2 \ table THEN NewHalf ELSE half[h]]
           /\ todo' = {h \in t2 \X Dirs : ~half'[h].done}
    BY <1>9 DEF StartPass
  <2>3. t1 \subseteq Sids /\ table \subseteq t1
    BY <1>1, AdmittedBounded DEF TypeOK
  <2>4. table \subseteq table'
    BY <2>2, <2>3, AdmittedBounded
  <2>5. Visited'
    BY <2>2 DEF Visited
  <2>6. ASSUME NEW k \in Halves PROVE HalfInv(k)'
    <3>1. CASE k[1] \in table \/ k[1] \notin table'
      <4>1. half'[k] = half[k]
        BY <2>2, <3>1
      <4> QED BY <2>1, <2>4, <4>1, UntouchedKeeps DEF RelayInv, Untouched, source, dest
    <3>2. CASE k[1] \notin table /\ k[1] \in table'
      <4>1. half'[k] = NewHalf
        BY <2>2, <3>2
      <4>2. /\ HalfInv(k) /\ half[k].pending = 0
            /\ ~(finRead[k] /\ srcEnd[k] = "fin" /\ dstEnd[k] = "open" /\ ~stopped[k])
        <5>1. half[k].pending \in Nat
          BY <1>1 DEF TypeOK
        <5>2. HalfInv(k) /\ Held(k) /\ Owed(k)
          BY DEF RelayInv, HalfInv
        <5>3. half[k].pending = 0
          BY <3>2, <5>1, <5>2 DEF Held
        <5> QED BY <3>2, <5>2, <5>3 DEF Owed
      <4>3. half'[k].pending = 0 /\ ~half'[k].fin /\ ~half'[k].done
        BY <4>1 DEF NewHalf
      <4>4. Held(k)' /\ Owed(k)'
        BY <2>1, <4>2, <4>3 DEF Held, Owed, source, dest
      <4>5. Counted(k)'
        BY <2>1, <4>2, <4>3 DEF HalfInv, Counted, source, dest
      <4>6. Seen(k)'
        BY <2>1, <4>2, <4>3, Zenon DEF HalfInv, Seen, Carries, source, dest
      <4>7. Told(k)'
        BY <2>1, <4>2, <4>3, Zenon DEF HalfInv, Told, source, dest
      <4> QED BY <4>4, <4>5, <4>6, <4>7 DEF HalfInv
    <3> QED BY <3>1, <3>2
  <2> QED BY <1>1, <2>4, <2>5, <2>6 DEF RelayInv
<1>10. ASSUME NEW h \in Halves, PumpDir(h) PROVE RelayInv'
  <2>1. table' = table
    BY <1>10, Zenon DEF PumpDir, PumpReset, PumpRecvError, PumpStopped, PumpSend, Visit
  <2> QED BY <1>1, <1>10, <2>1, PumpKeeps DEF RelayInv
<1>11. CASE Reclaim
  <2>1. /\ UNCHANGED <<half, source, dest, known>> /\ todo = {} /\ todo' = {}
        /\ table' = {s \in table : ~half[<<s, "c2u">>].done \/ ~half[<<s, "u2c">>].done}
    BY <1>11 DEF Reclaim
  <2>3. ASSUME NEW k \in Halves PROVE HalfInv(k)'
    <3>1. k[1] \in table /\ ~half[k].done => k[1] \in table'
      <4>1. k = <<k[1], "c2u">> \/ k = <<k[1], "u2c">>
        BY DEF Halves, Dirs
      <4> QED BY <2>1, <4>1
    <3> QED BY <2>1, <3>1, Zenon
            DEF RelayInv, HalfInv, Held, Seen, Counted, Owed, Told, Carries, source, dest
  <2> QED BY <1>1, <2>1, <2>3 DEF RelayInv, Visited
<1> QED BY <1>4, <1>5, <1>6, <1>7, <1>8, <1>9, <1>10, <1>11 DEF Next, Peer, Pass

(* The invariant holds throughout every run of the relay.                  *)
LEMMA RelayAlways == Spec => []RelayInv
<1>1. RelayInv /\ [Next]_vars => RelayInv'
  BY RelayStep
<1> QED BY <1>1, RelayInitInv, PTL DEF Spec
----------------------------------------------------------------------------
(* relay_streams and pump_dir lose neither a byte nor an end of a stream,  *)
(* whatever the streams, the windows, the stream credits and the           *)
(* re-admissions of an id.                                                 *)
THEOREM RelayLosesNothing == Spec => []NothingLost
<1>1. RelayInv => NothingLost
  BY Zenon DEF RelayInv, HalfInv, Counted, Owed, NothingLost, NothingDropped, FinOwed
<1> QED BY <1>1, RelayAlways, PTL
----------------------------------------------------------------------------
(* The refinement: each direction of each stream implements StreamPipe.    *)

\* What a step may do to the pipe of direction h.
PipeStep(h) == Pipe(h)!PipeNext \/ UNCHANGED Pipe(h)!pipeVars

(* A step that changes neither what a direction carried nor what its ends  *)
(* were told is a stutter of its pipe.                                     *)
LEMMA PipeStutters ==
  ASSUME NEW h \in Halves, sent'[h] = sent[h], srcEnd'[h] = srcEnd[h], got'[h] = got[h],
         PipeEnd(h)' = PipeEnd(h)
  PROVE  PipeStep(h)
BY Zenon DEF PipeStep, Pipe!pipeVars

(* Closing both legs, a reset and a stop abort the pipe or leave it ended. *)
LEMMA PipeAborts ==
  ASSUME NEW h \in Halves, sent'[h] = sent[h], srcEnd'[h] = srcEnd[h], got'[h] = got[h],
         PipeEnd(h)' \in {PipeEnd(h), "abort"}, PipeEnd(h) \in {"open", "fin", "abort"},
         PipeEnd(h) = "fin" => PipeEnd(h)' = "fin"
  PROVE  PipeStep(h)
BY DEF PipeStep, Pipe!pipeVars, Pipe!PipeNext, Pipe!Abort

(* What the destination of a direction has been told, case by case.        *)
LEMMA PipeEndCases ==
  ASSUME NEW h \in Halves
  PROVE  /\ dstEnd[h] = "fin" => PipeEnd(h) = "fin"
         /\ dstEnd[h] # "fin" /\ (dstEnd[h] = "reset" \/ stopped[h] \/ pc = "closed")
              => PipeEnd(h) = "abort"
         /\ dstEnd[h] # "fin" /\ ~(dstEnd[h] = "reset" \/ stopped[h] \/ pc = "closed")
              => PipeEnd(h) = "open"
BY DEF PipeEnd

(* ... and after a step.                                                   *)
LEMMA PipeEndCasesNext ==
  ASSUME NEW h \in Halves
  PROVE  /\ dstEnd'[h] = "fin" => PipeEnd(h)' = "fin"
         /\ dstEnd'[h] # "fin" /\ (dstEnd'[h] = "reset" \/ stopped'[h] \/ pc' = "closed")
              => PipeEnd(h)' = "abort"
         /\ dstEnd'[h] # "fin" /\ ~(dstEnd'[h] = "reset" \/ stopped'[h] \/ pc' = "closed")
              => PipeEnd(h)' = "open"
BY DEF PipeEnd

(* A visit that sends delivers, completes or does nothing, in the abstract *)
(* pipe: it never delivers past an end, and completes only what is whole.  *)
LEMMA SendIsPipeStep ==
  ASSUME RelayInv, NEW h \in Halves, PumpSend(h)
  PROVE  PipeStep(h)
<1> DEFINE p == half[h].pending + Take(h)
           sends == (p > 0 \/ SeesFin(h)) /\ CanOpen(h)
           n == IF sends THEN Smaller(p, PeerWindow - buffered[h]) ELSE 0
           fin == sends /\ SeesFin(h) /\ n = p
<1>1. TypeOK /\ Visited /\ HalfInv(h)
  BY DEF RelayInv
<1>2. /\ got'[h] = got[h] + n /\ dstEnd'[h] = IF fin THEN "fin" ELSE dstEnd[h]
      /\ UNCHANGED <<sent, srcEnd, stopped>>
  BY <1>1, Zenon DEF PumpSend, TypeOK
<1>3. /\ p \in Nat /\ n \in Nat /\ n <= p /\ Take(h) \in Nat /\ Take(h) <= unread[h]
      /\ unread[h] \in Nat /\ got[h] \in Nat /\ half[h].pending \in Nat /\ sent[h] \in Nat
  BY <1>1, TakeBounded, WindowAssumption DEF TypeOK, Smaller
<1>4. pc = "pump" /\ pc' = pc /\ h \in todo
  BY DEF PumpSend, Visit
<1>5. (p > 0 \/ SeesFin(h)) => ~stop[h]
  BY Zenon DEF PumpSend
<1>6. p = half[h].pending + Take(h) /\ (fin => SeesFin(h))
  OBVIOUS
<1>7. HalfInv(h)'
  BY <1>1, SendKeeps
<1> HIDE DEF p, sends, n, fin
<1>8. ~fin => dstEnd'[h] = dstEnd[h]
  BY <1>2
<1>9. fin => dstEnd'[h] = "fin"
  BY <1>2
<1>10. Told(h) /\ Seen(h) /\ Told(h)' /\ ~half[h].done
  BY <1>1, <1>4, <1>7 DEF HalfInv, Visited
<1>11. PipeEnd(h) = "open" /\ ~fin => PipeEnd(h)' = "open"
  BY <1>2, <1>4, <1>8, PipeEndCases, PipeEndCasesNext
<1>12. PipeEnd(h) # "open" /\ ~fin => PipeEnd(h)' = PipeEnd(h)
  BY <1>2, <1>4, <1>8, PipeEndCases, PipeEndCasesNext
<1>13. fin => PipeEnd(h) = "open" /\ srcEnd[h] = "fin"
  <2>1. fin => dstEnd'[h] = "fin" /\ srcEnd[h] = "fin"
    BY <1>2, <1>9, <1>10 DEF Told
  <2>2. dstEnd[h] = "fin" => finRead[h] /\ ~half[h].fin
    BY <1>10, Zenon DEF Told
  <2>3. dstEnd[h] = "fin" => ~SeesFin(h)
    BY <2>2 DEF SeesFin
  <2>4. dstEnd[h] = "reset" => srcEnd[h] = "reset"
    BY <1>10 DEF Told
  <2>5. fin => ~stopped[h]
    BY <1>5, <1>6, <1>10, Zenon DEF Told
  <2>6. fin => dstEnd[h] # "fin" /\ dstEnd[h] # "reset"
    BY <1>6, <2>1, <2>3, <2>4
  <2> QED BY <1>4, <2>1, <2>5, <2>6, PipeEndCases
<1>14. CASE fin
  <2>1. got'[h] = sent[h] /\ PipeEnd(h)' = "fin"
    BY <1>2, <1>9, <1>10, <1>14, PipeEndCasesNext, Zenon DEF Told
  <2> QED BY <1>2, <1>13, <1>14, <2>1 DEF PipeStep, Pipe!PipeNext, Pipe!Complete
<1>15. CASE ~fin /\ n = 0
  <2>1. got'[h] = got[h] /\ PipeEnd(h)' = PipeEnd(h)
    BY <1>2, <1>3, <1>11, <1>12, <1>15
  <2> QED BY <1>2, <2>1, PipeStutters
<1>16. CASE ~fin /\ n > 0
  <2>1. ~stop[h] /\ ~stopped[h]
    BY <1>3, <1>5, <1>10, <1>16 DEF Told
  <2>2. dstEnd[h] # "fin"
    <3>1. dstEnd[h] = "fin" => got[h] = sent[h] /\ got'[h] = sent[h]
      BY <1>2, <1>8, <1>10, <1>16 DEF Told
    <3> QED BY <1>2, <1>3, <1>16, <3>1
  <2>3. dstEnd[h] # "reset"
    <3>1. dstEnd[h] = "reset" => half[h].pending = 0 /\ unread[h] = 0
      BY <1>10, Zenon DEF Told
    <3> QED BY <1>3, <1>6, <1>16, <3>1
  <2>4. PipeEnd(h) = "open"
    BY <1>4, <2>1, <2>2, <2>3, PipeEndCases
  <2>5. got'[h] \in Nat /\ got[h] < got'[h] /\ got'[h] <= sent[h]
    BY <1>2, <1>3, <1>6, <1>10, <1>16 DEF Told
  <2> QED BY <1>2, <1>11, <1>16, <2>4, <2>5 DEF PipeStep, Pipe!PipeNext, Pipe!Deliver
<1> QED BY <1>3, <1>14, <1>15, <1>16

(* Every step of the actor and of its peers is a step of every pipe or     *)
(* leaves it alone.                                                        *)
LEMMA EveryStepIsPipeStep ==
  ASSUME RelayInv, [Next]_vars, NEW k \in Halves
  PROVE  PipeStep(k)
<1>1. TypeOK /\ HalfInv(k)
  BY DEF RelayInv
<1>2. PipeEnd(k) \in {"open", "fin", "abort"}
  BY PipeEndCases
<1>3. ASSUME UNCHANGED <<sent, srcEnd, got, dstEnd, stopped>>, pc' = pc \/ pc # "closed"
      PROVE  PipeStep(k)
  <2>1. dstEnd[k] = "fin" => PipeEnd(k)' = "fin"
    BY <1>3, PipeEndCasesNext
  <2>2. dstEnd[k] # "fin" => PipeEnd(k)' \in {PipeEnd(k), "abort"}
    BY <1>3, PipeEndCases, PipeEndCasesNext
  <2>3. PipeEnd(k) = "fin" <=> dstEnd[k] = "fin"
    BY PipeEndCases
  <2> QED BY <1>2, <1>3, <2>1, <2>2, <2>3, PipeAborts
<1>4. CASE Established \/ Dialed \/ Stop \/ UNCHANGED vars \/ StartPass \/ Reclaim
  BY <1>3, <1>4 DEF Established, Dialed, Stop, vars, relay, StartPass, Reclaim, source, dest
<1>5. ASSUME NEW h \in Halves, PeerData(h) \/ PeerFin(h) \/ PeerReset(h)
      PROVE  PipeStep(k)
  <2>1. /\ UNCHANGED <<relay, finRead, stopped, dest>> /\ srcEnd[h] = "open"
        /\ k # h => sent'[k] = sent[k] /\ srcEnd'[k] = srcEnd[k]
        /\ \/ srcEnd' = srcEnd /\ sent'[h] = sent[h] + 1
           \/ srcEnd'[h] \in {"fin", "reset"} /\ sent' = sent
    BY <1>1, <1>5 DEF PeerData, PeerFin, PeerReset, CanSend, TypeOK
  <2>2. got' = got /\ PipeEnd(k)' = PipeEnd(k)
    BY <2>1, PipeEndCases, PipeEndCasesNext DEF relay, dest
  <2>3. CASE k # h
    BY <2>1, <2>2, <2>3, PipeStutters
  <2>4. CASE k = h
    BY <2>1, <2>2, <2>4 DEF PipeStep, Pipe!PipeNext, Pipe!Produce, Pipe!FinishSource
  <2> QED BY <2>3, <2>4
<1>6. ASSUME NEW h \in Halves, PeerStop(h) \/ PeerReads(h) PROVE PipeStep(k)
  BY <1>3, <1>6 DEF PeerStop, PeerReads, relay, source
<1>7. ASSUME NEW g \in Legs, Grant(g) \/ \E s \in Sids : Collect(s, g) PROVE PipeStep(k)
  BY <1>3, <1>7, Zenon DEF Grant, Collect, relay, source, dest
<1>8. ASSUME NEW h \in Halves, PumpDir(h) PROVE PipeStep(k)
  <2>1. pc' = pc
    BY <1>8, Zenon DEF PumpDir, PumpReset, PumpRecvError, PumpStopped, PumpSend, Visit
  <2>2. CASE PumpRecvError(h)
    BY <1>3, <2>1, <2>2 DEF PumpRecvError, source, dest
  <2>3. CASE PumpReset(h)
    <3>1. /\ UNCHANGED <<sent, srcEnd, got, stopped>>
          /\ dstEnd'[k] = dstEnd[k] \/ (dstEnd'[k] = "reset" /\ k = h)
          /\ srcEnd[h] = "reset"
      BY <1>1, <2>3 DEF PumpReset, TypeOK
    <3>2. dstEnd[k] = "fin" => dstEnd'[k] = "fin"
      BY <1>1, <3>1, Zenon DEF HalfInv, Told
    <3>3. PipeEnd(k)' \in {PipeEnd(k), "abort"} /\ (PipeEnd(k) = "fin" => PipeEnd(k)' = "fin")
      BY <2>1, <3>1, <3>2, PipeEndCases, PipeEndCasesNext
    <3> QED BY <1>2, <3>1, <3>3, PipeAborts
  <2>4. CASE PumpStopped(h)
    <3>1. /\ UNCHANGED <<sent, srcEnd, got, dstEnd>> /\ (stopped[k] => stopped'[k])
      BY <1>1, <2>4 DEF PumpStopped, TypeOK, dest
    <3>2. PipeEnd(k)' \in {PipeEnd(k), "abort"} /\ (PipeEnd(k) = "fin" => PipeEnd(k)' = "fin")
      BY <2>1, <3>1, PipeEndCases, PipeEndCasesNext
    <3> QED BY <1>2, <3>1, <3>2, PipeAborts, Zenon
  <2>5. CASE PumpSend(h)
    <3>1. CASE k # h
      <4>1. /\ UNCHANGED <<sent, srcEnd, stopped>> /\ got'[k] = got[k] /\ dstEnd'[k] = dstEnd[k]
        BY <1>1, <2>5, <3>1, Zenon DEF PumpSend, TypeOK
      <4>2. PipeEnd(k)' = PipeEnd(k)
        BY <2>1, <4>1, PipeEndCases, PipeEndCasesNext
      <4> QED BY <4>1, <4>2, PipeStutters
    <3>2. CASE k = h
      BY <2>5, <3>2, SendIsPipeStep
    <3> QED BY <3>1, <3>2
  <2> QED BY <1>8, <2>2, <2>3, <2>4, <2>5 DEF PumpDir
<1> QED BY <1>4, <1>5, <1>6, <1>7, <1>8 DEF Next, Peer, Pass

(* Mode B implements the pipe: each direction of each relayed stream hands *)
(* over what its source sent, in order, and is complete at the destination *)
(* only if the source was complete and everything arrived.                 *)
THEOREM RelayRefinesPipes == Spec => HalvesArePipes
<1>1. Init => \A h \in Halves : Pipe(h)!PipeInit
  <2> SUFFICES ASSUME Init, NEW h \in Halves PROVE Pipe(h)!PipeInit
    OBVIOUS
  <2>1. /\ sent[h] = 0 /\ srcEnd[h] = "open" /\ got[h] = 0 /\ dstEnd[h] = "open"
        /\ stopped[h] = FALSE /\ pc = "handshake"
    BY DEF Init
  <2>2. PipeEnd(h) = "open"
    BY <2>1, PipeEndCases
  <2> QED BY <2>1, <2>2 DEF Pipe!PipeInit
<1>2. RelayInv /\ [Next]_vars =>
        [\A h \in Halves : Pipe(h)!PipeNext \/ UNCHANGED Pipe(h)!pipeVars]_vars
  BY EveryStepIsPipeStep DEF PipeStep
<1> QED BY <1>1, <1>2, RelayAlways, PTL DEF Spec, HalvesArePipes
----------------------------------------------------------------------------
(* The size of the table. *)

FST == INSTANCE FiniteSetTheorems

(* A part of a finite set of streams is finite and no larger.              *)
LEMMA PartIsSmaller ==
  ASSUME NEW S, IsFiniteSet(S), NEW T \in SUBSET S
  PROVE  /\ IsFiniteSet(T) /\ Cardinality(T) <= Cardinality(S)
         /\ Cardinality(S) \in Nat /\ Cardinality(T) \in Nat
<1>1. \A R : IsFiniteSet(R) <=> FST!IsFiniteSet(R)
  BY DEF IsFiniteSet, FST!IsFiniteSet
<1>2. \A R : Cardinality(R) = FST!Cardinality(R)
  BY DEF Cardinality, FST!Cardinality, IsFiniteSet, FST!IsFiniteSet
<1>3. IsFiniteSet(T) /\ Cardinality(T) <= Cardinality(S)
  BY <1>1, <1>2, FST!FS_Subset
<1> QED BY <1>1, <1>2, <1>3, FST!FS_CardinalityType

TableBound == Cardinality(table) <= MaxRelayStreams

(* Only the admission at the start of a pass (admit_or_refuse) enlarges    *)
(* the table, and it stops at the cap; reclaiming entries shrinks it.      *)
LEMMA TableCapped ==
  ASSUME TypeOK, [Next]_vars, TableBound
  PROVE  TableBound'
<1>1. CASE StartPass
  <2>1. PICK t1 \in Admitted(table, "c2u") : \E t2 \in Admitted(t1, "u2c") : table' = t2
    BY <1>1 DEF StartPass
  <2>2. t1 \subseteq Sids
    BY AdmittedBounded DEF TypeOK
  <2> QED BY <2>1, <2>2, AdmittedBounded DEF TableBound
<1>2. CASE Reclaim
  <2>1. table' \subseteq table
    BY <1>2 DEF Reclaim
  <2>2. table \subseteq Sids /\ IsFiniteSet(Sids)
    BY SidsAssumption DEF TypeOK, Sids
  <2>3. IsFiniteSet(table)
    BY <2>2, PartIsSmaller
  <2>4. /\ Cardinality(table') <= Cardinality(table)
        /\ Cardinality(table) \in Nat /\ Cardinality(table') \in Nat
    BY <2>1, <2>3, PartIsSmaller
  <2> QED BY <2>4, WindowAssumption DEF TableBound
<1>3. CASE ~StartPass /\ ~Reclaim
  <2>1. table' = table
    BY <1>3, Zenon DEF Next, Established, Dialed, Stop, Peer, PeerData, PeerFin, PeerReset, PeerStop,
                PeerReads, Grant, Collect, Pass, PumpDir, PumpReset, PumpRecvError,
                PumpStopped, PumpSend, Visit, vars, relay
  <2> QED BY <2>1 DEF TableBound
<1> QED BY <1>1, <1>2, <1>3

(* The memory that one relayed connection holds is bounded by the table    *)
(* cap and the relay window.                                               *)
THEOREM RelayMemoryBounded == Spec => []RelayBounded
<1>1. Init => TableBound
  <2>1. Cardinality({}) = 0
    BY FST!FS_EmptySet
       DEF Cardinality, FST!Cardinality, IsFiniteSet, FST!IsFiniteSet
  <2>2. ASSUME Init PROVE table = {}
    BY <2>2 DEF Init
  <2> QED BY <2>1, <2>2, WindowAssumption DEF TableBound
<1>2. RelayInv /\ [Next]_vars /\ TableBound => TableBound'
  BY TableCapped DEF RelayInv
<1>3. RelayInv /\ TableBound => RelayBounded
  <2> SUFFICES ASSUME RelayInv, TableBound, NEW h \in Halves
               PROVE  half[h].pending <= Window /\ (half[h].pending > 0 => h[1] \in table)
    BY DEF RelayBounded, TableBound
  <2>1. half[h].pending \in 0..Window
    BY DEF RelayInv, TypeOK
  <2>2. Held(h)
    BY DEF RelayInv, HalfInv
  <2> QED BY <2>1, <2>2, WindowAssumption DEF Held
<1> QED BY <1>1, <1>2, <1>3, RelayAlways, PTL DEF Spec
=============================================================================
