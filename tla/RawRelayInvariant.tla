-------------------------- MODULE RawRelayInvariant --------------------------
(***************************************************************************)
(* The Mode B relay, for any streams, windows, table size and credits.     *)
(*                                                                         *)
(* That no byte and no end is lost is not inductive.  The dangerous step   *)
(* is the generic receive error of pump_dir, which clears what is pending: *)
(* it is harmless because such a half has nothing pending (Held: pending   *)
(* bytes are those of a known stream's live half in the table; Seen: a     *)
(* stream is collected only once its end was read or it was stopped, and   *)
(* a half that does not remember the end it read has nothing pending).     *)
(***************************************************************************)
EXTENDS RawRelay, TLAPS

Held(h) ==
  half[h].pending > 0 =>
    h[1] \in table /\ ~half[h].done /\ Carries(h) /\ known[Src(h)] # "no"

Seen(h) ==
  /\ half[h].fin => finRead[h] /\ srcEnd[h] = "fin"
  /\ finRead[h] => srcEnd[h] # "open"
  /\ finRead[h] /\ srcEnd[h] = "fin" =>
       unread[h] = 0 /\ (half[h].fin \/ half[h].pending = 0)
  /\ Carries(h) /\ known[Src(h)] = "collected" => finRead[h] \/ stopped[h]

Counted(h) ==
  (srcEnd[h] # "reset" /\ ~stopped[h]) =>
     sent[h] = unread[h] + half[h].pending + got[h]

Owed(h) ==
  (finRead[h] /\ srcEnd[h] = "fin" /\ dstEnd[h] = "open" /\ ~stopped[h])
  => h[1] \in table /\ half[h].fin /\ ~half[h].done

Told(h) ==
  /\ got[h] + half[h].pending + unread[h] <= sent[h]
  /\ stopped[h] => stop[h]
  /\ srcEnd[h] = "reset" => unread[h] = 0
  /\ dstEnd[h] = "fin" => /\ srcEnd[h] = "fin" /\ finRead[h] /\ ~stop[h]
                          /\ got[h] = sent[h] /\ (half[h].fin => half[h].done)
  /\ dstEnd[h] = "reset" => srcEnd[h] = "reset" /\ finRead[h] /\ half[h].pending = 0

HalfInv(h) == Held(h) /\ Seen(h) /\ Counted(h) /\ Owed(h) /\ Told(h)

Visited == \A h \in todo : h[1] \in table /\ ~half[h].done

RelayInv ==
  /\ TypeOK /\ Visited
  /\ \A h \in Halves : HalfInv(h)

\* Nothing of direction k changes, except that its stream may be opened.
Untouched(k) ==
  /\ half'[k] = half[k] /\ sent'[k] = sent[k] /\ srcEnd'[k] = srcEnd[k]
  /\ unread'[k] = unread[k] /\ finRead'[k] = finRead[k] /\ got'[k] = got[k]
  /\ dstEnd'[k] = dstEnd[k] /\ stop'[k] = stop[k] /\ stopped'[k] = stopped[k]
  /\ known'[Src(k)] \in {known[Src(k)], "live"}
----------------------------------------------------------------------------
(* The two ends of a direction are streams of the two legs.                *)
LEMMA EndsTyped ==
  ASSUME NEW h \in Halves
  PROVE  /\ Src(h) \in Sids \X Legs /\ Dst(h) \in Sids \X Legs
         /\ h[1] \in Sids /\ h[2] \in Dirs /\ Dst(h)[2] \in Legs
BY DEF Halves, Src, Dst, Legs, Dirs

(* A visit never reads more than there is, nor past the relay window       *)
(* (pump_dir's loop reads while pending is below STREAM_RELAY_WINDOW).     *)
LEMMA TakeBounded ==
  ASSUME TypeOK, NEW h \in Halves
  PROVE  /\ Take(h) \in Nat /\ Take(h) <= unread[h]
         /\ half[h].pending + Take(h) \in 0..Window
<1>1. half[h].pending \in 0..Window /\ unread[h] \in Nat /\ Window \in Nat
  BY WindowAssumption DEF TypeOK
<1> QED BY <1>1, SMT DEF Take

(* Init is typed, the table is empty and nothing was sent.                 *)
LEMMA RelayInitTypes == Init => TypeOK
<1> SUFFICES ASSUME Init PROVE TypeOK
  OBVIOUS
<1>1. Window \in Nat /\ PeerWindow \in Nat
  BY WindowAssumption
<1>2. /\ pc \in {"handshake", "dial", "select", "pump", "closed", "abandoned"}
      /\ todo \subseteq Halves /\ table \subseteq Sids
  BY Zenon DEF Init
<1>3. NewHalf \in [pending : 0..Window, fin : BOOLEAN, done : BOOLEAN]
  BY <1>1 DEF NewHalf
<1>4. half \in [Halves -> [pending : 0..Window, fin : BOOLEAN, done : BOOLEAN]]
  BY <1>3, Zenon DEF Init
<1>5. /\ sent \in [Halves -> Nat] /\ unread \in [Halves -> Nat] /\ got \in [Halves -> Nat]
      /\ buffered \in [Halves -> 0..PeerWindow] /\ credit \in [Legs -> Nat]
  BY <1>1, SMT DEF Init
<1>6. /\ srcEnd \in [Halves -> {"open", "fin", "reset"}]
      /\ dstEnd \in [Halves -> {"open", "fin", "reset"}]
      /\ known \in [Sids \X Legs -> {"no", "live", "collected"}]
  BY Zenon DEF Init
<1>7. /\ finRead \in [Halves -> BOOLEAN] /\ stop \in [Halves -> BOOLEAN]
      /\ stopped \in [Halves -> BOOLEAN]
  BY Zenon DEF Init
<1> QED BY <1>2, <1>4, <1>5, <1>6, <1>7 DEF TypeOK

(* A connection starts with the invariant.                                 *)
LEMMA RelayInitInv == Init => RelayInv
<1> SUFFICES ASSUME Init PROVE RelayInv
  OBVIOUS
<1>1. TypeOK
  BY RelayInitTypes
<1>2. Visited
  BY DEF Init, Visited
<1>3. ASSUME NEW h \in Halves PROVE HalfInv(h)
  <2>1. /\ half[h] = NewHalf /\ sent[h] = 0 /\ unread[h] = 0 /\ got[h] = 0
        /\ srcEnd[h] = "open" /\ finRead[h] = FALSE
        /\ dstEnd[h] = "open" /\ stopped[h] = FALSE
    BY <1>3 DEF Init
  <2>2. known[Src(h)] = "no"
    BY EndsTyped DEF Init
  <2> QED BY <2>1, <2>2 DEF HalfInv, Held, Seen, Counted, Owed, Told, NewHalf
<1> QED BY <1>1, <1>2, <1>3 DEF RelayInv

(* A direction that a step leaves alone keeps its part of the invariant    *)
(* as long as its id stays in the table.                                   *)
LEMMA UntouchedKeeps ==
  ASSUME NEW k \in Halves, HalfInv(k), Untouched(k), k[1] \in table => k[1] \in table'
  PROVE  HalfInv(k)'
BY DEF HalfInv, Held, Seen, Counted, Owed, Told, Untouched, Carries

(* A visit of pump_dir keeps the types: what is read, sent and left over   *)
(* stays within the windows.                                               *)
LEMMA PumpTypes ==
  ASSUME TypeOK, NEW h \in Halves, PumpDir(h)
  PROVE  TypeOK'
<1> USE EndsTyped, TakeBounded
<1>1. Window \in Nat /\ PeerWindow \in Nat
  BY WindowAssumption
<1>2. Visit(h) => pc' = pc /\ table' = table /\ todo' \subseteq Halves
  BY DEF Visit, TypeOK
<1>3. Ended(h) \in [pending : 0..Window, fin : BOOLEAN, done : BOOLEAN]
  <2>1. half[h] \in [pending : 0..Window, fin : BOOLEAN, done : BOOLEAN]
    BY DEF TypeOK
  <2>2. half[h].fin \in BOOLEAN
    BY <2>1
  <2>3. 0 \in 0..Window
    BY <1>1
  <2> QED BY <2>2, <2>3 DEF Ended
<1>4. CASE PumpReset(h)
  BY <1>2, <1>3, <1>4 DEF PumpReset, TypeOK
<1>5. CASE PumpRecvError(h)
  BY <1>2, <1>3, <1>5 DEF PumpRecvError, TypeOK, source, dest
<1>6. Reads(h) => unread' \in [Halves -> Nat] /\ finRead' \in [Halves -> BOOLEAN]
  <2>1. Reads(h) => unread' \in [Halves -> Nat]
    BY DEF Reads, TypeOK
  <2>2. finRead[h] \in BOOLEAN /\ SeesFin(h) \in BOOLEAN
    BY Zenon DEF TypeOK, SeesFin, Reading
  <2>3. (finRead[h] \/ SeesFin(h)) \in BOOLEAN
    BY <2>2
  <2>4. Reads(h) => finRead' \in [Halves -> BOOLEAN]
    BY <2>3 DEF Reads, TypeOK
  <2> QED BY <2>1, <2>4
<1>7. CASE PumpStopped(h)
  BY <1>2, <1>3, <1>6, <1>7 DEF PumpStopped, TypeOK, dest
<1>8. CASE PumpSend(h)
  <2> DEFINE p == half[h].pending + Take(h)
             sends == (p > 0 \/ SeesFin(h)) /\ CanOpen(h)
             n == IF sends THEN Smaller(p, PeerWindow - buffered[h]) ELSE 0
             fin == sends /\ SeesFin(h) /\ n = p
             left == [pending |-> p - n, fin |-> SeesFin(h), done |-> fin]
  <2>1. p \in 0..Window /\ n \in Nat /\ n <= p /\ buffered[h] + n \in 0..PeerWindow
    BY <1>1 DEF TypeOK, Smaller
  <2>2. SeesFin(h) \in BOOLEAN /\ fin \in BOOLEAN
    BY DEF TypeOK, SeesFin, Reading
  <2>3. left \in [pending : 0..Window, fin : BOOLEAN, done : BOOLEAN]
    <3>1. p - n \in 0..Window
      BY <2>1, <1>1
    <3> HIDE DEF p, n, sends, fin
    <3> QED BY <3>1, <2>2
  <2>4. half' = [half EXCEPT ![h] = left]
    BY <1>8 DEF PumpSend
  <2>5. /\ got' = [got EXCEPT ![h] = @ + n] /\ buffered' = [buffered EXCEPT ![h] = @ + n]
        /\ dstEnd' = [dstEnd EXCEPT ![h] = IF fin THEN "fin" ELSE @]
        /\ known' = [known EXCEPT ![Dst(h)] = IF sends THEN "live" ELSE @]
    BY <1>8 DEF PumpSend
  <2>6. credit' = [credit EXCEPT ![Dst(h)[2]] =
                        IF sends /\ known[Dst(h)] = "no" THEN @ - 1 ELSE @]
    BY <1>8 DEF PumpSend
  <2>7. sends /\ known[Dst(h)] = "no" => credit[Dst(h)[2]] > 0
    BY DEF CanOpen
  <2>8. Visit(h) /\ Reads(h) /\ UNCHANGED <<sent, srcEnd, stopped, stop>>
    BY <1>8 DEF PumpSend
  <2> HIDE DEF p, n, sends, fin, left
  <2>9. half' \in [Halves -> [pending : 0..Window, fin : BOOLEAN, done : BOOLEAN]]
    BY <2>3, <2>4 DEF TypeOK
  <2>10. got' \in [Halves -> Nat] /\ buffered' \in [Halves -> 0..PeerWindow]
    BY <2>1, <2>5 DEF TypeOK
  <2>11. /\ dstEnd' \in [Halves -> {"open", "fin", "reset"}]
         /\ known' \in [Sids \X Legs -> {"no", "live", "collected"}]
    BY <2>5 DEF TypeOK
  <2>12. credit' \in [Legs -> Nat]
    BY <2>6, <2>7 DEF TypeOK
  <2> QED BY <1>2, <1>6, <2>8, <2>9, <2>10, <2>11, <2>12 DEF TypeOK
<1> QED BY <1>4, <1>5, <1>7, <1>8 DEF PumpDir

(* Admission (admit_or_refuse) takes new ids only, and only up to the cap. *)
LEMMA AdmittedBounded ==
  ASSUME NEW t, t \subseteq Sids, NEW d, NEW u \in Admitted(t, d)
  PROVE  /\ t \subseteq u /\ u \subseteq Sids
         /\ Cardinality(u) <= MaxRelayStreams
<1> DEFINE new == {s \in Sids : Readable(<<s, d>>)} \ t
<1>1. PICK x \in SUBSET new :
        /\ u = t \cup x
        /\ \/ x = new /\ Cardinality(t \cup new) <= MaxRelayStreams
           \/ x # new /\ Cardinality(t \cup x) = MaxRelayStreams
  BY Zenon DEF Admitted
<1>2. MaxRelayStreams <= MaxRelayStreams
  BY WindowAssumption
<1> QED BY <1>1, <1>2, Zenon

(* Every step keeps the types.                                             *)
LEMMA RelayTypes ==
  ASSUME TypeOK, [Next]_vars
  PROVE  TypeOK'
<1> USE EndsTyped
<1>1. CASE Established \/ Dialed \/ Stop
  BY <1>1 DEF Established, Dialed, Stop, TypeOK, source, dest
<1>2. ASSUME NEW h \in Halves, PeerData(h) PROVE TypeOK'
  BY <1>2 DEF PeerData, TypeOK, relay, dest
<1>3. ASSUME NEW h \in Halves, PeerFin(h) PROVE TypeOK'
  BY <1>3 DEF PeerFin, TypeOK, relay, dest
<1>4. ASSUME NEW h \in Halves, PeerReset(h) PROVE TypeOK'
  BY <1>4 DEF PeerReset, TypeOK, relay, dest
<1>5. ASSUME NEW h \in Halves, PeerStop(h) PROVE TypeOK'
  BY <1>5 DEF PeerStop, TypeOK, relay, source
<1>6. ASSUME NEW h \in Halves, PeerReads(h) PROVE TypeOK'
  BY <1>6, WindowAssumption DEF PeerReads, TypeOK, relay, source
<1>7. ASSUME NEW g \in Legs, Grant(g) PROVE TypeOK'
  BY <1>7 DEF Grant, TypeOK, relay, source, dest
<1>8. ASSUME NEW g \in Legs, NEW s \in Sids, Collect(s, g) PROVE TypeOK'
  BY <1>8 DEF Collect, TypeOK, relay, source, dest
<1>9. CASE StartPass
  <2>1. NewHalf \in [pending : 0..Window, fin : BOOLEAN, done : BOOLEAN]
    BY WindowAssumption DEF NewHalf
  <2>2. PICK t1 \in Admitted(table, "c2u") : \E t2 \in Admitted(t1, "u2c") :
           /\ table' = t2
           /\ half' = [h \in Halves |-> IF h[1] \in t2 \ table THEN NewHalf ELSE half[h]]
           /\ todo' = {h \in t2 \X Dirs : ~half'[h].done}
    BY <1>9 DEF StartPass
  <2>3. table' \subseteq Sids
    <3>1. t1 \subseteq Sids
      BY AdmittedBounded DEF TypeOK
    <3> QED BY <2>2, <3>1, AdmittedBounded
  <2>4. half' \in [Halves -> [pending : 0..Window, fin : BOOLEAN, done : BOOLEAN]]
    BY <2>1, <2>2 DEF TypeOK
  <2>5. todo' \subseteq Halves
    BY <2>2, <2>3 DEF Halves
  <2> QED BY <1>9, <2>3, <2>4, <2>5 DEF StartPass, TypeOK, source, dest
<1>10. CASE Reclaim
  BY <1>10 DEF Reclaim, TypeOK, source, dest
<1>11. CASE UNCHANGED vars
  BY <1>11 DEF TypeOK, vars, relay, source, dest
<1> QED BY <1>1, <1>2, <1>3, <1>4, <1>5, <1>6, <1>7, <1>8, <1>9, <1>10, <1>11, PumpTypes
        DEF Next, Peer, Pass

-----------------------------------------------------------------------------
(* A visit of pump_dir to one direction of a stream keeps the invariant.   *)

(* A visit that receives an error ends a half that holds nothing and owes  *)
(* no end: the silent `Err(_)` arm of pump_dir drops no byte.              *)
LEMMA RecvErrorKeeps ==
  ASSUME TypeOK, NEW h \in Halves, HalfInv(h), PumpRecvError(h)
  PROVE  HalfInv(h)'
<1>1. /\ half[h].pending \in Nat /\ half'[h] = Ended(h) /\ table' = table
      /\ Reading(h) /\ (~Carries(h) \/ known[Src(h)] # "live")
      /\ UNCHANGED <<source, dest, known, credit>>
  BY DEF PumpRecvError, Visit, TypeOK
<1>2. known[Src(h)] \in {"no", "live", "collected"}
  BY EndsTyped DEF TypeOK
<1>3. ~half[h].fin
  BY <1>1, SMTT(30) DEF Reading
<1>4. half[h].pending > 0 => stopped[h] \/ srcEnd[h] = "reset"
  BY <1>1, <1>2, <1>3 DEF HalfInv, Held, Seen, TypeOK
<1>5. ~(finRead[h] /\ srcEnd[h] = "fin" /\ dstEnd[h] = "open" /\ ~stopped[h])
  BY <1>3 DEF HalfInv, Owed
<1>6. Told(h)'
  <2>1. half'[h].pending = 0 /\ half'[h].done /\ (half'[h].fin <=> half[h].fin)
    BY <1>1 DEF Ended
  <2>2. got[h] \in Nat /\ unread[h] \in Nat /\ sent[h] \in Nat
    BY DEF TypeOK
  <2>3. Told(h)
    BY DEF HalfInv
  <2>4. got[h] + half[h].pending + unread[h] <= sent[h]
    BY <2>3 DEF Told
  <2>5. UNCHANGED <<sent, srcEnd, unread, finRead, stop, stopped, got, dstEnd>>
    BY <1>1 DEF source, dest
  <2>6. got'[h] + half'[h].pending + unread'[h] <= sent'[h]
    BY <1>1, <2>1, <2>2, <2>4, <2>5
  <2> QED BY <1>3, <2>1, <2>3, <2>5, <2>6, Zenon DEF Told
<1> QED BY <1>1, <1>3, <1>4, <1>5, <1>6
        DEF HalfInv, Held, Seen, Counted, Owed, Ended, Carries, source, dest

(* A visit that sends keeps the account of the direction: what it reads    *)
(* and does not pass on is pending, and an end that it reads and cannot    *)
(* pass on is remembered (pump_dir's `half.fin` and the put-back of        *)
(* StreamLimit and Done).                                                  *)
LEMMA SendKeeps ==
  ASSUME TypeOK, NEW h \in Halves, HalfInv(h), Visited, PumpSend(h)
  PROVE  HalfInv(h)'
<1> DEFINE p == half[h].pending + Take(h)
           sends == (p > 0 \/ SeesFin(h)) /\ CanOpen(h)
           n == IF sends THEN Smaller(p, PeerWindow - buffered[h]) ELSE 0
           fin == sends /\ SeesFin(h) /\ n = p
           left == [pending |-> p - n, fin |-> SeesFin(h), done |-> fin]
<1>1. /\ half'[h] = left /\ got'[h] = got[h] + n
      /\ dstEnd'[h] = IF fin THEN "fin" ELSE dstEnd[h]
      /\ unread'[h] = unread[h] - Take(h)
      /\ finRead'[h] = (finRead[h] \/ SeesFin(h))
      /\ table' = table /\ h[1] \in table /\ ~half[h].done
      /\ UNCHANGED <<sent, srcEnd, stopped>>
  BY SMTT(30) DEF PumpSend, Reads, Visit, Visited, TypeOK
<1>2. known'[Src(h)] = known[Src(h)] \/ known'[Src(h)] = "live"
  BY EndsTyped, Zenon DEF PumpSend, TypeOK
<1>3. Take(h) > 0 => Reading(h) /\ Carries(h) /\ known[Src(h)] = "live"
  <2>1. Take(h) > 0 => Reading(h)
    BY DEF Take
  <2>2. Reads(h)
    BY Zenon DEF PumpSend
  <2> QED BY <2>1, <2>2 DEF Reads
<1>4. /\ p \in Nat /\ n \in Nat /\ n <= p /\ Take(h) \in Nat /\ Take(h) <= unread[h]
      /\ unread[h] \in Nat /\ got[h] \in Nat /\ half[h].pending \in Nat /\ sent[h] \in Nat
  BY TakeBounded, WindowAssumption DEF TypeOK, Smaller
<1>5. /\ SeesFin(h) => srcEnd[h] = "fin" /\ unread[h] = Take(h)
      /\ half[h].fin => Take(h) = 0 /\ SeesFin(h)
      /\ finRead[h] /\ srcEnd[h] = "fin" => Take(h) = 0 /\ unread[h] = 0
  <2>1. Seen(h)
    BY DEF HalfInv
  <2>2. finRead[h] /\ srcEnd[h] = "fin" => Take(h) = 0 /\ unread[h] = 0
    BY <1>4, <2>1 DEF Seen
  <2>3. half[h].fin => finRead[h] /\ srcEnd[h] = "fin" /\ SeesFin(h)
    BY <2>1 DEF Seen, SeesFin
  <2>4. SeesFin(h) => srcEnd[h] = "fin" /\ unread[h] = Take(h)
    BY <2>2, <2>3 DEF SeesFin
  <2> QED BY <2>2, <2>3, <2>4, Zenon
<1>6. finRead[h] /\ srcEnd[h] = "fin" /\ ~half[h].fin => p = 0 /\ n = 0
  BY <1>4, <1>5, SMTT(30) DEF HalfInv, Seen
<1>7. left.pending = p - n /\ left.fin = SeesFin(h) /\ left.done = fin
  BY SMTT(30)
<1>8. fin => SeesFin(h) /\ n = p
  OBVIOUS
<1> HIDE DEF p, sends, n, fin, left
<1>9. Held(h)'
  <2>1. left.pending > 0 => p > 0 /\ ~fin
    BY <1>4, <1>7, <1>8
  <2>2. p > 0 => half[h].pending > 0 \/ Take(h) > 0
    BY <1>4 DEF p
  <2>3. p > 0 => Carries(h) /\ known[Src(h)] # "no"
    BY <2>2, <1>3 DEF HalfInv, Held
  <2> QED BY <1>1, <1>2, <1>7, <2>1, <2>3 DEF Held, Carries
<1>10. Seen(h)'
  <2>1. finRead'[h] <=> finRead[h] \/ SeesFin(h)
    BY <1>1, Zenon
  <2>2. left.fin <=> SeesFin(h)
    BY <1>7
  <2>3. half'[h].fin => finRead'[h] /\ srcEnd'[h] = "fin"
    BY <1>1, <1>5, <2>1, <2>2
  <2>4. finRead'[h] => srcEnd'[h] # "open"
    BY <1>1, <1>5, <2>1 DEF HalfInv, Seen
  <2>5. finRead'[h] /\ srcEnd'[h] = "fin" =>
          unread'[h] = 0 /\ (half'[h].fin \/ half'[h].pending = 0)
    BY <1>1, <1>4, <1>5, <1>6, <1>7, <2>1, <2>2, SMTT(30)
  <2>6. Carries(h) /\ known'[Src(h)] = "collected" => finRead'[h] \/ stopped'[h]
    BY <1>1, <1>2, <2>1 DEF HalfInv, Seen
  <2> QED BY <2>3, <2>4, <2>5, <2>6 DEF Seen, Carries
<1>11. Counted(h)'
  <2>1. p = half[h].pending + Take(h)
    BY DEF p
  <2> QED BY <1>1, <1>4, <1>7, <2>1, SMTT(30) DEF HalfInv, Counted
<1>12. Owed(h)'
  BY <1>1, <1>5, <1>7, Zenon DEF HalfInv, Owed
<1>13. Told(h)'
  <2>1. p = half[h].pending + Take(h)
    BY DEF p
  <2>2. got'[h] + half'[h].pending + unread'[h] <= sent'[h]
    <3>1. got[h] + half[h].pending + unread[h] <= sent[h]
      BY DEF HalfInv, Told
    <3>2. /\ half'[h].pending = p - n /\ got'[h] = got[h] + n
          /\ unread'[h] = unread[h] - Take(h) /\ sent'[h] = sent[h]
      BY <1>1, <1>7
    <3> QED BY <1>4, <2>1, <3>1, <3>2
  <2>3. stop' = stop /\ (p > 0 \/ SeesFin(h) => ~stop[h])
    BY SMTT(30) DEF PumpSend, p
  <2>4. srcEnd'[h] = "reset" => unread'[h] = 0
    BY <1>1, <1>4, SMTT(30) DEF HalfInv, Told
  <2>5. fin => /\ srcEnd[h] = "fin" /\ finRead'[h] /\ ~stop[h]
              /\ got'[h] = sent[h] /\ half'[h].done
    <3>1. fin => srcEnd[h] = "fin" /\ unread[h] = Take(h) /\ ~stop[h] /\ ~stopped[h] /\ n = p
      BY <1>5, <1>8, <2>3, SMTT(30) DEF HalfInv, Told
    <3>2. fin => got'[h] = sent[h]
      <4>1. fin => sent[h] = unread[h] + half[h].pending + got[h]
        BY <3>1 DEF HalfInv, Counted
      <4>2. got'[h] = got[h] + n
        BY <1>1
      <4> QED BY <1>4, <2>1, <3>1, <4>1, <4>2
    <3>3. fin => finRead'[h] /\ half'[h].done
      BY <1>1, <1>7, <1>8, Zenon
    <3> QED BY <3>1, <3>2, <3>3
  <2>6. ~fin /\ dstEnd[h] = "fin" => p = 0 /\ n = 0 /\ ~SeesFin(h)
    <3>1. dstEnd[h] = "fin" => finRead[h] /\ srcEnd[h] = "fin" /\ ~half[h].fin
      BY <1>1 DEF HalfInv, Told
    <3> QED BY <1>6, <3>1 DEF SeesFin
  <2>7. ~fin /\ dstEnd[h] = "reset" => p = 0 /\ n = 0
    BY <1>4, <2>1 DEF HalfInv, Told
  <2>8. half'[h].fin => SeesFin(h)
    BY <1>1, <1>7
  <2>9. finRead[h] => finRead'[h]
    BY <1>1, Zenon
  <2>10. ~fin => dstEnd'[h] = dstEnd[h]
    BY <1>1
  <2>11. fin => dstEnd'[h] = "fin"
    BY <1>1
  <2>12. dstEnd'[h] = "fin" => /\ srcEnd'[h] = "fin" /\ finRead'[h] /\ ~stop'[h]
                               /\ got'[h] = sent'[h] /\ (half'[h].fin => half'[h].done)
    <3>1. CASE fin
      BY <1>1, <2>3, <2>5, <3>1, SMTT(30)
    <3>2. CASE ~fin
      <4>1. dstEnd[h] = "fin" => srcEnd[h] = "fin" /\ finRead[h] /\ ~stop[h] /\ got[h] = sent[h]
        BY DEF HalfInv, Told
      <4>2. dstEnd[h] = "fin" => got'[h] = got[h]
        BY <1>1, <1>4, <2>6, <3>2, SMTT(30)
      <4>3. dstEnd[h] = "fin" => ~half'[h].fin
        BY <2>6, <2>8, <3>2
      <4> QED BY <1>1, <2>3, <2>9, <2>10, <3>2, <4>1, <4>2, <4>3
    <3> QED BY <3>1, <3>2
  <2>13. dstEnd'[h] = "reset" =>
           srcEnd'[h] = "reset" /\ finRead'[h] /\ half'[h].pending = 0
    <3>1. dstEnd[h] = "reset" => srcEnd[h] = "reset" /\ finRead[h]
      BY DEF HalfInv, Told
    <3>2. ~fin /\ dstEnd[h] = "reset" => half'[h].pending = 0
      BY <1>1, <1>7, <2>7
    <3> QED BY <1>1, <2>9, <2>10, <2>11, <3>1, <3>2
  <2> QED BY <1>1, <2>2, <2>3, <2>4, <2>12, <2>13, Zenon DEF HalfInv, Told
<1> QED BY <1>9, <1>10, <1>11, <1>12, <1>13 DEF HalfInv

(* A visit of one direction keeps the invariant of all.                    *)
LEMMA PumpKeeps ==
  ASSUME RelayInv, NEW h \in Halves, PumpDir(h)
  PROVE  Visited' /\ \A k \in Halves : HalfInv(k)'
<1>1. TypeOK /\ Visited /\ HalfInv(h)
  BY DEF RelayInv
<1>2. /\ todo' \subseteq todo /\ h \notin todo' /\ table' = table
      /\ \A k \in Halves : k # h => half'[k] = half[k]
  BY <1>1, SMTT(30) DEF PumpDir, PumpReset, PumpRecvError, PumpStopped, PumpSend, Visit, TypeOK
<1>3. Visited'
  BY <1>1, <1>2 DEF Visited, TypeOK
<1>4. ASSUME NEW k \in Halves, k # h PROVE Untouched(k)
  <2>1. CASE PumpReset(h)
    BY <1>1, <1>4, <2>1 DEF PumpReset, Untouched, TypeOK
  <2>2. CASE PumpRecvError(h)
    BY <1>1, <1>4, <2>2 DEF PumpRecvError, Untouched, TypeOK, source, dest
  <2>3. CASE PumpStopped(h)
    BY <1>1, <1>4, <2>3 DEF PumpStopped, Reads, Untouched, TypeOK, dest
  <2>4. CASE PumpSend(h)
    <3>1. known'[Src(k)] \in {known[Src(k)], "live"}
      BY <1>1, <2>4, EndsTyped, Zenon DEF PumpSend, TypeOK
    <3>2. /\ half'[k] = half[k] /\ got'[k] = got[k] /\ dstEnd'[k] = dstEnd[k]
          /\ unread'[k] = unread[k] /\ finRead'[k] = finRead[k]
      BY <1>1, <1>4, <2>4, Zenon DEF PumpSend, Reads, TypeOK
    <3> QED BY <2>4, <3>1, <3>2, Zenon DEF PumpSend, Untouched
  <2> QED BY <2>1, <2>2, <2>3, <2>4 DEF PumpDir
<1>5. HalfInv(h)'
  <2>1. CASE PumpReset(h)
    <3>1. /\ half'[h] = Ended(h) /\ finRead'[h] /\ srcEnd'[h] = "reset" /\ ~half[h].fin
          /\ known' = known
      BY <1>1, <2>1 DEF PumpReset, Reading, TypeOK
    <3>2. Told(h)'
      <4>1. got[h] \in Nat /\ unread[h] \in Nat /\ sent[h] \in Nat /\ half[h].pending \in Nat
        BY <1>1 DEF TypeOK
      <4>2. /\ half'[h].pending = 0 /\ srcEnd[h] = "reset"
            /\ UNCHANGED <<got, unread, sent, stop, stopped>>
            /\ dstEnd'[h] \in {dstEnd[h], "reset"}
        BY <1>1, <2>1 DEF PumpReset, Ended, TypeOK
      <4>3. Told(h)
        BY <1>1 DEF HalfInv
      <4>4. got'[h] + half'[h].pending + unread'[h] <= sent'[h] /\ unread'[h] = 0
        <5>1. got[h] + half[h].pending + unread[h] <= sent[h] /\ unread[h] = 0
          BY <4>2, <4>3 DEF Told
        <5> QED BY <4>1, <4>2, <5>1
      <4>5. dstEnd'[h] # "fin" /\ (stopped'[h] => stop'[h])
        <5>1. dstEnd[h] # "fin" /\ (stopped[h] => stop[h])
          BY <4>2, <4>3, Zenon DEF Told
        <5> QED BY <4>2, <5>1
      <4> QED BY <3>1, <4>2, <4>4, <4>5, Zenon DEF Told
    <3>3. half'[h].pending = 0 /\ (half'[h].fin <=> half[h].fin)
      BY <3>1 DEF Ended
    <3>4. Held(h)' /\ Counted(h)' /\ Owed(h)'
      BY <3>1, <3>3 DEF Held, Counted, Owed
    <3>5. Seen(h)'
      BY <3>1, <3>3 DEF Seen
    <3> QED BY <3>2, <3>4, <3>5 DEF HalfInv
  <2>2. CASE PumpRecvError(h)
    BY <1>1, <2>2, RecvErrorKeeps
  <2>3. CASE PumpStopped(h)
    <3>1. /\ half'[h] = Ended(h) /\ stopped'[h] /\ srcEnd' = srcEnd /\ known' = known
          /\ unread'[h] = unread[h] - Take(h) /\ finRead'[h] = (finRead[h] \/ SeesFin(h))
      BY <1>1, <2>3 DEF PumpStopped, Reads, TypeOK
    <3>2. Take(h) \in Nat /\ Take(h) <= unread[h] /\ unread[h] \in Nat
      BY <1>1, TakeBounded DEF TypeOK
    <3>3. SeesFin(h) => srcEnd[h] = "fin" /\ unread[h] = Take(h)
      BY <1>1, <3>2, SMTT(30) DEF SeesFin, HalfInv, Seen, Take, Reading
    <3>4. Seen(h)'
      <4>1. finRead'[h] <=> finRead[h] \/ SeesFin(h)
        BY <3>1, Zenon
      <4>2. half'[h].pending = 0 /\ (half'[h].fin <=> half[h].fin)
        BY <3>1, SMTT(30) DEF Ended
      <4>3. finRead'[h] /\ srcEnd'[h] = "fin" => unread'[h] = 0
        BY <1>1, <3>1, <3>2, <3>3, <4>1, SMTT(30) DEF HalfInv, Seen
      <4> QED BY <1>1, <3>1, <3>3, <4>1, <4>2, <4>3, Zenon DEF HalfInv, Seen, Carries
    <3>5. Told(h)'
      <4>1. got[h] \in Nat /\ sent[h] \in Nat /\ half[h].pending \in Nat
        BY <1>1 DEF TypeOK
      <4>2. /\ half'[h].pending = 0 /\ stop[h] /\ UNCHANGED <<got, dstEnd, sent, stop>>
            /\ (finRead[h] => finRead'[h])
        <5>1. finRead'[h] <=> finRead[h] \/ SeesFin(h)
          BY <3>1, Zenon
        <5>2. stop[h] /\ UNCHANGED dest /\ UNCHANGED sent
          BY <2>3 DEF PumpStopped
        <5>3. half'[h].pending = 0
          BY <3>1 DEF Ended
        <5> QED BY <5>1, <5>2, <5>3 DEF dest
      <4>3. Told(h)
        BY <1>1 DEF HalfInv
      <4>4. got'[h] + half'[h].pending + unread'[h] <= sent'[h]
        <5>1. got[h] + half[h].pending + unread[h] <= sent[h]
          BY <4>3 DEF Told
        <5> QED BY <3>1, <3>2, <4>1, <4>2, <5>1
      <4>5. srcEnd'[h] = "reset" => unread'[h] = 0
        <5>1. srcEnd[h] = "reset" => unread[h] = 0
          BY <4>3 DEF Told
        <5> QED BY <3>1, <3>2, <5>1
      <4>6. dstEnd'[h] # "fin"
        <5>1. dstEnd[h] # "fin"
          BY <4>2, <4>3, Zenon DEF Told
        <5> QED BY <4>2, <5>1
      <4> QED BY <3>1, <4>2, <4>3, <4>4, <4>5, <4>6, Zenon DEF Told
    <3>6. half'[h].pending = 0
      BY <3>1 DEF Ended
    <3>7. Held(h)' /\ Counted(h)' /\ Owed(h)'
      BY <3>1, <3>6, SMTT(30) DEF Held, Counted, Owed
    <3> QED BY <3>4, <3>5, <3>7 DEF HalfInv
  <2>4. CASE PumpSend(h)
    BY <1>1, <2>4, SendKeeps
  <2> QED BY <2>1, <2>2, <2>3, <2>4 DEF PumpDir
<1>6. ASSUME NEW k \in Halves PROVE HalfInv(k)'
  BY <1>2, <1>4, <1>5, UntouchedKeeps DEF RelayInv
<1> QED BY <1>3, <1>6
=============================================================================
