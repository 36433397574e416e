---------------------------- MODULE ServiceProofs ----------------------------
(***************************************************************************)
(* Proofs about what every proxy of the process relies on: which answers   *)
(* the resolver gives, when a send to a backend may give up, and that the  *)
(* process reports about itself what happened.                             *)
(***************************************************************************)
EXTENDS Http2Upstream, DnsResolver, Observability, FiniteSetTheorems, TLAPS

-----------------------------------------------------------------------------
(***************************************************************************)
(* The resolver.                                                           *)
(***************************************************************************)

DnsPlaces == {"out", "look", "fill", "got", "next"}

DnsTask == [at : DnsPlaces, host : Hosts \cup {"none"}, cell : DnsCells \cup {"none"},
            late : BOOLEAN, had : BOOLEAN, todo : SUBSET Hosts,
            answer : {"none", "ok", "late", "pos", "neg"}]

DnsTypes ==
  /\ DnsTypeOK
  /\ dnsLapsed \subseteq DnsCells
  /\ dnsTask \in [Tasks -> DnsTask]
  /\ \A t \in Tasks : dnsTask[t].at \in {"look", "fill"} =>
                         dnsTask[t].cell \in DnsCells /\ dnsTask[t].host \in Hosts

\* Only a filled cell lapses; and a call that came too late for its cell's
\* answer still looks at the lapsed cell, which it will replace.
LateLooks ==
  /\ \A c \in dnsLapsed : dnsValue[c] # "empty"
  /\ \A t \in Tasks : dnsTask[t].late => dnsTask[t].at = "look" /\ dnsTask[t].cell \in dnsLapsed

DnsInv == DnsTypes /\ LateLooks /\ FreshAnswer /\ FillerWaits

\* What the refresh's step to the next key makes of its record.
LEMMA NextRecord ==
  ASSUME NEW r \in DnsTask, NEW hs \in SUBSET Hosts
  PROVE  LET new == [r EXCEPT !.at = "next", !.todo = hs]
         IN  /\ new \in DnsTask /\ new.at = "next" /\ new.late = r.late /\ new.answer = r.answer
  BY Zenon DEF DnsTask, DnsPlaces

\* An empty cache.
LEMMA DnsInitInv == DnsInit => DnsInv
  BY DnsAssumption, SMT DEF DnsInit, DnsInv, DnsTypes, DnsTypeOK, DnsTask, DnsPlaces, LateLooks, FreshAnswer, FillerWaits, Rest

\* A fresh cell is nobody's: no task looks at it, fills it or came late for
\* it, so putting it in place of another disturbs no one.
LEMMA ReplaceKeeps ==
  ASSUME DnsInv, NEW t \in Tasks, NEW h \in Hosts, NEW place \in {"look", "fill"},
         NEW had \in BOOLEAN, Replace(t, h, place, had), dnsTask[t].at # "fill"
  PROVE  DnsInv'
<1> USE DnsAssumption DEF DnsInv, DnsTypes, DnsTypeOK, DnsTask, DnsPlaces, Replace
<1>1. NewCell \in DnsCells /\ NewCell \in Unreferenced
  BY Zenon DEF NewCell, Unreferenced
<1>2. ASSUME NEW u \in Tasks, dnsTask[u].cell \in DnsCells PROVE dnsTask[u].cell \notin Unreferenced
  BY <1>2, Zenon DEF Unreferenced
<1> HIDE DEF NewCell, Unreferenced
<1>3. /\ dnsTask'[t].at = place /\ dnsTask'[t].cell = NewCell /\ dnsTask'[t].late = FALSE
      /\ dnsTask'[t].host = h /\ dnsTask'[t].answer = dnsTask[t].answer
  BY SMT
<1>4. \A u \in Tasks : u # t => dnsTask'[u] = dnsTask[u]
  BY SMT
<1>5. DnsTypes'
  BY <1>1, <1>3, <1>4, SMT DEF Unreferenced
<1>6. LateLooks'
  BY <1>1, <1>2, <1>3, <1>4, SMT DEF LateLooks
<1>7. FreshAnswer'
  BY <1>3, <1>4, SMT DEF FreshAnswer
<1>8. FillerWaits'
  BY <1>1, <1>2, <1>3, <1>4, SMT DEF FillerWaits
<1> QED BY <1>5, <1>6, <1>7, <1>8, Zenon DEF DnsInv

\* A task that is not filling may move on, as long as it is late only for a
\* lapsed cell that it looks at.
LEMMA TaskMoves ==
  ASSUME DnsInv, NEW t \in Tasks, dnsTask' \in [Tasks -> DnsTask],
         \A u \in Tasks : u # t => dnsTask'[u] = dnsTask[u],
         UNCHANGED <<dnsCache, dnsValue, dnsLapsed, dnsFiller>>,
         dnsTask[t].at # "fill" \/ dnsValue[dnsTask[t].cell] # "empty",
         dnsTask'[t].at \in {"look", "fill"} => dnsTask'[t].cell \in DnsCells /\ dnsTask'[t].host \in Hosts,
         dnsTask'[t].late => dnsTask'[t].at = "look" /\ dnsTask'[t].cell \in dnsLapsed,
         dnsTask'[t].answer # "late"
  PROVE  DnsInv'
<1>1. DnsTypes'
  BY Zenon DEF DnsInv, DnsTypes, DnsTypeOK
<1>2. LateLooks' /\ FreshAnswer'
  BY Zenon DEF DnsInv, LateLooks, FreshAnswer
<1>3. FillerWaits'
  <2>0. t # "none"
    BY DnsAssumption DEF Tasks
  <2>1. \A c \in DnsCells : dnsFiller[c] # t
    BY <2>0, SMT DEF DnsInv, FillerWaits
  <2> QED BY <2>1, SMT DEF DnsInv, DnsTypes, DnsTypeOK, FillerWaits
<1> QED BY <1>1, <1>2, <1>3, Zenon DEF DnsInv

\* The step of a task that has its answer, in these terms.
LEMMA GotMoves ==
  ASSUME dnsTask \in [Tasks -> DnsTask], NEW t \in Tasks, NEW v \in {"pos", "neg"}, Got(t, v),
         ~dnsTask[t].late
  PROVE  /\ dnsTask' \in [Tasks -> DnsTask]
         /\ \A u \in Tasks : u # t => dnsTask'[u] = dnsTask[u]
         /\ dnsTask'[t].at = "got" /\ ~dnsTask'[t].late /\ dnsTask'[t].answer # "late"
<1> DEFINE a == IF t = Refresher THEN v ELSE "ok"
           r == dnsTask[t]
           new == [r EXCEPT !.at = "got", !.cell = "none", !.answer = a]
<1>1. r \in DnsTask /\ ~r.late /\ a \in {"ok", "pos", "neg"} /\ a # "late"
  BY Zenon
<1>3. dnsTask'[t] = new
  BY Zenon DEF Got
<1> HIDE DEF a, r
<1>2. new \in DnsTask /\ new.at = "got" /\ new.late = r.late /\ new.answer = a
  BY <1>1, Zenon DEF DnsTask, DnsPlaces
<1> HIDE DEF new
<1>4. \A u \in Tasks : u # t => dnsTask'[u] = dnsTask[u]
  BY Zenon DEF Got
<1>5. dnsTask' \in [Tasks -> DnsTask]
  <2>1. \A u \in Tasks : dnsTask'[u] \in DnsTask
    BY <1>2, <1>3, <1>4, Zenon
  <2>2. dnsTask' = [u \in Tasks |-> dnsTask'[u]]
    BY Zenon DEF Got
  <2> QED BY <2>1, <2>2, Zenon
<1> QED BY <1>1, <1>2, <1>3, <1>4, <1>5, Zenon

\* Every step of the callers, the cells and the refresh keeps it.
LEMMA DnsStepInv == DnsInv /\ [DnsNext]_dnsVars => DnsInv'
<1> SUFFICES ASSUME DnsInv, [DnsNext]_dnsVars PROVE DnsInv'
  OBVIOUS
<1>0. /\ Refresher \in Tasks /\ DnsCalls \subseteq Tasks
      /\ Rest \in DnsTask /\ Rest.at = "out" /\ ~Rest.late /\ Rest.answer = "none"
  BY Zenon DEF Tasks, Rest, DnsTask, DnsPlaces
<1>1. ASSUME NEW t \in DnsCalls, Resolve(t) PROVE DnsInv'
  <2>1. dnsTask[t] = Rest /\ dnsTask[t].at # "fill" /\ t \in Tasks
    BY <1>0, <1>1, Zenon DEF Resolve
  <2>2. ASSUME NEW h \in Hosts, Replace(t, h, "look", FALSE) PROVE DnsInv'
    BY <2>1, <2>2, ReplaceKeeps, Zenon
  <2>3. ASSUME NEW h \in Hosts, dnsCache[h] # "none",
               dnsTask' = [dnsTask EXCEPT ![t] = [Rest EXCEPT !.at = "look", !.host = h,
                            !.cell = dnsCache[h], !.late = dnsCache[h] \in dnsLapsed]],
               UNCHANGED <<dnsCache, dnsValue, dnsLapsed, dnsFiller>>
        PROVE  DnsInv'
    <3> DEFINE l == dnsCache[h] \in dnsLapsed
               new == [Rest EXCEPT !.at = "look", !.host = h, !.cell = dnsCache[h],
                                   !.late = l]
    <3>1. dnsCache[h] \in DnsCells /\ dnsTask \in [Tasks -> DnsTask]
      BY <2>3 DEF DnsInv, DnsTypes, DnsTypeOK
    <3>4. l \in BOOLEAN
      OBVIOUS
    <3> HIDE DEF l
    <3>2. /\ new \in DnsTask /\ new.at = "look" /\ new.cell = dnsCache[h] /\ new.host = h
          /\ new.answer = "none" /\ new.late = l
      BY <1>0, <3>1, <3>4, Zenon DEF DnsTask, DnsPlaces
    <3>5. new.late => dnsCache[h] \in dnsLapsed
      BY <3>2, Zenon DEF l
    <3> HIDE DEF new
    <3>3. /\ dnsTask'[t] = new /\ dnsTask' \in [Tasks -> DnsTask]
          /\ \A u \in Tasks : u # t => dnsTask'[u] = dnsTask[u]
      BY <2>1, <2>3, <3>1, <3>2, Zenon DEF new, l
    <3>6. /\ dnsTask'[t].at = "look" /\ dnsTask'[t].cell \in DnsCells /\ dnsTask'[t].host \in Hosts
          /\ dnsTask'[t].late => dnsTask'[t].cell \in dnsLapsed
          /\ dnsTask'[t].answer # "late"
      BY <3>1, <3>2, <3>3, <3>5
    <3>7. UNCHANGED <<dnsCache, dnsValue, dnsLapsed, dnsFiller>>
      BY <2>3
    <3> QED BY <2>1, <3>3, <3>6, <3>7, TaskMoves, Zenon
  <2> QED BY <1>1, <2>2, <2>3, Zenon DEF Resolve
<1>2. ASSUME NEW t \in Tasks, NEW v \in {"pos", "neg"}, Got(t, v),
             UNCHANGED <<dnsCache, dnsValue, dnsLapsed, dnsFiller>>,
             dnsTask[t].at # "fill" \/ dnsValue[dnsTask[t].cell] # "empty", ~dnsTask[t].late
      PROVE  DnsInv'
  BY <1>2, GotMoves, TaskMoves, Zenon DEF DnsInv, DnsTypes
<1>3. ASSUME NEW t \in Tasks, Look(t) PROVE DnsInv'
  <2> DEFINE c == dnsTask[t].cell
  <2>1. /\ dnsTask[t].at = "look" /\ c \in DnsCells /\ dnsTask[t].host \in Hosts
        /\ dnsTask[t] \in DnsTask /\ dnsTask \in [Tasks -> DnsTask]
    BY <1>3, Zenon DEF Look, DnsInv, DnsTypes
  <2>2. CASE Replace(t, dnsTask[t].host, "fill", FALSE)
    BY <2>1, <2>2, ReplaceKeeps, Zenon
  <2>3. CASE dnsTask' = [dnsTask EXCEPT ![t].at = "fill"] /\ dnsValue[c] = "empty"
             /\ UNCHANGED <<dnsCache, dnsValue, dnsLapsed, dnsFiller>>
    <3> DEFINE new == [dnsTask[t] EXCEPT !.at = "fill"]
    <3>1. ~dnsTask[t].late /\ dnsTask[t].answer # "late"
      BY <2>3 DEF DnsInv, LateLooks, FreshAnswer
    <3>2. /\ new \in DnsTask /\ new.cell = c /\ new.host = dnsTask[t].host
          /\ new.late = dnsTask[t].late /\ new.answer = dnsTask[t].answer
      BY <2>1, Zenon DEF DnsTask, DnsPlaces
    <3> HIDE DEF new
    <3>3. /\ dnsTask'[t] = new /\ dnsTask' \in [Tasks -> DnsTask]
          /\ \A u \in Tasks : u # t => dnsTask'[u] = dnsTask[u]
      BY <2>1, <2>3, <3>2, Zenon DEF new
    <3> QED BY <2>1, <2>3, <3>1, <3>2, <3>3, TaskMoves, Zenon
  <2>4. CASE Got(t, dnsValue[c]) /\ dnsValue[c] # "empty" /\ c \notin dnsLapsed
             /\ UNCHANGED <<dnsCache, dnsValue, dnsLapsed, dnsFiller>>
    <3>1. dnsValue[c] \in {"pos", "neg"} /\ ~dnsTask[t].late
      BY <2>1, <2>4 DEF DnsInv, DnsTypes, DnsTypeOK, LateLooks
    <3> QED BY <1>2, <2>1, <2>4, <3>1
  <2> QED BY <1>3, <2>2, <2>3, <2>4, Zenon DEF Look
<1>4. ASSUME NEW t \in Tasks, BeginFill(t) PROVE DnsInv'
  <2>1. DnsTypes' /\ LateLooks' /\ FreshAnswer'
    BY <1>4 DEF BeginFill, DnsInv, DnsTypes, DnsTypeOK, LateLooks, FreshAnswer
  <2>2. FillerWaits'
    BY <1>4 DEF BeginFill, DnsInv, DnsTypes, DnsTypeOK, FillerWaits
  <2> QED BY <2>1, <2>2 DEF DnsInv
<1>5. ASSUME NEW t \in Tasks, EndFill(t) PROVE DnsInv'
  <2> DEFINE c == dnsTask[t].cell
  <2>1. PICK v \in {"pos", "neg"} : dnsValue' = [dnsValue EXCEPT ![c] = v] /\ Got(t, v)
    BY <1>5, Zenon DEF EndFill
  <2>2. /\ dnsTask[t].at = "fill" /\ c \in DnsCells /\ dnsFiller[c] = t
        /\ dnsFiller' = [dnsFiller EXCEPT ![c] = "none"] /\ UNCHANGED <<dnsCache, dnsLapsed>>
        /\ dnsTask \in [Tasks -> DnsTask]
    BY <1>5, Zenon DEF EndFill, DnsInv, DnsTypes
  <2>3. ~dnsTask[t].late
    BY <2>2 DEF DnsInv, LateLooks
  <2>6. /\ dnsTask' \in [Tasks -> DnsTask]
        /\ dnsTask'[t].at = "got" /\ ~dnsTask'[t].late /\ dnsTask'[t].answer # "late"
    BY <2>1, <2>2, <2>3, GotMoves, Zenon
  <2>7. \A u \in Tasks : u # t => dnsTask'[u] = dnsTask[u]
    BY <2>1, <2>2, <2>3, GotMoves, Zenon
  <2>8. DnsTypes'
    <3>1. DnsTypeOK' /\ (dnsLapsed \subseteq DnsCells)'
      BY <2>1, <2>2 DEF DnsInv, DnsTypes, DnsTypeOK
    <3> QED BY <2>6, <2>7, <3>1, Zenon DEF DnsInv, DnsTypes
  <2>9. LateLooks' /\ FreshAnswer'
    BY <2>1, <2>2, <2>6, <2>7 DEF DnsInv, DnsTypes, DnsTypeOK, LateLooks, FreshAnswer
  <2>10. FillerWaits'
    BY <2>1, <2>2, <2>7 DEF DnsInv, DnsTypes, DnsTypeOK, FillerWaits
  <2> QED BY <2>8, <2>9, <2>10 DEF DnsInv
<1>6. ASSUME NEW t \in Tasks, Materialize(t) PROVE DnsInv'
  <2>1. /\ dnsTask[t].at = "fill" /\ dnsTask[t].cell \in DnsCells
        /\ dnsValue[dnsTask[t].cell] \in {"pos", "neg"} /\ ~dnsTask[t].late
    BY <1>6 DEF Materialize, DnsInv, DnsTypes, DnsTypeOK, LateLooks
  <2> QED BY <1>2, <1>6, <2>1, Zenon DEF Materialize
<1>7. ASSUME NEW t \in Tasks, Return(t) PROVE DnsInv'
  <2>1. dnsTask \in [Tasks -> DnsTask] /\ dnsTask' = [dnsTask EXCEPT ![t] = Rest]
    BY <1>7, Zenon DEF Return, DnsInv, DnsTypes
  <2>2. /\ dnsTask'[t] = Rest /\ dnsTask' \in [Tasks -> DnsTask]
        /\ \A u \in Tasks : u # t => dnsTask'[u] = dnsTask[u]
    BY <1>0, <2>1, Zenon
  <2> QED BY <1>0, <1>7, <2>2, TaskMoves, Zenon DEF Return
<1>8. ASSUME NEW t \in Tasks, CancelCall(t) PROVE DnsInv'
  <2>1. dnsTask \in [Tasks -> DnsTask] /\ dnsTask' = [dnsTask EXCEPT ![t] = Rest]
    BY <1>8, Zenon DEF CancelCall, DnsInv, DnsTypes
  <2>2. dnsTask'[t] = Rest /\ dnsTask' \in [Tasks -> DnsTask]
    BY <1>0, <2>1, Zenon
  <2>3. \A u \in Tasks : u # t => dnsTask'[u] = dnsTask[u]
    BY <2>1, Zenon
  <2>4. \A c \in DnsCells : dnsFiller'[c] # t /\ (dnsFiller'[c] # "none" => dnsFiller'[c] = dnsFiller[c])
    BY <1>8, DnsAssumption, SMT DEF CancelCall, Tasks
  <2>5. DnsTypes'
    <3>1. DnsTypeOK' /\ (dnsLapsed \subseteq DnsCells)'
      BY <1>8 DEF CancelCall, DnsInv, DnsTypes, DnsTypeOK
    <3> QED BY <1>0, <2>2, <2>3, <3>1, Zenon DEF DnsInv, DnsTypes
  <2>6. LateLooks' /\ FreshAnswer'
    BY <1>0, <1>8, <2>2, <2>3, Zenon DEF CancelCall, DnsInv, LateLooks, FreshAnswer
  <2>7. FillerWaits'
    BY <1>8, <2>3, <2>4 DEF CancelCall, DnsInv, DnsTypes, DnsTypeOK, FillerWaits
  <2> QED BY <2>5, <2>6, <2>7 DEF DnsInv
<1>9. ASSUME NEW c \in DnsCells, Lapse(c) PROVE DnsInv'
  BY <1>9 DEF Lapse, DnsInv, DnsTypes, DnsTypeOK, LateLooks, FreshAnswer, FillerWaits
<1>10. ASSUME NEW hs \in SUBSET Hosts,
              dnsTask' = [dnsTask EXCEPT ![Refresher] = [Rest EXCEPT !.at = "next", !.todo = hs]],
              UNCHANGED <<dnsCache, dnsValue, dnsLapsed, dnsFiller>>, dnsTask[Refresher].at # "fill"
       PROVE  DnsInv'
  <2> DEFINE new == [Rest EXCEPT !.at = "next", !.todo = hs]
  <2>1. new \in DnsTask /\ new.at = "next" /\ ~new.late /\ new.answer = "none"
    BY <1>0, NextRecord, Zenon
  <2> HIDE DEF new
  <2>2. /\ dnsTask'[Refresher] = new /\ dnsTask' \in [Tasks -> DnsTask]
        /\ \A u \in Tasks : u # Refresher => dnsTask'[u] = dnsTask[u]
    BY <1>0, <1>10, <2>1, Zenon DEF new, DnsInv, DnsTypes
  <2> QED BY <1>0, <1>10, <2>1, <2>2, TaskMoves, Zenon
<1>14. CASE RefreshBegin
  BY <1>10, <1>14, Zenon DEF RefreshBegin
<1>11. CASE RefreshKey
  <2>1. PICK h \in dnsTask[Refresher].todo :
          Replace(Refresher, h, "fill", dnsValue[dnsCache[h]] = "pos" /\ dnsCache[h] \notin dnsLapsed)
    BY <1>11, Zenon DEF RefreshKey
  <2>2. h \in Hosts /\ dnsTask[Refresher].at # "fill"
    BY <1>0, <1>11, SMT DEF RefreshKey, DnsInv, DnsTypes, DnsTask
  <2>3. (dnsValue[dnsCache[h]] = "pos" /\ dnsCache[h] \notin dnsLapsed) \in BOOLEAN
    BY Zenon
  <2> QED BY <1>0, <2>1, <2>2, <2>3, ReplaceKeeps, Zenon
<1>12. CASE RefreshNext
  <2>1. dnsTask[Refresher].todo \in SUBSET Hosts /\ dnsTask \in [Tasks -> DnsTask]
    BY <1>0, Zenon DEF DnsInv, DnsTypes, DnsTask
  <2>2. CASE dnsTask' = [dnsTask EXCEPT ![Refresher] = Rest]
    <3>1. /\ dnsTask'[Refresher] = Rest /\ dnsTask' \in [Tasks -> DnsTask]
          /\ \A u \in Tasks : u # Refresher => dnsTask'[u] = dnsTask[u]
      BY <1>0, <2>1, <2>2, Zenon
    <3>2. /\ dnsTask[Refresher].at # "fill" /\ UNCHANGED <<dnsCache, dnsValue, dnsLapsed, dnsFiller>>
      BY <1>12, Zenon DEF RefreshNext
    <3> QED BY <1>0, <3>1, <3>2, TaskMoves, Zenon
  <2> QED BY <1>10, <1>12, <2>1, <2>2, Zenon DEF RefreshNext
<1>13. CASE UNCHANGED dnsVars
  BY <1>13 DEF dnsVars, DnsInv, DnsTypes, DnsTypeOK, LateLooks, FreshAnswer, FillerWaits
<1> QED
  BY <1>1, <1>3, <1>4, <1>5, <1>6, <1>7, <1>8, <1>9, <1>11, <1>12, <1>13, <1>14, Zenon
     DEF DnsNext, Work

\* No call gets an answer that had lapsed when it was made, and the filler of
\* a cell always waits on it, whatever callers, cancellations, expiries and
\* refreshes interleave (DnsResolver::resolve, refresh_all).
THEOREM ResolverIsFresh == DnsSpec => []AnswersFresh
<1>1. DnsInv => AnswersFresh
  BY DEF DnsInv, DnsTypes, AnswersFresh
<1> QED BY DnsInitInv, DnsStepInv, <1>1, PTL DEF DnsSpec


-----------------------------------------------------------------------------
(***************************************************************************)
(* The deadline of a send.                                                 *)
(***************************************************************************)

SendTypes ==
  /\ SendTypeOK
  /\ sendComplete \in BOOLEAN /\ sendHead \in BOOLEAN
  /\ sendUploaded \in Nat /\ (~sendComplete => sendUploaded = EndOfTime)
  /\ sendComplete => sendUploaded <= sendNow
  /\ sendLoop \in [at : {"top", "select", "recheck", "ok", "idle", "head"}, complete : BOOLEAN,
                   deadline : Int, anchor : Int]

\* Where the loop judges, time stands still: a pump that finishes there
\* finishes now.
Judging ==
  /\ sendLoop.at \in {"top", "recheck"} =>
       ~sendLoop.complete /\ (sendComplete => sendNow <= sendUploaded + IdleLimit)
  /\ sendLoop.at = "top" /\ ~sendComplete => sendNow - sendProgress <= IdleLimit
  /\ sendLoop.at = "recheck" => sendUploaded >= sendNow

\* Asleep, it wakes no later than the limit after the last progress it can
\* know of, or after the end of the upload.
Asleep ==
  sendLoop.at = "select" =>
    /\ sendNow <= sendLoop.deadline
    /\ ~sendLoop.complete => sendLoop.deadline <= (IF sendComplete THEN sendUploaded ELSE sendProgress) + IdleLimit
    /\ sendLoop.complete => /\ sendComplete
                            /\ sendUploaded + HeadLimit <= sendLoop.deadline
                            /\ sendLoop.deadline <= sendUploaded + IdleLimit + HeadLimit

\* The anchor is set by the turn that saw the end of the upload.
Anchored == sendLoop.at \in {"top", "recheck"} \/ (sendLoop.at = "select" /\ ~sendLoop.complete)
              => sendLoop.anchor = NoAnchor

SendInv == SendTypes /\ Judging /\ Asleep /\ Anchored

\* The anchor of a send that has none is a number, beside every deadline.
LEMMA NoAnchorInt == NoAnchor \in Int /\ 0 \in Int
  BY DEF NoAnchor

\* A send begins with nothing uploaded and no anchor.
LEMMA SendInitInv == SendInit => SendInv
<1> SUFFICES ASSUME SendInit PROVE SendInv
  OBVIOUS
<1>1. /\ sendLoop.at = "top" /\ ~sendLoop.complete /\ sendLoop.anchor = NoAnchor
      /\ sendLoop \in [at : {"top", "select", "recheck", "ok", "idle", "head"}, complete : BOOLEAN,
                       deadline : Int, anchor : Int]
  BY NoAnchorInt, Zenon DEF SendInit
<1>2. sendNow = 0 /\ sendProgress = 0 /\ sendComplete = FALSE /\ sendUploaded = EndOfTime /\ sendHead = FALSE
  BY DEF SendInit
<1>3. SendTypes
  <2>1. SendTypeOK
    BY <1>1, <1>2, SendAssumption DEF SendTypeOK
  <2>2. /\ sendUploaded \in Nat /\ (~sendComplete => sendUploaded = EndOfTime)
        /\ (sendComplete => sendUploaded <= sendNow) /\ sendComplete \in BOOLEAN /\ sendHead \in BOOLEAN
    BY <1>2, SendAssumption, Zenon
  <2> QED BY <1>1, <2>1, <2>2, Zenon DEF SendTypes
<1>4. Judging /\ Asleep /\ Anchored
  BY <1>1, <1>2, SendAssumption DEF Judging, Asleep, Anchored
<1> QED BY <1>3, <1>4 DEF SendInv

\* Every step of the loop, the pump and the clock keeps it, and gives the
\* verdict only when it is due.
LEMMA SendStepInv == SendInv /\ [SendNext]_sendVars => SendInv' /\ (HonestVerdict \/ UNCHANGED sendVars)
<1> SUFFICES ASSUME SendInv, [SendNext]_sendVars PROVE SendInv' /\ (HonestVerdict \/ UNCHANGED sendVars)
  OBVIOUS
<1> USE SendAssumption DEF SendInv, SendTypes, SendTypeOK, Judging, Asleep, Anchored, HonestVerdict
<1>1. CASE Arm
  BY <1>1 DEF Arm, NoAnchor
<1>2. CASE HeadReady
  BY <1>2 DEF HeadReady
<1>3. CASE TimerFires
  BY <1>3 DEF TimerFires
<1>4. CASE RecheckProgress
  BY <1>4 DEF RecheckProgress
<1>5. CASE Bump
  BY <1>5 DEF Bump
<1>6. CASE Complete
  BY <1>6 DEF Complete
<1>7. CASE Answer
  BY <1>7 DEF Answer
<1>8. CASE Tick
  BY <1>8 DEF Tick
<1>9. CASE UNCHANGED sendVars
  BY <1>9 DEF sendVars
<1> QED BY <1>1, <1>2, <1>3, <1>4, <1>5, <1>6, <1>7, <1>8, <1>9, Zenon DEF SendNext

\* A slow upload that keeps moving is never cut: for any limits, the idle
\* verdict of idle_bounded_send comes a full limit after the last progress
\* and never after an upload that was over when the timer fired, and the
\* head verdict within one idle limit of its due time.
THEOREM SendIsHonest == SendSpec => [][HonestVerdict]_sendVars
<1>1. SendSpec => []SendInv
  BY SendInitInv, SendStepInv, PTL DEF SendSpec
<1>2. SendInv /\ [SendNext]_sendVars => [HonestVerdict]_sendVars
  BY SendStepInv
<1> QED BY <1>1, <1>2, PTL DEF SendSpec

-----------------------------------------------------------------------------
(***************************************************************************)
(* The registry of metric handles.                                         *)
(***************************************************************************)

Kinds == {"counter", "counter_vec", "histogram", "histogram_vec", "gauge", "gauge_vec"}

RegistryTypes ==
  /\ counts \in Seq(Nat) /\ added \in [Names -> Nat] /\ exposed = 1 .. Len(counts)
  /\ handles \subseteq [name : Names, kind : Kinds, id : 1 .. Len(counts)]
  /\ DOMAIN calls = Callers
  /\ \A c \in Callers :
       calls[c] = Idle \/ calls[c] \in [at : {"lookup", "entry", "got", "mismatch"},
                                        name : Names, kind : Kinds, id : Nat]

\* A name and an id belong to one handle, and the handle has counted what was
\* added under its name.
HandlesExact ==
  /\ \A h, g \in handles : h.name = g.name \/ h.id = g.id => h = g
  /\ \A h \in handles : counts[h.id] = added[h.name]
  /\ \A n \in Names : HandleOf(n) = {} => added[n] = 0

RegistryInv == RegistryTypes /\ HandlesExact /\ KindKept

Call == [at : {"lookup", "entry", "got", "mismatch"}, name : Names, kind : Kinds, id : Nat]

\* The handle a call says it got is there.
GotOne(q) == q.at = "got" => \E h \in handles : h.id = q.id /\ h.name = q.name /\ h.kind = q.kind

LEMMA RegistryInitHolds == RegistryInit => RegistryInv
<1> SUFFICES ASSUME RegistryInit PROVE RegistryInv
  OBVIOUS
<1>1. counts = << >> /\ handles = {} /\ exposed = {} /\ added = [n \in Names |-> 0]
  BY DEF RegistryInit
<1>2. counts \in Seq(Nat) /\ Len(counts) = 0 /\ exposed = 1 .. Len(counts)
  BY <1>1
<1>3. DOMAIN calls = Callers /\ \A c \in Callers : calls[c] = Idle
  BY Zenon DEF RegistryInit
<1>4. RegistryTypes
  BY <1>1, <1>2, <1>3 DEF RegistryTypes
<1>5. HandlesExact
  BY <1>1 DEF HandlesExact
<1>6. KindKept
  BY <1>1, <1>3 DEF KindKept, Idle
<1> QED BY <1>4, <1>5, <1>6 DEF RegistryInv

(* A call that moves on without creating a metric or adding to one.        *)
LEMMA CallMoves ==
  ASSUME RegistryInv, UNCHANGED <<handles, exposed, counts, added>>,
         NEW c \in Callers, NEW q, q = Idle \/ q \in Call, GotOne(q),
         calls' = [calls EXCEPT ![c] = q]
  PROVE  RegistryInv'
<1>1. DOMAIN calls = Callers
  BY DEF RegistryInv, RegistryTypes
<1>2. /\ DOMAIN calls' = Callers /\ calls'[c] = q
      /\ \A d \in Callers : d # c => calls'[d] = calls[d]
  BY <1>1
<1>3. \A d \in Callers : calls'[d] = Idle \/ calls'[d] \in Call
  BY <1>2 DEF RegistryInv, RegistryTypes, Call
<1>4. RegistryTypes'
  BY <1>2, <1>3, Zenon DEF RegistryInv, RegistryTypes, Call, Idle
<1>5. HandlesExact'
  BY DEF RegistryInv, HandlesExact, HandleOf
<1>6. KindKept'
  BY <1>2 DEF RegistryInv, KindKept, GotOne
<1> QED BY <1>4, <1>5, <1>6 DEF RegistryInv

(* A handle that is found answers the call: with itself, or with an error  *)
(* when it is of another kind.                                             *)
LEMMA MatchedKeeps ==
  ASSUME RegistryInv, UNCHANGED <<handles, exposed, counts, added>>,
         NEW c \in Callers, calls[c].at \in {"lookup", "entry"},
         \E h \in HandleOf(calls[c].name) : Matched(c, h)
  PROVE  RegistryInv'
<1>1. PICK h \in handles : h.name = calls[c].name /\ Matched(c, h)
  BY DEF HandleOf
<1>2. DOMAIN calls = Callers /\ calls[c] \in Call
  BY DEF RegistryInv, RegistryTypes, Idle, Call
<1>3. h.id \in Nat
  BY DEF RegistryInv, RegistryTypes
<1>4. CASE h.kind = calls[c].kind
  <2> DEFINE q == [calls[c] EXCEPT !.at = "got", !.id = h.id]
  <2>1. calls' = [calls EXCEPT ![c] = q]
    BY <1>1, <1>2, <1>4, Zenon DEF Matched, GotHandle
  <2>2. q \in Call /\ q.at = "got" /\ q.id = h.id /\ q.name = calls[c].name /\ q.kind = calls[c].kind
    BY <1>2, <1>3, Zenon DEF Call
  <2>3. GotOne(q)
    BY <1>1, <1>4, <2>2 DEF GotOne
  <2> HIDE DEF q
  <2> QED BY <2>1, <2>2, <2>3, CallMoves, Zenon
<1>5. CASE h.kind # calls[c].kind
  <2> DEFINE q == [calls[c] EXCEPT !.at = "mismatch"]
  <2>1. calls' = [calls EXCEPT ![c] = q]
    BY <1>1, <1>2, <1>5 DEF Matched
  <2>2. q \in Call /\ q.at = "mismatch"
    BY <1>2 DEF Call
  <2>3. GotOne(q)
    BY <2>2 DEF GotOne
  <2> HIDE DEF q
  <2> QED BY <2>1, <2>2, <2>3, CallMoves, Zenon
<1> QED BY <1>4, <1>5

(* The entry is empty when the metric is created: nothing was added under  *)
(* the name, and the id is new.                                            *)
LEMMA CreateKeeps ==
  ASSUME RegistryInv, NEW c \in Callers, calls[c].at = "entry",
         HandleOf(calls[c].name) = {}, Create(c), added' = added
  PROVE  RegistryInv'
<1> DEFINE name == calls[c].name
           id == Len(counts) + 1
           new == [name |-> name, kind |-> calls[c].kind, id |-> id]
           q == [calls[c] EXCEPT !.at = "got", !.id = id]
<1>1. /\ DOMAIN calls = Callers /\ calls[c] \in Call /\ counts \in Seq(Nat)
      /\ exposed = 1 .. Len(counts) /\ added \in [Names -> Nat]
      /\ handles \subseteq [name : Names, kind : Kinds, id : 1 .. Len(counts)]
  BY DEF RegistryInv, RegistryTypes, Idle, Call
<1>2. /\ Len(counts) \in Nat /\ id \in Nat /\ name \in Names /\ calls[c].kind \in Kinds
  BY <1>1 DEF Call
<1>3. /\ counts' = Append(counts, 0) /\ exposed' = exposed \cup {id}
      /\ handles' = handles \cup {new}
      /\ calls' = [calls EXCEPT ![c] = q]
  BY <1>1, Zenon DEF Create, GotHandle
<1>4. /\ counts' \in Seq(Nat) /\ Len(counts') = id /\ counts'[id] = 0
      /\ \A i \in 1 .. Len(counts) : counts'[i] = counts[i]
  BY <1>1, <1>2, <1>3
<1>5. exposed' = 1 .. Len(counts')
  BY <1>1, <1>2, <1>3, <1>4
<1>6. new \in [name : Names, kind : Kinds, id : 1 .. id] /\ new.name = name /\ new.id = id
      /\ new.kind = calls[c].kind
  BY <1>2
<1>7. q \in Call /\ q.id = id /\ q.name = name /\ q.kind = calls[c].kind
  BY <1>1, <1>2, Zenon DEF Call
<1>8. \A h \in handles : h.name # name /\ h.name \in Names /\ h.id \in 1 .. Len(counts) /\ h.id # id
  BY <1>1, <1>2 DEF HandleOf
<1> HIDE DEF name, id, new, q
<1>9. /\ DOMAIN calls' = Callers /\ calls'[c] = q
      /\ \A d \in Callers : d # c => calls'[d] = calls[d]
  BY <1>1, <1>3
<1>10. RegistryTypes'
  <2>1. handles' \subseteq [name : Names, kind : Kinds, id : 1 .. Len(counts')]
    <3>1. \A i \in 1 .. Len(counts) : i \in 1 .. id
      BY <1>2 DEF id
    <3>2. \A h \in handles : h \in [name : Names, kind : Kinds, id : 1 .. id]
      BY <1>1, <3>1
    <3> QED BY <1>3, <1>4, <1>6, <3>2
  <2>2. \A d \in Callers : calls'[d] = Idle \/ calls'[d] \in Call
    BY <1>7, <1>9 DEF RegistryInv, RegistryTypes, Call
  <2> QED BY <1>1, <1>4, <1>5, <1>9, <2>1, <2>2, Zenon DEF RegistryTypes, Call, Idle
<1>11. HandlesExact'
  <2>1. \A h, g \in handles' : h.name = g.name \/ h.id = g.id => h = g
    BY <1>3, <1>6, <1>8 DEF RegistryInv, HandlesExact
  <2>2. added[name] = 0
    BY <1>2 DEF RegistryInv, HandlesExact, name
  <2>3. \A h \in handles' : counts'[h.id] = added'[h.name]
    BY <1>3, <1>4, <1>6, <1>8, <2>2 DEF RegistryInv, HandlesExact
  <2>4. \A n \in Names : HandleOf(n)' = {} => added'[n] = 0
    BY <1>3 DEF RegistryInv, HandlesExact, HandleOf
  <2> QED BY <2>1, <2>3, <2>4 DEF HandlesExact
<1>12. KindKept'
  <2>1. \A h, g \in handles' : h.name = g.name => h = g
    BY <1>11 DEF HandlesExact
  <2>2. ASSUME NEW d \in Callers, calls'[d].at = "got"
        PROVE  \E h \in handles' : h.id = calls'[d].id /\ h.name = calls'[d].name /\ h.kind = calls'[d].kind
    <3>1. CASE d = c
      BY <1>3, <1>6, <1>7, <1>9, <3>1
    <3>2. CASE d # c
      BY <1>3, <1>9, <2>2, <3>2 DEF RegistryInv, KindKept
    <3> QED BY <3>1, <3>2
  <2> QED BY <2>1, <2>2 DEF KindKept
<1> QED BY <1>10, <1>11, <1>12 DEF RegistryInv

(* An addition through a handle goes to its name and to no other.          *)
LEMMA IncrementKeeps ==
  ASSUME RegistryInv, NEW c \in Callers, Increment(c)
  PROVE  RegistryInv'
<1>1. /\ calls' = [calls EXCEPT ![c] = Idle] /\ GotOne(Idle)
      /\ UNCHANGED <<handles, exposed>> /\ calls[c].at \in {"got", "mismatch"}
  BY DEF Increment, GotOne, Idle
<1>2. CASE calls[c].at = "mismatch"
  BY <1>1, <1>2, CallMoves, Zenon DEF Increment
<1>3. CASE calls[c].at = "got"
  <2>1. PICK h \in handles : h.id = calls[c].id /\ h.name = calls[c].name
    BY <1>3 DEF RegistryInv, KindKept
  <2>2. /\ counts \in Seq(Nat) /\ added \in [Names -> Nat] /\ DOMAIN calls = Callers
        /\ exposed = 1 .. Len(counts)
        /\ handles \subseteq [name : Names, kind : Kinds, id : 1 .. Len(counts)]
    BY DEF RegistryInv, RegistryTypes
  <2>3. h.name \in Names /\ h.id \in 1 .. Len(counts) /\ counts[h.id] \in Nat /\ added[h.name] \in Nat
    BY <2>2
  <2>4. /\ counts' = [counts EXCEPT ![h.id] = counts[h.id] + 1]
        /\ added' = [added EXCEPT ![h.name] = added[h.name] + 1]
    BY <1>3, <2>1 DEF Increment
  <2>5. /\ counts' \in Seq(Nat) /\ Len(counts') = Len(counts)
        /\ counts'[h.id] = counts[h.id] + 1
        /\ \A i \in 1 .. Len(counts) : i # h.id => counts'[i] = counts[i]
    BY <2>2, <2>3, <2>4
  <2>6. /\ added' \in [Names -> Nat] /\ added'[h.name] = added[h.name] + 1
        /\ \A n \in Names : n # h.name => added'[n] = added[n]
    BY <2>2, <2>3, <2>4
  <2>7. /\ DOMAIN calls' = Callers /\ calls'[c] = Idle
        /\ \A d \in Callers : d # c => calls'[d] = calls[d]
    BY <1>1, <2>2
  <2>8. RegistryTypes'
    <3>1. \A d \in Callers : calls'[d] = Idle \/ calls'[d] \in Call
      BY <2>7 DEF RegistryInv, RegistryTypes, Call
    <3> QED BY <1>1, <2>2, <2>5, <2>6, <2>7, <3>1, Zenon DEF RegistryTypes, Call, Idle
  <2>9. HandlesExact'
    <3>1. ASSUME NEW g \in handles PROVE counts'[g.id] = added'[g.name]
      <4>1. g.id \in 1 .. Len(counts) /\ g.name \in Names /\ counts[g.id] = added[g.name]
        BY <2>2 DEF RegistryInv, HandlesExact
      <4>2. CASE g = h
        BY <2>5, <2>6, <4>1, <4>2
      <4>3. CASE g # h
        <5>1. g.id # h.id /\ g.name # h.name
          BY <4>3 DEF RegistryInv, HandlesExact
        <5> QED BY <2>5, <2>6, <4>1, <5>1
      <4> QED BY <4>2, <4>3
    <3>2. \A n \in Names : HandleOf(n) = {} => n # h.name /\ added[n] = 0
      BY DEF RegistryInv, HandlesExact, HandleOf
    <3>3. \A n \in Names : HandleOf(n)' = {} => added'[n] = 0
      BY <1>1, <2>6, <3>2 DEF HandleOf
    <3> QED BY <1>1, <3>1, <3>3 DEF RegistryInv, HandlesExact
  <2>10. KindKept'
    BY <1>1, <2>7 DEF RegistryInv, KindKept, GotOne
  <2> QED BY <2>8, <2>9, <2>10 DEF RegistryInv
<1> QED BY <1>1, <1>2, <1>3

(* The registry's steps, one caller at a time.                             *)
LEMMA RegistryStepKeeps == RegistryInv /\ [RegistryNext]_registry => RegistryInv'
<1> SUFFICES ASSUME RegistryInv, [RegistryNext]_registry PROVE RegistryInv'
  OBVIOUS
<1>1. ASSUME NEW c \in Callers, Lookup(c) PROVE RegistryInv'
  <2>1. CASE \E h \in HandleOf(calls[c].name) : Matched(c, h)
    BY <1>1, <2>1, MatchedKeeps DEF Lookup
  <2>2. CASE HandleOf(calls[c].name) = {} /\ calls' = [calls EXCEPT ![c].at = "entry"]
    <3> DEFINE q == [calls[c] EXCEPT !.at = "entry"]
    <3>1. DOMAIN calls = Callers /\ calls[c] \in Call
      BY <1>1 DEF Lookup, RegistryInv, RegistryTypes, Idle, Call
    <3>2. calls' = [calls EXCEPT ![c] = q]
      BY <2>2, <3>1
    <3>3. q \in Call /\ q.at = "entry"
      BY <3>1 DEF Call
    <3>4. GotOne(q)
      BY <3>3 DEF GotOne
    <3> HIDE DEF q
    <3> QED BY <1>1, <3>2, <3>3, <3>4, CallMoves, Zenon DEF Lookup
  <2> QED BY <1>1, <2>1, <2>2 DEF Lookup
<1>2. ASSUME NEW c \in Callers, TakeEntry(c) PROVE RegistryInv'
  BY <1>2, CreateKeeps, MatchedKeeps DEF TakeEntry
<1>3. ASSUME NEW c \in Callers, NEW n \in Names, NEW kind \in Kinds, Ask(c, n, kind) PROVE RegistryInv'
  <2> DEFINE q == [at |-> "lookup", name |-> n, kind |-> kind, id |-> 0]
  <2>1. q \in Call /\ q.at = "lookup"
    BY DEF Call
  <2>2. GotOne(q)
    BY <2>1 DEF GotOne
  <2>3. calls' = [calls EXCEPT ![c] = q] /\ UNCHANGED <<handles, exposed, counts, added>>
    BY <1>3 DEF Ask
  <2> HIDE DEF q
  <2> QED BY <2>1, <2>2, <2>3, CallMoves, Zenon
<1>4. ASSUME NEW c \in Callers, NEW n \in Names,
             \/ Counter(c, n) \/ CounterVec(c, n) \/ Histogram(c, n)
             \/ HistogramVec(c, n) \/ Gauge(c, n) \/ GaugeVec(c, n)
      PROVE  RegistryInv'
  BY <1>3, <1>4 DEF Kinds, Counter, CounterVec, Histogram, HistogramVec, Gauge, GaugeVec
<1>5. CASE UNCHANGED registry
  <2>1. UNCHANGED <<handles, exposed, calls, counts, added>>
    BY <1>5 DEF registry
  <2>2. RegistryTypes' /\ HandlesExact'
    BY <2>1, Zenon DEF RegistryInv, RegistryTypes, HandlesExact, HandleOf
  <2>3. KindKept'
    BY <2>1, Zenon DEF RegistryInv, KindKept
  <2> QED BY <2>2, <2>3 DEF RegistryInv
<1>6. ASSUME NEW c \in Callers, Increment(c) PROVE RegistryInv'
  BY <1>6, IncrementKeeps
<1>7. CASE RegistryNext
  BY <1>1, <1>2, <1>4, <1>6, <1>7, Zenon DEF RegistryNext
<1> QED BY <1>5, <1>7

(* The invariant counts every addition.                                    *)
LEMMA RegistryCounts == RegistryInv => NothingUncounted /\ KindKept
<1> SUFFICES ASSUME RegistryInv, NEW n \in Names, HandleOf(n) # {}
             PROVE  \E h \in HandleOf(n) : h.id \in exposed /\ counts[h.id] = added[n]
  BY DEF RegistryInv, HandlesExact, NothingUncounted
<1>1. PICK h \in HandleOf(n) : h \in handles /\ h.name = n
  BY DEF HandleOf
<1>2. h.id \in exposed
  BY <1>1 DEF RegistryInv, RegistryTypes
<1>3. counts[h.id] = added[n]
  BY <1>1 DEF RegistryInv, HandlesExact
<1> QED BY <1>1, <1>2, <1>3

-----------------------------------------------------------------------------
(***************************************************************************)
(* The counters carried over into the registry.                            *)
(***************************************************************************)

Hooked(s) == {t \in Panicking : hooks[t] = s}

PanicInv ==
  /\ hooks \in [Panicking -> {"none", "unbound", "counted"}]
  /\ fallback \in Nat /\ panicTotal \in Nat
  /\ binder \in [at : {"start", "drained", "added", "bound"}, pre : Nat]
  /\ binder.at # "drained" => binder.pre = 0
  /\ PanicsExact

\* What the next sample would export is still within what was seen.
SamplerInv ==
  /\ stats \in [Cpus -> Nat] /\ IsFiniteSet(InCells) /\ packets \in Nat /\ exported \in Nat
  /\ baseline \subseteq Nat /\ \A a, b \in baseline : a = b
  /\ exported <= packets
  /\ \A b \in baseline : exported + (ReadStats - b) <= packets

LabelInv == IsFiniteSet(seen) /\ LabelsBounded

ReportInv == PanicInv /\ SamplerInv /\ LabelInv

AdminInv ==
  /\ token \in BOOLEAN /\ probeState \in {"starting", "ready", "draining"}
  /\ AnswersSound /\ DrainingSticks

(* A thread's panic is counted, once.                                      *)
LEMMA HookCounts ==
  ASSUME hooks \in [Panicking -> {"none", "unbound", "counted"}], NEW t \in Panicking,
         hooks[t] # "counted", hooks' = [hooks EXCEPT ![t] = "counted"]
  PROVE  /\ hooks' \in [Panicking -> {"none", "unbound", "counted"}]
         /\ Cardinality(Hooked("counted")) \in Nat
         /\ Cardinality(Hooked("counted")') = Cardinality(Hooked("counted")) + 1
<1>1. IsFiniteSet(Hooked("counted")) /\ t \notin Hooked("counted")
  <2>1. Hooked("counted") \in SUBSET Panicking
    BY DEF Hooked
  <2> QED BY <2>1, FS_Subset, ReportAssumption, Zenon DEF Hooked
<1>2. Hooked("counted")' = Hooked("counted") \cup {t}
  BY DEF Hooked
<1> QED BY <1>1, <1>2, FS_AddElement, FS_CardinalityType

LEMMA PanicStepKeeps ==
  ASSUME PanicInv, \/ DrainFallback \/ AddDrained \/ BindCounter
                   \/ \E t \in Panicking : PanicHook(t) \/ CountFallback(t)
  PROVE  PanicInv'
<1>1. /\ hooks \in [Panicking -> {"none", "unbound", "counted"}]
      /\ fallback \in Nat /\ panicTotal \in Nat
      /\ binder \in [at : {"start", "drained", "added", "bound"}, pre : Nat] /\ binder.pre \in Nat
      /\ binder.at # "drained" => binder.pre = 0
      /\ panicTotal + fallback + binder.pre = Cardinality(Hooked("counted"))
  BY DEF PanicInv, PanicsExact, PanicCount, Hooked
<1>2. CASE DrainFallback
  <2>1. /\ binder'.at = "drained" /\ binder'.pre = fallback /\ fallback' = 0
        /\ binder' \in [at : {"start", "drained", "added", "bound"}, pre : Nat]
        /\ hooks' = hooks /\ panicTotal' = panicTotal /\ binder.pre = 0
    BY <1>1, <1>2 DEF DrainFallback
  <2> QED BY <1>1, <2>1 DEF PanicInv, PanicsExact, PanicCount, Hooked
<1>3. CASE AddDrained
  <2>1. /\ binder'.at = "added" /\ binder'.pre = 0 /\ panicTotal' = panicTotal + binder.pre
        /\ binder' \in [at : {"start", "drained", "added", "bound"}, pre : Nat]
        /\ hooks' = hooks /\ fallback' = fallback
    BY <1>1, <1>3 DEF AddDrained
  <2> QED BY <1>1, <2>1 DEF PanicInv, PanicsExact, PanicCount, Hooked
<1>4. CASE BindCounter
  <2>1. /\ binder'.at = "bound" /\ binder'.pre = binder.pre /\ binder.pre = 0
        /\ binder' \in [at : {"start", "drained", "added", "bound"}, pre : Nat]
        /\ UNCHANGED <<hooks, fallback, panicTotal>>
    BY <1>1, <1>4 DEF BindCounter
  <2> QED BY <1>1, <2>1 DEF PanicInv, PanicsExact, PanicCount, Hooked
<1>5. ASSUME NEW t \in Panicking, PanicHook(t) PROVE PanicInv'
  <2>1. CASE binder.at = "bound"
    <3>1. /\ hooks[t] # "counted" /\ hooks' = [hooks EXCEPT ![t] = "counted"]
          /\ panicTotal' = panicTotal + 1 /\ UNCHANGED <<fallback, binder>>
      BY <1>5, <2>1 DEF PanicHook
    <3>2. /\ hooks' \in [Panicking -> {"none", "unbound", "counted"}]
          /\ Cardinality(Hooked("counted")) \in Nat
          /\ Cardinality(Hooked("counted")') = Cardinality(Hooked("counted")) + 1
      BY <1>1, <3>1, HookCounts, Zenon
    <3> QED BY <1>1, <3>1, <3>2 DEF PanicInv, PanicsExact, PanicCount, Hooked
  <2>2. CASE binder.at # "bound"
    <3>1. /\ hooks[t] = "none" /\ hooks' = [hooks EXCEPT ![t] = "unbound"]
          /\ UNCHANGED <<panicTotal, fallback, binder>>
      BY <1>5, <2>2 DEF PanicHook
    <3>2. Hooked("counted")' = Hooked("counted")
      BY <1>1, <3>1 DEF Hooked
    <3>3. hooks' \in [Panicking -> {"none", "unbound", "counted"}]
      BY <1>1, <3>1
    <3> QED BY <1>1, <3>1, <3>2, <3>3 DEF PanicInv, PanicsExact, PanicCount, Hooked
  <2> QED BY <2>1, <2>2
<1>6. ASSUME NEW t \in Panicking, CountFallback(t) PROVE PanicInv'
  <2>1. /\ hooks[t] # "counted" /\ hooks' = [hooks EXCEPT ![t] = "counted"]
        /\ fallback' = fallback + 1 /\ UNCHANGED <<panicTotal, binder>>
    BY <1>6 DEF CountFallback
  <2>2. /\ hooks' \in [Panicking -> {"none", "unbound", "counted"}]
        /\ Cardinality(Hooked("counted")) \in Nat
        /\ Cardinality(Hooked("counted")') = Cardinality(Hooked("counted")) + 1
    BY <1>1, <2>1, HookCounts, Zenon
  <2> QED BY <1>1, <2>1, <2>2 DEF PanicInv, PanicsExact, PanicCount, Hooked
<1> QED BY <1>2, <1>3, <1>4, <1>5, <1>6

(* A packet adds one to the sum over the processors.                       *)
LEMMA PacketCounts ==
  ASSUME stats \in [Cpus -> Nat], IsFiniteSet(InCells), NEW cpu \in Cpus,
         stats' = [stats EXCEPT ![cpu] = @ + 1]
  PROVE  /\ stats' \in [Cpus -> Nat] /\ IsFiniteSet(InCells')
         /\ ReadStats \in Nat /\ ReadStats' = ReadStats + 1
<1> DEFINE new == <<cpu, stats[cpu] + 1>>
<1>1. new \notin InCells
  BY DEF InCells
<1>2. \A x : x \in InCells' <=> x \in InCells \/ x = new
  <2>1. \A x : x \in InCells <=> \E u \in Cpus : \E i \in 1 .. stats[u] : x = <<u, i>>
    BY DEF InCells
  <2>2. \A x : x \in InCells' <=> \E u \in Cpus : \E i \in 1 .. stats'[u] : x = <<u, i>>
    BY DEF InCells
  <2>3. /\ \A i : i \in 1 .. stats'[cpu] <=> i \in 1 .. stats[cpu] \/ i = stats[cpu] + 1
        /\ \A u \in Cpus : u # cpu => stats'[u] = stats[u]
    OBVIOUS
  <2> QED BY <2>1, <2>2, <2>3
<1>3. InCells' = InCells \cup {new}
  BY <1>2
<1> HIDE DEF new
<1>4. /\ IsFiniteSet(InCells \cup {new}) /\ Cardinality(InCells) \in Nat
      /\ Cardinality(InCells \cup {new}) = Cardinality(InCells) + 1
  BY <1>1, FS_AddElement, FS_CardinalityType
<1> QED BY <1>3, <1>4 DEF ReadStats

LEMMA SamplerStepKeeps ==
  ASSUME SamplerInv, MapReplaced \/ InstallStatsHandle \/ Sample \/ \E cpu \in Cpus : Packet(cpu)
  PROVE  SamplerInv'
<1>1. /\ stats \in [Cpus -> Nat] /\ IsFiniteSet(InCells) /\ packets \in Nat /\ exported \in Nat
      /\ baseline \subseteq Nat /\ \A a, b \in baseline : a = b
      /\ exported <= packets
      /\ \A b \in baseline : exported + (ReadStats - b) <= packets
  BY DEF SamplerInv
<1>2. ReadStats \in Nat
  BY <1>1, FS_CardinalityType DEF ReadStats
<1>3. CASE MapReplaced
  <2>1. stats' = [cpu \in Cpus |-> 0] /\ UNCHANGED <<packets, baseline, exported>>
    BY <1>3 DEF MapReplaced
  <2>2. InCells' = {}
    BY <2>1 DEF InCells
  <2>3. IsFiniteSet(InCells') /\ ReadStats' = 0
    BY <2>2, FS_EmptySet DEF ReadStats
  <2> QED BY <1>1, <2>1, <2>3 DEF SamplerInv
<1>4. CASE InstallStatsHandle
  BY <1>1, <1>4 DEF InstallStatsHandle, SamplerInv, ReadStats, InCells
<1>5. CASE Sample
  <2>1. stats' = stats /\ packets' = packets /\ InCells' = InCells /\ ReadStats' = ReadStats
    BY <1>5 DEF Sample, ReadStats, InCells
  <2>2. CASE ~installed
    <3>1. exported' = exported /\ baseline' = baseline
      BY <1>5, <2>2 DEF Sample
    <3> QED BY <1>1, <2>1, <3>1 DEF SamplerInv
  <2>3. CASE installed
    <3>1. exported' = exported + Delta(ReadStats) /\ baseline' = {ReadStats}
      BY <1>5, <2>3 DEF Sample
    <3>2. Delta(ReadStats) \in Nat /\ exported + Delta(ReadStats) <= packets
      <4>1. CASE \E b \in baseline : ReadStats > b
        <5>1. PICK b \in baseline : ReadStats > b
          BY <4>1
        <5>2. (CHOOSE a \in baseline : TRUE) = b
          BY <1>1
        <5>3. Delta(ReadStats) = ReadStats - b
          BY <4>1, <5>2, Zenon DEF Delta
        <5>4. b \in Nat /\ exported + (ReadStats - b) <= packets
          BY <1>1
        <5> QED BY <1>1, <1>2, <5>1, <5>3, <5>4
      <4>2. CASE ~\E b \in baseline : ReadStats > b
        BY <1>1, <4>2 DEF Delta
      <4> QED BY <4>1, <4>2
    <3> QED BY <1>1, <1>2, <2>1, <3>1, <3>2 DEF SamplerInv
  <2> QED BY <2>2, <2>3
<1>6. ASSUME NEW cpu \in Cpus, Packet(cpu) PROVE SamplerInv'
  <2>1. /\ stats' = [stats EXCEPT ![cpu] = @ + 1] /\ packets' = packets + 1
        /\ UNCHANGED <<baseline, exported>>
    BY <1>6 DEF Packet
  <2>2. stats' \in [Cpus -> Nat] /\ IsFiniteSet(InCells') /\ ReadStats' = ReadStats + 1
    BY <1>1, <2>1, PacketCounts, Zenon
  <2> QED BY <1>1, <1>2, <2>1, <2>2 DEF SamplerInv
<1> QED BY <1>3, <1>4, <1>5, <1>6

LEMMA LabelStepKeeps ==
  ASSUME LabelInv, NEW tuple \in Tuples, Admit(tuple)
  PROVE  LabelInv'
<1>1. CASE tuple \in seen \/ Cardinality(seen) >= Ceiling
  BY <1>1 DEF Admit, LabelInv, LabelsBounded
<1>2. CASE ~(tuple \in seen \/ Cardinality(seen) >= Ceiling)
  <2>1. seen' = seen \cup {tuple}
    BY <1>2 DEF Admit
  <2>2. /\ IsFiniteSet(seen \cup {tuple}) /\ Cardinality(seen) \in Nat
        /\ Cardinality(seen \cup {tuple}) = Cardinality(seen) + 1
    BY <1>2, FS_AddElement, FS_CardinalityType DEF LabelInv
  <2> QED BY <1>2, <2>1, <2>2, ReportAssumption DEF LabelInv, LabelsBounded
<1> QED BY <1>1, <1>2

LEMMA ReportInitHolds == ReportInit => ReportInv
<1> SUFFICES ASSUME ReportInit PROVE ReportInv
  OBVIOUS
<1>1. PanicInv
  <2>1. {t \in Panicking : hooks[t] = "counted"} = {}
    BY DEF ReportInit
  <2> QED BY <2>1, FS_EmptySet DEF ReportInit, PanicInv, PanicsExact, PanicCount
<1>2. SamplerInv
  <2>1. stats \in [Cpus -> 0 .. 1] /\ packets = 0 /\ baseline = {} /\ exported = 0
    BY DEF ReportInit
  <2>2. InCells \in SUBSET (Cpus \X (1 .. 1))
    BY <2>1 DEF InCells
  <2>3. 1 \in Int
    OBVIOUS
  <2>4. IsFiniteSet(1 .. 1)
    BY <2>3, FS_Interval, Zenon
  <2>5. IsFiniteSet(Cpus \X (1 .. 1))
    BY <2>4, FS_Product, ReportAssumption, Zenon
  <2>6. IsFiniteSet(InCells)
    BY <2>2, <2>5, FS_Subset, Zenon
  <2>7. stats \in [Cpus -> Nat]
    BY <2>1
  <2> QED BY <2>1, <2>6, <2>7 DEF SamplerInv
<1>3. LabelInv
  BY FS_EmptySet, ReportAssumption DEF ReportInit, LabelInv, LabelsBounded
<1> QED BY <1>1, <1>2, <1>3 DEF ReportInv

LEMMA ReportStepKeeps == ReportInv /\ [ReportNext]_report => ReportInv'
<1> SUFFICES ASSUME ReportInv, [ReportNext]_report PROVE ReportInv'
  OBVIOUS
<1>1. UNCHANGED <<hooks, fallback, panicTotal, binder>> => PanicInv'
  BY DEF ReportInv, PanicInv, PanicsExact, PanicCount
<1>2. UNCHANGED <<stats, packets, baseline, exported>> => SamplerInv'
  BY DEF ReportInv, SamplerInv, ReadStats, InCells
<1>3. UNCHANGED seen => LabelInv'
  BY DEF ReportInv, LabelInv, LabelsBounded
<1>4. CASE PanicNext
  BY <1>2, <1>3, <1>4, PanicStepKeeps DEF PanicNext, ReportInv, sampling
<1>5. CASE SamplerNext
  BY <1>1, <1>3, <1>5, SamplerStepKeeps DEF SamplerNext, ReportInv, panics
<1>6. CASE LabelNext
  BY <1>1, <1>2, <1>6, LabelStepKeeps DEF LabelNext, ReportInv, panics, sampling
<1>7. CASE UNCHANGED report
  BY <1>1, <1>2, <1>3, <1>7 DEF ReportInv, report
<1> QED BY <1>4, <1>5, <1>6, <1>7 DEF ReportNext

-----------------------------------------------------------------------------
(***************************************************************************)
(* The admin endpoint.                                                     *)
(***************************************************************************)

LEMMA AdminInitHolds == AdminInit => AdminInv
BY DEF AdminInit, AdminInv, AnswersSound, DrainingSticks, NoReply, IsProbePath

LEMMA AdminStepKeeps == AdminInv /\ [AdminNext]_adminvars => AdminInv'
<1> SUFFICES ASSUME AdminInv, [AdminNext]_adminvars PROVE AdminInv'
  OBVIOUS
<1>1. ASSUME NEW c \in Clients, NEW path \in Paths, NEW get \in BOOLEAN, NEW header \in Headers,
             Request(c, path, get, header)
      PROVE  AdminInv'
  <2>1. /\ reply'.path = path /\ reply'.status = Route(path, get, header)
        /\ reply'.state = probeState /\ reply'.header = header
        /\ UNCHANGED <<token, probeState, draining, marked, acceptor, conns>>
    BY <1>1 DEF Request
  <2>2. path = "/readyz" /\ Route(path, get, header) = 200 => probeState = "ready"
    BY DEF Route, StatusOf, IsProbePath
  <2>3. path \in {"/livez", "/healthz"} => Route(path, get, header) \in {200, 405}
    BY DEF Route, StatusOf, IsProbePath
  <2>4. Route(path, get, header) = 403 => ~IsProbePath(path)
    BY DEF Route, StatusOf, Paths
  <2>5. path = "/metrics" /\ Route(path, get, header) = 200 /\ token => header = "right"
    BY DEF Route, IsProbePath, Authorize
  <2>6. AnswersSound'
    BY <2>1, <2>2, <2>3, <2>4, <2>5 DEF AnswersSound, IsProbePath
  <2> QED BY <2>1, <2>6 DEF AdminInv, DrainingSticks
<1>2. CASE ProbeSetReady \/ SetDraining \/ CancelAdmin \/ UNCHANGED adminvars
  BY <1>2 DEF ProbeSetReady, SetDraining, CancelAdmin, adminvars, AdminInv, AnswersSound, DrainingSticks,
              IsProbePath
<1>3. ASSUME NEW c \in Clients, Accept(c) PROVE AdminInv'
  BY <1>3 DEF Accept, AdminInv, AnswersSound, DrainingSticks, IsProbePath
<1> QED BY <1>1, <1>2, <1>3 DEF AdminNext

-----------------------------------------------------------------------------

(* What the process reports is what happened, for any threads, metrics,    *)
(* processors and clients: the handles of lb-observability, the panic      *)
(* counter, the XDP sampler and the label budget of lb, and the admin      *)
(* endpoint's answers.                                                     *)
THEOREM ReportIsSound == RegistrySpec /\ ReportSpec /\ AdminSpec => []ReportSound
<1>1. RegistrySpec => []RegistryInv
  BY RegistryInitHolds, RegistryStepKeeps, PTL DEF RegistrySpec
<1>2. ReportSpec => []ReportInv
  BY ReportInitHolds, ReportStepKeeps, PTL DEF ReportSpec
<1>3. AdminSpec => []AdminInv
  BY AdminInitHolds, AdminStepKeeps, PTL DEF AdminSpec
<1>4. RegistryInv /\ ReportInv /\ AdminInv => ReportSound
  BY RegistryCounts DEF ReportInv, PanicInv, SamplerInv, LabelInv, AdminInv, ReportSound, ExportedSound
<1> QED BY <1>1, <1>2, <1>3, <1>4, PTL
=============================================================================
