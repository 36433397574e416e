---------------------------- MODULE DnsResolver ----------------------------
(***************************************************************************)
(* The caching resolver of lb-io (dns.rs).  A cache slot is a cell that is *)
(* filled once, by one of the calls that wait on it; a call that finds a   *)
(* filled cell past its expiry puts a fresh one in its place, and so does  *)
(* the background refresh, for every key.  The platform's resolver answers *)
(* with addresses ("pos") or fails ("neg").                                *)
(***************************************************************************)
EXTENDS Integers, FiniteSets

CONSTANTS Hosts, DnsCells, DnsCalls, Refresher

ASSUME DnsAssumption ==
  /\ "none" \notin DnsCells /\ "none" \notin DnsCalls \cup {Refresher}
  /\ Refresher \notin DnsCalls

VARIABLES
  dnsCache,   \* each host's cell, or "none"
  dnsValue,   \* what each cell holds: "empty", "pos", "neg"
  dnsLapsed,  \* the cells past expires_at
  dnsFiller,  \* the task that runs each cell's initialiser, or "none"
  dnsTask     \* each task: place, host, cell; late: the cell had lapsed when it
              \* began; had: it replaced a good answer; answer: what it got

dnsVars == <<dnsCache, dnsValue, dnsLapsed, dnsFiller, dnsTask>>

Tasks == DnsCalls \cup {Refresher}
Rest == [at |-> "out", host |-> "none", cell |-> "none", late |-> FALSE, had |-> FALSE,
         todo |-> {}, answer |-> "none"]

Unreferenced ==
  DnsCells \ ({dnsCache[h] : h \in Hosts} \cup {dnsTask[t].cell : t \in Tasks})

NewCell == CHOOSE c \in DnsCells : c \in Unreferenced

DnsInit ==
  /\ dnsCache = [h \in Hosts |-> "none"]
  /\ dnsValue = [c \in DnsCells |-> "empty"]
  /\ dnsLapsed = {}
  /\ dnsFiller = [c \in DnsCells |-> "none"]
  /\ dnsTask = [t \in Tasks |-> Rest]

Got(t, v) ==
  dnsTask' = [dnsTask EXCEPT ![t].at = "got", ![t].cell = "none",
                             ![t].answer = IF dnsTask[t].late THEN "late"
                                            ELSE IF t = Refresher THEN v ELSE "ok"]

\* A new cell for the host, in the cache and in the task's hand.
Replace(t, h, place, had) ==
  /\ Unreferenced # {}
  /\ dnsCache' = [dnsCache EXCEPT ![h] = NewCell]
  /\ dnsValue' = [c \in DnsCells |-> IF c \in Unreferenced THEN "empty" ELSE dnsValue[c]]
  /\ dnsLapsed' = dnsLapsed \ Unreferenced
  /\ dnsTask' = [dnsTask EXCEPT ![t].at = place, ![t].host = h, ![t].cell = NewCell,
                                ![t].late = FALSE, ![t].had = had, ![t].todo = @ \ {h}]
  /\ UNCHANGED dnsFiller

\* Mutation: a filled cell is taken whatever its age.
BadResolve(t) ==
  /\ dnsTask[t] = Rest
  /\ \E h \in Hosts :
       \/ dnsCache[h] = "none" /\ Replace(t, h, "fill", FALSE)
       \/ /\ dnsCache[h] # "none"
          /\ dnsTask' = [dnsTask EXCEPT ![t] = [Rest EXCEPT !.at = "fill", !.host = h,
                           !.cell = dnsCache[h],
                           !.late = dnsCache[h] \in dnsLapsed]]
          /\ UNCHANGED <<dnsCache, dnsValue, dnsLapsed, dnsFiller>>

\* resolve, to the cache entry: or_insert_with makes one for a new host.
Resolve(t) ==
  /\ dnsTask[t] = Rest
  /\ \E h \in Hosts :
       \/ dnsCache[h] = "none" /\ Replace(t, h, "look", FALSE)
       \/ /\ dnsCache[h] # "none"
          /\ dnsTask' = [dnsTask EXCEPT ![t] = [Rest EXCEPT !.at = "look", !.host = h,
                           !.cell = dnsCache[h],
                           !.late = dnsCache[h] \in dnsLapsed]]
          /\ UNCHANGED <<dnsCache, dnsValue, dnsLapsed, dnsFiller>>

\* resolve, from the entry on: a hit, a lapsed answer to replace (by every
\* call that sees it), or an empty cell to fill.
Look(t) ==
  LET c == dnsTask[t].cell IN
  /\ dnsTask[t].at = "look"
  /\ \/ /\ dnsValue[c] # "empty" /\ c \notin dnsLapsed
        /\ Got(t, dnsValue[c])
        /\ UNCHANGED <<dnsCache, dnsValue, dnsLapsed, dnsFiller>>
     \/ /\ dnsValue[c] # "empty" /\ c \in dnsLapsed
        /\ Replace(t, dnsTask[t].host, "fill", FALSE)
     \/ /\ dnsValue[c] = "empty"
        /\ dnsTask' = [dnsTask EXCEPT ![t].at = "fill"]
        /\ UNCHANGED <<dnsCache, dnsValue, dnsLapsed, dnsFiller>>

\* get_or_init: one waiter of an empty cell runs the initialiser.
BeginFill(t) ==
  LET c == dnsTask[t].cell IN
  /\ dnsTask[t].at = "fill"
  /\ dnsValue[c] = "empty" /\ dnsFiller[c] = "none"
  /\ dnsFiller' = [dnsFiller EXCEPT ![c] = t]
  /\ UNCHANGED <<dnsCache, dnsValue, dnsLapsed, dnsTask>>

\* The lookup is over: the answer's own lifetime starts and every waiter
\* may read it.
EndFill(t) ==
  LET c == dnsTask[t].cell IN
  /\ dnsTask[t].at = "fill"
  /\ dnsFiller[c] = t
  /\ \E v \in {"pos", "neg"} : dnsValue' = [dnsValue EXCEPT ![c] = v] /\ Got(t, v)
  /\ dnsFiller' = [dnsFiller EXCEPT ![c] = "none"]
  /\ UNCHANGED <<dnsCache, dnsLapsed>>

Materialize(t) ==
  /\ dnsTask[t].at = "fill"
  /\ dnsValue[dnsTask[t].cell] # "empty"
  /\ Got(t, dnsValue[dnsTask[t].cell])
  /\ UNCHANGED <<dnsCache, dnsValue, dnsLapsed, dnsFiller>>

\* The caller has its answer.
Return(t) ==
  /\ t \in DnsCalls /\ dnsTask[t].at = "got"
  /\ dnsTask' = [dnsTask EXCEPT ![t] = Rest]
  /\ UNCHANGED <<dnsCache, dnsValue, dnsLapsed, dnsFiller>>

\* A waiter is dropped; if it was filling, the cell is free for another.
CancelCall(t) ==
  /\ t \in DnsCalls /\ dnsTask[t].at = "fill"
  /\ dnsFiller' = [c \in DnsCells |-> IF dnsFiller[c] = t THEN "none" ELSE dnsFiller[c]]
  /\ dnsTask' = [dnsTask EXCEPT ![t] = Rest]
  /\ UNCHANGED <<dnsCache, dnsValue, dnsLapsed>>

Lapse(c) ==
  /\ dnsValue[c] # "empty" /\ c \notin dnsLapsed
  /\ c \in {dnsCache[h] : h \in Hosts} \cup {dnsTask[t].cell : t \in {u \in Tasks : dnsTask[u].at = "look"}}
  /\ dnsLapsed' = dnsLapsed \cup {c}
  /\ UNCHANGED <<dnsCache, dnsValue, dnsFiller, dnsTask>>

\* refresh_all: the keys of the moment, then for each a fresh cell, filled.
RefreshBegin ==
  /\ dnsTask[Refresher].at = "out"
  /\ \E h \in Hosts : dnsCache[h] # "none"
  /\ dnsTask' = [dnsTask EXCEPT ![Refresher] =
       [Rest EXCEPT !.at = "next", !.todo = {h \in Hosts : dnsCache[h] # "none"}]]
  /\ UNCHANGED <<dnsCache, dnsValue, dnsLapsed, dnsFiller>>

RefreshKey ==
  /\ dnsTask[Refresher].at = "next"
  /\ \E h \in dnsTask[Refresher].todo :
       Replace(Refresher, h, "fill", dnsValue[dnsCache[h]] = "pos" /\ dnsCache[h] \notin dnsLapsed)

RefreshNext ==
  LET task == dnsTask[Refresher] IN
  /\ \/ task.at = "got"
        /\ dnsTask' = [dnsTask EXCEPT ![Refresher] = [Rest EXCEPT !.at = "next", !.todo = task.todo]]
     \/ task.at = "next" /\ task.todo = {}
        /\ dnsTask' = [dnsTask EXCEPT ![Refresher] = Rest]
  /\ UNCHANGED <<dnsCache, dnsValue, dnsLapsed, dnsFiller>>

Work(t) == Look(t) \/ BeginFill(t) \/ EndFill(t) \/ Materialize(t)

DnsNext ==
  \/ \E t \in DnsCalls : Resolve(t)
  \/ \E t \in Tasks : Work(t) \/ Return(t) \/ CancelCall(t)
  \/ \E c \in DnsCells : Lapse(c)
  \/ RefreshBegin \/ RefreshKey \/ RefreshNext

\* Every task is polled, the platform's resolver answers or fails, and the
\* cell's permit goes to its waiters in turn.
DnsFairness == \A t \in Tasks : SF_dnsVars(Work(t))

DnsSpec == DnsInit /\ [][DnsNext]_dnsVars /\ DnsFairness

DnsTypeOK ==
  /\ dnsCache \in [Hosts -> DnsCells \cup {"none"}]
  /\ dnsValue \in [DnsCells -> {"empty", "pos", "neg"}]
  /\ dnsFiller \in [DnsCells -> Tasks \cup {"none"}]

(* No call returns an answer that had already lapsed when the call began,  *)
(* whoever else replaces, fills or refreshes the host's cell meanwhile.    *)
FreshAnswer == \A t \in Tasks : dnsTask[t].answer # "late"

(* One lookup per cell: the filler of a cell is a task that waits on it,   *)
(* so a dropped filler never leaves the cell blocked.                      *)
FillerWaits ==
  \A c \in DnsCells : dnsFiller[c] # "none"
    => dnsTask[dnsFiller[c]].at = "fill" /\ dnsTask[dnsFiller[c]].cell = c /\ dnsValue[c] = "empty"

(* The resolver never answers with what had lapsed when it was asked, and  *)
(* never loses the right to fill a cell.                                   *)
AnswersFresh == DnsTypeOK /\ FreshAnswer /\ FillerWaits

(* Refuted: a refresh that fails leaves a good answer in place until its   *)
(* natural expiry.  refresh_all replaces the cell first and fills it with  *)
(* the failure.                                                            *)
FailedRefreshKeeps ==
  dnsTask[Refresher].at = "got" /\ dnsTask[Refresher].had => dnsTask[Refresher].answer = "pos"

(* Every call that waits for an answer gets one or is dropped.             *)
CallsReturn == \A t \in DnsCalls : (dnsTask[t].at \in {"look", "fill"}) ~> (dnsTask[t].at \notin {"look", "fill"})
=============================================================================
