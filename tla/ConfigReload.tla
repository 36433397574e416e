---------------------------- MODULE ConfigReload ----------------------------
(***************************************************************************)
(* The configuration of a running gateway: the file and its atomic store   *)
(* (crates/lb-controlplane/src/lib.rs: FileBackend, ConfigManager), the    *)
(* diff between two configurations (crates/lb-config/src/reload.rs), and   *)
(* the SIGHUP reload of the binary, which validates, rolls back, rebuilds  *)
(* L7 proxies and commits (crates/lb/src/main.rs: reload_config).          *)
(*                                                                         *)
(* The operator edits the file at any moment, a store may fail half-way,   *)
(* a rebuild may fail (its backends no longer resolve), and the process    *)
(* may stop at any step; what survives is the file and its temporary.      *)
(* The text of a configuration is a member of Texts; what it says is       *)
(* Typed[text].  The version counter only labels metrics and is left out.  *)
(***************************************************************************)
EXTENDS Naturals

CONSTANTS Texts,      \* contents the file may have
          Toml,       \* ... those ConfigManager::validate accepts
          Valid,      \* ... those parse_config and validate_config accept
          Listeners,  \* bind addresses
          Typed,      \* what an accepted text configures
          None        \* no text

Torn == "torn"        \* a file whose write was cut short

ASSUME TextsAssumption ==
  /\ Valid \subseteq Toml /\ Toml \subseteq Texts /\ Valid # {}
  /\ None \notin Texts /\ Torn \notin Texts
\* l7: the swappable fields of each listener; fixed: its fields that need a
\* restart (tls, quic, drain); keep: the effective max_keepalive_requests;
\* boot: every process-wide field that needs a restart.
ASSUME TypedAssumption ==
  \A t \in Toml :
    /\ Typed[t].proto \in [Listeners -> {"l7", "raw", "absent"}]
    /\ Typed[t].l7 \in [Listeners -> Nat]
    /\ Typed[t].fixed \in [Listeners -> Nat]
    /\ Typed[t].keep \in Nat /\ Typed[t].boot \in Nat

VARIABLES
  file, tmp,   \* the configuration file and FileBackend's temporary
  pc,          \* down, boot, idle, loaded, store, rename, apply
  mgr,         \* ConfigManager: [on, cur, prev]
  taken,       \* the text rollback_to_previous took out of previous_config
  booted,      \* the text the process was started with
  applied,     \* applied_config
  reg,         \* listener_reload_registry
  live,        \* the proxy each registered listener serves with
  todo,        \* to_rebuild: listeners still to be looked at
  warned,      \* listeners and fields the log has named as not applied
  hup,         \* SIGHUP is pending
  tainted      \* a store failed, or the file changed under the boot

disk == <<file, tmp>>
serving == <<booted, applied, reg, live>>
vars == <<disk, pc, mgr, taken, serving, todo, warned, hup, tainted>>

Off == [on |-> FALSE, cur |-> None, prev |-> None]
Proxy(c, l) == [l7 |-> c.l7[l], keep |-> c.keep]

\* Everything the process holds is gone with it.
Stopped ==
  /\ pc' = "down" /\ mgr' = Off /\ taken' = None /\ booted' = None
  /\ applied' = None /\ reg' = {} /\ live' = <<>> /\ todo' = {}
  /\ warned' = {} /\ hup' = FALSE /\ tainted' = FALSE

Init ==
  /\ file \in Valid /\ tmp = None /\ pc = "down" /\ mgr = Off /\ taken = None
  /\ booted = None /\ applied = None /\ reg = {} /\ live = <<>> /\ todo = {}
  /\ warned = {} /\ hup = FALSE /\ tainted = FALSE
----------------------------------------------------------------------------
(* LbConfig::diff, between the applied configuration and a new one. *)

\* Listeners matched by address and protocol whose L7 fields differ.
ListenerL7(old, new) ==
  {l \in Listeners : /\ old.proto[l] # "absent" /\ new.proto[l] = old.proto[l]
                     /\ old.l7[l] # new.l7[l]}

\* A process-wide keepalive change rebuilds every registered listener.
Rebuilds(old, new) ==
  ListenerL7(old, new) \cup (IF old.keep # new.keep THEN reg ELSE {})

\* Mutation: a listener whose protocol changed is not reported.
RestartRequiredNoProto(old, new) ==
  {l \in Listeners : old.proto[l] # new.proto[l]
                     /\ "absent" \in {old.proto[l], new.proto[l]}}
  \cup (IF old.boot # new.boot THEN {"boot"} ELSE {})

\* Listeners added, removed or of another protocol, listeners whose fixed
\* fields differ, and process-wide fields.
RestartRequired(old, new) ==
  {l \in Listeners : \/ old.proto[l] # new.proto[l]
                     \/ new.proto[l] # "absent" /\ old.fixed[l] # new.fixed[l]}
  \cup (IF old.boot # new.boot THEN {"boot"} ELSE {})
----------------------------------------------------------------------------
(* The operator. *)

Edit(t) ==
  /\ file' = t
  /\ UNCHANGED <<tmp, pc, mgr, taken, serving, todo, warned, hup, tainted>>

SendHup ==
  /\ pc \notin {"down", "boot"} /\ ~hup
  /\ hup' = TRUE
  /\ UNCHANGED <<disk, pc, mgr, taken, serving, todo, warned, tainted>>

\* SIGTERM, SIGKILL, a panic or a failed boot.  A write in progress leaves
\* the temporary whole, torn or untouched.
Stop ==
  /\ pc # "down"
  /\ Stopped
  /\ tmp' \in IF pc = "store" THEN {tmp, taken, Torn} ELSE {tmp}
  /\ UNCHANGED file
----------------------------------------------------------------------------
(* Boot. *)

\* async_main reads, parses and validates the file ...
Start ==
  /\ pc = "down" /\ file \in Valid
  /\ pc' = "boot" /\ booted' = file /\ applied' = file
  /\ UNCHANGED <<disk, mgr, taken, reg, live, todo, warned, hup, tainted>>

\* ... and ConfigManager::new reads it once more; a text it rejects leaves
\* the process without a manager.
NewManager ==
  IF file \in Toml THEN [on |-> TRUE, cur |-> file, prev |-> None] ELSE Off

\* The h1 and h1s listeners register their proxies as they are spawned.
Registered == {l \in Listeners : Typed[booted].proto[l] = "l7"}

BootManager ==
  /\ pc = "boot"
  /\ pc' = "idle"
  /\ mgr' = NewManager
  /\ reg' = Registered
  /\ live' = [l \in reg' |-> Proxy(Typed[booted], l)]
  /\ tainted' = (file # booted)
  /\ UNCHANGED <<disk, taken, booted, applied, todo, warned, hup>>
----------------------------------------------------------------------------
(* reload_config. *)

\* ConfigManager::reload: no manager, an unreadable, malformed or unchanged
\* file ends the reload; otherwise the old text is kept for a rollback.
Reload ==
  /\ pc = "idle" /\ hup
  /\ hup' = FALSE
  /\ IF ~mgr.on \/ file \notin Toml \/ file = mgr.cur
       THEN UNCHANGED <<pc, mgr>>
       ELSE /\ mgr' = [mgr EXCEPT !.cur = file, !.prev = mgr.cur]
            /\ pc' = "loaded"
  /\ UNCHANGED <<disk, taken, serving, todo, warned, tainted>>

\* Full validation: a text that fails it is rolled back, a text that passes
\* is diffed and its restart-required changes are logged.
Validate ==
  /\ pc = "loaded"
  /\ IF mgr.cur \in Valid
       THEN /\ pc' = "apply" /\ todo' = Rebuilds(Typed[applied], Typed[mgr.cur])
            /\ warned' = warned \cup RestartRequired(Typed[applied], Typed[mgr.cur])
            /\ UNCHANGED <<mgr, taken>>
       ELSE /\ pc' = "store" /\ taken' = mgr.prev
            /\ mgr' = [mgr EXCEPT !.prev = None]
            /\ UNCHANGED <<todo, warned>>
  /\ UNCHANGED <<disk, serving, hup, tainted>>

\* Mutation: the store writes the file in place.
StoreTmpInPlace ==
  /\ pc = "store"
  /\ file' \in {taken, Torn} /\ tmp' = taken
  /\ pc' = "rename"
  /\ UNCHANGED <<mgr, taken, serving, todo, warned, hup, tainted>>

\* FileBackend::store writes the temporary; the error of a failed write is
\* dropped by the caller, and what was taken is lost.
StoreTmp ==
  /\ pc = "store"
  /\ \/ tmp' = taken /\ pc' = "rename" /\ UNCHANGED <<taken, tainted>>
     \/ /\ tmp' \in {tmp, Torn} /\ pc' = "idle"
        /\ taken' = None /\ tainted' = TRUE
  /\ UNCHANGED <<file, mgr, serving, todo, warned, hup>>

\* Mutation: the rollback restores the file and forgets the manager.
StoreRenameOnly ==
  /\ pc = "rename"
  /\ file' = tmp /\ tmp' = None /\ pc' = "idle" /\ taken' = None
  /\ UNCHANGED <<mgr, serving, todo, warned, hup, tainted>>

\* ... and renames it over the file: whatever the operator wrote meanwhile is
\* replaced.
StoreRename ==
  /\ pc = "rename"
  /\ pc' = "idle" /\ taken' = None
  /\ \/ /\ file' = tmp /\ tmp' = None
        /\ mgr' = [mgr EXCEPT !.cur = taken, !.prev = mgr.cur]
        /\ UNCHANGED tainted
     \/ tainted' = TRUE /\ UNCHANGED <<disk, mgr>>
  /\ UNCHANGED <<serving, todo, warned, hup>>

\* rebuild_l7_proxies for one listener: a listener the new configuration does
\* not have is skipped, one without a swap handle is reported; the rebuild
\* swaps the proxy, or fails and leaves the old one live.
Rebuild(l) ==
  /\ pc = "apply" /\ l \in todo
  /\ todo' = todo \ {l}
  /\ LET new == Typed[mgr.cur] IN
     \/ new.proto[l] = "absent" /\ UNCHANGED <<live, warned>>
     \/ /\ new.proto[l] # "absent" /\ l \notin reg
        /\ warned' = warned \cup {l} /\ UNCHANGED live
     \/ /\ new.proto[l] # "absent" /\ l \in reg
        /\ \/ live' = [live EXCEPT ![l] = Proxy(new, l)] /\ UNCHANGED warned
           \/ warned' = warned \cup {l} /\ UNCHANGED live
  /\ UNCHANGED <<disk, pc, mgr, taken, booted, applied, reg, hup, tainted>>

\* Mutation: a signal that arrived during the reload is discarded.
CommitDropsHup ==
  /\ pc = "apply" /\ todo = {}
  /\ pc' = "idle" /\ applied' = mgr.cur /\ hup' = FALSE
  /\ UNCHANGED <<disk, mgr, taken, booted, reg, live, todo, warned, tainted>>

\* applied_config is replaced whether or not every rebuild succeeded.
Commit ==
  /\ pc = "apply" /\ todo = {}
  /\ pc' = "idle" /\ applied' = mgr.cur
  /\ UNCHANGED <<disk, mgr, taken, booted, reg, live, todo, warned, hup, tainted>>
----------------------------------------------------------------------------
Main == \/ BootManager \/ Reload \/ Validate \/ StoreTmp \/ StoreRename
        \/ (\E l \in Listeners : Rebuild(l)) \/ Commit

Next == Start \/ Main \/ Stop \/ SendHup \/ (\E t \in Texts : Edit(t))

Spec == Init /\ [][Next]_vars

\* The main task is scheduled; DNS lookups and disk writes return.
FairSpec == Spec /\ WF_vars(Main)
----------------------------------------------------------------------------
(* Properties. *)

TypeOK ==
  /\ file \in Texts \cup {Torn} /\ tmp \in Texts \cup {None, Torn}
  /\ pc \in {"down", "boot", "idle", "loaded", "store", "rename", "apply"}
  /\ mgr \in [on : BOOLEAN, cur : Toml \cup {None}, prev : Toml \cup {None}]
  /\ taken \in Toml \cup {None} /\ {booted, applied} \subseteq Valid \cup {None}
  /\ reg \subseteq Listeners /\ todo \subseteq Listeners
  /\ live \in [reg -> [l7 : Nat, keep : Nat]]
  /\ warned \subseteq Listeners \cup {"boot"}
  /\ hup \in BOOLEAN /\ tainted \in BOOLEAN

\* FileBackend: "the config file is never left in a partial state after a
\* crash", whichever step of a rollback the process dies in.
FileNeverTorn == file # Torn

\* Validate-first: whatever sequence of good and bad pushes, rollbacks and
\* failures, every live proxy was built from a configuration that passed the
\* full validation.
LiveIsValidated ==
  \A l \in reg : \E t \in Valid : live[l] = Proxy(Typed[t], l)

\* Neither a crash nor a bad push reaches the file or the proxies.
ReloadSafe == FileNeverTorn /\ LiveIsValidated

\* The text the manager calls current is the applied configuration whenever
\* no reload is in progress, so a later rollback restores a text that boots.
\* A failed store and an edit between the two reads of the boot are excused.
ManagerTracksApplied ==
  (pc = "idle" /\ mgr.on /\ ~tainted) => mgr.cur = applied

\* The honesty contract: between reloads, whatever the applied configuration
\* says and the process does not do has been named in the log, over any
\* number of reloads since the boot.
Honest ==
  pc = "idle" =>
    LET now == Typed[applied]  was == Typed[booted] IN
    /\ now.boot # was.boot => "boot" \in warned
    /\ \A l \in Listeners :
         ( \/ now.proto[l] # was.proto[l]
           \/ now.proto[l] # "absent" /\ now.fixed[l] # was.fixed[l]
           \/ l \in reg /\ live[l] # Proxy(now, l)
           \/ l \notin reg /\ now.proto[l] = "raw" /\ now.l7[l] # was.l7[l] )
         => l \in warned

\* A valid edit that is signalled and left alone takes effect, however the
\* reload interleaves with an earlier one.
EditTakesEffect ==
  \A t \in Valid :
    (file = t /\ hup) ~> (applied = t \/ file # t \/ pc = "down"
                          \/ ~mgr.on \/ tainted)

\* async_main says of applied_config that it is the configuration "actually
\* serving traffic".
AppliedIsLive ==
  pc = "idle" => \A l \in reg : Typed[applied].proto[l] = "l7"
                                => live[l] = Proxy(Typed[applied], l)
============================================================================
