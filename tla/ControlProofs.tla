---------------------------- MODULE ControlProofs ----------------------------
(***************************************************************************)
(* Proofs about the control plane: the reload of the configuration, and    *)
(* the reload of certificates with the rotation of ticket keys.            *)
(***************************************************************************)
EXTENDS ConfigReload, TlsReload, TLAPS

-----------------------------------------------------------------------------
(***************************************************************************)
(* The reload of the configuration, for any texts, any listeners and any   *)
(* sequence of edits, signals, failed stores and crashes.                  *)
(*                                                                         *)
(* The three invariants say something of the idle process only; what makes *)
(* them inductive is what holds in the middle of a reload.  On disk, the   *)
(* temporary that is about to be renamed is the text being restored        *)
(* (Storing).  In memory, the text that a rollback will restore is the     *)
(* applied one (Tracking), and whatever the configuration in the making    *)
(* demands is either in the log or still in the list of listeners to be    *)
(* rebuilt (Named).                                                        *)
(***************************************************************************)

\* What each step of the process has loaded.
Loaded ==
  /\ pc # "down" => booted \in Valid /\ applied \in Valid
  /\ pc = "boot" => applied = booted
  /\ pc \in {"down", "boot"} => reg = {}
  /\ pc \notin {"down", "boot"} => reg = Registered
  /\ mgr.on => mgr.cur \in Toml
  /\ pc \in {"loaded", "store", "rename", "apply"} => mgr.on
  /\ pc = "loaded" => mgr.prev \in Toml
  /\ pc = "apply" => mgr.cur \in Valid

Storing ==
  /\ file # Torn
  /\ pc \in {"store", "rename"} => taken \in Toml
  /\ pc = "rename" => tmp = taken

\* The text that is current, or that a rollback is about to make current.
Tracking ==
  (mgr.on /\ ~tainted) =>
    /\ pc = "idle" => mgr.cur = applied
    /\ pc = "loaded" => mgr.prev = applied
    /\ pc \in {"store", "rename"} => taken = applied

\* What the configuration says that only a restart brings about is logged.
RestartsNamed(now, was) ==
  /\ now.boot # was.boot => "boot" \in warned
  /\ \A l \in Listeners :
       \/ now.proto[l] # was.proto[l]
       \/ now.proto[l] # "absent" /\ now.fixed[l] # was.fixed[l]
       => l \in warned

\* What a rebuild brings about is done, logged, or among the listeners in rest.
RebuildsNamed(now, was, rest) ==
  \A l \in Listeners :
    \/ l \in reg /\ live[l] # Proxy(now, l)
    \/ l \notin reg /\ now.proto[l] = "raw" /\ now.l7[l] # was.l7[l]
    => l \in warned \cup rest

Named ==
  /\ pc \in {"idle", "loaded", "store", "rename"} =>
       /\ RestartsNamed(Typed[applied], Typed[booted])
       /\ RebuildsNamed(Typed[applied], Typed[booted], {})
  /\ pc = "apply" =>
       /\ RestartsNamed(Typed[mgr.cur], Typed[booted])
       /\ RebuildsNamed(Typed[mgr.cur], Typed[booted], todo)

ReloadInv == TypeOK /\ Loaded /\ Storing /\ Tracking /\ Named /\ LiveIsValidated
----------------------------------------------------------------------------
(* A proxy is built from the fields of a validated text.                   *)
LEMMA ProxyTyped ==
  ASSUME NEW t \in Toml, NEW l \in Listeners
  PROVE  Proxy(Typed[t], l) \in [l7 : Nat, keep : Nat]
BY TypedAssumption DEF Proxy

(* The manager of a started process, the manager off, and a stopped one.   *)
LEMMA ReloadInit == Init => ReloadInv
<1> SUFFICES ASSUME Init PROVE ReloadInv
  OBVIOUS
<1>1. TypeOK
  <2>1. live \in [reg -> [l7 : Nat, keep : Nat]]
    BY DEF Init
  <2> QED BY <2>1, TextsAssumption, Zenon DEF Init, TypeOK, Off
<1>2. Loaded /\ Storing /\ Tracking /\ Named /\ LiveIsValidated
  BY TextsAssumption DEF Init, Loaded, Storing, Tracking, Named, LiveIsValidated, Off
<1> QED BY <1>1, <1>2 DEF ReloadInv

(* Types are kept by every step.                                           *)
LEMMA ReloadTypes ==
  ASSUME ReloadInv, [Next]_vars PROVE TypeOK'
<1> USE TextsAssumption
<1>1. TypeOK /\ Loaded /\ Storing
  BY DEF ReloadInv
<1>2. CASE Start
  BY <1>1, <1>2 DEF TypeOK, Start, disk
<1>3. CASE BootManager
  <2>1. Registered \subseteq Listeners
    BY DEF Registered
  <2>2. live' \in [reg' -> [l7 : Nat, keep : Nat]]
    <3>1. live' = [l \in Registered |-> Proxy(Typed[booted], l)] /\ reg' = Registered
      BY <1>3 DEF BootManager
    <3>2. booted \in Toml
      BY <1>1, <1>3 DEF Loaded, BootManager
    <3> QED BY <2>1, <3>1, <3>2, ProxyTyped
  <2>3. mgr' \in [on : BOOLEAN, cur : Toml \cup {None}, prev : Toml \cup {None}]
    BY <1>3 DEF BootManager, NewManager, Off
  <2> QED BY <1>1, <1>3, <2>1, <2>2, <2>3 DEF TypeOK, BootManager, disk
<1>4. CASE Reload
  BY <1>1, <1>4, Zenon DEF TypeOK, Reload, disk, serving
<1>5. CASE Validate
  <2>1. pc' \in {"apply", "store"} /\ taken' \in Toml \cup {None}
    BY <1>1, <1>5 DEF TypeOK, Validate
  <2>2. mgr' \in [on : BOOLEAN, cur : Toml \cup {None}, prev : Toml \cup {None}]
    BY <1>1, <1>5 DEF TypeOK, Validate
  <2>3. todo' \subseteq Listeners /\ warned' \subseteq Listeners \cup {"boot"}
    BY <1>1, <1>5 DEF TypeOK, Validate, Rebuilds, ListenerL7, RestartRequired
  <2> QED BY <1>1, <1>5, <2>1, <2>2, <2>3 DEF TypeOK, Validate, disk, serving
<1>6. CASE StoreTmp
  BY <1>1, <1>6, Zenon DEF TypeOK, StoreTmp, serving
<1>7. CASE StoreRename
  <2>1. file' \in Texts \cup {Torn} /\ tmp' \in Texts \cup {None, Torn}
    BY <1>1, <1>7 DEF TypeOK, Storing, StoreRename, disk
  <2>2. mgr' \in [on : BOOLEAN, cur : Toml \cup {None}, prev : Toml \cup {None}]
    BY <1>1, <1>7, Zenon DEF TypeOK, StoreRename
  <2> QED BY <1>1, <1>7, <2>1, <2>2, Zenon DEF TypeOK, StoreRename, serving
<1>8. ASSUME NEW l \in Listeners, Rebuild(l) PROVE TypeOK'
  <2>1. mgr.cur \in Toml
    BY <1>1, <1>8 DEF Loaded, Rebuild
  <2>2. live' \in [reg' -> [l7 : Nat, keep : Nat]]
    BY <1>1, <1>8, <2>1, ProxyTyped DEF TypeOK, Rebuild
  <2>3. warned' \subseteq Listeners \cup {"boot"} /\ todo' \subseteq Listeners
    BY <1>1, <1>8 DEF TypeOK, Rebuild
  <2> QED BY <1>1, <1>8, <2>2, <2>3 DEF TypeOK, Rebuild, disk
<1>9. CASE Commit
  BY <1>1, <1>9 DEF TypeOK, Loaded, Commit, disk
<1>10. CASE Stop
  <2>1. live' \in [reg' -> [l7 : Nat, keep : Nat]]
    BY <1>10 DEF Stop, Stopped
  <2>2. tmp' \in Texts \cup {None, Torn}
    BY <1>1, <1>10 DEF TypeOK, Stop
  <2> QED BY <1>1, <1>10, <2>1, <2>2, Zenon DEF TypeOK, Stop, Stopped, Off
<1>11. CASE SendHup
  BY <1>1, <1>11 DEF TypeOK, SendHup, disk, serving
<1>12. ASSUME NEW t \in Texts, Edit(t) PROVE TypeOK'
  BY <1>1, <1>12 DEF TypeOK, Edit, serving
<1>13. CASE UNCHANGED vars
  BY <1>1, <1>13 DEF TypeOK, vars, disk, serving
<1> QED BY <1>2, <1>3, <1>4, <1>5, <1>6, <1>7, <1>8, <1>9, <1>10, <1>11, <1>12, <1>13
        DEF Next, Main

(* What is loaded, what is on disk and what a rollback would restore.      *)
LEMMA ReloadLoads ==
  ASSUME ReloadInv, [Next]_vars PROVE Loaded' /\ Storing' /\ Tracking'
<1> USE TextsAssumption
<1>1. TypeOK /\ Loaded /\ Storing /\ Tracking
  BY DEF ReloadInv
<1>2. CASE Start
  BY <1>1, <1>2 DEF TypeOK, Loaded, Storing, Tracking, Start, disk
<1>3. CASE BootManager
  <2>1. Registered' = Registered /\ reg' = Registered
    BY <1>3 DEF BootManager, Registered
  <2>2. Loaded'
    BY <1>1, <1>3, <2>1 DEF Loaded, BootManager, NewManager, Off
  <2>3. Storing' /\ Tracking'
    BY <1>1, <1>3, Zenon DEF Loaded, Storing, Tracking, BootManager, NewManager, Off, disk
  <2> QED BY <2>2, <2>3
<1>4. CASE Reload
  <2>1. Registered' = Registered
    BY <1>4 DEF Reload, Registered, serving
  <2> QED BY <1>1, <1>4, <2>1, Zenon DEF TypeOK, Loaded, Storing, Tracking, Reload, disk, serving
<1>5. CASE Validate
  <2>1. Registered' = Registered
    BY <1>5 DEF Validate, Registered, serving
  <2> QED BY <1>1, <1>5, <2>1 DEF TypeOK, Loaded, Storing, Tracking, Validate, disk, serving
<1>6. CASE StoreTmp
  <2>1. Registered' = Registered
    BY <1>6 DEF StoreTmp, Registered, serving
  <2> QED BY <1>1, <1>6, <2>1 DEF TypeOK, Loaded, Storing, Tracking, StoreTmp, serving
<1>7. CASE StoreRename
  <2>1. Registered' = Registered
    BY <1>7 DEF StoreRename, Registered, serving
  <2>2. file' # Torn
    BY <1>1, <1>7 DEF Storing, StoreRename, disk
  <2> QED BY <1>1, <1>7, <2>1, <2>2, Zenon DEF TypeOK, Loaded, Storing, Tracking, StoreRename, serving
<1>8. ASSUME NEW l \in Listeners, Rebuild(l) PROVE Loaded' /\ Storing' /\ Tracking'
  <2>1. UNCHANGED <<disk, pc, mgr, taken, booted, applied, reg, tainted>>
    BY <1>8 DEF Rebuild
  <2>2. Registered' = Registered
    BY <2>1 DEF Registered
  <2> QED BY <1>1, <2>1, <2>2 DEF Loaded, Storing, Tracking, disk
<1>9. CASE Commit
  <2>1. Registered' = Registered
    BY <1>9 DEF Commit, Registered
  <2> QED BY <1>1, <1>9, <2>1 DEF Loaded, Storing, Tracking, Commit, disk
<1>10. CASE Stop
  BY <1>1, <1>10 DEF Loaded, Storing, Tracking, Stop, Stopped, Off
<1>11. CASE SendHup \/ UNCHANGED vars
  <2>1. UNCHANGED <<disk, pc, mgr, taken, serving, tainted>>
    BY <1>11 DEF SendHup, vars
  <2>2. Registered' = Registered
    BY <2>1 DEF Registered, serving
  <2> QED BY <1>1, <2>1, <2>2 DEF Loaded, Storing, Tracking, disk, serving
<1>12. ASSUME NEW t \in Texts, Edit(t) PROVE Loaded' /\ Storing' /\ Tracking'
  <2>1. Registered' = Registered
    BY <1>12 DEF Edit, Registered, serving
  <2> QED BY <1>1, <1>12, <2>1 DEF Loaded, Storing, Tracking, Edit, serving
<1> QED BY <1>2, <1>3, <1>4, <1>5, <1>6, <1>7, <1>8, <1>9, <1>10, <1>11, <1>12
        DEF Next, Main

(* A proxy comes from the text booted or from the text of a reload that    *)
(* passed the validation.                                                  *)
LEMMA ReloadValidates ==
  ASSUME ReloadInv, [Next]_vars PROVE LiveIsValidated'
<1>1. TypeOK /\ Loaded /\ LiveIsValidated
  BY DEF ReloadInv
<1>2. CASE BootManager
  <2>1. \A l \in reg' : live'[l] = Proxy(Typed[booted], l)
    BY <1>2 DEF BootManager
  <2>2. booted \in Valid
    BY <1>1, <1>2 DEF Loaded, BootManager
  <2> QED BY <2>1, <2>2 DEF LiveIsValidated
<1>3. ASSUME NEW l \in Listeners, Rebuild(l) PROVE LiveIsValidated'
  <2>1. mgr.cur \in Valid /\ reg' = reg
    BY <1>1, <1>3 DEF Loaded, Rebuild
  <2>2. \A k \in reg : live'[k] = live[k] \/ live'[k] = Proxy(Typed[mgr.cur], k)
    BY <1>1, <1>3 DEF TypeOK, Rebuild
  <2> QED BY <1>1, <2>1, <2>2 DEF LiveIsValidated
<1>4. CASE Stop
  BY <1>4 DEF LiveIsValidated, Stop, Stopped
<1>5. ASSUME UNCHANGED <<reg, live>> PROVE LiveIsValidated'
  BY <1>1, <1>5 DEF LiveIsValidated
<1>6. ASSUME NEW t \in Texts, Edit(t) PROVE UNCHANGED <<reg, live>>
  BY <1>6 DEF Edit, serving
<1> QED BY <1>2, <1>3, <1>4, <1>5, <1>6
        DEF Next, Main, Start, Reload, Validate, StoreTmp, StoreRename, Commit, SendHup,
            vars, serving

(* A step that leaves the configurations, the proxies and the log alone,   *)
(* and does not enter or leave the rebuilding, keeps what was named.       *)
LEMMA NamedKept ==
  ASSUME Named, UNCHANGED <<applied, booted, reg, live, warned>>,
         pc \in {"idle", "loaded", "store", "rename"},
         pc' \in {"idle", "loaded", "store", "rename"}
  PROVE  Named'
<1>1. /\ RestartsNamed(Typed[applied], Typed[booted])
      /\ RebuildsNamed(Typed[applied], Typed[booted], {})
  BY DEF Named
<1>2. /\ RestartsNamed(Typed[applied], Typed[booted])'
      /\ RebuildsNamed(Typed[applied], Typed[booted], {})'
  BY <1>1 DEF RestartsNamed, RebuildsNamed
<1> QED BY <1>2 DEF Named

(* The restart-required part of the diff: over any number of reloads, what *)
(* differs from the boot was logged when it first differed.                *)
LEMMA RestartsAdd ==
  ASSUME NEW new, NEW old, NEW was, RestartsNamed(old, was),
         warned' = warned \cup RestartRequired(old, new)
  PROVE  /\ new.boot # was.boot => "boot" \in warned'
         /\ \A l \in Listeners :
              \/ new.proto[l] # was.proto[l]
              \/ new.proto[l] # "absent" /\ new.fixed[l] # was.fixed[l]
              => l \in warned'
BY DEF RestartsNamed, RestartRequired

(* The rebuild part: a live proxy that is not of the new configuration is  *)
(* logged already, or its listener is in the list to be rebuilt.           *)
LEMMA RebuildsListed ==
  ASSUME NEW new \in {Typed[t] : t \in Toml}, NEW old \in {Typed[t] : t \in Toml},
         NEW was \in {Typed[t] : t \in Toml},
         RestartsNamed(old, was), RebuildsNamed(old, was, {}),
         \A l \in reg : was.proto[l] = "l7",
         warned' = warned \cup RestartRequired(old, new),
         NEW l \in Listeners,
         \/ l \in reg /\ live[l] # Proxy(new, l)
         \/ l \notin reg /\ new.proto[l] = "raw" /\ new.l7[l] # was.l7[l]
  PROVE  l \in warned' \cup Rebuilds(old, new)
<1>1. CASE old.proto[l] # was.proto[l]
  BY <1>1 DEF RestartsNamed
<1>2. CASE old.proto[l] # new.proto[l]
  BY <1>2 DEF RestartRequired
<1>3. CASE old.proto[l] = was.proto[l] /\ old.proto[l] = new.proto[l]
  <2>1. CASE l \in reg /\ live[l] # Proxy(new, l)
    <3>1. old.proto[l] = "l7"
      BY <1>3, <2>1, Zenon
    <3>2. CASE live[l] # Proxy(old, l)
      BY <2>1, <3>2 DEF RebuildsNamed
    <3>3. CASE live[l] = Proxy(old, l)
      <4>1. old.l7[l] # new.l7[l] \/ old.keep # new.keep
        BY <2>1, <3>3 DEF Proxy
      <4> QED BY <1>3, <2>1, <3>1, <4>1, Zenon DEF Rebuilds, ListenerL7
    <3> QED BY <3>2, <3>3
  <2>2. CASE l \notin reg /\ new.proto[l] = "raw" /\ new.l7[l] # was.l7[l]
    <3>1. CASE old.l7[l] # was.l7[l]
      BY <1>3, <2>2, <3>1 DEF RebuildsNamed
    <3>2. CASE old.l7[l] = was.l7[l]
      BY <1>3, <2>2, <3>2 DEF Rebuilds, ListenerL7
    <3> QED BY <3>1, <3>2
  <2> QED BY <2>1, <2>2
<1> QED BY <1>1, <1>2, <1>3

(* The honesty contract is kept by every step.                             *)
LEMMA ReloadNames ==
  ASSUME ReloadInv, [Next]_vars PROVE Named'
<1>1. TypeOK /\ Loaded /\ Named
  BY DEF ReloadInv
<1>2. CASE Start
  BY <1>2 DEF Start, Named
<1>3. CASE BootManager
  <2>1. /\ pc' = "idle" /\ applied' = applied /\ booted' = booted /\ applied = booted
        /\ reg' = Registered
        /\ \A l \in reg' : live'[l] = Proxy(Typed[booted], l)
    BY <1>1, <1>3 DEF Loaded, BootManager
  <2> QED BY <2>1 DEF Named, RestartsNamed, RebuildsNamed
<1>4. CASE Reload
  <2>1. pc = "idle" /\ pc' \in {"idle", "loaded"} /\ UNCHANGED <<applied, booted, reg, live, warned>>
    BY <1>4 DEF Reload, serving
  <2> QED BY <1>1, <2>1, NamedKept
<1>5. CASE Validate
  <2>1. CASE mgr.cur \notin Valid
    <3>1. pc = "loaded" /\ pc' = "store" /\ UNCHANGED <<applied, booted, reg, live, warned>>
      BY <1>5, <2>1 DEF Validate, serving
    <3> QED BY <1>1, <3>1, NamedKept
  <2>2. CASE mgr.cur \in Valid
    <3>1. /\ pc' = "apply" /\ UNCHANGED <<mgr, applied, booted, reg, live>>
          /\ todo' = Rebuilds(Typed[applied], Typed[mgr.cur])
          /\ warned' = warned \cup RestartRequired(Typed[applied], Typed[mgr.cur])
      BY <1>5, <2>2 DEF Validate, serving
    <3>2. /\ RestartsNamed(Typed[applied], Typed[booted])
          /\ RebuildsNamed(Typed[applied], Typed[booted], {})
          /\ booted \in Toml /\ applied \in Toml /\ mgr.cur \in Toml
          /\ \A l \in reg : Typed[booted].proto[l] = "l7"
      BY <1>1, <1>5, <2>2, TextsAssumption DEF Named, Loaded, Registered, Validate
    <3>3. RestartsNamed(Typed[mgr.cur], Typed[booted])'
      <4> DEFINE new == Typed[mgr.cur]  was == Typed[booted]  old == Typed[applied]
      <4>1. RestartsNamed(old, was) /\ warned' = warned \cup RestartRequired(old, new)
        BY <3>1, <3>2
      <4>2. new' = new /\ was' = was
        BY <3>1
      <4> HIDE DEF new, was, old
      <4>3. /\ new.boot # was.boot => "boot" \in warned'
            /\ \A l \in Listeners :
                 \/ new.proto[l] # was.proto[l]
                 \/ new.proto[l] # "absent" /\ new.fixed[l] # was.fixed[l]
                 => l \in warned'
        BY <4>1, RestartsAdd
      <4>4. RestartsNamed(new, was)'
        BY <4>2, <4>3 DEF RestartsNamed
      <4> QED BY <4>4 DEF new, was
    <3>4. RebuildsNamed(Typed[mgr.cur], Typed[booted], todo)'
      <4> SUFFICES
            ASSUME NEW l \in Listeners,
                   \/ l \in reg /\ live[l] # Proxy(Typed[mgr.cur], l)
                   \/ /\ l \notin reg /\ Typed[mgr.cur].proto[l] = "raw"
                      /\ Typed[mgr.cur].l7[l] # Typed[booted].l7[l]
            PROVE  l \in warned' \cup Rebuilds(Typed[applied], Typed[mgr.cur])
        BY <3>1 DEF RebuildsNamed
      <4> QED BY <3>1, <3>2, RebuildsListed
    <3> QED BY <3>1, <3>3, <3>4 DEF Named
  <2> QED BY <2>1, <2>2
<1>6. CASE StoreTmp
  <2>1. pc = "store" /\ pc' \in {"idle", "rename"} /\ UNCHANGED <<applied, booted, reg, live, warned>>
    BY <1>6 DEF StoreTmp, serving
  <2> QED BY <1>1, <2>1, NamedKept
<1>7. CASE StoreRename
  <2>1. pc = "rename" /\ pc' = "idle" /\ UNCHANGED <<applied, booted, reg, live, warned>>
    BY <1>7 DEF StoreRename, serving
  <2> QED BY <1>1, <2>1, NamedKept
<1>8. ASSUME NEW l \in Listeners, Rebuild(l) PROVE Named'
  <2>1. /\ pc = "apply" /\ UNCHANGED <<pc, mgr, booted, reg>> /\ l \in todo
        /\ todo' = todo \ {l} /\ warned \subseteq warned'
    BY <1>8 DEF Rebuild
  <2>2. /\ RestartsNamed(Typed[mgr.cur], Typed[booted])
        /\ RebuildsNamed(Typed[mgr.cur], Typed[booted], todo)
    BY <1>1, <2>1 DEF Named
  <2>3. \A k \in reg : k # l => live'[k] = live[k]
    BY <1>1, <1>8 DEF TypeOK, Rebuild
  <2>4. \/ Typed[mgr.cur].proto[l] = "absent"
        \/ l \in warned'
        \/ l \in reg /\ live'[l] = Proxy(Typed[mgr.cur], l)
    BY <1>1, <1>8 DEF TypeOK, Rebuild
  <2>5. Typed[mgr.cur].proto[l] = "absent" => l \in warned \/ l \notin reg
    BY <1>1, <2>1, <2>2 DEF Loaded, Registered, RestartsNamed
  <2>6. RestartsNamed(Typed[mgr.cur], Typed[booted])'
    BY <2>1, <2>2 DEF RestartsNamed
  <2>7. RebuildsNamed(Typed[mgr.cur], Typed[booted], todo)'
    BY <2>1, <2>2, <2>3, <2>4, <2>5 DEF RebuildsNamed
  <2> QED BY <2>1, <2>6, <2>7 DEF Named
<1>9. CASE Commit
  <2>1. /\ pc = "apply" /\ pc' = "idle" /\ todo = {} /\ applied' = mgr.cur
        /\ UNCHANGED <<booted, reg, live, warned>>
    BY <1>9 DEF Commit
  <2>2. /\ RestartsNamed(Typed[mgr.cur], Typed[booted])
        /\ RebuildsNamed(Typed[mgr.cur], Typed[booted], {})
    BY <1>1, <2>1 DEF Named
  <2> QED BY <2>1, <2>2 DEF Named, RestartsNamed, RebuildsNamed
<1>10. CASE Stop
  BY <1>10 DEF Named, Stop, Stopped
<1>11. ASSUME UNCHANGED <<pc, mgr, applied, booted, reg, live, warned, todo>> PROVE Named'
  BY <1>1, <1>11 DEF Named, RestartsNamed, RebuildsNamed
<1>12. ASSUME NEW t \in Texts, Edit(t)
       PROVE  UNCHANGED <<pc, mgr, applied, booted, reg, live, warned, todo>>
  BY <1>12 DEF Edit, serving
<1>13. ASSUME SendHup \/ UNCHANGED vars
       PROVE  UNCHANGED <<pc, mgr, applied, booted, reg, live, warned, todo>>
  BY <1>13 DEF SendHup, vars, serving
<1> QED BY <1>2, <1>3, <1>4, <1>5, <1>6, <1>7, <1>8, <1>9, <1>10, <1>11, <1>12, <1>13
        DEF Next, Main

LEMMA ReloadAlways == Spec => []ReloadInv
<1>1. ReloadInv /\ [Next]_vars => ReloadInv'
  BY ReloadTypes, ReloadLoads, ReloadValidates, ReloadNames DEF ReloadInv
<1> QED BY ReloadInit, <1>1, PTL DEF Spec
----------------------------------------------------------------------------
(* Whatever is pushed and wherever the process dies, the configuration     *)
(* file is never torn (FileBackend::store) and every live proxy was built  *)
(* from a text that passed validate_config.                                *)
THEOREM ReloadIsSafe == Spec => []ReloadSafe
<1>1. ReloadInv => ReloadSafe
  BY DEF ReloadInv, Storing, ReloadSafe, FileNeverTorn
<1> QED BY <1>1, ReloadAlways, PTL

(* Outside of a reload ConfigManager's current text is the applied one,    *)
(* after any number of reloads and rollbacks, unless a store failed or the *)
(* file was edited between the two reads of the boot.                      *)
THEOREM ManagerIsTracking == Spec => []ManagerTracksApplied
<1>1. ReloadInv => ManagerTracksApplied
  BY DEF ReloadInv, Tracking, ManagerTracksApplied
<1> QED BY <1>1, ReloadAlways, PTL

(* The honesty contract of reload_config: after any sequence of reloads,   *)
(* whatever the applied configuration says and the process does not do     *)
(* has been named in the log.                                              *)
THEOREM ReloadIsHonest == Spec => []Honest
<1>1. ReloadInv => Honest
  BY DEF ReloadInv, Named, RestartsNamed, RebuildsNamed, Honest
<1> QED BY <1>1, ReloadAlways, PTL

-----------------------------------------------------------------------------
(***************************************************************************)
(* Certificates and ticket keys.                                           *)
(*                                                                         *)
(* TlsSound is made inductive by where a pass over the listeners is        *)
(* (PassAt), by every bundle having its own listener's rotator             *)
(* (OwnRotator), and by when the key of a ticket was demoted (Resumable).  *)
(***************************************************************************)

TlsTypes ==
  /\ certFile \in [state : {"ok", "unusable"}, pair : Nat]
  /\ keyFile \in [state : {"ok", "unusable"}, pair : Nat, mode : {"owner", "wide"}]
  /\ strict \in BOOLEAN
  /\ loading \in [at : {"perms", "cert", "key", "none", "exited"}, todo : Seq(Lists),
                  pair : Nat, boot : BOOLEAN, ok : Nat, fail : Nat]
  /\ bundles \in [Lists -> SUBSET [cert : Nat, key : Nat, rotator : Lists]]
  /\ rotators \in [Lists -> SUBSET [current : Nat, previous : SUBSET Nat, rotatedAt : Nat]]
  /\ second \in Nat
  /\ ticket \subseteq [listener : Lists, key : Nat, at : Nat]

\* A listener has at most one bundle and one rotator; the bundle is whole, and
\* its ticketer is the rotator of the listener itself, made before it.
OwnRotator ==
  \A l \in Lists :
    /\ \A r, q \in rotators[l] : r = q
    /\ \A b, c \in bundles[l] : b = c
    /\ \A b \in bundles[l] : b.rotator = l /\ b.cert = b.key
    /\ bundles[l] # {} => rotators[l] # {}

\* The listeners a pass has counted, of all.
TlsCounted == loading.ok + loading.fail

\* A pass is at the listener after those it has counted.  At boot those are the
\* ones that serve; a reload finds every one of them serving.
PassAt ==
  loading.at # "exited" =>
    /\ TlsCounted + Len(loading.todo) = Len(TlsListeners)
    /\ \A j \in 1 .. Len(loading.todo) : loading.todo[j] = TlsListeners[TlsCounted + j]
    /\ loading.at = "none" <=> Len(loading.todo) = 0
    /\ loading.at = "perms" => loading.boot
    /\ loading.at \in {"cert", "key"} => rotators[loading.todo[1]] # {}
    /\ loading.boot => \A i \in 1 .. Len(TlsListeners) :
                         bundles[TlsListeners[i]] # {} <=> i <= TlsCounted
    /\ ~loading.boot => \A l \in Lists : bundles[l] # {}

\* A young ticket's key is the current one, or was demoted after the sealing.
Resumable(t, r) ==
  (second - t.at < Overlap /\ second - t.at < Interval) =>
     t.key = r.current \/ (t.key \in r.previous /\ r.rotatedAt >= t.at)

TicketsKept ==
  \A t \in ticket : /\ bundles[t.listener] # {} /\ t.at <= second
                    /\ \A r \in rotators[t.listener] : Resumable(t, r)

TlsInv == TlsTypes /\ OwnRotator /\ PassAt /\ TicketsKept

LEMMA TlsInitHolds == TlsInit => TlsInv
<1> SUFFICES ASSUME TlsInit PROVE TlsInv
  OBVIOUS
<1>1. Len(TlsListeners) \in Nat /\ Len(TlsListeners) > 0 /\ TlsListeners \in Seq(Lists)
  BY TlsAssumption
<1>2. /\ loading.at = "perms" /\ loading.todo = TlsListeners /\ loading.boot
      /\ loading.ok = 0 /\ loading.fail = 0
  BY DEF TlsInit, Load
<1>3. TlsTypes
  BY <1>1 DEF TlsTypes, TlsInit, Load
<1>4. OwnRotator
  BY DEF OwnRotator, TlsInit
<1>5. PassAt
  <2>1. \A i \in 1 .. Len(TlsListeners) : TlsListeners[i] \in Lists
    BY <1>1 DEF Lists
  <2>2. \A l \in Lists : bundles[l] = {}
    BY DEF TlsInit
  <2> QED BY <1>1, <1>2, <2>1, <2>2 DEF PassAt, TlsCounted
<1> QED BY <1>3, <1>4, <1>5 DEF TlsInv, TicketsKept, TlsInit

(* What a listener's rotator is, where it has one.                         *)
LEMMA RotatorOf ==
  ASSUME TlsTypes, OwnRotator, NEW l \in Lists, rotators[l] # {}
  PROVE  /\ Rotator(l) \in rotators[l]
         /\ \A r \in rotators[l] : r = Rotator(l)
         /\ Rotator(l) \in [current : Nat, previous : SUBSET Nat, rotatedAt : Nat]
<1>1. Rotator(l) \in rotators[l]
  BY Zenon DEF Rotator, The
<1>2. rotators[l] \subseteq [current : Nat, previous : SUBSET Nat, rotatedAt : Nat]
  BY DEF TlsTypes
<1> QED BY <1>1, <1>2, Zenon DEF OwnRotator

(* A rotation keeps every young ticket's key: the key it demotes lives for *)
(* the overlap from now on, and the key it drops was demoted an interval   *)
(* ago.                                                                    *)
LEMMA RotationKeeps ==
  ASSUME TlsInv, NEW l \in Lists, RotateIfDue(l)
  PROVE  TlsTypes' /\ OwnRotator' /\ TicketsKept' /\ \A k \in Lists : rotators'[k] # {} <=> rotators[k] # {}
<1> DEFINE r == Rotator(l)
<1>1. /\ rotators[l] # {} /\ UNCHANGED <<files, loading, bundles, second, ticket>>
      /\ rotators \in [Lists -> SUBSET [current : Nat, previous : SUBSET Nat, rotatedAt : Nat]]
      /\ second \in Nat /\ Overlap \in Nat /\ Interval \in Nat
  BY TlsAssumption DEF TlsInv, TlsTypes, RotateIfDue
<1>2. r \in [current : Nat, previous : SUBSET Nat, rotatedAt : Nat] /\ rotators[l] = {r}
  BY <1>1, RotatorOf DEF TlsInv
<1> HIDE DEF r
<1>3. PICK q \in [current : Nat, previous : SUBSET Nat, rotatedAt : Nat] :
        /\ rotators' = [rotators EXCEPT ![l] = {q}]
        /\ \/ q = r
           \/ /\ q.current = r.current /\ q.rotatedAt = r.rotatedAt
              /\ second - r.rotatedAt < Overlap => q.previous = r.previous
           \/ /\ second - r.rotatedAt >= Interval
              /\ q.rotatedAt = second
              /\ 0 < Overlap => q.previous = {r.current}
  <2>1. CASE Due(r) /\ rotators' = [rotators EXCEPT ![l] = {Expired(Demoted(r))}]
    <3>1. Expired(Demoted(r)) \in [current : Nat, previous : SUBSET Nat, rotatedAt : Nat]
      BY <1>1, <1>2 DEF Expired, Demoted
    <3>2. /\ Expired(Demoted(r)).rotatedAt = second
          /\ 0 < Overlap => Expired(Demoted(r)).previous = {r.current}
      BY <1>1, <1>2 DEF Expired, Demoted
    <3> QED BY <2>1, <3>1, <3>2, Zenon DEF Due
  <2>2. CASE ~Due(r) /\ rotators' = [rotators EXCEPT ![l] = {Expired(r)}]
    <3>1. Expired(r) \in [current : Nat, previous : SUBSET Nat, rotatedAt : Nat]
      BY <1>1, <1>2 DEF Expired
    <3>2. /\ Expired(r).current = r.current /\ Expired(r).rotatedAt = r.rotatedAt
          /\ second - r.rotatedAt < Overlap => Expired(r).previous = r.previous
      BY <1>1, <1>2 DEF Expired
    <3> QED BY <2>2, <3>1, <3>2, Zenon
  <2>3. CASE UNCHANGED rotators
    <3>1. rotators' = [rotators EXCEPT ![l] = {r}]
      BY <1>1, <1>2, <2>3
    <3> QED BY <1>2, <3>1, Zenon
  <2> QED BY <2>1, <2>2, <2>3, Zenon DEF RotateIfDue, r
<1>4. rotators'[l] = {q} /\ \A k \in Lists : k # l => rotators'[k] = rotators[k]
  BY <1>1, <1>3
<1>5. TlsTypes'
  <2>1. rotators' \in [Lists -> SUBSET [current : Nat, previous : SUBSET Nat, rotatedAt : Nat]]
    BY <1>1, <1>3
  <2> QED BY <1>1, <2>1 DEF TlsInv, TlsTypes, files
<1>6. OwnRotator'
  BY <1>1, <1>4 DEF TlsInv, OwnRotator
<1>7. TicketsKept'
  <2> SUFFICES ASSUME NEW t \in ticket PROVE /\ bundles[t.listener] # {} /\ t.at <= second
                                             /\ \A p \in rotators'[t.listener] : Resumable(t, p)
    BY <1>1 DEF TicketsKept, Resumable
  <2>1. t.at \in Nat /\ t.key \in Nat /\ t.listener \in Lists
    BY DEF TlsInv, TlsTypes
  <2>2. /\ bundles[t.listener] # {} /\ t.at <= second
        /\ \A p \in rotators[t.listener] : Resumable(t, p)
    BY DEF TlsInv, TicketsKept
  <2>3. CASE t.listener # l
    BY <1>4, <2>1, <2>2, <2>3
  <2>4. CASE t.listener = l
    <3>1. Resumable(t, r)
      BY <1>2, <2>2, <2>4
    <3>2. Resumable(t, q)
      BY <1>1, <1>2, <1>3, <2>1, <2>2, <3>1 DEF Resumable
    <3> QED BY <1>4, <2>2, <2>4, <3>2
  <2> QED BY <2>3, <2>4
<1> QED BY <1>2, <1>4, <1>5, <1>6, <1>7

LEMMA LoadTyped ==
  ASSUME TlsTypes
  PROVE  /\ loading \in [at : {"perms", "cert", "key", "none", "exited"}, todo : Seq(Lists),
                         pair : Nat, boot : BOOLEAN, ok : Nat, fail : Nat]
         /\ loading.todo \in Seq(Lists) /\ Len(loading.todo) \in Nat
         /\ loading.ok \in Nat /\ loading.fail \in Nat
         /\ TlsListeners \in Seq(Lists) /\ Len(TlsListeners) \in Nat
<1>1. loading \in [at : {"perms", "cert", "key", "none", "exited"}, todo : Seq(Lists),
                   pair : Nat, boot : BOOLEAN, ok : Nat, fail : Nat]
  BY Zenon DEF TlsTypes
<1>2. TlsListeners \in Seq(Lists)
  BY TlsAssumption, Zenon
<1> QED BY <1>1, <1>2

(* Where a pass is that has not ended.                                     *)
LEMMA PassPlace ==
  ASSUME PassAt, loading.at \in {"perms", "cert", "key"}
  PROVE  /\ TlsCounted + Len(loading.todo) = Len(TlsListeners) /\ Len(loading.todo) # 0
         /\ \A j \in 1 .. Len(loading.todo) : loading.todo[j] = TlsListeners[TlsCounted + j]
<1>1. loading.at # "exited" /\ loading.at # "none"
  OBVIOUS
<1> QED BY <1>1, Zenon DEF PassAt

(* Going on to the next listener, the pass has counted one more.           *)
LEMMA AdvanceCounts ==
  ASSUME TlsTypes, PassAt, loading.at \in {"cert", "key"},
         NEW at \in {"perms", "cert"}, NEW ok \in Nat, NEW fail \in Nat, ok + fail = 1,
         Advance(at, ok, fail)
  PROVE  /\ loading' \in [at : {"perms", "cert", "key", "none", "exited"}, todo : Seq(Lists),
                          pair : Nat, boot : BOOLEAN, ok : Nat, fail : Nat]
         /\ loading'.boot = loading.boot /\ TlsCounted' = TlsCounted + 1
         /\ TlsCounted' + Len(loading'.todo) = Len(TlsListeners)
         /\ \A j \in 1 .. Len(loading'.todo) : loading'.todo[j] = TlsListeners[TlsCounted' + j]
         /\ loading'.at = "none" <=> Len(loading'.todo) = 0
         /\ loading'.at \in {"none", at}
<1> DEFINE rest == loading.todo
<1>1. /\ loading \in [at : {"perms", "cert", "key", "none", "exited"}, todo : Seq(Lists),
                      pair : Nat, boot : BOOLEAN, ok : Nat, fail : Nat]
      /\ rest \in Seq(Lists) /\ loading.ok \in Nat /\ loading.fail \in Nat
      /\ Len(TlsListeners) \in Nat
  BY LoadTyped
<1>2. /\ TlsCounted + Len(rest) = Len(TlsListeners) /\ Len(rest) # 0
      /\ \A j \in 1 .. Len(rest) : rest[j] = TlsListeners[TlsCounted + j]
  BY PassPlace
<1>3. /\ loading'.at = IF Len(rest) = 1 THEN "none" ELSE at
      /\ loading'.todo = Tail(rest) /\ loading'.pair = loading.pair /\ loading'.boot = loading.boot
      /\ loading'.ok = loading.ok + ok /\ loading'.fail = loading.fail + fail
  BY <1>1 DEF Advance
<1>4. /\ Tail(rest) \in Seq(Lists) /\ Len(Tail(rest)) = Len(rest) - 1 /\ Len(rest) \in Nat
      /\ \A j \in 1 .. Len(Tail(rest)) : Tail(rest)[j] = rest[j + 1]
  BY <1>1, <1>2
<1>5. loading' \in [at : {"perms", "cert", "key", "none", "exited"}, todo : Seq(Lists),
                    pair : Nat, boot : BOOLEAN, ok : Nat, fail : Nat]
  <2> DEFINE a == IF Len(rest) = 1 THEN "none" ELSE at
             t == Tail(rest)
             o == loading.ok + ok
             f == loading.fail + fail
  <2>1. loading' = [loading EXCEPT !.at = a, !.todo = t, !.ok = o, !.fail = f]
    BY DEF Advance
  <2>2. a \in {"perms", "cert", "none"} /\ t \in Seq(Lists) /\ o \in Nat /\ f \in Nat
    BY <1>1, <1>4
  <2> HIDE DEF a, t, o, f
  <2> QED BY <1>1, <2>1, <2>2, Zenon
<1> HIDE DEF rest
<1>6. TlsCounted \in Nat /\ TlsCounted' = TlsCounted + 1
  <2>1. loading.ok \in Nat /\ loading.fail \in Nat
    BY <1>1
  <2>2. loading'.ok = loading.ok + ok /\ loading'.fail = loading.fail + fail
    BY <1>3
  <2> QED BY <2>1, <2>2 DEF TlsCounted
<1>7. ASSUME NEW j \in 1 .. Len(loading'.todo)
      PROVE  loading'.todo[j] = TlsListeners[TlsCounted' + j]
  <2>1. j + 1 \in 1 .. Len(rest) /\ TlsCounted + (j + 1) = TlsCounted' + j
    BY <1>3, <1>4, <1>6
  <2>2. rest[j + 1] = TlsListeners[TlsCounted + (j + 1)]
    BY <1>2, <2>1
  <2>3. loading'.todo[j] = rest[j + 1]
    BY <1>3, <1>4
  <2> QED BY <2>1, <2>2, <2>3
<1>8. TlsCounted' + Len(loading'.todo) = Len(TlsListeners)
  BY <1>1, <1>2, <1>3, <1>4, <1>6
<1>9. loading'.at = "none" <=> Len(loading'.todo) = 0
  BY <1>1, <1>3, <1>4
<1> QED BY <1>3, <1>5, <1>6, <1>7, <1>8, <1>9, Zenon

(* The listener a pass is at.                                              *)
LEMMA EntryOf ==
  ASSUME TlsTypes, PassAt, loading.at \in {"perms", "cert", "key"}
  PROVE  /\ Entry \in Lists /\ Entry = loading.todo[1]
         /\ TlsCounted \in Nat /\ TlsCounted + 1 \in 1 .. Len(TlsListeners)
         /\ Entry = TlsListeners[TlsCounted + 1]
         /\ \A i \in 1 .. Len(TlsListeners) : TlsListeners[i] = Entry => i = TlsCounted + 1
<1>1. /\ loading.todo \in Seq(Lists) /\ Len(loading.todo) \in Nat /\ Len(loading.todo) # 0
      /\ TlsCounted \in Nat /\ TlsCounted + Len(loading.todo) = Len(TlsListeners)
      /\ \A j \in 1 .. Len(loading.todo) : loading.todo[j] = TlsListeners[TlsCounted + j]
  BY LoadTyped, PassPlace DEF TlsCounted
<1>2. Entry = loading.todo[1] /\ Entry \in Lists
  BY <1>1 DEF Entry
<1>3. TlsCounted + 1 \in 1 .. Len(TlsListeners)
  BY <1>1
<1>4. Entry = TlsListeners[TlsCounted + 1]
  BY <1>1, <1>2
<1>5. DOMAIN TlsListeners = 1 .. Len(TlsListeners)
  BY TlsAssumption
<1> QED BY <1>1, <1>2, <1>3, <1>4, <1>5, TlsAssumption, Zenon

(* The step of a pass that ends the process keeps what the invariant says. *)
LEMMA ExitKeeps ==
  ASSUME TlsInv, loading' = [loading EXCEPT !.at = "exited"],
         UNCHANGED <<files, bundles, rotators, second, ticket>>
  PROVE  TlsInv'
<1>1. /\ loading' \in [at : {"perms", "cert", "key", "none", "exited"}, todo : Seq(Lists),
                       pair : Nat, boot : BOOLEAN, ok : Nat, fail : Nat]
      /\ loading'.at = "exited"
  BY LoadTyped DEF TlsInv
<1>2. TlsTypes'
  BY <1>1, Zenon DEF TlsInv, TlsTypes, files
<1>3. PassAt'
  BY <1>1 DEF PassAt
<1>4. OwnRotator' /\ TicketsKept'
  BY DEF TlsInv, OwnRotator, TicketsKept, Resumable
<1> QED BY <1>2, <1>3, <1>4 DEF TlsInv

(* build_tls_bundle makes the rotator of a listener that does not serve    *)
(* yet: no ticket is sealed by the one it replaces.                        *)
LEMMA BuildKeeps == TlsInv /\ BuildTlsBundle => TlsInv'
<1> SUFFICES ASSUME TlsInv, BuildTlsBundle PROVE TlsInv'
  OBVIOUS
<1>1. CASE ~OwnerOnly
  BY <1>1, ExitKeeps DEF BuildTlsBundle
<1>2. CASE OwnerOnly
  <2>1. /\ loading.at = "perms" /\ loading' = [loading EXCEPT !.at = "cert"]
        /\ rotators' = [rotators EXCEPT ![Entry] = {NewRotator}]
        /\ UNCHANGED <<files, bundles, second, ticket>>
    BY <1>2 DEF BuildTlsBundle
  <2>2. /\ Entry \in Lists /\ Entry = loading.todo[1] /\ TlsCounted \in Nat
        /\ TlsCounted + 1 \in 1 .. Len(TlsListeners) /\ Entry = TlsListeners[TlsCounted + 1]
    BY <2>1, EntryOf DEF TlsInv
  <2>3. /\ loading' \in [at : {"perms", "cert", "key", "none", "exited"}, todo : Seq(Lists),
                         pair : Nat, boot : BOOLEAN, ok : Nat, fail : Nat]
        /\ loading'.at = "cert" /\ loading'.todo = loading.todo /\ loading'.boot = loading.boot
        /\ loading'.ok = loading.ok /\ loading'.fail = loading.fail
    BY <2>1, LoadTyped DEF TlsInv
  <2>4. NewRotator \in [current : Nat, previous : SUBSET Nat, rotatedAt : Nat]
    BY DEF NewRotator, TlsInv, TlsTypes
  <2>5. /\ rotators \in [Lists -> SUBSET [current : Nat, previous : SUBSET Nat, rotatedAt : Nat]]
        /\ rotators' \in [Lists -> SUBSET [current : Nat, previous : SUBSET Nat, rotatedAt : Nat]]
        /\ rotators'[Entry] = {NewRotator}
        /\ \A k \in Lists : k # Entry => rotators'[k] = rotators[k]
    <3>1. rotators \in [Lists -> SUBSET [current : Nat, previous : SUBSET Nat, rotatedAt : Nat]]
      BY Zenon DEF TlsInv, TlsTypes
    <3> HIDE DEF NewRotator
    <3> QED BY <2>1, <2>2, <2>4, <3>1
  <2>6. TlsTypes'
    BY <2>1, <2>3, <2>5, Zenon DEF TlsInv, TlsTypes, files
  <2>7. OwnRotator'
    BY <2>1, <2>5 DEF TlsInv, OwnRotator
  <2>8. loading.boot /\ bundles[Entry] = {}
    <3>1. loading.boot /\ (bundles[TlsListeners[TlsCounted + 1]] # {} <=> TlsCounted + 1 <= TlsCounted)
      BY <2>1, <2>2 DEF TlsInv, PassAt
    <3> QED BY <2>2, <3>1
  <2>9. PassAt'
    <3>1. TlsCounted' = TlsCounted
      BY <2>3 DEF TlsCounted
    <3>2. /\ TlsCounted + Len(loading.todo) = Len(TlsListeners) /\ Len(loading.todo) # 0
          /\ \A j \in 1 .. Len(loading.todo) : loading.todo[j] = TlsListeners[TlsCounted + j]
      BY <2>1, PassPlace DEF TlsInv
    <3>3. \A i \in 1 .. Len(TlsListeners) : bundles[TlsListeners[i]] # {} <=> i <= TlsCounted
      BY <2>1, <2>8, Zenon DEF TlsInv, PassAt
    <3> QED BY <2>1, <2>2, <2>3, <2>5, <2>8, <3>1, <3>2, <3>3, Zenon DEF PassAt
  <2>10. TicketsKept'
    <3> SUFFICES ASSUME NEW t \in ticket
                 PROVE  /\ bundles[t.listener] # {} /\ t.at <= second
                        /\ \A r \in rotators'[t.listener] : Resumable(t, r)
      BY <2>1 DEF TicketsKept, Resumable
    <3>1. /\ bundles[t.listener] # {} /\ t.at <= second /\ t.listener \in Lists
          /\ \A r \in rotators[t.listener] : Resumable(t, r)
      BY DEF TlsInv, TicketsKept, TlsTypes
    <3>2. t.listener # Entry
      BY <2>8, <3>1
    <3> QED BY <2>5, <3>1, <3>2
  <2> QED BY <2>6, <2>7, <2>9, <2>10 DEF TlsInv
<1> QED BY <1>1, <1>2

(* A reload that fails on one listener leaves what it serves and goes on;  *)
(* a failure at boot ends the process.                                     *)
LEMMA FailedKeeps ==
  ASSUME TlsInv, loading.at \in {"cert", "key"}, Failed,
         UNCHANGED <<files, rotators, second, ticket>>
  PROVE  TlsInv'
<1>1. CASE loading.boot
  BY <1>1, ExitKeeps DEF Failed
<1>2. CASE ~loading.boot
  <2>1. Advance("cert", 0, 1) /\ bundles' = bundles
    BY <1>2 DEF Failed
  <2>2. /\ loading' \in [at : {"perms", "cert", "key", "none", "exited"}, todo : Seq(Lists),
                         pair : Nat, boot : BOOLEAN, ok : Nat, fail : Nat]
        /\ ~loading'.boot
        /\ TlsCounted' + Len(loading'.todo) = Len(TlsListeners)
        /\ \A j \in 1 .. Len(loading'.todo) : loading'.todo[j] = TlsListeners[TlsCounted' + j]
        /\ loading'.at = "none" <=> Len(loading'.todo) = 0
        /\ loading'.at \in {"none", "cert"}
    <3>1. 0 \in Nat /\ 1 \in Nat /\ 0 + 1 = 1
      OBVIOUS
    <3> HIDE DEF Advance
    <3> QED BY <1>2, <2>1, <3>1, AdvanceCounts DEF TlsInv
  <2>3. \A l \in Lists : bundles[l] # {} /\ rotators[l] # {}
    BY <1>2 DEF TlsInv, PassAt, OwnRotator
  <2>4. TlsTypes'
    BY <2>1, <2>2, Zenon DEF TlsInv, TlsTypes, files
  <2>5. PassAt'
    <3>1. loading'.at = "cert" => loading'.todo[1] \in Lists
      <4>1. loading'.at = "cert" => Len(loading'.todo) # 0 /\ loading'.todo \in Seq(Lists)
        BY <2>2
      <4> QED BY <4>1
    <3> QED BY <2>1, <2>2, <2>3, <3>1 DEF PassAt
  <2>6. OwnRotator' /\ TicketsKept'
    BY <2>1 DEF TlsInv, OwnRotator, TicketsKept, Resumable
  <2> QED BY <2>4, <2>5, <2>6 DEF TlsInv
<1> QED BY <1>1, <1>2

(* Reading the certificate of the listener the pass is at.                 *)
LEMMA ReadCertKeeps == TlsInv /\ ReadCert => TlsInv'
<1> SUFFICES ASSUME TlsInv, ReadCert PROVE TlsInv'
  OBVIOUS
<1>1. CASE certFile.state # "ok"
  BY <1>1, FailedKeeps DEF ReadCert
<1>2. CASE certFile.state = "ok"
  <2>1. /\ loading.at = "cert" /\ loading' = [loading EXCEPT !.at = "key", !.pair = certFile.pair]
        /\ UNCHANGED <<files, bundles, rotators, second, ticket>>
    BY <1>2 DEF ReadCert
  <2>2. certFile.pair \in Nat
    BY DEF TlsInv, TlsTypes
  <2>3. /\ loading' \in [at : {"perms", "cert", "key", "none", "exited"}, todo : Seq(Lists),
                         pair : Nat, boot : BOOLEAN, ok : Nat, fail : Nat]
        /\ loading'.at = "key" /\ loading'.todo = loading.todo /\ loading'.boot = loading.boot
        /\ loading'.ok = loading.ok /\ loading'.fail = loading.fail
    BY <2>1, <2>2, LoadTyped, Zenon DEF TlsInv
  <2>4. TlsTypes'
    BY <2>1, <2>3, Zenon DEF TlsInv, TlsTypes, files
  <2>5. PassAt'
    <3>1. TlsCounted' = TlsCounted
      BY <2>3 DEF TlsCounted
    <3> QED BY <2>1, <2>3, <3>1, Zenon DEF TlsInv, PassAt
  <2>6. OwnRotator' /\ TicketsKept'
    BY <2>1 DEF TlsInv, OwnRotator, TicketsKept, Resumable
  <2> QED BY <2>4, <2>5, <2>6 DEF TlsInv
<1> QED BY <1>1, <1>2

(* The bundle is stored whole: the pair of the certificate read before is  *)
(* the pair of the key, and the listener's rotator stays.                  *)
LEMMA ReadKeyKeeps == TlsInv /\ ReadKey => TlsInv'
<1> SUFFICES ASSUME TlsInv, ReadKey PROVE TlsInv'
  OBVIOUS
<1>1. CASE keyFile.state # "ok" \/ keyFile.pair # loading.pair
  BY <1>1, FailedKeeps DEF ReadKey
<1>2. CASE ~(keyFile.state # "ok" \/ keyFile.pair # loading.pair)
  <2> DEFINE at == IF loading.boot THEN "perms" ELSE "cert"
             b == [cert |-> loading.pair, key |-> keyFile.pair, rotator |-> Entry]
  <2>1. /\ loading.at = "key" /\ Advance(at, 1, 0) /\ bundles' = [bundles EXCEPT ![Entry] = {b}]
        /\ UNCHANGED <<files, rotators, second, ticket>>
    BY <1>2 DEF ReadKey
  <2>2. /\ Entry \in Lists /\ Entry = loading.todo[1] /\ TlsCounted \in Nat
        /\ TlsCounted + 1 \in 1 .. Len(TlsListeners) /\ Entry = TlsListeners[TlsCounted + 1]
        /\ \A i \in 1 .. Len(TlsListeners) : TlsListeners[i] = Entry => i = TlsCounted + 1
    BY <2>1, EntryOf DEF TlsInv
  <2>3. /\ b \in [cert : Nat, key : Nat, rotator : Lists] /\ b.cert = b.key /\ b.rotator = Entry
    <3>1. loading.pair \in Nat
      BY LoadTyped DEF TlsInv
    <3> QED BY <1>2, <2>2, <3>1
  <2>4. at \in {"perms", "cert"} /\ (loading.boot <=> at = "perms")
    OBVIOUS
  <2> HIDE DEF at, b
  <2>5. /\ loading' \in [at : {"perms", "cert", "key", "none", "exited"}, todo : Seq(Lists),
                         pair : Nat, boot : BOOLEAN, ok : Nat, fail : Nat]
        /\ loading'.boot = loading.boot /\ TlsCounted' = TlsCounted + 1
        /\ TlsCounted' + Len(loading'.todo) = Len(TlsListeners)
        /\ \A j \in 1 .. Len(loading'.todo) : loading'.todo[j] = TlsListeners[TlsCounted' + j]
        /\ loading'.at = "none" <=> Len(loading'.todo) = 0
        /\ loading'.at \in {"none", at}
    <3>1. 0 \in Nat /\ 1 \in Nat /\ 1 + 0 = 1
      OBVIOUS
    <3> QED BY <2>1, <2>4, <3>1, AdvanceCounts DEF TlsInv
  <2>6. /\ bundles' \in [Lists -> SUBSET [cert : Nat, key : Nat, rotator : Lists]]
        /\ bundles'[Entry] = {b}
        /\ \A k \in Lists : k # Entry => bundles'[k] = bundles[k]
    <3>1. bundles \in [Lists -> SUBSET [cert : Nat, key : Nat, rotator : Lists]]
      BY Zenon DEF TlsInv, TlsTypes
    <3> QED BY <2>1, <2>2, <2>3, <3>1
  <2>7. rotators[Entry] # {}
    BY <2>1, <2>2 DEF TlsInv, PassAt
  <2>8. TlsTypes'
    BY <2>1, <2>5, <2>6, Zenon DEF TlsInv, TlsTypes, files
  <2>9. OwnRotator'
    BY <2>1, <2>3, <2>6, <2>7 DEF TlsInv, OwnRotator
  <2>10. PassAt'
    <3>1. ~loading.boot => \A l \in Lists : bundles'[l] # {} /\ rotators[l] # {}
      <4>1. ~loading.boot => \A l \in Lists : bundles[l] # {} /\ rotators[l] # {}
        BY <2>1 DEF TlsInv, PassAt, OwnRotator
      <4> QED BY <2>6, <4>1
    <3>2. loading'.at = "cert" => loading'.todo[1] \in Lists /\ ~loading.boot
      <4>1. loading'.at = "cert" => Len(loading'.todo) # 0 /\ loading'.todo \in Seq(Lists)
        BY <2>5
      <4> QED BY <2>4, <2>5, <4>1
    <3>3. ASSUME loading.boot, NEW i \in 1 .. Len(TlsListeners)
          PROVE  bundles'[TlsListeners[i]] # {} <=> i <= TlsCounted'
      <4>1. bundles[TlsListeners[i]] # {} <=> i <= TlsCounted
        BY <2>1, <3>3 DEF TlsInv, PassAt
      <4>2. TlsListeners[i] \in Lists
        BY TlsAssumption DEF Lists
      <4>3. CASE TlsListeners[i] = Entry
        BY <2>2, <2>5, <2>6, <4>3
      <4>4. CASE TlsListeners[i] # Entry
        BY <2>2, <2>5, <2>6, <4>1, <4>2, <4>4
      <4> QED BY <4>3, <4>4
    <3>4. loading'.at = "perms" => loading'.boot
      BY <2>4, <2>5
    <3> QED BY <2>1, <2>4, <2>5, <3>1, <3>2, <3>3, <3>4, Zenon DEF PassAt
  <2>11. TicketsKept'
    <3> SUFFICES ASSUME NEW t \in ticket
                 PROVE  /\ bundles'[t.listener] # {} /\ t.at <= second
                        /\ \A r \in rotators[t.listener] : Resumable(t, r)
      BY <2>1 DEF TicketsKept, Resumable
    <3>1. /\ bundles[t.listener] # {} /\ t.at <= second /\ t.listener \in Lists
          /\ \A r \in rotators[t.listener] : Resumable(t, r)
      BY DEF TlsInv, TicketsKept, TlsTypes
    <3> QED BY <2>6, <3>1
  <2> QED BY <2>8, <2>9, <2>10, <2>11 DEF TlsInv
<1> QED BY <1>1, <1>2

(* What a step that is no part of a pass or a rotation leaves as it is.    *)
LEMMA AsideKeeps ==
  ASSUME TlsInv, UNCHANGED <<loading, bundles, rotators>>
  PROVE  OwnRotator' /\ PassAt'
<1>1. loading' = loading /\ bundles' = bundles /\ rotators' = rotators
  OBVIOUS
<1>2. TlsCounted' = TlsCounted
  BY <1>1, Zenon DEF TlsCounted
<1>3. OwnRotator'
  BY <1>1 DEF TlsInv, OwnRotator
<1>4. PassAt'
  <2>1. PassAt
    BY DEF TlsInv
  <2>2. loading'.todo = loading.todo /\ loading'.at = loading.at /\ loading'.boot = loading.boot
    BY <1>1
  <2> QED BY <1>1, <1>2, <2>1, <2>2, Zenon DEF PassAt
<1> QED BY <1>3, <1>4

(* Every step keeps the invariant.                                         *)
LEMMA TlsStepKeeps == TlsInv /\ [TlsNext]_tlsvars => TlsInv'
<1> SUFFICES ASSUME TlsInv, [TlsNext]_tlsvars PROVE TlsInv'
  OBVIOUS
<1>1. CASE BuildTlsBundle \/ ReadCert \/ ReadKey
  BY <1>1, BuildKeeps, ReadCertKeeps, ReadKeyKeeps
<1>2. CASE ReloadAllTls
  <2>1. /\ loading.at = "none" /\ loading' = Load("cert", TlsListeners, FALSE)
        /\ UNCHANGED <<files, bundles, rotators, second, ticket>>
    BY <1>2 DEF ReloadAllTls
  <2>2. /\ loading' \in [at : {"perms", "cert", "key", "none", "exited"}, todo : Seq(Lists),
                         pair : Nat, boot : BOOLEAN, ok : Nat, fail : Nat]
        /\ loading'.at = "cert" /\ loading'.todo = TlsListeners /\ ~loading'.boot
        /\ loading'.ok = 0 /\ loading'.fail = 0
    BY <2>1, TlsAssumption DEF Load
  <2>3. \A l \in Lists : bundles[l] # {} /\ rotators[l] # {}
    <3>1. ASSUME NEW l \in Lists PROVE bundles[l] # {}
      <4>1. CASE ~loading.boot
        BY <2>1, <4>1 DEF TlsInv, PassAt
      <4>2. CASE loading.boot
        <5>1. PICK i \in 1 .. Len(TlsListeners) : l = TlsListeners[i]
          BY TlsAssumption DEF Lists
        <5>2. Len(TlsListeners) \in Nat /\ TlsCounted \in Nat /\ Len(loading.todo) \in Nat
          BY LoadTyped DEF TlsInv, TlsCounted
        <5>3. TlsCounted = Len(TlsListeners)
          BY <2>1, <5>2 DEF TlsInv, PassAt
        <5>4. bundles[TlsListeners[i]] # {} <=> i <= TlsCounted
          BY <2>1, <4>2 DEF TlsInv, PassAt
        <5> QED BY <5>1, <5>2, <5>3, <5>4
      <4> QED BY <4>1, <4>2
    <3> QED BY <3>1 DEF TlsInv, OwnRotator
  <2>4. TlsTypes'
    BY <2>1, <2>2, Zenon DEF TlsInv, TlsTypes, files
  <2>5. PassAt'
    <3>1. TlsCounted' = 0 /\ Len(TlsListeners) \in Nat /\ Len(TlsListeners) # 0
      BY <2>2, TlsAssumption DEF TlsCounted
    <3>2. TlsListeners[1] \in Lists
      BY <3>1, TlsAssumption
    <3>3. /\ TlsCounted' + Len(loading'.todo) = Len(TlsListeners) /\ Len(loading'.todo) # 0
          /\ \A j \in 1 .. Len(loading'.todo) : loading'.todo[j] = TlsListeners[TlsCounted' + j]
      BY <2>2, <3>1
    <3>4. rotators'[loading'.todo[1]] # {} /\ \A l \in Lists : bundles'[l] # {}
      BY <2>1, <2>2, <2>3, <3>2, Zenon
    <3> QED BY <2>2, <3>3, <3>4, Zenon DEF PassAt
  <2>6. OwnRotator' /\ TicketsKept'
    BY <2>1 DEF TlsInv, OwnRotator, TicketsKept, Resumable
  <2> QED BY <2>4, <2>5, <2>6 DEF TlsInv
<1>3. CASE \E l \in Lists : RotateIfDue(l)
  <2>1. PICK l \in Lists : RotateIfDue(l)
    BY <1>3
  <2>2. /\ TlsTypes' /\ OwnRotator' /\ TicketsKept'
        /\ \A k \in Lists : rotators'[k] # {} <=> rotators[k] # {}
    BY <2>1, RotationKeeps
  <2>3. loading' = loading /\ bundles' = bundles
    BY <2>1 DEF RotateIfDue
  <2>4. PassAt'
    <3>1. loading.at \in {"cert", "key"} => loading.todo[1] \in Lists
      BY EntryOf DEF TlsInv
    <3> QED BY <2>2, <2>3, <3>1, Zenon DEF TlsInv, PassAt, TlsCounted
  <2> QED BY <2>2, <2>4 DEF TlsInv
<1>4. CASE \E l \in Lists : Encrypt(l)
  <2>1. PICK l \in Lists : Encrypt(l)
    BY <1>4
  <2>2. /\ bundles[l] # {} /\ ticket' = {[listener |-> l, key |-> Ticketer(l).current, at |-> second]}
        /\ UNCHANGED <<files, loading, bundles, rotators, second>>
    BY <2>1 DEF Encrypt
  <2>3. Ticketer(l) = Rotator(l) /\ rotators[l] # {}
    <3>1. The(bundles[l]) \in bundles[l]
      BY <2>2, Zenon DEF The
    <3> QED BY <2>2, <3>1, Zenon DEF TlsInv, OwnRotator, Ticketer
  <2>4. /\ \A r \in rotators[l] : r = Rotator(l)
        /\ Rotator(l) \in [current : Nat, previous : SUBSET Nat, rotatedAt : Nat]
    BY <2>3, RotatorOf DEF TlsInv
  <2>5. second \in Nat /\ Rotator(l).current \in Nat
    BY <2>4 DEF TlsInv, TlsTypes
  <2>6. TlsTypes'
    <3>1. ticket' \subseteq [listener : Lists, key : Nat, at : Nat]
      BY <2>2, <2>3, <2>5
    <3> QED BY <2>2, <3>1, Zenon DEF TlsInv, TlsTypes, files
  <2>7. TicketsKept'
    <3>1. ASSUME NEW t \in ticket' PROVE t.listener = l /\ t.at = second /\ t.key = Rotator(l).current
      BY <2>2, <2>3
    <3> QED BY <2>2, <2>4, <2>5, <3>1 DEF TicketsKept, Resumable
  <2>8. OwnRotator' /\ PassAt'
    BY <2>2, AsideKeeps
  <2> QED BY <2>6, <2>7, <2>8 DEF TlsInv
<1>5. CASE Resume
  <2>1. ticket' = {} /\ UNCHANGED <<files, loading, bundles, rotators, second>>
    BY <1>5 DEF Resume
  <2>2. TlsTypes'
    BY <2>1, Zenon DEF TlsInv, TlsTypes, files
  <2>3. OwnRotator' /\ PassAt' /\ TicketsKept'
    <3>1. OwnRotator' /\ PassAt'
      BY <2>1, AsideKeeps
    <3>2. TicketsKept'
      BY <2>1 DEF TlsInv, TicketsKept
    <3> QED BY <3>1, <3>2
  <2> QED BY <2>2, <2>3 DEF TlsInv
<1>6. CASE Tick
  <2>1. second' = second + 1 /\ UNCHANGED <<files, loading, bundles, rotators, ticket>>
    BY <1>6 DEF Tick
  <2>2. second \in Nat /\ second' \in Nat
    BY <2>1 DEF TlsInv, TlsTypes
  <2>3. TlsTypes'
    BY <2>1, <2>2, Zenon DEF TlsInv, TlsTypes, files
  <2>4. OwnRotator' /\ PassAt'
    BY <2>1, AsideKeeps
  <2>5. TicketsKept'
    <3> SUFFICES ASSUME NEW t \in ticket
                 PROVE  /\ bundles[t.listener] # {} /\ t.at <= second'
                        /\ \A r \in rotators[t.listener] : Resumable(t, r)'
      BY <2>1 DEF TicketsKept, Resumable
    <3>1. t.at \in Nat /\ Overlap \in Nat /\ Interval \in Nat
      BY TlsAssumption DEF TlsInv, TlsTypes
    <3>2. /\ bundles[t.listener] # {} /\ t.at <= second
          /\ \A r \in rotators[t.listener] : Resumable(t, r)
      BY DEF TlsInv, TicketsKept
    <3> QED BY <2>1, <2>2, <3>1, <3>2 DEF Resumable
  <2> QED BY <2>3, <2>4, <2>5 DEF TlsInv
<1>7. CASE \/ \E f \in {"ok", "unusable"} : WriteCert(f) \/ WriteKey(f, "owner")
           \/ WriteKey("ok", "wide")
  <2>1. /\ UNCHANGED <<strict, loading, bundles, rotators, second, ticket>>
        /\ certFile' \in [state : {"ok", "unusable"}, pair : Nat]
        /\ keyFile' \in [state : {"ok", "unusable"}, pair : Nat, mode : {"owner", "wide"}]
    <3>1. /\ certFile \in [state : {"ok", "unusable"}, pair : Nat] /\ certFile.pair + 1 \in Nat
          /\ keyFile \in [state : {"ok", "unusable"}, pair : Nat, mode : {"owner", "wide"}]
          /\ keyFile.pair + 1 \in Nat
      BY DEF TlsInv, TlsTypes
    <3>2. \/ \E f \in {"ok", "unusable"} :
               certFile' = [state |-> f, pair |-> certFile.pair + 1] /\ keyFile' = keyFile
          \/ \E f \in {"ok", "unusable"}, m \in {"owner", "wide"} :
               keyFile' = [state |-> f, pair |-> keyFile.pair + 1, mode |-> m] /\ certFile' = certFile
      BY <1>7, Zenon DEF WriteCert, WriteKey
    <3>3. UNCHANGED <<strict, loading, bundles, rotators, second, ticket>>
      BY <1>7 DEF WriteCert, WriteKey
    <3> QED BY <3>1, <3>2, <3>3
  <2>2. TlsTypes'
    BY <2>1, Zenon DEF TlsInv, TlsTypes
  <2>3. OwnRotator' /\ PassAt' /\ TicketsKept'
    <3>1. OwnRotator' /\ PassAt'
      BY <2>1, AsideKeeps
    <3>2. TicketsKept'
      BY <2>1, Zenon DEF TlsInv, TicketsKept, Resumable
    <3> QED BY <3>1, <3>2
  <2> QED BY <2>2, <2>3 DEF TlsInv
<1>8. CASE UNCHANGED tlsvars
  <2>1. UNCHANGED <<files, strict, loading, bundles, rotators, second, ticket>>
    BY <1>8 DEF tlsvars, files
  <2>2. TlsTypes'
    BY <2>1, Zenon DEF TlsInv, TlsTypes, files
  <2>3. OwnRotator' /\ PassAt' /\ TicketsKept'
    <3>1. OwnRotator' /\ PassAt'
      BY <2>1, AsideKeeps
    <3>2. TicketsKept'
      BY <2>1 DEF TlsInv, TicketsKept, Resumable
    <3> QED BY <3>1, <3>2
  <2> QED BY <2>2, <2>3 DEF TlsInv
<1> QED BY <1>1, <1>2, <1>3, <1>4, <1>5, <1>6, <1>7, <1>8 DEF TlsNext

(* The invariant has what TlsSound says.                                   *)
LEMMA TlsInvSound == TlsInv => TlsSound
<1> SUFFICES ASSUME TlsInv PROVE TlsSound
  OBVIOUS
<1>1. ServesPairs
  BY DEF TlsInv, OwnRotator, PassAt, ServesPairs
<1>2. ASSUME NEW t \in ticket, second - t.at < Overlap, second - t.at < Interval
      PROVE  Decrypt(t)
  <2>1. t.listener \in Lists /\ bundles[t.listener] # {}
        /\ \A r \in rotators[t.listener] : Resumable(t, r)
    BY DEF TlsInv, TicketsKept, TlsTypes
  <2>2. The(bundles[t.listener]) \in bundles[t.listener]
    BY <2>1, Zenon DEF The
  <2>3. Ticketer(t.listener) = Rotator(t.listener) /\ rotators[t.listener] # {}
    BY <2>1, <2>2 DEF TlsInv, OwnRotator, Ticketer
  <2>4. Rotator(t.listener) \in rotators[t.listener]
    BY <2>1, <2>3, RotatorOf DEF TlsInv
  <2>5. Resumable(t, Rotator(t.listener))
    BY <2>1, <2>4
  <2> QED BY <1>2, <2>3, <2>5 DEF Resumable, Decrypt
<1>3. PassCounted
  <2> SUFFICES ASSUME loading.at = "none" PROVE loading.ok + loading.fail = Len(TlsListeners)
    BY DEF PassCounted
  <2>1. Len(TlsListeners) \in Nat /\ loading.ok \in Nat /\ loading.fail \in Nat
    BY LoadTyped DEF TlsInv
  <2>2. loading.ok + loading.fail + Len(loading.todo) = Len(TlsListeners) /\ Len(loading.todo) = 0
    BY DEF TlsInv, PassAt, TlsCounted
  <2> QED BY <2>1, <2>2
<1> QED BY <1>1, <1>2, <1>3 DEF TlsSound, TicketsResume

(* A listener serves a certificate with its own key from its boot on, a    *)
(* ticket resumes for the shorter of overlap and interval, and every pass  *)
(* counts every listener: reload_all_tls, the rotator of lb-security and   *)
(* build_tls_bundle, for any listeners, interval and overlap.              *)
THEOREM TlsIsSound == TlsSpec => []TlsSound
BY TlsInitHolds, TlsStepKeeps, TlsInvSound, PTL DEF TlsSpec
=============================================================================
