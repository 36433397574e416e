----------------------------- MODULE TlsReload -----------------------------
(* The certificate each TLS listener serves and the keys of its session    *)
(* tickets: lb-security/src/ticket.rs and key.rs, and in lb/src/main.rs    *)
(* build_tls_bundle, spawn_rotator_ticker and reload_all_tls (SIGUSR1).    *)
(* The operator replaces the certificate and the key as two files, so a    *)
(* load may read one of either generation.  Parsing and the match of       *)
(* certificate and key are rustls's; a ticket is the key that sealed it    *)
(* and the time; the keys of one listener are numbered.                    *)
EXTENDS Integers, Sequences, FiniteSets

CONSTANTS
  TlsListeners,   \* the listeners, a sequence of names
  Interval,       \* ticket_rotation_interval_seconds
  Overlap,        \* ticket_rotation_overlap_seconds
  LastSecond,     \* bound on the clock
  LastPair        \* bound on the generations of certificate and key

Lists == {TlsListeners[i] : i \in DOMAIN TlsListeners}

\* Every TLS listener is listed once, and there is one: without one, nothing is
\* loaded, rotated or reloaded.
ASSUME TlsAssumption ==
  /\ TlsListeners \in Seq(Lists) /\ TlsListeners # <<>>
  /\ \A i, j \in DOMAIN TlsListeners : TlsListeners[i] = TlsListeners[j] => i = j
  /\ Interval \in Nat /\ Overlap \in Nat /\ LastSecond \in Nat /\ LastPair \in Nat

VARIABLES
  certFile,       \* on disk: [state, pair]
  keyFile,        \* on disk: [state, pair, mode]
  strict,         \* a release build refuses a key others may read
  loading,        \* the load under way: [at, todo, pair, boot, ok, fail]
  bundles,        \* listener -> {} or {[cert, key, rotator]}: SharedTlsBundle
  rotators,       \* listener -> {} or {[current, previous, rotatedAt]}
  second,         \* the clock
  ticket          \* {} or {a ticket a client holds: [listener, key, at]}

tlsvars == <<certFile, keyFile, strict, loading, bundles, rotators, second, ticket>>
files == <<certFile, keyFile, strict>>

The(s) == CHOOSE x \in s : TRUE
Load(at, todo, boot) == [at |-> at, todo |-> todo, pair |-> 0, boot |-> boot, ok |-> 0, fail |-> 0]

TlsInit ==
  /\ certFile = [state |-> "ok", pair |-> 1]
  /\ keyFile \in {[state |-> "ok", pair |-> 1, mode |-> m] : m \in {"owner", "wide"}}
  /\ strict \in BOOLEAN
  /\ loading = Load("perms", TlsListeners, TRUE)
  /\ bundles = [l \in Lists |-> {}] /\ rotators = [l \in Lists |-> {}]
  /\ second = 0 /\ ticket = {}

-----------------------------------------------------------------------------
(* The rotator of one listener, under its mutex.                            *)

NewRotator == [current |-> 1, previous |-> {}, rotatedAt |-> second]

Rotator(l) == The(rotators[l])

Demoted(r) == [current |-> r.current + 1, previous |-> {r.current}, rotatedAt |-> second]

Expired(r) == IF second - r.rotatedAt >= Overlap THEN [r EXCEPT !.previous = {}] ELSE r

Due(r) == second - r.rotatedAt >= Interval

\* Mutation: the overlap is measured from before the rotation of this call.
RotateIfDueLate(l) ==
  LET r == Rotator(l) IN
  /\ rotators[l] # {}
  /\ IF Due(r)
     THEN rotators' = [rotators EXCEPT ![l] =
               {[Demoted(r) EXCEPT !.previous = Expired([r EXCEPT !.previous = {r.current}]).previous]}]
     ELSE rotators' = [rotators EXCEPT ![l] = {Expired(r)}]
  /\ UNCHANGED <<files, loading, bundles, second, ticket>>

\* The ticker polls once a minute, or later.  A key that cannot be generated
\* leaves the rotator as it was.
RotateIfDue(l) ==
  LET r == Rotator(l) IN
  /\ rotators[l] # {}
  /\ \/ /\ Due(r)
        /\ rotators' = [rotators EXCEPT ![l] = {Expired(Demoted(r))}]
     \/ /\ ~Due(r)
        /\ rotators' = [rotators EXCEPT ![l] = {Expired(r)}]
     \/ /\ Due(r)
        /\ UNCHANGED rotators
  /\ UNCHANGED <<files, loading, bundles, second, ticket>>

\* RotatingTicketer of the bundle a listener serves with.
Ticketer(l) == Rotator(The(bundles[l]).rotator)

Encrypt(l) ==
  /\ bundles[l] # {} /\ ticket = {}
  /\ ticket' = {[listener |-> l, key |-> Ticketer(l).current, at |-> second]}
  /\ UNCHANGED <<files, loading, bundles, rotators, second>>

Decrypt(t) ==
  LET r == Ticketer(t.listener) IN t.key = r.current \/ t.key \in r.previous

\* The client presents its ticket; it is not asked for twice.
Resume ==
  /\ ticket # {} /\ ticket' = {}
  /\ UNCHANGED <<files, loading, bundles, rotators, second>>

Lifetime == Interval + Overlap

\* A load is taken to last less than a second.
Tick ==
  /\ loading.at = "none" /\ second < LastSecond /\ second' = second + 1
  /\ UNCHANGED <<files, loading, bundles, rotators, ticket>>

-----------------------------------------------------------------------------
(* The files.                                                               *)

WriteCert(state) ==
  /\ certFile.pair < LastPair
  /\ certFile' = [state |-> state, pair |-> certFile.pair + 1]
  /\ UNCHANGED <<keyFile, strict, loading, bundles, rotators, second, ticket>>

WriteKey(state, mode) ==
  /\ keyFile.pair < LastPair
  /\ keyFile' = [state |-> state, pair |-> keyFile.pair + 1, mode |-> mode]
  /\ UNCHANGED <<certFile, strict, loading, bundles, rotators, second, ticket>>

-----------------------------------------------------------------------------
(* A load, one listener after the other: at boot and on SIGUSR1.            *)

Entry == Head(loading.todo)

Advance(at, ok, fail) ==
  loading' = [loading EXCEPT !.at = IF Len(loading.todo) = 1 THEN "none" ELSE at,
                             !.todo = Tail(@), !.ok = @ + ok, !.fail = @ + fail]

\* At boot an error ends the process; a reload counts it and goes on.
Failed ==
  /\ IF loading.boot THEN loading' = [loading EXCEPT !.at = "exited"]
     ELSE Advance("cert", 0, 1)
  /\ UNCHANGED bundles

OwnerOnly == keyFile.mode = "owner" \/ ~strict

\* assert_owner_only, then the rotator (a key file that is not there fails here
\* rather than in ReadKey, with the same end); the reload does neither again.
BuildTlsBundle ==
  /\ loading.at = "perms"
  /\ IF ~OwnerOnly
     THEN loading' = [loading EXCEPT !.at = "exited"] /\ UNCHANGED rotators
     ELSE /\ rotators' = [rotators EXCEPT ![Entry] = {NewRotator}]
          /\ loading' = [loading EXCEPT !.at = "cert"]
  /\ UNCHANGED <<files, bundles, second, ticket>>

\* Missing, not a PEM file, no certificate in it, or a chain of more than six.
ReadCert ==
  /\ loading.at = "cert"
  /\ IF certFile.state # "ok" THEN Failed
     ELSE loading' = [loading EXCEPT !.at = "key", !.pair = certFile.pair] /\ UNCHANGED bundles
  /\ UNCHANGED <<files, rotators, second, ticket>>

\* Missing, unreadable or without a key; with_single_cert refuses a key that is
\* not the certificate's.  Only a whole bundle is stored.
ReadKey ==
  /\ loading.at = "key"
  /\ IF keyFile.state # "ok" \/ keyFile.pair # loading.pair THEN Failed
     ELSE /\ bundles' = [bundles EXCEPT ![Entry] =
               {[cert |-> loading.pair, key |-> keyFile.pair, rotator |-> Entry]}]
          /\ Advance(IF loading.boot THEN "perms" ELSE "cert", 1, 0)
  /\ UNCHANGED <<files, rotators, second, ticket>>

ReloadAllTls ==
  /\ loading.at = "none"
  /\ loading' = Load("cert", TlsListeners, FALSE)
  /\ UNCHANGED <<files, bundles, rotators, second, ticket>>

TlsNext ==
  \/ /\ loading.at # "exited"
     /\ \/ BuildTlsBundle \/ ReadCert \/ ReadKey \/ ReloadAllTls \/ Tick \/ Resume
        \/ \E l \in Lists : RotateIfDue(l) \/ Encrypt(l)
        \/ \E s \in {"ok", "unusable"} : WriteCert(s) \/ WriteKey(s, "owner")
        \/ WriteKey("ok", "wide")
  \/ loading.at = "exited" /\ UNCHANGED tlsvars

TlsSpec == TlsInit /\ [][TlsNext]_tlsvars

-----------------------------------------------------------------------------

\* A listener never serves a certificate with another certificate's key,
\* whichever file the load reads before the operator has replaced both; and once
\* it serves, no failed reload takes its certificate away.
ServesPairs ==
  /\ \A l \in Lists : \A b \in bundles[l] : b.cert = b.key
  /\ (loading.at # "exited" /\ ~loading.boot) => \A l \in Lists : bundles[l] # {}

\* A ticket resumes for at least the shorter of overlap and interval, through
\* rotations and reloads, however late the ticker polls.
TicketsResume ==
  \A t \in ticket :
    (second - t.at < Overlap /\ second - t.at < Interval) => Decrypt(t)

\* A pass over the listeners ends with every one of them counted.
PassCounted ==
  loading.at = "none" => loading.ok + loading.fail = Len(TlsListeners)

\* Certificates and ticket keys through reloads, rotations and half-written files.
TlsSound == ServesPairs /\ TicketsResume /\ PassCounted

\* Refuted: a ticket resumes for the lifetime sent with it.  One sealed just
\* before a rotation is lost after the overlap alone (LastSecond = 4 shows it).
LifetimeHonest ==
  \A t \in ticket : second - t.at < Lifetime => Decrypt(t)

\* Refuted: a release build never serves with a key file others may read; the
\* reload does not look at the mode again.
KeyKeptPrivate ==
  (strict /\ loading.at = "none" /\ ~loading.boot /\ loading.fail = 0) => keyFile.mode = "owner"
============================================================================
