----------------------------- MODULE RetryToken -----------------------------
(***************************************************************************)
(* Stateless Retry across restarts: the secret file                        *)
(* (lb-quic/src/listener.rs and passthrough.rs:                            *)
(* load_or_generate_retry_secret, write_secret_file,                       *)
(* check_retry_secret_perms) and the signer that is built from it          *)
(* (lb-security/src/retry.rs: mint_at, verify).  A token carries the peer, *)
(* the client's original destination ID and the time it was issued,        *)
(* counted from the construction of its signer, under a MAC no one else    *)
(* can compute (external).                                                 *)
(***************************************************************************)
EXTENDS Integers, FiniteSets

CONSTANTS Peers, Odcids,
          MaxAge,      \* max_age
          Horizon,     \* bound: the clock
          MaxBoots,    \* bound: boots
          MaxMinted    \* bound: tokens

ASSUME TimeAssumption == MaxAge \in Nat /\ Horizon \in Nat /\ MaxBoots \in Nat

VARIABLES
  clock,      \* time, in units of the token's issued_at
  file,       \* the secret file: absent, partial, or [secret, mode]
  daemon,     \* down, created (the file, not its bytes), up
  signer,     \* the signer's secret, 0 before there is one
  origin,     \* when the signer was built
  boots,      \* boots so far; a boot that generates a secret uses its number
  minted,     \* the tokens handed out, with the time and boot as history
  accepted    \* history: the tokens verify accepted: [token, peer, at, boot]

tokenVars == <<clock, file, daemon, signer, origin, boots, minted, accepted>>

(* No file yet, or one an operator provided, readable by its owner only or *)
(* by others too.                                                          *)
TokenInit ==
  /\ clock = 0 /\ daemon = "down" /\ signer = 0 /\ origin = 0 /\ boots = 0
  /\ file \in {[state |-> "absent"]}
              \cup [state : {"whole"}, secret : {MaxBoots + 1}, mode : {"owner", "wide"}]
  /\ minted = {} /\ accepted = {}

Start(secret) == signer' = secret /\ origin' = clock /\ daemon' = "up"

(* Release builds refuse a file others can read; a file of another length  *)
(* is refused.                                                             *)
Loadable == file.state = "whole" /\ file.mode = "owner"

LoadSecret ==
  /\ daemon = "down" /\ boots < MaxBoots /\ boots' = boots + 1
  /\ file.state # "absent"
  /\ IF Loadable THEN Start(file.secret)
     ELSE UNCHANGED <<signer, origin, daemon>>
  /\ UNCHANGED <<clock, file, minted, accepted>>

(* No file: create_new, then write_all and sync_all.                       *)
CreateSecret ==
  /\ daemon = "down" /\ boots < MaxBoots /\ boots' = boots + 1
  /\ file.state = "absent"
  /\ file' = [state |-> "partial"] /\ daemon' = "created"
  /\ UNCHANGED <<clock, signer, origin, minted, accepted>>

(* Mutation: the signer is built before its secret is on disk.             *)
WriteSecretAfter ==
  /\ daemon = "created" /\ Start(boots)
  /\ UNCHANGED <<clock, file, boots, minted, accepted>>

WriteSecret ==
  /\ daemon = "created"
  /\ file' = [state |-> "whole", secret |-> boots, mode |-> "owner"] /\ Start(boots)
  /\ UNCHANGED <<clock, boots, minted, accepted>>

(* The process ends, at any point.                                         *)
Crash ==
  /\ daemon # "down" /\ daemon' = "down" /\ signer' = 0
  /\ UNCHANGED <<clock, file, origin, boots, minted, accepted>>

(* An operator replaces a file that stops the boot.                        *)
RemoveFile ==
  /\ daemon = "down" /\ file.state = "partial"
  /\ file' = [state |-> "absent"]
  /\ UNCHANGED <<clock, daemon, signer, origin, boots, minted, accepted>>

Tick == /\ clock < Horizon /\ clock' = clock + 1
        /\ UNCHANGED <<file, daemon, signer, origin, boots, minted, accepted>>
----------------------------------------------------------------------------
MintAt(p, o) ==
  /\ daemon = "up" /\ Cardinality(minted) < MaxMinted
  /\ minted' = minted \cup {[secret |-> signer, peer |-> p, odcid |-> o,
                             issued |-> clock - origin, at |-> clock, boot |-> boots]}
  /\ UNCHANGED <<clock, file, daemon, signer, origin, boots, accepted>>

Age(t) == IF clock > origin + t.issued THEN clock - (origin + t.issued) ELSE 0

Accepts(t, p) == t.secret = signer /\ t.peer = p /\ Age(t) <= MaxAge

Verify(t, p) ==
  /\ daemon = "up"
  /\ accepted' = IF Accepts(t, p)
                 THEN accepted \cup {[token |-> t, peer |-> p, at |-> clock, boot |-> boots]}
                 ELSE accepted
  /\ UNCHANGED <<clock, file, daemon, signer, origin, boots, minted>>

TokenNext ==
  \/ LoadSecret \/ CreateSecret \/ WriteSecret \/ Crash \/ RemoveFile \/ Tick
  \/ \E p \in Peers, o \in Odcids : MintAt(p, o)
  \/ \E t \in minted, p \in Peers : Verify(t, p)

TokenSpec == TokenInit /\ [][TokenNext]_tokenVars
----------------------------------------------------------------------------
TokenTypeOK ==
  /\ clock \in 0 .. Horizon /\ origin \in 0 .. Horizon /\ boots \in 0 .. MaxBoots
  /\ file.state \in {"absent", "partial", "whole"}
  /\ daemon \in {"down", "created", "up"} /\ signer \in 0 .. MaxBoots + 1
  /\ \A t \in minted : t.peer \in Peers /\ t.odcid \in Odcids /\ t.issued \in 0 .. Horizon

(* A token is accepted only from the peer it was minted for, and, by the   *)
(* process that minted it, only within max_age (verify).                   *)
TokensBound ==
  \A x \in accepted :
    /\ x.token.peer = x.peer
    /\ x.token.boot = x.boot => x.at - x.token.at <= MaxAge

(* Whoever signs, the next boot will sign with the same secret: a token    *)
(* that is out survives a crash at any point                               *)
(* (load_or_generate_retry_secret).                                        *)
SecretKept == daemon = "up" => file.state = "whole" /\ file.secret = signer

(* Both, whatever crashes, restarts and removals of the file come between  *)
(* (verify, load_or_generate_retry_secret).                                *)
TokensSound == TokenTypeOK /\ TokensBound /\ SecretKept

(* Refuted: "A token that ... is older than max_age, is rejected"          *)
(* (retry.rs:20-23).  issued_at counts from the signer's construction, and *)
(* a restarted process keeps the secret and starts the count again.        *)
ExpiredRejected == \A x \in accepted : x.at - x.token.at <= MaxAge
=============================================================================
