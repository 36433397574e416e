----------------------------- MODULE LruWindow -----------------------------
(***************************************************************************)
(* What the 0-RTT replay guard promises (lb-security zero_rtt.rs,          *)
(* ZeroRttReplayGuard): the last WindowSize distinct tokens, least         *)
(* recently seen first.  A known token is refused and becomes the most     *)
(* recent one; a new one is recorded, the least recent one making room.    *)
(***************************************************************************)
EXTENDS Sequences, SequencesExt

CONSTANTS WindowKeys,   \* the tokens offered
          WindowSize    \* max_tokens, at least 1

VARIABLES window,       \* Seq(WindowKeys), least recently seen first
          offered,      \* the last token, once there is one
          refused       \* the verdict on it

Known(w, k) == Contains(w, k)

Seen(w, k) ==
  IF Known(w, k) THEN Append(SelectSeq(w, LAMBDA x : x # k), k)
  ELSE Append(IF Len(w) >= WindowSize THEN Tail(w) ELSE w, k)

Offer(k) ==
  window' = Seen(window, k) /\ offered' = {k} /\ refused' = Known(window, k)

WindowInit == window = << >> /\ offered = {} /\ refused = FALSE
WindowNext == \E k \in WindowKeys : Offer(k)
=============================================================================
