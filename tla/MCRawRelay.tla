----------------------------- MODULE MCRawRelay -----------------------------
(***************************************************************************)
(* A bidirectional stream and a client's unidirectional one that compete   *)
(* for one table entry and one stream credit.  The request has more bytes  *)
(* than the upstream takes at once, so that its FIN has to wait; the       *)
(* unidirectional stream carries only its end.                             *)
(***************************************************************************)
EXTENDS RawRelay

CONSTANTS b, c

Budget ==
  [h \in {b, c} \X {"c2u", "u2c"} |->
     IF h = <<b, "c2u">> THEN 2 ELSE IF h = <<b, "u2c">> THEN 1 ELSE 0]
=============================================================================
