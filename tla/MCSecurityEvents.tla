-------------------------- MODULE MCSecurityEvents --------------------------
(* A suspension, the later reactivation of the same agent, and a token that  *)
(* carries two events.                                                       *)
EXTENDS SecurityEvents

CONSTANTS lola, jti

MCSubjects == {lola, jti}

MCTokens == 1 .. 3

MCIat == <<1, 1, 2>>

Revoke(s) == [type |-> "revoke", subject |-> s]

MCEvents ==
  << <<Revoke(lola)>>,
     <<[type |-> "restore", subject |-> lola]>>,
     <<Revoke(jti), Revoke(lola)>> >>
=============================================================================
