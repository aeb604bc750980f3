------------------------------ MODULE MCGateway -----------------------------
(* One agent with one token, a suspension of the agent, and an event token    *)
(* that carries its reactivation and the revocation of its token.             *)
EXTENDS Gateway

CONSTANTS lola, jti1

MCSubjects == {lola, jti1}

MCAgentOf == [k \in Keys |-> lola]

MCBearers == {[agent |-> lola, jti |-> jti1]}

MCTokens == 1 .. 2

MCIat == <<0, 0>>

MCEvents ==
  << <<[type |-> "revoke", subject |-> lola]>>,
     <<[type |-> "restore", subject |-> lola], [type |-> "revoke", subject |-> jti1]>> >>
=============================================================================
