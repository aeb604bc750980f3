--------------------------- MODULE MCTenantAdmin ---------------------------
(* Two spellings of one agent, so that a switch can be named in two ways. *)
EXTENDS TenantAdmin

CONSTANTS lola, Lola

MCKeys == {lola, Lola}

MCOneSpelling == [k \in {lola} |-> lola]

MCAgentOf == [k \in MCKeys |-> lola]
=============================================================================
