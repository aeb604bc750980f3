--------------------------- MODULE MCAgentClient ----------------------------
(* Two tenants, two services, one scope, and the commands that bring them together. *)
EXTENDS AgentClient, TLC

CONSTANTS acme, beta, web, files, read

Command(s, k, sc, first, wait) == [server |-> s, kind |-> k, scope |-> sc, first |-> first, wait |-> wait]

MCCommands ==
  { Command(acme, web, All, "check", 3),
    Command(acme, web, read, "check", 0),
    Command(acme, files, read, "ask", 0),
    Command(beta, web, All, "check", 0) }

MCSymmetry == Permutations(Runs)

\* Each tenant on a host of its own, or both on one.
MCOwnHosts == [s \in Servers |-> s]

MCOneHost == [s \in Servers |-> acme]
=============================================================================
