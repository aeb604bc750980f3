----------------------------- MODULE AccessGate -----------------------------
(***************************************************************************)
(* What the gateway promises about who gets through, and nothing of how.   *)
(*                                                                         *)
(* Each gate is open to some of the bearers and anyone may open and close  *)
(* it at any time.  A call is sent on only if every gate was open to its   *)
(* bearer at some moment since the call began: a call that begins after a  *)
(* gate has closed is refused while the gate stays closed, and a call that *)
(* was let through a gate is not called back when the gate closes.         *)
(***************************************************************************)
CONSTANTS
  Calls,    \* calls that may be in progress
  Bearers,  \* who may call
  Gates     \* what every call has to pass

VARIABLES
  open,     \* the bearers each gate is open to
  call      \* the calls in progress, each with the gates it has found open

vars == <<open, call>>

NoCall == [at |-> "idle", bearer |-> {}, passed |-> {}]

TypeOK ==
  /\ open \in [Gates -> SUBSET Bearers]
  /\ call \in [Calls -> [at : {"idle", "waiting", "sent"}, bearer : SUBSET Bearers, passed : SUBSET Gates]]

Init ==
  /\ open \in [Gates -> SUBSET Bearers]
  /\ call = [c \in Calls |-> NoCall]

\* The gates a set of bearers finds open in a state of the gates.
Passing(gates, bearer) == {g \in Gates : bearer \subseteq gates[g]}

Begin(c, b) ==
  /\ call[c].at = "idle"
  /\ call' = [call EXCEPT ![c] = [at |-> "waiting", bearer |-> {b}, passed |-> Passing(open, {b})]]
  /\ UNCHANGED open

\* Gates open and close; the calls in progress see it.
Change ==
  /\ open' \in [Gates -> SUBSET Bearers]
  /\ call' = [c \in Calls |->
                IF call[c].at = "idle" THEN call[c]
                ELSE [call[c] EXCEPT !.passed = @ \cup Passing(open', call[c].bearer)]]

Send(c) ==
  /\ call[c].at = "waiting"
  /\ call[c].passed = Gates
  /\ call' = [call EXCEPT ![c].at = "sent"]
  /\ UNCHANGED open

End(c) ==
  /\ call[c].at # "idle"
  /\ call' = [call EXCEPT ![c] = NoCall]
  /\ UNCHANGED open

\* A crash ends every call.
Crash ==
  /\ call' = [c \in Calls |-> NoCall]
  /\ open' \in [Gates -> SUBSET Bearers]

Next ==
  \/ Change
  \/ \E c \in Calls : (\E b \in Bearers : Begin(c, b)) \/ Send(c) \/ End(c)
  \/ Crash

Spec == Init /\ [][Next]_vars
=============================================================================
