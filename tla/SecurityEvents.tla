--------------------------- MODULE SecurityEvents ---------------------------
(***************************************************************************)
(* The status-event receiver of one tenant, POST /<tenant>/_events: the    *)
(* checks on a signed event token (gateway/src/set.js), the revocation     *)
(* list the events go to (verifier/src/revocation.js), and the file they   *)
(* are appended to and replayed from (gateway/src/gateway.js).             *)
(*                                                                         *)
(* A subject is an agent or one token of an agent: the list keeps both the *)
(* same way.  Signature, issuer, audience, exp and the shape of the events *)
(* are one nondeterministic refusal; iat and jti are modelled, because the *)
(* replay window is made of them.                                          *)
(***************************************************************************)
EXTENDS Naturals, Sequences

CONSTANTS
  Subjects,     \* agents and tokens an event may be about
  Tokens,       \* the event tokens the issuers have signed, each with its own jti
  Iat,          \* when each was signed, in seconds
  Events,       \* the events each carries, in order
  Posts,        \* deliveries the gateway may have in progress
  MaxAge,       \* events.maxAgeSec
  Skew,         \* clockSkewSec
  TicksPerSec,  \* how finely the clock is modelled below the second
  MaxTime,      \* bound: last tick of the clock
  MaxLog,       \* bound: no delivery starts once the file has this many lines
  MaxFails,     \* bound: appends that fail
  MaxRestarts   \* bound: restarts

Event == [type : {"revoke", "restore"}, subject : Subjects]

ASSUME ConstantsAssumption ==
  /\ MaxAge \in Nat /\ Skew \in Nat /\ MaxTime \in Nat /\ MaxLog \in Nat
  /\ MaxFails \in Nat /\ MaxRestarts \in Nat
  /\ TicksPerSec \in Nat \ {0}
  /\ Iat \in [Tokens -> Nat]
  /\ Events \in [Tokens -> Seq(Event)]

VARIABLES
  now,       \* the clock, in ticks
  revoked,   \* RevocationList: the subjects that are revoked
  seen,      \* the replay cache: until when each jti is refused, 0 for a jti it does not hold
  post,      \* deliveries in progress
  log,       \* revocations.jsonl: what replaying each whole line yields
  torn,      \* what replaying its last line yields, as a set, if that line has no newline
  fails,     \* appends that have failed
  restarts,  \* restarts so far
  lost,      \* history: subjects whose last applied event is not a good line of the file
  taken,     \* history: when this process first accepted each token, as a set of at most one second
  again      \* history: the tokens this process accepted more than once

eventVars == <<now, revoked, seen, post, log, torn, fails, restarts, lost, taken, again>>

----------------------------------------------------------------------------

Damaged == [type |-> "damaged"]

\* A file ends after a newline, in a line that cannot be read, or in one that lacks only its newline.
Ends == {{}} \cup {{line} : line \in Event \cup {Damaged}}

Window == MaxAge + Skew

NowSec == now \div TicksPerSec

NoPost == [at |-> "idle", token |-> {}, done |-> 0]

TypeOK ==
  /\ now \in 0 .. MaxTime
  /\ revoked \in SUBSET Subjects
  /\ seen \in [Tokens -> 0 .. MaxTime + Window * TicksPerSec]
  /\ post \in [Posts -> [at : {"idle", "key", "accepted", "apply"}, token : SUBSET Tokens, done : Nat]]
  /\ log \in Seq(Event \cup {Damaged})
  /\ torn \in Ends
  /\ fails \in 0 .. MaxFails
  /\ restarts \in 0 .. MaxRestarts
  /\ lost \in SUBSET Subjects
  /\ taken \in [Tokens -> SUBSET Nat]
  /\ again \in SUBSET Tokens

\* The event loop is between two handlers: nobody is in the middle of applying events.
Quiet == \A p \in Posts : post[p].at # "apply"

\* RevocationList.apply
Apply(list, event) ==
  IF event.type = "revoke" THEN list \cup {event.subject} ELSE list \ {event.subject}

ReplayToFirstDamage(lines) ==
  {s \in Subjects : \E i \in DOMAIN lines :
     /\ lines[i] = [type |-> "revoke", subject |-> s]
     /\ \A j \in 1 .. i : lines[j] # Damaged
     /\ \A j \in i + 1 .. Len(lines) : lines[j] # [type |-> "restore", subject |-> s]}

\* The list the lines yield when they are applied in order and a damaged one is skipped.
Replay(lines) ==
  {s \in Subjects : \E i \in DOMAIN lines :
     /\ lines[i] = [type |-> "revoke", subject |-> s]
     /\ \A j \in i + 1 .. Len(lines) : lines[j] # [type |-> "restore", subject |-> s]}

\* The lines of the file that a replay reads: one that lacks only its newline is read too.
Lines(end) == IF end \cap Event = {} THEN log ELSE Append(log, CHOOSE e \in end : TRUE)

Init ==
  /\ now = 0
  /\ revoked = {}
  /\ seen = [t \in Tokens |-> 0]
  /\ post = [p \in Posts |-> NoPost]
  /\ log = <<>>
  /\ torn = {}
  /\ fails = 0
  /\ restarts = 0
  /\ lost = {}
  /\ taken = [t \in Tokens |-> {}]
  /\ again = {}

----------------------------------------------------------------------------

Tick ==
  /\ Quiet
  /\ now < MaxTime
  /\ now' = now + 1
  /\ UNCHANGED <<revoked, seen, post, log, torn, fails, restarts, lost, taken, again>>

\* A token is posted, for the first time or once more: it is decoded, and the issuer's key awaited.
Receive(p, t) ==
  /\ Quiet
  /\ post[p].at = "idle"
  /\ Len(log) < MaxLog
  /\ post' = [post EXCEPT ![p] = [at |-> "key", token |-> {t}, done |-> 0]]
  /\ UNCHANGED <<now, revoked, seen, log, torn, fails, restarts, lost, taken, again>>

\* Not in the future beyond the skew, and not too old.
InWindow(t) == Iat[t] <= NowSec + Skew /\ NowSec <= Iat[t] + MaxAge

\* The replay cache without the entries whose time has come.
Pruned == [t \in Tokens |-> IF seen[t] <= now THEN 0 ELSE seen[t]]

UntilInSeconds == now + Window * TicksPerSec * TicksPerSec

UntilMaxAgeOnly == now + MaxAge * TicksPerSec

\* Until when a token accepted now is remembered.
Until == now + Window * TicksPerSec

\* The key has arrived and every check passes: the token is remembered and its events are returned.
Accept(p) ==
  /\ Quiet
  /\ post[p].at = "key"
  /\ \E t \in post[p].token :
       /\ InWindow(t)
       /\ Pruned[t] = 0
       /\ seen' = [Pruned EXCEPT ![t] = Until]
       /\ taken' = [taken EXCEPT ![t] = IF @ = {} THEN {NowSec} ELSE @]
       /\ again' = IF taken[t] = {} THEN again ELSE again \cup {t}
  /\ post' = [post EXCEPT ![p].at = "accepted"]
  /\ UNCHANGED <<now, revoked, log, torn, fails, restarts, lost>>

\* The handler goes on with the events it awaited: the loop that applies them runs to its end.
Begin(p) ==
  /\ Quiet
  /\ post[p].at = "accepted"
  /\ post' = [post EXCEPT ![p].at = "apply"]
  /\ UNCHANGED <<now, revoked, seen, log, torn, fails, restarts, lost, taken, again>>

RefuseOutsideWindow(p) ==
  /\ Quiet
  /\ post[p].at = "key"
  /\ \E t \in post[p].token : ~ InWindow(t)
  /\ post' = [post EXCEPT ![p] = NoPost]
  /\ UNCHANGED <<now, revoked, seen, log, torn, fails, restarts, lost, taken, again>>

\* 400: outside the window; or in it, and seen before.
Refuse(p) ==
  /\ Quiet
  /\ post[p].at = "key"
  /\ \E t \in post[p].token :
       \/ ~ InWindow(t) /\ UNCHANGED seen
       \/ InWindow(t) /\ Pruned[t] # 0 /\ seen' = Pruned
  /\ post' = [post EXCEPT ![p] = NoPost]
  /\ UNCHANGED <<now, revoked, log, torn, fails, restarts, lost, taken, again>>

\* 400: no usable key, a bad signature, the wrong audience, an expired token, a malformed event.
RefuseOther(p) ==
  /\ Quiet
  /\ post[p].at = "key"
  /\ post' = [post EXCEPT ![p] = NoPost]
  /\ UNCHANGED <<now, revoked, seen, log, torn, fails, restarts, lost, taken, again>>

\* The event a delivery applies next, as a set: empty when all are done.
Pending(p) ==
  {e \in Event : /\ post[p].at = "apply"
                 /\ \E t \in post[p].token :
                      post[p].done < Len(Events[t]) /\ e = Events[t][post[p].done + 1]}

\* What appending a line adds to the file: an unfinished line and this one become one, unreadable.
Appended(event) == IF torn = {} THEN event ELSE Damaged

\* The events that are no longer in the file once something is written behind an unfinished line.
Spoiled == {e.subject : e \in torn \cap Event}

\* How the file may end after an append that was cut short: before its first byte, before its newline, or
\* in between.
CutShort(event) == {torn, {Damaged}} \cup (IF torn = {} THEN {{event}} ELSE {})

\* One turn of the loop of handleEvents: applied in memory, then appended.
ApplyNext(p) ==
  /\ \E e \in Pending(p) :
       /\ revoked' = Apply(revoked, e)
       /\ log' = Append(log, Appended(e))
       /\ lost' = IF torn = {} THEN lost \ {e.subject} ELSE lost \cup {e.subject} \cup Spoiled
  /\ torn' = {}
  /\ post' = [post EXCEPT ![p].done = @ + 1]
  /\ UNCHANGED <<now, seen, fails, restarts, taken, again>>

\* appendFileSync throws, with part of the line written or none: 500, and the token stays remembered.
ApplyFails(p) ==
  /\ fails < MaxFails
  /\ fails' = fails + 1
  /\ \E e \in Pending(p) :
       /\ revoked' = Apply(revoked, e)
       /\ torn' \in CutShort(e)
       /\ lost' = IF torn = {} /\ torn' = {e} THEN lost \ {e.subject}
                  ELSE lost \cup {e.subject} \cup (IF torn' = torn THEN {} ELSE Spoiled)
  /\ post' = [post EXCEPT ![p] = NoPost]
  /\ UNCHANGED <<now, seen, log, restarts, taken, again>>

\* 202
Acknowledge(p) ==
  /\ post[p].at = "apply"
  /\ Pending(p) = {}
  /\ post' = [post EXCEPT ![p] = NoPost]
  /\ UNCHANGED <<now, revoked, seen, log, torn, fails, restarts, lost, taken, again>>

\* The process dies, perhaps in the middle of an append, and starts again: the list is what the file
\* says, the replay cache is empty and the deliveries in progress are gone.
Restart ==
  /\ restarts < MaxRestarts
  /\ restarts' = restarts + 1
  /\ torn' \in {torn} \cup UNION {CutShort(e) : e \in UNION {Pending(p) : p \in Posts}}
  /\ revoked' = Replay(Lines(torn'))
  /\ seen' = [t \in Tokens |-> 0]
  /\ post' = [p \in Posts |-> NoPost]
  /\ taken' = [t \in Tokens |-> {}]
  /\ again' = {}
  /\ lost' = {}
  /\ UNCHANGED <<now, log, fails>>

\* What one delivery does once it has been received.
Handle(p) ==
  \/ Accept(p)
  \/ Begin(p)
  \/ Refuse(p)
  \/ ApplyNext(p)
  \/ Acknowledge(p)

EventsNext ==
  \E p \in Posts : Handle(p) \/ RefuseOther(p) \/ ApplyFails(p)

Next ==
  \/ \E p \in Posts, t \in Tokens : Receive(p, t)
  \/ EventsNext
  \/ Tick
  \/ Restart

\* Node runs a handler whose await has settled: every delivery keeps moving.
Fairness == \A p \in Posts : WF_eventVars(Handle(p))

Spec == Init /\ [][Next]_eventVars /\ Fairness

----------------------------------------------------------------------------
(* Properties *)

\* A restart changes the standing only of subjects whose last event did not reach the file, or whose line
\* something else was written behind: for every other subject the list in memory is what replaying the
\* file gives.
RestartRemembers ==
  \A s \in Subjects \ lost : s \in revoked <=> s \in Replay(Lines(torn))

\* One process accepts one event token at most once, except a token signed exactly one skew ahead of
\* the second it was first accepted in, which leaves the replay cache a fraction of a second too early.
AcceptedOnce ==
  \A t \in again : \A s \in taken[t] : Iat[t] = s + Skew

\* Every delivery is answered, whatever the others in progress do, unless the process dies first.
PostsAnswered ==
  \A p \in Posts : post[p].at # "idle" ~> post[p].at = "idle"
=============================================================================
