------------------------ MODULE SecurityEventsProofs ------------------------
(***************************************************************************)
(* What SecurityEvents promises, for any issuers' tokens and events, any   *)
(* window, any number of deliveries, failing appends and restarts.         *)
(***************************************************************************)
EXTENDS SecurityEvents, TLAPS

----------------------------------------------------------------------------
(* Time *)

LEMMA Limits ==
  MaxAge \in Nat /\ Skew \in Nat /\ MaxTime \in Nat /\ TicksPerSec \in Nat /\ TicksPerSec > 0
  BY ConstantsAssumption

LEMMA WindowInTicks == Window \in Nat /\ Window * TicksPerSec \in Nat
  BY Limits DEF Window

\* A token accepted a whole window ago that is still in the window was signed one skew ahead.
LEMMA OneSkewAhead ==
  ASSUME NEW iat \in Nat, NEW first \in Nat, NEW age \in Nat, NEW skew \in Nat, NEW second \in Nat,
         iat <= first + skew, second <= iat + age, first + (age + skew) <= second
  PROVE  iat = first + skew
  OBVIOUS

\* The second a tick lies in.
LEMMA SecondOfTick ==
  ASSUME NEW tick \in Nat
  PROVE  /\ tick \div TicksPerSec \in Nat
         /\ (tick \div TicksPerSec) * TicksPerSec <= tick
         /\ \A s \in Nat : s * TicksPerSec <= tick => s <= tick \div TicksPerSec
<1>1. TicksPerSec \in Nat /\ TicksPerSec > 0
  BY ConstantsAssumption
<1> DEFINE q == tick \div TicksPerSec
<1>2. q \in Nat /\ q * TicksPerSec <= tick /\ tick < (q + 1) * TicksPerSec
  BY <1>1
<1> HIDE DEF q
<1>3. ASSUME NEW s \in Nat, s * TicksPerSec <= tick, q + 1 <= s
      PROVE  FALSE
  <2>1. (q + 1) * TicksPerSec <= s * TicksPerSec
    BY <1>1, <1>2, <1>3
  <2> QED
    BY <1>1, <1>2, <1>3, <2>1
<1>4. \A s \in Nat : s * TicksPerSec <= tick => s <= q
  BY <1>2, <1>3
<1> QED
  BY <1>2, <1>4 DEF q

----------------------------------------------------------------------------
(* The file *)

Files == Seq(Event \cup {Damaged})

\* Replaying one more line: an event decides about its subject, a damaged line about nothing.
LEMMA ReplayOneMore ==
  ASSUME NEW lines \in Files, NEW line \in Event \cup {Damaged}, NEW s \in Subjects
  PROVE  s \in Replay(Append(lines, line)) <=>
           \/ line = [type |-> "revoke", subject |-> s]
           \/ s \in Replay(lines) /\ line # [type |-> "restore", subject |-> s]
<1> DEFINE more == Append(lines, line)
           revoke == [type |-> "revoke", subject |-> s]
           restore == [type |-> "restore", subject |-> s]
<1>1. Len(lines) \in Nat /\ Len(more) = Len(lines) + 1 /\ more[Len(lines) + 1] = line
  BY DEF Files
<1>2. \A i \in 1 .. Len(lines) : more[i] = lines[i]
  BY DEF Files
<1>3. DOMAIN lines = 1 .. Len(lines) /\ DOMAIN more = 1 .. Len(lines) + 1
  BY <1>1 DEF Files
<1>4. s \in Replay(lines) <=>
        \E i \in 1 .. Len(lines) : lines[i] = revoke /\ \A j \in i + 1 .. Len(lines) : lines[j] # restore
  BY <1>3 DEF Replay
<1>5. s \in Replay(more) <=>
        \E i \in 1 .. Len(lines) + 1 : more[i] = revoke /\ \A j \in i + 1 .. Len(lines) + 1 : more[j] # restore
  BY <1>1, <1>3 DEF Replay
<1> HIDE DEF more, revoke, restore
<1>6. ASSUME line = revoke PROVE s \in Replay(more)
  <2>1. more[Len(lines) + 1] = revoke /\ Len(lines) + 1 \in 1 .. Len(lines) + 1
    BY <1>1, <1>6
  <2>2. \A j \in (Len(lines) + 1) + 1 .. Len(lines) + 1 : more[j] # restore
    BY <1>1
  <2> QED
    BY <1>5, <2>1, <2>2
<1>7. ASSUME s \in Replay(lines), line # restore PROVE s \in Replay(more)
  <2>1. PICK i \in 1 .. Len(lines) : lines[i] = revoke /\ \A j \in i + 1 .. Len(lines) : lines[j] # restore
    BY <1>4, <1>7
  <2>2. i \in 1 .. Len(lines) + 1 /\ more[i] = revoke
    BY <1>1, <1>2, <2>1
  <2>3. ASSUME NEW j \in i + 1 .. Len(lines) + 1 PROVE more[j] # restore
    <3>1. CASE j = Len(lines) + 1
      BY <1>1, <1>7, <3>1
    <3>2. CASE j \in i + 1 .. Len(lines)
      BY <1>1, <1>2, <2>1, <3>2
    <3> QED
      BY <1>1, <3>1, <3>2
  <2> QED
    BY <1>5, <2>2, <2>3
<1>8. ASSUME s \in Replay(more), line # revoke PROVE s \in Replay(lines) /\ line # restore
  <2>1. PICK i \in 1 .. Len(lines) + 1 :
          more[i] = revoke /\ \A j \in i + 1 .. Len(lines) + 1 : more[j] # restore
    BY <1>5, <1>8
  <2>2. i \in 1 .. Len(lines)
    BY <1>1, <1>8, <2>1
  <2>3. lines[i] = revoke /\ \A j \in i + 1 .. Len(lines) : lines[j] # restore
    BY <1>1, <1>2, <2>1, <2>2
  <2>4. line # restore
    BY <1>1, <2>1, <2>2
  <2> QED
    BY <1>4, <2>2, <2>3, <2>4
<1> QED
  BY <1>6, <1>7, <1>8 DEF more, revoke, restore

\* What a file reads as, by how it ends.
LEMMA LinesByEnd ==
  ASSUME log \in Files
  PROVE  /\ Lines({}) = log /\ Lines({Damaged}) = log
         /\ \A e \in Event : Lines({e}) = Append(log, e)
<1>1. Damaged \notin Event
  BY DEF Damaged, Event
<1>2. ASSUME NEW e \in Event PROVE Lines({e}) = Append(log, e)
  <2>1. {e} \cap Event = {e} /\ (CHOOSE x \in {e} : TRUE) = e
    OBVIOUS
  <2> QED
    BY <2>1 DEF Lines
<1>3. {Damaged} \cap Event = {}
  BY <1>1
<1> QED
  BY <1>2, <1>3 DEF Lines

\* An unfinished line says nothing of other subjects than its own.
LEMMA UnfinishedLine ==
  ASSUME log \in Files, torn \in Ends, NEW s \in Subjects \ Spoiled
  PROVE  s \in Replay(Lines(torn)) <=> s \in Replay(log)
<1>1. CASE torn = {} \/ torn = {Damaged}
  BY <1>1, LinesByEnd
<1>2. CASE \E e \in Event : torn = {e}
  <2>1. PICK e \in Event : torn = {e}
    BY <1>2
  <2>2. e.subject # s
    BY <2>1 DEF Spoiled
  <2>3. e # [type |-> "revoke", subject |-> s] /\ e # [type |-> "restore", subject |-> s]
    BY <2>2
  <2>4. s \in Replay(Append(log, e)) <=> s \in Replay(log)
    BY <2>3, ReplayOneMore
  <2> QED
    BY <2>1, <2>4, LinesByEnd
<1> QED
  BY <1>1, <1>2 DEF Ends

\* One more event in the file and in the list: they agree on every subject they agreed on, and on its own.
LEMMA BothApply ==
  ASSUME log \in Files, NEW e \in Event, NEW s \in Subjects, NEW list,
         s # e.subject => (s \in list <=> s \in Replay(log))
  PROVE  s \in Apply(list, e) <=> s \in Replay(Append(log, e))
<1>1. /\ e.subject \in Subjects /\ e.type \in {"revoke", "restore"}
      /\ e = [type |-> e.type, subject |-> e.subject]
  BY DEF Event
<1>2. s \in Replay(Append(log, e)) <=>
        \/ e = [type |-> "revoke", subject |-> s]
        \/ s \in Replay(log) /\ e # [type |-> "restore", subject |-> s]
  BY ReplayOneMore
<1>3. CASE s # e.subject
  BY <1>2, <1>3 DEF Apply
<1>4. CASE s = e.subject /\ e.type = "revoke"
  BY <1>1, <1>2, <1>4 DEF Apply
<1>5. CASE s = e.subject /\ e.type = "restore"
  BY <1>1, <1>2, <1>5 DEF Apply
<1> QED
  BY <1>1, <1>3, <1>4, <1>5

----------------------------------------------------------------------------
(* The inductive invariant *)

\* A token that was accepted is remembered until a whole window has passed since that second.
RememberedForAWindow ==
  \A t \in Tokens : \A s \in taken[t] :
    /\ Iat[t] <= s + Skew
    /\ (s + Window) * TicksPerSec <= seen[t] \/ (s + Window) * TicksPerSec <= now

\* Nothing is accepted again before it has been accepted once.
AgainIsTaken == \A t \in again : taken[t] # {}

IInv ==
  /\ TypeOK
  /\ RestartRemembers
  /\ RememberedForAWindow
  /\ AgainIsTaken
  /\ AcceptedOnce

\* What an action leaves alone keeps the parts of the invariant that are about it.
LEMMA FileUntouched ==
  ASSUME IInv, UNCHANGED <<revoked, log, torn, lost>>
  PROVE  RestartRemembers'
  BY DEF IInv, RestartRemembers, Lines

LEMMA CacheUntouched ==
  ASSUME IInv, UNCHANGED <<now, seen, taken, again>>
  PROVE  RememberedForAWindow' /\ AgainIsTaken' /\ AcceptedOnce'
  BY DEF IInv, RememberedForAWindow, AgainIsTaken, AcceptedOnce

LEMMA EmptyPost == NoPost \in [at : {"idle", "key", "accepted", "apply"}, token : SUBSET Tokens, done : Nat]
  BY DEF NoPost

----------------------------------------------------------------------------
(* One lemma an action *)

LEMMA TickKeeps == ASSUME IInv, Tick PROVE IInv'
<1>1. TypeOK'
  BY ConstantsAssumption DEF IInv, TypeOK, Tick
<1>2. RestartRemembers' /\ AgainIsTaken' /\ AcceptedOnce'
  BY FileUntouched DEF Tick, IInv, AgainIsTaken, AcceptedOnce
<1>3. RememberedForAWindow'
  <2> SUFFICES ASSUME NEW t \in Tokens, NEW s \in taken[t],
                      (s + Window) * TicksPerSec <= now
               PROVE  (s + Window) * TicksPerSec <= now + 1
    BY DEF Tick, IInv, RememberedForAWindow
  <2>1. s \in Nat /\ now \in Nat
    BY DEF IInv, TypeOK
  <2>2. (s + Window) * TicksPerSec \in Nat
    BY <2>1, WindowInTicks, ConstantsAssumption
  <2> QED
    BY <2>1, <2>2
<1> QED
  BY <1>1, <1>2, <1>3 DEF IInv

LEMMA ReceiveKeeps == ASSUME IInv, NEW p \in Posts, NEW t \in Tokens, Receive(p, t) PROVE IInv'
<1>1. TypeOK'
  BY DEF IInv, TypeOK, Receive
<1> QED
  BY <1>1, FileUntouched, CacheUntouched DEF IInv, Receive

LEMMA AcceptKeeps == ASSUME IInv, NEW p \in Posts, Accept(p) PROVE IInv'
<1>1. PICK t \in post[p].token :
        /\ InWindow(t)
        /\ Pruned[t] = 0
        /\ seen' = [Pruned EXCEPT ![t] = Until]
        /\ taken' = [taken EXCEPT ![t] = IF @ = {} THEN {NowSec} ELSE @]
        /\ again' = IF taken[t] = {} THEN again ELSE again \cup {t}
  BY DEF Accept
<1>2. t \in Tokens /\ now \in 0 .. MaxTime /\ NowSec \in Nat /\ NowSec * TicksPerSec <= now
  <2>1. t \in Tokens /\ now \in 0 .. MaxTime
    BY DEF IInv, TypeOK
  <2>2. now \in Nat
    BY <2>1, Limits
  <2> QED
    BY <2>1, <2>2, SecondOfTick DEF NowSec
<1>3. Window * TicksPerSec \in Nat /\ Window \in Nat /\ TicksPerSec \in Nat
  BY WindowInTicks, Limits
<1>4. Until \in 0 .. MaxTime + Window * TicksPerSec
  <2> DEFINE w == Window * TicksPerSec
  <2>1. w \in Nat
    BY <1>3
  <2> HIDE DEF w
  <2>2. now + w \in 0 .. MaxTime + w
    BY <1>2, <2>1, Limits
  <2> QED
    BY <2>2 DEF Until, w
<1>5. Pruned \in [Tokens -> 0 .. MaxTime + Window * TicksPerSec]
  BY <1>3, ConstantsAssumption DEF Pruned, IInv, TypeOK
<1>6. /\ seen'[t] = Until
      /\ \A u \in Tokens \ {t} : seen'[u] = Pruned[u] /\ taken'[u] = taken[u]
      /\ taken'[t] = IF taken[t] = {} THEN {NowSec} ELSE taken[t]
  BY <1>1, <1>2, <1>5 DEF IInv, TypeOK
<1>7. TypeOK'
  <2>1. seen' \in [Tokens -> 0 .. MaxTime + Window * TicksPerSec]
    BY <1>1, <1>4, <1>5
  <2>2. taken' \in [Tokens -> SUBSET Nat]
    <3>1. taken \in [Tokens -> SUBSET Nat]
      BY DEF IInv, TypeOK
    <3>2. (IF taken[t] = {} THEN {NowSec} ELSE taken[t]) \in SUBSET Nat
      BY <1>2, <3>1
    <3> QED
      BY <1>1, <3>1, <3>2
  <2>3. again' \in SUBSET Tokens
    BY <1>1, <1>2 DEF IInv, TypeOK
  <2>4. post' \in [Posts -> [at : {"idle", "key", "accepted", "apply"}, token : SUBSET Tokens, done : Nat]]
    <3>1. post \in [Posts -> [at : {"idle", "key", "accepted", "apply"}, token : SUBSET Tokens, done : Nat]]
      BY DEF IInv, TypeOK
    <3>2. post' = [post EXCEPT ![p].at = "accepted"]
      BY DEF Accept
    <3> QED
      BY <3>1, <3>2
  <2> QED
    BY <2>1, <2>2, <2>3, <2>4 DEF IInv, TypeOK, Accept
<1>8. \A u \in Tokens : \A s \in taken[u] : s \in Nat /\ (s + Window) * TicksPerSec \in Nat
  BY <1>3 DEF IInv, TypeOK
<1>9. ASSUME NEW u \in Tokens, Pruned[u] = 0, NEW s \in taken[u]
      PROVE  (s + Window) * TicksPerSec <= now
  <2>1. seen[u] <= now
    BY <1>2, <1>9 DEF Pruned, IInv, TypeOK
  <2>2. seen[u] \in Nat
    BY <1>3, ConstantsAssumption DEF IInv, TypeOK
  <2> QED
    BY <1>2, <1>8, <2>1, <2>2 DEF IInv, RememberedForAWindow
<1>10. (NowSec + Window) * TicksPerSec <= Until
  <2>1. (NowSec + Window) * TicksPerSec = NowSec * TicksPerSec + Window * TicksPerSec
    BY <1>2, <1>3
  <2> QED
    BY <1>2, <1>3, <2>1 DEF Until
<1>11. RememberedForAWindow'
  <2> SUFFICES ASSUME NEW u \in Tokens, NEW s \in taken'[u]
               PROVE  /\ Iat[u] <= s + Skew
                      /\ (s + Window) * TicksPerSec <= seen'[u] \/ (s + Window) * TicksPerSec <= now
    BY DEF RememberedForAWindow, Accept
  <2>1. CASE u # t
    <3>1. s \in taken[u] /\ seen'[u] = Pruned[u]
      BY <1>6, <2>1
    <3>2. CASE Pruned[u] = 0
      BY <1>9, <3>1, <3>2 DEF IInv, RememberedForAWindow
    <3>3. CASE Pruned[u] # 0
      BY <3>1, <3>3 DEF Pruned, IInv, RememberedForAWindow
    <3> QED
      BY <3>2, <3>3
  <2>2. CASE u = t /\ taken[t] # {}
    BY <1>1, <1>6, <1>9, <2>2 DEF IInv, RememberedForAWindow
  <2>3. CASE u = t /\ taken[t] = {}
    BY <1>1, <1>6, <1>10, <2>3 DEF InWindow
  <2> QED
    BY <2>1, <2>2, <2>3
<1>12. AcceptedOnce'
  <2> SUFFICES ASSUME NEW u \in again', NEW s \in taken'[u]
               PROVE  Iat[u] = s + Skew
    BY DEF AcceptedOnce
  <2>1. u \in Tokens /\ again \in SUBSET Tokens
    BY <1>1, <1>2 DEF IInv, TypeOK
  <2>2. CASE u # t
    BY <1>1, <1>6, <2>1, <2>2 DEF IInv, AcceptedOnce
  <2>3. CASE u = t /\ taken[t] = {}
    BY <1>1, <2>3 DEF IInv, AgainIsTaken
  <2>4. CASE u = t /\ taken[t] # {}
    <3>1. s \in taken[t] /\ s \in Nat
      BY <1>6, <1>8, <2>1, <2>4
    <3>2. (s + Window) * TicksPerSec <= now
      BY <1>1, <1>2, <1>9, <3>1
    <3>3. s + Window <= NowSec
      BY <1>2, <1>3, <3>1, <3>2, SecondOfTick DEF NowSec
    <3>4. Iat[t] <= s + Skew /\ NowSec <= Iat[t] + MaxAge
      BY <1>1, <1>2, <3>1 DEF InWindow, IInv, RememberedForAWindow
    <3>5. Iat[t] \in Nat /\ NowSec \in Nat
      BY <1>2, ConstantsAssumption
    <3>6. s + (MaxAge + Skew) <= NowSec
      BY <3>3 DEF Window
    <3>7. Iat[t] = s + Skew
      BY <3>1, <3>4, <3>5, <3>6, Limits, OneSkewAhead
    <3> QED
      BY <2>4, <3>7
  <2> QED
    BY <2>2, <2>3, <2>4
<1>13. RestartRemembers'
  BY FileUntouched DEF Accept
<1>14. AgainIsTaken'
  BY <1>1, <1>2, <1>6 DEF IInv, TypeOK, AgainIsTaken
<1> QED
  BY <1>7, <1>11, <1>12, <1>13, <1>14 DEF IInv

LEMMA BeginKeeps == ASSUME IInv, NEW p \in Posts, Begin(p) PROVE IInv'
<1>1. TypeOK'
  BY DEF IInv, TypeOK, Begin
<1> QED
  BY <1>1, FileUntouched, CacheUntouched DEF IInv, Begin

LEMMA RefuseKeeps == ASSUME IInv, NEW p \in Posts, Refuse(p) PROVE IInv'
<1>1. seen' = seen \/ seen' = Pruned
  BY DEF Refuse
<1>2. Window * TicksPerSec \in Nat /\ now \in Nat
  BY WindowInTicks, ConstantsAssumption DEF IInv, TypeOK
<1>3. Pruned \in [Tokens -> 0 .. MaxTime + Window * TicksPerSec]
  BY <1>2, ConstantsAssumption DEF Pruned, IInv, TypeOK
<1>4. TypeOK'
  BY <1>1, <1>3, EmptyPost DEF IInv, TypeOK, Refuse
<1>5. RememberedForAWindow'
  <2> SUFFICES ASSUME NEW t \in Tokens, NEW s \in taken[t]
               PROVE  /\ Iat[t] <= s + Skew
                      /\ (s + Window) * TicksPerSec <= seen'[t] \/ (s + Window) * TicksPerSec <= now
    BY DEF RememberedForAWindow, Refuse
  <2>1. s \in Nat /\ (s + Window) * TicksPerSec \in Nat
    BY WindowInTicks, ConstantsAssumption DEF IInv, TypeOK
  <2>2. seen[t] \in Nat
    BY <1>2, ConstantsAssumption DEF IInv, TypeOK
  <2>3. seen'[t] = seen[t] \/ seen[t] <= now
    BY <1>1 DEF Pruned
  <2> QED
    BY <1>2, <2>1, <2>2, <2>3 DEF IInv, RememberedForAWindow
<1>6. RestartRemembers' /\ AgainIsTaken' /\ AcceptedOnce'
  BY FileUntouched DEF Refuse, IInv, AgainIsTaken, AcceptedOnce
<1> QED
  BY <1>4, <1>5, <1>6 DEF IInv

LEMMA RefuseOtherKeeps == ASSUME IInv, NEW p \in Posts, RefuseOther(p) PROVE IInv'
<1>1. TypeOK'
  BY EmptyPost DEF IInv, TypeOK, RefuseOther
<1> QED
  BY <1>1, FileUntouched, CacheUntouched DEF IInv, RefuseOther

LEMMA ApplyNextKeeps == ASSUME IInv, NEW p \in Posts, ApplyNext(p) PROVE IInv'
<1>1. PICK e \in Pending(p) :
        /\ revoked' = Apply(revoked, e)
        /\ log' = Append(log, Appended(e))
        /\ lost' = IF torn = {} THEN lost \ {e.subject} ELSE lost \cup {e.subject} \cup Spoiled
  BY DEF ApplyNext
<1>2. /\ e \in Event /\ e.subject \in Subjects /\ e.type \in {"revoke", "restore"}
      /\ e = [type |-> e.type, subject |-> e.subject]
  BY DEF Pending, Event
<1>3. Appended(e) \in Event \cup {Damaged}
  BY <1>2 DEF Appended
<1>4. log \in Files /\ log' \in Files /\ torn \in Ends
  BY <1>1, <1>3 DEF IInv, TypeOK, Files
<1>5. revoked' \in SUBSET Subjects
  BY <1>1, <1>2 DEF IInv, TypeOK, Apply
<1>6. post' \in [Posts -> [at : {"idle", "key", "accepted", "apply"}, token : SUBSET Tokens, done : Nat]]
  <2>1. post[p].done + 1 \in Nat
    BY DEF IInv, TypeOK
  <2> QED
    BY <2>1 DEF IInv, TypeOK, ApplyNext
<1>7. TypeOK'
  <2>1. lost' \in SUBSET Subjects /\ torn' \in Ends
    BY <1>1, <1>2 DEF IInv, TypeOK, ApplyNext, Spoiled, Ends, Event
  <2> QED
    BY <1>4, <1>5, <1>6, <2>1 DEF IInv, TypeOK, ApplyNext, Files
<1>8. Lines(torn)' = log'
  BY DEF ApplyNext, Lines
<1>9. RestartRemembers'
  <2> SUFFICES ASSUME NEW s \in Subjects \ lost'
               PROVE  s \in revoked' <=> s \in Replay(log')
    BY <1>8 DEF RestartRemembers
  <2>1. CASE torn = {}
    <3>1. log' = Append(log, e) /\ (s # e.subject => s \notin lost)
      BY <1>1, <2>1 DEF Appended
    <3>2. s # e.subject => (s \in revoked <=> s \in Replay(log))
      BY <1>4, <2>1, <3>1, LinesByEnd DEF IInv, RestartRemembers
    <3> QED
      BY <1>1, <1>2, <1>4, <3>1, <3>2, BothApply
  <2>2. CASE torn # {}
    <3>1. log' = Append(log, Damaged) /\ s \notin lost /\ s # e.subject /\ s \notin Spoiled
      BY <1>1, <2>2 DEF Appended
    <3>2. s \in revoked' <=> s \in revoked
      BY <1>1, <3>1 DEF Apply
    <3>3. s \in Replay(log') <=> s \in Replay(log)
      BY <1>4, <3>1, ReplayOneMore DEF Damaged
    <3> QED
      BY <1>4, <3>1, <3>2, <3>3, UnfinishedLine DEF IInv, RestartRemembers
  <2> QED
    BY <2>1, <2>2
<1> QED
  BY <1>7, <1>9, CacheUntouched DEF IInv, ApplyNext

LEMMA ApplyFailsKeeps == ASSUME IInv, NEW p \in Posts, ApplyFails(p) PROVE IInv'
<1>1. PICK e \in Pending(p) :
        /\ revoked' = Apply(revoked, e)
        /\ torn' \in CutShort(e)
        /\ lost' = IF torn = {} /\ torn' = {e} THEN lost \ {e.subject}
                   ELSE lost \cup {e.subject} \cup (IF torn' = torn THEN {} ELSE Spoiled)
  BY DEF ApplyFails
<1>2. e \in Event /\ e.subject \in Subjects
  BY DEF Pending, Event
<1>3. log \in Files /\ torn \in Ends /\ log' = log
  BY DEF IInv, TypeOK, Files, ApplyFails
<1>4. TypeOK'
  <2>1. fails' \in 0 .. MaxFails
    BY ConstantsAssumption DEF IInv, TypeOK, ApplyFails
  <2>2. revoked' \in SUBSET Subjects /\ lost' \in SUBSET Subjects
    BY <1>1, <1>2 DEF IInv, TypeOK, Apply, Spoiled, Event
  <2>3. torn' \in Ends
    BY <1>1, <1>2, <1>3 DEF CutShort, Ends
  <2>4. post' \in [Posts -> [at : {"idle", "key", "accepted", "apply"}, token : SUBSET Tokens, done : Nat]]
    BY EmptyPost DEF IInv, TypeOK, ApplyFails
  <2> QED
    BY <2>1, <2>2, <2>3, <2>4 DEF IInv, TypeOK, ApplyFails
<1>5. RestartRemembers'
  <2> SUFFICES ASSUME NEW s \in Subjects \ lost'
               PROVE  s \in revoked' <=> s \in Replay(Lines(torn'))
    BY <1>3 DEF RestartRemembers, Lines
  <2>1. CASE torn = {} /\ torn' = {e}
    <3>1. Lines(torn') = Append(log, e)
      BY <1>2, <1>3, <2>1, LinesByEnd
    <3>2. s # e.subject => (s \in revoked <=> s \in Replay(log))
      BY <1>1, <1>3, <2>1, LinesByEnd DEF IInv, RestartRemembers
    <3> QED
      BY <1>1, <1>2, <1>3, <3>1, <3>2, BothApply
  <2>2. CASE torn' = torn
    <3>1. s \notin lost /\ (torn # {} \/ torn' # {e} => s # e.subject)
      BY <1>1, <2>2
    <3>2. s # e.subject
      BY <2>2, <3>1
    <3>3. s \in revoked' <=> s \in revoked
      BY <1>1, <3>2 DEF Apply
    <3> QED
      BY <2>2, <3>1, <3>3 DEF IInv, RestartRemembers
  <2>3. CASE torn' # torn /\ torn' = {Damaged} /\ ~ (torn = {} /\ torn' = {e})
    <3>1. s \notin lost /\ s # e.subject /\ s \notin Spoiled
      BY <1>1, <2>3
    <3>2. s \in revoked' <=> s \in revoked
      BY <1>1, <3>1 DEF Apply
    <3>3. Lines(torn') = log
      BY <1>3, <2>3, LinesByEnd
    <3> QED
      BY <1>3, <3>1, <3>2, <3>3, UnfinishedLine DEF IInv, RestartRemembers
  <2> QED
    BY <1>1, <2>1, <2>2, <2>3 DEF CutShort
<1> QED
  BY <1>4, <1>5, CacheUntouched DEF IInv, ApplyFails

LEMMA AcknowledgeKeeps == ASSUME IInv, NEW p \in Posts, Acknowledge(p) PROVE IInv'
<1>1. TypeOK'
  BY EmptyPost DEF IInv, TypeOK, Acknowledge
<1> QED
  BY <1>1, FileUntouched, CacheUntouched DEF IInv, Acknowledge

LEMMA RestartKeeps == ASSUME IInv, Restart PROVE IInv'
<1>1. Replay(Lines(torn')) \subseteq Subjects /\ Window * TicksPerSec \in Nat
  BY WindowInTicks DEF Replay
<1>2. TypeOK'
  <2>1. restarts' \in 0 .. MaxRestarts
    BY ConstantsAssumption DEF IInv, TypeOK, Restart
  <2>2. torn' \in Ends
    <3>1. ASSUME NEW p \in Posts, NEW e \in Pending(p) PROVE CutShort(e) \subseteq Ends
      BY <3>1 DEF CutShort, Ends, IInv, TypeOK, Pending
    <3> QED
      BY <3>1 DEF IInv, TypeOK, Restart
  <2>3. seen' \in [Tokens -> 0 .. MaxTime + Window * TicksPerSec]
    BY <1>1, ConstantsAssumption DEF Restart
  <2>4. post' \in [Posts -> [at : {"idle", "key", "accepted", "apply"}, token : SUBSET Tokens, done : Nat]]
    BY EmptyPost DEF Restart
  <2>5. revoked' \in SUBSET Subjects
    BY <1>1 DEF IInv, TypeOK, Restart
  <2> QED
    BY <2>1, <2>2, <2>3, <2>4, <2>5 DEF IInv, TypeOK, Restart
<1>3. RestartRemembers'
  BY DEF Restart, RestartRemembers, Lines
<1>4. RememberedForAWindow' /\ AgainIsTaken' /\ AcceptedOnce'
  BY DEF Restart, RememberedForAWindow, AgainIsTaken, AcceptedOnce
<1> QED
  BY <1>2, <1>3, <1>4 DEF IInv

----------------------------------------------------------------------------

LEMMA InitHolds == ASSUME Init PROVE IInv
<1>1. Window * TicksPerSec \in Nat
  BY WindowInTicks
<1>2. TypeOK
  <2>1. seen \in [Tokens -> 0 .. MaxTime + Window * TicksPerSec]
    BY <1>1, ConstantsAssumption DEF Init
  <2>2. post \in [Posts -> [at : {"idle", "key", "accepted", "apply"}, token : SUBSET Tokens, done : Nat]]
    BY EmptyPost DEF Init
  <2>3. now \in 0 .. MaxTime /\ fails \in 0 .. MaxFails /\ restarts \in 0 .. MaxRestarts
    BY ConstantsAssumption DEF Init
  <2>4. log \in Seq(Event \cup {Damaged}) /\ torn \in Ends
    <3>1. log = <<>> /\ torn = {}
      BY DEF Init
    <3>2. <<>> \in Seq(Event \cup {Damaged})
      OBVIOUS
    <3> QED
      BY <3>1, <3>2 DEF Ends
  <2>5. taken \in [Tokens -> SUBSET Nat]
    BY DEF Init
  <2>6. /\ revoked \in SUBSET Subjects /\ lost \in SUBSET Subjects
        /\ again \in SUBSET Tokens
    BY DEF Init
  <2> QED
    BY <2>1, <2>2, <2>3, <2>4, <2>5, <2>6 DEF TypeOK
<1>3. Replay(<<>>) = {}
  BY DEF Replay
<1>4. RestartRemembers /\ RememberedForAWindow /\ AgainIsTaken /\ AcceptedOnce
  BY <1>3 DEF Init, RestartRemembers, Lines, RememberedForAWindow, AgainIsTaken, AcceptedOnce
<1> QED
  BY <1>2, <1>4 DEF IInv

LEMMA StepKeeps == ASSUME IInv, [Next]_eventVars PROVE IInv'
<1>1. ASSUME NEW p \in Posts, NEW t \in Tokens, Receive(p, t) PROVE IInv'
  BY <1>1, ReceiveKeeps
<1>2. ASSUME NEW p \in Posts, Handle(p) PROVE IInv'
  BY <1>2, AcceptKeeps, BeginKeeps, RefuseKeeps, ApplyNextKeeps, AcknowledgeKeeps DEF Handle
<1>3. ASSUME NEW p \in Posts, RefuseOther(p) \/ ApplyFails(p) PROVE IInv'
  BY <1>3, RefuseOtherKeeps, ApplyFailsKeeps
<1>4. CASE Tick \/ Restart
  BY <1>4, TickKeeps, RestartKeeps
<1>5. CASE UNCHANGED eventVars
  BY <1>5, FileUntouched, CacheUntouched DEF eventVars, IInv, TypeOK
<1> QED
  BY <1>1, <1>2, <1>3, <1>4, <1>5 DEF Next, EventsNext

LEMMA Inductive == Spec => []IInv
  BY InitHolds, StepKeeps, PTL DEF Spec

----------------------------------------------------------------------------
(* Theorems *)

\* The list, the replay cache, the file and the deliveries are well-formed after any sequence of
\* deliveries, failures and restarts.
THEOREM TypeCorrect == Spec => []TypeOK
<1>1. IInv => TypeOK
  BY DEF IInv
<1> QED
  BY <1>1, Inductive, PTL

\* A restart changes the standing only of subjects whose last event did not reach the file, or whose
\* line something else was written behind (gateway.js:63-68 and 145-148).
THEOREM RestartCorrect == Spec => []RestartRemembers
<1>1. IInv => RestartRemembers
  BY DEF IInv
<1> QED
  BY <1>1, Inductive, PTL

\* The replay cache outlives the window, but for a token signed one skew ahead (set.js:40-45 and 68-72).
THEOREM ReplayRefused == Spec => []AcceptedOnce
<1>1. IInv => AcceptedOnce
  BY DEF IInv
<1> QED
  BY <1>1, Inductive, PTL
=============================================================================
