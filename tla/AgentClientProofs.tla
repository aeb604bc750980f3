------------------------- MODULE AgentClientProofs --------------------------
(***************************************************************************)
(* What an agent's command line scripts promise, for any number of runs,   *)
(* servers, services and scopes, and for every choice of the times.        *)
(***************************************************************************)
EXTENDS AgentClient, TLAPS

----------------------------------------------------------------------------
(* The inductive invariant *)

\* A run has one command, and at most one token in hand.
OneEach(r) ==
  /\ \A c, d \in run[r].cmd : c = d
  /\ \A t, u \in run[r].got : t = u

\* What it has in hand is what its command asked for.
Mine(r) == \A c \in run[r].cmd, t \in run[r].got : t.server = c.server /\ t.kind = c.kind

\* A file has at most one token, of the service it is for, and its expiry is put down at most Timeout
\* after the true one, unless it was guessed too long.
FileHolds(f) ==
  /\ \A t, u \in tokens[f] : t = u
  /\ \A t \in tokens[f] : t.server = f[1] /\ t.kind = f[2] /\ (t.until <= t.good + Timeout \/ t.short)

\* How long a run may still stand where it does, and how long what it has in hand, or is about to print,
\* will be good.
Timely(r) ==
  /\ run[r].at \in {"curl", "scope", "cat", "save", "write"} => run[r].since <= now
  /\ run[r].at = "curl" => now <= run[r].since + Timeout
  /\ run[r].at \in {"scope", "cat", "save", "write"} => now <= run[r].since + Pause
  /\ run[r].at \in {"save", "write"} => \A t \in run[r].got : t.good > run[r].since + Pause + Pause
  /\ \A t \in run[r].got :
       /\ t.until <= t.good + Timeout \/ t.short
       /\ \E l \in Lifetimes \cup {Default} : t.until <= MaxTime + l
  /\ run[r].at \in {"scope", "cat"} =>
       \A f \in FilesOf(r) : \A t \in tokens[f] : t.good > run[r].since + Pause \/ t.short

\* Unless a run raced with another one, it has in hand, or before it, a token of the scope it names.
InScope(r) ==
  ~ run[r].raced => \A c \in run[r].cmd : c.scope # All =>
    /\ \A t \in run[r].got : t.scope = c.scope
    /\ run[r].at = "cat" => \A t \in tokens[CacheFile(c)] : t.scope = c.scope

\* The time a run has left and the intervals it has slept are its --wait.
Patient(r) ==
  \A c \in run[r].cmd :
    /\ run[r].at \in {"check", "clean", "scope", "cat", "ask", "sleep"} =>
         /\ run[r].wait + run[r].asked * Interval = c.wait
         /\ run[r].asked > 0 => run[r].wait > 0
    /\ run[r].at = "curl" =>
         /\ run[r].wait + (run[r].asked - 1) * Interval = c.wait
         /\ run[r].asked > 1 => run[r].wait > 0
    /\ run[r].asked > 1 => (run[r].asked - 1) * Interval < c.wait

\* A run that has the file open has one that is there.
Linked(r) == run[r].at = "write" /\ run[r].linked => FilesOf(r) \subseteq there

RunHolds(r) == OneEach(r) /\ Mine(r) /\ Timely(r) /\ InScope(r) /\ Patient(r)

\* A registration file names the endpoint of a server of its host, and a run asks the server of its
\* command or one of the same host.
HostHolds ==
  /\ \A h \in Hosts : \A g \in reg[h] : \A e \in g.endpoint : HostOf[e] = h
  /\ \A q \in Requests : \A s, t \in ask[q].server : s = t
  /\ \A r \in Runs : run[r].at = "curl" =>
       \A c \in run[r].cmd : run[r].to # {} /\ \A e \in run[r].to : HostOf[e] = HostOf[c.server]

IInv ==
  /\ TypeOK
  /\ \A f \in Files : FileHolds(f)
  /\ \A r \in Runs : RunHolds(r)
  /\ \A r \in Runs : Linked(r)

----------------------------------------------------------------------------
(* What a step of one run leaves alone *)

\* A run that another one passes by: its file may be gone, or be a new one.
Kept(p) ==
  /\ run'[p].at = run[p].at /\ run'[p].cmd = run[p].cmd /\ run'[p].wait = run[p].wait
  /\ run'[p].asked = run[p].asked /\ run'[p].to = run[p].to /\ run'[p].since = run[p].since
  /\ run'[p].got = run[p].got
  /\ ~ run'[p].raced => ~ run[p].raced

NothingNew == \A f \in Files : tokens'[f] \subseteq tokens[f]

LEMMA FilesAreFiles ==
  ASSUME TypeOK, NEW r \in Runs
  PROVE  /\ \A c \in run[r].cmd : CacheFile(c) \in Files /\ CacheFile(c) = <<c.server, c.kind>>
         /\ FilesOf(r) \subseteq Files
<1>1. run[r].cmd \subseteq Commands
  BY DEF TypeOK, Run
<1>2. \A c \in run[r].cmd : c.server \in Servers /\ c.kind \in Kinds
  BY <1>1, CommandsAssumption
<1> QED
  BY <1>2 DEF CacheFile, Files, FilesOf

LEMMA KeptHolds ==
  ASSUME TypeOK, NEW p \in Runs, RunHolds(p), Kept(p), NothingNew, UNCHANGED now
  PROVE  RunHolds(p)'
<1>1. FilesOf(p)' = FilesOf(p)
  BY DEF FilesOf, CacheFile, Kept
<1>2. FilesOf(p) \subseteq Files /\ \A c \in run[p].cmd : CacheFile(c) \in Files
  BY FilesAreFiles
<1>3. OneEach(p)' /\ Mine(p)' /\ Patient(p)'
  BY DEF RunHolds, Kept, OneEach, Mine, Patient
<1>4. Timely(p)'
  BY <1>1, <1>2 DEF RunHolds, Kept, Timely, NothingNew
<1>5. InScope(p)'
  BY <1>2 DEF RunHolds, Kept, InScope, NothingNew, CacheFile
<1> QED
  BY <1>3, <1>4, <1>5 DEF RunHolds

LEMMA FilesKept ==
  ASSUME NothingNew, \A f \in Files : FileHolds(f)
  PROVE  \A f \in Files : FileHolds(f)'
  BY DEF NothingNew, FileHolds

\* A step of one run that adds no token to a file.
LEMMA OneRun ==
  ASSUME IInv, NothingNew, UNCHANGED now, NEW r \in Runs, RunHolds(r)', \A p \in Runs \ {r} : Kept(p)
  PROVE  /\ \A f \in Files : FileHolds(f)'
         /\ \A p \in Runs : RunHolds(p)'
  BY KeptHolds, FilesKept DEF IInv

LEMMA NoRunHolds ==
  ASSUME NEW r \in Runs, run'[r] = NoRun
  PROVE  RunHolds(r)'
  BY DEF NoRun, RunHolds, OneEach, Mine, Timely, InScope, Patient, FilesOf

\* A run that moves on to where neither the time nor the file matters.
LEMMA MovesOn ==
  ASSUME IInv, UNCHANGED now, NEW r \in Runs,
         NEW at \in {"check", "clean", "ask", "sleep", "print", "done"},
         run'[r].at = at,
         run'[r].cmd = run[r].cmd, run'[r].wait = run[r].wait, run'[r].asked = run[r].asked,
         run'[r].got = run[r].got, ~ run'[r].raced => ~ run[r].raced,
         at \in {"check", "clean", "ask", "sleep"} =>
           run[r].at \in {"check", "clean", "scope", "cat", "ask", "sleep"}
  PROVE  RunHolds(r)'
<1>1. RunHolds(r)
  BY DEF IInv
<1>2. OneEach(r)' /\ Mine(r)'
  BY <1>1 DEF RunHolds, OneEach, Mine
<1>3. Timely(r)'
  BY <1>1 DEF RunHolds, Timely
<1>4. InScope(r)'
  BY <1>1 DEF RunHolds, InScope
<1>5. Patient(r)'
  BY <1>1 DEF RunHolds, Patient
<1> QED
  BY <1>2, <1>3, <1>4, <1>5 DEF RunHolds

----------------------------------------------------------------------------
(* One lemma a step of a run: it adds nothing to a file, passes the others by, and keeps the invariant. *)

Quiet(r) == NothingNew /\ UNCHANGED now /\ RunHolds(r)' /\ \A p \in Runs \ {r} : Kept(p)

LEMMA StartKeeps ==
  ASSUME IInv, NEW r \in Runs, NEW c \in Commands, Start(r, c)
  PROVE  Quiet(r)
<1>1. NothingNew /\ UNCHANGED now
  BY DEF Start, NothingNew, cacheVars
<1>2. run'[r] = [NoRun EXCEPT !.at = c.first, !.cmd = {c}, !.wait = c.wait]
  BY DEF Start, IInv, TypeOK
<1>3. \A p \in Runs \ {r} : Kept(p)
  BY DEF Start, IInv, TypeOK, Kept
<1>4. c.first \in {"check", "ask"} /\ c.wait \in Nat
  BY CommandsAssumption
<1>5. /\ run'[r].at = c.first /\ run'[r].cmd = {c} /\ run'[r].wait = c.wait /\ run'[r].asked = 0
      /\ run'[r].got = {}
  BY <1>2 DEF NoRun
<1>6. Patient(r)'
  <2>1. 0 * Interval = 0
    BY TimesAssumption
  <2> QED
    BY <1>4, <1>5, <2>1 DEF Patient
<1>7. RunHolds(r)'
  BY <1>4, <1>5, <1>6 DEF RunHolds, OneEach, Mine, Timely, InScope
<1> QED
  BY <1>1, <1>3, <1>7 DEF Quiet

\* A token that may still be used when the file is checked is good for as long as the check may take.
LEMMA CheckExpiryKeeps ==
  ASSUME IInv, NEW r \in Runs, CheckExpiry(r)
  PROVE  Quiet(r)
<1>1. NothingNew /\ UNCHANGED now
  BY DEF CheckExpiry, NothingNew, cacheVars
<1>2. \A p \in Runs \ {r} : Kept(p)
  BY DEF CheckExpiry, IInv, TypeOK, Kept
<1>3. RunHolds(r)'
  <2>1. PICK c \in run[r].cmd :
          LET f == CacheFile(c)
          IN  \/ run' = [run EXCEPT ![r].at = "ask"]
              \/ run' = [run EXCEPT ![r].at = "clean"]
              \/ /\ \E t \in tokens[f] : Usable(t)
                 /\ run' = [run EXCEPT ![r].at = IF c.scope = All THEN "cat" ELSE "scope",
                                       ![r].since = now]
    BY DEF CheckExpiry
  <2>2. CASE run' = [run EXCEPT ![r].at = "ask"] \/ run' = [run EXCEPT ![r].at = "clean"]
    <3>1. run[r].at = "check"
      BY DEF CheckExpiry
    <3>2. /\ run'[r].cmd = run[r].cmd /\ run'[r].wait = run[r].wait /\ run'[r].asked = run[r].asked
          /\ run'[r].got = run[r].got /\ run'[r].raced = run[r].raced
          /\ run'[r].at \in {"ask", "clean"}
      BY <2>2 DEF IInv, TypeOK, Run
    <3> QED
      BY <1>1, <3>1, <3>2, MovesOn
  <2>3. CASE /\ \E t \in tokens[CacheFile(c)] : Usable(t)
             /\ run' = [run EXCEPT ![r].at = IF c.scope = All THEN "cat" ELSE "scope", ![r].since = now]
    <3>1. /\ run[r].at = "check"
          /\ run'[r].at = IF c.scope = All THEN "cat" ELSE "scope"
          /\ run'[r].since = now
          /\ run'[r].cmd = run[r].cmd /\ run'[r].wait = run[r].wait /\ run'[r].asked = run[r].asked
          /\ run'[r].got = run[r].got /\ run'[r].raced = run[r].raced
          /\ tokens' = tokens
      BY <2>3 DEF CheckExpiry, IInv, TypeOK, Run, cacheVars
    <3>2. RunHolds(r) /\ (\A d \in run[r].cmd : d = c) /\ CacheFile(c) \in Files
      BY FilesAreFiles DEF IInv, RunHolds, OneEach
    <3>3. FilesOf(r)' = {CacheFile(c)}
      BY <3>1, <3>2 DEF FilesOf, CacheFile
    <3>4. \A t \in tokens[CacheFile(c)] : t.good > now + Pause \/ t.short
      <4>1. PICK u \in tokens[CacheFile(c)] : Usable(u)
        BY <2>3
      <4>2. \A t \in tokens[CacheFile(c)] : t = u /\ (t.until <= t.good + Timeout \/ t.short)
        BY <3>2, <4>1 DEF IInv, FileHolds
      <4>3. u \in Token /\ now \in Nat
        BY <3>2, <4>1 DEF IInv, TypeOK
      <4>4. u.until \in Nat /\ u.good \in Nat /\ u.until > now + Buffer
        BY <4>1, <4>3 DEF Token, Usable
      <4> QED
        BY <4>2, <4>3, <4>4, TimesAssumption
    <3>5. Timely(r)'
      <4>1. now \in Nat /\ now' = now
        BY <1>1 DEF IInv, TypeOK
      <4>2. \A f \in FilesOf(r)' : \A t \in tokens'[f] : t.good > now + Pause \/ t.short
        BY <3>1, <3>3, <3>4
      <4>3. \A t \in run'[r].got : (t.until <= t.good + Timeout \/ t.short)
                                /\ \E l \in Lifetimes \cup {Default} : t.until <= MaxTime + l
        BY <3>1, <3>2 DEF RunHolds, Timely
      <4>4. run'[r].at \in {"cat", "scope"}
        BY <3>1
      <4> QED
        BY <3>1, <4>1, <4>2, <4>3, <4>4, TimesAssumption DEF Timely
    <3>6. OneEach(r)' /\ Mine(r)'
      BY <3>1, <3>2 DEF RunHolds, OneEach, Mine
    <3>7. InScope(r)'
      BY <3>1, <3>2 DEF RunHolds, InScope, CacheFile
    <3>8. Patient(r)'
      BY <3>1, <3>2 DEF RunHolds, Patient
    <3> QED
      BY <3>5, <3>6, <3>7, <3>8 DEF RunHolds
  <2> QED
    BY <2>1, <2>2, <2>3
<1> QED
  BY <1>1, <1>2, <1>3 DEF Quiet

LEMMA RemoveIsQuiet ==
  ASSUME IInv, NEW f \in Files, Remove(f)
  PROVE  NothingNew
  BY DEF Remove, NothingNew, IInv, TypeOK

LEMMA CleanKeeps ==
  ASSUME IInv, NEW r \in Runs, Clean(r)
  PROVE  Quiet(r)
<1>1. PICK f \in FilesOf(r) : Remove(f) /\ run' = [Unlinked(f) EXCEPT ![r].at = "ask"]
  BY DEF Clean
<1>2. NothingNew /\ UNCHANGED now
  BY <1>1, FilesAreFiles, RemoveIsQuiet DEF Clean, IInv
<1>3. \A p \in Runs \ {r} : Kept(p)
  <2>1. \A p \in Runs \ {r} : run'[p] = run[p] \/ run'[p] = [run[p] EXCEPT !.linked = FALSE]
    BY <1>1 DEF Unlinked
  <2>2. ASSUME NEW p \in Runs, run'[p] = [run[p] EXCEPT !.linked = FALSE] PROVE Kept(p)
    <3>1. run[p] \in Run
      BY DEF IInv, TypeOK
    <3> QED
      BY <2>2, <3>1 DEF Kept, Run
  <2> QED
    BY <2>1, <2>2 DEF Kept
<1>4. RunHolds(r)'
  <2>1. run[r].at = "clean"
    BY DEF Clean
  <2>2. run'[r] = [run[r] EXCEPT !.at = "ask"]
    BY <1>1, <2>1 DEF Unlinked
  <2>3. /\ run'[r].cmd = run[r].cmd /\ run'[r].wait = run[r].wait /\ run'[r].asked = run[r].asked
        /\ run'[r].got = run[r].got /\ run'[r].raced = run[r].raced
        /\ run'[r].at = "ask"
    BY <2>2 DEF IInv, TypeOK, Run
  <2> QED
    BY <1>2, <2>1, <2>3, MovesOn
<1> QED
  BY <1>2, <1>3, <1>4 DEF Quiet

\* The scope is compared with what the file holds at that moment.
LEMMA CheckScopeKeeps ==
  ASSUME IInv, NEW r \in Runs, CheckScope(r)
  PROVE  Quiet(r)
<1>1. NothingNew /\ UNCHANGED now
  BY DEF CheckScope, NothingNew, cacheVars
<1>2. \A p \in Runs \ {r} : Kept(p)
  BY DEF CheckScope, IInv, TypeOK, Kept
<1>3. RunHolds(r)'
  <2>1. PICK c \in run[r].cmd :
          run' = IF \E t \in tokens[CacheFile(c)] : SameScope(t, c)
                 THEN [run EXCEPT ![r].at = "cat"]
                 ELSE [run EXCEPT ![r].at = "ask", ![r].since = 0]
    BY DEF CheckScope
  <2>2. run[r].at = "scope" /\ run[r] \in Run /\ tokens' = tokens
    BY DEF CheckScope, IInv, TypeOK, cacheVars
  <2>3. CASE \E t \in tokens[CacheFile(c)] : SameScope(t, c)
    <3>1. /\ run'[r].at = "cat" /\ run'[r].since = run[r].since
          /\ run'[r].cmd = run[r].cmd /\ run'[r].wait = run[r].wait /\ run'[r].asked = run[r].asked
          /\ run'[r].got = run[r].got /\ run'[r].raced = run[r].raced
      BY <2>1, <2>3 DEF IInv, TypeOK, Run
    <3>2. RunHolds(r) /\ (\A d \in run[r].cmd : d = c) /\ FileHolds(CacheFile(c))
      BY FilesAreFiles DEF IInv, RunHolds, OneEach
    <3>3. \A t \in tokens[CacheFile(c)] : t.scope = c.scope
      BY <2>3, <3>2 DEF FileHolds, SameScope
    <3>4. OneEach(r)' /\ Mine(r)'
      BY <3>1, <3>2 DEF RunHolds, OneEach, Mine
    <3>5. Timely(r)'
      BY <1>1, <2>2, <3>1, <3>2 DEF RunHolds, Timely, FilesOf, CacheFile
    <3>6. InScope(r)'
      BY <2>2, <3>1, <3>2, <3>3 DEF RunHolds, InScope, CacheFile
    <3>7. Patient(r)'
      BY <2>2, <3>1, <3>2 DEF RunHolds, Patient
    <3> QED
      BY <3>4, <3>5, <3>6, <3>7 DEF RunHolds
  <2>4. CASE ~ \E t \in tokens[CacheFile(c)] : SameScope(t, c)
    <3>1. /\ run'[r].cmd = run[r].cmd /\ run'[r].wait = run[r].wait /\ run'[r].asked = run[r].asked
          /\ run'[r].got = run[r].got /\ run'[r].raced = run[r].raced
          /\ run'[r].at = "ask"
      BY <2>1, <2>4 DEF IInv, TypeOK, Run
    <3> QED
      BY <1>1, <2>2, <3>1, MovesOn
  <2> QED
    BY <2>3, <2>4
<1> QED
  BY <1>1, <1>2, <1>3 DEF Quiet

\* What is printed is the file's one token.
LEMMA CatKeeps ==
  ASSUME IInv, NEW r \in Runs, Cat(r)
  PROVE  Quiet(r)
<1>1. NothingNew /\ UNCHANGED now
  BY DEF Cat, NothingNew, cacheVars
<1>2. \A p \in Runs \ {r} : Kept(p)
  BY DEF Cat, IInv, TypeOK, Kept
<1>3. RunHolds(r)'
  <2>1. PICK c \in run[r].cmd :
          run' = IF tokens[CacheFile(c)] = {} THEN [run EXCEPT ![r].at = "ask", ![r].since = 0]
                 ELSE [run EXCEPT ![r].at = "done", ![r].since = 0, ![r].got = tokens[CacheFile(c)]]
    BY DEF Cat, FilesOf
  <2>2. run[r].at = "cat" /\ run[r] \in Run
    BY DEF Cat, IInv, TypeOK
  <2>3. CASE tokens[CacheFile(c)] = {}
    <3>1. /\ run'[r].cmd = run[r].cmd /\ run'[r].wait = run[r].wait /\ run'[r].asked = run[r].asked
          /\ run'[r].got = run[r].got /\ run'[r].raced = run[r].raced
          /\ run'[r].at = "ask"
      BY <2>1, <2>3 DEF IInv, TypeOK, Run
    <3> QED
      BY <1>1, <2>2, <3>1, MovesOn
  <2>4. CASE tokens[CacheFile(c)] # {}
    <3>1. /\ run'[r].at = "done" /\ run'[r].got = tokens[CacheFile(c)]
          /\ run'[r].cmd = run[r].cmd /\ run'[r].wait = run[r].wait /\ run'[r].asked = run[r].asked
          /\ run'[r].raced = run[r].raced
      BY <2>1, <2>4 DEF IInv, TypeOK, Run
    <3>2. RunHolds(r) /\ (\A d \in run[r].cmd : d = c) /\ FileHolds(CacheFile(c)) /\ CacheFile(c) \in Files
      BY FilesAreFiles DEF IInv, RunHolds, OneEach
    <3>3. CacheFile(c) = <<c.server, c.kind>>
      BY DEF CacheFile
    <3>4. OneEach(r)' /\ Mine(r)'
      BY <3>1, <3>2, <3>3 DEF RunHolds, OneEach, Mine, FileHolds
    <3>5. Timely(r)'
      <4>1. \A t \in tokens[CacheFile(c)] : \E l \in Lifetimes \cup {Default} : t.until <= MaxTime + l
        BY <3>2 DEF IInv, TypeOK
      <4> QED
        BY <3>1, <3>2, <4>1 DEF Timely, FileHolds
    <3>6. InScope(r)'
      BY <2>2, <3>1, <3>2 DEF RunHolds, InScope
    <3>7. Patient(r)'
      BY <2>2, <3>1, <3>2 DEF RunHolds, Patient
    <3> QED
      BY <3>4, <3>5, <3>6, <3>7 DEF RunHolds
  <2> QED
    BY <2>3, <2>4
<1> QED
  BY <1>1, <1>2, <1>3 DEF Quiet

\* One time more is asked than has been slept.
LEMMA AskKeeps ==
  ASSUME IInv, NEW r \in Runs, Ask(r)
  PROVE  Quiet(r)
<1>1. NothingNew /\ UNCHANGED now
  BY DEF Ask, NothingNew, cacheVars
<1>2. \A p \in Runs \ {r} : Kept(p)
  BY DEF Ask, IInv, TypeOK, Kept
<1>3. /\ run[r].at = "ask" /\ run[r] \in Run
      /\ run'[r].at = "curl" /\ run'[r].since = now /\ run'[r].asked = run[r].asked + 1
      /\ run'[r].cmd = run[r].cmd /\ run'[r].wait = run[r].wait
      /\ run'[r].got = run[r].got /\ run'[r].raced = run[r].raced
  BY DEF Ask, IInv, TypeOK, Run
<1>4. RunHolds(r)
  BY DEF IInv
<1>5. OneEach(r)' /\ Mine(r)' /\ InScope(r)'
  BY <1>3, <1>4 DEF RunHolds, OneEach, Mine, InScope
<1>6. Timely(r)'
  <2>1. now \in Nat /\ now' = now
    BY <1>1 DEF IInv, TypeOK
  <2>2. \A t \in run'[r].got : (t.until <= t.good + Timeout \/ t.short)
                                /\ \E l \in Lifetimes \cup {Default} : t.until <= MaxTime + l
    BY <1>3, <1>4 DEF RunHolds, Timely
  <2> QED
    BY <1>3, <2>1, <2>2, TimesAssumption DEF Timely
<1>7. Patient(r)'
  <2>1. ASSUME NEW c \in run[r].cmd
        PROVE  /\ run'[r].wait + (run'[r].asked - 1) * Interval = c.wait
               /\ run'[r].asked > 1 => run'[r].wait > 0
               /\ run'[r].asked > 1 => (run'[r].asked - 1) * Interval < c.wait
    <3>1. /\ run[r].wait + run[r].asked * Interval = c.wait
          /\ run[r].asked > 0 => run[r].wait > 0
      BY <1>3, <1>4 DEF RunHolds, Patient
    <3>2. run[r].asked \in Nat /\ run[r].wait \in Nat /\ run'[r].asked - 1 = run[r].asked
      BY <1>3 DEF Run
    <3>3. run[r].asked * Interval \in Nat
      BY <3>2, TimesAssumption
    <3> QED
      BY <1>3, <3>1, <3>2, <3>3
  <2> QED
    BY <1>3, <2>1 DEF Patient
<1> QED
  BY <1>1, <1>2, <1>3, <1>5, <1>6, <1>7 DEF RunHolds, Quiet

\* The token in the answer was issued since the question, and lives long enough for what is still to come.
LEMMA AnswerKeeps ==
  ASSUME IInv, NEW r \in Runs, Answer(r)
  PROVE  Quiet(r)
<1>1. PICK c \in run[r].cmd, issued \in run[r].since .. now, lifetime \in Lifetimes :
        /\ run[r].to = {c.server}
        /\ standing[c.server] = "active"
        /\ Emptied(CacheFile(c))
        /\ run' = [run EXCEPT ![r].at = "save", ![r].since = now, ![r].to = {},
                     ![r].got = {[server |-> c.server, kind |-> c.kind, scope |-> c.scope,
                                  good |-> issued + lifetime,
                                  until |-> Until(IF c.server \in Stating THEN lifetime ELSE Default),
                                  short |-> c.server \notin Stating /\ lifetime < Default]}]
  BY Zenon DEF Answer
<1>5. there' = there \cup {CacheFile(c)} /\ tokens' = [tokens EXCEPT ![CacheFile(c)] = {}]
  BY <1>1 DEF Emptied
<1>2. NothingNew /\ UNCHANGED now
  BY <1>5 DEF Answer, NothingNew, IInv, TypeOK
<1>3. \A p \in Runs \ {r} : Kept(p)
  BY <1>1 DEF IInv, TypeOK, Kept
<1>4. RunHolds(r)'
  <2> DEFINE token == [server |-> c.server, kind |-> c.kind, scope |-> c.scope,
                       good |-> issued + lifetime,
                       until |-> Until(IF c.server \in Stating THEN lifetime ELSE Default),
                       short |-> c.server \notin Stating /\ lifetime < Default]
  <2>1. /\ run[r].at = "curl" /\ run[r] \in Run
        /\ run'[r].at = "save" /\ run'[r].since = now /\ run'[r].asked = run[r].asked
        /\ run'[r].cmd = run[r].cmd /\ run'[r].wait = run[r].wait
        /\ run'[r].got = {token} /\ run'[r].raced = run[r].raced
    BY <1>1 DEF Answer, IInv, TypeOK, Run
  <2>2. RunHolds(r) /\ (\A d \in run[r].cmd : d = c)
    BY DEF IInv, RunHolds, OneEach
  <2>3. /\ token.server = c.server /\ token.kind = c.kind /\ token.scope = c.scope
        /\ token.good = issued + lifetime
        /\ token.until = now + (IF c.server \in Stating THEN lifetime ELSE Default)
        /\ token.short = (c.server \notin Stating /\ lifetime < Default)
    BY DEF Until
  <2> HIDE DEF token
  <2>4. OneEach(r)' /\ Mine(r)' /\ InScope(r)'
    BY <2>1, <2>2, <2>3 DEF RunHolds, OneEach, Mine, InScope
  <2>5. Timely(r)'
    <3>1. /\ now \in Nat /\ now <= MaxTime /\ now' = now /\ MaxTime \in Nat
          /\ run[r].since \in Nat /\ run[r].since <= now /\ now <= run[r].since + Timeout
          /\ lifetime \in Nat /\ lifetime > Timeout + Pause + Pause
          /\ Timeout \in Nat /\ Pause \in Nat /\ Default \in Nat
      BY <1>2, <2>1, <2>2, TimesAssumption DEF IInv, TypeOK, Run, RunHolds, Timely
    <3>2. issued \in Nat /\ run[r].since <= issued /\ issued <= now
      BY <3>1
    <3>3. token.good > now + Pause + Pause
      BY <2>3, <3>1, <3>2
    <3>4. /\ token.until <= token.good + Timeout \/ token.short
          /\ \E l \in Lifetimes \cup {Default} : token.until <= MaxTime + l
      <4>1. CASE c.server \in Stating
        BY <2>3, <3>1, <3>2, <4>1
      <4>2. CASE c.server \notin Stating
        <5>1. token.until = now + Default /\ (lifetime < Default => token.short)
          BY <2>3, <4>2
        <5>2. lifetime >= Default => token.until <= token.good + Timeout
          BY <2>3, <3>1, <3>2, <5>1
        <5>3. token.until <= MaxTime + Default
          BY <3>1, <5>1
        <5> QED
          BY <3>1, <5>1, <5>2, <5>3
      <4> QED
        BY <4>1, <4>2
    <3> QED
      BY <2>1, <3>1, <3>3, <3>4 DEF Timely
  <2>6. Patient(r)'
    BY <2>1, <2>2 DEF RunHolds, Patient
  <2> QED
    BY <2>4, <2>5, <2>6 DEF RunHolds
<1> QED
  BY <1>2, <1>3, <1>4 DEF Quiet

LEMMA ReopenKeeps ==
  ASSUME IInv, NEW r \in Runs, Reopen(r)
  PROVE  Quiet(r)
<1>1. NothingNew /\ UNCHANGED now
  BY FilesAreFiles DEF Reopen, Emptied, NothingNew, IInv, TypeOK
<1>2. \A p \in Runs \ {r} : Kept(p)
  BY DEF Reopen, IInv, TypeOK, Kept
<1>3. /\ run[r].at = "save" /\ run'[r].at = "write"
      /\ run'[r].cmd = run[r].cmd /\ run'[r].wait = run[r].wait /\ run'[r].asked = run[r].asked
      /\ run'[r].got = run[r].got /\ run'[r].raced = run[r].raced /\ run'[r].since = run[r].since
  BY DEF Reopen, IInv, TypeOK, Run
<1>4. RunHolds(r)'
  BY <1>1, <1>3 DEF IInv, RunHolds, OneEach, Mine, Timely, InScope, Patient
<1> QED
  BY <1>1, <1>2, <1>4 DEF Quiet

LEMMA ShowKeeps ==
  ASSUME IInv, NEW r \in Runs, Show(r)
  PROVE  Quiet(r)
<1>1. NothingNew /\ UNCHANGED now
  BY DEF Show, NothingNew, cacheVars
<1>2. \A p \in Runs \ {r} : Kept(p)
  BY DEF Show, IInv, TypeOK, Kept
<1>3. CASE run'[r] = NoRun
  BY <1>1, <1>2, <1>3, NoRunHolds DEF Quiet
<1>4. CASE run'[r] = [run[r] EXCEPT !.at = "done"]
  <2>1. /\ run'[r].cmd = run[r].cmd /\ run'[r].wait = run[r].wait /\ run'[r].asked = run[r].asked
        /\ run'[r].got = run[r].got /\ run'[r].raced = run[r].raced
        /\ run'[r].at = "done"
    BY <1>4 DEF IInv, TypeOK, Run
  <2> QED
    BY <1>1, <1>2, <2>1, MovesOn DEF Quiet
<1> QED
  BY <1>3, <1>4 DEF Show, IInv, TypeOK

\* What is slept is taken off the time left.
LEMMA PendingKeeps ==
  ASSUME IInv, NEW r \in Runs, Pending(r)
  PROVE  Quiet(r)
<1>1. NothingNew /\ UNCHANGED now
  BY DEF Pending, NothingNew, cacheVars
<1>2. \A p \in Runs \ {r} : Kept(p)
  BY DEF Pending, IInv, TypeOK, Kept
<1>3. CASE run'[r] = NoRun
  BY <1>1, <1>2, <1>3, NoRunHolds DEF Quiet
<1>4. CASE /\ run[r].wait > Interval
           /\ run'[r] = [run[r] EXCEPT !.at = "sleep", !.wait = run[r].wait - Interval, !.to = {}, !.since = 0]
  <2>1. /\ run[r].at = "curl" /\ run[r] \in Run
        /\ run'[r].at = "sleep" /\ run'[r].wait = run[r].wait - Interval /\ run'[r].asked = run[r].asked
        /\ run'[r].cmd = run[r].cmd /\ run'[r].got = run[r].got /\ run'[r].raced = run[r].raced
    <3>1. run[r] \in Run /\ run[r].at = "curl"
      BY DEF Pending, IInv, TypeOK
    <3> QED
      BY <1>4, <3>1 DEF Run
  <2>2. RunHolds(r)
    BY DEF IInv
  <2>3. OneEach(r)' /\ Mine(r)' /\ InScope(r)' /\ Timely(r)'
    BY <2>1, <2>2 DEF RunHolds, OneEach, Mine, InScope, Timely
  <2>4. Patient(r)'
    <3>1. ASSUME NEW c \in run[r].cmd
          PROVE  /\ run'[r].wait + run'[r].asked * Interval = c.wait
                 /\ run'[r].wait > 0
                 /\ run'[r].asked > 1 => (run'[r].asked - 1) * Interval < c.wait
      <4>1. run[r].wait + (run[r].asked - 1) * Interval = c.wait
        BY <2>1, <2>2 DEF RunHolds, Patient
      <4>2. run[r].asked \in Nat /\ run[r].wait \in Nat /\ Interval \in Nat
        BY <2>1, TimesAssumption DEF Run
      <4>3. (run[r].asked - 1) * Interval = run[r].asked * Interval - Interval
        BY <4>2
      <4>4. run[r].asked * Interval \in Int
        BY <4>2
      <4> QED
        BY <1>4, <2>1, <4>1, <4>2, <4>3, <4>4
    <3> QED
      BY <2>1, <3>1 DEF Patient
  <2> QED
    BY <1>1, <1>2, <2>3, <2>4 DEF RunHolds, Quiet
<1>5. run' = [run EXCEPT ![r] = IF run[r].wait > Interval
                                THEN [run[r] EXCEPT !.at = "sleep", !.wait = run[r].wait - Interval, !.to = {}, !.since = 0]
                                ELSE NoRun]
  BY DEF Pending, TimeLeft
<1>6. run'[r] = IF run[r].wait > Interval
                THEN [run[r] EXCEPT !.at = "sleep", !.wait = run[r].wait - Interval, !.to = {}, !.since = 0]
                ELSE NoRun
  BY <1>5, Zenon DEF IInv, TypeOK
<1> QED
  BY <1>3, <1>4, <1>6

LEMMA LeavesKeeps ==
  ASSUME IInv, NEW r \in Runs, Fail(r) \/ Exit(r)
  PROVE  Quiet(r)
<1>1. NothingNew /\ UNCHANGED now
  BY DEF Fail, Exit, NothingNew, cacheVars
<1>2. \A p \in Runs \ {r} : Kept(p)
  BY DEF Fail, Exit, IInv, TypeOK, Kept
<1>3. run'[r] = NoRun
  BY DEF Fail, Exit, IInv, TypeOK
<1> QED
  BY <1>1, <1>2, <1>3, NoRunHolds DEF Quiet

LEMMA AgainKeeps ==
  ASSUME IInv, NEW r \in Runs, Again(r)
  PROVE  Quiet(r)
<1>1. NothingNew /\ UNCHANGED now
  BY DEF Again, NothingNew, cacheVars
<1>2. \A p \in Runs \ {r} : Kept(p)
  BY DEF Again, IInv, TypeOK, Kept
<1>3. PICK c \in run[r].cmd : run' = [run EXCEPT ![r].at = c.first]
  BY DEF Again
<1>4. c.first \in {"check", "ask"}
  BY CommandsAssumption DEF IInv, TypeOK, Run
<1>5. /\ run[r].at = "sleep" /\ run'[r].at = c.first
      /\ run'[r].cmd = run[r].cmd /\ run'[r].wait = run[r].wait /\ run'[r].asked = run[r].asked
      /\ run'[r].got = run[r].got /\ run'[r].raced = run[r].raced
  BY <1>3 DEF Again, IInv, TypeOK, Run
<1>6. RunHolds(r)'
  BY <1>1, <1>4, <1>5, MovesOn
<1> QED
  BY <1>1, <1>2, <1>6 DEF Quiet

----------------------------------------------------------------------------
(* The one step that puts a token in a file *)

\* A run that is about to read the file finds a token that is good for longer than it may stand there, and
\* knows of the race.
LEMMA WriteKeeps ==
  ASSUME IInv, NEW r \in Runs, Write(r)
  PROVE  /\ \A f \in Files : FileHolds(f)'
         /\ \A p \in Runs : RunHolds(p)'
<1>1. UNCHANGED now /\ run[r].at = "write" /\ run[r] \in Run /\ RunHolds(r)
  BY DEF Write, IInv, TypeOK
<1>2. PICK c \in run[r].cmd :
        IF run[r].linked
        THEN /\ tokens' = [tokens EXCEPT ![CacheFile(c)] = run[r].got]
             /\ run' = [p \in Runs |->
                          IF p = r THEN [run[r] EXCEPT !.at = "print", !.since = 0, !.linked = FALSE]
                          ELSE IF run[p].at = "cat" /\ CacheFile(c) \in FilesOf(p) THEN [run[p] EXCEPT !.raced = TRUE]
                          ELSE run[p]]
        ELSE run' = [run EXCEPT ![r].at = "print", ![r].since = 0] /\ UNCHANGED tokens
  BY DEF Write, FilesOf
<1>3. /\ run'[r].at = "print"
      /\ run'[r].cmd = run[r].cmd /\ run'[r].wait = run[r].wait /\ run'[r].asked = run[r].asked
      /\ run'[r].got = run[r].got /\ run'[r].raced = run[r].raced
  <2>1. run'[r] = IF run[r].linked THEN [run[r] EXCEPT !.at = "print", !.since = 0, !.linked = FALSE]
                  ELSE [run[r] EXCEPT !.at = "print", !.since = 0]
    BY <1>2 DEF IInv, TypeOK
  <2> QED
    BY <1>1, <2>1 DEF Run
<1>4. RunHolds(r)'
  BY <1>1, <1>3, MovesOn
<1>5. \A p \in Runs \ {r} : Kept(p)
  <2>1. \A p \in Runs \ {r} : run'[p] = run[p] \/ run'[p] = [run[p] EXCEPT !.raced = TRUE]
    BY <1>2 DEF IInv, TypeOK
  <2>2. ASSUME NEW p \in Runs, run'[p] = [run[p] EXCEPT !.raced = TRUE] PROVE Kept(p)
    <3>1. run[p] \in Run
      BY DEF IInv, TypeOK
    <3>2. run'[p].raced
      BY <2>2, <3>1 DEF Run
    <3> QED
      BY <2>2, <3>1, <3>2 DEF Kept, Run
  <2> QED
    BY <2>1, <2>2 DEF Kept
<1>6. CASE ~ run[r].linked
  BY <1>1, <1>2, <1>4, <1>5, <1>6, OneRun DEF NothingNew
<1>7. CASE run[r].linked
  <2> DEFINE file == CacheFile(c)
  <2>1. file = <<c.server, c.kind>> /\ file \in Files
    BY FilesAreFiles DEF IInv
  <2>2. /\ tokens'[file] = run[r].got
        /\ \A f \in Files \ {file} : tokens'[f] = tokens[f]
    BY <1>2, <1>7, <2>1 DEF IInv, TypeOK
  <2>3. \A f \in Files : FileHolds(f)'
    <3>1. FileHolds(file)'
      BY <1>1, <2>1, <2>2 DEF FileHolds, RunHolds, OneEach, Mine, Timely
    <3>2. \A f \in Files \ {file} : FileHolds(f)'
      BY <2>2 DEF IInv, FileHolds
    <3> QED
      BY <3>1, <3>2
  <2>4. ASSUME NEW p \in Runs \ {r} PROVE RunHolds(p)'
    <3>1. RunHolds(p) /\ Kept(p) /\ run[p] \in Run /\ FilesOf(p) \subseteq Files
      BY <1>5, FilesAreFiles DEF IInv, TypeOK
    <3>2. OneEach(p)' /\ Mine(p)' /\ Patient(p)'
      BY <3>1 DEF RunHolds, Kept, OneEach, Mine, Patient
    <3>3. FilesOf(p)' = FilesOf(p)
      BY <3>1 DEF FilesOf, CacheFile, Kept
    <3>4. Timely(p)'
      <4>1. ASSUME run[p].at \in {"scope", "cat"}, NEW t \in run[r].got
            PROVE  t.good > run[p].since + Pause
        <5>1. /\ run[p].since <= now /\ now <= run[r].since + Pause
              /\ t.good > run[r].since + Pause + Pause
          BY <1>1, <3>1, <4>1 DEF RunHolds, Timely
        <5>2. t \in Token /\ run[p].since \in Nat /\ run[r].since \in Nat /\ now \in Nat
          BY <1>1, <3>1 DEF Run, IInv, TypeOK
        <5>3. t.good \in Nat
          BY <5>2 DEF Token
        <5> QED
          BY <5>1, <5>2, <5>3, TimesAssumption
      <4>2. run[p].at \in {"scope", "cat"} =>
              \A f \in FilesOf(p) : \A t \in tokens'[f] : t.good > run[p].since + Pause \/ t.short
        <5>1. ASSUME run[p].at \in {"scope", "cat"}, NEW f \in FilesOf(p), NEW t \in tokens'[f]
              PROVE  t.good > run[p].since + Pause \/ t.short
          <6>1. CASE f = file
            BY <2>2, <4>1, <5>1, <6>1
          <6>2. CASE f # file
            <7>1. t \in tokens[f]
              BY <2>2, <3>1, <5>1, <6>2
            <7> QED
              BY <3>1, <5>1, <7>1 DEF RunHolds, Timely
          <6> QED
            BY <6>1, <6>2
        <5> QED
          BY <5>1
      <4> QED
        BY <1>1, <3>1, <3>3, <4>2 DEF RunHolds, Kept, Timely
    <3>5. InScope(p)'
      <4>1. CASE run[p].at = "cat" /\ file \in FilesOf(p)
        <5>1. run'[p].raced
          BY <1>2, <1>7, <3>1, <4>1 DEF Run
        <5> QED
          BY <5>1 DEF InScope
      <4>2. CASE ~ (run[p].at = "cat" /\ file \in FilesOf(p))
        <5>1. run[p].at = "cat" => \A d \in run[p].cmd : tokens'[CacheFile(d)] = tokens[CacheFile(d)]
          BY <2>2, <3>1, <4>2 DEF FilesOf
        <5> QED
          BY <3>1, <5>1 DEF RunHolds, Kept, InScope, CacheFile
      <4> QED
        BY <4>1, <4>2
    <3> QED
      BY <3>2, <3>4, <3>5 DEF RunHolds
  <2> QED
    BY <1>4, <2>3, <2>4
<1> QED
  BY <1>6, <1>7

----------------------------------------------------------------------------
(* Types, one part of the state at a time *)

CacheTypeOK ==
  /\ there \in SUBSET Files
  /\ tokens \in [Files -> SUBSET Token]
  /\ \A f \in Files : \A t \in tokens[f] : f \in there /\ \E l \in Lifetimes \cup {Default} : t.until <= MaxTime + l

AskTypeOK ==
  /\ standing \in [Servers -> Standing]
  /\ reg \in [Hosts -> SUBSET Registration]
  /\ ask \in [Requests -> [at : {"idle", "submit", "poll"}, server : SUBSET Servers,
                           id : SUBSET Servers, was : Standing]]

RestTypeOK == now \in 0 .. MaxTime /\ sweep \in SUBSET Files /\ starts \in 0 .. MaxStarts

LEMMA TypeParts == TypeOK <=> CacheTypeOK /\ AskTypeOK /\ RestTypeOK /\ run \in [Runs -> Run]
  BY DEF TypeOK, CacheTypeOK, AskTypeOK, RestTypeOK

LEMMA TypePartsNext == TypeOK' <=> CacheTypeOK' /\ AskTypeOK' /\ RestTypeOK' /\ run' \in [Runs -> Run]
  BY DEF TypeOK, CacheTypeOK, AskTypeOK, RestTypeOK

LEMMA NoRunIsRun == NoRun \in Run /\ \A c \in Commands : [NoRun EXCEPT !.at = c.first, !.cmd = {c}, !.wait = c.wait] \in Run
<1>1. NoRun \in Run
  BY DEF NoRun, Run
<1>2. ASSUME NEW c \in Commands PROVE [NoRun EXCEPT !.at = c.first, !.cmd = {c}, !.wait = c.wait] \in Run
  <2>1. c.first \in {"check", "ask"} /\ c.wait \in Nat
    BY CommandsAssumption
  <2> QED
    BY <2>1 DEF NoRun, Run
<1> QED
  BY <1>1, <1>2

LEMMA RemoveType == ASSUME CacheTypeOK, NEW f \in Files, Remove(f) PROVE CacheTypeOK'
<1>1. there' \in SUBSET Files /\ tokens' \in [Files -> SUBSET Token]
  BY DEF CacheTypeOK, Remove
<1>2. tokens'[f] = {} /\ \A g \in Files \ {f} : tokens'[g] = tokens[g] /\ (g \in there => g \in there')
  BY DEF CacheTypeOK, Remove
<1>3. ASSUME NEW g \in Files, NEW t \in tokens'[g]
      PROVE  g \in there' /\ \E l \in Lifetimes \cup {Default} : t.until <= MaxTime + l
  <2>1. g # f /\ t \in tokens[g]
    BY <1>2, <1>3
  <2> QED
    BY <1>2, <2>1 DEF CacheTypeOK
<1> QED
  BY <1>1, <1>3 DEF CacheTypeOK

LEMMA UnlinkedType == ASSUME run \in [Runs -> Run], NEW f PROVE Unlinked(f) \in [Runs -> Run]
<1>1. \A r \in Runs : [run[r] EXCEPT !.linked = FALSE] \in Run
  BY DEF Run
<1> QED
  BY <1>1 DEF Unlinked

\* The steps of a run, and what they do to the cache.
LEMMA StepTypes ==
  ASSUME IInv, NEW r \in Runs, Step(r)
  PROVE  run' \in [Runs -> Run] /\ CacheTypeOK'
<1>1. /\ run \in [Runs -> Run] /\ run[r] \in Run /\ CacheTypeOK /\ now \in Nat /\ FilesOf(r) \subseteq Files
      /\ \A c \in run[r].cmd : c \in Commands /\ CacheFile(c) \in Files
  BY TypeParts, FilesAreFiles, TimesAssumption DEF IInv, RestTypeOK, Run
<1>2. ASSUME UNCHANGED cacheVars PROVE CacheTypeOK'
  BY <1>1, <1>2 DEF CacheTypeOK, cacheVars
<1>3. CASE CheckExpiry(r)
  <2>1. \A at \in {"ask", "clean", "cat", "scope"} :
          [run[r] EXCEPT !.at = at] \in Run /\ [run[r] EXCEPT !.at = at, !.since = now] \in Run
    BY <1>1 DEF Run
  <2>2. \E at \in {"ask", "clean", "cat", "scope"} :
          run' = [run EXCEPT ![r].at = at] \/ run' = [run EXCEPT ![r].at = at, ![r].since = now]
    BY <1>3 DEF CheckExpiry
  <2> QED
    BY <1>1, <1>2, <1>3, <2>1, <2>2 DEF CheckExpiry
<1>4. CASE Clean(r)
  <2>1. PICK f \in FilesOf(r) : Remove(f) /\ run' = [Unlinked(f) EXCEPT ![r].at = "ask"]
    BY <1>4 DEF Clean
  <2>2. CacheTypeOK' /\ Unlinked(f) \in [Runs -> Run]
    BY <1>1, <2>1, RemoveType, UnlinkedType
  <2>3. [Unlinked(f)[r] EXCEPT !.at = "ask"] \in Run
    BY <2>2 DEF Run
  <2> QED
    BY <2>1, <2>2, <2>3
<1>5. CASE CheckScope(r)
  <2>1. [run[r] EXCEPT !.at = "cat"] \in Run /\ [run[r] EXCEPT !.at = "ask", !.since = 0] \in Run
    BY <1>1 DEF Run
  <2> QED
    BY <1>1, <1>2, <1>5, <2>1 DEF CheckScope
<1>6. CASE Cat(r)
  <2>1. PICK f \in FilesOf(r) :
          run' = IF tokens[f] = {} THEN [run EXCEPT ![r].at = "ask", ![r].since = 0]
                 ELSE [run EXCEPT ![r].at = "done", ![r].since = 0, ![r].got = tokens[f]]
    BY <1>6 DEF Cat
  <2>2. tokens[f] \in SUBSET Token
    BY <1>1, <2>1 DEF CacheTypeOK
  <2>3. /\ [run[r] EXCEPT !.at = "ask", !.since = 0] \in Run
        /\ [run[r] EXCEPT !.at = "done", !.since = 0, !.got = tokens[f]] \in Run
    BY <1>1, <2>2 DEF Run
  <2> QED
    BY <1>1, <1>2, <1>6, <2>1, <2>3 DEF Cat
<1>7. CASE Ask(r)
  <2>1. PICK c \in run[r].cmd :
          LET endpoint == UNION {g.endpoint : g \in reg[RegFile(c.server)]}
          IN  run' = [run EXCEPT ![r].at = "curl", ![r].since = now, ![r].asked = @ + 1,
                                 ![r].to = IF endpoint = {} THEN {c.server} ELSE endpoint]
    BY <1>7 DEF Ask
  <2> DEFINE endpoint == UNION {g.endpoint : g \in reg[RegFile(c.server)]}
  <2>2. c.server \in Servers
    BY <1>1, CommandsAssumption
  <2>3. endpoint \in SUBSET Servers
    BY <2>2 DEF IInv, TypeOK, RegFile, Hosts, Registration
  <2> DEFINE target == IF endpoint = {} THEN {c.server} ELSE endpoint
  <2>4. run' = [run EXCEPT ![r] = [run[r] EXCEPT !.at = "curl", !.since = now, !.asked = run[r].asked + 1,
                                                 !.to = target]]
    BY <1>1, <2>1
  <2>5. target \in SUBSET Servers /\ run[r].asked + 1 \in Nat
    BY <1>1, <2>2, <2>3 DEF Run
  <2> HIDE DEF endpoint, target
  <2>6. [run[r] EXCEPT !.at = "curl", !.since = now, !.asked = run[r].asked + 1, !.to = target] \in Run
    BY <1>1, <2>5 DEF Run
  <2> QED
    BY <1>1, <1>2, <1>7, <2>4, <2>6 DEF Ask
<1>8. CASE Answer(r)
  <2>1. PICK c \in run[r].cmd, issued \in run[r].since .. now, lifetime \in Lifetimes :
          /\ run[r].to = {c.server}
          /\ standing[c.server] = "active"
          /\ Emptied(CacheFile(c))
          /\ run' = [run EXCEPT ![r].at = "save", ![r].since = now, ![r].to = {},
                       ![r].got = {[server |-> c.server, kind |-> c.kind, scope |-> c.scope,
                                    good |-> issued + lifetime,
                                    until |-> Until(IF c.server \in Stating THEN lifetime ELSE Default),
                                    short |-> c.server \notin Stating /\ lifetime < Default]}]
    BY <1>8, Zenon DEF Answer
  <2>7. there' = there \cup {CacheFile(c)} /\ tokens' = [tokens EXCEPT ![CacheFile(c)] = {}]
    BY <2>1 DEF Emptied
  <2> DEFINE token == [server |-> c.server, kind |-> c.kind, scope |-> c.scope,
                       good |-> issued + lifetime,
                       until |-> Until(IF c.server \in Stating THEN lifetime ELSE Default),
                       short |-> c.server \notin Stating /\ lifetime < Default]
  <2>2. token \in Token
    <3>1. c \in [server : Servers, kind : Kinds, scope : Scopes \cup {All}, first : {"check", "ask"}, wait : Nat]
      BY <1>1, CommandsAssumption
    <3>2. issued \in Nat /\ lifetime \in Nat /\ Default \in Nat
      BY <1>1, TimesAssumption DEF Run
    <3> QED
      BY <1>1, <3>1, <3>2 DEF Token, Until
  <2>3. run' = [run EXCEPT ![r].at = "save", ![r].since = now, ![r].to = {}, ![r].got = {token}]
    BY <2>1
  <2> HIDE DEF token
  <2>4. [run[r] EXCEPT !.at = "save", !.since = now, !.to = {}, !.got = {token}] \in Run
    BY <1>1, <2>2 DEF Run
  <2>5. run' \in [Runs -> Run]
    BY <1>1, <2>3, <2>4
  <2>6. CacheTypeOK'
    <3>1. there' \in SUBSET Files /\ tokens' \in [Files -> SUBSET Token]
      BY <1>1, <2>7 DEF CacheTypeOK
    <3>2. ASSUME NEW f \in Files, NEW t \in tokens'[f]
          PROVE  f \in there' /\ \E l \in Lifetimes \cup {Default} : t.until <= MaxTime + l
      BY <1>1, <2>7, <3>2 DEF CacheTypeOK
    <3> QED
      BY <3>1, <3>2 DEF CacheTypeOK
  <2> QED
    BY <2>5, <2>6
<1>9. CASE Write(r)
  <2>1. PICK f \in FilesOf(r) :
          IF run[r].linked
          THEN /\ tokens' = [tokens EXCEPT ![f] = run[r].got]
               /\ run' = [p \in Runs |->
                            IF p = r THEN [run[r] EXCEPT !.at = "print", !.since = 0, !.linked = FALSE]
                            ELSE IF run[p].at = "cat" /\ f \in FilesOf(p) THEN [run[p] EXCEPT !.raced = TRUE]
                            ELSE run[p]]
          ELSE run' = [run EXCEPT ![r].at = "print", ![r].since = 0] /\ UNCHANGED tokens
    BY <1>9 DEF Write
  <2>2. /\ \A p \in Runs : run[p] \in Run /\ [run[p] EXCEPT !.raced = TRUE] \in Run
        /\ [run[r] EXCEPT !.at = "print", !.since = 0, !.linked = FALSE] \in Run
        /\ [run[r] EXCEPT !.at = "print", !.since = 0] \in Run
    BY <1>1 DEF Run
  <2>3. run' \in [Runs -> Run]
    BY <1>1, <2>1, <2>2
  <2>4. there' = there
    BY <1>9 DEF Write
  <2>5. CASE ~ run[r].linked
    BY <1>2, <2>1, <2>3, <2>4, <2>5 DEF cacheVars
  <2>6. CASE run[r].linked
    <3>1. f \in there /\ \A t \in run[r].got : \E l \in Lifetimes \cup {Default} : t.until <= MaxTime + l
      BY <1>9, <2>1, <2>6 DEF Write, IInv, Linked, RunHolds, Timely
    <3>2. tokens' \in [Files -> SUBSET Token]
      BY <1>1, <2>1, <2>6 DEF CacheTypeOK, Run
    <3>3. tokens'[f] = run[r].got /\ \A g \in Files \ {f} : tokens'[g] = tokens[g]
      BY <1>1, <2>1, <2>6 DEF CacheTypeOK
    <3> QED
      BY <1>1, <2>3, <2>4, <3>1, <3>2, <3>3 DEF CacheTypeOK
  <2> QED
    BY <2>5, <2>6
<1>10. CASE Show(r)
  <2>1. [run[r] EXCEPT !.at = "done"] \in Run
    BY <1>1 DEF Run
  <2> QED
    BY <1>1, <1>2, <1>10, <2>1, NoRunIsRun DEF Show
<1>11. CASE Pending(r)
  <2>1. run[r].wait > Interval => run[r].wait - Interval \in Nat
    BY <1>1, TimesAssumption DEF Run
  <2>2. run[r].wait > Interval =>
          [run[r] EXCEPT !.at = "sleep", !.wait = run[r].wait - Interval, !.to = {}, !.since = 0] \in Run
    BY <1>1, <2>1 DEF Run
  <2>3. run' \in [Runs -> Run]
    BY <1>1, <1>11, <2>2, NoRunIsRun DEF Pending, TimeLeft
  <2> QED
    BY <1>2, <1>11, <2>3 DEF Pending
<1>12. CASE Fail(r) \/ Exit(r)
  BY <1>1, <1>2, <1>12, NoRunIsRun DEF Fail, Exit
<1>13. CASE Again(r)
  <2>1. \A c \in run[r].cmd : [run[r] EXCEPT !.at = c.first] \in Run
    BY <1>1, CommandsAssumption DEF Run
  <2> QED
    BY <1>1, <1>2, <1>13, <2>1 DEF Again
<1>14. CASE Reopen(r)
  <2>1. PICK f \in FilesOf(r) : there' = there \cup {f} /\ tokens' = [tokens EXCEPT ![f] = {}]
    BY <1>14 DEF Reopen, Emptied
  <2>2. [run[r] EXCEPT !.at = "write", !.linked = TRUE] \in Run
    BY <1>1 DEF Run
  <2>3. run' \in [Runs -> Run]
    BY <1>1, <1>14, <2>2 DEF Reopen
  <2>4. there' \in SUBSET Files /\ tokens' \in [Files -> SUBSET Token]
    BY <1>1, <2>1 DEF CacheTypeOK
  <2>5. ASSUME NEW g \in Files, NEW t \in tokens'[g]
        PROVE  g \in there' /\ \E l \in Lifetimes \cup {Default} : t.until <= MaxTime + l
    BY <1>1, <2>1, <2>5 DEF CacheTypeOK
  <2> QED
    BY <2>3, <2>4, <2>5 DEF CacheTypeOK
<1> QED
  BY <1>3, <1>4, <1>5, <1>6, <1>7, <1>8, <1>9, <1>10, <1>11, <1>12, <1>13, <1>14 DEF Step

\* The steps of registrations, and the servers' own.
Registering ==
  \/ \E s \in Servers : Approve(s) \/ Register(s)
  \/ \E q \in Requests :
       \/ \E s \in Servers : RequestStart(q, s) \/ PollStart(q, s)
       \/ Submitted(q) \/ SubmitLost(q) \/ Polled(q) \/ AskFails(q)

LEMMA StandingIsTyped == {"none", "pending", "active"} = Standing
  BY DEF Standing

LEMMA RegisteringTypes ==
  ASSUME IInv, Registering
  PROVE  AskTypeOK'
<1>1. AskTypeOK
  BY TypeParts DEF IInv
<1>2. NoAsk \in [at : {"idle", "submit", "poll"}, server : SUBSET Servers, id : SUBSET Servers, was : Standing]
  BY DEF NoAsk, Standing
<1>3. ASSUME NEW s \in Servers, Approve(s) PROVE AskTypeOK'
  BY <1>1, <1>3 DEF Approve, AskTypeOK, Standing
<1>4. ASSUME NEW s \in Servers, Register(s) PROVE AskTypeOK'
  <2>1. [server |-> s, status |-> "active", endpoint |-> {}] \in Registration
    BY DEF Registration, Standing
  <2>2. reg' \in [Hosts -> SUBSET Registration]
    <3> DEFINE g == [server |-> s, status |-> "active", endpoint |-> {}]
    <3>1. reg \in [Hosts -> SUBSET Registration]
      BY <1>1 DEF AskTypeOK
    <3>2. reg' \in {reg, [reg EXCEPT ![RegFile(s)] = {g}]}
      BY <1>4 DEF Register
    <3>3. {g} \in SUBSET Registration
      BY <2>1
    <3> HIDE DEF g
    <3> QED
      BY <3>1, <3>2, <3>3
  <2> QED
    BY <1>1, <1>4, <2>2, StandingIsTyped DEF Register, AskTypeOK
<1>5. ASSUME NEW q \in Requests, NEW s \in Servers, RequestStart(q, s) PROVE AskTypeOK'
  <2>1. [NoAsk EXCEPT !.at = "submit", !.server = {s}]
          \in [at : {"idle", "submit", "poll"}, server : SUBSET Servers, id : SUBSET Servers, was : Standing]
    BY DEF NoAsk, Standing
  <2> QED
    BY <1>1, <1>5, <2>1 DEF RequestStart, AskTypeOK
<1>6. ASSUME NEW q \in Requests, NEW s \in Servers, PollStart(q, s) PROVE AskTypeOK'
  <2>1. PICK g \in reg[RegFile(s)] :
          ask' = [ask EXCEPT ![q] = [at |-> "poll", server |-> {s}, id |-> {g.server}, was |-> standing[g.server]]]
    BY <1>6 DEF PollStart
  <2>2. g.server \in Servers
    BY <1>1 DEF AskTypeOK, Registration, RegFile, Hosts
  <2>3. [at |-> "poll", server |-> {s}, id |-> {g.server}, was |-> standing[g.server]]
          \in [at : {"idle", "submit", "poll"}, server : SUBSET Servers, id : SUBSET Servers, was : Standing]
    BY <1>1, <2>2 DEF AskTypeOK
  <2> QED
    BY <1>1, <1>6, <2>1, <2>3 DEF PollStart, AskTypeOK
<1>7. ASSUME NEW q \in Requests, Submitted(q) PROVE AskTypeOK'
  <2>1. PICK s \in ask[q].server, endpoint \in {{}} \cup {{e} : e \in ask[q].server} :
          /\ standing' = [standing EXCEPT ![s] = "pending"]
          /\ reg' = [reg EXCEPT ![RegFile(s)] = {[server |-> s, status |-> "pending", endpoint |-> endpoint]}]
    BY <1>7 DEF Submitted
  <2>2. ask[q].server \subseteq Servers
    BY <1>1 DEF AskTypeOK
  <2>3. [server |-> s, status |-> "pending", endpoint |-> endpoint] \in Registration
    BY <2>2 DEF Registration, Standing
  <2>4. reg' \in [Hosts -> SUBSET Registration]
    BY <1>1, <2>1, <2>3 DEF AskTypeOK
  <2> QED
    BY <1>1, <1>2, <1>7, <2>1, <2>4, StandingIsTyped DEF Submitted, AskTypeOK
<1>8. ASSUME NEW q \in Requests, SubmitLost(q) PROVE AskTypeOK'
  BY <1>1, <1>2, <1>8, StandingIsTyped DEF SubmitLost, AskTypeOK
<1>9. ASSUME NEW q \in Requests, Polled(q) PROVE AskTypeOK'
  <2>1. PICK s \in ask[q].server : \E status \in {ask[q].was, standing[s]}, told \in BOOLEAN :
          reg' = [reg EXCEPT ![RegFile(s)] =
                    {[g EXCEPT !.status = status, !.endpoint = IF told THEN {s} ELSE g.endpoint] :
                       g \in reg[RegFile(s)]}]
    BY <1>9 DEF Polled
  <2>2. PICK status \in {ask[q].was, standing[s]}, told \in BOOLEAN :
          reg' = [reg EXCEPT ![RegFile(s)] =
                    {[g EXCEPT !.status = status, !.endpoint = IF told THEN {s} ELSE g.endpoint] :
                       g \in reg[RegFile(s)]}]
    BY <2>1
  <2>3. s \in Servers /\ status \in Standing /\ reg[RegFile(s)] \in SUBSET Registration
    BY <1>1 DEF AskTypeOK, RegFile, Hosts
  <2>4. \A g \in reg[RegFile(s)] :
          [g EXCEPT !.status = status, !.endpoint = IF told THEN {s} ELSE g.endpoint] \in Registration
    BY <2>3 DEF Registration
  <2> DEFINE after == {[g EXCEPT !.status = status, !.endpoint = IF told THEN {s} ELSE g.endpoint] :
                         g \in reg[RegFile(s)]}
  <2>5. reg' \in [Hosts -> SUBSET Registration]
    <3>1. reg' = [reg EXCEPT ![RegFile(s)] = after]
      BY <2>2
    <3>2. after \subseteq Registration
      BY <2>4
    <3> HIDE DEF after
    <3> QED
      BY <1>1, <3>1, <3>2 DEF AskTypeOK
  <2> QED
    BY <1>1, <1>2, <1>9, <2>5 DEF Polled, AskTypeOK
<1>10. ASSUME NEW q \in Requests, AskFails(q) PROVE AskTypeOK'
  BY <1>1, <1>2, <1>10 DEF AskFails, AskTypeOK
<1> QED
  BY <1>3, <1>4, <1>5, <1>6, <1>7, <1>8, <1>9, <1>10 DEF Registering

\* Whatever else happens leaves the runs and the files alone, but for the clock and the removals of aid-status.
LEMMA NextCases ==
  ASSUME Next
  PROVE  \/ Tick
         \/ Registering
         \/ \E r \in Runs, c \in Commands : Start(r, c)
         \/ \E r \in Runs : Step(r)
         \/ \E f \in Files : StatusLook(f)
         \/ StatusRemove
  BY Zenon DEF Next, Registering

LEMMA RegisteringElse ==
  ASSUME Registering
  PROVE  UNCHANGED <<now, cacheVars, run, sweep>> /\ (UNCHANGED starts \/ Begin)
  BY DEF Registering, Approve, Register, RequestStart, PollStart, Submitted, SubmitLost, Polled, AskFails

LEMMA StepElse ==
  ASSUME NEW r \in Runs, Step(r)
  PROVE  UNCHANGED <<now, askVars, sweep, starts>>
  BY DEF Step, CheckExpiry, Clean, CheckScope, Cat, Ask, Answer, Reopen, Write, Show, Pending, Fail, Again, Exit

LEMMA StatusRemoveIs ==
  ASSUME IInv, StatusRemove
  PROVE  /\ NothingNew /\ UNCHANGED <<now, askVars, starts>> /\ sweep' = {}
         /\ CacheTypeOK' /\ run' \in [Runs -> Run]
         /\ \A p \in Runs : Kept(p)
<1>1. PICK f \in sweep : Remove(f) /\ run' = Unlinked(f)
  BY DEF StatusRemove
<1>2. f \in Files /\ CacheTypeOK /\ run \in [Runs -> Run]
  BY TypeParts DEF IInv, RestTypeOK
<1>3. NothingNew /\ CacheTypeOK' /\ run' \in [Runs -> Run]
  BY <1>1, <1>2, RemoveIsQuiet, RemoveType, UnlinkedType
<1>4. \A p \in Runs : Kept(p)
  <2>1. \A p \in Runs : run'[p] = run[p] \/ run'[p] = [run[p] EXCEPT !.linked = FALSE]
    BY <1>1 DEF Unlinked
  <2>2. ASSUME NEW p \in Runs, run'[p] = [run[p] EXCEPT !.linked = FALSE] PROVE Kept(p)
    BY <1>2, <2>2 DEF Kept, Run
  <2> QED
    BY <2>1, <2>2 DEF Kept
<1> QED
  BY <1>3, <1>4 DEF StatusRemove

LEMMA TypeStep == ASSUME IInv, [Next]_vars PROVE TypeOK'
<1>1. CacheTypeOK /\ AskTypeOK /\ RestTypeOK /\ run \in [Runs -> Run]
  BY TypeParts DEF IInv
<1>2. MaxTime \in Nat /\ MaxStarts \in Nat
  BY TimesAssumption
<1>3. Begin => starts' \in 0 .. MaxStarts
  BY <1>1, <1>2 DEF Begin, RestTypeOK
<1>4. CASE UNCHANGED vars
  BY <1>1, <1>4, TypePartsNext DEF vars, askVars, cacheVars, CacheTypeOK, AskTypeOK, RestTypeOK
<1>5. CASE Tick
  <2>1. now' \in 0 .. MaxTime
    BY <1>1, <1>2, <1>5 DEF Tick, RestTypeOK
  <2> QED
    BY <1>1, <1>5, <2>1, TypePartsNext DEF Tick, askVars, cacheVars, CacheTypeOK, AskTypeOK, RestTypeOK
<1>6. CASE Registering
  <2>1. CacheTypeOK' /\ RestTypeOK' /\ run' \in [Runs -> Run]
    BY <1>1, <1>3, <1>6, RegisteringElse DEF cacheVars, CacheTypeOK, RestTypeOK
  <2> QED
    BY <1>6, <2>1, RegisteringTypes, TypePartsNext
<1>7. ASSUME NEW r \in Runs, NEW c \in Commands, Start(r, c) PROVE TypeOK'
  <2>1. run' \in [Runs -> Run]
    BY <1>1, <1>7, NoRunIsRun DEF Start
  <2> QED
    BY <1>1, <1>3, <1>7, <2>1, TypePartsNext DEF Start, askVars, cacheVars, CacheTypeOK, AskTypeOK, RestTypeOK
<1>8. ASSUME NEW r \in Runs, Step(r) PROVE TypeOK'
  BY <1>1, <1>8, StepTypes, StepElse, TypePartsNext DEF askVars, AskTypeOK, RestTypeOK
<1>9. ASSUME NEW f \in Files, StatusLook(f) PROVE TypeOK'
  BY <1>1, <1>3, <1>9, TypePartsNext DEF StatusLook, askVars, cacheVars, CacheTypeOK, AskTypeOK, RestTypeOK
<1>10. CASE StatusRemove
  BY <1>1, <1>10, StatusRemoveIs, TypePartsNext DEF askVars, AskTypeOK, RestTypeOK
<1> QED
  BY <1>4, <1>5, <1>6, <1>7, <1>8, <1>9, <1>10, NextCases

----------------------------------------------------------------------------
(* The invariant is kept *)

\* Time does not pass the deadlines.
LEMMA TickKeeps ==
  ASSUME IInv, Tick, NEW p \in Runs
  PROVE  RunHolds(p)'
<1>1. now' = now + 1 /\ UNCHANGED <<tokens, run>> /\ RunHolds(p) /\ run[p] \in Run /\ now \in Nat
  BY TimesAssumption DEF Tick, cacheVars, IInv, TypeOK
<1>2. FilesOf(p)' = FilesOf(p)
  BY <1>1 DEF FilesOf, CacheFile
<1>3. OneEach(p)' /\ Mine(p)' /\ Patient(p)' /\ InScope(p)'
  BY <1>1 DEF RunHolds, OneEach, Mine, Patient, InScope, CacheFile
<1>4. Timely(p)'
  <2>1. run[p].since \in Nat /\ Timeout \in Nat /\ Pause \in Nat
    BY <1>1, TimesAssumption DEF Run
  <2>2. /\ run[p].at = "curl" => now < run[p].since + Timeout
        /\ run[p].at \in {"scope", "cat", "save", "write"} => now < run[p].since + Pause
    BY DEF Tick
  <2>3. /\ run[p].at \in {"curl", "scope", "cat", "save", "write"} => run[p].since <= now'
        /\ run[p].at = "curl" => now' <= run[p].since + Timeout
        /\ run[p].at \in {"scope", "cat", "save", "write"} => now' <= run[p].since + Pause
    BY <1>1, <2>1, <2>2 DEF RunHolds, Timely
  <2> QED
    BY <1>1, <1>2, <2>3 DEF RunHolds, Timely
<1> QED
  BY <1>3, <1>4 DEF RunHolds

LEMMA RunsAndFilesKept ==
  ASSUME IInv, [Next]_vars
  PROVE  /\ \A f \in Files : FileHolds(f)'
         /\ \A p \in Runs : RunHolds(p)'
<1> DEFINE Goal == (\A f \in Files : FileHolds(f)') /\ (\A p \in Runs : RunHolds(p)')
<1>1. ASSUME UNCHANGED <<now, cacheVars, run>> PROVE Goal
  <2>1. NothingNew /\ \A p \in Runs : Kept(p)
    BY <1>1 DEF NothingNew, cacheVars, Kept
  <2> QED
    BY <1>1, <2>1, FilesKept, KeptHolds DEF IInv
<1>2. ASSUME NEW r \in Runs, Quiet(r) PROVE Goal
  BY <1>2, OneRun DEF Quiet
<1>3. CASE UNCHANGED vars
  BY <1>1, <1>3 DEF vars
<1>4. CASE Tick
  <2>1. \A f \in Files : FileHolds(f)'
    BY <1>4 DEF Tick, cacheVars, IInv, FileHolds
  <2> QED
    BY <1>4, <2>1, TickKeeps
<1>5. CASE Registering
  BY <1>1, <1>5, RegisteringElse
<1>6. ASSUME NEW r \in Runs, NEW c \in Commands, Start(r, c) PROVE Goal
  BY <1>2, <1>6, StartKeeps
<1>7. ASSUME NEW r \in Runs, Step(r) PROVE Goal
  <2>1. CASE Write(r)
    BY <2>1, WriteKeeps
  <2>2. CASE CheckExpiry(r) \/ Clean(r) \/ CheckScope(r) \/ Cat(r) \/ Ask(r) \/ Answer(r)
    BY <1>2, <2>2, CheckExpiryKeeps, CleanKeeps, CheckScopeKeeps, CatKeeps, AskKeeps, AnswerKeeps
  <2>3. CASE Reopen(r) \/ Show(r) \/ Pending(r) \/ Fail(r) \/ Again(r) \/ Exit(r)
    BY <1>2, <2>3, ReopenKeeps, ShowKeeps, PendingKeeps, LeavesKeeps, AgainKeeps
  <2> QED
    BY <1>7, <2>1, <2>2, <2>3 DEF Step
<1>8. ASSUME NEW f \in Files, StatusLook(f) PROVE Goal
  BY <1>1, <1>8 DEF StatusLook
<1>9. CASE StatusRemove
  BY <1>9, StatusRemoveIs, FilesKept, KeptHolds DEF IInv
<1> QED
  BY <1>3, <1>4, <1>5, <1>6, <1>7, <1>8, <1>9, NextCases

\* A run writes on only to a file that is still there.
LEMMA LinkedKept ==
  ASSUME IInv, [Next]_vars, NEW p \in Runs
  PROVE  Linked(p)'
<1>1. Linked(p) /\ run \in [Runs -> Run] /\ there \in SUBSET Files /\ run[p] \in Run
  BY DEF IInv, TypeOK
<1>2. ASSUME run'[p] = run[p], there \subseteq there' PROVE Linked(p)'
  BY <1>1, <1>2 DEF Linked, FilesOf, CacheFile
<1>3. ASSUME NEW f, Remove(f), run'[p] = Unlinked(f)[p] PROVE Linked(p)'
  <2>1. CASE run[p].at = "write" /\ f \in FilesOf(p)
    <3>1. ~ run'[p].linked
      BY <1>1, <1>3, <2>1 DEF Unlinked, Run
    <3> QED
      BY <3>1 DEF Linked
  <2>2. CASE ~ (run[p].at = "write" /\ f \in FilesOf(p))
    <3>1. run'[p] = run[p]
      BY <1>3, <2>2 DEF Unlinked
    <3> QED
      BY <1>1, <1>3, <2>2, <3>1 DEF Linked, FilesOf, CacheFile, Remove
  <2> QED
    BY <2>1, <2>2
<1>4. CASE UNCHANGED vars
  BY <1>2, <1>4 DEF vars, cacheVars
<1>5. CASE Tick \/ \E f \in Files : StatusLook(f)
  BY <1>2, <1>5 DEF Tick, StatusLook, cacheVars
<1>6. CASE Registering
  BY <1>2, <1>6, RegisteringElse DEF cacheVars
<1>7. ASSUME NEW r \in Runs, NEW c \in Commands, Start(r, c) PROVE Linked(p)'
  <2>1. CASE p = r
    <3>1. run'[p].at \in {"check", "ask"}
      <4>1. run'[p] = [NoRun EXCEPT !.at = c.first, !.cmd = {c}, !.wait = c.wait]
        BY <1>1, <1>7, <2>1 DEF Start
      <4> QED
        BY <4>1, CommandsAssumption DEF NoRun
    <3> QED
      BY <3>1 DEF Linked
  <2>2. CASE p # r
    BY <1>1, <1>2, <1>7, <2>2 DEF Start, cacheVars
  <2> QED
    BY <2>1, <2>2
<1>8. CASE StatusRemove
  BY <1>3, <1>8 DEF StatusRemove
<1>9. ASSUME NEW r \in Runs, Clean(r) PROVE Linked(p)'
  <2>1. PICK f \in FilesOf(r) : Remove(f) /\ run' = [Unlinked(f) EXCEPT ![r].at = "ask"]
    BY <1>9 DEF Clean
  <2>2. Unlinked(f) \in [Runs -> Run]
    BY <1>1, UnlinkedType
  <2>3. CASE p = r
    BY <2>1, <2>2, <2>3 DEF Linked, Run
  <2>4. CASE p # r
    BY <1>3, <2>1, <2>2, <2>4
  <2> QED
    BY <2>3, <2>4
<1>10. ASSUME NEW r \in Runs, Answer(r) \/ Reopen(r) PROVE Linked(p)'
  <2>1. there \subseteq there'
    BY <1>10 DEF Answer, Reopen, Emptied
  <2>2. CASE p = r
    <3>1. CASE Answer(r)
      <4>1. run'[r].at = "save"
        BY <1>1, <2>2, <3>1 DEF Answer, Run
      <4> QED
        BY <2>2, <4>1 DEF Linked
    <3>2. CASE Reopen(r)
      <4>1. PICK f \in FilesOf(r) : there' = there \cup {f} /\ run'[r].cmd = run[r].cmd
        BY <1>1, <2>2, <3>2 DEF Reopen, Emptied, Run
      <4>2. \A g \in FilesOf(r) : g = f
        BY <4>1 DEF IInv, RunHolds, OneEach, FilesOf
      <4> QED
        BY <2>2, <4>1, <4>2 DEF Linked, FilesOf, CacheFile
    <3> QED
      BY <1>10, <3>1, <3>2
  <2>3. CASE p # r
    <3>1. run'[p] = run[p]
      BY <1>1, <1>10, <2>3 DEF Answer, Reopen
    <3> QED
      BY <1>2, <2>1, <3>1
  <2> QED
    BY <2>2, <2>3
<1>11. ASSUME NEW r \in Runs, Write(r) PROVE Linked(p)'
  <2>1. there' = there
    BY <1>11 DEF Write
  <2>2. CASE p = r
    <3>1. run'[r] = [run[r] EXCEPT !.at = "print", !.since = 0, !.linked = FALSE]
             \/ run'[r] = [run[r] EXCEPT !.at = "print", !.since = 0]
      BY <1>1, <1>11 DEF Write
    <3>2. run[r] \in Run
      BY <1>1
    <3>3. run'[r].at = "print"
      BY <3>1, <3>2 DEF Run
    <3> QED
      BY <2>2, <3>3 DEF Linked
  <2>3. CASE p # r
    <3>1. run'[p] = run[p] \/ (run[p].at = "cat" /\ run'[p] = [run[p] EXCEPT !.raced = TRUE])
      BY <1>1, <1>11, <2>3 DEF Write
    <3> QED
      BY <1>1, <1>2, <2>1, <3>1 DEF Linked, Run
  <2> QED
    BY <2>2, <2>3
<1>12. ASSUME NEW r \in Runs, CheckExpiry(r) \/ CheckScope(r) \/ Cat(r) \/ Ask(r) PROVE Linked(p)'
  <2>1. there' = there /\ \A q \in Runs \ {r} : run'[q] = run[q]
    BY <1>1, <1>12 DEF CheckExpiry, CheckScope, Cat, Ask, cacheVars
  <2>2. run'[r].at # "write"
    <3>1. run[r] \in Run
      BY <1>1
    <3>2. CASE CheckExpiry(r)
      BY <1>1, <3>1, <3>2 DEF CheckExpiry, Run
    <3>3. CASE CheckScope(r)
      BY <1>1, <3>1, <3>3 DEF CheckScope, Run
    <3>4. CASE Cat(r)
      BY <1>1, <3>1, <3>4 DEF Cat, Run
    <3>5. CASE Ask(r)
      BY <1>1, <3>1, <3>5 DEF Ask, Run
    <3> QED
      BY <1>12, <3>2, <3>3, <3>4, <3>5
  <2> QED
    BY <1>2, <2>1, <2>2 DEF Linked
<1>13. ASSUME NEW r \in Runs, Show(r) \/ Pending(r) \/ Fail(r) \/ Again(r) \/ Exit(r) PROVE Linked(p)'
  <2>1. there' = there /\ \A q \in Runs \ {r} : run'[q] = run[q]
    BY <1>1, <1>13 DEF Show, Pending, Fail, Again, Exit, cacheVars
  <2>2. NoRun.at = "idle"
    BY DEF NoRun
  <2>3. \A c \in run[r].cmd : c.first \in {"check", "ask"}
    BY <1>1, CommandsAssumption DEF Run
  <2>4. run[r] \in Run
    BY <1>1
  <2>5. CASE Show(r)
    <3>1. run'[r] = NoRun \/ run'[r] = [run[r] EXCEPT !.at = "done"]
      BY <1>1, <2>5 DEF Show
    <3> QED
      BY <1>2, <2>1, <2>2, <2>4, <3>1 DEF Linked, Run
  <2>6. CASE Pending(r)
    <3>1. run'[r] = NoRun
             \/ run'[r] = [run[r] EXCEPT !.at = "sleep", !.wait = TimeLeft(run[r].wait), !.to = {}, !.since = 0]
      BY <1>1, <2>6 DEF Pending
    <3> QED
      BY <1>2, <2>1, <2>2, <2>4, <3>1 DEF Linked, Run
  <2>7. CASE Fail(r) \/ Exit(r)
    <3>1. run'[r] = NoRun
      BY <1>1, <2>7 DEF Fail, Exit
    <3> QED
      BY <1>2, <2>1, <2>2, <3>1 DEF Linked
  <2>8. CASE Again(r)
    <3>1. run'[r].at \in {"check", "ask"}
      BY <1>1, <2>3, <2>4, <2>8 DEF Again, Run
    <3> QED
      BY <1>2, <2>1, <3>1 DEF Linked
  <2> QED
    BY <1>13, <2>5, <2>6, <2>7, <2>8
<1> QED
  BY <1>4, <1>5, <1>6, <1>7, <1>8, <1>9, <1>10, <1>11, <1>12, <1>13, NextCases DEF Step

----------------------------------------------------------------------------
(* The theorems *)

LEMMA InitHolds == ASSUME Init PROVE IInv
<1>1. MaxTime \in Nat /\ MaxStarts \in Nat
  BY TimesAssumption
<1>2. /\ CacheTypeOK
      /\ standing \in [Servers -> Standing] /\ reg \in [Hosts -> SUBSET Registration]
      /\ RestTypeOK
  BY <1>1 DEF Init, CacheTypeOK, RestTypeOK, Standing
<1>3. NoAsk \in [at : {"idle", "submit", "poll"}, server : SUBSET Servers, id : SUBSET Servers, was : Standing]
  BY DEF NoAsk, Standing
<1>4. TypeOK
  BY <1>2, <1>3, NoRunIsRun, TypeParts DEF Init, AskTypeOK
<1>5. \A f \in Files : FileHolds(f)
  BY DEF Init, FileHolds
<1>6. ASSUME NEW r \in Runs PROVE RunHolds(r) /\ Linked(r)
  <2>1. run[r] = NoRun
    BY DEF Init
  <2> QED
    BY <2>1 DEF NoRun, RunHolds, OneEach, Mine, Timely, InScope, Patient, FilesOf, Linked
<1> QED
  BY <1>4, <1>5, <1>6 DEF IInv

LEMMA StepKeeps == ASSUME IInv, [Next]_vars PROVE IInv'
<1>1. (\A f \in Files : FileHolds(f)') /\ (\A r \in Runs : RunHolds(r)') /\ (\A r \in Runs : Linked(r)')
  BY RunsAndFilesKept, LinkedKept
<1>2. (\A f \in Files : FileHolds(f))' /\ (\A r \in Runs : RunHolds(r))' /\ (\A r \in Runs : Linked(r))'
  <2>1. Files' = Files
    BY DEF Files
  <2> QED
    BY <1>1, <2>1
<1> QED
  BY <1>2, TypeStep DEF IInv

LEMMA Always == Spec => []IInv
  BY InitHolds, StepKeeps, PTL DEF Spec

\* Every variable of the scripts keeps its type; in particular no cache file holds a token unless it exists.
THEOREM TypeCorrect == Spec => []TypeOK
<1>1. IInv => TypeOK
  BY DEF IInv
<1> QED
  BY <1>1, Always, PTL

\* A token that is printed is of the server and of the kind the command asked for.
THEOREM TokensAreForTheirService == Spec => []GivenForItsService
<1>1. IInv => GivenForItsService
  BY DEF IInv, RunHolds, Mine, GivenForItsService
<1> QED
  BY <1>1, Always, PTL

\* A token that is printed from the cache is good, whatever the times are, as long as a request and the
\* pause of a run together are shorter than the buffer and a token lives longer than both; except one whose
\* life the server did not say and aid-token guessed too long.
THEOREM CachedTokensAreGood == Spec => []PrintedTokenIsGood
<1>1. IInv => PrintedTokenIsGood
  <2> SUFFICES ASSUME IInv, NEW r \in Runs, run[r].at = "cat", NEW f \in FilesOf(r), NEW t \in tokens[f]
               PROVE  t.good > now \/ t.short
    BY DEF PrintedTokenIsGood
  <2>1. (t.good > run[r].since + Pause \/ t.short) /\ now <= run[r].since + Pause
    BY DEF IInv, RunHolds, Timely
  <2>2. f \in Files /\ run[r] \in Run /\ tokens[f] \subseteq Token /\ now \in Nat
    BY FilesAreFiles, TimesAssumption DEF IInv, TypeOK
  <2>3. t.good \in Nat /\ run[r].since \in Nat /\ Pause \in Nat
    BY <2>2, TimesAssumption DEF Token, Run
  <2> QED
    BY <2>1, <2>2, <2>3
<1> QED
  BY <1>1, Always, PTL

\* A command that names a scope is given a token of that scope, unless it raced with a run that saved one.
THEOREM ScopesAreKept == Spec => []NamedScopeIsGiven
<1>1. IInv => NamedScopeIsGiven
  BY DEF IInv, RunHolds, InScope, NamedScopeIsGiven
<1> QED
  BY <1>1, Always, PTL

\* A run that waits for approval asks no more often than its --wait allows, and once more.
THEOREM WaitsAreBounded == Spec => []WaitIsBounded
<1>1. IInv => WaitIsBounded
  BY DEF IInv, RunHolds, Patient, WaitIsBounded
<1> QED
  BY <1>1, Always, PTL

----------------------------------------------------------------------------
(* Registration files of hosts *)

LEMMA HostInit == ASSUME Init PROVE HostHolds
  BY DEF Init, HostHolds, NoRun, NoAsk

LEMMA RegFileKept ==
  ASSUME AskTypeOK, HostHolds, NEW s \in Servers, NEW files, reg' = [reg EXCEPT ![RegFile(s)] = files],
         \A g \in files : \A e \in g.endpoint : HostOf[e] = HostOf[s]
  PROVE  \A h \in Hosts : \A g \in reg'[h] : \A e \in g.endpoint : HostOf[e] = h
<1>1. \A h \in Hosts : reg'[h] = IF h = HostOf[s] THEN files ELSE reg[h]
  BY DEF AskTypeOK, RegFile
<1> QED
  BY <1>1 DEF HostHolds

LEMMA RegisteringHosts ==
  ASSUME IInv, HostHolds, Registering
  PROVE  /\ \A h \in Hosts : \A g \in reg'[h] : \A e \in g.endpoint : HostOf[e] = h
         /\ \A q \in Requests : \A s, t \in ask'[q].server : s = t
<1> DEFINE Goal == \A h \in Hosts : \A g \in reg'[h] : \A e \in g.endpoint : HostOf[e] = h
<1>1. AskTypeOK
  BY TypeParts DEF IInv
<1>2. ASSUME UNCHANGED reg PROVE Goal
  BY <1>2 DEF HostHolds
<1>3. ASSUME NEW s \in Servers, Register(s) PROVE Goal
  <2> DEFINE files == {[server |-> s, status |-> "active", endpoint |-> {}]}
  <2>1. \A g \in files : \A e \in g.endpoint : HostOf[e] = HostOf[s]
    OBVIOUS
  <2>2. reg' = reg \/ reg' = [reg EXCEPT ![RegFile(s)] = files]
    BY <1>3 DEF Register
  <2> HIDE DEF files, Goal
  <2>3. CASE reg' = reg
    BY <1>2, <2>3
  <2>4. CASE reg' = [reg EXCEPT ![RegFile(s)] = files]
    BY <1>1, <2>1, <2>4, RegFileKept DEF Goal
  <2> QED
    BY <2>2, <2>3, <2>4
<1>4. ASSUME NEW q \in Requests, Submitted(q) PROVE Goal
  <2>1. PICK s \in ask[q].server, endpoint \in {{}} \cup {{e} : e \in ask[q].server} :
          reg' = [reg EXCEPT ![RegFile(s)] = {[server |-> s, status |-> "pending", endpoint |-> endpoint]}]
    BY <1>4 DEF Submitted
  <2>2. s \in Servers /\ endpoint \subseteq {s}
    BY <1>1 DEF AskTypeOK, HostHolds
  <2> DEFINE files == {[server |-> s, status |-> "pending", endpoint |-> endpoint]}
  <2>3. \A g \in files : \A e \in g.endpoint : HostOf[e] = HostOf[s]
    BY <2>2
  <2>4. reg' = [reg EXCEPT ![RegFile(s)] = files]
    BY <2>1
  <2>5. s \in Servers
    BY <2>2
  <2> HIDE DEF files
  <2> QED
    BY <1>1, <2>3, <2>4, <2>5, RegFileKept
<1>5. ASSUME NEW q \in Requests, Polled(q) PROVE Goal
  <2>1. PICK s \in ask[q].server : \E status \in {ask[q].was, standing[s]}, told \in BOOLEAN :
          reg' = [reg EXCEPT ![RegFile(s)] =
                    {[g EXCEPT !.status = status, !.endpoint = IF told THEN {s} ELSE g.endpoint] :
                       g \in reg[RegFile(s)]}]
    BY <1>5 DEF Polled
  <2>2. PICK status \in {ask[q].was, standing[s]}, told \in BOOLEAN :
          reg' = [reg EXCEPT ![RegFile(s)] =
                    {[g EXCEPT !.status = status, !.endpoint = IF told THEN {s} ELSE g.endpoint] :
                       g \in reg[RegFile(s)]}]
    BY <2>1
  <2>3. s \in Servers /\ RegFile(s) = HostOf[s] /\ HostOf[s] \in Hosts /\ reg[RegFile(s)] \in SUBSET Registration
    BY <1>1 DEF AskTypeOK, RegFile, Hosts
  <2> DEFINE files == {[g EXCEPT !.status = status, !.endpoint = IF told THEN {s} ELSE g.endpoint] :
                         g \in reg[RegFile(s)]}
  <2>4. \A g \in files : \A e \in g.endpoint : HostOf[e] = HostOf[s]
    <3>1. \A old \in reg[RegFile(s)] :
            [old EXCEPT !.status = status, !.endpoint = IF told THEN {s} ELSE old.endpoint].endpoint
              \in {{s}, old.endpoint}
      BY <2>3 DEF Registration
    <3>2. \A old \in reg[RegFile(s)] : \A e \in old.endpoint : HostOf[e] = HostOf[s]
      BY <2>3 DEF HostHolds
    <3>3. ASSUME NEW g \in files, NEW e \in g.endpoint PROVE HostOf[e] = HostOf[s]
      <4>1. PICK old \in reg[RegFile(s)] :
              g = [old EXCEPT !.status = status, !.endpoint = IF told THEN {s} ELSE old.endpoint]
        OBVIOUS
      <4>2. g.endpoint \in {{s}, old.endpoint}
        BY <3>1, <4>1
      <4>3. e = s \/ e \in old.endpoint
        BY <3>3, <4>2
      <4> QED
        BY <3>2, <4>1, <4>3
    <3> QED
      BY <3>3
  <2>5. reg' = [reg EXCEPT ![RegFile(s)] = files]
    BY <2>2
  <2> HIDE DEF files
  <2> QED
    BY <1>1, <2>3, <2>4, <2>5, RegFileKept
<1>6. \/ reg' = reg
      \/ \E s \in Servers : Register(s)
      \/ \E q \in Requests : Submitted(q) \/ Polled(q)
  BY DEF Registering, Approve, RequestStart, PollStart, SubmitLost, AskFails
<1>7. ASSUME NEW q \in Requests PROVE \A s, t \in ask'[q].server : s = t
  <2>1. NoAsk.server = {}
    BY DEF NoAsk
  <2>2. ASSUME NEW p \in Requests, NEW new, ask' = [ask EXCEPT ![p] = new], \A s, t \in new.server : s = t
        PROVE  \A s, t \in ask'[q].server : s = t
    BY <1>1, <2>2 DEF HostHolds, AskTypeOK
  <2>3. ASSUME NEW s \in Servers, Approve(s) \/ Register(s) PROVE ask' = ask
    BY <2>3 DEF Approve, Register
  <2>4. ASSUME NEW p \in Requests, NEW s \in Servers, RequestStart(p, s)
        PROVE  \A u, t \in ask'[q].server : u = t
    <3> DEFINE new == [NoAsk EXCEPT !.at = "submit", !.server = {s}]
    <3>1. new.server = {s}
      BY DEF NoAsk
    <3>2. ask' = [ask EXCEPT ![p] = new]
      BY <2>4 DEF RequestStart
    <3> HIDE DEF new
    <3> QED
      BY <2>2, <3>1, <3>2
  <2>5. ASSUME NEW p \in Requests, NEW s \in Servers, PollStart(p, s)
        PROVE  \A u, t \in ask'[q].server : u = t
    <3>1. PICK g \in reg[RegFile(s)] :
            ask' = [ask EXCEPT ![p] = [at |-> "poll", server |-> {s}, id |-> {g.server}, was |-> standing[g.server]]]
      BY <2>5 DEF PollStart
    <3> DEFINE new == [at |-> "poll", server |-> {s}, id |-> {g.server}, was |-> standing[g.server]]
    <3>2. new.server = {s}
      OBVIOUS
    <3>3. ask' = [ask EXCEPT ![p] = new]
      BY <3>1
    <3> HIDE DEF new
    <3> QED
      BY <2>2, <3>2, <3>3
  <2>6. ASSUME NEW p \in Requests, Submitted(p) \/ SubmitLost(p) \/ Polled(p) \/ AskFails(p)
        PROVE  ask' = [ask EXCEPT ![p] = NoAsk]
    BY <2>6 DEF Submitted, SubmitLost, Polled, AskFails
  <2>7. ASSUME ask' = ask PROVE \A s, t \in ask'[q].server : s = t
    BY <2>7 DEF HostHolds
  <2>8. ASSUME NEW p \in Requests, Submitted(p) \/ SubmitLost(p) \/ Polled(p) \/ AskFails(p)
        PROVE  \A s, t \in ask'[q].server : s = t
    BY <2>1, <2>2, <2>6, <2>8
  <2> QED
    BY <2>3, <2>4, <2>5, <2>7, <2>8 DEF Registering
<1> HIDE DEF Goal
<1>8. Goal
  BY <1>2, <1>3, <1>4, <1>5, <1>6
<1> QED
  BY <1>7, <1>8 DEF Goal

\* A request goes to the server of the command, or to the endpoint in the registration file of its host.
LEMMA AskHosts ==
  ASSUME IInv, HostHolds, NEW r \in Runs, Ask(r)
  PROVE  \A c \in run'[r].cmd : run'[r].to # {} /\ \A e \in run'[r].to : HostOf[e] = HostOf[c.server]
<1>1. PICK c \in run[r].cmd :
        LET endpoint == UNION {g.endpoint : g \in reg[RegFile(c.server)]}
        IN  run' = [run EXCEPT ![r].at = "curl", ![r].since = now, ![r].asked = @ + 1,
                               ![r].to = IF endpoint = {} THEN {c.server} ELSE endpoint]
  BY DEF Ask
<1> DEFINE endpoint == UNION {g.endpoint : g \in reg[RegFile(c.server)]}
<1>2. c.server \in Servers /\ (\A d \in run[r].cmd : d = c)
  BY CommandsAssumption DEF IInv, TypeOK, Run, RunHolds, OneEach
<1>3. \A e \in endpoint : HostOf[e] = HostOf[c.server]
  BY <1>2 DEF HostHolds, RegFile, Hosts
<1>4. run'[r].cmd = run[r].cmd /\ run'[r].to = IF endpoint = {} THEN {c.server} ELSE endpoint
  BY <1>1 DEF IInv, TypeOK, Run
<1> HIDE DEF endpoint
<1> QED
  BY <1>2, <1>3, <1>4

LEMMA HostStep == ASSUME IInv, HostHolds, [Next]_vars PROVE HostHolds'
<1> DEFINE Files1 == \A h \in Hosts : \A g \in reg'[h] : \A e \in g.endpoint : HostOf[e] = h
           Asks   == \A q \in Requests : \A s, t \in ask'[q].server : s = t
           Runs1  == \A r \in Runs : run'[r].at = "curl" =>
                       \A c \in run'[r].cmd : run'[r].to # {} /\ \A e \in run'[r].to : HostOf[e] = HostOf[c.server]
<1>1. HostHolds' <=> Files1 /\ Asks /\ Runs1
  BY DEF HostHolds, Hosts
<1>2. ASSUME UNCHANGED askVars PROVE Files1 /\ Asks
  BY <1>2 DEF HostHolds, askVars
<1>3. ASSUME \A p \in Runs : Kept(p) PROVE Runs1
  BY <1>3 DEF HostHolds, Kept
<1>4. ASSUME NEW r \in Runs, Quiet(r) \/ \A p \in Runs \ {r} : Kept(p), run'[r].at # "curl" PROVE Runs1
  BY <1>4 DEF Quiet, HostHolds, Kept
<1>5. ASSUME UNCHANGED run PROVE Runs1
  BY <1>5 DEF HostHolds
<1> HIDE DEF Files1, Asks, Runs1
<1>6. CASE UNCHANGED vars
  BY <1>1, <1>2, <1>5, <1>6 DEF vars
<1>7. CASE Tick \/ \E f \in Files : StatusLook(f)
  BY <1>1, <1>2, <1>5, <1>7 DEF Tick, StatusLook
<1>8. CASE Registering
  <2>1. Files1 /\ Asks
    BY <1>8, RegisteringHosts DEF Files1, Asks
  <2> QED
    BY <1>1, <1>5, <1>8, <2>1, RegisteringElse
<1>9. ASSUME NEW r \in Runs, NEW c \in Commands, Start(r, c) PROVE HostHolds'
  <2>1. run'[r].at \in {"check", "ask"}
    <3>1. run'[r] = [NoRun EXCEPT !.at = c.first, !.cmd = {c}, !.wait = c.wait]
      BY <1>9 DEF Start, IInv, TypeOK
    <3> QED
      BY <3>1, CommandsAssumption DEF NoRun
  <2>2. UNCHANGED askVars
    BY <1>9 DEF Start
  <2> QED
    BY <1>1, <1>2, <1>4, <1>9, <2>1, <2>2, StartKeeps
<1>10. CASE StatusRemove
  BY <1>1, <1>2, <1>3, <1>10, StatusRemoveIs
<1>11. ASSUME NEW r \in Runs, Step(r) PROVE HostHolds'
  <2>1. Files1 /\ Asks
    BY <1>2, <1>11, StepElse
  <2>2. run \in [Runs -> Run] /\ run[r] \in Run
    BY DEF IInv, TypeOK
  <2>3. CASE Ask(r)
    <3>1. \A p \in Runs \ {r} : run'[p] = run[p]
      BY <2>2, <2>3 DEF Ask
    <3> QED
      BY <1>1, <2>1, <2>3, <3>1, AskHosts DEF Runs1, HostHolds
  <2>4. ASSUME run'[r].at # "curl", \A p \in Runs \ {r} : Kept(p) PROVE HostHolds'
    BY <1>1, <1>4, <2>1, <2>4
  <2>5. CASE CheckExpiry(r)
    <3>1. run'[r].at # "curl"
      BY <2>2, <2>5 DEF CheckExpiry, Run
    <3> QED
      BY <2>4, <2>5, <3>1, CheckExpiryKeeps DEF Quiet
  <2>6. CASE Clean(r)
    <3>1. PICK f \in FilesOf(r) : run' = [Unlinked(f) EXCEPT ![r].at = "ask"]
      BY <2>6 DEF Clean
    <3>2. run'[r].at # "curl"
      BY <2>2, <3>1, UnlinkedType DEF Run
    <3> QED
      BY <2>4, <2>6, <3>2, CleanKeeps DEF Quiet
  <2>7. CASE CheckScope(r)
    <3>1. run'[r].at # "curl"
      BY <2>2, <2>7 DEF CheckScope, Run
    <3> QED
      BY <2>4, <2>7, <3>1, CheckScopeKeeps DEF Quiet
  <2>8. CASE Cat(r)
    <3>1. run'[r].at # "curl"
      BY <2>2, <2>8 DEF Cat, Run
    <3> QED
      BY <2>4, <2>8, <3>1, CatKeeps DEF Quiet
  <2>9. CASE Answer(r) \/ Reopen(r)
    <3>1. run'[r].at # "curl"
      BY <2>2, <2>9 DEF Answer, Reopen, Run
    <3> QED
      BY <2>4, <2>9, <3>1, AnswerKeeps, ReopenKeeps DEF Quiet
  <2>10. CASE Show(r)
    <3>1. run'[r].at # "curl"
      BY <2>2, <2>10 DEF Show, Run, NoRun
    <3> QED
      BY <2>4, <2>10, <3>1, ShowKeeps DEF Quiet
  <2>11. CASE Pending(r)
    <3>1. run'[r] = NoRun
             \/ run'[r] = [run[r] EXCEPT !.at = "sleep", !.wait = TimeLeft(run[r].wait), !.to = {}, !.since = 0]
      BY <2>2, <2>11 DEF Pending
    <3>2. NoRun.at # "curl"
      BY DEF NoRun
    <3>3. \A wait : [run[r] EXCEPT !.at = "sleep", !.wait = wait, !.to = {}, !.since = 0].at = "sleep"
      BY <2>2 DEF Run
    <3>4. run'[r].at # "curl"
      BY <3>1, <3>2, <3>3
    <3> QED
      BY <2>4, <2>11, <3>4, PendingKeeps DEF Quiet
  <2>12. CASE Fail(r) \/ Exit(r)
    <3>1. run'[r].at # "curl"
      BY <2>2, <2>12 DEF Fail, Exit, NoRun
    <3> QED
      BY <2>4, <2>12, <3>1, LeavesKeeps DEF Quiet
  <2>13. CASE Again(r)
    <3>1. \A c \in run[r].cmd : c.first \in {"check", "ask"}
      BY <2>2, CommandsAssumption DEF Run
    <3>2. run'[r].at # "curl"
      BY <2>2, <2>13, <3>1 DEF Again, Run
    <3> QED
      BY <2>4, <2>13, <3>2, AgainKeeps DEF Quiet
  <2>14. CASE Write(r)
    <3>1. \A p \in Runs : run[p].at = "cat" => [run[p] EXCEPT !.raced = TRUE].at # "curl"
      BY DEF IInv, TypeOK, Run
    <3>2. ASSUME NEW p \in Runs, p = r \/ run'[p] # run[p] PROVE run'[p].at # "curl"
      <4>1. CASE p = r
        <5>1. run'[r] = [run[r] EXCEPT !.at = "print", !.since = 0, !.linked = FALSE]
                 \/ run'[r] = [run[r] EXCEPT !.at = "print", !.since = 0]
          BY <2>2, <2>14 DEF Write
        <5> QED
          BY <2>2, <4>1, <5>1 DEF Run
      <4>2. CASE p # r
        <5>1. run[p].at = "cat" /\ run'[p] = [run[p] EXCEPT !.raced = TRUE]
          BY <2>2, <2>14, <3>2, <4>2 DEF Write
        <5> QED
          BY <3>1, <5>1
      <4> QED
        BY <4>1, <4>2
    <3>3. Runs1
      BY <3>2 DEF Runs1, HostHolds
    <3> QED
      BY <1>1, <2>1, <3>3
  <2> QED
    BY <1>11, <2>3, <2>5, <2>6, <2>7, <2>8, <2>9, <2>10, <2>11, <2>12, <2>13, <2>14 DEF Step
<1> QED
  BY <1>6, <1>7, <1>8, <1>9, <1>10, <1>11, NextCases

\* When every server has a host of its own, a command asks the server it names and no other, whatever
\* servers are registered with, refused or lost, and in whatever order.
THEOREM ServersAreAsked ==
  ASSUME \A s, t \in Servers : HostOf[s] = HostOf[t] => s = t
  PROVE  Spec => []AsksItsServer
<1>1. IInv /\ HostHolds => AsksItsServer
  <2> SUFFICES ASSUME IInv, HostHolds, NEW r \in Runs, run[r].at = "curl", NEW c \in run[r].cmd
               PROVE  run[r].to = {c.server}
    BY DEF AsksItsServer
  <2>1. run[r].to # {} /\ run[r].to \subseteq Servers /\ c.server \in Servers
    BY CommandsAssumption DEF HostHolds, IInv, TypeOK, Run
  <2>2. \A e \in run[r].to : HostOf[e] = HostOf[c.server]
    BY DEF HostHolds
  <2> QED
    BY <2>1, <2>2
<1>2. Spec => []HostHolds
  BY HostInit, HostStep, Always, PTL DEF Spec
<1> QED
  BY <1>1, <1>2, Always, PTL
=============================================================================
