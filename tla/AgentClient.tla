---------------------------- MODULE AgentClient -----------------------------
(***************************************************************************)
(* The command line scripts of an agent: aid-token with its token cache,   *)
(* aid-request and aid-register with the registration files, and           *)
(* aid-status, which removes expired tokens.  Every run is a process of    *)
(* its own; they share the files of the agent's directory and take no      *)
(* lock, so anything may happen between two accesses to a file.            *)
(*                                                                         *)
(* A server is what --auth names: one tenant of an authorization server.   *)
(* What the token is for (its credential type and --audience) is one kind; *)
(* a run without --scope asks for All.  The servers are external: they     *)
(* know the agent or not, and answer, refuse or are not reached.           *)
(***************************************************************************)
EXTENDS Integers

CONSTANTS
  Servers,    \* auth URLs
  HostOf,     \* the host part of each
  Kinds,      \* what a token may be for: credential type and audience
  Scopes,     \* what --scope may say
  All,        \* no --scope: all registered scopes
  Commands,   \* the aid-token command lines that are run
  Runs,       \* aid-token processes that may be running
  Requests,   \* aid-request processes that may be running
  Buffer,     \* how long before its expiry a cached token is no longer used
  Timeout,    \* curl --max-time
  Pause,      \* bound: how long a run may take from its first access to a cache file to its last
  Lifetimes,  \* how long a token may live
  Stating,    \* the servers whose answers say it (expires_in)
  Default,    \* how long a token of another one is taken to live
  Interval,   \* how long --wait sleeps between two requests, at the least
  MaxStarts,  \* bound: how many scripts are run
  MaxTime     \* bound: last tick of the clock

\* With a token that lives no longer than a request may take, no cache can help.
ASSUME TimesAssumption ==
  /\ Buffer \in Nat /\ Timeout \in Nat /\ Pause \in Nat
  /\ MaxStarts \in Nat /\ MaxTime \in Nat
  /\ Interval \in Nat \ {0}
  /\ Timeout + Pause <= Buffer
  /\ Lifetimes \subseteq Nat /\ Default \in Nat /\ Stating \subseteq Servers
  /\ \A l \in Lifetimes : l > Timeout + Pause + Pause

ASSUME CommandsAssumption ==
  Commands \subseteq [server : Servers, kind : Kinds, scope : Scopes \cup {All},
                      first : {"check", "ask"}, wait : Nat]

VARIABLES
  now,       \* the clock
  standing,  \* external: what each server knows of the agent
  reg,       \* the registration file of each host, as a set of at most one
  there,     \* the token cache files that exist
  tokens,    \* what each holds: one token, or nothing
  run,       \* the aid-token runs
  ask,       \* the aid-request runs
  sweep,     \* the file aid-status is about to remove
  starts     \* scripts run so far

cacheVars == <<there, tokens>>

askVars == <<standing, reg, ask>>

vars == <<now, askVars, cacheVars, run, sweep, starts>>

----------------------------------------------------------------------------

Hosts == {HostOf[s] : s \in Servers}

Files == Servers \X Kinds

Standing == {"none", "pending", "active"}

Registration == [server : Servers, status : Standing, endpoint : SUBSET Servers]

\* A token: until when it is good, until when it is taken to be, and whether that was guessed too long.
Token == [server : Servers, kind : Kinds, scope : Scopes \cup {All}, good : Nat, until : Nat,
          short : BOOLEAN]

\* A run: its command as a set of one, the --wait it has left, how often it has asked, the server it
\* asks, since when it stands where it does (if that matters), the token it has got, whether the file
\* it writes is still the one in the cache, and whether another run wrote the file it has just checked.
Run == [at : {"idle", "check", "clean", "scope", "cat", "ask", "curl", "save", "write", "print", "sleep",
             "done"},
        cmd : SUBSET Commands, wait : Nat, asked : Nat, to : SUBSET Servers, since : Nat,
        got : SUBSET Token, linked : BOOLEAN, raced : BOOLEAN]

NoRun == [at |-> "idle", cmd |-> {}, wait |-> 0, asked |-> 0, to |-> {}, since |-> 0,
          got |-> {}, linked |-> FALSE, raced |-> FALSE]

NoAsk == [at |-> "idle", server |-> {}, id |-> {}, was |-> "none"]

TypeOK ==
  /\ now \in 0 .. MaxTime
  /\ standing \in [Servers -> Standing]
  /\ reg \in [Hosts -> SUBSET Registration]
  /\ there \in SUBSET Files
  /\ tokens \in [Files -> SUBSET Token]
  /\ \A f \in Files : \A t \in tokens[f] : f \in there /\ 
       \E l \in Lifetimes \cup {Default} : t.until <= MaxTime + l
  /\ run \in [Runs -> Run]
  /\ ask \in [Requests -> [at : {"idle", "submit", "poll"}, server : SUBSET Servers,
                           id : SUBSET Servers, was : Standing]]
  /\ sweep \in SUBSET Files
  /\ starts \in 0 .. MaxStarts

Init ==
  /\ now = 0
  /\ standing \in [Servers -> {"none", "active"}]
  /\ reg = [h \in Hosts |-> {}]
  /\ there = {}
  /\ tokens = [f \in Files |-> {}]
  /\ run = [r \in Runs |-> NoRun]
  /\ ask = [q \in Requests |-> NoAsk]
  /\ sweep = {}
  /\ starts = 0

\* Time does not pass the deadline of a request, nor does a run stand longer than Pause in
\* check_cache or in save_cache.
Tick ==
  /\ now < MaxTime
  /\ \A r \in Runs :
       /\ run[r].at = "curl" => now < run[r].since + Timeout
       /\ run[r].at \in {"scope", "cat", "save", "write"} => now < run[r].since + Pause
  /\ now' = now + 1
  /\ UNCHANGED <<askVars, cacheVars, run, sweep, starts>>

\* An administrator of the server approves the registration.
Approve(s) ==
  /\ standing[s] = "pending"
  /\ standing' = [standing EXCEPT ![s] = "active"]
  /\ UNCHANGED <<now, reg, ask, cacheVars, run, sweep, starts>>

----------------------------------------------------------------------------
(* The token cache *)

KindIgnored(c) == <<c.server, CHOOSE k \in Kinds : TRUE>>

\* The cache file of a command: auth URL, credential type and audience, but not the scope.
CacheFile(c) == <<c.server, c.kind>>

FilesOf(r) == {CacheFile(c) : c \in run[r].cmd}

\* What the runs make of the removal of a file: one that has it open goes on writing to no file.
Unlinked(f) ==
  [r \in Runs |-> IF run[r].at = "write" /\ f \in FilesOf(r) THEN [run[r] EXCEPT !.linked = FALSE]
                  ELSE run[r]]

Remove(f) ==
  /\ there' = there \ {f}
  /\ tokens' = [tokens EXCEPT ![f] = {}]

Emptied(f) ==
  /\ there' = there \cup {f}
  /\ tokens' = [tokens EXCEPT ![f] = {}]

\* A script is run.
Begin ==
  /\ starts < MaxStarts
  /\ starts' = starts + 1

Start(r, c) ==
  /\ run[r].at = "idle"
  /\ Begin
  /\ run' = [run EXCEPT ![r] = [NoRun EXCEPT !.at = c.first, !.cmd = {c}, !.wait = c.wait]]
  /\ UNCHANGED <<now, askVars, cacheVars, sweep>>

GoodToTheEnd(t) == t.until > now

\* A cached token is used until shortly before it expires.
Usable(t) == t.until > now + Buffer

\* The first read of check_cache.  An empty file counts as expired.
CheckExpiry(r) ==
  /\ run[r].at = "check"
  /\ \E c \in run[r].cmd :
       LET f == CacheFile(c)
       IN  \/ /\ f \notin there
              /\ run' = [run EXCEPT ![r].at = "ask"]
           \/ /\ f \in there
              /\ \A t \in tokens[f] : ~ Usable(t)
              /\ run' = [run EXCEPT ![r].at = "clean"]
           \/ /\ \E t \in tokens[f] : Usable(t)
              /\ run' = [run EXCEPT ![r].at = IF c.scope = All THEN "cat" ELSE "scope",
                                    ![r].since = now]
  /\ UNCHANGED <<now, askVars, cacheVars, sweep, starts>>

\* rm: whatever the file holds by now.
Clean(r) ==
  /\ run[r].at = "clean"
  /\ \E f \in FilesOf(r) : Remove(f) /\ run' = [Unlinked(f) EXCEPT ![r].at = "ask"]
  /\ UNCHANGED <<now, askVars, sweep, starts>>

AnyScope(t, c) == TRUE

SameScope(t, c) == t.scope = c.scope

\* The second read: a named scope has to be the cached one.
CheckScope(r) ==
  /\ run[r].at = "scope"
  /\ \E c \in run[r].cmd :
       run' = IF \E t \in tokens[CacheFile(c)] : SameScope(t, c)
              THEN [run EXCEPT ![r].at = "cat"]
              ELSE [run EXCEPT ![r].at = "ask", ![r].since = 0]
  /\ UNCHANGED <<now, askVars, cacheVars, sweep, starts>>

\* The third: the file is printed as it is now, and nothing is a miss.
Cat(r) ==
  /\ run[r].at = "cat"
  /\ \E f \in FilesOf(r) :
       run' = IF tokens[f] = {} THEN [run EXCEPT ![r].at = "ask", ![r].since = 0]
              ELSE [run EXCEPT ![r].at = "done", ![r].since = 0, ![r].got = tokens[f]]
  /\ UNCHANGED <<now, askVars, cacheVars, sweep, starts>>

----------------------------------------------------------------------------
(* The token request *)

OneFileForAll(s) == CHOOSE h \in Hosts : TRUE

\* The registration file of a server is that of its host.
RegFile(s) == HostOf[s]

\* The token endpoint in the registration file, or else the server itself; the proof is for the server.
Ask(r) ==
  /\ run[r].at = "ask"
  /\ \E c \in run[r].cmd :
       LET endpoint == UNION {g.endpoint : g \in reg[RegFile(c.server)]}
       IN  run' = [run EXCEPT ![r].at = "curl", ![r].since = now, ![r].asked = @ + 1,
                              ![r].to = IF endpoint = {} THEN {c.server} ELSE endpoint]
  /\ UNCHANGED <<now, askVars, cacheVars, sweep, starts>>

UntilTwice(lifetime) == now + lifetime + lifetime

\* expires_at: counted from the answer.
Until(lifetime) == now + lifetime

\* 200: a token issued at some moment of the request, to an agent the server knows and whose proof is for
\* it.  save_cache creates the file, or empties it.
Answer(r) ==
  /\ run[r].at = "curl"
  /\ \E c \in run[r].cmd, issued \in run[r].since .. now, lifetime \in Lifetimes :
       /\ run[r].to = {c.server}
       /\ standing[c.server] = "active"
       /\ Emptied(CacheFile(c))
       /\ run' = [run EXCEPT ![r].at = "save", ![r].since = now, ![r].to = {},
                    ![r].got = {[server |-> c.server, kind |-> c.kind, scope |-> c.scope,
                                 good |-> issued + lifetime,
                                 until |-> Until(IF c.server \in Stating THEN lifetime ELSE Default),
                                 short |-> c.server \notin Stating /\ lifetime < Default]}]
  /\ UNCHANGED <<now, askVars, sweep, starts>>

\* save_cache opens the file again to write it: it creates or empties it once more.
Reopen(r) ==
  /\ run[r].at = "save"
  /\ \E f \in FilesOf(r) : Emptied(f)
  /\ run' = [run EXCEPT ![r].at = "write", ![r].linked = TRUE]
  /\ UNCHANGED <<now, askVars, sweep, starts>>

\* The rest of save_cache writes the answer, in one piece, to the file or to one that is gone.
Write(r) ==
  /\ run[r].at = "write"
  /\ \E f \in FilesOf(r) :
       IF run[r].linked
       THEN /\ tokens' = [tokens EXCEPT ![f] = run[r].got]
            /\ run' = [p \in Runs |->
                         IF p = r THEN [run[r] EXCEPT !.at = "print", !.since = 0, !.linked = FALSE]
                         ELSE IF run[p].at = "cat" /\ f \in FilesOf(p) THEN [run[p] EXCEPT !.raced = TRUE]
                         ELSE run[p]]
       ELSE run' = [run EXCEPT ![r].at = "print", ![r].since = 0] /\ UNCHANGED tokens
  /\ UNCHANGED <<now, askVars, there, sweep, starts>>

\* chmod, then the token is printed; without the file chmod fails, and the run with it.
Show(r) ==
  /\ run[r].at = "print"
  /\ run' = [run EXCEPT ![r] = IF FilesOf(r) \subseteq there THEN [@ EXCEPT !.at = "done"] ELSE NoRun]
  /\ UNCHANGED <<now, askVars, cacheVars, sweep, starts>>

NotCounted(wait) == wait

\* What --wait has left after one interval.
TimeLeft(wait) == wait - Interval

\* authorization_pending: the run sleeps if it has the time, or else exits with status 75.
Pending(r) ==
  /\ run[r].at = "curl"
  /\ \E s \in run[r].to : standing[s] = "pending"
  /\ run' = [run EXCEPT ![r] =
       IF run[r].wait > Interval
       THEN [run[r] EXCEPT !.at = "sleep", !.wait = TimeLeft(run[r].wait), !.to = {}, !.since = 0]
       ELSE NoRun]
  /\ UNCHANGED <<now, askVars, cacheVars, sweep, starts>>

\* Any other refusal, or no answer in time.
Fail(r) ==
  /\ run[r].at = "curl"
  /\ run' = [run EXCEPT ![r] = NoRun]
  /\ UNCHANGED <<now, askVars, cacheVars, sweep, starts>>

\* exec: the same command again with the time left, from the cache on.
Again(r) ==
  /\ run[r].at = "sleep"
  /\ \E c \in run[r].cmd : run' = [run EXCEPT ![r].at = c.first]
  /\ UNCHANGED <<now, askVars, cacheVars, sweep, starts>>

Exit(r) ==
  /\ run[r].at = "done"
  /\ run' = [run EXCEPT ![r] = NoRun]
  /\ UNCHANGED <<now, askVars, cacheVars, sweep, starts>>

----------------------------------------------------------------------------
(* Registrations *)

\* aid-register, with an administrator's token: the answer is saved, without a token endpoint, or lost.
Register(s) ==
  /\ standing[s] = "none"
  /\ Begin
  /\ standing' = [standing EXCEPT ![s] = "active"]
  /\ reg' \in {reg, [reg EXCEPT ![RegFile(s)] =
                      {[server |-> s, status |-> "active", endpoint |-> {}]}]}
  /\ UNCHANGED <<now, ask, cacheVars, run, sweep>>

\* aid-request, if the registration file of the host does not say that there is one already.
RequestStart(q, s) ==
  /\ ask[q].at = "idle"
  /\ Begin
  /\ \A g \in reg[RegFile(s)] : g.status \notin {"active", "pending"}
  /\ ask' = [ask EXCEPT ![q] = [NoAsk EXCEPT !.at = "submit", !.server = {s}]]
  /\ UNCHANGED <<now, standing, reg, cacheVars, run, sweep>>

\* The server has taken the request; its answer is saved, with or without a token endpoint.
Submitted(q) ==
  /\ ask[q].at = "submit"
  /\ \E s \in ask[q].server, endpoint \in {{}} \cup {{e} : e \in ask[q].server} :
       /\ standing[s] = "none"
       /\ standing' = [standing EXCEPT ![s] = "pending"]
       /\ reg' = [reg EXCEPT ![RegFile(s)] = {[server |-> s, status |-> "pending", endpoint |-> endpoint]}]
  /\ ask' = [ask EXCEPT ![q] = NoAsk]
  /\ UNCHANGED <<now, cacheVars, run, sweep, starts>>

\* The server has taken it, and the answer is lost.
SubmitLost(q) ==
  /\ ask[q].at = "submit"
  /\ \E s \in ask[q].server :
       /\ standing[s] = "none"
       /\ standing' = [standing EXCEPT ![s] = "pending"]
  /\ ask' = [ask EXCEPT ![q] = NoAsk]
  /\ UNCHANGED <<now, reg, cacheVars, run, sweep, starts>>

\* aid-request --poll: the id is the one in the registration file of the host.
PollStart(q, s) ==
  /\ ask[q].at = "idle"
  /\ Begin
  /\ \E g \in reg[RegFile(s)] :
       /\ g.status # "active"
       /\ ask' = [ask EXCEPT ![q] = [at |-> "poll", server |-> {s}, id |-> {g.server},
                                     was |-> standing[g.server]]]
  /\ UNCHANGED <<now, standing, reg, cacheVars, run, sweep>>

\* 200: the status at some moment of the poll, and perhaps the endpoint, go into the file of now.
Polled(q) ==
  /\ ask[q].at = "poll"
  /\ ask[q].id = ask[q].server
  /\ \E s \in ask[q].server : \E status \in {ask[q].was, standing[s]}, told \in BOOLEAN :
       reg' = [reg EXCEPT ![RegFile(s)] =
                 {[g EXCEPT !.status = status, !.endpoint = IF told THEN {s} ELSE @] : g \in @}]
  /\ ask' = [ask EXCEPT ![q] = NoAsk]
  /\ UNCHANGED <<now, standing, cacheVars, run, sweep, starts>>

\* Refused (an id the server does not know, a second request), or not reached.
AskFails(q) ==
  /\ ask[q].at # "idle"
  /\ ask' = [ask EXCEPT ![q] = NoAsk]
  /\ UNCHANGED <<now, standing, reg, cacheVars, run, sweep, starts>>

----------------------------------------------------------------------------
(* aid-status *)

StatusLook(f) ==
  /\ sweep = {}
  /\ Begin
  /\ f \in there
  /\ \A t \in tokens[f] : t.until <= now
  /\ sweep' = {f}
  /\ UNCHANGED <<now, askVars, cacheVars, run>>

StatusRemove ==
  /\ \E f \in sweep : Remove(f) /\ run' = Unlinked(f)
  /\ sweep' = {}
  /\ UNCHANGED <<now, askVars, starts>>

----------------------------------------------------------------------------

\* What an aid-token run does once it has been started.
Step(r) ==
  \/ CheckExpiry(r) \/ Clean(r) \/ CheckScope(r) \/ Cat(r)
  \/ Ask(r) \/ Answer(r) \/ Pending(r) \/ Fail(r)
  \/ Reopen(r) \/ Write(r) \/ Show(r)
  \/ Again(r) \/ Exit(r)

Next ==
  \/ Tick
  \/ \E s \in Servers : Approve(s) \/ Register(s)
  \/ \E r \in Runs : (\E c \in Commands : Start(r, c)) \/ Step(r)
  \/ \E q \in Requests :
       \/ \E s \in Servers : RequestStart(q, s) \/ PollStart(q, s)
       \/ Submitted(q) \/ SubmitLost(q) \/ Polled(q) \/ AskFails(q)
  \/ \E f \in Files : StatusLook(f)
  \/ StatusRemove

Spec == Init /\ [][Next]_vars

----------------------------------------------------------------------------
(* Properties *)

\* "A token for one service is never reused for another": whatever runs read, write and remove the files
\* meanwhile, a token that is printed is of the server and of the kind the command asked for.
GivenForItsService ==
  \A r \in Runs : run[r].at = "done" =>
    \A c \in run[r].cmd, t \in run[r].got : t.server = c.server /\ t.kind = c.kind

\* "Automatically reused if still valid (with 60-second buffer)": a token is good when it is printed,
\* although its expiry is counted from the answer, another run may have replaced the file since it was
\* checked, and time passes between the two; unless the server does not say how long its tokens live, and the
\* hour this one is given is too long.
PrintedTokenIsGood ==
  \A r \in Runs : run[r].at = "cat" =>
    \A f \in FilesOf(r) : \A t \in tokens[f] : t.good > now \/ t.short

\* "Scope-aware": a command that names a scope is given a token of that scope, except when another run
\* saved one between its check and its read.
NamedScopeIsGiven ==
  \A r \in Runs : run[r].at = "done" /\ ~ run[r].raced =>
    \A c \in run[r].cmd, t \in run[r].got : c.scope # All => t.scope = c.scope

\* "The token_endpoint is resolved from the registration file (returned by the auth server during
\* registration/approval)": a command asks the server it names and no other.
AsksItsServer ==
  \A r \in Runs : run[r].at = "curl" => \A c \in run[r].cmd : run[r].to = {c.server}

\* "Ask again until it is approved or SECONDS pass": a run that waits for approval, which starts itself
\* over with the time left, asks no more often than the intervals of its --wait allow, and once more.
WaitIsBounded ==
  \A r \in Runs : \A c \in run[r].cmd :
    run[r].asked > 1 => (run[r].asked - 1) * Interval < c.wait
=============================================================================
