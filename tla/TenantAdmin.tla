---------------------------- MODULE TenantAdmin ----------------------------
(***************************************************************************)
(* One tenant's configuration file, the gateway's cached copy of it, and   *)
(* everyone who rewrites it: the admin API of the gateway process          *)
(* (gateway/src/admin.js over gateway/src/tenants.js) and the command line *)
(* tool, a process of its own (gateway/src/cli.js add-agent-credential).   *)
(*                                                                         *)
(* A configuration is reduced to what the kill switches need: the agent    *)
(* keys it lists, and which switches are off.  A switch is an agent key or *)
(* the tenant itself.  Several keys may be spellings of one agent, because *)
(* the code compares agent addresses ignoring case.                        *)
(*                                                                         *)
(* The gateway is one event loop: between two awaits nothing else of the   *)
(* gateway runs, but the command line tool may, between any two system     *)
(* calls.  It matters twice: store.put renames the new file into place and *)
(* only then asks for its mtime, and a disable or an enable reads the file *)
(* before it puts it.                                                      *)
(***************************************************************************)
EXTENDS Naturals

CONSTANTS
  Keys,       \* the agent keys a configuration may list
  AgentOf,    \* the agent each key spells
  Tenant,     \* the tenant's own switch
  AdminOps,   \* admin requests the gateway may have in progress
  CliRuns,    \* add-agent-credential processes that may be running
  MaxWrites   \* bound: how often the file is written; no flip and no command line run starts at the bound

ASSUME SwitchesAssumption == Tenant \notin Keys /\ \A k \in Keys : AgentOf[k] # Tenant
ASSUME WritesAssumption == MaxWrites \in Nat

VARIABLES
  file,       \* the tenant's file: its configuration, and a version that stands for its mtime
  cache,      \* TenantStore.cache: the mtime it was filled for, and the copy it holds
  statting,   \* what a store.put of the gateway has renamed into place and not yet stat'ed
  flip,       \* the disable or enable that has read the configuration and not yet put it, as a set
  op,         \* admin requests waiting for their body or for the vault
  cli,        \* command line runs waiting for the secret on standard input
  vault,      \* the agents that have a stored credential
  silent,     \* history: who the last write turned on unasked, and whose spelling it replaced
  served,     \* history: the version the gateway last served or wrote
  raced       \* history: the tool wrote between the gateway's last rename and its stat

adminVars == <<file, cache, statting, flip, op, cli, vault, silent, served, raced>>

----------------------------------------------------------------------------

Switches == Keys \cup {Tenant}

Agents == {AgentOf[k] : k \in Keys}

Everyone == Agents \cup {Tenant}

\* The switches a list of agent keys gives a configuration.
SwitchesOf(listed) == listed \cup {Tenant}

\* What validateTenantConfig returns: only a listed agent, or the tenant, can be off.
Config == {c \in [listed : SUBSET Keys, off : SUBSET Switches] : c.off \subseteq SwitchesOf(c.listed)}

\* A configuration object, with the version of the file it was written as or read from.
Copy == [ver : Nat, cfg : Config]

\* No file: what store.get answers null for.
NoCopy == [ver |-> 0, cfg |-> [listed |-> {}, off |-> {}]]

\* Whose switches these are: agents, and the tenant.
Owners(switches) == {AgentOf[k] : k \in switches \cap Keys} \cup (switches \cap {Tenant})

\* Who is served: listed, and with none of its spellings off.
On(cfg) == Owners(SwitchesOf(cfg.listed)) \ Owners(cfg.off)

\* Who was off in one configuration and is served in the next, without having been named.
TurnedOn(old, new, asked) == (Owners(old.off) \cap On(new)) \ Owners(asked)

\* Who was off under a spelling the next configuration does not list.
Respelled(old, new) == Owners(old.off \ SwitchesOf(new.listed))

\* A PUT body: the agents it lists, and the switches it names with "disabled" true or false.
Body == {b \in [listed : SUBSET Keys, off : SUBSET Switches, on : SUBSET Switches] :
           /\ b.off \cup b.on \subseteq SwitchesOf(b.listed)
           /\ b.off \cap b.on = {}}

\* The keys of a configuration that spell the same agent as k.
Spellings(cfg, k) == {j \in cfg.listed : AgentOf[j] = AgentOf[k]}

\* A disable or an enable between its read and its put.
Flipping ==
  {f \in [base : Copy, keys : SUBSET Switches, off : BOOLEAN] : f.keys \subseteq SwitchesOf(f.base.cfg.listed)}

Idle == statting = NoCopy /\ flip = {}

TypeOK ==
  /\ file \in Copy
  /\ cache \in [mtime : Nat, copy : Copy]
  /\ statting \in Copy
  /\ flip \in SUBSET Flipping /\ (flip # {} => statting = NoCopy)
  /\ op \in [AdminOps -> [at : {"idle", "put", "credential", "store"}, base : Copy, keys : SUBSET Keys]]
  /\ cli \in [CliRuns -> [at : {"idle", "stdin", "store"}, base : Copy, keys : SUBSET Keys]]
  /\ vault \in SUBSET Agents
  /\ silent \in [base : SUBSET Everyone, file : SUBSET Everyone, respelled : SUBSET Everyone]
  /\ served \in Nat
  /\ raced \in BOOLEAN

NoOp == [at |-> "idle", base |-> NoCopy, keys |-> {}]

\* The gateway starts with no file, or on a data directory that has one.
Init ==
  /\ file \in {NoCopy} \cup [ver : {1}, cfg : Config]
  /\ cache = [mtime |-> 0, copy |-> NoCopy]
  /\ statting = NoCopy
  /\ flip = {}
  /\ op = [i \in AdminOps |-> NoOp]
  /\ cli = [c \in CliRuns |-> NoOp]
  /\ vault = {}
  /\ silent = [base |-> {}, file |-> {}, respelled |-> {}]
  /\ served = 0
  /\ raced = FALSE

----------------------------------------------------------------------------
(* TenantStore *)

NeverReread == IF cache.mtime # 0 THEN cache.copy ELSE file

\* What store.get returns: the cached object while the file's mtime is the one it was cached for.
Got == IF cache.mtime = file.ver THEN cache.copy ELSE file

\* store.get.  The tool may rename between its stat and its read; the cache then holds the newer
\* configuration under the older mtime and the next get reads again, so get is one step here.
Get ==
  /\ Idle
  /\ cache' = [mtime |-> file.ver, copy |-> Got]
  /\ served' = Got.ver

\* atomicWriteFile: the new configuration replaces the file in one rename.  `asked` are the switches the
\* writer was asked by name to turn on.
Rename(base, cfg, asked) ==
  /\ file.ver < MaxWrites
  /\ file' = [ver |-> file.ver + 1, cfg |-> cfg]
  /\ silent' = [base |-> TurnedOn(base.cfg, cfg, asked),
                 file |-> TurnedOn(file.cfg, cfg, asked),
                 respelled |-> Respelled(base.cfg, cfg)]

\* The first half of the gateway's store.put; until the second, its event loop does nothing else.
PutRename(base, cfg, asked) ==
  /\ statting = NoCopy
  /\ Rename(base, cfg, asked)
  /\ statting' = file'
  /\ served' = file'.ver
  /\ raced' = FALSE

KeepOldConfig(copy) == [mtime |-> file.ver, copy |-> cache.copy]

\* The entry store.put leaves in the cache: its own configuration under whatever mtime the file has now.
EntryAfterPut(copy) == [mtime |-> file.ver, copy |-> copy]

PutStat ==
  /\ statting # NoCopy
  /\ cache' = EntryAfterPut(statting)
  /\ statting' = NoCopy
  /\ UNCHANGED <<file, flip, op, cli, vault, silent, served, raced>>

\* A request for the tenant, or an admin GET, reads the configuration.
Read == Get /\ UNCHANGED <<file, statting, flip, op, cli, vault, silent, raced>>

----------------------------------------------------------------------------
(* The admin API *)

\* PUT /_admin/tenants/<t>: `existing` is read here, before the body is awaited.
UpdateStart(i) ==
  /\ op[i].at = "idle"
  /\ Get
  /\ op' = [op EXCEPT ![i] = [at |-> "put", base |-> Got, keys |-> {}]]
  /\ UNCHANGED <<file, statting, flip, cli, vault, silent, raced>>

ForgetAgentSwitches(existing, body) ==
  [listed |-> body.listed,
   off |-> body.off \cup ((existing.off \ body.on) \cap {Tenant})]

\* The configuration a PUT saves: a switch that is off in `existing` and not mentioned stays off.
Updated(existing, body) ==
  [listed |-> body.listed,
   off |-> body.off \cup ((existing.off \ body.on) \cap SwitchesOf(body.listed))]

UpdateFinish(i, body) ==
  /\ Idle
  /\ op[i].at = "put"
  /\ PutRename(op[i].base, Updated(op[i].base.cfg, body), body.on)
  /\ op' = [op EXCEPT ![i] = NoOp]
  /\ UNCHANGED <<cache, flip, cli, vault>>

\* POST .../disable and .../enable, of the tenant or of every listed spelling of an agent: the
\* configuration is read, and nothing else of the gateway runs until it has been put.
Flip(found, off) ==
  /\ found # {}
  /\ file.ver < MaxWrites
  /\ Get
  /\ flip' = {[base |-> Got, keys |-> found, off |-> off]}
  /\ UNCHANGED <<file, statting, op, cli, vault, silent, raced>>

FlipTenant(off) == Got.ver # 0 /\ Flip({Tenant}, off)

EverySpelling(k) == {j \in Keys : AgentOf[j] = AgentOf[k]}

\* The keys POST .../agents/<agent>/disable acts on.
Found(k) == Spellings(Got.cfg, k)

FlipAgent(k, off) == Flip(Found(k), off)

Flipped(cfg, keys, off) == [cfg EXCEPT !.off = IF off THEN @ \cup keys ELSE @ \ keys]

FlipPut ==
  /\ \E f \in flip :
       PutRename(f.base, Flipped(f.base.cfg, f.keys, f.off), IF f.off THEN {} ELSE f.keys)
  /\ flip' = {}
  /\ UNCHANGED <<cache, op, cli, vault>>

\* The configuration does not validate any more, or the write failed before the rename.
FlipFails ==
  /\ flip # {}
  /\ flip' = {}
  /\ UNCHANGED <<file, cache, statting, op, cli, vault, silent, served, raced>>

\* PUT .../agents/<agent>/credential: `cfg` is read here, before the body is awaited.
CredentialStart(i, k) ==
  /\ op[i].at = "idle"
  /\ Got.ver # 0
  /\ Get
  /\ op' = [op EXCEPT ![i] = [at |-> "credential", base |-> Got, keys |-> {k}]]
  /\ UNCHANGED <<file, statting, flip, cli, vault, silent, raced>>

\* The key a credential is filed under: a spelling the snapshot lists, or else the key asked for.
FiledUnder(base, k) ==
  IF Spellings(base.cfg, k) # {} THEN Spellings(base.cfg, k) ELSE {k}

\* The body has arrived and is good: await vault.set.
CredentialStore(i) ==
  /\ Idle
  /\ op[i].at = "credential"
  /\ \E k \in op[i].keys : \E j \in FiledUnder(op[i].base, k) :
       /\ vault' = vault \cup {AgentOf[j]}
       /\ op' = [op EXCEPT ![i] = [at |-> "store", base |-> @.base, keys |-> {j}]]
  /\ UNCHANGED <<file, cache, statting, flip, cli, silent, served, raced>>

\* The configuration that lists the key a credential was filed under; an existing entry keeps its switch.
Listing(cfg, keys) == [cfg EXCEPT !.listed = @ \cup keys]

CredentialPut(i) ==
  /\ Idle
  /\ op[i].at = "store"
  /\ PutRename(op[i].base, Listing(op[i].base.cfg, op[i].keys), {})
  /\ op' = [op EXCEPT ![i] = NoOp]
  /\ UNCHANGED <<cache, flip, cli, vault>>

\* DELETE .../agents/<agent>/credential
CredentialDelete(k) ==
  /\ Spellings(Got.cfg, k) # {}
  /\ Get
  /\ vault' = vault \ {AgentOf[k]}
  /\ UNCHANGED <<file, statting, flip, op, cli, silent, raced>>

\* The body is refused (too large, not JSON, not a valid configuration), the client went away, or the
\* write failed before the rename.
Abandon(i) ==
  /\ Idle
  /\ op[i].at # "idle"
  /\ op' = [op EXCEPT ![i] = NoOp]
  /\ UNCHANGED <<file, cache, statting, flip, cli, vault, silent, served, raced>>

----------------------------------------------------------------------------
(* The command line tool: its own TenantStore, so it reads the file itself *)

CliStart(c, k) ==
  /\ cli[c].at = "idle"
  /\ file.ver \in 1 .. MaxWrites - 1
  /\ cli' = [cli EXCEPT ![c] = [at |-> "stdin", base |-> file, keys |-> {k}]]
  /\ UNCHANGED <<file, cache, statting, flip, op, vault, silent, served, raced>>

CliStore(c) ==
  /\ cli[c].at = "stdin"
  /\ \E k \in cli[c].keys : \E j \in FiledUnder(cli[c].base, k) :
       /\ vault' = vault \cup {AgentOf[j]}
       /\ cli' = [cli EXCEPT ![c] = [at |-> "store", base |-> @.base, keys |-> {j}]]
  /\ UNCHANGED <<file, cache, statting, flip, op, silent, served, raced>>

CliPut(c) ==
  /\ cli[c].at = "store"
  /\ Rename(cli[c].base, Listing(cli[c].base.cfg, cli[c].keys), {})
  /\ cli' = [cli EXCEPT ![c] = NoOp]
  /\ raced' = (statting # NoCopy)
  /\ UNCHANGED <<cache, statting, flip, op, vault, served>>

\* An empty secret, a configuration that does not validate, or the operator gave up.
CliQuit(c) ==
  /\ cli[c].at # "idle"
  /\ cli' = [cli EXCEPT ![c] = NoOp]
  /\ UNCHANGED <<file, cache, statting, flip, op, vault, silent, served, raced>>

----------------------------------------------------------------------------

\* The gateway process dies and starts again: the cache and its requests are gone, the files stay.
Restart ==
  /\ cache' = [mtime |-> 0, copy |-> NoCopy]
  /\ statting' = NoCopy
  /\ flip' = {}
  /\ op' = [i \in AdminOps |-> NoOp]
  /\ raced' = FALSE
  /\ UNCHANGED <<file, cli, vault, silent, served>>

\* What the gateway does for its admin API.  Reads and restarts are apart: a system built on this module
\* takes them jointly with steps of its own.
AdminNext ==
  \/ PutStat
  \/ FlipPut
  \/ FlipFails
  \/ \E i \in AdminOps :
       \/ UpdateStart(i)
       \/ \E body \in Body : UpdateFinish(i, body)
       \/ \E k \in Keys : CredentialStart(i, k)
       \/ CredentialStore(i)
       \/ CredentialPut(i)
       \/ Abandon(i)
  \/ \E off \in BOOLEAN : FlipTenant(off)
  \/ \E k \in Keys, off \in BOOLEAN : FlipAgent(k, off)
  \/ \E k \in Keys : CredentialDelete(k)

CliNext ==
  \E c \in CliRuns :
    \/ \E k \in Keys : CliStart(c, k)
    \/ CliStore(c)
    \/ CliPut(c)
    \/ CliQuit(c)

Next == AdminNext \/ CliNext \/ Read \/ Restart

Spec == Init /\ [][Next]_adminVars

----------------------------------------------------------------------------
(* Properties *)

\* The rule of admin.js 108-110 and of the docs, for every writer: an agent or a tenant that was off in
\* the configuration the writer started from, under whatever spelling, is served after the write only if
\* the writer was asked for it by name, or replaced the spelling it was off under.  The rule asks for
\* more; the code compares the spellings of an update exactly and finds agents ignoring case.
WritersKeepSwitches == silent.base \subseteq silent.respelled

\* "A config update that does not mention a disabled agent or tenant does not switch it back on": no
\* write turns on an agent or the tenant that was off in the file it replaces, unless it was asked to.
SwitchStaysOff == silent.file = {}

\* "The next request is refused; there is no cache to wait for": the gateway never serves a version
\* older than one it has written or served before, whatever the tool writes in between.
ServedNeverGoesBack == Idle => Got.ver >= served

\* "Re-read when the file changes on disk (the CLI may edit it)": what the gateway serves next is the
\* file, except when the tool wrote between the gateway's own rename and its stat.
ServesFileUnlessRaced == Idle /\ ~ raced => Got = file
=============================================================================
