------------------------- MODULE TenantAdminProofs --------------------------
(***************************************************************************)
(* What TenantAdmin promises, for every set of keys and every number of    *)
(* administrators and command line runs.                                   *)
(***************************************************************************)
EXTENDS TenantAdmin, TLAPS

----------------------------------------------------------------------------
(* Configurations *)

LEMMA NoCopyIsCopy == NoCopy \in Copy
  BY DEF NoCopy, Copy, Config, SwitchesOf, Switches

LEMMA NoOpIsOp ==
  /\ NoOp \in [at : {"idle", "put", "credential", "store"}, base : Copy, keys : SUBSET Keys]
  /\ NoOp \in [at : {"idle", "stdin", "store"}, base : Copy, keys : SUBSET Keys]
  BY NoCopyIsCopy DEF NoOp

LEMMA GotIsCopy == ASSUME TypeOK PROVE Got \in Copy
  BY DEF TypeOK, Got

\* Owners are agents and the tenant; the tenant only by its own switch.
LEMMA OwnersAreEveryone ==
  ASSUME NEW switches
  PROVE  /\ Owners(switches) \subseteq Everyone
         /\ Tenant \in Owners(switches) <=> Tenant \in switches
         /\ \A k \in switches \cap Keys : AgentOf[k] \in Owners(switches)
         /\ \A a \in Owners(switches) : a # Tenant => \E k \in switches \cap Keys : a = AgentOf[k]
  BY SwitchesAssumption DEF Owners, Everyone, Agents

\* What a PUT saves is a configuration, and turns on nobody who was off and was not named, except under
\* a new spelling.
LEMMA UpdatedIsConfig ==
  ASSUME NEW existing \in Config, NEW body \in Body
  PROVE  /\ Updated(existing, body) \in Config
         /\ TurnedOn(existing, Updated(existing, body), body.on) \subseteq Respelled(existing, Updated(existing, body))
<1> DEFINE next == Updated(existing, body)
<1>1. body.listed \in SUBSET Keys /\ body.off \cup body.on \subseteq SwitchesOf(body.listed)
  BY DEF Body
<1>2. SwitchesOf(body.listed) \subseteq Switches
  BY <1>1 DEF SwitchesOf, Switches
<1>3. next \in Config
  BY <1>1, <1>2 DEF Updated, Config
<1>4. /\ next.listed = body.listed
      /\ next.off = body.off \cup ((existing.off \ body.on) \cap SwitchesOf(body.listed))
  BY DEF Updated
<1> HIDE DEF next
<1>5. ASSUME NEW a \in TurnedOn(existing, next, body.on) PROVE a \in Respelled(existing, next)
  <2>1. a \in Owners(existing.off) /\ a \notin Owners(next.off) /\ a \notin Owners(body.on)
    BY <1>5 DEF TurnedOn, On
  <2>2. CASE a = Tenant
    <3>1. Tenant \in existing.off /\ Tenant \notin body.on /\ Tenant \notin next.off
      BY <2>1, <2>2, OwnersAreEveryone
    <3> QED
      BY <1>4, <3>1 DEF SwitchesOf
  <2>3. CASE a # Tenant
    <3>1. PICK k \in existing.off \cap Keys : a = AgentOf[k]
      BY <2>1, <2>3, OwnersAreEveryone
    <3>2. k \notin body.on /\ k \notin next.off
      BY <2>1, <3>1, OwnersAreEveryone
    <3>3. k \notin SwitchesOf(next.listed)
      BY <1>4, <3>1, <3>2
    <3>4. k \in (existing.off \ SwitchesOf(next.listed)) \cap Keys
      BY <3>1, <3>3
    <3> QED
      BY <3>1, <3>4, OwnersAreEveryone DEF Respelled
  <2> QED
    BY <2>2, <2>3
<1> QED
  BY <1>3, <1>5 DEF next

\* Listing a key neither adds nor removes a switch that is off.
LEMMA ListingIsConfig ==
  ASSUME NEW cfg \in Config, NEW keys \in SUBSET Keys
  PROVE  /\ Listing(cfg, keys) \in Config
         /\ TurnedOn(cfg, Listing(cfg, keys), {}) = {}
<1>1. Listing(cfg, keys) = [listed |-> cfg.listed \cup keys, off |-> cfg.off]
  BY DEF Listing, Config
<1> QED
  BY <1>1 DEF Config, SwitchesOf, On, TurnedOn

\* Turning switches of a configuration on or off.
LEMMA FlippedIsConfig ==
  ASSUME NEW cfg \in Config, NEW keys \in SUBSET SwitchesOf(cfg.listed), NEW off \in BOOLEAN
  PROVE  /\ Flipped(cfg, keys, off) \in Config
         /\ TurnedOn(cfg, Flipped(cfg, keys, off), IF off THEN {} ELSE keys) = {}
<1> DEFINE next == Flipped(cfg, keys, off)
<1>1. cfg = [listed |-> cfg.listed, off |-> cfg.off]
  BY DEF Config
<1>2. next = [listed |-> cfg.listed, off |-> IF off THEN cfg.off \cup keys ELSE cfg.off \ keys]
  BY <1>1 DEF Flipped
<1>3. cfg.listed \in SUBSET Keys /\ cfg.off \subseteq SwitchesOf(cfg.listed)
  BY DEF Config
<1>4. SwitchesOf(cfg.listed) \subseteq Switches
  BY <1>3 DEF SwitchesOf, Switches
<1>5. next \in Config
  BY <1>2, <1>3, <1>4 DEF Config
<1>6. ASSUME NEW a \in Owners(cfg.off) PROVE a \in Owners(next.off) \/ (~ off /\ a \in Owners(keys))
  BY <1>2 DEF Owners
<1> QED
  BY <1>5, <1>6 DEF TurnedOn, On

----------------------------------------------------------------------------
(* Writing the file *)

\* The writer kept the rule: nobody it turned on unasked, except by respelling.
Keeps(base, cfg, asked) == TurnedOn(base.cfg, cfg, asked) \subseteq Respelled(base.cfg, cfg)

SilentOK ==
  /\ silent \in [base : SUBSET Everyone, file : SUBSET Everyone, respelled : SUBSET Everyone]
  /\ silent.base \subseteq silent.respelled

\* What a rename does to the file, and whom it turns on unasked.
LEMMA RenameEffect ==
  ASSUME TypeOK, NEW base \in Copy, NEW cfg \in Config, NEW asked,
         Rename(base, cfg, asked), Keeps(base, cfg, asked)
  PROVE  /\ file' \in Copy
         /\ file'.ver = file.ver + 1 /\ file'.ver # 0 /\ file' # NoCopy
         /\ SilentOK'
<1>1. file' = [ver |-> file.ver + 1, cfg |-> cfg] /\ file.ver \in Nat
  BY DEF Rename, TypeOK, Copy
<1>2. file' \in Copy /\ file'.ver = file.ver + 1 /\ file'.ver # 0
  BY <1>1 DEF Copy
<1>3. file' # NoCopy
  BY <1>2 DEF NoCopy
<1>4. /\ TurnedOn(base.cfg, cfg, asked) \subseteq Everyone /\ TurnedOn(file.cfg, cfg, asked) \subseteq Everyone
      /\ Respelled(base.cfg, cfg) \subseteq Everyone
  BY OwnersAreEveryone DEF TurnedOn, Respelled
<1>5. silent' = [base |-> TurnedOn(base.cfg, cfg, asked), file |-> TurnedOn(file.cfg, cfg, asked),
                 respelled |-> Respelled(base.cfg, cfg)]
  BY DEF Rename
<1>6. SilentOK'
  BY <1>4, <1>5 DEF SilentOK, Keeps
<1> QED
  BY <1>2, <1>3, <1>6

\* The first half of store.put, whoever called it.
PutsWell ==
  /\ statting = NoCopy
  /\ file' \in Copy /\ file'.ver = file.ver + 1 /\ file' # NoCopy
  /\ SilentOK'
  /\ statting' = file' /\ served' = file'.ver /\ raced' = FALSE

LEMMA PutRenameEffect ==
  ASSUME TypeOK, NEW base \in Copy, NEW cfg \in Config, NEW asked,
         PutRename(base, cfg, asked), Keeps(base, cfg, asked)
  PROVE  PutsWell
  BY RenameEffect DEF PutRename, PutsWell

\* A PUT of a configuration.
LEMMA UpdateFinishPuts ==
  ASSUME TypeOK, NEW i \in AdminOps, NEW body \in Body, UpdateFinish(i, body)
  PROVE  PutsWell
<1>1. op[i].base \in Copy
  BY DEF TypeOK
<1>2. op[i].base.cfg \in Config
  BY <1>1 DEF Copy
<1> QED
  BY <1>1, <1>2, UpdatedIsConfig, PutRenameEffect DEF UpdateFinish, Keeps

\* The end of a credential PUT.
LEMMA CredentialPutPuts ==
  ASSUME TypeOK, NEW i \in AdminOps, CredentialPut(i)
  PROVE  PutsWell
<1>1. op[i].base \in Copy /\ op[i].keys \in SUBSET Keys
  BY DEF TypeOK
<1>2. op[i].base.cfg \in Config
  BY <1>1 DEF Copy
<1> QED
  BY <1>1, <1>2, ListingIsConfig, PutRenameEffect DEF CredentialPut, Keeps

\* The put of a disable or an enable.
LEMMA FlipPutPuts ==
  ASSUME TypeOK, FlipPut
  PROVE  PutsWell
<1>1. PICK f \in flip :
        PutRename(f.base, Flipped(f.base.cfg, f.keys, f.off), IF f.off THEN {} ELSE f.keys)
  BY DEF FlipPut
<1>2. f \in Flipping
  BY DEF TypeOK
<1>3. f.base \in Copy /\ f.off \in BOOLEAN /\ f.keys \in SUBSET SwitchesOf(f.base.cfg.listed)
  BY <1>2 DEF Flipping
<1>4. f.base.cfg \in Config
  BY <1>3 DEF Copy
<1>5. /\ Flipped(f.base.cfg, f.keys, f.off) \in Config
      /\ Keeps(f.base, Flipped(f.base.cfg, f.keys, f.off), IF f.off THEN {} ELSE f.keys)
  BY <1>3, <1>4, FlippedIsConfig DEF Keeps
<1> QED
  BY <1>1, <1>3, <1>5, PutRenameEffect

----------------------------------------------------------------------------
(* The five things a step can do to the file and the cached copy of it *)

Looks ==
  /\ UNCHANGED <<file, statting, silent, raced>>
  /\ UNCHANGED <<cache, served>> \/ Get

GatewayPuts == PutsWell /\ UNCHANGED cache

ToolPuts ==
  /\ file' \in Copy /\ file'.ver = file.ver + 1
  /\ SilentOK'
  /\ raced' = (statting # NoCopy)
  /\ UNCHANGED <<cache, statting, served>>

LEMMA CliPutPuts ==
  ASSUME TypeOK, NEW c \in CliRuns, CliPut(c)
  PROVE  ToolPuts
<1>1. cli[c].base \in Copy /\ cli[c].keys \in SUBSET Keys
  BY DEF TypeOK
<1>2. cli[c].base.cfg \in Config
  BY <1>1 DEF Copy
<1> QED
  BY <1>1, <1>2, ListingIsConfig, RenameEffect DEF CliPut, ToolPuts, Keeps

LEMMA StepOnFile ==
  ASSUME TypeOK, [Next]_adminVars
  PROVE  Looks \/ GatewayPuts \/ PutStat \/ ToolPuts \/ Restart
<1>1. CASE AdminNext
  <2>1. ASSUME NEW i \in AdminOps, UpdateStart(i) PROVE Looks
    BY <2>1 DEF UpdateStart, Looks
  <2>2. ASSUME NEW i \in AdminOps, NEW body \in Body, UpdateFinish(i, body) PROVE GatewayPuts
    BY <2>2, UpdateFinishPuts DEF UpdateFinish, GatewayPuts
  <2>3. ASSUME NEW i \in AdminOps, NEW k \in Keys, CredentialStart(i, k) PROVE Looks
    BY <2>3 DEF CredentialStart, Looks
  <2>4. ASSUME NEW i \in AdminOps, CredentialStore(i) PROVE Looks
    BY <2>4 DEF CredentialStore, Looks
  <2>5. ASSUME NEW i \in AdminOps, CredentialPut(i) PROVE GatewayPuts
    BY <2>5, CredentialPutPuts DEF CredentialPut, GatewayPuts
  <2>6. ASSUME NEW i \in AdminOps, Abandon(i) PROVE Looks
    BY <2>6 DEF Abandon, Looks
  <2>7. CASE FlipPut
    BY <2>7, FlipPutPuts DEF FlipPut, GatewayPuts
  <2>8. ASSUME NEW off \in BOOLEAN, FlipTenant(off) PROVE Looks
    BY <2>8 DEF FlipTenant, Flip, Looks
  <2>9. ASSUME NEW k \in Keys, NEW off \in BOOLEAN, FlipAgent(k, off) PROVE Looks
    BY <2>9 DEF FlipAgent, Flip, Looks
  <2>10. ASSUME NEW k \in Keys, CredentialDelete(k) PROVE Looks
    BY <2>10 DEF CredentialDelete, Looks
  <2>11. CASE FlipFails
    BY <2>11 DEF FlipFails, Looks
  <2> QED
    BY <1>1, <2>1, <2>2, <2>3, <2>4, <2>5, <2>6, <2>7, <2>8, <2>9, <2>10, <2>11 DEF AdminNext
<1>2. CASE CliNext
  <2>1. ASSUME NEW c \in CliRuns, NEW k \in Keys, CliStart(c, k) PROVE Looks
    BY <2>1 DEF CliStart, Looks
  <2>2. ASSUME NEW c \in CliRuns, CliStore(c) PROVE Looks
    BY <2>2 DEF CliStore, Looks
  <2>3. ASSUME NEW c \in CliRuns, CliPut(c) PROVE ToolPuts
    BY <2>3, CliPutPuts
  <2>4. ASSUME NEW c \in CliRuns, CliQuit(c) PROVE Looks
    BY <2>4 DEF CliQuit, Looks
  <2> QED
    BY <1>2, <2>1, <2>2, <2>3, <2>4 DEF CliNext
<1>3. CASE Read
  BY <1>3 DEF Read, Looks
<1>4. CASE UNCHANGED adminVars
  BY <1>4 DEF adminVars, Looks
<1> QED
  BY <1>1, <1>2, <1>3, <1>4 DEF Next

----------------------------------------------------------------------------
(* Type correctness *)

FilesOK ==
  /\ file \in Copy
  /\ cache \in [mtime : Nat, copy : Copy]
  /\ statting \in Copy
  /\ silent \in [base : SUBSET Everyone, file : SUBSET Everyone, respelled : SUBSET Everyone]
  /\ served \in Nat
  /\ raced \in BOOLEAN

WritersOK ==
  /\ op \in [AdminOps -> [at : {"idle", "put", "credential", "store"}, base : Copy, keys : SUBSET Keys]]
  /\ cli \in [CliRuns -> [at : {"idle", "stdin", "store"}, base : Copy, keys : SUBSET Keys]]
  /\ vault \in SUBSET Agents

LEMMA FilesStayOK ==
  ASSUME TypeOK, [Next]_adminVars
  PROVE  FilesOK'
<1> USE DEF FilesOK, TypeOK
<1>1. Got \in Copy /\ Got.ver \in Nat /\ file.ver \in Nat
  BY GotIsCopy DEF Copy
<1>2. CASE Looks
  BY <1>1, <1>2 DEF Looks, Get
<1>3. CASE GatewayPuts
  <2>1. file' \in Copy /\ file'.ver \in Nat
    BY <1>3 DEF GatewayPuts, PutsWell, Copy
  <2> QED
    BY <1>3, <2>1 DEF GatewayPuts, PutsWell, SilentOK
<1>4. CASE PutStat
  BY <1>1, <1>4, NoCopyIsCopy DEF PutStat, EntryAfterPut
<1>5. CASE ToolPuts
  BY <1>5 DEF ToolPuts, SilentOK
<1>6. CASE Restart
  BY <1>6, NoCopyIsCopy DEF Restart
<1> QED
  BY <1>2, <1>3, <1>4, <1>5, <1>6, StepOnFile

FlipOK == flip \in SUBSET Flipping /\ (flip # {} => statting = NoCopy)

\* What a disable or an enable has in hand was read by it, and no store.put is under way meanwhile.
LEMMA FlipStaysOK ==
  ASSUME TypeOK, [Next]_adminVars
  PROVE  FlipOK'
<1> USE DEF FlipOK, TypeOK
<1>1. ASSUME NEW found \in SUBSET SwitchesOf(Got.cfg.listed), NEW off \in BOOLEAN, Flip(found, off)
      PROVE  FlipOK'
  <2>1. Got \in Copy /\ Got.cfg \in Config
    BY GotIsCopy DEF Copy
  <2>2. found \in SUBSET Switches
    BY <2>1 DEF Config, SwitchesOf, Switches
  <2>3. flip' = {[base |-> Got, keys |-> found, off |-> off]} /\ statting' = NoCopy
    BY <1>1 DEF Flip, Get, Idle
  <2>4. [base |-> Got, keys |-> found, off |-> off] \in Flipping
    BY <2>1, <2>2 DEF Flipping
  <2> QED
    BY <2>3, <2>4
<1>2. CASE AdminNext
  <2>1. ASSUME NEW i \in AdminOps, UpdateStart(i) PROVE FlipOK'
    BY <2>1 DEF UpdateStart
  <2>2. ASSUME NEW i \in AdminOps, NEW body \in Body, UpdateFinish(i, body) PROVE FlipOK'
    BY <2>2 DEF UpdateFinish, Idle
  <2>3. ASSUME NEW i \in AdminOps, NEW k \in Keys, CredentialStart(i, k) PROVE FlipOK'
    BY <2>3 DEF CredentialStart
  <2>4. ASSUME NEW i \in AdminOps, CredentialStore(i) PROVE FlipOK'
    BY <2>4 DEF CredentialStore
  <2>5. ASSUME NEW i \in AdminOps, CredentialPut(i) PROVE FlipOK'
    BY <2>5 DEF CredentialPut, Idle
  <2>6. ASSUME NEW i \in AdminOps, Abandon(i) PROVE FlipOK'
    BY <2>6 DEF Abandon
  <2>7. CASE FlipPut \/ FlipFails
    BY <2>7 DEF FlipPut, FlipFails
  <2>8. ASSUME NEW off \in BOOLEAN, FlipTenant(off) PROVE FlipOK'
    BY <1>1, <2>8 DEF FlipTenant, SwitchesOf
  <2>9. ASSUME NEW k \in Keys, NEW off \in BOOLEAN, FlipAgent(k, off) PROVE FlipOK'
    BY <1>1, <2>9 DEF FlipAgent, Found, Spellings, SwitchesOf
  <2>10. ASSUME NEW k \in Keys, CredentialDelete(k) PROVE FlipOK'
    BY <2>10 DEF CredentialDelete
  <2>11. CASE PutStat
    BY <2>11 DEF PutStat
  <2> QED
    BY <1>2, <2>1, <2>2, <2>3, <2>4, <2>5, <2>6, <2>7, <2>8, <2>9, <2>10, <2>11 DEF AdminNext
<1>3. CASE CliNext
  BY <1>3 DEF CliNext, CliStart, CliStore, CliPut, CliQuit
<1>4. CASE Read
  BY <1>4 DEF Read
<1>5. CASE Restart
  BY <1>5 DEF Restart
<1>6. CASE UNCHANGED adminVars
  BY <1>6 DEF adminVars
<1> QED
  BY <1>2, <1>3, <1>4, <1>5, <1>6 DEF Next

LEMMA WritersStayOK ==
  ASSUME TypeOK, [Next]_adminVars
  PROVE  WritersOK'
<1> USE DEF WritersOK, TypeOK
<1>1. Got \in Copy
  BY GotIsCopy
<1>2. \A base \in Copy : \A k \in Keys : \A j \in FiledUnder(base, k) : j \in Keys /\ AgentOf[j] \in Agents
  BY DEF FiledUnder, Spellings, Agents, Copy, Config
<1>3. CASE AdminNext
  <2>1. ASSUME NEW i \in AdminOps, UpdateStart(i) PROVE WritersOK'
    BY <1>1, <2>1 DEF UpdateStart
  <2>2. ASSUME NEW i \in AdminOps, NEW body \in Body, UpdateFinish(i, body) PROVE WritersOK'
    BY <2>2, NoOpIsOp DEF UpdateFinish
  <2>3. ASSUME NEW i \in AdminOps, NEW k \in Keys, CredentialStart(i, k) PROVE WritersOK'
    BY <1>1, <2>3 DEF CredentialStart
  <2>4. ASSUME NEW i \in AdminOps, CredentialStore(i) PROVE WritersOK'
    <3>1. PICK k \in op[i].keys : \E j \in FiledUnder(op[i].base, k) :
            /\ vault' = vault \cup {AgentOf[j]}
            /\ op' = [op EXCEPT ![i] = [at |-> "store", base |-> op[i].base, keys |-> {j}]]
      BY <2>4 DEF CredentialStore
    <3>2. op[i].base \in Copy /\ k \in Keys
      BY <3>1
    <3>3. PICK j \in FiledUnder(op[i].base, k) :
            /\ vault' = vault \cup {AgentOf[j]}
            /\ op' = [op EXCEPT ![i] = [at |-> "store", base |-> op[i].base, keys |-> {j}]]
      BY <3>1
    <3>4. j \in Keys /\ AgentOf[j] \in Agents
      BY <1>2, <3>2
    <3> QED
      BY <2>4, <3>2, <3>3, <3>4 DEF CredentialStore
  <2>5. ASSUME NEW i \in AdminOps, CredentialPut(i) PROVE WritersOK'
    BY <2>5, NoOpIsOp DEF CredentialPut
  <2>6. ASSUME NEW i \in AdminOps, Abandon(i) PROVE WritersOK'
    BY <2>6, NoOpIsOp DEF Abandon
  <2>7. ASSUME NEW k \in Keys, CredentialDelete(k) PROVE WritersOK'
    BY <2>7 DEF CredentialDelete
  <2> QED
    BY <1>3, <2>1, <2>2, <2>3, <2>4, <2>5, <2>6, <2>7
       DEF AdminNext, PutStat, FlipTenant, FlipAgent, Flip, FlipPut, FlipFails
<1>4. CASE CliNext
  <2>1. ASSUME NEW c \in CliRuns, NEW k \in Keys, CliStart(c, k) PROVE WritersOK'
    BY <2>1 DEF CliStart
  <2>2. ASSUME NEW c \in CliRuns, CliStore(c) PROVE WritersOK'
    <3>1. PICK k \in cli[c].keys : \E j \in FiledUnder(cli[c].base, k) :
            /\ vault' = vault \cup {AgentOf[j]}
            /\ cli' = [cli EXCEPT ![c] = [at |-> "store", base |-> cli[c].base, keys |-> {j}]]
      BY <2>2 DEF CliStore
    <3>2. cli[c].base \in Copy /\ k \in Keys
      BY <3>1
    <3>3. PICK j \in FiledUnder(cli[c].base, k) :
            /\ vault' = vault \cup {AgentOf[j]}
            /\ cli' = [cli EXCEPT ![c] = [at |-> "store", base |-> cli[c].base, keys |-> {j}]]
      BY <3>1
    <3>4. j \in Keys /\ AgentOf[j] \in Agents
      BY <1>2, <3>2
    <3> QED
      BY <2>2, <3>2, <3>3, <3>4 DEF CliStore
  <2>3. ASSUME NEW c \in CliRuns, CliPut(c) PROVE WritersOK'
    BY <2>3, NoOpIsOp DEF CliPut
  <2>4. ASSUME NEW c \in CliRuns, CliQuit(c) PROVE WritersOK'
    BY <2>4, NoOpIsOp DEF CliQuit
  <2> QED
    BY <1>4, <2>1, <2>2, <2>3, <2>4 DEF CliNext
<1>5. CASE Read
  BY <1>5 DEF Read
<1>6. CASE Restart
  BY <1>6, NoOpIsOp DEF Restart
<1>7. CASE UNCHANGED adminVars
  BY <1>7 DEF adminVars
<1> QED
  BY <1>3, <1>4, <1>5, <1>6, <1>7 DEF Next

LEMMA TypeInit == ASSUME Init PROVE TypeOK
<1>1. file \in Copy
  BY NoCopyIsCopy DEF Init, Copy
<1> QED
  BY <1>1, NoCopyIsCopy, NoOpIsOp DEF Init, TypeOK

LEMMA TypeStep == ASSUME TypeOK, [Next]_adminVars PROVE TypeOK'
  BY FilesStayOK, FlipStaysOK, WritersStayOK DEF FilesOK, FlipOK, WritersOK, TypeOK

\* Whatever is in the file, the cache or the hands of a writer is a configuration in which only a
\* listed agent, or the tenant, is off.
THEOREM TypeCorrect == Spec => []TypeOK
  BY TypeInit, TypeStep, PTL DEF Spec

----------------------------------------------------------------------------
(* The cached copy *)

\* No store.put is between its rename and its stat.
Settled == statting = NoCopy

\* The cache is never ahead of the file.  If it is level with it, it holds what was last served or
\* written, and the file itself unless a write of the tool is hidden behind the gateway's own.
Coherent ==
  /\ file.ver = 0 => file = NoCopy
  /\ served <= file.ver /\ cache.copy.ver <= file.ver
  /\ Settled => cache.mtime <= file.ver
  /\ Settled /\ cache.mtime = file.ver => cache.copy.ver >= served
  /\ Settled /\ ~ raced /\ cache.mtime = file.ver => cache.copy = file
  /\ ~ Settled => statting.ver = served
  /\ ~ Settled /\ ~ raced => statting = file

LEMMA CoherentInit == ASSUME Init PROVE Coherent
<1>1. file = NoCopy \/ file.ver = 1
  BY DEF Init
<1>2. file.ver \in {0, 1} /\ (file.ver = 0 => file = NoCopy)
  BY <1>1 DEF NoCopy
<1>3. NoCopy.ver = 0
  BY DEF NoCopy
<1> QED
  BY <1>2, <1>3 DEF Init, Coherent, Settled

\* The version numbers of the copies at hand.
LEMMA VersionsAreNat ==
  ASSUME TypeOK
  PROVE  /\ file.ver \in Nat /\ cache.mtime \in Nat /\ cache.copy.ver \in Nat
         /\ statting.ver \in Nat /\ served \in Nat /\ Got.ver \in Nat
  BY GotIsCopy DEF TypeOK, Copy

LEMMA CoherentStep ==
  ASSUME TypeOK, Coherent, [Next]_adminVars
  PROVE  Coherent'
<1>1. CASE Looks
  <2>1. CASE UNCHANGED <<cache, served>>
    BY <1>1, <2>1 DEF Looks, Coherent, Settled
  <2>2. CASE Get
    <3>1. /\ Settled /\ cache' = [mtime |-> file.ver, copy |-> Got] /\ served' = Got.ver
          /\ UNCHANGED <<file, statting, raced>>
      BY <1>1, <2>2 DEF Looks, Get, Idle, Settled
    <3>2. Got.ver <= file.ver
      BY VersionsAreNat DEF Coherent, Got
    <3>3. ~ raced => Got = file
      BY <3>1 DEF Coherent, Got
    <3>4. /\ served' = Got.ver /\ cache'.mtime = file.ver /\ cache'.copy = Got
          /\ Settled' /\ file' = file /\ raced' = raced
      BY <3>1 DEF Settled
    <3> QED
      BY <3>2, <3>3, <3>4, VersionsAreNat DEF Coherent
  <2> QED
    BY <1>1, <2>1, <2>2 DEF Looks
<1>2. CASE GatewayPuts
  <2>1. /\ file'.ver = file.ver + 1 /\ statting' = file' /\ served' = file'.ver /\ ~ Settled'
    BY <1>2 DEF GatewayPuts, PutsWell, Settled
  <2>2. cache'.copy.ver <= file.ver /\ cache'.copy.ver \in Nat
    BY <1>2, VersionsAreNat DEF Coherent, GatewayPuts
  <2> QED
    BY <2>1, <2>2, VersionsAreNat DEF Coherent
<1>3. CASE PutStat
  <2>1. /\ ~ Settled /\ cache'.mtime = file.ver /\ cache'.copy = statting
        /\ UNCHANGED <<file, served, raced>>
    BY <1>3 DEF PutStat, EntryAfterPut, Settled
  <2>2. Settled'
    BY <1>3 DEF PutStat, Settled
  <2> QED
    BY <2>1, <2>2, VersionsAreNat DEF Coherent
<1>4. CASE ToolPuts
  <2>1. file'.ver = file.ver + 1 /\ UNCHANGED <<cache, statting, served>>
    BY <1>4 DEF ToolPuts
  <2>2. CASE Settled
    BY <2>1, <2>2, VersionsAreNat DEF Coherent, Settled
  <2>3. CASE ~ Settled
    <3>1. ~ Settled' /\ raced'
      BY <1>4, <2>3 DEF ToolPuts, Settled
    <3> QED
      BY <2>1, <2>3, <3>1, VersionsAreNat DEF Coherent
  <2> QED
    BY <2>2, <2>3
<1>5. CASE Restart
  <2>1. /\ cache' = [mtime |-> 0, copy |-> NoCopy] /\ Settled' /\ UNCHANGED <<file, served>>
    BY <1>5 DEF Restart, Settled
  <2>2. NoCopy.ver = 0
    BY DEF NoCopy
  <2> QED
    BY <2>1, <2>2, VersionsAreNat DEF Coherent
<1> QED
  BY <1>1, <1>2, <1>3, <1>4, <1>5, StepOnFile

\* The gateway never serves a version older than one it has written or served before, whatever the
\* tool writes in between and whenever the gateway restarts.
THEOREM NeverGoesBack == Spec => []ServedNeverGoesBack
<1>1. TypeOK /\ Coherent => ServedNeverGoesBack
  BY VersionsAreNat DEF Coherent, ServedNeverGoesBack, Got, Idle, Settled
<1> QED
  BY <1>1, CoherentInit, CoherentStep, TypeCorrect, PTL DEF Spec

\* What the gateway serves next is the file, except when the tool wrote between the gateway's own
\* rename and its stat.
THEOREM ServesTheFile == Spec => []ServesFileUnlessRaced
<1>1. Coherent => ServesFileUnlessRaced
  BY DEF Coherent, ServesFileUnlessRaced, Got, Idle, Settled
<1> QED
  BY <1>1, CoherentInit, CoherentStep, TypeCorrect, PTL DEF Spec

\* No writer turns on an agent or a tenant that was off, under whatever spelling, in the configuration it
\* started from, unless it was asked for it by name or replaced that spelling by another: for all the
\* bodies a PUT may have, all the spellings of an agent and all interleavings of the writers.
THEOREM SwitchesKept == Spec => []WritersKeepSwitches
<1>1. Init => WritersKeepSwitches
  BY DEF Init, WritersKeepSwitches
<1>2. TypeOK /\ WritersKeepSwitches /\ [Next]_adminVars => WritersKeepSwitches'
  <2> SUFFICES ASSUME TypeOK, WritersKeepSwitches, [Next]_adminVars PROVE WritersKeepSwitches'
    OBVIOUS
  <2>1. CASE Looks
    BY <2>1 DEF Looks, WritersKeepSwitches
  <2>2. CASE GatewayPuts
    BY <2>2 DEF GatewayPuts, PutsWell, SilentOK, WritersKeepSwitches
  <2>3. CASE PutStat
    BY <2>3 DEF PutStat, WritersKeepSwitches
  <2>4. CASE ToolPuts
    BY <2>4 DEF ToolPuts, SilentOK, WritersKeepSwitches
  <2>5. CASE Restart
    BY <2>5 DEF Restart, WritersKeepSwitches
  <2> QED
    BY <2>1, <2>2, <2>3, <2>4, <2>5, StepOnFile
<1> QED
  BY <1>1, <1>2, TypeCorrect, PTL DEF Spec
=============================================================================
