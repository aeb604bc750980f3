----------------------------- MODULE ProxyProofs -----------------------------
(***************************************************************************)
(* A request is sent on only through the six gates, with a credential of   *)
(* its own, and is recorded truly: for every configuration a tenant may    *)
(* have, any number of requests, and all limits.  The first part is about  *)
(* the catalog: for every valid catalog and every path, the entry that     *)
(* sorts first is the only one that can, there is one whenever any entry   *)
(* fits, and it is the one a descent through the segments finds that       *)
(* prefers the literal at each of them.                                    *)
(***************************************************************************)
EXTENDS Proxy, TLAPS, FiniteSetTheorems, WellFoundedInduction

----------------------------------------------------------------------------
(* Least numbers stand in for induction. *)

Less == {pair \in Nat \X Nat : pair[1] < pair[2]}

LEMMA LessIsWellFounded == IsWellFoundedOn(Less, Nat)
  BY NatLessThanWellFounded, Zenon DEF Less, OpToRel

LEMMA LeastNumber ==
  ASSUME NEW T \in SUBSET Nat, T # {}
  PROVE  \E x \in T : \A y \in T : x <= y
<1>1. PICK x \in T : \A y \in T : <<y, x>> \notin Less
  BY LessIsWellFounded, WFMin, Zenon
<1>2. ASSUME NEW y \in T PROVE x <= y
  <2>1. x \in Nat /\ y \in Nat
    OBVIOUS
  <2>2. ~ (y < x)
    BY <1>1, <2>1 DEF Less
  <2> QED
    BY <2>1, <2>2
<1> QED
  BY <1>2

\* A set of numbers that holds zero, and with each number below a bound the next one, holds all up to the bound.
LEMMA UpTo ==
  ASSUME NEW top \in Nat, NEW Good \in SUBSET Nat,
         0 \in Good, \A n \in 0 .. top - 1 : n \in Good => n + 1 \in Good
  PROVE  0 .. top \subseteq Good
<1> DEFINE Bad == (0 .. top) \ Good
<1> SUFFICES ASSUME Bad # {} PROVE FALSE
  OBVIOUS
<1>0. Bad \in SUBSET Nat
  OBVIOUS
<1>1. PICK x \in Bad : \A y \in Bad : x <= y
  <2> HIDE DEF Bad
  <2> QED
    BY <1>0, LeastNumber
<1>2. x \in Nat /\ x <= top /\ x \notin Good /\ x # 0
  OBVIOUS
<1>3. x - 1 \in 0 .. top - 1 /\ x - 1 \in 0 .. top
  BY <1>2
<1>4. x - 1 \notin Bad
  BY <1>1, <1>2, <1>3
<1>5. (x - 1) + 1 \in Good
  BY <1>3, <1>4
<1> QED
  BY <1>2, <1>5

----------------------------------------------------------------------------
(* Templates that fit one path *)

\* Where a template that fits a path has a literal, it is the segment of the path.
LEMMA FittingTemplates ==
  ASSUME NEW path \in Seq(Segments), NEW a \in Seq(SUBSET Segments), Fits(a, path)
  PROVE  /\ DOMAIN a = 1 .. Len(path) /\ Len(path) \in Nat
         /\ \A i \in 1 .. Len(path) : a[i] = {} \/ a[i] = {path[i]}
<1>1. Len(a) = Len(path) /\ DOMAIN a = 1 .. Len(path) /\ DOMAIN path = 1 .. Len(path) /\ Len(path) \in Nat
  BY DEF Fits
<1>2. \A i \in 1 .. Len(path) : a[i] \subseteq {path[i]}
  BY <1>1 DEF Fits
<1> QED
  BY <1>1, <1>2

\* They are the same if they have their literals at the same places.
LEMMA SamePattern ==
  ASSUME NEW path \in Seq(Segments),
         NEW a \in Seq(SUBSET Segments), NEW b \in Seq(SUBSET Segments), Fits(a, path), Fits(b, path),
         \A i \in 1 .. Len(path) : a[i] = {} <=> b[i] = {}
  PROVE  a = b
<1>0. /\ DOMAIN a = 1 .. Len(path) /\ DOMAIN b = 1 .. Len(path)
      /\ \A i \in 1 .. Len(path) : (a[i] = {} \/ a[i] = {path[i]}) /\ (b[i] = {} \/ b[i] = {path[i]})
  BY FittingTemplates
<1>1. /\ DOMAIN a = 1 .. Len(path) /\ DOMAIN b = 1 .. Len(path)
      /\ \A i \in 1 .. Len(path) : a[i] = b[i]
  BY <1>0
<1>2. Len(a) = Len(b) /\ \A i \in 1 .. Len(a) : a[i] = b[i]
  BY <1>1 DEF Fits
<1> QED
  BY <1>2

\* Of two that differ, moreSpecific puts one before the other.
LEMMA MoreSpecificDecides ==
  ASSUME NEW path \in Seq(Segments),
         NEW a \in Seq(SUBSET Segments), NEW b \in Seq(SUBSET Segments), Fits(a, path), Fits(b, path), a # b
  PROVE  MoreSpecific(a, b) \/ MoreSpecific(b, a)
<1> DEFINE Differ == {i \in 1 .. Len(path) : ~ (a[i] = {} <=> b[i] = {})}
<1>0. DOMAIN a = 1 .. Len(path) /\ DOMAIN b = 1 .. Len(path) /\ Len(path) \in Nat
  BY FittingTemplates
<1>1. Differ # {} /\ Differ \in SUBSET Nat
  <2>1. ~ \A i \in 1 .. Len(path) : a[i] = {} <=> b[i] = {}
    BY SamePattern
  <2> QED
    BY <1>0, <2>1
<1>2. PICK i \in Differ : \A k \in Differ : i <= k
  <2> HIDE DEF Differ
  <2> QED
    BY <1>1, LeastNumber
<1>3. i \in 1 .. Len(path) /\ i \in Nat
  BY <1>0
<1>4. ASSUME NEW j \in 1 .. i - 1 PROVE a[j] = {} <=> b[j] = {}
  <2>1. j \in 1 .. Len(path) /\ ~ (i <= j)
    BY <1>0, <1>3
  <2> QED
    BY <1>2, <2>1
<1>5. CASE a[i] # {} /\ b[i] = {}
  BY <1>0, <1>3, <1>4, <1>5 DEF MoreSpecific
<1>6. CASE b[i] # {} /\ a[i] = {}
  BY <1>0, <1>3, <1>4, <1>6 DEF MoreSpecific
<1> QED
  BY <1>2, <1>5, <1>6

----------------------------------------------------------------------------
(* The descent *)

\* One level of it: of the entries left, those with the literal if there are any.
Sifted(entries, n) ==
  LET literal == {e \in entries : e.template[n] # {}} IN IF literal # {} THEN literal ELSE entries

\* The levels down to one of them.
Levels(hits, n) ==
  {f \in [0 .. n -> SUBSET hits] : f[0] = hits /\ \A k \in 1 .. n : f[k] = Sifted(f[k - 1], k)}

LEMMA SiftedIsPart ==
  ASSUME NEW entries, NEW n PROVE Sifted(entries, n) \subseteq entries
  BY DEF Sifted

\* The recursion of the descent has a solution.
LEMMA LevelsExist == ASSUME NEW hits, NEW top \in Nat PROVE Levels(hits, top) # {}
<1> DEFINE Good == {n \in Nat : Levels(hits, n) # {}}
<1>1. 0 \in Good
  <2> DEFINE f == [k \in 0 .. 0 |-> hits]
  <2>1. f \in [0 .. 0 -> SUBSET hits] /\ f[0] = hits
    OBVIOUS
  <2>2. \A k \in 1 .. 0 : FALSE
    OBVIOUS
  <2> HIDE DEF f
  <2>3. f \in Levels(hits, 0)
    BY <2>1, <2>2 DEF Levels
  <2> QED
    BY <2>3
<1>2. ASSUME NEW n \in 0 .. top - 1, n \in Good PROVE n + 1 \in Good
  <2>1. n \in Nat
    OBVIOUS
  <2>2. PICK f : f \in Levels(hits, n)
    BY <1>2
  <2>3. /\ f \in [0 .. n -> SUBSET hits] /\ f[0] = hits
        /\ \A k \in 1 .. n : f[k] = Sifted(f[k - 1], k)
    BY <2>2 DEF Levels
  <2> DEFINE g == [k \in 0 .. n + 1 |-> IF k = n + 1 THEN Sifted(f[n], n + 1) ELSE f[k]]
  <2>4. g[n + 1] = Sifted(f[n], n + 1) /\ \A k \in 0 .. n : g[k] = f[k]
    BY <2>1
  <2>5. Sifted(f[n], n + 1) \in SUBSET hits
    BY <2>1, <2>3, SiftedIsPart
  <2>6. g \in [0 .. n + 1 -> SUBSET hits]
    BY <2>1, <2>3, <2>5
  <2> HIDE DEF g
  <2>7. ASSUME NEW k \in 1 .. n + 1 PROVE g[k] = Sifted(g[k - 1], k)
    <3>1. CASE k = n + 1
      BY <2>1, <2>4, <3>1
    <3>2. CASE k \in 1 .. n
      BY <2>1, <2>3, <2>4, <3>2
    <3> QED
      BY <2>1, <3>1, <3>2
  <2>8. g[0] = hits
    BY <2>1, <2>3, <2>4
  <2>9. g \in Levels(hits, n + 1)
    BY <2>6, <2>7, <2>8 DEF Levels
  <2> QED
    BY <2>1, <2>9
<1> HIDE DEF Good
<1>3. 0 .. top \subseteq Good
  BY <1>1, <1>2, UpTo DEF Good
<1> QED
  BY <1>3 DEF Good

\* What the recursion of the descent says of a function.
Solves(f, hits, top) ==
  f = [n \in 0 .. top |-> IF n = 0 THEN hits
                          ELSE LET literal == {e \in f[n - 1] : e.template[n] # {}}
                               IN  IF literal # {} THEN literal ELSE f[n - 1]]

LEMMA LevelsSolve ==
  ASSUME NEW hits, NEW top \in Nat, NEW f \in Levels(hits, top)
  PROVE  Solves(f, hits, top)
<1>1. f \in [0 .. top -> SUBSET hits] /\ f[0] = hits /\ \A k \in 1 .. top : f[k] = Sifted(f[k - 1], k)
  BY DEF Levels
<1>2. ASSUME NEW n \in 0 .. top
      PROVE  f[n] = IF n = 0 THEN hits
                    ELSE LET literal == {e \in f[n - 1] : e.template[n] # {}}
                         IN  IF literal # {} THEN literal ELSE f[n - 1]
  <2>1. CASE n = 0
    BY <1>1, <2>1
  <2>2. CASE n # 0
    <3>1. n \in 1 .. top
      BY <2>2
    <3>2. f[n] = Sifted(f[n - 1], n)
      BY <1>1, <3>1
    <3> QED
      BY <2>2, <3>2 DEF Sifted
  <2> QED
    BY <2>1, <2>2
<1> QED
  BY <1>1, <1>2 DEF Solves

LEMMA SolutionsAreLevels ==
  ASSUME NEW hits, NEW top \in Nat, NEW f, Solves(f, hits, top)
  PROVE  f \in Levels(hits, top)
<1>1. DOMAIN f = 0 .. top /\ f = [n \in 0 .. top |-> f[n]]
  BY DEF Solves
<1>2. f[0] = hits
  BY DEF Solves
<1>3. ASSUME NEW n \in 1 .. top PROVE f[n] = Sifted(f[n - 1], n)
  <2>1. n \in 0 .. top /\ n # 0
    OBVIOUS
  <2> QED
    BY <2>1 DEF Solves, Sifted
<1> DEFINE Good == {n \in Nat : n \in 0 .. top => f[n] \subseteq hits}
<1>4. 0 \in Good
  BY <1>2
<1>5. ASSUME NEW n \in 0 .. top - 1, n \in Good PROVE n + 1 \in Good
  <2>1. n \in Nat /\ n \in 0 .. top /\ n + 1 \in 1 .. top /\ (n + 1) - 1 = n
    OBVIOUS
  <2>2. f[n] \subseteq hits
    BY <1>5, <2>1
  <2>3. f[n + 1] = Sifted(f[n], n + 1)
    BY <1>3, <2>1
  <2>4. f[n + 1] \subseteq hits
    BY <2>2, <2>3, SiftedIsPart
  <2> QED
    BY <2>1, <2>4
<1> HIDE DEF Good
<1>6. 0 .. top \subseteq Good
  BY <1>4, <1>5, UpTo DEF Good
<1>7. \A n \in 0 .. top : f[n] \in SUBSET hits
  BY <1>6 DEF Good
<1>8. f \in [0 .. top -> SUBSET hits]
  BY <1>1, <1>7
<1> QED
  BY <1>2, <1>3, <1>8 DEF Levels

LEMMA DescentIsLastLevel ==
  ASSUME NEW catalog, NEW method, NEW path, Len(path) \in Nat
  PROVE  \E f \in Levels(Hits(catalog, method, path), Len(path)) : Descent(catalog, method, path) = f[Len(path)]
<1> DEFINE hits == Hits(catalog, method, path)
           top  == Len(path)
           f    == CHOOSE g : Solves(g, hits, top)
<1>1. \E g : Solves(g, hits, top)
  BY LevelsExist, LevelsSolve
<1>2. Solves(f, hits, top)
  BY <1>1
<1>3. Descent(catalog, method, path) = f[top]
  BY DEF Descent, Solves
<1> HIDE DEF f, hits, top
<1>4. f \in Levels(hits, top)
  BY <1>2, SolutionsAreLevels DEF top
<1> QED
  BY <1>3, <1>4 DEF hits, top

----------------------------------------------------------------------------
(* What a level holds: the entries that look like the best ones so far. *)

Agree(e, d, n) == \A i \in 1 .. n : e.template[i] = {} <=> d.template[i] = {}

Alike(entries, n) == \A e, d \in entries : Agree(e, d, n)

Closed(hits, entries, n) == \A e \in entries, d \in hits : Agree(e, d, n) => d \in entries

Unbeaten(hits, entries, n) ==
  \A e \in entries, d \in hits : \A i \in 1 .. n :
    ~ (d.template[i] # {} /\ e.template[i] = {} /\ Agree(e, d, i - 1))

LevelHolds(hits, entries, n) ==
  /\ entries # {} /\ entries \subseteq hits
  /\ Alike(entries, n) /\ Closed(hits, entries, n) /\ Unbeaten(hits, entries, n)

LEMMA FirstLevelHolds == ASSUME NEW hits, hits # {} PROVE LevelHolds(hits, hits, 0)
  BY DEF LevelHolds, Alike, Closed, Unbeaten, Agree

LEMMA NextLevelHolds ==
  ASSUME NEW n \in Nat, NEW hits, NEW entries, LevelHolds(hits, entries, n)
  PROVE  LevelHolds(hits, Sifted(entries, n + 1), n + 1)
<1> DEFINE literal == {e \in entries : e.template[n + 1] # {}}
           next    == Sifted(entries, n + 1)
<1>1. next = (IF literal # {} THEN literal ELSE entries) /\ next # {} /\ next \subseteq entries
  BY DEF Sifted, LevelHolds
<1>2. \A e, d \in next : e.template[n + 1] = {} <=> d.template[n + 1] = {}
  BY <1>1
<1>3. \A e, d : Agree(e, d, n + 1) <=> Agree(e, d, n) /\ (e.template[n + 1] = {} <=> d.template[n + 1] = {})
  <2>1. 1 .. n + 1 = 1 .. n \cup {n + 1}
    OBVIOUS
  <2> QED
    BY <2>1 DEF Agree
<1>4. Alike(next, n + 1)
  BY <1>1, <1>2, <1>3 DEF LevelHolds, Alike
<1>5. Closed(hits, next, n + 1)
  BY <1>1, <1>3 DEF LevelHolds, Closed
<1>6. Unbeaten(hits, next, n + 1)
  <2> SUFFICES ASSUME NEW e \in next, NEW d \in hits, NEW i \in 1 .. n + 1,
                      d.template[i] # {}, e.template[i] = {}, Agree(e, d, i - 1)
               PROVE  FALSE
    BY DEF Unbeaten
  <2>1. e \in entries
    BY <1>1
  <2>2. CASE i \in 1 .. n
    BY <2>1, <2>2 DEF LevelHolds, Unbeaten
  <2>3. CASE i = n + 1
    <3>1. i - 1 = n
      BY <2>3
    <3>2. d \in entries
      BY <2>1, <3>1 DEF LevelHolds, Closed
    <3>3. d \in literal
      BY <2>3, <3>2
    <3>4. e \in literal
      BY <1>1, <3>3
    <3> QED
      BY <2>3, <3>4
  <2> QED
    BY <2>2, <2>3
<1> QED
  BY <1>1, <1>4, <1>5, <1>6 DEF LevelHolds

LEMMA LevelsHold ==
  ASSUME NEW hits, hits # {}, NEW top \in Nat, NEW f \in Levels(hits, top)
  PROVE  LevelHolds(hits, f[top], top)
<1>1. f[0] = hits /\ \A k \in 1 .. top : f[k] = Sifted(f[k - 1], k)
  BY DEF Levels
<1> DEFINE Good == {n \in Nat : LevelHolds(hits, f[n], n)}
<1>2. 0 \in Good
  BY <1>1, FirstLevelHolds
<1>3. ASSUME NEW n \in 0 .. top - 1, n \in Good PROVE n + 1 \in Good
  <2>1. n \in Nat /\ n + 1 \in 1 .. top /\ (n + 1) - 1 = n
    OBVIOUS
  <2>2. f[n + 1] = Sifted(f[n], n + 1)
    BY <1>1, <2>1
  <2>3. LevelHolds(hits, f[n + 1], n + 1)
    BY <1>3, <2>1, <2>2, NextLevelHolds
  <2> QED
    BY <2>1, <2>3
<1> HIDE DEF Good
<1>4. 0 .. top \subseteq Good
  BY <1>2, <1>3, UpTo DEF Good
<1>5. top \in Good
  BY <1>4
<1> QED
  BY <1>5 DEF Good

----------------------------------------------------------------------------
(* Theorems *)

LEMMA HitsFit ==
  ASSUME NEW catalog \in Seq(Entries),
         NEW method, NEW path, NEW e \in Hits(catalog, method, path)
  PROVE  e.template \in Seq(SUBSET Segments) /\ Fits(e.template, path) /\ e.method = method
<1>1. PICK i \in DOMAIN catalog : e = catalog[i] /\ catalog[i].method = method /\ Fits(catalog[i].template, path)
  BY DEF Hits
<1>2. catalog[i] \in Entries
  OBVIOUS
<1> QED
  BY <1>1, <1>2 DEF Entries

\* "The second could never be told apart": in a valid catalog, entries that fit a path have distinct templates.
LEMMA HitsDiffer ==
  ASSUME NEW catalog, ValidCatalog(catalog), NEW method, NEW path,
         NEW e \in Hits(catalog, method, path), NEW d \in Hits(catalog, method, path), e.template = d.template
  PROVE  e = d
  BY DEF ValidCatalog, Hits

\* Whatever the order of the catalog, sorting never has to choose between two entries: at most one is
\* first (compileCatalog's match, which sorts with moreSpecific and takes hits[0]).
THEOREM MatchIsUnambiguous ==
  ASSUME NEW catalog \in Seq(Entries), ValidCatalog(catalog),
         NEW method, NEW path \in Seq(Segments),
         NEW e \in Match(catalog, method, path), NEW d \in Match(catalog, method, path)
  PROVE  e = d
<1>1. /\ e \in Hits(catalog, method, path) /\ d \in Hits(catalog, method, path)
      /\ ~ MoreSpecific(d.template, e.template) /\ ~ MoreSpecific(e.template, d.template)
  BY DEF Match
<1>2. /\ e.template \in Seq(SUBSET Segments) /\ Fits(e.template, path)
      /\ d.template \in Seq(SUBSET Segments) /\ Fits(d.template, path)
  BY <1>1, HitsFit
<1>3. e.template = d.template
  BY <1>1, <1>2, MoreSpecificDecides
<1> QED
  BY <1>1, <1>3, HitsDiffer

\* The entry that sorts first is the one the descent finds that takes the literal wherever one fits: the
\* sort decides as a router that goes through the path segment by segment would.
THEOREM MatchIsTheDescent ==
  ASSUME NEW catalog \in Seq(Entries), ValidCatalog(catalog),
         NEW method, NEW path \in Seq(Segments)
  PROVE  Match(catalog, method, path) = Descent(catalog, method, path)
<1> DEFINE hits == Hits(catalog, method, path)
<1>1. Len(path) \in Nat
  OBVIOUS
<1>2. PICK f \in Levels(hits, Len(path)) : Descent(catalog, method, path) = f[Len(path)]
  BY <1>1, DescentIsLastLevel
<1>3. f[Len(path)] \in SUBSET hits
  BY <1>1 DEF Levels
<1>4. CASE hits = {}
  BY <1>2, <1>3, <1>4 DEF Match
<1>5. CASE hits # {}
  <2> DEFINE last == f[Len(path)]
  <2>1. LevelHolds(hits, last, Len(path))
    BY <1>1, <1>5, LevelsHold
  <2> HIDE DEF last, hits
  <2>2. ASSUME NEW e \in last PROVE e \in Match(catalog, method, path)
    <3>1. e \in hits
      BY <2>1 DEF LevelHolds
    <3>2. ASSUME NEW d \in hits, MoreSpecific(d.template, e.template) PROVE FALSE
      <4>0. /\ d.template \in Seq(SUBSET Segments) /\ Fits(d.template, path)
            /\ e.template \in Seq(SUBSET Segments) /\ Fits(e.template, path)
        BY <3>1, HitsFit DEF hits
      <4>1. DOMAIN d.template = 1 .. Len(path) /\ DOMAIN e.template = 1 .. Len(path)
        BY <4>0, FittingTemplates
      <4>2. PICK i \in 1 .. Len(path) : /\ d.template[i] # {} /\ e.template[i] = {}
                                        /\ \A j \in 1 .. i - 1 : d.template[j] = {} <=> e.template[j] = {}
        BY <3>2, <4>1 DEF MoreSpecific
      <4>3. Agree(e, d, i - 1)
        BY <4>2 DEF Agree
      <4> QED
        BY <2>1, <4>2, <4>3 DEF LevelHolds, Unbeaten
    <3> QED
      BY <3>1, <3>2 DEF Match, hits
  <2>3. PICK e : e \in last
    BY <2>1 DEF LevelHolds
  <2>4. \A d \in Match(catalog, method, path) : d = e
    BY <2>2, <2>3, MatchIsUnambiguous
  <2> QED
    BY <1>2, <2>2, <2>3, <2>4 DEF last
<1> QED
  BY <1>4, <1>5

\* A request some entry fits is never lost between two templates: exactly one entry decides about it.
THEOREM MatchDecides ==
  ASSUME NEW catalog \in Seq(Entries), ValidCatalog(catalog),
         NEW method, NEW path \in Seq(Segments), Hits(catalog, method, path) # {}
  PROVE  \E e \in Hits(catalog, method, path) : Match(catalog, method, path) = {e}
<1> DEFINE hits == Hits(catalog, method, path)
<1>1. Len(path) \in Nat
  OBVIOUS
<1>2. PICK f \in Levels(hits, Len(path)) : Descent(catalog, method, path) = f[Len(path)]
  BY <1>1, DescentIsLastLevel
<1>3. LevelHolds(hits, f[Len(path)], Len(path))
  BY <1>1, LevelsHold
<1>4. PICK e : e \in Descent(catalog, method, path)
  BY <1>2, <1>3 DEF LevelHolds
<1>5. e \in Match(catalog, method, path)
  BY <1>4, MatchIsTheDescent
<1>6. e \in hits
  BY <1>5 DEF Match
<1>7. \A d \in Match(catalog, method, path) : d = e
  BY <1>5, MatchIsUnambiguous
<1> QED
  BY <1>5, <1>6, <1>7

----------------------------------------------------------------------------
(* The inductive invariant: the tenant *)

Vaulted ==
  /\ vault \in [VaultNames -> SUBSET DOMAIN cfg.agents]
  /\ \A n \in VaultNames : \A i \in vault[n] : VaultName(cfg.agents[i]) = n

WorldHolds ==
  /\ now \in 0 .. MaxTime
  /\ tenant \in DOMAIN Configs /\ ValidConfig(cfg)
  /\ Vaulted
  /\ open = Opened

----------------------------------------------------------------------------
(* The requests *)

\* What can be found in the field held.
HeldSets ==
  {{}} \cup {PermissionsOf(cfg.policy, token, n) :
               token \in {t \in Tokens : t.issuer \in DOMAIN cfg.policy.issuers}, n \in 0 .. MaxTime}

Answers == [framing : {"counted", "marked", "closed"}, meant : Nat, got : Nat, echo : BOOLEAN]

RequestType ==
  [at : Stages, ask : SUBSET DOMAIN cfg.asks, held : HeldSets, told : SUBSET BOOLEAN,
   cred : SUBSET DOMAIN cfg.agents, answer : Answers]

OpenTo(a) == {g \in GateNames : a \in open[g]}

\* The request asks for a, with a token of an issuer the tenant trusts.
AsksFor(q, a, token) ==
  /\ a \in DOMAIN cfg.asks /\ q.ask = {a} /\ cfg.asks[a].token = {token}
  /\ token.issuer \in DOMAIN cfg.policy.issuers

\* The gates that are sure to be passed: that of the permission only if no ceiling is hidden.
Sure == {g \in GateNames : g = "permission" => NoHiddenCeiling(cfg)}

\* The gates a request has passed, stage by stage.
LetThrough(q, gates, a) ==
  /\ OpenTo(a) \subseteq gates
  /\ q.at # "key" => {"token", "grant", "status"} \subseteq gates
  /\ q.told = {TRUE} => "issuer" \in gates
  /\ q.at = "ask" /\ (cfg.asks[a].route # {} => Wanted[tenant][a] # {}) /\ Wanted[tenant][a] \subseteq q.held
       => Sure \cap {"permission"} \subseteq gates
  /\ q.at \in {"body", "head", "answer", "app"} => Sure \subseteq gates

\* The way it goes after that, and what it has with it.
Provided(q, a, token) ==
  /\ q.at = "app" => cfg.asks[a].route = {}
  /\ q.at \in {"body", "head", "answer"} => cfg.asks[a].route # {}
  /\ q.at \in {"head", "answer"} <=> q.cred # {}
  /\ \A i \in q.cred : \E j \in DOMAIN cfg.agents :
       IsFor(cfg.agents[j], token) /\ VaultName(cfg.agents[j]) = VaultName(cfg.agents[i])
  /\ q.answer.got <= MaxBytes /\ q.answer.got <= q.answer.meant

StageHolds(q, gates, a, token) == AsksFor(q, a, token) /\ LetThrough(q, gates, a) /\ Provided(q, a, token)

RequestHolds(r, a, token) == StageHolds(req[r], passed[r], a, token)

RequestsHold ==
  /\ req \in [Requests -> RequestType] /\ passed \in [Requests -> SUBSET GateNames]
  /\ \A r \in Requests :
       /\ req[r].at = "idle" => req[r] = NoRequest /\ passed[r] = {}
       /\ req[r].at # "idle" =>
            \E a \in DOMAIN cfg.asks : \E token \in cfg.asks[a].token : RequestHolds(r, a, token)

----------------------------------------------------------------------------
(* The audit log *)

Busy == {r \in Requests : req[r].at # "idle"}

LogsTyped ==
  /\ ring \in Seq(Records) /\ queue \in Seq(Records) /\ file \in Seq(Records) /\ failed \in Seq(Records)
  /\ Len(ring) <= Size

\* Every request in progress has room for its record.
RoomLeft == count \in Nat /\ count + Cardinality(Busy) <= MaxRecords

AuditHolds == LogsTyped /\ RoomLeft /\ AuditIsInOrder

IInv == WorldHolds /\ RequestsHold /\ AuditHolds

----------------------------------------------------------------------------
(* What the tenant's configuration says, and what the code makes of it *)

LEMMA TenantTyped ==
  ASSUME WorldHolds
  PROVE  /\ IsFiniteSet(DOMAIN cfg.policy.issuers)
         /\ \A id \in DOMAIN cfg.policy.issuers :
              cfg.policy.issuers[id].introspect \subseteq {"always", "for-permissions", "never"}
         /\ Len(cfg.policy.grants) \in Nat /\ DOMAIN cfg.policy.grants = 1 .. Len(cfg.policy.grants)
         /\ cfg.catalog \in Seq(Entries) /\ ValidCatalog(cfg.catalog)
         /\ \A a \in DOMAIN cfg.asks :
              /\ \A token \in cfg.asks[a].token : cfg.asks[a].token = {token}
              /\ \A route \in cfg.asks[a].route : cfg.asks[a].route = {route} /\ route.raw \in Seq(Segments)
<1>1. tenant \in DOMAIN Configs /\ cfg = Configs[tenant] /\ ValidConfig(cfg)
  BY DEF WorldHolds, cfg
<1>2. /\ IsFiniteSet(DOMAIN cfg.policy.issuers)
      /\ \A id \in DOMAIN cfg.policy.issuers :
           cfg.policy.issuers[id].introspect \subseteq {"always", "for-permissions", "never"}
      /\ Len(cfg.policy.grants) \in Nat /\ DOMAIN cfg.policy.grants = 1 .. Len(cfg.policy.grants)
      /\ cfg.catalog \in Seq(Entries)
  BY <1>1, ConfigsAssumption
<1>3. ASSUME NEW a \in DOMAIN cfg.asks
      PROVE  /\ \A token, other \in cfg.asks[a].token : token = other
             /\ \A route, other \in cfg.asks[a].route : route = other
             /\ \A route \in cfg.asks[a].route : route.raw \in Seq(Segments)
  BY <1>1, <1>3, ConfigsAssumption
<1>4. ASSUME NEW a \in DOMAIN cfg.asks
      PROVE  /\ \A token \in cfg.asks[a].token : cfg.asks[a].token = {token}
             /\ \A route \in cfg.asks[a].route : cfg.asks[a].route = {route} /\ route.raw \in Seq(Segments)
  BY <1>3
<1>5. ValidCatalog(cfg.catalog)
  BY <1>1 DEF ValidConfig
<1> QED
  BY <1>2, <1>4, <1>5

\* A gate that a request finds open is one of those that are open to it.
LEMMA OpenGate ==
  ASSUME WorldHolds, NEW a \in DOMAIN cfg.asks, NEW token \in cfg.asks[a].token,
         token.issuer \in DOMAIN cfg.policy.issuers, NEW g \in GateNames, GateOpen(g, a, token)
  PROVE  g \in OpenTo(a)
<1>1. a \in Opened[g]
  BY DEF Opened
<1> QED
  BY <1>1 DEF WorldHolds, OpenTo

LEMMA TokenGate ==
  ASSUME NEW a, NEW token, Acceptable(cfg.policy, token, now)
  PROVE  GateOpen("token", a, token)
  BY DEF GateOpen

LEMMA StatusGate ==
  ASSUME NEW a, NEW token, ~ Revoked(token)
  PROVE  GateOpen("status", a, token)
  BY DEF GateOpen

\* The grant that counts is one that names the agent and has not ended.
LEMMA GrantCounts ==
  ASSUME NEW token, NEW g \in GrantOf(cfg.policy, token, now)
  PROVE  g \in GrantsFor(token) /\ ~ Expired(g, now)
  BY DEF GrantOf, FirstGrant, GrantsFor

LEMMA GrantGate ==
  ASSUME NEW a, NEW token, Authorized(cfg.policy, token, now)
  PROVE  GateOpen("grant", a, token)
<1>1. CASE cfg.policy.issuers[token.issuer].open
  BY <1>1 DEF GateOpen
<1>2. CASE GrantOf(cfg.policy, token, now) # {}
  <2>1. PICK g : g \in GrantOf(cfg.policy, token, now)
    BY <1>2
  <2> QED
    BY <2>1, GrantCounts DEF GateOpen
<1> QED
  BY <1>1, <1>2 DEF Authorized

\* If any grant names the agent there is a first one.
LEMMA FirstGrantExists ==
  ASSUME WorldHolds, NEW token, GrantsFor(token) # {}
  PROVE  FirstGrant(cfg.policy.grants, token) # {}
<1> DEFINE grants == cfg.policy.grants
           those  == {n \in DOMAIN grants : Names(grants[n], token)}
<1>1. Len(grants) \in Nat /\ DOMAIN grants = 1 .. Len(grants)
  BY TenantTyped
<1>2. those # {} /\ those \in SUBSET Nat
  BY <1>1 DEF GrantsFor
<1>3. PICK n \in those : \A m \in those : n <= m
  <2> HIDE DEF those
  <2> QED
    BY <1>2, LeastNumber
<1>4. ASSUME NEW l \in 1 .. n - 1 PROVE ~ Names(grants[l], token)
  <2>1. n \in 1 .. Len(grants)
    BY <1>1
  <2>2. l \in 1 .. Len(grants) /\ ~ (n <= l)
    BY <1>1, <2>1
  <2> QED
    BY <1>1, <1>3, <2>2
<1>5. grants[n] \in FirstGrant(grants, token)
  BY <1>3, <1>4 DEF FirstGrant
<1> QED
  BY <1>5

\* Where no ceiling is hidden, no grant in force is passed over for one that has ended.
LEMMA NoneInForce ==
  ASSUME WorldHolds, NoHiddenCeiling(cfg), NEW a \in DOMAIN cfg.asks, NEW token \in cfg.asks[a].token,
         cfg.policy.issuers[token.issuer].open, GrantOf(cfg.policy, token, now) = {}
  PROVE  \A g \in GrantsFor(token) : Expired(g, now)
<1> DEFINE grants == cfg.policy.grants
<1> SUFFICES ASSUME NEW n \in DOMAIN grants, Names(grants[n], token), ~ Expired(grants[n], now)
             PROVE  FALSE
  BY DEF GrantsFor
<1>1. Len(grants) \in Nat /\ DOMAIN grants = 1 .. Len(grants)
  BY TenantTyped
<1>2. PICK h : h \in FirstGrant(grants, token)
  BY FirstGrantExists DEF GrantsFor
<1>3. PICK m \in DOMAIN grants :
        /\ grants[m] = h /\ Names(grants[m], token)
        /\ \A l \in 1 .. m - 1 : ~ Names(grants[l], token)
  BY <1>2 DEF FirstGrant
<1>4. Expired(grants[m], now)
  BY <1>2, <1>3 DEF GrantOf
<1>5. m < n
  <2>1. m \in Nat /\ n \in Nat /\ 1 <= n /\ m # n
    BY <1>1, <1>4
  <2>2. ~ (n \in 1 .. m - 1)
    BY <1>3
  <2> QED
    BY <2>1, <2>2
<1>6. grants[m].issuer = token.issuer
  BY <1>3 DEF Names
<1>7. grants[m].until = {}
  BY <1>3, <1>5, <1>6 DEF NoHiddenCeiling
<1> QED
  BY <1>4, <1>7 DEF Expired

\* What an agent that is let in is found to hold, it has: a scope of its token stands for it, and either a
\* grant in force that names the agent covers it, or its issuer is open and no grant in force names the
\* agent.  The code looks at the first grant only (findGrant, effectivePermissions); the theorem asks
\* that no first grant of an open issuer can end and so hide the ceiling of a later one.
THEOREM HeldIsHad ==
  ASSUME WorldHolds, NoHiddenCeiling(cfg), NEW a \in DOMAIN cfg.asks, NEW token \in cfg.asks[a].token,
         Authorized(cfg.policy, token, now), NEW p \in PermissionsOf(cfg.policy, token, now)
  PROVE  Has(token, p)
<1> DEFINE issuer == cfg.policy.issuers[token.issuer]
           counts == GrantOf(cfg.policy, token, now)
<1>1. /\ p \in MapScopes(ScopesOf(token), issuer.scopeMap)
      /\ \A g \in counts : \A ceiling \in g.ceiling : p \in ceiling
  BY DEF PermissionsOf, EffectivePermissions
<1>2. CASE counts # {}
  <2>1. PICK g : g \in counts
    BY <1>2
  <2>2. g \in GrantsFor(token) /\ ~ Expired(g, now)
    BY <2>1, GrantCounts
  <2> QED
    BY <1>1, <2>1, <2>2 DEF Has
<1>3. CASE counts = {}
  <2>1. issuer.open
    BY <1>3 DEF Authorized
  <2>2. \A g \in GrantsFor(token) : Expired(g, now)
    BY <1>3, <2>1, NoneInForce
  <2> QED
    BY <1>1, <2>1, <2>2 DEF Has
<1> QED
  BY <1>2, <1>3

\* An acceptable target is one path.
LEMMA OnePath ==
  ASSUME WorldHolds, NEW a \in DOMAIN cfg.asks, NEW path \in Paths(cfg.asks[a])
  PROVE  path \in Seq(Segments) /\ Paths(cfg.asks[a]) = {path}
<1>1. PICK route \in cfg.asks[a].route : path \in ParseTarget(route.raw)
  BY DEF Paths
<1>2. cfg.asks[a].route = {route} /\ route.raw \in Seq(Segments)
  BY <1>1, TenantTyped
<1>3. \A other \in ParseTarget(route.raw) : other = IF route.raw = <<Blank>> THEN <<>> ELSE route.raw
  BY DEF ParseTarget
<1>4. path \in Seq(Segments)
  <2>1. <<>> \in Seq(Segments)
    OBVIOUS
  <2> QED
    BY <1>1, <1>2, <1>3, <2>1
<1>5. \A other \in Paths(cfg.asks[a]) : other \in ParseTarget(route.raw)
  BY <1>2 DEF Paths
<1> QED
  BY <1>1, <1>3, <1>4, <1>5

\* What the code finds a request to need is what it wants, said of the catalog by descent.
LEMMA NeedsAreWants ==
  ASSUME WorldHolds, NEW a \in DOMAIN cfg.asks, NEW needed \in Needed(cfg.asks[a])
  PROVE  needed = Wanted[tenant][a] /\ (cfg.asks[a].route # {} => needed # {})
<1> DEFINE ask == cfg.asks[a]
<1>1. Wanted[tenant][a] =
        IF ask.route = {} THEN ask.needs
        ELSE {e.permission : e \in UNION {Descent(cfg.catalog, route.method, path) :
                                            route \in ask.route, path \in Paths(ask)}}
  BY DEF WorldHolds, Wanted, cfg
<1>2. CASE ask.route = {}
  BY <1>1, <1>2 DEF Needed
<1>3. CASE ask.route # {}
  <2>0. PICK route \in ask.route, path \in Paths(ask) :
          \E e \in Match(cfg.catalog, route.method, path) : needed = {e.permission}
    BY <1>3 DEF Needed
  <2>1. PICK e \in Match(cfg.catalog, route.method, path) : needed = {e.permission}
    BY <2>0
  <2>2. ask.route = {route} /\ Paths(ask) = {path} /\ path \in Seq(Segments)
    BY <2>0, OnePath, TenantTyped
  <2>3. Match(cfg.catalog, route.method, path) = Descent(cfg.catalog, route.method, path)
    BY <2>2, MatchIsTheDescent, TenantTyped
  <2>4. \A d \in Match(cfg.catalog, route.method, path) : d = e
    BY <2>1, <2>2, MatchIsUnambiguous, TenantTyped
  <2>5. UNION {Descent(cfg.catalog, other.method, p) : other \in ask.route, p \in Paths(ask)} = {e}
    BY <2>1, <2>2, <2>3, <2>4
  <2>6. Wanted[tenant][a] = {e.permission}
    BY <1>1, <1>3, <2>5
  <2> QED
    BY <2>1, <2>6
<1> QED
  BY <1>2, <1>3

LEMMA PermissionGate ==
  ASSUME WorldHolds, NoHiddenCeiling(cfg), NEW a \in DOMAIN cfg.asks, NEW token \in cfg.asks[a].token,
         Authorized(cfg.policy, token, now), cfg.asks[a].route # {} => Wanted[tenant][a] # {},
         Wanted[tenant][a] \subseteq PermissionsOf(cfg.policy, token, now)
  PROVE  GateOpen("permission", a, token)
  BY HeldIsHad DEF GateOpen

\* An issuer that does not have to be asked lets everybody through its gate.
LEMMA NotAskedGate ==
  ASSUME WorldHolds, NEW a, NEW token, token.issuer \in DOMAIN cfg.policy.issuers, NEW held, NEW needs,
         ~ NeedAsk(cfg.policy, token, needs, held), Wanted[tenant][a] \subseteq held
  PROVE  GateOpen("issuer", a, token)
<1> DEFINE issuer == cfg.policy.issuers[token.issuer]
<1>1. Modes(issuer) # {} /\ Modes(issuer) \subseteq {"always", "for-permissions", "never"}
  BY TenantTyped DEF Modes
<1>2. /\ "always" \notin Modes(issuer)
      /\ "for-permissions" \in Modes(issuer) => (needs \cup held) \cap issuer.sensitive = {}
  BY DEF NeedAsk
<1>3. \/ "never" \in Modes(issuer)
      \/ "for-permissions" \in Modes(issuer) /\ Wanted[tenant][a] \cap issuer.sensitive = {}
  BY <1>1, <1>2
<1> QED
  BY <1>3 DEF GateOpen

LEMMA ToldGate ==
  ASSUME NEW a, NEW token, token.agent \notin inactive
  PROVE  GateOpen("issuer", a, token)
  BY DEF GateOpen

\* In every valid configuration the entries findAgent looks through, those without an issuer among them, are
\* those of the agent at the issuer of its token, and no entry of an agent of another issuer.
THEOREM OwnEntries ==
  ASSUME WorldHolds, NEW token, token.issuer \in DOMAIN cfg.policy.issuers, NEW i \in DOMAIN cfg.agents
  PROVE  i \in AgentHits(token) <=> IsFor(cfg.agents[i], token)
<1> DEFINE entry == cfg.agents[i]
           ids   == DOMAIN cfg.policy.issuers
<1>1. /\ entry.issuer \subseteq ids
      /\ Cardinality(ids) > 1 => entry.issuer # {}
  BY DEF WorldHolds, ValidConfig
<1>2. ASSUME entry.issuer = {} PROVE ids = {token.issuer}
  <2>1. IsFiniteSet(ids) /\ Cardinality(ids) \in Nat
    BY TenantTyped, FS_CardinalityType
  <2>2. ~ (Cardinality(ids) > 1)
    BY <1>1, <1>2
  <2>3. IsFiniteSet(ids \ {token.issuer}) /\ Cardinality(ids \ {token.issuer}) = Cardinality(ids) - 1
    BY <2>1, FS_RemoveElement
  <2>4. Cardinality(ids \ {token.issuer}) \in Nat
    BY <2>3, FS_CardinalityType
  <2>5. Cardinality(ids \ {token.issuer}) = 0
    BY <2>1, <2>2, <2>3, <2>4
  <2>6. ids \ {token.issuer} = {}
    BY <2>3, <2>5, FS_EmptySet
  <2> QED
    BY <2>6
<1>3. entry.issuer \subseteq {token.issuer} <=>
        entry.issuer = {token.issuer} \/ (entry.issuer = {} /\ ids = {token.issuer})
  BY <1>2
<1> QED
  BY <1>3 DEF AgentHits, IsFor

LEMMA AgentGate ==
  ASSUME WorldHolds, NEW a, NEW token, token.issuer \in DOMAIN cfg.policy.issuers,
         cfg.asks[a].route # {} => FindAgent(token) # {}
  PROVE  GateOpen("agent", a, token)
<1> DEFINE mine == {i \in DOMAIN cfg.agents : IsFor(cfg.agents[i], token)}
<1>1. AgentHits(token) = mine
  BY OwnEntries DEF AgentHits
<1>2. FindAgent(token) # {} => mine # {} /\ \A i \in mine : ~ cfg.agents[i].off
  BY <1>1 DEF FindAgent
<1> QED
  BY <1>2 DEF GateOpen


----------------------------------------------------------------------------
(* What a step does to the requests and the gates they have seen *)

\* The configuration is the tenant's, and stays.
LEMMA SameTenant ==
  ASSUME tenant' = tenant
  PROVE  cfg' = cfg /\ RequestType' = RequestType /\ HeldSets' = HeldSets /\ VaultNames' = VaultNames
<1>1. cfg' = cfg
  BY DEF cfg
<1>2. Tokens' = Tokens
  BY <1>1 DEF Tokens
<1>3. HeldSets' = HeldSets
  BY <1>1, <1>2 DEF HeldSets, PermissionsOf, EffectivePermissions, GrantOf
<1> QED
  BY <1>1, <1>3 DEF RequestType, VaultNames

LEMMA SameGates ==
  ASSUME open' = open
  PROVE  \A a : OpenTo(a)' = OpenTo(a)
  BY DEF OpenTo

LEMMA NoRequestIsOne ==
  ASSUME LimitsAssumption
  PROVE  NoRequest \in RequestType /\ NoRequest.at = "idle"
  BY DEF NoRequest, NoAnswer, RequestType, Stages, HeldSets, Answers

LEMMA Observed ==
  ASSUME Observe, NEW r \in Requests, NEW a, req'[r].at # "idle", req'[r].ask = {a}
  PROVE  passed'[r] = passed[r] \cup OpenTo(a)'
  BY DEF Observe, OpenTo

LEMMA IdleObserved ==
  ASSUME Observe, NEW r \in Requests, req'[r].at = "idle"
  PROVE  passed'[r] = {}
  BY DEF Observe

LEMMA PassedIsTyped ==
  ASSUME RequestsHold, Observe
  PROVE  passed' \in [Requests -> SUBSET GateNames]
<1>1. \A r \in Requests : passed[r] \in SUBSET GateNames
  BY DEF RequestsHold
<1> QED
  BY <1>1 DEF Observe

\* What holds of a request at its stage holds when more gates have been seen open.
LEMMA StageKept ==
  ASSUME tenant' = tenant, NEW q, NEW a, NEW token, NEW gates, StageHolds(q, gates, a, token),
         NEW r \in Requests, req'[r] = q,
         gates \subseteq passed'[r], passed'[r] \in SUBSET GateNames, OpenTo(a)' \subseteq passed'[r]
  PROVE  RequestHolds(r, a, token)'
<1>1. cfg' = cfg
  BY SameTenant
<1>2. AsksFor(req[r], a, token)'
  BY <1>1 DEF StageHolds, AsksFor
<1>3. LetThrough(req[r], passed[r], a)'
  <2>1. Sure' = Sure
    BY <1>1 DEF Sure, NoHiddenCeiling
  <2>2. LetThrough(q, gates, a)
    BY DEF StageHolds
  <2>3. "key" # q.at => {"token", "grant", "status"} \subseteq passed'[r]
    BY <2>2 DEF LetThrough
  <2>4. q.told = {TRUE} => "issuer" \in passed'[r]
    BY <2>2 DEF LetThrough
  <2>5. q.at = "ask" /\ (cfg'.asks[a].route # {} => Wanted[tenant'][a] # {}) /\ Wanted[tenant'][a] \subseteq q.held
          => Sure' \cap {"permission"} \subseteq passed'[r]
    BY <1>1, <2>1, <2>2 DEF LetThrough
  <2>6. q.at \in {"body", "head", "answer", "app"} => Sure' \subseteq passed'[r]
    BY <2>1, <2>2 DEF LetThrough
  <2> QED
    BY <2>3, <2>4, <2>5, <2>6 DEF LetThrough
<1>4. Provided(req[r], a, token)'
  <2>1. Provided(q, a, token)
    BY DEF StageHolds
  <2>2. \A i \in q.cred : \E j \in DOMAIN cfg'.agents :
          IsFor(cfg.agents[j], token)' /\ VaultName(cfg'.agents[j]) = VaultName(cfg'.agents[i])
    <3>1. \A j : IsFor(cfg.agents[j], token)' <=> IsFor(cfg.agents[j], token)
      BY <1>1 DEF IsFor
    <3> QED
      BY <1>1, <2>1, <3>1 DEF Provided
  <2>3. /\ q.at = "app" => cfg'.asks[a].route = {}
        /\ q.at \in {"body", "head", "answer"} => cfg'.asks[a].route # {}
        /\ q.at \in {"head", "answer"} <=> q.cred # {}
        /\ q.answer.got <= MaxBytes /\ q.answer.got <= q.answer.meant
    BY <1>1, <2>1 DEF Provided
  <2> QED
    BY <2>2, <2>3 DEF Provided
<1> QED
  BY <1>2, <1>3, <1>4 DEF RequestHolds, StageHolds

LEMMA InProgress ==
  ASSUME RequestsHold, NEW r \in Requests, req[r].at # "idle"
  PROVE  \E a, token : RequestHolds(r, a, token)
  BY DEF RequestsHold

\* A request in progress asks one thing, with one token.
LEMMA AskAndToken ==
  ASSUME NEW r, NEW a, NEW token, RequestHolds(r, a, token)
  PROVE  /\ a \in DOMAIN cfg.asks /\ req[r].ask = {a} /\ AsksOf(r) = {cfg.asks[a]}
         /\ cfg.asks[a].token = {token} /\ token.issuer \in DOMAIN cfg.policy.issuers
  BY DEF RequestHolds, StageHolds, AsksFor, AsksOf

\* Enough for RequestsHold after a step: each request is in place.
LEMMA EachHolds ==
  ASSUME RequestsHold, Observe, req' \in [Requests -> RequestType], tenant' = tenant,
         \A r \in Requests :
           /\ req'[r].at = "idle" => req'[r] = NoRequest
           /\ req'[r].at # "idle" => \E a, token : RequestHolds(r, a, token)'
  PROVE  RequestsHold'
<1>1. req' \in [Requests -> RequestType']
  BY SameTenant
<1>2. passed' \in [Requests -> SUBSET GateNames]
  BY PassedIsTyped
<1>3. ASSUME NEW r \in Requests, req'[r].at # "idle"
      PROVE  \E a \in DOMAIN cfg'.asks : \E token \in cfg'.asks[a].token : RequestHolds(r, a, token)'
  <2>1. PICK a, token : RequestHolds(r, a, token)'
    BY <1>3
  <2>2. a \in DOMAIN cfg'.asks /\ token \in cfg'.asks[a].token
    BY <2>1 DEF RequestHolds, StageHolds, AsksFor
  <2> QED
    BY <2>1, <2>2
<1> QED
  BY <1>1, <1>2, <1>3, IdleObserved DEF RequestsHold

\* A request that stays where it is.
LEMMA OneStays ==
  ASSUME RequestsHold, Observe, tenant' = tenant, NEW r \in Requests, req'[r] = req[r]
  PROVE  /\ req'[r].at = "idle" => req'[r] = NoRequest /\ passed'[r] = {}
         /\ req'[r].at # "idle" => \E a, token : RequestHolds(r, a, token)'
         /\ open' = open => passed'[r] = passed[r]
<1>1. CASE req[r].at = "idle"
  BY <1>1, IdleObserved DEF RequestsHold
<1>2. CASE req[r].at # "idle"
  <2>1. PICK a, token : RequestHolds(r, a, token)
    BY <1>2, InProgress
  <2>2. req[r].ask = {a} /\ OpenTo(a) \subseteq passed[r]
    BY <2>1 DEF RequestHolds, StageHolds, AsksFor, LetThrough
  <2>3. passed'[r] = passed[r] \cup OpenTo(a)'
    BY <1>2, <2>2, Observed
  <2>4. passed'[r] \in SUBSET GateNames
    BY PassedIsTyped
  <2>5. StageHolds(req[r], passed[r], a, token)
    BY <2>1 DEF RequestHolds
  <2>6. RequestHolds(r, a, token)'
    BY <2>3, <2>4, <2>5, StageKept
  <2> QED
    BY <1>2, <2>2, <2>3, <2>6, SameGates
<1> QED
  BY <1>1, <1>2

LEMMA RequestsStay ==
  ASSUME RequestsHold, Observe, tenant' = tenant, UNCHANGED req
  PROVE  RequestsHold' /\ (open' = open => passed' = passed)
<1>1. req' \in [Requests -> RequestType]
  BY DEF RequestsHold
<1>2. ASSUME NEW r \in Requests
      PROVE  /\ req'[r].at = "idle" => req'[r] = NoRequest
             /\ req'[r].at # "idle" => \E a, token : RequestHolds(r, a, token)'
             /\ open' = open => passed'[r] = passed[r]
  BY OneStays
<1>3. RequestsHold'
  BY <1>1, <1>2, EachHolds
<1>4. passed \in [Requests -> SUBSET GateNames] /\ passed' \in [Requests -> SUBSET GateNames]
  BY PassedIsTyped DEF RequestsHold
<1> QED
  BY <1>2, <1>3, <1>4

\* One request gets to a stage of which all holds that should; the others stay where they are.
LEMMA OneRequest ==
  ASSUME RequestsHold, Observe, UNCHANGED worldVars, NEW r \in Requests,
         NEW new \in RequestType, new.at # "idle", req' = [req EXCEPT ![r] = new],
         NEW a, NEW token, StageHolds(new, passed[r] \cup OpenTo(a), a, token)
  PROVE  RequestsHold' /\ passed' = [passed EXCEPT ![r] = passed[r] \cup OpenTo(a)]
<1>0. tenant' = tenant /\ open' = open
  BY DEF worldVars
<1>1. /\ req' \in [Requests -> RequestType] /\ req'[r] = new
      /\ \A q \in Requests \ {r} : req'[q] = req[q]
  BY DEF RequestsHold
<1>2. new.ask = {a}
  BY DEF StageHolds, AsksFor
<1>3. passed'[r] = passed[r] \cup OpenTo(a)
  BY <1>0, <1>1, <1>2, Observed, SameGates
<1>4. passed'[r] \in SUBSET GateNames
  BY PassedIsTyped
<1>5. RequestHolds(r, a, token)'
  BY <1>0, <1>1, <1>3, <1>4, SameGates, StageKept
<1>6. ASSUME NEW q \in Requests \ {r}
      PROVE  /\ req'[q].at = "idle" => req'[q] = NoRequest
             /\ req'[q].at # "idle" => \E b, other : RequestHolds(q, b, other)'
             /\ passed'[q] = passed[q]
  BY <1>0, <1>1, OneStays
<1>7. RequestsHold'
  BY <1>0, <1>1, <1>5, <1>6, EachHolds
<1>8. passed \in [Requests -> SUBSET GateNames] /\ passed' \in [Requests -> SUBSET GateNames]
  BY PassedIsTyped DEF RequestsHold
<1> QED
  BY <1>3, <1>6, <1>7, <1>8

\* One request is over.
LEMMA OneEnds ==
  ASSUME RequestsHold, Observe, UNCHANGED worldVars, NEW r \in Requests,
         req' = [req EXCEPT ![r] = NoRequest]
  PROVE  RequestsHold' /\ passed' = [passed EXCEPT ![r] = {}]
<1>0. tenant' = tenant /\ open' = open
  BY DEF worldVars
<1>1. /\ req' \in [Requests -> RequestType] /\ req'[r] = NoRequest /\ req'[r].at = "idle"
      /\ \A q \in Requests \ {r} : req'[q] = req[q]
  BY NoRequestIsOne, LimitsAssumption DEF RequestsHold
<1>2. passed'[r] = {}
  BY <1>1, IdleObserved
<1>3. ASSUME NEW q \in Requests \ {r}
      PROVE  /\ req'[q].at = "idle" => req'[q] = NoRequest
             /\ req'[q].at # "idle" => \E b, other : RequestHolds(q, b, other)'
             /\ passed'[q] = passed[q]
  BY <1>0, <1>1, OneStays
<1>4. RequestsHold'
  BY <1>0, <1>1, <1>3, EachHolds
<1>5. passed \in [Requests -> SUBSET GateNames] /\ passed' \in [Requests -> SUBSET GateNames]
  BY PassedIsTyped DEF RequestsHold
<1> QED
  BY <1>2, <1>3, <1>4, <1>5

\* All are over.
LEMMA AllEnd ==
  ASSUME RequestsHold, Observe, tenant' = tenant, req' = [r \in Requests |-> NoRequest]
  PROVE  RequestsHold' /\ passed' = [r \in Requests |-> {}]
<1>1. req' \in [Requests -> RequestType] /\ \A r \in Requests : req'[r] = NoRequest /\ req'[r].at = "idle"
  BY NoRequestIsOne, LimitsAssumption
<1>2. RequestsHold'
  BY <1>1, EachHolds
<1>3. passed' \in [Requests -> SUBSET GateNames] /\ \A r \in Requests : passed'[r] = {}
  BY <1>1, PassedIsTyped, IdleObserved
<1> QED
  BY <1>2, <1>3

----------------------------------------------------------------------------
(* What a step of a request comes to *)

Sent == {"head", "answer", "app"}

Recorded(decision, named) ==
  /\ count' = count + 1
  /\ Audit!Record([id |-> count + 1, decision |-> decision, named |-> named])

\* It is refused on arrival, without ever having been in progress;
RefusedAtOnce(r) ==
  /\ req[r].at = "idle" /\ UNCHANGED req
  /\ count + Cardinality(Busy) < MaxRecords
  /\ UNCHANGED auditVars \/ \E decision \in {"allow", "deny", "error"} : Recorded(decision, FALSE)

Arrived(a) == [NoRequest EXCEPT !.at = "key", !.ask = {a}]

\* or is in progress from now on;
Begins(r, a, token) ==
  /\ req[r].at = "idle" /\ AsksFor(Arrived(a), a, token)
  /\ req' = [req EXCEPT ![r] = Arrived(a)]
  /\ count + Cardinality(Busy) < MaxRecords
  /\ UNCHANGED auditVars

\* or gets to a stage that the gates it has seen open are enough for;
GoesOn(r, a, token) ==
  /\ \E new \in RequestType :
       /\ new.at # "idle" /\ (req[r].at \in Sent => new.at \in Sent)
       /\ StageHolds(new, passed[r], a, token)
       /\ req' = [req EXCEPT ![r] = new]
  /\ UNCHANGED auditVars

\* or ends with a decision that is right.
IsDecided(r, a, decision, named) ==
  /\ decision \in {"allow", "deny", "error"} /\ named \in BOOLEAN
  /\ decision = "deny" => req[r].cred = {}
  /\ decision = "allow" /\ cfg.asks[a].route # {} =>
       /\ req[r].cred # {} /\ ~ req[r].answer.echo
       /\ req[r].answer.got = req[r].answer.meant \/ req[r].answer.framing = "closed"
  /\ named => {"token", "grant", "status"} \subseteq passed[r]
  /\ Record(cfg.asks[a], decision, named)
  /\ req' = [req EXCEPT ![r] = NoRequest]

Decided(r, a) == \E decision, named : IsDecided(r, a, decision, named)

LEMMA ArriveCases ==
  ASSUME RequestsHold, WorldHolds, NEW r \in Requests, NEW a \in DOMAIN cfg.asks, Arrive(r, a)
  PROVE  RefusedAtOnce(r) \/ \E token : Begins(r, a, token)
<1>1. req[r].at = "idle" /\ count + Cardinality(Busy) < MaxRecords
  BY DEF Arrive, Busy
<1>2. CASE UNCHANGED req /\ \E decision \in Decisions(cfg.asks[a]) : Record(cfg.asks[a], decision, FALSE)
  BY <1>1, <1>2 DEF Record, RefusedAtOnce, Recorded, Decisions
<1>3. CASE /\ \E token \in cfg.asks[a].token : Readable(token) /\ token.issuer \in DOMAIN cfg.policy.issuers
           /\ req' = [req EXCEPT ![r] = Arrived(a)] /\ UNCHANGED auditVars
  <2>1. PICK token \in cfg.asks[a].token : token.issuer \in DOMAIN cfg.policy.issuers
    BY <1>3
  <2>2. cfg.asks[a].token = {token}
    BY <2>1, TenantTyped
  <2>3. Arrived(a).ask = {a}
    BY DEF Arrived, NoRequest
  <2>4. AsksFor(Arrived(a), a, token)
    BY <2>1, <2>2, <2>3 DEF AsksFor
  <2> QED
    BY <1>1, <1>3, <2>4 DEF Begins
<1> QED
  BY <1>2, <1>3, Zenon DEF Arrive, Arrived

\* A request that closes does so for the one thing it asks.
LEMMA CloseDecides ==
  ASSUME NEW r, NEW a, NEW token, RequestHolds(r, a, token), NEW decision, NEW named, Close(r, decision, named)
  PROVE  Record(cfg.asks[a], decision, named) /\ req' = [req EXCEPT ![r] = NoRequest]
  BY AskAndToken DEF Close

\* A refusal at any stage before the credential is used.
LEMMA DenialDecides ==
  ASSUME NEW r, NEW a, NEW token, RequestHolds(r, a, token), NEW named \in BOOLEAN,
         req[r].at \notin {"head", "answer"}, named => {"token", "grant", "status"} \subseteq passed[r],
         NEW decision \in {"deny", "error"}, Close(r, decision, named)
  PROVE  Decided(r, a)
<1>1. req[r].cred = {}
  BY DEF RequestHolds, StageHolds, Provided
<1> QED
  BY <1>1, CloseDecides DEF Decided, IsDecided

\* An error is right at any stage.
LEMMA ErrorDecides ==
  ASSUME NEW r, NEW a, NEW token, RequestHolds(r, a, token),
         req[r].at \in {"body", "head", "answer"}, UpstreamError(r)
  PROVE  Decided(r, a)
<1>1. {"token", "grant", "status"} \subseteq passed[r]
  BY DEF RequestHolds, StageHolds, LetThrough
<1> QED
  BY <1>1, CloseDecides DEF Decided, IsDecided, UpstreamError

\* Passing back is right when the answer is complete, or only the end of the connection marks its end.
LEMMA PassBackDecides ==
  ASSUME NEW r, NEW a, NEW token, RequestHolds(r, a, token), req[r].at = "answer",
         req[r].answer.got = req[r].answer.meant \/ req[r].answer.framing = "closed", PassBack(r)
  PROVE  Decided(r, a)
<1>1. CASE UpstreamError(r)
  BY <1>1, ErrorDecides
<1>2. CASE ~ req[r].answer.echo /\ Close(r, "allow", TRUE)
  <2>1. {"token", "grant", "status"} \subseteq passed[r] /\ req[r].cred # {}
    BY DEF RequestHolds, StageHolds, LetThrough, Provided
  <2> QED
    BY <1>2, <2>1, CloseDecides DEF Decided, IsDecided
<1> QED
  BY <1>1, <1>2 DEF PassBack

LEMMA RefuseDecides ==
  ASSUME NEW r, NEW a, NEW token, RequestHolds(r, a, token), Refuse(r)
  PROVE  Decided(r, a)
  BY DenialDecides DEF Refuse

LEMMA NotForwardedDecides ==
  ASSUME NEW r, NEW a, NEW token, RequestHolds(r, a, token), NotForwarded(r)
  PROVE  Decided(r, a)
<1>1. {"token", "grant", "status"} \subseteq passed[r]
  BY DEF NotForwarded, RequestHolds, StageHolds, LetThrough
<1> QED
  BY <1>1, DenialDecides DEF NotForwarded

LEMMA DeadlineDecides ==
  ASSUME NEW r, NEW a, NEW token, RequestHolds(r, a, token), Deadline(r)
  PROVE  Decided(r, a)
<1>1. CASE Refuse(r)
  BY <1>1, RefuseDecides
<1>2. CASE req[r].at = "body" /\ Close(r, "error", TRUE)
  BY <1>2, ErrorDecides DEF UpstreamError
<1>3. CASE req[r].at \in {"head", "answer"} /\ UpstreamError(r)
  BY <1>3, ErrorDecides
<1> QED
  BY <1>1, <1>2, <1>3 DEF Deadline

LEMMA FinishDecides ==
  ASSUME NEW r, NEW a, NEW token, RequestHolds(r, a, token), Finish(r)
  PROVE  Decided(r, a)
<1>1. {"token", "grant", "status"} \subseteq passed[r] /\ cfg.asks[a].route = {}
  BY DEF Finish, RequestHolds, StageHolds, LetThrough, Provided
<1> QED
  BY <1>1, CloseDecides DEF Decided, IsDecided, Finish

LEMMA Fields ==
  ASSUME RequestsHold, NEW r \in Requests
  PROVE  /\ req[r] \in RequestType /\ passed[r] \in SUBSET GateNames
         /\ req[r].answer \in Answers
         /\ \A stage \in Stages : [req EXCEPT ![r].at = stage] = [req EXCEPT ![r] = [req[r] EXCEPT !.at = stage]]
  BY DEF RequestsHold, RequestType

\* A request goes on when what it becomes is right for the stage it gets to.
LEMMA Onward ==
  ASSUME NEW r, NEW a, NEW token, NEW new \in RequestType, new.at # "idle",
         req[r].at \in Sent => new.at \in Sent, StageHolds(new, passed[r], a, token),
         req' = [req EXCEPT ![r] = new], UNCHANGED auditVars
  PROVE  GoesOn(r, a, token)
  BY DEF GoesOn

\* An agent that is let in has passed all gates that are sure if it has what the request wants.
LEMMA AdmitCases ==
  ASSUME WorldHolds, RequestsHold, NEW r \in Requests, NEW a, NEW token, RequestHolds(r, a, token),
         req[r].at \in {"key", "ask"}, {"token", "grant", "status"} \subseteq passed[r], NEW held,
         (cfg.asks[a].route # {} => Wanted[tenant][a] # {}) /\ Wanted[tenant][a] \subseteq held
           => {"issuer"} \cup (Sure \cap {"permission"}) \subseteq passed[r],
         Admit(r, cfg.asks[a], token, held)
  PROVE  GoesOn(r, a, token) \/ Decided(r, a)
<1> DEFINE stage == IF cfg.asks[a].route = {} THEN "app" ELSE "body"
           new   == [req[r] EXCEPT !.at = stage]
<1>1. CASE Close(r, "deny", TRUE)
  BY <1>1, DenialDecides
<1>2. CASE /\ cfg.asks[a].route # {} => FindAgent(token) # {}
           /\ \E needed \in Needed(cfg.asks[a]) : needed \subseteq held
           /\ Advance(r, stage)
  <2>1. a \in DOMAIN cfg.asks /\ token \in cfg.asks[a].token /\ token.issuer \in DOMAIN cfg.policy.issuers
    BY AskAndToken
  <2>2. "agent" \in passed[r]
    <3>1. GateOpen("agent", a, token)
      BY <1>2, <2>1, AgentGate
    <3>2. "agent" \in OpenTo(a)
      BY <2>1, <3>1, OpenGate DEF GateNames
    <3> QED
      BY <3>2 DEF RequestHolds, StageHolds, LetThrough
  <2>3. {"issuer"} \cup (Sure \cap {"permission"}) \subseteq passed[r]
    BY <1>2, <2>1, NeedsAreWants
  <2>4. Sure \subseteq passed[r]
    <3>1. Sure \subseteq {"token", "grant", "status", "issuer", "permission", "agent"}
      BY DEF Sure, GateNames
    <3> QED
      BY <2>2, <2>3, <3>1
  <2>5. req[r] \in RequestType /\ stage \in Stages
    BY Fields DEF Stages
  <2>6. /\ new \in RequestType /\ new.at = stage /\ new.ask = req[r].ask /\ new.held = req[r].held
        /\ new.told = req[r].told /\ new.cred = req[r].cred /\ new.answer = req[r].answer
    BY <2>5 DEF RequestType
  <2>7. req' = [req EXCEPT ![r] = new] /\ UNCHANGED auditVars
    BY <1>2, <2>5, Fields DEF Advance
  <2>8. stage \in {"app", "body"} /\ (stage = "app" <=> cfg.asks[a].route = {}) /\ stage # "idle"
    OBVIOUS
  <2> HIDE DEF new, stage
  <2>9. StageHolds(new, passed[r], a, token)
    <3>1. AsksFor(new, a, token)
      BY <2>6 DEF RequestHolds, StageHolds, AsksFor
    <3>2. LetThrough(new, passed[r], a)
      BY <2>4, <2>6, <2>8 DEF RequestHolds, StageHolds, LetThrough
    <3>3. Provided(new, a, token)
      BY <2>6, <2>8 DEF RequestHolds, StageHolds, Provided
    <3> QED
      BY <3>1, <3>2, <3>3 DEF StageHolds
  <2>10. GoesOn(r, a, token)
    BY <2>6, <2>7, <2>8, <2>9, Onward DEF Sent
  <2> QED
    BY <2>10
<1> QED
  BY <1>1, <1>2 DEF Admit

\* What a gate needs is checked: the request has seen the gate open.
LEMMA SeesGate ==
  ASSUME WorldHolds, NEW r, NEW a, NEW token, RequestHolds(r, a, token), NEW g \in GateNames, GateOpen(g, a, token)
  PROVE  g \in passed[r]
<1>1. a \in DOMAIN cfg.asks /\ token \in cfg.asks[a].token /\ token.issuer \in DOMAIN cfg.policy.issuers
  BY AskAndToken
<1>2. g \in OpenTo(a)
  BY <1>1, OpenGate
<1> QED
  BY <1>2 DEF RequestHolds, StageHolds, LetThrough

LEMMA VerifyCases ==
  ASSUME WorldHolds, RequestsHold, NEW r \in Requests, NEW a, NEW token, RequestHolds(r, a, token), Verify(r)
  PROVE  GoesOn(r, a, token) \/ Decided(r, a)
<1> DEFINE held == PermissionsOf(cfg.policy, token, now)
           ask  == cfg.asks[a]
<1>0. /\ AsksOf(r) = {ask} /\ ask.token = {token} /\ a \in DOMAIN cfg.asks
      /\ token.issuer \in DOMAIN cfg.policy.issuers
  BY AskAndToken
<1>1. /\ req[r].at = "key"
      /\ Acceptable(cfg.policy, token, now) /\ Authorized(cfg.policy, token, now) /\ ~ Revoked(token)
      /\ IF NeedAsk(cfg.policy, token, ask.needs, held)
         THEN req' = [req EXCEPT ![r].at = "ask", ![r].held = held] /\ UNCHANGED auditVars
         ELSE Admit(r, ask, token, held)
  BY <1>0 DEF Verify
<1>2. {"token", "grant", "status"} \subseteq passed[r]
  BY <1>1, SeesGate, TokenGate, GrantGate, StatusGate DEF GateNames
<1>3. (ask.route # {} => Wanted[tenant][a] # {}) /\ Wanted[tenant][a] \subseteq held
        => Sure \cap {"permission"} \subseteq passed[r]
  <2> SUFFICES ASSUME ask.route # {} => Wanted[tenant][a] # {}, Wanted[tenant][a] \subseteq held,
                      NoHiddenCeiling(cfg)
               PROVE  "permission" \in passed[r]
    BY DEF Sure
  <2>1. GateOpen("permission", a, token)
    BY <1>0, <1>1, PermissionGate
  <2> QED
    BY <2>1, SeesGate DEF GateNames
<1>4. CASE ~ NeedAsk(cfg.policy, token, ask.needs, held)
  <2>1. Wanted[tenant][a] \subseteq held => "issuer" \in passed[r]
    <3>1. SUFFICES ASSUME Wanted[tenant][a] \subseteq held PROVE "issuer" \in passed[r]
      OBVIOUS
    <3>2. GateOpen("issuer", a, token)
      <4> HIDE DEF held
      <4> QED
        BY <1>0, <1>4, <3>1, NotAskedGate
    <3> QED
      BY <3>2, SeesGate DEF GateNames
  <2>2. Admit(r, ask, token, held)
    BY <1>1, <1>4
  <2> HIDE DEF held
  <2> QED
    BY <1>1, <1>2, <1>3, <2>1, <2>2, AdmitCases
<1>5. CASE NeedAsk(cfg.policy, token, ask.needs, held)
  <2> DEFINE new == [req[r] EXCEPT !.at = "ask", !.held = held]
  <2>1. req[r] \in RequestType /\ req' = [req EXCEPT ![r].at = "ask", ![r].held = held] /\ UNCHANGED auditVars
    BY <1>1, <1>5, Fields
  <2>2. held \in HeldSets
    BY <1>0 DEF HeldSets, Tokens, WorldHolds
  <2> HIDE DEF held
  <2>3. /\ new \in RequestType /\ new.at = "ask" /\ new.ask = req[r].ask /\ new.held = held
        /\ new.told = req[r].told /\ new.cred = req[r].cred /\ new.answer = req[r].answer
    BY <2>1, <2>2 DEF RequestType, Stages
  <2>4. req' = [req EXCEPT ![r] = new]
    BY <2>1
  <2> HIDE DEF new
  <2>5. StageHolds(new, passed[r], a, token)
    <3>1. AsksFor(new, a, token)
      BY <2>3 DEF RequestHolds, StageHolds, AsksFor
    <3>2. LetThrough(new, passed[r], a)
      BY <1>2, <1>3, <2>3 DEF RequestHolds, StageHolds, LetThrough
    <3>3. Provided(new, a, token)
      BY <1>1, <2>3 DEF RequestHolds, StageHolds, Provided
    <3> QED
      BY <3>1, <3>2, <3>3 DEF StageHolds
  <2> QED
    BY <1>1, <2>1, <2>3, <2>4, <2>5, Onward DEF Sent
<1> QED
  BY <1>4, <1>5

LEMMA IssuerReadsCases ==
  ASSUME WorldHolds, RequestsHold, NEW r \in Requests, NEW a, NEW token, RequestHolds(r, a, token), IssuerReads(r)
  PROVE  GoesOn(r, a, token)
<1> DEFINE new == [req[r] EXCEPT !.told = {token.agent \notin inactive}]
<1>1. /\ req[r].at = "ask" /\ UNCHANGED auditVars
      /\ req' = [req EXCEPT ![r].told = {token.agent \notin inactive}]
  <2>1. AsksOf(r) = {cfg.asks[a]} /\ cfg.asks[a].token = {token}
    BY AskAndToken
  <2>2. PICK ask \in AsksOf(r) : \E t \in ask.token : req' = [req EXCEPT ![r].told = {t.agent \notin inactive}]
    BY Zenon DEF IssuerReads
  <2>3. PICK t \in ask.token : req' = [req EXCEPT ![r].told = {t.agent \notin inactive}]
    BY <2>2, Zenon
  <2>4. t = token
    BY <2>1
  <2> QED
    BY <2>3, <2>4, Zenon DEF IssuerReads
<1>2. req[r] \in RequestType
  BY Fields
<1>3. /\ new \in RequestType /\ new.told = {token.agent \notin inactive} /\ new.at = "ask"
      /\ new.ask = req[r].ask /\ new.held = req[r].held
      /\ new.cred = req[r].cred /\ new.answer = req[r].answer
  BY <1>1, <1>2 DEF RequestType
<1>4. req' = [req EXCEPT ![r] = new]
  BY <1>1
<1> HIDE DEF new
<1>5. new.told = {TRUE} => "issuer" \in passed[r]
  <2>1. SUFFICES ASSUME new.told = {TRUE} PROVE "issuer" \in passed[r]
    OBVIOUS
  <2>2. (token.agent \notin inactive) \in new.told
    BY <1>3, Zenon
  <2>3. token.agent \notin inactive
    BY <2>1, <2>2
  <2> QED
    BY <2>3, ToldGate, SeesGate DEF GateNames
<1>6. StageHolds(new, passed[r], a, token)
  <2>1. AsksFor(new, a, token)
    BY <1>3 DEF RequestHolds, StageHolds, AsksFor
  <2>2. LetThrough(new, passed[r], a)
    BY <1>1, <1>3, <1>5 DEF RequestHolds, StageHolds, LetThrough
  <2>3. Provided(new, a, token)
    BY <1>1, <1>3 DEF RequestHolds, StageHolds, Provided
  <2> QED
    BY <2>1, <2>2, <2>3 DEF StageHolds
<1> QED
  BY <1>1, <1>3, <1>4, <1>6, Onward DEF Sent

LEMMA ToldCases ==
  ASSUME WorldHolds, RequestsHold, NEW r \in Requests, NEW a, NEW token, RequestHolds(r, a, token), Told(r)
  PROVE  GoesOn(r, a, token) \/ Decided(r, a)
<1>1. req[r].at = "ask" /\ req[r].told = {TRUE} /\ Admit(r, cfg.asks[a], token, req[r].held)
  BY AskAndToken DEF Told
<1>2. /\ {"token", "grant", "status", "issuer"} \subseteq passed[r]
      /\ (cfg.asks[a].route # {} => Wanted[tenant][a] # {}) /\ Wanted[tenant][a] \subseteq req[r].held
           => Sure \cap {"permission"} \subseteq passed[r]
  BY <1>1 DEF RequestHolds, StageHolds, LetThrough
<1> QED
  BY <1>1, <1>2, AdmitCases

\* The credential found under the name of the agent's entry was stored under that name.
LEMMA ForwardCases ==
  ASSUME WorldHolds, RequestsHold, NEW r \in Requests, NEW a, NEW token, RequestHolds(r, a, token), Forward(r)
  PROVE  GoesOn(r, a, token)
<1>1. PICK i \in FindAgent(token) :
        LET stored == vault[VaultName(cfg.agents[i])]
        IN  stored # {} /\ req' = [req EXCEPT ![r].at = "head", ![r].cred = stored]
  <2>1. AsksOf(r) = {cfg.asks[a]} /\ cfg.asks[a].token = {token}
    BY AskAndToken
  <2>2. PICK ask \in AsksOf(r) : \E t \in ask.token : \E i \in FindAgent(t) :
          LET stored == vault[VaultName(cfg.agents[i])]
          IN  stored # {} /\ req' = [req EXCEPT ![r].at = "head", ![r].cred = stored]
    BY Zenon DEF Forward
  <2>3. PICK t \in ask.token : \E i \in FindAgent(t) :
          LET stored == vault[VaultName(cfg.agents[i])]
          IN  stored # {} /\ req' = [req EXCEPT ![r].at = "head", ![r].cred = stored]
    BY <2>2, Zenon
  <2>4. t = token
    BY <2>1
  <2> QED
    BY <2>3, <2>4, Zenon
<1> DEFINE stored == vault[VaultName(cfg.agents[i])]
           new    == [req[r] EXCEPT !.at = "head", !.cred = stored]
<1>2. /\ req[r].at = "body" /\ UNCHANGED auditVars
      /\ stored # {} /\ req' = [req EXCEPT ![r].at = "head", ![r].cred = stored]
  BY <1>1 DEF Forward
<1>3. i \in DOMAIN cfg.agents /\ IsFor(cfg.agents[i], token)
  <2>1. i \in AgentHits(token) /\ i \in DOMAIN cfg.agents
    BY DEF FindAgent, AgentHits
  <2> QED
    BY <2>1, AskAndToken, OwnEntries
<1>4. /\ stored \in SUBSET DOMAIN cfg.agents
      /\ \A k \in stored : VaultName(cfg.agents[k]) = VaultName(cfg.agents[i])
  <2>1. VaultName(cfg.agents[i]) \in VaultNames
    BY <1>3 DEF VaultNames
  <2> QED
    BY <2>1 DEF WorldHolds, Vaulted
<1>5. req[r] \in RequestType
  BY Fields
<1> HIDE DEF stored
<1>6. /\ new \in RequestType /\ new.cred = stored /\ new.at = "head"
      /\ new.ask = req[r].ask /\ new.held = req[r].held
      /\ new.told = req[r].told /\ new.answer = req[r].answer
  BY <1>4, <1>5 DEF RequestType, Stages
<1>7. req' = [req EXCEPT ![r] = new]
  BY <1>2
<1> HIDE DEF new
<1>8. StageHolds(new, passed[r], a, token)
  <2>1. AsksFor(new, a, token)
    BY <1>6 DEF RequestHolds, StageHolds, AsksFor
  <2>2. LetThrough(new, passed[r], a)
    BY <1>2, <1>6 DEF RequestHolds, StageHolds, LetThrough
  <2>3. Provided(new, a, token)
    BY <1>2, <1>3, <1>4, <1>6 DEF RequestHolds, StageHolds, Provided
  <2> QED
    BY <2>1, <2>2, <2>3 DEF StageHolds
<1> QED
  BY <1>2, <1>6, <1>7, <1>8, Onward DEF Sent

\* The answer may come, and grow, as long as it is no longer than it should be or may be.
LEMMA AnswerGoesOn ==
  ASSUME WorldHolds, RequestsHold, NEW r \in Requests, NEW a, NEW token, RequestHolds(r, a, token),
         req[r].at \in {"head", "answer"}, UNCHANGED auditVars,
         NEW answer \in Answers, answer.got <= MaxBytes, answer.got <= answer.meant,
         req' = [req EXCEPT ![r] = [req[r] EXCEPT !.at = "answer", !.answer = answer]]
  PROVE  GoesOn(r, a, token)
<1> DEFINE new == [req[r] EXCEPT !.at = "answer", !.answer = answer]
<1>1. req[r] \in RequestType
  BY Fields
<1>2. /\ new \in RequestType /\ new.cred = req[r].cred /\ new.at = "answer"
      /\ new.ask = req[r].ask /\ new.held = req[r].held
      /\ new.told = req[r].told /\ new.answer = answer
  BY <1>1 DEF RequestType, Stages
<1>3. req' = [req EXCEPT ![r] = new]
  OBVIOUS
<1> HIDE DEF new
<1>4. StageHolds(new, passed[r], a, token)
  <2>1. AsksFor(new, a, token)
    BY <1>2 DEF RequestHolds, StageHolds, AsksFor
  <2>2. LetThrough(new, passed[r], a)
    BY <1>2 DEF RequestHolds, StageHolds, LetThrough
  <2>3. Provided(new, a, token)
    BY <1>2 DEF RequestHolds, StageHolds, Provided
  <2> QED
    BY <2>1, <2>2, <2>3 DEF StageHolds
<1> QED
  BY <1>2, <1>3, <1>4, Onward DEF Sent

LEMMA AnswerHeadCases ==
  ASSUME WorldHolds, RequestsHold, NEW r \in Requests, NEW a, NEW token, RequestHolds(r, a, token), AnswerHead(r)
  PROVE  GoesOn(r, a, token) \/ Decided(r, a)
<1>1. req[r].at = "head"
  BY DEF AnswerHead
<1>2. CASE UpstreamError(r)
  BY <1>1, <1>2, ErrorDecides
<1>3. ASSUME NEW framing \in {"counted", "marked", "closed"}, NEW meant \in 0 .. MaxBytes + 1, NEW echo \in BOOLEAN,
             req' = [req EXCEPT ![r].at = "answer",
                                ![r].answer = [framing |-> framing, meant |-> meant, got |-> 0, echo |-> echo]],
             UNCHANGED auditVars
      PROVE  GoesOn(r, a, token)
  <2> DEFINE answer == [framing |-> framing, meant |-> meant, got |-> 0, echo |-> echo]
  <2>1. answer \in Answers /\ answer.got = 0 /\ answer.meant = meant
    BY LimitsAssumption DEF Answers
  <2>2. answer.got <= MaxBytes /\ answer.got <= answer.meant
    BY <2>1, LimitsAssumption
  <2>3. req[r] \in RequestType
    BY Fields
  <2> HIDE DEF answer
  <2>4. req' = [req EXCEPT ![r] = [req[r] EXCEPT !.at = "answer", !.answer = answer]]
    <3>1. req' = [req EXCEPT ![r].at = "answer", ![r].answer = answer]
      BY <1>3 DEF answer
    <3> QED
      BY <2>3, <3>1 DEF RequestType
  <2> QED
    BY <1>1, <1>3, <2>1, <2>2, <2>4, AnswerGoesOn
<1> QED
  BY <1>2, <1>3 DEF AnswerHead

LEMMA DataCases ==
  ASSUME WorldHolds, RequestsHold, NEW r \in Requests, NEW a, NEW token, RequestHolds(r, a, token), Data(r)
  PROVE  GoesOn(r, a, token) \/ Decided(r, a)
<1>1. req[r].at = "answer" /\ req[r].answer.got < req[r].answer.meant
  BY DEF Data
<1>2. CASE UpstreamError(r)
  BY <1>1, <1>2, ErrorDecides
<1>3. CASE req[r].answer.got # MaxBytes /\ req' = [req EXCEPT ![r].answer.got = @ + 1] /\ UNCHANGED auditVars
  <2> DEFINE answer == [req[r].answer EXCEPT !.got = @ + 1]
  <2>1. req[r].answer \in Answers /\ req[r].answer.got <= MaxBytes
    BY Fields DEF RequestHolds, StageHolds, Provided
  <2>2. answer \in Answers /\ answer.got = req[r].answer.got + 1 /\ answer.meant = req[r].answer.meant
    BY <2>1 DEF Answers
  <2>3. answer.got <= MaxBytes /\ answer.got <= answer.meant
    BY <1>1, <1>3, <2>1, <2>2, LimitsAssumption DEF Answers
  <2>4. req[r] \in RequestType
    BY Fields
  <2>5. req' = [req EXCEPT ![r] = [req[r] EXCEPT !.at = "answer", !.answer = answer]]
    <3>1. req' = [req EXCEPT ![r] = [req[r] EXCEPT !.answer = answer]]
      BY <1>3
    <3>2. [req[r] EXCEPT !.answer = answer] = [req[r] EXCEPT !.at = "answer", !.answer = answer]
      <4> HIDE DEF answer
      <4> QED
        BY <1>1, <2>4 DEF RequestType
    <3> QED
      BY <3>1, <3>2
  <2> HIDE DEF answer
  <2> QED
    BY <1>1, <1>3, <2>2, <2>3, <2>5, AnswerGoesOn
<1> QED
  BY <1>2, <1>3 DEF Data

LEMMA EndDecides ==
  ASSUME NEW r, NEW a, NEW token, RequestHolds(r, a, token), End(r)
  PROVE  Decided(r, a)
  BY PassBackDecides DEF End

LEMMA CutDecides ==
  ASSUME NEW r, NEW a, NEW token, RequestHolds(r, a, token), Cut(r)
  PROVE  Decided(r, a)
<1>1. CASE req[r].answer.framing = "closed" /\ PassBack(r)
  BY <1>1, PassBackDecides DEF Cut
<1>2. CASE UpstreamError(r)
  BY <1>2, ErrorDecides DEF Cut
<1> QED
  BY <1>1, <1>2 DEF Cut

LEMMA InProgressCases ==
  ASSUME WorldHolds, RequestsHold, NEW r \in Requests, NEW a, NEW token, RequestHolds(r, a, token),
         Handle(r), ~ \E b \in DOMAIN cfg.asks : Arrive(r, b)
  PROVE  GoesOn(r, a, token) \/ Decided(r, a)
  BY VerifyCases, IssuerReadsCases, ToldCases, ForwardCases, NotForwardedDecides, AnswerHeadCases,
     DataCases, EndDecides, CutDecides, DeadlineDecides, FinishDecides DEF Handle

\* Every step of a request is one of the four.
LEMMA HandleCases ==
  ASSUME WorldHolds, RequestsHold, NEW r \in Requests, Handle(r)
  PROVE  \/ RefusedAtOnce(r)
         \/ \E a, token : Begins(r, a, token)
         \/ \E a, token : /\ req[r].at # "idle" /\ RequestHolds(r, a, token)
                          /\ GoesOn(r, a, token) \/ Decided(r, a)
<1>1. CASE \E a \in DOMAIN cfg.asks : Arrive(r, a)
  BY <1>1, ArriveCases
<1>2. CASE ~ \E a \in DOMAIN cfg.asks : Arrive(r, a)
  <2>1. req[r].at # "idle"
    BY <1>2 DEF Handle, Verify, IssuerReads, Told, Forward, NotForwarded, AnswerHead, Data, End, Cut, Deadline,
                Refuse, Finish
  <2>2. PICK a, token : RequestHolds(r, a, token)
    BY <2>1, InProgress
  <2> QED
    BY <1>2, <2>1, <2>2, InProgressCases
<1> QED
  BY <1>1, <1>2

----------------------------------------------------------------------------
(* Sequences of records *)

Ids(log) == {log[i].id : i \in DOMAIN log}

Ordered(log) == \A i, j \in DOMAIN log : i < j => log[i].id < log[j].id

LEMMA OrderParts ==
  AuditIsInOrder <=>
    /\ Ordered(file \o queue)
    /\ Ids(file \o queue) \cup Ids(failed) = 1 .. count
    /\ \A i \in DOMAIN ring : ring[i].id = count - Len(ring) + i
  BY DEF AuditIsInOrder, Ordered, Ids

LEMMA OrderPartsNext ==
  AuditIsInOrder' <=>
    /\ Ordered(file' \o queue')
    /\ Ids(file' \o queue') \cup Ids(failed') = 1 .. count'
    /\ \A i \in DOMAIN ring' : ring'[i].id = count' - Len(ring') + i
  BY DEF AuditIsInOrder, Ordered, Ids

LEMMA AppendHolds ==
  ASSUME NEW log \in Seq(Records), NEW record \in Records
  PROVE  /\ Append(log, record) \in Seq(Records) /\ Len(Append(log, record)) = Len(log) + 1
         /\ DOMAIN Append(log, record) = 1 .. Len(log) + 1 /\ DOMAIN log = 1 .. Len(log)
         /\ \A i \in 1 .. Len(log) : Append(log, record)[i] = log[i]
         /\ Append(log, record)[Len(log) + 1] = record
  OBVIOUS

LEMMA AppendIds ==
  ASSUME NEW log \in Seq(Records), NEW record \in Records
  PROVE  Ids(Append(log, record)) = Ids(log) \cup {record.id}
<1> DEFINE longer == Append(log, record)
<1>1. /\ DOMAIN longer = 1 .. Len(log) + 1 /\ DOMAIN log = 1 .. Len(log) /\ Len(log) \in Nat
      /\ \A i \in 1 .. Len(log) : longer[i] = log[i]
      /\ longer[Len(log) + 1] = record
  BY AppendHolds
<1> HIDE DEF longer
<1>2. ASSUME NEW i \in DOMAIN longer PROVE longer[i].id \in Ids(log) \cup {record.id}
  BY <1>1 DEF Ids
<1>3. ASSUME NEW i \in DOMAIN log PROVE log[i].id \in Ids(longer)
  <2>1. i \in DOMAIN longer /\ longer[i].id = log[i].id
    BY <1>1
  <2> QED
    BY <2>1 DEF Ids
<1>4. record.id \in Ids(longer)
  <2>1. Len(log) + 1 \in DOMAIN longer /\ longer[Len(log) + 1].id = record.id
    BY <1>1
  <2> QED
    BY <2>1 DEF Ids
<1>5. Ids(longer) \subseteq Ids(log) \cup {record.id}
  BY <1>2 DEF Ids
<1>6. Ids(log) \subseteq Ids(longer)
  BY <1>3 DEF Ids
<1> QED
  BY <1>4, <1>5, <1>6 DEF longer

LEMMA AppendOrdered ==
  ASSUME NEW log \in Seq(Records), NEW record \in Records, Ordered(log),
         \A i \in DOMAIN log : log[i].id < record.id
  PROVE  Ordered(Append(log, record))
<1> DEFINE longer == Append(log, record)
<1>1. /\ DOMAIN longer = 1 .. Len(log) + 1 /\ DOMAIN log = 1 .. Len(log) /\ Len(log) \in Nat
      /\ \A i \in 1 .. Len(log) : longer[i] = log[i]
      /\ longer[Len(log) + 1] = record
  BY AppendHolds
<1> HIDE DEF longer
<1>2. ASSUME NEW i \in DOMAIN longer, NEW j \in DOMAIN longer, i < j PROVE longer[i].id < longer[j].id
  <2>1. i \in DOMAIN log /\ longer[i] = log[i]
    BY <1>1, <1>2
  <2>2. CASE j \in DOMAIN log
    BY <1>1, <1>2, <2>1, <2>2 DEF Ordered
  <2>3. CASE j = Len(log) + 1
    BY <1>1, <2>1, <2>3
  <2> QED
    BY <1>1, <2>2, <2>3
<1> QED
  BY <1>2 DEF Ordered, longer

LEMMA ConcatHolds ==
  ASSUME NEW first \in Seq(Records), NEW second \in Seq(Records)
  PROVE  /\ first \o second \in Seq(Records) /\ Len(first) \in Nat /\ Len(second) \in Nat
         /\ DOMAIN (first \o second) = 1 .. Len(first) + Len(second)
         /\ DOMAIN first = 1 .. Len(first) /\ DOMAIN second = 1 .. Len(second)
         /\ \A i \in 1 .. Len(first) : (first \o second)[i] = first[i]
         /\ \A i \in 1 .. Len(second) : (first \o second)[Len(first) + i] = second[i]
         /\ \A i \in 1 .. Len(first) + Len(second) :
              \/ i <= Len(first)
              \/ i - Len(first) \in 1 .. Len(second) /\ (first \o second)[i] = second[i - Len(first)]
  OBVIOUS

LEMMA ConcatIds ==
  ASSUME NEW first \in Seq(Records), NEW second \in Seq(Records)
  PROVE  Ids(first \o second) = Ids(first) \cup Ids(second)
<1> DEFINE both == first \o second
<1>1. /\ Len(first) \in Nat /\ Len(second) \in Nat
      /\ DOMAIN both = 1 .. Len(first) + Len(second)
      /\ DOMAIN first = 1 .. Len(first) /\ DOMAIN second = 1 .. Len(second)
      /\ \A i \in 1 .. Len(first) : both[i] = first[i]
      /\ \A i \in 1 .. Len(second) : both[Len(first) + i] = second[i]
      /\ \A i \in 1 .. Len(first) + Len(second) :
           i <= Len(first) \/ (i - Len(first) \in 1 .. Len(second) /\ both[i] = second[i - Len(first)])
  BY ConcatHolds
<1> HIDE DEF both
<1>2. ASSUME NEW i \in DOMAIN both PROVE both[i].id \in Ids(first) \cup Ids(second)
  <2>1. CASE i <= Len(first)
    <3>1. i \in DOMAIN first /\ both[i] = first[i]
      BY <1>1, <2>1
    <3> QED
      BY <3>1 DEF Ids
  <2>2. CASE i - Len(first) \in 1 .. Len(second) /\ both[i] = second[i - Len(first)]
    BY <1>1, <2>2 DEF Ids
  <2> QED
    BY <1>1, <2>1, <2>2
<1>3. ASSUME NEW i \in DOMAIN first PROVE first[i].id \in Ids(both)
  <2>1. i \in DOMAIN both /\ both[i] = first[i]
    BY <1>1
  <2> QED
    BY <2>1 DEF Ids
<1>4. ASSUME NEW i \in DOMAIN second PROVE second[i].id \in Ids(both)
  <2>1. Len(first) + i \in DOMAIN both /\ both[Len(first) + i] = second[i]
    BY <1>1
  <2> QED
    BY <2>1 DEF Ids
<1>5. Ids(both) \subseteq Ids(first) \cup Ids(second)
  BY <1>2 DEF Ids
<1>6. Ids(first) \subseteq Ids(both)
  BY <1>3 DEF Ids
<1>7. Ids(second) \subseteq Ids(both)
  BY <1>4 DEF Ids
<1> QED
  BY <1>5, <1>6, <1>7 DEF both

LEMMA TailHolds ==
  ASSUME NEW log \in Seq(Records), log # <<>>
  PROVE  /\ Tail(log) \in Seq(Records) /\ Head(log) \in Records /\ Len(log) \in Nat \ {0}
         /\ Head(log) = log[1] /\ Len(Tail(log)) = Len(log) - 1
         /\ DOMAIN log = 1 .. Len(log) /\ DOMAIN Tail(log) = 1 .. Len(log) - 1
         /\ \A i \in 1 .. Len(log) - 1 : Tail(log)[i] = log[i + 1]
  OBVIOUS

LEMMA TailIds ==
  ASSUME NEW log \in Seq(Records), log # <<>>
  PROVE  Ids(log) = {Head(log).id} \cup Ids(Tail(log))
<1> DEFINE rest == Tail(log)
           head == Head(log)
<1>1. /\ head = log[1] /\ Len(log) \in Nat \ {0}
      /\ DOMAIN log = 1 .. Len(log) /\ DOMAIN rest = 1 .. Len(log) - 1
      /\ \A i \in 1 .. Len(log) - 1 : rest[i] = log[i + 1]
  BY TailHolds
<1> HIDE DEF rest, head
<1>2. ASSUME NEW i \in DOMAIN log PROVE log[i].id \in {head.id} \cup Ids(rest)
  <2>1. CASE i = 1
    BY <1>1, <2>1
  <2>2. CASE i # 1
    <3>1. i - 1 \in DOMAIN rest /\ rest[i - 1] = log[i]
      BY <1>1, <2>2
    <3> QED
      BY <3>1 DEF Ids
  <2> QED
    BY <2>1, <2>2
<1>3. ASSUME NEW i \in DOMAIN rest PROVE rest[i].id \in Ids(log)
  <2>1. i + 1 \in DOMAIN log /\ rest[i] = log[i + 1]
    BY <1>1
  <2> QED
    BY <2>1 DEF Ids
<1>4. head.id \in Ids(log)
  BY <1>1 DEF Ids
<1>5. Ids(log) \subseteq {head.id} \cup Ids(rest)
  BY <1>2 DEF Ids
<1>6. Ids(rest) \subseteq Ids(log)
  BY <1>3 DEF Ids
<1> QED
  BY <1>4, <1>5, <1>6 DEF rest, head

\* A line that moves from the queue to the file leaves the lines as they are.
LEMMA HeadMoves ==
  ASSUME NEW first \in Seq(Records), NEW second \in Seq(Records), second # <<>>
  PROVE  Append(first, Head(second)) \o Tail(second) = first \o second
  OBVIOUS

\* One that is lost leaves the others in order.
LEMMA HeadLost ==
  ASSUME NEW first \in Seq(Records), NEW second \in Seq(Records), second # <<>>, Ordered(first \o second)
  PROVE  Ordered(first \o Tail(second))
<1> DEFINE before == first \o second
           after  == first \o Tail(second)
           from(i) == IF i <= Len(first) THEN i ELSE i + 1
<1>1. /\ Len(first) \in Nat /\ Len(second) \in Nat \ {0}
      /\ DOMAIN before = 1 .. Len(first) + Len(second)
      /\ DOMAIN after = 1 .. Len(first) + Len(second) - 1
  BY TailHolds, ConcatHolds
<1>2. ASSUME NEW i \in DOMAIN after PROVE from(i) \in DOMAIN before /\ after[i] = before[from(i)]
  <2>1. CASE i <= Len(first)
    BY <1>1, <2>1
  <2>2. CASE ~ (i <= Len(first))
    <3>1. i - Len(first) \in 1 .. Len(second) - 1 /\ i + 1 = Len(first) + (i - Len(first) + 1)
      BY <1>1, <2>2
    <3>2. after[i] = Tail(second)[i - Len(first)]
      BY <1>1, <2>2, <3>1
    <3>3. Tail(second)[i - Len(first)] = second[i - Len(first) + 1]
      BY <3>1, TailHolds
    <3>4. before[i + 1] = second[i - Len(first) + 1]
      BY <1>1, <3>1
    <3> QED
      BY <1>1, <2>2, <3>1, <3>2, <3>3, <3>4
  <2> QED
    BY <2>1, <2>2
<1>3. ASSUME NEW i \in DOMAIN after, NEW j \in DOMAIN after, i < j PROVE from(i) < from(j)
  BY <1>1, <1>3
<1> HIDE DEF before, after, from
<1> QED
  BY <1>2, <1>3 DEF Ordered, before, after

----------------------------------------------------------------------------
(* What a step does to the audit log *)

RingEnds == \A i \in DOMAIN ring : ring[i].id = count - Len(ring) + i

LEMMA NotYetLast == \A n \in Nat : \A i \in 1 .. n : i # n => i \in 1 .. n - 1 /\ i + 1 \in 1 .. n
  OBVIOUS

LEMMA BelowIsOneBelow == \A n, m \in Nat : n <= m /\ n # m => n + 1 <= m
  OBVIOUS

LEMMA RingPushed ==
  ASSUME LogsTyped, RingEnds, count \in Nat, NEW record \in Records, record.id = count + 1,
         ring' = Audit!Pushed(record), count' = count + 1
  PROVE  /\ ring' \in Seq(Records) /\ Len(ring') <= Size /\ RingEnds'
         /\ Len(ring') \in Nat \ {0} /\ ring'[Len(ring')] = record
<1>0. /\ ring \in Seq(Records) /\ Len(ring) <= Size
      /\ Len(ring) \in Nat /\ Size \in Nat \ {0} /\ DOMAIN ring = 1 .. Len(ring)
  BY LimitsAssumption DEF LogsTyped
<1>1. CASE Len(ring) # Size
  <2>1. ring' = Append(ring, record)
    BY <1>1 DEF Audit!Pushed
  <2>2. /\ ring' \in Seq(Records) /\ Len(ring') = Len(ring) + 1 /\ DOMAIN ring' = 1 .. Len(ring) + 1
        /\ \A i \in 1 .. Len(ring) : ring'[i] = ring[i]
        /\ ring'[Len(ring) + 1] = record
    BY <1>0, <2>1, AppendHolds
  <2>3. ASSUME NEW i \in 1 .. Len(ring) + 1 PROVE ring'[i].id = count' - Len(ring') + i
    <3>1. CASE i = Len(ring) + 1
      BY <1>0, <2>2, <3>1
    <3>2. CASE i # Len(ring) + 1
      <4>1. i \in 1 .. Len(ring) /\ ring'[i] = ring[i] /\ ring[i].id = count - Len(ring) + i
        BY <1>0, <2>2, <3>2 DEF RingEnds
      <4>2. count' - Len(ring') + i = count - Len(ring) + i
        BY <1>0, <2>2
      <4> QED
        BY <4>1, <4>2
    <3> QED
      BY <3>1, <3>2
  <2>4. Len(ring') <= Size
    <3>1. Len(ring) + 1 <= Size
      BY <1>0, <1>1, BelowIsOneBelow
    <3> QED
      BY <2>2, <3>1
  <2>5. Len(ring') \in Nat \ {0} /\ ring'[Len(ring')] = record
    BY <1>0, <2>2
  <2>6. RingEnds'
    BY <2>2, <2>3 DEF RingEnds
  <2> QED
    BY <2>2, <2>4, <2>5, <2>6
<1>2. CASE Len(ring) = Size
  <2> DEFINE rest == Tail(ring)
  <2>1. ring # <<>>
    BY <1>0, <1>2
  <2>2. /\ rest \in Seq(Records) /\ Len(rest) = Len(ring) - 1
        /\ \A i \in 1 .. Len(ring) - 1 : rest[i] = ring[i + 1]
    BY <1>0, <2>1, TailHolds
  <2>3. ring' = Append(rest, record)
    BY <1>2 DEF Audit!Pushed
  <2> HIDE DEF rest
  <2>4. /\ ring' \in Seq(Records) /\ Len(ring') = Len(rest) + 1 /\ DOMAIN ring' = 1 .. Len(rest) + 1
        /\ \A i \in 1 .. Len(rest) : ring'[i] = rest[i]
        /\ ring'[Len(rest) + 1] = record
    BY <2>2, <2>3, AppendHolds
  <2>5. ASSUME NEW i \in 1 .. Len(ring) PROVE ring'[i].id = count' - Len(ring') + i
    <3>1. CASE i = Len(ring)
      <4>1. ring'[i].id = count + 1
        BY <1>0, <2>2, <2>4, <3>1
      <4> QED
        BY <1>0, <2>2, <2>4, <3>1, <4>1
    <3>2. CASE i # Len(ring)
      <4>0. i \in 1 .. Len(ring) - 1 /\ i + 1 \in 1 .. Len(ring)
        BY <1>0, <3>2, NotYetLast
      <4>1. i \in 1 .. Len(ring) - 1 /\ i + 1 \in DOMAIN ring
        BY <1>0, <4>0
      <4>2. ring'[i] = ring[i + 1]
        BY <1>0, <2>2, <2>4, <4>1
      <4>3. ring[i + 1].id = count - Len(ring) + (i + 1)
        BY <4>1 DEF RingEnds
      <4> QED
        BY <1>0, <2>2, <2>4, <4>1, <4>2, <4>3
    <3> QED
      BY <3>1, <3>2
  <2>6. Len(ring') = Len(ring) /\ DOMAIN ring' = 1 .. Len(ring)
    BY <1>0, <2>2, <2>4
  <2>7. Len(ring') <= Size /\ Len(ring') \in Nat \ {0} /\ ring'[Len(ring')] = record
    BY <1>0, <1>2, <2>2, <2>4, <2>6
  <2>8. RingEnds'
    BY <2>5, <2>6 DEF RingEnds
  <2> QED
    BY <2>4, <2>7, <2>8
<1> QED
  BY <1>1, <1>2

\* A new record comes last, in the file's order and in the ring.
LEMMA RecordKeeps ==
  ASSUME LogsTyped, AuditIsInOrder, count \in Nat, count < MaxRecords,
         NEW decision \in {"allow", "deny", "error"}, NEW named \in BOOLEAN, Recorded(decision, named)
  PROVE  /\ LogsTyped' /\ AuditIsInOrder' /\ count' = count + 1
         /\ ring'[Len(ring')] = [id |-> count + 1, decision |-> decision, named |-> named]
<1> DEFINE record == [id |-> count + 1, decision |-> decision, named |-> named]
<1>1. record \in Records /\ record.id = count + 1
  BY LimitsAssumption DEF Records
<1>2. /\ ring' = Audit!Pushed(record) /\ queue' = Append(queue, record) /\ file' = file /\ failed' = failed
      /\ count' = count + 1
  BY DEF Recorded, Audit!Record
<1> HIDE DEF record
<1>3. /\ file \in Seq(Records) /\ queue \in Seq(Records) /\ failed \in Seq(Records)
      /\ Ordered(file \o queue) /\ Ids(file \o queue) \cup Ids(failed) = 1 .. count /\ RingEnds
  BY OrderParts DEF LogsTyped, RingEnds
<1>4. file \o queue \in Seq(Records) /\ queue' \in Seq(Records)
  BY <1>1, <1>2, <1>3, ConcatHolds
<1>5. file' \o queue' = Append(file \o queue, record)
  BY <1>1, <1>2, <1>3
<1>6. Ordered(file' \o queue')
  <2>1. ASSUME NEW i \in DOMAIN (file \o queue) PROVE (file \o queue)[i].id < record.id
    <3>1. (file \o queue)[i].id \in Ids(file \o queue)
      BY DEF Ids
    <3>2. (file \o queue)[i].id \in 1 .. count
      BY <1>3, <3>1
    <3> QED
      BY <1>1, <3>2
  <2> QED
    BY <1>1, <1>3, <1>4, <1>5, <2>1, AppendOrdered
<1>7. Ids(file' \o queue') \cup Ids(failed') = 1 .. count'
  <2>1. Ids(file' \o queue') = Ids(file \o queue) \cup {count + 1}
    BY <1>1, <1>4, <1>5, AppendIds
  <2>2. 1 .. count + 1 = (1 .. count) \cup {count + 1}
    OBVIOUS
  <2> QED
    BY <1>2, <1>3, <2>1, <2>2
<1>8. ring' \in Seq(Records) /\ Len(ring') <= Size /\ RingEnds' /\ ring'[Len(ring')] = record
  BY <1>1, <1>2, <1>3, RingPushed
<1>9. LogsTyped'
  BY <1>2, <1>3, <1>4, <1>8 DEF LogsTyped
<1>10. AuditIsInOrder'
  BY <1>6, <1>7, <1>8, OrderPartsNext DEF RingEnds
<1> QED
  BY <1>2, <1>8, <1>9, <1>10 DEF record

LEMMA AuditStepKeeps ==
  ASSUME LogsTyped, AuditIsInOrder, AuditStep
  PROVE  LogsTyped' /\ AuditIsInOrder'
<1>1. /\ file \in Seq(Records) /\ queue \in Seq(Records) /\ failed \in Seq(Records) /\ ring \in Seq(Records)
      /\ Ordered(file \o queue) /\ Ids(file \o queue) \cup Ids(failed) = 1 .. count /\ RingEnds
  BY OrderParts DEF LogsTyped, RingEnds
<1>2. queue # <<>> /\ queue' = Tail(queue) /\ ring' = ring /\ count' = count
  BY DEF AuditStep, Audit!WriteLine, Audit!WriteFails
<1>3. /\ Tail(queue) \in Seq(Records) /\ Head(queue) \in Records
      /\ Ids(queue) = {Head(queue).id} \cup Ids(Tail(queue))
  BY <1>1, <1>2, TailHolds, TailIds
<1>4. CASE file' = Append(file, Head(queue)) /\ failed' = failed
  <2>1. file' \o queue' = file \o queue /\ file' \in Seq(Records)
    BY <1>1, <1>2, <1>3, <1>4, HeadMoves, AppendHolds
  <2>2. LogsTyped'
    BY <1>1, <1>2, <1>3, <1>4, <2>1 DEF LogsTyped
  <2>3. Ordered(file' \o queue') /\ Ids(file' \o queue') \cup Ids(failed') = 1 .. count' /\ RingEnds'
    BY <1>1, <1>2, <1>4, <2>1 DEF RingEnds
  <2> QED
    BY <2>2, <2>3, OrderPartsNext DEF RingEnds
<1>5. CASE file' = file /\ failed' = Append(failed, Head(queue))
  <2>1. failed' \in Seq(Records) /\ Ids(failed') = Ids(failed) \cup {Head(queue).id}
    BY <1>1, <1>3, <1>5, AppendHolds, AppendIds
  <2>2. LogsTyped'
    BY <1>1, <1>2, <1>3, <1>5, <2>1 DEF LogsTyped
  <2>3. Ordered(file' \o queue')
    BY <1>1, <1>2, <1>5, HeadLost
  <2>4. Ids(file' \o queue') \cup Ids(failed') = 1 .. count'
    <3>1. Ids(file \o queue) = Ids(file) \cup Ids(queue) /\ Ids(file \o Tail(queue)) = Ids(file) \cup Ids(Tail(queue))
      BY <1>1, <1>3, ConcatIds
    <3> QED
      BY <1>1, <1>2, <1>3, <1>5, <2>1, <3>1
  <2> QED
    BY <1>1, <1>2, <2>2, <2>3, <2>4, OrderPartsNext DEF RingEnds
<1> QED
  BY <1>4, <1>5 DEF AuditStep, Audit!WriteLine, Audit!WriteFails

LEMMA RestartKeeps ==
  ASSUME LogsTyped, AuditIsInOrder, Audit!Crash, UNCHANGED count
  PROVE  LogsTyped' /\ AuditIsInOrder'
<1>1. /\ file \in Seq(Records) /\ queue \in Seq(Records) /\ failed \in Seq(Records)
      /\ Ordered(file \o queue) /\ Ids(file \o queue) \cup Ids(failed) = 1 .. count
  BY OrderParts DEF LogsTyped
<1>2. ring' = <<>> /\ queue' = <<>> /\ failed' = failed \o queue /\ file' = file /\ count' = count
  BY DEF Audit!Crash
<1>3. /\ file' \o queue' = file
      /\ <<>> \in Seq(Records) /\ Len(<<>>) = 0 /\ DOMAIN <<>> = {}
  BY <1>1, <1>2
<1>4. /\ failed' \in Seq(Records) /\ Ids(failed') = Ids(failed) \cup Ids(queue)
      /\ Ids(file \o queue) = Ids(file) \cup Ids(queue)
  BY <1>1, <1>2, ConcatHolds, ConcatIds
<1>5. LogsTyped'
  BY <1>1, <1>2, <1>3, <1>4, LimitsAssumption DEF LogsTyped
<1>6. Ordered(file)
  <2>1. ASSUME NEW i \in DOMAIN file, NEW j \in DOMAIN file, i < j PROVE file[i].id < file[j].id
    <3>1. /\ i \in DOMAIN (file \o queue) /\ j \in DOMAIN (file \o queue)
          /\ (file \o queue)[i] = file[i] /\ (file \o queue)[j] = file[j]
      BY <1>1, ConcatHolds
    <3> QED
      BY <1>1, <2>1, <3>1 DEF Ordered
  <2> QED
    BY <2>1 DEF Ordered
<1>7. Ordered(file' \o queue') /\ Ids(file' \o queue') \cup Ids(failed') = 1 .. count' /\ RingEnds'
  BY <1>1, <1>2, <1>3, <1>4, <1>6 DEF RingEnds
<1> QED
  BY <1>5, <1>7, OrderPartsNext DEF RingEnds

----------------------------------------------------------------------------
(* The invariant is inductive *)

LEMMA WorldStays ==
  ASSUME WorldHolds, UNCHANGED worldVars
  PROVE  WorldHolds'
<1>1. /\ now' = now /\ tenant' = tenant /\ vault' = vault /\ revoked' = revoked /\ inactive' = inactive
      /\ open' = open
  BY DEF worldVars
<1>2. cfg' = cfg /\ VaultNames' = VaultNames
  BY <1>1, SameTenant
<1>3. Opened' = Opened
  BY <1>1, <1>2 DEF Opened, GateOpen, GrantsFor, Revoked, Has, IsFor
<1>4. Vaulted'
  BY <1>1, <1>2 DEF WorldHolds, Vaulted
<1> QED
  BY <1>1, <1>2, <1>3, <1>4 DEF WorldHolds

LEMMA WorldChanges ==
  ASSUME WorldHolds, Tick \/ StatusEvent \/ Suspend, open' = Opened'
  PROVE  WorldHolds'
<1>1. tenant' = tenant /\ vault' = vault /\ now' \in 0 .. MaxTime
  <2>1. CASE Tick
    BY <2>1, LimitsAssumption DEF Tick, WorldHolds
  <2>2. CASE StatusEvent \/ Suspend
    BY <2>2 DEF StatusEvent, Suspend, WorldHolds
  <2> QED
    BY <2>1, <2>2
<1>2. cfg' = cfg /\ VaultNames' = VaultNames
  BY <1>1, SameTenant
<1>3. Vaulted'
  BY <1>1, <1>2 DEF WorldHolds, Vaulted
<1> QED
  BY <1>1, <1>2, <1>3 DEF WorldHolds

LEMMA BusyIsFinite == IsFiniteSet(Busy) /\ Cardinality(Busy) \in Nat
<1>1. Busy \subseteq Requests
  BY DEF Busy
<1> QED
  BY <1>1, LimitsAssumption, FS_Subset, FS_CardinalityType

LEMMA BusyStays ==
  ASSUME RequestsHold, NEW r \in Requests, req[r].at # "idle", NEW new, new.at # "idle",
         req' = [req EXCEPT ![r] = new]
  PROVE  Busy' = Busy
  BY DEF RequestsHold, Busy

LEMMA BusyGrows ==
  ASSUME RequestsHold, NEW r \in Requests, req[r].at = "idle", NEW new, new.at # "idle",
         req' = [req EXCEPT ![r] = new]
  PROVE  Cardinality(Busy)' = Cardinality(Busy) + 1
<1>1. Busy' = Busy \cup {r} /\ r \notin Busy
  BY DEF RequestsHold, Busy
<1> QED
  BY <1>1, BusyIsFinite, FS_AddElement

LEMMA BusyShrinks ==
  ASSUME RequestsHold, NEW r \in Requests, req[r].at # "idle", req' = [req EXCEPT ![r] = NoRequest]
  PROVE  Cardinality(Busy)' = Cardinality(Busy) - 1
<1>1. Busy' = Busy \ {r} /\ r \in Busy
  BY DEF RequestsHold, Busy, NoRequest
<1> QED
  BY <1>1, BusyIsFinite, FS_RemoveElement

\* Requests in progress leave less room.
LEMMA RoomForOne ==
  ASSUME RoomLeft, NEW r \in Requests, req[r].at # "idle"
  PROVE  count < MaxRecords
<1>1. Cardinality(Busy) # 0
  BY BusyIsFinite, FS_EmptySet DEF Busy
<1> QED
  BY <1>1, BusyIsFinite, LimitsAssumption DEF RoomLeft

\* The audit log after a step that records at most one decision.
LEMMA AuditUnchanged ==
  ASSUME LogsTyped, AuditIsInOrder, UNCHANGED auditVars
  PROVE  LogsTyped' /\ AuditIsInOrder' /\ count' = count
  BY DEF auditVars, LogsTyped, AuditIsInOrder

LEMMA RefusedAtOnceKeeps ==
  ASSUME IInv, Observe, UNCHANGED worldVars, NEW r \in Requests, RefusedAtOnce(r)
  PROVE  RequestsHold' /\ AuditHolds'
<1>1. RequestsHold'
  BY RequestsStay DEF IInv, RefusedAtOnce, worldVars
<1>2. /\ LogsTyped /\ AuditIsInOrder /\ count \in Nat /\ Cardinality(Busy) \in Nat
      /\ count + Cardinality(Busy) < MaxRecords
  BY BusyIsFinite DEF IInv, AuditHolds, RoomLeft, RefusedAtOnce
<1>3. Busy' = Busy
  BY DEF RefusedAtOnce, Busy
<1>4. count < MaxRecords
  BY <1>2, LimitsAssumption
<1>5. ASSUME NEW decision \in {"allow", "deny", "error"}, Recorded(decision, FALSE) PROVE AuditHolds'
  <2>1. LogsTyped' /\ AuditIsInOrder' /\ count' = count + 1
    BY <1>2, <1>4, <1>5, RecordKeeps
  <2>2. Cardinality(Busy)' = Cardinality(Busy)
    BY <1>3
  <2>3. count' \in Nat /\ count' + Cardinality(Busy) <= MaxRecords
    BY <1>2, <2>1, LimitsAssumption
  <2>4. RoomLeft'
    BY <2>2, <2>3 DEF RoomLeft
  <2> QED
    BY <1>1, <2>1, <2>4 DEF AuditHolds
<1>6. CASE UNCHANGED auditVars
  <2>1. LogsTyped' /\ AuditIsInOrder' /\ count' = count
    BY <1>2, <1>6, AuditUnchanged
  <2>2. Cardinality(Busy)' = Cardinality(Busy)
    BY <1>3
  <2>3. count' \in Nat /\ count' + Cardinality(Busy) <= MaxRecords
    BY <1>2, <2>1, LimitsAssumption
  <2>4. RoomLeft'
    BY <2>2, <2>3 DEF RoomLeft
  <2> QED
    BY <1>1, <2>1, <2>4 DEF AuditHolds
<1> QED
  BY <1>1, <1>5, <1>6 DEF RefusedAtOnce

\* What a request that arrives has seen are the gates that are open to it.
LEMMA BeginsSees ==
  ASSUME IInv, Observe, UNCHANGED worldVars, NEW r \in Requests, NEW a, NEW token, Begins(r, a, token)
  PROVE  /\ RequestsHold' /\ req[r] = NoRequest /\ passed[r] = {}
         /\ Arrived(a) \in RequestType /\ Arrived(a).at = "key" /\ Arrived(a).ask = {a}
         /\ passed' = [passed EXCEPT ![r] = OpenTo(a)]
<1>1. req[r] = NoRequest /\ passed[r] = {} /\ AsksFor(Arrived(a), a, token)
  BY DEF IInv, RequestsHold, Begins
<1>2. Arrived(a) \in RequestType /\ Arrived(a).at = "key" /\ Arrived(a).ask = {a}
  BY <1>1, NoRequestIsOne, LimitsAssumption DEF AsksFor, Arrived, RequestType, Stages, NoRequest
<1>3. Arrived(a).told = {} /\ Arrived(a).cred = {} /\ Arrived(a).answer = NoAnswer
  BY DEF Arrived, NoRequest
<1>4. NoAnswer.got <= MaxBytes /\ NoAnswer.got <= NoAnswer.meant
  BY LimitsAssumption DEF NoAnswer
<1> DEFINE new == Arrived(a)
<1>5. StageHolds(new, passed[r] \cup OpenTo(a), a, token)
  <2>1. LetThrough(new, passed[r] \cup OpenTo(a), a)
    BY <1>2, <1>3 DEF LetThrough
  <2>2. Provided(new, a, token)
    BY <1>2, <1>3, <1>4 DEF Provided
  <2> QED
    BY <1>1, <2>1, <2>2 DEF StageHolds
<1>6. new \in RequestType /\ new.at # "idle" /\ req' = [req EXCEPT ![r] = new]
  BY <1>2 DEF Begins
<1> HIDE DEF new
<1>7. RequestsHold' /\ passed' = [passed EXCEPT ![r] = passed[r] \cup OpenTo(a)]
  BY <1>5, <1>6, OneRequest DEF IInv
<1> QED
  BY <1>1, <1>2, <1>7

LEMMA BeginsKeeps ==
  ASSUME IInv, Observe, UNCHANGED worldVars, NEW r \in Requests, NEW a, NEW token, Begins(r, a, token)
  PROVE  RequestsHold' /\ AuditHolds'
<1> DEFINE new == Arrived(a)
<1>1. RequestsHold' /\ new.at # "idle" /\ req[r].at = "idle" /\ req' = [req EXCEPT ![r] = new]
  BY BeginsSees DEF Begins
<1> HIDE DEF new
<1>2. Cardinality(Busy)' = Cardinality(Busy) + 1
  BY <1>1, BusyGrows DEF IInv
<1>3. LogsTyped' /\ AuditIsInOrder' /\ count' = count
  BY AuditUnchanged DEF IInv, AuditHolds, Begins
<1>4. count \in Nat /\ Cardinality(Busy) \in Nat /\ count + Cardinality(Busy) < MaxRecords
  BY BusyIsFinite DEF IInv, AuditHolds, RoomLeft, Begins
<1>5. RoomLeft'
  BY <1>2, <1>3, <1>4, LimitsAssumption DEF RoomLeft
<1> QED
  BY <1>1, <1>3, <1>5 DEF AuditHolds

\* A request that goes on sees nothing new.
LEMMA GoesOnSees ==
  ASSUME IInv, Observe, UNCHANGED worldVars, NEW r \in Requests, NEW a, NEW token,
         RequestHolds(r, a, token), GoesOn(r, a, token)
  PROVE  RequestsHold' /\ passed' = passed
<1>1. PICK new \in RequestType : /\ new.at # "idle" /\ StageHolds(new, passed[r], a, token)
                                 /\ req' = [req EXCEPT ![r] = new]
  BY DEF GoesOn
<1>2. passed[r] \cup OpenTo(a) = passed[r]
  BY DEF RequestHolds, StageHolds, LetThrough
<1>3. StageHolds(new, passed[r] \cup OpenTo(a), a, token)
  BY <1>1, <1>2, Zenon
<1>4. RequestsHold' /\ passed' = [passed EXCEPT ![r] = passed[r] \cup OpenTo(a)]
  BY <1>1, <1>3, OneRequest DEF IInv
<1> QED
  BY <1>2, <1>4 DEF IInv, RequestsHold

LEMMA GoesOnKeeps ==
  ASSUME IInv, Observe, UNCHANGED worldVars, NEW r \in Requests, NEW a, NEW token, req[r].at # "idle",
         RequestHolds(r, a, token), GoesOn(r, a, token)
  PROVE  RequestsHold' /\ AuditHolds'
<1>1. Busy' = Busy
  BY BusyStays DEF IInv, GoesOn
<1>2. LogsTyped' /\ AuditIsInOrder' /\ count' = count
  BY AuditUnchanged DEF IInv, AuditHolds, GoesOn
<1>3. RoomLeft'
  BY <1>1, <1>2 DEF IInv, AuditHolds, RoomLeft
<1> QED
  BY <1>2, <1>3, GoesOnSees DEF AuditHolds

\* A decision is recorded once, and last.
LEMMA DecisionIsLast ==
  ASSUME IInv, NEW r \in Requests, NEW a, req[r].at # "idle", NEW decision, NEW named,
         IsDecided(r, a, decision, named)
  PROVE  /\ LogsTyped' /\ AuditIsInOrder'
         /\ \/ cfg.asks[a].route = {} /\ count' = count
            \/ /\ cfg.asks[a].route # {} /\ count' = count + 1
               /\ ring'[Len(ring')] = [id |-> count + 1, decision |-> decision, named |-> named]
<1>1. LogsTyped /\ AuditIsInOrder /\ count \in Nat /\ count < MaxRecords
  BY RoomForOne DEF IInv, AuditHolds, RoomLeft
<1>2. decision \in {"allow", "deny", "error"} /\ named \in BOOLEAN
  BY DEF IsDecided
<1>3. CASE cfg.asks[a].route = {}
  <2>1. UNCHANGED auditVars
    BY <1>3 DEF IsDecided, Record
  <2> QED
    BY <1>1, <1>3, <2>1, AuditUnchanged
<1>4. CASE cfg.asks[a].route # {}
  <2>1. Recorded(decision, named)
    BY <1>4 DEF IsDecided, Record, Recorded
  <2> QED
    BY <1>1, <1>2, <1>4, <2>1, RecordKeeps
<1> QED
  BY <1>3, <1>4

LEMMA DecidedKeeps ==
  ASSUME IInv, Observe, UNCHANGED worldVars, NEW r \in Requests, NEW a, req[r].at # "idle", Decided(r, a)
  PROVE  RequestsHold' /\ AuditHolds' /\ passed' = [passed EXCEPT ![r] = {}]
<1>1. PICK decision, named : IsDecided(r, a, decision, named)
  BY DEF Decided
<1>2. req' = [req EXCEPT ![r] = NoRequest]
  BY <1>1 DEF IsDecided
<1>3. RequestsHold' /\ passed' = [passed EXCEPT ![r] = {}]
  BY <1>2, OneEnds DEF IInv
<1>4. LogsTyped' /\ AuditIsInOrder' /\ (count' = count \/ count' = count + 1)
  BY <1>1, DecisionIsLast
<1>5. Cardinality(Busy)' = Cardinality(Busy) - 1
  BY <1>2, BusyShrinks DEF IInv
<1>6. RoomLeft'
  BY <1>4, <1>5, BusyIsFinite, LimitsAssumption DEF IInv, AuditHolds, RoomLeft
<1> QED
  BY <1>3, <1>4, <1>6 DEF AuditHolds

LEMMA HandleKeeps ==
  ASSUME IInv, Observe, UNCHANGED worldVars, NEW r \in Requests, Handle(r)
  PROVE  RequestsHold' /\ AuditHolds'
<1>1. CASE RefusedAtOnce(r)
  BY <1>1, RefusedAtOnceKeeps
<1>2. CASE \E a, token : Begins(r, a, token)
  BY <1>2, BeginsKeeps
<1>3. CASE \E a, token : /\ req[r].at # "idle" /\ RequestHolds(r, a, token)
                         /\ GoesOn(r, a, token) \/ Decided(r, a)
  BY <1>3, GoesOnKeeps, DecidedKeeps
<1> QED
  BY <1>1, <1>2, <1>3, HandleCases DEF IInv

\* The requests and the log, in a step that leaves the requests as they are.
LEMMA QuietKeeps ==
  ASSUME IInv, Observe, tenant' = tenant, UNCHANGED req, LogsTyped', AuditIsInOrder', count' = count
  PROVE  RequestsHold' /\ AuditHolds'
<1>1. RequestsHold'
  BY RequestsStay DEF IInv
<1>2. RoomLeft'
  BY DEF IInv, AuditHolds, RoomLeft, Busy
<1> QED
  BY <1>1, <1>2 DEF AuditHolds

LEMMA InitHolds == ASSUME Init PROVE IInv
<1>1. /\ req = [r \in Requests |-> NoRequest] /\ passed = [r \in Requests |-> {}]
      /\ ring = <<>> /\ queue = <<>> /\ file = <<>> /\ failed = <<>> /\ count = 0
  BY DEF Init, Audit!Init
<1>2. WorldHolds
  <2>1. tenant \in DOMAIN Configs /\ ValidConfig(cfg)
    BY DEF Init, cfg
  <2>2. Vaulted
    BY DEF Init, Vaulted
  <2> QED
    BY <2>1, <2>2, LimitsAssumption DEF Init, WorldHolds
<1>3. RequestsHold
  BY <1>1, NoRequestIsOne, LimitsAssumption DEF RequestsHold
<1>4. LogsTyped
  BY <1>1, LimitsAssumption DEF LogsTyped
<1>5. RoomLeft
  <2>1. Busy = {}
    BY <1>1 DEF Busy, NoRequest
  <2> QED
    BY <1>1, <2>1, FS_EmptySet, LimitsAssumption DEF RoomLeft
<1>6. AuditIsInOrder
  <2>1. file \o queue = <<>> /\ 1 .. count = {} /\ DOMAIN <<>> = {}
    BY <1>1
  <2> QED
    BY <1>1, <2>1 DEF AuditIsInOrder
<1> QED
  BY <1>2, <1>3, <1>4, <1>5, <1>6 DEF IInv, AuditHolds

LEMMA StepHolds == ASSUME IInv, [Next]_vars PROVE IInv'
<1>1. CASE Next
  <2>0. Observe
    BY <1>1 DEF Next
  <2>1. ASSUME NEW r \in Requests, Handle(r), UNCHANGED worldVars PROVE IInv'
    BY <2>0, <2>1, HandleKeeps, WorldStays DEF IInv
  <2>2. CASE (Tick \/ StatusEvent \/ Suspend) /\ open' = Opened' /\ UNCHANGED <<req, auditVars>>
    <3>1. tenant' = tenant
      BY <2>2 DEF Tick, StatusEvent, Suspend
    <3>2. WorldHolds'
      BY <2>2, WorldChanges DEF IInv
    <3>3. LogsTyped' /\ AuditIsInOrder' /\ count' = count
      BY <2>2, AuditUnchanged DEF IInv, AuditHolds
    <3> QED
      BY <2>0, <2>2, <3>1, <3>2, <3>3, QuietKeeps DEF IInv
  <2>3. CASE AuditStep /\ UNCHANGED <<worldVars, req>>
    <3>1. tenant' = tenant /\ count' = count
      BY <2>3 DEF worldVars, AuditStep
    <3>2. WorldHolds'
      BY <2>3, WorldStays DEF IInv
    <3>3. LogsTyped' /\ AuditIsInOrder'
      BY <2>3, AuditStepKeeps DEF IInv, AuditHolds
    <3> QED
      BY <2>0, <2>3, <3>1, <3>2, <3>3, QuietKeeps DEF IInv
  <2>4. CASE Restart /\ UNCHANGED worldVars
    <3>1. tenant' = tenant /\ count' = count /\ req' = [r \in Requests |-> NoRequest] /\ Audit!Crash
      BY <2>4 DEF worldVars, Restart
    <3>2. WorldHolds'
      BY <2>4, WorldStays DEF IInv
    <3>3. LogsTyped' /\ AuditIsInOrder'
      BY <3>1, RestartKeeps DEF IInv, AuditHolds
    <3>4. RequestsHold'
      BY <2>0, <3>1, AllEnd DEF IInv
    <3>5. RoomLeft'
      <4>1. Busy' = {}
        BY <3>1 DEF Busy, NoRequest
      <4>2. Cardinality(Busy)' = 0
        BY <4>1, FS_EmptySet
      <4> QED
        BY <3>1, <4>2, BusyIsFinite, LimitsAssumption DEF IInv, AuditHolds, RoomLeft
    <3> QED
      BY <3>2, <3>3, <3>4, <3>5 DEF IInv, AuditHolds
  <2> QED
    BY <1>1, <2>1, <2>2, <2>3, <2>4 DEF Next
<1>2. CASE UNCHANGED vars
  <2>1. UNCHANGED worldVars /\ UNCHANGED req /\ UNCHANGED passed /\ UNCHANGED auditVars
    BY <1>2 DEF vars
  <2>2. WorldHolds'
    BY <2>1, WorldStays DEF IInv
  <2>3. LogsTyped' /\ AuditIsInOrder' /\ count' = count
    BY <2>1, AuditUnchanged DEF IInv, AuditHolds
  <2>4. RoomLeft'
    BY <2>1, <2>3 DEF IInv, AuditHolds, RoomLeft, Busy
  <2>5. RequestsHold'
    <3>1. cfg' = cfg /\ RequestType' = RequestType
      BY <2>1, SameTenant DEF worldVars
    <3>2. ASSUME NEW r \in Requests, req'[r].at # "idle"
          PROVE  \E a \in DOMAIN cfg'.asks : \E token \in cfg'.asks[a].token : RequestHolds(r, a, token)'
      <4>1. PICK a, token : RequestHolds(r, a, token)
        BY <2>1, <3>2, InProgress DEF IInv
      <4>2. passed'[r] = passed[r] /\ req'[r] = req[r] /\ OpenTo(a) \subseteq passed[r] /\ OpenTo(a)' = OpenTo(a)
        BY <2>1, <4>1, SameGates DEF RequestHolds, StageHolds, LetThrough, worldVars
      <4>3. RequestHolds(r, a, token)'
        BY <2>1, <4>1, <4>2, StageKept DEF IInv, RequestsHold, RequestHolds, worldVars
      <4> QED
        BY <4>3 DEF RequestHolds, StageHolds, AsksFor
    <3> QED
      BY <2>1, <3>1, <3>2 DEF IInv, RequestsHold
  <2> QED
    BY <2>2, <2>3, <2>4, <2>5 DEF IInv, AuditHolds
<1> QED
  BY <1>1, <1>2

LEMMA Always == Spec => []IInv
  BY InitHolds, StepHolds, PTL DEF Spec

\* Every variable keeps its type: the clock and the counters their bounds, the vault and the requests
\* theirs, a credential is there exactly while the upstream is asked, and the ring never grows past its
\* size.
THEOREM TypeCorrect == Spec => []TypeOK
<1>1. ASSUME IInv PROVE TypeOK
  <2>1. /\ now \in 0 .. MaxTime /\ tenant \in DOMAIN Configs
        /\ vault \in [VaultNames -> SUBSET DOMAIN cfg.agents]
        /\ passed \in [Requests -> SUBSET GateNames]
    BY <1>1 DEF IInv, WorldHolds, Vaulted, RequestsHold
  <2>2. ASSUME NEW r \in Requests
        PROVE  /\ req[r].at \in Stages
               /\ req[r].ask \subseteq DOMAIN cfg.asks
               /\ req[r].at = "idle" => req[r] = NoRequest /\ passed[r] = {}
               /\ req[r].at \in {"head", "answer"} <=> req[r].cred # {}
               /\ req[r].answer.got <= MaxBytes
    <3>1. /\ req[r].at \in Stages /\ req[r].ask \subseteq DOMAIN cfg.asks
          /\ req[r].at = "idle" => req[r] = NoRequest /\ passed[r] = {}
      BY <1>1 DEF IInv, RequestsHold, RequestType
    <3>2. CASE req[r].at = "idle"
      BY <3>1, <3>2, LimitsAssumption DEF NoRequest, NoAnswer
    <3>3. CASE req[r].at # "idle"
      <4>1. PICK a, token : RequestHolds(r, a, token)
        BY <1>1, <3>3, InProgress DEF IInv
      <4> QED
        BY <3>1, <3>3, <4>1 DEF RequestHolds, StageHolds, Provided
    <3> QED
      BY <3>2, <3>3
  <2>3. count \in 0 .. MaxRecords
    BY <1>1, BusyIsFinite, LimitsAssumption DEF IInv, AuditHolds, RoomLeft
  <2>4. /\ \A log \in {ring, queue, file, failed} : log \in Seq(Records)
        /\ Len(ring) <= Size
    BY <1>1 DEF IInv, AuditHolds, LogsTyped
  <2> QED
    BY <2>1, <2>2, <2>3, <2>4 DEF TypeOK
<1> QED
  BY <1>1, Always, PTL

\* "With several issuers the same address from another issuer must not reach this credential": where no two
\* entries of a tenant have one name in the vault, the credential that is sent was stored for an entry of
\* the very agent, at the issuer of its token.
THEOREM CredentialIsOwn ==
  ASSUME \A t \in DOMAIN Configs : \A i, j \in DOMAIN Configs[t].agents :
           VaultName(Configs[t].agents[i]) = VaultName(Configs[t].agents[j]) => i = j
  PROVE  Spec => []OwnCredential
<1>1. ASSUME IInv,
             NEW r \in Requests, NEW i \in req[r].cred, NEW ask \in AsksOf(r), NEW token \in ask.token
      PROVE  IsFor(cfg.agents[i], token)
  <2>1. req[r].at # "idle"
    BY <1>1 DEF IInv, RequestsHold, NoRequest
  <2>2. PICK a, other : RequestHolds(r, a, other)
    BY <1>1, <2>1, InProgress DEF IInv
  <2>3. token = other
    BY <1>1, <2>2, AskAndToken
  <2>4. PICK j \in DOMAIN cfg.agents :
          IsFor(cfg.agents[j], token) /\ VaultName(cfg.agents[j]) = VaultName(cfg.agents[i])
    BY <1>1, <2>2, <2>3 DEF RequestHolds, StageHolds, Provided
  <2>5. i \in DOMAIN cfg.agents
    BY <1>1 DEF IInv, RequestsHold, RequestType
  <2>6. tenant \in DOMAIN Configs /\ cfg = Configs[tenant]
    BY <1>1 DEF IInv, WorldHolds, cfg
  <2>7. i = j
    BY <2>4, <2>5, <2>6
  <2> QED
    BY <2>4, <2>7
<1>2. IInv => OwnCredential
  BY <1>1 DEF OwnCredential
<1> QED
  BY <1>2, Always, PTL

\* However appends fail and whenever the process dies, the audit file and the lines on their way to it are
\* the records in their order, no record is lost but those whose append failed or that a crash caught, and
\* the ring is the end of that list.
THEOREM LogIsInOrder == Spec => []AuditIsInOrder
<1>1. IInv => AuditIsInOrder
  BY DEF IInv, AuditHolds
<1> QED
  BY <1>1, Always, PTL

----------------------------------------------------------------------------
(* The decisions *)

LEMMA OthersStay ==
  ASSUME RequestsHold, NEW q \in Requests, NEW new, req' = [req EXCEPT ![q] = new], NEW r \in Requests \ {q}
  PROVE  req'[r] = req[r]
  BY DEF RequestsHold

\* A request that ends with a record does so with a decision that is right, and that record is the last.
LEMMA EndIsDecided ==
  ASSUME IInv, [Next]_vars, NEW r \in Requests, req[r].at # "idle", req'[r].at = "idle", count' > count
  PROVE  \E a, decision, named :
           /\ IsDecided(r, a, decision, named) /\ cfg.asks[a].route # {}
           /\ ring'[Len(ring')] = [id |-> count + 1, decision |-> decision, named |-> named]
<1>0. req' # req /\ count' # count
  <2>1. count \in Nat
    BY DEF IInv, AuditHolds, RoomLeft
  <2> QED
    BY <2>1
<1>1. PICK q \in Requests : Handle(q)
  BY <1>0 DEF Next, vars, auditVars, AuditStep, Restart
<1>2. ~ RefusedAtOnce(q)
  BY <1>0 DEF RefusedAtOnce
<1>3. ASSUME NEW a, NEW token, Begins(q, a, token) PROVE FALSE
  BY <1>0, <1>3 DEF Begins, auditVars
<1>4. ASSUME NEW a, NEW token, GoesOn(q, a, token) PROVE FALSE
  BY <1>0, <1>4 DEF GoesOn, auditVars
<1>5. PICK a, token : req[q].at # "idle" /\ Decided(q, a)
  BY <1>1, <1>2, <1>3, <1>4, HandleCases DEF IInv
<1>6. PICK decision, named : IsDecided(q, a, decision, named)
  BY <1>5 DEF Decided
<1>7. q = r
  BY <1>6, OthersStay DEF IsDecided, IInv
<1>8. cfg.asks[a].route = {} => count' = count
  BY <1>5, <1>6, DecisionIsLast
<1>9. cfg.asks[a].route # {} =>
        ring'[Len(ring')] = [id |-> count + 1, decision |-> decision, named |-> named]
  BY <1>5, <1>6, DecisionIsLast
<1> QED
  BY <1>0, <1>6, <1>7, <1>8, <1>9

\* An answer is passed back only complete, unless nothing but the end of the connection marks its end, and
\* only within the limit and without the credential; however long, cut or late answers are.
THEOREM AnswersAreFit == Spec => AnswerIsFit
<1>1. ASSUME IInv, [Next]_vars, NEW r \in Requests, Ends(r, "allow")
      PROVE  LET answer == req[r].answer
             IN  /\ answer.got = answer.meant \/ answer.framing = "closed"
                 /\ answer.got <= MaxBytes
                 /\ ~ answer.echo
  <2>1. PICK a, decision, named :
          /\ IsDecided(r, a, decision, named) /\ cfg.asks[a].route # {}
          /\ ring'[Len(ring')] = [id |-> count + 1, decision |-> decision, named |-> named]
    BY <1>1, EndIsDecided DEF Ends
  <2>2. decision = "allow"
    BY <1>1, <2>1 DEF Ends
  <2>3. PICK b, token : RequestHolds(r, b, token)
    BY <1>1, InProgress DEF IInv, Ends
  <2>4. req[r].answer.got <= MaxBytes
    BY <2>3 DEF RequestHolds, StageHolds, Provided
  <2> QED
    BY <2>1, <2>2, <2>4 DEF IsDecided
<1>2. IInv /\ [Next]_vars =>
        [\A r \in Requests : Ends(r, "allow") =>
           LET answer == req[r].answer
           IN  /\ answer.got = answer.meant \/ answer.framing = "closed"
               /\ answer.got <= MaxBytes
               /\ ~ answer.echo]_vars
  BY <1>1
<1> QED
  BY <1>2, Always, PTL DEF Spec, AnswerIsFit

\* What the log calls denied never had a credential, what it calls allowed did, and an agent it names had
\* shown a good token, was let in by a grant and was not revoked, at some moments since its request arrived.
THEOREM LogIsTrue == Spec => AuditTellsTheTruth
<1>1. ASSUME IInv, [Next]_vars, NEW r \in Requests
      PROVE  /\ Ends(r, "deny") => req[r].cred = {}
             /\ Ends(r, "allow") => req[r].cred # {}
             /\ count' > count /\ req[r].at # "idle" /\ req'[r].at = "idle" /\ ring'[Len(ring')].named =>
                  {"token", "grant", "status"} \subseteq passed[r]
  <2>1. ASSUME count' > count, req[r].at # "idle", req'[r].at = "idle"
        PROVE  /\ ring'[Len(ring')].decision = "deny" => req[r].cred = {}
               /\ ring'[Len(ring')].decision = "allow" => req[r].cred # {}
               /\ ring'[Len(ring')].named => {"token", "grant", "status"} \subseteq passed[r]
    <3>1. PICK a, decision, named :
            /\ IsDecided(r, a, decision, named) /\ cfg.asks[a].route # {}
            /\ ring'[Len(ring')] = [id |-> count + 1, decision |-> decision, named |-> named]
      BY <1>1, <2>1, EndIsDecided
    <3>2. ring'[Len(ring')].decision = decision /\ ring'[Len(ring')].named = named
      BY <3>1
    <3> QED
      BY <3>1, <3>2 DEF IsDecided
  <2> QED
    BY <2>1 DEF Ends
<1>2. IInv /\ [Next]_vars =>
        [\A r \in Requests :
           /\ Ends(r, "deny") => req[r].cred = {}
           /\ Ends(r, "allow") => req[r].cred # {}
           /\ count' > count /\ req[r].at # "idle" /\ req'[r].at = "idle" /\ ring'[Len(ring')].named =>
                {"token", "grant", "status"} \subseteq passed[r]]_vars
  BY <1>1
<1> QED
  BY <1>2, Always, PTL DEF Spec, AuditTellsTheTruth

----------------------------------------------------------------------------
(* The refinement *)

Askable == UNION {DOMAIN Configs[t].asks : t \in DOMAIN Configs}

\* What the gate sees of a request.
Phase(r) == IF req[r].at = "idle" THEN "idle" ELSE IF req[r].at \in Sent THEN "sent" ELSE "waiting"

CallOf(r) == [at |-> Phase(r), bearer |-> req[r].ask, passed |-> passed[r]]

GateCall == [r \in Requests |-> CallOf(r)]

LEMMA PassingOne == \A a : Gate!Passing(open, {a}) = OpenTo(a)
  BY DEF Gate!Passing, OpenTo

LEMMA AskableNow ==
  ASSUME WorldHolds
  PROVE  DOMAIN cfg.asks \subseteq Askable
  BY DEF WorldHolds, cfg, Askable

LEMMA OpenIsTyped ==
  ASSUME WorldHolds
  PROVE  open \in [GateNames -> SUBSET Askable]
  BY AskableNow DEF WorldHolds, Opened

LEMMA InitIsGated == ASSUME Init PROVE Gate!Init
<1>1. GateCall = [r \in Requests |-> Gate!NoCall]
  BY DEF Init, NoRequest, GateCall, CallOf, Phase, Gate!NoCall
<1>2. open \in [GateNames -> SUBSET Askable]
  BY InitHolds, OpenIsTyped DEF IInv
<1> QED
  BY <1>1, <1>2 DEF Gate!Init, GateCall, CallOf, Phase, Sent, Askable

\* A request that arrives finds the gates of that moment.
LEMMA BeginsIsBegin ==
  ASSUME IInv, Observe, UNCHANGED worldVars, NEW r \in Requests, NEW a, NEW token, Begins(r, a, token)
  PROVE  a \in Askable /\ Gate!Begin(r, a)
<1>1. /\ req[r] = NoRequest /\ Arrived(a).at = "key" /\ Arrived(a).ask = {a}
      /\ passed' = [passed EXCEPT ![r] = OpenTo(a)] /\ req' = [req EXCEPT ![r] = Arrived(a)]
  BY BeginsSees DEF Begins
<1>2. a \in Askable
  BY AskableNow DEF Begins, AsksFor, IInv
<1>3. req \in [Requests -> RequestType] /\ passed \in [Requests -> SUBSET GateNames]
  BY DEF IInv, RequestsHold
<1>4. req'[r] = Arrived(a) /\ passed'[r] = OpenTo(a)
  BY <1>1, <1>3
<1>5. CallOf(r)' = [at |-> "waiting", bearer |-> {a}, passed |-> Gate!Passing(open, {a})]
  BY <1>1, <1>4, PassingOne DEF CallOf, Phase, Sent
<1>6. \A q \in Requests \ {r} : req'[q] = req[q] /\ passed'[q] = passed[q]
  BY <1>1, <1>3
<1>7. \A q \in Requests \ {r} : CallOf(q)' = CallOf(q)
  BY <1>6 DEF CallOf, Phase
<1>8. GateCall' = [GateCall EXCEPT ![r] = [at |-> "waiting", bearer |-> {a}, passed |-> Gate!Passing(open, {a})]]
  BY <1>5, <1>7 DEF GateCall
<1>9. GateCall[r].at = "idle"
  BY <1>1 DEF GateCall, CallOf, Phase, NoRequest
<1>10. open' = open
  BY DEF worldVars
<1> QED
  BY <1>2, <1>8, <1>9, <1>10 DEF Gate!Begin, GateCall, CallOf, Phase, Sent

\* What is sent has passed every gate; the steps before and after it are not seen by the gate.
LEMMA GoesOnIsSend ==
  ASSUME IInv, NoHiddenCeiling(cfg), Observe, UNCHANGED worldVars, NEW r \in Requests, NEW a, NEW token, req[r].at # "idle",
         RequestHolds(r, a, token), GoesOn(r, a, token)
  PROVE  Gate!Send(r) \/ UNCHANGED Gate!vars
<1>1. PICK new \in RequestType :
        /\ new.at # "idle" /\ (req[r].at \in Sent => new.at \in Sent)
        /\ StageHolds(new, passed[r], a, token)
        /\ req' = [req EXCEPT ![r] = new]
  BY DEF GoesOn
<1>2. passed' = passed /\ open' = open
  BY GoesOnSees DEF worldVars
<1>3. req'[r] = new /\ (\A q \in Requests \ {r} : req'[q] = req[q])
  BY <1>1 DEF IInv, RequestsHold
<1>4. new.ask = {a} /\ req[r].ask = {a}
  BY <1>1 DEF RequestHolds, StageHolds, AsksFor
<1>5. \A q \in Requests \ {r} : CallOf(q)' = CallOf(q)
  BY <1>2, <1>3 DEF CallOf, Phase
<1>6. CASE new.at \in Sent /\ req[r].at \notin Sent
  <2>1. passed[r] = GateNames
    <3>1. Sure = GateNames
      BY DEF Sure
    <3>2. passed[r] \in SUBSET GateNames
      BY DEF IInv, RequestsHold
    <3> QED
      BY <1>1, <1>6, <3>1, <3>2 DEF StageHolds, LetThrough, Sent
  <2>2. CallOf(r)' = [CallOf(r) EXCEPT !.at = "sent"]
    <3>1. Phase(r) = "waiting" /\ Phase(r)' = "sent"
      BY <1>3, <1>6 DEF Phase, Sent
    <3>2. req'[r].ask = req[r].ask /\ passed'[r] = passed[r]
      BY <1>2, <1>3, <1>4
    <3> QED
      BY <3>1, <3>2 DEF CallOf
  <2>3. GateCall' = [GateCall EXCEPT ![r].at = "sent"]
    BY <1>5, <2>2 DEF GateCall
  <2>4. GateCall[r].at = "waiting" /\ GateCall[r].passed = GateNames
    BY <1>6, <2>1 DEF GateCall, CallOf, Phase
  <2> QED
    BY <1>2, <2>3, <2>4 DEF Gate!Send, GateCall, CallOf, Phase, Sent
<1>7. CASE new.at \in Sent <=> req[r].at \in Sent
  <2>1. CallOf(r)' = CallOf(r)
    BY <1>1, <1>2, <1>3, <1>4, <1>7 DEF CallOf, Phase
  <2>2. GateCall' = GateCall
    BY <1>5, <2>1 DEF GateCall
  <2> QED
    BY <1>2, <2>2 DEF Gate!vars, GateCall, CallOf, Phase, Sent
<1> QED
  BY <1>1, <1>6, <1>7

LEMMA NoRequestIsNoCall ==
  ASSUME Observe, NEW r \in Requests, req'[r] = NoRequest
  PROVE  CallOf(r)' = Gate!NoCall
<1>1. NoRequest.at = "idle" /\ NoRequest.ask = {}
  BY DEF NoRequest
<1>2. passed'[r] = {}
  BY <1>1, IdleObserved
<1>3. Phase(r)' = "idle"
  BY <1>1 DEF Phase
<1>4. CallOf(r)' = [at |-> Phase(r)', bearer |-> req'[r].ask, passed |-> passed'[r]]
  BY DEF CallOf
<1> QED
  BY <1>1, <1>2, <1>3, <1>4 DEF Gate!NoCall

LEMMA DecidedIsEnd ==
  ASSUME IInv, Observe, UNCHANGED worldVars, NEW r \in Requests, NEW a, req[r].at # "idle", Decided(r, a)
  PROVE  Gate!End(r)
<1>1. req' = [req EXCEPT ![r] = NoRequest] /\ passed' = [passed EXCEPT ![r] = {}] /\ open' = open
  BY DecidedKeeps DEF Decided, IsDecided, worldVars
<1>2. req \in [Requests -> RequestType] /\ passed \in [Requests -> SUBSET GateNames]
  BY DEF IInv, RequestsHold
<1>3. req'[r] = NoRequest /\ \A q \in Requests \ {r} : req'[q] = req[q] /\ passed'[q] = passed[q]
  BY <1>1, <1>2
<1>4. CallOf(r)' = Gate!NoCall
  BY <1>3, NoRequestIsNoCall
<1>5. \A q \in Requests \ {r} : CallOf(q)' = CallOf(q)
  BY <1>3 DEF CallOf, Phase
<1>6. GateCall' = [GateCall EXCEPT ![r] = Gate!NoCall]
  BY <1>4, <1>5 DEF GateCall
<1>7. GateCall[r].at # "idle"
  BY DEF GateCall, CallOf, Phase
<1> QED
  BY <1>1, <1>6, <1>7 DEF Gate!End, GateCall, CallOf, Phase, Sent

LEMMA HandleIsGated ==
  ASSUME IInv, NoHiddenCeiling(cfg), Observe, UNCHANGED worldVars, NEW r \in Requests, Handle(r)
  PROVE  Gate!Next \/ UNCHANGED Gate!vars
<1>1. CASE RefusedAtOnce(r)
  <2>1. req' = req /\ open' = open /\ passed' = passed
    BY <1>1, RequestsStay DEF RefusedAtOnce, IInv, worldVars
  <2>2. GateCall' = GateCall
    BY <2>1 DEF GateCall, CallOf, Phase
  <2> QED
    BY <2>1, <2>2 DEF Gate!vars, GateCall, CallOf, Phase, Sent
<1>2. ASSUME NEW a, NEW token, Begins(r, a, token) PROVE Gate!Next
  BY <1>2, BeginsIsBegin DEF Gate!Next, Askable
<1>3. ASSUME NEW a, NEW token, req[r].at # "idle", RequestHolds(r, a, token), GoesOn(r, a, token)
      PROVE  Gate!Next \/ UNCHANGED Gate!vars
  BY <1>3, GoesOnIsSend DEF Gate!Next
<1>4. ASSUME NEW a, req[r].at # "idle", Decided(r, a) PROVE Gate!Next
  BY <1>4, DecidedIsEnd DEF Gate!Next
<1> QED
  BY <1>1, <1>2, <1>3, <1>4, HandleCases DEF IInv

\* Time, status events and issuers that suspend change the gates.
LEMMA WorldIsChange ==
  ASSUME IInv, Observe, Tick \/ StatusEvent \/ Suspend, open' = Opened', UNCHANGED req
  PROVE  Gate!Change
<1>0. tenant' = tenant
  BY DEF Tick, StatusEvent, Suspend
<1>1. open' \in [GateNames -> SUBSET Askable]
  <2>1. DOMAIN cfg'.asks \subseteq Askable
    BY <1>0, SameTenant, AskableNow DEF IInv
  <2> QED
    BY <2>1 DEF Opened
<1>2. ASSUME NEW r \in Requests
      PROVE  CallOf(r)' = IF CallOf(r).at = "idle" THEN CallOf(r)
                          ELSE [CallOf(r) EXCEPT !.passed = @ \cup Gate!Passing(open', CallOf(r).bearer)]
  <2>1. CASE req[r].at = "idle"
    BY <2>1, IdleObserved DEF CallOf, Phase, IInv, RequestsHold
  <2>2. CASE req[r].at # "idle"
    <3>1. PICK a, token : RequestHolds(r, a, token)
      BY <2>2, InProgress DEF IInv
    <3>2. req[r].ask = {a}
      BY <3>1, AskAndToken
    <3>3. passed'[r] = passed[r] \cup OpenTo(a)'
      BY <2>2, <3>2, Observed
    <3>4. Gate!Passing(open', {a}) = OpenTo(a)'
      BY DEF Gate!Passing, OpenTo
    <3>5. CallOf(r).at # "idle" /\ CallOf(r).bearer = {a}
      BY <2>2, <3>2 DEF CallOf, Phase
    <3>6. CallOf(r)' = [CallOf(r) EXCEPT !.passed = passed'[r]]
      <4>1. Phase(r)' = Phase(r) /\ req'[r].ask = req[r].ask
        BY DEF Phase
      <4>2. CallOf(r)' = [at |-> Phase(r)', bearer |-> req'[r].ask, passed |-> passed'[r]]
        BY DEF CallOf
      <4>3. CallOf(r) = [at |-> Phase(r), bearer |-> req[r].ask, passed |-> passed[r]]
        BY DEF CallOf
      <4> QED
        BY <4>1, <4>2, <4>3
    <3>7. CallOf(r).passed = passed[r]
      BY DEF CallOf
    <3>8. [CallOf(r) EXCEPT !.passed = @ \cup Gate!Passing(open', CallOf(r).bearer)]
            = [CallOf(r) EXCEPT !.passed = passed'[r]]
      BY <3>3, <3>4, <3>5, <3>7
    <3> QED
      BY <3>5, <3>6, <3>8
  <2> QED
    BY <2>1, <2>2
<1>3. GateCall' = [r \in Requests |->
                     IF GateCall[r].at = "idle" THEN GateCall[r]
                     ELSE [GateCall[r] EXCEPT !.passed = @ \cup Gate!Passing(open', GateCall[r].bearer)]]
  BY <1>2, Zenon DEF GateCall
<1> QED
  BY <1>1, <1>3 DEF Gate!Change, GateCall, CallOf, Phase, Sent, Askable

LEMMA RestartIsCrash ==
  ASSUME IInv, Observe, Restart, UNCHANGED worldVars
  PROVE  Gate!Crash
<1>1. \A r \in Requests : req'[r] = NoRequest
  BY DEF Restart
<1>2. \A r \in Requests : CallOf(r)' = Gate!NoCall
  BY <1>1, NoRequestIsNoCall
<1>3. GateCall' = [r \in Requests |-> Gate!NoCall]
  BY <1>2 DEF GateCall
<1>4. open' \in [GateNames -> SUBSET Askable]
  BY OpenIsTyped DEF IInv, worldVars
<1> QED
  BY <1>3, <1>4 DEF Gate!Crash, GateCall, CallOf, Phase, Sent, Askable

LEMMA StepIsGated == ASSUME IInv, NoHiddenCeiling(cfg), [Next]_vars PROVE [Gate!Next]_(Gate!vars)
<1>1. ASSUME open' = open, req' = req, passed' = passed PROVE UNCHANGED Gate!vars
  <2>1. GateCall' = GateCall
    BY <1>1 DEF GateCall, CallOf, Phase
  <2> QED
    BY <1>1, <2>1 DEF Gate!vars, GateCall, CallOf, Phase, Sent
<1>2. CASE UNCHANGED vars
  BY <1>1, <1>2 DEF vars, worldVars
<1>3. ASSUME Observe, NEW r \in Requests, Handle(r), UNCHANGED worldVars PROVE [Gate!Next]_(Gate!vars)
  BY <1>3, HandleIsGated
<1>4. ASSUME Observe, Tick \/ StatusEvent \/ Suspend, open' = Opened', UNCHANGED req PROVE Gate!Next
  BY <1>4, WorldIsChange DEF Gate!Next
<1>5. ASSUME Observe, UNCHANGED <<worldVars, req>> PROVE UNCHANGED Gate!vars
  BY <1>1, <1>5, RequestsStay DEF IInv, worldVars
<1>6. ASSUME Observe, Restart, UNCHANGED worldVars PROVE Gate!Next
  BY <1>6, RestartIsCrash DEF Gate!Next
<1> QED
  BY <1>2, <1>3, <1>4, <1>5, <1>6 DEF Next

\* The request pipeline implements AccessGate with its six gates: whatever the clock, the issuers and the
\* upstreams do while a request waits, it goes to the upstream or the application only if its token was
\* good, a grant let its agent in, no status event spoke against it, its issuer called it active where it
\* had to be asked, its permission was had here and an entry of its own issuer was on, each at some
\* moment since the request arrived.  It asks that in open issuers no grant that may end hides the ceiling
\* of a later one; the verifier does not see to that.
THEOREM Gated ==
  ASSUME \A t \in DOMAIN Configs : NoHiddenCeiling(Configs[t])
  PROVE  Spec => AccessIsGated
<1>1. IInv => NoHiddenCeiling(cfg)
  BY DEF IInv, WorldHolds, cfg
<1>2. IInv /\ [Next]_vars => [Gate!Next]_(Gate!vars)
  BY <1>1, StepIsGated
<1> QED
  BY <1>2, InitIsGated, Always, PTL DEF Spec, AccessIsGated, Gate!Spec

----------------------------------------------------------------------------
(* What follows from the gates *)

\* A request asks the same as long as it is in progress.
LEMMA AskStays ==
  ASSUME IInv, [Next]_vars, NEW r \in Requests, req[r].at # "idle", req'[r].at # "idle"
  PROVE  req'[r].ask = req[r].ask
<1>1. CASE req' = req
  BY <1>1
<1>2. CASE req' # req
  <2>0. ~ Restart
    BY DEF Restart, NoRequest
  <2>1. PICK q \in Requests : Handle(q)
    BY <1>2, <2>0 DEF Next, vars
  <2>2. CASE RefusedAtOnce(q)
    BY <1>2, <2>2 DEF RefusedAtOnce
  <2>3. ASSUME NEW a, NEW token, Begins(q, a, token) PROVE req'[r].ask = req[r].ask
    <3>1. r # q /\ req' = [req EXCEPT ![q] = Arrived(a)]
      BY <2>3 DEF Begins
    <3> QED
      BY <3>1, OthersStay DEF IInv
  <2>4. ASSUME NEW a, NEW token, RequestHolds(q, a, token), GoesOn(q, a, token) PROVE req'[r].ask = req[r].ask
    <3>1. PICK new : /\ StageHolds(new, passed[q], a, token)
                     /\ req' = [req EXCEPT ![q] = new]
      BY <2>4 DEF GoesOn
    <3>2. CASE q = r
      BY <2>4, <3>1, <3>2 DEF RequestHolds, StageHolds, AsksFor, IInv, RequestsHold
    <3>3. CASE q # r
      BY <3>1, <3>3, OthersStay DEF IInv
    <3> QED
      BY <3>2, <3>3
  <2>5. ASSUME NEW a, Decided(q, a) PROVE req'[r].ask = req[r].ask
    <3>1. req' = [req EXCEPT ![q] = NoRequest]
      BY <2>5 DEF Decided, IsDecided
    <3>2. r # q
      BY <3>1 DEF IInv, RequestsHold, NoRequest
    <3> QED
      BY <3>1, <3>2, OthersStay DEF IInv
  <2> QED
    BY <2>1, <2>2, <2>3, <2>4, <2>5, HandleCases DEF IInv
<1> QED
  BY <1>1, <1>2

\* The gate is open to no token the request may come with.
Shut(g, a) ==
  \A token \in cfg.asks[a].token : token.issuer \in DOMAIN cfg.policy.issuers => ~ GateOpen(g, a, token)

\* The request is not one that has seen the gate open to a.
Unseen(r, g, a) == req[r].at = "idle" \/ req[r].ask # {a} \/ g \notin passed[r]

LEMMA ShutIsShut ==
  ASSUME WorldHolds, NEW g \in GateNames, NEW a, Shut(g, a)
  PROVE  g \notin OpenTo(a)
  BY DEF WorldHolds, Opened, OpenTo, Shut

LEMMA UnseenStays ==
  ASSUME IInv, [Next]_vars, IInv', NEW r \in Requests, NEW g \in GateNames, NEW a, Unseen(r, g, a), Shut(g, a)'
  PROVE  Unseen(r, g, a)'
<1> SUFFICES ASSUME req'[r].at # "idle", req'[r].ask = {a} PROVE g \notin passed'[r]
  BY DEF Unseen
<1>1. g \notin OpenTo(a)'
  <2>1. a \notin Opened'[g]
    BY DEF Opened, Shut
  <2>2. open' = Opened'
    BY DEF IInv, WorldHolds
  <2> QED
    BY <2>1, <2>2 DEF OpenTo
<1>2. g \notin passed[r]
  BY AskStays DEF Unseen, IInv, RequestsHold
<1>3. CASE Next
  <2>1. passed'[r] = passed[r] \cup OpenTo(a)'
    BY <1>3, Observed DEF Next
  <2> QED
    BY <1>1, <1>2, <2>1
<1>4. CASE UNCHANGED vars
  BY <1>2, <1>4 DEF vars
<1> QED
  BY <1>3, <1>4

LEMMA UnseenIsNotSent ==
  ASSUME IInv, NEW r \in Requests, NEW g \in Sure, NEW a, Unseen(r, g, a), req[r].ask = {a}
  PROVE  req[r].at \notin Sent
<1> SUFFICES ASSUME req[r].at \in Sent PROVE FALSE
  OBVIOUS
<1>1. req[r].at # "idle"
  BY DEF Sent
<1>2. PICK b, token : RequestHolds(r, b, token)
  BY <1>1, InProgress DEF IInv
<1>3. Sure \subseteq passed[r]
  BY <1>2 DEF RequestHolds, StageHolds, LetThrough, Sent
<1> QED
  BY <1>1, <1>3 DEF Unseen

\* Who is shut out stays out: a request that arrives while one of the gates is shut to what it asks, be it
\* that its grant has ended, its agent is off or its issuer called it back, never reaches the upstream or
\* the application while that gate stays shut, in whatever order its answers come.  For the gate of the
\* permission no ceiling may be hidden (Gated).
THEOREM ShutOut ==
  ASSUME NEW r \in Requests, NEW g \in GateNames, NEW a,
         g = "permission" => \A t \in DOMAIN Configs : NoHiddenCeiling(Configs[t])
  PROVE  Spec => [](req[r].at = "idle" /\ []Shut(g, a) => [](req[r].ask = {a} => req[r].at \notin Sent))
<1>1. req[r].at = "idle" => Unseen(r, g, a)
  BY DEF Unseen
<1>2. IInv /\ [Next]_vars /\ IInv' /\ Unseen(r, g, a) /\ Shut(g, a)' => Unseen(r, g, a)'
  BY UnseenStays
<1>3. IInv /\ Unseen(r, g, a) => (req[r].ask = {a} => req[r].at \notin Sent)
  <2>1. IInv => g \in Sure
    BY DEF IInv, WorldHolds, cfg, Sure
  <2> QED
    BY <2>1, UnseenIsNotSent
<1> QED
  BY <1>1, <1>2, <1>3, Always, PTL DEF Spec

\* A status event that revokes an agent or a token ends its access to all that arrives from then on, until
\* another one restores it: no request with that token is sent, whatever else is in progress.
THEOREM RevokedStayOut ==
  ASSUME NEW r \in Requests, NEW a
  PROVE  Spec => [](req[r].at = "idle" /\ [](\A token \in cfg.asks[a].token : Revoked(token))
                      => [](req[r].ask = {a} => req[r].at \notin Sent))
<1> DEFINE AllRevoked == \A token \in cfg.asks[a].token : Revoked(token)
<1>0. AllRevoked => Shut("status", a)
  BY DEF Shut, GateOpen
<1>1. req[r].at = "idle" => Unseen(r, "status", a)
  BY DEF Unseen
<1>2. IInv /\ [Next]_vars /\ IInv' /\ Unseen(r, "status", a) /\ Shut("status", a)' => Unseen(r, "status", a)'
  BY UnseenStays DEF GateNames
<1>3. IInv /\ Unseen(r, "status", a) => (req[r].ask = {a} => req[r].at \notin Sent)
  <2>1. "status" \in Sure
    BY DEF Sure, GateNames
  <2> QED
    BY <2>1, UnseenIsNotSent
<1> QED
  BY <1>0, <1>1, <1>2, <1>3, Always, PTL DEF Spec
=============================================================================
