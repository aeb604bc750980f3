------------------------------ MODULE Catalog -------------------------------
(***************************************************************************)
(* Request targets (gateway/src/paths.js) and the permission catalog       *)
(* (gateway/src/catalog.js).                                               *)
(*                                                                         *)
(* A path is a sequence of segments, each as it decodes.  A template is a  *)
(* sequence of sets: {text} for a literal, {} for a parameter, whose name  *)
(* means nothing.  An entry is [method, template, permission].             *)
(***************************************************************************)
EXTENDS Naturals, Sequences

CONSTANTS
  Methods,      \* HTTP methods
  Segments,     \* texts a segment may decode to
  Permissions,  \* what an entry may ask for
  Unfit,    \* what a segment is refused for: bad or double encoding, `/`, `\`, `;`, control characters, dots
  Blank,    \* the empty segment
  Reserved  \* the segment of the event receiver, "_events"

Entries == [method : Methods, template : Seq(SUBSET Segments), permission : Permissions]

\* A segment decodes to a text that cannot mean anything else to the upstream.
FitSegment(segment) == segment \notin Unfit \cup {Blank}

\* parseTarget, after the tenant: the path, if the target is acceptable.  "/<tenant>/" is the root.
ParseTarget(raw) ==
  LET segments == IF raw = <<Blank>> THEN <<>> ELSE raw
  IN  {s \in {segments} : \A i \in DOMAIN s : FitSegment(s[i])}

\* What validateCatalog accepts: no reserved path, and no two entries of one shape.
ValidCatalog(catalog) ==
  /\ \A i \in DOMAIN catalog : catalog[i].template # <<>> => catalog[i].template[1] # {Reserved}
  /\ \A i, j \in DOMAIN catalog :
       catalog[i].method = catalog[j].method /\ catalog[i].template = catalog[j].template => i = j

\* Every segment is the literal of the template, or stands for a parameter.
Fits(template, path) ==
  /\ Len(template) = Len(path)
  /\ \A i \in DOMAIN path : template[i] \subseteq {path[i]}

\* moreSpecific: at the first segment where one is literal and the other a parameter, the literal wins.
MoreSpecific(a, b) ==
  \E i \in DOMAIN a \cap DOMAIN b :
    /\ a[i] # {} /\ b[i] = {}
    /\ \A j \in 1 .. i - 1 : a[j] = {} <=> b[j] = {}

Hits(catalog, method, path) ==
  {catalog[i] : i \in {j \in DOMAIN catalog : catalog[j].method = method /\ Fits(catalog[j].template, path)}}

\* match: the entry that is sorted first.  No two entries of a valid catalog tie (ProxyProofs).
Match(catalog, method, path) ==
  LET hits == Hits(catalog, method, path)
  IN  {e \in hits : \A d \in hits : ~ MoreSpecific(d.template, e.template)}

\* The same by descent, segment for segment: of the entries that fit, those with the literal if there are any.
Descent(catalog, method, path) ==
  LET sieve[n \in 0 .. Len(path)] ==
        IF n = 0 THEN Hits(catalog, method, path)
        ELSE LET literal == {e \in sieve[n - 1] : e.template[n] # {}}
             IN  IF literal # {} THEN literal ELSE sieve[n - 1]
  IN  sieve[Len(path)]
=============================================================================
