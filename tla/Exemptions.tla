------------------------------ MODULE Exemptions ------------------------------
(***************************************************************************)
(* The routes RequireConsent never blocks                                  *)
(* (crates/terrace-legal-axum/src/consent/exempt.rs and require.rs): a     *)
(* host builds the set from its five mounts and extends it, then requests  *)
(* arrive whose paths grow token by token.                                 *)
(*                                                                         *)
(* A path is a sequence of tokens: "/", ".", "%2e" for the dot in any      *)
(* percent-encoding, " " for whitespace and control characters, "?" for    *)
(* the start of a query or a fragment, and pieces of names.                *)
(***************************************************************************)
EXTENDS Ranks, SequencesExt

CONSTANTS
  Pieces,       \* pieces of names: a segment may be several of them
  MountChoices, \* the five mounts hosts write, legal first: Mounts
  Extensions,   \* the prefixes hosts extend the set with
  DocumentSlugs,\* the slugs of published documents
  MaxPath,      \* bound on the tokens of a path
  MaxPrefixes   \* bound on the prefixes of a set

Separators == {"/", ".", "%2e", " ", "?"}
PathTokens == Pieces \cup {"/", ".", "%2e"}

ASSUME ExemptionsAssumption ==
  /\ Pieces \cap Separators = {}
  /\ \A mounts \in MountChoices :
       mounts \in Seq(Seq(Pieces \cup Separators)) /\ Len(mounts) = 5
  /\ Extensions \subseteq Seq(Pieces \cup Separators)
  /\ DocumentSlugs \subseteq Seq(Pieces) \ {<< >>}
  /\ {MaxPath, MaxPrefixes} \subseteq Nat

VARIABLES
  host,      \* whether the host has its set: "starting", "ready" or "refused"
  given,     \* every prefix the host wrote, as written
  prefixes,  \* Exemptions::prefixes
  path       \* the full path of the request, as the client sent it

exemptionVars == <<host, given, prefixes, path>>
------------------------------------------------------------------------------
(***************************************************************************)
(* Exemptions::add.                                                        *)
(***************************************************************************)
\* str::split('/').
Edges(tokens) ==
  {0, Len(tokens) + 1} \cup {i \in DOMAIN tokens : tokens[i] = "/"}

Split(tokens) ==
  LET edges == Ascending(Edges(tokens))
  IN  [n \in 1..(Len(edges) - 1) |-> SubSeq(tokens, edges[n] + 1, edges[n + 1] - 1)]

Decoded(segment) == [i \in DOMAIN segment |->
                       IF segment[i] = "%2e" THEN "." ELSE segment[i]]

IsDotSegment(segment) == Decoded(segment) \in {<<".">>, <<".", ".">>}

\* trim_end_matches('/').
TrimEnd(prefix) ==
  SubSeq(prefix, 1, SelectLastInSeq(prefix, LAMBDA token : token # "/"))

Usable(trimmed) ==
  /\ Len(trimmed) > 1
  /\ Head(trimmed) = "/"
  /\ {"?", " "} \cap ToSet(trimmed) = {}
  /\ \A segment \in ToSet(Tail(Split(trimmed))) :
       segment # << >> /\ ~ IsDotSegment(segment)

\* Mutant: the prefix is kept as it was written.
AddVerbatim(kept, prefix) ==
  IF Contains(kept, prefix) THEN kept ELSE Append(kept, prefix)

Add(kept, prefix) ==
  IF Contains(kept, TrimEnd(prefix)) THEN kept ELSE Append(kept, TrimEnd(prefix))

Accepted(written) == \A i \in DOMAIN written : Usable(TrimEnd(written[i]))
------------------------------------------------------------------------------
(***************************************************************************)
(* Exemptions::covers and the path the layer asks it about.                *)
(***************************************************************************)
Covers(kept, full) ==
  /\ \A segment \in ToSet(Split(full)) : ~ IsDotSegment(segment)
  /\ \E prefix \in ToSet(kept) :
       /\ IsPrefix(prefix, full)
       /\ Len(full) > Len(prefix) => full[Len(prefix) + 1] = "/"

\* A router nested under the first `depth` tokens hands on a request whose path
\* lacks them and whose extension holds the original.
NoOriginal == << >>

Nested(full, depth) ==
  [path |-> SubSeq(full, depth + 1, Len(full)),
   original |-> IF depth = 0 THEN NoOriginal ELSE full]

NestPoints(full) ==
  {0} \cup {depth \in 1..(Len(full) - 1) : full[depth + 1] = "/"}

\* Mutant: the layer reads the path it is handed.
PathSeenHandedOn(request) == request.path

PathSeen(request) ==
  IF request.original = NoOriginal THEN request.path ELSE request.original
------------------------------------------------------------------------------
StartHost == host = "starting" /\ given = << >> /\ prefixes = << >> /\ path = <<"/">>

\* Exemptions::new: each mount in turn, none kept once one is refused.
New(mounts) ==
  /\ host = "starting"
  /\ given' = mounts
  /\ IF Accepted(mounts)
     THEN /\ host' = "ready"
          /\ prefixes' = Add(Add(Add(Add(Add(<< >>, mounts[1]), mounts[2]), mounts[3]),
                               mounts[4]), mounts[5])
     ELSE host' = "refused" /\ UNCHANGED prefixes
  /\ UNCHANGED path

\* extend consumes the set: one that is refused leaves the host without any.
Extend(prefix) ==
  /\ host = "ready"
  /\ path = <<"/">>
  /\ Len(given) < MaxPrefixes
  /\ given' = Append(given, prefix)
  /\ IF Usable(TrimEnd(prefix))
     THEN prefixes' = Add(prefixes, prefix) /\ UNCHANGED host
     ELSE host' = "refused" /\ prefixes' = << >>
  /\ UNCHANGED path

\* The path of a request, one token longer.
Request(token) ==
  /\ host = "ready"
  /\ Len(path) < MaxPath
  /\ path' = Append(path, token)
  /\ UNCHANGED <<host, given, prefixes>>

ExemptionsNext ==
  \/ \E mounts \in MountChoices : New(mounts)
  \/ \E prefix \in Extensions : Extend(prefix)
  \/ \E token \in PathTokens : Request(token)

ExemptionsSpec == StartHost /\ [][ExemptionsNext]_exemptionVars
------------------------------------------------------------------------------
(***************************************************************************)
(* Properties.                                                             *)
(***************************************************************************)
\* The segments a path names once `.` and `..` are resolved (RFC 3986, 5.2.4).
Entered(parts, segment) ==
  CASE Decoded(segment) = <<".">>      -> parts
    [] Decoded(segment) = <<".", ".">> ->
         IF parts = << >> THEN parts ELSE Front(parts)
    [] OTHER -> Append(parts, segment)

Resolved(full) ==
  LET segments == Tail(Split(full))
      resolved[n \in 0..Len(segments)] ==
        IF n = 0 THEN << >> ELSE Entered(resolved[n - 1], segments[n])
  IN  resolved[Len(segments)]

Below(prefix, segments) == IsPrefix(Tail(Split(TrimEnd(prefix))), segments)

\* Exempt are the paths below a prefix the host wrote, segment by segment and
\* after whatever a server behind the layer makes of `.` and `..`, whether or not
\* routers above the layer stripped part of the path; the converse holds of
\* every path without dots, and nobody exempts the whole application
\* (Exemptions: "covers `/v1/me/export/csv` and not `/v1/me/exported`").
ExemptIsBelowAMount ==
  host = "ready" =>
    LET below == \E i \in DOMAIN given : Below(given[i], Resolved(path))
        plain == {".", "%2e"} \cap ToSet(path) = {}
    IN  /\ path = <<"/">> => ~ below
        /\ \A depth \in NestPoints(path) :
             LET covered == Covers(prefixes, PathSeen(Nested(path, depth)))
             IN  /\ covered => below
                 /\ below /\ plain => covered

\* However the host spelt its mounts, every document below the legal mount can
\* be read by someone who owes an acceptance, and every other mount is open too
\* (RequireConsent: "A reader has to be able to read what they are asked to
\* accept").
MandatoryRoutesAreOpen ==
  host = "ready" =>
    /\ \A i \in 1..5 : Covers(prefixes, TrimEnd(given[i]))
    /\ \A slug \in DocumentSlugs :
         Covers(prefixes, TrimEnd(given[1]) \o <<"/">> \o slug)
==============================================================================
