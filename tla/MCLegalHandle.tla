---------------------------- MODULE MCLegalHandle ----------------------------
(***************************************************************************)
(* LegalHandle, its index and documents behind a shared cache for TLC:     *)
(* terms in two locales and three spellings of them, in one catalog beside *)
(* an imprint.  Either callers of `replace` overlap and the index is read, *)
(* or documents are read through the cache; the other half stands still.   *)
(***************************************************************************)
EXTENDS IndexTag, SharedCache

VARIABLE half

\* The cache starts in front of terms in two languages; if it stands still, nothing
\* is recorded for it.
BothInit ==
  /\ IndexInit
  /\ \/ half = "handle" /\ ColdCache /\ recent = << >>
     \/ /\ half = "cache" /\ SharedInit
        /\ Hosts(catalog.documents, "terms")
        /\ DOMAIN catalog.documents["terms"].bodies = Locales

BothNext ==
  /\ \/ half = "handle" /\ IndexNext /\ UNCHANGED sharedVars
     \/ half = "cache" /\ SharedNext /\ UNCHANGED <<next, outcome, held, indexVars>>
  /\ UNCHANGED half

BothSpec == BothInit /\ [][BothNext]_<<half, vars, indexVars, sharedVars>>
------------------------------------------------------------------------------
MCTagOf == [en |-> 1, EN |-> 1, de |-> 2, zz |-> NoLocale]

Source(body, url, requirement, version, effective, grace) ==
  [body |-> body, url |-> url, heading |-> 0, requirement |-> requirement,
   version |-> version, effective |-> effective, grace_days |-> grace]

Headed(source, heading) == [source EXCEPT !.heading = heading]
Terms(source) == [terms |-> source]

English == [en |-> 1]
Elsewhere == Source(<< >>, "usable", "none", NoVersion, NoDate, 0)
Unasked == Source([EN |-> 2], "absent", "none", NoVersion, BadDate, 0)

\* Two revisions of terms, one beside an imprint hosted elsewhere, terms that
\* differ in their headings alone, and a configuration each check refuses.
FewConfigs ==
  { Terms(Source(English, "absent", "accept", 1, NoDate, 0)),
    [terms |-> Headed(Source([en |-> 2, de |-> 1], "absent", "accept", 2, 1, 1), 3),
     imprint |-> Headed(Elsewhere, 2)],
    Terms(Headed(Unasked, 1)),
    Terms(Headed(Unasked, 2)),
    Terms(Source(<< >>, "usable", "accept", 1, NoDate, 0)),
    Terms(Source([en |-> 1, EN |-> 2], "absent", "accept", 1, NoDate, 0)),
    Terms(Source([zz |-> 1], "absent", "accept", 1, NoDate, 0)),
    Terms(Source([en |-> BlankText], "absent", "accept", 1, NoDate, 0)),
    Terms(Source(English, "usable", "none", 1, NoDate, 0)),
    Terms(Source(<< >>, "absent", "none", 1, NoDate, 0)),
    Terms(Source(<< >>, "refused", "none", 1, NoDate, 0)),
    Terms([Source(English, "absent", "none", 1, NoDate, 0) EXCEPT !.heading = BadHeading]),
    Terms(Source(English, "absent", "accept", NoVersion, NoDate, 0)),
    Terms(Source(English, "absent", "accept", 1, NoDate, 1)),
    Terms(Source(English, "absent", "accept", 1, 1, 366)),
    [Terms |-> Source(English, "absent", "none", 1, NoDate, 0)],
    << >> }

\* No titles; a title; no title in the language of the text, and an `updated` line
\* that reads as the title of the one before; titles in both languages.
MCTitlesOf == 0 :> << >> @@ 1 :> (1 :> "Terms") @@ 2 :> (2 :> "Bedingungen")
                @@ 3 :> (1 :> "Terms" @@ 2 :> "Bedingungen")
MCUpdatedOf == 0 :> NoText @@ 1 :> NoText @@ 2 :> Text("Terms") @@ 3 :> Text("en")
MCLocaleText == <<"en", "de">>
MCVersionText == <<"1", "2">>
\* One reader's browser asks for German, the others' for nothing.
MCAsked ==
  [v \in Visitors |-> [slug |-> "terms", lang |-> << >>,
                       header |-> IF v = "german" THEN <<2, 1>> ELSE << >>]]
MCDefaultLocale == <<1>>
MCCatalogOrder == <<"imprint", "terms">>
==============================================================================
