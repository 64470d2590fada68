------------------------------- MODULE MCClient -------------------------------
(***************************************************************************)
(* The pages and the consent list of the Dioxus client for TLC, over one   *)
(* server but not at once: they are different screens, and the one that is *)
(* not shown stands still.                                                 *)
(***************************************************************************)
EXTENDS Pages, ConsentGate

VARIABLE screen

vars == <<screen, catalog, pageVars, gateVars>>

Init ==
  \/ screen = "pages" /\ PagesInit /\ StartGate(Idle)
  \/ /\ screen = "consent" /\ GateInit
     /\ language = Language /\ slug = "terms"
     /\ index = Idle /\ page = Idle /\ changes = 0

Next ==
  /\ \/ screen = "pages" /\ PagesNext /\ UNCHANGED gateVars
     \/ screen = "consent" /\ GateNext /\ UNCHANGED pageVars
  /\ UNCHANGED screen

Still == UNCHANGED <<screen, catalog, pageVars, lost>>

\* Messages that are not lost arrive; the user presses the buttons that stay and
\* reloads after a failure.
Fairness ==
  /\ WF_vars(ServeStatus /\ Still)
  /\ SF_vars(DeliverStatus /\ Still)
  /\ \A t \in Tasks : WF_vars(Proceed(t) /\ Still)
  /\ SF_vars(Reload /\ Still)
  /\ \A name \in Slugs : SF_vars(Press(name) /\ Still)

Spec == Init /\ [][Next]_vars
FairSpec == Spec /\ Fairness
------------------------------------------------------------------------------
MCTagOf == [en |-> 1, de |-> 2]
MCTitlesOf == 0 :> << >> @@ 1 :> (1 :> "Terms" @@ 2 :> "Bedingungen")
MCUpdatedOf == 0 :> NoText @@ 1 :> NoText
MCCatalogOrder == <<"terms", "privacy">>

Hosting(body, heading, requirement, version) ==
  [body |-> body, url |-> "absent", heading |-> heading,
   requirement |-> requirement, version |-> version,
   effective |-> NoDate, grace_days |-> 0]

Both == [en |-> 1, de |-> 2]

\* Both documents; the terms revised and retitled, and the privacy policy optional;
\* the privacy policy moved elsewhere.
MCConfigs ==
  { [terms |-> Hosting(Both, 1, "accept", 1), privacy |-> Hosting([en |-> 3], 0, "acknowledge", 1)],
    [terms |-> Hosting([en |-> 2, de |-> 3], 0, "accept", 2), privacy |-> Hosting([en |-> 3], 1, "none", 1)],
    [terms |-> Hosting([en |-> 1], 1, "acknowledge", 2),
     privacy |-> [Hosting(<< >>, 1, "none", NoVersion) EXCEPT !.url = "usable"]] }
==============================================================================
