------------------------------ MODULE MCReaders -------------------------------
(***************************************************************************)
(* The readers of paths, texts and documents for TLC.  They share no       *)
(* state: each behaviour is of one of them, and the others stand still.    *)
(***************************************************************************)
EXTENDS Exemptions, Readers, MarkdownTree

VARIABLE part   \* which of them this behaviour is about

Nowhere == "nowhere"

Init ==
  \/ /\ part = "exemptions" /\ StartHost
     /\ StartText(Nowhere) /\ StartDocument(Nowhere)
  \/ /\ part = "readers" /\ \E kind \in TextKinds : StartText(kind)
     /\ StartHost /\ StartDocument(Nowhere)
  \/ /\ part = "markdown" /\ \E p \in Profiles : StartDocument(p)
     /\ StartHost /\ StartText(Nowhere)

Next ==
  /\ \/ part = "exemptions" /\ ExemptionsNext /\ UNCHANGED <<readerVars, treeVars>>
     \/ part = "readers" /\ ReadersNext /\ UNCHANGED <<exemptionVars, treeVars>>
     \/ part = "markdown" /\ MarkdownNext /\ UNCHANGED <<exemptionVars, readerVars>>
  /\ UNCHANGED part

Spec == Init /\ [][Next]_<<part, exemptionVars, readerVars, treeVars>>
------------------------------------------------------------------------------
Singles(tokens) == {<<token>> : token \in tokens}

MCPiecesOf ==
  ("href" :> Singles(HrefTokens))
    @@ ("template" :> Singles(TemplateTokens \ {"b"}))
    @@ ("if-none-match" :> Singles(TagTokens \ {"y"}) \cup {Self, <<Quote, "y", Quote>>})
MCMaxPieces == ("href" :> 5) @@ ("template" :> 6) @@ ("if-none-match" :> 5)

MCSlugChoices == {{}, {<<"a">>}, {<<"a">>, <<"a", "-">>}}

At(name) == <<"/", name>>
Legal == At("me")

\* The five mounts, with the legal one and one other spelt in several ways.
MCMountChoices ==
  {<<legal, At("export"), At("export") \o At("me"), At("export"), erasure>> :
     legal \in {Legal, Legal \o <<"/">>, Legal \o At("export") \o <<"/", "/">>},
     erasure \in {At("me"), At("%2e") \o At("me"), At("export") \o <<".", "/">>,
                  At("me") \o <<"?">>, <<"/">>, <<"me">>, At("me") \o <<"/">> \o At("me")}}
MCExtensions == {<<"/", "ed">>, <<"/", "ed", "/">>, <<"/", "/">>, <<"/", "me", "%2e", "%2e">>}
MCDocumentSlugs == {<<"me">>, <<"export", "ed">>}

MCDestinations == {<<"http", "s", ":", "/">>, <<"/">>, <<"x", ":">>}
MCProfiles ==
  { [tags |-> {"Paragraph", "Link", "Autolink", "Image", "Emphasis"}, containers |-> 4, texts |-> 2],
    [tags |-> {"List", "Item", "HtmlBlock", "CodeBlock", "Heading", "BlockQuote"}, containers |-> 4, texts |-> 2],
    [tags |-> {"Table", "TableHead", "TableRow", "TableCell", "Link"}, containers |-> 6, texts |-> 1] }
==============================================================================
