------------------------------ MODULE MCNegotiation ------------------------------
(***************************************************************************)
(* Negotiation for TLC: one language in four forms and another.            *)
(***************************************************************************)
EXTENDS Negotiation

de == <<"de">>
deAT == <<"de", "AT">>
deLatn == <<"de", "Latn">>
deLatnAT == <<"de", "Latn", "AT">>
en == <<"en">>

MCTags == {de, deAT, deLatn, en}

\* "de" < "de-AT" < "de-Latn" < "en"
MCTextOrder == [tag \in MCTags |-> CHOOSE n \in 1..4 : <<de, deAT, deLatn, en>>[n] = tag]

InHeader(tag, q) == [tag |-> tag, q |-> q]
Quality(whole, fraction) == [whole |-> whole, fraction |-> fraction]

\* `de;q=0.1234` and `en;q=1.1` are skipped, `de-AT;q=0.0` is refused, and `*` is no
\* tag.
MCRanges ==
  {InHeader(de, Quality(0, <<1, 2, 3, 4>>)), InHeader(deAT, Quality(0, <<0>>)),
   InHeader(deAT, Quality(0, <<9>>)), InHeader(deLatnAT, Quality(0, <<0, 5>>)),
   InHeader(NoTag, NoWeight), InHeader(en, Quality(1, <<1>>)),
   InHeader(en, Quality(0, <<9>>)), InHeader(en, NoWeight)}

MCRequested == {NoTag, <<"de", "CH">>}
MCDefaults == {NoTag, deAT}
==============================================================================
