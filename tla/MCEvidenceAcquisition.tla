------------------------ MODULE MCEvidenceAcquisition ------------------------
(* The fixed policy of research/catalog.py, one query and a repository: the page is had  *)
(* or is too long; the repository is asked for when the page is not had.                *)
EXTENDS EvidenceAcquisition, TLC

Names == Permutations(Researchers)

Query == <<"query">>
GitHub == <<"github">>
MCAnswers == [query |-> {<<"page">>}, page |-> {"text", "long"}, github |-> {"text"}]
MCAnswersUnresolved ==
    [query |-> {<<"page">>, <<>>}, page |-> {"text", "bare"}, github |-> {"text"}]
=============================================================================
