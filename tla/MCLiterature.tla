------------------------------ MODULE MCLiterature ------------------------------
(* Two providers: one gives a record, with a DOI only later; the other has the  *)
(* DOI, and a record of another title with an identifier of the first.          *)
EXTENDS Literature

Early == [provider |-> "openalex", id |-> "A", doi |-> None, ids |-> {"A", "pmid"}, title |-> "t1"]
Later == [Early EXCEPT !.doi = "X", !.ids = @ \cup {"X"}]
Other == [provider |-> "semantic_scholar", id |-> "B", doi |-> "X", ids |-> {"B", "X"}, title |-> "t1"]
Third == [provider |-> "semantic_scholar", id |-> "C", doi |-> None, ids |-> {"C", "pmid"}, title |-> "t2"]
Page == [provider |-> "crossref", id |-> "url", doi |-> None, ids |-> {}, title |-> "t2"]

TheRecords == {Early, Later, Other, Third, Page}
TheResembling == {{"t1", "t2"}}
FourIds == 1..4

=============================================================================
