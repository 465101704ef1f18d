---------------------------- MODULE SearchQuery ----------------------------
(***************************************************************************)
(* The search queries of hoodie/query.py: a query object is built by a     *)
(* chain of calls, each of which changes it, and is run by an aggregation  *)
(* in the search index.                                                    *)
(*                                                                         *)
(* A clause is the set of documents it matches, and the ranking of the     *)
(* documents by relevance is given: both are the search engine's, which is *)
(* external.  A call of the chain is a record [call, hits, number]: the    *)
(* matches of its clause, and the number it takes.                         *)
(***************************************************************************)
EXTENDS Naturals, FiniteSets, SequencesExt

(* No limit on the documents considered.                                   *)
NoLimit == 0

(* BaseSearchQuery.__init__.                                               *)
NewQuery == [must |-> {}, filter |-> {}, mustNot |-> {}, should |-> <<>>,
             minimumShouldMatch |-> 1, limit |-> NoLimit]

CallNames == {"text", "phrase", "filter_in", "filter_equals", "filter_not_equals", "should", "limit"}
ChainCalls(docs) == [call : CallNames, hits : SUBSET docs, number : Nat]

(* The calls of the chain.                                                 *)
Text(q, hits) == [q EXCEPT !.must = @ \cup {hits}]
Phrase(q, hits) == [q EXCEPT !.must = @ \cup {hits}]
FilterIn(q, ids) == [q EXCEPT !.filter = @ \cup {ids}]
FilterEquals(q, hits) == [q EXCEPT !.filter = @ \cup {hits}]
FilterNotEquals(q, hits) == [q EXCEPT !.mustNot = @ \cup {hits}]
(* The clauses of every call count, but the last call says how many must   *)
(* match.                                                                  *)
Should(q, hits, minimum) ==
    [q EXCEPT !.should = Append(@, hits), !.minimumShouldMatch = minimum]
SetLimit(q, n) == [q EXCEPT !.limit = n]

Chain(q, c) ==
    CASE c.call = "text" -> Text(q, c.hits)
      [] c.call = "phrase" -> Phrase(q, c.hits)
      [] c.call = "filter_in" -> FilterIn(q, c.hits)
      [] c.call = "filter_equals" -> FilterEquals(q, c.hits)
      [] c.call = "filter_not_equals" -> FilterNotEquals(q, c.hits)
      [] c.call = "should" -> Should(q, c.hits, c.number)
      [] c.call = "limit" -> SetLimit(q, c.number)

(* The query that a chain of calls builds, call by call.                   *)
Build(calls) ==
    LET query[i \in 0..Len(calls)] == IF i = 0 THEN NewQuery ELSE Chain(query[i - 1], calls[i])
    IN  query[Len(calls)]

(* to_compound: what the compound operator of the query matches.           *)
Compound(q, docs) ==
    {d \in docs :
        /\ \A c \in q.must \cup q.filter : d \in c
        /\ \A c \in q.mustNot : d \notin c
        /\ q.should # <<>> =>
              Cardinality({i \in DOMAIN q.should : d \in q.should[i]}) >= q.minimumShouldMatch}

(* A page of a sequence: skip and limit.                                   *)
PageOf(s, page, size) ==
    LET from == (page - 1) * size + 1
        to == page * size
    IN  SubSeq(s, from, IF to < Len(s) THEN to ELSE Len(s))

(* The documents of a set in the order of the ranking.                     *)
BestFirst(ranking, docs) ==
    LET places == {i \in DOMAIN ranking : ranking[i] \in docs}
    IN  [k \in 1..Cardinality(places) |->
            ranking[CHOOSE i \in places : Cardinality({j \in places : j <= i}) = k]]

(* The matching documents of the index, best first: to_pipeline.           *)
Ranked(q, index, ranking) ==
    LET hits == BestFirst(ranking, Compound(q, index))
    IN  IF q.limit = NoLimit THEN hits ELSE PageOf(hits, 1, q.limit)

(* paginate: the items of the page, and the total number of matches.       *)
\* Mutant: the page is cut out before the limit is applied.
PaginateThenLimit(q, index, ranking, page, size) ==
    LET all == Ranked([q EXCEPT !.limit = NoLimit], index, ranking)
    IN  [items |-> IF q.limit = NoLimit THEN PageOf(all, page, size)
                   ELSE PageOf(PageOf(all, page, size), 1, q.limit),
         total |-> Len(Ranked(q, index, ranking))]
Paginate(q, index, ranking, page, size) ==
    [items |-> PageOf(Ranked(q, index, ranking), page, size),
     total |-> Len(Ranked(q, index, ranking))]

(* _empty_page: the page of a scope without any document.                  *)
EmptyPage == [items |-> <<>>, total |-> 0]
=============================================================================
