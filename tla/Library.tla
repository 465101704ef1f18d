------------------------------ MODULE Library ------------------------------
(***************************************************************************)
(* What clients do with books: suggestions and pages of a club's catalog   *)
(* (BookCatalog), searches outside (BookSearch), and the rate limits of    *)
(* other routes (RateLimiter), which share the Redis server with the       *)
(* cached searches, under keys of their own.  A behaviour has one of the   *)
(* workloads, which says which requests are made; they run in any order.   *)
(***************************************************************************)
EXTENDS BookCatalog, BookSearch, RateLimiter

CONSTANT Workloads  \* the workloads: [stored, entries, suggestions, pages, searches, calls]

(* The requests of a workload are those the routes make; the books it      *)
(* begins with are what suggestions may have left.                         *)
ASSUME CallAssumption == \A w \in Workloads : \A c \in w.calls : c.rule \in Rules
ASSUME ShelfAssumption ==
    \A w \in Workloads :
        /\ w.stored \in [Sources -> BookDocs \cup {NULL}]
        /\ \A s, t \in {u \in Sources : w.stored[u] # NULL} :
              w.stored[s].isbn # NULL /\ w.stored[s].isbn = w.stored[t].isbn => s = t
        /\ w.entries \in Seq(ToSet(w.entries))
        /\ \A i \in DOMAIN w.entries : /\ w.entries[i].book \in Sources
                                       /\ w.stored[w.entries[i].book] # NULL
        /\ \A c \in w.suggestions : c.source \in Sources /\ {c.isbn, c.about} \subseteq Values

(* Pages and their sizes begin at 1 (pagination.py), as the database has a *)
(* limit begin.                                                            *)
ASSUME PageAssumption ==
    \A w \in Workloads :
        /\ \A p \in w.pages :
              /\ p.kind \in PageKinds /\ p.page \in Nat \ {0} /\ p.size \in Nat \ {0}
              /\ p.calls \in Seq(ChainCalls(Sources))
              /\ \A i \in DOMAIN p.calls : p.calls[i].call = "limit" => p.calls[i].number # NoLimit
        /\ \A q \in w.searches : q.page \in Nat \ {0} /\ q.limit \in Nat \ {0}

vars == <<catalog, external, limiter>>

TypeOK == MirrorTypeOK /\ CatalogTypeOK /\ SearchTypeOK /\ LimiterTypeOK

Init ==
    \E w \in Workloads :
        /\ CatalogInit(w.stored, w.entries, w.suggestions, w.pages)
        /\ SearchInit(w.searches)
        /\ LimiterInit(w.calls)

Next ==
    \/ CatalogNext /\ UNCHANGED <<external, limiter>>
    \/ SearchNext /\ UNCHANGED <<catalog, limiter>>
    \/ LimiterNext /\ UNCHANGED <<catalog, external>>

Spec == Init /\ [][Next]_vars
-----------------------------------------------------------------------------
(* items are those at the places from .. from + size - 1 of all, in order. *)
Shows(items, all, from, size) ==
    /\ Len(items) = Cardinality({i \in DOMAIN all : i >= from /\ i < from + size})
    /\ \A i \in DOMAIN items : items[i] = all[from + i - 1]

(* A document that the calls of a chain ask for.                           *)
Wanted(d, calls) ==
    LET of(name) == {i \in DOMAIN calls : calls[i].call = name}
        all == of("text") \cup of("phrase") \cup of("filter_in") \cup of("filter_equals")
    IN  /\ \A i \in all : d \in calls[i].hits
        /\ \A i \in of("filter_not_equals") : d \notin calls[i].hits
        /\ of("should") # {} =>
              Cardinality({i \in of("should") : d \in calls[i].hits}) >=
                  calls[Max(of("should"))].number

(* The documents that the request p is entitled to when its search runs,   *)
(* best first: those asked for, within the scope it has found, and for a   *)
(* query used again within the scope found before.                         *)
Entitled(p) ==
    LET hits == BestFirst(Ranking, {d \in indexed : /\ Wanted(d, p.calls)
                                                   /\ \A ids \in page[p].scopes : d \in ids})
        limits == {i \in DOMAIN p.calls : p.calls[i].call = "limit"}
        n == IF limits = {} THEN Len(hits) ELSE p.calls[Max(limits)].number
    IN  [i \in 1..Min({n, Len(hits)}) |-> hits[i]]

(* A page shows its part of the results and nothing else, whatever changes *)
(* between the calls it takes: a page of a search shows the matches of all *)
(* clauses in the scope found for it, the first `limit` of them, and has   *)
(* their number for its total; and a page of a search outside is made from *)
(* its own chunk of all results in their order, from the cache or not, and *)
(* shows its part of it if pages fit in a chunk.                           *)
PageExact ==
    [][/\ \A p \in DOMAIN page :
            page[p].pc = "search" /\ page'[p].pc = "books" =>
                /\ Shows(page'[p].items, Entitled(p), (p.page + page[p].turn - 2) * p.size + 1, p.size)
                /\ page'[p].total = Len(Entitled(p))
       /\ \A q \in DOMAIN search :
            search[q].pc # "done" /\ search'[q].pc = "done" =>
                LET skipped == ((q.page - 1) * q.limit) - (ChunkOf(q) - 1) * MAX_PROVIDER_CHUNK
                IN  /\ search'[q].chunk \in {<<>>, SortedChunk(ChunkOf(q))}
                    /\ MAX_PROVIDER_CHUNK % q.limit = 0 =>
                          Shows(search'[q].items, search'[q].chunk, skipped + 1, q.limit)]_vars
=============================================================================
