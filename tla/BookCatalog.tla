---------------------------- MODULE BookCatalog ----------------------------
(***************************************************************************)
(* The books all clubs share and the catalog of one club: suggestions with *)
(* the links they scrape (services/catalog.py, gateways/links/annas), the  *)
(* pages of the catalog and searches in the index (hoodie/query.py).       *)
(*                                                                         *)
(* A book is known by the id it was suggested by at its provider, which is *)
(* unique.  Of its data there is the ISBN, one fillable field `about` and  *)
(* its links by format; a value is named by who it came from.  Whether the *)
(* caller is a member and suggestions are open is ClubMembership's and the *)
(* club's, and may be either here; RemoveEntry is ReadingRound's removal.  *)
(***************************************************************************)
EXTENDS MirrorPool, SearchQuery, Relevance

CONSTANTS
    Sources,        \* the ids of books at their provider
    Extensions,     \* ExtensionType
    Values,         \* the values of a book's fields and links, NULL among them
    SearchResults,  \* what a mirror may answer: sequences of candidates
    TitleOrder,     \* Sources in the order of the titles
    Ranking,        \* Sources in the order the search index ranks them
    NULL            \* None

(* A book document; a link that a mirror found, by its md5.                *)
BookDocs == [isbn : Values, about : Values, urls : [Extensions -> Values]]
Candidates == [md5 : Values, extension : Extensions, title : Nat, author : Nat,
               languages : SUBSET Languages]

ASSUME BookAssumption ==
    /\ NULL \in Values /\ NULL \notin BookDocs
    /\ SearchResults \subseteq Seq(Candidates)
    /\ Ranking \in Seq(Sources)

VARIABLES
    books,    \* books[s]: the book document of the source s, NULL if none
    entries,  \* the catalog entries of the club, oldest first
    indexed,  \* the books in the search index
    suggest,  \* suggest[c]: how far the suggestion c is
    page      \* page[p]: how far the request p of a page is

shelf == <<books, entries, indexed>>
catalog == <<shelf, suggest, page, pool>>

(* A suggestion is [by, source, isbn, about, languages, author].  A request *)
(* of a page is [kind, by, ascending, page, size, calls]: of the catalog   *)
(* sorted by "suggested_at" or "title", a search "q" in it, or a search    *)
(* "all" or "scoped" of the index; calls are those chained to the query.   *)
PageKinds == {"suggested_at", "title", "q", "all", "scoped"}

(* What a request has in its local variables: the book as it was read, the *)
(* links it found; the scopes its query was given, and what it answers.    *)
NewSuggestion == [pc |-> "allowed", target |-> NULL, book |-> NULL, links |-> NULL]
NewPage == [pc |-> "member", scopes |-> {}, turn |-> 1, items |-> <<>>, total |-> 0]

CatalogTypeOK ==
    /\ books \in [Sources -> BookDocs \cup {NULL}] /\ indexed \subseteq Sources
    /\ \A i \in DOMAIN entries : entries[i].book \in Sources
    /\ \A c \in DOMAIN suggest : suggest[c].pc \in {"allowed", "isbn", "external", "scrape",
          "merge", "urls", "fields", "save", "add", "done", "failed"}
    /\ \A p \in DOMAIN page : page[p].pc \in {"member", "count", "find", "join", "scope",
          "search", "books", "done"}
-----------------------------------------------------------------------------
Stored == {s \in Sources : books[s] # NULL}
WithIsbn(isbn) == {s \in Stored : books[s].isbn = isbn}
InCatalog(s) == \E i \in DOMAIN entries : entries[i].book = s

Suggesting(c, pc) == suggest[c].pc = pc
Goes(c, pc) == suggest' = [suggest EXCEPT ![c].pc = pc]
KeepAll == UNCHANGED <<shelf, page, pool>>

(* __ensure_suggestion_allowed.                                            *)
EnsureAllowed(c) ==
    /\ Suggesting(c, "allowed")
    /\ \/ Goes(c, IF c.isbn # NULL THEN "isbn" ELSE "external")
       \/ Goes(c, "failed")
    /\ KeepAll

(* The formats the book has no link for, as far as the request knows.      *)
Missing(c) == {x \in Extensions : suggest[c].book = NULL \/ suggest[c].book.urls[x] = NULL}

(* A book was found, which has all the formats or not, or there is none.   *)
Found(c, s) ==
    suggest' = [suggest EXCEPT ![c].target = s, ![c].book = books[s],
                   ![c].pc = IF \E x \in Extensions : books[s].urls[x] = NULL
                             THEN "scrape" ELSE "fields"]

FindByIsbn(c) ==
    /\ Suggesting(c, "isbn")
    /\ \/ \E s \in WithIsbn(c.isbn) : Found(c, s)
       \/ WithIsbn(c.isbn) = {} /\ Goes(c, "external")
    /\ KeepAll

FindByExternalId(c) ==
    /\ Suggesting(c, "external")
    /\ \/ c.source \in Stored /\ Found(c, c.source)
       \/ /\ c.source \notin Stored
          /\ suggest' = [suggest EXCEPT ![c].target = c.source, ![c].pc = "scrape"]
    /\ KeepAll

(* __scrape_best_links.  The provider asks the pool once for each query:   *)
(* by the ISBN, and by title and authors.                                  *)
Queries(c) == IF c.isbn # NULL THEN {"isbn", "title"} ELSE {"title"}
RunsOf(c) == {<<c, q>> : q \in Queries(c)}

SearchAll(c) ==
    /\ Suggesting(c, "scrape")
    /\ run' = [e \in DOMAIN run \cup RunsOf(c) |-> IF e \in RunsOf(c) THEN NewRun ELSE run[e]]
    /\ Goes(c, "merge")
    /\ UNCHANGED <<shelf, page, preferred>>

(* The server shuts down, say, while the pool is asked.                    *)
CancelSuggestion(c) ==
    /\ Suggesting(c, "merge")
    /\ CancelRuns(RunsOf(c))
    /\ Goes(c, "failed")
    /\ UNCHANGED <<shelf, page>>

(* What the runs have found, one after the other, and the places in it of  *)
(* the candidates: each counts once, whichever query found it.  A mirror   *)
(* is asked for the missing formats, but what it answers is taken whole.   *)
Answers(c, found) ==
    (IF c.isbn # NULL THEN found[<<c, "isbn">>] ELSE <<>>) \o found[<<c, "title">>]
Merge(answers) ==
    {i \in DOMAIN answers : \A j \in DOMAIN answers : j < i => answers[j].md5 # answers[i].md5}

Asked(c) == {"title"} \cup (IF c.author THEN {"author"} ELSE {})
                \cup (IF c.languages # {} THEN {"language"} ELSE {})

(* The best candidate of each format, the first of equals, which has to be *)
(* above 0.65 of what can be scored, and not in a language nobody asked    *)
(* for.                                                                    *)
EvaluateCandidates(c, answers) ==
    LET threshold == 13 * Weights(Asked(c))
        score(i) == 2 * Weighted(Asked(c), answers[i], c.languages)
        foreign(a) == /\ c.languages # {} /\ a.languages # {}
                      /\ BestLanguageMatch(a.languages, c.languages) = NONE
        good(x) == {i \in Merge(answers) : /\ answers[i].extension = x
                                           /\ ~foreign(answers[i])
                                           /\ score(i) > threshold}
        best(x) == {i \in good(x) : \A j \in good(x) :
                        score(j) < score(i) \/ (score(j) = score(i) /\ i <= j)}
    IN  [x \in Extensions |-> IF best(x) = {} THEN NULL
                              ELSE answers[CHOOSE i \in best(x) : TRUE].md5]

(* All runs have ended; those that failed are passed over.                 *)
MergeResponses(c) ==
    /\ Suggesting(c, "merge")
    /\ \A e \in RunsOf(c) : run[e].phase = "done"
    /\ \E found \in [RunsOf(c) -> SearchResults] :
          /\ \A e \in RunsOf(c) : run[e].outcome # "ok" => found[e] = <<>>
          /\ LET links == EvaluateCandidates(c, Answers(c, found))
                 none == \A x \in Extensions : links[x] = NULL
             IN  suggest' = [suggest EXCEPT ![c].links = links,
                    ![c].pc = IF suggest[c].book = NULL THEN "save"
                              ELSE IF none THEN "fields" ELSE "urls"]
    /\ run' = [e \in DOMAIN run \ RunsOf(c) |-> run[e]]
    /\ UNCHANGED <<shelf, page, preferred>>

(* __supplement_existing_book: the links found, then the fields that were  *)
(* missing when the book was read.                                         *)
AddToUrls(c) ==
    LET s == suggest[c].target
        links == suggest[c].links
    IN  /\ Suggesting(c, "urls")
        /\ books' = [books EXCEPT ![s].urls =
              [x \in Extensions |-> IF links[x] # NULL THEN links[x] ELSE @[x]]]
        /\ Goes(c, "fields")
        /\ UNCHANGED <<entries, indexed, page, pool>>

ResolveMissingFields(c) ==
    LET book == suggest[c].book
    IN  (IF book.isbn = NULL /\ c.isbn # NULL THEN {"isbn"} ELSE {})
            \cup (IF book.about = NULL /\ c.about # NULL THEN {"about"} ELSE {})

(* The index on ISBNs refuses one that another book has got meanwhile.     *)
FillMissingFields(c) ==
    LET s == suggest[c].target
        fields == ResolveMissingFields(c)
        taken == "isbn" \in fields /\ WithIsbn(c.isbn) \ {s} # {}
    IN  /\ Suggesting(c, "fields")
        /\ \/ taken /\ Goes(c, "failed") /\ UNCHANGED books
           \/ /\ ~taken /\ Goes(c, "add")
              /\ books' = [books EXCEPT
                    ![s].isbn = IF "isbn" \in fields THEN c.isbn ELSE @,
                    ![s].about = IF "about" \in fields THEN c.about ELSE @]
        /\ UNCHANGED <<entries, indexed, page, pool>>

NewBook(c) == [isbn |-> c.isbn, about |-> c.about, urls |-> suggest[c].links]

\* Mutant: the new book replaces one of the same id.
SaveOverBook(c) ==
    /\ Suggesting(c, "save")
    /\ books' = [books EXCEPT ![c.source] = NewBook(c)]
    /\ Goes(c, "add")
    /\ UNCHANGED <<entries, indexed, page, pool>>
(* __create_new_book: an insert, refused by the unique indexes if the book *)
(* has come in meanwhile.                                                  *)
SaveBook(c) ==
    LET taken == c.source \in Stored \/ (c.isbn # NULL /\ WithIsbn(c.isbn) # {})
    IN  /\ Suggesting(c, "save")
        /\ \/ taken /\ Goes(c, "failed") /\ UNCHANGED books
           \/ /\ ~taken /\ Goes(c, "add")
              /\ books' = [books EXCEPT ![c.source] = NewBook(c)]
        /\ UNCHANGED <<entries, indexed, page, pool>>

(* The entry, if the index finds none for the book: ALREADY_EXISTS.        *)
AddEntry(c) ==
    LET s == suggest[c].target
    IN  /\ Suggesting(c, "add")
        /\ entries' = IF InCatalog(s) THEN entries
                      ELSE Append(entries, [book |-> s, by |-> c.by])
        /\ Goes(c, "done")
        /\ UNCHANGED <<books, indexed, page, pool>>

(* A call to the database fails.                                           *)
SuggestionFails(c) ==
    /\ suggest[c].pc \in {"isbn", "external", "urls", "fields", "save", "add"}
    /\ Goes(c, "failed")
    /\ KeepAll

(* The book is removed from the catalog; a stored book reaches the index.  *)
RemoveEntry(i) ==
    /\ entries' = RemoveAt(entries, i)
    /\ UNCHANGED <<books, indexed, suggest, page, pool>>
IndexBook(s) ==
    /\ s \in Stored \ indexed
    /\ indexed' = indexed \cup {s}
    /\ UNCHANGED <<books, entries, suggest, page, pool>>
-----------------------------------------------------------------------------
(* The pages.                                                              *)
Paging(p, pc) == page[p].pc = pc
PageGoes(p, new) == page' = [page EXCEPT ![p] = new] /\ UNCHANGED <<shelf, suggest, pool>>

(* get_catalog_page: members only.  A search of the index is open to code. *)
EnsureMember(p) ==
    /\ Paging(p, "member")
    /\ \/ PageGoes(p, [page[p] EXCEPT !.pc =
             CASE p.kind = "suggested_at" -> "count"
               [] p.kind = "title" -> "join"
               [] OTHER -> "scope"])
       \/ p.kind \notin {"all", "scoped"} /\ PageGoes(p, [page[p] EXCEPT !.pc = "done"])

(* The entries the page is taken from, in the order asked for.             *)
Matching(p) == SelectSeq(entries, LAMBDA e : p.by \in {NULL, e.by})
Directed(p, s) == IF p.ascending THEN s ELSE Reverse(s)
ByTitle(p) == SelectSeq(TitleOrder, LAMBDA s : \E i \in DOMAIN Matching(p) : Matching(p)[i].book = s)
BooksOf(s) == [i \in DOMAIN s |-> s[i].book]

(* find_page_by_club_id: counted and found by two calls.                   *)
CountEntries(p) ==
    /\ Paging(p, "count")
    /\ PageGoes(p, [page[p] EXCEPT !.pc = "find", !.total = Len(Matching(p))])
FindEntries(p) ==
    /\ Paging(p, "find")
    /\ PageGoes(p, [page[p] EXCEPT !.pc = "books",
                       !.items = PageOf(Directed(p, BooksOf(Matching(p))), p.page, p.size)])

(* __find_book_joined_page: one aggregation.                               *)
FindJoined(p) ==
    /\ Paging(p, "join")
    /\ PageGoes(p, [page[p] EXCEPT !.pc = "books", !.total = Len(ByTitle(p)),
                       !.items = PageOf(Directed(p, ByTitle(p)), p.page, p.size)])

(* __find_search_page and SearchQuery.paginate: the ids of the scope are   *)
(* found first.  Here a query "scoped" is scoped by having an ISBN.        *)
ScopeOf(p) ==
    CASE p.kind = "q" -> ToSet(BooksOf(Matching(p)))
      [] p.kind = "scoped" -> {s \in Stored : books[s].isbn # NULL}
      [] p.kind = "all" -> Sources
ResolveScope(p) ==
    /\ Paging(p, "scope")
    /\ PageGoes(p, IF ScopeOf(p) = {} THEN [page[p] EXCEPT !.pc = "books", !.items = <<>>, !.total = 0]
                   ELSE [page[p] EXCEPT !.pc = "search", !.scopes = @ \cup {ScopeOf(p)}])

(* The query with the scope added; a query object that is used for a       *)
(* second page keeps the scope of the first.                               *)
ScopedQuery(p) ==
    IF p.kind = "all" THEN Build(p.calls)
    ELSE [Build(p.calls) EXCEPT !.filter = @ \cup page[p].scopes]

RunSearch(p) ==
    LET result == Paginate(ScopedQuery(p), indexed, Ranking, p.page + page[p].turn - 1, p.size)
    IN  /\ Paging(p, "search")
        /\ PageGoes(p, [page[p] EXCEPT !.pc = "books",
                           !.items = result.items, !.total = result.total])

(* find_by_ids and the usernames, for an answer; code that searches the    *)
(* index itself may go on with the next page of the same query.            *)
FindBooks(p) ==
    /\ Paging(p, "books")
    /\ \/ PageGoes(p, [page[p] EXCEPT !.pc = "done"])
       \/ /\ p.kind \in {"all", "scoped"} /\ page[p].turn = 1
          /\ PageGoes(p, [page[p] EXCEPT !.pc = "scope", !.turn = 2])

CatalogInit(stored, listed, suggestions, pages) ==
    /\ preferred \in Mirrors /\ run = <<>>
    /\ books = stored
    /\ entries = listed
    /\ indexed = {s \in Sources : stored[s] # NULL}
    /\ suggest = [c \in suggestions |-> NewSuggestion]
    /\ page = [p \in pages |-> NewPage]

CatalogNext ==
    \/ \E c \in DOMAIN suggest :
          \/ EnsureAllowed(c) \/ FindByIsbn(c) \/ FindByExternalId(c) \/ SearchAll(c)
          \/ CancelSuggestion(c) \/ MergeResponses(c) \/ AddToUrls(c) \/ FillMissingFields(c)
          \/ SaveBook(c) \/ AddEntry(c) \/ SuggestionFails(c)
    \/ MirrorNext /\ UNCHANGED <<shelf, suggest, page>>
    \/ \E i \in DOMAIN entries : RemoveEntry(i)
    \/ \E s \in Sources : IndexBook(s)
    \/ \E p \in DOMAIN page :
          \/ EnsureMember(p) \/ CountEntries(p) \/ FindEntries(p) \/ FindJoined(p)
          \/ ResolveScope(p) \/ RunSearch(p) \/ FindBooks(p)
-----------------------------------------------------------------------------
(* A suggestion of the book s, which it has read, goes on.                 *)
Amends(c, s) == suggest'[c] # suggest[c] /\ suggest[c].target = s /\ suggest[c].book # NULL

(* Whatever suggestions race: a book that is known stays; its ISBN and its *)
(* field are only replaced by a suggestion that read the book before they  *)
(* were known, a link only by the best candidate of its format that a      *)
(* suggestion has found, one that read the book with a format missing, and *)
(* neither is ever lost; no two books share an ISBN; and what is in the    *)
(* catalog is a book that is stored.                                       *)
BooksKept ==
    [][/\ \A s \in Stored :
            /\ books'[s] # NULL
            /\ \/ books[s].isbn \in {NULL, books'[s].isbn}
               \/ \E c \in DOMAIN suggest : /\ Amends(c, s) /\ suggest[c].book.isbn = NULL
                                            /\ c.isbn # NULL /\ books'[s].isbn = c.isbn
            /\ \/ books[s].about \in {NULL, books'[s].about}
               \/ \E c \in DOMAIN suggest : /\ Amends(c, s) /\ suggest[c].book.about = NULL
                                            /\ c.about # NULL /\ books'[s].about = c.about
            /\ \A x \in Extensions :
                  \/ books[s].urls[x] \in {NULL, books'[s].urls[x]}
                  \/ \E c \in DOMAIN suggest :
                        /\ Amends(c, s) /\ suggest[c].pc = "urls" /\ Missing(c) # {}
                        /\ suggest[c].links[x] # NULL
                        /\ books'[s].urls[x] = suggest[c].links[x]
       /\ \A s, t \in {u \in Sources : books'[u] # NULL} :
             books'[s].isbn # NULL /\ books'[s].isbn = books'[t].isbn => s = t
       /\ \A i \in DOMAIN entries' : books'[entries'[i].book] # NULL]_<<books, entries, suggest>>
=============================================================================
