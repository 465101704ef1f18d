---------------------------- MODULE BookSearch -----------------------------
(***************************************************************************)
(* The search for books outside: services/book.py with the provider of     *)
(* gateways/books/google.py.  The provider is asked for a chunk of its     *)
(* results at a time; the chunk is sorted by relevance, cached for five    *)
(* minutes, and pages are cut out of it.                                   *)
(*                                                                         *)
(* All requests search for the same, by title, or by ISBN as well; the     *)
(* provider's results are external and stay as they are.                   *)
(***************************************************************************)
EXTENDS Naturals, SequencesExt, Relevance

CONSTANTS
    MAX_PROVIDER_CHUNK,
    Volumes,  \* the provider's results: a sequence of volumes
    Terms,    \* what is searched for: [asked, isbn, languages]
    Absent,   \* no cache entry
    Corrupt   \* one that cannot be read, written by an earlier version, say

VARIABLES
    cached,  \* cached[k]: the sorted chunk number k in Redis, Absent if none
    search   \* search[q]: how far the request q for a page is

external == <<cached, search>>

(* A volume, with how similar its title and author are to what is searched *)
(* for, and how many of the fields that count as complete it has.          *)
VolumeDocs == [id : Nat, title : Nat, author : Nat, languages : SUBSET Languages, isbn : STRING,
               complete : 0..4]

ASSUME SearchAssumption == MAX_PROVIDER_CHUNK \in Nat \ {0} /\ Volumes \in Seq(VolumeDocs)

(* A request: [page, limit].  What it has found: the chunk, sorted, and    *)
(* the items of its answer.                                                *)
SearchTypeOK ==
    /\ \A k \in DOMAIN cached : cached[k] \in {Absent, Corrupt} \/ ToSet(cached[k]) \subseteq ToSet(Volumes)
    /\ \A q \in DOMAIN search : search[q].pc \in {"cache", "fetch", "save", "done"}
-----------------------------------------------------------------------------
(* The chunk that the end of the page falls in.                            *)
ChunkOf(q) == (q.page * q.limit + MAX_PROVIDER_CHUNK - 1) \div MAX_PROVIDER_CHUNK

(* __slice_pagination.                                                     *)
SlicePagination(q, chunk) ==
    LET start == ((q.page - 1) * q.limit) % MAX_PROVIDER_CHUNK
        end == start + q.limit
    IN  SubSeq(chunk, start + 1, IF end < Len(chunk) THEN end ELSE Len(chunk))

(* __score_book: relevance makes up 0.85 of the score, completeness 0.15,  *)
(* and a volume with the ISBN asked for is wholly relevant.                *)
IsbnMatch(v) == Terms.isbn # "" /\ v.isbn = Terms.isbn
ScoreBook(v) ==
    LET sum == Weights(Terms.asked)
        unit == IF sum = 0 THEN 1 ELSE sum
    IN  (IF IsbnMatch(v) THEN 340 * unit ELSE 34 * Weighted(Terms.asked, v, Terms.languages))
            + 15 * v.complete * unit

(* __score_and_sort_books: a match of the ISBN first, then by score, and   *)
(* else as the provider has it.                                            *)
Before(v, w) ==
    \/ IsbnMatch(v) /\ ~IsbnMatch(w)
    \/ IsbnMatch(v) = IsbnMatch(w) /\ ScoreBook(v) > ScoreBook(w)
ScoreAndSortBooks(s) ==
    LET rank(i) == Cardinality({j \in DOMAIN s : Before(s[j], s[i]) \/
                                  (~Before(s[i], s[j]) /\ j <= i)})
    IN  [k \in DOMAIN s |-> s[CHOOSE i \in DOMAIN s : rank(i) = k]]

(* fetch_volumes: what the provider has of chunk k.                        *)
FetchVolumes(k) ==
    LET from == (k - 1) * MAX_PROVIDER_CHUNK + 1
        to == k * MAX_PROVIDER_CHUNK
    IN  SubSeq(Volumes, from, IF to < Len(Volumes) THEN to ELSE Len(Volumes))

(* What is cached of chunk k: __aggregate_provider_results.                *)
SortedChunk(k) == ScoreAndSortBooks(FetchVolumes(k))

Searching(q, pc) == search[q].pc = pc
Replies(q, chunk) ==
    search' = [search EXCEPT ![q] = [pc |-> "done", chunk |-> chunk,
                                     items |-> SlicePagination(q, chunk)]]

(* __try_cache_hit.                                                        *)
TryCacheHit(q) ==
    /\ Searching(q, "cache")
    /\ LET c == cached[ChunkOf(q)]
       IN  \/ c \notin {Absent, Corrupt} /\ Replies(q, c)
           \/ c \in {Absent, Corrupt} /\ search' = [search EXCEPT ![q].pc = "fetch"]
    /\ UNCHANGED cached

(* A miss: the provider answers with the chunk, or fails, which counts as  *)
(* no results; none are answered without being cached.                     *)
FetchChunk(q) ==
    LET chunk == SortedChunk(ChunkOf(q))
    IN  /\ Searching(q, "fetch")
        /\ \/ chunk # <<>> /\ search' = [search EXCEPT ![q].pc = "save", ![q].chunk = chunk]
           \/ Replies(q, <<>>)
        /\ UNCHANGED cached

CacheResults(q) ==
    /\ Searching(q, "save")
    /\ cached' = [cached EXCEPT ![ChunkOf(q)] = search[q].chunk]
    /\ Replies(q, search[q].chunk)

ChunkExpires(k) ==
    /\ cached[k] # Absent
    /\ cached' = [cached EXCEPT ![k] = Absent]
    /\ UNCHANGED search

SearchInit(requests) ==
    /\ cached \in [{ChunkOf(q) : q \in requests} -> {Absent, Corrupt}]
    /\ search = [q \in requests |-> [pc |-> "cache", chunk |-> <<>>, items |-> <<>>]]

SearchNext ==
    \/ \E q \in DOMAIN search : TryCacheHit(q) \/ FetchChunk(q) \/ CacheResults(q)
    \/ \E k \in DOMAIN cached : ChunkExpires(k)
=============================================================================
