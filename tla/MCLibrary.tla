----------------------------- MODULE MCLibrary -----------------------------
(* Instances of Library for TLC.                                           *)
EXTENDS Library

CONSTANTS ann, bob, s1, s2, s3

English == [language |-> "en", territory |-> ""]
American == [language |-> "en", territory |-> "US"]
Portuguese == [language |-> "pt", territory |-> "BR"]

(* Links: a good one, one that is better if the language counts, and one   *)
(* in another language.                                                    *)
Candidate(md5, extension, title, languages) ==
    [md5 |-> md5, extension |-> extension, title |-> title, author |-> 8, languages |-> languages]
MCSearchResults ==
    {<<>>,
     <<Candidate("m1", "epub", 9, {}), Candidate("m2", "epub", 8, {American})>>,
     <<Candidate("m3", "epub", 10, {Portuguese}), Candidate("m4", "pdf", 7, {})>>}

MCValues == {NULL, ann, bob, "i1", "m0", "m1", "m2", "m3", "m4", "m5", "m6"} \cup Sources
MCTitleOrder == <<s2, s1, s3>>
MCRanking == <<s3, s1, s2>>

(* Six volumes, a chunk and a half.                                        *)
Volume(id, title, languages, isbn, complete) ==
    [id |-> id, title |-> title, author |-> 5, languages |-> languages, isbn |-> isbn,
     complete |-> complete]
MCVolumes == <<Volume(1, 4, {English}, "i1", 4), Volume(2, 9, {American}, "i2", 1),
               Volume(3, 9, {Portuguese}, "i3", 1), Volume(4, 2, {}, "i4", 0),
               Volume(5, 3, {English}, "i5", 2), Volume(6, 8, {English}, "i6", 3)>>
MCTerms == [asked |-> {"title", "language"}, isbn |-> "i4", languages |-> {English}]

MCLimit == [b \in Buckets |-> IF b = "login-ip" THEN 2 ELSE 1]
MCWindow == [b \in Buckets |-> IF b = "login-account" THEN 3 ELSE 2]

Unknown == [s \in Sources |-> NULL]
Book(isbn, about, epub, pdf) ==
    [isbn |-> isbn, about |-> about, urls |-> [x \in Extensions |-> IF x = "epub" THEN epub ELSE pdf]]
Idle == [stored |-> Unknown, entries |-> <<>>, suggestions |-> {}, pages |-> {},
         searches |-> {}, calls |-> {}]
Suggestion(by, source, isbn, author, languages) ==
    [by |-> by, source |-> source, isbn |-> isbn, about |-> by, author |-> author,
     languages |-> languages]

(* Two clients who suggest the same book, by the same id or with the same  *)
(* ISBN, a book nobody knows or one of which something is missing.         *)
Suggestions ==
    {[Idle EXCEPT !.suggestions = {Suggestion(ann, s1, NULL, TRUE, {English}),
                                   Suggestion(bob, s1, NULL, FALSE, {})}],
     [Idle EXCEPT !.suggestions = {Suggestion(ann, s1, "i1", FALSE, {}),
                                   Suggestion(bob, s2, "i1", FALSE, {})},
                  !.stored = [Unknown EXCEPT ![s1] = Book(NULL, NULL, "m0", "m5")]],
     [Idle EXCEPT !.suggestions = {Suggestion(ann, s1, "i1", TRUE, {English})},
                  !.stored = [Unknown EXCEPT ![s1] = Book(NULL, ann, "m0", NULL)]],
     [Idle EXCEPT !.suggestions = {Suggestion(ann, s1, NULL, TRUE, {}),
                                   Suggestion(bob, s2, "i1", FALSE, {English})},
                  !.stored = [Unknown EXCEPT ![s1] = Book("i1", NULL, "m0", "m5"),
                                             ![s2] = Book(NULL, NULL, "m0", "m6")]],
     [Idle EXCEPT !.suggestions = {Suggestion(ann, s1, "i1", FALSE, {}),
                                   Suggestion(bob, s2, "i1", FALSE, {})},
                  !.stored = [Unknown EXCEPT ![s1] = Book(NULL, NULL, "m0", "m5"),
                                             ![s2] = Book(NULL, NULL, "m0", "m6")]]}

(* Pages while a book comes in and others are removed.                     *)
Page(kind, by, ascending, number, size, calls) ==
    [kind |-> kind, by |-> by, ascending |-> ascending, page |-> number, size |-> size,
     calls |-> calls]
Call(name, hits, number) == [call |-> name, hits |-> hits, number |-> number]
Shelf == [stored |-> [s \in Sources |-> Book(IF s = s2 THEN NULL ELSE s, NULL, "m0", "m5")],
          entries |-> <<[book |-> s1, by |-> ann], [book |-> s2, by |-> bob]>>,
          suggestions |-> {Suggestion(bob, s3, NULL, FALSE, {})},
          pages |-> {}, searches |-> {}, calls |-> {}]
Chain1 == <<Call("text", {s1, s2, s3}, 0), Call("should", {s1}, 2), Call("should", {s3}, 1)>>
Chain2 == <<Call("phrase", {s1, s3}, 0), Call("limit", {}, 2), Call("filter_in", Sources, 0),
            Call("limit", {}, 1), Call("filter_equals", {s1, s2, s3}, 0)>>
Pages ==
    {[Shelf EXCEPT !.pages = {Page("suggested_at", NULL, FALSE, 1, 2, <<>>),
                              Page("title", bob, TRUE, 1, 1, <<>>),
                              Page("q", NULL, FALSE, 1, 1, <<Call("text", {s1, s3}, 0)>>)}],
     [Shelf EXCEPT !.pages = {Page("q", ann, FALSE, 1, 2, <<Call("text", {s1, s2}, 0)>>),
                              Page("scoped", NULL, FALSE, 1, 1, Chain1)}],
     [Shelf EXCEPT !.pages = {Page("scoped", NULL, FALSE, 1, 1, Chain2),
                              Page("all", NULL, FALSE, 1, 1,
                                   <<Call("filter_not_equals", {s1}, 0), Call("text", Sources, 0)>>)}]}

(* Pages of a search outside, of sizes that fit in a chunk and one that    *)
(* does not.                                                               *)
Searches ==
    {[Idle EXCEPT !.searches = [page : {n}, limit : {2}] \cup [page : {1, 2}, limit : {l}]] :
        n \in {1, 3}, l \in {3, 4}}

(* Calls of one client: logins to two accounts, invitations, the rest.     *)
Request(n, rule, who) == [id |-> n, rule |-> rule, ip |-> "ip", who |-> who, club |-> "club"]
Calls ==
    {[Idle EXCEPT !.calls = {Request(1, "login", ann), Request(2, "login", ann),
                             Request(1, "login", bob)}],
     [Idle EXCEPT !.calls = {Request(n, "register", ann) : n \in 1..4}],
     [Idle EXCEPT !.calls = {Request(1, rule, ann) : rule \in
                                {"password_change", "remove_member", "invite_public"}}
                               \cup {Request(n, "invite_direct", ann) : n \in {1, 2}}]}

MCWorkloads == Suggestions \cup Pages \cup Searches \cup Calls
=============================================================================
