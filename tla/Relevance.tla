----------------------------- MODULE Relevance -----------------------------
(***************************************************************************)
(* How books and links are scored against what was asked for:              *)
(* text/language.py, utils/scoring.py and the scores of services/book.py   *)
(* and services/catalog.py.                                                *)
(*                                                                         *)
(* How similar two titles or authors are is data here, a number from 0 to  *)
(* 10, and scores are compared as integers, without the rounding of        *)
(* floats.  A language is a record [language, territory], the territory "" *)
(* if the tag has none.                                                    *)
(***************************************************************************)
EXTENDS Integers, FiniteSets, FiniteSetsExt

(* The weights of a title, an author and a language, of ten.               *)
TITLE_WEIGHT == 5
AUTHOR_WEIGHT == 3
LANGUAGE_WEIGHT == 2

Languages == [language : STRING, territory : STRING]

(* LanguageMatchLevel, as the score it stands for.                         *)
FULL == 10
BASE == 6
NONE == 0

(* language_match_level: a preference without a territory is matched fully *)
(* by any.                                                                 *)
LanguageMatchLevel(candidate, preferred) ==
    IF candidate.language # preferred.language THEN NONE
    ELSE IF preferred.territory \in {"", candidate.territory} THEN FULL ELSE BASE

BestLanguageMatch(candidates, preferred) ==
    Max({NONE} \cup {LanguageMatchLevel(c, p) : c \in candidates, p \in preferred})

(* The sum of the weights of what was asked for, and of the scores of item *)
(* times their weights: redistribute_weights divides one by the other.     *)
Weights(asked) ==
    (IF "title" \in asked THEN TITLE_WEIGHT ELSE 0)
        + (IF "author" \in asked THEN AUTHOR_WEIGHT ELSE 0)
        + (IF "language" \in asked THEN LANGUAGE_WEIGHT ELSE 0)
Weighted(asked, item, preferred) ==
    (IF "title" \in asked THEN TITLE_WEIGHT * item.title ELSE 0)
        + (IF "author" \in asked THEN AUTHOR_WEIGHT * item.author ELSE 0)
        + LANGUAGE_WEIGHT * BestLanguageMatch(item.languages, preferred)
=============================================================================
