----------------------------- MODULE FileListing -----------------------------
(***************************************************************************)
(* The pages of a listing or a search: fileQueryBuilder finds the page     *)
(* that follows by the sort key of the row at the end of the page before,  *)
(* which it looks up by its rank in the table as it is now, and compares   *)
(* keys, not rows.  A client reads page after page while other requests    *)
(* add, remove and touch rows.                                             *)
(*                                                                         *)
(* A key is what the rows are sorted by: a time, a name, a size or an id;  *)
(* Null stands for the size of a folder that has none yet.                 *)
(***************************************************************************)
EXTENDS Naturals, FiniteSets, Sequences

CONSTANTS
    Items,     \* rows that may match the filters of the query
    MaxKey,    \* the keys are 1 .. MaxKey
    Limits,    \* page sizes clients ask for
    MaxEdits,  \* bound on the rows that change while a client reads
    Null,      \* NULL
    Gone       \* the row does not match: it is not there, or filtered out

Keys == 1 .. MaxKey

ASSUME FileListingAssumption ==
    /\ IsFiniteSet(Items) /\ MaxKey \in Nat /\ MaxEdits \in Nat
    /\ Limits \subseteq Nat \ {0}
    /\ Null \notin Keys /\ Gone \notin Keys /\ Null # Gone

VARIABLES
    key,     \* the sort key of each row
    order,   \* the order parameter
    limit,   \* the limit parameter
    pages,   \* the pages the client has read
    count,   \* Meta.Count of the last one
    edits    \* history: how the table changed in between

listVars == <<key, order, limit, pages, count, edits>>

ListInit ==
    /\ key \in [Items -> Keys \cup {Null, Gone}]
    /\ order \in {"asc", "desc"}
    /\ limit \in Limits
    /\ pages = <<>>
    /\ count = 0
    /\ edits = <<>>

Matching == {n \in Items : key[n] # Gone}

(* Another row has the same key.                                           *)
Tied(n) == \E m \in Matching \ {n} : key[m] = key[n]

(* ORDER BY: NULLS LAST when ascending, FIRST when descending.             *)
Precedes(x, y) ==
    IF order = "asc" THEN (x # Null /\ y = Null) \/ (x # Null /\ y # Null /\ x < y)
    ELSE (x = Null /\ y # Null) \/ (x # Null /\ y # Null /\ x > y)

(* SELECT ... FROM ranked_scores WHERE rank = r, empty beyond the last row.*)
KeyAtRank(r) ==
    {key[n] : n \in {n \in Matching :
       /\ Cardinality({m \in Matching : Precedes(key[m], key[n])}) < r
       /\ Cardinality({m \in Matching : ~Precedes(key[n], key[m])}) >= r}}

AnchorRank(page) == IF page = 1 THEN 1 ELSE (page - 1) * limit

(* >= and <= on the first page, > and < on the others; NULL compares with  *)
(* nothing.                                                                *)
Follows(x, anchor, page) ==
    /\ x # Null /\ anchor # Null
    /\ Precedes(anchor, x) \/ (page = 1 /\ x = anchor)

(* Mutant: the first page's operator on every page.                        *)
Candidates_Inclusive(page) ==
    {n \in Matching : \E k \in KeyAtRank(AnchorRank(page)) : Follows(key[n], k, 1)}

Candidates(page) ==
    {n \in Matching : \E k \in KeyAtRank(AnchorRank(page)) : Follows(key[n], k, page)}

(* ORDER BY ... LIMIT: any of the rows that tie may be the ones left out.  *)
PageOf(all) ==
    {S \in SUBSET all :
       /\ Cardinality(S) = IF Cardinality(all) < limit THEN Cardinality(all) ELSE limit
       /\ \A n \in S, m \in all \ S : ~Precedes(key[m], key[n])}

TotalPages == (count + limit - 1) \div limit
Finished == pages # <<>> /\ Len(pages) >= TotalPages

(* FilesList, the next page.                                               *)
ReadPage ==
    /\ ~Finished
    /\ \E S \in PageOf(Candidates(Len(pages) + 1)) :
         /\ pages' = Append(pages, S)
         /\ count' = IF S = {} THEN 0 ELSE Cardinality(Matching)
    /\ UNCHANGED <<key, order, limit, edits>>

(* Another request adds, removes or touches a row.                         *)
Edit(n, k) ==
    /\ Len(edits) < MaxEdits
    /\ pages # <<>> /\ ~Finished
    /\ k # key[n]
    /\ key' = [key EXCEPT ![n] = k]
    /\ edits' = Append(edits, IF k = Gone /\ ~Tied(n) THEN "removed" ELSE "placed")
    /\ UNCHANGED <<order, limit, pages, count>>

ListNext ==
    \/ ReadPage
    \/ \E n \in Items, k \in Keys \cup {Null, Gone} : Edit(n, k)

ListSpec == ListInit /\ [][ListNext]_listVars

-----------------------------------------------------------------------------
(* Properties *)

Read == UNION {pages[p] : p \in DOMAIN pages}

(* What a client that reads all pages may count on.  When no two rows share*)
(* a key, a row is on two pages only if a row was added or touched in      *)
(* between: removing rows makes the listing skip, but never repeat.  If    *)
(* the table does not change either, the pages follow each other in order. *)
(* Rows that share a key break both, because a page begins after a key and *)
(* not after a row; but even then a row is on no page only if it is one of *)
(* them, or if keys are missing: rows without one are never listed, and    *)
(* sorted first they take every other row with them.                       *)
ListingFaithful ==
    /\ (\A n \in Matching : ~Tied(n)) =>
         \A p, q \in DOMAIN pages :
            p < q =>
              /\ pages[p] \cap pages[q] # {} => \E i \in DOMAIN edits : edits[i] = "placed"
              /\ edits = <<>> =>
                   \A n \in pages[p], m \in pages[q] : Precedes(key[n], key[m])
    /\ edits = <<>> /\ Finished =>
         \A n \in Matching \ Read :
            Tied(n) \/ \E m \in Matching : key[m] = Null /\ (m = n \/ order = "desc")
=============================================================================
