----------------------------- MODULE StorageProofs -----------------------------
(* Proofs about the rows of the files, for every value of the constants:     *)
(* the pages of a listing, however many rows there are and however large a   *)
(* page is; the integrity check of a channel, however many rows, messages    *)
(* and parts there are, in whatever batches the rows are read, and however   *)
(* often the server moves meanwhile; and the types of the tree and the check *)
(* in the behaviours of MCStorage.                                           *)
EXTENDS MCStorage, FileTreeProofs, FiniteSetTheorems, WellFoundedInduction, TLAPS

-----------------------------------------------------------------------------
(* The listing: the order of rows, and their ranks *)

ListTypes ==
    /\ key \in [Items -> Keys \cup {Null, Gone}]
    /\ order \in {"asc", "desc"} /\ limit \in Nat \ {0}
    /\ pages \in Seq(SUBSET Items) /\ count \in Nat
    /\ edits \in Seq({"removed", "placed"})

LEMMA OrderIs ==
    ASSUME order \in {"asc", "desc"},
           NEW x \in Keys \cup {Null}, NEW y \in Keys \cup {Null}
    PROVE  /\ ~Precedes(x, x)
           /\ Precedes(x, y) => ~Precedes(y, x)
           /\ x = y \/ Precedes(x, y) \/ Precedes(y, x)
           /\ \A z \in Keys \cup {Null} :
                 Precedes(x, y) /\ Precedes(y, z) => Precedes(x, z)
           /\ Precedes(x, y) /\ y = Null => order = "asc"
           /\ Precedes(x, y) /\ x = Null => order = "desc"
  <1>1. Null \notin Keys /\ \A k \in Keys : k \in Int
    BY FileListingAssumption DEF Keys
  <1>2. CASE x = Null /\ y = Null
    BY <1>1, <1>2 DEF Precedes
  <1>3. CASE x = Null /\ y # Null
    BY <1>1, <1>3 DEF Precedes
  <1>4. CASE x # Null /\ y = Null
    BY <1>1, <1>4 DEF Precedes
  <1>5. CASE x # Null /\ y # Null
    <2>1. x \in Int /\ y \in Int
      BY <1>1, <1>5
    <2>2. Precedes(x, y) <=> IF order = "asc" THEN x < y ELSE x > y
      BY <1>5 DEF Precedes
    <2>3. Precedes(y, x) <=> IF order = "asc" THEN y < x ELSE y > x
      BY <1>5 DEF Precedes
    <2>4. ~Precedes(x, x)
      BY <1>5, <2>1 DEF Precedes
    <2>5. ASSUME NEW z \in Keys \cup {Null}, Precedes(x, y), Precedes(y, z)
          PROVE  Precedes(x, z)
      <3>1. CASE z = Null
        BY <3>1, <2>5, <1>5 DEF Precedes
      <3>2. CASE z # Null
        <4>1. z \in Int
          BY <3>2, <1>1
        <4> QED BY <4>1, <3>2, <2>1, <2>5, <1>5 DEF Precedes
      <3> QED BY <3>1, <3>2
    <2> QED BY <1>5, <2>1, <2>2, <2>3, <2>4, <2>5
  <1> QED BY <1>2, <1>3, <1>4, <1>5

(* The rows up to a row, and those before it, in the order of the listing.   *)
Upto(n) == {m \in Matching : ~Precedes(key[n], key[m])}
Before(n) == {m \in Matching : Precedes(key[m], key[n])}

LEMMA MatchingIs ==
    ASSUME ListTypes
    PROVE  /\ IsFiniteSet(Matching) /\ Matching \in SUBSET Items
           /\ \A n \in Matching : key[n] \in Keys \cup {Null}
  <1>1. Matching \in SUBSET Items
    BY DEF Matching
  <1>2. IsFiniteSet(Matching)
    BY <1>1, FileListingAssumption, FS_Subset
  <1>3. \A n \in Matching : key[n] \in Keys \cup {Null}
    BY DEF Matching, ListTypes
  <1> QED BY <1>1, <1>2, <1>3

LEMMA RanksAre ==
    ASSUME ListTypes, NEW n \in Matching
    PROVE  /\ IsFiniteSet(Upto(n)) /\ Cardinality(Upto(n)) \in Nat
           /\ IsFiniteSet(Before(n)) /\ Cardinality(Before(n)) \in Nat
           /\ n \in Upto(n) /\ n \notin Before(n) /\ Before(n) \subseteq Upto(n)
           /\ ~Tied(n) => /\ Upto(n) = Before(n) \cup {n}
                          /\ Cardinality(Upto(n)) = Cardinality(Before(n)) + 1
  <1>1. /\ IsFiniteSet(Matching) /\ order \in {"asc", "desc"}
        /\ \A m \in Matching : key[m] \in Keys \cup {Null}
    BY MatchingIs DEF ListTypes
  <1>2. Upto(n) \in SUBSET Matching /\ Before(n) \in SUBSET Matching
    BY DEF Upto, Before
  <1>3. IsFiniteSet(Upto(n)) /\ IsFiniteSet(Before(n))
    BY <1>1, <1>2, FS_Subset
  <1>4. Cardinality(Upto(n)) \in Nat /\ Cardinality(Before(n)) \in Nat
    BY <1>3, FS_CardinalityType
  <1>5. n \in Upto(n) /\ n \notin Before(n) /\ Before(n) \subseteq Upto(n)
    BY <1>1, OrderIs DEF Upto, Before
  <1>6. ASSUME ~Tied(n)
        PROVE  /\ Upto(n) = Before(n) \cup {n}
               /\ Cardinality(Upto(n)) = Cardinality(Before(n)) + 1
    <2>1. \A m \in Upto(n) : m = n \/ m \in Before(n)
      <3>1. \A m \in Matching : m # n => key[m] # key[n]
        BY <1>6 DEF Tied
      <3> QED BY <3>1, <1>1, OrderIs DEF Upto, Before
    <2>2. Upto(n) = Before(n) \cup {n}
      BY <2>1, <1>5
    <2>3. Cardinality(Before(n) \cup {n}) = Cardinality(Before(n)) + 1
      BY <1>3, <1>5, FS_AddElement
    <2> QED BY <2>2, <2>3
  <1> QED BY <1>3, <1>4, <1>5, <1>6

(* A row that comes no later has no more rows up to it, and one that comes   *)
(* before has fewer.                                                         *)
LEMMA RanksGrow ==
    ASSUME ListTypes, NEW m \in Matching, NEW n \in Matching
    PROVE  /\ ~Precedes(key[n], key[m]) => Upto(m) \subseteq Upto(n)
              /\ Cardinality(Upto(m)) <= Cardinality(Upto(n))
           /\ Precedes(key[m], key[n]) => Upto(m) \subseteq Before(n)
              /\ Cardinality(Upto(m)) <= Cardinality(Before(n))
              /\ Cardinality(Upto(m)) < Cardinality(Upto(n))
  <1>1. /\ order \in {"asc", "desc"} /\ \A i \in Matching : key[i] \in Keys \cup {Null}
    BY MatchingIs DEF ListTypes
  <1>2. /\ IsFiniteSet(Upto(n)) /\ Cardinality(Upto(n)) \in Nat
        /\ IsFiniteSet(Before(n)) /\ Cardinality(Before(n)) \in Nat
        /\ n \in Upto(n) /\ n \notin Before(n) /\ Before(n) \subseteq Upto(n)
        /\ Cardinality(Upto(m)) \in Nat
    BY RanksAre
  <1>3. ASSUME ~Precedes(key[n], key[m])
        PROVE  Upto(m) \subseteq Upto(n) /\ Cardinality(Upto(m)) <= Cardinality(Upto(n))
    <2>1. \A i \in Upto(m) : i \in Upto(n)
      <3>1. SUFFICES ASSUME NEW i \in Upto(m), Precedes(key[n], key[i]) PROVE FALSE
        BY DEF Upto
      <3>2. i \in Matching /\ ~Precedes(key[m], key[i])
        BY <3>1 DEF Upto
      <3> QED BY <3>1, <3>2, <1>1, <1>3, OrderIs
    <2> QED BY <2>1, <1>2, FS_Subset
  <1>4. ASSUME Precedes(key[m], key[n])
        PROVE  /\ Upto(m) \subseteq Before(n)
               /\ Cardinality(Upto(m)) <= Cardinality(Before(n))
               /\ Cardinality(Upto(m)) < Cardinality(Upto(n))
    <2>1. \A i \in Upto(m) : i \in Before(n)
      <3>1. SUFFICES ASSUME NEW i \in Upto(m) PROVE Precedes(key[i], key[n])
        BY DEF Upto, Before
      <3>2. i \in Matching /\ ~Precedes(key[m], key[i])
        BY <3>1 DEF Upto
      <3> QED BY <3>2, <1>1, <1>4, OrderIs
    <2>2. Cardinality(Upto(m)) <= Cardinality(Before(n))
      BY <2>1, <1>2, FS_Subset
    <2>3. Cardinality(Before(n)) < Cardinality(Upto(n))
      <3>1. Before(n) \cup {n} \in SUBSET Upto(n)
        BY <1>2
      <3>2. Cardinality(Before(n) \cup {n}) = Cardinality(Before(n)) + 1
        BY <1>2, FS_AddElement
      <3>3. Cardinality(Before(n) \cup {n}) <= Cardinality(Upto(n))
        BY <3>1, <1>2, FS_Subset
      <3> QED BY <3>2, <3>3, <1>2
    <2> QED BY <2>1, <2>2, <2>3, <1>2
  <1> QED BY <1>3, <1>4

(* There is a row at each rank up to that of a row.                          *)
LEMMA RankTaken ==
    ASSUME ListTypes, NEW n \in Matching, NEW r \in Nat \ {0},
           r <= Cardinality(Upto(n))
    PROVE  \E a \in Matching : /\ key[a] \in KeyAtRank(r) /\ ~Precedes(key[n], key[a])
                               /\ Cardinality(Before(a)) < r
                               /\ r <= Cardinality(Upto(a))
  <1> DEFINE Reach == {m \in Matching : r <= Cardinality(Upto(m))}
             Ranks == {Cardinality(Upto(m)) : m \in Reach}
  <1>1. Ranks \in SUBSET Nat /\ Ranks # {} /\ n \in Reach
    BY RanksAre
  <1>2. PICK t \in Ranks : \A u \in Ranks : t <= u
    BY <1>1, LeastNumber
  <1>3. PICK a \in Reach : t = Cardinality(Upto(a))
    OBVIOUS
  <1>4. a \in Matching /\ r <= Cardinality(Upto(a))
        /\ \A m \in Reach : Cardinality(Upto(a)) <= Cardinality(Upto(m))
    BY <1>2, <1>3
  <1>5. /\ order \in {"asc", "desc"} /\ \A i \in Matching : key[i] \in Keys \cup {Null}
    BY MatchingIs DEF ListTypes
  <1>6. \A m \in Matching : Cardinality(Upto(m)) \in Nat /\ Cardinality(Before(m)) \in Nat
    BY RanksAre
  <1>7. ASSUME NEW m \in Reach PROVE ~Precedes(key[m], key[a])
    <2>1. SUFFICES ASSUME Precedes(key[m], key[a]) PROVE FALSE
      OBVIOUS
    <2>2. m \in Matching /\ Cardinality(Upto(m)) < Cardinality(Upto(a))
      BY <2>1, <1>4, RanksGrow
    <2> QED BY <2>2, <1>4, <1>6
  <1>8. Cardinality(Before(a)) < r
    <2>1. SUFFICES ASSUME r <= Cardinality(Before(a)) PROVE FALSE
      BY <1>4, <1>6
    <2> DEFINE Sizes == {Cardinality(Upto(m)) : m \in Before(a)}
    <2>2. Before(a) \in SUBSET Matching /\ IsFiniteSet(Before(a))
      BY <1>4, RanksAre DEF Before
    <2>3. Before(a) # {}
      BY <2>1, FS_EmptySet
    <2>4. PICK y \in Before(a) : \A m \in Before(a) :
            Cardinality(Upto(m)) <= Cardinality(Upto(y))
      <3>1. PICK c \in Nat : c = Cardinality(Before(a))
        BY <1>4, <1>6
      <3> DEFINE Rest == {c - Cardinality(Upto(m)) : m \in Before(a)}
      <3>2. \A m \in Before(a) : Cardinality(Upto(m)) <= c /\ Cardinality(Upto(m)) \in Nat
        BY <2>2, <3>1, <1>4, <1>6, RanksGrow DEF Before
      <3>3. Rest \in SUBSET Nat /\ Rest # {}
        BY <2>3, <3>2
      <3>4. PICK x \in Rest : \A u \in Rest : x <= u
        BY <3>3, LeastNumber
      <3>5. PICK y \in Before(a) : x = c - Cardinality(Upto(y))
        OBVIOUS
      <3>6. \A m \in Before(a) : c - Cardinality(Upto(y)) <= c - Cardinality(Upto(m))
        BY <3>4, <3>5
      <3>7. \A m \in Before(a) : Cardinality(Upto(m)) <= Cardinality(Upto(y))
        BY <3>2, <3>6
      <3> QED BY <3>7
    <2>5. y \in Matching /\ Precedes(key[y], key[a])
      BY <2>2 DEF Before
    <2>6. Before(a) \subseteq Upto(y)
      <3>1. SUFFICES ASSUME NEW m \in Before(a), Precedes(key[y], key[m]) PROVE FALSE
        BY <2>2 DEF Upto
      <3>2. Cardinality(Upto(y)) < Cardinality(Upto(m)) /\ m \in Matching
        BY <2>2, <2>5, <3>1, RanksGrow
      <3> QED BY <2>4, <2>5, <3>1, <3>2, <1>6
    <2>7. Cardinality(Before(a)) <= Cardinality(Upto(y))
      BY <2>5, <2>6, RanksAre, FS_Subset
    <2>8. y \in Reach
      BY <2>1, <2>5, <2>7, <1>4, <1>6
    <2> QED BY <2>5, <2>8, <1>7
  <1>9. key[a] \in KeyAtRank(r)
    BY <1>4, <1>8 DEF KeyAtRank, Before, Upto
  <1> QED BY <1>1, <1>4, <1>7, <1>8, <1>9

-----------------------------------------------------------------------------
(* The listing: what the next page holds *)

Span == Len(pages) * limit
NextPage == Len(pages) + 1

LEMMA SpanIs ==
    ASSUME ListTypes
    PROVE  /\ Len(pages) \in Nat /\ Span \in Nat /\ limit \in Nat \ {0}
           /\ (Len(pages) + 1) * limit = Span + limit
           /\ pages = <<>> => Span = 0
           /\ pages # <<>> => Span > 0
           /\ AnchorRank(NextPage) = IF pages = <<>> THEN 1 ELSE Span
           /\ NextPage = 1 <=> pages = <<>>
  <1>1. PICK w \in Nat : w = Len(pages)
    BY DEF ListTypes
  <1>2. PICK m \in Nat \ {0} : m = limit
    BY DEF ListTypes
  <1>3. pages = <<>> <=> w = 0
    BY <1>1 DEF ListTypes
  <1>4. w * m \in Nat /\ (w + 1) * m = w * m + m /\ 0 * m = 0
    OBVIOUS
  <1>5. w > 0 => w * m > 0
    OBVIOUS
  <1>6. Span = w * m
    BY <1>1, <1>2 DEF Span
  <1>7. NextPage = w + 1 /\ (w + 1) - 1 = w
    BY <1>1 DEF NextPage
  <1>8. AnchorRank(NextPage) = IF pages = <<>> THEN 1 ELSE Span
    <2>1. CASE w = 0
      BY <2>1, <1>3, <1>7 DEF AnchorRank
    <2>2. CASE w # 0
      <3>1. NextPage # 1 /\ NextPage - 1 = w
        BY <2>2, <1>7
      <3> QED BY <3>1, <2>2, <1>2, <1>3, <1>6 DEF AnchorRank
    <2> QED BY <2>1, <2>2
  <1>9. NextPage = 1 <=> pages = <<>>
    BY <1>3, <1>7
  <1> QED BY <1>1, <1>2, <1>3, <1>4, <1>5, <1>6, <1>8, <1>9

(* The row a page follows: the first one, or the one at the end of the pages *)
(* before.                                                                   *)
Anchors(a, y) ==
    /\ key[a] # Null
    /\ IF pages = <<>>
       THEN Before(a) = {} /\ (key[y] = key[a] \/ Precedes(key[a], key[y]))
       ELSE /\ Precedes(key[a], key[y])
            /\ Cardinality(Before(a)) < Span /\ Span <= Cardinality(Upto(a))

LEMMA CandidatesAre ==
    ASSUME ListTypes
    PROVE  \A y : y \in Candidates(NextPage) <=>
               /\ y \in Matching /\ key[y] # Null
               /\ \E a \in Matching : Anchors(a, y)
  <1>1. PICK r \in Nat \ {0} : r = AnchorRank(NextPage)
                               /\ r = IF pages = <<>> THEN 1 ELSE Span
    BY SpanIs
  <1>2. \A a \in Matching : (Cardinality(Before(a)) < 1 /\ 1 <= Cardinality(Upto(a)))
                            <=> Before(a) = {}
    <2> TAKE a \in Matching
    <2>1. /\ IsFiniteSet(Upto(a)) /\ Cardinality(Upto(a)) \in Nat
          /\ IsFiniteSet(Before(a)) /\ Cardinality(Before(a)) \in Nat
          /\ a \in Upto(a)
      BY RanksAre
    <2>2. Cardinality(Before(a)) = 0 <=> Before(a) = {}
      BY <2>1, FS_EmptySet
    <2>3. Cardinality(Upto(a)) # 0
      BY <2>1, FS_EmptySet
    <2> QED BY <2>1, <2>2, <2>3
  <1>3. \A k : k \in KeyAtRank(r) <=>
          \E a \in Matching : /\ k = key[a] /\ Cardinality(Before(a)) < r
                              /\ r <= Cardinality(Upto(a))
    <2>1. \A a \in Matching : Cardinality(Upto(a)) \in Nat
      BY RanksAre
    <2>2. \A a \in Matching : Cardinality(Upto(a)) >= r <=> r <= Cardinality(Upto(a))
      BY <2>1
    <2> QED BY <2>2 DEF KeyAtRank, Before, Upto
  <1>4. ASSUME NEW y
        PROVE  y \in Candidates(NextPage) <=>
                 /\ y \in Matching
                 /\ \E a \in Matching : /\ Cardinality(Before(a)) < r
                                        /\ r <= Cardinality(Upto(a))
                                        /\ Follows(key[y], key[a], NextPage)
    <2>1. y \in Candidates(NextPage) <=>
            y \in Matching /\ \E k \in KeyAtRank(r) : Follows(key[y], k, NextPage)
      BY <1>1 DEF Candidates
    <2> HIDE DEF NextPage
    <2> QED BY <2>1, <1>3
  <1>5. ASSUME NEW y \in Matching, NEW a \in Matching
        PROVE  (/\ Cardinality(Before(a)) < r /\ r <= Cardinality(Upto(a))
                /\ Follows(key[y], key[a], NextPage))
               <=> key[y] # Null /\ Anchors(a, y)
    <2>1. CASE pages = <<>>
      <3>1. r = 1 /\ NextPage = 1
        BY <2>1, <1>1, SpanIs
      <3>2. (Cardinality(Before(a)) < r /\ r <= Cardinality(Upto(a))) <=> Before(a) = {}
        BY <3>1, <1>2
      <3>3. Follows(key[y], key[a], NextPage) <=>
              /\ key[y] # Null /\ key[a] # Null
              /\ key[y] = key[a] \/ Precedes(key[a], key[y])
        BY <3>1 DEF Follows
      <3> QED BY <2>1, <3>2, <3>3 DEF Anchors
    <2>2. CASE pages # <<>>
      <3>1. r = Span /\ NextPage # 1
        BY <2>2, <1>1, SpanIs
      <3>2. Follows(key[y], key[a], NextPage) <=>
              key[y] # Null /\ key[a] # Null /\ Precedes(key[a], key[y])
        BY <3>1 DEF Follows
      <3> QED BY <2>2, <3>1, <3>2 DEF Anchors
    <2> QED BY <2>1, <2>2
  <1> QED BY <1>4, <1>5

(* How many rows a page has, and which.                                      *)
LEMMA PageIs ==
    ASSUME ListTypes, NEW S \in PageOf(Candidates(NextPage))
    PROVE  /\ S \in SUBSET Candidates(NextPage) /\ S \in SUBSET Matching
           /\ IsFiniteSet(S) /\ Cardinality(S) \in Nat /\ Cardinality(S) <= limit
           /\ Cardinality(S) < limit => S = Candidates(NextPage)
           /\ \A n \in S, m \in Candidates(NextPage) \ S : ~Precedes(key[m], key[n])
  <1> DEFINE C == Candidates(NextPage)
  <1>1. C \in SUBSET Matching
    BY CandidatesAre
  <1>2. IsFiniteSet(C) /\ Cardinality(C) \in Nat
    BY <1>1, MatchingIs, FS_Subset, FS_CardinalityType
  <1>3. /\ S \in SUBSET C
        /\ Cardinality(S) = IF Cardinality(C) < limit THEN Cardinality(C) ELSE limit
        /\ \A n \in S, m \in C \ S : ~Precedes(key[m], key[n])
    BY DEF PageOf
  <1>4. limit \in Nat
    BY SpanIs
  <1>5. IsFiniteSet(S) /\ Cardinality(S) \in Nat
    BY <1>2, <1>3, FS_Subset, FS_CardinalityType
  <1>6. Cardinality(S) < limit => Cardinality(S) = Cardinality(C)
    BY <1>2, <1>3, <1>4
  <1>7. Cardinality(S) <= limit
    BY <1>2, <1>3, <1>4
  <1>8. Cardinality(S) = Cardinality(C) => S = C
    BY <1>2, <1>3, FS_Subset
  <1> QED BY <1>1, <1>3, <1>5, <1>6, <1>7, <1>8

(* With no two rows tied, the rows of the next page are the ones that follow *)
(* the rows read in the order of the listing.                                *)
Untied == \A n \in Matching : ~Tied(n)

LEMMA PageRanks ==
    ASSUME ListTypes, Untied,
           NEW S \in PageOf(Candidates(NextPage)), NEW y \in S
    PROVE  Span < Cardinality(Upto(y)) /\ Cardinality(Upto(y)) <= Span + limit
  <1>1. /\ order \in {"asc", "desc"} /\ \A m \in Matching : key[m] \in Keys \cup {Null}
    BY MatchingIs DEF ListTypes
  <1>2. y \in Matching /\ key[y] # Null
    BY PageIs, CandidatesAre
  <1>3. PICK a \in Matching : Anchors(a, y)
    BY PageIs, CandidatesAre
  <1>4. \A m \in Matching : /\ IsFiniteSet(Upto(m)) /\ Cardinality(Upto(m)) \in Nat
                            /\ IsFiniteSet(Before(m)) /\ Cardinality(Before(m)) \in Nat
                            /\ m \in Upto(m)
                            /\ Cardinality(Upto(m)) = Cardinality(Before(m)) + 1
    BY RanksAre DEF Untied
  <1>5. Span \in Nat /\ limit \in Nat /\ (pages = <<>> => Span = 0)
    BY SpanIs
  <1>6. Span < Cardinality(Upto(y))
    <2>1. CASE pages = <<>>
      <3>1. Cardinality(Upto(y)) > 0
        BY <1>2, <1>4
      <3> QED BY <2>1, <3>1, <1>5
    <2>2. CASE pages # <<>>
      <3>1. Span <= Cardinality(Upto(a)) /\ Precedes(key[a], key[y])
        BY <2>2, <1>3 DEF Anchors
      <3>2. Cardinality(Upto(a)) < Cardinality(Upto(y))
        BY <3>1, <1>2, RanksGrow
      <3> QED BY <3>1, <3>2, <1>2, <1>4, <1>5
    <2> QED BY <2>1, <2>2
  <1>7. ASSUME NEW z \in Upto(y), pages = <<>> \/ z \notin Upto(a)
        PROVE  z \in S
    <2>1. z \in Matching /\ ~Precedes(key[y], key[z])
      BY DEF Upto
    <2>2. key[a] = key[z] \/ Precedes(key[a], key[z])
      <3>1. CASE pages = <<>>
        <4>1. Before(a) = {}
          BY <3>1, <1>3 DEF Anchors
        <4>2. ~Precedes(key[z], key[a])
          BY <4>1, <2>1 DEF Before
        <4> QED BY <4>2, <2>1, <1>1, OrderIs
      <3>2. CASE z \notin Upto(a)
        BY <3>2, <2>1 DEF Upto
      <3> QED BY <3>1, <3>2, <1>7
    <2>3. key[z] # Null
      <3>1. SUFFICES ASSUME key[z] = Null PROVE FALSE
        OBVIOUS
      <3>2. key[a] # Null
        BY <1>3 DEF Anchors
      <3>3. order = "asc"
        BY <2>1, <2>2, <3>1, <3>2, <1>1, OrderIs
      <3>4. Precedes(key[y], key[z])
        BY <3>1, <3>3, <1>2 DEF Precedes
      <3> QED BY <3>4, <2>1
    <2>4. Anchors(a, z)
      <3>1. CASE pages = <<>>
        <4>1. key[z] = key[a] \/ Precedes(key[a], key[z])
          BY <2>2
        <4> QED BY <4>1, <3>1, <1>3 DEF Anchors
      <3>2. CASE pages # <<>>
        <4>1. Precedes(key[a], key[z])
          BY <3>2, <1>7, <2>1 DEF Upto
        <4> QED BY <4>1, <3>2, <1>3 DEF Anchors
      <3> QED BY <3>1, <3>2
    <2>5. z \in Candidates(NextPage)
      BY <2>1, <2>3, <2>4, CandidatesAre
    <2>6. SUFFICES ASSUME z \notin S PROVE FALSE
      OBVIOUS
    <2>7. ~Precedes(key[z], key[y])
      BY <2>5, <2>6, PageIs
    <2>8. key[z] = key[y]
      BY <2>1, <2>7, <1>1, <1>2, OrderIs
    <2>9. z = y
      BY <2>1, <2>8, <1>2 DEF Untied, Tied
    <2> QED BY <2>6, <2>9
  <1>8. IsFiniteSet(S) /\ Cardinality(S) \in Nat /\ Cardinality(S) <= limit
    BY PageIs
  <1>9. Cardinality(Upto(y)) <= Span + limit
    <2>1. CASE pages = <<>>
      <3>1. Upto(y) \in SUBSET S
        BY <2>1, <1>7
      <3>2. Cardinality(Upto(y)) <= Cardinality(S)
        BY <3>1, <1>8, FS_Subset
      <3> QED BY <3>2, <1>2, <1>4, <1>5, <1>8
    <2>2. CASE pages # <<>>
      <3>1. Upto(y) \in SUBSET (Upto(a) \cup S)
        BY <1>7
      <3>2. IsFiniteSet(Upto(a) \cup S)
            /\ Cardinality(Upto(a) \cup S)
                = Cardinality(Upto(a)) + Cardinality(S) - Cardinality(Upto(a) \cap S)
        BY <1>3, <1>4, <1>8, FS_Union
      <3>3. Cardinality(Upto(a) \cap S) \in Nat
        BY <1>8, FS_Intersection, FS_CardinalityType
      <3>4. Cardinality(Upto(y)) <= Cardinality(Upto(a) \cup S)
        BY <3>1, <3>2, FS_Subset
      <3>5. Cardinality(Before(a)) < Span
        BY <2>2, <1>3 DEF Anchors
      <3>6. PICK ua \in Nat, cs \in Nat, ci \in Nat, uy \in Nat :
              /\ ua = Cardinality(Upto(a)) /\ cs = Cardinality(S)
              /\ ci = Cardinality(Upto(a) \cap S) /\ uy = Cardinality(Upto(y))
        BY <1>2, <1>3, <1>4, <1>8, <3>3
      <3>7. ua <= Span
        BY <3>5, <3>6, <1>3, <1>4, <1>5
      <3>8. Cardinality(Upto(a) \cup S) = ua + cs - ci
        BY <3>2, <3>6
      <3>9. uy <= ua + cs - ci /\ cs <= limit
        BY <3>4, <3>6, <3>8, <1>8
      <3> QED BY <3>6, <3>7, <3>9, <1>5
    <2> QED BY <2>1, <2>2
  <1> QED BY <1>6, <1>9

(* A row the listing can show: it has a key, no other row has the same, and  *)
(* none without one is sorted before it.                                     *)
Listed(n) ==
    ~Tied(n) /\ \A m \in Matching : key[m] = Null => m # n /\ order # "desc"

(* Such a row is a candidate of the next page when it comes after the rows   *)
(* read, and on it when the page reaches it.                                 *)
LEMMA ListedIsNext ==
    ASSUME ListTypes, NEW n \in Matching, Listed(n), Span < Cardinality(Upto(n)),
           NEW S \in PageOf(Candidates(NextPage))
    PROVE  /\ n \in Candidates(NextPage)
           /\ Cardinality(Upto(n)) <= Span + limit => n \in S
  <1>1. /\ order \in {"asc", "desc"} /\ \A m \in Matching : key[m] \in Keys \cup {Null}
    BY MatchingIs DEF ListTypes
  <1>2. /\ IsFiniteSet(Before(n)) /\ Cardinality(Before(n)) \in Nat
        /\ Upto(n) = Before(n) \cup {n} /\ n \notin Before(n)
        /\ Cardinality(Upto(n)) = Cardinality(Before(n)) + 1
    BY RanksAre DEF Listed
  <1>3. key[n] # Null
    BY DEF Listed
  <1>4. Span \in Nat /\ limit \in Nat \ {0} /\ (pages = <<>> => Span = 0)
        /\ (pages # <<>> => Span > 0)
    BY SpanIs
  <1>5. PICK a \in Matching : Anchors(a, n)
    <2>1. PICK r \in Nat \ {0} : r = IF pages = <<>> THEN 1 ELSE Span
      BY <1>4
    <2>2. r <= Cardinality(Upto(n))
      BY <2>1, <1>2, <1>4
    <2>3. PICK b \in Matching : /\ ~Precedes(key[n], key[b])
                                /\ Cardinality(Before(b)) < r
                                /\ r <= Cardinality(Upto(b))
      BY <2>1, <2>2, RankTaken
    <2>4. key[b] # Null
      <3>1. SUFFICES ASSUME key[b] = Null PROVE FALSE
        OBVIOUS
      <3>2. order = "asc"
        BY <3>1, <1>1 DEF Listed
      <3> QED BY <3>1, <3>2, <2>3, <1>3 DEF Precedes
    <2>5. b = n \/ Precedes(key[b], key[n])
      <3>1. key[b] = key[n] \/ Precedes(key[b], key[n])
        BY <2>3, <1>1, OrderIs
      <3>2. key[b] = key[n] => b = n
        BY DEF Listed, Tied
      <3> QED BY <3>1, <3>2
    <2>6. CASE pages = <<>>
      <3>1. Cardinality(Before(b)) < 1
        BY <2>1, <2>3, <2>6
      <3>2. IsFiniteSet(Before(b)) /\ Cardinality(Before(b)) \in Nat
        BY RanksAre
      <3>3. Before(b) = {}
        BY <3>1, <3>2, FS_EmptySet
      <3> QED BY <2>4, <2>5, <2>6, <3>3 DEF Anchors
    <2>7. CASE pages # <<>>
      <3>1. r = Span
        BY <2>1, <2>7
      <3>2. b # n
        <4>1. SUFFICES ASSUME b = n PROVE FALSE
          OBVIOUS
        <4> QED BY <4>1, <3>1, <2>3, <1>2, <1>4
      <3> QED BY <2>3, <2>4, <2>5, <2>7, <3>1, <3>2 DEF Anchors
    <2> QED BY <2>6, <2>7
  <1>6. n \in Candidates(NextPage)
    BY <1>3, <1>5, CandidatesAre
  <1>7. ASSUME Cardinality(Upto(n)) <= Span + limit, n \notin S
        PROVE  FALSE
    <2>1. /\ S \in SUBSET Matching /\ S \in SUBSET Candidates(NextPage)
          /\ IsFiniteSet(S) /\ Cardinality(S) = limit
          /\ \A y \in S : ~Precedes(key[n], key[y])
      <3>1. /\ S \in SUBSET Matching /\ S \in SUBSET Candidates(NextPage)
            /\ IsFiniteSet(S) /\ Cardinality(S) \in Nat /\ Cardinality(S) <= limit
            /\ Cardinality(S) < limit => S = Candidates(NextPage)
            /\ \A y \in S, m \in Candidates(NextPage) \ S : ~Precedes(key[m], key[y])
        BY PageIs
      <3>2. ~(Cardinality(S) < limit)
        BY <3>1, <1>6, <1>7
      <3>3. Cardinality(S) = limit
        BY <3>1, <3>2, <1>4
      <3> QED BY <3>1, <3>3, <1>6, <1>7
    <2>2. S \in SUBSET Before(n)
      <3>1. S \in SUBSET Upto(n)
        BY <2>1 DEF Upto
      <3> QED BY <3>1, <1>2, <1>7
    <2>3. CASE pages = <<>>
      <3>1. Cardinality(S) <= Cardinality(Before(n))
        BY <2>2, <1>2, FS_Subset
      <3> QED BY <3>1, <2>1, <2>3, <1>2, <1>4, <1>7
    <2>4. CASE pages # <<>>
      <3>1. /\ Precedes(key[a], key[n])
            /\ Cardinality(Before(a)) < Span /\ Span <= Cardinality(Upto(a))
        BY <2>4, <1>5 DEF Anchors
      <3>2. /\ IsFiniteSet(Upto(a)) /\ Cardinality(Upto(a)) \in Nat
            /\ Cardinality(Before(a)) \in Nat
        BY RanksAre
      <3>3. Upto(a) \in SUBSET Before(n)
        BY <3>1, RanksGrow
      <3>4. ASSUME NEW y \in S, y \in Upto(a) PROVE FALSE
        <4>1. y \in Matching /\ ~Precedes(key[a], key[y])
          BY <3>4 DEF Upto
        <4>2. PICK b \in Matching : Anchors(b, y)
          BY <2>1, CandidatesAre
        <4>3. Precedes(key[b], key[y]) /\ Span <= Cardinality(Upto(b))
          BY <4>2, <2>4 DEF Anchors
        <4>4. Precedes(key[b], key[a])
          BY <4>1, <4>3, <1>1, OrderIs
        <4>5. Cardinality(Upto(b)) <= Cardinality(Before(a)) /\ Cardinality(Upto(b)) \in Nat
          BY <4>4, RanksGrow, RanksAre
        <4> QED BY <4>3, <4>5, <3>1, <3>2, <1>4
      <3>5. Upto(a) \cap S = {}
        BY <3>4
      <3>6. Cardinality(Upto(a) \cup S)
              = Cardinality(Upto(a)) + Cardinality(S) - Cardinality({})
        BY <3>2, <3>5, <2>1, FS_Union
      <3>7. Cardinality(Upto(a) \cup S) = Cardinality(Upto(a)) + limit
        BY <3>6, <3>2, <2>1, <1>4, FS_EmptySet
      <3>8. Upto(a) \cup S \in SUBSET Before(n)
        BY <3>3, <2>2
      <3>9. Cardinality(Upto(a) \cup S) <= Cardinality(Before(n))
        BY <3>8, <1>2, FS_Subset
      <3> QED BY <3>1, <3>2, <3>7, <3>9, <1>2, <1>4, <1>7
    <2> QED BY <2>3, <2>4
  <1> QED BY <1>6, <1>7

-----------------------------------------------------------------------------
(* The listing: the inductive invariant *)

NoPlaced == \A i \in DOMAIN edits : edits[i] # "placed"

(* While rows only go, the rows read that are still there come before the    *)
(* rows to read, and no two pages share a row.                               *)
ReadComesFirst ==
    Untied /\ NoPlaced =>
        /\ \A n \in Read \cap Matching : Cardinality(Upto(n)) <= Span
        /\ \A p, q \in DOMAIN pages : p < q => pages[p] \cap pages[q] = {}

(* While the table stays as it is, the pages are in order, and a row that    *)
(* the listing can show is on one of them once they reach it.                *)
PagesInOrder ==
    Untied /\ edits = <<>> =>
        \A p, q \in DOMAIN pages : p < q =>
            \A n \in pages[p], m \in pages[q] : Precedes(key[n], key[m])

NothingSkipped ==
    edits = <<>> =>
        /\ Read \subseteq Matching
        /\ \A n \in Matching : Listed(n) /\ Cardinality(Upto(n)) <= Span => n \in Read
        /\ pages # <<>> => \/ count = Cardinality(Matching)
                           \/ \A n \in Matching : Listed(n) => n \in Read

ListInv == ListTypes /\ ReadComesFirst /\ PagesInOrder /\ NothingSkipped

LEMMA ListStarts ==
    ListInit => ListInv
  <1>1. SUFFICES ASSUME ListInit PROVE ListInv
    OBVIOUS
  <1>2. ListTypes
    BY <1>1, FileListingAssumption DEF ListInit, ListTypes
  <1>3. pages = <<>> /\ DOMAIN pages = {} /\ Read = {}
    BY <1>1 DEF ListInit, Read
  <1>4. Span = 0
    BY <1>2, <1>3, SpanIs
  <1>5. \A n \in Matching : ~(Cardinality(Upto(n)) <= Span)
    <2> TAKE n \in Matching
    <2>1. IsFiniteSet(Upto(n)) /\ Cardinality(Upto(n)) \in Nat /\ n \in Upto(n)
      BY <1>2, RanksAre
    <2>2. Cardinality(Upto(n)) # 0
      BY <2>1, FS_EmptySet
    <2> QED BY <2>1, <2>2, <1>4
  <1>6. ReadComesFirst /\ PagesInOrder
    BY <1>3 DEF ReadComesFirst, PagesInOrder
  <1>7. NothingSkipped
    BY <1>3, <1>5 DEF NothingSkipped
  <1> QED BY <1>2, <1>6, <1>7 DEF ListInv

(* The next page keeps it.                                                   *)
LEMMA ReadPageKeeps ==
    ASSUME ListInv, ReadPage
    PROVE  ListInv'
  <1>1. ListTypes /\ ReadComesFirst /\ PagesInOrder /\ NothingSkipped
    BY DEF ListInv
  <1>2. PICK S \in PageOf(Candidates(NextPage)) :
          /\ pages' = Append(pages, S)
          /\ count' = IF S = {} THEN 0 ELSE Cardinality(Matching)
    BY DEF ReadPage, NextPage
  <1>3. key' = key /\ order' = order /\ limit' = limit /\ edits' = edits
    BY DEF ReadPage
  <1>4. /\ Matching' = Matching /\ Untied' = Untied /\ NoPlaced' = NoPlaced
        /\ \A n : (n \in Matching => Upto(n)' = Upto(n) /\ Listed(n)' = Listed(n))
    BY <1>3 DEF Matching, Untied, NoPlaced, Upto, Listed, Tied, Precedes
  <1>5. PICK w \in Nat : w = Len(pages)
    BY <1>1 DEF ListTypes
  <1>6. S \in SUBSET Matching /\ S \in SUBSET Items
    BY <1>1, PageIs, MatchingIs
  <1>7. /\ pages \in Seq(SUBSET Items) /\ pages' \in Seq(SUBSET Items)
        /\ Len(pages') = w + 1 /\ DOMAIN pages = 1 .. w /\ DOMAIN pages' = 1 .. (w + 1)
        /\ pages'[w + 1] = S /\ \A p \in 1 .. w : pages'[p] = pages[p]
    BY <1>1, <1>2, <1>5, <1>6 DEF ListTypes
  <1>8. Read' = Read \cup S
    <2>1. DOMAIN pages' = DOMAIN pages \cup {w + 1}
      BY <1>5, <1>7
    <2>2. \A n : n \in Read <=> \E p \in DOMAIN pages : n \in pages[p]
      BY DEF Read
    <2>3. \A n : n \in Read' <=> \E p \in DOMAIN pages' : n \in pages'[p]
      BY DEF Read
    <2>4. \A p \in DOMAIN pages : pages'[p] = pages[p]
      BY <1>7
    <2>5. \A n : n \in Read' <=> n \in Read \/ n \in S
      BY <2>1, <2>2, <2>3, <2>4, <1>7
    <2> QED BY <2>5
  <1>9. /\ Span \in Nat /\ limit \in Nat \ {0} /\ Span' = Span + limit
        /\ IsFiniteSet(Matching) /\ Cardinality(Matching) \in Nat
    <2>1. Span \in Nat /\ limit \in Nat \ {0} /\ (w + 1) * limit = Span + limit
      BY <1>1, <1>5, SpanIs
    <2>2. Span' = (w + 1) * limit
      BY <1>3, <1>7 DEF Span
    <2>3. IsFiniteSet(Matching) /\ Cardinality(Matching) \in Nat
      BY <1>1, MatchingIs, FS_CardinalityType
    <2> QED BY <2>1, <2>2, <2>3
  <1>10. \A n \in Matching : Cardinality(Upto(n)) \in Nat
    BY <1>1, RanksAre
  <1>11. ListTypes'
    <2>1. count' \in Nat
      BY <1>2, <1>9
    <2> QED BY <2>1, <1>1, <1>3, <1>7 DEF ListTypes
  <1>12. ASSUME Untied
         PROVE  \A y \in S : /\ y \in Matching /\ Span < Cardinality(Upto(y))
                             /\ Cardinality(Upto(y)) <= Span + limit
    BY <1>1, <1>6, <1>12, PageRanks
  <1>13. ReadComesFirst'
    <2>1. SUFFICES ASSUME Untied, NoPlaced
                   PROVE  /\ \A n \in Read' \cap Matching :
                                 Cardinality(Upto(n)) <= Span + limit
                          /\ \A p, q \in DOMAIN pages' :
                                 p < q => pages'[p] \cap pages'[q] = {}
      <3>1. \A n \in Read' \cap Matching' : n \in Matching /\ Upto(n)' = Upto(n)
        BY <1>4
      <3> QED BY <2>1, <3>1, <1>4, <1>9 DEF ReadComesFirst
    <2>2. /\ \A n \in Read \cap Matching : Cardinality(Upto(n)) <= Span
          /\ \A p, q \in DOMAIN pages : p < q => pages[p] \cap pages[q] = {}
      BY <2>1, <1>1 DEF ReadComesFirst
    <2>3. ASSUME NEW n \in Read' \cap Matching
          PROVE  Cardinality(Upto(n)) <= Span + limit
      <3>1. CASE n \in Read
        BY <3>1, <2>2, <1>9, <1>10
      <3>2. CASE n \in S
        BY <3>2, <2>1, <1>12
      <3> QED BY <3>1, <3>2, <1>8
    <2>4. ASSUME NEW p \in DOMAIN pages', NEW q \in DOMAIN pages', p < q
          PROVE  pages'[p] \cap pages'[q] = {}
      <3>1. p \in 1 .. w /\ pages'[p] = pages[p]
        BY <2>4, <1>5, <1>7
      <3>2. CASE q \in 1 .. w
        BY <3>1, <3>2, <2>2, <2>4, <1>7
      <3>3. CASE q = w + 1
        <4>1. SUFFICES ASSUME NEW y \in S, y \in pages[p] PROVE FALSE
          BY <3>1, <3>3, <1>7
        <4>2. y \in Read
          BY <4>1, <3>1, <1>7 DEF Read
        <4>3. y \in Matching /\ Span < Cardinality(Upto(y))
          BY <2>1, <1>12
        <4>4. Cardinality(Upto(y)) <= Span
          BY <4>2, <4>3, <2>2
        <4> QED BY <4>3, <4>4, <1>9, <1>10
      <3> QED BY <3>2, <3>3, <1>5, <1>7
    <2> QED BY <2>3, <2>4
  <1>14. PagesInOrder'
    <2>1. SUFFICES ASSUME Untied, edits = <<>>,
                          NEW p \in DOMAIN pages', NEW q \in DOMAIN pages', p < q,
                          NEW n \in pages'[p], NEW m \in pages'[q]
                   PROVE  Precedes(key[n], key[m])
      BY <1>3, <1>4 DEF PagesInOrder, Precedes
    <2>2. p \in 1 .. w /\ pages'[p] = pages[p]
      BY <2>1, <1>5, <1>7
    <2>3. CASE q \in 1 .. w
      BY <2>1, <2>2, <2>3, <1>1, <1>7 DEF PagesInOrder
    <2>4. CASE q = w + 1
      <3>1. NoPlaced
        BY <2>1 DEF NoPlaced
      <3>2. n \in Read /\ n \in Matching
        BY <2>1, <2>2, <1>1, <1>7 DEF Read, NothingSkipped
      <3>3. Cardinality(Upto(n)) <= Span
        BY <2>1, <3>1, <3>2, <1>1 DEF ReadComesFirst
      <3>4. m \in Matching /\ Span < Cardinality(Upto(m))
        BY <2>1, <2>4, <1>7, <1>12
      <3>5. ~Precedes(key[m], key[n]) /\ key[m] # key[n]
        <4>1. ~(Cardinality(Upto(m)) <= Cardinality(Upto(n)))
          BY <3>2, <3>3, <3>4, <1>9, <1>10
        <4>2. Precedes(key[n], key[m])
          BY <4>1, <3>2, <3>4, <1>1, RanksGrow
        <4> QED BY <4>2, <3>2, <3>4, <1>1, MatchingIs, OrderIs DEF ListTypes
      <3> QED BY <3>2, <3>4, <3>5, <1>1, MatchingIs, OrderIs DEF ListTypes
    <2> QED BY <2>3, <2>4, <1>5, <1>7
  <1>15. ASSUME edits = <<>>
         PROVE  /\ Read' \subseteq Matching
                /\ \A n \in Matching :
                      Listed(n) /\ Cardinality(Upto(n)) <= Span + limit => n \in Read'
                /\ \/ count' = Cardinality(Matching)
                   \/ \A n \in Matching : Listed(n) => n \in Read'
    <2>1. /\ Read \subseteq Matching
          /\ \A n \in Matching : Listed(n) /\ Cardinality(Upto(n)) <= Span => n \in Read
      BY <1>1, <1>15 DEF NothingSkipped
    <2>2. Read' \subseteq Matching
      BY <2>1, <1>6, <1>8
    <2>3. ASSUME NEW n \in Matching, Listed(n), Cardinality(Upto(n)) <= Span + limit
          PROVE  n \in Read'
      <3>1. CASE Cardinality(Upto(n)) <= Span
        BY <3>1, <2>1, <2>3, <1>8
      <3>2. CASE Span < Cardinality(Upto(n))
        BY <3>2, <2>3, <1>1, <1>8, ListedIsNext
      <3> QED BY <3>1, <3>2, <1>9, <1>10
    <2>4. ASSUME S = {}, NEW n \in Matching, Listed(n)
          PROVE  n \in Read'
      <3>1. CASE Cardinality(Upto(n)) <= Span
        BY <3>1, <2>1, <2>4, <1>8
      <3>2. CASE Span < Cardinality(Upto(n))
        <4>1. Cardinality(S) < limit
          BY <2>4, <1>9, FS_EmptySet
        <4>2. S = Candidates(NextPage)
          BY <4>1, <1>1, PageIs
        <4>3. n \in Candidates(NextPage)
          BY <3>2, <2>4, <1>1, ListedIsNext
        <4> QED BY <4>2, <4>3, <2>4
      <3> QED BY <3>1, <3>2, <1>9, <1>10
    <2> QED BY <2>2, <2>3, <2>4, <1>2
  <1>16. NothingSkipped'
    <2>1. \A n \in Matching' : n \in Matching /\ Upto(n)' = Upto(n) /\ Listed(n)' = Listed(n)
      BY <1>4
    <2> QED BY <2>1, <1>3, <1>4, <1>9, <1>15 DEF NothingSkipped
  <1> QED BY <1>11, <1>13, <1>14, <1>16 DEF ListInv

(* A row that goes takes a rank away from the ones after it; any other       *)
(* change, as of a row that is added, excuses what the client sees.          *)
LEMMA EditKeeps ==
    ASSUME ListInv, NEW n \in Items, NEW k \in Keys \cup {Null, Gone}, Edit(n, k)
    PROVE  ListInv'
  <1>1. ListTypes /\ ReadComesFirst
    BY DEF ListInv
  <1>2. PICK e \in {"removed", "placed"} :
          /\ e = IF k = Gone /\ ~Tied(n) THEN "removed" ELSE "placed"
          /\ edits' = Append(edits, e)
    BY DEF Edit
  <1>3. /\ key' = [key EXCEPT ![n] = k] /\ k # key[n]
        /\ order' = order /\ limit' = limit /\ pages' = pages /\ count' = count
    BY DEF Edit
  <1>4. PICK w \in Nat : w = Len(edits)
    BY <1>1 DEF ListTypes
  <1>5. /\ edits' \in Seq({"removed", "placed"}) /\ edits' # <<>>
        /\ DOMAIN edits = 1 .. w /\ DOMAIN edits' = 1 .. (w + 1)
        /\ edits'[w + 1] = e /\ \A i \in 1 .. w : edits'[i] = edits[i]
    BY <1>1, <1>2, <1>4 DEF ListTypes
  <1>6. /\ key' \in [Items -> Keys \cup {Null, Gone}] /\ key'[n] = k
        /\ \A m \in Items : m # n => key'[m] = key[m]
    BY <1>1, <1>3 DEF ListTypes
  <1>7. ListTypes'
    BY <1>1, <1>3, <1>5, <1>6 DEF ListTypes
  <1>8. PagesInOrder' /\ NothingSkipped'
    BY <1>5 DEF PagesInOrder, NothingSkipped
  <1>9. ReadComesFirst'
    <2>1. SUFFICES ASSUME Untied', NoPlaced'
                   PROVE  /\ \A m \in Read' \cap Matching' : Cardinality(Upto(m)') <= Span'
                          /\ \A p, q \in DOMAIN pages' :
                                 p < q => pages'[p] \cap pages'[q] = {}
      BY DEF ReadComesFirst
    <2>2. e = "removed" /\ NoPlaced
      <3>1. \A i \in 1 .. (w + 1) : edits'[i] # "placed"
        BY <2>1, <1>5 DEF NoPlaced
      <3>2. edits'[w + 1] # "placed"
        BY <3>1, <1>4
      <3>3. \A i \in 1 .. w : edits[i] # "placed"
        BY <3>1, <1>4, <1>5
      <3> QED BY <3>2, <3>3, <1>5 DEF NoPlaced
    <2>3. k = Gone /\ ~Tied(n)
      BY <2>2, <1>2
    <2>4. n \in Matching /\ Matching' = Matching \ {n}
      <3>1. n \in Matching
        BY <2>3, <1>3 DEF Matching
      <3>2. \A m \in Items : m \in Matching' <=> m \in Matching /\ m # n
        BY <2>3, <1>6 DEF Matching
      <3>3. Matching \in SUBSET Items /\ Matching' \in SUBSET Items
        BY DEF Matching
      <3> QED BY <3>1, <3>2, <3>3
    <2>5. \A m \in Matching' : m \in Items /\ m \in Matching /\ m # n /\ key'[m] = key[m]
      BY <2>4, <1>6 DEF Matching
    <2>6. Untied
      <3>1. SUFFICES ASSUME NEW m \in Matching, NEW j \in Matching \ {m}, key[j] = key[m]
                     PROVE  FALSE
        BY DEF Untied, Tied
      <3>2. m # n /\ j # n
        BY <2>3, <2>4, <3>1 DEF Tied
      <3>3. m \in Matching' /\ j \in Matching' \ {m} /\ key'[j] = key'[m]
        BY <3>1, <3>2, <2>4, <2>5
      <3> QED BY <3>3, <2>1 DEF Untied, Tied
    <2>7. /\ \A m \in Read \cap Matching : Cardinality(Upto(m)) <= Span
          /\ \A p, q \in DOMAIN pages : p < q => pages[p] \cap pages[q] = {}
      BY <2>2, <2>6, <1>1 DEF ReadComesFirst
    <2>8. Read' = Read /\ Span' = Span
      BY <1>3 DEF Read, Span
    <2>9. ASSUME NEW m \in Read' \cap Matching'
          PROVE  Cardinality(Upto(m)') <= Span'
      <3>1. m \in Matching /\ m \in Read
        BY <2>5, <2>8
      <3>2. Upto(m)' \in SUBSET Upto(m)
        <4>1. \A j \in Matching' : Precedes(key[m], key[j])' <=> Precedes(key[m], key[j])
          BY <2>5, <1>3 DEF Precedes
        <4>2. \A j \in Upto(m)' : j \in Matching /\ ~Precedes(key[m], key[j])
          BY <4>1, <2>5 DEF Upto
        <4> QED BY <4>2 DEF Upto
      <3>3. /\ IsFiniteSet(Upto(m)) /\ Cardinality(Upto(m)) \in Nat
        BY <3>1, <1>1, RanksAre
      <3>4. Cardinality(Upto(m)') <= Cardinality(Upto(m)) /\ Cardinality(Upto(m)') \in Nat
        BY <3>2, <3>3, FS_Subset, FS_CardinalityType
      <3>5. Cardinality(Upto(m)) <= Span /\ Span \in Nat
        BY <3>1, <2>7, <1>1, SpanIs
      <3> QED BY <3>3, <3>4, <3>5, <2>8
    <2> QED BY <2>7, <2>9, <1>3
  <1> QED BY <1>7, <1>8, <1>9 DEF ListInv

LEMMA ListStutters ==
    ASSUME ListInv, UNCHANGED listVars
    PROVE  ListInv'
  <1>1. /\ key' = key /\ order' = order /\ limit' = limit /\ pages' = pages
        /\ count' = count /\ edits' = edits
    BY DEF listVars
  <1>2. /\ Matching' = Matching /\ Untied' = Untied /\ NoPlaced' = NoPlaced
        /\ Span' = Span /\ Read' = Read
        /\ \A n : (n \in Matching => Upto(n)' = Upto(n) /\ Listed(n)' = Listed(n))
    BY <1>1 DEF Matching, Untied, NoPlaced, Span, Read, Upto, Listed, Tied, Precedes
  <1>3. ListTypes'
    BY <1>1 DEF ListInv, ListTypes
  <1>4. ReadComesFirst'
    BY <1>1, <1>2 DEF ListInv, ReadComesFirst
  <1>5. PagesInOrder'
    BY <1>1, <1>2 DEF ListInv, PagesInOrder, Precedes
  <1>6. NothingSkipped'
    BY <1>1, <1>2 DEF ListInv, NothingSkipped
  <1> QED BY <1>3, <1>4, <1>5, <1>6 DEF ListInv

LEMMA RoundedUp ==
    ASSUME NEW c \in Nat, NEW m \in Nat \ {0}
    PROVE  \E t \in Nat : t = (c + m - 1) \div m /\ c <= m * t
  <1>1. PICK a \in Nat : a = c + m - 1
    OBVIOUS
  <1>2. PICK t \in Nat, r \in 0 .. m - 1 : t = a \div m /\ r = a % m
    BY <1>1
  <1>3. ASSUME NEW x \in Int, NEW y \in Int, x = a \div m, y = a % m
        PROVE  a = m * x + y
    BY <1>3
  <1>4. a = m * t + r
    BY <1>2, <1>3
  <1> QED BY <1>1, <1>2, <1>4

(* When the client is done, its pages reach the last row there is.           *)
LEMMA FinishedReachesAll ==
    ASSUME ListTypes, Finished
    PROVE  count <= Span
  <1>1. PICK m \in Nat \ {0} : m = limit
    BY SpanIs
  <1>2. PICK c \in Nat : c = count
    BY DEF ListTypes
  <1>3. PICK w \in Nat : w = Len(pages)
    BY SpanIs
  <1>4. PICK t \in Nat : t = (c + m - 1) \div m /\ c <= m * t
    BY <1>1, <1>2, RoundedUp
  <1>5. t <= w
    BY <1>1, <1>2, <1>3, <1>4 DEF Finished, TotalPages
  <1>7. m * t <= m * w
    BY <1>5
  <1>8. Span = m * w
    BY <1>1, <1>3 DEF Span
  <1> QED BY <1>2, <1>4, <1>7, <1>8

LEMMA ListInvIsEnough ==
    ListInv => ListingFaithful
  <1>1. SUFFICES ASSUME ListInv PROVE ListingFaithful
    OBVIOUS
  <1>2. ListTypes /\ ReadComesFirst /\ PagesInOrder /\ NothingSkipped
    BY <1>1 DEF ListInv
  <1>3. ASSUME Untied, NEW p \in DOMAIN pages, NEW q \in DOMAIN pages, p < q
        PROVE  /\ pages[p] \cap pages[q] # {} => \E i \in DOMAIN edits : edits[i] = "placed"
               /\ edits = <<>> =>
                    \A n \in pages[p], m \in pages[q] : Precedes(key[n], key[m])
    <2>1. pages[p] \cap pages[q] # {} => \E i \in DOMAIN edits : edits[i] = "placed"
      BY <1>2, <1>3 DEF ReadComesFirst, NoPlaced
    <2>2. edits = <<>> => \A n \in pages[p], m \in pages[q] : Precedes(key[n], key[m])
      BY <1>2, <1>3 DEF PagesInOrder
    <2> QED BY <2>1, <2>2
  <1>4. ASSUME edits = <<>>, Finished, NEW n \in Matching \ Read
        PROVE  Tied(n) \/ \E m \in Matching : key[m] = Null /\ (m = n \/ order = "desc")
    <2>1. SUFFICES ASSUME Listed(n) PROVE FALSE
      BY DEF Listed
    <2>2. /\ ~(Cardinality(Upto(n)) <= Span)
          /\ pages # <<>>
          /\ count = Cardinality(Matching)
      BY <1>2, <1>4, <2>1 DEF NothingSkipped, Finished
    <2>3. Upto(n) \in SUBSET Matching
      BY DEF Upto
    <2>4. Cardinality(Upto(n)) <= Cardinality(Matching)
      BY <2>3, <1>2, MatchingIs, FS_Subset
    <2>5. Cardinality(Matching) <= Span /\ Span \in Nat
      BY <2>2, <1>2, <1>4, FinishedReachesAll, SpanIs
    <2>6. Cardinality(Upto(n)) \in Nat /\ Cardinality(Matching) \in Nat
      BY <1>2, RanksAre, MatchingIs, FS_CardinalityType
    <2> QED BY <2>2, <2>4, <2>5, <2>6
  <1>5. (\A n \in Matching : ~Tied(n)) => Untied
    BY DEF Untied
  <1> QED BY <1>3, <1>4, <1>5 DEF ListingFaithful

(* What a client that reads all the pages of a listing may count on, however *)
(* many rows there are and whatever the size of a page: without rows that    *)
(* share a sort key it sees none twice unless one was added or touched in    *)
(* between, in the order it asked for when nothing changed, and then only    *)
(* misses rows that share a key or are cut off by rows that have none        *)
(* (fileQueryBuilder's keyset pages).                                        *)
THEOREM ListingIsFaithful ==
    ListSpec => []ListingFaithful
  <1>1. ListInit => ListInv
    BY ListStarts
  <1>2. ListInv /\ [ListNext]_listVars => ListInv'
    <2>1. SUFFICES ASSUME ListInv, [ListNext]_listVars PROVE ListInv'
      OBVIOUS
    <2>2. CASE ReadPage
      BY <2>1, <2>2, ReadPageKeeps
    <2>3. ASSUME NEW n \in Items, NEW k \in Keys \cup {Null, Gone}, Edit(n, k)
          PROVE  ListInv'
      BY <2>1, <2>3, EditKeeps
    <2>4. CASE UNCHANGED listVars
      BY <2>1, <2>4, ListStutters
    <2> QED BY <2>1, <2>2, <2>3, <2>4 DEF ListNext
  <1>3. ListInv => ListingFaithful
    BY ListInvIsEnough
  <1> QED BY <1>1, <1>2, <1>3, PTL DEF ListSpec
-----------------------------------------------------------------------------
(* The integrity check: the inductive invariant *)

RowRecord == [id : Ids, parts : PartLists, fits : BOOLEAN]
RunShape ==
    [ pc : CheckSteps, files : SUBSET RowRecord, last : Nat, total : Nat,
      msgs : SUBSET Msgs, spared : SUBSET Msgs, missing : SUBSET Ids,
      orphans : SUBSET PartMsgs ]
CommitShape ==
    [row : Ids, parts : PartLists, fits : BOOLEAN, clear : SUBSET PartMsgs]

CheckShapes ==
    /\ ckRows \in [Ids -> FileRow]
    /\ ckChannel \subseteq Msgs /\ ckUploads \subseteq PartMsgs
    /\ ckClient \in [sent : SUBSET PartMsgs, commit : {NoCommit} \cup CommitShape]
    /\ ck \in [run : RunShape, asked : Asked]
    /\ ckCause \in [written : SUBSET Ids, recorded : SUBSET PartMsgs, events : Nat]

(* A row is active and nobody wrote it since the run read the rows.          *)
Unwritten(i) == i \notin ckCause.written /\ Active(i)
Parts(i) == PartSet(ckRows[i].parts)
RecordOf(i) == [id |-> i, parts |-> ckRows[i].parts, fits |-> ckRows[i].fits]

(* What the run has read of such a row is the row, and it has read all of    *)
(* them up to where it is.                                                   *)
RowsRead ==
    LET run == ck.run IN
    /\ run.pc \in {"uploads", "count"} => run.files = {} /\ run.last = 0
    /\ \A f \in run.files : f.id <= run.last /\ (Unwritten(f.id) => f = RecordOf(f.id))
    /\ run.pc = "rows" =>
          \A i \in Ids : Unwritten(i) /\ i <= run.last => RecordOf(i) \in run.files
    /\ run.pc \in {"total", "history", "listed"} =>
          \A i \in Ids : Unwritten(i) => RecordOf(i) \in run.files

(* It has seen their messages, of those that are there.                      *)
MessagesSeen ==
    At("listed") =>
        \A i \in Ids : Unwritten(i) => Parts(i) \cap ckChannel \subseteq ck.run.msgs

(* It has a reason for every row it takes for incomplete, and none of its    *)
(* orphans belongs to another one.                                           *)
Harmed(i) ==
    \/ ~ckRows[i].fits
    \/ ~(Parts(i) \subseteq ckChannel)
    \/ Parts(i) \cap ck.run.spared # {}

MissingHaveCause ==
    At("pending") \/ At("mark") =>
        \A i \in Ids : Unwritten(i) =>
            IF i \in ck.run.missing THEN Harmed(i) ELSE Parts(i) \cap ck.run.orphans = {}

OrphansHaveCause ==
    /\ At("orphans") /\ Writes =>
          \A i \in Ids : Unwritten(i) => Parts(i) \cap ck.run.orphans = {}
    /\ (At("pending") \/ At("mark") \/ At("orphans")) /\ Writes =>
          ck.asked.cleanUploads \/ ck.run.orphans \cap ckUploads \subseteq ckCause.recorded

CheckInv ==
    CheckShapes /\ RowsRead /\ MessagesSeen /\ MissingHaveCause /\ OrphansHaveCause

(* A run that nobody disturbs: what it has still to do is all there is to    *)
(* repair.                                                                   *)
WholeUnless(excluded) ==
    \A i \in Ids \ excluded : Active(i) =>
        ckRows[i].fits /\ Parts(i) \subseteq ckChannel \ ck.run.orphans
ListedBy(statuses) ==
    \A m \in ckChannel \ ck.run.orphans :
        \/ m \in {ServiceMsg} \cup ckUploads
        \/ \E i \in Ids : ckRows[i].status \in statuses /\ m \in Parts(i)

QuietInv ==
    Quiet /\ Writes =>
      /\ ckCause.written = {} /\ ckClient = [sent |-> {}, commit |-> NoCommit]
      /\ ck.run.pc \in {"rows", "total", "history", "listed"} =>
            \A f \in ck.run.files : Active(f.id)
      /\ At("listed") => ck.run.msgs = ckChannel
      /\ At("pending") \/ At("mark") => WholeUnless(ck.run.missing) /\ ListedBy({"active"})
      /\ At("orphans") \/ (At("done") /\ ck.run.total > 0) =>
            WholeUnless({}) /\ ListedBy({"active", "pending_deletion"})
      /\ At("done") /\ ck.run.total > 0 => ck.run.orphans = {}

-----------------------------------------------------------------------------
(* Types *)

LEMMA PartListsAre ==
    /\ <<>> \in PartLists
    /\ \A p \in PartLists : PartSet(p) \subseteq PartMsgs
  <1>1. <<>> \in [1 .. 0 -> PartMsgs] /\ 0 \in 0 .. CheckParts
    BY ChannelCheckAssumption
  <1>2. <<>> \in PartLists
    BY <1>1 DEF PartLists
  <1>3. ASSUME NEW p \in PartLists PROVE PartSet(p) \subseteq PartMsgs
    BY DEF PartLists, PartSet
  <1> QED BY <1>2, <1>3

LEMMA NoFileIs == NoFile \in FileRow /\ [NoFile EXCEPT !.status = "purged"] \in FileRow
  BY PartListsAre DEF NoFile, FileRow

LEMMA CheckInitShapes == CheckInit => CheckInv /\ QuietInv
  <1> SUFFICES ASSUME CheckInit PROVE CheckInv /\ QuietInv
    OBVIOUS
  <1>1. ckRows \in [Ids -> FileRow]
    BY NoFileIs DEF CheckInit, FileRow
  <1>2. ckChannel \subseteq Msgs /\ ckUploads \subseteq PartMsgs
    BY DEF CheckInit, PartMsgs
  <1>3. ckClient = [sent |-> {}, commit |-> NoCommit]
    BY DEF CheckInit
  <1>4. /\ Fresh \in RunShape /\ ck.run = Fresh
        /\ ck \in [run : RunShape, asked : Asked]
    <2>1. Fresh \in RunShape
      BY DEF Fresh, RunShape, CheckSteps
    <2>2. PICK asked \in Asked : ck = [run |-> Fresh, asked |-> asked]
      BY DEF CheckInit
    <2> QED BY <2>1, <2>2
  <1>5. ckCause = [written |-> {}, recorded |-> {}, events |-> 0]
    BY DEF CheckInit
  <1>6. CheckShapes
    BY <1>1, <1>2, <1>3, <1>4, <1>5 DEF CheckShapes
  <1>7. ck.run.pc = "uploads" /\ ck.run.files = {} /\ ck.run.last = 0
    BY <1>4 DEF Fresh
  <1>8. RowsRead /\ MessagesSeen /\ MissingHaveCause /\ OrphansHaveCause
    BY <1>7 DEF RowsRead, MessagesSeen, MissingHaveCause, OrphansHaveCause, At
  <1>9. QuietInv
    BY <1>3, <1>5, <1>7 DEF QuietInv, At
  <1> QED BY <1>6, <1>8, <1>9 DEF CheckInv

(* What a step makes of the run.                                             *)
LEMMA RunTypes ==
    ASSUME CheckShapes, NEW r \in RunShape, ck' = [ck EXCEPT !.run = r]
    PROVE  /\ ck' \in [run : RunShape, asked : Asked]
           /\ ck'.run = r /\ ck'.asked = ck.asked
  BY DEF CheckShapes

LEMMA PcTypes ==
    ASSUME CheckShapes, NEW pc \in CheckSteps, ck' = [ck EXCEPT !.run.pc = pc]
    PROVE  /\ ck' \in [run : RunShape, asked : Asked] /\ ck'.asked = ck.asked
           /\ ck'.run = [ck.run EXCEPT !.pc = pc] /\ ck'.run.pc = pc
           /\ ck'.run.files = ck.run.files /\ ck'.run.last = ck.run.last
           /\ ck'.run.msgs = ck.run.msgs /\ ck'.run.missing = ck.run.missing
           /\ ck'.run.spared = ck.run.spared /\ ck'.run.orphans = ck.run.orphans
           /\ ck'.run.total = ck.run.total
  <1>1. ck.run \in RunShape /\ ck \in [run : RunShape, asked : Asked]
    BY DEF CheckShapes
  <1> DEFINE r == [ck.run EXCEPT !.pc = pc]
  <1>2. r \in RunShape
    BY <1>1 DEF RunShape
  <1>3. /\ r.pc = pc /\ r.files = ck.run.files /\ r.last = ck.run.last
        /\ r.msgs = ck.run.msgs /\ r.missing = ck.run.missing
        /\ r.spared = ck.run.spared /\ r.orphans = ck.run.orphans
        /\ r.total = ck.run.total
    BY <1>1 DEF RunShape
  <1>4. ck' = [ck EXCEPT !.run = r]
    BY <1>1
  <1> QED BY <1>2, <1>3, <1>4, RunTypes

-----------------------------------------------------------------------------
(* The server *)

(* A step of the server keeps what the run has found out if it writes no row *)
(* but those it enters into "written", brings back no message of a row, and  *)
(* enters every upload row it writes into "recorded".                        *)
LEMMA ServerKeeps ==
    ASSUME CheckInv, QuietInv, CheckShapes', ck' = ck, ckCause'.events # 0,
           \A i \in Ids : (i \notin ckCause.written' /\ Active(i)') =>
               /\ Unwritten(i) /\ ckRows'[i] = ckRows[i]
               /\ Parts(i) \cap ckChannel' \subseteq ckChannel,
           ckCause.recorded \subseteq ckCause'.recorded,
           ckUploads' \subseteq ckUploads \cup ckCause'.recorded
    PROVE  CheckInv' /\ QuietInv'
  <1>1. \A i \in Ids : Unwritten(i)' =>
            /\ Unwritten(i) /\ RecordOf(i)' = RecordOf(i) /\ Parts(i)' = Parts(i)
            /\ Parts(i) \cap ckChannel' \subseteq ckChannel
            /\ Harmed(i) => Harmed(i)'
    BY DEF Unwritten, RecordOf, Parts, Harmed
  <1>2. RowsRead'
    <2>1. \A f \in ck.run.files : f.id \in Ids
      BY DEF CheckInv, CheckShapes, RunShape, RowRecord
    <2>2. ASSUME NEW f \in ck.run.files, Unwritten(f.id)' PROVE f = RecordOf(f.id)'
      <3> DEFINE i == f.id
      <3>1. i \in Ids BY <2>1
      <3>2. f = RecordOf(i) BY <3>1, <2>2, <1>1 DEF CheckInv, RowsRead
      <3>3. Unwritten(i)' BY <2>2
      <3>4. RecordOf(i)' = RecordOf(i) BY <3>1, <3>3, <1>1
      <3> QED BY <3>2, <3>4
    <2> QED BY <2>2, <1>1 DEF CheckInv, RowsRead
  <1>3. MessagesSeen'
    BY <1>1 DEF CheckInv, MessagesSeen, At
  <1>4. MissingHaveCause'
    BY <1>1 DEF CheckInv, MissingHaveCause, At
  <1>5. OrphansHaveCause'
    BY <1>1 DEF CheckInv, OrphansHaveCause, At, Writes
  <1>6. QuietInv'
    BY DEF QuietInv, Quiet
  <1> QED BY <1>2, <1>3, <1>4, <1>5, <1>6 DEF CheckInv

LEMMA ServerStep == CheckInv /\ QuietInv /\ CheckServer => CheckInv' /\ QuietInv'
  <1> SUFFICES ASSUME CheckInv, QuietInv, CheckServer PROVE CheckInv' /\ QuietInv'
    OBVIOUS
  <1> USE DEF CheckInv
  <1>0. CheckShapes
    OBVIOUS
  <1>1. ASSUME NEW m \in PartMsgs, SendPart(m) PROVE CheckInv' /\ QuietInv'
    <2>1. /\ ckRows' = ckRows /\ ckUploads' = ckUploads /\ ck' = ck
          /\ ckChannel' = ckChannel \cup {m} /\ Moved({}, {})
          /\ ckClient' = [ckClient EXCEPT !.sent = @ \cup {m}]
          /\ \A i \in Ids : \A n \in Parts(i) : n < m
      BY <1>1 DEF SendPart, Parts
    <2>2. /\ ckCause' \in [written : SUBSET Ids, recorded : SUBSET PartMsgs, events : Nat]
          /\ ckCause'.written = ckCause.written /\ ckCause'.recorded = ckCause.recorded
          /\ ckCause'.events # 0
      BY <2>1, <1>0 DEF Moved, CheckShapes
    <2>3. CheckShapes'
      BY <2>1, <2>2, <1>0 DEF CheckShapes, PartMsgs
    <2>4. \A i \in Ids : m \notin Parts(i)
      BY <2>1 DEF PartMsgs, Msgs
    <2>5. ASSUME NEW i \in Ids, i \notin ckCause.written', Active(i)'
          PROVE  /\ Unwritten(i) /\ ckRows'[i] = ckRows[i]
                 /\ Parts(i) \cap ckChannel' \subseteq ckChannel
      BY <2>1, <2>2, <2>4, <2>5 DEF Unwritten, Active
    <2>6. ckUploads' \subseteq ckUploads \cup ckCause'.recorded
      BY <2>1
    <2> QED BY <2>1, <2>2, <2>3, <2>5, <2>6, ServerKeeps
  <1>2. ASSUME NEW m \in PartMsgs, RecordPart(m) PROVE CheckInv' /\ QuietInv'
    <2>1. /\ ckRows' = ckRows /\ ckUploads' = ckUploads \cup {m} /\ ck' = ck
          /\ ckChannel' = ckChannel /\ Moved({}, {m})
          /\ ckClient' = [ckClient EXCEPT !.sent = @ \ {m}]
      BY <1>2 DEF RecordPart
    <2>2. /\ ckCause' \in [written : SUBSET Ids, recorded : SUBSET PartMsgs, events : Nat]
          /\ ckCause'.written = ckCause.written
          /\ ckCause'.recorded = ckCause.recorded \cup {m} /\ ckCause'.events # 0
      BY <2>1, <1>0 DEF Moved, CheckShapes
    <2>3. CheckShapes'
      BY <2>1, <2>2, <1>0 DEF CheckShapes
    <2>5. ASSUME NEW i \in Ids, i \notin ckCause.written', Active(i)'
          PROVE  /\ Unwritten(i) /\ ckRows'[i] = ckRows[i]
                 /\ Parts(i) \cap ckChannel' \subseteq ckChannel
      BY <2>1, <2>2, <2>5 DEF Unwritten, Active
    <2>6. ckUploads' \subseteq ckUploads \cup ckCause'.recorded
      BY <2>1, <2>2
    <2> QED BY <2>1, <2>2, <2>3, <2>5, <2>6, ServerKeeps
  <1>3. ASSUME NEW m \in PartMsgs, LoseMessage(m) PROVE CheckInv' /\ QuietInv'
    <2>1. /\ ckRows' = ckRows /\ ckUploads' = ckUploads /\ ck' = ck
          /\ ckChannel' = ckChannel \ {m} /\ Moved({}, {}) /\ ckClient' = ckClient
      BY <1>3 DEF LoseMessage
    <2>2. /\ ckCause' \in [written : SUBSET Ids, recorded : SUBSET PartMsgs, events : Nat]
          /\ ckCause'.written = ckCause.written /\ ckCause'.recorded = ckCause.recorded
          /\ ckCause'.events # 0
      BY <2>1, <1>0 DEF Moved, CheckShapes
    <2>3. CheckShapes'
      BY <2>1, <2>2, <1>0 DEF CheckShapes
    <2>5. ASSUME NEW i \in Ids, i \notin ckCause.written', Active(i)'
          PROVE  /\ Unwritten(i) /\ ckRows'[i] = ckRows[i]
                 /\ Parts(i) \cap ckChannel' \subseteq ckChannel
      BY <2>1, <2>2, <2>5 DEF Unwritten, Active
    <2>6. ckUploads' \subseteq ckUploads \cup ckCause'.recorded
      BY <2>1
    <2> QED BY <2>1, <2>2, <2>3, <2>5, <2>6, ServerKeeps
  <1>4. ASSUME NEW i \in Ids, NEW session \in BOOLEAN, CommitLoad(i, session)
        PROVE CheckInv' /\ QuietInv'
    <2>1. /\ ckRows' = ckRows /\ ckUploads' = ckUploads /\ ck' = ck
          /\ ckChannel' = ckChannel /\ Moved({}, {})
      BY <1>4 DEF CommitLoad
    <2>2. PICK p \in PartLists : ckClient' = [ckClient EXCEPT !.commit =
              [row |-> i, parts |-> p, fits |-> TRUE,
               clear |-> IF session THEN ckUploads ELSE {}]]
      BY <1>4 DEF CommitLoad
    <2>3. /\ ckCause' \in [written : SUBSET Ids, recorded : SUBSET PartMsgs, events : Nat]
          /\ ckCause'.written = ckCause.written /\ ckCause'.recorded = ckCause.recorded
          /\ ckCause'.events # 0
      BY <2>1, <1>0 DEF Moved, CheckShapes
    <2>4. ckClient' \in [sent : SUBSET PartMsgs, commit : {NoCommit} \cup CommitShape]
      BY <2>2, <1>0 DEF CheckShapes, CommitShape
    <2>5. CheckShapes'
      BY <2>1, <2>3, <2>4, <1>0 DEF CheckShapes
    <2>6. ASSUME NEW j \in Ids, j \notin ckCause.written', Active(j)'
          PROVE  /\ Unwritten(j) /\ ckRows'[j] = ckRows[j]
                 /\ Parts(j) \cap ckChannel' \subseteq ckChannel
      BY <2>1, <2>3, <2>6 DEF Unwritten, Active
    <2>7. ckUploads' \subseteq ckUploads \cup ckCause'.recorded
      BY <2>1
    <2> QED BY <2>1, <2>3, <2>5, <2>6, <2>7, ServerKeeps
  <1>5. ASSUME CommitWrite PROVE CheckInv' /\ QuietInv'
    <2> DEFINE c == ckClient.commit
    <2>0. c \in CommitShape
      BY <1>0, <1>5 DEF CommitWrite, CheckShapes
    <2>1. /\ ckRows' = [ckRows EXCEPT ![c.row] =
                 [status |-> "active", parts |-> c.parts, fits |-> c.fits]]
          /\ ckUploads' = ckUploads \ c.clear /\ ck' = ck
          /\ ckChannel' = ckChannel /\ Moved({c.row}, {})
          /\ ckClient' = [ckClient EXCEPT !.commit = NoCommit]
      BY <1>5 DEF CommitWrite
    <2>2. c.row \in Ids /\ c.parts \in PartLists /\ c.fits \in BOOLEAN
      BY <2>0 DEF CommitShape
    <2> HIDE DEF c
    <2>3. /\ ckCause' \in [written : SUBSET Ids, recorded : SUBSET PartMsgs, events : Nat]
          /\ ckCause'.written = ckCause.written \cup {c.row}
          /\ ckCause'.recorded = ckCause.recorded /\ ckCause'.events # 0
      BY <2>1, <2>2, <1>0 DEF Moved, CheckShapes
    <2>4. CheckShapes'
      BY <2>1, <2>2, <2>3, <1>0 DEF CheckShapes, FileRow
    <2>5. ASSUME NEW i \in Ids, i \notin ckCause.written', Active(i)'
          PROVE  /\ Unwritten(i) /\ ckRows'[i] = ckRows[i]
                 /\ Parts(i) \cap ckChannel' \subseteq ckChannel
      BY <2>1, <2>3, <2>5, <1>0 DEF Unwritten, Active, CheckShapes
    <2>6. ckUploads' \subseteq ckUploads \cup ckCause'.recorded
      BY <2>1
    <2> QED BY <2>1, <2>3, <2>4, <2>5, <2>6, ServerKeeps
  <1>6. ASSUME NEW i \in Ids, MarkDeleted(i) PROVE CheckInv' /\ QuietInv'
    <2>1. /\ ckRows' = [ckRows EXCEPT ![i].status = "pending_deletion"]
          /\ ckUploads' = ckUploads /\ ck' = ck /\ ckChannel' = ckChannel
          /\ Moved({i}, {}) /\ ckClient' = ckClient
      BY <1>6 DEF MarkDeleted
    <2>2. /\ ckCause' \in [written : SUBSET Ids, recorded : SUBSET PartMsgs, events : Nat]
          /\ ckCause'.written = ckCause.written \cup {i}
          /\ ckCause'.recorded = ckCause.recorded /\ ckCause'.events # 0
      BY <2>1, <1>0 DEF Moved, CheckShapes
    <2>3. CheckShapes'
      BY <2>1, <2>2, <1>0 DEF CheckShapes, FileRow
    <2>5. ASSUME NEW j \in Ids, j \notin ckCause.written', Active(j)'
          PROVE  /\ Unwritten(j) /\ ckRows'[j] = ckRows[j]
                 /\ Parts(j) \cap ckChannel' \subseteq ckChannel
      BY <2>1, <2>2, <2>5, <1>0 DEF Unwritten, Active, CheckShapes
    <2>6. ckUploads' \subseteq ckUploads \cup ckCause'.recorded
      BY <2>1
    <2> QED BY <2>1, <2>2, <2>3, <2>5, <2>6, ServerKeeps
  <1> QED BY <1>1, <1>2, <1>3, <1>4, <1>5, <1>6 DEF CheckServer

-----------------------------------------------------------------------------
(* The batches *)

LEMMA GreatestId ==
    ASSUME NEW S \in SUBSET Ids, S # {}
    PROVE  \E x \in S : \A y \in S : y <= x
  <1> DEFINE T == {CheckRows - y : y \in S}
  <1>0. \A y \in S : CheckRows - y \in Nat
    BY ChannelCheckAssumption DEF Ids
  <1>1. T \in SUBSET Nat /\ T # {}
    BY <1>0
  <1>2. PICK t \in T : \A u \in T : t <= u
    BY <1>1, LeastNumber
  <1>3. PICK x \in S : t = CheckRows - x
    BY DEF T
  <1>4. \A y \in S : CheckRows - x <= CheckRows - y
    BY <1>2, <1>3
  <1>5. \A y \in S : y <= x
    BY <1>4, ChannelCheckAssumption DEF Ids
  <1> QED BY <1>5

(* A batch is the first rows after the last one, and one that is not full    *)
(* is all of them.                                                           *)
LEMMA NextBatchIs ==
    ASSUME ck.run.last \in Nat
    PROVE  /\ NextBatch \subseteq WantedIds
           /\ \A i \in NextBatch : i > ck.run.last
           /\ NextBatch # {} =>
                 LET l == CHOOSE i \in NextBatch : \A j \in NextBatch : j <= i
                 IN  l \in NextBatch /\ \A j \in NextBatch : j <= l
           /\ \A k \in NextBatch, i \in WantedIds :
                 ck.run.last < i /\ i <= k => i \in NextBatch
           /\ Cardinality(NextBatch) < CheckBatch =>
                 \A i \in WantedIds : ck.run.last < i => i \in NextBatch
  <1> DEFINE last == ck.run.last
             after == {i \in WantedIds : i > last}
             upTo(i) == {j \in after : j <= i}
  <1>1. NextBatch = {i \in after : Cardinality(upTo(i)) <= CheckBatch}
    BY DEF NextBatch
  <1>2. after \subseteq WantedIds /\ WantedIds \subseteq Ids /\ after \subseteq Ids
    BY DEF WantedIds
  <1>3. IsFiniteSet(Ids)
    BY FS_Interval, ChannelCheckAssumption DEF Ids
  <1>4. \A i \in Ids : /\ IsFiniteSet(upTo(i)) /\ Cardinality(upTo(i)) \in Nat
    <2> TAKE i \in Ids
    <2>1. upTo(i) \in SUBSET Ids BY <1>2
    <2>2. IsFiniteSet(upTo(i)) BY <2>1, <1>3, FS_Subset
    <2> QED BY <2>2, FS_CardinalityType
  <1>5. IsFiniteSet(NextBatch) /\ Cardinality(NextBatch) \in Nat
    <2>1. NextBatch \in SUBSET Ids BY <1>1, <1>2
    <2>2. IsFiniteSet(NextBatch) BY <2>1, <1>3, FS_Subset
    <2> QED BY <2>2, FS_CardinalityType
  <1>6. NextBatch # {} =>
            \E i \in NextBatch : \A j \in NextBatch : j <= i
    BY <1>1, <1>2, GreatestId
  <1>7. ASSUME NEW k \in NextBatch, NEW i \in after, i <= k PROVE i \in NextBatch
    <2>1. upTo(i) \in SUBSET upTo(k)
      BY <1>7, <1>1, <1>2 DEF Ids
    <2>2. k \in Ids /\ i \in Ids
      BY <1>1, <1>2
    <2>3. Cardinality(upTo(i)) <= Cardinality(upTo(k))
      BY <2>1, <2>2, <1>4, FS_Subset
    <2>4. Cardinality(upTo(k)) <= CheckBatch
      BY <1>1
    <2>5. Cardinality(upTo(i)) <= CheckBatch
      BY <2>2, <2>3, <2>4, <1>4, ChannelCheckAssumption
    <2> QED BY <2>5, <1>1
  <1>8. ASSUME Cardinality(NextBatch) < CheckBatch PROVE after \subseteq NextBatch
    <2> SUFFICES ASSUME after \ NextBatch # {} PROVE FALSE
      OBVIOUS
    <2>1. after \ NextBatch \in SUBSET Nat
      BY <1>2 DEF Ids
    <2>2. PICK i \in after \ NextBatch : \A j \in after \ NextBatch : i <= j
      BY <2>1, LeastNumber
    <2>3. i \in Ids BY <1>2
    <2>4. upTo(i) \in SUBSET (NextBatch \cup {i})
      BY <2>2, <2>3, <1>2 DEF Ids
    <2>5. IsFiniteSet(NextBatch \cup {i}) /\
          Cardinality(NextBatch \cup {i}) = Cardinality(NextBatch) + 1
      BY <1>5, <2>2, FS_AddElement
    <2>6. Cardinality(upTo(i)) <= Cardinality(NextBatch) + 1
      BY <2>4, <2>5, FS_Subset
    <2>7. Cardinality(upTo(i)) <= CheckBatch
      BY <2>3, <2>6, <1>4, <1>5, <1>8, ChannelCheckAssumption
    <2> QED BY <2>2, <2>7, <1>1
  <1> HIDE DEF upTo
  <1>9. NextBatch \subseteq after
    BY <1>1
  <1> QED BY <1>2, <1>6, <1>7, <1>8, <1>9

-----------------------------------------------------------------------------
(* The run *)

LEMMA DeleteUploads_Inv ==
    ASSUME CheckInv, QuietInv, CheckDeleteUploads PROVE CheckInv' /\ QuietInv'
  <1>0. CheckShapes BY DEF CheckInv
  <1>1. /\ At("uploads") /\ ck' = [ck EXCEPT !.run.pc = "count"]
        /\ ckRows' = ckRows /\ ckChannel' = ckChannel /\ ckClient' = ckClient
        /\ ckCause' = ckCause /\ ckUploads' \subseteq ckUploads
    BY DEF CheckDeleteUploads, Goto_Check, OthersIdle
  <1>2. /\ ck' \in [run : RunShape, asked : Asked] /\ ck'.asked = ck.asked
        /\ ck'.run.pc = "count" /\ ck'.run.files = ck.run.files
        /\ ck'.run.last = ck.run.last
    BY <1>0, <1>1, PcTypes DEF CheckSteps
  <1>3. CheckShapes'
    BY <1>0, <1>1, <1>2 DEF CheckShapes
  <1>4. ck'.run.files = {} /\ ck'.run.last = 0
    BY <1>1, <1>2 DEF CheckInv, RowsRead, At
  <1>5. RowsRead'
    BY <1>2, <1>4 DEF RowsRead
  <1>6. MessagesSeen' /\ MissingHaveCause' /\ OrphansHaveCause'
    BY <1>2 DEF MessagesSeen, MissingHaveCause, OrphansHaveCause, At
  <1>7. QuietInv'
    BY <1>1, <1>2 DEF QuietInv, At, Quiet, Writes
  <1> QED BY <1>3, <1>5, <1>6, <1>7 DEF CheckInv

LEMMA CountRows_Inv ==
    ASSUME CheckInv, QuietInv, CheckCountRows PROVE CheckInv' /\ QuietInv'
  <1>0. CheckShapes BY DEF CheckInv
  <1> DEFINE pc == IF WantedIds = {} THEN "total" ELSE "rows"
  <1>1. /\ At("count") /\ ck' = [ck EXCEPT !.run.pc = pc]
        /\ ckRows' = ckRows /\ ckChannel' = ckChannel /\ ckClient' = ckClient
        /\ ckCause' = [ckCause EXCEPT !.written = {}] /\ ckUploads' = ckUploads
    BY DEF CheckCountRows, Goto_Check
  <1>2. /\ ck' \in [run : RunShape, asked : Asked] /\ ck'.asked = ck.asked
        /\ ck'.run.pc = pc /\ ck'.run.files = ck.run.files
        /\ ck'.run.last = ck.run.last
    <2>1. pc \in CheckSteps BY DEF CheckSteps
    <2> HIDE DEF pc
    <2> QED BY <1>0, <1>1, <2>1, PcTypes
  <1>3. ckCause' \in [written : SUBSET Ids, recorded : SUBSET PartMsgs, events : Nat]
        /\ ckCause'.events = ckCause.events /\ ckCause'.written = {}
    BY <1>0, <1>1 DEF CheckShapes
  <1>4. CheckShapes'
    BY <1>0, <1>1, <1>2, <1>3 DEF CheckShapes
  <1>5. ck'.run.files = {} /\ ck'.run.last = 0
    BY <1>1, <1>2 DEF CheckInv, RowsRead, At
  <1>6. pc = "total" => \A i \in Ids : ~Active(i)
    BY DEF WantedIds, Wanted, Active
  <1>7. RowsRead'
    <2>1. ck'.run.pc = "rows" => \A i \in Ids : ~(i <= ck'.run.last)
      BY <1>5 DEF Ids
    <2>2. ck'.run.pc = "total" => \A i \in Ids : ~Unwritten(i)'
      BY <1>1, <1>2, <1>6 DEF Unwritten, Active
    <2> QED BY <1>2, <1>5, <2>1, <2>2 DEF RowsRead
  <1>8. MessagesSeen' /\ MissingHaveCause' /\ OrphansHaveCause'
    BY <1>2 DEF MessagesSeen, MissingHaveCause, OrphansHaveCause, At
  <1>9. QuietInv'
    BY <1>1, <1>2, <1>3, <1>5 DEF QuietInv, At, Quiet, Writes
  <1> QED BY <1>4, <1>7, <1>8, <1>9 DEF CheckInv

LEMMA LoadRows_Inv ==
    ASSUME CheckInv, QuietInv, CheckLoadRows PROVE CheckInv' /\ QuietInv'
  <1>0. CheckShapes /\ ck.run \in RunShape /\ ck.run.last \in Nat
    BY DEF CheckInv, CheckShapes, RunShape
  <1> DEFINE new == {[id |-> i, parts |-> ckRows[i].parts,
                      fits |-> ckRows[i].fits] : i \in NextBatch}
             l == CHOOSE i \in NextBatch : \A j \in NextBatch : j <= i
             r == [ck.run EXCEPT
                     !.files = @ \cup new, !.last = IF NextBatch = {} THEN @ ELSE l,
                     !.pc = IF Cardinality(NextBatch) < CheckBatch THEN "total" ELSE "rows"]
  <1>1. /\ At("rows") /\ ck' = [ck EXCEPT !.run = r]
        /\ ckRows' = ckRows /\ ckChannel' = ckChannel /\ ckClient' = ckClient
        /\ ckCause' = [ckCause EXCEPT !.written = @ \ NextBatch] /\ ckUploads' = ckUploads
    BY DEF CheckLoadRows, Proceed
  <1>2. /\ NextBatch \subseteq WantedIds /\ WantedIds \subseteq Ids
        /\ \A i \in NextBatch : i > ck.run.last
        /\ NextBatch # {} => l \in NextBatch /\ \A j \in NextBatch : j <= l
        /\ \A k \in NextBatch, i \in WantedIds :
              ck.run.last < i /\ i <= k => i \in NextBatch
        /\ Cardinality(NextBatch) < CheckBatch =>
              \A i \in WantedIds : ck.run.last < i => i \in NextBatch
    BY <1>0, NextBatchIs DEF WantedIds
  <1>3. /\ r.files = ck.run.files \cup new
        /\ r.last = IF NextBatch = {} THEN ck.run.last ELSE l
        /\ r.pc = IF Cardinality(NextBatch) < CheckBatch THEN "total" ELSE "rows"
    BY <1>0 DEF RunShape
  <1>4. new \subseteq RowRecord
    BY <1>0, <1>2 DEF RowRecord, CheckShapes, FileRow
  <1>5. l \in Nat \/ NextBatch = {}
    <2> HIDE DEF l
    <2>1. NextBatch # {} => l \in Ids BY <1>2
    <2> QED BY <2>1 DEF Ids
  <1>6. r \in RunShape
    <2> HIDE DEF new, l
    <2> QED BY <1>0, <1>4, <1>5 DEF RunShape, CheckSteps
  <1>7. \A f \in new : f.id \in NextBatch /\ f = RecordOf(f.id)
    BY DEF RecordOf
  <1>8. \A i \in NextBatch : RecordOf(i) \in new
    BY DEF RecordOf
  <1> HIDE DEF r, new, l
  <1>9. ck' \in [run : RunShape, asked : Asked] /\ ck'.run = r /\ ck'.asked = ck.asked
    BY <1>0, <1>1, <1>6, RunTypes
  <1>10. /\ ckCause' \in [written : SUBSET Ids, recorded : SUBSET PartMsgs, events : Nat]
         /\ ckCause'.events = ckCause.events
         /\ ckCause'.written = ckCause.written \ NextBatch
    BY <1>0, <1>1 DEF CheckShapes
  <1>11. CheckShapes'
    BY <1>0, <1>1, <1>9, <1>10 DEF CheckShapes
  <1>12. /\ \A i \in Ids : Unwritten(i)' => Unwritten(i) \/ i \in NextBatch
         /\ \A i \in Ids : RecordOf(i)' = RecordOf(i)
         /\ \A i \in Ids : Unwritten(i)' => i \in WantedIds
    BY <1>1, <1>10 DEF Unwritten, RecordOf, Active, WantedIds, Wanted
  <1>13. RowsRead'
    <2>1. \A f \in ck.run.files : f.id \in Ids /\ f.id <= ck.run.last
      BY <1>0 DEF CheckInv, RowsRead, RunShape, RowRecord
    <2>2. ck.run.last <= r.last
      <3>1. NextBatch # {} => l \in Ids /\ l > ck.run.last BY <1>2
      <3> QED BY <3>1, <1>0, <1>3 DEF Ids
    <2>3. ASSUME NEW f \in ck.run.files
          PROVE  f.id <= r.last /\ (Unwritten(f.id)' => f = RecordOf(f.id)')
      <3> DEFINE i == f.id
      <3>1. i \in Ids /\ i <= ck.run.last BY <2>1
      <3>2. i \notin NextBatch BY <3>1, <1>2, <1>0 DEF Ids
      <3>3. Unwritten(i) => f = RecordOf(i) BY DEF CheckInv, RowsRead
      <3>4. i <= r.last BY <3>1, <2>2, <1>0, <1>6 DEF RunShape, Ids
      <3> HIDE DEF i
      <3>5. Unwritten(i)' => f = RecordOf(i)' BY <3>1, <3>2, <3>3, <1>12
      <3> QED BY <3>4, <3>5 DEF i
    <2>4. ASSUME NEW f \in new
          PROVE  f.id <= r.last /\ (Unwritten(f.id)' => f = RecordOf(f.id)')
      <3> DEFINE i == f.id
      <3>1. i \in NextBatch /\ f = RecordOf(i) BY <1>7
      <3>2. i <= r.last BY <3>1, <1>2, <1>3
      <3> HIDE DEF i
      <3>3. f = RecordOf(i)' BY <3>1, <1>2, <1>12
      <3> QED BY <3>2, <3>3 DEF i
    <2>5. ASSUME NEW i \in Ids, Unwritten(i)', i <= ck.run.last
          PROVE  RecordOf(i)' \in r.files
      <3>1. i \notin NextBatch BY <2>5, <1>2, <1>0 DEF Ids
      <3>2. Unwritten(i) BY <3>1, <2>5, <1>12
      <3>3. RecordOf(i) \in ck.run.files BY <2>5, <3>2, <1>1 DEF CheckInv, RowsRead, At
      <3> QED BY <3>3, <1>3, <1>12
    <2>6. ASSUME NEW i \in Ids, Unwritten(i)', i <= r.last \/ r.pc = "total"
          PROVE  RecordOf(i)' \in r.files
      <3>1. CASE i <= ck.run.last BY <3>1, <2>5, <2>6
      <3>2. CASE i > ck.run.last
        <4>1. i \in WantedIds BY <2>6, <1>12
        <4>2. CASE r.pc = "total"
          <5>1. i \in NextBatch BY <4>1, <4>2, <3>2, <1>2, <1>3, <1>0 DEF Ids
          <5> QED BY <5>1, <1>8, <1>3, <1>12
        <4>3. CASE i <= r.last
          <5>1. NextBatch # {} BY <4>3, <3>2, <1>3, <1>0 DEF Ids
          <5>2. i \in NextBatch BY <5>1, <4>1, <4>3, <3>2, <1>2, <1>3, <1>0 DEF Ids
          <5> QED BY <5>2, <1>8, <1>3, <1>12
        <4> QED BY <2>6, <4>2, <4>3
      <3> QED BY <3>1, <3>2, <1>0 DEF Ids
    <2>7. r.pc \in {"rows", "total"}
      BY <1>3
    <2>8. \A f \in r.files : f.id <= r.last /\ (Unwritten(f.id)' => f = RecordOf(f.id)')
      BY <1>3, <2>3, <2>4
    <2> QED BY <1>9, <2>6, <2>7, <2>8 DEF RowsRead
  <1>14. MessagesSeen' /\ MissingHaveCause' /\ OrphansHaveCause'
    BY <1>9, <1>3 DEF MessagesSeen, MissingHaveCause, OrphansHaveCause, At
  <1>15. QuietInv'
    <2> SUFFICES ASSUME (Quiet /\ Writes)'
                 PROVE  /\ ckCause'.written = {} /\ ckClient' = [sent |-> {}, commit |-> NoCommit]
                        /\ \A f \in r.files : Active(f.id)'
      BY <1>9, <1>3 DEF QuietInv, At
    <2>1. Quiet /\ Writes
      BY <1>9, <1>10 DEF Quiet, Writes
    <2>2. /\ ckCause.written = {} /\ ckClient = [sent |-> {}, commit |-> NoCommit]
          /\ \A f \in ck.run.files : Active(f.id)
      BY <2>1, <1>1 DEF QuietInv, At
    <2>3. \A i \in WantedIds : Active(i)
      BY <2>1 DEF WantedIds, Wanted, Writes, Active
    <2>4. \A f \in r.files : Active(f.id)
      BY <1>2, <1>3, <1>7, <2>2, <2>3
    <2>5. \A f \in r.files : Active(f.id)'
      BY <2>4, <1>1 DEF Active
    <2> QED BY <2>2, <2>5, <1>1, <1>10
  <1> QED BY <1>11, <1>13, <1>14, <1>15 DEF CheckInv

LEMMA Total_Inv ==
    ASSUME CheckInv, QuietInv, CheckTotal PROVE CheckInv' /\ QuietInv'
  <1>0. CheckShapes /\ ck.run \in RunShape
    BY DEF CheckInv, CheckShapes
  <1> DEFINE total == Cardinality(ckChannel)
             pc == IF ckChannel = {} THEN "done" ELSE "history"
             r == [ck.run EXCEPT !.total = total, !.pc = pc]
  <1>1. /\ At("total") /\ ck' = [ck EXCEPT !.run = r]
        /\ ckRows' = ckRows /\ ckChannel' = ckChannel /\ ckClient' = ckClient
        /\ ckCause' = ckCause /\ ckUploads' = ckUploads
    BY DEF CheckTotal, Proceed, OthersIdle
  <1>2. total \in Nat /\ (ckChannel = {} => total = 0)
    <2>1. IsFiniteSet(Msgs) BY FS_Interval, ChannelCheckAssumption DEF Msgs
    <2>2. IsFiniteSet(ckChannel) BY <2>1, <1>0, FS_Subset DEF CheckShapes
    <2>3. Cardinality(ckChannel) \in Nat BY <2>2, FS_CardinalityType
    <2> QED BY <2>3, FS_EmptySet
  <1> HIDE DEF total
  <1>3. /\ r \in RunShape /\ r.pc = pc /\ r.total = total
        /\ r.files = ck.run.files /\ r.last = ck.run.last
    BY <1>0, <1>2 DEF RunShape, CheckSteps
  <1> HIDE DEF r
  <1>4. ck' \in [run : RunShape, asked : Asked] /\ ck'.run = r /\ ck'.asked = ck.asked
    BY <1>0, <1>1, <1>3, RunTypes
  <1>5. CheckShapes'
    BY <1>0, <1>1, <1>4 DEF CheckShapes
  <1>6. \A i \in Ids : Unwritten(i)' = Unwritten(i) /\ RecordOf(i)' = RecordOf(i)
    BY <1>1 DEF Unwritten, Active, RecordOf
  <1>7. \A f \in ck.run.files : Unwritten(f.id)' = Unwritten(f.id) /\ RecordOf(f.id)' = RecordOf(f.id)
    BY <1>1 DEF Unwritten, Active, RecordOf
  <1>8. RowsRead'
    BY <1>1, <1>3, <1>4, <1>6, <1>7 DEF RowsRead, CheckInv, At
  <1>9. MessagesSeen' /\ MissingHaveCause' /\ OrphansHaveCause'
    BY <1>3, <1>4 DEF MessagesSeen, MissingHaveCause, OrphansHaveCause, At
  <1>10. QuietInv'
    <2>1. ~(At("done") /\ ck.run.total > 0)'
      BY <1>2, <1>3, <1>4 DEF At
    <2>2. ck'.run.pc \in {"history", "done"}
      BY <1>3, <1>4
    <2>3. \A f \in ck.run.files : Active(f.id)' = Active(f.id)
      BY <1>1 DEF Active
    <2> QED BY <1>1, <1>3, <1>4, <2>1, <2>2, <2>3 DEF QuietInv, At, Quiet, Writes
  <1> QED BY <1>5, <1>8, <1>9, <1>10 DEF CheckInv

LEMMA LoadHistory_Inv ==
    ASSUME CheckInv, QuietInv, CheckLoadHistory PROVE CheckInv' /\ QuietInv'
  <1>0. CheckShapes /\ ck.run \in RunShape
    BY DEF CheckInv, CheckShapes
  <1> DEFINE pc == IF Cardinality(ckChannel) < ck.run.total THEN "failed" ELSE "listed"
             r == [ck.run EXCEPT !.msgs = ckChannel, !.pc = pc]
  <1>1. /\ At("history") /\ ck' = [ck EXCEPT !.run = r]
        /\ ckRows' = ckRows /\ ckChannel' = ckChannel /\ ckClient' = ckClient
        /\ ckCause' = ckCause /\ ckUploads' = ckUploads
    BY DEF CheckLoadHistory, Proceed, OthersIdle
  <1>3. /\ r \in RunShape /\ r.pc \in {"failed", "listed"} /\ r.msgs = ckChannel
        /\ r.files = ck.run.files /\ r.last = ck.run.last
    <2>1. pc \in {"failed", "listed"} OBVIOUS
    <2> HIDE DEF pc
    <2> QED BY <2>1, <1>0 DEF RunShape, CheckSteps, CheckShapes
  <1> HIDE DEF r
  <1>4. ck' \in [run : RunShape, asked : Asked] /\ ck'.run = r /\ ck'.asked = ck.asked
    BY <1>0, <1>1, <1>3, RunTypes
  <1>5. CheckShapes'
    BY <1>0, <1>1, <1>4 DEF CheckShapes
  <1>6. \A i \in Ids : Unwritten(i)' = Unwritten(i) /\ RecordOf(i)' = RecordOf(i)
    BY <1>1 DEF Unwritten, Active, RecordOf
  <1>7. \A f \in ck.run.files : Unwritten(f.id)' = Unwritten(f.id) /\ RecordOf(f.id)' = RecordOf(f.id)
    BY <1>1 DEF Unwritten, Active, RecordOf
  <1>8. RowsRead'
    BY <1>1, <1>3, <1>4, <1>6, <1>7 DEF RowsRead, CheckInv, At
  <1>9. MessagesSeen'
    BY <1>1, <1>3, <1>4 DEF MessagesSeen
  <1>10. MissingHaveCause' /\ OrphansHaveCause'
    BY <1>3, <1>4 DEF MissingHaveCause, OrphansHaveCause, At
  <1>11. QuietInv'
    <2>1. \A f \in ck.run.files : Active(f.id)' = Active(f.id)
      BY <1>1 DEF Active
    <2> QED BY <1>1, <1>3, <1>4, <2>1 DEF QuietInv, At, Quiet, Writes
  <1> QED BY <1>5, <1>8, <1>9, <1>10, <1>11 DEF CheckInv

(* A row that the run takes for complete has all its messages among those it *)
(* looked up.                                                                *)
LEMMA CompleteIsKnown ==
    ASSUME NEW f \in RowRecord, NEW msgs \in SUBSET Msgs, ~Incomplete(f, msgs)
    PROVE  f.fits /\ PartSet(f.parts) \subseteq msgs /\ LookedUp(f, msgs) = PartSet(f.parts)
  <1>1. f.fits /\ PartSet(f.parts) \subseteq msgs
    BY DEF Incomplete
  <1>2. PICK k \in 0 .. CheckParts : f.parts \in [1 .. k -> PartMsgs]
    BY DEF RowRecord, PartLists
  <1>3. ASSUME NEW j \in DOMAIN f.parts, NEW i \in 1 .. j - 1 PROVE f.parts[i] \in msgs
    <2>1. i \in DOMAIN f.parts BY <1>2, <1>3, ChannelCheckAssumption
    <2> QED BY <2>1, <1>1 DEF PartSet
  <1>4. LookedUp(f, msgs) = PartSet(f.parts)
    BY <1>3 DEF LookedUp, PartSet
  <1> QED BY <1>1, <1>4

LEMMA LookedUpIs ==
    ASSUME NEW f, NEW msgs PROVE LookedUp(f, msgs) \subseteq PartSet(f.parts)
  BY DEF LookedUp, PartSet

LEMMA Compare_Inv ==
    ASSUME CheckInv, QuietInv, CheckCompare PROVE CheckInv' /\ QuietInv'
  <1>0. CheckShapes /\ ck.run \in RunShape
    BY DEF CheckInv, CheckShapes
  <1> DEFINE msgs == ck.run.msgs \ Spared
             known == UNION {LookedUp(f, msgs) : f \in ck.run.files}
             missing == {f.id : f \in {g \in ck.run.files : Incomplete(g, msgs)}}
             orphans == msgs \ (known \cup {ServiceMsg})
             r == [ck.run EXCEPT !.spared = Spared, !.missing = missing,
                                 !.orphans = orphans, !.pc = "pending"]
  <1>1. /\ At("listed") /\ ck' = [ck EXCEPT !.run = r]
        /\ ckRows' = ckRows /\ ckChannel' = ckChannel /\ ckClient' = ckClient
        /\ ckCause' = [ckCause EXCEPT !.recorded = {}] /\ ckUploads' = ckUploads
    BY DEF CheckCompare, Proceed
  <1>2. /\ msgs \in SUBSET Msgs /\ Spared \in SUBSET Msgs /\ orphans \in SUBSET PartMsgs
        /\ missing \in SUBSET Ids /\ ck.run.files \subseteq RowRecord
    <2>1. ck.run.files \subseteq RowRecord /\ ck.run.msgs \subseteq Msgs
      BY <1>0 DEF RunShape
    <2>2. Spared \in SUBSET Msgs
      BY <1>0 DEF Spared, CheckShapes, PartMsgs
    <2>3. missing \in SUBSET Ids
      BY <2>1 DEF RowRecord
    <2>4. orphans \in SUBSET PartMsgs
      BY <2>1 DEF PartMsgs
    <2> QED BY <2>1, <2>2, <2>3, <2>4
  <1>3. /\ \A f \in ck.run.files : IF Incomplete(f, msgs) THEN f.id \in missing
                                   ELSE LookedUp(f, msgs) \cap orphans = {}
        /\ \A i \in missing : \E f \in ck.run.files : f.id = i /\ Incomplete(f, msgs)
        /\ orphans \cap Spared = {} /\ orphans \subseteq msgs /\ msgs \subseteq ck.run.msgs
        /\ \A m \in ck.run.msgs \ orphans :
              m \in Spared \cup {ServiceMsg} \/ \E f \in ck.run.files : m \in LookedUp(f, msgs)
        /\ msgs \cap Spared = {} /\ \A m \in ck.run.msgs \ msgs : m \in Spared
    OBVIOUS
  <1> HIDE DEF known, missing, orphans, msgs
  <1>4. /\ r \in RunShape /\ r.pc = "pending" /\ r.spared = Spared /\ r.missing = missing
        /\ r.orphans = orphans /\ r.files = ck.run.files /\ r.last = ck.run.last
    BY <1>0, <1>2 DEF RunShape, CheckSteps
  <1> HIDE DEF r
  <1>5. ck' \in [run : RunShape, asked : Asked] /\ ck'.run = r /\ ck'.asked = ck.asked
    BY <1>0, <1>1, <1>4, RunTypes
  <1>6. /\ ckCause' \in [written : SUBSET Ids, recorded : SUBSET PartMsgs, events : Nat]
        /\ ckCause'.events = ckCause.events /\ ckCause'.written = ckCause.written
    BY <1>0, <1>1 DEF CheckShapes
  <1>7. CheckShapes'
    BY <1>0, <1>1, <1>5, <1>6 DEF CheckShapes
  <1>8. \A i \in Ids : Unwritten(i)' = Unwritten(i) /\ RecordOf(i)' = RecordOf(i)
    BY <1>1, <1>6 DEF Unwritten, Active, RecordOf
  <1>9. \A f \in ck.run.files : Unwritten(f.id)' = Unwritten(f.id) /\ RecordOf(f.id)' = RecordOf(f.id)
    BY <1>1, <1>6 DEF Unwritten, Active, RecordOf
  <1>10. RowsRead'
    BY <1>4, <1>5, <1>9 DEF RowsRead, CheckInv
  <1>11. MessagesSeen' /\ OrphansHaveCause'
    <2>1. Writes => ck.asked.cleanUploads \/ orphans \cap ckUploads = {}
      BY <1>3 DEF Spared
    <2> QED BY <2>1, <1>1, <1>4, <1>5 DEF MessagesSeen, OrphansHaveCause, At, Writes
  <1>12. ASSUME NEW i \in Ids, Unwritten(i)
         PROVE  /\ i \in missing =>
                     \/ ~ckRows[i].fits
                     \/ ~(Parts(i) \subseteq ckChannel)
                     \/ Parts(i) \cap Spared # {}
                /\ i \notin missing => /\ Parts(i) \cap orphans = {} /\ ckRows[i].fits
                                       /\ Parts(i) \subseteq ck.run.msgs
    <2>1. RecordOf(i) \in ck.run.files
      BY <1>1, <1>12 DEF CheckInv, RowsRead, At
    <2>2. /\ RecordOf(i).id = i /\ PartSet(RecordOf(i).parts) = Parts(i)
          /\ RecordOf(i).fits = ckRows[i].fits
      BY DEF RecordOf, Parts
    <2>3. Parts(i) \cap ckChannel \subseteq ck.run.msgs
      BY <1>1, <1>12 DEF CheckInv, MessagesSeen
    <2>4. ASSUME i \in missing
          PROVE  ~ckRows[i].fits \/ ~(Parts(i) \subseteq ckChannel) \/ Parts(i) \cap Spared # {}
      <3>1. PICK f \in ck.run.files : f.id = i /\ Incomplete(f, msgs)
        BY <1>3, <2>4
      <3>2. f = RecordOf(i)
        BY <3>1, <1>12 DEF CheckInv, RowsRead
      <3>3. ~ckRows[i].fits \/ ~(Parts(i) \subseteq msgs)
        BY <3>1, <3>2, <2>2 DEF Incomplete
      <3> QED BY <3>3, <2>3, <1>3
    <2>5. ASSUME i \notin missing
          PROVE  /\ Parts(i) \cap orphans = {} /\ ckRows[i].fits
                 /\ Parts(i) \subseteq ck.run.msgs
      <3>1. ~Incomplete(RecordOf(i), msgs)
        BY <2>1, <2>2, <2>5, <1>3
      <3>2. /\ ckRows[i].fits /\ Parts(i) \subseteq msgs
            /\ LookedUp(RecordOf(i), msgs) = Parts(i)
        BY <3>1, <2>1, <2>2, <1>2, CompleteIsKnown
      <3> QED BY <3>1, <3>2, <2>1, <1>3
    <2> QED BY <2>4, <2>5
  <1>13. MissingHaveCause'
    <2>1. \A i \in Ids : Unwritten(i)' = Unwritten(i) /\ Parts(i)' = Parts(i)
      BY <1>1, <1>8 DEF Parts
    <2>2. \A i \in Ids : Unwritten(i) /\ i \in missing => Harmed(i)'
      BY <1>1, <1>4, <1>5, <1>12, <2>1 DEF Harmed
    <2> QED BY <1>4, <1>5, <1>12, <2>1, <2>2 DEF MissingHaveCause
  <1>14. QuietInv'
    <2> SUFFICES ASSUME (Quiet /\ Writes)'
                 PROVE  /\ ckCause'.written = {} /\ ckClient' = [sent |-> {}, commit |-> NoCommit]
                        /\ WholeUnless(ck.run.missing)' /\ ListedBy({"active"})'
      BY <1>4, <1>5 DEF QuietInv, At
    <2>1. Quiet /\ Writes
      BY <1>5, <1>6 DEF Quiet, Writes
    <2>2. /\ ckCause.written = {} /\ ckClient = [sent |-> {}, commit |-> NoCommit]
          /\ ck.run.msgs = ckChannel /\ \A f \in ck.run.files : Active(f.id)
      BY <2>1, <1>1 DEF QuietInv, At
    <2>3. ASSUME NEW i \in Ids, Active(i), i \notin missing
          PROVE  ckRows[i].fits /\ Parts(i) \subseteq ckChannel \ orphans
      BY <2>2, <2>3, <1>12 DEF Unwritten
    <2>4. WholeUnless(ck.run.missing)'
      BY <2>3, <1>1, <1>4, <1>5 DEF WholeUnless, Parts, Active
    <2>5. ASSUME NEW m \in ckChannel \ orphans
          PROVE  \/ m \in {ServiceMsg} \cup ckUploads
                 \/ \E i \in Ids : ckRows[i].status \in {"active"} /\ m \in Parts(i)
      <3>1. CASE m \in Spared \cup {ServiceMsg}
        BY <3>1 DEF Spared
      <3>2. CASE \E f \in ck.run.files : m \in LookedUp(f, msgs)
        <4>1. PICK f \in ck.run.files : m \in LookedUp(f, msgs)
          BY <3>2
        <4> DEFINE i == f.id
        <4>2. i \in Ids /\ Active(i)
          BY <2>2, <1>2 DEF RowRecord
        <4>3. f = RecordOf(i)
          BY <4>2, <2>2 DEF Unwritten, CheckInv, RowsRead
        <4>4. m \in PartSet(f.parts)
          BY <4>1, LookedUpIs
        <4>5. m \in Parts(i)
          BY <4>3, <4>4 DEF RecordOf, Parts
        <4> QED BY <4>2, <4>5 DEF Active
      <3> QED BY <2>2, <1>3, <3>1, <3>2
    <2>6. ListedBy({"active"})'
      BY <2>5, <1>1, <1>4, <1>5 DEF ListedBy, Parts
    <2> QED BY <2>2, <2>4, <2>6, <1>1, <1>6
  <1> QED BY <1>7, <1>10, <1>11, <1>13, <1>14 DEF CheckInv

LEMMA DeletePending_Inv ==
    ASSUME CheckInv, QuietInv, CheckDeletePending PROVE CheckInv' /\ QuietInv'
  <1>0. CheckShapes
    BY DEF CheckInv
  <1>1. /\ At("pending") /\ ck' = [ck EXCEPT !.run.pc = "mark"]
        /\ ckChannel' = ckChannel /\ ckClient' = ckClient
        /\ ckCause' = ckCause /\ ckUploads' = ckUploads
        /\ ckRows' = [i \in Ids |->
             IF ckRows[i].status = "pending_deletion" /\ ck.asked.cleanPending /\ Writes
             THEN [NoFile EXCEPT !.status = "purged"] ELSE ckRows[i]]
    BY DEF CheckDeletePending, Goto_Check, OthersIdle
  <1>2. /\ ck' \in [run : RunShape, asked : Asked] /\ ck'.asked = ck.asked
        /\ ck'.run.pc = "mark" /\ ck'.run.files = ck.run.files
        /\ ck'.run.last = ck.run.last /\ ck'.run.missing = ck.run.missing
        /\ ck'.run.spared = ck.run.spared /\ ck'.run.orphans = ck.run.orphans
    BY <1>0, <1>1, PcTypes DEF CheckSteps
  <1>3. /\ ckRows' \in [Ids -> FileRow]
        /\ \A i \in Ids : /\ Active(i)' = Active(i)
                          /\ Active(i) => ckRows'[i] = ckRows[i]
    BY <1>0, <1>1, NoFileIs DEF CheckShapes, Active, NoFile
  <1>4. CheckShapes'
    BY <1>0, <1>1, <1>2, <1>3 DEF CheckShapes
  <1>5. \A i \in Ids : /\ Unwritten(i)' = Unwritten(i)
                       /\ Unwritten(i) => /\ RecordOf(i)' = RecordOf(i) /\ Parts(i)' = Parts(i)
                                          /\ Harmed(i)' = Harmed(i)
    BY <1>1, <1>2, <1>3 DEF Unwritten, RecordOf, Parts, Harmed
  <1>6. RowsRead'
    <2>1. \A f \in ck.run.files : f.id \in Ids
      BY <1>0 DEF CheckShapes, RunShape, RowRecord
    <2>2. ASSUME NEW f \in ck.run.files, Unwritten(f.id)' PROVE f = RecordOf(f.id)'
      <3> DEFINE i == f.id
      <3>1. i \in Ids BY <2>1
      <3>2. Unwritten(i)' BY <2>2
      <3>3. Unwritten(i) /\ RecordOf(i)' = RecordOf(i) BY <3>1, <3>2, <1>5
      <3>4. f = RecordOf(i) BY <3>3 DEF CheckInv, RowsRead
      <3> QED BY <3>3, <3>4
    <2> QED BY <1>2, <2>2 DEF CheckInv, RowsRead
  <1>7. MessagesSeen'
    BY <1>2 DEF MessagesSeen, At
  <1>8. MissingHaveCause'
    BY <1>1, <1>2, <1>5 DEF CheckInv, MissingHaveCause, At
  <1>9. OrphansHaveCause'
    BY <1>1, <1>2 DEF CheckInv, OrphansHaveCause, At, Writes
  <1>10. QuietInv'
    <2> SUFFICES ASSUME (Quiet /\ Writes)'
                 PROVE  /\ ckCause'.written = {} /\ ckClient' = [sent |-> {}, commit |-> NoCommit]
                        /\ WholeUnless(ck.run.missing)' /\ ListedBy({"active"})'
      BY <1>2 DEF QuietInv, At
    <2>1. /\ ckCause.written = {} /\ ckClient = [sent |-> {}, commit |-> NoCommit]
          /\ WholeUnless(ck.run.missing) /\ ListedBy({"active"})
      BY <1>1, <1>2 DEF QuietInv, At, Quiet, Writes
    <2>2. WholeUnless(ck.run.missing)'
      BY <2>1, <1>1, <1>2, <1>3 DEF WholeUnless, Parts
    <2>3. ListedBy({"active"})'
      BY <2>1, <1>1, <1>2, <1>3 DEF ListedBy, Parts, Active
    <2> QED BY <2>1, <2>2, <2>3, <1>1
  <1> QED BY <1>4, <1>6, <1>7, <1>8, <1>9, <1>10 DEF CheckInv

LEMMA MarkMissing_Inv ==
    ASSUME CheckInv, QuietInv, CheckMarkMissing PROVE CheckInv' /\ QuietInv'
  <1>0. CheckShapes
    BY DEF CheckInv
  <1>1. /\ At("mark") /\ ck' = [ck EXCEPT !.run.pc = "orphans"]
        /\ ckChannel' = ckChannel /\ ckClient' = ckClient
        /\ ckCause' = ckCause /\ ckUploads' = ckUploads
        /\ ckRows' = [i \in Ids |->
             IF i \in ck.run.missing /\ Writes /\ ckRows[i].status # "purged"
             THEN [ckRows[i] EXCEPT !.status = "pending_deletion"] ELSE ckRows[i]]
    BY DEF CheckMarkMissing, Goto_Check, OthersIdle
  <1>2. /\ ck' \in [run : RunShape, asked : Asked] /\ ck'.asked = ck.asked
        /\ ck'.run.pc = "orphans" /\ ck'.run.files = ck.run.files
        /\ ck'.run.last = ck.run.last /\ ck'.run.orphans = ck.run.orphans
    BY <1>0, <1>1, PcTypes DEF CheckSteps
  <1>3. /\ ckRows' \in [Ids -> FileRow]
        /\ \A i \in Ids : /\ ckRows'[i].parts = ckRows[i].parts
                          /\ ckRows'[i].fits = ckRows[i].fits
                          /\ Active(i)' => Active(i) /\ (Writes => i \notin ck.run.missing)
                          /\ Active(i) => ckRows'[i].status \in {"active", "pending_deletion"}
    BY <1>0, <1>1 DEF CheckShapes, Active, FileRow
  <1>4. CheckShapes'
    BY <1>0, <1>1, <1>2, <1>3 DEF CheckShapes
  <1>5. \A i \in Ids : /\ Unwritten(i)' => Unwritten(i) /\ (Writes => i \notin ck.run.missing)
                       /\ RecordOf(i)' = RecordOf(i) /\ Parts(i)' = Parts(i)
    BY <1>1, <1>3 DEF Unwritten, RecordOf, Parts
  <1>6. RowsRead'
    <2>1. \A f \in ck.run.files : f.id \in Ids
      BY <1>0 DEF CheckShapes, RunShape, RowRecord
    <2>2. ASSUME NEW f \in ck.run.files, Unwritten(f.id)' PROVE f = RecordOf(f.id)'
      <3> DEFINE i == f.id
      <3>1. i \in Ids BY <2>1
      <3>2. Unwritten(i)' BY <2>2
      <3>3. Unwritten(i) /\ RecordOf(i)' = RecordOf(i) BY <3>1, <3>2, <1>5
      <3>4. f = RecordOf(i) BY <3>3 DEF CheckInv, RowsRead
      <3> QED BY <3>3, <3>4
    <2> QED BY <1>2, <2>2 DEF CheckInv, RowsRead
  <1>7. MessagesSeen' /\ MissingHaveCause'
    BY <1>2 DEF MessagesSeen, MissingHaveCause, At
  <1>8. OrphansHaveCause'
    <2>1. ASSUME Writes, NEW i \in Ids, Unwritten(i)' PROVE Parts(i)' \cap ck.run.orphans = {}
      BY <2>1, <1>1, <1>5 DEF CheckInv, MissingHaveCause
    <2>2. Writes' = Writes
      BY <1>2 DEF Writes
    <2>3. Writes =>
          ck.asked.cleanUploads \/ ck.run.orphans \cap ckUploads \subseteq ckCause.recorded
      BY <1>1 DEF CheckInv, OrphansHaveCause
    <2> QED BY <1>1, <1>2, <2>1, <2>2, <2>3 DEF OrphansHaveCause, At
  <1>9. QuietInv'
    <2> SUFFICES ASSUME (Quiet /\ Writes)'
                 PROVE  /\ ckCause'.written = {} /\ ckClient' = [sent |-> {}, commit |-> NoCommit]
                        /\ WholeUnless({})' /\ ListedBy({"active", "pending_deletion"})'
      BY <1>2 DEF QuietInv, At
    <2>1. /\ ckCause.written = {} /\ ckClient = [sent |-> {}, commit |-> NoCommit]
          /\ WholeUnless(ck.run.missing) /\ ListedBy({"active"}) /\ Writes
      BY <1>1, <1>2 DEF QuietInv, At, Quiet, Writes
    <2>2. WholeUnless({})'
      BY <2>1, <1>1, <1>2, <1>3 DEF WholeUnless, Parts
    <2>3. ListedBy({"active", "pending_deletion"})'
      BY <2>1, <1>1, <1>2, <1>3 DEF ListedBy, Parts, Active
    <2> QED BY <2>1, <2>2, <2>3, <1>1
  <1> QED BY <1>4, <1>6, <1>7, <1>8, <1>9 DEF CheckInv

(* A step that leaves the rows and what is known of them alone.              *)
LEMMA RowsStayRead ==
    ASSUME RowsRead, ckRows' = ckRows, ckCause' = ckCause,
           ck'.run.files = ck.run.files, ck'.run.last = ck.run.last,
           ck'.run.pc \in {"orphans", "done", "failed"}
    PROVE  RowsRead'
  <1>1. \A f \in ck.run.files : Unwritten(f.id)' = Unwritten(f.id) /\ RecordOf(f.id)' = RecordOf(f.id)
    BY DEF Unwritten, Active, RecordOf
  <1> QED BY <1>1 DEF RowsRead

LEMMA DeleteOrphans_Inv ==
    ASSUME CheckInv, QuietInv, NEW batch \in SUBSET Msgs, CheckDeleteOrphans(batch)
    PROVE  CheckInv' /\ QuietInv'
  <1>0. CheckShapes /\ ck.run \in RunShape
    BY DEF CheckInv, CheckShapes
  <1>1. /\ At("orphans") /\ ckRows' = ckRows /\ ckClient' = ckClient
        /\ ckCause' = ckCause /\ ckUploads' = ckUploads
    BY DEF CheckDeleteOrphans, OthersIdle
  <1>2. \A i \in Ids : Unwritten(i)' = Unwritten(i) /\ Parts(i)' = Parts(i) /\ Active(i)' = Active(i)
    BY <1>1 DEF Unwritten, Active, Parts
  <1>3. CASE ck.run.orphans = {} \/ ~Writes
    <2>1. ck' = [ck EXCEPT !.run.pc = "done"] /\ ckChannel' = ckChannel
      BY <1>3 DEF CheckDeleteOrphans, Goto_Check
    <2>2. /\ ck' \in [run : RunShape, asked : Asked] /\ ck'.asked = ck.asked
          /\ ck'.run.pc = "done" /\ ck'.run.files = ck.run.files
          /\ ck'.run.last = ck.run.last /\ ck'.run.orphans = ck.run.orphans
          /\ ck'.run.total = ck.run.total
      BY <1>0, <2>1, PcTypes DEF CheckSteps
    <2>3. CheckShapes'
      BY <1>0, <1>1, <2>1, <2>2 DEF CheckShapes
    <2>4. RowsRead'
      BY <1>1, <2>2, RowsStayRead DEF CheckInv
    <2>5. MessagesSeen' /\ MissingHaveCause' /\ OrphansHaveCause'
      BY <2>2 DEF MessagesSeen, MissingHaveCause, OrphansHaveCause, At
    <2>6. QuietInv'
      <3> SUFFICES ASSUME (Quiet /\ Writes)'
                   PROVE  /\ ckCause'.written = {}
                          /\ ckClient' = [sent |-> {}, commit |-> NoCommit]
                          /\ WholeUnless({})' /\ ListedBy({"active", "pending_deletion"})'
                          /\ ck'.run.orphans = {}
        BY <2>2 DEF QuietInv, At
      <3>1. /\ ckCause.written = {} /\ ckClient = [sent |-> {}, commit |-> NoCommit]
            /\ WholeUnless({}) /\ ListedBy({"active", "pending_deletion"})
            /\ ck.run.orphans = {}
        BY <1>1, <1>3, <2>2 DEF QuietInv, At, Quiet, Writes
      <3>2. WholeUnless({})'
        BY <3>1, <1>1, <2>1, <2>2 DEF WholeUnless, Parts, Active
      <3>3. ListedBy({"active", "pending_deletion"})'
        BY <3>1, <1>1, <2>1, <2>2 DEF ListedBy, Parts
      <3> QED BY <3>1, <3>2, <3>3, <1>1, <2>2
    <2> QED BY <2>3, <2>4, <2>5, <2>6 DEF CheckInv
  <1>4. CASE ~(ck.run.orphans = {} \/ ~Writes)
    <2> DEFINE r == [ck.run EXCEPT !.orphans = @ \ batch]
    <2>1. /\ ck' = [ck EXCEPT !.run = r] /\ ckChannel' = ckChannel \ batch
          /\ batch \subseteq ck.run.orphans
      BY <1>4 DEF CheckDeleteOrphans, Proceed
    <2>2. /\ r \in RunShape /\ r.orphans = ck.run.orphans \ batch /\ r.pc = "orphans"
          /\ r.files = ck.run.files /\ r.last = ck.run.last
      BY <1>0, <1>1 DEF RunShape, At
    <2> HIDE DEF r
    <2>3. ck' \in [run : RunShape, asked : Asked] /\ ck'.run = r /\ ck'.asked = ck.asked
      BY <1>0, <2>1, <2>2, RunTypes
    <2>4. CheckShapes'
      BY <1>0, <1>1, <2>1, <2>3 DEF CheckShapes
    <2>5. RowsRead'
      BY <1>1, <2>2, <2>3, RowsStayRead DEF CheckInv
    <2>6. MessagesSeen' /\ MissingHaveCause'
      BY <2>2, <2>3 DEF MessagesSeen, MissingHaveCause, At
    <2>7. OrphansHaveCause'
      BY <1>1, <1>2, <2>2, <2>3 DEF CheckInv, OrphansHaveCause, At, Writes
    <2>8. QuietInv'
      <3> SUFFICES ASSUME (Quiet /\ Writes)'
                   PROVE  /\ ckCause'.written = {}
                          /\ ckClient' = [sent |-> {}, commit |-> NoCommit]
                          /\ WholeUnless({})' /\ ListedBy({"active", "pending_deletion"})'
        BY <2>2, <2>3 DEF QuietInv, At
      <3>1. /\ ckCause.written = {} /\ ckClient = [sent |-> {}, commit |-> NoCommit]
            /\ WholeUnless({}) /\ ListedBy({"active", "pending_deletion"})
        BY <1>1, <2>3 DEF QuietInv, At, Quiet, Writes
      <3>2. ckChannel' \ ck'.run.orphans = ckChannel \ ck.run.orphans
        BY <2>1, <2>2, <2>3
      <3>3. WholeUnless({})'
        BY <3>1, <3>2, <1>1, <1>2 DEF WholeUnless
      <3>4. ListedBy({"active", "pending_deletion"})'
        BY <3>1, <3>2, <1>1, <1>2 DEF ListedBy
      <3> QED BY <3>1, <3>3, <3>4, <1>1
    <2> QED BY <2>4, <2>5, <2>6, <2>7, <2>8 DEF CheckInv
  <1> QED BY <1>3, <1>4

LEMMA Fail_Inv ==
    ASSUME CheckInv, QuietInv, CheckFail PROVE CheckInv' /\ QuietInv'
  <1>0. CheckShapes
    BY DEF CheckInv
  <1>1. /\ ck' = [ck EXCEPT !.run.pc = "failed"]
        /\ ckRows' = ckRows /\ ckChannel' = ckChannel /\ ckClient' = ckClient
        /\ ckCause' = ckCause /\ ckUploads' = ckUploads
    BY DEF CheckFail, Goto_Check, OthersIdle
  <1>2. /\ ck' \in [run : RunShape, asked : Asked] /\ ck'.asked = ck.asked
        /\ ck'.run.pc = "failed" /\ ck'.run.files = ck.run.files
        /\ ck'.run.last = ck.run.last
    BY <1>0, <1>1, PcTypes DEF CheckSteps
  <1>3. CheckShapes'
    BY <1>0, <1>1, <1>2 DEF CheckShapes
  <1>4. RowsRead'
    BY <1>1, <1>2, RowsStayRead DEF CheckInv
  <1>5. MessagesSeen' /\ MissingHaveCause' /\ OrphansHaveCause'
    BY <1>2 DEF MessagesSeen, MissingHaveCause, OrphansHaveCause, At
  <1>6. QuietInv'
    BY <1>1, <1>2 DEF QuietInv, At, Quiet, Writes
  <1> QED BY <1>3, <1>4, <1>5, <1>6 DEF CheckInv

LEMMA CheckStep ==
    CheckInv /\ QuietInv /\ [CheckNext]_checkVars => CheckInv' /\ QuietInv'
  <1> SUFFICES ASSUME CheckInv, QuietInv, [CheckNext]_checkVars PROVE CheckInv' /\ QuietInv'
    OBVIOUS
  <1>1. CASE CheckRun
    BY <1>1, DeleteUploads_Inv, CountRows_Inv, LoadRows_Inv, Total_Inv, LoadHistory_Inv,
       Compare_Inv, DeletePending_Inv, MarkMissing_Inv, DeleteOrphans_Inv, Fail_Inv
    DEF CheckRun
  <1>2. CASE CheckServer
    BY <1>2, ServerStep
  <1>3. CASE UNCHANGED checkVars
    <2>1. /\ ckRows' = ckRows /\ ckChannel' = ckChannel /\ ckUploads' = ckUploads
          /\ ckClient' = ckClient /\ ck' = ck /\ ckCause' = ckCause
      BY <1>3 DEF checkVars
    <2>2. CheckInv'
      BY <2>1 DEF CheckInv, CheckShapes, RowsRead, MessagesSeen, MissingHaveCause,
                  OrphansHaveCause, Unwritten, Active, RecordOf, Parts, Harmed, At, Writes
    <2>3. QuietInv'
      BY <2>1 DEF QuietInv, Quiet, Writes, At, WholeUnless, ListedBy, Parts, Active
    <2> QED BY <2>2, <2>3
  <1> QED BY <1>1, <1>2, <1>3 DEF CheckNext

(* What the check knows of rows, messages and uploads stays as it says.      *)
THEOREM CheckInvHolds == CheckSpec => [](CheckInv /\ QuietInv)
  BY CheckInitShapes, CheckStep, PTL DEF CheckSpec

(* CheckTypeOK, for any number of rows, messages and parts.                  *)
THEOREM CheckTypes == CheckSpec => []CheckTypeOK
  <1>1. CheckInv => CheckTypeOK
    BY DEF CheckInv, CheckShapes, CheckTypeOK, RunShape
  <1> QED BY <1>1, CheckInvHolds, PTL

(* A run of the check that nobody disturbs repairs the channel.              *)
THEOREM QuietRunRepairsHolds == CheckSpec => []QuietRunRepairs
  <1>1. QuietInv => QuietRunRepairs
    <2> SUFFICES ASSUME QuietInv, At("done"), Quiet, Writes, ck.run.total > 0
                 PROVE  /\ \A i \in Ids : Active(i) =>
                             ckRows[i].fits /\ PartSet(ckRows[i].parts) \subseteq ckChannel
                        /\ ckChannel \subseteq {ServiceMsg} \cup ckUploads \cup
                             UNION {PartSet(ckRows[i].parts) :
                                      i \in {j \in Ids : ckRows[j].status \in
                                                           {"active", "pending_deletion"}}}
      BY DEF QuietRunRepairs
    <2>1. /\ WholeUnless({}) /\ ListedBy({"active", "pending_deletion"})
          /\ ck.run.orphans = {}
      BY DEF QuietInv
    <2>2. \A i \in Ids : Active(i) =>
                ckRows[i].fits /\ PartSet(ckRows[i].parts) \subseteq ckChannel
      BY <2>1 DEF WholeUnless, Parts
    <2>3. ASSUME NEW m \in ckChannel
          PROVE  m \in {ServiceMsg} \cup ckUploads \cup
                          UNION {PartSet(ckRows[i].parts) :
                                   i \in {j \in Ids : ckRows[j].status \in
                                                        {"active", "pending_deletion"}}}
      BY <2>1 DEF ListedBy, Parts
    <2> QED BY <2>2, <2>3
  <1> QED BY <1>1, CheckInvHolds, PTL

LEMMA HarmStep ==
    ASSUME CheckInv, CheckRun
    PROVE  /\ ck.asked.dry => UNCHANGED <<ckRows, ckChannel, ckUploads>>
           /\ \A i \in Ids \ ckCause.written :
                (Active(i) /\ ckRows'[i].status # "active") =>
                   \/ ~ckRows[i].fits
                   \/ ~(PartSet(ckRows[i].parts) \subseteq ckChannel)
                   \/ PartSet(ckRows[i].parts) \cap ck.run.spared # {}
           /\ \A m \in ckChannel \ ckChannel' :
                /\ \A i \in Ids \ ckCause.written :
                      Active(i) => m \notin PartSet(ckRows[i].parts)
                /\ m \in ckUploads => m \in ckCause.recorded \/ ck.asked.cleanUploads
  <1>0. ckRows \in [Ids -> FileRow]
    BY DEF CheckInv, CheckShapes
  <1>1. CASE CheckDeleteUploads
    BY <1>1 DEF CheckDeleteUploads, Writes, Active
  <1>2. CASE \/ CheckCountRows \/ CheckLoadRows \/ CheckTotal \/ CheckLoadHistory
             \/ CheckCompare \/ CheckFail
    <2>1. ckRows' = ckRows /\ ckChannel' = ckChannel /\ ckUploads' = ckUploads
      BY <1>2 DEF CheckCountRows, CheckLoadRows, CheckTotal, CheckLoadHistory,
                  CheckCompare, CheckFail
    <2> QED BY <2>1 DEF Active
  <1>3. CASE CheckDeletePending
    <2>1. ckChannel' = ckChannel /\ ckUploads' = ckUploads
      BY <1>3 DEF CheckDeletePending
    <2>2. /\ \A i \in Ids : Active(i) => ckRows'[i].status = "active"
          /\ ck.asked.dry => ckRows' = ckRows
      BY <1>0, <1>3 DEF CheckDeletePending, Active, Writes
    <2> QED BY <2>1, <2>2
  <1>4. CASE CheckMarkMissing
    <2>1. ckChannel' = ckChannel /\ ckUploads' = ckUploads /\ At("mark")
      BY <1>4 DEF CheckMarkMissing
    <2>2. /\ \A i \in Ids : Active(i) /\ ckRows'[i].status # "active" => i \in ck.run.missing
          /\ ck.asked.dry => ckRows' = ckRows
      BY <1>0, <1>4 DEF CheckMarkMissing, Active, Writes
    <2>3. \A i \in Ids \ ckCause.written :
             Active(i) /\ i \in ck.run.missing => Harmed(i)
      BY <2>1 DEF CheckInv, MissingHaveCause, Unwritten
    <2> QED BY <2>1, <2>2, <2>3 DEF Harmed, Parts
  <1>5. CASE \E batch \in SUBSET Msgs : CheckDeleteOrphans(batch)
    <2>1. /\ At("orphans") /\ ckRows' = ckRows /\ ckUploads' = ckUploads
          /\ ckChannel \ ckChannel' \subseteq ck.run.orphans
          /\ ~Writes => ckChannel' = ckChannel
      BY <1>5 DEF CheckDeleteOrphans
    <2>2. Writes =>
            /\ \A i \in Ids \ ckCause.written : Active(i) => Parts(i) \cap ck.run.orphans = {}
            /\ ck.asked.cleanUploads \/ ck.run.orphans \cap ckUploads \subseteq ckCause.recorded
      BY <2>1 DEF CheckInv, OrphansHaveCause, Unwritten
    <2> QED BY <2>1, <2>2 DEF Parts, Writes, Active
  <1> QED BY <1>1, <1>2, <1>3, <1>4, <1>5, CheckRun DEF CheckRun

(* A step of the check marks a row, or deletes a message, only for a cause,  *)
(* however its reads and the steps of the server fall.                       *)
THEOREM HarmHasCauseHolds == CheckSpec => HarmHasCause
  <1>1. CheckInv /\ [CheckNext]_checkVars =>
          [ck' # ck /\ CheckRun =>
             /\ ck.asked.dry => UNCHANGED <<ckRows, ckChannel, ckUploads>>
             /\ \A i \in Ids \ ckCause.written :
                  (Active(i) /\ ckRows'[i].status # "active") =>
                     \/ ~ckRows[i].fits
                     \/ ~(PartSet(ckRows[i].parts) \subseteq ckChannel)
                     \/ PartSet(ckRows[i].parts) \cap ck.run.spared # {}
             /\ \A m \in ckChannel \ ckChannel' :
                  /\ \A i \in Ids \ ckCause.written :
                        Active(i) => m \notin PartSet(ckRows[i].parts)
                  /\ m \in ckUploads => m \in ckCause.recorded \/ ck.asked.cleanUploads
          ]_checkVars
    BY HarmStep
  <1> QED BY <1>1, CheckInvHolds, PTL DEF CheckSpec, HarmHasCause

-----------------------------------------------------------------------------
(* The composition that is model-checked *)

(* Its behaviours are behaviours of the tree and of the check: a component   *)
(* that is not looked at stays in an initial state of its own.               *)
LEMMA NoTreeIsInitial == NoTree => TreeInit
  <1> SUFFICES ASSUME NoTree PROVE TreeInit
    OBVIOUS
  <1> DEFINE start == [n \in 2 .. StartNodes |-> UnusedRow]
  <1>1. start \in [2 .. StartNodes -> StartRows]
    BY DEF StartRows
  <1>2. \A n \in Nodes \ {Root} :
           n \in DOMAIN start => start[n] = UnusedRow
    OBVIOUS
  <1> HIDE DEF start
  <1>3. rows = [n \in Nodes |-> IF n = Root THEN RootRow
                               ELSE IF n \in DOMAIN start THEN start[n] ELSE UnusedRow]
    BY <1>2 DEF NoTree
  <1>4. Root \in Nodes
    BY FileTreeAssumption DEF Root, Nodes
  <1>5. Grown(rows)
    <2>1. \A n \in Nodes : rows[n] = IF n = Root THEN RootRow ELSE UnusedRow
      BY DEF NoTree
    <2>2. \A n \in Nodes \ {Root}, m \in Nodes : m > n => m # Root
      BY FileTreeAssumption DEF Root, Nodes
    <2> QED BY <2>1, <2>2, <1>4 DEF Grown
  <1> QED BY <1>1, <1>3, <1>5 DEF NoTree, TreeInit

LEMMA NoCheckIsInitial == NoCheck => CheckInit
  <1> SUFFICES ASSUME NoCheck PROVE CheckInit
    OBVIOUS
  <1> DEFINE asked == [dry |-> FALSE, cleanUploads |-> FALSE, cleanPending |-> FALSE]
  <1>1. /\ ckRows \in [Ids -> {NoFile} \cup
                  [status : {"active", "pending_deletion"},
                   parts : PartLists, fits : BOOLEAN]]
        /\ \A i \in Ids : ckRows[i] = NoFile
    BY DEF NoCheck
  <1>2. \A i \in Ids : ckRows[i].status # "pending_deletion"
    BY <1>1 DEF NoFile
  <1>3. asked \in Asked /\ ck = [run |-> Fresh, asked |-> asked]
    BY DEF NoCheck, Asked
  <1> HIDE DEF asked
  <1> QED BY <1>1, <1>2, <1>3 DEF NoCheck, CheckInit

LEMMA RunsTree == MCSpec => TreeSpec
  <1>1. MCInit => TreeInit
    BY NoTreeIsInitial DEF MCInit
  <1>2. [MCNext]_storageVars => [TreeNext]_treeVars
    BY DEF MCNext, storageVars
  <1> QED BY <1>1, <1>2, PTL DEF MCSpec, TreeSpec

LEMMA RunsCheck == MCSpec => CheckSpec
  <1>1. MCInit => CheckInit
    BY NoCheckIsInitial DEF MCInit
  <1>2. [MCNext]_storageVars => [CheckNext]_checkVars
    BY DEF MCNext, storageVars
  <1> QED BY <1>1, <1>2, PTL DEF MCSpec, CheckSpec

(* The rows of the folder tree, the requests on them, and the state of the   *)
(* integrity check stay within their types, whatever the services of file.go *)
(* and cmd/check.go do at the same time.                                     *)
THEOREM StorageTyped == MCSpec => []StorageTypeOK
  <1> QED BY RunsTree, RunsCheck, TreeTypes, CheckTypes, PTL DEF StorageTypeOK
=============================================================================
