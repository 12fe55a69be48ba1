---------------------------- MODULE FileTreeProofs ----------------------------
(* Proofs about the folder tree, for every value of the constants: however   *)
(* many rows, names, requests and calls there are, and whatever requests     *)
(* run at the same time.                                                     *)
EXTENDS FileTree, FiniteSetTheorems, WellFoundedInduction, TLAPS

LEMMA LeastNumber ==
    ASSUME NEW S \in SUBSET Nat, S # {}
    PROVE  \E x \in S : \A y \in S : x <= y
  <1> DEFINE R == {p \in Nat \X Nat : p[1] < p[2]}
  <1>1. IsWellFoundedOn(R, Nat)
    BY NatLessThanWellFounded DEF OpToRel
  <1> HIDE DEF R
  <1>2. PICK x \in S : \A y \in S : ~(<<y, x>> \in R)
    BY <1>1, WFMin
  <1>3. \A y \in S : ~(y < x)
    BY <1>2 DEF R
  <1> QED BY <1>3

LEMMA LeastUpTo ==
    ASSUME NEW m \in Nat, NEW S \in SUBSET (0 .. m), S # {}
    PROVE  \E x \in S : \A y \in S : x <= y
  <1>1. S \in SUBSET Nat
    OBVIOUS
  <1> QED BY <1>1, LeastNumber

-----------------------------------------------------------------------------
(* The recursive queries *)

Below(v, T, A) == {n \in T : v[n].parent \in A}

(* g holds the levels of Down as far as m.                                   *)
Levels(g, m, v, S, T) ==
    g = [k \in 0 .. m |-> IF k = 0 THEN S \cap T ELSE g[k - 1] \cup Below(v, T, g[k - 1])]

LEMMA LevelsExist ==
    ASSUME NEW v, NEW S, NEW T, NEW m \in Nat
    PROVE  \E g : Levels(g, m, v, S, T)
  <1> DEFINE Bad == {j \in Nat : ~\E g : Levels(g, j, v, S, T)}
  <1>1. SUFFICES ASSUME Bad # {} PROVE FALSE
    OBVIOUS
  <1>2. PICK j \in Bad : \A i \in Bad : j <= i
    BY <1>1, LeastNumber
  <1>3. CASE j = 0
    <2> DEFINE g == [k \in 0 .. 0 |-> S \cap T]
    <2>1. Levels(g, 0, v, S, T)
      BY DEF Levels
    <2> QED BY <2>1, <1>2, <1>3
  <1>4. CASE j # 0
    <2>1. j \in Nat /\ j - 1 \in Nat /\ j - 1 \notin Bad
      BY <1>2, <1>4
    <2>2. PICK h : Levels(h, j - 1, v, S, T)
      BY <2>1
    <2> DEFINE last == h[j - 1] \cup Below(v, T, h[j - 1])
               g == [k \in 0 .. j |-> IF k = j THEN last ELSE h[k]]
    <2> HIDE DEF last
    <2>3. ASSUME NEW k \in 0 .. j
          PROVE  g[k] = IF k = 0 THEN S \cap T ELSE g[k - 1] \cup Below(v, T, g[k - 1])
      <3>1. CASE k = j
        <4>1. g[k] = last /\ k # 0 /\ g[k - 1] = h[j - 1]
          BY <3>1, <2>1, <1>4
        <4> QED BY <4>1 DEF last
      <3>2. CASE k # j
        <4>1. k \in 0 .. j - 1 /\ g[k] = h[k]
          BY <3>2, <2>1
        <4>2. h[k] = IF k = 0 THEN S \cap T ELSE h[k - 1] \cup Below(v, T, h[k - 1])
          BY <4>1, <2>2 DEF Levels
        <4>3. k # 0 => g[k - 1] = h[k - 1]
          BY <4>1, <2>1
        <4> QED BY <4>1, <4>2, <4>3
      <3> QED BY <3>1, <3>2
    <2>4. g = [k \in 0 .. j |-> IF k = 0 THEN S \cap T
                                         ELSE g[k - 1] \cup Below(v, T, g[k - 1])]
      <3> DEFINE f == [k \in 0 .. j |-> IF k = 0 THEN S \cap T
                                                 ELSE g[k - 1] \cup Below(v, T, g[k - 1])]
      <3>1. DOMAIN g = 0 .. j /\ DOMAIN f = 0 .. j
        OBVIOUS
      <3>2. \A k \in 0 .. j : g[k] = f[k]
        BY <2>3
      <3>3. g = [k \in 0 .. j |-> g[k]] /\ f = [k \in 0 .. j |-> f[k]]
        OBVIOUS
      <3> HIDE DEF g, f
      <3>4. g = f
        BY <3>2, <3>3
      <3> QED BY <3>4 DEF f
    <2>5. Levels(g, j, v, S, T)
      <3> HIDE DEF g
      <3> QED BY <2>4 DEF Levels
    <2> QED BY <2>5, <1>2
  <1> QED BY <1>3, <1>4

LEMMA DownIsLastLevel ==
    ASSUME NEW v, NEW S, NEW T
    PROVE  \E g : Levels(g, MaxNodes, v, S, T) /\ Down(v, S, T) = g[MaxNodes]
  <1> DEFINE L == CHOOSE g : Levels(g, MaxNodes, v, S, T)
  <1>1. MaxNodes \in Nat
    BY FileTreeAssumption
  <1>2. Levels(L, MaxNodes, v, S, T)
    BY <1>1, LevelsExist
  <1>3. Down(v, S, T) = L[MaxNodes]
    BY DEF Down, Levels, Below
  <1> QED BY <1>2, <1>3

LEMMA LevelsAre ==
    ASSUME NEW v, NEW S, NEW T, NEW g, NEW m \in Nat, Levels(g, m, v, S, T)
    PROVE  /\ g[0] = S \cap T
           /\ \A k \in 1 .. m : g[k] = g[k - 1] \cup Below(v, T, g[k - 1])
  <1> DEFINE e(k) == IF k = 0 THEN S \cap T ELSE g[k - 1] \cup Below(v, T, g[k - 1])
  <1>1. g = [k \in 0 .. m |-> e(k)]
    BY DEF Levels
  <1>2. e(0) = S \cap T /\ \A k \in 1 .. m : e(k) = g[k - 1] \cup Below(v, T, g[k - 1])
    OBVIOUS
  <1> HIDE DEF e
  <1>3. \A k \in 0 .. m : g[k] = e(k)
    BY <1>1
  <1>4. 0 \in 0 .. m /\ \A k \in 1 .. m : k \in 0 .. m
    OBVIOUS
  <1> QED BY <1>2, <1>3, <1>4

(* After as many steps as there are rows the levels grow no more.            *)
LEMMA LevelsSettle ==
    ASSUME NEW v, NEW S, NEW T \in SUBSET Nodes, NEW g, Levels(g, MaxNodes, v, S, T)
    PROVE  /\ \A k \in 0 .. MaxNodes : S \cap T \subseteq g[k] /\ g[k] \subseteq T
           /\ Below(v, T, g[MaxNodes]) \subseteq g[MaxNodes]
  <1>0. MaxNodes \in Nat \ {0}
    BY FileTreeAssumption
  <1>1. /\ g[0] = S \cap T
        /\ \A k \in 1 .. MaxNodes : g[k] = g[k - 1] \cup Below(v, T, g[k - 1])
    BY <1>0, LevelsAre
  <1>2. \A A : Below(v, T, A) \subseteq T
    BY DEF Below
  <1>3. \A k \in 0 .. MaxNodes : S \cap T \subseteq g[k] /\ g[k] \subseteq T
    <2> DEFINE Bad == {k \in 0 .. MaxNodes : ~(S \cap T \subseteq g[k] /\ g[k] \subseteq T)}
    <2>1. SUFFICES ASSUME Bad # {} PROVE FALSE
      OBVIOUS
    <2>2. PICK k \in Bad : \A i \in Bad : k <= i
      <3>1. Bad \in SUBSET (0 .. MaxNodes)
        OBVIOUS
      <3> HIDE DEF Bad
      <3> QED BY <3>1, <2>1, <1>0, LeastUpTo
    <2>3. k # 0
      BY <1>1
    <2>4. k - 1 \in 0 .. MaxNodes /\ k - 1 \notin Bad /\ k \in 1 .. MaxNodes
      BY <2>2, <2>3, <1>0
    <2>5. S \cap T \subseteq g[k - 1] /\ g[k - 1] \subseteq T
      BY <2>4
    <2> QED BY <2>4, <2>5, <1>1, <1>2
  <1> DEFINE Settled(k) == Below(v, T, g[k]) \subseteq g[k]
  <1>4. ASSUME NEW k \in 1 .. MaxNodes, Settled(k - 1) PROVE Settled(k)
    <2>1. g[k] = g[k - 1]
      BY <1>1, <1>4
    <2> QED BY <2>1, <1>4
  <1>5. ASSUME ~Settled(MaxNodes) PROVE FALSE
    <2>1. \A k \in 0 .. MaxNodes : ~Settled(k)
      <3> DEFINE Bad == {j \in 0 .. MaxNodes : Settled(MaxNodes - j)}
      <3>1. SUFFICES ASSUME Bad # {} PROVE FALSE
        <4>1. SUFFICES ASSUME NEW k \in 0 .. MaxNodes, Settled(k) PROVE Bad # {}
          BY <3>1
        <4>2. MaxNodes - k \in 0 .. MaxNodes /\ MaxNodes - (MaxNodes - k) = k
          BY <1>0
        <4> HIDE DEF Settled
        <4>3. MaxNodes - k \in Bad
          BY <4>1, <4>2
        <4> QED BY <4>3
      <3>2. PICK j \in Bad : \A i \in Bad : j <= i
        <4>1. Bad \in SUBSET (0 .. MaxNodes)
          OBVIOUS
        <4> HIDE DEF Bad
        <4> QED BY <4>1, <3>1, <1>0, LeastUpTo
      <3> HIDE DEF Settled
      <3>3. j # 0
        BY <1>5, <1>0
      <3>4. j - 1 \in 0 .. MaxNodes /\ MaxNodes - j + 1 = MaxNodes - (j - 1)
            /\ MaxNodes - (j - 1) \in 1 .. MaxNodes
            /\ (MaxNodes - (j - 1)) - 1 = MaxNodes - j
        BY <3>3, <1>0
      <3>5. Settled(MaxNodes - (j - 1))
        BY <3>4, <1>4
      <3>6. j - 1 \in Bad
        BY <3>4, <3>5
      <3> QED BY <3>2, <3>6
    <2>2. IsFiniteSet(Nodes) /\ Cardinality(Nodes) = MaxNodes
      BY <1>0, FS_Interval DEF Nodes
    <2>3. \A k \in 0 .. MaxNodes : IsFiniteSet(g[k]) /\ Cardinality(g[k]) \in Nat
                                   /\ Cardinality(g[k]) <= MaxNodes
      <3> TAKE k \in 0 .. MaxNodes
      <3>1. g[k] \in SUBSET Nodes
        BY <1>3
      <3> QED BY <3>1, <2>2, FS_Subset, FS_CardinalityType
    <2>4. \A k \in 0 .. MaxNodes : Cardinality(g[k]) > k
      <3> DEFINE Bad == {k \in 0 .. MaxNodes : ~(Cardinality(g[k]) > k)}
      <3>1. SUFFICES ASSUME Bad # {} PROVE FALSE
        OBVIOUS
      <3>2. PICK k \in Bad : \A i \in Bad : k <= i
        <4>1. Bad \in SUBSET (0 .. MaxNodes)
          OBVIOUS
        <4> HIDE DEF Bad
        <4> QED BY <4>1, <3>1, <1>0, LeastUpTo
      <3>3. CASE k = 0
        <4>1. g[0] # {}
          <5>1. Below(v, T, g[0]) # {}
            BY <2>1, <1>0
          <5> QED BY <5>1 DEF Below
        <4>2. Cardinality(g[0]) # 0
          BY <4>1, <2>3, <1>0, FS_EmptySet
        <4>3. Cardinality(g[0]) \in Nat
          BY <2>3, <1>0
        <4> QED BY <3>2, <3>3, <4>2, <4>3
      <3>4. CASE k # 0
        <4>1. k - 1 \in 0 .. MaxNodes /\ k - 1 \notin Bad /\ k \in 1 .. MaxNodes
          BY <3>2, <3>4, <1>0
        <4>2. Cardinality(g[k - 1]) > k - 1
          BY <4>1
        <4>3. PICK n : n \in Below(v, T, g[k - 1]) /\ n \notin g[k - 1]
          BY <4>1, <2>1
        <4>4. g[k - 1] \cup {n} \subseteq g[k]
          BY <4>1, <4>3, <1>1
        <4>5. Cardinality(g[k - 1] \cup {n}) = Cardinality(g[k - 1]) + 1
          BY <4>1, <4>3, <2>3, FS_AddElement
        <4>6. Cardinality(g[k - 1] \cup {n}) <= Cardinality(g[k])
          BY <4>1, <4>4, <2>3, FS_Subset
        <4>7. PICK a \in Nat, b \in Nat : a = Cardinality(g[k - 1]) /\ b = Cardinality(g[k])
          BY <4>1, <2>3
        <4>8. a + 1 <= b /\ a > k - 1
          BY <4>2, <4>5, <4>6, <4>7
        <4>9. b > k
          BY <4>1, <4>7, <4>8
        <4> QED BY <4>7, <4>9, <3>2
      <3> QED BY <3>3, <3>4
    <2>5. Cardinality(g[MaxNodes]) > MaxNodes /\ Cardinality(g[MaxNodes]) <= MaxNodes
      BY <2>3, <2>4, <1>0
    <2> QED BY <2>3, <2>5, <1>0
  <1> QED BY <1>3, <1>5

(* What a recursive query returns: the least set that has the rows it begins *)
(* with, and with a row its children, as far as they are in T.               *)
LEMMA DownIs ==
    ASSUME NEW v, NEW S, NEW T \in SUBSET Nodes
    PROVE  /\ Down(v, S, T) \subseteq T
           /\ S \cap T \subseteq Down(v, S, T)
           /\ \A n \in T : v[n].parent \in Down(v, S, T) => n \in Down(v, S, T)
  <1>1. PICK g : Levels(g, MaxNodes, v, S, T) /\ Down(v, S, T) = g[MaxNodes]
    BY DownIsLastLevel
  <1>2. MaxNodes \in 0 .. MaxNodes
    BY FileTreeAssumption
  <1>3. S \cap T \subseteq g[MaxNodes] /\ g[MaxNodes] \subseteq T
    BY <1>1, <1>2, LevelsSettle
  <1>4. Below(v, T, g[MaxNodes]) \subseteq g[MaxNodes]
    BY <1>1, LevelsSettle
  <1> QED BY <1>1, <1>3, <1>4 DEF Below

LEMMA DownIsLeast ==
    ASSUME NEW v, NEW S, NEW T \in SUBSET Nodes, NEW X,
           S \cap T \subseteq X,
           \A n \in T : v[n].parent \in X => n \in X
    PROVE  Down(v, S, T) \subseteq X
  <1>1. PICK g : Levels(g, MaxNodes, v, S, T) /\ Down(v, S, T) = g[MaxNodes]
    BY DownIsLastLevel
  <1>2. MaxNodes \in Nat
    BY FileTreeAssumption
  <1>3. /\ g[0] = S \cap T
        /\ \A k \in 1 .. MaxNodes : g[k] = g[k - 1] \cup Below(v, T, g[k - 1])
    BY <1>1, <1>2, LevelsAre
  <1> DEFINE Bad == {k \in 0 .. MaxNodes : ~(g[k] \subseteq X)}
  <1>4. Bad = {}
    <2>1. SUFFICES ASSUME Bad # {} PROVE FALSE
      OBVIOUS
    <2>2. PICK k \in Bad : \A i \in Bad : k <= i
      <3>1. Bad \in SUBSET (0 .. MaxNodes)
        OBVIOUS
      <3> HIDE DEF Bad
      <3> QED BY <3>1, <2>1, <1>2, LeastUpTo
    <2>3. k # 0
      BY <1>3
    <2>4. k - 1 \in 0 .. MaxNodes /\ k - 1 \notin Bad /\ k \in 1 .. MaxNodes
      BY <2>2, <2>3, <1>2
    <2>5. g[k - 1] \subseteq X
      BY <2>4
    <2>6. Below(v, T, g[k - 1]) \subseteq X
      BY <2>5 DEF Below
    <2> QED BY <2>4, <2>5, <2>6, <1>3
  <1>5. g[MaxNodes] \subseteq X
    BY <1>2, <1>4
  <1> QED BY <1>1, <1>5

(* A query that begins with more rows, or may go along more of them, finds   *)
(* no less; so does one in another table with the same parents.              *)
LEMMA DownGrows ==
    ASSUME NEW v, NEW w, NEW S, NEW S2, NEW T \in SUBSET Nodes, NEW T2 \in SUBSET Nodes,
           S \cap T \subseteq S2, T \subseteq T2, \A n \in T : v[n].parent = w[n].parent
    PROVE  Down(v, S, T) \subseteq Down(w, S2, T2)
  <1> DEFINE X == Down(w, S2, T2)
  <1>1. /\ S2 \cap T2 \subseteq X
        /\ \A n \in T2 : w[n].parent \in X => n \in X
    BY DownIs
  <1> HIDE DEF X
  <1>2. S \cap T \subseteq X /\ \A n \in T : v[n].parent \in X => n \in X
    BY <1>1
  <1>3. Down(v, S, T) \subseteq X
    BY <1>2, DownIsLeast
  <1> QED BY <1>3 DEF X

LEMMA DownOfDown ==
    ASSUME NEW v, NEW S, NEW S2, NEW T \in SUBSET Nodes, S \subseteq Down(v, S2, T)
    PROVE  Down(v, S, T) \subseteq Down(v, S2, T)
  <1> DEFINE X == Down(v, S2, T)
  <1>1. \A n \in T : v[n].parent \in X => n \in X
    BY DownIs
  <1>2. S \cap T \subseteq X
    OBVIOUS
  <1> HIDE DEF X
  <1>3. Down(v, S, T) \subseteq X
    BY <1>1, <1>2, DownIsLeast
  <1> QED BY <1>3 DEF X

(* What it finds it finds from one row; and what is not where it begins is a *)
(* child of something it finds.                                              *)
LEMMA DownFromOne ==
    ASSUME NEW v, NEW S, NEW T \in SUBSET Nodes, NEW n \in Down(v, S, T)
    PROVE  \E s \in S \cap T : n \in Down(v, {s}, T)
  <1> DEFINE X == {m \in T : \E s \in S \cap T : m \in Down(v, {s}, T)}
  <1>1. \A s \in S \cap T : s \in Down(v, {s}, T)
    <2> TAKE s \in S \cap T
    <2>1. {s} \cap T \subseteq Down(v, {s}, T)
      BY DownIs
    <2> QED BY <2>1
  <1>2. S \cap T \subseteq X
    BY <1>1
  <1>3. ASSUME NEW m \in T, v[m].parent \in X PROVE m \in X
    <2>1. PICK s \in S \cap T : v[m].parent \in Down(v, {s}, T)
      BY <1>3
    <2>2. m \in Down(v, {s}, T)
      BY <2>1, DownIs
    <2> QED BY <2>2
  <1> HIDE DEF X
  <1>4. Down(v, S, T) \subseteq X
    BY <1>2, <1>3, DownIsLeast
  <1> QED BY <1>4 DEF X

LEMMA DownHasParents ==
    ASSUME NEW v, NEW S, NEW T \in SUBSET Nodes, NEW n \in Down(v, S, T), n \notin S
    PROVE  v[n].parent \in Down(v, S, T)
  <1> DEFINE D == Down(v, S, T)
             X == {m \in D : m \in S \/ v[m].parent \in D}
  <1>1. /\ D \subseteq T /\ S \cap T \subseteq D
        /\ \A m \in T : v[m].parent \in D => m \in D
    BY DownIs
  <1> HIDE DEF D
  <1>2. S \cap T \subseteq X /\ \A m \in T : v[m].parent \in X => m \in X
    BY <1>1
  <1> HIDE DEF X
  <1>3. Down(v, S, T) \subseteq X
    BY <1>2, DownIsLeast
  <1> QED BY <1>3 DEF X, D

PresentIn(v) == {n \in Nodes : Present(v, n)}
LiveIn(v) == {n \in Nodes : Live(v, n)}

LEMMA SubtreeIs ==
    ASSUME NEW v, NEW S
    PROVE  /\ Subtree(v, S) = Down(v, S, PresentIn(v))
           /\ Subtree(v, S) \in SUBSET Nodes
           /\ \A n \in Subtree(v, S) : Present(v, n)
           /\ \A n \in S : n \in Nodes /\ Present(v, n) => n \in Subtree(v, S)
           /\ \A n \in Nodes : Present(v, n) /\ v[n].parent \in Subtree(v, S)
                                  => n \in Subtree(v, S)
           /\ \A n \in Subtree(v, S) : n \in S \/ v[n].parent \in Subtree(v, S)
  <1>1. PresentIn(v) \in SUBSET Nodes
    BY DEF PresentIn
  <1>2. Subtree(v, S) = Down(v, S, PresentIn(v))
    BY DEF Subtree, PresentIn
  <1>3. /\ Subtree(v, S) \subseteq PresentIn(v) /\ S \cap PresentIn(v) \subseteq Subtree(v, S)
        /\ \A n \in PresentIn(v) : v[n].parent \in Subtree(v, S) => n \in Subtree(v, S)
    BY <1>1, <1>2, DownIs
  <1>4. \A n \in Subtree(v, S) : n \in S \/ v[n].parent \in Subtree(v, S)
    BY <1>1, <1>2, DownHasParents
  <1> QED BY <1>2, <1>3, <1>4 DEF PresentIn

LEMMA SubtreeIsLeast ==
    ASSUME NEW v, NEW S, NEW X,
           \A n \in S : n \in Nodes /\ Present(v, n) => n \in X,
           \A n \in Nodes : Present(v, n) /\ v[n].parent \in X => n \in X
    PROVE  Subtree(v, S) \subseteq X
  <1>1. PresentIn(v) \in SUBSET Nodes /\ S \cap PresentIn(v) \subseteq X
        /\ \A n \in PresentIn(v) : v[n].parent \in X => n \in X
    BY DEF PresentIn
  <1>2. Down(v, S, PresentIn(v)) \subseteq X
    BY <1>1, DownIsLeast
  <1> QED BY <1>2, SubtreeIs

LEMMA SubtreeGrows ==
    ASSUME NEW v, NEW S, NEW S2, S \subseteq Subtree(v, S2)
    PROVE  Subtree(v, S) \subseteq Subtree(v, S2)
  <1>1. PresentIn(v) \in SUBSET Nodes
    BY DEF PresentIn
  <1> QED BY <1>1, SubtreeIs, DownOfDown

LEMMA ReachableIs ==
    ASSUME NEW v
    PROVE  /\ Reachable(v) \in SUBSET Nodes
           /\ \A n \in Reachable(v) : Live(v, n)
           /\ Live(v, Root) => Root \in Reachable(v)
           /\ \A n \in Nodes : Live(v, n) /\ v[n].parent \in Reachable(v) => n \in Reachable(v)
           /\ \A n \in Reachable(v) : n = Root \/ v[n].parent \in Reachable(v)
  <1>1. LiveIn(v) \in SUBSET Nodes
    BY DEF LiveIn
  <1>2. Reachable(v) = Down(v, {Root}, LiveIn(v))
    BY DEF Reachable, LiveIn
  <1>3. /\ Reachable(v) \subseteq LiveIn(v) /\ {Root} \cap LiveIn(v) \subseteq Reachable(v)
        /\ \A n \in LiveIn(v) : v[n].parent \in Reachable(v) => n \in Reachable(v)
    BY <1>1, <1>2, DownIs
  <1>4. \A n \in Reachable(v) : n \in {Root} \/ v[n].parent \in Reachable(v)
    BY <1>1, <1>2, DownHasParents
  <1>5. Root \in Nodes
    BY FileTreeAssumption DEF Root, Nodes
  <1> QED BY <1>3, <1>4, <1>5 DEF LiveIn

LEMMA ReachableIsLeast ==
    ASSUME NEW v, NEW X, Live(v, Root) => Root \in X,
           \A n \in Reachable(v) : n # Root /\ v[n].parent \in X => n \in X
    PROVE  Reachable(v) \subseteq X
  <1> DEFINE Y == X \cap Reachable(v)
  <1>1. LiveIn(v) \in SUBSET Nodes
    BY DEF LiveIn
  <1>2. Reachable(v) = Down(v, {Root}, LiveIn(v))
    BY DEF Reachable, LiveIn
  <1>3. {Root} \cap LiveIn(v) \subseteq Y
    BY ReachableIs DEF LiveIn
  <1>4. \A n \in LiveIn(v) : v[n].parent \in Y => n \in Y
    <2>1. \A n \in LiveIn(v) : n \in Nodes /\ Live(v, n)
      BY DEF LiveIn
    <2>2. \A n \in LiveIn(v) : v[n].parent \in Reachable(v) => n \in Reachable(v)
      BY <2>1, ReachableIs
    <2>3. Root \in LiveIn(v) => Root \in X
      BY <2>1
    <2> QED BY <2>2, <2>3
  <1> HIDE DEF Y
  <1>5. Down(v, {Root}, LiveIn(v)) \subseteq Y
    BY <1>1, <1>3, <1>4, DownIsLeast
  <1> QED BY <1>2, <1>5 DEF Y

-----------------------------------------------------------------------------
(* Types, and what is true of the rows and of each request *)

ActShape == [ op    : OpNames \cup {"none"},
              pc    : {"idle", "ready", "merge", "replace", "finish", "pluck"},
              ids   : SUBSET Nodes,
              dest  : Nodes \cup {NoNode},
              name  : NodeNames \cup {NoName},
              type  : FileType,
              path  : Seq(NodeNames),
              found : Nodes \cup {NoNode},
              kept  : SUBSET Nodes,
              batch : SUBSET Nodes,
              files : SUBSET Nodes,
              seen  : SUBSET Nodes,
              wrote : UNION {[S -> NodeRow] : S \in SUBSET Nodes} ]

RowsRight(v) ==
    /\ v \in [Nodes -> NodeRow] /\ v[Root].status # "free"
    /\ \A n \in Nodes : v[n].status # "free" =>
         /\ \A m \in 1 .. n : v[m].status # "free"
         /\ v[n].name # NoName
         /\ (v[n].parent = NoNode) = (n = Root)

(* What a request may name, and where it may be.                             *)
RequestRight(r) ==
    /\ r.op \in {"create", "mkdir", "copy", "move", "rename"} => r.dest \in Nodes
    /\ r.op \in {"create", "rename"} => r.name \in NodeNames
    /\ r.op \in {"update", "delete", "move", "rename"} => Root \notin r.ids
    /\ r.op \in {"create", "mkdir", "copy", "update", "delete", "move"} => r.pc = "ready"
    /\ r.op = "none" <=> r.pc = "idle"
    /\ r.pc \in {"merge", "replace"} => r.op = "rename"
    /\ r.pc = "pluck" => r.op = "zip"

(* A row that a rename has deleted, of the folder it replaces, and one that  *)
(* it has moved from there into the source.                                  *)
Taken(v, r, n) ==
    /\ ~Live(r.wrote, n)
    /\ n \in Down(v, {r.found}, DOMAIN r.wrote)

MovedUp(v, r, n, src) ==
    /\ n \in r.kept /\ v[n].status = "active" /\ v[n].parent = r.found
    /\ r.wrote[n] = [v[n] EXCEPT !.parent = src]

RenameRight(v, r, src) ==
    /\ r.pc \in {"ready", "merge"} => DOMAIN r.wrote = {} /\ r.kept = {}
    /\ r.pc \in {"merge", "replace"} => r.found \in Nodes
    /\ DOMAIN r.wrote # {} => r.found \in Nodes
    /\ r.kept \subseteq DOMAIN r.wrote
    /\ r.pc = "replace" =>
          /\ \A n \in DOMAIN r.wrote : MovedUp(v, r, n, src)
          /\ r.kept # {} => r.found # src
    /\ r.pc = "finish" =>
          /\ \A n \in DOMAIN r.wrote : Taken(v, r, n) \/ MovedUp(v, r, n, src)
          /\ src \in DOMAIN r.wrote /\ Taken(v, r, src) =>
                \A n \in DOMAIN r.wrote : Taken(v, r, n)
          /\ \A n \in r.kept \ {r.found} :
                Taken(v, r, n) => src \in DOMAIN r.wrote /\ Taken(v, r, src)

(* What a request has written and not committed are rows that were there;    *)
(* only a rename has any.                                                    *)
WroteRight(v, r) ==
    /\ \A n \in DOMAIN r.wrote :
          /\ Present(v, n)
          /\ r.wrote[n].status # "free" /\ r.wrote[n].name # NoName
          /\ (r.wrote[n].parent = NoNode) = (n = Root)
          /\ r.wrote[n].status = "active" => v[n].status = "active"
    /\ DOMAIN r.wrote # {} => r.op = "rename" /\ r.pc \in {"replace", "finish"}
    /\ r.op = "rename" =>
          \E src \in Nodes \ {Root} : r.ids = {src} /\ RenameRight(v, r, src)

(* The walk of a zip download: from a row it has seen, or is going to see,   *)
(* there is a trail to each file it has still to find.                       *)
OnTrail(v, r, f, P, s) ==
    /\ f \in P /\ s \in P \cap (r.ids \cup r.seen)
    /\ \A n \in P : Live(v, n) /\ f \in Subtree(v, {n})
    /\ f \in Down(v, {s}, P)
    /\ v[f].type = "file" /\ (f \in r.seen => f \in r.files)
    /\ \A n \in P : v[n].parent \in P =>
          \/ n \in r.ids \cup r.seen
          \/ /\ v[v[n].parent].type = "folder"
             /\ v[n].parent \notin r.seen \ r.batch

WalkRight(v, r, d) ==
    r.op = "zip" =>
        /\ r.pc # "pluck" => r.batch = {}
        /\ r.pc = "finish" => r.ids = {}
        /\ \A f \in d : \E P \in SUBSET Nodes, s \in Nodes : OnTrail(v, r, f, P, s)

TreeInv ==
    /\ RowsRight(rows)
    /\ act \in [Actors -> ActShape]
    /\ due \in [Actors -> SUBSET Nodes]
    /\ calls \in 0 .. MaxCalls
    /\ \A c \in Actors : /\ RequestRight(act[c]) /\ WroteRight(rows, act[c])
                         /\ WalkRight(rows, act[c], due[c])
    /\ \A c, o \in Actors : c # o => DOMAIN act[c].wrote \cap DOMAIN act[o].wrote = {}

LEMMA WroteIs ==
    ASSUME NEW r \in ActShape
    PROVE  /\ DOMAIN r.wrote \in SUBSET Nodes
           /\ \A n \in DOMAIN r.wrote : r.wrote[n] \in NodeRow
           /\ r.wrote \in [DOMAIN r.wrote -> NodeRow]
           /\ \A x : [r EXCEPT !.wrote = x].wrote = x
  <1>1. PICK S \in SUBSET Nodes : r.wrote \in [S -> NodeRow]
    BY DEF ActShape
  <1> QED BY <1>1 DEF ActShape

LEMMA IdleIs ==
    /\ IdleAct \in ActShape /\ DOMAIN IdleAct.wrote = {}
    /\ IdleAct.op = "none" /\ IdleAct.pc = "idle"
  <1>1. NoRows \in [{} -> NodeRow] /\ DOMAIN NoRows = {}
    BY DEF NoRows
  <1>2. NoRows \in UNION {[S -> NodeRow] : S \in SUBSET Nodes}
    BY <1>1
  <1>3. <<>> \in Seq(NodeNames)
    OBVIOUS
  <1> QED BY <1>1, <1>2, <1>3 DEF IdleAct, ActShape, FileType

LEMMA InvHasTypes ==
    TreeInv => TreeTypeOK
  <1>1. SUFFICES ASSUME TreeInv PROVE TreeTypeOK
    OBVIOUS
  <1>2. rows \in [Nodes -> NodeRow]
        /\ \A n \in Nodes : rows[n].status # "free" =>
             /\ \A m \in 1 .. n : rows[m].status # "free"
             /\ rows[n].name # NoName
             /\ (rows[n].parent = NoNode) = (n = Root)
    BY <1>1 DEF TreeInv, RowsRight
  <1>3. ASSUME NEW c \in Actors
        PROVE  /\ [act[c] EXCEPT !.wrote = NoRows] \in Act
               /\ DOMAIN act[c].wrote \subseteq Nodes
               /\ \A n \in DOMAIN act[c].wrote : act[c].wrote[n] \in NodeRow
    <2>1. act[c] \in ActShape
      BY <1>1 DEF TreeInv
    <2>2. [act[c] EXCEPT !.wrote = NoRows] \in Act
      BY <2>1 DEF ActShape, Act
    <2> QED BY <2>1, <2>2, WroteIs
  <1>4. due \in [Actors -> SUBSET Nodes] /\ calls \in 0 .. MaxCalls
    BY <1>1 DEF TreeInv
  <1> QED BY <1>2, <1>3, <1>4 DEF TreeTypeOK

-----------------------------------------------------------------------------
(* What a step may do to the rows without disturbing the requests beside it  *)

LEMMA IdleRight ==
    ASSUME NEW v, NEW d
    PROVE  RequestRight(IdleAct) /\ WroteRight(v, IdleAct) /\ WalkRight(v, IdleAct, d)
  <1>1. RequestRight(IdleAct)
    BY IdleIs DEF RequestRight
  <1>2. WroteRight(v, IdleAct)
    BY IdleIs DEF WroteRight
  <1>3. WalkRight(v, IdleAct, d)
    BY IdleIs DEF WalkRight
  <1> QED BY <1>1, <1>2, <1>3

(* Nobody else changes a row that a request has written.                     *)
LEMMA WroteStays ==
    ASSUME NEW v, NEW w, NEW r \in ActShape, WroteRight(v, r),
           \A n \in DOMAIN r.wrote : w[n] = v[n]
    PROVE  WroteRight(w, r)
  <1>1. DOMAIN r.wrote \in SUBSET Nodes
    BY WroteIs
  <1>2. Down(v, {r.found}, DOMAIN r.wrote) = Down(w, {r.found}, DOMAIN r.wrote)
    <2>1. \A n \in DOMAIN r.wrote : v[n].parent = w[n].parent /\ w[n].parent = v[n].parent
      OBVIOUS
    <2> DEFINE T == DOMAIN r.wrote
               S == {r.found}
    <2>2. S \cap T \subseteq S
      OBVIOUS
    <2> HIDE DEF S, T
    <2>3. Down(v, S, T) \subseteq Down(w, S, T)
      BY <1>1, <2>1, <2>2, DownGrows DEF T
    <2>4. Down(w, S, T) \subseteq Down(v, S, T)
      BY <1>1, <2>1, <2>2, DownGrows DEF T
    <2> QED BY <2>3, <2>4 DEF S, T
  <1>3. \A n : Taken(v, r, n) <=> Taken(w, r, n)
    BY <1>2 DEF Taken
  <1>4. \A n \in DOMAIN r.wrote : \A src : MovedUp(v, r, n, src) <=> MovedUp(w, r, n, src)
    BY DEF MovedUp
  <1>5. \A src : RenameRight(v, r, src) => RenameRight(w, r, src)
    <2> TAKE src
    <2>1. SUFFICES ASSUME RenameRight(v, r, src) PROVE RenameRight(w, r, src)
      OBVIOUS
    <2>2. r.pc = "replace" => \A n \in DOMAIN r.wrote : MovedUp(w, r, n, src)
      BY <2>1, <1>4 DEF RenameRight
    <2>3. r.pc = "finish" =>
            /\ \A n \in DOMAIN r.wrote : Taken(w, r, n) \/ MovedUp(w, r, n, src)
            /\ src \in DOMAIN r.wrote /\ Taken(w, r, src) =>
                  \A n \in DOMAIN r.wrote : Taken(w, r, n)
            /\ \A n \in r.kept \ {r.found} :
                  Taken(w, r, n) => src \in DOMAIN r.wrote /\ Taken(w, r, src)
      BY <2>1, <1>3, <1>4 DEF RenameRight
    <2> QED BY <2>1, <2>2, <2>3 DEF RenameRight
  <1>6. \A n \in DOMAIN r.wrote :
          /\ Present(w, n)
          /\ r.wrote[n].status # "free" /\ r.wrote[n].name # NoName
          /\ (r.wrote[n].parent = NoNode) = (n = Root)
          /\ r.wrote[n].status = "active" => w[n].status = "active"
    BY DEF WroteRight, Present
  <1>7. DOMAIN r.wrote # {} => r.op = "rename" /\ r.pc \in {"replace", "finish"}
    BY DEF WroteRight
  <1>8. r.op = "rename" =>
          \E src \in Nodes \ {Root} : r.ids = {src} /\ RenameRight(w, r, src)
    BY <1>5 DEF WroteRight
  <1> QED BY <1>6, <1>7, <1>8 DEF WroteRight

(* A row that is not below one that changes is still below what it was.      *)
LEMMA BelowStays ==
    ASSUME NEW v, NEW w, NEW f, NEW n, f \in Subtree(v, {n}),
           f \notin Subtree(v, {m \in Nodes : w[m] # v[m]})
    PROVE  f \in Subtree(w, {n})
  <1> DEFINE C == {m \in Nodes : w[m] # v[m]}
  <1>1. ASSUME NEW k \in Nodes, Present(v, k), f \in Subtree(v, {k}) PROVE w[k] = v[k]
    <2>1. SUFFICES ASSUME k \in C PROVE FALSE
      BY <1>1
    <2>2. {k} \subseteq Subtree(v, C)
      BY <2>1, <1>1, SubtreeIs
    <2> HIDE DEF C
    <2>3. Subtree(v, {k}) \subseteq Subtree(v, C)
      BY <2>2, SubtreeGrows
    <2> QED BY <2>3, <1>1 DEF C
  <1> HIDE DEF C
  <1>2. f \in Nodes /\ Present(v, f) /\ f \in Subtree(v, {f})
    BY SubtreeIs
  <1> DEFINE X == {m \in Subtree(v, {n}) : m \in Subtree(w, {n}) \/ f \notin Subtree(v, {m})}
  <1>3. ASSUME n \in Nodes, Present(v, n) PROVE n \in X
    <2>1. n \in Subtree(v, {n})
      BY <1>3, SubtreeIs
    <2>2. w[n] = v[n]
      BY <1>1, <1>3
    <2>3. Present(w, n)
      BY <2>2, <1>3 DEF Present
    <2>4. n \in Subtree(w, {n})
      BY <2>3, <1>3, SubtreeIs
    <2> QED BY <2>1, <2>4
  <1>4. ASSUME NEW m \in Nodes, Present(v, m), v[m].parent \in X PROVE m \in X
    <2>1. m \in Subtree(v, {n}) /\ v[m].parent \in Nodes /\ Present(v, v[m].parent)
      BY <1>4, SubtreeIs
    <2>2. SUFFICES ASSUME f \in Subtree(v, {m}) PROVE m \in Subtree(w, {n})
      BY <2>1
    <2>3. w[m] = v[m] /\ Present(w, m)
      BY <1>1, <1>4, <2>2 DEF Present
    <2>4. m \in Subtree(v, {v[m].parent})
      <3>1. v[m].parent \in Subtree(v, {v[m].parent})
        BY <2>1, SubtreeIs
      <3> QED BY <3>1, <1>4, SubtreeIs
    <2>5. Subtree(v, {m}) \subseteq Subtree(v, {v[m].parent})
      BY <2>4, SubtreeGrows
    <2>6. v[m].parent \in Subtree(w, {n})
      BY <2>2, <2>5, <1>4
    <2> QED BY <2>3, <2>6, <1>4, SubtreeIs
  <1> HIDE DEF X
  <1>5. Subtree(v, {n}) \subseteq X
    BY <1>3, <1>4, SubtreeIsLeast
  <1> QED BY <1>2, <1>5 DEF X

(* A file that a download has still to find keeps its trail when no row      *)
(* above it changes.                                                         *)
LEMMA TrailStays ==
    ASSUME NEW v, NEW w, NEW r, NEW f, NEW P \in SUBSET Nodes, NEW s,
           OnTrail(v, r, f, P, s), f \notin Subtree(v, {n \in Nodes : w[n] # v[n]})
    PROVE  OnTrail(w, r, f, P, s)
  <1> DEFINE C == {n \in Nodes : w[n] # v[n]}
  <1>1. \A n \in P : n \in Nodes /\ Live(v, n) /\ Present(v, n) /\ f \in Subtree(v, {n})
    BY DEF OnTrail, Live, Present
  <1>2. ASSUME NEW n \in P PROVE w[n] = v[n]
    <2>1. SUFFICES ASSUME n \in C PROVE FALSE
      BY <1>1
    <2>2. n \in Subtree(v, C)
      BY <2>1, <1>1, <1>2, SubtreeIs
    <2>3. Subtree(v, {n}) \subseteq Subtree(v, C)
      BY <2>2, SubtreeGrows
    <2> QED BY <2>3, <1>1, <1>2
  <1>3. P \in SUBSET Nodes /\ \A n \in P : v[n].parent = w[n].parent
    BY <1>2
  <1>4. Down(v, {s}, P) \subseteq Down(w, {s}, P)
    <2> DEFINE S == {s}
    <2>1. S \cap P \subseteq S
      OBVIOUS
    <2> HIDE DEF S
    <2>2. Down(v, S, P) \subseteq Down(w, S, P)
      BY <1>3, <2>1, DownGrows
    <2> QED BY <2>2 DEF S
  <1>5. \A n \in P : Live(w, n)
    BY <1>1, <1>2 DEF Live
  <1>6. \A n \in P : f \in Subtree(w, {n})
    BY <1>1, BelowStays
  <1>7. \A n \in P : v[n].parent = w[n].parent
        /\ (v[n].parent \in P => w[v[n].parent].type = v[v[n].parent].type)
    BY <1>2
  <1>8. /\ f \in P /\ s \in P \cap (r.ids \cup r.seen) /\ f \in Down(v, {s}, P)
        /\ v[f].type = "file" /\ (f \in r.seen => f \in r.files)
        /\ \A n \in P : v[n].parent \in P =>
              \/ n \in r.ids \cup r.seen
              \/ /\ v[v[n].parent].type = "folder"
                 /\ v[n].parent \notin r.seen \ r.batch
    BY DEF OnTrail
  <1> QED BY <1>2, <1>4, <1>5, <1>6, <1>7, <1>8 DEF OnTrail

LEMMA WalkStays ==
    ASSUME NEW v, NEW w, NEW r, NEW d, WalkRight(v, r, d)
    PROVE  WalkRight(w, r, d \ Subtree(v, {n \in Nodes : w[n] # v[n]}))
  <1> DEFINE gone == Subtree(v, {n \in Nodes : w[n] # v[n]})
  <1>1. SUFFICES ASSUME r.op = "zip", NEW f \in d \ gone
                 PROVE  \E P \in SUBSET Nodes, s \in Nodes : OnTrail(w, r, f, P, s)
    BY DEF WalkRight
  <1>2. PICK P \in SUBSET Nodes, s \in Nodes : OnTrail(v, r, f, P, s)
    BY <1>1 DEF WalkRight
  <1>3. f \notin gone
    BY <1>1
  <1>4. OnTrail(w, r, f, P, s)
    BY <1>2, <1>3, TrailStays
  <1> QED BY <1>4

(* A step of one request that leaves the rows as they are.                   *)
LEMMA RequestStep ==
    ASSUME TreeInv, NEW c \in Actors, NEW r \in ActShape, NEW d \in SUBSET Nodes,
           rows' = rows, act' = [act EXCEPT ![c] = r], due' = [due EXCEPT ![c] = d],
           calls' \in 0 .. MaxCalls,
           RequestRight(r), WroteRight(rows, r), WalkRight(rows, r, d),
           \A o \in Actors \ {c} : DOMAIN r.wrote \cap DOMAIN act[o].wrote = {}
    PROVE  TreeInv'
  <1>1. /\ act' \in [Actors -> ActShape] /\ act'[c] = r
        /\ \A o \in Actors : o # c => act'[o] = act[o]
    BY DEF TreeInv
  <1>2. /\ due' \in [Actors -> SUBSET Nodes] /\ due'[c] = d
        /\ \A o \in Actors : o # c => due'[o] = due[o]
    BY DEF TreeInv
  <1>3. ASSUME NEW o \in Actors
        PROVE  /\ RequestRight(act'[o]) /\ WroteRight(rows, act'[o])
               /\ WalkRight(rows, act'[o], due'[o])
    BY <1>1, <1>2 DEF TreeInv
  <1>4. ASSUME NEW o \in Actors, NEW p \in Actors, o # p
        PROVE  DOMAIN act'[o].wrote \cap DOMAIN act'[p].wrote = {}
    <2>1. CASE o = c
      BY <2>1, <1>1, <1>4
    <2>2. CASE p = c
      BY <2>2, <1>1, <1>4
    <2>3. CASE o # c /\ p # c
      BY <2>3, <1>1, <1>4 DEF TreeInv
    <2> QED BY <2>1, <2>2, <2>3
  <1>5. RowsRight(rows) /\ calls' \in 0 .. MaxCalls
    BY DEF TreeInv
  <1> QED BY <1>1, <1>2, <1>3, <1>4, <1>5 DEF TreeInv

(* A step that changes rows: a request is done, or goes on as it was and     *)
(* none of the rows it has written changed.                                  *)
LEMMA CommitStep ==
    ASSUME TreeInv, NEW w, RowsRight(w), Commit(w), calls' = calls,
           act' \in [Actors -> ActShape],
           \A o \in Actors :
              \/ act'[o] = IdleAct
              \/ act'[o] = act[o] /\ \A n \in DOMAIN act[o].wrote : w[n] = rows[n]
    PROVE  TreeInv'
  <1> DEFINE gone == Subtree(rows, {n \in Nodes : w[n] # rows[n]})
  <1>1. rows' = w /\ due' = [o \in Actors |-> due[o] \ gone]
    BY DEF Commit
  <1>2. due' \in [Actors -> SUBSET Nodes] /\ \A o \in Actors : due'[o] = due[o] \ gone
    BY <1>1 DEF TreeInv
  <1>3. ASSUME NEW o \in Actors
        PROVE  /\ RequestRight(act'[o]) /\ WroteRight(w, act'[o])
               /\ WalkRight(w, act'[o], due'[o])
    <2>1. CASE act'[o] = IdleAct
      BY <2>1, IdleRight
    <2>2. CASE act'[o] = act[o] /\ \A n \in DOMAIN act[o].wrote : w[n] = rows[n]
      <3>1. act[o] \in ActShape /\ RequestRight(act[o]) /\ WroteRight(rows, act[o])
            /\ WalkRight(rows, act[o], due[o])
        BY DEF TreeInv
      <3>2. WroteRight(w, act[o])
        BY <3>1, <2>2, WroteStays
      <3>3. WalkRight(w, act[o], due[o] \ gone)
        BY <3>1, WalkStays
      <3> HIDE DEF gone
      <3> QED BY <3>1, <3>2, <3>3, <2>2, <1>2
    <2> QED BY <2>1, <2>2
  <1>4. ASSUME NEW o \in Actors, NEW p \in Actors, o # p
        PROVE  DOMAIN act'[o].wrote \cap DOMAIN act'[p].wrote = {}
    BY <1>4, IdleIs DEF TreeInv
  <1>5. calls' \in 0 .. MaxCalls
    BY DEF TreeInv
  <1> HIDE DEF gone
  <1> QED BY <1>1, <1>2, <1>3, <1>4, <1>5 DEF TreeInv

(* Rows that were there stay there and keep a name and, but for the root, a  *)
(* parent.                                                                   *)
LEMMA RowsStayRight ==
    ASSUME NEW v, NEW w, RowsRight(v), w \in [Nodes -> NodeRow],
           \A n \in Nodes : /\ w[n].status # "free" <=> v[n].status # "free"
                            /\ v[n].status # "free" =>
                                 /\ w[n].name # NoName
                                 /\ (w[n].parent = NoNode) = (n = Root)
    PROVE  RowsRight(w)
  <1>1. Root \in Nodes /\ \A n \in Nodes : 1 .. n \subseteq Nodes
    BY FileTreeAssumption DEF Nodes, Root
  <1> QED BY <1>1 DEF RowsRight

(* The ids that were given are the first ones.                               *)
LEMMA UsedAre ==
    ASSUME NEW v, RowsRight(v)
    PROVE  /\ Used(v) \in 0 .. MaxNodes
           /\ \A n \in Nodes : v[n].status # "free" <=> n <= Used(v)
  <1> DEFINE U == {n \in Nodes : v[n].status # "free"}
  <1>0. MaxNodes \in Nat \ {0} /\ Nodes = 1 .. MaxNodes
    BY FileTreeAssumption DEF Nodes
  <1>1. \A n \in U : n \in 1 .. MaxNodes /\ 1 .. n \subseteq U
    BY <1>0 DEF RowsRight
  <1>2. \E u \in 0 .. MaxNodes : U = 1 .. u
    <2> DEFINE Above == {k \in 0 .. MaxNodes : U \subseteq 1 .. k}
    <2>1. Above \in SUBSET (0 .. MaxNodes) /\ MaxNodes \in Above
      BY <1>0
    <2>2. PICK u \in Above : \A k \in Above : u <= k
      BY <1>0, <2>1, LeastUpTo
    <2>3. u \in 0 .. MaxNodes /\ U \subseteq 1 .. u
      OBVIOUS
    <2>4. CASE u = 0
      BY <2>3, <2>4
    <2>5. CASE u # 0
      <3>0. u \in Nat /\ u - 1 \in 0 .. MaxNodes /\ ~(u <= u - 1)
        BY <2>3, <2>5, <1>0
      <3>1. u - 1 \notin Above
        BY <2>2, <3>0
      <3>2. PICK n \in U : n \notin 1 .. (u - 1)
        BY <3>0, <3>1
      <3>3. n = u
        BY <3>2, <2>3
      <3>4. 1 .. u \subseteq U
        BY <3>2, <3>3, <1>1
      <3> QED BY <3>4, <2>3
    <2> QED BY <2>4, <2>5
  <1>3. PICK u \in 0 .. MaxNodes : U = 1 .. u
    BY <1>2
  <1>4. u \in Nat
    BY <1>0
  <1>5. Cardinality(1 .. u) = u
    <2>1. Cardinality(1 .. u) = IF 1 > u THEN 0 ELSE u - 1 + 1
      BY <1>4, FS_Interval
    <2> QED BY <2>1, <1>4
  <1>6. Used(v) = Cardinality(U)
    BY DEF Used
  <1>7. Used(v) = u
    BY <1>3, <1>5, <1>6
  <1>8. \A n \in Nodes : n \in U <=> n <= u
    BY <1>0, <1>3, <1>4
  <1> QED BY <1>7, <1>8

-----------------------------------------------------------------------------
(* A request begins *)

LEMMA CallersAre ==
    ASSUME TreeInv
    PROVE  /\ \A c \in Callers : c \in Actors /\ act[c].pc = "idle" /\ calls < MaxCalls
           /\ \A c \in Running : c \in Actors
           /\ \A c \in Actors : due[c] \in SUBSET Nodes /\ due = [due EXCEPT ![c] = due[c]]
  <1>1. \A c \in Callers : c \in Actors /\ act[c].pc = "idle" /\ calls < MaxCalls
    BY DEF Callers
  <1>2. \A c \in Actors : due[c] \in SUBSET Nodes /\ due = [due EXCEPT ![c] = due[c]]
    BY DEF TreeInv
  <1> QED BY <1>1, <1>2 DEF Running

(* A request that has written nothing and is no rename disturbs nobody.      *)
LEMMA BeginStep ==
    ASSUME TreeInv, NEW c \in Callers, NEW r \in ActShape, NEW d \in SUBSET Nodes,
           Begin(c, r), due' = [due EXCEPT ![c] = d],
           r.wrote = NoRows, RequestRight(r), WalkRight(rows, r, d),
           r.op = "rename" => \E src \in Nodes \ {Root} :
                                 r.ids = {src} /\ r.pc = "ready" /\ r.kept = {}
    PROVE  TreeInv'
  <1>1. c \in Actors /\ calls < MaxCalls
    BY CallersAre
  <1>2. rows' = rows /\ act' = [act EXCEPT ![c] = r] /\ calls' = calls + 1
    BY DEF Begin
  <1>3. MaxCalls \in Nat /\ calls \in 0 .. MaxCalls
    BY FileTreeAssumption DEF TreeInv
  <1>4. calls' \in 0 .. MaxCalls
    BY <1>1, <1>2, <1>3
  <1>5. DOMAIN r.wrote = {}
    BY DEF NoRows
  <1>6. \A src : r.pc = "ready" /\ r.kept = {} => RenameRight(rows, r, src)
    BY <1>5 DEF RenameRight
  <1>7. WroteRight(rows, r)
    BY <1>5, <1>6 DEF WroteRight
  <1>8. \A o \in Actors \ {c} : DOMAIN r.wrote \cap DOMAIN act[o].wrote = {}
    BY <1>5
  <1> QED BY <1>1, <1>2, <1>4, <1>7, <1>8, RequestStep

LEMMA SingleId ==
    ASSUME NEW ids \in SUBSET (Nodes \ {Root}), Cardinality(ids) = 1
    PROVE  \E src \in Nodes \ {Root} : ids = {src}
  <1>1. IsFiniteSet(Nodes)
    BY FileTreeAssumption, FS_Interval DEF Nodes
  <1>2. IsFiniteSet(ids)
    BY <1>1, FS_Subset
  <1>3. PICK src : ids = {src}
    BY <1>2, FS_Singleton
  <1> QED BY <1>3

LEMMA CreateStartKeeps ==
    ASSUME TreeInv, NEW c \in Callers,
           NEW name \in NodeNames, NEW dest \in Nodes, NEW type \in FileType,
           CreateStart(c, name, dest, type)
    PROVE  TreeInv'
  <1> DEFINE r == [IdleAct EXCEPT !.op = "create", !.pc = "ready", !.name = name,
                                  !.dest = dest, !.type = type]
  <1>1. r \in ActShape /\ r.op = "create" /\ r.pc = "ready" /\ r.wrote = NoRows
        /\ r.dest \in Nodes /\ r.name \in NodeNames
    BY IdleIs DEF ActShape, OpNames, IdleAct
  <1>2. Begin(c, r) /\ due' = due
    BY DEF CreateStart
  <1> HIDE DEF r
  <1>3. due' = [due EXCEPT ![c] = due[c]] /\ due[c] \in SUBSET Nodes
    BY <1>2, CallersAre
  <1>4. RequestRight(r) /\ WalkRight(rows, r, due[c])
    BY <1>1 DEF RequestRight, WalkRight
  <1> QED BY <1>1, <1>2, <1>3, <1>4, BeginStep

LEMMA PathStartKeeps ==
    ASSUME TreeInv, NEW c \in Callers, NEW op \in {"mkdir", "copy"},
           NEW path \in Paths, NEW leaf \in NodeNames \cup {NoName},
           PathStart(c, op, path, leaf)
    PROVE  TreeInv'
  <1> DEFINE r == [IdleAct EXCEPT !.op = op, !.pc = "ready", !.path = path,
                                  !.name = leaf, !.dest = Root]
  <1>0. path \in Seq(NodeNames)
    <2>1. PICK k \in 1 .. MaxPath : path \in [1 .. k -> NodeNames]
      BY DEF Paths
    <2>2. k \in Nat
      BY FileTreeAssumption
    <2> QED BY <2>1, <2>2
  <1>1. r \in ActShape /\ r.op = op /\ r.pc = "ready" /\ r.wrote = NoRows /\ r.dest \in Nodes
    <2>1. Root \in Nodes
      BY FileTreeAssumption DEF Root, Nodes
    <2> QED BY <1>0, <2>1, IdleIs DEF ActShape, OpNames, IdleAct
  <1>2. Begin(c, r) /\ due' = due
    BY DEF PathStart
  <1> HIDE DEF r
  <1>3. due' = [due EXCEPT ![c] = due[c]] /\ due[c] \in SUBSET Nodes
    BY <1>2, CallersAre
  <1>4. RequestRight(r) /\ WalkRight(rows, r, due[c])
    BY <1>1 DEF RequestRight, WalkRight
  <1> QED BY <1>1, <1>2, <1>3, <1>4, BeginStep

LEMMA UpdateStartKeeps ==
    ASSUME TreeInv, NEW c \in Callers, NEW n \in Nodes, NEW dest \in Nodes \cup {NoNode},
           NEW name \in NodeNames \cup {NoName}, UpdateStart(c, n, dest, name)
    PROVE  TreeInv'
  <1> DEFINE r == [IdleAct EXCEPT !.op = "update", !.pc = "ready", !.ids = {n},
                                  !.dest = dest, !.name = name]
  <1>1. r \in ActShape /\ r.op = "update" /\ r.pc = "ready" /\ r.wrote = NoRows
        /\ r.ids = {n}
    BY IdleIs DEF ActShape, OpNames, IdleAct
  <1>2. Begin(c, r) /\ due' = due /\ n # Root
    BY DEF UpdateStart
  <1> HIDE DEF r
  <1>3. due' = [due EXCEPT ![c] = due[c]] /\ due[c] \in SUBSET Nodes
    BY <1>2, CallersAre
  <1>4. RequestRight(r) /\ WalkRight(rows, r, due[c])
    BY <1>1, <1>2 DEF RequestRight, WalkRight
  <1> QED BY <1>1, <1>2, <1>3, <1>4, BeginStep

LEMMA DeleteStartKeeps ==
    ASSUME TreeInv, NEW c \in Callers, NEW ids \in IdSets, DeleteStart(c, ids)
    PROVE  TreeInv'
  <1> DEFINE r == [IdleAct EXCEPT !.op = "delete", !.pc = "ready", !.ids = ids]
  <1>0. ids \in SUBSET (Nodes \ {Root})
    BY DEF IdSets
  <1>1. r \in ActShape /\ r.op = "delete" /\ r.pc = "ready" /\ r.wrote = NoRows
        /\ r.ids = ids
    BY <1>0, IdleIs DEF ActShape, OpNames, IdleAct
  <1>2. Begin(c, r) /\ due' = due
    BY DEF DeleteStart
  <1> HIDE DEF r
  <1>3. due' = [due EXCEPT ![c] = due[c]] /\ due[c] \in SUBSET Nodes
    BY <1>2, CallersAre
  <1>4. RequestRight(r) /\ WalkRight(rows, r, due[c])
    BY <1>0, <1>1 DEF RequestRight, WalkRight
  <1> QED BY <1>1, <1>2, <1>3, <1>4, BeginStep

LEMMA MoveStartKeeps ==
    ASSUME TreeInv, NEW c \in Callers, NEW ids \in IdSets, NEW dest \in Nodes,
           NEW name \in NodeNames \cup {NoName}, MoveStart(c, ids, dest, name)
    PROVE  TreeInv'
  <1> DEFINE op == IF name = NoName THEN "move" ELSE "rename"
             r == [IdleAct EXCEPT !.op = op, !.pc = "ready", !.ids = ids, !.dest = dest,
                                  !.name = name]
  <1>0. ids \in SUBSET (Nodes \ {Root}) /\ op \in OpNames
    BY DEF IdSets, OpNames
  <1>6. op \in {"move", "rename"} /\ (op = "rename" <=> name # NoName)
    OBVIOUS
  <1> HIDE DEF op
  <1>1. r \in ActShape /\ r.op = op /\ r.pc = "ready" /\ r.wrote = NoRows
        /\ r.ids = ids /\ r.dest = dest /\ r.name = name /\ r.kept = {}
    BY <1>0, IdleIs DEF ActShape, IdleAct
  <1>2. Begin(c, r) /\ due' = due /\ (name # NoName => Cardinality(ids) = 1)
    BY DEF MoveStart, op
  <1> HIDE DEF r
  <1>3. due' = [due EXCEPT ![c] = due[c]] /\ due[c] \in SUBSET Nodes
    BY <1>2, CallersAre
  <1>4. RequestRight(r) /\ WalkRight(rows, r, due[c])
    <2>1. r.op = "rename" => r.name \in NodeNames
      BY <1>1, <1>6
    <2> QED BY <1>0, <1>6, <1>1, <2>1 DEF RequestRight, WalkRight
  <1>5. r.op = "rename" => \E src \in Nodes \ {Root} :
                             r.ids = {src} /\ r.pc = "ready" /\ r.kept = {}
    <2>1. SUFFICES ASSUME name # NoName PROVE \E src \in Nodes \ {Root} : ids = {src}
      BY <1>6, <1>1
    <2> QED BY <2>1, <1>0, <1>2, SingleId
  <1> QED BY <1>1, <1>2, <1>3, <1>4, <1>5, BeginStep

(* A zip download begins: the trail of a file is what the rows it may walk   *)
(* over have between them and it.                                            *)
LEMMA TrailBegins ==
    ASSUME NEW v, NEW r, NEW ids, NEW f \in FilesBelow(v, ids), v \in [Nodes -> NodeRow],
           r.ids = ids, r.seen = {}, r.batch = {}
    PROVE  \E P \in SUBSET Nodes, s \in Nodes : OnTrail(v, r, f, P, s)
  <1> DEFINE folders == {m \in Nodes : v[m].type = "folder"}
             W == {m \in Nodes : Live(v, m) /\ (m \in ids \/ v[m].parent \in folders)}
             P == {n \in W : f \in Down(v, {n}, W)}
  <1>1. W \in SUBSET Nodes /\ \A m \in W : Live(v, m) /\ (m \in ids \/ v[m].parent \in folders)
    OBVIOUS
  <1>2. f \in Down(v, ids, W) /\ f \notin folders
    BY DEF FilesBelow
  <1> HIDE DEF W
  <1>3. PICK s \in ids \cap W : f \in Down(v, {s}, W)
    BY <1>1, <1>2, DownFromOne
  <1>4. f \in W
    BY <1>1, <1>2, DownIs
  <1>5. s \in P /\ P \in SUBSET Nodes /\ P \in SUBSET W
    BY <1>1, <1>3
  <1>6. f \in P
    <2>1. {f} \cap W \subseteq Down(v, {f}, W)
      BY <1>1, DownIs
    <2> QED BY <2>1, <1>4
  <1>7. \A n \in P : Live(v, n) /\ f \in Subtree(v, {n})
    <2> TAKE n \in P
    <2>1. f \in Down(v, {n}, W) /\ Live(v, n)
      BY <1>1
    <2>2. PresentIn(v) \in SUBSET Nodes /\ W \subseteq PresentIn(v)
      BY <1>1 DEF PresentIn, Present, Live
    <2> DEFINE S == {n}
    <2>3. S \cap W \subseteq S
      OBVIOUS
    <2> HIDE DEF S
    <2>4. Down(v, S, W) \subseteq Down(v, S, PresentIn(v))
      BY <1>1, <2>2, <2>3, DownGrows
    <2>5. f \in Down(v, {n}, PresentIn(v))
      BY <2>1, <2>4 DEF S
    <2> QED BY <2>1, <2>5, SubtreeIs
  <1>8. f \in Down(v, {s}, P)
    <2> DEFINE D == Down(v, {s}, P)
               X == {n \in W : n \in D \/ n \notin P}
    <2>1. D \subseteq P /\ {s} \cap P \subseteq D
          /\ \A n \in P : v[n].parent \in D => n \in D
      BY <1>5, DownIs
    <2> HIDE DEF D
    <2>2. {s} \cap W \subseteq X
      BY <2>1, <1>5
    <2>3. ASSUME NEW n \in W, v[n].parent \in X PROVE n \in X
      <3>1. SUFFICES ASSUME n \in P PROVE n \in D
        BY <2>3
      <3>2. v[n].parent \in W /\ (v[n].parent \in D \/ v[n].parent \notin P)
        BY <2>3
      <3>3. v[n].parent \in P
        <4>1. n \in Down(v, {v[n].parent}, W)
          <5>1. {v[n].parent} \cap W \subseteq Down(v, {v[n].parent}, W)
            BY <1>1, DownIs
          <5>2. v[n].parent \in Down(v, {v[n].parent}, W)
            BY <5>1, <3>2
          <5> QED BY <5>2, <2>3, <1>1, DownIs
        <4>2. Down(v, {n}, W) \subseteq Down(v, {v[n].parent}, W)
          BY <4>1, <1>1, DownOfDown
        <4> QED BY <4>2, <3>1, <3>2
      <3> QED BY <2>1, <3>1, <3>2, <3>3
    <2> HIDE DEF X
    <2>4. Down(v, {s}, W) \subseteq X
      BY <1>1, <2>2, <2>3, DownIsLeast
    <2>5. f \in X
      BY <2>4, <1>3
    <2> QED BY <2>5, <1>6 DEF X, D
  <1>9. v[f].type = "file"
    BY <1>1, <1>2, <1>4 DEF NodeRow, FileType
  <1>10. \A n \in P : n \in ids \/ v[v[n].parent].type = "folder"
    BY <1>1, <1>5
  <1> HIDE DEF P
  <1>11. OnTrail(v, r, f, P, s)
    BY <1>3, <1>5, <1>6, <1>7, <1>8, <1>9, <1>10 DEF OnTrail
  <1> QED BY <1>1, <1>5, <1>11

LEMMA ZipStartKeeps ==
    ASSUME TreeInv, NEW c \in Callers, NEW ids \in IdSets, ZipStart(c, ids)
    PROVE  TreeInv'
  <1> DEFINE r == [IdleAct EXCEPT !.op = "zip", !.pc = "ready", !.ids = ids]
             d == FilesBelow(rows, ids)
  <1>0. ids \in SUBSET Nodes
    BY DEF IdSets
  <1>1. r \in ActShape /\ r.op = "zip" /\ r.pc = "ready" /\ r.wrote = NoRows
        /\ r.ids = ids /\ r.seen = {} /\ r.batch = {}
    BY <1>0, IdleIs DEF ActShape, OpNames, IdleAct
  <1>2. Begin(c, r) /\ due' = [due EXCEPT ![c] = d]
    BY DEF ZipStart
  <1>3. d \in SUBSET Nodes
    <2> DEFINE W == {m \in Nodes : /\ Live(rows, m)
                                   /\ \/ m \in ids
                                      \/ rows[m].parent \in {k \in Nodes : rows[k].type = "folder"}}
    <2>1. W \in SUBSET Nodes
      OBVIOUS
    <2>2. d \subseteq Down(rows, ids, W)
      BY DEF FilesBelow
    <2> HIDE DEF W, d
    <2> QED BY <2>1, <2>2, DownIs
  <1>4. d = FilesBelow(rows, ids) /\ r.ids = ids
    BY <1>1
  <1> HIDE DEF r, d
  <1>5. RequestRight(r)
    BY <1>1 DEF RequestRight
  <1>6. rows \in [Nodes -> NodeRow]
    BY DEF TreeInv, RowsRight
  <1>7. WalkRight(rows, r, d)
    BY <1>1, <1>4, <1>6, TrailBegins DEF WalkRight
  <1> QED BY <1>1, <1>2, <1>3, <1>5, <1>7, BeginStep
-----------------------------------------------------------------------------
(* A request goes on, and the rows stay as they are                          *)

LEMMA ActIs ==
    ASSUME TreeInv, NEW c \in Actors
    PROVE  /\ act[c] \in ActShape /\ DOMAIN act = Actors
           /\ RequestRight(act[c]) /\ WroteRight(rows, act[c])
           /\ WalkRight(rows, act[c], due[c])
           /\ due[c] \in SUBSET Nodes /\ due = [due EXCEPT ![c] = due[c]]
           /\ \A o \in Actors \ {c} : DOMAIN act[c].wrote \cap DOMAIN act[o].wrote = {}
           /\ act[c].op # "rename" => DOMAIN act[c].wrote = {}
  <1>1. WroteRight(rows, act[c])
    BY DEF TreeInv
  <1>2. act[c].op # "rename" => DOMAIN act[c].wrote = {}
    BY <1>1 DEF WroteRight
  <1>3. due[c] \in SUBSET Nodes /\ due = [due EXCEPT ![c] = due[c]]
    BY DEF TreeInv
  <1>4. \A o \in Actors \ {c} : DOMAIN act[c].wrote \cap DOMAIN act[o].wrote = {}
    BY DEF TreeInv
  <1>5. act[c] \in ActShape /\ DOMAIN act = Actors /\ RequestRight(act[c])
        /\ WalkRight(rows, act[c], due[c])
    BY DEF TreeInv
  <1> QED BY <1>1, <1>2, <1>3, <1>4, <1>5

LEMMA PathStepKeeps ==
    ASSUME TreeInv, NEW c \in Actors, NEW n \in Nodes, PathStep(c, n)
    PROVE  TreeInv'
  <1> DEFINE a == act[c]
             r == [a EXCEPT !.dest = n, !.path = Tail(a.path)]
  <1>1. a \in ActShape /\ RequestRight(a) /\ WroteRight(rows, a) /\ due[c] \in SUBSET Nodes
        /\ due = [due EXCEPT ![c] = due[c]] /\ DOMAIN a.wrote = {} /\ DOMAIN act = Actors
    BY ActIs DEF PathStep
  <1>2. a.op \in {"mkdir", "copy"} /\ a.path # <<>>
    BY DEF PathStep
  <1>3. rows' = rows /\ due' = due /\ calls' = calls /\ act' = [act EXCEPT ![c] = r]
    BY <1>1 DEF PathStep
  <1> HIDE DEF a
  <1>4. a.path \in Seq(NodeNames) /\ Tail(a.path) \in Seq(NodeNames)
    <2>1. a.path \in Seq(NodeNames)
      BY <1>1 DEF ActShape
    <2> QED BY <2>1, <1>2
  <1>5. r \in ActShape /\ r.op = a.op /\ r.pc = a.pc /\ r.wrote = a.wrote /\ r.ids = a.ids
        /\ r.dest = n /\ r.name = a.name
    BY <1>1, <1>4 DEF ActShape
  <1> HIDE DEF r
  <1>6. RequestRight(r)
    BY <1>1, <1>2, <1>5 DEF RequestRight
  <1>7. WroteRight(rows, r) /\ WalkRight(rows, r, due[c])
    BY <1>1, <1>2, <1>5 DEF WroteRight, WalkRight
  <1>8. calls' \in 0 .. MaxCalls
    BY <1>3 DEF TreeInv
  <1>9. \A o \in Actors \ {c} : DOMAIN r.wrote \cap DOMAIN act[o].wrote = {}
    BY <1>1, <1>5
  <1> QED BY <1>1, <1>3, <1>5, <1>6, <1>7, <1>8, <1>9, RequestStep

LEMMA FailKeeps ==
    ASSUME TreeInv, NEW c \in Actors, rows' = rows, calls' = calls,
           Done(c), due' = [due EXCEPT ![c] = {}]
    PROVE  TreeInv'
  <1>1. act' = [act EXCEPT ![c] = IdleAct]
    BY DEF Done
  <1>2. IdleAct \in ActShape /\ DOMAIN IdleAct.wrote = {}
    BY IdleIs
  <1>3. RequestRight(IdleAct) /\ WroteRight(rows, IdleAct) /\ WalkRight(rows, IdleAct, {})
    BY IdleRight
  <1>4. calls' \in 0 .. MaxCalls
    BY DEF TreeInv
  <1> DEFINE d == {}
             r == IdleAct
  <1>5. d \in SUBSET Nodes /\ due' = [due EXCEPT ![c] = d] /\ WalkRight(rows, r, d)
        /\ r \in ActShape /\ act' = [act EXCEPT ![c] = r] /\ DOMAIN r.wrote = {}
        /\ RequestRight(r) /\ WroteRight(rows, r)
    BY <1>1, <1>2, <1>3
  <1> HIDE DEF d, r
  <1>6. \A o \in Actors \ {c} : DOMAIN r.wrote \cap DOMAIN act[o].wrote = {}
    BY <1>5
  <1> QED BY <1>4, <1>5, <1>6, RequestStep

LEMMA ZipNextKeeps ==
    ASSUME TreeInv, NEW c \in Actors, ZipNext(c)
    PROVE  TreeInv'
  <1> DEFINE a == act[c]
             pc == IF a.ids = {} THEN "finish" ELSE "ready"
             r == [a EXCEPT !.pc = pc]
  <1>1. a \in ActShape /\ RequestRight(a) /\ WroteRight(rows, a) /\ due[c] \in SUBSET Nodes
        /\ due = [due EXCEPT ![c] = due[c]] /\ WalkRight(rows, a, due[c]) /\ DOMAIN act = Actors
    BY ActIs
  <1>2. a.pc = "pluck" /\ a.batch = {}
    BY DEF ZipNext
  <1>3. a.op = "zip" /\ DOMAIN a.wrote = {}
    BY <1>1, <1>2, ActIs DEF RequestRight
  <1>4. rows' = rows /\ due' = due /\ calls' = calls /\ act' = [act EXCEPT ![c] = r]
    BY <1>1 DEF ZipNext, Goto
  <1>5. pc \in {"finish", "ready"} /\ (pc = "finish" => a.ids = {})
    OBVIOUS
  <1> HIDE DEF a, pc
  <1>6. r \in ActShape /\ r.op = a.op /\ r.pc = pc /\ r.wrote = a.wrote /\ r.ids = a.ids
        /\ r.batch = a.batch /\ r.seen = a.seen /\ r.files = a.files
    BY <1>1, <1>5 DEF ActShape
  <1> HIDE DEF r
  <1>7. RequestRight(r)
    BY <1>3, <1>5, <1>6 DEF RequestRight
  <1>8. WroteRight(rows, r)
    BY <1>3, <1>6 DEF WroteRight
  <1>9. \A f, P, s : OnTrail(rows, a, f, P, s) => OnTrail(rows, r, f, P, s)
    BY <1>6 DEF OnTrail
  <1>10. WalkRight(rows, r, due[c])
    BY <1>1, <1>2, <1>3, <1>5, <1>6, <1>9 DEF WalkRight
  <1>11. calls' \in 0 .. MaxCalls
    BY <1>4 DEF TreeInv
  <1>12. \A o \in Actors \ {c} : DOMAIN r.wrote \cap DOMAIN act[o].wrote = {}
    BY <1>3, <1>6
  <1> QED BY <1>1, <1>4, <1>6, <1>7, <1>8, <1>10, <1>11, <1>12, RequestStep

LEMMA ZipBatchKeeps ==
    ASSUME TreeInv, NEW c \in Actors, ZipBatch(c)
    PROVE  TreeInv'
  <1> DEFINE a == act[c]
             new == {n \in a.ids : Live(rows, n)} \ a.seen
             folders == {n \in new : rows[n].type = "folder"}
             files == new \ folders
             pc == IF new = {} THEN "finish" ELSE "pluck"
             r == [a EXCEPT !.ids = {}, !.batch = folders, !.seen = a.seen \cup new,
                            !.files = a.files \cup files, !.pc = pc]
  <1>1. a \in ActShape /\ RequestRight(a) /\ WroteRight(rows, a) /\ due[c] \in SUBSET Nodes
        /\ due = [due EXCEPT ![c] = due[c]] /\ WalkRight(rows, a, due[c]) /\ DOMAIN act = Actors
    BY ActIs
  <1>2. a.op = "zip" /\ a.pc = "ready"
    BY DEF ZipBatch
  <1>3. a.batch = {} /\ DOMAIN a.wrote = {}
    BY <1>1, <1>2, ActIs DEF WalkRight
  <1>4. rows' = rows /\ due' = due /\ calls' = calls /\ act' = [act EXCEPT ![c] = r]
    BY <1>1 DEF ZipBatch
  <1>5. /\ pc \in {"finish", "pluck"} /\ (pc = "finish" => folders = {})
        /\ folders \subseteq new /\ files = new \ folders
        /\ \A n \in new : n \in a.ids /\ Live(rows, n) /\ n \notin a.seen
                          /\ (rows[n].type = "folder" => n \in folders)
        /\ \A n \in a.ids : Live(rows, n) => n \in a.seen \cup new
        /\ \A n \in folders : rows[n].type = "folder"
    OBVIOUS
  <1> HIDE DEF a, pc, new, folders, files
  <1>6. r \in ActShape /\ r.op = a.op /\ r.pc = pc /\ r.wrote = a.wrote /\ r.ids = {}
        /\ r.batch = folders /\ r.seen = a.seen \cup new /\ r.files = a.files \cup files
    BY <1>1, <1>5 DEF ActShape
  <1> HIDE DEF r
  <1>7. RequestRight(r)
    BY <1>2, <1>5, <1>6 DEF RequestRight
  <1>8. WroteRight(rows, r)
    BY <1>2, <1>3, <1>6 DEF WroteRight
  <1>9. ASSUME NEW f, NEW P \in SUBSET Nodes, NEW s, OnTrail(rows, a, f, P, s)
        PROVE  OnTrail(rows, r, f, P, s)
    <2>1. /\ f \in P /\ s \in P \cap (a.ids \cup a.seen)
          /\ \A n \in P : Live(rows, n) /\ f \in Subtree(rows, {n})
          /\ f \in Down(rows, {s}, P)
          /\ rows[f].type = "file" /\ (f \in a.seen => f \in a.files)
          /\ \A n \in P : rows[n].parent \in P =>
                \/ n \in a.ids \cup a.seen
                \/ /\ rows[rows[n].parent].type = "folder"
                   /\ rows[n].parent \notin a.seen \ a.batch
      BY <1>9 DEF OnTrail
    <2>2. \A n \in P : n \in a.ids \cup a.seen => n \in r.ids \cup r.seen
      BY <2>1, <1>5, <1>6
    <2>3. f \in r.seen => f \in r.files
      <3>1. f \in new => f \notin folders
        BY <2>1, <1>5
      <3> QED BY <3>1, <2>1, <1>5, <1>6
    <2>4. ASSUME NEW n \in P, rows[n].parent \in P,
                 rows[rows[n].parent].type = "folder", rows[n].parent \notin a.seen \ a.batch
          PROVE  rows[n].parent \notin r.seen \ r.batch
      BY <2>4, <1>3, <1>5, <1>6
    <2> QED BY <2>1, <2>2, <2>3, <2>4 DEF OnTrail
  <1>10. WalkRight(rows, r, due[c])
    BY <1>1, <1>2, <1>3, <1>5, <1>6, <1>9 DEF WalkRight
  <1>11. calls' \in 0 .. MaxCalls
    BY <1>4 DEF TreeInv
  <1>12. \A o \in Actors \ {c} : DOMAIN r.wrote \cap DOMAIN act[o].wrote = {}
    BY <1>3, <1>6
  <1> QED BY <1>1, <1>4, <1>6, <1>7, <1>8, <1>10, <1>11, <1>12, RequestStep

LEMMA ZipChildrenKeeps ==
    ASSUME TreeInv, NEW c \in Actors, NEW k \in Nodes, ZipChildren(c, k)
    PROVE  TreeInv'
  <1> DEFINE a == act[c]
             ids == a.ids \cup Children(rows, k)
             batch == a.batch \ {k}
             r == [a EXCEPT !.ids = ids, !.batch = batch]
  <1>1. a \in ActShape /\ RequestRight(a) /\ WroteRight(rows, a) /\ due[c] \in SUBSET Nodes
        /\ due = [due EXCEPT ![c] = due[c]] /\ WalkRight(rows, a, due[c]) /\ DOMAIN act = Actors
    BY ActIs
  <1>2. a.pc = "pluck" /\ k \in a.batch
    BY DEF ZipChildren
  <1>3. a.op = "zip" /\ DOMAIN a.wrote = {}
    BY <1>1, <1>2, ActIs DEF RequestRight
  <1>4. rows' = rows /\ due' = due /\ calls' = calls /\ act' = [act EXCEPT ![c] = r]
    BY <1>1 DEF ZipChildren
  <1>5. /\ Children(rows, k) \in SUBSET Nodes
        /\ \A m \in Nodes : Live(rows, m) /\ rows[m].parent = k => m \in Children(rows, k)
    BY DEF Children
  <1> HIDE DEF a
  <1>6. r \in ActShape /\ r.op = a.op /\ r.pc = a.pc /\ r.wrote = a.wrote
        /\ r.ids = a.ids \cup Children(rows, k)
        /\ r.batch = a.batch \ {k} /\ r.seen = a.seen /\ r.files = a.files
    <2>1. ids \in SUBSET Nodes /\ batch \in SUBSET Nodes
      BY <1>1, <1>5 DEF ActShape
    <2>2. ids = a.ids \cup Children(rows, k) /\ batch = a.batch \ {k}
      OBVIOUS
    <2> HIDE DEF ids, batch
    <2> QED BY <1>1, <2>1, <2>2 DEF ActShape
  <1> HIDE DEF r
  <1>7. RequestRight(r)
    BY <1>2, <1>3, <1>6 DEF RequestRight
  <1>8. WroteRight(rows, r)
    BY <1>3, <1>6 DEF WroteRight
  <1>9. ASSUME NEW f, NEW P \in SUBSET Nodes, NEW s, OnTrail(rows, a, f, P, s)
        PROVE  OnTrail(rows, r, f, P, s)
    <2>1. /\ f \in P /\ s \in P \cap (a.ids \cup a.seen)
          /\ \A n \in P : Live(rows, n) /\ f \in Subtree(rows, {n})
          /\ f \in Down(rows, {s}, P)
          /\ rows[f].type = "file" /\ (f \in a.seen => f \in a.files)
          /\ \A n \in P : rows[n].parent \in P =>
                \/ n \in a.ids \cup a.seen
                \/ /\ rows[rows[n].parent].type = "folder"
                   /\ rows[n].parent \notin a.seen \ a.batch
      BY <1>9 DEF OnTrail
    <2>2. ASSUME NEW n \in P, rows[n].parent \in P
          PROVE  \/ n \in r.ids \cup r.seen
                 \/ /\ rows[rows[n].parent].type = "folder"
                    /\ rows[n].parent \notin r.seen \ r.batch
      <3>1. CASE rows[n].parent = k
        BY <3>1, <2>1, <1>5, <1>6
      <3>2. CASE rows[n].parent # k
        BY <3>2, <2>1, <2>2, <1>6
      <3> QED BY <3>1, <3>2
    <2>3. f \in r.seen => f \in r.files
      BY <2>1, <1>6
    <2>4. s \in P \cap (r.ids \cup r.seen)
      BY <2>1, <1>6
    <2> QED BY <2>1, <2>2, <2>3, <2>4 DEF OnTrail
  <1>10. WalkRight(rows, r, due[c])
    BY <1>1, <1>2, <1>3, <1>6, <1>9 DEF WalkRight
  <1>11. calls' \in 0 .. MaxCalls
    BY <1>4 DEF TreeInv
  <1>12. \A o \in Actors \ {c} : DOMAIN r.wrote \cap DOMAIN act[o].wrote = {}
    BY <1>3, <1>6
  <1> QED BY <1>1, <1>4, <1>6, <1>7, <1>8, <1>10, <1>11, <1>12, RequestStep

-----------------------------------------------------------------------------
(* The statements of a move under a new name                                 *)

LEMMA ViewIs ==
    ASSUME TreeInv, NEW c \in Actors
    PROVE  /\ View(c) \in [Nodes -> NodeRow]
           /\ \A n \in Nodes : n \in DOMAIN act[c].wrote => View(c)[n] = act[c].wrote[n]
           /\ \A n \in Nodes : n \notin DOMAIN act[c].wrote => View(c)[n] = rows[n]
           /\ DOMAIN act[c].wrote = {} => View(c) = rows
  <1>1. act[c] \in ActShape /\ rows \in [Nodes -> NodeRow]
    BY ActIs DEF TreeInv, RowsRight
  <1>2. \A n \in DOMAIN act[c].wrote : act[c].wrote[n] \in NodeRow
    BY <1>1, WroteIs
  <1> QED BY <1>1, <1>2 DEF View

LEMMA SubtreeOfOne ==
    ASSUME NEW v, NEW f, NEW n \in Subtree(v, {f})
    PROVE  f \in Subtree(v, {f}) /\ f \in Nodes /\ Present(v, f)
  <1>1. CASE f \in Nodes /\ Present(v, f)
    BY <1>1, SubtreeIs
  <1>2. CASE ~(f \in Nodes /\ Present(v, f))
    <2> DEFINE none == {}
               S == {f}
    <2>1. /\ \A m \in S : m \in Nodes /\ Present(v, m) => m \in none
          /\ \A m \in Nodes : Present(v, m) /\ v[m].parent \in none => m \in none
      BY <1>2
    <2> HIDE DEF none, S
    <2>2. Subtree(v, S) \subseteq none
      BY <2>1, SubtreeIsLeast
    <2> QED BY <2>2 DEF none, S
  <1> QED BY <1>1, <1>2

(* What a statement has written is locked: no other request wrote it.        *)
LEMMA StageStep ==
    ASSUME TreeInv, NEW c \in Actors, NEW a \in ActShape, NEW written \in SUBSET Nodes,
           NEW w \in [Nodes -> NodeRow], NEW r,
           a.wrote = act[c].wrote, a.op = "rename", Stage(c, written, w, a),
           r = [a EXCEPT !.wrote = [n \in written \cup DOMAIN a.wrote |-> w[n]]],
           RequestRight(r), WroteRight(rows, r)
    PROVE  TreeInv'
  <1>1. act[c] \in ActShape /\ due[c] \in SUBSET Nodes /\ due = [due EXCEPT ![c] = due[c]]
        /\ \A o \in Actors \ {c} : DOMAIN act[c].wrote \cap DOMAIN act[o].wrote = {}
    BY ActIs
  <1>2. /\ rows' = rows /\ due' = due /\ calls' = calls
        /\ act' = [act EXCEPT ![c] = r] /\ ~LockedFor(c, written)
    BY DEF Stage
  <1>3. DOMAIN a.wrote \in SUBSET Nodes
    BY WroteIs
  <1> DEFINE D == written \cup DOMAIN a.wrote
             x == [n \in D |-> w[n]]
  <1>4. D \in SUBSET Nodes /\ x \in [D -> NodeRow] /\ DOMAIN x = D
    BY <1>3
  <1>5. x \in UNION {[S -> NodeRow] : S \in SUBSET Nodes}
    BY <1>4
  <1>6. r = [a EXCEPT !.wrote = x]
    OBVIOUS
  <1>7. \A o \in Actors \ {c} : D \cap DOMAIN act[o].wrote = {}
    BY <1>1, <1>2 DEF LockedFor
  <1> HIDE DEF D, x
  <1>8. r \in ActShape /\ r.wrote = x /\ r.op = "rename"
    BY <1>5, <1>6 DEF ActShape
  <1>9. WalkRight(rows, r, due[c])
    BY <1>8 DEF WalkRight
  <1>10. calls' \in 0 .. MaxCalls
    BY <1>2 DEF TreeInv
  <1>11. \A o \in Actors \ {c} : DOMAIN r.wrote \cap DOMAIN act[o].wrote = {}
    BY <1>4, <1>7, <1>8
  <1> QED BY <1>1, <1>2, <1>8, <1>9, <1>10, <1>11, RequestStep

LEMMA RenameReadKeeps ==
    ASSUME TreeInv, NEW c \in Actors, RenameRead(c)
    PROVE  TreeInv'
  <1> DEFINE a == act[c]
  <1>1. a \in ActShape /\ RequestRight(a) /\ WroteRight(rows, a) /\ due[c] \in SUBSET Nodes
        /\ due = [due EXCEPT ![c] = due[c]] /\ DOMAIN act = Actors
        /\ \A o \in Actors \ {c} : DOMAIN a.wrote \cap DOMAIN act[o].wrote = {}
    BY ActIs
  <1>2. a.op = "rename" /\ a.pc = "ready"
    BY DEF RenameRead
  <1>3. rows' = rows /\ due' = due /\ calls' = calls
    BY DEF RenameRead
  <1>4. \E n \in Nodes \cup {NoNode}, pc \in {"merge", "replace", "finish"} :
          /\ act' = [act EXCEPT ![c] = [a EXCEPT !.found = n, !.pc = pc]]
          /\ pc # "finish" => n \in Nodes
    <2>1. a.found \in Nodes \cup {NoNode}
      BY <1>1 DEF ActShape
    <2>2. ASSUME Goto(c, "finish")
          PROVE  act' = [act EXCEPT ![c] = [a EXCEPT !.found = a.found, !.pc = "finish"]]
      <3>1. [a EXCEPT !.found = a.found, !.pc = "finish"] = [a EXCEPT !.pc = "finish"]
        BY <1>1 DEF ActShape
      <3> QED BY <2>2, <3>1, <1>1 DEF Goto
    <2>3. ASSUME NEW n, NEW pc, act' = [act EXCEPT ![c].found = n, ![c].pc = pc]
          PROVE  act' = [act EXCEPT ![c] = [a EXCEPT !.found = n, !.pc = pc]]
      BY <2>3, <1>1
    <2> DEFINE hit == {n \in Nodes : /\ Live(rows, n) /\ rows[n].name = act[c].name
                                     /\ rows[n].parent = act[c].dest}
               both(src, n) == rows[src].type = "folder" /\ rows[n].type = "folder"
               pcOf(src, n) == IF both(src, n) THEN "merge" ELSE "replace"
    <2>4. \/ Goto(c, "finish")
          \/ \E src \in act[c].ids : \E n \in hit :
               act' = [act EXCEPT ![c].found = n, ![c].pc = pcOf(src, n)]
      BY DEF RenameRead
    <2>5. \A src, n : pcOf(src, n) \in {"merge", "replace"}
      OBVIOUS
    <2>6. hit \subseteq Nodes
      OBVIOUS
    <2> HIDE DEF a, hit, pcOf
    <2>7. CASE Goto(c, "finish")
      BY <2>7, <2>1, <2>2
    <2>8. CASE ~Goto(c, "finish")
      <3>1. PICK src \in act[c].ids, n \in hit :
               act' = [act EXCEPT ![c].found = n, ![c].pc = pcOf(src, n)]
        BY <2>4, <2>8
      <3>2. pcOf(src, n) \in {"merge", "replace"} /\ n \in Nodes
        BY <2>5, <2>6
      <3>3. act' = [act EXCEPT ![c] = [a EXCEPT !.found = n, !.pc = pcOf(src, n)]]
        BY <2>3, <3>1
      <3> QED BY <3>2, <3>3
    <2> QED BY <2>7, <2>8
  <1>5. PICK n \in Nodes \cup {NoNode}, pc \in {"merge", "replace", "finish"} :
          /\ act' = [act EXCEPT ![c] = [a EXCEPT !.found = n, !.pc = pc]]
          /\ pc # "finish" => n \in Nodes
    BY <1>4
  <1> DEFINE r == [a EXCEPT !.found = n, !.pc = pc]
  <1> HIDE DEF a
  <1>6. r \in ActShape /\ r.op = a.op /\ r.pc = pc /\ r.wrote = a.wrote /\ r.ids = a.ids
        /\ r.found = n /\ r.kept = a.kept /\ r.dest = a.dest /\ r.name = a.name
    BY <1>1 DEF ActShape
  <1>7. act' = [act EXCEPT ![c] = r]
    BY <1>5
  <1> HIDE DEF r
  <1>8. PICK src \in Nodes \ {Root} : a.ids = {src} /\ RenameRight(rows, a, src)
    BY <1>1, <1>2 DEF WroteRight
  <1>9. DOMAIN a.wrote = {} /\ a.kept = {}
    BY <1>2, <1>8 DEF RenameRight
  <1>10. RenameRight(rows, r, src)
    BY <1>5, <1>6, <1>9 DEF RenameRight
  <1>11. RequestRight(r)
    BY <1>1, <1>2, <1>6 DEF RequestRight
  <1>12. WroteRight(rows, r)
    BY <1>6, <1>8, <1>9, <1>10 DEF WroteRight
  <1>13. WalkRight(rows, r, due[c])
    BY <1>2, <1>6 DEF WalkRight
  <1>14. calls' \in 0 .. MaxCalls
    BY <1>3 DEF TreeInv
  <1>15. \A o \in Actors \ {c} : DOMAIN r.wrote \cap DOMAIN act[o].wrote = {}
    BY <1>6, <1>9
  <1> QED BY <1>1, <1>3, <1>6, <1>7, <1>11, <1>12, <1>13, <1>14, <1>15, RequestStep

LEMMA RenameMergeKeeps ==
    ASSUME TreeInv, NEW c \in Actors, RenameMerge(c)
    PROVE  TreeInv'
  <1> DEFINE a == act[c]
  <1>1. a \in ActShape /\ RequestRight(a) /\ WroteRight(rows, a) /\ RowsRight(rows)
    BY ActIs DEF TreeInv
  <1>2. a.pc = "merge" /\ a.op = "rename"
    BY <1>1 DEF RenameMerge, RequestRight
  <1>3. PICK src \in Nodes \ {Root} : a.ids = {src} /\ RenameRight(rows, a, src)
    BY <1>1, <1>2 DEF WroteRight
  <1>4. DOMAIN a.wrote = {} /\ a.kept = {} /\ a.found \in Nodes
    BY <1>2, <1>3 DEF RenameRight
  <1>5. View(c) = rows
    BY <1>4, ViewIs
  <1> DEFINE M == Merged(rows, src, a.found)
             w == MergeInto(rows, src, a.found)
             b == [a EXCEPT !.pc = "replace", !.kept = M]
  <1>6. Stage(c, M, w, b)
    <2>1. Merged(rows, src, a.found)
            = {n \in Children(rows, a.found) : rows[n].name \notin NamesIn(rows, src)}
      BY DEF Merged
    <2> QED BY <1>3, <1>5, <2>1 DEF RenameMerge
  <1>7. /\ M \in SUBSET Nodes
        /\ \A n \in M : Live(rows, n) /\ rows[n].parent = a.found
        /\ M # {} => a.found # src
    BY DEF Merged, Children, NamesIn
  <1>8. rows \in [Nodes -> NodeRow]
    BY <1>1 DEF RowsRight
  <1>9. /\ w \in [Nodes -> NodeRow]
        /\ \A n \in M : w[n] = [rows[n] EXCEPT !.parent = src]
    <2>1. \A n \in Nodes : rows[n] \in NodeRow /\ [rows[n] EXCEPT !.parent = src] \in NodeRow
      BY <1>3, <1>8 DEF NodeRow
    <2>2. w = [n \in Nodes |-> IF n \in M THEN [rows[n] EXCEPT !.parent = src] ELSE rows[n]]
      BY DEF MergeInto
    <2> HIDE DEF w, M
    <2> QED BY <2>1, <2>2, <1>7
  <1> DEFINE x == [n \in M \cup DOMAIN a.wrote |-> w[n]]
             r == [b EXCEPT !.wrote = x]
  <1>10. DOMAIN x = M /\ \A n \in M : x[n] = [rows[n] EXCEPT !.parent = src]
    BY <1>4, <1>9
  <1> HIDE DEF a, M, w
  <1>11. b \in ActShape /\ b.wrote = a.wrote /\ b.op = "rename" /\ b.dest = a.dest
         /\ b.name = a.name /\ b.ids = a.ids /\ b.found = a.found /\ b.pc = "replace"
         /\ b.kept = M
    BY <1>1, <1>2, <1>7 DEF ActShape
  <1>12. r.op = "rename" /\ r.dest = a.dest /\ r.name = a.name /\ r.ids = a.ids
         /\ r.found = a.found /\ r.pc = "replace" /\ r.kept = M /\ r.wrote = x
    BY <1>11 DEF ActShape
  <1>13. r = [b EXCEPT !.wrote = [n \in M \cup DOMAIN b.wrote |-> w[n]]]
    BY <1>11
  <1> HIDE DEF b, x, r
  <1>14. RequestRight(r)
    BY <1>1, <1>2, <1>12 DEF RequestRight
  <1>15. ASSUME NEW n \in M
         PROVE  /\ rows[n].status = "active" /\ Present(rows, n)
                /\ x[n].status = "active" /\ x[n].name # NoName
                /\ x[n].parent # NoNode /\ n # Root
    <2>1. n \in Nodes /\ rows[n].status = "active" /\ rows[n].parent = a.found
      BY <1>7 DEF Live
    <2>2. rows[n].name # NoName /\ (rows[n].parent = NoNode) = (n = Root)
      BY <2>1, <1>1 DEF RowsRight
    <2>3. rows[n] \in NodeRow /\ src \in Nodes
      BY <2>1, <1>8, <1>3
    <2>4. x[n].status = rows[n].status /\ x[n].name = rows[n].name /\ x[n].parent = src
      BY <2>3, <1>10 DEF NodeRow
    <2>5. NoNode \notin Nodes
      BY FileTreeAssumption DEF NoNode, Nodes
    <2> QED BY <2>1, <2>2, <2>3, <2>4, <2>5, <1>4 DEF Present
  <1>16. RenameRight(rows, r, src)
    <2>1. \A n \in M : MovedUp(rows, r, n, src)
      BY <1>7, <1>10, <1>12, <1>15 DEF MovedUp
    <2> QED BY <2>1, <1>4, <1>7, <1>10, <1>12 DEF RenameRight
  <1>17. WroteRight(rows, r)
    BY <1>3, <1>10, <1>12, <1>15, <1>16 DEF WroteRight
  <1>18. b.wrote = act[c].wrote
    BY <1>11 DEF a
  <1> QED BY <1>6, <1>7, <1>9, <1>11, <1>13, <1>14, <1>17, <1>18, StageStep

LEMMA RenameReplaceKeeps ==
    ASSUME TreeInv, NEW c \in Actors, RenameReplace(c)
    PROVE  TreeInv'
  <1> DEFINE a == act[c]
             v == View(c)
             f == a.found
             X == Subtree(v, {f})
             w == BulkDelete(v, {f})
             b == [a EXCEPT !.pc = "finish"]
             D == DOMAIN a.wrote
             x == [n \in X \cup DOMAIN a.wrote |-> w[n]]
             r == [b EXCEPT !.wrote = x]
  <1>1. a \in ActShape /\ RequestRight(a) /\ WroteRight(rows, a) /\ RowsRight(rows)
    BY ActIs DEF TreeInv
  <1>2. a.pc = "replace" /\ a.op = "rename"
    BY <1>1 DEF RenameReplace, RequestRight
  <1>3. PICK src \in Nodes \ {Root} : a.ids = {src} /\ RenameRight(rows, a, src)
    BY <1>1, <1>2 DEF WroteRight
  <1>4. /\ \A n \in D : MovedUp(rows, a, n, src)
        /\ f \in Nodes /\ a.kept \subseteq D
    BY <1>2, <1>3 DEF RenameRight
  <1>5. /\ D \in SUBSET Nodes /\ v \in [Nodes -> NodeRow] /\ rows \in [Nodes -> NodeRow]
        /\ \A n \in D : v[n] = a.wrote[n]
        /\ \A n \in Nodes : n \notin D => v[n] = rows[n]
    BY <1>1, WroteIs, ViewIs DEF RowsRight
  <1>6. Stage(c, X, w, b)
    BY DEF RenameReplace
  <1>7. /\ X \in SUBSET Nodes
        /\ \A n \in X : Present(v, n) /\ (n = f \/ v[n].parent \in X) /\ f \in X
        /\ \A n \in Nodes : Present(v, n) /\ v[n].parent \in X => n \in X
    BY SubtreeIs, SubtreeOfOne
  <1>8. /\ w \in [Nodes -> NodeRow]
        /\ \A n \in X : /\ w[n].status \in {"pending_deletion", "removed"}
                        /\ w[n].name = v[n].name /\ w[n].parent = v[n].parent
        /\ \A n \in Nodes : n \notin X => w[n] = v[n]
    <2> DEFINE gone(n) == IF v[n].type = "file" THEN [v[n] EXCEPT !.status = "pending_deletion"]
                                                ELSE [v[n] EXCEPT !.status = "removed"]
    <2>1. w = [n \in Nodes |-> IF n \notin X THEN v[n] ELSE gone(n)]
      BY DEF BulkDelete
    <2>2. ASSUME NEW n \in Nodes
          PROVE  /\ v[n] \in NodeRow /\ gone(n) \in NodeRow
                 /\ gone(n).status \in {"pending_deletion", "removed"}
                 /\ gone(n).name = v[n].name /\ gone(n).parent = v[n].parent
      <3>1. v[n] \in NodeRow
        BY <1>5
      <3> HIDE DEF v
      <3> QED BY <3>1 DEF NodeRow
    <2> HIDE DEF w, X, gone, v
    <2> QED BY <2>1, <2>2, <1>7
  <1>9. DOMAIN x = X \cup D /\ \A n \in X \cup D : x[n] = w[n]
    OBVIOUS
  <1> HIDE DEF a, v, X, w, D
  <1>10. b \in ActShape /\ b.wrote = a.wrote /\ b.op = "rename" /\ b.dest = a.dest
         /\ b.name = a.name /\ b.ids = a.ids /\ b.found = f /\ b.pc = "finish"
         /\ b.kept = a.kept
    BY <1>1, <1>2 DEF ActShape
  <1>11. r.op = "rename" /\ r.dest = a.dest /\ r.name = a.name /\ r.ids = a.ids
         /\ r.found = f /\ r.pc = "finish" /\ r.kept = a.kept /\ r.wrote = x
    BY <1>10 DEF ActShape
  <1>12. r = [b EXCEPT !.wrote = [n \in X \cup DOMAIN b.wrote |-> w[n]]]
    BY <1>10
  <1> HIDE DEF b, x, r, f
  <1>13. RequestRight(r)
    BY <1>1, <1>2, <1>11 DEF RequestRight
  <1>14. ASSUME NEW n \in D
         PROVE  /\ n \in Nodes /\ n \in a.kept /\ rows[n].status = "active"
                /\ rows[n].parent = f /\ v[n] = [rows[n] EXCEPT !.parent = src]
                /\ v[n].parent = src /\ v[n].status = "active" /\ v[n].name = rows[n].name
    <2>1. n \in Nodes /\ n \in a.kept /\ rows[n].status = "active" /\ rows[n].parent = a.found
          /\ v[n] = [rows[n] EXCEPT !.parent = src]
      BY <1>4, <1>5 DEF MovedUp
    <2>2. rows[n] \in NodeRow
      BY <2>1, <1>5
    <2> QED BY <2>1, <2>2 DEF NodeRow, f
  <1>15. X \subseteq Down(rows, {f}, X \cup D)
    <2> DEFINE E == X \cup D
               Y == Down(rows, {f}, E)
               Z == X \cap Y
    <2>1. E \in SUBSET Nodes
      BY <1>5, <1>7
    <2> HIDE DEF E
    <2>2. {f} \cap E \subseteq Y /\ \A n \in E : rows[n].parent \in Y => n \in Y
      BY <2>1, DownIs
    <2> HIDE DEF Y
    <2>3. ASSUME NEW n \in {f}, n \in Nodes, Present(v, n) PROVE n \in Z
      <3>1. n \in X
        BY <2>3, SubtreeIs DEF X
      <3> QED BY <3>1, <2>2 DEF E
    <2>4. ASSUME NEW n \in Nodes, Present(v, n), v[n].parent \in Z PROVE n \in Z
      <3>1. n \in X /\ n \in E /\ f \in X /\ f \in E
        BY <2>4, <1>7 DEF E
      <3>2. CASE n \in D
        BY <3>1, <3>2, <2>2, <1>14
      <3>3. CASE n \notin D
        BY <3>1, <3>3, <2>2, <2>4, <1>5
      <3> QED BY <3>1, <3>2, <3>3
    <2> HIDE DEF Z
    <2> DEFINE S == {f}
    <2>5. \A n \in S : n \in Nodes /\ Present(v, n) => n \in Z
      BY <2>3
    <2> HIDE DEF S
    <2>6. Subtree(v, S) \subseteq Z
      BY <2>4, <2>5, SubtreeIsLeast
    <2> QED BY <2>6 DEF S, X, Z, Y, E
  <1>16. \A n \in X : Taken(rows, r, n)
    BY <1>8, <1>9, <1>11, <1>15 DEF Taken, Live
  <1>17. ASSUME NEW n \in D, n \notin X
         PROVE  MovedUp(rows, r, n, src) /\ ~Taken(rows, r, n)
    <2>1. x[n] = v[n]
      BY <1>17, <1>8, <1>9, <1>14
    <2> QED BY <2>1, <1>11, <1>14 DEF MovedUp, Taken, Live
  <1>18. ASSUME src \in X PROVE \A n \in D : n \in X
    BY <1>18, <1>7, <1>14 DEF Present
  <1>19. ASSUME NEW n \in D \cap X, n # f PROVE src \in X
    BY <1>19, <1>7, <1>14
  <1>20. RenameRight(rows, r, src)
    <2>1. \A n \in DOMAIN r.wrote : Taken(rows, r, n) \/ MovedUp(rows, r, n, src)
      BY <1>9, <1>11, <1>16, <1>17
    <2>2. src \in DOMAIN r.wrote /\ Taken(rows, r, src) =>
             \A n \in DOMAIN r.wrote : Taken(rows, r, n)
      BY <1>9, <1>11, <1>16, <1>17, <1>18
    <2>3. \A n \in r.kept \ {r.found} :
             Taken(rows, r, n) => src \in DOMAIN r.wrote /\ Taken(rows, r, src)
      BY <1>4, <1>9, <1>11, <1>16, <1>17, <1>19
    <2>4. r.kept \subseteq DOMAIN r.wrote /\ r.found \in Nodes
      BY <1>4, <1>9, <1>11 DEF f
    <2> QED BY <2>1, <2>2, <2>3, <2>4, <1>11 DEF RenameRight
  <1>21. ASSUME NEW n \in DOMAIN r.wrote
         PROVE  /\ Present(rows, n)
                /\ r.wrote[n].status # "free" /\ r.wrote[n].name # NoName
                /\ (r.wrote[n].parent = NoNode) = (n = Root)
                /\ r.wrote[n].status = "active" => rows[n].status = "active"
    <2>1. n \in X \cup D /\ n \in Nodes /\ r.wrote[n] = w[n]
      BY <1>5, <1>7, <1>9, <1>11
    <2>2. w[n].name = v[n].name /\ w[n].parent = v[n].parent /\ (n \notin X => w[n] = v[n])
      BY <2>1, <1>8
    <2>3. CASE n \in D
      <3>0. v[n] = a.wrote[n] /\ n \in DOMAIN a.wrote /\ rows[n].status = "active"
        BY <2>3, <1>5, <1>14 DEF D
      <3>1. /\ Present(rows, n) /\ v[n].name # NoName
            /\ (v[n].parent = NoNode) = (n = Root) /\ rows[n].status = "active"
        BY <3>0, <1>1 DEF WroteRight
      <3>2. w[n].status # "free"
        BY <2>3, <2>1, <1>8, <1>14
      <3> QED BY <2>1, <2>2, <3>1, <3>2
    <2>4. CASE n \notin D
      <3>1. n \in X /\ v[n] = rows[n] /\ Present(rows, n)
        BY <2>1, <2>4, <1>5, <1>7 DEF Present
      <3>2. rows[n].name # NoName /\ (rows[n].parent = NoNode) = (n = Root)
        BY <2>1, <3>1, <1>1 DEF RowsRight, Present
      <3>3. w[n].status # "free" /\ w[n].status # "active"
        BY <3>1, <1>8
      <3> QED BY <2>1, <2>2, <3>1, <3>2, <3>3
    <2> QED BY <2>3, <2>4
  <1>22. WroteRight(rows, r)
    BY <1>3, <1>11, <1>20, <1>21 DEF WroteRight
  <1>23. b.wrote = act[c].wrote
    BY <1>10 DEF a
  <1> QED BY <1>6, <1>7, <1>8, <1>10, <1>12, <1>13, <1>22, <1>23, StageStep

-----------------------------------------------------------------------------
(* The steps that change rows                                                *)

(* The statement of a request that is then done; v is what it saw.           *)
LEMMA RequestCommits ==
    ASSUME TreeInv, NEW c \in Actors, NEW v, NEW w, RowsRight(w),
           \A n \in Nodes : n \notin DOMAIN act[c].wrote => v[n] = rows[n],
           Allowed(c, v, w), Commit(w), Done(c), calls' = calls
    PROVE  TreeInv'
  <1>1. act \in [Actors -> ActShape] /\ act' = [act EXCEPT ![c] = IdleAct] /\ IdleAct \in ActShape
    BY IdleIs DEF TreeInv, Done
  <1>2. act' \in [Actors -> ActShape]
    BY <1>1
  <1>3. ASSUME NEW o \in Actors, o # c, NEW n \in DOMAIN act[o].wrote
        PROVE  w[n] = rows[n]
    <2>1. n \in Nodes
      BY <1>1, <1>3, WroteIs
    <2>2. v[n] = rows[n]
      BY <2>1, <1>3, ActIs
    <2>3. ~LockedFor(c, {m \in Nodes : w[m] # v[m]})
      BY DEF Allowed
    <2>4. w[n] = v[n]
      BY <2>1, <2>3, <1>3 DEF LockedFor
    <2> QED BY <2>2, <2>4
  <1>4. \A o \in Actors :
           \/ act'[o] = IdleAct
           \/ act'[o] = act[o] /\ \A n \in DOMAIN act[o].wrote : w[n] = rows[n]
    BY <1>1, <1>3
  <1> QED BY <1>2, <1>4, CommitStep

(* Rows are inserted after those that were there.                            *)
LEMMA RowsGrow ==
    ASSUME NEW v, NEW w, RowsRight(v), w \in [Nodes -> NodeRow], NEW k \in Nat,
           \A n \in Nodes : /\ n <= Used(v) => w[n] = v[n]
                            /\ n > Used(v) /\ n <= k => /\ w[n].status = "active"
                                                        /\ w[n].name # NoName
                                                        /\ w[n].parent # NoNode
                            /\ n > Used(v) /\ n > k => w[n] = v[n]
    PROVE  RowsRight(w)
  <1>1. /\ Used(v) \in Nat
        /\ \A n \in Nodes : v[n].status # "free" <=> n <= Used(v)
    <2>1. Used(v) \in 0 .. MaxNodes /\ MaxNodes \in Nat
      BY UsedAre, FileTreeAssumption
    <2> QED BY <2>1, UsedAre
  <1>2. Root \in Nodes /\ \A n \in Nodes : n \in Nat /\ 1 .. n \subseteq Nodes
    BY FileTreeAssumption DEF Root, Nodes
  <1>3. v[Root].status # "free" /\ w[Root] = v[Root] /\ Root <= Used(v)
    BY <1>1, <1>2 DEF RowsRight
  <1>4. ASSUME NEW n \in Nodes
        PROVE  w[n].status # "free" <=> n <= Used(v) \/ n <= k
    BY <1>1, <1>2, <1>4
  <1>5. ASSUME NEW n \in Nodes, w[n].status # "free"
        PROVE  /\ \A m \in 1 .. n : w[m].status # "free"
               /\ w[n].name # NoName
               /\ (w[n].parent = NoNode) = (n = Root)
    <2>1. n <= Used(v) \/ n <= k
      BY <1>4, <1>5
    <2>2. \A m \in 1 .. n : m \in Nodes /\ (m <= Used(v) \/ m <= k)
      BY <2>1, <1>1, <1>2
    <2>3. CASE n <= Used(v)
      BY <2>3, <2>2, <1>1, <1>4 DEF RowsRight
    <2>4. CASE n > Used(v)
      BY <2>1, <2>2, <2>4, <1>1, <1>2, <1>3, <1>4 DEF Root
    <2> QED BY <2>3, <2>4, <1>1, <1>2
  <1> QED BY <1>3, <1>5 DEF RowsRight

LEMMA RootIs ==
    Root \in Nodes /\ NoNode \notin Nodes
  BY FileTreeAssumption DEF Root, NoNode, Nodes

LEMMA CreateRowKeeps ==
    ASSUME TreeInv, NEW c \in Actors, CreateRow(c)
    PROVE  TreeInv'
  <1> DEFINE a == act[c]
             w == Upsert(rows, a.name, a.dest, a.type)
             hit == {n \in Nodes : Live(rows, n) /\ rows[n].name = a.name
                                   /\ rows[n].parent = a.dest}
             u == Used(rows)
             new == NewRow(a.name, a.dest, a.type)
  <1>1. a \in ActShape /\ RequestRight(a) /\ DOMAIN a.wrote = {} /\ RowsRight(rows)
        /\ a.op = "create"
    BY ActIs DEF TreeInv, CreateRow
  <1>2. RoomFor(1) /\ Allowed(c, rows, w) /\ Commit(w) /\ Done(c) /\ calls' = calls
    BY DEF CreateRow
  <1>3. rows \in [Nodes -> NodeRow] /\ a.dest \in Nodes /\ a.name \in NodeNames
        /\ a.type \in FileType /\ a.name # NoName /\ a.dest # NoNode
    BY <1>1, RootIs, FileTreeAssumption DEF RowsRight, RequestRight, ActShape
  <1>4. RowsRight(w)
    <2>1. CASE hit = {}
      <3>1. w = [rows EXCEPT ![u + 1] = new]
        BY <2>1 DEF Upsert, InsertRow
      <3>2. u \in Nat /\ u + 1 \in Nodes
        <4>1. u \in 0 .. MaxNodes /\ u + 1 <= MaxNodes /\ MaxNodes \in Nat
          BY <1>1, <1>2, UsedAre, FileTreeAssumption DEF RoomFor
        <4> HIDE DEF u
        <4> QED BY <4>1 DEF Nodes
      <3>3. new \in NodeRow /\ new.status = "active" /\ new.name # NoName
            /\ new.parent # NoNode
        <4> HIDE DEF a
        <4> QED BY <1>3 DEF NewRow, NodeRow
      <3> HIDE DEF new, w
      <3>4. w \in [Nodes -> NodeRow] /\ w[u + 1] = new
            /\ \A n \in Nodes : n # u + 1 => w[n] = rows[n]
        BY <3>1, <3>2, <3>3, <1>3
      <3>5. \A n \in Nodes : /\ n <= u => w[n] = rows[n]
                             /\ n > u /\ n <= u + 1 => /\ w[n].status = "active"
                                                       /\ w[n].name # NoName
                                                       /\ w[n].parent # NoNode
                             /\ n > u /\ n > u + 1 => w[n] = rows[n]
        <4>1. \A n \in Nodes : n \in Nat
          BY DEF Nodes
        <4> HIDE DEF u
        <4> QED BY <4>1, <3>2, <3>3, <3>4
      <3>6. u + 1 \in Nat
        BY <3>2
      <3> QED BY <1>1, <3>4, <3>5, <3>6, RowsGrow
    <2>2. CASE hit # {}
      <3>1. w = [n \in Nodes |-> IF n \in hit THEN [rows[n] EXCEPT !.type = a.type]
                                 ELSE rows[n]]
        BY <2>2 DEF Upsert
      <3> HIDE DEF hit, w, a
      <3>2. ASSUME NEW n \in Nodes
            PROVE  /\ w[n] \in NodeRow /\ w[n].status = rows[n].status
                   /\ w[n].name = rows[n].name /\ w[n].parent = rows[n].parent
        <4>1. rows[n] \in NodeRow /\ [rows[n] EXCEPT !.type = a.type] \in NodeRow
          BY <1>3 DEF NodeRow
        <4> QED BY <3>1, <4>1 DEF NodeRow
      <3>3. w \in [Nodes -> NodeRow]
        BY <3>1, <3>2
      <3> QED BY <1>1, <3>2, <3>3, RowsStayRight DEF RowsRight
    <2> QED BY <2>1, <2>2
  <1> HIDE DEF w, a
  <1> QED BY <1>1, <1>2, <1>4, RequestCommits DEF a

(* The rows after those of v, as far as k, are a chain that begins below cur. *)
ChainAdded(v, w, k, cur) ==
    \A n \in Nodes :
        /\ n <= Used(v) \/ n > k => w[n] = v[n]
        /\ n > Used(v) /\ n <= k =>
              /\ w[n].status = "active" /\ w[n].name # NoName
              /\ w[n].parent = IF n = Used(v) + 1 THEN cur ELSE n - 1
              /\ w[n].parent \in Nodes

(* A path is inserted: each row below the one before it, the first below the *)
(* row where the walk ended.                                                 *)
LEMMA ChainIs ==
    ASSUME NEW v, RowsRight(v), NEW cur \in Nodes, NEW path \in Seq(NodeNames),
           NEW leaf \in NodeNames \cup {NoName}
    PROVE  \E w \in [Nodes -> NodeRow], k \in Nat :
              /\ w = InsertChain(v, cur, path, leaf)
              /\ ChainAdded(v, w, k, cur)
  <1> DEFINE w == InsertChain(v, cur, path, leaf)
             u == Used(v)
             l == Len(path)
             last == u + l
             above(n) == IF n = u + 1 THEN cur ELSE n - 1
             k == IF leaf = NoName THEN last ELSE last + 1
  <1>1. v \in [Nodes -> NodeRow] /\ MaxNodes \in Nat /\ u \in Nat /\ l \in Nat
    BY UsedAre, FileTreeAssumption DEF RowsRight
  <1>2. w = [n \in Nodes |->
               IF n \in u + 1 .. last THEN NewRow(path[n - u], above(n), "folder")
               ELSE IF n = last + 1 /\ leaf # NoName
                    THEN NewRow(leaf, above(n), "file") ELSE v[n]]
    BY DEF InsertChain
  <1>3. ASSUME NEW n \in Nodes PROVE n \in Nat /\ (n > u => above(n) \in Nodes)
    <2>1. n \in 1 .. MaxNodes
      BY DEF Nodes
    <2>2. ASSUME n > u PROVE above(n) \in Nodes
      <3>1. CASE n = u + 1
        BY <3>1
      <3>2. CASE n # u + 1
        <4> HIDE DEF u
        <4>1. n - 1 \in 1 .. MaxNodes
          BY <3>2, <2>1, <2>2, <1>1
        <4> QED BY <3>2, <4>1 DEF Nodes
      <3> QED BY <3>1, <3>2
    <2>3. n \in Nat
      BY <2>1, <1>1
    <2> HIDE DEF above
    <2> QED BY <2>2, <2>3
  <1> HIDE DEF w, u, above, l
  <1>4. k \in Nat
    BY <1>1
  <1>5. ASSUME NEW n \in Nodes
        PROVE  /\ w[n] \in NodeRow
               /\ n <= u \/ n > k => w[n] = v[n]
               /\ n > u /\ n <= k => /\ w[n].status = "active" /\ w[n].name # NoName
                                     /\ w[n].parent = above(n) /\ w[n].parent \in Nodes
    <2>1. CASE n \in u + 1 .. last
      <3>1. path[n - u] \in NodeNames
        <4>1. n - u \in 1 .. l
          BY <2>1, <1>1
        <4> QED BY <4>1 DEF l
      <3>2. w[n] = NewRow(path[n - u], above(n), "folder") /\ above(n) \in Nodes
        BY <2>1, <1>1, <1>2, <1>3
      <3>3. ~(n <= u) /\ ~(n > k)
        BY <2>1, <1>1, <1>3
      <3> HIDE DEF k
      <3>4. w[n] \in NodeRow /\ w[n].status = "active" /\ w[n].name # NoName
            /\ w[n].parent = above(n)
        BY <3>1, <3>2, FileTreeAssumption DEF NewRow, NodeRow, FileType
      <3> QED BY <3>2, <3>3, <3>4
    <2>2. CASE n = last + 1 /\ leaf # NoName
      <3>1. w[n] = NewRow(leaf, above(n), "file") /\ above(n) \in Nodes
        BY <2>2, <1>1, <1>2, <1>3
      <3>2. ~(n <= u) /\ ~(n > k)
        BY <2>2, <1>1, <1>3
      <3> HIDE DEF k
      <3>3. w[n] \in NodeRow /\ w[n].status = "active" /\ w[n].name # NoName
            /\ w[n].parent = above(n)
        BY <3>1, <2>2, FileTreeAssumption DEF NewRow, NodeRow, FileType
      <3> QED BY <3>1, <3>2, <3>3
    <2>3. CASE ~(n \in u + 1 .. last) /\ ~(n = last + 1 /\ leaf # NoName)
      <3>1. w[n] = v[n] /\ v[n] \in NodeRow
        BY <2>3, <1>1, <1>2
      <3>2. ~(n > u /\ n <= k)
        BY <2>3, <1>1, <1>3
      <3> QED BY <3>1, <3>2
    <2> QED BY <2>1, <2>2, <2>3
  <1>6. w \in [Nodes -> NodeRow]
    BY <1>2, <1>5
  <1> HIDE DEF k
  <1>7. ChainAdded(v, w, k, cur)
    BY <1>5 DEF ChainAdded, u, above
  <1> QED BY <1>4, <1>6, <1>7 DEF w

LEMMA PathInsertKeeps ==
    ASSUME TreeInv, NEW c \in Actors, PathInsert(c)
    PROVE  TreeInv'
  <1> DEFINE a == act[c]
  <1>1. a \in ActShape /\ RequestRight(a) /\ DOMAIN a.wrote = {} /\ RowsRight(rows)
        /\ a.op \in {"mkdir", "copy"}
    BY ActIs DEF TreeInv, PathInsert
  <1>2. a.dest \in Nodes /\ a.name \in NodeNames \cup {NoName} /\ a.path \in Seq(NodeNames)
    BY <1>1 DEF RequestRight, ActShape
  <1>3. PICK w \in [Nodes -> NodeRow], k \in Nat :
              /\ w = InsertChain(rows, a.dest, a.path, a.name)
              /\ ChainAdded(rows, w, k, a.dest)
    <2>1. PICK cur \in Nodes, path \in Seq(NodeNames), leaf \in NodeNames \cup {NoName} :
             cur = a.dest /\ path = a.path /\ leaf = a.name
      BY <1>2
    <2>2. PICK v : v = rows
      OBVIOUS
    <2>3. RowsRight(v)
      BY <1>1, <2>2
    <2> HIDE DEF a
    <2>4. \E w \in [Nodes -> NodeRow], k \in Nat :
              /\ w = InsertChain(v, cur, path, leaf)
              /\ ChainAdded(v, w, k, cur)
      BY <2>3, ChainIs
    <2> QED BY <2>1, <2>2, <2>4
  <1>4. Allowed(c, rows, w) /\ Commit(w) /\ Done(c) /\ calls' = calls
    BY <1>3 DEF PathInsert
  <1>5. \A n \in Nodes : /\ n <= Used(rows) => w[n] = rows[n]
                         /\ n > Used(rows) /\ n <= k => /\ w[n].status = "active"
                                                        /\ w[n].name # NoName
                                                        /\ w[n].parent # NoNode
                         /\ n > Used(rows) /\ n > k => w[n] = rows[n]
    BY <1>3, RootIs DEF ChainAdded
  <1>6. RowsRight(w)
    BY <1>1, <1>5, RowsGrow
  <1> QED BY <1>1, <1>4, <1>6, RequestCommits

LEMMA UpdateRowKeeps ==
    ASSUME TreeInv, NEW c \in Actors, UpdateRow(c)
    PROVE  TreeInv'
  <1> DEFINE a == act[c]
             dest(n) == IF a.dest = NoNode THEN rows[n].parent ELSE a.dest
             name(n) == IF a.name = NoName THEN rows[n].name ELSE a.name
             w == [n \in Nodes |->
                     IF n \in a.ids /\ Present(rows, n)
                     THEN [rows[n] EXCEPT !.parent = dest(n), !.name = name(n)]
                     ELSE rows[n]]
  <1>1. a \in ActShape /\ RequestRight(a) /\ DOMAIN a.wrote = {} /\ RowsRight(rows)
        /\ a.op = "update"
    BY ActIs DEF TreeInv, UpdateRow
  <1>2. Allowed(c, rows, w) /\ Commit(w) /\ Done(c) /\ calls' = calls
    BY DEF UpdateRow
  <1>3. rows \in [Nodes -> NodeRow] /\ a.dest \in Nodes \cup {NoNode}
        /\ a.name \in NodeNames \cup {NoName} /\ Root \notin a.ids
    BY <1>1 DEF RowsRight, RequestRight, ActShape
  <1> HIDE DEF a
  <1>4. ASSUME NEW n \in Nodes
        PROVE  /\ w[n] \in NodeRow /\ w[n].status = rows[n].status
               /\ rows[n].status # "free" =>
                     w[n].name # NoName /\ (w[n].parent = NoNode) = (n = Root)
    <2>1. rows[n] \in NodeRow
          /\ (rows[n].status # "free" =>
                 rows[n].name # NoName /\ (rows[n].parent = NoNode) = (n = Root))
      BY <1>1, <1>3 DEF RowsRight
    <2>2. CASE n \in a.ids /\ Present(rows, n)
      <3>1. dest(n) \in Nodes \cup {NoNode} /\ name(n) \in NodeNames \cup {RootName, NoName}
        BY <1>3, <2>1 DEF NodeRow
      <3>2. name(n) # NoName /\ dest(n) # NoNode /\ n # Root
        BY <1>3, <2>1, <2>2, RootIs DEF Present
      <3>3. w[n] = [rows[n] EXCEPT !.parent = dest(n), !.name = name(n)]
        BY <2>2
      <3> HIDE DEF dest, name, w
      <3> QED BY <2>1, <3>1, <3>2, <3>3 DEF NodeRow
    <2>3. CASE ~(n \in a.ids /\ Present(rows, n))
      BY <2>1, <2>3
    <2> QED BY <2>2, <2>3
  <1>5. w \in [Nodes -> NodeRow]
    BY <1>4
  <1> HIDE DEF w
  <1>6. RowsRight(w)
    BY <1>1, <1>4, <1>5, RowsStayRight DEF RowsRight
  <1> QED BY <1>1, <1>2, <1>6, RequestCommits DEF a

LEMMA DeleteRowsKeeps ==
    ASSUME TreeInv, NEW c \in Actors, DeleteRows(c)
    PROVE  TreeInv'
  <1> DEFINE a == act[c]
             w == BulkDelete(rows, a.ids)
             X == Subtree(rows, a.ids)
             gone(n) == IF rows[n].type = "file" THEN [rows[n] EXCEPT !.status = "pending_deletion"]
                                                 ELSE [rows[n] EXCEPT !.status = "removed"]
  <1>1. DOMAIN a.wrote = {} /\ RowsRight(rows)
    BY ActIs DEF TreeInv, DeleteRows
  <1>2. Allowed(c, rows, w) /\ Commit(w) /\ Done(c) /\ calls' = calls
    BY DEF DeleteRows
  <1>3. w = [n \in Nodes |-> IF n \notin X THEN rows[n] ELSE gone(n)]
        /\ \A n \in X : Present(rows, n)
    BY SubtreeIs DEF BulkDelete
  <1> HIDE DEF a, w, X
  <1>4. ASSUME NEW n \in Nodes
        PROVE  /\ w[n] \in NodeRow /\ (w[n].status # "free" <=> rows[n].status # "free")
               /\ w[n].name = rows[n].name /\ w[n].parent = rows[n].parent
    <2>1. rows[n] \in NodeRow
      BY <1>1 DEF RowsRight
    <2>2. /\ gone(n) \in NodeRow /\ gone(n).status # "free"
          /\ gone(n).name = rows[n].name /\ gone(n).parent = rows[n].parent
      BY <2>1 DEF NodeRow
    <2> HIDE DEF gone
    <2> QED BY <1>3, <2>1, <2>2 DEF Present
  <1>5. w \in [Nodes -> NodeRow]
    <2> HIDE DEF gone
    <2> QED BY <1>3, <1>4
  <1>6. RowsRight(w)
    BY <1>1, <1>4, <1>5, RowsStayRight DEF RowsRight
  <1> QED BY <1>1, <1>2, <1>6, RequestCommits DEF a

LEMMA MoveRowsKeeps ==
    ASSUME TreeInv, NEW c \in Actors, MoveRows(c)
    PROVE  TreeInv'
  <1> DEFINE a == act[c]
             w == Relocate(rows, a.ids, a.dest)
  <1>1. a \in ActShape /\ RequestRight(a) /\ DOMAIN a.wrote = {} /\ RowsRight(rows)
        /\ a.op = "move"
    BY ActIs DEF TreeInv, MoveRows
  <1>2. Allowed(c, rows, w) /\ Commit(w) /\ Done(c) /\ calls' = calls
    BY DEF MoveRows
  <1>3. rows \in [Nodes -> NodeRow] /\ a.dest \in Nodes /\ Root \notin a.ids
    BY <1>1 DEF RowsRight, RequestRight
  <1>4. w = [n \in Nodes |-> IF n \in a.ids /\ Present(rows, n)
                             THEN [rows[n] EXCEPT !.parent = a.dest] ELSE rows[n]]
    BY DEF Relocate
  <1> HIDE DEF a, w
  <1>5. ASSUME NEW n \in Nodes
        PROVE  /\ w[n] \in NodeRow /\ w[n].status = rows[n].status
               /\ rows[n].status # "free" =>
                     w[n].name # NoName /\ (w[n].parent = NoNode) = (n = Root)
    <2>1. rows[n] \in NodeRow /\ [rows[n] EXCEPT !.parent = a.dest] \in NodeRow
      BY <1>3 DEF NodeRow
    <2>2. rows[n].status # "free" =>
             rows[n].name # NoName /\ (rows[n].parent = NoNode) = (n = Root)
      BY <1>1 DEF RowsRight
    <2> QED BY <1>3, <1>4, <2>1, <2>2, RootIs DEF NodeRow
  <1>6. w \in [Nodes -> NodeRow]
    BY <1>4, <1>5
  <1>7. RowsRight(w)
    BY <1>1, <1>5, <1>6, RowsStayRight DEF RowsRight
  <1> QED BY <1>1, <1>2, <1>7, RequestCommits DEF a

LEMMA RenameFinishKeeps ==
    ASSUME TreeInv, NEW c \in Actors, RenameFinish(c)
    PROVE  TreeInv'
  <1> DEFINE a == act[c]
             v == View(c)
             w == Rename(v, a.ids, a.dest, a.name)
  <1>1. a \in ActShape /\ RequestRight(a) /\ WroteRight(rows, a) /\ RowsRight(rows)
        /\ a.op = "rename"
    BY ActIs DEF TreeInv, RenameFinish
  <1>2. Allowed(c, v, w) /\ Commit(w) /\ Done(c) /\ calls' = calls
    BY DEF RenameFinish
  <1>3. a.dest \in Nodes /\ Root \notin a.ids /\ a.name \in NodeNames
    BY <1>1 DEF RequestRight
  <1>4. w = [n \in Nodes |-> IF n \in a.ids /\ Present(v, n)
                             THEN [v[n] EXCEPT !.parent = a.dest, !.name = a.name] ELSE v[n]]
    BY DEF Rename
  <1>5. /\ v \in [Nodes -> NodeRow]
        /\ \A n \in Nodes : n \in DOMAIN a.wrote => v[n] = a.wrote[n]
        /\ \A n \in Nodes : n \notin DOMAIN a.wrote => v[n] = rows[n]
    BY ViewIs
  <1> HIDE DEF a, v, w
  <1>6. ASSUME NEW n \in Nodes
        PROVE  /\ v[n].status # "free" <=> rows[n].status # "free"
               /\ rows[n].status # "free" =>
                     v[n].name # NoName /\ (v[n].parent = NoNode) = (n = Root)
    BY <1>1, <1>5 DEF RowsRight, WroteRight, Present
  <1>7. ASSUME NEW n \in Nodes
        PROVE  /\ w[n] \in NodeRow /\ w[n].status = v[n].status
               /\ rows[n].status # "free" =>
                     w[n].name # NoName /\ (w[n].parent = NoNode) = (n = Root)
    <2>1. v[n] \in NodeRow /\ [v[n] EXCEPT !.parent = a.dest, !.name = a.name] \in NodeRow
      BY <1>3, <1>5 DEF NodeRow
    <2>2. a.name # NoName /\ a.dest # NoNode
      BY <1>3, RootIs, FileTreeAssumption
    <2> QED BY <1>3, <1>4, <1>6, <2>1, <2>2 DEF NodeRow
  <1>8. w \in [Nodes -> NodeRow]
    BY <1>4, <1>7
  <1>9. RowsRight(w)
    BY <1>1, <1>6, <1>7, <1>8, RowsStayRight DEF RowsRight
  <1> QED BY <1>2, <1>5, <1>9, RequestCommits DEF a

LEMMA PurgeRowKeeps ==
    ASSUME TreeInv, NEW n \in Nodes, PurgeRow(n)
    PROVE  TreeInv'
  <1> DEFINE w == [rows EXCEPT ![n].status = "removed"]
  <1>1. RowsRight(rows) /\ rows \in [Nodes -> NodeRow] /\ act \in [Actors -> ActShape]
    BY DEF TreeInv, RowsRight
  <1>2. /\ rows[n].status = "pending_deletion" /\ Commit(w) /\ act' = act /\ calls' = calls
        /\ \A o \in Actors : n \notin DOMAIN act[o].wrote
    BY DEF PurgeRow
  <1>3. ASSUME NEW m \in Nodes
        PROVE  /\ w[m] \in NodeRow /\ (w[m].status # "free" <=> rows[m].status # "free")
               /\ w[m].name = rows[m].name /\ w[m].parent = rows[m].parent
               /\ m # n => w[m] = rows[m]
    <2>1. rows[m] \in NodeRow /\ rows[n] \in NodeRow
      BY <1>1
    <2>2. w[m] = IF m = n THEN [rows[n] EXCEPT !.status = "removed"] ELSE rows[m]
      BY <1>1
    <2> HIDE DEF w
    <2> QED BY <1>2, <2>1, <2>2 DEF NodeRow
  <1>4. w \in [Nodes -> NodeRow]
    <2>1. DOMAIN w = Nodes /\ w = [m \in Nodes |-> w[m]]
      BY <1>1
    <2> HIDE DEF w
    <2> QED BY <2>1, <1>3
  <1> HIDE DEF w
  <1>5. RowsRight(w)
    BY <1>1, <1>3, <1>4, RowsStayRight DEF RowsRight
  <1>6. \A o \in Actors : \A m \in DOMAIN act[o].wrote : w[m] = rows[m]
    <2>1. \A o \in Actors : DOMAIN act[o].wrote \subseteq Nodes
      BY <1>1, WroteIs
    <2> QED BY <2>1, <1>2, <1>3
  <1> QED BY <1>1, <1>2, <1>5, <1>6, CommitStep

-----------------------------------------------------------------------------

LEMMA TreeStarts ==
    TreeInit => TreeInv
  <1>1. SUFFICES ASSUME TreeInit PROVE TreeInv
    OBVIOUS
  <1>2. PICK start \in [2 .. StartNodes -> StartRows] :
          rows = [n \in Nodes |-> IF n = Root THEN RootRow
                                  ELSE IF n \in DOMAIN start THEN start[n] ELSE UnusedRow]
    BY <1>1 DEF TreeInit
  <1>3. Grown(rows) /\ act = [c \in Actors |-> IdleAct] /\ due = [c \in Actors |-> {}]
        /\ calls = 0
    BY <1>1 DEF TreeInit
  <1>4. RootRow \in NodeRow /\ UnusedRow \in NodeRow /\ \A r \in StartRows : r \in NodeRow
    BY DEF RootRow, UnusedRow, StartRows, NodeRow, FileType
  <1>5. rows \in [Nodes -> NodeRow]
    BY <1>2, <1>4
  <1>6. \A n \in Nodes : n \in Nat /\ n > 0 /\ (n # Root => n > Root) /\ 1 .. n \subseteq Nodes
    BY FileTreeAssumption DEF Nodes, Root
  <1>7. ASSUME NEW n \in Nodes, rows[n].status # "free"
        PROVE  /\ \A m \in 1 .. n : rows[m].status # "free"
               /\ rows[n].name # NoName
               /\ (rows[n].parent = NoNode) = (n = Root)
    <2>1. ASSUME NEW m \in Nodes, m # Root, rows[m] # UnusedRow
          PROVE  rows[m].status = "active" /\ rows[m].name \in NodeNames
                 /\ rows[m].parent \in 1 .. m - 1
      BY <2>1, <1>3 DEF Grown
    <2>2. rows[Root] = RootRow
      BY <1>3 DEF Grown
    <2>3. ASSUME NEW m \in 1 .. n PROVE rows[m].status # "free"
      <3>1. m \in Nodes /\ (m < n \/ m = n)
        BY <1>6
      <3>2. CASE m = Root
        BY <2>2, <3>2 DEF RootRow
      <3>3. CASE m # Root /\ m < n
        <4>1. rows[n] # UnusedRow
          BY <1>7 DEF UnusedRow
        <4>2. rows[m] # UnusedRow
          <5>1. SUFFICES ASSUME rows[m] = UnusedRow PROVE FALSE
            OBVIOUS
          <5>2. rows[m].status # "active"
            BY <5>1 DEF UnusedRow
          <5>3. \A k \in Nodes : k > m => rows[k] = UnusedRow
            BY <5>2, <3>1, <3>3, <1>3 DEF Grown
          <5> QED BY <5>3, <4>1, <3>1, <3>3, <1>6
        <4> QED BY <2>1, <3>1, <3>3, <4>2
      <3> QED BY <3>1, <3>2, <3>3, <1>7
    <2>4. CASE n = Root
      BY <2>2, <2>3, <2>4, FileTreeAssumption DEF RootRow
    <2>5. CASE n # Root
      <3>1. rows[n] # UnusedRow
        BY <1>7 DEF UnusedRow
      <3>2. rows[n].name \in NodeNames /\ rows[n].parent \in 1 .. n - 1
        BY <2>1, <2>5, <3>1
      <3> QED BY <2>3, <2>5, <3>2, <1>6, FileTreeAssumption DEF NoNode
    <2> QED BY <2>4, <2>5
  <1>8. RowsRight(rows)
    <2>1. rows[Root].status # "free"
      BY <1>3 DEF Grown, RootRow
    <2> QED BY <1>5, <1>7, <2>1 DEF RowsRight
  <1>9. \A c \in Actors : act[c] = IdleAct /\ due[c] = {}
    BY <1>3
  <1>10. act \in [Actors -> ActShape] /\ due \in [Actors -> SUBSET Nodes]
    BY <1>3, IdleIs
  <1>11. \A c \in Actors : /\ RequestRight(act[c]) /\ WroteRight(rows, act[c])
                           /\ WalkRight(rows, act[c], due[c])
    BY <1>9, IdleRight
  <1>12. \A c, o \in Actors : c # o => DOMAIN act[c].wrote \cap DOMAIN act[o].wrote = {}
    BY <1>9, IdleIs
  <1>13. calls \in 0 .. MaxCalls
    BY <1>3, FileTreeAssumption
  <1> QED BY <1>8, <1>10, <1>11, <1>12, <1>13 DEF TreeInv

LEMMA TreeSteps ==
    TreeInv /\ [TreeNext]_treeVars => TreeInv'
  <1>1. SUFFICES ASSUME TreeInv, [TreeNext]_treeVars PROVE TreeInv'
    OBVIOUS
  <1>2. ASSUME NEW c \in Callers, NEW name \in NodeNames, NEW dest \in Nodes, NEW type \in FileType,
               CreateStart(c, name, dest, type)
        PROVE  TreeInv'
    BY <1>1, <1>2, CreateStartKeeps
  <1>3. ASSUME NEW c \in Callers, NEW path \in Paths, PathStart(c, "mkdir", path, NoName)
        PROVE  TreeInv'
    BY <1>1, <1>3, PathStartKeeps
  <1>4. ASSUME NEW c \in Callers, NEW path \in Paths, NEW leaf \in NodeNames,
               PathStart(c, "copy", path, leaf)
        PROVE  TreeInv'
    BY <1>1, <1>4, PathStartKeeps
  <1>5. ASSUME NEW c \in Callers, NEW n \in Nodes, NEW dest \in Nodes \cup {NoNode},
               NEW name \in NodeNames \cup {NoName}, UpdateStart(c, n, dest, name)
        PROVE  TreeInv'
    BY <1>1, <1>5, UpdateStartKeeps
  <1>6. ASSUME NEW c \in Callers, NEW ids \in IdSets, DeleteStart(c, ids) PROVE TreeInv'
    BY <1>1, <1>6, DeleteStartKeeps
  <1>7. ASSUME NEW c \in Callers, NEW ids \in IdSets, ZipStart(c, ids) PROVE TreeInv'
    BY <1>1, <1>7, ZipStartKeeps
  <1>8. ASSUME NEW c \in Callers, NEW ids \in IdSets, NEW dest \in Nodes,
               NEW name \in NodeNames \cup {NoName}, MoveStart(c, ids, dest, name)
        PROVE  TreeInv'
    BY <1>1, <1>8, MoveStartKeeps
  <1>9. ASSUME NEW c \in Running, NEW n \in Nodes, PathStep(c, n) \/ ZipChildren(c, n)
        PROVE  TreeInv'
    BY <1>1, <1>9, CallersAre, PathStepKeeps, ZipChildrenKeeps
  <1>10. ASSUME NEW c \in Running,
                CreateRow(c) \/ PathInsert(c) \/ UpdateRow(c) \/ DeleteRows(c) \/ MoveRows(c)
         PROVE  TreeInv'
    BY <1>1, <1>10, CallersAre, CreateRowKeeps, PathInsertKeeps, UpdateRowKeeps,
       DeleteRowsKeeps, MoveRowsKeeps
  <1>11. ASSUME NEW c \in Running,
                RenameRead(c) \/ RenameMerge(c) \/ RenameReplace(c) \/ RenameFinish(c)
         PROVE  TreeInv'
    BY <1>1, <1>11, CallersAre, RenameReadKeeps, RenameMergeKeeps, RenameReplaceKeeps,
       RenameFinishKeeps
  <1>12. ASSUME NEW c \in Running, ZipBatch(c) \/ ZipNext(c) PROVE TreeInv'
    BY <1>1, <1>12, CallersAre, ZipBatchKeeps, ZipNextKeeps
  <1>13. ASSUME NEW c \in Running, ZipDone(c) \/ Fail(c) PROVE TreeInv'
    <2>1. c \in Actors /\ Done(c) /\ rows' = rows /\ calls' = calls /\ due' = [due EXCEPT ![c] = {}]
      BY <1>1, <1>13, CallersAre DEF ZipDone, Fail
    <2> QED BY <1>1, <2>1, FailKeeps
  <1>14. ASSUME NEW n \in Nodes, PurgeRow(n) PROVE TreeInv'
    BY <1>1, <1>14, PurgeRowKeeps
  <1>15. CASE UNCHANGED treeVars
    BY <1>1, <1>15 DEF treeVars, TreeInv
  <1>16. CASE TreeNext
    BY <1>2, <1>3, <1>4, <1>5, <1>6, <1>7, <1>8, <1>9, <1>10, <1>11, <1>12, <1>13, <1>14, <1>16
    DEF TreeNext
  <1> QED BY <1>1, <1>15, <1>16

LEMMA TreeInvHolds ==
    TreeSpec => []TreeInv
  <1>1. TreeInit => TreeInv
    BY TreeStarts
  <1>2. TreeInv /\ [TreeNext]_treeVars => TreeInv'
    BY TreeSteps
  <1> QED BY <1>1, <1>2, PTL DEF TreeSpec

(* Whatever the requests do at the same time, the rows, the requests and what *)
(* their transactions have written have their types, ids are handed out in    *)
(* order, only the root has no parent and every row keeps a name.             *)
THEOREM TreeTypes ==
    TreeSpec => []TreeTypeOK
  BY TreeInvHolds, InvHasTypes, PTL

LEMMA WalkMissesNothing ==
    TreeInv => ZipMissesNothing
  <1>1. SUFFICES ASSUME TreeInv, NEW c \in Actors, act[c].op = "zip", act[c].pc = "finish",
                        NEW f \in due[c]
                 PROVE  f \in act[c].files
    BY DEF ZipMissesNothing
  <1> DEFINE a == act[c]
  <1>2. a.op = "zip" /\ a.pc = "finish" /\ WalkRight(rows, a, due[c])
    BY <1>1, ActIs
  <1> HIDE DEF a
  <1>3. a.ids = {} /\ a.batch = {}
    BY <1>2 DEF WalkRight
  <1>4. PICK P \in SUBSET Nodes, s \in Nodes : OnTrail(rows, a, f, P, s)
    BY <1>1, <1>2 DEF WalkRight
  <1>5. /\ s \in P \cap a.seen /\ f \in Down(rows, {s}, P) /\ (f \in a.seen => f \in a.files)
        /\ \A n \in P : rows[n].parent \in P => n \in a.seen \/ rows[n].parent \notin a.seen
    BY <1>3, <1>4 DEF OnTrail
  <1> DEFINE X == a.seen \cap P
  <1>6. {s} \cap P \subseteq X
    BY <1>5
  <1>7. \A n \in P : rows[n].parent \in X => n \in X
    BY <1>5
  <1> HIDE DEF X
  <1>8. Down(rows, {s}, P) \subseteq X
    BY <1>4, <1>6, <1>7, DownIsLeast
  <1> QED BY <1>5, <1>8 DEF X, a

(* The walk of collectFilesRecursive ends with every file that was below what *)
(* the request names and stayed where it was, whatever else was moved,        *)
(* deleted and created during the walk, and also below folders that contain   *)
(* themselves.                                                                *)
THEOREM WalkFindsEveryFile ==
    TreeSpec => []ZipMissesNothing
  BY TreeInvHolds, WalkMissesNothing, PTL

-----------------------------------------------------------------------------
(* What the steps that change rows do to the tree                            *)

(* The steps that change rows, and whose they are.                           *)
LEMMA ChangesAre ==
    ASSUME TreeInv, TreeNext, rows' # rows
    PROVE  \/ \E n \in Nodes : PurgeRow(n)
           \/ \E c \in Actors :
                 /\ act[c].pc # "idle" /\ act'[c] = IdleAct
                 /\ \A o \in Actors \ {c} : act'[o] = act[o]
                 /\ CreateRow(c) \/ PathInsert(c) \/ UpdateRow(c) \/ DeleteRows(c)
                       \/ MoveRows(c) \/ RenameFinish(c)
  <1> DEFINE Commits(c) == CreateRow(c) \/ PathInsert(c) \/ UpdateRow(c) \/ DeleteRows(c)
                             \/ MoveRows(c) \/ RenameFinish(c)
  <1>1. ASSUME NEW c \in Callers, NEW r, Begin(c, r) PROVE FALSE
    BY <1>1 DEF Begin
  <1>2. ASSUME NEW c, NEW written, NEW w, NEW r, Stage(c, written, w, r) PROVE FALSE
    BY <1>2 DEF Stage
  <1>3. ASSUME NEW c \in Callers PROVE
          /\ \A name, dest, type : ~CreateStart(c, name, dest, type)
          /\ \A op, path, leaf : ~PathStart(c, op, path, leaf)
          /\ \A n, dest, name : ~UpdateStart(c, n, dest, name)
          /\ \A ids : ~DeleteStart(c, ids) /\ ~ZipStart(c, ids)
          /\ \A ids, dest, name : ~MoveStart(c, ids, dest, name)
    BY <1>1 DEF CreateStart, PathStart, UpdateStart, DeleteStart, ZipStart, MoveStart
  <1>4. \A c, n : ~PathStep(c, n) /\ ~ZipChildren(c, n)
    BY DEF PathStep, ZipChildren
  <1>5. \A c : ~RenameRead(c) /\ ~ZipBatch(c) /\ ~ZipNext(c) /\ ~ZipDone(c) /\ ~Fail(c)
    BY DEF RenameRead, ZipBatch, ZipNext, ZipDone, Fail
  <1>6. \A c : ~RenameMerge(c) /\ ~RenameReplace(c)
    BY <1>2 DEF RenameMerge, RenameReplace
  <1>7. (\E n \in Nodes : PurgeRow(n)) \/ \E c \in Running : Commits(c)
    BY <1>3, <1>4, <1>5, <1>6 DEF TreeNext
  <1>8. ASSUME NEW c \in Running, Commits(c)
        PROVE  /\ c \in Actors /\ act[c].pc # "idle" /\ act'[c] = IdleAct
               /\ \A o \in Actors \ {c} : act'[o] = act[o]
    <2>1. Done(c)
      BY <1>8 DEF CreateRow, PathInsert, UpdateRow, DeleteRows, MoveRows, RenameFinish
    <2>2. c \in Actors /\ act[c].pc # "idle"
      BY DEF Running
    <2> QED BY <2>1, <2>2 DEF Done, TreeInv
  <1> QED BY <1>7, <1>8

(* What a move under a new name has committed.                               *)
LEMMA RenameFinishIs ==
    ASSUME TreeInv, NEW c \in Actors, RenameFinish(c)
    PROVE  \E src \in Nodes \ {Root}, w \in [Nodes -> NodeRow] :
              /\ rows' = w /\ act[c].ids = {src} /\ RenameRight(rows, act[c], src)
              /\ act[c].dest \in Nodes /\ act[c].pc = "finish"
              /\ \A n \in Nodes : n # src => w[n] = View(c)[n]
              /\ Present(View(c), src) =>
                    w[src] = [View(c)[src] EXCEPT !.parent = act[c].dest, !.name = act[c].name]
              /\ ~Present(View(c), src) => w[src] = View(c)[src]
  <1> DEFINE a == act[c]
             v == View(c)
             w == Rename(v, a.ids, a.dest, a.name)
  <1>1. a \in ActShape /\ RequestRight(a) /\ WroteRight(rows, a)
        /\ a.op = "rename" /\ a.pc = "finish"
    BY ActIs DEF RenameFinish
  <1>2. rows' = w
    BY DEF RenameFinish, Commit
  <1>3. PICK src \in Nodes \ {Root} : a.ids = {src} /\ RenameRight(rows, a, src)
    BY <1>1 DEF WroteRight
  <1>4. v \in [Nodes -> NodeRow]
    BY ViewIs
  <1>5. a.dest \in Nodes /\ a.name \in NodeNames
    BY <1>1 DEF RequestRight
  <1>6. w = [n \in Nodes |-> IF n \in a.ids /\ Present(v, n)
                             THEN [v[n] EXCEPT !.parent = a.dest, !.name = a.name] ELSE v[n]]
    BY DEF Rename
  <1> HIDE DEF a, v, w
  <1>7. \A n \in Nodes : v[n] \in NodeRow
                         /\ [v[n] EXCEPT !.parent = a.dest, !.name = a.name] \in NodeRow
    BY <1>4, <1>5 DEF NodeRow
  <1>8. w \in [Nodes -> NodeRow]
    BY <1>6, <1>7
  <1>9. /\ \A n \in Nodes : n # src => w[n] = v[n]
        /\ Present(v, src) => w[src] = [v[src] EXCEPT !.parent = a.dest, !.name = a.name]
        /\ ~Present(v, src) => w[src] = v[src]
    BY <1>3, <1>6
  <1> QED BY <1>1, <1>2, <1>3, <1>5, <1>8, <1>9 DEF a, v

(* Everything a request has deleted was below the folder that it replaces.   *)
LEMMA TakenIsBelow ==
    ASSUME TreeInv, NEW c \in Actors, NEW n, Taken(rows, act[c], n)
    PROVE  n \in Subtree(rows, {act[c].found}) /\ n \in DOMAIN act[c].wrote
  <1> DEFINE D == DOMAIN act[c].wrote
             S == {act[c].found}
             P == PresentIn(rows)
  <1>1. act[c] \in ActShape /\ WroteRight(rows, act[c])
    BY ActIs
  <1>2. D \in SUBSET Nodes /\ \A m \in D : Present(rows, m)
    BY <1>1, WroteIs DEF WroteRight
  <1>3. n \in Down(rows, S, D)
    BY DEF Taken
  <1>4. P \in SUBSET Nodes /\ D \subseteq P
    BY <1>2 DEF PresentIn
  <1> HIDE DEF S, D, P
  <1>5. S \cap D \subseteq S
    OBVIOUS
  <1>6. Down(rows, S, D) \subseteq Down(rows, S, P)
    BY <1>2, <1>4, <1>5, DownGrows
  <1>7. Down(rows, S, D) \subseteq D
    BY <1>2, DownIs
  <1> QED BY <1>3, <1>6, <1>7, SubtreeIs DEF S, D, P

LEMMA MoveKeeps ==
    ASSUME TreeInv, TreeNext, rows' # rows, NEW c \in Actors,
           act[c].op = "rename", act[c].pc = "finish", act'[c].pc = "idle",
           NEW s \in act[c].ids, Live(rows, s), s \notin Subtree(rows, {act[c].found})
    PROVE  /\ rows'[s] = [rows[s] EXCEPT !.name = act[c].name, !.parent = act[c].dest]
           /\ act[c].kept \ {act[c].found, s} \subseteq Children(rows', s)
  <1>1. RenameFinish(c)
    <2>1. ~\E n \in Nodes : PurgeRow(n)
      BY DEF PurgeRow
    <2>2. PICK o \in Actors :
             /\ \A p \in Actors \ {o} : act'[p] = act[p]
             /\ CreateRow(o) \/ PathInsert(o) \/ UpdateRow(o) \/ DeleteRows(o)
                  \/ MoveRows(o) \/ RenameFinish(o)
      BY <2>1, ChangesAre
    <2>3. o = c
      BY <2>2
    <2> QED BY <2>2, <2>3 DEF CreateRow, PathInsert, UpdateRow, DeleteRows, MoveRows
  <1> DEFINE a == act[c]
             v == View(c)
             D == DOMAIN a.wrote
  <1>2. PICK src \in Nodes \ {Root}, w \in [Nodes -> NodeRow] :
              /\ rows' = w /\ a.ids = {src} /\ RenameRight(rows, a, src)
              /\ a.dest \in Nodes /\ a.pc = "finish"
              /\ \A n \in Nodes : n # src => w[n] = v[n]
              /\ Present(v, src) => w[src] = [v[src] EXCEPT !.parent = a.dest, !.name = a.name]
              /\ ~Present(v, src) => w[src] = v[src]
    BY <1>1, RenameFinishIs
  <1>3. src = s
    BY <1>2
  <1>4. /\ \A n \in Nodes : n \in D => v[n] = a.wrote[n]
        /\ \A n \in Nodes : n \notin D => v[n] = rows[n]
        /\ D \in SUBSET Nodes /\ rows \in [Nodes -> NodeRow]
    BY ViewIs, WroteIs, ActIs DEF TreeInv, RowsRight
  <1>5. /\ \A n \in D : Taken(rows, a, n) \/ MovedUp(rows, a, n, s)
        /\ \A n \in a.kept \ {a.found} : Taken(rows, a, n) => Taken(rows, a, s)
        /\ a.kept \subseteq D
    BY <1>2, <1>3 DEF RenameRight
  <1>6. ~Taken(rows, a, s)
    BY TakenIsBelow
  <1> HIDE DEF a, v, D
  <1>7. rows[s] \in NodeRow
    BY <1>2, <1>3, <1>4
  <1>8. w[s] = [rows[s] EXCEPT !.name = a.name, !.parent = a.dest]
    <2>1. CASE s \in D
      <3>1. v[s] = [rows[s] EXCEPT !.parent = s]
        BY <2>1, <1>2, <1>3, <1>4, <1>5, <1>6 DEF MovedUp
      <3>2. Present(v, s)
        BY <3>1, <1>7 DEF Present, Live, NodeRow
      <3> QED BY <3>1, <3>2, <1>2, <1>3, <1>7 DEF NodeRow
    <2>2. CASE s \notin D
      <3>1. v[s] = rows[s] /\ Present(v, s)
        BY <2>2, <1>2, <1>3, <1>4 DEF Present, Live
      <3> QED BY <3>1, <1>2, <1>3, <1>7 DEF NodeRow
    <2> QED BY <2>1, <2>2
  <1>9. ASSUME NEW n \in a.kept, n # a.found, n # s
        PROVE  n \in Children(w, s)
    <2>1. n \in D /\ n \in Nodes /\ MovedUp(rows, a, n, s)
      BY <1>4, <1>5, <1>6, <1>9
    <2>2. w[n] = [rows[n] EXCEPT !.parent = s] /\ rows[n].status = "active"
      BY <2>1, <1>2, <1>3, <1>4, <1>9 DEF MovedUp
    <2>3. rows[n] \in NodeRow
      BY <2>1, <1>4
    <2> QED BY <2>1, <2>2, <2>3 DEF Children, Live, NodeRow
  <1> QED BY <1>2, <1>8, <1>9 DEF a

(* A move under a new name brings what it moves to its destination, and with  *)
(* it all that the replaced folder had and the moved one did not, for every   *)
(* order in which other requests commit between its statements.               *)
THEOREM MoveBringsEverything ==
    TreeSpec => MoveKeepsContents
  <1>1. ASSUME TreeInv, [TreeNext]_treeVars
        PROVE  [ \A c \in Actors :
                  (act[c].op = "rename" /\ act[c].pc = "finish" /\ rows' # rows
                     /\ act'[c].pc = "idle") =>
                  \A s \in act[c].ids :
                     Live(rows, s) /\ s \notin Subtree(rows, {act[c].found}) =>
                        /\ rows'[s] = [rows[s] EXCEPT !.name = act[c].name,
                                                      !.parent = act[c].dest]
                        /\ act[c].kept \ {act[c].found, s} \subseteq Children(rows', s) ]_treeVars
    BY <1>1, MoveKeeps
  <1> QED BY <1>1, TreeInvHolds, PTL DEF TreeSpec, MoveKeepsContents

-----------------------------------------------------------------------------
(* What becomes unreachable, and why                                         *)

LEMMA SubtreeFromOne ==
    ASSUME NEW v, NEW S, NEW n \in Subtree(v, S)
    PROVE  \E s \in S : s \in Nodes /\ Present(v, s) /\ n \in Subtree(v, {s})
  <1> DEFINE P == PresentIn(v)
  <1>1. P \in SUBSET Nodes /\ \A m \in P : Present(v, m)
    BY DEF PresentIn
  <1>2. n \in Down(v, S, P)
    BY SubtreeIs
  <1> HIDE DEF P
  <1>3. PICK s \in S \cap P : n \in Down(v, {s}, P)
    BY <1>1, <1>2, DownFromOne
  <1>4. Subtree(v, {s}) = Down(v, {s}, P)
    BY SubtreeIs DEF P
  <1> QED BY <1>1, <1>3, <1>4

LEMMA SubtreeInSubtree ==
    ASSUME NEW v, NEW S, NEW m \in Subtree(v, S)
    PROVE  Subtree(v, {m}) \subseteq Subtree(v, S)
  <1> DEFINE M == {m}
  <1>1. M \subseteq Subtree(v, S)
    OBVIOUS
  <1> HIDE DEF M
  <1>2. Subtree(v, M) \subseteq Subtree(v, S)
    BY <1>1, SubtreeGrows
  <1> QED BY <1>2 DEF M

(* A row that has n below it, n itself maybe, lies below itself.             *)
LoopAbove(w, n) == Endless(w, {m \in Nodes : n \in Subtree(w, {m})})

(* A row below its own child is on a loop, and all below it see that.        *)
LEMMA LoopIs ==
    ASSUME NEW w, NEW n, NEW d \in Nodes, NEW i \in Nodes,
           Present(w, d), Present(w, i), w[i].parent = d,
           n \in Subtree(w, {d}), d \in Subtree(w, {i})
    PROVE  LoopAbove(w, n)
  <1> DEFINE S == {m \in Nodes : n \in Subtree(w, {m})}
             C == {m \in Nodes : Present(w, m) /\ w[m].parent = d}
  <1>1. d \in S
    OBVIOUS
  <1>2. i \in C
    OBVIOUS
  <1> HIDE DEF S, C
  <1>3. d \in Subtree(w, S)
    BY <1>1, SubtreeIs
  <1>4. i \in Subtree(w, C)
    BY <1>2, SubtreeIs
  <1>5. d \in Subtree(w, C)
    BY <1>4, SubtreeInSubtree
  <1> QED BY <1>3, <1>5 DEF S, C, Endless, LoopAbove

(* Rows get another parent: what cannot be reached any more is below one of  *)
(* them; and if the new parent could be reached before, there is a loop.     *)
LEMMA Relocated ==
    ASSUME NEW v, NEW w, NEW I \in SUBSET Nodes, NEW d,
           \A k \in Nodes : w[k].status = v[k].status,
           \A k \in Nodes : k \notin I => w[k].parent = v[k].parent,
           \A k \in I : w[k].parent = d,
           NEW n \in Reachable(v), n \notin Reachable(w)
    PROVE  /\ n \in Subtree(w, I)
           /\ d \in Reachable(v) =>
                 d \notin Reachable(w) /\ LoopAbove(w, n)
  <1>1. \A k \in Reachable(v) : k \in Nodes /\ Live(w, k) /\ Present(w, k)
    <2>1. \A k \in Reachable(v) : k \in Nodes /\ Live(v, k)
      BY ReachableIs
    <2> QED BY <2>1 DEF Live, Present
  <1>2. Live(v, Root) => Root \in Reachable(w)
    <2>1. Live(v, Root) => Live(w, Root)
      BY RootIs DEF Live
    <2> QED BY <2>1, ReachableIs
  <1>3. \A k \in Reachable(v) : k \in Reachable(w) \/ k \in Subtree(w, I)
    <2> DEFINE X == {k \in Reachable(v) : k \in Reachable(w) \/ k \in Subtree(w, I)}
    <2>1. Live(v, Root) => Root \in X
      BY <1>2, ReachableIs
    <2>2. ASSUME NEW k \in Reachable(v), v[k].parent \in X PROVE k \in X
      <3>1. CASE k \in I
        BY <3>1, <1>1, SubtreeIs
      <3>2. CASE k \notin I
        <4>1. w[k].parent \in Reachable(w) \/ w[k].parent \in Subtree(w, I)
          BY <2>2, <3>2, <1>1
        <4> QED BY <4>1, <1>1, ReachableIs, SubtreeIs
      <3> QED BY <3>1, <3>2
    <2> HIDE DEF X
    <2>3. Reachable(v) \subseteq X
      BY <2>1, <2>2, ReachableIsLeast
    <2> QED BY <2>3 DEF X
  <1>4. n \in Subtree(w, I)
    BY <1>3
  <1>5. ASSUME d \in Reachable(w) PROVE FALSE
    <2> DEFINE X == Reachable(w)
    <2>1. Live(v, Root) => Root \in X
      BY <1>2
    <2>2. ASSUME NEW k \in Reachable(v), v[k].parent \in X PROVE k \in X
      <3>1. w[k].parent \in Reachable(w)
        BY <2>2, <1>1, <1>5
      <3> QED BY <3>1, <1>1, ReachableIs
    <2> HIDE DEF X
    <2>3. Reachable(v) \subseteq X
      BY <2>1, <2>2, ReachableIsLeast
    <2> QED BY <2>3 DEF X
  <1>6. ASSUME d \in Reachable(v)
        PROVE  LoopAbove(w, n)
    <2>1. d \in Subtree(w, I) /\ d \in Nodes /\ Present(w, d)
      BY <1>1, <1>3, <1>5, <1>6
    <2>2. PICK i \in I : i \in Nodes /\ Present(w, i) /\ d \in Subtree(w, {i})
      BY <2>1, SubtreeFromOne
    <2>3. PICK j \in I : j \in Nodes /\ Present(w, j) /\ n \in Subtree(w, {j})
      BY <1>4, SubtreeFromOne
    <2>4. d \in Subtree(w, {d})
      BY <2>1, SubtreeIs
    <2>5. j \in Subtree(w, {d})
      BY <2>3, <2>4, SubtreeIs
    <2>6. n \in Subtree(w, {d})
      BY <2>3, <2>5, SubtreeInSubtree
    <2> QED BY <2>1, <2>2, <2>6, LoopIs
  <1> QED BY <1>4, <1>5, <1>6

(* Rows go that no active row stays below.                                   *)
LEMMA DeletesStrandNobody ==
    ASSUME NEW v, NEW w, NEW X \in SUBSET Nodes,
           \A k \in Nodes : k \notin X => w[k] = v[k],
           \A k \in X : ~Live(w, k),
           \A k \in Nodes : Live(v, k) /\ Live(v, v[k].parent) /\ v[k].parent \in X => k \in X,
           NEW n \in Nodes, Live(w, n), Live(v, n) => n \in Reachable(v)
    PROVE  n \in Reachable(w)
  <1>1. n \in Reachable(v)
    BY DEF Live
  <1> DEFINE Y == {k \in Reachable(v) : Live(w, k) => k \in Reachable(w)}
  <1>2. Live(v, Root) => Root \in Y
    BY ReachableIs
  <1>3. ASSUME NEW k \in Reachable(v), v[k].parent \in Y PROVE k \in Y
    <2>1. SUFFICES ASSUME Live(w, k) PROVE k \in Reachable(w)
      BY <1>3
    <2>2. k \in Nodes /\ Live(v, k) /\ v[k].parent \in Reachable(v)
          /\ v[k].parent \in Nodes /\ Live(v, v[k].parent)
      BY <1>3, ReachableIs
    <2>3. k \notin X /\ v[k].parent \notin X
      BY <2>1, <2>2
    <2>4. w[k] = v[k] /\ Live(w, v[k].parent)
      BY <2>2, <2>3 DEF Live
    <2>5. w[k].parent \in Reachable(w)
      BY <2>4, <1>3
    <2> QED BY <2>1, <2>2, <2>5, ReachableIs
  <1> HIDE DEF Y
  <1>4. Reachable(v) \subseteq Y
    BY <1>2, <1>3, ReachableIsLeast
  <1> QED BY <1>1, <1>4 DEF Y

LEMMA InsertsStrandNobody ==
    ASSUME NEW v, NEW w, \A k \in Nodes : Live(v, k) => w[k].status = v[k].status
                                                        /\ w[k].parent = v[k].parent
    PROVE  Reachable(v) \subseteq Reachable(w)
  <1> DEFINE Y == Reachable(w)
  <1>1. Live(v, Root) => Root \in Y
    <2>1. Live(v, Root) => Live(w, Root)
      BY RootIs DEF Live
    <2> QED BY <2>1, ReachableIs
  <1>2. ASSUME NEW k \in Reachable(v), v[k].parent \in Y PROVE k \in Y
    <2>1. k \in Nodes /\ Live(v, k)
      BY ReachableIs
    <2>2. Live(w, k) /\ w[k].parent = v[k].parent
      BY <2>1 DEF Live
    <2> QED BY <1>2, <2>1, <2>2, ReachableIs
  <1> HIDE DEF Y
  <1>3. Reachable(v) \subseteq Y
    BY <1>1, <1>2, ReachableIsLeast
  <1> QED BY <1>3 DEF Y

LEMMA RelocationHasCause ==
    ASSUME NEW c \in Actors, act[c].pc \in {"ready", "finish"},
           NEW v, v = View(c), NEW w, w = rows',
           NEW I \in SUBSET Nodes, I \subseteq act[c].ids,
           \A k \in Nodes : w[k].status = v[k].status,
           \A k \in Nodes : k \notin I => w[k].parent = v[k].parent,
           \A k \in I : w[k].parent = act[c].dest,
           NEW n \in Reachable(v), n \notin Reachable(w)
    PROVE  LostByLoop(n) \/ LostBelowGone(c, n)
  <1>0. PICK d : d = act[c].dest
    OBVIOUS
  <1> DEFINE S == {m \in Nodes : (w[m] # rows[m] \/ m \in act[c].ids) /\ w[m].parent = d}
  <1>1. \A k \in I : w[k].parent = d
    BY <1>0
  <1>2. /\ n \in Subtree(w, I)
        /\ d \in Reachable(v) => LoopAbove(w, n)
    <2>1. n \in Subtree(w, I)
      BY <1>1, Relocated
    <2>2. ASSUME d \in Reachable(v)
          PROVE  LoopAbove(w, n)
      BY <1>1, <2>2, Relocated
    <2> QED BY <2>1, <2>2
  <1>3. CASE d \in Reachable(v)
    BY <1>2, <1>3 DEF LostByLoop, LoopAbove
  <1>4. CASE d \notin Reachable(v)
    <2>1. \A k \in I : k \in S
      BY <1>1
    <2> HIDE DEF S
    <2>2. PICK k \in I : k \in Nodes /\ Present(w, k) /\ n \in Subtree(w, {k})
      BY <1>2, SubtreeFromOne
    <2>3. k \in Subtree(w, S)
      BY <2>1, <2>2, SubtreeIs
    <2>4. n \in Subtree(w, S)
      BY <2>2, <2>3, SubtreeInSubtree
    <2> QED BY <2>4, <1>0, <1>4 DEF LostBelowGone, S
  <1> QED BY <1>3, <1>4

LEMMA UpdateRowStrands ==
    ASSUME TreeInv, NEW c \in Actors, UpdateRow(c),
           NEW n \in Nodes, Live(rows', n), n \notin Reachable(rows'),
           Live(rows, n) => n \in Reachable(rows)
    PROVE  LostByLoop(n) \/ LostBelowGone(c, n)
  <1> DEFINE a == act[c]
             dest(k) == IF a.dest = NoNode THEN rows[k].parent ELSE a.dest
             name(k) == IF a.name = NoName THEN rows[k].name ELSE a.name
             f == [k \in Nodes |->
                     IF k \in a.ids /\ Present(rows, k)
                     THEN [rows[k] EXCEPT !.parent = dest(k), !.name = name(k)]
                     ELSE rows[k]]
             I == IF a.dest = NoNode THEN {} ELSE {k \in Nodes : k \in a.ids /\ Present(rows, k)}
  <1>1. a \in ActShape /\ RequestRight(a) /\ DOMAIN a.wrote = {} /\ RowsRight(rows)
        /\ a.op = "update"
    BY ActIs DEF TreeInv, UpdateRow
  <1>2. a.pc = "ready" /\ View(c) = rows /\ rows \in [Nodes -> NodeRow]
    BY <1>1, ViewIs DEF RequestRight, RowsRight
  <1>3. rows' = f
    BY DEF UpdateRow, Commit
  <1>4. I \in SUBSET Nodes /\ I \subseteq a.ids
    OBVIOUS
  <1>5. PICK w : w = rows'
    OBVIOUS
  <1>6. ASSUME NEW k \in Nodes
        PROVE  /\ w[k].status = rows[k].status
               /\ k \notin I => w[k].parent = rows[k].parent
               /\ k \in I => w[k].parent = a.dest
    <2>1. rows[k] \in NodeRow
      BY <1>2
    <2>2. w[k] = IF k \in a.ids /\ Present(rows, k)
                 THEN [rows[k] EXCEPT !.parent = dest(k), !.name = name(k)] ELSE rows[k]
      BY <1>3, <1>5
    <2>3. w[k].status = rows[k].status
          /\ w[k].parent = IF k \in a.ids /\ Present(rows, k) THEN dest(k) ELSE rows[k].parent
      <3> HIDE DEF a, dest, name
      <3> QED BY <2>1, <2>2 DEF NodeRow
    <2> HIDE DEF a
    <2> QED BY <2>3
  <1>7. n \in Reachable(rows)
    <2>1. Live(w, n) /\ w[n].status = rows[n].status
      BY <1>5, <1>6
    <2> QED BY <2>1 DEF Live
  <1> HIDE DEF a, f, I
  <1>8. act[c].pc \in {"ready", "finish"} /\ I \subseteq act[c].ids /\ rows = View(c)
        /\ \A k \in I : w[k].parent = act[c].dest
    BY <1>2, <1>4, <1>6 DEF a
  <1>9. n \notin Reachable(w)
    BY <1>5
  <1> QED BY <1>4, <1>5, <1>6, <1>7, <1>8, <1>9, RelocationHasCause

LEMMA MoveRowsStrands ==
    ASSUME TreeInv, NEW c \in Actors, MoveRows(c),
           NEW n \in Nodes, Live(rows', n), n \notin Reachable(rows'),
           Live(rows, n) => n \in Reachable(rows)
    PROVE  LostByLoop(n) \/ LostBelowGone(c, n)
  <1> DEFINE a == act[c]
             f == Relocate(rows, a.ids, a.dest)
             I == {k \in Nodes : k \in a.ids /\ Present(rows, k)}
  <1>1. a \in ActShape /\ RequestRight(a) /\ DOMAIN a.wrote = {} /\ RowsRight(rows)
        /\ a.op = "move"
    BY ActIs DEF TreeInv, MoveRows
  <1>2. a.pc = "ready" /\ View(c) = rows /\ rows \in [Nodes -> NodeRow]
    BY <1>1, ViewIs DEF RequestRight, RowsRight
  <1>3. rows' = f
    BY DEF MoveRows, Commit
  <1>4. I \in SUBSET Nodes /\ I \subseteq a.ids
    OBVIOUS
  <1>5. PICK w : w = rows'
    OBVIOUS
  <1>6. ASSUME NEW k \in Nodes
        PROVE  /\ w[k].status = rows[k].status
               /\ k \notin I => w[k].parent = rows[k].parent
               /\ k \in I => w[k].parent = a.dest
    <2>1. rows[k] \in NodeRow
      BY <1>2
    <2>2. w[k] = IF k \in a.ids /\ Present(rows, k)
                 THEN [rows[k] EXCEPT !.parent = a.dest] ELSE rows[k]
      BY <1>3, <1>5 DEF Relocate
    <2> HIDE DEF a
    <2> QED BY <2>1, <2>2 DEF NodeRow
  <1>7. n \in Reachable(rows)
    <2>1. Live(w, n) /\ w[n].status = rows[n].status
      BY <1>5, <1>6
    <2> QED BY <2>1 DEF Live
  <1> HIDE DEF a, f, I
  <1>8. act[c].pc \in {"ready", "finish"} /\ I \subseteq act[c].ids /\ rows = View(c)
        /\ \A k \in I : w[k].parent = act[c].dest
    BY <1>2, <1>4, <1>6 DEF a
  <1>9. n \notin Reachable(w)
    BY <1>5
  <1> QED BY <1>4, <1>5, <1>6, <1>7, <1>8, <1>9, RelocationHasCause

LEMMA DeleteRowsStrands ==
    ASSUME TreeInv, NEW c \in Actors, DeleteRows(c),
           NEW n \in Nodes, Live(rows', n), Live(rows, n) => n \in Reachable(rows)
    PROVE  n \in Reachable(rows')
  <1> DEFINE X == Subtree(rows, act[c].ids)
             gone(k) == IF rows[k].type = "file" THEN [rows[k] EXCEPT !.status = "pending_deletion"]
                                                 ELSE [rows[k] EXCEPT !.status = "removed"]
  <1>1. rows' = [k \in Nodes |-> IF k \notin X THEN rows[k] ELSE gone(k)]
    BY DEF DeleteRows, Commit, BulkDelete
  <1>2. PICK w : w = rows'
    OBVIOUS
  <1>3. X \in SUBSET Nodes
        /\ \A k \in Nodes : Present(rows, k) /\ rows[k].parent \in X => k \in X
    BY SubtreeIs
  <1> HIDE DEF X
  <1>4. ASSUME NEW k \in X PROVE ~Live(w, k)
    <2>1. rows[k] \in NodeRow
      BY <1>3 DEF TreeInv, RowsRight
    <2>2. gone(k).status # "active"
      BY <2>1 DEF NodeRow
    <2>3. w[k] = gone(k)
      BY <1>1, <1>2, <1>3
    <2> HIDE DEF gone
    <2> QED BY <2>2, <2>3 DEF Live
  <1>5. \A k \in Nodes : k \notin X => w[k] = rows[k]
    BY <1>1, <1>2
  <1>6. \A k \in Nodes : Live(rows, k) /\ Live(rows, rows[k].parent) /\ rows[k].parent \in X
                            => k \in X
    BY <1>3 DEF Live, Present
  <1>7. Live(w, n)
    BY <1>2
  <1>8. n \in Reachable(w)
    BY <1>3, <1>4, <1>5, <1>6, <1>7, DeletesStrandNobody
  <1> QED BY <1>2, <1>8

LEMMA PurgeRowStrands ==
    ASSUME TreeInv, NEW m \in Nodes, PurgeRow(m),
           NEW n \in Nodes, Live(rows', n), Live(rows, n) => n \in Reachable(rows)
    PROVE  n \in Reachable(rows')
  <1> DEFINE X == {m}
  <1>1. rows' = [rows EXCEPT ![m].status = "removed"] /\ rows[m].status = "pending_deletion"
        /\ rows \in [Nodes -> NodeRow]
    BY DEF PurgeRow, Commit, TreeInv, RowsRight
  <1>2. PICK w : w = rows'
    OBVIOUS
  <1>3. w[m].status = "removed" /\ \A k \in Nodes : k # m => w[k] = rows[k]
    BY <1>1, <1>2 DEF NodeRow
  <1>4. X \in SUBSET Nodes /\ (\A k \in Nodes : k \notin X => w[k] = rows[k])
        /\ (\A k \in X : ~Live(w, k))
        /\ \A k \in Nodes : Live(rows, k) /\ Live(rows, rows[k].parent) /\ rows[k].parent \in X
                               => k \in X
    BY <1>1, <1>3 DEF Live
  <1> HIDE DEF X
  <1>5. Live(w, n)
    BY <1>2
  <1>6. n \in Reachable(w)
    BY <1>4, <1>5, DeletesStrandNobody
  <1> QED BY <1>2, <1>6

LEMMA ChainIn ==
    ASSUME NEW u \in Nat, NEW k \in Nat, NEW Y,
           u + 1 \in Nodes /\ u + 1 <= k => u + 1 \in Y,
           \A m \in Nodes : m > u + 1 /\ m <= k /\ m - 1 \in Y => m \in Y,
           NEW n \in Nodes, n > u, n <= k
    PROVE  n \in Y
  <1>0. MaxNodes \in Nat /\ Nodes = 1 .. MaxNodes
    BY FileTreeAssumption DEF Nodes
  <1> DEFINE Bad == {m \in 0 .. MaxNodes : m > u /\ m <= k /\ m \notin Y}
  <1>1. SUFFICES ASSUME Bad # {} PROVE FALSE
    <2>1. n \in 0 .. MaxNodes
      BY <1>0
    <2> QED BY <2>1, <1>1
  <1>2. PICK m \in Bad : \A i \in Bad : m <= i
    <2>1. Bad \in SUBSET (0 .. MaxNodes)
      OBVIOUS
    <2> HIDE DEF Bad
    <2> QED BY <2>1, <1>1, <1>0, LeastUpTo
  <1>3. m \in Nodes /\ m > u /\ m <= k /\ m \notin Y /\ m \in Nat
    BY <1>0
  <1>4. m # u + 1
    BY <1>3
  <1>5. m - 1 \in 0 .. MaxNodes /\ m - 1 > u /\ m - 1 <= k /\ ~(m <= m - 1)
    BY <1>0, <1>3, <1>4
  <1>6. m - 1 \in Y
    BY <1>2, <1>5
  <1> QED BY <1>3, <1>4, <1>5, <1>6

(* Rows that are inserted and cannot be reached are below a destination that *)
(* could not be reached either.                                              *)
LEMMA InsertHasCause ==
    ASSUME TreeInv, NEW c \in Actors, act[c].pc = "ready", DOMAIN act[c].wrote = {},
           NEW w, w = rows', NEW k \in Nat, ChainAdded(rows, w, k, act[c].dest),
           NEW n \in Nodes, Live(w, n), n \notin Reachable(w),
           Live(rows, n) => n \in Reachable(rows)
    PROVE  LostBelowGone(c, n)
  <1>1. PICK d, v, u : d = act[c].dest /\ v = rows /\ u = Used(rows)
    OBVIOUS
  <1>2. /\ u \in Nat /\ RowsRight(v) /\ View(c) = v
        /\ \A m \in Nodes : v[m].status # "free" <=> m <= u
    <2>1. RowsRight(v) /\ View(c) = v
      BY <1>1, ViewIs DEF TreeInv
    <2>2. u \in 0 .. MaxNodes /\ MaxNodes \in Nat
      BY <2>1, <1>1, UsedAre, FileTreeAssumption
    <2> QED BY <2>1, <2>2, <1>1, UsedAre
  <1>3. \A m \in Nodes :
           /\ m \in Nat
           /\ m <= u \/ m > k => w[m] = v[m]
           /\ m > u /\ m <= k => /\ Live(w, m) /\ Present(w, m)
                                 /\ w[m].parent = IF m = u + 1 THEN d ELSE m - 1
    <2>1. \A m \in Nodes : m \in Nat
      BY DEF Nodes
    <2> QED BY <2>1, <1>1 DEF ChainAdded, Live, Present
  <1>4. Reachable(v) \subseteq Reachable(w)
    <2>1. \A m \in Nodes : Live(v, m) => w[m].status = v[m].status /\ w[m].parent = v[m].parent
      BY <1>2, <1>3 DEF Live
    <2> QED BY <2>1, InsertsStrandNobody
  <1>5. n > u /\ n <= k
    <2>1. ASSUME n <= u \/ n > k PROVE FALSE
      <3>1. w[n] = v[n]
        BY <2>1, <1>3
      <3>2. n \in Reachable(v)
        BY <3>1, <1>1 DEF Live
      <3> QED BY <3>2, <1>4
    <2> QED BY <2>1, <1>2, <1>3
  <1>6. d \notin Reachable(w)
    <2>1. SUFFICES ASSUME d \in Reachable(w) PROVE FALSE
      OBVIOUS
    <2> DEFINE Y == Reachable(w)
    <2>2. u + 1 \in Nodes /\ u + 1 <= k => u + 1 \in Y
      <3>1. SUFFICES ASSUME u + 1 \in Nodes, u + 1 <= k PROVE u + 1 \in Y
        OBVIOUS
      <3>2. Live(w, u + 1) /\ w[u + 1].parent = d
        BY <3>1, <1>2, <1>3
      <3> QED BY <3>1, <3>2, <2>1, ReachableIs
    <2>3. ASSUME NEW m \in Nodes, m > u + 1, m <= k, m - 1 \in Y PROVE m \in Y
      <3>1. Live(w, m) /\ w[m].parent = m - 1
        BY <2>3, <1>2, <1>3
      <3> QED BY <3>1, <2>3, ReachableIs
    <2> HIDE DEF Y
    <2>4. n \in Y
      BY <2>2, <2>3, <1>2, <1>5, ChainIn
    <2> QED BY <2>4 DEF Y
  <1> DEFINE S == {m \in Nodes : (w[m] # rows[m] \/ m \in act[c].ids) /\ w[m].parent = d}
             Y == Subtree(w, S)
  <1>7. u + 1 \in Nodes /\ u + 1 <= k => u + 1 \in Y
    <2>1. SUFFICES ASSUME u + 1 \in Nodes, u + 1 <= k PROVE u + 1 \in Y
      OBVIOUS
    <2>2. Live(w, u + 1) /\ Present(w, u + 1) /\ w[u + 1].parent = d
      BY <2>1, <1>2, <1>3
    <2>3. v[u + 1].status = "free"
      BY <2>1, <1>2
    <2>4. w[u + 1] # rows[u + 1]
      BY <2>2, <2>3, <1>1 DEF Live
    <2>5. u + 1 \in S
      BY <2>1, <2>2, <2>4
    <2> HIDE DEF S
    <2> QED BY <2>1, <2>2, <2>5, SubtreeIs
  <1> HIDE DEF S
  <1>8. ASSUME NEW m \in Nodes, m > u + 1, m <= k, m - 1 \in Y PROVE m \in Y
    <2>1. Present(w, m) /\ w[m].parent = m - 1
      BY <1>8, <1>2, <1>3
    <2> QED BY <2>1, <1>8, SubtreeIs
  <1> HIDE DEF Y
  <1>9. n \in Y
    BY <1>7, <1>8, <1>2, <1>5, ChainIn
  <1>10. act[c].dest \notin Reachable(View(c))
    BY <1>1, <1>2, <1>4, <1>6
  <1> QED BY <1>1, <1>9, <1>10 DEF LostBelowGone, Y, S

LEMMA PathInsertStrands ==
    ASSUME TreeInv, NEW c \in Actors, PathInsert(c),
           NEW n \in Nodes, Live(rows', n), n \notin Reachable(rows'),
           Live(rows, n) => n \in Reachable(rows)
    PROVE  LostBelowGone(c, n)
  <1>1. act[c] \in ActShape /\ RequestRight(act[c]) /\ DOMAIN act[c].wrote = {}
        /\ RowsRight(rows) /\ act[c].op \in {"mkdir", "copy"}
    BY ActIs DEF TreeInv, PathInsert
  <1>2. act[c].pc = "ready"
    BY <1>1 DEF RequestRight
  <1>3. PICK w \in [Nodes -> NodeRow], k \in Nat :
              /\ w = InsertChain(rows, act[c].dest, act[c].path, act[c].name)
              /\ ChainAdded(rows, w, k, act[c].dest)
    <2>1. PICK cur \in Nodes, path \in Seq(NodeNames), leaf \in NodeNames \cup {NoName} :
             cur = act[c].dest /\ path = act[c].path /\ leaf = act[c].name
      BY <1>1 DEF RequestRight, ActShape
    <2>2. PICK v : v = rows
      OBVIOUS
    <2>3. RowsRight(v)
      BY <1>1, <2>2
    <2>4. \E w \in [Nodes -> NodeRow], k \in Nat :
              w = InsertChain(v, cur, path, leaf) /\ ChainAdded(v, w, k, cur)
      BY <2>3, ChainIs
    <2> QED BY <2>1, <2>2, <2>4
  <1>4. rows' = w
    BY <1>3 DEF PathInsert, Commit
  <1>5. Live(w, n) /\ n \notin Reachable(w)
    BY <1>4
  <1> QED BY <1>1, <1>2, <1>3, <1>4, <1>5, InsertHasCause

LEMMA CreateRowStrands ==
    ASSUME TreeInv, NEW c \in Actors, CreateRow(c),
           NEW n \in Nodes, Live(rows', n), n \notin Reachable(rows'),
           Live(rows, n) => n \in Reachable(rows)
    PROVE  LostBelowGone(c, n)
  <1> DEFINE a == act[c]
             f == Upsert(rows, a.name, a.dest, a.type)
             hit == {k \in Nodes : Live(rows, k) /\ rows[k].name = a.name
                                   /\ rows[k].parent = a.dest}
             new == NewRow(a.name, a.dest, a.type)
  <1>1. a \in ActShape /\ RequestRight(a) /\ DOMAIN a.wrote = {} /\ RowsRight(rows)
        /\ a.op = "create"
    BY ActIs DEF TreeInv, CreateRow
  <1>2. a.pc = "ready" /\ a.dest \in Nodes /\ a.name # NoName /\ rows \in [Nodes -> NodeRow]
    BY <1>1, FileTreeAssumption DEF RequestRight, RowsRight
  <1>3. rows' = f
    BY DEF CreateRow, Commit
  <1>4. PICK w : w = rows'
    OBVIOUS
  <1>5. Live(w, n) /\ n \notin Reachable(w)
    BY <1>4
  <1>6. CASE hit = {}
    <2>1. PICK u : u = Used(rows)
      OBVIOUS
    <2>2. u \in Nat /\ u + 1 \in Nodes
      <3>1. u \in 0 .. MaxNodes /\ u + 1 <= MaxNodes /\ MaxNodes \in Nat
        BY <2>1, <1>1, UsedAre, FileTreeAssumption DEF RoomFor, CreateRow
      <3> QED BY <3>1 DEF Nodes
    <2>3. w = [rows EXCEPT ![u + 1] = new]
      BY <2>1, <1>3, <1>4, <1>6 DEF Upsert, InsertRow
    <2>4. new.status = "active" /\ new.name = a.name /\ new.parent = a.dest
      BY DEF NewRow
    <2> HIDE DEF new, a
    <2>5. w[u + 1] = new /\ \A k \in Nodes : k # u + 1 => w[k] = rows[k]
      BY <2>2, <2>3, <1>2
    <2>6. \A k \in Nodes : k \in Nat
      BY DEF Nodes
    <2>7. ChainAdded(rows, w, u + 1, a.dest)
      <3>1. ASSUME NEW k \in Nodes, k <= u \/ k > u + 1 PROVE w[k] = rows[k]
        BY <3>1, <2>2, <2>5, <2>6
      <3>2. ASSUME NEW k \in Nodes, k > u, k <= u + 1 PROVE k = u + 1
        BY <3>2, <2>2, <2>6
      <3> QED BY <3>1, <3>2, <2>1, <2>4, <2>5, <1>2 DEF ChainAdded
    <2>8. u + 1 \in Nat
      BY <2>2
    <2> QED BY <2>7, <2>8, <1>1, <1>2, <1>4, <1>5, InsertHasCause DEF a
  <1>7. CASE hit # {}
    <2>1. w = [k \in Nodes |-> IF k \in hit THEN [rows[k] EXCEPT !.type = a.type] ELSE rows[k]]
      BY <1>3, <1>4, <1>7 DEF Upsert
    <2> HIDE DEF hit, a
    <2>2. ASSUME NEW k \in Nodes
          PROVE  w[k].status = rows[k].status /\ w[k].parent = rows[k].parent
      <3>1. rows[k] \in NodeRow
        BY <1>2
      <3> QED BY <3>1, <2>1 DEF NodeRow
    <2>3. Reachable(rows) \subseteq Reachable(w)
      BY <2>2, InsertsStrandNobody
    <2>4. Live(rows, n)
      BY <2>2, <1>5 DEF Live
    <2> QED BY <2>3, <2>4, <1>5
  <1> QED BY <1>6, <1>7

(* The last statement of a move under a new name: the source itself moves;   *)
(* and what the transaction wrote before becomes visible.                    *)
LEMMA RenameFinishStrands ==
    ASSUME TreeInv, NEW c \in Actors, RenameFinish(c),
           NEW n \in Nodes, Live(rows', n), n \notin Reachable(rows'),
           Live(rows, n) => n \in Reachable(rows)
    PROVE  LostByLoop(n) \/ LostBelowGone(c, n) \/ LostByReplace(c, n)
  <1>0. PICK src \in Nodes \ {Root}, w \in [Nodes -> NodeRow] :
              /\ rows' = w /\ act[c].ids = {src} /\ RenameRight(rows, act[c], src)
              /\ act[c].dest \in Nodes /\ act[c].pc = "finish"
              /\ \A k \in Nodes : k # src => w[k] = View(c)[k]
              /\ Present(View(c), src) =>
                    w[src] = [View(c)[src] EXCEPT !.parent = act[c].dest, !.name = act[c].name]
              /\ ~Present(View(c), src) => w[src] = View(c)[src]
    BY RenameFinishIs
  <1>1. PICK a, v, D : a = act[c] /\ v = View(c) /\ D = DOMAIN act[c].wrote
    OBVIOUS
  <1>2. /\ rows' = w /\ a.ids = {src} /\ RenameRight(rows, a, src)
        /\ a.dest \in Nodes /\ a.pc = "finish"
        /\ \A k \in Nodes : k # src => w[k] = v[k]
        /\ Present(v, src) => w[src] = [v[src] EXCEPT !.parent = a.dest, !.name = a.name]
        /\ ~Present(v, src) => w[src] = v[src]
    BY <1>0, <1>1
  <1>3. /\ v \in [Nodes -> NodeRow] /\ rows \in [Nodes -> NodeRow]
        /\ \A k \in Nodes : k \in D => v[k] = a.wrote[k]
        /\ \A k \in Nodes : k \notin D => v[k] = rows[k]
        /\ D = {} => v = rows
        /\ D \in SUBSET Nodes /\ D = DOMAIN a.wrote
    BY <1>1, ViewIs, WroteIs, ActIs DEF TreeInv, RowsRight
  <1>4. /\ \A k \in D : Taken(rows, a, k) \/ MovedUp(rows, a, k, src)
        /\ src \in D /\ Taken(rows, a, src) => \A k \in D : Taken(rows, a, k)
        /\ D # {} => a.found \in Nodes
    BY <1>2, <1>3 DEF RenameRight
  <1>5. /\ \A k \in Nodes : w[k].status = v[k].status
        /\ \A k \in Nodes : k # src => w[k].parent = v[k].parent
        /\ Present(v, src) => w[src].parent = a.dest
    <2>1. v[src] \in NodeRow
      BY <1>3
    <2>2. CASE Present(v, src)
      <3>1. w[src].status = v[src].status /\ w[src].parent = a.dest
        BY <2>1, <2>2, <1>2 DEF NodeRow
      <3> QED BY <3>1, <1>2
    <2>3. CASE ~Present(v, src)
      BY <2>3, <1>2
    <2> QED BY <2>2, <2>3
  <1>6. Live(w, n) /\ n \notin Reachable(w) /\ Live(v, n)
    BY <1>2, <1>5 DEF Live
  <1>7. \A k \in D : Taken(rows, a, k) => ~Live(v, k) /\ k \in Subtree(rows, {a.found})
    BY <1>1, <1>3, TakenIsBelow DEF Taken, Live
  <1>8. \A k \in D : MovedUp(rows, a, k, src) =>
             /\ k \in a.kept /\ Live(rows, k) /\ Live(v, k) /\ rows[k].parent = a.found
             /\ v[k].parent = src
    BY <1>3 DEF MovedUp, Live, NodeRow
  <1>9. Live(rows, n) /\ n \in Reachable(rows)
    <2>1. CASE n \in D
      BY <2>1, <1>4, <1>6, <1>7, <1>8
    <2>2. CASE n \notin D
      BY <2>2, <1>3, <1>6 DEF Live
    <2> QED BY <2>1, <2>2
  <1> DEFINE I == {k \in {src} : Present(v, k)}
  <1>10. /\ I \in SUBSET Nodes /\ I \subseteq a.ids
         /\ \A k \in Nodes : k \notin I => w[k].parent = v[k].parent
         /\ \A k \in I : w[k].parent = a.dest
         /\ \A k \in I : k = src
    BY <1>2, <1>5
  <1> HIDE DEF I
  <1>11. CASE n \in Reachable(v)
    <2>1. act[c].pc \in {"ready", "finish"} /\ I \subseteq act[c].ids /\ w = rows'
          /\ \A k \in I : w[k].parent = act[c].dest
      BY <1>1, <1>2, <1>10
    <2> QED BY <1>1, <1>5, <1>6, <1>10, <1>11, <2>1, RelocationHasCause
  <1>12. CASE n \notin Reachable(v)
    <2>1. D # {} /\ a.found \in Nodes /\ a.found # NoNode
      BY <1>3, <1>4, <1>9, <1>12, RootIs
    <2>2. n \in Subtree(rows, {a.found})
      <3> DEFINE X == {k \in Reachable(rows) : k \in Reachable(v) \/ k \in Subtree(rows, {a.found})}
      <3>1. ASSUME Live(rows, Root) PROVE Root \in X
        <4>1. Root \in Reachable(rows)
          BY <3>1, ReachableIs
        <4>2. CASE Live(v, Root)
          BY <4>1, <4>2, ReachableIs
        <4>3. CASE ~Live(v, Root)
          <5>1. Root \in D
            BY <4>3, <3>1, <1>3, RootIs DEF Live
          <5> QED BY <4>1, <4>3, <5>1, <1>4, <1>7, <1>8
        <4> QED BY <4>2, <4>3
      <3>2. ASSUME NEW k \in Reachable(rows), k # Root, rows[k].parent \in X PROVE k \in X
        <4>1. k \in Nodes /\ Live(rows, k) /\ Present(rows, k)
          BY <3>2, ReachableIs DEF Live, Present
        <4>2. CASE k \in D
          <5>1. CASE Taken(rows, a, k)
            BY <4>2, <5>1, <1>7
          <5>2. CASE MovedUp(rows, a, k, src)
            <6>1. rows[k].parent = a.found /\ a.found \in Reachable(rows)
              BY <4>2, <5>2, <1>8, <3>2
            <6>2. Present(rows, a.found)
              BY <6>1, ReachableIs DEF Live, Present
            <6>3. a.found \in Subtree(rows, {a.found})
              BY <6>2, <2>1, SubtreeIs
            <6>4. k \in Subtree(rows, {a.found})
              BY <6>1, <6>3, <4>1, SubtreeIs
            <6> QED BY <6>4
          <5> QED BY <4>2, <5>1, <5>2, <1>4
        <4>3. CASE k \notin D
          <5>1. v[k] = rows[k] /\ Live(v, k)
            BY <4>1, <4>3, <1>3 DEF Live
          <5>2. CASE rows[k].parent \in Reachable(v)
            <6>1. k \in Reachable(v)
              BY <5>1, <5>2, <4>1, ReachableIs
            <6> QED BY <6>1
          <5>3. CASE rows[k].parent \in Subtree(rows, {a.found})
            <6>1. k \in Subtree(rows, {a.found})
              BY <5>3, <4>1, SubtreeIs
            <6> QED BY <6>1
          <5> QED BY <5>2, <5>3, <3>2
        <4> QED BY <4>2, <4>3
      <3> HIDE DEF X
      <3>3. Reachable(rows) \subseteq X
        BY <3>1, <3>2, ReachableIsLeast
      <3> QED BY <3>3, <1>9, <1>12 DEF X
    <2>3. CASE n \notin D
      BY <2>1, <2>2, <2>3, <1>1, <1>2 DEF LostByReplace
    <2>4. CASE n \in D
      <3>1. MovedUp(rows, a, n, src) /\ n \in a.kept /\ v[n].parent = src
        BY <2>4, <1>4, <1>6, <1>7, <1>8
      <3>2. ~(src \in D /\ Taken(rows, a, src))
        BY <2>4, <1>4, <1>6, <1>7
      <3>3. Present(w, n) /\ (n = src \/ w[n].parent = src)
        BY <3>1, <1>5, <1>6 DEF Live, Present
      <3>4. CASE Live(v, src)
        <4>1. Present(v, src) /\ Present(w, src) /\ Live(w, src) /\ w[src].parent = a.dest
          BY <3>4, <1>2, <1>5 DEF Live, Present
        <4>2. src \in Subtree(w, {src})
          BY <4>1, SubtreeIs
        <4>3. n \in Subtree(w, {src})
          BY <4>2, <3>3, SubtreeIs
        <4>4. a.dest \notin Reachable(w)
          <5>1. SUFFICES ASSUME a.dest \in Reachable(w) PROVE FALSE
            OBVIOUS
          <5>2. src \in Reachable(w)
            BY <5>1, <4>1, ReachableIs
          <5>3. n \in Reachable(w)
            BY <5>2, <3>3, <1>6, ReachableIs
          <5> QED BY <5>3, <1>6
        <4>5. CASE a.dest \in Reachable(v)
          <5>1. PICK d \in Nodes : d = a.dest
            BY <1>2
          <5>2. d \in Reachable(v) /\ d \notin Reachable(w) /\ \A k \in I : w[k].parent = d
            BY <5>1, <4>4, <4>5, <1>10
          <5>3. d \in Subtree(w, I)
            BY <5>2, <1>5, <1>10, Relocated
          <5>4. d \in Subtree(w, {src})
            <6>1. PICK k \in I : d \in Subtree(w, {k})
              BY <5>3, SubtreeFromOne
            <6> QED BY <6>1, <1>10
          <5>5. Present(w, d)
            BY <5>4, SubtreeIs
          <5>6. d \in Subtree(w, {d})
            BY <5>5, SubtreeIs
          <5>7. src \in Subtree(w, {d})
            BY <5>1, <5>6, <4>1, SubtreeIs
          <5>8. n \in Subtree(w, {d})
            BY <5>7, <4>3, SubtreeInSubtree
          <5>9. LoopAbove(w, n)
            BY <5>1, <5>4, <5>5, <5>8, <4>1, LoopIs
          <5> QED BY <5>9, <1>2 DEF LostByLoop, LoopAbove
        <4>6. CASE a.dest \notin Reachable(v)
          <5> DEFINE S == {m \in Nodes : (w[m] # rows[m] \/ m \in a.ids) /\ w[m].parent = a.dest}
          <5>1. src \in S
            BY <4>1, <1>2
          <5> HIDE DEF S
          <5>2. src \in Subtree(w, S)
            BY <5>1, <4>1, SubtreeIs
          <5>3. n \in Subtree(w, S)
            BY <5>2, <4>3, SubtreeInSubtree
          <5> QED BY <5>3, <4>6, <1>1, <1>2 DEF LostBelowGone, S
        <4> QED BY <4>5, <4>6
      <3>5. CASE ~Live(v, src)
        <4>1. src \notin D
          BY <3>2, <3>5, <1>4, <1>8
        <4>2. ~Live(rows, src)
          BY <4>1, <3>5, <1>2, <1>3 DEF Live
        <4>3. src \notin Reachable(rows)
          BY <4>2, ReachableIs
        <4>4. a.ids \cap Reachable(rows) = {}
          BY <4>3, <1>2
        <4>5. n \in Subtree(w, a.kept)
          BY <3>1, <3>3, SubtreeIs
        <4> QED BY <2>1, <4>4, <4>5, <1>1, <1>2 DEF LostByReplace
      <3> QED BY <3>4, <3>5
    <2> QED BY <2>3, <2>4
  <1> QED BY <1>11, <1>12

LEMMA StrandsAre ==
    ASSUME TreeInv, TreeNext, rows' # rows, NEW n \in Stranded(rows') \ Stranded(rows)
    PROVE  \/ LostByLoop(n)
           \/ \E c \in Actors : act'[c].pc = "idle" /\ (LostBelowGone(c, n) \/ LostByReplace(c, n))
  <1>1. n \in Nodes /\ Live(rows', n) /\ n \notin Reachable(rows')
        /\ (Live(rows, n) => n \in Reachable(rows))
    BY DEF Stranded
  <1>2. ~\E m \in Nodes : PurgeRow(m)
    BY <1>1, PurgeRowStrands
  <1>3. PICK c \in Actors :
           /\ act'[c] = IdleAct
           /\ CreateRow(c) \/ PathInsert(c) \/ UpdateRow(c) \/ DeleteRows(c)
                 \/ MoveRows(c) \/ RenameFinish(c)
    BY <1>2, ChangesAre
  <1>4. act'[c].pc = "idle"
    BY <1>3, IdleIs
  <1>5. ~DeleteRows(c)
    BY <1>1, DeleteRowsStrands
  <1>6. LostByLoop(n) \/ LostBelowGone(c, n) \/ LostByReplace(c, n)
    BY <1>1, <1>3, <1>5, CreateRowStrands, PathInsertStrands, UpdateRowStrands,
       MoveRowsStrands, RenameFinishStrands
  <1> QED BY <1>4, <1>6

(* An active row that cannot be reached from the root any more was lost in    *)
(* one of the ways that StrandsHaveCause names; in particular no delete and   *)
(* no purge strands anything, and no insert takes anything away.              *)
THEOREM StrandsAreExplained ==
    TreeSpec => StrandsHaveCause
  <1>1. ASSUME TreeInv, [TreeNext]_treeVars
        PROVE  [ rows' # rows =>
                   \A n \in Stranded(rows') \ Stranded(rows) :
                     \/ LostByLoop(n)
                     \/ \E c \in Actors :
                          act'[c].pc = "idle" /\ (LostBelowGone(c, n) \/ LostByReplace(c, n))
               ]_treeVars
    BY <1>1, StrandsAre
  <1> QED BY <1>1, TreeInvHolds, PTL DEF TreeSpec, StrandsHaveCause
=============================================================================
