-------------------------- MODULE StreamReaderProofs --------------------------
(* Serving a range of a file is a range transfer, for every size of parts,   *)
(* chunks, blocks, batches and channels, every range and every size of       *)
(* reads, in whatever order the chunks of a batch arrive, and for files that *)
(* are encrypted as well as for those that are not: the proof that           *)
(* StreamReader implements RangeTransfer.                                    *)
EXTENDS StreamReader, SequenceTheorems, WellFoundedInduction, TLAPS

-----------------------------------------------------------------------------
(* Quotients and remainders *)

LEMMA Division ==
    ASSUME NEW a \in Nat, NEW m \in Nat \ {0}
    PROVE  \E q \in Nat, r \in 0 .. m - 1 : q = a \div m /\ r = a % m /\ a = m * q + r
  <1> DEFINE q == a \div m
             r == a % m
  <1>1. q \in Nat /\ r \in 0 .. m - 1
    OBVIOUS
  <1>2. ASSUME NEW x \in Int, NEW y \in Int, x = a \div m, y = a % m
        PROVE  a = m * x + y
    BY <1>2
  <1>3. a = m * q + r
    BY <1>1, <1>2
  <1> QED BY <1>1, <1>3

(* A larger factor gives a product that is larger by a multiple of m.        *)
LEMMA ProductOrder ==
    ASSUME NEW m \in Nat \ {0}, NEW x \in Int, NEW y \in Int, x < y
    PROVE  m * x \in Int /\ m * y \in Int /\ m * x + m <= m * y
  <1>1. PICK d \in Nat \ {0} : y = x + d
    <2>1. y - x \in Nat \ {0} /\ y = x + (y - x)
      OBVIOUS
    <2> QED BY <2>1
  <1>2. m * y = m * x + m * d /\ m * x \in Int /\ m * d \in Int
    BY <1>1
  <1>3. m * d >= m
    <2>1. PICK e \in Nat : d = e + 1
      <3>1. d - 1 \in Nat /\ d = (d - 1) + 1
        OBVIOUS
      <3> QED BY <3>1
    <2>2. m * d = m * e + m /\ m * e \in Nat
      BY <2>1
    <2> QED BY <2>2
  <1> QED BY <1>2, <1>3

(* Quotient and remainder are what the division with remainder gives.        *)
LEMMA QuotientIs ==
    ASSUME NEW a \in Nat, NEW m \in Nat \ {0}, NEW q \in Nat, NEW r \in 0 .. m - 1,
           a = m * q + r
    PROVE  a \div m = q /\ a % m = r
  <1>1. PICK q2 \in Nat, r2 \in 0 .. m - 1 :
          q2 = a \div m /\ r2 = a % m /\ a = m * q2 + r2
    BY Division
  <1>3. m * q + r = m * q2 + r2
    BY <1>1
  <1>4. m * q \in Int /\ m * q2 \in Int
    OBVIOUS
  <1>5. CASE q < q2
    <2>1. m * q + m <= m * q2
      BY <1>5, ProductOrder
    <2> QED BY <2>1, <1>3, <1>4
  <1>6. CASE q2 < q
    <2>1. m * q2 + m <= m * q
      BY <1>6, ProductOrder
    <2> QED BY <2>1, <1>3, <1>4
  <1>7. CASE q = q2
    BY <1>1, <1>3, <1>4, <1>7
  <1> QED BY <1>5, <1>6, <1>7

(* The same, under a name.                                                   *)
DividesInto(a, m, q, r) == a \div m = q /\ a % m = r

LEMMA DivisionIs ==
    ASSUME NEW a \in Nat, NEW m \in Nat \ {0}, NEW q \in Nat, NEW r \in 0 .. m - 1,
           a = m * q + r
    PROVE  DividesInto(a, m, q, r)
  BY QuotientIs DEF DividesInto

(* The quotient of a number below m * w is below w.                          *)
LEMMA QuotientBelow ==
    ASSUME NEW a \in Nat, NEW m \in Nat \ {0}, NEW w \in Nat, a < m * w
    PROVE  a \div m < w
  <1>1. PICK q \in Nat, r \in 0 .. m - 1 : q = a \div m /\ a = m * q + r
    BY Division
  <1>2. m * w \in Nat /\ m * q \in Nat
    OBVIOUS
  <1>3. CASE w < q
    <2>1. m * w + m <= m * q
      BY <1>3, ProductOrder
    <2> QED BY <2>1, <1>1, <1>2
  <1>4. CASE w = q
    BY <1>1, <1>2, <1>4
  <1> QED BY <1>1, <1>3, <1>4

(* Quotient and remainder of the next number.                                *)
LEMMA SuccessorStep ==
    ASSUME NEW m \in Nat \ {0}, NEW u \in Nat
    PROVE  IF u % m = m - 1
           THEN (u + 1) % m = 0 /\ (u + 1) \div m = u \div m + 1
           ELSE (u + 1) % m = (u % m) + 1 /\ (u + 1) \div m = u \div m
  <1>1. PICK q \in Nat, r \in 0 .. m - 1 : q = u \div m /\ r = u % m /\ u = m * q + r
    BY Division
  <1>2. CASE r = m - 1
    <2>1. m * (q + 1) = m * q + m /\ m * q \in Nat /\ q + 1 \in Nat /\ 0 \in 0 .. m - 1
      OBVIOUS
    <2>2. u + 1 = m * (q + 1) + 0
      BY <2>1, <1>1, <1>2
    <2>3. (u + 1) \div m = q + 1 /\ (u + 1) % m = 0
      <3>1. u + 1 \in Nat
        OBVIOUS
      <3> QED BY <3>1, <2>1, <2>2, QuotientIs
    <2> QED BY <2>3, <1>1, <1>2
  <1>3. CASE r # m - 1
    <2>1. r + 1 \in 0 .. m - 1 /\ m * q \in Nat
      BY <1>3
    <2>2. u + 1 = m * q + (r + 1)
      BY <2>1, <1>1
    <2>3. (u + 1) \div m = q /\ (u + 1) % m = r + 1
      <3>1. u + 1 \in Nat
        OBVIOUS
      <3> QED BY <3>1, <2>1, <2>2, QuotientIs
    <2> QED BY <2>3, <1>1, <1>3
  <1> QED BY <1>2, <1>3

(* What holds of no least number holds of none.                              *)
LEMMA LeastOf ==
    ASSUME NEW T \in SUBSET Nat, T # {}
    PROVE  \E t \in T : \A u \in T : t <= u
  <1> DEFINE R == {p \in Nat \X Nat : p[1] < p[2]}
  <1>1. IsWellFoundedOn(R, Nat)
    BY NatLessThanWellFounded DEF OpToRel
  <1> HIDE DEF R
  <1>2. PICK t \in T : \A u \in T : ~(<<u, t>> \in R)
    BY <1>1, WFMin
  <1>3. ASSUME NEW u \in T PROVE t <= u
    <2>1. t \in Nat /\ u \in Nat
      OBVIOUS
    <2>2. ~(u < t)
      BY <1>2, <2>1 DEF R
    <2> QED BY <2>1, <2>2
  <1> QED BY <1>3

-----------------------------------------------------------------------------
(* Nonces: the nonce that a seek computes is the one that the encrypter      *)
(* reached there.                                                            *)

(* A function is defined from its value at 0 on, step by step.               *)
Steps(g, m, a, F) == g = [k \in 0 .. m |-> IF k = 0 THEN a ELSE F[k][g[k - 1]]]

(* A function whose values are steps from the one before exists.             *)
LEMMA StepsExist ==
    ASSUME NEW D, NEW a \in D, NEW m \in Nat, NEW F \in [1 .. m -> [D -> D]]
    PROVE  \E g \in [0 .. m -> D] : Steps(g, m, a, F)
  <1> DEFINE Bad == {j \in 0 .. m : ~\E g \in [0 .. j -> D] : Steps(g, j, a, F)}
  <1>1. SUFFICES ASSUME Bad # {} PROVE FALSE
    <2>1. m \in 0 .. m
      OBVIOUS
    <2> QED BY <2>1
  <1>2. PICK j \in Bad : \A i \in Bad : j <= i
    <2>1. Bad \in SUBSET Nat
      OBVIOUS
    <2> HIDE DEF Bad
    <2> QED BY <2>1, <1>1, LeastOf
  <1>3. CASE j = 0
    <2> DEFINE g == [k \in 0 .. 0 |-> a]
    <2>1. Steps(g, 0, a, F) /\ g \in [0 .. 0 -> D]
      BY DEF Steps
    <2> QED BY <2>1, <1>2, <1>3
  <1>4. CASE j # 0
    <2>1. j \in 1 .. m /\ j - 1 \in 0 .. m /\ j - 1 \notin Bad
      BY <1>2, <1>4
    <2>2. PICK h \in [0 .. j - 1 -> D] : Steps(h, j - 1, a, F)
      BY <2>1
    <2>3. PICK last \in D : last = F[j][h[j - 1]]
      <3>1. h[j - 1] \in D /\ F[j] \in [D -> D]
        BY <2>1, <2>2
      <3> QED BY <3>1
    <2> DEFINE g == [k \in 0 .. j |-> IF k = j THEN last ELSE h[k]]
               f == [k \in 0 .. j |-> IF k = 0 THEN a ELSE F[k][g[k - 1]]]
    <2>4. ASSUME NEW k \in 0 .. j
          PROVE  g[k] = (IF k = 0 THEN a ELSE F[k][g[k - 1]]) /\ g[k] \in D
      <3>1. CASE k = j
        <4>1. g[k] = last /\ k # 0 /\ g[k - 1] = h[j - 1]
          BY <3>1, <2>1, <1>4
        <4> QED BY <4>1, <3>1, <2>3
      <3>2. CASE k # j
        <4>1. k \in 0 .. j - 1 /\ g[k] = h[k]
          BY <3>2, <2>1
        <4>2. h[k] = IF k = 0 THEN a ELSE F[k][h[k - 1]]
          BY <4>1, <2>2 DEF Steps
        <4>3. k # 0 => g[k - 1] = h[k - 1]
          BY <4>1, <2>1
        <4> QED BY <4>1, <4>2, <4>3, <2>2
      <3> QED BY <3>1, <3>2
    <2>5. g = [k \in 0 .. j |-> g[k]] /\ f = [k \in 0 .. j |-> f[k]] /\ g \in [0 .. j -> D]
      BY <2>4
    <2>6. \A k \in 0 .. j : g[k] = f[k]
      BY <2>4
    <2> HIDE DEF g
    <2>7. g = f
      <3> HIDE DEF f
      <3> QED BY <2>5, <2>6
    <2>8. Steps(g, j, a, F)
      BY <2>7 DEF Steps
    <2> QED BY <2>5, <2>8, <1>2
  <1> QED BY <1>3, <1>4

(* The states of the loop of nonce.add.                                      *)
LoopStates == [x : Nat, digit : 0 .. Base - 1, carry : {0, 1}]
AfterDigit(d, v) ==
    [x |-> v.x \div Base, digit |-> (v.carry + d + (v.x % Base)) % Base,
     carry |-> (v.carry + d + (v.x % Base)) \div Base]
NonceType == {n \in Seq(0 .. Base - 1) : Len(n) >= LowDigits}

(* The constants of a nonce.                                                 *)
LEMMA BaseIs == Base \in Nat \ {0} /\ LowDigits \in Nat
  BY StreamAssumption

(* A step of the loop divides what is left of x, and the carry, by Base.     *)
LEMMA DigitStep ==
    ASSUME NEW d \in 0 .. Base - 1, NEW v \in LoopStates
    PROVE  /\ AfterDigit(d, v) \in LoopStates
           /\ AfterDigit(d, v).x = v.x \div Base
           /\ AfterDigit(d, v).digit = (v.x + v.carry + d) % Base
           /\ AfterDigit(d, v).x + AfterDigit(d, v).carry = (v.x + v.carry + d) \div Base
  <1>0. PICK B \in Nat \ {0}, x \in Nat, c \in {0, 1} : B = Base /\ x = v.x /\ c = v.carry
    BY BaseIs DEF LoopStates
  <1>1. PICK q \in Nat, r \in 0 .. B - 1 : q = x \div B /\ r = x % B /\ x = B * q + r
    BY Division
  <1>2. PICK y \in Nat : y = c + d + r /\ y < B + B
    <2>1. d \in 0 .. B - 1
      BY <1>0
    <2> QED BY <2>1
  <1>3. PICK q2 \in Nat, r2 \in 0 .. B - 1 : q2 = y \div B /\ r2 = y % B /\ y = B * q2 + r2
    BY Division
  <1>4. q2 \in {0, 1}
    <2>1. SUFFICES ASSUME 1 < q2 PROVE FALSE
      OBVIOUS
    <2>2. B * 1 + B <= B * q2 /\ B * q2 \in Int
      BY <2>1, ProductOrder
    <2> QED BY <2>2, <1>2, <1>3
  <1>5. x + c + d = B * (q + q2) + r2
    <2>1. B * (q + q2) = B * q + B * q2 /\ B * q \in Nat /\ B * q2 \in Nat
      OBVIOUS
    <2>2. d \in Nat
      BY <1>0
    <2>3. x + c + d = B * q + y
      BY <1>1, <1>2, <2>1, <2>2
    <2> QED BY <2>1, <2>3, <1>3
  <1>6. (x + c + d) \div B = q + q2 /\ (x + c + d) % B = r2
    <2>1. x + c + d \in Nat /\ q + q2 \in Nat
      BY <1>0
    <2> QED BY <2>1, <1>5, QuotientIs
  <1>7. AfterDigit(d, v) = [x |-> q, digit |-> r2, carry |-> q2]
    BY <1>0, <1>1, <1>2, <1>3 DEF AfterDigit
  <1>8. [x |-> q, digit |-> r2, carry |-> q2] \in LoopStates
    <2>1. r2 \in 0 .. Base - 1
      BY <1>0
    <2> QED BY <2>1, <1>4 DEF LoopStates
  <1>9. AfterDigit(d, v) = [x |-> v.x \div Base, digit |-> (v.x + v.carry + d) % Base,
                            carry |-> q2]
    BY <1>0, <1>1, <1>6, <1>7
  <1>10. v.x \div Base + q2 = (v.x + v.carry + d) \div Base
    BY <1>0, <1>1, <1>6
  <1> QED BY <1>7, <1>8, <1>9, <1>10

(* The loop of nonce.add: its states, and how one follows from the last.     *)
LEMMA SumsAre ==
    ASSUME NEW n \in NonceType, NEW x \in Nat
    PROVE  /\ Sums(n, x) \in [0 .. LowDigits -> LoopStates]
           /\ Sums(n, x)[0] = [x |-> x, digit |-> 0, carry |-> 0]
           /\ \A k \in 1 .. LowDigits :
                 Sums(n, x)[k] = AfterDigit(n[k], Sums(n, x)[k - 1])
  <1> DEFINE first == [x |-> x, digit |-> 0, carry |-> 0]
             F == [k \in 1 .. LowDigits |-> [v \in LoopStates |-> AfterDigit(n[k], v)]]
             Is(g) == g = [k \in 0 .. LowDigits |->
                             IF k = 0 THEN first ELSE AfterDigit(n[k], g[k - 1])]
  <1>1. first \in LoopStates
    BY BaseIs DEF LoopStates
  <1>2. \A k \in 1 .. LowDigits : n[k] \in 0 .. Base - 1
    <2>1. n \in Seq(0 .. Base - 1) /\ Len(n) \in Nat /\ Len(n) >= LowDigits
      BY DEF NonceType
    <2> QED BY <2>1, BaseIs
  <1>3. F \in [1 .. LowDigits -> [LoopStates -> LoopStates]]
    BY <1>2, DigitStep
  <1> HIDE DEF first
  <1>4. ASSUME NEW g \in [0 .. LowDigits -> LoopStates], Steps(g, LowDigits, first, F)
        PROVE  Is(g)
    <2>1. ASSUME NEW k \in 0 .. LowDigits
          PROVE  (IF k = 0 THEN first ELSE F[k][g[k - 1]])
                 = (IF k = 0 THEN first ELSE AfterDigit(n[k], g[k - 1]))
      <3>1. CASE k # 0
        <4>1. k \in 1 .. LowDigits /\ k - 1 \in 0 .. LowDigits
          BY <3>1, BaseIs
        <4>2. g[k - 1] \in LoopStates
          BY <4>1
        <4> QED BY <4>1, <4>2
      <3> QED BY <3>1
    <2> HIDE DEF F
    <2>2. g = [k \in 0 .. LowDigits |-> IF k = 0 THEN first ELSE F[k][g[k - 1]]]
      BY <1>4 DEF Steps
    <2> QED BY <2>1, <2>2
  <1>5. \E g : Is(g)
    <2> HIDE DEF F, Is
    <2>1. \E g \in [0 .. LowDigits -> LoopStates] : Steps(g, LowDigits, first, F)
      BY <1>1, <1>3, BaseIs, StepsExist
    <2> QED BY <2>1, <1>4
  <1>6. Sums(n, x) = CHOOSE g : Is(g)
    BY DEF Sums, AfterDigit, first
  <1>7. PICK s : s = Sums(n, x)
    OBVIOUS
  <1>8. Is(s)
    <2> HIDE DEF Is
    <2> QED BY <1>5, <1>6, <1>7
  <1> HIDE DEF F
  <1>9. \A k \in 0 .. LowDigits :
           s[k] = IF k = 0 THEN first ELSE AfterDigit(n[k], s[k - 1])
    BY <1>8
  <1>10. s[0] = first /\ \A k \in 1 .. LowDigits : s[k] = AfterDigit(n[k], s[k - 1])
    <2>1. 0 \in 0 .. LowDigits /\ \A k \in 1 .. LowDigits : k \in 0 .. LowDigits /\ k # 0
      BY BaseIs
    <2> QED BY <2>1, <1>9
  <1>11. \A k \in 0 .. LowDigits : s[k] \in LoopStates
    <2> DEFINE Bad == {k \in 0 .. LowDigits : s[k] \notin LoopStates}
    <2>1. SUFFICES ASSUME Bad # {} PROVE FALSE
      OBVIOUS
    <2>2. PICK k \in Bad : \A i \in Bad : k <= i
      <3>1. Bad \in SUBSET Nat
        BY BaseIs
      <3> HIDE DEF Bad
      <3> QED BY <3>1, <2>1, LeastOf
    <2>3. k # 0
      BY <1>1, <1>10
    <2>4. k \in 1 .. LowDigits /\ k - 1 \in 0 .. LowDigits /\ k - 1 \notin Bad
      BY <2>2, <2>3, BaseIs
    <2>5. s[k - 1] \in LoopStates
      BY <2>4
    <2> QED BY <2>2, <2>4, <2>5, <1>2, <1>10, DigitStep
  <1>12. s \in [0 .. LowDigits -> LoopStates]
    <2>1. s = [k \in 0 .. LowDigits |-> IF k = 0 THEN first ELSE AfterDigit(n[k], s[k - 1])]
      BY <1>8
    <2> HIDE DEF Is
    <2>2. DOMAIN s = 0 .. LowDigits /\ s = [k \in DOMAIN s |-> s[k]]
      BY <2>1
    <2> QED BY <2>2, <1>11
  <1> QED BY <1>7, <1>10, <1>12 DEF first

(* The number of values of the low digits is a power of Base.                *)
LEMMA LowValuesAre ==
    \E v \in [0 .. LowDigits -> Nat] :
       /\ LowValues = v[LowDigits] /\ v[0] = 1
       /\ \A k \in 1 .. LowDigits : v[k] = Base * v[k - 1]
  <1> DEFINE F == [k \in 1 .. LowDigits |-> [w \in Nat |-> Base * w]]
             Is(g) == g = [k \in 0 .. LowDigits |-> IF k = 0 THEN 1 ELSE Base * g[k - 1]]
  <1>1. F \in [1 .. LowDigits -> [Nat -> Nat]]
    BY BaseIs
  <1>2. ASSUME NEW g \in [0 .. LowDigits -> Nat], Steps(g, LowDigits, 1, F)
        PROVE  Is(g)
    <2>1. ASSUME NEW k \in 0 .. LowDigits
          PROVE  (IF k = 0 THEN 1 ELSE F[k][g[k - 1]])
                 = (IF k = 0 THEN 1 ELSE Base * g[k - 1])
      <3>1. CASE k # 0
        <4>1. k \in 1 .. LowDigits /\ k - 1 \in 0 .. LowDigits
          BY <3>1, BaseIs
        <4>2. g[k - 1] \in Nat
          BY <4>1
        <4> QED BY <4>1, <4>2
      <3> QED BY <3>1
    <2> HIDE DEF F
    <2>2. g = [k \in 0 .. LowDigits |-> IF k = 0 THEN 1 ELSE F[k][g[k - 1]]]
      BY <1>2 DEF Steps
    <2> QED BY <2>1, <2>2
  <1>3. \E g : Is(g)
    <2> HIDE DEF F, Is
    <2>1. \E g \in [0 .. LowDigits -> Nat] : Steps(g, LowDigits, 1, F)
      <3>1. 1 \in Nat
        OBVIOUS
      <3> QED BY <3>1, <1>1, BaseIs, StepsExist
    <2> QED BY <2>1, <1>2
  <1>4. PICK v : v = CHOOSE g : Is(g)
    OBVIOUS
  <1>5. LowValues = v[LowDigits]
    BY <1>4 DEF LowValues
  <1>6. Is(v)
    <2> HIDE DEF Is
    <2> QED BY <1>3, <1>4
  <1> HIDE DEF F
  <1>7. \A k \in 0 .. LowDigits : v[k] = IF k = 0 THEN 1 ELSE Base * v[k - 1]
    BY <1>6
  <1>8. v[0] = 1 /\ \A k \in 1 .. LowDigits : v[k] = Base * v[k - 1]
    <2>1. 0 \in 0 .. LowDigits /\ \A k \in 1 .. LowDigits : k \in 0 .. LowDigits /\ k # 0
      BY BaseIs
    <2> QED BY <2>1, <1>7
  <1>9. \A k \in 0 .. LowDigits : v[k] \in Nat
    <2> DEFINE Bad == {k \in 0 .. LowDigits : v[k] \notin Nat}
    <2>1. SUFFICES ASSUME Bad # {} PROVE FALSE
      OBVIOUS
    <2>2. PICK k \in Bad : \A i \in Bad : k <= i
      <3>1. Bad \in SUBSET Nat
        BY BaseIs
      <3> HIDE DEF Bad
      <3> QED BY <3>1, <2>1, LeastOf
    <2>3. k # 0
      BY <1>8
    <2>4. k \in 1 .. LowDigits /\ k - 1 \in 0 .. LowDigits /\ k - 1 \notin Bad
      BY <2>2, <2>3, BaseIs
    <2>5. v[k - 1] \in Nat /\ v[k] = Base * v[k - 1]
      BY <2>4, <1>8
    <2>6. v[k] \in Nat
      BY <2>5, BaseIs
    <2> QED BY <2>2, <2>6
  <1>10. v \in [0 .. LowDigits -> Nat]
    <2>1. v = [k \in 0 .. LowDigits |-> IF k = 0 THEN 1 ELSE Base * v[k - 1]]
      BY <1>6
    <2> HIDE DEF Is
    <2>2. DOMAIN v = 0 .. LowDigits /\ v = [k \in DOMAIN v |-> v[k]]
      BY <2>1
    <2> QED BY <2>2, <1>9
  <1> QED BY <1>5, <1>8, <1>10

(* A count of blocks is added as a whole: nothing is left of it after the    *)
(* low digits.                                                               *)
LEMMA AddedAsAWhole ==
    ASSUME NEW n \in NonceType, NEW x \in Nat, x < LowValues
    PROVE  Sums(n, x)[LowDigits].x = 0
  <1>1. PICK v \in [0 .. LowDigits -> Nat] :
          /\ LowValues = v[LowDigits] /\ v[0] = 1
          /\ \A k \in 1 .. LowDigits : v[k] = Base * v[k - 1]
    BY LowValuesAre
  <1>2. PICK s \in [0 .. LowDigits -> LoopStates] :
          /\ s = Sums(n, x) /\ s[0].x = x
          /\ \A k \in 1 .. LowDigits : s[k] = AfterDigit(n[k], s[k - 1])
    <2>1. Sums(n, x)[0] = [x |-> x, digit |-> 0, carry |-> 0]
      BY SumsAre
    <2>2. Sums(n, x)[0].x = x
      BY <2>1
    <2> QED BY <2>2, SumsAre
  <1>3. \A k \in 0 .. LowDigits : s[k].x \in Nat
    BY <1>2 DEF LoopStates
  <1>4. \A k \in 1 .. LowDigits : s[k].x = s[k - 1].x \div Base
    <2>1. \A d, u : AfterDigit(d, u).x = u.x \div Base
      BY DEF AfterDigit
    <2> QED BY <2>1, <1>2
  <1> DEFINE Bad == {k \in 0 .. LowDigits : ~(s[k].x < v[LowDigits - k])}
  <1>5. Bad = {}
    <2>1. SUFFICES ASSUME Bad # {} PROVE FALSE
      OBVIOUS
    <2>2. PICK k \in Bad : \A i \in Bad : k <= i
      <3>1. Bad \in SUBSET Nat
        BY BaseIs
      <3> HIDE DEF Bad
      <3> QED BY <3>1, <2>1, LeastOf
    <2>3. k # 0
      <3>1. LowDigits - 0 = LowDigits
        BY BaseIs
      <3> QED BY <3>1, <1>1, <1>2
    <2>4. k \in 1 .. LowDigits /\ k - 1 \in 0 .. LowDigits /\ k - 1 \notin Bad
      BY <2>2, <2>3, BaseIs
    <2>5. PICK w \in Nat : w = v[LowDigits - k]
      <3>1. LowDigits - k \in 0 .. LowDigits
        BY <2>4, BaseIs
      <3> QED BY <3>1
    <2>6. v[LowDigits - (k - 1)] = Base * w
      <3>1. LowDigits - (k - 1) \in 1 .. LowDigits
            /\ (LowDigits - (k - 1)) - 1 = LowDigits - k
        BY <2>4, BaseIs
      <3> QED BY <3>1, <2>5, <1>1
    <2>7. PICK y \in Nat : y = s[k - 1].x /\ y < Base * w
      BY <2>4, <2>6, <1>3
    <2>8. y \div Base < w
      BY <2>7, BaseIs, QuotientBelow
    <2>9. s[k].x < v[LowDigits - k]
      BY <2>4, <2>5, <2>7, <2>8, <1>4
    <2> QED BY <2>2, <2>9
  <1>6. LowDigits \in 0 .. LowDigits /\ LowDigits - LowDigits = 0
    BY BaseIs
  <1>7. s[LowDigits].x < 1
    BY <1>1, <1>5, <1>6
  <1>8. s[LowDigits].x \in Nat
    BY <1>3, <1>6
  <1> QED BY <1>2, <1>7, <1>8

(* Adding one more: the digits that come out are one nonce further, as far   *)
(* as the carry goes.                                                        *)
Wrapped(s, k) == \A j \in 1 .. k : s[j].digit = Base - 1

(* The loops for x and for x + 1, digit by digit.                            *)
LEMMA SumsOfNext ==
    ASSUME NEW n \in NonceType, NEW x \in Nat,
           NEW s, s = Sums(n, x), NEW t, t = Sums(n, x + 1)
    PROVE  /\ \A k \in 0 .. LowDigits :
                 t[k].x + t[k].carry
                 = s[k].x + s[k].carry + (IF Wrapped(s, k) THEN 1 ELSE 0)
           /\ \A k \in 1 .. LowDigits :
                 t[k].digit = IF Wrapped(s, k - 1) THEN (s[k].digit + 1) % Base
                              ELSE s[k].digit
  <1>1. /\ s \in [0 .. LowDigits -> LoopStates] /\ t \in [0 .. LowDigits -> LoopStates]
        /\ s[0] = [x |-> x, digit |-> 0, carry |-> 0]
        /\ t[0] = [x |-> x + 1, digit |-> 0, carry |-> 0]
        /\ \A k \in 1 .. LowDigits : /\ s[k] = AfterDigit(n[k], s[k - 1])
                                     /\ t[k] = AfterDigit(n[k], t[k - 1])
    BY SumsAre
  <1>2. \A k \in 1 .. LowDigits : n[k] \in 0 .. Base - 1
    <2>1. n \in Seq(0 .. Base - 1) /\ Len(n) \in Nat /\ Len(n) >= LowDigits
      BY DEF NonceType
    <2> QED BY <2>1, BaseIs
  <1> DEFINE Sum(v) == v.x + v.carry
             More(k) == Sum(t[k]) = Sum(s[k]) + (IF Wrapped(s, k) THEN 1 ELSE 0)
  <1>3. \A k \in 0 .. LowDigits : Sum(s[k]) \in Nat /\ Sum(t[k]) \in Nat
    <2>1. \A v \in LoopStates : Sum(v) \in Nat
      BY DEF LoopStates
    <2> QED BY <2>1, <1>1
  <1>4. ASSUME NEW k \in 1 .. LowDigits, More(k - 1)
        PROVE  /\ More(k)
               /\ t[k].digit = IF Wrapped(s, k - 1) THEN (s[k].digit + 1) % Base
                               ELSE s[k].digit
    <2>1. k - 1 \in 0 .. LowDigits /\ k \in 0 .. LowDigits
      BY BaseIs
    <2>2. PICK u \in Nat : u = Sum(s[k - 1]) + n[k]
      BY <2>1, <1>2, <1>3
    <2>3. s[k].digit = u % Base /\ Sum(s[k]) = u \div Base
      <3>1. s[k - 1] \in LoopStates /\ n[k] \in 0 .. Base - 1 /\ s[k] = AfterDigit(n[k], s[k - 1])
        BY <2>1, <1>1, <1>2
      <3> QED BY <3>1, <2>2, DigitStep
    <2>4. PICK w \in Nat : w = Sum(t[k - 1]) + n[k]
      BY <2>1, <1>2, <1>3
    <2>5. t[k].digit = w % Base /\ Sum(t[k]) = w \div Base
      <3>1. t[k - 1] \in LoopStates /\ n[k] \in 0 .. Base - 1 /\ t[k] = AfterDigit(n[k], t[k - 1])
        BY <2>1, <1>1, <1>2
      <3> QED BY <3>1, <2>4, DigitStep
    <2>6. Wrapped(s, k) <=> Wrapped(s, k - 1) /\ s[k].digit = Base - 1
      <3>1. \A j \in Int : j \in 1 .. k <=> (j \in 1 .. k - 1 \/ j = k)
        OBVIOUS
      <3> QED BY <3>1 DEF Wrapped
    <2>7. w = u + (IF Wrapped(s, k - 1) THEN 1 ELSE 0)
      <3>1. PICK y \in Nat, z \in Nat, d \in Nat :
              y = Sum(s[k - 1]) /\ z = Sum(t[k - 1]) /\ d = n[k]
        BY <2>1, <1>2, <1>3
      <3>2. z = y + (IF Wrapped(s, k - 1) THEN 1 ELSE 0)
        BY <3>1, <1>4
      <3> HIDE DEF Sum
      <3> QED BY <3>1, <3>2, <2>2, <2>4
    <2> HIDE DEF Sum
    <2>8. CASE ~Wrapped(s, k - 1)
      BY <2>3, <2>5, <2>6, <2>7, <2>8, <1>3, <2>1
    <2>9. CASE Wrapped(s, k - 1)
      <3>1. w = u + 1
        BY <2>7, <2>9
      <3>2. u % Base \in 0 .. Base - 1 /\ u \div Base \in Nat
        BY BaseIs
      <3>3. CASE u % Base = Base - 1
        <4>1. w % Base = 0 /\ w \div Base = u \div Base + 1
          BY <3>1, <3>3, BaseIs, SuccessorStep
        <4>2. (s[k].digit + 1) % Base = 0
          <5>1. Base % Base = 0 /\ (Base - 1) + 1 = Base
            BY BaseIs
          <5> QED BY <5>1, <3>3, <2>3
        <4> QED BY <4>1, <4>2, <3>3, <2>3, <2>5, <2>6, <2>9
      <3>4. CASE u % Base # Base - 1
        <4>1. w % Base = (u % Base) + 1 /\ w \div Base = u \div Base
          BY <3>1, <3>4, BaseIs, SuccessorStep
        <4>2. ((u % Base) + 1) % Base = (u % Base) + 1
          <5>1. PICK y \in 0 .. Base - 2 : y = u % Base
            BY <3>2, <3>4, BaseIs
          <5>2. (y + 1) % Base = y + 1
            BY BaseIs
          <5> QED BY <5>1, <5>2
        <4> QED BY <4>1, <4>2, <3>2, <3>4, <2>3, <2>5, <2>6, <2>9
      <3> QED BY <3>3, <3>4
    <2> QED BY <2>8, <2>9
  <1>5. \A k \in 0 .. LowDigits : More(k)
    <2> DEFINE Bad == {k \in 0 .. LowDigits : ~More(k)}
    <2> HIDE DEF More
    <2>1. SUFFICES ASSUME Bad # {} PROVE FALSE
      OBVIOUS
    <2>2. PICK k \in Bad : \A i \in Bad : k <= i
      <3>1. Bad \in SUBSET Nat
        BY BaseIs
      <3> HIDE DEF Bad
      <3> QED BY <3>1, <2>1, LeastOf
    <2>3. More(0)
      <3>1. Wrapped(s, 0)
        BY DEF Wrapped
      <3>2. t[0].x = x + 1 /\ t[0].carry = 0 /\ s[0].x = x /\ s[0].carry = 0
        BY <1>1
      <3> QED BY <3>1, <3>2 DEF More
    <2>4. k \in 1 .. LowDigits /\ k - 1 \in 0 .. LowDigits /\ k - 1 \notin Bad
      BY <2>2, <2>3, BaseIs
    <2>5. More(k)
      BY <2>4, <1>4
    <2> QED BY <2>2, <2>5
  <1>6. \A k \in 1 .. LowDigits :
           t[k].digit = IF Wrapped(s, k - 1) THEN (s[k].digit + 1) % Base
                        ELSE s[k].digit
    <2> HIDE DEF More
    <2>1. \A k \in 1 .. LowDigits : k - 1 \in 0 .. LowDigits
      BY BaseIs
    <2> QED BY <2>1, <1>4, <1>5
  <1> QED BY <1>5, <1>6

(* A nonce is a sequence of digits.                                          *)
LEMMA NonceIs ==
    ASSUME NEW n \in NonceType
    PROVE  /\ Len(n) \in Nat /\ DOMAIN n = 1 .. Len(n) /\ LowDigits <= Len(n)
           /\ \A k \in 1 .. Len(n) : n[k] \in 0 .. Base - 1
           /\ n = [k \in 1 .. Len(n) |-> n[k]]
  <1>1. n \in Seq(0 .. Base - 1) /\ Len(n) \in Nat /\ Len(n) >= LowDigits
    BY DEF NonceType
  <1>2. DOMAIN n = 1 .. Len(n) /\ n = [k \in DOMAIN n |-> n[k]]
    BY <1>1
  <1> QED BY <1>1, <1>2, BaseIs

(* The digits that nonce.add leaves: those of the loop, and above them a     *)
(* carry into the others.                                                    *)
LEMMA AddedDigits ==
    ASSUME NEW n \in NonceType, NEW x \in Nat, NEW s, s = Sums(n, x)
    PROVE  /\ AddTo(n, x) = [k \in 1 .. Len(n) |-> AddTo(n, x)[k]]
           /\ \A k \in 1 .. Len(n) :
                 AddTo(n, x)[k] =
                    IF k <= LowDigits THEN s[k].digit
                    ELSE IF /\ s[LowDigits].carry # 0
                            /\ \A j \in LowDigits + 1 .. k - 1 : n[j] = Base - 1
                         THEN (n[k] + 1) % Base ELSE n[k]
  <1> DEFINE w == WithSums(n, s)
             h == LowDigits + 1
  <1>1. /\ w = [k \in 1 .. Len(n) |-> IF k <= LowDigits THEN s[k].digit ELSE n[k]]
        /\ DOMAIN w = 1 .. Len(n)
    BY NonceIs DEF WithSums
  <1>2. Carry(w, h) = [k \in 1 .. Len(n) |->
                         IF k >= h /\ \A j \in h .. k - 1 : w[j] = Base - 1
                         THEN (w[k] + 1) % Base ELSE w[k]]
    BY <1>1 DEF Carry
  <1>3. AddTo(n, x) = IF s[LowDigits].carry # 0 THEN Carry(w, h) ELSE w
    BY DEF AddTo
  <1> HIDE DEF w
  <1>4. AddTo(n, x) = [k \in 1 .. Len(n) |-> AddTo(n, x)[k]]
    BY <1>1, <1>2, <1>3
  <1>5. ASSUME NEW k \in 1 .. Len(n)
        PROVE  AddTo(n, x)[k] =
                  IF k <= LowDigits THEN s[k].digit
                  ELSE IF s[LowDigits].carry # 0 /\ \A j \in h .. k - 1 : n[j] = Base - 1
                       THEN (n[k] + 1) % Base ELSE n[k]
    <2>1. k >= h <=> ~(k <= LowDigits)
      BY BaseIs
    <2>2. w[k] = IF k <= LowDigits THEN s[k].digit ELSE n[k]
      BY <1>1
    <2>3. \A j \in h .. k - 1 : w[j] = n[j]
      <3>1. \A j \in h .. k - 1 : j \in 1 .. Len(n) /\ ~(j <= LowDigits)
        BY BaseIs, NonceIs
      <3> QED BY <3>1, <1>1
    <2>4. Carry(w, h)[k] = IF k >= h /\ \A j \in h .. k - 1 : w[j] = Base - 1
                           THEN (w[k] + 1) % Base ELSE w[k]
      BY <1>2
    <2> HIDE DEF h
    <2> QED BY <2>1, <2>2, <2>3, <2>4, <1>3
  <1> QED BY <1>4, <1>5

(* Adding one more is an increment more, while x fits the low digits.        *)
LEMMA AddOneMore ==
    ASSUME NEW n \in NonceType, NEW x \in Nat, x + 1 < LowValues
    PROVE  AddTo(n, x + 1) = Increment(AddTo(n, x))
  <1>1. PICK s, t : s = Sums(n, x) /\ t = Sums(n, x + 1)
    OBVIOUS
  <1>2. PICK a, b : a = AddTo(n, x) /\ b = AddTo(n, x + 1)
    OBVIOUS
  <1>3. PICK len \in Nat, L \in Nat, B \in Nat \ {0} :
          len = Len(n) /\ L = LowDigits /\ B = Base /\ L <= len
    BY NonceIs, BaseIs
  <1>4. /\ a = [k \in 1 .. len |-> a[k]] /\ b = [k \in 1 .. len |-> b[k]]
        /\ \A k \in 1 .. len : a[k] =
              IF k <= L THEN s[k].digit
              ELSE IF s[L].carry # 0 /\ \A j \in L + 1 .. k - 1 : n[j] = B - 1
                   THEN (n[k] + 1) % B ELSE n[k]
        /\ \A k \in 1 .. len : b[k] =
              IF k <= L THEN t[k].digit
              ELSE IF t[L].carry # 0 /\ \A j \in L + 1 .. k - 1 : n[j] = B - 1
                   THEN (n[k] + 1) % B ELSE n[k]
    <2>1. ASSUME NEW y \in Nat, NEW r, r = Sums(n, y), NEW v, v = AddTo(n, y)
          PROVE  /\ v = [k \in 1 .. len |-> v[k]]
                 /\ \A k \in 1 .. len : v[k] =
                       IF k <= L THEN r[k].digit
                       ELSE IF r[L].carry # 0 /\ \A j \in L + 1 .. k - 1 : n[j] = B - 1
                            THEN (n[k] + 1) % B ELSE n[k]
      <3>1. /\ AddTo(n, y) = [k \in 1 .. Len(n) |-> AddTo(n, y)[k]]
            /\ \A k \in 1 .. Len(n) :
                  AddTo(n, y)[k] =
                     IF k <= LowDigits THEN r[k].digit
                     ELSE IF /\ r[LowDigits].carry # 0
                             /\ \A j \in LowDigits + 1 .. k - 1 : n[j] = Base - 1
                          THEN (n[k] + 1) % Base ELSE n[k]
        BY <2>1, AddedDigits
      <3> QED BY <3>1, <2>1, <1>3
    <2>2. x + 1 \in Nat
      OBVIOUS
    <2>3. /\ a = [k \in 1 .. len |-> a[k]]
          /\ \A k \in 1 .. len : a[k] =
                IF k <= L THEN s[k].digit
                ELSE IF s[L].carry # 0 /\ \A j \in L + 1 .. k - 1 : n[j] = B - 1
                     THEN (n[k] + 1) % B ELSE n[k]
      BY <2>1, <1>1, <1>2
    <2>4. /\ b = [k \in 1 .. len |-> b[k]]
          /\ \A k \in 1 .. len : b[k] =
                IF k <= L THEN t[k].digit
                ELSE IF t[L].carry # 0 /\ \A j \in L + 1 .. k - 1 : n[j] = B - 1
                     THEN (n[k] + 1) % B ELSE n[k]
      <3>1. PICK y \in Nat : y = x + 1
        BY <2>2
      <3>2. t = Sums(n, y) /\ b = AddTo(n, y)
        BY <3>1, <1>1, <1>2
      <3> QED BY <3>2, <2>1
    <2> QED BY <2>3, <2>4
  <1>5. /\ t[L].x + t[L].carry = s[L].x + s[L].carry + (IF Wrapped(s, L) THEN 1 ELSE 0)
        /\ \A k \in 1 .. L : t[k].digit = IF Wrapped(s, k - 1) THEN (s[k].digit + 1) % B
                                          ELSE s[k].digit
    <2>1. LowDigits \in 0 .. LowDigits
      BY BaseIs
    <2>2. /\ \A k \in 0 .. LowDigits :
                 t[k].x + t[k].carry
                 = s[k].x + s[k].carry + (IF Wrapped(s, k) THEN 1 ELSE 0)
          /\ \A k \in 1 .. LowDigits :
                 t[k].digit = IF Wrapped(s, k - 1) THEN (s[k].digit + 1) % Base
                              ELSE s[k].digit
      BY <1>1, SumsOfNext
    <2> QED BY <2>1, <2>2, <1>3
  <1>6. s[L].carry \in {0, 1} /\ t[L].carry \in {0, 1} /\ s[L].x = 0 /\ t[L].x = 0
    <2>1. x + 1 \in Nat /\ LowValues \in Nat
      BY LowValuesAre, BaseIs
    <2>2. x < LowValues
      BY <2>1
    <2>3. s[L] \in LoopStates /\ t[L] \in LoopStates
      <3>1. L \in 0 .. LowDigits
        BY <1>3
      <3> QED BY <3>1, <2>1, <1>1, SumsAre
    <2> QED BY <2>1, <2>2, <2>3, <1>1, <1>3, AddedAsAWhole DEF LoopStates
  <1>7. IF Wrapped(s, L) THEN s[L].carry = 0 /\ t[L].carry = 1
        ELSE t[L].carry = s[L].carry
    BY <1>5, <1>6
  <1>8. Increment(a) = [k \in 1 .. len |->
                          IF \A j \in 1 .. k - 1 : a[j] = B - 1
                          THEN (a[k] + 1) % B ELSE a[k]]
    <2>1. DOMAIN a = 1 .. len
      BY <1>4
    <2>2. \A k \in 1 .. len : k >= 1
      OBVIOUS
    <2> QED BY <2>1, <2>2, <1>3 DEF Increment, Carry
  <1>9. ASSUME NEW k \in 1 .. len
        PROVE  b[k] = IF \A j \in 1 .. k - 1 : a[j] = B - 1
                      THEN (a[k] + 1) % B ELSE a[k]
    <2>1. CASE k <= L
      <3>1. \A j \in 1 .. k - 1 : j \in 1 .. len /\ j <= L
        BY <2>1, <1>3
      <3>2. \A j \in 1 .. k - 1 : a[j] = s[j].digit
        BY <3>1, <1>4
      <3>3. Wrapped(s, k - 1) <=> \A j \in 1 .. k - 1 : a[j] = B - 1
        BY <3>2, <1>3 DEF Wrapped
      <3>4. k \in 1 .. L
        BY <2>1
      <3> QED BY <3>3, <3>4, <2>1, <1>4, <1>5
    <2>2. CASE ~(k <= L)
      <3>1. Wrapped(s, L) <=> \A j \in 1 .. L : a[j] = B - 1
        <4>1. \A j \in 1 .. L : j \in 1 .. len /\ j <= L
          BY <1>3
        <4>2. \A j \in 1 .. L : a[j] = s[j].digit
          BY <4>1, <1>4
        <4> QED BY <4>2, <1>3 DEF Wrapped
      <3>2. CASE Wrapped(s, L)
        <4>1. s[L].carry = 0 /\ t[L].carry = 1
          BY <3>2, <1>7
        <4>2. \A j \in L + 1 .. k - 1 : j \in 1 .. len /\ ~(j <= L)
          BY <1>3
        <4>3. \A j \in L + 1 .. k - 1 : a[j] = n[j]
          BY <4>1, <4>2, <1>4
        <4>4. a[k] = n[k]
          BY <4>1, <2>2, <1>4
        <4>5. (\A j \in 1 .. k - 1 : a[j] = B - 1)
              <=> \A j \in L + 1 .. k - 1 : n[j] = B - 1
          <5>1. \A j \in Int : j \in 1 .. k - 1 <=> j \in 1 .. L \/ j \in L + 1 .. k - 1
            BY <2>2, <1>3
          <5> QED BY <5>1, <4>3, <3>1, <3>2
        <4>6. b[k] = IF \A j \in L + 1 .. k - 1 : n[j] = B - 1
                     THEN (n[k] + 1) % B ELSE n[k]
          BY <4>1, <2>2, <1>4
        <4> QED BY <4>4, <4>5, <4>6
      <3>3. CASE ~Wrapped(s, L)
        <4>1. t[L].carry = s[L].carry
          BY <3>3, <1>7
        <4>2. \A j \in 1 .. L : j \in 1 .. k - 1
          BY <2>2, <1>3
        <4>3. ~\A j \in 1 .. k - 1 : a[j] = B - 1
          BY <4>2, <3>1, <3>3
        <4>4. b[k] = a[k]
          BY <4>1, <2>2, <1>4
        <4> QED BY <4>3, <4>4
      <3> QED BY <3>2, <3>3
    <2> QED BY <2>1, <2>2
  <1> QED BY <1>2, <1>4, <1>8, <1>9

(* Adding zero leaves a nonce as it is.                                      *)
LEMMA AddNothing ==
    ASSUME NEW n \in NonceType
    PROVE  AddTo(n, 0) = n
  <1>1. PICK s : s = Sums(n, 0)
    OBVIOUS
  <1>2. /\ s \in [0 .. LowDigits -> LoopStates]
        /\ s[0] = [x |-> 0, digit |-> 0, carry |-> 0]
        /\ \A k \in 1 .. LowDigits : s[k] = AfterDigit(n[k], s[k - 1])
    <2>1. 0 \in Nat
      OBVIOUS
    <2> QED BY <2>1, <1>1, SumsAre
  <1>3. \A k \in 1 .. LowDigits : n[k] \in 0 .. Base - 1
    BY NonceIs, BaseIs
  <1> DEFINE Nothing(k) == s[k].x = 0 /\ s[k].carry = 0
  <1>4. ASSUME NEW k \in 1 .. LowDigits, Nothing(k - 1)
        PROVE  Nothing(k) /\ s[k].digit = n[k]
    <2>1. k - 1 \in 0 .. LowDigits /\ k \in 0 .. LowDigits
      BY BaseIs
    <2>2. PICK d \in 0 .. Base - 1 : d = n[k]
      BY <1>3
    <2>3. d % Base = d /\ d \div Base = 0
      <3>1. d = Base * 0 + d /\ d \in Nat
        BY BaseIs
      <3> QED BY <3>1, BaseIs, QuotientIs
    <2>4. s[k - 1] \in LoopStates /\ s[k] = AfterDigit(d, s[k - 1]) /\ s[k] \in LoopStates
      BY <2>1, <2>2, <1>2
    <2>5. s[k - 1].x + s[k - 1].carry + d = d
      BY <1>4, BaseIs
    <2>6. s[k].digit = d /\ s[k].x + s[k].carry = 0
      BY <2>3, <2>4, <2>5, DigitStep
    <2>7. s[k].x \in Nat /\ s[k].carry \in Nat
      BY <2>4 DEF LoopStates
    <2> QED BY <2>2, <2>6, <2>7
  <1>5. \A k \in 0 .. LowDigits : Nothing(k)
    <2> DEFINE Bad == {k \in 0 .. LowDigits : ~Nothing(k)}
    <2> HIDE DEF Nothing
    <2>1. SUFFICES ASSUME Bad # {} PROVE FALSE
      OBVIOUS
    <2>2. PICK k \in Bad : \A i \in Bad : k <= i
      <3>1. Bad \in SUBSET Nat
        BY BaseIs
      <3> HIDE DEF Bad
      <3> QED BY <3>1, <2>1, LeastOf
    <2>3. Nothing(0)
      BY <1>2 DEF Nothing
    <2>4. k \in 1 .. LowDigits /\ k - 1 \in 0 .. LowDigits /\ k - 1 \notin Bad
      BY <2>2, <2>3, BaseIs
    <2> QED BY <2>2, <2>4, <1>4
  <1>6. s[LowDigits].carry = 0 /\ \A k \in 1 .. LowDigits : s[k].digit = n[k]
    <2>1. LowDigits \in 0 .. LowDigits /\ \A k \in 1 .. LowDigits : k - 1 \in 0 .. LowDigits
      BY BaseIs
    <2>2. Nothing(LowDigits)
      BY <2>1, <1>5
    <2>3. \A k \in 1 .. LowDigits : s[k].digit = n[k]
      <3> HIDE DEF Nothing
      <3> QED BY <2>1, <1>4, <1>5
    <2> QED BY <2>2, <2>3
  <1>7. \A k \in 1 .. Len(n) : AddTo(n, 0)[k] = n[k]
    <2>1. 0 \in Nat
      OBVIOUS
    <2>2. \A k \in 1 .. Len(n) : k <= LowDigits => k \in 1 .. LowDigits
      BY BaseIs
    <2>3. \A k \in 1 .. Len(n) : AddTo(n, 0)[k] =
             IF k <= LowDigits THEN s[k].digit
             ELSE IF /\ s[LowDigits].carry # 0
                     /\ \A j \in LowDigits + 1 .. k - 1 : n[j] = Base - 1
                  THEN (n[k] + 1) % Base ELSE n[k]
      BY <2>1, <1>1, AddedDigits
    <2> QED BY <2>2, <2>3, <1>6
  <1>8. AddTo(n, 0) = [k \in 1 .. Len(n) |-> AddTo(n, 0)[k]]
    <2>1. 0 \in Nat
      OBVIOUS
    <2> QED BY <2>1, AddedDigits
  <1> QED BY <1>7, <1>8, NonceIs

(* The nonce that RangeSeek computes for a block is the one that the         *)
(* encrypter had reached there, over the carries within the low digits and   *)
(* out of them.                                                              *)
LEMMA SeekReachesNonce ==
    ASSUME NEW n \in Nonces, NEW b \in Nat, b < LowValues
    PROVE  NonceOf(n, b) = AddTo(n, b)
  <1>1. n \in NonceType
    BY StreamAssumption DEF NonceType
  <1> DEFINE Is(g) == g = [i \in 0 .. b |-> IF i = 0 THEN n ELSE Increment(g[i - 1])]
             all == [i \in 0 .. b |-> AddTo(n, i)]
  <1>2. LowValues \in Nat
    BY LowValuesAre, BaseIs
  <1>3. ASSUME NEW i \in 1 .. b
        PROVE  AddTo(n, i) = Increment(AddTo(n, i - 1))
    <2>1. i - 1 \in Nat /\ (i - 1) + 1 = i /\ i < LowValues
      BY <1>2
    <2> QED BY <2>1, <1>1, AddOneMore
  <1>4. Is(all)
    <2>1. \A i \in 0 .. b : i # 0 => i \in 1 .. b /\ i - 1 \in 0 .. b
      OBVIOUS
    <2>2. \A i \in 0 .. b : AddTo(n, i) = IF i = 0 THEN n ELSE Increment(all[i - 1])
      BY <2>1, <1>1, <1>3, AddNothing
    <2> QED BY <2>2
  <1>5. PICK g : g = CHOOSE h : Is(h)
    OBVIOUS
  <1>6. NonceOf(n, b) = g[b]
    BY <1>5 DEF NonceOf
  <1>7. Is(g)
    <2> HIDE DEF Is
    <2> QED BY <1>4, <1>5
  <1>8. \A i \in 0 .. b : g[i] = IF i = 0 THEN n ELSE Increment(g[i - 1])
    BY <1>7
  <1> DEFINE Bad == {i \in 0 .. b : g[i] # AddTo(n, i)}
  <1>9. Bad = {}
    <2>1. SUFFICES ASSUME Bad # {} PROVE FALSE
      OBVIOUS
    <2>2. PICK k \in Bad : \A i \in Bad : k <= i
      <3>1. Bad \in SUBSET Nat
        OBVIOUS
      <3> HIDE DEF Bad
      <3> QED BY <3>1, <2>1, LeastOf
    <2>3. k # 0
      BY <1>1, <1>8, AddNothing
    <2>4. k \in 1 .. b /\ k - 1 \in 0 .. b /\ k - 1 \notin Bad
      BY <2>2, <2>3
    <2> QED BY <2>2, <2>4, <1>3, <1>8
  <1>10. b \in 0 .. b
    OBVIOUS
  <1> QED BY <1>6, <1>9, <1>10

-----------------------------------------------------------------------------
(* The chunks of a part.  Chunk n of a range begins at Edge(c, ch, n), a     *)
(* position in the part, and ends where the next one begins.                 *)

RangeOf(c) ==
    /\ c.part \in Nat /\ c.start \in Nat /\ c.end \in Nat /\ c.start <= c.end
Total(c, ch) == c.end \div ch - c.start \div ch + 1
From(c, ch, n) == ch * (c.start \div ch + n)
Edge(c, ch, n) ==
    IF n = 0 THEN c.start
    ELSE IF n < Total(c, ch) THEN From(c, ch, n)
    ELSE c.end + 1

(* Where the cuts are in chunk n, and that chunks follow each other.         *)
LEMMA ChunkEdges ==
    ASSUME NEW c, RangeOf(c), NEW ch \in Nat \ {0}
    PROVE  /\ Total(c, ch) \in Nat \ {0}
           /\ Edge(c, ch, 0) = c.start
           /\ Edge(c, ch, Total(c, ch)) = c.end + 1
           /\ \A n \in 0 .. Total(c, ch) - 1 :
                 /\ From(c, ch, n) \in Nat
                 /\ Edge(c, ch, n) = From(c, ch, n)
                                     + (IF n = 0 THEN c.start % ch ELSE 0)
                 /\ Edge(c, ch, n + 1) = From(c, ch, n)
                      + (IF n + 1 = Total(c, ch) THEN (c.end % ch) + 1 ELSE ch)
                 /\ Edge(c, ch, n) < Edge(c, ch, n + 1)
                 /\ Edge(c, ch, n + 1) <= c.end + 1
  <1>1. PICK s \in Nat, e \in Nat : s = c.start /\ e = c.end /\ s <= e
    BY DEF RangeOf
  <1>2. PICK q \in Nat, a \in 0 .. ch - 1 :
          q = s \div ch /\ a = s % ch /\ s = ch * q + a
    BY Division
  <1>3. PICK p \in Nat, b \in 0 .. ch - 1 :
          p = e \div ch /\ b = e % ch /\ e = ch * p + b
    BY Division
  <1>4. q <= p
    <2>1. SUFFICES ASSUME p < q PROVE FALSE
      OBVIOUS
    <2>2. ch * p + ch <= ch * q
      BY <2>1, ProductOrder
    <2>3. ch * p \in Int /\ ch * q \in Int
      OBVIOUS
    <2> QED BY <2>2, <2>3, <1>1, <1>2, <1>3
  <1> DEFINE t == p - q + 1
  <1>5. Total(c, ch) = t /\ t \in Nat \ {0}
    <2>1. Total(c, ch) = e \div ch - s \div ch + 1
      BY <1>1 DEF Total
    <2>2. Total(c, ch) = t
      BY <2>1, <1>2, <1>3
    <2> QED BY <2>2, <1>4
  <1>6. \A n \in Int : From(c, ch, n) = ch * (q + n)
    BY <1>1, <1>2 DEF From
  <1>7. Edge(c, ch, 0) = s
    BY <1>1 DEF Edge
  <1>8. \A n \in Nat : /\ n # 0 /\ n < t => Edge(c, ch, n) = ch * (q + n)
                       /\ n # 0 /\ n >= t => Edge(c, ch, n) = e + 1
    BY <1>1, <1>5, <1>6 DEF Edge
  <1>9. Edge(c, ch, t) = e + 1
    BY <1>5, <1>8
  <1>10. ASSUME NEW n \in 0 .. t - 1
         PROVE  /\ From(c, ch, n) \in Nat
                /\ Edge(c, ch, n) = From(c, ch, n) + (IF n = 0 THEN a ELSE 0)
                /\ Edge(c, ch, n + 1) = From(c, ch, n)
                      + (IF n + 1 = t THEN b + 1 ELSE ch)
                /\ Edge(c, ch, n) < Edge(c, ch, n + 1)
                /\ Edge(c, ch, n + 1) <= e + 1
    <2> DEFINE f == ch * (q + n)
    <2>1. From(c, ch, n) = f /\ f \in Nat
      <3>1. q + n \in Nat
        BY <1>5
      <3> QED BY <3>1, <1>6
    <2>2. ch * (q + (n + 1)) = f + ch
      <3>1. ch * ((q + n) + 1) = ch * (q + n) + ch /\ q + (n + 1) = (q + n) + 1
        OBVIOUS
      <3> QED BY <3>1
    <2>3. n = 0 => f = ch * q
      OBVIOUS
    <2>4. n + 1 = t => f = ch * p
      <3>1. n + 1 = t => q + n = p
        OBVIOUS
      <3> QED BY <3>1
    <2>5. n + 1 < t => f + ch <= ch * p
      <3>1. SUFFICES ASSUME n + 1 < t PROVE f + ch <= ch * p
        OBVIOUS
      <3>2. q + n < p /\ q + n \in Int
        BY <3>1
      <3> QED BY <3>2, ProductOrder
    <2>6. ch * q \in Int /\ ch * p \in Int
      OBVIOUS
    <2>7. Edge(c, ch, n) = f + (IF n = 0 THEN a ELSE 0)
      <3> HIDE DEF f
      <3>1. CASE n = 0
        BY <3>1, <2>1, <2>3, <2>6, <1>2, <1>7
      <3>2. CASE n # 0
        <4>1. Edge(c, ch, n) = ch * (q + n)
          BY <3>2, <1>8
        <4> QED BY <4>1, <3>2, <2>1 DEF f
      <3> QED BY <3>1, <3>2
    <2>8. Edge(c, ch, n + 1) = f + (IF n + 1 = t THEN b + 1 ELSE ch)
      <3>1. CASE n + 1 = t
        BY <3>1, <2>1, <2>4, <2>6, <1>3, <1>9
      <3>2. CASE n + 1 # t
        <4>1. n + 1 \in Nat /\ n + 1 # 0 /\ n + 1 < t
          BY <3>2
        <4>2. Edge(c, ch, n + 1) = ch * (q + (n + 1))
          BY <4>1, <1>8
        <4> QED BY <4>2, <3>2, <2>1, <2>2
      <3> QED BY <3>1, <3>2
    <2> HIDE DEF f
    <2>9. Edge(c, ch, n) < Edge(c, ch, n + 1)
      <3>1. CASE n + 1 = t /\ n = 0
        BY <3>1, <2>1, <2>3, <2>4, <2>6, <2>7, <2>8, <1>1, <1>2, <1>3
      <3>2. CASE ~(n + 1 = t /\ n = 0)
        BY <3>2, <2>1, <2>7, <2>8
      <3> QED BY <3>1, <3>2
    <2>10. Edge(c, ch, n + 1) <= e + 1
      <3>1. CASE n + 1 = t
        BY <3>1, <1>9
      <3>2. CASE n + 1 < t
        BY <3>2, <2>1, <2>5, <2>6, <2>8, <1>3
      <3> QED BY <3>1, <3>2
    <2> QED BY <2>1, <2>7, <2>8, <2>9, <2>10
  <1> HIDE DEF t
  <1> QED BY <1>1, <1>2, <1>3, <1>5, <1>7, <1>9, <1>10

-----------------------------------------------------------------------------
(* Slices: the bytes of a stored part S from position a to before b          *)

(* The bytes of what is stored: of the file, or of headers and sealed blocks *)
Bytes == UNION {{s[i] : i \in DOMAIN s} :
                  s \in {Plain[p] : p \in Parts}
                        \cup UNION {{Sealed[p][n] : n \in Nonces} : p \in Parts}}
Slice(S, s, a, b) ==
    /\ s \in Seq(Bytes) /\ Len(s) = b - a
    /\ \A i \in 1 .. Len(s) : s[i] = S[a + i]

(* A piece of a slice is a slice.                                            *)
LEMMA SliceOfSlice ==
    ASSUME NEW S, NEW s, NEW a \in Int, NEW b \in Int, Slice(S, s, a, b),
           NEW m \in Nat, NEW n \in Nat, m <= n, n <= Len(s)
    PROVE  Slice(S, SubSeq(s, m + 1, n), a + m, a + n)
  <1>1. s \in Seq(Bytes) /\ Len(s) \in Nat
    BY DEF Slice
  <1> DEFINE t == SubSeq(s, m + 1, n)
  <1>2. /\ t \in Seq(Bytes) /\ Len(t) = n - m
        /\ \A i \in 1 .. n - m : t[i] = s[m + 1 + i - 1]
    BY <1>1, SubSeqProperties
  <1> HIDE DEF t
  <1>3. \A i \in 1 .. n - m : m + 1 + i - 1 \in 1 .. Len(s)
    BY <1>1
  <1>4. \A i \in 1 .. n - m : t[i] = S[a + (m + 1 + i - 1)]
    BY <1>2, <1>3 DEF Slice
  <1>5. \A i \in 1 .. n - m : a + (m + 1 + i - 1) = (a + m) + i
    OBVIOUS
  <1>6. Len(t) = (a + n) - (a + m) /\ \A i \in 1 .. Len(t) : t[i] = S[(a + m) + i]
    BY <1>2, <1>4, <1>5
  <1> QED BY <1>2, <1>6 DEF Slice, t

(* A piece of what is stored is a slice of it.                               *)
LEMMA SliceOfStored ==
    ASSUME NEW S \in Seq(Bytes), NEW m \in Nat, NEW n \in Nat, m <= n, n <= Len(S)
    PROVE  Slice(S, SubSeq(S, m + 1, n), m, n)
  <1>1. Slice(S, S, 0, Len(S)) /\ 0 \in Int /\ Len(S) \in Int
    <2>1. \A i \in 1 .. Len(S) : 0 + i = i
      OBVIOUS
    <2> QED BY <2>1 DEF Slice
  <1>2. Slice(S, SubSeq(S, m + 1, n), 0 + m, 0 + n)
    BY <1>1, SliceOfSlice
  <1>3. 0 + m = m /\ 0 + n = n
    OBVIOUS
  <1> QED BY <1>2, <1>3

(* Two slices that meet are one.                                             *)
LEMMA SlicesJoin ==
    ASSUME NEW S, NEW s, NEW t, NEW a \in Int, NEW b \in Int, NEW c \in Int,
           Slice(S, s, a, b), Slice(S, t, b, c)
    PROVE  Slice(S, s \o t, a, c)
  <1>1. s \in Seq(Bytes) /\ Len(s) \in Nat /\ t \in Seq(Bytes) /\ Len(t) \in Nat
    BY DEF Slice
  <1>2. s \o t \in Seq(Bytes) /\ Len(s \o t) = Len(s) + Len(t)
    BY <1>1, ConcatProperties
  <1>3. ASSUME NEW i \in 1 .. Len(s) + Len(t) PROVE (s \o t)[i] = S[a + i]
    <2>1. (s \o t)[i] = IF i <= Len(s) THEN s[i] ELSE t[i - Len(s)]
      BY <1>1, ConcatProperties
    <2>2. Len(s) = b - a
      BY DEF Slice
    <2>3. CASE i <= Len(s)
      BY <2>1, <2>3, <1>1 DEF Slice
    <2>4. CASE i > Len(s)
      <3>1. i - Len(s) \in 1 .. Len(t)
        BY <2>4, <1>1
      <3>2. t[i - Len(s)] = S[b + (i - Len(s))]
        BY <3>1 DEF Slice
      <3>3. b + (i - Len(s)) = a + i
        BY <2>2, <1>1
      <3>4. (s \o t)[i] = t[i - Len(s)]
        BY <2>1, <2>4, <1>1
      <3> QED BY <3>2, <3>3, <3>4
    <2> QED BY <2>3, <2>4, <1>1
  <1>4. Len(s \o t) = c - a
    BY <1>1, <1>2 DEF Slice
  <1> QED BY <1>2, <1>3, <1>4 DEF Slice

(* The length of a slice, and its bytes.                                     *)
LEMMA SliceIs ==
    ASSUME NEW S, NEW s, NEW a \in Int, NEW b \in Int, Slice(S, s, a, b)
    PROVE  /\ s \in Seq(Bytes) /\ Len(s) \in Nat /\ Len(s) = b - a /\ a <= b
           /\ DOMAIN s = 1 .. b - a /\ \A i \in 1 .. b - a : s[i] = S[a + i]
  <1>1. s \in Seq(Bytes) /\ Len(s) \in Nat /\ Len(s) = b - a
    BY DEF Slice
  <1>2. DOMAIN s = 1 .. b - a
    BY <1>1
  <1> QED BY <1>1, <1>2 DEF Slice

-----------------------------------------------------------------------------
(* Runs: the bytes of the file from position a to before b                   *)

Run(s, a, b) ==
    /\ s \in Seq(Int) /\ Len(s) = b - a
    /\ \A i \in 1 .. Len(s) : s[i] = a + i - 1

(* A piece of a run of bytes of the file is a run.                           *)
LEMMA SliceOfRun ==
    ASSUME NEW s, NEW a \in Int, NEW b \in Int, Run(s, a, b),
           NEW m \in Nat, NEW n \in Nat, m <= n, n <= Len(s)
    PROVE  Run(SubSeq(s, m + 1, n), a + m, a + n)
  <1>1. s \in Seq(Int) /\ Len(s) \in Nat
    BY DEF Run
  <1> DEFINE t == SubSeq(s, m + 1, n)
  <1>2. /\ t \in Seq(Int) /\ Len(t) = n - m
        /\ \A i \in 1 .. n - m : t[i] = s[m + 1 + i - 1]
    BY <1>1, SubSeqProperties
  <1> HIDE DEF t
  <1>3. \A i \in 1 .. n - m : m + 1 + i - 1 \in 1 .. Len(s)
    BY <1>1
  <1>4. \A i \in 1 .. n - m : t[i] = a + (m + 1 + i - 1) - 1
    BY <1>2, <1>3 DEF Run
  <1>5. Len(t) = (a + n) - (a + m) /\ \A i \in 1 .. Len(t) : t[i] = (a + m) + i - 1
    BY <1>2, <1>4
  <1> QED BY <1>2, <1>5 DEF Run, t

(* Two runs that meet are one.                                               *)
LEMMA RunsJoin ==
    ASSUME NEW s, NEW t, NEW a \in Int, NEW b \in Int, NEW c \in Int,
           Run(s, a, b), Run(t, b, c)
    PROVE  Run(s \o t, a, c)
  <1>1. s \in Seq(Int) /\ Len(s) \in Nat /\ t \in Seq(Int) /\ Len(t) \in Nat
    BY DEF Run
  <1>2. s \o t \in Seq(Int) /\ Len(s \o t) = Len(s) + Len(t)
    BY <1>1, ConcatProperties
  <1>3. ASSUME NEW i \in 1 .. Len(s) + Len(t) PROVE (s \o t)[i] = a + i - 1
    <2>1. (s \o t)[i] = IF i <= Len(s) THEN s[i] ELSE t[i - Len(s)]
      BY <1>1, ConcatProperties
    <2>2. Len(s) = b - a
      BY DEF Run
    <2>3. CASE i <= Len(s)
      BY <2>1, <2>3, <1>1 DEF Run
    <2>4. CASE i > Len(s)
      <3>1. i - Len(s) \in 1 .. Len(t)
        BY <2>4, <1>1
      <3>2. t[i - Len(s)] = b + (i - Len(s)) - 1
        BY <3>1 DEF Run
      <3> QED BY <3>2, <2>1, <2>2, <2>4, <1>1
    <2> QED BY <2>3, <2>4, <1>1
  <1>4. Len(s \o t) = c - a
    BY <1>1, <1>2 DEF Run
  <1> QED BY <1>2, <1>3, <1>4 DEF Run

(* The length of a run, and its bytes.                                       *)
LEMMA RunIs ==
    ASSUME NEW s, NEW a \in Int, NEW b \in Int, Run(s, a, b)
    PROVE  /\ s \in Seq(Int) /\ Len(s) \in Nat /\ Len(s) = b - a /\ a <= b
           /\ s = [i \in 1 .. b - a |-> a + i - 1]
  <1>1. s \in Seq(Int) /\ Len(s) \in Nat /\ Len(s) = b - a
    BY DEF Run
  <1>2. DOMAIN s = 1 .. b - a /\ s = [i \in DOMAIN s |-> s[i]]
    BY <1>1
  <1> QED BY <1>1, <1>2 DEF Run

-----------------------------------------------------------------------------
(* The parts of a range *)

LEMMA SizesAre ==
    /\ Len(PartSizes) \in Nat \ {0} /\ PartSizes[1] \in Nat \ {0}
    /\ PartSizes[Len(PartSizes)] \in 1 .. PartSizes[1]
    /\ \A p \in Parts : PartSizes[p + 1] \in Nat \ {0}
    /\ \A p \in Parts : p + 1 < Len(PartSizes) => PartSizes[p + 1] = PartSizes[1]
  <1>1. /\ PartSizes \in Seq(Nat \ {0}) /\ PartSizes # <<>>
        /\ \A i \in 1 .. Len(PartSizes) - 1 : PartSizes[i] = PartSizes[1]
        /\ PartSizes[Len(PartSizes)] <= PartSizes[1]
    BY StreamAssumption
  <1>2. Len(PartSizes) \in Nat \ {0}
    BY <1>1
  <1>3. \A i \in 1 .. Len(PartSizes) : PartSizes[i] \in Nat \ {0}
    BY <1>1
  <1>4. 1 \in 1 .. Len(PartSizes) /\ Len(PartSizes) \in 1 .. Len(PartSizes)
    BY <1>2
  <1>5. \A p \in Parts : p + 1 \in 1 .. Len(PartSizes)
    BY <1>2 DEF Parts
  <1>6. \A p \in Parts : p + 1 < Len(PartSizes) => p + 1 \in 1 .. Len(PartSizes) - 1
    BY <1>2 DEF Parts
  <1> QED BY <1>1, <1>2, <1>3, <1>4, <1>5, <1>6

(* The parts a range covers follow each other from its first byte to its     *)
(* last one, each within what is stored (calculatePartByteRanges).           *)
LEMMA RangesFollow ==
    ASSUME NEW r \in Transfer!Ranges
    PROVE  LET cs == Ranges(r.start, r.end) IN
           /\ Len(cs) \in Nat \ {0} /\ DOMAIN cs = 1 .. Len(cs)
           /\ \A i \in 1 .. Len(cs) :
                 /\ RangeOf(cs[i]) /\ cs[i].part \in Parts
                 /\ cs[i].end < PartSizes[cs[i].part + 1]
                 /\ i = 1 => PartStart(cs[i].part) + cs[i].start = r.start
                 /\ i = Len(cs) => PartStart(cs[i].part) + cs[i].end = r.end
                 /\ PartStart(cs[i].part) + cs[i].end <= r.end
                 /\ i < Len(cs) => PartStart(cs[i].part) + cs[i].end + 1
                                   = PartStart(cs[i + 1].part) + cs[i + 1].start
  <1> DEFINE cs == Ranges(r.start, r.end)
  <1> HIDE DEF cs
  <1>0. PICK k \in Nat \ {0}, n \in Nat \ {0}, z \in Nat \ {0} :
          z <= k /\ k = PartSizes[1] /\ n = Len(PartSizes) /\ z = PartSizes[n]
    BY SizesAre
  <1>1. PICK s \in Nat, e \in Nat : s = r.start /\ e = r.end /\ s <= e /\ e <= Size - 1
    <2>1. \A x, y \in 0 .. Size - 1 : x \in Nat /\ y \in Nat /\ y <= Size - 1
      <3>1. Size \in Int
        BY <1>0 DEF Size, PartStart
      <3> QED BY <3>1
    <2> QED BY <2>1 DEF Transfer!Ranges
  <1>2. Size = k * (n - 1) + z
    BY <1>0 DEF Size, PartStart
  <1>3. PICK q \in Nat, a \in 0 .. k - 1 : q = s \div k /\ s = k * q + a
    BY Division
  <1>4. PICK p \in Nat, b \in 0 .. k - 1 : p = e \div k /\ e = k * p + b
    BY Division
  <1>5. q <= p
    <2>1. SUFFICES ASSUME p < q PROVE FALSE
      OBVIOUS
    <2>2. k * p + k <= k * q
      BY <2>1, ProductOrder
    <2>3. k * p \in Int /\ k * q \in Int
      OBVIOUS
    <2> QED BY <2>2, <2>3, <1>1, <1>3, <1>4
  <1>6. p <= n - 1 /\ (p = n - 1 => b < z)
    <2>1. k * p \in Int /\ k * (n - 1) \in Int /\ n - 1 \in Int
      OBVIOUS
    <2>2. CASE n - 1 < p
      <3>1. PICK u \in Int, v \in Int : u = k * (n - 1) /\ v = k * p
        BY <2>1
      <3>2. u + k <= v
        BY <2>1, <2>2, <3>1, ProductOrder
      <3>3. Size = u + z /\ e = v + b
        BY <3>1, <1>2, <1>4
      <3>4. z <= k /\ e <= Size - 1
        BY <1>0, <1>1
      <3>5. FALSE
        BY <3>2, <3>3, <3>4
      <3> QED BY <3>5
    <2>3. CASE p <= n - 1
      BY <2>1, <2>3, <1>1, <1>2, <1>4
    <2> QED BY <2>1, <2>2, <2>3
  <1>7. /\ Len(cs) = p - q + 1 /\ DOMAIN cs = 1 .. p - q + 1
        /\ \A i \in 1 .. p - q + 1 :
              cs[i] = [part |-> q + i - 1,
                       start |-> IF s > (q + i - 1) * k THEN s - (q + i - 1) * k ELSE 0,
                       end |-> LesserOf(k - 1, e - (q + i - 1) * k)]
    <2>1. cs = [i \in 1 .. p - q + 1 |->
                  [part |-> q + i - 1,
                   start |-> IF s > (q + i - 1) * k THEN s - (q + i - 1) * k ELSE 0,
                   end |-> LesserOf(k - 1, e - (q + i - 1) * k)]]
      BY <1>0, <1>1, <1>3, <1>4 DEF Ranges, cs
    <2> QED BY <2>1, <1>5
  <1> DEFINE Covers(i, j) ==
               /\ cs[i].part = j /\ j \in Parts
               /\ PartStart(j) = k * j /\ k * j \in Nat
               /\ cs[i].start = (IF i = 1 THEN a ELSE 0)
               /\ cs[i].end = (IF i = p - q + 1 THEN b ELSE k - 1)
               /\ cs[i].end < PartSizes[j + 1]
  <1>8. ASSUME NEW i \in 1 .. p - q + 1, NEW j \in Nat, j = q + i - 1
        PROVE  Covers(i, j)
    <2>1. /\ cs[i].part = j /\ cs[i].start = (IF s > j * k THEN s - j * k ELSE 0)
          /\ cs[i].end = LesserOf(k - 1, e - j * k)
      BY <1>7, <1>8
    <2>2. PartStart(j) = k * j /\ j * k = k * j /\ k * j \in Nat
      BY <1>0 DEF PartStart
    <2>3. j \in Parts /\ q <= j /\ j <= p /\ (j = p <=> i = p - q + 1) /\ (j = q <=> i = 1)
      BY <1>0, <1>5, <1>6, <1>8 DEF Parts
    <2>4. k * p \in Int /\ k * q \in Int
      OBVIOUS
    <2>5. j # q => k * q + k <= k * j
      BY <2>3, ProductOrder
    <2>6. j # p => k * j + k <= k * p
      BY <2>3, ProductOrder
    <2>7. cs[i].start = IF i = 1 THEN a ELSE 0
      <3>1. CASE i = 1
        BY <3>1, <2>1, <2>2, <2>3, <2>4, <1>3
      <3>2. CASE i # 1
        BY <3>2, <2>1, <2>2, <2>3, <2>4, <2>5, <1>3
      <3> QED BY <3>1, <3>2
    <2>8. cs[i].end = IF i = p - q + 1 THEN b ELSE k - 1
      <3>1. CASE i = p - q + 1
        BY <3>1, <2>1, <2>2, <2>3, <2>4, <1>4 DEF LesserOf
      <3>2. CASE i # p - q + 1
        BY <3>2, <2>1, <2>2, <2>3, <2>4, <2>6, <1>4 DEF LesserOf
      <3> QED BY <3>1, <3>2
    <2>9. PartSizes[j + 1] = (IF j = n - 1 THEN z ELSE k)
      <3>1. j + 1 <= n
        BY <1>0, <2>3 DEF Parts
      <3>2. j # n - 1 => PartSizes[j + 1] = PartSizes[1]
        BY <1>0, <3>1, <2>3, SizesAre
      <3>3. j = n - 1 => PartSizes[j + 1] = z
        BY <1>0
      <3> QED BY <1>0, <3>2, <3>3
    <2>10. cs[i].end < PartSizes[j + 1]
      <3>1. CASE i = p - q + 1
        BY <3>1, <2>3, <2>8, <2>9, <1>6
      <3>2. CASE i # p - q + 1
        BY <3>2, <2>3, <2>8, <2>9, <1>6
      <3> QED BY <3>1, <3>2
    <2> QED BY <2>1, <2>2, <2>3, <2>7, <2>8, <2>10
  <1> HIDE DEF Covers
  <1>9. ASSUME NEW i \in 1 .. p - q + 1
        PROVE  /\ RangeOf(cs[i]) /\ cs[i].part \in Parts
               /\ cs[i].end < PartSizes[cs[i].part + 1]
               /\ i = 1 => PartStart(cs[i].part) + cs[i].start = s
               /\ i = p - q + 1 => PartStart(cs[i].part) + cs[i].end = e
               /\ PartStart(cs[i].part) + cs[i].end <= e
               /\ i < p - q + 1 => PartStart(cs[i].part) + cs[i].end + 1
                                   = PartStart(cs[i + 1].part) + cs[i + 1].start
    <2>1. PICK j \in Nat : j = q + i - 1
      OBVIOUS
    <2>2. /\ cs[i].part = j /\ j \in Parts /\ PartStart(j) = k * j /\ k * j \in Nat
          /\ cs[i].start = (IF i = 1 THEN a ELSE 0)
          /\ cs[i].end = (IF i = p - q + 1 THEN b ELSE k - 1)
          /\ cs[i].end < PartSizes[j + 1]
      <3>1. Covers(i, j)
        BY <2>1, <1>8
      <3> QED BY <3>1 DEF Covers
    <2>3. RangeOf(cs[i])
      <3>1. cs[i].start <= cs[i].end
        <4>1. CASE i = 1 /\ i = p - q + 1
          <5>1. q = p
            BY <4>1
          <5>2. k * q \in Int
            OBVIOUS
          <5>3. s = k * q + a /\ e = k * q + b
            BY <5>1, <1>3, <1>4
          <5> QED BY <5>2, <5>3, <4>1, <2>2, <1>1
        <4>2. CASE ~(i = 1 /\ i = p - q + 1)
          BY <4>2, <2>2
        <4> QED BY <4>1, <4>2
      <3>2. cs[i].start \in Nat /\ cs[i].end \in Nat
        BY <2>2
      <3> QED BY <3>1, <3>2, <2>2 DEF RangeOf
    <2>4. i = 1 => k * j + cs[i].start = s
      <3>1. i = 1 => j = q
        BY <2>1
      <3> QED BY <3>1, <2>2, <1>3
    <2>5. i = p - q + 1 => k * j + cs[i].end = e
      <3>1. i = p - q + 1 => j = p
        BY <2>1
      <3> QED BY <3>1, <2>2, <1>4
    <2>6. i < p - q + 1 => k * j + cs[i].end + 1
                           = PartStart(cs[i + 1].part) + cs[i + 1].start
      <3>1. SUFFICES ASSUME i < p - q + 1
                     PROVE  k * j + cs[i].end + 1
                            = PartStart(cs[i + 1].part) + cs[i + 1].start
        OBVIOUS
      <3>2. i + 1 \in 1 .. p - q + 1 /\ j + 1 \in Nat /\ j + 1 = q + (i + 1) - 1
            /\ i + 1 # 1
        BY <3>1, <2>1
      <3>3. /\ cs[i + 1].part = j + 1 /\ PartStart(j + 1) = k * (j + 1)
            /\ cs[i + 1].start = (IF i + 1 = 1 THEN a ELSE 0)
        <4>1. Covers(i + 1, j + 1)
          BY <3>2, <1>8
        <4> QED BY <4>1 DEF Covers
      <3>4. k * (j + 1) = k * j + k /\ cs[i].end = k - 1
        BY <3>1, <2>2
      <3> QED BY <3>2, <3>3, <3>4, <2>2
    <2>7. k * j + cs[i].end <= e
      <3>1. CASE i = p - q + 1
        BY <3>1, <2>2, <2>5
      <3>2. CASE i # p - q + 1
        <4>1. j < p
          BY <3>2, <2>1
        <4>2. k * j + k <= k * p /\ k * p \in Int
          BY <4>1, ProductOrder
        <4> QED BY <3>2, <4>2, <2>2, <1>4
      <3> QED BY <3>1, <3>2
    <2> QED BY <2>2, <2>3, <2>4, <2>5, <2>6, <2>7
  <1>10. Len(cs) \in Nat \ {0}
    BY <1>5, <1>7
  <1> QED BY <1>1, <1>7, <1>9, <1>10 DEF cs

-----------------------------------------------------------------------------
(* What holds of a reader of the range c of what is stored, S *)

(* The buffers of a batch that are there, by their index. *)
Buffered == UNION {[D -> Seq(Bytes)] : D \in SUBSET Nat}
MrShape ==
    [ part : Nat, limit : Nat, chunk : Nat \ {0}, offset : Nat, leftCut : Nat,
      rightCut : Nat, total : Nat, current : Nat,
      got : Buffered, sent : Nat,
      chan : Seq(Seq(Bytes)), cur : Seq(Bytes), pc : {"filling", "done", "failed"} ]

(* The chunks that went into the channel.                                    *)
Pushed(m) == IF m.pc = "done" THEN m.total ELSE m.current + m.sent

(* Chunks are fetched and pushed in their order, those of a batch in any.    *)
FetchesRight(S, c, m) ==
    /\ m.part = c.part /\ m.leftCut = c.start % m.chunk
    /\ m.rightCut = (c.end % m.chunk) + 1 /\ m.total = Total(c, m.chunk)
    /\ m.pc = "filling" =>
          /\ m.sent < Concurrency /\ m.current + m.sent < m.total
          /\ m.offset = From(c, m.chunk, m.current)
          /\ \A i \in DOMAIN m.got :
                /\ i < Concurrency /\ m.current + i < m.total
                /\ Slice(S, m.got[i], Edge(c, m.chunk, m.current + i),
                                 Edge(c, m.chunk, m.current + i + 1))
    /\ Pushed(m) <= m.total

(* What waits in the channel follows what the reader has in hand, which      *)
(* follows what it has returned.                                             *)
Waiting(S, c, m) ==
    LET first == Pushed(m) - Len(m.chan) IN
    /\ first \in Nat
    /\ Slice(S, m.cur, (c.end + 1) - m.limit, Edge(c, m.chunk, first))
    /\ \A j \in 1 .. Len(m.chan) :
          Slice(S, m.chan[j], Edge(c, m.chunk, first + j - 1), Edge(c, m.chunk, first + j))

ReaderRight(S, c, m) == m \in MrShape /\ FetchesRight(S, c, m) /\ Waiting(S, c, m)

-----------------------------------------------------------------------------
(* A new reader *)

LEMMA MaxIs ==
    ASSUME NEW S \in SUBSET Int, NEW x \in S, \A y \in S : y <= x
    PROVE  Max(S) = x
  <1>1. \A y \in S : x >= y
    OBVIOUS
  <1>2. ASSUME NEW z \in S, \A y \in S : z >= y PROVE z = x
    <2>1. z >= x /\ x >= z
      BY <1>1, <1>2
    <2> QED BY <2>1
  <1> QED BY <1>1, <1>2 DEF Max

(* There is a chunk size for every range.                                    *)
LEMMA ChunkSizeIs == \A a, b : ChunkSize(a, b) \in Nat \ {0}
  <1> SUFFICES ASSUME NEW a, NEW b PROVE ChunkSize(a, b) \in Nat \ {0}
    OBVIOUS
  <1> DEFINE S == {c \in MinChunk .. MaxChunk :
                     /\ \E k \in 0 .. MaxChunk : c * 2^k = MaxChunk
                     /\ c = MinChunk \/ c <= b - a}
             T == {MaxChunk - c : c \in S}
             R == {p \in Nat \X Nat : p[1] < p[2]}
  <1>1. MinChunk \in Nat \ {0} /\ MaxChunk \in Nat \ {0} /\ MinChunk <= MaxChunk
    BY StreamAssumption
  <1>2. MinChunk \in S
    BY <1>1, StreamAssumption
  <1>3. S \in SUBSET (MinChunk .. MaxChunk)
    OBVIOUS
  <1>4. ChunkSize(a, b) = Max(S)
    BY DEF ChunkSize
  <1> HIDE DEF S
  <1>5. T \in SUBSET Nat /\ T # {}
    BY <1>1, <1>2, <1>3
  <1>6. IsWellFoundedOn(R, Nat)
    BY NatLessThanWellFounded DEF OpToRel
  <1> HIDE DEF R
  <1>7. PICK t \in T : \A u \in T : ~(<<u, t>> \in R)
    BY <1>5, <1>6, WFMin
  <1>8. ASSUME NEW u \in T PROVE t <= u
    <2>1. t \in Nat /\ u \in Nat
      BY <1>5, <1>7
    <2>2. ~(u < t)
      BY <1>7, <2>1 DEF R
    <2> QED BY <2>1, <2>2
  <1>9. PICK x \in S : t = MaxChunk - x
    BY DEF T
  <1>10. \A y \in S : MaxChunk - x <= MaxChunk - y
    BY <1>8, <1>9
  <1>11. \A y \in S : y <= x
    BY <1>1, <1>3, <1>10
  <1>12. Max(S) = x
    BY <1>3, <1>11, MaxIs
  <1> QED BY <1>1, <1>3, <1>4, <1>12

(* What getPartReader opens for the part c of a range.                       *)
LEMMA NewReaderRight ==
    ASSUME NEW S, NEW c, RangeOf(c), NEW m, m = NewMultiReader(c.part, c.start, c.end)
    PROVE  ReaderRight(S, c, m) /\ m.limit = c.end - c.start + 1 /\ m.limit > 0
  <1>1. PICK s \in Nat, e \in Nat : s = c.start /\ e = c.end /\ s <= e
    BY DEF RangeOf
  <1>2. PICK ch \in Nat \ {0} : ch = ChunkSize(s, e)
    BY ChunkSizeIs
  <1>3. PICK q \in Nat, a \in 0 .. ch - 1 :
          q = s \div ch /\ a = s % ch /\ s = ch * q + a
    BY Division
  <1>4. PICK p \in Nat, b \in 0 .. ch - 1 :
          p = e \div ch /\ b = e % ch /\ e = ch * p + b
    BY Division
  <1>5. /\ Total(c, ch) \in Nat \ {0} /\ Edge(c, ch, 0) = s
    BY <1>1, ChunkEdges
  <1>6. Total(c, ch) = p - q + 1
    BY <1>1, <1>3, <1>4 DEF Total
  <1>7. From(c, ch, 0) = ch * q /\ ch * q \in Nat
    <2>1. From(c, ch, 0) = ch * (q + 0) /\ q + 0 = q
      BY <1>1, <1>3 DEF From
    <2> QED BY <2>1
  <1>8. s - a = ch * q
    BY <1>3, <1>7
  <1>9. (e - ch * q + ch) \div ch = p - q + 1
    <2>1. ch * (p - q + 1) = ch * p - ch * q + ch /\ ch * p \in Int /\ p - q + 1 \in Nat
      BY <1>5, <1>6
    <2>2. e - ch * q + ch = ch * (p - q + 1) + b
      BY <2>1, <1>4, <1>7
    <2>3. ch * (p - q + 1) + b \in Nat
      BY <2>1
    <2> QED BY <2>1, <2>2, <2>3, QuotientIs
  <1>10. m = [ part |-> c.part, limit |-> e - s + 1, chunk |-> ch, offset |-> ch * q,
               leftCut |-> a, rightCut |-> b + 1, total |-> p - q + 1, current |-> 0,
               got |-> <<>>, sent |-> 0, chan |-> <<>>, cur |-> <<>>, pc |-> "filling" ]
    <2>1. s - (s - a) = a
      OBVIOUS
    <2> QED BY <2>1, <1>1, <1>2, <1>3, <1>4, <1>8, <1>9 DEF NewMultiReader
  <1>11. m \in MrShape
    <2>1. <<>> \in Buffered
      <3>1. <<>> \in [{} -> Seq(Bytes)]
        OBVIOUS
      <3> QED BY <3>1 DEF Buffered
    <2>2. <<>> \in Seq(Bytes) /\ <<>> \in Seq(Seq(Bytes))
      OBVIOUS
    <2>3. e - s + 1 \in Nat /\ a \in Nat /\ b + 1 \in Nat
      BY <1>1
    <2>4. p - q + 1 \in Nat
      BY <1>5, <1>6
    <2>5. c.part \in Nat /\ ch * q \in Nat
      BY <1>7 DEF RangeOf
    <2> DEFINE u == ch * q
               v == p - q + 1
               w == e - s + 1
               x == b + 1
    <2>6. u \in Nat /\ v \in Nat /\ w \in Nat /\ x \in Nat
          /\ m = [ part |-> c.part, limit |-> w, chunk |-> ch, offset |-> u,
                   leftCut |-> a, rightCut |-> x, total |-> v, current |-> 0,
                   got |-> <<>>, sent |-> 0, chan |-> <<>>, cur |-> <<>>, pc |-> "filling" ]
      BY <2>3, <2>4, <2>5, <1>10
    <2> HIDE DEF u, v, w, x
    <2> QED BY <2>1, <2>2, <2>3, <2>5, <2>6 DEF MrShape
  <1>12. FetchesRight(S, c, m)
    <2>1. Pushed(m) = 0
      BY <1>10 DEF Pushed
    <2>2. 0 < Concurrency /\ 0 + 0 = 0
      BY StreamAssumption
    <2>3. /\ m.part = c.part /\ m.leftCut = c.start % m.chunk
          /\ m.rightCut = (c.end % m.chunk) + 1 /\ m.total = Total(c, m.chunk)
      <3>1. /\ m.part = c.part /\ m.chunk = ch /\ m.leftCut = a
            /\ m.rightCut = b + 1 /\ m.total = p - q + 1
        BY <1>10
      <3>2. c.start % ch = a /\ c.end % ch = b
        BY <1>1, <1>3, <1>4
      <3> QED BY <3>1, <3>2, <1>6
    <2>4. /\ m.sent < Concurrency /\ m.current + m.sent < m.total /\ Pushed(m) <= m.total
      BY <2>1, <2>2, <1>5, <1>6, <1>10
    <2>5. m.offset = From(c, m.chunk, m.current)
      BY <1>7, <1>10
    <2>6. DOMAIN m.got = {}
      BY <1>10
    <2> QED BY <2>3, <2>4, <2>5, <2>6 DEF FetchesRight
  <1>13. Waiting(S, c, m)
    <2>1. Pushed(m) - Len(m.chan) = 0 /\ Len(m.chan) = 0
      BY <1>10 DEF Pushed
    <2>2. (e + 1) - m.limit = s
      <3>1. m.limit = e - s + 1
        BY <1>10
      <3> QED BY <3>1
    <2>3. Slice(S, m.cur, s, s)
      BY <1>10 DEF Slice
    <2> QED BY <2>1, <2>2, <2>3, <1>1, <1>5, <1>10 DEF Waiting
  <1> QED BY <1>1, <1>10, <1>11, <1>12, <1>13 DEF ReaderRight
-----------------------------------------------------------------------------
(* The steps of the reader *)

(* The positions where chunks meet never go back, and only the last chunk    *)
(* reaches the end of the range.                                             *)
LEMMA EdgesWithin ==
    ASSUME NEW c, RangeOf(c), NEW ch \in Nat \ {0}, NEW n \in 0 .. Total(c, ch)
    PROVE  /\ Edge(c, ch, n) \in Nat /\ Edge(c, ch, n) <= c.end + 1
           /\ n < Total(c, ch) => /\ Edge(c, ch, n + 1) \in Nat
                                  /\ Edge(c, ch, n) < Edge(c, ch, n + 1)
                                  /\ Edge(c, ch, n + 1) <= c.end + 1
  <1>1. PICK s \in Nat, e \in Nat : s = c.start /\ e = c.end /\ s <= e
    BY DEF RangeOf
  <1>2. Total(c, ch) \in Nat \ {0} /\ Edge(c, ch, Total(c, ch)) = e + 1
    BY <1>1, ChunkEdges
  <1>3. s % ch \in Nat /\ e % ch \in Nat
    OBVIOUS
  <1>4. ASSUME n < Total(c, ch)
        PROVE  /\ Edge(c, ch, n) \in Nat /\ Edge(c, ch, n + 1) \in Nat
               /\ Edge(c, ch, n) < Edge(c, ch, n + 1)
               /\ Edge(c, ch, n + 1) <= e + 1
    <2>1. n \in 0 .. Total(c, ch) - 1
      BY <1>2, <1>4
    <2>2. PICK f \in Nat :
            /\ f = From(c, ch, n)
            /\ Edge(c, ch, n) = f + (IF n = 0 THEN s % ch ELSE 0)
            /\ Edge(c, ch, n + 1) = f
                 + (IF n + 1 = Total(c, ch) THEN (e % ch) + 1 ELSE ch)
            /\ Edge(c, ch, n) < Edge(c, ch, n + 1)
            /\ Edge(c, ch, n + 1) <= e + 1
      BY <2>1, <1>1, ChunkEdges
    <2>3. Edge(c, ch, n) \in Nat
      BY <2>2, <1>3
    <2>4. Edge(c, ch, n + 1) \in Nat
      BY <2>2, <1>3
    <2> QED BY <2>2, <2>3, <2>4
  <1>5. n = Total(c, ch) \/ n < Total(c, ch)
    BY <1>2
  <1> QED BY <1>1, <1>2, <1>4, <1>5

(* A range within what is stored of a part.                                  *)
StoredRange(S, c) ==
    RangeOf(c) /\ S \in Seq(Bytes) /\ S = Stored(c.part) /\ c.end < Len(S)

(* A goroutine of a batch gets the bytes of its chunk that are asked for,    *)
(* and cuts nothing that it did not get.                                     *)
LEMMA FetchedIs ==
    ASSUME NEW S, NEW c, StoredRange(S, c), ReaderRight(S, c, mr), mr.pc = "filling",
           NEW i \in Batch
    PROVE  /\ Cut(i)[1] < Cut(i)[2] /\ Cut(i)[2] <= Len(Chunk(i))
           /\ Slice(S, SubSeq(Chunk(i), Cut(i)[1] + 1, LesserOf(Cut(i)[2], Len(Chunk(i)))),
                  Edge(c, mr.chunk, mr.current + i), Edge(c, mr.chunk, mr.current + i + 1))
  <1>1. PICK s \in Nat, e \in Nat, z \in Nat :
          s = c.start /\ e = c.end /\ s <= e /\ z = Len(S) /\ e < z
    <2>1. Len(S) \in Nat
      BY DEF StoredRange
    <2> QED BY <2>1 DEF StoredRange, RangeOf
  <1>2. PICK ch \in Nat \ {0}, t \in Nat, cr \in Nat :
          ch = mr.chunk /\ t = mr.total /\ cr = mr.current
    BY DEF ReaderRight, MrShape
  <1>3. i \in Nat /\ cr + i < t
    <2>1. Concurrency \in Nat
      BY StreamAssumption
    <2> QED BY <2>1, <1>2 DEF Batch
  <1>4. PICK n \in Nat : n = cr + i /\ n < t
    BY <1>3
  <1>5. /\ mr.part = c.part /\ mr.leftCut = s % ch /\ mr.rightCut = (e % ch) + 1
        /\ t = Total(c, ch) /\ mr.offset = From(c, ch, cr)
    BY <1>1, <1>2 DEF ReaderRight, FetchesRight
  <1>6. PICK f \in Nat, lo \in Nat, hi \in Nat :
          /\ f = From(c, ch, n)
          /\ lo = (IF n = 0 THEN s % ch ELSE 0)
          /\ hi = (IF n + 1 = t THEN (e % ch) + 1 ELSE ch) /\ hi <= ch
          /\ Edge(c, ch, n) = f + lo /\ Edge(c, ch, n + 1) = f + hi
          /\ lo < hi /\ f + hi <= e + 1
    <2>1. n \in 0 .. Total(c, ch) - 1
      BY <1>4, <1>5
    <2>2. s % ch \in Nat /\ e % ch \in 0 .. ch - 1
      OBVIOUS
    <2>3. PICK f \in Nat :
            /\ f = From(c, ch, n)
            /\ Edge(c, ch, n) = f + (IF n = 0 THEN s % ch ELSE 0)
            /\ Edge(c, ch, n + 1) = f + (IF n + 1 = t THEN (e % ch) + 1 ELSE ch)
            /\ Edge(c, ch, n) < Edge(c, ch, n + 1)
            /\ Edge(c, ch, n + 1) <= e + 1
      <3>1. /\ From(c, ch, n) \in Nat
            /\ Edge(c, ch, n) = From(c, ch, n) + (IF n = 0 THEN c.start % ch ELSE 0)
            /\ Edge(c, ch, n + 1) = From(c, ch, n)
                 + (IF n + 1 = Total(c, ch) THEN (c.end % ch) + 1 ELSE ch)
            /\ Edge(c, ch, n) < Edge(c, ch, n + 1)
            /\ Edge(c, ch, n + 1) <= c.end + 1
        BY <2>1, ChunkEdges DEF StoredRange
      <3> QED BY <3>1, <1>1, <1>5
    <2>4. PICK lo \in Nat, hi \in Nat :
            lo = (IF n = 0 THEN s % ch ELSE 0)
            /\ hi = (IF n + 1 = t THEN (e % ch) + 1 ELSE ch) /\ hi <= ch
      BY <2>2
    <2> QED BY <2>3, <2>4
  <1>7. mr.offset + i * mr.chunk = f
    <2>1. PICK q \in Nat : q = s \div ch
      BY Division
    <2>2. From(c, ch, cr) = ch * (q + cr) /\ From(c, ch, n) = ch * (q + n)
      BY <1>1, <2>1 DEF From
    <2>3. ch * (q + (cr + i)) = ch * (q + cr) + i * ch
      BY <1>3
    <2> QED BY <2>2, <2>3, <1>2, <1>4, <1>5, <1>6
  <1>8. Cut(i)[1] = lo /\ Cut(i)[2] = hi
    <2>1. PICK lc \in Nat, rc \in Nat : lc = s % ch /\ rc = (e % ch) + 1
      OBVIOUS
    <2>2. Cut(i) = <<lo, hi>>
      BY <2>1, <1>2, <1>4, <1>5, <1>6 DEF Cut
    <2> QED BY <2>2
  <1>9. PICK g \in Nat : g = LesserOf(f + ch, z) /\ f <= g /\ f + hi <= g /\ g <= z
    <2>1. f + hi <= f + ch
      BY <1>6
    <2>2. f + hi <= e + 1 /\ e + 1 <= z
      BY <1>1, <1>6
    <2>3. f + hi <= z
      BY <2>2
    <2> QED BY <2>1, <2>3 DEF LesserOf
  <1>10. Chunk(i) = SubSeq(S, f + 1, g)
    BY <1>1, <1>2, <1>5, <1>7, <1>9 DEF Chunk, StoredRange
  <1>11. Slice(S, Chunk(i), f, g)
    BY <1>1, <1>9, <1>10, SliceOfStored DEF StoredRange
  <1>12. Len(Chunk(i)) = g - f
    BY <1>11 DEF Slice
  <1>13. hi <= g - f
    BY <1>9
  <1>14. LesserOf(hi, Len(Chunk(i))) = hi
    BY <1>12, <1>13 DEF LesserOf
  <1>15. Slice(S, SubSeq(Chunk(i), lo + 1, hi), f + lo, f + hi)
    <2>1. lo <= hi /\ hi <= Len(Chunk(i)) /\ f \in Int /\ g \in Int
      <3>1. lo < hi /\ hi <= g - f
        BY <1>6, <1>13
      <3> QED BY <3>1, <1>12
    <2> QED BY <2>1, <1>11, SliceOfSlice
  <1>16. mr.current + i = n /\ mr.current + i + 1 = n + 1
    BY <1>2, <1>4
  <1> QED BY <1>2, <1>6, <1>8, <1>12, <1>13, <1>14, <1>15, <1>16

(* The buffers of a batch arrive in any order, each in its place.            *)
LEMMA FetchKeeps ==
    ASSUME NEW S, NEW c, StoredRange(S, c), ReaderRight(S, c, mr), NEW i \in Nat, Fetch(i)
    PROVE  \E v : mr' = v /\ ReaderRight(S, c, v) /\ v.limit = mr.limit
  <1>1. /\ mr.pc = "filling" /\ i \in Batch
        /\ mr' = [mr EXCEPT !.got = [j \in DOMAIN @ \cup {i} |->
             IF j = i THEN SubSeq(Chunk(i), Cut(i)[1] + 1,
                                  LesserOf(Cut(i)[2], Len(Chunk(i))))
             ELSE @[j]]]
    BY DEF Fetch
  <1>2. PICK b : b = SubSeq(Chunk(i), Cut(i)[1] + 1, LesserOf(Cut(i)[2], Len(Chunk(i))))
    OBVIOUS
  <1>3. Slice(S, b, Edge(c, mr.chunk, mr.current + i), Edge(c, mr.chunk, mr.current + i + 1))
    BY <1>1, <1>2, FetchedIs
  <1>4. b \in Seq(Bytes)
    BY <1>3 DEF Slice
  <1>5. mr \in MrShape
    BY DEF ReaderRight
  <1>6. PICK D \in SUBSET Nat : mr.got \in [D -> Seq(Bytes)]
    BY <1>5 DEF MrShape, Buffered
  <1> DEFINE g == [j \in DOMAIN mr.got \cup {i} |-> IF j = i THEN b ELSE mr.got[j]]
             v == [mr EXCEPT !.got = g]
  <1>7. g \in Buffered /\ DOMAIN g = DOMAIN mr.got \cup {i} /\ g[i] = b
        /\ \A j \in DOMAIN mr.got : j # i => g[j] = mr.got[j]
    <2>1. g \in [D \cup {i} -> Seq(Bytes)] /\ D \cup {i} \in SUBSET Nat
      BY <1>4, <1>6
    <2> QED BY <2>1 DEF Buffered
  <1>8. mr' = v
    BY <1>1, <1>2
  <1> HIDE DEF g
  <1>9. /\ v \in MrShape /\ v.part = mr.part /\ v.limit = mr.limit /\ v.chunk = mr.chunk
        /\ v.offset = mr.offset /\ v.leftCut = mr.leftCut /\ v.rightCut = mr.rightCut
        /\ v.total = mr.total /\ v.current = mr.current /\ v.got = g /\ v.sent = mr.sent
        /\ v.chan = mr.chan /\ v.cur = mr.cur /\ v.pc = mr.pc
    BY <1>5, <1>7 DEF MrShape
  <1> HIDE DEF v
  <1>10. i < Concurrency /\ mr.current + i < mr.total
    <2>1. Concurrency \in Nat
      BY StreamAssumption
    <2> QED BY <1>1, <2>1 DEF Batch
  <1>11. Pushed(v) = Pushed(mr)
    BY <1>9 DEF Pushed
  <1>12. FetchesRight(S, c, v)
    <2>1. FetchesRight(S, c, mr)
      BY DEF ReaderRight
    <2>2. \A j \in DOMAIN g :
             /\ j < Concurrency /\ mr.current + j < mr.total
             /\ Slice(S, g[j], Edge(c, mr.chunk, mr.current + j),
                          Edge(c, mr.chunk, mr.current + j + 1))
      BY <2>1, <1>1, <1>3, <1>7, <1>10 DEF FetchesRight
    <2> QED BY <2>1, <2>2, <1>9, <1>11 DEF FetchesRight
  <1>13. Waiting(S, c, v)
    BY <1>9, <1>11 DEF Waiting, ReaderRight
  <1> QED BY <1>8, <1>9, <1>12, <1>13 DEF ReaderRight

(* A batch that is filling begins with index 0 and has as many chunks as are *)
(* left, at most Concurrency.                                                *)
LEMMA BatchIs ==
    ASSUME NEW S, NEW c, ReaderRight(S, c, mr), mr.pc = "filling"
    PROVE  /\ mr.sent \in Batch /\ Batch \in SUBSET Nat
           /\ Max(Batch) + 1 = LesserOf(Concurrency, mr.total - mr.current)
  <1>1. PICK cr \in Nat, t \in Nat, s \in Nat, k \in Nat \ {0} :
          cr = mr.current /\ t = mr.total /\ s = mr.sent /\ k = Concurrency
    BY StreamAssumption DEF ReaderRight, MrShape
  <1>2. s < k /\ cr + s < t
    BY <1>1 DEF ReaderRight, FetchesRight
  <1>3. Batch = {i \in 0 .. k - 1 : cr + i < t}
    BY <1>1 DEF Batch
  <1> DEFINE b == LesserOf(k, t - cr)
  <1>4. b \in Nat \ {0} /\ b <= k /\ b <= t - cr /\ (b = k \/ b = t - cr)
    BY <1>1, <1>2 DEF LesserOf
  <1> HIDE DEF b
  <1>5. b - 1 \in Batch /\ \A i \in Batch : i <= b - 1
    BY <1>3, <1>4
  <1>6. Batch \in SUBSET Int
    BY <1>3
  <1>7. Max(Batch) = b - 1
    BY <1>5, <1>6, MaxIs
  <1>8. Max(Batch) + 1 = b
    BY <1>4, <1>7
  <1> QED BY <1>1, <1>2, <1>3, <1>8 DEF b

(* A buffer goes into the channel behind those of the chunks before it.      *)
LEMMA PushKeeps ==
    ASSUME NEW S, NEW c, RangeOf(c), ReaderRight(S, c, mr), Push
    PROVE  \E v : mr' = v /\ ReaderRight(S, c, v) /\ v.limit = mr.limit
  <1>1. mr.pc = "filling" /\ DOMAIN mr.got = Batch
    BY DEF Push
  <1>2. PICK cr \in Nat, t \in Nat, s \in Nat, k \in Nat \ {0}, ch \in Nat \ {0}, o \in Nat :
          /\ cr = mr.current /\ t = mr.total /\ s = mr.sent /\ k = Concurrency
          /\ ch = mr.chunk /\ o = mr.offset
    BY StreamAssumption DEF ReaderRight, MrShape
  <1>3. /\ s < k /\ cr + s < t /\ o = From(c, ch, cr) /\ mr \in MrShape
        /\ FetchesRight(S, c, mr) /\ Waiting(S, c, mr)
    BY <1>1, <1>2 DEF ReaderRight, FetchesRight
  <1>4. PICK last \in BOOLEAN : last <=> s + 1 = LesserOf(k, t - cr)
    OBVIOUS
  <1>5. s \in Batch /\ (last <=> mr.sent + 1 = Max(Batch) + 1)
    BY <1>1, <1>2, <1>4, BatchIs
  <1>6. PICK buf \in Seq(Bytes) : buf = mr.got[s] /\ Slice(S, buf, Edge(c, ch, cr + s), Edge(c, ch, cr + s + 1))
    <2>1. Slice(S, mr.got[s], Edge(c, ch, cr + s), Edge(c, ch, cr + s + 1))
      BY <1>1, <1>2, <1>3, <1>5 DEF FetchesRight
    <2> QED BY <2>1 DEF Slice
  <1> DEFINE chan == Append(mr.chan, buf)
             sent == IF last THEN 0 ELSE s + 1
             got == IF last THEN <<>> ELSE mr.got
             current == IF last THEN cr + k ELSE cr
             offset == IF last THEN o + ch * k ELSE o
             pc == IF last /\ cr + k >= t THEN "done" ELSE "filling"
             v == [mr EXCEPT !.chan = chan, !.sent = sent, !.got = got,
                             !.current = current, !.offset = offset, !.pc = pc]
  <1>7. mr' = v
    BY <1>1, <1>2, <1>5, <1>6 DEF Push
  <1>8. /\ chan \in Seq(Seq(Bytes)) /\ sent \in Nat /\ got \in Buffered /\ current \in Nat
        /\ offset \in Nat /\ pc \in {"filling", "done"} /\ mr.chan \in Seq(Seq(Bytes))
    <2>1. mr.chan \in Seq(Seq(Bytes)) /\ mr.got \in Buffered
      BY <1>3 DEF MrShape
    <2>2. <<>> \in Buffered
      <3>1. <<>> \in [{} -> Seq(Bytes)]
        OBVIOUS
      <3> QED BY <3>1 DEF Buffered
    <2>3. chan \in Seq(Seq(Bytes)) /\ got \in Buffered
      BY <2>1, <2>2
    <2>4. offset \in Nat
      <3>1. ch * k \in Nat
        OBVIOUS
      <3> QED BY <3>1
    <2> QED BY <2>1, <2>3, <2>4
  <1>9. DOMAIN got # {} => got = mr.got /\ ~last
    OBVIOUS
  <1>10. /\ last /\ cr + k >= t => t = cr + s + 1
         /\ last /\ cr + k < t => k = s + 1
         /\ ~last => s + 1 < k /\ cr + s + 1 < t
    BY <1>3, <1>4 DEF LesserOf
  <1>11. pc = "filling" => offset = From(c, ch, current)
    <2>1. PICK q \in Nat : q = c.start \div ch
      BY Division DEF RangeOf
    <2>2. From(c, ch, cr) = ch * (q + cr) /\ From(c, ch, cr + k) = ch * (q + (cr + k))
      BY <2>1 DEF From
    <2>3. ch * (q + (cr + k)) = ch * (q + cr) + ch * k
      OBVIOUS
    <2> QED BY <2>2, <2>3, <1>3
  <1>12. chan = Append(mr.chan, buf)
    OBVIOUS
  <1>13. /\ pc = "filling" => sent < k /\ current + sent < t /\ current + sent = cr + s + 1
         /\ pc # "filling" => t = cr + s + 1
    BY <1>10
  <1>14. pc = "filling" /\ ~last => current = cr
    OBVIOUS
  <1> HIDE DEF chan, sent, got, current, offset, pc
  <1>15. /\ v \in MrShape /\ v.part = mr.part /\ v.limit = mr.limit /\ v.chunk = ch
         /\ v.offset = offset /\ v.leftCut = mr.leftCut /\ v.rightCut = mr.rightCut
         /\ v.total = t /\ v.current = current /\ v.got = got /\ v.sent = sent
         /\ v.chan = chan /\ v.cur = mr.cur /\ v.pc = pc
    BY <1>2, <1>3, <1>8 DEF MrShape
  <1> HIDE DEF v
  <1>16. Pushed(mr) = cr + s /\ Pushed(v) = cr + s + 1
    BY <1>1, <1>2, <1>8, <1>13, <1>15 DEF Pushed
  <1>17. FetchesRight(S, c, v)
    <2>1. /\ v.part = c.part /\ v.leftCut = c.start % ch
          /\ v.rightCut = (c.end % ch) + 1 /\ t = Total(c, ch)
      BY <1>2, <1>3, <1>15 DEF FetchesRight
    <2>2. ASSUME pc = "filling", NEW i \in DOMAIN got
          PROVE  /\ i < k /\ current + i < t
                 /\ Slice(S, got[i], Edge(c, ch, current + i), Edge(c, ch, current + i + 1))
      <3>1. got = mr.got /\ ~last /\ current = cr
        BY <2>2, <1>9, <1>14
      <3> QED BY <3>1, <2>2, <1>1, <1>2, <1>3 DEF FetchesRight
    <2>3. Pushed(v) <= t
      BY <1>3, <1>16
    <2> QED BY <2>1, <2>2, <2>3, <1>2, <1>11, <1>13, <1>15 DEF FetchesRight
  <1>18. Waiting(S, c, v)
    <2>1. PICK l \in Nat : l = Len(mr.chan)
      BY <1>8
    <2>2. Len(chan) = l + 1 /\ chan[l + 1] = buf /\ \A j \in 1 .. l : chan[j] = mr.chan[j]
      BY <2>1, <1>8, <1>12
    <2>3. PICK first \in Nat : first = cr + s - l /\ first = (cr + s + 1) - (l + 1)
      <3>1. cr + s - l \in Nat
        BY <2>1, <1>3, <1>16 DEF Waiting
      <3> QED BY <3>1
    <2>4. Slice(S, mr.cur, (c.end + 1) - mr.limit, Edge(c, ch, first))
      <3>1. Pushed(mr) - Len(mr.chan) = first
        BY <2>1, <2>3, <1>16
      <3> QED BY <3>1, <1>2, <1>3 DEF Waiting
    <2>5. \A j \in 1 .. l : Slice(S, chan[j], Edge(c, ch, first + j - 1), Edge(c, ch, first + j))
      <3>1. Pushed(mr) - Len(mr.chan) = first
        BY <2>1, <2>3, <1>16
      <3>2. \A j \in 1 .. l : Slice(S, mr.chan[j], Edge(c, ch, first + j - 1),
                                            Edge(c, ch, first + j))
        BY <3>1, <2>1, <1>2, <1>3 DEF Waiting
      <3> QED BY <3>2, <2>2
    <2>6. Slice(S, chan[l + 1], Edge(c, ch, first + (l + 1) - 1), Edge(c, ch, first + (l + 1)))
      <3>1. first + (l + 1) - 1 = cr + s /\ first + (l + 1) = cr + s + 1
        BY <2>3
      <3> QED BY <3>1, <2>2, <1>6
    <2>7. \A j \in 1 .. l + 1 :
             Slice(S, chan[j], Edge(c, ch, first + j - 1), Edge(c, ch, first + j))
      <3>1. \A j \in 1 .. l + 1 : j \in 1 .. l \/ j = l + 1
        OBVIOUS
      <3> QED BY <3>1, <2>5, <2>6
    <2>8. Pushed(v) - Len(v.chan) = first
      BY <2>2, <2>3, <1>15, <1>16
    <2> QED BY <2>2, <2>4, <2>7, <2>8, <1>15 DEF Waiting
  <1> QED BY <1>7, <1>15, <1>17, <1>18 DEF ReaderRight
(* A chunk that fails leaves what waits in the channel.                      *)
LEMMA FailureKeeps ==
    ASSUME NEW S, NEW c, ReaderRight(S, c, mr), FetchFails
    PROVE  \E v : mr' = v /\ ReaderRight(S, c, v) /\ v.limit = mr.limit
  <1> DEFINE v == [mr EXCEPT !.pc = "failed", !.got = <<>>]
  <1>1. mr' = v /\ mr.pc = "filling" /\ mr \in MrShape
    BY DEF FetchFails, ReaderRight
  <1>2. <<>> \in Buffered
    <2>1. <<>> \in [{} -> Seq(Bytes)]
      OBVIOUS
    <2> QED BY <2>1 DEF Buffered
  <1>3. /\ v \in MrShape /\ v.part = mr.part /\ v.limit = mr.limit /\ v.chunk = mr.chunk
        /\ v.offset = mr.offset /\ v.leftCut = mr.leftCut /\ v.rightCut = mr.rightCut
        /\ v.total = mr.total /\ v.current = mr.current /\ v.sent = mr.sent
        /\ v.chan = mr.chan /\ v.cur = mr.cur /\ v.pc = "failed"
    BY <1>1, <1>2 DEF MrShape
  <1> HIDE DEF v
  <1>4. Pushed(v) = Pushed(mr)
    BY <1>1, <1>3 DEF Pushed
  <1>5. FetchesRight(S, c, v)
    BY <1>3, <1>4 DEF FetchesRight, ReaderRight
  <1>6. Waiting(S, c, v)
    BY <1>3, <1>4 DEF Waiting, ReaderRight
  <1> QED BY <1>1, <1>3, <1>5, <1>6 DEF ReaderRight

(* What a read of k bytes takes is what follows what was returned before; it *)
(* is something, and no more than is left of the range.                      *)
LEMMA TakingKeeps ==
    ASSUME NEW S, NEW c, RangeOf(c), ReaderRight(S, c, mr), Ready, NEW k \in Nat \ {0}
    PROVE  \E n \in Nat, from \in Int, v \in MrShape :
             /\ v = AfterTaking(k) /\ ReaderRight(S, c, v)
             /\ n = Len(Taken(k)) /\ 1 <= n /\ n <= k
             /\ v.limit = mr.limit - n /\ from = (c.end + 1) - mr.limit
             /\ Slice(S, Taken(k), from, from + n)
  <1>1. PICK end \in Nat, ch \in Nat \ {0}, t \in Nat, lim \in Nat, l \in Nat, p \in Nat :
          /\ end = c.end + 1 /\ ch = mr.chunk /\ t = mr.total
          /\ lim = mr.limit /\ l = Len(mr.chan) /\ p = Pushed(mr)
          /\ end - lim = (c.end + 1) - mr.limit
    <2>1. c.end + 1 \in Nat
      BY DEF RangeOf
    <2>2. mr.chunk \in Nat \ {0} /\ mr.total \in Nat /\ mr.limit \in Nat
          /\ mr.chan \in Seq(Seq(Bytes)) /\ Pushed(mr) \in Nat
      BY DEF ReaderRight, MrShape, Pushed
    <2>3. Len(mr.chan) \in Nat
      BY <2>2
    <2> QED BY <2>1, <2>2, <2>3
  <1>2. /\ mr \in MrShape /\ FetchesRight(S, c, mr) /\ Waiting(S, c, mr)
        /\ t = Total(c, ch) /\ p <= t
    BY <1>1 DEF ReaderRight, FetchesRight
  <1>3. PICK first \in Nat :
          /\ first = p - l /\ first <= t /\ Slice(S, mr.cur, end - lim, Edge(c, ch, first))
          /\ \A j \in 1 .. l :
                Slice(S, mr.chan[j], Edge(c, ch, first + j - 1), Edge(c, ch, first + j))
    <2>1. p - l \in Nat /\ p - l <= t /\ p - l = Pushed(mr) - Len(mr.chan)
      BY <1>1, <1>2 DEF Waiting
    <2>2. (c.end + 1) - mr.limit = end - lim
      BY <1>1, Zenon
    <2>3. PICK first \in Nat : first = p - l
      BY <2>1
    <2>4. Slice(S, mr.cur, end - lim, Edge(c, ch, first))
      BY <2>1, <2>2, <2>3, <1>1, <1>2 DEF Waiting
    <2>5. \A j \in 1 .. l :
             Slice(S, mr.chan[j], Edge(c, ch, first + j - 1), Edge(c, ch, first + j))
      BY <2>1, <2>3, <1>1, <1>2 DEF Waiting
    <2> QED BY <2>1, <2>3, <2>4, <2>5
  <1>4. mr.cur \in Seq(Bytes) /\ mr.chan \in Seq(Seq(Bytes)) /\ lim > 0
    BY <1>1, <1>2 DEF MrShape, Ready
  (* What is taken from, what is left in the channel, where the former ends. *)
  <1>5. PICK cur \in Seq(Bytes), chan \in Seq(Seq(Bytes)), f \in Nat :
          /\ cur = Current /\ chan = (IF mr.cur # <<>> THEN mr.chan ELSE Tail(mr.chan))
          /\ f = p - Len(chan) /\ f <= t /\ Slice(S, cur, end - lim, Edge(c, ch, f)) /\ cur # <<>>
          /\ \A j \in 1 .. Len(chan) :
                Slice(S, chan[j], Edge(c, ch, f + j - 1), Edge(c, ch, f + j))
    <2>1. CASE mr.cur # <<>>
      BY <2>1, <1>1, <1>3, <1>4 DEF Current
    <2>2. CASE mr.cur = <<>>
      <3>1. mr.chan # <<>> /\ l \in Nat \ {0}
        BY <2>2, <1>1, <1>4 DEF Ready
      <3>2. PICK h \in Seq(Bytes), r \in Seq(Seq(Bytes)) :
              h = Head(mr.chan) /\ r = Tail(mr.chan)
        <4>1. Head(mr.chan) \in Seq(Bytes) /\ Tail(mr.chan) \in Seq(Seq(Bytes))
          BY <3>1, <1>4, HeadTailProperties
        <4> QED BY <4>1
      <3>3. h = mr.chan[1] /\ Len(r) = l - 1 /\ \A j \in 1 .. l - 1 : r[j] = mr.chan[j + 1]
        BY <3>1, <3>2, <1>1, <1>4
      <3>4. first + 1 <= t /\ first < t
        BY <3>1, <1>2, <1>3
      <3>5. Slice(S, h, Edge(c, ch, first), Edge(c, ch, first + 1))
        <4>1. 1 \in 1 .. l /\ first + 1 - 1 = first
          BY <3>1
        <4> QED BY <4>1, <3>3, <1>3
      <3>6. Edge(c, ch, first) < Edge(c, ch, first + 1)
            /\ Edge(c, ch, first) \in Nat /\ Edge(c, ch, first + 1) \in Nat
        <4>1. first \in 0 .. Total(c, ch)
          BY <3>4, <1>2
        <4> QED BY <4>1, <3>4, <1>2, EdgesWithin
      <3>7. end - lim = Edge(c, ch, first)
        <4>1. PICK x \in Nat : x = Edge(c, ch, first)
          BY <3>6
        <4>2. Len(mr.cur) = x - (end - lim)
          BY <4>1, <1>3 DEF Slice
        <4>3. Len(mr.cur) = 0
          BY <2>2
        <4>4. x = end - lim
          BY <4>2, <4>3
        <4> QED BY <4>1, <4>4
      <3>8. h \in Seq(Bytes) /\ h # <<>>
        <4>1. h \in Seq(Bytes) /\ Len(h) = Edge(c, ch, first + 1) - Edge(c, ch, first)
          BY <3>5 DEF Slice
        <4>2. Len(h) > 0
          BY <4>1, <3>6
        <4> QED BY <4>1, <4>2
      <3>9. ASSUME NEW j \in 1 .. l - 1
            PROVE  Slice(S, r[j], Edge(c, ch, (first + 1) + j - 1), Edge(c, ch, (first + 1) + j))
        <4>1. j + 1 \in 1 .. l /\ first + (j + 1) - 1 = (first + 1) + j - 1
              /\ first + (j + 1) = (first + 1) + j
          BY <3>1
        <4>2. Slice(S, mr.chan[j + 1], Edge(c, ch, first + (j + 1) - 1),
                                  Edge(c, ch, first + (j + 1)))
          BY <4>1, <1>3
        <4> QED BY <4>1, <4>2, <3>3
      <3>10. first + 1 = p - Len(r) /\ first + 1 \in Nat
        BY <3>3, <1>3
      <3>11. h = Current /\ r = (IF mr.cur # <<>> THEN mr.chan ELSE Tail(mr.chan))
        BY <2>2, <3>2 DEF Current
      <3>12. /\ first + 1 <= t /\ Slice(S, h, end - lim, Edge(c, ch, first + 1))
             /\ \A j \in 1 .. Len(r) :
                   Slice(S, r[j], Edge(c, ch, (first + 1) + j - 1), Edge(c, ch, (first + 1) + j))
        BY <3>3, <3>4, <3>5, <3>7, <3>9
      <3> HIDE <3>3
      <3> QED BY <3>2, <3>8, <3>10, <3>11, <3>12, ZenonT(40)
    <2> QED BY <2>1, <2>2
  <1>6. PICK edge \in Nat : edge = Edge(c, ch, f) /\ edge <= end
    <2>1. f \in 0 .. Total(c, ch)
      BY <1>2, <1>5
    <2> QED BY <2>1, <1>1, EdgesWithin
  <1>7. Len(cur) \in Nat \ {0} /\ Len(cur) = edge - (end - lim)
    BY <1>5, <1>6 DEF Slice
  <1>8. PICK n \in Nat \ {0} :
          n = LesserOf(k, Len(cur)) /\ n <= Len(cur) /\ n <= k /\ n <= lim
    <2>1. PICK x \in Nat \ {0} : x = Len(cur) /\ x <= lim
      <3>1. edge - (end - lim) <= lim
        BY <1>6
      <3> QED BY <3>1, <1>7
    <2> QED BY <2>1 DEF LesserOf
  <1>9. Taken(k) = SubSeq(cur, 1, n)
    BY <1>5, <1>8 DEF Taken
  <1>10. Slice(S, SubSeq(cur, 0 + 1, n), end - lim + 0, end - lim + n)
    <2>1. Slice(S, cur, end - lim, edge) /\ end - lim \in Int /\ 0 <= n /\ 0 \in Nat
      BY <1>5, <1>6
    <2>2. n \in Nat /\ n <= Len(cur) /\ edge \in Int
      BY <1>6, <1>8
    <2> HIDE <1>5
    <2> QED BY <2>1, <2>2, SliceOfSlice
  <1>11. Slice(S, Taken(k), end - lim, end - lim + n) /\ Len(Taken(k)) = n
    <2>1. 0 + 1 = 1 /\ end - lim + 0 = end - lim
      OBVIOUS
    <2>2. Slice(S, Taken(k), end - lim, end - lim + n)
      BY <2>1, <1>9, <1>10
    <2> QED BY <2>2 DEF Slice
  <1> DEFINE rest == SubSeq(cur, n + 1, Len(cur))
             left == lim - n
             v == [mr EXCEPT !.cur = rest, !.chan = chan, !.limit = left]
  <1>12. Slice(S, rest, end - left, Edge(c, ch, f))
    <2>1. Slice(S, rest, end - lim + n, end - lim + Len(cur))
      <3>1. Slice(S, cur, end - lim, edge) /\ end - lim \in Int /\ edge \in Int
            /\ Len(cur) \in Nat /\ n <= Len(cur) /\ n \in Nat
        BY <1>5, <1>6, <1>7, <1>8
      <3> HIDE <1>5
      <3> QED BY <3>1, SliceOfSlice
    <2>2. end - lim + Len(cur) = edge /\ end - lim + n = end - left
      BY <1>7
    <2> QED BY <2>1, <2>2, <1>6
  <1>13. rest \in Seq(Bytes) /\ left \in Nat
    <2>1. rest \in Seq(Bytes)
      BY <1>12 DEF Slice
    <2>2. left \in Nat
      BY <1>8
    <2> QED BY <2>1, <2>2
  <1>14. v = AfterTaking(k)
    BY <1>1, <1>5, <1>11 DEF AfterTaking
  <1> HIDE DEF rest, left
  <1>15. /\ v \in MrShape /\ v.part = mr.part /\ v.limit = left /\ v.chunk = ch
         /\ v.offset = mr.offset /\ v.leftCut = mr.leftCut /\ v.rightCut = mr.rightCut
         /\ v.total = t /\ v.current = mr.current /\ v.got = mr.got /\ v.sent = mr.sent
         /\ v.chan = chan /\ v.cur = rest /\ v.pc = mr.pc
    BY <1>1, <1>2, <1>5, <1>13 DEF MrShape
  <1> HIDE DEF v
  <1>16. Pushed(v) = p
    BY <1>1, <1>15 DEF Pushed
  <1>17. FetchesRight(S, c, v)
    BY <1>1, <1>2, <1>15, <1>16 DEF FetchesRight
  <1>18. Waiting(S, c, v)
    <2>1. Pushed(v) - Len(v.chan) = f
      BY <1>5, <1>15, <1>16
    <2>2. (c.end + 1) - v.limit = end - left
      <3>1. v.limit = left
        BY <1>15
      <3>2. end = c.end + 1
        BY <1>1
      <3> QED BY <3>1, <3>2, Zenon
    <2> QED BY <2>1, <2>2, <1>5, <1>12, <1>15 DEF Waiting
  <1>19. ReaderRight(S, c, v)
    BY <1>15, <1>17, <1>18 DEF ReaderRight
  <1>20. v.limit = mr.limit - n
    <2>1. v.limit = lim - n
      BY <1>15 DEF left
    <2> QED BY <2>1, <1>1
  <1> DEFINE from == end - lim
  <1>21. from = (c.end + 1) - mr.limit /\ from \in Int
    BY <1>1
  <1>22. Slice(S, Taken(k), from, from + n) /\ n = Len(Taken(k)) /\ 1 <= n /\ n <= k
    BY <1>8, <1>11
  <1> HIDE DEF from
  <1> QED BY <1>8, <1>14, <1>15, <1>19, <1>20, <1>21, <1>22

(* The channel is at its end when nothing is left of the range, and only a   *)
(* chunk that failed ends it before.                                         *)
LEMMA DrainedIsDone ==
    ASSUME NEW S, NEW c, RangeOf(c), NEW m, ReaderRight(S, c, m)
    PROVE  /\ m.limit = 0 => m.pc # "filling"
           /\ m.limit > 0 /\ m.cur = <<>> /\ m.chan = <<>> => m.pc # "done"
  <1>1. PICK end \in Nat, ch \in Nat \ {0}, t \in Nat, lim \in Nat, l \in Nat, p \in Nat :
          /\ end = c.end + 1 /\ ch = m.chunk /\ t = m.total
          /\ lim = m.limit /\ l = Len(m.chan) /\ p = Pushed(m)
          /\ end - lim = (c.end + 1) - m.limit
    <2>1. c.end + 1 \in Nat
      BY DEF RangeOf
    <2>2. m.chunk \in Nat \ {0} /\ m.total \in Nat /\ m.limit \in Nat
          /\ m.chan \in Seq(Seq(Bytes)) /\ Pushed(m) \in Nat
      BY DEF ReaderRight, MrShape, Pushed
    <2>3. Len(m.chan) \in Nat
      BY <2>2
    <2> QED BY <2>1, <2>2, <2>3
  <1>2. /\ FetchesRight(S, c, m) /\ Waiting(S, c, m) /\ t = Total(c, ch) /\ p <= t
    BY <1>1 DEF ReaderRight, FetchesRight
  <1>3. PICK first \in Nat :
          first = p - l /\ first <= t /\ Slice(S, m.cur, end - lim, Edge(c, ch, first))
    <2>1. p - l \in Nat /\ p - l <= t /\ p - l = Pushed(m) - Len(m.chan)
      BY <1>1, <1>2 DEF Waiting
    <2>2. (c.end + 1) - m.limit = end - lim
      BY <1>1, Zenon
    <2> QED BY <2>1, <2>2, <1>1, <1>2 DEF Waiting
  <1>4. first \in 0 .. Total(c, ch)
    BY <1>2, <1>3
  <1>5. PICK edge \in Nat : edge = Edge(c, ch, first) /\ (first < t => edge < end)
                            /\ (first = t => edge = end)
    <2>1. Edge(c, ch, t) = end
      BY <1>1, <1>2, ChunkEdges
    <2>2. first < t => /\ Edge(c, ch, first) < Edge(c, ch, first + 1)
                       /\ Edge(c, ch, first + 1) <= end /\ Edge(c, ch, first + 1) \in Nat
      BY <1>1, <1>2, <1>4, EdgesWithin
    <2>3. Edge(c, ch, first) \in Nat
      BY <1>4, EdgesWithin
    <2> QED BY <2>1, <2>2, <2>3
  <1>6. Len(m.cur) = edge - (end - lim) /\ Len(m.cur) \in Nat
    BY <1>3, <1>5 DEF Slice
  <1>7. m.limit = 0 => m.pc # "filling"
    <2>1. SUFFICES ASSUME lim = 0, m.pc = "filling" PROVE FALSE
      BY <1>1
    <2>2. first = t /\ p = t
      BY <2>1, <1>2, <1>3, <1>5, <1>6
    <2>3. p = m.current + m.sent /\ m.current + m.sent < t
      BY <2>1, <1>1, <1>2 DEF Pushed, FetchesRight
    <2> QED BY <2>2, <2>3
  <1>8. m.limit > 0 /\ m.cur = <<>> /\ m.chan = <<>> => m.pc # "done"
    <2>1. SUFFICES ASSUME lim > 0, m.cur = <<>>, m.chan = <<>>, m.pc = "done" PROVE FALSE
      BY <1>1
    <2>2. l = 0 /\ p = t
      BY <2>1, <1>1 DEF Pushed
    <2>3. first = t
      BY <2>2, <1>3
    <2> QED BY <2>1, <2>3, <1>5, <1>6
  <1> QED BY <1>7, <1>8

-----------------------------------------------------------------------------
(* What is stored of a part                                                  *)

LEMMA PartIs ==
    ASSUME NEW p \in Parts
    PROVE  p \in Nat /\ PartStart(p) \in Nat /\ PartSizes[p + 1] \in Nat \ {0}
  <1>1. p \in Nat /\ PartSizes[1] \in Nat
    BY SizesAre DEF Parts
  <1>2. p * PartSizes[1] \in Nat
    BY <1>1
  <1> QED BY <1>1, <1>2, SizesAre DEF PartStart

(* A part that is not encrypted holds its bytes of the file.                 *)
LEMMA PlainIs ==
    ASSUME NEW p \in Parts
    PROVE  /\ Plain[p] \in Seq(Bytes) /\ Len(Plain[p]) = PartSizes[p + 1]
           /\ \A i \in 1 .. PartSizes[p + 1] : Plain[p][i] = PartStart(p) + i - 1
  <1> DEFINE s == Plain[p]
  <1>1. s = [i \in 1 .. PartSizes[p + 1] |-> PartStart(p) + i - 1]
    BY DEF Plain
  <1>2. \A i \in 1 .. PartSizes[p + 1] : s[i] \in Bytes
    <2>1. DOMAIN s = 1 .. PartSizes[p + 1]
      BY <1>1
    <2>2. s \in {Plain[q] : q \in Parts}
      OBVIOUS
    <2> HIDE DEF s
    <2> DEFINE X == {Plain[q] : q \in Parts}
                    \cup UNION {{Sealed[q][n] : n \in Nonces} : q \in Parts}
    <2>3. s \in X
      BY <2>2
    <2>4. Bytes = UNION {{u[i] : i \in DOMAIN u} : u \in X}
      BY DEF Bytes
    <2> HIDE DEF X
    <2>5. ASSUME NEW i \in DOMAIN s PROVE s[i] \in Bytes
      <3>1. s[i] \in {s[j] : j \in DOMAIN s}
        OBVIOUS
      <3>2. {s[j] : j \in DOMAIN s} \in {{u[j] : j \in DOMAIN u} : u \in X}
        BY <2>3
      <3> QED BY <3>1, <3>2, <2>4
    <2> QED BY <2>1, <2>5
  <1> HIDE DEF s
  <1>3. s \in [1 .. PartSizes[p + 1] -> Bytes]
    BY <1>1, <1>2
  <1>4. PartSizes[p + 1] \in Nat
    BY PartIs
  <1>5. s \in Seq(Bytes) /\ Len(s) = PartSizes[p + 1]
    BY <1>3, <1>4
  <1> QED BY <1>1, <1>5 DEF s

(* A slice of such a part is a run of bytes of the file.                     *)
LEMMA PlainSlice ==
    ASSUME NEW p \in Parts, NEW s, NEW a \in Nat, NEW b \in Nat,
           Slice(Plain[p], s, a, b), b <= PartSizes[p + 1]
    PROVE  Run(s, PartStart(p) + a, PartStart(p) + b)
  <1>1. PICK base \in Nat, z \in Nat : base = PartStart(p) /\ z = PartSizes[p + 1] /\ b <= z
    BY PartIs
  <1>2. /\ s \in Seq(Bytes) /\ Len(s) \in Nat /\ Len(s) = b - a /\ DOMAIN s = 1 .. b - a
        /\ \A i \in 1 .. b - a : s[i] = Plain[p][a + i]
    BY SliceIs
  <1>3. \A i \in 1 .. b - a : s[i] = (base + a) + i - 1
    <2>1. \A i \in 1 .. b - a : a + i \in 1 .. z /\ base + (a + i) - 1 = (base + a) + i - 1
      BY <1>1
    <2>2. \A i \in 1 .. z : Plain[p][i] = base + i - 1
      BY <1>1, PlainIs
    <2> QED BY <2>1, <2>2, <1>2
  <1>4. s \in Seq(Int)
    <2>1. \A i \in 1 .. b - a : s[i] \in Int
      BY <1>3
    <2>2. b - a \in Nat
      BY <1>2
    <2>3. s = [i \in DOMAIN s |-> s[i]]
      BY <1>2
    <2>4. s \in [1 .. b - a -> Int]
      BY <2>1, <2>3, <1>2
    <2> QED BY <2>2, <2>4
  <1>5. Len(s) = (base + b) - (base + a)
    BY <1>2
  <1> QED BY <1>1, <1>2, <1>3, <1>4, <1>5 DEF Run

(* Block b of a sealed part, from BlockAt(b) to before BlockEnd(p, b).       *)
BlockAt(b) == HeaderSize + b * BlockSize
BlockBytes(p, b) == LesserOf(BlockData, PartSizes[p + 1] - b * BlockData)
BlockEnd(p, b) == BlockAt(b) + TagSize + BlockBytes(p, b)
SealedSize(p) == HeaderSize + Blocks(p) * TagSize + PartSizes[p + 1]

(* The sizes of a header, of blocks and of an encrypted part.                *)
LEMMA SealedSizesAre ==
    /\ HeaderSize \in Nat \ {0} /\ TagSize \in Nat \ {0} /\ BlockData \in Nat \ {0}
    /\ BlockSize = TagSize + BlockData
    /\ \A b \in Nat : BlockAt(b) \in Nat /\ b * BlockSize = b * TagSize + b * BlockData
                      /\ b * BlockSize \in Nat /\ b * TagSize \in Nat
                      /\ b * BlockData \in Nat /\ BlockAt(b + 1) = BlockAt(b) + BlockSize
  <1>1. PICK h \in Nat \ {0}, t \in Nat \ {0}, d \in Nat \ {0} :
          h = HeaderSize /\ t = TagSize /\ d = BlockData /\ BlockSize = t + d
    BY StreamAssumption DEF BlockSize
  <1>2. ASSUME NEW b \in Nat
        PROVE  /\ b * (t + d) = b * t + b * d /\ b * (t + d) \in Nat /\ b * t \in Nat
               /\ b * d \in Nat /\ h + (b + 1) * (t + d) = h + b * (t + d) + (t + d)
               /\ h + b * (t + d) \in Nat
    <2>1. PICK x \in Nat, y \in Nat, z \in Nat :
            x = b * t /\ y = b * d /\ z = b * (t + d) /\ z = x + y
      OBVIOUS
    <2>2. (b + 1) * (t + d) = b * (t + d) + (t + d)
      OBVIOUS
    <2> QED BY <2>1, <2>2
  <1> QED BY <1>1, <1>2 DEF BlockAt

(* Every block but the last one is full, and they follow each other from the *)
(* header to the end.                                                        *)
LEMMA BlocksFollow ==
    ASSUME NEW p \in Parts
    PROVE  /\ Blocks(p) \in Nat \ {0} /\ Blocks(p) < LowValues /\ SealedSize(p) \in Nat
           /\ \A b \in 0 .. Blocks(p) - 1 :
                 /\ BlockBytes(p, b) \in 1 .. BlockData
                 /\ b * BlockData + BlockBytes(p, b) <= PartSizes[p + 1]
                 /\ b * BlockData < PartSizes[p + 1]
                 /\ b + 1 < Blocks(p) =>
                       BlockBytes(p, b) = BlockData /\ BlockEnd(p, b) = BlockAt(b + 1)
                 /\ b + 1 = Blocks(p) => /\ BlockEnd(p, b) = SealedSize(p)
                                         /\ b * BlockData + BlockBytes(p, b)
                                            = PartSizes[p + 1]
                 /\ BlockEnd(p, b) <= SealedSize(p)
  <1>1. PICK h \in Nat \ {0}, t \in Nat \ {0}, d \in Nat \ {0}, z \in Nat \ {0} :
          h = HeaderSize /\ t = TagSize /\ d = BlockData /\ z = PartSizes[p + 1]
    BY SealedSizesAre, PartIs
  <1>2. PICK n \in Nat, r \in 0 .. d - 1 : n = (z + d - 1) \div d /\ z + d - 1 = d * n + r
    <2>1. z + d - 1 \in Nat
      OBVIOUS
    <2> QED BY <2>1, Division
  <1>3. n = Blocks(p)
    BY <1>1, <1>2 DEF Blocks
  <1>4. n # 0
    <2>1. d * 0 = 0
      OBVIOUS
    <2> QED BY <2>1, <1>2
  <1>5. PICK w \in Nat : w = d * (n - 1) /\ w < z /\ z <= w + d /\ d * n = w + d
    <2>1. d * n = d * (n - 1) + d /\ d * (n - 1) \in Nat
      <3>1. PICK m \in Nat : m = n - 1 /\ n = m + 1
        <4>1. n - 1 \in Nat /\ n = (n - 1) + 1
          BY <1>4
        <4> QED BY <4>1
      <3>2. d * (m + 1) = d * m + d /\ d * m \in Nat
        OBVIOUS
      <3> QED BY <3>1, <3>2
    <2>2. PICK w \in Nat, v \in Nat : w = d * (n - 1) /\ v = d * n /\ v = w + d
      BY <2>1
    <2> QED BY <2>2, <1>2
  <1>6. PICK size \in Nat : size = SealedSize(p) /\ size = h + n * t + z
    <2>1. n * t \in Nat
      OBVIOUS
    <2> QED BY <2>1, <1>1, <1>3 DEF SealedSize
  <1>7. ASSUME NEW b \in 0 .. n - 1
        PROVE  /\ BlockBytes(p, b) \in 1 .. d /\ b * d + BlockBytes(p, b) <= z
               /\ b * d < z
               /\ b + 1 < n => BlockBytes(p, b) = d /\ BlockEnd(p, b) = BlockAt(b + 1)
               /\ b + 1 = n => BlockEnd(p, b) = size /\ b * d + BlockBytes(p, b) = z
               /\ BlockEnd(p, b) <= size
    <2>1. PICK x \in Nat, y \in Nat, at \in Nat :
            x = b * d /\ y = b * t /\ at = BlockAt(b) /\ at = h + y + x
            /\ BlockAt(b + 1) = at + t + d
      <3>1. b \in Nat
        OBVIOUS
      <3>2. PICK x \in Nat, y \in Nat, at \in Nat, s \in Nat :
              x = b * d /\ y = b * t /\ at = BlockAt(b) /\ s = b * BlockSize /\ s = y + x
              /\ BlockAt(b + 1) = at + BlockSize /\ BlockSize = t + d
        <4>1. /\ BlockAt(b) \in Nat /\ b * BlockSize = b * TagSize + b * BlockData
              /\ b * BlockSize \in Nat /\ b * TagSize \in Nat /\ b * BlockData \in Nat
              /\ BlockAt(b + 1) = BlockAt(b) + BlockSize /\ BlockSize = TagSize + BlockData
          BY <3>1, SealedSizesAre
        <4> QED BY <4>1, <1>1
      <3>3. at = h + s
        BY <3>2, <1>1 DEF BlockAt
      <3> QED BY <3>2, <3>3
    <2>2. CASE b + 1 < n
      <3>1. d * b + d <= d * (n - 1) /\ d * b = b * d
        <4>1. b < n - 1 /\ b \in Int /\ n - 1 \in Int
          BY <2>2
        <4> QED BY <4>1, ProductOrder
      <3>2. x + d <= w
        BY <3>1, <2>1, <1>5
      <3>3. BlockBytes(p, b) = d
        <4>1. d <= z - x
          BY <3>2, <1>5
        <4> QED BY <4>1, <2>1, <1>1 DEF BlockBytes, LesserOf
      <3>4. BlockEnd(p, b) = at + t + d
        BY <3>3, <2>1, <1>1 DEF BlockEnd
      <3>5. at + t + d <= size
        <4>1. t * b + t <= t * n /\ t * b = b * t /\ t * n = n * t /\ n * t \in Nat
          <5>1. b < n /\ b \in Int /\ n \in Int
            OBVIOUS
          <5> QED BY <5>1, ProductOrder
        <4>2. PICK u \in Nat : u = n * t /\ y + t <= u
          BY <4>1, <2>1
        <4> QED BY <4>2, <3>2, <2>1, <1>5, <1>6
      <3> QED BY <3>2, <3>3, <3>4, <3>5, <2>1, <2>2, <1>5
    <2>3. CASE b + 1 = n
      <3>1. b = n - 1 /\ x = w
        <4>1. b = n - 1
          BY <2>3
        <4>2. b * d = d * b
          OBVIOUS
        <4> QED BY <4>1, <4>2, <2>1, <1>5
      <3>2. BlockBytes(p, b) = z - x
        BY <3>1, <2>1, <1>1, <1>5 DEF BlockBytes, LesserOf
      <3>3. BlockEnd(p, b) = at + t + (z - x)
        BY <3>2, <2>1, <1>1 DEF BlockEnd
      <3>4. n * t = y + t
        <4>1. (b + 1) * t = b * t + t
          OBVIOUS
        <4> QED BY <4>1, <2>1, <2>3
      <3>5. at + t + (z - x) = size
        BY <3>4, <2>1, <1>6
      <3> QED BY <3>1, <3>2, <3>3, <3>5, <2>1, <2>3, <1>5
    <2> QED BY <2>2, <2>3
  <1>8. n < LowValues
    BY <1>3, CountAssumption
  <1> QED BY <1>1, <1>3, <1>4, <1>6, <1>7, <1>8

(* A sealed part holds its header, and then the bytes of its blocks.         *)
LEMMA SealedIs ==
    ASSUME NEW p \in Parts, NEW n \in Nonces, NEW S, S = Sealed[p][n]
    PROVE  /\ S \in Seq(Bytes) /\ Len(S) = SealedSize(p)
           /\ \A i \in 1 .. HeaderSize : S[i] = HeaderByte(i)
           /\ \A b \in 0 .. Blocks(p) - 1 : \A j \in 1 .. TagSize + BlockBytes(p, b) :
                 S[BlockAt(b) + j] = SealedByte(p, n, b, j)
  <1>1. PICK h \in Nat \ {0}, t \in Nat \ {0}, d \in Nat \ {0}, z \in Nat \ {0} :
          h = HeaderSize /\ t = TagSize /\ d = BlockData /\ z = PartSizes[p + 1]
          /\ BlockSize = t + d
    BY SealedSizesAre, PartIs
  <1>2. PICK size \in Nat : size = SealedSize(p) /\ h <= size
    <2>1. Blocks(p) * TagSize \in Nat
      BY BlocksFollow, SealedSizesAre
    <2> QED BY <2>1, <1>1 DEF SealedSize
  <1> DEFINE Byte(w, i) == IF w < 0 THEN HeaderByte(i)
                           ELSE SealedByte(p, n, w \div BlockSize, (w % BlockSize) + 1)
  <1>3. \A i \in 1 .. size : S[i] = Byte(i - h - 1, i)
    <2>1. \A i \in 1 .. SealedSize(p) : S[i] = Byte(i - HeaderSize - 1, i)
      BY DEF Sealed, SealedSize
    <2> QED BY <2>1, <1>1, <1>2
  <1>4. S \in Seq(Bytes) /\ Len(S) = size
    <2>1. DOMAIN S = 1 .. size /\ S = [i \in 1 .. size |-> S[i]]
      <3>1. DOMAIN S = 1 .. SealedSize(p) /\ S = [i \in 1 .. SealedSize(p) |-> S[i]]
        BY DEF Sealed, SealedSize
      <3> QED BY <3>1, <1>2
    <2> DEFINE X == {Plain[q] : q \in Parts}
                    \cup UNION {{Sealed[q][m] : m \in Nonces} : q \in Parts}
    <2>2. S \in X
      <3>1. S \in {Sealed[p][m] : m \in Nonces}
        OBVIOUS
      <3>2. {Sealed[p][m] : m \in Nonces} \in {{Sealed[q][m] : m \in Nonces} : q \in Parts}
        OBVIOUS
      <3> QED BY <3>1, <3>2
    <2>3. Bytes = UNION {{u[i] : i \in DOMAIN u} : u \in X}
      BY DEF Bytes
    <2> HIDE DEF X
    <2>4. ASSUME NEW i \in DOMAIN S PROVE S[i] \in Bytes
      <3>1. S[i] \in {S[j] : j \in DOMAIN S}
        OBVIOUS
      <3>2. {S[j] : j \in DOMAIN S} \in {{u[j] : j \in DOMAIN u} : u \in X}
        BY <2>2
      <3> QED BY <3>1, <3>2, <2>3
    <2>5. S \in [1 .. size -> Bytes]
      BY <2>1, <2>4
    <2> QED BY <2>5
  <1>5. ASSUME NEW i \in 1 .. h PROVE S[i] = HeaderByte(i)
    <2>1. i \in 1 .. size /\ i - h - 1 < 0
      BY <1>1, <1>2
    <2>2. PICK w \in Int : w = i - h - 1 /\ w < 0
      BY <2>1, <1>1
    <2>3. Byte(w, i) = HeaderByte(i)
      BY <2>2 DEF Byte
    <2> QED BY <2>1, <2>2, <2>3, <1>3
  <1>6. ASSUME NEW b \in 0 .. Blocks(p) - 1, NEW j \in 1 .. TagSize + BlockBytes(p, b)
        PROVE  S[BlockAt(b) + j] = SealedByte(p, n, b, j)
    <2>1. PICK y \in 1 .. d : y = BlockBytes(p, b) /\ BlockEnd(p, b) <= size /\ b \in Nat
      BY <1>1, <1>2, BlocksFollow
    <2>2. PICK x \in Nat, at \in Nat : x = b * BlockSize /\ at = BlockAt(b) /\ at = h + x
      <3>1. b * BlockSize \in Nat
        BY <2>1, SealedSizesAre
      <3> QED BY <3>1, <1>1 DEF BlockAt
    <2>3. PICK k \in 1 .. t + d : k = j /\ k <= t + y
      BY <2>1, <1>1
    <2>4. at + k \in 1 .. size
      <3>1. at + t + y <= size
        BY <2>1, <2>2, <1>1 DEF BlockEnd
      <3> QED BY <3>1, <2>3
    <2>5. at + k - h - 1 = x + (k - 1) /\ x + (k - 1) \in Nat /\ ~(x + (k - 1) < 0)
      BY <2>2, <2>3
    <2>6. (x + (k - 1)) \div BlockSize = b /\ (x + (k - 1)) % BlockSize = k - 1
      <3>1. PICK B \in Nat \ {0} : B = BlockSize /\ B = t + d
        BY <1>1
      <3>2. x + (k - 1) = B * b + (k - 1) /\ k - 1 \in 0 .. B - 1
        <4>1. b * B = B * b /\ x = b * B
          BY <2>1, <2>2, <3>1
        <4>2. PICK u \in Nat : u = B * b /\ u = x
          BY <4>1, <2>2
        <4>3. x + (k - 1) = u + (k - 1)
          BY <4>2
        <4> QED BY <4>2, <4>3, <3>1, <2>3
      <3>3. PICK q \in Nat : q = b
        BY <2>1
      <3>4. PICK w \in Nat, r \in 0 .. B - 1 : w = x + (k - 1) /\ r = k - 1 /\ w = B * q + r
        BY <3>2, <3>3, <2>5
      <3>5. DividesInto(w, B, q, r)
        BY <3>4, DivisionIs
      <3> QED BY <3>1, <3>3, <3>4, <3>5 DEF DividesInto
    <2>7. S[at + k] = SealedByte(p, n, b, (k - 1) + 1)
      <3>1. S[at + k] = Byte(at + k - h - 1, at + k)
        <4>1. PICK i \in 1 .. size : i = at + k
          BY <2>4
        <4> QED BY <4>1, <1>3
      <3>2. PICK w \in Nat : w = x + (k - 1) /\ w = at + k - h - 1 /\ ~(w < 0)
        BY <2>5
      <3>3. Byte(w, at + k) = SealedByte(p, n, w \div BlockSize, (w % BlockSize) + 1)
        BY <3>2 DEF Byte
      <3>4. w \div BlockSize = b /\ w % BlockSize = k - 1
        BY <3>2, <2>6
      <3> QED BY <3>1, <3>2, <3>3, <3>4
    <2>8. (k - 1) + 1 = k
      OBVIOUS
    <2> QED BY <2>2, <2>3, <2>7, <2>8
  <1> QED BY <1>1, <1>2, <1>4, <1>5, <1>6

(* A whole block opens under the nonce it was sealed with, to the bytes of   *)
(* the file from its first one on.                                           *)
LEMMA BlockOpens ==
    ASSUME NEW p \in Parts, NEW n \in Nonces, NEW b \in 0 .. Blocks(p) - 1,
           NEW raw, Slice(Sealed[p][n], raw, BlockAt(b), BlockEnd(p, b)),
           NEW data, data = Open(p, NonceOf(n, b), raw)
    PROVE  /\ Len(raw) = TagSize + BlockBytes(p, b)
           /\ Run(data, PartStart(p) + b * BlockData,
                        PartStart(p) + b * BlockData + BlockBytes(p, b))
  <1>1. PICK t \in Nat \ {0}, d \in Nat \ {0}, z \in Nat \ {0}, base \in Nat :
          t = TagSize /\ d = BlockData /\ z = PartSizes[p + 1] /\ base = PartStart(p)
    BY SealedSizesAre, PartIs
  <1>2. PICK y \in 1 .. d, x \in Nat, at \in Nat :
          y = BlockBytes(p, b) /\ x = b * d /\ at = BlockAt(b) /\ BlockEnd(p, b) = at + t + y
          /\ x + y <= z
    <2>1. b \in Nat
      OBVIOUS
    <2>2. BlockBytes(p, b) \in 1 .. d /\ b * BlockData + BlockBytes(p, b) <= z
      BY <1>1, BlocksFollow
    <2>3. b * BlockData \in Nat /\ BlockAt(b) \in Nat
      BY <2>1, SealedSizesAre
    <2> QED BY <2>2, <2>3, <1>1 DEF BlockEnd
  <1>3. PICK S : S = Sealed[p][n]
    OBVIOUS
  <1>4. \A j \in 1 .. t + y : S[at + j] = SealedByte(p, n, b, j)
    <2>1. \A j \in 1 .. TagSize + BlockBytes(p, b) :
            S[BlockAt(b) + j] = SealedByte(p, n, b, j)
      BY <1>3, SealedIs
    <2>2. BlockAt(b) = at /\ TagSize + BlockBytes(p, b) = t + y
      BY <1>1, <1>2
    <2> QED BY <2>1, <2>2
  <1>5. Slice(S, raw, at, at + t + y) /\ at \in Int /\ at + t + y \in Int
    BY <1>2, <1>3
  <1>6. Len(raw) = t + y /\ DOMAIN raw = 1 .. t + y /\ \A j \in 1 .. t + y : raw[j] = S[at + j]
    <2>1. /\ Len(raw) = (at + t + y) - at /\ DOMAIN raw = 1 .. (at + t + y) - at
          /\ \A j \in 1 .. (at + t + y) - at : raw[j] = S[at + j]
      BY <1>5, SliceIs
    <2>2. (at + t + y) - at = t + y
      OBVIOUS
    <2> QED BY <2>1, <2>2
  <1>7. \A j \in 1 .. t + y :
           raw[j] = <<p, NonceOf(n, b), j, y, IF j <= t THEN -1 ELSE Plain[p][x + j - t]>>
    <2>1. \A j \in 1 .. t + y :
             SealedByte(p, n, b, j)
             = <<p, NonceOf(n, b), j, y, IF j <= t THEN -1 ELSE Plain[p][x + j - t]>>
      BY <1>1, <1>2 DEF SealedByte, BlockBytes
    <2> QED BY <2>1, <1>4, <1>6
  <1>8. \A j \in DOMAIN raw : /\ raw[j][1] = p /\ raw[j][2] = NonceOf(n, b)
                              /\ raw[j][3] = j /\ raw[j][4] = y
    BY <1>6, <1>7
  <1>9. data = [i \in 1 .. y |-> raw[t + i][5]]
    <2>1. Len(raw) - TagSize = y
      BY <1>1, <1>6
    <2>2. data = [i \in 1 .. Len(raw) - TagSize |->
                    IF \A j \in DOMAIN raw :
                          /\ raw[j][1] = p /\ raw[j][2] = NonceOf(n, b)
                          /\ raw[j][3] = j /\ raw[j][4] = Len(raw) - TagSize
                    THEN raw[TagSize + i][5] ELSE -1]
      BY DEF Open
    <2>3. \A j \in DOMAIN raw : /\ raw[j][1] = p /\ raw[j][2] = NonceOf(n, b)
                                /\ raw[j][3] = j /\ raw[j][4] = Len(raw) - TagSize
      BY <2>1, <1>8
    <2>4. data = [i \in 1 .. Len(raw) - TagSize |-> raw[TagSize + i][5]]
      <3> HIDE <2>1
      <3> QED BY <2>2, <2>3, Zenon
    <2> QED BY <2>1, <2>4, <1>1
  <1>10. \A i \in 1 .. y : raw[t + i][5] = (base + x) + i - 1
    <2>1. ASSUME NEW i \in 1 .. y PROVE raw[t + i][5] = (base + x) + i - 1
      <3>1. t + i \in 1 .. t + y /\ ~(t + i <= t) /\ x + (t + i) - t = x + i
            /\ x + i \in 1 .. z /\ base + (x + i) - 1 = (base + x) + i - 1
        BY <1>2
      <3>2. raw[t + i] = <<p, NonceOf(n, b), t + i, y, Plain[p][x + i]>>
        BY <3>1, <1>7
      <3>3. raw[t + i][5] = Plain[p][x + i]
        BY <3>2
      <3>4. Plain[p][x + i] = base + (x + i) - 1
        BY <3>1, <1>1, PlainIs
      <3> QED BY <3>1, <3>3, <3>4
    <2> QED BY <2>1
  <1>11. Run(data, base + x, base + x + y)
    <2>1. data = [i \in 1 .. y |-> (base + x) + i - 1]
      BY <1>9, <1>10
    <2>2. data \in Seq(Int) /\ Len(data) = y /\ \A i \in 1 .. y : data[i] = (base + x) + i - 1
      BY <2>1
    <2>3. y = (base + x + y) - (base + x)
      OBVIOUS
    <2> QED BY <2>2, <2>3 DEF Run
  <1> QED BY <1>1, <1>2, <1>6, <1>11

(* The blocks that a range covers, and where reading them ends.              *)
LEMMA RangeBlocks ==
    ASSUME NEW p \in Parts, NEW s \in Nat, NEW e \in Nat, s <= e, e < PartSizes[p + 1]
    PROVE  /\ FirstBlock(s) \in 0 .. Blocks(p) - 1 /\ FirstBlock(e) \in 0 .. Blocks(p) - 1
           /\ FirstBlock(s) <= FirstBlock(e)
           /\ FirstBlock(s) * BlockData + (s % BlockData) = s /\ s % BlockData \in Nat
           /\ s < FirstBlock(s) * BlockData + BlockBytes(p, FirstBlock(s))
           /\ FirstBlock(e) * BlockData <= e
           /\ e < FirstBlock(e) * BlockData + BlockBytes(p, FirstBlock(e))
           /\ BlockAt(FirstBlock(s)) + UnderlyingLimit(s, e - s + 1)
              = BlockAt(FirstBlock(e) + 1)
           /\ UnderlyingLimit(s, e - s + 1) \in Nat
           /\ (FirstBlock(s) = 0) <=> (s < BlockData)
  <1>1. PICK d \in Nat \ {0}, t \in Nat \ {0}, z \in Nat \ {0}, n \in Nat \ {0} :
          d = BlockData /\ t = TagSize /\ z = PartSizes[p + 1] /\ n = Blocks(p) /\ e < z
    BY SealedSizesAre, PartIs, BlocksFollow
  <1>2. PICK q \in Nat, a \in 0 .. d - 1 : q = s \div d /\ a = s % d /\ s = d * q + a
    BY Division
  <1>3. PICK k \in Nat, r \in 0 .. d - 1 : k = e \div d /\ r = e % d /\ e = d * k + r
    BY Division
  <1>4. PICK x \in Nat, y \in Nat :
          x = d * q /\ y = d * k /\ s = x + a /\ e = y + r
    BY <1>2, <1>3
  <1>5. q <= k
    <2>1. SUFFICES ASSUME k < q PROVE FALSE
      OBVIOUS
    <2>2. y + d <= x
      BY <2>1, <1>4, ProductOrder
    <2> QED BY <2>2, <1>2, <1>3, <1>4
  <1>6. k \in 0 .. n - 1
    <2>1. n - 1 \in 0 .. Blocks(p) - 1
      BY <1>1
    <2>2. (n - 1) * BlockData + BlockBytes(p, n - 1) = z /\ BlockBytes(p, n - 1) \in 1 .. d
      <3>1. (n - 1) + 1 = Blocks(p)
        BY <1>1
      <3> QED BY <3>1, <2>1, <1>1, BlocksFollow
    <2>3. PICK w \in Nat : w = (n - 1) * d /\ w = d * (n - 1) /\ z <= w + d
      <3>1. (n - 1) * d \in Nat /\ (n - 1) * d = d * (n - 1)
        <4>1. PICK m \in Nat : m = n - 1
          OBVIOUS
        <4>2. m * d \in Nat /\ m * d = d * m
          OBVIOUS
        <4> QED BY <4>1, <4>2
      <3> QED BY <3>1, <2>2, <1>1
    <2>4. SUFFICES ASSUME n - 1 < k PROVE FALSE
      OBVIOUS
    <2>5. w + d <= y
      BY <2>3, <2>4, <1>4, ProductOrder
    <2> QED BY <2>3, <2>5, <1>1, <1>3, <1>4
  <1>7. q \in 0 .. n - 1
    BY <1>5, <1>6
  <1>8. ASSUME NEW b \in 0 .. n - 1, NEW o \in 0 .. d - 1, d * b + o < z
        PROVE  d * b + o < b * d + BlockBytes(p, b)
    <2>1. b * d = d * b /\ d * b \in Nat
      OBVIOUS
    <2>2. CASE b + 1 < n
      <3>1. BlockBytes(p, b) = d
        BY <2>2, <1>1, BlocksFollow
      <3> QED BY <3>1, <2>1
    <2>3. CASE b + 1 = n
      <3>1. b * BlockData + BlockBytes(p, b) = z /\ BlockBytes(p, b) \in 1 .. d
        BY <2>3, <1>1, BlocksFollow
      <3> QED BY <3>1, <2>1, <1>1, <1>8
    <2> QED BY <2>2, <2>3
  <1>9. UnderlyingLimit(s, e - s + 1) = BlockSize * (k - q + 1)
    <2> DEFINE beyond == (e - s + 1) - (d - a)
    <2>1. beyond = e + 1 - (x + d)
      BY <1>2, <1>4
    <2>2. UnderlyingLimit(s, e - s + 1)
          = BlockSize * (IF beyond > 0 THEN 1 + (beyond + d - 1) \div d ELSE 1)
      BY <1>1, <1>2 DEF UnderlyingLimit
    <2>3. CASE beyond > 0
      <3>1. q < k
        <4>1. SUFFICES ASSUME q = k PROVE FALSE
          BY <1>5
        <4>2. x = y
          BY <4>1, <1>4
        <4>3. e = x + r /\ r \in 0 .. d - 1
          BY <4>2, <1>4
        <4>4. e + 1 - (x + d) <= 0
          BY <4>3
        <4> HIDE DEF beyond
        <4> QED BY <4>4, <2>1, <2>3
      <3>2. d * (k - q) = y - x /\ k - q \in Nat
        <4>1. d * (k - q) = d * k - d * q
          BY <1>5
        <4> QED BY <4>1, <1>4, <1>5
      <3>3. beyond + d - 1 = d * (k - q) + r /\ beyond + d - 1 \in Nat
        BY <3>2, <2>1, <2>3, <1>3, <1>4
      <3>4. (beyond + d - 1) \div d = k - q
        <4> HIDE DEF beyond
        <4> QED BY <3>2, <3>3, QuotientIs
      <3>5. 1 + (k - q) = k - q + 1
        OBVIOUS
      <3> QED BY <3>4, <3>5, <2>2, <2>3
    <2>4. CASE ~(beyond > 0)
      <3>1. q = k
        <4>1. SUFFICES ASSUME q < k PROVE FALSE
          BY <1>5
        <4>2. x + d <= y
          BY <4>1, <1>4, ProductOrder
        <4> QED BY <4>2, <2>1, <2>4, <1>3, <1>4
      <3>2. k - q + 1 = 1
        BY <3>1
      <3> QED BY <3>2, <2>2, <2>4
    <2> QED BY <2>3, <2>4
  <1>10. BlockAt(q) + BlockSize * (k - q + 1) = BlockAt(k + 1)
    <2>1. PICK B \in Nat, h \in Nat : B = BlockSize /\ h = HeaderSize
      BY SealedSizesAre
    <2>2. q * B + B * (k - q + 1) = (k + 1) * B /\ q * B \in Nat /\ B * (k - q + 1) \in Int
          /\ (k + 1) * B \in Nat
      <3>1. B * (k - q + 1) = B * k - B * q + B
        OBVIOUS
      <3>2. q * B = B * q /\ (k + 1) * B = B * k + B /\ B * q \in Nat /\ B * k \in Nat
        OBVIOUS
      <3> QED BY <3>1, <3>2
    <2>3. h + q * B + B * (k - q + 1) = h + (k + 1) * B
      BY <2>2
    <2> QED BY <2>1, <2>3 DEF BlockAt
  <1>11. (q = 0) <=> (s < d)
    <2>1. q = 0 => x = 0
      BY <1>4
    <2>2. q # 0 => d <= x
      <3>1. SUFFICES ASSUME 0 < q PROVE d <= x
        OBVIOUS
      <3>2. d * 0 + d <= d * q /\ d * 0 = 0
        BY <3>1, ProductOrder
      <3> QED BY <3>2, <1>4
    <2> QED BY <2>1, <2>2, <1>2, <1>4
  <1>12. q * d + a = s /\ k * d <= e /\ a \in Nat
    <2>1. q * d = d * q /\ k * d = d * k
      OBVIOUS
    <2> QED BY <2>1, <1>2, <1>3, <1>4
  <1>13. s < q * d + BlockBytes(p, q) /\ e < k * d + BlockBytes(p, k)
    <2>1. d * q + a < z
      BY <1>1, <1>2
    <2>2. d * q + a < q * d + BlockBytes(p, q)
      BY <2>1, <1>7, <1>8
    <2>3. d * k + r < k * d + BlockBytes(p, k)
      BY <1>1, <1>3, <1>6, <1>8
    <2> QED BY <2>2, <2>3, <1>2, <1>3
  <1>14. q = FirstBlock(s) /\ k = FirstBlock(e)
    BY <1>1, <1>2, <1>3 DEF FirstBlock
  <1>15. BlockSize * (k - q + 1) \in Nat
    <2>1. PICK B \in Nat, w \in Nat : B = BlockSize /\ w = k - q + 1
      BY <1>5, SealedSizesAre
    <2> QED BY <2>1
  <1>16. BlockAt(q) + UnderlyingLimit(s, e - s + 1) = BlockAt(k + 1)
         /\ UnderlyingLimit(s, e - s + 1) \in Nat
    BY <1>9, <1>10, <1>15
  <1>17. /\ q * BlockData + (s % BlockData) = s /\ s % BlockData \in Nat
         /\ s < q * BlockData + BlockBytes(p, q)
         /\ k * BlockData <= e /\ e < k * BlockData + BlockBytes(p, k)
         /\ (q = 0) <=> (s < BlockData)
    BY <1>1, <1>2, <1>11, <1>12, <1>13
  <1>18. q \in 0 .. Blocks(p) - 1 /\ k \in 0 .. Blocks(p) - 1 /\ q <= k
    BY <1>1, <1>5, <1>6, <1>7
  <1> QED BY <1>14, <1>16, <1>17, <1>18

(* The end of the reader's range is that of a block.                         *)
LEMMA BlockEndIs ==
    ASSUME NEW p \in Parts, NEW b \in 0 .. Blocks(p) - 1
    PROVE  /\ BlockEnd(p, b) \in Nat /\ BlockAt(b) + TagSize < BlockEnd(p, b)
           /\ BlockEnd(p, b) <= BlockAt(b) + BlockSize
           /\ LesserOf(SealedSize(p) - 1, BlockAt(b + 1) - 1) = BlockEnd(p, b) - 1
  <1>1. PICK d \in Nat \ {0}, t \in Nat \ {0}, y \in 1 .. BlockData, at \in Nat, size \in Nat :
          d = BlockData /\ t = TagSize /\ y = BlockBytes(p, b) /\ at = BlockAt(b)
          /\ size = SealedSize(p) /\ BlockEnd(p, b) <= size
    <2>1. b \in Nat /\ BlockAt(b) \in Nat
      BY SealedSizesAre
    <2> QED BY <2>1, SealedSizesAre, BlocksFollow
  <1>2. BlockEnd(p, b) = at + t + y /\ y <= d /\ BlockSize = t + d
    BY <1>1, SealedSizesAre DEF BlockEnd
  <1>3. BlockAt(b + 1) = at + t + d
    <2>1. b \in Nat /\ BlockAt(b + 1) = BlockAt(b) + BlockSize
      BY SealedSizesAre
    <2> QED BY <2>1, <1>1, <1>2
  <1>4. CASE b + 1 < Blocks(p)
    <2>1. BlockEnd(p, b) = BlockAt(b + 1)
      BY <1>4, BlocksFollow
    <2> QED BY <2>1, <1>1, <1>2, <1>3 DEF LesserOf
  <1>5. CASE b + 1 = Blocks(p)
    <2>1. BlockEnd(p, b) = size
      BY <1>1, <1>5, BlocksFollow
    <2> QED BY <2>1, <1>1, <1>2, <1>3 DEF LesserOf
  <1>6. Blocks(p) \in Nat
    BY BlocksFollow
  <1> QED BY <1>4, <1>5, <1>6

-----------------------------------------------------------------------------
(* What holds of the reader and the decrypter of a part c of the range, when *)
(* byte x of the part is the next one to send                                *)

PartRange(c) ==
    RangeOf(c) /\ c.part \in Parts /\ c.end < PartSizes[c.part + 1]

Content(e, n, p) == IF e THEN Sealed[p][n] ELSE Plain[p]

(* A reader m of the range u of what is stored of the part.                  *)
Reading(S, c, u, m) ==
    RangeOf(u) /\ u.part = c.part /\ u.end < Len(S) /\ ReaderRight(S, u, m)

(* Reading blocks ends with that of the last byte.                           *)
RangeEnd(c) == BlockEnd(c.part, FirstBlock(c.end))
Covers(c) == FirstBlock(c.start) .. FirstBlock(c.end)

(* The header is read, in as many reads as it takes.                         *)
HeaderRight(S, c, u, at, d, x) ==
    /\ d.pc = "header" /\ d.buf = <<>>
    /\ Slice(S, d.raw, 0, at) /\ at <= HeaderSize
    /\ x = c.start /\ d.limit = c.end - c.start + 1
    /\ u.end + 1 = IF c.start # 0 THEN HeaderSize ELSE RangeEnd(c)

(* Block b is read, and the nonce is the one it was sealed with.             *)
FillsRight(S, n, c, u, at, d, x) ==
    /\ d.pc \in {"seek", "data"} /\ d.buf = <<>>
    /\ u.end + 1 = RangeEnd(c) /\ d.limit = (c.end + 1) - x
    /\ \E b \in Covers(c) :
          /\ d.nonce = NonceOf(n, b)
          /\ Slice(S, d.raw, BlockAt(b), at) /\ Len(d.raw) <= BlockSize
          /\ IF d.pc = "seek" THEN b = FirstBlock(c.start) /\ x = c.start
             ELSE x = b * BlockData

(* Block b has been opened, and what is left of it follows what was sent.    *)
HoldsRight(n, c, u, at, d, x) ==
    /\ d.pc = "data" /\ d.raw = <<>> /\ d.buf # <<>>
    /\ u.end + 1 = RangeEnd(c) /\ d.limit = (c.end + 1) - x
    /\ \E b \in Covers(c) :
          /\ d.nonce = NonceOf(n, b + 1) /\ at = BlockEnd(c.part, b)
          /\ Run(d.buf, PartStart(c.part) + x,
                        PartStart(c.part) + b * BlockData + BlockBytes(c.part, b))

DecShape(d) == \E pc, nonce, raw, buf, limit :
    d = [pc |-> pc, nonce |-> nonce, raw |-> raw, buf |-> buf, limit |-> limit]

DecRight(e, n, c, u, at, d, x) ==
    IF e THEN /\ DecShape(d)
              /\ \/ HeaderRight(Sealed[c.part][n], c, u, at, d, x)
                 \/ FillsRight(Sealed[c.part][n], n, c, u, at, d, x)
                 \/ HoldsRight(n, c, u, at, d, x)
    ELSE d.pc = "none" /\ u = c /\ at = x

PartRight(e, n, c, m, d, x) ==
    \E u : /\ Reading(Content(e, n, c.part), c, u, m)
           /\ DecRight(e, n, c, u, (u.end + 1) - m.limit, d, x)

(* The size of what is stored for a part.                                    *)
LEMMA ContentIs ==
    ASSUME NEW p \in Parts, NEW n \in Nonces, NEW e \in BOOLEAN,
           NEW S, S = Content(e, n, p)
    PROVE  /\ S \in Seq(Bytes) /\ Len(S) \in Nat \ {0}
           /\ Len(S) = IF e THEN SealedSize(p) ELSE PartSizes[p + 1]
  <1>1. CASE e
    <2>1. S = Sealed[p][n]
      BY <1>1 DEF Content
    <2>2. S \in Seq(Bytes) /\ Len(S) = SealedSize(p)
      BY <2>1, SealedIs
    <2>3. SealedSize(p) \in Nat \ {0}
      <3>1. PICK h \in Nat \ {0}, t \in Nat \ {0}, k \in Nat, z \in Nat \ {0} :
              h = HeaderSize /\ t = TagSize /\ k = Blocks(p) /\ z = PartSizes[p + 1]
        BY SealedSizesAre, BlocksFollow, PartIs
      <3>2. k * t \in Nat
        OBVIOUS
      <3> QED BY <3>1, <3>2 DEF SealedSize
    <2> QED BY <2>2, <2>3, <1>1
  <1>2. CASE ~e
    <2>1. S = Plain[p]
      BY <1>2 DEF Content
    <2>2. S \in Seq(Bytes) /\ Len(S) = PartSizes[p + 1]
      BY <2>1, PlainIs
    <2> QED BY <2>2, <1>2, PartIs
  <1> QED BY <1>1, <1>2

(* What is stored for a part, named by what it depends on.                   *)
LEMMA StoredIs == \A p : Stored(p) = Content(enc, nonce0, p)
  BY DEF Stored, Content

(* The nonce of the first block, and of the next one.                        *)
LEMMA NextNonce ==
    ASSUME NEW n \in Nonces, NEW p \in Parts, NEW b \in 0 .. Blocks(p) - 1
    PROVE  /\ NonceOf(n, 0) = n
           /\ AddTo(n, b) = NonceOf(n, b)
           /\ Increment(NonceOf(n, b)) = NonceOf(n, b + 1)
  <1>1. PICK k \in Nat : k = Blocks(p) /\ k < LowValues
    BY BlocksFollow
  <1>2. LowValues \in Nat
    BY LowValuesAre, BaseIs
  <1>3. b \in Nat /\ b + 1 \in Nat /\ b < LowValues /\ b + 1 < LowValues /\ 0 < LowValues
    BY <1>1, <1>2
  <1>4. n \in NonceType
    BY StreamAssumption DEF NonceType
  <1>5. NonceOf(n, b) = AddTo(n, b)
    BY <1>3, SeekReachesNonce
  <1>6. NonceOf(n, b + 1) = AddTo(n, b + 1)
    <2>1. PICK w \in Nat : w = b + 1 /\ w < LowValues
      BY <1>3
    <2> QED BY <2>1, SeekReachesNonce
  <1>7. AddTo(n, b + 1) = Increment(AddTo(n, b))
    BY <1>3, <1>4, AddOneMore
  <1>8. NonceOf(n, 0) = n
    <2>1. NonceOf(n, 0) = AddTo(n, 0)
      BY <1>3, SeekReachesNonce
    <2> QED BY <2>1, <1>4, AddNothing
  <1> QED BY <1>5, <1>6, <1>7, <1>8

(* The blocks of a range of a part, and where they are.                      *)
LEMMA CoversIs ==
    ASSUME NEW c, PartRange(c)
    PROVE  /\ FirstBlock(c.start) \in Covers(c) /\ FirstBlock(c.end) \in Covers(c)
           /\ Covers(c) \subseteq 0 .. Blocks(c.part) - 1
           /\ RangeEnd(c) \in Nat /\ RangeEnd(c) <= SealedSize(c.part)
           /\ \A b \in Covers(c) :
                 /\ BlockAt(b) \in Nat /\ BlockEnd(c.part, b) \in Nat
                 /\ HeaderSize <= BlockAt(b)
                 /\ BlockAt(b) + TagSize < BlockEnd(c.part, b)
                 /\ BlockEnd(c.part, b) <= BlockAt(b) + BlockSize
                 /\ BlockEnd(c.part, b) <= RangeEnd(c)
                 /\ b # FirstBlock(c.end) =>
                       /\ b + 1 \in Covers(c) /\ BlockEnd(c.part, b) = BlockAt(b + 1)
                       /\ BlockEnd(c.part, b) = BlockAt(b) + BlockSize
                       /\ BlockAt(b) + BlockSize < RangeEnd(c)
                       /\ BlockBytes(c.part, b) = BlockData
  <1>1. PICK p \in Parts, s \in Nat, e \in Nat :
          p = c.part /\ s = c.start /\ e = c.end /\ s <= e /\ e < PartSizes[p + 1]
    BY DEF PartRange, RangeOf
  <1>2. PICK k \in Nat \ {0} : k = Blocks(p)
    BY BlocksFollow
  <1>3. PICK first \in 0 .. k - 1, last \in 0 .. k - 1 :
          first <= last /\ first = FirstBlock(c.start) /\ last = FirstBlock(c.end)
    BY <1>1, <1>2, RangeBlocks
  <1>4. Covers(c) = first .. last /\ RangeEnd(c) = BlockEnd(p, last)
    BY <1>1, <1>3 DEF Covers, RangeEnd
  <1>5. \A b \in 0 .. k - 1 :
          /\ BlockAt(b) \in Nat /\ BlockEnd(p, b) \in Nat
          /\ BlockAt(b) + TagSize < BlockEnd(p, b)
          /\ BlockEnd(p, b) <= BlockAt(b) + BlockSize
          /\ BlockEnd(p, b) <= SealedSize(p)
          /\ b + 1 < k => /\ BlockBytes(p, b) = BlockData /\ BlockEnd(p, b) = BlockAt(b + 1)
                          /\ BlockEnd(p, b) = BlockAt(b) + BlockSize
    <2>1. ASSUME NEW b \in 0 .. k - 1
          PROVE  /\ BlockAt(b) \in Nat /\ BlockEnd(p, b) \in Nat
                 /\ BlockAt(b) + TagSize < BlockEnd(p, b)
                 /\ BlockEnd(p, b) <= BlockAt(b) + BlockSize
                 /\ BlockEnd(p, b) <= SealedSize(p)
                 /\ b + 1 < k => /\ BlockBytes(p, b) = BlockData
                                 /\ BlockEnd(p, b) = BlockAt(b + 1)
                                 /\ BlockEnd(p, b) = BlockAt(b) + BlockSize
      <3>1. b \in Nat /\ b \in 0 .. Blocks(p) - 1
        BY <1>2
      <3>2. BlockAt(b) \in Nat /\ BlockAt(b + 1) = BlockAt(b) + BlockSize
        BY <3>1, SealedSizesAre
      <3>3. /\ BlockEnd(p, b) \in Nat /\ BlockAt(b) + TagSize < BlockEnd(p, b)
            /\ BlockEnd(p, b) <= BlockAt(b) + BlockSize
        BY <3>1, BlockEndIs
      <3>4. /\ BlockEnd(p, b) <= SealedSize(p)
            /\ b + 1 < k => BlockBytes(p, b) = BlockData /\ BlockEnd(p, b) = BlockAt(b + 1)
        BY <3>1, <1>2, BlocksFollow
      <3> QED BY <3>2, <3>3, <3>4
    <2> QED BY <2>1
  <1>6. ASSUME NEW b \in 0 .. k - 1, NEW a \in 0 .. k - 1, b < a
        PROVE  BlockAt(b) + BlockSize <= BlockAt(a)
    <2>1. PICK B \in Nat \ {0}, h \in Nat : B = BlockSize /\ h = HeaderSize
      BY SealedSizesAre
    <2>2. b * B = B * b /\ a * B = B * a /\ B * b \in Nat /\ B * a \in Nat
      OBVIOUS
    <2>3. B * b + B <= B * a
      BY <1>6, ProductOrder
    <2>4. PICK y \in Nat, z \in Nat : y = b * B /\ z = a * B /\ y + B <= z
      BY <2>2, <2>3
    <2> QED BY <2>1, <2>4 DEF BlockAt
  <1>7. ASSUME NEW b \in first .. last
        PROVE  /\ b \in 0 .. k - 1 /\ HeaderSize <= BlockAt(b)
               /\ BlockEnd(p, b) <= BlockEnd(p, last)
               /\ b # last => /\ b + 1 \in first .. last /\ b + 1 < k
                              /\ BlockAt(b) + BlockSize < BlockEnd(p, last)
    <2>1. b \in 0 .. k - 1 /\ b \in Nat
      OBVIOUS
    <2>2. HeaderSize <= BlockAt(b)
      <3>1. PICK h \in Nat, w \in Nat : h = HeaderSize /\ w = b * BlockSize
        BY <2>1, SealedSizesAre
      <3> QED BY <3>1 DEF BlockAt
    <2>3. CASE b # last
      <3>1. b < last /\ b + 1 \in first .. last /\ b + 1 < k
        BY <2>3
      <3>2. BlockAt(b) + BlockSize <= BlockAt(last)
        BY <3>1, <2>1, <1>6
      <3>3. PICK x \in Nat, y \in Nat, v \in Nat, w \in Nat, B \in Nat, t \in Nat :
              /\ x = BlockAt(b) /\ y = BlockAt(last) /\ v = BlockEnd(p, b)
              /\ w = BlockEnd(p, last) /\ B = BlockSize /\ t = TagSize
              /\ y + t < w /\ v <= x + B
        <4>1. BlockSize \in Nat /\ TagSize \in Nat
          BY SealedSizesAre
        <4> QED BY <4>1, <2>1, <1>5
      <3> QED BY <3>1, <3>2, <3>3, <2>1, <2>2
    <2>4. CASE b = last
      <3>1. BlockEnd(p, b) \in Nat
        BY <2>1, <1>5
      <3> QED BY <3>1, <2>1, <2>2, <2>4
    <2> QED BY <2>3, <2>4
  <1>8. RangeEnd(c) \in Nat /\ RangeEnd(c) <= SealedSize(c.part)
    BY <1>1, <1>3, <1>4, <1>5
  <1>9. \A b \in Covers(c) :
          /\ BlockAt(b) \in Nat /\ BlockEnd(c.part, b) \in Nat
          /\ HeaderSize <= BlockAt(b)
          /\ BlockAt(b) + TagSize < BlockEnd(c.part, b)
          /\ BlockEnd(c.part, b) <= BlockAt(b) + BlockSize
          /\ BlockEnd(c.part, b) <= RangeEnd(c)
          /\ b # FirstBlock(c.end) =>
                /\ b + 1 \in Covers(c) /\ BlockEnd(c.part, b) = BlockAt(b + 1)
                /\ BlockEnd(c.part, b) = BlockAt(b) + BlockSize
                /\ BlockAt(b) + BlockSize < RangeEnd(c)
                /\ BlockBytes(c.part, b) = BlockData
    BY <1>1, <1>3, <1>4, <1>5, <1>7
  <1>10. Covers(c) \subseteq 0 .. Blocks(c.part) - 1
    BY <1>1, <1>2, <1>4
  <1>11. FirstBlock(c.start) \in Covers(c) /\ FirstBlock(c.end) \in Covers(c)
    BY <1>3, <1>4
  <1> QED BY <1>8, <1>9, <1>10, <1>11

(* The range of the reader that reads the blocks of a range of a part.       *)
LEMMA UnderlyingIs ==
    ASSUME NEW c, PartRange(c)
    PROVE  /\ UnderlyingLimit(c.start, c.end - c.start + 1) \in Nat
           /\ BlockAt(FirstBlock(c.start)) + UnderlyingLimit(c.start, c.end - c.start + 1)
              = BlockAt(FirstBlock(c.end) + 1)
           /\ LesserOf(SealedSize(c.part) - 1, BlockAt(FirstBlock(c.end) + 1) - 1)
              = RangeEnd(c) - 1
           /\ FirstBlock(c.start) * BlockData + (c.start % BlockData) = c.start
           /\ c.start % BlockData \in Nat
           /\ c.start < FirstBlock(c.start) * BlockData
                        + BlockBytes(c.part, FirstBlock(c.start))
           /\ FirstBlock(c.end) * BlockData <= c.end
           /\ c.end < FirstBlock(c.end) * BlockData + BlockBytes(c.part, FirstBlock(c.end))
           /\ c.start = 0 => FirstBlock(c.start) = 0
           /\ FirstBlock(c.end) \in Nat
  <1>1. PICK p \in Parts, s \in Nat, e \in Nat :
          p = c.part /\ s = c.start /\ e = c.end /\ s <= e /\ e < PartSizes[p + 1]
    BY DEF PartRange, RangeOf
  <1>2. PICK first \in 0 .. Blocks(p) - 1, last \in 0 .. Blocks(p) - 1 :
          first = FirstBlock(s) /\ last = FirstBlock(e)
    BY <1>1, RangeBlocks
  <1>3. /\ first * BlockData + (s % BlockData) = s /\ s % BlockData \in Nat
        /\ s < first * BlockData + BlockBytes(p, first)
        /\ last * BlockData <= e /\ e < last * BlockData + BlockBytes(p, last)
        /\ BlockAt(first) + UnderlyingLimit(s, e - s + 1) = BlockAt(last + 1)
        /\ UnderlyingLimit(s, e - s + 1) \in Nat
        /\ (first = 0) <=> (s < BlockData)
    BY <1>1, <1>2, RangeBlocks
  <1>4. LesserOf(SealedSize(p) - 1, BlockAt(last + 1) - 1) = BlockEnd(p, last) - 1
    BY BlockEndIs
  <1>5. s = 0 => first = 0
    BY <1>3, SealedSizesAre
  <1> QED BY <1>1, <1>2, <1>3, <1>4, <1>5 DEF RangeEnd

-----------------------------------------------------------------------------
(* Each step keeps the invariant and is one of a range transfer              *)

LEMMA PartsCovered ==
    ASSUME NEW r \in Transfer!Ranges, NEW i \in 1 .. Len(Ranges(r.start, r.end))
    PROVE  PartRange(Ranges(r.start, r.end)[i])
  BY RangesFollow DEF PartRange

(* A reader of the stored bytes from a to before b.                          *)
ReadsBetween(S, c, a, b, m) ==
    \E u : Reading(S, c, u, m) /\ u.end + 1 = b /\ (u.end + 1) - m.limit = a

LEMMA ReadingFrom ==
    ASSUME NEW S, NEW c, c.part \in Nat, NEW a \in Nat, NEW b \in Nat, a < b, b <= Len(S),
           NEW m, m = NewMultiReader(c.part, a, b - 1)
    PROVE  ReadsBetween(S, c, a, b, m)
  <1>1. PICK u : u = [part |-> c.part, start |-> a, end |-> b - 1]
    OBVIOUS
  <1>2. u.part = c.part /\ u.start = a /\ u.end = b - 1 /\ RangeOf(u)
    BY <1>1 DEF RangeOf
  <1>3. m = NewMultiReader(u.part, u.start, u.end)
    BY <1>2
  <1>4. ReaderRight(S, u, m) /\ m.limit = u.end - u.start + 1
    BY <1>2, <1>3, NewReaderRight
  <1>5. Reading(S, c, u, m)
    <2>1. Len(S) \in Int => b - 1 < Len(S)
      OBVIOUS
    <2>2. u.end < Len(S)
      BY <1>2
    <2> QED BY <1>2, <1>4, <2>2 DEF Reading
  <1>6. u.end + 1 = b /\ (u.end + 1) - m.limit = a
    <2>1. m.limit = (b - 1) - a + 1
      BY <1>2, <1>4
    <2> QED BY <2>1, <1>2
  <1> QED BY <1>5, <1>6 DEF ReadsBetween

(* The part that is opened is read from its first byte in the range on.      *)
LEMMA OpenedRight ==
    ASSUME NEW r, NEW i, OpenPart(i, r), enc \in BOOLEAN, nonce0 \in Nonces,
           NEW c, c = Ranges(r.start, r.end)[i], PartRange(c)
    PROVE  \E m, d : mr' = m /\ dec' = d /\ PartRight(enc, nonce0, c, m, d, c.start)
  <1>1. PICK p \in Parts, s \in Nat, e \in Nat :
          p = c.part /\ s = c.start /\ e = c.end /\ s <= e /\ e < PartSizes[p + 1]
    BY DEF PartRange, RangeOf
  <1>2. PICK S : S = Content(enc, nonce0, p) /\ S = Stored(p)
    BY StoredIs
  <1>3. PICK m, d : m = mr' /\ d = dec'
    OBVIOUS
  <1>4. CASE ~enc
    <2>1. m = NewMultiReader(c.part, c.start, c.end) /\ d = NoDecrypter
      BY <1>3, <1>4 DEF OpenPart
    <2>2. ReaderRight(S, c, m) /\ m.limit = c.end - c.start + 1
      BY <2>1, NewReaderRight DEF PartRange
    <2>3. c.end < Len(S)
      <3>1. Len(S) = PartSizes[p + 1]
        BY <1>2, <1>4, ContentIs
      <3> QED BY <3>1, <1>1
    <2>4. Reading(S, c, c, m)
      BY <2>2, <2>3 DEF Reading, PartRange
    <2>5. (c.end + 1) - m.limit = c.start
      BY <2>2, <1>1
    <2>6. DecRight(enc, nonce0, c, c, (c.end + 1) - m.limit, d, c.start)
      BY <2>1, <2>5, <1>4 DEF DecRight, NoDecrypter
    <2>7. PartRight(enc, nonce0, c, m, d, c.start)
      BY <2>4, <2>6, <1>1, <1>2 DEF PartRight
    <2> QED BY <2>7, <1>3
  <1>5. CASE enc
    <2>1. PICK limit \in Nat : limit = c.end - c.start + 1 /\ limit = e - s + 1
      BY <1>1
    <2>2. /\ m = NewMultiReader(p, 0, StoredEnd(p,
                   IF s # 0 THEN HeaderSize - 1
                   ELSE HeaderSize + UnderlyingLimit(0, limit) - 1))
          /\ d = [pc |-> "header", nonce |-> <<>>, raw |-> <<>>, buf |-> <<>>,
                  limit |-> limit]
      BY <2>1, <1>1, <1>3, <1>5 DEF OpenPart, NoDecrypter
    <2>3. PICK h \in Nat \ {0}, size \in Nat :
            h = HeaderSize /\ size = SealedSize(p) /\ size = Len(S) /\ S = Sealed[p][nonce0]
      <3>1. S = Sealed[p][nonce0]
        BY <1>2, <1>5 DEF Content
      <3>2. Len(S) \in Nat /\ Len(S) = SealedSize(p)
        BY <1>2, <1>5, ContentIs
      <3> QED BY <3>1, <3>2, SealedSizesAre
    <2>4. PICK b \in Nat : /\ b = IF s # 0 THEN h ELSE RangeEnd(c)
                           /\ m = NewMultiReader(p, 0, b - 1) /\ 0 < b /\ b <= size
                           /\ h <= b
      <3>1. RangeEnd(c) \in Nat /\ h < RangeEnd(c) /\ RangeEnd(c) <= size
        <4>1. PICK x \in Nat, y \in Nat, t \in Nat :
                /\ x = BlockAt(FirstBlock(c.end)) /\ t = TagSize
                /\ y = RangeEnd(c) /\ h <= x /\ x + t < y /\ y <= size
          <5>1. TagSize \in Nat
            BY SealedSizesAre
          <5>2. PICK b \in Covers(c) : b = FirstBlock(c.end)
            BY CoversIs
          <5>3. /\ BlockAt(b) \in Nat /\ RangeEnd(c) \in Nat /\ RangeEnd(c) = BlockEnd(c.part, b)
                /\ HeaderSize <= BlockAt(b) /\ BlockAt(b) + TagSize < BlockEnd(c.part, b)
                /\ RangeEnd(c) <= SealedSize(c.part)
            BY <5>2, CoversIs DEF RangeEnd
          <5> QED BY <5>1, <5>2, <5>3, <2>3, <1>1
        <4> QED BY <4>1
      <3>2. CASE s # 0
        <4>1. StoredEnd(p, HeaderSize - 1) = h - 1
          BY <3>1, <2>3, <1>2 DEF StoredEnd, LesserOf
        <4>2. m = NewMultiReader(p, 0, h - 1)
          BY <4>1, <3>2, <2>2
        <4>3. h \in Nat /\ 0 < h /\ h <= size /\ h <= h
          BY <3>1, <2>3
        <4> QED BY <4>2, <4>3, <3>2
      <3>3. CASE s = 0
        <4>1. PICK w \in Nat, last \in Nat :
                /\ w = UnderlyingLimit(0, limit) /\ last = FirstBlock(c.end)
                /\ BlockAt(0) + w = BlockAt(last + 1)
                /\ LesserOf(size - 1, BlockAt(last + 1) - 1) = RangeEnd(c) - 1
          BY <3>3, <2>1, <2>3, <1>1, UnderlyingIs
        <4>2. BlockAt(0) = h
          <5>1. PICK B \in Nat : B = BlockSize
            BY SealedSizesAre
          <5>2. 0 * B = 0
            OBVIOUS
          <5> QED BY <5>1, <5>2, <2>3 DEF BlockAt
        <4>3. m = NewMultiReader(p, 0, StoredEnd(p, HeaderSize + UnderlyingLimit(0, limit) - 1))
          BY <3>3, <2>2
        <4>4. HeaderSize + (w - 1) = BlockAt(last + 1) - 1
          BY <4>1, <4>2, <2>3
        <4>5. m = NewMultiReader(p, 0, StoredEnd(p, BlockAt(last + 1) - 1))
          BY <4>1, <4>3, <4>4
        <4>6. StoredEnd(p, BlockAt(last + 1) - 1) = RangeEnd(c) - 1
          BY <4>1, <2>3, <1>2 DEF StoredEnd
        <4>7. m = NewMultiReader(p, 0, RangeEnd(c) - 1)
          BY <4>5, <4>6
        <4> QED BY <4>7, <3>1, <3>3
      <3> QED BY <3>2, <3>3
    <2>5. PICK u : Reading(S, c, u, m) /\ u.end + 1 = b /\ (u.end + 1) - m.limit = 0
      <3>1. c.part \in Nat /\ 0 \in Nat /\ m = NewMultiReader(c.part, 0, b - 1)
        BY <2>4, <1>1, PartIs
      <3>2. b <= Len(S)
        BY <2>3, <2>4
      <3>3. PICK a \in Nat : a = 0
        OBVIOUS
      <3>4. ReadsBetween(S, c, a, b, m)
        <4>1. a < b /\ m = NewMultiReader(c.part, a, b - 1)
          BY <3>1, <3>3, <2>4
        <4>2. c.part \in Nat
          BY <3>1
        <4> QED BY <4>1, <4>2, <3>2, ReadingFrom
      <3> QED BY <3>3, <3>4 DEF ReadsBetween
    <2>6. HeaderRight(S, c, u, 0, d, c.start)
      <3>1. Slice(S, <<>>, 0, 0)
        BY DEF Slice
      <3>2. d.pc = "header" /\ d.buf = <<>> /\ d.raw = <<>> /\ d.limit = c.end - c.start + 1
        BY <2>1, <2>2
      <3>3. 0 <= HeaderSize
        BY <2>3
      <3>4. u.end + 1 = IF c.start # 0 THEN HeaderSize ELSE RangeEnd(c)
        BY <2>3, <2>4, <2>5, <1>1
      <3> QED BY <3>1, <3>2, <3>3, <3>4 DEF HeaderRight
    <2>7. DecShape(d)
      BY <2>2 DEF DecShape
    <2>8. DecRight(enc, nonce0, c, u, (u.end + 1) - m.limit, d, c.start)
      BY <2>3, <2>5, <2>6, <2>7, <1>1, <1>5 DEF DecRight
    <2>9. PartRight(enc, nonce0, c, m, d, c.start)
      BY <2>5, <2>8, <1>1, <1>2 DEF PartRight
    <2> QED BY <2>9, <1>3
  <1> QED BY <1>4, <1>5

(* While the answer is on its way: what has been sent is the range from its  *)
(* first byte on, and the next byte is x of the part that is open.           *)
Serving ==
    /\ request \in Transfer!Ranges /\ pos \in 1 .. Len(Covered)
    /\ Run(out, request.start, request.start + Len(out))
    /\ remaining = (request.end + 1) - (request.start + Len(out))
    /\ \E x \in Nat :
          /\ Covered[pos].start <= x /\ x <= Covered[pos].end
          /\ request.start + Len(out) = PartStart(Covered[pos].part) + x
          /\ PartRight(enc, nonce0, Covered[pos], mr, dec, x)

StreamInv ==
    /\ enc \in BOOLEAN /\ nonce0 \in Nonces
    /\ status = "idle" => out = <<>>
    /\ mr.pc = "filling" => status = "reading"
    /\ status = "reading" => Serving

(* A range lies within the file.                                             *)
LEMMA RangeIs ==
    ASSUME NEW r \in Transfer!Ranges
    PROVE  /\ r.start \in Nat /\ r.end \in Nat /\ r.start <= r.end /\ r.end < Size
           /\ Size \in Nat
  <1>1. Size \in Int
    <2>1. Len(PartSizes) - 1 \in Int /\ PartSizes[1] \in Int
          /\ PartSizes[Len(PartSizes)] \in Int
      BY SizesAre
    <2> QED BY <2>1 DEF Size, PartStart
  <1>2. PICK s \in 0 .. Size - 1, e \in 0 .. Size - 1 :
          s = r.start /\ e = r.end /\ s <= e
    BY DEF Transfer!Ranges
  <1> QED BY <1>1, <1>2

(* What holds while a part is read, all of it by name.                       *)
LEMMA ServingIs ==
    ASSUME StreamInv, status = "reading", NEW c, c = Covered[pos]
    PROVE  /\ Serving /\ PartRange(c) /\ enc \in BOOLEAN /\ nonce0 \in Nonces
           /\ \E x \in Nat : /\ c.start <= x /\ x <= c.end
                            /\ request.start + Len(out) = PartStart(c.part) + x
                            /\ PartRight(enc, nonce0, c, mr, dec, x)
  <1>1. Serving /\ enc \in BOOLEAN /\ nonce0 \in Nonces
    BY DEF StreamInv
  <1>2. PartRange(c)
    BY <1>1, PartsCovered DEF Serving, Covered
  <1>3. \E x \in Nat : /\ c.start <= x /\ x <= c.end
                       /\ request.start + Len(out) = PartStart(c.part) + x
                       /\ PartRight(enc, nonce0, c, mr, dec, x)
    BY <1>1 DEF Serving
  <1> QED BY <1>1, <1>2, <1>3

(* A step of which the client sees nothing: the part is still read right,    *)
(* and from the same byte.                                                   *)
LEMMA QuietStep ==
    ASSUME StreamInv, status = "reading", NEW c, c = Covered[pos], NEW x \in Nat,
           c.start <= x, x <= c.end, request.start + Len(out) = PartStart(c.part) + x,
           NEW m, NEW d, mr' = m, dec' = d, PartRight(enc, nonce0, c, m, d, x),
           UNCHANGED <<enc, nonce0, request, status, pos, remaining, out>>
    PROVE  StreamInv' /\ Transfer!Wait
  <1>1. Serving
    BY DEF StreamInv
  <1>2. Covered' = Covered
    BY DEF Covered
  <1>3. c = Covered'[pos'] /\ PartRight(enc', nonce0', c, mr', dec', x)
    BY <1>2
  <1>4. Serving'
    <2>1. /\ request' \in Transfer!Ranges /\ pos' \in 1 .. Len(Covered')
          /\ Run(out', request'.start, request'.start + Len(out'))
          /\ remaining' = (request'.end + 1) - (request'.start + Len(out'))
      BY <1>1, <1>2 DEF Serving
    <2>2. c.start <= x /\ x <= c.end /\ request'.start + Len(out') = PartStart(c.part) + x
      OBVIOUS
    <2> QED BY <1>3, <2>1, <2>2 DEF Serving
  <1>5. StreamInv'
    BY <1>4 DEF StreamInv
  <1> QED BY <1>5 DEF Transfer!Wait

(* Fetching and handing over, and giving up, send nothing.                   *)
LEMMA FillStep ==
    ASSUME StreamInv, Fill \/ FetchFails
    PROVE  StreamInv' /\ Transfer!Wait
  <1>1. mr.pc = "filling"
    BY DEF Fill, Push, Fetch, FetchFails
  <1>2. status = "reading"
    BY <1>1 DEF StreamInv
  <1>3. PICK c : c = Covered[pos] /\ PartRange(c) /\ enc \in BOOLEAN /\ nonce0 \in Nonces
    BY <1>2, ServingIs
  <1>14. PICK x \in Nat : /\ c.start <= x /\ x <= c.end
                         /\ request.start + Len(out) = PartStart(c.part) + x
                         /\ PartRight(enc, nonce0, c, mr, dec, x)
    BY <1>2, <1>3, ServingIs
  <1>4. PICK S : S = Content(enc, nonce0, c.part) /\ S = Stored(c.part)
    BY StoredIs
  <1>5. PICK u : /\ Reading(S, c, u, mr)
                 /\ DecRight(enc, nonce0, c, u, (u.end + 1) - mr.limit, dec, x)
    BY <1>14, <1>4 DEF PartRight
  <1>6. RangeOf(u) /\ u.part = c.part /\ u.end < Len(S) /\ ReaderRight(S, u, mr)
    BY <1>5 DEF Reading
  <1>7. StoredRange(S, u)
    <2>1. S \in Seq(Bytes)
      BY <1>3, <1>4, ContentIs DEF PartRange
    <2> QED BY <2>1, <1>4, <1>6 DEF StoredRange
  <1>8. UNCHANGED <<enc, nonce0, request, status, pos, remaining, dec, out>>
    BY DEF Fill, Push, Fetch, FetchFails
  <1>9. PICK v : mr' = v /\ ReaderRight(S, u, v) /\ v.limit = mr.limit
    <2>1. CASE Push
      BY <2>1, <1>6, PushKeeps
    <2>2. ASSUME NEW i \in 0 .. Concurrency - 1, Fetch(i)
          PROVE  \E v : mr' = v /\ ReaderRight(S, u, v) /\ v.limit = mr.limit
      <3>1. i \in Nat
        BY StreamAssumption
      <3> QED BY <3>1, <2>2, <1>6, <1>7, FetchKeeps
    <2>3. CASE FetchFails
      BY <2>3, <1>6, FailureKeeps
    <2> QED BY <2>1, <2>2, <2>3 DEF Fill
  <1>10. Reading(S, c, u, v)
    BY <1>6, <1>9 DEF Reading
  <1>11. DecRight(enc, nonce0, c, u, (u.end + 1) - v.limit, dec, x)
    BY <1>5, <1>9
  <1>12. PICK d : d = dec /\ dec' = d
    BY <1>8
  <1>13. PartRight(enc, nonce0, c, v, d, x)
    BY <1>4, <1>10, <1>11, <1>12 DEF PartRight
  <1> QED BY <1>2, <1>3, <1>8, <1>9, <1>12, <1>13, <1>14, QuietStep

(* A range that is accepted is one of the file, and its first part is opened *)
(* at its first byte.                                                        *)
LEMMA ParsedRange ==
    ASSUME NEW first \in 0 .. Size + 1 \cup {None}, NEW last \in 0 .. Size + 1 \cup {None},
           Parse(first, last) # None
    PROVE  Parse(first, last) \in Transfer!Ranges
  <1>1. Size \in Nat
    <2>1. PICK n \in Nat \ {0}, k \in Nat, z \in Nat :
            n = Len(PartSizes) /\ k = PartSizes[1] /\ z = PartSizes[n]
      BY SizesAre
    <2>2. (n - 1) * k \in Nat
      OBVIOUS
    <2> QED BY <2>1, <2>2 DEF Size, PartStart
  <1>2. (first = None \/ first \in Nat) /\ (last = None \/ last \in Nat)
    BY <1>1
  <1>3. None \notin Int
    BY StreamAssumption
  <1> DEFINE s == IF first = None THEN Size - last ELSE first
             e == IF first = None \/ last = None THEN Size - 1
                  ELSE LesserOf(last, Size - 1)
  <1>4. /\ ~(first = None /\ last = None) /\ s <= e /\ ~(s < 0)
        /\ Parse(first, last) = [start |-> s, end |-> e]
    <2>1. ~(first = None /\ last = None) /\ ~(s > e) /\ ~(s < 0)
          /\ Parse(first, last) = [start |-> s, end |-> e]
      BY DEF Parse
    <2>2. s \in Int
      BY <2>1, <1>1, <1>2
    <2>3. e \in Int
      BY <2>1, <1>1, <1>2 DEF LesserOf
    <2> HIDE DEF s, e
    <2> QED BY <2>1, <2>2, <2>3
  <1>5. s \in Int
    BY <1>1, <1>2, <1>4
  <1>6. e \in Int /\ e <= Size - 1
    BY <1>1, <1>2, <1>4 DEF LesserOf
  <1> HIDE DEF s, e
  <1>7. s \in 0 .. Size - 1 /\ e \in 0 .. Size - 1
    BY <1>1, <1>4, <1>5, <1>6
  <1> QED BY <1>4, <1>7 DEF Transfer!Ranges

(* A request accepts a range, or is rejected.                                *)
LEMMA RequestStep ==
    ASSUME StreamInv, NEW first \in 0 .. Size + 1 \cup {None},
           NEW last \in 0 .. Size + 1 \cup {None}, Request(first, last)
    PROVE  StreamInv' /\ (Transfer!Accept \/ Transfer!Reject)
  <1>1. status = "idle" /\ out = <<>> /\ mr.pc # "filling" /\ enc \in BOOLEAN
        /\ nonce0 \in Nonces /\ UNCHANGED <<enc, nonce0, out>>
    BY DEF StreamInv, Request
  <1>2. CASE Parse(first, last) = None
    <2>1. status' = "rejected" /\ UNCHANGED <<request, pos, remaining, mr, dec>>
      BY <1>2 DEF Request
    <2> QED BY <1>1, <2>1 DEF StreamInv, Transfer!Reject
  <1>3. CASE Parse(first, last) # None
    <2>1. PICK r \in Transfer!Ranges : r = Parse(first, last)
      BY <1>3, ParsedRange
    <2>2. /\ request' = r /\ status' = "reading" /\ pos' = 1
          /\ remaining' = r.end - r.start + 1 /\ OpenPart(1, r)
      BY <1>3, <2>1 DEF Request
    <2>3. PICK c : c = Ranges(r.start, r.end)[1]
      OBVIOUS
    <2>4. /\ 1 \in 1 .. Len(Ranges(r.start, r.end)) /\ RangeOf(c)
          /\ PartStart(c.part) + c.start = r.start
      BY <2>1, <2>3, RangesFollow
    <2>5. PartRange(c)
      BY <2>1, <2>3, <2>4, PartsCovered
    <2>6. PICK m, d : mr' = m /\ dec' = d /\ PartRight(enc, nonce0, c, m, d, c.start)
      BY <1>1, <2>2, <2>3, <2>5, OpenedRight
    <2>7. Covered' = Ranges(r.start, r.end) /\ c = Covered'[pos']
      BY <2>2, <2>3 DEF Covered
    <2>8. r.start \in Nat /\ r.end \in Nat
      BY <2>1, RangeIs
    <2>9. out' = <<>> /\ Len(out') = 0 /\ r.start + Len(out') = r.start
      BY <1>1, <2>8
    <2>10. Run(out', r.start, r.start + Len(out'))
      BY <2>8, <2>9 DEF Run
    <2>11. remaining' = (r.end + 1) - (r.start + Len(out'))
      BY <2>2, <2>8, <2>9
    <2>12. PICK x \in Nat : /\ x = c.start /\ c.start <= x /\ x <= c.end
                            /\ r.start + Len(out') = PartStart(c.part) + x
      BY <2>4, <2>9 DEF RangeOf
    <2>13. PartRight(enc', nonce0', c, mr', dec', x)
      BY <1>1, <2>6, <2>12
    <2>14. Serving'
      <3>1. /\ request' \in Transfer!Ranges /\ pos' \in 1 .. Len(Covered')
            /\ Run(out', request'.start, request'.start + Len(out'))
            /\ remaining' = (request'.end + 1) - (request'.start + Len(out'))
        BY <2>1, <2>2, <2>4, <2>7, <2>10, <2>11
      <3>2. request'.start + Len(out') = PartStart(c.part) + x
        BY <2>2, <2>12
      <3> QED BY <3>1, <3>2, <2>7, <2>12, <2>13 DEF Serving
    <2>15. StreamInv'
      BY <1>1, <2>2, <2>14 DEF StreamInv
    <2> QED BY <1>1, <2>1, <2>2, <2>15 DEF Transfer!Accept
  <1> QED BY <1>2, <1>3

(* The bytes that a read returns are the next ones of the range; the part    *)
(* after a part that ends begins with the byte after them.                   *)
LEMMA DeliverStep ==
    ASSUME StreamInv, status = "reading", NEW c, c = Covered[pos], NEW x \in Nat,
           c.start <= x, x <= c.end, request.start + Len(out) = PartStart(c.part) + x,
           NEW n \in Nat \ {0}, n <= remaining, x + n <= c.end + 1,
           NEW data, Run(data, PartStart(c.part) + x, PartStart(c.part) + x + n),
           NEW end \in BOOLEAN, end <=> (x + n = c.end + 1),
           NEW m, NEW d, Deliver(data, end, m, d),
           end => m.pc # "filling",
           ~end => PartRight(enc, nonce0, c, m, d, x + n)
    PROVE  StreamInv' /\ \E k \in 1 .. Size : Transfer!Send(k)
  <1>1. Serving /\ PartRange(c) /\ enc \in BOOLEAN /\ nonce0 \in Nonces
    BY ServingIs
  <1>2. PICK r \in Transfer!Ranges : r = request
    BY <1>1 DEF Serving
  <1>3. PICK s \in Nat, e \in Nat, sz \in Nat :
          s = r.start /\ e = r.end /\ s <= e /\ e < sz /\ sz = Size
    BY <1>2, RangeIs
  <1>4. PICK cs : cs = Ranges(r.start, r.end) /\ cs = Covered
    BY <1>2 DEF Covered
  <1>5. PICK i \in 1 .. Len(cs) : i = pos /\ c = cs[i]
    BY <1>1, <1>4 DEF Serving
  <1>6. /\ Len(cs) \in Nat
        /\ \A j \in 1 .. Len(cs) :
              /\ RangeOf(cs[j])
              /\ PartStart(cs[j].part) + cs[j].end <= e
              /\ j = Len(cs) => PartStart(cs[j].part) + cs[j].end = e
              /\ j < Len(cs) => PartStart(cs[j].part) + cs[j].end + 1
                                = PartStart(cs[j + 1].part) + cs[j + 1].start
    <2>1. cs = Ranges(r.start, r.end) /\ e = r.end
      BY <1>3, <1>4
    <2> QED BY <2>1, RangesFollow
  <1>7. PICK base \in Nat, z \in Nat, last \in BOOLEAN :
          /\ base = PartStart(c.part) /\ z = c.end /\ base + z <= e
          /\ (last => base + z = e) /\ (last <=> i = Len(cs))
          /\ x <= z /\ x + n <= z + 1 /\ (end <=> (x + n = z + 1))
    <2>1. PartStart(c.part) \in Nat /\ c.end \in Nat
      BY <1>1, PartIs DEF PartRange, RangeOf
    <2>2. PICK base \in Nat, z \in Nat, last \in BOOLEAN :
            base = PartStart(c.part) /\ z = c.end /\ (last <=> i = Len(cs))
      BY <2>1
    <2>3. base + z <= e /\ (last => base + z = e)
      <3>1. PartStart(cs[i].part) + cs[i].end <= e
            /\ (i = Len(cs) => PartStart(cs[i].part) + cs[i].end = e)
        BY <1>6
      <3> QED BY <3>1, <2>2, <1>5
    <2> QED BY <2>2, <2>3
  <1>8. PICK len \in Nat, left \in Int :
          /\ len = Len(out) /\ Run(out, s, s + len)
          /\ left = remaining /\ left = (e + 1) - (s + len) /\ s + len = base + x
    <2>1. /\ Run(out, request.start, request.start + Len(out))
          /\ remaining = (request.end + 1) - (request.start + Len(out))
      BY <1>1 DEF Serving
    <2>2. Len(out) \in Nat
      BY <2>1 DEF Run
    <2>3. PICK y \in Nat, w \in Int : y = Len(out) /\ w = (e + 1) - (s + y)
      BY <2>2
    <2> QED BY <2>1, <2>3, <1>2, <1>3, <1>7
  <1>9. /\ n <= left /\ left <= sz /\ left = e - s + 1 - len
        /\ left - n \in Nat /\ (~end => left - n > 0) /\ (end /\ last => left - n = 0)
    <2>1. left = (e + 1) - (s + len) /\ s + len = base + x /\ e + 1 <= sz /\ n <= left
      BY <1>3, <1>8
    <2>2. base + z <= e /\ (last => base + z = e) /\ x + n <= z + 1
          /\ (end <=> (x + n = z + 1))
      BY <1>7
    <2>3. left = e - s + 1 - len /\ left <= sz
      BY <2>1
    <2>4. left - n = e + 1 - (base + x + n) /\ left - n \in Nat
      BY <2>1
    <2>5. ~end => left - n > 0
      BY <2>2, <2>4
    <2>6. end /\ last => left - n = 0
      BY <2>2, <2>4
    <2> QED BY <2>1, <2>3, <2>4, <2>5, <2>6
  <1>18. (end => base + x + n = base + z + 1) /\ (~end => x + n <= z)
    <2>1. (end <=> (x + n = z + 1)) /\ x + n <= z + 1
      BY <1>7
    <2>2. (end => x + n = z + 1) /\ (~end => x + n # z + 1)
      BY <2>1, Zenon
    <2>3. x + n = z + 1 => base + x + n = base + z + 1
      OBVIOUS
    <2>4. x + n # z + 1 => x + n <= z
      BY <2>1
    <2> QED BY <2>2, <2>3, <2>4, Zenon
  <1>10. Len(data) = n /\ data = [j \in 1 .. n |-> s + len + j - 1]
         /\ Run(data, s + len, s + len + n)
    <2>1. Run(data, s + len, s + len + n)
      BY <1>7, <1>8
    <2>2. data = [j \in 1 .. (s + len + n) - (s + len) |-> s + len + j - 1]
          /\ Len(data) = (s + len + n) - (s + len)
      BY <2>1, RunIs
    <2>3. (s + len + n) - (s + len) = n
      OBVIOUS
    <2> QED BY <2>1, <2>2, <2>3
  <1>11. /\ out' = out \o data /\ remaining' = left - n
         /\ request' = r /\ enc' = enc /\ nonce0' = nonce0 /\ Covered' = cs
    <2>1. out' = out \o data /\ remaining' = remaining - Len(data)
          /\ request' = request /\ enc' = enc /\ nonce0' = nonce0
      BY DEF Deliver
    <2> QED BY <2>1, <1>2, <1>4, <1>8, <1>10 DEF Covered
  <1>12. Run(out', s, s + len + n) /\ Len(out') = len + n
    <2>1. Run(out', s, s + len + n)
      BY <1>8, <1>10, <1>11, RunsJoin
    <2>2. Len(out') = s + len + n - s
      BY <2>1 DEF Run
    <2> QED BY <2>1, <2>2
  <1>13. out' = out \o [j \in 1 .. n |-> request.start + Len(out) + j - 1]
    BY <1>2, <1>3, <1>8, <1>10, <1>11
  <1>14. n \in 1 .. Size /\ left = Transfer!Left
    <2>1. Transfer!Left = e - s + 1 - len
      BY <1>2, <1>3, <1>8 DEF Transfer!Left
    <2> QED BY <2>1, <1>3, <1>9
  <1>15. ASSUME NEW y \in Nat, NEW cc, cc = Covered'[pos'],
                cc.start <= y, y <= cc.end, base + x + n = PartStart(cc.part) + y,
                PartRight(enc', nonce0', cc, mr', dec', y), pos' \in 1 .. Len(cs)
         PROVE  Serving'
    <2>1. request' \in Transfer!Ranges /\ pos' \in 1 .. Len(Covered')
      BY <1>2, <1>11, <1>15
    <2>2. /\ request'.start = s /\ request'.end = e /\ Len(out') = len + n
          /\ s + (len + n) = s + len + n /\ s + (len + n) = base + x + n
          /\ left - n = (e + 1) - (s + (len + n))
      <3>1. request'.start = s /\ request'.end = e /\ Len(out') = len + n
        BY <1>3, <1>11, <1>12
      <3>2. /\ s + (len + n) = s + len + n /\ s + (len + n) = base + x + n
            /\ left - n = (e + 1) - (s + (len + n))
        BY <1>8
      <3> QED BY <3>1, <3>2
    <2>3. /\ Run(out', request'.start, request'.start + Len(out'))
          /\ remaining' = (request'.end + 1) - (request'.start + Len(out'))
          /\ request'.start + Len(out') = PartStart(cc.part) + y
      BY <2>2, <1>11, <1>12, <1>15
    <2> QED BY <2>1, <2>3, <1>15 DEF Serving
  <1>16. CASE end /\ left - n > 0
    <2>1. i < Len(cs)
      <3>1. ~last
        BY <1>9, <1>16
      <3> QED BY <3>1, <1>5, <1>6, <1>7
    <2>2. pos' = i + 1 /\ status' = "reading" /\ OpenPart(i + 1, request)
      BY <2>1, <1>4, <1>5, <1>8, <1>10, <1>16 DEF Deliver
    <2>3. PICK cc : cc = cs[i + 1] /\ cc = Covered'[pos']
      BY <2>2, <1>11
    <2>4. /\ i + 1 \in 1 .. Len(cs) /\ RangeOf(cc) /\ PartRange(cc)
          /\ base + z + 1 = PartStart(cc.part) + cc.start
      <3>1. i \in 1 .. Len(cs) /\ i + 1 \in 1 .. Len(cs)
        BY <2>1, <1>5, <1>6
      <3>2. PartStart(c.part) + c.end + 1 = PartStart(cc.part) + cc.start
        BY <3>1, <2>1, <2>3, <1>5, <1>6
      <3>3. PartRange(cc)
        BY <3>1, <2>3, <1>4, PartsCovered
      <3> QED BY <3>1, <3>2, <3>3, <1>7 DEF PartRange
    <2>5. PICK mm, dd : mr' = mm /\ dec' = dd
                        /\ PartRight(enc, nonce0, cc, mm, dd, cc.start)
      <3>1. OpenPart(i + 1, r) /\ cc = Ranges(r.start, r.end)[i + 1]
        BY <2>2, <2>3, <1>2, <1>4
      <3>2. PICK j : j = i + 1
        OBVIOUS
      <3> QED BY <3>1, <3>2, <2>4, <1>1, OpenedRight
    <2>6. PICK y \in Nat : y = cc.start /\ cc.start <= y /\ y <= cc.end
      BY <2>4 DEF RangeOf
    <2>7. base + x + n = PartStart(cc.part) + y
      <3>1. base + x + n = base + z + 1
        BY <1>16, <1>18
      <3> QED BY <3>1, <2>4, <2>6
    <2>8. Serving'
      BY <2>2, <2>3, <2>4, <2>5, <2>6, <2>7, <1>11, <1>15
    <2>9. StreamInv'
      BY <2>2, <2>8, <1>1, <1>11 DEF StreamInv
    <2>10. Transfer!Send(n)
      BY <2>2, <1>2, <1>9, <1>11, <1>13, <1>14, <1>16 DEF Transfer!Send
    <2> QED BY <2>9, <2>10, <1>14
  <1>17. CASE ~(end /\ left - n > 0)
    <2>1. /\ mr' = m /\ dec' = d /\ pos' = i
          /\ status' = (IF left - n <= 0 THEN "sent" ELSE "reading")
      BY <1>5, <1>8, <1>10, <1>17 DEF Deliver
    <2>2. Transfer!Send(n)
      <3>1. status' = IF n = left THEN "sent" ELSE "reading"
        BY <2>1, <1>9
      <3> QED BY <3>1, <1>2, <1>9, <1>11, <1>13, <1>14 DEF Transfer!Send
    <2>3. CASE left - n <= 0
      <3>1. end
        BY <2>3, <1>9
      <3>2. StreamInv'
        BY <3>1, <2>1, <2>3, <1>1, <1>11 DEF StreamInv
      <3> QED BY <3>2, <2>2, <1>14
    <2>4. CASE left - n > 0
      <3>1. ~end /\ PartRight(enc, nonce0, c, m, d, x + n)
        BY <2>4, <1>17
      <3>2. Covered'[pos'] = c /\ pos' \in 1 .. Len(cs)
        BY <2>1, <1>5, <1>11
      <3>3. PICK y \in Nat : y = x + n /\ c.start <= y /\ y <= c.end
        <4>1. x + n <= z
          BY <3>1, <1>18
        <4>2. c.start \in Nat /\ c.end \in Nat
          BY <1>1 DEF PartRange, RangeOf
        <4>3. x \in Nat /\ n \in Nat /\ c.start <= x /\ z = c.end
          BY <1>7
        <4>4. PICK y \in Nat : y = x + n
          BY <4>3
        <4>5. c.start <= y /\ y <= c.end
          BY <4>1, <4>2, <4>3, <4>4
        <4> QED BY <4>4, <4>5
      <3>4. base + x + n = PartStart(c.part) + y
        BY <3>3, <1>7
      <3>5. PartRight(enc', nonce0', c, mr', dec', y)
        BY <3>1, <3>3, <2>1, <1>11
      <3>6. Serving'
        BY <3>2, <3>3, <3>4, <3>5, <1>15
      <3>7. StreamInv'
        BY <3>6, <2>1, <2>4, <1>1, <1>11 DEF StreamInv
      <3> QED BY <3>7, <2>2, <1>14
    <2> QED BY <2>3, <2>4, <1>9
  <1> QED BY <1>16, <1>17

(* While an answer is under way something of it remains.                     *)
LEMMA RemainingIs ==
    ASSUME StreamInv, status = "reading", NEW c, c = Covered[pos], NEW x \in Nat,
           x <= c.end, request.start + Len(out) = PartStart(c.part) + x
    PROVE  remaining \in Nat \ {0}
  <1>1. Serving /\ PartRange(c)
    BY ServingIs
  <1>2. PICK r \in Transfer!Ranges : r = request
    BY <1>1 DEF Serving
  <1>3. PICK e \in Nat : e = r.end
    BY <1>2, RangeIs
  <1>4. PartStart(c.part) + c.end <= e
    <2>1. PICK cs : cs = Ranges(r.start, r.end) /\ cs = Covered
      BY <1>2 DEF Covered
    <2>2. PICK i \in 1 .. Len(cs) : c = cs[i]
      BY <2>1, <1>1 DEF Serving
    <2> QED BY <2>1, <2>2, <1>3, RangesFollow
  <1>5. PICK base \in Nat, z \in Nat : base = PartStart(c.part) /\ z = c.end
    BY <1>1, PartIs DEF PartRange, RangeOf
  <1>6. remaining = (e + 1) - (base + x)
    BY <1>1, <1>2, <1>3, <1>5 DEF Serving
  <1>7. base + z <= e /\ x <= z
    BY <1>4, <1>5
  <1> QED BY <1>6, <1>7

(* The lesser of two sizes is a size that is not above either.               *)
LEMMA LesserIs ==
    ASSUME NEW a \in Nat \ {0}, NEW b \in Nat \ {0}
    PROVE  LesserOf(a, b) \in Nat \ {0} /\ LesserOf(a, b) <= a /\ LesserOf(a, b) <= b
  BY DEF LesserOf

(* A read of a file that is not encrypted sends the next bytes.              *)
LEMMA ReadPlainStep ==
    ASSUME StreamInv, NEW k \in Nat \ {0}, ReadPlain(k)
    PROVE  StreamInv' /\ \E n \in 1 .. Size : Transfer!Send(n)
  <1>1. status = "reading" /\ ~enc /\ Ready
    BY DEF ReadPlain
  <1>2. PICK c : c = Covered[pos] /\ PartRange(c)
    BY <1>1, ServingIs
  <1>3. PICK x \in Nat : /\ c.start <= x /\ x <= c.end
                         /\ request.start + Len(out) = PartStart(c.part) + x
                         /\ PartRight(enc, nonce0, c, mr, dec, x)
    BY <1>1, <1>2, ServingIs
  <1>4. PICK S : S = Plain[c.part] /\ S = Content(enc, nonce0, c.part)
    BY <1>1 DEF Content
  <1>5. Reading(S, c, c, mr) /\ dec.pc = "none" /\ x = (c.end + 1) - mr.limit
    BY <1>1, <1>3, <1>4 DEF PartRight, DecRight
  <1>6. RangeOf(c) /\ c.end < Len(S) /\ ReaderRight(S, c, mr)
    BY <1>5 DEF Reading
  <1>7. PICK q \in Nat \ {0} : q = LesserOf(k, remaining) /\ q <= remaining
    <2>1. PICK left \in Nat \ {0} : left = remaining
      BY <1>1, <1>2, <1>3, RemainingIs
    <2> QED BY <2>1, LesserIs
  <1>8. PICK n \in Nat, from \in Int, v \in MrShape :
           /\ v = AfterTaking(q) /\ ReaderRight(S, c, v)
           /\ n = Len(Taken(q)) /\ 1 <= n /\ n <= q
           /\ v.limit = mr.limit - n /\ from = (c.end + 1) - mr.limit
           /\ Slice(S, Taken(q), from, from + n)
    BY <1>1, <1>6, TakingKeeps
  <1>9. PICK z \in Nat, lim \in Nat :
          z = c.end /\ lim = v.limit /\ x + n = (z + 1) - lim
          /\ z + 1 <= PartSizes[c.part + 1]
    <2>1. c.end \in Nat /\ c.end < PartSizes[c.part + 1] /\ PartSizes[c.part + 1] \in Nat
      BY <1>2, PartIs DEF PartRange, RangeOf
    <2>2. v.limit \in Nat /\ mr.limit \in Nat
      BY <1>6, <1>8 DEF ReaderRight, MrShape
    <2>3. PICK z \in Nat, lim \in Nat, was \in Nat :
            z = c.end /\ lim = v.limit /\ was = mr.limit
      BY <2>1, <2>2
    <2>4. x = (z + 1) - was /\ lim = was - n
      BY <2>3, <1>5, <1>8
    <2>5. x + n = (z + 1) - lim
      BY <2>4
    <2>6. z + 1 <= PartSizes[c.part + 1]
      BY <2>1, <2>3
    <2> QED BY <2>3, <2>5, <2>6
  <1>10. PICK data : data = Taken(q)
                     /\ Run(data, PartStart(c.part) + x, PartStart(c.part) + x + n)
    <2>1. PICK b \in Nat : b = x + n /\ b <= PartSizes[c.part + 1]
      <3>1. PartSizes[c.part + 1] \in Nat
        BY <1>2, PartIs DEF PartRange
      <3> QED BY <3>1, <1>9
    <2>2. Slice(S, Taken(q), x, b)
      BY <2>1, <1>5, <1>8
    <2>3. PICK data : data = Taken(q)
      OBVIOUS
    <2>4. Run(data, PartStart(c.part) + x, PartStart(c.part) + b)
      BY <2>1, <2>2, <2>3, <1>2, <1>4, PlainSlice DEF PartRange
    <2>5. PartStart(c.part) + b = PartStart(c.part) + x + n
      <3>1. PartStart(c.part) \in Nat
        BY <1>2, PartIs DEF PartRange
      <3> QED BY <3>1, <2>1
    <2> QED BY <2>3, <2>4, <2>5
  <1>11. PICK end \in BOOLEAN : end = (v.limit <= 0)
    <2>1. (v.limit <= 0) \in BOOLEAN
      <3>1. (lim <= 0) \in BOOLEAN
        OBVIOUS
      <3> QED BY <3>1, <1>9
    <2> QED BY <2>1, Zenon
  <1>12. (end <=> (x + n = c.end + 1)) /\ x + n <= c.end + 1
    <2>1. lim <= 0 <=> x + n = z + 1
      BY <1>9
    <2>2. x + n <= z + 1
      BY <1>9
    <2>3. end <=> lim <= 0
      BY <1>9, <1>11
    <2> QED BY <2>1, <2>2, <2>3, <1>9
  <1>13. PICK d : d = dec
    OBVIOUS
  <1>14. Deliver(data, end, v, d)
    <2>1. Deliver(Taken(q), AfterTaking(q).limit <= 0, AfterTaking(q), dec)
      BY <1>7 DEF ReadPlain
    <2> QED BY <2>1, <1>8, <1>10, <1>11, <1>13
  <1>15. end => v.pc # "filling"
    <2>1. ASSUME end PROVE v.pc # "filling"
      <3>1. v.limit <= 0
        BY <2>1, <1>11, Zenon
      <3>2. v.limit = 0
        BY <3>1, <1>9
      <3> QED BY <3>2, <1>6, <1>8, DrainedIsDone
    <2> QED BY <2>1
  <1>16. PartRight(enc, nonce0, c, v, d, x + n)
    <2>1. Reading(S, c, c, v)
      BY <1>6, <1>8 DEF Reading
    <2>2. x + n = (c.end + 1) - v.limit
      BY <1>9
    <2>3. DecRight(enc, nonce0, c, c, (c.end + 1) - v.limit, d, x + n)
      BY <2>2, <1>1, <1>5, <1>13 DEF DecRight
    <2> QED BY <2>1, <2>3, <1>4 DEF PartRight
  <1>17. n \in Nat \ {0} /\ n <= remaining
    <2>1. remaining \in Nat
      BY <1>1, <1>2, <1>3, RemainingIs
    <2> QED BY <2>1, <1>7, <1>8
  <1> QED BY <1>1, <1>2, <1>3, <1>10, <1>12, <1>14, <1>15, <1>16, <1>17, DeliverStep

(* A read fails, and a client leaves, only with the fault of that.           *)
LEMMA BreakOffStep ==
    ASSUME StreamInv, ReadFails \/ Disconnect
    PROVE  StreamInv' /\ Transfer!BreakOff
  <1>1. status = "reading" /\ enc \in BOOLEAN /\ nonce0 \in Nonces
    BY DEF StreamInv, ReadFails, Disconnect
  <1>2. PICK c : c = Covered[pos]
    OBVIOUS
  <1>3. PICK x \in Nat : PartRight(enc, nonce0, c, mr, dec, x)
    BY <1>1, <1>2, ServingIs
  <1>4. PICK u, S : RangeOf(u) /\ ReaderRight(S, u, mr)
    BY <1>3 DEF PartRight, Reading
  <1>5. CASE ReadFails
    <2>1. mr.limit > 0 /\ mr.cur = <<>> /\ (mr.pc = "failed" \/ (mr.pc = "done" /\ mr.chan = <<>>))
      BY <1>5 DEF ReadFails, Broken
    <2>2. mr.pc = "failed"
      BY <2>1, <1>4, DrainedIsDone
    <2>3. /\ status' = "failed"
          /\ UNCHANGED <<enc, nonce0, request, pos, remaining, mr, dec, out>>
      BY <1>5 DEF ReadFails, Fail
    <2> QED BY <2>2, <2>3, <1>1 DEF StreamInv, Transfer!BreakOff
  <1>6. CASE Disconnect
    <2>1. /\ status' = "closed" /\ mr' = [mr EXCEPT !.pc = "failed", !.got = <<>>]
          /\ UNCHANGED <<enc, nonce0, request, pos, remaining, dec, out>>
      BY <1>6 DEF Disconnect
    <2>2. mr'.pc = "failed"
      BY <2>1, <1>4 DEF ReaderRight, MrShape
    <2> QED BY <2>1, <2>2, <1>1 DEF StreamInv, Transfer!BreakOff
  <1> QED BY <1>5, <1>6

(* A block of a range that is not the last one ends within the range, and    *)
(* the last one after it.                                                    *)
LEMMA CoveredBlock ==
    ASSUME NEW c, PartRange(c), NEW b \in Covers(c)
    PROVE  /\ b \in Nat /\ b \in 0 .. Blocks(c.part) - 1
           /\ b * BlockData \in Nat /\ BlockBytes(c.part, b) \in Nat \ {0}
           /\ b # FirstBlock(c.end) => /\ b * BlockData + BlockBytes(c.part, b)
                                          = (b + 1) * BlockData
                                       /\ (b + 1) * BlockData <= c.end
           /\ b = FirstBlock(c.end) => c.end < b * BlockData + BlockBytes(c.part, b)
  <1>1. b \in 0 .. Blocks(c.part) - 1 /\ b \in Nat
    BY CoversIs
  <1>2. PICK d \in Nat \ {0} : d = BlockData
    BY SealedSizesAre
  <1>3. b * BlockData \in Nat /\ BlockBytes(c.part, b) \in Nat \ {0}
    <2>1. BlockBytes(c.part, b) \in 1 .. d
      BY <1>1, <1>2, BlocksFollow DEF PartRange
    <2> QED BY <2>1, <1>1, SealedSizesAre
  <1>4. ASSUME b # FirstBlock(c.end)
        PROVE  /\ b * BlockData + BlockBytes(c.part, b) = (b + 1) * BlockData
               /\ (b + 1) * BlockData <= c.end
    <2>1. BlockBytes(c.part, b) = d
      BY <1>2, <1>4, CoversIs
    <2>2. PICK last \in Nat : last = FirstBlock(c.end) /\ b < last /\ last * d <= c.end
      <3>1. FirstBlock(c.end) \in 0 .. Blocks(c.part) - 1
        BY CoversIs
      <3>2. b <= FirstBlock(c.end)
        BY <1>1 DEF Covers
      <3>3. FirstBlock(c.end) * d <= c.end
        BY <1>2, UnderlyingIs
      <3> QED BY <3>1, <3>2, <3>3, <1>1, <1>4
    <2>3. d * b + d <= d * last /\ d * b = b * d /\ d * last = last * d /\ (b + 1) * d = b * d + d
      <3>1. d * b + d <= d * last
        BY <2>2, <1>1, ProductOrder
      <3> QED BY <3>1, <1>1
    <2>4. PICK v \in Nat, w \in Nat, z \in Nat :
            v = b * d /\ w = last * d /\ z = c.end /\ v + d <= w /\ w <= z
            /\ (b + 1) * d = v + d
      <3>1. c.end \in Nat
        BY DEF PartRange, RangeOf
      <3>2. b * d \in Nat /\ last * d \in Nat
        BY <1>1
      <3> QED BY <3>1, <3>2, <2>2, <2>3
    <2> QED BY <2>1, <2>4, <1>2
  <1>5. b = FirstBlock(c.end) => c.end < b * BlockData + BlockBytes(c.part, b)
    BY UnderlyingIs
  <1> QED BY <1>1, <1>3, <1>4, <1>5

(* So does a read of what has been decrypted.                                *)
LEMMA ReadDecryptedStep ==
    ASSUME StreamInv, NEW k \in Nat \ {0}, ReadDecrypted(k)
    PROVE  StreamInv' /\ \E n \in 1 .. Size : Transfer!Send(n)
  <1>1. status = "reading" /\ enc /\ dec.pc = "data" /\ dec.buf # <<>>
    BY DEF ReadDecrypted
  <1>2. PICK c : c = Covered[pos] /\ PartRange(c) /\ nonce0 \in Nonces
    BY <1>1, ServingIs
  <1>3. PICK x \in Nat : /\ c.start <= x /\ x <= c.end
                         /\ request.start + Len(out) = PartStart(c.part) + x
                         /\ PartRight(enc, nonce0, c, mr, dec, x)
    BY <1>1, <1>2, ServingIs
  <1>4. PICK S : S = Sealed[c.part][nonce0] /\ S = Content(enc, nonce0, c.part)
    BY <1>1 DEF Content
  <1>5. PICK u : /\ Reading(S, c, u, mr) /\ DecShape(dec)
                 /\ HoldsRight(nonce0, c, u, (u.end + 1) - mr.limit, dec, x)
    <2>1. PICK u : /\ Reading(S, c, u, mr)
                   /\ DecRight(enc, nonce0, c, u, (u.end + 1) - mr.limit, dec, x)
      BY <1>3, <1>4 DEF PartRight
    <2>2. /\ ~HeaderRight(S, c, u, (u.end + 1) - mr.limit, dec, x)
          /\ ~FillsRight(S, nonce0, c, u, (u.end + 1) - mr.limit, dec, x)
      BY <1>1 DEF HeaderRight, FillsRight
    <2> QED BY <2>1, <2>2, <1>1, <1>4 DEF DecRight
  <1>6. /\ RangeOf(u) /\ u.part = c.part /\ u.end < Len(S) /\ ReaderRight(S, u, mr)
        /\ u.end + 1 = RangeEnd(c) /\ dec.limit = (c.end + 1) - x
    BY <1>5 DEF Reading, HoldsRight
  <1>7. PICK b \in Covers(c) :
          /\ dec.nonce = NonceOf(nonce0, b + 1)
          /\ (u.end + 1) - mr.limit = BlockEnd(c.part, b)
          /\ Run(dec.buf, PartStart(c.part) + x,
                 PartStart(c.part) + b * BlockData + BlockBytes(c.part, b))
    BY <1>5 DEF HoldsRight
  <1>8. PICK base \in Nat, z \in Nat, y \in Nat, e \in Nat, lim \in Nat :
          /\ base = PartStart(c.part) /\ z = c.end /\ y = b * BlockData + BlockBytes(c.part, b)
          /\ e = u.end + 1 /\ lim = mr.limit /\ x <= z
          /\ base + y = PartStart(c.part) + b * BlockData + BlockBytes(c.part, b)
    <2>1. /\ b * BlockData \in Nat /\ BlockBytes(c.part, b) \in Nat
          /\ PartStart(c.part) \in Nat /\ c.end \in Nat /\ u.end \in Nat /\ mr.limit \in Nat
      BY <1>2, <1>6, CoveredBlock, PartIs DEF PartRange, RangeOf, ReaderRight, MrShape
    <2>2. PICK v \in Nat, w \in Nat, base \in Nat :
            v = b * BlockData /\ w = BlockBytes(c.part, b) /\ base = PartStart(c.part)
      BY <2>1
    <2>3. PICK y \in Nat : y = v + w
      OBVIOUS
    <2>4. base + y = base + v + w
      BY <2>3
    <2>5. PICK z \in Nat, e \in Nat, lim \in Nat :
            z = c.end /\ e = u.end + 1 /\ lim = mr.limit
      BY <2>1
    <2> QED BY <2>2, <2>3, <2>4, <2>5, <1>3
  <1>9. PICK len \in Nat \ {0} : /\ len = Len(dec.buf) /\ len = y - x
                                 /\ Run(dec.buf, base + x, base + y)
    <2>1. Run(dec.buf, base + x, base + y)
      BY <1>7, <1>8
    <2>2. dec.buf \in Seq(Int) /\ Len(dec.buf) \in Nat /\ Len(dec.buf) = (base + y) - (base + x)
      <3>1. PICK a \in Int, bb \in Int : a = base + x /\ bb = base + y
        OBVIOUS
      <3>2. Run(dec.buf, a, bb)
        BY <2>1, <3>1
      <3> QED BY <3>1, <3>2, RunIs
    <2>3. Len(dec.buf) # 0
      BY <2>2, <1>1
    <2>4. (base + y) - (base + x) = y - x
      OBVIOUS
    <2> QED BY <2>1, <2>2, <2>3, <2>4
  <1>10. PICK n \in Nat \ {0} :
           /\ n = LesserOf(LesserOf(k, remaining), LesserOf(dec.limit, Len(dec.buf)))
           /\ n <= remaining /\ n <= len /\ x + n <= z + 1
    <2>1. PICK left \in Nat \ {0} : left = remaining
      BY <1>1, <1>2, <1>3, RemainingIs
    <2>2. PICK dl \in Nat \ {0} : dl = dec.limit /\ dl = (z + 1) - x
      <3>1. dec.limit = (z + 1) - x
        BY <1>6, <1>8
      <3>2. PICK dl \in Nat \ {0} : dl = (z + 1) - x
        BY <1>8
      <3> QED BY <3>1, <3>2
    <2>3. PICK q \in Nat \ {0} : q = LesserOf(k, left) /\ q <= left
      BY LesserIs
    <2>4. PICK w \in Nat \ {0} : w = LesserOf(dl, len) /\ w <= dl /\ w <= len
      BY LesserIs
    <2>5. PICK n \in Nat \ {0} : n = LesserOf(q, w) /\ n <= q /\ n <= w
      BY LesserIs
    <2>6. n <= left /\ n <= len /\ x + n <= z + 1
      BY <2>2, <2>3, <2>4, <2>5
    <2> QED BY <2>1, <2>2, <2>3, <2>4, <2>5, <2>6, <1>9
  <1>11. PICK data : data = SubSeq(dec.buf, 1, n)
                     /\ Run(data, PartStart(c.part) + x, PartStart(c.part) + x + n)
    <2>1. Run(SubSeq(dec.buf, 0 + 1, n), base + x + 0, base + x + n)
      <3>1. PICK a \in Int, bb \in Int : a = base + x /\ bb = base + y
        OBVIOUS
      <3>2. Run(dec.buf, a, bb) /\ 0 <= n /\ n <= Len(dec.buf)
        BY <3>1, <1>9, <1>10
      <3>3. PICK o \in Nat : o = 0
        OBVIOUS
      <3>4. Run(SubSeq(dec.buf, o + 1, n), a + o, a + n)
        BY <3>2, <3>3, SliceOfRun
      <3> QED BY <3>1, <3>3, <3>4
    <2>2. 0 + 1 = 1 /\ base + x + 0 = base + x
      OBVIOUS
    <2> QED BY <2>1, <2>2, <1>8
  <1>12. PICK rest : rest = SubSeq(dec.buf, n + 1, Len(dec.buf))
                     /\ Run(rest, base + (x + n), base + y) /\ (rest # <<>> <=> n < len)
    <2>1. PICK a \in Int, bb \in Int : a = base + x /\ bb = base + y
      OBVIOUS
    <2>2. Run(dec.buf, a, bb) /\ n <= len /\ len <= Len(dec.buf) /\ len = Len(dec.buf)
      BY <2>1, <1>9, <1>10
    <2>3. Run(SubSeq(dec.buf, n + 1, len), a + n, a + len)
      BY <2>2, SliceOfRun
    <2>4. PICK rest : rest = SubSeq(dec.buf, n + 1, Len(dec.buf)) /\ Run(rest, a + n, a + len)
      BY <2>2, <2>3
    <2>5. a + n = base + (x + n) /\ a + len = base + y
      BY <2>1, <1>9
    <2>6. rest \in Seq(Int) /\ Len(rest) = len - n
      <3>1. Len(rest) = (a + len) - (a + n) /\ rest \in Seq(Int)
        <4>1. PICK g \in Int, h \in Int : g = a + n /\ h = a + len
          OBVIOUS
        <4>2. Run(rest, g, h)
          BY <2>4, <4>1
        <4> QED BY <4>1, <4>2, RunIs
      <3> QED BY <3>1
    <2>7. (rest # <<>>) <=> n < len
      BY <2>6, <1>10
    <2> QED BY <2>4, <2>5, <2>7
  <1>13. PICK end \in BOOLEAN : end = (dec.limit = n)
    OBVIOUS
  <1>14. (end <=> (x + n = c.end + 1)) /\ x + n <= c.end + 1
    <2>1. PICK left \in Int : left = dec.limit /\ left = (z + 1) - x
      BY <1>6, <1>8
    <2>2. left = n <=> x + n = z + 1
      BY <2>1
    <2> QED BY <2>1, <2>2, <1>8, <1>10, <1>13
  <1>15. PICK m, d : m = mr /\ d = [dec EXCEPT !.buf = rest, !.limit = @ - n]
    OBVIOUS
  <1>16. Deliver(data, end, m, d)
    <2>1. Deliver(SubSeq(dec.buf, 1, n), dec.limit = n, mr,
                  [dec EXCEPT !.buf = SubSeq(@, n + 1, Len(@)), !.limit = @ - n])
      BY <1>10 DEF ReadDecrypted
    <2> QED BY <2>1, <1>11, <1>12, <1>13, <1>15
  <1>17. end => m.pc # "filling"
    <2>1. SUFFICES ASSUME end PROVE m.pc # "filling"
      OBVIOUS
    <2>2. x + n = z + 1
      BY <2>1, <1>8, <1>14
    <2>3. z < y
      BY <2>2, <1>9, <1>10
    <2>4. b = FirstBlock(c.end)
      <3>1. SUFFICES ASSUME b # FirstBlock(c.end) PROVE FALSE
        OBVIOUS
      <3>2. y <= z
        BY <3>1, <1>2, <1>8, CoveredBlock
      <3> QED BY <3>2, <2>3
    <2>5. e - lim = e
      BY <2>4, <1>6, <1>7, <1>8 DEF RangeEnd
    <2>6. mr.limit = 0
      BY <2>5, <1>8
    <2> QED BY <2>6, <1>6, <1>15, DrainedIsDone
  <1>18. /\ d.pc = "data" /\ d.raw = dec.raw /\ d.buf = rest /\ d.limit = dec.limit - n
         /\ d.nonce = dec.nonce /\ DecShape(d) /\ dec.raw = <<>>
    <2>1. PICK pc, nonce, raw, buf, limit :
            dec = [pc |-> pc, nonce |-> nonce, raw |-> raw, buf |-> buf, limit |-> limit]
      BY <1>5 DEF DecShape
    <2>2. d = [pc |-> pc, nonce |-> nonce, raw |-> raw, buf |-> rest, limit |-> limit - n]
      BY <2>1, <1>15
    <2>3. DecShape(d)
      BY <2>2, Zenon DEF DecShape
    <2>4. dec.raw = <<>>
      BY <1>5 DEF HoldsRight
    <2> QED BY <2>1, <2>2, <2>3, <2>4, <1>1
  <1>19. ~end => PartRight(enc, nonce0, c, m, d, x + n)
    <2>1. SUFFICES ASSUME ~end PROVE PartRight(enc, nonce0, c, m, d, x + n)
      OBVIOUS
    <2>2. x + n <= z
      <3>1. x + n # c.end + 1 /\ x + n <= c.end + 1
        BY <2>1, <1>14
      <3> QED BY <3>1, <1>8
    <2>3. d.limit = (c.end + 1) - (x + n)
      BY <1>6, <1>8, <1>18
    <2>4. CASE n < len
      <3>1. PICK xn \in Nat : xn = x + n
        OBVIOUS
      <3>2. Run(d.buf, PartStart(c.part) + xn,
                PartStart(c.part) + b * BlockData + BlockBytes(c.part, b))
        BY <3>1, <1>8, <1>12, <1>18
      <3>3. HoldsRight(nonce0, c, u, (u.end + 1) - m.limit, d, xn)
        BY <3>1, <3>2, <2>3, <2>4, <1>6, <1>7, <1>12, <1>15, <1>18 DEF HoldsRight
      <3> QED BY <3>1, <3>3, <1>1, <1>4, <1>5, <1>15, <1>18 DEF PartRight, DecRight
    <2>5. CASE n = len
      <3>1. PICK xn \in Nat : xn = x + n /\ xn = y
        BY <2>5, <1>9
      <3>2. b # FirstBlock(c.end)
        <4>1. SUFFICES ASSUME b = FirstBlock(c.end) PROVE FALSE
          OBVIOUS
        <4>2. z < y
          BY <4>1, <1>2, <1>8, CoveredBlock
        <4> QED BY <4>2, <3>1, <2>2
      <3>3. PICK b1 \in Covers(c) : b1 = b + 1 /\ BlockEnd(c.part, b) = BlockAt(b1)
                                    /\ BlockAt(b1) \in Nat /\ xn = b1 * BlockData
        <4>1. b + 1 \in Covers(c) /\ BlockEnd(c.part, b) = BlockAt(b + 1)
          BY <3>2, <1>2, CoversIs
        <4>2. PICK b1 \in Covers(c) : b1 = b + 1
          BY <4>1
        <4>3. BlockAt(b1) \in Nat
          BY <1>2, CoversIs
        <4>4. xn = (b + 1) * BlockData
          BY <3>1, <3>2, <1>2, <1>8, CoveredBlock
        <4> QED BY <4>1, <4>2, <4>3, <4>4
      <3>4. rest = <<>>
        BY <2>5, <1>12
      <3>5. Slice(S, <<>>, BlockAt(b1), BlockAt(b1))
        BY <3>3 DEF Slice
      <3>6. Len(<<>>) <= BlockSize
        BY SealedSizesAre
      <3>7. FillsRight(S, nonce0, c, u, (u.end + 1) - m.limit, d, xn)
        <4>1. /\ d.pc \in {"seek", "data"} /\ d.pc # "seek" /\ d.buf = <<>>
              /\ u.end + 1 = RangeEnd(c) /\ d.limit = (c.end + 1) - xn
          BY <3>1, <3>4, <2>3, <1>6, <1>18
        <4>2. d.nonce = NonceOf(nonce0, b1)
          BY <3>3, <1>7, <1>18
        <4>3. Slice(S, d.raw, BlockAt(b1), (u.end + 1) - m.limit) /\ Len(d.raw) <= BlockSize
          BY <3>3, <3>5, <3>6, <1>7, <1>15, <1>18
        <4> QED BY <4>1, <4>2, <4>3, <3>3 DEF FillsRight
      <3> QED BY <3>1, <3>7, <1>1, <1>4, <1>5, <1>15, <1>18 DEF PartRight, DecRight
    <2> QED BY <2>4, <2>5, <1>10
  <1>20. /\ status = "reading" /\ c = Covered[pos] /\ c.start <= x /\ x <= c.end
         /\ request.start + Len(out) = PartStart(c.part) + x
         /\ Run(data, PartStart(c.part) + x, PartStart(c.part) + x + n)
    BY <1>1, <1>2, <1>3, <1>11
  <1>21. n <= remaining
    BY <1>10
  <1> QED BY <1>14, <1>16, <1>17, <1>19, <1>20, <1>21, DeliverStep

(* What is pulled into the buffer of the decrypter follows what is there.    *)
LEMMA PullKeeps ==
    ASSUME NEW S, NEW c, NEW u, Reading(S, c, u, mr), DecShape(dec),
           NEW N \in Nat \ {0}, NEW a \in Int, Slice(S, dec.raw, a, (u.end + 1) - mr.limit),
           Pull(N)
    PROVE  \E v, d : /\ mr' = v /\ dec' = d /\ Reading(S, c, u, v) /\ DecShape(d)
                     /\ d.pc = dec.pc /\ d.nonce = dec.nonce /\ d.buf = dec.buf
                     /\ d.limit = dec.limit
                     /\ Slice(S, d.raw, a, (u.end + 1) - v.limit) /\ Len(d.raw) <= N
  <1>1. RangeOf(u) /\ ReaderRight(S, u, mr) /\ u.part = c.part /\ u.end < Len(S)
    BY DEF Reading
  <1>2. PICK at \in Int, had \in Nat :
          at = (u.end + 1) - mr.limit /\ had = Len(dec.raw) /\ had = at - a
    <2>1. u.end \in Nat /\ mr.limit \in Nat
      BY <1>1 DEF RangeOf, ReaderRight, MrShape
    <2>2. PICK at \in Int : at = (u.end + 1) - mr.limit
      BY <2>1
    <2>3. Len(dec.raw) \in Nat /\ Len(dec.raw) = at - a
      <3>1. PICK raw : raw = dec.raw
        OBVIOUS
      <3>2. Slice(S, raw, a, at)
        BY <2>2, <3>1
      <3>3. Len(raw) \in Nat /\ Len(raw) = at - a
        BY <2>2, <3>2, SliceIs
      <3> QED BY <3>1, <3>3
    <2> QED BY <2>2, <2>3
  <1>3. PICK k \in Nat \ {0} : k = N - Len(dec.raw) /\ had + k = N
    <2>1. Len(dec.raw) < N
      BY DEF Pull
    <2> QED BY <2>1, <1>2
  <1>4. PICK n \in Nat, from \in Int, v \in MrShape :
           /\ v = AfterTaking(k) /\ ReaderRight(S, u, v)
           /\ n = Len(Taken(k)) /\ 1 <= n /\ n <= k
           /\ v.limit = mr.limit - n /\ from = (u.end + 1) - mr.limit
           /\ Slice(S, Taken(k), from, from + n)
    BY <1>1, <1>3, TakingKeeps DEF Pull
  <1>5. mr' = v /\ dec' = [dec EXCEPT !.raw = @ \o Taken(k)]
    BY <1>3, <1>4 DEF Pull
  <1>6. PICK t : t = Taken(k) /\ Slice(S, t, at, at + n)
    BY <1>2, <1>4
  <1>7. Slice(S, dec.raw \o t, a, at + n)
    <2>1. PICK z \in Int : z = at + n
      OBVIOUS
    <2> QED BY <2>1, <1>2, <1>6, SlicesJoin
  <1>8. at + n = (u.end + 1) - v.limit
    <2>1. u.end \in Nat /\ mr.limit \in Nat
      BY <1>1 DEF RangeOf, ReaderRight, MrShape
    <2>2. PICK e \in Nat, lim \in Nat : e = u.end + 1 /\ lim = mr.limit
      BY <2>1
    <2>3. at = e - lim /\ v.limit = lim - n
      BY <2>2, <1>2, <1>4
    <2>4. at + n = e - (lim - n)
      BY <2>3
    <2> QED BY <2>2, <2>3, <2>4
  <1>9. Len(dec.raw \o t) <= N
    <2>1. PICK z \in Int : z = at + n
      OBVIOUS
    <2>2. Len(dec.raw \o t) = z - a
      BY <2>1, <1>7, SliceIs
    <2>3. z - a = had + n
      BY <2>1, <1>2
    <2>4. had + n <= N
      <3>1. n <= k
        BY <1>4
      <3>2. had + k = N
        BY <1>3
      <3> QED BY <3>1, <3>2
    <2> QED BY <2>2, <2>3, <2>4
  <1>10. PICK pc, nonce, raw, buf, limit :
          dec = [pc |-> pc, nonce |-> nonce, raw |-> raw, buf |-> buf, limit |-> limit]
    BY DEF DecShape
  <1>11. PICK d : dec' = d /\ d = [pc |-> pc, nonce |-> nonce, raw |-> dec.raw \o t,
                                   buf |-> buf, limit |-> limit]
    BY <1>5, <1>6, <1>10
  <1>12. DecShape(d)
    BY <1>11, Zenon DEF DecShape
  <1>13. /\ d.pc = dec.pc /\ d.nonce = dec.nonce /\ d.buf = dec.buf /\ d.limit = dec.limit
         /\ d.raw = dec.raw \o t
    BY <1>10, <1>11
  <1>14. Reading(S, c, u, v)
    BY <1>1, <1>4 DEF Reading
  <1> QED BY <1>5, <1>7, <1>8, <1>9, <1>11, <1>12, <1>13, <1>14

(* Filling the header or a block of a decrypter sends nothing.               *)
LEMMA DecPullStep ==
    ASSUME StreamInv, DecPull
    PROVE  StreamInv' /\ Transfer!Wait
  <1>1. /\ status = "reading" /\ enc
        /\ \/ dec.pc = "header" /\ Pull(HeaderSize)
           \/ dec.pc = "seek" /\ Pull(BlockSize)
           \/ dec.pc = "data" /\ dec.buf = <<>> /\ Pull(BlockSize)
    BY DEF DecPull
  <1>2. PICK c : c = Covered[pos] /\ PartRange(c) /\ nonce0 \in Nonces
    BY <1>1, ServingIs
  <1>3. PICK x \in Nat : /\ c.start <= x /\ x <= c.end
                         /\ request.start + Len(out) = PartStart(c.part) + x
                         /\ PartRight(enc, nonce0, c, mr, dec, x)
    BY <1>1, <1>2, ServingIs
  <1>4. PICK S : S = Sealed[c.part][nonce0] /\ S = Content(enc, nonce0, c.part)
    BY <1>1 DEF Content
  <1>5. PICK u, at : /\ Reading(S, c, u, mr) /\ DecShape(dec) /\ at = (u.end + 1) - mr.limit
                     /\ \/ HeaderRight(S, c, u, at, dec, x)
                        \/ FillsRight(S, nonce0, c, u, at, dec, x)
                        \/ HoldsRight(nonce0, c, u, at, dec, x)
    BY <1>1, <1>3, <1>4 DEF PartRight, DecRight
  <1>6. UNCHANGED <<enc, nonce0, request, status, pos, remaining, out>>
    BY <1>1 DEF Pull
  <1>7. \E v, d : mr' = v /\ dec' = d /\ PartRight(enc, nonce0, c, v, d, x)
    <2>1. CASE HeaderRight(S, c, u, at, dec, x)
      <3>1. Pull(HeaderSize) /\ dec.pc = "header"
        BY <2>1, <1>1 DEF HeaderRight
      <3>2. PICK N \in Nat \ {0}, a \in Int : N = HeaderSize /\ a = 0
        BY SealedSizesAre
      <3>3. Slice(S, dec.raw, a, (u.end + 1) - mr.limit)
        BY <2>1, <3>2, <1>5 DEF HeaderRight
      <3>4. PICK v, d : /\ mr' = v /\ dec' = d /\ Reading(S, c, u, v) /\ DecShape(d)
                        /\ d.pc = dec.pc /\ d.nonce = dec.nonce /\ d.buf = dec.buf
                        /\ d.limit = dec.limit
                        /\ Slice(S, d.raw, a, (u.end + 1) - v.limit) /\ Len(d.raw) <= N
        BY <3>1, <3>2, <3>3, <1>5, PullKeeps
      <3>5. PICK at1 \in Int : at1 = (u.end + 1) - v.limit
        <4>1. u.end \in Nat /\ v.limit \in Nat
          BY <3>4 DEF Reading, RangeOf, ReaderRight, MrShape
        <4> QED BY <4>1
      <3>6. at1 <= HeaderSize
        <4>1. Len(d.raw) = at1 - a
          BY <3>4, <3>5, SliceIs
        <4> QED BY <4>1, <3>2, <3>4
      <3>7. HeaderRight(S, c, u, at1, d, x)
        BY <2>1, <3>2, <3>4, <3>5, <3>6 DEF HeaderRight
      <3> QED BY <3>4, <3>5, <3>7, <1>1, <1>4 DEF PartRight, DecRight
    <2>2. CASE FillsRight(S, nonce0, c, u, at, dec, x)
      <3>1. Pull(BlockSize)
        BY <2>2, <1>1 DEF FillsRight
      <3>2. PICK b \in Covers(c) :
              /\ dec.nonce = NonceOf(nonce0, b)
              /\ Slice(S, dec.raw, BlockAt(b), at) /\ Len(dec.raw) <= BlockSize
              /\ IF dec.pc = "seek" THEN b = FirstBlock(c.start) /\ x = c.start
                 ELSE x = b * BlockData
        BY <2>2 DEF FillsRight
      <3>3. PICK N \in Nat \ {0}, a \in Int : N = BlockSize /\ a = BlockAt(b)
        <4>1. BlockSize \in Nat \ {0} /\ BlockAt(b) \in Int
          BY <1>2, CoversIs, SealedSizesAre
        <4> QED BY <4>1
      <3>4. PICK v, d : /\ mr' = v /\ dec' = d /\ Reading(S, c, u, v) /\ DecShape(d)
                        /\ d.pc = dec.pc /\ d.nonce = dec.nonce /\ d.buf = dec.buf
                        /\ d.limit = dec.limit
                        /\ Slice(S, d.raw, a, (u.end + 1) - v.limit) /\ Len(d.raw) <= N
        BY <3>1, <3>2, <3>3, <1>5, PullKeeps
      <3>5. PICK at1 : at1 = (u.end + 1) - v.limit
        OBVIOUS
      <3>6. FillsRight(S, nonce0, c, u, at1, d, x)
        BY <2>2, <3>2, <3>3, <3>4, <3>5 DEF FillsRight
      <3> QED BY <3>4, <3>5, <3>6, <1>1, <1>4 DEF PartRight, DecRight
    <2>3. ~HoldsRight(nonce0, c, u, at, dec, x)
      BY <1>1 DEF HoldsRight
    <2> QED BY <2>1, <2>2, <2>3, <1>5
  <1>8. PICK v, d : mr' = v /\ dec' = d /\ PartRight(enc, nonce0, c, v, d, x)
    BY <1>7
  <1> QED BY <1>1, <1>2, <1>3, <1>6, <1>8, QuietStep

(* The header is whole, so it is a header: the decrypter begins with the     *)
(* first block of the range, at the nonce of that block.                     *)
LEMMA DecHeaderStep ==
    ASSUME StreamInv, DecHeader
    PROVE  StreamInv' /\ Transfer!Wait
  <1>1. status = "reading" /\ dec.pc = "header" /\ (Len(dec.raw) = HeaderSize \/ AtEnd)
    BY DEF DecHeader
  <1>2. PICK c : c = Covered[pos] /\ PartRange(c) /\ nonce0 \in Nonces /\ enc \in BOOLEAN
    BY <1>1, ServingIs
  <1>3. PICK x \in Nat : /\ c.start <= x /\ x <= c.end
                         /\ request.start + Len(out) = PartStart(c.part) + x
                         /\ PartRight(enc, nonce0, c, mr, dec, x)
    BY <1>1, <1>2, ServingIs
  <1>4. enc
    BY <1>1, <1>3 DEF PartRight, DecRight
  <1>5. PICK S : S = Sealed[c.part][nonce0] /\ S = Content(enc, nonce0, c.part)
    BY <1>4 DEF Content
  <1>6. PICK u, at : /\ Reading(S, c, u, mr) /\ DecShape(dec) /\ at = (u.end + 1) - mr.limit
                     /\ HeaderRight(S, c, u, at, dec, x)
    <2>1. PICK u, at : /\ Reading(S, c, u, mr) /\ DecShape(dec) /\ at = (u.end + 1) - mr.limit
                       /\ \/ HeaderRight(S, c, u, at, dec, x)
                          \/ FillsRight(S, nonce0, c, u, at, dec, x)
                          \/ HoldsRight(nonce0, c, u, at, dec, x)
      BY <1>3, <1>4, <1>5 DEF PartRight, DecRight
    <2>2. /\ ~FillsRight(S, nonce0, c, u, at, dec, x)
          /\ ~HoldsRight(nonce0, c, u, at, dec, x)
      BY <1>1 DEF FillsRight, HoldsRight
    <2> QED BY <2>1, <2>2
  <1>7. PICK first \in Covers(c), last \in Covers(c) :
          first = FirstBlock(c.start) /\ last = FirstBlock(c.end)
    BY <1>2, CoversIs
  <1>8. PICK h \in Nat \ {0}, z \in Nat, size \in Nat :
          /\ h = HeaderSize /\ z = RangeEnd(c) /\ size = SealedSize(c.part) /\ size = Len(S)
          /\ h < z /\ z <= size /\ u.end + 1 = IF c.start # 0 THEN h ELSE z
    <2>1. Len(S) \in Nat /\ Len(S) = SealedSize(c.part)
      BY <1>2, <1>4, <1>5, ContentIs DEF PartRange
    <2>2. PICK a \in Nat, z \in Nat, t \in Nat :
            a = BlockAt(last) /\ t = TagSize /\ z = RangeEnd(c) /\ HeaderSize <= a
            /\ a + t < z /\ z <= SealedSize(c.part)
      <3>1. TagSize \in Nat
        BY SealedSizesAre
      <3> QED BY <3>1, <1>2, <1>7, CoversIs DEF RangeEnd
    <2>3. PICK h \in Nat \ {0} : h = HeaderSize
      BY SealedSizesAre
    <2>4. h < z
      BY <2>2, <2>3
    <2>5. u.end + 1 = IF c.start # 0 THEN h ELSE z
      BY <2>2, <2>3, <1>6 DEF HeaderRight
    <2> QED BY <2>1, <2>2, <2>3, <2>4, <2>5
  <1>9. at = h /\ Slice(S, dec.raw, 0, h) /\ x = c.start /\ dec.buf = <<>>
        /\ dec.limit = c.end - c.start + 1
    <2>1. Slice(S, dec.raw, 0, at) /\ at <= h /\ x = c.start /\ dec.buf = <<>>
          /\ dec.limit = c.end - c.start + 1
      BY <1>6, <1>8 DEF HeaderRight
    <2>2. mr.limit \in Nat /\ u.end \in Nat
      BY <1>6 DEF Reading, RangeOf, ReaderRight, MrShape
    <2>3. at \in Int /\ Len(dec.raw) = at
      <3>1. at \in Int
        BY <2>2, <1>6
      <3>2. PICK a \in Int, g \in Int : a = 0 /\ g = at
        BY <3>1
      <3>3. Slice(S, dec.raw, a, g)
        BY <2>1, <3>2
      <3>4. Len(dec.raw) = g - a
        BY <3>3, SliceIs
      <3> QED BY <3>2, <3>4
    <2>4. CASE Len(dec.raw) = HeaderSize
      BY <2>1, <2>3, <2>4, <1>8
    <2>5. CASE AtEnd
      <3>1. at = u.end + 1
        BY <2>2, <2>5, <1>6 DEF AtEnd
      <3>2. h <= at
        BY <3>1, <1>8
      <3> QED BY <3>2, <2>1, <2>3
    <2> QED BY <2>4, <2>5, <1>1
  <1>10. dec.raw = [i \in 1 .. HeaderSize |-> HeaderByte(i)]
    <2>1. \A i \in 1 .. h : S[i] = HeaderByte(i)
      <3>1. PICK p \in Parts : p = c.part
        BY <1>2 DEF PartRange
      <3>2. \A i \in 1 .. HeaderSize : S[i] = HeaderByte(i)
        <4>1. S = Sealed[p][nonce0] /\ nonce0 \in Nonces
          BY <3>1, <1>2, <1>5
        <4> QED BY <4>1, SealedIs
      <3> QED BY <3>2, <1>8
    <2>2. dec.raw \in Seq(Bytes) /\ Len(dec.raw) = h - 0
          /\ \A i \in 1 .. Len(dec.raw) : dec.raw[i] = S[0 + i]
      BY <1>9 DEF Slice
    <2>3. \A i \in 1 .. h : dec.raw[i] = HeaderByte(i)
      <3>1. \A i \in 1 .. h : 0 + i = i
        OBVIOUS
      <3>2. h - 0 = h
        OBVIOUS
      <3> QED BY <3>1, <3>2, <2>1, <2>2
    <2>4. dec.raw = [i \in 1 .. h |-> HeaderByte(i)]
      BY <2>2, <2>3
    <2> QED BY <2>4, <1>8
  <1>11. /\ dec' = [dec EXCEPT !.raw = <<>>,
                      !.pc = IF c.start = 0 THEN "data" ELSE "seek",
                      !.nonce = IF c.start = 0 THEN nonce0
                                ELSE AddTo(nonce0, FirstBlock(c.start))]
         /\ mr' = IF c.start = 0 THEN mr
                  ELSE NewMultiReader(c.part, UnderlyingOffset(c.start),
                         StoredEnd(c.part, UnderlyingOffset(c.start)
                                           + UnderlyingLimit(c.start, dec.limit) - 1))
         /\ UNCHANGED <<enc, nonce0, request, status, pos, remaining, out>>
    BY <1>2, <1>10 DEF DecHeader
  <1>12. PICK d : /\ dec' = d /\ DecShape(d) /\ d.raw = <<>> /\ d.buf = <<>>
                  /\ d.limit = (c.end + 1) - x /\ d.nonce = NonceOf(nonce0, first)
                  /\ d.pc = IF c.start = 0 THEN "data" ELSE "seek"
    <2>1. PICK pc, nonce, raw, buf, limit :
            dec = [pc |-> pc, nonce |-> nonce, raw |-> raw, buf |-> buf, limit |-> limit]
      BY <1>6 DEF DecShape
    <2>2. PICK pc1, nonce1 : /\ pc1 = IF c.start = 0 THEN "data" ELSE "seek"
                             /\ nonce1 = IF c.start = 0 THEN nonce0
                                         ELSE AddTo(nonce0, FirstBlock(c.start))
      OBVIOUS
    <2>3. PICK d : dec' = d /\ d = [pc |-> pc1, nonce |-> nonce1, raw |-> <<>>,
                                    buf |-> buf, limit |-> limit]
      BY <2>1, <2>2, <1>11
    <2>4. DecShape(d)
      BY <2>3, Zenon DEF DecShape
    <2>5. nonce1 = NonceOf(nonce0, first)
      <3>1. first \in 0 .. Blocks(c.part) - 1
        BY <1>2, CoversIs
      <3>2. AddTo(nonce0, first) = NonceOf(nonce0, first) /\ NonceOf(nonce0, 0) = nonce0
        BY <3>1, <1>2, NextNonce DEF PartRange
      <3>3. c.start = 0 => first = 0
        BY <1>2, <1>7, UnderlyingIs
      <3> QED BY <3>2, <3>3, <2>2, <1>7
    <2>6. limit = (c.end + 1) - x
      <3>1. limit = c.end - c.start + 1
        BY <2>1, <1>9
      <3> QED BY <3>1, <1>2, <1>9 DEF PartRange, RangeOf
    <2>7. buf = <<>>
      BY <2>1, <1>9
    <2> QED BY <2>2, <2>3, <2>4, <2>5, <2>6, <2>7
  <1>13. PICK v, u1 : /\ mr' = v /\ Reading(S, c, u1, v) /\ u1.end + 1 = RangeEnd(c)
                      /\ (u1.end + 1) - v.limit = BlockAt(first)
    <2>1. CASE c.start = 0
      <3>1. BlockAt(0) = h
        <4>1. PICK B \in Nat : B = BlockSize
          BY SealedSizesAre
        <4>2. 0 * B = 0
          OBVIOUS
        <4> QED BY <4>1, <4>2, <1>8 DEF BlockAt
      <3>2. first = 0
        BY <2>1, <1>2, <1>7, UnderlyingIs
      <3>3. PICK v : v = mr /\ mr' = v
        BY <2>1, <1>11
      <3> QED BY <2>1, <3>1, <3>2, <3>3, <1>6, <1>8, <1>9
    <2>2. CASE c.start # 0
      <3>1. PICK a \in Nat, w \in Nat :
              /\ a = BlockAt(first) /\ a = UnderlyingOffset(c.start)
              /\ w = UnderlyingLimit(c.start, dec.limit) /\ a + w = BlockAt(last + 1)
        <4>1. BlockAt(first) \in Nat
          BY <1>2, CoversIs
        <4>2. UnderlyingOffset(c.start) = BlockAt(first)
          BY <1>7 DEF UnderlyingOffset, BlockAt
        <4>3. /\ UnderlyingLimit(c.start, c.end - c.start + 1) \in Nat
              /\ BlockAt(first) + UnderlyingLimit(c.start, c.end - c.start + 1)
                 = BlockAt(last + 1)
          BY <1>2, <1>7, UnderlyingIs
        <4> QED BY <4>1, <4>2, <4>3, <1>9
      <3>2. StoredEnd(c.part, a + (w - 1)) = z - 1
        <4>1. a + (w - 1) = BlockAt(last + 1) - 1
          BY <3>1
        <4>2. LesserOf(size - 1, BlockAt(last + 1) - 1) = z - 1
          BY <1>2, <1>7, <1>8, UnderlyingIs
        <4>3. Stored(c.part) = S
          BY <1>5, StoredIs
        <4> QED BY <4>1, <4>2, <4>3, <1>8 DEF StoredEnd
      <3>3. mr' = NewMultiReader(c.part, a, z - 1)
        <4>1. mr' = NewMultiReader(c.part, UnderlyingOffset(c.start),
                       StoredEnd(c.part, UnderlyingOffset(c.start)
                                         + UnderlyingLimit(c.start, dec.limit) - 1))
          BY <2>2, <1>11
        <4>2. mr' = NewMultiReader(c.part, a, StoredEnd(c.part, a + w - 1))
          BY <4>1, <3>1
        <4> QED BY <4>2, <3>2
      <3>4. a < z
        <4>1. PICK t \in Nat, g \in Nat : t = TagSize /\ g = BlockEnd(c.part, first)
                                          /\ a + t < g /\ g <= z
          <5>1. TagSize \in Nat
            BY SealedSizesAre
          <5> QED BY <5>1, <3>1, <1>2, <1>8, CoversIs
        <4> QED BY <4>1
      <3>5. PICK v : mr' = v /\ v = NewMultiReader(c.part, a, z - 1)
        BY <3>3
      <3>6. c.part \in Nat /\ z <= Len(S)
        BY <1>2, <1>8, PartIs DEF PartRange
      <3>7. \E u1 : Reading(S, c, u1, v) /\ u1.end + 1 = z /\ (u1.end + 1) - v.limit = a
        <4>1. ReadsBetween(S, c, a, z, v)
          BY <3>4, <3>5, <3>6, ReadingFrom
        <4> QED BY <4>1 DEF ReadsBetween
      <3> QED BY <3>1, <3>5, <3>7, <1>8
    <2> QED BY <2>1, <2>2
  <1>14. FillsRight(S, nonce0, c, u1, BlockAt(first), d, x)
    <2>1. Slice(S, <<>>, BlockAt(first), BlockAt(first))
      <3>1. BlockAt(first) \in Nat
        BY <1>2, CoversIs
      <3> QED BY <3>1 DEF Slice
    <2>2. Len(<<>>) <= BlockSize
      BY SealedSizesAre
    <2>3. IF d.pc = "seek" THEN first = FirstBlock(c.start) /\ x = c.start
          ELSE x = first * BlockData
      <3>1. CASE c.start = 0
        <4>1. first = 0
          BY <3>1, <1>2, <1>7, UnderlyingIs
        <4>2. PICK D \in Nat : D = BlockData
          BY SealedSizesAre
        <4>3. 0 * D = 0
          OBVIOUS
        <4> QED BY <3>1, <4>1, <4>2, <4>3, <1>9, <1>12
      <3>2. CASE c.start # 0
        BY <3>2, <1>7, <1>9, <1>12
      <3> QED BY <3>1, <3>2
    <2>4. d.pc \in {"seek", "data"}
      BY <1>12
    <2> QED BY <2>1, <2>2, <2>3, <2>4, <1>12, <1>13 DEF FillsRight
  <1>15. PartRight(enc, nonce0, c, v, d, x)
    BY <1>4, <1>5, <1>12, <1>13, <1>14 DEF PartRight, DecRight
  <1> QED BY <1>1, <1>2, <1>3, <1>11, <1>12, <1>13, <1>15, QuietStep

(* The block is whole, so it opens, to what follows the last byte sent.      *)
LEMMA DecOpenStep ==
    ASSUME StreamInv, DecOpen
    PROVE  StreamInv' /\ Transfer!Wait
  <1>1. /\ status = "reading" /\ dec.pc \in {"seek", "data"} /\ dec.buf = <<>>
        /\ Len(dec.raw) = BlockSize \/ AtEnd
    BY DEF DecOpen
  <1>2. PICK c : c = Covered[pos] /\ PartRange(c) /\ nonce0 \in Nonces /\ enc \in BOOLEAN
    BY <1>1, ServingIs
  <1>3. PICK x \in Nat : /\ c.start <= x /\ x <= c.end
                         /\ request.start + Len(out) = PartStart(c.part) + x
                         /\ PartRight(enc, nonce0, c, mr, dec, x)
    BY <1>1, <1>2, ServingIs
  <1>4. enc
    BY <1>1, <1>3 DEF PartRight, DecRight
  <1>5. PICK S : S = Sealed[c.part][nonce0] /\ S = Content(enc, nonce0, c.part)
    BY <1>4 DEF Content
  <1>6. PICK u, at : /\ Reading(S, c, u, mr) /\ DecShape(dec) /\ at = (u.end + 1) - mr.limit
                     /\ FillsRight(S, nonce0, c, u, at, dec, x)
    <2>1. PICK u, at : /\ Reading(S, c, u, mr) /\ DecShape(dec) /\ at = (u.end + 1) - mr.limit
                       /\ \/ HeaderRight(S, c, u, at, dec, x)
                          \/ FillsRight(S, nonce0, c, u, at, dec, x)
                          \/ HoldsRight(nonce0, c, u, at, dec, x)
      BY <1>3, <1>4, <1>5 DEF PartRight, DecRight
    <2>2. /\ ~HeaderRight(S, c, u, at, dec, x)
          /\ ~HoldsRight(nonce0, c, u, at, dec, x)
      BY <1>1 DEF HeaderRight, HoldsRight
    <2> QED BY <2>1, <2>2
  <1>7. PICK b \in Covers(c) :
          /\ dec.nonce = NonceOf(nonce0, b)
          /\ Slice(S, dec.raw, BlockAt(b), at) /\ Len(dec.raw) <= BlockSize
          /\ IF dec.pc = "seek" THEN b = FirstBlock(c.start) /\ x = c.start
             ELSE x = b * BlockData
    BY <1>6 DEF FillsRight
  <1>8. at = BlockEnd(c.part, b)
    <2>1. PICK a \in Nat, g \in Nat, z \in Nat, B \in Nat, t \in Nat :
            /\ a = BlockAt(b) /\ g = BlockEnd(c.part, b) /\ z = RangeEnd(c) /\ B = BlockSize
            /\ t = TagSize /\ a + t < g /\ g <= a + B /\ g <= z
            /\ b # FirstBlock(c.end) => g = a + B /\ a + B < z
            /\ b = FirstBlock(c.end) => g = z
      <3>1. BlockSize \in Nat /\ TagSize \in Nat
        BY SealedSizesAre
      <3>2. b = FirstBlock(c.end) => BlockEnd(c.part, b) = RangeEnd(c)
        BY DEF RangeEnd
      <3> QED BY <3>1, <3>2, <1>2, CoversIs
    <2>2. mr.limit \in Nat /\ u.end \in Nat /\ u.end + 1 = z
      BY <2>1, <1>6 DEF Reading, RangeOf, ReaderRight, MrShape, FillsRight
    <2>3. PICK lim \in Nat, f \in Int : lim = mr.limit /\ at = f /\ f = z - lim
      BY <2>2, <1>6
    <2>4. PICK len \in Nat : len = Len(dec.raw) /\ len = f - a /\ len <= B
      <3>1. PICK raw : raw = dec.raw
        OBVIOUS
      <3>2. PICK i \in Int : i = a
        OBVIOUS
      <3>3. Slice(S, raw, i, f)
        BY <3>1, <3>2, <2>1, <2>3, <1>7
      <3>4. Len(raw) \in Nat /\ Len(raw) = f - i
        BY <3>3, SliceIs
      <3> QED BY <3>1, <3>2, <3>4, <2>1, <1>7
    <2>5. CASE Len(dec.raw) = BlockSize
      <3>1. len = B
        BY <2>1, <2>4, <2>5
      <3>2. f = a + B /\ f <= z
        BY <3>1, <2>3, <2>4
      <3> QED BY <3>2, <2>1, <2>3
    <2>6. CASE AtEnd
      <3>1. f = z
        BY <2>3, <2>6 DEF AtEnd
      <3>2. z <= a + B
        BY <3>1, <2>4
      <3> QED BY <3>1, <3>2, <2>1, <2>3
    <2> QED BY <2>5, <2>6, <1>1
  <1>9. PICK p \in Parts : p = c.part
    BY <1>2 DEF PartRange
  <1>10. b \in 0 .. Blocks(p) - 1
    BY <1>2, <1>9, CoversIs
  <1>11. PICK base \in Nat, y \in Nat, w \in Nat \ {0}, t \in Nat \ {0} :
           base = PartStart(p) /\ y = b * BlockData /\ w = BlockBytes(p, b) /\ t = TagSize
    BY <1>2, <1>9, CoveredBlock, PartIs, SealedSizesAre
  <1>12. PICK raw, data : raw = dec.raw /\ data = Open(c.part, dec.nonce, dec.raw)
    OBVIOUS
  <1>13. Len(raw) = t + w /\ Run(data, base + y, base + y + w)
    <2>1. Slice(Sealed[p][nonce0], raw, BlockAt(b), BlockEnd(p, b))
          /\ data = Open(p, NonceOf(nonce0, b), raw)
      BY <1>5, <1>7, <1>8, <1>9, <1>12
    <2>2. /\ Len(raw) = TagSize + BlockBytes(p, b)
          /\ Run(data, PartStart(p) + b * BlockData,
                       PartStart(p) + b * BlockData + BlockBytes(p, b))
      BY <2>1, <1>2, <1>10, BlockOpens
    <2> QED BY <2>2, <1>11
  <1>14. Len(data) = w
    <2>1. PICK g \in Int, h \in Int : g = base + y /\ h = base + y + w
      OBVIOUS
    <2>2. Len(data) = h - g
      BY <2>1, <1>13, RunIs
    <2> QED BY <2>1, <2>2
  <1>15. PICK o \in Nat : /\ o = IF dec.pc = "seek" THEN c.start % BlockData ELSE 0
                          /\ o < w /\ x = y + o
    <2>1. CASE dec.pc = "seek"
      <3>1. b = FirstBlock(c.start) /\ x = c.start
        BY <2>1, <1>7
      <3>2. /\ b * BlockData + (c.start % BlockData) = c.start /\ c.start % BlockData \in Nat
            /\ c.start < b * BlockData + BlockBytes(c.part, b)
        BY <3>1, <1>2, UnderlyingIs
      <3>3. PICK o \in Nat : o = c.start % BlockData
        BY <3>2
      <3>4. y + o = x /\ x < y + w
        BY <3>1, <3>2, <3>3, <1>9, <1>11
      <3> QED BY <3>3, <3>4, <2>1
    <2>2. CASE dec.pc # "seek"
      <3>1. x = y
        BY <2>2, <1>7, <1>11
      <3> QED BY <3>1, <2>2
    <2> QED BY <2>1, <2>2
  <1>16. PICK rest : /\ rest = SubSeq(data, o + 1, Len(data))
                     /\ Run(rest, base + x, base + y + w) /\ rest # <<>>
    <2>1. PICK g \in Int, h \in Int : g = base + y /\ h = base + y + w
      OBVIOUS
    <2>2. Run(data, g, h) /\ o <= w /\ w <= Len(data)
      BY <2>1, <1>13, <1>14, <1>15
    <2>3. PICK rest : rest = SubSeq(data, o + 1, w) /\ Run(rest, g + o, g + w)
      BY <2>2, SliceOfRun
    <2>4. g + o = base + x /\ g + w = base + y + w
      BY <2>1, <1>15
    <2>5. rest # <<>>
      <3>1. PICK i \in Int, j \in Int : i = g + o /\ j = g + w
        OBVIOUS
      <3>2. Len(rest) = j - i
        BY <3>1, <2>3, RunIs
      <3>3. j - i # 0
        BY <3>1, <1>15
      <3> QED BY <3>2, <3>3
    <2> QED BY <2>3, <2>4, <2>5, <1>14
  <1>17. /\ dec' = [dec EXCEPT !.pc = "data", !.raw = <<>>, !.nonce = Increment(@),
                       !.buf = rest]
         /\ UNCHANGED <<enc, nonce0, request, status, pos, remaining, mr, out>>
    <2>1. ~(Len(dec.raw) <= TagSize)
      BY <1>11, <1>12, <1>13
    <2>2. ~(o > Len(data))
      BY <1>14, <1>15
    <2> QED BY <2>1, <2>2, <1>2, <1>12, <1>15, <1>16 DEF DecOpen
  <1>18. PICK d : /\ dec' = d /\ DecShape(d) /\ d.pc = "data" /\ d.raw = <<>> /\ d.buf = rest
                  /\ d.limit = (c.end + 1) - x /\ d.nonce = NonceOf(nonce0, b + 1)
    <2>1. PICK pc, nonce, raw0, buf, limit :
            dec = [pc |-> pc, nonce |-> nonce, raw |-> raw0, buf |-> buf, limit |-> limit]
      BY <1>6 DEF DecShape
    <2>2. PICK nonce1 : nonce1 = Increment(dec.nonce)
      OBVIOUS
    <2>3. PICK d : dec' = d /\ d = [pc |-> "data", nonce |-> nonce1, raw |-> <<>>,
                                    buf |-> rest, limit |-> limit]
      BY <2>1, <2>2, <1>17
    <2>4. DecShape(d)
      BY <2>3, Zenon DEF DecShape
    <2>5. nonce1 = NonceOf(nonce0, b + 1)
      BY <2>2, <1>2, <1>7, <1>10, NextNonce
    <2>6. limit = (c.end + 1) - x
      BY <2>1, <1>6 DEF FillsRight
    <2> QED BY <2>3, <2>4, <2>5, <2>6
  <1>19. PICK v : v = mr /\ mr' = v
    BY <1>17
  <1>20. HoldsRight(nonce0, c, u, (u.end + 1) - v.limit, d, x)
    <2>1. Run(d.buf, PartStart(c.part) + x,
                 PartStart(c.part) + b * BlockData + BlockBytes(c.part, b))
      BY <1>9, <1>11, <1>16, <1>18
    <2>2. u.end + 1 = RangeEnd(c)
      BY <1>6 DEF FillsRight
    <2>3. (u.end + 1) - v.limit = BlockEnd(c.part, b)
      BY <1>6, <1>8, <1>19
    <2> QED BY <2>1, <2>2, <2>3, <1>16, <1>18 DEF HoldsRight
  <1>21. PartRight(enc, nonce0, c, v, d, x)
    BY <1>4, <1>5, <1>6, <1>18, <1>19, <1>20 DEF PartRight, DecRight
  <1> QED BY <1>1, <1>2, <1>3, <1>17, <1>18, <1>19, <1>21, QuietStep

(* The invariant holds before the first request.                             *)
LEMMA StreamInvInit == Init => StreamInv /\ Transfer!Init
  <1> SUFFICES ASSUME Init PROVE StreamInv /\ Transfer!Init
    OBVIOUS
  <1>1. enc \in BOOLEAN
    BY StreamAssumption DEF Init
  <1> QED BY <1>1 DEF Init, StreamInv, NoReader, Transfer!Init

(* A step keeps the invariant and is one of a range transfer.                *)
LEMMA StepIsTransfer ==
    ASSUME StreamInv, [Next]_vars
    PROVE  StreamInv' /\ [Transfer!Next /\ (mr.pc = "failed")' \in BOOLEAN]_(Transfer!vars)
  <1>1. ASSUME NEW first \in 0 .. Size + 1 \cup {None}, NEW last \in 0 .. Size + 1 \cup {None},
               Request(first, last)
        PROVE  StreamInv' /\ Transfer!Next
    BY <1>1, RequestStep DEF Transfer!Next
  <1>2. CASE Fill \/ FetchFails
    BY <1>2, FillStep DEF Transfer!Next
  <1>3. CASE Disconnect
    BY <1>3, BreakOffStep DEF Transfer!Next
  <1>4. CASE Read
    <2>1. ASSUME NEW k \in ReadSizes, ReadPlain(k) \/ ReadDecrypted(k)
          PROVE  StreamInv' /\ Transfer!Next
      <3>1. k \in Nat \ {0}
        BY StreamAssumption
      <3> QED BY <3>1, <2>1, ReadPlainStep, ReadDecryptedStep DEF Transfer!Next
    <2>2. CASE ReadFails
      BY <2>2, BreakOffStep DEF Transfer!Next
    <2>3. CASE DecPull \/ DecHeader \/ DecOpen
      BY <2>3, DecPullStep, DecHeaderStep, DecOpenStep DEF Transfer!Next
    <2> QED BY <1>4, <2>1, <2>2, <2>3 DEF Read
  <1>5. CASE UNCHANGED vars
    <2>1. UNCHANGED Transfer!vars
      BY <1>5 DEF vars, Transfer!vars
    <2>2. Covered' = Covered
      BY <1>5 DEF vars, Covered
    <2>3. StreamInv'
      BY <2>2, <1>5 DEF vars, StreamInv, Serving
    <2> QED BY <2>1, <2>3
  <1> QED BY <1>1, <1>2, <1>3, <1>4, <1>5 DEF Next

-----------------------------------------------------------------------------
(* What serving a range of a file does, encrypted or not, for parts, chunks, *)
(* batches, channels, blocks, nonces and reads of any size: it implements    *)
(* RangeTransfer.  The bytes sent are those of the range, in order and each  *)
(* once, over the boundaries of chunks, blocks and parts (tgMultiReader,     *)
(* decrypter, Reader), in whatever order fillBatch's goroutines get their    *)
(* chunks and from whatever block RangeSeek starts; every block opens; the   *)
(* answer ends with the last byte, and breaks off only after a fault.        *)
THEOREM RangeIsTransferred == Spec => ImplementsTransfer
  <1>1. Init => StreamInv /\ Transfer!Init
    BY StreamInvInit
  <1>2. StreamInv /\ [Next]_vars
        => StreamInv' /\ [Transfer!Next /\ (mr.pc = "failed")' \in BOOLEAN]_(Transfer!vars)
    BY StepIsTransfer
  <1> QED BY <1>1, <1>2, PTL DEF Spec, ImplementsTransfer, Transfer!Spec

(* The invariant keeps slices and ranges within their bounds.                *)
LEMMA StreamInvBounds == StreamInv => WithinBounds
  <1> SUFFICES ASSUME StreamInv PROVE WithinBounds
    OBVIOUS
  <1>1. ASSUME NEW i \in Batch, mr.pc = "filling"
        PROVE  /\ Cut(i)[1] <= Cut(i)[2]
               /\ mr.current + i + 1 = mr.total => Cut(i)[2] <= Len(Chunk(i))
    <2>1. status = "reading"
      BY <1>1 DEF StreamInv
    <2>2. PICK c : c = Covered[pos] /\ PartRange(c) /\ enc \in BOOLEAN /\ nonce0 \in Nonces
      BY <2>1, ServingIs
    <2>3. PICK x \in Nat : PartRight(enc, nonce0, c, mr, dec, x)
      BY <2>1, <2>2, ServingIs
    <2>4. PICK S : S = Content(enc, nonce0, c.part) /\ S = Stored(c.part) /\ S \in Seq(Bytes)
      BY <2>2, StoredIs, ContentIs DEF PartRange
    <2>5. PICK u : Reading(S, c, u, mr)
      BY <2>3, <2>4 DEF PartRight
    <2>6. StoredRange(S, u) /\ ReaderRight(S, u, mr)
      BY <2>4, <2>5 DEF Reading, StoredRange
    <2>7. Cut(i)[1] < Cut(i)[2] /\ Cut(i)[2] <= Len(Chunk(i))
      BY <2>6, <1>1, FetchedIs
    <2>8. Cut(i)[1] \in Int /\ Cut(i)[2] \in Int
      <3>1. /\ mr.leftCut \in Nat /\ mr.rightCut \in Nat /\ mr.chunk \in Nat
        BY <2>6 DEF ReaderRight, MrShape
      <3> QED BY <3>1 DEF Cut
    <2> QED BY <2>7, <2>8
  <1>2. ASSUME status = "reading", NEW i \in DOMAIN Covered
        PROVE  /\ Covered[i].part \in Parts
               /\ 0 <= Covered[i].start /\ Covered[i].start <= Covered[i].end
    <2>1. request \in Transfer!Ranges
      BY <1>2 DEF StreamInv, Serving
    <2>2. i \in 1 .. Len(Covered) /\ RangeOf(Covered[i]) /\ Covered[i].part \in Parts
      BY <2>1, <1>2, RangesFollow DEF Covered
    <2> QED BY <2>2 DEF RangeOf
  <1> QED BY <1>1, <1>2 DEF WithinBounds

(* No slice of a chunk goes beyond what was fetched, and no part beyond the  *)
(* parts of the file (fillBatch, calculatePartByteRanges), while a range of  *)
(* a file is served.                                                         *)
THEOREM RangeWithinBounds == Spec => []WithinBounds
  <1>1. Init => StreamInv
    BY StreamInvInit
  <1>2. StreamInv /\ [Next]_vars => StreamInv'
    BY StepIsTransfer
  <1>3. StreamInv => WithinBounds
    BY StreamInvBounds
  <1> QED BY <1>1, <1>2, <1>3, PTL DEF Spec

=============================================================================
