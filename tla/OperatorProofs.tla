--------------------------- MODULE OperatorProofs ---------------------------
(***************************************************************************)
(* Lemmas about the operators the processors are made of.                  *)
(*                                                                         *)
(* Arithmetic of words and bytes of every width: powers of two, wrapping,  *)
(* sums over bits, and the single bits of a result.  The provers know      *)
(* nothing about powers and cannot use induction schemes; here induction   *)
(* is about a set of numbers (Induction).                                  *)
(*                                                                         *)
(* What the operations of comp.LRUCache, and those of the memory           *)
(* management unit on top of it, do to any list of lines and any memory.   *)
(***************************************************************************)
EXTENDS Isa, Mmu, FiniteSetTheorems, TLAPS

-----------------------------------------------------------------------------
(* Induction                                                               *)

\* A set with 0 that has n + 1 if it has n has all natural numbers: a smallest one outside
\* could be neither.
LEMMA Induction ==
  ASSUME NEW T, 0 \in T, \A n \in Nat : n \in T => n + 1 \in T
  PROVE  Nat \subseteq T
<1> DEFINE Outside == Nat \ T
           Below == {1..x : x \in Outside}
<1> SUFFICES ASSUME Outside # {} PROVE FALSE
  OBVIOUS
<1>1. Below \subseteq FiniteSubsetsOf(Nat) /\ Below # {}
  <2>1. \A x \in Outside : 1..x \in SUBSET Nat /\ IsFiniteSet(1..x)
    BY FS_Interval
  <2> QED BY <2>1 DEF FiniteSubsetsOf
<1>2. PICK B \in Below : \A C \in Below : ~(<<C, B>> \in StrictSubsetOrdering(Nat))
  BY <1>1, FS_StrictSubsetOrderingWellFounded, WFMin, Zenon
<1>3. PICK x \in Outside : B = 1..x
  OBVIOUS
<1>4. x \in Nat /\ x # 0 /\ x - 1 \in Nat
  OBVIOUS
<1>5. x - 1 \in Outside
  <2>1. x - 1 \in T => (x - 1) + 1 \in T
    BY <1>4
  <2> QED BY <1>4, <2>1
<1>6. 1..x - 1 \subseteq 1..x /\ 1..x - 1 # 1..x
  <2>1. x \in 1..x /\ x \notin 1..x - 1
    BY <1>4
  <2> QED BY <1>4, <2>1
<1>7. <<1..x - 1, B>> \in StrictSubsetOrdering(Nat)
  BY <1>3, <1>6 DEF StrictSubsetOrdering
<1> QED BY <1>2, <1>5, <1>7

-----------------------------------------------------------------------------
(* Powers of two, division, wrapping                                       *)

\* The interval of n numbers has 2^n subsets.
LEMMA SubsetsOfInterval ==
  ASSUME NEW n \in Nat
  PROVE  IsFiniteSet(SUBSET (1..n)) /\ Cardinality(SUBSET (1..n)) = 2^n
<1>1. IsFiniteSet(1..n)
  BY FS_Interval
<1>2. Cardinality(1..n) = n
  BY FS_Interval
<1>3. IsFiniteSet(SUBSET (1..n)) /\ Cardinality(SUBSET (1..n)) = 2^Cardinality(1..n)
  BY <1>1, FS_SUBSET, Zenon
<1> QED BY <1>2, <1>3

\* A power of two is the number of the subsets of a set: with one element more there are
\* twice as many.
LEMMA PowersOfTwo ==
  ASSUME NEW n \in Nat
  PROVE  2^n \in Nat \ {0} /\ 2^(n + 1) = 2 * 2^n
<1> DEFINE A == SUBSET (1..n)
           B == SUBSET (1..n + 1)
           With == {T \cup {n + 1} : T \in A}
           f == [T \in A |-> T \cup {n + 1}]
<1>1. IsFiniteSet(A) /\ Cardinality(A) = 2^n
  BY SubsetsOfInterval, Zenon
<1>2. Cardinality(B) = 2^(n + 1)
  <2>1. n + 1 \in Nat
    OBVIOUS
  <2> QED BY <2>1, SubsetsOfInterval, Zenon
<1>3. B = A \cup With
  <2>1. ASSUME NEW T \in B PROVE T \in A \cup With
    <3>1. CASE n + 1 \notin T
      BY <2>1, <3>1
    <3>2. CASE n + 1 \in T
      <4>1. T \ {n + 1} \in A
        BY <2>1
      <4>2. T = (T \ {n + 1}) \cup {n + 1}
        BY <3>2
      <4> QED BY <4>1, <4>2, Zenon
    <3> QED BY <3>1, <3>2
  <2>2. A \subseteq B
    OBVIOUS
  <2>3. ASSUME NEW T \in A PROVE T \cup {n + 1} \in B
    BY <2>3
  <2>4. With \subseteq B
    BY <2>3, Zenon
  <2> HIDE DEF A, B, With
  <2> QED BY <2>1, <2>2, <2>4
<1>4. A \cap With = {}
  <2>1. \A T \in A : n + 1 \notin T
    OBVIOUS
  <2> QED BY <2>1
<1>5. IsFiniteSet(With) /\ Cardinality(With) = Cardinality(A)
  <2>1. f \in Bijection(A, With)
    <3>1. f \in [A -> With]
      BY Zenon
    <3>2. ASSUME NEW T \in A, NEW U \in A, f[T] = f[U] PROVE T = U
      <4>1. T \cup {n + 1} = U \cup {n + 1}
        BY <3>2, Zenon
      <4>2. n + 1 \notin T /\ n + 1 \notin U
        OBVIOUS
      <4> QED BY <4>1, <4>2
    <3>3. \A U \in With : \E T \in A : f[T] = U
      BY Zenon
    <3>4. f \in Injection(A, With)
      BY <3>1, <3>2, Zenon DEF Injection, IsInjective
    <3>5. f \in Surjection(A, With)
      BY <3>1, <3>3, Zenon DEF Surjection
    <3> QED BY <3>4, <3>5, Zenon DEF Bijection
  <2>2. ExistsBijection(A, With)
    BY <2>1, Zenon DEF ExistsBijection
  <2> QED BY <1>1, <2>2, FS_Bijection, Zenon
<1>6. Cardinality(A \cup With) = Cardinality(A) + Cardinality(With) - Cardinality(A \cap With)
  BY <1>1, <1>5, FS_Union, Zenon
<1>7. Cardinality(A \cap With) = 0
  BY <1>4, FS_EmptySet, Zenon
<1>8. Cardinality(A) \in Nat /\ Cardinality(A) # 0
  <2>1. A # {}
    <3>1. {} \in A
      OBVIOUS
    <3> QED BY <3>1
  <2> QED BY <1>1, <2>1, FS_CardinalityType, FS_EmptySet, Zenon
<1> HIDE DEF A, B, With, f
<1>9. PICK a, b : a = Cardinality(A) /\ b = Cardinality(B) /\ b = 2^(n + 1) /\ a = 2^n
  BY <1>1, <1>2, Zenon
<1>10. Cardinality(With) = a
  BY <1>5, <1>9, Zenon
<1>11. b = a + a - 0
  BY <1>3, <1>6, <1>7, <1>9, <1>10, Zenon
<1>12. a \in Nat \ {0} /\ b = 2 * a
  BY <1>8, <1>9, <1>11
<1> QED BY <1>9, <1>12, Zenon

\* The half range of a word.
Half == 2^(WordBits - 1)

\* The words are the numbers from -Half to Half - 1.
LEMMA HalfOfRange ==
  /\ Half \in Nat \ {0} /\ 2^WordBits = 2 * Half
  /\ Word = -Half .. Half - 1
<1>1. WordBits - 1 \in Nat /\ WordBits = (WordBits - 1) + 1
  BY IsaAssumption DEF WordBits
<1>2. PICK n \in Nat : n = WordBits - 1 /\ WordBits = n + 1
  BY <1>1
<1>3. 2^n \in Nat \ {0} /\ 2^(n + 1) = 2 * 2^n
  BY PowersOfTwo
<1>4. Half = 2^n
  BY <1>2, Zenon DEF Half
<1> QED BY <1>2, <1>3, <1>4, Zenon DEF Word, Half

\* Rounding down: the remainder is natural and smaller than the divisor.
LEMMA FloorDivides ==
  ASSUME NEW a \in Nat, NEW b \in Nat \ {0}
  PROVE  /\ a \div b \in Nat /\ a \div b <= a
         /\ b * (a \div b) <= a /\ a - b * (a \div b) < b
OBVIOUS

\* Wrap leaves a word as it is.
LEMMA WrapOfWord ==
  ASSUME NEW n \in Word
  PROVE  Wrap(n) = n
<1>1. PICK h \in Nat \ {0} : h = Half
  BY HalfOfRange, Zenon
<1>2. Wrap(n) = ((n + h) % (2 * h)) - h /\ n \in -h .. h - 1
  <2>1. 2^WordBits = 2 * h /\ 2^(WordBits - 1) = h
    BY <1>1, HalfOfRange, Zenon DEF Half
  <2>2. n \in -h .. h - 1
    BY <1>1, HalfOfRange, Zenon
  <2> QED BY <2>1, <2>2, Zenon DEF Wrap
<1>3. PICK k \in Nat, m \in Nat \ {0} : k = n + h /\ m = 2 * h /\ k < m
  BY <1>2
<1>4. k % m = k
  BY <1>3
<1> QED BY <1>2, <1>3, <1>4

\* The first number that is too large becomes the least word.
LEMMA WrapOfHalf == Wrap(Half) = -Half
<1>1. PICK h \in Nat \ {0} : h = Half
  BY HalfOfRange, Zenon
<1>2. Wrap(h) = ((h + h) % (2 * h)) - h
  BY <1>1, HalfOfRange, Zenon DEF Wrap, Half
<1>3. PICK m \in Nat \ {0} : m = h + h /\ m = 2 * h
  OBVIOUS
<1>4. m % m = 0
  BY <1>3
<1> QED BY <1>1, <1>2, <1>3, <1>4

\* 2^(m + n) is the product.
LEMMA PowerOfSum ==
  ASSUME NEW m \in Nat, NEW n \in Nat
  PROVE  2^(m + n) = 2^m * 2^n
<1> DEFINE T == {k \in Nat : 2^(m + k) = 2^m * 2^k}
<1>1. 0 \in T
  <2>1. PICK p \in Nat : p = 2^m
    BY PowersOfTwo
  <2>2. 2^0 = 1 /\ m + 0 = m
    OBVIOUS
  <2> QED BY <2>1, <2>2
<1>2. ASSUME NEW k \in Nat, k \in T PROVE k + 1 \in T
  <2>1. PICK i \in Nat : i = m + k /\ m + (k + 1) = i + 1
    OBVIOUS
  <2>2. PICK p \in Nat, q \in Nat, r \in Nat : p = 2^m /\ q = 2^k /\ r = 2^i
    BY PowersOfTwo
  <2>3. 2^(i + 1) = 2 * r /\ 2^(k + 1) = 2 * q
    BY <2>2, PowersOfTwo
  <2>4. r = p * q
    BY <1>2, <2>1, <2>2
  <2>5. 2 * r = p * (2 * q)
    BY <2>4
  <2> QED BY <2>1, <2>2, <2>3, <2>5
<1> HIDE DEF T
<1>3. n \in T
  BY <1>1, <1>2, Induction
<1> QED BY <1>3 DEF T

\* A quotient and a remainder that fit are the quotient and the remainder.
LEMMA DivisionIs ==
  ASSUME NEW a \in Int, NEW d \in Nat \ {0}, NEW q \in Int, NEW r \in Int,
         a = d * q + r, 0 <= r, r < d
  PROVE  a \div d = q /\ a % d = r
<1>1. PICK p \in Int, s \in Int : p = a \div d /\ s = a % d /\ a = d * p + s /\ 0 <= s /\ s < d
  OBVIOUS
<1>2. d * p - d * q = r - s /\ r - s < d /\ s - r < d
  BY <1>1
<1>3. d * (p - q) < d /\ d * (q - p) < d
  BY <1>2
<1>4. ~(p - q >= 1) /\ ~(q - p >= 1)
  BY <1>3
<1> QED BY <1>1, <1>4

\* Every number is quotient times divisor plus remainder.
LEMMA Division ==
  ASSUME NEW a \in Int, NEW d \in Nat \ {0}
  PROVE  \E q \in Int, r \in Int :
           q = a \div d /\ r = a % d /\ a = d * q + r /\ 0 <= r /\ r < d
OBVIOUS

\* Wrap changes a number by a multiple of 2^WordBits, and makes a word of it.
LEMMA WrapChanges ==
  ASSUME NEW n \in Int
  PROVE  Wrap(n) \in Word /\ \E k \in Int : Wrap(n) = n + k * 2^WordBits
<1>1. PICK h \in Nat \ {0} : h = Half /\ 2^WordBits = 2 * h /\ 2^(WordBits - 1) = h
  BY HalfOfRange, Zenon DEF Half
<1>2. PICK q \in Int, r \in Int :
        r = (n + h) % (2 * h) /\ n + h = (2 * h) * q + r /\ 0 <= r /\ r < 2 * h
  <2>1. PICK a \in Int, m \in Nat \ {0} : a = n + h /\ m = 2 * h
    OBVIOUS
  <2>2. PICK q \in Int, r \in Int : r = a % m /\ a = m * q + r /\ 0 <= r /\ r < m
    BY Division
  <2> QED BY <2>1, <2>2
<1>3. Wrap(n) = r - h
  BY <1>1, <1>2, Zenon DEF Wrap
<1>4. r - h \in -h .. h - 1
  BY <1>2
<1>5. r - h = n + (-q) * (2 * h) /\ -q \in Int
  BY <1>2
<1> QED BY <1>1, <1>3, <1>4, <1>5, HalfOfRange, Zenon

\* Numbers that differ by a multiple of 2^n have the same bits below n.
LEMMA SameBits ==
  ASSUME NEW a \in Int, NEW b \in Int, NEW k \in Int, NEW n \in Nat,
         b = a + k * 2^n, NEW i \in 0..n - 1
  PROVE  Bit(b, i) = Bit(a, i)
<1>1. PICK j \in Nat : n = i + (j + 1)
  <2>1. n - i - 1 \in Nat /\ n = i + ((n - i - 1) + 1)
    OBVIOUS
  <2> QED BY <2>1
<1>2. PICK p \in Nat \ {0}, q \in Nat \ {0} : p = 2^i /\ q = 2^j
  BY PowersOfTwo
<1>3. 2^n = p * (2 * q)
  <2>1. PICK l \in Nat : l = j + 1
    OBVIOUS
  <2>2. 2^l = 2 * q
    BY <1>2, <2>1, PowersOfTwo
  <2>3. 2^(i + l) = 2^i * 2^l
    BY <2>1, PowerOfSum
  <2> QED BY <1>1, <1>2, <2>1, <2>2, <2>3
<1>4. PICK d \in Int, r \in Int : d = a \div p /\ a = p * d + r /\ 0 <= r /\ r < p
  BY Division
<1>5. PICK m \in Int : m = k * q
  OBVIOUS
<1>6. b = p * (d + 2 * m) + r
  <2>1. k * (p * (2 * q)) = p * (2 * m)
    BY <1>5
  <2>2. p * (d + 2 * m) = p * d + p * (2 * m)
    OBVIOUS
  <2>3. b = a + p * (2 * m)
    BY <1>3, <2>1
  <2> QED BY <1>4, <2>2, <2>3
<1>7. PICK e \in Int : e = d + 2 * m
  OBVIOUS
<1>8. b = p * e + r
  BY <1>6, <1>7
<1>9. b \div p = e
  BY <1>4, <1>8, DivisionIs
<1>10. e % 2 = d % 2
  BY <1>7
<1> QED BY <1>2, <1>4, <1>9, <1>10 DEF Bit

LEMMA BitsAreBits ==
  ASSUME NEW a \in Int, NEW i \in Nat
  PROVE  Bit(a, i) \in {0, 1}
<1>1. PICK p \in Nat \ {0} : p = 2^i
  BY PowersOfTwo
<1>2. PICK d \in Int : d = a \div p
  OBVIOUS
<1>3. d % 2 \in {0, 1}
  OBVIOUS
<1> QED BY <1>1, <1>2, <1>3 DEF Bit

-----------------------------------------------------------------------------
(* Sums                                                                    *)

\* sum has the partial sums of terms.
Sums(sum, terms, count) ==
  sum[0] = 0 /\ \A n \in 0..count - 1 : sum[n + 1] = sum[n] + terms[n]

\* The recursive function of SumOf exists, and adds up the terms.
LEMMA SumOfSums ==
  ASSUME NEW count \in Nat, NEW terms
  PROVE  \E sum : Sums(sum, terms, count) /\ SumOf(terms, count) = sum[count]
<1> DEFINE Next1(f, n) == IF n = 0 THEN 0 ELSE f[n - 1] + terms[n - 1]
           T == {k \in Nat : \E f : f = [n \in 0..k |-> Next1(f, n)]}
<1>1. 0 \in T
  <2>1. PICK f : f = [n \in 0..0 |-> 0]
    OBVIOUS
  <2>2. f = [n \in 0..0 |-> Next1(f, n)]
    BY <2>1
  <2> QED BY <2>2
<1>2. ASSUME NEW k \in Nat, k \in T PROVE k + 1 \in T
  <2>1. PICK f : f = [n \in 0..k |-> Next1(f, n)]
    BY <1>2
  <2>2. PICK g : g = [n \in 0..k + 1 |-> IF n = k + 1 THEN f[k] + terms[k] ELSE f[n]]
    OBVIOUS
  <2>3. ASSUME NEW n \in 0..k + 1 PROVE g[n] = Next1(g, n)
    <3>1. CASE n = 0
      BY <2>1, <2>2, <3>1
    <3>2. CASE n \in 1..k
      <4>1. g[n] = f[n] /\ f[n] = f[n - 1] + terms[n - 1] /\ g[n - 1] = f[n - 1]
        BY <2>1, <2>2, <3>2
      <4> QED BY <3>2, <4>1
    <3>3. CASE n = k + 1
      <4>1. g[n] = f[k] + terms[k] /\ g[k] = f[k] /\ n - 1 = k
        BY <2>2, <3>3
      <4> QED BY <3>3, <4>1
    <3> QED BY <3>1, <3>2, <3>3
  <2>4. g = [n \in 0..k + 1 |-> Next1(g, n)]
    BY <2>2, <2>3
  <2>5. k + 1 \in Nat
    OBVIOUS
  <2> QED BY <2>4, <2>5
<1>3. count \in T
  <2> HIDE DEF T
  <2> QED BY <1>1, <1>2, Induction
<1>4. PICK sum : /\ sum = [n \in 0..count |-> Next1(sum, n)]
                 /\ SumOf(terms, count) = sum[count]
  BY <1>3, Zenon DEF SumOf
<1>5. sum[0] = 0
  BY <1>4
<1>6. ASSUME NEW n \in 0..count - 1 PROVE sum[n + 1] = sum[n] + terms[n]
  <2>1. n + 1 \in 0..count /\ n + 1 # 0 /\ (n + 1) - 1 = n
    OBVIOUS
  <2> QED BY <1>4, <2>1
<1> QED BY <1>4, <1>5, <1>6 DEF Sums

\* sum adds up the powers of two of bits; a number has bits.
AddsBits(sum, bits, N) ==
  /\ sum[0] = 0
  /\ \A i \in 0..N - 1 : bits[i] \in {0, 1} /\ sum[i + 1] = sum[i] + bits[i] * 2^i
HasBits(a, bits, N) == \A i \in 0..N - 1 : Bit(a, i) = bits[i]

\* The sum of the powers of two of bits has exactly these bits.
LEMMA SumOfBits ==
  ASSUME NEW N \in Nat, NEW bits, NEW sum, AddsBits(sum, bits, N)
  PROVE  \A n \in 0..N : sum[n] \in 0..2^n - 1 /\ HasBits(sum[n], bits, n)
<1> DEFINE P(n) == sum[n] \in 0..2^n - 1 /\ HasBits(sum[n], bits, n)
           T == {n \in Nat : n <= N => P(n)}
<1>1. 0 \in T
  <2>1. 2^0 = 1 /\ sum[0] = 0
    BY DEF AddsBits
  <2> QED BY <2>1 DEF HasBits
<1>2. ASSUME NEW n \in Nat, n \in T PROVE n + 1 \in T
  <2> SUFFICES ASSUME n + 1 <= N PROVE P(n + 1)
    OBVIOUS
  <2>0. P(n)
    BY <1>2
  <2>1. PICK p \in Nat \ {0}, s \in Int, b \in {0, 1} :
          p = 2^n /\ s = sum[n] /\ b = bits[n] /\ 2^(n + 1) = 2 * p
    <3>1. n \in 0..N - 1
      OBVIOUS
    <3>2. bits[n] \in {0, 1} /\ sum[n] \in Int
      BY <2>0, <3>1, PowersOfTwo DEF AddsBits
    <3> QED BY <3>2, PowersOfTwo
  <2>2. s \in 0..p - 1 /\ \A i \in 0..n - 1 : Bit(s, i) = bits[i]
    BY <2>0, <2>1 DEF HasBits
  <2>3. sum[n + 1] = s + b * p
    <3>1. n \in 0..N - 1
      OBVIOUS
    <3>2. sum[n + 1] = sum[n] + bits[n] * 2^n
      BY <3>1 DEF AddsBits
    <3> QED BY <2>1, <3>2, Zenon
  <2>4. s + b * p \in 0..2 * p - 1
    BY <2>2
  <2>5. ASSUME NEW i \in 0..n - 1 PROVE Bit(s + b * p, i) = bits[i]
    <3>1. PICK t \in Int : t = s + b * 2^n /\ t = s + b * p
      BY <2>1
    <3>2. Bit(t, i) = Bit(s, i)
      BY <3>1, SameBits
    <3> QED BY <2>2, <3>1, <3>2
  <2>6. Bit(s + b * p, n) = b
    <3>1. (s + b * p) \div p = b
      BY <2>2, DivisionIs
    <3>2. b % 2 = b
      OBVIOUS
    <3> QED BY <2>1, <3>1, <3>2 DEF Bit
  <2>7. ASSUME NEW i \in 0..n PROVE Bit(s + b * p, i) = bits[i]
    <3>1. i = n \/ i \in 0..n - 1
      OBVIOUS
    <3> QED BY <2>1, <2>5, <2>6, <3>1
  <2>8. (n + 1) - 1 = n
    OBVIOUS
  <2>9. HasBits(sum[n + 1], bits, n + 1)
    BY <2>3, <2>7, <2>8, Zenon DEF HasBits
  <2>10. sum[n + 1] \in 0..2^(n + 1) - 1
    BY <2>1, <2>3, <2>4, Zenon
  <2> QED BY <2>9, <2>10, Zenon
<1> HIDE DEF T
<1>3. ASSUME NEW n \in 0..N PROVE P(n)
  <2>1. n \in T
    BY <1>1, <1>2, Induction
  <2> QED BY <2>1 DEF T
<1> QED BY <1>3, Zenon

\* Bit n is what the remainder by 2^(n + 1) has more than the remainder by 2^n.
LEMMA RemainderGrows ==
  ASSUME NEW a \in Int, NEW n \in Nat
  PROVE  a % 2^(n + 1) = (a % 2^n) + Bit(a, n) * 2^n
<1>1. PICK p \in Nat \ {0} : p = 2^n /\ 2^(n + 1) = 2 * p
  BY PowersOfTwo
<1>2. PICK d \in Int, r \in Int : d = a \div p /\ r = a % p /\ a = p * d + r /\ 0 <= r /\ r < p
  BY Division
<1>3. PICK e \in Int, b \in {0, 1} : e = d \div 2 /\ b = d % 2 /\ d = 2 * e + b
  OBVIOUS
<1>4. PICK m \in Nat \ {0}, t \in Int : m = 2 * p /\ t = r + b * p
  OBVIOUS
<1>5. a = m * e + t /\ 0 <= t /\ t < m
  <2>1. p * d = (2 * p) * e + b * p
    BY <1>3
  <2>2. b * p = 0 \/ b * p = p
    BY <1>3
  <2> QED BY <1>2, <1>4, <2>1, <2>2
<1>6. a % m = t
  BY <1>5, DivisionIs
<1>7. Bit(a, n) = b
  BY <1>1, <1>2, <1>3 DEF Bit
<1> QED BY <1>1, <1>2, <1>4, <1>6, <1>7

\* The highest bit of a word is its sign; the others count upwards from there.
LEMMA SignBit ==
  ASSUME NEW a \in Word
  PROVE  /\ a % Half \in 0..Half - 1
         /\ a = (a % Half) - Bit(a, WordBits - 1) * Half
         /\ Bit(a, WordBits - 1) = IF a < 0 THEN 1 ELSE 0
<1>1. PICK h \in Nat \ {0} : h = Half /\ h = 2^(WordBits - 1)
  BY HalfOfRange, Zenon DEF Half
<1>2. a \in Int /\ -h <= a /\ a < h
  <2>1. a \in -h .. h - 1
    BY <1>1, HalfOfRange, Zenon
  <2> QED BY <2>1
<1>3. CASE a < 0
  <2>1. a = h * (-1) + (a + h) /\ 0 <= a + h /\ a + h < h
    BY <1>2, <1>3
  <2>2. PICK q \in Int, r \in Int : q = -1 /\ r = a + h
    BY <1>2
  <2>3. a \div h = q /\ a % h = r
    BY <1>2, <2>1, <2>2, DivisionIs
  <2>4. q % 2 = 1
    <3>1. PICK d \in Nat \ {0}, r1 \in Int : d = 2 /\ r1 = 1
      OBVIOUS
    <3>2. q = d * q + r1 /\ 0 <= r1 /\ r1 < d
      BY <2>2, <3>1
    <3>3. q % d = r1
      BY <3>2, DivisionIs
    <3> QED BY <3>1, <3>3
  <2>5. Bit(a, WordBits - 1) = 1
    BY <1>1, <2>3, <2>4 DEF Bit
  <2> QED BY <1>1, <1>2, <1>3, <2>2, <2>3, <2>5
<1>4. CASE ~(a < 0)
  <2>1. a = h * 0 + a /\ 0 <= a /\ a < h
    BY <1>2, <1>4
  <2>2. a \div h = 0 /\ a % h = a
    BY <1>2, <2>1, DivisionIs
  <2>3. Bit(a, WordBits - 1) = 0
    BY <1>1, <2>2 DEF Bit
  <2> QED BY <1>1, <1>2, <1>4, <2>2, <2>3
<1> QED BY <1>3, <1>4

\* Wrap gives the highest bit its sign.
LEMMA WrapOfBits ==
  ASSUME NEW v \in 0..Half - 1, NEW b \in {0, 1}
  PROVE  Wrap(v + b * Half) = v - b * Half /\ v - b * Half \in Word
<1>1. PICK h \in Nat \ {0} : h = Half /\ 2^WordBits = 2 * h /\ 2^(WordBits - 1) = h
  BY HalfOfRange, Zenon DEF Half
<1>2. PICK m \in Nat \ {0}, n \in Int : m = 2 * h /\ n = v + b * h + h
  BY <1>1
<1>3. PICK r \in Int : r = (IF b = 0 THEN v + h ELSE v)
  BY <1>1
<1>4. n = m * b + r /\ 0 <= r /\ r < m
  BY <1>1, <1>2, <1>3
<1>5. n % m = r
  BY <1>4, DivisionIs
<1>6. Wrap(v + b * h) = r - h
  BY <1>1, <1>2, <1>5, Zenon DEF Wrap
<1>7. r - h = v - b * h /\ r - h \in -h .. h - 1
  BY <1>1, <1>3
<1> QED BY <1>1, <1>6, <1>7, HalfOfRange, Zenon

\* The number of the highest bit.
LEMMA HighestBit ==
  \E W \in Nat : W = WordBits - 1 /\ WordBits = W + 1 /\ Half = 2^W
<1>1. WordBits - 1 \in Nat /\ WordBits = (WordBits - 1) + 1
  BY IsaAssumption DEF WordBits
<1> QED BY <1>1, Zenon DEF Half

\* The word with given bits, from the sum of all and of all but the highest.
LEMMA WordOfBits ==
  ASSUME NEW W \in Nat, W = WordBits - 1, WordBits = W + 1,
         NEW bits, NEW sum, AddsBits(sum, bits, W + 1),
         NEW w, w = sum[W] - bits[W] * Half
  PROVE  Wrap(sum[W + 1]) = w /\ w \in Word /\ HasBits(w, bits, W + 1)
<1>1. PICK N \in Nat : N = W + 1 /\ N - 1 = W
  OBVIOUS
<1>2. PICK h \in Nat \ {0} : h = Half /\ h = 2^W /\ 2^N = 2 * h
  BY <1>1, HalfOfRange, Zenon DEF Half
<1>3. \A n \in 0..N : sum[n] \in 0..2^n - 1 /\ HasBits(sum[n], bits, n)
  BY <1>1, SumOfBits, Zenon
<1>4. PICK v \in 0..h - 1, t \in {0, 1} : v = sum[W] /\ t = bits[W]
  <2>1. W \in 0..N /\ W \in 0..N - 1
    BY <1>1
  <2>2. bits[W] \in {0, 1}
    BY <1>1, <2>1, Zenon DEF AddsBits
  <2> QED BY <1>2, <1>3, <2>1, <2>2, Zenon
<1>5. sum[N] = v + t * h
  <2>1. W \in 0..N - 1
    BY <1>1
  <2>2. sum[W + 1] = sum[W] + bits[W] * 2^W
    BY <1>1, <2>1, Zenon DEF AddsBits
  <2> QED BY <1>1, <1>2, <1>4, <2>2, Zenon
<1>6. Wrap(v + t * h) = v - t * h /\ v - t * h \in Word
  BY <1>2, <1>4, WrapOfBits, Zenon
<1>7. w = v - t * h
  BY <1>2, <1>4, Zenon
<1>8. PICK m \in Int, n \in Int, k \in Int : m = w /\ n = v + t * h /\ k = -t
  BY <1>7
<1>9. m = n + k * 2^N
  <2>1. k * (2 * h) = - (t * h) - t * h
    BY <1>8
  <2> QED BY <1>2, <1>7, <1>8, <2>1
<1>10. ASSUME NEW i \in 0..N - 1 PROVE Bit(w, i) = bits[i]
  <2>1. Bit(m, i) = Bit(n, i)
    BY <1>9, SameBits
  <2>2. HasBits(sum[N], bits, N)
    <3>1. N \in 0..N
      OBVIOUS
    <3> QED BY <1>3, <3>1
  <2>3. Bit(sum[N], i) = bits[i]
    BY <2>2, Zenon DEF HasBits
  <2> QED BY <1>5, <1>8, <2>1, <2>3
<1>11. HasBits(w, bits, N)
  BY <1>10 DEF HasBits
<1> QED BY <1>1, <1>5, <1>6, <1>7, <1>11, Zenon

\* The three bitwise operations on words (opcodes.go: and, or, xor).
LEMMA BitwiseWords ==
  ASSUME NEW a \in Word, NEW b \in Word
  PROVE  /\ AndOf(a, b) \in Word /\ OrOf(a, b) \in Word /\ XorOf(a, b) \in Word
         /\ \A i \in 0..WordBits - 1 :
              /\ Bit(AndOf(a, b), i) = Bit(a, i) * Bit(b, i)
              /\ Bit(OrOf(a, b), i) = Bit(a, i) + Bit(b, i) - Bit(a, i) * Bit(b, i)
              /\ Bit(XorOf(a, b), i) = Bit(a, i) + Bit(b, i) - 2 * (Bit(a, i) * Bit(b, i))
<1>1. PICK W \in Nat : W = WordBits - 1 /\ WordBits = W + 1 /\ Half = 2^W
  BY HighestBit
<1>2. PICK h \in Nat \ {0} : h = Half /\ h = 2^W /\ 2^(W + 1) = 2 * h
  BY <1>1, HalfOfRange, Zenon
<1>3. a \in Int /\ b \in Int
  <2>1. a \in -h .. h - 1 /\ b \in -h .. h - 1
    BY <1>2, HalfOfRange, Zenon
  <2> QED BY <2>1
<1>4. PICK p, q, and : /\ p = [i \in 0..W |-> Bit(a, i)] /\ q = [i \in 0..W |-> Bit(b, i)]
                       /\ and = [i \in 0..W |-> Bit(a, i) * Bit(b, i)]
  OBVIOUS
<1>5. ASSUME NEW i \in 0..W
      PROVE  /\ p[i] = Bit(a, i) /\ q[i] = Bit(b, i) /\ p[i] \in {0, 1} /\ q[i] \in {0, 1}
             /\ and[i] = p[i] * q[i]
  BY <1>3, <1>4, BitsAreBits
<1>6. PICK c : /\ c[0] = 0 /\ \A n \in 0..W : c[n + 1] = c[n] + and[n] * 2^n
               /\ AndOf(a, b) = Wrap(c[W + 1])
  <2>1. PICK terms : terms = [i \in 0..WordBits - 1 |-> Bit(a, i) * Bit(b, i) * 2^i]
    OBVIOUS
  <2>2. PICK sum : Sums(sum, terms, W + 1) /\ SumOf(terms, W + 1) = sum[W + 1]
    BY SumOfSums
  <2>3. \A n \in 0..W : terms[n] = and[n] * 2^n
    BY <1>1, <1>4, <2>1
  <2>4. AndOf(a, b) = Wrap(sum[W + 1])
    BY <1>1, <2>1, <2>2, Zenon DEF AndOf
  <2>5. \A n \in 0..(W + 1) - 1 : sum[n + 1] = sum[n] + terms[n]
    BY <2>2 DEF Sums
  <2>6. (W + 1) - 1 = W
    OBVIOUS
  <2> QED BY <2>2, <2>3, <2>4, <2>5, <2>6 DEF Sums
<1>7. AddsBits(c, and, W + 1)
  <2>1. (W + 1) - 1 = W
    OBVIOUS
  <2> QED BY <1>5, <1>6, <2>1 DEF AddsBits
<1>8. PICK common : /\ common = c[W] - and[W] * h /\ AndOf(a, b) = common /\ common \in Word
                    /\ HasBits(common, and, W + 1)
  <2>1. PICK common : common = c[W] - and[W] * Half
    OBVIOUS
  <2>2. Wrap(c[W + 1]) = common /\ common \in Word /\ HasBits(common, and, W + 1)
    BY <1>1, <1>7, <2>1, WordOfBits, Zenon
  <2> QED BY <1>2, <1>6, <2>1, <2>2, Zenon
<1>9. \A n \in 0..W + 1 : c[n] \in Int
  <2>1. W + 1 \in Nat
    OBVIOUS
  <2>2. \A n \in 0..W + 1 : c[n] \in 0..2^n - 1
    BY <1>7, <2>1, SumOfBits, Zenon
  <2> QED BY <2>2, PowersOfTwo
<1> DEFINE low == [n \in 0..W + 1 |-> (a % 2^n) + (b % 2^n)]
<1>10. low[0] = 0
  BY <1>3
<1>11. ASSUME NEW n \in 0..W
       PROVE  low[n] \in Int /\ low[n + 1] = low[n] + (p[n] + q[n]) * 2^n
  <2>1. PICK t \in Nat \ {0} : t = 2^n
    BY PowersOfTwo
  <2>2. PICK u \in Int, v \in Int : u = a % t /\ v = b % t
    BY <1>3, <2>1
  <2>3. a % 2^(n + 1) = u + p[n] * t /\ b % 2^(n + 1) = v + q[n] * t
    BY <1>3, <1>5, <2>1, <2>2, RemainderGrows
  <2>4. (u + p[n] * t) + (v + q[n] * t) = (u + v) + (p[n] + q[n]) * t
    BY <1>5
  <2>5. low[n] = u + v
    <3>1. n \in 0..W + 1
      OBVIOUS
    <3>2. low[n] = (a % 2^n) + (b % 2^n)
      BY <3>1, Zenon
    <3> QED BY <2>1, <2>2, <3>2, Zenon
  <2>6. low[n + 1] = (u + p[n] * t) + (v + q[n] * t)
    <3>1. n + 1 \in 0..W + 1
      OBVIOUS
    <3>2. low[n + 1] = (a % 2^(n + 1)) + (b % 2^(n + 1))
      BY <3>1, Zenon
    <3> QED BY <2>3, <3>2, Zenon
  <2> HIDE DEF low
  <2>7. (u + v) \in Int
    OBVIOUS
  <2> QED BY <2>1, <2>4, <2>5, <2>6, <2>7, Zenon
<1> HIDE DEF low
\* The sums of the bits of an or (x = 1) and of a xor (x = 2).
<1>12. ASSUME NEW x \in {1, 2}
       PROVE  \E w \in Word : /\ w = a + b - x * AndOf(a, b)
                              /\ \A i \in 0..W : Bit(w, i) = p[i] + q[i] - x * and[i]
  <2>1. PICK bits, sum : /\ bits = [i \in 0..W |-> p[i] + q[i] - x * and[i]]
                         /\ sum = [n \in 0..W + 1 |-> low[n] - x * c[n]]
    OBVIOUS
  <2>2. \A i \in 0..W : bits[i] \in {0, 1}
    BY <1>5, <2>1
  <2>3. sum[0] = 0
    BY <1>6, <1>10, <2>1
  <2>4. ASSUME NEW n \in 0..W PROVE sum[n + 1] = sum[n] + bits[n] * 2^n
    <3>1. PICK t \in Nat \ {0} : t = 2^n
      BY PowersOfTwo
    <3>2. sum[n] = low[n] - x * c[n] /\ sum[n + 1] = low[n + 1] - x * c[n + 1]
          /\ c[n] \in Int /\ low[n] \in Int
      BY <1>9, <1>11, <2>1
    <3>3. c[n + 1] = c[n] + and[n] * t /\ low[n + 1] = low[n] + (p[n] + q[n]) * t
      BY <1>6, <1>11, <3>1
    <3>4. bits[n] = (p[n] + q[n]) - x * and[n]
      BY <1>5, <2>1
    <3>5. PICK l \in Int, d \in Int, e \in Int, f \in {0, 1} :
            l = low[n] /\ d = c[n] /\ e = p[n] + q[n] /\ f = and[n]
      BY <1>5, <3>2
    <3>6. (l + e * t) - x * (d + f * t) = (l - x * d) + (e - x * f) * t
      OBVIOUS
    <3>7. sum[n + 1] = (l + e * t) - x * (d + f * t)
      BY <3>2, <3>3, <3>5, Zenon
    <3>8. sum[n] + bits[n] * 2^n = (l - x * d) + (e - x * f) * t
      <4>1. bits[n] = e - x * f
        BY <3>4, <3>5, Zenon
      <4>2. sum[n] = l - x * d
        BY <3>2, <3>5, Zenon
      <4> QED BY <3>1, <4>1, <4>2, Zenon
    <3> QED BY <3>6, <3>7, <3>8, Zenon
  <2>6. PICK w : /\ w = sum[W] - bits[W] * h /\ w \in Word
                 /\ \A i \in 0..W : Bit(w, i) = bits[i]
    <3>1. PICK w : w = sum[W] - bits[W] * Half
      OBVIOUS
    <3>2. AddsBits(sum, bits, W + 1)
      <4>1. (W + 1) - 1 = W
        OBVIOUS
      <4> QED BY <2>2, <2>3, <2>4, <4>1 DEF AddsBits
    <3>3. w \in Word /\ HasBits(w, bits, W + 1)
      BY <1>1, <3>1, <3>2, WordOfBits, Zenon
    <3>4. (W + 1) - 1 = W
      OBVIOUS
    <3> QED BY <1>2, <3>1, <3>3, <3>4, Zenon DEF HasBits
  <2>7. w = a + b - x * AndOf(a, b)
    <3>1. a = (a % h) - p[W] * h /\ b = (b % h) - q[W] * h
      BY <1>1, <1>2, <1>5, SignBit
    <3>2. PICK u \in Int, v \in Int, d \in Int, e \in {0, 1}, f \in {0, 1}, g \in {0, 1} :
            u = a % h /\ v = b % h /\ d = c[W] /\ e = p[W] /\ f = q[W] /\ g = and[W]
      BY <1>2, <1>3, <1>5, <1>9
    <3>3. sum[W] = u + v - x * d
      <4>1. low[W] = u + v
        <5>1. W \in 0..W + 1
          OBVIOUS
        <5>2. low[W] = (a % 2^W) + (b % 2^W)
          BY <5>1, Zenon DEF low
        <5> QED BY <1>2, <3>2, <5>2, Zenon
      <4> QED BY <2>1, <3>2, <4>1
    <3>4. bits[W] = e + f - x * g
      BY <2>1, <3>2
    <3>5. u + v - x * d - (e + f - x * g) * h = (u - e * h) + (v - f * h) - x * (d - g * h)
      OBVIOUS
    <3> QED BY <1>8, <2>6, <3>1, <3>2, <3>3, <3>4, <3>5
  <2> QED BY <2>1, <2>6, <2>7
<1>13. /\ OrOf(a, b) = a + b - 1 * AndOf(a, b)
       /\ XorOf(a, b) = a + b - 2 * AndOf(a, b)
  <2>1. AndOf(a, b) \in Int
    BY <1>2, <1>8, HalfOfRange
  <2> QED BY <1>3, <2>1 DEF OrOf, XorOf
<1>14. \A i \in 0..W : 1 * and[i] = and[i]
  BY <1>5
<1>15. /\ OrOf(a, b) \in Word /\ XorOf(a, b) \in Word
       /\ \A i \in 0..W : /\ Bit(OrOf(a, b), i) = p[i] + q[i] - and[i]
                          /\ Bit(XorOf(a, b), i) = p[i] + q[i] - 2 * and[i]
  <2>1. PICK w \in Word : /\ w = OrOf(a, b)
                          /\ \A i \in 0..W : Bit(w, i) = p[i] + q[i] - 1 * and[i]
    BY <1>12, <1>13
  <2>2. PICK w2 \in Word : /\ w2 = XorOf(a, b)
                           /\ \A i \in 0..W : Bit(w2, i) = p[i] + q[i] - 2 * and[i]
    BY <1>12, <1>13
  <2> QED BY <1>14, <2>1, <2>2
<1>16. \A i \in 0..W : Bit(AndOf(a, b), i) = and[i]
  <2>1. (W + 1) - 1 = W
    OBVIOUS
  <2> QED BY <1>8, <2>1 DEF HasBits
<1>17. WordBits - 1 = W
  BY <1>1
<1> QED BY <1>5, <1>8, <1>15, <1>16, <1>17
-----------------------------------------------------------------------------
(* Shifts                                                                  *)

LEMMA PowersGrow ==
  ASSUME NEW m \in Nat, NEW n \in Nat, m <= n
  PROVE  2^m <= 2^n
<1>1. PICK k \in Nat : n = m + k
  <2>1. n - m \in Nat /\ n = m + (n - m)
    OBVIOUS
  <2> QED BY <2>1
<1>2. PICK p \in Nat \ {0}, q \in Nat \ {0} : p = 2^m /\ q = 2^k
  BY PowersOfTwo
<1>3. 2^n = p * q
  BY <1>1, <1>2, PowerOfSum
<1>4. p <= p * q
  OBVIOUS
<1> QED BY <1>2, <1>3, <1>4

\* The low bits of Wrap are those of its operand.
LEMMA BitsOfWrap ==
  ASSUME NEW n \in Int, NEW i \in 0..WordBits - 1
  PROVE  Bit(Wrap(n), i) = Bit(n, i)
<1>1. PICK N \in Nat : N = WordBits
  BY IsaAssumption DEF WordBits
<1>2. PICK w \in Int, k \in Int : w = Wrap(n) /\ w = n + k * 2^N
  <2>1. PICK k \in Int : Wrap(n) = n + k * 2^N
    BY <1>1, WrapChanges
  <2>2. Wrap(n) \in Int
    BY WrapChanges DEF Word
  <2> QED BY <2>1, <2>2
<1>3. Bit(w, i) = Bit(n, i)
  BY <1>1, <1>2, SameBits
<1> QED BY <1>2, <1>3

\* Dividing twice is dividing by the product.
LEMMA NestedDivision ==
  ASSUME NEW a \in Int, NEW p \in Nat \ {0}, NEW q \in Nat \ {0}
  PROVE  (a \div p) \div q = a \div (p * q)
<1>1. PICK d \in Int, r \in Int : d = a \div p /\ a = p * d + r /\ 0 <= r /\ r < p
  BY Division
<1>2. PICK e \in Int, s \in Int : e = d \div q /\ d = q * e + s /\ 0 <= s /\ s < q
  BY Division
<1>3. PICK m \in Nat \ {0}, t \in Int : m = p * q /\ t = p * s + r
  OBVIOUS
<1>4. a = m * e + t
  <2>1. p * (q * e + s) + r = (p * q) * e + (p * s + r)
    OBVIOUS
  <2> QED BY <1>1, <1>2, <1>3, <2>1, Zenon
<1>5. 0 <= t /\ t < m
  <2>1. 0 <= p * s
    BY <1>2
  <2>2. p * s + p <= p * q
    <3>1. PICK u \in Nat : q = s + 1 + u
      <4>1. q - s - 1 \in Nat /\ q = s + 1 + (q - s - 1)
        BY <1>2
      <4> QED BY <4>1
    <3>2. p * (s + 1 + u) = p * s + p + p * u /\ 0 <= p * u
      BY <1>2
    <3> QED BY <3>1, <3>2
  <2> QED BY <1>1, <1>3, <2>1, <2>2
<1>6. a \div m = e
  BY <1>4, <1>5, DivisionIs
<1> QED BY <1>1, <1>2, <1>3, <1>6

\* Bit i of a number shifted right by m bits.
LEMMA BitsOfQuotient ==
  ASSUME NEW a \in Int, NEW m \in Nat, NEW i \in Nat
  PROVE  Bit(a \div 2^m, i) = Bit(a, m + i)
<1>1. PICK p \in Nat \ {0}, q \in Nat \ {0} : p = 2^m /\ q = 2^i
  BY PowersOfTwo
<1>2. 2^(m + i) = p * q
  BY <1>1, PowerOfSum
<1>3. (a \div p) \div q = a \div (p * q)
  BY NestedDivision
<1> QED BY <1>1, <1>2, <1>3, Zenon DEF Bit

\* Bit i of a number shifted left by m bits.
LEMMA BitsOfProduct ==
  ASSUME NEW a \in Int, NEW m \in Nat, NEW i \in Nat
  PROVE  Bit(a * 2^m, i) = IF i >= m THEN Bit(a, i - m) ELSE 0
<1>1. CASE i >= m
  <2>1. PICK j \in Nat : j = i - m /\ i = m + j
    BY <1>1
  <2>2. PICK p \in Nat \ {0}, q \in Nat \ {0} : p = 2^m /\ q = 2^j
    BY PowersOfTwo
  <2>3. PICK l \in Nat \ {0} : l = 2^i /\ l = p * q
    BY <2>1, <2>2, PowerOfSum
  <2>4. PICK d \in Int, r \in Int : d = a \div q /\ a = q * d + r /\ 0 <= r /\ r < q
    BY Division
  <2>5. PICK b \in Int, s \in Int : b = a * p /\ s = r * p
    OBVIOUS
  <2>6. b = l * d + s
    <3>1. (q * d + r) * p = (p * q) * d + r * p
      OBVIOUS
    <3> QED BY <2>3, <2>4, <2>5, <3>1
  <2>7. 0 <= s /\ s < l
    <3>1. 0 <= r * p
      BY <2>4
    <3>2. r * p < p * q
      <4>1. PICK u \in Nat \ {0} : q = r + u
        <5>1. q - r \in Nat \ {0} /\ q = r + (q - r)
          BY <2>4
        <5> QED BY <5>1
      <4>2. p * (r + u) = r * p + p * u /\ 0 < p * u
        OBVIOUS
      <4> QED BY <4>1, <4>2
    <3> QED BY <2>3, <2>5, <3>1, <3>2
  <2>8. b \div l = d
    BY <2>6, <2>7, DivisionIs
  <2>9. Bit(a * 2^m, i) = Bit(a, j)
    BY <2>2, <2>3, <2>4, <2>5, <2>8, Zenon DEF Bit
  <2> QED BY <1>1, <2>1, <2>9
<1>2. CASE ~(i >= m)
  <2>1. PICK j \in Nat : m = i + (j + 1)
    <3>1. m - i - 1 \in Nat /\ m = i + ((m - i - 1) + 1)
      BY <1>2
    <3> QED BY <3>1
  <2>2. PICK l \in Nat : l = j + 1
    OBVIOUS
  <2>3. PICK p \in Nat \ {0}, q \in Nat \ {0} : p = 2^i /\ q = 2^j /\ 2^l = 2 * q
    BY <2>2, PowersOfTwo
  <2>4. 2^m = p * (2 * q)
    <3>1. 2^(i + l) = 2^i * 2^l
      BY PowerOfSum
    <3>2. m = i + l
      BY <2>1, <2>2
    <3> QED BY <2>3, <3>1, <3>2, Zenon
  <2>5. PICK c \in Int, b \in Int, d \in Int : c = a * q /\ d = 2 * c /\ b = a * 2^m
    <3>1. PICK z \in Int : z = a * (p * (2 * q))
      OBVIOUS
    <3> QED BY <2>4, <3>1
  <2>6. b = p * d + 0
    <3>1. a * (p * (2 * q)) = p * (2 * (a * q)) + 0
      OBVIOUS
    <3> QED BY <2>4, <2>5, <3>1
  <2>7. b \div p = d
    BY <2>6, DivisionIs
  <2>8. d % 2 = 0
    BY <2>5
  <2>9. Bit(b, i) = 0
    BY <2>3, <2>7, <2>8, Zenon DEF Bit
  <2> QED BY <1>2, <2>5, <2>9
<1> QED BY <1>1, <1>2

\* From the highest bit on, every bit of a word is its sign.
LEMMA SignBits ==
  ASSUME NEW a \in Word, NEW i \in Nat, i >= WordBits - 1
  PROVE  Bit(a, i) = IF a < 0 THEN 1 ELSE 0
<1>1. PICK W \in Nat : W = WordBits - 1 /\ WordBits = W + 1 /\ Half = 2^W
  BY HighestBit
<1>2. PICK h \in Nat \ {0}, p \in Nat \ {0} : h = Half /\ p = 2^i
  BY HalfOfRange, PowersOfTwo
<1>3. h <= p
  <2>1. 2^W <= 2^i
    BY <1>1, PowersGrow
  <2> QED BY <1>1, <1>2, <2>1
<1>4. a \in Int /\ -h <= a /\ a < h
  <2>1. a \in -h .. h - 1
    BY <1>2, HalfOfRange, Zenon
  <2> QED BY <2>1
<1>5. PICK d \in Int : d = (IF a < 0 THEN -1 ELSE 0)
  OBVIOUS
<1>6. PICK r \in Int : a = p * d + r /\ 0 <= r /\ r < p
  <2>1. CASE a < 0
    <3>1. a = p * (-1) + (a + p) /\ 0 <= a + p /\ a + p < p /\ a + p \in Int
      BY <1>3, <1>4, <2>1
    <3> QED BY <1>5, <2>1, <3>1
  <2>2. CASE ~(a < 0)
    <3>1. a = p * 0 + a /\ 0 <= a /\ a < p
      BY <1>3, <1>4, <2>2
    <3> QED BY <1>4, <1>5, <2>2, <3>1
  <2> QED BY <2>1, <2>2
<1>7. a \div p = d
  BY <1>4, <1>6, DivisionIs
<1>8. d % 2 = IF a < 0 THEN 1 ELSE 0
  <2>1. CASE a < 0
    <3>1. PICK t \in Nat \ {0}, o \in Int : t = 2 /\ o = 1
      OBVIOUS
    <3>2. d = t * d + o /\ 0 <= o /\ o < t
      BY <1>5, <2>1, <3>1
    <3>3. d % t = o
      BY <3>2, DivisionIs
    <3> QED BY <2>1, <3>1, <3>3
  <2>2. CASE ~(a < 0)
    BY <1>5, <2>2
  <2> QED BY <2>1, <2>2
<1> QED BY <1>2, <1>7, <1>8, Zenon DEF Bit

\* A word shifted right by any count is a word.
LEMMA QuotientIsWord ==
  ASSUME NEW a \in Word, NEW p \in Nat \ {0}
  PROVE  a \div p \in Word
<1>1. PICK h \in Nat \ {0} : h = Half
  BY HalfOfRange, Zenon
<1>2. a \in Int /\ -h <= a /\ a < h
  <2>1. a \in -h .. h - 1
    BY <1>1, HalfOfRange, Zenon
  <2> QED BY <2>1
<1>3. PICK d \in Int, r \in Int : d = a \div p /\ a = p * d + r /\ 0 <= r /\ r < p
  BY <1>2, Division
<1>4. -h <= d
  <2> SUFFICES ASSUME d + h + 1 <= 0 PROVE FALSE
    BY <1>1
  <2>1. p * (d + h + 1) <= 0 /\ p * (d + h + 1) = p * d + p * h + p
    OBVIOUS
  <2>2. h <= p * h
    OBVIOUS
  <2> QED BY <1>2, <1>3, <2>1, <2>2
<1>5. d < h
  <2> SUFFICES ASSUME d >= h PROVE FALSE
    BY <1>1
  <2>1. p * (d - h) >= 0 /\ p * (d - h) = p * d - p * h
    OBVIOUS
  <2>2. h <= p * h
    OBVIOUS
  <2> QED BY <1>2, <1>3, <2>1, <2>2
<1>6. d \in -h .. h - 1
  BY <1>4, <1>5
<1> QED BY <1>1, <1>3, <1>6, HalfOfRange, Zenon
-----------------------------------------------------------------------------
(* Bytes                                                                   *)

\* The bytes are the numbers of a half range of 2^(ByteBits - 1), and words.
LEMMA ByteRange ==
  \E g \in Nat \ {0}, f \in Nat \ {0} :
    /\ g = 2^(ByteBits - 1) /\ f = 2^ByteBits /\ f = 2 * g
    /\ Byte = -g .. g - 1 /\ Byte \subseteq Word
<1>1. PICK n \in Nat : n = ByteBits - 1 /\ ByteBits = n + 1
  <2>1. ByteBits - 1 \in Nat /\ ByteBits = (ByteBits - 1) + 1
    BY IsaAssumption
  <2> QED BY <2>1
<1>2. PICK g \in Nat \ {0} : g = 2^n /\ 2^(n + 1) = 2 * g
  BY PowersOfTwo
<1>3. PICK f \in Nat \ {0} : f = 2 * g /\ f = 2^ByteBits /\ g = 2^(ByteBits - 1)
  BY <1>1, <1>2
<1>4. Byte = -g .. g - 1
  BY <1>3, Zenon DEF Byte
<1>5. PICK h \in Nat \ {0} : h = Half
  BY HalfOfRange, Zenon
<1>6. g <= h
  <2>1. PICK W \in Nat : W = WordBits - 1 /\ Half = 2^W
    BY HighestBit
  <2>2. n <= W
    BY <1>1, <2>1, IsaAssumption DEF WordBits
  <2>3. 2^n <= 2^W
    BY <2>2, PowersGrow
  <2> QED BY <1>2, <1>5, <2>1, <2>3
<1>7. Byte \subseteq -h .. h - 1
  BY <1>4, <1>6
<1> QED BY <1>3, <1>4, <1>5, <1>7, HalfOfRange, Zenon

\* WrapByte changes a number by a multiple of 2^ByteBits, and makes a byte of it.
LEMMA WrapByteChanges ==
  ASSUME NEW n \in Int
  PROVE  WrapByte(n) \in Byte /\ \E k \in Int : WrapByte(n) = n + k * 2^ByteBits
<1>1. PICK g \in Nat \ {0}, f \in Nat \ {0} :
        g = 2^(ByteBits - 1) /\ f = 2^ByteBits /\ f = 2 * g /\ Byte = -g .. g - 1
  BY ByteRange
<1>2. PICK a \in Int : a = n + g
  OBVIOUS
<1>3. PICK q \in Int, r \in Int : r = a % f /\ a = f * q + r /\ 0 <= r /\ r < f
  BY Division
<1>4. WrapByte(n) = r - g
  BY <1>1, <1>2, <1>3, Zenon DEF WrapByte
<1>5. r - g \in -g .. g - 1
  <2>1. 0 <= r /\ r < 2 * g
    BY <1>1, <1>3, Zenon
  <2> QED BY <2>1
<1>6. PICK k \in Int : k = -q
  OBVIOUS
<1>7. r - g = n + k * f
  <2>1. k * f = - (f * q)
    BY <1>6
  <2> QED BY <1>2, <1>3, <2>1
<1> QED BY <1>1, <1>4, <1>5, <1>7, Zenon

\* A byte keeps the bits of the number it was made of.
LEMMA BitsOfWrapByte ==
  ASSUME NEW n \in Int, NEW i \in 0..ByteBits - 1
  PROVE  Bit(WrapByte(n), i) = Bit(n, i)
<1>1. PICK N \in Nat : N = ByteBits
  BY IsaAssumption
<1>2. PICK w \in Int, k \in Int : w = WrapByte(n) /\ w = n + k * 2^N
  <2>1. PICK k \in Int : WrapByte(n) = n + k * 2^N
    BY <1>1, WrapByteChanges
  <2>2. WrapByte(n) \in Int
    BY WrapByteChanges, ByteRange
  <2> QED BY <2>1, <2>2
<1>3. Bit(w, i) = Bit(n, i)
  BY <1>1, <1>2, SameBits
<1> QED BY <1>2, <1>3

\* Made unsigned, it is the remainder of that number.
LEMMA RemainderOfWrapByte ==
  ASSUME NEW n \in Int
  PROVE  WrapByte(n) % 2^ByteBits = n % 2^ByteBits
<1>1. PICK f \in Nat \ {0} : f = 2^ByteBits
  BY ByteRange
<1>2. PICK w \in Int, k \in Int : w = WrapByte(n) /\ w = n + k * f
  <2>1. WrapByte(n) \in Int
    BY WrapByteChanges, ByteRange
  <2> QED BY <1>1, <2>1, WrapByteChanges
<1>3. PICK q \in Int, r \in Int : r = n % f /\ n = f * q + r /\ 0 <= r /\ r < f
  BY Division
<1>4. PICK p \in Int : p = q + k
  OBVIOUS
<1>5. w = f * p + r
  <2>1. f * (q + k) = f * q + k * f
    OBVIOUS
  <2> QED BY <1>2, <1>3, <1>4, <2>1
<1>6. w % f = r
  BY <1>3, <1>5, DivisionIs
<1> QED BY <1>1, <1>2, <1>3, <1>6

\* A remainder is made of a lower and a higher part.
LEMMA RemainderOfSum ==
  ASSUME NEW a \in Int, NEW m \in Nat, NEW k \in Nat
  PROVE  a % 2^(m + k) = (a % 2^m) + ((a \div 2^m) % 2^k) * 2^m
<1>1. PICK p \in Nat \ {0}, f \in Nat \ {0} : p = 2^m /\ f = 2^k
  BY PowersOfTwo
<1>2. PICK d \in Int, r \in Int : d = a \div p /\ r = a % p /\ a = p * d + r /\ 0 <= r /\ r < p
  BY Division
<1>3. PICK e \in Int, s \in Int : s = d % f /\ d = f * e + s /\ 0 <= s /\ s < f
  BY Division
<1>4. PICK l \in Nat \ {0}, t \in Int : l = p * f /\ t = r + s * p
  OBVIOUS
<1>5. a = l * e + t
  <2>1. p * (f * e + s) + r = (p * f) * e + (r + s * p)
    OBVIOUS
  <2> QED BY <1>2, <1>3, <1>4, <2>1, Zenon
<1>6. 0 <= t /\ t < l
  <2>1. 0 <= s * p
    BY <1>3
  <2>2. s * p + p <= p * f
    <3>1. PICK u \in Nat : f = s + 1 + u
      <4>1. f - s - 1 \in Nat /\ f = s + 1 + (f - s - 1)
        BY <1>3
      <4> QED BY <4>1
    <3>2. p * (s + 1 + u) = s * p + p + p * u /\ 0 <= p * u
      BY <1>3
    <3> QED BY <3>1, <3>2
  <2> QED BY <1>2, <1>4, <2>1, <2>2
<1>7. a % l = t
  BY <1>5, <1>6, DivisionIs
<1>8. 2^(m + k) = l
  BY <1>1, <1>4, PowerOfSum
<1> QED BY <1>1, <1>2, <1>3, <1>4, <1>7, <1>8, Zenon

\* The bytes of a word are bytes, each with its eight bits.
LEMMA BytesAreBytes ==
  ASSUME NEW a \in Int, NEW j \in 0..3
  PROVE  /\ BytesFromLowBits(a)[j + 1] = WrapByte(a \div 2^(j * ByteBits))
         /\ BytesFromLowBits(a)[j + 1] \in Byte
         /\ a \div 2^(j * ByteBits) \in Int
<1>1. j + 1 \in 1..4 /\ (j + 1) - 1 = j
  OBVIOUS
<1>2. PICK m \in Nat : m = j * ByteBits
  BY IsaAssumption
<1>3. PICK p \in Nat \ {0} : p = 2^m
  BY PowersOfTwo
<1>4. a \div p \in Int
  OBVIOUS
<1>5. BytesFromLowBits(a)[j + 1] = WrapByte(a \div 2^(((j + 1) - 1) * ByteBits))
  BY <1>1, Zenon DEF BytesFromLowBits
<1>6. BytesFromLowBits(a)[j + 1] = WrapByte(a \div p)
  BY <1>1, <1>2, <1>3, <1>5
<1> QED BY <1>2, <1>3, <1>4, <1>6, WrapByteChanges

\* I32FromBytes of the lowest bytes of a number, and zeros above them, is the number that
\* these bytes make.
LEMMA WordOfBytes ==
  ASSUME NEW a \in Int, NEW count \in {2, 4}, NEW bytes,
         \A j \in 0..3 : bytes[j + 1] = IF j < count THEN BytesFromLowBits(a)[j + 1] ELSE 0
  PROVE  I32FromBytes(bytes) = Wrap(a % 2^(count * ByteBits))
<1>1. PICK B \in Nat \ {0} : B = ByteBits
  BY IsaAssumption
<1>2. PICK terms : terms = [i \in 0..3 |-> (bytes[i + 1] % 2^ByteBits) * 2^(i * ByteBits)]
  OBVIOUS
<1>3. PICK sum : Sums(sum, terms, 4) /\ SumOf(terms, 4) = sum[4]
  <2>1. 4 \in Nat
    OBVIOUS
  <2> QED BY <2>1, SumOfSums, Zenon
<1>4. sum[0] = 0 /\ \A j \in 0..3 : sum[j + 1] = sum[j] + terms[j]
  <2>1. 0..4 - 1 = 0..3
    OBVIOUS
  <2> QED BY <1>3, <2>1, Zenon DEF Sums
<1>5. ASSUME NEW j \in 0..3, j < count
      PROVE  terms[j] = ((a \div 2^(j * B)) % 2^B) * 2^(j * B)
  <2>1. bytes[j + 1] = WrapByte(a \div 2^(j * B)) /\ a \div 2^(j * B) \in Int
    BY <1>1, <1>5, BytesAreBytes
  <2>2. bytes[j + 1] % 2^B = (a \div 2^(j * B)) % 2^B
    BY <1>1, <2>1, RemainderOfWrapByte
  <2> QED BY <1>1, <1>2, <2>2
<1>6. ASSUME NEW j \in 0..3, ~(j < count)
      PROVE  terms[j] = 0
  <2>1. bytes[j + 1] = 0
    BY <1>6
  <2>2. PICK m \in Nat : m = j * B
    OBVIOUS
  <2>3. PICK p \in Nat \ {0}, f \in Nat \ {0} : p = 2^m /\ f = 2^B
    BY PowersOfTwo
  <2>4. (0 % f) * p = 0
    OBVIOUS
  <2> QED BY <1>1, <1>2, <2>1, <2>2, <2>3, <2>4
<1>7. ASSUME NEW j \in 0..3, j < count, sum[j] = a % 2^(j * B)
      PROVE  sum[j + 1] = a % 2^((j + 1) * B)
  <2>1. PICK m \in Nat : m = j * B /\ (j + 1) * B = m + B
    OBVIOUS
  <2>2. a % 2^(m + B) = (a % 2^m) + ((a \div 2^m) % 2^B) * 2^m
    BY RemainderOfSum
  <2>3. sum[j + 1] = sum[j] + ((a \div 2^m) % 2^B) * 2^m
    BY <1>4, <1>5, <1>7, <2>1
  <2> QED BY <1>7, <2>1, <2>2, <2>3, Zenon
<1>8. sum[0] = a % 2^(0 * B)
  <2>1. 0 * B = 0 /\ 2^0 = 1 /\ a % 1 = 0
    OBVIOUS
  <2> QED BY <1>4, <2>1
<1>9. sum[1] = a % 2^(1 * B)
  <2>1. sum[0 + 1] = a % 2^((0 + 1) * B)
    BY <1>7, <1>8
  <2> QED BY <2>1
<1>10. sum[2] = a % 2^(2 * B)
  <2>1. sum[1 + 1] = a % 2^((1 + 1) * B)
    BY <1>7, <1>9
  <2> QED BY <2>1
<1>11. sum[4] = a % 2^(count * B)
  <2>1. CASE count = 2
    <3>1. PICK m \in Nat : m = 2 * B
      OBVIOUS
    <3>2. PICK v \in Int : v = a % 2^m
      BY PowersOfTwo
    <3>3. sum[2 + 1] = sum[2] + terms[2] /\ sum[3 + 1] = sum[3] + terms[3]
      BY <1>4
    <3>4. terms[2] = 0 /\ terms[3] = 0
      BY <1>6, <2>1
    <3> QED BY <1>10, <2>1, <3>1, <3>2, <3>3, <3>4
  <2>2. CASE count = 4
    <3>1. sum[2 + 1] = a % 2^((2 + 1) * B)
      BY <1>7, <1>10, <2>2
    <3>2. sum[3 + 1] = a % 2^((3 + 1) * B)
      BY <1>7, <2>2, <3>1
    <3> QED BY <2>2, <3>2
  <2> QED BY <2>1, <2>2
<1> QED BY <1>1, <1>2, <1>3, <1>11, Zenon DEF I32FromBytes
-----------------------------------------------------------------------------
(* Results                                                                 *)

\* A sum of integers is one.
LEMMA SumIsInteger ==
  ASSUME NEW count \in Nat, NEW terms, \A i \in 0..count - 1 : terms[i] \in Int
  PROVE  SumOf(terms, count) \in Int
<1>1. PICK sum : Sums(sum, terms, count) /\ SumOf(terms, count) = sum[count]
  BY SumOfSums
<1> DEFINE T == {n \in Nat : n <= count => sum[n] \in Int}
<1>2. 0 \in T
  BY <1>1 DEF Sums
<1>3. ASSUME NEW n \in Nat, n \in T PROVE n + 1 \in T
  <2> SUFFICES ASSUME n + 1 <= count PROVE sum[n + 1] \in Int
    OBVIOUS
  <2>1. n \in 0..count - 1
    OBVIOUS
  <2>2. sum[n + 1] = sum[n] + terms[n]
    BY <1>1, <2>1 DEF Sums
  <2> QED BY <1>3, <2>1, <2>2
<1> HIDE DEF T
<1>4. count \in T
  BY <1>2, <1>3, Induction
<1> QED BY <1>1, <1>4 DEF T

\* Wrap of a number that differs from a word by a multiple of 2^WordBits is the word.
LEMMA WrapIs ==
  ASSUME NEW w \in Word, NEW n \in Int, NEW k \in Int, n = w + k * 2^WordBits
  PROVE  Wrap(n) = w
<1>1. PICK h \in Nat \ {0} : h = Half
  BY HalfOfRange, Zenon
<1>2. PICK f \in Nat \ {0} : f = 2 * h /\ f = 2^WordBits
  <2>1. 2 * h \in Nat \ {0}
    OBVIOUS
  <2> QED BY <1>1, <2>1, HalfOfRange, Zenon
<1>3. Word = -h .. h - 1
  BY <1>1, HalfOfRange, Zenon
<1>4. PICK v \in Word : v = Wrap(n) /\ \E j \in Int : v = n + j * f
  BY <1>2, WrapChanges, Zenon
<1>5. PICK j \in Int : v = n + j * f
  BY <1>4
<1>6. v \in Int /\ -h <= v /\ v < h /\ w \in Int /\ -h <= w /\ w < h
  BY <1>3
<1>7. PICK i \in Int : i = j + k
  OBVIOUS
<1>8. v - w = i * f
  <2>1. (j + k) * f = j * f + k * f
    OBVIOUS
  <2>2. n = w + k * f
    BY <1>2, Zenon
  <2> QED BY <1>5, <1>6, <1>7, <2>1, <2>2
<1>9. i * f < f /\ -(i * f) < f
  BY <1>2, <1>6, <1>8
<1>10. ~(i >= 1) /\ ~(i <= -1)
  BY <1>9
<1>11. v - w = 0
  <2>1. i = 0 /\ 0 * f = 0
    BY <1>10
  <2> QED BY <1>8, <2>1
<1>12. v = w
  BY <1>6, <1>11
<1> QED BY <1>4, <1>12

\* The addresses of an access are different from each other.
LEMMA AddressesDiffer ==
  ASSUME NEW a \in Int, NEW i \in 1..4, NEW j \in 1..4, Wrap(a + i - 1) = Wrap(a + j - 1)
  PROVE  i = j
<1>1. PICK f \in Nat : f = 2^WordBits /\ f >= 4
  <2>1. WordBits \in Nat /\ 2 <= WordBits
    BY IsaAssumption DEF WordBits
  <2>2. 2^2 <= 2^WordBits /\ 2^WordBits \in Nat
    BY <2>1, PowersGrow, PowersOfTwo
  <2>3. 2^2 = 4
    <3>1. 2^(0 + 1) = 2 * 2^0 /\ 2^(1 + 1) = 2 * 2^1
      BY PowersOfTwo
    <3> QED BY <3>1
  <2> QED BY <2>2, <2>3
<1>2. PICK m \in Int, n \in Int : m = a + i - 1 /\ n = a + j - 1
  OBVIOUS
<1>3. PICK w \in Int, k \in Int, l \in Int : w = m + k * f /\ w = n + l * f
  <2>1. Wrap(m) \in Int
    BY WrapChanges DEF Word
  <2>2. PICK k \in Int, l \in Int : Wrap(m) = m + k * f /\ Wrap(n) = n + l * f
    BY <1>1, WrapChanges
  <2>3. Wrap(m) = Wrap(n)
    BY <1>2
  <2> QED BY <2>1, <2>2, <2>3
<1>4. PICK d \in Int : d = l - k
  OBVIOUS
<1>5. i - j = d * f
  <2>1. (l - k) * f = l * f - k * f
    OBVIOUS
  <2> QED BY <1>2, <1>3, <1>4, <2>1
<1>6. ~(d >= 1) /\ ~(d <= -1)
  BY <1>1, <1>5
<1>7. d = 0
  BY <1>6
<1> QED BY <1>5, <1>7

\* Small numbers are words.
LEMMA SmallWords == {-1, 0, 1} \subseteq Word
<1>1. PICK h \in Nat : h = Half /\ h >= 2
  <2>1. PICK W \in Nat : W = WordBits - 1 /\ Half = 2^W
    BY HighestBit
  <2>2. 1 <= W
    BY <2>1, IsaAssumption DEF WordBits
  <2>3. 2^1 <= 2^W /\ 2^W \in Nat
    BY <2>2, PowersGrow, PowersOfTwo
  <2>4. 2^1 = 2
    <3>1. 2^(0 + 1) = 2 * 2^0
      BY PowersOfTwo
    <3> QED BY <3>1
  <2> QED BY <2>1, <2>3, <2>4
<1>2. Word = -h .. h - 1
  BY <1>1, HalfOfRange, Zenon
<1> QED BY <1>1, <1>2

\* The shifts of words, for every count that does not panic.
LEMMA ShiftsAreWords ==
  ASSUME NEW a \in Word, NEW b \in Word
  PROVE  SllOf(a, b) \in Word /\ (b >= 0 => SraOf(a, b) \in Word)
<1>1. a \in Int /\ b \in Int /\ 0 \in Word /\ -1 \in Word
  BY SmallWords DEF Word
<1>2. b \in Nat => 2^b \in Nat \ {0}
  BY PowersOfTwo
<1>3. SllOf(a, b) \in Word
  <2>1. CASE b \in 0..WordBits - 1
    <3>1. a * 2^b \in Int
      <4>1. PICK p \in Nat : p = 2^b
        BY <1>2, <2>1
      <4> QED BY <1>1, <4>1
    <3> QED BY <2>1, <3>1, WrapChanges, Zenon DEF SllOf
  <2>2. CASE b \notin 0..WordBits - 1
    BY <1>1, <2>2 DEF SllOf
  <2> QED BY <2>1, <2>2
<1>4. ASSUME b >= 0 PROVE SraOf(a, b) \in Word
  <2>1. a \div 2^b \in Word
    <3>1. PICK p \in Nat \ {0} : p = 2^b
      BY <1>1, <1>2, <1>4
    <3>2. a \div p \in Word
      BY QuotientIsWord, Zenon
    <3> QED BY <3>1, <3>2, Zenon
  <2> QED BY <1>1, <2>1, Zenon DEF SraOf
<1> QED BY <1>3, <1>4

\* Go's division rounds toward zero: the remainder is smaller than the divisor and has the
\* sign of the dividend.
LEMMA TruncDivides ==
  ASSUME NEW a \in Int, NEW b \in Int, b # 0
  PROVE  /\ TruncDiv(a, b) \in Int /\ TruncRem(a, b) \in Int
         /\ Abs(TruncDiv(a, b)) <= Abs(a)
         /\ b * TruncDiv(a, b) + TruncRem(a, b) = a
         /\ Abs(TruncRem(a, b)) < Abs(b)
         /\ TruncRem(a, b) # 0 => (TruncRem(a, b) < 0) = (a < 0)
<1>1. PICK p \in Nat, m \in Nat \ {0} : p = Abs(a) /\ m = Abs(b)
  BY DEF Abs
<1>2. PICK d \in Nat : d = p \div m /\ d <= p /\ m * d <= p /\ p - m * d < m
  BY FloorDivides
<1>3. PICK t : t = TruncDiv(a, b) /\ t = (IF (a < 0) = (b < 0) THEN d ELSE -d)
  BY <1>1, <1>2, Zenon DEF TruncDiv
<1>4. TruncRem(a, b) = a - b * t
  BY <1>3, Zenon DEF TruncRem
<1>5. PICK e \in Nat : e = m * d
  OBVIOUS
<1>6. t \in Int /\ b * t = (IF a < 0 THEN -e ELSE e)
  <2>1. CASE a < 0 /\ b < 0
    <3>1. t = d /\ b = -m
      BY <1>1, <1>3, <2>1 DEF Abs
    <3> QED BY <1>5, <2>1, <3>1
  <2>2. CASE a < 0 /\ ~(b < 0)
    <3>1. t = -d /\ b = m
      BY <1>1, <1>3, <2>2 DEF Abs
    <3> QED BY <1>5, <2>2, <3>1
  <2>3. CASE ~(a < 0) /\ b < 0
    <3>1. t = -d /\ b = -m
      BY <1>1, <1>3, <2>3 DEF Abs
    <3> QED BY <1>5, <2>3, <3>1
  <2>4. CASE ~(a < 0) /\ ~(b < 0)
    <3>1. t = d /\ b = m
      BY <1>1, <1>3, <2>4 DEF Abs
    <3> QED BY <1>5, <2>4, <3>1
  <2> QED BY <2>1, <2>2, <2>3, <2>4
<1>7. PICK w \in Int : w = b * t
  BY <1>6
<1>8. PICK r : r = TruncRem(a, b) /\ r = a - w
  BY <1>4, <1>7
<1>9. Abs(t) = d
  BY <1>3 DEF Abs
<1>10. r = (IF a < 0 THEN -(p - e) ELSE p - e) /\ p - e >= 0 /\ p - e < m
  BY <1>1, <1>2, <1>5, <1>6, <1>7, <1>8 DEF Abs
<1>11. r \in Int /\ Abs(r) = p - e /\ (r # 0 => (r < 0) = (a < 0))
  BY <1>10 DEF Abs
<1>12. w + r = a
  BY <1>8, <1>7
<1>13. b * t + r = a
  BY <1>7, <1>12
<1> QED BY <1>1, <1>2, <1>3, <1>6, <1>8, <1>9, <1>10, <1>11, <1>13

\* The pc of an instruction of the program, and the next one, are int32's.
LEMMA PcsOfProgram ==
  ASSUME NEW length \in Nat, 4 * length + 4 \in Word,
         NEW pc \in Int, 0 <= IndexOf(pc), IndexOf(pc) < length
  PROVE  pc \in Word /\ pc + 4 \in Word
<1>1. PICK h \in Nat \ {0} : Word = -h .. h - 1
  BY HalfOfRange, Zenon
<1>2. 4 * length + 4 < h /\ 0 < length
  <2>1. IndexOf(pc) \in Int
    BY TruncDivides DEF IndexOf
  <2> QED BY <1>1, <2>1
<1>3. PICK i \in Int : i = IndexOf(pc) /\ i = TruncDiv(pc, 4)
  BY TruncDivides DEF IndexOf
<1>4. PICK r \in Int : 4 * i + r = pc /\ Abs(r) < Abs(4)
  <2>1. 4 # 0 /\ 4 \in Int
    OBVIOUS
  <2> QED BY <1>3, <2>1, TruncDivides
<1>5. Abs(4) = 4 /\ -Abs(r) <= r /\ r <= Abs(r)
  BY DEF Abs
<1>6. -4 < pc /\ pc < 4 * length
  <2>1. -4 < r /\ r < 4 /\ i <= length - 1 /\ 0 <= i
    BY <1>3, <1>4, <1>5 DEF Abs
  <2> QED BY <1>4, <2>1
<1> QED BY <1>1, <1>2, <1>6

-----------------------------------------------------------------------------
(* What the instructions compute                                           *)

\* The kinds of opcodes have no opcode in common.
LEMMA KindsOfOpcodes ==
  ASSUME NEW op \in Op
  PROVE  \/ op \in RegRegOps \/ op \in RegImmOps \/ op \in UpperOps \/ op \in LoadOps
         \/ op \in StoreOps \/ op \in BranchOps \/ op \in JumpOps \/ op = "ret" \/ op = "nop"
BY DEF Op

\* What Run does with each kind.
LEMMA RunOfRegReg ==
  ASSUME NEW code, code.op \in RegRegOps,
         NEW app, NEW regs0, NEW pc, NEW bytes
  PROVE  Run(code, app, regs0, pc, bytes) = RegRegRun(code, regs0[code.rs1], regs0[code.rs2])
BY DEF Run, RegRegOps, RegImmOps, UpperOps, LoadOps, StoreOps, BranchOps, JumpOps

LEMMA RunOfRegImm ==
  ASSUME NEW code, code.op \in RegImmOps,
         NEW app, NEW regs0, NEW pc, NEW bytes
  PROVE  Run(code, app, regs0, pc, bytes) = RegImmRun(code, regs0[code.rs1], code.imm)
BY DEF Run, RegRegOps, RegImmOps, UpperOps, LoadOps, StoreOps, BranchOps, JumpOps

LEMMA RunOfUpper ==
  ASSUME NEW code, code.op \in UpperOps,
         NEW app, NEW regs0, NEW pc, NEW bytes
  PROVE  Run(code, app, regs0, pc, bytes) = UpperRun(code, pc)
BY DEF Run, RegRegOps, RegImmOps, UpperOps, LoadOps, StoreOps, BranchOps, JumpOps

LEMMA RunOfLoad ==
  ASSUME NEW code, code.op \in LoadOps,
         NEW app, NEW regs0, NEW pc, NEW bytes
  PROVE  Run(code, app, regs0, pc, bytes) = LoadRun(code, bytes)
BY DEF Run, RegRegOps, RegImmOps, UpperOps, LoadOps, StoreOps, BranchOps, JumpOps

LEMMA RunOfStore ==
  ASSUME NEW code, code.op \in StoreOps,
         NEW app, NEW regs0, NEW pc, NEW bytes
  PROVE  Run(code, app, regs0, pc, bytes) = StoreRun(code, regs0[code.rs1], regs0[code.rs2])
BY DEF Run, RegRegOps, RegImmOps, UpperOps, LoadOps, StoreOps, BranchOps, JumpOps

LEMMA RunOfBranch ==
  ASSUME NEW code, code.op \in BranchOps,
         NEW app, NEW regs0, NEW pc, NEW bytes
  PROVE  Run(code, app, regs0, pc, bytes) = BranchRun(code, app, regs0[code.rs1], regs0[code.rs2])
BY DEF Run, RegRegOps, RegImmOps, UpperOps, LoadOps, StoreOps, BranchOps, JumpOps

LEMMA RunOfJump ==
  ASSUME NEW code, code.op \in JumpOps,
         NEW app, NEW regs0, NEW pc, NEW bytes
  PROVE  Run(code, app, regs0, pc, bytes) = JumpRun(code, app, regs0[code.rs1], pc)
BY DEF Run, RegRegOps, RegImmOps, UpperOps, LoadOps, StoreOps, BranchOps, JumpOps

LEMMA RunOfRet ==
  ASSUME NEW code, code.op = "ret",
         NEW app, NEW regs0, NEW pc, NEW bytes
  PROVE  Run(code, app, regs0, pc, bytes) = [NoChange EXCEPT !.Return = TRUE]
BY DEF Run, RegRegOps, RegImmOps, UpperOps, LoadOps, StoreOps, BranchOps, JumpOps

LEMMA RunOfNop ==
  ASSUME NEW code, code.op = "nop",
         NEW app, NEW regs0, NEW pc, NEW bytes
  PROVE  Run(code, app, regs0, pc, bytes) = NoChange
BY DEF Run, RegRegOps, RegImmOps, UpperOps, LoadOps, StoreOps, BranchOps, JumpOps

\* The fields of the results that the opcodes build.
LEMMA FieldsOfResults ==
  /\ \A rd, value : /\ RegisterResult(rd, value).RegisterChange
                    /\ RegisterResult(rd, value).Register = rd
  /\ \A outcome : Failed(outcome).Outcome = outcome /\ ~Failed(outcome).RegisterChange
  /\ ~NoChange.RegisterChange
BY DEF RegisterResult, Failed, NoChange

\* The registers, words and bytes of a result.
WordResult(exe) ==
  /\ exe.RegisterChange \in BOOLEAN /\ exe.Register \in Register
  /\ exe.RegisterValue \in Word /\ exe.NextPc \in Word
  /\ exe.Register = Zero => exe.RegisterValue = 0
  /\ \A address \in DOMAIN exe.MemoryChanges : exe.MemoryChanges[address] \in Byte

LEMMA SimpleResults ==
  /\ WordResult(NoChange) /\ WordResult([NoChange EXCEPT !.Return = TRUE])
  /\ \A outcome : WordResult(Failed(outcome))
  /\ \A rd \in Register, value \in Word : WordResult(RegisterResult(rd, value))
  /\ \A target \in Word : WordResult([NoChange EXCEPT !.PcChange = TRUE, !.NextPc = target])
<1>1. 0 \in Word /\ Zero \in Register /\ DOMAIN << >> = {}
  BY SmallWords, IsaAssumption
<1> QED BY <1>1 DEF WordResult, NoChange, Failed, RegisterResult

\* The results of the arithmetic opcodes.
LEMMA RegRegWords ==
  ASSUME NEW code, code.op \in RegRegOps, code.rd \in Register, NEW a \in Word, NEW b \in Word
  PROVE  WordResult(RegRegRun(code, a, b))
<1>1. a \in Int /\ b \in Int
  BY DEF Word
<1>2. AddOf(a, b) \in Word /\ MulOf(a, b) \in Word /\ SubOf(a, b) \in Word
  <2>1. a + b \in Int /\ a * b \in Int /\ a - b \in Int
    BY <1>1
  <2> QED BY <2>1, WrapChanges, Zenon DEF AddOf, MulOf, SubOf
<1>3. b # 0 => DivOf(a, b) \in Word /\ RemOf(a, b) \in Word
  BY <1>1, TruncDivides, WrapChanges DEF DivOf, RemOf
<1>4. SltOf(a, b) \in Word
  BY SmallWords DEF SltOf
<1>5. AndOf(a, b) \in Word /\ OrOf(a, b) \in Word /\ XorOf(a, b) \in Word
  BY BitwiseWords, Zenon
<1>6. SllOf(a, b) \in Word /\ (~(b < 0) => SraOf(a, b) \in Word)
  <2>1. ~(b < 0) <=> b >= 0
    BY <1>1
  <2> QED BY <2>1, ShiftsAreWords, Zenon
<1>7. \/ \E outcome : RegRegRun(code, a, b) = Failed(outcome)
      \/ \E value \in Word : RegRegRun(code, a, b) = RegisterResult(code.rd, value)
  BY <1>2, <1>3, <1>4, <1>5, <1>6 DEF RegRegRun, RegRegOps
<1> QED BY <1>7, SimpleResults, Zenon

LEMMA RegImmWords ==
  ASSUME NEW code, code.op \in RegImmOps, code.rd \in Register, NEW a \in Word, NEW b \in Word
  PROVE  WordResult(RegImmRun(code, a, b))
<1>1. a \in Int /\ b \in Int
  BY DEF Word
<1>2. AddOf(a, b) \in Word
  <2>1. a + b \in Int
    BY <1>1
  <2> QED BY <2>1, WrapChanges, Zenon DEF AddOf
<1>4. SltOf(a, b) \in Word
  BY SmallWords DEF SltOf
<1>5. AndOf(a, b) \in Word /\ OrOf(a, b) \in Word /\ XorOf(a, b) \in Word
  BY BitwiseWords, Zenon
<1>6. SllOf(a, b) \in Word /\ (~(b < 0) => SraOf(a, b) \in Word)
  <2>1. ~(b < 0) <=> b >= 0
    BY <1>1
  <2> QED BY <2>1, ShiftsAreWords, Zenon
<1>7. \/ \E outcome : RegImmRun(code, a, b) = Failed(outcome)
      \/ \E value \in Word : RegImmRun(code, a, b) = RegisterResult(code.rd, value)
  BY <1>2, <1>4, <1>5, <1>6 DEF RegImmRun, RegImmOps
<1> QED BY <1>7, SimpleResults, Zenon

LEMMA UpperWords ==
  ASSUME NEW code, code.op \in UpperOps, code.rd \in Register, code.imm \in Word, NEW pc \in Int
  PROVE  WordResult(UpperRun(code, pc))
<1>1. PICK imm \in Int, p \in Nat : imm = code.imm /\ p = 2^UpperShift
  BY PowersOfTwo, IsaAssumption DEF Word
<1>2. imm * p \in Int
  OBVIOUS
<1>3. LuiOf(imm) \in Word
  BY <1>1, <1>2, WrapChanges DEF LuiOf
<1>4. AuipcOf(pc, imm) \in Word
  <2>1. Wrap(imm * p) \in Int
    BY <1>2, WrapChanges DEF Word
  <2>2. pc + Wrap(imm * p) \in Int
    BY <2>1
  <2> QED BY <1>1, <2>2, WrapChanges, Zenon DEF AuipcOf
<1>5. \E value \in Word : UpperRun(code, pc) = RegisterResult(code.rd, value)
  BY <1>1, <1>3, <1>4 DEF UpperRun, UpperOps
<1> QED BY <1>5, SimpleResults, Zenon

\* The word of any four integers.
LEMMA MadeOfBytes ==
  ASSUME NEW bytes, \A i \in 1..4 : bytes[i] \in Int
  PROVE  I32FromBytes(bytes) \in Word
<1>1. PICK terms : terms = [i \in 0..3 |-> (bytes[i + 1] % 2^ByteBits) * 2^(i * ByteBits)]
  OBVIOUS
<1>2. ASSUME NEW i \in 0..3 PROVE terms[i] \in Int
  <2>1. PICK f \in Nat \ {0} : f = 2^ByteBits
    BY ByteRange
  <2>2. i * ByteBits \in Nat
    BY IsaAssumption
  <2>3. PICK p \in Nat : p = 2^(i * ByteBits)
    BY <2>2, PowersOfTwo
  <2>4. bytes[i + 1] \in Int
    OBVIOUS
  <2>5. (bytes[i + 1] % f) * p \in Int
    BY <2>4
  <2> QED BY <1>1, <2>1, <2>3, <2>5
<1>3. SumOf(terms, 4) \in Int
  <2>1. 4 \in Nat /\ 0..4 - 1 = 0..3
    OBVIOUS
  <2> QED BY <1>2, <2>1, SumIsInteger, Zenon
<1> QED BY <1>1, <1>3, WrapChanges, Zenon DEF I32FromBytes

LEMMA LoadWords ==
  ASSUME NEW code, code.op \in LoadOps, code.rd \in Register, NEW bytes,
         \A i \in 1..AccessSize(code) : bytes[i] \in Byte
  PROVE  WordResult(LoadRun(code, bytes))
<1>1. Byte \subseteq Word /\ Byte \subseteq Int
  BY ByteRange DEF Word
<1>2. CASE code.op = "lb"
  <2>1. 1 \in 1..AccessSize(code)
    BY <1>2 DEF AccessSize
  <2>2. bytes[1] \in Word
    BY <1>1, <2>1
  <2>3. LoadRun(code, bytes) = RegisterResult(code.rd, bytes[1])
    BY <1>2 DEF LoadRun
  <2> QED BY <2>2, <2>3, SimpleResults, Zenon
<1>3. CASE code.op = "lh"
  <2>1. 1 \in 1..AccessSize(code) /\ 2 \in 1..AccessSize(code)
    BY <1>3 DEF AccessSize
  <2>2. PICK b : b = <<bytes[1], bytes[2], 0, 0>>
    OBVIOUS
  <2>3. \A i \in 1..4 : b[i] \in Int
    <3>1. bytes[1] \in Int /\ bytes[2] \in Int
      BY <1>1, <2>1
    <3> QED BY <2>2, <3>1
  <2>4. I32FromBytes(b) \in Word
    BY <2>3, MadeOfBytes, Zenon
  <2>5. LoadRun(code, bytes) = RegisterResult(code.rd, I32FromBytes(b))
    BY <1>3, <2>2 DEF LoadRun
  <2> QED BY <2>4, <2>5, SimpleResults, Zenon
<1>4. CASE code.op = "lw"
  <2>1. AccessSize(code) = 4
    BY <1>4 DEF AccessSize
  <2>2. I32FromBytes(bytes) \in Word
    BY <1>1, <2>1, MadeOfBytes
  <2>3. LoadRun(code, bytes) = RegisterResult(code.rd, I32FromBytes(bytes))
    BY <1>4 DEF LoadRun
  <2> QED BY <2>2, <2>3, SimpleResults, Zenon
<1> QED BY <1>2, <1>3, <1>4 DEF LoadOps

LEMMA StoreBytes ==
  ASSUME NEW code, NEW a \in Int, NEW value \in Int
  PROVE  WordResult(StoreRun(code, a, value))
<1> DEFINE addrs == Addresses(Wrap(a + code.imm), AccessSize(code))
           bytes == BytesFromLowBits(value)
           changes == [x \in {addrs[i] : i \in DOMAIN addrs} |->
                         bytes[CHOOSE i \in DOMAIN addrs : addrs[i] = x]]
<1>1. StoreRun(code, a, value) = [NoChange EXCEPT !.MemoryChange = TRUE, !.MemoryChanges = changes]
  BY Zenon DEF StoreRun
<1>2. PICK size \in 1..4 : size = AccessSize(code)
  BY DEF AccessSize
<1>3. DOMAIN addrs = 1..size
  BY <1>2 DEF Addresses
<1>4. ASSUME NEW i \in 1..size PROVE bytes[i] \in Byte
  <2>1. PICK j \in 0..3 : i = j + 1
    <3>1. i - 1 \in 0..3 /\ i = (i - 1) + 1
      BY <1>2
    <3> QED BY <3>1
  <2>2. BytesFromLowBits(value)[j + 1] \in Byte
    BY BytesAreBytes
  <2> QED BY <2>1, <2>2
<1> HIDE DEF addrs, bytes
<1>5. ASSUME NEW address \in DOMAIN changes PROVE changes[address] \in Byte
  <2>1. \E i \in DOMAIN addrs : addrs[i] = address
    OBVIOUS
  <2>2. PICK i \in DOMAIN addrs : i = CHOOSE j \in DOMAIN addrs : addrs[j] = address
    BY <2>1, Zenon
  <2>3. changes[address] = bytes[i]
    BY <2>2, Zenon
  <2> QED BY <1>3, <1>4, <2>3
<1> HIDE DEF changes
<1>6. 0 \in Word /\ Zero \in Register
  BY SmallWords, IsaAssumption
<1> QED BY <1>1, <1>5, <1>6 DEF WordResult, NoChange

\* The labels of a program are words.
LabelsAreWords(app) == \A label \in DOMAIN app.Labels : app.Labels[label] \in Word

LEMMA GotoWords ==
  ASSUME NEW app, LabelsAreWords(app), NEW label
  PROVE  WordResult(Goto(app, label))
<1>1. CASE label \in DOMAIN app.Labels
  <2>1. app.Labels[label] \in Word
    BY <1>1 DEF LabelsAreWords
  <2> QED BY <1>1, <2>1, SimpleResults, Zenon DEF Goto
<1>2. CASE label \notin DOMAIN app.Labels
  BY <1>2, SimpleResults, Zenon DEF Goto
<1> QED BY <1>1, <1>2

LEMMA JumpWords ==
  ASSUME NEW code, code.rd \in Register, code.imm \in Word, NEW app, LabelsAreWords(app),
         NEW a \in Word, NEW pc \in Int
  PROVE  WordResult(JumpRun(code, app, a, pc))
<1>1. PICK to : to = Wrap(a + code.imm)
  OBVIOUS
<1>2. to \in Word /\ Wrap(pc + 4) \in Word
  <2>1. a + code.imm \in Int /\ pc + 4 \in Int
    BY DEF Word
  <2> QED BY <1>1, <2>1, WrapChanges, Zenon
<1>3. PICK target : target = IF code.op = "jalr"
                             THEN [NoChange EXCEPT !.PcChange = TRUE, !.NextPc = to]
                             ELSE Goto(app, code.label)
  OBVIOUS
<1>4. PICK link : link = RegisterResult(code.rd, Wrap(pc + 4))
  OBVIOUS
<1>5. WordResult(target)
  <2>1. WordResult([NoChange EXCEPT !.PcChange = TRUE, !.NextPc = to])
    BY <1>2, SimpleResults, Zenon
  <2>2. WordResult(Goto(app, code.label))
    BY GotoWords, Zenon
  <2> QED BY <1>3, <2>1, <2>2, Zenon
<1>6. WordResult(link)
  BY <1>2, <1>4, SimpleResults, Zenon
<1>7. WordResult([link EXCEPT !.PcChange = TRUE, !.NextPc = target.NextPc])
  <2>1. target.NextPc \in Word
    BY <1>5, Zenon DEF WordResult
  <2>2. link = [NoChange EXCEPT !.RegisterChange = TRUE, !.Register = code.rd,
                                !.RegisterValue = IF code.rd = Zero THEN 0 ELSE Wrap(pc + 4)]
    BY <1>4, Zenon DEF RegisterResult
  <2> QED BY <1>6, <2>1, <2>2 DEF WordResult, NoChange
<1>8. \/ JumpRun(code, app, a, pc) = target
      \/ JumpRun(code, app, a, pc) = [link EXCEPT !.PcChange = TRUE, !.NextPc = target.NextPc]
  BY <1>1, <1>3, <1>4, Zenon DEF JumpRun
<1> QED BY <1>5, <1>7, <1>8, Zenon

\* Every instruction, run on words and bytes, computes words and bytes.
LEMMA ResultsAreWords ==
  ASSUME NEW code \in InstructionRunner, NEW app, LabelsAreWords(app),
         NEW regs \in [Register -> Word], NEW pc \in Int, NEW bytes,
         code.op \in LoadOps => \A i \in 1..AccessSize(code) : bytes[i] \in Byte
  PROVE  WordResult(Run(code, app, regs, pc, bytes))
<1>1. /\ code.op \in Op /\ code.rd \in Register /\ code.imm \in Word
      /\ code.rs1 \in Register /\ code.rs2 \in Register
  BY DEF InstructionRunner
<1>2. PICK a \in Word, b \in Word : a = regs[code.rs1] /\ b = regs[code.rs2]
  BY <1>1
<1>3. a \in Int /\ b \in Int
  BY DEF Word
<1>4. PICK exe : exe = Run(code, app, regs, pc, bytes)
  OBVIOUS
<1>5. CASE code.op \in RegRegOps
  <2>1. exe = RegRegRun(code, a, b)
    BY <1>2, <1>4, <1>5, RunOfRegReg
  <2> QED BY <1>1, <1>4, <1>5, <2>1, RegRegWords, Zenon
<1>6. CASE code.op \in RegImmOps
  <2>1. exe = RegImmRun(code, a, code.imm)
    BY <1>2, <1>4, <1>6, RunOfRegImm
  <2> QED BY <1>1, <1>4, <1>6, <2>1, RegImmWords, Zenon
<1>7. CASE code.op \in UpperOps
  <2>1. exe = UpperRun(code, pc)
    BY <1>4, <1>7, RunOfUpper
  <2> QED BY <1>1, <1>4, <1>7, <2>1, UpperWords, Zenon
<1>8. CASE code.op \in LoadOps
  <2>1. exe = LoadRun(code, bytes)
    BY <1>4, <1>8, RunOfLoad
  <2> QED BY <1>1, <1>4, <1>8, <2>1, LoadWords, Zenon
<1>9. CASE code.op \in StoreOps
  <2>1. exe = StoreRun(code, a, b)
    BY <1>2, <1>4, <1>9, RunOfStore
  <2> QED BY <1>3, <1>4, <2>1, StoreBytes, Zenon
<1>10. CASE code.op \in BranchOps
  <2>1. exe = BranchRun(code, app, a, b)
    BY <1>2, <1>4, <1>10, RunOfBranch
  <2>2. exe = Goto(app, code.label) \/ exe = NoChange
    BY <2>1, Zenon DEF BranchRun
  <2> QED BY <1>4, <2>2, GotoWords, SimpleResults, Zenon
<1>11. CASE code.op \in JumpOps
  <2>1. exe = JumpRun(code, app, a, pc)
    BY <1>2, <1>4, <1>11, RunOfJump
  <2> QED BY <1>1, <1>4, <2>1, JumpWords, Zenon
<1>12. CASE code.op = "ret" \/ code.op = "nop"
  <2>1. exe = [NoChange EXCEPT !.Return = TRUE] \/ exe = NoChange
    BY <1>4, <1>12, RunOfRet, RunOfNop
  <2> QED BY <1>4, <2>1, SimpleResults, Zenon
<1> QED BY <1>1, <1>5, <1>6, <1>7, <1>8, <1>9, <1>10, <1>11, <1>12, KindsOfOpcodes, Zenon

\* It succeeds, returns an error or panics.
LEMMA OutcomesOfRun ==
  ASSUME NEW code \in InstructionRunner, NEW app, NEW regs, NEW pc, NEW bytes
  PROVE  Run(code, app, regs, pc, bytes).Outcome \in {"ok", "error", "panic"}
<1>1. code.op \in Op
  BY DEF InstructionRunner
<1>2. PICK a, b, exe : a = regs[code.rs1] /\ b = regs[code.rs2] /\ exe = Run(code, app, regs, pc, bytes)
  OBVIOUS
<1>3. /\ NoChange.Outcome = "ok" /\ \A how : Failed(how).Outcome = how
      /\ \A rd, value : RegisterResult(rd, value).Outcome = "ok"
      /\ \A label : Goto(app, label).Outcome \in {"ok", "error"}
  BY DEF NoChange, Failed, RegisterResult, Goto
<1>4. CASE code.op \in RegRegOps \cup RegImmOps \cup UpperOps \cup LoadOps
  <2>1. (\E value : exe = RegisterResult(code.rd, value)) \/ exe = Failed("error") \/ exe = Failed("panic")
    <3>1. CASE code.op \in RegRegOps
      <4>1. exe = RegRegRun(code, a, b)
        BY <1>2, <3>1, RunOfRegReg
      <4> QED BY <4>1, Zenon DEF RegRegRun
    <3>2. CASE code.op \in RegImmOps
      <4>1. exe = RegImmRun(code, a, code.imm)
        BY <1>2, <3>2, RunOfRegImm
      <4> QED BY <4>1, Zenon DEF RegImmRun
    <3>3. CASE code.op \in UpperOps
      <4>1. exe = UpperRun(code, pc)
        BY <1>2, <3>3, RunOfUpper
      <4> QED BY <4>1, Zenon DEF UpperRun
    <3>4. CASE code.op \in LoadOps
      <4>1. exe = LoadRun(code, bytes)
        BY <1>2, <3>4, RunOfLoad
      <4> QED BY <4>1, Zenon DEF LoadRun
    <3> QED BY <1>4, <3>1, <3>2, <3>3, <3>4
  <2> QED BY <1>2, <1>3, <2>1
<1>5. CASE code.op \in StoreOps
  <2>1. exe = StoreRun(code, a, b)
    BY <1>2, <1>5, RunOfStore
  <2> QED BY <1>2, <2>1 DEF StoreRun, NoChange
<1>6. CASE code.op \in BranchOps
  <2>1. exe = BranchRun(code, app, a, b)
    BY <1>2, <1>6, RunOfBranch
  <2>2. exe = Goto(app, code.label) \/ exe = NoChange
    BY <2>1, Zenon DEF BranchRun
  <2> QED BY <1>2, <1>3, <2>2, Zenon
<1>7. CASE code.op \in JumpOps
  <2>1. exe = JumpRun(code, app, a, pc)
    BY <1>2, <1>7, RunOfJump
  <2>2. PICK target : target = IF code.op = "jalr"
                               THEN [NoChange EXCEPT !.PcChange = TRUE, !.NextPc = Wrap(a + code.imm)]
                               ELSE Goto(app, code.label)
    OBVIOUS
  <2>3. PICK link : link = RegisterResult(code.rd, Wrap(pc + 4))
    OBVIOUS
  <2>4. exe = target \/ exe = [link EXCEPT !.PcChange = TRUE, !.NextPc = target.NextPc]
    BY <2>1, <2>2, <2>3, Zenon DEF JumpRun
  <2>5. [NoChange EXCEPT !.PcChange = TRUE, !.NextPc = Wrap(a + code.imm)].Outcome = "ok"
    BY DEF NoChange
  <2>6. target.Outcome \in {"ok", "error"}
    BY <1>3, <2>2, <2>5, Zenon
  <2>7. [link EXCEPT !.PcChange = TRUE, !.NextPc = target.NextPc].Outcome = "ok"
    BY <2>3 DEF RegisterResult, NoChange
  <2> QED BY <1>2, <2>4, <2>6, <2>7, Zenon
<1>8. CASE code.op = "ret" \/ code.op = "nop"
  <2>1. exe = [NoChange EXCEPT !.Return = TRUE] \/ exe = NoChange
    BY <1>2, <1>8, RunOfRet, RunOfNop
  <2> QED BY <1>2, <2>1 DEF NoChange
<1> QED BY <1>1, <1>4, <1>5, <1>6, <1>7, <1>8, KindsOfOpcodes, Zenon

\* An execution that neither stores nor returns.
Silent(exe) == exe.MemoryChange = FALSE /\ exe.MemoryChanges = << >> /\ exe.Return = FALSE

\* One that stores and does nothing else.
Stores(exe) ==
  /\ exe.MemoryChange = TRUE /\ DOMAIN exe.MemoryChanges # {} /\ exe.Outcome = "ok"
  /\ exe.RegisterChange = FALSE /\ exe.PcChange = FALSE /\ exe.Return = FALSE

\* Only a store stores, and only ret returns.
LEMMA StoresAndReturns ==
  ASSUME NEW code \in InstructionRunner, NEW app, NEW regs, NEW pc, NEW bytes,
         NEW exe, exe = Run(code, app, regs, pc, bytes)
  PROVE  /\ code.op \notin StoreOps \cup {"ret"} => Silent(exe)
         /\ code.op \in StoreOps => Stores(exe)
<1>1. code.op \in Op
  BY DEF InstructionRunner
<1>2. PICK a, b : a = regs[code.rs1] /\ b = regs[code.rs2]
  OBVIOUS
<1>3. /\ Silent(NoChange) /\ \A how : Silent(Failed(how))
      /\ \A rd, value : Silent(RegisterResult(rd, value))
  BY DEF NoChange, Failed, RegisterResult, Silent
<1>4. CASE code.op \in RegRegOps \cup RegImmOps \cup UpperOps \cup LoadOps
  <2>1. (\E value : exe = RegisterResult(code.rd, value)) \/ exe = Failed("error") \/ exe = Failed("panic")
    <3>1. CASE code.op \in RegRegOps
      <4>1. exe = RegRegRun(code, a, b)
        BY <1>2, <3>1, RunOfRegReg
      <4> QED BY <4>1, Zenon DEF RegRegRun
    <3>2. CASE code.op \in RegImmOps
      <4>1. exe = RegImmRun(code, a, code.imm)
        BY <1>2, <3>2, RunOfRegImm
      <4> QED BY <4>1, Zenon DEF RegImmRun
    <3>3. CASE code.op \in UpperOps
      <4>1. exe = UpperRun(code, pc)
        BY <1>2, <3>3, RunOfUpper
      <4> QED BY <4>1, Zenon DEF UpperRun
    <3>4. CASE code.op \in LoadOps
      <4>1. exe = LoadRun(code, bytes)
        BY <1>2, <3>4, RunOfLoad
      <4> QED BY <4>1, Zenon DEF LoadRun
    <3> QED BY <1>4, <3>1, <3>2, <3>3, <3>4
  <2>2. Silent(exe)
    BY <1>3, <2>1, Zenon
  <2>3. code.op \notin StoreOps /\ code.op # "ret"
    BY <1>4 DEF RegRegOps, RegImmOps, UpperOps, LoadOps, StoreOps
  <2> QED BY <2>2, <2>3
<1>5. CASE code.op \in StoreOps
  <2> DEFINE addrs == Addresses(Wrap(a + code.imm), AccessSize(code))
             stored == [x \in {addrs[i] : i \in DOMAIN addrs} |->
                          BytesFromLowBits(b)[CHOOSE i \in DOMAIN addrs : addrs[i] = x]]
  <2>1. exe = StoreRun(code, a, b)
    BY <1>2, <1>5, RunOfStore
  <2>2. exe = [NoChange EXCEPT !.MemoryChange = TRUE, !.MemoryChanges = stored]
    BY <2>1, Zenon DEF StoreRun
  <2>3. 1 \in DOMAIN addrs
    BY DEF Addresses, AccessSize
  <2> HIDE DEF addrs
  <2>4. addrs[1] \in DOMAIN stored
    BY <2>3
  <2> HIDE DEF stored
  <2>5. code.op # "ret"
    BY <1>5 DEF StoreOps
  <2> QED BY <1>5, <2>2, <2>4, <2>5 DEF NoChange, Stores
<1>6. CASE code.op \in BranchOps
  <2>1. exe = BranchRun(code, app, a, b)
    BY <1>2, <1>6, RunOfBranch
  <2>2. exe = Goto(app, code.label) \/ exe = NoChange
    BY <2>1, Zenon DEF BranchRun
  <2>3. Silent(Goto(app, code.label))
    BY <1>3 DEF Goto, NoChange, Silent
  <2>4. code.op \notin StoreOps /\ code.op # "ret"
    BY <1>6 DEF BranchOps, StoreOps
  <2> QED BY <1>3, <2>2, <2>3, <2>4
<1>7. CASE code.op \in JumpOps
  <2>1. exe = JumpRun(code, app, a, pc)
    BY <1>2, <1>7, RunOfJump
  <2>2. PICK target : target = IF code.op = "jalr"
                               THEN [NoChange EXCEPT !.PcChange = TRUE, !.NextPc = Wrap(a + code.imm)]
                               ELSE Goto(app, code.label)
    OBVIOUS
  <2>3. PICK link : link = RegisterResult(code.rd, Wrap(pc + 4))
    OBVIOUS
  <2>4. exe = target \/ exe = [link EXCEPT !.PcChange = TRUE, !.NextPc = target.NextPc]
    BY <2>1, <2>2, <2>3, Zenon DEF JumpRun
  <2>5. Silent([NoChange EXCEPT !.PcChange = TRUE, !.NextPc = Wrap(a + code.imm)])
    BY DEF NoChange, Silent
  <2>6. Silent(Goto(app, code.label))
    BY <1>3 DEF Goto, NoChange, Silent
  <2>7. Silent(target)
    BY <2>2, <2>5, <2>6, Zenon
  <2>8. Silent([link EXCEPT !.PcChange = TRUE, !.NextPc = target.NextPc])
    BY <2>3 DEF RegisterResult, NoChange, Silent
  <2>9. code.op \notin StoreOps /\ code.op # "ret"
    BY <1>7 DEF JumpOps, StoreOps
  <2> QED BY <2>4, <2>7, <2>8, <2>9
<1>8. CASE code.op = "ret"
  <2>1. code.op \notin StoreOps
    BY <1>8 DEF StoreOps
  <2> QED BY <1>8, <2>1, RunOfRet
<1>9. CASE code.op = "nop"
  <2>1. code.op \notin StoreOps
    BY <1>9 DEF StoreOps
  <2> QED BY <1>3, <1>9, <2>1, RunOfNop
<1> QED BY <1>1, <1>4, <1>5, <1>6, <1>7, <1>8, <1>9, KindsOfOpcodes, Zenon

\* An instruction of a program, its pc and the labels.
LEMMA ValuesOfProgram ==
  ASSUME NEW app, IsApplication(app), NEW pc \in Int,
         IndexOf(pc) \in 0..Len(app.Instructions) - 1
  PROVE  /\ app.Instructions[IndexOf(pc) + 1] \in InstructionRunner
         /\ pc \in Word /\ LabelsAreWords(app)
<1>1. PICK length \in Nat : length = Len(app.Instructions) /\ 4 * length + 4 \in Word
  BY DEF IsApplication
<1>2. IndexOf(pc) \in Int
  BY TruncDivides DEF IndexOf
<1>3. 0 <= IndexOf(pc) /\ IndexOf(pc) < length
  BY <1>1, <1>2
<1>4. pc \in Word
  BY <1>1, <1>3, PcsOfProgram
<1>5. app.Instructions[IndexOf(pc) + 1] \in InstructionRunner
  <2>1. IndexOf(pc) + 1 \in 1..length
    BY <1>2, <1>3
  <2> QED BY <1>1, <2>1 DEF IsApplication
<1> QED BY <1>4, <1>5 DEF IsApplication, LabelsAreWords

\* The addresses of a load.
LEMMA LoadAddresses ==
  ASSUME NEW code \in InstructionRunner, NEW regs \in [Register -> Word],
         NEW addrs, addrs = MemoryRead(code, regs)
  PROVE  /\ code.op \notin LoadOps => addrs = << >>
         /\ code.op \in LoadOps =>
              /\ Len(addrs) = AccessSize(code) /\ addrs # << >>
              /\ \A i \in 1..Len(addrs) : addrs[i] \in Int
<1>1. CASE code.op \notin LoadOps
  BY <1>1 DEF MemoryRead
<1>2. CASE code.op \in LoadOps
  <2>1. PICK a, size : /\ a = Wrap(regs[code.rs1] + code.imm) /\ size = AccessSize(code)
                       /\ size \in 1..4 /\ addrs = Addresses(a, size)
    BY <1>2 DEF MemoryRead, AccessSize
  <2>2. addrs = [i \in 1..size |-> Wrap(a + i - 1)]
    BY <2>1 DEF Addresses
  <2>3. Len(addrs) = size
    BY <2>1, <2>2
  <2>4. ASSUME NEW i \in 1..size PROVE addrs[i] \in Int
    <3>1. Word \subseteq Int
      BY DEF Word
    <3>2. a \in Int
      <4>1. regs[code.rs1] \in Int /\ code.imm \in Int
        BY <3>1 DEF InstructionRunner
      <4>2. regs[code.rs1] + code.imm \in Int
        BY <4>1
      <4> QED BY <2>1, <3>1, <4>2, WrapChanges
    <3>3. a + i - 1 \in Int
      BY <3>2
    <3>4. Wrap(a + i - 1) \in Int
      BY <3>1, <3>3, WrapChanges
    <3> QED BY <2>2, <3>4
  <2> QED BY <1>2, <2>1, <2>3, <2>4
<1> QED BY <1>1, <1>2

-----------------------------------------------------------------------------
(* Lists of lines                                                          *)

\* The list new has the lines of the list old, each once, in some order; p tells
\* which line of old is where in new.
Rearranges(p, q, new, old) ==
  /\ p \in [1..Len(old) -> 1..Len(old)] /\ q \in [1..Len(old) -> 1..Len(old)]
  /\ \A k \in 1..Len(old) : p[q[k]] = k /\ q[p[k]] = k /\ new[k] = old[p[k]]
Rearranged(new, old) == Len(new) = Len(old) /\ \E p, q : Rearranges(p, q, new, old)

\* No address is in two lines of the list.
DisjointLines(lines) ==
  \A i, j \in 1..Len(lines) : i # j => ~Overlap(lines[i], lines[j])

-----------------------------------------------------------------------------
\* A nonempty set of natural numbers has a smallest one.
LEMMA Smallest ==
  ASSUME NEW T, T \subseteq Nat, T # {}
  PROVE  \E x \in T : \A y \in T : x <= y
<1> DEFINE Below == {1..x : x \in T}
<1>1. Below \subseteq FiniteSubsetsOf(Nat) /\ Below # {}
  <2>1. \A x \in T : 1..x \in SUBSET Nat /\ IsFiniteSet(1..x)
    BY FS_Interval
  <2> QED
    BY <2>1 DEF FiniteSubsetsOf
<1>2. PICK B \in Below : \A C \in Below : ~(<<C, B>> \in StrictSubsetOrdering(Nat))
  BY <1>1, FS_StrictSubsetOrderingWellFounded, WFMin, Zenon
<1>3. PICK x \in T : B = 1..x
  OBVIOUS
<1>4. ASSUME NEW y \in T, y < x PROVE FALSE
  <2>1. 1..y \subseteq 1..x /\ 1..y # 1..x
    <3>1. x \in 1..x /\ x \notin 1..y
      BY <1>4
    <3> QED
      BY <1>4, <3>1
  <2>2. <<1..y, B>> \in StrictSubsetOrdering(Nat)
    BY <2>1, <1>3 DEF StrictSubsetOrdering
  <2> QED
    BY <1>2, <2>2
<1> QED
  BY <1>4

\* The search of LRUCache.Get, if any line holds the address, finds a line that
\* holds it, with none in front that does.
LEMMA FirstWithFinds ==
  ASSUME NEW S, NEW lines \in Seq(S), NEW addr, Contains(lines, addr)
  PROVE  /\ FirstWith(lines, addr) \in 1..Len(lines)
         /\ Holds(lines[FirstWith(lines, addr)], addr)
         /\ \A j \in 1..FirstWith(lines, addr) - 1 : ~Holds(lines[j], addr)
<1> DEFINE T == {i \in 1..Len(lines) : Holds(lines[i], addr)}
<1>1. T \subseteq Nat /\ T # {}
  BY DEF Contains
<1> HIDE DEF T
<1>2. PICK x \in T : \A y \in T : x <= y
  BY <1>1, Smallest
<1>3. \E i \in 1..Len(lines) :
        Holds(lines[i], addr) /\ \A j \in 1..i - 1 : ~Holds(lines[j], addr)
  <2>1. x \in 1..Len(lines) /\ Holds(lines[x], addr)
    BY <1>2 DEF T
  <2>2. \A j \in 1..x - 1 : ~Holds(lines[j], addr)
    BY <1>2, <2>1 DEF T
  <2> QED
    BY <2>1, <2>2
<1> QED
  BY <1>3 DEF FirstWith

\* So does a search from the back.
LEMMA LastExists ==
  ASSUME NEW S, NEW lines \in Seq(S), NEW addr, Contains(lines, addr)
  PROVE  \E i \in 1..Len(lines) :
           Holds(lines[i], addr) /\ \A j \in i + 1..Len(lines) : ~Holds(lines[j], addr)
<1> DEFINE n == Len(lines)
           T == {k \in 0..n : n - k \in 1..n /\ Holds(lines[n - k], addr)}
<1>1. n \in Nat
  OBVIOUS
<1>2. PICK h \in 1..n : Holds(lines[h], addr)
  BY DEF Contains
<1>3. n - h \in T /\ T \subseteq Nat
  <2>1. n - h \in 0..n /\ n - (n - h) = h
    BY <1>1
  <2> QED
    BY <1>1, <1>2, <2>1
<1> HIDE DEF T
<1>4. PICK x \in T : \A y \in T : x <= y
  BY <1>3, Smallest
<1>5. n - x \in 1..n /\ Holds(lines[n - x], addr) /\ x \in Nat
  BY <1>4 DEF T
<1>6. ASSUME NEW j \in n - x + 1..n, Holds(lines[j], addr) PROVE FALSE
  <2>1. n - j \in 0..n /\ n - (n - j) = j /\ j \in 1..n /\ n - j < x
    BY <1>1, <1>5, <1>6
  <2>2. n - j \in T
    BY <1>6, <2>1 DEF T
  <2> QED
    BY <1>1, <1>4, <1>5, <2>1, <2>2
<1> QED
  BY <1>5, <1>6

\* A list is a rearrangement of itself.
LEMMA RearrangedNot ==
  ASSUME NEW lines
  PROVE  Rearranged(lines, lines)
<1> DEFINE same == [k \in 1..Len(lines) |-> k]
<1>1. Rearranges(same, same, lines, lines)
  BY DEF Rearranges
<1> QED
  BY <1>1, Zenon DEF Rearranged

\* Promote keeps every line, once, and what was in front of the line found moves
\* back by one place.
LEMMA PromoteRearranges ==
  ASSUME NEW S, NEW lines \in Seq(S), NEW addr
  PROVE  Promote(lines, addr) \in Seq(S) /\ Rearranged(Promote(lines, addr), lines)
<1> DEFINE n == Len(lines)
           new == Promote(lines, addr)
           i == FirstWith(lines, addr)
<1>1. CASE ~Contains(lines, addr)
  <2>1. new = lines
    BY <1>1 DEF Promote
  <2> QED
    BY <2>1, RearrangedNot
<1>2. CASE Contains(lines, addr)
  <2> DEFINE p == [k \in 1..n |-> IF k = 1 THEN i ELSE IF k <= i THEN k - 1 ELSE k]
             q == [k \in 1..n |-> IF k = i THEN 1 ELSE IF k < i THEN k + 1 ELSE k]
  <2>1. i \in 1..n
    BY <1>2, FirstWithFinds
  <2>2. new = [k \in 1..n |-> lines[p[k]]]
    BY <1>2, <2>1 DEF Promote
  <2>3. n \in Nat /\ \A k \in 1..n : lines[k] \in S
    OBVIOUS
  <2> HIDE DEF n, i, new
  <2>4. p \in [1..n -> 1..n] /\ q \in [1..n -> 1..n]
    BY <2>1, <2>3
  <2>5. \A k \in 1..n : p[q[k]] = k /\ q[p[k]] = k
    BY <2>1, <2>3
  <2>6. new \in [1..n -> S]
    BY <2>2, <2>3, <2>4
  <2>7. new \in Seq(S) /\ Len(new) = n
    BY <2>3, <2>6
  <2>8. Rearranges(p, q, new, lines)
    <3> HIDE DEF p, q
    <3> QED
      BY <2>2, <2>4, <2>5 DEF Rearranges, n
  <2>9. Rearranged(new, lines)
    <3> HIDE DEF p, q
    <3> QED
      BY <2>7, <2>8 DEF Rearranged, n
  <2> QED
    BY <2>7, <2>9 DEF new
<1> QED
  BY <1>1, <1>2

\* Rearranging twice is rearranging.
LEMMA RearrangedTwice ==
  ASSUME NEW a, NEW b, NEW c, Rearranged(b, a), Rearranged(c, b)
  PROVE  Rearranged(c, a)
<1>1. PICK p, q : Rearranges(p, q, b, a)
  BY DEF Rearranged
<1>2. PICK r, s : Rearranges(r, s, c, b)
  BY DEF Rearranged
<1>3. Rearranges([k \in 1..Len(a) |-> p[r[k]]], [k \in 1..Len(a) |-> s[q[k]]], c, a)
  <2>1. PICK n : n = Len(a) /\ n = Len(b) /\ n = Len(c)
    BY DEF Rearranged
  <2>2. /\ \A f \in {p, q, r, s} : f \in [1..n -> 1..n]
        /\ \A k \in 1..n : p[q[k]] = k /\ q[p[k]] = k /\ b[k] = a[p[k]]
        /\ \A k \in 1..n : r[s[k]] = k /\ s[r[k]] = k /\ c[k] = b[r[k]]
    BY <1>1, <1>2, <2>1 DEF Rearranges
  <2>3. PICK t, u : t = [k \in 1..n |-> p[r[k]]] /\ u = [k \in 1..n |-> s[q[k]]]
    OBVIOUS
  <2>4. t \in [1..n -> 1..n] /\ u \in [1..n -> 1..n]
    BY <2>2, <2>3
  <2>5. ASSUME NEW k \in 1..n PROVE t[u[k]] = k /\ u[t[k]] = k /\ c[k] = a[t[k]]
    <3>1. q[k] \in 1..n /\ r[k] \in 1..n /\ s[q[k]] \in 1..n /\ p[r[k]] \in 1..n
      BY <2>2
    <3>2. t[k] = p[r[k]] /\ u[k] = s[q[k]] /\ t[s[q[k]]] = p[r[s[q[k]]]]
          /\ u[p[r[k]]] = s[q[p[r[k]]]]
      BY <2>3, <3>1
    <3>3. r[s[q[k]]] = q[k] /\ p[q[k]] = k /\ q[p[r[k]]] = r[k] /\ s[r[k]] = k
          /\ c[k] = b[r[k]] /\ b[r[k]] = a[p[r[k]]]
      BY <2>2, <3>1
    <3> QED
      BY <3>2, <3>3
  <2> QED
    BY <2>1, <2>3, <2>4, <2>5 DEF Rearranges
<1> QED
  BY <1>3 DEF Rearranged

\* A rearranged list has the lines of the old one, and disjoint lines stay so.
LEMMA RearrangedHolds ==
  ASSUME NEW new, NEW old, Rearranged(new, old)
  PROVE  /\ \A i \in 1..Len(new) : \E j \in 1..Len(old) : new[i] = old[j]
         /\ \A j \in 1..Len(old) : \E i \in 1..Len(new) : new[i] = old[j]
         /\ \A addr : Contains(new, addr) <=> Contains(old, addr)
         /\ DisjointLines(old) => DisjointLines(new)
<1>1. PICK p, q : Rearranges(p, q, new, old)
  BY DEF Rearranged
<1>2. \A i \in 1..Len(new) : p[i] \in 1..Len(old) /\ new[i] = old[p[i]]
  BY <1>1 DEF Rearranges, Rearranged
<1>3. \A j \in 1..Len(old) : q[j] \in 1..Len(new) /\ new[q[j]] = old[j]
  BY <1>1 DEF Rearranges, Rearranged
<1>4. \A addr : Contains(new, addr) <=> Contains(old, addr)
  BY <1>2, <1>3, Zenon DEF Contains
<1>5. ASSUME DisjointLines(old), NEW i \in 1..Len(new), NEW j \in 1..Len(new), i # j
      PROVE  ~Overlap(new[i], new[j])
  <2>1. p[i] # p[j]
    BY <1>1, <1>5 DEF Rearranges, Rearranged
  <2> QED
    BY <1>2, <1>5, <2>1, Zenon DEF DisjointLines
<1> QED
  BY <1>2, <1>3, <1>4, <1>5, Zenon DEF DisjointLines

-----------------------------------------------------------------------------
(* The memory management unit                                              *)

\* A lookup of the mmu only moves lines.
LEMMA TouchRearranges ==
  ASSUME NEW S, NEW lines \in Seq(S), NEW addrs, NEW k
  PROVE  Touch(lines, addrs, k) \in Seq(S) /\ Rearranged(Touch(lines, addrs, k), lines)
BY PromoteRearranges, RearrangedNot DEF Touch

LEMMA TouchAllRearranges ==
  ASSUME NEW S, NEW lines \in Seq(S), NEW addrs
  PROVE  /\ TouchAll(lines, addrs) \in Seq(S)
         /\ Rearranged(TouchAll(lines, addrs), lines)
         /\ \A k : /\ TouchedBefore(lines, addrs, k) \in Seq(S)
                   /\ Rearranged(TouchedBefore(lines, addrs, k), lines)
<1> DEFINE once == Touch(lines, addrs, 1)
           twice == Touch(once, addrs, 2)
           thrice == Touch(twice, addrs, 3)
           all == Touch(thrice, addrs, 4)
<1>1. once \in Seq(S) /\ Rearranged(once, lines)
  BY TouchRearranges, Zenon
<1>2. twice \in Seq(S) /\ Rearranged(twice, lines)
  BY <1>1, TouchRearranges, RearrangedTwice, Zenon
<1>3. thrice \in Seq(S) /\ Rearranged(thrice, lines)
  <2> HIDE DEF twice
  <2> QED
    BY <1>2, TouchRearranges, RearrangedTwice, Zenon
<1>4. all \in Seq(S) /\ Rearranged(all, lines)
  <2> HIDE DEF thrice
  <2> QED
    BY <1>3, TouchRearranges, RearrangedTwice, Zenon
<1>5. ASSUME NEW k
      PROVE  /\ TouchedBefore(lines, addrs, k) \in Seq(S)
             /\ Rearranged(TouchedBefore(lines, addrs, k), lines)
  <2>1. TouchedBefore(lines, addrs, k) \in {lines, once, twice, thrice}
    BY DEF TouchedBefore
  <2> HIDE DEF once, twice, thrice
  <2> QED
    BY <1>1, <1>2, <1>3, <2>1, RearrangedNot
<1>6. TouchAll(lines, addrs) = all
  BY DEF TouchAll
<1> QED
  BY <1>4, <1>5, <1>6, Zenon

\* A line of values.
LineOf(V) == [first : Int, data : [0..LineLength - 1 -> V]]

\* A cache of such lines, not longer than it may be.
IsCacheOf(lines, V) == lines \in Seq(LineOf(V)) /\ Len(lines) <= NumberOfLines

\* Lookups keep it one.
LEMMA LookupsKeepLines ==
  ASSUME NEW V, NEW lines, IsCacheOf(lines, V), NEW addrs
  PROVE  IsCacheOf(TouchAll(lines, addrs), V)
BY TouchAllRearranges DEF IsCacheOf, Rearranged

\* What is found in a line is one of its values.
LEMMA GetIsValue ==
  ASSUME NEW V, NEW line \in LineOf(V), NEW addr \in Int, Holds(line, addr)
  PROVE  Get(line, addr) \in V
<1>1. line.first \in Int /\ line.data \in [0..LineLength - 1 -> V] /\ LineLength \in Nat
  BY LRUCacheAssumption DEF LineOf
<1>2. addr - line.first \in 0..LineLength - 1
  BY <1>1 DEF Holds
<1> QED
  BY <1>1, <1>2 DEF Get

\* A load that finds all its addresses reads values, whatever moves in between.
LEMMA ReadsValues ==
  ASSUME NEW V, NEW lines \in Seq(LineOf(V)), NEW addrs, AllIn(lines, addrs),
         \A k \in 1..Len(addrs) : addrs[k] \in Int
  PROVE  \A k \in 1..Len(addrs) : ReadValues(lines, addrs)[k] \in V
<1> TAKE k \in 1..Len(addrs)
<1>1. PICK before : before = TouchedBefore(lines, addrs, k)
  OBVIOUS
<1>2. before \in Seq(LineOf(V)) /\ Rearranged(before, lines)
  BY <1>1, TouchAllRearranges
<1>3. Contains(before, addrs[k])
  BY <1>2, RearrangedHolds DEF AllIn
<1>4. PICK i : /\ i = FirstWith(before, addrs[k]) /\ i \in 1..Len(before)
               /\ Holds(before[i], addrs[k])
  BY <1>2, <1>3, FirstWithFinds
<1>5. before[i] \in LineOf(V)
  BY <1>2, <1>4
<1>6. Get(before[i], addrs[k]) \in V
  BY <1>4, <1>5, GetIsValue
<1> QED
  BY <1>1, <1>4, <1>6 DEF ReadValues, Value

\* A list of lines with a new one in front is a cache still.
LEMMA PushKeepsList ==
  ASSUME NEW S, NEW lines \in Seq(S), NEW addr, NEW data, NewLine(addr, data) \in S,
         Len(lines) <= NumberOfLines
  PROVE  /\ PushLine(lines, addr, data) \in Seq(S)
         /\ Len(PushLine(lines, addr, data)) <= NumberOfLines
<1>1. PICK n \in Nat : n = Len(lines) /\ \A k \in 1..n : lines[k] \in S
  BY DEF LineOf
<1>2. PICK m \in Nat : /\ m = (IF n < NumberOfLines THEN n + 1 ELSE NumberOfLines)
                      /\ m <= n + 1 /\ m <= NumberOfLines
  BY <1>1, LRUCacheAssumption
<1>3. PushLine(lines, addr, data) =
        [k \in 1..m |-> IF k = 1 THEN NewLine(addr, data) ELSE lines[k - 1]]
  BY <1>1, <1>2 DEF PushLine
<1>4. \A k \in 1..m : (IF k = 1 THEN NewLine(addr, data) ELSE lines[k - 1]) \in S
  BY <1>1, <1>2
<1> QED
  BY <1>2, <1>3, <1>4

\* A line from the memory holds values, zeros past its end, and the memory keeps
\* values when the line is written to it.
LEMMA PushesKeepValues ==
  ASSUME NEW V, 0 \in V, NEW lines, IsCacheOf(lines, V),
         NEW memory, memory \in [DOMAIN memory -> V], NEW addr \in Int
  PROVE  /\ IsCacheOf(PushedLines(lines, memory, addr), V)
         /\ PushedMemory(lines, memory, addr) \in [DOMAIN memory -> V]
<1>1. PICK line : line = FetchCacheLine(memory, addr)
  OBVIOUS
<1>2. line \in [0..LineLength - 1 -> V]
  BY <1>1 DEF FetchCacheLine
<1>3. NewLine(addr, line) \in LineOf(V)
  BY <1>2 DEF NewLine, LineOf
<1>4. IsCacheOf(PushedLines(lines, memory, addr), V)
  BY <1>1, <1>3, PushKeepsList DEF IsCacheOf, PushedLines
<1>5. WriteToMemory(memory, addr, line) \in [DOMAIN memory -> V]
  BY <1>2 DEF WriteToMemory
<1> QED
  BY <1>1, <1>4, <1>5 DEF PushedMemory

\* A store of values into the cache.
LEMMA WriteKeepsLines ==
  ASSUME NEW V, NEW lines, IsCacheOf(lines, V),
         NEW changes, \A a \in DOMAIN changes : changes[a] \in V
  PROVE  IsCacheOf(Write(lines, changes), V)
<1>1. PICK i, n : i = FirstWith(lines, Lowest(changes)) /\ n = Len(lines)
  OBVIOUS
<1>2. lines \in Seq(LineOf(V)) /\ n \in Nat /\ n <= NumberOfLines
  BY <1>1 DEF IsCacheOf
<1>3. PICK data : data = [k \in 0..LineLength - 1 |->
                            IF lines[i].first + k \in DOMAIN changes
                            THEN changes[lines[i].first + k] ELSE lines[i].data[k]]
  OBVIOUS
<1>4. PICK new : new = Write(lines, changes) /\ new = [lines EXCEPT ![i].data = data]
  BY <1>1, <1>3 DEF Write
<1>5. CASE i \in 1..n
  <2>1. lines[i] \in LineOf(V)
    BY <1>1, <1>2, <1>5
  <2>2. data \in [0..LineLength - 1 -> V]
    BY <1>3, <2>1 DEF LineOf
  <2>3. PICK line : line = [lines[i] EXCEPT !.data = data]
    OBVIOUS
  <2>4. line \in LineOf(V)
    BY <2>1, <2>2, <2>3 DEF LineOf
  <2>5. new = [lines EXCEPT ![i] = line]
    BY <1>1, <1>2, <1>4, <1>5, <2>3
  <2>6. new \in Seq(LineOf(V)) /\ Len(new) = n
    BY <1>1, <1>2, <1>5, <2>4, <2>5
  <2> QED
    BY <1>2, <1>4, <2>6 DEF IsCacheOf
<1>6. CASE i \notin 1..n
  <2>1. new = lines
    BY <1>1, <1>2, <1>4, <1>6
  <2> QED
    BY <1>4, <2>1
<1> QED
  BY <1>5, <1>6

\* The flush of the cache leaves values in the memory.
LEMMA FlushKeepsValues ==
  ASSUME NEW V, NEW lines \in Seq(LineOf(V)), NEW memory, memory \in [DOMAIN memory -> V],
         DOMAIN memory \subseteq Int
  PROVE  Flushed(lines, memory) \in [DOMAIN memory -> V]
<1>1. ASSUME NEW a \in DOMAIN memory, Contains(lines, a)
      PROVE  Get(lines[LastWith(lines, a)], a) \in V
  <2>1. PICK i : /\ i = LastWith(lines, a) /\ i \in 1..Len(lines)
                 /\ Holds(lines[i], a)
    BY <1>1, LastExists DEF LastWith
  <2>2. lines[i] \in LineOf(V) /\ a \in Int
    BY <2>1
  <2> QED
    BY <2>1, <2>2, GetIsValue
<1> QED
  BY <1>1 DEF Flushed

-----------------------------------------------------------------------------
(* What the lines show                                                     *)

\* The lines and the memory ram behind them show the memory m: every line that holds
\* an address has its byte, and ram has the others.
Shows(lines, ram, m) ==
  \A a \in DOMAIN ram :
    /\ \A i \in 1..Len(lines) : Holds(lines[i], a) => Get(lines[i], a) = m[a]
    /\ ~Contains(lines, a) => ram[a] = m[a]

\* Two lines that hold the same address overlap.
LEMMA HeldTwice ==
  ASSUME NEW V, NEW l \in LineOf(V), NEW m \in LineOf(V), NEW a \in Int,
         Holds(l, a), Holds(m, a)
  PROVE  Overlap(l, m)
<1>1. l.first \in Int /\ m.first \in Int /\ LineLength \in Nat
  BY LRUCacheAssumption DEF LineOf
<1> QED
  BY <1>1 DEF Holds, Overlap

\* So in a list of disjoint lines only one of them can.
LEMMA HeldOnce ==
  ASSUME NEW V, NEW lines \in Seq(LineOf(V)), DisjointLines(lines), NEW a \in Int,
         NEW i \in 1..Len(lines), NEW j \in 1..Len(lines),
         Holds(lines[i], a), Holds(lines[j], a)
  PROVE  i = j
<1>1. lines[i] \in LineOf(V) /\ lines[j] \in LineOf(V)
  OBVIOUS
<1>2. Overlap(lines[i], lines[j])
  BY <1>1, HeldTwice
<1> QED
  BY <1>2, Zenon DEF DisjointLines

\* What the lines show does not depend on their order.
LEMMA RearrangedShows ==
  ASSUME NEW new, NEW old, NEW ram, NEW m, Rearranged(new, old), Shows(old, ram, m)
  PROVE  Shows(new, ram, m)
<1>1. /\ \A i \in 1..Len(new) : \E j \in 1..Len(old) : new[i] = old[j]
      /\ \A a : Contains(new, a) <=> Contains(old, a)
  BY RearrangedHolds, Zenon
<1> QED
  BY <1>1, Zenon DEF Shows

\* A lookup of an address that is in the cache finds the byte that the cache shows.
LEMMA ValueShown ==
  ASSUME NEW S, NEW lines \in Seq(S), NEW ram, NEW m, Shows(lines, ram, m),
         NEW a \in DOMAIN ram, Contains(lines, a)
  PROVE  Value(lines, a) = m[a]
<1>1. FirstWith(lines, a) \in 1..Len(lines) /\ Holds(lines[FirstWith(lines, a)], a)
  BY FirstWithFinds, Zenon
<1> QED
  BY <1>1, Zenon DEF Shows, Value

\* So does every lookup of a load, although the earlier ones move lines.
LEMMA LoadShown ==
  ASSUME NEW S, NEW lines \in Seq(S), NEW ram, NEW m, Shows(lines, ram, m), NEW addrs,
         \A k \in 1..Len(addrs) : addrs[k] \in DOMAIN ram /\ Contains(lines, addrs[k])
  PROVE  ReadValues(lines, addrs) = [k \in 1..Len(addrs) |-> m[addrs[k]]]
<1>1. ASSUME NEW k \in 1..Len(addrs)
      PROVE  Value(TouchedBefore(lines, addrs, k), addrs[k]) = m[addrs[k]]
  <2>1. PICK moved : moved = TouchedBefore(lines, addrs, k)
    OBVIOUS
  <2>2. moved \in Seq(S) /\ Rearranged(moved, lines)
    BY <2>1, TouchAllRearranges, Zenon
  <2>3. Shows(moved, ram, m)
    BY <2>2, RearrangedShows, Zenon
  <2>4. PICK a : a = addrs[k]
    OBVIOUS
  <2>5. a \in DOMAIN ram /\ Contains(moved, a)
    BY <2>2, <2>4, RearrangedHolds, Zenon
  <2>6. Value(moved, a) = m[a]
    BY <2>2, <2>3, <2>5, ValueShown, Zenon
  <2> QED
    BY <2>1, <2>4, <2>6, Zenon
<1> QED
  BY <1>1 DEF ReadValues

\* The memory that a program sees is the one shown.
LEMMA ViewShown ==
  ASSUME NEW S, NEW lines \in Seq(S), NEW ram, NEW m, m = [a \in DOMAIN ram |-> m[a]],
         Shows(lines, ram, m)
  PROVE  View(lines, ram) = m
<1>1. ASSUME NEW a \in DOMAIN ram
      PROVE  (IF Contains(lines, a) THEN Value(lines, a) ELSE ram[a]) = m[a]
  <2>1. CASE Contains(lines, a)
    <3>1. Value(lines, a) = m[a]
      BY <2>1, ValueShown
    <3> QED
      BY <2>1, <3>1
  <2>2. CASE ~Contains(lines, a)
    BY <2>2, Zenon DEF Shows
  <2> QED
    BY <2>1, <2>2
<1> QED
  BY <1>1 DEF View

\* The memory that a program sees has values.
LEMMA ViewIsValue ==
  ASSUME NEW V, NEW lines \in Seq(LineOf(V)), NEW ram, DOMAIN ram \subseteq Int,
         ram \in [DOMAIN ram -> V], NEW a \in DOMAIN ram
  PROVE  View(lines, ram)[a] \in V
<1>1. CASE Contains(lines, a)
  <2>1. PICK i : i = FirstWith(lines, a) /\ i \in 1..Len(lines) /\ Holds(lines[i], a)
    BY <1>1, FirstWithFinds, Zenon
  <2>2. lines[i] \in LineOf(V) /\ a \in Int
    BY <2>1
  <2>3. Get(lines[i], a) \in V
    BY <2>1, <2>2, GetIsValue
  <2> QED
    BY <1>1, <2>1, <2>3 DEF View, Value
<1>2. CASE ~Contains(lines, a)
  <2>1. ram[a] \in V
    OBVIOUS
  <2> QED
    BY <1>2, <2>1 DEF View
<1> QED
  BY <1>1, <1>2

\* Disjoint lines show the memory that a program sees.
LEMMA DisjointShow ==
  ASSUME NEW V, NEW lines \in Seq(LineOf(V)), DisjointLines(lines),
         NEW ram, DOMAIN ram \subseteq Int
  PROVE  Shows(lines, ram, View(lines, ram))
<1>1. ASSUME NEW a \in DOMAIN ram, NEW i \in 1..Len(lines), Holds(lines[i], a)
      PROVE  Get(lines[i], a) = View(lines, ram)[a]
  <2>1. Contains(lines, a)
    BY <1>1, Zenon DEF Contains
  <2>2. PICK j : j = FirstWith(lines, a) /\ j \in 1..Len(lines) /\ Holds(lines[j], a)
    BY <2>1, FirstWithFinds, Zenon
  <2>3. j = i
    <3>1. a \in Int
      OBVIOUS
    <3> QED
      BY <1>1, <2>2, <3>1, HeldOnce, Zenon
  <2> QED
    BY <2>1, <2>2, <2>3 DEF View, Value
<1>2. ASSUME NEW a \in DOMAIN ram, ~Contains(lines, a)
      PROVE  ram[a] = View(lines, ram)[a]
  BY <1>2 DEF View
<1> QED
  BY <1>1, <1>2, Zenon DEF Shows

\* The write-back of all lines leaves the memory shown.
LEMMA FlushShown ==
  ASSUME NEW V, NEW lines \in Seq(LineOf(V)), NEW ram, DOMAIN ram \subseteq Int,
         NEW m, m = [a \in DOMAIN ram |-> m[a]], Shows(lines, ram, m)
  PROVE  Flushed(lines, ram) = m
<1>1. ASSUME NEW a \in DOMAIN ram, Contains(lines, a)
      PROVE  Get(lines[LastWith(lines, a)], a) = m[a]
  <2>1. PICK i : i = LastWith(lines, a) /\ i \in 1..Len(lines) /\ Holds(lines[i], a)
    BY <1>1, LastExists DEF LastWith
  <2> QED
    BY <2>1, Zenon DEF Shows
<1>2. ASSUME NEW a \in DOMAIN ram
      PROVE  (IF Contains(lines, a) THEN Get(lines[LastWith(lines, a)], a) ELSE ram[a]) = m[a]
  BY <1>1, Zenon DEF Shows
<1> QED
  BY <1>2 DEF Flushed

\* The line that pushLineToL1D writes back is the one it has just read.
LEMMA PushKeepsMemory ==
  ASSUME NEW lines, NEW ram, ram = [a \in DOMAIN ram |-> ram[a]], DOMAIN ram \subseteq Int,
         NEW addr \in Int
  PROVE  PushedMemory(lines, ram, addr) = ram
<1>1. ASSUME NEW a \in DOMAIN ram, a - addr \in 0..LineLength - 1
      PROVE  FetchCacheLine(ram, addr)[a - addr] = ram[a]
  <2>1. PICK k \in 0..LineLength - 1 : k = a - addr
    BY <1>1
  <2>2. a \in Int /\ addr + k = a
    BY <2>1
  <2> QED
    BY <2>1, <2>2 DEF FetchCacheLine
<1>2. DOMAIN FetchCacheLine(ram, addr) = 0..LineLength - 1
  BY DEF FetchCacheLine
<1>3. WriteToMemory(ram, addr, FetchCacheLine(ram, addr)) = ram
  BY <1>1, <1>2, Zenon DEF WriteToMemory
<1> QED
  BY <1>3 DEF PushedMemory

\* The list after a push: the line fetched, then the old ones, without the last if
\* the list was full.
FetchedInFront(pushed, lines, ram, addr, V) ==
  /\ pushed \in Seq(LineOf(V)) /\ Len(pushed) \in 1..NumberOfLines
  /\ pushed[1].first = addr
  /\ \A a \in DOMAIN ram : Holds(pushed[1], a) => Get(pushed[1], a) = ram[a]
  /\ \A k \in 2..Len(pushed) : k - 1 \in 1..Len(lines) /\ pushed[k] = lines[k - 1]
  /\ \A j \in 1..Len(lines) : (Evicts(lines) => j # Len(lines)) =>
       j + 1 \in 1..Len(pushed) /\ pushed[j + 1] = lines[j]

\* That is what PushLine makes of the list.
LEMMA PushedIs ==
  ASSUME NEW V, 0 \in V, NEW lines, IsCacheOf(lines, V),
         NEW ram, ram \in [DOMAIN ram -> V], DOMAIN ram \subseteq Int, NEW addr \in Int,
         NEW pushed, pushed = PushedLines(lines, ram, addr)
  PROVE  FetchedInFront(pushed, lines, ram, addr, V)
<1> DEFINE new == NewLine(addr, FetchCacheLine(ram, addr))
           kept == IF Len(lines) < NumberOfLines THEN Len(lines) + 1 ELSE NumberOfLines
<1>0. lines \in Seq(LineOf(V)) /\ Len(lines) \in Nat /\ Len(lines) <= NumberOfLines
  BY DEF IsCacheOf
<1>1. new \in LineOf(V) /\ new.first = addr
  <2>1. FetchCacheLine(ram, addr) \in [0..LineLength - 1 -> V]
    BY DEF FetchCacheLine
  <2> QED
    BY <2>1 DEF NewLine, LineOf
<1>2. ASSUME NEW a \in DOMAIN ram, Holds(new, a) PROVE Get(new, a) = ram[a]
  <2>1. PICK k \in 0..LineLength - 1 : k = a - addr /\ addr + k = a
    BY <1>2, LRUCacheAssumption DEF NewLine, Holds
  <2> QED
    BY <2>1 DEF NewLine, FetchCacheLine, Get
<1>3. kept \in 1..NumberOfLines /\ kept - 1 <= Len(lines)
  BY <1>0, LRUCacheAssumption
<1>4. pushed = [k \in 1..kept |-> IF k = 1 THEN new ELSE lines[k - 1]]
  BY DEF PushedLines, PushLine
<1> HIDE DEF kept, new
<1>5. pushed \in [1..kept -> LineOf(V)]
  BY <1>0, <1>1, <1>3, <1>4, LRUCacheAssumption
<1>6. pushed \in Seq(LineOf(V)) /\ Len(pushed) = kept /\ pushed[1] = new
  BY <1>3, <1>4, <1>5, LRUCacheAssumption
<1>7. \A k \in 2..kept : k - 1 \in 1..Len(lines) /\ pushed[k] = lines[k - 1]
  BY <1>0, <1>3, <1>4, LRUCacheAssumption
<1>8. ASSUME NEW j \in 1..Len(lines), Evicts(lines) => j # Len(lines)
      PROVE  j + 1 \in 1..kept /\ pushed[j + 1] = lines[j]
  <2>1. j + 1 \in 2..kept
    BY <1>0, <1>8, LRUCacheAssumption DEF Evicts, kept
  <2> QED
    BY <1>0, <1>7, <2>1, <1>3
<1> QED
  BY <1>1, <1>2, <1>3, <1>6, <1>7, <1>8 DEF FetchedInFront

\* A fetch disturbs nothing if the new line overlaps no other, and if the line cut
\* off had not been written to.
LEMMA PushedShows ==
  ASSUME NEW V, 0 \in V, NEW lines, IsCacheOf(lines, V),
         NEW ram, ram \in [DOMAIN ram -> V], DOMAIN ram \subseteq Int, NEW addr \in Int,
         NEW m, DisjointLines(lines), Shows(lines, ram, m),
         NEW pushed, pushed = PushedLines(lines, ram, addr),
         \A i \in 1..Len(lines) : ~Overlap(pushed[1], lines[i]),
         Evicts(lines) =>
           \A a \in DOMAIN ram : Holds(lines[Len(lines)], a) => Get(lines[Len(lines)], a) = ram[a]
  PROVE  DisjointLines(pushed) /\ Shows(pushed, ram, m)
<1>1. /\ pushed \in Seq(LineOf(V)) /\ Len(pushed) \in 1..NumberOfLines
      /\ \A a \in DOMAIN ram : Holds(pushed[1], a) => Get(pushed[1], a) = ram[a]
      /\ \A k \in 2..Len(pushed) : k - 1 \in 1..Len(lines) /\ pushed[k] = lines[k - 1]
      /\ \A j \in 1..Len(lines) : (Evicts(lines) => j # Len(lines)) =>
           j + 1 \in 1..Len(pushed) /\ pushed[j + 1] = lines[j]
  <2>1. FetchedInFront(pushed, lines, ram, addr, V)
    BY PushedIs, Zenon
  <2> QED
    BY <2>1, Zenon DEF FetchedInFront
<1>2. /\ Len(pushed) \in Nat /\ Len(lines) \in Nat /\ pushed[1] \in LineOf(V)
      /\ lines \in Seq(LineOf(V))
  BY <1>1, LRUCacheAssumption DEF IsCacheOf
<1>3. DisjointLines(pushed)
  <2> SUFFICES ASSUME NEW i \in 1..Len(pushed), NEW j \in 1..Len(pushed), i # j
               PROVE  ~Overlap(pushed[i], pushed[j])
    BY DEF DisjointLines
  <2>1. CASE i = 1
    <3>1. j \in 2..Len(pushed)
      BY <1>2, <2>1
    <3> QED
      BY <1>1, <2>1, <3>1
  <2>2. CASE j = 1
    <3>1. i \in 2..Len(pushed)
      BY <1>2, <2>2
    <3>2. ~Overlap(pushed[1], pushed[i])
      BY <1>1, <3>1
    <3> QED
      BY <2>2, <3>2 DEF Overlap
  <2>3. CASE i # 1 /\ j # 1
    <3>1. i \in 2..Len(pushed) /\ j \in 2..Len(pushed) /\ i - 1 # j - 1
      BY <1>2, <2>3
    <3> QED
      BY <1>1, <3>1 DEF DisjointLines
  <2> QED
    BY <2>1, <2>2, <2>3
<1>4. ASSUME NEW a \in DOMAIN ram, NEW i \in 1..Len(pushed), Holds(pushed[i], a)
      PROVE  Get(pushed[i], a) = m[a]
  <2>1. CASE i = 1
    <3>1. ~Contains(lines, a)
      <4> SUFFICES ASSUME NEW j \in 1..Len(lines), Holds(lines[j], a) PROVE FALSE
        BY DEF Contains
      <4>1. lines[j] \in LineOf(V) /\ a \in Int
        BY <1>2
      <4>2. Overlap(pushed[1], lines[j])
        BY <1>2, <1>4, <2>1, <4>1, HeldTwice
      <4> QED
        BY <4>2
    <3>2. ram[a] = m[a]
      BY <3>1, Zenon DEF Shows
    <3> QED
      BY <1>1, <1>4, <2>1, <3>2
  <2>2. CASE i # 1
    <3>1. i \in 2..Len(pushed)
      BY <1>2, <2>2
    <3>2. PICK j \in 1..Len(lines) : pushed[i] = lines[j]
      BY <1>1, <3>1
    <3> QED
      BY <1>4, <3>2, Zenon DEF Shows
  <2> QED
    BY <2>1, <2>2
<1>5. ASSUME NEW a \in DOMAIN ram, ~Contains(pushed, a)
      PROVE  ram[a] = m[a]
  <2>1. CASE Contains(lines, a)
    <3>1. PICK j \in 1..Len(lines) : Holds(lines[j], a)
      BY <2>1 DEF Contains
    <3>2. Evicts(lines) /\ j = Len(lines)
      BY <1>1, <1>5, <3>1, Zenon DEF Contains
    <3>3. Get(lines[j], a) = ram[a]
      BY <3>1, <3>2
    <3> QED
      BY <3>1, <3>3, Zenon DEF Shows
  <2>2. CASE ~Contains(lines, a)
    BY <2>2, Zenon DEF Shows
  <2> QED
    BY <2>1, <2>2
<1> QED
  BY <1>3, <1>4, <1>5, Zenon DEF Shows

\* The list after LRUCache.Write: the first addresses are those of before, and the
\* bytes of one line are the new ones.
WrittenTo(new, lines, i, changes, V) ==
  /\ new \in Seq(LineOf(V)) /\ Len(new) = Len(lines)
  /\ \A k \in 1..Len(lines) : new[k].first = lines[k].first
  /\ \A k \in 1..Len(lines) : k # i => new[k] = lines[k]
  /\ \A a \in Int : Holds(lines[i], a) =>
       Get(new[i], a) = IF a \in DOMAIN changes THEN changes[a] ELSE Get(lines[i], a)

\* That is what Write makes of the list.
LEMMA WriteWrites ==
  ASSUME NEW V, NEW lines \in Seq(LineOf(V)), NEW addr, Contains(lines, addr),
         NEW changes, \A a \in DOMAIN changes : changes[a] \in V,
         Lowest(changes) = addr,
         NEW i, i = FirstWith(lines, addr)
  PROVE  i \in 1..Len(lines) /\ WrittenTo(Write(lines, changes), lines, i, changes, V)
<1>1. i \in 1..Len(lines)
  BY FirstWithFinds, Zenon
<1>2. lines[i] \in LineOf(V) /\ lines[i].first \in Int
  <2>1. lines[i] \in LineOf(V)
    BY <1>1
  <2> QED
    BY <2>1 DEF LineOf
<1>3. PICK data : data = [k \in 0..LineLength - 1 |->
                            IF lines[i].first + k \in DOMAIN changes
                            THEN changes[lines[i].first + k] ELSE lines[i].data[k]]
  OBVIOUS
<1>4. Write(lines, changes) = [lines EXCEPT ![i].data = data]
  BY <1>3 DEF Write
<1>5. data \in [0..LineLength - 1 -> V]
  BY <1>2, <1>3 DEF LineOf
<1>6. PICK line : line = [lines[i] EXCEPT !.data = data]
  OBVIOUS
<1>7. line \in LineOf(V) /\ line.first = lines[i].first /\ line.data = data
  BY <1>2, <1>5, <1>6 DEF LineOf
<1>8. Write(lines, changes) = [lines EXCEPT ![i] = line]
  BY <1>1, <1>4, <1>6
<1>9. \A a \in Int : Holds(lines[i], a) =>
        data[a - lines[i].first] =
          IF a \in DOMAIN changes THEN changes[a] ELSE lines[i].data[a - lines[i].first]
  <2> SUFFICES ASSUME NEW a \in Int, Holds(lines[i], a)
               PROVE  data[a - lines[i].first] =
                        IF a \in DOMAIN changes THEN changes[a]
                        ELSE lines[i].data[a - lines[i].first]
    OBVIOUS
  <2>1. PICK k \in 0..LineLength - 1 : k = a - lines[i].first /\ lines[i].first + k = a
    BY <1>2, LRUCacheAssumption, SMTT(30) DEF Holds
  <2> QED
    BY <1>3, <2>1
<1> QED
  BY <1>1, <1>7, <1>8, <1>9 DEF WrittenTo, Get

\* A store that the cache takes keeps the lines apart, and is shown.
LEMMA WriteShows ==
  ASSUME NEW V, NEW lines \in Seq(LineOf(V)), DisjointLines(lines),
         NEW ram, DOMAIN ram \subseteq Int, NEW m, Shows(lines, ram, m),
         NEW addr, Contains(lines, addr),
         NEW changes, DOMAIN changes \subseteq DOMAIN ram,
         \A a \in DOMAIN changes : changes[a] \in V,
         Lowest(changes) = addr, ~CrossesLine(lines, changes),
         NEW n, n = [a \in DOMAIN ram |-> IF a \in DOMAIN changes THEN changes[a] ELSE m[a]]
  PROVE  LET new == Write(lines, changes)
         IN DisjointLines(new) /\ Shows(new, ram, n)
<1>1. PICK i : i = FirstWith(lines, addr)
  OBVIOUS
<1>2. PICK new : new = Write(lines, changes)
  OBVIOUS
<1>3. i \in 1..Len(lines) /\ WrittenTo(new, lines, i, changes, V)
  BY <1>1, <1>2, WriteWrites, Zenon
<1>4. \A a \in DOMAIN changes : Holds(lines[i], a)
  BY <1>1, Zenon DEF CrossesLine
<1>5. /\ Len(new) = Len(lines)
      /\ \A k \in 1..Len(lines) : new[k].first = lines[k].first
      /\ \A k \in 1..Len(lines) : k # i => new[k] = lines[k]
      /\ \A a \in Int : Holds(lines[i], a) =>
           Get(new[i], a) = IF a \in DOMAIN changes THEN changes[a] ELSE Get(lines[i], a)
  BY <1>3, Zenon DEF WrittenTo
<1>6. \A k \in 1..Len(lines) : \A a : Holds(new[k], a) <=> Holds(lines[k], a)
  BY <1>5, Zenon DEF Holds
<1>7. DisjointLines(new)
  BY <1>5, Zenon DEF DisjointLines, Overlap
<1>8. ASSUME NEW a \in DOMAIN ram, NEW k \in 1..Len(new), Holds(new[k], a)
      PROVE  Get(new[k], a) = n[a]
  <2>1. k \in 1..Len(lines) /\ Holds(lines[k], a) /\ a \in Int
    BY <1>5, <1>6, <1>8
  <2>2. Get(lines[k], a) = m[a]
    BY <2>1, Zenon DEF Shows
  <2>3. n[a] = IF a \in DOMAIN changes THEN changes[a] ELSE m[a]
    OBVIOUS
  <2>4. CASE k = i
    <3>1. Get(new[i], a) = IF a \in DOMAIN changes THEN changes[a] ELSE Get(lines[i], a)
      BY <1>5, <2>1, <2>4
    <3> QED
      BY <2>2, <2>3, <2>4, <3>1
  <2>5. CASE k # i
    <3>1. ~Holds(lines[i], a)
      BY <1>3, <2>1, <2>5, HeldOnce
    <3>2. a \notin DOMAIN changes
      BY <1>4, <3>1
    <3>3. new[k] = lines[k]
      BY <1>5, <2>1, <2>5
    <3> QED
      BY <2>2, <2>3, <3>2, <3>3
  <2> QED
    BY <2>4, <2>5
<1>9. ASSUME NEW a \in DOMAIN ram, ~Contains(new, a)
      PROVE  ram[a] = n[a]
  <2>1. ~Contains(lines, a)
    BY <1>5, <1>6, <1>9 DEF Contains
  <2>2. a \notin DOMAIN changes
    BY <1>3, <1>4, <2>1 DEF Contains
  <2>3. ram[a] = m[a]
    BY <2>1, Zenon DEF Shows
  <2> QED
    BY <2>2, <2>3
<1>10. DisjointLines(new) /\ Shows(new, ram, n)
  BY <1>7, <1>8, <1>9, Zenon DEF Shows
<1> QED
  BY <1>2, <1>10

\* A store of which nothing is in the cache is shown by the memory.
LEMMA StoreShows ==
  ASSUME NEW lines, NEW ram, NEW m, Shows(lines, ram, m),
         NEW changes, \A a \in DOMAIN changes : ~Contains(lines, a),
         NEW n, \A a \in DOMAIN ram : n[a] = (IF a \in DOMAIN changes THEN changes[a] ELSE m[a]),
         NEW new, DOMAIN new = DOMAIN ram,
         \A a \in DOMAIN ram : new[a] = (IF a \in DOMAIN changes THEN changes[a] ELSE ram[a])
  PROVE  Shows(lines, new, n)
<1>1. ASSUME NEW a \in DOMAIN ram, NEW i \in 1..Len(lines), Holds(lines[i], a)
      PROVE  Get(lines[i], a) = n[a]
  <2>1. a \notin DOMAIN changes
    BY <1>1, Zenon DEF Contains
  <2>2. Get(lines[i], a) = m[a]
    BY <1>1, Zenon DEF Shows
  <2> QED
    BY <2>1, <2>2
<1>2. ASSUME NEW a \in DOMAIN ram, ~Contains(lines, a)
      PROVE  new[a] = n[a]
  <2>1. ram[a] = m[a]
    BY <1>2, Zenon DEF Shows
  <2> QED
    BY <2>1
<1> QED
  BY <1>1, <1>2, Zenon DEF Shows
=============================================================================
