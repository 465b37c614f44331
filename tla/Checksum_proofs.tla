---------------------------- MODULE Checksum_proofs ----------------------------
(***************************************************************************)
(* in_cksum for bytes of any size and any PDU that is short enough: a      *)
(* sealed PDU is correct, and no change of one byte goes unnoticed.  The   *)
(* sum is a fold, so the first part proves by induction over the set of    *)
(* indices what SumFunctionOnSet adds up to.                               *)
(***************************************************************************)
EXTENDS Checksum, FiniteSetTheorems, SequenceTheorems, WellFoundedInduction, TLAPS

\* Induction over numbers without an operator: a set of them has a least one.
LEMMA LeastNumber ==
  ASSUME NEW T \in SUBSET Nat, T # {}
  PROVE  \E n \in T : \A m \in T : n <= m
<1> DEFINE R == {ss \in Nat \X Nat : ss[1] < ss[2]}
<1>1. IsWellFoundedOn(R, Nat)
  BY NatLessThanWellFounded DEF OpToRel
<1>2. \A m, n \in Nat : m < n => <<m, n>> \in R
  OBVIOUS
<1> HIDE DEF R
<1>3. \E n \in T : \A m \in T : <<m, n>> \notin R
  BY <1>1, WFMin
<1>4. PICK n \in T : \A m \in T : <<m, n>> \notin R
  BY <1>3
<1>5. \A m \in T : n <= m
  <2>1. SUFFICES ASSUME NEW m \in T, ~(n <= m)
                 PROVE  FALSE
    OBVIOUS
  <2>2. m \in Nat /\ n \in Nat /\ m < n
    BY <2>1
  <2> QED
    BY <1>2, <1>4, <2>2
<1> QED
  BY <1>5

-----------------------------------------------------------------------------
(* SumFunctionOnSet, by induction over the number of indices *)

\* The index MapThenFoldSet takes next.
Some(s) == CHOOSE x \in s : TRUE

\* g adds up f over the subsets of S the way MapThenFoldSet does.
AddsUp(g, f, S) ==
  g = [s \in SUBSET S |-> IF s = {} THEN 0 ELSE f[Some(s)] + g[s \ {Some(s)}]]

\* The library's recursive function, its operators filled in.
LEMMA SumIsAddedUp ==
  ASSUME NEW f, NEW S
  PROVE  SumFunctionOnSet(f, S) = (CHOOSE g : AddsUp(g, f, S))[S]
BY DEF SumFunctionOnSet, FoldFunctionOnSet, MapThenFoldSet, AddsUp, Some

\* A function that adds up exists for every finite set of indices.
LEMMA AddsUpExists ==
  ASSUME NEW f, NEW S, IsFiniteSet(S)
  PROVE  \E g : AddsUp(g, f, S)
<1> DEFINE Small(n) == {s \in SUBSET S : Cardinality(s) <= n}
           Next(h, s) == IF s = {} THEN 0 ELSE f[Some(s)] + h[s \ {Some(s)}]
           Fails == {n \in Nat : ~ \E g : g = [s \in Small(n) |-> Next(g, s)]}
<1>1. \A s \in SUBSET S : IsFiniteSet(s) /\ Cardinality(s) \in Nat
  BY FS_Subset, FS_CardinalityType
<1>2. \A s \in SUBSET S : s # {} =>
        /\ Some(s) \in s /\ s \ {Some(s)} \in SUBSET S
        /\ Cardinality(s \ {Some(s)}) = Cardinality(s) - 1
  BY <1>1, FS_RemoveElement DEF Some
<1>3. Small(0) = {{}}
  BY <1>1, FS_EmptySet
<1>4. 0 \notin Fails
  <2> DEFINE g == [s \in Small(0) |-> 0]
  <2>1. g = [s \in Small(0) |-> Next(g, s)]
    BY <1>3
  <2> QED
    BY <2>1
<1>5. ASSUME NEW n \in Nat, n \notin Fails
      PROVE  n + 1 \notin Fails
  <2>1. PICK h : h = [s \in Small(n) |-> Next(h, s)]
    BY <1>5
  <2> DEFINE g == [s \in Small(n + 1) |-> Next(h, s)]
  <2>2. \A s \in Small(n) : s \in Small(n + 1) /\ g[s] = h[s]
    <3>1. \A s \in Small(n) : s \in Small(n + 1)
      BY <1>1
    <3> QED
      BY <2>1, <3>1
  <2>3. \A s \in Small(n + 1) : s # {} => s \ {Some(s)} \in Small(n)
    BY <1>1, <1>2
  <2>4. \A s \in Small(n + 1) : Next(h, s) = Next(g, s)
    BY <2>2, <2>3
  <2>5. g = [s \in Small(n + 1) |-> Next(g, s)]
    BY <2>4
  <2> QED
    BY <2>5
<1>6. Fails = {}
  <2>1. SUFFICES ASSUME Fails # {} PROVE FALSE
    OBVIOUS
  <2> HIDE DEF Small, Next
  <2>2. PICK n \in Fails : \A m \in Fails : n <= m
    <3>1. Fails \in SUBSET Nat
      OBVIOUS
    <3> HIDE DEF Fails
    <3> QED
      BY <2>1, <3>1, LeastNumber
  <2>3. n \in Nat /\ n # 0
    BY <1>4
  <2>4. n - 1 \in Nat /\ n - 1 \notin Fails /\ (n - 1) + 1 = n
    BY <2>2, <2>3
  <2> QED
    BY <1>5, <2>4
<1>7. Small(Cardinality(S)) = SUBSET S
  BY FS_Subset, FS_CardinalityType
<1>8. \E g : g = [s \in Small(Cardinality(S)) |-> Next(g, s)]
  BY <1>6, FS_CardinalityType
<1> QED
  BY <1>7, <1>8 DEF AddsUp

\* Induction over the subsets of a finite set, in the order they are added up.
LEMMA AddingUp ==
  ASSUME NEW S, IsFiniteSet(S), NEW T \in SUBSET SUBSET S, {} \in T,
         \A s \in SUBSET S : s # {} /\ s \ {Some(s)} \in T => s \in T
  PROVE  T = SUBSET S
<1>1. \A s \in SUBSET S : IsFiniteSet(s) /\ Cardinality(s) \in Nat
  BY FS_Subset, FS_CardinalityType
<1>2. \A s \in SUBSET S : s # {} =>
        /\ s \ {Some(s)} \in SUBSET S
        /\ Cardinality(s \ {Some(s)}) = Cardinality(s) - 1
  BY <1>1, FS_RemoveElement DEF Some
<1> DEFINE Fails == {n \in Nat : \E s \in (SUBSET S) \ T : n = Cardinality(s)}
<1>3. SUFFICES ASSUME Fails # {} PROVE FALSE
  BY <1>1
<1>4. PICK n \in Fails : \A m \in Fails : n <= m
  <2>1. Fails \in SUBSET Nat
    OBVIOUS
  <2> HIDE DEF Fails
  <2> QED
    BY <1>3, <2>1, LeastNumber
<1>5. PICK s \in (SUBSET S) \ T : n = Cardinality(s)
  OBVIOUS
<1>6. s \ {Some(s)} \in (SUBSET S) \ T
  BY <1>2
<1>7. Cardinality(s \ {Some(s)}) \in Fails /\ s # {}
  BY <1>1, <1>6
<1>8. Cardinality(s \ {Some(s)}) = n - 1 /\ n \in Nat
  BY <1>1, <1>2, <1>5, <1>7
<1> QED
  BY <1>4, <1>7, <1>8

\* A sum over a finite set is what a function that adds up gives it.
LEMMA SumAddsUp ==
  ASSUME NEW f, NEW S, IsFiniteSet(S)
  PROVE  \E g : AddsUp(g, f, S) /\ SumFunctionOnSet(f, S) = g[S]
<1>1. AddsUp(CHOOSE g : AddsUp(g, f, S), f, S)
  BY AddsUpExists
<1> QED
  BY <1>1, SumIsAddedUp

\* A sum of natural numbers is one, and no larger than its largest allows.
LEMMA SumBounded ==
  ASSUME NEW S, IsFiniteSet(S), NEW m \in Nat, NEW f \in [S -> 0 .. m]
  PROVE  /\ SumFunctionOnSet(f, S) \in Nat
         /\ SumFunctionOnSet(f, S) <= m * Cardinality(S)
<1>1. PICK g : AddsUp(g, f, S) /\ SumFunctionOnSet(f, S) = g[S]
  BY SumAddsUp
<1> DEFINE T == {s \in SUBSET S : g[s] \in Nat /\ g[s] <= m * Cardinality(s)}
<1>2. {} \in T
  BY <1>1, FS_EmptySet DEF AddsUp
<1>3. ASSUME NEW s \in SUBSET S, s # {}, s \ {Some(s)} \in T
      PROVE  s \in T
  <2> DEFINE c == Cardinality(s \ {Some(s)})
             b == g[s \ {Some(s)}]
             a == f[Some(s)]
  <2>1. g[s] = a + b
    BY <1>1, <1>3 DEF AddsUp
  <2>2. Some(s) \in S /\ Some(s) \in s
    BY <1>3 DEF Some
  <2>3. a \in 0 .. m
    BY <2>2
  <2>4. b \in Nat /\ b <= m * c
    BY <1>3, Zenon
  <2>5. Cardinality(s) = c + 1 /\ c \in Nat
    <3>1. IsFiniteSet(s) /\ Cardinality(s) \in Nat
      BY FS_Subset, FS_CardinalityType
    <3>2. IsFiniteSet(s \ {Some(s)}) /\ c = Cardinality(s) - 1
      BY <2>2, <3>1, FS_RemoveElement
    <3>3. c \in Nat
      BY <3>2, FS_CardinalityType
    <3> QED
      BY <3>1, <3>2, <3>3
  <2>6. g[s] \in Nat /\ g[s] <= m * (c + 1)
    <3> HIDE DEF a, b, c
    <3>1. m * (c + 1) = m * c + m /\ m * c \in Nat
      BY <2>5
    <3> QED
      BY <2>1, <2>3, <2>4, <3>1
  <2> QED
    BY <2>5, <2>6
<1>4. T = SUBSET S
  <2> HIDE DEF T
  <2>1. T \in SUBSET SUBSET S
    BY DEF T
  <2> QED
    BY <1>2, <1>3, <2>1, AddingUp
<1> QED
  BY <1>1, <1>4

\* Changing what is added at one index changes the sum by as much.
LEMMA SumChanges ==
  ASSUME NEW S, IsFiniteSet(S), NEW m \in Nat, NEW f \in [S -> 0 .. m],
         NEW h \in [S -> 0 .. m], NEW j \in S, \A i \in S \ {j} : f[i] = h[i]
  PROVE  SumFunctionOnSet(f, S) + h[j] = SumFunctionOnSet(h, S) + f[j]
<1>1. PICK g : AddsUp(g, f, S) /\ SumFunctionOnSet(f, S) = g[S]
  BY SumAddsUp
<1>2. PICK k : AddsUp(k, h, S) /\ SumFunctionOnSet(h, S) = k[S]
  BY SumAddsUp
<1> DEFINE T == {s \in SUBSET S :
                   /\ g[s] \in Nat /\ k[s] \in Nat
                   /\ IF j \in s THEN g[s] + h[j] = k[s] + f[j] ELSE g[s] = k[s]}
<1>3. {} \in T
  BY <1>1, <1>2 DEF AddsUp
<1>4. ASSUME NEW s \in SUBSET S, s # {}, s \ {Some(s)} \in T
      PROVE  s \in T
  <2> DEFINE x == Some(s)
             r == s \ {x}
  <2>1. x \in s
    BY <1>4 DEF Some
  <2>2. g[s] = f[x] + g[r] /\ k[s] = h[x] + k[r]
    BY <1>1, <1>2, <1>4 DEF AddsUp
  <2>3. /\ f[x] \in Nat /\ h[x] \in Nat /\ f[j] \in Nat /\ h[j] \in Nat
        /\ g[r] \in Nat /\ k[r] \in Nat
    BY <1>4, <2>1
  <2>4. CASE x = j
    <3>1. g[r] = k[r] /\ j \in s
      BY <1>4, <2>1, <2>4
    <3> QED
      BY <2>2, <2>3, <2>4, <3>1
  <2>5. CASE x # j
    <3>1. f[x] = h[x] /\ (j \in r <=> j \in s)
      BY <2>1, <2>5
    <3>2. IF j \in r THEN g[r] + h[j] = k[r] + f[j] ELSE g[r] = k[r]
      BY <1>4
    <3> HIDE DEF x, r
    <3> QED
      BY <2>2, <2>3, <3>1, <3>2
  <2> QED
    BY <2>4, <2>5
<1>5. T = SUBSET S
  <2> HIDE DEF T
  <2>1. T \in SUBSET SUBSET S
    BY DEF T
  <2> QED
    BY <1>3, <1>4, <2>1, AddingUp
<1> QED
  BY <1>1, <1>2, <1>5

-----------------------------------------------------------------------------
(* Adding with end-around carry: a number modulo Word - 1 *)

\* A word is two bytes, and a byte has two values or more.
LEMMA WordFacts ==
  Byte \in Nat /\ Byte >= 2 /\ Word \in Nat /\ Word >= 2 * Byte /\ Word > 3
<1>1. Byte \in Nat /\ Byte >= 2
  BY ByteAssumption
<1>2. Byte * Byte \in Nat /\ Byte * Byte >= 2 * Byte
  BY <1>1
<1> QED
  BY <1>1, <1>2 DEF Word

\* Quotient and remainder.
LEMMA Division ==
  ASSUME NEW n \in Nat, NEW d \in Nat, d > 0
  PROVE  /\ n \div d \in Nat /\ n % d \in Nat /\ n % d < d
         /\ n = (n \div d) * d + (n % d)
OBVIOUS

\* The only multiple of d nearer to 0 than d is 0.
LEMMA OnlyZeroTimes ==
  ASSUME NEW d \in Nat, d > 0, NEW k \in Int, k * d < d, -d < k * d
  PROVE  k = 0
<1>1. CASE k >= 1
  <2>1. k * d >= d
    BY <1>1
  <2> QED
    BY <2>1
<1>2. CASE k <= -1
  <2>1. k * d <= -d
    BY <1>2
  <2> QED
    BY <2>1
<1> QED
  BY <1>1, <1>2

\* What is left of a multiple of d and a number below it.
LEMMA Remainder ==
  ASSUME NEW d \in Nat, d > 0, NEW q \in Nat, NEW r \in Nat, r < d
  PROVE  (q * d + r) % d = r
<1> DEFINE n == q * d + r
           p == n \div d
           s == n % d
<1>1. n \in Nat /\ n = q * d + r
  OBVIOUS
<1>2. p \in Nat /\ s \in Nat /\ s < d /\ n = p * d + s
  <2> HIDE DEF n
  <2> QED
    BY <1>1, Division
<1> HIDE DEF n, p, s
<1>3. (q - p) * d = s - r
  <2>1. (q - p) * d = q * d - p * d /\ q * d \in Int /\ p * d \in Int
    BY <1>2
  <2> QED
    BY <1>1, <1>2, <2>1
<1>4. q - p = 0
  <2>1. q - p \in Int /\ (q - p) * d < d /\ -d < (q - p) * d
    BY <1>2, <1>3
  <2> QED
    BY <2>1, OnlyZeroTimes
<1> QED
  BY <1>2, <1>3, <1>4 DEF s, n

\* Folding twice leaves a word that is the same modulo Word - 1, and that is 0
\* only when nothing was added.
LEMMA FoldedWord ==
  ASSUME NEW x \in Nat, x < Word * Word
  PROVE  /\ Folded(x) % Word \in 0 .. (Word - 1)
         /\ \E q \in Int : x = (Folded(x) % Word) + q * (Word - 1)
         /\ Folded(x) % Word = 0 <=> x = 0
<1> DEFINE a == x \div Word
           b == x % Word
           once == a + b
           r == Folded(x) % Word
<1>1. Word \in Nat /\ Word > 3
  BY WordFacts
<1>2. a \in Nat /\ b \in Nat /\ b < Word /\ x = a * Word + b
  BY <1>1, Division
<1>3. a < Word
  <2>1. SUFFICES ASSUME a >= Word PROVE FALSE
    BY <1>1, <1>2
  <2> HIDE DEF a, b
  <2>2. a * Word >= Word * Word
    BY <1>1, <1>2, <2>1
  <2>3. a * Word \in Nat /\ Word * Word \in Nat
    BY <1>1, <1>2
  <2> QED
    BY <1>2, <2>2, <2>3
<1>4. Folded(x) = once + once \div Word
  BY DEF Folded
<1> HIDE DEF a, b
<1>5. a * Word = a + a * (Word - 1) /\ a * (Word - 1) \in Int
  BY <1>1, <1>2
<1>6. x = 0 <=> a = 0 /\ b = 0
  <2>1. a # 0 => a * Word >= Word
    BY <1>1, <1>2
  <2>2. a = 0 => a * Word = 0
    BY <1>1, <1>2
  <2>3. a * Word \in Nat
    BY <1>1, <1>2
  <2> QED
    BY <1>1, <1>2, <2>1, <2>2, <2>3
<1>7. CASE once < Word
  <2>1. once \div Word = 0 /\ once % Word = once
    BY <1>1, <1>2, <1>7
  <2>2. r = a + b
    BY <1>2, <1>4, <2>1
  <2>3. x = r + a * (Word - 1)
    BY <1>1, <1>2, <1>5, <2>2
  <2>4. r = 0 <=> x = 0
    BY <1>2, <1>6, <2>2
  <2>5. r \in 0 .. (Word - 1)
    BY <1>1, <1>2, <1>7, <2>2
  <2> QED
    BY <1>2, <2>3, <2>4, <2>5
<1>8. CASE once >= Word
  <2>1. once \div Word = 1
    BY <1>1, <1>2, <1>3, <1>8
  <2>2. Folded(x) = a + b + 1 /\ Folded(x) >= Word /\ Folded(x) < 2 * Word
    BY <1>1, <1>2, <1>3, <1>4, <1>8, <2>1
  <2>3. r = a + b + 1 - Word
    <3> HIDE DEF Folded
    <3>1. \A n \in Nat : n >= Word /\ n < 2 * Word => n % Word = n - Word
      BY <1>1
    <3> QED
      BY <1>1, <1>2, <2>2, <3>1
  <2>4. (a + 1) * (Word - 1) = a * (Word - 1) + (Word - 1)
    BY <1>1, <1>2
  <2>5. x = r + (a + 1) * (Word - 1)
    BY <1>1, <1>2, <1>5, <2>3, <2>4
  <2>6. r \in 1 .. (Word - 1)
    BY <1>1, <1>2, <1>3, <1>8, <2>3
  <2>7. \E q \in Int : x = r + q * (Word - 1)
    <3>1. a + 1 \in Int
      BY <1>2
    <3> QED
      BY <2>5, <3>1, Zenon
  <2>8. r \in 0 .. (Word - 1) /\ r # 0 /\ x # 0
    BY <1>1, <1>2, <1>8, <1>6, <2>6
  <2> QED
    BY <2>7, <2>8, Zenon
<1> QED
  BY <1>1, <1>2, <1>7, <1>8

\* The complement of a folded sum, added to it, folds to all ones.
LEMMA SealedWord ==
  ASSUME NEW x \in Nat, x < (Word - 1) * Word,
         NEW c, c = (Word - 1) - (Folded(x) % Word)
  PROVE  /\ c \in 0 .. (Word - 1)
         /\ Folded(x + c) % Word = Word - 1
<1> DEFINE r == Folded(x) % Word
           s == Folded(x + c) % Word
<1>1. Word \in Nat /\ Word > 3
  BY WordFacts
<1>2. (Word - 1) * Word + Word = Word * Word /\ (Word - 1) * Word \in Nat /\ Word * Word \in Nat
  BY <1>1
<1>3. x < Word * Word
  BY <1>1, <1>2
<1>4. PICK q \in Int : x = r + q * (Word - 1)
  BY <1>3, FoldedWord
<1>5. r \in 0 .. (Word - 1) /\ (r = 0 <=> x = 0)
  BY <1>3, FoldedWord
<1>6. c \in 0 .. (Word - 1) /\ c = (Word - 1) - r
  BY <1>1, <1>5
<1>7. x + c \in Nat /\ x + c < Word * Word
  BY <1>1, <1>2, <1>6
<1>8. PICK p \in Int : x + c = s + p * (Word - 1)
  BY <1>7, FoldedWord
<1>9. s \in 0 .. (Word - 1) /\ (s = 0 <=> x + c = 0)
  BY <1>7, FoldedWord
<1> HIDE DEF r, s
<1>10. s # 0
  BY <1>1, <1>5, <1>6, <1>7, <1>9
<1>11. s = (q + 1 - p) * (Word - 1)
  <2>1. (q + 1 - p) * (Word - 1) = q * (Word - 1) + (Word - 1) - p * (Word - 1)
    BY <1>1
  <2>2. q * (Word - 1) \in Int /\ p * (Word - 1) \in Int
    BY <1>1
  <2> QED
    BY <1>1, <1>4, <1>5, <1>6, <1>8, <1>9, <2>1, <2>2
<1>12. s = Word - 1
  <2>1. SUFFICES ASSUME s < Word - 1 PROVE FALSE
    BY <1>1, <1>9
  <2>2. q + 1 - p = 0
    <3>1. q + 1 - p \in Int /\ Word - 1 \in Nat /\ Word - 1 > 0
      BY <1>1
    <3>2. -(Word - 1) < s
      BY <1>1, <1>9
    <3> QED
      BY <1>11, <2>1, <3>1, <3>2, OnlyZeroTimes
  <2> QED
    BY <1>1, <1>10, <1>11, <2>2
<1> QED
  BY <1>6, <1>12 DEF s

\* A sum that folds to all ones no longer does when it changes by less than that.
LEMMA ChangedWord ==
  ASSUME NEW x \in Nat, NEW y \in Nat, x < Word * Word, y < Word * Word,
         Folded(x) % Word = Word - 1, x # y,
         x - y < Word - 1, y - x < Word - 1
  PROVE  Folded(y) % Word # Word - 1
<1>1. Word \in Nat /\ Word > 3
  BY WordFacts
<1>2. SUFFICES ASSUME Folded(y) % Word = Word - 1 PROVE FALSE
  OBVIOUS
<1>3. PICK q \in Int : x = (Word - 1) + q * (Word - 1)
  BY FoldedWord
<1>4. PICK p \in Int : y = (Word - 1) + p * (Word - 1)
  BY <1>2, FoldedWord
<1>5. x - y = (q - p) * (Word - 1)
  <2>1. (q - p) * (Word - 1) = q * (Word - 1) - p * (Word - 1)
    BY <1>1
  <2>2. q * (Word - 1) \in Int /\ p * (Word - 1) \in Int
    BY <1>1
  <2> QED
    BY <1>1, <1>3, <1>4, <2>1, <2>2
<1>6. q - p = 0
  <2>1. q - p \in Int /\ Word - 1 \in Nat /\ Word - 1 > 0
    BY <1>1
  <2>2. -(Word - 1) < x - y
    BY <1>1
  <2> QED
    BY <1>5, <2>1, <2>2, OnlyZeroTimes
<1> QED
  BY <1>1, <1>5, <1>6

-----------------------------------------------------------------------------
(* The sum of a PDU *)

\* The sum of all the bytes of a PDU, and what it adds at each of them.
SumOf(bytes) == Sum(bytes, Len(bytes))

Added(bytes) == [k \in 1 .. Len(bytes) |-> Weight(k) * bytes[k]]

\* No PDU is so long that folding twice is not enough.
Short(bytes) == bytes \in Seq(Bytes) /\ Len(bytes) < Word

\* Each byte adds at most Byte times the largest byte.
LEMMA AddedType ==
  ASSUME NEW bytes \in Seq(Bytes)
  PROVE  /\ Added(bytes) \in [1 .. Len(bytes) -> 0 .. (Word - Byte)]
         /\ SumOf(bytes) = SumFunctionOnSet(Added(bytes), 1 .. Len(bytes))
         /\ IsFiniteSet(1 .. Len(bytes)) /\ Cardinality(1 .. Len(bytes)) = Len(bytes)
         /\ Len(bytes) \in Nat /\ DOMAIN bytes = 1 .. Len(bytes)
<1>1. Byte \in Nat /\ Byte >= 2
  BY WordFacts
<1>2. Len(bytes) \in Nat /\ DOMAIN bytes = 1 .. Len(bytes)
  OBVIOUS
<1>3. ASSUME NEW k \in DOMAIN bytes
      PROVE  Weight(k) * bytes[k] \in 0 .. (Word - Byte)
  <2>1. bytes[k] \in Nat /\ bytes[k] <= Byte - 1
    BY <1>1, <1>2 DEF Bytes
  <2>2. Byte * (Byte - 1) = Byte * Byte - Byte
    BY <1>1
  <2>3. Byte * bytes[k] \in Nat /\ Byte * bytes[k] <= Byte * (Byte - 1)
    BY <1>1, <2>1
  <2>4. bytes[k] <= Byte * bytes[k]
    BY <1>1, <2>1
  <2>5. Word = Byte * Byte /\ Byte * Byte \in Nat
    BY <1>1 DEF Word
  <2>6. CASE k % 2 = 0
    BY <1>1, <2>2, <2>3, <2>5, <2>6 DEF Weight
  <2>7. CASE k % 2 # 0
    BY <1>1, <2>1, <2>2, <2>3, <2>4, <2>5, <2>7 DEF Weight
  <2> QED
    BY <2>6, <2>7
<1>4. Added(bytes) \in [1 .. Len(bytes) -> 0 .. (Word - Byte)]
  BY <1>2, <1>3 DEF Added
<1>5. SumOf(bytes) = SumFunctionOnSet(Added(bytes), 1 .. Len(bytes))
  BY <1>2 DEF SumOf, Sum, SumFunction, Added
<1>6. ASSUME NEW n \in Nat
      PROVE  IsFiniteSet(1 .. n) /\ Cardinality(1 .. n) = n
  <2>1. IsFiniteSet(1 .. n) /\ Cardinality(1 .. n) = IF 1 > n THEN 0 ELSE n - 1 + 1
    BY FS_Interval
  <2> QED
    BY <2>1
<1> QED
  BY <1>2, <1>4, <1>5, <1>6

\* The sum of a PDU that is short enough leaves room for the checksum.
LEMMA SumOfShort ==
  ASSUME NEW bytes, Short(bytes)
  PROVE  SumOf(bytes) \in Nat /\ SumOf(bytes) < (Word - 1) * Word /\ SumOf(bytes) < Word * Word
<1> DEFINE m == Word - Byte
           n == Len(bytes)
<1>1. Word \in Nat /\ Byte \in Nat /\ Byte >= 2 /\ Word >= 2 * Byte /\ Word > 3
  BY WordFacts
<1>2. m \in Nat /\ m < Word /\ n \in Nat /\ n <= Word - 1
  BY <1>1 DEF Short
<1>3. SumOf(bytes) \in Nat /\ SumOf(bytes) <= m * n
  <2>1. m \in Nat /\ Added(bytes) \in [1 .. n -> 0 .. m]
    BY <1>2, AddedType DEF Short
  <2>2. SumOf(bytes) = SumFunctionOnSet(Added(bytes), 1 .. n)
        /\ IsFiniteSet(1 .. n) /\ Cardinality(1 .. n) = n
    BY AddedType DEF Short
  <2> HIDE DEF m, n
  <2> QED
    BY <2>1, <2>2, SumBounded
<1> HIDE DEF m, n
<1>4. m * n <= m * (Word - 1) /\ m * n \in Nat
  BY <1>1, <1>2
<1>5. m * (Word - 1) < Word * (Word - 1)
  BY <1>1, <1>2
<1>6. Word * (Word - 1) = (Word - 1) * Word /\ Word * (Word - 1) = Word * Word - Word
      /\ Word * Word \in Nat /\ m * (Word - 1) \in Nat
  BY <1>1, <1>2
<1> QED
  BY <1>1, <1>3, <1>4, <1>5, <1>6

\* Another byte at one place changes the sum by what it counts there.
LEMMA SumOfChanged ==
  ASSUME NEW bytes \in Seq(Bytes), NEW j \in DOMAIN bytes, NEW v \in Bytes
  PROVE  /\ [bytes EXCEPT ![j] = v] \in Seq(Bytes)
         /\ Len([bytes EXCEPT ![j] = v]) = Len(bytes)
         /\ SumOf([bytes EXCEPT ![j] = v]) + Weight(j) * bytes[j]
              = SumOf(bytes) + Weight(j) * v
<1> DEFINE other == [bytes EXCEPT ![j] = v]
           S == 1 .. Len(bytes)
           m == Word - Byte
<1>1. other \in Seq(Bytes) /\ Len(other) = Len(bytes)
  OBVIOUS
<1>2. /\ Added(bytes) \in [S -> 0 .. m] /\ Added(other) \in [S -> 0 .. m]
      /\ SumOf(bytes) = SumFunctionOnSet(Added(bytes), S)
      /\ SumOf(other) = SumFunctionOnSet(Added(other), S)
      /\ IsFiniteSet(S) /\ j \in S
  BY <1>1, AddedType
<1>3. /\ Added(bytes)[j] = Weight(j) * bytes[j]
      /\ Added(other)[j] = Weight(j) * v
      /\ \A i \in S \ {j} : Added(other)[i] = Added(bytes)[i]
  BY <1>1 DEF Added, Weight
<1>4. m \in Nat
  BY WordFacts
<1>5. SumOf(other) + Added(bytes)[j] = SumOf(bytes) + Added(other)[j]
  <2> DEFINE F == Added(other)
             H == Added(bytes)
  <2>1. /\ IsFiniteSet(S) /\ m \in Nat /\ F \in [S -> 0 .. m] /\ H \in [S -> 0 .. m]
        /\ j \in S /\ \A i \in S \ {j} : F[i] = H[i]
    BY <1>2, <1>3, <1>4
  <2>2. SumFunctionOnSet(F, S) + H[j] = SumFunctionOnSet(H, S) + F[j]
    <3> HIDE DEF F, H, S, m
    <3> QED
      BY <2>1, SumChanges
  <2> QED
    BY <1>2, <2>2
<1> QED
  BY <1>1, <1>3, <1>5

\* The byte after the data is not read, also when their length is odd.
LEMMA NextByteUnread ==
  ASSUME NEW bytes \in Seq(Bytes), NEW next \in Bytes
  PROVE  in_cksum(Append(bytes, next), Len(bytes)) = in_cksum(bytes, Len(bytes))
<1>1. \A k \in 1 .. Len(bytes) : Append(bytes, next)[k] = bytes[k]
  OBVIOUS
<1>2. [k \in 1 .. Len(bytes) |-> Weight(k) * Append(bytes, next)[k]]
        = [k \in 1 .. Len(bytes) |-> Weight(k) * bytes[k]]
  BY <1>1, Zenon
<1> QED
  BY <1>2, Zenon DEF in_cksum, Sum

-----------------------------------------------------------------------------
(* What the checksum promises *)

\* The receiver's test: the folded sum is all ones.
LEMMA CorrectIsAllOnes ==
  ASSUME NEW bytes, Short(bytes)
  PROVE  in_cksum(bytes, Len(bytes)) = 0 <=> Folded(SumOf(bytes)) % Word = Word - 1
<1>1. Word \in Nat
  BY WordFacts
<1>2. Folded(SumOf(bytes)) % Word \in 0 .. (Word - 1)
  BY SumOfShort, FoldedWord
<1> QED
  BY <1>1, <1>2 DEF in_cksum, SumOf

\* createPDU and formatReceiverReadyPDU: a PDU passes the receiver's test as soon
\* as it is sealed, whatever it carries and however long it is: an odd length, a
\* carry and an all-zero PDU included; and whatever byte follows it in the buffer.
THEOREM SealedIsCorrect ==
  ASSUME NEW seq \in [1 .. 4 -> Bytes], NEW flag \in Bytes, NEW payload \in Payloads
  PROVE  LET pdu == Sealed(seq, flag, payload)
         IN  /\ Short(pdu) /\ in_cksum(pdu, Len(pdu)) = 0
             /\ \A next \in Bytes : in_cksum(Append(pdu, next), Len(pdu)) = 0
<1> DEFINE zero == seq \o <<0, 0, flag>> \o payload
           c == in_cksum(zero, Len(zero))
           low == [zero EXCEPT ![5] = c % Byte]
           pdu == [low EXCEPT ![6] = c \div Byte]
<1>1. Byte \in Nat /\ Byte >= 2 /\ Word \in Nat /\ Word > 3
  BY WordFacts
<1>2. /\ zero \in Seq(Bytes) /\ Len(zero) = 7 + Len(payload)
      /\ zero[5] = 0 /\ zero[6] = 0 /\ 5 \in DOMAIN zero /\ 6 \in DOMAIN zero
  <2>1. seq \in Seq(Bytes) /\ Len(seq) = 4
    <3>1. seq \in Seq(Bytes)
      <4>1. [1 .. 4 -> Bytes] \in {[1 .. n -> Bytes] : n \in Nat}
        OBVIOUS
      <4> QED
        BY <4>1, SeqDef, Zenon
    <3>2. Len(seq) \in Nat /\ DOMAIN seq = 1 .. Len(seq)
      BY <3>1, LenProperties, Zenon
    <3> QED
      BY <3>1, <3>2
  <2>2. <<0, 0, flag>> \in Seq(Bytes) /\ Len(<<0, 0, flag>>) = 3
    BY <1>1 DEF Bytes
  <2>3. payload \in Seq(Bytes) /\ Len(payload) \in Nat
    BY ByteAssumption DEF Bytes
  <2>4. /\ seq \o <<0, 0, flag>> \in Seq(Bytes) /\ Len(seq \o <<0, 0, flag>>) = 7
        /\ (seq \o <<0, 0, flag>>)[5] = 0 /\ (seq \o <<0, 0, flag>>)[6] = 0
    <3> DEFINE t == <<0, 0, flag>>
    <3>1. t \in Seq(Bytes) /\ Len(t) = 3 /\ t[1] = 0 /\ t[2] = 0
      BY <2>2
    <3> HIDE DEF t
    <3>2. /\ seq \o t \in Seq(Bytes) /\ Len(seq \o t) = Len(seq) + Len(t)
          /\ \A i \in 1 .. Len(seq) + Len(t) :
               (seq \o t)[i] = IF i <= Len(seq) THEN seq[i] ELSE t[i - Len(seq)]
      BY <2>1, <3>1, ConcatProperties, Zenon
    <3>3. /\ 5 \in 1 .. Len(seq) + Len(t) /\ 5 - Len(seq) = 1 /\ ~(5 <= Len(seq))
          /\ 6 \in 1 .. Len(seq) + Len(t) /\ 6 - Len(seq) = 2 /\ ~(6 <= Len(seq))
          /\ Len(seq) + Len(t) = 7
      BY <2>1, <3>1
    <3> QED
      BY <3>1, <3>2, <3>3 DEF t
  <2> DEFINE head == seq \o <<0, 0, flag>>
  <2> HIDE DEF head
  <2>5. /\ head \o payload \in Seq(Bytes) /\ Len(head \o payload) = 7 + Len(payload)
        /\ (head \o payload)[5] = 0 /\ (head \o payload)[6] = 0
        /\ 5 \in DOMAIN (head \o payload) /\ 6 \in DOMAIN (head \o payload)
    BY <2>3, <2>4 DEF head
  <2> QED
    BY <2>5 DEF head
<1>3. Short(zero)
  BY <1>2, ByteAssumption DEF Short, Word
<1> HIDE DEF zero
<1>4. /\ SumOf(zero) \in Nat /\ SumOf(zero) < (Word - 1) * Word
      /\ c \in 0 .. (Word - 1) /\ Folded(SumOf(zero) + c) % Word = Word - 1
  <2>1. c = (Word - 1) - (Folded(SumOf(zero)) % Word)
    BY DEF in_cksum, SumOf
  <2> HIDE DEF c
  <2> QED
    BY <1>3, <2>1, SumOfShort, SealedWord
<1> HIDE DEF c
<1>5. c % Byte \in Bytes /\ c \div Byte \in Bytes /\ c = (c \div Byte) * Byte + (c % Byte)
  <2>1. /\ c \div Byte \in Nat /\ c % Byte \in Nat /\ c % Byte < Byte
        /\ c = (c \div Byte) * Byte + (c % Byte)
    BY <1>1, <1>4, Division
  <2>2. c \div Byte < Byte
    <3> DEFINE d == c \div Byte
               m == c % Byte
    <3>1. d \in Nat /\ m \in Nat /\ c = d * Byte + m /\ c < Byte * Byte
      BY <1>1, <1>4, <2>1 DEF Word
    <3> HIDE DEF d, m
    <3>2. d >= Byte => d * Byte >= Byte * Byte
      BY <1>1, <3>1
    <3>3. d * Byte \in Nat /\ Byte * Byte \in Nat
      BY <1>1, <3>1
    <3> QED
      BY <1>1, <3>1, <3>2, <3>3 DEF d
  <2> QED
    BY <1>1, <2>1, <2>2 DEF Bytes
<1>6. /\ low \in Seq(Bytes) /\ Len(low) = Len(zero)
      /\ SumOf(low) + Weight(5) * zero[5] = SumOf(zero) + Weight(5) * (c % Byte)
  <2> DEFINE v == c % Byte
  <2>1. v \in Bytes
    BY <1>5
  <2> HIDE DEF v
  <2>2. LET other == [zero EXCEPT ![5] = v]
        IN  /\ other \in Seq(Bytes) /\ Len(other) = Len(zero)
            /\ SumOf(other) + Weight(5) * zero[5] = SumOf(zero) + Weight(5) * v
    BY <1>2, <2>1, SumOfChanged
  <2> QED
    BY <2>2 DEF v
<1>7. low[6] = 0 /\ 6 \in DOMAIN low
  BY <1>2
<1> HIDE DEF low
<1>8. /\ pdu \in Seq(Bytes) /\ Len(pdu) = Len(low)
      /\ SumOf(pdu) + Weight(6) * low[6] = SumOf(low) + Weight(6) * (c \div Byte)
  <2> DEFINE v == c \div Byte
  <2>1. v \in Bytes
    BY <1>5
  <2> HIDE DEF v
  <2>2. LET other == [low EXCEPT ![6] = v]
        IN  /\ other \in Seq(Bytes) /\ Len(other) = Len(low)
            /\ SumOf(other) + Weight(6) * low[6] = SumOf(low) + Weight(6) * v
    BY <1>6, <1>7, <2>1, SumOfChanged
  <2> QED
    BY <2>2 DEF v
<1>9. Short(pdu)
  BY <1>3, <1>6, <1>8 DEF Short
<1>10. Weight(5) = 1 /\ Weight(6) = Byte
  BY DEF Weight
<1>11. SumOf(pdu) = SumOf(zero) + c
  <2> DEFINE m == c % Byte
             d == c \div Byte
  <2>1. Short(low)
    BY <1>3, <1>6 DEF Short
  <2>2. SumOf(pdu) \in Nat /\ SumOf(low) \in Nat
    BY <1>9, <2>1, SumOfShort
  <2>3. d \in Nat /\ m \in Nat /\ c = d * Byte + m /\ Byte * d = d * Byte
    BY <1>1, <1>5 DEF Bytes
  <2>4. SumOf(low) + 1 * 0 = SumOf(zero) + 1 * m
    BY <1>2, <1>6, <1>10
  <2>5. SumOf(pdu) + Byte * 0 = SumOf(low) + Byte * d
    BY <1>7, <1>8, <1>10
  <2> HIDE DEF m, d, pdu
  <2> QED
    BY <1>1, <1>4, <2>2, <2>3, <2>4, <2>5
<1>12. pdu = Sealed(seq, flag, payload)
  BY DEF low, c, zero, Sealed
<1> HIDE DEF pdu
<1>13. in_cksum(pdu, Len(pdu)) = 0
  BY <1>4, <1>9, <1>11, CorrectIsAllOnes
<1>14. \A next \in Bytes : in_cksum(Append(pdu, next), Len(pdu)) = 0
  BY <1>8, <1>13, NextByteUnread
<1> QED
  BY <1>9, <1>12, <1>13, <1>14

\* in_cksum of a PDU that was correct and has another value in one byte: it is
\* noticed, whichever byte it is and whatever the new value.  (0 and 2^16 - 1 are
\* the same number to the sum, but one byte cannot make the one of the other.)
THEOREM OneByteIsSeen ==
  ASSUME NEW bytes, Short(bytes), in_cksum(bytes, Len(bytes)) = 0,
         NEW j \in DOMAIN bytes, NEW v \in Bytes, v # bytes[j]
  PROVE  \A next \in Bytes : in_cksum(Append([bytes EXCEPT ![j] = v], next), Len(bytes)) # 0
<1> DEFINE other == [bytes EXCEPT ![j] = v]
           w == Weight(j)
           u == bytes[j]
           x == SumOf(bytes)
           y == SumOf(other)
<1>1. Byte \in Nat /\ Byte >= 2 /\ Word \in Nat /\ Word > 3
  BY WordFacts
<1>2. /\ other \in Seq(Bytes) /\ Len(other) = Len(bytes)
      /\ y + w * u = x + w * v
  BY SumOfChanged DEF Short
<1>3. Short(other)
  BY <1>2 DEF Short
<1>4. x \in Nat /\ y \in Nat /\ x < Word * Word /\ y < Word * Word
  BY <1>3, SumOfShort
<1>5. u \in Bytes /\ u # v
  BY DEF Short
<1>6. w \in {1, Byte}
  BY DEF Weight
<1>7. Folded(x) % Word = Word - 1
  BY CorrectIsAllOnes
<1> HIDE DEF other, w, u, x, y
<1>8. /\ u \in Nat /\ v \in Nat /\ u < Byte /\ v < Byte
      /\ w * u \in Nat /\ w * v \in Nat
  BY <1>1, <1>5, <1>6 DEF Bytes
<1>9. /\ w * u <= w * (Byte - 1) /\ w * v <= w * (Byte - 1)
      /\ w * (Byte - 1) \in Nat /\ w * (Byte - 1) < Word - 1
  <2>1. w * u <= w * (Byte - 1) /\ w * v <= w * (Byte - 1) /\ w * (Byte - 1) \in Nat
    BY <1>1, <1>6, <1>8
  <2>2. Word = Byte * Byte /\ Byte * (Byte - 1) = Byte * Byte - Byte
    BY <1>1 DEF Word
  <2>3. 1 * (Byte - 1) <= Byte * (Byte - 1)
    BY <1>1
  <2>4. w * (Byte - 1) <= Byte * (Byte - 1)
    BY <1>1, <1>6, <2>3
  <2>5. Byte * (Byte - 1) < Word - 1 /\ Byte * (Byte - 1) \in Nat
    BY <1>1, <2>2
  <2> QED
    BY <1>1, <2>1, <2>4, <2>5
<1>10. w * u # w * v
  BY <1>1, <1>5, <1>6, <1>8
<1>11. x # y /\ x - y < Word - 1 /\ y - x < Word - 1
  BY <1>1, <1>2, <1>4, <1>8, <1>9, <1>10
<1>12. Folded(y) % Word # Word - 1
  BY <1>4, <1>7, <1>11, ChangedWord
<1>13. in_cksum(other, Len(other)) # 0
  BY <1>3, <1>12, CorrectIsAllOnes DEF y
<1> QED
  BY <1>2, <1>13, NextByteUnread DEF other

=============================================================================
