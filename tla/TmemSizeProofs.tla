--------------------------- MODULE TmemSizeProofs ---------------------------
(***************************************************************************)
(* Theorems about TmemSize for words of every width and for every minimal  *)
(* chunk size.  The facts about the powers of two are proved by least      *)
(* counterexample: a nonempty set of naturals has a least element.         *)
(***************************************************************************)
EXTENDS TmemSize, WellFoundedInduction, TLAPS

-----------------------------------------------------------------------------
(* Arithmetic                                                              *)

\* A nonempty set of naturals has a least element.
LEMMA LeastNat ==
  ASSUME NEW T, T \subseteq Nat, T # {}
  PROVE  \E x \in T : \A y \in T : x <= y
<1>1. PICK x \in T : \A y \in T : ~(<<y, x>> \in OpToRel(<, Nat))
  BY NatLessThanWellFounded, WFMin, Zenon
<1>2. \A y \in T : ~(y < x)
  BY <1>1 DEF OpToRel
<1> QED
  BY <1>2

\* The first n + 1 powers of two, as a function.
Powers(n, g) == /\ g \in [0..n -> Nat]
                /\ \A i \in 0..n : g[i] = IF i = 0 THEN 1 ELSE 2 * g[i - 1]

\* They exist for every n.
LEMMA PowersExist == \A n \in Nat : \E g : Powers(n, g)
<1> DEFINE T == {n \in Nat : ~\E g : Powers(n, g)}
<1> SUFFICES ASSUME T # {} PROVE FALSE
  OBVIOUS
<1>1. PICK x \in T : \A y \in T : x <= y
  BY LeastNat, T \subseteq Nat
<1>2. CASE x = 0
  <2> DEFINE g == [i \in 0..0 |-> 1]
  <2>1. Powers(0, g)
    BY DEF Powers
  <2> QED
    BY <1>2, <2>1
<1>3. CASE x # 0
  <2>1. x - 1 \in Nat /\ x - 1 \notin T
    BY <1>1, <1>3
  <2>2. PICK g : Powers(x - 1, g)
    BY <2>1
  <2> DEFINE h == [i \in 0..x |-> IF i = x THEN 2 * g[x - 1] ELSE g[i]]
  <2>3. g[x - 1] \in Nat /\ \A i \in 0..(x - 1) : g[i] \in Nat
    BY <2>1, <2>2 DEF Powers
  <2>4. h \in [0..x -> Nat]
    BY <2>1, <2>3
  <2>5. ASSUME NEW i \in 0..x PROVE h[i] = IF i = 0 THEN 1 ELSE 2 * h[i - 1]
    <3>1. CASE i = x
      BY <1>3, <3>1, <2>1
    <3>2. CASE i # x
      BY <1>3, <3>2, <2>1, <2>2 DEF Powers
    <3> QED
      BY <3>1, <3>2
  <2>6. Powers(x, h)
    BY <2>4, <2>5 DEF Powers
  <2> QED
    BY <2>6
<1> QED
  BY <1>2, <1>3

\* Two such functions agree where both are defined.
LEMMA PowersAgree ==
  ASSUME NEW m \in Nat, NEW n \in Nat, NEW g, NEW h, Powers(m, g), Powers(n, h), m <= n
  PROVE  \A i \in 0..m : g[i] = h[i]
<1> DEFINE T == {i \in 0..m : g[i] # h[i]}
<1> SUFFICES ASSUME T # {} PROVE FALSE
  OBVIOUS
<1>1. PICK x \in T : \A y \in T : x <= y
  BY LeastNat, T \subseteq Nat
<1>2. CASE x = 0
  BY <1>2 DEF Powers
<1>3. CASE x # 0
  <2>1. x - 1 \in 0..m /\ x - 1 \notin T
    BY <1>1, <1>3
  <2>2. g[x - 1] = h[x - 1]
    BY <2>1
  <2> QED
    BY <1>3, <2>2 DEF Powers
<1> QED
  BY <1>2, <1>3

\* Pow2 satisfies its recursive definition.
LEMMA Pow2Def == Pow2 = [n \in Nat |-> IF n = 0 THEN 1 ELSE 2 * Pow2[n - 1]]
<1> DEFINE G(n) == CHOOSE g : Powers(n, g)
           f == [n \in Nat |-> G(n)[n]]
<1>1. ASSUME NEW n \in Nat PROVE Powers(n, G(n))
  BY PowersExist, Zenon
<1> HIDE DEF G
<1>2. ASSUME NEW n \in Nat PROVE f[n] = IF n = 0 THEN 1 ELSE 2 * f[n - 1]
  <2>1. CASE n = 0
    BY <1>1, <2>1 DEF Powers
  <2>2. CASE n # 0
    <3>1. n - 1 \in Nat /\ n - 1 \in 0..(n - 1)
      BY <2>2
    <3>2. G(n)[n] = 2 * G(n)[n - 1]
      BY <1>1, <2>2, <3>1 DEF Powers
    <3>3. G(n - 1)[n - 1] = G(n)[n - 1]
      BY <1>1, <3>1, PowersAgree
    <3> QED
      BY <2>2, <3>1, <3>2, <3>3
  <2> QED
    BY <2>1, <2>2
<1>3. f = [n \in Nat |-> IF n = 0 THEN 1 ELSE 2 * f[n - 1]]
  BY <1>2
<1> HIDE DEF f
<1>4. \E g : g = [n \in Nat |-> IF n = 0 THEN 1 ELSE 2 * g[n - 1]]
  BY <1>3, Zenon
<1> QED
  BY <1>4, Zenon DEF Pow2

\* The same, one value at a time.
LEMMA Pow2Step == Pow2[0] = 1 /\ \A n \in Nat : Pow2[n + 1] = 2 * Pow2[n]
<1>1. \A n \in Nat : Pow2[n] = IF n = 0 THEN 1 ELSE 2 * Pow2[n - 1]
  BY Pow2Def, Zenon
<1>2. ASSUME NEW n \in Nat PROVE Pow2[n + 1] = 2 * Pow2[n]
  <2>1. n + 1 \in Nat /\ n + 1 # 0 /\ (n + 1) - 1 = n
    OBVIOUS
  <2> QED
    BY <1>1, <2>1
<1> QED
  BY <1>1, <1>2

\* Powers of two are positive.
LEMMA Pow2Positive == \A n \in Nat : Pow2[n] \in Nat \ {0}
<1> DEFINE T == {n \in Nat : Pow2[n] \notin Nat \ {0}}
<1> SUFFICES ASSUME T # {} PROVE FALSE
  OBVIOUS
<1>1. PICK x \in T : \A y \in T : x <= y
  BY LeastNat, T \subseteq Nat
<1>2. x # 0
  BY Pow2Step
<1>3. x - 1 \in Nat /\ x - 1 \notin T /\ (x - 1) + 1 = x
  BY <1>1, <1>2
<1>4. Pow2[x - 1] \in Nat \ {0} /\ Pow2[x] = 2 * Pow2[x - 1]
  BY <1>3, Pow2Step
<1> QED
  BY <1>4

\* A shift by i + k places is a shift by i places and one by k places.
LEMMA Pow2Sum == \A i, k \in Nat : Pow2[i + k] = Pow2[i] * Pow2[k]
<1> SUFFICES ASSUME NEW i \in Nat PROVE \A k \in Nat : Pow2[i + k] = Pow2[i] * Pow2[k]
  OBVIOUS
<1> DEFINE T == {k \in Nat : Pow2[i + k] # Pow2[i] * Pow2[k]}
<1> SUFFICES ASSUME T # {} PROVE FALSE
  OBVIOUS
<1>1. PICK x \in T : \A y \in T : x <= y
  BY LeastNat, T \subseteq Nat
<1>2. x # 0
  BY Pow2Step, Pow2Positive
<1>3. x - 1 \in Nat /\ x - 1 \notin T /\ (x - 1) + 1 = x /\ (i + (x - 1)) + 1 = i + x
      /\ i + (x - 1) \in Nat
  BY <1>1, <1>2
<1>4. Pow2[i + (x - 1)] = Pow2[i] * Pow2[x - 1]
  BY <1>3
<1>5. Pow2[i + x] = 2 * Pow2[i + (x - 1)] /\ Pow2[x] = 2 * Pow2[x - 1]
  BY <1>3, Pow2Step
<1>6. Pow2[i] \in Nat /\ Pow2[x - 1] \in Nat
  BY <1>3, Pow2Positive
<1>7. 2 * (Pow2[i] * Pow2[x - 1]) = Pow2[i] * (2 * Pow2[x - 1])
  BY <1>6
<1> QED
  BY <1>4, <1>5, <1>7

\* A larger shift gives a multiple of a smaller one, and no smaller a number.
LEMMA Pow2Mono ==
  ASSUME NEW i \in Nat, NEW k \in Nat, i <= k
  PROVE  /\ Pow2[k] = Pow2[k - i] * Pow2[i]
         /\ Pow2[i] <= Pow2[k]
         /\ i < k => Pow2[i] < Pow2[k]
<1>1. k - i \in Nat /\ (k - i) + i = k
  OBVIOUS
<1>2. Pow2[k] = Pow2[k - i] * Pow2[i]
  BY <1>1, Pow2Sum
<1>3. Pow2[k - i] \in Nat \ {0} /\ Pow2[i] \in Nat \ {0}
  BY <1>1, Pow2Positive
<1>4. Pow2[i] <= Pow2[k - i] * Pow2[i]
  BY <1>3
<1>5. ASSUME i < k PROVE Pow2[i] < Pow2[k - i] * Pow2[i]
  <2>1. (k - i) - 1 \in Nat /\ ((k - i) - 1) + 1 = k - i
    BY <1>5
  <2>2. Pow2[k - i] = 2 * Pow2[(k - i) - 1] /\ Pow2[(k - i) - 1] \in Nat \ {0}
    BY <2>1, Pow2Step, Pow2Positive
  <2>3. Pow2[k - i] >= 2
    BY <2>2
  <2> QED
    BY <1>3, <2>3
<1> QED
  BY <1>2, <1>4, <1>5

\* The remainder of a number, and a number that is its own remainder.
LEMMA Remainder ==
  ASSUME NEW a \in Nat, NEW b \in Nat \ {0}
  PROVE  a % b \in 0..(b - 1) /\ (a < b => a % b = a)
OBVIOUS

\* The remainder of a number that exceeds the divisor by less than the divisor.
LEMMA OneWrap ==
  ASSUME NEW a \in Nat, NEW b \in Nat \ {0}, a - b \in Nat, a - b < b
  PROVE  a % b = a - b
OBVIOUS

\* A multiple leaves no remainder.
LEMMA MultipleRemainder ==
  ASSUME NEW k \in Nat, NEW b \in Nat \ {0}
  PROVE  (k * b) % b = 0
OBVIOUS

\* The quotient, between its two bounds.
LEMMA Quotient ==
  ASSUME NEW a \in Nat, NEW b \in Nat \ {0}
  PROVE  /\ a \div b \in Nat
         /\ (a \div b) * b <= a
         /\ a < (a \div b) * b + b
<1>1. a \in Int /\ b \in Int /\ b > 0
  OBVIOUS
<1> QED
  BY <1>1

-----------------------------------------------------------------------------
(* The rounding of the size                                                *)

\* r is the next multiple of minimal_chunk_size, or what the word keeps of it.
Rounds(r, s) == LET m == IF r >= s THEN r ELSE r + Pow2[Width]
                IN  m % MinChunk = 0 /\ m >= s /\ m < s + MinChunk

\* The rounded size is the next multiple of minimal_chunk_size, less the wrap.
LEMMA AdjustedRounds == ASSUME NEW s \in Word \ {0} PROVE Rounds(Adjusted(s), s)
<1> DEFINE q == (s - 1) \div MinChunk
           m == (q + 1) * MinChunk
<1>1. /\ MinChunk \in Nat \ {0} /\ Pow2[Width] \in Nat \ {0} /\ s \in Nat /\ s - 1 \in Nat
      /\ s < Pow2[Width] /\ MinChunk < Pow2[Width]
  BY Config, Pow2Positive DEF Word
<1>2. q \in Nat /\ q * MinChunk <= s - 1 /\ s - 1 < q * MinChunk + MinChunk
  BY <1>1, Quotient
<1>3. m = q * MinChunk + MinChunk /\ m \in Nat /\ q + 1 \in Nat
  <2> HIDE DEF q
  <2> QED
    BY <1>1, <1>2
<1>4. m >= s /\ m < s + MinChunk
  <2> HIDE DEF q, m
  <2>1. q * MinChunk \in Nat
    BY <1>1, <1>2
  <2> QED
    BY <1>1, <1>2, <1>3, <2>1
<1>5. m % MinChunk = 0
  BY <1>1, <1>3, MultipleRemainder
<1>6. Adjusted(s) = m % Pow2[Width]
  BY DEF Adjusted
<1> HIDE DEF m
<1>7. CASE m < Pow2[Width]
  <2>1. Adjusted(s) = m
    BY <1>1, <1>3, <1>6, <1>7, Remainder
  <2> QED
    BY <1>1, <1>3, <1>4, <1>5, <2>1 DEF Rounds
<1>8. CASE m >= Pow2[Width]
  <2>1. m - Pow2[Width] \in Nat /\ m - Pow2[Width] < s /\ m - Pow2[Width] < Pow2[Width]
    BY <1>1, <1>3, <1>4, <1>8
  <2>2. Adjusted(s) = m - Pow2[Width]
    BY <1>1, <1>3, <1>6, <2>1, OneWrap
  <2> QED
    BY <1>1, <1>3, <1>4, <1>5, <2>1, <2>2 DEF Rounds
<1> QED
  BY <1>1, <1>3, <1>7, <1>8

\* The checks compute words, and look at the size of the request first.
SizeType ==
  /\ req \in Requests
  /\ size \in Word /\ alignment \in Word /\ order \in 0..(Width - 1)
  /\ pc \in {"size", "align", "realign", "order", "reorder", "ok", "refused"}
  /\ pc = "size" => size = req.size
  /\ pc \notin {"size", "refused"} => req.size # 0

\* The size is rounded from the first check on.
RoundInv ==
  pc \notin {"size", "refused"} /\ req.min_size_check /\ req.mchunks => Rounds(size, req.size)

\* What is known of the constants.
LEMMA Constants ==
  /\ Width \in Nat /\ 0 \in 0..(Width - 1)
  /\ MinChunk \in Nat \ {0} /\ MinChunk \in Word
  /\ Pow2[Width] \in Nat \ {0}
  /\ \A x \in Nat : x % Pow2[Width] \in Word
<1>1. Width \in Nat \ {0} /\ Pow2[Width] \in Nat \ {0}
  BY Config, Pow2Positive
<1>2. \A x \in Nat : x % Pow2[Width] \in Word
  BY <1>1, Remainder DEF Word
<1> QED
  BY <1>1, <1>2, Config DEF Word

\* A rounded size is a word.
LEMMA AdjustedWord == ASSUME NEW s \in Nat \ {0} PROVE Adjusted(s) \in Word
<1>1. s - 1 \in Nat /\ (s - 1) \div MinChunk \in Nat
  BY Constants, Quotient
<1>2. ((s - 1) \div MinChunk + 1) * MinChunk \in Nat
  BY <1>1, Constants
<1> QED
  BY <1>2, Constants DEF Adjusted

\* The next order, which the processor takes modulo the width, is one of the word.
LEMMA NextOrder == ASSUME NEW o \in 0..(Width - 1) PROVE (o + 1) % Width \in 0..(Width - 1)
<1>1. o + 1 \in Nat /\ Width \in Nat \ {0}
  BY Config
<1> QED
  BY <1>1, Remainder

\* A block of get_ordered_size, as the word holds it.
OrderSize(k) == (MinChunk * Pow2[k]) % Pow2[Width]

\* It is a word.
LEMMA OrderSizeWord == ASSUME NEW k \in Nat PROVE OrderSize(k) \in Word
<1>1. MinChunk * Pow2[k] \in Nat
  BY Constants, Pow2Positive
<1> QED
  BY <1>1, Constants DEF OrderSize

\* The checks keep their types.
LEMMA SizeTypeStep == SizeType /\ [Next]_vars => SizeType'
<1> SUFFICES ASSUME SizeType, [Next]_vars PROVE SizeType'
  OBVIOUS
<1> USE DEF SizeType
<1>1. CASE ZeroSize
  BY <1>1 DEF ZeroSize
<1>2. CASE MinChunkSizeCheck
  <2>1. size \in Nat \ {0} /\ req.size # 0
    BY <1>2 DEF MinChunkSizeCheck, Word
  <2>2. size' \in Word
    BY <1>2, <2>1, AdjustedWord DEF MinChunkSizeCheck
  <2>3. pc' \in {"refused", "align", "ok"}
    BY <1>2 DEF MinChunkSizeCheck
  <2>4. UNCHANGED <<req, alignment, order>>
    BY <1>2 DEF MinChunkSizeCheck
  <2> QED
    BY <2>1, <2>2, <2>3, <2>4
<1>3. CASE AlignmentAdjust
  BY <1>3, Constants DEF AlignmentAdjust
<1>4. CASE OneChunk
  BY <1>4, Constants DEF OneChunk, After
<1>5. CASE OrderedSize
  <2>1. order \in Nat /\ OrderSize(order) \in Word /\ (order + 1) % Width \in 0..(Width - 1)
    BY OrderSizeWord, NextOrder, Constants
  <2>2. alignment' \in Word /\ order' \in 0..(Width - 1)
    BY <1>5, <2>1 DEF OrderedSize, OrderSize
  <2>3. pc' \in {pc, "realign", "ok"} /\ pc \in {"order", "reorder"} /\ UNCHANGED <<req, size>>
    BY <1>5 DEF OrderedSize, After
  <2> QED
    BY <2>2, <2>3
<1>6. CASE UNCHANGED vars
  BY <1>6 DEF vars
<1> QED
  BY <1>1, <1>2, <1>3, <1>4, <1>5, <1>6 DEF Next, Done

\* The size is rounded once.
LEMMA RoundStep == SizeType /\ RoundInv /\ [Next]_vars => RoundInv'
<1> SUFFICES ASSUME SizeType, RoundInv, [Next]_vars PROVE RoundInv'
  OBVIOUS
<1>1. CASE ZeroSize
  BY <1>1 DEF ZeroSize, RoundInv
<1>2. CASE MinChunkSizeCheck
  <2> SUFFICES ASSUME pc' # "refused", req.min_size_check, req.mchunks
               PROVE  Rounds(size', req.size)
    BY <1>2 DEF MinChunkSizeCheck, RoundInv
  <2>1. size = req.size /\ size \in Word \ {0}
    BY <1>2 DEF MinChunkSizeCheck, SizeType
  <2>2. ~(MinChunk < req.phys_min)
    BY <1>2 DEF MinChunkSizeCheck
  <2>3. req.phys_min \in Nat
    <3>1. req.phys_min \in PhysMins
      BY DEF SizeType, Requests
    <3>2. PhysMins \subseteq Word /\ Word \subseteq Nat
      BY Config, Constants DEF Word
    <3> QED
      BY <3>1, <3>2
  <2>4. size' = Adjusted(size)
    BY <1>2, <2>2, <2>3, Constants DEF MinChunkSizeCheck
  <2> QED
    BY <2>1, <2>4, AdjustedRounds
<1>3. CASE AlignmentAdjust \/ OneChunk \/ OrderedSize
  <2>1. pc \notin {"size", "refused"} /\ UNCHANGED <<req, size>>
    BY <1>3 DEF AlignmentAdjust, OneChunk, OrderedSize
  <2> QED
    BY <2>1 DEF RoundInv
<1>4. CASE UNCHANGED vars
  BY <1>4 DEF vars, RoundInv
<1> QED
  BY <1>1, <1>2, <1>3, <1>4 DEF Next, Done

\* The first check starts from the size of the request.
LEMMA SizeInit == Init => SizeType /\ RoundInv
<1> SUFFICES ASSUME Init PROVE SizeType /\ RoundInv
  OBVIOUS
<1>1. req.size \in Word /\ req.alignment \in Word
  BY DEF Init, Requests
<1> QED
  BY <1>1, Constants DEF Init, SizeType, RoundInv

\* min_chunk_size_check hands on the next multiple of minimal_chunk_size for a type
\* with many chunks, less the wrap where it does not fit the word, for every width and
\* every chunk size.
THEOREM RoundedUp == Spec => []SizeRounded
<1>1. Init => SizeType /\ RoundInv
  BY SizeInit
<1>2. SizeType /\ RoundInv /\ [Next]_vars => SizeType' /\ RoundInv'
  BY SizeTypeStep, RoundStep
<1>3. RoundInv => SizeRounded
  BY DEF RoundInv, SizeRounded, Rounds
<1> QED
  BY <1>1, <1>2, <1>3, PTL DEF Spec

-----------------------------------------------------------------------------
(* The block of the alignment                                              *)

\* minimal_chunk_size is a power of two.
PowerOfTwo == \E m \in Nat : MinChunk = Pow2[m]

\* a is the smallest block that covers s.
Least(a, s) == a \in Blocks /\ a >= s /\ \A b \in Blocks : b >= s => b >= a

\* The loop of get_ordered_size has tried the smaller orders, and what the two
\* adjustments leave is the size or the smallest block.
BlockInv ==
  ~req.mchunks =>
    /\ pc \notin {"size", "refused"} => size # 0
    /\ pc \in {"order", "reorder"} => \A j \in 0..(order - 1) : OrderSize(j) < size
    /\ pc = "realign" => alignment <= size \/ Least(alignment, size)
    /\ pc = "ok" /\ req.alignment_check => alignment = size \/ Least(alignment, size)

\* A shift of minimal_chunk_size, without the wrap.
LEMMA Shifted ==
  ASSUME NEW k \in Nat
  PROVE  MinChunk * Pow2[k] \in Nat /\ MinChunk * Pow2[k] >= MinChunk
<1>1. Pow2[k] \in Nat \ {0} /\ MinChunk \in Nat \ {0}
  BY Pow2Positive, Constants
<1> QED
  BY <1>1

\* Shifting further gives no smaller block.
LEMMA ShiftedMono ==
  ASSUME NEW i \in Nat, NEW k \in Nat, i <= k
  PROVE  MinChunk * Pow2[i] <= MinChunk * Pow2[k]
<1>1. Pow2[i] \in Nat /\ Pow2[k] \in Nat /\ MinChunk \in Nat
  BY Pow2Positive, Constants
<1>2. Pow2[i] <= Pow2[k]
  BY Pow2Mono
<1> QED
  BY <1>1, <1>2

\* The block of a word that does not wrap to zero is the shift itself.
LEMMA NoWrap ==
  ASSUME PowerOfTwo, NEW k \in Nat, OrderSize(k) # 0
  PROVE  OrderSize(k) = MinChunk * Pow2[k] /\ MinChunk * Pow2[k] < Pow2[Width]
<1>1. PICK m \in Nat : MinChunk = Pow2[m]
  BY DEF PowerOfTwo
<1>2. MinChunk * Pow2[k] = Pow2[m + k] /\ m + k \in Nat
  BY <1>1, Pow2Sum
<1>3. Width \in Nat /\ Pow2[Width] \in Nat \ {0} /\ Pow2[m + k] \in Nat
  BY <1>2, Constants, Pow2Positive
<1>4. m + k < Width
  <2> SUFFICES ASSUME Width <= m + k PROVE FALSE
    BY <1>2, <1>3
  <2>1. Pow2[m + k] = Pow2[(m + k) - Width] * Pow2[Width]
    BY <1>2, <1>3, Pow2Mono
  <2>2. (m + k) - Width \in Nat
    BY <1>2, <1>3
  <2>3. Pow2[(m + k) - Width] \in Nat
    BY <2>2, Pow2Positive
  <2>4. (Pow2[(m + k) - Width] * Pow2[Width]) % Pow2[Width] = 0
    BY <1>3, <2>3, MultipleRemainder
  <2> QED
    BY <1>2, <2>1, <2>4 DEF OrderSize
<1>5. Pow2[m + k] < Pow2[Width]
  BY <1>2, <1>3, <1>4, Pow2Mono
<1>6. Pow2[m + k] % Pow2[Width] = Pow2[m + k]
  BY <1>3, <1>5, Remainder
<1> QED
  BY <1>2, <1>5, <1>6 DEF OrderSize

\* A block of Blocks is a shift that fits the word.
LEMMA BlockShift ==
  ASSUME NEW b \in Blocks
  PROVE  b \in Nat /\ \E j \in 0..Width : b = MinChunk * Pow2[j] /\ OrderSize(j) = b
<1>1. PICK j \in 0..Width : b = MinChunk * Pow2[j]
  BY DEF Blocks
<1>2. b \in Nat /\ b < Pow2[Width] /\ Pow2[Width] \in Nat \ {0}
  BY Constants DEF Blocks, Word
<1>3. b % Pow2[Width] = b
  BY <1>2, Remainder
<1> QED
  BY <1>1, <1>2, <1>3 DEF OrderSize

\* Where no smaller order covers the size, the order that covers it gives the
\* smallest block.
LEMMA FirstIsLeast ==
  ASSUME PowerOfTwo, NEW s \in Nat \ {0}, NEW k \in 0..(Width - 1),
         OrderSize(k) >= s, \A j \in 0..(k - 1) : OrderSize(j) < s
  PROVE  Least(OrderSize(k), s)
<1>1. k \in Nat /\ k \in 0..Width /\ OrderSize(k) \in Word /\ OrderSize(k) \in Nat
  BY OrderSizeWord, Constants DEF Word
<1>2. OrderSize(k) = MinChunk * Pow2[k]
  BY <1>1, NoWrap
<1>3. OrderSize(k) \in Blocks
  BY <1>1, <1>2 DEF Blocks
<1>4. ASSUME NEW b \in Blocks, b >= s PROVE b >= OrderSize(k)
  <2>1. PICK j \in 0..Width : b = MinChunk * Pow2[j] /\ OrderSize(j) = b
    BY BlockShift
  <2>2. b \in Nat /\ j \in Nat
    BY BlockShift
  <2>3. k <= j
    <3> SUFFICES ASSUME j < k PROVE FALSE
      BY <1>1, <2>2
    <3>1. OrderSize(j) < s
      BY <1>1, <2>2
    <3> QED
      BY <1>4, <2>1, <2>2, <3>1
  <2>4. MinChunk * Pow2[k] <= MinChunk * Pow2[j]
    BY <1>1, <2>2, <2>3, ShiftedMono
  <2> QED
    BY <1>1, <1>2, <2>1, <2>2, <2>4
<1> QED
  BY <1>3, <1>4 DEF Least

\* One chunk is the smallest block of all.
LEMMA ChunkIsLeast == ASSUME NEW s \in Nat, s < MinChunk PROVE Least(MinChunk, s)
<1>1. MinChunk \in Blocks
  <2>1. MinChunk = MinChunk * Pow2[0] /\ 0 \in 0..Width
    BY Pow2Step, Constants
  <2> QED
    BY <2>1, Constants DEF Blocks
<1>2. ASSUME NEW b \in Blocks PROVE b >= MinChunk
  <2>1. PICK j \in 0..Width : b = MinChunk * Pow2[j]
    BY BlockShift
  <2> QED
    BY <2>1, Shifted, Constants
<1> QED
  BY <1>1, <1>2, Constants DEF Least

\* The two adjustments keep the invariant of the block.
LEMMA BlockStep == PowerOfTwo /\ SizeType /\ BlockInv /\ [Next]_vars => BlockInv'
<1> SUFFICES ASSUME PowerOfTwo, SizeType, BlockInv, [Next]_vars, ~req'.mchunks PROVE BlockInv'
  BY DEF BlockInv
<1>t. size \in Nat /\ alignment \in Nat /\ order \in 0..(Width - 1) /\ MinChunk \in Nat
  BY Constants DEF SizeType, Word
<1>1. CASE ZeroSize
  BY <1>1 DEF ZeroSize, BlockInv
<1>2. CASE MinChunkSizeCheck
  <2>1. UNCHANGED <<req, size, alignment, order>> /\ pc' \in {"refused", "align", "ok"} /\ size # 0
    BY <1>2 DEF MinChunkSizeCheck
  <2>2. pc' = "ok" => ~req.alignment_check
    BY <1>2 DEF MinChunkSizeCheck
  <2> QED
    BY <2>1, <2>2 DEF BlockInv
<1>3. CASE AlignmentAdjust
  <2>1. UNCHANGED <<req, size, alignment>> /\ order' = 0 /\ size # 0
    BY <1>3 DEF AlignmentAdjust, BlockInv
  <2>2. CASE pc' \in {"order", "reorder"}
    BY <2>1, <2>2 DEF BlockInv
  <2>3. CASE pc' = "realign"
    <3>1. alignment <= size
      BY <1>3, <1>t, <2>3 DEF AlignmentAdjust
    <3> QED
      BY <2>1, <2>3, <3>1 DEF BlockInv
  <2>4. CASE pc' = "ok"
    <3>1. pc = "realign" /\ ~(alignment < size)
      BY <1>3, <2>4 DEF AlignmentAdjust
    <3>2. alignment = size \/ Least(alignment, size)
      BY <1>t, <2>1, <3>1 DEF BlockInv
    <3> QED
      BY <2>1, <2>4, <3>2 DEF BlockInv, Least
  <2> QED
    BY <1>3, <2>2, <2>3, <2>4 DEF AlignmentAdjust
<1>4. CASE OneChunk
  <2>1. UNCHANGED <<req, size, order>> /\ alignment' = MinChunk /\ size # 0 /\ size < MinChunk
        /\ pc' \in {"realign", "ok"}
    BY <1>4 DEF OneChunk, After, BlockInv
  <2>2. Least(MinChunk, size)
    BY <1>t, <2>1, ChunkIsLeast
  <2> QED
    BY <2>1, <2>2 DEF BlockInv, Least
<1>5. CASE OrderedSize
  <2>1. UNCHANGED <<req, size>> /\ size # 0 /\ \A j \in 0..(order - 1) : OrderSize(j) < size
    BY <1>5 DEF OrderedSize, BlockInv
  <2>2. order \in Nat /\ OrderSize(order) \in Nat
    BY <1>t, OrderSizeWord, Constants DEF Word
  <2>3. CASE OrderSize(order) >= size
    <3>1. alignment' = OrderSize(order) /\ pc' \in {"realign", "ok"}
      BY <1>5, <2>3 DEF OrderedSize, OrderSize, After
    <3>2. Least(OrderSize(order), size)
      BY <1>t, <2>1, <2>3, FirstIsLeast
    <3> QED
      BY <2>1, <3>1, <3>2 DEF BlockInv, Least
  <2>4. CASE ~(OrderSize(order) >= size)
    <3>1. order' = (order + 1) % Width /\ pc' = pc /\ pc \in {"order", "reorder"}
      BY <1>5, <2>4 DEF OrderedSize, OrderSize
    <3>2. OrderSize(order) < size
      BY <1>t, <2>2, <2>4
    <3>3. order' \in Nat /\ order' <= order + 1
      <4>1. order + 1 \in Nat /\ Width \in Nat \ {0} /\ order + 1 <= Width
        BY <1>t, Config
      <4>2. CASE order + 1 < Width
        BY <3>1, <4>1, <4>2, Remainder
      <4>3. CASE order + 1 = Width
        BY <3>1, <4>1, <4>3, Remainder
      <4> QED
        BY <4>1, <4>2, <4>3
    <3>4. ASSUME NEW n \in Nat, n <= order + 1, NEW j \in 0..(n - 1) PROVE OrderSize(j) < size
      <4>1. j \in 0..(order - 1) \/ j = order
        BY <2>2, <3>4
      <4> QED
        BY <2>1, <3>2, <4>1
    <3>5. \A j \in 0..(order' - 1) : OrderSize(j) < size
      BY <3>3, <3>4
    <3> QED
      BY <2>1, <3>1, <3>5 DEF BlockInv
  <2> QED
    BY <2>3, <2>4
<1>6. CASE UNCHANGED vars
  BY <1>6 DEF vars, BlockInv
<1> QED
  BY <1>1, <1>2, <1>3, <1>4, <1>5, <1>6 DEF Next, Done

\* alignment_adjust leaves an accepted request of a type with one chunk per handle with
\* its size or the smallest block that covers it, for every width and every minimal
\* chunk size that is a power of two.  For another one a shift can wrap to a number
\* that covers the size and is no block.
THEOREM SmallestBlock == ASSUME PowerOfTwo PROVE Spec => []LeastBlock
<1>1. Init => SizeType /\ BlockInv
  BY SizeInit DEF Init, BlockInv
<1>2. SizeType /\ BlockInv /\ [Next]_vars => SizeType' /\ BlockInv'
  BY SizeTypeStep, BlockStep
<1>3. SizeType /\ BlockInv => LeastBlock
  <2>1. SizeType => size \in Nat
    BY Constants DEF SizeType, Word
  <2> QED
    BY <2>1 DEF BlockInv, LeastBlock, Least
<1> QED
  BY <1>1, <1>2, <1>3, PTL DEF Spec

-----------------------------------------------------------------------------
(* The loop of get_ordered_size                                            *)

\* Half of the range of the word is one of the blocks it tries.
LEMMA HalfIsTried ==
  ASSUME PowerOfTwo PROVE \E j \in 0..(Width - 1) : OrderSize(j) = Pow2[Width - 1]
<1>1. PICK m \in Nat : MinChunk = Pow2[m]
  BY DEF PowerOfTwo
<1>2. Width - 1 \in Nat /\ Width \in Nat /\ Pow2[m] < Pow2[Width]
  BY <1>1, Config, Constants DEF Word
<1>3. m <= Width - 1
  <2> SUFFICES ASSUME Width <= m PROVE FALSE
    BY <1>2
  <2>1. Pow2[Width] <= Pow2[m] /\ Pow2[Width] \in Nat /\ Pow2[m] \in Nat
    BY <1>2, Pow2Mono, Pow2Positive
  <2> QED
    BY <1>2, <2>1
<1> DEFINE j == (Width - 1) - m
<1>4. j \in Nat /\ j \in 0..(Width - 1) /\ m + j = Width - 1
  BY <1>2, <1>3
<1>5. MinChunk * Pow2[j] = Pow2[Width - 1]
  <2> HIDE DEF j
  <2> QED
    BY <1>1, <1>4, Pow2Sum
<1>6. Pow2[Width - 1] < Pow2[Width] /\ Pow2[Width - 1] \in Nat /\ Pow2[Width] \in Nat \ {0}
  BY <1>2, Pow2Mono, Pow2Positive
<1>7. Pow2[Width - 1] % Pow2[Width] = Pow2[Width - 1]
  BY <1>6, Remainder
<1> HIDE DEF j
<1> QED
  BY <1>4, <1>5, <1>7 DEF OrderSize

\* A round of the loop ends it or tries the next order; the shift never runs past the
\* width, where the code's shift is undefined.
Advances ==
  pc \in {"order", "reorder"} /\ size <= Pow2[Width - 1] =>
    pc' # pc \/ (order' = order + 1 /\ order' < Width)

\* For a size up to half of the range every round of get_ordered_size makes progress, so
\* the loop has at most Width rounds: what ChecksEnd needs besides fairness.
THEOREM LoopAdvances == ASSUME PowerOfTwo PROVE Spec => [][Advances]_vars
<1>1. Init => SizeType /\ BlockInv
  BY SizeInit DEF Init, BlockInv
<1>2. SizeType /\ BlockInv /\ [Next]_vars => SizeType' /\ BlockInv'
  BY SizeTypeStep, BlockStep
<1>3. SizeType /\ BlockInv /\ [Next]_vars => [Advances]_vars
  <2> SUFFICES ASSUME SizeType, BlockInv, Next, pc \in {"order", "reorder"},
                      size <= Pow2[Width - 1], pc' = pc
               PROVE  order' = order + 1 /\ order' < Width
    BY DEF Advances
  <2>1. OrderedSize
    BY DEF Next, ZeroSize, MinChunkSizeCheck, AlignmentAdjust, OneChunk, After, Done
  <2>2. size \in Nat /\ order \in 0..(Width - 1) /\ Width \in Nat \ {0}
    BY Config, Constants DEF SizeType, Word
  <2>3. ~(OrderSize(order) >= size) /\ order' = (order + 1) % Width
    BY <2>1 DEF OrderedSize, OrderSize, After
  <2>4. \A j \in 0..(order - 1) : OrderSize(j) < size
    BY <2>1 DEF BlockInv, OrderedSize
  <2>5. order + 1 < Width
    <3> SUFFICES ASSUME order = Width - 1 PROVE FALSE
      BY <2>2
    <3>1. PICK j \in 0..(Width - 1) : OrderSize(j) = Pow2[Width - 1]
      BY HalfIsTried
    <3>2. OrderSize(j) >= size
      BY <3>1
    <3>3. j = order \/ j \in 0..(order - 1)
      BY <2>2
    <3>4. OrderSize(j) \in Nat
      BY <2>2, OrderSizeWord, Constants DEF Word
    <3> QED
      BY <2>2, <2>3, <2>4, <3>2, <3>3, <3>4
  <2>6. order + 1 \in Nat
    BY <2>2
  <2>7. (order + 1) % Width = order + 1
    BY <2>2, <2>5, <2>6, Remainder
  <2> QED
    BY <2>3, <2>5, <2>7
<1> QED
  BY <1>1, <1>2, <1>3, PTL DEF Spec

-----------------------------------------------------------------------------
(* The requests without an end                                             *)

\* No block of the word covers more than half of its range.
LEMMA NoneCovers ==
  ASSUME PowerOfTwo, NEW k \in Nat PROVE OrderSize(k) <= Pow2[Width - 1]
<1>1. PICK m \in Nat : MinChunk = Pow2[m]
  BY DEF PowerOfTwo
<1>2. Width - 1 \in Nat /\ Width \in Nat /\ Pow2[Width - 1] \in Nat \ {0} /\ OrderSize(k) \in Nat
  BY Config, Pow2Positive, OrderSizeWord, Constants DEF Word
<1>3. CASE OrderSize(k) = 0
  BY <1>2, <1>3
<1>4. CASE OrderSize(k) # 0
  <2>1. OrderSize(k) = Pow2[m + k] /\ Pow2[m + k] < Pow2[Width] /\ m + k \in Nat
    BY <1>1, <1>4, NoWrap, Pow2Sum
  <2>2. m + k <= Width - 1
    <3> SUFFICES ASSUME Width <= m + k PROVE FALSE
      BY <1>2, <2>1
    <3>1. Pow2[Width] <= Pow2[m + k] /\ Pow2[Width] \in Nat /\ Pow2[m + k] \in Nat
      BY <1>2, <2>1, Pow2Mono, Pow2Positive
    <3> QED
      BY <2>1, <3>1
  <2> QED
    BY <1>2, <2>1, <2>2, Pow2Mono
<1> QED
  BY <1>3, <1>4

\* Such a request keeps its size and alignment, and stays in the adjustments.
EndlessInv ==
  Endless => /\ size = req.size /\ alignment = req.alignment
             /\ pc \in {"size", "align", "realign", "order", "reorder"}
             /\ pc = "realign" => alignment < size

\* It passes the first check and never leaves the loop.
LEMMA EndlessStep == PowerOfTwo /\ SizeType /\ EndlessInv /\ [Next]_vars => EndlessInv'
<1> SUFFICES ASSUME PowerOfTwo, SizeType, EndlessInv, [Next]_vars, Endless' PROVE EndlessInv'
  BY DEF EndlessInv
<1>0. req' = req
  BY DEF Next, vars, ZeroSize, MinChunkSizeCheck, AlignmentAdjust, OneChunk, OrderedSize, Done
<1>1. Endless
  BY <1>0 DEF Endless
<1>2. /\ size = req.size /\ alignment = req.alignment
      /\ pc \in {"size", "align", "realign", "order", "reorder"}
      /\ pc = "realign" => alignment < size
  BY <1>1 DEF EndlessInv
<1>3. /\ size \in Nat /\ alignment \in Nat /\ MinChunk \in Nat /\ order \in Nat
      /\ Pow2[Width - 1] \in Nat \ {0}
  BY Config, Constants, Pow2Positive DEF SizeType, Word
<1>4. size > Pow2[Width - 1] /\ size # 0 /\ alignment # size
  BY <1>1, <1>2, <1>3 DEF Endless
<1>5. size >= MinChunk
  <2>1. OrderSize(0) = MinChunk
    <3>1. MinChunk * Pow2[0] = MinChunk /\ MinChunk < Pow2[Width] /\ Pow2[Width] \in Nat \ {0}
      BY Pow2Step, Constants DEF Word
    <3> QED
      BY <1>3, <3>1, Remainder DEF OrderSize
  <2>2. OrderSize(0) <= Pow2[Width - 1]
    BY NoneCovers
  <2> QED
    BY <1>3, <1>4, <2>1, <2>2
<1>6. ~ZeroSize /\ ~Done
  BY <1>2, <1>4 DEF ZeroSize, Done
<1>7. CASE MinChunkSizeCheck
  <2>1. size' = size /\ alignment' = alignment /\ pc' = "align"
    BY <1>1, <1>3, <1>5, <1>7 DEF MinChunkSizeCheck, Endless
  <2> QED
    BY <1>0, <1>2, <2>1 DEF EndlessInv
<1>8. CASE AlignmentAdjust
  <2>1. /\ UNCHANGED <<size, alignment>> /\ pc' \in {"order", "reorder", "realign"}
        /\ pc' = "realign" => alignment < size
    BY <1>2, <1>3, <1>4, <1>8 DEF AlignmentAdjust
  <2> QED
    BY <1>0, <1>2, <2>1 DEF EndlessInv
<1>9. ~OneChunk
  BY <1>1, <1>3, <1>5 DEF OneChunk, Endless
<1>10. CASE OrderedSize
  <2>1. ~(OrderSize(order) >= size)
    <3>1. OrderSize(order) <= Pow2[Width - 1] /\ OrderSize(order) \in Nat
      BY <1>3, NoneCovers, OrderSizeWord, Constants DEF Word
    <3> QED
      BY <1>3, <1>4, <3>1
  <2>2. UNCHANGED <<size, alignment, pc>>
    BY <1>10, <2>1 DEF OrderedSize, OrderSize
  <2> QED
    BY <1>0, <1>2, <2>2 DEF EndlessInv
<1>11. CASE UNCHANGED vars
  BY <1>0, <1>2, <1>11 DEF vars, EndlessInv
<1> QED
  BY <1>6, <1>7, <1>8, <1>9, <1>10, <1>11 DEF Next

\* A request of more than half of the range that reaches get_ordered_size is neither
\* accepted nor refused, for words of every width and every minimal chunk size that is
\* a power of two: its loop does not end (the first half of ChecksEnd).
THEOREM LoopsForEver == ASSUME PowerOfTwo PROVE Spec => []NeverDecided
<1>1. Init => SizeType /\ EndlessInv
  BY SizeInit DEF Init, EndlessInv
<1>2. SizeType /\ EndlessInv /\ [Next]_vars => SizeType' /\ EndlessInv'
  BY SizeTypeStep, EndlessStep
<1>3. EndlessInv => NeverDecided
  BY DEF EndlessInv, NeverDecided
<1> QED
  BY <1>1, <1>2, <1>3, PTL DEF Spec
=============================================================================
