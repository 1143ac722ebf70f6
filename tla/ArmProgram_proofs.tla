------------------------- MODULE ArmProgram_proofs -------------------------
(***************************************************************************)
(* What the comparisons and the arithmetic on two words compute, for words *)
(* of every width and programs of every length.  TLC checks the same on    *)
(* words of four bits.                                                     *)
(***************************************************************************)
EXTENDS ArmProgram, SequenceTheorems, TLAPS

-----------------------------------------------------------------------------
(* Words.                                                                  *)

\* The range of a word.
LEMMA WordRange ==
  H \in Nat /\ H > 0 /\ M \in Nat /\ M = 2 * H /\ (\A x : x \in Word <=> x \in Nat /\ x < M)
BY WordAssumption DEF M, Word

\* Quotient and remainder of a sum of two words, as the 64-bit sums of
\* arm_isa.cpp find them.
LEMMA ModOnce ==
  ASSUME NEW m \in Nat, m > 0, NEW x \in Nat, x < 2 * m
  PROVE  /\ x < m => x % m = x /\ x \div m = 0
         /\ x >= m => x % m = x - m /\ x \div m = 1
OBVIOUS

\* A number of the range that differs by no or one period is the remainder.
LEMMA ModUnique ==
  ASSUME NEW m \in Nat, m > 0, NEW y \in Nat, y < m, NEW x \in Int, x = y \/ x = y - m
  PROVE  x % m = y
OBVIOUS

\* The flags after a subtraction, one by one.
LEMMA SubFlagFields ==
  ASSUME NEW a, NEW b, NEW nb
  PROVE  /\ SubFlags(a, b, nb).N <=> Sign((a + nb) % M)
         /\ SubFlags(a, b, nb).Z <=> (a + nb) % M = 0
         /\ SubFlags(a, b, nb).C <=> ~(b > a)
         /\ SubFlags(a, b, nb).V <=> Overflow(a, nb, (a + nb) % M)
         /\ SubFlags(a, b, nb).C \in BOOLEAN /\ SubFlags(a, b, nb).V \in BOOLEAN
<1> DEFINE f == SubFlags(a, b, nb)
           n == Sign((a + nb) % M)
           z == (a + nb) % M = 0
           c == ~(b > a)
           v == Overflow(a, nb, (a + nb) % M)
<1>1. f = [N |-> n, Z |-> z, C |-> c, V |-> v]
  BY DEF SubFlags
<1> HIDE DEF f, n, z, c, v
<1>2. f.N = n /\ f.Z = z /\ f.C = c /\ f.V = v
  BY <1>1
<1>3. c \in BOOLEAN /\ v \in BOOLEAN
  BY DEF c, v, Overflow
<1> QED BY <1>2, <1>3, Zenon DEF f, n, z, c, v

\* The carry and the overflow after an addition.
LEMMA AddFlagFields ==
  ASSUME NEW a, NEW b, NEW sum
  PROVE  /\ AddFlags(a, b, sum).C <=> sum \div M # 0
         /\ AddFlags(a, b, sum).V <=> Overflow(a, b, sum % M)
         /\ AddFlags(a, b, sum).C \in BOOLEAN /\ AddFlags(a, b, sum).V \in BOOLEAN
<1> DEFINE f == AddFlags(a, b, sum)
           n == Sign(sum % M)
           z == sum % M = 0
           c == sum \div M # 0
           v == Overflow(a, b, sum % M)
<1>1. f = [N |-> n, Z |-> z, C |-> c, V |-> v]
  BY DEF AddFlags
<1> HIDE DEF f, n, z, c, v
<1>2. f.C = c /\ f.V = v
  BY <1>1
<1>3. c \in BOOLEAN /\ v \in BOOLEAN
  BY DEF c, v, Overflow
<1> QED BY <1>2, <1>3, Zenon DEF f, c, v

\* CMP (arm_isa.cpp:1608) leaves Z, C, and N and V, that tell equality, the
\* unsigned order and, but for the most negative subtrahend, the signed order.
LEMMA CompareFlags ==
  ASSUME NEW a \in Word, NEW b \in Word
  PROVE  /\ SubFlags(a, b, Minus(b)).Z <=> a = b
         /\ SubFlags(a, b, Minus(b)).C <=> a >= b
         /\ b # H => ((SubFlags(a, b, Minus(b)).N <=> SubFlags(a, b, Minus(b)).V)
                        <=> Signed(a) >= Signed(b))
<1> DEFINE x == a + Minus(b)
           r == x % M
<1>1. a \in Nat /\ b \in Nat /\ a < M /\ b < M
  BY WordRange
<1>2. Minus(b) = IF b = 0 THEN 0 ELSE M - b
  BY DEF Minus
<1>3. r = IF a >= b THEN a - b ELSE a - b + M
  <2>1. x \in Nat /\ x < 2 * M /\ x = IF b = 0 THEN a ELSE a + M - b
    BY <1>1, <1>2, WordRange
  <2>2. M \in Nat /\ M > 0
    BY WordRange
  <2> HIDE DEF x
  <2>3. (x < M => r = x) /\ (x >= M => r = x - M)
    BY <2>1, <2>2, ModOnce
  <2> QED BY <1>1, <2>1, <2>2, <2>3
<1> HIDE DEF r
<1>5. r = 0 <=> a = b
  BY <1>1, <1>3, WordRange
<1>6. b # H => ((Sign(r) <=> Overflow(a, Minus(b), r)) <=> Signed(a) >= Signed(b))
  BY <1>1, <1>2, <1>3, WordRange DEF Sign, Overflow, Signed
<1>7. /\ SubFlags(a, b, Minus(b)).Z <=> r = 0
      /\ SubFlags(a, b, Minus(b)).C <=> ~(b > a)
      /\ SubFlags(a, b, Minus(b)).N <=> Sign(r)
      /\ SubFlags(a, b, Minus(b)).V <=> Overflow(a, Minus(b), r)
  BY SubFlagFields DEF r, x
<1>8. ~(b > a) <=> a >= b
  BY <1>1
<1> QED BY <1>5, <1>6, <1>7, <1>8

\* The sum of two words and a carry: its remainder, its carry, and V.
LEMMA PlusWord ==
  ASSUME NEW a \in Word, NEW b \in Word, NEW c \in {0, 1}
  PROVE  LET sum == a + b + c IN
         /\ sum % M \in Word
         /\ sum = (sum % M) + (IF sum \div M # 0 THEN M ELSE 0)
         /\ Overflow(a, b, sum % M) <=> ~(-H <= Signed(a) + Signed(b) + c
                                         /\ Signed(a) + Signed(b) + c < H)
<1> DEFINE sum == a + b + c
           r == sum % M
           q == sum \div M
<1>1. a \in Nat /\ b \in Nat /\ a < M /\ b < M /\ H \in Nat /\ H > 0 /\ M \in Nat /\ M = 2 * H
  BY WordRange
<1>2. sum \in Nat /\ sum < 2 * M
  BY <1>1
<1>3. (sum < M => r = sum /\ q = 0) /\ (sum >= M => r = sum - M /\ q = 1)
  <2> HIDE DEF sum
  <2> QED BY <1>1, <1>2, ModOnce
<1> HIDE DEF r, q
<1>4. r \in Word /\ sum = r + (IF q # 0 THEN M ELSE 0)
  BY <1>1, <1>2, <1>3, WordRange
<1>5. Overflow(a, b, r) <=> ~(-H <= Signed(a) + Signed(b) + c /\ Signed(a) + Signed(b) + c < H)
  BY <1>1, <1>2, <1>3 DEF Sign, Overflow, Signed
<1> QED BY <1>4, <1>5 DEF r, q

\* The difference of two words and a borrow w, with the subtrahend negated
\* first as SUB and SBC (arm_isa.cpp:2649, 2370) do it.
LEMMA MinusWord ==
  ASSUME NEW a \in Word, NEW b \in Word, NEW w \in {0, 1}
  PROVE  LET nb == IF w = 0 THEN Minus(b) ELSE (Minus(b) + M - 1) % M
             r == (a + nb) % M
         IN /\ r \in Word
            /\ r = a - b - w \/ r = a - b - w + M
            /\ ~(w = 0 /\ b = H) =>
                 (Overflow(a, nb, r) <=> ~(-H <= Signed(a) - Signed(b) - w
                                           /\ Signed(a) - Signed(b) - w < H))
<1> DEFINE y == Minus(b) + M - 1
           nb == IF w = 0 THEN Minus(b) ELSE y % M
           x == a + nb
           r == x % M
<1>1. a \in Nat /\ b \in Nat /\ a < M /\ b < M /\ H \in Nat /\ H > 0 /\ M \in Nat /\ M = 2 * H
  BY WordRange
<1>2. Minus(b) = IF b = 0 THEN 0 ELSE M - b
  BY DEF Minus
<1>3. y \in Nat /\ y < 2 * M /\ y = IF b = 0 THEN M - 1 ELSE M - b + M - 1
  BY <1>1, <1>2
<1>4. (y < M => y % M = y) /\ (y >= M => y % M = y - M)
  <2> HIDE DEF y
  <2> QED BY <1>1, <1>3, ModOnce
<1>5. nb = IF w = 0 THEN (IF b = 0 THEN 0 ELSE M - b) ELSE M - 1 - b
  <2> HIDE DEF y
  <2> QED BY <1>1, <1>2, <1>3, <1>4
<1> HIDE DEF nb, y
<1>6. x \in Nat /\ x < 2 * M /\ nb \in Nat /\ nb < M
  BY <1>1, <1>5
<1>7. (x < M => r = x) /\ (x >= M => r = x - M)
  <2> HIDE DEF x
  <2> QED BY <1>1, <1>6, ModOnce
<1> HIDE DEF r
<1>8. r \in Word /\ (r = a - b - w \/ r = a - b - w + M)
  BY <1>1, <1>5, <1>6, <1>7, WordRange
<1>9. ~(w = 0 /\ b = H) =>
        (Overflow(a, nb, r) <=> ~(-H <= Signed(a) - Signed(b) - w /\ Signed(a) - Signed(b) - w < H))
  BY <1>1, <1>5, <1>6, <1>7 DEF Sign, Overflow, Signed
<1> QED BY <1>8, <1>9 DEF r, x, nb, y

-----------------------------------------------------------------------------
(* Two words.                                                              *)

\* Multiplication by a natural number keeps the order.
LEMMA TimesMonotone ==
  ASSUME NEW m \in Nat, NEW x \in Int, NEW y \in Int, x <= y
  PROVE  m * x \in Int /\ m * y \in Int /\ m * x <= m * y
<1>1. y - x \in Nat /\ y = x + (y - x)
  OBVIOUS
<1>2. m * (y - x) \in Nat /\ m * y = m * x + m * (y - x)
  BY <1>1
<1>3. m * x \in Int /\ m * y \in Int
  OBVIOUS
<1> QED BY <1>2, <1>3

\* A low word does not change whether the high part fits.
LEMMA WideFits ==
  ASSUME NEW l \in Word, NEW S \in Int
  PROVE  l + M * S \in WideRange <=> -H <= S /\ S < H
<1>1. l \in Nat /\ l < M /\ H \in Nat /\ H > 0 /\ M \in Nat /\ M > 0
  BY WordRange
<1> DEFINE P == M * S
           Q == M * H
<1>2. P \in Int /\ Q \in Nat
  BY <1>1
<1>3. M * (-H) = -Q /\ M * (H - 1) = Q - M /\ M * (-H - 1) = -Q - M
  BY <1>1
<1>4. -H <= S => -Q <= P
  BY <1>1, <1>3, TimesMonotone
<1>5. S <= H - 1 => P <= Q - M
  BY <1>1, <1>3, TimesMonotone
<1>6. S >= H => P >= Q
  BY <1>1, TimesMonotone
<1>7. S <= -H - 1 => P <= -Q - M
  BY <1>1, <1>3, TimesMonotone
<1>8. l + P \in WideRange <=> -Q <= l + P /\ l + P <= Q - 1
  BY <1>1, <1>2 DEF WideRange
<1> HIDE DEF P, Q
<1>9. l + P \in WideRange <=> -H <= S /\ S < H
  BY <1>1, <1>2, <1>4, <1>5, <1>6, <1>7, <1>8
<1> QED BY <1>9 DEF P

\* Two words as a signed number.
LEMMA SignedOfWide ==
  ASSUME NEW x0 \in Word, NEW x1 \in Word
  PROVE  /\ Wide(x0, x1) \in Nat /\ Wide(x0, x1) < M * M
         /\ SignedWide(Wide(x0, x1)) = x0 + M * Signed(x1)
<1>1. x0 \in Nat /\ x0 < M /\ x1 \in Nat /\ x1 < M /\ H \in Nat /\ H > 0 /\ M \in Nat /\ M > 0
  BY WordRange
<1> DEFINE P == M * x1
           Q == M * H
           R == M * M
<1>2. P \in Nat /\ Q \in Nat /\ R \in Nat
  BY <1>1
<1>3. M * (x1 - M) = P - R /\ M * (M - 1) = R - M /\ M * (H - 1) = Q - M
  BY <1>1
<1>4. P <= R - M
  BY <1>1, <1>3, TimesMonotone
<1>5. x1 >= H => P >= Q
  BY <1>1, TimesMonotone
<1>6. x1 <= H - 1 => P <= Q - M
  BY <1>1, <1>3, TimesMonotone
<1>7. M * Signed(x1) = IF x1 >= H THEN P - R ELSE P
  BY <1>3 DEF Signed
<1>8. SignedWide(Wide(x0, x1)) = IF Wide(x0, x1) >= Q THEN Wide(x0, x1) - R ELSE Wide(x0, x1)
  BY DEF SignedWide
<1>9. Wide(x0, x1) = x0 + P
  BY DEF Wide
<1> HIDE DEF P, Q, R
<1>10. Wide(x0, x1) \in Nat /\ Wide(x0, x1) < R /\ SignedWide(Wide(x0, x1)) = x0 + M * Signed(x1)
  BY <1>1, <1>2, <1>4, <1>5, <1>6, <1>7, <1>8, <1>9
<1> QED BY <1>10 DEF R

\* A carry is 0 or 1.
LEMMA NumType == \A b : Num(b) \in {0, 1} /\ (Num(b) = 1 <=> b)
BY DEF Num

\* ADDS of the low words and ADCS (arm_isa.cpp:1203) of the high words.
LEMMA WidePlus ==
  ASSUME NEW a0 \in Word, NEW a1 \in Word, NEW b0 \in Word, NEW b1 \in Word,
         NEW f0, f0 = AddFlags(a0, b0, a0 + b0),
         NEW sum, sum = a1 + b1 + Num(f0.C),
         NEW f1, f1 = AddFlags(a1, b1, sum)
  PROVE  /\ Wide((a0 + b0) % M, sum % M) + M * M * Num(f1.C) = Wide(a0, a1) + Wide(b0, b1)
         /\ f1.V = (SignedWide(Wide(a0, a1)) + SignedWide(Wide(b0, b1)) \notin WideRange)
<1> DEFINE c0 == Num(f0.C)
           c1 == Num(f1.C)
           l == (a0 + b0) % M
           h == sum % M
<1>1. /\ a0 \in Nat /\ a1 \in Nat /\ b0 \in Nat /\ b1 \in Nat /\ H \in Nat /\ M \in Nat /\ M > 0
      /\ c0 \in {0, 1} /\ c1 \in {0, 1}
  BY WordRange, NumType
<1>2. l \in Word /\ a0 + b0 = l + M * c0
  <2>1. a0 + b0 + 0 = a0 + b0
    BY <1>1
  <2>2. l \in Word /\ a0 + b0 = l + (IF (a0 + b0) \div M # 0 THEN M ELSE 0)
    BY <2>1, PlusWord
  <2>3. c0 = IF (a0 + b0) \div M # 0 THEN 1 ELSE 0
    BY AddFlagFields DEF Num
  <2> HIDE DEF c0
  <2> QED BY <1>1, <2>2, <2>3
<1>3. /\ h \in Word /\ sum = h + M * c1
      /\ f1.V <=> ~(-H <= Signed(a1) + Signed(b1) + c0 /\ Signed(a1) + Signed(b1) + c0 < H)
  <2>1. /\ h \in Word /\ sum = h + (IF sum \div M # 0 THEN M ELSE 0)
        /\ Overflow(a1, b1, h) <=> ~(-H <= Signed(a1) + Signed(b1) + c0
                                    /\ Signed(a1) + Signed(b1) + c0 < H)
    <3>1. sum = a1 + b1 + c0
      OBVIOUS
    <3> HIDE DEF c0, h
    <3>2. LET x == a1 + b1 + c0 IN
          /\ x % M \in Word /\ x = (x % M) + (IF x \div M # 0 THEN M ELSE 0)
          /\ Overflow(a1, b1, x % M) <=> ~(-H <= Signed(a1) + Signed(b1) + c0
                                          /\ Signed(a1) + Signed(b1) + c0 < H)
      <4>1. a1 \in Word /\ b1 \in Word /\ c0 \in {0, 1}
        BY <1>1
      <4> QED BY <4>1, PlusWord
    <3> QED BY <3>1, <3>2, Zenon DEF h
  <2>2. c1 = (IF sum \div M # 0 THEN 1 ELSE 0) /\ (f1.V <=> Overflow(a1, b1, h))
    BY AddFlagFields DEF Num
  <2> HIDE DEF c1, h, c0
  <2> QED BY <1>1, <2>1, <2>2
<1>4. sum = a1 + b1 + c0 /\ Signed(a1) \in Int /\ Signed(b1) \in Int
  BY <1>1 DEF Signed
<1> HIDE DEF c0, c1, l, h
<1>5. l \in Nat /\ h \in Nat /\ sum \in Nat
  BY <1>1, <1>2, <1>3, <1>4, WordRange
<1>6. l + M * h + M * M * c1 = (a0 + M * a1) + (b0 + M * b1)
  <2> DEFINE A == M * a1
             B == M * b1
             L == M * h
             Q == M * M
             C == M * c0
  <2>1. M * sum = A + B + C
    BY <1>1, <1>4
  <2>2. M * sum = L + Q * c1
    <3>1. CASE c1 = 0
      BY <1>1, <1>3, <1>5, <3>1
    <3>2. CASE c1 = 1
      <4>1. sum = h + M /\ Q * c1 = M * M
        BY <1>1, <1>3, <1>5, <3>2
      <4>2. M * (h + M) = M * h + M * M
        BY <1>1, <1>5
      <4> QED BY <4>1, <4>2
    <3> QED BY <1>1, <3>1, <3>2
  <2>3. A \in Nat /\ B \in Nat /\ L \in Nat /\ Q * c1 \in Nat /\ C \in Nat
    BY <1>1, <1>5
  <2> DEFINE E == Q * c1
  <2>4. a0 + b0 = l + C
    BY <1>2
  <2> HIDE DEF A, B, L, C, E
  <2>5. l + L + E = (a0 + A) + (b0 + B)
    BY <1>1, <1>5, <2>1, <2>2, <2>3, <2>4 DEF E
  <2> QED BY <2>5 DEF A, B, L, C, E
<1>7. SignedWide(Wide(a0, a1)) + SignedWide(Wide(b0, b1)) = l + M * (Signed(a1) + Signed(b1) + c0)
  <2> DEFINE A == M * Signed(a1)
             B == M * Signed(b1)
             C == M * c0
  <2>1. M * (Signed(a1) + Signed(b1) + c0) = A + B + C
    BY <1>1, <1>4
  <2>2. A \in Int /\ B \in Int /\ C \in Int
    BY <1>1, <1>4
  <2>3. SignedWide(Wide(a0, a1)) = a0 + A /\ SignedWide(Wide(b0, b1)) = b0 + B
    BY SignedOfWide
  <2>4. a0 + b0 = l + C
    BY <1>2
  <2> HIDE DEF A, B, C
  <2> QED BY <1>1, <1>5, <2>1, <2>2, <2>3, <2>4
<1>8. Signed(a1) + Signed(b1) + c0 \in Int
  BY <1>1, <1>4
<1>9. f1.V <=> SignedWide(Wide(a0, a1)) + SignedWide(Wide(b0, b1)) \notin WideRange
  BY <1>2, <1>3, <1>7, <1>8, WideFits
<1>10. f1.V \in BOOLEAN
  BY AddFlagFields
<1> QED BY <1>6, <1>9, <1>10 DEF Wide, l, h, c1

\* SUBS of the low words and SBCS of the high words: the difference, and the
\* cases in which C and V are those of the difference of 64 bits.
LEMMA WideLess ==
  ASSUME NEW a0 \in Word, NEW a1 \in Word, NEW b0 \in Word, NEW b1 \in Word,
         NEW f0, f0 = SubFlags(a0, b0, Minus(b0)),
         NEW nb, nb = IF f0.C THEN Minus(b1) ELSE (Minus(b1) + M - 1) % M,
         NEW f1, f1 = SubFlags(a1, b1, nb)
  PROVE  /\ Wide((a0 + Minus(b0)) % M, (a1 + nb) % M) = (Wide(a0, a1) - Wide(b0, b1)) % (M * M)
         /\ ~(a0 < b0 /\ a1 = b1) => f1.C = (Wide(a0, a1) >= Wide(b0, b1))
         /\ ~(a0 >= b0 /\ b1 = H) =>
              f1.V = (SignedWide(Wide(a0, a1)) - SignedWide(Wide(b0, b1)) \notin WideRange)
<1> DEFINE w == IF a0 < b0 THEN 1 ELSE 0
           l == (a0 + Minus(b0)) % M
           h == (a1 + nb) % M
<1>1. /\ a0 \in Nat /\ a1 \in Nat /\ b0 \in Nat /\ b1 \in Nat /\ H \in Nat /\ M \in Nat /\ M > 0
      /\ a0 < M /\ b0 < M /\ a1 < M /\ b1 < M /\ w \in {0, 1}
  BY WordRange
<1>2. (f0.C <=> w = 0) /\ nb = IF w = 0 THEN Minus(b1) ELSE (Minus(b1) + M - 1) % M
  <2>1. f0.C <=> ~(b0 > a0)
    BY SubFlagFields
  <2>2. ~(b0 > a0) <=> w = 0
    BY <1>1
  <2> QED BY <2>1, <2>2
<1>3. l \in Word /\ l = a0 - b0 + M * w
  <2>1. l \in Word /\ (l = a0 - b0 - 0 \/ l = a0 - b0 - 0 + M)
    BY MinusWord
  <2>2. l \in Nat /\ l < M
    BY <2>1, WordRange
  <2> HIDE DEF l
  <2> QED BY <1>1, <2>1, <2>2
<1> HIDE DEF w, l
<1>4. /\ h \in Word /\ (h = a1 - b1 - w \/ h = a1 - b1 - w + M)
      /\ ~(w = 0 /\ b1 = H) =>
           (f1.V <=> ~(-H <= Signed(a1) - Signed(b1) - w /\ Signed(a1) - Signed(b1) - w < H))
  <2>1. /\ h \in Word /\ (h = a1 - b1 - w \/ h = a1 - b1 - w + M)
        /\ ~(w = 0 /\ b1 = H) =>
             (Overflow(a1, nb, h) <=> ~(-H <= Signed(a1) - Signed(b1) - w
                                        /\ Signed(a1) - Signed(b1) - w < H))
    <3> HIDE DEF h
    <3>1. LET n == IF w = 0 THEN Minus(b1) ELSE (Minus(b1) + M - 1) % M
              r == (a1 + n) % M
          IN /\ r \in Word
             /\ r = a1 - b1 - w \/ r = a1 - b1 - w + M
             /\ ~(w = 0 /\ b1 = H) =>
                  (Overflow(a1, n, r) <=> ~(-H <= Signed(a1) - Signed(b1) - w
                                            /\ Signed(a1) - Signed(b1) - w < H))
      BY <1>1, MinusWord, Zenon
    <3> QED BY <1>2, <3>1, Zenon DEF h
  <2>2. f1.V <=> Overflow(a1, nb, h)
    BY SubFlagFields
  <2> QED BY <2>1, <2>2
<1> HIDE DEF h
<1>5. l \in Nat /\ l < M /\ h \in Nat /\ h < M /\ Signed(a1) \in Int /\ Signed(b1) \in Int
  BY <1>1, <1>3, <1>4, WordRange DEF Signed
<1>6. Wide(l, h) = (Wide(a0, a1) - Wide(b0, b1)) % (M * M)
  <2> DEFINE A == M * a1
             B == M * b1
             L == M * h
             Q == M * M
             C == M * w
  <2>1. A \in Nat /\ B \in Nat /\ L \in Nat /\ Q \in Nat /\ C \in Nat /\ Q > 0
    BY <1>1, <1>5
  <2>2. L = A - B - C \/ L = A - B - C + Q
    BY <1>1, <1>4, <1>5
  <2>3. l = a0 - b0 + C
    BY <1>3
  <2>4. Wide(l, h) = l + L /\ Wide(a0, a1) = a0 + A /\ Wide(b0, b1) = b0 + B
    BY DEF Wide
  <2>5. Wide(l, h) \in Nat /\ Wide(l, h) < Q
    BY <1>3, <1>4, SignedOfWide
  <2> DEFINE D == Wide(a0, a1) - Wide(b0, b1)
  <2>6. D \in Int /\ (D = Wide(l, h) \/ D = Wide(l, h) - Q)
    <3> HIDE DEF A, B, L, Q, C
    <3> QED BY <1>1, <1>5, <2>1, <2>2, <2>3, <2>4
  <2> HIDE DEF D, Q
  <2>7. D % Q = Wide(l, h)
    BY <2>1, <2>5, <2>6, ModUnique
  <2> QED BY <2>7 DEF D, Q
<1>7. ~(a0 < b0 /\ a1 = b1) => (f1.C <=> Wide(a0, a1) >= Wide(b0, b1))
  <2> DEFINE A == M * a1
             B == M * b1
  <2>1. A \in Nat /\ B \in Nat /\ M * (a1 + 1) = A + M /\ M * (b1 + 1) = B + M
    BY <1>1
  <2>2. (a1 + 1 <= b1 => A + M <= B) /\ (b1 + 1 <= a1 => B + M <= A)
    BY <1>1, <2>1, TimesMonotone
  <2>3. f1.C <=> ~(b1 > a1)
    BY SubFlagFields
  <2>4. Wide(a0, a1) = a0 + A /\ Wide(b0, b1) = b0 + B
    BY DEF Wide
  <2>5. a1 = b1 => A = B
    OBVIOUS
  <2> HIDE DEF A, B
  <2> QED BY <1>1, <2>1, <2>2, <2>3, <2>4, <2>5
<1>8. SignedWide(Wide(a0, a1)) - SignedWide(Wide(b0, b1)) = l + M * (Signed(a1) - Signed(b1) - w)
  <2> DEFINE A == M * Signed(a1)
             B == M * Signed(b1)
             C == M * w
  <2>1. M * (Signed(a1) - Signed(b1) - w) = A - B - C
    BY <1>1, <1>5
  <2>2. A \in Int /\ B \in Int /\ C \in Int
    BY <1>1, <1>5
  <2>3. SignedWide(Wide(a0, a1)) = a0 + A /\ SignedWide(Wide(b0, b1)) = b0 + B
    BY SignedOfWide
  <2>4. l = a0 - b0 + C
    BY <1>3
  <2> HIDE DEF A, B, C
  <2> QED BY <1>1, <1>5, <2>1, <2>2, <2>3, <2>4
<1>9. ~(a0 >= b0 /\ b1 = H) =>
        (f1.V <=> SignedWide(Wide(a0, a1)) - SignedWide(Wide(b0, b1)) \notin WideRange)
  <2>1. Signed(a1) - Signed(b1) - w \in Int
    BY <1>1, <1>5
  <2>2. a0 >= b0 <=> w = 0
    BY <1>1 DEF w
  <2> QED BY <1>3, <1>4, <1>8, <2>1, <2>2, WideFits
<1>10. f1.V \in BOOLEAN /\ f1.C \in BOOLEAN
  BY SubFlagFields
<1> QED BY <1>6, <1>7, <1>9, <1>10 DEF l, h

-----------------------------------------------------------------------------
(* Programs.                                                               *)

Snapshot == [RB |-> RB, flags |-> flags, mem |-> mem]

\* what instruction i makes of the registers and flags in b
Performs(i, b, a) ==
  LET x == b.RB[i.rn]
      y == ShifterOperand(i, b.RB, b.flags).val
      lessBorrow(v) == IF b.flags.C THEN Minus(v) ELSE (Minus(v) + M - 1) % M
      writes(r, f) == a.RB = [b.RB EXCEPT ![i.rd] = r] /\ (i.s => a.flags = f)
  IN /\ i.op = "CMP" => a.flags = SubFlags(x, y, Minus(y))
     /\ i.op = "ADD" => writes((x + y) % M, AddFlags(x, y, x + y))
     /\ i.op = "ADC" => LET sum == x + y + Num(b.flags.C) IN writes(sum % M, AddFlags(x, y, sum))
     /\ i.op = "SUB" => writes((x + Minus(y)) % M, SubFlags(x, y, Minus(y)))
     /\ i.op = "RSB" => writes((y + Minus(x)) % M, SubFlags(y, x, Minus(x)))
     /\ i.op = "SBC" => writes((x + lessBorrow(y)) % M, SubFlags(x, y, lessBorrow(y)))
     /\ i.op = "RSC" => writes((y + lessBorrow(x)) % M, SubFlags(y, x, lessBorrow(x)))

\* The history is what happened: an instruction ran if its condition held, and
\* then led from one entry to the next.
Trace ==
  /\ at \in Nat \ {0} /\ hist \in Seq({hist[k] : k \in DOMAIN hist}) /\ ran \in Seq(BOOLEAN)
  /\ Len(hist) = at - 1 /\ Len(ran) = at - 1
  /\ \A k \in 1..(at - 1) :
       /\ ran[k] <=> Passes(prog[k].cond, hist[k].flags)
       /\ ran[k] => Performs(prog[k], hist[k], After(k))

\* A sequence and one element more.
LEMMA OneMore ==
  ASSUME NEW s, s \in Seq({s[k] : k \in DOMAIN s}), NEW e, NEW t, t = Append(s, e)
  PROVE  /\ t \in Seq({t[k] : k \in DOMAIN t}) /\ Len(s) \in Nat /\ Len(t) = Len(s) + 1
         /\ t[Len(s) + 1] = e /\ \A k \in 1..Len(s) : t[k] = s[k]
<1> DEFINE S == {s[k] : k \in DOMAIN s} \cup {e}
<1>1. s \in Seq(S) /\ Len(s) \in Nat /\ DOMAIN s = 1..Len(s)
  OBVIOUS
<1>2. e \in S
  OBVIOUS
<1> HIDE DEF S
<1>3. /\ t \in Seq(S) /\ Len(t) = Len(s) + 1 /\ t[Len(s) + 1] = e
      /\ \A k \in 1..Len(s) : t[k] = s[k]
  BY <1>1, <1>2, AppendProperties
<1>4. t \in Seq({t[k] : k \in DOMAIN t})
  <2>1. Len(t) \in Nat /\ t \in [1..Len(t) -> S] /\ DOMAIN t = 1..Len(t)
    BY <1>3, LenProperties
  <2> DEFINE T == {t[k] : k \in DOMAIN t}
  <2>2. t \in [1..Len(t) -> T]
    BY <2>1
  <2> HIDE DEF T
  <2>3. t \in Seq(T)
    <3> DEFINE n == Len(t)
    <3>1. n \in Nat /\ t \in [1..n -> T]
      BY <2>1, <2>2
    <3> HIDE DEF n
    <3>2. t \in UNION {[1..m -> T] : m \in Nat}
      BY <3>1
    <3> QED BY <3>2, SeqDef, Zenon
  <2> QED BY <2>3 DEF T
<1> QED BY <1>1, <1>3, <1>4

\* An instruction executed is one of those Performs describes, or another.
LEMMA ExecutePerforms ==
  ASSUME execute
  PROVE  Performs(Instr, Snapshot, Snapshot')
<1>1. /\ Snapshot.RB = RB /\ Snapshot.flags = flags
      /\ Snapshot'.RB = RB' /\ Snapshot'.flags = flags'
  BY DEF Snapshot
<1> DEFINE i == Instr
           x == RB[i.rn]
           y == ShifterOperand(i, RB, flags).val
<1>2. data_processing \/ multiply \/ bit_field \/ load_store
  BY DEF execute
<1>3. i.op = "CMP" => CMP(i)
  BY <1>2 DEF data_processing, multiply, bit_field, load_store, is
<1>4. i.op = "ADD" => ADD(i)
  BY <1>2 DEF data_processing, multiply, bit_field, load_store, is
<1>5. i.op = "ADC" => ADC(i)
  BY <1>2 DEF data_processing, multiply, bit_field, load_store, is
<1>6. i.op = "SUB" => SUB(i)
  BY <1>2 DEF data_processing, multiply, bit_field, load_store, is
<1>7. i.op = "RSB" => RSB(i)
  BY <1>2 DEF data_processing, multiply, bit_field, load_store, is
<1>8. i.op = "SBC" => SBC(i)
  BY <1>2 DEF data_processing, multiply, bit_field, load_store, is
<1>9. i.op = "RSC" => RSC(i)
  BY <1>2 DEF data_processing, multiply, bit_field, load_store, is
<1>10. Rn(i) = x /\ Shiftop(i) = y /\ \A v : MinusBorrow(v) =
         IF flags.C THEN Minus(v) ELSE (Minus(v) + M - 1) % M
  BY DEF Rn, Shiftop, MinusBorrow
<1> HIDE DEF i, x, y
<1> DEFINE writes(r, f) == RB' = [RB EXCEPT ![i.rd] = r] /\ (i.s => flags' = f)
           lessBorrow(v) == IF flags.C THEN Minus(v) ELSE (Minus(v) + M - 1) % M
<1>11. i.op = "CMP" => flags' = SubFlags(x, y, Minus(y))
  BY <1>3, <1>10 DEF CMP, Compare
<1>12. i.op = "ADD" => writes((x + y) % M, AddFlags(x, y, x + y))
  BY <1>4, <1>10 DEF ADD, Set
<1>13. i.op = "ADC" =>
         LET sum == x + y + Num(flags.C) IN writes(sum % M, AddFlags(x, y, sum))
  BY <1>5, <1>10 DEF ADC, Set
<1>14. i.op = "SUB" => writes((x + Minus(y)) % M, SubFlags(x, y, Minus(y)))
  BY <1>6, <1>10 DEF SUB, Subtract, Set
<1>15. i.op = "RSB" => writes((y + Minus(x)) % M, SubFlags(y, x, Minus(x)))
  BY <1>7, <1>10 DEF RSB, Subtract, Set
<1>16. i.op = "SBC" => writes((x + lessBorrow(y)) % M, SubFlags(x, y, lessBorrow(y)))
  BY <1>8, <1>10 DEF SBC, Subtract, Set
<1>17. i.op = "RSC" => writes((y + lessBorrow(x)) % M, SubFlags(y, x, lessBorrow(x)))
  BY <1>9, <1>10 DEF RSC, Subtract, Set
<1> QED BY <1>1, <1>11, <1>12, <1>13, <1>14, <1>15, <1>16, <1>17, Zenon DEF Performs, i, x, y

\* A step appends to the history what it starts from, and leaves what is there.
LEMMA HistoryGrows ==
  ASSUME Trace, NEW e \in BOOLEAN, fetch(e)
  PROVE  /\ at' \in Nat \ {0} /\ hist' \in Seq({hist'[k] : k \in DOMAIN hist'})
         /\ ran' \in Seq(BOOLEAN) /\ Len(hist') = at' - 1 /\ Len(ran') = at' - 1
         /\ at' - 1 = at /\ prog' = prog /\ hist'[at] = Snapshot /\ ran'[at] = e
         /\ \A k \in {at} : After(k)' = Snapshot'
         /\ \A k \in 1..(at - 1) : /\ hist'[k] = hist[k] /\ ran'[k] = ran[k]
                                   /\ After(k)' = After(k)
<1>1. /\ at' = at + 1 /\ hist' = Append(hist, Snapshot) /\ ran' = Append(ran, e) /\ prog' = prog
  BY DEF fetch, Snapshot
<1>2. /\ at \in Nat /\ at # 0 /\ hist \in Seq({hist[k] : k \in DOMAIN hist})
      /\ ran \in Seq(BOOLEAN) /\ Len(hist) = at - 1 /\ Len(ran) = at - 1
  BY DEF Trace
<1>3. /\ hist' \in Seq({hist'[k] : k \in DOMAIN hist'}) /\ Len(hist') = Len(hist) + 1
      /\ hist'[Len(hist) + 1] = Snapshot /\ \A k \in 1..Len(hist) : hist'[k] = hist[k]
  BY <1>1, <1>2, OneMore
<1>4. /\ ran' \in Seq(BOOLEAN) /\ Len(ran') = Len(ran) + 1 /\ ran'[Len(ran) + 1] = e
      /\ \A k \in 1..Len(ran) : ran'[k] = ran[k]
  BY <1>1, <1>2, AppendProperties
<1>5. Len(hist) + 1 = at /\ Len(ran) + 1 = at /\ at' \in Nat \ {0} /\ at' - 1 = at
  BY <1>1, <1>2
<1>6. ASSUME NEW k \in {at} PROVE After(k)' = Snapshot'
  BY <1>1, <1>2 DEF After, Snapshot
<1>7. ASSUME NEW k \in 1..(at - 1) PROVE After(k)' = After(k)
  <2>1. After(k)' = hist'[k + 1]
    BY <1>1, <1>2 DEF After
  <2>2. CASE k + 1 < at
    <3>1. k + 1 \in 1..Len(hist)
      BY <1>2, <2>2
    <3> QED BY <1>3, <2>1, <2>2, <3>1 DEF After
  <2>3. CASE k + 1 = at
    <3>1. After(k) = Snapshot
      BY <1>2, <2>3 DEF After, Snapshot
    <3> QED BY <1>3, <1>5, <2>1, <2>3, <3>1
  <2> QED BY <1>2, <2>2, <2>3
<1> QED BY <1>1, <1>2, <1>3, <1>4, <1>5, <1>6, <1>7

\* Every step keeps the history true.
LEMMA TraceKept ==
  ASSUME Trace, [ProgNext]_progVars
  PROVE  Trace'
<1>1. CASE UNCHANGED progVars
  BY <1>1 DEF Trace, progVars, After
<1>2. ASSUME NEW e \in BOOLEAN, fetch(e), e <=> Passes(Instr.cond, flags),
             e => Performs(Instr, Snapshot, Snapshot')
      PROVE  Trace'
  <2>1. /\ at' \in Nat \ {0} /\ hist' \in Seq({hist'[k] : k \in DOMAIN hist'})
        /\ ran' \in Seq(BOOLEAN) /\ Len(hist') = at' - 1 /\ Len(ran') = at' - 1
        /\ at' - 1 = at /\ prog' = prog /\ hist'[at] = Snapshot /\ ran'[at] = e
        /\ \A k \in {at} : After(k)' = Snapshot'
        /\ \A k \in 1..(at - 1) : /\ hist'[k] = hist[k] /\ ran'[k] = ran[k]
                                  /\ After(k)' = After(k)
    BY <1>2, HistoryGrows
  <2>2. ASSUME NEW k \in 1..(at' - 1)
        PROVE  /\ ran'[k] <=> Passes(prog'[k].cond, hist'[k].flags)
               /\ ran'[k] => Performs(prog'[k], hist'[k], After(k)')
    <3>1. CASE k = at
      <4>1. Instr = prog[at] /\ Snapshot.flags = flags
        BY DEF Instr, Snapshot
      <4>2. prog'[k] = Instr /\ hist'[k] = Snapshot /\ ran'[k] = e /\ After(k)' = Snapshot'
        BY <2>1, <3>1, <4>1
      <4> QED BY <1>2, <4>1, <4>2, Zenon
    <3>2. CASE k \in 1..(at - 1)
      <4>1. /\ ran[k] <=> Passes(prog[k].cond, hist[k].flags)
            /\ ran[k] => Performs(prog[k], hist[k], After(k))
        BY <3>2 DEF Trace
      <4> QED BY <2>1, <3>2, <4>1
    <3>3. k = at \/ k \in 1..(at - 1)
      <4>1. at \in Nat
        BY DEF Trace
      <4>2. k \in 1..at
        BY <2>1
      <4> QED BY <4>1, <4>2
    <3> QED BY <3>1, <3>2, <3>3
  <2> QED BY <2>1, <2>2 DEF Trace
<1>3. CASE annul
  BY <1>2, <1>3 DEF annul
<1>4. CASE execute
  <2>1. fetch(TRUE) /\ Passes(Instr.cond, flags) /\ Performs(Instr, Snapshot, Snapshot')
    BY <1>4, ExecutePerforms DEF execute
  <2> QED BY <1>2, <2>1
<1> QED BY <1>1, <1>3, <1>4 DEF ProgNext

\* The history is true throughout a program.
LEMMA TraceInvariant ==
  ProgSpec => []Trace
<1>1. ProgInit => Trace
  BY DEF ProgInit, Trace
<1>2. Trace /\ [ProgNext]_progVars => Trace'
  BY TraceKept
<1> QED BY <1>1, <1>2, PTL DEF ProgSpec

-----------------------------------------------------------------------------
(* What the instructions that ran have computed.                           *)

\* Entry k of the history and the one after it.
LEMMA Entry ==
  ASSUME Trace, WordOperands, NEW k \in DOMAIN ran, ran[k], prog[k].op \in Arithmetic
  PROVE  /\ k \in 1..(at - 1) /\ First(k) \in Word /\ Second(k) \in Word
         /\ prog[k].rd \in DOMAIN hist[k].RB /\ Performs(prog[k], hist[k], After(k))
         /\ k + 1 < at => After(k) = hist[k + 1]
<1>1. k \in 1..(at - 1)
  BY DEF Trace
<1> QED BY <1>1 DEF Trace, WordOperands, After

\* A value equal to a comparison of integers is a truth value.
LEMMA OrderTruth ==
  ASSUME NEW R, NEW x \in Int, NEW y \in Int
  PROVE  /\ R = (x >= y) => (R <=> x >= y) /\ R \in BOOLEAN
         /\ R = (x < y) => (R <=> x < y) /\ R \in BOOLEAN
         /\ R = (x > y) => (R <=> x > y) /\ R \in BOOLEAN
         /\ R = (x <= y) => (R <=> x <= y) /\ R \in BOOLEAN
<1>1. (x >= y) \in BOOLEAN /\ (x < y) \in BOOLEAN /\ (x > y) \in BOOLEAN /\ (x <= y) \in BOOLEAN
  BY SMT
<1> QED BY <1>1, Zenon

\* The condition of an instruction after CMP tests what the condition names.
LEMMA ConditionTests ==
  ASSUME NEW a \in Word, NEW b \in Word, NEW cond \in Relations, cond \in Signeds => b # H,
         NEW f, f = SubFlags(a, b, Minus(b))
  PROVE  (Passes(cond, f) <=> Relation(cond, a, b)) /\ Relation(cond, a, b) \in BOOLEAN
<1>1. (f.Z <=> a = b) /\ (f.C <=> a >= b)
  BY CompareFlags
<1>2. cond \in Signeds => ((f.N <=> f.V) <=> Signed(a) >= Signed(b))
  BY CompareFlags
<1>3. /\ a \in Nat /\ b \in Nat /\ Signed(a) \in Int /\ Signed(b) \in Int
      /\ a = b <=> Signed(a) = Signed(b)
  BY WordRange DEF Signed
<1>4. (f.N = f.V) <=> (f.N <=> f.V)
  <2> DEFINE r == (a + Minus(b)) % M
  <2>1. f.N = Sign(r) /\ f.V = Overflow(a, Minus(b), r)
    BY DEF SubFlags
  <2>2. f.N \in BOOLEAN /\ f.V \in BOOLEAN
    BY <2>1 DEF Sign, Overflow
  <2> QED BY <2>2
<1>5. /\ (a # b <=> ~(a = b)) /\ (a < b <=> ~(a >= b))
      /\ (a > b <=> a >= b /\ ~(a = b)) /\ (a <= b <=> (~(a >= b) \/ a = b))
  BY <1>3
<1>6. LET s == Signed(a) >= Signed(b) IN
      /\ (Signed(a) < Signed(b) <=> ~s) /\ (Signed(a) > Signed(b) <=> s /\ ~(a = b))
      /\ (Signed(a) <= Signed(b) <=> (~s \/ a = b))
  BY <1>3
<1>7. CASE cond = "EQ"
  <2>1. Passes("EQ", f) <=> (f.Z)
    BY DEF Passes
  <2>2. Relation("EQ", a, b) = (a = b)
    BY DEF Relation
  <2>3. (Relation("EQ", a, b) <=> a = b) /\ Relation("EQ", a, b) \in BOOLEAN
    BY <1>3, <2>2
  <2>4. (f.Z) <=> (a = b)
    BY <1>1, <1>5
  <2> QED BY <1>7, <2>1, <2>3, <2>4, Zenon
<1>8. CASE cond = "NE"
  <2>1. Passes("NE", f) <=> (~f.Z)
    BY DEF Passes
  <2>2. Relation("NE", a, b) = (a # b)
    BY DEF Relation
  <2>3. (Relation("NE", a, b) <=> a # b) /\ Relation("NE", a, b) \in BOOLEAN
    BY <1>3, <2>2
  <2>4. (~f.Z) <=> (a # b)
    BY <1>1, <1>5
  <2> QED BY <1>8, <2>1, <2>3, <2>4, Zenon
<1>9. CASE cond = "CS"
  <2>1. Passes("CS", f) <=> (f.C)
    BY DEF Passes
  <2>2. Relation("CS", a, b) = (a >= b)
    BY DEF Relation
  <2>3. (Relation("CS", a, b) <=> a >= b) /\ Relation("CS", a, b) \in BOOLEAN
    <3>1. a \in Int /\ b \in Int /\ Signed(a) \in Int /\ Signed(b) \in Int
      BY <1>3
    <3> QED BY <2>2, <3>1, OrderTruth, Zenon
  <2>4. (f.C) <=> (a >= b)
    BY <1>1, <1>5
  <2> QED BY <1>9, <2>1, <2>3, <2>4, Zenon
<1>10. CASE cond = "CC"
  <2>1. Passes("CC", f) <=> (~f.C)
    BY DEF Passes
  <2>2. Relation("CC", a, b) = (a < b)
    BY DEF Relation
  <2>3. (Relation("CC", a, b) <=> a < b) /\ Relation("CC", a, b) \in BOOLEAN
    <3>1. a \in Int /\ b \in Int /\ Signed(a) \in Int /\ Signed(b) \in Int
      BY <1>3
    <3> QED BY <2>2, <3>1, OrderTruth, Zenon
  <2>4. (~f.C) <=> (a < b)
    BY <1>1, <1>5
  <2> QED BY <1>10, <2>1, <2>3, <2>4, Zenon
<1>11. CASE cond = "HI"
  <2>1. Passes("HI", f) <=> (f.C /\ ~f.Z)
    BY DEF Passes
  <2>2. Relation("HI", a, b) = (a > b)
    BY DEF Relation
  <2>3. (Relation("HI", a, b) <=> a > b) /\ Relation("HI", a, b) \in BOOLEAN
    <3>1. a \in Int /\ b \in Int /\ Signed(a) \in Int /\ Signed(b) \in Int
      BY <1>3
    <3> QED BY <2>2, <3>1, OrderTruth, Zenon
  <2>4. (f.C /\ ~f.Z) <=> (a > b)
    BY <1>1, <1>5
  <2> QED BY <1>11, <2>1, <2>3, <2>4, Zenon
<1>12. CASE cond = "LS"
  <2>1. Passes("LS", f) <=> (~f.C \/ f.Z)
    BY DEF Passes
  <2>2. Relation("LS", a, b) = (a <= b)
    BY DEF Relation
  <2>3. (Relation("LS", a, b) <=> a <= b) /\ Relation("LS", a, b) \in BOOLEAN
    <3>1. a \in Int /\ b \in Int /\ Signed(a) \in Int /\ Signed(b) \in Int
      BY <1>3
    <3> QED BY <2>2, <3>1, OrderTruth, Zenon
  <2>4. (~f.C \/ f.Z) <=> (a <= b)
    BY <1>1, <1>5
  <2> QED BY <1>12, <2>1, <2>3, <2>4, Zenon
<1>13. CASE cond = "GE"
  <2>1. Passes("GE", f) <=> (f.N = f.V)
    BY DEF Passes
  <2>2. Relation("GE", a, b) = (Signed(a) >= Signed(b))
    BY DEF Relation
  <2>3. (Relation("GE", a, b) <=> Signed(a) >= Signed(b)) /\ Relation("GE", a, b) \in BOOLEAN
    <3>1. a \in Int /\ b \in Int /\ Signed(a) \in Int /\ Signed(b) \in Int
      BY <1>3
    <3> QED BY <2>2, <3>1, OrderTruth, Zenon
  <2>4. (f.N = f.V) <=> Signed(a) >= Signed(b)
    BY <1>2, <1>4, <1>13 DEF Signeds
  <2>5. (f.N = f.V) <=> (Signed(a) >= Signed(b))
    BY <1>1, <1>6, <2>4
  <2> QED BY <1>13, <2>1, <2>3, <2>5, Zenon
<1>14. CASE cond = "LT"
  <2>1. Passes("LT", f) <=> (f.N # f.V)
    BY DEF Passes
  <2>2. Relation("LT", a, b) = (Signed(a) < Signed(b))
    BY DEF Relation
  <2>3. (Relation("LT", a, b) <=> Signed(a) < Signed(b)) /\ Relation("LT", a, b) \in BOOLEAN
    <3>1. a \in Int /\ b \in Int /\ Signed(a) \in Int /\ Signed(b) \in Int
      BY <1>3
    <3> QED BY <2>2, <3>1, OrderTruth, Zenon
  <2>4. (f.N = f.V) <=> Signed(a) >= Signed(b)
    BY <1>2, <1>4, <1>14 DEF Signeds
  <2>5. (f.N # f.V) <=> (Signed(a) < Signed(b))
    BY <1>1, <1>6, <2>4
  <2> QED BY <1>14, <2>1, <2>3, <2>5, Zenon
<1>15. CASE cond = "GT"
  <2>1. Passes("GT", f) <=> (~f.Z /\ f.N = f.V)
    BY DEF Passes
  <2>2. Relation("GT", a, b) = (Signed(a) > Signed(b))
    BY DEF Relation
  <2>3. (Relation("GT", a, b) <=> Signed(a) > Signed(b)) /\ Relation("GT", a, b) \in BOOLEAN
    <3>1. a \in Int /\ b \in Int /\ Signed(a) \in Int /\ Signed(b) \in Int
      BY <1>3
    <3> QED BY <2>2, <3>1, OrderTruth, Zenon
  <2>4. (f.N = f.V) <=> Signed(a) >= Signed(b)
    BY <1>2, <1>4, <1>15 DEF Signeds
  <2>5. (~f.Z /\ f.N = f.V) <=> (Signed(a) > Signed(b))
    BY <1>1, <1>6, <2>4
  <2> QED BY <1>15, <2>1, <2>3, <2>5, Zenon
<1>16. CASE cond = "LE"
  <2>1. Passes("LE", f) <=> (f.Z \/ f.N # f.V)
    BY DEF Passes
  <2>2. Relation("LE", a, b) = (Signed(a) <= Signed(b))
    BY DEF Relation
  <2>3. (Relation("LE", a, b) <=> Signed(a) <= Signed(b)) /\ Relation("LE", a, b) \in BOOLEAN
    <3>1. a \in Int /\ b \in Int /\ Signed(a) \in Int /\ Signed(b) \in Int
      BY <1>3
    <3> QED BY <2>2, <3>1, OrderTruth, Zenon
  <2>4. (f.N = f.V) <=> Signed(a) >= Signed(b)
    BY <1>2, <1>4, <1>16 DEF Signeds
  <2>5. (f.Z \/ f.N # f.V) <=> (Signed(a) <= Signed(b))
    BY <1>1, <1>6, <2>4
  <2> QED BY <1>16, <2>1, <2>3, <2>5, Zenon
<1> QED BY <1>7, <1>8, <1>9, <1>10, <1>11, <1>12, <1>13, <1>14, <1>15, <1>16 DEF Relations, Signeds

\* For words of every width, an instruction after CMP (arm_isa.cpp:1608) runs
\* exactly when the numbers compared stand in the relation its condition names
\* (arm_isa.cpp:415), whatever the program; the signed relations for all but
\* the most negative subtrahend.
THEOREM ComparisonsDecideAlways ==
  ProgSpec => [](WordOperands => ComparisonsDecide)
<1>1. Trace => (WordOperands => ComparisonsDecide)
  <2> SUFFICES ASSUME Trace, WordOperands, NEW k \in DOMAIN ran, Ran(k, "CMP"), k + 1 < at,
                      prog[k + 1].cond \in Relations,
                      prog[k + 1].cond \in Signeds => Second(k) # H
               PROVE  ran[k + 1] = Relation(prog[k + 1].cond, First(k), Second(k))
    BY DEF ComparisonsDecide
  <2> DEFINE cond == prog[k + 1].cond
             f == hist[k + 1].flags
  <2>1. /\ k \in 1..(at - 1) /\ First(k) \in Word /\ Second(k) \in Word
        /\ Performs(prog[k], hist[k], hist[k + 1])
    BY Entry DEF Ran, Arithmetic
  <2>2. f = SubFlags(First(k), Second(k), Minus(Second(k)))
    BY <2>1 DEF Performs, Ran, First, Second, Before
  <2>3. k + 1 \in 1..(at - 1)
    BY <2>1 DEF Trace
  <2>4. (ran[k + 1] <=> Passes(cond, f)) /\ ran[k + 1] \in BOOLEAN
    BY <2>3 DEF Trace
  <2> HIDE DEF cond, f
  <2>5. cond \in Relations /\ (cond \in Signeds => Second(k) # H)
    BY DEF cond
  <2>6. /\ Passes(cond, f) <=> Relation(cond, First(k), Second(k))
        /\ Relation(cond, First(k), Second(k)) \in BOOLEAN
    BY <2>1, <2>2, <2>5, ConditionTests
  <2> QED BY <2>4, <2>6 DEF cond
<1> QED BY <1>1, TraceInvariant, PTL

\* Two arithmetic instructions in a row, the second with the flags and the
\* registers the first has left.
LEMMA PairEntries ==
  ASSUME Trace, WordOperands, NEW k \in DOMAIN ran, NEW op1 \in Arithmetic, NEW op2 \in Arithmetic,
         Pair(k, op1, op2)
  PROVE  /\ First(k) \in Word /\ Second(k) \in Word
         /\ First(k + 1) \in Word /\ Second(k + 1) \in Word
         /\ prog[k].op = op1 /\ prog[k + 1].op = op2 /\ prog[k].s /\ prog[k + 1].s
         /\ Performs(prog[k], hist[k], hist[k + 1])
         /\ Performs(prog[k + 1], hist[k + 1], After(k + 1))
         /\ \A x, y : /\ hist[k + 1].RB = [hist[k].RB EXCEPT ![prog[k].rd] = x]
                      /\ After(k + 1).RB = [hist[k + 1].RB EXCEPT ![prog[k + 1].rd] = y]
                      => WideResult(k) = Wide(x, y)
<1>1. /\ prog[k].op = op1 /\ prog[k + 1].op = op2 /\ prog[k].s /\ prog[k + 1].s
      /\ ran[k] /\ ran[k + 1] /\ k + 1 < at /\ prog[k].rd # prog[k + 1].rd
  BY DEF Pair, Ran
<1>2. k + 1 \in DOMAIN ran
  <2>1. k \in 1..(at - 1) /\ DOMAIN ran = 1..(at - 1) /\ at \in Nat
    BY DEF Trace
  <2> QED BY <1>1, <2>1
<1>3. /\ First(k) \in Word /\ Second(k) \in Word /\ prog[k].rd \in DOMAIN hist[k].RB
      /\ Performs(prog[k], hist[k], hist[k + 1])
  BY <1>1, Entry
<1>4. /\ First(k + 1) \in Word /\ Second(k + 1) \in Word
      /\ prog[k + 1].rd \in DOMAIN hist[k + 1].RB
      /\ Performs(prog[k + 1], hist[k + 1], After(k + 1))
  BY <1>1, <1>2, Entry
<1>5. ASSUME NEW x, NEW y,
             hist[k + 1].RB = [hist[k].RB EXCEPT ![prog[k].rd] = x],
             After(k + 1).RB = [hist[k + 1].RB EXCEPT ![prog[k + 1].rd] = y]
      PROVE  WideResult(k) = Wide(x, y)
  <2>1. After(k + 1).RB[prog[k + 1].rd] = y
    BY <1>4, <1>5
  <2>2. prog[k].rd \in DOMAIN hist[k + 1].RB /\ hist[k + 1].RB[prog[k].rd] = x
    BY <1>3, <1>5
  <2>3. After(k + 1).RB[prog[k].rd] = x
    BY <1>1, <1>5, <2>2
  <2> QED BY <2>1, <2>3 DEF WideResult
<1> QED BY <1>1, <1>3, <1>4, <1>5

\* ADDS, ADCS.
LEMMA WideSumHolds ==
  ASSUME Trace, WordOperands
  PROVE  WideSum
<1> SUFFICES ASSUME NEW k \in DOMAIN ran, Pair(k, "ADD", "ADC")
             PROVE  LET A == Wide(First(k), First(k + 1))
                        B == Wide(Second(k), Second(k + 1))
                    IN /\ WideResult(k) + M * M * Num(WideFlags(k).C) = A + B
                       /\ WideFlags(k).V = (SignedWide(A) + SignedWide(B) \notin WideRange)
  BY DEF WideSum
<1> DEFINE a0 == First(k)
           a1 == First(k + 1)
           b0 == Second(k)
           b1 == Second(k + 1)
           f0 == hist[k + 1].flags
           f1 == After(k + 1).flags
           sum == a1 + b1 + Num(f0.C)
<1>1. "ADD" \in Arithmetic /\ "ADC" \in Arithmetic
  BY DEF Arithmetic
<1>2. /\ a0 \in Word /\ b0 \in Word /\ a1 \in Word /\ b1 \in Word
      /\ prog[k].op = "ADD" /\ prog[k + 1].op = "ADC" /\ prog[k].s /\ prog[k + 1].s
      /\ Performs(prog[k], hist[k], hist[k + 1])
      /\ Performs(prog[k + 1], hist[k + 1], After(k + 1))
      /\ \A x, y : /\ hist[k + 1].RB = [hist[k].RB EXCEPT ![prog[k].rd] = x]
                   /\ After(k + 1).RB = [hist[k + 1].RB EXCEPT ![prog[k + 1].rd] = y]
                   => WideResult(k) = Wide(x, y)
  BY <1>1, PairEntries
<1>3. /\ f0 = AddFlags(a0, b0, a0 + b0)
      /\ hist[k + 1].RB = [hist[k].RB EXCEPT ![prog[k].rd] = (a0 + b0) % M]
  BY <1>2 DEF Performs, First, Second, Before
<1>4. /\ f1 = AddFlags(a1, b1, sum)
      /\ After(k + 1).RB = [hist[k + 1].RB EXCEPT ![prog[k + 1].rd] = sum % M]
  BY <1>2 DEF Performs, First, Second, Before
<1>5. WideResult(k) = Wide((a0 + b0) % M, sum % M) /\ WideFlags(k) = f1
  BY <1>2, <1>3, <1>4 DEF WideFlags
<1>6. sum = a1 + b1 + Num(f0.C)
  OBVIOUS
<1> HIDE DEF a0, a1, b0, b1, f0, f1, sum
<1>7. /\ Wide((a0 + b0) % M, sum % M) + M * M * Num(f1.C) = Wide(a0, a1) + Wide(b0, b1)
      /\ f1.V = (SignedWide(Wide(a0, a1)) + SignedWide(Wide(b0, b1)) \notin WideRange)
  BY <1>2, <1>3, <1>4, <1>6, WidePlus, SMTT(30)
<1> QED BY <1>5, <1>7, Zenon DEF a0, a1, b0, b1

\* SUBS, SBCS and RSBS, RSCS.
LEMMA WideDifferenceHolds ==
  ASSUME Trace, WordOperands
  PROVE  WideDifference
<1>1. {"SUB", "SBC", "RSB", "RSC"} \subseteq Arithmetic
  BY DEF Arithmetic
<1>2. ASSUME NEW k \in DOMAIN ran,
             NEW a0 \in Word, NEW a1 \in Word, NEW b0 \in Word, NEW b1 \in Word, NEW nb,
             hist[k + 1].flags = SubFlags(a0, b0, Minus(b0)),
             nb = IF hist[k + 1].flags.C THEN Minus(b1) ELSE (Minus(b1) + M - 1) % M,
             After(k + 1).flags = SubFlags(a1, b1, nb),
             WideResult(k) = Wide((a0 + Minus(b0)) % M, (a1 + nb) % M)
      PROVE  WideMinus(k, a0, a1, b0, b1)
  <2> DEFINE f0 == hist[k + 1].flags
             f1 == After(k + 1).flags
  <2>1. /\ f0 = SubFlags(a0, b0, Minus(b0)) /\ f1 = SubFlags(a1, b1, nb)
        /\ nb = IF f0.C THEN Minus(b1) ELSE (Minus(b1) + M - 1) % M
    BY <1>2
  <2>2. WideFlags(k) = f1
    BY DEF WideFlags
  <2> HIDE DEF f0, f1
  <2>3. /\ Wide((a0 + Minus(b0)) % M, (a1 + nb) % M) = (Wide(a0, a1) - Wide(b0, b1)) % (M * M)
        /\ ~(a0 < b0 /\ a1 = b1) => f1.C = (Wide(a0, a1) >= Wide(b0, b1))
        /\ ~(a0 >= b0 /\ b1 = H) =>
             f1.V = (SignedWide(Wide(a0, a1)) - SignedWide(Wide(b0, b1)) \notin WideRange)
    BY <2>1, WideLess
  <2> QED BY <1>2, <2>2, <2>3, Zenon DEF WideMinus
<1>3. ASSUME NEW k \in DOMAIN ran, Pair(k, "SUB", "SBC")
      PROVE  WideMinus(k, First(k), First(k + 1), Second(k), Second(k + 1))
  <2> DEFINE b1 == Second(k + 1)
             nb == IF hist[k + 1].flags.C THEN Minus(b1) ELSE (Minus(b1) + M - 1) % M
  <2>1. /\ First(k) \in Word /\ Second(k) \in Word /\ First(k + 1) \in Word /\ b1 \in Word
        /\ prog[k].op = "SUB" /\ prog[k + 1].op = "SBC" /\ prog[k].s /\ prog[k + 1].s
        /\ Performs(prog[k], hist[k], hist[k + 1])
        /\ Performs(prog[k + 1], hist[k + 1], After(k + 1))
        /\ \A x, y : /\ hist[k + 1].RB = [hist[k].RB EXCEPT ![prog[k].rd] = x]
                     /\ After(k + 1).RB = [hist[k + 1].RB EXCEPT ![prog[k + 1].rd] = y]
                     => WideResult(k) = Wide(x, y)
    BY <1>1, <1>3, PairEntries
  <2>2. /\ hist[k + 1].flags = SubFlags(First(k), Second(k), Minus(Second(k)))
        /\ hist[k + 1].RB = [hist[k].RB EXCEPT ![prog[k].rd] = (First(k) + Minus(Second(k))) % M]
    BY <2>1 DEF Performs, First, Second, Before
  <2>3. /\ After(k + 1).flags = SubFlags(First(k + 1), b1, nb)
        /\ After(k + 1).RB = [hist[k + 1].RB EXCEPT ![prog[k + 1].rd] = (First(k + 1) + nb) % M]
    BY <2>1 DEF Performs, First, Second, Before
  <2>4. WideResult(k) = Wide((First(k) + Minus(Second(k))) % M, (First(k + 1) + nb) % M)
    BY <2>1, <2>2, <2>3
  <2>5. nb = IF hist[k + 1].flags.C THEN Minus(b1) ELSE (Minus(b1) + M - 1) % M
    OBVIOUS
  <2> HIDE DEF nb, b1
  <2>6. WideMinus(k, First(k), First(k + 1), Second(k), b1)
    BY <1>2, <2>1, <2>2, <2>3, <2>4, <2>5
  <2> QED BY <2>6 DEF b1
<1>4. ASSUME NEW k \in DOMAIN ran, Pair(k, "RSB", "RSC")
      PROVE  WideMinus(k, Second(k), Second(k + 1), First(k), First(k + 1))
  <2> DEFINE b1 == First(k + 1)
             nb == IF hist[k + 1].flags.C THEN Minus(b1) ELSE (Minus(b1) + M - 1) % M
  <2>1. /\ First(k) \in Word /\ Second(k) \in Word /\ Second(k + 1) \in Word /\ b1 \in Word
        /\ prog[k].op = "RSB" /\ prog[k + 1].op = "RSC" /\ prog[k].s /\ prog[k + 1].s
        /\ Performs(prog[k], hist[k], hist[k + 1])
        /\ Performs(prog[k + 1], hist[k + 1], After(k + 1))
        /\ \A x, y : /\ hist[k + 1].RB = [hist[k].RB EXCEPT ![prog[k].rd] = x]
                     /\ After(k + 1).RB = [hist[k + 1].RB EXCEPT ![prog[k + 1].rd] = y]
                     => WideResult(k) = Wide(x, y)
    BY <1>1, <1>4, PairEntries
  <2>2. /\ hist[k + 1].flags = SubFlags(Second(k), First(k), Minus(First(k)))
        /\ hist[k + 1].RB = [hist[k].RB EXCEPT ![prog[k].rd] = (Second(k) + Minus(First(k))) % M]
    BY <2>1 DEF Performs, First, Second, Before
  <2>3. /\ After(k + 1).flags = SubFlags(Second(k + 1), b1, nb)
        /\ After(k + 1).RB = [hist[k + 1].RB EXCEPT ![prog[k + 1].rd] = (Second(k + 1) + nb) % M]
    BY <2>1 DEF Performs, First, Second, Before
  <2>4. WideResult(k) = Wide((Second(k) + Minus(First(k))) % M, (Second(k + 1) + nb) % M)
    BY <2>1, <2>2, <2>3
  <2>5. nb = IF hist[k + 1].flags.C THEN Minus(b1) ELSE (Minus(b1) + M - 1) % M
    OBVIOUS
  <2> HIDE DEF nb, b1
  <2>6. WideMinus(k, Second(k), Second(k + 1), First(k), b1)
    BY <1>2, <2>1, <2>2, <2>3, <2>4, <2>5
  <2> QED BY <2>6 DEF b1
<1> QED BY <1>3, <1>4 DEF WideDifference

\* For words of every width, ADDS ADCS, SUBS SBCS and RSBS RSCS (arm_isa.cpp:
\* 1236, 1203, 2649, 2370, 2294, 2331) compute the sum and the difference of
\* numbers of two words, and leave their carry and overflow but in the two
\* cases in which WideMinus does not claim them.
THEOREM WideArithmeticAlways ==
  ProgSpec => [](WordOperands => WideArithmetic)
<1>1. Trace => (WordOperands => WideArithmetic)
  BY WideSumHolds, WideDifferenceHolds DEF WideArithmetic
<1> QED BY <1>1, TraceInvariant, PTL
=============================================================================
