---------------------------- MODULE UInt256Proofs ----------------------------
(***************************************************************************)
(* Theorems about UInt256 for every digit width, unit size and number of   *)
(* words, and for text of every length up to MaxDigits.  Each operation on *)
(* words is shown to be, on the numbers the words stand for, arithmetic    *)
(* modulo 2^256: the low words of operands and result are compared one     *)
(* word at a time, by induction on their number.  uint256_mul() is then an *)
(* induction over its rounds.                                              *)
(***************************************************************************)
EXTENDS UInt256, FiniteSetTheorems, WellFoundedInduction, SequenceTheorems, TLAPS

(* Induction over a set of natural numbers: the least number outside it    *)
(* would be neither zero nor a successor.                                  *)
LEMMA SetInduction ==
  ASSUME NEW T, 0 \in T, \A n \in Nat : n \in T => n + 1 \in T
  PROVE  \A n \in Nat : n \in T
<1> SUFFICES ASSUME Nat \ T # {} PROVE FALSE
  OBVIOUS
<1>1. IsWellFoundedOn(OpToRel(<, Nat), Nat)
  BY NatLessThanWellFounded
<1>2. PICK n \in Nat \ T : \A y \in Nat \ T : ~(<<y, n>> \in OpToRel(<, Nat))
  <2> DEFINE R == OpToRel(<, Nat)
             C == Nat \ T
  <2>1. C \subseteq Nat /\ C # {} /\ IsWellFoundedOn(R, Nat)
    BY <1>1
  <2> HIDE DEF R, C
  <2>2. \E x \in C : \A y \in C : ~(<<y, x>> \in R)
    BY <2>1, WFMin
  <2> QED
    BY <2>2 DEF R, C
<1>3. n # 0 /\ n - 1 \in Nat /\ (n - 1) + 1 = n
  OBVIOUS
<1>4. n - 1 \notin T
  BY <1>3
<1>5. <<n - 1, n>> \in OpToRel(<, Nat)
  BY <1>3 DEF OpToRel
<1> QED
  BY <1>2, <1>3, <1>4, <1>5

(* A function on 0 .. m may be defined by a first value and a step.        *)
Steps(m, S) == [(1 .. m) \X S -> S]
Follows(f, m, x, step) == f[0] = x /\ \A n \in 1 .. m : f[n] = step[<<n, f[n - 1]>>]

LEMMA Recursion ==
  ASSUME NEW m \in Nat, NEW S, NEW x \in S, NEW step \in Steps(m, S)
  PROVE  \E f \in [0 .. m -> S] : Follows(f, m, x, step)
<1> USE DEF Steps, Follows
<1> DEFINE Upto(k) == \E f \in [0 .. k -> S] :
                        f[0] = x /\ \A n \in 1 .. k : f[n] = step[<<n, f[n - 1]>>]
           T == { k \in Nat : k <= m => Upto(k) }
<1>1. 0 \in T
  <2> DEFINE f == [n \in 0 .. 0 |-> x]
  <2>1. f \in [0 .. 0 -> S] /\ f[0] = x /\ \A n \in 1 .. 0 : f[n] = step[<<n, f[n - 1]>>]
    OBVIOUS
  <2> QED
    BY <2>1
<1>2. ASSUME NEW k \in Nat, k \in T PROVE k + 1 \in T
  <2> SUFFICES ASSUME k + 1 <= m PROVE Upto(k + 1)
    OBVIOUS
  <2>1. PICK f \in [0 .. k -> S] : f[0] = x /\ \A n \in 1 .. k : f[n] = step[<<n, f[n - 1]>>]
    BY <1>2
  <2> DEFINE last == step[<<k + 1, f[k]>>]
             g == [n \in 0 .. (k + 1) |-> IF n = k + 1 THEN last ELSE f[n]]
  <2>2. last \in S
    BY <2>1
  <2>3. g \in [0 .. (k + 1) -> S]
    BY <2>1, <2>2
  <2>4. g[0] = x
    BY <2>1
  <2>5. ASSUME NEW n \in 1 .. (k + 1) PROVE g[n] = step[<<n, g[n - 1]>>]
    <3>1. n - 1 \in 0 .. k /\ g[n - 1] = f[n - 1]
      OBVIOUS
    <3>2. CASE n = k + 1
      <4>1. n - 1 = k /\ g[n] = last
        BY <3>2
      <4> QED
        BY <3>1, <3>2, <4>1
    <3>3. CASE n # k + 1
      <4>1. n \in 1 .. k /\ g[n] = f[n]
        BY <3>3
      <4> QED
        BY <2>1, <3>1, <4>1
    <3> QED
      BY <3>2, <3>3
  <2> QED
    BY <2>3, <2>4, <2>5
<1>3. \A k \in Nat : k \in T
  <2> HIDE DEF T
  <2> QED
    BY <1>1, <1>2, SetInduction
<1> QED
  BY <1>3

-----------------------------------------------------------------------------
(* Powers of two.                                                          *)
LEMMA Pow2Step ==
  /\ pow2[0] = 1
  /\ \A n \in Nat : pow2[n] \in Nat \ {0} /\ pow2[n + 1] = 2 * pow2[n]
<1> DEFINE Good(f, m) == f[0] = 1 /\ \A n \in 1 .. m : f[n] = 2 * f[n - 1]
<1>1. ASSUME NEW m \in Nat PROVE \E f \in [0 .. m -> Nat] : Good(f, m)
  <2> DEFINE step == [s \in (1 .. m) \X Nat |-> 2 * s[2]]
  <2>1. step \in Steps(m, Nat)
    BY DEF Steps
  <2>2. PICK f \in [0 .. m -> Nat] : Follows(f, m, 1, step)
    <3> HIDE DEF step
    <3>1. 1 \in Nat
      OBVIOUS
    <3> QED
      BY <2>1, <3>1, Recursion
  <2>3. f[0] = 1 /\ \A n \in 1 .. m : f[n] = step[<<n, f[n - 1]>>]
    BY <2>2 DEF Follows
  <2>4. ASSUME NEW n \in 1 .. m PROVE f[n] = 2 * f[n - 1]
    <3>1. n - 1 \in 0 .. m /\ f[n - 1] \in Nat
      OBVIOUS
    <3>2. step[<<n, f[n - 1]>>] = 2 * f[n - 1]
      BY <3>1
    <3> QED
      BY <2>3, <3>2
  <2> QED
    BY <2>3, <2>4
<1> DEFINE g == [m \in Nat |-> CHOOSE f \in [0 .. m -> Nat] : Good(f, m)]
<1>2. ASSUME NEW m \in Nat PROVE g[m] \in [0 .. m -> Nat] /\ Good(g[m], m)
  BY <1>1
<1> HIDE DEF g
<1>3. ASSUME NEW m \in Nat PROVE g[m + 1][m] = g[m][m]
  <2> DEFINE T == { n \in Nat : n <= m => g[m + 1][n] = g[m][n] }
  <2>1. 0 \in T
    BY <1>2
  <2>2. ASSUME NEW n \in Nat, n \in T PROVE n + 1 \in T
    <3> SUFFICES ASSUME n + 1 <= m PROVE g[m + 1][n + 1] = g[m][n + 1]
      OBVIOUS
    <3>1. g[m + 1][n + 1] = 2 * g[m + 1][(n + 1) - 1] /\ g[m][n + 1] = 2 * g[m][(n + 1) - 1]
      BY <1>2
    <3>2. (n + 1) - 1 = n
      OBVIOUS
    <3> QED
      BY <2>2, <3>1, <3>2
  <2>3. \A n \in Nat : n \in T
    <3> HIDE DEF T
    <3> QED
      BY <2>1, <2>2, SetInduction
  <2> QED
    BY <2>3
<1> DEFINE p == [m \in Nat |-> g[m][m]]
<1>4. ASSUME NEW m \in Nat PROVE p[m] \in Nat /\ p[0] = 1 /\ p[m + 1] = 2 * p[m]
  <2>1. g[m] \in [0 .. m -> Nat] /\ m \in 0 .. m
    BY <1>2
  <2>2. g[0][0] = 1
    <3>1. 0 \in Nat
      OBVIOUS
    <3>2. Good(g[0], 0)
      BY <1>2, <3>1
    <3> QED
      BY <3>2
  <2>3. m + 1 \in 1 .. (m + 1) /\ (m + 1) - 1 = m
    OBVIOUS
  <2>4. g[m + 1][m + 1] = 2 * g[m + 1][m]
    BY <1>2, <2>3
  <2>5. g[m + 1][m] = g[m][m]
    BY <1>3
  <2>6. p[m] = g[m][m] /\ p[m + 1] = g[m + 1][m + 1] /\ p[0] = g[0][0]
    OBVIOUS
  <2>7. g[m][m] \in Nat
    BY <2>1
  <2> HIDE DEF p
  <2> QED
    BY <2>4, <2>5, <2>6, <2>7, <2>2
<1> HIDE DEF p
<1>5. p = [n \in Nat |-> IF n = 0 THEN 1 ELSE 2 * p[n - 1]]
  <2>1. ASSUME NEW n \in Nat PROVE p[n] = IF n = 0 THEN 1 ELSE 2 * p[n - 1]
    <3>1. CASE n = 0
      BY <3>1, <1>4
    <3>2. CASE n # 0
      <4>1. n - 1 \in Nat /\ (n - 1) + 1 = n
        BY <3>2
      <4>2. p[(n - 1) + 1] = 2 * p[n - 1]
        BY <1>4, <4>1
      <4> QED
        BY <3>2, <4>1, <4>2
    <3> QED
      BY <3>1, <3>2
  <2>2. p = [m \in Nat |-> p[m]]
    BY DEF p
  <2> QED
    BY <2>1, <2>2
<1>6. pow2 = [n \in Nat |-> IF n = 0 THEN 1 ELSE 2 * pow2[n - 1]]
  BY <1>5 DEF pow2
<1>7. pow2[0] = 1 /\ \A n \in Nat : pow2[n + 1] = 2 * pow2[n]
  BY <1>6
<1> DEFINE T == { n \in Nat : pow2[n] \in Nat \ {0} }
<1>8. 0 \in T
  BY <1>7
<1>9. ASSUME NEW n \in Nat, n \in T PROVE n + 1 \in T
  BY <1>7, <1>9
<1>10. \A n \in Nat : n \in T
  <2> HIDE DEF T
  <2> QED
    BY <1>8, <1>9, SetInduction
<1> QED
  BY <1>7, <1>10

(* Exponents add up.                                                       *)
LEMMA Pow2Sum ==
  ASSUME NEW m \in Nat, NEW n \in Nat
  PROVE  pow2[m + n] = pow2[m] * pow2[n]
<1> DEFINE T == { k \in Nat : pow2[m + k] = pow2[m] * pow2[k] }
<1>1. 0 \in T
  BY Pow2Step
<1>2. ASSUME NEW k \in Nat, k \in T PROVE k + 1 \in T
  <2>1. pow2[k + 1] = 2 * pow2[k] /\ pow2[(m + k) + 1] = 2 * pow2[m + k]
    BY Pow2Step
  <2>2. pow2[m] \in Nat /\ pow2[k] \in Nat /\ pow2[m + k] = pow2[m] * pow2[k]
    BY <1>2, Pow2Step
  <2>3. (m + k) + 1 = m + (k + 1)
    OBVIOUS
  <2>4. 2 * (pow2[m] * pow2[k]) = pow2[m] * (2 * pow2[k])
    BY <2>2
  <2> QED
    BY <2>1, <2>2, <2>3, <2>4
<1>3. \A k \in Nat : k \in T
  <2> HIDE DEF T
  <2> QED
    BY <1>1, <1>2, SetInduction
<1> QED
  BY <1>3

-----------------------------------------------------------------------------
(* The constants and what is made of them.                                 *)
LEMMA Sizes ==
  /\ DigitBits \in Nat \ {0} /\ UnitDigits \in Nat \ {0} /\ NWords \in Nat \ {0}
  /\ WordBits \in Nat \ {0} /\ Bits \in Nat \ {0} /\ Word \in Nat \ {0}
  /\ WordBits = DigitBits * UnitDigits /\ Bits = WordBits * NWords
  /\ Word = pow2[WordBits]
<1>1. DigitBits \in Nat \ {0} /\ UnitDigits \in Nat \ {0} /\ NWords \in Nat \ {0}
  BY UInt256Assumption
<1>2. WordBits \in Nat \ {0}
  BY <1>1 DEF WordBits
<1>3. Bits \in Nat \ {0}
  BY <1>1, <1>2 DEF Bits
<1>4. Word \in Nat \ {0}
  BY <1>2, Pow2Step DEF Word
<1> QED
  BY <1>1, <1>2, <1>3, <1>4 DEF WordBits, Bits, Word

(* What a number of words weighs.                                          *)
LEMMA Weight ==
  ASSUME NEW n \in Nat
  PROVE  /\ WordBits * n \in Nat /\ pow2[WordBits * n] \in Nat \ {0}
         /\ pow2[WordBits * (n + 1)] = pow2[WordBits * n] * Word
<1>1. WordBits \in Nat /\ WordBits * n \in Nat /\ WordBits * (n + 1) = (WordBits * n) + WordBits
  BY Sizes
<1>2. pow2[(WordBits * n) + WordBits] = pow2[WordBits * n] * pow2[WordBits]
  BY <1>1, Pow2Sum
<1> QED
  BY <1>1, <1>2, Pow2Step, Sizes

(* The recursive functions of the model.                                   *)
LEMMA LowValuesStep ==
  ASSUME NEW val \in UInt
  PROVE  /\ LowValues(val) \in [0 .. NWords -> Nat]
         /\ LowValues(val)[0] = 0
         /\ \A n \in Words : LowValues(val)[n + 1] = LowValues(val)[n] + (pow2[WordBits * n] * val[n])
<1> DEFINE low == LowValues(val)
           step == [s \in (1 .. NWords) \X Nat |-> s[2] + (pow2[WordBits * (s[1] - 1)] * val[s[1] - 1])]
<1>1. NWords \in Nat \ {0}
  BY Sizes
<1>2. ASSUME NEW n \in 1 .. NWords, NEW x \in Nat
      PROVE  /\ pow2[WordBits * (n - 1)] * val[n - 1] \in Nat
             /\ x + (pow2[WordBits * (n - 1)] * val[n - 1]) \in Nat
  <2>1. n - 1 \in Nat /\ n - 1 \in Words
    BY <1>1 DEF Words
  <2>2. val[n - 1] \in Nat
    BY <2>1, Sizes DEF UInt
  <2>3. pow2[WordBits * (n - 1)] \in Nat
    BY <2>1, Weight
  <2> QED
    BY <2>2, <2>3
<1>3. step \in Steps(NWords, Nat)
  BY <1>2 DEF Steps
<1>4. PICK f \in [0 .. NWords -> Nat] : Follows(f, NWords, 0, step)
  <2> HIDE DEF step
  <2>1. 0 \in Nat /\ NWords \in Nat
    BY <1>1
  <2> QED
    BY <2>1, <1>3, Recursion
<1>5. f = [n \in 0 .. NWords |-> IF n = 0 THEN 0 ELSE f[n - 1] + (pow2[WordBits * (n - 1)] * val[n - 1])]
  <2>1. ASSUME NEW n \in 0 .. NWords, n # 0
        PROVE  f[n] = f[n - 1] + (pow2[WordBits * (n - 1)] * val[n - 1])
    <3>1. n \in 1 .. NWords /\ n - 1 \in 0 .. NWords /\ f[n - 1] \in Nat
      BY <2>1, <1>1
    <3>2. f[n] = step[<<n, f[n - 1]>>]
      BY <3>1, <1>4 DEF Follows
    <3> QED
      BY <3>1, <3>2
  <2>2. f[0] = 0
    BY <1>4 DEF Follows
  <2> QED
    BY <2>1, <2>2
<1>6. low = [n \in 0 .. NWords |-> IF n = 0 THEN 0 ELSE low[n - 1] + (pow2[WordBits * (n - 1)] * val[n - 1])]
  BY <1>5 DEF LowValues
<1> HIDE DEF low
<1>7. low[0] = 0
  BY <1>1, <1>6
<1>8. ASSUME NEW n \in Words PROVE low[n + 1] = low[n] + (pow2[WordBits * n] * val[n])
  <2>1. n + 1 \in 0 .. NWords /\ n + 1 # 0 /\ (n + 1) - 1 = n
    BY <1>1 DEF Words
  <2> QED
    BY <1>6, <2>1
<1> DEFINE T == { n \in Nat : n <= NWords => low[n] \in Nat }
<1>9. 0 \in T
  BY <1>7
<1>10. ASSUME NEW n \in Nat, n \in T PROVE n + 1 \in T
  <2> SUFFICES ASSUME n + 1 <= NWords PROVE low[n + 1] \in Nat
    OBVIOUS
  <2>1. n \in Words /\ n + 1 \in 1 .. NWords /\ (n + 1) - 1 = n
    BY <1>1 DEF Words
  <2>2. low[n] \in Nat
    BY <1>10, <1>1
  <2>3. low[n + 1] = low[n] + (pow2[WordBits * n] * val[n])
    BY <1>8, <2>1
  <2>4. low[n] + (pow2[WordBits * ((n + 1) - 1)] * val[(n + 1) - 1]) \in Nat
    BY <1>2, <2>1, <2>2
  <2> QED
    BY <2>1, <2>3, <2>4
<1>11. \A n \in Nat : n \in T
  <2> HIDE DEF T
  <2> QED
    BY <1>9, <1>10, SetInduction
<1>12. low \in [0 .. NWords -> Nat]
  <2>1. low = [n \in 0 .. NWords |-> low[n]]
    BY <1>6
  <2>2. ASSUME NEW n \in 0 .. NWords PROVE low[n] \in Nat
    BY <1>1, <1>11
  <2> QED
    BY <2>1, <2>2
<1> QED
  BY <1>7, <1>8, <1>12 DEF low

(* A word of a UInt256.                                                    *)
LEMMA WordOf ==
  ASSUME NEW val \in UInt, NEW w \in Words
  PROVE  /\ w \in Nat /\ w < NWords /\ val[w] \in 0 .. (Word - 1) /\ val[w] \in Nat
BY Sizes DEF UInt, Words

(* The carry after a word is the upper half of the word's sum.             *)
LEMMA CarriesStep ==
  ASSUME NEW a \in UInt, NEW b \in UInt
  PROVE  /\ Carries(a, b) \in [0 .. NWords -> Nat]
         /\ Carries(a, b)[0] = 0
         /\ \A n \in Words : Carries(a, b)[n + 1] = (a[n] + b[n] + Carries(a, b)[n]) \div Word
<1> DEFINE carry == Carries(a, b)
           step == [s \in (1 .. NWords) \X Nat |-> (a[s[1] - 1] + b[s[1] - 1] + s[2]) \div Word]
<1>1. NWords \in Nat \ {0} /\ Word \in Nat \ {0}
  BY Sizes
<1>2. ASSUME NEW n \in 1 .. NWords, NEW x \in Nat
      PROVE  (a[n - 1] + b[n - 1] + x) \div Word \in Nat
  <2>1. n - 1 \in Words
    BY <1>1 DEF Words
  <2>2. a[n - 1] \in Nat /\ b[n - 1] \in Nat
    BY <2>1, WordOf
  <2>3. a[n - 1] + b[n - 1] + x \in Nat
    BY <2>2
  <2> QED
    BY <2>3, <1>1
<1>3. step \in Steps(NWords, Nat)
  BY <1>2 DEF Steps
<1>4. PICK f \in [0 .. NWords -> Nat] : Follows(f, NWords, 0, step)
  <2> HIDE DEF step
  <2>1. 0 \in Nat /\ NWords \in Nat
    BY <1>1
  <2> QED
    BY <2>1, <1>3, Recursion
<1>5. f = [n \in 0 .. NWords |-> IF n = 0 THEN 0 ELSE (a[n - 1] + b[n - 1] + f[n - 1]) \div Word]
  <2>1. ASSUME NEW n \in 0 .. NWords, n # 0
        PROVE  f[n] = (a[n - 1] + b[n - 1] + f[n - 1]) \div Word
    <3>1. n \in 1 .. NWords /\ n - 1 \in 0 .. NWords /\ f[n - 1] \in Nat
      BY <2>1, <1>1
    <3>2. f[n] = step[<<n, f[n - 1]>>]
      BY <3>1, <1>4 DEF Follows
    <3> QED
      BY <3>1, <3>2
  <2>2. f[0] = 0
    BY <1>4 DEF Follows
  <2> QED
    BY <2>1, <2>2
<1>6. carry = [n \in 0 .. NWords |-> IF n = 0 THEN 0 ELSE (a[n - 1] + b[n - 1] + carry[n - 1]) \div Word]
  BY <1>5 DEF Carries
<1> HIDE DEF carry
<1>7. carry[0] = 0
  BY <1>1, <1>6
<1>8. ASSUME NEW n \in Words PROVE carry[n + 1] = (a[n] + b[n] + carry[n]) \div Word
  <2>1. n + 1 \in 0 .. NWords /\ n + 1 # 0 /\ (n + 1) - 1 = n
    BY <1>1 DEF Words
  <2> QED
    BY <1>6, <2>1
<1> DEFINE T == { n \in Nat : n <= NWords => carry[n] \in Nat }
<1>9. 0 \in T
  BY <1>7
<1>10. ASSUME NEW n \in Nat, n \in T PROVE n + 1 \in T
  <2> SUFFICES ASSUME n + 1 <= NWords PROVE carry[n + 1] \in Nat
    OBVIOUS
  <2>1. n \in Words /\ n + 1 \in 1 .. NWords /\ (n + 1) - 1 = n
    BY <1>1 DEF Words
  <2>2. carry[n] \in Nat
    BY <1>10, <1>1
  <2>3. (a[(n + 1) - 1] + b[(n + 1) - 1] + carry[n]) \div Word \in Nat
    BY <1>2, <2>1, <2>2
  <2> QED
    BY <1>8, <2>1, <2>3
<1>11. \A n \in Nat : n \in T
  <2> HIDE DEF T
  <2> QED
    BY <1>9, <1>10, SetInduction
<1>12. carry \in [0 .. NWords -> Nat]
  <2>1. carry = [n \in 0 .. NWords |-> carry[n]]
    BY <1>6
  <2>2. ASSUME NEW n \in 0 .. NWords PROVE carry[n] \in Nat
    BY <1>1, <1>11
  <2> QED
    BY <2>1, <2>2
<1> QED
  BY <1>7, <1>8, <1>12 DEF carry

(* One more digit multiplies what was read and adds the digit.             *)
LEMMA NumbersStep ==
  ASSUME NEW digits \in Seq(Digit)
  PROVE  /\ NumbersOf(digits) \in [0 .. Len(digits) -> Nat]
         /\ NumbersOf(digits)[0] = 0
         /\ \A n \in 0 .. (Len(digits) - 1) :
              NumbersOf(digits)[n + 1] = (NumbersOf(digits)[n] * pow2[DigitBits]) + digits[n + 1]
<1> DEFINE num == NumbersOf(digits)
           D == pow2[DigitBits]
           L == Len(digits)
           step == [s \in (1 .. L) \X Nat |-> (s[2] * D) + digits[s[1]]]
<1>1. L \in Nat /\ D \in Nat \ {0}
  <2>1. DigitBits \in Nat
    BY Sizes
  <2>2. D \in Nat \ {0}
    BY <2>1, Pow2Step
  <2> QED
    BY <2>2
<1>2. ASSUME NEW n \in 1 .. L, NEW x \in Nat
      PROVE  (x * D) + digits[n] \in Nat
  <2>1. digits[n] \in Digit
    OBVIOUS
  <2>2. digits[n] \in Nat
    BY <2>1, <1>1 DEF Digit
  <2>3. x * D \in Nat
    BY <1>1
  <2> QED
    BY <2>2, <2>3
<1>3. step \in Steps(L, Nat)
  BY <1>2 DEF Steps
<1>4. PICK f \in [0 .. L -> Nat] : Follows(f, L, 0, step)
  <2> HIDE DEF step, L
  <2>1. 0 \in Nat
    BY <1>1
  <2> QED
    BY <2>1, <1>1, <1>3, Recursion
<1>5. f = [n \in 0 .. L |-> IF n = 0 THEN 0 ELSE (f[n - 1] * D) + digits[n]]
  <2>1. ASSUME NEW n \in 0 .. L, n # 0
        PROVE  f[n] = (f[n - 1] * D) + digits[n]
    <3>1. n \in 1 .. L /\ n - 1 \in 0 .. L /\ f[n - 1] \in Nat
      BY <2>1, <1>1
    <3>2. f[n] = step[<<n, f[n - 1]>>]
      BY <3>1, <1>4 DEF Follows
    <3> QED
      BY <3>1, <3>2
  <2>2. f[0] = 0
    BY <1>4 DEF Follows
  <2> QED
    BY <2>1, <2>2
<1>6. num = [n \in 0 .. L |-> IF n = 0 THEN 0 ELSE (num[n - 1] * D) + digits[n]]
  BY <1>5 DEF NumbersOf
<1> HIDE DEF num, D, L
<1>7. num[0] = 0
  BY <1>1, <1>6
<1>8. ASSUME NEW n \in 0 .. (L - 1) PROVE num[n + 1] = (num[n] * D) + digits[n + 1]
  <2>1. n + 1 \in 0 .. L /\ n + 1 # 0 /\ (n + 1) - 1 = n
    BY <1>1
  <2> QED
    BY <1>6, <2>1
<1> DEFINE T == { n \in Nat : n <= L => num[n] \in Nat }
<1>9. 0 \in T
  BY <1>7
<1>10. ASSUME NEW n \in Nat, n \in T PROVE n + 1 \in T
  <2> SUFFICES ASSUME n + 1 <= L PROVE num[n + 1] \in Nat
    OBVIOUS
  <2>1. n \in 0 .. (L - 1) /\ n + 1 \in 1 .. L
    BY <1>1
  <2>2. num[n] \in Nat
    BY <1>10, <1>1
  <2>3. (num[n] * D) + digits[n + 1] \in Nat
    BY <1>2, <2>1, <2>2
  <2> QED
    BY <1>8, <2>1, <2>3
<1>11. \A n \in Nat : n \in T
  <2> HIDE DEF T
  <2> QED
    BY <1>9, <1>10, SetInduction
<1>12. num \in [0 .. L -> Nat]
  <2>1. num = [n \in 0 .. L |-> num[n]]
    BY <1>6
  <2>2. ASSUME NEW n \in 0 .. L PROVE num[n] \in Nat
    BY <1>1, <1>11
  <2> QED
    BY <2>1, <2>2
<1> QED
  BY <1>7, <1>8, <1>12 DEF num, D, L

-----------------------------------------------------------------------------
(* Arithmetic.                                                             *)
LEMMA Products ==
  ASSUME NEW a \in Nat, NEW x \in Int, NEW y \in Int
  PROVE  /\ x * a \in Int /\ (x + y) * a = (x * a) + (y * a) /\ x * a = a * x
         /\ x \in Nat => x * a \in Nat
         /\ x <= y => x * a <= y * a
         /\ x < y => (x * a) + a <= y * a
<1>1. x * a \in Int /\ y * a \in Int /\ (x + y) * a = (x * a) + (y * a) /\ x * a = a * x
  OBVIOUS
<1>2. x \in Nat => x * a \in Nat
  OBVIOUS
<1>3. ASSUME x <= y PROVE x * a <= y * a
  <2>1. y - x \in Nat /\ y = x + (y - x)
    BY <1>3
  <2>2. (y - x) * a \in Nat /\ (x + (y - x)) * a = (x * a) + ((y - x) * a)
    BY <2>1
  <2> QED
    BY <1>1, <2>1, <2>2
<1>4. ASSUME x < y PROVE (x * a) + a <= y * a
  <2>1. y - (x + 1) \in Nat /\ y = (x + 1) + (y - (x + 1))
    BY <1>4
  <2>2. (y - (x + 1)) * a \in Nat /\ ((x + 1) + (y - (x + 1))) * a = ((x + 1) * a) + ((y - (x + 1)) * a)
    BY <2>1
  <2>3. (x + 1) * a = (x * a) + a
    OBVIOUS
  <2> QED
    BY <1>1, <2>1, <2>2, <2>3
<1> QED
  BY <1>1, <1>2, <1>3, <1>4

(* Quotient and remainder, also of a negative number.                      *)
LEMMA Division ==
  ASSUME NEW n \in Int, NEW v \in Nat \ {0}
  PROVE  /\ n \div v \in Int /\ n % v \in 0 .. (v - 1)
         /\ n = ((n \div v) * v) + (n % v)
         /\ n \in Nat => n \div v \in Nat
  BY SMT

(* They are the only ones.                                                 *)
LEMMA DivisionUnique ==
  ASSUME NEW v \in Nat \ {0}, NEW q \in Int, NEW r \in 0 .. (v - 1)
  PROVE  ((q * v) + r) \div v = q /\ ((q * v) + r) % v = r
<1> DEFINE n == (q * v) + r
           p == n \div v
           s == n % v
<1>1. n \in Int /\ q * v \in Int
  BY Products
<1>2. p \in Int /\ s \in 0 .. (v - 1) /\ n = (p * v) + s
  BY <1>1, Division
<1> HIDE DEF p, s
<1>3. p * v \in Int
  BY <1>2, Products
<1>4. ~(p < q)
  <2>1. p < q => (p * v) + v <= q * v
    BY <1>2, Products
  <2> QED
    BY <1>1, <1>2, <1>3, <2>1
<1>5. ~(q < p)
  <2>1. q < p => (q * v) + v <= p * v
    BY <1>2, Products
  <2> QED
    BY <1>1, <1>2, <1>3, <2>1
<1>6. p = q
  BY <1>2, <1>4, <1>5
<1>7. s = r
  BY <1>1, <1>2, <1>3, <1>6
<1> QED
  BY <1>6, <1>7 DEF p, s

(* The remainder of a number is the remainder of what differs from it by a *)
(* multiple.                                                               *)
LEMMA ModShift ==
  ASSUME NEW m \in Nat \ {0}, NEW a \in Int, NEW k \in Int
  PROVE  (a + (k * m)) % m = a % m
<1> DEFINE q == a \div m
           r == a % m
<1>1. q \in Int /\ r \in 0 .. (m - 1) /\ a = (q * m) + r
  BY Division
<1> HIDE DEF q, r
<1>2. (q + k) * m = (q * m) + (k * m) /\ q * m \in Int /\ k * m \in Int
  BY <1>1, Products
<1>3. a + (k * m) = ((q + k) * m) + r
  BY <1>1, <1>2
<1>4. q + k \in Int
  BY <1>1
<1>5. (((q + k) * m) + r) % m = r
  BY <1>1, <1>4, DivisionUnique
<1> QED
  BY <1>3, <1>5 DEF r

(* A remainder may be taken before adding.                                 *)
LEMMA ModSum ==
  ASSUME NEW m \in Nat \ {0}, NEW a \in Int, NEW b \in Int
  PROVE  ((a % m) + b) % m = (a + b) % m
<1> DEFINE q == a \div m
           r == a % m
<1>1. q \in Int /\ r \in 0 .. (m - 1) /\ a = (q * m) + r
  BY Division
<1> HIDE DEF q, r
<1>2. q * m \in Int /\ r + b \in Int
  BY <1>1, Products
<1>3. a + b = (r + b) + (q * m)
  BY <1>1, <1>2
<1>4. ((r + b) + (q * m)) % m = (r + b) % m
  BY <1>1, <1>2, ModShift
<1> QED
  BY <1>3, <1>4 DEF r

(* A remainder may be taken before multiplying.                            *)
LEMMA ModProduct ==
  ASSUME NEW m \in Nat \ {0}, NEW a \in Int, NEW b \in Int
  PROVE  ((a % m) * b) % m = (a * b) % m
<1> DEFINE q == a \div m
           r == a % m
<1>1. q \in Int /\ r \in 0 .. (m - 1) /\ a = (q * m) + r
  BY Division
<1> HIDE DEF q, r
<1>2. q * b \in Int /\ r * b \in Int
  BY <1>1
<1>3. a * b = (r * b) + ((q * b) * m)
  BY <1>1
<1>4. ((r * b) + ((q * b) * m)) % m = (r * b) % m
  BY <1>2, ModShift
<1> QED
  BY <1>3, <1>4 DEF r

(* A small number is its own remainder.                                    *)
LEMMA ModSmall ==
  ASSUME NEW m \in Nat \ {0}, NEW a \in 0 .. (m - 1)
  PROVE  a % m = a /\ a \div m = 0
<1>1. 0 \in Int /\ (0 * m) + a = a
  OBVIOUS
<1> QED
  BY <1>1, DivisionUnique

(* A low part and a high part together.                                    *)
LEMMA Joined ==
  ASSUME NEW p \in Nat \ {0}, NEW b \in Nat \ {0}, NEW x \in 0 .. (p - 1), NEW y \in 0 .. (b - 1)
  PROVE  x + (p * y) \in 0 .. ((p * b) - 1)
<1>1. y * p \in Nat /\ y * p = p * y /\ (y * p) + p <= b * p /\ b * p = p * b
  BY Products
<1>2. b * p \in Nat
  OBVIOUS
<1> QED
  BY <1>1, <1>2

-----------------------------------------------------------------------------
(* The low words stay below the weight of the next one.                    *)
LEMMA LowBound ==
  ASSUME NEW val \in UInt, NEW n \in 0 .. NWords
  PROVE  LowValues(val)[n] \in 0 .. (pow2[WordBits * n] - 1)
<1> DEFINE low == LowValues(val)
           T == { k \in Nat : k <= NWords => low[k] \in 0 .. (pow2[WordBits * k] - 1) }
<1>1. low[0] = 0 /\ \A k \in Words : low[k + 1] = low[k] + (pow2[WordBits * k] * val[k])
  BY LowValuesStep
<1> HIDE DEF low
<1>2. 0 \in T
  <2>1. pow2[WordBits * 0] \in Nat \ {0}
    BY Weight
  <2> QED
    BY <1>1, <2>1
<1>3. ASSUME NEW k \in Nat, k \in T PROVE k + 1 \in T
  <2> SUFFICES ASSUME k + 1 <= NWords PROVE low[k + 1] \in 0 .. (pow2[WordBits * (k + 1)] - 1)
    OBVIOUS
  <2> DEFINE p == pow2[WordBits * k]
  <2>1. k \in Words /\ k <= NWords
    BY Sizes DEF Words
  <2>2. p \in Nat \ {0} /\ pow2[WordBits * (k + 1)] = p * Word
    BY Weight
  <2>3. low[k] \in 0 .. (p - 1)
    BY <1>3, <2>1
  <2>4. val[k] \in 0 .. (Word - 1)
    BY <2>1, WordOf
  <2>5. low[k + 1] = low[k] + (p * val[k])
    BY <1>1, <2>1
  <2>6. Word \in Nat \ {0}
    BY Sizes
  <2> HIDE DEF p
  <2>7. low[k] + (p * val[k]) \in 0 .. ((p * Word) - 1)
    BY <2>2, <2>3, <2>4, <2>6, Joined
  <2> QED
    BY <2>2, <2>5, <2>7
<1>4. \A k \in Nat : k \in T
  <2> HIDE DEF T
  <2> QED
    BY <1>2, <1>3, SetInduction
<1>5. n \in Nat /\ n <= NWords
  BY Sizes
<1>6. low[n] \in 0 .. (pow2[WordBits * n] - 1)
  BY <1>4, <1>5
<1> QED
  BY <1>6 DEF low

(* A UInt256 stands for a number below 2^256.                              *)
LEMMA ValueBound ==
  ASSUME NEW val \in UInt
  PROVE  Value(val) \in 0 .. (pow2[Bits] - 1)
<1>1. NWords \in 0 .. NWords /\ Bits = WordBits * NWords
  BY Sizes
<1> QED
  BY <1>1, LowBound DEF Value

(* What the words from the n-th on stand for is a multiple of the n-th     *)
(* word's weight.                                                          *)
LEMMA HighWords ==
  ASSUME NEW val \in UInt, NEW n \in 0 .. NWords
  PROVE  \E h \in Nat : Value(val) = LowValues(val)[n] + (pow2[WordBits * n] * h)
<1> DEFINE low == LowValues(val)
           Split(k) == \E h \in Nat : Value(val) = low[k] + (pow2[WordBits * k] * h)
           T == { k \in Nat : k <= NWords => Split(NWords - k) }
<1>1. \A k \in Words : low[k + 1] = low[k] + (pow2[WordBits * k] * val[k])
  BY LowValuesStep
<1>2. low \in [0 .. NWords -> Nat] /\ NWords \in Nat \ {0}
  BY LowValuesStep, Sizes
<1>3. 0 \in T
  <2>1. low[NWords - 0] \in Nat /\ Value(val) = low[NWords - 0]
    BY <1>2 DEF Value
  <2> HIDE DEF low
  <2>2. pow2[WordBits * (NWords - 0)] \in Nat
    <3>1. NWords - 0 \in Nat
      BY <1>2
    <3> QED
      BY <3>1, Weight
  <2>3. Value(val) = low[NWords - 0] + (pow2[WordBits * (NWords - 0)] * 0)
    BY <2>1, <2>2
  <2> QED
    BY <2>3
<1> HIDE DEF low
<1>4. ASSUME NEW k \in Nat, k \in T PROVE k + 1 \in T
  <2> SUFFICES ASSUME k + 1 <= NWords PROVE Split(NWords - (k + 1))
    OBVIOUS
  <2> DEFINE j == NWords - (k + 1)
             p == pow2[WordBits * j]
  <2>1. j \in Words /\ j \in Nat /\ j + 1 = NWords - k /\ k <= NWords /\ j \in 0 .. NWords
    BY <1>2 DEF Words
  <2>2. Split(j + 1)
    BY <1>4, <2>1
  <2> HIDE DEF j
  <2>3. PICK h \in Nat : Value(val) = low[j + 1] + (pow2[WordBits * (j + 1)] * h)
    BY <2>2
  <2>4. p \in Nat \ {0} /\ pow2[WordBits * (j + 1)] = p * Word
    BY <2>1, Weight
  <2>5. low[j + 1] = low[j] + (p * val[j])
    BY <1>1, <2>1
  <2>6. val[j] \in Nat /\ Word \in Nat /\ low[j] \in Nat
    BY <1>2, <2>1, WordOf, Sizes
  <2> HIDE DEF p
  <2>7. val[j] + (Word * h) \in Nat
    BY <2>6
  <2>8. (low[j] + (p * val[j])) + ((p * Word) * h) = low[j] + (p * (val[j] + (Word * h)))
    BY <2>4, <2>6
  <2>9. Value(val) = low[j] + (p * (val[j] + (Word * h)))
    BY <2>3, <2>4, <2>5, <2>8
  <2>10. Split(j)
    BY <2>7, <2>9 DEF p
  <2> QED
    BY <2>10 DEF j
<1>5. \A k \in Nat : k \in T
  <2> HIDE DEF T
  <2> QED
    BY <1>3, <1>4, SetInduction
<1>6. NWords - n \in Nat /\ NWords - n <= NWords /\ NWords - (NWords - n) = n
  BY <1>2
<1>7. Split(n)
  <2>1. Split(NWords - (NWords - n))
    BY <1>5, <1>6
  <2> QED
    BY <1>6, <2>1
<1> QED
  BY <1>7 DEF low

SameField(p, e, g, r, low, v, h) ==
  ((low + (p * (v + (((e * g) * r) * h)))) \div (p * e)) % g = (v \div e) % g

(* Bits e to e + g of the word v are found at the same place above a low   *)
(* part.                                                                   *)
LEMMA FieldOf ==
  ASSUME NEW p \in Nat \ {0}, NEW e \in Nat \ {0}, NEW g \in Nat \ {0}, NEW r \in Nat,
         NEW low \in 0 .. (p - 1), NEW v \in Nat, NEW h \in Nat
  PROVE  SameField(p, e, g, r, low, v, h)
<1> DEFINE x == v \div e
           y == v % e
           n == low + (p * (v + (((e * g) * r) * h)))
           k == r * h
<1>1. x \in Nat /\ y \in 0 .. (e - 1) /\ v = (x * e) + y
  <2>1. v \in Int
    OBVIOUS
  <2> QED
    BY <2>1, Division
<1>2. k \in Nat /\ p * e \in Nat \ {0}
  OBVIOUS
<1>3. low + (p * y) \in 0 .. ((p * e) - 1)
  BY <1>1, Joined
<1>4. ((e * g) * r) * h = (k * g) * e
  OBVIOUS
<1> HIDE DEF x, y, k
<1>5. k * g \in Nat
  BY <1>2
<1>6. v + (((e * g) * r) * h) = ((x + (k * g)) * e) + y
  BY <1>1, <1>2, <1>4, <1>5, Products
<1>7. p * (((x + (k * g)) * e) + y) = ((x + (k * g)) * (p * e)) + (p * y)
  <2> DEFINE z == x + (k * g)
  <2>1. z \in Nat /\ y \in Nat
    BY <1>1, <1>5
  <2> HIDE DEF z
  <2>2. p * ((z * e) + y) = (z * (p * e)) + (p * y)
    BY <2>1
  <2> QED
    BY <2>2 DEF z
<1>8. n = ((x + (k * g)) * (p * e)) + (low + (p * y))
  <2> DEFINE z == (x + (k * g)) * (p * e)
  <2>1. z \in Int /\ p * y \in Int /\ n = low + (z + (p * y))
    BY <1>1, <1>2, <1>5, <1>6, <1>7
  <2> HIDE DEF z, n
  <2>2. n = z + (low + (p * y))
    BY <2>1
  <2> QED
    BY <2>2 DEF z
<1> HIDE DEF n
<1>9. n \div (p * e) = x + (k * g)
  <2>1. x + (k * g) \in Int
    BY <1>1, <1>5
  <2> DEFINE z == x + (k * g)
             m == p * e
             o == low + (p * y)
  <2>2. z \in Int /\ m \in Nat \ {0} /\ o \in 0 .. (m - 1) /\ n = (z * m) + o
    BY <1>2, <1>3, <1>8, <2>1
  <2> HIDE DEF z, m, o
  <2>3. n \div m = z
    BY <2>2, DivisionUnique
  <2> QED
    BY <2>3 DEF z, m
<1>10. (x + (k * g)) % g = x % g
  <2>1. x \in Int /\ k \in Int
    BY <1>1, <1>2
  <2> QED
    BY <2>1, ModShift
<1> QED
  BY <1>9, <1>10 DEF n, x, SameField

(* A group of bits inside one word is the same bits of the whole number.   *)
LEMMA Field ==
  ASSUME NEW val \in UInt, NEW w \in Words, NEW e \in Nat, NEW g \in Nat, e + g <= WordBits
  PROVE  (Value(val) \div pow2[(WordBits * w) + e]) % pow2[g] = (val[w] \div pow2[e]) % pow2[g]
<1>1. w \in Nat /\ w + 1 \in 0 .. NWords /\ w \in 0 .. NWords /\ WordBits \in Nat
  BY Sizes, WordOf DEF Words
<1>2. PICK h \in Nat : Value(val) = LowValues(val)[w + 1] + (pow2[WordBits * (w + 1)] * h)
  BY <1>1, HighWords
<1> DEFINE p == pow2[WordBits * w]
           low == LowValues(val)[w]
           r == pow2[WordBits - (e + g)]
           E == pow2[e]
           G == pow2[g]
<1>3. low \in 0 .. (p - 1)
  BY <1>1, LowBound
<1>4. LowValues(val)[w + 1] = low + (p * val[w])
  BY LowValuesStep
<1>5. p \in Nat \ {0} /\ pow2[WordBits * (w + 1)] = p * Word
  BY <1>1, Weight
<1>6. E \in Nat \ {0} /\ G \in Nat \ {0}
  BY Pow2Step
<1>7. WordBits - (e + g) \in Nat /\ (e + g) + (WordBits - (e + g)) = WordBits /\ e + g \in Nat
  BY <1>1
<1>8. r \in Nat
  BY <1>7, Pow2Step
<1>9. Word = (E * G) * r
  <2>1. pow2[e + g] = E * G
    BY Pow2Sum
  <2>2. pow2[(e + g) + (WordBits - (e + g))] = pow2[e + g] * r
    BY <1>7, Pow2Sum
  <2> QED
    BY <1>7, <2>1, <2>2, Sizes
<1>10. pow2[(WordBits * w) + e] = p * E
  <2>1. WordBits * w \in Nat
    BY <1>1, Weight
  <2> QED
    BY <2>1, Pow2Sum
<1>11. val[w] \in Nat
  BY WordOf
<1> HIDE DEF p, low, r, E, G
<1>12. Value(val) = (low + (p * val[w])) + ((p * Word) * h)
  BY <1>2, <1>4, <1>5
<1>13. low \in Nat /\ Word \in Nat
  BY <1>3, <1>5, Sizes
<1>14. (low + (p * val[w])) + ((p * Word) * h) = low + (p * (val[w] + (Word * h)))
  BY <1>5, <1>11, <1>13
<1>15. Value(val) = low + (p * (val[w] + (((E * G) * r) * h)))
  BY <1>9, <1>12, <1>14
<1>16. ((low + (p * (val[w] + (((E * G) * r) * h)))) \div (p * E)) % G = (val[w] \div E) % G
  <2>1. SameField(p, E, G, r, low, val[w], h)
    BY <1>3, <1>5, <1>6, <1>8, <1>11, FieldOf
  <2> QED
    BY <2>1 DEF SameField
<1> QED
  BY <1>10, <1>15, <1>16 DEF E, G

(* A UInt256 is determined by its value.                                   *)
LEMMA ValueInjective ==
  ASSUME NEW a \in UInt, NEW b \in UInt, Value(a) = Value(b)
  PROVE  a = b
<1>1. ASSUME NEW val \in UInt, NEW w \in Words
      PROVE  (Value(val) \div pow2[WordBits * w]) % Word = val[w]
  <2>1. 0 \in Nat /\ WordBits \in Nat /\ 0 + WordBits <= WordBits /\ w \in Nat
    BY Sizes, WordOf
  <2>2. (Value(val) \div pow2[(WordBits * w) + 0]) % pow2[WordBits] = (val[w] \div pow2[0]) % pow2[WordBits]
    BY <2>1, Field
  <2>3. WordBits * w \in Nat
    BY <2>1, Weight
  <2>4. (WordBits * w) + 0 = WordBits * w
    BY <2>3
  <2>5. val[w] \in 0 .. (Word - 1) /\ Word \in Nat \ {0}
    BY WordOf, Sizes
  <2>6. val[w] \div 1 = val[w]
    <3>1. (val[w] * 1) + 0 = val[w] /\ 0 \in 0 .. (1 - 1) /\ 1 \in Nat \ {0} /\ val[w] \in Int
      BY <2>5
    <3> HIDE DEF Word
    <3>2. ((val[w] * 1) + 0) \div 1 = val[w]
      BY <3>1, DivisionUnique
    <3> QED
      BY <3>1, <3>2
  <2>7. val[w] % Word = val[w]
    BY <2>5, ModSmall
  <2>8. pow2[0] = 1 /\ pow2[WordBits] = Word
    BY Pow2Step, Sizes
  <2> QED
    BY <2>2, <2>4, <2>6, <2>7, <2>8
<1>2. ASSUME NEW w \in Words PROVE a[w] = b[w]
  BY <1>1
<1> QED
  BY <1>2 DEF UInt

-----------------------------------------------------------------------------
(* Addition.                                                               *)
CarriedOn(p, b, x, y, c, s, l, m) ==
  (s + (p * ((x + y + c) % b))) + (((x + y + c) \div b) * (p * b)) = (l + (p * x)) + (m + (p * y))

(* One word of a sum: what does not fit is carried on.                     *)
LEMMA AddWord ==
  ASSUME NEW p \in Nat, NEW b \in Nat \ {0}, NEW x \in Nat, NEW y \in Nat, NEW c \in Nat,
         NEW s \in Nat, NEW l \in Nat, NEW m \in Nat, s + (c * p) = l + m
  PROVE  CarriedOn(p, b, x, y, c, s, l, m)
<1> DEFINE q == (x + y + c) \div b
           r == (x + y + c) % b
<1>1. x + y + c \in Nat
  OBVIOUS
<1>2. q \in Int /\ r \in Int /\ x + y + c = (q * b) + r
  BY <1>1, Division
<1> HIDE DEF q, r
<1>3. (p * r) + (q * (p * b)) = p * ((q * b) + r)
  BY <1>2
<1>4. p * (x + y + c) = (p * x) + (p * y) + (c * p)
  OBVIOUS
<1>5. /\ p * r \in Int /\ q * (p * b) \in Int /\ p * x \in Int /\ p * y \in Int /\ c * p \in Int
      /\ (p * r) + (q * (p * b)) = (p * x) + (p * y) + (c * p)
  BY <1>2, <1>3, <1>4
<1>6. (s + (p * r)) + (q * (p * b)) = (l + (p * x)) + (m + (p * y))
  BY <1>5
<1> QED
  BY <1>6 DEF q, r, CarriedOn

(* Every word of a sum is a word.                                          *)
LEMMA AddWords ==
  ASSUME NEW a \in UInt, NEW b \in UInt
  PROVE  /\ add(a, b) \in UInt
         /\ \A w \in Words : add(a, b)[w] = (a[w] + b[w] + Carries(a, b)[w]) % Word
<1>1. ASSUME NEW w \in Words
      PROVE  (a[w] + b[w] + Carries(a, b)[w]) % Word \in 0 .. (Word - 1)
  <2>1. a[w] \in Nat /\ b[w] \in Nat
    BY WordOf
  <2>5. w \in 0 .. NWords
    BY Sizes DEF Words
  <2>2. Carries(a, b)[w] \in Nat
    BY <2>5, CarriesStep
  <2>3. a[w] + b[w] + Carries(a, b)[w] \in Int
    BY <2>1, <2>2
  <2>4. Word \in Nat \ {0}
    BY Sizes
  <2> QED
    BY <2>3, <2>4, Division
<1> QED
  BY <1>1 DEF add, UInt

(* uint256_add() is addition modulo 2^256 for every two operands: the low  *)
(* words of the sum and the carry after them stand for the sum of the      *)
(* operands' low words.                                                    *)
THEOREM AddValue ==
  ASSUME NEW a \in UInt, NEW b \in UInt
  PROVE  /\ add(a, b) \in UInt
         /\ Value(add(a, b)) = (Value(a) + Value(b)) % pow2[Bits]
<1> DEFINE sum == add(a, b)
           carry == Carries(a, b)
           s == LowValues(sum)
           l == LowValues(a)
           m == LowValues(b)
           T == { k \in Nat : k <= NWords => s[k] + (carry[k] * pow2[WordBits * k]) = l[k] + m[k] }
<1>1. sum \in UInt /\ \A w \in Words : sum[w] = (a[w] + b[w] + carry[w]) % Word
  BY AddWords
<1>2. /\ carry \in [0 .. NWords -> Nat] /\ carry[0] = 0
      /\ \A w \in Words : carry[w + 1] = (a[w] + b[w] + carry[w]) \div Word
  BY CarriesStep
<1> HIDE DEF sum, carry
<1>3. /\ s \in [0 .. NWords -> Nat] /\ s[0] = 0
      /\ \A w \in Words : s[w + 1] = s[w] + (pow2[WordBits * w] * sum[w])
  BY <1>1, LowValuesStep
<1>4. /\ l \in [0 .. NWords -> Nat] /\ l[0] = 0
      /\ \A w \in Words : l[w + 1] = l[w] + (pow2[WordBits * w] * a[w])
  BY LowValuesStep
<1>5. /\ m \in [0 .. NWords -> Nat] /\ m[0] = 0
      /\ \A w \in Words : m[w + 1] = m[w] + (pow2[WordBits * w] * b[w])
  BY LowValuesStep
<1>6. Value(sum) = s[NWords] /\ Value(a) = l[NWords] /\ Value(b) = m[NWords]
  BY DEF Value
<1>7. s[NWords] \in 0 .. (pow2[Bits] - 1)
  BY <1>1, <1>6, ValueBound
<1> HIDE DEF s, l, m
<1>8. 0 \in T
  <2>1. pow2[WordBits * 0] \in Nat
    BY Weight
  <2> QED
    BY <1>2, <1>3, <1>4, <1>5, <2>1
<1>9. ASSUME NEW k \in Nat, k \in T PROVE k + 1 \in T
  <2> SUFFICES ASSUME k + 1 <= NWords
               PROVE  s[k + 1] + (carry[k + 1] * pow2[WordBits * (k + 1)]) = l[k + 1] + m[k + 1]
    OBVIOUS
  <2> DEFINE p == pow2[WordBits * k]
             x == a[k]
             y == b[k]
             c == carry[k]
  <2>1. k \in Words /\ k \in 0 .. NWords /\ k <= NWords
    BY Sizes DEF Words
  <2>2. p \in Nat /\ pow2[WordBits * (k + 1)] = p * Word
    BY Weight
  <2>3. x \in Nat /\ y \in Nat /\ c \in Nat
    BY <1>2, <2>1, WordOf
  <2>4. s[k] \in Nat /\ l[k] \in Nat /\ m[k] \in Nat
    BY <1>3, <1>4, <1>5, <2>1
  <2>5. s[k] + (c * p) = l[k] + m[k]
    BY <1>9, <2>1
  <2>6. carry[k + 1] = (x + y + c) \div Word /\ sum[k] = (x + y + c) % Word
    BY <1>1, <1>2, <2>1
  <2>7. s[k + 1] = s[k] + (p * sum[k]) /\ l[k + 1] = l[k] + (p * x) /\ m[k + 1] = m[k] + (p * y)
    BY <1>3, <1>4, <1>5, <2>1
  <2>8. Word \in Nat \ {0}
    BY Sizes
  <2> HIDE DEF p, x, y, c
  <2>9. CarriedOn(p, Word, x, y, c, s[k], l[k], m[k])
    BY <2>2, <2>3, <2>4, <2>5, <2>8, AddWord
  <2>10. (s[k] + (p * ((x + y + c) % Word))) + (((x + y + c) \div Word) * (p * Word))
          = (l[k] + (p * x)) + (m[k] + (p * y))
    BY <2>9 DEF CarriedOn
  <2> QED
    BY <2>2, <2>6, <2>7, <2>10
<1>10. \A k \in Nat : k \in T
  <2> HIDE DEF T
  <2> QED
    BY <1>8, <1>9, SetInduction
<1>11. NWords \in Nat /\ NWords \in 0 .. NWords /\ NWords <= NWords /\ Bits = WordBits * NWords
  BY Sizes
<1>12. s[NWords] + (carry[NWords] * pow2[Bits]) = l[NWords] + m[NWords]
  BY <1>10, <1>11
<1>13. carry[NWords] \in Int /\ pow2[Bits] \in Nat \ {0} /\ s[NWords] \in Int
  <2>1. Bits \in Nat
    BY Sizes
  <2>2. pow2[Bits] \in Nat \ {0}
    BY <2>1, Pow2Step
  <2> QED
    BY <1>2, <1>3, <1>11, <2>2
<1>14. (s[NWords] + (carry[NWords] * pow2[Bits])) % pow2[Bits] = s[NWords] % pow2[Bits]
  BY <1>13, ModShift
<1>15. s[NWords] % pow2[Bits] = s[NWords]
  BY <1>7, <1>13, ModSmall
<1> QED
  BY <1>1, <1>6, <1>12, <1>14, <1>15 DEF sum

-----------------------------------------------------------------------------
(* The modulus.                                                            *)
LEMMA Pow2Bits == pow2[Bits] \in Nat \ {0}
<1>1. Bits \in Nat
  BY Sizes
<1> QED
  BY <1>1, Pow2Step

(* The number 1 fits a word.                                               *)
LEMMA WordAtLeastTwo == Word - 1 \in Nat /\ 1 \in 0 .. (Word - 1)
<1>1. WordBits - 1 \in Nat /\ (WordBits - 1) + 1 = WordBits /\ Word = pow2[WordBits]
  BY Sizes
<1>2. pow2[WordBits - 1] \in Nat \ {0} /\ pow2[(WordBits - 1) + 1] = 2 * pow2[WordBits - 1]
  BY <1>1, Pow2Step
<1>3. Word = 2 * pow2[WordBits - 1]
  BY <1>1, <1>2
<1> QED
  BY <1>2, <1>3

(* uint256_create_from_u32() keeps the number.                             *)
LEMMA SmallValue ==
  ASSUME NEW v \in 0 .. (Word - 1)
  PROVE  create_from_u32(v) \in UInt /\ Value(create_from_u32(v)) = v
<1> DEFINE val == create_from_u32(v)
           low == LowValues(val)
           T == { k \in Nat : k < NWords => low[k + 1] = v }
<1>1. Word \in Nat \ {0} /\ NWords \in Nat \ {0} /\ v \in Nat
  BY Sizes
<1>2. val \in UInt
  BY <1>1 DEF create_from_u32, UInt
<1>3. \A w \in Words : val[w] = IF w = 0 THEN v ELSE 0
  BY DEF create_from_u32
<1> HIDE DEF val
<1>4. /\ low[0] = 0
      /\ \A w \in Words : low[w + 1] = low[w] + (pow2[WordBits * w] * val[w])
  BY <1>2, LowValuesStep
<1>5. Value(val) = low[NWords]
  BY DEF Value
<1> HIDE DEF low
<1>6. 0 \in T
  <2>1. 0 \in Words
    BY <1>1 DEF Words
  <2>2. val[0] = v
    BY <1>3, <2>1
  <2>3. WordBits * 0 = 0
    <3>1. WordBits \in Nat
      BY Sizes
    <3> QED
      BY <3>1
  <2>4. pow2[WordBits * 0] = 1
    BY <2>3, Pow2Step
  <2>5. low[0 + 1] = 0 + (1 * v)
    BY <1>4, <2>1, <2>2, <2>4
  <2>6. 0 + (1 * v) = v
    BY <1>1
  <2> QED
    BY <2>5, <2>6
<1>7. ASSUME NEW k \in Nat, k \in T PROVE k + 1 \in T
  <2> SUFFICES ASSUME k + 1 < NWords PROVE low[(k + 1) + 1] = v
    OBVIOUS
  <2>1. k + 1 \in Words /\ k < NWords /\ k + 1 # 0
    BY <1>1 DEF Words
  <2>2. low[k + 1] = v /\ val[k + 1] = 0
    BY <1>3, <1>7, <2>1
  <2>3. pow2[WordBits * (k + 1)] \in Nat
    <3>1. k + 1 \in Nat
      OBVIOUS
    <3> QED
      BY <3>1, Weight
  <2>4. low[(k + 1) + 1] = v + (pow2[WordBits * (k + 1)] * 0)
    BY <1>4, <2>1, <2>2
  <2> QED
    BY <1>1, <2>3, <2>4
<1>8. \A k \in Nat : k \in T
  <2> HIDE DEF T
  <2> QED
    BY <1>6, <1>7, SetInduction
<1>9. NWords - 1 \in Nat /\ NWords - 1 < NWords /\ (NWords - 1) + 1 = NWords
  BY <1>1
<1>10. low[NWords] = v
  <2>1. low[(NWords - 1) + 1] = v
    BY <1>8, <1>9
  <2> QED
    BY <1>9, <2>1
<1> QED
  BY <1>2, <1>5, <1>10 DEF val

(* Subtraction is subtraction modulo 2^256.                                *)
LEMMA ComplementValue ==
  ASSUME NEW val \in UInt
  PROVE  /\ [w \in Words |-> Word - 1 - val[w]] \in UInt
         /\ Value([w \in Words |-> Word - 1 - val[w]]) = pow2[Bits] - 1 - Value(val)
<1> DEFINE comp == [w \in Words |-> Word - 1 - val[w]]
           low == LowValues(val)
           lowc == LowValues(comp)
           T == { k \in Nat : k <= NWords => lowc[k] = pow2[WordBits * k] - 1 - low[k] }
<1>1. Word \in Nat \ {0} /\ NWords \in Nat \ {0} /\ WordBits \in Nat
  BY Sizes
<1>2. comp \in UInt
  <2>1. ASSUME NEW w \in Words PROVE Word - 1 - val[w] \in 0 .. (Word - 1)
    <3>1. val[w] \in 0 .. (Word - 1)
      BY WordOf
    <3> QED
      BY <1>1, <3>1
  <2> QED
    BY <2>1 DEF UInt
<1>3. \A w \in Words : comp[w] = Word - 1 - val[w]
  OBVIOUS
<1> HIDE DEF comp
<1>4. lowc[0] = 0 /\ \A w \in Words : lowc[w + 1] = lowc[w] + (pow2[WordBits * w] * comp[w])
  BY <1>2, LowValuesStep
<1>5. /\ low \in [0 .. NWords -> Nat] /\ low[0] = 0
      /\ \A w \in Words : low[w + 1] = low[w] + (pow2[WordBits * w] * val[w])
  BY LowValuesStep
<1>6. Value(comp) = lowc[NWords] /\ Value(val) = low[NWords]
  BY DEF Value
<1> HIDE DEF low, lowc
<1>7. 0 \in T
  <2>1. WordBits * 0 = 0
    BY <1>1
  <2>2. pow2[WordBits * 0] = 1
    BY <2>1, Pow2Step
  <2> QED
    BY <1>4, <1>5, <2>2
<1>8. ASSUME NEW k \in Nat, k \in T PROVE k + 1 \in T
  <2> SUFFICES ASSUME k + 1 <= NWords PROVE lowc[k + 1] = pow2[WordBits * (k + 1)] - 1 - low[k + 1]
    OBVIOUS
  <2> DEFINE p == pow2[WordBits * k]
             v == val[k]
             l == low[k]
  <2>1. k \in Words /\ k <= NWords /\ k \in 0 .. NWords
    BY <1>1 DEF Words
  <2>2. p \in Nat /\ pow2[WordBits * (k + 1)] = p * Word
    BY Weight
  <2>3. v \in Nat
    BY <2>1, WordOf
  <2>4. l \in Nat
    BY <1>5, <2>1
  <2>5. lowc[k] = p - 1 - l
    BY <1>8, <2>1
  <2>6. comp[k] = Word - 1 - v
    BY <1>3, <2>1
  <2>7. lowc[k + 1] = lowc[k] + (p * comp[k]) /\ low[k + 1] = l + (p * v)
    BY <1>4, <1>5, <2>1
  <2> HIDE DEF p, v, l
  <2>8. (p - 1 - l) + (p * (Word - 1 - v)) = (p * Word) - 1 - (l + (p * v))
    BY <1>1, <2>2, <2>3, <2>4
  <2> QED
    BY <2>2, <2>5, <2>6, <2>7, <2>8
<1>9. \A k \in Nat : k \in T
  <2> HIDE DEF T
  <2> QED
    BY <1>7, <1>8, SetInduction
<1>10. NWords \in Nat /\ NWords <= NWords /\ Bits = WordBits * NWords
  BY Sizes
<1>11. lowc[NWords] = pow2[Bits] - 1 - low[NWords]
  BY <1>9, <1>10
<1> QED
  BY <1>2, <1>6, <1>11 DEF comp

(* The complement plus one is the negation.                                *)
LEMMA NegateValue ==
  ASSUME NEW val \in UInt
  PROVE  negate(val) \in UInt /\ Value(negate(val)) = (pow2[Bits] - Value(val)) % pow2[Bits]
<1> DEFINE comp == [w \in Words |-> Word - 1 - val[w]]
           one == create_from_u32(1)
<1>1. comp \in UInt /\ Value(comp) = pow2[Bits] - 1 - Value(val)
  BY ComplementValue
<1>2. one \in UInt /\ Value(one) = 1
  BY WordAtLeastTwo, SmallValue
<1>3. negate(val) = add(comp, one)
  BY DEF negate
<1> HIDE DEF comp, one
<1>4. add(comp, one) \in UInt /\ Value(add(comp, one)) = (Value(comp) + Value(one)) % pow2[Bits]
  BY <1>1, <1>2, AddValue
<1>5. pow2[Bits] \in Int /\ Value(val) \in Int
  BY Pow2Bits, ValueBound
<1>6. (pow2[Bits] - 1 - Value(val)) + 1 = pow2[Bits] - Value(val)
  BY <1>5
<1> QED
  BY <1>1, <1>2, <1>3, <1>4, <1>6

(* uint256_sub() is subtraction modulo 2^256.                              *)
LEMMA SubValue ==
  ASSUME NEW a \in UInt, NEW b \in UInt
  PROVE  sub(a, b) \in UInt /\ Value(sub(a, b)) = (Value(a) - Value(b)) % pow2[Bits]
<1> DEFINE m == pow2[Bits]
           va == Value(a)
           vb == Value(b)
           neg == negate(b)
<1>1. m \in Nat \ {0} /\ va \in Int /\ vb \in Int
  BY Pow2Bits, ValueBound
<1>2. neg \in UInt /\ Value(neg) = (m - vb) % m
  BY NegateValue
<1>3. sub(a, b) = add(a, neg)
  BY DEF sub
<1> HIDE DEF neg
<1>4. add(a, neg) \in UInt /\ Value(add(a, neg)) = (va + Value(neg)) % m
  BY <1>2, AddValue
<1> HIDE DEF m, va, vb
<1>5. m - vb \in Int /\ va - vb \in Int
  BY <1>1
<1>6. (((m - vb) % m) + va) % m = ((m - vb) + va) % m
  BY <1>1, <1>5, ModSum
<1>7. ((va - vb) + (1 * m)) % m = (va - vb) % m
  <2>1. 1 \in Int
    OBVIOUS
  <2> QED
    BY <1>1, <1>5, <2>1, ModShift
<1>8. (m - vb) + va = (va - vb) + (1 * m)
  BY <1>1
<1>9. (m - vb) % m \in Int
  BY <1>1, <1>5, Division
<1>10. va + ((m - vb) % m) = ((m - vb) % m) + va
  BY <1>1, <1>9
<1>11. Value(add(a, neg)) = (va - vb) % m
  BY <1>2, <1>4, <1>6, <1>7, <1>8, <1>10
<1> QED
  BY <1>3, <1>4, <1>11 DEF m, va, vb

(* Adding the subtrahend again gives the minuend back.                     *)
LEMMA SubtractThenAdd ==
  ASSUME NEW a \in UInt, NEW b \in UInt
  PROVE  add(sub(a, b), b) = a
<1> DEFINE m == pow2[Bits]
           va == Value(a)
           vb == Value(b)
           d == sub(a, b)
<1>1. m \in Nat \ {0} /\ va \in 0 .. (m - 1) /\ vb \in Int
  BY Pow2Bits, ValueBound
<1>2. d \in UInt /\ Value(d) = (va - vb) % m
  BY SubValue
<1> HIDE DEF d
<1>3. add(d, b) \in UInt /\ Value(add(d, b)) = (Value(d) + vb) % m
  BY <1>2, AddValue
<1> HIDE DEF m, va, vb
<1>4. va - vb \in Int /\ (va - vb) + vb = va
  BY <1>1
<1>5. (((va - vb) % m) + vb) % m = ((va - vb) + vb) % m
  BY <1>1, <1>4, ModSum
<1>6. va % m = va
  BY <1>1, ModSmall
<1>7. Value(add(d, b)) = Value(a)
  BY <1>2, <1>3, <1>4, <1>5, <1>6 DEF va
<1>8. add(d, b) = a
  BY <1>3, <1>7, ValueInjective
<1> QED
  BY <1>8 DEF d

-----------------------------------------------------------------------------
(* A left shift moves whole words and then bits: a multiplication modulo   *)
(* 2^256.                                                                  *)
Moved(val, words) == [w \in Words |-> IF w >= words THEN val[w - words] ELSE 0]

(* Moving by whole words.                                                  *)
LEMMA MovedValue ==
  ASSUME NEW val \in UInt, NEW q \in Words
  PROVE  /\ Moved(val, q) \in UInt
         /\ Value(Moved(val, q)) = (Value(val) * pow2[WordBits * q]) % pow2[Bits]
<1> DEFINE new == Moved(val, q)
           low == LowValues(val)
           lown == LowValues(new)
           pq == pow2[WordBits * q]
           T == { k \in Nat : k <= q => lown[k] = 0 }
           U == { k \in Nat : k <= NWords - q => lown[q + k] = pq * low[k] }
<1>1. Word \in Nat \ {0} /\ NWords \in Nat \ {0} /\ WordBits \in Nat /\ q \in Nat /\ q < NWords
  BY Sizes DEF Words
<1>2. ASSUME NEW w \in Words PROVE w >= q => w - q \in Words /\ val[w - q] \in 0 .. (Word - 1)
  <2> SUFFICES ASSUME w >= q PROVE w - q \in Words /\ val[w - q] \in 0 .. (Word - 1)
    OBVIOUS
  <2>1. w - q \in Words
    BY <1>1 DEF Words
  <2> QED
    BY <2>1, WordOf
<1>3. new \in UInt
  <2>1. ASSUME NEW w \in Words PROVE (IF w >= q THEN val[w - q] ELSE 0) \in 0 .. (Word - 1)
    BY <1>1, <1>2
  <2> QED
    BY <2>1 DEF UInt, Moved
<1>4. \A w \in Words : new[w] = IF w >= q THEN val[w - q] ELSE 0
  BY DEF Moved
<1> HIDE DEF new
<1>5. lown[0] = 0 /\ \A w \in Words : lown[w + 1] = lown[w] + (pow2[WordBits * w] * new[w])
  BY <1>3, LowValuesStep
<1>6. /\ low \in [0 .. NWords -> Nat] /\ low[0] = 0
      /\ \A w \in Words : low[w + 1] = low[w] + (pow2[WordBits * w] * val[w])
  BY LowValuesStep
<1>7. Value(new) = lown[NWords] /\ lown[NWords] \in 0 .. (pow2[Bits] - 1)
  BY <1>3, ValueBound DEF Value
<1>8. NWords - q \in 0 .. NWords
  BY <1>1
<1>9. PICK h \in Nat : Value(val) = low[NWords - q] + (pow2[WordBits * (NWords - q)] * h)
  BY <1>8, HighWords
<1>10. pq \in Nat \ {0}
  BY <1>1, Weight
<1> HIDE DEF low, lown
<1>11. 0 \in T
  BY <1>5
<1>12. ASSUME NEW k \in Nat, k \in T PROVE k + 1 \in T
  <2> SUFFICES ASSUME k + 1 <= q PROVE lown[k + 1] = 0
    OBVIOUS
  <2>1. k \in Words /\ k <= q /\ ~(k >= q)
    BY <1>1 DEF Words
  <2>2. new[k] = 0 /\ lown[k] = 0
    BY <1>4, <1>12, <2>1
  <2>3. pow2[WordBits * k] \in Nat
    BY Weight
  <2>4. lown[k + 1] = 0 + (pow2[WordBits * k] * 0)
    BY <1>5, <2>1, <2>2
  <2> QED
    BY <2>3, <2>4
<1>13. \A k \in Nat : k \in T
  <2> HIDE DEF T
  <2> QED
    BY <1>11, <1>12, SetInduction
<1>14. 0 \in U
  <2>1. lown[q] = 0 /\ q + 0 = q
    BY <1>1, <1>13
  <2>2. pq * low[0] = 0
    BY <1>6, <1>10
  <2> QED
    BY <2>1, <2>2
<1>15. ASSUME NEW k \in Nat, k \in U PROVE k + 1 \in U
  <2> SUFFICES ASSUME k + 1 <= NWords - q PROVE lown[q + (k + 1)] = pq * low[k + 1]
    OBVIOUS
  <2> DEFINE p == pow2[WordBits * k]
             v == val[k]
             l == low[k]
  <2>1. /\ q + k \in Words /\ q + k >= q /\ (q + k) - q = k /\ q + (k + 1) = (q + k) + 1
        /\ k <= NWords - q /\ k \in Words /\ k \in 0 .. NWords
    BY <1>1 DEF Words
  <2>2. new[q + k] = v
    BY <1>4, <2>1
  <2>3. lown[q + k] = pq * l
    BY <1>15, <2>1
  <2>4. pow2[WordBits * (q + k)] = pq * p
    <3>1. WordBits * (q + k) = (WordBits * q) + (WordBits * k)
      BY <1>1
    <3>2. WordBits * q \in Nat /\ WordBits * k \in Nat
      BY <1>1, Weight
    <3>3. pow2[(WordBits * q) + (WordBits * k)] = pq * p
      BY <3>2, Pow2Sum
    <3> QED
      BY <3>1, <3>3
  <2>5. p \in Nat
    BY Weight
  <2>6. v \in Nat
    BY <2>1, WordOf
  <2>7. l \in Nat
    BY <1>6, <2>1
  <2>8. lown[(q + k) + 1] = lown[q + k] + (pow2[WordBits * (q + k)] * new[q + k])
    BY <1>5, <2>1
  <2>9. low[k + 1] = l + (p * v)
    BY <1>6, <2>1
  <2> HIDE DEF p, v, l
  <2> HIDE DEF pq
  <2>10. (pq * l) + ((pq * p) * v) = pq * (l + (p * v))
    BY <1>10, <2>5, <2>6, <2>7
  <2> QED
    BY <2>1, <2>2, <2>3, <2>4, <2>8, <2>9, <2>10
<1>16. \A k \in Nat : k \in U
  <2> HIDE DEF U
  <2> QED
    BY <1>14, <1>15, SetInduction
<1>17. lown[NWords] = pq * low[NWords - q]
  <2>1. NWords - q \in Nat /\ NWords - q <= NWords - q /\ q + (NWords - q) = NWords
    BY <1>1
  <2>2. lown[q + (NWords - q)] = pq * low[NWords - q]
    BY <1>16, <2>1
  <2> QED
    BY <2>1, <2>2
<1>18. pow2[Bits] = pow2[WordBits * (NWords - q)] * pq
  <2>1. WordBits * (NWords - q) \in Nat /\ WordBits * q \in Nat
    BY <1>1, <1>8, Weight
  <2>2. (WordBits * (NWords - q)) + (WordBits * q) = Bits
    BY <1>1 DEF Bits
  <2>3. pow2[(WordBits * (NWords - q)) + (WordBits * q)] = pow2[WordBits * (NWords - q)] * pq
    BY <2>1, Pow2Sum
  <2> QED
    BY <2>2, <2>3
<1> DEFINE l == low[NWords - q]
           r == pow2[WordBits * (NWords - q)]
<1>19. l \in Nat
  BY <1>6, <1>8
<1>20. r \in Nat
  <2>1. NWords - q \in Nat
    BY <1>8
  <2> QED
    BY <2>1, Weight
<1> HIDE DEF pq, l, r
<1>21. (l + (r * h)) * pq = (pq * l) + (h * (r * pq))
  BY <1>10, <1>19, <1>20
<1>22. Value(val) * pq = lown[NWords] + (h * pow2[Bits])
  BY <1>9, <1>17, <1>18, <1>21 DEF l, r
<1>23. (lown[NWords] + (h * pow2[Bits])) % pow2[Bits] = lown[NWords] % pow2[Bits]
  <2>1. lown[NWords] \in Int /\ h \in Int
    BY <1>7, Pow2Bits
  <2> QED
    BY <2>1, Pow2Bits, ModShift
<1>24. lown[NWords] % pow2[Bits] = lown[NWords]
  BY <1>7, Pow2Bits, ModSmall
<1>25. Value(new) = (Value(val) * pq) % pow2[Bits]
  BY <1>7, <1>22, <1>23, <1>24
<1> QED
  BY <1>3, <1>25 DEF new, pq

(* A word shifted by some bits, with the bits that come in from below.     *)
LEMMA ShiftWord ==
  ASSUME NEW e \in Nat \ {0}, NEW f \in Nat \ {0}, NEW v \in 0 .. ((e * f) - 1),
         NEW t \in 0 .. (e - 1)
  PROVE  /\ v \div f \in 0 .. (e - 1)
         /\ ((v * e) % (e * f)) \in Nat
         /\ ((v * e) % (e * f)) + t \in 0 .. ((e * f) - 1)
         /\ v * e = ((v \div f) * (e * f)) + ((v * e) % (e * f))
<1> DEFINE x == v \div f
           y == v % f
<1>1. e * f \in Nat \ {0} /\ v \in Nat /\ v < e * f
  OBVIOUS
<1>2. x \in Nat /\ y \in 0 .. (f - 1) /\ v = (x * f) + y
  <2>1. v \in Int
    BY <1>1
  <2> QED
    BY <1>1, <2>1, Division
<1> HIDE DEF x, y
<1>3. x < e
  <2>1. e <= x => e * f <= x * f
    BY <1>2, Products
  <2>2. x * f \in Nat
    BY <1>2
  <2> QED
    BY <1>1, <1>2, <2>1, <2>2
<1>4. t + (e * y) \in 0 .. ((e * f) - 1)
  BY <1>2, Joined
<1>5. e * y \in Nat
  BY <1>2
<1>6. e * y \in 0 .. ((e * f) - 1)
  BY <1>1, <1>4, <1>5
<1>7. v * e = (x * (e * f)) + (e * y)
  BY <1>2
<1>8. (v * e) % (e * f) = e * y
  <2> DEFINE m == e * f
             r == e * y
  <2>1. m \in Nat \ {0} /\ r \in 0 .. (m - 1) /\ x \in Int
    BY <1>1, <1>2, <1>6
  <2>2. v * e = (x * m) + r
    BY <1>7
  <2> HIDE DEF m, r
  <2>3. ((x * m) + r) % m = r
    BY <2>1, DivisionUnique
  <2>4. (v * e) % m = r
    BY <2>2, <2>3
  <2> QED
    BY <2>4 DEF m, r
<1>9. (e * y) + t = t + (e * y)
  BY <1>5
<1> QED
  BY <1>2, <1>3, <1>4, <1>5, <1>7, <1>8, <1>9 DEF x

ShiftedBits(val, bits) ==
  [w \in Words |->
     ((val[w] * pow2[bits]) % Word) + IF w = 0 THEN 0 ELSE val[w - 1] \div pow2[WordBits - bits]]

(* Shifting by fewer bits than a word has: what leaves a word at its upper *)
(* end enters the next one at its lower end.                               *)
LEMMA ShiftedBitsValue ==
  ASSUME NEW val \in UInt, NEW bits \in 1 .. (WordBits - 1)
  PROVE  /\ ShiftedBits(val, bits) \in UInt
         /\ Value(ShiftedBits(val, bits)) = (Value(val) * pow2[bits]) % pow2[Bits]
<1> DEFINE new == ShiftedBits(val, bits)
           e == pow2[bits]
           f == pow2[WordBits - bits]
           In(k) == IF k = 0 THEN 0 ELSE val[k - 1] \div f
           low == LowValues(val)
           lown == LowValues(new)
           T == { k \in Nat : k <= NWords => lown[k] + (pow2[WordBits * k] * In(k)) = low[k] * e }
<1>1. NWords \in Nat \ {0} /\ WordBits \in Nat
  BY Sizes
<1>2. e \in Nat \ {0} /\ f \in Nat \ {0} /\ Word = e * f
  <2>1. bits \in Nat /\ WordBits - bits \in Nat /\ bits + (WordBits - bits) = WordBits
    BY <1>1
  <2>2. e \in Nat \ {0} /\ f \in Nat \ {0}
    BY <2>1, Pow2Step
  <2>3. pow2[bits + (WordBits - bits)] = e * f
    BY <2>1, Pow2Sum
  <2> QED
    BY <2>1, <2>2, <2>3, Sizes
<1> HIDE DEF e, f
<1>3. ASSUME NEW w \in Words, NEW t \in 0 .. (e - 1)
      PROVE  /\ val[w] \div f \in 0 .. (e - 1)
             /\ ((val[w] * e) % Word) \in Nat
             /\ ((val[w] * e) % Word) + t \in 0 .. (Word - 1)
             /\ val[w] * e = ((val[w] \div f) * Word) + ((val[w] * e) % Word)
  <2>1. val[w] \in 0 .. ((e * f) - 1)
    BY <1>2, WordOf
  <2> QED
    BY <1>2, <2>1, ShiftWord
<1>4. ASSUME NEW w \in Words PROVE In(w) \in 0 .. (e - 1)
  <2>1. 0 \in 0 .. (e - 1)
    BY <1>2
  <2>2. CASE w = 0
    BY <2>1, <2>2
  <2>3. CASE w # 0
    <3>1. w - 1 \in Words
      BY <1>1, <2>3 DEF Words
    <3> QED
      BY <1>3, <2>1, <2>3, <3>1
  <2> QED
    BY <2>2, <2>3
<1>5. new = [w \in Words |-> ((val[w] * e) % Word) + In(w)]
  BY DEF ShiftedBits, e, f
<1>6. new \in UInt
  <2>1. ASSUME NEW w \in Words PROVE ((val[w] * e) % Word) + In(w) \in 0 .. (Word - 1)
    BY <1>3, <1>4
  <2> QED
    BY <1>5, <2>1 DEF UInt
<1>7. \A w \in Words : new[w] = ((val[w] * e) % Word) + In(w)
  BY <1>5
<1> HIDE DEF new
<1>8. lown[0] = 0 /\ \A w \in Words : lown[w + 1] = lown[w] + (pow2[WordBits * w] * new[w])
  BY <1>6, LowValuesStep
<1>9. /\ low \in [0 .. NWords -> Nat] /\ low[0] = 0
      /\ \A w \in Words : low[w + 1] = low[w] + (pow2[WordBits * w] * val[w])
  BY LowValuesStep
<1>10. Value(new) = lown[NWords] /\ lown[NWords] \in 0 .. (pow2[Bits] - 1) /\ Value(val) = low[NWords]
  BY <1>6, ValueBound DEF Value
<1>11. lown \in [0 .. NWords -> Nat]
  BY <1>6, LowValuesStep
<1> HIDE DEF low, lown
<1>12. 0 \in T
  <2>1. pow2[WordBits * 0] \in Nat
    BY Weight
  <2> QED
    BY <1>2, <1>8, <1>9, <2>1
<1>13. ASSUME NEW k \in Nat, k \in T PROVE k + 1 \in T
  <2> SUFFICES ASSUME k + 1 <= NWords
               PROVE  lown[k + 1] + (pow2[WordBits * (k + 1)] * In(k + 1)) = low[k + 1] * e
    OBVIOUS
  <2> DEFINE p == pow2[WordBits * k]
             v == val[k]
             c == In(k)
             d == v \div f
             r == (v * e) % Word
             l == low[k]
             m == lown[k]
  <2>1. k \in Words /\ k <= NWords /\ k \in 0 .. NWords /\ k + 1 # 0 /\ (k + 1) - 1 = k
    BY <1>1 DEF Words
  <2>2. p \in Nat /\ pow2[WordBits * (k + 1)] = p * Word
    BY Weight
  <2>3. v \in Nat
    BY <2>1, WordOf
  <2>4. l \in Nat /\ m \in Nat
    BY <1>9, <1>11, <2>1
  <2>5. c \in 0 .. (e - 1)
    BY <1>4, <2>1
  <2>6. In(k + 1) = d
    BY <2>1
  <2>7. d \in 0 .. (e - 1) /\ r \in Nat /\ v * e = (d * Word) + r
    BY <1>3, <2>1, <2>5
  <2>8. m + (p * c) = l * e
    BY <1>13, <2>1
  <2>9. lown[k + 1] = m + (p * (r + c)) /\ low[k + 1] = l + (p * v)
    BY <1>7, <1>8, <1>9, <2>1
  <2>10. Word \in Nat
    BY Sizes
  <2>11. c \in Nat /\ d \in Nat
    BY <1>2, <2>5, <2>7
  <2> HIDE DEF p, v, c, d, r, l, m
  <2>12. (m + (p * (r + c))) + ((p * Word) * d) = (m + (p * c)) + (p * ((d * Word) + r))
    BY <2>2, <2>4, <2>7, <2>10, <2>11
  <2>13. (l * e) + (p * (v * e)) = (l + (p * v)) * e
    BY <1>2, <2>2, <2>3, <2>4
  <2> QED
    BY <2>2, <2>6, <2>7, <2>8, <2>9, <2>12, <2>13
<1>14. \A k \in Nat : k \in T
  <2> HIDE DEF T
  <2> QED
    BY <1>12, <1>13, SetInduction
<1>15. NWords \in Nat /\ NWords <= NWords /\ Bits = WordBits * NWords /\ NWords # 0 /\ NWords - 1 \in Words
  BY Sizes DEF Words
<1>16. lown[NWords] + (pow2[Bits] * In(NWords)) = low[NWords] * e
  BY <1>14, <1>15
<1>17. In(NWords) \in Int
  <2>1. 0 \in 0 .. (e - 1)
    BY <1>2
  <2>2. val[NWords - 1] \div f \in 0 .. (e - 1)
    BY <1>3, <1>15, <2>1
  <2> QED
    BY <1>15, <2>2
<1> HIDE DEF In
<1>18. lown[NWords] \in Int /\ pow2[Bits] \in Int
  BY <1>10, Pow2Bits
<1>19. pow2[Bits] * In(NWords) = In(NWords) * pow2[Bits]
  BY <1>17, <1>18
<1>20. (lown[NWords] + (In(NWords) * pow2[Bits])) % pow2[Bits] = lown[NWords] % pow2[Bits]
  BY <1>17, <1>18, Pow2Bits, ModShift
<1>21. lown[NWords] % pow2[Bits] = lown[NWords]
  BY <1>10, Pow2Bits, ModSmall
<1>22. Value(new) = (Value(val) * e) % pow2[Bits]
  BY <1>10, <1>16, <1>19, <1>20, <1>21
<1> QED
  BY <1>6, <1>22 DEF new, e

(* uint256_lshift() is multiplication by a power of two modulo 2^256, for  *)
(* every shift the assertion of the code allows.                           *)
THEOREM LshiftValue ==
  ASSUME NEW val \in UInt, NEW shift \in 0 .. (Bits - 1)
  PROVE  /\ lshift(val, shift) \in UInt
         /\ Value(lshift(val, shift)) = (Value(val) * pow2[shift]) % pow2[Bits]
<1> DEFINE q == shift \div WordBits
           b == shift % WordBits
           moved == Moved(val, q)
<1>1. WordBits \in Nat \ {0} /\ NWords \in Nat \ {0} /\ Bits = WordBits * NWords /\ shift \in Nat
  BY Sizes
<1>2. q \in Nat /\ b \in 0 .. (WordBits - 1) /\ shift = (q * WordBits) + b
  <2>1. shift \in Int
    BY <1>1
  <2> QED
    BY <1>1, <2>1, Division
<1>3. lshift(val, shift) = IF b = 0 THEN moved ELSE ShiftedBits(moved, b)
  BY DEF lshift, Moved, ShiftedBits
<1> HIDE DEF q, b
<1>4. q \in Words
  <2>1. NWords <= q => NWords * WordBits <= q * WordBits
    BY <1>1, <1>2, Products
  <2>2. q * WordBits \in Nat /\ NWords * WordBits = WordBits * NWords
    BY <1>1, <1>2
  <2>3. shift < WordBits * NWords
    BY <1>1, <2>2
  <2> QED
    BY <1>1, <1>2, <2>1, <2>2, <2>3 DEF Words
<1>5. moved \in UInt /\ Value(moved) = (Value(val) * pow2[WordBits * q]) % pow2[Bits]
  BY <1>4, MovedValue
<1> HIDE DEF moved
<1>6. WordBits * q \in Nat /\ q * WordBits = WordBits * q /\ b \in Nat
  BY <1>1, <1>2
<1>7. pow2[shift] = pow2[WordBits * q] * pow2[b]
  BY <1>2, <1>6, Pow2Sum
<1>8. CASE b = 0
  <2>1. shift = WordBits * q
    BY <1>2, <1>6, <1>8
  <2> QED
    BY <1>3, <1>5, <1>8, <2>1
<1>9. CASE b # 0
  <2>1. b \in 1 .. (WordBits - 1)
    BY <1>1, <1>2, <1>9
  <2>2. /\ ShiftedBits(moved, b) \in UInt
        /\ Value(ShiftedBits(moved, b)) = (Value(moved) * pow2[b]) % pow2[Bits]
    BY <1>5, <2>1, ShiftedBitsValue
  <2> DEFINE x == Value(val)
             y == pow2[WordBits * q]
             z == pow2[b]
             m == pow2[Bits]
  <2>3. x \in Int /\ y \in Int /\ z \in Int /\ m \in Nat \ {0}
    BY <1>6, Pow2Step, Pow2Bits, ValueBound
  <2>4. Value(moved) = (x * y) % m /\ Value(ShiftedBits(moved, b)) = (Value(moved) * z) % m
    BY <1>5, <2>2
  <2>5. pow2[shift] = y * z
    BY <1>7
  <2> HIDE DEF x, y, z, m
  <2>6. x * y \in Int /\ (x * y) * z = x * (y * z)
    BY <2>3
  <2>7. (((x * y) % m) * z) % m = ((x * y) * z) % m
    BY <2>3, <2>6, ModProduct
  <2>8. Value(ShiftedBits(moved, b)) = (x * pow2[shift]) % m
    BY <2>4, <2>5, <2>6, <2>7
  <2> QED
    BY <1>3, <1>9, <2>2, <2>8 DEF x, m
<1> QED
  BY <1>8, <1>9

-----------------------------------------------------------------------------
(* Numbers read from digits.                                               *)
LEMMA Base ==
  ASSUME NEW n \in Nat
  PROVE  /\ DigitBits * n \in Nat /\ pow2[DigitBits * n] \in Nat \ {0}
         /\ pow2[DigitBits * (n + 1)] = pow2[DigitBits * n] * pow2[DigitBits]
         /\ pow2[DigitBits] \in Nat \ {0}
<1>1. DigitBits \in Nat /\ DigitBits * n \in Nat /\ DigitBits * (n + 1) = (DigitBits * n) + DigitBits
  BY Sizes
<1>2. pow2[(DigitBits * n) + DigitBits] = pow2[DigitBits * n] * pow2[DigitBits]
  BY <1>1, Pow2Sum
<1> QED
  BY <1>1, <1>2, Pow2Step

(* A digit of a text.                                                      *)
LEMMA DigitOf ==
  ASSUME NEW digits \in Seq(Digit), NEW n \in 1 .. Len(digits)
  PROVE  digits[n] \in 0 .. (pow2[DigitBits] - 1) /\ digits[n] \in Nat
<1>1. digits[n] \in Digit
  OBVIOUS
<1> QED
  BY <1>1 DEF Digit

(* The number of some digits is below the weight of the next one.          *)
LEMMA NumberBound ==
  ASSUME NEW digits \in Seq(Digit), NEW n \in 0 .. Len(digits)
  PROVE  NumbersOf(digits)[n] \in 0 .. (pow2[DigitBits * n] - 1)
<1> DEFINE num == NumbersOf(digits)
           L == Len(digits)
           D == pow2[DigitBits]
           T == { k \in Nat : k <= L => num[k] \in 0 .. (pow2[DigitBits * k] - 1) }
<1>1. /\ num[0] = 0
      /\ \A k \in 0 .. (L - 1) : num[k + 1] = (num[k] * D) + digits[k + 1]
  BY NumbersStep
<1>2. L \in Nat
  OBVIOUS
<1>3. \A k \in 1 .. L : digits[k] \in 0 .. (D - 1)
  BY DigitOf
<1> HIDE DEF num, L
<1>4. 0 \in T
  <2>1. pow2[DigitBits * 0] \in Nat \ {0}
    BY Base
  <2> QED
    BY <1>1, <2>1
<1>5. ASSUME NEW k \in Nat, k \in T PROVE k + 1 \in T
  <2> SUFFICES ASSUME k + 1 <= L PROVE num[k + 1] \in 0 .. (pow2[DigitBits * (k + 1)] - 1)
    OBVIOUS
  <2> DEFINE p == pow2[DigitBits * k]
             d == digits[k + 1]
             x == num[k]
  <2>1. k \in 0 .. (L - 1) /\ k <= L /\ k + 1 \in 1 .. L
    BY <1>2
  <2>2. p \in Nat \ {0} /\ D \in Nat \ {0} /\ pow2[DigitBits * (k + 1)] = p * D
    BY Base
  <2>3. x \in 0 .. (p - 1)
    BY <1>5, <2>1
  <2>4. d \in 0 .. (D - 1)
    BY <1>3, <2>1
  <2>5. num[k + 1] = (x * D) + d
    BY <1>1, <2>1
  <2> HIDE DEF p, d, x, D
  <2>6. d + (D * x) \in 0 .. ((D * p) - 1)
    BY <2>2, <2>3, <2>4, Joined
  <2>7. d + (D * x) = (x * D) + d /\ D * p = p * D
    BY <2>2, <2>3, <2>4
  <2> QED
    BY <2>2, <2>5, <2>6, <2>7
<1>6. \A k \in Nat : k \in T
  <2> HIDE DEF T
  <2> QED
    BY <1>4, <1>5, SetInduction
<1>7. n \in Nat /\ n <= L
  BY <1>2 DEF L
<1>8. num[n] \in 0 .. (pow2[DigitBits * n] - 1)
  BY <1>6, <1>7
<1> QED
  BY <1>8 DEF num

(* The number of some digits, read on from what was read before them.      *)
LEMMA NumberOfPart ==
  ASSUME NEW text \in Seq(Digit), NEW first \in Nat, NEW size \in Nat,
         first + size <= Len(text),
         NEW unit \in Seq(Digit), Len(unit) = size,
         \A k \in 1 .. size : unit[k] = text[first + k]
  PROVE  NumbersOf(text)[first + size]
           = (NumbersOf(text)[first] * pow2[DigitBits * size]) + NumberOf(unit)
<1> DEFINE num == NumbersOf(text)
           numu == NumbersOf(unit)
           L == Len(text)
           D == pow2[DigitBits]
           T == { k \in Nat : k <= size => num[first + k] = (num[first] * pow2[DigitBits * k]) + numu[k] }
<1>1. /\ num \in [0 .. L -> Nat]
      /\ \A k \in 0 .. (L - 1) : num[k + 1] = (num[k] * D) + text[k + 1]
  BY NumbersStep
<1>2. /\ numu \in [0 .. size -> Nat] /\ numu[0] = 0
      /\ \A k \in 0 .. (size - 1) : numu[k + 1] = (numu[k] * D) + unit[k + 1]
  BY NumbersStep
<1>3. L \in Nat /\ first + size <= L
  OBVIOUS
<1>4. NumberOf(unit) = numu[size]
  BY DEF NumberOf
<1>5. \A k \in 1 .. L : text[k] \in Nat
  BY DigitOf
<1> HIDE DEF num, numu, L
<1>6. num[first] \in Nat
  BY <1>1, <1>3
<1>7. 0 \in T
  <2>1. DigitBits * 0 = 0
    BY Sizes
  <2>2. pow2[DigitBits * 0] = 1
    BY <2>1, Pow2Step
  <2>3. first + 0 = first
    OBVIOUS
  <2> QED
    BY <1>2, <1>6, <2>2, <2>3
<1>8. ASSUME NEW k \in Nat, k \in T PROVE k + 1 \in T
  <2> SUFFICES ASSUME k + 1 <= size
               PROVE  num[first + (k + 1)] = (num[first] * pow2[DigitBits * (k + 1)]) + numu[k + 1]
    OBVIOUS
  <2> DEFINE p == pow2[DigitBits * k]
             d == text[first + (k + 1)]
             x == num[first]
             y == numu[k]
  <2>1. /\ k \in 0 .. (size - 1) /\ k <= size /\ first + k \in 0 .. (L - 1)
        /\ first + (k + 1) = (first + k) + 1 /\ first + (k + 1) \in 1 .. L /\ k + 1 \in 1 .. size
        /\ k \in 0 .. size
    BY <1>3
  <2>2. p \in Nat /\ D \in Nat /\ pow2[DigitBits * (k + 1)] = p * D
    BY Base
  <2>3. num[first + k] = (x * p) + y
    BY <1>8, <2>1
  <2>4. num[(first + k) + 1] = (num[first + k] * D) + text[(first + k) + 1]
    BY <1>1, <2>1
  <2>5. numu[k + 1] = (y * D) + unit[k + 1]
    BY <1>2, <2>1
  <2>6. unit[k + 1] = d
    BY <2>1
  <2>7. d \in Nat /\ x \in Nat /\ y \in Nat
    BY <1>2, <1>5, <1>6, <2>1
  <2>8. num[first + (k + 1)] = (num[first + k] * D) + d
    BY <2>1, <2>4
  <2> HIDE DEF p, d, x, y, D
  <2>9. (((x * p) + y) * D) + d = (x * (p * D)) + ((y * D) + d)
    BY <2>2, <2>7
  <2> QED
    BY <2>2, <2>3, <2>5, <2>6, <2>8, <2>9 DEF x
<1>9. \A k \in Nat : k \in T
  <2> HIDE DEF T
  <2> QED
    BY <1>7, <1>8, SetInduction
<1>10. num[first + size] = (num[first] * pow2[DigitBits * size]) + numu[size]
  BY <1>9
<1> QED
  BY <1>4, <1>10 DEF num

(* Powers of two grow.                                                     *)
LEMMA Pow2Grows ==
  ASSUME NEW m \in Nat, NEW n \in Nat, m <= n
  PROVE  pow2[m] <= pow2[n]
<1>1. n - m \in Nat /\ m + (n - m) = n
  OBVIOUS
<1>2. pow2[m] \in Nat /\ pow2[n - m] \in Nat \ {0} /\ pow2[m + (n - m)] = pow2[m] * pow2[n - m]
  BY <1>1, Pow2Step, Pow2Sum
<1>3. 1 <= pow2[n - m] => 1 * pow2[m] <= pow2[n - m] * pow2[m]
  <2>1. pow2[n - m] \in Int /\ 1 \in Int
    BY <1>2
  <2> QED
    BY <1>2, <2>1, Products
<1>4. pow2[n - m] * pow2[m] = pow2[m] * pow2[n - m]
  BY <1>2
<1> QED
  BY <1>1, <1>2, <1>3, <1>4

-----------------------------------------------------------------------------
(* Reading text: the digits before the w-th unit from the end.             *)
Before(text, w) == IF Len(text) - (UnitDigits * w) > 0 THEN Len(text) - (UnitDigits * w) ELSE 0

(* What has been read up to the end of the w-th unit is what was read      *)
(* before the unit, moved by a word, and the word that strtoul() made of   *)
(* it.                                                                     *)
LEMMA ReadUnit ==
  ASSUME NEW text \in Seq(Digit), NEW w \in Words
  PROVE  /\ Before(text, w) \in 0 .. Len(text) /\ Before(text, w + 1) \in 0 .. Len(text)
         /\ create_from_hex(text)[w] \in 0 .. (Word - 1)
         /\ NumbersOf(text)[Before(text, w)]
              = (NumbersOf(text)[Before(text, w + 1)] * Word) + create_from_hex(text)[w]
<1> DEFINE L == Len(text)
           last == L - (UnitDigits * w)
           first == IF last < UnitDigits THEN 1 ELSE last - UnitDigits + 1
           unit == SubSeq(text, first, last)
           num == NumbersOf(text)
           size == IF last < 0 THEN 0 ELSE last - first + 1
           start == Before(text, w + 1)
<1>1. L \in Nat /\ UnitDigits \in Nat \ {0} /\ w \in Nat /\ DigitBits \in Nat
  <2>1. UnitDigits \in Nat \ {0} /\ DigitBits \in Nat
    BY Sizes
  <2>2. w \in Nat
    BY WordOf DEF Words
  <2> QED
    BY <2>1, <2>2
<1>2. UnitDigits * w \in Nat /\ UnitDigits * (w + 1) = (UnitDigits * w) + UnitDigits
  BY <1>1
<1>3. create_from_hex(text)[w] = NumberOf(unit)
  BY DEF create_from_hex
<1>4. last \in Int /\ last <= L /\ Before(text, w) = IF last > 0 THEN last ELSE 0
  BY <1>1, <1>2 DEF Before
<1>5. start = IF last - UnitDigits > 0 THEN last - UnitDigits ELSE 0
  BY <1>1, <1>2 DEF Before
<1> HIDE DEF L, last, start
<1>6. first \in Int /\ first \in Nat \ {0} /\ size \in Nat /\ size <= UnitDigits
  BY <1>1, <1>4
<1>7. /\ start \in Nat /\ Before(text, w) \in Nat /\ start + size = Before(text, w)
      /\ start + size <= L
      /\ size > 0 => start = first - 1
  BY <1>1, <1>4, <1>5
<1> HIDE DEF first
<1>8. \A k \in first .. last : text[k] \in Digit
  <2>1. \A k \in first .. last : k \in 1 .. Len(text)
    BY <1>1, <1>4, <1>6 DEF L
  <2> QED
    BY <2>1
<1>9. /\ unit \in Seq(Digit)
      /\ Len(unit) = IF first <= last THEN last - first + 1 ELSE 0
      /\ \A k \in 1 .. last - first + 1 : unit[k] = text[first + k - 1]
  BY <1>4, <1>6, <1>8, SubSeqProperties
<1>10. Len(unit) = size
  BY <1>4, <1>6, <1>9 DEF first
<1>11. \A k \in 1 .. size : unit[k] = text[start + k]
  <2> SUFFICES ASSUME NEW k \in 1 .. size PROVE unit[k] = text[start + k]
    OBVIOUS
  <2>1. size > 0 /\ k \in 1 .. last - first + 1 /\ first + k - 1 = start + k
    BY <1>4, <1>6, <1>7
  <2> QED
    BY <1>9, <2>1
<1> HIDE DEF unit, size
<1>12. num[start + size] = (num[start] * pow2[DigitBits * size]) + NumberOf(unit)
  <2>1. start + size <= Len(text) /\ start \in Nat /\ size \in Nat
    BY <1>6, <1>7 DEF L
  <2>2. unit \in Seq(Digit)
    BY <1>9
  <2> HIDE DEF num
  <2>3. NumbersOf(text)[start + size]
          = (NumbersOf(text)[start] * pow2[DigitBits * size]) + NumberOf(unit)
    BY <1>10, <1>11, <2>1, <2>2, NumberOfPart
  <2> QED
    BY <2>3 DEF num
<1>13. NumberOf(unit) \in 0 .. (pow2[DigitBits * size] - 1)
  <2>1. size \in 0 .. Len(unit)
    BY <1>6, <1>10
  <2>2. NumbersOf(unit)[size] \in 0 .. (pow2[DigitBits * size] - 1)
    BY <1>9, <2>1, NumberBound
  <2> QED
    BY <1>10, <2>2 DEF NumberOf
<1>14. num \in [0 .. L -> Nat] /\ num[0] = 0
  BY NumbersStep DEF L
<1> HIDE DEF num
<1>15. DigitBits * size \in Nat /\ DigitBits * size <= WordBits /\ DigitBits * UnitDigits = WordBits
  <2>1. size * DigitBits <= UnitDigits * DigitBits
    BY <1>1, <1>6, Products
  <2> QED
    BY <1>1, <1>6, <2>1, Sizes
<1>16. pow2[DigitBits * size] <= Word /\ pow2[DigitBits * size] \in Nat /\ Word \in Nat
  <2>1. WordBits \in Nat
    BY Sizes
  <2> QED
    BY <1>15, <2>1, Pow2Grows, Pow2Step, Sizes
<1>17. NumberOf(unit) \in 0 .. (Word - 1)
  BY <1>13, <1>16
<1>18. num[start] * pow2[DigitBits * size] = num[start] * Word
  <2>1. CASE start = 0
    BY <1>14, <1>16, <2>1
  <2>2. CASE start # 0
    <3>1. size = UnitDigits
      BY <1>1, <1>4, <1>5, <1>6, <2>2 DEF size, first
    <3> QED
      BY <1>15, <3>1, Sizes
  <2> QED
    BY <2>1, <2>2
<1>19. num[Before(text, w)] = (num[start] * Word) + NumberOf(unit)
  BY <1>7, <1>12, <1>18
<1>20. Before(text, w) \in 0 .. L /\ start \in 0 .. L
  BY <1>1, <1>6, <1>7
<1> QED
  BY <1>3, <1>17, <1>19, <1>20 DEF start, num, L

(* uint256_create_from_hex() reads text of any length modulo 2^256.        *)
LEMMA ReadValue ==
  ASSUME NEW text \in Seq(Digit)
  PROVE  /\ create_from_hex(text) \in UInt
         /\ NumberOf(text) \in Nat
         /\ Value(create_from_hex(text)) = NumberOf(text) % pow2[Bits]
<1> DEFINE val == create_from_hex(text)
           num == NumbersOf(text)
           low == LowValues(val)
           L == Len(text)
           T == { k \in Nat : k <= NWords =>
                    low[k] + (pow2[WordBits * k] * num[Before(text, k)]) = num[L] }
<1>1. ASSUME NEW w \in Words PROVE val[w] \in 0 .. (Word - 1)
  BY ReadUnit
<1>2. val \in UInt
  <2>1. val = [w \in Words |-> val[w]]
    BY DEF create_from_hex
  <2> HIDE DEF val
  <2> QED
    BY <1>1, <2>1 DEF UInt
<1>3. \A w \in Words :
        /\ Before(text, w) \in 0 .. L /\ Before(text, w + 1) \in 0 .. L
        /\ num[Before(text, w)] = (num[Before(text, w + 1)] * Word) + val[w]
  BY ReadUnit
<1>4. num \in [0 .. L -> Nat]
  BY NumbersStep
<1>5. NumberOf(text) = num[L]
  BY DEF NumberOf
<1>6. NWords \in Nat \ {0} /\ L \in Nat /\ UnitDigits \in Nat /\ WordBits \in Nat
  <2>1. NWords \in Nat \ {0} /\ UnitDigits \in Nat /\ WordBits \in Nat
    BY Sizes
  <2> QED
    BY <2>1
<1>7. Before(text, 0) = L
  BY <1>6 DEF Before
<1> HIDE DEF val, num, L
<1>8. /\ low \in [0 .. NWords -> Nat] /\ low[0] = 0
      /\ \A w \in Words : low[w + 1] = low[w] + (pow2[WordBits * w] * val[w])
  BY <1>2, LowValuesStep
<1>9. Value(val) = low[NWords] /\ low[NWords] \in 0 .. (pow2[Bits] - 1)
  BY <1>2, ValueBound DEF Value
<1> HIDE DEF low
<1>10. num[L] \in Nat
  BY <1>4, <1>6
<1>11. 0 \in T
  <2>1. WordBits * 0 = 0
    BY <1>6
  <2>2. pow2[WordBits * 0] = 1
    BY <2>1, Pow2Step
  <2> QED
    BY <1>7, <1>8, <1>10, <2>2
<1>12. ASSUME NEW k \in Nat, k \in T PROVE k + 1 \in T
  <2> SUFFICES ASSUME k + 1 <= NWords
               PROVE  low[k + 1] + (pow2[WordBits * (k + 1)] * num[Before(text, k + 1)]) = num[L]
    OBVIOUS
  <2> DEFINE p == pow2[WordBits * k]
             x == num[Before(text, k + 1)]
             y == num[Before(text, k)]
             v == val[k]
             l == low[k]
  <2>1. k \in Words /\ k <= NWords /\ k \in 0 .. NWords
    BY <1>6 DEF Words
  <2>2. p \in Nat /\ pow2[WordBits * (k + 1)] = p * Word /\ Word \in Nat
    BY Weight, Sizes
  <2>3. x \in Nat /\ y = (x * Word) + v
    BY <1>3, <1>4, <2>1
  <2>4. v \in Nat
    BY <1>2, <2>1, WordOf
  <2>5. l \in Nat
    BY <1>8, <2>1
  <2>6. l + (p * y) = num[L]
    BY <1>12, <2>1
  <2>7. low[k + 1] = l + (p * v)
    BY <1>8, <2>1
  <2> HIDE DEF p, x, y, v, l
  <2>8. (l + (p * v)) + ((p * Word) * x) = l + (p * ((x * Word) + v))
    BY <2>2, <2>3, <2>4, <2>5
  <2>9. low[k + 1] + (pow2[WordBits * (k + 1)] * x) = num[L]
    BY <2>2, <2>3, <2>6, <2>7, <2>8
  <2> QED
    BY <2>9 DEF x
<1>13. \A k \in Nat : k \in T
  <2> HIDE DEF T
  <2> QED
    BY <1>11, <1>12, SetInduction
<1> DEFINE h == num[Before(text, NWords)]
<1>14. h \in Int
  <2>1. NWords - 1 \in Words /\ (NWords - 1) + 1 = NWords
    BY <1>6 DEF Words
  <2>2. Before(text, (NWords - 1) + 1) \in 0 .. L
    BY <1>3, <2>1
  <2> QED
    BY <1>4, <2>1, <2>2
<1>15. low[NWords] + (pow2[Bits] * h) = num[L]
  <2>1. NWords \in Nat /\ NWords <= NWords /\ Bits = WordBits * NWords
    BY Sizes
  <2> QED
    BY <1>13, <2>1
<1> HIDE DEF h
<1>16. pow2[Bits] * h = h * pow2[Bits] /\ low[NWords] \in Int
  BY <1>9, <1>14, Pow2Bits
<1>17. (low[NWords] + (h * pow2[Bits])) % pow2[Bits] = low[NWords] % pow2[Bits]
  BY <1>14, <1>16, Pow2Bits, ModShift
<1>18. low[NWords] % pow2[Bits] = low[NWords]
  BY <1>9, Pow2Bits, ModSmall
<1>19. Value(val) = num[L] % pow2[Bits]
  BY <1>9, <1>15, <1>16, <1>17, <1>18
<1> QED
  BY <1>2, <1>5, <1>10, <1>19 DEF val

-----------------------------------------------------------------------------
(* Writing text.                                                           *)
Total == UnitDigits * NWords
HexDigit(val, k) ==
  (val[(Total - k) \div UnitDigits] \div pow2[DigitBits * ((Total - k) % UnitDigits)])
    % pow2[DigitBits]
Zeros(val) == { k \in 1 .. Total : k < Total /\ \A l \in 1 .. k : HexDigit(val, l) = 0 }
Skip(val) == Max({0} \cup Zeros(val))

(* uint256_format_as_hex() in the terms above.                             *)
LEMMA FormatIs ==
  ASSUME NEW val
  PROVE  format_as_hex(val) = [k \in 1 .. (Total - Skip(val)) |-> HexDigit(val, k + Skip(val))]
BY DEF format_as_hex, Total, HexDigit, Zeros, Skip

(* The digits of the buffer.                                               *)
LEMMA Totals ==
  /\ Total \in Nat \ {0} /\ DigitBits * Total = Bits
  /\ \A k \in Nat : k <= Total => Total - k \in 0 .. Total
<1>1. DigitBits \in Nat /\ UnitDigits \in Nat \ {0} /\ NWords \in Nat \ {0}
  BY Sizes
<1>2. Total \in Nat \ {0}
  BY <1>1 DEF Total
<1>3. DigitBits * (UnitDigits * NWords) = (DigitBits * UnitDigits) * NWords
  BY <1>1
<1>4. \A k \in Nat : k <= Total => Total - k \in 0 .. Total
  BY <1>2
<1> QED
  BY <1>2, <1>3, <1>4 DEF Total, Bits, WordBits

(* A set of bounded numbers has a greatest one.                            *)
LEMMA Greatest ==
  ASSUME NEW n \in Nat, NEW S, S \subseteq 0 .. n, S # {}
  PROVE  Max(S) \in S /\ \A y \in S : y <= Max(S)
<1> DEFINE HasMax(R) == \E x \in R : \A y \in R : x >= y
           T == { m \in Nat : \A R \in SUBSET S : (R # {} /\ R \subseteq 0 .. m) => HasMax(R) }
<1>1. 0 \in T
  <2> SUFFICES ASSUME NEW R \in SUBSET S, R # {}, R \subseteq 0 .. 0 PROVE HasMax(R)
    OBVIOUS
  <2>1. \A y \in R : y = 0
    OBVIOUS
  <2>2. PICK x \in R : TRUE
    OBVIOUS
  <2>3. x = 0 /\ \A y \in R : x >= y
    BY <2>1
  <2> QED
    BY <2>3
<1>2. ASSUME NEW m \in Nat, m \in T PROVE m + 1 \in T
  <2> SUFFICES ASSUME NEW R \in SUBSET S, R # {}, R \subseteq 0 .. (m + 1) PROVE HasMax(R)
    OBVIOUS
  <2>1. CASE m + 1 \in R
    <3>1. \A y \in R : m + 1 >= y
      OBVIOUS
    <3> QED
      BY <2>1, <3>1
  <2>2. CASE m + 1 \notin R
    <3>1. R \subseteq 0 .. m
      BY <2>2
    <3> HIDE DEF HasMax
    <3> QED
      BY <1>2, <3>1
  <2> QED
    BY <2>1, <2>2
<1>3. \A m \in Nat : m \in T
  <2> HIDE DEF T
  <2> QED
    BY <1>1, <1>2, SetInduction
<1>4. HasMax(S)
  <2>1. n \in T /\ S \in SUBSET S
    BY <1>3
  <2> HIDE DEF HasMax
  <2> QED
    BY <2>1
<1>5. PICK x \in S : \A y \in S : x >= y
  BY <1>4
<1>6. Max(S) \in S /\ \A y \in S : Max(S) >= y
  BY <1>5, Zenon DEF Max
<1> QED
  BY <1>6

(* A division by a product, step by step.                                  *)
LEMMA DivideTwice ==
  ASSUME NEW v \in Nat, NEW x \in Nat \ {0}, NEW d \in Nat \ {0}
  PROVE  v \div x = ((v \div (x * d)) * d) + ((v \div x) % d)
<1> DEFINE a == v \div x
           r == v % x
           q == a \div d
           t == a % d
<1>1. a \in Nat /\ r \in 0 .. (x - 1) /\ v = (a * x) + r
  <2>1. v \in Int
    OBVIOUS
  <2> QED
    BY <2>1, Division
<1>2. q \in Nat /\ t \in 0 .. (d - 1) /\ a = (q * d) + t
  <2>1. a \in Int
    BY <1>1
  <2> HIDE DEF a
  <2> QED
    BY <1>1, <2>1, Division
<1> HIDE DEF a, r, q, t
<1>3. r + (x * t) \in 0 .. ((x * d) - 1)
  BY <1>1, <1>2, Joined
<1>4. v = (q * (x * d)) + (r + (x * t))
  <2>1. q \in Int /\ t \in Int /\ r \in Int
    BY <1>1, <1>2
  <2>2. ((q * d) + t) * x = (q * (x * d)) + (x * t)
    BY <2>1
  <2>3. v = ((q * (x * d)) + (x * t)) + r
    BY <1>1, <1>2, <2>2
  <2>4. q * (x * d) \in Int /\ x * t \in Int
    BY <2>1
  <2> QED
    BY <2>1, <2>3, <2>4
<1>5. v \div (x * d) = q
  <2> DEFINE m == x * d
             s == r + (x * t)
  <2>1. m \in Nat \ {0} /\ s \in 0 .. (m - 1) /\ q \in Int /\ v = (q * m) + s
    BY <1>2, <1>3, <1>4
  <2> HIDE DEF m, s
  <2>2. v \div m = q
    BY <2>1, DivisionUnique
  <2> QED
    BY <2>2 DEF m
<1> QED
  BY <1>2, <1>5 DEF a, t

(* The number that the first k digits of the buffer stand for.             *)
Leading(val, k) == Value(val) \div pow2[DigitBits * (Total - k)]

(* A digit of the buffer is a digit of the number.                         *)
LEMMA HexDigitValue ==
  ASSUME NEW val \in UInt, NEW k \in 1 .. Total
  PROVE  /\ HexDigit(val, k) = Leading(val, k) % pow2[DigitBits]
         /\ HexDigit(val, k) \in 0 .. (pow2[DigitBits] - 1)
<1> DEFINE j == Total - k
           w == j \div UnitDigits
           r == j % UnitDigits
           e == DigitBits * r
           x == val[w] \div pow2[e]
<1>1. /\ Total \in Nat \ {0} /\ UnitDigits \in Nat \ {0} /\ NWords \in Nat /\ DigitBits \in Nat \ {0}
      /\ WordBits = DigitBits * UnitDigits /\ Total = UnitDigits * NWords
  BY Totals, Sizes DEF Total
<1>2. j \in 0 .. (Total - 1) /\ j \in Nat
  BY <1>1
<1>3. w \in Nat /\ r \in 0 .. (UnitDigits - 1) /\ j = (w * UnitDigits) + r
  <2>1. j \in Int
    BY <1>2
  <2> HIDE DEF j
  <2> QED
    BY <1>1, <1>2, <2>1, Division
<1>4. HexDigit(val, k) = x % pow2[DigitBits]
  BY DEF HexDigit
<1> HIDE DEF j, w, r
<1>5. w \in Words
  <2>1. NWords <= w => NWords * UnitDigits <= w * UnitDigits
    BY <1>1, <1>3, Products
  <2>2. w * UnitDigits \in Nat /\ NWords * UnitDigits = Total
    BY <1>1, <1>3
  <2> QED
    BY <1>1, <1>2, <1>3, <2>1, <2>2 DEF Words
<1>6. e \in Nat /\ e + DigitBits <= WordBits
  <2>1. (r + 1) * DigitBits <= UnitDigits * DigitBits
    <3>1. r + 1 \in Int /\ r + 1 <= UnitDigits /\ UnitDigits \in Int
      BY <1>1, <1>3
    <3> QED
      BY <1>1, <3>1, Products
  <2>2. (r + 1) * DigitBits = e + DigitBits /\ UnitDigits * DigitBits = WordBits /\ e \in Nat
    BY <1>1, <1>3
  <2> QED
    BY <2>1, <2>2
<1>7. (WordBits * w) + e = DigitBits * j
  BY <1>1, <1>3
<1> HIDE DEF e
<1>8. (Value(val) \div pow2[(WordBits * w) + e]) % pow2[DigitBits] = x % pow2[DigitBits]
  BY <1>1, <1>5, <1>6, Field
<1>9. HexDigit(val, k) = Leading(val, k) % pow2[DigitBits]
  BY <1>4, <1>7, <1>8 DEF Leading, j
<1>10. Leading(val, k) \in Int
  <2>1. pow2[DigitBits * j] \in Nat \ {0}
    BY <1>2, Base
  <2>2. Value(val) \in Int
    BY ValueBound, Pow2Bits
  <2> QED
    BY <2>1, <2>2, Division DEF Leading, j
<1>11. pow2[DigitBits] \in Nat \ {0}
  BY <1>1, Pow2Step
<1> HIDE DEF x
<1>12. Leading(val, k) % pow2[DigitBits] \in 0 .. (pow2[DigitBits] - 1)
  BY <1>10, <1>11, Division
<1> QED
  BY <1>9, <1>12

(* One more digit of the buffer.                                           *)
LEMMA LeadingStep ==
  ASSUME NEW val \in UInt
  PROVE  /\ Leading(val, 0) = 0 /\ Leading(val, Total) = Value(val)
         /\ \A k \in 0 .. (Total - 1) :
              Leading(val, k + 1) = (Leading(val, k) * pow2[DigitBits]) + HexDigit(val, k + 1)
<1>1. Total \in Nat \ {0} /\ DigitBits * Total = Bits /\ DigitBits \in Nat
  BY Totals, Sizes
<1>2. Value(val) \in 0 .. (pow2[Bits] - 1) /\ Value(val) \in Nat
  BY ValueBound, Pow2Bits
<1>3. Leading(val, 0) = 0
  <2>1. DigitBits * (Total - 0) = Bits
    BY <1>1
  <2>2. Value(val) \div pow2[Bits] = 0
    BY <1>2, Pow2Bits, ModSmall
  <2> QED
    BY <2>1, <2>2 DEF Leading
<1>4. Leading(val, Total) = Value(val)
  <2>1. DigitBits * (Total - Total) = 0
    BY <1>1
  <2>2. pow2[DigitBits * (Total - Total)] = 1
    BY <2>1, Pow2Step
  <2>3. (Value(val) * 1) + 0 = Value(val) /\ 1 \in Nat \ {0} /\ 0 \in 0 .. (1 - 1) /\ Value(val) \in Int
    BY <1>2
  <2>4. ((Value(val) * 1) + 0) \div 1 = Value(val)
    BY <2>3, DivisionUnique
  <2> QED
    BY <2>2, <2>3, <2>4 DEF Leading
<1>5. ASSUME NEW k \in 0 .. (Total - 1)
      PROVE  Leading(val, k + 1) = (Leading(val, k) * pow2[DigitBits]) + HexDigit(val, k + 1)
  <2> DEFINE j == Total - (k + 1)
             x == pow2[DigitBits * j]
             d == pow2[DigitBits]
             v == Value(val)
  <2>1. j \in Nat /\ j + 1 = Total - k /\ k + 1 \in 1 .. Total
    BY <1>1
  <2>2. HexDigit(val, k + 1) = Leading(val, k + 1) % d
    BY <2>1, HexDigitValue
  <2>3. Leading(val, k + 1) = v \div x
    BY DEF Leading
  <2> HIDE DEF j
  <2>4. x \in Nat \ {0} /\ d \in Nat \ {0} /\ pow2[DigitBits * (j + 1)] = x * d
    BY <2>1, Base
  <2>5. Leading(val, k) = v \div (x * d)
    BY <2>1, <2>4 DEF Leading
  <2>6. v \in Nat
    BY <1>2
  <2> HIDE DEF x, d, v
  <2>7. v \div x = ((v \div (x * d)) * d) + ((v \div x) % d)
    BY <2>4, <2>6, DivideTwice
  <2>8. Leading(val, k + 1) = (Leading(val, k) * d) + HexDigit(val, k + 1)
    BY <2>2, <2>3, <2>5, <2>7
  <2> QED
    BY <2>8 DEF d
<1> QED
  BY <1>3, <1>4, <1>5

(* Only zeros are skipped, all that lead, and never the last digit.        *)
LEMMA SkipZeros ==
  ASSUME NEW val \in UInt
  PROVE  /\ Skip(val) \in 0 .. (Total - 1)
         /\ \A l \in 1 .. Skip(val) : HexDigit(val, l) = 0
         /\ Skip(val) + 1 < Total => HexDigit(val, Skip(val) + 1) # 0
<1> DEFINE S == {0} \cup Zeros(val)
           skip == Skip(val)
<1>1. Total \in Nat \ {0}
  BY Totals
<1>2. S \subseteq 0 .. Total /\ S # {}
  BY <1>1 DEF Zeros
<1>3. Max(S) \in S /\ \A y \in S : y <= Max(S)
  <2> HIDE DEF S
  <2> QED
    BY <1>1, <1>2, Greatest
<1>4. skip \in S /\ \A y \in S : y <= skip
  BY <1>3 DEF Skip
<1> HIDE DEF skip
<1>5. skip \in 0 .. (Total - 1) /\ \A l \in 1 .. skip : HexDigit(val, l) = 0
  <2>1. CASE skip = 0
    BY <1>1, <2>1
  <2>2. CASE skip # 0
    <3>1. skip \in Zeros(val)
      BY <1>4, <2>2
    <3> QED
      BY <1>1, <3>1 DEF Zeros
  <2> QED
    BY <2>1, <2>2
<1>6. ASSUME skip + 1 < Total, HexDigit(val, skip + 1) = 0 PROVE FALSE
  <2>1. skip + 1 \in 1 .. Total /\ ~(skip + 1 <= skip)
    BY <1>1, <1>5, <1>6
  <2>2. ASSUME NEW l \in 1 .. (skip + 1) PROVE HexDigit(val, l) = 0
    <3>1. l = skip + 1 \/ l \in 1 .. skip
      BY <1>1, <1>5
    <3> QED
      BY <1>5, <1>6, <3>1
  <2>3. skip + 1 \in Zeros(val)
    BY <1>6, <2>1, <2>2 DEF Zeros
  <2> QED
    BY <1>4, <2>1, <2>3
<1> QED
  BY <1>5, <1>6 DEF skip

(* The text stands for the number and has no leading zero.                 *)
LEMMA WriteText ==
  ASSUME NEW val \in UInt
  PROVE  /\ format_as_hex(val) \in Seq(Digit)
         /\ Len(format_as_hex(val)) \in 1 .. Total
         /\ Len(format_as_hex(val)) > 1 => Head(format_as_hex(val)) # 0
         /\ NumberOf(format_as_hex(val)) = Value(val)
<1> DEFINE text == format_as_hex(val)
           skip == Skip(val)
           size == Total - skip
           num == NumbersOf(text)
           D == pow2[DigitBits]
           Lead(k) == Leading(val, k)
           T == { k \in Nat : k <= skip => Lead(k) = 0 }
           U == { k \in Nat : k <= size => num[k] = Lead(k + skip) }
<1>1. Total \in Nat \ {0} /\ D \in Nat \ {0}
  <2>1. DigitBits \in Nat
    BY Sizes
  <2> QED
    BY <2>1, Totals, Pow2Step
<1>2. /\ skip \in 0 .. (Total - 1)
      /\ \A l \in 1 .. skip : HexDigit(val, l) = 0
      /\ skip + 1 < Total => HexDigit(val, skip + 1) # 0
  BY SkipZeros
<1>3. text = [k \in 1 .. size |-> HexDigit(val, k + skip)]
  BY FormatIs
<1>4. ASSUME NEW k \in 1 .. Total PROVE HexDigit(val, k) \in Digit
  BY HexDigitValue DEF Digit
<1>5. /\ Lead(0) = 0 /\ Lead(Total) = Value(val)
      /\ \A k \in 0 .. (Total - 1) : Lead(k + 1) = (Lead(k) * D) + HexDigit(val, k + 1)
  BY LeadingStep
<1> HIDE DEF skip
<1>6. size \in 1 .. Total /\ size \in Nat
  BY <1>1, <1>2
<1>7. text \in [1 .. size -> Digit]
  <2>1. ASSUME NEW k \in 1 .. size PROVE HexDigit(val, k + skip) \in Digit
    <3>1. k + skip \in 1 .. Total
      BY <1>1, <1>2
    <3> QED
      BY <1>4, <3>1
  <2> HIDE DEF text
  <2> QED
    BY <1>3, <2>1
<1>8. \A k \in 1 .. size : text[k] = HexDigit(val, k + skip)
  <2> HIDE DEF text
  <2> QED
    BY <1>3
<1> HIDE DEF text
<1>9. text \in Seq(Digit)
  <2>1. text \in UNION { [1 .. n -> Digit] : n \in Nat }
    BY <1>6, <1>7
  <2> QED
    BY <2>1, SeqDef
<1>10. Len(text) = size
  <2>1. DOMAIN text = 1 .. size
    BY <1>7
  <2>2. Len(text) \in Nat /\ DOMAIN text = 1 .. Len(text)
    BY <1>9, LenProperties
  <2> QED
    BY <1>6, <2>1, <2>2
<1> HIDE DEF size
<1>11. Len(text) > 1 => Head(text) # 0
  <2> SUFFICES ASSUME size > 1 PROVE text[1] # 0
    <3>1. size > 1 => Head(text) = text[1]
      BY <1>9, <1>10
    <3> QED
      BY <1>10, <3>1
  <2>1. 1 \in 1 .. size /\ 1 + skip = skip + 1 /\ skip + 1 < Total
    BY <1>1, <1>2, <1>6 DEF size
  <2> QED
    BY <1>2, <1>8, <2>1
<1>12. /\ num[0] = 0
       /\ \A k \in 0 .. (size - 1) : num[k + 1] = (num[k] * D) + text[k + 1]
  BY <1>9, <1>10, NumbersStep
<1> HIDE DEF num, D, Lead
<1>13. 0 \in T
  BY <1>5
<1>14. ASSUME NEW k \in Nat, k \in T PROVE k + 1 \in T
  <2> SUFFICES ASSUME k + 1 <= skip PROVE Lead(k + 1) = 0
    OBVIOUS
  <2>1. k \in 0 .. (Total - 1) /\ k <= skip /\ k + 1 \in 1 .. skip
    BY <1>1, <1>2
  <2>2. Lead(k) = 0 /\ HexDigit(val, k + 1) = 0
    BY <1>2, <1>14, <2>1
  <2>3. Lead(k + 1) = (0 * D) + 0
    BY <1>5, <2>1, <2>2
  <2> QED
    BY <1>1, <2>3
<1>15. \A k \in Nat : k \in T
  <2> HIDE DEF T
  <2> QED
    BY <1>13, <1>14, SetInduction
<1>16. 0 \in U
  <2>1. Lead(skip) = 0 /\ 0 + skip = skip
    BY <1>1, <1>2, <1>15
  <2> QED
    BY <1>12, <2>1
<1>17. ASSUME NEW k \in Nat, k \in U PROVE k + 1 \in U
  <2> SUFFICES ASSUME k + 1 <= size PROVE num[k + 1] = Lead((k + 1) + skip)
    OBVIOUS
  <2>1. /\ k \in 0 .. (size - 1) /\ k <= size /\ k + skip \in 0 .. (Total - 1) /\ k + 1 \in 1 .. size
        /\ (k + 1) + skip = (k + skip) + 1
    BY <1>1, <1>2, <1>6 DEF size
  <2>2. num[k] = Lead(k + skip)
    BY <1>17, <2>1
  <2>3. num[k + 1] = (num[k] * D) + text[k + 1]
    BY <1>12, <2>1
  <2>4. text[k + 1] = HexDigit(val, (k + 1) + skip)
    BY <1>8, <2>1
  <2>5. Lead((k + skip) + 1) = (Lead(k + skip) * D) + HexDigit(val, (k + skip) + 1)
    BY <1>5, <2>1
  <2> QED
    BY <2>1, <2>2, <2>3, <2>4, <2>5
<1>18. \A k \in Nat : k \in U
  <2> HIDE DEF U
  <2> QED
    BY <1>16, <1>17, SetInduction
<1>19. num[size] = Value(val)
  <2>1. size + skip = Total /\ size <= size
    BY <1>1, <1>2, <1>6 DEF size
  <2>2. num[size] = Lead(size + skip)
    BY <1>6, <1>18, <2>1
  <2> QED
    BY <1>5, <2>1, <2>2
<1>20. NumberOf(text) = Value(val)
  BY <1>10, <1>19 DEF NumberOf, num
<1> QED
  BY <1>6, <1>9, <1>10, <1>11, <1>20 DEF text

(* Reading the text gives the UInt256 back.                                *)
LEMMA WriteThenRead ==
  ASSUME NEW val \in UInt
  PROVE  create_from_hex(format_as_hex(val)) = val
<1> DEFINE text == format_as_hex(val)
           new == create_from_hex(text)
<1>1. text \in Seq(Digit) /\ NumberOf(text) = Value(val)
  BY WriteText
<1> HIDE DEF text
<1>2. new \in UInt /\ Value(new) = NumberOf(text) % pow2[Bits]
  BY <1>1, ReadValue
<1>3. Value(val) % pow2[Bits] = Value(val)
  BY ValueBound, Pow2Bits, ModSmall
<1> HIDE DEF new
<1>4. new = val
  BY <1>1, <1>2, <1>3, ValueInjective
<1> QED
  BY <1>4 DEF new, text

-----------------------------------------------------------------------------
(* The product of uint256_mul(), bit by bit.                               *)
LEMMA TextIsSeq ==
  ASSUME NEW text \in Text
  PROVE  text \in Seq(Digit)
<1>1. PICK n \in 0 .. MaxDigits : text \in [1 .. n -> Digit]
  BY DEF Text
<1>2. n \in Nat
  BY UInt256Assumption
<1>3. text \in UNION { [1 .. k -> Digit] : k \in Nat }
  BY <1>1, <1>2
<1> QED
  BY <1>3, SeqDef

(* A bit of a UInt256 is a bit of its number.                              *)
LEMMA BitOf ==
  ASSUME NEW val \in UInt, NEW index \in 0 .. (Bits - 1)
  PROVE  is_bit_set(val, index) <=> (Value(val) \div pow2[index]) % 2 = 1
<1> DEFINE w == index \div WordBits
           e == index % WordBits
<1>1. WordBits \in Nat \ {0} /\ NWords \in Nat \ {0} /\ Bits = WordBits * NWords /\ index \in Nat
  BY Sizes
<1>2. w \in Nat /\ e \in 0 .. (WordBits - 1) /\ index = (w * WordBits) + e
  <2>1. index \in Int
    BY <1>1
  <2> QED
    BY <1>1, <2>1, Division
<1>3. is_bit_set(val, index) <=> (val[w] \div pow2[e]) % 2 = 1
  BY DEF is_bit_set
<1> HIDE DEF w, e
<1>4. w \in Words
  <2>1. NWords <= w => NWords * WordBits <= w * WordBits
    BY <1>1, <1>2, Products
  <2>2. w * WordBits \in Nat /\ NWords * WordBits = WordBits * NWords
    BY <1>1, <1>2
  <2>3. index < WordBits * NWords
    BY <1>1, <2>2
  <2> QED
    BY <1>1, <1>2, <2>1, <2>2, <2>3 DEF Words
<1>5. (WordBits * w) + e = index
  BY <1>1, <1>2
<1>6. e \in Nat /\ 1 \in Nat /\ e + 1 <= WordBits
  BY <1>1, <1>2
<1>7. (Value(val) \div pow2[(WordBits * w) + e]) % pow2[1] = (val[w] \div pow2[e]) % pow2[1]
  BY <1>4, <1>6, Field
<1>8. pow2[1] = 2
  <2>1. pow2[0 + 1] = 2 * pow2[0] /\ pow2[0] = 1 /\ 0 + 1 = 1
    BY Pow2Step
  <2> QED
    BY <2>1
<1> QED
  BY <1>3, <1>5, <1>7, <1>8

(* One more bit of a number.                                               *)
LEMMA NextBit ==
  ASSUME NEW v \in Nat, NEW m \in Nat \ {0}
  PROVE  /\ v % m \in Nat
         /\ (v \div m) % 2 = 1 => v % (2 * m) = (v % m) + m
         /\ (v \div m) % 2 # 1 => v % (2 * m) = v % m
<1> DEFINE a == v \div m
           r == v % m
           q == a \div 2
           t == a % 2
<1>1. a \in Nat /\ r \in 0 .. (m - 1) /\ v = (a * m) + r
  <2>1. v \in Int
    OBVIOUS
  <2> QED
    BY <2>1, Division
<1>2. q \in Nat /\ t \in 0 .. 1 /\ a = (q * 2) + t
  <2>1. a \in Int /\ 2 \in Nat \ {0}
    BY <1>1
  <2> HIDE DEF a
  <2> QED
    BY <1>1, <2>1, Division
<1> HIDE DEF a, r, q, t
<1>3. q * (2 * m) \in Int /\ q \in Int /\ 2 * m \in Nat \ {0}
  BY <1>2
<1>4. CASE t = 1
  <2>1. v = (q * (2 * m)) + (r + m)
    BY <1>1, <1>2, <1>4
  <2>2. r + m \in 0 .. ((2 * m) - 1)
    BY <1>1
  <2>3. v % (2 * m) = r + m
    <3> DEFINE n == 2 * m
               s == r + m
    <3>1. n \in Nat \ {0} /\ s \in 0 .. (n - 1) /\ v = (q * n) + s
      BY <1>3, <2>1, <2>2
    <3> HIDE DEF n, s
    <3>2. v % n = s
      BY <1>3, <3>1, DivisionUnique
    <3> QED
      BY <3>2 DEF n, s
  <2> QED
    BY <1>1, <1>4, <2>3 DEF a, r, t
<1>5. CASE t # 1
  <2>1. t = 0
    BY <1>2, <1>5
  <2>2. v = (q * (2 * m)) + r
    BY <1>1, <1>2, <2>1
  <2>3. r \in 0 .. ((2 * m) - 1)
    BY <1>1
  <2>4. v % (2 * m) = r
    <3> DEFINE n == 2 * m
    <3>1. n \in Nat \ {0} /\ r \in 0 .. (n - 1) /\ v = (q * n) + r
      BY <1>3, <2>2, <2>3
    <3> HIDE DEF n
    <3>2. v % n = r
      BY <1>3, <3>1, DivisionUnique
    <3> QED
      BY <3>2 DEF n
  <2> QED
    BY <1>1, <1>5, <2>4 DEF a, r, t
<1> QED
  BY <1>4, <1>5

(* The sum of two remainders of products.                                  *)
LEMMA AddShifted ==
  ASSUME NEW m \in Nat \ {0}, NEW l \in Int, NEW r \in Int, NEW b \in Int
  PROVE  (((l * r) % m) + ((r * b) % m)) % m = ((l + b) * r) % m
<1> DEFINE x == l * r
           y == r * b
<1>1. x \in Int /\ y \in Int /\ (l + b) * r = y + x
  OBVIOUS
<1> HIDE DEF x, y
<1>2. y % m \in Int
  BY <1>1, Division
<1>3. ((x % m) + (y % m)) % m = (x + (y % m)) % m
  BY <1>1, <1>2, ModSum
<1>4. ((y % m) + x) % m = (y + x) % m
  BY <1>1, ModSum
<1>5. x + (y % m) = (y % m) + x
  BY <1>1, <1>2
<1>6. ((x % m) + (y % m)) % m = ((l + b) * r) % m
  BY <1>1, <1>3, <1>4, <1>5
<1> QED
  BY <1>6 DEF x, y

(* The operands keep their types, and the text the operand that was read   *)
(* from it.                                                                *)
Operands ==
  /\ hex \in Text
  /\ left \in UInt
  /\ right \in UInt /\ right = create_from_hex(hex)
  /\ i \in 0 .. Bits

IInv == Operands /\ ProductSoFar

(* In every state sub() subtracts and add() undoes it.                     *)
LEMMA SubtractsOperands ==
  ASSUME Operands
  PROVE  SubtractsBack
<1>1. left \in UInt /\ right \in UInt
  BY DEF Operands
<1> QED
  BY <1>1, SubValue, SubtractThenAdd DEF SubtractsBack

(* In every state text is read and written back.                           *)
LEMMA HexOperands ==
  ASSUME Operands
  PROVE  HexReadsBack
<1>1. hex \in Seq(Digit) /\ right \in UInt /\ right = create_from_hex(hex)
  BY TextIsSeq DEF Operands
<1>2. Value(right) = NumberOf(hex) % pow2[Bits]
  BY <1>1, ReadValue
<1>3. create_from_hex(format_as_hex(right)) = right
  BY <1>1, WriteThenRead
<1>4. /\ Len(format_as_hex(right)) \in 1 .. (UnitDigits * NWords)
      /\ Len(format_as_hex(right)) > 1 => Head(format_as_hex(right)) # 0
  BY <1>1, WriteText DEF Total
<1> QED
  BY <1>2, <1>3, <1>4 DEF HexReadsBack

(* Before the first round nothing has been added.                          *)
LEMMA InitIInv == Init => IInv
<1> SUFFICES ASSUME Init PROVE IInv
  OBVIOUS
<1>1. hex \in Seq(Digit)
  BY TextIsSeq DEF Init
<1>2. Operands
  <2>1. create_from_hex(hex) \in UInt
    BY <1>1, ReadValue
  <2>2. 0 \in 0 .. Bits
    BY Sizes
  <2> QED
    BY <2>1, <2>2 DEF Init, Operands
<1>3. product \in UInt /\ Value(product) = 0
  <2>1. 0 \in 0 .. (Word - 1)
    BY WordAtLeastTwo
  <2> QED
    BY <2>1, SmallValue DEF Init
<1>4. ((Value(left) % pow2[i]) * Value(right)) % pow2[Bits] = 0
  <2>1. pow2[i] = 1
    BY Pow2Step DEF Init
  <2>2. Value(left) \in Nat /\ Value(right) \in Nat
    BY <1>2, ValueBound, Pow2Bits DEF Operands
  <2>3. Value(left) % 1 = 0
    <3>1. Value(left) % 1 \in 0 .. (1 - 1)
      <4>1. Value(left) \in Int /\ 1 \in Nat \ {0}
        BY <2>2
      <4> QED
        BY <4>1, Division
    <3> QED
      BY <3>1
  <2>4. 0 * Value(right) = 0
    BY <2>2
  <2>5. 0 % pow2[Bits] = 0
    <3>1. 0 \in 0 .. (pow2[Bits] - 1)
      BY Pow2Bits
    <3> QED
      BY <3>1, Pow2Bits, ModSmall
  <2> QED
    BY <2>1, <2>3, <2>4, <2>5
<1> QED
  BY <1>2, <1>3, <1>4 DEF IInv, ProductSoFar

(* One round of the loop of uint256_mul().                                 *)
LEMMA RoundKeeps ==
  ASSUME NEW l \in UInt, NEW r \in UInt, NEW k \in 0 .. (Bits - 1), NEW p \in UInt,
         Value(p) = ((Value(l) % pow2[k]) * Value(r)) % pow2[Bits]
  PROVE  /\ is_bit_set(l, k) =>
              /\ add(p, lshift(r, k)) \in UInt
              /\ Value(add(p, lshift(r, k)))
                   = ((Value(l) % pow2[k + 1]) * Value(r)) % pow2[Bits]
         /\ ~is_bit_set(l, k) =>
              Value(p) = ((Value(l) % pow2[k + 1]) * Value(r)) % pow2[Bits]
<1> DEFINE v == Value(l)
           b == pow2[k]
           n == Value(r)
           m == pow2[Bits]
           low == v % b
           term == lshift(r, k)
<1>1. v \in Nat /\ n \in Nat /\ m \in Nat \ {0}
  BY ValueBound, Pow2Bits
<1>2. b \in Nat \ {0} /\ pow2[k + 1] = 2 * b
  <2>1. k \in Nat
    BY Sizes
  <2> QED
    BY <2>1, Pow2Step
<1>3. is_bit_set(l, k) <=> (v \div b) % 2 = 1
  BY BitOf
<1>4. term \in UInt /\ Value(term) = (n * b) % m
  BY LshiftValue
<1> HIDE DEF term
<1>5. add(p, term) \in UInt /\ Value(add(p, term)) = (Value(p) + Value(term)) % m
  BY <1>4, AddValue
<1>6. Value(p) = (low * n) % m
  OBVIOUS
<1> HIDE DEF v, n, m, b
<1>7. /\ low \in Nat
      /\ (v \div b) % 2 = 1 => v % (2 * b) = low + b
      /\ (v \div b) % 2 # 1 => v % (2 * b) = low
  BY <1>1, <1>2, NextBit
<1> HIDE DEF low
<1>8. ASSUME is_bit_set(l, k)
      PROVE  add(p, term) \in UInt /\ Value(add(p, term)) = ((v % pow2[k + 1]) * n) % m
  <2>1. v % pow2[k + 1] = low + b
    BY <1>2, <1>3, <1>7, <1>8
  <2>2. (((low * n) % m) + ((n * b) % m)) % m = ((low + b) * n) % m
    <3>1. low \in Int /\ n \in Int /\ b \in Int
      BY <1>1, <1>2, <1>7
    <3> QED
      BY <1>1, <3>1, AddShifted
  <2> QED
    BY <1>4, <1>5, <1>6, <2>1, <2>2
<1>9. ASSUME ~is_bit_set(l, k)
      PROVE  Value(p) = ((v % pow2[k + 1]) * n) % m
  BY <1>2, <1>3, <1>6, <1>7, <1>9
<1> QED
  BY <1>8, <1>9 DEF term, v, n, m

(* Every round keeps the invariant.                                        *)
LEMMA StepIInv == IInv /\ [Next]_vars => IInv'
<1> SUFFICES ASSUME IInv, [Next]_vars PROVE IInv'
  OBVIOUS
<1>1. Operands /\ ProductSoFar
  BY DEF IInv
<1>2. left \in UInt /\ right \in UInt /\ i \in 0 .. Bits /\ product \in UInt
  BY <1>1 DEF Operands, ProductSoFar
<1>3. Bits \in Nat
  BY Sizes
<1>4. CASE AddTerm
  <2>1. i \in 0 .. (Bits - 1) /\ i' = i + 1 /\ UNCHANGED <<hex, left, right>>
    BY <1>2, <1>3, <1>4 DEF AddTerm
  <2>2. is_bit_set(left, i) /\ product' = add(product, lshift(right, i))
    BY <1>4 DEF AddTerm
  <2>3. /\ add(product, lshift(right, i)) \in UInt
        /\ Value(add(product, lshift(right, i)))
             = ((Value(left) % pow2[i + 1]) * Value(right)) % pow2[Bits]
    BY <1>1, <1>2, <2>1, <2>2, RoundKeeps DEF ProductSoFar
  <2>4. Operands'
    <3>1. i + 1 \in 0 .. Bits
      BY <1>3, <2>1
    <3> QED
      BY <1>1, <2>1, <3>1 DEF Operands
  <2>5. ProductSoFar'
    BY <2>1, <2>2, <2>3 DEF ProductSoFar
  <2> QED
    BY <2>4, <2>5 DEF IInv
<1>5. CASE SkipBit
  <2>1. i \in 0 .. (Bits - 1) /\ i' = i + 1 /\ UNCHANGED <<hex, left, right, product>>
    BY <1>2, <1>3, <1>5 DEF SkipBit
  <2>2. ~is_bit_set(left, i)
    BY <1>5 DEF SkipBit
  <2>3. Value(product) = ((Value(left) % pow2[i + 1]) * Value(right)) % pow2[Bits]
    BY <1>1, <1>2, <2>1, <2>2, RoundKeeps DEF ProductSoFar
  <2>4. Operands'
    <3>1. i + 1 \in 0 .. Bits
      BY <1>3, <2>1
    <3> QED
      BY <1>1, <2>1, <3>1 DEF Operands
  <2>5. ProductSoFar'
    BY <1>2, <2>1, <2>3 DEF ProductSoFar
  <2> QED
    BY <2>4, <2>5 DEF IInv
<1>6. CASE UNCHANGED vars
  BY <1>1, <1>6 DEF vars, IInv, Operands, ProductSoFar
<1> QED
  BY <1>4, <1>5, <1>6 DEF Next

(* In every reachable state of uint256_mul() the product so far is right   *)
(* times the bits of left that have been looked at, modulo 2^256.          *)
THEOREM ProductCorrect == Spec => []ProductSoFar
<1>1. IInv => ProductSoFar
  BY DEF IInv
<1> QED
  BY <1>1, InitIInv, StepIInv, PTL DEF Spec

(* uint256_sub() is subtraction modulo 2^256 on every pair of operands,    *)
(* and uint256_add() undoes it.                                            *)
THEOREM SubtractionCorrect == Spec => []SubtractsBack
<1>1. IInv => SubtractsBack
  BY SubtractsOperands DEF IInv
<1> QED
  BY <1>1, InitIInv, StepIInv, PTL DEF Spec

(* uint256_create_from_hex() reads text of any length modulo 2^256 and     *)
(* uint256_format_as_hex() writes what it reads back.                      *)
THEOREM HexCorrect == Spec => []HexReadsBack
<1>1. IInv => HexReadsBack
  BY HexOperands DEF IInv
<1> QED
  BY <1>1, InitIInv, StepIInv, PTL DEF Spec

(* What uint256_mul() returns after its last round is the product of its   *)
(* operands modulo 2^256.                                                  *)
THEOREM MulReturnsProduct ==
  Spec => [](i = Bits => Value(product) = (Value(left) * Value(right)) % pow2[Bits])
<1>1. IInv => (i = Bits => Value(product) = (Value(left) * Value(right)) % pow2[Bits])
  <2> SUFFICES ASSUME IInv, i = Bits
               PROVE  Value(product) = (Value(left) * Value(right)) % pow2[Bits]
    OBVIOUS
  <2>1. Value(product) = ((Value(left) % pow2[Bits]) * Value(right)) % pow2[Bits]
    BY DEF IInv, ProductSoFar
  <2>2. left \in UInt
    BY DEF IInv, Operands
  <2>3. Value(left) % pow2[Bits] = Value(left)
    BY <2>2, ValueBound, Pow2Bits, ModSmall
  <2> QED
    BY <2>1, <2>3
<1> QED
  BY <1>1, InitIInv, StepIInv, PTL DEF Spec
=============================================================================
