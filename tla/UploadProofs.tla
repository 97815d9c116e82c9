---------------------------- MODULE UploadProofs ----------------------------
(***************************************************************************)
(* Proofs about Upload: that a chunked body is decoded to what was put     *)
(* into it, and that what FilesProofs shows of the handlers holds for the  *)
(* requests that come out of such bodies as for all others.                *)
(***************************************************************************)
EXTENDS Upload, FilesProofs

-----------------------------------------------------------------------------
(***************************************************************************)
(* Texts                                                                   *)
(***************************************************************************)
\* find is npos, or the first place where the pattern occurs.
LEMMA FindLeast ==
    ASSUME NEW text, Len(text) \in Nat, NEW pattern, Len(pattern) \in Nat, NEW from \in Int, from >= -1
    PROVE  \/ find(text, pattern, from) = npos /\ Places(text, pattern, from) = {}
           \/ /\ find(text, pattern, from) \in Places(text, pattern, from)
              /\ \A k \in Places(text, pattern, from) : find(text, pattern, from) <= k
<1> DEFINE places == Places(text, pattern, from)
           least == CHOOSE k \in places : \A m \in places : k <= m
<1>1. CASE places = {}
  BY <1>1 DEF find
<1>2. CASE places # {}
  <2> DEFINE shifted == {k + 1 : k \in places}
  <2>1. places \subseteq Int /\ \A k \in places : k + 1 \in Nat
    BY DEF Places
  <2> HIDE DEF places
  <2>2. shifted \subseteq Nat /\ shifted # {}
    BY <1>2, <2>1
  <2>3. PICK x \in shifted : \A y \in shifted : x <= y
    BY <2>2, LeastNatural
  <2>4. PICK k \in places : x = k + 1
    BY <2>3
  <2>5. \A m \in places : k <= m
    <3> TAKE m \in places
    <3>1. m + 1 \in shifted /\ m \in Int /\ k \in Int
      BY <2>1
    <3> HIDE DEF shifted
    <3> QED
      BY <2>3, <2>4, <3>1
  <2>6. least \in places /\ \A m \in places : least <= m
    BY <2>5
  <2>7. find(text, pattern, from) = least
    BY <1>2 DEF find, places
  <2> QED
    BY <2>6, <2>7 DEF places
<1> QED
  BY <1>1, <1>2

\* Where a pattern occurs and occurs nowhere before, there it is found.
LEMMA FoundAt ==
    ASSUME NEW text, Len(text) \in Nat, NEW pattern, Len(pattern) \in Nat, NEW from \in Nat,
           NEW p \in Nat, from <= p, OccursAt(text, pattern, p),
           \A k \in from..(p - 1) : ~OccursAt(text, pattern, k)
    PROVE  find(text, pattern, from) = p
<1>1. p \in Places(text, pattern, from)
  BY DEF Places, OccursAt
<1>2. \A k \in Places(text, pattern, from) : k \in Int /\ p <= k
  <2> TAKE k \in Places(text, pattern, from)
  <2>1. k \in Int /\ from <= k /\ OccursAt(text, pattern, k)
    BY DEF Places
  <2>2. ~(k < p)
    BY <2>1
  <2> QED
    BY <2>1, <2>2
<1>3. find(text, pattern, from) \in Places(text, pattern, from) /\ find(text, pattern, from) <= p
  BY <1>1, FindLeast
<1> QED
  BY <1>2, <1>3

\* A part of a text that is there in full, and one that may end before.
LEMMA PartIs ==
    ASSUME NEW S, NEW text \in Seq(S), NEW from \in Nat, NEW length \in Nat, from + length <= Len(text)
    PROVE  /\ substr(text, from, length) \in Seq(S) /\ Len(substr(text, from, length)) = length
           /\ \A i \in 1..length : substr(text, from, length)[i] = text[from + i]
<1>1. substr(text, from, length) = SubSeq(text, from + 1, from + length)
  BY DEF substr
<1>2. /\ from + 1 \in Int /\ from + length \in Int
      /\ \A i \in (from + 1)..(from + length) : text[i] \in S
  BY ElementOfSeq
<1> DEFINE part == SubSeq(text, from + 1, from + length)
<1>3. /\ part \in Seq(S)
      /\ Len(part) = IF from + 1 <= from + length THEN from + length - (from + 1) + 1 ELSE 0
      /\ \A i \in 1..(from + length - (from + 1) + 1) : part[i] = text[from + 1 + i - 1]
  BY <1>2, SubSeqProperties
<1> HIDE DEF part
<1>4. Len(part) = length
  BY <1>3
<1>5. \A i \in 1..length : part[i] = text[from + i]
  <2> TAKE i \in 1..length
  <2>1. i \in 1..(from + length - (from + 1) + 1) /\ from + 1 + i - 1 = from + i
    OBVIOUS
  <2> QED
    BY <1>3, <2>1
<1> QED
  BY <1>1, <1>3, <1>4, <1>5 DEF part

-----------------------------------------------------------------------------
(***************************************************************************)
(* Chunk sizes                                                             *)
(***************************************************************************)
Symbols == {HexDigits[d] : d \in DOMAIN HexDigits}

\* Each digit has a value of its own, less than the base.
LEMMA DigitIs ==
    /\ Base \in Nat /\ Base > 1 /\ DOMAIN HexDigits = 1..Base
    /\ Symbols \subseteq STRING /\ "r" \notin Symbols /\ "n" \notin Symbols
    /\ \A v \in 1..Base : HexDigits[v] \in Symbols /\ DigitValue(HexDigits[v]) = v - 1
    /\ \A digit \in Symbols : DigitValue(digit) \in 0..(Base - 1)
<1>1. Base \in Nat /\ Base > 1 /\ DOMAIN HexDigits = 1..Base
  BY ChunkedAssumption, LenProperties DEF Base
<1>2. \A v \in 1..Base : HexDigits[v] \in STRING \ {"r", "n"}
  BY <1>1, ChunkedAssumption, ElementOfSeq DEF Base
<1>3. Symbols \subseteq STRING /\ "r" \notin Symbols /\ "n" \notin Symbols
  BY <1>1, <1>2 DEF Symbols
<1>4. ASSUME NEW v \in 1..Base PROVE HexDigits[v] \in Symbols /\ DigitValue(HexDigits[v]) = v - 1
  <2> DEFINE w == CHOOSE w \in DOMAIN HexDigits : HexDigits[w] = HexDigits[v]
  <2>1. w \in DOMAIN HexDigits /\ HexDigits[w] = HexDigits[v]
    BY <1>1
  <2>2. w = v
    BY <1>1, <2>1, ChunkedAssumption
  <2> QED
    BY <1>1, <2>2 DEF DigitValue, Symbols
<1>5. ASSUME NEW digit \in Symbols PROVE DigitValue(digit) \in 0..(Base - 1)
  <2>1. PICK v \in 1..Base : digit = HexDigits[v]
    BY <1>1 DEF Symbols
  <2>2. DigitValue(digit) = v - 1
    BY <1>4, <2>1
  <2> QED
    BY <1>1, <2>2
<1> QED
  BY <1>1, <1>3, <1>4, <1>5

\* The values of the beginnings of a text of digits.
IsValues(value, digits) ==
    /\ value \in [0..Len(digits) -> Nat] /\ value[0] = 0
    /\ \A k \in 1..Len(digits) : value[k] = value[k - 1] * Base + DigitValue(digits[k])

\* HexValue is the last of them.
LEMMA ValueIs ==
    ASSUME NEW digits \in Seq(Symbols)
    PROVE  \E value : IsValues(value, digits) /\ HexValue(digits) = value[Len(digits)]
<1> DEFINE n == Len(digits)
           back == [k \in 1..n |-> k - 1]
           step == [p \in (1..n) \X Nat |-> p[2] * Base + DigitValue(digits[p[1]])]
           Is(f) == f = [k \in 0..n |-> IF k = 0 THEN 0 ELSE f[k - 1] * Base + DigitValue(digits[k])]
           value == CHOOSE f : Is(f)
<1>1. n \in Nat /\ \A k \in 1..n : DigitValue(digits[k]) \in Nat
  <2>1. n \in Nat /\ \A k \in 1..n : digits[k] \in Symbols
    BY LenProperties, ElementOfSeq
  <2> HIDE DEF n
  <2>2. \A digit \in Symbols : DigitValue(digit) \in Nat
    BY DigitIs
  <2> QED
    BY <2>1, <2>2
<1>2. Base \in Nat
  BY DigitIs
<1>3. GoesBack(back, n) /\ \A k \in 1..n : back[k] = k - 1
  BY <1>1 DEF GoesBack
<1>4. ASSUME NEW k \in 1..n, NEW x \in Nat
      PROVE  x * Base + DigitValue(digits[k]) \in Nat
  <2> DEFINE d == DigitValue(digits[k])
  <2>1. d \in Nat
    BY <1>1
  <2> HIDE DEF d
  <2>2. x * Base \in Nat
    BY <1>2
  <2>3. x * Base + d \in Nat
    BY <2>1, <2>2
  <2> QED
    BY <2>3 DEF d
<1>5. IsStep(step, Nat, n)
  BY <1>4 DEF IsStep
<1>6. 0 \in Nat
  OBVIOUS
<1> HIDE DEF back
<1>7. PICK f : Recursive(f, Nat, 0, n, back, step)
  BY <1>1, <1>3, <1>5, <1>6, RecursiveFunction
<1>8. /\ f \in [0..n -> Nat] /\ f[0] = 0
      /\ \A k \in 1..n : f[k] = step[<<k, f[k - 1]>>] /\ f[k - 1] \in Nat
  <2>1. \A k \in 1..n : k - 1 \in 0..n
    BY <1>1
  <2> QED
    BY <1>3, <1>7, <2>1 DEF Recursive
<1>9. \A k \in 1..n : f[k] = f[k - 1] * Base + DigitValue(digits[k])
  BY <1>8
<1>10. Is(f)
  BY <1>1, <1>8, <1>9
<1>11. Is(value)
  BY <1>10
<1>12. HexValue(digits) = value[n]
  BY DEF HexValue
<1> HIDE DEF value
<1>13. ASSUME NEW g, Is(g) PROVE g = f
  <2> DEFINE bad == {k \in 0..n : g[k] # f[k]}
  <2>1. bad = {}
    <3> SUFFICES ASSUME bad # {} PROVE FALSE
      OBVIOUS
    <3>1. PICK k \in bad : \A m \in bad : k <= m
      <4>1. bad \subseteq Nat
        OBVIOUS
      <4> QED
        BY <4>1, LeastNatural
    <3>2. k \in 0..n /\ g[k] # f[k]
      OBVIOUS
    <3>3. k # 0
      BY <1>1, <1>8, <1>13, <3>2
    <3>4. k - 1 \in 0..n /\ k \in 1..n /\ k - 1 < k
      BY <1>1, <3>2, <3>3
    <3>5. g[k - 1] = f[k - 1]
      <4> SUFFICES ASSUME k - 1 \in bad PROVE FALSE
        BY <3>4
      <4> HIDE DEF bad
      <4> QED
        BY <3>1, <3>4
    <3>6. g[k] = g[k - 1] * Base + DigitValue(digits[k])
      BY <1>13, <3>3, <3>4
    <3> QED
      BY <1>9, <3>2, <3>4, <3>5, <3>6
  <2>2. \A k \in 0..n : g[k] = f[k]
    BY <2>1
  <2>3. g = [k \in 0..n |-> g[k]]
    BY <1>13
  <2> QED
    BY <1>8, <2>2, <2>3
<1>14. value = f
  BY <1>11, <1>13
<1> QED
  BY <1>8, <1>9, <1>12, <1>14 DEF IsValues

\* One more digit is worth itself, and makes the others worth Base times as much.
LEMMA ValueOfAppend ==
    ASSUME NEW digits \in Seq(Symbols), NEW digit \in Symbols
    PROVE  /\ Append(digits, digit) \in Seq(Symbols)
           /\ HexValue(digits) \in Nat
           /\ HexValue(Append(digits, digit)) = HexValue(digits) * Base + DigitValue(digit)
<1> DEFINE n == Len(digits)
           longer == Append(digits, digit)
<1>1. /\ n \in Nat /\ longer \in Seq(Symbols) /\ Len(longer) = n + 1
      /\ \A k \in 1..n : longer[k] = digits[k]
      /\ longer[n + 1] = digit
  BY AppendProperties, LenProperties
<1> HIDE DEF longer
<1>2. PICK f : IsValues(f, digits) /\ HexValue(digits) = f[n]
  BY ValueIs
<1>3. PICK g : IsValues(g, longer) /\ HexValue(longer) = g[n + 1]
  BY <1>1, ValueIs
<1> HIDE DEF n
<1>4. /\ f \in [0..n -> Nat] /\ f[0] = 0
      /\ \A k \in 1..n : f[k] = f[k - 1] * Base + DigitValue(digits[k])
  BY <1>2 DEF IsValues, n
<1>5. /\ g[0] = 0
      /\ \A k \in 1..(n + 1) : g[k] = g[k - 1] * Base + DigitValue(longer[k])
  BY <1>1, <1>3 DEF IsValues
<1> DEFINE bad == {k \in 0..n : g[k] # f[k]}
<1>6. bad = {}
  <2> SUFFICES ASSUME bad # {} PROVE FALSE
    OBVIOUS
  <2>1. PICK k \in bad : \A m \in bad : k <= m
    <3>1. bad \subseteq Nat
      OBVIOUS
    <3> QED
      BY <3>1, LeastNatural
  <2>2. k \in 0..n /\ g[k] # f[k]
    OBVIOUS
  <2>3. k - 1 \in 0..n /\ k \in 1..n /\ k \in 1..(n + 1) /\ k - 1 < k
    BY <1>1, <1>4, <1>5, <2>2
  <2>4. g[k - 1] = f[k - 1]
    <3> SUFFICES ASSUME k - 1 \in bad PROVE FALSE
      BY <2>3
    <3> HIDE DEF bad
    <3> QED
      BY <2>1, <2>3
  <2> QED
    BY <1>1, <1>4, <1>5, <2>2, <2>3, <2>4
<1>7. n \in 0..n /\ n + 1 \in 1..(n + 1) /\ n + 1 - 1 = n
  BY <1>1
<1>8. g[n] = f[n] /\ g[n + 1] = g[n] * Base + DigitValue(digit)
  BY <1>1, <1>5, <1>6, <1>7
<1>9. f[n] \in Nat
  BY <1>4, <1>7
<1> QED
  BY <1>1, <1>2, <1>3, <1>8, <1>9 DEF longer, n

\* Division by the base.
LEMMA DivisionIs ==
    ASSUME NEW n \in Nat, n > 0, NEW base \in Nat, base > 1
    PROVE  /\ n \div base \in Nat /\ n \div base < n /\ n % base \in 0..(base - 1)
           /\ (n \div base) * base + (n % base) = n
<1>1. n \div base \in Int /\ n % base \in 0..(base - 1) /\ (n \div base) * base + (n % base) = n
  OBVIOUS
<1>2. ASSUME NEW q \in Int, NEW r \in 0..(base - 1), q * base + r = n
      PROVE  q \in Nat /\ q < n
  <2>1. q >= 0
    <3>1. CASE q <= -1
      <4>1. q * base <= -1 * base
        BY <3>1
      <4> QED
        BY <1>2, <4>1
    <3> QED
      BY <3>1
  <2> QED
    BY <1>2, <2>1
<1> QED
  BY <1>1, <1>2

\* The text of a number is made of digits, and has its value.
LEMMA NumberIsText ==
    ASSUME NEW n \in Nat
    PROVE  HexText(n) \in Seq(Symbols) /\ HexText(n) # <<>> /\ HexValue(HexText(n)) = n
<1> DEFINE S == Seq(Symbols)
           back == [k \in 1..n |-> k \div Base]
           step == [p \in (1..n) \X S |-> Append(p[2], HexDigits[(p[1] % Base) + 1])]
           Is(f) == f = [k \in 0..n |-> IF k = 0 THEN <<>>
                                        ELSE Append(f[k \div Base], HexDigits[(k % Base) + 1])]
           digits == CHOOSE f : Is(f)
<1>1. Base \in Nat /\ Base > 1
  BY DigitIs
<1>2. ASSUME NEW k \in 1..n
      PROVE  /\ k \div Base \in 0..n /\ k \div Base < k /\ (k % Base) + 1 \in 1..Base
             /\ (k \div Base) * Base + (k % Base) = k
             /\ HexDigits[(k % Base) + 1] \in Symbols /\ DigitValue(HexDigits[(k % Base) + 1]) = k % Base
  <2>1. /\ k \div Base \in Nat /\ k \div Base < k /\ k % Base \in 0..(Base - 1)
        /\ (k \div Base) * Base + (k % Base) = k
    <3>1. k \in Nat /\ k > 0
      OBVIOUS
    <3> QED
      BY <1>1, <3>1, DivisionIs
  <2> DEFINE d == k % Base
  <2> HIDE DEF d
  <2>2. ASSUME d \in 0..(Base - 1)
        PROVE  d + 1 \in 1..Base /\ HexDigits[d + 1] \in Symbols /\ DigitValue(HexDigits[d + 1]) = d
    <3> DEFINE v == d + 1
    <3>1. v \in 1..Base /\ v - 1 = d
      BY <1>1, <2>2
    <3> HIDE DEF v
    <3>2. HexDigits[v] \in Symbols /\ DigitValue(HexDigits[v]) = v - 1
      BY <3>1, DigitIs
    <3> QED
      BY <3>1, <3>2 DEF v
  <2>3. d \in 0..(Base - 1)
    BY <2>1 DEF d
  <2>4. k \div Base \in 0..n
    BY <2>1
  <2> QED
    BY <2>1, <2>2, <2>3, <2>4 DEF d
<1>3. GoesBack(back, n)
  BY <1>2 DEF GoesBack
<1>4. \A k \in 1..n, x \in S : Append(x, HexDigits[(k % Base) + 1]) \in S
  BY <1>2, AppendProperties
<1>5. IsStep(step, S, n)
  BY <1>4 DEF IsStep
<1>6. <<>> \in S
  BY EmptySeq
<1> HIDE DEF S, back
<1>7. PICK f : Recursive(f, S, <<>>, n, back, step)
  BY <1>3, <1>5, <1>6, RecursiveFunction
<1>8. f \in [0..n -> S] /\ f[0] = <<>> /\ \A k \in 1..n : f[k] = step[<<k, f[back[k]]>>]
  BY <1>7 DEF Recursive
<1>9. \A k \in 1..n : back[k] = k \div Base /\ f[k \div Base] \in S
  BY <1>2, <1>8 DEF back
<1>10. \A k \in 1..n : f[k] = Append(f[k \div Base], HexDigits[(k % Base) + 1])
  BY <1>8, <1>9
<1>11. Is(f)
  <2>1. \A k \in 0..n : f[k] = IF k = 0 THEN <<>> ELSE Append(f[k \div Base], HexDigits[(k % Base) + 1])
    BY <1>8, <1>10
  <2> QED
    BY <1>8, <2>1
<1>12. Is(digits)
  BY <1>11
<1>13. n # 0 => HexText(n) = digits[n]
  BY DEF HexText
<1> HIDE DEF digits
<1>14. /\ digits[0] = <<>>
       /\ \A k \in 1..n : digits[k] = Append(digits[k \div Base], HexDigits[(k % Base) + 1])
  <2>1. 0 \in 0..n /\ \A k \in 1..n : k \in 0..n /\ k # 0
    OBVIOUS
  <2> QED
    BY <1>12, <2>1
<1> DEFINE Good(k) == digits[k] \in Seq(Symbols) /\ HexValue(digits[k]) = k
<1>15. Good(0) /\ HexValue(<<>>) = 0
  <2>1. <<>> \in Seq(Symbols) /\ Len(<<>>) = 0
    BY EmptySeq
  <2>2. PICK value : IsValues(value, <<>>) /\ HexValue(<<>>) = value[Len(<<>>)]
    BY <2>1, ValueIs
  <2> QED
    BY <1>14, <2>1, <2>2 DEF IsValues
<1>16. ASSUME NEW k \in 1..n, Good(k \div Base) PROVE Good(k)
  <2>1. /\ digits[k] \in Seq(Symbols)
        /\ HexValue(digits[k]) = (k \div Base) * Base + DigitValue(HexDigits[(k % Base) + 1])
    <3> DEFINE s == digits[k \div Base]
               d == HexDigits[(k % Base) + 1]
    <3>1. s \in Seq(Symbols) /\ HexValue(s) = k \div Base
      BY <1>16
    <3>2. d \in Symbols /\ digits[k] = Append(s, d)
      BY <1>2, <1>14
    <3> HIDE DEF s, d
    <3>3. /\ Append(s, d) \in Seq(Symbols)
          /\ HexValue(Append(s, d)) = HexValue(s) * Base + DigitValue(d)
      BY <3>1, <3>2, ValueOfAppend
    <3> QED
      BY <3>1, <3>2, <3>3 DEF d
  <2>2. HexValue(digits[k]) = (k \div Base) * Base + (k % Base)
    BY <1>2, <2>1
  <2>3. (k \div Base) * Base + (k % Base) = k
    BY <1>2
  <2> QED
    BY <2>1, <2>2, <2>3
<1>17. \A k \in 0..n : Good(k)
  <2> HIDE DEF Good
  <2> DEFINE bad == {k \in 0..n : ~Good(k)}
  <2> SUFFICES ASSUME bad # {} PROVE FALSE
    OBVIOUS
  <2>1. PICK k \in bad : \A m \in bad : k <= m
    <3>1. bad \subseteq Nat
      OBVIOUS
    <3> QED
      BY <3>1, LeastNatural
  <2>2. k \in 0..n /\ ~Good(k)
    OBVIOUS
  <2>3. k \in 1..n
    BY <1>15, <2>2
  <2> DEFINE q == k \div Base
  <2>4. q \in 0..n /\ q < k
    BY <1>2, <2>3
  <2>5. ~Good(q)
    BY <1>16, <2>2, <2>3
  <2> HIDE DEF q
  <2>6. q \in bad
    BY <2>4, <2>5
  <2> HIDE DEF bad
  <2> QED
    BY <2>1, <2>2, <2>4, <2>6
<1>18. CASE n = 0
  <2> DEFINE zero == HexDigits[1]
  <2>1. zero \in Symbols /\ DigitValue(zero) = 0
    <3>1. 1 \in 1..Base /\ 1 - 1 = 0
      BY <1>1
    <3> QED
      BY <3>1, DigitIs
  <2>2. HexText(n) = <<zero>>
    BY <1>18 DEF HexText
  <2> HIDE DEF zero
  <2>3. <<zero>> = Append(<<>>, zero) /\ <<>> \in Seq(Symbols)
    BY EmptySeq
  <2>4. Append(<<>>, zero) \in Seq(Symbols) /\ HexValue(Append(<<>>, zero)) = 0 * Base + 0
    BY <1>15, <2>1, <2>3, ValueOfAppend
  <2>5. 0 * Base + 0 = 0
    BY <1>1
  <2>6. <<zero>> # <<>>
    OBVIOUS
  <2> QED
    BY <1>18, <2>2, <2>3, <2>4, <2>5, <2>6
<1>19. CASE n # 0
  <2>1. n \in 1..n /\ n \in 0..n
    BY <1>19
  <2>2. digits[n] = Append(digits[n \div Base], HexDigits[(n % Base) + 1])
    BY <1>14, <2>1
  <2>3. digits[n \div Base] \in Seq(Symbols)
    BY <1>2, <1>17, <2>1
  <2>4. digits[n] # <<>>
    <3>1. HexDigits[(n % Base) + 1] \in Symbols
      BY <1>2, <2>1
    <3> QED
      BY <2>2, <2>3, <3>1, AppendProperties
  <2> QED
    BY <1>13, <1>17, <1>19, <2>1, <2>4
<1> QED
  BY <1>18, <1>19

-----------------------------------------------------------------------------
(***************************************************************************)
(* Bodies                                                                  *)
(***************************************************************************)
Data == Seq(STRING) \ {<<>>}

\* The symbols of a text that is put together of two.
LEMMA Joined ==
    ASSUME NEW S, NEW s \in Seq(S), NEW t \in Seq(S)
    PROVE  /\ s \o t \in Seq(S) /\ Len(s \o t) = Len(s) + Len(t)
           /\ \A i \in 1..Len(s) : (s \o t)[i] = s[i]
           /\ \A i \in 1..Len(t) : (s \o t)[Len(s) + i] = t[i]
<1>1. /\ s \o t \in Seq(S) /\ Len(s \o t) = Len(s) + Len(t)
      /\ \A i \in 1..(Len(s) + Len(t)) : (s \o t)[i] = IF i <= Len(s) THEN s[i] ELSE t[i - Len(s)]
  BY ConcatProperties
<1>2. Len(s) \in Nat /\ Len(t) \in Nat
  BY LenProperties
<1>3. ASSUME NEW i \in 1..Len(t) PROVE (s \o t)[Len(s) + i] = t[i]
  <2>1. Len(s) + i \in 1..(Len(s) + Len(t)) /\ ~(Len(s) + i <= Len(s)) /\ Len(s) + i - Len(s) = i
    BY <1>2
  <2> QED
    BY <1>1, <2>1
<1> QED
  BY <1>1, <1>2, <1>3

\* Line breaks and numbers are texts.
LEMMA TextsAre ==
    /\ CRLF \in Seq(STRING) /\ Len(CRLF) = 2 /\ CRLF[1] = "r" /\ CRLF[2] = "n"
    /\ \A n \in Nat : HexText(n) \in Seq(STRING)
<1>1. "r" \in STRING /\ "n" \in STRING
  BY ChunkedAssumption
<1>2. CRLF \in Seq(STRING) /\ Len(CRLF) = 2 /\ CRLF[1] = "r" /\ CRLF[2] = "n"
  <2> DEFINE r == "r"
             n == "n"
             S == STRING
  <2>1. r \in S /\ n \in S
    BY <1>1
  <2> HIDE DEF r, n, S
  <2>2. <<r, n>> \in Seq(S) /\ Len(<<r, n>>) = 2 /\ <<r, n>>[1] = r /\ <<r, n>>[2] = n
    BY <2>1
  <2> QED
    BY <2>2 DEF CRLF, r, n, S
<1>3. ASSUME NEW n \in Nat PROVE HexText(n) \in Seq(STRING)
  <2>1. HexText(n) \in Seq(Symbols) /\ Symbols \subseteq STRING
    BY NumberIsText, DigitIs
  <2>2. \A i \in 1..Len(HexText(n)) : HexText(n)[i] \in STRING
    BY <2>1, ElementOfSeq
  <2> QED
    BY <2>1, <2>2, SeqDef
<1> QED
  BY <1>2, <1>3

\* What is joined to the end of a row of texts, from each of them on.
JoinedFrom(from, texts, n, last) ==
    /\ from \in [1..(n + 1) -> Seq(STRING)] /\ from[n + 1] = last
    /\ \A k \in 1..n : from[k] = texts[k] \o from[k + 1]

\* There is such a function,
LEMMA JoinedExists ==
    ASSUME NEW n \in Nat, NEW texts \in [1..n -> Seq(STRING)], NEW last \in Seq(STRING)
    PROVE  \E from : JoinedFrom(from, texts, n, last)
<1> DEFINE S == Seq(STRING)
           step == [p \in (1..n) \X S |-> texts[p[1]] \o p[2]]
<1>1. \A x \in S, y \in S : x \o y \in S
  BY ConcatProperties
<1>2. texts \in [1..n -> S] /\ last \in S
  OBVIOUS
<1> HIDE DEF S
<1>3. IsStep(step, S, n)
  BY <1>1, <1>2 DEF IsStep
<1>4. PICK f : RecursiveDown(f, S, last, n, step)
  BY <1>2, <1>3, BackwardFunction
<1>5. /\ f \in [1..(n + 1) -> S] /\ f[n + 1] = last
      /\ \A k \in 1..n : f[k] = step[<<k, f[k + 1]>>]
  BY <1>4 DEF RecursiveDown
<1>6. \A k \in 1..n : k + 1 \in 1..(n + 1)
  OBVIOUS
<1>7. \A k \in 1..n : f[k + 1] \in S
  BY <1>5, <1>6
<1>8. \A k \in 1..n : f[k] = texts[k] \o f[k + 1]
  BY <1>5, <1>7
<1> QED
  BY <1>5, <1>8 DEF JoinedFrom, S

\* and a function written that way is one.
LEMMA JoinedIs ==
    ASSUME NEW n \in Nat, NEW texts \in [1..n -> Seq(STRING)], NEW last \in Seq(STRING),
           NEW from, from = [k \in 1..(n + 1) |-> from[k]], from[n + 1] = last,
           \A k \in 1..n : from[k] = texts[k] \o from[k + 1]
    PROVE  JoinedFrom(from, texts, n, last)
<1> DEFINE S == Seq(STRING)
           T == {k \in 1..(n + 1) : from[k] \in S}
<1>1. n + 1 \in T
  OBVIOUS
<1>2. ASSUME NEW k \in 1..n, k + 1 \in T PROVE k \in T
  <2>1. texts[k] \in S /\ from[k + 1] \in S
    BY <1>2
  <2>2. texts[k] \o from[k + 1] \in S
    BY <2>1, ConcatProperties
  <2>3. k \in 1..(n + 1)
    OBVIOUS
  <2> QED
    BY <2>2, <2>3
<1> HIDE DEF T
<1>3. 1..(n + 1) \subseteq T
  BY <1>1, <1>2, Downward
<1>4. \A k \in 1..(n + 1) : from[k] \in S
  BY <1>3 DEF T
<1>5. from \in [1..(n + 1) -> S]
  BY <1>4
<1> QED
  BY <1>5 DEF JoinedFrom

\* The data from each chunk on.
LEMMA ConcatenatedIs ==
    ASSUME NEW chunks \in Seq(Data)
    PROVE  JoinedFrom(ConcatenatedFrom(chunks), [k \in 1..Len(chunks) |-> chunks[k]], Len(chunks), <<>>)
<1> DEFINE n == Len(chunks)
           last == <<>>
           text(k) == chunks[k]
           texts == [k \in 1..n |-> text(k)]
           Is(f) == f = [k \in 1..(n + 1) |-> IF k > n THEN last ELSE text(k) \o f[k + 1]]
           from == CHOOSE f : Is(f)
<1>1. n \in Nat
  BY LenProperties
<1>2. last \in Seq(STRING) /\ texts \in [1..n -> Seq(STRING)]
  BY <1>1, EmptySeq, ElementOfSeq DEF Data
<1>3. ConcatenatedFrom(chunks) = from
  BY DEF ConcatenatedFrom
<1>4. \A k \in 1..n : texts[k] = text(k)
  OBVIOUS
<1> HIDE DEF n, last, text, texts
<1>5. /\ \A k \in 1..n : k \in 1..(n + 1) /\ ~(k > n)
      /\ n + 1 \in 1..(n + 1) /\ n + 1 > n
      /\ \A k \in 1..(n + 1) : k \in 1..n \/ (k = n + 1 /\ k > n)
  BY <1>1
<1>6. PICK f : JoinedFrom(f, texts, n, last)
  BY <1>1, <1>2, JoinedExists
<1>7. Is(f)
  <2>1. f \in [1..(n + 1) -> Seq(STRING)] /\ f[n + 1] = last
        /\ \A k \in 1..n : f[k] = text(k) \o f[k + 1]
    BY <1>4, <1>6 DEF JoinedFrom
  <2>2. \A k \in 1..(n + 1) : f[k] = IF k > n THEN last ELSE text(k) \o f[k + 1]
    BY <1>5, <2>1
  <2> QED
    BY <2>1, <2>2
<1>8. Is(from)
  BY <1>7
<1> HIDE DEF from
<1>9. from[n + 1] = last /\ \A k \in 1..n : from[k] = texts[k] \o from[k + 1]
  BY <1>4, <1>5, <1>8
<1>10. from = [k \in 1..(n + 1) |-> from[k]]
  BY <1>8
<1>11. JoinedFrom(from, texts, n, last)
  BY <1>1, <1>2, <1>9, <1>10, JoinedIs
<1> QED
  BY <1>3, <1>11 DEF n, texts, text, last

\* What ends a body, and the text from each chunk on.
Ending(extension) == HexText(0) \o extension \o CRLF \o CRLF

\* The text from each chunk on.
LEMMA EncodedIs ==
    ASSUME NEW chunks \in Seq(Data), NEW extension \in Seq(STRING)
    PROVE  JoinedFrom(EncodedFrom(chunks, extension),
                      [k \in 1..Len(chunks) |-> EncodedChunk(chunks[k], extension)],
                      Len(chunks), Ending(extension))
<1> DEFINE n == Len(chunks)
           last == Ending(extension)
           text(k) == EncodedChunk(chunks[k], extension)
           texts == [k \in 1..n |-> text(k)]
           Is(f) == f = [k \in 1..(n + 1) |-> IF k > n THEN last ELSE text(k) \o f[k + 1]]
           from == CHOOSE f : Is(f)
<1>1. n \in Nat
  BY LenProperties
<1>2. last \in Seq(STRING) /\ texts \in [1..n -> Seq(STRING)]
  <2> DEFINE S == Seq(STRING)
  <2>1. \A k \in 1..n : chunks[k] \in S /\ Len(chunks[k]) \in Nat
    BY <1>1, LenProperties, ElementOfSeq DEF Data
  <2>2. \A x \in S, y \in S : x \o y \in S
    BY ConcatProperties
  <2>3. /\ CRLF \in S /\ extension \in S /\ HexText(0) \in S
        /\ \A k \in 1..n : HexText(Len(chunks[k])) \in S
    BY <2>1, TextsAre
  <2> HIDE DEF S, n
  <2>4. last \in S
    BY <2>2, <2>3 DEF Ending
  <2>5. \A k \in 1..n : text(k) \in S
    BY <2>1, <2>2, <2>3 DEF EncodedChunk
  <2> QED
    BY <2>4, <2>5 DEF S
<1>3. EncodedFrom(chunks, extension) = from
  BY DEF EncodedFrom, Ending
<1>4. \A k \in 1..n : texts[k] = text(k)
  OBVIOUS
<1> HIDE DEF n, last, text, texts
<1>5. /\ \A k \in 1..n : k \in 1..(n + 1) /\ ~(k > n)
      /\ n + 1 \in 1..(n + 1) /\ n + 1 > n
      /\ \A k \in 1..(n + 1) : k \in 1..n \/ (k = n + 1 /\ k > n)
  BY <1>1
<1>6. PICK f : JoinedFrom(f, texts, n, last)
  BY <1>1, <1>2, JoinedExists
<1>7. Is(f)
  <2>1. f \in [1..(n + 1) -> Seq(STRING)] /\ f[n + 1] = last
        /\ \A k \in 1..n : f[k] = text(k) \o f[k + 1]
    BY <1>4, <1>6 DEF JoinedFrom
  <2>2. \A k \in 1..(n + 1) : f[k] = IF k > n THEN last ELSE text(k) \o f[k + 1]
    BY <1>5, <2>1
  <2> QED
    BY <2>1, <2>2
<1>8. Is(from)
  BY <1>7
<1> HIDE DEF from
<1>9. from[n + 1] = last /\ \A k \in 1..n : from[k] = texts[k] \o from[k + 1]
  BY <1>4, <1>5, <1>8
<1>10. from = [k \in 1..(n + 1) |-> from[k]]
  BY <1>8
<1>11. JoinedFrom(from, texts, n, last)
  BY <1>1, <1>2, <1>9, <1>10, JoinedIs
<1> QED
  BY <1>3, <1>11 DEF n, texts, text, last

-----------------------------------------------------------------------------
(***************************************************************************)
(* Where a text occurs in another                                          *)
(***************************************************************************)
\* A text that is put together occurs where its parts do.
LEMMA OccursJoined ==
    ASSUME NEW S, NEW s \in Seq(S), NEW t \in Seq(S), NEW text, Len(text) \in Nat, NEW k \in Nat,
           OccursAt(text, s \o t, k)
    PROVE  OccursAt(text, s, k) /\ OccursAt(text, t, k + Len(s))
<1> DEFINE m == Len(s)
           n == Len(t)
           st == s \o t
<1>1. /\ m \in Nat /\ n \in Nat /\ Len(st) = m + n
      /\ \A i \in 1..m : st[i] = s[i]
      /\ \A i \in 1..n : st[m + i] = t[i]
  BY Joined, LenProperties
<1> HIDE DEF st
<1>2. k + m + n <= Len(text) /\ \A i \in 1..(m + n) : text[k + i] = st[i]
  BY <1>1 DEF OccursAt, st
<1> HIDE DEF m, n
<1>3. \A i \in 1..m : text[k + i] = s[i]
  <2>1. \A i \in 1..m : i \in 1..(m + n)
    BY <1>1
  <2> QED
    BY <1>1, <1>2, <2>1
<1>4. ASSUME NEW i \in 1..n PROVE text[k + m + i] = t[i]
  <2>1. m + i \in 1..(m + n) /\ k + (m + i) = k + m + i
    BY <1>1
  <2> QED
    BY <1>1, <1>2, <2>1
<1>5. k + m <= Len(text)
  BY <1>1, <1>2
<1> QED
  BY <1>2, <1>3, <1>4, <1>5 DEF OccursAt, m, n

\* The line of a chunk is found up to its end, and the size is read off it.
LEMMA LineIsRead ==
    ASSUME NEW text \in Seq(STRING), NEW at \in Nat, NEW size \in Nat,
           NEW extension \in Seq(STRING \ {"r"}),
           extension # <<>> => \A d \in DOMAIN HexDigits : extension[1] # HexDigits[d],
           OccursAt(text, HexText(size), at), OccursAt(text, extension, at + Len(HexText(size))),
           OccursAt(text, CRLF, at + Len(HexText(size)) + Len(extension))
    PROVE  /\ find(text, CRLF, at) = at + Len(HexText(size)) + Len(extension)
           /\ SizeDigits(substr(text, at, Len(HexText(size)) + Len(extension))) = HexText(size)
<1> DEFINE w == Len(HexText(size))
           e == Len(extension)
<1>0. /\ w = Len(HexText(size)) /\ e = Len(extension)
      /\ OccursAt(text, extension, at + w) /\ OccursAt(text, CRLF, at + w + e)
  OBVIOUS
<1>z. SUFFICES find(text, CRLF, at) = at + w + e /\ SizeDigits(substr(text, at, w + e)) = HexText(size)
  OBVIOUS
<1> HIDE DEF w, e
<1> USE <1>0
<1> DEFINE number == HexText(size)
           line == substr(text, at, w + e)
           stops == {k \in DOMAIN line : \A d \in DOMAIN HexDigits : line[k] # HexDigits[d]}
<1>1. /\ w \in Nat /\ e \in Nat /\ Len(text) \in Nat /\ Len(CRLF) = 2 /\ CRLF[1] = "r"
      /\ number \in Seq(Symbols) /\ number # <<>>
  BY LenProperties, NumberIsText, TextsAre
<1>2. /\ at + w + e + 2 <= Len(text)
      /\ \A i \in 1..w : text[at + i] = number[i]
      /\ \A i \in 1..e : text[at + w + i] = extension[i]
  BY <1>1 DEF OccursAt
<1>3. /\ \A i \in 1..w : number[i] \in Symbols
      /\ \A i \in 1..e : extension[i] \in STRING \ {"r"}
  BY <1>1, ElementOfSeq
<1> HIDE DEF number
<1>4. \A i \in 1..w : number[i] # "r"
  BY <1>3, DigitIs
<1>5. ASSUME NEW k \in at..(at + w + e - 1) PROVE ~OccursAt(text, CRLF, k)
  <2> SUFFICES text[k + 1] # "r"
    <3>1. 1 \in 1..2
      OBVIOUS
    <3> QED
      BY <1>1, <3>1 DEF OccursAt
  <2>1. CASE k < at + w
    <3>1. k + 1 - at \in 1..w /\ at + (k + 1 - at) = k + 1
      BY <1>1, <2>1
    <3>2. text[k + 1] = number[k + 1 - at]
      BY <1>2, <3>1
    <3> QED
      BY <1>4, <3>1, <3>2
  <2>2. CASE k >= at + w
    <3>1. k + 1 - (at + w) \in 1..e /\ at + w + (k + 1 - (at + w)) = k + 1
      BY <1>1, <2>2
    <3>2. text[k + 1] = extension[k + 1 - (at + w)]
      BY <1>2, <3>1
    <3> QED
      BY <1>3, <3>1, <3>2
  <2> QED
    BY <1>1, <2>1, <2>2
<1>6. find(text, CRLF, at) = at + w + e
  <2> DEFINE p == at + w + e
  <2>1. p \in Nat /\ at <= p
    BY <1>1
  <2>2. OccursAt(text, CRLF, p) /\ \A k \in at..(p - 1) : ~OccursAt(text, CRLF, k)
    BY <1>5
  <2> HIDE DEF p
  <2>3. find(text, CRLF, at) = p
    BY <1>1, <2>1, <2>2, FoundAt
  <2> QED
    BY <2>3 DEF p
<1>7. /\ line \in Seq(STRING) /\ Len(line) = w + e
      /\ \A i \in 1..(w + e) : line[i] = text[at + i]
  <2> DEFINE length == w + e
  <2>1. length \in Nat /\ at + length <= Len(text)
    BY <1>1, <1>2
  <2> HIDE DEF length
  <2>2. /\ substr(text, at, length) \in Seq(STRING) /\ Len(substr(text, at, length)) = length
        /\ \A i \in 1..length : substr(text, at, length)[i] = text[at + i]
    <3>1. text \in Seq(STRING) /\ at \in Nat
      BY <1>1
    <3> QED
      BY ONLY <2>1, <3>1, PartIs, ZenonT(30)
  <2> QED
    BY <2>2 DEF length
<1>8. \A i \in 1..w : i \in 1..(w + e) /\ line[i] = number[i]
  <2>1. \A i \in 1..w : i \in 1..(w + e)
    BY <1>1
  <2> QED
    BY <1>2, <1>7, <2>1
<1> HIDE DEF line
<1>9. \A i \in 1..w : i \notin stops
  BY <1>3, <1>8 DEF Symbols
<1>10. Len(number) = w
  BY DEF number
<1>11. CASE e = 0
  <2>1. stops = {}
    <3>1. w + e = w
      BY <1>1, <1>11
    <3>2. Len(line) = w /\ line \in Seq(STRING)
      BY <1>7, <3>1
    <3>3. DOMAIN line = 1..w
      BY ONLY <3>2, LenProperties
    <3> QED
      BY <1>9, <3>3
  <2>2. line = number
    <3>1. Len(line) = w
      BY <1>1, <1>7, <1>11
    <3>2. number \in Seq(STRING)
      BY TextsAre DEF number
    <3> QED
      BY <1>7, <1>8, <1>10, <3>1, <3>2, SeqEqual
  <2>3. SizeDigits(line) = line
    BY <2>1 DEF SizeDigits
  <2> QED
    BY <1>6, <2>2, <2>3 DEF number, line
<1>12. CASE e # 0
  <2> DEFINE stop == CHOOSE k \in stops : \A m \in stops : k <= m
  <2>1. w + 1 \in stops
    <3>1. 1 \in 1..e /\ extension # <<>> /\ w + 1 \in 1..(w + e) /\ at + (w + 1) = at + w + 1
      BY <1>1, <1>12
    <3>2. line[w + 1] = extension[1]
      <4>1. text[at + w + 1] = extension[1]
        BY <1>2, <3>1
      <4>2. line[w + 1] = text[at + (w + 1)]
        BY <1>7, <3>1
      <4> QED
        BY <3>1, <4>1, <4>2
    <3>3. w + 1 \in DOMAIN line
      BY <1>7, <3>1
    <3> QED
      BY <3>1, <3>2, <3>3
  <2>2. \A m \in stops : w + 1 <= m
    <3> TAKE m \in stops
    <3>1. m \in 1..(w + e) /\ m \notin 1..w
      BY <1>7, <1>9
    <3> QED
      BY <1>1, <3>1
  <2>3. stops \subseteq Int
    BY <1>1, <1>7
  <2> HIDE DEF stops
  <2>4. stop \in stops /\ \A m \in stops : stop <= m
    BY <2>1, <2>2
  <2>5. stop = w + 1
    <3> HIDE DEF stop
    <3>1. stop <= w + 1 /\ w + 1 <= stop /\ stop \in Int
      BY <2>1, <2>2, <2>3, <2>4
    <3> QED
      BY <1>1, <3>1
  <2>6. SizeDigits(line) = SubSeq(line, 1, w)
    <3>1. SizeDigits(line) = SubSeq(line, 1, stop - 1)
      BY <2>1 DEF SizeDigits, stops
    <3> HIDE DEF stop
    <3>2. stop - 1 = w
      BY <1>1, <2>5
    <3> QED
      BY <3>1, <3>2
  <2>7. /\ SubSeq(line, 1, w) \in Seq(STRING) /\ Len(SubSeq(line, 1, w)) = w
        /\ \A i \in 1..w : SubSeq(line, 1, w)[i] = line[i]
    <3>1. \A i \in 1..w : line[i] \in STRING
      BY <1>7, <1>8, ElementOfSeq
    <3>2. /\ SubSeq(line, 1, w) \in Seq(STRING)
          /\ Len(SubSeq(line, 1, w)) = IF 1 <= w THEN w - 1 + 1 ELSE 0
          /\ \A i \in 1..(w - 1 + 1) : SubSeq(line, 1, w)[i] = line[1 + i - 1]
      BY <1>1, <3>1, SubSeqProperties
    <3>3. w - 1 + 1 = w /\ \A i \in 1..w : 1 + i - 1 = i
      BY <1>1
    <3> QED
      BY <1>1, <3>2, <3>3
  <2>8. SubSeq(line, 1, w) = number
    <3>1. number \in Seq(STRING)
      BY TextsAre DEF number
    <3> DEFINE x == SubSeq(line, 1, w)
    <3>2. \A i \in 1..w : x[i] = number[i]
      BY <1>8, <2>7
    <3>3. x \in Seq(STRING) /\ Len(x) = w
      BY <2>7
    <3> HIDE DEF x
    <3>4. x = number
      BY <1>10, <3>1, <3>2, <3>3, SeqEqual
    <3> QED
      BY <3>4 DEF x
  <2> QED
    BY <1>6, <2>6, <2>8 DEF number, line
<1> QED
  BY <1>11, <1>12

\* And it occurs where they all do, one after the other.
LEMMA JoinedOccurs ==
    ASSUME NEW S, NEW s \in Seq(S), NEW t \in Seq(S), NEW text, Len(text) \in Nat, NEW k \in Nat,
           OccursAt(text, s, k), OccursAt(text, t, k + Len(s))
    PROVE  OccursAt(text, s \o t, k)
<1> DEFINE m == Len(s)
           n == Len(t)
           st == s \o t
<1>1. /\ m \in Nat /\ n \in Nat /\ Len(st) = m + n
      /\ \A i \in 1..m : st[i] = s[i]
      /\ \A i \in 1..n : st[m + i] = t[i]
  BY Joined, LenProperties
<1> HIDE DEF st
<1>2. /\ k + m + n <= Len(text)
      /\ \A i \in 1..m : text[k + i] = s[i]
      /\ \A i \in 1..n : text[k + m + i] = t[i]
  BY DEF OccursAt
<1> HIDE DEF m, n
<1>3. ASSUME NEW i \in 1..(m + n) PROVE text[k + i] = st[i]
  <2>1. CASE i <= m
    BY <1>1, <1>2, <2>1
  <2>2. CASE i > m
    <3>1. i - m \in 1..n /\ m + (i - m) = i /\ k + m + (i - m) = k + i
      BY <1>1, <2>2
    <3>2. st[m + (i - m)] = t[i - m] /\ text[k + m + (i - m)] = t[i - m]
      BY <1>1, <1>2, <3>1
    <3> QED
      BY <3>1, <3>2
  <2> QED
    BY <1>1, <2>1, <2>2
<1>4. k + (m + n) <= Len(text)
  BY <1>1, <1>2
<1> QED
  BY <1>1, <1>3, <1>4 DEF OccursAt, st

\* What occurs in the beginning of a text occurs in the text.
LEMMA BeginningOccurs ==
    ASSUME NEW S, NEW text \in Seq(S), NEW n \in 0..Len(text), NEW pattern, Len(pattern) \in Nat
    PROVE  /\ SubSeq(text, 1, n) \in Seq(S) /\ Len(SubSeq(text, 1, n)) = n
           /\ \A k \in Nat : OccursAt(SubSeq(text, 1, n), pattern, k)
                => OccursAt(text, pattern, k) /\ k + Len(pattern) <= n
           /\ n = Len(text) => SubSeq(text, 1, n) = text
<1> DEFINE part == SubSeq(text, 1, n)
<1>1. /\ part \in Seq(S) /\ Len(part) = n /\ Len(text) \in Nat
      /\ \A i \in 1..n : part[i] = text[i]
  <2>1. Len(text) \in Nat /\ 1 \in Int /\ n \in Int /\ \A i \in 1..n : text[i] \in S
    BY LenProperties, ElementOfSeq
  <2>2. /\ part \in Seq(S) /\ Len(part) = IF 1 <= n THEN n - 1 + 1 ELSE 0
        /\ \A i \in 1..(n - 1 + 1) : part[i] = text[1 + i - 1]
    BY <2>1, SubSeqProperties
  <2>3. n - 1 + 1 = n /\ \A i \in 1..n : 1 + i - 1 = i
    OBVIOUS
  <2> HIDE DEF part
  <2> QED
    BY <2>1, <2>2, <2>3
<1> HIDE DEF part
<1>2. ASSUME NEW k \in Nat, OccursAt(part, pattern, k)
      PROVE  OccursAt(text, pattern, k) /\ k + Len(pattern) <= n
  <2>1. k + Len(pattern) <= n /\ \A i \in 1..Len(pattern) : part[k + i] = pattern[i]
    BY <1>1, <1>2 DEF OccursAt
  <2>2. \A i \in 1..Len(pattern) : k + i \in 1..n
    BY <2>1
  <2>3. \A i \in 1..Len(pattern) : text[k + i] = pattern[i]
    BY <1>1, <2>1, <2>2
  <2>4. k + Len(pattern) <= Len(text)
    BY <1>1, <2>1
  <2> QED
    BY <2>1, <2>3, <2>4 DEF OccursAt
<1>3. n = Len(text) => part = text
  BY <1>1, SeqEqual
<1> QED
  BY <1>1, <1>2, <1>3 DEF part

\* The texts that mark the end of a body.
LEMMA MarksAre ==
    /\ <<HexDigits[1]>> \in Seq(STRING) /\ Len(<<HexDigits[1]>>) = 1
    /\ <<HexDigits[1]>> \o CRLF \in Seq(STRING) /\ Len(<<HexDigits[1]>> \o CRLF) = 3
    /\ LastChunk \in Seq(STRING) /\ Len(LastChunk) = 5
    /\ BlankLine \in Seq(STRING) /\ Len(BlankLine) = 4
<1> DEFINE zero == HexDigits[1]
           S == STRING
<1>1. zero \in S
  <2>1. 1 \in 1..Base
    BY DigitIs
  <2> QED
    BY <2>1, DigitIs
<1>2. CRLF \in Seq(S) /\ Len(CRLF) = 2
  BY TextsAre
<1> HIDE DEF zero, S
<1>3. <<zero>> \in Seq(S) /\ Len(<<zero>>) = 1
  BY <1>1
<1>4. ASSUME NEW s \in Seq(S), NEW t \in Seq(S)
      PROVE  s \o t \in Seq(S) /\ Len(s \o t) = Len(s) + Len(t)
  BY <1>4, Joined
<1> DEFINE z == <<zero>>
<1> HIDE DEF z
<1>5. z \o CRLF \in Seq(S) /\ Len(z \o CRLF) = Len(z) + Len(CRLF)
  BY <1>2, <1>3, <1>4, Zenon DEF z
<1>6. (z \o CRLF) \o CRLF \in Seq(S) /\ Len((z \o CRLF) \o CRLF) = Len(z \o CRLF) + Len(CRLF)
  BY <1>2, <1>4, <1>5, Zenon
<1>7. CRLF \o CRLF \in Seq(S) /\ Len(CRLF \o CRLF) = Len(CRLF) + Len(CRLF)
  BY <1>2, <1>4, Zenon
<1>8. Len(z \o CRLF) = 3 /\ Len((z \o CRLF) \o CRLF) = 5 /\ Len(CRLF \o CRLF) = 4
  <2>1. Len(z) = 1
    BY <1>3 DEF z
  <2> QED
    BY <1>2, <1>5, <1>6, <1>7, <2>1
<1> QED
  BY <1>3, <1>5, <1>6, <1>7, <1>8 DEF LastChunk, BlankLine, zero, z, S

\* tryParseChunkedBody: the end that is found lies in what has arrived, and is the
\* end of the body if that cannot be mistaken.
LEMMA EndIs ==
    ASSUME NEW text \in Seq(STRING), NEW n \in 1..Len(text), NEW found,
           found = EndOfBody(SubSeq(text, 1, n)), found # npos
    PROVE  /\ found \in 0..n
           /\ Unmistakable(text) => found = Len(text)
<1> DEFINE part == SubSeq(text, 1, n)
           last == <<HexDigits[1]>> \o CRLF
           start == IF Len(part) > SEARCH_WINDOW THEN Len(part) - SEARCH_WINDOW ELSE 0
           lastChunkPos == find(part, last, start)
           finalCrlfPos == find(part, BlankLine, lastChunkPos)
<1>1. /\ last \in Seq(STRING) /\ Len(last) = 3 /\ BlankLine \in Seq(STRING) /\ Len(BlankLine) = 4
      /\ CRLF \in Seq(STRING) /\ Len(CRLF) = 2 /\ <<HexDigits[1]>> \in Seq(STRING)
      /\ Len(<<HexDigits[1]>>) = 1 /\ Len(LastChunk) = 5 /\ LastChunk \in Seq(STRING)
  BY MarksAre, TextsAre
<1>2. part \in Seq(STRING) /\ Len(part) = n /\ Len(text) \in Nat /\ n \in Nat
  <2>1. Len(text) \in Nat /\ n \in 0..Len(text)
    BY LenProperties
  <2> QED
    BY <1>1, <2>1, BeginningOccurs
<1>3. ASSUME NEW pattern \in {last, BlankLine}, NEW k \in Nat, OccursAt(part, pattern, k)
      PROVE  OccursAt(text, pattern, k) /\ k + Len(pattern) <= n
  <2>1. Len(text) \in Nat /\ n \in 0..Len(text)
    BY LenProperties
  <2>2. Len(pattern) \in Nat
    BY <1>1
  <2> QED
    BY <1>3, <2>1, <2>2, BeginningOccurs
<1>4. ASSUME NEW p \in Nat, NEW b \in Nat, p <= b, OccursAt(part, last, p), OccursAt(part, BlankLine, b)
      PROVE  b + 4 <= n /\ (Unmistakable(text) => b + 4 = Len(text))
  <2>1. OccursAt(text, last, p) /\ OccursAt(text, BlankLine, b) /\ b + 4 <= n
    BY <1>1, <1>3, <1>4
  <2>2. p \in Places(text, last, 0) /\ b \in Places(text, BlankLine, p)
    <3>1. p + 3 <= Len(text) /\ b + 4 <= Len(text)
      BY <1>1, <2>1 DEF OccursAt
    <3>2. p \in 0..(Len(text) - 3) /\ b \in p..(Len(text) - 4)
      BY <1>2, <1>4, <3>1
    <3> QED
      BY <1>1, <2>1, <3>2 DEF Places
  <2>3. Unmistakable(text) => b + Len(BlankLine) = Len(text)
    BY <2>2 DEF Unmistakable
  <2> QED
    BY <1>1, <2>1, <2>3
<1>5. CASE Len(part) = Len(LastChunk) /\ part = LastChunk
  <2>1. found = 5 /\ n = 5
    BY <1>1, <1>2, <1>5 DEF EndOfBody
  <2>2. OccursAt(part, LastChunk, 0)
    BY <1>1, <1>2, <1>5 DEF OccursAt
  <2>3. OccursAt(part, last \o CRLF, 0) /\ 0 \in Nat
    BY <2>2 DEF LastChunk
  <2> HIDE DEF part
  <2>4. OccursAt(part, last, 0) /\ OccursAt(part, CRLF, 0 + Len(last))
    <3> HIDE DEF last
    <3> QED
      BY <1>1, <1>2, <2>3, OccursJoined
  <2>5. OccursAt(part, CRLF, 0 + 1)
    BY <1>1, <1>2, <2>3, <2>4, OccursJoined
  <2>6. OccursAt(part, CRLF, 1) /\ OccursAt(part, CRLF, 1 + Len(CRLF)) /\ 1 \in Nat
    <3>1. 0 + Len(last) = 1 + Len(CRLF) /\ 0 + 1 = 1
      BY <1>1
    <3> QED
      BY <2>4, <2>5, <3>1
  <2>7. OccursAt(part, BlankLine, 1)
    BY <1>1, <1>2, <2>6, JoinedOccurs DEF BlankLine
  <2>8. 0 \in Nat /\ 1 \in Nat /\ 0 <= 1
    OBVIOUS
  <2> HIDE DEF last
  <2>9. Unmistakable(text) => 1 + 4 = Len(text)
    BY ONLY <1>4, <2>4, <2>7, <2>8
  <2>10. ASSUME Unmistakable(text) PROVE found = Len(text)
    <3>1. 1 + 4 = Len(text)
      BY <2>9, <2>10
    <3> QED
      BY <2>1, <3>1
  <2>11. found \in 0..n
    BY <2>1
  <2> QED
    BY <2>10, <2>11
<1>6. CASE ~(Len(part) = Len(LastChunk) /\ part = LastChunk)
  <2>1. lastChunkPos # npos /\ finalCrlfPos # npos /\ found = finalCrlfPos + Len(BlankLine)
    BY <1>6 DEF EndOfBody
  <2>2. start \in Nat
    BY <1>2, ChunkedAssumption
  <2> HIDE DEF start, part
  <2>3. lastChunkPos \in Nat /\ OccursAt(part, last, lastChunkPos)
    <3>1. lastChunkPos \in Places(part, last, start)
      <4> HIDE DEF last
      <4> QED
        BY <1>1, <1>2, <2>1, <2>2, FindLeast
    <3> QED
      BY <1>1, <1>2, <2>2, <3>1 DEF Places
  <2> HIDE DEF lastChunkPos
  <2>4. finalCrlfPos \in Nat /\ lastChunkPos <= finalCrlfPos /\ OccursAt(part, BlankLine, finalCrlfPos)
    <3>1. finalCrlfPos \in Places(part, BlankLine, lastChunkPos)
      <4>1. lastChunkPos \in Int /\ lastChunkPos >= -1 /\ Len(part) \in Nat /\ Len(BlankLine) \in Nat
        BY <1>1, <1>2, <2>3
      <4>2. finalCrlfPos # npos
        BY <2>1
      <4> QED
        BY <4>1, <4>2, FindLeast
    <3> QED
      BY <1>1, <1>2, <2>3, <3>1 DEF Places
  <2> HIDE DEF finalCrlfPos
  <2>5. finalCrlfPos + 4 <= n /\ (Unmistakable(text) => finalCrlfPos + 4 = Len(text))
    BY <1>4, <2>3, <2>4
  <2> QED
    BY <1>1, <2>1, <2>4, <2>5
<1> QED
  BY <1>5, <1>6

-----------------------------------------------------------------------------
(***************************************************************************)
(* A transfer on the wire                                                  *)
(***************************************************************************)
\* A remainder of something smaller is the thing itself.
LEMMA RemainderIs ==
    ASSUME NEW x \in Nat, NEW m \in Nat, m > 0
    PROVE  x % m \in Nat /\ (x < m => x % m = x)
<1>1. x \div m \in Int /\ x % m \in 0..(m - 1) /\ (x \div m) * m + (x % m) = x
  OBVIOUS
<1>2. ASSUME NEW q \in Int, NEW r \in 0..(m - 1), q * m + r = x, x < m PROVE r = x
  <2>1. CASE q >= 1
    <3>1. q * m >= m
      BY <2>1
    <3> QED
      BY <1>2, <3>1
  <2>2. CASE q <= -1
    <3>1. q * m <= -1 * m
      BY <2>2
    <3> QED
      BY <1>2, <3>1
  <2>3. CASE q = 0
    BY <1>2, <2>3
  <2> QED
    BY <2>1, <2>2, <2>3
<1> QED
  BY <1>1, <1>2

\* What a peer may send.
LEMMA TransferIs ==
    ASSUME NEW t \in Transfers
    PROVE  /\ t.chunks \in Seq(Data) /\ t.extension \in Seq(STRING \ {"r"}) /\ t.extension \in Seq(STRING)
           /\ t.extension # <<>> => \A d \in DOMAIN HexDigits : t.extension[1] # HexDigits[d]
           /\ OnTheWire(t) \in Seq(STRING) /\ Len(OnTheWire(t)) <= SIZE_MAX
           /\ t.lost = 0 => OnTheWire(t) = EncodedFrom(t.chunks, t.extension)[1]
<1> DEFINE text == Encoded(t.chunks, t.extension)
<1>1. /\ t.chunks \in Seq(Data) /\ t.extension \in Seq(STRING \ {"r"})
      /\ t.extension # <<>> => \A d \in DOMAIN HexDigits : t.extension[1] # HexDigits[d]
      /\ t.lost \in 0..Len(text) /\ Len(OnTheWire(t)) <= SIZE_MAX
  BY ChunkedAssumption DEF Data
<1>2. t.extension \in Seq(STRING)
  <2>1. STRING \ {"r"} \subseteq STRING
    OBVIOUS
  <2> QED
    BY <1>1, <2>1, SeqMonotonic
<1>3. text \in Seq(STRING) /\ text = EncodedFrom(t.chunks, t.extension)[1]
  <2>1. EncodedFrom(t.chunks, t.extension) \in [1..(Len(t.chunks) + 1) -> Seq(STRING)]
    BY <1>1, <1>2, EncodedIs DEF JoinedFrom
  <2>2. 1 \in 1..(Len(t.chunks) + 1)
    BY <1>1, LenProperties
  <2> QED
    BY <2>1, <2>2 DEF Encoded
<1> HIDE DEF text
<1>4. t.lost = 0 => OnTheWire(t) = text
  BY DEF OnTheWire, Without, text
<1>5. CASE t.lost # 0
  <2> DEFINE k == t.lost
             n == Len(text)
             before == SubSeq(text, 1, k - 1)
             after == SubSeq(text, k + 1, n)
  <2>1. n \in Nat /\ k \in 1..n /\ \A i \in 1..n : text[i] \in STRING
    BY <1>1, <1>3, <1>5, LenProperties, ElementOfSeq
  <2> HIDE DEF k, n
  <2>2. before \in Seq(STRING)
    <3>1. 1 \in Int /\ k - 1 \in Int /\ \A i \in 1..(k - 1) : text[i] \in STRING
      BY <2>1
    <3> QED
      BY <3>1, SubSeqProperties
  <2>3. after \in Seq(STRING)
    <3>1. k + 1 \in Int /\ n \in Int /\ \A i \in (k + 1)..n : text[i] \in STRING
      BY <2>1
    <3> QED
      BY <3>1, SubSeqProperties
  <2>4. OnTheWire(t) = before \o after
    BY <1>5 DEF OnTheWire, Without, text, k, n
  <2> QED
    BY <1>1, <1>2, <1>5, <2>2, <2>3, <2>4, ConcatProperties
<1> QED
  BY <1>1, <1>2, <1>3, <1>4, <1>5

\* The digits a line starts with are digits.
LEMMA DigitsAre ==
    ASSUME NEW line \in Seq(STRING)
    PROVE  SizeDigits(line) \in Seq(Symbols)
<1> DEFINE stops == {k \in DOMAIN line : \A d \in DOMAIN HexDigits : line[k] # HexDigits[d]}
           stop == CHOOSE k \in stops : \A m \in stops : k <= m
<1>1. Len(line) \in Nat /\ DOMAIN line = 1..Len(line)
  BY LenProperties
<1>2. \A k \in 1..Len(line) : k \notin stops => line[k] \in Symbols
  BY <1>1 DEF Symbols
<1>3. CASE stops = {}
  <2>1. SizeDigits(line) = line
    BY <1>3 DEF SizeDigits
  <2>2. \A k \in 1..Len(line) : line[k] \in Symbols
    BY <1>2, <1>3
  <2>3. line \in [1..Len(line) -> Symbols]
    BY <2>2
  <2> QED
    BY <1>1, <2>1, <2>3, SeqDef
<1>4. CASE stops # {}
  <2>1. stops \subseteq Nat
    BY <1>1
  <2>2. \E k \in stops : \A m \in stops : k <= m
    <3> HIDE DEF stops
    <3> QED
      BY <1>4, <2>1, LeastNatural
  <2>3. stop \in stops /\ \A m \in stops : stop <= m
    <3> HIDE DEF stops
    <3> QED
      BY <2>2
  <2>4. SizeDigits(line) = SubSeq(line, 1, stop - 1)
    BY <1>4 DEF SizeDigits
  <2>5. stop \in 1..Len(line)
    BY <1>1, <2>3
  <2> HIDE DEF stop, stops
  <2>6. ASSUME NEW i \in 1..(stop - 1) PROVE line[i] \in Symbols
    <3>1. i \in 1..Len(line) /\ i < stop /\ i \in Nat /\ stop \in Nat
      BY <1>1, <2>5
    <3>2. i \notin stops
      BY <2>3, <3>1
    <3> QED
      BY <1>2, <3>1, <3>2
  <2>7. 1 \in Int /\ stop - 1 \in Int
    BY <2>5
  <2>8. SubSeq(line, 1, stop - 1) \in Seq(Symbols)
    BY <2>6, <2>7, SubSeqProperties
  <2> QED
    BY <2>4, <2>8
<1> QED
  BY <1>3, <1>4

\* A text of digits has a value.
LEMMA ValueType ==
    ASSUME NEW digits \in Seq(Symbols)
    PROVE  HexValue(digits) \in Nat
<1>1. PICK value : IsValues(value, digits) /\ HexValue(digits) = value[Len(digits)]
  BY ValueIs
<1>2. Len(digits) \in 0..Len(digits)
  BY LenProperties
<1> QED
  BY <1>1, <1>2 DEF IsValues

-----------------------------------------------------------------------------
(***************************************************************************)
(* The types of what is received                                           *)
(***************************************************************************)
ReceivedInv ==
    /\ phase \in {"receiving", "decoding", "accepted", "badRequest", "tooLarge", "handled"}
    /\ raw \in Seq(STRING) /\ end \in 0..Len(raw) /\ got \in 0..Len(raw)
    /\ pos \in Nat /\ decoded \in Seq(STRING)
    /\ phase # "handled" => transfer \in Transfers /\ raw = OnTheWire(transfer)
    /\ phase = "receiving" => pos = 0 /\ decoded = <<>>

\* What the loop of decodeChunkedBody looks at, at any position.
LEMMA LoopTypes ==
    ASSUME ReceivedInv
    PROVE  /\ bodyPart \in Seq(STRING) /\ Len(bodyPart) = end
           /\ crlfPos # npos => crlfPos \in Nat
           /\ crlfPos # npos => Digits \in Seq(Symbols) /\ chunkSize \in Nat /\ AfterData \in Nat
<1>1. bodyPart \in Seq(STRING) /\ Len(bodyPart) = end
  <2>1. raw \in Seq(STRING) /\ end \in 0..Len(raw) /\ Len(CRLF) \in Nat
    BY TextsAre DEF ReceivedInv
  <2> QED
    BY <2>1, BeginningOccurs DEF bodyPart
<1>2. pos \in Nat /\ end \in Nat
  BY LenProperties DEF ReceivedInv
<1>3. crlfPos # npos => crlfPos \in Nat
  <2>1. Len(CRLF) \in Nat /\ pos \in Int /\ pos >= -1 /\ Len(bodyPart) \in Nat
    BY <1>1, <1>2, TextsAre
  <2>2. crlfPos # npos => crlfPos \in Places(bodyPart, CRLF, pos)
    BY <2>1, FindLeast DEF crlfPos
  <2>3. Places(bodyPart, CRLF, pos) \subseteq Nat
    BY <1>2, <2>1 DEF Places
  <2> QED
    BY <2>2, <2>3
<1>4. ASSUME crlfPos # npos
      PROVE  Digits \in Seq(Symbols) /\ chunkSize \in Nat /\ AfterData \in Nat
  <2>1. crlfPos - pos \in Int
    BY <1>2, <1>3, <1>4
  <2>2. Digits \in Seq(Symbols)
    BY <1>1, <1>2, <2>1, SubstrIs, DigitsAre DEF Digits
  <2>3. chunkSize \in Nat
    BY <2>2, ValueType DEF chunkSize
  <2>4. AfterData \in Nat
    <3>1. DataStart + chunkSize \in Nat
      BY <1>3, <1>4, <2>3 DEF DataStart
    <3>2. SIZE_MAX + 1 \in Nat /\ SIZE_MAX + 1 > 0
      BY ChunkedAssumption
    <3> QED
      BY <3>1, <3>2, RemainderIs DEF AfterData, Wrapped
  <2> QED
    BY <2>2, <2>3, <2>4
<1> QED
  BY <1>1, <1>3, <1>4

\* The types are kept.
LEMMA ReceivedStep == ASSUME ReceivedInv, ChunkedNext PROVE ReceivedInv'
<1>1. ASSUME NEW n \in 1..Len(raw), Receive(n) PROVE ReceivedInv'
  <2>1. /\ UNCHANGED <<transfer, raw, pos, decoded>> /\ got' = n /\ phase = "receiving"
        /\ n \in (got + 1)..Len(raw)
    BY <1>1 DEF Receive
  <2> DEFINE found == EndOfBody(SubSeq(raw, 1, n))
  <2>2. CASE found = npos
    <3>1. UNCHANGED <<phase, end>>
      BY <1>1, <2>2 DEF Receive
    <3> QED
      BY <2>1, <3>1 DEF ReceivedInv
  <2>3. CASE found # npos
    <3>1. phase' = "decoding" /\ end' = found
      BY <1>1, <2>3 DEF Receive
    <3>2. found \in 0..n /\ Len(raw) \in Nat
      BY <2>3, EndIs, LenProperties DEF ReceivedInv
    <3> HIDE DEF found
    <3>3. end' \in 0..Len(raw) /\ got' \in 0..Len(raw)
      BY <2>1, <3>1, <3>2
    <3> QED
      BY <2>1, <3>1, <3>3 DEF ReceivedInv
  <2> QED
    BY <2>2, <2>3
<1>2. CASE DecodeChunk
  <2>1. /\ UNCHANGED <<transfer, raw, got, phase, end>> /\ phase = "decoding"
        /\ decoded' = decoded \o substr(bodyPart, DataStart, chunkSize) /\ pos' = AfterData + 2
        /\ crlfPos # npos
    BY <1>2 DEF DecodeChunk, HasSize
  <2>2. /\ bodyPart \in Seq(STRING) /\ crlfPos \in Nat /\ chunkSize \in Nat /\ AfterData \in Nat
    BY <2>1, LoopTypes
  <2>3. DataStart \in Nat /\ chunkSize \in Int /\ pos' \in Nat
    BY <2>1, <2>2 DEF DataStart
  <2>4. substr(bodyPart, DataStart, chunkSize) \in Seq(STRING)
    BY <2>2, <2>3, SubstrIs
  <2>5. decoded' \in Seq(STRING)
    BY <2>1, <2>4, ConcatProperties DEF ReceivedInv
  <2> QED
    BY <2>1, <2>3, <2>5 DEF ReceivedInv
<1>3. ASSUME NEW text \in Seq(STRING), phase = "decoding", Return(text) PROVE ReceivedInv'
  <2>1. /\ UNCHANGED <<transfer, raw, got, end, pos>> /\ decoded' = text
        /\ phase' \in {"badRequest", "tooLarge", "accepted"}
    BY <1>3 DEF Return, Verdict
  <2> QED
    BY <1>3, <2>1 DEF ReceivedInv
<1>4. CASE DecodeLastChunk \/ DecodeRunsOut
  BY <1>3, <1>4 DEF DecodeLastChunk, DecodeRunsOut, ReceivedInv
<1>5. CASE DecodeFails
  BY <1>3, <1>5, EmptySeq DEF DecodeFails
<1> QED
  BY <1>1, <1>2, <1>4, <1>5 DEF ChunkedNext

-----------------------------------------------------------------------------
(***************************************************************************)
(* The loop of decodeChunkedBody. When it comes to the j-th chunk, all     *)
(* before it has been decoded, and the text from there on is next.         *)
(***************************************************************************)
TextFrom(j) == EncodedFrom(transfer.chunks, transfer.extension)[j]
DataFrom(j) == ConcatenatedFrom(transfer.chunks)[j]

IsAt(j) ==
    /\ j \in 1..(Len(transfer.chunks) + 1)
    /\ OccursAt(raw, TextFrom(j), pos) /\ pos + Len(TextFrom(j)) = Len(raw)
    /\ decoded \o DataFrom(j) = DataFrom(1)

\* The text and the data from one chunk on, made of the chunk and the rest.
LEMMA RestIs ==
    ASSUME transfer \in Transfers
    PROVE  /\ Len(transfer.chunks) \in Nat
           /\ \A j \in 1..(Len(transfer.chunks) + 1) :
                TextFrom(j) \in Seq(STRING) /\ DataFrom(j) \in Seq(STRING)
           /\ TextFrom(Len(transfer.chunks) + 1) = Ending(transfer.extension)
           /\ DataFrom(Len(transfer.chunks) + 1) = <<>>
           /\ \A j \in 1..Len(transfer.chunks) :
                /\ j + 1 \in 1..(Len(transfer.chunks) + 1) /\ j \in 1..(Len(transfer.chunks) + 1)
                /\ transfer.chunks[j] \in Seq(STRING) /\ transfer.chunks[j] # <<>>
                /\ TextFrom(j) = EncodedChunk(transfer.chunks[j], transfer.extension) \o TextFrom(j + 1)
                /\ DataFrom(j) = transfer.chunks[j] \o DataFrom(j + 1)
<1> DEFINE chunks == transfer.chunks
           n == Len(chunks)
           heads == [k \in 1..n |-> EncodedChunk(chunks[k], transfer.extension)]
           data == [k \in 1..n |-> chunks[k]]
<1>1. /\ chunks \in Seq(Data) /\ transfer.extension \in Seq(STRING) /\ n \in Nat
      /\ \A j \in 1..n : chunks[j] \in Seq(STRING) /\ chunks[j] # <<>>
  <2>1. chunks \in Seq(Data) /\ transfer.extension \in Seq(STRING)
    BY TransferIs
  <2> QED
    BY <2>1, LenProperties, ElementOfSeq DEF Data
<1>2. /\ JoinedFrom(EncodedFrom(chunks, transfer.extension), heads, n, Ending(transfer.extension))
      /\ JoinedFrom(ConcatenatedFrom(chunks), data, n, <<>>)
  BY <1>1, EncodedIs, ConcatenatedIs
<1>3. \A j \in 1..n : heads[j] = EncodedChunk(chunks[j], transfer.extension) /\ data[j] = chunks[j]
  OBVIOUS
<1>4. \A j \in 1..n : j + 1 \in 1..(n + 1) /\ j \in 1..(n + 1)
  BY <1>1
<1> HIDE DEF heads, data
<1> QED
  BY <1>1, <1>2, <1>3, <1>4 DEF JoinedFrom, TextFrom, DataFrom

\* With the body whole and not mistakable, bodyPart is the body.
LEMMA WholeBody ==
    ASSUME ReceivedInv, end = Len(raw)
    PROVE  bodyPart = raw /\ Len(raw) \in Nat
<1>1. raw \in Seq(STRING) /\ Len(raw) \in Nat /\ Len(raw) \in 0..Len(raw) /\ Len(CRLF) \in Nat
  BY LenProperties, TextsAre DEF ReceivedInv
<1> QED
  BY <1>1, BeginningOccurs DEF bodyPart

\* A text that occurs is what is read there.
LEMMA ReadWhereItOccurs ==
    ASSUME NEW S, NEW text \in Seq(S), NEW pattern \in Seq(S), NEW at \in Nat, NEW n, n = Len(pattern),
           OccursAt(text, pattern, at)
    PROVE  substr(text, at, n) = pattern
<1> DEFINE part == substr(text, at, n)
<1>1. n \in Nat /\ at + n <= Len(text) /\ \A i \in 1..n : text[at + i] = pattern[i]
  BY LenProperties DEF OccursAt
<1>2. part \in Seq(S) /\ Len(part) = n /\ \A i \in 1..n : part[i] = text[at + i]
  <2>1. text \in Seq(S)
    OBVIOUS
  <2> QED
    BY ONLY <1>1, <2>1, PartIs
<1> HIDE DEF part
<1>3. Len(part) = Len(pattern) /\ \A i \in 1..Len(part) : part[i] = pattern[i]
  BY <1>1, <1>2
<1>4. part = pattern
  BY <1>2, <1>3, SeqEqual
<1> QED
  BY <1>4 DEF part

\* Where the pieces of a chunk are, and what follows it.
LEMMA ChunkLayout ==
    ASSUME NEW data \in Seq(STRING), NEW extension \in Seq(STRING), NEW next \in Seq(STRING),
           NEW text, Len(text) \in Nat, NEW at \in Nat,
           OccursAt(text, EncodedChunk(data, extension) \o next, at)
    PROVE  /\ Len(next) \in Nat
           /\ Len(EncodedChunk(data, extension) \o next)
              = Len(HexText(Len(data))) + Len(extension) + 2 + Len(data) + 2 + Len(next)
           /\ OccursAt(text, HexText(Len(data)), at)
           /\ OccursAt(text, extension, at + Len(HexText(Len(data))))
           /\ OccursAt(text, CRLF, at + Len(HexText(Len(data))) + Len(extension))
           /\ OccursAt(text, data, at + Len(HexText(Len(data))) + Len(extension) + 2)
           /\ OccursAt(text, CRLF, at + Len(HexText(Len(data))) + Len(extension) + 2 + Len(data))
           /\ OccursAt(text, next, at + Len(HexText(Len(data))) + Len(extension) + 2 + Len(data) + 2)
<1> DEFINE size == Len(data)
           w == Len(HexText(size))
           e == Len(extension)
<1>0. SUFFICES
      /\ Len(next) \in Nat
      /\ Len(EncodedChunk(data, extension) \o next) = w + e + 2 + size + 2 + Len(next)
      /\ OccursAt(text, HexText(size), at) /\ OccursAt(text, extension, at + w)
      /\ OccursAt(text, CRLF, at + w + e)
      /\ OccursAt(text, data, at + w + e + 2) /\ OccursAt(text, CRLF, at + w + e + 2 + size)
      /\ OccursAt(text, next, at + w + e + 2 + size + 2)
  OBVIOUS
<1> DEFINE number == HexText(size)
           line == number \o extension
           l1 == line \o CRLF
           l2 == l1 \o data
           chunk == l2 \o CRLF
           all == chunk \o next
<1>1. size \in Nat /\ size = Len(data) /\ e \in Nat /\ e = Len(extension) /\ Len(next) \in Nat
  BY LenProperties
<1> HIDE DEF e, size
<1>2. number \in Seq(STRING) /\ CRLF \in Seq(STRING) /\ Len(CRLF) = 2
  BY <1>1, TextsAre
<1>3. w \in Nat /\ w = Len(number)
  BY <1>2, LenProperties
<1> HIDE DEF w
<1>4. EncodedChunk(data, extension) \o next = all
  BY DEF EncodedChunk, size
<1> HIDE DEF number
<1>5. line \in Seq(STRING) /\ Len(line) = w + e
  BY <1>1, <1>2, <1>3, Joined
<1> HIDE DEF line
<1>6. l1 \in Seq(STRING) /\ Len(l1) = w + e + 2
  <2>1. l1 \in Seq(STRING) /\ Len(l1) = Len(line) + Len(CRLF)
    BY <1>2, <1>5, Joined
  <2> QED
    BY <1>2, <1>5, <2>1
<1> HIDE DEF l1
<1>7. l2 \in Seq(STRING) /\ Len(l2) = w + e + 2 + size
  <2>1. l2 \in Seq(STRING) /\ Len(l2) = Len(l1) + Len(data)
    BY <1>6, Joined
  <2> QED
    BY <1>1, <1>6, <2>1
<1> HIDE DEF l2
<1>8. chunk \in Seq(STRING) /\ Len(chunk) = w + e + 2 + size + 2
  <2>1. chunk \in Seq(STRING) /\ Len(chunk) = Len(l2) + Len(CRLF)
    BY <1>2, <1>7, Joined
  <2> QED
    BY <1>2, <1>7, <2>1
<1> HIDE DEF chunk
<1>9. Len(all) = w + e + 2 + size + 2 + Len(next)
  <2>1. Len(all) = Len(chunk) + Len(next)
    BY <1>8, Joined
  <2> QED
    BY <1>8, <2>1
<1>10. OccursAt(text, chunk, at) /\ OccursAt(text, next, at + Len(chunk))
  BY <1>4, <1>8, OccursJoined
<1>11. OccursAt(text, l2, at) /\ OccursAt(text, CRLF, at + Len(l2))
  BY <1>2, <1>7, <1>10, OccursJoined DEF chunk
<1>12. OccursAt(text, l1, at) /\ OccursAt(text, data, at + Len(l1))
  BY <1>6, <1>11, OccursJoined DEF l2
<1>13. OccursAt(text, line, at) /\ OccursAt(text, CRLF, at + Len(line))
  BY <1>2, <1>5, <1>12, OccursJoined DEF l1
<1>14. OccursAt(text, number, at) /\ OccursAt(text, extension, at + w)
  BY <1>2, <1>3, <1>13, OccursJoined DEF line
<1>15. /\ at + Len(line) = at + w + e /\ at + Len(l1) = at + w + e + 2
       /\ at + Len(l2) = at + w + e + 2 + size /\ at + Len(chunk) = at + w + e + 2 + size + 2
  BY <1>1, <1>3, <1>5, <1>6, <1>7, <1>8
<1> HIDE DEF all
<1>16. /\ OccursAt(text, CRLF, at + w + e) /\ OccursAt(text, data, at + w + e + 2)
       /\ OccursAt(text, CRLF, at + w + e + 2 + size) /\ OccursAt(text, next, at + w + e + 2 + size + 2)
  BY <1>10, <1>11, <1>12, <1>13, <1>15
<1>17. OccursAt(text, HexText(size), at)
  BY <1>14 DEF number
<1> QED
  BY <1>1, <1>3, <1>4, <1>9, <1>14, <1>16, <1>17

\* The loop finds the line of a chunk, and the size in it.
LEMMA SizeIsRead ==
    ASSUME ReceivedInv, end = Len(raw), NEW size \in Nat,
           NEW extension \in Seq(STRING \ {"r"}),
           extension # <<>> => \A d \in DOMAIN HexDigits : extension[1] # HexDigits[d],
           NEW w, w = Len(HexText(size)), NEW e, e = Len(extension),
           OccursAt(raw, HexText(size), pos), OccursAt(raw, extension, pos + w),
           OccursAt(raw, CRLF, pos + w + e)
    PROVE  /\ pos \in Nat /\ crlfPos = pos + w + e
           /\ crlfPos # npos /\ Digits # <<>> /\ chunkSize = size
<1>1. raw \in Seq(STRING) /\ bodyPart = raw /\ pos \in Nat
  BY WholeBody DEF ReceivedInv
<1>2. w \in Nat /\ e \in Nat
  BY <1>1, TextsAre, LenProperties
<1>3. /\ find(raw, CRLF, pos) = pos + w + e
      /\ SizeDigits(substr(raw, pos, w + e)) = HexText(size)
  <2> DEFINE text == raw
             at == pos
  <2>1. /\ text \in Seq(STRING) /\ at \in Nat
        /\ OccursAt(text, HexText(size), at) /\ OccursAt(text, extension, at + w)
        /\ OccursAt(text, CRLF, at + w + e)
        /\ extension \in Seq(STRING \ {"r"})
        /\ extension # <<>> => \A d \in DOMAIN HexDigits : extension[1] # HexDigits[d]
        /\ w = Len(HexText(size)) /\ e = Len(extension) /\ size \in Nat /\ w \in Nat /\ e \in Nat
    BY <1>1
  <2> HIDE DEF text, at
  <2>2. find(text, CRLF, at) = at + w + e /\ SizeDigits(substr(text, at, w + e)) = HexText(size)
    BY ONLY <2>1, LineIsRead
  <2> QED
    BY <2>2 DEF text, at
<1>4. crlfPos = pos + w + e
  BY <1>1, <1>3 DEF crlfPos
<1>5. pos \in Nat
  BY <1>1
<1>6. Digits = HexText(size)
  <2>1. pos + w + e - pos = w + e
    BY <1>2, <1>5
  <2>2. substr(bodyPart, pos, crlfPos - pos) = substr(raw, pos, w + e)
    BY <1>1, <1>4, <2>1
  <2> QED
    BY <1>3, <2>2 DEF Digits
<1>7. chunkSize = size /\ Digits # <<>>
  BY <1>6, NumberIsText DEF chunkSize
<1>8. crlfPos # npos
  BY <1>2, <1>4, <1>5 DEF npos
<1> QED
  BY <1>2, <1>4, <1>5, <1>7, <1>8

\* A chunk is decoded to its data, and the loop comes to the next.
LEMMA ChunkIsRead ==
    ASSUME ReceivedInv, end = Len(raw), transfer \in Transfers, transfer.lost = 0, raw = OnTheWire(transfer),
           NEW j, IsAt(j), j # Len(transfer.chunks) + 1
    PROVE  /\ HasSize /\ chunkSize > 0 /\ HasData /\ pos < end
           /\ DecodeChunk => IsAt(j + 1)'
<1> DEFINE data == transfer.chunks[j]
           size == Len(data)
           extension == transfer.extension
           w == Len(HexText(size))
           e == Len(extension)
           next == TextFrom(j + 1)
<1>1. /\ Len(transfer.chunks) \in Nat /\ j \in 1..Len(transfer.chunks)
      /\ j + 1 \in 1..(Len(transfer.chunks) + 1)
  <2> DEFINE n == Len(transfer.chunks)
  <2>1. n \in Nat
    BY RestIs
  <2>2. j \in 1..(n + 1) /\ j # n + 1
    BY DEF IsAt
  <2> HIDE DEF n
  <2>3. /\ n \in Nat /\ j \in 1..n
        /\ j + 1 \in 1..(n + 1)
    BY ONLY <2>1, <2>2
  <2> QED
    BY <2>3 DEF n
<1>2. /\ data \in Seq(STRING) /\ data # <<>> /\ next \in Seq(STRING)
      /\ TextFrom(j) = EncodedChunk(data, extension) \o next
      /\ DataFrom(j) = data \o DataFrom(j + 1) /\ DataFrom(j + 1) \in Seq(STRING)
  BY <1>1, RestIs
<1>3. size \in Nat /\ size > 0
  BY <1>2, LenProperties, EmptySeq
<1>0. /\ extension \in Seq(STRING \ {"r"})
      /\ extension # <<>> => \A d \in DOMAIN HexDigits : extension[1] # HexDigits[d]
  BY TransferIs
<1>4. /\ HexText(size) \in Seq(STRING) /\ extension \in Seq(STRING)
      /\ CRLF \in Seq(STRING) /\ Len(CRLF) = 2 /\ raw \in Seq(STRING) /\ decoded \in Seq(STRING)
      /\ pos \in Nat /\ Len(raw) \in Nat /\ Len(raw) <= SIZE_MAX /\ SIZE_MAX \in Nat
  BY <1>3, TextsAre, TransferIs, LenProperties, ChunkedAssumption DEF ReceivedInv
<1>5. w \in Nat /\ e \in Nat /\ Len(next) \in Nat
  BY <1>2, <1>4, LenProperties
<1> HIDE DEF size, data, extension, next
<1> HIDE DEF w, e
<1>7. /\ w \in Nat /\ e \in Nat /\ Len(next) \in Nat
      /\ Len(TextFrom(j)) = w + e + 2 + size + 2 + Len(next)
      /\ OccursAt(raw, HexText(size), pos) /\ OccursAt(raw, extension, pos + w)
      /\ OccursAt(raw, CRLF, pos + w + e)
      /\ OccursAt(raw, data, pos + w + e + 2) /\ OccursAt(raw, CRLF, pos + w + e + 2 + size)
      /\ OccursAt(raw, next, pos + w + e + 2 + size + 2)
  <2> DEFINE text == raw
             at == pos
  <2>1. Len(text) \in Nat /\ at \in Nat
    BY <1>4
  <2>2. OccursAt(text, EncodedChunk(data, extension) \o next, at)
    BY <1>2 DEF IsAt
  <2>3. /\ size \in Nat /\ size = Len(data) /\ w \in Nat /\ w = Len(HexText(size))
        /\ e \in Nat /\ e = Len(extension)
    BY <1>3, <1>5 DEF size, w, e
  <2>4. data \in Seq(STRING) /\ extension \in Seq(STRING) /\ next \in Seq(STRING)
    BY <1>2, <1>4
  <2> HIDE DEF text, at
  <2>5. /\ w \in Nat /\ e \in Nat /\ Len(next) \in Nat
        /\ Len(EncodedChunk(data, extension) \o next) = w + e + 2 + size + 2 + Len(next)
        /\ OccursAt(text, HexText(size), at) /\ OccursAt(text, extension, at + w)
        /\ OccursAt(text, CRLF, at + w + e)
        /\ OccursAt(text, data, at + w + e + 2) /\ OccursAt(text, CRLF, at + w + e + 2 + size)
        /\ OccursAt(text, next, at + w + e + 2 + size + 2)
    BY ONLY <2>1, <2>2, <2>3, <2>4, ChunkLayout
  <2> QED
    BY <1>2, <2>5 DEF text, at
<1>8. /\ crlfPos = pos + w + e /\ crlfPos # npos /\ Digits # <<>> /\ chunkSize = size
  BY <1>0, <1>3, <1>7, SizeIsRead DEF w, e
<1>9. bodyPart = raw
  BY WholeBody
<1>10. pos + (w + e + 2 + size + 2 + Len(next)) = Len(raw)
  BY <1>7 DEF IsAt
<1>11. HasSize /\ chunkSize > 0 /\ pos < end
  <2>1. pos < Len(raw)
    BY <1>3, <1>4, <1>5, <1>10
  <2>2. HexValue(Digits) = size
    BY <1>8 DEF chunkSize
  <2>3. size <= SIZE_MAX
    BY <1>3, <1>4, <1>5, <1>10
  <2> QED
    BY <1>3, <1>8, <2>1, <2>2, <2>3 DEF HasSize
<1>12. DataStart = pos + w + e + 2 /\ DataStart \in Nat
  BY <1>4, <1>5, <1>8 DEF DataStart
<1>13. AfterData = pos + w + e + 2 + size
  <2> DEFINE x == pos + w + e + 2 + size
             m == SIZE_MAX + 1
  <2>1. x \in Nat /\ m \in Nat /\ m > 0 /\ x < m /\ DataStart + chunkSize = x
    BY <1>3, <1>4, <1>5, <1>8, <1>10, <1>12
  <2> HIDE DEF x, m
  <2>2. x % m = x
    BY <2>1, RemainderIs
  <2> QED
    BY <2>1, <2>2 DEF AfterData, Wrapped, x, m
<1>14. HasData
  <2> DEFINE text == raw
             after == pos + w + e + 2 + size
  <2>1. text \in Seq(STRING) /\ after \in Nat /\ OccursAt(text, CRLF, after) /\ CRLF \in Seq(STRING)
        /\ 2 = Len(CRLF)
    BY <1>3, <1>4, <1>5, <1>7
  <2>2. after <= Len(raw)
    BY <1>3, <1>4, <1>5, <1>10
  <2> HIDE DEF text, after
  <2>3. substr(text, after, 2) = CRLF
    BY ONLY <2>1, ReadWhereItOccurs
  <2>4. AfterData = after
    BY <1>13 DEF after
  <2> QED
    BY <1>9, <2>2, <2>3, <2>4 DEF HasData, text
<1>15. ASSUME DecodeChunk PROVE IsAt(j + 1)'
  <2> DEFINE text == raw
             start == pos + w + e + 2
             part == substr(text, start, size)
  <2>1. text \in Seq(STRING) /\ start \in Nat /\ OccursAt(text, data, start) /\ data \in Seq(STRING)
        /\ size = Len(data)
    BY <1>2, <1>4, <1>5, <1>7 DEF size
  <2> HIDE DEF text, start
  <2>4. part = data
    BY ONLY <2>1, ReadWhereItOccurs DEF part
  <2> HIDE DEF part
  <2>5. /\ decoded' = decoded \o data /\ pos' = pos + w + e + 2 + size + 2
        /\ UNCHANGED <<transfer, raw>>
    <3>1. decoded' = decoded \o substr(bodyPart, DataStart, chunkSize) /\ pos' = AfterData + 2
          /\ UNCHANGED <<transfer, raw>>
      BY <1>15 DEF DecodeChunk
    <3> QED
      BY <1>8, <1>9, <1>12, <1>13, <2>4, <3>1 DEF part, start, text
  <2>6. decoded' \o DataFrom(j + 1) = DataFrom(1)
    <3>1. decoded \o (data \o DataFrom(j + 1)) = DataFrom(1)
      BY <1>2 DEF IsAt
    <3>2. (decoded \o data) \o DataFrom(j + 1) = decoded \o (data \o DataFrom(j + 1))
      <4> DEFINE first == decoded
                 rest == DataFrom(j + 1)
      <4>1. first \in Seq(STRING) /\ data \in Seq(STRING) /\ rest \in Seq(STRING)
        BY <1>2, <1>4
      <4> HIDE DEF first, rest
      <4>2. (first \o data) \o rest = first \o (data \o rest)
        BY ONLY <4>1, ConcatAssociative
      <4> QED
        BY <4>2 DEF first, rest
    <3> QED
      BY <2>5, <3>1, <3>2
  <2>7. pos' + Len(next) = Len(raw)
    BY <1>3, <1>4, <1>5, <1>10, <2>5
  <2>8. TextFrom(j + 1)' = next /\ DataFrom(j + 1)' = DataFrom(j + 1) /\ DataFrom(1)' = DataFrom(1)
    BY <2>5 DEF TextFrom, DataFrom, next
  <2>9. OccursAt(raw, next, pos')
    BY <1>7, <2>5
  <2>10. OccursAt(raw', TextFrom(j + 1)', pos')
    BY <2>5, <2>8, <2>9
  <2> QED
    BY <1>1, <2>5, <2>6, <2>7, <2>8, <2>10 DEF IsAt
<1> QED
  BY <1>11, <1>14, <1>15

\* Where the pieces of the last chunk are.
LEMMA EndingLayout ==
    ASSUME NEW extension \in Seq(STRING), NEW text, Len(text) \in Nat, NEW at \in Nat,
           OccursAt(text, Ending(extension), at)
    PROVE  /\ OccursAt(text, HexText(0), at)
           /\ OccursAt(text, extension, at + Len(HexText(0)))
           /\ OccursAt(text, CRLF, at + Len(HexText(0)) + Len(extension))
<1> DEFINE number == HexText(0)
           w == Len(number)
           e == Len(extension)
           line == number \o extension
           l1 == line \o CRLF
<1>1. number \in Seq(STRING) /\ CRLF \in Seq(STRING) /\ Len(CRLF) = 2
  BY TextsAre
<1>2. w \in Nat /\ w = Len(number) /\ e \in Nat /\ e = Len(extension)
  BY <1>1, LenProperties
<1>3. OccursAt(text, l1 \o CRLF, at)
  BY DEF Ending
<1> HIDE DEF number, w, e
<1>4. line \in Seq(STRING) /\ Len(line) = w + e
  BY <1>1, <1>2, Joined
<1> HIDE DEF line
<1>5. l1 \in Seq(STRING)
  BY <1>1, <1>4, Joined
<1> HIDE DEF l1
<1>6. OccursAt(text, l1, at)
  BY <1>1, <1>3, <1>5, OccursJoined
<1>7. OccursAt(text, line, at) /\ OccursAt(text, CRLF, at + Len(line))
  BY <1>1, <1>4, <1>6, OccursJoined DEF l1
<1>8. OccursAt(text, number, at) /\ OccursAt(text, extension, at + w)
  BY <1>1, <1>2, <1>7, OccursJoined DEF line
<1>9. at + Len(line) = at + w + e
  BY <1>2, <1>4
<1>10. OccursAt(text, CRLF, at + w + e)
  BY <1>7, <1>9
<1> QED
  BY <1>8, <1>10 DEF number, w, e

\* The last chunk is seen to be the last.
LEMMA LastIsRead ==
    ASSUME ReceivedInv, end = Len(raw), transfer \in Transfers, IsAt(Len(transfer.chunks) + 1)
    PROVE  /\ HasSize /\ chunkSize = 0 /\ pos < end
           /\ decoded = DataFrom(1)
<1> DEFINE extension == transfer.extension
           n == Len(transfer.chunks)
           ending == Ending(extension)
           w == Len(HexText(0))
           e == Len(extension)
<1>1. /\ extension \in Seq(STRING \ {"r"}) /\ extension \in Seq(STRING)
      /\ extension # <<>> => \A d \in DOMAIN HexDigits : extension[1] # HexDigits[d]
  BY TransferIs
<1>2. /\ TextFrom(n + 1) = ending /\ DataFrom(n + 1) = <<>>
      /\ OccursAt(raw, ending, pos) /\ pos + Len(ending) = Len(raw)
      /\ decoded \o <<>> = DataFrom(1)
  BY RestIs DEF IsAt
<1>3. /\ raw \in Seq(STRING) /\ Len(raw) \in Nat /\ pos \in Nat /\ decoded \in Seq(STRING)
      /\ SIZE_MAX \in Nat
  BY LenProperties, ChunkedAssumption DEF ReceivedInv
<1> HIDE DEF extension, n
<1>4. /\ OccursAt(raw, HexText(0), pos) /\ OccursAt(raw, extension, pos + w)
      /\ OccursAt(raw, CRLF, pos + w + e)
  <2> DEFINE text == raw
             at == pos
  <2>1. /\ extension \in Seq(STRING) /\ Len(text) \in Nat /\ at \in Nat
        /\ OccursAt(text, Ending(extension), at)
    BY <1>1, <1>2, <1>3
  <2> HIDE DEF text, at
  <2>2. /\ OccursAt(text, HexText(0), at) /\ OccursAt(text, extension, at + w)
        /\ OccursAt(text, CRLF, at + w + e)
    BY ONLY <2>1, EndingLayout
  <2> QED
    BY <2>2 DEF text, at
<1>5. 0 \in Nat /\ w = Len(HexText(0)) /\ e = Len(extension)
  OBVIOUS
<1>6. w \in Nat /\ e \in Nat
  BY <1>1, TextsAre, LenProperties
<1> HIDE DEF w, e, ending
<1>7. crlfPos = pos + w + e /\ crlfPos # npos /\ Digits # <<>> /\ chunkSize = 0
  BY <1>1, <1>4, <1>5, SizeIsRead
<1>8. pos < end
  <2>1. pos + w + e + 2 <= Len(raw)
    <3>1. Len(CRLF) = 2
      BY TextsAre
    <3> QED
      BY <1>3, <1>4, <1>6, <3>1 DEF OccursAt
  <2> QED
    BY <1>3, <1>6, <2>1
<1>9. HasSize
  <2>1. HexValue(Digits) = 0
    BY <1>7 DEF chunkSize
  <2>2. HexValue(Digits) <= SIZE_MAX
    BY <1>3, <2>1
  <2> QED
    BY <1>7, <2>2 DEF HasSize
<1>10. decoded = DataFrom(1)
  <2> DEFINE text == decoded
  <2>1. text \in Seq(STRING) /\ text \o <<>> = DataFrom(1)
    BY <1>2, <1>3
  <2> HIDE DEF text
  <2>2. text \o <<>> = text
    BY <2>1, ConcatEmptySeq
  <2> QED
    BY <2>1, <2>2 DEF text
<1> QED
  BY <1>7, <1>8, <1>9, <1>10

-----------------------------------------------------------------------------
(***************************************************************************)
(* What is decoded of a body that is whole and not mistakable              *)
(***************************************************************************)
Clear == phase # "handled" /\ transfer.lost = 0 /\ Unmistakable(raw)

DecodedInv ==
    Clear =>
      /\ phase # "receiving" => end = Len(raw)
      /\ phase = "decoding" => \E j \in 1..(Len(transfer.chunks) + 1) : IsAt(j)
      /\ Decided => decoded = DataFrom(1) /\ phase = Verdict(DataFrom(1))

\* What was decoded is what was put into the chunks.
LEMMA UndoneIs == ASSUME ReceivedInv, DecodedInv PROVE ChunksAreUndone
<1> SUFFICES ASSUME Decided, transfer.lost = 0, Unmistakable(raw)
             PROVE  /\ end = Len(raw)
                    /\ LET data == Concatenated(transfer.chunks)
                       IN  CASE data = <<>> -> phase = (IF Len(raw) > Len(LastChunk) THEN "badRequest" ELSE "accepted")
                             [] Len(data) > MAX_BODY_SIZE -> phase = "tooLarge"
                             [] OTHER -> phase = "accepted" /\ decoded = data
  BY DEF ChunksAreUndone
<1>1. end = Len(raw) /\ decoded = DataFrom(1) /\ phase = Verdict(DataFrom(1))
  BY DEF DecodedInv, Clear, Decided
<1>2. DataFrom(1) = Concatenated(transfer.chunks)
  BY DEF DataFrom, Concatenated
<1> DEFINE data == Concatenated(transfer.chunks)
<1> HIDE DEF data
<1>3. phase = Verdict(data) /\ decoded = data
  BY <1>1, <1>2 DEF data
<1>4. MAX_BODY_SIZE \in Nat /\ Len(LastChunk) = 5
  BY ChunkedAssumption, MarksAre
<1>5. CASE data = <<>>
  <2>1. Len(data) = 0 /\ ~(Len(data) > MAX_BODY_SIZE)
    BY <1>4, <1>5
  <2>2. phase = (IF Len(raw) > Len(LastChunk) THEN "badRequest" ELSE "accepted")
    BY <1>1, <1>3, <1>5, <2>1 DEF Verdict
  <2> QED
    BY <1>1, <1>5, <2>1, <2>2 DEF data
<1>6. CASE data # <<>> /\ Len(data) > MAX_BODY_SIZE
  <2>1. phase = "tooLarge"
    BY <1>3, <1>6 DEF Verdict
  <2> QED
    BY <1>1, <1>6, <2>1 DEF data
<1>7. CASE data # <<>> /\ ~(Len(data) > MAX_BODY_SIZE)
  <2>1. phase = "accepted"
    BY <1>3, <1>7 DEF Verdict
  <2> QED
    BY <1>1, <1>3, <1>7, <2>1 DEF data
<1> QED
  BY <1>5, <1>6, <1>7

\* The body is not mistakable later, either.
LEMMA ClearStays ==
    ASSUME UNCHANGED <<transfer, raw>>, phase # "handled"
    PROVE  /\ Clear' => Clear
           /\ \A j : TextFrom(j)' = TextFrom(j) /\ DataFrom(j)' = DataFrom(j)
<1>1. Unmistakable(raw)' => Unmistakable(raw)
  BY DEF Unmistakable
<1>2. ASSUME NEW j PROVE TextFrom(j)' = TextFrom(j) /\ DataFrom(j)' = DataFrom(j)
  BY DEF TextFrom, DataFrom
<1> QED
  BY <1>1, <1>2 DEF Clear

\* The loop starts at the first chunk.
LEMMA LoopStarts ==
    ASSUME ReceivedInv, DecodedInv, NEW n \in 1..Len(raw), Receive(n)
    PROVE  DecodedInv'
<1>1. /\ UNCHANGED <<transfer, raw, pos, decoded>> /\ got' = n /\ phase = "receiving"
      /\ n \in (got + 1)..Len(raw)
  BY DEF Receive
<1>2. /\ raw \in Seq(STRING) /\ pos = 0 /\ decoded = <<>> /\ transfer \in Transfers /\ raw = OnTheWire(transfer)
  BY <1>1 DEF ReceivedInv
<1> DEFINE found == EndOfBody(SubSeq(raw, 1, n))
<1>3. CASE found = npos
  <2>1. phase' = "receiving"
    BY <1>1, <1>3 DEF Receive
  <2> QED
    BY <2>1 DEF DecodedInv, Decided
<1>4. CASE found # npos
  <2>1. phase' = "decoding" /\ end' = found
    BY <1>4 DEF Receive
  <2>2. Unmistakable(raw) => found = Len(raw)
    BY <1>2, <1>4, EndIs
  <2> HIDE DEF found
  <2> SUFFICES ASSUME Clear'
               PROVE  end' = Len(raw') /\ (\E j \in 1..(Len(transfer.chunks) + 1) : IsAt(j))'
    BY <2>1 DEF DecodedInv, Decided
  <2>3. transfer.lost = 0 /\ Unmistakable(raw)
    BY <1>1, ClearStays DEF Clear
  <2>4. end' = Len(raw')
    BY <1>1, <2>1, <2>2, <2>3
  <2>5. TextFrom(1) = raw
    BY <1>2, <2>3, TransferIs DEF TextFrom
  <2>6. 1 \in 1..(Len(transfer.chunks) + 1) /\ DataFrom(1) \in Seq(STRING)
    <3>1. Len(transfer.chunks) \in Nat
      BY <1>2, RestIs
    <3>2. 1 \in 1..(Len(transfer.chunks) + 1)
      BY <3>1
    <3> QED
      BY <1>2, <3>2, RestIs
  <2>7. OccursAt(raw, raw, pos) /\ pos + Len(raw) = Len(raw)
    <3> DEFINE text == raw
    <3>1. Len(text) \in Nat
      BY <1>2, LenProperties
    <3> HIDE DEF text
    <3>2. OccursAt(text, text, 0) /\ 0 + Len(text) = Len(text)
      BY ONLY <3>1 DEF OccursAt
    <3> QED
      BY <1>2, <3>2 DEF text
  <2>8. decoded \o DataFrom(1) = DataFrom(1)
    <3> DEFINE text == DataFrom(1)
    <3>1. text \in Seq(STRING)
      BY <2>6
    <3> HIDE DEF text
    <3>2. <<>> \o text = text
      BY ONLY <3>1, ConcatEmptySeq
    <3> QED
      BY <1>2, <3>2 DEF text
  <2>9. IsAt(1)
    BY <2>5, <2>6, <2>7, <2>8 DEF IsAt
  <2>10. IsAt(1)'
    <3>1. TextFrom(1)' = TextFrom(1) /\ DataFrom(1)' = DataFrom(1)
      BY <1>1, ClearStays
    <3> QED
      BY <1>1, <2>9, <3>1 DEF IsAt
  <2>11. 1 \in 1..(Len(transfer'.chunks) + 1)
    BY <1>1, <2>6
  <2> QED
    BY <2>4, <2>10, <2>11
<1> QED
  BY <1>3, <1>4

\* The loop goes from chunk to chunk, and ends at the last.
LEMMA DecodedStep == ASSUME ReceivedInv, DecodedInv, ChunkedNext PROVE DecodedInv'
<1>1. ASSUME NEW n \in 1..Len(raw), Receive(n) PROVE DecodedInv'
  BY <1>1, LoopStarts
<1>2. ASSUME phase = "decoding", UNCHANGED <<transfer, raw, end>>, Clear'
      PROVE  /\ Clear /\ end = Len(raw) /\ end' = Len(raw') /\ transfer \in Transfers
             /\ transfer.lost = 0 /\ raw = OnTheWire(transfer)
             /\ \E j : IsAt(j)
             /\ DataFrom(1)' = DataFrom(1)
  BY <1>2, ClearStays DEF DecodedInv, Clear, ReceivedInv
<1>3. CASE DecodeChunk
  <2>1. phase = "decoding" /\ phase' = "decoding" /\ UNCHANGED <<transfer, raw, end>> /\ chunkSize > 0
    BY <1>3 DEF DecodeChunk
  <2> SUFFICES ASSUME Clear'
               PROVE  end' = Len(raw') /\ (\E j \in 1..(Len(transfer.chunks) + 1) : IsAt(j))'
    BY <2>1 DEF DecodedInv, Decided
  <2>2. PICK j : IsAt(j)
    BY <1>2, <2>1
  <2>3. CASE j = Len(transfer.chunks) + 1
    <3>1. chunkSize = 0
      BY <1>2, <2>1, <2>2, <2>3, LastIsRead
    <3> QED
      BY <2>1, <3>1
  <2>4. CASE j # Len(transfer.chunks) + 1
    <3>1. IsAt(j + 1)'
      BY <1>2, <1>3, <2>1, <2>2, <2>4, ChunkIsRead
    <3>2. (\E i \in 1..(Len(transfer.chunks) + 1) : IsAt(i))'
      BY <3>1 DEF IsAt
    <3> QED
      BY <1>2, <2>1, <3>2
  <2> QED
    BY <2>3, <2>4
<1>4. CASE DecodeLastChunk
  <2>1. /\ phase = "decoding" /\ UNCHANGED <<transfer, raw, end>> /\ chunkSize = 0
        /\ decoded' = decoded /\ phase' = Verdict(decoded)
    BY <1>4 DEF DecodeLastChunk, Return
  <2>2. phase' \in {"badRequest", "tooLarge", "accepted"}
    BY <2>1 DEF Verdict
  <2> SUFFICES ASSUME Clear'
               PROVE  /\ end' = Len(raw')
                      /\ decoded' = DataFrom(1)' /\ phase' = Verdict(DataFrom(1))'
    BY <2>2 DEF DecodedInv
  <2>3. PICK j : IsAt(j)
    BY <1>2, <2>1
  <2>4. j = Len(transfer.chunks) + 1
    <3> SUFFICES ASSUME j # Len(transfer.chunks) + 1 PROVE FALSE
      OBVIOUS
    <3>1. chunkSize > 0
      BY <1>2, <2>1, <2>3, ChunkIsRead
    <3> QED
      BY <2>1, <3>1
  <2>5. decoded = DataFrom(1)
    BY <1>2, <2>1, <2>3, <2>4, LastIsRead
  <2>6. decoded' = DataFrom(1)' /\ end' = Len(raw')
    BY <1>2, <2>1, <2>5
  <2>7. phase' = Verdict(DataFrom(1))'
    <3>1. phase' = Verdict(DataFrom(1)) /\ DataFrom(1)' = DataFrom(1)
      BY <1>2, <2>1, <2>5
    <3> QED
      BY <2>1, <3>1 DEF Verdict
  <2> QED
    BY <2>6, <2>7
<1>5. CASE DecodeFails \/ DecodeRunsOut
  <2>1. /\ phase = "decoding" /\ UNCHANGED <<transfer, raw, end>>
        /\ (pos < end => ~HasSize \/ (chunkSize > 0 /\ ~HasData))
    BY <1>5, LenProperties DEF DecodeFails, DecodeRunsOut, Return, ReceivedInv
  <2> SUFFICES ASSUME Clear' PROVE FALSE
    BY DEF DecodedInv
  <2>2. PICK j : IsAt(j)
    BY <1>2, <2>1
  <2>3. CASE j = Len(transfer.chunks) + 1
    <3>1. HasSize /\ chunkSize = 0 /\ pos < end
      BY <1>2, <2>1, <2>2, <2>3, LastIsRead
    <3> QED
      BY <2>1, <3>1
  <2>4. CASE j # Len(transfer.chunks) + 1
    <3>1. HasSize /\ HasData /\ pos < end
      BY <1>2, <2>1, <2>2, <2>4, ChunkIsRead
    <3> QED
      BY <2>1, <3>1
  <2> QED
    BY <2>3, <2>4
<1> QED
  BY <1>1, <1>3, <1>4, <1>5 DEF ChunkedNext

-----------------------------------------------------------------------------
(***************************************************************************)
(* Multipart bodies                                                        *)
(***************************************************************************)
IsPart(part) ==
    part.header \in DOMAIN Disposition /\ part.data \in Seq(STRING \ {dashBoundary})

\* A blank line, and the data of a part.
LEMMA BlankLineIs ==
    /\ Len(BlankLine) = 4 /\ BlankLine[1] = "r" /\ BlankLine[2] = "n"
    /\ BlankLine[3] = "r" /\ BlankLine[4] = "n"
<1> DEFINE break == CRLF
<1>1. break \in Seq(STRING) /\ Len(break) = 2 /\ break[1] = "r" /\ break[2] = "n"
  BY TextsAre
<1> HIDE DEF break
<1> DEFINE blank == break \o break
<1>2. /\ Len(blank) = Len(break) + Len(break)
      /\ \A i \in 1..Len(break) : blank[i] = break[i]
      /\ \A i \in 1..Len(break) : blank[Len(break) + i] = break[i]
  <2>1. ASSUME NEW s \in Seq(STRING), NEW t \in Seq(STRING)
        PROVE  /\ Len(s \o t) = Len(s) + Len(t)
               /\ \A i \in 1..Len(s) : (s \o t)[i] = s[i]
               /\ \A i \in 1..Len(t) : (s \o t)[Len(s) + i] = t[i]
    BY Joined
  <2> QED
    BY <1>1, <2>1, Zenon
<1> HIDE DEF blank
<1>3. Len(blank) = 4 /\ blank[1] = "r" /\ blank[2] = "n" /\ blank[3] = "r" /\ blank[4] = "n"
  BY <1>1, <1>2
<1> QED
  BY <1>3 DEF blank, break, BlankLine

\* The data of a part is a text in which the boundary does not occur.
LEMMA PartData ==
    ASSUME NEW part, IsPart(part)
    PROVE  part.data \in Seq(STRING) /\ \A i \in 1..Len(part.data) : part.data[i] # dashBoundary
<1> DEFINE data == part.data
           b == dashBoundary
<1>1. data \in Seq(STRING \ {b})
  BY DEF IsPart
<1> HIDE DEF data, b
<1>2. \A i \in 1..Len(data) : data[i] \in STRING \ {b}
  BY <1>1, ElementOfSeq
<1>3. data \in Seq(STRING)
  BY <1>1, <1>2, SeqDef
<1> QED
  BY <1>2, <1>3 DEF data, b

\* A header line is no boundary and no line break, and only that of a file names one.
LEMMA LinesAre ==
    /\ DOMAIN Disposition = {"file", "field", "other"}
    /\ \A h \in DOMAIN Disposition :
         /\ Disposition[h] \notin {"r", "n", dashBoundary}
         /\ Disposition[h] = Disposition["file"] <=> h = "file"
<1>1. DOMAIN Disposition = {"file", "field", "other"}
  BY DEF Disposition
<1>2. /\ Disposition["file"] = "disposition file" /\ Disposition["field"] = "disposition"
      /\ Disposition["other"] = "header"
  BY DEF Disposition
<1> QED
  BY <1>1, <1>2 DEF dashBoundary

\* The symbols of a part.
LEMMA PartSymbols ==
    ASSUME NEW S, NEW b \in S, NEW r \in S, NEW n \in S, NEW line \in S, NEW data \in Seq(S)
    PROVE  LET text == <<b>> \o <<r, n>> \o <<line>> \o (<<r, n>> \o <<r, n>>) \o data \o <<r, n>>
           IN  /\ text \in Seq(S) /\ Len(text) = 8 + Len(data) + 2
               /\ text[1] = b /\ text[2] = r /\ text[3] = n /\ text[4] = line
               /\ text[5] = r /\ text[6] = n /\ text[7] = r /\ text[8] = n
               /\ \A i \in 1..Len(data) : text[8 + i] = data[i]
               /\ text[8 + Len(data) + 1] = r /\ text[8 + Len(data) + 2] = n
<1> DEFINE break == <<r, n>>
           one == <<b>>
           header == <<line>>
           blank == break \o break
           first == one \o break
           second == first \o header
           third == second \o blank
           fourth == third \o data
           text == fourth \o break
           d == Len(data)
<1>1. /\ break \in Seq(S) /\ Len(break) = 2 /\ break[1] = r /\ break[2] = n
      /\ one \in Seq(S) /\ Len(one) = 1 /\ one[1] = b
      /\ header \in Seq(S) /\ Len(header) = 1 /\ header[1] = line
      /\ d \in Nat
  BY LenProperties
<1> HIDE DEF break, one, header, d
<1>2. ASSUME NEW s \in Seq(S), NEW t \in Seq(S)
      PROVE  /\ s \o t \in Seq(S) /\ Len(s \o t) = Len(s) + Len(t)
             /\ \A i \in 1..Len(s) : (s \o t)[i] = s[i]
             /\ \A i \in 1..Len(t) : (s \o t)[Len(s) + i] = t[i]
  BY Joined
<1>3. /\ blank \in Seq(S) /\ Len(blank) = 4
      /\ blank[1] = r /\ blank[2] = n /\ blank[3] = r /\ blank[4] = n
  <2>0. /\ blank \in Seq(S) /\ Len(blank) = Len(break) + Len(break)
        /\ \A i \in 1..Len(break) : blank[i] = break[i]
        /\ \A i \in 1..Len(break) : blank[Len(break) + i] = break[i]
    BY <1>1, <1>2, Zenon
  <2> HIDE DEF blank
  <2>1. /\ Len(blank) = 2 + 2
        /\ \A i \in 1..2 : blank[i] = break[i]
        /\ \A i \in 1..2 : blank[2 + i] = break[i]
    BY <1>1, <2>0
  <2> QED
    BY <1>1, <2>0, <2>1
<1> HIDE DEF blank
<1>4. first \in Seq(S) /\ Len(first) = 3 /\ first[1] = b /\ first[2] = r /\ first[3] = n
  <2>0. /\ first \in Seq(S) /\ Len(first) = Len(one) + Len(break)
        /\ \A i \in 1..Len(one) : first[i] = one[i]
        /\ \A i \in 1..Len(break) : first[Len(one) + i] = break[i]
    BY <1>1, <1>2, Zenon
  <2> HIDE DEF first
  <2>1. /\ Len(first) = 1 + 2
        /\ \A i \in 1..1 : first[i] = one[i]
        /\ \A i \in 1..2 : first[1 + i] = break[i]
    BY <1>1, <2>0
  <2> QED
    BY <1>1, <2>0, <2>1
<1> HIDE DEF first
<1>5. /\ second \in Seq(S) /\ Len(second) = 4
      /\ second[1] = b /\ second[2] = r /\ second[3] = n /\ second[4] = line
  <2>0. /\ second \in Seq(S) /\ Len(second) = Len(first) + Len(header)
        /\ \A i \in 1..Len(first) : second[i] = first[i]
        /\ \A i \in 1..Len(header) : second[Len(first) + i] = header[i]
    BY <1>1, <1>2, <1>4, Zenon
  <2> HIDE DEF second
  <2>1. /\ Len(second) = 3 + 1
        /\ \A i \in 1..3 : second[i] = first[i]
        /\ \A i \in 1..1 : second[3 + i] = header[i]
    BY <1>1, <1>4, <2>0
  <2> QED
    BY <1>1, <1>4, <2>0, <2>1
<1> HIDE DEF second
<1>6. /\ third \in Seq(S) /\ Len(third) = 8
      /\ third[1] = b /\ third[2] = r /\ third[3] = n /\ third[4] = line
      /\ third[5] = r /\ third[6] = n /\ third[7] = r /\ third[8] = n
  <2>0. /\ third \in Seq(S) /\ Len(third) = Len(second) + Len(blank)
        /\ \A i \in 1..Len(second) : third[i] = second[i]
        /\ \A i \in 1..Len(blank) : third[Len(second) + i] = blank[i]
    BY <1>2, <1>3, <1>5, Zenon
  <2> HIDE DEF third
  <2>1. /\ Len(third) = 4 + 4
        /\ \A i \in 1..4 : third[i] = second[i]
        /\ \A i \in 1..4 : third[4 + i] = blank[i]
    BY <1>3, <1>5, <2>0
  <2> QED
    BY <1>3, <1>5, <2>0, <2>1
<1> HIDE DEF third
<1>7. /\ fourth \in Seq(S) /\ Len(fourth) = 8 + d
      /\ \A i \in 1..8 : fourth[i] = third[i]
      /\ \A i \in 1..d : fourth[8 + i] = data[i]
  <2>0. /\ fourth \in Seq(S) /\ Len(fourth) = Len(third) + Len(data)
        /\ \A i \in 1..Len(third) : fourth[i] = third[i]
        /\ \A i \in 1..Len(data) : fourth[Len(third) + i] = data[i]
    BY <1>2, <1>6, Zenon
  <2> HIDE DEF fourth
  <2> QED
    BY <1>6, <2>0 DEF d
<1> HIDE DEF fourth
<1>8. /\ text \in Seq(S) /\ Len(text) = 8 + d + 2
      /\ \A i \in 1..(8 + d) : text[i] = fourth[i]
      /\ \A i \in 1..2 : text[8 + d + i] = break[i]
  <2>0. /\ text \in Seq(S) /\ Len(text) = Len(fourth) + Len(break)
        /\ \A i \in 1..Len(fourth) : text[i] = fourth[i]
        /\ \A i \in 1..Len(break) : text[Len(fourth) + i] = break[i]
    BY <1>1, <1>2, <1>7, Zenon
  <2> HIDE DEF text
  <2> QED
    BY <1>1, <1>7, <2>0
<1> HIDE DEF text
<1>9. \A i \in 1..8 : i \in 1..(8 + d)
  BY <1>1
<1>10. \A i \in 1..8 : text[i] = third[i]
  BY <1>7, <1>8, <1>9
<1>11. \A i \in 1..d : text[8 + i] = data[i]
  <2>1. \A i \in 1..d : 8 + i \in 1..(8 + d)
    BY <1>1
  <2> QED
    BY <1>7, <1>8, <2>1
<1>12. text[8 + d + 1] = r /\ text[8 + d + 2] = n
  BY <1>1, <1>8
<1>13. /\ text[1] = b /\ text[2] = r /\ text[3] = n /\ text[4] = line
       /\ text[5] = r /\ text[6] = n /\ text[7] = r /\ text[8] = n
  BY <1>6, <1>10
<1> QED
  BY <1>8, <1>11, <1>12, <1>13 DEF text, fourth, third, second, first, blank, break, one, header, d

\* What they are in a part that a peer sends.
LEMMA EncodedPartIs ==
    ASSUME NEW part, IsPart(part)
    PROVE  /\ EncodedPart(part) \in Seq(STRING)
           /\ Len(part.data) \in Nat /\ Len(EncodedPart(part)) = 8 + Len(part.data) + 2
           /\ EncodedPart(part)[1] = dashBoundary
           /\ EncodedPart(part)[2] = "r" /\ EncodedPart(part)[3] = "n"
           /\ EncodedPart(part)[4] = Disposition[part.header]
           /\ EncodedPart(part)[5] = "r" /\ EncodedPart(part)[6] = "n"
           /\ EncodedPart(part)[7] = "r" /\ EncodedPart(part)[8] = "n"
           /\ \A i \in 1..Len(part.data) :
                EncodedPart(part)[8 + i] = part.data[i] /\ part.data[i] # dashBoundary
           /\ EncodedPart(part)[8 + Len(part.data) + 1] = "r"
           /\ EncodedPart(part)[8 + Len(part.data) + 2] = "n"
<1> DEFINE S == STRING
           b == dashBoundary
           r == "r"
           n == "n"
           line == Disposition[part.header]
           data == part.data
           text == <<b>> \o <<r, n>> \o <<line>> \o (<<r, n>> \o <<r, n>>) \o data \o <<r, n>>
<1>1. b \in S /\ r \in S /\ n \in S /\ line \in S
  BY ChunkedAssumption, UploadAssumption DEF IsPart
<1>2. data \in Seq(S) /\ \A i \in 1..Len(data) : data[i] # b
  BY PartData
<1>3. EncodedPart(part) = text
  BY DEF EncodedPart, BlankLine, CRLF
<1> HIDE DEF S, b, r, n, line, data
<1>4. /\ text \in Seq(S) /\ Len(text) = 8 + Len(data) + 2
      /\ text[1] = b /\ text[2] = r /\ text[3] = n /\ text[4] = line
      /\ text[5] = r /\ text[6] = n /\ text[7] = r /\ text[8] = n
      /\ \A i \in 1..Len(data) : text[8 + i] = data[i]
      /\ text[8 + Len(data) + 1] = r /\ text[8 + Len(data) + 2] = n
  BY ONLY <1>1, <1>2, PartSymbols, SMTT(30)
<1>5. Len(data) \in Nat
  BY <1>2, LenProperties
<1> HIDE DEF text
<1> QED
  BY <1>2, <1>3, <1>4, <1>5 DEF S, b, r, n, line, data

\* The header of a part is its first line, and says whether it is a file.
LEMMA HeaderIs ==
    ASSUME NEW part, IsPart(part)
    PROVE  /\ find(EncodedPart(part), BlankLine, 0) = 4
           /\ FilenameIn(substr(EncodedPart(part), 0, 4), "f") =
                IF part.header = "file" THEN "f" ELSE ""
           /\ PartContent(EncodedPart(part), 4) = part.data
<1> DEFINE text == EncodedPart(part)
           line == Disposition[part.header]
           data == part.data
           d == Len(data)
           header == substr(text, 0, 4)
           file == Disposition["file"]
<1>1. /\ text \in Seq(STRING) /\ d \in Nat /\ Len(text) = 8 + d + 2
      /\ text[1] = dashBoundary /\ text[2] = "r" /\ text[3] = "n" /\ text[4] = line
      /\ text[5] = "r" /\ text[6] = "n" /\ text[7] = "r" /\ text[8] = "n"
      /\ \A i \in 1..d : text[8 + i] = data[i]
  BY EncodedPartIs
<1>2. /\ line \notin {"r", "n", dashBoundary} /\ (line = file <=> part.header = "file")
      /\ file \notin {"r", "n", dashBoundary}
  BY LinesAre DEF IsPart
<1>3. /\ Len(BlankLine) = 4 /\ BlankLine[1] = "r" /\ BlankLine[2] = "n"
      /\ BlankLine[3] = "r" /\ BlankLine[4] = "n"
  BY BlankLineIs
<1>4. data \in Seq(STRING)
  BY PartData
<1> HIDE DEF text, line, data, d, file
<1>5. find(text, BlankLine, 0) = 4
  <2>1. OccursAt(text, BlankLine, 4)
    BY <1>1, <1>3 DEF OccursAt
  <2>2. ASSUME NEW k \in 0..3, OccursAt(text, BlankLine, k) PROVE FALSE
    <3>1. text[k + 1] = "r" /\ text[k + 2] = "n" /\ text[k + 3] = "r"
      BY <1>3, <2>2 DEF OccursAt
    <3>2. k = 0 \/ k = 1 \/ k = 2 \/ k = 3
      OBVIOUS
    <3> QED
      BY <1>1, <1>2, <3>1, <3>2 DEF dashBoundary
  <2>3. Len(text) \in Nat
    BY <1>1
  <2> QED
    BY <1>3, <2>1, <2>2, <2>3, FoundAt
<1>6. /\ header \in Seq(STRING) /\ Len(header) = 4
      /\ header[1] = dashBoundary /\ header[2] = "r" /\ header[3] = "n" /\ header[4] = line
  <2> DEFINE from == 0
             length == 4
  <2>1. from \in Nat /\ length \in Nat /\ from + length <= Len(text) /\ text \in Seq(STRING)
    BY <1>1
  <2> HIDE DEF from, length
  <2>2. /\ header \in Seq(STRING) /\ Len(header) = 4
        /\ \A i \in 1..4 : header[i] = text[0 + i]
    <3>1. /\ substr(text, from, length) \in Seq(STRING) /\ Len(substr(text, from, length)) = length
          /\ \A i \in 1..length : substr(text, from, length)[i] = text[from + i]
      BY ONLY <2>1, PartIs, Zenon
    <3> QED
      BY ONLY <3>1 DEF from, length, header
  <2> HIDE DEF header
  <2> QED
    BY <1>1, <2>2
<1> HIDE DEF header
<1>7. (find(header, <<file>>, 0) # npos) <=> part.header = "file"
  <2> DEFINE mark == <<file>>
  <2>1. Len(mark) = 1 /\ mark[1] = file
    OBVIOUS
  <2> HIDE DEF mark
  <2>2. ASSUME part.header = "file" PROVE Places(header, mark, 0) # {}
    <3>1. OccursAt(header, mark, 3)
      BY <1>2, <1>6, <2>1, <2>2 DEF OccursAt
    <3> QED
      BY <1>6, <2>1, <3>1 DEF Places
  <2>3. ASSUME part.header # "file", NEW k \in Places(header, mark, 0) PROVE FALSE
    <3>1. k \in 0..3 /\ header[k + 1] = file
      BY <1>6, <2>1 DEF Places, OccursAt
    <3>2. k = 0 \/ k = 1 \/ k = 2 \/ k = 3
      BY <3>1
    <3> QED
      BY <1>2, <1>6, <2>3, <3>1, <3>2
  <2>4. find(header, mark, 0) = npos <=> Places(header, mark, 0) = {}
    <3>1. Len(header) \in Nat /\ Len(mark) \in Nat
      BY <1>6, <2>1
    <3>2. \A k \in Places(header, mark, 0) : k # npos
      BY <3>1 DEF Places, npos
    <3> QED
      BY <3>1, <3>2, FindLeast
  <2> QED
    BY <2>2, <2>3, <2>4 DEF mark
<1>8. FilenameIn(header, "f") = IF part.header = "file" THEN "f" ELSE ""
  BY <1>7 DEF FilenameIn, file
<1>9. PartContent(text, 4) = data
  <2>1. PartContent(text, 4) = substr(text, 8, d)
    <3>1. Len(text) > 8 + 2 => Len(text) - 8 - 2 = d
      BY <1>1
    <3>2. ~(Len(text) > 8 + 2) => d = 0
      BY <1>1
    <3> QED
      BY <1>3, <3>1, <3>2 DEF PartContent
  <2>2. OccursAt(text, data, 8) /\ d = Len(data)
    BY <1>1 DEF OccursAt, d
  <2>3. substr(text, 8, d) = data
    <3>1. text \in Seq(STRING)
      BY <1>1
    <3> QED
      BY ONLY <1>4, <2>2, <3>1, ReadWhereItOccurs
  <2> QED
    BY <2>1, <2>3
<1> QED
  BY <1>5, <1>8, <1>9 DEF text, data, header

\* From a boundary before a part the next boundary that is found is behind it.
LEMMA NextBoundary ==
    ASSUME NEW part, IsPart(part), NEW text \in Seq(STRING), NEW at \in Nat, NEW next,
           next = at + Len(EncodedPart(part)),
           OccursAt(text, EncodedPart(part), at), OccursAt(text, <<dashBoundary>>, next)
    PROVE  /\ next \in Nat /\ at < next
           /\ find(text, <<dashBoundary>>, at + 1) = next
           /\ \A p \in (at + 1)..(next - 1) : ~OccursAt(text, <<dashBoundary>>, p)
           /\ OccursAt(text, <<dashBoundary>>, at)
           /\ PartAt(text, at) = EncodedPart(part)
<1> DEFINE length == Len(EncodedPart(part))
           encoded == EncodedPart(part)
           data == part.data
           d == Len(data)
           mark == <<dashBoundary>>
<1>1. /\ encoded \in Seq(STRING) /\ d \in Nat /\ length = 8 + d + 2
      /\ encoded[1] = dashBoundary /\ encoded[2] = "r" /\ encoded[3] = "n"
      /\ encoded[4] = Disposition[part.header]
      /\ encoded[5] = "r" /\ encoded[6] = "n" /\ encoded[7] = "r" /\ encoded[8] = "n"
      /\ \A i \in 1..d : encoded[8 + i] = data[i] /\ data[i] # dashBoundary
      /\ encoded[8 + d + 1] = "r" /\ encoded[8 + d + 2] = "n"
  BY EncodedPartIs
<1>2. Disposition[part.header] # dashBoundary /\ "r" # dashBoundary /\ "n" # dashBoundary
  BY LinesAre DEF IsPart, dashBoundary
<1>3. Len(mark) = 1 /\ mark[1] = dashBoundary
  OBVIOUS
<1>4. /\ at + length <= Len(text) /\ Len(text) \in Nat
      /\ \A i \in 1..length : text[at + i] = encoded[i]
  BY LenProperties DEF OccursAt
<1> HIDE DEF length, encoded, data, d, mark
<1>5. \A i \in 2..length : encoded[i] # dashBoundary
  <2> TAKE i \in 2..length
  <2>1. i \in 2..8 \/ i - 8 \in 1..d \/ i = 8 + d + 1 \/ i = 8 + d + 2
    BY <1>1
  <2>2. CASE i \in 2..8
    <3>1. i = 2 \/ i = 3 \/ i = 4 \/ i = 5 \/ i = 6 \/ i = 7 \/ i = 8
      BY <2>2
    <3> QED
      BY <1>1, <1>2, <3>1
  <2>3. CASE i - 8 \in 1..d
    <3>1. 8 + (i - 8) = i
      OBVIOUS
    <3> QED
      BY <1>1, <2>3, <3>1
  <2> QED
    BY <1>1, <1>2, <2>1, <2>2, <2>3
<1>6. next \in Nat /\ at < next /\ next = at + length
  BY <1>1 DEF length
<1>7. ASSUME NEW p \in (at + 1)..(next - 1) PROVE ~OccursAt(text, mark, p)
  <2>1. p + 1 - at \in 2..length /\ at + (p + 1 - at) = p + 1 /\ p + 1 - at \in 1..length
    BY <1>1, <1>6
  <2>2. text[p + 1] # dashBoundary
    BY <1>4, <1>5, <2>1
  <2> QED
    BY <1>3, <2>2 DEF OccursAt
<1>8. OccursAt(text, mark, at)
  <2>1. 1 \in 1..length /\ at + 1 <= Len(text)
    BY <1>1, <1>4
  <2>2. text[at + 1] = dashBoundary
    BY <1>1, <1>4, <2>1
  <2> QED
    BY <1>3, <2>1, <2>2 DEF OccursAt
<1>9. find(text, mark, at + 1) = next
  <2> DEFINE from == at + 1
  <2>1. /\ from \in Nat /\ from <= next /\ next \in Nat /\ Len(text) \in Nat /\ Len(mark) \in Nat
        /\ OccursAt(text, mark, next) /\ \A k \in from..(next - 1) : ~OccursAt(text, mark, k)
    BY <1>3, <1>4, <1>6, <1>7 DEF mark
  <2> HIDE DEF from
  <2>2. find(text, mark, from) = next
    BY ONLY <2>1, FoundAt
  <2> QED
    BY <2>2 DEF from
<1>10. PartAt(text, at) = encoded
  <2>1. next - at = length
    BY <1>1, <1>6
  <2>2. substr(text, at, length) = encoded
    BY <1>1, ReadWhereItOccurs DEF length, encoded
  <2> QED
    BY <1>9, <2>1, <2>2 DEF PartAt, mark
<1> QED
  BY <1>6, <1>7, <1>8, <1>9, <1>10 DEF mark, encoded

\* Where in a text others are, one after the other, and what follows the last.
AreAt(at, text, texts, n, last) ==
    /\ at \in [1..(n + 1) -> Nat] /\ at[1] = 0 /\ OccursAt(text, last, at[n + 1])
    /\ \A k \in 1..n : OccursAt(text, texts[k], at[k]) /\ at[k + 1] = at[k] + Len(texts[k])

\* In what is joined there are the texts it is joined of.
LEMMA JoinedAt ==
    ASSUME NEW n \in Nat, NEW texts \in [1..n -> Seq(STRING)], NEW last \in Seq(STRING),
           NEW from, JoinedFrom(from, texts, n, last)
    PROVE  \E at : AreAt(at, from[1], texts, n, last)
<1> DEFINE S == Seq(STRING)
           text == from[1]
           place(k) == Len(text) - Len(from[k])
           Is(k) == place(k) \in Nat /\ OccursAt(text, from[k], place(k))
           T == {k \in 0..n : Is(k + 1)}
           at == [k \in 1..(n + 1) |-> place(k)]
<1>1. /\ \A k \in 1..(n + 1) : from[k] \in S /\ Len(from[k]) \in Nat
      /\ \A k \in 1..n : /\ texts[k] \in S /\ Len(texts[k]) \in Nat
                         /\ from[k] = texts[k] \o from[k + 1]
                         /\ k \in 1..(n + 1) /\ k + 1 \in 1..(n + 1)
      /\ from[n + 1] = last
  <2>1. /\ from \in [1..(n + 1) -> S] /\ from[n + 1] = last
        /\ \A k \in 1..n : from[k] = texts[k] \o from[k + 1]
    BY DEF JoinedFrom
  <2>2. \A s \in S : Len(s) \in Nat
    BY LenProperties
  <2>3. \A k \in 1..n : texts[k] \in S /\ k \in 1..(n + 1) /\ k + 1 \in 1..(n + 1)
    OBVIOUS
  <2> HIDE DEF S
  <2> QED
    BY <2>1, <2>2, <2>3
<1>2. text \in S /\ Len(text) \in Nat /\ 1 \in 1..(n + 1) /\ n + 1 \in 1..(n + 1)
  BY <1>1
<1>3. ASSUME NEW k \in 1..n, Is(k)
      PROVE  Is(k + 1) /\ OccursAt(text, texts[k], place(k)) /\ place(k + 1) = place(k) + Len(texts[k])
  <2> DEFINE s == texts[k]
             t == from[k + 1]
             p == place(k)
  <2>1. s \in S /\ t \in S /\ from[k] = s \o t /\ Len(s) \in Nat /\ Len(t) \in Nat /\ p \in Nat
    BY <1>1, <1>3
  <2>2. Len(from[k]) = Len(s) + Len(t)
    BY <2>1, Joined
  <2>3. place(k + 1) = p + Len(s)
    BY <1>2, <2>1, <2>2
  <2>4. OccursAt(text, s \o t, p)
    BY <1>3, <2>1
  <2> HIDE DEF s, t, p, text
  <2>5. OccursAt(text, s, p) /\ OccursAt(text, t, p + Len(s))
    BY <1>2, <2>1, <2>4, OccursJoined
  <2>6. p + Len(s) \in Nat
    BY <2>1
  <2> QED
    BY <2>3, <2>5, <2>6 DEF s, t, p
<1>4. Is(1) /\ place(1) = 0
  <2>1. Len(text) - Len(text) = 0
    BY <1>2
  <2> HIDE DEF text
  <2>2. OccursAt(text, text, 0)
    BY <1>2 DEF OccursAt
  <2> QED
    BY <2>1, <2>2 DEF text
<1> HIDE DEF Is
<1>5. 0..n \subseteq T
  <2>1. 0 \in T
    BY <1>4
  <2>2. ASSUME NEW k \in 1..n, k - 1 \in T PROVE k \in T
    <3>1. (k - 1) + 1 = k /\ k \in 0..n
      OBVIOUS
    <3>2. Is(k)
      BY <2>2, <3>1
    <3> QED
      BY <1>3, <3>1, <3>2
  <2> HIDE DEF T
  <2> QED
    BY <2>1, <2>2, Upward
<1>6. \A k \in 1..(n + 1) : Is(k)
  <2> TAKE k \in 1..(n + 1)
  <2>1. k - 1 \in 0..n /\ (k - 1) + 1 = k
    OBVIOUS
  <2> QED
    BY <1>5, <2>1
<1>7. /\ at \in [1..(n + 1) -> Nat]
      /\ \A k \in 1..(n + 1) : at[k] = place(k)
  BY <1>6 DEF Is
<1>8. OccursAt(text, last, at[n + 1])
  BY <1>1, <1>2, <1>6, <1>7 DEF Is
<1>9. \A k \in 1..n : OccursAt(text, texts[k], at[k]) /\ at[k + 1] = at[k] + Len(texts[k])
  BY <1>1, <1>3, <1>6, <1>7
<1>10. at[1] = 0
  BY <1>2, <1>4, <1>7
<1> HIDE DEF at, place
<1>11. AreAt(at, text, texts, n, last)
  BY <1>7, <1>8, <1>9, <1>10 DEF AreAt
<1> QED
  BY <1>11

\* What ends a multipart body.
Closing == <<dashBoundary, "-", "-">> \o CRLF

\* The text from each part on.
LEMMA MultipartIs ==
    ASSUME NEW parts, Len(parts) \in Nat, \A k \in 1..Len(parts) : IsPart(parts[k])
    PROVE  /\ Closing \in Seq(STRING) /\ Len(Closing) > 0 /\ Closing[1] = dashBoundary
           /\ [k \in 1..Len(parts) |-> EncodedPart(parts[k])] \in [1..Len(parts) -> Seq(STRING)]
           /\ JoinedFrom(MultipartFrom(parts), [k \in 1..Len(parts) |-> EncodedPart(parts[k])],
                         Len(parts), Closing)
<1> DEFINE n == Len(parts)
           last == Closing
           text(k) == EncodedPart(parts[k])
           texts == [k \in 1..n |-> text(k)]
           Is(f) == f = [k \in 1..(n + 1) |-> IF k > n THEN last ELSE text(k) \o f[k + 1]]
           from == CHOOSE f : Is(f)
<1>1. n \in Nat
  OBVIOUS
<1>2. last \in Seq(STRING) /\ Len(last) > 0 /\ last[1] = dashBoundary
  <2> DEFINE S == STRING
             b == dashBoundary
             d == "-"
             mark == <<b, d, d>>
             break == CRLF
  <2>1. b \in S /\ d \in S
    BY UploadAssumption
  <2>2. break \in Seq(S) /\ Len(break) = 2
    BY TextsAre
  <2> HIDE DEF S, b, d, break
  <2>3. mark \in Seq(S) /\ Len(mark) = 3 /\ mark[1] = b
    BY <2>1
  <2> HIDE DEF mark
  <2>4. /\ mark \o break \in Seq(S) /\ Len(mark \o break) = Len(mark) + Len(break)
        /\ \A i \in 1..Len(mark) : (mark \o break)[i] = mark[i]
    BY <2>2, <2>3, Joined, ZenonT(30)
  <2> DEFINE joined == mark \o break
  <2> HIDE DEF joined
  <2>5. joined \in Seq(S) /\ Len(joined) > 0 /\ joined[1] = b
    BY <2>2, <2>3, <2>4 DEF joined
  <2> QED
    BY <2>5 DEF joined, mark, break, S, b, d, Closing
<1>3. texts \in [1..n -> Seq(STRING)]
  BY EncodedPartIs
<1>4. MultipartFrom(parts) = from
  BY DEF MultipartFrom, Closing
<1>5. \A k \in 1..n : texts[k] = text(k)
  OBVIOUS
<1> HIDE DEF n, last, text, texts
<1>6. /\ \A k \in 1..n : k \in 1..(n + 1) /\ ~(k > n)
      /\ n + 1 \in 1..(n + 1) /\ n + 1 > n
      /\ \A k \in 1..(n + 1) : k \in 1..n \/ (k = n + 1 /\ k > n)
  BY <1>1
<1>7. PICK f : JoinedFrom(f, texts, n, last)
  BY <1>1, <1>2, <1>3, JoinedExists
<1>8. Is(f)
  <2>1. f \in [1..(n + 1) -> Seq(STRING)] /\ f[n + 1] = last
        /\ \A k \in 1..n : f[k] = text(k) \o f[k + 1]
    BY <1>5, <1>7 DEF JoinedFrom
  <2>2. \A k \in 1..(n + 1) : f[k] = IF k > n THEN last ELSE text(k) \o f[k + 1]
    BY <1>6, <2>1
  <2> QED
    BY <2>1, <2>2
<1>9. Is(from)
  BY <1>8
<1> HIDE DEF from
<1>10. from[n + 1] = last /\ \A k \in 1..n : from[k] = texts[k] \o from[k + 1]
  BY <1>5, <1>6, <1>9
<1>11. from = [k \in 1..(n + 1) |-> from[k]]
  BY <1>9
<1>12. JoinedFrom(from, texts, n, last)
  BY <1>1, <1>2, <1>3, <1>10, <1>11, JoinedIs
<1> QED
  BY <1>2, <1>3, <1>4, <1>12 DEF n, texts, text, last

\* MultipartFormDataParser: whatever parts are around it, the first part that
\* names a file is what is taken out of a body, with all of its data.
LEMMA FileIsFound ==
    ASSUME NEW parts, Len(parts) \in Nat, \A k \in 1..Len(parts) : IsPart(parts[k]),
           NEW j \in 1..Len(parts), parts[j].header = "file",
           \A k \in 1..(j - 1) : parts[k].header # "file"
    PROVE  parse(MultipartBody(parts), "f") =
             [isValid |-> TRUE, filename |-> "f", content |-> parts[j].data]
<1> DEFINE n == Len(parts)
           texts == [k \in 1..n |-> EncodedPart(parts[k])]
           from == MultipartFrom(parts)
           body == from[1]
           mark == <<dashBoundary>>
           places == Places(body, mark, 0)
           Holds(p) == IsFilePart(body, "f", p)
           starts == {p \in places : Holds(p)}
           data == parts[j].data
<1>1. /\ Closing \in Seq(STRING) /\ Len(Closing) > 0 /\ Closing[1] = dashBoundary
      /\ texts \in [1..n -> Seq(STRING)] /\ JoinedFrom(from, texts, n, Closing)
  BY MultipartIs
<1>2. n \in Nat /\ \A k \in 1..n : texts[k] = EncodedPart(parts[k]) /\ IsPart(parts[k])
  OBVIOUS
<1>3. body \in Seq(STRING) /\ Len(body) \in Nat
  BY <1>1, <1>2, LenProperties DEF JoinedFrom
<1>4. Len(mark) = 1 /\ mark[1] = dashBoundary
  OBVIOUS
<1> HIDE DEF n, texts, from, mark
<1>a. PICK at : AreAt(at, body, texts, n, Closing)
  <2>1. n \in Nat /\ texts \in [1..n -> Seq(STRING)] /\ Closing \in Seq(STRING)
    BY <1>1, <1>2
  <2> QED
    BY <1>1, <2>1, JoinedAt
<1> HIDE DEF body
<1>5. /\ at \in [1..(n + 1) -> Nat] /\ at[1] = 0 /\ OccursAt(body, Closing, at[n + 1])
      /\ \A k \in 1..n : OccursAt(body, texts[k], at[k]) /\ at[k + 1] = at[k] + Len(texts[k])
  BY <1>a DEF AreAt
<1>6. \A k \in 1..n : k \in 1..(n + 1) /\ k + 1 \in 1..(n + 1) /\ at[k] \in Nat /\ at[k + 1] \in Nat
  BY <1>2, <1>5
<1>7. \A k \in 1..(n + 1) : OccursAt(body, mark, at[k])
  <2>1. ASSUME NEW text, Len(text) \in Nat, Len(text) > 0, text[1] = dashBoundary, NEW p \in Nat,
               OccursAt(body, text, p)
        PROVE  OccursAt(body, mark, p)
    BY <1>3, <1>4, <2>1 DEF OccursAt
  <2>2. \A k \in 1..n : Len(texts[k]) \in Nat /\ Len(texts[k]) > 0 /\ texts[k][1] = dashBoundary
    <3> TAKE k \in 1..n
    <3>1. /\ Len(parts[k].data) \in Nat /\ Len(texts[k]) = 8 + Len(parts[k].data) + 2
          /\ texts[k][1] = dashBoundary
      <4> DEFINE part == parts[k]
      <4>1. IsPart(part) /\ texts[k] = EncodedPart(part)
        BY <1>2
      <4> HIDE DEF part
      <4>2. /\ Len(part.data) \in Nat /\ Len(EncodedPart(part)) = 8 + Len(part.data) + 2
            /\ EncodedPart(part)[1] = dashBoundary
        BY ONLY <4>1, EncodedPartIs
      <4> QED
        BY ONLY <4>1, <4>2 DEF part
    <3> QED
      BY <3>1
  <2>3. Len(Closing) \in Nat /\ at[n + 1] \in Nat
    BY <1>1, <1>2, <1>5, LenProperties
  <2>4. \A k \in 1..n : OccursAt(body, mark, at[k])
    BY <1>5, <1>6, <2>1, <2>2
  <2>5. OccursAt(body, mark, at[n + 1])
    BY <1>1, <1>5, <2>1, <2>3
  <2>6. \A k \in 1..(n + 1) : k \in 1..n \/ k = n + 1
    BY <1>2
  <2> QED
    BY <2>4, <2>5, <2>6
<1>8. ASSUME NEW k \in 1..n
      PROVE  /\ at[k] < at[k + 1] /\ find(body, mark, at[k] + 1) = at[k + 1]
             /\ \A p \in (at[k] + 1)..(at[k + 1] - 1) : ~OccursAt(body, mark, p)
             /\ PartAt(body, at[k]) = EncodedPart(parts[k])
  <2> DEFINE p == at[k]
             next == at[k + 1]
             part == parts[k]
  <2>1. /\ IsPart(part) /\ body \in Seq(STRING) /\ p \in Nat /\ next = p + Len(EncodedPart(part))
        /\ OccursAt(body, EncodedPart(part), p) /\ OccursAt(body, <<dashBoundary>>, next)
    BY <1>2, <1>3, <1>5, <1>6, <1>7 DEF mark
  <2> HIDE DEF p, next, part
  <2>2. /\ p < next /\ find(body, <<dashBoundary>>, p + 1) = next
        /\ \A q \in (p + 1)..(next - 1) : ~OccursAt(body, <<dashBoundary>>, q)
        /\ PartAt(body, p) = EncodedPart(part)
    BY ONLY <2>1, NextBoundary
  <2> QED
    BY <2>2 DEF p, next, part, mark
<1>9. \A k \in 1..n : Holds(at[k]) <=> parts[k].header = "file"
  <2> TAKE k \in 1..n
  <2> DEFINE text == EncodedPart(parts[k])
  <2>1. /\ PartAt(body, at[k]) = text /\ find(body, <<dashBoundary>>, at[k] + 1) # npos
    <3>1. PartAt(body, at[k]) = text /\ find(body, mark, at[k] + 1) = at[k + 1]
      BY <1>8
    <3>2. \A p \in Nat : p # npos
      BY DEF npos
    <3>3. at[k + 1] # npos
      BY <1>6, <3>2
    <3> QED
      BY ONLY <3>1, <3>3 DEF mark
  <2>2. /\ find(text, BlankLine, 0) = 4 /\ 4 # npos /\ "f" # ""
        /\ FilenameIn(substr(text, 0, 4), "f") = IF parts[k].header = "file" THEN "f" ELSE ""
    <3> DEFINE part == parts[k]
    <3>1. IsPart(part)
      BY <1>2
    <3> HIDE DEF part
    <3>2. /\ find(EncodedPart(part), BlankLine, 0) = 4
          /\ FilenameIn(substr(EncodedPart(part), 0, 4), "f") = IF part.header = "file" THEN "f" ELSE ""
      BY ONLY <3>1, HeaderIs
    <3> QED
      <4>1. 4 # npos /\ "f" # ""
        BY DEF npos
      <4> QED
        BY ONLY <3>2, <4>1 DEF part
  <2> HIDE DEF text
  <2> QED
    BY <2>1, <2>2 DEF IsFilePart
<1> HIDE DEF Holds
<1>10. j \in 1..n /\ parts[j].header = "file" /\ \A k \in 1..(j - 1) : parts[k].header # "file" /\ k \in 1..n
  BY DEF n
<1>11. \A p \in places : p \in Nat /\ OccursAt(body, mark, p)
  BY <1>3, <1>4 DEF Places
<1> HIDE DEF places
<1>12. \A p \in starts : at[j] <= p
  <2> DEFINE T == {k \in 0..(j - 1) : \A p \in starts : ~(p < at[k + 1])}
  <2>1. 0 \in T
    <3>1. 0 \in 0..(j - 1) /\ at[0 + 1] = 0
      BY <1>5, <1>10
    <3>2. \A p \in starts : ~(p < 0)
      BY <1>11
    <3> QED
      BY <3>1, <3>2
  <2>2. ASSUME NEW k \in 1..(j - 1), k - 1 \in T PROVE k \in T
    <3>1. (k - 1) + 1 = k /\ k \in 0..(j - 1) /\ k \in 1..n /\ parts[k].header # "file"
      BY <1>10
    <3>2. ASSUME NEW p \in starts, p < at[k + 1] PROVE FALSE
      <4>1. p \in Nat /\ OccursAt(body, mark, p) /\ Holds(p)
        BY <1>11
      <4>2. ~(p < at[k])
        BY <2>2, <3>1
      <4>3. p # at[k]
        BY <1>9, <3>1, <4>1
      <4>4. at[k] \in Nat /\ at[k + 1] \in Nat
        BY <1>6, <3>1
      <4>5. p \in (at[k] + 1)..(at[k + 1] - 1)
        BY <3>2, <4>1, <4>2, <4>3, <4>4
      <4> QED
        BY <1>8, <3>1, <4>1, <4>5
    <3> QED
      BY <3>1, <3>2
  <2>3. j - 1 \in Nat /\ (j - 1) + 1 = j /\ j - 1 \in 0..(j - 1)
    BY <1>10
  <2> HIDE DEF T
  <2>4. 0..(j - 1) \subseteq T
    BY <2>1, <2>2, <2>3, Upward
  <2>5. \A p \in starts : ~(p < at[j])
    BY <2>3, <2>4 DEF T
  <2> QED
    BY <1>6, <1>10, <1>11, <2>5
<1>13. at[j] \in starts
  <2>1. at[j] \in places
    <3>1. OccursAt(body, mark, at[j]) /\ at[j] \in Nat
      BY <1>6, <1>7, <1>10
    <3> QED
      BY <1>3, <1>4, <3>1 DEF places, Places, OccursAt
  <2> QED
    BY <1>9, <1>10, <2>1
<1>14. (CHOOSE p \in starts : \A q \in starts : p <= q) = at[j]
  <2>1. \A p \in starts : p \in Nat
    BY <1>11
  <2> HIDE DEF starts
  <2> DEFINE first == CHOOSE p \in starts : \A q \in starts : p <= q
  <2>2. first \in starts /\ \A q \in starts : first <= q
    BY <1>12, <1>13
  <2> HIDE DEF first
  <2>3. first <= at[j] /\ at[j] <= first /\ first \in Nat /\ at[j] \in Nat
    BY <1>12, <1>13, <2>1, <2>2
  <2> QED
    BY <2>3 DEF first
<1>15. /\ PartAt(body, at[j]) = EncodedPart(parts[j])
       /\ find(EncodedPart(parts[j]), BlankLine, 0) = 4 /\ PartContent(EncodedPart(parts[j]), 4) = data
  BY <1>2, <1>8, <1>10, HeaderIs
<1>16. parse(body, "f") = [isValid |-> TRUE, filename |-> "f", content |-> data]
  <2> DEFINE first == CHOOSE p \in starts : \A q \in starts : p <= q
             result(p) == [isValid |-> TRUE, filename |-> "f",
                           content |-> PartContent(PartAt(body, p), find(PartAt(body, p), BlankLine, 0))]
  <2>1. parse(body, "f") = IF starts = {} THEN NoFile ELSE result(first)
    BY DEF parse, places, Holds, mark
  <2>2. starts # {}
    BY <1>13
  <2> HIDE DEF starts, data
  <2>3. result(first) = result(at[j])
    BY <1>14
  <2>4. result(at[j]) = [isValid |-> TRUE, filename |-> "f", content |-> data]
    BY <1>15
  <2> QED
    BY <2>1, <2>2, <2>3, <2>4
<1> QED
  BY <1>16 DEF body, from, MultipartBody

\* What the peer means to be stored is the body, or what is taken out of it.
LEMMA MeantIs ==
    ASSUME transfer \in Transfers, Meant(transfer) # <<>>
    PROVE  IF transfer.parts = <<>> THEN Concatenated(transfer.chunks) = Meant(transfer)
           ELSE LET part == parse(Concatenated(transfer.chunks), "f")
                IN  part.isValid /\ part.content = Meant(transfer)
<1> DEFINE parts == transfer.parts
           body == Concatenated(transfer.chunks)
           files == FileParts(parts)
           first == CHOOSE k \in files : \A m \in files : k <= m
<1>1. /\ parts = <<>> => Meant(transfer) = body
      /\ parts # <<>> => files # {} /\ Meant(transfer) = parts[first].data
  BY DEF Meant
<1>2. /\ parts \in Seq([header : DOMAIN Disposition, data : Seq(STRING \ {dashBoundary})])
      /\ parts # <<>> => body = MultipartBody(parts)
  BY UploadAssumption
<1> HIDE DEF parts, body
<1>3. CASE parts # <<>>
  <2> DEFINE n == Len(parts)
  <2>1. n \in Nat /\ DOMAIN parts = 1..n /\ \A k \in 1..n : IsPart(parts[k])
    <3>1. n \in Nat /\ DOMAIN parts = 1..n
      BY <1>2, LenProperties
    <3>2. \A k \in 1..n : parts[k] \in [header : DOMAIN Disposition, data : Seq(STRING \ {dashBoundary})]
      BY <1>2, ElementOfSeq
    <3> QED
      BY <3>1, <3>2 DEF IsPart
  <2>2. files = {k \in 1..n : parts[k].header = "file"}
    BY <2>1 DEF FileParts
  <2> HIDE DEF n, files
  <2>3. first \in files /\ \A m \in files : first <= m
    <3>1. files \subseteq Nat /\ files # {}
      BY <1>1, <1>3, <2>2
    <3> QED
      BY <3>1, LeastNatural
  <2> DEFINE j == first
  <2> HIDE DEF first
  <2>4. /\ j \in 1..n /\ parts[j].header = "file"
        /\ \A k \in 1..(j - 1) : parts[k].header # "file"
    <3>1. j \in 1..n /\ parts[j].header = "file"
      BY <2>2, <2>3
    <3>2. ASSUME NEW k \in 1..(j - 1), parts[k].header = "file" PROVE FALSE
      <4>1. k \in 1..n /\ ~(j <= k)
        BY <2>1, <3>1
      <4> QED
        BY <2>2, <2>3, <3>2, <4>1
    <3> QED
      BY <3>1, <3>2
  <2>5. parse(MultipartBody(parts), "f") = [isValid |-> TRUE, filename |-> "f", content |-> parts[j].data]
    BY <2>1, <2>4, FileIsFound DEF n
  <2>6. parse(body, "f").isValid /\ parse(body, "f").content = Meant(transfer)
    BY <1>1, <1>2, <1>3, <2>5
  <2> QED
    BY <1>3, <2>6 DEF parts, body
<1>4. CASE parts = <<>>
  BY <1>1, <1>4 DEF parts, body
<1> QED
  BY <1>3, <1>4

-----------------------------------------------------------------------------
(***************************************************************************)
(* The upload as a whole: what is received becomes a request, and the      *)
(* requests are served                                                     *)
(***************************************************************************)
\* What is handed over is a request.
LEMMA HandedOver == ASSUME ReceivedInv, phase = "accepted" PROVE UploadRequest \in RequestType
<1>1. /\ transfer \in Transfers /\ decoded \in Seq(STRING)
      /\ transfer.path \in Paths \cup {NoPath} /\ "f" \in STRING
  BY UploadAssumption DEF ReceivedInv
<1>2. (transfer.parts # <<>>) \in BOOLEAN
  OBVIOUS
<1> DEFINE p == transfer.path
           m == transfer.parts # <<>>
           f == "f"
<1>3. p \in Paths \cup {NoPath} /\ m \in BOOLEAN /\ f \in STRING
  BY <1>1, <1>2
<1> HIDE DEF p, m, f
<1>4. [method |-> "POST", path |-> p, body |-> decoded, multipart |-> m, filename |-> f]
        \in [method : {"POST"}, path : Paths \cup {NoPath}, body : Seq(STRING),
             multipart : BOOLEAN, filename : STRING]
  BY <1>1, <1>3
<1> QED
  BY <1>4 DEF RequestType, UploadRequest, p, m, f

\* A step is one of the file handlers, or one that hands over a request.
LEMMA StepOfFiles ==
    ASSUME ReceivedInv, [UploadNext]_uploadVars
    PROVE  [FilesNext]_vars \/ \E r \in RequestType : Accept(r)
<1>1. CASE ChunkedNext /\ UNCHANGED <<vars, sent>>
  BY <1>1
<1>2. CASE HandOver
  <2>1. Accept(UploadRequest) /\ UploadRequest \in RequestType
    BY <1>2, HandedOver DEF HandOver
  <2> QED
    BY <2>1
<1>3. CASE FilesNext
  BY <1>3
<1>4. CASE UNCHANGED uploadVars
  BY <1>4 DEF uploadVars
<1> QED
  BY <1>1, <1>2, <1>3, <1>4 DEF UploadNext

\* At first nothing has been received.
LEMMA ReceivedInit == ASSUME UploadInit PROVE ReceivedInv /\ DecodedInv
<1>1. CASE ChunkedInit
  <2>1. /\ transfer \in Transfers /\ raw = OnTheWire(transfer) /\ got = 0 /\ phase = "receiving"
        /\ end = 0 /\ pos = 0 /\ decoded = <<>>
    BY <1>1 DEF ChunkedInit
  <2>2. raw \in Seq(STRING) /\ Len(raw) \in Nat
    BY <2>1, TransferIs, LenProperties
  <2>3. 0 \in 0..Len(raw)
    BY <2>2
  <2>4. ReceivedInv
    BY <2>1, <2>2, <2>3, EmptySeq DEF ReceivedInv
  <2>5. DecodedInv
    BY <2>1 DEF DecodedInv, Decided
  <2> QED
    BY <2>4, <2>5
<1>2. CASE Idle
  <2>1. /\ raw = <<>> /\ got = 0 /\ phase = "handled" /\ end = 0 /\ pos = 0 /\ decoded = <<>>
    BY <1>2 DEF Idle
  <2>2. ReceivedInv
    BY <2>1, EmptySeq DEF ReceivedInv
  <2>3. DecodedInv
    BY <2>1 DEF DecodedInv, Clear
  <2> QED
    BY <2>2, <2>3
<1> QED
  BY <1>1, <1>2 DEF UploadInit

\* With what is received as it was, nothing else matters.
LEMMA ReceivedQuiet ==
    ASSUME ReceivedInv, DecodedInv, UNCHANGED chunkedVars
    PROVE  (ReceivedInv /\ DecodedInv)'
<1>1. UNCHANGED <<transfer, raw, got, phase, end, pos, decoded>>
  BY DEF chunkedVars
<1>2. ReceivedInv'
  BY <1>1 DEF ReceivedInv
<1>3. CASE phase = "handled"
  BY <1>1, <1>2, <1>3 DEF DecodedInv, Clear
<1>4. CASE phase # "handled"
  <2> SUFFICES ASSUME Clear' PROVE DecodedInv'
    BY <1>2 DEF DecodedInv
  <2>1. Clear /\ \A j : TextFrom(j)' = TextFrom(j) /\ DataFrom(j)' = DataFrom(j)
    BY <1>1, <1>4, ClearStays
  <2>2. (phase' # "receiving" => end' = Len(raw')) /\ (phase' = "decoding" => phase = "decoding")
    BY <1>1, <2>1 DEF DecodedInv
  <2>3. ASSUME phase = "decoding" PROVE (\E j \in 1..(Len(transfer.chunks) + 1) : IsAt(j))'
    <3>1. PICK j \in 1..(Len(transfer.chunks) + 1) : IsAt(j)
      BY <2>1, <2>3 DEF DecodedInv
    <3>2. IsAt(j)'
      BY <1>1, <2>1, <3>1 DEF IsAt
    <3> QED
      BY <1>1, <3>1, <3>2
  <2>4. ASSUME Decided' PROVE (decoded = DataFrom(1) /\ phase = Verdict(DataFrom(1)))'
    <3>1. decoded = DataFrom(1) /\ phase = Verdict(DataFrom(1))
      BY <1>1, <2>1, <2>4 DEF DecodedInv, Decided
    <3> QED
      BY <1>1, <2>1, <3>1 DEF Verdict
  <2> QED
    BY <2>2, <2>3, <2>4 DEF DecodedInv
<1> QED
  BY <1>3, <1>4

\* The invariant of what is received.
LEMMA ReceivedAlways ==
    ASSUME ReceivedInv, DecodedInv, [UploadNext]_uploadVars
    PROVE  (ReceivedInv /\ DecodedInv)'
<1>1. CASE ChunkedNext
  BY <1>1, ReceivedStep, DecodedStep
<1>2. CASE HandOver
  <2>1. raw' = <<>> /\ got' = 0 /\ phase' = "handled" /\ end' = 0 /\ pos' = 0 /\ decoded' = <<>>
    BY <1>2 DEF HandOver
  <2>2. ReceivedInv'
    BY <2>1, EmptySeq DEF ReceivedInv
  <2>3. DecodedInv'
    BY <2>1 DEF DecodedInv, Clear
  <2> QED
    BY <2>2, <2>3
<1>3. CASE UNCHANGED chunkedVars
  BY <1>3, ReceivedQuiet
<1> QED
  BY <1>1, <1>2, <1>3 DEF UploadNext, uploadVars

-----------------------------------------------------------------------------
(***************************************************************************)
(* What was sent, in the request that it has become                        *)
(***************************************************************************)
Known == sent \notin {<<>>, <<"?">>}

SentInv ==
    /\ phase # "handled" => served = 0
    /\ served = 0 => sent = <<>>
    /\ served = 1 /\ Known
       => /\ request.method = "POST" /\ TextOf(request) = sent
          /\ request.multipart => Part.isValid

\* The handlers keep the request, or take the next.
LEMMA NextRequest ==
    ASSUME FilesInv, [FilesNext]_vars
    PROVE  UNCHANGED <<request, served>> \/ served' = served + 1
<1>1. CASE \E r \in Requests : Accept(r)
  BY <1>1 DEF Accept
<1>2. CASE Get \/ CannotRemove
  BY <1>2, OnlyLooks
<1>3. CASE RemoveTarget \/ Saved \/ CloseStores \/ CloseLoses
  BY <1>3 DEF RemoveTarget, Saved, CloseStores, CloseLoses, Acknowledge, Answer
<1>4. CASE NothingToStore \/ NowhereToStore \/ NoFilePart
  BY <1>4 DEF NothingToStore, NowhereToStore, NoFilePart, Conclude, Answer
<1>5. CASE CannotMakeDirectory \/ CannotCreate \/ CannotWrite
  BY <1>5 DEF CannotMakeDirectory, CannotCreate, CannotWrite, FailWith, Answer
<1>6. CASE \/ NamedFile \/ \E name \in GeneratedNames : GeneratedFile(name)
           \/ DirectoryThere \/ DirectoryMissing \/ MakeDirectory
           \/ OpenForWriting \/ WriteBlock \/ BufferBlock
  BY <1>6 DEF NamedFile, GeneratedFile, Prepared, DirectoryThere, DirectoryMissing, MakeDirectory,
              OpenForWriting, WriteBlock, BufferBlock, Go
<1>7. CASE Foreign
  BY <1>7 DEF Foreign, ForeignCreate, ForeignMkdir, ForeignRemove, ForeignReplace, ForeignRewrite, Change
<1>8. CASE UNCHANGED vars
  BY <1>8 DEF vars
<1> QED
  BY <1>1, <1>2, <1>3, <1>4, <1>5, <1>6, <1>7, <1>8 DEF FilesNext, Delete, Post

\* The request that is handed over has what was sent.
LEMMA HandOverSent == ASSUME ReceivedInv, DecodedInv, SentInv, HandOver PROVE SentInv'
<1>1. /\ phase = "accepted" /\ phase' = "handled" /\ request' = UploadRequest /\ served' = served + 1
      /\ sent' = IF transfer.lost = 0 /\ Unmistakable(raw) THEN Meant(transfer) ELSE <<"?">>
  BY DEF HandOver, Accept
<1>2. served' = 1 /\ transfer \in Transfers
  BY <1>1 DEF SentInv, ReceivedInv
<1> SUFFICES ASSUME Known' PROVE /\ request'.method = "POST" /\ TextOf(request') = sent'
                                 /\ request'.multipart => Part'.isValid
  BY <1>1, <1>2 DEF SentInv, TextOf
<1>3. transfer.lost = 0 /\ Unmistakable(raw) /\ sent' = Meant(transfer) /\ Meant(transfer) # <<>>
  BY <1>1 DEF Known
<1>4. decoded = Concatenated(transfer.chunks)
  BY <1>1, <1>3 DEF DecodedInv, Clear, Decided, DataFrom, Concatenated
<1>5. /\ request'.method = "POST" /\ request'.body = decoded /\ request'.filename = "f"
      /\ request'.multipart = (transfer.parts # <<>>)
  BY <1>1 DEF UploadRequest
<1>6. Part' = parse(decoded, "f")
  BY <1>5 DEF Part
<1>7. CASE transfer.parts = <<>>
  <2>1. decoded = Meant(transfer)
    BY <1>2, <1>3, <1>4, <1>7, MeantIs
  <2> QED
    BY <1>3, <1>5, <1>7, <2>1 DEF TextOf
<1>8. CASE transfer.parts # <<>>
  <2>1. parse(decoded, "f").isValid /\ parse(decoded, "f").content = Meant(transfer)
    BY <1>2, <1>3, <1>4, <1>8, MeantIs
  <2> QED
    BY <1>3, <1>5, <1>6, <1>8, <2>1 DEF TextOf
<1> QED
  BY <1>7, <1>8

\* What was sent stays what the first request had.
LEMMA SentStep ==
    ASSUME ReceivedInv, DecodedInv, FilesInv, SentInv, [UploadNext]_uploadVars
    PROVE  SentInv'
<1>1. CASE HandOver
  BY <1>1, HandOverSent
<1>2. CASE ChunkedNext /\ UNCHANGED <<vars, sent>>
  <2>1. UNCHANGED <<request, served, sent>>
    BY <1>2 DEF vars
  <2>2. phase # "handled"
    BY <1>2 DEF ChunkedNext, Receive, DecodeChunk, DecodeLastChunk, DecodeFails, DecodeRunsOut
  <2>3. served = 0
    BY <2>2 DEF SentInv
  <2> QED
    BY <2>1, <2>3 DEF SentInv
<1>3. CASE phase = "handled" /\ FilesNext /\ UNCHANGED <<chunkedVars, sent>>
  <2>1. phase' = "handled" /\ sent' = sent /\ served \in Nat
    BY <1>3 DEF chunkedVars, FilesInv, TypeOK
  <2>2. CASE UNCHANGED <<request, served>>
    BY <2>1, <2>2 DEF SentInv, Known, TextOf, Part
  <2>3. CASE served' = served + 1
    <3>1. served' # 0 /\ (served' = 1 => served = 0)
      BY <2>1, <2>3
    <3>2. served' = 1 => ~Known'
      BY <2>1, <3>1 DEF SentInv, Known
    <3> QED
      BY <2>1, <3>1, <3>2 DEF SentInv
  <2> QED
    BY <1>3, <2>2, <2>3, NextRequest
<1>4. CASE UNCHANGED uploadVars
  <2>1. UNCHANGED <<phase, served, sent, request>>
    BY <1>4 DEF uploadVars, chunkedVars, vars
  <2> QED
    BY <2>1 DEF SentInv, Known, TextOf, Part
<1> QED
  BY <1>1, <1>2, <1>3, <1>4 DEF UploadNext

\* At first nothing was sent.
LEMMA SentInit == UploadInit => SentInv
BY DEF UploadInit, FilesInit, SentInv, Known

\* So that what is kept is what was sent.
LEMMA StoredIs == ASSUME SentInv, OutcomeInv, AcknowledgedIsKept PROVE StoredIsSent
<1> SUFFICES ASSUME served = 1, Answered({"POST"}), sent # <<>>, sent # <<"?">>
             PROVE  /\ answer.status # 400
                    /\ answer.status = 201 /\ filePath \notin witness.touched
                       => Node(tree, filePath) = File(Left(sent, witness.failed # "close"))
  BY DEF StoredIsSent
<1>1. TextOf(request) = sent /\ (request.multipart => Part.isValid)
  BY DEF SentInv, Known
<1>2. answer.status # 400
  <2> SUFFICES ASSUME answer.status = 400 PROVE FALSE
    OBVIOUS
  <2>1. request.multipart /\ (~Part.isValid \/ Part.content = <<>>)
    BY DEF OutcomeInv, Outcome
  <2>2. TextOf(request) = Part.content
    BY <2>1 DEF TextOf, Part
  <2> QED
    BY <1>1, <2>1, <2>2
<1>3. ASSUME answer.status = 201, filePath \notin witness.touched
      PROVE  Node(tree, filePath) = File(Left(sent, witness.failed # "close"))
  <2> DEFINE whole == witness.failed # "close"
             k == [path |-> filePath, data |-> TextOf(request), whole |-> whole]
  <2>1. k \in kept /\ k.path = filePath /\ k.data = TextOf(request) /\ k.whole = whole
    BY <1>3 DEF OutcomeInv, Outcome
  <2> HIDE DEF k
  <2>2. Node(tree, k.path) = File(Left(k.data, k.whole))
    BY <2>1 DEF AcknowledgedIsKept
  <2> QED
    BY <1>1, <2>1, <2>2
<1> QED
  BY <1>2, <1>3

-----------------------------------------------------------------------------
(***************************************************************************)
(* The theorems                                                            *)
(***************************************************************************)
\* What is received and decoded is as the invariants say.
THEOREM ReceivedCorrect == Spec => [](ReceivedInv /\ DecodedInv)
<1>1. UploadInit => ReceivedInv /\ DecodedInv
  BY ReceivedInit
<1>2. ReceivedInv /\ DecodedInv /\ [UploadNext]_uploadVars => (ReceivedInv /\ DecodedInv)'
  BY ReceivedAlways
<1> QED
  BY <1>1, <1>2, PTL DEF Spec

\* tryParseChunkedBody, decodeChunkedBody: whatever was put into the chunks, cut
\* as it may be and arriving as it may, is what the body is decoded to, and the
\* body is taken off the buffer up to its last byte; provided that its text
\* cannot be taken for its own end.
THEOREM ChunksCorrect == Spec => []ChunksAreUndone
<1>1. ReceivedInv /\ DecodedInv => ChunksAreUndone
  BY UndoneIs
<1> QED
  BY <1>1, ReceivedCorrect, PTL

\* The handlers' invariant, whether a request is one of Requests or an upload.
THEOREM FilesCorrect == Spec => []FilesInv
<1>1. UploadInit => FilesInv
  BY InitBase DEF UploadInit
<1>2. ReceivedInv /\ FilesInv /\ [UploadNext]_uploadVars => FilesInv'
  BY StepOfFiles, BaseStep, AcceptBase
<1> QED
  BY <1>1, <1>2, ReceivedCorrect, PTL DEF Spec

\* GetHandler, PostHandler, DeleteHandler: whatever the handlers do to the tree
\* and others at the same time, it stays a tree, and a handler that has returned
\* has closed the file or directory it opened.
THEOREM TypeCorrect == Spec => []TypeOK
<1>1. FilesInv => TypeOK
  BY DEF FilesInv
<1> QED
  BY <1>1, FilesCorrect, PTL

\* The invariant of an upload.
THEOREM UploadCorrect == Spec => []UploadInv
<1>1. UploadInit => UploadInv
  BY InitUpload DEF UploadInit
<1>2. ReceivedInv /\ FilesInv /\ UploadInv /\ [UploadNext]_uploadVars => UploadInv'
  BY StepOfFiles, UploadStep, AcceptUpload
<1> QED
  BY <1>1, <1>2, ReceivedCorrect, FilesCorrect, PTL DEF Spec

\* PostHandler, FileManager::saveFile: what was acknowledged with 201 is in the
\* file until another process or request takes it away, the whole of it or, if
\* the close of the file failed, all but the last block.
THEOREM KeptCorrect == Spec => []AcknowledgedIsKept
<1>1. UploadInv => AcknowledgedIsKept
  BY DEF UploadInv
<1> QED
  BY <1>1, UploadCorrect, PTL

\* PostHandler, FileManager::saveFile: an upload that failed has left the old
\* file or the beginning of the new one, never a mixture.
THEOREM FailedCorrect == Spec => []FailedUploadIsPrefix
<1>1. UploadInv => FailedUploadIsPrefix
  BY DEF UploadInv
<1> QED
  BY <1>1, UploadCorrect, PTL

\* FileManager::generateDirectoryListing: an entry that was in the directory all
\* the time is listed, and nothing is listed that was never in it, whatever
\* others create, remove and replace between the calls of readdir and stat. The
\* first needs that opendir, readdir and the stat of the entries did not fail.
THEOREM ListingCorrect == Spec => []ListingIsFaithful
<1>1. UploadInit => ListingInv
  BY InitListing DEF UploadInit
<1>2. ReceivedInv /\ FilesInv /\ ListingInv /\ [UploadNext]_uploadVars => ListingInv'
  BY StepOfFiles, ListingStep, AcceptListing
<1>3. ListingInv => ListingIsFaithful
  BY DEF ListingInv
<1> QED
  BY <1>1, <1>2, <1>3, ReceivedCorrect, FilesCorrect, PTL DEF Spec

\* GetHandler, DeleteHandler: with one change by others between their system
\* calls the answer is 500 or what a handler that works in a single moment would
\* have answered, before the change or after it; a file's content is whole. A
\* stat that fails is taken for a missing file and not covered.
THEOREM AnswerCorrect == Spec => []AnswerWasTrue
<1>1. UploadInit => AnswerInv
  BY InitAnswer DEF UploadInit
<1>2. ReceivedInv /\ FilesInv /\ AnswerInv /\ [UploadNext]_uploadVars => AnswerInv'
  BY StepOfFiles, AnswerStep, AcceptTrue
<1>3. AnswerInv => AnswerWasTrue
  BY DEF AnswerInv
<1> QED
  BY <1>1, <1>2, <1>3, ReceivedCorrect, FilesCorrect, PTL DEF Spec

\* What an answer says of the upload it answers.
THEOREM OutcomeCorrect == Spec => []OutcomeInv
<1>1. UploadInit => OutcomeInv
  BY InitOutcome DEF UploadInit
<1>2. ReceivedInv /\ FilesInv /\ OutcomeInv /\ [UploadNext]_uploadVars => OutcomeInv'
  BY StepOfFiles, OutcomeStep, AcceptOutcome
<1> QED
  BY <1>1, <1>2, ReceivedCorrect, FilesCorrect, PTL DEF Spec

\* From the wire to the disk: tryParseChunkedBody, decodeChunkedBody,
\* MultipartFormDataParser, PostHandler and FileManager::saveFile together store
\* exactly the first file that was sent, or the whole body, however it was cut
\* into chunks and whatever parts are around it, or answer another status than
\* 201; only after a failing close the last block is missing in spite of the
\* 201. An upload with something to store is never refused as if it had nothing.
THEOREM StoredCorrect == Spec => []StoredIsSent
<1>1. UploadInit => SentInv
  BY SentInit
<1>2. ReceivedInv /\ DecodedInv /\ FilesInv /\ SentInv /\ [UploadNext]_uploadVars => SentInv'
  BY SentStep
<1>3. SentInv /\ OutcomeInv /\ AcknowledgedIsKept => StoredIsSent
  BY StoredIs
<1> QED
  BY <1>1, <1>2, <1>3, ReceivedCorrect, FilesCorrect, OutcomeCorrect, KeptCorrect, PTL DEF Spec
=============================================================================
