----------------------------- MODULE WordProofs -----------------------------
(***************************************************************************)
(* Words, and the flags that stand for a word by themselves: what the      *)
(* encoder chooses for a word, for bytes and words of any size, and what   *)
(* the decoder makes of it.                                                *)
(***************************************************************************)
EXTENDS RoundTrip, NumberProofs, SequenceTheorems

----------------------------------------------------------------------------
(* Powers of the base, and the numbers of bytes they are known for *)

Sizes == 0 .. 4 \cup 0 .. WordBytes

LEMMA Powers ==
    /\ ByteBase \in Nat /\ ByteBase >= 2 /\ WordBytes \in Nat /\ WordBytes \in Sizes
    /\ \A n \in Sizes : n \in Nat /\ ByteBase ^ n \in Nat \ {0}
    /\ \A n \in Sizes : n # 0 => n - 1 \in Sizes /\ ByteBase ^ n = ByteBase * ByteBase ^ (n - 1)
    /\ \A n \in Sizes : \A k \in 0 .. n : k \in Sizes
  <1>1. ByteBase \in Nat /\ ByteBase >= 2 /\ WordBytes \in Nat
    BY FlagsAssumption, PowersAssumption
  <1>2. /\ WordBytes \in Sizes
        /\ \A n \in Sizes : n \in Nat
        /\ \A n \in Sizes : n # 0 => n - 1 \in Sizes
        /\ \A n \in Sizes : \A k \in 0 .. n : k \in Sizes
    BY <1>1 DEF Sizes
  <1>3. \A n \in Sizes : n # 0 => ByteBase ^ n = ByteBase * ByteBase ^ (n - 1)
    BY <1>1, PowersAssumption DEF Sizes
  <1>4. ASSUME NEW n \in Sizes
        PROVE  ByteBase ^ n \in Nat \ {0}
    <2> DEFINE S == {k \in 0 .. n : ByteBase ^ k \in Nat \ {0}}
    <2>1. 0 \in S
      BY <1>2, PowersAssumption
    <2>2. ASSUME NEW k \in 0 .. n - 1, k \in S
          PROVE  k + 1 \in S
      <3>1. k + 1 \in Sizes /\ k + 1 # 0 /\ k + 1 \in 0 .. n /\ k + 1 - 1 = k
        BY <1>2
      <3>2. ByteBase ^ (k + 1) = ByteBase * ByteBase ^ k
        BY <1>3, <3>1
      <3>3. ByteBase * ByteBase ^ k \in Nat \ {0}
        BY <1>1, <2>2
      <3>4. QED
        BY <3>1, <3>2, <3>3
    <2>3. 0 .. n \subseteq S
      <3> HIDE DEF S
      <3>1. n \in Nat
        BY <1>2
      <3>2. QED
        BY <2>1, <2>2, <3>1, CountingUp
    <2>4. QED
      BY <1>2, <2>3
  <1>5. QED
    BY <1>1, <1>2, <1>3, <1>4

----------------------------------------------------------------------------
(* The number that bytes are the digits of *)

(* What it is after k of the digits. *)
IsHorner(f, s) ==
    /\ f \in [0 .. Len(s) -> Nat]
    /\ f[0] = 0
    /\ \A k \in 1 .. Len(s) : f[k] = ByteBase * f[k - 1] + s[k]

LEMMA ValueIsHorner ==
    ASSUME NEW s \in Seq(Nat)
    PROVE  \E f : IsHorner(f, s) /\ Value(s) = f[Len(s)]
  <1> DEFINE Step(f, k) == IF k = 0 THEN 0 ELSE ByteBase * f[k - 1] + s[k]
             Upto(f, n) == f \in [0 .. n -> Nat] /\ \A k \in 0 .. n : f[k] = Step(f, k)
             S == {n \in 0 .. Len(s) : \E f : Upto(f, n)}
  <1>1. 0 \in S
    <2>1. Upto([k \in 0 .. 0 |-> 0], 0)
      OBVIOUS
    <2>2. 0 \in 0 .. Len(s)
      OBVIOUS
    <2>3. QED
      <3> HIDE DEF Upto
      <3>1. QED
        BY <2>1, <2>2
  <1>2. ASSUME NEW n \in 0 .. Len(s) - 1, n \in S
        PROVE  n + 1 \in S
    <2>1. PICK f : Upto(f, n)
      BY <1>2
    <2> DEFINE g == [k \in 0 .. n + 1 |-> IF k = n + 1 THEN ByteBase * f[n] + s[n + 1] ELSE f[k]]
    <2>2. n + 1 \in 1 .. Len(s) /\ s[n + 1] \in Nat /\ f[n] \in Nat /\ ByteBase \in Nat
      BY <2>1, Powers
    <2>3. g \in [0 .. n + 1 -> Nat]
      BY <2>1, <2>2
    <2>4. \A k \in 0 .. n + 1 : g[k] = Step(g, k)
      <3> SUFFICES ASSUME NEW k \in 0 .. n + 1
                   PROVE  g[k] = Step(g, k)
        OBVIOUS
      <3>1. CASE k = n + 1
        BY <2>2, <3>1
      <3>2. CASE k \in 0 .. n
        <4>1. f[k] = Step(f, k)
          BY <2>1, <3>2
        <4>2. k # 0 => g[k - 1] = f[k - 1]
          BY <3>2
        <4>3. QED
          BY <3>2, <4>1, <4>2
      <3>3. QED
        BY <3>1, <3>2
    <2>5. Upto(g, n + 1)
      BY <2>3, <2>4
    <2>6. QED
      <3> HIDE DEF Upto
      <3>1. n + 1 \in 0 .. Len(s)
        BY <2>2
      <3>2. QED
        BY <2>5, <3>1
  <1>3. PICK f : Upto(f, Len(s))
    <2>1. 0 .. Len(s) \subseteq S
      <3> HIDE DEF S
      <3>1. Len(s) \in Nat
        OBVIOUS
      <3>2. QED
        BY <1>1, <1>2, <3>1, CountingUp
    <2>2. Len(s) \in 0 .. Len(s)
      OBVIOUS
    <2>3. QED
      BY <2>1, <2>2
  <1> DEFINE P(g) == g = [k \in 0 .. Len(s) |-> IF k = 0 THEN 0 ELSE ByteBase * g[k - 1] + s[k]]
             h == CHOOSE g : P(g)
  <1>4. P(f)
    BY <1>3
  <1>5. P(h)
    BY <1>4, Zenon DEF h
  <1>6. Value(s) = h[Len(s)]
    BY Zenon DEF Value, h, P
  <1>7. h \in [0 .. Len(s) -> Nat]
    <2> HIDE DEF h
    <2> DEFINE T == {k \in 0 .. Len(s) : h[k] \in Nat}
    <2>1. 0 \in T
      BY <1>5
    <2>2. ASSUME NEW k \in 0 .. Len(s) - 1, k \in T
          PROVE  k + 1 \in T
      <3>1. k + 1 \in 1 .. Len(s) /\ s[k + 1] \in Nat /\ k + 1 - 1 = k
        OBVIOUS
      <3>2. h[k + 1] = ByteBase * h[k] + s[k + 1]
        BY <1>5, <3>1
      <3>3. ByteBase * h[k] + s[k + 1] \in Nat
        BY <2>2, <3>1, Powers
      <3>4. QED
        BY <3>1, <3>2, <3>3
    <2>3. 0 .. Len(s) \subseteq T
      <3> HIDE DEF T
      <3>1. Len(s) \in Nat
        OBVIOUS
      <3>2. QED
        BY <2>1, <2>2, <3>1, CountingUp
    <2>4. h = [k \in 0 .. Len(s) |-> h[k]]
      <3>1. DOMAIN h = 0 .. Len(s) /\ h = [k \in DOMAIN h |-> h[k]]
        BY <1>5, Zenon DEF P
      <3>2. QED
        BY <3>1
    <2>5. QED
      BY <2>3, <2>4
  <1>8. IsHorner(h, s)
    <2> HIDE DEF h
    <2>1. h[0] = 0
      BY <1>5
    <2>2. \A k \in 1 .. Len(s) : h[k] = ByteBase * h[k - 1] + s[k]
      BY <1>5
    <2>3. QED
      BY <1>7, <2>1, <2>2 DEF IsHorner
  <1>9. QED
    BY <1>6, <1>8

(* Bytes are the digits of the number they are. *)
LEMMA DigitsOfValue ==
    ASSUME NEW s \in Seq(Byte), Len(s) \in Sizes
    PROVE  /\ Value(s) \in Nat /\ Value(s) < ByteBase ^ Len(s)
           /\ Digits(Value(s), Len(s)) = s
  <1> DEFINE n == Len(s)
             B == ByteBase
  <1>1. /\ B \in Nat \ {0} /\ n \in Nat
        /\ \A k \in 0 .. n : k \in Sizes /\ B ^ k \in Nat \ {0}
        /\ \A k \in 0 .. n - 1 : B ^ (k + 1) = B * B ^ k
    <2>1. B \in Nat \ {0} /\ n \in Nat
      BY Powers
    <2>2. \A k \in 0 .. n : k \in Sizes /\ B ^ k \in Nat \ {0}
      BY Powers
    <2>3. ASSUME NEW k \in 0 .. n - 1
          PROVE  B ^ (k + 1) = B * B ^ k
      <3>1. k + 1 \in 0 .. n /\ k + 1 # 0 /\ k + 1 - 1 = k
        BY <2>1
      <3>2. QED
        BY <2>2, <3>1, Powers
    <2>4. QED
      BY <2>1, <2>2, <2>3
  <1>2. s \in Seq(Nat) /\ \A k \in 1 .. n : s[k] \in 0 .. B - 1
    BY <1>1 DEF Byte
  <1>3. PICK f : IsHorner(f, s) /\ Value(s) = f[n]
    BY <1>2, ValueIsHorner
  <1>4. \A k \in 0 .. n : f[k] \in Nat
    BY <1>3 DEF IsHorner
  <1>5. \A k \in 1 .. n : f[k] = f[k - 1] * B + s[k]
    <2> SUFFICES ASSUME NEW k \in 1 .. n
                 PROVE  f[k] = f[k - 1] * B + s[k]
      OBVIOUS
    <2>1. k - 1 \in 0 .. n /\ f[k] = B * f[k - 1] + s[k]
      BY <1>3 DEF IsHorner
    <2>2. B * f[k - 1] = f[k - 1] * B
      BY <1>1, <1>4, <2>1
    <2>3. QED
      BY <2>1, <2>2
  <1> HIDE DEF n, B
  <1>6. \A k \in 0 .. n : f[k] < B ^ k
    <2> DEFINE S == {k \in 0 .. n : f[k] < B ^ k}
    <2>1. 0 \in S
      <3>1. f[0] = 0 /\ B ^ 0 \in Nat \ {0}
        BY <1>1, <1>3 DEF IsHorner
      <3>2. QED
        BY <1>1, <3>1
    <2>2. ASSUME NEW k \in 0 .. n - 1, k \in S
          PROVE  k + 1 \in S
      <3>1. k + 1 \in 1 .. n /\ k + 1 - 1 = k /\ k \in 0 .. n /\ k + 1 \in 0 .. n
        BY <1>1
      <3>2. f[k + 1] = f[k] * B + s[k + 1] /\ B ^ (k + 1) = B * B ^ k
        BY <1>1, <1>5, <3>1
      <3>3. f[k] \in Nat /\ B ^ k \in Nat /\ f[k] + 1 <= B ^ k
        BY <1>1, <1>4, <2>2, <3>1
      <3>4. s[k + 1] \in 0 .. B - 1
        BY <1>2, <3>1
      <3> DEFINE p == B ^ k
      <3> HIDE DEF p
      <3>5. f[k] < p /\ p \in Nat /\ B \in Nat
        BY <1>1, <3>3 DEF p
      <3>6. f[k] * B + s[k + 1] < B * p
        BY <3>3, <3>4, <3>5, OneDigitMore
      <3>7. QED
        BY <3>1, <3>2, <3>6 DEF p
    <2>3. 0 .. n \subseteq S
      <3> HIDE DEF S
      <3>1. QED
        BY <1>1, <2>1, <2>2, CountingUp
    <2>4. QED
      BY <2>3
  <1>7. \A j \in 0 .. n : f[n] \div B ^ j = f[n - j]
    <2> DEFINE S == {j \in 0 .. n : f[n] \div B ^ j = f[n - j]}
    <2>1. 0 \in S
      <3>1. B ^ 0 = 1 /\ f[n] \in Nat
        BY <1>1, <1>4, PowersAssumption DEF B
      <3>2. QED
        BY <1>1, <3>1
    <2>2. ASSUME NEW j \in 0 .. n - 1, j \in S
          PROVE  j + 1 \in S
      <3>1. j + 1 \in 0 .. n /\ n - j \in 1 .. n /\ n - (j + 1) = n - j - 1 /\ n - j - 1 \in 0 .. n
        BY <1>1
      <3>2. B ^ (j + 1) = B * B ^ j /\ f[n] \in Nat /\ B ^ j \in Nat \ {0}
        BY <1>1, <1>4, <3>1
      <3>3. f[n] \div B ^ (j + 1) = (f[n] \div B ^ j) \div B
        <4> DEFINE q == B ^ j
                   v == f[n]
        <4>1. v \in Nat /\ q \in Nat \ {0} /\ B ^ (j + 1) = B * q
          BY <3>2
        <4> HIDE DEF q, v
        <4>2. v \div (B * q) = (v \div q) \div B
          BY <1>1, <4>1, DivideTwice
        <4>3. QED
          BY <4>1, <4>2 DEF q, v
      <3>4. f[n - j] = f[n - j - 1] * B + s[n - j]
        BY <1>5, <3>1
      <3>5. f[n - j] \div B = f[n - j - 1]
        <4> DEFINE a == f[n - j - 1]
                   r == s[n - j]
        <4>1. a \in Nat /\ r \in 0 .. B - 1 /\ f[n - j] = a * B + r
          BY <1>2, <1>4, <3>1, <3>4
        <4> HIDE DEF a, r
        <4>2. (a * B + r) \div B = a
          BY <1>1, <4>1, QuotientAndRemainder
        <4>3. QED
          BY <4>1, <4>2 DEF a
      <3>6. QED
        BY <2>2, <3>1, <3>3, <3>5
    <2>3. 0 .. n \subseteq S
      <3> HIDE DEF S
      <3>1. QED
        BY <1>1, <2>1, <2>2, CountingUp
    <2>4. QED
      BY <2>3
  <1>8. \A i \in 1 .. n : (f[n] \div B ^ (n - i)) % B = s[i]
    <2> SUFFICES ASSUME NEW i \in 1 .. n
                 PROVE  (f[n] \div B ^ (n - i)) % B = s[i]
      OBVIOUS
    <2>1. n - i \in 0 .. n /\ n - (n - i) = i /\ i - 1 \in 0 .. n
      BY <1>1
    <2>2. f[n] \div B ^ (n - i) = f[i]
      BY <1>7, <2>1
    <2>3. (f[i - 1] * B + s[i]) % B = s[i]
      BY <1>1, <1>2, <1>4, <2>1, QuotientAndRemainder
    <2>4. QED
      BY <1>5, <2>2, <2>3
  <1>9. Digits(Value(s), Len(s)) = s
    <2>1. Digits(Value(s), Len(s)) = [i \in 1 .. n |-> (f[n] \div B ^ (n - i)) % B]
      BY <1>3 DEF Digits, n, B
    <2>2. s = [i \in 1 .. n |-> s[i]]
      BY DEF n
    <2>3. QED
      BY <1>8, <2>1, <2>2
  <1>10. Value(s) \in Nat /\ Value(s) < B ^ n
    BY <1>1, <1>3, <1>4, <1>6
  <1>11. QED
    BY <1>9, <1>10 DEF n, B

(* A number that some digits are enough for is what they say. *)
LEMMA ValueOfDigits ==
    ASSUME NEW n \in Sizes, NEW v \in Nat, v < ByteBase ^ n
    PROVE  /\ Digits(v, n) \in Seq(Byte) /\ Len(Digits(v, n)) = n
           /\ Value(Digits(v, n)) = v
  <1> DEFINE B == ByteBase
             s == Digits(v, n)
  <1>1. /\ B \in Nat \ {0} /\ n \in Nat
        /\ \A k \in 0 .. n : B ^ k \in Nat \ {0}
        /\ \A k \in 0 .. n - 1 : B ^ (n - k) = B * B ^ (n - (k + 1))
    <2>1. B \in Nat \ {0} /\ n \in Nat
      BY Powers
    <2>2. \A k \in 0 .. n : B ^ k \in Nat \ {0}
      BY Powers
    <2>3. ASSUME NEW k \in 0 .. n - 1
          PROVE  B ^ (n - k) = B * B ^ (n - (k + 1))
      <3>1. n - k \in 0 .. n /\ n - k # 0 /\ n - k - 1 = n - (k + 1)
        BY <2>1
      <3>2. n - k \in Sizes
        BY <3>1, Powers
      <3>3. QED
        BY <3>1, <3>2, Powers
    <2>4. QED
      BY <2>1, <2>2, <2>3
  <1>2. \A i \in 1 .. n : (v \div B ^ (n - i)) \in Nat /\ (v \div B ^ (n - i)) % B \in 0 .. B - 1
    <2> SUFFICES ASSUME NEW i \in 1 .. n
                 PROVE  (v \div B ^ (n - i)) \in Nat /\ (v \div B ^ (n - i)) % B \in 0 .. B - 1
      OBVIOUS
    <2>1. n - i \in 0 .. n
      BY <1>1
    <2>2. B ^ (n - i) \in Nat \ {0}
      BY <1>1, <2>1
    <2>3. v \div B ^ (n - i) \in Nat
      BY <2>2, DivisionIsExact
    <2>4. QED
      BY <1>1, <2>3, DivisionIsExact
  <1>3. s = [i \in 1 .. n |-> (v \div B ^ (n - i)) % B]
    BY DEF Digits
  <1> HIDE DEF B, s
  <1>4. s \in Seq(Byte) /\ Len(s) = n /\ \A i \in 1 .. n : s[i] = (v \div B ^ (n - i)) % B
    <2>1. s \in [1 .. n -> Byte]
      BY <1>2, <1>3 DEF Byte, B
    <2>2. QED
      BY <1>1, <1>3, <2>1
  <1>5. PICK f : IsHorner(f, s) /\ Value(s) = f[n]
    <2>1. s \in Seq(Nat)
      BY <1>4, Powers DEF Byte
    <2>2. QED
      BY <1>4, <2>1, ValueIsHorner
  <1>6. \A k \in 0 .. n : f[k] = v \div B ^ (n - k)
    <2> DEFINE S == {k \in 0 .. n : f[k] = v \div B ^ (n - k)}
    <2>1. 0 \in S
      <3>1. f[0] = 0 /\ n - 0 = n
        BY <1>1, <1>5 DEF IsHorner
      <3>2. v \div B ^ n = 0
        <4>1. v \in 0 .. B ^ n - 1 /\ B ^ n \in Nat
          BY <1>1 DEF B
        <4>2. (0 * B ^ n + v) \div B ^ n = 0
          BY <4>1, QuotientAndRemainder
        <4>3. 0 * B ^ n + v = v
          BY <4>1
        <4>4. QED
          BY <4>2, <4>3
      <3>3. QED
        BY <1>1, <3>1, <3>2
    <2>2. ASSUME NEW k \in 0 .. n - 1, k \in S
          PROVE  k + 1 \in S
      <3> DEFINE q == B ^ (n - (k + 1))
                 a == v \div q
      <3>1. k + 1 \in 1 .. n /\ k + 1 - 1 = k /\ n - (k + 1) \in 0 .. n /\ k + 1 \in 0 .. n
        BY <1>1
      <3>2. q \in Nat \ {0} /\ B ^ (n - k) = B * q
        BY <1>1, <3>1
      <3>3. a \in Nat
        BY <3>2, DivisionIsExact
      <3>4. s[k + 1] = a % B
        BY <1>4, <3>1
      <3> HIDE DEF q
      <3>5. f[k] = a \div B
        <4>1. v \div (B * q) = (v \div q) \div B
          BY <1>1, <3>2, DivideTwice
        <4>2. QED
          BY <2>2, <3>2, <4>1
      <3> HIDE DEF a
      <3>6. f[k + 1] = B * (a \div B) + (a % B)
        BY <1>4, <1>5, <3>1, <3>4, <3>5 DEF IsHorner, B
      <3>7. B * (a \div B) + (a % B) = a
        BY <1>1, <3>3
      <3>8. QED
        BY <3>1, <3>6, <3>7 DEF q, a
    <2>3. 0 .. n \subseteq S
      <3> HIDE DEF S
      <3>1. QED
        BY <1>1, <2>1, <2>2, CountingUp
    <2>4. QED
      BY <2>3
  <1>7. f[n] = v
    <2>1. B ^ 0 = 1 /\ n - n = 0 /\ n \in 0 .. n
      BY <1>1, PowersAssumption DEF B
    <2>2. f[n] = v \div 1
      BY <1>6, <2>1
    <2>3. QED
      BY <2>2
  <1>8. QED
    BY <1>4, <1>5, <1>7 DEF s

(* A byte by itself. *)
LEMMA ValueOfByte ==
    ASSUME NEW e \in Nat
    PROVE  Value(<<e>>) = e
  <1> DEFINE s == <<e>>
  <1>1. s \in Seq(Nat) /\ Len(s) = 1 /\ s[1] = e
    OBVIOUS
  <1>2. PICK f : IsHorner(f, s) /\ Value(s) = f[Len(s)]
    BY <1>1, ValueIsHorner
  <1>3. f[0] = 0 /\ f[1] = ByteBase * f[0] + s[1]
    BY <1>1, <1>2 DEF IsHorner
  <1>4. f[1] = e
    BY <1>1, <1>3, Powers
  <1>5. QED
    BY <1>1, <1>2, <1>4

(* A word is the number it has the digits of, and that of zeros is zero. *)
LEMMA ValueOfWord ==
    ASSUME NEW w \in Word
    PROVE  /\ Value(w) \in Nat /\ Value(w) < WordBase
           /\ WordOf(Value(w)) = w
           /\ w = Zeros(WordBytes) => Value(w) = 0
  <1>1. w \in Seq(Byte) /\ Len(w) = WordBytes /\ WordBytes \in Sizes
    BY Powers DEF Word
  <1>2. /\ Value(w) \in Nat /\ Value(w) < ByteBase ^ WordBytes
        /\ Digits(Value(w), WordBytes) = w
    BY <1>1, DigitsOfValue
  <1>3. WordOf(Value(w)) = w
    <2>1. ByteBase ^ WordBytes \in Nat \ {0}
      BY Powers
    <2> DEFINE q == ByteBase ^ WordBytes
               v == Value(w)
    <2> HIDE DEF q, v
    <2>2. v % q = v
      BY <1>2, <2>1 DEF q, v
    <2>3. QED
      BY <1>2, <2>2 DEF WordOf, WordBase, q, v
  <1>4. ASSUME w = Zeros(WordBytes)
        PROVE  Value(w) = 0
    <2>1. Digits(0, WordBytes) = Zeros(WordBytes)
      <3>1. ASSUME NEW i \in 1 .. WordBytes
            PROVE  (0 \div ByteBase ^ (WordBytes - i)) % ByteBase = 0
        <4>1. WordBytes - i \in 0 .. WordBytes
          BY Powers
        <4>2. WordBytes - i \in Sizes
          BY <4>1, Powers
        <4>3. ByteBase ^ (WordBytes - i) \in Nat \ {0} /\ ByteBase \in Nat \ {0}
          BY <4>2, Powers
        <4> DEFINE q == ByteBase ^ (WordBytes - i)
        <4> HIDE DEF q
        <4>4. 0 \div q = 0
          BY <4>3 DEF q
        <4>5. QED
          BY <4>3, <4>4 DEF q
      <3>2. QED
        BY <3>1 DEF Digits, Zeros
    <2>2. 0 < ByteBase ^ WordBytes
      BY Powers
    <2>3. Value(Digits(0, WordBytes)) = 0
      BY <2>2, Powers, ValueOfDigits
    <2>4. QED
      BY <1>4, <2>1, <2>3
  <1>5. QED
    BY <1>2, <1>3, <1>4 DEF WordBase

----------------------------------------------------------------------------
(* Padding, and leaving out what padding gives back *)

(* Where the bytes that are left of a word after its leading zeros start. *)
LEMMA PadIs ==
    ASSUME NEW s \in Seq(Byte), Len(s) <= WordBytes
    PROVE  /\ Pad(s) = [i \in 1 .. WordBytes |->
                          IF i <= WordBytes - Len(s) THEN 0 ELSE s[i - (WordBytes - Len(s))]]
           /\ PadRight(s) = [i \in 1 .. WordBytes |-> IF i <= Len(s) THEN s[i] ELSE 0]
           /\ Pad(s) \in Word /\ PadRight(s) \in Word
  <1> DEFINE n == Len(s)
             k == WordBytes - n
  <1>1. n \in Nat /\ k \in Nat /\ n + k = WordBytes /\ 0 \in Byte
    BY Powers DEF Byte
  <1>2. Zeros(k) \in Seq(Byte) /\ Len(Zeros(k)) = k /\ \A i \in 1 .. k : Zeros(k)[i] = 0
    BY <1>1 DEF Zeros
  <1> HIDE DEF k
  <1>3. Zeros(k) \o s = [i \in 1 .. k + n |-> IF i <= k THEN 0 ELSE s[i - k]]
    <2> DEFINE z == Zeros(k)
               t == z \o s
    <2> HIDE DEF z
    <2>1. z \in Seq(Byte) /\ Len(z) = k
      BY <1>2 DEF z
    <2>2. /\ t \in Seq(Byte) /\ Len(t) = k + n
          /\ \A i \in 1 .. k + n : t[i] = IF i <= k THEN z[i] ELSE s[i - k]
      BY <1>1, <2>1, ConcatProperties
    <2> HIDE DEF t
    <2>3. t = [i \in 1 .. k + n |-> t[i]]
      BY <2>2
    <2>4. \A i \in 1 .. k + n : t[i] = IF i <= k THEN 0 ELSE s[i - k]
      BY <1>1, <1>2, <2>2 DEF z
    <2>5. QED
      BY <2>3, <2>4 DEF t, z
  <1>4. s \o Zeros(k) = [i \in 1 .. n + k |-> IF i <= n THEN s[i] ELSE 0]
    <2> DEFINE z == Zeros(k)
               t == s \o z
    <2> HIDE DEF z
    <2>1. z \in Seq(Byte) /\ Len(z) = k
      BY <1>2 DEF z
    <2>2. /\ t \in Seq(Byte) /\ Len(t) = n + k
          /\ \A i \in 1 .. n + k : t[i] = IF i <= n THEN s[i] ELSE z[i - n]
      BY <1>1, <2>1, ConcatProperties
    <2> HIDE DEF t
    <2>3. t = [i \in 1 .. n + k |-> t[i]]
      BY <2>2
    <2>4. \A i \in 1 .. n + k : ~ (i <= n) => i - n \in 1 .. k
      BY <1>1
    <2>5. \A i \in 1 .. n + k : t[i] = IF i <= n THEN s[i] ELSE 0
      BY <1>1, <1>2, <2>2, <2>4 DEF z
    <2>6. QED
      BY <2>3, <2>5 DEF t, z
  <1>5. \A i \in 1 .. k + n : ~ (i <= k) => s[i - k] \in Byte
    BY <1>1
  <1>6. \A i \in 1 .. n + k : i <= n => s[i] \in Byte
    BY <1>1
  <1>7. /\ [i \in 1 .. k + n |-> IF i <= k THEN 0 ELSE s[i - k]] \in [1 .. WordBytes -> Byte]
        /\ [i \in 1 .. n + k |-> IF i <= n THEN s[i] ELSE 0] \in [1 .. WordBytes -> Byte]
    BY <1>1, <1>5, <1>6
  <1>8. k + n = WordBytes /\ n + k = WordBytes
    BY <1>1
  <1>9. QED
    BY <1>3, <1>4, <1>7, <1>8 DEF Pad, PadRight, Word, k

(* What is left of a word without its leading zeros is enough to tell it. *)
LEMMA TrimmedLeft ==
    ASSUME NEW w \in Word
    PROVE  /\ TrimLeft(w) \in Seq(Byte) /\ Len(TrimLeft(w)) \in 0 .. WordBytes
           /\ Pad(TrimLeft(w)) = w
           /\ w # Zeros(WordBytes) => TrimLeft(w) # << >>
  <1> DEFINE n == WordBytes
             S == {i \in DOMAIN w : w[i] # 0} \cup {Len(w) + 1}
             m == Min(S)
             s == TrimLeft(w)
  <1>1. n \in Nat /\ w \in Seq(Byte) /\ Len(w) = n /\ DOMAIN w = 1 .. n
    BY Powers DEF Word
  <1>2. m \in 1 .. n + 1 /\ (m = n + 1 \/ w[m] # 0) /\ \A i \in 1 .. n : i < m => w[i] = 0
    <2>1. S \subseteq 1 .. n + 1 /\ S # {}
      BY <1>1
    <2>2. m \in S /\ \A y \in S : m <= y
      <3> HIDE DEF S
      <3>1. S \subseteq Nat
        BY <1>1, <2>1
      <3>2. QED
        BY <2>1, <3>1, MinIsLeast
    <2> HIDE DEF m
    <2>3. QED
      BY <1>1, <2>1, <2>2
  <1>3. s = SubSeq(w, m, n)
    BY <1>1 DEF TrimLeft
  <1> HIDE DEF m, s
  <1>4. s = [i \in 1 .. n - m + 1 |-> w[m + i - 1]] /\ Len(s) = n - m + 1 /\ s \in Seq(Byte)
    BY <1>1, <1>2, <1>3
  <1>5. Pad(s) = w
    <2>1. Pad(s) = [i \in 1 .. n |-> IF i <= n - Len(s) THEN 0 ELSE s[i - (n - Len(s))]]
      <3>1. s \in Seq(Byte) /\ Len(s) <= WordBytes
        BY <1>1, <1>2, <1>4
      <3>2. QED
        BY <3>1, PadIs
    <2>2. ASSUME NEW i \in 1 .. n
          PROVE  (IF i <= n - Len(s) THEN 0 ELSE s[i - (n - Len(s))]) = w[i]
      <3>1. n - Len(s) = m - 1
        BY <1>1, <1>2, <1>4
      <3>2. CASE i <= m - 1
        BY <1>2, <3>1, <3>2
      <3>3. CASE ~ (i <= m - 1)
        <4>1. i - (m - 1) \in 1 .. n - m + 1 /\ m + (i - (m - 1)) - 1 = i
          BY <1>1, <1>2, <3>3
        <4>2. s[i - (m - 1)] = w[i]
          BY <1>4, <4>1
        <4>3. QED
          BY <3>1, <3>3, <4>2
      <3>4. QED
        BY <3>2, <3>3
    <2>3. w = [i \in 1 .. n |-> w[i]]
      BY <1>1
    <2>4. QED
      BY <2>1, <2>2, <2>3
  <1>6. ASSUME w # Zeros(n)
        PROVE  s # << >>
    <2>1. PICK i \in 1 .. n : w[i] # 0
      BY <1>1, <1>6 DEF Zeros, Word
    <2>2. m <= i
      BY <1>1, <1>2, <2>1
    <2>3. QED
      BY <1>1, <1>2, <1>4, <2>2
  <1>7. QED
    BY <1>1, <1>2, <1>4, <1>5, <1>6 DEF s

(* And so is what is left of it without the zeros at its end. *)
LEMMA TrimmedRight ==
    ASSUME NEW w \in Word
    PROVE  /\ TrimRight(w) \in Seq(Byte) /\ Len(TrimRight(w)) \in 0 .. WordBytes
           /\ PadRight(TrimRight(w)) = w
           /\ w # Zeros(WordBytes) => TrimRight(w) # << >>
  <1> DEFINE n == WordBytes
             S == {i \in 1 .. Len(w) : w[Len(w) + 1 - i] # 0} \cup {Len(w) + 1}
             m == Min(S)
             s == TrimRight(w)
  <1>1. n \in Nat /\ w \in Seq(Byte) /\ Len(w) = n /\ DOMAIN w = 1 .. n
    BY Powers DEF Word
  <1>2. m \in 1 .. n + 1 /\ \A i \in 1 .. n : i < m => w[n + 1 - i] = 0
    <2>1. S \subseteq 1 .. n + 1 /\ S # {}
      BY <1>1
    <2>2. m \in S /\ \A y \in S : m <= y
      <3> HIDE DEF S
      <3>1. S \subseteq Nat
        BY <1>1, <2>1
      <3>2. QED
        BY <2>1, <3>1, MinIsLeast
    <2> HIDE DEF m
    <2>3. QED
      BY <1>1, <2>1, <2>2
  <1>3. s = SubSeq(w, 1, n + 1 - m)
    BY <1>1 DEF TrimRight
  <1> HIDE DEF m, s
  <1>4. s = [i \in 1 .. n + 1 - m |-> w[i]] /\ Len(s) = n + 1 - m /\ s \in Seq(Byte)
    BY <1>1, <1>2, <1>3
  <1>5. PadRight(s) = w
    <2>1. PadRight(s) = [i \in 1 .. n |-> IF i <= Len(s) THEN s[i] ELSE 0]
      <3>1. s \in Seq(Byte) /\ Len(s) <= WordBytes
        BY <1>1, <1>2, <1>4
      <3>2. QED
        BY <3>1, PadIs
    <2>2. ASSUME NEW i \in 1 .. n
          PROVE  (IF i <= Len(s) THEN s[i] ELSE 0) = w[i]
      <3>1. CASE i <= n + 1 - m
        BY <1>1, <1>2, <1>4, <3>1
      <3>2. CASE ~ (i <= n + 1 - m)
        <4>1. n + 1 - i \in 1 .. n /\ n + 1 - i < m /\ n + 1 - (n + 1 - i) = i
          BY <1>1, <1>2, <3>2
        <4>2. w[i] = 0
          BY <1>2, <4>1
        <4>3. QED
          BY <1>4, <3>2, <4>2
      <3>3. QED
        BY <3>1, <3>2
    <2>3. w = [i \in 1 .. n |-> w[i]]
      BY <1>1
    <2>4. QED
      BY <2>1, <2>2, <2>3
  <1>6. ASSUME w # Zeros(n)
        PROVE  s # << >>
    <2>1. PICK i \in 1 .. n : w[i] # 0
      BY <1>1, <1>6 DEF Zeros, Word
    <2>2. n + 1 - i \in 1 .. n /\ n + 1 - (n + 1 - i) = i
      BY <1>1
    <2>3. m <= n + 1 - i
      BY <1>1, <1>2, <2>1, <2>2
    <2>4. QED
      BY <1>1, <1>2, <1>4, <2>3
  <1>7. QED
    BY <1>1, <1>2, <1>4, <1>5, <1>6 DEF s

----------------------------------------------------------------------------
(* The decoder: a flag is read *)

(* The flags that do not stand for a word by themselves. *)
OtherFlags == {FLAG_NO_OP} \cup {Flag(n) : n \in 2 .. 5 \cup 14 .. 15 \cup 21 .. 56}

LEMMA FlagNumbers ==
    /\ FLAG_NO_OP \in Nat /\ FLAG_READ_WORD(WordBytes) \in Nat
    /\ \A n : FLAG_READ_WORD(n) = FLAG_NO_OP + n
    /\ \A n : Flag(n) = FLAG_READ_WORD(WordBytes) + n
    /\ Opcode \in OtherFlags =>
          \/ Opcode = FLAG_NO_OP
          \/ \E n \in 2 .. 5 \cup 14 .. 15 \cup 21 .. 56 :
                Opcode = FLAG_READ_WORD(WordBytes) + n
  <1>1. FLAG_NO_OP \in Nat /\ \A n : FLAG_READ_WORD(n) = FLAG_NO_OP + n
    BY Powers DEF FLAG_NO_OP, FLAG_READ_WORD
  <1>2. FLAG_READ_WORD(WordBytes) \in Nat
    BY <1>1, Powers
  <1>3. \A n : Flag(n) = FLAG_READ_WORD(WordBytes) + n
    BY DEF Flag
  <1>4. QED
    BY <1>1, <1>2, <1>3 DEF OtherFlags

(* Only one action reads a flag. *)
LEMMA FlagTellsAction ==
    ASSUME DecompressorStep, pc = "flag"
    PROVE  /\ made' = made
           /\ \/ Literal /\ Opcode >= LITERAL_ZERO
              \/ ReadWord /\ Opcode \in FLAG_READ_WORD(1) .. FLAG_READ_WORD(WordBytes)
              \/ ReadWordInv /\ Opcode = FLAG_READ_WORD_INV
              \/ SaveAddress /\ Opcode = FLAG_SAVE_ADDRESS
              \/ ReadAddress /\ Opcode \in FLAG_READ_ADDRESS(2) .. FLAG_READ_ADDRESS(4)
              \/ SaveBytes32 /\ Opcode = FLAG_SAVE_BYTES32
              \/ ReadBytes32 /\ Opcode \in FLAG_READ_BYTES32(2) .. FLAG_READ_BYTES32(4)
              \/ ReadPow2 /\ Opcode = FLAG_POW_2
              \/ ReadPow2Minus1 /\ Opcode = FLAG_POW_2_MINUS_1
              \/ ReadPow10 /\ Opcode = FLAG_POW_10
              \/ ReadMantissaS /\ Opcode = FLAG_POW_10_MANTISSA_S
              \/ ReadMantissaL /\ Opcode = FLAG_POW_10_MANTISSA_L
              \/ Opcode \in OtherFlags
  <1>1. /\ FLAG_READ_WORD(WordBytes) \in Nat /\ FLAG_NO_OP \in Nat /\ WordBytes \in Nat
        /\ \A n : FLAG_READ_WORD(n) = FLAG_NO_OP + n
        /\ \A n : Flag(n) = FLAG_READ_WORD(WordBytes) + n
    BY FlagNumbers, Powers
  <1>2. \A n \in 2 .. 5 \cup 14 .. 15 \cup 21 .. 56 : Flag(n) \in OtherFlags
    BY DEF OtherFlags
  <1>3. FLAG_NO_OP \in OtherFlags
    BY DEF OtherFlags
  <1>4. ~ (ReturnOutput \/ NextDecoded \/ NoMoreDecoded
              \/ Perform \/ NextPerformed \/ NoMorePerformed)
    BY DEF ReturnOutput, NextDecoded, NoMoreDecoded, Perform, NextPerformed, NoMorePerformed,
           CallIsReady, Waits
  <1>5. made' = made /\ (FlagStep \/ SequenceStep)
    BY <1>4 DEF DecompressorStep
  <1>6. CASE FlagStep
    <2>1. ~ (NextFlag \/ NoMoreFlags \/ MirrorEnds \/ CopyBytes \/ PadBytes
                \/ ReadStaticParam \/ ReadDynamicParam \/ NextParam \/ NoMoreParams)
      BY DEF NextFlag, NoMoreFlags, MirrorEnds, CopyBytes, PadBytes,
             ReadStaticParam, ReadDynamicParam, NextParam, NoMoreParams, Waits
    <2>2. CASE NoOp \/ WriteZeros \/ CopyCalldataS \/ CopyCalldataL \/ CopyCalldataXL
               \/ ReadStoreFlagS \/ ReadStoreFlagL \/ MirrorFlagS \/ MirrorFlagL
      <3>1. Opcode \in {FLAG_NO_OP, Flag(3), Flag(31), Flag(32), Flag(33), Flag(14), Flag(15),
                        Flag(29), Flag(30)}
        BY <2>2 DEF NoOp, WriteZeros, CopyCalldataS, CopyCalldataL, CopyCalldataXL, CopyCalldata,
                    ReadStoreFlagS, ReadStoreFlagL, ReadStoreFlag, MirrorFlagS, MirrorFlagL,
                    MirrorFlag, Reading, FLAG_WRITE_ZEROS, FLAG_COPY_CALLDATA_S,
                    FLAG_COPY_CALLDATA_L, FLAG_COPY_CALLDATA_XL, FLAG_READ_STORE_FLAG_S,
                    FLAG_READ_STORE_FLAG_L, FLAG_MIRROR_FLAG_S, FLAG_MIRROR_FLAG_L
      <3>2. QED
        BY <1>2, <1>3, <1>5, <3>1
    <2>3. CASE NestedFlagsS \/ NestedFlagsL \/ ReadNBytes \/ ReadDynamicAbi
      <3>1. Opcode \in {Flag(4), Flag(5), Flag(2), Flag(28)}
        BY <2>3 DEF NestedFlagsS, NestedFlagsL, NestedFlags, ReadNBytes, ReadDynamicAbi,
                    Reading, FLAG_NESTED_N_FLAGS_S, FLAG_NESTED_N_FLAGS_L, FLAG_READ_N_BYTES,
                    FLAG_READ_DYNAMIC_ABI
      <3>2. QED
        BY <1>2, <1>5, <3>1
    <2>4. CASE ReadAbi0 \/ ReadAbi
      <3>1. \E params \in 0 .. MaxParams : Opcode = Flag(21 + params)
        <4>1. 0 \in 0 .. MaxParams /\ \A params \in 1 .. MaxParams : params \in 0 .. MaxParams
          BY FlagsAssumption
        <4>2. ReadAbi0 => Opcode = Flag(21 + 0)
          BY DEF ReadAbi0, Reading, FLAG_ABI
        <4>3. ReadAbi => \E params \in 1 .. MaxParams : Opcode = Flag(21 + params)
          BY DEF ReadAbi, Reading, FLAG_ABI
        <4>4. QED
          BY <2>4, <4>1, <4>2, <4>3
      <3>2. \A params \in 0 .. MaxParams : 21 + params \in 21 .. 56
        BY FlagsAssumption
      <3>3. QED
        BY <1>2, <1>5, <3>1, <3>2
    <2>5. CASE Literal \/ ReadWord \/ ReadWordInv \/ ReadPow2 \/ ReadPow2Minus1 \/ ReadPow10
               \/ ReadMantissaS \/ ReadMantissaL
      <3>1. ReadWord => Opcode \in FLAG_READ_WORD(1) .. FLAG_READ_WORD(WordBytes)
        BY <1>1 DEF ReadWord, Reading
      <3>2. Literal => Opcode >= LITERAL_ZERO
        BY DEF Literal
      <3>3. QED
        BY <1>5, <2>5, <3>1, <3>2
           DEF ReadWordInv, ReadPow2, ReadPow2Minus1, ReadPow10, ReadMantissaS, ReadMantissaL,
               ReadMantissa, Reading
    <2>6. CASE SaveAddress \/ SaveBytes32 \/ ReadAddress \/ ReadBytes32
      <3>1. ReadAddress => Opcode \in FLAG_READ_ADDRESS(2) .. FLAG_READ_ADDRESS(4)
        BY <1>1 DEF ReadAddress, Reading, FLAG_READ_ADDRESS
      <3>2. ReadBytes32 => Opcode \in FLAG_READ_BYTES32(2) .. FLAG_READ_BYTES32(4)
        BY <1>1 DEF ReadBytes32, Reading, FLAG_READ_BYTES32
      <3>3. QED
        BY <1>5, <2>6, <3>1, <3>2 DEF SaveAddress, SaveBytes32, Reading
    <2>7. QED
      BY <1>6, <2>1, <2>2, <2>3, <2>4, <2>5, <2>6 DEF FlagStep
  <1>7. CASE SequenceStep
    <2>1. ~ (KeepLastBytes \/ WriteSize \/ ReadDynamicPart \/ NextChained \/ NoMoreChained
                \/ ReadSpace \/ ReadNonce \/ ReadExecuted \/ ReadTransactions \/ ReadTransaction
                \/ FieldIsFlag \/ FieldIsZero \/ FieldIsData \/ FieldIsNoData
                \/ NextTransaction \/ NoMoreTransactions \/ ReadExecutedSignature)
      BY DEF KeepLastBytes, WriteSize, ReadDynamicPart, NextChained, NoMoreChained,
             ReadSpace, ReadNonce, ReadExecuted, ReadTransactions, ReadTransaction,
             FieldIsFlag, FieldIsZero, FieldIsData, FieldIsNoData, WaitsForField,
             NextTransaction, NoMoreTransactions, ReadExecutedSignature, Waits
    <2>2. CASE SequenceSignature \/ SequenceAddress
      <3>1. \E w \in 0 .. 4 : Opcode = Flag(36 + w) \/ Opcode = Flag(41 + w)
        BY <2>2 DEF SequenceSignature, SequenceAddress, Reading,
                    FLAG_SEQUENCE_SIGNATURE, FLAG_SEQUENCE_ADDRESS
      <3>2. \A w \in 0 .. 4 : 36 + w \in 21 .. 56 /\ 41 + w \in 21 .. 56
        OBVIOUS
      <3>3. QED
        BY <1>2, <1>5, <3>1, <3>2
    <2>3. CASE SequenceNode \/ SequenceSubdigest \/ SequenceBranch \/ SequenceNested
               \/ SequenceDynamicSignature \/ SequenceExecute \/ SequenceSelfExecute
      <3>1. Opcode \in {Flag(46), Flag(48), Flag(47), Flag(49), Flag(50), Flag(34), Flag(35)}
        BY <2>3 DEF SequenceNode, SequenceSubdigest, SequenceBranch, SequenceNested,
                    SequenceDynamicSignature, SequenceExecute, SequenceSelfExecute, Reading,
                    FLAG_SEQUENCE_NODE, FLAG_SEQUENCE_SUBDIGEST, FLAG_SEQUENCE_BRANCH,
                    FLAG_SEQUENCE_NESTED, FLAG_SEQUENCE_DYNAMIC_SIGNATURE,
                    FLAG_SEQUENCE_EXECUTE, FLAG_SEQUENCE_SELF_EXECUTE
      <3>2. QED
        BY <1>2, <1>5, <3>1
    <2>4. CASE SequenceSigNoChain \/ SequenceSig \/ SequenceLSigNoChain \/ SequenceLSig
               \/ ReadChainedS \/ ReadChainedL
      <3>1. Opcode \in {Flag(51), Flag(52), Flag(53), Flag(54), Flag(55), Flag(56)}
        BY <2>4 DEF SequenceSigNoChain, SequenceSig, SequenceLSigNoChain, SequenceLSig,
                    ReadSequenceSignature, ReadChainedS, ReadChainedL, ReadChained, Reading,
                    FLAG_SEQUENCE_SIG_NO_CHAIN, FLAG_SEQUENCE_SIG, FLAG_SEQUENCE_L_SIG_NO_CHAIN,
                    FLAG_SEQUENCE_L_SIG, FLAG_SEQUENCE_READ_CHAINED_S,
                    FLAG_SEQUENCE_READ_CHAINED_L
      <3>2. QED
        BY <1>2, <1>5, <3>1
    <2>5. QED
      BY <1>7, <2>1, <2>2, <2>3, <2>4 DEF SequenceStep
  <1>8. QED
    BY <1>5, <1>6, <1>7

----------------------------------------------------------------------------
(* A flag with what follows it, when they stand for a word *)

LiteralForm(bytes, w) ==
    \E v \in 0 .. MAX_LITERAL : bytes = <<LITERAL_ZERO + v>> /\ Value(w) = v

WordForm(bytes, w) ==
    \E s \in Seq(Byte) :
        /\ Len(s) \in 1 .. WordBytes
        /\ bytes = <<FLAG_READ_WORD(Len(s))>> \o s
        /\ w = Pad(s)

WordInvForm(bytes, w) ==
    \E s \in Seq(Byte) :
        /\ Len(s) \in 1 .. WordBytes
        /\ bytes = <<FLAG_READ_WORD_INV>> \o (<<FLAG_READ_WORD(Len(s))>> \o s)
        /\ w = PadRight(s)

Pow2Form(bytes, w) ==
    \E e \in BitExponents : bytes = <<FLAG_POW_2, e>> /\ Value(w) = 2 ^ e

Pow2Minus1Form(bytes, w) ==
    \E e \in BitExponents : bytes = <<FLAG_POW_2_MINUS_1, e>> /\ Value(w) = 2 ^ (e + 1) - 1

Pow10Form(bytes, w) ==
    \E e \in 1 .. MaxPow10 : bytes = <<FLAG_POW_10, e>> /\ Value(w) = Pow10(e)

MantissaForm(bytes, w, flag, mantissas, size) ==
    \E e \in 1 .. MaxPow10, m \in 0 .. mantissas - 1 :
        /\ e * mantissas + m < ByteBase ^ size
        /\ bytes = <<flag>> \o Digits(e * mantissas + m, size)
        /\ Value(w) = m * Pow10(e)

IndexForm(bytes, w, flag(_), words) ==
    \E size \in 2 .. 4, i \in DOMAIN words :
        /\ i < ByteBase ^ size
        /\ bytes = <<flag(size)>> \o Digits(i, size)
        /\ words[i] = w

SaveAddressForm(bytes, w) ==
    \E s \in Seq(Byte) :
        /\ Len(s) = AddressBytes
        /\ bytes = <<FLAG_SAVE_ADDRESS>> \o s
        /\ w = Pad(s)

SaveBytes32Form(bytes, w) == bytes = <<FLAG_SAVE_BYTES32>> \o w

(* Without the storage, and with it. *)
PlainForm(bytes, w) ==
    \/ LiteralForm(bytes, w)
    \/ WordForm(bytes, w)
    \/ WordInvForm(bytes, w)
    \/ Pow2Form(bytes, w)
    \/ Pow2Minus1Form(bytes, w)
    \/ Pow10Form(bytes, w)
    \/ MantissaForm(bytes, w, FLAG_POW_10_MANTISSA_S, MantissaS, 2)
    \/ MantissaForm(bytes, w, FLAG_POW_10_MANTISSA_L, MantissaL, 3)

IndexedForm(bytes, w, addrs, words) ==
    \/ IndexForm(bytes, w, FLAG_READ_ADDRESS, addrs)
    \/ IndexForm(bytes, w, FLAG_READ_BYTES32, words)

(* It is what the machine is about to read. *)
Reads(bytes) ==
    /\ rindex + Len(bytes) <= Len(calldata)
    /\ \A k \in 1 .. Len(bytes) : calldata[rindex + k] = bytes[k]

(* What the machine does with it. *)
WritesWord(w, bytes) ==
    /\ memory' = Put(memory, windex, w)
    /\ windex' = windex + WordBytes
    /\ rindex' = rindex + Len(bytes)
    /\ pc' = "back"
    /\ UNCHANGED <<calldata, stack, made>>

MachineReads(bytes) ==
    /\ DecompressorStep
    /\ pc = "flag"
    /\ rindex \in Nat
    /\ calldata \in Seq(Nat)
    /\ Reads(bytes)

(* What follows a flag is what the machine takes for its arguments. *)
LEMMA ReadsArguments ==
    ASSUME rindex \in Nat, calldata \in Seq(Nat), NEW f \in Nat, NEW s \in Seq(Nat),
           Reads(<<f>> \o s)
    PROVE  /\ Opcode = f /\ Len(<<f>> \o s) = 1 + Len(s)
           /\ Read(rindex + 1, Len(s)) = s
           /\ Arg(Len(s)) = Value(s)
           /\ \A k \in 1 .. Len(s) : At(rindex + k) = s[k]
           /\ \A k \in 0 .. Len(s) - 1 : \A n \in 0 .. Len(s) - k :
                 Read(rindex + 1 + k, n) = [j \in 1 .. n |-> s[k + j]]
  <1> DEFINE t == <<f>> \o s
  <1>1. /\ t \in Seq(Nat) /\ Len(t) = 1 + Len(s) /\ t[1] = f
        /\ \A k \in 1 .. Len(s) : t[k + 1] = s[k]
    <2>1. <<f>> \in Seq(Nat) /\ Len(<<f>>) = 1 /\ <<f>>[1] = f
      OBVIOUS
    <2>2. /\ t \in Seq(Nat) /\ Len(t) = 1 + Len(s)
          /\ \A i \in 1 .. 1 + Len(s) : t[i] = IF i <= 1 THEN <<f>>[i] ELSE s[i - 1]
      BY <2>1, ConcatProperties
    <2>3. Len(s) \in Nat /\ 1 \in 1 .. 1 + Len(s)
      OBVIOUS
    <2> HIDE DEF t
    <2>4. \A k \in 1 .. Len(s) : k + 1 \in 1 .. 1 + Len(s) /\ ~ (k + 1 <= 1) /\ k + 1 - 1 = k
      OBVIOUS
    <2>5. QED
      BY <2>1, <2>2, <2>3, <2>4
  <1> HIDE DEF t
  <1>2. Reads(t)
    BY DEF t
  <1>3. rindex < Len(calldata) /\ calldata[rindex + 1] = f
    BY <1>1, <1>2 DEF Reads
  <1>4. Opcode = f
    BY <1>3 DEF Opcode, At
  <1>5. \A k \in 1 .. Len(s) : At(rindex + k) = s[k]
    <2> SUFFICES ASSUME NEW k \in 1 .. Len(s)
                 PROVE  At(rindex + k) = s[k]
      OBVIOUS
    <2>1. k + 1 \in 1 .. Len(t) /\ rindex + k < Len(calldata) /\ rindex + (k + 1) = rindex + k + 1
      BY <1>1, <1>2 DEF Reads
    <2>2. calldata[rindex + k + 1] = t[k + 1]
      BY <1>2, <2>1 DEF Reads
    <2>3. QED
      BY <1>1, <2>1, <2>2 DEF At
  <1>6. \A k \in 0 .. Len(s) - 1 : \A n \in 0 .. Len(s) - k :
           Read(rindex + 1 + k, n) = [j \in 1 .. n |-> s[k + j]]
    <2> SUFFICES ASSUME NEW k \in 0 .. Len(s) - 1, NEW n \in 0 .. Len(s) - k
                 PROVE  Read(rindex + 1 + k, n) = [j \in 1 .. n |-> s[k + j]]
      OBVIOUS
    <2>1. \A j \in 1 .. n : rindex + 1 + k + j - 1 = rindex + (k + j) /\ k + j \in 1 .. Len(s)
      OBVIOUS
    <2>2. \A j \in 1 .. n : At(rindex + 1 + k + j - 1) = s[k + j]
      BY <1>5, <2>1
    <2>3. QED
      BY <2>2 DEF Read
  <1>7. Read(rindex + 1, Len(s)) = s
    <2>1. \A j \in 1 .. Len(s) : rindex + 1 + j - 1 = rindex + j
      OBVIOUS
    <2>2. \A j \in 1 .. Len(s) : At(rindex + 1 + j - 1) = s[j]
      BY <1>5, <2>1
    <2>3. s = [j \in 1 .. Len(s) |-> s[j]]
      OBVIOUS
    <2>4. QED
      BY <2>2, <2>3 DEF Read
  <1>8. QED
    BY <1>1, <1>4, <1>5, <1>6, <1>7 DEF t, Arg, ReadValue

(* Writing what is right is all there is to do. *)
LEMMA WritesIsWritesWord ==
    ASSUME NEW w \in Word, NEW bytes, NEW args, NEW written,
           Writes(written, args), written = w, Len(bytes) = 1 + args, args \in Nat,
           rindex \in Nat, made' = made
    PROVE  WritesWord(w, bytes)
  <1>1. Len(w) = WordBytes
    BY Powers DEF Word
  <1>2. QED
    BY <1>1 DEF Writes, WritesWord

(* The numbers of the flags of these forms are different. *)
LEMMA FlagsDiffer ==
    /\ FLAG_READ_WORD(WordBytes) \in Nat /\ FLAG_NO_OP \in Nat
    /\ FLAG_READ_WORD(WordBytes) = FLAG_NO_OP + WordBytes
    /\ \A n : FLAG_READ_WORD(n) = FLAG_NO_OP + n
    /\ FLAG_READ_WORD_INV     = FLAG_READ_WORD(WordBytes) + 1
    /\ FLAG_SAVE_ADDRESS      = FLAG_READ_WORD(WordBytes) + 6
    /\ \A n : FLAG_READ_ADDRESS(n) = FLAG_READ_WORD(WordBytes) + (5 + n)
    /\ FLAG_SAVE_BYTES32      = FLAG_READ_WORD(WordBytes) + 10
    /\ \A n : FLAG_READ_BYTES32(n) = FLAG_READ_WORD(WordBytes) + (9 + n)
    /\ FLAG_POW_2             = FLAG_READ_WORD(WordBytes) + 16
    /\ FLAG_POW_2_MINUS_1     = FLAG_READ_WORD(WordBytes) + 17
    /\ FLAG_POW_10            = FLAG_READ_WORD(WordBytes) + 18
    /\ FLAG_POW_10_MANTISSA_S = FLAG_READ_WORD(WordBytes) + 19
    /\ FLAG_POW_10_MANTISSA_L = FLAG_READ_WORD(WordBytes) + 20
    /\ LITERAL_ZERO           = FLAG_READ_WORD(WordBytes) + 57
    /\ WordBytes \in Nat
  BY FlagNumbers, Powers
     DEF FLAG_READ_WORD_INV, FLAG_SAVE_ADDRESS, FLAG_READ_ADDRESS, FLAG_SAVE_BYTES32,
         FLAG_READ_BYTES32, FLAG_POW_2, FLAG_POW_2_MINUS_1, FLAG_POW_10,
         FLAG_POW_10_MANTISSA_S, FLAG_POW_10_MANTISSA_L, LITERAL_ZERO

LEMMA LiteralIsRead ==
    ASSUME NEW w \in Word, NEW bytes, MachineReads(bytes), LiteralForm(bytes, w)
    PROVE  WritesWord(w, bytes) /\ UNCHANGED storageVars
  <1>1. PICK v \in 0 .. MAX_LITERAL : bytes = <<LITERAL_ZERO + v>> /\ Value(w) = v
    BY DEF LiteralForm
  <1>2. LITERAL_ZERO \in Nat /\ v \in Nat
    BY <1>1, FlagsDiffer DEF MAX_LITERAL
  <1>3. bytes = <<LITERAL_ZERO + v>> \o << >> /\ Len(bytes) = 1 + 0
    BY <1>1
  <1>4. Opcode = LITERAL_ZERO + v
    <2>1. LITERAL_ZERO + v \in Nat /\ << >> \in Seq(Nat)
      BY <1>2
    <2>2. QED
      BY <1>3, <2>1, ReadsArguments DEF MachineReads
  <1>5. Literal /\ made' = made
    BY <1>2, <1>4, FlagsDiffer, FlagTellsAction, FlagNumbers DEF MachineReads
  <1>6. Opcode - LITERAL_ZERO = v
    BY <1>2, <1>4
  <1>7. Writes(WordOf(v), 0) /\ UNCHANGED storageVars
    BY <1>5, <1>6 DEF Literal, WritesOnly
  <1>8. WordOf(v) = w
    BY <1>1, ValueOfWord
  <1>9. WritesWord(w, bytes)
    BY <1>3, <1>5, <1>7, <1>8, WritesIsWritesWord DEF MachineReads
  <1>10. QED
    BY <1>7, <1>9

LEMMA WordIsRead ==
    ASSUME NEW w \in Word, NEW bytes, MachineReads(bytes), WordForm(bytes, w)
    PROVE  WritesWord(w, bytes) /\ UNCHANGED storageVars
  <1>1. PICK s \in Seq(Byte) : /\ Len(s) \in 1 .. WordBytes
                               /\ bytes = <<FLAG_READ_WORD(Len(s))>> \o s
                               /\ w = Pad(s)
    BY DEF WordForm
  <1>2. FLAG_READ_WORD(Len(s)) \in Nat /\ s \in Seq(Nat) /\ Len(s) \in Nat
    BY <1>1, FlagsDiffer, Powers DEF Byte
  <1>3. /\ Opcode = FLAG_READ_WORD(Len(s)) /\ Len(bytes) = 1 + Len(s)
        /\ Read(rindex + 1, Len(s)) = s
    BY <1>1, <1>2, ReadsArguments DEF MachineReads
  <1>4. ReadWord /\ made' = made
    <2> DEFINE o == Opcode
               n == Len(s)
    <2>1. /\ FLAG_NO_OP \in Nat /\ WordBytes \in Nat /\ o = FLAG_NO_OP + n /\ n \in 1 .. WordBytes
          /\ FLAG_READ_WORD(WordBytes) = FLAG_NO_OP + WordBytes
      BY <1>1, <1>3, FlagsDiffer
    <2>2. o \notin OtherFlags
      <3>1. o # FLAG_NO_OP
        <4> HIDE DEF o, n
        <4>1. QED
          BY <2>1
      <3>2. \A k \in 2 .. 5 \cup 14 .. 15 \cup 21 .. 56 : o # FLAG_READ_WORD(WordBytes) + k
        <4> HIDE DEF o, n
        <4>1. QED
          BY <2>1
      <3>3. QED
        BY <3>1, <3>2, FlagNumbers
    <2>3. /\ o < LITERAL_ZERO /\ o # FLAG_READ_WORD_INV /\ o # FLAG_SAVE_ADDRESS
          /\ o \notin FLAG_READ_ADDRESS(2) .. FLAG_READ_ADDRESS(4) /\ o # FLAG_SAVE_BYTES32
          /\ o \notin FLAG_READ_BYTES32(2) .. FLAG_READ_BYTES32(4) /\ o # FLAG_POW_2
          /\ o # FLAG_POW_2_MINUS_1 /\ o # FLAG_POW_10 /\ o # FLAG_POW_10_MANTISSA_S
          /\ o # FLAG_POW_10_MANTISSA_L
      <3> HIDE DEF o, n
      <3>1. QED
        BY <2>1, FlagsDiffer
    <2>4. DecompressorStep /\ pc = "flag"
      BY DEF MachineReads
    <2>5. ~ (o >= LITERAL_ZERO)
      <3>1. LITERAL_ZERO \in Nat /\ o \in Nat
        BY <1>2, <1>3, FlagsDiffer
      <3> HIDE DEF o
      <3>2. QED
        BY <2>3, <3>1
    <2>6. QED
      BY <2>2, <2>3, <2>4, <2>5, FlagTellsAction
  <1>5. PICK n \in 1 .. WordBytes : /\ Reading(FLAG_READ_WORD(n))
                                    /\ WritesOnly(Pad(Read(rindex + 1, n)), n)
    BY <1>4 DEF ReadWord
  <1>6. n = Len(s)
    <2>1. FLAG_NO_OP + n = FLAG_NO_OP + Len(s)
      <3>1. FLAG_READ_WORD(n) = FLAG_READ_WORD(Len(s))
        BY <1>3, <1>5 DEF Reading
      <3>2. QED
        BY <3>1, FlagsDiffer
    <2>2. FLAG_NO_OP \in Nat /\ n \in Nat /\ Len(s) \in Nat
      BY <1>2, Powers, FlagsDiffer
    <2>3. QED
      BY <2>1, <2>2
  <1>7. Writes(Pad(s), Len(s)) /\ UNCHANGED storageVars
    BY <1>3, <1>5, <1>6 DEF WritesOnly
  <1>8. WritesWord(w, bytes)
    BY <1>1, <1>2, <1>3, <1>4, <1>7, WritesIsWritesWord DEF MachineReads
  <1>9. QED
    BY <1>7, <1>8

LEMMA WordInvIsRead ==
    ASSUME NEW w \in Word, NEW bytes, MachineReads(bytes), WordInvForm(bytes, w)
    PROVE  WritesWord(w, bytes) /\ UNCHANGED storageVars
  <1>1. PICK s \in Seq(Byte) :
           /\ Len(s) \in 1 .. WordBytes
           /\ bytes = <<FLAG_READ_WORD_INV>> \o (<<FLAG_READ_WORD(Len(s))>> \o s)
           /\ w = PadRight(s)
    BY DEF WordInvForm
  <1> DEFINE n == Len(s)
             t == <<FLAG_READ_WORD(n)>> \o s
  <1>2. FLAG_READ_WORD_INV \in Nat /\ FLAG_READ_WORD(n) \in Nat /\ s \in Seq(Nat) /\ n \in Nat
    BY <1>1, FlagsDiffer, Powers DEF Byte
  <1>3. /\ t \in Seq(Nat) /\ Len(t) = 1 + n /\ t[1] = FLAG_READ_WORD(n)
        /\ \A k \in 1 .. n : t[1 + k] = s[k]
    <2>1. <<FLAG_READ_WORD(n)>> \in Seq(Nat) /\ Len(<<FLAG_READ_WORD(n)>>) = 1
      BY <1>2
    <2>2. /\ t \in Seq(Nat) /\ Len(t) = 1 + n
          /\ \A i \in 1 .. 1 + n : t[i] = IF i <= 1 THEN <<FLAG_READ_WORD(n)>>[i] ELSE s[i - 1]
      BY <1>2, <2>1, ConcatProperties
    <2>3. 1 \in 1 .. 1 + n /\ \A k \in 1 .. n : 1 + k \in 1 .. 1 + n /\ ~ (1 + k <= 1) /\ 1 + k - 1 = k
      BY <1>2
    <2> HIDE DEF t
    <2>4. QED
      BY <2>2, <2>3
  <1> HIDE DEF t
  <1>4. bytes = <<FLAG_READ_WORD_INV>> \o t
    BY <1>1 DEF t
  <1>5. /\ Opcode = FLAG_READ_WORD_INV /\ Len(bytes) = 1 + Len(t)
        /\ At(rindex + 1) = FLAG_READ_WORD(n)
        /\ Read(rindex + 1 + 1, n) = [j \in 1 .. n |-> t[1 + j]]
    <2>1. /\ Opcode = FLAG_READ_WORD_INV /\ Len(bytes) = 1 + Len(t)
          /\ \A k \in 1 .. Len(t) : At(rindex + k) = t[k]
          /\ \A k \in 0 .. Len(t) - 1 : \A m \in 0 .. Len(t) - k :
                 Read(rindex + 1 + k, m) = [j \in 1 .. m |-> t[k + j]]
      BY <1>2, <1>3, <1>4, ReadsArguments DEF MachineReads
    <2>2. 1 \in 1 .. Len(t) /\ 1 \in 0 .. Len(t) - 1 /\ n \in 0 .. Len(t) - 1
      BY <1>1, <1>2, <1>3
    <2>3. QED
      BY <1>3, <2>1, <2>2
  <1>6. Read(rindex + 2, n) = s
    <2>1. [j \in 1 .. n |-> t[1 + j]] = s
      BY <1>1, <1>3
    <2>2. rindex + 1 + 1 = rindex + 2
      BY DEF MachineReads
    <2>3. QED
      BY <1>5, <2>1, <2>2
  <1>7. ReadWordInv /\ made' = made
    BY <1>5, FlagsDiffer, FlagTellsAction, FlagNumbers DEF MachineReads
  <1>8. At(rindex + 1) - FLAG_NO_OP = n
    BY <1>2, <1>5, FlagsDiffer
  <1>9. Writes(PadRight(s), n + 1) /\ UNCHANGED storageVars
    BY <1>6, <1>7, <1>8 DEF ReadWordInv, WritesOnly
  <1>10. WritesWord(w, bytes)
    <2>1. Len(bytes) = 1 + (n + 1) /\ n + 1 \in Nat
      BY <1>2, <1>3, <1>5
    <2>2. QED
      BY <1>1, <1>7, <1>9, <2>1, WritesIsWritesWord DEF MachineReads
  <1>11. QED
    BY <1>9, <1>10

(* A flag that has one byte after it. *)
LEMMA ReadsByte ==
    ASSUME NEW flag \in Nat, NEW e \in Nat, NEW bytes, bytes = <<flag, e>>, MachineReads(bytes)
    PROVE  Opcode = flag /\ Arg(1) = e /\ Len(bytes) = 1 + 1
  <1>1. bytes = <<flag>> \o <<e>> /\ <<e>> \in Seq(Nat) /\ Len(<<e>>) = 1
    <2> DEFINE t == <<flag>> \o <<e>>
    <2>1. /\ <<flag>> \in Seq(Nat) /\ Len(<<flag>>) = 1 /\ <<flag>>[1] = flag
          /\ <<e>> \in Seq(Nat) /\ Len(<<e>>) = 1 /\ <<e>>[1] = e
      OBVIOUS
    <2>2. /\ t \in Seq(Nat) /\ Len(t) = 2
          /\ \A i \in 1 .. 2 : t[i] = IF i <= 1 THEN <<flag>>[i] ELSE <<e>>[i - 1]
      BY <2>1, ConcatProperties
    <2> HIDE DEF t
    <2>3. t[1] = flag /\ t[2] = e
      BY <2>1, <2>2
    <2>4. t = <<flag, e>>
      BY <2>2, <2>3
    <2>5. QED
      BY <2>1, <2>4 DEF t
  <1>2. Opcode = flag /\ Arg(1) = Value(<<e>>)
    BY <1>1, ReadsArguments DEF MachineReads
  <1>3. QED
    BY <1>2, ValueOfByte

LEMMA Pow2IsRead ==
    ASSUME NEW w \in Word, NEW bytes, MachineReads(bytes), Pow2Form(bytes, w)
    PROVE  WritesWord(w, bytes) /\ UNCHANGED storageVars
  <1>1. PICK e \in BitExponents : bytes = <<FLAG_POW_2, e>> /\ Value(w) = 2 ^ e
    BY DEF Pow2Form
  <1>2. FLAG_POW_2 \in Nat /\ e \in Nat
    BY FlagsDiffer DEF BitExponents
  <1>3. Opcode = FLAG_POW_2 /\ Arg(1) = e /\ Len(bytes) = 1 + 1
    BY <1>1, <1>2, ReadsByte
  <1>4. ReadPow2 /\ made' = made
    BY <1>3, FlagsDiffer, FlagTellsAction, FlagNumbers DEF MachineReads
  <1>5. Pow2(Arg(1)) = Value(w) /\ WordOf(Value(w)) = w
    BY <1>1, <1>3, ValueOfWord DEF Pow2
  <1>6. Writes(w, 1) /\ UNCHANGED storageVars
    BY <1>4, <1>5 DEF ReadPow2, WritesOnly
  <1>7. WritesWord(w, bytes)
    BY <1>3, <1>4, <1>6, WritesIsWritesWord DEF MachineReads
  <1>8. QED
    BY <1>6, <1>7

LEMMA Pow2Minus1IsRead ==
    ASSUME NEW w \in Word, NEW bytes, MachineReads(bytes), Pow2Minus1Form(bytes, w)
    PROVE  WritesWord(w, bytes) /\ UNCHANGED storageVars
  <1>1. PICK e \in BitExponents : bytes = <<FLAG_POW_2_MINUS_1, e>> /\ Value(w) = 2 ^ (e + 1) - 1
    BY DEF Pow2Minus1Form
  <1>2. FLAG_POW_2_MINUS_1 \in Nat /\ e \in Nat /\ e + 1 \in 0 .. ByteBits * WordBytes
    <2>1. ByteBits * WordBytes \in Nat
      BY FlagsAssumption
    <2>2. QED
      BY <2>1, FlagsDiffer DEF BitExponents
  <1>3. Opcode = FLAG_POW_2_MINUS_1 /\ Arg(1) = e /\ Len(bytes) = 1 + 1
    BY <1>1, <1>2, ReadsByte
  <1>4. ReadPow2Minus1 /\ made' = made
    BY <1>3, FlagsDiffer, FlagTellsAction, FlagNumbers DEF MachineReads
  <1> DEFINE p == 2 ^ (e + 1)
             q == WordBase
             v == Value(w)
  <1>5. p \in Nat /\ q \in Nat /\ v \in Nat /\ v < q /\ v = p - 1 /\ WordOf(v) = w
    <2>1. p \in Nat
      BY <1>2, PowersAssumption
    <2>2. q \in Nat
      BY Powers DEF WordBase
    <2>3. QED
      BY <1>1, <2>1, <2>2, ValueOfWord
  <1>6. Pow2(Arg(1) + 1) = IF p < q THEN p ELSE 0
    BY <1>3 DEF Pow2
  <1> HIDE DEF p, q, v
  <1>7. (q + (IF p < q THEN p ELSE 0) - 1) % q = v
    <2>1. CASE p < q
      <3>1. q + p - 1 = 1 * q + v /\ v \in 0 .. q - 1
        BY <1>5
      <3>2. (1 * q + v) % q = v
        BY <1>5, <3>1, QuotientAndRemainder
      <3>3. QED
        BY <2>1, <3>1, <3>2
    <2>2. CASE ~ (p < q)
      <3>1. q + 0 - 1 = 0 * q + v /\ v \in 0 .. q - 1
        BY <1>5, <2>2
      <3>2. (0 * q + v) % q = v
        BY <1>5, <3>1, QuotientAndRemainder
      <3>3. QED
        BY <2>2, <3>1, <3>2
    <2>3. QED
      BY <2>1, <2>2
  <1>8. WordOf(q + Pow2(Arg(1) + 1) - 1) = w
    <2>1. v % q = v
      BY <1>5
    <2>2. QED
      BY <1>5, <1>6, <1>7, <2>1 DEF WordOf, q
  <1>9. Writes(w, 1) /\ UNCHANGED storageVars
    BY <1>4, <1>8 DEF ReadPow2Minus1, WritesOnly, q
  <1>10. WritesWord(w, bytes)
    BY <1>3, <1>4, <1>9, WritesIsWritesWord DEF MachineReads
  <1>11. QED
    BY <1>9, <1>10

LEMMA Pow10IsRead ==
    ASSUME NEW w \in Word, NEW bytes, MachineReads(bytes), Pow10Form(bytes, w)
    PROVE  WritesWord(w, bytes) /\ UNCHANGED storageVars
  <1>1. PICK e \in 1 .. MaxPow10 : bytes = <<FLAG_POW_10, e>> /\ Value(w) = Pow10(e)
    BY DEF Pow10Form
  <1>2. FLAG_POW_10 \in Nat /\ e \in Nat
    BY FlagsDiffer, FlagsAssumption
  <1>3. Opcode = FLAG_POW_10 /\ Arg(1) = e /\ Len(bytes) = 1 + 1
    BY <1>1, <1>2, ReadsByte
  <1>4. ReadPow10 /\ made' = made
    BY <1>3, FlagsDiffer, FlagTellsAction, FlagNumbers DEF MachineReads
  <1>5. WordOf(Pow10(Arg(1))) = w
    BY <1>1, <1>3, ValueOfWord
  <1>6. Writes(w, 1) /\ UNCHANGED storageVars
    BY <1>4, <1>5 DEF ReadPow10, WritesOnly
  <1>7. WritesWord(w, bytes)
    BY <1>3, <1>4, <1>6, WritesIsWritesWord DEF MachineReads
  <1>8. QED
    BY <1>6, <1>7

(* A flag that has a number after it. *)
LEMMA ReadsNumber ==
    ASSUME NEW flag \in Nat, NEW size \in 2 .. 4, NEW v \in Nat, v < ByteBase ^ size, NEW bytes,
           bytes = <<flag>> \o Digits(v, size), MachineReads(bytes)
    PROVE  Opcode = flag /\ Arg(size) = v /\ Len(bytes) = 1 + size /\ size \in Nat
  <1> DEFINE s == Digits(v, size)
  <1>1. size \in Sizes /\ size \in Nat
    BY DEF Sizes
  <1>2. s \in Seq(Byte) /\ Len(s) = size /\ Value(s) = v
    BY <1>1, ValueOfDigits
  <1>3. s \in Seq(Nat)
    BY <1>2, Powers DEF Byte
  <1> HIDE DEF s
  <1>4. Reads(<<flag>> \o s) /\ bytes = <<flag>> \o s
    BY DEF MachineReads, s
  <1>5. Opcode = flag /\ Len(bytes) = 1 + Len(s) /\ Arg(Len(s)) = Value(s)
    BY <1>3, <1>4, ReadsArguments DEF MachineReads
  <1>6. QED
    BY <1>1, <1>2, <1>5

LEMMA MantissaIsRead ==
    ASSUME NEW w \in Word, NEW bytes, MachineReads(bytes),
           NEW flag, NEW mantissas \in Nat \ {0}, NEW size \in 2 .. 4,
           flag \in {FLAG_POW_10_MANTISSA_S, FLAG_POW_10_MANTISSA_L},
           Opcode = flag => ReadMantissa(flag, size, mantissas) /\ made' = made,
           MantissaForm(bytes, w, flag, mantissas, size)
    PROVE  WritesWord(w, bytes) /\ UNCHANGED storageVars
  <1>1. PICK e \in 1 .. MaxPow10, m \in 0 .. mantissas - 1 :
           /\ e * mantissas + m < ByteBase ^ size
           /\ bytes = <<flag>> \o Digits(e * mantissas + m, size)
           /\ Value(w) = m * Pow10(e)
    BY DEF MantissaForm
  <1> DEFINE v == e * mantissas + m
  <1>2. flag \in Nat /\ e \in Nat /\ m \in Nat /\ v \in Nat
    <2>1. flag \in Nat
      BY FlagsDiffer
    <2>2. e \in Nat /\ m \in Nat
      BY FlagsAssumption
    <2>3. e * mantissas + m \in Nat
      BY <2>2
    <2>4. QED
      BY <2>1, <2>2, <2>3
  <1>3. v \div mantissas = e /\ v % mantissas = m
    BY <1>2, QuotientAndRemainder
  <1>4. v < ByteBase ^ size /\ bytes = <<flag>> \o Digits(v, size)
    BY <1>1
  <1> HIDE DEF v
  <1>5. Opcode = flag /\ Arg(size) = v /\ Len(bytes) = 1 + size /\ size \in Nat
    BY <1>2, <1>4, ReadsNumber
  <1>6. Writes(WordOf(m * Pow10(e)), size) /\ UNCHANGED storageVars /\ made' = made
    BY <1>3, <1>5 DEF ReadMantissa, WritesOnly
  <1>7. WordOf(m * Pow10(e)) = w
    BY <1>1, ValueOfWord
  <1>8. WritesWord(w, bytes)
    BY <1>5, <1>6, <1>7, WritesIsWritesWord DEF MachineReads
  <1>9. QED
    BY <1>6, <1>8

LEMMA MantissaSIsRead ==
    ASSUME NEW w \in Word, NEW bytes, MachineReads(bytes),
           MantissaForm(bytes, w, FLAG_POW_10_MANTISSA_S, MantissaS, 2)
    PROVE  WritesWord(w, bytes) /\ UNCHANGED storageVars
  <1>1. Opcode = FLAG_POW_10_MANTISSA_S =>
           ReadMantissa(FLAG_POW_10_MANTISSA_S, 2, MantissaS) /\ made' = made
    BY FlagsDiffer, FlagTellsAction, FlagNumbers DEF MachineReads, ReadMantissaS
  <1>2. MantissaS \in Nat \ {0} /\ 2 \in 2 .. 4
    BY FlagsAssumption
  <1>3. QED
    BY <1>1, <1>2, MantissaIsRead

LEMMA MantissaLIsRead ==
    ASSUME NEW w \in Word, NEW bytes, MachineReads(bytes),
           MantissaForm(bytes, w, FLAG_POW_10_MANTISSA_L, MantissaL, 3)
    PROVE  WritesWord(w, bytes) /\ UNCHANGED storageVars
  <1>1. Opcode = FLAG_POW_10_MANTISSA_L =>
           ReadMantissa(FLAG_POW_10_MANTISSA_L, 3, MantissaL) /\ made' = made
    BY FlagsDiffer, FlagTellsAction, FlagNumbers DEF MachineReads, ReadMantissaL
  <1>2. MantissaL \in Nat \ {0} /\ 3 \in 2 .. 4
    BY FlagsAssumption
  <1>3. QED
    BY <1>1, <1>2, MantissaIsRead

(* Words that are in the storage. *)
LEMMA IndexIsRead ==
    ASSUME NEW w \in Word, NEW bytes, MachineReads(bytes),
           addresses \in Seq(Word), bytes32 \in Seq(Word),
           IndexedForm(bytes, w, addresses, bytes32)
    PROVE  WritesWord(w, bytes) /\ UNCHANGED storageVars
  <1>1. CASE IndexForm(bytes, w, FLAG_READ_ADDRESS, addresses)
    <2>1. PICK size \in 2 .. 4, i \in DOMAIN addresses :
             /\ i < ByteBase ^ size
             /\ bytes = <<FLAG_READ_ADDRESS(size)>> \o Digits(i, size)
             /\ addresses[i] = w
      BY <1>1 DEF IndexForm
    <2>2. FLAG_READ_ADDRESS(size) \in Nat /\ i \in Nat
      BY FlagsDiffer
    <2>3. /\ Opcode = FLAG_READ_ADDRESS(size) /\ Arg(size) = i
          /\ Len(bytes) = 1 + size /\ size \in Nat
      BY <2>1, <2>2, ReadsNumber
    <2>4. ReadAddress /\ made' = made
      <3> DEFINE o == Opcode
                 x == FLAG_READ_WORD(WordBytes)
                 n == 5 + size
      <3>1. /\ x \in Nat /\ FLAG_NO_OP \in Nat /\ WordBytes \in Nat /\ x = FLAG_NO_OP + WordBytes
            /\ o = x + n /\ n \in 5 + 2 .. 5 + 4
        BY <2>3, FlagsDiffer
      <3>2. o \notin OtherFlags
        <4>1. o # FLAG_NO_OP /\ \A m \in 2 .. 5 \cup 14 .. 15 \cup 21 .. 56 : o # x + m
          <5> HIDE DEF o, n, x
          <5>1. QED
            BY <3>1
        <4>2. QED
          BY <4>1, FlagNumbers
      <3>3. /\ ~ (o >= LITERAL_ZERO) /\ o # FLAG_READ_WORD_INV /\ o # FLAG_SAVE_ADDRESS
            /\ o \notin FLAG_READ_WORD(1) .. FLAG_READ_WORD(WordBytes) /\ o # FLAG_SAVE_BYTES32
            /\ o \notin FLAG_READ_BYTES32(2) .. FLAG_READ_BYTES32(4) /\ o # FLAG_POW_2
            /\ o # FLAG_POW_2_MINUS_1 /\ o # FLAG_POW_10 /\ o # FLAG_POW_10_MANTISSA_S
            /\ o # FLAG_POW_10_MANTISSA_L
        <4> HIDE DEF o, n
        <4>1. QED
          BY <3>1, FlagsDiffer
      <3>4. DecompressorStep /\ pc = "flag"
        BY DEF MachineReads
      <3>5. QED
        BY <3>2, <3>3, <3>4, FlagTellsAction
    <2>5. PICK n \in 2 .. 4 : /\ Opcode = FLAG_READ_ADDRESS(n)
                              /\ WritesOnly(Stored(addresses, Arg(n)), n)
      BY <2>4 DEF ReadAddress, Reading
    <2>6. n = size
      <3>1. FLAG_READ_ADDRESS(n) = FLAG_READ_ADDRESS(size)
        BY <2>3, <2>5
      <3>2. FLAG_READ_WORD(WordBytes) + (5 + n) = FLAG_READ_WORD(WordBytes) + (5 + size)
        BY <3>1, FlagsDiffer
      <3>3. FLAG_READ_WORD(WordBytes) \in Nat /\ n \in Nat /\ size \in Nat
        BY FlagsDiffer
      <3>4. QED
        BY <3>2, <3>3
    <2>7. Writes(w, size) /\ UNCHANGED storageVars
      BY <2>1, <2>3, <2>5, <2>6 DEF WritesOnly, Stored
    <2>8. WritesWord(w, bytes)
      BY <2>3, <2>4, <2>7, WritesIsWritesWord DEF MachineReads
    <2>9. QED
      BY <2>7, <2>8
  <1>2. CASE IndexForm(bytes, w, FLAG_READ_BYTES32, bytes32)
    <2>1. PICK size \in 2 .. 4, i \in DOMAIN bytes32 :
             /\ i < ByteBase ^ size
             /\ bytes = <<FLAG_READ_BYTES32(size)>> \o Digits(i, size)
             /\ bytes32[i] = w
      BY <1>2 DEF IndexForm
    <2>2. FLAG_READ_BYTES32(size) \in Nat /\ i \in Nat
      BY FlagsDiffer
    <2>3. /\ Opcode = FLAG_READ_BYTES32(size) /\ Arg(size) = i
          /\ Len(bytes) = 1 + size /\ size \in Nat
      BY <2>1, <2>2, ReadsNumber
    <2>4. ReadBytes32 /\ made' = made
      <3> DEFINE o == Opcode
                 x == FLAG_READ_WORD(WordBytes)
                 n == 9 + size
      <3>1. /\ x \in Nat /\ FLAG_NO_OP \in Nat /\ WordBytes \in Nat /\ x = FLAG_NO_OP + WordBytes
            /\ o = x + n /\ n \in 9 + 2 .. 9 + 4
        BY <2>3, FlagsDiffer
      <3>2. o \notin OtherFlags
        <4>1. o # FLAG_NO_OP /\ \A m \in 2 .. 5 \cup 14 .. 15 \cup 21 .. 56 : o # x + m
          <5> HIDE DEF o, n, x
          <5>1. QED
            BY <3>1
        <4>2. QED
          BY <4>1, FlagNumbers
      <3>3. /\ ~ (o >= LITERAL_ZERO) /\ o # FLAG_READ_WORD_INV /\ o # FLAG_SAVE_ADDRESS
            /\ o \notin FLAG_READ_WORD(1) .. FLAG_READ_WORD(WordBytes) /\ o # FLAG_SAVE_BYTES32
            /\ o \notin FLAG_READ_ADDRESS(2) .. FLAG_READ_ADDRESS(4) /\ o # FLAG_POW_2
            /\ o # FLAG_POW_2_MINUS_1 /\ o # FLAG_POW_10 /\ o # FLAG_POW_10_MANTISSA_S
            /\ o # FLAG_POW_10_MANTISSA_L
        <4> HIDE DEF o, n
        <4>1. QED
          BY <3>1, FlagsDiffer
      <3>4. DecompressorStep /\ pc = "flag"
        BY DEF MachineReads
      <3>5. QED
        BY <3>2, <3>3, <3>4, FlagTellsAction
    <2>5. PICK n \in 2 .. 4 : /\ Opcode = FLAG_READ_BYTES32(n)
                              /\ WritesOnly(Stored(bytes32, Arg(n)), n)
      BY <2>4 DEF ReadBytes32, Reading
    <2>6. n = size
      <3>1. FLAG_READ_BYTES32(n) = FLAG_READ_BYTES32(size)
        BY <2>3, <2>5
      <3>2. FLAG_READ_WORD(WordBytes) + (9 + n) = FLAG_READ_WORD(WordBytes) + (9 + size)
        BY <3>1, FlagsDiffer
      <3>3. FLAG_READ_WORD(WordBytes) \in Nat /\ n \in Nat /\ size \in Nat
        BY FlagsDiffer
      <3>4. QED
        BY <3>2, <3>3
    <2>7. Writes(w, size) /\ UNCHANGED storageVars
      BY <2>1, <2>3, <2>5, <2>6 DEF WritesOnly, Stored
    <2>8. WritesWord(w, bytes)
      BY <2>3, <2>4, <2>7, WritesIsWritesWord DEF MachineReads
    <2>9. QED
      BY <2>7, <2>8
  <1>3. QED
    BY <1>1, <1>2 DEF IndexedForm

(* Words that are saved. *)
LEMMA SaveAddressIsRead ==
    ASSUME NEW w \in Word, NEW bytes, MachineReads(bytes), SaveAddressForm(bytes, w)
    PROVE  /\ WritesWord(w, bytes)
           /\ addresses' = Append(addresses, w) /\ UNCHANGED bytes32
  <1>1. PICK s \in Seq(Byte) : /\ Len(s) = AddressBytes
                               /\ bytes = <<FLAG_SAVE_ADDRESS>> \o s
                               /\ w = Pad(s)
    BY DEF SaveAddressForm
  <1>2. FLAG_SAVE_ADDRESS \in Nat /\ s \in Seq(Nat) /\ AddressBytes \in Nat
    <2>1. FLAG_SAVE_ADDRESS \in Nat
      BY FlagsDiffer
    <2>2. s \in Seq(Nat)
      BY Powers DEF Byte
    <2>3. AddressBytes \in Nat
      BY Powers, FlagsAssumption
    <2>4. QED
      BY <2>1, <2>2, <2>3
  <1>3. /\ Opcode = FLAG_SAVE_ADDRESS /\ Len(bytes) = 1 + AddressBytes
        /\ Read(rindex + 1, AddressBytes) = s
    <2>1. /\ Opcode = FLAG_SAVE_ADDRESS /\ Len(bytes) = 1 + Len(s)
          /\ Read(rindex + 1, Len(s)) = s
      BY <1>1, <1>2, ReadsArguments DEF MachineReads
    <2>2. QED
      BY <1>1, <2>1
  <1>4. SaveAddress /\ made' = made
    BY <1>3, FlagsDiffer, FlagTellsAction, FlagNumbers DEF MachineReads
  <1>5. Writes(w, AddressBytes) /\ addresses' = Append(addresses, w) /\ UNCHANGED bytes32
    BY <1>1, <1>3, <1>4 DEF SaveAddress
  <1>6. WritesWord(w, bytes)
    BY <1>2, <1>3, <1>4, <1>5, WritesIsWritesWord DEF MachineReads
  <1>7. QED
    BY <1>5, <1>6

LEMMA SaveBytes32IsRead ==
    ASSUME NEW w \in Word, NEW bytes, MachineReads(bytes), SaveBytes32Form(bytes, w)
    PROVE  /\ WritesWord(w, bytes)
           /\ bytes32' = Append(bytes32, w) /\ UNCHANGED addresses
  <1>1. bytes = <<FLAG_SAVE_BYTES32>> \o w /\ w \in Seq(Byte) /\ Len(w) = WordBytes
    BY Powers DEF SaveBytes32Form, Word
  <1>2. FLAG_SAVE_BYTES32 \in Nat /\ w \in Seq(Nat) /\ WordBytes \in Nat
    BY <1>1, FlagsDiffer, Powers DEF Byte
  <1>3. /\ Opcode = FLAG_SAVE_BYTES32 /\ Len(bytes) = 1 + WordBytes
        /\ Read(rindex + 1, WordBytes) = w
    <2>1. /\ Opcode = FLAG_SAVE_BYTES32 /\ Len(bytes) = 1 + Len(w)
          /\ Read(rindex + 1, Len(w)) = w
      BY <1>1, <1>2, ReadsArguments DEF MachineReads
    <2>2. QED
      BY <1>1, <2>1
  <1>4. SaveBytes32 /\ made' = made
    BY <1>3, FlagsDiffer, FlagTellsAction, FlagNumbers DEF MachineReads
  <1>5. Writes(w, WordBytes) /\ bytes32' = Append(bytes32, w) /\ UNCHANGED addresses
    BY <1>3, <1>4 DEF SaveBytes32
  <1>6. WritesWord(w, bytes)
    BY <1>2, <1>3, <1>4, <1>5, WritesIsWritesWord DEF MachineReads
  <1>7. QED
    BY <1>5, <1>6

(* All the forms that do not save. *)
LEMMA PlainIsRead ==
    ASSUME NEW w \in Word, NEW bytes, MachineReads(bytes), PlainForm(bytes, w)
    PROVE  WritesWord(w, bytes) /\ UNCHANGED storageVars
  BY LiteralIsRead, WordIsRead, WordInvIsRead, Pow2IsRead, Pow2Minus1IsRead, Pow10IsRead,
     MantissaSIsRead, MantissaLIsRead DEF PlainForm

----------------------------------------------------------------------------
(* The bytes of the forms *)

Symbol == Byte \cup AllFlags

(* The forms that save a word, or read it from the storage, are told by    *)
(* their flags from those that do not.                                     *)
FormFlags ==
    {FLAG_READ_WORD_INV, FLAG_POW_2, FLAG_POW_2_MINUS_1, FLAG_POW_10,
     FLAG_POW_10_MANTISSA_S, FLAG_POW_10_MANTISSA_L}
    \cup {FLAG_READ_WORD(n) : n \in 1 .. WordBytes}
    \cup {LITERAL_ZERO + v : v \in 0 .. MAX_LITERAL}

(* A flag and its arguments. *)
IsFlagged(bytes, flags) ==
    bytes \in Seq(Symbol) /\ Len(bytes) \in Nat \ {0} /\ bytes[1] \in flags

LEMMA Symbols ==
    /\ Byte \subseteq Symbol /\ Symbol \subseteq Nat
    /\ FormFlags \subseteq Symbol
    /\ {FLAG_SAVE_ADDRESS, FLAG_SAVE_BYTES32} \subseteq Symbol
    /\ \A size \in 2 .. 4 : FLAG_READ_ADDRESS(size) \in Symbol /\ FLAG_READ_BYTES32(size) \in Symbol
    /\ METHOD_DECODE_ANY \in Symbol
  <1> DEFINE x == FLAG_READ_WORD(WordBytes)
  <1>1. /\ ByteBase \in Nat /\ ByteBase >= 2 /\ WordBytes \in Nat /\ x = ByteBase + WordBytes
        /\ Byte = 0 .. ByteBase - 1 /\ MAX_LITERAL \in Nat
        /\ AllFlags = ByteBase .. x + 57 + MAX_LITERAL
    BY FlagsDiffer, Powers, FlagsAssumption DEF Byte, AllFlags, FLAG_NO_OP, MAX_LITERAL
  <1> HIDE DEF x
  <1>2. Byte \subseteq Symbol /\ Symbol \subseteq Nat
    BY <1>1 DEF Symbol
  <1>3. \A n \in 1 .. 57 : x + n \in Symbol
    BY <1>1 DEF Symbol
  <1>4. \A n \in 1 .. WordBytes : FLAG_READ_WORD(n) \in Symbol
    BY <1>1, FlagsDiffer DEF Symbol, FLAG_NO_OP
  <1>5. \A v \in 0 .. MAX_LITERAL : LITERAL_ZERO + v \in Symbol
    <2>1. LITERAL_ZERO = x + 57
      BY FlagsDiffer DEF x
    <2>2. QED
      BY <1>1, <2>1 DEF Symbol
  <1>6. {FLAG_READ_WORD_INV, FLAG_POW_2, FLAG_POW_2_MINUS_1, FLAG_POW_10,
         FLAG_POW_10_MANTISSA_S, FLAG_POW_10_MANTISSA_L,
         FLAG_SAVE_ADDRESS, FLAG_SAVE_BYTES32} \subseteq Symbol
    BY <1>3, FlagsDiffer DEF x
  <1>7. \A size \in 2 .. 4 : FLAG_READ_ADDRESS(size) \in Symbol /\ FLAG_READ_BYTES32(size) \in Symbol
    <2>1. \A size \in 2 .. 4 : 5 + size \in 1 .. 57 /\ 9 + size \in 1 .. 57
      OBVIOUS
    <2>2. QED
      BY <1>3, <2>1, FlagsDiffer DEF x
  <1>8. METHOD_DECODE_ANY \in Symbol
    BY <1>1 DEF METHOD_DECODE_ANY, Symbol
  <1>9. QED
    BY <1>2, <1>4, <1>5, <1>6, <1>7, <1>8 DEF FormFlags

LEMMA BytesAreSymbols ==
    ASSUME NEW s \in Seq(Byte)
    PROVE  s \in Seq(Symbol)
  <1>1. Byte \subseteq Symbol
    BY Symbols
  <1>2. QED
    BY <1>1

LEMMA FlagFirst ==
    ASSUME NEW flags, NEW flag \in flags, flag \in Symbol, NEW s \in Seq(Symbol)
    PROVE  IsFlagged(<<flag>> \o s, flags)
  <1> DEFINE t == <<flag>> \o s
  <1>1. <<flag>> \in Seq(Symbol) /\ Len(<<flag>>) = 1 /\ <<flag>>[1] = flag
    OBVIOUS
  <1>2. /\ t \in Seq(Symbol) /\ Len(t) = 1 + Len(s)
        /\ \A i \in 1 .. 1 + Len(s) : t[i] = IF i <= 1 THEN <<flag>>[i] ELSE s[i - 1]
    BY <1>1, ConcatProperties
  <1>3. Len(s) \in Nat /\ 1 \in 1 .. 1 + Len(s) /\ 1 + Len(s) \in Nat \ {0}
    OBVIOUS
  <1> HIDE DEF t
  <1>4. QED
    BY <1>1, <1>2, <1>3 DEF IsFlagged, t

(* A flag and the digits of a number. *)
LEMMA FlagAndDigits ==
    ASSUME NEW flags, NEW flag \in flags, flag \in Symbol,
           NEW size \in 2 .. 4, NEW v \in Nat, v < ByteBase ^ size
    PROVE  IsFlagged(<<flag>> \o Digits(v, size), flags)
  <1>1. size \in Sizes
    BY DEF Sizes
  <1>2. Digits(v, size) \in Seq(Byte)
    BY <1>1, ValueOfDigits
  <1>3. Digits(v, size) \in Seq(Symbol)
    BY <1>2, BytesAreSymbols
  <1>4. QED
    BY <1>3, FlagFirst

LEMMA FlagAndByte ==
    ASSUME NEW flags, NEW flag \in flags, flag \in Symbol, NEW e \in Byte
    PROVE  IsFlagged(<<flag, e>>, flags)
  <1>1. e \in Symbol /\ Len(<<flag, e>>) = 2 /\ <<flag, e>>[1] = flag
    BY Symbols
  <1>2. <<flag, e>> \in Seq(Symbol)
    BY <1>1
  <1>3. QED
    BY <1>1, <1>2 DEF IsFlagged

LEMMA PlainIsFlagged ==
    ASSUME NEW w, NEW bytes, PlainForm(bytes, w)
    PROVE  IsFlagged(bytes, FormFlags)
  <1>1. /\ {FLAG_READ_WORD_INV, FLAG_POW_2, FLAG_POW_2_MINUS_1, FLAG_POW_10,
            FLAG_POW_10_MANTISSA_S, FLAG_POW_10_MANTISSA_L} \subseteq FormFlags
        /\ \A n \in 1 .. WordBytes : FLAG_READ_WORD(n) \in FormFlags
        /\ \A v \in 0 .. MAX_LITERAL : LITERAL_ZERO + v \in FormFlags
    BY DEF FormFlags
  <1>2. FormFlags \subseteq Symbol /\ Byte \subseteq Symbol
    BY Symbols
  <1>3. BitExponents \subseteq Byte /\ 1 .. MaxPow10 \subseteq Byte
    <2>1. 1 .. MaxPow10 \subseteq Byte
      <3>1. MaxPow10 \in 0 .. ByteBase - 1
        BY FlagsAssumption
      <3>2. ByteBase \in Nat
        BY Powers
      <3>3. QED
        BY <3>1, <3>2 DEF Byte
    <2> DEFINE n == ByteBits * WordBytes
    <2>2. n \in Nat /\ n <= ByteBase /\ ByteBase \in Nat
      BY FlagsAssumption, Powers
    <2> HIDE DEF n
    <2>3. BitExponents \subseteq Byte
      BY <2>2 DEF BitExponents, Byte, n
    <2>4. QED
      BY <2>1, <2>3
  <1>4. CASE LiteralForm(bytes, w)
    <2>1. PICK v \in 0 .. MAX_LITERAL : bytes = <<LITERAL_ZERO + v>>
      BY <1>4 DEF LiteralForm
    <2> DEFINE f == LITERAL_ZERO + v
    <2>2. f \in FormFlags /\ f \in Symbol
      BY <1>1, <1>2
    <2> HIDE DEF f
    <2>3. <<f>> \in Seq(Symbol) /\ Len(<<f>>) = 1 /\ <<f>>[1] = f
      BY <2>2
    <2>4. QED
      BY <2>1, <2>2, <2>3 DEF IsFlagged, f
  <1>5. CASE WordForm(bytes, w)
    <2>1. PICK s \in Seq(Byte) : Len(s) \in 1 .. WordBytes /\ bytes = <<FLAG_READ_WORD(Len(s))>> \o s
      BY <1>5 DEF WordForm
    <2>2. s \in Seq(Symbol) /\ FLAG_READ_WORD(Len(s)) \in FormFlags
      BY <1>1, <1>2, <2>1
    <2>3. QED
      BY <1>2, <2>1, <2>2, FlagFirst
  <1>6. CASE WordInvForm(bytes, w)
    <2>1. PICK s \in Seq(Byte) :
             /\ Len(s) \in 1 .. WordBytes
             /\ bytes = <<FLAG_READ_WORD_INV>> \o (<<FLAG_READ_WORD(Len(s))>> \o s)
      BY <1>6 DEF WordInvForm
    <2>2. s \in Seq(Symbol) /\ FLAG_READ_WORD(Len(s)) \in FormFlags
      BY <1>1, <1>2, <2>1
    <2>3. <<FLAG_READ_WORD(Len(s))>> \o s \in Seq(Symbol)
      BY <1>2, <2>2, FlagFirst DEF IsFlagged
    <2>4. QED
      BY <1>1, <1>2, <2>1, <2>3, FlagFirst
  <1>7. CASE Pow2Form(bytes, w) \/ Pow2Minus1Form(bytes, w) \/ Pow10Form(bytes, w)
    <2>1. PICK f \in FormFlags, e \in Byte : bytes = <<f, e>>
      BY <1>1, <1>3, <1>7 DEF Pow2Form, Pow2Minus1Form, Pow10Form
    <2>2. QED
      BY <1>2, <2>1, FlagAndByte
  <1>8. ASSUME NEW flag \in FormFlags, NEW mantissas \in Nat, NEW size \in 2 .. 4,
               MantissaForm(bytes, w, flag, mantissas, size)
        PROVE  IsFlagged(bytes, FormFlags)
    <2>1. PICK e \in 1 .. MaxPow10, m \in 0 .. mantissas - 1 :
             /\ e * mantissas + m < ByteBase ^ size
             /\ bytes = <<flag>> \o Digits(e * mantissas + m, size)
      BY <1>8 DEF MantissaForm
    <2>2. e * mantissas + m \in Nat
      <3>1. e \in Nat /\ m \in Nat
        BY FlagsAssumption, Powers
      <3>2. e * mantissas \in Nat
        BY <3>1
      <3>3. QED
        BY <3>1, <3>2
    <2>3. flag \in Symbol
      BY <1>2
    <2>4. QED
      BY <2>1, <2>2, <2>3, FlagAndDigits
  <1>9. CASE \/ MantissaForm(bytes, w, FLAG_POW_10_MANTISSA_S, MantissaS, 2)
             \/ MantissaForm(bytes, w, FLAG_POW_10_MANTISSA_L, MantissaL, 3)
    <2>1. MantissaS \in Nat /\ MantissaL \in Nat /\ 2 \in 2 .. 4 /\ 3 \in 2 .. 4
      BY FlagsAssumption
    <2>2. QED
      BY <1>1, <1>8, <1>9, <2>1
  <1>10. QED
    BY <1>4, <1>5, <1>6, <1>7, <1>9 DEF PlainForm

LEMMA StoredIsFlagged ==
    ASSUME NEW w \in Word, NEW bytes, NEW addrs \in Seq(Word), NEW words \in Seq(Word),
           \/ IndexedForm(bytes, w, addrs, words)
           \/ SaveAddressForm(bytes, w)
           \/ SaveBytes32Form(bytes, w)
    PROVE  IsFlagged(bytes, Symbol)
  <1>1. CASE IndexForm(bytes, w, FLAG_READ_ADDRESS, addrs)
    <2>1. PICK size \in 2 .. 4, i \in DOMAIN addrs :
             i < ByteBase ^ size /\ bytes = <<FLAG_READ_ADDRESS(size)>> \o Digits(i, size)
      BY <1>1 DEF IndexForm
    <2>2. FLAG_READ_ADDRESS(size) \in Symbol /\ i \in Nat
      BY Symbols
    <2>3. QED
      BY <2>1, <2>2, FlagAndDigits
  <1>2. CASE IndexForm(bytes, w, FLAG_READ_BYTES32, words)
    <2>1. PICK size \in 2 .. 4, i \in DOMAIN words :
             i < ByteBase ^ size /\ bytes = <<FLAG_READ_BYTES32(size)>> \o Digits(i, size)
      BY <1>2 DEF IndexForm
    <2>2. FLAG_READ_BYTES32(size) \in Symbol /\ i \in Nat
      BY Symbols
    <2>3. QED
      BY <2>1, <2>2, FlagAndDigits
  <1>3. CASE SaveAddressForm(bytes, w)
    <2>1. PICK s \in Seq(Byte) : bytes = <<FLAG_SAVE_ADDRESS>> \o s
      BY <1>3 DEF SaveAddressForm
    <2>2. s \in Seq(Symbol) /\ FLAG_SAVE_ADDRESS \in Symbol
      BY <2>1, BytesAreSymbols, Symbols
    <2>3. QED
      BY <2>1, <2>2, FlagFirst
  <1>4. CASE SaveBytes32Form(bytes, w)
    <2>1. w \in Seq(Byte)
      BY Powers DEF Word
    <2>2. w \in Seq(Symbol) /\ FLAG_SAVE_BYTES32 \in Symbol
      BY <2>1, BytesAreSymbols, Symbols
    <2>3. QED
      BY <1>4, <2>2, FlagFirst DEF SaveBytes32Form
  <1>5. QED
    BY <1>1, <1>2, <1>3, <1>4 DEF IndexedForm
=============================================================================
