-------------------------- MODULE RoundTripProofs --------------------------
(***************************************************************************)
(* Any word that the program is asked to compress by itself comes back as  *)
(* it was, whatever flags are allowed, and whatever is in the storage and  *)
(* is saved there meanwhile.  For that, what the encoder chooses for a     *)
(* word is shown to be one of the forms of module WordProofs.              *)
(***************************************************************************)
EXTENDS WordProofs

----------------------------------------------------------------------------
(* The encoder: what it chooses for a word that is all of its input *)

(* An encoding that needs nothing but the word. *)
IsPlain(encoding, w) == encoding.type = "Stateless" /\ PlainForm(encoding.bytes, w)

(* Two bytes, one after the other. *)
LEMMA TwoBytes ==
    ASSUME NEW a \in Nat, NEW b \in Nat
    PROVE  <<a, b>> = <<a>> \o <<b>> /\ <<a>> \in Seq(Nat) /\ <<b>> \in Seq(Nat)
  <1> DEFINE t == <<a>> \o <<b>>
  <1>1. /\ <<a>> \in Seq(Nat) /\ Len(<<a>>) = 1 /\ <<a>>[1] = a
        /\ <<b>> \in Seq(Nat) /\ Len(<<b>>) = 1 /\ <<b>>[1] = b
    OBVIOUS
  <1>2. /\ t \in Seq(Nat) /\ Len(t) = 2
        /\ \A i \in 1 .. 2 : t[i] = IF i <= 1 THEN <<a>>[i] ELSE <<b>>[i - 1]
    BY <1>1, ConcatProperties
  <1> HIDE DEF t
  <1>3. t[1] = a /\ t[2] = b
    BY <1>1, <1>2
  <1>4. t = <<a, b>>
    BY <1>2, <1>3
  <1>5. QED
    BY <1>1, <1>4 DEF t

(* A number in two parts: a power of 10 that divides it, and the quotient. *)
LEMMA MantissaFormIs ==
    ASSUME NEW w \in Word, NEW maxExponent, NEW maxMantissa \in Nat,
           NEW m \in MantissaForms(Value(w), maxExponent, maxMantissa)
    PROVE  \E e \in 1 .. MaxPow10 :
              /\ e < maxExponent /\ m.exponent = e
              /\ m.mantissa \in Nat /\ m.mantissa <= maxMantissa
              /\ Value(w) = m.mantissa * Pow10(e)
  <1> DEFINE v == Value(w)
             divides(e) == Pow10(e) <= v /\ v % Pow10(e) = 0
             fits(e) == e < maxExponent /\ divides(e) /\ v \div Pow10(e) <= maxMantissa
             F == {e \in 1 .. MaxPow10 : fits(e)}
  <1>1. PICK e \in FirstOf(F) : m = [exponent |-> e, mantissa |-> v \div Pow10(e)]
    BY DEF MantissaForms
  <1>2. e \in F
    <2>1. F \subseteq Nat
      BY FlagsAssumption
    <2> HIDE DEF F
    <2>2. F # {} /\ e = Min(F)
      BY <1>1 DEF FirstOf
    <2>3. QED
      BY <2>1, <2>2, MinIsLeast
  <1> DEFINE p == Pow10(e)
             q == v \div p
  <1>3. p \in Nat \ {0} /\ v \in Nat
    <2>1. e \in 0 .. MaxPow10
      BY <1>2
    <2>2. QED
      BY <2>1, PowersAssumption, ValueOfWord DEF Pow10
  <1>4. e \in 1 .. MaxPow10 /\ e < maxExponent /\ v % p = 0 /\ q <= maxMantissa
    BY <1>2
  <1>5. m.exponent = e /\ m.mantissa = q
    BY <1>1
  <1> HIDE DEF v, F, p
  <1>6. q \in Nat /\ v = q * p
    <2>1. v \div p \in Nat /\ v = (v \div p) * p + (v % p)
      BY <1>3, DivisionIsExact
    <2>2. (v \div p) * p \in Nat
      BY <1>3, <2>1
    <2>3. QED
      BY <1>4, <2>1, <2>2
  <1>7. QED
    BY <1>4, <1>5, <1>6 DEF v, p

(* One of a word other than zero: all of its options but the last, and     *)
(* those that use the storage.                                             *)
LEMMA LiteralIsPlain ==
    ASSUME NEW w \in Word, NEW buf, NEW encoding \in LiteralOption(buf, Value(w))
    PROVE  IsPlain(encoding, w)
  <1>1. Value(w) <= MAX_LITERAL /\ encoding = Stateless(<<LITERAL_ZERO + Value(w)>>)
    BY DEF LiteralOption, When
  <1>2. Value(w) \in 0 .. MAX_LITERAL
    BY <1>1, ValueOfWord, FlagsAssumption, Powers DEF MAX_LITERAL
  <1>3. LiteralForm(encoding.bytes, w)
    BY <1>1, <1>2 DEF LiteralForm, Stateless, Encoding
  <1>4. QED
    BY <1>1, <1>3 DEF IsPlain, PlainForm, Stateless, Encoding

LEMMA WordIsPlain ==
    ASSUME NEW w \in Word, w # Zeros(WordBytes), NEW buf, Allows(buf, FLAG_READ_WORD(1))
    PROVE  IsPlain(EncodeWordBytes32(buf, TrimLeft(w)), w)
  <1> DEFINE s == TrimLeft(w)
  <1>1. s \in Seq(Byte) /\ Len(s) \in 0 .. WordBytes /\ Pad(s) = w /\ s # << >>
    BY TrimmedLeft
  <1> HIDE DEF s
  <1>2. Len(s) \in 1 .. WordBytes
    BY <1>1, Powers
  <1>3. EncodeWordBytes32(buf, s) = Stateless(<<FLAG_READ_WORD(Len(s))>> \o s)
    BY <1>1 DEF EncodeWordBytes32
  <1>4. WordForm(<<FLAG_READ_WORD(Len(s))>> \o s, w)
    BY <1>1, <1>2 DEF WordForm
  <1>5. QED
    BY <1>3, <1>4 DEF IsPlain, PlainForm, Stateless, Encoding, s

LEMMA WordInvIsPlain ==
    ASSUME NEW w \in Word, w # Zeros(WordBytes), NEW buf, Allows(buf, FLAG_READ_WORD_INV)
    PROVE  IsPlain(EncodeWordBytes32Inv(buf, TrimRight(w)), w)
  <1> DEFINE s == TrimRight(w)
             n == Len(s)
  <1>1. s \in Seq(Byte) /\ n \in 0 .. WordBytes /\ PadRight(s) = w /\ s # << >>
    BY TrimmedRight
  <1> HIDE DEF s
  <1>2. n \in 1 .. WordBytes
    BY <1>1, Powers
  <1>3. EncodeWordBytes32Inv(buf, s) = Stateless(<<FLAG_READ_WORD_INV, FLAG_READ_WORD(n)>> \o s)
    BY <1>1 DEF EncodeWordBytes32Inv
  <1>4. <<FLAG_READ_WORD_INV, FLAG_READ_WORD(n)>> \o s
            = <<FLAG_READ_WORD_INV>> \o (<<FLAG_READ_WORD(n)>> \o s)
    <2> DEFINE a == FLAG_READ_WORD_INV
               b == FLAG_READ_WORD(n)
    <2>1. a \in Nat /\ b \in Nat /\ s \in Seq(Nat)
      BY <1>1, <1>2, FlagsDiffer, Powers DEF Byte
    <2> HIDE DEF a, b
    <2>2. <<a>> \in Seq(Nat) /\ <<b>> \in Seq(Nat) /\ <<a, b>> = <<a>> \o <<b>>
      BY <2>1, TwoBytes
    <2>3. (<<a>> \o <<b>>) \o s = <<a>> \o (<<b>> \o s)
      BY <2>1, <2>2, ConcatAssociative
    <2>4. QED
      BY <2>2, <2>3 DEF a, b
  <1>5. WordInvForm(<<FLAG_READ_WORD_INV>> \o (<<FLAG_READ_WORD(n)>> \o s), w)
    BY <1>1, <1>2 DEF WordInvForm
  <1> DEFINE bytes == <<FLAG_READ_WORD_INV>> \o (<<FLAG_READ_WORD(n)>> \o s)
  <1>6. EncodeWordBytes32Inv(buf, s) = Stateless(bytes) /\ WordInvForm(bytes, w)
    BY <1>3, <1>4, <1>5
  <1> HIDE DEF bytes
  <1>7. QED
    BY <1>6 DEF IsPlain, PlainForm, Stateless, Encoding, s

LEMMA ExponentIsPlain ==
    ASSUME NEW w \in Word, Value(w) # 0, NEW buf,
           NEW encoding \in ExponentOption(buf, FLAG_POW_2, Pow2Forms(Value(w)))
                            \cup ExponentOption(buf, FLAG_POW_10, Pow10Forms(Value(w)))
                            \cup ExponentOption(buf, FLAG_POW_2_MINUS_1, Pow2Minus1Forms(Value(w)))
    PROVE  IsPlain(encoding, w)
  <1>1. CASE encoding \in ExponentOption(buf, FLAG_POW_2, Pow2Forms(Value(w)))
    <2>1. PICK e \in Pow2Forms(Value(w)) : encoding = Stateless(<<FLAG_POW_2, e>>)
      BY <1>1 DEF ExponentOption
    <2>2. Pow2Form(encoding.bytes, w)
      BY <2>1 DEF Pow2Forms, Pow2Form, Stateless, Encoding
    <2>3. QED
      BY <2>1, <2>2 DEF IsPlain, PlainForm, Stateless, Encoding
  <1>2. CASE encoding \in ExponentOption(buf, FLAG_POW_10, Pow10Forms(Value(w)))
    <2>1. PICK e \in Pow10Forms(Value(w)) : encoding = Stateless(<<FLAG_POW_10, e>>)
      BY <1>2 DEF ExponentOption
    <2>2. Pow10Form(encoding.bytes, w)
      BY <2>1 DEF Pow10Forms, Pow10Form, Stateless, Encoding
    <2>3. QED
      BY <2>1, <2>2 DEF IsPlain, PlainForm, Stateless, Encoding
  <1>3. CASE encoding \in ExponentOption(buf, FLAG_POW_2_MINUS_1, Pow2Minus1Forms(Value(w)))
    <2>1. PICK e \in Pow2Minus1Forms(Value(w)) : encoding = Stateless(<<FLAG_POW_2_MINUS_1, e>>)
      BY <1>3 DEF ExponentOption
    <2>2. Pow2Minus1Form(encoding.bytes, w)
      BY <2>1 DEF Pow2Minus1Forms, Pow2Minus1Form, Stateless, Encoding
    <2>3. QED
      BY <2>1, <2>2 DEF IsPlain, PlainForm, Stateless, Encoding
  <1>4. QED
    BY <1>1, <1>2, <1>3

(* A mantissa that has its bits makes the number. *)
LEMMA MantissaFits ==
    ASSUME NEW w \in Word, NEW maxExponent, NEW maxMantissa \in Nat,
           NEW exponents \in Nat, NEW mantissas \in Nat \ {0},
           \A e \in 1 .. MaxPow10 : e < maxExponent => e < exponents,
           NEW size \in 2 .. 4, exponents * mantissas = ByteBase ^ size,
           NEW m \in MantissaForms(Value(w), maxExponent, maxMantissa), m.mantissa < mantissas,
           NEW flag
    PROVE  MantissaForm(<<flag>> \o Digits(PackMantissa(m, mantissas), size),
                        w, flag, mantissas, size)
  <1>1. PICK e \in 1 .. MaxPow10 :
           /\ e < maxExponent /\ m.exponent = e /\ m.mantissa \in Nat
           /\ Value(w) = m.mantissa * Pow10(e)
    BY MantissaFormIs
  <1> DEFINE q == m.mantissa
  <1>2. e \in Nat /\ e < exponents
    BY <1>1, FlagsAssumption
  <1>3. PackMantissa(m, mantissas) = e * mantissas + q
    BY <1>1 DEF PackMantissa
  <1>4. e * mantissas + q < ByteBase ^ size
    <2>1. (e + 1) * mantissas <= exponents * mantissas
      BY <1>2
    <2>2. (e + 1) * mantissas = e * mantissas + mantissas /\ e * mantissas \in Nat
      BY <1>2
    <2>3. exponents * mantissas \in Nat
      OBVIOUS
    <2>4. QED
      BY <1>1, <2>1, <2>2, <2>3
  <1>5. q \in 0 .. mantissas - 1
    BY <1>1
  <1>6. QED
    BY <1>1, <1>3, <1>4, <1>5 DEF MantissaForm

LEMMA MantissaSIsPlain ==
    ASSUME NEW w \in Word, NEW buf,
           \A m \in MantissaForms(Value(w), ExponentS, MantissaS) : m.mantissa # MantissaS,
           NEW encoding \in MantissaOption(buf, FLAG_POW_10_MANTISSA_S,
                                MantissaForms(Value(w), ExponentS, MantissaS), MantissaS, 2)
    PROVE  IsPlain(encoding, w)
  <1>1. PICK m \in MantissaForms(Value(w), ExponentS, MantissaS) :
           encoding = Stateless(<<FLAG_POW_10_MANTISSA_S>> \o Digits(PackMantissa(m, MantissaS), 2))
    BY DEF MantissaOption
  <1>2. /\ MantissaS \in Nat \ {0} /\ ExponentS \in Nat /\ 2 \in 2 .. 4
        /\ ExponentS * MantissaS = ByteBase ^ 2
    BY FlagsAssumption
  <1>3. m.mantissa < MantissaS
    <2>1. m.mantissa \in Nat /\ m.mantissa <= MantissaS
      BY MantissaFormIs, <1>2
    <2>2. QED
      BY <1>2, <2>1
  <1>4. MantissaForm(<<FLAG_POW_10_MANTISSA_S>> \o Digits(PackMantissa(m, MantissaS), 2),
                     w, FLAG_POW_10_MANTISSA_S, MantissaS, 2)
    BY <1>2, <1>3, MantissaFits
  <1>5. QED
    BY <1>1, <1>4 DEF IsPlain, PlainForm, Stateless, Encoding

LEMMA MantissaLIsPlain ==
    ASSUME NEW w \in Word, NEW buf,
           NEW encoding \in MantissaOption(buf, FLAG_POW_10_MANTISSA_L,
                                MantissaForms(Value(w), ExponentL - 1, MantissaL - 1), MantissaL, 3)
    PROVE  IsPlain(encoding, w)
  <1>1. PICK m \in MantissaForms(Value(w), ExponentL - 1, MantissaL - 1) :
           encoding = Stateless(<<FLAG_POW_10_MANTISSA_L>> \o Digits(PackMantissa(m, MantissaL), 3))
    BY DEF MantissaOption
  <1>2. /\ MantissaL \in Nat \ {0} /\ ExponentL \in Nat /\ 3 \in 2 .. 4
        /\ ExponentL * MantissaL = ByteBase ^ 3 /\ MantissaL - 1 \in Nat
    BY FlagsAssumption
  <1>3. m.mantissa < MantissaL
    <2>1. m.mantissa \in Nat /\ m.mantissa <= MantissaL - 1
      BY MantissaFormIs, <1>2
    <2>2. QED
      BY <1>2, <2>1
  <1>4. \A e \in 1 .. MaxPow10 : e < ExponentL - 1 => e < ExponentL
    BY <1>2, FlagsAssumption
  <1>5. MantissaForm(<<FLAG_POW_10_MANTISSA_L>> \o Digits(PackMantissa(m, MantissaL), 3),
                     w, FLAG_POW_10_MANTISSA_L, MantissaL, 3)
    BY <1>2, <1>3, <1>4, MantissaFits
  <1>6. QED
    BY <1>1, <1>5 DEF IsPlain, PlainForm, Stateless, Encoding

----------------------------------------------------------------------------
(* The first option there is *)

Chosen(options) == CHOOSE encoding \in options[Min({k \in DOMAIN options : options[k] # {}})] : TRUE

LEMMA FirstOption ==
    ASSUME NEW n \in Nat, NEW options, DOMAIN options = 1 .. n, NEW j \in 1 .. n, options[j] # {}
    PROVE  \E k \in 1 .. j : Chosen(options) \in options[k] /\ \A i \in 1 .. k - 1 : options[i] = {}
  <1> DEFINE S == {k \in DOMAIN options : options[k] # {}}
             k == Min(S)
  <1>1. S \subseteq Nat /\ j \in S
    OBVIOUS
  <1>2. k \in S /\ \A y \in S : k <= y
    <2> HIDE DEF S
    <2>1. QED
      BY <1>1, MinIsLeast
  <1>3. Chosen(options) \in options[k]
    BY <1>2, Zenon DEF Chosen
  <1> HIDE DEF k
  <1>4. k \in 1 .. j /\ \A i \in 1 .. k - 1 : options[i] = {}
    BY <1>1, <1>2
  <1>5. QED
    BY <1>3, <1>4

(* What is known of a new buffer: nothing was written before. *)
LEMMA NothingWritten ==
    ASSUME NEW w \in Word, NEW method, NEW settings, NEW buf, buf = NewBuffer(method, settings)
    PROVE  MirrorOption(buf, w) = {} /\ StoreFlagOption(buf, w) = {} /\ CopyOption(buf, w) = {}
  <1>1. Lookup(buf.usedFlags, w) = 0 /\ Lookup(buf.usedStorageFlags, w) = 0
    <2>1. DOMAIN NoMap = {}
      BY DEF NoMap
    <2>2. QED
      BY <2>1 DEF NewBuffer, Lookup
  <1>2. PastData(buf, w) = {}
    <2>1. Position(buf) = 1
      BY DEF NewBuffer, Position
    <2>2. Len(w) = WordBytes /\ WordBytes \in Nat /\ WordBytes >= 1
      BY Powers, FlagsAssumption DEF Word
    <2>3. QED
      BY <2>1, <2>2 DEF PastData
  <1>3. QED
    BY <1>1, <1>2 DEF MirrorOption, StoreFlagOption, CopyOption, FirstOf, When

(* What is chosen for a word that may be saved, and the options that save. *)
EncodedNew(buf, w) == EncodeWordOptimized(buf, w, TRUE)
OptionsOf(buf, w) == WordOptions(buf, w, TRUE)
IndexOptions(buf, w) == AddressIndexOption(buf, w) \cup Bytes32IndexOption(buf, w)
SaveOptions(buf, w) ==
    SaveAddressOption(buf, TrimLeft(w), TRUE) \cup SaveBytes32Option(buf, w, TrimLeft(w), TRUE)

(* The options, told apart as far as the word matters to them. *)
OptionHolds(buf, w, k, encoding) ==
    LET v == Value(w)
        s == TrimLeft(w)
        inv == TrimRight(w)
    IN  \/ k = 1 /\ encoding \in LiteralOption(buf, v)
        \/ /\ k \in {2, 6, 11}
           /\ Allows(buf, FLAG_READ_WORD(1))
           /\ encoding = EncodeWordBytes32(buf, s)
        \/ /\ k \in {3, 4, 5}
           /\ encoding \in ExponentOption(buf, FLAG_POW_2, Pow2Forms(v))
                           \cup ExponentOption(buf, FLAG_POW_10, Pow10Forms(v))
                           \cup ExponentOption(buf, FLAG_POW_2_MINUS_1, Pow2Minus1Forms(v))
        \/ /\ k \in {7, 12, 19}
           /\ Allows(buf, FLAG_READ_WORD_INV)
           /\ encoding = EncodeWordBytes32Inv(buf, inv)
        \/ /\ k = 8
           /\ encoding \in MantissaOption(buf, FLAG_POW_10_MANTISSA_S,
                                MantissaForms(v, ExponentS, MantissaS), MantissaS, 2)
        \/ /\ k \in {9, 10, 14}
           /\ encoding \in MirrorOption(buf, w) \cup StoreFlagOption(buf, w) \cup CopyOption(buf, w)
        \/ /\ k = 13
           /\ encoding \in MantissaOption(buf, FLAG_POW_10_MANTISSA_L,
                                MantissaForms(v, ExponentL - 1, MantissaL - 1), MantissaL, 3)
        \/ k \in {15, 16} /\ encoding \in IndexOptions(buf, w)
        \/ k \in {17, 18} /\ encoding \in SaveOptions(buf, w)
        \/ k = 20 /\ encoding = EncodeWordBytes32(buf, s)

LEMMA OptionsAre ==
    ASSUME NEW w, NEW buf, NEW options, options = OptionsOf(buf, w)
    PROVE  /\ DOMAIN options = 1 .. 20
           /\ \A k \in 1 .. 20 : \A encoding \in options[k] : OptionHolds(buf, w, k, encoding)
           /\ options[1] = LiteralOption(buf, Value(w))
           /\ options[6] = {} => ~ (Allows(buf, FLAG_READ_WORD(1)) /\ Len(TrimLeft(w)) <= 2)
           /\ options[15] = AddressIndexOption(buf, w) /\ options[16] = Bytes32IndexOption(buf, w)
           /\ options[20] # {}
  <1> DEFINE v == Value(w)
             s == TrimLeft(w)
             inv == TrimRight(w)
             short == MantissaForms(v, ExponentS, MantissaS)
             long == MantissaForms(v, ExponentL - 1, MantissaL - 1)
             canRead == Allows(buf, FLAG_READ_WORD(1))
             canReadInv == Allows(buf, FLAG_READ_WORD_INV)
  <1>1. /\ DOMAIN options = 1 .. 20
        /\ options[1] = LiteralOption(buf, v)
        /\ options[3] = ExponentOption(buf, FLAG_POW_2, Pow2Forms(v))
        /\ options[4] = ExponentOption(buf, FLAG_POW_10, Pow10Forms(v))
        /\ options[5] = ExponentOption(buf, FLAG_POW_2_MINUS_1, Pow2Minus1Forms(v))
        /\ options[6] = ReadWordOption(buf, s, 2)
        /\ options[8] = MantissaOption(buf, FLAG_POW_10_MANTISSA_S, short, MantissaS, 2)
        /\ options[9] = MirrorOption(buf, w)
        /\ options[10] = StoreFlagOption(buf, w)
        /\ options[11] = ReadWordOption(buf, s, 3)
        /\ options[12] = ReadWordInvOption(buf, inv, 2)
        /\ options[13] = MantissaOption(buf, FLAG_POW_10_MANTISSA_L, long, MantissaL, 3)
        /\ options[14] = CopyOption(buf, w)
        /\ options[15] = AddressIndexOption(buf, w)
        /\ options[16] = Bytes32IndexOption(buf, w)
        /\ options[20] = {EncodeWordBytes32(buf, s)}
    BY DEF OptionsOf, WordOptions
  <1>2. options[2] = IF canRead /\ Len(s) = 1 THEN {EncodeWordBytes32(buf, s)} ELSE {}
    BY DEF OptionsOf, WordOptions, When
  <1>3. options[7] = IF canReadInv /\ Len(inv) = 1 THEN {EncodeWordBytes32Inv(buf, inv)} ELSE {}
    BY DEF OptionsOf, WordOptions, When
  <1>4. options[17] \cup options[18] = SaveOptions(buf, w)
    BY DEF OptionsOf, WordOptions, SaveOptions
  <1>5. options[19] = IF canReadInv /\ Len(inv) < Len(s) - 1
                      THEN {EncodeWordBytes32Inv(buf, inv)} ELSE {}
    BY DEF OptionsOf, WordOptions, When
  <1>6. /\ options[6] = IF canRead /\ Len(s) <= 2 THEN {EncodeWordBytes32(buf, s)} ELSE {}
        /\ options[11] = IF canRead /\ Len(s) <= 3 THEN {EncodeWordBytes32(buf, s)} ELSE {}
        /\ options[12] = IF canReadInv /\ Len(inv) <= 2 THEN {EncodeWordBytes32Inv(buf, inv)} ELSE {}
    BY <1>1 DEF ReadWordOption, ReadWordInvOption, When
  <1>7. ASSUME NEW k \in 1 .. 20, NEW encoding \in options[k]
        PROVE  OptionHolds(buf, w, k, encoding)
    <2> HIDE DEF v, s, inv, short, long, canRead, canReadInv
    <2>1. CASE k \in {2, 6, 11}
      <3>1. canRead /\ encoding = EncodeWordBytes32(buf, s)
        BY <1>2, <1>6, <1>7, <2>1
      <3>2. QED
        BY <2>1, <3>1 DEF OptionHolds, canRead, s
    <2>2. CASE k \in {7, 12, 19}
      <3>1. canReadInv /\ encoding = EncodeWordBytes32Inv(buf, inv)
        BY <1>3, <1>5, <1>6, <1>7, <2>2
      <3>2. QED
        BY <2>2, <3>1 DEF OptionHolds, canReadInv, inv
    <2>3. CASE k \in {17, 18}
      <3>1. encoding \in SaveOptions(buf, w)
        BY <1>4, <1>7, <2>3
      <3>2. QED
        BY <2>3, <3>1 DEF OptionHolds
    <2>4. CASE k \in {1, 20}
      BY <1>1, <1>7, <2>4 DEF OptionHolds, v, s
    <2>5. CASE k \in {3, 4, 5}
      <3>1. encoding \in ExponentOption(buf, FLAG_POW_2, Pow2Forms(v))
                         \cup ExponentOption(buf, FLAG_POW_10, Pow10Forms(v))
                         \cup ExponentOption(buf, FLAG_POW_2_MINUS_1, Pow2Minus1Forms(v))
        BY <1>1, <1>7, <2>5
      <3>2. QED
        BY <2>5, <3>1 DEF OptionHolds, v
    <2>6. CASE k \in {8, 13}
      BY <1>1, <1>7, <2>6 DEF OptionHolds, v, short, long
    <2>7. CASE k \in {9, 10, 14}
      <3>1. encoding \in MirrorOption(buf, w) \cup StoreFlagOption(buf, w) \cup CopyOption(buf, w)
        BY <1>1, <1>7, <2>7
      <3>2. QED
        BY <2>7, <3>1 DEF OptionHolds
    <2>8. CASE k \in {15, 16}
      <3>1. encoding \in IndexOptions(buf, w)
        BY <1>1, <1>7, <2>8 DEF IndexOptions
      <3>2. QED
        BY <2>8, <3>1 DEF OptionHolds
    <2>9. QED
      BY <2>1, <2>2, <2>3, <2>4, <2>5, <2>6, <2>7, <2>8
  <1>8. options[6] = {} => ~ (canRead /\ Len(s) <= 2)
    BY <1>6
  <1>9. options[20] # {}
    BY <1>1
  <1>10. QED
    BY <1>1, <1>7, <1>8, <1>9

LEMMA EncodedWord ==
    ASSUME NEW w \in Word, NEW method, NEW settings, NEW buf, buf = NewBuffer(method, settings),
           ~ Spoilt(w, settings.opcodes),
           NEW encoding, encoding = EncodedNew(buf, w)
    PROVE  \/ encoding.type = "error" /\ ~ Permits(settings.opcodes, FLAG_READ_WORD(1))
           \/ IsPlain(encoding, w)
           \/ encoding \in IndexOptions(buf, w)
           \/ encoding \in SaveOptions(buf, w) /\ IndexOptions(buf, w) = {}
  <1> DEFINE options == OptionsOf(buf, w)
  <1>1. /\ DOMAIN options = 1 .. 20
        /\ \A k \in 1 .. 20 : \A e \in options[k] : OptionHolds(buf, w, k, e)
        /\ options[1] = LiteralOption(buf, Value(w))
        /\ options[6] = {} => ~ (Allows(buf, FLAG_READ_WORD(1)) /\ Len(TrimLeft(w)) <= 2)
        /\ options[15] = {} /\ options[16] = {} => IndexOptions(buf, w) = {}
        /\ options[20] # {}
    BY OptionsAre DEF IndexOptions
  <1>2. encoding = Chosen(options)
    BY DEF EncodedNew, OptionsOf, EncodeWordOptimized, Chosen
  <1>3. \A flag : Allows(buf, flag) <=> Permits(settings.opcodes, flag)
    BY DEF Allows, NewBuffer
  <1> HIDE DEF options
  <1>4. ASSUME NEW j \in 1 .. 20, options[j] # {}
        PROVE  \E k \in 1 .. j : encoding \in options[k] /\ \A i \in 1 .. k - 1 : options[i] = {}
    <2>1. DOMAIN options = 1 .. 20 /\ 20 \in Nat
      BY <1>1
    <2>2. \E k \in 1 .. j : /\ Chosen(options) \in options[k]
                            /\ \A i \in 1 .. k - 1 : options[i] = {}
      BY <1>4, <2>1, FirstOption, Zenon
    <2>3. QED
      BY <1>2, <2>2
  <1>5. CASE w = Zeros(WordBytes)
    <2>1. Value(w) = 0 /\ Allows(buf, LITERAL_ZERO)
      BY <1>3, <1>5, ValueOfWord DEF Spoilt
    <2>2. LiteralOption(buf, Value(w)) # {}
      <3>1. Value(w) <= MAX_LITERAL
        BY <2>1, FlagsAssumption, Powers DEF MAX_LITERAL
      <3>2. QED
        BY <2>1, <3>1 DEF LiteralOption, When
    <2>3. encoding \in LiteralOption(buf, Value(w))
      <3>1. 1 \in 1 .. 20 /\ options[1] # {}
        BY <1>1, <2>2
      <3>2. PICK k \in 1 .. 1 : encoding \in options[k]
        BY <1>4, <3>1
      <3>3. QED
        BY <1>1, <3>2
    <2>4. QED
      BY <2>3, LiteralIsPlain
  <1>6. CASE w # Zeros(WordBytes)
    <2>1. Value(w) # 0
      <3>1. WordBytes \in Sizes /\ Zeros(WordBytes) \in Word
        BY Powers DEF Zeros, Word, Byte
      <3>2. WordOf(0) = Zeros(WordBytes) /\ WordOf(Value(w)) = w
        BY <3>1, ValueOfWord
      <3>3. QED
        BY <1>6, <3>2
    <2>2. PICK k \in 1 .. 20 : encoding \in options[k] /\ \A i \in 1 .. k - 1 : options[i] = {}
      <3>1. options[20] # {} /\ 20 \in 1 .. 20
        BY <1>1
      <3>2. QED
        BY <1>4, <3>1
    <2>3. OptionHolds(buf, w, k, encoding)
      BY <1>1, <2>2
    <2>4. CASE k = 1
      BY <2>3, <2>4, LiteralIsPlain DEF OptionHolds
    <2>5. CASE k \in {2, 6, 11}
      <3>1. Allows(buf, FLAG_READ_WORD(1)) /\ encoding = EncodeWordBytes32(buf, TrimLeft(w))
        BY <2>3, <2>5 DEF OptionHolds
      <3>2. QED
        BY <1>6, <3>1, WordIsPlain
    <2>6. CASE k \in {3, 4, 5}
      <3>1. encoding \in ExponentOption(buf, FLAG_POW_2, Pow2Forms(Value(w)))
                         \cup ExponentOption(buf, FLAG_POW_10, Pow10Forms(Value(w)))
                         \cup ExponentOption(buf, FLAG_POW_2_MINUS_1, Pow2Minus1Forms(Value(w)))
        BY <2>3, <2>6 DEF OptionHolds
      <3>2. QED
        BY <2>1, <3>1, ExponentIsPlain
    <2>7. CASE k \in {7, 12, 19}
      <3>1. Allows(buf, FLAG_READ_WORD_INV) /\ encoding = EncodeWordBytes32Inv(buf, TrimRight(w))
        BY <2>3, <2>7 DEF OptionHolds
      <3>2. QED
        BY <1>6, <3>1, WordInvIsPlain
    <2>8. CASE k = 8
      <3>1. options[6] = {}
        BY <2>2, <2>8
      <3>2. encoding \in MantissaOption(buf, FLAG_POW_10_MANTISSA_S,
                             MantissaForms(Value(w), ExponentS, MantissaS), MantissaS, 2)
        BY <2>3, <2>8 DEF OptionHolds
      <3>3. Allows(buf, FLAG_POW_10_MANTISSA_S)
        BY <3>2 DEF MantissaOption
      <3>4. \A m \in MantissaForms(Value(w), ExponentS, MantissaS) : m.mantissa # MantissaS
        BY <1>1, <1>3, <3>1, <3>3 DEF Spoilt
      <3>5. QED
        BY <3>2, <3>4, MantissaSIsPlain
    <2>9. k \notin {9, 10, 14}
      <3>1. k \in {9, 10, 14} =>
               encoding \in MirrorOption(buf, w) \cup StoreFlagOption(buf, w) \cup CopyOption(buf, w)
        BY <2>3 DEF OptionHolds
      <3>2. QED
        BY <3>1, NothingWritten
    <2>10. CASE k = 13
      <3>1. encoding \in MantissaOption(buf, FLAG_POW_10_MANTISSA_L,
                             MantissaForms(Value(w), ExponentL - 1, MantissaL - 1), MantissaL, 3)
        BY <2>3, <2>10 DEF OptionHolds
      <3>2. QED
        BY <3>1, MantissaLIsPlain
    <2>11. CASE k \in {15, 16}
      BY <2>3, <2>11 DEF OptionHolds
    <2>12. CASE k \in {17, 18}
      <3>1. encoding \in SaveOptions(buf, w)
        BY <2>3, <2>12 DEF OptionHolds
      <3>2. options[15] = {} /\ options[16] = {}
        BY <2>2, <2>12
      <3>3. QED
        BY <1>1, <3>1, <3>2
    <2>13. CASE k = 20
      <3>1. encoding = EncodeWordBytes32(buf, TrimLeft(w))
        BY <2>3, <2>13 DEF OptionHolds
      <3>2. CASE Allows(buf, FLAG_READ_WORD(1))
        BY <1>6, <3>1, <3>2, WordIsPlain
      <3>3. CASE ~ Allows(buf, FLAG_READ_WORD(1))
        <4>1. encoding.type = "error"
          BY <3>1, <3>3 DEF EncodeWordBytes32, NoEncoding, Encoding
        <4>2. QED
          BY <1>3, <3>3, <4>1
      <3>4. QED
        BY <3>2, <3>3
    <2>14. QED
      BY <2>4, <2>5, <2>6, <2>7, <2>8, <2>9, <2>10, <2>11, <2>12, <2>13
  <1>7. QED
    BY <1>5, <1>6

(* An index is written in as many bytes as it needs. *)
LEMMA PointerFits ==
    ASSUME NEW index \in Nat, index < ByteBase ^ 4
    PROVE  PointerSize(index) \in 2 .. 4 /\ index < ByteBase ^ PointerSize(index)
  <1> DEFINE S == {size \in 2 .. 4 : index < ByteBase ^ size} \cup {4}
  <1>1. S \subseteq Nat /\ S # {}
    OBVIOUS
  <1>2. PointerSize(index) \in S
    <2>1. PointerSize(index) = Min(S)
      BY DEF PointerSize
    <2> HIDE DEF S
    <2>2. QED
      BY <1>1, <2>1, MinIsLeast
  <1>3. QED
    BY <1>2

(* A word that has an index is read by it. *)
LEMMA IndexOptionReads ==
    ASSUME NEW w \in Word, NEW buf, NEW encoding \in IndexOptions(buf, w),
           NEW addrs \in Seq(Word), NEW words \in Seq(Word),
           Len(addrs) < ByteBase ^ 4, Len(words) < ByteBase ^ 4,
           \A u \in DOMAIN buf.settings.addressIndexes :
              /\ buf.settings.addressIndexes[u] \in DOMAIN addrs
              /\ addrs[buf.settings.addressIndexes[u]] = u,
           \A u \in DOMAIN buf.settings.bytes32Indexes :
              /\ buf.settings.bytes32Indexes[u] \in DOMAIN words
              /\ words[buf.settings.bytes32Indexes[u]] = u
    PROVE  /\ buf.settings.useStorage
           /\ encoding.type = "ReadStorage"
           /\ IndexedForm(encoding.bytes, w, addrs, words)
  <1>1. CASE encoding \in AddressIndexOption(buf, w)
    <2> DEFINE index == Lookup(buf.settings.addressIndexes, w)
               size == PointerSize(index)
    <2>1. /\ buf.settings.useStorage /\ index # 0
          /\ encoding = Encoding(<<FLAG_READ_ADDRESS(size)>> \o Digits(index, size), "ReadStorage")
      BY <1>1 DEF AddressIndexOption, When
    <2>2. w \in DOMAIN buf.settings.addressIndexes /\ index = buf.settings.addressIndexes[w]
      BY <2>1 DEF Lookup
    <2>3. index \in DOMAIN addrs /\ addrs[index] = w
      BY <2>2
    <2> HIDE DEF index
    <2>4. index \in Nat /\ index < ByteBase ^ 4
      <3>1. Len(addrs) \in Nat /\ ByteBase ^ 4 \in Nat /\ index \in 1 .. Len(addrs)
        BY <2>3, Powers DEF Sizes
      <3> DEFINE p == ByteBase ^ 4
      <3> HIDE DEF p
      <3>2. QED
        BY <3>1 DEF p
    <2>5. size \in 2 .. 4 /\ index < ByteBase ^ size
      BY <2>4, PointerFits
    <2> HIDE DEF size
    <2>6. IndexForm(<<FLAG_READ_ADDRESS(size)>> \o Digits(index, size), w, FLAG_READ_ADDRESS, addrs)
      BY <2>3, <2>5 DEF IndexForm
    <2>7. QED
      BY <2>1, <2>6 DEF IndexedForm, Encoding
  <1>2. CASE encoding \in Bytes32IndexOption(buf, w)
    <2> DEFINE index == Lookup(buf.settings.bytes32Indexes, w)
               size == PointerSize(index)
    <2>1. /\ buf.settings.useStorage /\ index # 0
          /\ encoding = Encoding(<<FLAG_READ_BYTES32(size)>> \o Digits(index, size), "ReadStorage")
      BY <1>2 DEF Bytes32IndexOption, When
    <2>2. w \in DOMAIN buf.settings.bytes32Indexes /\ index = buf.settings.bytes32Indexes[w]
      BY <2>1 DEF Lookup
    <2>3. index \in DOMAIN words /\ words[index] = w
      BY <2>2
    <2> HIDE DEF index
    <2>4. index \in Nat /\ index < ByteBase ^ 4
      <3>1. Len(words) \in Nat /\ ByteBase ^ 4 \in Nat /\ index \in 1 .. Len(words)
        BY <2>3, Powers DEF Sizes
      <3> DEFINE p == ByteBase ^ 4
      <3> HIDE DEF p
      <3>2. QED
        BY <3>1 DEF p
    <2>5. size \in 2 .. 4 /\ index < ByteBase ^ size
      BY <2>4, PointerFits
    <2> HIDE DEF size
    <2>6. IndexForm(<<FLAG_READ_BYTES32(size)>> \o Digits(index, size), w, FLAG_READ_BYTES32, words)
      BY <2>3, <2>5 DEF IndexForm
    <2>7. QED
      BY <2>1, <2>6 DEF IndexedForm, Encoding
  <1>3. QED
    BY <1>1, <1>2 DEF IndexOptions

(* A word that has no index is saved as what it is, an address or a word.  *)
LEMMA SaveOptionSaves ==
    ASSUME NEW w \in Word, NEW buf, NEW encoding \in SaveOptions(buf, w), IndexOptions(buf, w) = {},
           \A u \in DOMAIN buf.settings.addressIndexes : buf.settings.addressIndexes[u] # 0,
           \A u \in DOMAIN buf.settings.bytes32Indexes : buf.settings.bytes32Indexes[u] # 0
    PROVE  /\ buf.settings.useStorage
           /\ encoding.type = "WriteStorage"
           /\ SaveAddressForm(encoding.bytes, w) \/ SaveBytes32Form(encoding.bytes, w)
           /\ w \notin DOMAIN buf.settings.addressIndexes
           /\ w \notin DOMAIN buf.settings.bytes32Indexes
  <1> DEFINE s == TrimLeft(w)
             n == Len(s)
  <1>1. buf.settings.useStorage
    BY DEF SaveOptions, SaveAddressOption, SaveBytes32Option, When
  <1>2. Lookup(buf.settings.addressIndexes, w) = 0 /\ Lookup(buf.settings.bytes32Indexes, w) = 0
    BY <1>1 DEF IndexOptions, AddressIndexOption, Bytes32IndexOption, When
  <1>3. /\ w \notin DOMAIN buf.settings.addressIndexes
        /\ w \notin DOMAIN buf.settings.bytes32Indexes
    BY <1>2 DEF Lookup
  <1>4. CASE encoding \in SaveAddressOption(buf, s, TRUE)
    <2>1. /\ n \in MinAddressBytes .. AddressBytes
          /\ encoding = Encoding(<<FLAG_SAVE_ADDRESS>> \o Zeros(AddressBytes - n) \o s, "WriteStorage")
      BY <1>4 DEF SaveAddressOption, When
    <2> DEFINE k == AddressBytes - n
               t == Zeros(k) \o s
    <2>2. s \in Seq(Byte) /\ n \in Nat /\ n <= WordBytes /\ Pad(s) = w
      BY TrimmedLeft, Powers
    <2> HIDE DEF s
    <2>3. k \in Nat /\ n + k = AddressBytes /\ AddressBytes \in 1 .. WordBytes
      BY <2>1, <2>2, FlagsAssumption
    <2> HIDE DEF k
    <2> DEFINE z == Zeros(k)
    <2>4. z \in Seq(Byte) /\ Len(z) = k /\ \A i \in 1 .. k : z[i] = 0
      <3>1. 0 \in Byte
        BY Powers DEF Byte
      <3>2. QED
        BY <2>3, <3>1 DEF Zeros
    <2>5. /\ t \in Seq(Byte) /\ Len(t) = AddressBytes
          /\ \A i \in 1 .. AddressBytes : t[i] = IF i <= k THEN 0 ELSE s[i - k]
      <3>1. /\ t \in Seq(Byte) /\ Len(t) = k + n
            /\ \A i \in 1 .. k + n : t[i] = IF i <= k THEN z[i] ELSE s[i - k]
        <4> HIDE DEF z
        <4>1. /\ z \o s \in Seq(Byte) /\ Len(z \o s) = Len(z) + Len(s)
              /\ \A i \in 1 .. Len(z) + Len(s) :
                    (z \o s)[i] = IF i <= Len(z) THEN z[i] ELSE s[i - Len(z)]
          BY <2>2, <2>4, ConcatProperties
        <4>2. t = z \o s
          BY DEF t, z
        <4>3. QED
          BY <2>4, <4>1, <4>2
      <3> HIDE DEF t, z
      <3>2. QED
        BY <2>2, <2>3, <2>4, <3>1
    <2> HIDE DEF t
    <2>6. Pad(t) = w
      <3> DEFINE W == WordBytes
      <3>1. W \in Nat /\ AddressBytes <= W
        BY <2>3, Powers
      <3>2. Pad(t) = [i \in 1 .. W |-> IF i <= W - AddressBytes THEN 0 ELSE t[i - (W - AddressBytes)]]
        BY <2>5, <3>1, PadIs
      <3>3. w = [i \in 1 .. W |-> IF i <= W - n THEN 0 ELSE s[i - (W - n)]]
        BY <2>2, PadIs
      <3>4. ASSUME NEW i \in 1 .. W
            PROVE  (IF i <= W - AddressBytes THEN 0 ELSE t[i - (W - AddressBytes)])
                       = (IF i <= W - n THEN 0 ELSE s[i - (W - n)])
        <4>1. CASE i <= W - AddressBytes
          <5>1. i <= W - n
            BY <2>2, <2>3, <3>1, <4>1
          <5>2. QED
            BY <4>1, <5>1
        <4>2. CASE ~ (i <= W - AddressBytes)
          <5> DEFINE j == i - (W - AddressBytes)
          <5>1. j \in 1 .. AddressBytes /\ (j <= k <=> i <= W - n) /\ j - k = i - (W - n)
            BY <2>2, <2>3, <3>1, <4>2
          <5>2. t[j] = IF j <= k THEN 0 ELSE s[j - k]
            BY <2>5, <5>1
          <5> HIDE DEF j
          <5>3. QED
            BY <4>2, <5>1, <5>2 DEF j
        <4>3. QED
          BY <4>1, <4>2
      <3>5. QED
        BY <3>2, <3>3, <3>4
    <2>7. (<<FLAG_SAVE_ADDRESS>> \o Zeros(k)) \o s = <<FLAG_SAVE_ADDRESS>> \o t
      <3>1. /\ <<FLAG_SAVE_ADDRESS>> \in Seq(Nat) /\ Zeros(k) \in Seq(Nat) /\ s \in Seq(Nat)
        BY <2>2, <2>4, FlagsDiffer, Powers DEF Byte
      <3>2. QED
        BY <3>1, ConcatAssociative DEF t
    <2>8. SaveAddressForm(<<FLAG_SAVE_ADDRESS>> \o t, w)
      BY <2>5, <2>6 DEF SaveAddressForm
    <2>9. encoding = Encoding(<<FLAG_SAVE_ADDRESS>> \o t, "WriteStorage")
      BY <2>1, <2>7 DEF k
    <2>10. QED
      BY <1>1, <1>3, <2>8, <2>9 DEF Encoding
  <1>5. CASE encoding \in SaveBytes32Option(buf, w, s, TRUE)
    <2>1. encoding = Encoding(<<FLAG_SAVE_BYTES32>> \o w, "WriteStorage")
      BY <1>5 DEF SaveBytes32Option, When
    <2>2. QED
      BY <1>1, <1>3, <2>1 DEF Encoding, SaveBytes32Form
  <1>6. QED
    BY <1>4, <1>5 DEF SaveOptions

(* What is written to a new buffer, and is the whole payload. *)
WrittenNew(buf, w) == WriteWord(buf, w, TRUE)

LEMMA WrittenWord ==
    ASSUME NEW w \in Word, NEW method, NEW settings, NEW buf, buf = NewBuffer(method, settings),
           NEW encoding, encoding = EncodedNew(buf, w),
           NEW written, written = WrittenNew(buf, w)
    PROVE  IF encoding.type = "error" THEN written.status = "error"
           ELSE written.status = "ok" /\ written.commited = <<method>> \o encoding.bytes
  <1>1. Pad(w) = w
    <2>1. w \in Seq(Byte) /\ Len(w) = WordBytes /\ WordBytes \in Nat
      BY Powers DEF Word
    <2>2. Pad(w) = [i \in 1 .. WordBytes |-> w[i]]
      <3>1. Pad(w) = [i \in 1 .. WordBytes |->
                        IF i <= WordBytes - Len(w) THEN 0 ELSE w[i - (WordBytes - Len(w))]]
        BY <2>1, PadIs
      <3>2. \A i \in 1 .. WordBytes : ~ (i <= WordBytes - Len(w)) /\ i - (WordBytes - Len(w)) = i
        BY <2>1
      <3>3. QED
        BY <3>1, <3>2
    <2>3. QED
      BY <2>2 DEF Word
  <1>2. CASE encoding.type = "error"
    <2>1. written = Fail(buf)
      BY <1>1, <1>2 DEF WrittenNew, WriteWord, EncodedNew
    <2>2. QED
      BY <1>2, <2>1 DEF Fail, Stop, NewBuffer
  <1>3. CASE encoding.type # "error"
    <2>1. written = End(buf, w, encoding.bytes, encoding.type)
      BY <1>1, <1>3 DEF WrittenNew, WriteWord, EncodedNew
    <2>2. QED
      BY <1>3, <2>1 DEF End, NewBuffer
  <1>4. QED
    BY <1>2, <1>3

----------------------------------------------------------------------------
(* The indexes that a client knows are those of the words. *)
LEMMA IndexesAre ==
    ASSUME NEW words \in Seq(Word), NEW n \in 0 .. Len(words)
    PROVE  \A u \in DOMAIN IndexesOf(words, n) :
              /\ IndexesOf(words, n)[u] \in DOMAIN words
              /\ words[IndexesOf(words, n)[u]] = u
              /\ IndexesOf(words, n)[u] # 0
  <1> SUFFICES ASSUME NEW u \in {words[i] : i \in 1 .. n}
               PROVE  /\ IndexesOf(words, n)[u] \in DOMAIN words
                      /\ words[IndexesOf(words, n)[u]] = u
                      /\ IndexesOf(words, n)[u] # 0
    BY DEF IndexesOf
  <1> DEFINE S == {i \in 1 .. n : words[i] = u}
  <1>1. IndexesOf(words, n)[u] = Max(S)
    BY DEF IndexesOf
  <1>2. n \in Nat /\ n <= Len(words) /\ S \subseteq 0 .. n /\ S # {}
    OBVIOUS
  <1>3. Max(S) \in S
    <2> HIDE DEF S
    <2>1. QED
      BY <1>2, MaxIsGreatest
  <1>4. QED
    BY <1>1, <1>2, <1>3

----------------------------------------------------------------------------
(* The machine, when nobody waits for the flag it reads *)

(* After it, the method returns. *)
LEMMA OnlyFlagsAndReturns ==
    ASSUME DecompressorStep, stack = << >>, pc \in {"idle", "failed", "sent", "flag", "back", "done"}
    PROVE  pc = "flag" \/ ReturnOutput
  <1> SUFFICES ASSUME pc # "flag"
               PROVE  ReturnOutput
    OBVIOUS
  <1>1. \A wait : ~ Waits(wait)
    BY DEF Waits
  <1>2. ~ FlagStep
    BY <1>1
       DEF FlagStep, NoOp, Literal, ReadWord, ReadWordInv, WriteZeros, ReadPow2, ReadPow2Minus1,
           ReadPow10, ReadMantissaS, ReadMantissaL, ReadMantissa, CopyCalldataS, CopyCalldataL,
           CopyCalldataXL, CopyCalldata, SaveAddress, SaveBytes32, ReadAddress, ReadBytes32,
           ReadStoreFlagS, ReadStoreFlagL, ReadStoreFlag, MirrorFlagS, MirrorFlagL, MirrorFlag,
           NestedFlagsS, NestedFlagsL, NestedFlags, ReadNBytes, ReadDynamicAbi, ReadAbi0, ReadAbi,
           NextFlag, NoMoreFlags, MirrorEnds, CopyBytes, PadBytes,
           ReadStaticParam, ReadDynamicParam, NextParam, NoMoreParams, Reading
  <1>3. ~ SequenceStep
    BY <1>1
       DEF SequenceStep, SequenceSignature, SequenceAddress, SequenceNode, SequenceSubdigest,
           SequenceBranch, SequenceNested, SequenceDynamicSignature, SequenceExecute,
           SequenceSelfExecute, SequenceSigNoChain, SequenceSig, SequenceLSigNoChain, SequenceLSig,
           ReadSequenceSignature, ReadChainedS, ReadChainedL, ReadChained, Reading,
           KeepLastBytes, WriteSize, ReadDynamicPart, NextChained, NoMoreChained,
           ReadSpace, ReadNonce, ReadExecuted, ReadTransactions, ReadTransaction,
           FieldIsFlag, FieldIsZero, FieldIsData, FieldIsNoData, WaitsForField,
           NextTransaction, NoMoreTransactions, ReadExecutedSignature
  <1>4. ~ (NextDecoded \/ NoMoreDecoded \/ Perform \/ NextPerformed \/ NoMorePerformed)
    BY <1>1 DEF NextDecoded, NoMoreDecoded, Perform, NextPerformed, NoMorePerformed, CallIsReady
  <1>5. QED
    BY <1>2, <1>3, <1>4 DEF DecompressorStep

----------------------------------------------------------------------------
(* The invariant *)

(* The bytes stand for the word: by themselves, or with the storage as it  *)
(* is, and they save it only if the client does not know it to be there.   *)
Carries(bytes, w) ==
    \/ PlainForm(bytes, w)
    \/ job.useStorage /\ IndexedForm(bytes, w, addresses, bytes32)
    \/ /\ job.useStorage
       /\ w \notin DOMAIN job.addressIndexes
       /\ w \notin DOMAIN job.bytes32Indexes
       /\ SaveAddressForm(bytes, w) \/ SaveBytes32Form(bytes, w)

Underway == pc \in {"sent", "flag"}

StorageInv ==
    /\ addresses \in Seq(Word)
    /\ bytes32 \in Seq(Word)
    /\ payloads \in 0 .. MaxPayloads
    /\ Len(addresses) <= MaxSaved + payloads
    /\ Len(bytes32) <= MaxSaved + payloads
    /\ Underway => /\ payloads > 0
                   /\ Len(addresses) < MaxSaved + payloads
                   /\ Len(bytes32) < MaxSaved + payloads

JobInv ==
    /\ job = [output |-> job.output, calls |-> job.calls, opcodes |-> job.opcodes,
              useStorage |-> job.useStorage, addressIndexes |-> job.addressIndexes,
              bytes32Indexes |-> job.bytes32Indexes, base |-> job.base]
    /\ made = << >>
    /\ job.calls = << >>
    /\ pc = "failed" => ~ Permits(job.opcodes, FLAG_READ_WORD(1))

MachineInv ==
    /\ stack = << >>
    /\ pc \in {"idle", "failed", "sent", "flag", "back", "done"}
    /\ calldata \in Seq(Symbol)
    /\ pc \in {"idle", "failed", "sent"} => rindex = 0
    /\ pc \in {"idle", "failed", "sent", "flag"} => memory = << >> /\ windex = 0
    /\ Underway =>
          /\ job.output \in Word
          /\ \E bytes : Carries(bytes, job.output) /\ calldata = <<METHOD_DECODE_ANY>> \o bytes
    /\ pc = "flag" => rindex = 1
    /\ pc \in {"back", "done"} =>
          /\ job.output \in Word
          /\ rindex = Len(calldata)
          /\ memory = job.output
          /\ windex = WordBytes

WordInv == StorageInv /\ JobInv /\ MachineInv

Hypotheses == WordsAlone /\ NoneSpoilt /\ IndexesFit

(* A payload that carries a word is made of the symbols of payloads. *)
LEMMA FormsAreFlagged ==
    ASSUME NEW w \in Word, NEW bytes, NEW addrs \in Seq(Word), NEW words \in Seq(Word),
           \/ PlainForm(bytes, w)
           \/ IndexedForm(bytes, w, addrs, words)
           \/ SaveAddressForm(bytes, w)
           \/ SaveBytes32Form(bytes, w)
    PROVE  IsFlagged(bytes, Symbol)
  <1>1. CASE PlainForm(bytes, w)
    <2>1. IsFlagged(bytes, FormFlags)
      BY <1>1, PlainIsFlagged
    <2>2. FormFlags \subseteq Symbol
      BY Symbols
    <2>3. QED
      BY <2>1, <2>2 DEF IsFlagged
  <1>2. CASE ~ PlainForm(bytes, w)
    BY <1>2, StoredIsFlagged
  <1>3. QED
    BY <1>1, <1>2

LEMMA SymbolsAreNumbers ==
    ASSUME NEW s \in Seq(Symbol)
    PROVE  s \in Seq(Nat)
  <1>1. /\ Len(s) \in Nat /\ s = [i \in 1 .. Len(s) |-> s[i]]
        /\ \A i \in 1 .. Len(s) : s[i] \in Symbol
    OBVIOUS
  <1>2. \A i \in 1 .. Len(s) : s[i] \in Nat
    BY <1>1, Symbols
  <1>3. QED
    BY <1>1, <1>2

(* The calldata is the method and the payload. *)
LEMMA PayloadIs ==
    ASSUME NEW bytes, IsFlagged(bytes, Symbol), NEW data, data = <<METHOD_DECODE_ANY>> \o bytes
    PROVE  /\ data \in Seq(Symbol) /\ data \in Seq(Nat)
           /\ Len(bytes) \in Nat \ {0} /\ Len(data) = 1 + Len(bytes)
           /\ data[1] = METHOD_DECODE_ANY
           /\ \A k \in 1 .. Len(bytes) : data[1 + k] = bytes[k]
  <1>1. METHOD_DECODE_ANY \in Symbol
    BY Symbols
  <1> DEFINE m == <<METHOD_DECODE_ANY>>
             t == m \o bytes
  <1>3. m \in Seq(Symbol) /\ Len(m) = 1 /\ m[1] = METHOD_DECODE_ANY
    BY <1>1
  <1>4. bytes \in Seq(Symbol) /\ Len(bytes) \in Nat \ {0}
    BY DEF IsFlagged
  <1>5. /\ t \in Seq(Symbol) /\ Len(t) = 1 + Len(bytes)
        /\ \A i \in 1 .. 1 + Len(bytes) : t[i] = IF i <= 1 THEN m[i] ELSE bytes[i - 1]
    <2> HIDE DEF m
    <2>1. /\ t \in Seq(Symbol) /\ Len(t) = Len(m) + Len(bytes)
          /\ \A i \in 1 .. Len(m) + Len(bytes) : t[i] = IF i <= Len(m) THEN m[i] ELSE bytes[i - Len(m)]
      BY <1>3, <1>4, ConcatProperties
    <2>2. QED
      BY <1>3, <2>1
  <1>6. data = t
    OBVIOUS
  <1> HIDE DEF t
  <1>7. \A k \in 1 .. Len(bytes) : t[1 + k] = bytes[k]
    <2> SUFFICES ASSUME NEW k \in 1 .. Len(bytes)
                 PROVE  t[1 + k] = bytes[k]
      OBVIOUS
    <2>1. 1 + k \in 1 .. 1 + Len(bytes) /\ ~ (1 + k <= 1) /\ 1 + k - 1 = k
      BY <1>4
    <2>2. QED
      BY <1>5, <2>1
  <1>8. t \in Seq(Nat)
    BY <1>5, SymbolsAreNumbers
  <1>9. t[1] = METHOD_DECODE_ANY
    <2>1. 1 \in 1 .. 1 + Len(bytes)
      BY <1>4
    <2>2. QED
      BY <1>3, <1>5, <2>1
  <1>10. QED
    BY <1>4, <1>5, <1>6, <1>7, <1>8, <1>9

LEMMA PayloadIsRead ==
    ASSUME NEW bytes, IsFlagged(bytes, Symbol), calldata = <<METHOD_DECODE_ANY>> \o bytes,
           rindex = 1
    PROVE  Reads(bytes) /\ Opcode = bytes[1]
  <1>1. /\ Len(bytes) \in Nat \ {0} /\ Len(calldata) = 1 + Len(bytes)
        /\ \A k \in 1 .. Len(bytes) : calldata[1 + k] = bytes[k]
    BY PayloadIs
  <1>2. Reads(bytes)
    BY <1>1 DEF Reads
  <1>3. 1 < Len(calldata) /\ 1 \in 1 .. Len(bytes)
    BY <1>1
  <1>4. QED
    BY <1>1, <1>2, <1>3 DEF Opcode, At

(* A word that was saved keeps its index. *)
LEMMA IndexedLater ==
    ASSUME NEW w, NEW bytes, NEW x \in Word, NEW addrs \in Seq(Word), NEW words \in Seq(Word),
           IndexedForm(bytes, w, addrs, words)
    PROVE  /\ IndexedForm(bytes, w, Append(addrs, x), words)
           /\ IndexedForm(bytes, w, addrs, Append(words, x))
  <1>1. ASSUME NEW s \in Seq(Word), NEW i \in DOMAIN s
        PROVE  i \in DOMAIN Append(s, x) /\ Append(s, x)[i] = s[i]
    OBVIOUS
  <1>2. CASE IndexForm(bytes, w, FLAG_READ_ADDRESS, addrs)
    <2>1. IndexForm(bytes, w, FLAG_READ_ADDRESS, Append(addrs, x))
      <3>1. PICK size \in 2 .. 4, i \in DOMAIN addrs :
               /\ i < ByteBase ^ size
               /\ bytes = <<FLAG_READ_ADDRESS(size)>> \o Digits(i, size)
               /\ addrs[i] = w
        BY <1>2 DEF IndexForm
      <3>2. i \in DOMAIN Append(addrs, x) /\ Append(addrs, x)[i] = w
        BY <1>1, <3>1
      <3>3. QED
        BY <3>1, <3>2 DEF IndexForm
    <2>2. QED
      BY <1>2, <2>1 DEF IndexedForm
  <1>3. CASE IndexForm(bytes, w, FLAG_READ_BYTES32, words)
    <2>1. IndexForm(bytes, w, FLAG_READ_BYTES32, Append(words, x))
      <3>1. PICK size \in 2 .. 4, i \in DOMAIN words :
               /\ i < ByteBase ^ size
               /\ bytes = <<FLAG_READ_BYTES32(size)>> \o Digits(i, size)
               /\ words[i] = w
        BY <1>3 DEF IndexForm
      <3>2. i \in DOMAIN Append(words, x) /\ Append(words, x)[i] = w
        BY <1>1, <3>1
      <3>3. QED
        BY <3>1, <3>2 DEF IndexForm
    <2>2. QED
      BY <1>3, <2>1 DEF IndexedForm
  <1>4. QED
    BY <1>2, <1>3 DEF IndexedForm

LEMMA InitIsInv == Init => WordInv
  <1> SUFFICES ASSUME Init
               PROVE  WordInv
    OBVIOUS
  <1> USE DEF Init, MachineInit
  <1>1. MaxPayloads \in Nat /\ MaxSaved \in Nat
    BY RoundTripAssumption
  <1>2. StorageInv
    BY <1>1 DEF StorageInv, Underway
  <1>3. JobInv
    BY DEF JobInv, NoJob
  <1>4. MachineInv
    BY DEF MachineInv, Underway
  <1>5. QED
    BY <1>2, <1>3, <1>4 DEF WordInv

(* The compressor is run: what it chooses for the word carries it. *)
LEMMA CompressKeepsInv ==
    ASSUME WordInv, Hypotheses, Resting,
           NEW request \in Requests, NEW settings \in Settings,
           NEW n \in 0 .. Len(addresses), NEW k \in 0 .. Len(bytes32),
           Compress(request, settings, n, k)
    PROVE  WordInv'
  <1> DEFINE w == request.data
             options == [opcodes |-> ParseAllowOpcodes(settings.allow, settings.disallow),
                         useStorage |-> settings.useStorage,
                         addressIndexes |-> IndexesOf(addresses, n),
                         bytes32Indexes |-> IndexesOf(bytes32, k)]
             buf == NewBuffer(METHOD_DECODE_ANY, options)
             encoding == EncodedNew(buf, w)
             written == WrittenNew(buf, w)
             fails == encoding.type = "error"
  <1>1. /\ request.command = "any" /\ w \in Word
        /\ Encode(request, options) = written
        /\ ~ Spoilt(w, options.opcodes)
    <2>1. request.command = "any" /\ w \in Word /\ WritesWordAlone(request, options)
      BY DEF Hypotheses, WordsAlone
    <2>2. Encode(request, options) = written
      BY <2>1, Zenon DEF WritesWordAlone, WrittenNew, buf, w
    <2>3. ~ Spoilt(w, options.opcodes)
      BY DEF Hypotheses, NoneSpoilt
    <2>4. QED
      BY <2>1, <2>2, <2>3
  <1>2. /\ payloads' = payloads + 1
        /\ job' = [output |-> w, calls |-> << >>, opcodes |-> options.opcodes,
                   useStorage |-> options.useStorage, addressIndexes |-> options.addressIndexes,
                   bytes32Indexes |-> options.bytes32Indexes, base |-> <<0, 0>>]
        /\ rindex' = 0 /\ memory' = << >> /\ windex' = 0 /\ made' = << >>
        /\ UNCHANGED <<stack, addresses, bytes32>>
        /\ IF written.status = "ok" THEN pc' = "sent" /\ calldata' = written.commited
           ELSE pc' = (IF written.status = "panic" THEN "panicked" ELSE "failed")
                /\ calldata' = << >>
    <2>1. Expected(request) = [output |-> w, calls |-> << >>]
      BY <1>1 DEF Expected, DataOf
    <2>2. IsPrinted(request, written) <=> written.status = "ok"
      BY <1>1 DEF IsPrinted, DropsErrors
    <2> HIDE DEF written
    <2>3. QED
      BY <1>1, <2>1, <2>2 DEF Compress, Send, storageVars
  <1>3. /\ fails => ~ Permits(options.opcodes, FLAG_READ_WORD(1))
        /\ ~ fails =>
              \/ IsPlain(encoding, w)
              \/ encoding \in IndexOptions(buf, w)
              \/ encoding \in SaveOptions(buf, w) /\ IndexOptions(buf, w) = {}
    <2>1. \/ encoding.type = "error" /\ ~ Permits(options.opcodes, FLAG_READ_WORD(1))
          \/ IsPlain(encoding, w)
          \/ encoding \in IndexOptions(buf, w)
          \/ encoding \in SaveOptions(buf, w) /\ IndexOptions(buf, w) = {}
      BY <1>1, EncodedWord
    <2>2. IsPlain(encoding, w) => ~ fails
      BY DEF IsPlain
    <2>3. encoding \in IndexOptions(buf, w) \cup SaveOptions(buf, w) => ~ fails
      BY DEF IndexOptions, SaveOptions, AddressIndexOption, Bytes32IndexOption,
             SaveAddressOption, SaveBytes32Option, When, Encoding
    <2>4. QED
      BY <2>1, <2>2, <2>3
  <1>4. IF fails THEN written.status = "error"
        ELSE written.status = "ok" /\ written.commited = <<METHOD_DECODE_ANY>> \o encoding.bytes
    BY <1>1, WrittenWord
  <1>5. buf.settings = options
    BY DEF NewBuffer
  <1>6. /\ addresses \in Seq(Word) /\ bytes32 \in Seq(Word)
        /\ Len(addresses) < ByteBase ^ 4 /\ Len(bytes32) < ByteBase ^ 4
    <2> DEFINE p == ByteBase ^ 4
    <2>1. p \in Nat /\ MaxSaved + MaxPayloads < p /\ MaxSaved \in Nat /\ MaxPayloads \in Nat
      <3>1. 4 \in Sizes
        BY DEF Sizes
      <3>2. QED
        BY <3>1, Powers, RoundTripAssumption DEF Hypotheses, IndexesFit
    <2>2. /\ payloads < MaxPayloads /\ payloads \in Nat
          /\ Len(addresses) <= MaxSaved + payloads /\ Len(bytes32) <= MaxSaved + payloads
          /\ addresses \in Seq(Word) /\ bytes32 \in Seq(Word)
      BY RoundTripAssumption DEF WordInv, StorageInv, Resting
    <2> HIDE DEF p
    <2>3. Len(addresses) \in Nat /\ Len(bytes32) \in Nat
      BY <2>2
    <2>4. Len(addresses) < p /\ Len(bytes32) < p
      BY <2>1, <2>2, <2>3
    <2>5. QED
      BY <2>2, <2>4 DEF p
  <1>7. /\ \A u \in DOMAIN options.addressIndexes :
              /\ options.addressIndexes[u] \in DOMAIN addresses
              /\ addresses[options.addressIndexes[u]] = u
              /\ options.addressIndexes[u] # 0
        /\ \A u \in DOMAIN options.bytes32Indexes :
              /\ options.bytes32Indexes[u] \in DOMAIN bytes32
              /\ bytes32[options.bytes32Indexes[u]] = u
              /\ options.bytes32Indexes[u] # 0
    BY <1>6, IndexesAre
  <1> HIDE DEF options, w, buf, encoding, written, fails
  <1>8. ASSUME ~ fails
        PROVE  \/ PlainForm(encoding.bytes, w)
               \/ options.useStorage /\ IndexedForm(encoding.bytes, w, addresses, bytes32)
               \/ /\ options.useStorage
                  /\ w \notin DOMAIN options.addressIndexes
                  /\ w \notin DOMAIN options.bytes32Indexes
                  /\ SaveAddressForm(encoding.bytes, w) \/ SaveBytes32Form(encoding.bytes, w)
    <2>1. CASE IsPlain(encoding, w)
      BY <2>1 DEF IsPlain
    <2>2. CASE encoding \in IndexOptions(buf, w)
      BY <1>1, <1>5, <1>6, <1>7, <2>2, IndexOptionReads
    <2>3. CASE encoding \in SaveOptions(buf, w) /\ IndexOptions(buf, w) = {}
      BY <1>1, <1>5, <1>7, <2>3, SaveOptionSaves
    <2>4. QED
      BY <1>3, <1>8, <2>1, <2>2, <2>3
  <1>9. PICK bytes, v : bytes = encoding.bytes /\ v = w
    OBVIOUS
  <1>10. ASSUME ~ fails
         PROVE  Carries(bytes, v)'
    <2>1. /\ job'.useStorage = options.useStorage
          /\ job'.addressIndexes = options.addressIndexes
          /\ job'.bytes32Indexes = options.bytes32Indexes
          /\ addresses' = addresses /\ bytes32' = bytes32
      BY <1>2
    <2>2. QED
      BY <1>8, <1>9, <1>10, <2>1 DEF Carries
  <1>11. ASSUME ~ fails
         PROVE  IsFlagged(bytes, Symbol)
    BY <1>1, <1>6, <1>8, <1>9, <1>11, FormsAreFlagged
  <1>12. StorageInv'
    <2>1. payloads + 1 \in 0 .. MaxPayloads /\ payloads \in Nat
      BY RoundTripAssumption DEF WordInv, StorageInv, Resting
    <2>2. /\ Len(addresses) \in Nat /\ Len(bytes32) \in Nat /\ MaxSaved \in Nat
          /\ Len(addresses) <= MaxSaved + payloads /\ Len(bytes32) <= MaxSaved + payloads
      BY <1>6, RoundTripAssumption DEF WordInv, StorageInv
    <2>3. QED
      BY <1>2, <1>6, <2>1, <2>2 DEF StorageInv, Underway
  <1>13. JobInv'
    <2>1. pc' = "failed" => fails
      BY <1>2, <1>4
    <2>2. job'.opcodes = options.opcodes /\ job'.calls = << >>
      BY <1>2
    <2>3. job' = [output |-> job'.output, calls |-> job'.calls, opcodes |-> job'.opcodes,
                  useStorage |-> job'.useStorage, addressIndexes |-> job'.addressIndexes,
                  bytes32Indexes |-> job'.bytes32Indexes, base |-> job'.base]
      BY <1>2
    <2>4. QED
      BY <1>2, <1>3, <2>1, <2>2, <2>3 DEF JobInv
  <1>14. MachineInv'
    <2>1. job'.output = w /\ stack' = << >>
      BY <1>2 DEF WordInv, MachineInv
    <2>2. CASE fails
      <3>1. pc' = "failed" /\ calldata' = << >>
        BY <1>2, <1>4, <2>2
      <3>2. QED
        BY <1>2, <2>1, <3>1 DEF MachineInv, Underway
    <2>3. CASE ~ fails
      <3>1. pc' = "sent" /\ calldata' = <<METHOD_DECODE_ANY>> \o bytes
        BY <1>2, <1>4, <1>9, <2>3
      <3>2. Carries(bytes, v)'
        BY <1>10, <2>3
      <3>3. calldata' \in Seq(Symbol)
        BY <1>11, <2>3, <3>1, PayloadIs
      <3>4. job'.output \in Word /\ job'.output = v
        BY <1>1, <1>9, <2>1
      <3>5. QED
        BY <1>2, <2>1, <3>1, <3>2, <3>3, <3>4 DEF MachineInv, Underway
    <2>4. QED
      BY <2>2, <2>3
  <1>15. QED
    BY <1>12, <1>13, <1>14 DEF WordInv

(* Others save a word. *)
LEMMA OthersKeepInv ==
    ASSUME WordInv, NEW x \in OthersWords, OthersSaveAddress(x) \/ OthersSaveBytes32(x)
    PROVE  WordInv'
  <1>1. /\ x \in Word
        /\ UNCHANGED <<calldata, rindex, memory, windex, stack, pc, made, job, payloads>>
    BY RoundTripAssumption DEF OthersSaveAddress, OthersSaveBytes32
  <1>2. /\ addresses \in Seq(Word) /\ bytes32 \in Seq(Word)
        /\ \/ /\ addresses' = Append(addresses, x) /\ bytes32' = bytes32
              /\ Len(addresses) < MaxSaved
           \/ /\ addresses' = addresses /\ bytes32' = Append(bytes32, x)
              /\ Len(bytes32) < MaxSaved
    BY DEF WordInv, StorageInv, OthersSaveAddress, OthersSaveBytes32
  <1>3. ASSUME NEW s \in Seq(Word)
        PROVE  Append(s, x) \in Seq(Word) /\ Len(Append(s, x)) = Len(s) + 1
    BY <1>1, <1>3
  <1>4. StorageInv'
    <2>1. /\ payloads \in Nat /\ MaxSaved \in Nat
          /\ Len(addresses) \in Nat /\ Len(bytes32) \in Nat
      BY <1>2, RoundTripAssumption DEF WordInv, StorageInv
    <2>2. /\ addresses' \in Seq(Word) /\ bytes32' \in Seq(Word)
          /\ \/ Len(addresses') = Len(addresses)
             \/ Len(addresses') = Len(addresses) + 1 /\ Len(addresses) < MaxSaved
          /\ \/ Len(bytes32') = Len(bytes32)
             \/ Len(bytes32') = Len(bytes32) + 1 /\ Len(bytes32) < MaxSaved
      BY <1>2, <1>3
    <2>3. /\ Len(addresses) <= MaxSaved + payloads /\ Len(bytes32) <= MaxSaved + payloads
          /\ Underway => /\ payloads > 0
                         /\ Len(addresses) < MaxSaved + payloads
                         /\ Len(bytes32) < MaxSaved + payloads
      BY DEF WordInv, StorageInv
    <2>4. /\ Len(addresses') <= MaxSaved + payloads /\ Len(bytes32') <= MaxSaved + payloads
          /\ Underway => /\ Len(addresses') < MaxSaved + payloads
                         /\ Len(bytes32') < MaxSaved + payloads
      BY <2>1, <2>2, <2>3
    <2>5. payloads' = payloads /\ Underway' = Underway
      BY <1>1 DEF Underway
    <2>6. payloads \in 0 .. MaxPayloads
      BY DEF WordInv, StorageInv
    <2>7. QED
      BY <2>2, <2>3, <2>4, <2>5, <2>6 DEF StorageInv
  <1>5. JobInv'
    BY <1>1 DEF WordInv, JobInv
  <1>6. ASSUME NEW bytes, Carries(bytes, job.output)
        PROVE  Carries(bytes, job.output)'
    <2>2. IndexedForm(bytes, job.output, addresses, bytes32)
              => IndexedForm(bytes, job.output, addresses', bytes32')
      BY <1>1, <1>2, IndexedLater
    <2>3. job' = job
      BY <1>1
    <2>4. QED
      BY <1>6, <2>2, <2>3 DEF Carries
  <1>7. MachineInv'
    <2>1. Underway => (\E bytes : Carries(bytes, job.output)
                                     /\ calldata = <<METHOD_DECODE_ANY>> \o bytes)'
      <3>1. SUFFICES ASSUME Underway
                     PROVE  (\E bytes : Carries(bytes, job.output)
                                     /\ calldata = <<METHOD_DECODE_ANY>> \o bytes)'
        OBVIOUS
      <3>2. PICK bytes : Carries(bytes, job.output) /\ calldata = <<METHOD_DECODE_ANY>> \o bytes
        BY <3>1 DEF WordInv, MachineInv
      <3>3. Carries(bytes, job.output)' /\ calldata' = <<METHOD_DECODE_ANY>> \o bytes
        BY <1>1, <1>6, <3>2
      <3>4. QED
        BY <3>3
    <2>2. Underway' = Underway
      BY <1>1 DEF Underway
    <2>3. QED
      BY <1>1, <2>1, <2>2 DEF WordInv, MachineInv
  <1>8. QED
    BY <1>4, <1>5, <1>7 DEF WordInv

(* The payload reaches the contract. *)
LEMMA ExecuteKeepsInv ==
    ASSUME WordInv, Execute
    PROVE  WordInv'
  <1>1. pc = "sent" /\ Underway
    BY DEF Execute, Underway
  <1>2. PICK bytes : Carries(bytes, job.output) /\ calldata = <<METHOD_DECODE_ANY>> \o bytes
    BY <1>1 DEF WordInv, MachineInv
  <1>3. calldata[1] = METHOD_DECODE_ANY
    <2>1. job.output \in Word /\ addresses \in Seq(Word) /\ bytes32 \in Seq(Word)
      BY <1>1 DEF WordInv, MachineInv, StorageInv
    <2>2. IsFlagged(bytes, Symbol)
      BY <1>2, <2>1, FormsAreFlagged DEF Carries
    <2>3. QED
      BY <1>2, <2>2, PayloadIs
  <1>4. DispatchAny
    <2>1. METHOD_DECODE_ANY \notin DecodeMethods \cup PerformMethods
      BY DEF DecodeMethods, PerformMethods, METHOD_DECODE_ANY,
             METHOD_DECODE_SEQUENCE_TX, METHOD_DECODE_SEQUENCE_N_TXS,
             METHOD_DECODE_CALL, METHOD_DECODE_N_CALLS,
             METHOD_EXECUTE_SEQUENCE_TX, METHOD_EXECUTE_SEQUENCE_N_TXS,
             METHOD_EXECUTE_CALL, METHOD_EXECUTE_CALL_RETURN, METHOD_EXECUTE_N_CALLS
    <2>2. QED
      BY <1>3, <2>1 DEF Execute, DispatchCalls
  <1>5. /\ pc' = "flag" /\ rindex' = 1 /\ windex' = 0 /\ stack' = << >> /\ made' = << >>
        /\ UNCHANGED <<calldata, memory, addresses, bytes32, payloads>>
        /\ job' = [job EXCEPT !.base = <<Len(addresses), Len(bytes32)>>]
    BY <1>4 DEF Execute, DispatchAny, storageVars
  <1>6. /\ job'.output = job.output /\ job'.calls = job.calls /\ job'.opcodes = job.opcodes
        /\ job'.useStorage = job.useStorage /\ job'.addressIndexes = job.addressIndexes
        /\ job'.bytes32Indexes = job.bytes32Indexes
        /\ job' = [output |-> job'.output, calls |-> job'.calls, opcodes |-> job'.opcodes,
                   useStorage |-> job'.useStorage, addressIndexes |-> job'.addressIndexes,
                   bytes32Indexes |-> job'.bytes32Indexes, base |-> job'.base]
    BY <1>5 DEF WordInv, JobInv
  <1>7. StorageInv'
    BY <1>1, <1>5 DEF WordInv, StorageInv, Underway
  <1>8. JobInv'
    BY <1>5, <1>6 DEF WordInv, JobInv
  <1>9. Carries(bytes, job.output)'
    BY <1>2, <1>5, <1>6 DEF Carries
  <1>10. MachineInv'
    BY <1>1, <1>2, <1>5, <1>6, <1>9 DEF WordInv, MachineInv, Underway
  <1>11. QED
    BY <1>7, <1>8, <1>10 DEF WordInv

(* What is read is the word, and nothing else is saved. *)
LEMMA FlagIsRead ==
    ASSUME WordInv, pc = "flag", DecompressorStep
    PROVE  /\ memory' = job.output /\ windex' = WordBytes /\ rindex' = Len(calldata)
           /\ pc' = "back"
           /\ UNCHANGED <<calldata, stack, made>>
           /\ \/ UNCHANGED storageVars
              \/ /\ job.output \notin DOMAIN job.addressIndexes
                 /\ job.output \notin DOMAIN job.bytes32Indexes
                 /\ \/ addresses' = Append(addresses, job.output) /\ UNCHANGED bytes32
                    \/ bytes32' = Append(bytes32, job.output) /\ UNCHANGED addresses
  <1> DEFINE w == job.output
  <1>1. /\ w \in Word /\ addresses \in Seq(Word) /\ bytes32 \in Seq(Word)
        /\ rindex = 1 /\ memory = << >> /\ windex = 0
    BY DEF WordInv, MachineInv, StorageInv, Underway
  <1>2. PICK bytes : Carries(bytes, w) /\ calldata = <<METHOD_DECODE_ANY>> \o bytes
    BY DEF WordInv, MachineInv, Underway
  <1> HIDE DEF w
  <1>3. IsFlagged(bytes, Symbol)
    BY <1>1, <1>2, FormsAreFlagged DEF Carries
  <1>4. /\ calldata \in Seq(Nat) /\ Len(bytes) \in Nat /\ Len(calldata) = 1 + Len(bytes)
    BY <1>2, <1>3, PayloadIs
  <1>5. MachineReads(bytes)
    <2>1. Reads(bytes)
      BY <1>1, <1>2, <1>3, PayloadIsRead
    <2>2. QED
      BY <1>1, <1>4, <2>1 DEF MachineReads
  <1>6. /\ WritesWord(w, bytes)
        /\ \/ UNCHANGED storageVars
           \/ /\ w \notin DOMAIN job.addressIndexes
              /\ w \notin DOMAIN job.bytes32Indexes
              /\ \/ addresses' = Append(addresses, w) /\ UNCHANGED bytes32
                 \/ bytes32' = Append(bytes32, w) /\ UNCHANGED addresses
    <2>1. CASE PlainForm(bytes, w)
      BY <1>1, <1>5, <2>1, PlainIsRead
    <2>2. CASE IndexedForm(bytes, w, addresses, bytes32)
      BY <1>1, <1>5, <2>2, IndexIsRead
    <2>3. CASE /\ w \notin DOMAIN job.addressIndexes
               /\ w \notin DOMAIN job.bytes32Indexes
               /\ SaveAddressForm(bytes, w) \/ SaveBytes32Form(bytes, w)
      BY <1>1, <1>5, <2>3, SaveAddressIsRead, SaveBytes32IsRead
    <2>4. QED
      BY <1>2, <2>1, <2>2, <2>3 DEF Carries
  <1>7. Put(<< >>, 0, w) = w /\ WordBytes \in Nat
    <2>1. Len(w) = WordBytes /\ w \in Seq(Byte) /\ WordBytes \in Nat
      BY <1>1, Powers DEF Word
    <2>2. QED
      BY <2>1 DEF Put
  <1>8. QED
    BY <1>1, <1>4, <1>6, <1>7 DEF WritesWord, w

(* The contract runs. *)
LEMMA DecompressKeepsInv ==
    ASSUME WordInv, Decompress
    PROVE  WordInv'
  <1>1. job' = job /\ payloads' = payloads /\ DecompressorStep
    BY DEF Decompress
  <1>2. stack = << >> /\ pc \in {"idle", "failed", "sent", "flag", "back", "done"}
    BY DEF WordInv, MachineInv
  <1>3. JobInv' \/ made' # made \/ pc' = "failed"
    BY <1>1 DEF WordInv, JobInv
  <1>4. CASE pc = "flag"
    <2>1. /\ memory' = job.output /\ windex' = WordBytes /\ rindex' = Len(calldata)
          /\ pc' = "back"
          /\ UNCHANGED <<calldata, stack, made>>
          /\ \/ UNCHANGED storageVars
             \/ addresses' = Append(addresses, job.output) /\ UNCHANGED bytes32
             \/ bytes32' = Append(bytes32, job.output) /\ UNCHANGED addresses
      BY <1>1, <1>4, FlagIsRead
    <2>2. job.output \in Word
      BY <1>4 DEF WordInv, MachineInv, Underway
    <2>3. StorageInv'
      <3>1. /\ addresses \in Seq(Word) /\ bytes32 \in Seq(Word)
            /\ payloads \in 0 .. MaxPayloads
            /\ Len(addresses) < MaxSaved + payloads
            /\ Len(bytes32) < MaxSaved + payloads
        BY <1>4 DEF WordInv, StorageInv, Underway
      <3>2. MaxSaved \in Nat /\ MaxPayloads \in Nat
        BY RoundTripAssumption
      <3>3. ASSUME NEW s \in Seq(Word)
            PROVE  /\ Append(s, job.output) \in Seq(Word)
                   /\ Len(Append(s, job.output)) = Len(s) + 1 /\ Len(s) \in Nat
        BY <2>2, <3>3
      <3>4. /\ addresses' \in Seq(Word) /\ bytes32' \in Seq(Word)
            /\ Len(addresses') \in {Len(addresses), Len(addresses) + 1}
            /\ Len(bytes32') \in {Len(bytes32), Len(bytes32) + 1}
        BY <2>1, <3>1, <3>3 DEF storageVars
      <3>5. Len(addresses') <= MaxSaved + payloads /\ Len(bytes32') <= MaxSaved + payloads
        <4>1. Len(addresses) \in Nat /\ Len(bytes32) \in Nat /\ payloads \in Nat
          BY <3>1, <3>2, <3>3
        <4>2. QED
          BY <3>1, <3>2, <3>4, <4>1
      <3>6. QED
        BY <1>1, <2>1, <3>1, <3>4, <3>5 DEF StorageInv, Underway
    <2>4. MachineInv'
      BY <1>1, <1>2, <2>1, <2>2 DEF WordInv, MachineInv, Underway
    <2>5. QED
      BY <1>3, <2>1, <2>3, <2>4 DEF WordInv
  <1>5. CASE pc # "flag"
    <2>1. ReturnOutput
      BY <1>1, <1>2, <1>5, OnlyFlagsAndReturns
    <2>2. /\ pc = "back" /\ pc' = "done"
          /\ UNCHANGED <<calldata, rindex, memory, windex, stack, addresses, bytes32, made>>
      BY <2>1 DEF ReturnOutput, storageVars
    <2>3. StorageInv'
      BY <1>1, <2>2 DEF WordInv, StorageInv, Underway
    <2>4. MachineInv'
      BY <1>1, <2>2 DEF WordInv, MachineInv, Underway
    <2>5. QED
      BY <1>3, <2>2, <2>3, <2>4 DEF WordInv
  <1>6. QED
    BY <1>4, <1>5

LEMMA NextKeepsInv ==
    ASSUME WordInv, Hypotheses, [Next]_vars
    PROVE  WordInv'
  <1>1. CASE Resting /\ \E request \in Requests, settings \in Settings :
                \E known \in (0 .. Len(addresses)) \X (0 .. Len(bytes32)) :
                   Compress(request, settings, known[1], known[2])
    <2>1. PICK request \in Requests, settings \in Settings,
               known \in (0 .. Len(addresses)) \X (0 .. Len(bytes32)) :
                  Compress(request, settings, known[1], known[2])
      BY <1>1
    <2>2. known[1] \in 0 .. Len(addresses) /\ known[2] \in 0 .. Len(bytes32)
      OBVIOUS
    <2>3. QED
      BY <1>1, <2>1, <2>2, CompressKeepsInv
  <1>2. CASE \E written \in HandWritten : WriteByHand(written)
    BY <1>2 DEF Hypotheses, WordsAlone
  <1>3. CASE \E x \in OthersWords : OthersSaveAddress(x) \/ OthersSaveBytes32(x)
    BY <1>3, OthersKeepInv
  <1>4. CASE Execute
    BY <1>4, ExecuteKeepsInv
  <1>5. CASE Decompress
    BY <1>5, DecompressKeepsInv
  <1>6. CASE UNCHANGED vars
    <2>1. UNCHANGED <<calldata, rindex, memory, windex, stack, pc, addresses, bytes32, made,
                      job, payloads>>
      BY <1>6 DEF vars, machineVars
    <2>2. StorageInv'
      BY <2>1 DEF WordInv, StorageInv, Underway
    <2>3. JobInv'
      BY <2>1 DEF WordInv, JobInv
    <2>4. MachineInv'
      BY <2>1 DEF WordInv, MachineInv, Underway, Carries
    <2>5. QED
      BY <2>2, <2>3, <2>4 DEF WordInv
  <1>7. QED
    BY <1>1, <1>2, <1>3, <1>4, <1>5, <1>6 DEF Next

(* Whatever goes on, what is under way is one of the forms of the word that*)
(* was asked for (what EncodeWordOptimized may choose for it, and what     *)
(* FN_READ_FLAG takes it for), and a form that needs the storage stays one *)
(* while others save to it.                                                *)
THEOREM InvariantHolds ==
    ASSUME Hypotheses
    PROVE  Spec => []WordInv
  <1>1. Init => WordInv
    BY InitIsInv
  <1>2. Hypotheses /\ WordInv /\ [Next]_vars => WordInv'
    BY NextKeepsInv
  <1>3. QED
    BY <1>1, <1>2, PTL DEF Spec

----------------------------------------------------------------------------
(* The theorems *)

(* Any word that is compressed by itself (encode-any, EncodeWordOptimized) *)
(* comes back as it was when the contract reads it (DECODE_ANY), whatever  *)
(* flags are allowed, whatever is in the storage, however much of it the   *)
(* client knows, and whatever others save to it meanwhile.                 *)
THEOREM WordsDecompressToOriginal ==
    ASSUME Hypotheses
    PROVE  Spec => []DecompressesToOriginal
  <1>1. WordInv => DecompressesToOriginal
    <2> SUFFICES ASSUME WordInv, pc = "done"
                 PROVE  Output = job.output /\ made = job.calls
      BY DEF DecompressesToOriginal
    <2>1. /\ job.output \in Word /\ memory = job.output /\ windex = WordBytes
          /\ made = << >> /\ job.calls = << >>
      BY DEF WordInv, MachineInv, JobInv
    <2>2. Len(job.output) = WordBytes /\ job.output \in Seq(Byte)
      BY <2>1, Powers DEF Word
    <2>3. SubSeq(job.output, 1, Len(job.output)) = job.output
      BY <2>2
    <2>4. QED
      BY <2>1, <2>2, <2>3 DEF Output
  <1>2. QED
    BY <1>1, InvariantHolds, PTL

(* Nothing of the payload is left unread, and nothing is read after it:    *)
(* the encoder writes as many bytes of arguments after each flag as the    *)
(* contract takes for it.                                                  *)
THEOREM WordsAreReadWhole ==
    ASSUME Hypotheses
    PROVE  Spec => []ReadsWholePayload
  <1>1. WordInv => ReadsWholePayload
    BY DEF WordInv, MachineInv, ReadsWholePayload
  <1>2. QED
    BY <1>1, InvariantHolds, PTL

(* For any word EncodeWordOptimized finds a flag, unless READ_WORD is not  *)
(* among the allowed ones.                                                 *)
THEOREM WordsFailOnlyIfForbidden ==
    ASSUME Hypotheses
    PROVE  Spec => []FailsOnlyIfForbidden
  <1>1. WordInv => FailsOnlyIfForbidden
    BY DEF WordInv, JobInv, FailsOnlyIfForbidden
  <1>2. QED
    BY <1>1, InvariantHolds, PTL

(* Without --use-storage the payload of a word neither saves it nor reads  *)
(* it from the storage.                                                    *)
THEOREM WordsStatelessByDefault ==
    ASSUME Hypotheses
    PROVE  Spec => []StatelessByDefault
  <1>1. FormFlags \cap StorageFlags = {}
    <2> DEFINE x == FLAG_READ_WORD(WordBytes)
    <2>1. /\ x \in Nat /\ WordBytes \in Nat /\ x = FLAG_NO_OP + WordBytes /\ FLAG_NO_OP \in Nat
      BY FlagsDiffer
    <2>2. /\ FLAG_READ_WORD_INV = x + 1 /\ FLAG_POW_2 = x + 16 /\ FLAG_POW_2_MINUS_1 = x + 17
          /\ FLAG_POW_10 = x + 18 /\ FLAG_POW_10_MANTISSA_S = x + 19
          /\ FLAG_POW_10_MANTISSA_L = x + 20 /\ LITERAL_ZERO = x + 57
          /\ \A n : FLAG_READ_WORD(n) = FLAG_NO_OP + n
      BY FlagsDiffer
    <2>3. /\ FLAG_SAVE_ADDRESS = x + 6 /\ FLAG_SAVE_BYTES32 = x + 10
          /\ \A n : FLAG_READ_ADDRESS(n) = x + (5 + n)
          /\ \A n : FLAG_READ_BYTES32(n) = x + (9 + n)
      BY FlagsDiffer
    <2> HIDE DEF x
    <2>4. ASSUME NEW flag \in FormFlags
          PROVE  flag \in Nat /\ flag \notin x + 6 .. x + 13
      <3>1. CASE flag \in {FLAG_READ_WORD_INV, FLAG_POW_2, FLAG_POW_2_MINUS_1, FLAG_POW_10,
                          FLAG_POW_10_MANTISSA_S, FLAG_POW_10_MANTISSA_L}
        BY <2>1, <2>2, <3>1
      <3>2. CASE \E n \in 1 .. WordBytes : flag = FLAG_READ_WORD(n)
        BY <2>1, <2>2, <3>2
      <3>3. CASE \E v \in 0 .. MAX_LITERAL : flag = LITERAL_ZERO + v
        <4>1. PICK v \in 0 .. MAX_LITERAL : flag = x + 57 + v
          BY <2>2, <3>3
        <4>2. v \in Nat
          OBVIOUS
        <4>3. QED
          BY <2>1, <4>1, <4>2
      <3>4. QED
        BY <3>1, <3>2, <3>3 DEF FormFlags
    <2>5. \A flag \in StorageFlags : flag \in x + 6 .. x + 13
      BY <2>1, <2>3 DEF StorageFlags
    <2>6. QED
      BY <2>4, <2>5
  <1>2. WordInv => StatelessByDefault
    <2> SUFFICES ASSUME WordInv, pc = "flag", ~ job.useStorage
                 PROVE  Opcode \notin StorageFlags
      BY DEF StatelessByDefault
    <2>1. PICK bytes : /\ PlainForm(bytes, job.output)
                       /\ calldata = <<METHOD_DECODE_ANY>> \o bytes
      BY DEF WordInv, MachineInv, Underway, Carries
    <2>2. /\ job.output \in Word /\ addresses \in Seq(Word) /\ bytes32 \in Seq(Word)
          /\ rindex = 1
      BY DEF WordInv, MachineInv, StorageInv, Underway
    <2>3. IsFlagged(bytes, FormFlags)
      BY <2>1, PlainIsFlagged
    <2>4. IsFlagged(bytes, Symbol)
      BY <2>1, <2>2, FormsAreFlagged
    <2>5. Opcode = bytes[1]
      BY <2>1, <2>2, <2>4, PayloadIsRead
    <2>6. QED
      BY <1>1, <2>3, <2>5 DEF IsFlagged
  <1>3. QED
    BY <1>2, InvariantHolds, PTL

(* A payload of a word saves it (SAVE_ADDRESS, SAVE_BYTES32) only if the   *)
(* client did not know it to be in the storage.                            *)
THEOREM WordsSavedOnlyUnknown ==
    ASSUME Hypotheses
    PROVE  Spec => SavesOnlyUnknownWords
  <1> DEFINE Unknown ==
        pc = "flag" =>
          /\ addresses' # addresses =>
                addresses'[Len(addresses')] \notin DOMAIN job.addressIndexes
          /\ bytes32' # bytes32 =>
                bytes32'[Len(bytes32')] \notin DOMAIN job.bytes32Indexes
  <1>1. WordInv /\ [Next]_vars => [Unknown]_vars
    <2> SUFFICES ASSUME WordInv, Next, pc = "flag"
                 PROVE  Unknown
      OBVIOUS
    <2>1. DecompressorStep
      BY DEF Next, Resting, OthersSaveAddress, OthersSaveBytes32, OthersAct, Execute, Decompress
    <2>2. \/ addresses' = addresses /\ bytes32' = bytes32
          \/ /\ job.output \notin DOMAIN job.addressIndexes
             /\ job.output \notin DOMAIN job.bytes32Indexes
             /\ \/ addresses' = Append(addresses, job.output) /\ bytes32' = bytes32
                \/ bytes32' = Append(bytes32, job.output) /\ addresses' = addresses
      BY <2>1, FlagIsRead DEF storageVars
    <2>3. ASSUME NEW s \in Seq(Word)
          PROVE  Append(s, job.output)[Len(Append(s, job.output))] = job.output
      OBVIOUS
    <2>4. addresses \in Seq(Word) /\ bytes32 \in Seq(Word)
      BY DEF WordInv, StorageInv
    <2>5. QED
      BY <2>2, <2>3, <2>4
  <1>2. QED
    BY <1>1, InvariantHolds, PTL DEF Spec, SavesOnlyUnknownWords

(* The variables of the decompressor and of the storage keep their types,  *)
(* along any number of payloads of a word each.                            *)
THEOREM WordsTypeCorrect ==
    ASSUME Hypotheses
    PROVE  Spec => []TypeOK
  <1>1. WordInv => TypeOK
    <2> SUFFICES ASSUME WordInv
                 PROVE  TypeOK
      OBVIOUS
    <2>1. WordBytes \in Nat
      BY Powers
    <2>2. calldata \in Seq(Byte \cup AllFlags)
      BY DEF WordInv, MachineInv, Symbol
    <2>3. pc \in {"idle", "failed", "panicked", "sent", "flag", "back", "param",
                  "transactions", "transaction", "call", "done"}
      BY DEF WordInv, MachineInv
    <2>4. rindex \in Nat
      BY <2>2 DEF WordInv, MachineInv
    <2>5. windex \in Nat
      BY <2>1 DEF WordInv, MachineInv
    <2>6. memory \in Seq(Byte \cup {Dirty})
      <3>1. memory = << >> \/ memory \in [1 .. WordBytes -> Byte]
        BY DEF WordInv, MachineInv, Word
      <3>2. ASSUME NEW s \in [1 .. WordBytes -> Byte], NEW d
            PROVE  s \in Seq(Byte \cup {d})
        <4>1. s \in [1 .. WordBytes -> Byte \cup {d}]
          BY <3>2
        <4>2. QED
          BY <2>1, <4>1
      <3>3. CASE memory = << >>
        BY <3>3
      <3>4. CASE memory \in [1 .. WordBytes -> Byte]
        BY <3>2, <3>4, Zenon
      <3>5. QED
        BY <3>1, <3>3, <3>4
    <2>7. stack = << >> /\ made = << >>
      BY DEF WordInv, MachineInv, JobInv
    <2>8. addresses \in Seq(Word) /\ bytes32 \in Seq(Word) /\ payloads \in 0 .. MaxPayloads
      BY DEF WordInv, StorageInv
    <2>9. QED
      BY <2>2, <2>3, <2>4, <2>5, <2>6, <2>7, <2>8 DEF TypeOK
  <1>2. QED
    BY <1>1, InvariantHolds, PTL
=============================================================================
