------------------------------- MODULE Buffer -------------------------------
(***************************************************************************)
(* The buffer of the compressor, and how words are written to it as flags. *)
(* Encoding is sequential and nothing else runs meanwhile, so an operation *)
(* of the code is an operator here, from the buffer before it to the       *)
(* buffer after it.                                                        *)
(*                                                                         *)
(* The buffer remembers at which position every value was written, so that *)
(* a flag may point back to it later instead of repeating it.              *)
(***************************************************************************)
EXTENDS Flags, Integers, FiniteSets, FiniteSetsExt

LOCAL INSTANCE SequencesExt  (* FoldLeft *)

----------------------------------------------------------------------------
(* Which flags may be used: a default, and a list of exceptions to it.  A  *)
(* part of an option of the command line stands for all the flags that     *)
(* have it in their names (FindOpcodesForFlag); it is the set of them.     *)

ParseAllowOpcodes(allow, disallow) ==
    [default |-> allow = {}, list |-> UNION (IF allow # {} THEN allow ELSE disallow)]

Permits(opcodes, flag) ==
    IF flag \in opcodes.list THEN ~ opcodes.default ELSE opcodes.default

----------------------------------------------------------------------------
(* The buffer.  Positions are kept with one added, and 0 is what the maps  *)
(* of the code return for a value that is not there.  The status is "ok"   *)
(* until an operation returns an error, which every caller returns in its  *)
(* turn unless it is said otherwise, or panics, which nobody catches.      *)

NoMap == << >>

Lookup(map, v) == IF v \in DOMAIN map THEN map[v] ELSE 0

With(map, v, n) == [u \in DOMAIN map \cup {v} |-> IF u = v THEN n ELSE map[u]]

(* The settings are the flags allowed, whether the storage is used, and    *)
(* the indexes known of the words that are in it.                          *)
NewBuffer(method, settings) ==
    [commited |-> <<method>>, usedFlags |-> NoMap, usedStorageFlags |-> NoMap,
     settings |-> settings, status |-> "ok"]

Allows(buf, flag) == Permits(buf.settings.opcodes, flag)

Position(buf) == Len(buf.commited)

Stop(buf, status) == IF buf.status = "ok" THEN [buf EXCEPT !.status = status] ELSE buf
Fail(buf) == Stop(buf, "error")
Panic(buf) == Stop(buf, "panic")

(* Mutant: a value is remembered at the position after it. *)
EndAfter(buf, uncompressed, pending, type) ==
    LET worth == Len(uncompressed) > 2
        next == Position(buf) + Len(pending) + 1
    IN  IF buf.status # "ok" THEN buf
        ELSE [buf EXCEPT
                !.commited = @ \o pending,
                !.usedFlags =
                    IF worth /\ type = "Stateless" THEN With(@, uncompressed, next) ELSE @,
                !.usedStorageFlags =
                    IF worth /\ type = "WriteStorage" THEN With(@, uncompressed, next) ELSE @]

(* What is pending is committed; a pointer to it is kept for the sake of a *)
(* value written again later, if a pointer can be shorter than the value.  *)
End(buf, uncompressed, pending, type) ==
    LET worth == Len(uncompressed) > 2
        here == Position(buf) + 1
    IN  IF buf.status # "ok" THEN buf
        ELSE [buf EXCEPT
                !.commited = @ \o pending,
                !.usedFlags =
                    IF worth /\ type = "Stateless" THEN With(@, uncompressed, here) ELSE @,
                !.usedStorageFlags =
                    IF worth /\ type = "WriteStorage" THEN With(@, uncompressed, here) ELSE @]

(* Something that is not a value by itself. *)
Commit(buf, pending) == End(buf, << >>, pending, "Stateless")

(* The positions at which the data occurs in what is committed. *)
PastData(buf, data) ==
    {i \in 0 .. Position(buf) - Len(data) - 1 :
        SubSeq(buf.commited, i + 1, i + Len(data)) = data}

FirstOf(positions) == IF positions = {} THEN {} ELSE {Min(positions)}

----------------------------------------------------------------------------
(* Words: arithmetic *)

TrimLeft(s) == SubSeq(s, Min({i \in DOMAIN s : s[i] # 0} \cup {Len(s) + 1}), Len(s))
TrimRight(s) ==
    SubSeq(s, 1, Len(s) + 1 - Min({i \in 1 .. Len(s) : s[Len(s) + 1 - i] # 0}
                                  \cup {Len(s) + 1}))

(* The exponents e with which v is 2 ^ e, 2 ^ (e + 1) - 1 or 10 ^ e.  Zero *)
(* passes for 2 ^ 0 and for 2 ^ 1 - 1.                                     *)
BitExponents == 0 .. ByteBits * WordBytes - 1

Pow2Forms(v) == IF v = 0 THEN {0} ELSE {e \in BitExponents : 2 ^ e = v}

(* Mutant: the 1 that POW_2_MINUS_1 adds to the exponent is forgotten. *)
Pow2Minus1FormsUnshifted(v) == {e \in BitExponents : 2 ^ e - 1 = v}

Pow2Minus1Forms(v) == IF v = 0 THEN {0} ELSE {e \in BitExponents : 2 ^ (e + 1) - 1 = v}
Pow10Forms(v) == {e \in 1 .. MaxPow10 : Pow10(e) = v}

(* The smallest exponent with which v is 10 ^ e times a mantissa. *)
MantissaForms(v, maxExponent, maxMantissa) ==
    LET divides(e) == Pow10(e) <= v /\ v % Pow10(e) = 0
        fits(e) == e < maxExponent /\ divides(e) /\ v \div Pow10(e) <= maxMantissa
    IN  {[exponent |-> e, mantissa |-> v \div Pow10(e)] :
            e \in FirstOf({e \in 1 .. MaxPow10 : fits(e)})}

(* The exponent next to the mantissa: a mantissa one too large runs into   *)
(* the lowest bit of the exponent, and is OR'ed with it.                   *)
PackMantissa(m, mantissas) ==
    IF m.mantissa < mantissas
    THEN m.exponent * mantissas + m.mantissa
    ELSE (m.exponent + 1 - (m.exponent % 2)) * mantissas

----------------------------------------------------------------------------
(* Words: encodings *)

Encoding(bytes, type) == [bytes |-> bytes, type |-> type]
Stateless(bytes) == Encoding(bytes, "Stateless")
NoEncoding == Encoding(<< >>, "error")

When(condition, encoding) == IF condition THEN {encoding} ELSE {}

(* Mutant: a word of all its bytes is too long. *)
EncodeWordBytes32Short(buf, s) ==
    IF Len(s) \in 1 .. WordBytes - 1 /\ Allows(buf, FLAG_READ_WORD(1))
    THEN Stateless(<<FLAG_READ_WORD(Len(s))>> \o s)
    ELSE NoEncoding

EncodeWordBytes32(buf, s) ==
    IF s # << >> /\ Allows(buf, FLAG_READ_WORD(1))
    THEN Stateless(<<FLAG_READ_WORD(Len(s))>> \o s)
    ELSE NoEncoding

EncodeWordBytes32Inv(buf, s) ==
    IF s # << >> /\ Allows(buf, FLAG_READ_WORD_INV)
    THEN Stateless(<<FLAG_READ_WORD_INV, FLAG_READ_WORD(Len(s))>> \o s)
    ELSE NoEncoding

(* An index of the storage, in a pointer of 2, 3 or 4 bytes. *)
PointerSize(index) ==
    Min({size \in 2 .. 4 : index < ByteBase ^ size} \cup {4})

(* Each option is the set of the encodings it has for a word, one at most. *)
(* Here those that need nothing but the word:                              *)
ReadWordOption(buf, s, size) ==
    When(Allows(buf, FLAG_READ_WORD(1)) /\ Len(s) <= size, EncodeWordBytes32(buf, s))

ReadWordInvOption(buf, s, size) ==
    When(Allows(buf, FLAG_READ_WORD_INV) /\ Len(s) <= size, EncodeWordBytes32Inv(buf, s))

LiteralOption(buf, v) ==
    When(Allows(buf, LITERAL_ZERO) /\ v <= MAX_LITERAL, Stateless(<<LITERAL_ZERO + v>>))

ExponentOption(buf, flag, exponents) ==
    {Stateless(<<flag, e>>) : e \in {e \in exponents : Allows(buf, flag)}}

MantissaOption(buf, flag, forms, mantissas, size) ==
    {Stateless(<<flag>> \o Digits(PackMantissa(m, mantissas), size)) :
        m \in {m \in forms : Allows(buf, flag)}}

(* Mutant: the pointer is not checked to fit in its 2 bytes. *)
MirrorOptionAnywhere(buf, data) ==
    LET used == Lookup(buf.usedFlags, data)
    IN  When(Allows(buf, FLAG_MIRROR_FLAG_S) /\ used # 0,
             Encoding(<<FLAG_MIRROR_FLAG_S>> \o Digits(used - 1, 2), "Mirror"))

(* A flag that wrote this word, unless that flag saved it to the storage.  *)
MirrorOption(buf, data) ==
    LET used == Lookup(buf.usedFlags, data)
    IN  When(/\ Allows(buf, FLAG_MIRROR_FLAG_S)
             /\ used # 0
             /\ used - 1 < ByteBase ^ 2
             /\ used - 1 # Position(buf),
             Encoding(<<FLAG_MIRROR_FLAG_S>> \o Digits(used - 1, 2), "Mirror"))

(* A flag that saved this word. *)
StoreFlagOption(buf, word) ==
    LET used == Lookup(buf.usedStorageFlags, word)
        usable == Allows(buf, FLAG_READ_STORE_FLAG_S) /\ used # 0 /\ used < ByteBase ^ 3
        short == used - 1 < ByteBase ^ 2
    IN  When(usable,
             IF short
             THEN Encoding(<<FLAG_READ_STORE_FLAG_S>> \o Digits(used - 1, 2), "Mirror")
             ELSE Encoding(<<FLAG_READ_STORE_FLAG_L>> \o Digits(used - 1, 3), "Mirror"))

CopyOption(buf, word) ==
    {Stateless((IF i < ByteBase ^ 2
                THEN <<FLAG_COPY_CALLDATA_S>> \o Digits(i, 2)
                ELSE <<FLAG_COPY_CALLDATA_L>> \o Digits(i, 3)) \o <<WordBytes>>) :
        i \in {i \in FirstOf(PastData(buf, word)) :
                  Allows(buf, FLAG_COPY_CALLDATA_S) /\ i < ByteBase ^ 3}}

(* Mutants: the index 1 passes for none; a word is saved without           *)
(* --use-storage.                                                          *)
AddressIndexOptionFrom0(buf, word) ==
    LET index == Lookup(buf.settings.addressIndexes, word)
        size == PointerSize(index)
    IN  When(buf.settings.useStorage /\ index > 1,
             Encoding(<<FLAG_READ_ADDRESS(size)>> \o Digits(index, size), "ReadStorage"))

SaveAddressOptionAlways(buf, s, saveWord) ==
    When(/\ saveWord
         /\ Allows(buf, FLAG_SAVE_ADDRESS)
         /\ Len(s) \in MinAddressBytes .. AddressBytes,
         Encoding(<<FLAG_SAVE_ADDRESS>> \o Zeros(AddressBytes - Len(s)) \o s, "WriteStorage"))

(* These use the storage of the contract. *)
AddressIndexOption(buf, word) ==
    LET index == Lookup(buf.settings.addressIndexes, word)
        size == PointerSize(index)
    IN  When(buf.settings.useStorage /\ index # 0,
             Encoding(<<FLAG_READ_ADDRESS(size)>> \o Digits(index, size), "ReadStorage"))

Bytes32IndexOption(buf, word) ==
    LET index == Lookup(buf.settings.bytes32Indexes, word)
        size == PointerSize(index)
    IN  When(buf.settings.useStorage /\ index # 0,
             Encoding(<<FLAG_READ_BYTES32(size)>> \o Digits(index, size), "ReadStorage"))

SaveAddressOption(buf, s, saveWord) ==
    When(/\ buf.settings.useStorage /\ saveWord
         /\ Allows(buf, FLAG_SAVE_ADDRESS)
         /\ Len(s) \in MinAddressBytes .. AddressBytes,
         Encoding(<<FLAG_SAVE_ADDRESS>> \o Zeros(AddressBytes - Len(s)) \o s, "WriteStorage"))

SaveBytes32Option(buf, word, s, saveWord) ==
    When(/\ buf.settings.useStorage /\ saveWord
         /\ Allows(buf, FLAG_SAVE_BYTES32)
         /\ Len(s) >= MinBytes32Bytes,
         Encoding(<<FLAG_SAVE_BYTES32>> \o word, "WriteStorage"))

(* The options in the order they are tried. *)
WordOptions(buf, word, saveWord) ==
    LET v == Value(word)
        s == TrimLeft(word)
        inv == TrimRight(word)
        short == MantissaForms(v, ExponentS, MantissaS)
        long == MantissaForms(v, ExponentL - 1, MantissaL - 1)
    IN  << LiteralOption(buf, v),
           When(Allows(buf, FLAG_READ_WORD(1)) /\ Len(s) = 1, EncodeWordBytes32(buf, s)),
           ExponentOption(buf, FLAG_POW_2, Pow2Forms(v)),
           ExponentOption(buf, FLAG_POW_10, Pow10Forms(v)),
           ExponentOption(buf, FLAG_POW_2_MINUS_1, Pow2Minus1Forms(v)),
           ReadWordOption(buf, s, 2),
           When(Allows(buf, FLAG_READ_WORD_INV) /\ Len(inv) = 1,
                EncodeWordBytes32Inv(buf, inv)),
           MantissaOption(buf, FLAG_POW_10_MANTISSA_S, short, MantissaS, 2),
           MirrorOption(buf, word),
           StoreFlagOption(buf, word),
           ReadWordOption(buf, s, 3),
           ReadWordInvOption(buf, inv, 2),
           MantissaOption(buf, FLAG_POW_10_MANTISSA_L, long, MantissaL, 3),
           CopyOption(buf, word),
           AddressIndexOption(buf, word),
           Bytes32IndexOption(buf, word),
           SaveAddressOption(buf, s, saveWord),
           SaveBytes32Option(buf, word, s, saveWord),
           When(Allows(buf, FLAG_READ_WORD_INV) /\ Len(inv) < Len(s) - 1,
                EncodeWordBytes32Inv(buf, inv)),
           {EncodeWordBytes32(buf, s)} >>

(* The first that has an encoding is taken; the last of them always has,   *)
(* if only one that is an error.                                           *)
EncodeWordOptimized(buf, word, saveWord) ==
    LET options == WordOptions(buf, word, saveWord)
    IN  CHOOSE encoding \in options[Min({k \in DOMAIN options : options[k] # {}})] : TRUE

WriteWord(buf, s, saveWord) ==
    LET word == Pad(s)
        encoding == EncodeWordOptimized(buf, word, saveWord)
    IN  IF encoding.type = "error" THEN Fail(buf)
        ELSE End(buf, word, encoding.bytes, encoding.type)

(* The words that some bytes are made of, written one after the other. *)
WriteEachWord(buf, bytes, saveWord) ==
    LET word(i) == SubSeq(bytes, WordBytes * (i - 1) + 1, WordBytes * i)
        words == [i \in 1 .. Len(bytes) \div WordBytes |-> word(i)]
    IN  FoldLeft(LAMBDA b, w : WriteWord(b, w, saveWord), buf, words)

WriteNWords(buf, bytes) ==
    LET count == Len(bytes) \div WordBytes
        flag == IF count < ByteBase
                THEN <<FLAG_NESTED_N_FLAGS_S, count>>
                ELSE <<FLAG_NESTED_N_FLAGS_L>> \o Digits(count, 2)
    IN  IF Len(bytes) % WordBytes # 0 \/ count \notin 1 .. ByteBase ^ 2 - 1
        THEN Fail(buf)
        ELSE WriteEachWord(Commit(buf, flag), bytes, buf.settings.useStorage)
=============================================================================
