------------------------------- MODULE Flags -------------------------------
(***************************************************************************)
(* The alphabet a payload is written in: bytes, words made of bytes, and   *)
(* the flags (operations) of the decompressor's state machine, numbered in *)
(* the order of constants.go and of FLAG_TABLE.                            *)
(*                                                                         *)
(* The sizes of the code are parameters, so that TLC can take all of the   *)
(* words: bytes of 256 values, words of 32 bytes, and so on.  With the     *)
(* sizes of the code every flag has the number it has there, plus          *)
(* ByteBase: a byte that is a flag is kept apart from the bytes that are   *)
(* data, because the small alphabets have no room for all the flags.       *)
(***************************************************************************)
EXTENDS Naturals, Sequences

CONSTANTS
    ByteBits,         (* 8 *)
    WordBytes,        (* 32 *)
    AddressBytes,     (* 20 *)
    SelectorBytes,    (* 4 *)
    MinAddressBytes,  (* 15: shorter words are not worth saving as addresses *)
    MinBytes32Bytes,  (* 27: nor as bytes32 *)
    MaxParams,        (* 6: the most parameters an ABI_*_PARAM flag has *)
    Literals,         (* 167: MAX_LITERAL + 1, the values a literal can express *)
    ExponentS,        (* 32: the exponents of POW_10_MANTISSA_S, of 5 bits *)
    MantissaS,        (* 2048: its mantissas, of 11 bits *)
    ExponentL,        (* 64: the exponents of POW_10_MANTISSA_L, of 6 bits *)
    MantissaL,        (* 262144: its mantissas, of 18 bits *)
    MaxPow10,         (* 77: the last power of 10 in POW_10_TABLE *)
    Selectors,        (* the common selectors, COMMON_4BYTES *)
    SignatureBytes,   (* 66: an EOA signature, in the signature of a wallet *)
    CheckpointBytes,  (* 4: the checkpoint of the configuration of a wallet *)
    ExecuteSelector,      (* 7a9a1628, execute of a Sequence wallet *)
    SelfExecuteSelector   (* 61c2926c, selfExecute *)

ByteBase == 2 ^ ByteBits  (* how many values a byte has *)

ASSUME FlagsAssumption ==
    /\ ByteBits \in Nat \ {0}
    /\ WordBytes \in Nat
    /\ AddressBytes \in 1 .. WordBytes
    /\ MinAddressBytes \in 1 .. AddressBytes
    /\ MinBytes32Bytes \in AddressBytes + 1 .. WordBytes
    /\ SelectorBytes \in Nat \ {0, WordBytes}
    /\ MaxParams \in 0 .. 6
    /\ Literals \in 2 .. ByteBase
    /\ {ExponentS, MantissaS, ExponentL, MantissaL} \subseteq Nat \ {0}
    /\ ExponentS * MantissaS = ByteBase ^ 2
    /\ ExponentL * MantissaL = ByteBase ^ 3
    /\ MaxPow10 \in 0 .. ByteBase - 1
    /\ ByteBits * WordBytes <= ByteBase
    /\ Selectors \in Seq([1 .. SelectorBytes -> 0 .. ByteBase - 1])
    /\ SignatureBytes \in Nat
    /\ CheckpointBytes \in 1 .. WordBytes
    /\ {ExecuteSelector, SelfExecuteSelector} \subseteq [1 .. SelectorBytes -> 0 .. ByteBase - 1]

(* Arithmetic, which holds of any numbers: the provers know nothing of     *)
(* powers but this.                                                        *)
ASSUME PowersAssumption ==
    /\ ByteBase \in Nat
    /\ ByteBase ^ 0 = 1
    /\ \A n \in 1 .. 4 \cup 1 .. WordBytes : ByteBase ^ n = ByteBase * ByteBase ^ (n - 1)
    /\ \A n \in 0 .. ByteBits * WordBytes : 2 ^ n \in Nat
    /\ \A n \in 0 .. MaxPow10 : 10 ^ n \in Nat \ {0}

----------------------------------------------------------------------------
(* Bytes and words *)

Byte == 0 .. ByteBase - 1
Word == [1 .. WordBytes -> Byte]

WordBase == ByteBase ^ WordBytes

Zeros(n) == [i \in 1 .. n |-> 0]

(* Left and right padding to a word. *)
Pad(s) == Zeros(WordBytes - Len(s)) \o s
PadRight(s) == s \o Zeros(WordBytes - Len(s))

(* The number whose big-endian digits are s, and the n digits of a number. *)
Value(s) ==
    LET value[k \in 0 .. Len(s)] ==
            IF k = 0 THEN 0 ELSE ByteBase * value[k - 1] + s[k]
    IN  value[Len(s)]

Digits(v, n) == [i \in 1 .. n |-> (v \div ByteBase ^ (n - i)) % ByteBase]

WordOf(v) == Digits(v % WordBase, WordBytes)

----------------------------------------------------------------------------
(* Flags *)

FLAG_NO_OP == ByteBase
FLAG_READ_WORD(n) == FLAG_NO_OP + n

(* The n-th flag after the WordBytes flags that read a word. *)
Flag(n) == FLAG_READ_WORD(WordBytes) + n

FLAG_READ_WORD_INV      == Flag(1)
FLAG_READ_N_BYTES       == Flag(2)
FLAG_WRITE_ZEROS        == Flag(3)
FLAG_NESTED_N_FLAGS_S   == Flag(4)
FLAG_NESTED_N_FLAGS_L   == Flag(5)
FLAG_SAVE_ADDRESS       == Flag(6)
FLAG_READ_ADDRESS(size) == Flag(5 + size)   (* size 2, 3 or 4 *)
FLAG_SAVE_BYTES32       == Flag(10)
FLAG_READ_BYTES32(size) == Flag(9 + size)   (* size 2, 3 or 4 *)
FLAG_READ_STORE_FLAG_S  == Flag(14)
FLAG_READ_STORE_FLAG_L  == Flag(15)
FLAG_POW_2              == Flag(16)
FLAG_POW_2_MINUS_1      == Flag(17)
FLAG_POW_10             == Flag(18)
FLAG_POW_10_MANTISSA_S  == Flag(19)
FLAG_POW_10_MANTISSA_L  == Flag(20)
FLAG_ABI(params)        == Flag(21 + params)
FLAG_READ_DYNAMIC_ABI   == Flag(28)
FLAG_MIRROR_FLAG_S      == Flag(29)
FLAG_MIRROR_FLAG_L      == Flag(30)
FLAG_COPY_CALLDATA_S    == Flag(31)
FLAG_COPY_CALLDATA_L    == Flag(32)
FLAG_COPY_CALLDATA_XL   == Flag(33)

(* The flags specific to Sequence wallets. *)
FLAG_SEQUENCE_EXECUTE           == Flag(34)
FLAG_SEQUENCE_SELF_EXECUTE      == Flag(35)
FLAG_SEQUENCE_SIGNATURE(weight) == Flag(36 + weight)   (* weight 0 to 4 *)
FLAG_SEQUENCE_ADDRESS(weight)   == Flag(41 + weight)   (* weight 0 to 4 *)
FLAG_SEQUENCE_NODE              == Flag(46)
FLAG_SEQUENCE_BRANCH            == Flag(47)
FLAG_SEQUENCE_SUBDIGEST         == Flag(48)
FLAG_SEQUENCE_NESTED            == Flag(49)
FLAG_SEQUENCE_DYNAMIC_SIGNATURE == Flag(50)
FLAG_SEQUENCE_SIG_NO_CHAIN      == Flag(51)
FLAG_SEQUENCE_SIG               == Flag(52)
FLAG_SEQUENCE_L_SIG_NO_CHAIN    == Flag(53)
FLAG_SEQUENCE_L_SIG             == Flag(54)
FLAG_SEQUENCE_READ_CHAINED_S    == Flag(55)
FLAG_SEQUENCE_READ_CHAINED_L    == Flag(56)

LITERAL_ZERO == Flag(57)
MAX_LITERAL == Literals - 1

AllFlags == FLAG_NO_OP .. LITERAL_ZERO + MAX_LITERAL

(* Those that FlagNames knows the names of: no literal but the first. *)
NamedFlags == FLAG_NO_OP .. LITERAL_ZERO

(* The types of the parts of the signature of a wallet. *)
EOA_SIGNATURE == 0
ADDRESS == 1
DYNAMIC == 2
NODE == 3
BRANCH == 4
SUBDIGEST == 5
NESTED == 6

(* The bytes of the length that is before a part of any length. *)
SizeBytes == 3

(* The first bytes of signatures of wallets. *)
LEGACY == 0
CHAIN_DYNAMIC == 1
NO_CHAIN == 2
CHAINED == 3

METHOD_EXECUTE_SEQUENCE_TX    == 0
METHOD_EXECUTE_SEQUENCE_N_TXS == 1
METHOD_DECODE_SEQUENCE_TX     == 6
METHOD_DECODE_SEQUENCE_N_TXS  == 7
METHOD_EXECUTE_CALL           == 8
METHOD_EXECUTE_CALL_RETURN    == 9
METHOD_EXECUTE_N_CALLS        == 10
METHOD_DECODE_CALL            == 11
METHOD_DECODE_N_CALLS         == 12
METHOD_DECODE_ANY             == 13

(* The powers of 10 in POW_10_TABLE. *)
Pow10(e) == 10 ^ e
=============================================================================
