------------------------------ MODULE MCWords ------------------------------
(***************************************************************************)
(* RoundTrip for every word there is, one to a payload, without storage.   *)
(* A byte has 4 bits and a word 4 bytes, so that an exponent of 2 fills a  *)
(* byte exactly, as it does in a word of 32 bytes of 8 bits.               *)
(***************************************************************************)
EXTENDS RoundTrip, Commands

AllWords == [1 .. WordBytes -> Byte]

(* Words for which POW_10_MANTISSA_S is given the mantissa 2048, one more  *)
(* than its 11 bits hold: see the run mantissa_of_11_bits.                 *)
MantissaTooLarge ==
    {w \in AllWords :
        /\ Value(w) >= ByteBase ^ 2
        /\ \E m \in MantissaForms(Value(w), ExponentS, MantissaS) : m.mantissa = MantissaS}

WordRequests(words) == {[command |-> "any", data |-> w] : w \in words}

MCSelectors == << >>
MCExecuteSelector == <<1, 2>>
MCSelfExecuteSelector == <<2, 1>>

MantissaRequests == WordRequests(MantissaTooLarge)
ZeroRequests == WordRequests({Zeros(WordBytes)})

(* Everything is allowed; or no word may be written as it is; or none of   *)
(* the short forms.                                                        *)
ShortForms ==
    {FLAG_POW_2, FLAG_POW_2_MINUS_1, FLAG_POW_10, FLAG_POW_10_MANTISSA_S, FLAG_READ_WORD_INV}

MCSettings ==
    {[allow |-> {}, disallow |-> parts, useStorage |-> FALSE] :
        parts \in {{}, {{FLAG_READ_WORD(1)}}, {ShortForms}}}

(* What the theorems of module RoundTripProofs suppose.  The words are all *)
(* those that are not known to be spoilt.                                  *)
MCRequests ==
    WordRequests({w \in AllWords :
                    \A settings \in MCSettings :
                        ~ Spoilt(w, ParseAllowOpcodes(settings.allow, settings.disallow))})

(* The compressor writes bytes that are a word as one: for some words, and *)
(* some contents of the storage.                                           *)
SomeWords == [1 .. WordBytes -> {0, 2, ByteBase - 1}]

SomeOptions ==
    {[opcodes |-> ParseAllowOpcodes(settings.allow, settings.disallow),
      useStorage |-> useStorage,
      addressIndexes |-> IndexesOf(words, n),
      bytes32Indexes |-> IndexesOf(words, Len(words) - n)] :
        settings \in MCSettings, useStorage \in BOOLEAN,
        words \in {<<Zeros(WordBytes), Pad(<<2>>)>>}, n \in 0 .. 2}

ASSUME WordsWrittenAlone ==
    \A request \in WordRequests(SomeWords), options \in SomeOptions :
        Encoded(request, options)
            = WriteWord(NewBuffer(METHOD_DECODE_ANY, options), request.data, TRUE)

(* LITERAL_ZERO is not allowed. *)
NoLiterals == {[allow |-> {}, disallow |-> {{LITERAL_ZERO}}, useStorage |-> FALSE]}
=============================================================================
