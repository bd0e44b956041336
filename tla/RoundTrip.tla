----------------------------- MODULE RoundTrip -----------------------------
(***************************************************************************)
(* Compression and decompression together: requests to the compressor are  *)
(* encoded by module Commands into payloads, which module Decompressor     *)
(* reads some time later, one after the other, on a contract whose storage *)
(* goes from one to the next.                                              *)
(*                                                                         *)
(* A client may not know all that is in the storage: it has the indexes    *)
(* of the first words saved, as far as it had read when it made its        *)
(* payload.  (That its indexes are right is what module Indexes is about.) *)
(* Between the making of a payload and its execution, and while a call is  *)
(* made by the contract, others may save.                                  *)
(***************************************************************************)
EXTENDS Decompressor, Buffer, Originals

LOCAL INSTANCE SequencesExt  (* FlattenSeq *)

CONSTANTS
    Encode(_, _), (* the compressor: Encoded of module Commands *)
    Requests,     (* what the compressor is asked to compress *)
    Settings,     (* the options it is run with: allow, disallow, useStorage *)
    HandWritten,  (* payloads made otherwise, with what they stand for *)
    OthersWords,  (* words that others save *)
    MaxPayloads,  (* payloads made *)
    MaxSaved      (* addresses, and bytes32, at which others stop saving *)

ASSUME RoundTripAssumption ==
    /\ \A settings \in Settings :
          /\ settings.allow \cup settings.disallow \subseteq SUBSET NamedFlags \ {{}}
          /\ {} \in {settings.allow, settings.disallow}
    /\ OthersWords \subseteq Word
    /\ MaxPayloads \in Nat
    /\ MaxSaved \in Nat

VARIABLES
    job,      (* the payload being sent or read, and what was asked for *)
    payloads  (* how many payloads were made *)

vars == <<machineVars, made, job, payloads>>

NoJob == [output |-> << >>, calls |-> << >>, opcodes |-> ParseAllowOpcodes({}, {}),
          useStorage |-> FALSE, addressIndexes |-> NoMap, bytes32Indexes |-> NoMap,
          base |-> <<0, 0>>]

TypeOK ==
    /\ calldata \in Seq(Byte \cup AllFlags)
    /\ rindex \in Nat
    /\ memory \in Seq(Byte \cup {Dirty})
    /\ windex \in Nat
    /\ \A k \in DOMAIN stack :
          stack[k].wait \in {"flags", "mirror", "size", "padded", "params", "keep", "sized",
                            "chained", "dynamic", "space", "nonce", "execute", "signature",
                            "transactions", "fields", "batch"}
    /\ pc \in {"idle", "failed", "panicked", "sent", "flag", "back", "param",
              "transactions", "transaction", "call", "done"}
    /\ addresses \in Seq(Word)
    /\ bytes32 \in Seq(Word)
    /\ \A k \in DOMAIN made : made[k].data \in Seq(Byte)
    /\ payloads \in 0 .. MaxPayloads

Init ==
    /\ MachineInit
    /\ made = << >>
    /\ job = NoJob
    /\ payloads = 0

----------------------------------------------------------------------------
(* Compression, while nothing else goes on *)

(* The last index of each of the first n words. *)
IndexesOf(words, n) ==
    [v \in {words[i] : i \in 1 .. n} |-> Max({i \in 1 .. n : words[i] = v})]

(* What the contract is to return, and the calls it is to make.  Where a   *)
(* call is returned, its address follows the data.                         *)
Expected(request) ==
    IF request.command \in {"any", "extras"}
    THEN [output |-> DataOf(request), calls |-> << >>]
    ELSE LET calls == CallsOf(request)
         IN  IF request.method \in PerformMethods
             THEN [output |-> << >>, calls |-> calls]
             ELSE [output |-> FlattenSeq([i \in DOMAIN calls |-> calls[i].data \o Pad(calls[i].to)]),
                   calls |-> << >>]

Resting == pc \in {"idle", "failed", "panicked", "done"} /\ payloads < MaxPayloads

(* The contract will be called with clean memory. *)
Send(payload) ==
    /\ calldata' = payload
    /\ rindex' = 0
    /\ memory' = << >>
    /\ windex' = 0
    /\ made' = << >>

(* A run of the compressor, which knows the first words of the storage.    *)
Compress(request, settings, knownAddresses, knownBytes32) ==
    LET options == [opcodes |-> ParseAllowOpcodes(settings.allow, settings.disallow),
                    useStorage |-> settings.useStorage,
                    addressIndexes |-> IndexesOf(addresses, knownAddresses),
                    bytes32Indexes |-> IndexesOf(bytes32, knownBytes32)]
        original == Expected(request)
        buf == Encode(request, options)
    IN  /\ settings.useStorage \/ (knownAddresses = 0 /\ knownBytes32 = 0)
        /\ payloads' = payloads + 1
        /\ job' = [output |-> original.output, calls |-> original.calls,
                   opcodes |-> options.opcodes, useStorage |-> options.useStorage,
                   addressIndexes |-> options.addressIndexes,
                   bytes32Indexes |-> options.bytes32Indexes, base |-> <<0, 0>>]
        /\ IF IsPrinted(request, buf)
           THEN pc' = "sent" /\ Send(buf.commited)
           ELSE pc' = (IF buf.status = "panic" THEN "panicked" ELSE "failed") /\ Send(<< >>)
        /\ UNCHANGED <<stack, storageVars>>

(* A payload that was made otherwise. *)
WriteByHand(written) ==
    /\ payloads' = payloads + 1
    /\ job' = [NoJob EXCEPT !.output = written.output, !.calls = written.calls,
                            !.useStorage = TRUE]
    /\ pc' = "sent"
    /\ Send(written.payload)
    /\ UNCHANGED <<stack, storageVars>>

----------------------------------------------------------------------------
(* Transactions of others, before the first payload is made and until the  *)
(* payload is executed; and what those that are called do                  *)

OthersAct == pc \in {"idle", "sent", "call"}

OthersSaveAddress(word) ==
    /\ OthersAct
    /\ Len(addresses) < MaxSaved
    /\ Len(TrimLeft(word)) <= AddressBytes
    /\ addresses' = Append(addresses, word)
    /\ UNCHANGED <<calldata, rindex, memory, windex, stack, pc, bytes32, made, job, payloads>>

OthersSaveBytes32(word) ==
    /\ OthersAct
    /\ Len(bytes32) < MaxSaved
    /\ bytes32' = Append(bytes32, word)
    /\ UNCHANGED <<calldata, rindex, memory, windex, stack, pc, addresses, made, job, payloads>>

(* The payload is executed. *)
Execute ==
    /\ pc = "sent"
    /\ DispatchAny \/ DispatchCalls
    /\ job' = [job EXCEPT !.base = <<Len(addresses), Len(bytes32)>>]
    /\ UNCHANGED payloads

Decompress == DecompressorStep /\ UNCHANGED <<job, payloads>>

Next ==
    \/ /\ Resting
       /\ \E request \in Requests, settings \in Settings :
             \E known \in (0 .. Len(addresses)) \X (0 .. Len(bytes32)) :
                Compress(request, settings, known[1], known[2])
    \/ /\ Resting
       /\ \E written \in HandWritten : WriteByHand(written)
    \/ \E word \in OthersWords : OthersSaveAddress(word)
    \/ \E word \in OthersWords : OthersSaveBytes32(word)
    \/ Execute
    \/ Decompress

(* The contract runs by itself once it is called. *)
Fairness == WF_vars(Decompress)

Spec == Init /\ [][Next]_vars /\ Fairness

----------------------------------------------------------------------------
(* Properties *)

(* What a payload decompresses to is what was compressed, whatever flags   *)
(* were allowed, whatever pointers to the calldata and to the storage the  *)
(* encoder chose, and whatever was saved since; and so are the calls made. *)
DecompressesToOriginal == pc = "done" => Output = job.output /\ made = job.calls

(* The machine ends right at the end of the payload: no flag took a byte   *)
(* too many or too few, and every mirrored flag came back to its place.    *)
ReadsWholePayload == pc = "done" => rindex = Len(calldata)

(* The encoder runs out of options for no data, as long as it is allowed   *)
(* to write words and bytes as they are.                                   *)
FailsOnlyIfForbidden ==
    pc = "failed" =>
        \E flag \in {FLAG_READ_WORD(1), FLAG_READ_N_BYTES} : ~Permits(job.opcodes, flag)

(* Bytes that turn out not to be a signature are written in another way    *)
(* ("if it fails [...] we restore the snapshot and continue", the comment  *)
(* in WriteBytesOptimized), and the compressor never crashes on them.      *)
NeverPanics == pc # "panicked"

(* The decompressor performs the calls it is asked for as module Courier   *)
(* promises ("The decompressor contract will execute the decompressed      *)
(* calls", the help of encode-calls), over memory that is not clean, and   *)
(* although those that are called may save to the storage meanwhile.  They *)
(* are asked for when the payload is executed.                             *)
Batches ==
    {<< >>} \cup {Expected(request).calls : request \in Requests}
    \cup {written.calls : written \in HandWritten}

Started == pc \notin {"idle", "failed", "panicked", "sent"}

Promise == INSTANCE Courier WITH asked <- IF Started THEN job.calls ELSE << >>,
                                 delivered <- made

ImplementsCourier == Promise!CourierSpec

(* Without --use-storage a payload neither writes the storage nor reads    *)
(* it by an index (README, "Using storage indexes").                       *)
StorageFlags ==
    {FLAG_SAVE_ADDRESS, FLAG_SAVE_BYTES32}
    \cup {FLAG_READ_ADDRESS(size) : size \in 2 .. 4}
    \cup {FLAG_READ_BYTES32(size) : size \in 2 .. 4}

StatelessByDefault == pc = "flag" /\ ~job.useStorage => Opcode \notin StorageFlags

(* A payload never saves a word again that the client knows to be in the   *)
(* storage.                                                                *)
SavesOnlyUnknownWords ==
    [][pc = "flag" =>
          /\ addresses' # addresses =>
                addresses'[Len(addresses')] \notin DOMAIN job.addressIndexes
          /\ bytes32' # bytes32 =>
                bytes32'[Len(bytes32')] \notin DOMAIN job.bytes32Indexes]_vars

(* The machine reads any payload of the compressor to its end: no cycle of *)
(* mirrors, no flag that it does not have, no power that it does not have. *)
Terminates == pc = "flag" ~> pc = "done"

(* No payload saves a word twice: a word is repeated with a pointer to the *)
(* flag that saved it, since "re-read the storage flag [...] would mean    *)
(* writting to the storage twice" (encode.go, EncodeWordOptimized).        *)
Distinct(words, from) ==
    \A i, j \in from + 1 .. Len(words) : words[i] = words[j] => i = j

SavesOnce ==
    pc = "done" => Distinct(addresses, job.base[1]) /\ Distinct(bytes32, job.base[2])

(* "Will only encode using these operations" (the help of --allow-opcodes).*)
(* The literals are known by the name of the first of them.                *)
NameOf(flag) == IF flag > LITERAL_ZERO THEN LITERAL_ZERO ELSE flag

UsesAllowedFlags == pc = "flag" => Permits(job.opcodes, NameOf(Opcode))

----------------------------------------------------------------------------
(* Requests of one word each: what the theorems about them suppose         *)

(* Bytes that are a word are written as one, which may be saved. *)
WritesWordAlone(request, options) ==
    Encode(request, options)
        = WriteWord(NewBuffer(METHOD_DECODE_ANY, options), request.data, TRUE)

WordsAlone ==
    /\ HandWritten = {}
    /\ \A request \in Requests :
          /\ request.command = "any"
          /\ request.data \in Word
          /\ \A options : WritesWordAlone(request, options)

(* The words that the program is known to compress to something else: zero *)
(* where the literals are not allowed, and those for which a flag is given *)
(* a mantissa one too large (the runs zero_word and mantissa_of_11_bits).  *)
Spoilt(w, opcodes) ==
    \/ w = Zeros(WordBytes) /\ ~ Permits(opcodes, LITERAL_ZERO)
    \/ /\ Permits(opcodes, FLAG_POW_10_MANTISSA_S)
       /\ \E m \in MantissaForms(Value(w), ExponentS, MantissaS) : m.mantissa = MantissaS
       /\ ~ (Permits(opcodes, FLAG_READ_WORD(1)) /\ Len(TrimLeft(w)) <= 2)

NoneSpoilt ==
    \A request \in Requests, settings \in Settings :
        ~ Spoilt(request.data, ParseAllowOpcodes(settings.allow, settings.disallow))

(* No index that is ever used is longer than the 4 bytes of a pointer. *)
IndexesFit == MaxSaved + MaxPayloads < ByteBase ^ 4
=============================================================================
