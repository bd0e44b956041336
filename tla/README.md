# Formal models of czip

czip compresses Ethereum calldata. A command-line program written in Go
(`compressor/`) turns calldata into a *payload* of one-byte flags and their
arguments; a contract written in Huff (`src/`) reads the payload and either
returns the calldata or makes the call. The contract also keeps a repository of
addresses and 32-byte words, which a payload may add to and refer to by index.

Two things have to be right. A payload must decompress to exactly what was
compressed, whatever flags the encoder chose. And an index must mean the same
word for ever, since it is chosen off-chain against one state of the contract
and used against another.

## Inventory

| part | state | operations | what makes it correct |
|------|-------|------------|-----------------------|
| storage repository (`state_machine.huff` 16-78, 1969-2044; `decompressor.huff` 146-213) | slot 0 with two packed counters, the slots of addresses and of bytes32 | `SAVE_ADDRESS`, `SAVE_BYTES32`, the methods and flags that read | counters and slots are exactly what was saved and not undone; no slot in use ever changes |
| methods (`decompressor.huff`) | memory, a reading place | 14 methods: decode, execute, read | a failed call of a batch takes back its own saves only |
| state machine, general flags (`state_machine.huff`) | calldata, `rindex`, memory up to `windex`, the EVM stack | 66 flags and the literals | writes what the flag stands for, ends right after its arguments, always comes back |
| state machine, Sequence flags (`state_machine.huff` 858-1691) | the same | transactions, executes, signature trees | the same |
| buffer (`buffer.go`) | committed bytes, positions of past flags, indexes, allowed flags | `end`, `FindPastData`, `Allows`, `Snapshot`, `Restore` | a remembered position is that of a flag that writes exactly that value |
| encoder (`encode.go` 12-360, 853-1097; `utils.go`) | the buffer | `EncodeWordOptimized`, `WriteWord`, `WriteBytesOptimized`, `WriteCall`, `WriteCalls`... | the round trip; only allowed flags; storage only if asked |
| Sequence encoder (`encode.go` 362-850) | the buffer | `WriteSequence*` | the round trip |
| loader (`contract.go`) | maps from words to indexes | `GetTotals`, `LoadState`, `LoadStorage`, `GenBatch`, `ParseBatchResult` | every entry is right; no word is missed |
| cache (`cmd/czip-compressor/indexes.go`) | a JSON file | `LoadCachedData`, `UseIndexes`, `SaveCachedData` | survives crashes and concurrent runs |
| command line (`main.go`, `extras.go`, `utils.go`) | none | one command per kind of data, and the extras | prints nothing but what was written to the end |

They meet in three places: the payload (encoder to state machine), the flag
numbers that both sides list for themselves, and the contract's storage, which
the state machine writes and the loader reads some time later.

What is hard to test: a callee that calls the contract again in the middle of a
batch, reverts at any depth, storage read by several calls at different blocks,
runs that share a cache file or die while they write it, indexes used long
after they were read, a chain whose last blocks are replaced, calls
decompressed over the memory of the calls before, attempts at an encoding that
are undone, pointers at the limit of their width, and the many
branches of the encoder, each right for most words and each able to be wrong
for one. `PROJECT.json` lists these hazards at the lines where they bite.

## Modules

    StorageLayout            words, slots and counters; the two saves
      Repository             the contract as a repository, inside transactions
        RepositoryProofs     its theorems
        MCRepository
      Indexes                the loader and the cache, against a moving chain
        IndexesTypeProofs    its types, and that its chain only grows
          IndexesProofs      what clients know is right
            CompletenessProofs       and complete
        MCIndexes, MCSharedCache, MCReorganisations
    Registry                 what the repository promises (abstract)
    Flags                    bytes, words, flag numbers
      FlagMachine            the decoder: one action per kind of flag
        SequenceFlags        its flags for Sequence wallets
          Decompressor       the methods around it, and the calls they make
      Buffer                 the buffer of the encoder, and its options for words
        Encoder              bytes, calls, signatures and transactions
      Originals              the requests, and what their payloads stand for
        Commands             what the program writes for them (with Encoder)
    Courier                  what the decompressor promises of calls (abstract)
    RoundTrip                Decompressor and a compressor, over a storage
      WordProofs             words, and the flags that stand for one
        RoundTripProofs      the round trip of single words
      MCWords, MCPayloads    with Commands for the compressor
      MCPointers             with MCDynamicAbi
      MCWallets              with MCSignatures and MCTransactions
    NumberProofs             least and greatest numbers, counting, division

**StorageLayout.** A 256-bit word is a pair of limbs below `Half` (2^128 in the
contract). That is the granularity at which the code works on these words: it
shifts and masks by 128 bits, and adds 1. Carries are kept. `PullAddress`,
`PullBytes32`, `SaveAddress` and `SaveBytes32` are the macros of those names as
functions from storage to storage.

**Repository.** `frames` is the stack of calls of the transaction in progress. An
`"external"` frame is any other code, which may call any method
(`Invoke`); a frame of the contract saves (`SaveAddressFlag`,
`SaveBytes32Flag`), calls (`PerformCall`, `CallRunsNoCode`) and returns. Any
frame may revert at any point (`RevertFrame`) and then has its storage back as
it was at its entry. `mined` is what nodes serve. `ledger` and `minedLedger` are
history variables: what was saved and not undone. A single save is one step
because no other code of the EVM runs between its `sload` and its `sstore`s.
The loops over calls test their counter after the call, so that a count of 0
makes one call (`Executed`).

**Registry.** Two append-only sequences. `Repository` implements it with
`addresses` and `bytes32` read from `mined` by the contract's own read methods.

**Indexes.** A client is a run of the program; its `pc` says between which two
calls to the provider or to the file system it is. Mining, other clients and
crashes happen between any two of its steps. Writing the cache is two steps,
as `os.WriteFile` empties the file first; if two clients write at once the end
of a longer text may stay behind a shorter one. A garbled file is an error to
the next run, and stays until somebody removes it (`RemoveCache`). `older` is
the storage of the last `MaxReorg` blocks, so that `Reorganise` can go back to
one of them; `undone` is a history variable with the saves that were given up
then, each with its contract, kind, index and word. `LoadState` takes the totals
`SkipBlocks` blocks ago (`Skipped`), 0 when it is called by `UseIndexes`, and the
slots at the latest block. An entry whose save was given up cannot be right, since
nothing ever removes it; `IndexesSound` and `PayloadsDecode` say that no other entry,
and no payload made of another one, is ever wrong.

**Flags, FlagMachine.** The machine is that of `FN_READ_FLAG`: `rindex`, the
memory with the write place `windex`, and a `stack` with what each flag that
waits for a nested one will do next, which is what the EVM stack and the return
addresses of the code hold. `memory` may go past `windex`: flags that write
whole words leave bytes there (`Put`), and after a call it is what the call
before has left. The sizes of the code (bits of a byte, bytes of a word, of an
address, of a selector, of a signature, the widths of mantissas, ...) are
constants with, in `Flags.tla`, the value each has in the code. Flags are kept
apart from data by adding `ByteBase` to them, since alphabets small enough for
TLC have no room for 89 flags; so a pointer to something that is not a flag
stops the machine instead of reading a data byte as a flag, and shows as a
deadlock of `Decompress`, that is as a violation of `Terminates`. For the same
reason no data is ever found by `FindPastData` in bytes that are flags.

**SequenceFlags.** The flags that write an execution (the space and the nonce,
the transactions with their table of indexes, the fields of each, the
signature), a signature (its checkpoint, its tree, the parts of the tree) and
chained signatures. A frame holds what the code keeps on its stack of seven
places, such as where the table of transactions is and how many are left.

**Decompressor.** The dispatch of the methods: what is decompressed is returned,
or handed to a callee (`made`), call after call over the same memory. A call is
a place (`pc = "call"`) where others may act. Whether it succeeds makes no
difference to what follows.

**Buffer, Encoder.** The encoder as operators from buffer to buffer, with a
`status` that is `"ok"`, an error, or `"panic"` where the code would index or
slice past an array. `EncodeWordOptimized` is the list of the options that the
code tries in turn; each option is the set of encodings it has, at most one, and
the first non-empty one is taken. Bytes are slices, an array with a size, since
slicing past the size of a slice is legal in Go up to its capacity: the parts of
a signature may end past the tree they are in. The capacity is taken to be the
rest of the data; what memory lies past that is left out. Errors that the code
drops are dropped (`WriteCheckpoint`), and what an attempt at a signature did
is undone by `Restore`, its pointers included.

**Originals, Commands.** Each command and each extra of the program as a request,
with what its payload is to stand for, and whether it is printed: an extra prints
what it wrote even after an error (`Originals`); and what the program writes for it
(`Commands`). They are two modules because the encoder is recursive, and the prover
takes no module that reaches a recursive operator: `RoundTrip` needs only the first.

**RoundTrip.** A request is compressed in one step (nothing else runs meanwhile),
against any prefix of the storage, for the client may have read it earlier; then
others save; then the payload is executed, flag by flag; then the next. `job`
remembers what was asked for, as the ABI has it: the expected bytes of an
execution are built by the ABI (`AbiExecute`), not by the machine. The compressor
is the constant `Encode`, given as `Encoded` of `Commands` by every run. At its end
are the hypotheses of the theorems about requests of a single word.

**Courier.** Somebody asks for a batch of calls; they are made once each, in their
order, with the data and to the address asked for, all of them, and before any
other. `RoundTrip` implements it with `asked` read from `job` and `delivered` from
`made`; that all of them are made is part of it, and rests on the fairness of
`Decompress`.

## Runs

| run | what TLC checks | bounds, and why they are enough |
|-----|-----------------|--------------------------------|
| `repository` | the storage invariants, write-once, and the refinement of `Registry` | depth 4: a batch in a transaction with a callee that calls back. Halves of 4 values and 2 addresses put the last address right below the slot of the first bytes32. Payloads of 0 to 2 calls. One address may be saved twice, and zero may be saved. The theorems lift all these bounds |
| `indexes` | that a client's load is complete, ends, and gives payloads that decode | 3 saves of each kind and batches of 2: loads of two batches, last batches that read past the total, totals that are old by one save and more |
| `shared_cache` | that no client believes in a wrong index and that the cache has no gaps | 2 clients, in any order of steps; 2 saves of each kind. Clients are symmetric |
| `words` | the round trip of single words, and that `Commands` is a compressor of the kind the theorems suppose | all words of 4 bytes of 4 bits that are not known to be spoilt (`Spoilt`), with everything allowed, with no `READ_WORD`, and without the short forms. The theorems lift these bounds, and add a storage |
| `payloads` | the round trip of calls and bytes, where the machine stops reading, the use of the storage, and the refinement of `Courier` | two payloads in a row, words of 6 bytes of 5 bits so that every length at which the encoder decides otherwise is another one; storage off, on, and on without mirrors. Batches of 3 performed calls, each shorter than one before it, so that it is decompressed over what that left; others save between any two |
| `pointers` | the round trip and the end of long payloads, and of `READ_DYNAMIC_ABI` | bytes of 4 bits: pointers of 2 bytes end at 256, sizes and counts of one byte at 16, and the payloads are just below, at and above. Calls of 1 to 15 arguments; by hand, all lists of up to 3 arguments that are words or bytes of 0, 3, 4 or 5, around the 4 bytes of a word, and calls as arguments of calls |
| `wallets` | the round trip of signatures and executions, and that the compressor does not crash on them | every kind of part, thresholds of one byte and of two, dynamic signatures and nested trees two levels deep, chained signatures, each flag allowed or not; data that stops being a signature after something was written; executions of 1 to 3 transactions with each field there or not, nested once, decoded and performed. Sizes as in `payloads` |
| `reorganisations` | that entries and payloads stay right when blocks are replaced, but for those of saves given up | a reorganisation of 1 or 2 blocks, at any step of a load or after it, with totals and slots read at the latest block, as the command line does; 2 saves of each kind, batches of 2. The theorems lift the bounds, that on the number of reorganisations too |
| `two_contracts` | violated: see below | 2 contracts, 1 save of each kind |
| `mantissa_of_11_bits` | violated | the words left out of `words` |
| `forbidden_flags` | violated | as `payloads`, with `read_address` disallowed |
| `signature_body` | violated | the bytes left out of `wallets` |

Deadlock is checked in the runs of `Repository` and `Indexes`. The others stop on purpose, once
`MaxPayloads` payloads have been read; that they do not stop earlier is
`Terminates`.

### What the violated runs show

- **two_contracts**: the cache file is named after the chain alone
  (`indexes.go:128`); run against a second contract of the same chain, the
  compressor uses the indexes of the first.
- **mantissa_of_11_bits**: `isPow10Mantissa(trimmed, 32, 2048)` accepts a mantissa
  of 12 bits (`encode.go:72`), which overflows into the exponent.
- **forbidden_flags**: reads of the storage do not look at the list of allowed
  flags (`encode.go:146`).
- **signature_body**: the flag of a signature is remembered under its bytes
  without the type, but writes the type too; where those bytes come again they
  are mirrored, and come back one byte longer (`encode.go:599`).

### Other known divergences

These have a configuration of their own, which is not one of the runs above. Each
of `tlc -config <cfg> <module>` ends with the named property violated. The
inputs in question are left out of the runs that pass.

| configuration | module | property | what the code does |
|---------------|--------|----------|--------------------|
| `ZeroWord.cfg` | `MCWords` | `DecompressesToOriginal` | `isPow2` of no bytes is 0, so zero becomes 2^0 when `LITERAL_ZERO` is disallowed (`encode.go:42`) |
| `SavedTwice.cfg` | `MCPayloads` | `SavesOnce` | a composite flag is remembered as stateless even if flags nested in it save, so a mirror of it saves again (`encode.go:1007`), against the comment at `encode.go:93-95` |
| `TooManyArguments.cfg` | `MCDynamicAbi` | `DecompressesToOriginal` | 256 arguments are accepted, and their number is written in one byte, as 0 (`encode.go:1028`) |
| `NoArguments.cfg` | `MCDynamicAbi` | `DecompressesToOriginal` | a call without arguments, with `abi_0_param` disallowed, is written with a count of 0 (`encode.go:1025`), which the contract reads as 1; `README.md:344` of the repository forbids such counts |
| `EmptyChain.cfg` | `MCSignatures` | `DecompressesToOriginal` | a chained signature of no signatures is written with a count of 0 (`encode.go:808`) |
| `LegacySignature.cfg` | `MCSignatures` | `DecompressesToOriginal` | bytes that start with 0 and read as a legacy signature come back with the type of a dynamic one before them (`encode.go:553`) |
| `PartOverrun.cfg` | `MCSignatures` | `DecompressesToOriginal` | a part longer than the branch it is in is read from what follows the branch (`encode.go:702`) |
| `LostCheckpoint.cfg` | `MCSignatures` | `DecompressesToOriginal` | an error while the checkpoint is written is dropped (`encode.go:607`) |
| `PanickingCall.cfg` | `MCSignatures` | `NeverPanics` | under `--use-storage` data that starts with 03, such as a call with that selector, is taken for chained signatures and indexed with lengths nothing has checked (`encode.go:815`) |
| `DroppedErrors.cfg` | `MCPointers` | `DecompressesToOriginal` | the extras print what was written before an error (`extras.go:27`) |
| `ReorganisedCache.cfg` | `MCReorganisations` | `FreshPayloadsDecode` | with no blocks to skip (`indexes.go:162`) an index of a block that is replaced later stays in the cache, and a new payload made with it decodes to another word |

### Fairness

`Indexes` assumes weak fairness of the steps of a run that is loading: a program
that is running goes on. Nothing obliges anybody to start one or the chain to
mine. `RoundTrip` assumes weak fairness of `Decompress` only: the contract, once
called, runs by itself; what is eventual in `Courier` follows from it. `Repository`
assumes none.

## Proofs

TLAPS checks 18 theorems, and the lemmas they rest on, for every value of the
constants that the assumptions of the modules allow. Each property that they state
is also checked by a run. Where a theorem has a hypothesis, it says below what goes
wrong without it, or how the hypothesis is checked.

### The repository

`RepositoryProofs` proves, for every `Half`, every set of methods and values,
every depth of calls and every size of batch:

- `Invariance`: `Spec => [](TypeOK /\ LedgersNest)`, and `TypeCorrect`:
  `Spec => []TypeOK`
- `StorageIsExact`: the storage is exactly that of the ledger
- `IndexesStable`: an index allotted before the transaction, or before any frame
  of it, reads the same
- `StorageIsWriteOnce`: a mined slot in use never changes
- `Refinement`: `Spec` implements `Registry`

The assumption that matters is `MaxAddresses + 1 < Half` and `MaxBytes32 < Half`:
there are never so many saves that an address gets the slot of a bytes32 or that
the counter of bytes32 carries into that of the addresses. The code relies on it
(2^128 saves cannot be paid for) and `contract.go:47` says so.

That the storage is exactly the ledger is not inductive: a revert replaces the
storage by that of the frame's entry, of which nothing would be known. `LedgersNest`
adds that every storage a frame would go back to is exactly that of a ledger too,
and that these ledgers extend each other from the mined one outwards. The proof
has two layers: lemmas about the two saves and the two reads on the storage of a
ledger (`SaveAddressAppends`, `SaveBytes32Appends`, `ReadsOfLedger`), where all the
arithmetic of halves and slots is; and the steps, which are of four kinds, push a
frame, save, pop a frame, commit (`PushInv`, `SaveInv`, `PopInv`, `CommitInv`), where
only the order on ledgers is used. The other theorems follow from the invariant.

### The loader and the cache

All of it is for any number of clients that share a cache, killed or not, any
values, any number of saves and any size of batch. There are three layers.

`IndexesTypeProofs` supposes nothing else: there may be several contracts and blocks
may be replaced.

- `TypeCorrect`: `Spec => []TypeOK`

`TypeOK` is not inductive: that what a client is told of the totals and finds in the
slots has its type needs the counters to be within bounds and the slots to hold what
was saved (`InBounds`), not only now but in each of the blocks that may come back.
So the invariant `TypeInv` says of the chain (`ChainInv`) that every block holds the
storage of some saves and extends the one before (`Extends`: slots in use do not
change, counters do not decrease); and of a client that the indexes it holds and the
next one it asks for are never that of the counters (`Asked`). The arithmetic is all
here: a save takes a slot that was not in use (`Saved`), and a batch, which may run
past the total that was read, never asks for the slot of the counters, nor for one
of the other kind.

`IndexesProofs` supposes `OneContract` (the file of indexes does not say which contract
it is of, and the run `two_contracts` shows a payload go wrong for it). Any number of
blocks may be replaced, any number of times, before, between and after the reads of a
client, wherever the totals are read.

- `ClientsAreRight`: `Spec => []IndexesSound`, whatever a client found, loaded or
  cached is what the contract has at that index, or was given up
- `PayloadsStayGood`: `Spec => []PayloadsDecode`, a payload made with an index reads
  the word it was made for, whenever it is executed, unless that save was given up

`CompletenessProofs`, on top of it, supposes `OneContract` and that no block is
replaced (`NoReorganisation`): the highest index of a cache may be of a save that was
given up, and then there are gaps below it.

- `LoadsAreComplete`: `Spec => []LoadIsComplete`, a client that is done loading knows
  every word below the totals it was told
- `CachesAreComplete`: `Spec => []CacheHasNoGaps`

The invariant `RightInv` says that every entry a client holds, in memory or on disk,
has the entry's word in the storage *of now*, or is of a save that was given up. A
client's own past is not mentioned: slots in use do not change when a block is mined,
and what is no longer there after a replacement was a save (`SavesOfSlots`), since
only slots that were allotted hold anything (`InBounds`). So what was right when it
was read stays right (`EntrySurvives`), and clients, the file and the chain can be
treated apart. `CompleteInv` says the same of
what is *not* missing: there are no gaps below any index in a map (`NoGaps`), and
below `Reached` a client that is loading knows everything. Neither property alone is
inductive, since a load goes on from the highest index of a cache that any client
may have written (`indexes.go:145`), and one client's findings are merged into
another's file. That the highest index of a map can be trusted needs `RightInv`: the
index was allotted, so every one below it was, and no later save can fill a gap
there (`NoGapsSurvives`).

### Words

`RoundTripProofs` proves of requests for one word each (`encode-any` of 32 bytes in
the code), any number of them one after the other, for bytes of any number of bits
and words of any number of bytes, with any flags allowed, with and without
`--use-storage`, whatever part of the storage the client knows when it makes a
payload, and whatever others save before the payload is executed (a word has no more
bits than a byte has values, as in the code):

- `InvariantHolds`: `Spec => []WordInv`
- `WordsDecompressToOriginal`: `Spec => []DecompressesToOriginal`
- `WordsAreReadWhole`: `Spec => []ReadsWholePayload`
- `WordsFailOnlyIfForbidden`: `Spec => []FailsOnlyIfForbidden`
- `WordsStatelessByDefault`: `Spec => []StatelessByDefault`
- `WordsSavedOnlyUnknown`: `Spec => SavesOnlyUnknownWords`
- `WordsTypeCorrect`: `Spec => []TypeOK`

The hypotheses are at the end of `RoundTrip`:

- `WordsAlone`: every request is one word, and the compressor writes it as
  `WriteWord(buf, word, TRUE)` does on a new buffer, which is what `WriteBytesOptimized`
  does with bytes that are a word (`encode.go:853-985`). The encoder of bytes is
  recursive, so this cannot be proved of it; the run `words` evaluates it
  (`WordsWrittenAlone`) for a sample of words, flags and storages.
- `NoneSpoilt`: the two kinds of words that the program is known to compress to
  something else are left out: zero where `LITERAL_ZERO` is not allowed
  (`ZeroWord.cfg`), and those for which `POW_10_MANTISSA_S` may be given the mantissa
  2048 (`mantissa_of_11_bits`). All other words come back: there is no third kind,
  whatever the widths of the mantissas. The run `words` has just these words.
- `IndexesFit`: no index is longer than the 4 bytes of the longest pointer, of which
  the encoder has no check of its own (`encode.go:146-211`).

An inductive proof needs to say what a payload under way stands for, by itself. That
is a *form* (`PlainForm`, `IndexedForm`, `SaveAddressForm`, `SaveBytes32Form` of
`WordProofs`): a flag and arguments, with the word as a function of them and, for
an index, of the storage. Two independent families of lemmas meet there:

1. the encoder: every option of `EncodeWordOptimized`, in the order they are tried,
   yields one of the forms of the word (`LiteralIsPlain`, `WordIsPlain`,
   `MantissaSIsPlain`, ..., `IndexOptionReads`, `SaveOptionSaves`), and the options for
   repeated words yield nothing in a new buffer (`NothingWritten`); together,
   `EncodedWord`;
2. the decoder: from each form the machine takes exactly one step, writes exactly the
   word and ends right after the arguments (`LiteralIsRead`, `WordInvIsRead`, ...,
   `SaveBytes32IsRead`). That only one of the machine's actions can be taken is
   `FlagTellsAction`, from the numbers of the flags.

Under both is the arithmetic of digits: `ValueOfDigits` and `DigitsOfValue` (a word and
its number determine each other), `TrimmedLeft` and `TrimmedRight` (a word is its
significant bytes, padded). `Value` is a recursive function, so that its equations
come from `ValueIsHorner`, which shows that a function with these equations exists by
counting up to the length of the word.

`WordInv` then says that what is sent or being read is a form of the word that was
asked for (`Carries`). A form with an index speaks of the storage, which others extend
meanwhile; since a saved word keeps its index, the form stays one (`IndexedLater`).
For `FailsOnlyIfForbidden` and `SavesOnlyUnknownWords` the invariant keeps what the
encoder knew: a failure means that `READ_WORD` was not allowed, and a form that saves
means that the client had no index for the word.

The provers know nothing of powers. `PowersAssumption` of `Flags` states the facts
used, `b ^ 0 = 1` and `b ^ n = b * b ^ (n - 1)` and that powers are natural numbers,
for the bounded exponents that occur; they hold of any numbers, and every run
evaluates them. `FlagsAssumption` has what the code's constants satisfy: the mantissas
and exponents fill 2 and 3 bytes (2048 * 32, 262144 * 64), exponents of 10 fit in a
byte (77), and exponents of 2 do too (a word has no more bits than a byte has
values, 256).

### Only model-checked

Of `RoundTrip`,
everything about requests longer than a word: calls, bytes, signatures, executions,
mirrors and copies, batches, the refinement of `Courier`, and that the compressor
does not panic (`NeverPanics`; the encoder of single words has nowhere to). The encoder
of these is recursive over its data, and what a recursive operator computes for every
input needs an induction over data, which is out of the prover's reach. So are
liveness (`LoadEnds`, `Terminates`, and the fairness part of `Courier`) and what the
folds over words and calls compute.

## Not modelled, and why

- What a callee returns to `EXECUTE_CALL_RETURN`, and the return data of a batch:
  the contract hands it on as it is.
- `msg.value # 0`: the contract uses `callvalue` for zero, and the README of the
  repository says that its behaviour is then undefined.
- Gas: running out of it is a revert, which may happen anywhere.
- Parsing of arguments and JSON: pure input and output. The names that
  `--allow-opcodes` takes are sets of flags. Decoding an execution from calldata
  is the work of a library (go-sequence); the requests hold executions.
- The capacity of a Go slice past the end of the data it was made for.
- Executions of no transactions: the encoder refuses them.
- `errors.huff`: included, but no macro of it is used.
- The Solidity tests: they are quoted, where they say what is meant.

## Plan

Done: all the components but for the parts listed above; the proofs about the
repository, about what clients know of it, and about words. What is left is to prove
more of what is only model-checked of `RoundTrip`: sequences of words
(`WriteNWords`), for which the invariant must say of every pointer in the buffer
(`usedFlags` and `usedStorageFlags` of `buffer.go`) that the flag it points to writes
the same word, which gives mirrors, copies and `READ_STORE_FLAG`; and with them that
a sequence of words saves none of them twice.
