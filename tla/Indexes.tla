------------------------------ MODULE Indexes ------------------------------
(***************************************************************************)
(* How the compressor learns what the contract has stored, and what comes  *)
(* of compressing with it.                                                 *)
(*                                                                         *)
(* A client is one run of czip-compressor with --use-storage: it loads the *)
(* indexes cached on disk, asks the contract for its totals and then, in   *)
(* batches, for the slots it does not know, first of the addresses and     *)
(* then of the bytes32, saves the cache, and makes a payload that reads a  *)
(* word by its index.  The payload is executed at any later time.          *)
(*                                                                         *)
(* Meanwhile transactions are mined that save more values, other clients   *)
(* run against the same cache file, and a client may be killed at any      *)
(* point.  The contract is the one of module Repository, whose theorems    *)
(* say that a mined transaction only ever appends; but the last blocks of  *)
(* the chain may be replaced by others.                                    *)
(***************************************************************************)
EXTENDS StorageLayout, FiniteSetsExt

CONSTANTS
    Clients,        (* the runs of the compressor *)
    Contracts,      (* decompressors deployed on the chain *)
    AddressValues,  (* addresses that are ever saved *)
    Bytes32Values,  (* bytes32 that are ever saved *)
    MaxSaves,       (* no more addresses, nor more bytes32, are ever saved *)
    BatchSize,      (* slots read by one call, 2048 in UseIndexes *)
    SkipBlocks,     (* totals are read so many blocks ago, 0 in UseIndexes *)
    MaxReorg,       (* no more blocks are ever replaced together *)
    MaxReorgs       (* nor any more often *)

ASSUME IndexesAssumption ==
    /\ AddressValues \subseteq Word
    /\ Bytes32Values \subseteq Word
    /\ BatchSize \in Nat \ {0}
    /\ MaxSaves \in Nat
    /\ MaxReorg \in Nat
    /\ SkipBlocks \in 0 .. MaxReorg
    /\ MaxReorgs \in Nat
    /\ 2 * MaxSaves + 2 < Half  (* the largest slot a batch may ask for *)

VARIABLES
    storage,  (* the mined storage of every contract *)
    older,    (* what it was in the last MaxReorg blocks before, oldest first *)
    reorgs,   (* how often blocks were replaced *)
    undone,   (* the saves that were given up then: a history variable *)
    cache,    (* the file czip-indexes-<chain id>.json *)
    client    (* what every client is about *)

chainVars == <<storage, older, reorgs, undone>>
vars == <<chainVars, cache, client>>

----------------------------------------------------------------------------
(* Indexes: for the addresses and for the bytes32, a map from a word to an *)
(* index at which the contract stores it.                                  *)

Kinds == {"address", "bytes32"}

NoMap == [v \in {} |-> 0]
NoIndexes == [kind \in Kinds |-> NoMap]

(* Mutant: what was known before is forgotten. *)
MergeNothing(old, new) == new

(* The entries of a map replaced, and completed, by those of another. *)
Merge(old, new) ==
    [v \in DOMAIN old \cup DOMAIN new |->
        IF v \in DOMAIN new THEN new[v] ELSE old[v]]

MaxIndex(map) == Max(Range(map) \cup {0})

(* The file is missing, holds indexes, or holds text that is not JSON. *)
Missing == [state |-> "missing", indexes |-> NoIndexes]
Garbled == [state |-> "garbled", indexes |-> NoIndexes]
File(indexes) == [state |-> "saved", indexes |-> indexes]

Entries(file) == Cardinality(DOMAIN file.indexes["address"])
                 + Cardinality(DOMAIN file.indexes["bytes32"])

----------------------------------------------------------------------------
(* The slots a client asks for, and what it makes of the answer *)

(* Mutant: the addresses are looked for where their index says. *)
AddressIndexShifted(i) == W(0, i)

AddressIndex(i) == W(0, i + 1)
Bytes32Index(i) == W(i, 0)

SlotOf(kind, i) == IF kind = "address" THEN AddressIndex(i) ELSE Bytes32Index(i)

(* Mutant: a slot that is not in use is counted. *)
TotalPastEnd(kind, st) ==
    IF kind = "address" THEN AddressesNum(st).lo + 2 ELSE Bytes32Num(st).lo + 2

(* One more than the last index in use. *)
Total(kind, st) ==
    IF kind = "address" THEN AddressesNum(st).lo + 1 ELSE Bytes32Num(st).lo + 1

(* Mutant: one slot too few is asked for. *)
GenBatchShort(from, total) == from .. from + Min({total, BatchSize}) - 2

(* The indexes asked for together.  Their number is capped by the total,   *)
(* not by what is left of it, so the last batch reads past the total.      *)
GenBatch(from, total) == from .. from + Min({total, BatchSize}) - 1

(* Mutant: an index is counted from the start of its batch. *)
ParseBatchFromStart(kind, st, batch) ==
    LET found == {st[SlotOf(kind, i)] : i \in batch} \ {Zero}
    IN  [v \in found |-> Max({i \in batch : st[SlotOf(kind, i)] = v}) - Min(batch)]

(* The words found, each at the last index where it was found; a slot that *)
(* reads zero is ignored.                                                  *)
ParseBatch(kind, st, batch) ==
    LET found == {st[SlotOf(kind, i)] : i \in batch} \ {Zero}
    IN  [v \in found |-> Max({i \in batch : st[SlotOf(kind, i)] = v})]

(* What a payload that uses an index decodes to. *)
ReadIndex(kind, st, i) ==
    IF kind = "address" THEN ReadAddress(st, W(0, i)) ELSE ReadBytes32(st, W(0, i))

(* The saves that a contract holds: which kind, at which index, which word.*)
Saves(st) ==
    {save \in Kinds \X (1 .. MaxSaves) \X (AddressValues \cup Bytes32Values) :
        /\ save[2] < Total(save[1], st)
        /\ ReadIndex(save[1], st, save[2]) = save[3]}

----------------------------------------------------------------------------
(* A client is                                                             *)
(*    "idle"      not started, or done                                     *)
(*    "started"   about to ask for the totals, with the cache loaded       *)
(*    "slots"     about to ask for the slots from client.next on           *)
(*    "writing"   about to write the cache file, which it has opened       *)
(*    "ready"     about to compress                                        *)
(*    "sent"      done, its payload to be executed some day                *)

Loading == {"started", "slots", "writing"}

Idle == [pc |-> "idle"]

NewClient(contract) ==
    [pc |-> "started", contract |-> contract, kind |-> "address",
     indexes |-> cache.indexes, found |-> NoIndexes,
     total |-> [kind \in Kinds |-> 0], next |-> 0, since |-> reorgs]

IndexMaps ==
    UNION {[S -> 0 .. 2 * MaxSaves + 1] : S \in SUBSET (AddressValues \cup Bytes32Values)}

TypeOK ==
    /\ storage \in [Contracts -> Storage]
    /\ older \in Seq([Contracts -> Storage])
    /\ reorgs \in 0 .. MaxReorgs
    /\ undone \in
          [Contracts -> SUBSET (Kinds \X (1 .. MaxSaves) \X (AddressValues \cup Bytes32Values))]
    /\ cache.state \in {"missing", "garbled", "saved"}
    /\ cache.indexes \in [Kinds -> IndexMaps]
    /\ \A c \in Clients :
          \/ client[c] = Idle
          \/ /\ client[c].pc \in Loading \cup {"ready"}
             /\ client[c].contract \in Contracts
             /\ client[c].kind \in Kinds
             /\ client[c].indexes \in [Kinds -> IndexMaps]
             /\ client[c].found \in [Kinds -> IndexMaps]
             /\ client[c].next \in Nat
             /\ client[c].total \in [Kinds -> 0 .. MaxSaves + 1]
          \/ /\ client[c].pc = "sent"
             /\ client[c].contract \in Contracts
             /\ client[c].kind \in Kinds
             /\ client[c].value \in AddressValues \cup Bytes32Values
             /\ client[c].index \in Nat

Init ==
    /\ storage = [contract \in Contracts |-> EmptyStorage]
    /\ older = [b \in 1 .. MaxReorg |-> storage]
    /\ reorgs = 0
    /\ undone = [contract \in Contracts |-> {}]
    /\ cache = Missing
    /\ client = [c \in Clients |-> Idle]

Become(c, next) == client' = [client EXCEPT ![c] = next]

----------------------------------------------------------------------------
(* The chain: a block has one transaction, or none.                        *)

Mine(mined) ==
    LET blocks == Append(older, storage)
    IN  /\ storage' = mined
        /\ older' = SubSeq(blocks, Len(blocks) - Min({MaxReorg, Len(blocks)}) + 1, Len(blocks))
        /\ UNCHANGED <<reorgs, undone, cache, client>>

MineAddress(contract, v) ==
    /\ AddressesNum(storage[contract]).lo < MaxSaves
    /\ Mine([storage EXCEPT ![contract] = SaveAddress(@, v)])

MineBytes32(contract, v) ==
    /\ Bytes32Num(storage[contract]).lo < MaxSaves
    /\ Mine([storage EXCEPT ![contract] = SaveBytes32(@, v)])

MineNothing == MaxReorg > 0 /\ Mine(storage)

(* Some of the last blocks are given up, for others to be mined instead,   *)
(* and with them what was saved in them.                                   *)
Reorganise(depth) ==
    LET left == Len(older) - depth
    IN  /\ reorgs < MaxReorgs
        /\ left >= 0
        /\ storage' = older[left + 1]
        /\ older' = SubSeq(older, 1, left)
        /\ reorgs' = reorgs + 1
        /\ undone' = [contract \in Contracts |->
              undone[contract] \cup (Saves(storage[contract]) \ Saves(storage'[contract]))]
        /\ UNCHANGED <<cache, client>>

(* The storage as of SkipBlocks before the last block, once as many blocks *)
(* were mined as were given up: a chain is replaced by a longer one.       *)
Skipped == (older \o <<storage>>)[Len(older) + 1 - SkipBlocks]

----------------------------------------------------------------------------
(* The client *)

(* LoadCachedData: a missing file is an empty one, a garbled one an error. *)
Start(c, contract) ==
    /\ client[c] = Idle
    /\ cache.state # "garbled"
    /\ Become(c, NewClient(contract))
    /\ UNCHANGED <<chainVars, cache>>

(* GetTotals, and the first slot to ask for: that of the highest cached    *)
(* index, but never that of index 0 of the bytes32, which is the slot of   *)
(* the counters.                                                           *)
GetTotals(c, kind) ==
    LET me == client[c]
        skip == MaxIndex(me.indexes[kind])
    IN  /\ Len(older) = MaxReorg
        /\ Become(c, [me EXCEPT
              !.pc = "slots",
              !.kind = kind,
              !.next = IF kind = "bytes32" /\ skip = 0 THEN 1 ELSE skip,
              !.total[kind] = Total(kind, Skipped[me.contract])])
        /\ UNCHANGED <<chainVars, cache>>

GetTotalAddresses(c) ==
    /\ client[c].pc = "started"
    /\ GetTotals(c, "address")

(* Mutant: the loop advances by as many slots as were found in use. *)
ReadSlotsInUse(c) ==
    LET me == client[c]
        found == ParseBatch(me.kind, storage[me.contract],
                            GenBatch(me.next, me.total[me.kind]))
    IN  /\ me.pc = "slots"
        /\ me.next < me.total[me.kind]
        /\ Become(c, [me EXCEPT !.next = @ + Cardinality(DOMAIN found),
                                !.found[me.kind] = Merge(@, found)])
        /\ UNCHANGED <<chainVars, cache>>

(* One turn of the loop of LoadStorage. *)
ReadSlots(c) ==
    LET me == client[c]
        batch == GenBatch(me.next, me.total[me.kind])
    IN  /\ me.pc = "slots"
        /\ me.next < me.total[me.kind]
        /\ Become(c, [me EXCEPT
              !.next = @ + BatchSize,
              !.found[me.kind] =
                  Merge(@, ParseBatch(me.kind, storage[me.contract], batch))])
        /\ UNCHANGED <<chainVars, cache>>

SlotsRead(c, kind) ==
    /\ client[c].pc = "slots"
    /\ client[c].kind = kind
    /\ client[c].next >= client[c].total[kind]

(* The bytes32 come after the addresses. *)
GetTotalBytes32(c) ==
    /\ SlotsRead(c, "address")
    /\ GetTotals(c, "bytes32")

(* What was found is merged into what was cached, and the file opened by   *)
(* os.WriteFile, which empties it.                                         *)
OpenCache(c) ==
    LET me == client[c]
    IN  /\ SlotsRead(c, "bytes32")
        /\ Become(c, [me EXCEPT
              !.pc = "writing",
              !.found = NoIndexes,
              !.indexes = [kind \in Kinds |-> Merge(@[kind], me.found[kind])]])
        /\ cache' = Garbled
        /\ UNCHANGED chainVars

(* os.WriteFile then writes.  If another client has written a longer text  *)
(* since the file was opened, the end of that text stays behind this one.  *)
WriteCache(c) ==
    LET mine == File(client[c].indexes)
    IN  /\ client[c].pc = "writing"
        /\ Become(c, [client[c] EXCEPT !.pc = "ready"])
        /\ cache' = IF Entries(cache) > Entries(mine) THEN Garbled ELSE mine
        /\ UNCHANGED chainVars

(* A word of the calldata is found in the indexes, and the payload reads   *)
(* it by its index: the addresses are looked up first.  An index of zero   *)
(* is what Go's map returns for a word that is not there.                  *)
Compress(c, kind, v) ==
    LET me == client[c]
    IN  /\ me.pc = "ready"
        /\ v \in DOMAIN me.indexes[kind]
        /\ me.indexes[kind][v] # 0
        /\ kind = "bytes32" => v \notin DOMAIN me.indexes["address"]
        /\ Become(c, [pc |-> "sent", contract |-> me.contract, kind |-> kind,
                      value |-> v, index |-> me.indexes[kind][v], since |-> me.since])
        /\ UNCHANGED <<chainVars, cache>>

(* The client ends: killed, by an error of the provider, or because there  *)
(* is nothing to compress; or its payload has been executed.               *)
End(c) ==
    /\ client[c] # Idle
    /\ Become(c, Idle)
    /\ UNCHANGED <<chainVars, cache>>

(* Somebody removes the cache. *)
RemoveCache ==
    /\ cache.state # "missing"
    /\ cache' = Missing
    /\ UNCHANGED <<chainVars, client>>

LoadStep(c) ==
    \/ GetTotalAddresses(c) \/ ReadSlots(c) \/ GetTotalBytes32(c)
    \/ OpenCache(c) \/ WriteCache(c)

Next ==
    \/ \E contract \in Contracts, v \in AddressValues : MineAddress(contract, v)
    \/ \E contract \in Contracts, v \in Bytes32Values : MineBytes32(contract, v)
    \/ MineNothing
    \/ \E depth \in 1 .. MaxReorg : Reorganise(depth)
    \/ \E c \in Clients, contract \in Contracts : Start(c, contract)
    \/ \E c \in Clients : GetTotalAddresses(c)
    \/ \E c \in Clients : ReadSlots(c)
    \/ \E c \in Clients : GetTotalBytes32(c)
    \/ \E c \in Clients : OpenCache(c)
    \/ \E c \in Clients : WriteCache(c)
    \/ \E c \in Clients, kind \in Kinds :
          \E v \in AddressValues \cup Bytes32Values : Compress(c, kind, v)
    \/ \E c \in Clients : End(c)
    \/ RemoveCache

(* A run of the compressor goes on by itself; nothing obliges anybody to   *)
(* start one, or the chain to mine.                                        *)
Fairness == \A c \in Clients : WF_vars(LoadStep(c))

Spec == Init /\ [][Next]_vars /\ Fairness

----------------------------------------------------------------------------
(* Properties *)

(* The save that an entry of a map speaks of was given up. *)
GivenUp(contract, kind, v, i) == <<kind, i, v>> \in undone[contract]

(* Every entry of a map from words to indexes reads back as that word,     *)
(* unless it is of a save that was given up.                               *)
SoundFor(indexes, contract) ==
    \A kind \in Kinds : \A v \in DOMAIN indexes[kind] :
        \/ ReadIndex(kind, storage[contract], indexes[kind][v]) = v
        \/ GivenUp(contract, kind, v, indexes[kind][v])

(* Whatever was mined between the reads of totals and slots and since, and *)
(* whichever client wrote the cache last, no client believes in an index   *)
(* that means another word (LoadState, UseIndexes and the cache); only an  *)
(* entry of which the very save was given up, with the block it was in,    *)
(* may be wrong, and no other entry is because of it.                      *)
IndexesSound ==
    \A c \in Clients : client[c].pc \in Loading \cup {"ready"} =>
        /\ SoundFor(client[c].indexes, client[c].contract)
        /\ SoundFor(client[c].found, client[c].contract)

(* A payload made with an index decodes to the word it was made from, no   *)
(* matter how much is saved before it is executed, and which other blocks  *)
(* are replaced: it takes that the save it refers to is itself given up.   *)
PayloadsDecode ==
    \A c \in Clients : client[c].pc = "sent" =>
        \/ ReadIndex(client[c].kind, storage[client[c].contract], client[c].index)
                = client[c].value
        \/ GivenUp(client[c].contract, client[c].kind, client[c].value, client[c].index)

(* The same of a payload made since the last time blocks were replaced, by *)
(* a client that was started since: "sending the payload to the            *)
(* `decompressor.huff` contract will return the original data" (README).   *)
FreshPayloadsDecode ==
    \A c \in Clients : client[c].pc = "sent" /\ client[c].since = reorgs =>
        ReadIndex(client[c].kind, storage[client[c].contract], client[c].index)
            = client[c].value

(* A client asks only for the slots from the highest cached index on.  So  *)
(* the cache must know every word at or below that index, although batches *)
(* read past the total and clients overwrite each other's file.            *)
CacheHasNoGaps ==
    \A contract \in Contracts, kind \in Kinds :
        \A i \in 1 .. MaxIndex(cache.indexes[kind]) :
            LET v == ReadIndex(kind, storage[contract], i)
            IN  v # Zero => v \in DOMAIN cache.indexes[kind]

(* A client that is done loading knows every word the contract had when it *)
(* was asked for its totals.                                               *)
LoadIsComplete ==
    \A c \in Clients : client[c].pc = "ready" =>
        \A kind \in Kinds : \A i \in 1 .. client[c].total[kind] - 1 :
            LET v == ReadIndex(kind, storage[client[c].contract], i)
            IN  v # Zero => v \in DOMAIN client[c].indexes[kind]

(* Loading ends, however much is mined while it goes on: the totals are    *)
(* read once for each kind.                                                *)
LoadEnds == \A c \in Clients : client[c].pc = "started" ~> client[c].pc \notin Loading
=============================================================================
