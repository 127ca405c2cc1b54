------------------------------ MODULE OdraCodec ------------------------------
(***************************************************************************)
(* How the readers find and decode what the contracts store                *)
(* (casper-rpc-read.ts): an Odra contract keeps each field under a key     *)
(* hashed from the field's path and, in a mapping, the mapped address; the *)
(* value is the field's bytes in a list with a length prefix.  The readers *)
(* have the paths as constants and take the bytes apart by hand.           *)
(*                                                                         *)
(* Abstracted: a byte has Base values, so that numbers of four and eight   *)
(* bytes stay small; an account hash has HashBytes of them; the hash of a  *)
(* key is taken as the bytes that are hashed.                              *)
(***************************************************************************)
EXTENDS Integers, Sequences, SequencesExt

CONSTANTS
    Base,               \* values of a byte
    HashBytes,          \* bytes of an account hash
    Accounts,           \* account hashes
    Profiles,           \* reputation profiles written
    Vectors,            \* allocations written
    Times,              \* block times written
    Null

Bytes == 0 .. Base - 1

\* The values of a number of four bytes, and of one of eight.
Word == Base * Base * Base * Base
U32 == 0 .. Word - 1
U64 == 0 .. Word * Word - 1

\* What is written has the types of the contracts' fields, and the lengths of the bytes,
\* 4 + 5 to an entry of an allocation, fit in the four bytes that announce them.
CodecAssumption ==
    /\ Base \in Nat \ {0, 1} /\ 32 < Word
    /\ HashBytes \in Nat \ {0} /\ 1 + HashBytes < Word
    /\ \A a \in Accounts : a \in Seq(Bytes) /\ Len(a) = HashBytes
    /\ Profiles \subseteq [score : U64, totalDecisions : U64, totalCorrect : U64, registeredAt : U64]
    /\ \A v \in Vectors : v \in Seq([assetId : Bytes, bps : U32]) /\ 4 + 5 * Len(v) < Word
    /\ Times \subseteq U64
    /\ Null \notin Seq(Bytes)

VARIABLES
    fields,             \* what the contracts have stored, by field and address
    state,              \* the `state` dictionaries: bytes by item key
    answer              \* the last read: what was asked, whether all bytes came, the value

vars == <<fields, state, answer>>

-----------------------------------------------------------------------------
(* The contracts' side: Odra's layout and encoding.                        *)

\* Declaration order; Odra numbers the fields of a module from 1.
VaultLayout == <<"shares", "agent", "owner", "paused", "allocation", "timestamp">>
RegistryLayout == <<"owner", "profile", "registered">>

\* The lowest byte comes first.
U32Bytes(n) ==
    LET a == n \div Base b == a \div Base c == b \div Base
    IN  <<n % Base, a % Base, b % Base, c % Base>>
U64Bytes(n) == U32Bytes(n % Word) \o U32Bytes(n \div Word)
AddressBytes(account) == <<0>> \o account

Encoded(field, value) ==
    CASE field \in {"agent", "owner"} -> AddressBytes(value)
      [] field \in {"paused", "registered"} -> <<IF value THEN 1 ELSE 0>>
      [] field = "timestamp" -> U64Bytes(value)
      [] field = "profile" -> U64Bytes(value.score) \o U64Bytes(value.totalDecisions)
                              \o U64Bytes(value.totalCorrect) \o U64Bytes(value.registeredAt)
      [] field = "allocation" ->
            U32Bytes(Len(value)) \o
            FlattenSeq([i \in DOMAIN value |-> <<value[i].assetId>> \o U32Bytes(value[i].bps)])

\* A stored value is the List(U8) of the bytes.
Stored(field, value) == U32Bytes(Len(Encoded(field, value))) \o Encoded(field, value)

-----------------------------------------------------------------------------
(* The readers' side: keys.                                                *)

\* odraIndexBytes: indices of up to 15 are packed into the digits of one number,
\* longer ones are written out after a mark.
OdraIndexBytes(path) ==
    IF \A i \in DOMAIN path : path[i] <= 15
    THEN [packed |-> FoldLeft(LAMBDA acc, index : acc * 16 + index, 0, path), long |-> << >>]
    ELSE [packed |-> -1, long |-> <<255, Len(path)>> \o path]

\* odraDictionaryItemKey
ItemKey(path, mappingData) == <<OdraIndexBytes(path), mappingData>>

\* Slips: indices counted from 0, as in the declaration.
FieldIndex_FromZero(field) ==
    CASE field = "profile" -> 1
      [] field = "agent" -> 1
      [] field = "paused" -> 3
      [] field = "allocation" -> 4
      [] field = "timestamp" -> 5

\* The readers' constants.
FieldIndex(field) ==
    CASE field = "profile" -> 2
      [] field = "agent" -> 2
      [] field = "paused" -> 4
      [] field = "allocation" -> 5
      [] field = "timestamp" -> 6

ReadFields == {"profile", "agent", "paused", "allocation", "timestamp"}

Contract(field) == IF field = "profile" THEN "registry" ELSE "vault"

(* The readers' side: values.                                              *)

\* readUInt32LE, readBigUInt64LE
U32At(bytes, offset) ==
    bytes[offset + 1] + Base * (bytes[offset + 2] + Base * (bytes[offset + 3] + Base * bytes[offset + 4]))
U64At(bytes, offset) == U32At(bytes, offset) + Word * U32At(bytes, offset + 4)

\* decodeStateInnerBytes: the field's bytes, if as many are there as announced.
Inner(raw) ==
    IF Len(raw) < 4 \/ Len(raw) - 4 < U32At(raw, 0) THEN Null
    ELSE SubSeq(raw, 5, 4 + U32At(raw, 0))

\* parseAgentProfileValue
ProfileOf(inner) ==
    IF Len(inner) < 32 THEN Null
    ELSE [score |-> U64At(inner, 0), totalDecisions |-> U64At(inner, 8),
          totalCorrect |-> U64At(inner, 16), registeredAt |-> U64At(inner, 24)]

\* parseAllocationValue
AllocationOf(inner) ==
    IF Len(inner) < 4 \/ 4 + 5 * U32At(inner, 0) > Len(inner) THEN Null
    ELSE [i \in 1 .. U32At(inner, 0) |->
            [assetId |-> inner[5 * i], bps |-> U32At(inner, 5 * i)]]

\* parseAddressValue: the tag is skipped.
AddressOf(inner) ==
    IF Len(inner) < 1 + HashBytes THEN Null ELSE SubSeq(inner, 2, 1 + HashBytes)

\* parseBoolValue
BoolOf(inner) == IF Len(inner) < 1 THEN Null ELSE inner[1] # 0

\* parseU64Value
U64Of(inner) == IF Len(inner) < 8 THEN Null ELSE U64At(inner, 0)

Parsed(field, inner) ==
    IF inner = Null THEN Null
    ELSE CASE field = "profile" -> ProfileOf(inner)
           [] field = "allocation" -> AllocationOf(inner)
           [] field = "agent" -> AddressOf(inner)
           [] field = "paused" -> BoolOf(inner)
           [] field = "timestamp" -> U64Of(inner)

-----------------------------------------------------------------------------
NoAddress == << >>

Init ==
    /\ fields = << >>
    /\ state = << >>
    /\ answer = Null

\* A contract stores a field: Odra writes the bytes under the key of its path.
Write(contract, layout, field, mapped, value) ==
    LET index == CHOOSE i \in DOMAIN layout : layout[i] = field
        key == <<contract, ItemKey(<<index>>, mapped)>>
    IN  /\ fields' = [f \in DOMAIN fields \cup {<<contract, field, mapped>>} |->
                        IF f = <<contract, field, mapped>> THEN value ELSE fields[f]]
        /\ state' = [k \in DOMAIN state \cup {key} |->
                        IF k = key THEN Stored(field, value) ELSE state[k]]
        /\ answer' = Null

VaultWrites ==
    \/ \E field \in {"agent", "owner"}, a \in Accounts :
          Write("vault", VaultLayout, field, NoAddress, a)
    \/ \E p \in BOOLEAN : Write("vault", VaultLayout, "paused", NoAddress, p)
    \/ \E v \in Vectors : Write("vault", VaultLayout, "allocation", NoAddress, v)
    \/ \E t \in Times : Write("vault", VaultLayout, "timestamp", NoAddress, t)

RegistryWrites ==
    \E a \in Accounts :
        \/ \E p \in Profiles : Write("registry", RegistryLayout, "profile", AddressBytes(a), p)
        \/ Write("registry", RegistryLayout, "registered", AddressBytes(a), TRUE)

\* readStateField and the field's parser: the item does not exist; or its bytes come,
\* the last ones maybe missing; or the node has taken the list apart already.
Read(field, mapped) ==
    LET key == <<Contract(field), ItemKey(<<FieldIndex(field)>>, mapped)>>
        asked == <<Contract(field), field, mapped>>
    IN  /\ \/ /\ key \notin DOMAIN state
              /\ answer' = <<asked, TRUE, Null>>
           \/ /\ key \in DOMAIN state
              /\ \E n \in 0 .. Len(state[key]) :
                    answer' = <<asked, n = Len(state[key]), Parsed(field, Inner(SubSeq(state[key], 1, n)))>>
           \/ /\ key \in DOMAIN state
              /\ answer' = <<asked, TRUE, Parsed(field, SubSeq(state[key], 5, Len(state[key])))>>
        /\ UNCHANGED <<fields, state>>

Next ==
    \/ VaultWrites
    \/ RegistryWrites
    \/ \E field \in ReadFields \ {"profile"} : Read(field, NoAddress)
    \/ \E a \in Accounts : Read("profile", AddressBytes(a))

Spec == Init /\ [][Next]_vars

-----------------------------------------------------------------------------
\* What a reader makes of the bytes has the type of the field.
TypeOK ==
    LET Has(field, value) ==
            CASE field = "profile" -> value.score \in U64 /\ value.registeredAt \in U64
              [] field = "agent" -> Len(value) = HashBytes
              [] field = "paused" -> value \in BOOLEAN
              [] field = "timestamp" -> value \in U64
              [] field = "allocation" -> \A i \in DOMAIN value : value[i].bps \in U32
    IN  answer # Null =>
            /\ answer[1][2] \in ReadFields
            /\ answer[3] = Null \/ Has(answer[1][2], answer[3])

\* What a reader returns is what the contract stored in the field of that name, for
\* that agent, and null if it never did: paths, encoding and parsers fit together
\* (casper-rpc-read.ts:96-109 with vault.rs:143 and registry.rs:63).
ReadsWhatWasStored ==
    (answer # Null /\ answer[2]) =>
        answer[3] = IF answer[1] \in DOMAIN fields THEN fields[answer[1]] ELSE Null

\* Of a value whose last bytes are missing a reader makes nothing: no parser takes
\* the rest for a smaller value (casper-rpc-read.ts:158).
CutValuesAreNull == (answer # Null /\ ~answer[2]) => answer[3] = Null
=============================================================================
