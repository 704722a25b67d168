----------------------------- MODULE LegacyDid -----------------------------
(***************************************************************************)
(* The legacy auto-incrementing DID keeper of x/cheqd/keeper/did.go.       *)
(*                                                                         *)
(* The module's KV store holds, under DidCountKey, the decimal text of a   *)
(* uint64 counter and, under the 8-byte big-endian encoding of an id, the  *)
(* record with that id.  Every keeper method that writes is an action; a   *)
(* panic (the count text does not parse) aborts the transaction, which     *)
(* the host reverts, so it is a stutter.  The counter keeps its wrap-around *)
(* at a reduced width Width (64 in the code) and a key byte has ByteBits   *)
(* bits (8 in the code): the encodings are the code's, at a smaller scale. *)
(***************************************************************************)
EXTENDS Naturals, Sequences, FiniteSets, Functions

CONSTANTS
    Width,     \* bits of the uint64 counter
    ByteBits,  \* bits of one byte of a key
    Creators,  \* creator addresses
    Verkeys,   \* verification keys
    Aliases,   \* aliases
    MaxOps     \* bound on the number of keeper writes

Uint == 0..(2^Width - 1)

(* types.Did of the legacy keeper.                                        *)
Record == [creator : Creators, id : Uint, verkey : Verkeys, alias : Aliases]

(* A key is eight bytes.                                                  *)
Byte == 0..(2^ByteBits - 1)
Key == [1..8 -> Byte]

VARIABLES
    countKey,  \* the bytes under DidCountKey: <<>> when absent, else decimal digits
    records,   \* the records under the DidKey prefix: a function from keys
    ops        \* keeper writes so far

vars == <<countKey, records, ops>>

-----------------------------------------------------------------------------
(* strconv.FormatUint(n, 10): the decimal digits, most significant first. *)
Dec[n \in 0..2^Width] ==
    IF n < 10 THEN <<n>> ELSE Append(Dec[n \div 10], n % 10)

FormatUint(n) == Dec[n]

(* The value of a digit sequence read most significant first.             *)
DigitsValue(s) ==
    LET v[i \in 0..Len(s)] == IF i = 0 THEN 0 ELSE 10 * v[i - 1] + s[i]
    IN  v[Len(s)]

(* strconv.ParseUint(s, 10, 64) fails on empty input and out of range.    *)
ParseFails(s) == s = <<>> \/ DigitsValue(s) >= 2^Width

(* GetDidCount: 0 when the key is absent, else the parsed text.           *)
GetDidCount == IF countKey = <<>> THEN 0 ELSE DigitsValue(countKey)

(* GetDidCount panics ("cannot decode count").                            *)
CountCorrupt == countKey # <<>> /\ ParseFails(countKey)

(* Mutant: the id bytes written little-endian.                          *)
GetDidIDBytesLittle(id) ==
    [i \in 1..8 |-> (id \div 2^(ByteBits * (i - 1))) % 2^ByteBits]

(* GetDidIDBytes: binary.BigEndian.PutUint64.                             *)
GetDidIDBytes(id) ==
    [i \in 1..8 |-> (id \div 2^(ByteBits * (8 - i))) % 2^ByteBits]

(* GetDidIDFromBytes: binary.BigEndian.Uint64.                            *)
GetDidIDFromBytes(k) ==
    LET v[i \in 0..8] == IF i = 0 THEN 0 ELSE v[i - 1] * 2^ByteBits + k[i]
    IN  v[8]

(* store.Set(key, value) on the DidKey prefix.                            *)
Put(k, r) == [x \in DOMAIN records \cup {k} |-> IF x = k THEN r ELSE records[x]]

(* The KV iterator visits keys in lexicographic byte order.               *)
KeyLess(a, b) ==
    \E i \in 1..8 : a[i] < b[i] /\ \A j \in 1..i - 1 : a[j] = b[j]

KeysInOrder(K) ==
    [i \in 1..Cardinality(K) |->
        CHOOSE k \in K : Cardinality({j \in K : KeyLess(j, k)}) = i - 1]

(* GetAllDid: the records in iteration order.                             *)
GetAllDid ==
    LET ks == KeysInOrder(DOMAIN records)
    IN  [i \in 1..Len(ks) |-> records[ks[i]]]

-----------------------------------------------------------------------------
Init ==
    /\ countKey = <<>>
    /\ records = [k \in {} |-> CHOOSE r \in Record : TRUE]
    /\ ops = 0

(* SetDidCount: store the decimal text of count.                          *)
SetDidCount(count) ==
    /\ ops < MaxOps
    /\ countKey' = FormatUint(count)
    /\ ops' = ops + 1
    /\ UNCHANGED records

(* AppendDid: store a record under the current count, then store count+1  *)
(* (uint64 arithmetic).                                                   *)
AppendDid(creator, verkey, alias) ==
    /\ ops < MaxOps
    /\ ~CountCorrupt
    /\ LET count == GetDidCount
       IN  /\ records' = Put(GetDidIDBytes(count),
                             [creator |-> creator, id |-> count,
                              verkey |-> verkey, alias |-> alias])
           /\ countKey' = FormatUint((count + 1) % 2^Width)
    /\ ops' = ops + 1

(* SetDid: store a record under its own id, whatever is there.            *)
SetDid(did) ==
    /\ ops < MaxOps
    /\ records' = Put(GetDidIDBytes(did.id), did)
    /\ ops' = ops + 1
    /\ UNCHANGED countKey

(* RemoveDid: delete the key of id (a no-op when absent).                 *)
RemoveDid(id) ==
    /\ ops < MaxOps
    /\ records' = Restrict(records, DOMAIN records \ {GetDidIDBytes(id)})
    /\ ops' = ops + 1
    /\ UNCHANGED countKey

Next ==
    \/ \E c \in Uint : SetDidCount(c)
    \/ \E c \in Creators, v \in Verkeys, a \in Aliases : AppendDid(c, v, a)
    \/ \E r \in Record : SetDid(r)
    \/ \E id \in Uint : RemoveDid(id)

Spec == Init /\ [][Next]_vars

-----------------------------------------------------------------------------
(* GetAllDid lists the records by increasing id, and each record is the   *)
(* one its key decodes to: the big-endian key encoding makes the store's  *)
(* byte order the numeric order of ids, and GetDidIDFromBytes inverts it. *)
AllDidOrdered ==
    /\ \A i, j \in 1..Len(GetAllDid) : i < j => GetAllDid[i].id < GetAllDid[j].id
    /\ \A k \in DOMAIN records : GetDidIDFromBytes(k) = records[k].id

(* The comment of AppendDid: it appends a did "with a new id", so the key *)
(* an append writes holds no record before it.                            *)
AppendFresh ==
    [][countKey' # countKey /\ records' # records
         => GetDidIDBytes(GetDidCount) \notin DOMAIN records]_vars

=============================================================================
