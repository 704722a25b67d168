------------------------------ MODULE DidCodec ------------------------------
(***************************************************************************)
(* The protobuf wire codec generated for the DID document types            *)
(* (x/cheqd/types/did.pb.go): Size, MarshalToSizedBuffer, Marshal,         *)
(* encodeVarintDid and sovDid on the encoding side, Unmarshal and skipDid  *)
(* on the decoding side.  A document is stored and hashed as these bytes,  *)
(* and every transaction carries one to be decoded, so the decoder meets   *)
(* bytes chosen by anybody.                                                *)
(*                                                                         *)
(* Strings are byte sequences, repeated fields sequences, messages         *)
(* records keyed by the Go field names.  Integer arithmetic keeps its      *)
(* width: uint64 is arithmetic modulo 2^Width, int its two's complement    *)
(* reading, int32 the same at TagWidth bits.  The marshal buffer is a      *)
(* record [buf, i, lim, panic]: buf is dAtA, i the Go index written down   *)
(* from, lim the length of the slice dAtA[:lim] the current call was      *)
(* given, panic whether a write fell outside it.  Decoding returns a       *)
(* record whose err is "none" on success and otherwise names the Go error  *)
(* (or "panic" for a slice or index out of range).                         *)
(***************************************************************************)
EXTENDS Naturals, Integers, Sequences, SequencesExt, DidCodecInt

CONSTANTS
    TagWidth,   \* bits of int32, the type of fieldNum (32 in the build)
    Bytes,      \* the byte values the enumerated inputs are made of
    MaxLen      \* the longest input enumerated

ASSUME CodecAssumption ==
    /\ TagWidth \in Nat /\ TagWidth >= 2
    /\ Bytes \subseteq 0..255
    /\ MaxLen \in Nat

VARIABLE input      \* the bytes handed to Did.Unmarshal

vars == <<input>>

(* --------------------------- the messages ------------------------------ *)

EmptyKeyValuePair == [Key |-> <<>>, Value |-> <<>>]

EmptyService == [Id |-> <<>>, Type |-> <<>>, ServiceEndpoint |-> <<>>]

EmptyVerificationMethod ==
    [Id |-> <<>>, Type |-> <<>>, Controller |-> <<>>,
     PublicKeyJwk |-> <<>>, PublicKeyMultibase |-> <<>>]

EmptyDid ==
    [Context |-> <<>>, Id |-> <<>>, Controller |-> <<>>,
     VerificationMethod |-> <<>>, Authentication |-> <<>>,
     AssertionMethod |-> <<>>, CapabilityInvocation |-> <<>>,
     CapabilityDelegation |-> <<>>, KeyAgreement |-> <<>>,
     Service |-> <<>>, AlsoKnownAs |-> <<>>]

(* ------------------------ fixed-width integers ------------------------- *)

(* int32(x) of the tag's field number (Signed, AddInt: DidCodecInt). *)
Int32(x) ==
    LET t == x % 2^TagWidth
    IN  IF t >= 2^(TagWidth - 1) THEN t - 2^TagWidth ELSE t

(* math_bits.Len64(x): the number of bits needed to write x. *)
BitLen(x) == CHOOSE k \in 0..Width : x < 2^k /\ (k = 0 \/ x >= 2^(k - 1))

(* sovDid(x) == (Len64(x|1) + 6) / 7, the bytes of x as a varint. *)
sovDid(x) == (BitLen(IF x % 2 = 0 THEN x + 1 ELSE x) + 6) \div 7

(* --------------------------- encoding ---------------------------------- *)

(* The bytes encodeVarintDid writes: 7 bits each, least significant first, *)
(* the high bit set on all but the last.                                   *)
RECURSIVE VarintBytes(_)
VarintBytes(v) ==
    IF v >= 128 THEN <<(v % 128) + 128>> \o VarintBytes(v \div 128) ELSE <<v>>

(* dAtA[at ...] = bs; a write outside dAtA[:lim] panics. *)
PutAt(st, at, bs) ==
    IF at < 0 \/ at + Len(bs) > st.lim
    THEN [st EXCEPT !.panic = TRUE]
    ELSE [st EXCEPT !.buf = [k \in DOMAIN st.buf |->
                               IF at < k /\ k <= at + Len(bs)
                               THEN bs[k - at] ELSE st.buf[k]]]

(* offset -= sovDid(v); the varint is written from there; i = base. *)
encodeVarintDid(st, v) ==
    LET base == st.i - sovDid(v)
    IN  [PutAt(st, base, VarintBytes(v)) EXCEPT !.i = base]

(* i -= len(s); copy(dAtA[i:], s) *)
CopyBack(st, s) ==
    LET j == st.i - Len(s) IN [PutAt(st, j, s) EXCEPT !.i = j]

(* i--; dAtA[i] = tag *)
TagBack(st, tag) ==
    LET j == st.i - 1 IN [PutAt(st, j, <<tag>>) EXCEPT !.i = j]

(* One string field: its bytes, their length, its tag, written backwards. *)
WriteString(st, s, tag) == TagBack(encodeVarintDid(CopyBack(st, s), Len(s)), tag)

(* if len(m.F) > 0 { ... } for a singular string field. *)
WriteOptString(st, s, tag) == IF Len(s) > 0 THEN WriteString(st, s, tag) ELSE st

(* for iNdEx := len(m.F) - 1; iNdEx >= 0; iNdEx-- { ... }: last first. *)
WriteRepString(st, ss, tag) ==
    FoldRight(LAMBDA s, acc : WriteString(acc, s, tag), ss, st)

(* A nested message: its MarshalToSizedBuffer(dAtA[:i]) has written it    *)
(* below i (result r); i -= size; then its length and tag.                *)
WriteMessage(st, r, tag) ==
    TagBack(encodeVarintDid([r EXCEPT !.lim = st.lim], st.i - r.i), tag)

(* dAtA[:i], the slice a nested MarshalToSizedBuffer is given. *)
Nested(st) == [st EXCEPT !.lim = st.i]

KeyValuePairMarshalToSizedBuffer(st, m) ==
    WriteOptString(WriteOptString(st, m.Value, 18), m.Key, 10)

ServiceMarshalToSizedBuffer(st, m) ==
    LET s1 == WriteOptString(st, m.ServiceEndpoint, 26)
        s2 == WriteOptString(s1, m.Type, 18)
    IN  WriteOptString(s2, m.Id, 10)

VerificationMethodMarshalToSizedBuffer(st, m) ==
    LET s1 == WriteOptString(st, m.PublicKeyMultibase, 42)
        s2 == FoldRight(LAMBDA e, acc :
                  WriteMessage(acc, KeyValuePairMarshalToSizedBuffer(Nested(acc), e), 34),
                  m.PublicKeyJwk, s1)
        s3 == WriteOptString(s2, m.Controller, 26)
        s4 == WriteOptString(s3, m.Type, 18)
    IN  WriteOptString(s4, m.Id, 10)

DidMarshalToSizedBuffer(st, m) ==
    LET s1 == WriteRepString(st, m.AlsoKnownAs, 90)
        s2 == FoldRight(LAMBDA e, acc :
                  WriteMessage(acc, ServiceMarshalToSizedBuffer(Nested(acc), e), 82),
                  m.Service, s1)
        s3 == WriteRepString(s2, m.KeyAgreement, 74)
        s4 == WriteRepString(s3, m.CapabilityDelegation, 66)
        s5 == WriteRepString(s4, m.CapabilityInvocation, 58)
        s6 == WriteRepString(s5, m.AssertionMethod, 50)
        s7 == WriteRepString(s6, m.Authentication, 42)
        s8 == FoldRight(LAMBDA e, acc :
                  WriteMessage(acc, VerificationMethodMarshalToSizedBuffer(Nested(acc), e), 34),
                  m.VerificationMethod, s7)
        s9 == WriteRepString(s8, m.Controller, 26)
        s10 == WriteOptString(s9, m.Id, 18)
    IN  WriteRepString(s10, m.Context, 10)

(* ------------------------------ Size ----------------------------------- *)

(* n += 1 + l + sovDid(uint64(l)) *)
FieldSize(l) == 1 + l + sovDid(l)

OptStringSize(s) == IF Len(s) > 0 THEN FieldSize(Len(s)) ELSE 0

RepStringSize(ss) == FoldLeft(LAMBDA n, s : n + FieldSize(Len(s)), 0, ss)

(* for _, e := range m.F { l = e.Size(); n += 1 + l + sovDid(l) }, given *)
(* the sizes of the elements.                                            *)
RepMessageSize(sizes) == FoldLeft(LAMBDA n, l : n + FieldSize(l), 0, sizes)

KeyValuePairSize(m) == OptStringSize(m.Key) + OptStringSize(m.Value)

ServiceSize(m) ==
    OptStringSize(m.Id) + OptStringSize(m.Type) + OptStringSize(m.ServiceEndpoint)

(* Mutant: Size() forgets the public_key_jwk entries. *)
VerificationMethodSizeNoJwk(m) ==
    OptStringSize(m.Id) + OptStringSize(m.Type) + OptStringSize(m.Controller)
      + OptStringSize(m.PublicKeyMultibase)

VerificationMethodSize(m) ==
    OptStringSize(m.Id) + OptStringSize(m.Type) + OptStringSize(m.Controller)
      + RepMessageSize([k \in DOMAIN m.PublicKeyJwk |-> KeyValuePairSize(m.PublicKeyJwk[k])])
      + OptStringSize(m.PublicKeyMultibase)

DidSize(m) ==
    RepStringSize(m.Context) + OptStringSize(m.Id) + RepStringSize(m.Controller)
      + RepMessageSize([k \in DOMAIN m.VerificationMethod |->
                        VerificationMethodSize(m.VerificationMethod[k])])
      + RepStringSize(m.Authentication) + RepStringSize(m.AssertionMethod)
      + RepStringSize(m.CapabilityInvocation) + RepStringSize(m.CapabilityDelegation)
      + RepStringSize(m.KeyAgreement)
      + RepMessageSize([k \in DOMAIN m.Service |-> ServiceSize(m.Service[k])])
      + RepStringSize(m.AlsoKnownAs)

(* Marshal: a buffer of Size() bytes, filled from its end, dAtA[:n]       *)
(* returned with n = len(dAtA) - i.                                       *)
DidMarshal(m) ==
    LET size == DidSize(m)
        r == DidMarshalToSizedBuffer(
               [buf |-> [k \in 1..size |-> 0], i |-> size, lim |-> size,
                panic |-> FALSE], m)
    IN  [panic |-> r.panic, bytes |-> IF r.panic THEN <<>> ELSE SubSeq(r.buf, 1, size - r.i)]

(* --------------------------- decoding ---------------------------------- *)

(* The varint loop every decoder inlines: wire |= uint64(b&0x7F) << shift, *)
(* starting at dAtA[i]; val is the value read, next the index after it.    *)
RECURSIVE VarintFrom(_, _, _, _)
VarintFrom(data, i, shift, acc) ==
    IF shift >= Width THEN Fail("ErrIntOverflowDid")
    ELSE IF i >= Len(data) THEN Fail("ErrUnexpectedEOF")
    ELSE LET b == data[i + 1]
             v == (acc + (b % 128) * 2^shift) % 2^Width
         IN  IF b < 128 THEN [err |-> "none", val |-> v, next |-> i + 1]
             ELSE VarintFrom(data, i + 1, shift + 7, v)

(* A length-delimited field after its tag at dAtA[i]: the length as a    *)
(* varint, then DelimitedField's checks and slice.                        *)
LengthDelimited(data, i) ==
    LET n == VarintFrom(data, i, 0, 0)
    IN  IF n.err # "none" THEN n ELSE DelimitedField(data, n)

(* skipDid's loop over one varint it only steps over. *)
RECURSIVE SkipVarint(_, _, _)
SkipVarint(data, i, shift) ==
    IF shift >= Width THEN Fail("ErrIntOverflowDid")
    ELSE IF i >= Len(data) THEN Fail("ErrUnexpectedEOF")
    ELSE IF data[i + 1] < 128 THEN [err |-> "none", next |-> i + 1]
    ELSE SkipVarint(data, i + 1, shift + 7)

(* skipDid from index i at group depth depth: the end of the field that  *)
(* starts there, as n (groups of wire types 3 and 4 nest).               *)
RECURSIVE skipDid(_, _, _)
skipDid(data, i, depth) ==
    LET t == VarintFrom(data, i, 0, 0)
        wireType == t.val % 8
        len == VarintFrom(data, t.next, 0, 0)
        step == CASE wireType = 0 -> SkipVarint(data, t.next, 0)
                  [] wireType = 1 -> [err |-> "none", next |-> t.next + 8]
                  [] wireType = 2 ->
                        IF len.err # "none" THEN len
                        ELSE IF Signed(len.val) < 0 THEN Fail("ErrInvalidLengthDid")
                        ELSE [err |-> "none", next |-> AddInt(len.next, Signed(len.val))]
                  [] wireType \in {3, 4} -> [err |-> "none", next |-> t.next]
                  [] wireType = 5 -> [err |-> "none", next |-> t.next + 4]
                  [] OTHER -> Fail("illegal wireType")
        d == CASE wireType = 3 -> depth + 1
               [] wireType = 4 -> depth - 1
               [] OTHER -> depth
    IN  IF i >= Len(data) THEN Fail("ErrUnexpectedEOF")
        ELSE IF t.err # "none" THEN t
        ELSE IF wireType = 4 /\ depth = 0 THEN Fail("ErrUnexpectedEndOfGroupDid")
        ELSE IF step.err # "none" THEN step
        ELSE IF step.next < 0 THEN Fail("ErrInvalidLengthDid")
        ELSE IF d = 0 THEN [err |-> "none", n |-> step.next]
        ELSE skipDid(data, step.next, d)

(* The switch of each Unmarshal: field number -> the field it fills and   *)
(* how ("str" sets a string, "strs" appends one, a message name appends   *)
(* a message decoded from the field's bytes).  Every field is of wire     *)
(* type 2; any other field number goes to skipDid.                        *)
DidCases ==
    <<[f |-> "Context", k |-> "strs"], [f |-> "Id", k |-> "str"],
      [f |-> "Controller", k |-> "strs"],
      [f |-> "VerificationMethod", k |-> "VerificationMethod"],
      [f |-> "Authentication", k |-> "strs"], [f |-> "AssertionMethod", k |-> "strs"],
      [f |-> "CapabilityInvocation", k |-> "strs"],
      [f |-> "CapabilityDelegation", k |-> "strs"],
      [f |-> "KeyAgreement", k |-> "strs"], [f |-> "Service", k |-> "Service"],
      [f |-> "AlsoKnownAs", k |-> "strs"]>>

VerificationMethodCases ==
    <<[f |-> "Id", k |-> "str"], [f |-> "Type", k |-> "str"],
      [f |-> "Controller", k |-> "str"], [f |-> "PublicKeyJwk", k |-> "KeyValuePair"],
      [f |-> "PublicKeyMultibase", k |-> "str"]>>

ServiceCases ==
    <<[f |-> "Id", k |-> "str"], [f |-> "Type", k |-> "str"],
      [f |-> "ServiceEndpoint", k |-> "str"]>>

KeyValuePairCases == <<[f |-> "Key", k |-> "str"], [f |-> "Value", k |-> "str"]>>

Cases(T) ==
    CASE T = "Did" -> DidCases
      [] T = "VerificationMethod" -> VerificationMethodCases
      [] T = "Service" -> ServiceCases
      [] T = "KeyValuePair" -> KeyValuePairCases

Empty(T) ==
    CASE T = "Did" -> EmptyDid
      [] T = "VerificationMethod" -> EmptyVerificationMethod
      [] T = "Service" -> EmptyService
      [] T = "KeyValuePair" -> EmptyKeyValuePair

(* The loop of T's Unmarshal from dAtA[i] with the message m decoded so   *)
(* far: read the tag, reject end-group and non-positive field numbers,    *)
(* fill a known field, skip an unknown one; stop at the end of the bytes. *)
RECURSIVE Unmarshal(_, _, _, _)
Unmarshal(T, data, i, m) ==
    LET t == VarintFrom(data, i, 0, 0)
        fieldNum == Int32(t.val \div 8)
        wireType == t.val % 8
        p == LengthDelimited(data, t.next)
        c == Cases(T)[fieldNum]
        sub == Unmarshal(c.k, p.val, 0, Empty(c.k))
        skippy == skipDid(SubSeq(data, i + 1, Len(data)), 0, 0)
    IN
    IF i >= Len(data) THEN
        IF i > Len(data) THEN Fail("ErrUnexpectedEOF") ELSE [err |-> "none", m |-> m]
    ELSE IF t.err # "none" THEN t
    ELSE IF wireType = 4 THEN Fail("end group for non-group")
    ELSE IF fieldNum <= 0 THEN Fail("illegal tag")
    ELSE IF fieldNum \in DOMAIN Cases(T) THEN
        IF wireType # 2 THEN Fail("wrong wireType")
        ELSE IF p.err # "none" THEN p
        ELSE CASE c.k = "str" ->
                    Unmarshal(T, data, p.next, [m EXCEPT ![c.f] = p.val])
               [] c.k = "strs" ->
                    Unmarshal(T, data, p.next, [m EXCEPT ![c.f] = Append(@, p.val)])
               [] OTHER ->
                    IF sub.err # "none" THEN sub
                    ELSE Unmarshal(T, data, p.next, [m EXCEPT ![c.f] = Append(@, sub.m)])
    ELSE IF skippy.err # "none" THEN skippy
    ELSE IF skippy.n < 0 \/ AddInt(i, skippy.n) < 0 THEN Fail("ErrInvalidLengthDid")
    ELSE IF i + skippy.n > Len(data) THEN Fail("ErrUnexpectedEOF")
    ELSE Unmarshal(T, data, i + skippy.n, m)

DidUnmarshal(data) == Unmarshal("Did", data, 0, EmptyDid)

(* ------------------- the reference wire format ------------------------- *)

(* The proto3 encoding of a document written forwards from the format,    *)
(* field by field in field-number order: a length-delimited field is its  *)
(* key (number * 8 + 2), its length and its bytes; an empty singular      *)
(* string is left out, every element of a repeated field is written.      *)
WireField(num, bs) == VarintBytes(num * 8 + 2) \o VarintBytes(Len(bs)) \o bs

WireOpt(num, s) == IF s = <<>> THEN <<>> ELSE WireField(num, s)

WireRep(num, ss) == FlattenSeq([k \in DOMAIN ss |-> WireField(num, ss[k])])

WireKeyValuePair(m) == WireOpt(1, m.Key) \o WireOpt(2, m.Value)

WireService(m) == WireOpt(1, m.Id) \o WireOpt(2, m.Type) \o WireOpt(3, m.ServiceEndpoint)

WireVerificationMethod(m) ==
    WireOpt(1, m.Id) \o WireOpt(2, m.Type) \o WireOpt(3, m.Controller)
      \o WireRep(4, [k \in DOMAIN m.PublicKeyJwk |-> WireKeyValuePair(m.PublicKeyJwk[k])])
      \o WireOpt(5, m.PublicKeyMultibase)

WireDid(m) ==
    WireRep(1, m.Context) \o WireOpt(2, m.Id) \o WireRep(3, m.Controller)
      \o WireRep(4, [k \in DOMAIN m.VerificationMethod |->
                       WireVerificationMethod(m.VerificationMethod[k])])
      \o WireRep(5, m.Authentication) \o WireRep(6, m.AssertionMethod)
      \o WireRep(7, m.CapabilityInvocation) \o WireRep(8, m.CapabilityDelegation)
      \o WireRep(9, m.KeyAgreement)
      \o WireRep(10, [k \in DOMAIN m.Service |-> WireService(m.Service[k])])
      \o WireRep(11, m.AlsoKnownAs)

(* ------------------------- the input space ----------------------------- *)

(* Every byte string up to MaxLen long is offered to the decoder. *)
Init == input = <<>>

Extend == Len(input) < MaxLen /\ \E b \in Bytes : input' = Append(input, b)

Spec == Init /\ [][Extend]_vars

(* ---------------------------- properties ------------------------------- *)

(* Did.Unmarshal never indexes or slices dAtA out of range, whatever the   *)
(* bytes: a length whose end iNdEx + length wraps around int is rejected   *)
(* by the postIndex < 0 check before dAtA[iNdEx:postIndex] is taken.       *)
DecodeNoPanic == DidUnmarshal(input).err # "panic"

(* A document Did.Unmarshal accepts is marshalled by Did.Marshal without   *)
(* a panic into exactly its proto3 encoding, and decodes back to itself:   *)
(* Size() and MarshalToSizedBuffer agree on every nested message, and the  *)
(* backwards writes land in field order.                                   *)
MarshalRoundTrip ==
    LET r == DidUnmarshal(input)
        out == DidMarshal(r.m)
    IN  r.err = "none" =>
           /\ ~out.panic
           /\ out.bytes = WireDid(r.m)
           /\ DidUnmarshal(out.bytes) = r

====
