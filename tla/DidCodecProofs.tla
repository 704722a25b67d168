---------------------------- MODULE DidCodecProofs ----------------------------
(* Proofs about the bounds checks of the generated decoder, for every     *)
(* width of int.                                                          *)
EXTENDS DidCodecInt, TLAPS

(* The int range: 2^(Width - 1) is a positive natural and 2^Width twice it. *)
LEMMA IntRange ==
    /\ 2^(Width - 1) \in Nat \ {0}
    /\ 2^Width = 2 * 2^(Width - 1)
BY PowerAssumption

(* Below the top of int, int(x) reads a uint64 x as itself; at or above   *)
(* it, as a negative number.                                              *)
LEMMA SignedRange ==
    ASSUME NEW x \in 0..2^Width - 1
    PROVE  /\ Signed(x) \in Int
           /\ x < 2^(Width - 1) => Signed(x) = x
           /\ x >= 2^(Width - 1) => Signed(x) < 0
BY IntRange DEF Signed

(* A sum of two naturals that fits in uint64 is an int: below the top of  *)
(* int it is itself, from there on it wraps to a negative number.         *)
LEMMA AddIntRange ==
    ASSUME NEW a \in Nat, NEW b \in Nat, a + b < 2^Width
    PROVE  /\ a + b < 2^(Width - 1) => AddInt(a, b) = a + b
           /\ a + b >= 2^(Width - 1) => AddInt(a, b) < 0
<1>1. (a + b) % 2^Width = a + b
  BY IntRange
<1>2. a + b \in 0..2^Width - 1
  BY IntRange
<1>3. QED
  BY <1>1, <1>2, SignedRange DEF AddInt

(* did.pb.go:768-780, the numeric edge of every length-delimited field:   *)
(* whatever length a sender encodes, the checks on intStringLen and       *)
(* postIndex never let dAtA[iNdEx:postIndex] go out of range, and a       *)
(* field they accept is the slice of the bytes from the index to its end. *)
(* The input is a Go slice, so its length is an int; the length was read  *)
(* as a uint64 varint and the index stands inside the input.              *)
THEOREM DelimitedFieldSafe ==
    ASSUME NEW S, NEW data \in Seq(S), Len(data) < 2^(Width - 1),
           NEW n, n.val \in 0..2^Width - 1, n.next \in 0..Len(data)
    PROVE  LET r == DelimitedField(data, n)
           IN  /\ r.err # "panic"
               /\ r.err = "none" =>
                      /\ r.next \in n.next..Len(data)
                      /\ r.val = SubSeq(data, n.next + 1, r.next)
<1> DEFINE len == Signed(n.val)
           post == AddInt(n.next, len)
           r == DelimitedField(data, n)
<1> SUFFICES /\ r.err # "panic"
             /\ r.err = "none" =>
                    /\ r.next \in n.next..Len(data)
                    /\ r.val = SubSeq(data, n.next + 1, r.next)
  OBVIOUS
<1>1. CASE len < 0
  BY <1>1 DEF DelimitedField, Fail
<1>2. CASE len >= 0
  <2>1. len = n.val /\ n.val < 2^(Width - 1)
    <3>1. n.val >= 2^(Width - 1) => len < 0
      BY SignedRange
    <3>2. n.val < 2^(Width - 1) => len = n.val
      BY SignedRange
    <3>3. n.val \in Int /\ 2^(Width - 1) \in Int /\ len \in Int
      BY IntRange, SignedRange
    <3>4. QED
      BY <1>2, <3>1, <3>2, <3>3
  <2>2. n.next + len < 2^Width
    BY <2>1, IntRange
  <2>3. CASE n.next + len >= 2^(Width - 1)
    <3>1. post < 0
      BY <2>1, <2>2, <2>3, AddIntRange
    <3>2. QED
      BY <1>2, <3>1 DEF DelimitedField, Fail
  <2>4. CASE n.next + len < 2^(Width - 1)
    <3>1. post = n.next + len
      BY <2>1, <2>2, <2>4, AddIntRange
    <3>2. CASE post > Len(data)
      BY <1>2, <3>1, <3>2, <2>1 DEF DelimitedField, Fail
    <3>3. CASE post <= Len(data)
      <4>1. r = Slice(data, n.next, post)
        BY <1>2, <3>1, <3>3, <2>1 DEF DelimitedField
      <4>2. n.next \in Int /\ post \in Int /\ 0 <= n.next /\ n.next <= post /\ post <= Len(data)
        BY <1>2, <2>1, <3>1, <3>3
      <4>3. ~(n.next < 0 \/ post < n.next \/ post > Len(data))
        BY <4>2
      <4> DEFINE sub == SubSeq(data, n.next + 1, post)
      <4>4. r = [err |-> "none", val |-> sub, next |-> post]
        BY <4>1, <4>3, Zenon DEF Slice
      <4> HIDE DEF sub
      <4>5. r.err = "none" /\ r.next = post /\ r.val = sub
        BY <4>4
      <4>6. QED
        BY <4>2, <4>5 DEF sub
    <3>4. QED
      BY <3>1, <3>2, <3>3, <2>1
  <2>5. QED
    BY <2>3, <2>4, <2>1, IntRange
<1>3. QED
  BY <1>1, <1>2, IntRange DEF Signed
(* did.pb.go:773-775, why the postIndex < 0 check is there: a length      *)
(* below the top of int whose sum with the index reaches it wraps         *)
(* postIndex to a negative int.  The decoder then returns                 *)
(* ErrInvalidLengthDid, where dAtA[iNdEx:postIndex] with that postIndex   *)
(* would panic.                                                           *)
THEOREM WrappedLengthRejected ==
    ASSUME NEW S, NEW data \in Seq(S), Len(data) < 2^(Width - 1),
           NEW n, n.val \in 0..2^(Width - 1) - 1, n.next \in 0..Len(data),
           n.next + n.val >= 2^(Width - 1)
    PROVE  /\ DelimitedField(data, n).err = "ErrInvalidLengthDid"
           /\ Slice(data, n.next, AddInt(n.next, Signed(n.val))).err = "panic"
<1> DEFINE len == Signed(n.val)
           post == AddInt(n.next, len)
<1>1. len = n.val /\ len \in Int
  BY IntRange, SignedRange
<1>2. n.next + len < 2^Width
  BY <1>1, IntRange
<1>3. post < 0 /\ post \in Int
  <2>1. post < 0
    BY <1>1, <1>2, AddIntRange
  <2>2. post \in Int
    BY <1>1, IntRange DEF AddInt, Signed
  <2>3. QED
    BY <2>1, <2>2
<1>4. ~(len < 0)
  BY <1>1
<1>5. DelimitedField(data, n) = Fail("ErrInvalidLengthDid")
  BY <1>3, <1>4, Zenon DEF DelimitedField
<1>6. post < n.next
  BY <1>3
<1>7. Slice(data, n.next, post) = Fail("panic")
  BY <1>6, Zenon DEF Slice
<1>8. QED
  BY <1>5, <1>7 DEF Fail
=============================================================================
