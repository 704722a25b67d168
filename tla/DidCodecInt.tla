----------------------------- MODULE DidCodecInt -----------------------------
(***************************************************************************)
(* The int arithmetic of the generated decoder (x/cheqd/types/did.pb.go)   *)
(* and the bounds checks it makes before it slices out a length-delimited *)
(* field.  uint64 is arithmetic modulo 2^Width, int its two's complement  *)
(* reading.  A decoding result is a record whose err is "none" on success *)
(* and otherwise names the Go error, or "panic" for a slice out of range. *)
(***************************************************************************)
EXTENDS Integers, Sequences

CONSTANT Width      \* bits of uint64 and int (64 in the build)

ASSUME WidthAssumption == Width \in Nat /\ Width >= 8

(* 2^Width is twice 2^(Width - 1), a positive natural: a fact of          *)
(* arithmetic for every natural Width >= 1, stated because the provers    *)
(* know nothing of ^ with a variable exponent.                            *)
ASSUME PowerAssumption == 2^(Width - 1) \in Nat \ {0} /\ 2^Width = 2 * 2^(Width - 1)

(* int(x) of a uint64 x. *)
Signed(x) == IF x >= 2^(Width - 1) THEN x - 2^Width ELSE x

(* a + b on int: the sum wraps around. *)
AddInt(a, b) == Signed((a + b) % 2^Width)

Fail(e) == [err |-> e]

(* dAtA[from:to]: out of range it panics. *)
Slice(data, from, to) ==
    IF from < 0 \/ to < from \/ to > Len(data) THEN Fail("panic")
    ELSE [err |-> "none", val |-> SubSeq(data, from + 1, to), next |-> to]

(* Mutant: the postIndex < 0 check dropped, so a length that wraps the   *)
(* end index past the top of int reaches the slice.                      *)
DelimitedFieldNoWrapCheck(data, n) ==
    LET length == Signed(n.val)
        postIndex == AddInt(n.next, length)
    IN  IF length < 0 THEN Fail("ErrInvalidLengthDid")
        ELSE IF postIndex > Len(data) THEN Fail("ErrUnexpectedEOF")
        ELSE Slice(data, n.next, postIndex)

(* A length-delimited field once its length n.val has been read and the  *)
(* index stands at n.next: intStringLen := int(stringLen), postIndex :=   *)
(* iNdEx + intStringLen, the three checks, then dAtA[iNdEx:postIndex].    *)
DelimitedField(data, n) ==
    LET length == Signed(n.val)
        postIndex == AddInt(n.next, length)
    IN  IF length < 0 THEN Fail("ErrInvalidLengthDid")
        ELSE IF postIndex < 0 THEN Fail("ErrInvalidLengthDid")
        ELSE IF postIndex > Len(data) THEN Fail("ErrUnexpectedEOF")
        ELSE Slice(data, n.next, postIndex)

=============================================================================
