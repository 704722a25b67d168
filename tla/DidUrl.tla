------------------------------- MODULE DidUrl -------------------------------
(***************************************************************************)
(* The DID URL splitter and validators of x/cheqd/utils/did_url.go.        *)
(*                                                                         *)
(* A URL is a sequence over a small alphabet: "d" stands for a character  *)
(* that may form a DID and is a hex digit, "x" for any other unreserved   *)
(* character, and "/", "?", "#", "%" are themselves.  TrySplitDIDUrl is   *)
(* modelled by what Go's regexp package does with SplitDIDURL under       *)
(* FindStringSubmatch: the match starts at the leftmost position from     *)
(* which the pattern can match, and there the greedy groups take the      *)
(* longest run they can.                                                  *)
(***************************************************************************)
EXTENDS Naturals, Sequences

CONSTANT MaxLen   \* the longest URL enumerated (a natural number)

Alphabet == {"d", "x", "/", "?", "#", "%"}
Hex == {"d"}

VARIABLE url   \* the URL handed to the validator

-----------------------------------------------------------------------------
(* Index of the first character of t in S, or Len(t) + 1.                 *)
FirstOf(t, S) ==
    CHOOSE i \in 1..Len(t) + 1 :
        /\ i = Len(t) + 1 \/ t[i] \in S
        /\ \A j \in 1..i - 1 : t[j] \notin S

After(t, i) == SubSeq(t, i + 1, Len(t))

(* Split a string at the first "/", "?", "#" (DID), then at the first "?"  *)
(* or "#" (path), then at the first "#" (query); the fragment is all that *)
(* follows that "#".                                                      *)
SplitAt(t) ==
    LET a == FirstOf(t, {"?", "#"})
        head == SubSeq(t, 1, a - 1)
        slash == FirstOf(head, {"/"})
        r == After(t, a - 1)
        h == FirstOf(r, {"#"})
    IN  [did      |-> SubSeq(head, 1, slash - 1),
         path     |-> After(head, slash - 1),
         query    |-> IF r # <<>> /\ r[1] = "?" THEN SubSeq(r, 2, h - 1) ELSE <<>>,
         fragment |-> After(r, h)]

(* The pattern matches a whole suffix t iff after its first "#" comes a   *)
(* non-empty run without "#" (the group #([^#]+$)), or t has no "#".      *)
SuffixMatches(t) ==
    LET h == FirstOf(t, {"#"})
    IN  h > Len(t) \/ (h < Len(t) /\ \A j \in h + 1..Len(t) : t[j] # "#")

(* TrySplitDIDUrl: the pattern is not anchored at the start, so the match *)
(* begins at the leftmost position whose suffix matches (the empty suffix *)
(* always does).                                                          *)
TrySplitDIDUrl(s) ==
    LET p == CHOOSE p \in 0..Len(s) :
                 /\ SuffixMatches(After(s, p))
                 /\ \A q \in 0..p - 1 : ~SuffixMatches(After(s, q))
    IN  SplitAt(After(s, p))

(* The segment regexps: a concatenation of allowed characters and         *)
(* percent-encoded octets.                                                *)
ValidSegment(t, allowed) ==
    \A i \in 1..Len(t) :
        \/ t[i] \in allowed
        \/ /\ t[i] = "%"
           /\ i + 2 <= Len(t)
           /\ t[i + 1] \in Hex /\ t[i + 2] \in Hex

ValidatePath(t) == ValidSegment(t, {"d", "x", "/"})
ValidateQuery(t) == ValidSegment(t, {"d", "x", "/", "?"})
ValidateFragment(t) == ValidSegment(t, {"d", "x", "/", "?"})

(* ValidateDID's method-and-namespace grammar is configuration: here a    *)
(* DID is a non-empty run of "d".                                         *)
ValidateDID(t) == t # <<>> /\ \A i \in 1..Len(t) : t[i] = "d"

(* ValidateDIDUrl on the pieces of a split.                               *)
ValidPieces(p) ==
    /\ ValidateDID(p.did)
    /\ ValidatePath(p.path)
    /\ ValidateQuery(p.query)
    /\ ValidateFragment(p.fragment)

IsValidDIDUrl(s) == ValidPieces(TrySplitDIDUrl(s))

-----------------------------------------------------------------------------
(* The URLs are enumerated by extending one character at a time.          *)
Init == url = <<>>

Extend(c) ==
    /\ Len(url) < MaxLen
    /\ url' = Append(url, c)

Next == \E c \in Alphabet : Extend(c)

Spec == Init /\ [][Next]_url

-----------------------------------------------------------------------------
(* Type invariant.                                                        *)
TypeOK == url \in Seq(Alphabet) /\ Len(url) <= MaxLen

(* Spec section 4.1: the identifier is the run from the start up to the   *)
(* first "/", "?" or "#", the fragment everything after the "#".  The     *)
(* code accepts a URL only when its pieces under that split are valid.    *)
AcceptsOnlySpecValid == IsValidDIDUrl(url) => ValidPieces(SplitAt(url))

=============================================================================
