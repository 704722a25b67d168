---------------------------- MODULE DidUrlProofs ----------------------------
(* Proofs about the DID URL splitter, for URLs of every length.           *)
EXTENDS DidUrl, TLAPS

(* s holds at most one "#".                                               *)
AtMostOneHash(s) == \A i, j \in 1..Len(s) : s[i] = "#" /\ s[j] = "#" => i = j

(* FirstOf finds the only occurrence of S in t.                           *)
LEMMA FirstOfOnly ==
    ASSUME NEW t \in Seq(Alphabet), NEW S, NEW h \in 1..Len(t), t[h] \in S,
           \A j \in 1..Len(t) : t[j] \in S => j = h
    PROVE  FirstOf(t, S) = h
<1>1. /\ h = Len(t) + 1 \/ t[h] \in S
      /\ \A j \in 1..h - 1 : t[j] \notin S
  OBVIOUS
<1>2. \A i \in 1..Len(t) + 1 :
          (/\ i = Len(t) + 1 \/ t[i] \in S
           /\ \A j \in 1..i - 1 : t[j] \notin S) => i = h
  OBVIOUS
<1>3. QED
  BY <1>1, <1>2 DEF FirstOf

(* FirstOf is one past the end when S does not occur in t.               *)
LEMMA FirstOfNone ==
    ASSUME NEW t \in Seq(Alphabet), NEW S, \A j \in 1..Len(t) : t[j] \notin S
    PROVE  FirstOf(t, S) = Len(t) + 1
<1>1. \A i \in 1..Len(t) + 1 :
          (/\ i = Len(t) + 1 \/ t[i] \in S
           /\ \A j \in 1..i - 1 : t[j] \notin S) <=> i = Len(t) + 1
  OBVIOUS
<1>2. QED
  BY <1>1 DEF FirstOf

(* When the whole URL matches SplitDIDURL the leftmost match starts at    *)
(* its first character, and the code splits it as the spec does.          *)
LEMMA SplitAtStart ==
    ASSUME NEW s \in Seq(Alphabet), SuffixMatches(s)
    PROVE  TrySplitDIDUrl(s) = SplitAt(s)
<1>1. After(s, 0) = s
  BY DEF After
<1>2. \A p \in 0..Len(s) :
          (/\ SuffixMatches(After(s, p))
           /\ \A q \in 0..p - 1 : ~SuffixMatches(After(s, q))) <=> p = 0
  BY <1>1
<1>3. QED
  BY <1>1, <1>2 DEF TrySplitDIDUrl

(* A URL whose only "#" is its last character matches SplitDIDURL only   *)
(* in its empty suffix, whose split has an empty DID.                     *)
LEMMA TrailingHashRejected ==
    ASSUME NEW s \in Seq(Alphabet), Len(s) > 0, s[Len(s)] = "#", AtMostOneHash(s)
    PROVE  ~IsValidDIDUrl(s)
<1>1. ASSUME NEW q \in 0..Len(s) - 1 PROVE ~SuffixMatches(After(s, q))
  <2> DEFINE t == After(s, q)
  <2>1. t \in Seq(Alphabet) /\ Len(t) = Len(s) - q /\ \A j \in 1..Len(t) : t[j] = s[q + j]
    BY DEF After
  <2>2. FirstOf(t, {"#"}) = Len(t)
    <3>1. t[Len(t)] \in {"#"} /\ Len(t) \in 1..Len(t)
      BY <2>1
    <3>2. ASSUME NEW j \in 1..Len(t), t[j] \in {"#"} PROVE j = Len(t)
      <4>1. q + j \in 1..Len(s) /\ s[q + j] = "#" /\ Len(s) \in 1..Len(s)
        BY <2>1, <3>2
      <4>2. q + j = Len(s)
        BY <4>1 DEF AtMostOneHash
      <4>3. QED
        BY <4>2, <2>1
    <3>3. QED
      BY <2>1, <3>1, <3>2, FirstOfOnly
  <2>3. QED
    BY <2>2 DEF SuffixMatches
<1>2. After(s, Len(s)) = <<>>
  BY DEF After
<1>3. SuffixMatches(<<>>)
  BY DEF SuffixMatches, FirstOf
<1>4. TrySplitDIDUrl(s) = SplitAt(<<>>)
  <2>1. \A p \in 0..Len(s) :
            (/\ SuffixMatches(After(s, p))
             /\ \A q \in 0..p - 1 : ~SuffixMatches(After(s, q))) <=> p = Len(s)
    BY <1>1, <1>2, <1>3
  <2>2. QED
    BY <1>2, <2>1 DEF TrySplitDIDUrl
<1>5. SplitAt(<<>>).did = <<>>
  BY DEF SplitAt, FirstOf, After
<1>6. QED
  BY <1>4, <1>5 DEF IsValidDIDUrl, ValidPieces, ValidateDID

(* A URL with at most one "#", and that "#" not its last character,       *)
(* matches SplitDIDURL as a whole.                                        *)
LEMMA InnerHashMatches ==
    ASSUME NEW s \in Seq(Alphabet), AtMostOneHash(s), Len(s) > 0 => s[Len(s)] # "#"
    PROVE  SuffixMatches(s)
<1>1. CASE \A j \in 1..Len(s) : s[j] \notin {"#"}
  BY <1>1, FirstOfNone DEF SuffixMatches
<1>2. CASE \E h \in 1..Len(s) : s[h] = "#"
  <2>1. PICK h \in 1..Len(s) : s[h] = "#"
    BY <1>2
  <2>2. \A j \in 1..Len(s) : s[j] \in {"#"} => j = h
    BY <2>1 DEF AtMostOneHash
  <2>3. FirstOf(s, {"#"}) = h
    BY <2>1, <2>2, FirstOfOnly
  <2>4. h < Len(s)
    BY <2>1
  <2>5. QED
    BY <2>2, <2>3, <2>4 DEF SuffixMatches
<1>3. QED
  BY <1>1, <1>2

(* Spec section 4.1 against ValidateDIDUrl: on a URL with at most one "#" *)
(* that is not its last character, the code accepts exactly the URLs     *)
(* whose pieces under the spec's split are valid.  With a single trailing *)
(* "#" the code rejects (the fragment group #([^#]+$) needs a character). *)
THEOREM InnerHashAgrees ==
    \A s \in Seq(Alphabet) :
        AtMostOneHash(s) /\ (Len(s) > 0 => s[Len(s)] # "#")
            => (IsValidDIDUrl(s) <=> ValidPieces(SplitAt(s)))
BY InnerHashMatches, SplitAtStart DEF IsValidDIDUrl

(* Spec section 4.1 against TrySplitDIDUrl: on a URL with at most one     *)
(* "#", ValidateDIDUrl accepts only what is valid under the spec's split  *)
(* (identifier up to the first "/", "?" or "#", fragment after the "#"). *)
(* The unanchored SplitDIDURL goes wrong only on URLs with several "#".   *)
THEOREM OneHashAcceptsSpecValid ==
    \A s \in Seq(Alphabet) :
        AtMostOneHash(s) /\ IsValidDIDUrl(s) => ValidPieces(SplitAt(s))
<1> SUFFICES ASSUME NEW s \in Seq(Alphabet), AtMostOneHash(s), IsValidDIDUrl(s)
             PROVE  ValidPieces(SplitAt(s))
  OBVIOUS
<1>1. CASE Len(s) > 0 /\ s[Len(s)] = "#"
  BY <1>1, TrailingHashRejected
<1>2. CASE ~(Len(s) > 0 /\ s[Len(s)] = "#")
  BY <1>2, InnerHashAgrees
<1>3. QED
  BY <1>1, <1>2
=============================================================================
