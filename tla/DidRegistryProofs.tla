------------------------- MODULE DidRegistryProofs -------------------------
(* Proofs about the DID registry, for every value of the constants.       *)
EXTENDS DidRegistry, TLAPS

(* A successful update names a stored document, passed the verifier and   *)
(* asserted the stored versionId.                                         *)
LEMMA UpdateOk ==
    ASSUME NEW id, NEW doc, NEW v, NEW b,
           UpdateDidResult(id, doc, v, b) = "Ok"
    PROVE  /\ store[id] # NoDoc
           /\ VerifySignature(store, UpdateDidSigners(store[id].did, id, doc), b) = "Ok"
           /\ store[id].metadata.versionId = v
BY DEF UpdateDidResult

(* A successful create passed the verifier on the message's own signers.  *)
LEMMA CreateOk ==
    ASSUME NEW id, NEW doc, NEW b,
           CreateDidResult(id, doc, b) = "Ok"
    PROVE  /\ store[id] = NoDoc
           /\ VerifySignature(store, GetSigners(id, doc), b) = "Ok"
BY DEF CreateDidResult

(* One step keeps the types.                                              *)
LEMMA TypeStep == TypeOK /\ [Next]_vars => TypeOK'
<1> USE ConstantsAssumption
<1> SUFFICES ASSUME TypeOK, [Next]_vars PROVE TypeOK'
OBVIOUS
<1>1. ASSUME NEW id \in Ids, NEW doc \in Doc, NEW b \in SUBSET Entry,
             CreateDid(id, doc, b)
      PROVE  TypeOK'
  BY <1>1 DEF CreateDid, TypeOK, StateValue, Meta
<1>2. ASSUME NEW id \in Ids, NEW doc \in Doc, NEW v \in Versions,
             NEW b \in SUBSET Entry, UpdateDid(id, doc, v, b)
      PROVE  TypeOK'
  <2>1. store[id] \in StateValue
    BY <1>2, UpdateOk DEF UpdateDid, TypeOK
  <2>2. writes + 1 \in 1..MaxWrites
    BY <1>2 DEF UpdateDid, TypeOK
  <2> DEFINE m == store[id].metadata
             m2 == [m EXCEPT !.updated = writes + 1, !.versionId = writes + 1]
  <2>3. m2 \in Meta
    BY <2>1, <2>2 DEF StateValue, Meta
  <2>4. [did |-> doc, metadata |-> m2] \in StateValue
    BY <2>3 DEF StateValue
  <2>5. store' \in [Ids -> StateValue \cup {NoDoc}]
    BY <1>2, <2>4 DEF UpdateDid, TypeOK
  <2>6. m.versionId \in 1..MaxWrites
    BY <2>1 DEF StateValue, Meta
  <2>7. QED
    BY <1>2, <2>2, <2>5, <2>6 DEF UpdateDid, TypeOK
<1>3. ASSUME NEW id \in Ids, DeactivateDid(id)
      PROVE  TypeOK'
  BY <1>3 DEF DeactivateDid, TypeOK, StateValue, Meta
<1>4. CASE UNCHANGED vars
  BY <1>4 DEF vars, TypeOK
<1>5. QED
  BY <1>1, <1>2, <1>3, <1>4 DEF Next

(* Every step keeps the types.                                            *)
THEOREM TypeCorrect == Spec => []TypeOK
<1>1. Init => TypeOK
  BY ConstantsAssumption DEF Init, TypeOK
<1>2. QED
  BY <1>1, TypeStep, PTL DEF Spec

(* The verifier accepts only when every signer is satisfied.              *)
LEMMA VerifyOk ==
    ASSUME NEW st, NEW sg, NEW b, VerifySignature(st, sg, b) = "Ok"
    PROVE  \A s \in DOMAIN sg : SignerResult(st, sg, s, b) = "Ok"
<1> SUFFICES ASSUME NEW s \in DOMAIN sg, SignerResult(st, sg, s, b) # "Ok"
             PROVE  FALSE
  OBVIOUS
<1>1. SignerResult(st, sg, CHOOSE t \in DOMAIN sg : SignerResult(st, sg, t, b) # "Ok", b)
        # "Ok"
  OBVIOUS
<1>2. QED
  BY <1>1 DEF VerifySignature

(* A satisfied signer read from the store is a stored document; one that  *)
(* carries its own keys has an authentication method among them.          *)
LEMMA SignerOk ==
    ASSUME NEW st, NEW sg, NEW s, NEW b, SignerResult(st, sg, s, b) = "Ok"
    PROVE  /\ sg[s] = FromStore => st[s] # NoDoc
           /\ sg[s] # FromStore => HasAuthKey(sg[s])
<1>1. sg[s] = FromStore => st[s] # NoDoc
  BY DEF SignerResult
<1>2. ASSUME sg[s] # FromStore PROVE HasAuthKey(sg[s])
  <2> DEFINE rel == {e \in b : e.vm[1] = s}
  <2>1. rel # {}
    BY DEF SignerResult
  <2>2. \A e \in rel : Authorized(KeysOf(st, sg, s), e.vm[2])
    BY DEF SignerResult
  <2>3. KeysOf(st, sg, s) = sg[s]
    BY <1>2 DEF KeysOf
  <2>4. QED
    BY <2>1, <2>2, <2>3 DEF Authorized, HasAuthKey
<1>3. QED
  BY <1>1, <1>2

(* The update's signer set keeps the message's own signers unchanged.     *)
LEMMA UpdateSignersBase ==
    ASSUME NEW old, NEW id, NEW new, NEW c \in ExpandController(new, id)
    PROVE  /\ c \in DOMAIN UpdateDidSigners(old, id, new)
           /\ UpdateDidSigners(old, id, new)[c] = IF c = id THEN new ELSE FromStore
BY DEF UpdateDidSigners, AppendSignerIfNeed, GetSigners

(* Every controller a successful write names is resolvable in the store   *)
(* it is checked against: an external one is stored, the document itself *)
(* declares an authentication key.                                        *)
LEMMA WriteResolvable ==
    ASSUME NEW id, NEW doc \in Doc, NEW sg, NEW b,
           VerifySignature(store, sg, b) = "Ok",
           \A c \in ExpandController(doc, id) :
               c \in DOMAIN sg /\ sg[c] = IF c = id THEN doc ELSE FromStore
    PROVE  \A c \in ExpandController(doc, id) :
               IF c = id THEN HasAuthKey(doc) ELSE store[c] # NoDoc
<1> SUFFICES ASSUME NEW c \in ExpandController(doc, id)
             PROVE  IF c = id THEN HasAuthKey(doc) ELSE store[c] # NoDoc
  OBVIOUS
<1>1. SignerResult(store, sg, c, b) = "Ok"
  BY VerifyOk
<1>2. CASE c = id
  <2>1. sg[c] = doc /\ doc # FromStore
    BY <1>2, MarkersAssumption
  <2>2. QED
    BY <1>1, <1>2, <2>1, SignerOk
<1>3. CASE c # id
  BY <1>1, <1>3, SignerOk
<1>4. QED
  BY <1>2, <1>3

(* A write of doc under id whose controllers are resolvable against the  *)
(* store before it keeps every stored document's controllers resolvable.  *)
LEMMA WriteKeeps ==
    ASSUME TypeOK, ControllersResolvable,
           NEW id \in Ids, NEW doc \in Doc, NEW r \in StateValue, r.did = doc,
           store' = [store EXCEPT ![id] = r],
           \A c \in ExpandController(doc, id) :
               IF c = id THEN HasAuthKey(doc) ELSE store[c] # NoDoc
    PROVE  ControllersResolvable'
<1> USE MarkersAssumption
<1>1. \A x \in Ids : store[x] # NoDoc => store'[x] # NoDoc
  BY DEF TypeOK
<1> SUFFICES ASSUME NEW d \in Ids, store'[d] # NoDoc,
                    NEW c \in ExpandController(store'[d].did, d)
             PROVE  IF c = d THEN HasAuthKey(store'[d].did) ELSE store'[c] # NoDoc
  BY DEF ControllersResolvable, Existing
<1>2. CASE d = id
  <2>1. store'[d].did = doc
    BY <1>2 DEF TypeOK
  <2>2. c \in Ids
    BY <1>2, <2>1 DEF ExpandController, Doc
  <2>3. QED
    BY <1>1, <1>2, <2>1, <2>2
<1>3. CASE d # id
  <2>1. store'[d] = store[d]
    BY <1>3 DEF TypeOK
  <2>2. c \in Ids
    BY <2>1 DEF ExpandController, TypeOK, StateValue, Doc
  <2>3. IF c = d THEN HasAuthKey(store[d].did) ELSE store[c] # NoDoc
    BY <2>1 DEF ControllersResolvable, Existing
  <2>4. QED
    BY <1>1, <2>1, <2>2, <2>3
<1>4. QED
  BY <1>2, <1>3

(* The inductive invariant: types and resolvable controllers.            *)
IInv == TypeOK /\ ControllersResolvable

(* Every stored document's controllers stay resolvable: no handler stores *)
(* a document naming an absent controller or a self-controlled document   *)
(* without an authentication key, and none ever removes a document.       *)
THEOREM ControllersResolvableInvariant == Spec => []ControllersResolvable
<1>1. Init => IInv
  BY ConstantsAssumption DEF Init, IInv, TypeOK, ControllersResolvable, Existing
<1>2. IInv /\ [Next]_vars => IInv'
  <2> SUFFICES ASSUME IInv, [Next]_vars PROVE IInv'
    OBVIOUS
  <2>0. TypeOK /\ ControllersResolvable /\ TypeOK'
    BY TypeStep DEF IInv
  <2>1. ASSUME NEW id \in Ids, NEW doc \in Doc, NEW b \in SUBSET Entry,
               CreateDid(id, doc, b)
        PROVE  ControllersResolvable'
    <3>1. VerifySignature(store, GetSigners(id, doc), b) = "Ok"
      BY <2>1, CreateOk DEF CreateDid
    <3>2. \A c \in ExpandController(doc, id) :
              c \in DOMAIN GetSigners(id, doc)
              /\ GetSigners(id, doc)[c] = IF c = id THEN doc ELSE FromStore
      BY DEF GetSigners
    <3>5. \A c \in ExpandController(doc, id) :
              IF c = id THEN HasAuthKey(doc) ELSE store[c] # NoDoc
      BY <3>1, <3>2, WriteResolvable
    <3> DEFINE r == [did |-> doc,
                     metadata |-> [created |-> writes + 1, updated |-> writes + 1,
                                   versionId |-> writes + 1, deactivated |-> FALSE]]
    <3>6. writes + 1 \in 1..MaxWrites
      BY <2>0, <2>1, ConstantsAssumption DEF CreateDid, TypeOK
    <3>3. r \in StateValue /\ r.did = doc
      BY <3>6 DEF StateValue, Meta
    <3>7. store' = [store EXCEPT ![id] = r]
      BY <2>1 DEF CreateDid
    <3>4. QED
      BY <2>0, <3>5, <3>3, <3>7, WriteKeeps
  <2>2. ASSUME NEW id \in Ids, NEW doc \in Doc, NEW v \in Versions,
               NEW b \in SUBSET Entry, UpdateDid(id, doc, v, b)
        PROVE  ControllersResolvable'
    <3>1. VerifySignature(store, UpdateDidSigners(store[id].did, id, doc), b) = "Ok"
      BY <2>2, UpdateOk DEF UpdateDid
    <3> DEFINE sg == UpdateDidSigners(store[id].did, id, doc)
    <3>2. \A c \in ExpandController(doc, id) :
              c \in DOMAIN sg /\ sg[c] = IF c = id THEN doc ELSE FromStore
      BY UpdateSignersBase
    <3>5. \A c \in ExpandController(doc, id) :
              IF c = id THEN HasAuthKey(doc) ELSE store[c] # NoDoc
      BY <3>1, <3>2, WriteResolvable
    <3> DEFINE m2 == [store[id].metadata EXCEPT
                        !.updated = writes + 1, !.versionId = writes + 1]
               r == [did |-> doc, metadata |-> m2]
    <3>6. store[id] \in StateValue /\ writes + 1 \in 1..MaxWrites
      BY <2>0, <2>2, UpdateOk, ConstantsAssumption DEF UpdateDid, TypeOK
    <3>8. m2 \in Meta
      BY <3>6 DEF StateValue, Meta
    <3>3. r \in StateValue /\ r.did = doc
      BY <3>8 DEF StateValue
    <3>7. store' = [store EXCEPT ![id] = r]
      BY <2>2 DEF UpdateDid
    <3>4. QED
      BY <2>0, <3>5, <3>3, <3>7, WriteKeeps
  <2>3. ASSUME NEW id \in Ids, DeactivateDid(id)
        PROVE  ControllersResolvable'
    <3>1. store[id] \in StateValue
      BY <2>0, <2>3 DEF DeactivateDid, TypeOK
    <3> DEFINE r == [store[id] EXCEPT !.metadata.deactivated = TRUE]
    <3>2. store' = [store EXCEPT ![id] = r]
      BY <2>3 DEF DeactivateDid
    <3>3. r \in StateValue /\ r.did = store[id].did
      BY <3>1 DEF StateValue, Meta
    <3>4. ASSUME NEW d \in Ids
          PROVE  /\ (store'[d] # NoDoc <=> store[d] # NoDoc)
                 /\ (store[d] # NoDoc => store'[d].did = store[d].did)
      <4>1. CASE d = id
        <5>1. store'[d] = r
          BY <2>0, <4>1, <3>2 DEF TypeOK
        <5>2. QED
          BY <4>1, <5>1, <3>1, <3>3, MarkersAssumption
      <4>2. CASE d # id
        BY <4>2, <3>2
      <4>3. QED
        BY <4>1, <4>2
    <3>5. SUFFICES ASSUME NEW d \in Ids, store'[d] # NoDoc,
                          NEW c \in ExpandController(store'[d].did, d)
                   PROVE  IF c = d THEN HasAuthKey(store'[d].did) ELSE store'[c] # NoDoc
      BY DEF ControllersResolvable, Existing
    <3>6. store[d] # NoDoc /\ store'[d].did = store[d].did
      BY <3>4, <3>5
    <3>7. c \in Ids
      BY <2>0, <3>6 DEF ExpandController, TypeOK, StateValue, Doc
    <3>8. IF c = d THEN HasAuthKey(store[d].did) ELSE store[c] # NoDoc
      BY <2>0, <3>6 DEF ControllersResolvable, Existing
    <3>9. QED
      BY <3>4, <3>6, <3>7, <3>8
  <2>4. CASE UNCHANGED vars
    <3>1. store' = store
      BY <2>4 DEF vars
    <3>2. ControllersResolvable'
      BY <2>0, <3>1 DEF ControllersResolvable, Existing
    <3>3. QED
      BY <2>0, <3>2 DEF IInv
  <2>5. QED
    BY <2>0, <2>1, <2>2, <2>3, <2>4 DEF Next, IInv
<1>3. QED
  BY <1>1, <1>2, PTL DEF Spec, IInv

-----------------------------------------------------------------------------
(* Replay protection.  Every stored versionId is at most the number of    *)
(* writes so far, and every superseded pair names a stored document whose *)
(* current versionId is larger than the superseded one.                   *)
VersionsFresh ==
    /\ \A d \in Existing : store[d].metadata.versionId <= writes
    /\ \A p \in superseded :
           store[p[1]] # NoDoc /\ p[2] < store[p[1]].metadata.versionId

RInv == TypeOK /\ VersionsFresh

(* A create writes a fresh versionId under an id no pair of superseded    *)
(* names.                                                                 *)
LEMMA CreateFresh ==
    ASSUME TypeOK, VersionsFresh,
           NEW id \in Ids, NEW doc \in Doc, NEW b \in SUBSET Entry, CreateDid(id, doc, b)
    PROVE  VersionsFresh'
<1> USE ConstantsAssumption
<1> DEFINE r == [did |-> doc,
                 metadata |-> [created |-> writes + 1, updated |-> writes + 1,
                               versionId |-> writes + 1, deactivated |-> FALSE]]
<1>1. store' = [store EXCEPT ![id] = r] /\ writes' = writes + 1 /\ superseded' = superseded
  BY DEF CreateDid
<1>2. store[id] = NoDoc
  BY CreateOk DEF CreateDid
<1>3. writes \in Nat
  BY DEF TypeOK
<1>4. r # NoDoc
  <2>1. writes + 1 \in 1..MaxWrites
    BY <1>3 DEF CreateDid, TypeOK
  <2>2. r \in StateValue
    BY <2>1 DEF StateValue, Meta
  <2>3. QED
    BY <2>2, MarkersAssumption
<1>5. ASSUME NEW d \in Ids, store'[d] # NoDoc
      PROVE  store'[d].metadata.versionId <= writes'
  <2>1. CASE d = id
    BY <1>1, <1>3, <2>1 DEF TypeOK
  <2>2. CASE d # id
    <3>1. store'[d] = store[d] /\ store[d] # NoDoc
      BY <1>1, <1>5, <2>2 DEF TypeOK
    <3>2. store[d].metadata.versionId \in Nat
      BY <3>1, MarkersAssumption DEF TypeOK, StateValue, Meta
    <3>3. QED
      BY <1>1, <1>3, <3>1, <3>2 DEF VersionsFresh, Existing
  <2>3. QED
    BY <2>1, <2>2
<1>6. ASSUME NEW p \in superseded'
      PROVE  store'[p[1]] # NoDoc /\ p[2] < store'[p[1]].metadata.versionId
  <2>1. p \in superseded /\ store[p[1]] # NoDoc /\ p[2] < store[p[1]].metadata.versionId
    BY <1>1, <1>6 DEF VersionsFresh
  <2>2. p[1] # id /\ p[1] \in Ids
    BY <1>2, <2>1 DEF TypeOK
  <2>3. store'[p[1]] = store[p[1]]
    BY <1>1, <2>2 DEF TypeOK
  <2>4. QED
    BY <2>1, <2>3
<1>7. QED
  BY <1>5, <1>6 DEF VersionsFresh, Existing

(* An update stores writes + 1 as versionId and supersedes the old one,   *)
(* which is at most writes.                                               *)
LEMMA UpdateFresh ==
    ASSUME TypeOK, VersionsFresh,
           NEW id \in Ids, NEW doc \in Doc, NEW v \in Versions, NEW b \in SUBSET Entry,
           UpdateDid(id, doc, v, b)
    PROVE  VersionsFresh'
<1> USE ConstantsAssumption
<1> DEFINE old == store[id].metadata.versionId
<1>1. store[id] \in StateValue /\ store[id] # NoDoc
  BY UpdateOk, MarkersAssumption DEF UpdateDid, TypeOK
<1>2. writes \in Nat /\ writes + 1 \in 1..MaxWrites
  BY DEF UpdateDid, TypeOK
<1>3. old \in Nat /\ old <= writes
  BY <1>1 DEF VersionsFresh, Existing, StateValue, Meta
<1>4. PICK r \in StateValue :
        /\ store' = [store EXCEPT ![id] = r]
        /\ r.metadata.versionId = writes + 1
        /\ writes' = writes + 1
        /\ superseded' = superseded \cup {<<id, old>>}
  <2> DEFINE m2 == [store[id].metadata EXCEPT !.updated = writes + 1, !.versionId = writes + 1]
             r0 == [did |-> doc, metadata |-> m2]
  <2>0. store[id].metadata \in Meta
    BY <1>1 DEF StateValue
  <2>1. m2 \in Meta
    BY <2>0, <1>2 DEF Meta
  <2>2. m2.versionId = writes + 1
    BY <1>1, Zenon DEF StateValue, Meta
  <2>5. r0 \in StateValue /\ r0.metadata.versionId = writes + 1
    BY <2>1, <2>2, Zenon DEF StateValue
  <2>3. /\ store' = [store EXCEPT ![id] = r0]
        /\ writes' = writes + 1
        /\ superseded' = superseded \cup {<<id, old>>}
    BY DEF UpdateDid
  <2>4. QED
    BY <2>5, <2>3, Zenon
<1>5. r # NoDoc
  BY MarkersAssumption
<1>6. store'[id] = r /\ \A d \in Ids : d # id => store'[d] = store[d]
  BY <1>4 DEF TypeOK
<1>7. ASSUME NEW d \in Ids, store'[d] # NoDoc
      PROVE  store'[d].metadata.versionId <= writes'
  <2>1. CASE d = id
    BY <1>2, <1>4, <1>6, <2>1
  <2>2. CASE d # id
    <3>1. store[d] # NoDoc /\ store[d] \in StateValue
      BY <1>6, <1>7, <2>2 DEF TypeOK
    <3>2. store[d].metadata.versionId \in Nat /\ store[d].metadata.versionId <= writes
      BY <3>1 DEF VersionsFresh, Existing, StateValue, Meta
    <3>3. QED
      BY <1>2, <1>4, <1>6, <2>2, <3>2
  <2>3. QED
    BY <2>1, <2>2
<1>8. ASSUME NEW p \in superseded'
      PROVE  store'[p[1]] # NoDoc /\ p[2] < store'[p[1]].metadata.versionId
  <2>1. CASE p = <<id, old>>
    BY <1>2, <1>3, <1>4, <1>5, <1>6, <2>1
  <2>2. CASE p \in superseded
    <3>1. store[p[1]] # NoDoc /\ p[2] < store[p[1]].metadata.versionId
          /\ p[1] \in Ids /\ p[2] \in Nat
      BY <2>2 DEF VersionsFresh, TypeOK
    <3>2. CASE p[1] = id
      BY <1>2, <1>3, <1>4, <1>5, <1>6, <3>1, <3>2
    <3>3. CASE p[1] # id
      BY <1>6, <3>1, <3>3
    <3>4. QED
      BY <3>2, <3>3
  <2>3. QED
    BY <1>4, <1>8, <2>1, <2>2
<1>9. QED
  BY <1>7, <1>8 DEF VersionsFresh, Existing

(* Deactivation changes neither versionIds, writes nor superseded.        *)
LEMMA DeactivateFresh ==
    ASSUME TypeOK, VersionsFresh, NEW id \in Ids, DeactivateDid(id)
    PROVE  VersionsFresh'
<1>1. store[id] \in StateValue
  BY MarkersAssumption DEF DeactivateDid, TypeOK
<1>2. PICK r \in StateValue :
        /\ store' = [store EXCEPT ![id] = r]
        /\ r.metadata.versionId = store[id].metadata.versionId
        /\ UNCHANGED <<writes, superseded>>
  <2> DEFINE r0 == [store[id] EXCEPT !.metadata.deactivated = TRUE]
  <2>6. store[id].metadata \in Meta /\ store[id].did \in Doc
    BY <1>1 DEF StateValue
  <2>9. r0.metadata = [store[id].metadata EXCEPT !.deactivated = TRUE]
    BY <1>1, Zenon DEF StateValue
  <2>7. r0.metadata \in Meta
    <3> HIDE DEF r0
    <3> QED
      BY <2>6, <2>9 DEF Meta
  <2>8. r0.did = store[id].did
    BY <1>1, Zenon DEF StateValue
  <2>4. r0 \in StateValue
    BY <1>1, <2>6, <2>7, <2>8 DEF StateValue
  <2>5. r0.metadata.versionId = store[id].metadata.versionId
    BY <1>1, Zenon DEF StateValue, Meta
  <2>1. r0 \in StateValue /\ r0.metadata.versionId = store[id].metadata.versionId
    BY <2>4, <2>5
  <2>2. store' = [store EXCEPT ![id] = r0] /\ UNCHANGED <<writes, superseded>>
    BY DEF DeactivateDid
  <2>3. QED
    BY <2>1, <2>2, Zenon
<1>3. r # NoDoc /\ store[id] # NoDoc
  BY <1>1, MarkersAssumption
<1>4. \A d \in Ids : /\ (store'[d] # NoDoc <=> store[d] # NoDoc)
                     /\ (store[d] # NoDoc =>
                           store'[d].metadata.versionId = store[d].metadata.versionId)
  BY <1>2, <1>3 DEF TypeOK
<1>5. \A p \in superseded : p[1] \in Ids
  BY DEF TypeOK
<1>6. QED
  BY <1>2, <1>4, <1>5 DEF VersionsFresh, Existing

LEMMA FreshStep == TypeOK /\ VersionsFresh /\ [Next]_vars => VersionsFresh'
<1> SUFFICES ASSUME TypeOK, VersionsFresh, [Next]_vars PROVE VersionsFresh'
  OBVIOUS
<1>1. CASE UNCHANGED vars
  BY <1>1 DEF vars, VersionsFresh, Existing
<1>2. QED
  BY <1>1, CreateFresh, UpdateFresh, DeactivateFresh DEF Next

(* No update that asserts a versionId an earlier update of the same       *)
(* document replaced is ever accepted (UpdateDid's version check with the *)
(* fresh versionId each write takes), for every value of the constants.   *)
THEOREM NoReplayInvariant == Spec => []NoReplay
<1>1. Init => RInv
  BY ConstantsAssumption DEF Init, RInv, TypeOK, VersionsFresh, Existing
<1>2. RInv /\ [Next]_vars => RInv'
  BY TypeStep, FreshStep DEF RInv
<1>3. RInv => NoReplay
  <2> SUFFICES ASSUME RInv, NEW p \in superseded, NEW doc \in Doc, NEW b \in SUBSET Entry,
                      UpdateDidResult(p[1], doc, p[2], b) = "Ok"
               PROVE  FALSE
    BY DEF NoReplay
  <2>1. store[p[1]].metadata.versionId = p[2]
    BY UpdateOk
  <2>2. p[2] < store[p[1]].metadata.versionId /\ p[2] \in Nat
    BY DEF RInv, VersionsFresh, TypeOK
  <2>3. QED
    BY <2>1, <2>2
<1>4. QED
  BY <1>1, <1>2, <1>3, PTL DEF Spec

-----------------------------------------------------------------------------
(* Every step keeps created and never clears deactivated for a stored     *)
(* document: a create writes only an absent id, an update carries both    *)
(* fields over, deactivation sets the tombstone.                          *)
LEMMA MetadataStepHolds == TypeOK /\ [Next]_vars => [MetadataStep]_store
<1> SUFFICES ASSUME TypeOK, [Next]_vars PROVE [MetadataStep]_store
  OBVIOUS
<1>1. ASSUME NEW id \in Ids, NEW doc \in Doc, NEW b \in SUBSET Entry,
             CreateDid(id, doc, b)
      PROVE  MetadataStep
  <2>1. store[id] = NoDoc
    BY <1>1, CreateOk DEF CreateDid
  <2>2. \A d \in Existing : store'[d] = store[d]
    BY <1>1, <2>1 DEF CreateDid, Existing, TypeOK
  <2>3. QED
    BY <2>2 DEF MetadataStep
<1>2. ASSUME NEW id \in Ids, NEW doc \in Doc, NEW v \in Versions,
             NEW b \in SUBSET Entry, UpdateDid(id, doc, v, b)
      PROVE  MetadataStep
  <2> DEFINE m2 == [store[id].metadata EXCEPT !.updated = writes + 1, !.versionId = writes + 1]
  <2>1. store[id] \in StateValue
    BY <1>2, UpdateOk, MarkersAssumption DEF UpdateDid, TypeOK
  <2>2. m2.created = store[id].metadata.created
        /\ m2.deactivated = store[id].metadata.deactivated
    BY <2>1 DEF StateValue, Meta
  <2>3. store' = [store EXCEPT ![id] = [did |-> doc, metadata |-> m2]]
    BY <1>2 DEF UpdateDid
  <2>4. QED
    BY <2>2, <2>3 DEF MetadataStep, Existing, TypeOK
<1>3. ASSUME NEW id \in Ids, DeactivateDid(id)
      PROVE  MetadataStep
  <2>1. store[id] \in StateValue
    BY <1>3, MarkersAssumption DEF DeactivateDid, TypeOK
  <2>2. store' = [store EXCEPT ![id] = [store[id] EXCEPT !.metadata.deactivated = TRUE]]
    BY <1>3 DEF DeactivateDid
  <2>3. QED
    BY <2>1, <2>2 DEF MetadataStep, Existing, TypeOK, StateValue, Meta
<1>4. CASE UNCHANGED vars
  BY <1>4 DEF vars
<1>5. QED
  BY <1>1, <1>2, <1>3, <1>4 DEF Next

(* A stored document's created time never changes and its deactivated    *)
(* tombstone is never cleared, by any handler, for every value of the     *)
(* constants.                                                             *)
THEOREM MetadataEvolutionTheorem == Spec => MetadataEvolution
<1>1. []TypeOK /\ [][Next]_vars => [][MetadataStep]_store
  BY MetadataStepHolds, PTL
<1>2. QED
  BY <1>1, TypeCorrect, PTL DEF Spec, MetadataEvolution

-----------------------------------------------------------------------------
(* A satisfied signer signed with the key set it was resolved to.         *)
LEMMA SignerSigned ==
    ASSUME NEW sg, NEW s, NEW b, SignerResult(store, sg, s, b) = "Ok"
    PROVE  /\ sg[s] = FromStore => SignedStored(b, s)
           /\ sg[s] # FromStore => SignedUnder(b, s, sg[s])
<1> DEFINE rel == {e \in b : e.vm[1] = s}
           keys == KeysOf(store, sg, s)
<1>1. rel # {}
  BY DEF SignerResult
<1>2. \A e \in rel : Authorized(keys, e.vm[2]) /\ keys.vm[e.vm[2]].key = e.key
  BY DEF SignerResult
<1>3. SignedUnder(b, s, keys)
  BY <1>1, <1>2 DEF SignedUnder
<1>4. sg[s] = FromStore => store[s] # NoDoc
  BY DEF SignerResult
<1>5. QED
  BY <1>3, <1>4 DEF KeysOf, SignedStored

(* Every principal of an update's signer set consents, whichever key set *)
(* it was given.                                                          *)
LEMMA SignerConsents ==
    ASSUME NEW sg, NEW id, NEW new, NEW b, NEW c \in DOMAIN sg,
           VerifySignature(store, sg, b) = "Ok",
           sg[c] = FromStore \/ (c = id /\ sg[c] = new)
    PROVE  Consented(b, c, id, new)
<1>1. SignerResult(store, sg, c, b) = "Ok"
  BY VerifyOk
<1>2. CASE sg[c] = FromStore
  BY <1>1, <1>2, SignerSigned DEF Consented
<1>3. CASE sg[c] # FromStore
  BY <1>1, <1>3, SignerSigned DEF Consented
<1>4. QED
  BY <1>2, <1>3

(* The shape of UpdateDidVerifySignature's signer set: each principal is  *)
(* read from the store or is the document itself restricted to its new   *)
(* keys; removed controllers are read from the store; every controller   *)
(* the diff names is in it.                                               *)
LEMMA UpdateSignersShape ==
    ASSUME NEW old, NEW id, NEW new
    PROVE  LET sg == UpdateDidSigners(old, id, new)
           IN  /\ \A c \in DOMAIN sg : sg[c] = FromStore \/ (c = id /\ sg[c] = new)
               /\ \A c \in ExpandController(old, id) \ ExpandController(new, id) :
                      c \in DOMAIN sg /\ sg[c] = FromStore
               /\ \A f \in Deleted(old, new) \cup HandedOver(old, new) :
                      old.vm[f].controller \in DOMAIN sg
               /\ \A f \in Changed(old, new) : new.vm[f].controller \in DOMAIN sg
BY DEF UpdateDidSigners, AppendSignerIfNeed, GetSigners

(* Every accepted create or update, from any store, carries the consent   *)
(* of every principal the write names or takes power from.                *)
LEMMA ConsentHolds == WriteConsent
<1>1. ASSUME NEW id, NEW doc \in Doc, NEW b, CreateDidResult(id, doc, b) = "Ok"
      PROVE  CreateConsent(id, doc, b)
  <2>1. VerifySignature(store, GetSigners(id, doc), b) = "Ok"
    BY <1>1, CreateOk
  <2>2. SUFFICES ASSUME NEW c \in ExpandController(doc, id)
                 PROVE  Consented(b, c, id, doc)
    BY DEF CreateConsent
  <2>3. c \in DOMAIN GetSigners(id, doc)
        /\ (GetSigners(id, doc)[c] = FromStore \/ (c = id /\ GetSigners(id, doc)[c] = doc))
    BY DEF GetSigners
  <2>4. QED
    BY <2>1, <2>3, SignerConsents
<1>2. ASSUME NEW id, NEW doc, NEW v, NEW b, UpdateDidResult(id, doc, v, b) = "Ok"
      PROVE  UpdateConsent(id, store[id].did, doc, b)
  <2> DEFINE old == store[id].did
             sg == UpdateDidSigners(old, id, doc)
  <2>1. VerifySignature(store, sg, b) = "Ok"
    BY <1>2, UpdateOk
  <2>2. \A c \in DOMAIN sg : Consented(b, c, id, doc)
    BY <2>1, UpdateSignersShape, SignerConsents
  <2>3. \A c \in ExpandController(doc, id) : Consented(b, c, id, doc)
    BY <2>2, UpdateSignersBase
  <2>4. \A c \in ExpandController(old, id) \ ExpandController(doc, id) : SignedStored(b, c)
    <3> SUFFICES ASSUME NEW c \in ExpandController(old, id) \ ExpandController(doc, id)
                 PROVE  SignedStored(b, c)
      OBVIOUS
    <3>1. c \in DOMAIN sg /\ sg[c] = FromStore
      BY UpdateSignersShape
    <3>2. SignerResult(store, sg, c, b) = "Ok"
      BY <2>1, <3>1, VerifyOk
    <3>3. QED
      BY <3>1, <3>2, SignerSigned
  <2>5. \A f \in Deleted(old, doc) \cup HandedOver(old, doc) :
            Consented(b, old.vm[f].controller, id, doc)
    BY <2>2, UpdateSignersShape
  <2>6. \A f \in Changed(old, doc) : Consented(b, doc.vm[f].controller, id, doc)
    BY <2>2, UpdateSignersShape
  <2>7. QED
    BY <2>3, <2>4, <2>5, <2>6 DEF UpdateConsent
<1>3. QED
  BY <1>1, <1>2 DEF WriteConsent

(* Every accepted write is signed by everyone it names or takes power     *)
(* from (CreateDid's GetSigners, UpdateDidVerifySignature's diff), in    *)
(* every reachable store, for every value of the constants.               *)
THEOREM WriteConsentInvariant == Spec => []WriteConsent
BY ConsentHolds, PTL


-----------------------------------------------------------------------------
(* Refinement.  The abstract state is read off the store by the mapping   *)
(* of DidRegistry's Abs; aDocs, aVersion and aDeact name its parts.        *)
aDocs == [d \in Ids |-> IF store[d] = NoDoc THEN NoDoc ELSE store[d].did]
aVersion == [d \in Ids |-> IF store[d] = NoDoc THEN 0 ELSE store[d].metadata.versionId]
aDeact == [d \in Ids |-> store[d] # NoDoc /\ store[d].metadata.deactivated]

(* A signature under stored keys is a signature the abstract registry     *)
(* reads from the document it holds.                                       *)
LEMMA StoredAbs ==
    ASSUME TypeOK, NEW b, NEW p \in Ids, SignedStored(b, p)
    PROVE  aDocs[p] # NoDoc /\ Abs!Signs(b, p, aDocs[p])
<1>1. store[p] # NoDoc /\ SignedUnder(b, p, store[p].did)
  BY DEF SignedStored
<1>2. aDocs[p] = store[p].did
  BY <1>1 DEF aDocs
<1>3. store[p].did # NoDoc
  BY <1>1, MarkersAssumption DEF TypeOK, StateValue
<1>4. Abs!Signs(b, p, store[p].did)
  BY <1>1 DEF SignedUnder, Authorized, Abs!Signs
<1>5. QED
  BY <1>2, <1>3, <1>4

(* The consent the handlers enforce is the abstract consent.              *)
LEMMA ConsentedAbs ==
    ASSUME TypeOK, NEW b, NEW p \in Ids, NEW id \in Ids, NEW doc, Consented(b, p, id, doc)
    PROVE  Abs!Consents(b, p, id, doc)
<1>1. CASE SignedStored(b, p)
  BY <1>1, StoredAbs DEF Abs!Consents, aDocs
<1>2. CASE p = id /\ SignedUnder(b, id, doc)
  BY <1>2 DEF Abs!Consents, Abs!Signs, SignedUnder, Authorized
<1>3. QED
  BY <1>1, <1>2 DEF Consented

(* Overwriting id with r at the next write is the abstract Write of r's   *)
(* document, when r takes the fresh version and keeps the tombstone.      *)
LEMMA WriteAbs ==
    ASSUME TypeOK, NEW id \in Ids, NEW r \in StateValue,
           store' = [store EXCEPT ![id] = r],
           writes < MaxWrites, writes' = writes + 1,
           r.metadata.versionId = writes + 1,
           r.metadata.deactivated = (store[id] # NoDoc /\ store[id].metadata.deactivated)
    PROVE  Abs!Write(id, r.did)
<1>1. r # NoDoc
  BY MarkersAssumption
<1>2. \A d \in Ids : store'[d] = IF d = id THEN r ELSE store[d]
  BY DEF TypeOK
<1>3. aDocs' = [aDocs EXCEPT ![id] = r.did]
  <2>1. aDocs' = [d \in Ids |-> IF store'[d] = NoDoc THEN NoDoc ELSE store'[d].did]
    BY DEF aDocs
  <2>2. \A d \in Ids : (IF store'[d] = NoDoc THEN NoDoc ELSE store'[d].did)
                        = [aDocs EXCEPT ![id] = r.did][d]
    BY <1>1, <1>2 DEF aDocs
  <2>3. QED
    BY <2>1, <2>2 DEF aDocs
<1>4. aVersion' = [aVersion EXCEPT ![id] = writes + 1]
  <2>1. aVersion' = [d \in Ids |-> IF store'[d] = NoDoc THEN 0
                                   ELSE store'[d].metadata.versionId]
    BY DEF aVersion
  <2>2. \A d \in Ids : (IF store'[d] = NoDoc THEN 0 ELSE store'[d].metadata.versionId)
                        = [aVersion EXCEPT ![id] = writes + 1][d]
    BY <1>1, <1>2 DEF aVersion
  <2>3. QED
    BY <2>1, <2>2 DEF aVersion
<1>5. aDeact' = aDeact
  <2>1. aDeact' = [d \in Ids |-> store'[d] # NoDoc /\ store'[d].metadata.deactivated]
    BY DEF aDeact
  <2>2. \A d \in Ids : (store'[d] # NoDoc /\ store'[d].metadata.deactivated) = aDeact[d]
    BY <1>1, <1>2 DEF aDeact
  <2>3. QED
    BY <2>1, <2>2 DEF aDeact
<1>6. QED
  BY <1>3, <1>4, <1>5 DEF Abs!Write, aDocs, aVersion, aDeact


(* An accepted create is an abstract create: the id is absent, every      *)
(* governor of the document consents, and the write takes a fresh version.*)
LEMMA CreateRefines ==
    ASSUME TypeOK, NEW id \in Ids, NEW doc \in Doc, NEW b \in SUBSET Entry,
           CreateDid(id, doc, b)
    PROVE  Abs!Create(id, doc)
<1> USE ConstantsAssumption
<1>1. store[id] = NoDoc
  BY CreateOk DEF CreateDid
<1>2. CreateConsent(id, doc, b)
  BY <1>1, ConsentHolds DEF WriteConsent, Existing, CreateDid
<1>3. \A c \in Abs!Governors(doc, id) : Abs!Consents(b, c, id, doc)
  <2> SUFFICES ASSUME NEW c \in ExpandController(doc, id)
               PROVE  Abs!Consents(b, c, id, doc)
    BY DEF Abs!Governors, ExpandController
  <2>1. c \in Ids
    BY DEF ExpandController, Doc
  <2>2. Consented(b, c, id, doc)
    BY <1>2 DEF CreateConsent
  <2>3. QED
    BY <2>1, <2>2, ConsentedAbs
<1>4. aDocs[id] = NoDoc
  BY <1>1 DEF aDocs
<1>5. PICK r \in StateValue :
        /\ store' = [store EXCEPT ![id] = r]
        /\ r.did = doc /\ r.metadata.versionId = writes + 1
        /\ r.metadata.deactivated = FALSE
        /\ writes' = writes + 1 /\ writes < MaxWrites
  <2> DEFINE r0 == [did |-> doc,
                    metadata |-> [created |-> writes + 1, updated |-> writes + 1,
                                  versionId |-> writes + 1, deactivated |-> FALSE]]
  <2>1. writes + 1 \in 1..MaxWrites
    BY DEF CreateDid, TypeOK
  <2>2. r0 \in StateValue
    BY <2>1 DEF StateValue, Meta
  <2>3. store' = [store EXCEPT ![id] = r0] /\ writes' = writes + 1 /\ writes < MaxWrites
    BY DEF CreateDid
  <2>4. QED
    BY <2>2, <2>3
<1>6. Abs!Write(id, doc)
  BY <1>1, <1>5, WriteAbs
<1>7. QED
  BY <1>3, <1>4, <1>6 DEF Abs!Create, aDocs, Abs!Entry, Entry

(* An accepted update is an abstract update: every governor of the new    *)
(* document consents, and every governor it drops signs with the keys the *)
(* store holds for it.                                                     *)
LEMMA UpdateRefines ==
    ASSUME TypeOK, NEW id \in Ids, NEW doc \in Doc, NEW v \in Versions,
           NEW b \in SUBSET Entry, UpdateDid(id, doc, v, b)
    PROVE  Abs!Update(id, doc)
<1> USE ConstantsAssumption
<1>1. store[id] # NoDoc /\ store[id].metadata.versionId = v /\ store[id] \in StateValue
  BY UpdateOk, MarkersAssumption DEF UpdateDid, TypeOK
<1>2. UpdateConsent(id, store[id].did, doc, b)
  BY <1>1, ConsentHolds DEF WriteConsent, Existing, UpdateDid
<1>3. aDocs[id] = store[id].did /\ aDocs[id] # NoDoc
  BY <1>1, MarkersAssumption DEF aDocs, StateValue
<1>4. \A c \in Abs!Governors(doc, id) : Abs!Consents(b, c, id, doc)
  <2> SUFFICES ASSUME NEW c \in ExpandController(doc, id)
               PROVE  Abs!Consents(b, c, id, doc)
    BY DEF Abs!Governors, ExpandController
  <2>1. c \in Ids
    BY DEF ExpandController, Doc
  <2>2. Consented(b, c, id, doc)
    BY <1>2 DEF UpdateConsent
  <2>3. QED
    BY <2>1, <2>2, ConsentedAbs
<1>5. \A c \in Abs!Governors(aDocs[id], id) \ Abs!Governors(doc, id) :
          aDocs[c] # NoDoc /\ Abs!Signs(b, c, aDocs[c])
  <2> SUFFICES ASSUME NEW c \in ExpandController(store[id].did, id) \ ExpandController(doc, id)
               PROVE  aDocs[c] # NoDoc /\ Abs!Signs(b, c, aDocs[c])
    BY <1>3 DEF Abs!Governors, ExpandController
  <2>1. c \in Ids
    BY <1>1 DEF ExpandController, StateValue, Doc
  <2>2. SignedStored(b, c)
    BY <1>2 DEF UpdateConsent
  <2>3. QED
    BY <2>1, <2>2, StoredAbs
<1>6. PICK r \in StateValue :
        /\ store' = [store EXCEPT ![id] = r]
        /\ r.did = doc /\ r.metadata.versionId = writes + 1
        /\ r.metadata.deactivated = store[id].metadata.deactivated
        /\ writes' = writes + 1 /\ writes < MaxWrites
  <2> DEFINE m2 == [store[id].metadata EXCEPT !.updated = writes + 1, !.versionId = writes + 1]
             r0 == [did |-> doc, metadata |-> m2]
  <2>0. store[id].metadata \in Meta
    BY <1>1 DEF StateValue
  <2>1. writes + 1 \in 1..MaxWrites
    BY DEF UpdateDid, TypeOK
  <2>2. m2 \in Meta
    BY <2>0, <2>1 DEF Meta
  <2>3. m2.versionId = writes + 1 /\ m2.deactivated = store[id].metadata.deactivated
    BY <2>0, Zenon DEF Meta
  <2>4. /\ r0 \in StateValue /\ r0.did = doc /\ r0.metadata.versionId = writes + 1
        /\ r0.metadata.deactivated = store[id].metadata.deactivated
    BY <2>2, <2>3, Zenon DEF StateValue
  <2>5. store' = [store EXCEPT ![id] = r0] /\ writes' = writes + 1 /\ writes < MaxWrites
    BY DEF UpdateDid
  <2>6. QED
    BY <2>4, <2>5, Zenon
<1>9. store[id].metadata.deactivated \in BOOLEAN
  BY <1>1 DEF StateValue, Meta
<1>10. r.metadata.deactivated = (store[id] # NoDoc /\ store[id].metadata.deactivated)
  BY <1>1, <1>6, <1>9
<1>7. Abs!Write(id, doc)
  BY <1>6, <1>10, WriteAbs
<1>8. QED
  BY <1>3, <1>4, <1>5, <1>7 DEF Abs!Update, aDocs, Abs!Entry, Entry


(* Deactivation is the abstract deactivation: only the tombstone moves.   *)
LEMMA DeactivateRefines ==
    ASSUME TypeOK, NEW id \in Ids, DeactivateDid(id)
    PROVE  Abs!Deactivate(id)
<1>1. store[id] \in StateValue /\ store[id] # NoDoc /\ ~store[id].metadata.deactivated
  BY MarkersAssumption DEF DeactivateDid, TypeOK
<1>2. PICK r \in StateValue :
        /\ store' = [store EXCEPT ![id] = r]
        /\ r.did = store[id].did
        /\ r.metadata.versionId = store[id].metadata.versionId
        /\ r.metadata.deactivated = TRUE
        /\ UNCHANGED writes
  <2> DEFINE r0 == [store[id] EXCEPT !.metadata.deactivated = TRUE]
  <2>1. store[id].metadata \in Meta /\ store[id].did \in Doc
    BY <1>1 DEF StateValue
  <2>2. r0.metadata = [store[id].metadata EXCEPT !.deactivated = TRUE]
    BY <1>1, Zenon DEF StateValue
  <2>3. r0.metadata \in Meta
    <3> HIDE DEF r0
    <3> QED
      BY <2>1, <2>2 DEF Meta
  <2>4. r0.did = store[id].did
    BY <1>1, Zenon DEF StateValue
  <2>5. r0 \in StateValue
    BY <1>1, <2>1, <2>3, <2>4 DEF StateValue
  <2>6. r0.metadata.versionId = store[id].metadata.versionId
        /\ r0.metadata.deactivated = TRUE
    BY <1>1, Zenon DEF StateValue, Meta
  <2>7. store' = [store EXCEPT ![id] = r0] /\ UNCHANGED writes
    BY DEF DeactivateDid
  <2>8. QED
    BY <2>4, <2>5, <2>6, <2>7, Zenon
<1>3. r # NoDoc
  BY MarkersAssumption
<1>4. \A d \in Ids : store'[d] = IF d = id THEN r ELSE store[d]
  BY <1>2 DEF TypeOK
<1>5. aDocs' = aDocs
  <2>1. aDocs' = [d \in Ids |-> IF store'[d] = NoDoc THEN NoDoc ELSE store'[d].did]
    BY DEF aDocs
  <2>2. \A d \in Ids : (IF store'[d] = NoDoc THEN NoDoc ELSE store'[d].did) = aDocs[d]
    BY <1>1, <1>2, <1>3, <1>4 DEF aDocs
  <2>3. QED
    BY <2>1, <2>2 DEF aDocs
<1>6. aVersion' = aVersion
  <2>1. aVersion' = [d \in Ids |-> IF store'[d] = NoDoc THEN 0
                                   ELSE store'[d].metadata.versionId]
    BY DEF aVersion
  <2>2. \A d \in Ids : (IF store'[d] = NoDoc THEN 0 ELSE store'[d].metadata.versionId)
                        = aVersion[d]
    BY <1>1, <1>2, <1>3, <1>4 DEF aVersion
  <2>3. QED
    BY <2>1, <2>2 DEF aVersion
<1>7. aDeact' = [aDeact EXCEPT ![id] = TRUE]
  <2>1. aDeact' = [d \in Ids |-> store'[d] # NoDoc /\ store'[d].metadata.deactivated]
    BY DEF aDeact
  <2>2. \A d \in Ids : (store'[d] # NoDoc /\ store'[d].metadata.deactivated)
                        = [aDeact EXCEPT ![id] = TRUE][d]
    BY <1>2, <1>3, <1>4 DEF aDeact
  <2>3. QED
    BY <2>1, <2>2 DEF aDeact
<1>8. aDocs[id] # NoDoc /\ ~aDeact[id]
  BY <1>1, MarkersAssumption DEF aDocs, aDeact, StateValue
<1>9. QED
  BY <1>2, <1>5, <1>6, <1>7, <1>8 DEF Abs!Deactivate, aDocs, aVersion, aDeact

(* Every step of the handlers is a step of the abstract registry or       *)
(* leaves its state alone.                                                *)
LEMMA RefinementStep == TypeOK /\ [Next]_vars => [Abs!Next]_Abs!vars
<1> SUFFICES ASSUME TypeOK, [Next]_vars PROVE [Abs!Next]_Abs!vars
  OBVIOUS
<1>0. Abs!Doc = Doc
  BY DEF Abs!Doc, Abs!VM, Doc, VM
<1>1. ASSUME NEW id \in Ids, NEW doc \in Doc, NEW b \in SUBSET Entry, CreateDid(id, doc, b)
      PROVE  Abs!Next
  BY <1>0, <1>1, CreateRefines DEF Abs!Next
<1>2. ASSUME NEW id \in Ids, NEW doc \in Doc, NEW v \in Versions, NEW b \in SUBSET Entry,
             UpdateDid(id, doc, v, b)
      PROVE  Abs!Next
  BY <1>0, <1>2, UpdateRefines DEF Abs!Next
<1>3. ASSUME NEW id \in Ids, DeactivateDid(id)
      PROVE  Abs!Next
  BY <1>3, DeactivateRefines DEF Abs!Next
<1>4. CASE UNCHANGED vars
  BY <1>4 DEF vars, Abs!vars
<1>5. QED
  BY <1>1, <1>2, <1>3, <1>4 DEF Next

(* The handlers implement the abstract registry (ImplementsAbstract): an *)
(* accepted create or update writes one document at a fresh version with  *)
(* the consent its governors and its dropped governors owe, a create only *)
(* to an absent id, and deactivation moves only the tombstone; for every  *)
(* value of the constants.                                                *)
THEOREM Refinement == Spec => ImplementsAbstract
<1>1. Init => Abs!Init
  BY DEF Init, Abs!Init
<1>2. QED
  BY <1>1, RefinementStep, TypeCorrect, PTL DEF Spec, ImplementsAbstract, Abs!Spec

-----------------------------------------------------------------------------
(* No lockout.  The first conjunct of NoLockout is inductive on its own   *)
(* (with the types); the second holds in every typed store.               *)
NoLockedOut == \A T \in SUBSET Ids : ~LockedOut(T)

(* A principal that signed with its stored keys is a stored document that *)
(* holds an authentication key.                                           *)
LEMMA SignedKeyHolder ==
    ASSUME NEW b, NEW c \in Ids, SignedStored(b, c)
    PROVE  c \in KeyHolders
BY DEF SignedStored, SignedUnder, Authorized, HasAuthKey, KeyHolders, Existing

(* Every controller other than itself that an accepted create or update  *)
(* names holds an authentication key in the store it was checked against. *)
LEMMA WriteKeyHolders ==
    ASSUME TypeOK, NEW id \in Ids, NEW doc \in Doc, NEW b \in SUBSET Entry,
           \/ CreateDidResult(id, doc, b) = "Ok"
           \/ \E v : UpdateDidResult(id, doc, v, b) = "Ok"
    PROVE  ExpandController(doc, id) \ {id} \subseteq KeyHolders
<1> SUFFICES ASSUME NEW c \in ExpandController(doc, id) \ {id}
             PROVE  c \in KeyHolders
  OBVIOUS
<1>1. c \in Ids
  BY DEF ExpandController, Doc
<1>2. Consented(b, c, id, doc)
  <2>1. CASE CreateDidResult(id, doc, b) = "Ok"
    <3>1. id \in Ids \ Existing
      BY <2>1, CreateOk DEF Existing
    <3>2. QED
      BY <2>1, <3>1, ConsentHolds DEF WriteConsent, CreateConsent
  <2>2. CASE \E v : UpdateDidResult(id, doc, v, b) = "Ok"
    <3>1. PICK v : UpdateDidResult(id, doc, v, b) = "Ok"
      BY <2>2
    <3>2. id \in Existing /\ store[id].metadata.versionId = v
      BY <3>1, UpdateOk DEF Existing
    <3>3. QED
      BY <3>1, <3>2, ConsentHolds DEF WriteConsent, UpdateConsent
  <2>3. QED
    BY <2>1, <2>2
<1>3. SignedStored(b, c)
  BY <1>2 DEF Consented
<1>4. QED
  BY <1>1, <1>3, SignedKeyHolder

(* A write under id of a document whose other controllers hold keys locks *)
(* out no set: a set holding id would need a controller of id without a   *)
(* key, and a set without id was locked out before.                       *)
LEMMA WriteKeepsUnlocked ==
    ASSUME TypeOK, NoLockedOut,
           NEW id \in Ids, NEW doc \in Doc, NEW r \in StateValue, r.did = doc,
           store' = [store EXCEPT ![id] = r],
           ExpandController(doc, id) \ {id} \subseteq KeyHolders
    PROVE  NoLockedOut'
<1> SUFFICES ASSUME NEW T \in SUBSET Ids, LockedOut(T)' PROVE FALSE
  BY DEF NoLockedOut
<1>1. store'[id] = r /\ \A x \in Ids \ {id} : store'[x] = store[x]
  BY DEF TypeOK
<1>2. Existing' = Existing \cup {id}
  BY <1>1, MarkersAssumption DEF Existing
<1>3. CASE id \in T
  <2>1. PICK c \in ExpandController(doc, id) \ {id} : c \in T \/ c \notin Existing'
    BY <1>1, <1>3 DEF LockedOut
  <2>2. c \in Existing /\ c # id /\ HasAuthKey(store[c].did)
    BY <2>1 DEF KeyHolders
  <2>3. c \in Existing' /\ HasAuthKey(store'[c].did)
    BY <1>1, <1>2, <2>2 DEF Existing
  <2>4. QED
    BY <2>1, <2>3 DEF LockedOut
<1>4. CASE id \notin T
  <2>1. \A p \in T : store'[p] = store[p]
    BY <1>1, <1>4
  <2>2. T \subseteq Existing
    BY <1>2, <1>4 DEF LockedOut
  <2>3. \A p \in T : ExpandController(store[p].did, p) \subseteq Ids
    BY <2>2 DEF TypeOK, Existing, ExpandController, StateValue, Doc
  <2>4. LockedOut(T)
    BY <1>2, <2>1, <2>2, <2>3 DEF LockedOut
  <2>5. QED
    BY <2>4 DEF NoLockedOut
<1>5. QED
  BY <1>3, <1>4

(* No step locks a set out: a create or an update writes a document whose *)
(* other controllers signed with their stored keys, a deactivation leaves *)
(* every document and which ids are stored as they were.                  *)
LEMMA UnlockedStep == TypeOK /\ NoLockedOut /\ [Next]_vars => NoLockedOut'
<1> SUFFICES ASSUME TypeOK, NoLockedOut, [Next]_vars PROVE NoLockedOut'
  OBVIOUS
<1>1. ASSUME NEW id \in Ids, NEW doc \in Doc, NEW b \in SUBSET Entry,
             CreateDid(id, doc, b)
      PROVE  NoLockedOut'
  <2> DEFINE r == [did |-> doc,
                   metadata |-> [created |-> writes + 1, updated |-> writes + 1,
                                 versionId |-> writes + 1, deactivated |-> FALSE]]
  <2>1. writes + 1 \in 1..MaxWrites
    BY <1>1, ConstantsAssumption DEF CreateDid, TypeOK
  <2>2. r \in StateValue /\ r.did = doc
    BY <2>1 DEF StateValue, Meta
  <2>3. store' = [store EXCEPT ![id] = r]
    BY <1>1 DEF CreateDid
  <2>4. ExpandController(doc, id) \ {id} \subseteq KeyHolders
    BY <1>1, WriteKeyHolders DEF CreateDid
  <2>5. QED
    BY <2>2, <2>3, <2>4, WriteKeepsUnlocked
<1>2. ASSUME NEW id \in Ids, NEW doc \in Doc, NEW v \in Versions,
             NEW b \in SUBSET Entry, UpdateDid(id, doc, v, b)
      PROVE  NoLockedOut'
  <2> DEFINE m2 == [store[id].metadata EXCEPT
                      !.updated = writes + 1, !.versionId = writes + 1]
             r == [did |-> doc, metadata |-> m2]
  <2>1. store[id] \in StateValue /\ writes + 1 \in 1..MaxWrites
    BY <1>2, UpdateOk, ConstantsAssumption DEF UpdateDid, TypeOK
  <2>2. m2 \in Meta
    BY <2>1 DEF StateValue, Meta
  <2>3. r \in StateValue /\ r.did = doc
    BY <2>2 DEF StateValue
  <2>4. store' = [store EXCEPT ![id] = r]
    BY <1>2 DEF UpdateDid
  <2>5. ExpandController(doc, id) \ {id} \subseteq KeyHolders
    BY <1>2, WriteKeyHolders DEF UpdateDid
  <2>6. QED
    BY <2>3, <2>4, <2>5, WriteKeepsUnlocked
<1>3. ASSUME NEW id \in Ids, DeactivateDid(id)
      PROVE  NoLockedOut'
  <2>1. store[id] \in StateValue
    BY <1>3 DEF DeactivateDid, TypeOK
  <2> DEFINE r == [store[id] EXCEPT !.metadata.deactivated = TRUE]
  <2>2. store' = [store EXCEPT ![id] = r]
    BY <1>3 DEF DeactivateDid
  <2>3. r \in StateValue /\ r.did = store[id].did
    BY <2>1 DEF StateValue, Meta
  <2>4. ASSUME NEW d \in Ids
        PROVE  /\ (store'[d] # NoDoc <=> store[d] # NoDoc)
               /\ (store[d] # NoDoc => store'[d].did = store[d].did)
    <3>1. CASE d = id
      <4>1. store'[d] = r
        BY <3>1, <2>2 DEF TypeOK
      <4>2. QED
        BY <3>1, <4>1, <2>1, <2>3, MarkersAssumption
    <3>2. CASE d # id
      BY <3>2, <2>2
    <3>3. QED
      BY <3>1, <3>2
  <2>5. Existing' = Existing
    BY <2>4 DEF Existing
  <2>6. SUFFICES ASSUME NEW T \in SUBSET Ids, LockedOut(T)' PROVE FALSE
    BY DEF NoLockedOut
  <2>7. \A p \in T : p \in Existing /\ store'[p].did = store[p].did
    BY <2>4, <2>5, <2>6 DEF LockedOut, Existing
  <2>8. LockedOut(T)
    BY <2>5, <2>6, <2>7 DEF LockedOut
  <2>9. QED
    BY <2>8 DEF NoLockedOut
<1>4. CASE UNCHANGED vars
  BY <1>4 DEF vars, NoLockedOut, LockedOut, Existing
<1>5. QED
  BY <1>1, <1>2, <1>3, <1>4 DEF Next

(* The rescue of p: its document with the same controllers, an            *)
(* authentication reference to fragment f, and a VM of p holding key k    *)
(* under f when it declared none there.                                   *)
RescueDoc(p, f, k) ==
    LET old == store[p].did
    IN  [controller |-> old.controller,
         vm |-> [old.vm EXCEPT ![f] = IF @ = NoVM THEN [controller |-> p, key |-> k] ELSE @],
         auth |-> old.auth \cup {f}]

(* The keys each signer of the rescue signs with, an authentication       *)
(* method among them, and the bundle: one signature per signer.           *)
RescueKeys(p, f, k, c) == IF c = p THEN RescueDoc(p, f, k) ELSE store[c].did
RescueFrag(p, f, k, c) == CHOOSE g \in Frags : Authorized(RescueKeys(p, f, k, c), g)
RescueBundle(p, f, k) ==
    {[vm |-> <<c, RescueFrag(p, f, k, c)>>,
      key |-> RescueKeys(p, f, k, c).vm[RescueFrag(p, f, k, c)].key] :
        c \in ExpandController(store[p].did, p)}

(* The rescue keeps the controllers, gives p a key, and changes no VM     *)
(* that p declared: its signer set is its controllers.                    *)
LEMMA RescueShape ==
    ASSUME TypeOK, NEW p \in Existing, NEW f \in Frags, NEW k \in Keys
    PROVE  LET old == store[p].did
               doc == RescueDoc(p, f, k)
           IN  /\ doc \in Doc
               /\ doc.controller = old.controller
               /\ Authorized(doc, f)
               /\ Deleted(old, doc) = {}
               /\ Changed(old, doc) = {}
               /\ HandedOver(old, doc) = {}
<1> DEFINE old == store[p].did
           doc == RescueDoc(p, f, k)
<1>1. old \in Doc
  BY DEF TypeOK, Existing, StateValue
<1>2. [controller |-> p, key |-> k] \in VM /\ [controller |-> p, key |-> k] # NoVM
  BY ConstantsAssumption DEF VM, Existing
<1>3. doc.vm = [old.vm EXCEPT ![f] = IF old.vm[f] = NoVM THEN [controller |-> p, key |-> k]
                                     ELSE old.vm[f]]
  BY DEF RescueDoc
<1>4. \A g \in Frags : g # f => doc.vm[g] = old.vm[g]
  BY <1>1, <1>3 DEF Doc
<1>5. doc.vm[f] # NoVM /\ (old.vm[f] # NoVM => doc.vm[f] = old.vm[f])
  BY <1>1, <1>2, <1>3 DEF Doc
<1>6. doc \in Doc
  BY <1>1, <1>2, <1>3 DEF RescueDoc, Doc
<1>7. QED
  BY <1>1, <1>4, <1>5, <1>6 DEF RescueDoc, Authorized, Deleted, Changed, HandedOver, Kept

(* Every signer of the rescue has an authentication method, read from the *)
(* rescue itself for p and from the store for the other controllers.      *)
LEMMA RescueSigners ==
    ASSUME TypeOK, NEW p \in Existing, NEW f \in Frags, NEW k \in Keys,
           ExpandController(store[p].did, p) \ {p} \subseteq KeyHolders,
           NEW c \in ExpandController(store[p].did, p)
    PROVE  /\ c \in Ids
           /\ RescueKeys(p, f, k, c) \in Doc
           /\ RescueFrag(p, f, k, c) \in Frags
           /\ Authorized(RescueKeys(p, f, k, c), RescueFrag(p, f, k, c))
<1>1. store[p].did \in Doc
  BY DEF TypeOK, Existing, StateValue
<1>2. c \in Ids
  BY <1>1 DEF ExpandController, Doc, Existing
<1>3. RescueKeys(p, f, k, c) \in Doc /\ \E g \in Frags : Authorized(RescueKeys(p, f, k, c), g)
  <2>1. CASE c = p
    BY <2>1, RescueShape DEF RescueKeys
  <2>2. CASE c # p
    <3>1. c \in Existing /\ HasAuthKey(store[c].did)
      BY <2>2 DEF KeyHolders
    <3>2. store[c].did \in Doc
      BY <3>1 DEF TypeOK, Existing, StateValue
    <3>3. QED
      BY <2>2, <3>1, <3>2 DEF RescueKeys, HasAuthKey, Authorized, Doc
  <2>3. QED
    BY <2>1, <2>2
<1>4. QED
  BY <1>2, <1>3 DEF RescueFrag

(* The handler accepts the rescue: its signer set is p with the rescue's  *)
(* keys and every other controller with its stored keys, and the bundle   *)
(* carries one valid signature of each.                                   *)
LEMMA RescueAccepted ==
    ASSUME TypeOK, NEW p \in Existing, NEW f \in Frags, NEW k \in Keys,
           ExpandController(store[p].did, p) \ {p} \subseteq KeyHolders
    PROVE  /\ RescueBundle(p, f, k) \in SUBSET Entry
           /\ UpdateDidResult(p, RescueDoc(p, f, k), store[p].metadata.versionId,
                              RescueBundle(p, f, k)) = "Ok"
<1> DEFINE old == store[p].did
           doc == RescueDoc(p, f, k)
           b == RescueBundle(p, f, k)
           E == ExpandController(old, p)
           sg == UpdateDidSigners(old, p, doc)
           K(c) == RescueKeys(p, f, k, c)
           G(c) == RescueFrag(p, f, k, c)
           ent(c) == [vm |-> <<c, G(c)>>, key |-> K(c).vm[G(c)].key]
<1>1. /\ doc \in Doc /\ doc.controller = old.controller
      /\ Deleted(old, doc) = {} /\ Changed(old, doc) = {} /\ HandedOver(old, doc) = {}
  BY RescueShape
<1>2. ExpandController(doc, p) = E
  BY <1>1 DEF ExpandController
<1>3. DOMAIN sg = E /\ \A c \in E : sg[c] = IF c = p THEN doc ELSE FromStore
  BY <1>1, <1>2 DEF UpdateDidSigners, AppendSignerIfNeed, GetSigners
<1>4. \A c \in E : /\ c \in Ids /\ K(c) \in Doc /\ G(c) \in Frags
                   /\ Authorized(K(c), G(c))
  BY RescueSigners
<1>5. b = {ent(c) : c \in E}
  BY DEF RescueBundle
<1>6. b \in SUBSET Entry
  BY <1>4, <1>5 DEF Entry, Authorized, Doc, VM
<1>7. ASSUME NEW c \in E
      PROVE  SignerResult(store, sg, c, b) = "Ok"
  <2>1. KeysOf(store, sg, c) = K(c) /\ (sg[c] = FromStore => store[c] # NoDoc)
    <3>1. CASE c = p
      BY <1>1, <1>3, <3>1, MarkersAssumption DEF KeysOf, RescueKeys, Existing
    <3>2. CASE c # p
      BY <1>3, <3>2 DEF KeysOf, RescueKeys, KeyHolders, Existing
    <3>3. QED
      BY <3>1, <3>2
  <2>2. {e \in b : e.vm[1] = c} = {ent(c)}
    BY <1>5
  <2>3. ent(c).vm[2] = G(c) /\ K(c).vm[G(c)].key = ent(c).key
    OBVIOUS
  <2>4. \A e \in {e \in b : e.vm[1] = c} :
            /\ Authorized(KeysOf(store, sg, c), e.vm[2])
            /\ KeysOf(store, sg, c).vm[e.vm[2]].key = e.key
    BY <1>4, <2>1, <2>2, <2>3
  <2>5. {e \in b : e.vm[1] = c} # {}
    BY <2>2
  <2>6. QED
    BY <2>1, <2>4, <2>5 DEF SignerResult
<1>8. VerifySignature(store, sg, b) = "Ok"
  BY <1>3, <1>7 DEF VerifySignature
<1>9. QED
  BY <1>6, <1>8 DEF UpdateDidResult, Existing

(* The second conjunct of NoLockout holds in every typed store: the       *)
(* rescue is its witness.                                                 *)
LEMMA RescueExists ==
    ASSUME TypeOK
    PROVE  \A p \in Existing :
              ExpandController(store[p].did, p) \ {p} \subseteq KeyHolders
                => \E doc \in Doc, b \in SUBSET Entry :
                      /\ doc.controller = store[p].did.controller
                      /\ HasAuthKey(doc)
                      /\ UpdateDidResult(p, doc, store[p].metadata.versionId, b) = "Ok"
<1> SUFFICES ASSUME NEW p \in Existing,
                    ExpandController(store[p].did, p) \ {p} \subseteq KeyHolders
             PROVE  \E doc \in Doc, b \in SUBSET Entry :
                      /\ doc.controller = store[p].did.controller
                      /\ HasAuthKey(doc)
                      /\ UpdateDidResult(p, doc, store[p].metadata.versionId, b) = "Ok"
  OBVIOUS
<1>1. PICK f \in Frags, k \in Keys : TRUE
  BY NonEmptyAssumption
<1>2. /\ RescueDoc(p, f, k) \in Doc
      /\ RescueDoc(p, f, k).controller = store[p].did.controller
      /\ HasAuthKey(RescueDoc(p, f, k))
  BY RescueShape DEF Authorized, HasAuthKey
<1>3. /\ RescueBundle(p, f, k) \in SUBSET Entry
      /\ UpdateDidResult(p, RescueDoc(p, f, k), store[p].metadata.versionId,
                         RescueBundle(p, f, k)) = "Ok"
  BY RescueAccepted
<1>4. QED
  BY <1>2, <1>3

(* No lockout, for every value of the constants: the deletion of a        *)
(* controller's last authentication method (UpdateDidVerifySignature     *)
(* demands every controller's signature) never leaves a set of stored     *)
(* documents that no accepted update can reach, and a document whose      *)
(* other controllers hold keys can always be given one.                   *)
THEOREM NoLockoutInvariant == Spec => []NoLockout
<1>1. Init => NoLockedOut
  BY DEF Init, NoLockedOut, LockedOut, Existing
<1>2. TypeOK /\ NoLockedOut => NoLockout
  BY RescueExists DEF NoLockout, NoLockedOut
<1>3. QED
  BY <1>1, <1>2, UnlockedStep, TypeCorrect, PTL DEF Spec
=============================================================================
