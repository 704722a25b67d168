---------------------------- MODULE DidRegistry ----------------------------
(***************************************************************************)
(* The DID Document registry of the cheqd module: the CreateDid and        *)
(* UpdateDid message handlers of x/cheqd/keeper/msg_server_did.go, the     *)
(* signer-requirement resolver (UpdateDidVerifySignature,                  *)
(* AppendSignerIfNeed) and the signature verifier and store they call.     *)
(*                                                                         *)
(* A transaction is one atomic step: the host runtime delivers it, the     *)
(* handler runs to completion, and a handler that returns an error leaves  *)
(* the store as it was (the host reverts the transaction).  A failed       *)
(* transaction is therefore a stuttering step and is not an action here;   *)
(* the outcome of every request is the operator CreateDidResult or         *)
(* UpdateDidResult, which the properties quantify over.                    *)
(*                                                                         *)
(* Data is abstracted to what authorization tells apart: a verification    *)
(* method (VM) is its controller and its key material; the id of a VM of   *)
(* document d is the pair <<d, fragment>>; the purpose sets other than     *)
(* authentication, services, context and alsoKnownAs play no role in any   *)
(* check and are left out.  A signature of the bundle is an entry          *)
(* [vm |-> VM id it names, key |-> key it was made with]: it verifies iff  *)
(* the resolved VM of that id holds that key.                              *)
(***************************************************************************)
EXTENDS Naturals, FiniteSets

CONSTANTS
    Ids,        \* the DIDs (document identifiers)
    Frags,      \* the fragments a document may use for its VM ids
    Keys,       \* key material (public/private key pairs)
    NoDoc,      \* the store holds nothing under an id
    NoVM,       \* a document declares no VM under a fragment
    FromStore,  \* a signer whose keys are read from its stored document
    MaxWrites   \* bound on the number of successful writes

ASSUME ConstantsAssumption ==
    /\ MaxWrites \in Nat \ {0}
    /\ NoVM \notin [controller : Ids, key : Keys]

(* A verification method: its controller and its key material (type and  *)
(* public key; two VMs are DeepEqual iff these agree).                    *)
VM == [controller : Ids, key : Keys]

(* A DID document, as far as authorization reads it: the controller list  *)
(* (as a set), the VMs by fragment, the authentication references.        *)
Doc == [controller : SUBSET Ids, vm : [Frags -> VM \cup {NoVM}], auth : SUBSET Frags]

(* Metadata: the times stand for the block time of the writing            *)
(* transaction, versionId for the hash of its bytes.                      *)
Meta == [created : 1..MaxWrites, updated : 1..MaxWrites,
         versionId : 1..MaxWrites, deactivated : BOOLEAN]

(* What the store keeps under an id: the document and its metadata.       *)
StateValue == [did : Doc, metadata : Meta]

(* A document can name a fragment and hold a key: in the code both are    *)
(* strings, of which there are always more.                               *)
ASSUME NonEmptyAssumption == Frags # {} /\ Keys # {}

(* The marker values differ from the values they stand beside.           *)
ASSUME MarkersAssumption ==
    /\ FromStore \notin Doc
    /\ NoDoc \notin Doc
    /\ NoDoc \notin StateValue

(* One signature of the request's signature bundle.                       *)
Entry == [vm : Ids \X Frags, key : Keys]

(* The versionIds a request may assert (0: one no write ever produced).   *)
Versions == 0..MaxWrites

VARIABLES
    store,       \* [Ids -> StateValue \cup {NoDoc}], the KV store of the module
    writes,      \* successful writes so far: the source of fresh tx hashes
    superseded   \* history: the <<id, versionId>> pairs an update replaced

vars == <<store, writes, superseded>>

-----------------------------------------------------------------------------
(* The controller list with its default: empty means the document itself. *)
ExpandController(doc, id) == IF doc.controller = {} THEN {id} ELSE doc.controller

(* A required signer is a principal together with its key set: the        *)
(* document being written (its own VMs and authentication) or FromStore.  *)
(* A signer set maps each principal to its key set.                       *)
(* GetSigners of MsgCreateDid / MsgUpdateDid: every controller of the     *)
(* message after default expansion; the message's own id is restricted   *)
(* to the message's keys.                                                 *)
GetSigners(id, doc) ==
    [c \in ExpandController(doc, id) |-> IF c = id THEN doc ELSE FromStore]

(* AppendSignerIfNeed for every principal of cs, in any order: a          *)
(* principal already required keeps its key set; a new one is restricted  *)
(* to the message's keys when it is the message's id.                     *)
AppendSignerIfNeed(signers, cs, id, doc) ==
    [c \in DOMAIN signers \cup cs |->
        IF c \in DOMAIN signers THEN signers[c]
        ELSE IF c = id THEN doc ELSE FromStore]

(* The fragments whose VM the update deletes, changes, or hands over.     *)
Deleted(old, new) == {f \in Frags : old.vm[f] # NoVM /\ new.vm[f] = NoVM}
Kept(old, new) == {f \in Frags : old.vm[f] # NoVM /\ new.vm[f] # NoVM}
Changed(old, new) == {f \in Kept(old, new) : old.vm[f] # new.vm[f]}
HandedOver(old, new) ==
    {f \in Kept(old, new) : old.vm[f].controller # new.vm[f].controller}

(* Mutant: removed controllers added through AppendSignerIfNeed, so the  *)
(* document removing itself as controller signs with its new keys.        *)
UpdateDidSignersSelfRestricted(old, id, new) ==
    AppendSignerIfNeed(GetSigners(id, new),
        (ExpandController(old, id) \ ExpandController(new, id))
        \cup {old.vm[f].controller : f \in Deleted(old, new)}
        \cup {new.vm[f].controller : f \in Changed(old, new)}
        \cup {old.vm[f].controller : f \in HandedOver(old, new)}, id, new)

(* UpdateDidVerifySignature's signer set: the message's signers, each     *)
(* removed controller (read from the store), then the controller of every *)
(* deleted VM, the new controller of every changed VM and the old         *)
(* controller of every handed-over VM.                                    *)
UpdateDidSigners(old, id, new) ==
    LET removed == ExpandController(old, id) \ ExpandController(new, id)
        base == [c \in DOMAIN GetSigners(id, new) \cup removed |->
                    IF c \in DOMAIN GetSigners(id, new)
                    THEN GetSigners(id, new)[c] ELSE FromStore]
        vmSigners == {old.vm[f].controller : f \in Deleted(old, new)}
                     \cup {new.vm[f].controller : f \in Changed(old, new)}
                     \cup {old.vm[f].controller : f \in HandedOver(old, new)}
    IN  AppendSignerIfNeed(base, vmSigners, id, new)

-----------------------------------------------------------------------------
(* The signature verifier.  The keys of signer s: its restriction, or the *)
(* document the store holds under s.                                      *)
KeysOf(st, signers, s) ==
    IF signers[s] = FromStore THEN st[s].did ELSE signers[s]

(* A VM id of s is usable for s when it is an authentication method of    *)
(* s's keys and s's keys declare it.                                      *)
Authorized(keys, f) == f \in keys.auth /\ keys.vm[f] # NoVM

(* The outcome for one signer: only the bundle's entries naming a VM of   *)
(* s are read; each must be usable and must verify, and one must exist.   *)
SignerResult(st, signers, s, bundle) ==
    LET rel == {e \in bundle : e.vm[1] = s}
    IN  IF signers[s] = FromStore /\ st[s] = NoDoc THEN "DidDocNotFound"
        ELSE IF \E e \in rel : ~Authorized(KeysOf(st, signers, s), e.vm[2])
             THEN "VerificationMethodNotFound"
        ELSE IF \E e \in rel : KeysOf(st, signers, s).vm[e.vm[2]].key # e.key
             THEN "InvalidSignature"
        ELSE IF rel = {} THEN "SignatureNotFound"
        ELSE "Ok"

(* VerifySignature: every signer must be satisfied; the first failure is  *)
(* the result (the signer order is abstracted by CHOOSE).                 *)
VerifySignature(st, signers, bundle) ==
    IF \A s \in DOMAIN signers : SignerResult(st, signers, s, bundle) = "Ok"
    THEN "Ok"
    ELSE SignerResult(st, signers,
                      CHOOSE s \in DOMAIN signers :
                          SignerResult(st, signers, s, bundle) # "Ok",
                      bundle)

-----------------------------------------------------------------------------
(* Mutant: the HasDidDoc check is missing.                               *)
CreateDidResultNoExistsCheck(id, doc, bundle) ==
    VerifySignature(store, GetSigners(id, doc), bundle)

(* CreateDid: verify the message's signers, then refuse an existing id.   *)
CreateDidResult(id, doc, bundle) ==
    LET v == VerifySignature(store, GetSigners(id, doc), bundle)
    IN  IF v # "Ok" THEN v
        ELSE IF store[id] # NoDoc THEN "DidDocExists"
        ELSE "Ok"

(* Mutant: the signer set computed from the stored document on both      *)
(* sides of the diff instead of the stored and the new one.               *)
UpdateDidResultOldSigners(id, doc, version, bundle) ==
    IF store[id] = NoDoc THEN "KeyNotFound"
    ELSE LET v == VerifySignature(store,
                      UpdateDidSigners(store[id].did, id, store[id].did), bundle)
         IN  IF v # "Ok" THEN v
             ELSE IF store[id].metadata.versionId # version THEN "UnexpectedDidVersion"
             ELSE "Ok"

(* UpdateDid: the document must exist; verify the diff's signers; only    *)
(* then compare the asserted versionId with the stored one.               *)
UpdateDidResult(id, doc, version, bundle) ==
    IF store[id] = NoDoc THEN "KeyNotFound"
    ELSE LET v == VerifySignature(store,
                      UpdateDidSigners(store[id].did, id, doc), bundle)
         IN  IF v # "Ok" THEN v
             ELSE IF store[id].metadata.versionId # version THEN "UnexpectedDidVersion"
             ELSE "Ok"

(* Mutant: the metadata takes the counter before this write (off by one). *)
CreateDidStaleVersion(id, doc, bundle) ==
    /\ writes < MaxWrites
    /\ CreateDidResult(id, doc, bundle) = "Ok"
    /\ store' = [store EXCEPT ![id] =
                    [did |-> doc,
                     metadata |-> [created |-> writes, updated |-> writes,
                                   versionId |-> writes, deactivated |-> FALSE]]]
    /\ writes' = writes + 1
    /\ UNCHANGED superseded

(* A successful CreateDid stores the document with fresh metadata.        *)
CreateDid(id, doc, bundle) ==
    /\ writes < MaxWrites
    /\ CreateDidResult(id, doc, bundle) = "Ok"
    /\ store' = [store EXCEPT ![id] =
                    [did |-> doc,
                     metadata |-> [created |-> writes + 1, updated |-> writes + 1,
                                   versionId |-> writes + 1, deactivated |-> FALSE]]]
    /\ writes' = writes + 1
    /\ UNCHANGED superseded

(* Mutant: the update keeps the old versionId.                           *)
UpdateDidKeepVersion(id, doc, version, bundle) ==
    /\ writes < MaxWrites
    /\ UpdateDidResult(id, doc, version, bundle) = "Ok"
    /\ store' = [store EXCEPT ![id] =
                    [did |-> doc,
                     metadata |-> [store[id].metadata EXCEPT !.updated = writes + 1]]]
    /\ writes' = writes + 1
    /\ superseded' = superseded \cup {<<id, store[id].metadata.versionId>>}

(* A successful UpdateDid keeps created and deactivated, refreshes        *)
(* updated and versionId.                                                 *)
UpdateDid(id, doc, version, bundle) ==
    /\ writes < MaxWrites
    /\ UpdateDidResult(id, doc, version, bundle) = "Ok"
    /\ store' = [store EXCEPT ![id] =
                    [did |-> doc,
                     metadata |-> [store[id].metadata EXCEPT
                                   !.updated = writes + 1, !.versionId = writes + 1]]]
    /\ writes' = writes + 1
    /\ superseded' = superseded \cup {<<id, store[id].metadata.versionId>>}

(* Deactivation flips the tombstone of an existing document.  No handler  *)
(* of this repository does it: it stands for the lifecycle transition the *)
(* spec places outside the core.                                          *)
DeactivateDid(id) ==
    /\ store[id] # NoDoc
    /\ ~store[id].metadata.deactivated
    /\ store' = [store EXCEPT ![id].metadata.deactivated = TRUE]
    /\ UNCHANGED <<writes, superseded>>

Init ==
    /\ store = [d \in Ids |-> NoDoc]
    /\ writes = 0
    /\ superseded = {}

Next ==
    \/ \E id \in Ids, doc \in Doc, b \in SUBSET Entry : CreateDid(id, doc, b)
    \/ \E id \in Ids, doc \in Doc, v \in Versions, b \in SUBSET Entry :
          UpdateDid(id, doc, v, b)
    \/ \E id \in Ids : DeactivateDid(id)

Spec == Init /\ [][Next]_vars

-----------------------------------------------------------------------------
(***************************************************************************)
(* Properties.                                                             *)
(***************************************************************************)
Existing == {d \in Ids : store[d] # NoDoc}

(* Type invariant.                                                        *)
TypeOK ==
    /\ store \in [Ids -> StateValue \cup {NoDoc}]
    /\ writes \in 0..MaxWrites
    /\ superseded \subseteq Ids \X (1..MaxWrites)

(* Doc has an authentication method that it declares.                     *)
HasAuthKey(doc) == \E f \in doc.auth : doc.vm[f] # NoVM

(* Every controller of a stored document can be resolved by the verifier: *)
(* an external controller is a stored document, and a document that       *)
(* controls itself declares an authentication key.  This rests on the     *)
(* verifier reading external controllers from the store at write time,    *)
(* on self-signing against the written document's own keys, and on no    *)
(* handler ever removing a document.                                      *)
ControllersResolvable ==
    \A d \in Existing : \A c \in ExpandController(store[d].did, d) :
        IF c = d THEN HasAuthKey(store[d].did) ELSE store[c] # NoDoc

(* bundle holds a verifying signature of principal p under keys.          *)
SignedUnder(bundle, p, keys) ==
    \E e \in bundle : /\ e.vm[1] = p
                      /\ Authorized(keys, e.vm[2])
                      /\ keys.vm[e.vm[2]].key = e.key

(* p signed with the keys of its stored document.                         *)
SignedStored(bundle, p) == store[p] # NoDoc /\ SignedUnder(bundle, p, store[p].did)

(* p consented to a write of document id with keys doc: an external       *)
(* principal with its stored keys, the document itself with the keys it   *)
(* is written with or the keys it had.                                    *)
Consented(bundle, p, id, doc) ==
    IF p = id THEN SignedUnder(bundle, id, doc) \/ SignedStored(bundle, id)
    ELSE SignedStored(bundle, p)

(* Spec section 8: whoever a write names or takes power from consents.    *)
(* A successful create is signed by every controller; a successful update *)
(* is signed by every controller of the new document, by every removed    *)
(* controller with the keys the store holds for it (so a document that    *)
(* drops itself as controller must sign with its old keys), by the        *)
(* controller of every deleted VM, by the new controller of every changed *)
(* VM, and by both sides of every VM hand-over.  Checked for every        *)
(* request from every reachable store.                                    *)
CreateConsent(id, doc, b) ==
    \A c \in ExpandController(doc, id) : Consented(b, c, id, doc)

UpdateConsent(id, old, new, b) ==
    /\ \A c \in ExpandController(new, id) : Consented(b, c, id, new)
    /\ \A c \in ExpandController(old, id) \ ExpandController(new, id) :
           SignedStored(b, c)
    /\ \A f \in Deleted(old, new) \cup HandedOver(old, new) :
           Consented(b, old.vm[f].controller, id, new)
    /\ \A f \in Changed(old, new) : Consented(b, new.vm[f].controller, id, new)

WriteConsent ==
    /\ \A id \in Ids \ Existing, doc \in Doc, b \in SUBSET Entry :
           CreateDidResult(id, doc, b) = "Ok" => CreateConsent(id, doc, b)
    /\ \A id \in Existing, doc \in Doc, b \in SUBSET Entry :
           UpdateDidResult(id, doc, store[id].metadata.versionId, b) = "Ok"
               => UpdateConsent(id, store[id].did, doc, b)

(* No replay: an update payload asserting a versionId that an earlier     *)
(* update of the same document replaced is refused, whatever it carries;  *)
(* this rests on UpdateDid giving each write a fresh versionId.           *)
NoReplay ==
    \A p \in superseded : \A doc \in Doc, b \in SUBSET Entry :
        UpdateDidResult(p[1], doc, p[2], b) # "Ok"

(* Metadata of a stored document evolves as the spec says: created never  *)
(* changes (an existing id is never created again) and the deactivated    *)
(* tombstone is never cleared.                                            *)
MetadataStep ==
    \A d \in Existing :
        /\ store'[d].metadata.created = store[d].metadata.created
        /\ store[d].metadata.deactivated => store'[d].metadata.deactivated

MetadataEvolution == [][MetadataStep]_store

(* Spec section 4.3: a stale versionId is refused with a version conflict *)
(* before any signer is computed, whatever the request carries.           *)
VersionGating ==
    \A id \in Existing : \A v \in Versions \ {store[id].metadata.versionId} :
        \A doc \in Doc, b \in SUBSET Entry :
            UpdateDidResult(id, doc, v, b) = "UnexpectedDidVersion"

(* Spec section 3: a deactivated document is never mutated again.         *)
DeactivatedFrozen ==
    [][\A d \in Existing : store[d].metadata.deactivated => store'[d] = store[d]]_store

(* Spec sections 1 and 3: the controllers of a document are the ones      *)
(* authorized to govern it, so an update succeeds only when some          *)
(* controller of the stored document signed it with a key the store       *)
(* holds for that controller.                                             *)
StoredControllerAuthorizes ==
    \A id \in Existing, doc \in Doc, b \in SUBSET Entry :
        UpdateDidResult(id, doc, store[id].metadata.versionId, b) = "Ok"
            => \E c \in ExpandController(store[id].did, id) : SignedStored(b, c)

(* The stored documents that hold an authentication key.                 *)
KeyHolders == {p \in Existing : HasAuthKey(store[p].did)}

(* T is locked out: a nonempty set of stored documents without an         *)
(* authentication key, each with a controller other than itself that is   *)
(* in T or not stored.  No document of T can sign, so no rewrite of one   *)
(* is ever accepted: its external controllers can never sign either.      *)
LockedOut(T) ==
    /\ T # {}
    /\ T \subseteq Existing
    /\ \A p \in T :
          /\ ~HasAuthKey(store[p].did)
          /\ \E c \in ExpandController(store[p].did, p) \ {p} : c \in T \/ c \notin Existing

(* No lockout (UpdateDidVerifySignature demands every controller's        *)
(* signature): a controller that deletes its last authentication method   *)
(* never locks documents for good.  No set of stored documents is locked  *)
(* out.  Over finitely many ids this says that every stored document      *)
(* reaches, through controllers without keys, controllers that hold       *)
(* keys.  And each rescue step is an update the handler accepts: a        *)
(* document whose other controllers hold keys accepts a rewrite that      *)
(* keeps its controllers and gives it an authentication key.              *)
NoLockout ==
    /\ \A T \in SUBSET Ids : ~LockedOut(T)
    /\ \A p \in Existing :
          ExpandController(store[p].did, p) \ {p} \subseteq KeyHolders
            => \E doc \in Doc, b \in SUBSET Entry :
                  /\ doc.controller = store[p].did.controller
                  /\ HasAuthKey(doc)
                  /\ UpdateDidResult(p, doc, store[p].metadata.versionId, b) = "Ok"

-----------------------------------------------------------------------------
(* The refinement mapping: the abstract registry sees each stored         *)
(* document, its versionId and its tombstone, and the write count.        *)
Abs == INSTANCE AbstractRegistry WITH
    docs <- [d \in Ids |-> IF store[d] = NoDoc THEN NoDoc ELSE store[d].did],
    version <- [d \in Ids |-> IF store[d] = NoDoc THEN 0 ELSE store[d].metadata.versionId],
    deactivated <- [d \in Ids |-> store[d] # NoDoc /\ store[d].metadata.deactivated],
    clock <- writes

(* The handlers implement the abstract registry: every accepted create or *)
(* update writes one document with the consent of all its governors and   *)
(* of every governor an update drops, under a fresh version.              *)
ImplementsAbstract == Abs!Spec

=============================================================================
