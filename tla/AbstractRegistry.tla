-------------------------- MODULE AbstractRegistry --------------------------
(***************************************************************************)
(* What the DID registry promises, without the signer resolver: a write    *)
(* changes one document; a create goes to an absent id and an update to a *)
(* stored one; each is consented to by every governor of the written       *)
(* document, and an update also by every governor it drops, with the keys  *)
(* the registry holds for it; every write takes a version newer than all   *)
(* before it; deactivation only sets the tombstone.                        *)
(***************************************************************************)
EXTENDS Naturals

CONSTANTS Ids, Frags, Keys, NoDoc, NoVM, MaxWrites

VM == [controller : Ids, key : Keys]
Doc == [controller : SUBSET Ids, vm : [Frags -> VM \cup {NoVM}], auth : SUBSET Frags]
Entry == [vm : Ids \X Frags, key : Keys]

VARIABLES
    docs,         \* [Ids -> Doc \cup {NoDoc}]
    version,      \* [Ids -> Nat], 0 for an absent document
    deactivated,  \* [Ids -> BOOLEAN]
    clock         \* writes so far

vars == <<docs, version, deactivated, clock>>

(* The principals that govern doc: its controllers, or itself.            *)
Governors(doc, id) == IF doc.controller = {} THEN {id} ELSE doc.controller

(* bundle holds a signature of p made with an authentication key of keys. *)
Signs(bundle, p, keys) ==
    \E e \in bundle : /\ e.vm[1] = p
                      /\ e.vm[2] \in keys.auth
                      /\ keys.vm[e.vm[2]] # NoVM
                      /\ keys.vm[e.vm[2]].key = e.key

(* p consents to writing doc under id: with the keys the registry holds   *)
(* for p, or, for the document itself, with the keys being written.       *)
Consents(bundle, p, id, doc) ==
    \/ p = id /\ Signs(bundle, id, doc)
    \/ docs[p] # NoDoc /\ Signs(bundle, p, docs[p])

Init ==
    /\ docs = [d \in Ids |-> NoDoc]
    /\ version = [d \in Ids |-> 0]
    /\ deactivated = [d \in Ids |-> FALSE]
    /\ clock = 0

Write(id, doc) ==
    /\ clock < MaxWrites
    /\ docs' = [docs EXCEPT ![id] = doc]
    /\ version' = [version EXCEPT ![id] = clock + 1]
    /\ clock' = clock + 1
    /\ UNCHANGED deactivated

Create(id, doc) ==
    /\ docs[id] = NoDoc
    /\ \E b \in SUBSET Entry : \A c \in Governors(doc, id) : Consents(b, c, id, doc)
    /\ Write(id, doc)

Update(id, doc) ==
    /\ docs[id] # NoDoc
    /\ \E b \in SUBSET Entry :
           /\ \A c \in Governors(doc, id) : Consents(b, c, id, doc)
           /\ \A c \in Governors(docs[id], id) \ Governors(doc, id) :
                  docs[c] # NoDoc /\ Signs(b, c, docs[c])
    /\ Write(id, doc)

Deactivate(id) ==
    /\ docs[id] # NoDoc
    /\ ~deactivated[id]
    /\ deactivated' = [deactivated EXCEPT ![id] = TRUE]
    /\ UNCHANGED <<docs, version, clock>>

Next ==
    \/ \E id \in Ids, doc \in Doc : Create(id, doc) \/ Update(id, doc)
    \/ \E id \in Ids : Deactivate(id)

Spec == Init /\ [][Next]_vars
=============================================================================
