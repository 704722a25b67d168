# Formal models of the cheqd DID registry

TLA+ models of the `x/cheqd` module of cheqd-node. They are checked with TLC on
small instances, and TLAPS proves them for every value of the constants.

## The system

The core is a registry of DID documents that lives in a Cosmos SDK module.
The host chain delivers transactions one at a time. Each transaction runs one
handler to completion, and a handler that returns an error is reverted whole.
Nothing inside the core runs concurrently. What makes it hard is
authorization: deciding who must sign a write, and against which keys.

| Part | Source | What it does |
|---|---|---|
| Message handlers | `keeper/msg_server_did.go` `CreateDid` (16-67), `UpdateDid` (69-130) | unwrap the message, run the checks in a fixed order, write document and metadata |
| Signer resolver | `UpdateDidVerifySignature` (132-179), `AppendSignerIfNeed` (181-198) | compute the required signers of an update from the diff of old and new document |
| Signature verifier, store adapter | `Keeper.VerifySignature`, `HasDidDoc`, `GetDid`, `SetDid` (called, not in this repository) | resolve each signer's keys (message or stored document) and check the bundle |
| Document model and codec | `types/did.pb.go` | the documents `Did`, `VerificationMethod`, `Service`, and their generated protobuf codec: `Size`, `Marshal`/`MarshalToSizedBuffer`, `Unmarshal`, `skipDid` |
| DID URL validator | `utils/did_url.go` | split a DID URL with a regexp and validate each piece |
| Encoding helpers | `utils/encoding.go` | multibase validation, tx hash; stateless |
| Legacy keeper | `keeper/did.go` | an auto-incrementing record store, unrelated to the document model |
| Schema query, REST | `keeper/grpc_query_schema.go`, `client/rest/txSchema.go` | adapters forwarding to the host |

How they interact: `CreateDid` asks `GetSigners` of the message (every
controller, with self as the default) to sign, then refuses an id that is
already stored. `UpdateDid` goes through these steps in order:

1. It refuses an absent id.
2. It reads the stored document.
3. It builds the signer list: the message's signers, then every removed
   controller, then the controller of each deleted VM, the new controller of
   each changed VM and the old controller of each handed-over VM. Each of the
   last three is added through `AppendSignerIfNeed`. That function skips a
   principal that is already listed, and restricts the message's own id to the
   message's keys.
4. It verifies the signers.
5. Only then does it compare the asserted `versionId` with the stored one.
6. It writes the document and metadata, carrying over `created` and
   `deactivated`.

## Modules

* `DidRegistry.tla` covers the handlers, the resolver, and the verifier and store.
  * **State.** `store` maps each id to a document with metadata, or to `NoDoc`.
    `writes` is the number of successful writes, and it stands in for block
    time and tx hash: each write gets the fresh value `writes + 1`.
    `superseded` is a history variable: the `<<id, versionId>>` pairs an update
    replaced.
  * **Documents.** A document is abstracted to what authorization reads: its
    controller set, a VM (controller and key material) per fragment, and its
    authentication set.
  * **Signatures.** A bundle entry names a VM id `<<did, fragment>>` and the key
    it was made with. It verifies iff the resolved VM holds that key.
  * **Actions.** There is one action per handler: `CreateDid` and `UpdateDid`.
    Each action's guard is `CreateDidResult`/`UpdateDidResult = "Ok"`. Those
    operators translate the handler's checks in the code's order, and the
    properties quantify over them for every request. A failing transaction is
    a stutter, because the host reverts it.
  * **Spec-modelled actions.** `DeactivateDid` is the lifecycle step that
    spec §3 places outside the core; no code here performs it.
  * **Resolver.** `UpdateDidSigners` models `UpdateDidVerifySignature`. A
    signer list is a function from principal to key set: either the written
    document (the self-restriction) or `FromStore`. `AppendSignerIfNeed` keeps
    the first key set given to a principal.
  * **Verifier.** `VerifySignature`/`SignerResult` come from spec §4.4, because
    the code is not in this repository. For each signer, only the bundle
    entries naming that signer's DID are read. It returns DidDocNotFound,
    VerificationMethodNotFound, InvalidSignature, SignatureNotFound or Ok. The
    order in which signers are checked is abstracted with CHOOSE.
* `AbstractRegistry.tla` is what the registry promises, without the signer
  resolver or the verifier.
  * **State.** Each id maps to a document or `NoDoc`, with a version and a
    tombstone; `clock` counts writes.
  * **Actions.** A create goes to an absent id and an update to a stored one.
    Each is allowed when there is a bundle in which every governor of the
    written document consents. An update also needs every governor it drops
    to sign with the keys the registry holds for it. Every write takes the
    version `clock + 1`. Deactivation moves only the tombstone.
  * **Mapping.** `DidRegistry` maps onto it through `Abs`: the stored
    document, its `versionId`, its `deactivated` flag, and `writes` as the
    clock.
  * **What it cannot see.** The bundle is an input, not state, so the
    abstract spec cannot tell which bundle a write used. It says that the
    write is one its governors are able to sign. The stronger statement, that
    this bundle carries those signatures, is `WriteConsent`.
* `MC_DidRegistry.tla` instantiates the registry with two DIDs, one fragment and
  two keys. It declares the symmetry over keys. There is no symmetry over DIDs,
  because the CHOOSE in the verifier tells DIDs apart.
* `DidRegistryProofs.tla` holds the TLAPS proofs about the registry, and
  `DidUrlProofs.tla` those about the URL splitter.
* `DidUrl.tla` models the URL splitter and validators. The input is a sequence
  over a six-letter alphabet: `d` is a DID-and-hex character, `x` is another
  unreserved character, and the rest are `/ ? # %`. `TrySplitDIDUrl` is Go's
  leftmost-first match of the unanchored `SplitDIDURL`: the match starts at the
  leftmost position whose suffix the pattern matches. `SplitAt` is the split
  that spec §4.1 describes. `ValidateDID`'s method grammar is configuration
  and not in this repository; it is a non-empty run of `d`. The module
  enumerates every URL of up to `MaxLen` characters.
* `DidCodec.tla` models the generated protobuf codec of `did.pb.go`. Every
  transaction carries a document that the node decodes from bytes anyone can
  choose, and the node re-encodes documents to store and sign them.
  * **Data.** A string is a byte sequence and a repeated field a sequence. A
    message is a record with the Go field names. `KeyValuePair` (a JWK entry)
    is generated outside this repository and is modelled from the proto3
    format.
  * **Integers.** `uint64` is arithmetic modulo `2^Width`. `int` is its
    two's-complement reading (`Signed`, `AddInt`), and `int32` the same at
    `TagWidth` bits (`Int32`). `Width` and `TagWidth` are 64 and 32 in the
    build. The `int` arithmetic and the checks made before a length-delimited
    field is sliced out (`DelimitedField`, `did.pb.go:768-780`) are in
    `DidCodecInt.tla`. That module declares no `RECURSIVE` operator, so
    theorems can be stated about it. `DidCodec` extends it, and
    `LengthDelimited` reads the varint and then calls `DelimitedField`.
  * **Encoding.** `Size` is translated line for line. `MarshalToSizedBuffer`
    threads a buffer record `[buf, i, lim, panic]` through the writes in the
    code's order: the last field first, and within a repeated field the last
    element first (`FoldRight`). A nested message is written into
    `dAtA[:i]`, and `lim` records that slice, so any write outside it sets
    `panic`. `DidMarshal` allocates `Size()` bytes and returns `dAtA[:n]`.
  * **Decoding.** `Unmarshal(T, ...)` is the loop that every generated
    `Unmarshal` shares: read the key, reject end-group keys and field numbers
    `<= 0`, and fill the field given by the message's case table. An unknown
    field goes to `skipDid`, with its group depth. `LengthDelimited` is the
    length read with its three checks. `Slice` panics out of range, as Go
    does.
  * **Reference.** `WireDid` writes the proto3 encoding forwards, field by
    field. It is independent of `Size` and of the backwards writes.
  * **Input.** The one variable, `input`, grows by one byte per step. The
    run therefore decodes every byte string up to `MaxLen` long.
* `LegacyDid.tla` models the legacy keeper `did.go`. Its state is the bytes
  under `DidCountKey` and the records under their keys.
  * **Actions.** There is one action per writing method: `SetDidCount`,
    `AppendDid`, `SetDid` and `RemoveDid`. `GetDidCount` and `GetAllDid` are
    operators. A panic in `GetDidCount` reverts the transaction, so it is a
    guard.
  * **Count text.** The count is stored as decimal text: `FormatUint` produces
    it and `DigitsValue`/`ParseFails` parse it.
  * **Keys.** A key is the eight big-endian bytes of the id
    (`GetDidIDBytes`). The store iterates keys in byte order.
  * **No type invariant is checked.** The count key is only ever written by
    `FormatUint` of a uint64. A "count text parses" invariant would therefore
    hold whatever the keeper does.
  * **Reachability.** In this snapshot no live caller reaches `did.go`. Its
    `types.Did` fields (`Creator`, `Verkey`, `Alias`) are not those of the
    repository's `types.Did`, and `msg_server_did.go` calls methods of the
    same names with other signatures. The runs about it describe the
    keeper's own contract.
  * **Width.** The counter wraps at `2^Width`; `Width` is 64 in the code.
  * **MC instance.** `MC_LegacyDid.tla` uses `Width = 3` and 1-bit bytes, so
    the wrap-around is reachable and the ids 0..7 differ in several key bytes.

## Runs

| Run | cfg | Expect | Shows |
|---|---|---|---|
| registry | `MC_DidRegistry.cfg` | pass (3761 states, about 1 min) | `TypeOK`; `ControllersResolvable`; `WriteConsent` (every accepted create/update is signed by every principal it names or takes power from, removed controllers with their stored keys); `NoReplay` (a superseded versionId is refused for any payload); `MetadataEvolution` (`created` never changes, `deactivated` is never cleared); `NoLockout` (no set of stored keyless documents is `LockedOut`, each governed by another member or by an absent document; over finitely many ids this says every stored document reaches key holders through its controllers; and every document whose other controllers hold keys accepts an update that keeps its controllers and gives it a key) |
| refinement | `MC_DidRegistry_Refinement.cfg` | pass (3761 states, about 1.5 min) | `ImplementsAbstract`: every behaviour of the handlers is a behaviour of `AbstractRegistry` under the mapping `Abs` |
| legacy | `MC_LegacyDid.cfg` | pass (12031 states, 10 s) | `AllDidOrdered` (`GetAllDid` is ordered by id and every key decodes to its record's id) |
| codec | `MC_DidCodec.cfg` | pass (8.1M states, about 45 s) | `DecodeNoPanic` (no input makes `Did.Unmarshal` index or slice out of range, the int wrap of `postIndex` included); `MarshalRoundTrip` (every accepted document is marshalled without panic into exactly its proto3 encoding, which decodes back to it) |
| legacy_append_fresh | `MC_LegacyDid_AppendFresh.cfg` | violation | `AppendDid` overwrites a record that `SetDid` stored at the counter's id, contrary to its comment "with a new id" |
| version_gating | `MC_DidRegistry_VersionGating.cfg` | violation | a stale versionId gets a signature error, not a version conflict (spec §4.3) |
| deactivated_frozen | `MC_DidRegistry_DeactivatedFrozen.cfg` | violation | a deactivated document is updated (spec §3 forbids it) |
| stored_controller | `MC_DidRegistry_StoredControllerAuthorizes.cfg` | violation | a self-controlled document is taken over: the update swaps in a new key and is signed only with it |
| did_url_split | `MC_DidUrl_Accepts.cfg` | violation | `#d#/` is accepted because only its suffix `d#/` is split and validated |

Bounds:

* `MaxWrites = 3` allows a create followed by two updates, or two creates
  (one controller of the other) and an update. That covers controller hand-off,
  key rotation and replay of a superseded version.
* One fragment per document gives every diff case of a VM: deleted, changed,
  handed over and unchanged.
* Two keys make a rotation distinguishable from a no-op.
* The invariants quantify over every document and every bundle, so each
  reachable store is probed with every request.
* The legacy run allows nine writes on a 3-bit counter, enough for eight
  appends and the wrap-around. Its violation run adds a second verkey, so an
  overwrite differs from rewriting the same record.
* The codec run uses `Width = 10` and `TagWidth = 5`. A varint then has
  two bytes before `ErrIntOverflowDid`, and the length `0xff 0x03` (511)
  makes `iNdEx + length` wrap around `int`. The key `0x92 0x02`
  (field 34) is truncated by `int32` to field 2, `Id`. The 14 bytes are the
  keys of the three message kinds, an end-group key, the varint,
  length-delimited and start-group keys of an unknown field, small lengths
  and continuation bytes. All 8.1 million strings of up to six bytes are
  decoded. Six bytes are enough for a document holding a verification
  method with a JWK entry, a service, a skipped group, or two strings.
* Every cfg sets `CHECK_DEADLOCK FALSE`. The codec run only enumerates inputs
  and stops at `MaxLen`. The registry is passive: a chain may
  receive no further transaction, and `MaxWrites` ends every behaviour.

The mutants are listed in `PROJECT.json`. Each one changes a mapped definition
the way a plausible bug would, and the registry run's property then fails.

No fairness is assumed and no liveness is checked. The core acts only when the
host delivers a transaction, so nothing in the code forces progress.

## Proofs (TLAPS)

### The registry (`DidRegistryProofs.tla`)

* `TypeCorrect`: `Spec => []TypeOK`. It follows from `TypeStep`, which gives
  one lemma case per action.
* `ControllersResolvableInvariant`: `Spec => []ControllersResolvable`. The
  inductive invariant is `IInv == TypeOK /\ ControllersResolvable`: the
  invariant needs typing to read the stored documents. The argument:
  * `VerifyOk` and `SignerOk`: an "Ok" verdict means every signer is
    satisfied. A satisfied `FromStore` signer is stored, and a self-restricted
    signer has an authentication VM.
  * `UpdateSignersBase` and the definition of `GetSigners`: every controller
    of the written document is a signer, with the key set the two lemmas
    above need.
  * `WriteResolvable`: combines these facts.
  * `WriteKeeps`: overwriting one id with such a document keeps every other
    document resolvable, because no action removes a document.
  * Deactivation changes only metadata.
* `NoReplayInvariant`: `Spec => []NoReplay`. The inductive invariant is
  `RInv == TypeOK /\ VersionsFresh`. `VersionsFresh` says that every stored
  versionId is at most `writes`, and that every superseded pair names a stored
  document whose versionId is larger than the superseded one.
  * `NoReplay` alone is not inductive: it does not say the next versionId is
    fresh.
  * `CreateFresh`, `UpdateFresh` and `DeactivateFresh` prove one step each. A
    create touches no superseded id, because superseded ids are stored. An
    update stores `writes + 1` and supersedes a versionId that is at most
    `writes`.
  * `UpdateOk` then shows that an accepted update asserts the stored
    versionId.
* `MetadataEvolutionTheorem`: `Spec => MetadataEvolution`, an action
  property. `MetadataStepHolds` proves that every typed `Next` step is a
  `MetadataStep`. A create writes only an absent id. An update's `EXCEPT`
  keeps `created` and `deactivated`. Deactivation sets `deactivated`.
* `WriteConsentInvariant`: `Spec => []WriteConsent`.
  * `ConsentHolds` proves `WriteConsent` in every state, not only the
    reachable ones. It follows from the results of the handlers and needs no
    inductive invariant.
  * `UpdateSignersShape`: in an update's signer set, each principal is either
    read from the store or is the document itself restricted to its new keys.
    Removed controllers are read from the store, and every controller the diff
    names is included.
  * `SignerSigned`: a satisfied signer signed with the key set it was resolved
    to.
* `Refinement`: `Spec => ImplementsAbstract`, that is `Spec => Abs!Spec`.
  * `Init` maps to the abstract `Init`.
  * `RefinementStep`: every typed `Next` step maps to an abstract step or a
    stutter. There is one lemma per action: `CreateRefines`,
    `UpdateRefines` and `DeactivateRefines`.
  * The abstract consent follows from `ConsentHolds`, translated by
    `ConsentedAbs` and `StoredAbs`. The request's own bundle is the witness
    of the abstract existential.
  * `WriteAbs` shows that overwriting one id with a fresh `versionId` and the
    same tombstone is the abstract `Write`.
  * Only `TypeOK` is needed as an invariant.
* Assumptions used:
  * `ConstantsAssumption`: `MaxWrites` is a positive natural, and `NoVM` is not
    a VM.
  * `MarkersAssumption`: `FromStore` and `NoDoc` are not documents, and
    `NoDoc` is not a stored value.

* `NoLockoutInvariant`: `Spec => []NoLockout`.
  * The first conjunct, `NoLockedOut` (no set is `LockedOut`), is
    inductive together with `TypeOK`; `UnlockedStep` proves the step.
  * `WriteKeyHolders`: every controller other than itself that an accepted
    create or update names signed with its stored keys (`ConsentHolds`), so it
    is a stored document with an authentication key (`SignedKeyHolder`).
  * `WriteKeepsUnlocked`: after such a write, a locked-out set holding the
    written id would need a controller of it without a key, which the write
    excludes. A set without that id was locked out before the write, because
    no document disappears.
  * Deactivation changes neither which ids are stored nor their documents.
  * The second conjunct holds in every typed store (`RescueExists`). The
    witness is `RescueDoc`: the stored document with the same controllers,
    fragment `f` added to authentication, and a VM of the document holding
    key `k` under `f` when it declared none there. `RescueShape` shows that
    it deletes, changes and hands over no VM, so its signer set is its
    controllers. `RescueBundle` carries one valid signature per controller,
    and `RescueAccepted` shows that `UpdateDidResult` returns "Ok".
  * `NonEmptyAssumption`: some fragment and some key exist. In the code both
    are strings.
  * The earlier statement of `NoLockout` used a recursive least fixpoint,
    which the provers cannot reason about. `LockedOut` states the same thing
    without recursion when there are finitely many ids: the stored documents
    outside the fixpoint form a locked-out set.

### The URL splitter (`DidUrlProofs.tla`)

These theorems hold for URLs of every length, not only up to `MaxLen`.

* `InnerHashAgrees`: on a URL with at most one `#`, where that `#` is not the
  last character, `ValidateDIDUrl` accepts exactly the URLs whose pieces under
  the spec's split are valid.
  * `SplitAtStart`: when the whole URL matches, Go's leftmost match starts at
    its first character.
  * `InnerHashMatches`: such a URL matches as a whole.
  * `FirstOfOnly` and `FirstOfNone` evaluate `FirstOf`.
* `OneHashAcceptsSpecValid`: on a URL with at most one `#`, the code accepts
  only spec-valid URLs. The remaining case is `TrailingHashRejected`: a URL
  whose only `#` is its last character matches only at its empty suffix, so
  its DID is empty and the URL is rejected.
* So the divergence that the `did_url_split` run finds needs at least two `#`.
  `AcceptsOnlySpecValid` itself is false and stays a violation run.

### The length check of the decoder (`DidCodecProofs.tla`)

`DidCodecProofs` extends `DidCodecInt`. Its results hold for every
`Width >= 8`, not only for the widths TLC enumerates.

* `PowerAssumption` states that `2^(Width - 1)` is a positive natural and
  that `2^Width` is twice it. This is true for every natural `Width >= 1`.
  It is stated as an assumption because the provers know no facts about `^`
  with a variable exponent. TLC evaluates it on the `codec` run.
* Lemmas:
  * `SignedRange`: `int(x)` of a `uint64` below `2^(Width - 1)` is `x`
    itself, and from there on it is negative.
  * `AddIntRange`: a sum of two naturals that fits in `uint64` is itself
    below the top of `int`, and negative from there on.
* `DelimitedFieldSafe`: take an input shorter than the top of `int` (a Go
  slice's length is an `int`), any `uint64` length, and any index inside the
  input. Then the checks on `intStringLen` and `postIndex` never let
  `dAtA[iNdEx:postIndex]` panic. A field they accept is exactly the bytes
  from the index to `postIndex`.
  * The proof splits three times:
    1. on the sign of `int(stringLen)`;
    2. on whether `iNdEx + intStringLen` reaches the top of `int`, where
       `AddIntRange` makes it negative;
    3. on `postIndex > l`.
* `WrappedLengthRejected` shows that the `postIndex < 0` check is needed.
  For a length below the top of `int` whose sum with the index reaches it:
  * `postIndex` wraps to a negative number;
  * the code returns `ErrInvalidLengthDid`;
  * the slice it would otherwise take panics.
* A note on proof layout: the provers do not project the `val` field of a
  record whose value is a `SubSeq` over a wrapped sum. The proof names that
  slice with a hidden local definition instead.

### What is model-checked only

Every property of the registry and refinement runs is proved. The following
stay with TLC:

* **`LegacyDid`.** `AllDidOrdered` rests on what `FormatUint` and
  `ParseUint` compute (`Dec` and `DigitsValue`), on the round trip of the
  big-endian key encoding, and on the order of `KeysInOrder`. `Dec` and
  `DigitsValue` are recursive functions over the naturals. A proof needs their
  defining equations, and those come from the library's induction theorems,
  which take an operator parameter. The installed provers cannot instantiate
  such a parameter.
* **`DidCodec`.** `DecodeNoPanic` and `MarshalRoundTrip` are about the
  `RECURSIVE` decoder, `skipDid` and varint operators. A module that reaches a
  `RECURSIVE` operator can hold no theorem. The numeric core of
  `DecodeNoPanic`, the length check of every length-delimited field, is
  proved for every width by `DelimitedFieldSafe`. What stays with TLC:
  * that the varint reader leaves the index inside the input;
  * that `skipDid` and the field dispatch never index past the end.
* **The violation runs.** Their properties are false by design.
* **Liveness and `ENABLED`.** None is checked, because no fairness is
  assumed.

## Not modelled

* The codec's getters, `Reset`/`String`/`Descriptor` and the gogo type
  registration: accessors and reflection with no state. `sozDid` is never
  called, because no field is zig-zag encoded.
* `encoding.go`: stateless library wrappers; key decoding is abstracted to key
  equality.
* The schema query and REST adapters: out of the spec's scope, with no state of
  their own.
* `reflect.DeepEqual`'s distinction between a nil and an empty `PublicKeyJwk`
  (`msg_server_did.go:164`) cannot arise here. The stored document and the
  message's document both come from the generated `Unmarshal`. `DidCodec`
  shows that this decoder only ever appends to a repeated field, so an
  absent field is always nil. The VM abstraction of `DidRegistry` therefore
  loses nothing by comparing controller and key.

## Plan

1. **Done:** the registry (handlers, resolver, spec-modelled verifier and
   store), the registry run, four violation runs, mutants, and proofs of
   typing and resolvability.
2. **Done:** proofs of `NoReplay`, `MetadataEvolution` and `WriteConsent`.
3. **Done:** `NoLockout`, about a controller deleting its last
   authentication VM.
4. **Done:** `LegacyDid.tla` for `did.go`.
5. **Done:** `AbstractRegistry.tla`, the refinement run and the `Refinement`
   proof.
6. **Next:** a regexp-matcher model of `SplitDIDURL`, checked against
   `SuffixMatches`/`SplitAt` as its reference.
7. **Done:** `DidCodec.tla`, the generated protobuf codec, with the `codec`
   run.
8. **Done:** `NoLockout` restated without recursion, and proved.
9. **Done:** the `DidUrl` theorems that bound the splitter divergence to URLs
   with several `#`.
10. **Done:** the decoder's length checks moved to `DidCodecInt.tla`, with
    the `DelimitedFieldSafe` and `WrappedLengthRejected` proofs.
11. **Next:** a non-recursive statement of the legacy key encoding round trip
    (`binary.BigEndian` is eight explicit shifts in the code) and its proof.
