# A verification project for open-gpki-pkcs11

The crate (`src/src/`, 6260 lines of Rust) is a PKCS#11 module and a Rust API
for two generations of government smart cards.  A Gen1 card takes plain APDUs;
a Gen2 card takes its PIN and its private-key commands through an SCP03 secure
channel.  This directory holds TLA+ modules of its stateful parts, TLC
configurations that check them on small instances, and proofs checked by TLAPS.

    tlc -workers 2 -config two_cards.cfg MCCryptoki   # a run
    tlapm CryptokiProofs.tla                          # proofs; likewise the other *Proofs modules

Paths below are relative to `src/src/`.

## 1. Inventory

| Component | State | Operations | Interacts with |
|---|---|---|---|
| Cryptoki core, `pkcs11/module.rs` | `GLOBAL`: `initialized`, `slots` (PC/SC handle, bound token), `sessions` (login flag, one record per kind of operation) | the `C_*` functions, `ensure_card` | APDU layer, PKCS#15 |
| Session operations, `pkcs11/module.rs` | buffers, kept results, search list of a session | `C_Encrypt*`, `C_Decrypt*`, `C_Sign*`, `C_Verify*`, `C_Digest*`, `C_FindObjects*` | core, card through the APDU layer |
| Attributes of objects, `pkcs11/module.rs` | none; lengths and buffers are the caller's template | `C_GetAttributeValue`, `set_attr`, `attr_match` | search, the caller |
| APDU layer, `apdu/mod.rs` | thread-local `PROFILE`, `CLA`, `CLA_LOCKED` | `detect_and_select`, dispatch of VERIFY and private operations, `read_binary*`, `read_ef`, `clear_auth_state` | Gen1, Gen2, transport |
| Gen1, `apdu/gen1.rs` | none; the security status is the card's | `select_key_ef`, `verify_pin`, `rsa_private` | transport |
| Gen2, `apdu/gen2.rs` | thread-local `SCP`, `CACHED_PIN`, `STATIC_KEYS` | `diverse_static_keys`, `open_scp03`, `transmit_sm`, `verify_pin`, `prepare_for_private_op`, `rsa_private` | transport |
| PKCS#15, `p15.rs` | `Token` | `bind`, `read_directory_file`, the parsers, `link_key_material` | APDU layer, DER |
| DER, `der.rs` | none | `next` | |
| Transport, `pcsc.rs` | the PC/SC handle | `connect`, `disconnect`, `transmit` with its 6Cxx and 61xx loops | the card |
| Rust API, `api/mod.rs` | `CARD_LOCK` | `list_tokens`, `list_certificates`, `sign`, `decrypt` | all of the above, beside the core |
| Block formats, `pkcs11/module.rs`, `api/pad.rs`, `apdu/gen*.rs` | none | PKCS#1 v1.5, OAEP, `DigestInfo`, the width of RSA results | core, Rust API |
| FFI types, `lib.rs`, build files | none | | |

What is hard in it:

- **State in three places.**  Slots and sessions are process-wide, the card
  profile and the Gen2 credentials are per thread, the security status and the
  retry counter are the card's.  A call locks only the first.  Nothing ties a
  session to the thread that logged it in, or a thread's profile to the slot a
  call is about.
- **Cached credentials.**  Every Gen2 private operation re-opens the channel and
  presents the cached PIN again.  A PIN for the wrong card, or a wrong PIN, would
  cost tries nobody typed.
- **Exchanges that break off.**  An APDU may not arrive, or its answer may not
  come back after the card has acted.  The MAC chain and counter of the channel
  advance before the command is sent.  A 6Cxx answer makes the transport resend
  the command with its last byte replaced.
- **A shared card.**  Handles are opened in shared mode without a transaction,
  so other threads (the Rust API has a mutex of its own) and processes may come
  between any two exchanges.
- **Two-call conventions.**  A probe for the length, a try with a buffer that is
  too small, a retry: the result is kept, the operation stays active or is over,
  by rules that differ between the functions.
- **Indices and handles.**  Sessions refer to slots by index; handles are reused.
- **Two mutexes.**  The Rust API takes `CARD_LOCK` and the module `GLOBAL`, and
  every API call drops its PC/SC handle, which resets the card under the other.
- **Reads of unknown length.**  The end of a file is inferred from what comes
  back, and a failure may look like the end.
- **Formats written twice.**  Blocks are built in one place and checked in
  another, of lengths where one more or less byte decides.

What makes each component correct: no session refers to a slot that is gone; a
PIN reaches only the card it was typed for, and a try is lost only by typing; a
session is logged in only after its own card accepted a PIN, and uses a key only
of the card that accepted it; a result handed out is that of the current operation, and
one operation computes once; a signature covers exactly the parts given; a
search delivers each object once, and private ones only to sessions that may see
them; the channel never uses a counter twice, never returns a result that mixes
calls, and recovers from anything that happened before; a read returns all
it should or fails; the objects of a token are those of the card in the reader,
each with its own handle and key, whatever could not be read; an API call uses
the PIN it was given and leaves no credentials behind; what was padded is
unpadded to the same message and nothing else is; every attribute of an object is
answered, in a buffer of the announced length, and what was read finds the object.

`PROJECT.json` lists the hazards line by line with the properties for each.

## 2. Plan

The order is by importance: what happens to PINs and keys first.

| Stage | Modules | Theorems |
|---|---|---|
| 1 (done) | `Cryptoki` with `PinCustody`; `Crypt`; `Messages` with `Stream`; `Objects`; `Scp03`; `FileReads` | type correctness and six safety properties of the core; the core implements `PinCustody` |
| 2 (done) | `RustApi`, composed with `Cryptoki` on the same threads and cards; `KeyUse` over both; `Gen1` by the exchange; `Binding`; `Transport`, `Records` with `Der`; `Padding`; `Attributes` | `Binding`: handles are positions, objects are the card's; `Crypt`: nothing is kept between operations, results are of the first call, announced lengths suffice; `Objects`: delivery in order, visibility; `Scp03`: fresh counters, results of the call, recovery, bounded operations; `Attributes`: complete answers, announced sizes, filled templates find |
| 3 (done) | proofs only | the core: logins, plaintexts, and with the API which login a key is used under; `Messages`: each operation implements `Stream`; `Gen1`: results of the call, undisturbed operations succeed; `FileReads` and `Transport`: reads are complete, responses whole; `Binding`: an undisturbed bind is complete; `RustApi` with the core: typed PINs, tries, what calls leave behind, signing survives |
| 4 (done) | proofs only; MGF1 in closed form and the bytes of files and messages as assumptions | `Padding`: padded messages come back, nothing else is unpadded, signatures agree; `Records` with `Der`: all records are read |

`RustApi` extends `Cryptoki`, and `KeyUse` extends `RustApi`; `Padding` and `Records` extend `Der`.  `MCFileReads`,
`MCCrypt` and `MCObjects` put modules that share no state into one instance, each behaviour
following one of them.  Modules to be proved about recurse in functions, not in
operators, take their parameters as constants with named assumptions, and have one action
per operation.

## 3. Modules

### Cryptoki

One action per `C_*` call, because a call runs under `GLOBAL` from beginning to
end, APDU exchanges included; the calling thread is a parameter.  A call refused
before it changes anything is a stuttering step.

| Variable | Code |
|---|---|
| `initialized` | `State.initialized` |
| `slot[r]` | `State.slots`: `listed` from `C_Initialize` to `C_Finalize`; `card`, the card the handle was opened on; `live`, until that card is removed; `bound`, `Token.bound` |
| `sessions[h]` | `State.sessions`: login flag, whether a signature or decryption is active, whether a plaintext is kept |
| `tls[t]` | the thread-locals: `profile` and `claLocked` (`apdu/mod.rs`), `pin`, `keys`, `scp` (`apdu/gen2.rs`); of keys and channel what matters is whose they are; `pinOf`, the card that accepted the cached PIN, is history: no step reads it |
| `inserted`, `card` | the world: which card is in which reader; its PIN, its tries, its Gen1 security status |

`EnsureCard`, `VerifyPin` and `RsaPrivate` return what the code's functions of
that name leave in the slot, the thread and the card.  The constant `Faults`
says where an exchange may break off: deriving the static keys, opening the
channel, the VERIFY on its way to the card (`lost`) or back (`reply`), the
private operation.  The environment inserts and removes cards and, if
`PinChanges`, changes PINs.

External assumptions: a card that is disconnected by `C_Finalize` or removed
loses its security status; a Gen2 card refuses the Gen1 VERIFY and the plain EA
command without counting a try, and a Gen1 card has no GPPKI applet; a `SELECT`
of EF.0810 on a Gen1 card may or may not succeed from where the card is
(`direct`), and the detection that follows a failed one succeeds on a live handle;
a Gen1 card answers a private operation only after a VERIFY (`verified`), which
is its access condition and no check of the module's.  PINs of a refused length, null pointers and unknown handles return
before anything happens and are left out.

`PinCustody` is what the core promises about Gen2 PINs: a thread comes to hold a
card's PIN when that card accepts it, presents it to that card only, and loses
tries only by typing.  `Cryptoki` implements it through `Custody`.

### Crypt

Encryption and decryption on one session.  `op[d]` has the `*_active`, `*_key`,
`*_mech`, `*_buf` fields and the kept result of direction `d`; `answer` and
`asked` are history.  Data is a sequence over a small set of bytes, `Block` units
make `RSA_MODULUS_LEN`; a decryption yields `Plaintext[block]` bytes, which models
unpadding.  `Call` is `do_encrypt`/`do_decrypt` with its four outcomes (probe,
retry of a kept result, computation, failure).

### Messages and Stream

Signing, verifying and digesting on one session, which the three do by different
rules: `C_Sign` ignores the parts given before, `C_Digest` appends to them; a
small buffer ends a signature, not a digest; the signature buffer is cleared by
`C_SignInit` only.  `Stream` is what each promises: one result per Init, over
exactly the parts since that Init.  `given`, the parts the caller was told were
taken, is the abstract message; the refinement compares the code's buffer with it.

### Objects

Searching in several sessions of one token: what a template matches, what a
login makes visible, the list made by `C_FindObjectsInit` and the position
`C_FindObjects` moves.  The list is the one increasing list of handles that
`Found` describes: every object that matches and is visible, up to `MAX_OBJS`.
`delivered`, `lost` and `wasIn` are history.

### Attributes

`C_GetAttributeValue` and its caller.  `entry` is the caller's template: `cap` is
the size of the buffer behind `pValue`, `Null` without one, and `len` is
`ulValueLen`, which a probe, an answer and a refusal each set to something else.
`Has` and `Value` are the `match` of the function, `SetAttr` is `set_attr`, a
`CK_ULONG` has two bytes.  Bytes written behind the end of a buffer make it longer
in the model.  `AttrMatch` is `attr_match` on the same template, which is how a
caller goes from an object to those that belong to it.

The caller is external, and one thing is asked of it (`LengthsAreTrue`): the
lengths it passes are those of its buffers.  `set_attr` leaves the needed length
behind when it refuses, so a caller that repeats the call as it stands would
claim a buffer it does not have; it has to make the buffer (`Allocate`) or put
the length back (`PutLengthsBack`).  `CKR_OBJECT_HANDLE_INVALID` and the errors
before it leave the template as it was.

### RustApi

`list_tokens`, `list_certificates`, `sign` and `decrypt` beside the core.  `api`
is the call that holds `CARD_LOCK`: its thread, the readers `open_slot` has still
to try, its PC/SC handle, the PIN it was given.  Binding a reader, the login and
the private operation are steps of their own, and a `C_*` call of another thread
may come between any two of them; on its own thread the call shares the thread
locals of `Cryptoki` with the `C_*` calls before and after it.

External assumption: dropping a handle of the `pcsc` crate, which is how
`pcsc.rs` disconnects, resets the card, and PC/SC then refuses every other handle on it.  The
core never reconnects, so its slots stay dead (`live`); properties about what a
session can do are about slots that are live.

`KeyUse` adds one history variable to the two: `loginCard[h]`, the card whose login
session `h` had last since it was opened.  Cards and threads do not know sessions:
a Gen1 card does what the next command asks, and a cached PIN serves every
session of its thread.  `KeyUseNeedsOwnLogin` says that the module's tables make
up for it.

### Gen1

VERIFY, private operations and file reads on a Gen1 card, one exchange per step.
`host[h]` is a thread's operation: the SELECTs of `select_key_ef` (directly, or
by MF and DF when that fails), then VERIFY, or two EA commands and C1 reads until
the block is full.  The card has a selected file and one computation under way,
and no channel that would tell one host's exchanges from another's.  `lockOf`
says which mutex a host's calls take: with one, its operation runs to its end
before another begins; with two, any interleaving happens.  A unit of a result
carries the operations its input came from, which is how a mixed result shows.

### Scp03

The secure channel, one APDU per step.  `host[h]` is the channel, the cached PIN
and keys of a thread or process and the phase of the operation it is in:

    keys -> applet -> update -> authenticate -> verify -> df -> keydf -> first -> last -> more
    diverse_  select_  INITIALIZE  EXTERNAL       sm_      sm_select_fid    EA, EA    C1
    static_   aid      UPDATE      AUTHENTICATE   verify
    keys                 (open_scp03)

A MAC is the session key with the chain of commands it covers, so a card accepts
a command exactly if it has seen the same chain.  `Deliveries` says what may
happen to an exchange: lost, unanswered, cut short, resent after 6Cxx.  Several
hosts act on one card.  `diverse_static_keys` is one step although it makes four
exchanges: they leave nothing on the card but a deselected applet, and any of
them failing has the same effect.  The card is external: an applet that is
selected anew has no channel, no verified PIN and no command under way, and
a secured command that does not verify ends the channel.  It answers with whole
halves of a block, so a result never overshoots and the error for that is left out.

### FileReads, Records and Transport

`FileReads` has the loops of `read_binary_range`, `read_ef` and
`read_directory_file`, one READ BINARY per step.  A file is a length and the
length of its records; data is abstracted to how much of it was collected.

`Records` is `read_directory_file` again, by its bytes: after each chunk,
`records_end` looks for padding behind whole records, and `for_each_record` reads
what came back.  `Der` is `der::next`.  `Encoding` writes elements the way a card
holds them, so that what is read (`ForEachRecord`) can be compared with what was
written (`SequenceValues`).

`Transport` is `transmit`: the command goes out again after the first 6Cxx, and a
response announced by 61xx is fetched in parts, whose status words are cut off.

A behaviour is one call and ends when it returns, hence `CHECK_DEADLOCK FALSE`.

### Binding

`bind`, one file, entry or value per step: `detect_and_select`; PrKDF, PuKDF, CDF
and DODF, each read as far as its exchanges go; each entry skipped, made an
object, or put among the `pending` ones, whose values are fetched when the file
is through; `link_key_material`.  An entry is a label that tells it apart, its
identifier, the key it is about, whether it parses and whether it has a value.
The AODF is left out: it yields a PIN reference, which `verify_pin` ignores.

### Padding

The blocks around RSA: signature blocks as `gen1.rs` and `emsa_pkcs1_v15` build
them, type-2 blocks and their check, OAEP with MGF1 over any hash, the
`DigestInfo` tables, and the width `rsa_public_crypt` gives a number.  RSA is the
identity on numbers; padding bytes and seeds are any.  `Mgf1` says byte by byte
what the loop of `mgf1` puts together; its counter has four bytes and no block
needs enough hashes for it to overflow.  The exclusive or is the constant
`ByteXor`, the one of the machine in the run.  A behaviour is a message
that goes through and back, or a foreign block that is unpadded.

## 4. Runs

| Run | Instance | Question |
|---|---|---|
| `two_cards` | 2 Gen2 cards and readers, 2 sessions, 1 thread; channels and replies lost | do PIN, keys and channel belong together, which card sees which PIN; refinement of `PinCustody` |
| `mixed` | a Gen1 and a Gen2 card, 1 session; PINs changed by others, answers lost | do logins and kept plaintexts rest on the right card in spite of wrong dispatch, and cached PINs on their keys in spite of PIN changes? |
| `rust_api` | five worlds: 2 threads on a card; 2 sessions; 2 Gen2 cards in a reader; a Gen1 and a Gen2 card in a reader each; the same with 2 threads and 2 sessions | what the API and the core do to each other's sessions, PINs and cards; does a session use a key of its own login only; can a session that is logged in go on signing, is a right PIN accepted? |
| `crypt` | data and buffers of every length up to two blocks, 2 keys, 2 mechanisms; blocks of 13, 6 and 256 bytes | probe, small buffer, retry; padding and unpadding, signing and verifying |
| `messages` | signatures, verifications and digests at once | each is a `Stream` |
| `search` | 2 sessions, 4 objects, 5 templates, `MAX_OBJS` 3; attributes of 4 objects by 8 templates, buffers of 0 to 3 bytes or none | order and visibility; are all entries answered, do announced sizes do, does a filled template find its object? |
| `reads` | every file up to 4 beyond the last offset, every range; directories of any bytes, up to five, and of DER elements; every way to split a response | complete or failed, and at an end |
| `binding` | 120 cards of up to 6 entries, `MAX_OBJS` 4, bound one after the other, any exchange failing | handles, completeness, whose objects and keys |
| `gen1` | 2 threads through one mutex or two, 3 operations, all faults | results of the call, recovery, an end |
| `shared_card` | 2 hosts, 4 operations, both PINs, all faults | counters, results, recovery, bounded operations, while exchanges interleave |

Bounds.  `MaxRetries` is 2: one wrong PIN leaves a try, two lock the card.  Two
of a kind (threads, cards, sessions, hosts) are enough for one to disturb the
other; no guard in the code counts further than "another one".  `MAX_SESSIONS`
is the number of handles, which every run of the core reaches.  `two_cards` leaves
out decryption, which adds only the kept plaintext; `mixed` has it.  Each world of
`MCRustApi` has two of what it is about (threads, sessions, cards or generations)
and one of the rest: their product is out of reach.  They sign only; that
`KeyUseNeedsOwnLogin` holds of decryptions and kept plaintexts too is proved.  The last world has two of
all but no API calls and no wrong PIN, because there `SigningSurvives` does relate
threads, sessions and generations.
`MaxOps` in `Scp03` is for both hosts together: each may log in and use a key
once, or one logs in and runs three operations, each of which starts its channel
over, while the other does nothing.
`Capacity`, `Block` and `MaxMessage` are 2, which lets a buffer be empty, partly
filled, full and overfull.  A behaviour of `crypt` follows one direction, chosen
at the start (`MCCrypt`): encryption and decryption of a session share no field, and
no action touches both.  In `FileReads` the lengths keep the order they have in
the code (16 < 0x20 < 0xC8 < 16 KiB < 0x7FFF < 64 KiB); files are cut inside
chunks and at them, below, at and above every limit.  `Records` takes every buffer
of up to five bytes over eight values (padding, short and long lengths, one- and
two-byte tags), and one or two elements of lengths 0, 1, 127, 128, 255, 256 and
300, in chunks of 1, 2 and 200 bytes.  `MaxData` and `MaxPart` let a response come
in one part, in full parts and with a rest.  In `Padding` type-2 blocks have 13
bytes, room for two, and messages up to three; OAEP blocks have 6 with a hash of
one byte, which keeps the separator search and the masks; signatures have
the real 256.  The released builds are 64-bit, so the lengths `der::next` adds do
not overflow and integers are unbounded here.  `Chunk` 2 makes `Gen1` take one, two
or three C1 reads for a block.  `MaxObjs` 4 is below the number of entries of some
cards of `MCBinding`, and the limit falls in each file.
The templates for attributes in `MCObjects` have up to three entries, with the missing and the
refused ones first, last and in between, and the objects' values are shorter and
longer than the buffers.
Symmetry is used for
Gen2 cards and PINs (`two_cards`) and for hosts and chunks (`shared_card`), which
have no liveness property.

Fairness.  There is none in the core: a call holds `GLOBAL` to its end, so there
is no progress of its own to make between calls, and nobody owes the module the next
call.  `FileReads` has weak fairness on the loop's step, since a function
that runs goes on running and PC/SC answers every exchange or fails it; for the
same reason `Transport` and the operations of each host in `Gen1` have it.  Nobody
is made to begin an operation.
Termination of a private operation is a safety property, `OperationsAreBounded`; its
seven commands are for answers of whole halves, and with smaller ones the loop makes
more, but still ends, because an answer without data ends it.

### Where comments and code differ

Two runs are expected to fail; each checks a sentence of the sources.

| Run | The sentence | What happens |
|---|---|---|
| `logout_keeps_pin` | `apdu/mod.rs:164`, caches are cleared on logout | after a query of an empty reader the profile says Gen1, and `C_Logout` leaves PIN, keys and channel |
| `two_locks` | `api/mod.rs:4`, card traffic is serialized with a process-wide mutex | a `C_*` call takes another mutex: between its two EA commands on a Gen1 card the API gives its own first half, and the call returns Ok with a result of both |

Met while modelling, and part of the models, without a run of their own: a
logout in one session takes the cached PIN from another that stays logged in
(`gen2.rs:58`); a failed exchange ends a directory file without an error
(`p15.rs:258`); a
refused PIN leaves `STATIC_KEYS`, with which the next card is then met
(`gen2.rs:63`); a query of another slot redirects a session's calls
(`apdu/mod.rs:156`); a search begun before `C_Logout` goes on delivering private
objects (README line 307); a card limited to 16 bytes per read ends a range after
16 (`apdu/mod.rs:253`).

## 5. Proofs

Each theorem holds for every value of the constants that satisfies the
assumptions named in the module it is about.  They say what the code fixes (the
order of the limits, `Chunk` below a block, that a "none" value is no value) or
what is said below; theorems about the core state in addition, where they need
it, that no other software changes PINs (`PinChanges = FALSE`).

`CryptokiProofs`
:   `TypeCorrect` is inductive by itself; its step lemma is used by all others.
    `SessionsStayUsable` and `SlotsStayConsistent` follow from `SlotsAndSessions`,
    which adds that nothing is listed before `C_Initialize`: without that,
    `C_Initialize` could overwrite a slot an open session uses.
    `CachedPinsFitKeys` and `PinsFollowKeys` follow from `Credentials`: beside a PIN
    are the keys of the Gen2 card that accepted it (`pinOf`), a channel is to the
    card of the keys and there is a PIN with it.  `verify_pin` writes the PIN only
    after a channel was opened with those keys, keys are derived only where none are
    cached, and the only code that clears the keys clears the PIN too.
    `CachedPinsStayRight` and `TriesAreLostToLoginOnly` strengthen this to
    `RightCredentials`, in which the PIN is the card's; the re-VERIFY of a private
    operation then presents the right PIN and resets the counter.
    `CustodyIsKept`: the initial states map to `PinCustody`'s, and each action,
    from a state with `RightCredentials`, to typing, presenting, forgetting or a
    stuttering step.
    `LoginsNeedTheirCard` and `PlaintextsNeedTheirPin` rest on one lemma,
    `SessionsGain`: a login, a kept plaintext and the use of a key are gained by one
    call each, whatever else a step does.  What that
    call leaves is read off `VerifyPin` and `RsaPrivate`; that it is the card of
    the session, and not one that the thread's generation points to, needs
    `Credentials`.

    The rest is about `ApiSpec`, the core and the Rust API on the same threads and
    cards.  `ApiCredentials` adds to `RightCredentials` that a call past its bind
    has its card's generation as profile (`ProfileFits`): the profile decides
    which PIN is verified and, after the operation, what is cleared.
    `OperationsUseTheTypedPin`, `CoreHoldsBesideApi`, `RightPinsAreAccepted`,
    `SuccessesLeaveNoPin` and `TriesAreLostToTypedPinsOnly` follow from it, and
    `SessionRulesHoldBesideApi` from the steps of the two theorems above.
    `SigningStaysPossible` needs besides that a good handle is on the card in its
    reader, and that card in no other (`HandlesFit`): a card that loses its
    security status takes the handles on it along.  `KeysAreUsedByTheirLogin` uses
    that invariant too, for `SessionStays`: under an open session the slot is bound,
    and `ensure_card` leaves a bound slot its card, so that the card of the login is
    the card of the operation.  `SigningStaysPossible` follows the caches of one thread through every call:
    what they need to sign with the session's card (`Ready`) is kept or
    `SigningDisturbed` says why not.  The attempt to prove it showed one reason that was
    missing there, and `MCRustApi` a world: a thread that has bound no card
    (`claLocked` is off) and works on another slot takes over that card's profile.

`BindingProofs`
:   For every card, `MaxObjs` and set of faults; the assumptions are those named in
    `Binding`.  Two of them are about cards: the labels of a file differ
    (`LabelsAssumption`, which only gives the entries names), and an identifier
    stands for one key pair (`IdsAssumption`, what `link_key_material` relies on).
    `HandlesStayPositions` is inductive as it stands: the shape of the state,
    `handle = place`, and objects and pending entries together at most `MaxObjs`;
    without the pending ones the limit would be looked at too late.
    `ObjectsStayOfTheCard` needs `IInv`: every object comes from an entry before
    `Seen`, the first entry still pending or the place in the file; pending entries
    are in the order of the file.  So the next object always comes from an entry
    no object came from.  Linking uses `IdsAssumption` on the entries of the
    private key and of the object with its identifier.
    `BindsAreComplete` is about a bind without fault.  `CompleteInv` adds that the
    file being parsed is in the buffer as a whole (`AllRead`); that every entry
    the loop has passed is listed, pending, or was met when the token was full of
    entries before it (`NoneIsLost`); that objects stand in the order of the files
    (`InFileOrder`); and that public keys and certificates have the value of their
    entry (`ValuesRead`), which is where `link_key_material` takes a modulus from.

`CryptProofs`
:   For every block length, keys, mechanisms and data; that `None` is no result
    is an assumption, named in `Crypt`.  The two directions share no field, so the
    invariant is `Good` of each: while no result is kept nothing was computed,
    a kept result is the one computed, and an operation that is over holds nothing.
    `AnnouncedLengthsSuffice` adds what an announced length says of its data: the
    result's own length once it is kept, and before that one at least as long.

    The block formats of `Padding`, for any modulus, label, bytes, messages and
    foreign blocks as long as the modulus.  Of `ByteXor` it is assumed that it
    stays within the bytes and undoes itself (`BytesAssumption`), of a message to
    sign that it is raw or a hash of its mechanism's length
    (`MessagesAssumption`).  That the hash of OAEP has a fixed length whatever is
    hashed (`HashFits`) is a hypothesis of the theorems and no `ASSUME`, since TLC
    cannot try every sequence.  `PadInv` says of a block that was padded that it
    is one of the padder's, back at its width (`RsaWidth`: the zeros a number
    forgets are those put back, whatever the block), and of an output that it is
    what unpadding makes of the block.  For each format there is one description
    of a block (`PkcsBlock`, `OaepBlock`) and two lemmas: the padder makes these
    blocks and no others, and the unpadder finds the message in these and no
    others.  `PaddedMessagesReturn` is one direction and `NothingElseIsUnpadded`
    the other.  `SignaturesAgree`: the two builders make the same block, from
    which the data can be told (`SigBlockTellsData`); and `DerNext`, applied five
    times, finds in each prefix with its hash the elements of a `DigestInfo` and
    nothing behind it.

`ObjectsProofs`
:   For every token, sessions, templates and `MaxObjs`.  The invariant is again
    session by session: what was delivered is the list up to the position, and
    (`Good`) the list of a session that was never logged in has public objects
    only.

    Of attributes, for every token, templates and buffers: `AttrInv` adds to the properties what
    holds between calls: a length that says "unavailable" is met only while the
    object asked last has no such attribute (`Sound`), so it never passes for
    room in a buffer when there is a value; and buffers made to size have room for
    that object's values until the next template (`Roomy`).
    `FilledTemplatesFind` follows from complete answers alone: an entry that shows
    a value asks of other objects just that value.

`MessagesProofs`
:   For every key, mechanism, byte and limit.  The state is mapped to three
    `Stream`s, and each call to a step of one of them, at which the other two
    stutter.  The mapping is right only while the buffer is what the caller was
    told was taken (`SignCollects`, `VerifyCollects`, `DigestCollects`).  For a
    signature that is so only between `C_SignInit` and its end: the buffer
    outlives a signature, and `C_SignInit` has to be the one that clears it.

`ReadsProofs`
:   For every file, range, chunk size and limit in the order of the code.
    While a loop runs, `Collected` says how far it can have come; for a range also
    that it has taken whole chunks, since that is what decides whether a read at the
    very end is asked for (`EndsOnAChunk`).
    For `transmit`, `Assembled`: what was collected is the beginning of the
    response with one status word behind it, which the next part replaces.

    The records of directory files, for any chunk sizes, any buffers of bytes, and
    elements with any tag the reader knows and any length of two bytes, with
    padding or nothing behind them (`FilesAreBytes`).  What a loop over records
    computes depends on the offset it starts from, so the lemmas are about the
    functions inside `RecordsEnd` and `ForEachRecord`, at every offset: `DerNext`
    moves forward; it reads an element of a longer buffer just as in a shorter one
    that holds it (`Starts`); so the records of a beginning are a beginning of the
    records, and those before padding are all.  They are proved from the end of
    the buffer to its beginning (`FromTheEnd`).  The other half is that `DerNext`
    reads an `Encoding` exactly, by the forms of tag and length, and that this
    carries over from one element to the next.  `RecordsInv` says that the part
    read is a part of the file, and that a read that is over has all of it or
    padding at an end of records.

`Gen1Proofs`
:   For any hosts, mutexes, block lengths and operations, and any of the faults.
    A Gen1 card does not know whose exchange it answers, so the invariant is about
    time: two hosts at work never hold one mutex (`MutexHolds`), and only a host
    with another mutex can have come in between (`OnlyOthersDisturb`).  While
    nothing has, the card is where the operation believes it is (`UndisturbedFit`):
    the file selected is the one the last SELECT asked for, the half the card
    holds is this operation's, and what it has still to return completes what was
    read.  So whatever the card held before does not matter.

`Scp03Proofs`
:   For any hosts, PINs, keys, blocks and number of operations, and any of the
    faults.  A host's invariant has three parts.  `Good` is about the host alone:
    its channel fits its phase, at most `Before` commands have gone through
    it, and how an operation ended is what it deserved.  `Fits` relates a host to the
    card while the card is in that host's channel: the half the card holds is
    this block's, and what it has still to return completes the result -- or, after
    an answer came without its data, too little is left to complete anything.
    `Tracks` says where the card is while nothing has disturbed the operation, so
    that its next command is accepted.  `KeysDiffer` ties them together: a
    session key belongs to one host, so another host's exchange leaves the card
    alone or takes it out of this host's channel.  `SentBefore`
    bounds every counter that was used by the present one of its key.

Every invariant the passing runs check, and every action property and refinement,
is the subject of a theorem.  Two properties stay with TLC: `CallsEnd` of `FileReads`
and `Transport`, and `OperationsEnd` of `Gen1`, are liveness under fairness, which
the provers here do not reach.  Nor do they take an induction principle that has
an operator as a parameter: where data calls for induction, `FromTheEnd` and
`FromTheStart` take the set of the places where a fact holds instead, and rest on
`LeastElement`, the least place where it would not.  This is why the models recurse in
functions.  What is said above to be external (cards, hashes, the exclusive or) is
assumed by runs and proofs alike.

## 6. Not modelled

What the parsers make of the fields of an entry, token information and labels
(`split_entry` is accepted or not), which is the card's data; values of hashes,
signatures and ciphertexts, which are symbolic; the calls that
only report from fixed tables (slots, mechanisms, token information), which change
no state; random numbers; the MSE and PSO
helpers, which nothing calls; FFI layout; build and release files.  SELECT by path
is a step that works or fails.  A panic and the mutex it poisons appear only as
the property that rules the panic out (`SessionsUsable`).
