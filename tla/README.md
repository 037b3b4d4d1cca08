# A TLA+ verification of safa-abi

safa-abi (`src/`) is the set of `#[repr(C)]` types and conventions that sit
between SafaOS user processes and the kernel. It has no threads and no I/O
of its own. What it does is carry values across a trust boundary:

1. A **sender** builds a value with the crate's constructors.
2. The value is written into memory or a register.
3. A **receiver** decodes it. The receiver cannot trust the sender.

Any process may write any bytes instead of calling the constructors (a
"foreign sender"). When the kernel validates a user buffer, the caller's
other threads may go on writing that buffer while the kernel works on it.

Each model below is therefore a *gate*:
- a sender action, built from the crate's constructor;
- a foreign-sender action, which writes any value;
- a receiver action, built from the crate's decoder;
- where the code reads caller memory in several steps, a concurrent writer.

Every gate performs one crossing and stops, so every run says
`CHECK_DEADLOCK FALSE`.

## Parts and modules

| Part (source) | Module(s) | State / actions |
|---|---|---|
| Machine words (errors.rs casts) | `Word` | `isize`/`usize` scaled to `IsizeMax`. `OverflowChecks` picks a debug or a release build. `AsIsize`, `WrappingNeg` and `NegOverflows` model `as isize` and `-x`. |
| Error catalogue (errors.rs 3-163) | `ErrorStatus` | The codes 1..MAX. `try_from_u16`, `from_u16`, and the `as u16` cast modulo `U16Mod`. |
| Outcome word, `SysResult` (errors.rs 165-257) | `SysResult`, `OutcomeGate`, `SysResult_proofs` | Variables: `phase`, `origin`, `intended`, `word`, `decoded`. Kernel actions, one per constructor: `err`, `try_ok`, `ok`, `try_from_result`, `From<Result>`. `ForeignFromIsize` is `from_isize` on any word. `IntoResult` is `into_result` and `From<SysResult>`. |
| Borrowed buffer, `Slice<T>` (ffi/slice.rs) | `Slice`, `NestedSlice`, `NestedSlice_proofs` | `TryAsSliceMutCustom` keeps the order of the checks: null, aligned, `len > isize::MAX`, validator. `NestedSlice` is `try_into_slices_ptr_mut`, described below. |
| Borrowed text, `Str` (ffi/str.rs) | `NestedStr`, `NestedStr_proofs` | The same loop, but each element is checked with `try_as_str_custom` (the slice checks, then `from_utf8_mut`). `Rewrite` is the concurrent writer. Error codes come from `InvalidStrError::into_err`. |
| Zero-sentinel optional, `OptZero` (ffi/option.rs, num.rs, ptr.rs) | `OptZero`, `OptZero_proofs` | `T` is a constant (`Values`, `Zeroed`, `IsZero`). The sender uses `from_option` or the checked `new`, or is a foreign sender. The receiver uses `into_option`, `map`, or the `NonZero` conversion. |
| Tagged optional `COption`, `ProcessStdio` (ffi/option.rs, process.rs) | `Stdio` | `New` is `ProcessStdio::new`, `WriteForeign` writes any tag and payload, and `IntoRust` is `into_rust`, casting `as u32` modulo `U32Mod`. |
| Spawn records `RawPSpawnConfig`, `RawTSpawnConfig` (process.rs 88-237) | `Spawn` (extends `Stdio`), `Spawn_proofs` | `SendP`/`SendT` are the two `new` functions (through `new_from_raw`), `ForeignP`/`ForeignT` write any record, `ReceiveP`/`ReceiveT` read each field with `into_option` or the `COption` match and only the fields the record's revision carries. `ReadStdio` follows a present stdio pointer and runs `Stdio`'s `IntoRust` on the `ProcessStdio` behind it. |
| Syscall numbers (syscalls.rs) | `Syscalls` | The discriminant set, `NEXT_SYSCALL_NUM`, and `TryFrom<u16>`. It has only a violation run. |
| Bit flags (mem.rs, poll.rs, sockets.rs, fs.rs, input.rs) | `Flags`, `Flags_proofs` | A word is the set of its bit positions, and each type's constants are given as bit sets. The sender makes `|` and `& !` steps (`SetFlag`, `ClearFlag`). The receiver asks each type's `contains` about each flag and each combination of flags. |
| Name records, `DirEntry` and `LocalSocketAddr` (fs.rs, sockets.rs, lib.rs) | `NameRecords`, `NameRecords_proofs` | `DirEntry::new` and `new_abstract_from`, including their panics, and the readers that take the name back from the carried length. |

How `NestedSlice` models `try_into_slices_ptr_mut`:
- the outer slice is checked first (`RootRejected` or `RootAccepted`);
- then each element is checked in turn (`ValidateElem`) and the borrowed slice is stored over it;
- the first failure stops the loop (`?`); otherwise `LoopDone` returns Ok;
- `Scribble` is another caller thread writing elements while the loop runs;
- `seen` is a ghost variable that records what the kernel read.

`Spawn` is a composition. The parent first writes a `ProcessStdio` (a
`Stdio` step), then a process record that points to it. The receiver reads
the record, then follows the pointer. The revision rules come from the
comments of `RawPSpawnConfig` and `RawTSpawnConfig`: env from revision 1,
priority from 2, stack size from 3; a thread's stack size from 1. The
kernel that applies them is not in this repository.

`OutcomeGate` is the abstract specification of the outcome word, with the
encoding left out. The kernel `Send`s a Result that fits, or it is
`Refuse`d (an Ok payload above `isize::MAX`). A foreign sender may `Forge`
any Result that fits. The receiver then gets exactly what was sent
(`Deliver`). `SysResult` maps onto it as follows:
- `GatePhase` maps `phase`: "onwire" is "sent", "rejected" and "kpanic" are
  "refused", "decoded" is "delivered";
- `GateMsg` maps the message: the kernel's intended Result, or for a foreign
  word what that word decodes to;
- `got` is `decoded`.

PROJECT.json's `map` gives the source lines behind every definition.

## Runs

| Run | Expect | What it shows |
|---|---|---|
| `SysResult_release` | pass | In a release build `SysResult` implements `OutcomeGate` (`ImplementsOutcomeGate`, a refinement checked as a temporal property). So every kernel Result that fits is decoded exactly, and every word decodes, without a panic, to a Result that fits. Only Ok payloads above `isize::MAX` are refused, or panic (`RejectOnlyOversize`). |
| `SysResult_debug_total` | violation | In a debug build, `-self.0` on `isize::MIN` panics. Any sender can produce that word with `from_isize`. |
| `NestedSlice_pass` | pass | Ok means every element was read and passed all four checks (`ReadsValidated`). The loop stops at the first failure (`ShortCircuit`). Both hold with a concurrent writer. |
| `NestedSlice_bytes` | violation | The length check bounds the element count, not `len * size_of::<T>()`. |
| `NestedStr_pass` | pass | Ok means every string passed the slice checks and was UTF-8 when read. A failure reports the `ErrorStatus` of the first failing string's cause (`ErrorCodeMatchesCause`). |
| `NestedStr_utf8` | violation | A string's bytes are rewritten after `from_utf8_mut` accepted them, so the kernel holds a `&str` that is not UTF-8. |
| `OptZero_pass` | pass | `from_option` followed by `into_option` is the identity, except for the documented collision of a present zero. |
| `Syscalls_decode` | violation | `try_from(13)` transmutes a value that is no variant of the enum. |
| `Spawn_pass` | pass | A process or thread record built with `new` reads back as the Rust values passed (`SpawnRoundTrip`). That covers an absent option, CPU 0, and every field its revision carries. The `ProcessStdio` it points to reads back as the ids given to `ProcessStdio::new` (`StdioRoundTrip`). |
| `Flags_pass` | pass | For MemMapFlags, ShmFlags, PollEvents and SockCreateKind, the word is exactly the flags set (`WordMatchesIntent`). `contains` recovers exactly those flags (`IntentsRecovered`). A combination is contained exactly when all of its flags are set (`CompositeContains`). |
| `Flags_sockmsg` | violation | `DONT_WAIT == PEEK == 1`. The run checks MiceBtnStatus too (`BTN_MID = BTN_LEFT \| BTN_RIGHT`), which breaks the same property; TLC reports the SockMsgFlags trace. |
| `NameRecords_pass` | pass | A name that fits is never a panic and is read back exactly, from a DirEntry or from an abstract socket address. |

### Further disagreements, stated as properties without a run of their own

Each module keeps one violation run at most. The properties below are
defined in their modules. TLC reports each one violated when it is added to
the `INVARIANT` line of the module's passing cfg:

| Property (module) | What the counterexample shows |
|---|---|
| `ForeignCodeDecodesUnknown` (SysResult) | A code above `u16::MAX` is truncated by `as u16` (errors.rs:179) to a known kind. The spec says it decodes to `Unknown`. |
| `ValidatedViewSound` (NestedSlice) | The caller's other thread changes an element after it was validated (slice.rs:185). |
| `ValidatedRangeAccepted` (NestedSlice) | The validator sees only the start address (slice.rs:99). |
| `MapAgreesWithOption` (OptZero) | `map` with a closure that returns zero turns Some into None (option.rs:86). |
| `StdioReadDefined` (Stdio, in `Spawn_pass.cfg` with `Tags = {0, 1, 2}`) | `into_rust` reads a tag byte other than 0 or 1 as a `COption`, which is undefined behaviour (process.rs:55). |
| `StdioIdFaithful` (Stdio, in `Spawn_pass.cfg`) | A foreign usize id is truncated `as u32` to a different id (process.rs:56). |
| `SpawnReadDefined` (Spawn) | A foreign process record of revision 2 or more with priority byte 4 is read as a `RawContextPriority`, which is undefined behaviour (process.rs:120). |
| `DirEntryTruncates` (NameRecords) | `DirEntry::new` panics on a name longer than `MAX_NAME_LENGTH` instead of truncating it: it copies the whole name into `name_bytes[..min]` (fs.rs:43). |

`Flags_pass` checks `Checked = {MemMapFlags, ShmFlags, PollEvents,
SockCreateKind}`; `Flags_sockmsg` checks SockMsgFlags and MiceBtnStatus.
OpenOptions is in neither run. With it in `Checked`, `CompositeContains`
fails, because its `contains` is any-bit. That does no harm in this
repository: OpenOptions' own helpers (`is_write`, `is_read`, ...) query
single flags only, and for a single flag the two readings agree.

Every property of a passing run has a mutant in PROJECT.json: a plausible bug
in the mapped code that makes TLC report that property violated. The five
violation runs are the findings listed in PROJECT.json.

## Bounds

The widths are scaled down, but the relations the code depends on are kept:
- `isize::MAX` is 127 in `MCSysResult`, so all 256 words and all 256 payloads are enumerated;
- the u16 is 64 values: it still holds all 42 codes, and the word still has values that overflow it;
- the u32 is 4 values, below the usize payloads 1 and 5.

The slice models use two elements and one concurrent write. That is enough
to reach each of these cases:
- a write before a check;
- a write between two checks;
- a write after the last check;
- failure at the first element and at the second.

The header sets contain one header failing each check and one passing all of
them. `Flags` allows up to 3 set/clear steps: enough to set two flags and
clear one. `NameRecords` takes names of up to `MAX_NAME_LENGTH + 1` bytes, so
a name longer than the array is always tried.

`Spawn` uses one non-null header per Rust field, because an empty Rust `&str`
still has a non-null pointer. A foreign header may have a null pointer with a
non-zero length. The CPUs are 0 and 1, so the boot CPU is tried. Foreign
records carry revisions 1 to 3, so every revision rule is exercised, and the
priority byte 4, which is no variant. `SysResult_release` also checks the
refinement on all 256 words.

## Fairness

No run assumes fairness; every run checks safety only. The one loop in the
crate, `while i < results.len()` in `try_into_slices_ptr_mut` and
`try_into_str_slices_mut`, has its bound fixed by the outer fat pointer
before it starts. Each pass either returns or advances `i`, so its
termination is a matter of its shape. An off-by-one in the bound would
index `root[len]` and panic, not spin. A termination property would only
restate this.

## Proofs (TLAPS)

`SysResult_proofs` proves the following for every `IsizeMax` and `U16Mod`
and either build:
- `TypeCorrect`: `Spec => []TypeOK`;
- `RoundTripCorrect`: `Spec => []RoundTrip`;
- `RejectOnlyOversizeCorrect`: `Spec => []RejectOnlyOversize`;
- `ImplementsOutcomeGateCorrect`: in a release build (`~OverflowChecks`),
  `Spec => ImplementsOutcomeGate`, the refinement that `SysResult_release` checks.

The assumptions are `IsizeMax \in Nat \ {0}`, `OverflowChecks \in BOOLEAN`,
`MAX <= IsizeMax` and `U16Mod > MAX`.

`RoundTrip` and, in a release build, `DecodeTotal` follow from the
refinement. The release run therefore checks `ImplementsOutcomeGate` in their
place; `RoundTripCorrect` still proves `RoundTrip` for both builds.

`RoundTrip` is not inductive by itself. The word on the wire must already
decode to what the kernel intended, so the inductive invariant is
`IInv == TypeOK /\ KernelWordFaithful /\ RoundTrip /\ RejectOnlyOversize`.

The per-constructor lemmas carry the arithmetic:
- `ErrRoundTrip`: `-e` does not overflow, and `-(-e) as u16 = e` for `e <= MAX`;
- `TryOkRoundTrip`: the sign of `v as isize` tells exactly whether `v > isize::MAX`.

Together these give one lemma per kernel action. `NextIInv` has one step per
disjunct of `Next`.

The refinement proof follows the usual pattern:
1. `Spec => [](IInv /\ OriginKnown)`. `OriginKnown` says a word on the wire
   has a producer. Without it, the mapped message of a decoded word is not
   determined.
2. `Init` maps to `GInit`.
3. `StepRefines`: every step of `Next` maps to a step of `GNext`, or to a
   stutter. Kernel returns are handled by `KernelReturnRefines`: an Ok
   constructor is a `Send`, a refused payload is a `Refuse`. `from_isize` is
   a `Forge` and `IntoResult` is a `Deliver`.

Steps 2 and 3 rest on `DecodeDeliverable`: in a release build,
`into_result` maps every word to a Result that fits. `KernelWordFaithful`
then makes the delivered Result the intended one.

`NestedSlice_proofs` proves the following for every word width, alignment,
validator (`Mapped`) and array bound `MaxOuterLen`, with the other thread's
writes included:
- `NestedTypeCorrect`: `Spec => []TypeOK`;
- `ReadsValidatedCorrect`: `Spec => []ReadsValidated`;
- `ShortCircuitCorrect`: `Spec => []ShortCircuit`.

The assumptions are `NestedAssumption` (the constants of `NestedSlice`) and
`IsizeMax \in Nat \ {0}`.

Neither property is inductive by itself: both speak only of the return,
while the loop is still running. The inductive invariant
`IInv == TypeOK /\ LoopInv` states what holds at each place of the loop:
- at `root`, nothing is read;
- inside the loop, the outer slice passed its checks, `i <= outer.len`, and
  `ReadsSoFar(i)` holds: the reads cover exactly `0..i-1` and each passed;
- an Ok return has `i = outer.len` and `ReadsSoFar(i)`;
- an Err return has either no read and a failing outer slice, or
  `FailedAt(i)`: the reads cover `0..i`, all but the last passed, and the
  last failed.

`ValidateElemIIv` carries the loop step. The element is read into `seen`
(the `Recorded` helper of `Slice`), and `CheckVerdict` says that
`TryAsSliceMutCustom` returns Ok exactly when `MeetsSliceChecks` holds. The
writer's step (`Scribble`) changes only `mem` and its write count, which `LoopInv` does not
mention. That is why the invariants hold whatever the writer does.
`ValidatedViewSound` compares `mem` with `seen`, so the writer can break it.

`NestedStr_proofs` proves the same shape of result for
`try_into_str_slices_mut`, for every instance allowed by `NestedStrAssumption`:
- `StrTypeCorrect`: `Spec => []TypeOK`;
- `StrReadsValidatedCorrect`: `Spec => []ReadsValidated`;
- `ErrorCodeMatchesCauseCorrect`: `Spec => []ErrorCodeMatchesCause`.

Its `LoopInv` has the same structure as in `NestedSlice_proofs`. The reads
are pairs of a string and its UTF-8 flag at the time of the read. In the
Err case, `FailedAt` also records that the `into_err` of the result equals
the `CauseCode` of the last read, and that this code is not 0.

Two lemmas carry the argument:
- `StrVerdict` follows `try_as_str_mut_custom` through its five outcomes
  (null, length, validator, UTF-8, Ok). For each it gives the returned
  error's code.
- `MeetsIffNoCause` says a read passed exactly when its cause code is 0.

The other thread's `Rewrite` changes only `utf8` and its write count.
`LoopInv` speaks of the flags as recorded, never of `utf8` now. That is why
`ValidatedTextStaysUtf8` fails while these hold.

`OptZero_proofs` proves, for every `NotZeroable` type allowed by
`OptZeroAssumption` (any `Values`, `Zeroed \in Values`, any `IsZero`, any
set of closures `Values -> Values`):
- `OptZeroTypeCorrect`: `Spec => []TypeOK`;
- `SenderRoundTripCorrect`: `Spec => []SenderRoundTrip`.

The inductive invariant adds two facts to `TypeOK`. `SenderBits`: while a
sender's value is in memory, the bits are `from_option` of the Option sent.
`DecodedRead`: a decoded value is `into_option` of those bits. The round
trip then follows from the lemma `IntoFromOption`
(`into_option(from_option(o))` is `o`, with a present zero read as None).
`SenderRoundTrip` alone is not inductive: it says nothing of the bits
between the send and the read.

`Spawn_proofs` proves, for every instance allowed by `StdioAssumption` and
`SpawnAssumption` (non-null Rust headers, non-zero stack sizes, a non-zero
stdio address, u8 CPUs and priority bytes):
- `StdioRoundTripCorrect`: `SSpec => []StdioRoundTrip`;
- `SpawnRoundTripCorrect`: `SSpec => []SpawnRoundTrip`.

The round trips rest on `IInv`:
- `StdioWire`: a sender's `ProcessStdio` in memory is `COptionFrom` of the
  ids sent;
- `SpawnSent`: a sender's spawn record is `new` of the arguments kept in
  `sreq`, of the kind recorded in `kind`.

The record lemmas `ProcessRecordBack` and `ThreadRecordBack` follow each
field through `new`, the revision test and the `into_option` or `COption`
read, and show that the read gives back the arguments.
`COptionBack` and `IntoRustBack` do the same for `into_rust`: a tag
written by `From<Option>` is 0 or 1, and a u32 survives the `as u32` cast.
`Spawn` has no type invariant. A type invariant for what the receiver
reads would hold only because the model resolves the undefined priority and
tag reads (process.rs:55, 120) to some valid variant, and it would say nothing
about the code. That undefined behaviour is stated instead by
`SpawnReadDefined` and `StdioReadDefined`, which TLC finds violated.

`Flags_proofs` proves `FlagsTypeCorrect` (`Spec => []TypeOK`) for every
table. It proves `WordMatchesIntent`, `IntentsRecovered` and
`CompositeContains` for every flag type in `SoundTypes`. `SoundTypes` holds
the types whose named flags are:
- non-empty;
- within the type's width;
- pairwise disjoint,

and whose `contains` is `(self & other) == other`.

The inductive invariant adds `Fresh` (an idle gate holds the empty word and
the empty intent) to the three properties. The argument rests on these lemmas:
- `SetOne`, `ClearOne`: `|` and `& !` of a named flag add or remove exactly
  its bits;
- `ContainsOne`, `ContainsCombo`: `contains` is true exactly when the flags
  were set. This needs disjointness.

`CheckedTablesCorrect` applies this to the tables as they are written in
the source. MemMapFlags, ShmFlags, PollEvents and SockCreateKind are in
`SoundTypes` (lemma `TablesSound`). The lemma `TablesUnsound` shows that
SockMsgFlags (`PEEK` shares `DONT_WAIT`'s bit) and MiceBtnStatus (`BTN_MID`
is the union of the other two) are not. That is why the violation run
`flags_sockmsg` finds `IntentsRecovered` broken for SockMsgFlags.
OpenOptions is left out: its `contains` is `self & other != 0` (any shared
bit), so a composite query does not mean all of its flags were set.

`NameRecords_proofs` proves, for every `MAX_NAME_LENGTH`, byte set and
input bound:
- `NameRoundTripCorrect`: `Spec => []NameRoundTrip`;
- `NameTypeCorrect`: `Spec => []TypeOK`.

The invariant says three things:
- the record in memory is what its kind's builder made of `name` (`RecMade`);
- the phase says whether the builder panicked (`PhaseOfRec`);
- the name read is that kind's reader applied to the record (`GotRead`).

`DirEntryBack` and `AbstractBack` show that a name that fits is built
without a panic and read back exactly. `FitsIfBuilt` shows that a record
built without a panic holds a name that fits. Together they give
`got = name` at every read, which is also what types `got`. The sequence
facts come from `SequenceTheorems` (`SubSeqProperties`, `SeqEqual`). The
proof is not about `DirEntryTruncates`, which TLC finds violated:
`DirEntry::new` panics on a long name.

Some definitions were written to suit the provers, with the same meaning
as before:
- `Flags`' `Bits` is a record lookup instead of a CASE, and `Width` is an
  IF chain;
- `Stdio`'s `COptionReads` is an IF chain;
- `NameRecords`' builders test `.tag = "panic"` instead of comparing the
  whole record with `Panic`. TLC cannot compare a record field with a
  string.

The state counts of the runs did not change.

## Only model-checked

- Properties that TLC finds violated are not proved.
- `StdioReadDefined`, `SpawnReadDefined` and `DirEntryTruncates` are stated
  as disagreements, not as properties to prove.
- In `Flags`, the three flag properties are false for SockMsgFlags and
  MiceBtnStatus: TLC's violation run shows this, and the lemma
  `TablesUnsound` shows those tables fail the disjointness condition.

Every invariant of a passing run is now also a theorem.

## Not modelled

- `ErrorStatus::as_str` and the `Termination` impl: formatting only.
- The trusted constructors `Slice::from_raw_parts`, `from_slice`,
  `from_slices_ptr_mut` and `from_str_slices_mut`: they only store a pointer
  and a length. Their in-place layout reuse is a compiler fact.
- The raw double fetch inside `try_as_slice_mut_custom`: the model reads an
  element atomically. The coarser race it does model already breaks the same
  property.
- `AbiStructures::new`, which the kernel fills for a child, and `SpawnFlags`'
  `bitor`: plain stores, and the kernel's use of them is not in this
  repository.
- `RawMemMapConfig`, `PollEntry`,
  the input events, `FileAttr`, the `net.rs` records and `SocketAddr::as_known`:
  plain records with no checks, or checks that live in the kernel.

## Plan for later sittings

1. Model `as_known` with the length the kernel checks. Compose the spawn
   record's `Slice<Str>` argv with `NestedStr`'s validation loop.
