# TLA+ models of zenoh-c

This directory holds TLA+ specifications of the parts of zenoh-c whose
behaviour depends on control, ordering or concurrency. Each one comes with the
TLC configurations that check it. `PROJECT.json` lists the components, the
runs, the source lines each definition models (`map`), the mutants that show
each checked property can fail, the findings, and the hazards of the code.

## The system

zenoh-c is the C binding of the Rust zenoh library. Most of it is FFI glue.
Five parts carry the logic this project checks.

1. **The build script, `src/build.rs`.** It builds the public C headers in
   this order:
   - `generate_opaque_types` runs a nested `cargo build` that writes type
     layouts into `.build_resources_opaque_types.txt`.
   - `cbindgen` writes `include/zenoh-gen.h`.
   - `create_generics_header` mines the prototypes of that header with one
     regex per naming convention (`_loan`, `_loan_mut`, `_drop`, `_null`,
     `_check`, `_call`). It then writes `include/zenoh_macros.h`, with a C11
     `_Generic` table and a C++ overload set per convention, plus the
     `z_closure` helpers.
   - `configure` writes `zenoh_configure.h`.
   - `split_bindings` tokenizes `zenoh-gen.h` (`Tokenizer`, `Token::next`),
     groups the tokens into records (`group_tokens`, `Record`), and routes
     every record to the output headers that `splitguide.yaml` assigns
     (`SplitGuide`). It writes and locks them with `fs2` flocks, and removes
     `zenoh-gen.h`.
   - `text_replace` rewrites the split headers.
   - `copy_items` copies `include/` into the target directory.

   Several builds of the crate (one per dependent, or per profile) can run at
   once on the same source tree. All of them read and write the same files.
2. **The query fifo channels, `src/closures/query_channel.rs`.** A pair of
   closures wraps one `std::sync::mpsc` channel:
   - The send closure is called by a queryable on zenoh's thread.
   - The recv closure is called by the application, blocking or not.

   The channel is unbounded for `bound == 0` and a `sync_channel(bound)`
   otherwise.
3. **The bytes map and attachments, `src/attachment.rs`.** A
   `z_owned_bytes_map_t` is an `Option<HashMap<Cow<[u8]>, Cow<[u8]>>>` whose
   entries are owned (inserted by copy) or borrowed (inserted by alias). A
   `z_attachment_t` is a data pointer plus a v-table (`len`, iteration
   driver). `z_bytes_map_as_attachment` makes one that points at a map
   *variable*. `z_attachment_get` and `z_bytes_map_from_attachment(_aliasing)`
   are written against the v-table: they pass one of their own iteration
   bodies to the driver. A second v-table, `ATTACHMENT_VTABLE`
   (`attachment_iter`, `attachment_len`), serves zenoh's own `Attachment`,
   the one a sample carries. `insert_in_attachment` is the body that copies
   any attachment into a new zenoh `Attachment`.
4. **The zenoh-ext handles, `src/querying_subscriber.rs` and
   `src/publication_cache.rs`.** Each handle is an `Option<Box<...>>` of a
   zenoh-ext object. `ze_declare_querying_subscriber` swaps the caller's
   sample closure out of its variable and moves it into the subscriber's
   callback. The subscriber then owns it until `ze_undeclare_querying_subscriber`
   `take()`s the handle and `close()`s it. `ze_declare_publication_cache` sets
   the options on zenoh-ext's builder. Neither file has a drop or loan
   function, although the type docs describe both.
5. **The owned-memory macros of `src/lib.rs`.** An owned C variable is an
   `Option` of a zenoh value. `prepare_memory_to_init` refuses a live
   variable with -1. `access_owned_memory` and `move_owned_memory` return -2
   and -3 on `None`, and the move `take()`s the value. `check`, `make_null`
   and `delete` come from `decl_rust_new_owned_type`. `copy_to_c_array`
   copies a byte slice into a C buffer of `len` bytes.

## Modules

| Module | Models | State | Actions |
|---|---|---|---|
| `Tokenizer` | `Token::next`, every recognizer, `Until`, the `Tokenizer` iterator; plus a reference tokenizer whose recognizers are written from the text of spec 4.1 (`SpecWhitespaceTok`, `SpecCommentTok`, `SpecConditionalTok`, `SpecIncludeTok`, `SpecDefineTok`, `SpecTypedefTok`, `SpecConstTok`, `SpecFunctionTok`) | none (pure operators) | — |
| `RecordGrouper` | `group_tokens`, `Record::add_token`, `RecordType::update`, `push_*`, `is_ready`, and Record's `Display` (`Emit`: comments first, whitespace left out) | `input` (the tokens still to come), `collect` (`record_collect`), `records`, `status` | per token: `AccumulateToken`, `SealToken`, `UnmatchedEndifToken`; `FinalPush` |
| `HeaderPipeline` | `split_bindings` reading the header into `group_tokens(Tokenizer {...})` | `header`, `rest` (`Tokenizer::inner`), and the grouper's `collect`, `records`, `status` | `Accumulate`, `Seal`, `UnmatchedEndif` (one loop iteration on the token `Token::next` yields), `TokenizerPanic`, `EndOfStream` |
| `SplitBindings` | the routing half of `split_bindings`: `requested_ids`, `appropriate_files`, `is_used` | `records`, `used` flags, `out` (the record indices written to each file), `idx`, `stage` | `RequestedIdsFound` / `RequestedIdMissing`, `Route`, `AllUsed` / `SomeUnused` |
| `SplitPipeline` | `split_bindings` from the header text to the written files | `HeaderPipeline`'s variables (its `records` renamed `grouped`) and `SplitBindings`' | `Grouping` (a `HeaderPipeline` step), `Handover` (`group_tokens` returned `Ok`), `Splitting` (a `SplitBindings` step) |
| `BuildProcesses` | concurrent runs of `main()`: opaque types, cbindgen, generics header, configure, open/lock/write/unlock/remove in `split_bindings`, `text_replace`, copy | one abstract content per shared file, the flock holder of each split file, each run's `pc`, its HashMap `order` of the split files and loop position `k`, the `buf` read by `text_replace`, what each run `copied`, and a history flag `overlapped` | one action per file access, in code order, including each panic (`unwrap`) path |
| `GenericsHeader` | `find_*_functions` and every `generate_generic_*` | `header` (the mined prototypes), `macros` (the tables written) | `CreateGenericsHeader` |
| `QueryChannel` | `get_send_recv_ends`, both constructors, the send closure, `recv` / `try_recv`, both drops, a call after drop | `queue`, whether each end is alive, a `sending` blocked in `tx.send`, a `receiver` blocked in `rx.recv`, what was `offered`, what was `lost`, and the `results` of the recv calls | `Send`, `SendFull`, `SendClosed`, `SendWake`, `SendWakeClosed`, `DropSend`, `RecvValue`, `RecvBlock`, `RecvDisconnected`, `TryRecv`, `DropRecv`, `CallDropped` |
| `FifoChannel` | what the channel promises: an unbounded FIFO queue with end of stream | `buf`, `offered`, `results`, `txOpen`, `rxOpen` | `Put`, `Take`, `EndOfStream`, `NothingYet`, `CloseSend`, `CloseRecv`, `CallAfterClose` |
| `ExtHandles` | every function of `querying_subscriber.rs` and `publication_cache.rs` | `cb` (the application's closure variable), `fresh`, `drops` (how often each closure's drop ran), `late` (closures called after their drop), `subs` (each FetchingSubscriber: unused, open or closed, and its closure), `qs` and `pcs` (the handle variables), `ret` (the last answer) | `Declare`, `Deliver` (zenoh-ext calls the callback), `Undeclare`, `Check`, `DeclareCache`, `CheckCache`; the application's `BuildClosure` and `DropCallback` |
| `ClosureOwnership` | the ownership a closure passes through: caller, subscription, released (abstract) | `owner` of each closure | `Build`, `Subscribe`, `Release` |
| `OwnedMemory` | the lib.rs macros `prepare_memory_to_init`, `access_owned_memory`, `access_loaned_memory`, `move_owned_memory`, `decl_rust_new_owned_type`'s `check`, `make_null`, `delete`; `copy_to_c_array`; the compile-time alignment check of `impl_guarded_transmute!(noderefs ..)` | `slot` (each owned variable: a value or `None`), `unbuilt`, `consumed` (how often each value was dropped or moved into zenoh), `result` (the last return code, or the inputs and output of the last copy) | `InitInto`, `Access`, `Move`, `OwnedCheck`, `MakeNull`, `Delete`, `CopyOut`, `CompileTransmute` (one compilation of the macro for two alignments); the pure operator `AlignmentCheck` (the const block: compiles, or panics with the 20-byte message built from `MsgTemplate` and `AlignDigits`) |
| `BytesMap` | the bytes map API, `z_bytes_map_as_attachment`, `z_attachment`, `z_attachment_null/check/get/len/iterate`, both `from_attachment` constructors, `insert_in_attachment` and `ATTACHMENT_VTABLE` (`attachment_iter`, `attachment_len`) | `maps` (each map variable: gravestone or a map of key to value and the key's `Cow` kind), `atts` (each attachment handle: the variable it points at, the zenoh `Attachment`, or null), `zatt` (the zenoh `Attachment`: a sequence of pairs), `out` (the last answer), `aborted` (a panic in an FFI call) | `New`, `Drop`, `Insert` (by copy or alias), `MapGet`, `MapLen`, `MapCheck`, `AsAttachment`, `AttachmentNull`, `AttachmentCheck`, `AttachmentGet`, `AttachmentLen`, `AttachmentIterate`, `MapFromAttachment`, `MapFromAttachmentAliasing`, `ZenohAttachment` (`z_attachment(&attachment, &ATTACHMENT_VTABLE)`), `IntoZenohAttachment` (`z_attachment_iterate` with `insert_in_attachment` into a new `Attachment`, as a put does) |

The MC modules (`MCHeaderPipeline`, `MCSplitBindings`, `MCSplitPipeline`,
`MCBuildProcesses`, `MCGenericsHeader`, `MCBytesMap`, `MCExtHandles`) supply the model values and input sets.
In `ExtHandles`, whether the session's weak pointer upgrades, whether the key
expression is initialized, and whether zenoh-ext's `res()`, `res_sync()` or
`close()` succeed are nondeterministic choices of each call. `BuildClosure`,
`DropCallback` and `DropClosure` stand for `z_closure` and the sample closure's
drop, which are zenoh code outside the repository, so they are not mapped.
`MCExtHandles` checks `ExtHandles` and `OwnedMemory` side by side. They share
no state, so a behaviour is one of either component, picked by `side` in the
initial state, while the other stays where it started. Each checked property
concerns one component's own variables, so this finds every violation a
product of the two would find, at the cost of the sum of the state spaces
rather than their product. In `OwnedMemory`, the access expression a macro
runs on a live value is abstracted to returning 0.

Data is abstracted to what the properties distinguish:

- In `Tokenizer`, text is a sequence of symbols. A symbol is either a single
  character or one of the keywords and markers the recognizers test as a
  whole (`typedef`, `const`, `#ifdef `, `/*`, ...). The recognizers only
  test such prefixes and single characters, so every decision they take is
  kept. `#include "` is one such marker; the quote that ends it is the one
  `until_incl("\"")` finds, which is why every quoted include panics.
  `MCHeaderPipeline` builds headers from sixteen fragments: `#ifdef`,
  `#else`, `#endif`, both comment forms, public and private `#define`,
  `#include <a>`, `#include "a"`, a struct typedef, a function-pointer typedef, a const
  declaration, prototypes with plain, const and function-pointer parameters,
  and a stray line.
- In `RecordGrouper` alone, a token is its `TokenType` plus an identifier.
- A record is its `RecordType` plus its identifier set.
- A file's content is one of empty, split, replaced or replaced twice.
- A prototype is its convention, return shape and parameter qualifiers.
- A query is its sequence number.
- A bytes key or value is a model value; `NullBytes` is the `z_bytes_t`
  whose `as_slice()` is `None`. A value's `Cow` kind is not kept, because
  every insert replaces it. The key's kind is kept, because `HashMap::insert`
  keeps the stored key.
- HashMap iteration order is a nondeterministic choice among all orders.

Text, formatting, the license header and logging are not modelled.

## Runs

| Run | Expect | Checks |
|---|---|---|
| `header_pipeline` | pass | Every header of up to 3 fragments (15,310 states), tokenized by the code and grouped. `RoundTrip`: no token is lost or duplicated between the header, the records and the text left. `EndifErrorIffUnbalancedPrefix`: the per-record nesting counter, although reset at every record, rejects exactly the headers with an unbalanced `#endif` prefix. `SealedRecordsBalanced`: a sealed record never splits an `#if` from its `#endif`. `TokensAsSpecified`: the code's tokens (whitespace aside) and its failures are those of the reference tokenizer written from spec 4.1. This covers const before function (a prototype with a const parameter is a `Const` token in both) and a stray line running into the next `;`. The headers leave out the two shapes where code and spec disagree; the two violation runs below show those. `EmittedRoundTrip`: what Record's `Display` writes for all records holds every non-whitespace token of the header exactly once. Hoisting comments before the code neither drops nor repeats one. |
| `tokenizer_spec` | violation | `TokensAsSpecified` on one-fragment headers that include `void a(void (*b)());`. The code takes the id before the *last* `(`, which is empty. |
| `tokenizer_include` | violation | `TokensAsSpecified` on one-fragment headers that include `#include "a"`. The code panics at build.rs:691 on the initial state, `<<"#include \"", "a", "\"">>`; spec 4.1 gives a `PreprInclude` token with id `a`. |
| `split` | pass | Two files, two ids, every guide of up to two rules per file, every record sequence of length ≤ 2 plus an optional Empty tail. `ExclusivityPrecedence`: an exclusive rule of any file overrides shared and brand rules. `NoDeclarationDropped`: success means every non-trivial record reached a file, and an is_used failure means one did not. |
| `build` | pass | Two runs, two split files, `split_bindings` succeeding or failing, any leftover `include/` state (32,062 states). If no two runs ever overlapped, the copied headers are complete (`SequentialBuildsComplete`) and no unwrap panics (`SequentialBuildsNoPanic`). No flock is held outside the locked section of `split_bindings`, by a live or a crashed run (`LocksOnlyInSplitSection`). `HangsOnlyInLockCycle` (liveness, under the fairness below): every run exits unless two runs end up each blocked on the split file the other holds. A failed `split_bindings`, whose flocks the kernel releases at exit, never leaves the other run waiting. |
| `build_deadlock` | violation | Two runs, two split files. Opposite HashMap orders make each run hold one lock and wait for the other (`Termination`). |
| `build_race` | violation | Two overlapping runs, one split file. `ConcurrentBuildsSafe` = `BuildOutputsComplete` ∧ `NoPanic`. TLC reports the shortest counterexample, 5 states: run A's `File::create` empties the layout file between run B's nested build and B's read, so B panics at build.rs:121. With `INVARIANT BuildOutputsComplete` alone, TLC reports a 24-state trace: run A truncates `zenoh_macros.h` without a lock while run B copies `include/`, so B ships an empty header. |
| `query_channel` | pass | Bounds 0, 1 and 2; up to 3 queries and 4 recv calls; blocking and non-blocking. `FifoDelivery`: in order, once, and no loss while the receiver lives. `EndOfStreamOnlyWhenDrained`: an action property. `NullIsFinal`: after the end of stream, no further query. `ImplementsFifoChannel`: the channel refines `FifoChannel`. |
| `split_pipeline` | violation | `RoutedAsSpecified` over headers of up to two declarations: the prototypes of `a` and `b`, and balanced `#ifdef` blocks of up to two of them. Two guides are tried. Violated by findings 8 and 9 at once. |
| `generics_defects` | violation | `GeneratedHeaderAsSpecified` (= `MacrosCompile /\ LoanTableAsSpecified`) over the one header `DefectHeaders` (a scenario-4 loan, a drop with a non-const parameter, a closure call). The reported state violates all three conjuncts: `find_drop_functions` tags the non-const parameter `const`, so the C++ `z_drop(const T*)` forwards to `T*` (`CppConstCorrect`); the C `z_closure` body uses `droper`, which is not a macro parameter (`ClosureMacroHygiene`); the loan regex requires a const return, so spec scenario 4's `struct foo_t *foo_loan(const struct foo_t *)` is never mined (`LoanTableAsSpecified`). |
| `ext_handles` | pass | Two closures, three subscriber identities, two subscriber variables and one cache variable, with histories 0–2 and limits None or 1; and two owned variables, three values, and slices and buffer lengths up to 2 (38,873 states). `ClosureAccounting`: every closure built has exactly one owner (the caller's variable or an open subscriber) until its drop runs, the drop runs exactly once, and the callback is never called after it. This holds through dead sessions, failed `res()` and `close()` errnos. `CheckMeansSubscribed`: `ze_querying_subscriber_check` is true exactly when the variable holds an open subscription, also after a failed undeclare. `TypeOK` covers the cache configuration: a `None` resources limit keeps the builder's default. `OwnedValueAccounting`: every value an FFI constructor built has exactly one owner until it is released, and it is released once, through double inits, `make_null`, `delete` and moves. `ImplementsClosureOwnership`: the refinement described below. `CopyWithinBuffer`: `copy_to_c_array` writes nothing through a null buffer and never more than `len` bytes. It writes a prefix of the slice, returns its length, and stops short only at a null or full buffer. `AlignmentMismatchNamed`: over every power-of-two alignment below 10^4, the const block of `impl_guarded_transmute` panics exactly when the two alignments differ. Its message holds ASCII digits at bytes 5–8 and 16–19, and they read as the source and destination alignments. |
| `bytes_map` | pass | Two map variables, one attachment handle, two keys and two values plus the null bytes. `MCBytesMap` declares slots, keys and values symmetric; no property names one of them (73,959 distinct states, about 2.5 minutes). `GetThroughAttachment`: `z_attachment_get` and `z_attachment_len` answer what `z_bytes_map_get` and `z_bytes_map_len` answer on the map the attachment shows *now*, in every iteration order. That includes after that variable was dropped or refilled, and the null attachment. The map shown is either the map variable or the map a zenoh `Attachment` carries. `AttachmentRoundTrip`: copying an attachment into a new zenoh `Attachment` with `insert_in_attachment` gives each shown pair exactly once, in any driver order. Read back through `ATTACHMENT_VTABLE`, it shows the sender's map. `FromAttachmentSnapshot`: a map built from an attachment has exactly its pairs, with keys owned by the copying constructor and borrowed by the aliasing one. |

Every property of a passing run has a mutant in `PROJECT.json`. A mutant is a
plausible bug of the mapped code that makes TLC report that property violated.

### Refinement

`QueryChannel` implements `FifoChannel` under this mapping:

- the abstract buffer is the channel's buffer while the recv end lives, and
  empty after it is dropped;
- a send blocked on a full `sync_channel` has not happened yet, so its query
  is left out of `offered` until `SendWake` completes it.

The run checks the mapping as the temporal property `ImplementsFifoChannel`.
One consequence: a `try_recv` that finds nothing while a sender is blocked
answers "nothing yet" in both specifications.

`ExtHandles` implements `ClosureOwnership`, the FFI's ownership promise for a
sample closure. A closure is built into the caller's variable, passes at
most once to a subscription, and is released once, by whoever owns it then.
Ownership never moves back. The mapping `Owner(c)` takes each closure to one
of four states:

- `"unbuilt"` while it is in `fresh`;
- `"caller"` while it is in `cb`;
- `"subscriber"` while an open subscription holds it;
- `"released"` otherwise.

The `ext_handles` run checks this as the property
`ImplementsClosureOwnership`. The refinement fails if a declaration leaves
the closure in the caller's variable, or if a failed undeclare hands it back.

### Composition

`HeaderPipeline` composes `Tokenizer` with `RecordGrouper`, through
`INSTANCE RecordGrouper WITH text <- Tokenize(header), input <- Tokenize(rest)`.
Each loop iteration of `group_tokens` is one step that:

- takes the token `Token::next` yields;
- advances `Tokenizer::inner` past its span;
- applies `Record::add_token` to it.

The grouper's invariants are re-checked on real header text.

`SplitPipeline` composes `HeaderPipeline` with `SplitBindings`, which is how
`split_bindings` calls them:

- `group_tokens` runs first (`Grouping`, every `HeaderPipeline` step), while
  the splitter's `stage` is `"grouping"`;
- on `Ok`, `Handover` gives the splitter each grouped record as its
  RecordType and the set of its ids;
- the requested-id, routing and `is_used` steps of `SplitBindings` follow
  (`Splitting`).

The grouper's `records` are renamed `grouped` in the instance. The property
`RoutedAsSpecified` compares what was written with a reference written from
the specification: spec 4.2's merge rule (`SpecUpdate`, folded over a
record's classifying tokens) and spec 4.3's `appropriate_files` as a set
(`SpecFiles`).

## Findings

The violation runs show these defects:

1. **Deadlock between concurrent builds.** The lock order comes from HashMap
   iteration (build.rs:242).
2. **Truncate before lock.** Files are truncated before they are locked:
   split files at build.rs:237, `text_replace` at 220, configure at 180. The
   macros header is written with no lock at all (765). The copy reads
   `include/` unlocked.
3. **Panic on the shared layout file.** It can be emptied under a concurrent
   reader (build.rs:73). Findings 2 and 3 share the `build_race` run; see
   the table above for the two traces.
4. **Broken C++ `z_drop` overloads.** The drop miner's const qualifier is
   wrong (build.rs:891).
5. **Loan functions with a non-const return are left out of `z_loan`**
   (build.rs:848).
6. **`z_closure` macro typo:** `droper` (build.rs:1065).
7. **Function prototypes with a function-pointer parameter are misnamed.**
   The id comes from before the last `(` (build.rs:584). No exported
   function has one today, so this is latent.
10. **Every quoted `#include` panics.** `Token::include` tries `#include "`
   first and cuts the span with `until_incl("\"")`. That finds the quote
   that ends `#include "` itself, so the span is those 10 bytes and
   `&span[10..9]` panics (build.rs:691). Spec 4.1 tokenizes `#include "X"`
   with the id `X`. cbindgen writes system includes (`<...>`) into
   zenoh-gen.h today, so this is latent too. The `tokenizer_include` run
   shows it.

The `build` run shows that findings 1–3 need overlapping builds: with no
overlap, the outputs are complete and nothing panics.

8. **Same-kind blocks become `Multiple`.** `RecordType::update` makes a
   record of two declarations of one kind `Multiple` (build.rs:383). Spec 4.2
   says only different kinds do, and scenario 5 keeps a one-kind conditional
   block `Function`. A `:functions` rule never routes such a block.
9. **Duplicate writes.** `appropriate_files` lists a file once per matching
   rule (build.rs:326), and the record is written once per entry. Spec 4.3
   returns a set.

Findings 8 and 9 show in the same state of the `split_pipeline` trace. The
header is `#ifdef a` / `void b(a);` / `void a(b);` / `#endif`. The guide is
f1: `[a, b]`, f2: `[:functions]`. The block is `Multiple`, written twice to
f1 and never to f2; the specification writes it once to each.

## Bounds

- **Build runs.** Two runs and one or two split files are enough for every
  interleaving of two writers on one file, and for opposite lock orders. A
  third run adds no new kind of step.
- **Header pipeline.** Three fragments allow an `#ifdef`, a declaration and an
  `#endif`; a declaration, an `#endif` and a further record; and each
  recognizer shadowing the next (const before function, stray lines running
  into the next `;`).
- **Split.** Two files and two ids give exclusive, shared and brand rules in
  conflict.
- **Query channel.** Bound 2 with 3 sends reaches both a full buffer and a
  blocked sender.
- **Bytes map.** Two variables are needed: one holds the map an attachment
  points at, the other receives `from_attachment`. Two keys give two
  iteration orders and an early break before the last pair. Two values make
  a replaced value visible.

- **ExtHandles.** Two closures and two variables let one closure sit in the
  caller's variable while another is owned by a subscriber. Three subscriber
  identities allow declare, undeclare and declare again into both variables.
  Histories 0–2 and limits None/1 distinguish the configurations.
- **OwnedMemory.** Two variables and three values allow a second init of a
  live variable, and a move out of one variable next to a live one. Slices
  and buffers up to 2 bytes cover a null buffer, a zero length, an exact
  fit and a truncation. The alignments are every power of two from 1 to
  8192, the ones a type can have while the four-digit message can still
  name them.

## Fairness

`BuildProcesses` assumes weak fairness of each run's steps,
`WF_vars(Step(p))`. Each run is an OS process, and the scheduler keeps running
a process that can run. A blocked `lock_exclusive` is not an enabled step, so
fairness cannot make a waiting run proceed. That is why `build_deadlock`
reports a behaviour that ends with both runs waiting on each other's lock,
which violates `Termination`.
In the `build` run the same fairness gives `HangsOnlyInLockCycle`: apart
from that lock cycle, every run exits.

`QueryChannel` assumes no fairness. Its threads park and wake inside
`std::sync::mpsc`, not in this code, so a property about those wakeups
would check the standard library, or the fairness assumption itself.
Nothing forces the application to call `recv` or drop an end, nor zenoh to
send, so the channel's properties are safety properties and the refinement.

The other modules check safety properties only.

## Not modelled

- **zenoh's `Attachment` itself.** Its source is not in this repository.
  `BytesMap` takes it to be what `insert_in_attachment`, `attachment_iter`
  and `attachment_len` use it as: a sequence of pairs that `insert` appends
  to, `iter` visits in order and `len` counts. The model keeps one such
  `Attachment`, the one the last put built. A handle that views it reads
  that one.
- **User v-tables (`z_attachment_vtable`, `z_attachment` with a v-table of
  the application).** The driver is application code, so it can break the
  driver contract in any way.
- **The transmutes of `impl_guarded_transmute` and `decl_rust_copy_type`
  (`lib.rs`).** Only their compile-time alignment check is modelled. The
  transmutes themselves turn Rust values into C layouts. Their correctness is about memory
  layout and pointer validity, which a state-machine model cannot reach.
  `zc_init_logger` and the feature test have no state of their own.
- **Inside zenoh-ext.** The FetchingSubscriber's fetch and merge of
  replies, and the publication cache's storage, are zenoh-ext code that is
  not in this repository. The querying subscriber's reliability option only
  reaches that code, so it is not modelled.
- **The missing destructors.** `publication_cache.rs` has no undeclare or
  drop function, and `querying_subscriber.rs` has no drop or loan function.
  A cache, once declared, is never released. There is no action to model,
  so this is a hazard without a property.
- **`shm/cleanup.rs`.** A single call into zenoh's shared-memory cleanup.
- **The text of opaque-type generation.** Only the shared layout file's
  life cycle is modelled.
- **`#if ` and `#ifndef `.** `Token::prepr_if` treats them exactly like
  `#ifdef `, so the fragments use `#ifdef ` only.
- **Properties of the generated macros that hold by construction.** The C
  tables and the C++ overloads are generated from the same mined list, so
  they cover the same types for every header. Each `_Generic` arm is well
  typed for the same reason. `GenericsHeader` is therefore checked only for
  its defects (`generics_defects`).
- **The wakeups of a thread blocked in `std::sync::mpsc`.** See Fairness.

## Plan

Later work, in this order:

1. An abstract atomic-build specification that `BuildProcesses` refines when
   runs do not overlap.
2. A calling-convention check for `CallDropped`: the out-parameter left
   unwritten after a call on the dropped channel.
3. The user v-table constructors `z_attachment_vtable` and `z_attachment`,
   with an application driver that breaks its contract (calls the body after
   a non-zero return).
