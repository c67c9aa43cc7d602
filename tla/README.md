# TLA+ models of system-interface

`system-interface` is a Rust crate of extension traits over the I/O types of
std: positioned reads and writes, append, vectored transfers, peeking, counting
the bytes ready to read, and status flags, on POSIX and on Windows.  It keeps
almost no state of its own.  What can go wrong is what happens *between* the
system calls it makes on descriptions, files and streams it shares with others,
and in the arithmetic of the loops and adaptors around them.  That is what
these modules are about.

Source lines below are relative to the crate: `file_io_ext.rs` is
`src/fs/file_io_ext.rs`, and so on.

## The system

| Component | Source | State | Operations | Interacts with |
|---|---|---|---|---|
| append on POSIX | `file_io_ext.rs` 525-585 | flags and position of the open file description; locals `old_flags`, `old_pos`, `result` per call | `append`, `append_vectored` | every user of the same description; other descriptions of the file |
| transfer loops | `file_io_ext.rs` 121-300, 328-402; `io_ext.rs` 34-52, 101-113, 134-207 | the caller's slices (edited in place), local offset | `read_exact_vectored[_at]`, `write_all_vectored[_at]`, `append_all[_vectored]`, `write_all_at`, `advance[_mut]`, `skip_leading_empties` | the scalar or vectored call of the implementing type |
| whole-file reads | `file_io_ext.rs` 1039-1076 | the caller's `Vec` or `String`, `tmp` | `read_to_end_at`, `read_to_string_at` | processes that change the file |
| status flags | `fd_flags.rs` | flags of the description (POSIX); the handle itself and the reopened one in `SetFdFlags` (Windows) | `get_fd_flags`, `new_set_fd_flags`, `set_fd_flags` | append, and every other writer |
| positioned I/O on Windows | `file_io_ext.rs` 606-777, 1003-1037 | a fresh handle per call | `read_at`, `write_at`, `append`, ... through `reopen*` | status flags (access mode of the handle) |
| peek | `peek.rs`; `io_ext.rs` 237-252, 307-327 | what a `BufRead` buffers | `Peek::peek`, `IoExt::peek`, `peek_from_bufread` | reads on the same reader; other users of a file |
| read readiness | `read_ready.rs` | none | `num_ready_bytes` | adaptors ask the reader inside them |
| capability probes | `is_read_write.rs` | none | `is_read_write` | `num_ready_bytes` of a file |
| advise, allocate | `file_io_ext.rs` 405-471, 608-622 | none | `advise`, `allocate` | - |
| delegating implementations | all files | none | cap_std, async_std, socketpair, os_pipe, ssh2, socket2 types forward | the std types |

What is hard in it, and what makes each part correct:

* **append** borrows a shared description for five system calls where
  `pwritev2` is missing.  Others run in between; any call may fail; the two
  restoring calls are unwrapped.  Correct: the bytes go to the end of the file
  and overwrite nothing; flags and position are as before; an error means that
  nothing was written.
* **transfer loops** walk the slices twice, once in the kernel and once in
  `advance`, and only a count connects the walks.  Short counts, `EINTR`, empty
  slices and an `iovec` limit come in any order.  Correct: every byte once and
  in order, `Ok` only when all moved, `UnexpectedEof` only at an end, pointers
  within the caller's buffers, and the call returns.
* **whole-file reads** fix the length by one `fstat`, while the file may grow,
  shrink or be overwritten.  Correct: growth is harmless, only shrinking gives
  `UnexpectedEof`, a `String` is always UTF-8 and unchanged by an error.
* **status flags** are made into a token in one call and set in another; on
  Windows the token is a reopened handle, which then replaces the whole handle.
  Correct: what is in force is one user's whole choice, no handle refers to a
  closed object, and no sequence of sets loses what the file was opened for.
* **positioned I/O on Windows** has no call that leaves the position alone, so
  each method reopens the file and works on the new handle while others use,
  replace or write through the old one.  Correct: nobody's position moves, bytes
  go to one run of places from the offset on, and append is still an append.
* **capability probes** ask a socket twice.  Correct: each half of the answer was
  true at some instant of the call.
* **peek** must show what the next read will return, through adaptors that
  buffer, and over an `lseek` and a `pread` on a file that others use.
* **read readiness** promises that bytes it counts can be read without waiting;
  adaptors add, cap and pass on each other's counts in `u64`.

`PROJECT.json` lists each hazard at its line with the properties that cover it.

## Modules

| Module | Models | Extends |
|---|---|---|
| `FileData` | the kernel side of one regular file: bytes, position, `F_SETFL` | |
| `OpenFile` | what append promises the users of a description | `FileData` |
| `FdAppend` | append and append_vectored as the system calls they make, with the other operations on the description | `FileData` |
| `FileData_proofs` | lemmas about writes and truncations | `FileData` |
| `FdAppend_proofs` | theorems about `FdAppend` | `FdAppend`, `FileData_proofs` |
| `VectoredTransfer` | the retry loops and slice arithmetic | |
| `VectoredTransfer_proofs` | theorems about it | `VectoredTransfer` |
| `ReadToEndAt` | `read_to_end_at`, `read_to_string_at` | |
| `ReadToEndAt_proofs` | theorems about it | `ReadToEndAt` |
| `Handles` | handles and the objects they refer to: the flags on both platforms, and the socket probes | `FileData` |
| `WindowsFile` | positioned and appending I/O on Windows over `Handles`, with other users of the handle and the file | `Handles` |
| `WindowsFile_proofs` | theorems about the handles | `WindowsFile` |
| `WindowsCalls_proofs` | theorems about the calls on reopened handles | `WindowsFile_proofs`, `FileData_proofs` |
| `Readers` | `Peek`, `IoExt::peek`, `ReadReady` over std's readers and adaptors | |
| `Readers_proofs` | theorems about counts, promises and panics | `Readers` |
| `ReadersPeek_proofs` | theorems about peeks | `Readers_proofs` |
| `MC...` | the instances TLC checks | the module named |

### FdAppend, and the promise OpenFile

Each system call is an action, and `pc[u]` names the call user `u` makes next:
`pwritev2`, then (when the kernel or file system refuses it, or off Linux)
`getfl`, `tell`, `setfl`, `write`, `restorefl`, `restorepos`.  A `?` in the code
is `ReturnEarly`; an `unwrap` that fails is `RestorePanics`.  `result` is kept
over the restoring calls, as in the code.  Other users `Write`, `WriteAt`,
`Seek` and `SetFdFlags` between any two steps; another description resizes the
file, and somebody may set the append-only attribute.  Bytes are known by who
wrote them, so overwriting is visible.

`exclusive` says whether users serialise their calls on the description.  The
trait documents that append is not atomic (248-249); the discipline is what
those who need it must do.

`append_only` is the attribute that `chattr +a` sets on Linux: while it is there
`F_SETFL` refuses to change `O_APPEND` in either direction (`MaySetFl`), for the
switch, the restore and `set_fd_flags` alike, and nobody shortens the file; a
description opened before may be in either mode.  Elsewhere (`pwritev2 =
"absent"`) `F_SETFL` does not check, and the attribute is left out.

`OpenFile` is the abstract specification: an append takes effect at one instant
between request and response, at the end of the file or not at all, and leaves
position and flags alone.  `KeepsPromise` is `OpenFile!Spec` under the
refinement that shows, while a fallback has the description borrowed, the flags
and position it saved.

### VectoredTransfer

A buffer is a range of the bytes to move, so `ptr[i]`, `len[i]` are numbers and
a slice that leaves its buffer is visible.  `KernelMovesSlice`, `KernelStops`
and `KernelReturns` are `readv`/`writev` (or, with `gather = "first"`, the
default vectored methods, which look at the first non-empty slice) over the
slices as the code has edited them; `ScanSlice` and `Trim` are `advance` and
`advance_mut`, of which each file has a copy.  `data[x]` records which byte of
the stream met byte `x` of the buffers.

### ReadToEndAt

`Allocate` is the `fstat` and the resize, `Pread` one `pread` of
`read_exact_at`; between them others append, truncate and overwrite, as far as
`changes` allows.  Bytes are UTF-8 classes, enough for a writer to break a
character in two.

### Handles and WindowsFile

An object is an open file description, a Windows file object or a socket, with
its access, flags and position; `handle[u]` is the object user `u` refers to,
and all start with clones of one handle.  On POSIX `set_fd_flags` changes the
object; on Windows `token[u]` is a reopened object and setting it changes
`handle[u]`, closing the old object with its last handle.  Between making a
token and using it others do the same.  `SendProbe` and `RecvProbe` are the two
probes of `is_read_write`, with `Shutdown` between them.

`WindowsFile` adds the file and, per user, a call: `Reopen`, then `SeekReopened`
where the code seeks, then `ReadFile` or `WriteFile` until the loop of the
method is done; `write_all_vectored_at` goes back to `Reopen` for each slice,
and any step may fail.  The buffers of a call are where each ends in the bytes
they make up together (`ends`), `buf` is the current one, and `places` where the
call has moved its bytes.  `Place` is where the bytes go, which depends on the
access the handle was reopened with.  Others seek and write through the
original handle and resize the file meanwhile; a user inside a call makes no
other, since a thread is the model's user.  `KeepsPromise` shows that append by
reopening implements the same `OpenFile` as append on POSIX, with the methods
that take an offset as the writes at an offset of that specification.

### Readers

A reader is the sequence of the readers it is made of.  An adaptor names those
inside it by their numbers, which are smaller than its own, and the last is the
user's.  `Methods[n]` holds the methods of the n-th reader, each a function of
the call: `ReadFrom` and `FillBuf` say how std reads and buffers, and are
external to the crate; `NumReady` is `num_ready_bytes` with its `u64`
arithmetic, as the set of answers it may give: the sum or difference out of
range panics or wraps, depending on the build.  `Methods` is a recursive
function rather than a `RECURSIVE` operator so that it can be proved about.

`StdinLock` has std's buffer in front of the kernel's, and counts only the
latter; a pipe on Windows peeks with `PeekNamedPipe` and counts nothing.  On a
file, `num_ready_bytes` and `peek` are two steps, with other users in between.

`promised` and `peeked` are what the last answer said of the reads to come, as
far as no read has taken it.  Nothing counts as promised when another user
touched the file, or when a `Chain` answered for a first reader it has left:
that count is stale whatever it is.  `ReadersAssumption` leaves out a `BufReader`
of capacity 0, which reads nothing, and asks that `Stdin` stands over a pipe and
that all a reader's buffers, data and kernel queues together fit a `u64`.

## Runs

| Run | Question | Distinct states |
|---|---|---|
| `append_atomic` | is append the atomic append of `OpenFile`, where `pwritev2` works with calls interleaved, and on the fallback with calls serialised? | 153 thousand |
| `append_appendmode` | on a description opened in append mode, do interleaved fallbacks keep it so, never panic and never overwrite? | 1.4 million |
| `append_shared` | what do the fallbacks of three users do at worst to the flags, and, when they take turns and a restoring `F_SETFL` panics, to the file? | 361 thousand |
| `append_drift` | is the description as before once all interleaved calls are over?  No: a finding | |
| `transfer_loops` | do all seven loops move every byte once, in order, within bounds, and return? | 454 thousand |
| `transfer_zerowrite` | does `write_all_at` return when a write moves nothing?  No: a finding | |
| `readtoend_changes` | what do the whole-file reads return while others change the file? | 258 thousand |
| `readtoend_nonempty` | does `read_to_end_at` add the bytes to a `Vec` that holds some?  No: a finding | |
| `readers` | do peek and `num_ready_bytes` tell the truth about the next read, for 26 readers? | 344 thousand |
| `readers_overrun` | does `num_ready_bytes` always answer?  No: a finding | |
| `windows` | do sets of flags stay one user's choice and keep the right to write, do probes answer truly, do Windows' positioned calls move one run of bytes in order and nobody's position, and does append keep `OpenFile`'s promise? | 235 thousand |
| `windows_sync` | is what goes through a handle that reports `DSYNC` written through?  No: a finding | |

### Bounds, and why they are enough

* append: two users with a file of at most three bytes and buffers of up to two
  give every overlap of two calls, short writes (1 of 2), writes refused for
  lack of room, a position beyond the end (a hole) and one inside the old
  bytes.  A third user (`append_shared`) is the first who can restore flags
  that were saved while two others were inside, and when one has panicked there
  are two to interleave what they do to the file, whose one byte any write at
  position 0 outside append mode overwrites.  Nobody calls `set_fd_flags` in that
  run; the theorem has no such restriction.
* transfers: four slices cover an empty slice before, between and after full
  ones; `IovMax = 2` makes the kernel see only part of them; four bytes allow
  every split of a count.  `Limits` holds 4, a kernel that keeps offsets below
  the code's largest (5 here), and 9, an implementor of the trait that does
  not: only then can the `checked_add` fail.
* whole-file reads: two bytes are one character; `AllocMax = 3` is less than
  both buffers together, so that the capacity overflow happens.
* readers: `Sizes` 1 and 3 with a `BufReader` of capacity 2 give reads that go
  through its buffer and past it; the peer sends two bytes; the file is started
  with its position at the start and beyond its end; `U64Max` is 15, larger than
  any true sum, so that only `Repeat` and overruns reach it.

* handles: two users and four objects are enough for both to hold a handle and
  a token of their own.  `MCSetups` starts with the flags calls and the
  positioned calls apart, because they multiply (they meet in `windows_sync`);
  files are opened to read, to append, and to do everything.  One user makes
  the positioned calls, the other disturbs; `MCLayouts` has empty slices before
  and after full ones, and slices of two bytes, so that counts can be short, and
  `MaxLen = 3` makes a write run out of room in the middle of a slice.

Objects are symmetric in `WindowsFile`.  Users are symmetric in `FdAppend` (nothing there orders or names them), so its
runs use symmetry.  No run with a liveness property does.

### Deadlock and fairness

Deadlock is checked in the append runs but `append_shared`, where
all users may have panicked.  The transfers and whole-file reads end by design; a reader may
wait for a peer that sends nothing more, or have panicked.  The Windows runs
check for deadlock.

`VectoredTransfer!FairSpec`: weak fairness of the code's own steps (the thread
runs) and strong fairness of the kernel's moving bytes or failing, that is, it
does not answer `EINTR` for ever.  Without the latter the retry loops rightly
do not end.  `ReadToEndAt!FairSpec`: weak fairness of the calling
thread's steps other than failures, so that the call does not end merely because
a `pread` may fail; no fairness of the other processes.  The other modules state safety only.

## Findings

1. `append`'s fallback: two overlapping calls can leave the description in
   append mode, or at another position, after *both* have returned
   (`append_drift`).  The caveat in the trait speaks of atomicity; the comment
   says the code switches back.
2. `write_all_at` and its relatives retry an `Ok(0)` for ever
   (`transfer_zerowrite`); std's method, to which the trait likens it, reports
   `WriteZero`.
3. `read_to_end_at` into a non-empty `Vec` overwrites it and fails with
   `UnexpectedEof` (`readtoend_nonempty`): it passes all of `buf` to
   `read_exact_at`, not the part it added.
4. `num_ready_bytes` of a file positioned beyond its end, or a `Cursor` beyond
   its data, underflows (`readers_overrun`).
5. On Windows the methods that write reopen the file without
   `FILE_FLAG_WRITE_THROUGH`: on a handle that reports `DSYNC` what they write is
   not synchronized (`windows_sync`), although `new_set_fd_flags`, which reopens
   too, passes the flag again.

What `ReadyDoesNotBlock` excepts does happen as well: a `Chain` passes on the
count of its first reader, and `Empty` reports 1, so a `Chain` of `Empty` and a
socket reports a byte that the next read waits for.  (Without the exception TLC
finds it in three states.)  `PeekedIsReady` leaves stdin out, whose buffer
`num_ready_bytes` does not count.  `PeekIsReread` leaves out a bare file that
another user moves or changes, of which no peek could promise anything.  And
where fallbacks interleave, a `write_at` in the middle of an append ignores its
offset, as the trait documents for append mode.

## Proofs

`FdAppend_proofs` proves, for every set of users, file, buffer length and flags:

* `TypeCorrect`: `Spec => []TypeOK`.
* `AppendsAtEndThm`: `Spec => AppendsAtEnd`, under `Disciplined`.
* `KeepsPromiseThm`: `Spec => Promise!Spec` (the refinement of `OpenFile`),
  under `Disciplined`.

`Disciplined` assumes that in every mode `pwritev2` works or calls are
serialised, and that the append-only attribute is not set meanwhile.
The first half is needed: `append_drift` breaks the promise without it.  So is
the second: in `append_shared`, where the attribute may be set during a call,
`RestorePanics` happens.

`TypeOK` is inductive by itself, from the named lemmas on `Splice`, `Resize`
and `SetFl`.  The other two need `IInv`, which adds

* at most one call is in progress when calls are serialised (`AtMostOneCall`),
  and no call is in the fallback when `pwritev2` works (`NoFallback`): together,
  at most one user has the description borrowed;
* `SavedFlags` and `SavedPos`: at each step of the fallback, how `oflags` and
  `pos` relate to what the borrower saved (equal before the switch, with
  `APPEND` added while it lasts, equal again after);
* `NoPanic`, with `AppendOnlyKept`: a file that may only be appended to has had
  `APPEND` in its flags since it was opened, so the restoring `F_SETFL` is never
  refused.

From `IInv` the write of a fallback happens with `APPEND` in the flags, hence at
the end; and each step of the code maps to a step of `OpenFile` or to a stutter:
`WriteAppended` and `Pwritev2Appends` to the instant of the append, the saving
and restoring calls to nothing, because the apparent flags and position do not
change over them.  `IInv` was model-checked on the instance of `append_atomic`
before it was proved.

The rest of `FdAppend_proofs` is about fallbacks that do interleave.  With `AppendMode`
(opened in append mode, and no user ends it) `ModeInv` says that whatever a call
will put back contains `APPEND`: hence `AppendModeKept`, and `NeverPanics`,
since no restoring `F_SETFL` can be refused.  With `NobodySets`, `DriftInv` says
that flags saved and in force differ from the original ones by `APPEND` at most.
`AfterPanicOnlyAppendsThm` is about users who take turns, while the attribute may
appear at any moment.  `StrandedInv` says that from its switch to the end of its
restore a call keeps the description in append mode; so a restore that is
refused is one that would end append mode, on an append-only file, where from
then on no `F_SETFL` can.  When calls overlap nothing of the kind holds: with `{}`
saved by one user and `{APPEND}` by another, the first may restore `{}` before
the attribute appears, and the second is then refused and panics with the
description *out* of append mode, so that later writes overwrite.
`AppendsAtEndInterleavedThm` says that with `AppendMode` every append, however
many overlap, still goes to the end: the one case where the fallback needs no
discipline.

`VectoredTransfer_proofs` proves the eight safety properties of the loops for
every number of slices, every layout, `IovMax`, offset and count.  The heart of
`TInv` is `Walk`: `Pending(b, x)`, the slices from `b` on hold exactly the bytes
from `x` on, relates the kernel's walk (`Pending(cur, moved + n)`) to the scan of
`advance` (`Pending(base + remove, ...)` by `acc`).  `Shape` keeps slices in
their buffers and untouched beyond `base`; `Offsets` ties `offset` to `moved`
while nothing wraps; `Source` says that a read of nothing is at the end, which
rests on `SkipLeadingEmpties`; `Copied` is `InOrder` during a system call.  The
layout assumption is that edges do not decrease.

`ReadToEndAt_proofs` proves the six safety properties of the whole-file reads
for every file, buffer and offset.  `RInv` relates the target to the history:
`Delivered`, what the preads put there was in the file at its place; `Kept`,
while others only append the file keeps, as a prefix, what `fstat` saw, and the
target a prefix of that; `Reading` bounds the target by the length `fstat` saw.
`Utf8Concat` shows that pushing a valid string keeps the caller's valid.

`WindowsFile_proofs` proves, for any users, objects, requests and setups, that
handles refer to open objects (`HandlesTypeOK`), and `FlagsInForce`,
`KeepsCapability` and `ProbeBetween`.  `HInv` adds to the types that a token's
object is its own (`HFresh`), that objects held by a handle *or a token* report
what was set and can do what the file was opened for (`HLive`: a token becomes a
handle later), what tokens may ask (`HTokens`), and that a probe saw no fewer
sides than are open now (`HProbe`).

`WindowsCalls_proofs` proves the rest of what the run `windows` checks.  `WInv`
adds to `HInv`

* `Positions`: an object that is still a token has position 0, so that a handle
  which is replaced starts there, while nobody but the users of a handle moves
  its object: hence `PositionKept`;
* `OneHandle`: users who do not set flags keep one object, with the access it
  was opened with, which is what `OpenFile` calls the description;
* `GoodCall`, of each call: its reopened handle is open only while it is used,
  has the access the method needs and, where the method seeks, is where the call
  has got to (`ReopenedInCall`); the places moved are the run from `base` to
  `offset` (`OneRun`); and the current buffer is the first with bytes left
  (`InBuffers`), which makes an `Ok` of a whole-buffer method mean all of them:
  hence `MovedInOrder`.

`KeepsPromise` maps each step to `OpenFile`: the start of an append to its
request, its `WriteFile` to the instant of the append, its failure to the
refusal, the reopen to nothing; a positioned write that moves bytes to a write
at an offset, and the steps of the handle to those of the position.  Proving it
showed two `CASE`s whose guards overlapped, so that what they meant depended on
the order TLC tries them in; the guards are now exclusive.

All strengthened invariants were checked by TLC before they were proved.

`Readers_proofs` proves `TypeOK`, `ReadyDoesNotBlock` and `PanicIsOverrun` for
every reader that can be built, of any depth, not just the 26 of the run.

* *Methods.*  tlapm does not know that a recursive function satisfies its
  equation.  `MethodsEquation` shows it: a function that satisfies it up to `n`
  exists for each `n` (`PartialMethods`) and any two agree.  Each fact about all
  readers is then proved by induction on their numbers, as a proof that no
  least number fails (`LeastNumber`; the induction theorems of the library take
  an operator, which the provers cannot instantiate).
* *Well-formedness.*  `ReadIsValid`, `FillIsValid`: a call of the n-th reader
  leaves the readers after it alone, turns those up to it into what they may
  become (`Later`), and only takes from the kernel (`Drained`).
* *Promises.*  A promise to the user is kept by promises of the readers below:
  `Backed(p, n, t, w)` says that the first `n` readers of `t` can each keep `p`,
  a `BufReader` by its buffer and the reader inside it, a `Take` within its
  limit, a stream by what the kernel holds.  `ReadKeepsPromises` and
  `FillKeepsPromises` say that a call on a reader that owes bytes does not
  block, ends with a byte or an error (or its count was overstated), and leaves
  a backed promise, less what was read; `AllAnswers` says that what
  `num_ready_bytes` returns is backed and fits.
* *The invariant.*  `RInv` adds to the three properties that all counts fit a
  `u64` (`Fits`), that what is promised is backed (`Promise`), and that the
  length `fstat` returned holds until another user touches the file.

A `Chain` that leaves its first reader after it answered keeps the promise;
only one that had left it when it answered is excepted (`AsksLeft`).

`ReadersPeek_proofs` proves the two action properties of the readers, again for
every reader.

* *What readers hold.*  `Held(t)[n]` is the bytes that the n-th reader returns
  before it asks the kernel: the data, the buffer, a prefix of what is inside a
  `Take`, what the current reader of a `Chain` holds.  `ReadTakesFront`: a
  read of a reader that holds bytes returns a front of them and leaves the rest.
  `FillShowsHeld`: after a `fill_buf` that succeeded a reader holds what it
  showed, and one that failed or waited held nothing.  `Source` adds the
  kernel's bytes for a bare stream or file.
* *PeekIsReread.*  `SInv` adds to `RInv` that the bytes peeked and not yet read
  are a prefix of `Source` (for `Repeat`, zeros), and that a peek at a file which
  nobody disturbed goes on at the position its `lseek` returned.  Each peek
  establishes it, each read keeps it less what it took, bytes that arrive come
  behind it, and what others do to a file leaves what a `BufReader` holds.  So
  the next read cannot block, fail or return other bytes.
* *PeekedIsReady.*  `ReadyCountsHeld`, by induction on the reader: an answer is
  at least what the reader holds, since with no reader that overruns no sum
  wraps (`Answers`), and a `Take` caps both alike.  With `PInv`, which adds that
  nothing of a bare pipe is ever peeked (its count may be 0 although it holds
  bytes), an answer is at least what was peeked.

Every safety property of the passing runs, invariant or action property, has its
theorem.  Only model-checked: liveness (`Terminates` of the loops and of the
whole-file reads; fairness is out of the prover's reach).

## Not modelled

* `advise`, `allocate`: one system call each, no state of the crate; on Windows
  one does nothing and the other refuses.
* Types of other crates that forward to the std types (cap_std, async_std,
  socketpair, os_pipe, ssh2, socket2, char-device), redox, build scripts.
* `is_read_write` of a file: one question to the system, which changes nothing.
* `read`, `write` and their `_all`, `_fmt` and `flush` forms of `IoExt`, which
  call std's, except as steps of other users.
* `offset as usize` and similar casts on 32-bit targets.
* Sharing modes and permissions that make a reopen fail on Windows: a reopen may
  fail at any time.

## Plan

All modules of the plan are written, and the safety properties proved.  What
would add most next, in this order:

1. A property for `write_at` on a Windows handle in append mode, which writes at
   its offset where Linux would append.
2. The round trip of `get_fd_flags` through `set_fd_flags`.
3. `is_read_write` of a file, and `num_ready_bytes` of the types that forward to
   a socket (`socketpair`, `ssh2`).
