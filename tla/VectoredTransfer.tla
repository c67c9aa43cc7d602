-------------------------- MODULE VectoredTransfer --------------------------
(***************************************************************************)
(* The retry loops of src/fs/file_io_ext.rs and src/io/io_ext.rs that move *)
(* a whole list of buffers although each system call may move less:        *)
(* read_exact_vectored, read_exact_vectored_at, write_all_vectored,        *)
(* write_all_vectored_at, append_all_vectored, and their single-buffer     *)
(* relatives write_all_at and append_all.                                  *)
(*                                                                         *)
(* A buffer is a range of the bytes to move: byte x of the transfer is the *)
(* x-th byte of the caller's buffers laid end to end, counted from 0, and  *)
(* buffer i holds the bytes edge[i - 1] .. edge[i] - 1, so an empty buffer *)
(* is two equal edges.  The code edits the caller's slices in place:       *)
(* ptr[i] and len[i] are what slice i says now.  readv and writev walk     *)
(* those slices on their own, in pc "kernel"; the code then walks them     *)
(* again in advance, knowing only the count.  A single-buffer method has   *)
(* its buffer in slice 1 and leaves the others empty.                      *)
(***************************************************************************)
EXTENDS Integers

CONSTANTS
  N,           (* number of slices the caller passes                      *)
  Layouts,     (* the edges they may have                                 *)
  Ops,         (* the methods called, from the table below                *)
  Gathers,     (* of "iovec" (readv, writev) and "first" (the default     *)
               (* *_vectored methods: first non-empty slice only)         *)
  IovMax,      (* slices one readv or writev looks at                     *)
  Starts,      (* offsets callers pass to the positional methods          *)
  Limits,      (* largest offsets an implementor may accept; off_t limits *)
               (* the kernel to less than half of OffsetMax               *)
  OffsetMax,   (* largest offset the code can represent (u64)             *)
  Lengths,     (* how many bytes a source may hold before its end         *)
  ZeroWrites   (* may a write of a non-empty buffer report Ok(0)?         *)

ReadOps == {"read_exact_vectored", "read_exact_vectored_at"}
PositionalOps == {"read_exact_vectored_at", "write_all_vectored_at", "write_all_at"}
SliceOps == {"write_all_at", "append_all"}   \* one buffer, a subslice per turn
AllOps == ReadOps \cup PositionalOps \cup SliceOps
            \cup {"write_all_vectored", "append_all_vectored"}

ASSUME TransferAssumption ==
  /\ N \in Nat \ {0}
  /\ IovMax \in Nat \ {0}
  /\ \A e \in Layouts : e \in [0 .. N -> Nat] /\ e[0] = 0
                        /\ \A i, j \in 0 .. N : i <= j => e[i] <= e[j]
  /\ Ops \subseteq AllOps
  /\ Gathers \subseteq {"iovec", "first"}
  /\ Starts \subseteq 0 .. OffsetMax /\ Lengths \subseteq Nat
  /\ Limits \subseteq Nat /\ OffsetMax \in Nat
  /\ ZeroWrites \in BOOLEAN

VARIABLES
  op,       (* the method called                                          *)
  edge,     (* the caller's buffers                                       *)
  start,    (* the offset it was called with                              *)
  gather,   (* which slices its system calls look at                      *)
  limit,    (* the largest offset they accept                             *)
  size,     (* bytes the source holds, from start on (reads)              *)
  pc,       (* where the call is                                          *)
  ptr, len, (* the caller's slices as edited so far                       *)
  base,     (* bufs is the slices base .. N                               *)
  offset,   (* the local offset                                           *)
  n,        (* bytes the current system call has moved: nread, nwritten   *)
  cur,      (* slice the kernel is at                                     *)
  last,     (* last slice it will look at                                 *)
  remove,   (* locals of advance: slices used up,                         *)
  acc,      (*   and accumulated_len                                      *)
  moved,    (* bytes moved by the system calls that have returned         *)
  data,     (* data[x]: the byte of the stream that x was exchanged with  *)
  outcome   (* what the method returned                                   *)

inputs == <<op, edge, start, gather, limit, size>>
slices == <<ptr, len>>
vars == <<op, edge, start, gather, limit, size, pc, ptr, len, base, offset, n, cur, last,
          remove, acc, moved, data, outcome>>

Reads == op \in ReadOps
Positional == op \in PositionalOps
Total == edge[N]
None == -1

Init ==
  /\ op \in Ops /\ edge \in Layouts /\ start \in Starts /\ size \in Lengths
  /\ gather \in Gathers /\ limit \in Limits
  /\ op \in SliceOps => edge[1] = edge[N] /\ gather = "iovec"
  /\ pc = IF op \in ReadOps THEN "skip" ELSE "loop"
  /\ ptr = [i \in 1 .. N |-> edge[i - 1]]
  /\ len = [i \in 1 .. N |-> edge[i] - edge[i - 1]]
  /\ base = 1 /\ offset = start
  /\ n = 0 /\ cur = 1 /\ last = 0 /\ remove = 0 /\ acc = 0
  /\ moved = 0 /\ data = [x \in 0 .. Total - 1 |-> None]
  /\ outcome = "none"

Finish(how) == pc' = "done" /\ outcome' = how

\* Where a turn of the loop goes back to: only the reading loops look for a
\* non-empty slice again.
NextTurn == IF Reads THEN "skip" ELSE "loop"

-----------------------------------------------------------------------------
(***************************************************************************)
(* The loops                                                               *)
(***************************************************************************)

\* Mutant of SkipLeadingEmpties: the slices are taken as they come.
MutantNoSkip ==
  /\ pc = "skip" /\ pc' = "loop"
  /\ UNCHANGED <<inputs, slices, base, offset, n, cur, last, remove, acc, moved, data, outcome>>

SkipLeadingEmpties ==
  /\ pc = "skip"
  /\ \/ base <= N /\ len[base] = 0 /\ base' = base + 1 /\ UNCHANGED pc
     \/ (base <= N => len[base] # 0) /\ pc' = "loop" /\ UNCHANGED base
  /\ UNCHANGED <<inputs, slices, offset, n, cur, last, remove, acc, moved, data, outcome>>

\* `while !bufs.is_empty()`, `while !buf.is_empty()`
Exhausted == IF op \in SliceOps THEN len[1] = 0 ELSE base > N

LoopEnds ==
  /\ pc = "loop" /\ Exhausted
  /\ Finish("Ok")
  /\ UNCHANGED <<inputs, slices, base, offset, n, cur, last, remove, acc, moved, data>>

\* The slices a system call looks at: as many as readv takes, or all, up to
\* the first one that is not empty.
Call ==
  /\ pc = "loop" /\ ~Exhausted
  /\ pc' = "kernel" /\ n' = 0 /\ cur' = base
  /\ last' = IF gather = "iovec" /\ base + IovMax - 1 < N THEN base + IovMax - 1 ELSE N
  /\ UNCHANGED <<inputs, slices, base, offset, remove, acc, moved, data, outcome>>

\* Err(e) if e.kind() == Interrupted => (): a signal came before anything moved.
Interrupted ==
  /\ pc = "kernel" /\ n = 0 /\ cur = base
  /\ pc' = NextTurn
  /\ UNCHANGED <<inputs, slices, base, offset, n, cur, last, remove, acc, moved, data, outcome>>

Fails ==
  /\ pc = "kernel" /\ n = 0
  /\ Finish("Err")
  /\ UNCHANGED <<inputs, slices, base, offset, n, cur, last, remove, acc, moved, data>>

NothingRead(how) ==
  /\ pc = "returned" /\ Reads /\ n = 0
  /\ Finish(how)
  /\ UNCHANGED <<inputs, slices, base, offset, n, cur, last, remove, acc, moved, data>>

\* Mutant of EndOfFile: `Ok(0) => break`.
MutantEofIsOk == NothingRead("Ok")

\* Ok(0) of a read is the end of the source.
EndOfFile == NothingRead("UnexpectedEof")

\* Mutants of OffsetOverflows: the end of all buffers is checked, or the
\* offset before the addition.
MutantCheckWhole == Positional /\ op \notin SliceOps /\ start + Total > OffsetMax
MutantCheckEarly == Positional /\ op \notin SliceOps /\ offset > OffsetMax

\* offset.checked_add(n) of the vectored positional methods.
OffsetOverflows == Positional /\ op \notin SliceOps /\ offset + n > OffsetMax

ReportOverflow ==
  /\ pc = "returned" /\ ~(Reads /\ n = 0) /\ OffsetOverflows
  /\ Finish("offset overflow")
  /\ UNCHANGED <<inputs, slices, base, offset, n, cur, last, remove, acc, moved, data>>

OffsetBecomes(to) ==
  /\ pc = "returned" /\ op \notin SliceOps
  /\ ~(Reads /\ n = 0) /\ ~OffsetOverflows
  /\ offset' = to
  /\ pc' = "scan" /\ remove' = 0 /\ acc' = 0
  /\ UNCHANGED <<inputs, slices, base, n, cur, last, moved, data, outcome>>

\* Mutant of MoveOffset: every turn uses the offset of the call.
MutantOffsetStays == OffsetBecomes(offset)

MoveOffset == OffsetBecomes(IF Positional THEN offset + n ELSE offset)

\* write_all_at, append_all: buf = &buf[n..]; offset += n, which wraps or
\* panics past u64::MAX.
TakeSubslice ==
  /\ pc = "returned" /\ op \in SliceOps
  /\ ptr' = [ptr EXCEPT ![1] = @ + n] /\ len' = [len EXCEPT ![1] = @ - n]
  /\ IF Positional /\ offset + n > OffsetMax
     THEN \/ Finish("panic") /\ UNCHANGED offset
          \/ /\ pc' = "loop" /\ offset' = (offset + n) % (OffsetMax + 1)
             /\ UNCHANGED outcome
     ELSE /\ pc' = "loop" /\ UNCHANGED outcome
          /\ offset' = IF Positional THEN offset + n ELSE offset
  /\ UNCHANGED <<inputs, base, n, cur, last, remove, acc, moved, data>>

-----------------------------------------------------------------------------
(***************************************************************************)
(* advance, advance_mut                                                    *)
(***************************************************************************)

\* Mutant of UsedUp: a slice moved to its last byte is kept, empty.
MutantKeepFull(i) == i <= N /\ acc + len[i] < n

UsedUp(i) == i <= N /\ acc + len[i] <= n

ScanSlice ==
  /\ pc = "scan" /\ UsedUp(base + remove)
  /\ acc' = acc + len[base + remove]
  /\ remove' = remove + 1
  /\ UNCHANGED <<inputs, slices, pc, base, offset, n, cur, last, moved, data, outcome>>

\* Drop the used-up slices; the first one that is left starts p bytes later
\* and is shortened by l.
Cut(p, l) ==
  /\ pc = "scan" /\ ~UsedUp(base + remove)
  /\ pc' = NextTurn
  /\ base' = base + remove
  /\ IF base + remove <= N
     THEN /\ ptr' = [ptr EXCEPT ![base + remove] = @ + p]
          /\ len' = [len EXCEPT ![base + remove] = @ - l]
     ELSE UNCHANGED slices
  /\ UNCHANGED <<inputs, offset, n, cur, last, remove, acc, moved, data, outcome>>

\* Mutants of Trim: the slice is not cut, keeps its length, or is cut by the
\* whole count.
MutantNoCut == Cut(0, 0)
MutantKeepLen == Cut(n - acc, 0)
MutantCutAll == Cut(n, n)

Trim == Cut(n - acc, n - acc)

-----------------------------------------------------------------------------
(***************************************************************************)
(* The kernel: readv, preadv, writev, pwritev and their scalar forms.      *)
(***************************************************************************)

\* The byte of the stream the next one moved is exchanged with, from start.
StreamPos == (IF Positional THEN offset - start ELSE moved) + n

\* Up to how many more bytes may move: a source ends, an offset has a limit.
Room(k) ==
  /\ Reads => StreamPos + k <= size
  /\ Positional => start + StreamPos + k <= limit

Exchange(i, k) ==
  data' = [x \in DOMAIN data |->
             IF x \in ptr[i] .. ptr[i] + k - 1 THEN StreamPos + (x - ptr[i])
             ELSE data[x]]

\* One slice is moved whole; the walk goes on, unless the method takes one
\* buffer only.
KernelMovesSlice ==
  /\ pc = "kernel" /\ cur <= last /\ Room(len[cur])
  /\ Exchange(cur, len[cur])
  /\ n' = n + len[cur] /\ cur' = cur + 1
  /\ last' = IF gather = "first" /\ len[cur] > 0 THEN cur ELSE last
  /\ UNCHANGED <<inputs, slices, pc, base, offset, remove, acc, moved, outcome>>

\* The call stops inside a slice, after k more bytes; it reports zero only at
\* the end of a source, or for a write that ZeroWrites allows.
KernelStops ==
  /\ pc = "kernel" /\ cur <= last
  /\ \E k \in 0 .. len[cur] - 1 :
       /\ Room(k)
       /\ n + k = 0 => IF Reads THEN StreamPos >= size ELSE ZeroWrites
       /\ Exchange(cur, k)
       /\ n' = n + k /\ moved' = moved + n + k
  /\ pc' = "returned"
  /\ UNCHANGED <<inputs, slices, base, offset, cur, last, remove, acc, outcome>>

\* Every slice it looked at is moved.
KernelReturns ==
  /\ pc = "kernel" /\ cur > last
  /\ pc' = "returned" /\ moved' = moved + n
  /\ UNCHANGED <<inputs, slices, base, offset, n, cur, last, remove, acc, data, outcome>>

Kernel == KernelMovesSlice \/ KernelStops \/ KernelReturns

Code ==
  \/ SkipLeadingEmpties \/ LoopEnds \/ Call \/ EndOfFile \/ ReportOverflow
  \/ MoveOffset \/ TakeSubslice \/ ScanSlice \/ Trim

Next == Code \/ Kernel \/ Interrupted \/ Fails

Spec == Init /\ [][Next]_vars

\* The thread runs; the kernel does not answer EINTR for ever.
FairSpec == Spec /\ WF_vars(Code) /\ SF_vars(Kernel \/ Fails)

-----------------------------------------------------------------------------
(***************************************************************************)
(* Properties                                                              *)
(***************************************************************************)

Results == {"none", "Ok", "Err", "UnexpectedEof", "offset overflow", "panic"}

\* Every variable has its type; base + remove never passes the end of bufs,
\* which `&mut bufs[remove..]` would turn into a panic.
TypeOK ==
  /\ op \in Ops /\ edge \in Layouts /\ start \in Starts /\ size \in Lengths
  /\ gather \in Gathers /\ limit \in Limits
  /\ pc \in {"skip", "loop", "kernel", "returned", "scan", "done"}
  /\ ptr \in [1 .. N -> Nat] /\ len \in [1 .. N -> Nat]
  /\ base \in 1 .. N + 1 /\ cur \in 1 .. N + 1 /\ last \in 0 .. N
  /\ offset \in Nat /\ n \in Nat /\ moved \in Nat
  /\ remove \in 0 .. N /\ acc \in Nat
  /\ data \in [0 .. Total - 1 -> Int]
  /\ outcome \in Results

\* The unsafe pointer arithmetic of advance and advance_mut: whatever counts
\* the kernel reports, a slice stays inside the buffer the caller passed and
\* keeps its end (file_io_ext.rs:357-367, 389-399).
TrimInBounds ==
  \A i \in 1 .. N : edge[i - 1] <= ptr[i] /\ ptr[i] + len[i] = edge[i]

\* The two walks over the slices agree: at the head of the loop, bufs starts
\* exactly at the first byte the system calls have not moved yet, and is used
\* up exactly when they have moved everything.
PendingIsRest ==
  pc \in {"skip", "loop"} =>
    IF base > N THEN moved = Total ELSE ptr[base] = moved

\* Short counts, EINTR and empty slices neither skip, repeat nor reorder a
\* byte: byte x of the buffers is exchanged with byte x of the stream, as long
\* as the unchecked sum of write_all_at cannot wrap (file_io_ext.rs:196-208).
InOrder ==
  op # "write_all_at" \/ limit <= OffsetMax =>
  \A x \in 0 .. Total - 1 : /\ x < moved => data[x] = x
                           /\ data[x] \in {None, x}

\* Ok means that all of it was moved.
OkIsComplete == outcome = "Ok" => moved = Total

\* UnexpectedEof is no artefact of empty slices or of the window readv looks
\* at: the source did end before the buffers were full, and all of it was
\* delivered (file_io_ext.rs:128-137, io_ext.rs:36-43).
EofIsReal == outcome = "UnexpectedEof" => size < Total /\ moved = size

\* With offsets the kernel limits to less than u64::MAX, the checked_add of
\* the positional loops never fails, nor does the unchecked one of
\* write_all_at (file_io_ext.rs:138-140, 201, 225-227).
OffsetFits ==
  limit <= OffsetMax
    => outcome \notin {"offset overflow", "panic"} /\ offset <= OffsetMax

\* The vectored positional loops report an overflow exactly when the bytes
\* moved end beyond the largest offset, whatever the implementor of the trait
\* lets through; they never go on at a wrapped offset.
OverflowIsReal ==
  pc = "done" /\ Positional /\ op \notin SliceOps
    => (outcome = "offset overflow" <=> start + moved > OffsetMax)

\* Every call returns when the kernel makes progress.
Terminates == <>(pc = "done")

\* write_all_at is "similar to std::os::unix::fs::FileExt::write_all_at,
\* except it takes self by immutable reference" and works on Windows
\* (file_io_ext.rs:184-186); std reports WriteZero when a write moves nothing.
ZeroWriteEnds == <>(pc = "done")

=============================================================================
