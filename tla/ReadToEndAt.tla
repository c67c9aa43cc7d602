----------------------------- MODULE ReadToEndAt -----------------------------
(***************************************************************************)
(* read_to_end_at and read_to_string_at of src/fs/file_io_ext.rs: one      *)
(* fstat fixes how many bytes are read, a buffer of that size is made, and *)
(* preads fill it, while other processes append to, truncate or overwrite  *)
(* the file.                                                               *)
(*                                                                         *)
(* Bytes are UTF-8 classes: an ASCII byte, the lead byte of a character of *)
(* two bytes, or the continuation byte that has to follow it.              *)
(***************************************************************************)
EXTENDS Integers, Sequences

CONSTANTS
  Methods,    (* subset of {"read_to_end_at", "read_to_string_at"}        *)
  Files,      (* contents the file may have when the call starts          *)
  Bufs,       (* contents of the caller's buffer                          *)
  Offsets,    (* offsets callers pass                                     *)
  ChangeSets, (* sets of "append", "truncate", "overwrite": what others   *)
              (* may do to the file while the call runs                   *)
  MaxLen,     (* size limit of the file; bounds a model                   *)
  AllocMax    (* largest allocation, isize::MAX                           *)

Byte == {"ascii", "lead", "cont"}
Zero == "ascii"   \* a NUL byte is ASCII

\* String::from_utf8 accepts s.
Utf8(s) ==
  \A i \in 1 .. Len(s) :
    /\ s[i] = "lead" => i < Len(s) /\ s[i + 1] = "cont"
    /\ s[i] = "cont" => i > 1 /\ s[i - 1] = "lead"

ASSUME ReadAssumption ==
  /\ Methods \subseteq {"read_to_end_at", "read_to_string_at"}
  /\ MaxLen \in Nat /\ AllocMax \in Nat /\ Offsets \subseteq Nat
  /\ \A f \in Files : f \in Seq(Byte) /\ Len(f) <= MaxLen
  /\ \A b \in Bufs : b \in Seq(Byte) /\ Len(b) <= AllocMax /\ Utf8(b)
  /\ \A c \in ChangeSets : c \subseteq {"append", "truncate", "overwrite"}

VARIABLES
  file,      (* the bytes of the file                                     *)
  changes,   (* the set of ChangeSets that others keep to                 *)
  method, offset, before,   (* the call: before is the buffer passed      *)
  pc,        (* "metadata", "read" or "done"                              *)
  buf,       (* the caller's buffer                                       *)
  tmp,       (* the local tmp of read_to_string_at                        *)
  got,       (* bytes of the target the preads have filled                *)
  snapshot,  (* the file when fstat saw it                                *)
  shortest,  (* its least length since then                               *)
  seen,      (* seen[i]: values byte i of the file has had since then     *)
  result     (* what the call returns                                     *)

call == <<method, offset, before, changes>>
history == <<snapshot, shortest, seen>>
vars == <<file, changes, method, offset, before, pc, buf, tmp, got, snapshot, shortest,
          seen, result>>

Ok(n) == [kind |-> "Ok", n |-> n]
Error(kind) == [kind |-> kind, n |-> 0]

Init ==
  /\ file \in Files /\ changes \in ChangeSets
  /\ method \in Methods /\ offset \in Offsets /\ before \in Bufs
  /\ pc = "metadata" /\ buf = before /\ tmp = <<>> /\ got = 0
  /\ snapshot = <<>> /\ shortest = 0 /\ seen = <<>>
  /\ result = Error("none")

Return(r) == pc' = "done" /\ result' = r

-----------------------------------------------------------------------------
(***************************************************************************)
(* The call                                                                *)
(***************************************************************************)

\* file.metadata()?
MetadataFails ==
  /\ pc = "metadata" /\ Return(Error("Err"))
  /\ UNCHANGED <<file, call, buf, tmp, got, history>>

\* Mutant of BeyondEnd: the difference is returned as it is.
MutantUncheckedSub ==
  /\ pc = "metadata" /\ Len(file) < offset
  /\ Return(Ok(Len(file) - offset))
  /\ UNCHANGED <<file, call, buf, tmp, got, history>>

\* checked_sub is None: the offset is beyond the end.
BeyondEnd ==
  /\ pc = "metadata" /\ Len(file) < offset
  /\ Return(Ok(0))
  /\ UNCHANGED <<file, call, buf, tmp, got, history>>

Zeros(n) == [i \in 1 .. n |-> Zero]

\* Mutant of LenAt: the offset is not subtracted.
MutantWholeLen(f) == Len(f)

\* What the call will read, when fstat says the file is f.
LenAt(f) == Len(f) - offset

\* The size of the buffer the preads fill: all of buf, after its resize, or
\* a tmp of len bytes.
TargetLen == IF method = "read_to_end_at" THEN Len(before) + LenAt(file) ELSE LenAt(file)

Target == IF method = "read_to_end_at" THEN buf ELSE tmp

Full == pc = "read" /\ got = Len(Target)

\* A target or a String beyond isize::MAX bytes is a capacity overflow.
AllocationPanics ==
  /\ \/ pc = "metadata" /\ Len(file) >= offset /\ TargetLen > AllocMax
     \/ /\ Full /\ method = "read_to_string_at" /\ Utf8(tmp)
        /\ Len(buf) + Len(tmp) > AllocMax
  /\ Return(Error("panic"))
  /\ UNCHANGED <<file, call, buf, tmp, got, history>>

Allocate ==
  /\ pc = "metadata" /\ Len(file) >= offset /\ TargetLen <= AllocMax
  /\ pc' = "read"
  /\ IF method = "read_to_end_at"
     THEN buf' = buf \o Zeros(LenAt(file)) /\ UNCHANGED tmp
     ELSE tmp' = Zeros(LenAt(file)) /\ UNCHANGED buf
  /\ snapshot' = file /\ shortest' = Len(file)
  /\ seen' = [i \in 1 .. MaxLen |-> {file[j] : j \in {i} \cap DOMAIN file}]
  /\ UNCHANGED <<file, call, got, result>>

\* Some of the bytes that follow from go to the free part of the target.
ReadSome(from) ==
  /\ pc = "read"
  /\ \E k \in 1 .. Len(Target) - got :
       /\ from + got + k <= Len(file)
       /\ LET filled == [i \in 1 .. Len(Target) |->
                           IF i \in got + 1 .. got + k THEN file[from + i] ELSE Target[i]]
          IN IF method = "read_to_end_at"
             THEN buf' = filled /\ UNCHANGED tmp
             ELSE tmp' = filled /\ UNCHANGED buf
       /\ got' = got + k
  /\ UNCHANGED <<file, call, pc, history, result>>

\* Mutant of Pread: read_exact from the start instead of read_exact_at.
MutantReadFromStart == ReadSome(0)

\* FileExt::read_exact_at(target, offset): preads until the target is full.
Pread == ReadSome(offset)

\* Mutant of PreadAtEnd: Ok(0) is retried.
MutantRetryAtEnd ==
  /\ pc = "read" /\ got < Len(Target) /\ offset + got >= Len(file)
  /\ UNCHANGED vars

PreadAtEnd ==
  /\ pc = "read" /\ got < Len(Target) /\ offset + got >= Len(file)
  /\ Return(Error("UnexpectedEof"))
  /\ UNCHANGED <<file, call, buf, tmp, got, history>>

PreadFails ==
  /\ pc = "read" /\ got < Len(Target)
  /\ Return(Error("Err"))
  /\ UNCHANGED <<file, call, buf, tmp, got, history>>

ReturnBytes ==
  /\ Full /\ method = "read_to_end_at"
  /\ Return(Ok(LenAt(snapshot)))
  /\ UNCHANGED <<file, call, buf, tmp, got, history>>

\* A tmp found valid is appended to the caller's string.
PushIf(valid) ==
  /\ Full /\ method = "read_to_string_at" /\ valid
  /\ Len(buf) + Len(tmp) <= AllocMax
  /\ buf' = buf \o tmp
  /\ Return(Ok(LenAt(snapshot)))
  /\ UNCHANGED <<file, call, tmp, got, history>>

\* Mutant of PushString: from_utf8_unchecked.
MutantUnchecked == PushIf(TRUE)

PushString == PushIf(Utf8(tmp))

\* One that is not leaves the caller's string as b.
Reject(b) ==
  /\ Full /\ method = "read_to_string_at" /\ ~Utf8(tmp)
  /\ buf' = b
  /\ Return(Error("InvalidData"))
  /\ UNCHANGED <<file, call, tmp, got, history>>

\* Mutant of RejectString: the bytes are read into the string itself.
MutantKeepInvalid == Reject(buf \o tmp)

RejectString == Reject(buf)

-----------------------------------------------------------------------------
(***************************************************************************)
(* Other processes                                                         *)
(***************************************************************************)

Becomes(f) ==
  /\ file' = f
  /\ shortest' = IF Len(f) < shortest THEN Len(f) ELSE shortest
  /\ seen' = [i \in DOMAIN seen |-> seen[i] \cup {f[j] : j \in {i} \cap DOMAIN f}]
  /\ UNCHANGED <<call, pc, buf, tmp, got, snapshot, result>>

AppendElsewhere ==
  /\ "append" \in changes /\ Len(file) < MaxLen
  /\ \E b \in Byte : Becomes(Append(file, b))

TruncateElsewhere ==
  /\ "truncate" \in changes
  /\ \E n \in 0 .. Len(file) - 1 : Becomes(SubSeq(file, 1, n))

OverwriteElsewhere ==
  /\ "overwrite" \in changes
  /\ \E i \in DOMAIN file : \E b \in Byte \ {file[i]} : Becomes([file EXCEPT ![i] = b])

Progress ==
  \/ BeyondEnd \/ AllocationPanics \/ Allocate \/ Pread \/ PreadAtEnd
  \/ ReturnBytes \/ PushString \/ RejectString

Call == Progress \/ MetadataFails \/ PreadFails

Elsewhere == AppendElsewhere \/ TruncateElsewhere \/ OverwriteElsewhere

\* Before fstat a change only makes another file of Files.
Next == Call \/ (pc = "read" /\ Elsewhere)

Spec == Init /\ [][Next]_vars

\* The caller's thread runs, and a pread that can move bytes, or finds itself
\* at the end, eventually does; no call need fail.
FairSpec == Spec /\ WF_vars(Progress)

-----------------------------------------------------------------------------
(***************************************************************************)
(* Properties                                                              *)
(***************************************************************************)

\* Every variable has its type; nothing longer than AllocMax is allocated.
TypeOK ==
  /\ file \in Seq(Byte) /\ Len(file) <= MaxLen
  /\ pc \in {"metadata", "read", "done"}
  /\ buf \in Seq(Byte) /\ tmp \in Seq(Byte)
  /\ Len(buf) <= AllocMax /\ Len(tmp) <= AllocMax
  /\ got \in 0 .. Len(Target)
  /\ result.kind \in {"none", "Ok", "Err", "UnexpectedEof", "InvalidData", "panic"}
  /\ result.n \in 0 .. MaxLen

\* A String is valid UTF-8 at every moment, whatever others write into the
\* middle of a character between two preads (file_io_ext.rs:1066-1073).
StringStaysUtf8 == method = "read_to_string_at" => Utf8(buf)

\* "assert!(buf.is_empty())" after an error (tests/read_to_end.rs:48-49): a
\* failing read_to_string_at leaves the caller's string as it was.
StringUntouchedOnError ==
  method = "read_to_string_at" /\ result.kind # "Ok" => buf = before

\* "until EOF": while others only append, a call that succeeds adds exactly
\* the bytes from offset to the end that fstat saw, to an empty Vec or to any
\* String, and reports their number; growth is neither an error nor included.
Snapshot ==
  changes \subseteq {"append"} /\ pc = "done" /\ result.kind = "Ok" /\ (method = "read_to_end_at" => before = <<>>)
    => /\ buf = before \o SubSeq(snapshot, offset + 1, Len(snapshot))
       /\ result.n = Len(buf) - Len(before)

\* With an empty Vec or any String, UnexpectedEof is the report of a
\* truncation that raced the preads, and of nothing else
\* (file_io_ext.rs:1040-1054, 1059-1067).
EofOnlyIfShrunk ==
  result.kind = "UnexpectedEof" /\ (method = "read_to_end_at" => before = <<>>)
    => shortest < Len(snapshot)

\* Under overwrites the bytes returned are not a snapshot, but each of them
\* was in the file at its own place during the call.
BytesWereThere ==
  pc = "done" /\ result.kind = "Ok" /\ (method = "read_to_end_at" => before = <<>>)
    => \A i \in 1 .. result.n : buf[Len(before) + i] \in seen[offset + i]

\* A writer that keeps changing the file does not keep the reader for ever:
\* what is read is fixed before the first pread.
Terminates == <>(pc = "done")

\* "Read all bytes, starting at offset, until EOF in this source, placing
\* them into buf" (file_io_ext.rs:158-159): on a file nobody changes, the call
\* fails only when a system call fails.
ReadsAllBytes == result.kind \notin {"UnexpectedEof", "panic"}

=============================================================================
