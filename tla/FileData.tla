------------------------------ MODULE FileData ------------------------------
(***************************************************************************)
(* The kernel side of one regular file reached through one POSIX open file *)
(* description: how a write changes the bytes, how the position moves and  *)
(* what F_SETFL does to the status flags.  Nothing of it is under src/: it *)
(* is what the calls made by src/fs/file_io_ext.rs and src/fs/fd_flags.rs  *)
(* rely on.                                                                *)
(*                                                                         *)
(* A file is the sequence of its bytes, and a byte is known only by who    *)
(* wrote it: one of Users, or Old (there from the start), or Hole (a zero  *)
(* byte that filled a gap).                                                *)
(***************************************************************************)
EXTENDS Integers, Sequences

CONSTANTS
  Users,   (* threads or processes that share the description            *)
  Old,     (* a byte the file held before the model starts               *)
  Hole,    (* a zero byte between the old end of the file and a write    *)
  MaxLen   (* file size limit (RLIMIT_FSIZE, a full disk); bounds a model *)

ASSUME MaxLenAssumption == MaxLen \in Nat

Byte == Users \cup {Old, Hole}

\* The file status flags the operations can tell apart; DIRECT stands for
\* the flags F_SETFL changes that the crate has no name for (O_DIRECT,
\* O_ASYNC), DSYNC for those F_SETFL silently ignores.
Flags == {"APPEND", "NONBLOCK", "DIRECT", "DSYNC"}

Settable == Flags \ {"DSYNC"}

\* fcntl(F_SETFL, arg) on a description whose flags are status.
SetFl(status, arg) == (arg \cap Settable) \cup (status \ Settable)

\* On a file with the append-only attribute Linux refuses any change of
\* O_APPEND, either way (EPERM).
MaySetFl(append_only, status, arg) ==
  append_only => ("APPEND" \in arg <=> "APPEND" \in status)

\* f after k bytes of u are written from offset at; writing nothing does not
\* extend the file.
Splice(f, at, u, k) ==
  IF k = 0
  THEN f
  ELSE [i \in 1 .. (IF Len(f) > at + k THEN Len(f) ELSE at + k) |->
          IF i > at /\ i <= at + k THEN u
          ELSE IF i <= Len(f) THEN f[i] ELSE Hole]

\* The byte counts a successful write of n bytes at offset at may report:
\* short counts are allowed, a count of zero only for an empty buffer.
Accepted(n, at) == {k \in 0 .. n : (k = 0 <=> n = 0) /\ at + k <= MaxLen}

\* Where a write lands, and where it leaves the position p.
WriteOffset(status, p, f) == IF "APPEND" \in status THEN Len(f) ELSE p

PosAfter(p, at, k) == IF k = 0 THEN p ELSE at + k

\* ftruncate to n bytes.
Resize(f, n) == [i \in 1 .. n |-> IF i <= Len(f) THEN f[i] ELSE Hole]

=============================================================================
