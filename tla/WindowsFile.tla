---------------------------- MODULE WindowsFile ----------------------------
(***************************************************************************)
(* Positioned and appending I/O of std::fs::File on Windows                *)
(* (src/fs/file_io_ext.rs:606-777, 1003-1037).  ReadFile and WriteFile at  *)
(* an offset move the position of the handle they use, so every call       *)
(* reopens the file, works on the reopened handle and drops it, while      *)
(* others use the original one, replace it with set_fd_flags, or change    *)
(* the file.                                                               *)
(***************************************************************************)
EXTENDS Handles

CONSTANTS
  Callers,      (* users who make positioned and appending calls          *)
  Offsets,      (* offsets passed to them and to seek                     *)
  Layouts,      (* where the buffers passed end in the bytes they make up *)
  InitialFiles  (* contents the file may start with                       *)

ASSUME WindowsFileAssumption ==
  /\ Users # {} /\ Callers \subseteq Users /\ Offsets \subseteq Nat
  /\ \A s \in Layouts : s \in Seq(Nat) /\ \A i, j \in DOMAIN s : i <= j => s[i] <= s[j]
  /\ \A f \in InitialFiles : f \in Seq(Byte) /\ Len(f) <= MaxLen
  /\ \A s \in Setups : "io" \in s.does => s.kind = "windows"

VARIABLES
  file,  (* the bytes of the file                                         *)
  call   (* each user's call: the method op, where its buffers end, the   *)
         (* current one (buf), the offset it passed (base) and has got to *)
         (* (offset), the reopened handle, and the places in the file it  *)
         (* has moved bytes at, one for each byte                         *)

vars == <<handleVars, file, call>>

Reads == {"read_at", "read_exact_at", "read_vectored_at", "read_exact_vectored_at"}
Appends == {"append", "append_vectored"}
Writes == {"write_at", "write_all_at", "write_vectored_at", "write_all_vectored_at"}

Vectored == {"read_vectored_at", "read_exact_vectored_at", "write_vectored_at",
             "write_all_vectored_at", "append_vectored"}

\* Methods that go on until every buffer is moved; that seek the reopened
\* handle and then use its position.
Whole == {"read_exact_at", "read_exact_vectored_at", "write_all_at", "write_all_vectored_at"}
Seeking == Reads \ {"read_at"}

NoCall == [pc |-> "idle", op |-> "read_at", base |-> 0, offset |-> 0, ends |-> <<>>,
           buf |-> 1, reopened |-> Closed, places |-> <<>>, ok |-> TRUE]

\* The bytes c asks for, and those of them in the rest of its current buffer.
Asked(c) == IF c.ends = <<>> THEN 0 ELSE c.ends[Len(c.ends)]
Want(c) == IF c.buf > Len(c.ends) THEN 0 ELSE c.ends[c.buf] - Len(c.places)

Init ==
  /\ HandlesInit
  /\ file \in InitialFiles
  /\ call = [u \in Users |-> NoCall]

-----------------------------------------------------------------------------
(***************************************************************************)
(* The calls                                                               *)
(***************************************************************************)

\* The buffer with byte n + 1, if it is the i-th or a later one.
NonEmpty(s, i, n) ==
  {j \in i .. Len(s) + 1 : (\A h \in i .. j - 1 : s[h] <= n) /\ (j <= Len(s) => s[j] > n)}

\* Empty buffers are passed over except by write_all_vectored_at.
First(op, s) == IF op = "write_all_vectored_at" THEN {1} ELSE NonEmpty(s, 1, 0)

\* write_vectored_at looks no further than the first buffer that is not empty;
\* it and write_all_vectored_at return at once when there is none.
Begin(u) ==
  /\ call[u].pc = "idle" /\ u \in Callers /\ "io" \in setup.does
  /\ \E op \in Reads \cup Writes \cup Appends, s \in Layouts, off \in Offsets :
     \E j \in First(op, s) :
       /\ op \notin Vectored => Len(s) = 1
       /\ op \in Appends => off = 0
       /\ call' = [call EXCEPT ![u] =
            [NoCall EXCEPT
               !.pc = IF op \in Writes \cap Vectored /\ j > Len(s) THEN "done" ELSE "reopen",
               !.op = op, !.base = off, !.offset = off, !.buf = j,
               !.ends = IF op = "write_vectored_at" /\ j <= Len(s)
                        THEN [i \in 1 .. j |-> s[i]] ELSE s]]
  /\ UNCHANGED <<handleVars, file>>

\* Mutant of ReopenAccess: append reopens to write.
MutantAppendWrites(op) == IF op \in Reads THEN {"READ"} ELSE {"WRITE", "APPEND"}

\* reopen, reopen_write, reopen_append
ReopenAccess(op) ==
  CASE op \in Reads -> {"READ"}
    [] op \in Writes -> {"WRITE", "APPEND"}
    [] op \in Appends -> {"APPEND"}

\* No flag of the original handle is passed on.
Reopen(u) ==
  /\ call[u].pc = "reopen"
  /\ call' = [call EXCEPT ![u].pc = IF call[u].op \in Seeking THEN "seek" ELSE "move",
                          ![u].reopened = Opened(ReopenAccess(call[u].op), {}, {})]
  /\ UNCHANGED <<handleVars, file>>

\* Mutant of SeekReopened: the caller's own handle is moved too.
MutantSeekHandle(u) ==
  /\ call[u].pc = "seek"
  /\ call' = [call EXCEPT ![u].pc = "move", ![u].reopened.pos = call[u].offset]
  /\ object' = [object EXCEPT ![handle[u]].pos = call[u].offset]
  /\ UNCHANGED <<setup, handle, token, probe, file>>

SeekReopened(u) ==
  /\ call[u].pc = "seek"
  /\ call' = [call EXCEPT ![u].pc = "move", ![u].reopened.pos = call[u].offset]
  /\ UNCHANGED <<handleVars, file>>

\* Where the next bytes go: a handle that may only append has no say in it,
\* seek_read and seek_write name an offset, the others use the position.
Place(c) ==
  LET atEnd == c.op \notin Reads /\ "WRITE" \notin c.reopened.access
  IN CASE atEnd -> Len(file)
       [] ~atEnd /\ c.op \in Seeking \cup Appends -> c.reopened.pos
       [] OTHER -> c.offset

\* Mutant of NextBuffer: a buffer is done with whatever the count.
MutantDoneWith(c, k) == {IF c.buf > Len(c.ends) THEN c.buf ELSE c.buf + 1}

\* buf = &buf[n..], and on to the next buffer after the last byte.
NextBuffer(c, k) ==
  IF c.op = "write_all_vectored_at"
  THEN {IF k < Want(c) THEN c.buf ELSE c.buf + 1}
  ELSE NonEmpty(c.ends, c.buf, Len(c.places) + k)

\* c once k bytes are moved at at and buffer j is the next: a short count goes
\* round the loop, the end of the file is an error of the exact reads, and
\* write_all_vectored_at calls write_all_at, which reopens, for the next buffer.
Moved(c, k, at, j) ==
  LET eof == k = 0 /\ Want(c) # 0 /\ c.op \in Whole
      on == c.op \in Whole /\ j <= Len(c.ends) /\ ~eof
      next == CASE ~on -> "done"
                [] on /\ c.op = "write_all_vectored_at" /\ k = Want(c) -> "reopen"
                [] OTHER -> "move"
  IN [c EXCEPT !.pc = next, !.ok = ~eof, !.buf = j,
               !.offset = @ + k, !.places = @ \o [i \in 1 .. k |-> at + i - 1],
               !.reopened = IF next = "move" THEN [@ EXCEPT !.pos = at + k] ELSE Closed]

\* ReadFile on the reopened handle.
ReadFile(u) ==
  LET c == call[u]
      at == Place(c)
      there == IF at < Len(file) THEN Len(file) - at ELSE 0
  IN /\ c.pc = "move" /\ c.op \in Reads
     /\ \E k \in 0 .. Want(c) : \E j \in NextBuffer(c, k) :
          /\ k <= there /\ (k = 0 => Want(c) = 0 \/ there = 0)
          /\ call' = [call EXCEPT ![u] = Moved(c, k, at, j)]
     /\ UNCHANGED <<handleVars, file>>

\* WriteFile on the reopened handle.
WriteFile(u) ==
  LET c == call[u]
      at == Place(c)
  IN /\ c.pc = "move" /\ c.op \notin Reads
     /\ \E k \in Accepted(Want(c), at) : \E j \in NextBuffer(c, k) :
          /\ file' = Splice(file, at, u, k)
          /\ call' = [call EXCEPT ![u] = Moved(c, k, at, j)]
     /\ UNCHANGED handleVars

\* Any step may fail, and the call with it; only the exact reads retry on
\* Interrupted, which changes nothing.
Fails(u) ==
  /\ call[u].pc \in {"reopen", "seek", "move"}
  /\ call' = [call EXCEPT ![u].pc = "done", ![u].ok = FALSE, ![u].reopened = Closed]
  /\ UNCHANGED <<handleVars, file>>

Return(u) ==
  /\ call[u].pc = "done"
  /\ call' = [call EXCEPT ![u] = NoCall]
  /\ UNCHANGED <<handleVars, file>>

-----------------------------------------------------------------------------
(***************************************************************************)
(* The original handle, and other processes                                *)
(***************************************************************************)

OnHandle(u) == setup.kind = "windows" /\ call[u].pc = "idle"

HandleSeek(u) ==
  /\ OnHandle(u)
  /\ \E p \in Offsets : object' = [object EXCEPT ![handle[u]].pos = p]
  /\ UNCHANGED <<setup, handle, token, probe, file, call>>

\* std::io::Write::write of one byte.
HandleWrite(u) ==
  LET o == object[handle[u]]
      at == IF "WRITE" \in o.access THEN o.pos ELSE Len(file)
  IN /\ OnHandle(u) /\ "io" \in setup.does /\ CanWrite(o.access) /\ 1 \in Accepted(1, at)
     /\ file' = Splice(file, at, u, 1)
     /\ object' = [object EXCEPT ![handle[u]].pos = at + 1]
     /\ UNCHANGED <<setup, handle, token, probe, call>>

ResizeElsewhere ==
  /\ "io" \in setup.does
  /\ \E n \in 0 .. MaxLen : file' = Resize(file, n)
  /\ UNCHANGED <<handleVars, call>>

\* A user inside a call makes no other.
Next ==
  \/ \E u \in Users :
       \/ Begin(u) \/ Reopen(u) \/ SeekReopened(u) \/ ReadFile(u) \/ WriteFile(u)
       \/ Fails(u) \/ Return(u) \/ HandleSeek(u) \/ HandleWrite(u)
       \/ call[u].pc = "idle" /\ (FlagsCall(u) \/ SocketCall(u)) /\ UNCHANGED <<file, call>>
  \/ ResizeElsewhere

Spec == Init /\ [][Next]_vars

-----------------------------------------------------------------------------
(***************************************************************************)
(* Properties                                                              *)
(***************************************************************************)

\* Every variable has its type, and a reopened handle lives only inside the
\* call that made it.
TypeOK ==
  /\ HandlesTypeOK
  /\ \A o \in Objects : object[o].pos \in Nat
  /\ file \in Seq(Byte) /\ Len(file) <= MaxLen
  /\ \A u \in Users :
       /\ call[u].pc \in {"idle", "reopen", "seek", "move", "done"}
       /\ call[u].reopened # Closed <=> call[u].pc \in {"seek", "move"}
       /\ call[u].buf \in 1 .. Len(call[u].ends) + 1

\* Calls with an offset and appends move nobody's position, and nor does a
\* set_fd_flags of somebody else; one's own starts again at 0, even if the
\* token was made before the position moved (file_io_ext.rs:626-631, 704-705,
\* fd_flags.rs:204).
PositionKept ==
  [][\A u \in Users :
       LET before == object[handle[u]].pos
           after == object'[handle'[u]].pos
       IN IF handle'[u] = handle[u]
          THEN call' # call \/ token' # token => after = before
          ELSE after = 0]_vars

\* What OpenFile sees of the handle, all users having the same one.
Active(u) == call[u].op \in Appends
Stage(u) ==
  CASE ~Active(u) -> "none"
    [] Active(u) /\ call[u].pc = "done" -> "answered"
    [] OTHER -> "open"
HandlePos == object[handle[CHOOSE u \in Users : TRUE]].pos

Promise == INSTANCE OpenFile WITH
  BufLens <- 0 .. MaxLen \cup {Asked([NoCall EXCEPT !.ends = s]) : s \in Layouts},
  SeekTargets <- 0 .. MaxLen \cup Offsets, SettableTo <- {},
  InitialContent <- InitialFiles, InitialStatus <- {{}},
  content <- file, position <- HandlePos, status <- {},
  asked <- [u \in Users |-> IF Active(u) THEN Asked(call[u]) ELSE 0],
  call <- [u \in Users |-> Stage(u)],
  outcome <- [u \in Users |->
                IF Stage(u) = "answered"
                THEN [ok |-> call[u].ok, n |-> Len(call[u].places)] ELSE [ok |-> TRUE, n |-> 0]]

WritesAnywhere ==
  "io" \in setup.does /\ "flags" \notin setup.does /\ "WRITE" \in setup.access

\* Append, which reopens and then writes, keeps the promise it keeps on POSIX:
\* its bytes go to the end the file has at one instant of the call, whatever
\* was written since the reopen, a failed append wrote nothing, and the
\* positioned calls beside it move no position.  It is stated of a handle that
\* may write anywhere, and whose flags nobody sets: on one in append mode
\* write_at overwrites, which the promise excludes (file_io_ext.rs:253,
\* 703-707, 746-756, 1035-1037).
KeepsPromise ==
  /\ WritesAnywhere => Promise!Init
  /\ [][WritesAnywhere => Promise!Next \/ UNCHANGED Promise!vars]_vars

\* However many system calls and reopened handles it takes, a call with an
\* offset moves one unbroken run of places that starts at the offset, all of
\* it when a whole-buffer method says Ok, a part of it when it fails between
\* two buffers (file_io_ext.rs:636-685, 709-739).
MovedInOrder ==
  \A u \in Callers :
    LET c == call[u] IN
    /\ c.op \notin Appends => c.places = [i \in 1 .. Len(c.places) |-> c.base + i - 1]
    /\ Len(c.places) <= Asked(c)
    /\ c.pc = "done" /\ c.ok /\ c.op \in Whole => Len(c.places) = Asked(c)

\* "Write I/O operations on the file descriptor shall complete as defined by
\* synchronized I/O data integrity completion" (fd_flags.rs:62-63): what is
\* written through a handle that reports DSYNC is written through.
SyncedWrites ==
  \A u \in Callers :
    LET c == call[u]
        o == object[handle[u]]
    IN c.pc = "move" /\ c.op \notin Reads /\ "DSYNC" \in GetFdFlags(o.access, o.flags)
         => "DSYNC" \in GetFdFlags(c.reopened.access, c.reopened.flags)

=============================================================================
