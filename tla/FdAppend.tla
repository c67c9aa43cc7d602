------------------------------ MODULE FdAppend ------------------------------
(***************************************************************************)
(* The POSIX implementation of FileIoExt::append and append_vectored       *)
(* (src/fs/file_io_ext.rs), on a description shared by Users that also     *)
(* write, seek and call set_fd_flags (src/fs/fd_flags.rs).                 *)
(*                                                                         *)
(* On Linux the call is one pwritev2(RWF_APPEND).  Elsewhere, and when the *)
(* kernel or the file system refuses pwritev2, it is a sequence of system  *)
(* calls that borrows the description: save flags and position, switch to  *)
(* append mode, write, put both back.  Other users run between any two of  *)
(* them.  pc[u] names the system call u makes next.                        *)
(*                                                                         *)
(* append_vectored is append on the concatenation of its slices (writev    *)
(* and pwritev2 gather them), so one state machine stands for both.        *)
(***************************************************************************)
EXTENDS FileData

CONSTANTS
  BufLens,         (* lengths of the buffers users pass                   *)
  SeekTargets,     (* offsets users seek to and write at                  *)
  SettableTo,      (* FdFlags values users pass to new_set_fd_flags       *)
  InitialFiles,    (* contents the file may start with                    *)
  InitialFlags,    (* status flags the file may have been opened with     *)
  Modes,           (* the pairs <<pwritev2, exclusive>>, see below        *)
  OthersWrite,     (* do users also write, write_at and seek?             *)
  AttrMayChange    (* may the append-only attribute be set meanwhile?     *)

FdFlags == {"APPEND", "NONBLOCK", "DSYNC", "SYNC", "RSYNC"}

ASSUME ConstantsAssumption ==
  /\ BufLens \subseteq Nat
  /\ SeekTargets \subseteq Nat
  /\ SettableTo \subseteq SUBSET FdFlags
  /\ \A f \in InitialFiles : f \in Seq(Byte) /\ Len(f) <= MaxLen
  /\ InitialFlags \subseteq SUBSET Flags
  /\ Modes \subseteq {"absent", "refused", "works"} \X BOOLEAN
  /\ OthersWrite \in BOOLEAN /\ AttrMayChange \in BOOLEAN

VARIABLES
  pwritev2,     (* "absent" (not Linux), "refused" (ENOSYS, ENOTSUP) or   *)
                (* "works"                                                *)
  exclusive,    (* do users serialise their calls on the description?     *)
  file,         (* the bytes of the file                                  *)
  pos,          (* current position of the description                    *)
  oflags,       (* status flags of the description                        *)
  append_only,  (* does the file have the append-only attribute of Linux? *)
  pc,           (* pc[u]: the next step of u's append, or "idle"          *)
  want,         (* want[u]: bytes in the buffers u passed                 *)
  old_flags,    (* old_flags[u]: the local old_flags                      *)
  old_pos,      (* old_pos[u]: the local old_pos                          *)
  result        (* result[u]: what the call returns                       *)

mode == <<pwritev2, exclusive>>
kernel == <<mode, file, pos, oflags, append_only>>
locals == <<want, old_flags, old_pos, result>>
vars == <<pwritev2, exclusive, file, pos, oflags, append_only, pc, want,
          old_flags, old_pos, result>>

Done(n) == [ok |-> TRUE, n |-> n]
Failed == [ok |-> FALSE, n |-> 0]

Init ==
  /\ \E m \in Modes : pwritev2 = m[1] /\ exclusive = m[2]
  /\ file \in InitialFiles
  /\ pos \in SeekTargets
  /\ oflags \in InitialFlags
  /\ append_only \in BOOLEAN
  /\ append_only => "APPEND" \in oflags /\ pwritev2 # "absent"
  /\ pc = [u \in Users |-> "idle"]
  /\ want = [u \in Users |-> 0]
  /\ old_flags = [u \in Users |-> {}]
  /\ old_pos = [u \in Users |-> 0]
  /\ result = [u \in Users |-> Done(0)]

-----------------------------------------------------------------------------
(***************************************************************************)
(* append, append_vectored                                                 *)
(***************************************************************************)

Step(u, from, to) ==
  /\ pc[u] = from
  /\ pc' = [pc EXCEPT ![u] = to]

Answer(u, r) == result' = [result EXCEPT ![u] = r]

\* A user that may start an operation now.
Free(u) ==
  /\ pc[u] = "idle"
  /\ exclusive => \A v \in Users : pc[v] \in {"idle", "panicked"}

\* The `?` after a system call: the error is returned at once.
ReturnEarly(u, from) ==
  /\ Step(u, from, "return")
  /\ Answer(u, Failed)
  /\ UNCHANGED <<kernel, want, old_flags, old_pos>>

Begin(u) ==
  /\ Free(u)
  /\ Step(u, "idle", IF pwritev2 = "absent" THEN "getfl" ELSE "pwritev2")
  /\ \E n \in BufLens : want' = [want EXCEPT ![u] = n]
  /\ UNCHANGED <<kernel, old_flags, old_pos, result>>

\* Mutant of Pwritev2Appends: the call lacks RWF_APPEND.
MutantPlainPwritev(u) ==
  /\ pwritev2 = "works"
  /\ Step(u, "pwritev2", "return")
  /\ LET at == WriteOffset(oflags, 0, file) IN
     \E k \in Accepted(want[u], at) :
       /\ file' = Splice(file, at, u, k)
       /\ Answer(u, Done(k))
  /\ UNCHANGED <<mode, pos, oflags, append_only, want, old_flags, old_pos>>

\* pwritev2(RWF_APPEND) at offset 0 appends whatever the flags are and does
\* not move the position.
Pwritev2Appends(u) ==
  /\ pwritev2 = "works"
  /\ Step(u, "pwritev2", "return")
  /\ \E k \in Accepted(want[u], Len(file)) :
       /\ file' = Splice(file, Len(file), u, k)
       /\ Answer(u, Done(k))
  /\ UNCHANGED <<mode, pos, oflags, append_only, want, old_flags, old_pos>>

\* `otherwise => return Ok(otherwise?)`
Pwritev2Fails(u) == pwritev2 = "works" /\ ReturnEarly(u, "pwritev2")

\* Err(NOSYS) | Err(NOTSUP): fall back.
Pwritev2Refused(u) ==
  /\ pwritev2 = "refused"
  /\ Step(u, "pwritev2", "getfl")
  /\ UNCHANGED <<kernel, locals>>

\* Mutant of GetFl: the flags are saved without APPEND.
MutantSaveWithoutAppend(u) ==
  /\ Step(u, "getfl", "tell")
  /\ old_flags' = [old_flags EXCEPT ![u] = oflags \ {"APPEND"}]
  /\ UNCHANGED <<kernel, want, old_pos, result>>

GetFl(u) ==
  \/ ReturnEarly(u, "getfl")
  \/ /\ Step(u, "getfl", "tell")
     /\ old_flags' = [old_flags EXCEPT ![u] = oflags]
     /\ UNCHANGED <<kernel, want, old_pos, result>>

Tell(u) ==
  \/ ReturnEarly(u, "tell")
  \/ /\ Step(u, "tell", "setfl")
     /\ old_pos' = [old_pos EXCEPT ![u] = pos]
     /\ UNCHANGED <<kernel, want, old_flags, result>>

\* Mutant of SetFlAppend: F_SETFL(APPEND) instead of old_flags | APPEND.
MutantOnlyAppend(u) ==
  /\ MaySetFl(append_only, oflags, {"APPEND"})
  /\ Step(u, "setfl", "write")
  /\ oflags' = SetFl(oflags, {"APPEND"})
  /\ UNCHANGED <<mode, file, pos, append_only, locals>>

SetFlAppend(u) ==
  \/ ReturnEarly(u, "setfl")
  \/ /\ MaySetFl(append_only, oflags, old_flags[u] \cup {"APPEND"})
     /\ Step(u, "setfl", "write")
     /\ oflags' = SetFl(oflags, old_flags[u] \cup {"APPEND"})
     /\ UNCHANGED <<mode, file, pos, append_only, locals>>

\* Mutant of WriteAppended: `write(self, buf)?` returns before restoring.
MutantEarlyWriteError(u) ==
  \/ ReturnEarly(u, "write")
  \/ /\ Step(u, "write", "restorefl")
     /\ LET at == WriteOffset(oflags, pos, file) IN
        \E k \in Accepted(want[u], at) :
          /\ file' = Splice(file, at, u, k)
          /\ pos' = PosAfter(pos, at, k)
          /\ Answer(u, Done(k))
     /\ UNCHANGED <<mode, oflags, append_only, want, old_flags, old_pos>>

\* Mutant of WriteAppended: the result is unwrapped before restoring.
MutantUnwrapWrite(u) ==
  /\ Step(u, "write", "panicked")
  /\ UNCHANGED <<kernel, locals>>

\* write or writev; `result` is kept, error or not, until both are restored.
WriteAppended(u) ==
  /\ Step(u, "write", "restorefl")
  /\ \/ LET at == WriteOffset(oflags, pos, file) IN
        \E k \in Accepted(want[u], at) :
          /\ file' = Splice(file, at, u, k)
          /\ pos' = PosAfter(pos, at, k)
          /\ Answer(u, Done(k))
     \/ Answer(u, Failed) /\ UNCHANGED <<file, pos>>
  /\ UNCHANGED <<mode, oflags, append_only, want, old_flags, old_pos>>

\* Mutant of RestoreFl: APPEND is cleared rather than the flags put back.
MutantClearAppend(u) ==
  /\ MaySetFl(append_only, oflags, old_flags[u] \ {"APPEND"})
  /\ Step(u, "restorefl", "restorepos")
  /\ oflags' = SetFl(oflags, old_flags[u] \ {"APPEND"})
  /\ UNCHANGED <<mode, file, pos, append_only, locals>>

RestoreFl(u) ==
  /\ MaySetFl(append_only, oflags, old_flags[u])
  /\ Step(u, "restorefl", "restorepos")
  /\ oflags' = SetFl(oflags, old_flags[u])
  /\ UNCHANGED <<mode, file, pos, append_only, locals>>

\* The unwrap of a refused F_SETFL: the thread unwinds and nothing restores
\* the flags or the position.
RestorePanics(u) ==
  /\ ~MaySetFl(append_only, oflags, old_flags[u])
  /\ Step(u, "restorefl", "panicked")
  /\ UNCHANGED <<kernel, locals>>

\* Mutant of RestorePos: seek back over the bytes asked for.
MutantSeekBack(u) ==
  /\ Step(u, "restorepos", "return")
  /\ pos' = pos - want[u]
  /\ UNCHANGED <<mode, file, oflags, append_only, locals>>

RestorePos(u) ==
  /\ Step(u, "restorepos", "return")
  /\ pos' = old_pos[u]
  /\ UNCHANGED <<mode, file, oflags, append_only, locals>>

\* The caller gets result[u]; the locals go out of scope.
Return(u) ==
  /\ Step(u, "return", "idle")
  /\ want' = [want EXCEPT ![u] = 0]
  /\ old_flags' = [old_flags EXCEPT ![u] = {}]
  /\ old_pos' = [old_pos EXCEPT ![u] = 0]
  /\ Answer(u, Done(0))
  /\ UNCHANGED kernel

-----------------------------------------------------------------------------
(***************************************************************************)
(* The other operations on the description: one system call each.          *)
(***************************************************************************)

\* IoExt::write and write_vectored; write_all is a series of them.
Write(u) ==
  /\ OthersWrite /\ Free(u)
  /\ \E n \in BufLens : LET at == WriteOffset(oflags, pos, file) IN
       \E k \in Accepted(n, at) :
         /\ file' = Splice(file, at, u, k)
         /\ pos' = PosAfter(pos, at, k)
  /\ UNCHANGED <<mode, oflags, append_only, pc, locals>>

\* FileIoExt::write_at, of which write_all_at is a series; a description in
\* append mode ignores the offset.
WriteAt(u) ==
  /\ OthersWrite /\ Free(u)
  /\ \E n \in BufLens, off \in SeekTargets :
       LET at == WriteOffset(oflags, off, file) IN
       \E k \in Accepted(n, at) : file' = Splice(file, at, u, k)
  /\ UNCHANGED <<mode, pos, oflags, append_only, pc, locals>>

\* FileIoExt::seek
Seek(u) ==
  /\ OthersWrite /\ Free(u)
  /\ pos' \in SeekTargets \cup {Len(file)}
  /\ UNCHANGED <<mode, file, oflags, append_only, pc, locals>>

\* new_set_fd_flags refuses the synchronisation flags; set_fd_flags is then
\* F_SETFL with the remaining two.
SetFdFlags(u) ==
  /\ Free(u)
  /\ \E fd_flags \in SettableTo :
       /\ fd_flags \cap {"DSYNC", "SYNC", "RSYNC"} = {}
       /\ MaySetFl(append_only, oflags, fd_flags)
       /\ oflags' = SetFl(oflags, fd_flags \cap {"APPEND", "NONBLOCK"})
  /\ UNCHANGED <<mode, file, pos, append_only, pc, locals>>

\* Another description of the same file changes its length.
ResizeElsewhere ==
  /\ ~append_only
  /\ \E n \in 0 .. MaxLen : file' = Resize(file, n)
  /\ UNCHANGED <<mode, pos, oflags, append_only, pc, locals>>

\* chattr +a, which the F_SETFL of Linux checks, but writes through a
\* description that is already open do not.
MarkAppendOnly ==
  /\ AttrMayChange /\ ~append_only /\ pwritev2 # "absent"
  /\ append_only' = TRUE
  /\ UNCHANGED <<mode, file, pos, oflags, pc, locals>>

AppendStep(u) ==
  \/ Begin(u) \/ Pwritev2Appends(u) \/ Pwritev2Fails(u) \/ Pwritev2Refused(u)
  \/ GetFl(u) \/ Tell(u) \/ SetFlAppend(u) \/ WriteAppended(u)
  \/ RestoreFl(u) \/ RestorePanics(u) \/ RestorePos(u) \/ Return(u)

OtherStep(u) == Write(u) \/ WriteAt(u) \/ Seek(u) \/ SetFdFlags(u)

Next ==
  \/ \E u \in Users : AppendStep(u) \/ OtherStep(u)
  \/ ResizeElsewhere
  \/ MarkAppendOnly

Spec == Init /\ [][Next]_vars

-----------------------------------------------------------------------------
(***************************************************************************)
(* Properties                                                              *)
(***************************************************************************)

Steps == {"idle", "pwritev2", "getfl", "tell", "setfl", "write", "restorefl",
          "restorepos", "return", "panicked"}

Outcomes == [ok : BOOLEAN, n : Nat]

\* Every variable has its type; the file never outgrows the limit.
TypeOK ==
  /\ mode \in Modes
  /\ file \in Seq(Byte) /\ Len(file) <= MaxLen
  /\ pos \in Nat
  /\ oflags \subseteq Flags
  /\ append_only \in BOOLEAN
  /\ pc \in [Users -> Steps]
  /\ want \in [Users -> Nat]
  /\ old_flags \in [Users -> SUBSET Flags]
  /\ old_pos \in [Users -> Nat]
  /\ result \in [Users -> Outcomes]

\* g holds every byte f holds, where f holds it.
Preserves(f, g) ==
  Len(f) <= Len(g) /\ \A i \in 1 .. Len(f) : g[i] = f[i]

\* The bytes an append or append_vectored call writes go to the end of the
\* file: the step that writes them changes no byte already there, whichever
\* of the two ways the call takes (file_io_ext.rs:527-586).
AppendsAtEnd ==
  [][\A u \in Users :
       pc[u] \in {"pwritev2", "write"} /\ pc'[u] # pc[u]
         => Preserves(file, file')]_vars

\* On a description opened in append mode, whose users only ever ask
\* set_fd_flags to keep it so, the save and restore of the fallback never
\* takes append mode away, however calls interleave (file_io_ext.rs:551-556).
AppendModeKept == "APPEND" \in oflags

\* On such a description no unwrap of the fallback panics, even when the
\* file gets the append-only attribute in the middle of a call
\* (file_io_ext.rs:555).
NeverPanics == \A u \in Users : pc[u] # "panicked"

\* When users serialise their calls, a panic strands the description in append
\* mode: from then on no call of anybody, append or not, takes it out of
\* append mode, changes a byte that is there or shortens the file
\* (file_io_ext.rs:555).  Without the discipline the panic may as well leave
\* it out of append mode, when the flags refused are those with APPEND.
AfterPanicOnlyAppends ==
  [][exclusive /\ (\E u \in Users : pc[u] = "panicked")
       => Preserves(file, file') /\ "APPEND" \in oflags']_vars

\* While nobody calls set_fd_flags, interleaved fallbacks lose none of the
\* flags the file was opened with and add none but APPEND: a restored value
\* is never older than the description (file_io_ext.rs:551,553,555).
OnlyAppendDrifts ==
  \E flags \in InitialFlags :
    flags \subseteq oflags /\ oflags \subseteq flags \cup {"APPEND"}

\* "switch the file description to append mode, do the write, and switch
\* back" (file_io_ext.rs:543-544); "leaves the current position of the file
\* unmodified" (file_io_ext.rs:246): when no call is in progress, the
\* description is as the calls found it.
RestoredAtRest ==
  (\A u \in Users : pc[u] = "idle")
    => oflags \in InitialFlags /\ pos \in SeekTargets

\* The state of the promise: bytes are the file's; while a fallback call has
\* the description borrowed, position and flags are those it saved.
HoldsFlags(u) == pc[u] \in {"write", "restorefl"}
HoldsPos(u) == pc[u] \in {"restorefl", "restorepos"}

ApparentFlags ==
  IF \E u \in Users : HoldsFlags(u)
  THEN old_flags[CHOOSE u \in Users : HoldsFlags(u)] ELSE oflags

ApparentPos ==
  IF \E u \in Users : HoldsPos(u)
  THEN old_pos[CHOOSE u \in Users : HoldsPos(u)] ELSE pos

CallState(p) ==
  CASE p = "idle" -> "none"
    [] p \in {"restorefl", "restorepos", "return", "panicked"} -> "answered"
    [] OTHER -> "open"

Promise == INSTANCE OpenFile WITH
  InitialContent <- InitialFiles,
  InitialStatus <- InitialFlags,
  content <- file,
  position <- ApparentPos,
  status <- ApparentFlags,
  asked <- want,
  call <- [u \in Users |-> CallState(pc[u])],
  outcome <- result

\* append and append_vectored keep the promise of OpenFile: atomic, at the
\* end of the file, position and flags untouched, an error means nothing was
\* written (file_io_ext.rs:244-253, 527-586).
KeepsPromise == Promise!Spec

=============================================================================
