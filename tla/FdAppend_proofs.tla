--------------------------- MODULE FdAppend_proofs ---------------------------
(***************************************************************************)
(* Theorems about FdAppend, for every set of users, every file and every   *)
(* value of the other constants.                                           *)
(***************************************************************************)
EXTENDS FdAppend, FileData_proofs

\* mode only names the pair of the two variables that never change.
USE DEF mode

-----------------------------------------------------------------------------
(***************************************************************************)
(* Lemmas about the kernel's operators                                     *)
(***************************************************************************)

\* A write at the end of a file changes no byte of it.
LEMMA SpliceAtEndPreserves ==
  ASSUME NEW f \in Seq(Byte), NEW k \in Nat, NEW u \in Users
  PROVE  Preserves(f, Splice(f, Len(f), u, k))
<1>1. CASE k = 0
  BY <1>1 DEF Splice, Preserves
<1>2. CASE k # 0
  <2> DEFINE at == Len(f)
  <2>a. at \in Nat
    OBVIOUS
  <2>b. Len(Splice(f, at, u, k)) = IF Len(f) > at + k THEN Len(f) ELSE at + k
    <3> HIDE DEF at
    <3>1. QED
      BY <1>2, <2>a, SpliceType
  <2>1. Len(Splice(f, Len(f), u, k)) = Len(f) + k
    BY <1>2, <2>b
  <2>2. \A i \in 1 .. Len(f) : Splice(f, Len(f), u, k)[i] = f[i]
    BY <1>2 DEF Splice
  <2>3. QED
    BY <2>1, <2>2 DEF Preserves
<1>3. QED
  BY <1>1, <1>2

\* Flags stay flags; F_SETFL(old | APPEND) on a description whose flags are
\* old adds APPEND, and F_SETFL(old) then puts old back.
LEMMA SetFlFacts ==
  ASSUME NEW old \in SUBSET Flags, NEW status \in SUBSET Flags, NEW arg
  PROVE  /\ SetFl(status, arg) \in SUBSET Flags
         /\ "APPEND" \in SetFl(status, arg) <=> "APPEND" \in arg
         /\ SetFl(old, old \cup {"APPEND"}) = old \cup {"APPEND"}
         /\ SetFl(old \cup {"APPEND"}, old) = old
BY DEF SetFl, Settable, Flags

\* The offset of a write is an offset, and the end of the file in append mode.
LEMMA WriteOffsetFacts ==
  ASSUME NEW f \in Seq(Byte), NEW p \in Nat, NEW status
  PROVE  /\ WriteOffset(status, p, f) \in Nat
         /\ "APPEND" \in status => WriteOffset(status, p, f) = Len(f)
BY DEF WriteOffset

-----------------------------------------------------------------------------
(***************************************************************************)
(* Type correctness                                                        *)
(***************************************************************************)

LEMMA InitType == Init => TypeOK
<1> SUFFICES ASSUME Init PROVE TypeOK
  OBVIOUS
<1>1. file \in Seq(Byte) /\ Len(file) <= MaxLen /\ pos \in Nat /\ oflags \subseteq Flags
  BY ConstantsAssumption DEF Init
<1>2. append_only \in BOOLEAN
  BY DEF Init
<1>3. /\ pc \in [Users -> Steps] /\ want \in [Users -> Nat]
      /\ old_flags \in [Users -> SUBSET Flags] /\ old_pos \in [Users -> Nat]
  BY DEF Init, Steps
<1>4. result \in [Users -> Outcomes]
  BY DEF Init, Outcomes, Done
<1>5. mode \in Modes
  <2>1. PICK m \in Modes : pwritev2 = m[1] /\ exclusive = m[2]
    BY DEF Init
  <2>2. m \in {"absent", "refused", "works"} \X BOOLEAN
    BY ConstantsAssumption
  <2>3. QED
    BY <2>1, <2>2
<1>6. QED
  BY <1>1, <1>2, <1>3, <1>4, <1>5 DEF TypeOK

\* An early return preserves the types.
LEMMA ReturnEarlyType ==
  ASSUME TypeOK, NEW u \in Users, NEW from, ReturnEarly(u, from)
  PROVE  TypeOK'
<1>1. Failed \in Outcomes
  BY DEF Failed, Outcomes
<1>2. QED
  BY <1>1 DEF TypeOK, ReturnEarly, Step, Answer, kernel, Steps

\* The steps of an append preserve the types.
LEMMA AppendStepType ==
  ASSUME TypeOK, NEW u \in Users, AppendStep(u)
  PROVE  TypeOK'
<1> USE DEF TypeOK, Step, Answer
<1>1. CASE Begin(u)
  BY <1>1, ConstantsAssumption DEF Begin, Free, kernel, Steps
<1>2. CASE Pwritev2Appends(u)
  <2>1. PICK k \in Accepted(want[u], Len(file)) :
          /\ file' = Splice(file, Len(file), u, k)
          /\ Answer(u, Done(k))
    BY <1>2 DEF Pwritev2Appends
  <2>2. k \in Nat /\ file' \in Seq(Byte) /\ Len(file') <= MaxLen
    BY <2>1, SpliceWithinLimit
  <2>3. QED
    BY <1>2, <2>1, <2>2 DEF Pwritev2Appends, Steps, Outcomes, Done
<1>3. CASE Pwritev2Fails(u)
  BY <1>3, ReturnEarlyType DEF Pwritev2Fails
<1>4. CASE Pwritev2Refused(u)
  BY <1>4 DEF Pwritev2Refused, kernel, locals, Steps
<1>5. CASE GetFl(u)
  <2>1. CASE ReturnEarly(u, "getfl")
    BY <2>1, ReturnEarlyType
  <2>2. CASE ~ReturnEarly(u, "getfl")
    BY <1>5, <2>2 DEF GetFl, kernel, Steps
  <2>3. QED
    BY <2>1, <2>2
<1>6. CASE Tell(u)
  <2>1. CASE ReturnEarly(u, "tell")
    BY <2>1, ReturnEarlyType
  <2>2. CASE ~ReturnEarly(u, "tell")
    BY <1>6, <2>2 DEF Tell, kernel, Steps
  <2>3. QED
    BY <2>1, <2>2
<1>7. CASE SetFlAppend(u)
  <2>1. SetFl(oflags, old_flags[u] \cup {"APPEND"}) \in SUBSET Flags
    BY SetFlFacts
  <2>2. CASE ReturnEarly(u, "setfl")
    BY <2>2, ReturnEarlyType
  <2>3. CASE ~ReturnEarly(u, "setfl")
    BY <1>7, <2>1, <2>3 DEF SetFlAppend, locals, Steps
  <2>4. QED
    BY <2>2, <2>3
<1>8. CASE WriteAppended(u)
  <2>1. CASE Answer(u, Failed) /\ UNCHANGED <<file, pos>>
    BY <1>8, <2>1 DEF WriteAppended, Steps, Outcomes, Failed
  <2>2. ASSUME NEW at, at = WriteOffset(oflags, pos, file),
               NEW k \in Accepted(want[u], at),
               file' = Splice(file, at, u, k),
               pos' = PosAfter(pos, at, k),
               Answer(u, Done(k))
        PROVE  TypeOK'
    <3>1. at \in Nat
      BY <2>2, WriteOffsetFacts
    <3>2. k \in Nat /\ file' \in Seq(Byte) /\ Len(file') <= MaxLen
      BY <2>2, <3>1, SpliceWithinLimit
    <3>3. pos' \in Nat
      BY <2>2, <3>1, <3>2 DEF PosAfter
    <3>4. QED
      BY <1>8, <2>2, <3>2, <3>3 DEF WriteAppended, Steps, Outcomes, Done
  <2>3. QED
    BY <1>8, <2>1, <2>2 DEF WriteAppended
<1>9. CASE RestoreFl(u)
  <2>1. SetFl(oflags, old_flags[u]) \in SUBSET Flags
    BY SetFlFacts
  <2>2. QED
    BY <1>9, <2>1 DEF RestoreFl, locals, Steps
<1>10. CASE RestorePanics(u)
  BY <1>10 DEF RestorePanics, kernel, locals, Steps
<1>11. CASE RestorePos(u)
  BY <1>11 DEF RestorePos, locals, Steps
<1>12. CASE Return(u)
  BY <1>12 DEF Return, kernel, Steps, Outcomes, Done
<1>13. QED
  BY <1>1, <1>2, <1>3, <1>4, <1>5, <1>6, <1>7, <1>8, <1>9, <1>10, <1>11, <1>12
  DEF AppendStep

\* The other operations preserve the types.
LEMMA OtherStepType ==
  ASSUME TypeOK, NEW u \in Users, OtherStep(u)
  PROVE  TypeOK'
<1> USE DEF TypeOK, locals
<1>1. CASE Write(u)
  <2>1. PICK n \in BufLens :
          \E k \in Accepted(n, WriteOffset(oflags, pos, file)) :
            /\ file' = Splice(file, WriteOffset(oflags, pos, file), u, k)
            /\ pos' = PosAfter(pos, WriteOffset(oflags, pos, file), k)
    BY <1>1 DEF Write
  <2>2. n \in Nat /\ WriteOffset(oflags, pos, file) \in Nat
    BY ConstantsAssumption, WriteOffsetFacts
  <2>3. file' \in Seq(Byte) /\ Len(file') <= MaxLen /\ pos' \in Nat
    BY <2>1, <2>2, SpliceWithinLimit DEF PosAfter
  <2>4. QED
    BY <1>1, <2>3 DEF Write
<1>2. CASE WriteAt(u)
  <2>1. PICK n \in BufLens, off \in SeekTargets :
          \E k \in Accepted(n, WriteOffset(oflags, off, file)) :
            file' = Splice(file, WriteOffset(oflags, off, file), u, k)
    BY <1>2 DEF WriteAt
  <2>2. n \in Nat /\ WriteOffset(oflags, off, file) \in Nat
    BY ConstantsAssumption, WriteOffsetFacts
  <2>3. file' \in Seq(Byte) /\ Len(file') <= MaxLen
    BY <2>1, <2>2, SpliceWithinLimit
  <2>4. QED
    BY <1>2, <2>3 DEF WriteAt
<1>3. CASE Seek(u)
  BY <1>3, ConstantsAssumption DEF Seek
<1>4. CASE SetFdFlags(u)
  <2>1. \A arg : SetFl(oflags, arg) \in SUBSET Flags
    BY SetFlFacts
  <2>2. QED
    BY <1>4, <2>1 DEF SetFdFlags
<1>5. QED
  BY <1>1, <1>2, <1>3, <1>4 DEF OtherStep

LEMMA NextType == TypeOK /\ [Next]_vars => TypeOK'
<1> SUFFICES ASSUME TypeOK, [Next]_vars PROVE TypeOK'
  OBVIOUS
<1>1. CASE \E u \in Users : AppendStep(u) \/ OtherStep(u)
  BY <1>1, AppendStepType, OtherStepType
<1>2. CASE ResizeElsewhere
  <2>1. PICK n \in 0 .. MaxLen : file' = Resize(file, n)
    BY <1>2 DEF ResizeElsewhere
  <2>2. file' \in Seq(Byte) /\ Len(file') <= MaxLen
    BY <2>1, ResizeType, MaxLenAssumption DEF TypeOK
  <2>3. QED
    BY <1>2, <2>2 DEF ResizeElsewhere, TypeOK, locals
<1>3. CASE MarkAppendOnly
  BY <1>3 DEF MarkAppendOnly, TypeOK, locals
<1>4. CASE UNCHANGED vars
  BY <1>4 DEF vars, TypeOK
<1>5. QED
  BY <1>1, <1>2, <1>3, <1>4 DEF Next

\* Every variable always has its type: no call leaves a negative position or
\* a file beyond the limit, whoever interleaves with it.
THEOREM TypeCorrect == Spec => []TypeOK
BY InitType, NextType, PTL DEF Spec

-----------------------------------------------------------------------------
(***************************************************************************)
(* The borrowed description                                                *)
(*                                                                         *)
(* The promise holds when no two users are inside the fallback at once:    *)
(* either the kernel has pwritev2 or the users serialise their calls; and  *)
(* the append-only attribute does not appear while a call is in progress.  *)
(***************************************************************************)

Disciplined ==
  /\ \A m \in Modes : m[1] = "works" \/ m[2]
  /\ ~AttrMayChange

Saved(u) == pc[u] \in {"tell", "setfl", "restorepos"}

AtMostOneCall ==
  exclusive => \A u, v \in Users : pc[u] # "idle" /\ pc[v] # "idle" => u = v

NoFallback ==
  pwritev2 = "works" => \A u \in Users : pc[u] \in {"idle", "pwritev2", "return"}

NoPanic == \A u \in Users : pc[u] # "panicked"

SavedFlags ==
  \A u \in Users : /\ Saved(u) => oflags = old_flags[u]
                   /\ HoldsFlags(u) => oflags = old_flags[u] \cup {"APPEND"}

SavedPos ==
  \A u \in Users : pc[u] \in {"setfl", "write"} => pos = old_pos[u]

AppendOnlyKept ==
  append_only =>
    /\ "APPEND" \in oflags
    /\ \A u \in Users : Saved(u) \/ HoldsFlags(u) => "APPEND" \in old_flags[u]

\* The inductive invariant: one borrower at most, and at each of its steps the
\* description differs from what it saved in the one way that step allows.
IInv ==
  /\ TypeOK
  /\ AtMostOneCall
  /\ NoFallback
  /\ NoPanic
  /\ SavedFlags
  /\ SavedPos
  /\ AppendOnlyKept

\* A disciplined instance has pwritev2, or its users take turns.
LEMMA ModeFact ==
  ASSUME Disciplined, TypeOK
  PROVE  pwritev2 = "works" \/ exclusive
BY DEF Disciplined, TypeOK

\* No step changes the mode.
LEMMA ModeKept ==
  ASSUME NEW u \in Users, AppendStep(u) \/ OtherStep(u)
  PROVE  pwritev2' = pwritev2 /\ exclusive' = exclusive
BY DEF AppendStep, OtherStep, Begin, Pwritev2Appends, Pwritev2Fails,
   Pwritev2Refused, GetFl, Tell, SetFlAppend, WriteAppended, RestoreFl,
   RestorePanics, RestorePos, Return, ReturnEarly, Write, WriteAt, Seek,
   SetFdFlags, kernel

LEMMA InitInv == Init => IInv
<1> SUFFICES ASSUME Init PROVE IInv
  OBVIOUS
<1>1. TypeOK
  BY InitType
<1>2. \A u \in Users : pc[u] = "idle"
  BY DEF Init
<1>3. QED
  BY <1>1, <1>2 DEF Init, IInv, AtMostOneCall, NoFallback, NoPanic, SavedFlags,
     SavedPos, AppendOnlyKept, Saved, HoldsFlags

\* A step of an append keeps the invariant.
LEMMA AppendStepInv ==
  ASSUME Disciplined, IInv, NEW u \in Users, AppendStep(u)
  PROVE  IInv'
<1> DEFINE busy == {"tell", "setfl", "restorepos", "write", "restorefl"}
<1>1. TypeOK'
  BY AppendStepType DEF IInv
<1>2. /\ pc \in [Users -> Steps]
      /\ \A v \in Users \ {u} : pc'[v] = pc[v]
      /\ pc[u] = "idle" => Free(u)
  BY DEF IInv, TypeOK, AppendStep, Begin, Pwritev2Appends, Pwritev2Fails,
     Pwritev2Refused, GetFl, Tell, SetFlAppend, WriteAppended, RestoreFl,
     RestorePanics, RestorePos, Return, ReturnEarly, Step
<1>3. AtMostOneCall'
  BY <1>2, ModeKept DEF IInv, AtMostOneCall, NoPanic, Free
<1>4. NoFallback' /\ NoPanic'
  <2>1. pc[u] = "restorefl" => MaySetFl(append_only, oflags, old_flags[u])
    BY DEF IInv, AppendOnlyKept, HoldsFlags, MaySetFl
  <2>2. pc'[u] # "panicked" /\ (pwritev2 = "works" => pc'[u] \in {"idle", "pwritev2", "return"})
    BY <2>1 DEF IInv, TypeOK, NoFallback, AppendStep, Begin, Pwritev2Appends,
       Pwritev2Fails, Pwritev2Refused, GetFl, Tell, SetFlAppend, WriteAppended,
       RestoreFl, RestorePanics, RestorePos, Return, ReturnEarly, Step
  <2>3. QED
    BY <1>2, <2>2, ModeKept DEF IInv, NoFallback, NoPanic
<1>5. \/ pwritev2 = "works"
      \/ \A v \in Users \ {u} : pc[v] = "idle"
  BY <1>2, ModeFact DEF IInv, AtMostOneCall, NoPanic, Free
<1>6. CASE pwritev2 = "works"
  <2>1. \A v \in Users : pc[v] \notin busy /\ pc'[v] \notin busy
    BY <1>4, <1>6, ModeKept DEF IInv, NoFallback
  <2>2. oflags' = oflags /\ append_only' = append_only
    BY <1>4, <1>6, <2>1 DEF IInv, TypeOK, NoFallback, AppendStep, Begin,
       Pwritev2Appends, Pwritev2Fails, Pwritev2Refused, GetFl, Tell, SetFlAppend,
       WriteAppended, RestoreFl, RestorePanics, RestorePos, Return, ReturnEarly,
       Step, kernel
  <2>3. QED
    BY <1>1, <1>3, <1>4, <2>1, <2>2 DEF IInv, SavedFlags, SavedPos, AppendOnlyKept,
       Saved, HoldsFlags
<1>7. CASE \A v \in Users \ {u} : pc[v] = "idle"
  <2>1. \A v \in Users \ {u} : pc'[v] \notin busy
    BY <1>2, <1>7
  <2> SUFFICES /\ pc'[u] \in {"tell", "setfl", "restorepos"} => oflags' = old_flags'[u]
               /\ pc'[u] \in {"write", "restorefl"} => oflags' = old_flags'[u] \cup {"APPEND"}
               /\ pc'[u] \in {"setfl", "write"} => pos' = old_pos'[u]
               /\ append_only' => /\ "APPEND" \in oflags'
                                  /\ pc'[u] \in busy => "APPEND" \in old_flags'[u]
    BY <1>1, <1>3, <1>4, <2>1 DEF IInv, SavedFlags, SavedPos, AppendOnlyKept,
       Saved, HoldsFlags
  <2> USE DEF IInv, TypeOK, SavedFlags, SavedPos, AppendOnlyKept, Saved, HoldsFlags, Step
  <2>a. CASE \E from : ReturnEarly(u, from)
    BY <2>a DEF ReturnEarly, kernel
  <2>2. CASE Begin(u)
    BY <2>2 DEF Begin, kernel
  <2>3. CASE Pwritev2Appends(u) \/ Pwritev2Fails(u) \/ Pwritev2Refused(u)
    BY <2>3 DEF Pwritev2Appends, Pwritev2Fails, Pwritev2Refused, ReturnEarly, kernel
  <2>4. CASE GetFl(u)
    BY <2>4, <2>a DEF GetFl, kernel
  <2>5. CASE Tell(u)
    BY <2>5, <2>a DEF Tell, kernel
  <2>6. CASE SetFlAppend(u)
    <3>1. pc[u] = "setfl" =>
            SetFl(oflags, old_flags[u] \cup {"APPEND"}) = old_flags[u] \cup {"APPEND"}
      BY SetFlFacts
    <3>2. CASE ~ReturnEarly(u, "setfl")
      <4>1. /\ pc'[u] = "write" /\ oflags' = old_flags[u] \cup {"APPEND"}
            /\ old_flags' = old_flags /\ append_only' = append_only
        BY <2>6, <3>1, <3>2 DEF SetFlAppend, locals
      <4>2. pos' = old_pos'[u] /\ (append_only => "APPEND" \in old_flags[u])
        BY <2>6, <3>2 DEF SetFlAppend, locals
      <4>3. QED
        BY <4>1, <4>2
    <3>3. QED
      BY <2>a, <3>2
  <2>7. CASE WriteAppended(u)
    BY <2>7 DEF WriteAppended
  <2>8. CASE RestoreFl(u)
    <3>1. pc[u] = "restorefl" => SetFl(oflags, old_flags[u]) = old_flags[u]
      BY SetFlFacts
    <3>2. QED
      BY <2>8, <3>1 DEF RestoreFl, locals
  <2>9. CASE RestorePanics(u)
    BY <1>4, <2>9 DEF RestorePanics, NoPanic
  <2>10. CASE RestorePos(u)
    BY <2>10 DEF RestorePos, locals
  <2>11. CASE Return(u)
    BY <2>11 DEF Return, kernel
  <2>12. QED
    BY <2>2, <2>3, <2>4, <2>5, <2>6, <2>7, <2>8, <2>9, <2>10, <2>11 DEF AppendStep
<1>8. QED
  BY <1>5, <1>6, <1>7

\* Nor does any other operation break it: with a call in progress the users
\* either wait, or have borrowed nothing.
LEMMA OtherStepInv ==
  ASSUME Disciplined, IInv, NEW u \in Users, OtherStep(u)
  PROVE  IInv'
<1>1. TypeOK'
  BY OtherStepType DEF IInv
<1>2. pc' = pc /\ old_flags' = old_flags /\ old_pos' = old_pos /\ append_only' = append_only
  BY DEF OtherStep, Write, WriteAt, Seek, SetFdFlags, locals
<1>3. \A v \in Users : pc[v] \in {"idle", "pwritev2", "return"}
  BY ModeFact DEF IInv, TypeOK, NoFallback, NoPanic, OtherStep, Write, WriteAt,
     Seek, SetFdFlags, Free
<1>4. append_only => "APPEND" \in oflags'
  <2>1. CASE SetFdFlags(u)
    <3>1. \A arg : "APPEND" \in SetFl(oflags, arg) <=> "APPEND" \in arg
      BY SetFlFacts DEF IInv, TypeOK
    <3>2. QED
      BY <2>1, <3>1 DEF SetFdFlags, MaySetFl, IInv, AppendOnlyKept
  <2>2. CASE ~SetFdFlags(u)
    BY <2>2 DEF OtherStep, Write, WriteAt, Seek, IInv, AppendOnlyKept
  <2>3. QED
    BY <2>1, <2>2
<1>5. QED
  BY <1>1, <1>2, <1>3, <1>4, ModeKept DEF IInv, AtMostOneCall, NoFallback, NoPanic,
     SavedFlags, SavedPos, AppendOnlyKept, Saved, HoldsFlags

LEMMA NextInv == ASSUME Disciplined PROVE IInv /\ [Next]_vars => IInv'
<1> SUFFICES ASSUME IInv, [Next]_vars PROVE IInv'
  OBVIOUS
<1>1. CASE \E u \in Users : AppendStep(u) \/ OtherStep(u)
  BY <1>1, AppendStepInv, OtherStepInv
<1>2. TypeOK'
  BY NextType DEF IInv
<1>3. CASE ResizeElsewhere
  BY <1>2, <1>3 DEF ResizeElsewhere, locals, IInv, AtMostOneCall, NoFallback,
     NoPanic, SavedFlags, SavedPos, AppendOnlyKept, Saved, HoldsFlags
<1>4. CASE MarkAppendOnly
  BY <1>4 DEF MarkAppendOnly, Disciplined
<1>5. CASE UNCHANGED vars
  BY <1>2, <1>5 DEF vars, IInv, AtMostOneCall, NoFallback,
     NoPanic, SavedFlags, SavedPos, AppendOnlyKept, Saved, HoldsFlags
<1>6. QED
  BY <1>1, <1>3, <1>4, <1>5 DEF Next

LEMMA Invariance == ASSUME Disciplined PROVE Spec => []IInv
BY InitInv, NextInv, PTL DEF Spec

\* Under the discipline, the bytes of every append go to the end of the file
\* and change no byte that is there, although other users write, seek and
\* change flags between calls.
THEOREM AppendsAtEndThm == ASSUME Disciplined PROVE Spec => AppendsAtEnd
<1> DEFINE A == \A u \in Users :
                  pc[u] \in {"pwritev2", "write"} /\ pc'[u] # pc[u]
                    => Preserves(file, file')
<1>1. IInv /\ [Next]_vars => [A]_vars
  <2> SUFFICES ASSUME IInv, Next, NEW u \in Users,
                      pc[u] \in {"pwritev2", "write"}, pc'[u] # pc[u]
               PROVE  Preserves(file, file')
    OBVIOUS
  <2>1. Preserves(file, file)
    BY DEF Preserves, IInv, TypeOK
  <2>2. AppendStep(u)
    <3>1. PICK v \in Users : AppendStep(v)
      BY DEF Next, OtherStep, Write, WriteAt, Seek, SetFdFlags, ResizeElsewhere,
         MarkAppendOnly
    <3>2. \A w \in Users \ {v} : pc'[w] = pc[w]
      BY <3>1 DEF IInv, TypeOK, AppendStep, Begin, Pwritev2Appends, Pwritev2Fails,
         Pwritev2Refused, GetFl, Tell, SetFlAppend, WriteAppended, RestoreFl,
         RestorePanics, RestorePos, Return, ReturnEarly, Step
    <3>3. QED
      BY <3>1, <3>2
  <2>3. CASE Pwritev2Appends(u)
    <3>1. \A k \in Accepted(want[u], Len(file)) : k \in Nat
      BY DEF Accepted
    <3>2. QED
      BY <2>3, <3>1, SpliceAtEndPreserves DEF Pwritev2Appends, IInv, TypeOK
  <2>4. CASE WriteAppended(u)
    <3>1. WriteOffset(oflags, pos, file) = Len(file)
      BY <2>4 DEF WriteAppended, Step, IInv, SavedFlags, HoldsFlags, WriteOffset
    <3>2. \A k \in Accepted(want[u], Len(file)) : k \in Nat
      BY DEF Accepted
    <3>3. QED
      BY <2>1, <2>4, <3>1, <3>2, SpliceAtEndPreserves DEF WriteAppended, IInv, TypeOK
  <2>5. CASE Pwritev2Fails(u) \/ Pwritev2Refused(u)
    BY <2>1, <2>5 DEF Pwritev2Fails, Pwritev2Refused, ReturnEarly, kernel
  <2>6. QED
    BY <2>2, <2>3, <2>4, <2>5 DEF AppendStep, Begin, GetFl, Tell, SetFlAppend,
       RestoreFl, RestorePanics, RestorePos, Return, ReturnEarly, Step
<1>2. QED
  BY <1>1, Invariance, PTL DEF Spec, AppendsAtEnd

-----------------------------------------------------------------------------
(***************************************************************************)
(* FdAppend implements OpenFile                                            *)
(***************************************************************************)

\* What the promise sees of a description, in terms of its borrower.
SeenFromBorrower ==
  /\ \A u \in Users : HoldsFlags(u) => ApparentFlags = old_flags[u]
  /\ (\A u \in Users : ~HoldsFlags(u)) => ApparentFlags = oflags
  /\ \A u \in Users : HoldsPos(u) => ApparentPos = old_pos[u]
  /\ (\A u \in Users : ~HoldsPos(u)) => ApparentPos = pos

LEMMA Apparent == ASSUME Disciplined PROVE IInv => SeenFromBorrower
<1> SUFFICES ASSUME IInv PROVE SeenFromBorrower
  OBVIOUS
<1>1. \A u, v \in Users : HoldsFlags(u) /\ HoldsFlags(v) => u = v
  BY ModeFact DEF IInv, AtMostOneCall, NoFallback, HoldsFlags
<1>2. \A u, v \in Users : HoldsPos(u) /\ HoldsPos(v) => u = v
  BY ModeFact DEF IInv, AtMostOneCall, NoFallback, HoldsPos
<1>3. ASSUME NEW u \in Users, HoldsFlags(u) PROVE ApparentFlags = old_flags[u]
  <2>1. HoldsFlags(CHOOSE v \in Users : HoldsFlags(v)) /\ (CHOOSE v \in Users : HoldsFlags(v)) \in Users
    BY <1>3
  <2>2. (CHOOSE v \in Users : HoldsFlags(v)) = u
    BY <1>1, <1>3, <2>1
  <2>3. QED
    BY <1>3, <2>2 DEF ApparentFlags
<1>4. ASSUME NEW u \in Users, HoldsPos(u) PROVE ApparentPos = old_pos[u]
  <2>1. HoldsPos(CHOOSE v \in Users : HoldsPos(v)) /\ (CHOOSE v \in Users : HoldsPos(v)) \in Users
    BY <1>4
  <2>2. (CHOOSE v \in Users : HoldsPos(v)) = u
    BY <1>2, <1>4, <2>1
  <2>3. QED
    BY <1>4, <2>2 DEF ApparentPos
<1>5. QED
  BY <1>3, <1>4 DEF SeenFromBorrower, ApparentFlags, ApparentPos

LEMMA ApparentNext == ASSUME Disciplined PROVE IInv' => SeenFromBorrower'
BY Apparent, PTL

\* How the steps of a call look from outside.
LEMMA CallStates ==
  /\ CallState("idle") = "none"
  /\ \A p \in {"pwritev2", "getfl", "tell", "setfl", "write"} : CallState(p) = "open"
  /\ \A p \in {"restorefl", "restorepos", "return"} : CallState(p) = "answered"
BY DEF CallState

\* The instance of OpenFile has the kernel of FileData.
LEMMA SameKernel ==
  /\ \A f, at, u, k : Promise!Splice(f, at, u, k) = Splice(f, at, u, k)
  /\ \A n, at : Promise!Accepted(n, at) = Accepted(n, at)
  /\ \A status, p, f : Promise!WriteOffset(status, p, f) = WriteOffset(status, p, f)
  /\ \A p, at, k : Promise!PosAfter(p, at, k) = PosAfter(p, at, k)
  /\ \A status, arg : Promise!SetFl(status, arg) = SetFl(status, arg)
  /\ \A f, n : Promise!Resize(f, n) = Resize(f, n)
BY DEF Promise!Splice, Splice, Promise!Accepted, Accepted, Promise!WriteOffset,
   WriteOffset, Promise!PosAfter, PosAfter, Promise!SetFl, SetFl, Promise!Settable,
   Settable, Promise!Flags, Flags, Promise!Resize, Resize

LEMMA InitPromise == ASSUME Disciplined PROVE Init => Promise!Init
<1> SUFFICES ASSUME Init PROVE Promise!Init
  OBVIOUS
<1>1. SeenFromBorrower
  BY InitInv, Apparent
<1>2. ApparentFlags = oflags /\ ApparentPos = pos
  BY <1>1 DEF Init, SeenFromBorrower, HoldsFlags, HoldsPos
<1>3. [u \in Users |-> CallState(pc[u])] = [u \in Users |-> "none"]
  BY CallStates DEF Init
<1>4. QED
  BY <1>2, <1>3 DEF Init, Promise!Init, Done, Promise!Done

\* Each step of an append is a step of the promise or invisible: the request,
\* the write (or the error) and the response are seen, the borrowing is not.
LEMMA AppendStepPromise ==
  ASSUME Disciplined, IInv, IInv', NEW u \in Users, AppendStep(u)
  PROVE  Promise!Next \/ UNCHANGED Promise!vars
<1> DEFINE c == [v \in Users |-> CallState(pc[v])]
           cNext == [v \in Users |-> CallState(pc'[v])]
           Call(to) == cNext = [c EXCEPT ![u] = to]
           SameCall == cNext = c
           SameDescription == ApparentFlags' = ApparentFlags /\ ApparentPos' = ApparentPos
<1>1. /\ pc \in [Users -> Steps]
      /\ \A v \in Users \ {u} : pc'[v] = pc[v]
      /\ pc[u] = "idle" => Free(u)
  BY DEF IInv, TypeOK, AppendStep, Begin, Pwritev2Appends, Pwritev2Fails,
     Pwritev2Refused, GetFl, Tell, SetFlAppend, WriteAppended, RestoreFl,
     RestorePanics, RestorePos, Return, ReturnEarly, Step
<1>2. \A v \in Users \ {u} : /\ ~HoldsFlags(v) /\ ~HoldsFlags(v)'
                             /\ ~HoldsPos(v) /\ ~HoldsPos(v)'
  <2>1. \A v \in Users \ {u} : pc[v] \in {"idle", "pwritev2", "return"}
    BY <1>1, ModeFact DEF IInv, TypeOK, Steps, NoFallback, AtMostOneCall, NoPanic, Free
  <2>2. QED
    BY <1>1, <2>1 DEF HoldsFlags, HoldsPos
<1>3. /\ ApparentFlags = IF pc[u] \in {"write", "restorefl"} THEN old_flags[u] ELSE oflags
      /\ ApparentPos = IF pc[u] \in {"restorefl", "restorepos"} THEN old_pos[u] ELSE pos
  BY <1>2, Apparent DEF SeenFromBorrower, HoldsFlags, HoldsPos
<1>4. /\ ApparentFlags' = IF pc'[u] \in {"write", "restorefl"} THEN old_flags'[u] ELSE oflags'
      /\ ApparentPos' = IF pc'[u] \in {"restorefl", "restorepos"} THEN old_pos'[u] ELSE pos'
  BY <1>2, ApparentNext DEF SeenFromBorrower, HoldsFlags, HoldsPos
<1>5. \A to : CallState(pc'[u]) = to => Call(to)
  BY <1>1
<1>6. CallState(pc'[u]) = CallState(pc[u]) => SameCall
  BY <1>1
<1>7. c[u] = CallState(pc[u])
  OBVIOUS
<1> HIDE DEF c, cNext
<1>8. ASSUME NEW from \in {"pwritev2", "getfl", "tell", "setfl"}, ReturnEarly(u, from)
      PROVE  Promise!Refuse(u)
  <2>1. /\ pc[u] = from /\ pc'[u] = "return"
        /\ result' = [result EXCEPT ![u] = Failed] /\ want' = want
        /\ UNCHANGED <<kernel, old_flags, old_pos>>
    BY <1>8 DEF ReturnEarly, Step, Answer, IInv, TypeOK
  <2>2. SameDescription
    BY <1>3, <1>4, <1>8, <2>1 DEF kernel, IInv, SavedFlags, Saved
  <2>3. c[u] = "open" /\ Call("answered")
    BY <1>5, <1>7, <1>8, <2>1, CallStates
  <2>4. QED
    BY <2>1, <2>2, <2>3 DEF Promise!Refuse, Failed, Promise!Failed, kernel, c, cNext
<1>10. CASE Begin(u)
  <2>1. /\ pc[u] = "idle" /\ pc'[u] \in {"getfl", "pwritev2"}
        /\ \E n \in BufLens : want' = [want EXCEPT ![u] = n]
        /\ UNCHANGED <<kernel, old_flags, old_pos, result>>
    BY <1>10 DEF Begin, Step, IInv, TypeOK
  <2>2. SameDescription
    BY <1>3, <1>4, <2>1 DEF kernel
  <2>3. c[u] = "none" /\ Call("open")
    BY <1>5, <1>7, <2>1, CallStates
  <2>4. Promise!Request(u)
    BY <2>1, <2>2, <2>3 DEF Promise!Request, kernel, c, cNext
  <2>5. QED
    BY <2>4 DEF Promise!Next
<1>11. CASE Pwritev2Appends(u)
  <2>1. /\ pc[u] = "pwritev2" /\ pc'[u] = "return"
        /\ \E k \in Accepted(want[u], Len(file)) :
             /\ file' = Splice(file, Len(file), u, k)
             /\ result' = [result EXCEPT ![u] = Done(k)]
        /\ UNCHANGED <<pos, oflags, append_only, want, old_flags, old_pos>>
    BY <1>11 DEF Pwritev2Appends, Step, Answer, IInv, TypeOK
  <2>2. SameDescription
    BY <1>3, <1>4, <2>1
  <2>3. c[u] = "open" /\ Call("answered")
    BY <1>5, <1>7, <2>1, CallStates
  <2>4. Promise!AppendBytes(u)
    BY <2>1, <2>2, <2>3, SameKernel DEF Promise!AppendBytes, Done, Promise!Done, c, cNext
  <2>5. QED
    BY <2>4 DEF Promise!Next
<1>12. CASE Pwritev2Fails(u)
  BY <1>8, <1>12 DEF Pwritev2Fails, Promise!Next
<1>13. CASE Pwritev2Refused(u)
  <2>1. pc[u] = "pwritev2" /\ pc'[u] = "getfl" /\ UNCHANGED <<kernel, locals>>
    BY <1>13 DEF Pwritev2Refused, Step, IInv, TypeOK
  <2>2. SameDescription /\ SameCall
    BY <1>3, <1>4, <1>6, <2>1, CallStates DEF kernel
  <2>3. QED
    BY <2>1, <2>2 DEF Promise!vars, kernel, locals, c, cNext
<1>14. CASE GetFl(u)
  <2>1. CASE ReturnEarly(u, "getfl")
    BY <1>8, <2>1 DEF Promise!Next
  <2>2. CASE ~ReturnEarly(u, "getfl")
    <3>1. pc[u] = "getfl" /\ pc'[u] = "tell" /\ UNCHANGED <<kernel, want, old_pos, result>>
      BY <1>14, <2>2 DEF GetFl, Step, IInv, TypeOK
    <3>2. SameDescription /\ SameCall
      BY <1>3, <1>4, <1>6, <3>1, CallStates DEF kernel
    <3>3. QED
      BY <3>1, <3>2 DEF Promise!vars, kernel, c, cNext
  <2>3. QED
    BY <2>1, <2>2
<1>15. CASE Tell(u)
  <2>1. CASE ReturnEarly(u, "tell")
    BY <1>8, <2>1 DEF Promise!Next
  <2>2. CASE ~ReturnEarly(u, "tell")
    <3>1. pc[u] = "tell" /\ pc'[u] = "setfl" /\ UNCHANGED <<kernel, want, old_flags, result>>
      BY <1>15, <2>2 DEF Tell, Step, IInv, TypeOK
    <3>2. SameDescription /\ SameCall
      BY <1>3, <1>4, <1>6, <3>1, CallStates DEF kernel
    <3>3. QED
      BY <3>1, <3>2 DEF Promise!vars, kernel, c, cNext
  <2>3. QED
    BY <2>1, <2>2
<1>16. CASE SetFlAppend(u)
  <2>1. CASE ReturnEarly(u, "setfl")
    BY <1>8, <2>1 DEF Promise!Next
  <2>2. CASE ~ReturnEarly(u, "setfl")
    <3>1. pc[u] = "setfl" /\ pc'[u] = "write" /\ UNCHANGED <<file, pos, append_only, locals>>
      BY <1>16, <2>2 DEF SetFlAppend, Step, IInv, TypeOK
    <3>2. SameDescription /\ SameCall
      BY <1>3, <1>4, <1>6, <3>1, CallStates DEF locals, IInv, SavedFlags, Saved
    <3>3. QED
      BY <3>1, <3>2 DEF Promise!vars, locals, c, cNext
  <2>3. QED
    BY <2>1, <2>2
<1>17. CASE WriteAppended(u)
  <2>1. /\ pc[u] = "write" /\ pc'[u] = "restorefl"
        /\ UNCHANGED <<oflags, append_only, want, old_flags, old_pos>>
    BY <1>17 DEF WriteAppended, Step, IInv, TypeOK
  <2>2. SameDescription
    BY <1>3, <1>4, <2>1 DEF IInv, SavedPos
  <2>3. c[u] = "open" /\ Call("answered")
    BY <1>5, <1>7, <2>1, CallStates
  <2>4. WriteOffset(oflags, pos, file) = Len(file)
    BY <2>1 DEF IInv, SavedFlags, HoldsFlags, WriteOffset
  <2>5. \/ \E k \in Accepted(want[u], Len(file)) :
             /\ file' = Splice(file, Len(file), u, k)
             /\ result' = [result EXCEPT ![u] = Done(k)]
        \/ result' = [result EXCEPT ![u] = Failed] /\ file' = file
    BY <1>17, <2>4 DEF WriteAppended, Answer
  <2>6. Promise!AppendBytes(u) \/ Promise!Refuse(u)
    BY <2>1, <2>2, <2>3, <2>5, SameKernel DEF Promise!AppendBytes, Promise!Refuse, Done,
       Promise!Done, Failed, Promise!Failed, c, cNext
  <2>7. QED
    BY <2>6 DEF Promise!Next
<1>18. CASE RestoreFl(u)
  <2>1. /\ pc[u] = "restorefl" /\ pc'[u] = "restorepos"
        /\ UNCHANGED <<file, pos, append_only, locals>>
    BY <1>18 DEF RestoreFl, Step, IInv, TypeOK
  <2>2. oflags' = old_flags[u]
    BY <2>1 DEF IInv, SavedFlags, Saved, locals
  <2>3. SameDescription /\ SameCall
    BY <1>3, <1>4, <1>6, <2>1, <2>2, CallStates DEF locals
  <2>4. QED
    BY <2>1, <2>3 DEF Promise!vars, locals, c, cNext
<1>19. CASE RestorePanics(u)
  BY <1>19 DEF RestorePanics, Step, IInv, TypeOK, NoPanic
<1>20. CASE RestorePos(u)
  <2>1. /\ pc[u] = "restorepos" /\ pc'[u] = "return" /\ pos' = old_pos[u]
        /\ UNCHANGED <<file, oflags, append_only, locals>>
    BY <1>20 DEF RestorePos, Step, IInv, TypeOK
  <2>2. SameDescription /\ SameCall
    BY <1>3, <1>4, <1>6, <2>1, CallStates DEF locals
  <2>3. QED
    BY <2>1, <2>2 DEF Promise!vars, locals, c, cNext
<1>21. CASE Return(u)
  <2>1. /\ pc[u] = "return" /\ pc'[u] = "idle"
        /\ want' = [want EXCEPT ![u] = 0]
        /\ result' = [result EXCEPT ![u] = Done(0)]
        /\ UNCHANGED kernel
    BY <1>21 DEF Return, Step, Answer, IInv, TypeOK
  <2>2. SameDescription
    BY <1>3, <1>4, <2>1 DEF kernel
  <2>3. c[u] = "answered" /\ Call("none")
    BY <1>5, <1>7, <2>1, CallStates
  <2>4. Promise!Respond(u)
    BY <2>1, <2>2, <2>3 DEF Promise!Respond, Done, Promise!Done, kernel, c, cNext
  <2>5. QED
    BY <2>4 DEF Promise!Next
<1>22. QED
  BY <1>10, <1>11, <1>12, <1>13, <1>14, <1>15, <1>16, <1>17, <1>18, <1>19, <1>20,
     <1>21 DEF AppendStep

\* The other operations are the promise's own, because nobody has borrowed
\* the description when they run.
LEMMA OtherStepPromise ==
  ASSUME Disciplined, IInv, IInv', NEW u \in Users, OtherStep(u)
  PROVE  Promise!Next
<1>1. \A v \in Users : pc[v] \in {"idle", "pwritev2", "return"}
  BY ModeFact DEF IInv, TypeOK, NoFallback, NoPanic, OtherStep, Write, WriteAt,
     Seek, SetFdFlags, Free
<1>2. pc' = pc /\ UNCHANGED locals
  BY DEF OtherStep, Write, WriteAt, Seek, SetFdFlags
<1>3. ApparentFlags = oflags /\ ApparentPos = pos
  BY <1>1, Apparent DEF SeenFromBorrower, HoldsFlags, HoldsPos
<1>4. ApparentFlags' = oflags' /\ ApparentPos' = pos'
  BY <1>1, <1>2, ApparentNext DEF SeenFromBorrower, HoldsFlags, HoldsPos
<1>5. CASE Write(u)
  <2>1. Promise!WriteAtPosition(u)
    BY <1>2, <1>3, <1>4, <1>5, SameKernel DEF Write, Promise!WriteAtPosition, locals
  <2>2. QED
    BY <2>1 DEF Promise!Next
<1>6. CASE WriteAt(u)
  <2>1. Promise!WriteAtOffset(u)
    BY <1>2, <1>3, <1>4, <1>6, SameKernel DEF WriteAt, Promise!WriteAtOffset, locals
  <2>2. QED
    BY <2>1 DEF Promise!Next
<1>7. CASE Seek(u)
  <2>1. Promise!Reposition
    BY <1>2, <1>3, <1>4, <1>7 DEF Seek, Promise!Reposition, locals
  <2>2. QED
    BY <2>1 DEF Promise!Next
<1>8. CASE SetFdFlags(u)
  <2>1. Promise!ChangeStatus
    <3>1. PICK fd_flags \in SettableTo :
            /\ fd_flags \cap {"DSYNC", "SYNC", "RSYNC"} = {}
            /\ oflags' = SetFl(oflags, fd_flags \cap {"APPEND", "NONBLOCK"})
      BY <1>8 DEF SetFdFlags
    <3>2. fd_flags \cap {"APPEND", "NONBLOCK"} = fd_flags
      BY <3>1, ConstantsAssumption DEF FdFlags
    <3>3. QED
      BY <1>2, <1>3, <1>4, <1>8, <3>1, <3>2, SameKernel
      DEF SetFdFlags, Promise!ChangeStatus, locals
  <2>2. QED
    BY <2>1 DEF Promise!Next
<1>9. QED
  BY <1>5, <1>6, <1>7, <1>8 DEF OtherStep

LEMMA NextPromise ==
  ASSUME Disciplined
  PROVE  IInv /\ IInv' /\ [Next]_vars => [Promise!Next]_(Promise!vars)
<1> SUFFICES ASSUME IInv, IInv', [Next]_vars
             PROVE  [Promise!Next]_(Promise!vars)
  OBVIOUS
<1>1. CASE \E u \in Users : AppendStep(u) \/ OtherStep(u)
  BY <1>1, AppendStepPromise, OtherStepPromise
<1>2. ASSUME pc' = pc, old_flags' = old_flags, old_pos' = old_pos,
             oflags' = oflags, pos' = pos
      PROVE  ApparentFlags' = ApparentFlags /\ ApparentPos' = ApparentPos
  BY <1>2 DEF ApparentFlags, ApparentPos, HoldsFlags, HoldsPos
<1>3. CASE ResizeElsewhere
  <2>1. Promise!ResizeElsewhere
    BY <1>2, <1>3, SameKernel DEF ResizeElsewhere, Promise!ResizeElsewhere, locals
  <2>2. QED
    BY <2>1 DEF Promise!Next
<1>4. CASE MarkAppendOnly
  BY <1>4 DEF MarkAppendOnly, Disciplined
<1>5. CASE UNCHANGED vars
  BY <1>2, <1>5 DEF vars, Promise!vars
<1>6. QED
  BY <1>1, <1>3, <1>4, <1>5 DEF Next

\* Under the discipline append and append_vectored keep the promise: the
\* whole dance of system calls looks like one atomic append at the end of the
\* file, or like one failure that wrote nothing.
THEOREM KeepsPromiseThm == ASSUME Disciplined PROVE Spec => KeepsPromise
<1>1. Init => Promise!Init
  BY InitPromise
<1>2. IInv /\ IInv' /\ [Next]_vars => [Promise!Next]_(Promise!vars)
  BY NextPromise
<1>3. QED
  BY <1>1, <1>2, Invariance, PTL DEF Spec, KeepsPromise, Promise!Spec

-----------------------------------------------------------------------------
(***************************************************************************)
(* What the fallback of append keeps even when the calls of several users  *)
(* interleave                                                              *)
(***************************************************************************)

\* F_SETFL gives APPEND to a description, or takes it, as its argument says.
LEMMA SetFlAppends ==
  ASSUME NEW status, NEW arg
  PROVE  "APPEND" \in SetFl(status, arg) <=> "APPEND" \in arg
BY DEF SetFl, Settable, Flags

\* A write through a description in append mode changes no byte of the file.
LEMMA WriteKeeps ==
  ASSUME NEW f \in Seq(Byte), NEW p \in Nat, NEW status, "APPEND" \in status,
         NEW n \in Nat, NEW u \in Users, NEW k \in Accepted(n, WriteOffset(status, p, f))
  PROVE  Preserves(f, Splice(f, WriteOffset(status, p, f), u, k))
<1>1. WriteOffset(status, p, f) = Len(f) /\ k \in Nat
  BY DEF WriteOffset, Accepted
<1>2. QED
  BY <1>1, SpliceAtEndPreserves

\* In append mode no step of an append changes a byte of the file.
LEMMA AppendKeeps ==
  ASSUME TypeOK, "APPEND" \in oflags, NEW u \in Users, AppendStep(u)
  PROVE  Preserves(file, file')
<1> USE DEF TypeOK
<1>1. CASE UNCHANGED file
  BY <1>1 DEF Preserves
<1>2. CASE Pwritev2Appends(u)
  <2>1. PICK k \in Accepted(want[u], Len(file)) : file' = Splice(file, Len(file), u, k)
    BY <1>2 DEF Pwritev2Appends
  <2>2. k \in Nat
    BY DEF Accepted
  <2>3. QED
    BY <2>1, <2>2, SpliceAtEndPreserves
<1>3. CASE WriteAppended(u)
  BY <1>1, <1>3, WriteKeeps DEF WriteAppended
<1>4. CASE ~Pwritev2Appends(u) /\ ~WriteAppended(u)
  <2>1. UNCHANGED file
    BY <1>4 DEF AppendStep, Begin, Pwritev2Fails, Pwritev2Refused, GetFl, Tell, SetFlAppend,
      RestoreFl, RestorePanics, RestorePos, Return, ReturnEarly, kernel
  <2>2. QED
    BY <1>1, <2>1
<1>5. QED
  BY <1>2, <1>3, <1>4

-----------------------------------------------------------------------------
(***************************************************************************)
(* Descriptions in append mode                                             *)
(***************************************************************************)

\* Opened in append mode, and set_fd_flags is never asked to end it.
AppendMode ==
  /\ \A flags \in InitialFlags : "APPEND" \in flags
  /\ \A fd_flags \in SettableTo : "APPEND" \in fd_flags

\* The steps at which old_flags is what F_GETFL returned and is still to be
\* put back.
Holding(u) == pc[u] \in {"tell", "setfl", "write", "restorefl"}

\* Whatever a call will put back contains APPEND, so nothing can be refused.
ModeInv ==
  /\ TypeOK
  /\ AppendModeKept
  /\ \A u \in Users : Holding(u) => "APPEND" \in old_flags[u]
  /\ NeverPanics

LEMMA ModeInit == ASSUME AppendMode PROVE Init => ModeInv
BY InitType DEF AppendMode, Init, ModeInv, AppendModeKept, Holding, NeverPanics

LEMMA ModeAppendStep ==
  ASSUME AppendMode, ModeInv, NEW u \in Users, AppendStep(u)
  PROVE  AppendModeKept' /\ NeverPanics' /\ \A v \in Users : Holding(v)' => "APPEND" \in old_flags'[v]
<1> USE DEF ModeInv, TypeOK, AppendModeKept, NeverPanics, Holding, Step, Answer
<1>1. CASE \E from : ReturnEarly(u, from)
  BY <1>1 DEF ReturnEarly, kernel
<1>2. CASE Begin(u) \/ Pwritev2Refused(u)
  BY <1>2 DEF Begin, Pwritev2Refused, kernel, locals
<1>3. CASE Pwritev2Appends(u)
  BY <1>3 DEF Pwritev2Appends
<1>4. CASE GetFl(u)
  BY <1>1, <1>4 DEF GetFl, kernel
<1>5. CASE Tell(u)
  BY <1>1, <1>5 DEF Tell, kernel
<1>6. CASE SetFlAppend(u)
  <2>1. "APPEND" \in SetFl(oflags, old_flags[u] \cup {"APPEND"})
    BY SetFlAppends
  <2>2. QED
    BY <1>1, <1>6, <2>1 DEF SetFlAppend, locals
<1>7. CASE WriteAppended(u)
  BY <1>7 DEF WriteAppended
<1>8. CASE RestoreFl(u)
  <2>1. "APPEND" \in old_flags[u]
    BY <1>8 DEF RestoreFl
  <2>2. "APPEND" \in SetFl(oflags, old_flags[u])
    BY <2>1, SetFlAppends
  <2>3. QED
    BY <1>8, <2>2 DEF RestoreFl, locals
<1>9. CASE RestorePanics(u)
  <2>1. "APPEND" \in old_flags[u] /\ ~MaySetFl(append_only, oflags, old_flags[u])
    BY <1>9 DEF RestorePanics
  <2>2. QED
    BY <2>1 DEF MaySetFl
<1>10. CASE RestorePos(u)
  BY <1>10 DEF RestorePos, locals
<1>11. CASE Return(u)
  BY <1>11 DEF Return, kernel
<1>12. QED
  BY <1>1, <1>2, <1>3, <1>4, <1>5, <1>6, <1>7, <1>8, <1>9, <1>10, <1>11
  DEF AppendStep, Pwritev2Fails

LEMMA ModeNext == ASSUME AppendMode PROVE ModeInv /\ [Next]_vars => ModeInv'
<1> SUFFICES ASSUME ModeInv, [Next]_vars PROVE ModeInv'
  OBVIOUS
<1>1. TypeOK'
  BY NextType DEF ModeInv
<1> USE DEF ModeInv, AppendModeKept, NeverPanics, Holding
<1>2. ASSUME NEW u \in Users, AppendStep(u) PROVE ModeInv'
  BY <1>1, <1>2, ModeAppendStep
<1>3. ASSUME NEW u \in Users, Write(u) \/ WriteAt(u) \/ Seek(u) PROVE ModeInv'
  BY <1>1, <1>3 DEF Write, WriteAt, Seek, locals
<1>4. ASSUME NEW u \in Users, SetFdFlags(u) PROVE ModeInv'
  <2>1. PICK fd_flags \in SettableTo :
          oflags' = SetFl(oflags, fd_flags \cap {"APPEND", "NONBLOCK"})
    BY <1>4 DEF SetFdFlags
  <2>2. "APPEND" \in oflags'
    BY <2>1, SetFlAppends DEF AppendMode
  <2>3. QED
    BY <1>1, <1>4, <2>2 DEF SetFdFlags, locals
<1>5. CASE ResizeElsewhere \/ MarkAppendOnly
  BY <1>1, <1>5 DEF ResizeElsewhere, MarkAppendOnly, locals
<1>6. CASE UNCHANGED vars
  BY <1>1, <1>6 DEF vars
<1>7. QED
  BY <1>2, <1>3, <1>4, <1>5, <1>6 DEF Next, OtherStep

\* Any number of interleaved fallbacks leave a description that was opened in
\* append mode in append mode (file_io_ext.rs:551-556).
THEOREM AppendModeKeptThm == ASSUME AppendMode PROVE Spec => []AppendModeKept
<1>1. ModeInv => AppendModeKept
  BY DEF ModeInv
<1>2. QED
  BY <1>1, ModeInit, ModeNext, PTL DEF Spec

\* There, the unwrap of the restoring F_SETFL never fires, whenever the file
\* becomes append-only (file_io_ext.rs:555).
THEOREM NeverPanicsThm == ASSUME AppendMode PROVE Spec => []NeverPanics
<1>1. ModeInv => NeverPanics
  BY DEF ModeInv
<1>2. QED
  BY <1>1, ModeInit, ModeNext, PTL DEF Spec

\* There, the bytes of every append go to the end of the file and change no
\* byte that is there, although fallbacks interleave with each other and with
\* set_fd_flags (file_io_ext.rs:527-586).
THEOREM AppendsAtEndInterleavedThm == ASSUME AppendMode PROVE Spec => AppendsAtEnd
<1> DEFINE A == \A u \in Users :
                  pc[u] \in {"pwritev2", "write"} /\ pc'[u] # pc[u]
                    => Preserves(file, file')
<1>1. ModeInv /\ [Next]_vars => [A]_vars
  <2> SUFFICES ASSUME ModeInv, Next, NEW u \in Users, pc'[u] # pc[u]
               PROVE  Preserves(file, file')
    OBVIOUS
  <2>1. \E v \in Users : AppendStep(v)
    BY DEF Next, OtherStep, Write, WriteAt, Seek, SetFdFlags, ResizeElsewhere, MarkAppendOnly
  <2>2. QED
    BY <2>1, AppendKeeps DEF ModeInv, AppendModeKept
<1>2. QED
  BY <1>1, ModeInit, ModeNext, PTL DEF Spec, AppendsAtEnd

-----------------------------------------------------------------------------
(***************************************************************************)
(* Which flags may drift                                                   *)
(***************************************************************************)

\* Nothing but appends changes the flags.
NobodySets == SettableTo = {}

Around(flags, f) == flags \subseteq f /\ f \subseteq flags \cup {"APPEND"}

\* One choice of the flags the file was opened with explains both what the
\* description has and what every call will put back.
DriftInv ==
  /\ TypeOK
  /\ \E flags \in InitialFlags :
       /\ Around(flags, oflags)
       /\ \A u \in Users : Holding(u) => Around(flags, old_flags[u])

\* F_SETFL keeps the DSYNC of the description and takes the rest.
LEMMA SetFlAround ==
  ASSUME NEW flags, NEW status \in SUBSET Flags, NEW arg \in SUBSET Flags,
         Around(flags, status), Around(flags, arg)
  PROVE  /\ Around(flags, SetFl(status, arg))
         /\ Around(flags, SetFl(status, arg \cup {"APPEND"}))
BY DEF Around, SetFl, Settable, Flags

LEMMA DriftInit == Init => DriftInv
BY InitType DEF Init, DriftInv, Around, Holding

LEMMA DriftAppendStep ==
  ASSUME TypeOK, NEW flags \in InitialFlags, Around(flags, oflags),
         \A v \in Users : Holding(v) => Around(flags, old_flags[v]),
         NEW u \in Users, AppendStep(u)
  PROVE  /\ Around(flags, oflags')
         /\ \A v \in Users : Holding(v)' => Around(flags, old_flags'[v])
<1> USE DEF TypeOK, Holding, Step, Answer
<1>1. CASE \E from : ReturnEarly(u, from)
  BY <1>1 DEF ReturnEarly, kernel
<1>2. CASE Begin(u) \/ Pwritev2Refused(u)
  BY <1>2 DEF Begin, Pwritev2Refused, kernel, locals
<1>3. CASE Pwritev2Appends(u)
  BY <1>3 DEF Pwritev2Appends
<1>4. CASE GetFl(u)
  BY <1>1, <1>4 DEF GetFl, kernel
<1>5. CASE Tell(u)
  BY <1>1, <1>5 DEF Tell, kernel
<1>6. CASE SetFlAppend(u)
  <2>1. CASE ReturnEarly(u, "setfl")
    BY <1>1, <2>1
  <2>2. CASE ~ReturnEarly(u, "setfl")
    <3>1. Around(flags, old_flags[u])
      BY <1>6, <2>2 DEF SetFlAppend
    <3>2. Around(flags, SetFl(oflags, old_flags[u] \cup {"APPEND"}))
      BY <3>1, SetFlAround
    <3>3. QED
      BY <1>6, <2>2, <3>2 DEF SetFlAppend, locals
  <2>3. QED
    BY <2>1, <2>2
<1>7. CASE WriteAppended(u)
  BY <1>7 DEF WriteAppended
<1>8. CASE RestoreFl(u)
  BY <1>8, SetFlAround DEF RestoreFl, locals
<1>9. CASE RestorePanics(u)
  BY <1>9 DEF RestorePanics, kernel, locals
<1>10. CASE RestorePos(u)
  BY <1>10 DEF RestorePos, locals
<1>11. CASE Return(u)
  BY <1>11 DEF Return, kernel
<1>12. QED
  BY <1>1, <1>2, <1>3, <1>4, <1>5, <1>6, <1>7, <1>8, <1>9, <1>10, <1>11
  DEF AppendStep, Pwritev2Fails

LEMMA DriftNext == ASSUME NobodySets PROVE DriftInv /\ [Next]_vars => DriftInv'
<1> SUFFICES ASSUME DriftInv, [Next]_vars PROVE DriftInv'
  OBVIOUS
<1>1. TypeOK /\ TypeOK'
  BY NextType DEF DriftInv
<1>2. PICK flags \in InitialFlags :
        /\ Around(flags, oflags)
        /\ \A v \in Users : Holding(v) => Around(flags, old_flags[v])
  BY DEF DriftInv
<1>3. SUFFICES /\ Around(flags, oflags')
               /\ \A v \in Users : Holding(v)' => Around(flags, old_flags'[v])
  BY <1>1 DEF DriftInv, Around
<1>4. ASSUME NEW u \in Users, AppendStep(u)
      PROVE  /\ Around(flags, oflags')
             /\ \A v \in Users : Holding(v)' => Around(flags, old_flags'[v])
  BY <1>1, <1>2, <1>4, DriftAppendStep
<1>5. CASE UNCHANGED <<oflags, pc, old_flags>>
  BY <1>2, <1>5 DEF Holding
<1>6. ASSUME NEW u \in Users, OtherStep(u) PROVE UNCHANGED <<oflags, pc, old_flags>>
  BY <1>6 DEF NobodySets, OtherStep, Write, WriteAt, Seek, SetFdFlags, locals
<1>7. ResizeElsewhere \/ MarkAppendOnly \/ UNCHANGED vars
        => UNCHANGED <<oflags, pc, old_flags>>
  BY DEF ResizeElsewhere, MarkAppendOnly, locals, vars
<1>8. QED
  BY <1>4, <1>5, <1>6, <1>7 DEF Next

\* Interleaved fallbacks restore each other's flags in any order, and yet lose
\* none of the flags the file was opened with and add only APPEND
\* (file_io_ext.rs:551, 553, 555).
THEOREM OnlyAppendDriftsThm == ASSUME NobodySets PROVE Spec => []OnlyAppendDrifts
<1>1. DriftInv => OnlyAppendDrifts
  BY DEF DriftInv, Around, OnlyAppendDrifts
<1>2. QED
  BY <1>1, DriftInit, DriftNext, PTL DEF Spec

-----------------------------------------------------------------------------
(***************************************************************************)
(* After a panic                                                           *)
(***************************************************************************)

Stranded == \E u \in Users : pc[u] = "panicked"

\* Inside a call, and not yet dead of it.
InCall(u) == pc[u] \notin {"idle", "panicked"}

\* Users take turns, so the description stays in append mode from the switch of
\* a call to the end of its restore.  A restore refused there is one that would
\* take append mode away from an append-only file; neither changes any more.
StrandedInv ==
  /\ TypeOK
  /\ exclusive =>
       /\ \A u, v \in Users : InCall(u) /\ InCall(v) => u = v
       /\ \A u \in Users : HoldsFlags(u) => "APPEND" \in oflags
       /\ Stranded => append_only /\ "APPEND" \in oflags

LEMMA StrandedInit == Init => StrandedInv
BY InitType DEF Init, StrandedInv, Stranded, InCall, HoldsFlags

\* No step takes APPEND off an append-only file's description.
LEMMA AppendStays ==
  ASSUME TypeOK, append_only, "APPEND" \in oflags, [Next]_vars
  PROVE  append_only' /\ "APPEND" \in oflags'
<1>1. ASSUME NEW arg, MaySetFl(append_only, oflags, arg) PROVE "APPEND" \in arg
  BY <1>1 DEF MaySetFl
<1>2. ASSUME NEW u \in Users, AppendStep(u) PROVE append_only' /\ "APPEND" \in oflags'
  <2>1. CASE SetFlAppend(u)
    <3>1. "APPEND" \in SetFl(oflags, old_flags[u] \cup {"APPEND"})
      BY SetFlAppends
    <3>2. QED
      BY <2>1, <3>1 DEF SetFlAppend, ReturnEarly, kernel
  <2>2. CASE RestoreFl(u)
    BY <1>1, <2>2, SetFlAppends DEF RestoreFl
  <2>3. CASE ~SetFlAppend(u) /\ ~RestoreFl(u)
    <3>1. UNCHANGED <<append_only, oflags>>
      BY <1>2, <2>3 DEF AppendStep, Begin, Pwritev2Appends, Pwritev2Fails, Pwritev2Refused,
        GetFl, Tell, WriteAppended, RestorePanics, RestorePos, Return, ReturnEarly, kernel
    <3>2. QED
      BY <3>1
  <2>4. QED
    BY <2>1, <2>2, <2>3
<1>3. ASSUME NEW u \in Users, SetFdFlags(u) PROVE append_only' /\ "APPEND" \in oflags'
  <2>1. PICK fd_flags \in SettableTo :
          /\ MaySetFl(append_only, oflags, fd_flags)
          /\ oflags' = SetFl(oflags, fd_flags \cap {"APPEND", "NONBLOCK"})
    BY <1>3 DEF SetFdFlags
  <2>2. "APPEND" \in fd_flags
    BY <1>1, <2>1
  <2>3. QED
    BY <1>3, <2>1, <2>2, SetFlAppends DEF SetFdFlags
<1>4. ASSUME NEW u \in Users, Write(u) \/ WriteAt(u) \/ Seek(u)
      PROVE  append_only' /\ "APPEND" \in oflags'
  BY <1>4 DEF Write, WriteAt, Seek
<1>5. CASE ResizeElsewhere \/ MarkAppendOnly \/ UNCHANGED vars
  BY <1>5 DEF ResizeElsewhere, MarkAppendOnly, vars
<1>6. QED
  BY <1>2, <1>3, <1>4, <1>5 DEF Next, OtherStep

\* Users go on taking turns: only a user who may starts a call, and a call
\* makes one step at a time.
LEMMA TurnsKept ==
  ASSUME TypeOK, exclusive, NEW u \in Users, AppendStep(u),
         \A v, w \in Users : InCall(v) /\ InCall(w) => v = w
  PROVE  /\ \A v \in Users \ {u} : ~InCall(v) /\ pc'[v] = pc[v]
         /\ \A v, w \in Users : InCall(v)' /\ InCall(w)' => v = w
<1>1. /\ \A v \in Users \ {u} : pc'[v] = pc[v]
      /\ pc[u] = "idle" => Free(u)
      /\ pc[u] # "panicked"
  BY DEF TypeOK, AppendStep, Begin, Pwritev2Appends, Pwritev2Fails,
     Pwritev2Refused, GetFl, Tell, SetFlAppend, WriteAppended, RestoreFl,
     RestorePanics, RestorePos, Return, ReturnEarly, Step
<1>2. \A v \in Users \ {u} : ~InCall(v)
  BY <1>1 DEF InCall, Free
<1>3. QED
  BY <1>1, <1>2 DEF InCall

\* The step of the one user inside a call.
LEMMA StrandedAppendStep ==
  ASSUME StrandedInv, exclusive, NEW u \in Users, AppendStep(u)
  PROVE  /\ \A v \in Users : HoldsFlags(v)' => "APPEND" \in oflags'
         /\ Stranded' => append_only' /\ "APPEND" \in oflags'
<1>1. /\ TypeOK
      /\ \A v \in Users \ {u} : ~InCall(v) /\ pc'[v] = pc[v]
  BY TurnsKept DEF StrandedInv
<1>2. \A v \in Users \ {u} : ~HoldsFlags(v)'
  BY <1>1 DEF InCall, HoldsFlags
<1>3. HoldsFlags(u)' => "APPEND" \in oflags'
  <2>1. CASE SetFlAppend(u)
    <3>1. "APPEND" \in SetFl(oflags, old_flags[u] \cup {"APPEND"})
      BY SetFlAppends
    <3>2. QED
      BY <1>1, <2>1, <3>1 DEF SetFlAppend, ReturnEarly, Step, TypeOK, HoldsFlags
  <2>2. CASE WriteAppended(u)
    BY <2>2 DEF WriteAppended, Step, StrandedInv, HoldsFlags
  <2>3. CASE ~SetFlAppend(u) /\ ~WriteAppended(u)
    BY <1>1, <2>3 DEF AppendStep, Begin, Pwritev2Appends, Pwritev2Fails,
      Pwritev2Refused, GetFl, Tell, RestoreFl, RestorePanics, RestorePos, Return,
      ReturnEarly, Step, TypeOK, HoldsFlags
  <2>4. QED
    BY <2>1, <2>2, <2>3
<1>4. Stranded' => append_only' /\ "APPEND" \in oflags'
  <2>1. CASE Stranded
    BY <1>1, <2>1, AppendStays DEF StrandedInv, Next
  <2>2. CASE RestorePanics(u)
    <3>1. "APPEND" \in oflags /\ append_only
      BY <2>2 DEF RestorePanics, MaySetFl, Step, StrandedInv, HoldsFlags
    <3>2. QED
      BY <2>2, <3>1 DEF RestorePanics, kernel
  <2>3. CASE ~Stranded /\ ~RestorePanics(u)
    <3>1. pc'[u] # "panicked"
      BY <1>1, <2>3 DEF AppendStep, Begin, Pwritev2Appends, Pwritev2Fails,
        Pwritev2Refused, GetFl, Tell, SetFlAppend, WriteAppended, RestoreFl,
        RestorePos, Return, ReturnEarly, Step, TypeOK
    <3>2. QED
      BY <1>1, <2>3, <3>1 DEF Stranded
  <2>4. QED
    BY <2>1, <2>2, <2>3
<1>5. QED
  BY <1>2, <1>3, <1>4

LEMMA StrandedNext == StrandedInv /\ [Next]_vars => StrandedInv'
<1> SUFFICES ASSUME StrandedInv, [Next]_vars PROVE StrandedInv'
  OBVIOUS
<1>1. TypeOK /\ TypeOK'
  BY NextType DEF StrandedInv
<1>2. ASSUME NEW u \in Users, AppendStep(u) PROVE StrandedInv'
  <2>1. exclusive' = exclusive
    BY <1>2, ModeKept
  <2>2. QED
    BY <1>1, <1>2, <2>1, TurnsKept, StrandedAppendStep DEF StrandedInv
<1>3. ASSUME NEW u \in Users, SetFdFlags(u) PROVE StrandedInv'
  <2>1. UNCHANGED <<pc, exclusive>>
    BY <1>3 DEF SetFdFlags
  <2>2. exclusive => \A v \in Users : ~HoldsFlags(v)
    BY <1>3 DEF SetFdFlags, Free, HoldsFlags
  <2>3. exclusive /\ Stranded => append_only' /\ "APPEND" \in oflags'
    BY <1>1, <1>3, AppendStays DEF StrandedInv, Next, OtherStep
  <2>4. QED
    BY <1>1, <2>1, <2>2, <2>3 DEF StrandedInv, Stranded, InCall, HoldsFlags
<1>4. ASSUME UNCHANGED <<pc, exclusive, oflags>>, append_only => append_only'
      PROVE  StrandedInv'
  BY <1>1, <1>4 DEF StrandedInv, Stranded, InCall, HoldsFlags
<1>5. ASSUME NEW u \in Users, Write(u) \/ WriteAt(u) \/ Seek(u) PROVE StrandedInv'
  BY <1>4, <1>5 DEF Write, WriteAt, Seek
<1>6. CASE ResizeElsewhere \/ MarkAppendOnly \/ UNCHANGED vars
  BY <1>4, <1>6 DEF ResizeElsewhere, MarkAppendOnly, vars
<1>7. QED
  BY <1>2, <1>3, <1>5, <1>6 DEF Next, OtherStep

\* In append mode no step changes a byte of an append-only file.
LEMMA StrandedStep ==
  ASSUME TypeOK, append_only, "APPEND" \in oflags, [Next]_vars
  PROVE  Preserves(file, file')
<1> USE DEF TypeOK
<1>1. CASE UNCHANGED file
  BY <1>1 DEF Preserves
<1>2. ASSUME NEW u \in Users, AppendStep(u) PROVE Preserves(file, file')
  BY <1>2, AppendKeeps
<1>3. ASSUME NEW u \in Users, Write(u) PROVE Preserves(file, file')
  BY <1>3, WriteKeeps, ConstantsAssumption DEF Write
<1>4. ASSUME NEW u \in Users, WriteAt(u) PROVE Preserves(file, file')
  BY <1>4, WriteKeeps, ConstantsAssumption DEF WriteAt
<1>5. ASSUME NEW u \in Users, Seek(u) \/ SetFdFlags(u) PROVE UNCHANGED file
  BY <1>5 DEF Seek, SetFdFlags
<1>6. MarkAppendOnly \/ UNCHANGED vars => UNCHANGED file
  BY DEF MarkAppendOnly, vars
<1>7. ~ResizeElsewhere
  BY DEF ResizeElsewhere
<1>8. QED
  BY <1>1, <1>2, <1>3, <1>4, <1>5, <1>6, <1>7 DEF Next, OtherStep

\* When users take turns, a panic strands the description in append mode on an
\* append-only file: no call of anybody ends that, overwrites a byte or shortens
\* the file (file_io_ext.rs:555).
THEOREM AfterPanicOnlyAppendsThm == Spec => AfterPanicOnlyAppends
<1>1. StrandedInv /\ [Next]_vars =>
        [exclusive /\ Stranded => Preserves(file, file') /\ "APPEND" \in oflags']_vars
  BY StrandedStep, AppendStays DEF StrandedInv
<1>2. QED
  BY <1>1, StrandedInit, StrandedNext, PTL DEF Spec, AfterPanicOnlyAppends, Stranded

=============================================================================
