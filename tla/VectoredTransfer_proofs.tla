----------------------- MODULE VectoredTransfer_proofs -----------------------
(***************************************************************************)
(* Theorems about the transfer loops, for every list of buffers, every     *)
(* iovec limit, every source and every sequence of short counts, EINTR and *)
(* errors.                                                                 *)
(***************************************************************************)
EXTENDS VectoredTransfer, TLAPS

-----------------------------------------------------------------------------
(***************************************************************************)
(* The inductive invariant                                                 *)
(***************************************************************************)

\* Every slice keeps its end; those after the first of bufs are untouched.
Shape ==
  \A i \in 1 .. N :
    /\ edge[i - 1] <= ptr[i] /\ ptr[i] + len[i] = edge[i]
    /\ i > base => ptr[i] = edge[i - 1]

\* The methods with one buffer never leave its slice.
Single ==
  op \in SliceOps =>
    /\ base = 1 /\ gather = "iovec" /\ Total = edge[1]
    /\ pc \notin {"skip", "scan"}

\* The slices from b on hold exactly the bytes from x on.
Pending(b, x) == IF b > N THEN x = Total ELSE ptr[b] = x

\* Where the code and the kernel are in the slices.
Walk ==
  /\ moved <= Total
  /\ pc \in {"skip", "loop"} => Pending(base, moved)
  /\ pc = "kernel" =>
       /\ base <= cur /\ cur <= last + 1 /\ base <= last
       /\ Pending(base, moved) /\ Pending(cur, moved + n)
       /\ cur = base => n = 0
  /\ pc = "returned" => base <= N /\ n <= moved /\ Pending(base, moved - n)
  /\ pc = "scan" =>
       /\ base + remove <= N + 1 /\ acc <= n /\ n <= moved
       /\ Pending(base + remove, moved - n + acc)

\* The offset cannot wrap: it is checked, or the kernel takes no such offset.
NoWrap == op # "write_all_at" \/ limit <= OffsetMax

\* The local offset keeps up with the bytes moved.
Offsets ==
  /\ offset <= OffsetMax
  /\ Positional /\ NoWrap =>
       /\ pc \in {"skip", "loop", "kernel", "scan"} => offset = start + moved
       /\ pc = "returned" => offset = start + moved - n
       /\ limit <= OffsetMax =>
            /\ pc = "kernel" => start + moved + n <= OffsetMax
            /\ pc = "returned" => start + moved <= OffsetMax

\* A read returns nothing only at the end of the source.
Source ==
  Reads =>
    /\ moved <= size
    /\ pc = "loop" /\ base <= N => len[base] > 0
    /\ pc = "kernel" =>
         /\ moved + n <= size /\ len[base] > 0
         /\ cur > base => n > 0
    /\ pc = "returned" /\ n = 0 => moved = size /\ moved < Total

\* What the system calls have moved is in place.
Copied ==
  NoWrap =>
    \A x \in 0 .. Total - 1 :
      /\ data[x] \in {None, x}
      /\ x < moved \/ (pc = "kernel" /\ x < moved + n) => data[x] = x

Ends ==
  /\ pc # "done" => outcome = "none"
  /\ OkIsComplete /\ EofIsReal /\ OffsetFits /\ OverflowIsReal

TInv == TypeOK /\ Shape /\ Single /\ Walk /\ Offsets /\ Source /\ Copied /\ Ends

-----------------------------------------------------------------------------
(***************************************************************************)
(* Lemmas                                                                  *)
(***************************************************************************)

\* The constants and variables that are numbers.
Numbers ==
  /\ N \in Nat /\ N > 0 /\ IovMax \in Nat /\ IovMax > 0 /\ Total \in Nat
  /\ start \in Nat /\ start <= OffsetMax /\ OffsetMax \in Nat
  /\ limit \in Nat /\ size \in Nat
  /\ base \in Nat /\ cur \in Nat /\ last \in Nat /\ remove \in Nat
  /\ offset \in Nat /\ n \in Nat /\ moved \in Nat /\ acc \in Nat

\* All of them, without the sets they are taken from.
Typed ==
  /\ Numbers
  /\ edge \in [0 .. N -> Nat] /\ edge[0] = 0
  /\ \A i, j \in 0 .. N : i <= j => edge[i] <= edge[j]
  /\ op \in AllOps /\ gather \in {"iovec", "first"}
  /\ ptr \in [1 .. N -> Nat] /\ len \in [1 .. N -> Nat]
  /\ base \in 1 .. N + 1 /\ cur \in 1 .. N + 1 /\ last \in 0 .. N /\ remove \in 0 .. N
  /\ data \in [0 .. Total - 1 -> Int]

LEMMA VariablesTyped == TypeOK => Typed
BY TransferAssumption DEF TypeOK, Typed, Numbers, Total

\* Wrapping addition stays below the width.
LEMMA ModInRange ==
  ASSUME NEW a \in Nat, NEW m \in Nat
  PROVE  a % (m + 1) \in Nat /\ a % (m + 1) <= m
OBVIOUS

\* Past slice b the bytes of slice b are used up.
LEMMA NextSlice ==
  ASSUME TypeOK, Shape, NEW b \in Nat, base <= b, b <= N, NEW x \in Int, Pending(b, x)
  PROVE  /\ ptr[b] = x /\ x + len[b] = edge[b]
         /\ x + len[b] <= Total
         /\ Pending(b + 1, x + len[b])
<1>1. Typed
  BY VariablesTyped
<1>2. b \in 1 .. N /\ b > 0
  BY <1>1 DEF TypeOK, Typed
<1>3. ptr[b] = x /\ x + len[b] = edge[b]
  BY <1>2, <1>1 DEF Pending, Shape, Typed, Numbers
<1>4. x + len[b] <= Total
  BY <1>1, <1>2, <1>3 DEF Typed, Numbers, Total
<1>5. CASE b = N
  BY <1>1, <1>3, <1>4, <1>5 DEF Pending, Typed, Numbers, Total
<1>6. CASE b < N
  <2>1. b + 1 \in 1 .. N /\ b + 1 > base /\ (b + 1) - 1 = b
    BY <1>1, <1>2, <1>6 DEF Typed, Numbers, TypeOK
  <2>2. ptr[b + 1] = edge[b]
    BY <2>1 DEF Shape
  <2> QED
    BY <1>1, <1>3, <1>4, <2>1, <2>2 DEF Pending, Typed, Numbers
<1> QED
  BY <1>1, <1>2, <1>5, <1>6 DEF Typed, Numbers

-----------------------------------------------------------------------------
(***************************************************************************)
(* The initial states                                                      *)
(***************************************************************************)

LEMMA InitInv == Init => TInv
<1> SUFFICES ASSUME Init PROVE TInv
  OBVIOUS
<1>1. TypeOK
  BY SMTT(30), TransferAssumption DEF Init, TypeOK, Total, None, Results
<1>2. Typed
  BY <1>1, VariablesTyped
<1>3. Shape
  BY <1>2 DEF Init, Shape, Typed, Numbers
<1>4. Single
  BY DEF Init, Single, Total, SliceOps, ReadOps
<1>5. Walk
  BY <1>2 DEF Init, Walk, Pending, Typed, Numbers, Total
<1>6. Offsets
  BY <1>2 DEF Init, Offsets, Typed, Numbers, Positional, NoWrap
<1>7. Source
  BY <1>2 DEF Init, Source, Typed, Numbers, Reads
<1>8. Copied
  BY <1>2 DEF Init, Copied, Typed, Numbers, None
<1>9. Ends
  BY <1>6 DEF Init, Ends, OkIsComplete, EofIsReal, OffsetFits, OverflowIsReal, Offsets
<1> QED
  BY <1>1, <1>3, <1>4, <1>5, <1>6, <1>7, <1>8, <1>9 DEF TInv

-----------------------------------------------------------------------------
(***************************************************************************)
(* Each step keeps it                                                      *)
(***************************************************************************)

\* An empty slice is dropped, or the search ends.
LEMMA SkipLeadingEmptiesInv == TInv /\ SkipLeadingEmpties => TInv'
<1> SUFFICES ASSUME TInv, SkipLeadingEmpties PROVE TInv'
  OBVIOUS
<1> USE DEF TInv, SkipLeadingEmpties, inputs, slices
<1>0. Typed
  BY VariablesTyped
<1>1. TypeOK'
  <2>1. base' \in 1 .. N + 1 /\ pc' \in {"skip", "loop"}
    BY <1>0 DEF Typed, Numbers
  <2> QED
    BY <2>1 DEF TypeOK, Total
<1>2. Shape'
  BY <1>0 DEF Shape, Typed
<1>3. Single'
  BY <1>0 DEF Single, Total, SliceOps, PositionalOps
<1>4. Walk'
  <2>1. CASE base <= N /\ len[base] = 0 /\ base' = base + 1 /\ UNCHANGED pc
    <3>1. Pending(base + 1, moved + len[base])
      BY <1>0, <2>1, NextSlice DEF Typed, Numbers, Walk
    <3> QED
      BY <1>0, <2>1, <3>1 DEF Walk, Pending, Typed, Numbers, Total
  <2>2. CASE pc' = "loop" /\ UNCHANGED base
    BY <2>2 DEF Walk, Pending, Total
  <2> QED
    BY <2>1, <2>2
<1>5. Offsets'
  BY <1>0 DEF Offsets, Positional, NoWrap
<1>6. Source'
  BY <1>0 DEF Source, Reads, Total, SliceOps, Typed
<1>7. Copied'
  BY <1>0 DEF Copied, NoWrap, Total
<1>8. Ends'
  BY <1>0 DEF Ends, OkIsComplete, EofIsReal, OffsetFits, OverflowIsReal
<1> QED
  BY <1>1, <1>2, <1>3, <1>4, <1>5, <1>6, <1>7, <1>8

\* bufs is used up.
LEMMA LoopEndsInv == TInv /\ LoopEnds => TInv'
<1> SUFFICES ASSUME TInv, LoopEnds PROVE TInv'
  OBVIOUS
<1> USE DEF TInv, LoopEnds, inputs, slices
<1>0. Typed
  BY VariablesTyped
<1>1. TypeOK'
  BY <1>0 DEF TypeOK, Total, Results, Finish
<1>2. Shape'
  BY <1>0 DEF Shape, Finish
<1>3. Single'
  BY <1>0 DEF Single, Total, Finish
<1>4. Walk'
  BY <1>0 DEF Walk, Pending, Total, Finish
<1>5. Offsets'
  BY <1>0 DEF Offsets, Positional, Finish
<1>6. Source'
  BY <1>0 DEF Source, Reads, Finish
<1>7. Copied'
  BY <1>0 DEF Copied, NoWrap, Total, Finish
<1>8. Ends'
  BY <1>0 DEF Ends, OkIsComplete, EofIsReal, OffsetFits, OverflowIsReal,
     Positional, Total, Finish, Walk, Pending, Exhausted, Shape, Single,
     Offsets, NoWrap, SliceOps, Typed, Numbers
<1> QED
  BY <1>1, <1>2, <1>3, <1>4, <1>5, <1>6, <1>7, <1>8

\* A system call starts at the first slice of bufs.
LEMMA CallInv == TInv /\ Call => TInv'
<1> SUFFICES ASSUME TInv, Call PROVE TInv'
  OBVIOUS
<1> USE DEF TInv, Call, inputs, slices
<1>0. Typed
  BY VariablesTyped
<1>1. TypeOK'
  <2>1. cur' \in 1 .. N + 1 /\ last' \in 0 .. N /\ n' \in Nat
    BY <1>0 DEF TypeOK, Typed, Numbers
  <2> QED
    BY <2>1 DEF TypeOK, Total
<1>2. Shape'
  BY <1>0 DEF Shape, Exhausted
<1>3. Single'
  BY <1>0 DEF Single, Total, Exhausted, SliceOps
<1>4. Walk'
  BY <1>0 DEF Walk, Pending, Total, Exhausted, Single, Typed, Numbers
<1>5. Offsets'
  BY <1>0 DEF Offsets, Positional, NoWrap, Typed, Numbers
<1>6. Source'
  BY <1>0 DEF Source, Reads, Total, Exhausted, SliceOps, ReadOps, Typed,
     Numbers
<1>7. Copied'
  BY <1>0 DEF Copied, NoWrap, Total, Typed, Numbers
<1>8. Ends'
  BY DEF Ends, OkIsComplete, EofIsReal, OffsetFits, OverflowIsReal
<1> QED
  BY <1>1, <1>2, <1>3, <1>4, <1>5, <1>6, <1>7, <1>8

\* EINTR: the loop starts over with nothing moved.
LEMMA InterruptedInv == TInv /\ Interrupted => TInv'
<1> SUFFICES ASSUME TInv, Interrupted PROVE TInv'
  OBVIOUS
<1> USE DEF TInv, Interrupted, inputs, slices
<1>0. Typed
  BY VariablesTyped
<1>1. TypeOK'
  BY <1>0 DEF TypeOK, Total, Results, NextTurn
<1>2. Shape'
  BY <1>0 DEF Shape, NextTurn
<1>3. Single'
  BY <1>0 DEF Single, Total, NextTurn, Reads, SliceOps, ReadOps
<1>4. Walk'
  BY <1>0 DEF Walk, Pending, Total, NextTurn
<1>5. Offsets'
  BY <1>0 DEF Offsets, Positional, NoWrap, NextTurn
<1>6. Source'
  BY <1>0 DEF Source, Reads, NextTurn
<1>7. Copied'
  BY <1>0 DEF Copied, NoWrap, Total
<1>8. Ends'
  BY <1>0 DEF Ends, OkIsComplete, EofIsReal, OffsetFits, OverflowIsReal,
     NextTurn
<1> QED
  BY <1>1, <1>2, <1>3, <1>4, <1>5, <1>6, <1>7, <1>8

\* An error ends the call.
LEMMA FailsInv == TInv /\ Fails => TInv'
<1> SUFFICES ASSUME TInv, Fails PROVE TInv'
  OBVIOUS
<1> USE DEF TInv, Fails, inputs, slices
<1>0. Typed
  BY VariablesTyped
<1>1. TypeOK'
  BY DEF TypeOK, Finish, Total, Results
<1>2. Shape'
  BY <1>0 DEF Shape, Finish
<1>3. Single'
  BY <1>0 DEF Single, Total, Finish
<1>4. Walk'
  BY <1>0 DEF Walk, Pending, Total, Finish
<1>5. Offsets'
  BY <1>0 DEF Offsets, Positional, Finish
<1>6. Source'
  BY <1>0 DEF Source, Reads, Finish
<1>7. Copied'
  BY <1>0 DEF Copied, NoWrap, Total
<1>8. Ends'
  BY <1>0 DEF Ends, OkIsComplete, EofIsReal, OffsetFits, OverflowIsReal,
     Positional, Finish, Offsets, NoWrap, SliceOps, Typed, Numbers
<1> QED
  BY <1>1, <1>2, <1>3, <1>4, <1>5, <1>6, <1>7, <1>8

\* A read that returns nothing ends the call.
LEMMA EndOfFileInv == TInv /\ EndOfFile => TInv'
<1> SUFFICES ASSUME TInv, EndOfFile PROVE TInv'
  OBVIOUS
<1> USE DEF TInv, EndOfFile, inputs, slices
<1>0. Typed
  BY VariablesTyped
<1>1. TypeOK'
  BY <1>0 DEF TypeOK, Total, Results, NothingRead, Finish
<1>2. Shape'
  BY <1>0 DEF Shape, NothingRead, Finish
<1>3. Single'
  BY <1>0 DEF Single, Total, NothingRead, Finish
<1>4. Walk'
  BY <1>0 DEF Walk, Pending, Total, NothingRead, Finish
<1>5. Offsets'
  BY <1>0 DEF Offsets, Positional, NoWrap, NothingRead, Finish
<1>6. Source'
  BY <1>0 DEF Source, Reads, NothingRead, Finish
<1>7. Copied'
  BY <1>0 DEF Copied, NoWrap, Total, NothingRead, Finish
<1>8. Ends'
  BY <1>0 DEF Ends, OkIsComplete, EofIsReal, OffsetFits, OverflowIsReal,
     Positional, Total, NothingRead, Finish, Offsets, NoWrap, Source,
     SliceOps, Typed, Numbers
<1> QED
  BY <1>1, <1>2, <1>3, <1>4, <1>5, <1>6, <1>7, <1>8

\* So does an offset that cannot be represented.
LEMMA ReportOverflowInv == TInv /\ ReportOverflow => TInv'
<1> SUFFICES ASSUME TInv, ReportOverflow PROVE TInv'
  OBVIOUS
<1> USE DEF TInv, ReportOverflow, inputs, slices
<1>0. Typed
  BY VariablesTyped
<1>1. TypeOK'
  BY <1>0 DEF TypeOK, Total, Results, Finish
<1>2. Shape'
  BY <1>0 DEF Shape, Finish
<1>3. Single'
  BY <1>0 DEF Single, Total, Finish
<1>4. Walk'
  BY <1>0 DEF Walk, Pending, Total, Finish
<1>5. Offsets'
  BY <1>0 DEF Offsets, Positional, NoWrap, Finish
<1>6. Source'
  BY <1>0 DEF Source, Reads, Total, Finish
<1>7. Copied'
  BY <1>0 DEF Copied, NoWrap, Total, Finish
<1>8. Ends'
  <2>1. Positional /\ NoWrap /\ offset = start + moved - n /\ offset + n > OffsetMax
    BY <1>0 DEF OffsetOverflows, NoWrap, SliceOps, Offsets
  <2>2. Numbers
    BY <1>0 DEF Typed
  <2> HIDE DEF TInv, ReportOverflow
  <2>3. start + moved > OffsetMax
    BY <2>1, <2>2 DEF Numbers
  <2>4. limit > OffsetMax
    <3>1. limit <= OffsetMax => start + moved <= OffsetMax
      BY <2>1 DEF TInv, ReportOverflow, Offsets
    <3> QED
      BY <2>2, <2>3, <3>1 DEF Numbers
  <2>5. /\ pc' = "done" /\ outcome' = "offset overflow" /\ op' = op
        /\ start' = start /\ moved' = moved /\ limit' = limit
    BY DEF ReportOverflow, Finish
  <2>6. ~(limit <= OffsetMax)
    BY <2>2, <2>4 DEF Numbers
  <2> QED
    BY <2>3, <2>5, <2>6 DEF Ends, OkIsComplete, EofIsReal, OffsetFits,
     OverflowIsReal
<1> QED
  BY <1>1, <1>2, <1>3, <1>4, <1>5, <1>6, <1>7, <1>8

\* The offset moves on by what was moved.
LEMMA MoveOffsetInv == TInv /\ MoveOffset => TInv'
<1> SUFFICES ASSUME TInv, MoveOffset PROVE TInv'
  OBVIOUS
<1> USE DEF TInv, MoveOffset, inputs, slices
<1>0. Typed
  BY VariablesTyped
<1>1. TypeOK'
  <2>1. offset' \in Nat /\ remove' \in 0 .. N /\ acc' \in Nat
    BY <1>0 DEF Typed, Numbers, OffsetBecomes
  <2> QED
    BY <2>1, <1>0 DEF TypeOK, Total, OffsetBecomes
<1>2. Shape'
  BY <1>0 DEF Shape, OffsetBecomes
<1>3. Single'
  BY DEF Single, OffsetBecomes
<1>4. Walk'
  BY <1>0 DEF Walk, Pending, Total, OffsetBecomes, Typed, Numbers
<1>5. Offsets'
  BY <1>0 DEF Offsets, Positional, NoWrap, OffsetBecomes, OffsetOverflows,
     Typed, Numbers
<1>6. Source'
  BY <1>0 DEF Source, Reads, Total, OffsetBecomes
<1>7. Copied'
  BY <1>0 DEF Copied, NoWrap, Total, OffsetBecomes
<1>8. Ends'
  BY <1>0 DEF Ends, OkIsComplete, EofIsReal, OffsetFits, OverflowIsReal,
     OffsetBecomes, OffsetOverflows, Typed, Numbers
<1> QED
  BY <1>1, <1>2, <1>3, <1>4, <1>5, <1>6, <1>7, <1>8

\* The single buffer is cut.
LEMMA TakeSubsliceInv == TInv /\ TakeSubslice => TInv'
<1> SUFFICES ASSUME TInv, TakeSubslice PROVE TInv'
  OBVIOUS
<1> USE DEF TInv, TakeSubslice, inputs, slices
<1>0. Typed
  BY VariablesTyped
<1>1. TypeOK'
  <2>1. 1 \in 1 .. N /\ ptr[1] = moved - n /\ n <= len[1]
    BY <1>0 DEF Typed, Numbers, Walk, Pending, Shape, Single
  <2>2. ptr' \in [1 .. N -> Nat] /\ len' \in [1 .. N -> Nat]
    BY SMTT(30), <1>0, <2>1 DEF Typed, Numbers
  <2>3. offset' \in Nat
    <3>1. (offset + n) % (OffsetMax + 1) \in Nat
      BY <1>0, ModInRange DEF Typed, Numbers
    <3>2. offset' \in {offset, offset + n, (offset + n) % (OffsetMax + 1)}
      OBVIOUS
    <3>3. offset \in Nat /\ offset + n \in Nat
      BY <1>0 DEF Typed, Numbers
    <3> QED
      BY <3>1, <3>2, <3>3
  <2>4. pc' \in {"loop", "done"} /\ outcome' \in Results
    BY DEF TypeOK, Finish, Results
  <2> QED
    BY <2>2, <2>3, <2>4 DEF TypeOK, Total
<1>2. Shape'
  <2>1. 1 \in 1 .. N /\ ptr[1] = moved - n /\ n <= len[1] /\ base = 1
    BY <1>0 DEF Typed, Numbers, Walk, Pending, Shape, Single
  <2> SUFFICES ASSUME NEW i \in 1 .. N
               PROVE  /\ edge[i - 1] <= ptr'[i] /\ ptr'[i] + len'[i] = edge[i]
                      /\ i > base => ptr'[i] = edge[i - 1]
    BY DEF Shape
  <2>2. CASE i = 1
    BY SMTT(30), <1>0, <2>1, <2>2 DEF Shape, Typed, Numbers
  <2>3. CASE i # 1
    BY <1>0, <2>3 DEF Shape
  <2> QED
    BY <2>2, <2>3
<1>3. Single'
  BY <1>0 DEF Single, Total, Finish, SliceOps
<1>4. Walk'
  BY <1>0 DEF Walk, Pending, Total, Finish, Single, Typed, Numbers
<1>5. Offsets'
  <2>1. offset' <= OffsetMax
    <3>1. (offset + n) % (OffsetMax + 1) <= OffsetMax
      BY <1>0, ModInRange DEF Typed, Numbers
    <3>2. CASE Positional /\ offset + n > OffsetMax
      BY <3>1, <3>2 DEF Offsets
    <3>3. CASE ~(Positional /\ offset + n > OffsetMax)
      <4>1. offset' = IF Positional THEN offset + n ELSE offset
        BY <3>3
      <4>2. Positional => offset + n <= OffsetMax
        BY <1>0, <3>3 DEF Typed, Numbers
      <4> QED
        BY <4>1, <4>2 DEF Offsets
    <3> QED
      BY <3>2, <3>3
  <2>2. ASSUME Positional, NoWrap PROVE pc' = "loop" => offset' = start + moved
    BY <1>0, <2>2 DEF Offsets, NoWrap, SliceOps, PositionalOps, Positional,
     Typed, Numbers
  <2> QED
    BY <2>1, <2>2 DEF Offsets, NoWrap, Positional, Finish
<1>6. Source'
  BY <1>0 DEF Source, Reads, Total, Finish, SliceOps, ReadOps
<1>7. Copied'
  BY <1>0 DEF Copied, NoWrap, Total, Finish
<1>8. Ends'
  <2>1. limit <= OffsetMax /\ Positional => offset + n <= OffsetMax
    BY <1>0 DEF Offsets, NoWrap, Typed, Numbers
  <2>2. limit <= OffsetMax /\ Positional => ~(offset + n > OffsetMax)
    BY <1>0, <2>1 DEF Typed, Numbers
  <2>3. limit' = limit /\ op' = op /\ outcome' \in {"none", "panic"}
        /\ (limit <= OffsetMax => outcome' = "none")
    BY <2>2 DEF Ends, Finish
  <2>4. offset' <= OffsetMax
    BY <1>5 DEF Offsets
  <2> QED
    BY <2>3, <2>4 DEF Ends, OkIsComplete, EofIsReal, OffsetFits,
     OverflowIsReal, Finish
<1> QED
  BY <1>1, <1>2, <1>3, <1>4, <1>5, <1>6, <1>7, <1>8

\* advance counts a slice as used up.
LEMMA ScanSliceInv == TInv /\ ScanSlice => TInv'
<1> SUFFICES ASSUME TInv, ScanSlice PROVE TInv'
  OBVIOUS
<1> USE DEF TInv, ScanSlice, inputs, slices
<1>0. Typed
  BY VariablesTyped
<1>1. TypeOK'
  <2>1. remove' \in 0 .. N /\ acc' \in Nat
    BY <1>0 DEF UsedUp, Typed, Numbers
  <2> QED
    BY <2>1 DEF TypeOK, Total
<1>2. Shape'
  BY <1>0 DEF Shape, UsedUp
<1>3. Single'
  BY <1>0 DEF Single, Total
<1>4. Walk'
  <2> DEFINE b == base + remove
  <2>1. b \in Nat /\ base <= b /\ b <= N /\ moved - n + acc \in Int
    BY <1>0 DEF UsedUp, Typed, Numbers
  <2>2. Pending(b + 1, moved - n + acc + len[b])
    BY <2>1, NextSlice DEF Walk
  <2>3. len[b] \in Nat /\ acc + len[b] <= n
    BY <1>0, <2>1 DEF UsedUp, Typed
  <2>4. base + remove' = b + 1 /\ moved - n + acc' = moved - n + acc + len[b]
    BY SMTT(30), <1>0, <2>1, <2>3 DEF Typed, Numbers
  <2>5. Pending(base + remove, moved - n + acc)'
    BY <2>2, <2>4 DEF Pending, Total
  <2>6. base + remove' <= N + 1 /\ acc' <= n
    BY <1>0, <2>1, <2>3 DEF Typed, Numbers
  <2> QED
    BY <2>5, <2>6 DEF Walk, Total
<1>5. Offsets'
  BY <1>0 DEF Offsets, Positional, NoWrap
<1>6. Source'
  BY <1>0 DEF Source, Reads, Total
<1>7. Copied'
  BY <1>0 DEF Copied, NoWrap, Total
<1>8. Ends'
  BY <1>0 DEF Ends, OkIsComplete, EofIsReal, OffsetFits, OverflowIsReal
<1> QED
  BY <1>1, <1>2, <1>3, <1>4, <1>5, <1>6, <1>7, <1>8

\* advance drops the slices it counted and cuts the next.
LEMMA TrimInv == TInv /\ Trim => TInv'
<1> SUFFICES ASSUME TInv, Trim PROVE TInv'
  OBVIOUS
<1> USE DEF TInv, Trim, inputs, slices
<1>0. Typed
  BY VariablesTyped
<1>1. TypeOK'
  <2>1. base' \in 1 .. N + 1
    BY <1>0 DEF Typed, Walk, Cut
  <2> DEFINE b == base + remove
  <2>2. ASSUME b <= N
        PROVE  b \in 1 .. N /\ ptr[b] + (n - acc) \in Nat /\ len[b] - (n - acc) \in Nat
    BY SMTT(30), <1>0, <2>2 DEF Typed, Numbers, Walk, Cut, UsedUp
  <2>3. ptr' \in [1 .. N -> Nat] /\ len' \in [1 .. N -> Nat]
    BY <1>0, <2>2 DEF Typed, Cut
  <2> QED
    BY <2>1, <2>3 DEF TypeOK, Total, Cut, NextTurn
<1>2. Shape'
  <2> DEFINE b == base + remove
  <2>1. base <= b /\ base' = b /\ acc <= n
    BY <1>0 DEF Typed, Walk, Cut
  <2> SUFFICES ASSUME NEW i \in 1 .. N
               PROVE  /\ edge[i - 1] <= ptr'[i] /\ ptr'[i] + len'[i] = edge[i]
                      /\ i > b => ptr'[i] = edge[i - 1]
    BY <2>1 DEF Shape, Cut
  <2>2. CASE i = b
    <3>1. b <= N
      BY <1>0, <2>2 DEF Typed
    <3>2. ptr' = [ptr EXCEPT ![b] = @ + (n - acc)] /\ len' = [len EXCEPT ![b] = @ - (n - acc)]
      BY <3>1 DEF Cut
    <3>3. ptr'[i] = ptr[i] + (n - acc) /\ len'[i] = len[i] - (n - acc)
      BY <1>0, <2>2, <3>2 DEF Typed
    <3>4. edge[i - 1] <= ptr[i] /\ ptr[i] + len[i] = edge[i]
      BY DEF Shape
    <3>5. /\ ptr[i] \in Nat /\ len[i] \in Nat /\ edge[i] \in Nat /\ edge[i - 1] \in Nat
          /\ n \in Nat /\ acc \in Nat /\ b \in Nat
      BY <1>0 DEF Typed, Numbers
    <3> HIDE DEF TInv, Trim
    <3> QED
      BY <2>1, <2>2, <3>3, <3>4, <3>5
  <2>3. CASE i # b
    <3>1. ptr'[i] = ptr[i] /\ len'[i] = len[i]
      BY <1>0, <2>3 DEF Cut, Typed
    <3> QED
      BY <1>0, <2>1, <3>1 DEF Shape, Typed
  <2> QED
    BY <2>2, <2>3
<1>3. Single'
  BY <1>0 DEF Single, Total, Cut, UsedUp
<1>4. Walk'
  <2>1. base + remove \in 1 .. N + 1 /\ Pending(base + remove, moved - n + acc)
    BY <1>0 DEF Walk, Cut, Typed
  <2>2. CASE base + remove <= N
    <3>1. ptr[base + remove] = moved - n + acc
      BY <1>0, <2>1, <2>2 DEF Pending, Typed, Numbers
    <3>2. ptr'[base + remove] = moved
      BY <1>0, <2>1, <2>2, <3>1 DEF Cut, Typed, Numbers
    <3> QED
      BY <1>0, <2>2, <3>2 DEF Walk, Cut, Pending, NextTurn, Typed, Numbers,
     Total
  <2>3. CASE ~(base + remove <= N)
    <3>1. moved = Total
      BY <1>0, <2>1, <2>3 DEF Pending, Walk, Cut, Typed, Numbers
    <3> QED
      BY <1>0, <2>1, <2>3, <3>1 DEF Walk, Cut, Pending, NextTurn, Typed,
     Numbers, Total
  <2> QED
    BY <2>2, <2>3
<1>5. Offsets'
  BY <1>0 DEF Offsets, Positional, NoWrap, Cut, NextTurn
<1>6. Source'
  BY <1>0 DEF Source, Reads, Total, Cut, UsedUp, NextTurn
<1>7. Copied'
  BY <1>0 DEF Copied, NoWrap, Total, Cut, NextTurn
<1>8. Ends'
  BY <1>0 DEF Ends, OkIsComplete, EofIsReal, OffsetFits, OverflowIsReal, Cut,
     NextTurn
<1> QED
  BY <1>1, <1>2, <1>3, <1>4, <1>5, <1>6, <1>7, <1>8

\* The kernel moves a slice.
LEMMA KernelMovesSliceInv == TInv /\ KernelMovesSlice => TInv'
<1> SUFFICES ASSUME TInv, KernelMovesSlice PROVE TInv'
  OBVIOUS
<1> USE DEF TInv, KernelMovesSlice, inputs, slices
<1>0. Typed
  BY VariablesTyped
<1>1. TypeOK'
  <2>1. cur \in 1 .. N /\ len[cur] \in Nat
    BY <1>0 DEF Typed, Numbers
  <2>2. n' \in Nat /\ cur' \in 1 .. N + 1 /\ last' \in 0 .. N
    BY <1>0, <2>1 DEF Typed, Numbers
  <2>3. StreamPos \in Int /\ ptr[cur] \in Nat
    BY <1>0, <2>1 DEF StreamPos, Typed, Numbers
  <2>4. data' \in [0 .. Total - 1 -> Int]
    BY <1>0, <2>1, <2>3 DEF Exchange, Typed
  <2> QED
    BY <2>2, <2>4 DEF TypeOK, Total
<1>2. Shape'
  BY <1>0 DEF Shape, Exchange, Room
<1>3. Single'
  BY <1>0 DEF Single, Total, Exchange
<1>4. Walk'
  <2>1. cur \in Nat /\ base <= cur /\ cur <= N /\ len[cur] \in Nat
    BY <1>0 DEF Typed, Numbers, Walk
  <2>2. Pending(cur + 1, moved + n + len[cur])
    BY <1>0, <2>1, NextSlice DEF Walk, Typed, Numbers
  <2>3. moved + n' = moved + n + len[cur] /\ cur' = cur + 1
    BY <1>0, <2>1 DEF Typed, Numbers
  <2>4. Pending(cur, moved + n)' /\ Pending(base, moved)'
    BY <2>2, <2>3 DEF Pending, Total, Walk
  <2>5. base <= cur' /\ cur' <= last' + 1 /\ base <= last' /\ cur' # base
    BY <1>0, <2>1 DEF Walk, Typed
  <2> QED
    BY <2>4, <2>5 DEF Walk, Total
<1>5. Offsets'
  <2>1. cur \in 1 .. N /\ len[cur] \in Nat
    BY <1>0 DEF Typed, Numbers
  <2>2. ASSUME Positional, NoWrap, limit <= OffsetMax
        PROVE  start + moved + n' <= OffsetMax
    <3>1. start + StreamPos + len[cur] <= limit
      BY <2>2 DEF Room
    <3>2. StreamPos = moved + n
      BY <1>0, <2>2 DEF Offsets, StreamPos, Typed, Numbers
    <3>3. n' = n + len[cur]
      OBVIOUS
    <3>4. start \in Nat /\ moved \in Nat /\ n \in Nat /\ limit \in Nat /\ OffsetMax \in Nat
      BY <1>0 DEF Typed, Numbers
    <3> HIDE DEF TInv, KernelMovesSlice
    <3> QED
      BY <2>1, <2>2, <3>1, <3>2, <3>3, <3>4
  <2> QED
    BY <2>2 DEF Offsets, Positional, NoWrap
<1>6. Source'
  <2> SUFFICES ASSUME Reads PROVE Source'
    BY DEF Source, Reads
  <2>1. cur \in 1 .. N /\ len[cur] \in Nat /\ base \in 1 .. N
    BY <1>0 DEF Typed, Numbers, Walk
  <2>2. StreamPos = moved + n
    BY <1>0 DEF Offsets, StreamPos, NoWrap, Reads, ReadOps, Typed, Numbers
  <2>3. moved + n' <= size
    BY <1>0, <2>1, <2>2 DEF Room, Typed, Numbers
  <2>4. n' > 0
    <3>1. len[base] > 0 /\ base <= cur /\ (cur > base => n > 0)
      BY DEF Source, Walk
    <3>2. n' = n + len[cur]
      OBVIOUS
    <3>3. n \in Nat /\ cur \in Nat /\ base \in Nat
      BY <1>0 DEF Typed, Numbers
    <3> HIDE DEF TInv, KernelMovesSlice
    <3>4. CASE cur = base
      BY <2>1, <3>1, <3>2, <3>3, <3>4
    <3>5. CASE cur > base
      BY <2>1, <3>1, <3>2, <3>3, <3>5
    <3> QED
      BY <3>1, <3>3, <3>4, <3>5
  <2> QED
    BY <2>3, <2>4 DEF Source
<1>7. Copied'
  <2> SUFFICES ASSUME NoWrap, NEW x \in 0 .. Total - 1
               PROVE  /\ data'[x] \in {None, x}
                      /\ x < moved + n' => data'[x] = x
    BY SMTT(30), <1>0 DEF Copied, NoWrap, Total, Typed, Numbers
  <2>1. cur \in 1 .. N /\ cur \in Nat /\ base <= cur /\ len[cur] \in Nat
    BY <1>0 DEF Typed, Numbers, Walk
  <2>2. ptr[cur] = moved + n
    BY <1>0, <2>1, NextSlice DEF Walk, Typed, Numbers
  <2>3. StreamPos = ptr[cur]
    BY <1>0, <2>2 DEF Offsets, StreamPos, Typed, Numbers
  <2>4. data'[x] = IF x \in ptr[cur] .. ptr[cur] + len[cur] - 1 THEN x ELSE data[x]
    BY <1>0, <2>1, <2>2, <2>3 DEF Exchange, Typed
  <2>5. data[x] \in {None, x} /\ (x < moved + n => data[x] = x)
    BY <1>0 DEF Copied
  <2>6. n' = n + len[cur] /\ ptr[cur] + len[cur] - 1 = moved + n' - 1
    <3>1. n' = n + len[cur]
      OBVIOUS
    <3>2. n \in Nat /\ moved \in Nat
      BY <1>0 DEF Typed, Numbers
    <3> HIDE DEF TInv, KernelMovesSlice
    <3> QED
      BY <2>1, <2>2, <3>1, <3>2
  <2> QED
    BY <1>0, <2>1, <2>2, <2>4, <2>5, <2>6 DEF Typed, Numbers
<1>8. Ends'
  BY <1>0 DEF Ends, OkIsComplete, EofIsReal, OffsetFits, OverflowIsReal,
     Positional
<1> QED
  BY <1>1, <1>2, <1>3, <1>4, <1>5, <1>6, <1>7, <1>8

\* The kernel stops within a slice.
LEMMA KernelStopsInv == TInv /\ KernelStops => TInv'
<1> SUFFICES ASSUME TInv, KernelStops PROVE TInv'
  OBVIOUS
<1> USE DEF TInv, KernelStops, inputs, slices
<1>0. Typed
  BY VariablesTyped
<1>1. TypeOK'
  <2>1. cur \in 1 .. N /\ len[cur] \in Nat
    BY <1>0 DEF Typed, Numbers
  <2>2. n' \in Nat /\ moved' \in Nat
    BY <1>0, <2>1 DEF Typed, Numbers
  <2>3. StreamPos \in Int /\ ptr[cur] \in Nat
    BY <1>0, <2>1 DEF StreamPos, Typed, Numbers
  <2>4. data' \in [0 .. Total - 1 -> Int]
    BY <1>0, <2>1, <2>3 DEF Exchange, Typed
  <2> QED
    BY <2>2, <2>4 DEF TypeOK, Total
<1>2. Shape'
  BY <1>0 DEF Shape, Exchange, Room
<1>3. Single'
  BY <1>0 DEF Single, Total, Exchange
<1>4. Walk'
  <2>1. cur \in Nat /\ base <= cur /\ cur <= N /\ len[cur] \in Nat
    BY <1>0 DEF Typed, Numbers, Walk
  <2>2. moved + n + len[cur] <= Total
    BY <1>0, <2>1, NextSlice DEF Walk, Typed, Numbers
  <2>3. moved' <= Total /\ n' <= moved' /\ moved' - n' = moved
    BY <1>0, <2>1, <2>2 DEF Typed, Numbers
  <2> QED
    BY <1>0, <2>1, <2>3 DEF Walk, Pending, Total, Typed, Numbers
<1>5. Offsets'
  BY <1>0 DEF Offsets, Positional, NoWrap, Room, StreamPos, Typed, Numbers
<1>6. Source'
  <2> SUFFICES ASSUME Reads PROVE Source'
    BY DEF Source, Reads
  <2>1. cur \in 1 .. N /\ cur \in Nat /\ base <= cur /\ len[cur] \in Nat
    BY <1>0 DEF Typed, Numbers, Walk
  <2>2. StreamPos = moved + n
    BY <1>0 DEF Offsets, StreamPos, NoWrap, Reads, ReadOps, Typed, Numbers
  <2>3. moved' <= size /\ (n' = 0 => moved' = size)
    BY <1>0, <2>1, <2>2 DEF Room, Typed, Numbers
  <2>4. moved + n + len[cur] <= Total
    BY <1>0, <2>1, NextSlice DEF Walk, Typed, Numbers
  <2>5. n' = 0 => moved' < Total
    BY <1>0, <2>1, <2>4 DEF Typed, Numbers
  <2> QED
    BY <2>3, <2>5 DEF Source, Total
<1>7. Copied'
  <2> SUFFICES ASSUME NoWrap, NEW x \in 0 .. Total - 1
               PROVE  /\ data'[x] \in {None, x}
                      /\ x < moved' => data'[x] = x
    BY <1>0 DEF Copied, NoWrap, Total
  <2>0. PICK k \in 0 .. len[cur] - 1 : Exchange(cur, k) /\ moved' = moved + n + k
    OBVIOUS
  <2>1. cur \in 1 .. N /\ cur \in Nat /\ base <= cur /\ len[cur] \in Nat /\ k \in Nat
    BY <1>0 DEF Typed, Numbers, Walk
  <2>2. ptr[cur] = moved + n
    BY <1>0, <2>1, NextSlice DEF Walk, Typed, Numbers
  <2>3. StreamPos = ptr[cur]
    BY <1>0, <2>2 DEF Offsets, StreamPos, Typed, Numbers
  <2>4. data'[x] = IF x \in ptr[cur] .. ptr[cur] + k - 1 THEN x ELSE data[x]
    BY <1>0, <2>0, <2>1, <2>2, <2>3 DEF Exchange, Typed
  <2>5. data[x] \in {None, x} /\ (x < moved + n => data[x] = x)
    BY <1>0 DEF Copied
  <2> QED
    BY <1>0, <2>0, <2>1, <2>2, <2>4, <2>5 DEF Typed, Numbers
<1>8. Ends'
  BY <1>0 DEF Ends, OkIsComplete, EofIsReal, OffsetFits, OverflowIsReal,
     Positional
<1> QED
  BY <1>1, <1>2, <1>3, <1>4, <1>5, <1>6, <1>7, <1>8

\* The kernel is through with what it looks at.
LEMMA KernelReturnsInv == TInv /\ KernelReturns => TInv'
<1> SUFFICES ASSUME TInv, KernelReturns PROVE TInv'
  OBVIOUS
<1> USE DEF TInv, KernelReturns, inputs, slices
<1>0. Typed
  BY VariablesTyped
<1>1. TypeOK'
  <2>1. moved' \in Nat
    BY <1>0 DEF TypeOK
  <2> QED
    BY <2>1 DEF TypeOK, Total
<1>2. Shape'
  BY <1>0 DEF Shape
<1>3. Single'
  BY <1>0 DEF Single, Total
<1>4. Walk'
  <2>1. cur <= N => moved + n <= Total
    BY SMTT(30), <1>0, NextSlice DEF Walk, Typed, Numbers
  <2>2. moved' <= Total
    BY <1>0, <2>1 DEF Walk, Pending, Typed, Numbers
  <2> QED
    BY <1>0, <2>2 DEF Walk, Pending, Total, Typed, Numbers
<1>5. Offsets'
  BY <1>0 DEF Offsets, Positional, NoWrap, Typed, Numbers
<1>6. Source'
  <2>1. Reads => n > 0
    BY <1>0 DEF Source, Walk, Typed
  <2> QED
    BY <1>0, <2>1 DEF Source, Reads
<1>7. Copied'
  BY <1>0 DEF Copied, NoWrap, Total
<1>8. Ends'
  BY <1>0 DEF Ends, OkIsComplete, EofIsReal, OffsetFits, OverflowIsReal
<1> QED
  BY <1>1, <1>2, <1>3, <1>4, <1>5, <1>6, <1>7, <1>8

-----------------------------------------------------------------------------
(***************************************************************************)
(* The theorems                                                            *)
(***************************************************************************)

LEMMA NextInv == TInv /\ [Next]_vars => TInv'
<1> SUFFICES ASSUME TInv, [Next]_vars PROVE TInv'
  OBVIOUS
<1>1. CASE UNCHANGED vars
  <2> USE <1>1 DEF vars, TInv
  <2>1. TypeOK' /\ Shape' /\ Single'
    BY DEF TypeOK, Total, Shape, Single
  <2>2. Walk'
    BY DEF Walk, Pending, Total
  <2>3. Offsets' /\ Copied'
    BY DEF Offsets, Copied, NoWrap, Positional, Total
  <2>4. Source'
    BY DEF Source, Reads, Total
  <2>5. Ends'
    BY DEF Ends, OkIsComplete, EofIsReal, OffsetFits, OverflowIsReal,
     Positional, Total
  <2> QED
    BY <2>1, <2>2, <2>3, <2>4, <2>5
<1>2. CASE SkipLeadingEmpties
  BY <1>2, SkipLeadingEmptiesInv
<1>3. CASE LoopEnds
  BY <1>3, LoopEndsInv
<1>4. CASE Call
  BY <1>4, CallInv
<1>5. CASE Interrupted
  BY <1>5, InterruptedInv
<1>6. CASE Fails
  BY <1>6, FailsInv
<1>7. CASE EndOfFile
  BY <1>7, EndOfFileInv
<1>8. CASE ReportOverflow
  BY <1>8, ReportOverflowInv
<1>9. CASE MoveOffset
  BY <1>9, MoveOffsetInv
<1>10. CASE TakeSubslice
  BY <1>10, TakeSubsliceInv
<1>11. CASE ScanSlice
  BY <1>11, ScanSliceInv
<1>12. CASE Trim
  BY <1>12, TrimInv
<1>13. CASE Kernel
  BY <1>13, KernelMovesSliceInv, KernelStopsInv, KernelReturnsInv DEF Kernel
<1> QED
  BY <1>1, <1>2, <1>3, <1>4, <1>5, <1>6, <1>7, <1>8, <1>9, <1>10, <1>11, <1>12, <1>13
     DEF Next, Code

LEMMA Invariance == Spec => []TInv
<1>1. Init => TInv
  BY InitInv
<1>2. TInv /\ [Next]_vars => TInv'
  BY NextInv
<1> QED
  BY <1>1, <1>2, PTL DEF Spec

\* Every variable of the loops keeps its type; `&mut bufs[remove..]` of advance
\* is in range whatever the kernel reports (file_io_ext.rs:342-401).
THEOREM TypeCorrect == Spec => []TypeOK
<1>1. TInv => TypeOK
  BY DEF TInv
<1> QED
  BY <1>1, Invariance, PTL

\* The pointer arithmetic of advance and advance_mut never leaves the caller's
\* buffers, for any buffers and any counts (file_io_ext.rs:357-367, 389-399).
THEOREM SlicesStayInBounds == Spec => []TrimInBounds
<1>1. TInv => TrimInBounds
  BY DEF TInv, Shape, TrimInBounds
<1> QED
  BY <1>1, Invariance, PTL

\* The walk of advance ends where the walk of the kernel did: bufs starts at
\* the first byte that has not been moved (file_io_ext.rs:342-372).
THEOREM BufsIsTheRest == Spec => []PendingIsRest
<1>1. TInv => PendingIsRest
  BY DEF TInv, Walk, Pending, PendingIsRest
<1> QED
  BY <1>1, Invariance, PTL

\* No byte is skipped, repeated or reordered by the retry loops of file_io_ext.rs
\* and io_ext.rs, with any number of short counts and EINTR.
THEOREM BytesInOrder == Spec => []InOrder
<1>1. TInv => InOrder
  BY DEF TInv, Copied, NoWrap, InOrder
<1> QED
  BY <1>1, Invariance, PTL

\* The loops return Ok only when everything has been moved.
THEOREM OkMeansAll == Spec => []OkIsComplete
<1>1. TInv => OkIsComplete
  BY DEF TInv, Ends
<1> QED
  BY <1>1, Invariance, PTL

\* read_exact_vectored and read_exact_vectored_at report UnexpectedEof only
\* when the source holds too little, for any iovec limit and any empty slices.
THEOREM EofOnlyAtEnd == Spec => []EofIsReal
<1>1. TInv => EofIsReal
  BY DEF TInv, Ends
<1> QED
  BY <1>1, Invariance, PTL

\* With off_t offsets no positional loop overflows its offset, the unchecked
\* addition of write_all_at included (file_io_ext.rs:138-140, 201, 225-227).
THEOREM OffsetsStayInRange == Spec => []OffsetFits
<1>1. TInv => OffsetFits
  BY DEF TInv, Ends
<1> QED
  BY <1>1, Invariance, PTL

\* "offset overflow" is reported when, and only when, the bytes moved end past
\* u64::MAX (file_io_ext.rs:138-140, 225-227).
THEOREM OverflowOnlyIfReal == Spec => []OverflowIsReal
<1>1. TInv => OverflowIsReal
  BY DEF TInv, Ends
<1> QED
  BY <1>1, Invariance, PTL

=============================================================================
