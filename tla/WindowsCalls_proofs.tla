------------------------- MODULE WindowsCalls_proofs -------------------------
(***************************************************************************)
(* Theorems about the calls of WindowsFile, for every set of users, every  *)
(* layout of the buffers, every file and every value of the other          *)
(* constants: the reopened handles keep the calls apart from the position  *)
(* of the original one.                                                    *)
(***************************************************************************)
EXTENDS WindowsFile_proofs, FileData_proofs

-----------------------------------------------------------------------------
(***************************************************************************)
(* The inductive invariant                                                 *)
(***************************************************************************)

\* Positions are offsets, and that of an object nobody has used yet is 0.
Positions ==
  /\ \A o \in Objects : object[o].pos \in Nat
  /\ setup.kind = "windows" =>
       \A u \in Users : token[u].held => object[token[u].object].pos = 0

\* Users who make no calls on the flags keep the one handle they started with.
OneHandle ==
  "flags" \notin setup.does =>
    /\ \A u \in Users : ~token[u].held
    /\ \A u, v \in Users : handle[u] = handle[v]
    /\ setup.kind # "socket" => \A u \in Users : object[handle[u]].access = setup.access

IsFile == file \in Seq(Byte) /\ Len(file) <= MaxLen

Ops == Reads \cup Writes \cup Appends
Reopened == [access : SUBSET Rights, flags : SUBSET Flags, pos : Nat, set : SUBSET FdFlags]
Ordered(s) == \A i, j \in 1 .. Len(s) : i <= j => s[i] <= s[j]

IsCall(c) ==
  c \in [pc : {"idle", "reopen", "seek", "move", "done"}, op : Ops, base : Nat, offset : Nat,
         ends : Seq(Nat), buf : Nat, reopened : Reopened, places : Seq(Nat), ok : BOOLEAN]

\* The reopened handle is closed when the call is over, and can do what the
\* method needs; one that seeks is where the call has got to.
ReopenedInCall(c) ==
  /\ c.pc = "idle" => c.op = "read_at"
  /\ c.pc \in {"seek", "move"} => c.reopened.access = ReopenAccess(c.op)
  /\ c.pc \notin {"seek", "move"} => c.reopened = Closed
  /\ c.pc = "move" /\ c.op \in Seeking => c.reopened.pos = c.offset

\* The places are the run that starts at base and ends at offset.
OneRun(c) ==
  /\ c.offset = c.base + Len(c.places)
  /\ c.op \notin Appends => \A i \in 1 .. Len(c.places) : c.places[i] = c.base + i - 1
  /\ c.op \in Appends /\ c.pc # "done" => c.places = <<>>

\* The current buffer is the first with bytes left; write_all_vectored_at may
\* be at one with none.
InBuffers(c) ==
  /\ Ordered(c.ends)
  /\ c.buf \in 1 .. Len(c.ends) + 1
  /\ \A h \in 1 .. c.buf - 1 : c.ends[h] <= Len(c.places)
  /\ c.buf <= Len(c.ends) => Len(c.places) <= c.ends[c.buf]
  /\ c.buf <= Len(c.ends) /\ c.op # "write_all_vectored_at" /\ c.pc # "done"
       => Len(c.places) < c.ends[c.buf]
  /\ c.op = "write_all_vectored_at" /\ c.pc \notin {"idle", "done"} => c.buf <= Len(c.ends)
  /\ Len(c.places) <= Asked(c)
  /\ c.pc = "done" /\ c.ok /\ c.op \in Whole => c.buf = Len(c.ends) + 1

GoodCall(c) == IsCall(c) /\ ReopenedInCall(c) /\ OneRun(c) /\ InBuffers(c)

Calls ==
  /\ call = [u \in Users |-> call[u]]
  /\ \A u \in Users : GoodCall(call[u])

WInv == HInv /\ Positions /\ OneHandle /\ IsFile /\ Calls

-----------------------------------------------------------------------------
(***************************************************************************)
(* Lemmas about one call                                                   *)
(***************************************************************************)

LEMMA ClosedType == Closed \in Reopened
BY DEF Closed, Opened, Reopened

LEMMA NoCallIsGood == GoodCall(NoCall)
<1>1. IsCall(NoCall)
  BY ClosedType DEF NoCall, IsCall, Ops, Reads
<1>2. ReopenedInCall(NoCall) /\ OneRun(NoCall)
  BY DEF NoCall, ReopenedInCall, OneRun
<1>3. InBuffers(NoCall)
  BY DEF NoCall, InBuffers, Ordered, Asked
<1>4. QED
  BY <1>1, <1>2, <1>3 DEF GoodCall

\* What is left of the current buffer is a length; when nothing is, and the
\* method is not at an empty buffer, everything has been moved.
LEMMA WantFacts ==
  ASSUME NEW c, GoodCall(c)
  PROVE  /\ Want(c) \in Nat
         /\ Len(c.places) + Want(c) <= Asked(c)
         /\ Asked(c) \in Nat
<1> USE DEF GoodCall, IsCall, InBuffers, Ordered, Want, Asked
<1>1. Asked(c) \in Nat
  OBVIOUS
<1>2. CASE c.buf > Len(c.ends)
  BY <1>1, <1>2
<1>3. CASE c.buf <= Len(c.ends)
  <2>1. c.ends[c.buf] \in Nat /\ c.ends[c.buf] <= c.ends[Len(c.ends)] /\ c.ends # <<>>
    BY <1>3
  <2>2. QED
    BY <1>3, <2>1
<1>4. QED
  BY <1>2, <1>3

\* The buffer NonEmpty finds.
LEMMA NonEmptyFacts ==
  ASSUME NEW s \in Seq(Nat), NEW i \in 1 .. Len(s) + 1, NEW n, NEW j \in NonEmpty(s, i, n)
  PROVE  /\ j \in i .. Len(s) + 1
         /\ \A h \in i .. j - 1 : s[h] <= n
         /\ j <= Len(s) => n < s[j]
BY DEF NonEmpty

\* After k more bytes the call goes on at the first buffer with bytes left, or
\* at the next one.
LEMMA NextBufferFacts ==
  ASSUME NEW c, GoodCall(c), c.pc = "move", NEW k \in 0 .. Want(c), NEW j \in NextBuffer(c, k)
  PROVE  /\ j \in 1 .. Len(c.ends) + 1
         /\ \A h \in 1 .. j - 1 : c.ends[h] <= Len(c.places) + k
         /\ j <= Len(c.ends) => Len(c.places) + k <= c.ends[j]
         /\ j <= Len(c.ends) /\ c.op # "write_all_vectored_at" => Len(c.places) + k < c.ends[j]
<1> DEFINE m == Len(c.places)
<1>b. Want(c) \in Nat /\ k \in Nat /\ k <= Want(c)
  BY WantFacts
<1>c. c.ends \in Seq(Nat) /\ m \in Nat
  BY DEF GoodCall, IsCall
<1>1. /\ c.ends \in Seq(Nat) /\ Ordered(c.ends) /\ m \in Nat /\ k \in Nat
      /\ c.buf \in 1 .. Len(c.ends) + 1
      /\ \A h \in 1 .. c.buf - 1 : c.ends[h] <= m
      /\ Want(c) \in Nat /\ k <= Want(c)
  BY <1>b, <1>c DEF GoodCall, InBuffers
<1>a. \A h \in 1 .. c.buf - 1 : c.ends[h] \in Nat /\ c.ends[h] <= m + k
  <2>1. TAKE h \in 1 .. c.buf - 1
  <2>2. h \in 1 .. Len(c.ends)
    BY <1>1
  <2>3. c.ends[h] \in Nat
    BY <1>c, <2>2
  <2>4. c.ends[h] <= m
    BY <1>1
  <2>5. QED
    BY <1>b, <1>c, <2>3, <2>4
<1>2. CASE c.op = "write_all_vectored_at"
  <2>1. c.buf <= Len(c.ends) /\ Want(c) = c.ends[c.buf] - m /\ c.ends[c.buf] \in Nat
    BY <1>1, <1>2 DEF GoodCall, InBuffers, Want
  <2>2. j = IF k < Want(c) THEN c.buf ELSE c.buf + 1
    BY <1>2 DEF NextBuffer
  <2>3. CASE k < Want(c)
    <3>1. j = c.buf
      BY <2>2, <2>3
    <3>2. m + k < c.ends[c.buf]
      BY <1>1, <2>1, <2>3
    <3>3. \A h \in 1 .. j - 1 : c.ends[h] <= m + k
      BY <1>a, <3>1
    <3>4. m + k <= c.ends[j]
      BY <1>1, <2>1, <3>1, <3>2
    <3>5. QED
      BY <1>1, <1>2, <3>1, <3>3, <3>4
  <2>4. CASE k = Want(c)
    <3>1. j = c.buf + 1 /\ m + k = c.ends[c.buf]
      BY <1>1, <2>1, <2>2, <2>4
    <3>2. \A h \in 1 .. j - 1 : h \in 1 .. c.buf - 1 \/ h = c.buf
      BY <1>1, <3>1
    <3>3. \A h \in 1 .. j - 1 : c.ends[h] <= m + k
      BY <1>a, <2>1, <3>1, <3>2
    <3>4. j <= Len(c.ends) => m + k <= c.ends[j]
      <4>1. HAVE j <= Len(c.ends)
      <4>2. c.buf \in 1 .. Len(c.ends) /\ j \in 1 .. Len(c.ends) /\ c.buf <= j
        BY <1>1, <2>1, <3>1, <4>1
      <4>3. c.ends[c.buf] <= c.ends[j]
        BY <1>1, <4>2 DEF Ordered
      <4>4. QED
        BY <3>1, <4>3
    <3>5. QED
      BY <1>1, <1>2, <2>1, <3>1, <3>3, <3>4
  <2>5. QED
    BY <1>1, <2>3, <2>4
<1>3. CASE c.op # "write_all_vectored_at"
  <2>1. j \in NonEmpty(c.ends, c.buf, m + k)
    BY <1>3 DEF NextBuffer
  <2>2. /\ j \in c.buf .. Len(c.ends) + 1
        /\ \A h \in c.buf .. j - 1 : c.ends[h] <= m + k
        /\ j <= Len(c.ends) => m + k < c.ends[j]
    BY <1>1, <2>1, NonEmptyFacts
  <2>3. \A h \in 1 .. j - 1 : h \in 1 .. c.buf - 1 \/ h \in c.buf .. j - 1
    BY <1>1, <2>2
  <2>4. \A h \in 1 .. j - 1 : c.ends[h] <= m + k
    BY <1>a, <2>2, <2>3
  <2>5. j <= Len(c.ends) => c.ends[j] \in Nat
    BY <1>1, <2>2
  <2>6. QED
    BY <1>1, <2>2, <2>4, <2>5
<1>4. QED
  BY <1>2, <1>3

\* The places of a call with the k that follow from at.
LEMMA PlacesAdded ==
  ASSUME NEW p \in Seq(Nat), NEW at \in Nat, NEW k \in Nat
  PROVE  LET q == p \o [i \in 1 .. k |-> at + i - 1] IN
         /\ q \in Seq(Nat) /\ Len(q) = Len(p) + k
         /\ \A i \in 1 .. Len(p) : q[i] = p[i]
         /\ \A i \in Len(p) + 1 .. Len(p) + k : q[i] = at + (i - Len(p)) - 1
<1> DEFINE run == [i \in 1 .. k |-> at + i - 1]
<1>1. \A i \in 1 .. k : at + i - 1 \in Nat
  OBVIOUS
<1>2. /\ run \in Seq(Nat) /\ Len(run) = k
      /\ \A i \in 1 .. k : run[i] = at + i - 1
  BY <1>1
<1> HIDE DEF run
<1>3. p \o run \in Seq(Nat) /\ Len(p \o run) = Len(p) + k
  BY <1>2
<1>4. \A i \in 1 .. Len(p) : (p \o run)[i] = p[i]
  BY <1>2
<1>5. \A i \in Len(p) + 1 .. Len(p) + k : (p \o run)[i] = run[i - Len(p)]
  BY <1>2
<1>6. \A i \in Len(p) + 1 .. Len(p) + k : (p \o run)[i] = at + (i - Len(p)) - 1
  BY <1>2, <1>5
<1>7. QED
  BY <1>3, <1>4, <1>6 DEF run

LEMMA MovedIsGood ==
  ASSUME NEW c, GoodCall(c), c.pc = "move", NEW k \in 0 .. Want(c), NEW at \in Nat,
         c.op \notin Appends => at = c.offset, NEW j \in NextBuffer(c, k)
  PROVE  GoodCall(Moved(c, k, at, j))
<1> DEFINE d == Moved(c, k, at, j)
           run == [i \in 1 .. k |-> at + i - 1]
<1>1. k \in Nat /\ j \in Nat /\ c.places \in Seq(Nat) /\ c.op \in Ops /\ IsCall(c)
  <2>1. IsCall(c)
    BY DEF GoodCall
  <2>2. c.places \in Seq(Nat) /\ c.op \in Ops /\ c.ends \in Seq(Nat)
    BY <2>1 DEF IsCall
  <2>3. k \in Nat
    BY WantFacts
  <2>4. j \in 1 .. Len(c.ends) + 1
    BY NextBufferFacts
  <2>5. j \in Nat
    BY <2>2, <2>4
  <2>6. QED
    BY <2>1, <2>2, <2>3, <2>5
<1> DEFINE eof == k = 0 /\ Want(c) # 0 /\ c.op \in Whole
           on == c.op \in Whole /\ j <= Len(c.ends) /\ ~eof
           next == CASE ~on -> "done"
                     [] on /\ c.op = "write_all_vectored_at" /\ k = Want(c) -> "reopen"
                     [] OTHER -> "move"
           r == IF next = "move" THEN [c.reopened EXCEPT !.pos = at + k] ELSE Closed
           fine == ~eof
<1>2. d = [c EXCEPT !.pc = next, !.ok = fine, !.buf = j, !.offset = @ + k,
                    !.places = @ \o run, !.reopened = r]
  BY DEF Moved
<1>3. /\ c.places \o run \in Seq(Nat)
      /\ Len(c.places \o run) = Len(c.places) + k
      /\ \A i \in 1 .. Len(c.places) : (c.places \o run)[i] = c.places[i]
      /\ \A i \in Len(c.places) + 1 .. Len(c.places) + k :
           (c.places \o run)[i] = at + (i - Len(c.places)) - 1
  BY <1>1, PlacesAdded
<1>a. /\ next \in {"done", "reopen", "move"}
      /\ next # "done" => c.op \in Whole /\ j <= Len(c.ends)
      /\ next = "done" /\ fine /\ c.op \in Whole => ~(j <= Len(c.ends))
      /\ fine \in BOOLEAN
  OBVIOUS
<1> HIDE DEF d, run, eof, next, fine
<1>b. r \in Reopened
  <2>1. c.reopened \in Reopened
    BY <1>1 DEF IsCall
  <2>2. at + k \in Nat
    BY <1>1
  <2>3. [c.reopened EXCEPT !.pos = at + k] \in Reopened
    BY <2>1, <2>2 DEF Reopened
  <2>4. QED
    BY <2>3, ClosedType
<1>4. /\ d.op = c.op /\ d.base = c.base /\ d.ends = c.ends /\ d.buf = j
      /\ d.offset = c.offset + k /\ d.places = c.places \o run
      /\ d.pc = next /\ d.ok = fine /\ d.reopened = r
  BY <1>1, <1>2 DEF IsCall
<1>6. IsCall(d)
  <2> HIDE DEF r
  <2>1. c.offset + k \in Nat
    BY <1>1 DEF IsCall
  <2>2. QED
    BY <1>1, <1>2, <1>3, <1>a, <1>b, <2>1 DEF IsCall
<1>7. ReopenedInCall(d)
  BY <1>1, <1>4, <1>a DEF ReopenedInCall, GoodCall, IsCall, Reopened, Seeking, Reads, Appends
<1>8. OneRun(d)
  <2>1. d.offset = d.base + Len(d.places)
    BY <1>1, <1>3, <1>4 DEF OneRun, GoodCall, IsCall
  <2>2. ASSUME c.op \notin Appends, NEW i \in 1 .. Len(d.places)
        PROVE  d.places[i] = d.base + i - 1
    <3>1. CASE i \in 1 .. Len(c.places)
      BY <1>3, <1>4, <2>2, <3>1 DEF OneRun, GoodCall
    <3>2. CASE i \in Len(c.places) + 1 .. Len(c.places) + k
      BY <1>1, <1>3, <1>4, <2>2, <3>2 DEF OneRun, GoodCall, IsCall
    <3>3. QED
      BY <1>1, <1>3, <1>4, <3>1, <3>2
  <2>3. c.op \in Appends => d.pc = "done"
    BY <1>4, <1>a DEF Appends, Whole
  <2>4. QED
    BY <1>4, <2>1, <2>2, <2>3 DEF OneRun
<1>9. InBuffers(d)
  <2>1. Ordered(d.ends) /\ d.buf \in 1 .. Len(d.ends) + 1
    BY <1>4, NextBufferFacts DEF GoodCall, InBuffers
  <2>2. \A h \in 1 .. d.buf - 1 : d.ends[h] <= Len(d.places)
    BY <1>3, <1>4, NextBufferFacts
  <2>3. d.buf <= Len(d.ends) => Len(d.places) <= d.ends[d.buf]
    BY <1>3, <1>4, NextBufferFacts
  <2>4. d.buf <= Len(d.ends) /\ d.op # "write_all_vectored_at" => Len(d.places) < d.ends[d.buf]
    BY <1>3, <1>4, NextBufferFacts
  <2>5. Asked(d) = Asked(c) /\ Len(d.places) <= Asked(d)
    <3>1. Asked(d) = Asked(c)
      BY <1>4 DEF Asked
    <3>2. QED
      BY <1>1, <1>3, <1>4, <3>1, WantFacts
  <2>6. d.pc # "done" => d.buf <= Len(d.ends)
    BY <1>4, <1>a
  <2>7. d.pc = "done" /\ d.ok /\ d.op \in Whole => d.buf = Len(d.ends) + 1
    <3>1. Len(d.ends) \in Nat
      BY <1>6 DEF IsCall
    <3>2. QED
      BY <1>4, <1>a, <2>1, <3>1
  <2>8. QED
    BY <2>1, <2>2, <2>3, <2>4, <2>5, <2>6, <2>7 DEF InBuffers
<1>10. QED
  BY <1>6, <1>7, <1>8, <1>9 DEF GoodCall, d

\* The first j ends of a layout.
LEMMA FirstEnds ==
  ASSUME NEW s \in Seq(Nat), Ordered(s), NEW j \in 1 .. Len(s)
  PROVE  LET t == [i \in 1 .. j |-> s[i]] IN
         /\ t \in Seq(Nat) /\ Ordered(t) /\ Len(t) = j
         /\ \A h \in 1 .. j : t[h] = s[h]
<1> DEFINE t == [i \in 1 .. j |-> s[i]]
<1>1. \A i \in 1 .. j : i \in 1 .. Len(s) /\ s[i] \in Nat
  OBVIOUS
<1>2. t \in Seq(Nat) /\ Len(t) = j
  BY <1>1
<1>3. \A h \in 1 .. j : t[h] = s[h]
  OBVIOUS
<1> HIDE DEF t
<1>4. Ordered(t)
  BY <1>1, <1>2, <1>3 DEF Ordered
<1>5. QED
  BY <1>2, <1>3, <1>4 DEF t

\* The call that Begin starts.
Started(op, s, off, j) ==
  [NoCall EXCEPT
     !.pc = IF op \in Writes \cap Vectored /\ j > Len(s) THEN "done" ELSE "reopen",
     !.op = op, !.base = off, !.offset = off, !.buf = j,
     !.ends = IF op = "write_vectored_at" /\ j <= Len(s)
              THEN [i \in 1 .. j |-> s[i]] ELSE s]

LEMMA BeginIsGood ==
  ASSUME NEW op \in Ops, NEW s \in Layouts, NEW off \in Offsets, NEW j \in First(op, s)
  PROVE  GoodCall(Started(op, s, off, j))
<1> DEFINE c == Started(op, s, off, j)
<1>1. /\ s \in Seq(Nat) /\ Ordered(s) /\ off \in Nat
  BY WindowsFileAssumption DEF Ordered
<1>2. /\ j \in 1 .. Len(s) + 1
      /\ \A h \in 1 .. j - 1 : s[h] <= 0
      /\ j <= Len(s) /\ op # "write_all_vectored_at" => 0 < s[j]
  <2>1. CASE op = "write_all_vectored_at"
    BY <1>1, <2>1 DEF First
  <2>2. CASE op # "write_all_vectored_at"
    <3>1. j \in NonEmpty(s, 1, 0) /\ 1 \in 1 .. Len(s) + 1
      BY <1>1, <2>2 DEF First
    <3>2. QED
      BY <1>1, <3>1, NonEmptyFacts
  <2>3. QED
    BY <2>1, <2>2
<1> DEFINE cut == op = "write_vectored_at" /\ j <= Len(s)
           ends == IF cut THEN [i \in 1 .. j |-> s[i]] ELSE s
           pc == IF op \in Writes \cap Vectored /\ j > Len(s) THEN "done" ELSE "reopen"
<1>3. /\ ends \in Seq(Nat) /\ Ordered(ends)
      /\ Len(ends) = IF cut THEN j ELSE Len(s)
      /\ \A h \in 1 .. Len(ends) : ends[h] = s[h]
  <2>1. CASE cut
    <3>1. j \in 1 .. Len(s)
      BY <1>2, <2>1
    <3>2. ends = [i \in 1 .. j |-> s[i]]
      BY <2>1
    <3> HIDE DEF ends
    <3>3. QED
      BY <1>1, <2>1, <3>1, <3>2, FirstEnds
  <2>2. CASE ~cut
    BY <1>1, <2>2
  <2>3. QED
    BY <2>1, <2>2
<1>4. /\ pc \in {"done", "reopen"}
      /\ op \in {"write_vectored_at", "write_all_vectored_at"} /\ pc = "reopen" => j <= Len(s)
      /\ pc = "done" => j > Len(s)
  BY <1>1, <1>2 DEF Writes, Vectored
<1>5. j <= Len(s) => j <= Len(ends)
  BY <1>2, <1>3
<1>6. ~(j <= Len(s)) => ends = s
  OBVIOUS
<1>7. c = [NoCall EXCEPT !.pc = pc, !.op = op, !.base = off, !.offset = off, !.buf = j,
                         !.ends = ends]
  BY DEF Started
<1> HIDE DEF cut, ends, pc, c
<1>8. /\ c.pc = pc /\ c.op = op /\ c.base = off /\ c.offset = off /\ c.buf = j
      /\ c.ends = ends /\ c.places = <<>> /\ c.reopened = Closed /\ c.ok = TRUE
      /\ c = [pc |-> pc, op |-> op, base |-> off, offset |-> off, ends |-> ends, buf |-> j,
              reopened |-> Closed, places |-> <<>>, ok |-> TRUE]
  BY <1>7 DEF NoCall
<1>9. IsCall(c)
  <2>1. j \in Nat /\ <<>> \in Seq(Nat)
    BY <1>2
  <2>2. QED
    BY <1>1, <1>3, <1>4, <1>8, <2>1, ClosedType DEF IsCall
<1>10. ReopenedInCall(c) /\ OneRun(c)
  BY <1>1, <1>4, <1>8 DEF ReopenedInCall, OneRun
<1>11. InBuffers(c)
  <2>1. Ordered(c.ends) /\ c.buf \in 1 .. Len(c.ends) + 1 /\ Len(c.places) = 0
    <3>1. j \in 1 .. Len(ends) + 1
      BY <1>1, <1>2, <1>3, <1>5, <1>6
    <3>2. Len(<<>>) = 0
      OBVIOUS
    <3>3. QED
      BY <1>3, <1>8, <3>1, <3>2
  <2>2. \A h \in 1 .. c.buf - 1 : c.ends[h] <= Len(c.places)
    BY <1>2, <1>3, <1>8, <2>1
  <2>3. c.buf <= Len(c.ends) => /\ 0 <= c.ends[c.buf]
                                /\ c.op # "write_all_vectored_at" => 0 < c.ends[c.buf]
    BY <1>1, <1>2, <1>3, <1>5, <1>6, <1>8, <2>1
  <2>4. 0 <= Asked(c)
    <3>1. c.ends \in Seq(Nat)
      BY <1>3, <1>8
    <3>2. Asked(c) \in Nat
      BY <3>1 DEF Asked
    <3>3. QED
      BY <3>2
  <2>5. c.op = "write_all_vectored_at" /\ c.pc # "done" => c.buf <= Len(c.ends)
    BY <1>4, <1>5, <1>8
  <2>6. c.pc = "done" => c.buf = Len(c.ends) + 1
    BY <1>1, <1>2, <1>4, <1>6, <1>8
  <2>7. QED
    BY <2>1, <2>2, <2>3, <2>4, <2>5, <2>6 DEF InBuffers
<1>12. QED
  BY <1>9, <1>10, <1>11 DEF GoodCall, c


-----------------------------------------------------------------------------
(***************************************************************************)
(* The invariant is inductive: the calls and the file                      *)
(***************************************************************************)

\* A step that makes the call of u a good one keeps all calls good.
LEMMA CallBecomes ==
  ASSUME Calls, NEW u \in Users, NEW c, GoodCall(c), call' = [call EXCEPT ![u] = c]
  PROVE  Calls'
<1>1. call' = [v \in Users |-> call'[v]]
  BY DEF Calls
<1>2. \A v \in Users : GoodCall(call'[v])
  BY DEF Calls
<1>3. QED
  BY <1>1, <1>2 DEF Calls

\* Where a method works, given a good call.
LEMMA PlaceFacts ==
  ASSUME NEW c, GoodCall(c), c.pc = "move", IsFile
  PROVE  /\ Place(c) \in Nat
         /\ c.op \notin Appends => Place(c) = c.offset
         /\ c.op \in Appends => Place(c) = Len(file)
<1>1. /\ c.reopened.access = ReopenAccess(c.op) /\ c.op \in Ops
      /\ c.op \in Seeking => c.reopened.pos = c.offset
      /\ c.offset \in Nat /\ c.reopened.pos \in Nat /\ Len(file) \in Nat
  BY DEF GoodCall, ReopenedInCall, IsCall, Reopened, IsFile
<1>2. CASE c.op \in Reads
  BY <1>1, <1>2 DEF Place, Reads, Writes, Appends, Seeking
<1>3. CASE c.op \in Writes
  <2>1. "WRITE" \in c.reopened.access /\ c.op \notin Seeking \cup Appends
    BY <1>1, <1>3 DEF ReopenAccess, Reads, Writes, Appends, Seeking
  <2>2. QED
    BY <1>1, <2>1 DEF Place
<1>4. CASE c.op \in Appends
  <2>1. "WRITE" \notin c.reopened.access
    BY <1>1, <1>4 DEF ReopenAccess, Reads, Writes, Appends
  <2>2. Place(c) = Len(file)
    BY <1>4, <2>1 DEF Place, Reads, Appends
  <2>3. QED
    BY <1>1, <1>4, <2>2
<1>5. QED
  BY <1>1, <1>2, <1>3, <1>4 DEF Ops

LEMMA BeginKeeps ==
  ASSUME Calls, NEW u \in Users, Begin(u)
  PROVE  Calls'
<1>1. \E op \in Ops, s \in Layouts, off \in Offsets : \E j \in First(op, s) :
        call' = [call EXCEPT ![u] = Started(op, s, off, j)]
  BY DEF Begin, Ops, Started
<1>2. \A op \in Ops, s \in Layouts, off \in Offsets : \A j \in First(op, s) :
        GoodCall(Started(op, s, off, j))
  BY BeginIsGood
<1>3. QED
  BY <1>1, <1>2, CallBecomes

LEMMA ReopenAccessType == \A op \in Ops : ReopenAccess(op) \subseteq Rights
<1>1. {"READ"} \subseteq Rights /\ {"WRITE", "APPEND"} \subseteq Rights /\ {"APPEND"} \subseteq Rights
  BY DEF Rights
<1>2. \A op \in Ops : ReopenAccess(op) \in {{"READ"}, {"WRITE", "APPEND"}, {"APPEND"}}
  BY DEF ReopenAccess, Ops
<1>3. QED
  BY <1>1, <1>2

LEMMA ReopenKeeps ==
  ASSUME Calls, NEW u \in Users, Reopen(u)
  PROVE  Calls'
<1> DEFINE c == call[u]
           r == Opened(ReopenAccess(c.op), {}, {})
           pc == IF c.op \in Seeking THEN "seek" ELSE "move"
           d == [c EXCEPT !.pc = pc, !.reopened = r]
<1>1. GoodCall(c) /\ c.pc = "reopen" /\ call' = [call EXCEPT ![u] = d]
  BY DEF Calls, Reopen
<1>2. r \in Reopened /\ r.access = ReopenAccess(c.op)
  <2>1. ReopenAccess(c.op) \subseteq Rights
    BY <1>1, ReopenAccessType DEF GoodCall, IsCall
  <2> HIDE DEF c
  <2>2. QED
    BY <2>1 DEF Opened, Reopened
<1>3. pc \in {"seek", "move"} /\ (pc = "move" => c.op \notin Seeking)
  OBVIOUS
<1> HIDE DEF c, r, pc
<1>4. /\ d.pc = pc /\ d.reopened = r /\ d.op = c.op /\ d.base = c.base /\ d.offset = c.offset
      /\ d.ends = c.ends /\ d.buf = c.buf /\ d.places = c.places
  BY <1>1 DEF GoodCall, IsCall
<1>5. IsCall(d)
  BY <1>1, <1>2, <1>3 DEF GoodCall, IsCall
<1> HIDE DEF d
<1>6. ReopenedInCall(d) /\ OneRun(d)
  BY <1>1, <1>2, <1>3, <1>4 DEF GoodCall, ReopenedInCall, OneRun
<1>7. InBuffers(d)
  BY <1>1, <1>3, <1>4 DEF GoodCall, InBuffers, Asked
<1>8. GoodCall(d)
  BY <1>5, <1>6, <1>7 DEF GoodCall
<1>9. QED
  BY <1>1, <1>8, CallBecomes DEF d

LEMMA SeekKeeps ==
  ASSUME Calls, NEW u \in Users, SeekReopened(u)
  PROVE  Calls'
<1> DEFINE c == call[u]
           r == [c.reopened EXCEPT !.pos = c.offset]
           d == [c EXCEPT !.pc = "move", !.reopened = r]
<1>1. GoodCall(c) /\ c.pc = "seek"
  BY DEF Calls, SeekReopened
<1>2. call' = [call EXCEPT ![u] = d]
  BY DEF SeekReopened
<1> HIDE DEF c
<1>3. r \in Reopened /\ r.access = c.reopened.access /\ r.pos = c.offset
  BY <1>1 DEF GoodCall, IsCall, Reopened
<1> HIDE DEF r
<1>4. /\ d.pc = "move" /\ d.reopened = r /\ d.op = c.op /\ d.base = c.base
      /\ d.offset = c.offset /\ d.ends = c.ends /\ d.buf = c.buf /\ d.places = c.places
  BY <1>1 DEF GoodCall, IsCall
<1>5. IsCall(d)
  BY <1>1, <1>3 DEF GoodCall, IsCall
<1> HIDE DEF d
<1>6. ReopenedInCall(d) /\ OneRun(d)
  BY <1>1, <1>3, <1>4 DEF GoodCall, ReopenedInCall, OneRun
<1>7. InBuffers(d)
  BY <1>1, <1>4 DEF GoodCall, InBuffers, Asked
<1>8. GoodCall(d)
  BY <1>5, <1>6, <1>7 DEF GoodCall
<1>9. QED
  BY <1>2, <1>8, CallBecomes

LEMMA FailKeeps ==
  ASSUME Calls, NEW u \in Users, Fails(u)
  PROVE  Calls'
<1> DEFINE c == call[u]
           d == [c EXCEPT !.pc = "done", !.ok = FALSE, !.reopened = Closed]
<1>1. GoodCall(c) /\ c.pc \in {"reopen", "seek", "move"} /\ call' = [call EXCEPT ![u] = d]
  BY DEF Calls, Fails
<1> HIDE DEF c
<1>2. /\ d.pc = "done" /\ d.reopened = Closed /\ d.op = c.op /\ d.base = c.base /\ d.ok = FALSE
      /\ d.offset = c.offset /\ d.ends = c.ends /\ d.buf = c.buf /\ d.places = c.places
  BY <1>1 DEF GoodCall, IsCall
<1>3. IsCall(d)
  BY <1>1, ClosedType DEF GoodCall, IsCall
<1> HIDE DEF d
<1>4. ReopenedInCall(d) /\ OneRun(d)
  BY <1>1, <1>2 DEF GoodCall, ReopenedInCall, OneRun
<1>5. InBuffers(d)
  BY <1>1, <1>2 DEF GoodCall, InBuffers, Asked
<1>6. QED
  BY <1>1, <1>3, <1>4, <1>5, CallBecomes DEF GoodCall

LEMMA ReturnKeeps ==
  ASSUME Calls, NEW u \in Users, Return(u)
  PROVE  Calls'
BY NoCallIsGood, CallBecomes DEF Return

LEMMA ReadKeeps ==
  ASSUME Calls, IsFile, NEW u \in Users, ReadFile(u)
  PROVE  Calls'
<1> DEFINE c == call[u]
           at == Place(c)
<1>1. GoodCall(c) /\ c.pc = "move"
  BY DEF Calls, ReadFile
<1>2. PICK k \in 0 .. Want(c) : \E j \in NextBuffer(c, k) :
        call' = [call EXCEPT ![u] = Moved(c, k, at, j)]
  BY DEF ReadFile
<1>3. PICK j \in NextBuffer(c, k) : call' = [call EXCEPT ![u] = Moved(c, k, at, j)]
  BY <1>2
<1> HIDE DEF c
<1>4. at \in Nat /\ (c.op \notin Appends => at = c.offset)
  BY <1>1, PlaceFacts
<1>5. GoodCall(Moved(c, k, at, j))
  BY <1>1, <1>4, MovedIsGood
<1>6. QED
  BY <1>3, <1>5, CallBecomes

LEMMA WriteKeepsCalls ==
  ASSUME Calls, IsFile, NEW u \in Users, WriteFile(u)
  PROVE  Calls' /\ IsFile'
<1> DEFINE c == call[u]
           at == Place(c)
<1>1. GoodCall(c) /\ c.pc = "move"
  BY DEF Calls, WriteFile
<1>2. PICK k \in Accepted(Want(c), at) : \E j \in NextBuffer(c, k) :
        /\ file' = Splice(file, at, u, k)
        /\ call' = [call EXCEPT ![u] = Moved(c, k, at, j)]
  BY DEF WriteFile
<1>3. PICK j \in NextBuffer(c, k) : call' = [call EXCEPT ![u] = Moved(c, k, at, j)]
  BY <1>2
<1> HIDE DEF c
<1>4. at \in Nat /\ (c.op \notin Appends => at = c.offset)
  BY <1>1, PlaceFacts
<1> HIDE DEF at
<1>5. k \in 0 .. Want(c)
  BY DEF Accepted
<1>6. GoodCall(Moved(c, k, at, j))
  BY <1>1, <1>4, <1>5, MovedIsGood
<1>7. IsFile'
  <2>1. Want(c) \in Nat
    BY <1>1, WantFacts
  <2>2. QED
    BY <1>2, <1>4, <2>1, SpliceWithinLimit DEF IsFile
<1>8. QED
  BY <1>3, <1>6, <1>7, CallBecomes


-----------------------------------------------------------------------------
(***************************************************************************)
(* The invariant is inductive: positions and handles                       *)
(***************************************************************************)

LEMMA OpenedFacts ==
  ASSUME NEW a, NEW f, NEW s
  PROVE  Opened(a, f, s).pos = 0 /\ Opened(a, f, s).access = a /\ Closed.pos = 0
BY DEF Opened, Closed

\* What a step may do to the position of a user's handle.
PositionStep ==
  \A v \in Users :
    IF handle'[v] = handle[v]
    THEN call' # call \/ token' # token => object'[handle'[v]].pos = object[handle[v]].pos
    ELSE object'[handle'[v]].pos = 0

\* The objects of tokens and handles.
LEMMA Referred ==
  ASSUME HInv
  PROVE  /\ object = [x \in Objects |-> object[x]]
         /\ \A x \in Objects : object[x] = [object[x] EXCEPT !.pos = object[x].pos]
         /\ \A v \in Users : handle[v] \in Objects
         /\ \A v \in Users : token[v].held => token[v].object \in Objects
         /\ handle = [v \in Users |-> handle[v]] /\ token = [v \in Users |-> token[v]]
         /\ ~NoToken.held
<1>1. \A v \in Users : token[v].held => token[v].object \in Objects
  BY Records DEF HInv, HType, Token
<1>2. \A x \in Objects : object[x] = [object[x] EXCEPT !.pos = object[x].pos]
  BY DEF HInv, HType, AllObjects, IsObject
<1>3. QED
  BY <1>1, <1>2, Records DEF HInv, HType, AllObjects

LEMMA NewWindowsKeeps ==
  ASSUME HInv, Positions, NEW u \in Users, NewSetFdFlagsWindows(u)
  PROVE  Positions' /\ PositionStep
<1>1. PICK F \in Requests, o \in Unused :
        LET old == object[handle[u]].access IN
        /\ token' = [token EXCEPT ![u] = [held |-> TRUE, set |-> F, object |-> o]]
        /\ object' = [object EXCEPT ![o] =
                        Opened(AccessMode(F, CanRead(old), CanWrite(old)), F \cap {"DSYNC"}, F)]
  BY DEF NewSetFdFlagsWindows
<1>2. o \in Objects /\ \A v \in Users : handle[v] # o
  BY DEF Unused
<1>3. object'[o].pos = 0 /\ \A x \in Objects : x # o => object'[x] = object[x]
  BY <1>1, <1>2, Referred, OpenedFacts
<1>4. /\ token'[u].object = o
      /\ \A v \in Users : v # u => token'[v] = token[v]
  BY <1>1, Referred
<1>5. Positions'
  <2>1. \A x \in Objects : object'[x].pos = 0 \/ object'[x].pos = object[x].pos
    BY <1>3
  <2>2. setup' = setup /\ setup.kind = "windows"
    BY DEF NewSetFdFlagsWindows, MayAskFlags
  <2>3. \A v \in Users : token'[v].held => object'[token'[v].object].pos = 0
    BY <1>3, <1>4, <2>2, Referred DEF Positions
  <2>4. QED
    BY <2>1, <2>2, <2>3 DEF Positions
<1>6. PositionStep
  BY <1>2, <1>3, Referred DEF PositionStep, NewSetFdFlagsWindows
<1>7. QED
  BY <1>5, <1>6

LEMMA SetWindowsKeeps ==
  ASSUME HInv, Positions, NEW u \in Users, SetFdFlagsWindows(u)
  PROVE  Positions' /\ PositionStep
<1> USE DEF SetFdFlagsWindows
<1>1. /\ handle'[u] = token[u].object /\ ~token'[u].held
      /\ \A v \in Users : v # u => handle'[v] = handle[v] /\ token'[v] = token[v]
  BY Referred
<1>2. \A x \in Objects :
        \/ object'[x] = object[x]
        \/ /\ x = handle[u] /\ \A v \in Users \ {u} : handle[v] # x
           /\ object'[x].pos = 0
  BY Referred, OpenedFacts
<1>3. token[u].object # handle[u] /\ object[token[u].object].pos = 0
  BY DEF HInv, HFresh, Positions
<1>4. Positions'
  <2>1. \A x \in Objects : object'[x].pos \in Nat
    BY <1>2 DEF Positions
  <2>2. \A v \in Users : token'[v].held => token'[v] = token[v] /\ token[v].object # handle[u]
    BY <1>1 DEF HInv, HFresh
  <2>3. QED
    BY <1>2, <2>1, <2>2, Referred DEF Positions
<1>5. PositionStep
  BY <1>1, <1>2, <1>3, Referred DEF PositionStep
<1>6. QED
  BY <1>4, <1>5

LEMMA DropKeeps ==
  ASSUME HInv, Positions, NEW u \in Users, DropToken(u)
  PROVE  Positions' /\ PositionStep
<1> USE DEF DropToken
<1>1. /\ handle' = handle /\ ~token'[u].held
      /\ \A v \in Users : v # u => token'[v] = token[v]
  BY Referred
<1>2. \A x \in Objects :
        object'[x] = object[x] \/ (setup.kind = "windows" /\ x = token[u].object /\ object'[x].pos = 0)
  BY Referred, OpenedFacts
<1>3. Positions'
  <2>1. \A x \in Objects : object'[x].pos \in Nat
    BY <1>2 DEF Positions
  <2>2. \A v \in Users : token'[v].held => token'[v] = token[v] /\ token[v].held
    BY <1>1
  <2>3. QED
    BY <1>2, <2>1, <2>2, Referred DEF Positions
<1>4. PositionStep
  BY <1>1, <1>2, Referred DEF PositionStep, HInv, HFresh
<1>5. QED
  BY <1>3, <1>4

\* On POSIX the object stays where it is.
LEMMA PosixKeeps ==
  ASSUME HInv, Positions, NEW u \in Users, NewSetFdFlagsPosix(u) \/ SetFdFlagsPosix(u)
  PROVE  Positions' /\ PositionStep
<1>1. handle' = handle /\ setup' = setup /\ setup.kind # "windows"
  BY DEF NewSetFdFlagsPosix, SetFdFlagsPosix, MayAskFlags
<1>2. \A x \in Objects : object'[x].pos = object[x].pos
  <2>1. CASE NewSetFdFlagsPosix(u)
    BY <2>1 DEF NewSetFdFlagsPosix
  <2>2. CASE SetFdFlagsPosix(u)
    <3>1. object' = [object EXCEPT ![handle[u]] = SetFlags(@, token[u].set)]
      BY <2>2 DEF SetFdFlagsPosix
    <3>2. \A x \in Objects : SetFlags(object[x], token[u].set).pos = object[x].pos
      BY DEF SetFlags, HInv, HType, AllObjects, IsObject
    <3>3. QED
      BY <3>1, <3>2, Referred
  <2>3. QED
    BY <2>1, <2>2
<1>3. Positions'
  BY <1>1, <1>2 DEF Positions
<1>4. PositionStep
  BY <1>1, <1>2, Referred DEF PositionStep
<1>5. QED
  BY <1>3, <1>4

LEMMA FlagsKeep ==
  ASSUME HInv, Positions, OneHandle, NEW u \in Users, FlagsCall(u)
  PROVE  Positions' /\ OneHandle' /\ PositionStep
<1>1. Positions' /\ PositionStep
  BY PosixKeeps, NewWindowsKeeps, SetWindowsKeeps, DropKeeps DEF FlagsCall
<1>2. "flags" \in setup.does /\ setup' = setup
  BY DEF FlagsCall, NewSetFdFlagsPosix, SetFdFlagsPosix, NewSetFdFlagsWindows,
         SetFdFlagsWindows, DropToken, MayAskFlags, OneHandle
<1>3. QED
  BY <1>1, <1>2 DEF OneHandle

LEMMA SocketKeeps ==
  ASSUME HInv, Positions, OneHandle, NEW u \in Users, SocketCall(u), UNCHANGED call
  PROVE  Positions' /\ OneHandle' /\ PositionStep
<1>1. UNCHANGED <<setup, handle, token>>
  BY DEF SocketCall, Shutdown, SendProbe, RecvProbe, ProbeAnswers
<1>2. PositionStep
  BY <1>1 DEF PositionStep
<1>3. CASE Shutdown(u)
  <2>1. setup.kind = "socket"
    BY <1>3 DEF Shutdown
  <2>2. \A x \in Objects : object'[x].pos = object[x].pos
    BY <1>3 DEF Shutdown, HInv, HType, AllObjects, IsObject
  <2>3. QED
    BY <1>1, <1>2, <2>1, <2>2 DEF Positions, OneHandle
<1>4. CASE UNCHANGED object
  BY <1>1, <1>2, <1>4 DEF Positions, OneHandle
<1>5. QED
  BY <1>3, <1>4 DEF SocketCall, SendProbe, RecvProbe, ProbeAnswers

\* Moving the position of a user's handle moves no token's.
LEMMA HandleMoved ==
  ASSUME HInv, Positions, OneHandle, NEW u \in Users, NEW p \in Nat,
         object' = [object EXCEPT ![handle[u]].pos = p],
         UNCHANGED <<setup, handle, token, call>>
  PROVE  /\ Positions' /\ OneHandle' /\ PositionStep
         /\ object'[handle[u]].pos = p
<1>1. /\ object'[handle[u]].pos = p
      /\ object'[handle[u]].access = object[handle[u]].access
      /\ \A x \in Objects : x # handle[u] => object'[x] = object[x]
  BY DEF HInv, HType, AllObjects, IsObject
<1>2. Positions'
  BY <1>1 DEF Positions, HInv, HFresh
<1>3. OneHandle'
  BY <1>1, Referred DEF OneHandle
<1>4. PositionStep
  BY DEF PositionStep
<1>5. QED
  BY <1>1, <1>2, <1>3, <1>4


-----------------------------------------------------------------------------
(***************************************************************************)
(* The invariant is inductive: every step                                  *)
(***************************************************************************)

\* Two users of a handle that is nobody's alone share its object.
LEMMA InitKeeps == Init => WInv
<1> SUFFICES ASSUME Init PROVE WInv
  OBVIOUS
<1>1. PICK first \in Objects :
        /\ handle = [u \in Users |-> first]
        /\ object = [o \in Objects |->
                       IF o # first THEN Closed
                       ELSE Opened(setup.access, setup.flags,
                                   GetFdFlags(setup.access, setup.flags))]
  BY DEF Init, HandlesInit
<1>2. token = [u \in Users |-> NoToken] /\ call = [u \in Users |-> NoCall]
  BY DEF Init, HandlesInit
<1>3. Positions
  <2>1. \A o \in Objects : object[o].pos = 0
    BY <1>1, OpenedFacts
  <2>2. QED
    BY <1>2, <2>1, Records DEF Positions
<1>4. OneHandle
  BY <1>1, <1>2, Records, OpenedFacts DEF OneHandle
<1>5. IsFile
  BY WindowsFileAssumption DEF Init, IsFile
<1>6. Calls
  BY <1>2, NoCallIsGood DEF Calls
<1>7. QED
  BY <1>3, <1>4, <1>5, <1>6, InitHolds DEF WInv

\* A call on a reopened handle.
MoveCall(u) ==
  Begin(u) \/ Reopen(u) \/ SeekReopened(u) \/ ReadFile(u) \/ WriteFile(u) \/ Fails(u) \/ Return(u)

LEMMA MoveCallKeeps ==
  ASSUME WInv, NEW u \in Users, MoveCall(u)
  PROVE  Calls' /\ IsFile' /\ Positions' /\ OneHandle' /\ PositionStep
<1> USE DEF MoveCall, WInv
<1>1. UNCHANGED handleVars
  BY DEF Begin, Reopen, SeekReopened, ReadFile, WriteFile, Fails, Return
<1>2. Calls'
  BY BeginKeeps, ReopenKeeps, SeekKeeps, FailKeeps, ReturnKeeps, ReadKeeps, WriteKeepsCalls
<1>3. IsFile'
  <2>1. CASE WriteFile(u)
    BY <2>1, WriteKeepsCalls
  <2>2. CASE UNCHANGED file
    BY <2>2 DEF IsFile
  <2>3. QED
    BY <2>1, <2>2 DEF Begin, Reopen, SeekReopened, ReadFile, Fails, Return
<1>4. Positions' /\ OneHandle' /\ PositionStep
  BY <1>1 DEF handleVars, Positions, OneHandle, PositionStep
<1>5. QED
  BY <1>2, <1>3, <1>4

LEMMA HandleSeekKeeps ==
  ASSUME WInv, NEW u \in Users, HandleSeek(u)
  PROVE  Calls' /\ IsFile' /\ Positions' /\ OneHandle' /\ PositionStep
<1>1. PICK p \in Offsets : object' = [object EXCEPT ![handle[u]].pos = p]
  BY DEF HandleSeek
<1>2. p \in Nat /\ UNCHANGED <<setup, handle, token, call, file>>
  BY WindowsFileAssumption DEF HandleSeek
<1>3. Positions' /\ OneHandle' /\ PositionStep
  BY <1>1, <1>2, HandleMoved DEF WInv
<1>4. QED
  BY <1>2, <1>3 DEF WInv, Calls, IsFile

\* Where std's write on the handle puts its byte.
LEMMA HandleWriteFacts ==
  ASSUME WInv, NEW u \in Users, HandleWrite(u)
  PROVE  LET o == object[handle[u]]
             at == IF "WRITE" \in o.access THEN o.pos ELSE Len(file)
         IN /\ at \in Nat /\ 1 \in Accepted(1, at)
            /\ file' = Splice(file, at, u, 1)
            /\ object' = [object EXCEPT ![handle[u]].pos = at + 1]
            /\ UNCHANGED <<setup, handle, token, call>>
BY Referred DEF HandleWrite, WInv, Positions, IsFile

LEMMA HandleWriteKeeps ==
  ASSUME WInv, NEW u \in Users, HandleWrite(u)
  PROVE  Calls' /\ IsFile' /\ Positions' /\ OneHandle' /\ PositionStep
<1> DEFINE o == object[handle[u]]
           at == IF "WRITE" \in o.access THEN o.pos ELSE Len(file)
<1>1. /\ at \in Nat /\ 1 \in Accepted(1, at)
      /\ file' = Splice(file, at, u, 1)
      /\ object' = [object EXCEPT ![handle[u]].pos = at + 1]
      /\ UNCHANGED <<setup, handle, token, call>>
  BY HandleWriteFacts
<1> HIDE DEF at
<1>2. Positions' /\ OneHandle' /\ PositionStep
  <2>1. at + 1 \in Nat
    BY <1>1
  <2>2. QED
    BY <1>1, <2>1, HandleMoved DEF WInv
<1>3. IsFile'
  BY <1>1, SpliceWithinLimit DEF WInv, IsFile
<1>4. QED
  BY <1>1, <1>2, <1>3 DEF WInv, Calls

LEMMA NextKeeps == WInv /\ [Next]_vars => WInv' /\ PositionStep
<1> SUFFICES ASSUME WInv, [Next]_vars
             PROVE  Calls' /\ IsFile' /\ Positions' /\ OneHandle' /\ PositionStep
  BY NextHolds DEF WInv
<1> DEFINE Kept == Calls' /\ IsFile' /\ Positions' /\ OneHandle' /\ PositionStep
<1>1. ASSUME NEW u \in Users, MoveCall(u) PROVE Kept
  BY <1>1, MoveCallKeeps
<1>2. ASSUME NEW u \in Users, HandleSeek(u) \/ HandleWrite(u) PROVE Kept
  BY <1>2, HandleSeekKeeps, HandleWriteKeeps
<1>3. ASSUME NEW u \in Users, FlagsCall(u) \/ SocketCall(u), UNCHANGED <<file, call>> PROVE Kept
  <2>1. Calls' /\ IsFile'
    BY <1>3 DEF WInv, Calls, IsFile
  <2>2. QED
    BY <1>3, <2>1, FlagsKeep, SocketKeeps DEF WInv
<1>4. CASE ResizeElsewhere
  <2>1. UNCHANGED <<handleVars, call>> /\ \E n \in 0 .. MaxLen : file' = Resize(file, n)
    BY <1>4 DEF ResizeElsewhere
  <2>2. IsFile'
    BY <2>1, ResizeType, MaxLenAssumption DEF WInv, IsFile
  <2>3. QED
    BY <2>1, <2>2 DEF WInv, handleVars, Calls, Positions, OneHandle, PositionStep
<1>5. CASE UNCHANGED vars
  BY <1>5 DEF WInv, vars, handleVars, Calls, IsFile, Positions, OneHandle, PositionStep
<1>6. QED
  BY <1>1, <1>2, <1>3, <1>4, <1>5 DEF Next, MoveCall

LEMMA WInductive == Spec => []WInv
BY InitKeeps, NextKeeps, PTL DEF Spec

-----------------------------------------------------------------------------
(***************************************************************************)
(* Theorems                                                                *)
(***************************************************************************)

\* Every variable has its type, the file stays within its limit, and a handle
\* that a call reopened is gone when the call is over, whichever way it ends
\* (file_io_ext.rs:606-777, 1003-1037).
THEOREM ReopenedEndsWithCall == Spec => []TypeOK
<1>1. ASSUME WInv PROVE \A u \in Users : call[u].reopened # Closed <=> call[u].pc \in {"seek", "move"}
  <2>1. SUFFICES ASSUME NEW u \in Users, call[u].pc \in {"seek", "move"}
                 PROVE  call[u].reopened # Closed
    BY <1>1 DEF WInv, Calls, GoodCall, ReopenedInCall
  <2>2. call[u].reopened.access = ReopenAccess(call[u].op) /\ call[u].op \in Ops
    BY <1>1, <2>1 DEF WInv, Calls, GoodCall, ReopenedInCall, IsCall
  <2>3. ReopenAccess(call[u].op) # {}
    BY <2>2 DEF ReopenAccess, Ops
  <2>4. QED
    BY <2>2, <2>3 DEF Closed, Opened
<1>2. ASSUME WInv PROVE \A u \in Users : /\ call[u].pc \in {"idle", "reopen", "seek", "move", "done"}
                                        /\ call[u].buf \in 1 .. Len(call[u].ends) + 1
  BY <1>2 DEF WInv, Calls, GoodCall, IsCall, InBuffers
<1>3. WInv => (HandlesTypeOK => TypeOK)
  BY <1>1, <1>2 DEF TypeOK, WInv, Positions, IsFile
<1>4. QED
  BY <1>3, WInductive, HandlesStayOpen, PTL

\* A call with an offset moves one unbroken run of places that starts there,
\* and a whole-buffer method says Ok only when it has moved every byte, however
\* the buffers are laid out and whatever the counts (file_io_ext.rs:636-685,
\* 709-739).
THEOREM OneRunPerCall == Spec => []MovedInOrder
<1>1. ASSUME NEW c, GoodCall(c)
      PROVE  /\ c.op \notin Appends => c.places = [i \in 1 .. Len(c.places) |-> c.base + i - 1]
             /\ Len(c.places) <= Asked(c)
             /\ c.pc = "done" /\ c.ok /\ c.op \in Whole => Len(c.places) = Asked(c)
  <2>1. /\ c.places \in Seq(Nat) /\ c.ends \in Seq(Nat) /\ c.base \in Nat
        /\ c.op \notin Appends => \A i \in 1 .. Len(c.places) : c.places[i] = c.base + i - 1
        /\ Len(c.places) <= Asked(c)
    BY <1>1 DEF GoodCall, IsCall, OneRun, InBuffers
  <2>2. c.places = [i \in 1 .. Len(c.places) |-> c.places[i]]
    BY <2>1
  <2>3. c.op \notin Appends => c.places = [i \in 1 .. Len(c.places) |-> c.base + i - 1]
    BY <2>1, <2>2
  <2>4. ASSUME c.pc = "done" /\ c.ok /\ c.op \in Whole PROVE Len(c.places) = Asked(c)
    <3>1. c.buf = Len(c.ends) + 1 /\ \A h \in 1 .. c.buf - 1 : c.ends[h] <= Len(c.places)
      BY <1>1, <2>4 DEF GoodCall, InBuffers
    <3>2. CASE c.ends = <<>>
      BY <2>1, <3>2 DEF Asked
    <3>3. CASE c.ends # <<>>
      <4>1. Len(c.ends) \in 1 .. c.buf - 1
        BY <2>1, <3>1, <3>3
      <4>2. c.ends[Len(c.ends)] <= Len(c.places) /\ c.ends[Len(c.ends)] \in Nat
        BY <2>1, <3>1, <3>3, <4>1
      <4>3. Asked(c) = c.ends[Len(c.ends)]
        BY <3>3 DEF Asked
      <4>4. QED
        BY <2>1, <4>2, <4>3
    <3>4. QED
      BY <3>2, <3>3
  <2>5. QED
    BY <2>1, <2>3, <2>4
<1>2. WInv => MovedInOrder
  BY <1>1, WindowsFileAssumption DEF WInv, Calls, MovedInOrder
<1>3. QED
  BY <1>2, WInductive, PTL

\* No call with an offset and no append moves a position, and nobody's
\* set_fd_flags moves another's; one's own starts again at 0, if the token was
\* made before the position moved too (file_io_ext.rs:626-631, 704-705,
\* fd_flags.rs:204).
THEOREM PositionIsKept == Spec => PositionKept
<1>1. PositionStep \/ UNCHANGED vars =>
        [\A u \in Users :
           LET before == object[handle[u]].pos
               after == object'[handle'[u]].pos
           IN IF handle'[u] = handle[u]
              THEN call' # call \/ token' # token => after = before
              ELSE after = 0]_vars
  BY DEF PositionStep
<1>2. QED
  BY <1>1, NextKeeps, WInductive, PTL DEF Spec, PositionKept


-----------------------------------------------------------------------------
(***************************************************************************)
(* Append keeps its promise                                                *)
(***************************************************************************)

\* What OpenFile sees of a call, and of all of them.
StageOf(c) == IF c.op \notin Appends THEN "none" ELSE IF c.pc = "done" THEN "answered" ELSE "open"
AskedOf(c) == IF c.op \in Appends THEN Asked(c) ELSE 0
OutcomeOf(c) == IF StageOf(c) = "answered"
                THEN [ok |-> c.ok, n |-> Len(c.places)] ELSE [ok |-> TRUE, n |-> 0]

Stages == [u \in Users |-> Stage(u)]
AskedFor == [u \in Users |-> IF Active(u) THEN Asked(call[u]) ELSE 0]
Outcomes ==
  [u \in Users |-> IF Stage(u) = "answered"
                   THEN [ok |-> call[u].ok, n |-> Len(call[u].places)] ELSE [ok |-> TRUE, n |-> 0]]

LEMMA StageIs == \A u \in Users : Stage(u) = StageOf(call[u])
BY DEF Stage, StageOf, Active

AsSeen ==
  /\ Stages = [u \in Users |-> StageOf(call[u])]
  /\ AskedFor = [u \in Users |-> AskedOf(call[u])]
  /\ Outcomes = [u \in Users |-> OutcomeOf(call[u])]

LEMMA Views == AsSeen
<1>1. Stages = [u \in Users |-> StageOf(call[u])]
  BY StageIs DEF Stages
<1>2. AskedFor = [u \in Users |-> AskedOf(call[u])]
  BY DEF AskedFor, AskedOf, Active
<1>3. Outcomes = [u \in Users |-> OutcomeOf(call[u])]
  BY StageIs DEF Outcomes, OutcomeOf
<1>4. QED
  BY <1>1, <1>2, <1>3 DEF AsSeen

LEMMA ViewsNext == AsSeen'
BY Views, PTL

LEMMA ViewOf ==
  ASSUME NEW u \in Users
  PROVE  Stages[u] = StageOf(call[u]) /\ AskedFor[u] = AskedOf(call[u])
BY Views DEF AsSeen

\* When one call changes, one entry of each view does.
LEMMA StageChanges ==
  ASSUME Calls, NEW u \in Users, NEW d, call' = [call EXCEPT ![u] = d],
         NEW stage, StageOf(d) = stage
  PROVE  Stages' = [Stages EXCEPT ![u] = stage]
<1>1. call'[u] = d /\ \A v \in Users \ {u} : call'[v] = call[v]
  BY DEF Calls
<1>2. QED
  BY <1>1, Views, ViewsNext DEF AsSeen

LEMMA AskedChanges ==
  ASSUME Calls, NEW u \in Users, NEW d, call' = [call EXCEPT ![u] = d],
         NEW asked, AskedOf(d) = asked
  PROVE  AskedFor' = [AskedFor EXCEPT ![u] = asked]
<1>1. call'[u] = d /\ \A v \in Users \ {u} : call'[v] = call[v]
  BY DEF Calls
<1>2. QED
  BY <1>1, Views, ViewsNext DEF AsSeen

LEMMA OutcomeChanges ==
  ASSUME Calls, NEW u \in Users, NEW d, call' = [call EXCEPT ![u] = d],
         NEW outcome, OutcomeOf(d) = outcome
  PROVE  Outcomes' = [Outcomes EXCEPT ![u] = outcome]
<1>1. call'[u] = d /\ \A v \in Users \ {u} : call'[v] = call[v]
  BY DEF Calls
<1>2. QED
  BY <1>1, Views, ViewsNext DEF AsSeen

\* One that OpenFile sees no difference in changes none.
LEMMA ViewsKept ==
  ASSUME Calls, NEW u \in Users, NEW d, call' = [call EXCEPT ![u] = d],
         StageOf(d) = StageOf(call[u]), AskedOf(d) = AskedOf(call[u]),
         OutcomeOf(d) = OutcomeOf(call[u])
  PROVE  Stages' = Stages /\ AskedFor' = AskedFor /\ Outcomes' = Outcomes
<1>1. \A v \in Users : /\ StageOf(call'[v]) = StageOf(call[v])
                       /\ AskedOf(call'[v]) = AskedOf(call[v])
                       /\ OutcomeOf(call'[v]) = OutcomeOf(call[v])
  BY DEF Calls
<1>2. Stages' = Stages
  BY <1>1, Views, ViewsNext DEF AsSeen
<1>3. AskedFor' = AskedFor
  BY <1>1, Views, ViewsNext DEF AsSeen
<1>4. Outcomes' = Outcomes
  BY <1>1, Views, ViewsNext DEF AsSeen
<1>5. QED
  BY <1>2, <1>3, <1>4

LEMMA Quiet ==
  ASSUME NEW c, c.op \notin Appends
  PROVE  StageOf(c) = "none" /\ AskedOf(c) = 0 /\ OutcomeOf(c) = [ok |-> TRUE, n |-> 0]
BY DEF StageOf, AskedOf, OutcomeOf

\* The instance of OpenFile has the kernel of FileData.
LEMMA SameKernel ==
  /\ \A f, at, u, k : Promise!Splice(f, at, u, k) = Splice(f, at, u, k)
  /\ \A n, at : Promise!Accepted(n, at) = Accepted(n, at)
  /\ \A status, p, f : Promise!WriteOffset(status, p, f) = WriteOffset(status, p, f)
  /\ \A p, at, k : Promise!PosAfter(p, at, k) = PosAfter(p, at, k)
  /\ \A f, n : Promise!Resize(f, n) = Resize(f, n)
BY DEF Promise!Splice, Splice, Promise!Accepted, Accepted, Promise!WriteOffset,
   WriteOffset, Promise!PosAfter, PosAfter, Promise!Resize, Resize

\* All users have the position of the one handle.
LEMMA SharedPosition ==
  ASSUME WInv, "flags" \notin setup.does, NEW u \in Users
  PROVE  HandlePos = object[handle[u]].pos
<1>1. (CHOOSE v \in Users : TRUE) \in Users
  OBVIOUS
<1>2. handle[CHOOSE v \in Users : TRUE] = handle[u]
  BY <1>1 DEF WInv, OneHandle
<1>3. QED
  BY <1>2 DEF HandlePos

LEMMA InitPromise == Init => Promise!Init
<1> SUFFICES ASSUME Init PROVE Promise!Init
  OBVIOUS
<1>1. call = [u \in Users |-> NoCall] /\ file \in InitialFiles
  BY DEF Init
<1>2. \A u \in Users : call[u].op \notin Appends
  BY <1>1 DEF NoCall, Appends
<1>3. /\ Stages = [u \in Users |-> "none"] /\ AskedFor = [u \in Users |-> 0]
      /\ Outcomes = [u \in Users |-> [ok |-> TRUE, n |-> 0]]
  BY <1>2, Quiet, Views DEF AsSeen
<1>4. \A o \in Objects : object[o].pos = 0
  BY OpenedFacts DEF Init, HandlesInit
<1>5. HandlePos = 0
  <2>1. (CHOOSE v \in Users : TRUE) \in Users
    BY WindowsFileAssumption
  <2>2. handle[CHOOSE v \in Users : TRUE] \in Objects
    BY <2>1 DEF Init, HandlesInit
  <2>3. QED
    BY <1>4, <2>2 DEF HandlePos
<1>6. HandlePos \in 0 .. MaxLen \cup Offsets
  BY <1>5, MaxLenAssumption
<1>7. QED
  BY <1>1, <1>3, <1>6 DEF Promise!Init, Promise!Done, Stages, AskedFor, Outcomes


\* A step that OpenFile does not see.
Unseen ==
  /\ file' = file /\ HandlePos' = HandlePos
  /\ Stages' = Stages /\ AskedFor' = AskedFor /\ Outcomes' = Outcomes

LEMMA UnseenStutters == Unseen => UNCHANGED Promise!vars
BY DEF Unseen, Promise!vars, Stages, AskedFor, Outcomes

\* The steps of the promise, in terms of the views.
LEMMA PromiseSteps ==
  ASSUME NEW u \in Users, HandlePos' = HandlePos
  PROVE  /\ /\ Stages[u] = "none" /\ Stages' = [Stages EXCEPT ![u] = "open"]
            /\ \E s \in Layouts :
                 AskedFor' = [AskedFor EXCEPT ![u] = Asked([NoCall EXCEPT !.ends = s])]
            /\ file' = file /\ Outcomes' = Outcomes
            => Promise!Request(u)
         /\ /\ Stages[u] = "open" /\ Stages' = [Stages EXCEPT ![u] = "answered"]
            /\ \E k \in Accepted(AskedFor[u], Len(file)) :
                 /\ file' = Splice(file, Len(file), u, k)
                 /\ Outcomes' = [Outcomes EXCEPT ![u] = [ok |-> TRUE, n |-> k]]
            /\ AskedFor' = AskedFor
            => Promise!AppendBytes(u)
         /\ /\ Stages[u] = "open" /\ Stages' = [Stages EXCEPT ![u] = "answered"]
            /\ Outcomes' = [Outcomes EXCEPT ![u] = [ok |-> FALSE, n |-> 0]]
            /\ file' = file /\ AskedFor' = AskedFor
            => Promise!Refuse(u)
         /\ /\ Stages[u] = "answered" /\ Stages' = [Stages EXCEPT ![u] = "none"]
            /\ AskedFor' = [AskedFor EXCEPT ![u] = 0]
            /\ Outcomes' = [Outcomes EXCEPT ![u] = [ok |-> TRUE, n |-> 0]]
            /\ file' = file
            => Promise!Respond(u)
         /\ /\ \E k \in 0 .. MaxLen, off \in 0 .. MaxLen :
                 k \in Accepted(k, off) /\ file' = Splice(file, off, u, k)
            /\ Stages' = Stages /\ AskedFor' = AskedFor /\ Outcomes' = Outcomes
            => Promise!WriteAtOffset(u)
<1>1. ASSUME Stages[u] = "none", Stages' = [Stages EXCEPT ![u] = "open"],
             NEW s \in Layouts,
             AskedFor' = [AskedFor EXCEPT ![u] = Asked([NoCall EXCEPT !.ends = s])],
             file' = file, Outcomes' = Outcomes
      PROVE  Promise!Request(u)
  BY <1>1 DEF Promise!Request, Stages, AskedFor, Outcomes
<1>2. ASSUME Stages[u] = "open", Stages' = [Stages EXCEPT ![u] = "answered"],
             NEW k \in Accepted(AskedFor[u], Len(file)),
             file' = Splice(file, Len(file), u, k),
             Outcomes' = [Outcomes EXCEPT ![u] = [ok |-> TRUE, n |-> k]],
             AskedFor' = AskedFor
      PROVE  Promise!AppendBytes(u)
  BY <1>2, SameKernel DEF Promise!AppendBytes, Promise!Done, Stages, AskedFor, Outcomes
<1>3. ASSUME Stages[u] = "open", Stages' = [Stages EXCEPT ![u] = "answered"],
             Outcomes' = [Outcomes EXCEPT ![u] = [ok |-> FALSE, n |-> 0]],
             file' = file, AskedFor' = AskedFor
      PROVE  Promise!Refuse(u)
  BY <1>3 DEF Promise!Refuse, Promise!Failed, Stages, AskedFor, Outcomes
<1>4. ASSUME Stages[u] = "answered", Stages' = [Stages EXCEPT ![u] = "none"],
             AskedFor' = [AskedFor EXCEPT ![u] = 0],
             Outcomes' = [Outcomes EXCEPT ![u] = [ok |-> TRUE, n |-> 0]], file' = file
      PROVE  Promise!Respond(u)
  BY <1>4 DEF Promise!Respond, Promise!Done, Stages, AskedFor, Outcomes
<1>5. ASSUME NEW k \in 0 .. MaxLen, NEW off \in 0 .. MaxLen, k \in Accepted(k, off),
             file' = Splice(file, off, u, k),
             Stages' = Stages, AskedFor' = AskedFor, Outcomes' = Outcomes
      PROVE  Promise!WriteAtOffset(u)
  <2>1. Promise!WriteOffset({}, off, file) = off
    BY DEF Promise!WriteOffset
  <2>2. \E n \in 0 .. MaxLen \cup {Asked([NoCall EXCEPT !.ends = s]) : s \in Layouts},
           o \in 0 .. MaxLen \cup Offsets :
          LET at == Promise!WriteOffset({}, o, file) IN
          \E j \in Promise!Accepted(n, at) : file' = Promise!Splice(file, at, u, j)
    BY <1>5, <2>1, SameKernel
  <2>3. QED
    BY <1>5, <2>2 DEF Promise!WriteAtOffset, Stages, AskedFor, Outcomes
<1>6. QED
  BY <1>1, <1>2, <1>3, <1>4, <1>5

\* An append in progress asks for what is in its current buffer only when it
\* asks for anything at all.
LEMMA AppendWants ==
  ASSUME NEW c, GoodCall(c), c.op \in Appends, c.pc # "done"
  PROVE  /\ Want(c) \in Nat /\ Asked(c) \in Nat /\ Want(c) <= Asked(c)
         /\ Want(c) = 0 => Asked(c) = 0
<1>1. Len(c.places) = 0 /\ Want(c) \in Nat /\ Asked(c) \in Nat /\ Want(c) <= Asked(c)
  BY WantFacts DEF GoodCall, OneRun
<1>2. ASSUME Want(c) = 0 PROVE Asked(c) = 0
  <2>1. /\ c.ends \in Seq(Nat) /\ c.buf \in 1 .. Len(c.ends) + 1
        /\ \A h \in 1 .. c.buf - 1 : c.ends[h] <= 0
        /\ c.buf <= Len(c.ends) => 0 < c.ends[c.buf]
    BY <1>1 DEF GoodCall, IsCall, InBuffers, Appends
  <2>2. c.buf > Len(c.ends)
    BY <1>1, <1>2, <2>1 DEF Want
  <2>3. CASE c.ends = <<>>
    BY <2>3 DEF Asked
  <2>4. CASE c.ends # <<>>
    <3>1. Len(c.ends) \in 1 .. c.buf - 1
      BY <2>1, <2>2, <2>4
    <3>2. c.ends[Len(c.ends)] <= 0
      BY <2>1, <3>1
    <3>3. QED
      BY <1>1, <2>4, <3>2 DEF Asked
  <2>5. QED
    BY <2>3, <2>4
<1>3. QED
  BY <1>1, <1>2

\* What is left of a call once it has moved.
LEMMA MovedFacts ==
  ASSUME NEW c, GoodCall(c), NEW k \in Nat, NEW at \in Nat, NEW j
  PROVE  /\ Moved(c, k, at, j).op = c.op /\ Moved(c, k, at, j).ends = c.ends
         /\ Len(Moved(c, k, at, j).places) = Len(c.places) + k
         /\ c.op \in Appends =>
              Moved(c, k, at, j).pc = "done" /\ Moved(c, k, at, j).ok = TRUE
<1> DEFINE d == Moved(c, k, at, j)
           run == [i \in 1 .. k |-> at + i - 1]
<1>1. c.op \in Appends => c.op \notin Whole
  BY DEF Appends, Whole
<1>2. Len(c.places \o run) = Len(c.places) + k
  BY PlacesAdded DEF GoodCall, IsCall
<1> HIDE DEF run
<1>3. IsCall(c)
  BY DEF GoodCall
<1>4. d.op = c.op /\ d.ends = c.ends /\ d.places = c.places \o run
  BY <1>3 DEF Moved, IsCall, run
<1>5. c.op \in Appends => d.pc = "done" /\ d.ok = TRUE
  BY <1>1, <1>3 DEF Moved, IsCall
<1>6. QED
  BY <1>2, <1>4, <1>5


\* The start of an append is its request.
LEMMA BeginPromise ==
  ASSUME WInv, NEW u \in Users, Begin(u), HandlePos' = HandlePos
  PROVE  Promise!Next \/ Unseen
<1>1. PICK op \in Ops, s \in Layouts, off \in Offsets : \E j \in First(op, s) :
        call' = [call EXCEPT ![u] = Started(op, s, off, j)]
  BY DEF Begin, Ops, Started
<1>2. PICK j \in First(op, s) : call' = [call EXCEPT ![u] = Started(op, s, off, j)]
  BY <1>1
<1> DEFINE d == Started(op, s, off, j)
<1>3. call[u].pc = "idle" /\ call[u].op = "read_at" /\ file' = file
  BY DEF Begin, WInv, Calls, GoodCall, ReopenedInCall
<1>a. Calls /\ call' = [call EXCEPT ![u] = d]
  BY <1>2 DEF WInv
<1>4. d.op = op
  BY DEF Started, NoCall
<1>5. op \in Appends => d.pc = "reopen" /\ d.ends = s
  BY DEF Started, NoCall, Appends, Writes
<1>6. call[u].op \notin Appends
  BY <1>3 DEF Appends
<1> HIDE DEF d
<1>7. CASE op \in Appends
  <2>1. StageOf(d) = "open" /\ AskedOf(d) = Asked(d) /\ OutcomeOf(d) = OutcomeOf(call[u])
    BY <1>4, <1>5, <1>6, <1>7, Quiet DEF StageOf, AskedOf, OutcomeOf
  <2>2. Asked(d) = Asked([NoCall EXCEPT !.ends = s])
    BY <1>5, <1>7 DEF Asked, NoCall
  <2>3. Stages[u] = "none" /\ Stages' = [Stages EXCEPT ![u] = "open"]
    <3>1. Stages[u] = "none"
      BY <1>6, ViewOf, Quiet
    <3>2. Stages' = [Stages EXCEPT ![u] = "open"]
      BY <1>a, <2>1, StageChanges
    <3>3. QED
      BY <3>1, <3>2
  <2>4. AskedFor' = [AskedFor EXCEPT ![u] = Asked([NoCall EXCEPT !.ends = s])]
    <3>1. AskedOf(d) = Asked([NoCall EXCEPT !.ends = s])
      BY <2>1, <2>2
    <3>2. QED
      BY <1>a, <3>1, AskedChanges
  <2>5. Outcomes' = Outcomes
    <3>1. Outcomes' = [Outcomes EXCEPT ![u] = OutcomeOf(call[u])]
      BY <1>a, <2>1, OutcomeChanges
    <3>2. QED
      BY <3>1, Views DEF AsSeen
  <2>6. Promise!Request(u)
    BY <1>3, <2>3, <2>4, <2>5, PromiseSteps
  <2>7. QED
    BY <2>6 DEF Promise!Next
<1>8. CASE op \notin Appends
  <2>1. /\ StageOf(d) = StageOf(call[u]) /\ AskedOf(d) = AskedOf(call[u])
        /\ OutcomeOf(d) = OutcomeOf(call[u])
    BY <1>4, <1>6, <1>8, Quiet
  <2>2. QED
    BY <1>3, <1>a, <2>1, ViewsKept DEF Unseen
<1>9. QED
  BY <1>7, <1>8

\* Reopening and seeking are not seen.
LEMMA ReopenPromise ==
  ASSUME WInv, NEW u \in Users, Reopen(u) \/ SeekReopened(u), HandlePos' = HandlePos
  PROVE  Unseen
<1>1. GoodCall(call[u]) /\ call[u].pc # "done" /\ file' = file /\ Calls
  BY DEF WInv, Calls, Reopen, SeekReopened
<1>2. PICK d : /\ call' = [call EXCEPT ![u] = d] /\ d.op = call[u].op /\ d.ends = call[u].ends
               /\ d.pc # "done"
  <2>1. CASE Reopen(u)
    <3> DEFINE c == call[u]
               r == Opened(ReopenAccess(c.op), {}, {})
               p == IF c.op \in Seeking THEN "seek" ELSE "move"
               d == [c EXCEPT !.pc = p, !.reopened = r]
    <3>1. call' = [call EXCEPT ![u] = d]
      BY <2>1 DEF Reopen
    <3>2. p # "done"
      OBVIOUS
    <3> HIDE DEF c, r, p
    <3>3. d.op = c.op /\ d.ends = c.ends /\ d.pc # "done"
      BY <1>1, <3>2 DEF GoodCall, IsCall, c
    <3>4. QED
      BY <3>1, <3>3 DEF c
  <2>2. CASE SeekReopened(u)
    <3> DEFINE c == call[u]
               r == [c.reopened EXCEPT !.pos = c.offset]
               d == [c EXCEPT !.pc = "move", !.reopened = r]
    <3>1. call' = [call EXCEPT ![u] = d]
      BY <2>2 DEF SeekReopened
    <3> HIDE DEF c, r
    <3>2. d.op = c.op /\ d.ends = c.ends /\ d.pc # "done"
      BY <1>1 DEF GoodCall, IsCall, c
    <3>3. QED
      BY <3>1, <3>2 DEF c
  <2>3. QED
    BY <2>1, <2>2
<1>3. /\ StageOf(d) = StageOf(call[u]) /\ AskedOf(d) = AskedOf(call[u])
      /\ OutcomeOf(d) = OutcomeOf(call[u])
  BY <1>1, <1>2 DEF StageOf, AskedOf, OutcomeOf, Asked
<1>4. QED
  BY <1>1, <1>2, <1>3, ViewsKept DEF Unseen

\* A failed append wrote nothing.
LEMMA FailsPromise ==
  ASSUME WInv, NEW u \in Users, Fails(u), HandlePos' = HandlePos
  PROVE  Promise!Next \/ Unseen
<1> DEFINE c == call[u]
           d == [c EXCEPT !.pc = "done", !.ok = FALSE, !.reopened = Closed]
<1>1. /\ GoodCall(c) /\ c.pc \in {"reopen", "seek", "move"} /\ call' = [call EXCEPT ![u] = d]
      /\ file' = file /\ Calls
  BY DEF WInv, Calls, Fails
<1> HIDE DEF c
<1>2. d.pc = "done" /\ d.op = c.op /\ d.ok = FALSE /\ d.ends = c.ends /\ d.places = c.places
  BY <1>1 DEF GoodCall, IsCall
<1> HIDE DEF d
<1>3. CASE c.op \in Appends
  <2>1. Len(c.places) = 0
    BY <1>1, <1>3 DEF GoodCall, OneRun
  <2>2. /\ StageOf(c) = "open" /\ StageOf(d) = "answered" /\ AskedOf(d) = AskedOf(c)
        /\ OutcomeOf(d) = [ok |-> FALSE, n |-> 0]
    BY <1>1, <1>2, <1>3, <2>1 DEF StageOf, AskedOf, OutcomeOf, Asked
  <2>3. /\ Stages[u] = "open" /\ Stages' = [Stages EXCEPT ![u] = "answered"]
        /\ AskedFor' = [AskedFor EXCEPT ![u] = AskedOf(c)]
        /\ Outcomes' = [Outcomes EXCEPT ![u] = [ok |-> FALSE, n |-> 0]]
    <3>1. Stages[u] = "open"
      BY <2>2, ViewOf DEF c
    <3>2. Stages' = [Stages EXCEPT ![u] = "answered"]
      BY <1>1, <2>2, StageChanges
    <3>3. AskedFor' = [AskedFor EXCEPT ![u] = AskedOf(c)]
      BY <1>1, <2>2, AskedChanges
    <3>4. Outcomes' = [Outcomes EXCEPT ![u] = [ok |-> FALSE, n |-> 0]]
      BY <1>1, <2>2, OutcomeChanges
    <3>5. QED
      BY <3>1, <3>2, <3>3, <3>4
  <2>4. AskedFor' = AskedFor
    BY <2>3, Views DEF AsSeen, c
  <2>5. Promise!Refuse(u)
    BY <1>1, <2>3, <2>4, PromiseSteps
  <2>6. QED
    BY <2>5 DEF Promise!Next
<1>4. CASE c.op \notin Appends
  BY <1>1, <1>2, <1>4, Quiet, ViewsKept DEF Unseen, c
<1>5. QED
  BY <1>3, <1>4

LEMMA ReturnPromise ==
  ASSUME WInv, NEW u \in Users, Return(u), HandlePos' = HandlePos
  PROVE  Promise!Next \/ Unseen
<1>1. /\ call[u].pc = "done" /\ call' = [call EXCEPT ![u] = NoCall] /\ file' = file /\ Calls
  BY DEF WInv, Return
<1>2. NoCall.op \notin Appends
  BY DEF NoCall, Appends
<1>3. StageOf(NoCall) = "none" /\ AskedOf(NoCall) = 0 /\ OutcomeOf(NoCall) = [ok |-> TRUE, n |-> 0]
  BY <1>2, Quiet
<1>4. CASE call[u].op \in Appends
  <2>1. StageOf(call[u]) = "answered"
    BY <1>1, <1>4 DEF StageOf
  <2>2. /\ Stages[u] = "answered" /\ Stages' = [Stages EXCEPT ![u] = "none"]
        /\ AskedFor' = [AskedFor EXCEPT ![u] = 0]
        /\ Outcomes' = [Outcomes EXCEPT ![u] = [ok |-> TRUE, n |-> 0]]
    <3>1. Stages[u] = "answered"
      BY <2>1, ViewOf
    <3>2. Stages' = [Stages EXCEPT ![u] = "none"]
      BY <1>1, <1>3, StageChanges
    <3>3. AskedFor' = [AskedFor EXCEPT ![u] = 0]
      BY <1>1, <1>3, AskedChanges
    <3>4. Outcomes' = [Outcomes EXCEPT ![u] = [ok |-> TRUE, n |-> 0]]
      BY <1>1, <1>3, OutcomeChanges
    <3>5. QED
      BY <3>1, <3>2, <3>3, <3>4
  <2>3. Promise!Respond(u)
    BY <1>1, <2>2, PromiseSteps
  <2>4. QED
    BY <2>3 DEF Promise!Next
<1>5. CASE call[u].op \notin Appends
  BY <1>1, <1>3, <1>5, Quiet, ViewsKept DEF Unseen
<1>6. QED
  BY <1>4, <1>5

LEMMA ReadPromise ==
  ASSUME WInv, NEW u \in Users, ReadFile(u), HandlePos' = HandlePos
  PROVE  Unseen
<1> DEFINE c == call[u]
           at == Place(c)
<1>1. GoodCall(c) /\ c.pc = "move" /\ Calls
  BY DEF WInv, Calls, ReadFile
<1>a. c.op \notin Appends /\ file' = file
  BY DEF ReadFile, Reads, Appends
<1>2. PICK k \in 0 .. Want(c) : \E j \in NextBuffer(c, k) :
        call' = [call EXCEPT ![u] = Moved(c, k, at, j)]
  BY DEF ReadFile
<1>3. PICK j \in NextBuffer(c, k) : call' = [call EXCEPT ![u] = Moved(c, k, at, j)]
  BY <1>2
<1>4. Want(c) \in Nat /\ at \in Nat /\ k \in 0 .. Want(c) /\ k \in Nat
  BY <1>1, WantFacts, PlaceFacts DEF WInv
<1> HIDE DEF at, c
<1> DEFINE d == Moved(c, k, at, j)
<1>5. /\ d.op = c.op /\ d.ends = c.ends
      /\ Len(d.places) = Len(c.places) + k
      /\ c.op \in Appends => d.pc = "done" /\ d.ok = TRUE
  BY <1>1, <1>4, MovedFacts
<1>6. QED
  BY <1>1, <1>a, <1>3, <1>5, Quiet, ViewsKept DEF Unseen, c

\* The bytes of an append go to the end of the file, those of a positioned
\* write to where the call has got to.
LEMMA WritePromise ==
  ASSUME WInv, NEW u \in Users, WriteFile(u), HandlePos' = HandlePos
  PROVE  Promise!Next \/ Unseen
<1> DEFINE c == call[u]
           at == Place(c)
<1>1. GoodCall(c) /\ c.pc = "move" /\ Calls
  BY DEF WInv, Calls, WriteFile
<1>2. PICK k \in Accepted(Want(c), at) : \E j \in NextBuffer(c, k) :
        /\ file' = Splice(file, at, u, k)
        /\ call' = [call EXCEPT ![u] = Moved(c, k, at, j)]
  BY DEF WriteFile
<1>a. PICK j \in NextBuffer(c, k) :
        /\ file' = Splice(file, at, u, k)
        /\ call' = [call EXCEPT ![u] = Moved(c, k, at, j)]
  BY <1>2
<1>3. /\ Want(c) \in Nat /\ at \in Nat
      /\ c.op \in Appends => at = Len(file)
      /\ k \in 0 .. Want(c) /\ k \in Nat /\ at + k <= MaxLen /\ (k = 0 <=> Want(c) = 0)
  BY <1>1, WantFacts, PlaceFacts DEF WInv, Accepted
<1> HIDE DEF at, c
<1> DEFINE d == Moved(c, k, at, j)
<1>4. /\ d.op = c.op /\ d.ends = c.ends
      /\ Len(d.places) = Len(c.places) + k
      /\ c.op \in Appends => d.pc = "done" /\ d.ok = TRUE
  BY <1>1, <1>3, MovedFacts
<1>5. call' = [call EXCEPT ![u] = d]
  BY <1>a
<1> HIDE DEF d
<1>6. CASE c.op \in Appends
  <2>1. /\ StageOf(c) = "open" /\ StageOf(d) = "answered" /\ AskedOf(d) = AskedOf(c)
        /\ AskedOf(c) = Asked(c)
    BY <1>1, <1>4, <1>6 DEF StageOf, AskedOf, Asked
  <2>2. Len(d.places) = k
    BY <1>1, <1>3, <1>4, <1>6 DEF GoodCall, OneRun
  <2>3. OutcomeOf(d) = [ok |-> TRUE, n |-> k]
    BY <1>4, <1>6, <2>1, <2>2 DEF OutcomeOf
  <2>4. /\ Stages[u] = "open" /\ Stages' = [Stages EXCEPT ![u] = "answered"]
        /\ AskedFor[u] = Asked(c) /\ AskedFor' = [AskedFor EXCEPT ![u] = AskedOf(c)]
        /\ Outcomes' = [Outcomes EXCEPT ![u] = [ok |-> TRUE, n |-> k]]
    <3>1. Stages[u] = "open" /\ AskedFor[u] = Asked(c)
      BY <2>1, ViewOf DEF c
    <3>2. Stages' = [Stages EXCEPT ![u] = "answered"]
      BY <1>1, <1>5, <2>1, StageChanges
    <3>3. AskedFor' = [AskedFor EXCEPT ![u] = AskedOf(c)]
      BY <1>1, <1>5, <2>1, AskedChanges
    <3>4. Outcomes' = [Outcomes EXCEPT ![u] = [ok |-> TRUE, n |-> k]]
      BY <1>1, <1>5, <2>3, OutcomeChanges
    <3>5. QED
      BY <3>1, <3>2, <3>3, <3>4
  <2>5. AskedFor' = AskedFor
    BY <2>4, Views DEF AsSeen, c
  <2>6. k \in Accepted(Asked(c), Len(file))
    <3>1. Asked(c) \in Nat /\ Want(c) <= Asked(c) /\ (Want(c) = 0 <=> Asked(c) = 0)
      BY <1>1, <1>3, <1>6, AppendWants
    <3>2. QED
      BY <1>3, <1>6, <3>1 DEF Accepted
  <2>7. file' = Splice(file, Len(file), u, k)
    BY <1>2, <1>3, <1>6
  <2>8. Promise!AppendBytes(u)
    BY <2>4, <2>5, <2>6, <2>7, PromiseSteps
  <2>9. QED
    BY <2>8 DEF Promise!Next
<1>7. CASE c.op \notin Appends
  <2>1. Stages' = Stages /\ AskedFor' = AskedFor /\ Outcomes' = Outcomes
    BY <1>1, <1>4, <1>5, <1>7, Quiet, ViewsKept DEF c
  <2>2. CASE k = 0
    BY <1>2, <2>1, <2>2 DEF Unseen, Splice
  <2>3. CASE k # 0
    <3>1. k \in 0 .. MaxLen /\ at \in 0 .. MaxLen /\ k \in Accepted(k, at)
      BY <1>3, <2>3, MaxLenAssumption DEF Accepted
    <3>2. Promise!WriteAtOffset(u)
      BY <1>2, <2>1, <3>1, PromiseSteps
    <3>3. QED
      BY <3>2 DEF Promise!Next
  <2>4. QED
    BY <2>2, <2>3
<1>8. QED
  BY <1>6, <1>7


\* The original handle has one position, so its steps are the promise's own.
LEMMA HandleStepPromise ==
  ASSUME WInv, WritesAnywhere, NEW u \in Users, HandleSeek(u) \/ HandleWrite(u)
  PROVE  Promise!Next
<1>1. /\ "flags" \notin setup.does /\ "WRITE" \in setup.access /\ setup.kind = "windows"
      /\ call' = call /\ handle' = handle
  BY DEF WritesAnywhere, HandleSeek, HandleWrite, OnHandle
<1>2. /\ object[handle[u]].access = setup.access
      /\ \A v \in Users : handle[v] = handle[u] /\ handle[v] \in Objects
  BY <1>1, Referred DEF WInv, OneHandle
<1>3. (CHOOSE v \in Users : TRUE) \in Users
  OBVIOUS
<1>4. HandlePos = object[handle[u]].pos /\ HandlePos' = object'[handle[u]].pos
  BY <1>1, <1>2, <1>3 DEF HandlePos
<1>5. Stages' = Stages /\ AskedFor' = AskedFor /\ Outcomes' = Outcomes
  BY <1>1 DEF Stages, AskedFor, Outcomes, Stage, Active, Asked
<1>6. CASE HandleSeek(u)
  <2>1. PICK p \in Offsets : object' = [object EXCEPT ![handle[u]].pos = p]
    BY <1>6 DEF HandleSeek
  <2>2. object'[handle[u]].pos = p
    BY <2>1, <1>2 DEF WInv, HInv, HType, AllObjects, IsObject
  <2>3. HandlePos' \in Offsets /\ file' = file
    BY <1>4, <1>6, <2>2 DEF HandleSeek
  <2>4. Promise!Reposition
    BY <1>5, <2>3 DEF Promise!Reposition, Stages, AskedFor, Outcomes
  <2>5. QED
    BY <2>4 DEF Promise!Next
<1>7. CASE HandleWrite(u)
  <2> DEFINE at == HandlePos
  <2>1. /\ at \in Nat /\ 1 \in Accepted(1, at) /\ file' = Splice(file, at, u, 1)
        /\ object' = [object EXCEPT ![handle[u]].pos = at + 1]
    BY <1>1, <1>2, <1>4, <1>7, HandleWriteFacts
  <2>2. object'[handle[u]].pos = at + 1
    BY <2>1, <1>2 DEF WInv, HInv, HType, AllObjects, IsObject
  <2>3. HandlePos' = at + 1
    BY <1>4, <2>2
  <2> HIDE DEF at
  <2>4. 1 \in 0 .. MaxLen
    BY <2>1, MaxLenAssumption DEF Accepted
  <2>5. Promise!WriteOffset({}, at, file) = at /\ Promise!PosAfter(at, at, 1) = at + 1
    BY DEF Promise!WriteOffset, Promise!PosAfter
  <2>6. \E n \in 0 .. MaxLen \cup {Asked([NoCall EXCEPT !.ends = s]) : s \in Layouts} :
          LET a == Promise!WriteOffset({}, at, file) IN
          \E k \in Promise!Accepted(n, a) :
            /\ file' = Promise!Splice(file, a, u, k)
            /\ HandlePos' = Promise!PosAfter(at, a, k)
    BY <2>1, <2>3, <2>4, <2>5, SameKernel
  <2>7. Promise!WriteAtPosition(u)
    BY <1>5, <2>6 DEF Promise!WriteAtPosition, Stages, AskedFor, Outcomes, at
  <2>8. QED
    BY <2>7 DEF Promise!Next
<1>8. QED
  BY <1>6, <1>7

\* Every step of the model is a step of the promise, or is not seen.
LEMMA StepPromise ==
  ASSUME WInv, WritesAnywhere, [Next]_vars
  PROVE  Promise!Next \/ UNCHANGED Promise!vars
<1>1. "flags" \notin setup.does /\ setup.kind = "windows"
  <2>1. setup \in Setups
    BY DEF WInv, HInv, HType
  <2>2. QED
    BY <2>1, WindowsFileAssumption DEF WritesAnywhere
<1>2. handle' = handle /\ object' = object => HandlePos' = HandlePos
  BY DEF HandlePos
<1>3. call' = call => Stages' = Stages /\ AskedFor' = AskedFor /\ Outcomes' = Outcomes
  BY DEF Stages, AskedFor, Outcomes, Stage, Active, Asked
<1>4. ASSUME NEW u \in Users, MoveCall(u) PROVE Promise!Next \/ Unseen
  <2>1. HandlePos' = HandlePos
    BY <1>2, <1>4 DEF MoveCall, Begin, Reopen, SeekReopened, ReadFile, WriteFile, Fails, Return,
       handleVars
  <2>2. QED
    BY <1>4, <2>1, BeginPromise, ReopenPromise, FailsPromise, ReturnPromise, ReadPromise,
       WritePromise DEF MoveCall
<1>5. ASSUME NEW u \in Users, HandleSeek(u) \/ HandleWrite(u) PROVE Promise!Next
  BY <1>5, HandleStepPromise
<1>6. ASSUME NEW u \in Users, FlagsCall(u) PROVE FALSE
  BY <1>1, <1>6 DEF FlagsCall, NewSetFdFlagsPosix, SetFdFlagsPosix, NewSetFdFlagsWindows,
     SetFdFlagsWindows, DropToken, MayAskFlags, WInv, OneHandle
<1>7. ASSUME NEW u \in Users, SocketCall(u), UNCHANGED <<file, call>> PROVE Unseen
  <2>1. handle' = handle /\ object' = object
    BY <1>1, <1>7 DEF SocketCall, Shutdown, SendProbe, RecvProbe, ProbeAnswers
  <2>2. QED
    BY <1>2, <1>3, <1>7, <2>1 DEF Unseen
<1>8. CASE ResizeElsewhere
  <2>1. UNCHANGED <<handle, object, call>> /\ \E n \in 0 .. MaxLen : file' = Resize(file, n)
    BY <1>8 DEF ResizeElsewhere, handleVars
  <2>2. Promise!ResizeElsewhere
    BY <1>2, <1>3, <2>1, SameKernel DEF Promise!ResizeElsewhere, Stages, AskedFor, Outcomes
  <2>3. QED
    BY <2>2 DEF Promise!Next
<1>9. CASE UNCHANGED vars
  BY <1>2, <1>3, <1>9, UnseenStutters DEF vars, handleVars, Unseen
<1>10. QED
  BY <1>4, <1>5, <1>6, <1>7, <1>8, <1>9, UnseenStutters DEF Next, MoveCall

\* Append and append_vectored, which reopen the file and then write, keep the
\* promise they keep on POSIX, for every number of users, every layout of the
\* buffers and every file (file_io_ext.rs:253, 703-707, 746-756, 1035-1037).
THEOREM AppendKeepsPromise == Spec => KeepsPromise
<1>1. WInv /\ [Next]_vars =>
        [WritesAnywhere => Promise!Next \/ UNCHANGED Promise!vars]_vars
  BY StepPromise
<1>2. Init => (WritesAnywhere => Promise!Init)
  BY InitPromise
<1>3. QED
  BY <1>1, <1>2, WInductive, PTL DEF Spec, KeepsPromise

==============================================================================
