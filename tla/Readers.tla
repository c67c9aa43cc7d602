------------------------------ MODULE Readers ------------------------------
(***************************************************************************)
(* Peek (src/io/peek.rs), IoExt::peek (src/io/io_ext.rs) and ReadReady     *)
(* (src/io/read_ready.rs) on the readers of std: slices, Cursor, Empty,    *)
(* Repeat, sockets, pipes, files and stdin, and BufReader, Take and Chain  *)
(* over them.  A user calls read, peek and num_ready_bytes in any order    *)
(* while a peer sends bytes and other users of a file move and change it.  *)
(*                                                                         *)
(* A reader is the sequence of the readers it is made of; an adaptor names *)
(* those inside it by their numbers, and the last is the user's.  How std  *)
(* reads and buffers is external; the module is about what the crate says  *)
(* about the next read.                                                    *)
(***************************************************************************)
EXTENDS Integers, Sequences

CONSTANTS
  Trees,      (* the readers a user may hold                              *)
  Files,      (* <<content, position>> of the file behind them            *)
  MaxArrived, (* bytes the peer may send; bounds a model                  *)
  MaxLen,     (* size limit of the file; bounds a model                   *)
  Sizes,      (* lengths of the buffers passed to read and peek           *)
  U64Max      (* the largest count                                        *)

Streams == {"socket", "pipe", "windows_pipe"}
Buffered == {"buf", "stdin"}
Adaptors == Buffered \cup {"take"}
Zero == 0       \* the byte Repeat repeats
Added == 100    \* a byte others append to the file

\* An adaptor holds the numbers of the readers inside it.  A BufReader of
\* capacity 0, which reads nothing, is left out.
Node ==
  [kind : {"slice"}, data : Seq(Nat)]
    \cup [kind : {"cursor"}, data : Seq(Nat), pos : Nat]
    \cup [kind : {"empty", "repeat"} \cup Streams]
    \cup [kind : {"file"}, readable : BOOLEAN]
    \cup [kind : Buffered, cap : Nat \ {0}, buffer : Seq(Nat), inner : Nat]
    \cup [kind : {"take"}, limit : Nat, inner : Nat]
    \cup [kind : {"chain"}, first : Nat, second : Nat, done_first : BOOLEAN]

Inside(r) ==
  CASE r.kind \in Adaptors -> {r.inner}
    [] r.kind = "chain" -> {r.first, r.second}
    [] OTHER -> {}

\* Readers come after those inside them; Stdin reads a pipe.
Readers ==
  {t \in Seq(Node) : \A n \in DOMAIN t :
     /\ Inside(t[n]) \subseteq 1 .. n - 1
     /\ t[n].kind = "stdin" => t[t[n].inner].kind = "pipe"}

\* stream: bytes the kernel holds for the socket or pipe; closed: the peer has
\* hung up; file, pos: the open file.
Kernel == [stream : Seq(Nat), closed : BOOLEAN, file : Seq(Nat), pos : Nat]

\* The most a reader adds to the count of those inside it.
Most(r) ==
  CASE r.kind \in {"slice", "cursor"} -> Len(r.data)
    [] r.kind \in Streams -> MaxArrived
    [] r.kind = "file" -> MaxLen
    [] r.kind \in Buffered -> r.cap
    [] r.kind = "empty" -> 1
    [] OTHER -> 0

\* What all of them hold fits a u64; at first no buffer holds anything.
ASSUME ReadersAssumption ==
  /\ U64Max \in Nat /\ MaxArrived \in Nat /\ MaxLen \in Nat
  /\ Sizes \subseteq Nat \ {0}
  /\ \A f \in Files : f[1] \in Seq(Nat) /\ Len(f[1]) <= MaxLen /\ f[2] \in Nat
  /\ \A t \in Trees :
       /\ t \in Readers /\ t # <<>>
       /\ \A n \in DOMAIN t : t[n].kind \in Buffered => t[n].buffer = <<>>
       /\ \E m \in 0 .. U64Max : Len(t) * m <= U64Max /\ \A n \in DOMAIN t : Most(t[n]) <= m

VARIABLES
  reader,     (* the reader, with what its adaptors have buffered         *)
  world,      (* the kernel, a Kernel                                     *)
  arrived,    (* bytes the peer has sent                                  *)
  pc,         (* "idle", "stat", "seek" (inside a call on a file),        *)
              (* "blocked" (a read waits for the peer) or "panicked"      *)
  want,       (* length of the buffer of the peek in progress             *)
  saved,      (* what its fstat or lseek returned                         *)
  last,       (* the last answer the user got                             *)
  peeked,     (* bytes the last peek returned and no read has returned    *)
  promised,   (* bytes num_ready_bytes reported and no read has returned  *)
  disturbed   (* has another user used the file since the call began?     *)

ghosts == <<peeked, promised>>
vars == <<reader, world, arrived, pc, want, saved, last, peeked, promised, disturbed>>

Answer(what, how, out, n) == [what |-> what, how |-> how, out |-> out, n |-> n]

Init ==
  /\ reader \in Trees
  /\ \E f \in Files :
       world = [stream |-> <<>>, closed |-> FALSE, file |-> f[1], pos |-> f[2]]
  /\ arrived = 0 /\ pc = "idle" /\ want = 0 /\ saved = 0
  /\ last = Answer("none", "ok", <<>>, 0)
  /\ peeked = <<>> /\ promised = 0 /\ disturbed = FALSE

-----------------------------------------------------------------------------
(***************************************************************************)
(* std: Read::read and BufRead::fill_buf of the n-th reader of c.t for at  *)
(* most c.k bytes, when the kernel is in c.w.  The outcome says how the    *)
(* call ends ("ok", "blocks", "fails"), the bytes it returns, and the      *)
(* readers and the kernel after it.  self is the methods of all readers.   *)
(***************************************************************************)

Least(a, b) == IF a < b THEN a ELSE b
Prefix(s, k) == SubSeq(s, 1, Least(k, Len(s)))
Rest(s, k) == SubSeq(s, k + 1, Len(s))

Outcome(how, out, t, w) == [how |-> how, out |-> out, t |-> t, w |-> w]

FileBytes(w, at, k) == Prefix(Rest(w.file, at), k)

ReadLeaf(n, c) ==
  LET r == c.t[n]
      from_cursor == Prefix(Rest(r.data, r.pos), c.k)
      from_file == FileBytes(c.w, c.w.pos, c.k)
  IN CASE r.kind = "slice" ->
            Outcome("ok", Prefix(r.data, c.k), [c.t EXCEPT ![n].data = Rest(@, c.k)], c.w)
       [] r.kind = "cursor" ->
            Outcome("ok", from_cursor, [c.t EXCEPT ![n].pos = @ + Len(from_cursor)], c.w)
       [] r.kind = "empty" -> Outcome("ok", <<>>, c.t, c.w)
       [] r.kind = "repeat" -> Outcome("ok", [i \in 1 .. c.k |-> Zero], c.t, c.w)
       [] r.kind \in Streams ->
            IF c.w.stream = <<>> /\ ~c.w.closed
            THEN Outcome("blocks", <<>>, c.t, c.w)
            ELSE Outcome("ok", Prefix(c.w.stream, c.k), c.t, [c.w EXCEPT !.stream = Rest(@, c.k)])
       [] r.kind = "file" ->
            IF r.readable
            THEN Outcome("ok", from_file, c.t, [c.w EXCEPT !.pos = @ + Len(from_file)])
            ELSE Outcome("fails", <<>>, c.t, c.w)

\* A Chain goes to its second reader, for good, when its first is at its end:
\* one is the outcome at the first, two the one at the second after it.
Chained(n, one, two) ==
  IF one.how # "ok" \/ one.out # <<>> THEN one ELSE [two EXCEPT !.t[n].done_first = TRUE]

LeftFirst(c) == Outcome("ok", <<>>, c.t, c.w)
After(c, one) == [c EXCEPT !.t = one.t, !.w = one.w]

ReadChain(self, n, c) ==
  LET r == c.t[n]
      one == IF r.done_first THEN LeftFirst(c) ELSE self[r.first].read[c]
  IN Chained(n, one, self[r.second].read[After(c, one)])

FillChain(self, n, c) ==
  LET r == c.t[n]
      one == IF r.done_first THEN LeftFirst(c) ELSE self[r.first].fill_buf[c]
  IN Chained(n, one, self[r.second].fill_buf[After(c, one)])

FillReader(self, n, c) ==
  LET r == c.t[n]
      o == self[r.inner].read[[c EXCEPT !.k = r.cap]]
  IN IF r.buffer # <<>>
     THEN Outcome("ok", r.buffer, c.t, c.w)
     ELSE [o EXCEPT !.t[n].buffer = o.out]

\* A large read of an empty BufReader passes its buffer by.
ReadBuf(self, n, c) ==
  LET r == c.t[n]
      filled == FillReader(self, n, c)
  IN IF r.buffer = <<>> /\ c.k >= r.cap
     THEN self[r.inner].read[c]
     ELSE Outcome(filled.how, Prefix(filled.out, c.k),
                  [filled.t EXCEPT ![n].buffer = Rest(@, c.k)], filled.w)

ReadTake(self, n, c) ==
  LET r == c.t[n]
      o == self[r.inner].read[[c EXCEPT !.k = Least(@, r.limit)]]
  IN IF r.limit = 0
     THEN Outcome("ok", <<>>, c.t, c.w)
     ELSE [o EXCEPT !.t[n].limit = @ - Len(o.out)]

FillTake(self, n, c) ==
  LET r == c.t[n]
      o == self[r.inner].fill_buf[c]
  IN IF r.limit = 0
     THEN Outcome("ok", <<>>, c.t, c.w)
     ELSE [o EXCEPT !.out = Prefix(@, r.limit)]

ReadFrom(self, n, c) ==
  LET r == c.t[n]
  IN CASE r.kind \in Buffered -> ReadBuf(self, n, c)
       [] r.kind = "take" -> ReadTake(self, n, c)
       [] r.kind = "chain" -> ReadChain(self, n, c)
       [] OTHER -> ReadLeaf(n, c)

FillBuf(self, n, c) ==
  LET r == c.t[n]
  IN CASE r.kind = "slice" -> Outcome("ok", r.data, c.t, c.w)
       [] r.kind = "cursor" -> Outcome("ok", Rest(r.data, r.pos), c.t, c.w)
       [] r.kind = "empty" -> Outcome("ok", <<>>, c.t, c.w)
       [] r.kind \in Buffered -> FillReader(self, n, c)
       [] r.kind = "take" -> FillTake(self, n, c)
       [] r.kind = "chain" -> FillChain(self, n, c)

-----------------------------------------------------------------------------
(***************************************************************************)
(* ReadReady                                                               *)
(***************************************************************************)

Count(n) == [how |-> "ok", n |-> n]
Failure == [how |-> "fails", n |-> 0]
Panic == [how |-> "panics", n |-> 0]

\* u64 arithmetic out of range panics in a build with overflow checks and
\* wraps in one without.
U64(n) == IF n \in 0 .. U64Max THEN {Count(n)} ELSE {Panic, Count(n % (U64Max + 1))}

\* Mutant of Remaining: the operands are swapped.
MutantSwapped(len, at) == U64(at - len)

\* len() - position(), metadata.len() - current
Remaining(len, at) == U64(len - at)

\* Mutants of BufferedReady: the bytes in the buffer are forgotten, or the sum
\* is not one of u64.
MutantInnerOnly(r, o) == {o}
MutantWideSum(r, o) == IF o.how = "ok" THEN {Count(Len(r.buffer) + o.n)} ELSE {o}

\* What a BufReader makes of the answer o of its inner reader.
BufferedReady(r, o) ==
  CASE o.how = "ok" -> U64(Len(r.buffer) + o.n)
    [] o.how = "fails" /\ r.buffer # <<>> -> {Count(Len(r.buffer))}
    [] OTHER -> {o}

\* Mutant of LimitedReady: the limit alone.
MutantLimitOnly(r, o) == {Count(r.limit)}

LimitedReady(r, o) == IF o.how = "ok" THEN {Count(Least(r.limit, o.n))} ELSE {o}

\* FIONREAD counts what the kernel holds; a socket passes an error on.
SocketReady(w) == {Count(Len(w.stream)), Failure}

\* Stdin and StdinLock have a buffer of std's in front, which is not counted.
StdinReady(w) == SocketReady(w)

\* A pipe on Windows is not asked.
WindowsPipeReady == {Count(0)}

\* A File over a pipe says 0 when FIONREAD fails.
StreamReady(r, w) ==
  CASE r.kind = "socket" -> SocketReady(w)
    [] r.kind = "pipe" -> {Count(Len(w.stream)), Count(0)}
    [] r.kind = "windows_pipe" -> WindowsPipeReady

\* The answers num_ready_bytes may give when fstat said the file has c.k bytes;
\* any of the calls on a file may fail.
NumReady(self, n, c) ==
  LET r == c.t[n]
  IN CASE r.kind = "slice" -> {Count(Len(r.data))}
       [] r.kind = "cursor" -> Remaining(Len(r.data), r.pos)
       [] r.kind = "empty" -> {Count(1)}
       [] r.kind = "repeat" -> {Count(U64Max)}
       [] r.kind \in Streams -> StreamReady(r, c.w)
       [] r.kind = "stdin" -> StdinReady(c.w)
       [] r.kind = "file" -> {Failure} \cup (IF r.readable THEN Remaining(c.k, c.w.pos) ELSE {})
       [] r.kind = "buf" -> UNION {BufferedReady(r, o) : o \in self[r.inner].num_ready_bytes[c]}
       [] r.kind = "take" -> UNION {LimitedReady(r, o) : o \in self[r.inner].num_ready_bytes[c]}
       [] r.kind = "chain" -> self[r.first].num_ready_bytes[c]

\* The readers whose num_ready_bytes that of the n-th calls.
AskedBy(self, n, t) ==
  {n} \cup (CASE t[n].kind \in {"buf", "take"} -> self[t[n].inner].asked[t]
              [] t[n].kind = "chain" -> self[t[n].first].asked[t]
              [] OTHER -> {})

Having(n) == {t \in Readers : n \in DOMAIN t}
Calls(n) == [k : Nat, t : Having(n), w : Kernel]

\* The methods of the n-th reader.
Methods[n \in Nat] ==
  [read |-> [c \in Calls(n) |-> ReadFrom(Methods, n, c)],
   fill_buf |-> [c \in Calls(n) |-> FillBuf(Methods, n, c)],
   num_ready_bytes |-> [c \in Calls(n) |-> NumReady(Methods, n, c)],
   asked |-> [t \in Having(n) |-> AskedBy(Methods, n, t)]]

Call(k) == [k |-> k, t |-> reader, w |-> world]
Own == Methods[Len(reader)]     \* the methods of the user's reader
Asked == Own.asked[reader]

AsksFile == \E n \in Asked : reader[n].kind = "file" /\ reader[n].readable

\* A Chain that has left its first reader behind still asks it.
AsksLeft == \E n \in Asked : reader[n].kind = "chain" /\ reader[n].done_first

\* Until the end of the file or the stream is where the promise said, the
\* number reported is what reads may still return without waiting.
Ready ==
  \E o \in Own.num_ready_bytes[Call(saved)] :
    /\ last' = Answer("ready", o.how, <<>>, o.n)
    /\ pc' = IF o.how = "panics" THEN "panicked" ELSE "idle"
    /\ promised' = IF disturbed \/ AsksLeft THEN 0 ELSE o.n
    /\ UNCHANGED <<reader, world, arrived, want, saved, peeked, disturbed>>

NumReadyBytes == pc = "idle" /\ ~AsksFile /\ Ready

\* On a file: fstat, and then lseek and the subtraction.
StatFile ==
  /\ pc = "idle" /\ AsksFile
  /\ pc' = "stat" /\ saved' = Len(world.file) /\ disturbed' = FALSE
  /\ UNCHANGED <<reader, world, arrived, want, last, ghosts>>

ReadyOfFile == pc = "stat" /\ Ready

-----------------------------------------------------------------------------
(***************************************************************************)
(* Peek, and read                                                          *)
(***************************************************************************)

\* Those whose peek is peek_from_bufread: every reader it would fill from is a
\* BufRead.
IsBufRead ==
  \E s \in SUBSET DOMAIN reader :
    /\ Len(reader) \in s
    /\ \A n \in s :
         \/ reader[n].kind \in {"slice", "cursor", "empty"} \cup Buffered
         \/ reader[n].kind \in {"take", "chain"} /\ Inside(reader[n]) \subseteq s

\* The kind of the user's reader.
Kind == reader[Len(reader)].kind

\* The user gets o from a peek, or waits.
PeekAnswers(o) ==
  /\ reader' = o.t /\ world' = o.w
  /\ pc' = IF o.how = "blocks" THEN "blocked" ELSE "idle"
  /\ last' = IF o.how = "blocks" THEN last ELSE Answer("peek", o.how, o.out, Len(o.out))
  /\ peeked' = IF o.how = "ok" THEN o.out ELSE peeked
  /\ UNCHANGED <<arrived, want, saved, promised, disturbed>>

\* Mutant of PeekBufRead: the bytes are consumed.
MutantConsume ==
  /\ pc = "idle" /\ IsBufRead
  /\ \E k \in Sizes : PeekAnswers(Own.read[Call(k)])

\* peek_from_bufread: fill_buf, and no consume.
PeekBufRead ==
  /\ pc = "idle" /\ IsBufRead
  /\ \E k \in Sizes :
       LET o == Own.fill_buf[Call(k)] IN PeekAnswers([o EXCEPT !.out = Prefix(@, k)])

\* Repeat reads; a socket peeks with MSG_PEEK.
PeekDirect ==
  /\ pc = "idle" /\ Kind \in {"repeat", "socket"}
  /\ \E k \in Sizes :
       LET o == Own.read[Call(k)] IN PeekAnswers([o EXCEPT !.w = world])

\* IoExt::peek on a pipe: ENOTSOCK, then ESPIPE, which becomes Ok(0).
PeekPipe ==
  /\ pc = "idle" /\ Kind = "pipe"
  /\ PeekAnswers(Outcome("ok", <<>>, reader, world))

\* PeekNamedPipe does not wait: it answers Ok(0) while there is no byte, and
\* fails once the pipe is broken.
PeekNamedPipe ==
  /\ pc = "idle" /\ Kind = "windows_pipe"
  /\ \E k \in Sizes :
       PeekAnswers(IF world.stream = <<>> /\ world.closed
                   THEN Outcome("fails", <<>>, reader, world)
                   ELSE Outcome("ok", Prefix(world.stream, k), reader, world))

\* On a file: lseek, and then a read at the offset it returned.
SeekToPeek ==
  /\ pc = "idle" /\ Kind = "file"
  /\ pc' = "seek" /\ saved' = world.pos /\ want' \in Sizes /\ disturbed' = FALSE
  /\ UNCHANGED <<reader, world, arrived, last, ghosts>>

PeekFile ==
  /\ pc = "seek" /\ pc' = "idle"
  /\ \/ /\ reader[Len(reader)].readable
        /\ LET out == FileBytes(world, saved, want)
           IN /\ last' = Answer("peek", "ok", out, Len(out))
              /\ peeked' = IF disturbed THEN <<>> ELSE out
     \/ last' = Answer("peek", "fails", <<>>, 0) /\ UNCHANGED peeked
  /\ UNCHANGED <<reader, world, arrived, want, saved, promised, disturbed>>

Read ==
  /\ pc = "idle"
  /\ \E k \in Sizes : LET o == Own.read[Call(k)] IN
       /\ reader' = o.t /\ world' = o.w
       /\ IF o.how = "blocks"
          THEN pc' = "blocked" /\ UNCHANGED <<last, ghosts>>
          ELSE /\ last' = Answer("read", o.how, o.out, Len(o.out))
               /\ peeked' = Rest(peeked, Len(o.out))
               /\ promised' = IF o.how # "ok" \/ o.out = <<>> \/ promised < Len(o.out)
                              THEN 0 ELSE promised - Len(o.out)
               /\ UNCHANGED pc
  /\ UNCHANGED <<arrived, want, saved, disturbed>>

\* A call that waited goes on, as if made again.
Wake ==
  /\ pc = "blocked" /\ (world.stream # <<>> \/ world.closed)
  /\ pc' = "idle"
  /\ UNCHANGED <<reader, world, arrived, want, saved, last, ghosts, disturbed>>

-----------------------------------------------------------------------------
(***************************************************************************)
(* The peer, and the other users of the file                               *)
(***************************************************************************)

\* Is anybody else of concern to the user's reader?
Over(kinds) == \E n \in DOMAIN reader : reader[n].kind \in kinds

Send ==
  /\ Over(Streams) /\ arrived < MaxArrived /\ ~world.closed
  /\ arrived' = arrived + 1
  /\ world' = [world EXCEPT !.stream = Append(@, arrived + 1)]
  /\ UNCHANGED <<reader, pc, want, saved, last, ghosts, disturbed>>

HangUp ==
  /\ Over(Streams) /\ ~world.closed
  /\ world' = [world EXCEPT !.closed = TRUE]
  /\ UNCHANGED <<reader, arrived, pc, want, saved, last, ghosts, disturbed>>

\* They void what a promise said, and a peek that went to the file itself;
\* what a BufReader holds stays.
Disturb(w) ==
  /\ Over({"file"})
  /\ world' = w /\ disturbed' = TRUE /\ promised' = 0
  /\ peeked' = IF Kind = "file" THEN <<>> ELSE peeked
  /\ UNCHANGED <<reader, arrived, pc, want, saved, last>>

SeekElsewhere == \E p \in 0 .. MaxLen : Disturb([world EXCEPT !.pos = p])

ResizeElsewhere ==
  \/ Len(world.file) < MaxLen /\ Disturb([world EXCEPT !.file = Append(@, Added)])
  \/ world.file # <<>> /\ Disturb([world EXCEPT !.file = SubSeq(@, 1, Len(@) - 1)])

User ==
  \/ NumReadyBytes \/ StatFile \/ ReadyOfFile
  \/ PeekBufRead \/ PeekDirect \/ PeekPipe \/ PeekNamedPipe
  \/ SeekToPeek \/ PeekFile
  \/ Read \/ Wake

Others ==
  /\ pc # "panicked"
  /\ Send \/ HangUp \/ SeekElsewhere \/ ResizeElsewhere

Next == User \/ Others

Spec == Init /\ [][Next]_vars

-----------------------------------------------------------------------------
(***************************************************************************)
(* Properties                                                              *)
(***************************************************************************)

\* Every variable has its type; no adaptor buffers more than its capacity.
TypeOK ==
  /\ reader \in Readers /\ reader # <<>>
  /\ \A n \in DOMAIN reader :
       reader[n].kind \in Buffered => Len(reader[n].buffer) <= reader[n].cap
  /\ world \in Kernel /\ Len(world.file) <= MaxLen
  /\ arrived \in Len(world.stream) .. MaxArrived
  /\ pc \in {"idle", "stat", "seek", "blocked", "panicked"}
  /\ promised \in 0 .. U64Max /\ saved \in Nat /\ disturbed \in BOOLEAN

\* Readers whose count exceeds what they hold: Empty, and a Cursor or a file
\* beyond its end.
Overstates(r, w) ==
  \/ r.kind = "empty"
  \/ r.kind = "cursor" /\ r.pos > Len(r.data)
  \/ r.kind = "file" /\ w.pos > Len(w.file)

\* Does a Chain that n asks ask a first reader that overstates?
ChainOverstates(n, t, w) ==
  \E i \in Methods[n].asked[t] :
    /\ t[i].kind = "chain"
    /\ \E j \in Methods[t[i].first].asked[t] : Overstates(t[j], w)

\* Bytes reported as ready can be read without waiting, through every adaptor
\* and after every mix of peeks and reads, until they are read or the end is
\* reached; except when a Chain that had left its first reader behind asked it
\* (no byte counts as promised then), or its first reader overstates
\* (read_ready.rs:180-236).
ReadyDoesNotBlock ==
  pc = "blocked" /\ promised > 0 => ChainOverstates(Len(reader), reader, world)

\* "Reads data from a stream without consuming it; subsequent reads will
\* re-read the data": the next bytes read are those peeked, whatever came on
\* the stream since, and for a bare file unless another user touched it
\* (peek.rs:21-26, 30-36, 162-167, io_ext.rs:237-252).
PeekIsReread ==
  [][Read /\ peeked # <<>>
       => /\ pc' = "idle" /\ last'.how = "ok" /\ last'.out # <<>>
          /\ LET k == Least(Len(peeked), Len(last'.out))
             IN Prefix(peeked, k) = Prefix(last'.out, k)]_vars

\* Bytes that a peek returned and no read has taken are reported as ready, in
\* whatever buffer they are; but a Chain asks only its first reader, StdinLock
\* only the kernel, a pipe on Windows always says 0, and the count of Repeat,
\* or of what overstates, may wrap when a BufReader adds its own
\* (read_ready.rs:46-52, 180-236, 299-320).
PeekedIsReady ==
  [][(NumReadyBytes \/ ReadyOfFile) /\ last'.how = "ok" /\ ~disturbed
     /\ (\A n \in Asked : /\ reader[n].kind \notin {"chain", "repeat", "stdin", "windows_pipe"}
                        /\ ~Overstates(reader[n], world))
       => last'.n >= Len(peeked)]_vars

\* num_ready_bytes panics only for a Cursor or a file beyond its end, a file
\* another user moved or changed during the call, and a BufReader over Repeat
\* (read_ready.rs:78, 195-201, 209).
PanicIsOverrun ==
  pc = "panicked" =>
    \/ disturbed
    \/ \E n \in Asked : reader[n].kind = "repeat" \/ Overstates(reader[n], world)

\* "Return the number of bytes which are ready to be read immediately"
\* (read_ready.rs:18): the call reports a number or an error.
NeverPanics == pc # "panicked"

=============================================================================
