----------------------------- MODULE MCReaders -----------------------------
(* Small instances of Readers for TLC. *)
EXTENDS Readers

\* Readers of one part, and adaptors over the last part of t; the parts of two
\* come after those of one.
Slice == <<[kind |-> "slice", data |-> <<21, 22>>]>>
Cursor(p) == <<[kind |-> "cursor", data |-> <<31, 32>>, pos |-> p]>>
Leaf(kind) == <<[kind |-> kind]>>
File(readable) == <<[kind |-> "file", readable |-> readable]>>
Buf(cap, t) == Append(t, [kind |-> "buf", cap |-> cap, buffer |-> <<>>, inner |-> Len(t)])
Take(limit, t) == Append(t, [kind |-> "take", limit |-> limit, inner |-> Len(t)])
Shift(r, k) ==
  CASE r.kind \in Adaptors -> [r EXCEPT !.inner = @ + k]
    [] r.kind = "chain" -> [r EXCEPT !.first = @ + k, !.second = @ + k]
    [] OTHER -> r
Chain(one, two) ==
  one \o [n \in 1 .. Len(two) |-> Shift(two[n], Len(one))]
      \o <<[kind |-> "chain", first |-> Len(one), second |-> Len(one) + Len(two),
            done_first |-> FALSE]>>

Stdin ==
  Append(Leaf("pipe"), [kind |-> "stdin", cap |-> 2, buffer |-> <<>>, inner |-> 1])
Socket == Buf(2, Leaf("socket"))

MCTrees ==
  {Slice, Cursor(1), Cursor(3), Leaf("empty"), Leaf("repeat"), Leaf("socket"),
   Leaf("pipe"), Leaf("windows_pipe"), Buf(2, Leaf("windows_pipe")), Stdin,
   File(TRUE), File(FALSE), Socket, Buf(2, Leaf("pipe")),
   Buf(2, File(TRUE)), Buf(2, Leaf("repeat")), Take(1, Slice), Take(3, Socket),
   Buf(2, Take(3, Leaf("socket"))),
   Chain(Slice, Socket), Chain(Socket, Slice), Chain(Leaf("empty"), Socket),
   Chain(Cursor(3), Socket), Chain(Buf(2, File(TRUE)), Socket),
   Chain(Take(1, Cursor(0)), Socket), Take(3, Chain(Slice, Socket))}

MCFiles == {<< <<11, 12>>, 0>>, << <<11, 12>>, 3>>}
MCPositioned == {Cursor(1), File(TRUE)}

=============================================================================
