--------------------------- MODULE MCWindowsFile ---------------------------
(* Small instances of WindowsFile for TLC. *)
EXTENDS WindowsFile, TLC

MCSymmetry == Permutations(Objects)

As(kind, access, flags, does) == [kind |-> kind, access |-> access, flags |-> flags, does |-> does]

\* The flags calls on both platforms and the probes of a socket; then the
\* positioned calls on a Windows file opened to read and write, or to append.
MCSetups ==
  {As("posix", {"READ", "WRITE"}, f, {"flags"}) :
     f \in {{}, {"NONBLOCK", "DIRECT", "DSYNC"}, {"APPEND"}}}
  \cup {As("windows", a, f, {"flags"}) :
     a \in {Rights, {"READ"}, {"READ", "APPEND"}}, f \in {{}, {"DSYNC"}}}
  \cup {As("socket", {"READ", "WRITE"}, {}, {})}
  \cup {As("windows", a, {}, {"io"}) : a \in {Rights, {"READ", "APPEND"}}}

\* Both kinds of call on one handle.
MCSyncSetups == {As("windows", Rights, {}, {"flags", "io"})}

MCFiles == {<<>>, <<Old, Old>>}
MCOneByte == {<<Old>>}
MCLayouts == {<<>>, <<0>>, <<1>>, <<2>>, <<1, 2>>, <<0, 1>>, <<1, 1>>, <<2, 3>>}
MCOneSlice == {<<1>>}
MCRequests == {{}, {"APPEND"}, {"DSYNC"}, {"APPEND", "NONBLOCK"}}

=============================================================================
