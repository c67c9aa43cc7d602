---------------------------- MODULE MCFdAppend ----------------------------
(* Small instances of FdAppend for TLC. *)
EXTENDS FdAppend, TLC

MCSymmetry == Permutations(Users)

\* The kernels and the calling disciplines under which append is atomic; the
\* fallback on Linux, where the append-only attribute counts, of users who
\* interleave their calls, and of these or users who take turns.
MCDisciplined == {<<"works", FALSE>>, <<"refused", TRUE>>, <<"absent", TRUE>>}
MCUndisciplined == {<<"refused", FALSE>>}
MCEither == {<<"refused", TRUE>>, <<"refused", FALSE>>}

MCFiles == {<<>>, <<Old, Old>>}
MCOneByte == {<<Old>>}
MCOpenFlags == {{}, {"APPEND"}, {"NONBLOCK", "DIRECT", "DSYNC"}}
MCAppendFlags == {{"APPEND", "DSYNC"}}
MCPlainFlags == {{"DIRECT", "DSYNC"}}
MCNone == {}
MCSetAny == {{}, {"APPEND"}, {"NONBLOCK"}, {"APPEND", "SYNC"}}
MCSetAppend == {{"APPEND"}, {"APPEND", "NONBLOCK"}, {"SYNC"}}

=============================================================================
