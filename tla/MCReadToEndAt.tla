---------------------------- MODULE MCReadToEndAt ----------------------------
(* Small instances of ReadToEndAt for TLC. *)
EXTENDS ReadToEndAt

MCFiles == UNION {[1 .. n -> Byte] : n \in 0 .. MaxLen}
MCAnything == {{"append"}, {"append", "truncate", "overwrite"}}
MCNothing == {{}}
MCBufs == {<<>>, <<"lead", "cont">>}

=============================================================================
