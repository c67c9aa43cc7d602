------------------------- MODULE MCVectoredTransfer -------------------------
(* Small instances of VectoredTransfer for TLC. *)
EXTENDS VectoredTransfer

CONSTANT MCTotal   \* at most so many bytes in the buffers

\* All ways to cut at most MCTotal bytes into N buffers, empty ones included.
MCLayouts == {e \in [0 .. N -> 0 .. MCTotal] :
                e[0] = 0 /\ \A i \in 1 .. N : e[i - 1] <= e[i]}

=============================================================================
