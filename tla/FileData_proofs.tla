--------------------------- MODULE FileData_proofs ---------------------------
(***************************************************************************)
(* What the writes and truncations of FileData do to a file, for every     *)
(* file, offset and count.                                                 *)
(***************************************************************************)
EXTENDS FileData, TLAPS

\* A write yields a file: as long as the longer of the old file and the end
\* of the write.
LEMMA SpliceType ==
  ASSUME NEW f \in Seq(Byte), NEW at \in Nat, NEW k \in Nat, NEW u \in Users
  PROVE  /\ Splice(f, at, u, k) \in Seq(Byte)
         /\ Len(Splice(f, at, u, k)) =
              IF k = 0 THEN Len(f)
              ELSE IF Len(f) > at + k THEN Len(f) ELSE at + k
<1>1. CASE k = 0
  BY <1>1 DEF Splice
<1>2. CASE k # 0
  <2> DEFINE n == IF Len(f) > at + k THEN Len(f) ELSE at + k
             b(i) == IF i > at /\ i <= at + k THEN u
                     ELSE IF i <= Len(f) THEN f[i] ELSE Hole
  <2>1. n \in Nat
    OBVIOUS
  <2>2. \A i \in 1 .. n : b(i) \in Byte
    BY DEF Byte
  <2>3. Splice(f, at, u, k) = [i \in 1 .. n |-> b(i)]
    BY <1>2 DEF Splice
  <2> HIDE DEF n, b
  <2>4. [i \in 1 .. n |-> b(i)] \in Seq(Byte) /\ Len([i \in 1 .. n |-> b(i)]) = n
    BY <2>1, <2>2
  <2>5. QED
    BY <1>2, <2>3, <2>4 DEF n
<1>3. QED
  BY <1>1, <1>2

\* A write within the limit keeps the file within the limit.
LEMMA SpliceWithinLimit ==
  ASSUME NEW f \in Seq(Byte), NEW at \in Nat, NEW n \in Nat, NEW u \in Users,
         NEW k \in Accepted(n, at), Len(f) <= MaxLen
  PROVE  /\ k \in Nat
         /\ Splice(f, at, u, k) \in Seq(Byte)
         /\ Len(Splice(f, at, u, k)) <= MaxLen
<1>1. k \in Nat /\ at + k <= MaxLen
  BY DEF Accepted
<1> DEFINE g == Splice(f, at, u, k)
<1>2. g \in Seq(Byte) /\ Len(g) = IF k = 0 THEN Len(f)
                                  ELSE IF Len(f) > at + k THEN Len(f) ELSE at + k
  BY <1>1, SpliceType
<1> HIDE DEF g
<1>3. Len(g) <= MaxLen
  BY <1>1, <1>2
<1>4. QED
  BY <1>1, <1>2, <1>3 DEF g

\* ftruncate yields a file of the length asked for.
LEMMA ResizeType ==
  ASSUME NEW f \in Seq(Byte), NEW n \in Nat
  PROVE  Resize(f, n) \in Seq(Byte) /\ Len(Resize(f, n)) = n
<1> DEFINE b(i) == IF i <= Len(f) THEN f[i] ELSE Hole
<1>1. \A i \in 1 .. n : b(i) \in Byte
  BY DEF Byte
<1>2. Resize(f, n) = [i \in 1 .. n |-> b(i)]
  BY DEF Resize
<1> HIDE DEF b
<1>3. QED
  BY <1>1, <1>2

==============================================================================
