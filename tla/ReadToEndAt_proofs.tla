-------------------------- MODULE ReadToEndAt_proofs --------------------------
(***************************************************************************)
(* Theorems about read_to_end_at and read_to_string_at, for every file,    *)
(* buffer, offset and sequence of changes by other processes.              *)
(***************************************************************************)
EXTENDS ReadToEndAt, SequenceTheorems, TLAPS

-----------------------------------------------------------------------------
(***************************************************************************)
(* The inductive invariant                                                 *)
(***************************************************************************)

ToString == method = "read_to_string_at"

\* Any String, or an empty Vec: the cases where the target holds nothing but
\* what the preads put there.
Clean == method = "read_to_end_at" => before = <<>>

OnlyAppends == changes \subseteq {"append"}

Inputs ==
  /\ method \in {"read_to_end_at", "read_to_string_at"} /\ offset \in Nat
  /\ before \in Seq(Byte) /\ Len(before) <= AllocMax /\ Utf8(before)

Histories ==
  /\ snapshot \in Seq(Byte) /\ Len(snapshot) <= MaxLen /\ shortest \in Nat
  /\ pc = "read" => seen \in [1 .. MaxLen -> SUBSET Byte]

NotStarted ==
  pc = "metadata" =>
    /\ buf = before /\ tmp = <<>> /\ got = 0 /\ result = Error("none")
    /\ snapshot = <<>>

\* The string is the caller's until the call succeeds.
Untouched == ToString /\ (pc # "done" \/ result.kind # "Ok") => buf = before

\* The size of the target was fixed by fstat; the history covers the file.
Reading ==
  pc = "read" =>
    /\ result = Error("none") /\ offset <= Len(snapshot)
    /\ Len(Target) = (IF ToString THEN 0 ELSE Len(before)) + (Len(snapshot) - offset)
    /\ shortest <= Len(snapshot) /\ shortest <= Len(file)
    /\ \A i \in 1 .. Len(file) : file[i] \in seen[i]

\* What the preads have delivered was in the file at its place.
Delivered ==
  pc = "read" /\ Clean => \A i \in 1 .. got : Target[i] \in seen[offset + i]

\* While others only append, the file keeps what fstat saw, and so does the
\* target.
Kept ==
  pc = "read" /\ OnlyAppends =>
    /\ Len(snapshot) <= Len(file)
    /\ \A i \in 1 .. Len(snapshot) : file[i] = snapshot[i]
    /\ Clean => \A i \in 1 .. got : Target[i] = snapshot[offset + i]

Promises == StringStaysUtf8 /\ Snapshot /\ EofOnlyIfShrunk /\ BytesWereThere

RInv ==
  /\ TypeOK /\ Inputs /\ Histories /\ NotStarted /\ Untouched /\ Reading
  /\ Delivered /\ Kept /\ Promises

-----------------------------------------------------------------------------
(***************************************************************************)
(* Lemmas about sequences of bytes                                         *)
(***************************************************************************)

LEMMA BytesConcat ==
  ASSUME NEW s \in Seq(Byte), NEW t \in Seq(Byte)
  PROVE  s \o t \in Seq(Byte) /\ Len(s \o t) = Len(s) + Len(t)
OBVIOUS

\* Two valid strings make a valid string.
LEMMA Utf8Concat ==
  ASSUME NEW s \in Seq(Byte), NEW t \in Seq(Byte), Utf8(s), Utf8(t)
  PROVE  Utf8(s \o t)
<1>1. /\ Len(s \o t) = Len(s) + Len(t) /\ Len(s) \in Nat /\ Len(t) \in Nat
      /\ \A i \in 1 .. Len(s) + Len(t) :
           (s \o t)[i] = IF i <= Len(s) THEN s[i] ELSE t[i - Len(s)]
  OBVIOUS
<1> SUFFICES ASSUME NEW i \in 1 .. Len(s) + Len(t)
             PROVE  /\ (s \o t)[i] = "lead"
                         => i < Len(s) + Len(t) /\ (s \o t)[i + 1] = "cont"
                    /\ (s \o t)[i] = "cont" => i > 1 /\ (s \o t)[i - 1] = "lead"
  BY <1>1 DEF Utf8
<1>2. CASE i <= Len(s)
  <2>1. i \in 1 .. Len(s) /\ (s \o t)[i] = s[i]
    BY <1>1, <1>2
  <2>2. s[i] = "lead" => i < Len(s) /\ s[i + 1] = "cont"
    BY <2>1 DEF Utf8
  <2>3. s[i] = "cont" => i > 1 /\ s[i - 1] = "lead"
    BY <2>1 DEF Utf8
  <2>4. i < Len(s) => (s \o t)[i + 1] = s[i + 1]
    BY <1>1, <2>1
  <2>5. i > 1 => (s \o t)[i - 1] = s[i - 1]
    BY <1>1, <2>1
  <2>6. QED
    BY <1>1, <2>1, <2>2, <2>3, <2>4, <2>5
<1>3. CASE i > Len(s)
  <2> DEFINE j == i - Len(s)
  <2>1. j \in 1 .. Len(t) /\ (s \o t)[i] = t[j]
    BY <1>1, <1>3
  <2>2. t[j] = "lead" => j < Len(t) /\ t[j + 1] = "cont"
    BY <2>1 DEF Utf8
  <2>3. t[j] = "cont" => j > 1 /\ t[j - 1] = "lead"
    BY <2>1 DEF Utf8
  <2>4. j < Len(t) => (s \o t)[i + 1] = t[j + 1]
    BY <1>1, <1>3
  <2>5. j > 1 => (s \o t)[i - 1] = t[j - 1]
    BY <1>1, <1>3
  <2>6. QED
    BY <1>1, <2>1, <2>2, <2>3, <2>4, <2>5
<1>4. QED
  BY <1>1, <1>2, <1>3

\* t with k bytes of f, from offset from + g on, put after its first g.
Filled(t, f, from, g, k) ==
  [i \in 1 .. Len(t) |-> IF i \in g + 1 .. g + k THEN f[from + i] ELSE t[i]]

LEMMA FilledFacts ==
  ASSUME NEW t \in Seq(Byte), NEW f \in Seq(Byte), NEW from \in Nat, NEW g \in Nat,
         NEW k \in Nat, from + g + k <= Len(f), g + k <= Len(t)
  PROVE  /\ Filled(t, f, from, g, k) \in Seq(Byte)
         /\ Len(Filled(t, f, from, g, k)) = Len(t)
         /\ \A i \in 1 .. g + k :
              Filled(t, f, from, g, k)[i] = IF i <= g THEN t[i] ELSE f[from + i]
<1> DEFINE b(i) == IF i \in g + 1 .. g + k THEN f[from + i] ELSE t[i]
<1>1. \A i \in 1 .. Len(t) : b(i) \in Byte
  OBVIOUS
<1>2. Filled(t, f, from, g, k) = [i \in 1 .. Len(t) |-> b(i)] /\ Len(t) \in Nat
  BY DEF Filled
<1>3. \A i \in 1 .. g + k : b(i) = IF i <= g THEN t[i] ELSE f[from + i]
  OBVIOUS
<1> HIDE DEF b
<1>4. [i \in 1 .. Len(t) |-> b(i)] \in Seq(Byte) /\ Len([i \in 1 .. Len(t) |-> b(i)]) = Len(t)
  BY <1>1, <1>2
<1>5. \A i \in 1 .. g + k : i \in 1 .. Len(t)
  BY <1>2
<1>6. QED
  BY <1>2, <1>3, <1>4, <1>5

LEMMA ZerosFacts ==
  ASSUME NEW k \in Nat
  PROVE  Zeros(k) \in Seq(Byte) /\ Len(Zeros(k)) = k
BY DEF Zeros, Zero, Byte

\* A sequence that agrees with the rest of f is that rest.
LEMMA RestOf ==
  ASSUME NEW t \in Seq(Byte), NEW f \in Seq(Byte), NEW off \in Nat, off <= Len(f),
         Len(t) = Len(f) - off, \A i \in 1 .. Len(t) : t[i] = f[off + i]
  PROVE  t = SubSeq(f, off + 1, Len(f))
<1> DEFINE r == SubSeq(f, off + 1, Len(f))
<1>1. r \in Seq(Byte) /\ Len(r) = Len(t)
  OBVIOUS
<1>2. \A i \in 1 .. Len(t) : r[i] = f[off + i]
  OBVIOUS
<1>3. \A i \in 1 .. Len(t) : t[i] = r[i]
  BY <1>2
<1> HIDE DEF r
<1>4. t = r
  BY <1>1, <1>3, SeqEqual
<1>5. QED
  BY <1>4 DEF r

-----------------------------------------------------------------------------
(***************************************************************************)
(* The initial states and the end of a call                                *)
(***************************************************************************)

LEMMA InitInv == Init => RInv
<1> SUFFICES ASSUME Init PROVE RInv
  OBVIOUS
<1>1. TypeOK /\ Inputs
  BY ReadAssumption DEF Init, TypeOK, Inputs, Target, Error
<1>2. Histories /\ NotStarted /\ Untouched /\ Reading /\ Delivered /\ Kept
  BY ReadAssumption DEF Init, Histories, NotStarted, Untouched, Reading, Delivered, Kept
<1>3. Promises
  BY <1>1 DEF Init, Promises, StringStaysUtf8, Snapshot, EofOnlyIfShrunk, BytesWereThere,
     Error, Inputs
<1>4. QED
  BY <1>1, <1>2, <1>3 DEF RInv

\* An answer that is not Ok changes nothing of the buffers; UnexpectedEof has
\* a reason.
LEMMA Refuses ==
  ASSUME RInv, NEW kind \in {"Err", "UnexpectedEof", "InvalidData", "panic"},
         pc # "done", Return(Error(kind)),
         UNCHANGED <<file, call, buf, tmp, got, history>>,
         kind = "UnexpectedEof" /\ Clean => shortest < Len(snapshot)
  PROVE  RInv'
<1> USE DEF RInv, Return, Error, call, history
<1>1. TypeOK' /\ Inputs'
  BY ReadAssumption DEF TypeOK, Inputs, Target
<1>2. Histories' /\ NotStarted' /\ Reading' /\ Delivered' /\ Kept'
  BY DEF Histories, NotStarted, Reading, Delivered, Kept
<1>3. Untouched'
  BY DEF Untouched, ToString
<1>4. Promises'
  BY DEF Promises, StringStaysUtf8, Snapshot, EofOnlyIfShrunk, BytesWereThere, Clean
<1>5. QED
  BY <1>1, <1>2, <1>3, <1>4

-----------------------------------------------------------------------------
(***************************************************************************)
(* Each step keeps it                                                      *)
(***************************************************************************)

LEMMA BeyondEndInv == RInv /\ BeyondEnd => RInv'
<1> SUFFICES ASSUME RInv, BeyondEnd PROVE RInv'
  OBVIOUS
<1> USE DEF RInv, BeyondEnd, Return, Ok, call, history
<1>1. TypeOK' /\ Inputs'
  BY ReadAssumption DEF TypeOK, Inputs, Target
<1>2. Histories' /\ NotStarted' /\ Reading' /\ Delivered' /\ Kept'
  BY DEF Histories, NotStarted, Reading, Delivered, Kept
<1>3. Untouched'
  BY DEF Untouched, ToString
<1>4. snapshot = <<>> /\ buf = before /\ before \in Seq(Byte) /\ offset \in Nat
  BY DEF NotStarted, Inputs
<1>5. SubSeq(snapshot, offset + 1, Len(snapshot)) = <<>>
  BY <1>4
<1>6. buf = before \o SubSeq(snapshot, offset + 1, Len(snapshot))
  BY <1>4, <1>5
<1>7. Promises'
  <2>1. result'.kind = "Ok" /\ result'.n = 0
    OBVIOUS
  <2>2. StringStaysUtf8' /\ EofOnlyIfShrunk'
    BY <2>1 DEF Promises, StringStaysUtf8, EofOnlyIfShrunk
  <2>3. Snapshot'
    <3>1. Len(buf) - Len(before) = 0
      BY <1>4
    <3>2. QED
      BY <1>6, <2>1, <3>1 DEF Snapshot
  <2>4. BytesWereThere'
    BY <2>1 DEF BytesWereThere
  <2>5. QED
    BY <2>2, <2>3, <2>4 DEF Promises
<1>8. QED
  BY <1>1, <1>2, <1>3, <1>7

LEMMA AllocateInv == RInv /\ Allocate => RInv'
<1> SUFFICES ASSUME RInv, Allocate PROVE RInv'
  OBVIOUS
<1> USE DEF RInv, Allocate, call
<1>0. /\ LenAt(file) \in Nat /\ file \in Seq(Byte) /\ Len(file) <= MaxLen /\ offset \in Nat
      /\ before \in Seq(Byte) /\ buf = before /\ tmp = <<>> /\ got = 0
      /\ MaxLen \in Nat /\ AllocMax \in Nat
  BY ReadAssumption DEF LenAt, TypeOK, Inputs, NotStarted
<1>1. Zeros(LenAt(file)) \in Seq(Byte) /\ Len(Zeros(LenAt(file))) = LenAt(file)
  BY <1>0, ZerosFacts
<1>2. /\ Target' \in Seq(Byte)
      /\ Len(Target') = (IF ToString THEN 0 ELSE Len(before)) + LenAt(file)
      /\ buf' \in Seq(Byte) /\ Len(buf') <= AllocMax
      /\ tmp' \in Seq(Byte) /\ Len(tmp') <= AllocMax
      /\ ToString => buf' = before
  <2>1. CASE method = "read_to_end_at"
    <3>1. buf' = before \o Zeros(LenAt(file)) /\ tmp' = tmp /\ Target' = buf' /\ ~ToString
      BY <1>0, <2>1 DEF Target, ToString
    <3>2. buf' \in Seq(Byte) /\ Len(buf') = Len(before) + LenAt(file)
      <4> DEFINE z == Zeros(LenAt(file))
      <4> HIDE DEF z
      <4>1. z \in Seq(Byte) /\ Len(z) = LenAt(file) /\ buf' = before \o z
        BY <1>1, <3>1 DEF z
      <4>2. before \o z \in Seq(Byte) /\ Len(before \o z) = Len(before) + Len(z)
        BY <1>0, <4>1, BytesConcat
      <4>3. QED
        BY <4>1, <4>2
    <3>3. Len(buf') <= AllocMax /\ tmp' \in Seq(Byte) /\ Len(tmp') <= AllocMax
      BY <2>1, <3>1, <3>2 DEF TargetLen, TypeOK
    <3>4. QED
      BY <3>1, <3>2, <3>3
  <2>2. CASE method # "read_to_end_at"
    <3>1. tmp' = Zeros(LenAt(file)) /\ buf' = before /\ Target' = tmp' /\ ToString
      BY <1>0, <2>2 DEF Target, ToString, Inputs
    <3>2. Len(tmp') <= AllocMax
      BY <1>1, <2>2, <3>1 DEF TargetLen
    <3>3. QED
      BY <1>0, <1>1, <3>1, <3>2 DEF Inputs
  <2>3. QED
    BY <2>1, <2>2
<1>3. TypeOK' /\ Inputs'
  BY <1>0, <1>2 DEF TypeOK, Inputs, LenAt
<1>4. seen' \in [1 .. MaxLen -> SUBSET Byte] /\ \A i \in 1 .. Len(file) : file[i] \in seen'[i]
  BY <1>0
<1>5. Histories' /\ NotStarted' /\ Untouched'
  BY <1>0, <1>2, <1>4 DEF Histories, NotStarted, Untouched, ToString
<1>6. Reading'
  BY <1>0, <1>2, <1>4 DEF Reading, NotStarted, ToString, LenAt
<1>7. Delivered' /\ Kept'
  BY <1>0 DEF Delivered, Kept
<1>8. Promises'
  BY <1>2 DEF Promises, StringStaysUtf8, Snapshot, EofOnlyIfShrunk, BytesWereThere,
     NotStarted, Error, Inputs, ToString
<1>9. QED
  BY <1>3, <1>5, <1>6, <1>7, <1>8

LEMMA PreadInv == RInv /\ Pread => RInv'
<1> SUFFICES ASSUME RInv, Pread PROVE RInv'
  OBVIOUS
<1> USE DEF RInv, call, history
<1>1. PICK k \in 1 .. Len(Target) - got :
        /\ pc = "read" /\ offset + got + k <= Len(file)
        /\ IF method = "read_to_end_at"
           THEN buf' = Filled(Target, file, offset, got, k) /\ UNCHANGED tmp
           ELSE tmp' = Filled(Target, file, offset, got, k) /\ UNCHANGED buf
        /\ got' = got + k
        /\ UNCHANGED <<file, call, pc, history, result>>
  BY DEF Pread, ReadSome, Filled
<1>2. /\ Target \in Seq(Byte) /\ file \in Seq(Byte) /\ offset \in Nat /\ got \in Nat
      /\ got <= Len(Target) /\ k \in Nat /\ got + k <= Len(Target)
      /\ Len(file) \in Nat /\ Len(file) <= MaxLen /\ MaxLen \in Nat
  BY ReadAssumption, <1>1 DEF TypeOK, Inputs, Target
<1>3. /\ Filled(Target, file, offset, got, k) \in Seq(Byte)
      /\ Len(Filled(Target, file, offset, got, k)) = Len(Target)
      /\ \A i \in 1 .. got + k :
           Filled(Target, file, offset, got, k)[i] =
             IF i <= got THEN Target[i] ELSE file[offset + i]
  BY <1>1, <1>2, FilledFacts
<1>4. Target' = Filled(Target, file, offset, got, k)
  BY <1>1 DEF Target
<1>5. TypeOK' /\ Inputs'
  <2>1. got' \in 0 .. Len(Target')
    BY <1>1, <1>2, <1>3, <1>4
  <2>2. /\ buf' \in Seq(Byte) /\ Len(buf') <= AllocMax
        /\ tmp' \in Seq(Byte) /\ Len(tmp') <= AllocMax
    BY <1>1, <1>3 DEF TypeOK, Target
  <2>3. QED
    BY <1>1, <2>1, <2>2 DEF TypeOK, Inputs
<1>6. Histories' /\ NotStarted' /\ Untouched'
  BY <1>1 DEF Histories, NotStarted, Untouched, ToString, Inputs
<1>7. Reading'
  BY <1>1, <1>3, <1>4 DEF Reading, ToString
<1>8. Delivered'
  <2> SUFFICES ASSUME Clean, NEW i \in 1 .. got + k
               PROVE  Target'[i] \in seen[offset + i]
    BY <1>1 DEF Delivered, Clean
  <2>1. CASE i <= got
    BY <1>1, <1>2, <1>3, <1>4, <2>1 DEF Delivered
  <2>2. CASE i > got
    <3>1. offset + i \in 1 .. Len(file) /\ Target'[i] = file[offset + i]
      BY <1>1, <1>2, <1>3, <1>4, <2>2
    <3>2. QED
      BY <1>1, <3>1 DEF Reading
  <2>3. QED
    BY <1>2, <2>1, <2>2
<1>9. Kept'
  <2> SUFFICES ASSUME OnlyAppends, Clean, NEW i \in 1 .. got + k
               PROVE  Target'[i] = snapshot[offset + i]
    BY <1>1 DEF Kept, Clean, OnlyAppends
  <2>1. CASE i <= got
    BY <1>1, <1>2, <1>3, <1>4, <2>1 DEF Kept
  <2>2. CASE i > got
    <3>1. Len(Target) = Len(snapshot) - offset /\ Len(snapshot) \in Nat
      BY <1>1 DEF Reading, Clean, ToString, Inputs, Histories
    <3>2. offset + i \in 1 .. Len(snapshot) /\ Target'[i] = file[offset + i]
      BY <1>1, <1>2, <1>3, <1>4, <2>2, <3>1
    <3>3. QED
      BY <1>1, <3>2 DEF Kept
  <2>3. QED
    BY <1>2, <2>1, <2>2
<1>10. Promises'
  BY <1>1 DEF Promises, StringStaysUtf8, Snapshot, EofOnlyIfShrunk, BytesWereThere,
     Reading, Error, Inputs
<1>11. QED
  BY <1>5, <1>6, <1>7, <1>8, <1>9, <1>10

LEMMA PreadAtEndInv == RInv /\ PreadAtEnd => RInv'
<1> SUFFICES ASSUME RInv, PreadAtEnd PROVE RInv'
  OBVIOUS
<1>1. ASSUME Clean PROVE shortest < Len(snapshot)
  <2>1. Len(Target) = Len(snapshot) - offset
    BY <1>1 DEF RInv, PreadAtEnd, Reading, Clean, ToString, Inputs
  <2>2. got < Len(Target) /\ offset + got >= Len(file) /\ shortest <= Len(file)
    BY DEF RInv, PreadAtEnd, Reading
  <2>3. /\ Len(snapshot) \in Nat /\ offset \in Nat /\ got \in Nat /\ Len(file) \in Nat
        /\ shortest \in Nat
    BY DEF RInv, TypeOK, Inputs, Histories
  <2>4. QED
    BY <2>1, <2>2, <2>3
<1>2. QED
  BY <1>1, Refuses DEF PreadAtEnd

\* A target that is full holds the file from offset on.
LEMMA FullFacts ==
  ASSUME RInv, Full
  PROVE  /\ LenAt(snapshot) \in 0 .. MaxLen
         /\ Clean => /\ Len(Target) = LenAt(snapshot)
                     /\ \A i \in 1 .. LenAt(snapshot) : Target[i] \in seen[offset + i]
         /\ Clean /\ OnlyAppends => Target = SubSeq(snapshot, offset + 1, Len(snapshot))
<1> USE DEF RInv, Full
<1>1. /\ Len(snapshot) \in Nat /\ Len(snapshot) <= MaxLen /\ MaxLen \in Nat /\ offset \in Nat
      /\ offset <= Len(snapshot) /\ Target \in Seq(Byte) /\ snapshot \in Seq(Byte)
      /\ got = Len(Target)
  BY ReadAssumption DEF Histories, Inputs, Reading, Target, TypeOK
<1>2. LenAt(snapshot) \in 0 .. MaxLen
  BY <1>1 DEF LenAt
<1>3. Clean => Len(Target) = LenAt(snapshot)
  BY <1>1 DEF Clean, Reading, ToString, Inputs, LenAt
<1>4. Clean => \A i \in 1 .. LenAt(snapshot) : Target[i] \in seen[offset + i]
  BY <1>1, <1>3 DEF Delivered
<1>5. ASSUME Clean, OnlyAppends PROVE Target = SubSeq(snapshot, offset + 1, Len(snapshot))
  <2>1. \A i \in 1 .. Len(Target) : Target[i] = snapshot[offset + i]
    BY <1>1, <1>5 DEF Kept
  <2>2. Len(Target) = Len(snapshot) - offset
    BY <1>3, <1>5 DEF LenAt
  <2>3. QED
    BY <1>1, <2>1, <2>2, RestOf
<1>6. QED
  BY <1>2, <1>3, <1>4, <1>5

LEMMA ReturnBytesInv == RInv /\ ReturnBytes => RInv'
<1> SUFFICES ASSUME RInv, ReturnBytes PROVE RInv'
  OBVIOUS
<1>0. Full /\ method = "read_to_end_at" /\ LenAt(snapshot) \in 0 .. MaxLen /\ Target = buf
  BY FullFacts DEF ReturnBytes, Target
<1> USE DEF RInv, ReturnBytes, Return, Ok, call, history
<1>1. TypeOK' /\ Inputs'
  BY <1>0 DEF TypeOK, Inputs, Target
<1>2. Histories' /\ NotStarted' /\ Untouched' /\ Reading' /\ Delivered' /\ Kept'
  BY <1>0 DEF Histories, NotStarted, Untouched, Reading, Delivered, Kept, ToString
<1>3. ASSUME before = <<>>
      PROVE  /\ Len(buf) = LenAt(snapshot) /\ Len(before) = 0
             /\ \A i \in 1 .. LenAt(snapshot) : buf[Len(before) + i] \in seen[offset + i]
             /\ OnlyAppends => buf = before \o SubSeq(snapshot, offset + 1, Len(snapshot))
  <2>1. /\ Len(buf) = LenAt(snapshot)
        /\ \A i \in 1 .. LenAt(snapshot) : buf[i] \in seen[offset + i]
        /\ OnlyAppends => buf = SubSeq(snapshot, offset + 1, Len(snapshot))
    BY <1>0, <1>3, FullFacts DEF Clean
  <2>2. Len(before) = 0 /\ \A i \in 1 .. LenAt(snapshot) : Len(before) + i = i
    BY <1>0, <1>3
  <2>3. buf \in Seq(Byte) /\ before \o buf = buf
    BY <1>3 DEF TypeOK
  <2>4. QED
    BY <2>1, <2>2, <2>3
<1>4. Promises'
  <2>1. result'.kind = "Ok" /\ result'.n = LenAt(snapshot)
    OBVIOUS
  <2>2. StringStaysUtf8' /\ EofOnlyIfShrunk'
    BY <2>1 DEF Promises, StringStaysUtf8, EofOnlyIfShrunk
  <2>3. Snapshot'
    <3> SUFFICES ASSUME OnlyAppends', before' = <<>>
                 PROVE  /\ buf' = before' \o SubSeq(snapshot', offset' + 1, Len(snapshot'))
                        /\ result'.n = Len(buf') - Len(before')
      BY <1>0 DEF Snapshot, OnlyAppends
    <3>1. OnlyAppends /\ before = <<>>
      BY DEF OnlyAppends
    <3>2. /\ Len(buf) = LenAt(snapshot) /\ Len(before) = 0
          /\ buf = before \o SubSeq(snapshot, offset + 1, Len(snapshot))
      BY <1>3, <3>1
    <3>3. LenAt(snapshot) = Len(buf) - Len(before)
      BY <1>0, <3>2
    <3>4. QED
      BY <2>1, <3>2, <3>3
  <2>4. BytesWereThere'
    BY <1>0, <1>3, <2>1 DEF BytesWereThere
  <2>5. QED
    BY <2>2, <2>3, <2>4 DEF Promises
<1>5. QED
  BY <1>1, <1>2, <1>4

LEMMA PushStringInv == RInv /\ PushString => RInv'
<1> SUFFICES ASSUME RInv, PushString PROVE RInv'
  OBVIOUS
<1> USE DEF RInv, PushString, PushIf, Return, Ok, call, history
<1>0. /\ Full /\ ToString /\ Clean /\ Target = tmp
      /\ buf = before /\ before \in Seq(Byte) /\ tmp \in Seq(Byte) /\ Utf8(before)
  BY DEF Full, ToString, Clean, Target, Untouched, Inputs, TypeOK
<1>1. /\ LenAt(snapshot) \in 0 .. MaxLen /\ Len(tmp) = LenAt(snapshot)
      /\ \A i \in 1 .. LenAt(snapshot) : tmp[i] \in seen[offset + i]
      /\ OnlyAppends => tmp = SubSeq(snapshot, offset + 1, Len(snapshot))
  BY <1>0, FullFacts
<1>2. /\ buf' = before \o tmp /\ buf' \in Seq(Byte) /\ Len(buf') = Len(before) + Len(tmp)
      /\ \A i \in 1 .. Len(tmp) : buf'[Len(before) + i] = tmp[i]
  BY <1>0
<1>3. TypeOK' /\ Inputs'
  BY <1>0, <1>1, <1>2 DEF TypeOK, Inputs, Target, ToString
<1>4. Histories' /\ NotStarted' /\ Untouched' /\ Reading' /\ Delivered' /\ Kept'
  BY DEF Histories, NotStarted, Untouched, Reading, Delivered, Kept
<1>5. Utf8(buf')
  BY <1>0, <1>2, Utf8Concat
<1>6. Promises'
  <2>1. result'.kind = "Ok" /\ result'.n = LenAt(snapshot)
    OBVIOUS
  <2>2. StringStaysUtf8' /\ EofOnlyIfShrunk'
    BY <1>5, <2>1 DEF StringStaysUtf8, EofOnlyIfShrunk
  <2>3. Snapshot'
    <3>1. LenAt(snapshot) = Len(buf') - Len(before)
      BY <1>0, <1>1, <1>2
    <3>2. QED
      BY <1>1, <1>2, <2>1, <3>1 DEF Snapshot, OnlyAppends
  <2>4. BytesWereThere'
    <3>1. \A i \in 1 .. LenAt(snapshot) : buf'[Len(before) + i] \in seen[offset + i]
      BY <1>1, <1>2
    <3>2. QED
      BY <2>1, <3>1 DEF BytesWereThere
  <2>5. QED
    BY <2>2, <2>3, <2>4 DEF Promises
<1>7. QED
  BY <1>3, <1>4, <1>6

\* Another process changes the file to f, keeping what fstat saw if all it
\* may do is append.
LEMMA BecomesInv ==
  ASSUME RInv, pc = "read", NEW f \in Seq(Byte), Len(f) <= MaxLen, Becomes(f),
         OnlyAppends => Len(file) <= Len(f) /\ \A i \in 1 .. Len(file) : f[i] = file[i]
  PROVE  RInv'
<1> USE DEF RInv, Becomes, call
<1>1. TypeOK' /\ Inputs'
  BY DEF TypeOK, Inputs, Target
<1>2. /\ seen \in [1 .. MaxLen -> SUBSET Byte] /\ MaxLen \in Nat /\ Len(f) \in Nat
      /\ seen' \in [1 .. MaxLen -> SUBSET Byte]
      /\ \A i \in 1 .. MaxLen : seen[i] \subseteq seen'[i]
      /\ \A i \in 1 .. Len(f) : f[i] \in seen'[i]
  BY ReadAssumption DEF Histories
<1>3. Histories' /\ NotStarted' /\ Untouched'
  BY <1>2 DEF Histories, NotStarted, Untouched, ToString
<1>4. Target' = Target /\ got' = got /\ (Clean' <=> Clean)
  BY DEF Target, Clean
<1>5. Reading'
  BY <1>2, <1>4 DEF Reading, ToString, Histories
<1>6. Delivered'
  <2> SUFFICES ASSUME Clean, NEW i \in 1 .. got PROVE Target[i] \in seen'[offset + i]
    BY <1>4 DEF Delivered
  <2>1. Target[i] \in seen[offset + i]
    BY DEF Delivered
  <2>2. offset + i \in 1 .. MaxLen
    BY <1>2 DEF Reading, Clean, ToString, Inputs, Histories, TypeOK
  <2>3. QED
    BY <1>2, <2>1, <2>2
<1>7. Kept'
  BY <1>4, <1>2 DEF Kept, OnlyAppends, TypeOK, Histories
<1>8. Promises'
  BY DEF Promises, StringStaysUtf8, Snapshot, EofOnlyIfShrunk, BytesWereThere, Reading, Error
<1>9. QED
  BY <1>1, <1>3, <1>5, <1>6, <1>7, <1>8

LEMMA ElsewhereInv == RInv /\ pc = "read" /\ Elsewhere => RInv'
<1> SUFFICES ASSUME RInv, pc = "read", Elsewhere PROVE RInv'
  OBVIOUS
<1>0. file \in Seq(Byte) /\ Len(file) <= MaxLen /\ MaxLen \in Nat
  BY ReadAssumption DEF RInv, TypeOK
<1>1. CASE AppendElsewhere
  <2>1. PICK b \in Byte : Becomes(Append(file, b))
    BY <1>1 DEF AppendElsewhere
  <2>2. /\ Append(file, b) \in Seq(Byte) /\ Len(Append(file, b)) <= MaxLen
        /\ Len(file) <= Len(Append(file, b))
        /\ \A i \in 1 .. Len(file) : Append(file, b)[i] = file[i]
    BY <1>0, <1>1 DEF AppendElsewhere
  <2>3. QED
    BY <2>1, <2>2, BecomesInv
<1>2. CASE TruncateElsewhere
  <2>1. PICK n \in 0 .. Len(file) - 1 : Becomes(SubSeq(file, 1, n))
    BY <1>2 DEF TruncateElsewhere
  <2>2. SubSeq(file, 1, n) \in Seq(Byte) /\ Len(SubSeq(file, 1, n)) <= MaxLen
    BY <1>0
  <2>3. ~OnlyAppends
    BY <1>2 DEF TruncateElsewhere, OnlyAppends
  <2>4. QED
    BY <2>1, <2>2, <2>3, BecomesInv
<1>3. CASE OverwriteElsewhere
  <2>1. PICK i \in DOMAIN file, b \in Byte : Becomes([file EXCEPT ![i] = b])
    BY <1>3 DEF OverwriteElsewhere
  <2>2. [file EXCEPT ![i] = b] \in Seq(Byte) /\ Len([file EXCEPT ![i] = b]) <= MaxLen
    BY <1>0
  <2>3. ~OnlyAppends
    BY <1>3 DEF OverwriteElsewhere, OnlyAppends
  <2>4. QED
    BY <2>1, <2>2, <2>3, BecomesInv
<1>4. QED
  BY <1>1, <1>2, <1>3 DEF Elsewhere

LEMMA NextInv == RInv /\ [Next]_vars => RInv'
<1> SUFFICES ASSUME RInv, [Next]_vars PROVE RInv'
  OBVIOUS
<1>1. CASE UNCHANGED vars
  <2> USE <1>1 DEF vars, RInv
  <2>1. TypeOK' /\ Inputs' /\ Histories' /\ NotStarted' /\ Untouched'
    BY DEF TypeOK, Target, Inputs, Histories, NotStarted, Untouched, ToString
  <2>2. Reading' /\ Delivered' /\ Kept'
    BY DEF Reading, Delivered, Kept, ToString, Target, Clean, OnlyAppends
  <2>3. Promises'
    BY DEF Promises, StringStaysUtf8, Snapshot, EofOnlyIfShrunk, BytesWereThere
  <2>4. QED
    BY <2>1, <2>2, <2>3
<1>2. CASE MetadataFails \/ PreadFails \/ AllocationPanics
  <2>1. pc # "done"
    BY <1>2 DEF MetadataFails, PreadFails, AllocationPanics, Full
  <2>2. QED
    BY <1>2, <2>1, Refuses DEF MetadataFails, PreadFails, AllocationPanics
<1>3. CASE RejectString
  <2>1. pc # "done"
    BY <1>3 DEF RejectString, Reject, Full
  <2>2. QED
    BY <1>3, <2>1, Refuses DEF RejectString, Reject
<1>4. QED
  BY <1>1, <1>2, <1>3, BeyondEndInv, AllocateInv, PreadInv, PreadAtEndInv, ReturnBytesInv,
     PushStringInv, ElsewhereInv
  DEF Next, Call, Progress

LEMMA Invariance == Spec => []RInv
BY InitInv, NextInv, PTL DEF Spec

-----------------------------------------------------------------------------
(***************************************************************************)
(* The theorems                                                            *)
(***************************************************************************)

\* The calls never hold more than an allocation may, and never report more
\* bytes than a file can have (file_io_ext.rs:1039-1076).
THEOREM TypeCorrect == Spec => []TypeOK
<1>1. RInv => TypeOK
  BY DEF RInv
<1>2. QED
  BY <1>1, Invariance, PTL

\* The caller's String is valid UTF-8 at every moment, whatever other
\* processes write (file_io_ext.rs:1066-1074).
THEOREM StringStaysUtf8Thm == Spec => []StringStaysUtf8
<1>1. RInv => StringStaysUtf8
  BY DEF RInv, Promises
<1>2. QED
  BY <1>1, Invariance, PTL

\* A failing read_to_string_at leaves the String as it was
\* (file_io_ext.rs:1066-1073).
THEOREM StringUntouchedThm == Spec => []StringUntouchedOnError
<1>1. RInv => StringUntouchedOnError
  BY DEF RInv, Untouched, ToString, StringUntouchedOnError
<1>2. QED
  BY <1>1, Invariance, PTL

\* While others only append, success delivers what fstat saw, whole
\* (file_io_ext.rs:1040-1056, 1059-1075).
THEOREM SnapshotThm == Spec => []Snapshot
<1>1. RInv => Snapshot
  BY DEF RInv, Promises
<1>2. QED
  BY <1>1, Invariance, PTL

\* UnexpectedEof means that somebody truncated the file during the call
\* (file_io_ext.rs:1053, 1066).
THEOREM EofOnlyIfShrunkThm == Spec => []EofOnlyIfShrunk
<1>1. RInv => EofOnlyIfShrunk
  BY DEF RInv, Promises
<1>2. QED
  BY <1>1, Invariance, PTL

\* No byte is invented, moved or left at the zero of the buffer's
\* initialisation (file_io_ext.rs:1045-1053, 1064-1066).
THEOREM BytesWereThereThm == Spec => []BytesWereThere
<1>1. RInv => BytesWereThere
  BY DEF RInv, Promises
<1>2. QED
  BY <1>1, Invariance, PTL

=============================================================================
