--------------------------- MODULE Readers_proofs ---------------------------
(***************************************************************************)
(* Proofs about Readers.  Methods is a recursive function: the first       *)
(* section shows that it satisfies its equation, and the sections after it *)
(* prove what the methods of the n-th reader do by induction on n.         *)
(***************************************************************************)
EXTENDS Readers, WellFoundedInduction, TLAPS

-----------------------------------------------------------------------------
(***************************************************************************)
(* Methods                                                                 *)
(***************************************************************************)

\* Every set of numbers has a least one: induction for sets.
LEMMA LeastNumber ==
  ASSUME NEW T, T \subseteq Nat, T # {}
  PROVE  \E x \in T : \A y \in T : ~(y < x)
<1> DEFINE R == OpToRel(<, Nat)
<1>1. IsWellFoundedOn(R, Nat)
  BY NatLessThanWellFounded
<1>2. \A x, y \in Nat : x < y <=> <<x, y>> \in R
  BY DEF OpToRel
<1> HIDE DEF R
<1>3. \E x \in T : \A y \in T : ~(<<y, x>> \in R)
  BY <1>1, WFMin
<1>4. QED
  BY <1>2, <1>3

\* The methods of the n-th reader when those of the others are f.
Row(f, n) ==
  [read |-> [c \in Calls(n) |-> ReadFrom(f, n, c)],
   fill_buf |-> [c \in Calls(n) |-> FillBuf(f, n, c)],
   num_ready_bytes |-> [c \in Calls(n) |-> NumReady(f, n, c)],
   asked |-> [t \in Having(n) |-> AskedBy(f, n, t)]]

LEMMA InsideFacts ==
  ASSUME NEW n, NEW t \in Having(n)
  PROVE  /\ n \in 1 .. Len(t) /\ t[n] \in Node /\ Len(t) \in Nat
         /\ t[n].kind \in Adaptors => t[n].inner \in 1 .. n - 1
         /\ t[n].kind = "chain" => t[n].first \in 1 .. n - 1 /\ t[n].second \in 1 .. n - 1
<1>1. /\ t \in Seq(Node) /\ n \in DOMAIN t
      /\ Inside(t[n]) \subseteq 1 .. n - 1
  BY DEF Having, Readers
<1>2. t[n].kind = "chain" => t[n].kind \notin Adaptors
  BY DEF Adaptors, Buffered
<1>3. QED
  BY <1>1, <1>2 DEF Inside

\* The methods of a reader depend on those of the readers inside it alone.
LEMMA RowIsLocal ==
  ASSUME NEW f, NEW g, NEW n \in Nat, \A m \in 0 .. n - 1 : f[m] = g[m]
  PROVE  Row(f, n) = Row(g, n)
<1>1. ASSUME NEW t \in Having(n)
      PROVE  /\ t[n].kind \in Adaptors => f[t[n].inner] = g[t[n].inner]
             /\ t[n].kind = "chain" => /\ f[t[n].first] = g[t[n].first]
                                       /\ f[t[n].second] = g[t[n].second]
  BY InsideFacts
<1>2. \A c \in Calls(n) : c.t \in Having(n)
  BY DEF Calls
<1>3. Adaptors = {"buf", "stdin", "take"} /\ Buffered = {"buf", "stdin"}
  BY DEF Adaptors, Buffered
<1>4. ASSUME NEW c \in Calls(n)
      PROVE  ReadFrom(f, n, c) = ReadFrom(g, n, c) /\ FillBuf(f, n, c) = FillBuf(g, n, c)
  <2>1. /\ c.t[n].kind \in Adaptors => f[c.t[n].inner] = g[c.t[n].inner]
        /\ c.t[n].kind = "chain" => /\ f[c.t[n].first] = g[c.t[n].first]
                                    /\ f[c.t[n].second] = g[c.t[n].second]
    BY <1>1, <1>2
  <2>2. CASE c.t[n].kind \in Buffered
    <3>1. FillReader(f, n, c) = FillReader(g, n, c)
      BY <1>3, <2>1, <2>2 DEF FillReader
    <3>2. ReadBuf(f, n, c) = ReadBuf(g, n, c)
      BY <1>3, <2>1, <2>2, <3>1 DEF ReadBuf
    <3>3. QED
      BY <1>3, <2>2, <3>1, <3>2 DEF ReadFrom, FillBuf
  <2>3. CASE c.t[n].kind = "take"
    <3>1. ReadTake(f, n, c) = ReadTake(g, n, c) /\ FillTake(f, n, c) = FillTake(g, n, c)
      BY <1>3, <2>1, <2>3 DEF ReadTake, FillTake
    <3>2. QED
      BY <1>3, <2>3, <3>1 DEF ReadFrom, FillBuf
  <2>4. CASE c.t[n].kind = "chain"
    <3>1. ReadChain(f, n, c) = ReadChain(g, n, c) /\ FillChain(f, n, c) = FillChain(g, n, c)
      BY <2>1, <2>4 DEF ReadChain, FillChain
    <3>2. QED
      BY <1>3, <2>4, <3>1 DEF ReadFrom, FillBuf
  <2>5. CASE c.t[n].kind \notin Adaptors \cup {"chain"}
    BY <1>3, <2>5 DEF ReadFrom, FillBuf
  <2>6. QED
    BY <1>3, <2>2, <2>3, <2>4, <2>5
<1>6. \A c \in Calls(n) : NumReady(f, n, c) = NumReady(g, n, c)
  BY <1>1, <1>2, <1>3 DEF NumReady
<1>7. \A t \in Having(n) : AskedBy(f, n, t) = AskedBy(g, n, t)
  BY <1>1, <1>3 DEF AskedBy
<1>8. QED
  BY <1>4, <1>6, <1>7 DEF Row

LEMMA PartialMethods == \A n \in Nat : \E f : \A m \in 0 .. n : f[m] = Row(f, m)
<1> DEFINE T == {n \in Nat : ~ \E f : \A m \in 0 .. n : f[m] = Row(f, m)}
<1>1. SUFFICES ASSUME T # {} PROVE FALSE
  OBVIOUS
<1>2. PICK n \in T : \A m \in T : ~(m < n)
  BY <1>1, LeastNumber
<1>3. \E f : \A m \in 0 .. n - 1 : f[m] = Row(f, m)
  <2>1. CASE n = 0
    BY <2>1
  <2>2. CASE n # 0
    <3>1. n - 1 \in Nat /\ n - 1 < n
      BY <1>2, <2>2
    <3>2. n - 1 \notin T
      BY <1>2, <3>1
    <3>3. QED
      BY <3>1, <3>2
  <2>3. QED
    BY <2>1, <2>2
<1>4. PICK f : \A m \in 0 .. n - 1 : f[m] = Row(f, m)
  BY <1>3
<1> DEFINE g == [m \in 0 .. n |-> IF m = n THEN Row(f, n) ELSE f[m]]
<1>5. \A m \in 0 .. n : \A i \in 0 .. m - 1 : g[i] = f[i]
  BY <1>2
<1>6. \A m \in 0 .. n : Row(g, m) = Row(f, m)
  <2>1. TAKE m \in 0 .. n
  <2>2. m \in Nat /\ \A i \in 0 .. m - 1 : g[i] = f[i]
    BY <1>2, <1>5
  <2> HIDE DEF g
  <2>3. QED
    BY <2>2, RowIsLocal
<1>7. \A m \in 0 .. n : g[m] = Row(g, m)
  <2>1. TAKE m \in 0 .. n
  <2>2. g[m] = Row(f, m)
    BY <1>2, <1>4
  <2>3. QED
    BY <2>2, <1>6
<1> HIDE DEF g
<1>8. QED
  BY <1>2, <1>7

LEMMA PartialMethodsAgree ==
  ASSUME NEW f, NEW g, NEW n \in Nat,
         \A m \in 0 .. n : f[m] = Row(f, m), \A m \in 0 .. n : g[m] = Row(g, m)
  PROVE  f[n] = g[n]
<1> DEFINE T == {m \in 0 .. n : f[m] # g[m]}
<1>1. SUFFICES ASSUME T # {} PROVE FALSE
  OBVIOUS
<1>2. T \subseteq Nat
  OBVIOUS
<1>3. PICK m \in T : \A i \in T : ~(i < m)
  BY <1>1, <1>2, LeastNumber
<1>4. m \in Nat /\ \A i \in 0 .. m - 1 : f[i] = g[i]
  BY <1>2, <1>3
<1>5. Row(f, m) = Row(g, m)
  BY <1>4, RowIsLocal
<1>6. QED
  BY <1>3, <1>5

LEMMA MethodsEquation == Methods = [n \in Nat |-> Row(Methods, n)]
<1> DEFINE part(n) == CHOOSE f : \A m \in 0 .. n : f[m] = Row(f, m)
           whole == [n \in Nat |-> part(n)[n]]
<1>1. \A n \in Nat : \A m \in 0 .. n : part(n)[m] = Row(part(n), m)
  BY PartialMethods
<1> HIDE DEF part
<1>2. \A n \in Nat : \A m \in 0 .. n : part(n)[m] = part(m)[m]
  <2>1. TAKE n \in Nat
  <2>2. TAKE m \in 0 .. n
  <2> DEFINE a == part(n)
             b == part(m)
  <2>3. m \in Nat /\ \A i \in 0 .. m : a[i] = Row(a, i)
    BY <1>1
  <2>4. \A i \in 0 .. m : b[i] = Row(b, i)
    BY <1>1, <2>3
  <2> HIDE DEF a, b
  <2>5. a[m] = b[m]
    BY <2>3, <2>4, PartialMethodsAgree
  <2>6. QED
    BY <2>5 DEF a, b
<1>3. \A n \in Nat : Row(whole, n) = Row(part(n), n)
  <2>1. TAKE n \in Nat
  <2> DEFINE a == part(n)
  <2>2. \A m \in 0 .. n - 1 : whole[m] = a[m]
    BY <1>2
  <2> HIDE DEF a, whole
  <2>3. Row(whole, n) = Row(a, n)
    BY <2>2, RowIsLocal
  <2>4. QED
    BY <2>3 DEF a
<1>4. \A n \in Nat : whole[n] = Row(part(n), n)
  BY <1>1
<1>5. whole = [n \in Nat |-> whole[n]]
  OBVIOUS
<1> HIDE DEF whole
<1>6. whole = [n \in Nat |-> Row(whole, n)]
  BY <1>3, <1>4, <1>5
<1>7. Methods = CHOOSE f : f = [n \in Nat |-> Row(f, n)]
  BY DEF Methods, Row
<1>8. QED
  BY <1>6, <1>7

\* What each method is.
LEMMA MethodsFacts ==
  ASSUME NEW n \in Nat
  PROVE  /\ \A c \in Calls(n) : Methods[n].read[c] = ReadFrom(Methods, n, c)
         /\ \A c \in Calls(n) : Methods[n].fill_buf[c] = FillBuf(Methods, n, c)
         /\ \A c \in Calls(n) : Methods[n].num_ready_bytes[c] = NumReady(Methods, n, c)
         /\ \A t \in Having(n) : Methods[n].asked[t] = AskedBy(Methods, n, t)
<1>1. Methods[n] = Row(Methods, n)
  BY MethodsEquation
<1>2. QED
  BY <1>1 DEF Row

-----------------------------------------------------------------------------
(***************************************************************************)
(* Sequences, and what calls do to the readers and the kernel              *)
(***************************************************************************)

LEMMA PrefixFacts ==
  ASSUME NEW s \in Seq(Nat), NEW k \in Nat
  PROVE  /\ Prefix(s, k) \in Seq(Nat)
         /\ Len(Prefix(s, k)) = Least(k, Len(s))
         /\ Len(Prefix(s, k)) <= k /\ Len(Prefix(s, k)) <= Len(s)
         /\ k > 0 /\ s # <<>> => Prefix(s, k) # <<>>
<1>1. Least(k, Len(s)) \in 0 .. Len(s) /\ Least(k, Len(s)) <= k
  BY DEF Least
<1>2. Prefix(s, k) \in Seq(Nat) /\ Len(Prefix(s, k)) = Least(k, Len(s))
  BY <1>1 DEF Prefix
<1>3. k > 0 /\ s # <<>> => Least(k, Len(s)) > 0
  BY DEF Least
<1>4. QED
  BY <1>1, <1>2, <1>3

LEMMA RestFacts ==
  ASSUME NEW s \in Seq(Nat), NEW k \in Nat
  PROVE  /\ Rest(s, k) \in Seq(Nat)
         /\ Len(Rest(s, k)) = IF k <= Len(s) THEN Len(s) - k ELSE 0
         /\ Len(Rest(s, k)) <= Len(s)
<1>1. CASE k < Len(s)
  BY <1>1 DEF Rest
<1>2. CASE k >= Len(s)
  <2>1. Rest(s, k) = <<>>
    BY <1>2 DEF Rest
  <2>2. QED
    BY <1>2, <2>1
<1>3. QED
  BY <1>1, <1>2

LEMMA FileBytesFacts ==
  ASSUME NEW w \in Kernel, NEW at \in Nat, NEW k \in Nat
  PROVE  /\ FileBytes(w, at, k) \in Seq(Nat) /\ Len(FileBytes(w, at, k)) <= k
         /\ at <= Len(w.file) => at + Len(FileBytes(w, at, k)) <= Len(w.file)
         /\ at < Len(w.file) /\ k > 0 => FileBytes(w, at, k) # <<>>
<1>1. w.file \in Seq(Nat)
  BY DEF Kernel
<1>2. /\ Rest(w.file, at) \in Seq(Nat)
      /\ Len(Rest(w.file, at)) = IF at <= Len(w.file) THEN Len(w.file) - at ELSE 0
  BY <1>1, RestFacts
<1>3. Len(w.file) \in Nat
  BY <1>1
<1>4. /\ FileBytes(w, at, k) \in Seq(Nat) /\ Len(FileBytes(w, at, k)) <= k
      /\ Len(FileBytes(w, at, k)) <= Len(Rest(w.file, at))
  BY <1>2, PrefixFacts DEF FileBytes
<1>5. at < Len(w.file) /\ k > 0 => FileBytes(w, at, k) # <<>>
  BY <1>2, <1>3, PrefixFacts DEF FileBytes
<1>6. QED
  BY <1>2, <1>3, <1>4, <1>5

\* The fields of a reader, by its kind.
LEMMA NodeFacts ==
  ASSUME NEW r \in Node
  PROVE  /\ r.kind = "slice" => r \in [kind : {"slice"}, data : Seq(Nat)]
         /\ r.kind = "cursor" => r \in [kind : {"cursor"}, data : Seq(Nat), pos : Nat]
         /\ r.kind = "file" => r \in [kind : {"file"}, readable : BOOLEAN]
         /\ r.kind \in Buffered =>
              r \in [kind : Buffered, cap : Nat \ {0}, buffer : Seq(Nat), inner : Nat]
         /\ r.kind = "take" => r \in [kind : {"take"}, limit : Nat, inner : Nat]
         /\ r.kind = "chain" =>
              r \in [kind : {"chain"}, first : Nat, second : Nat, done_first : BOOLEAN]
         /\ r.kind \in {"slice", "cursor", "empty", "repeat", "file", "take", "chain"}
                       \cup Streams \cup Buffered
BY DEF Node, Streams, Buffered

\* What calls do to one of the readers.
Became(r, s) ==
  /\ s \in Node /\ s.kind = r.kind
  /\ r.kind \in {"slice", "cursor"} => Len(s.data) <= Len(r.data)
  /\ r.kind = "cursor" /\ r.pos > Len(r.data) => s.pos > Len(s.data)
  /\ r.kind \in Adaptors => s.inner = r.inner
  /\ r.kind \in Buffered => s.cap = r.cap /\ (Len(r.buffer) <= r.cap => Len(s.buffer) <= r.cap)
  /\ r.kind = "chain" => s.first = r.first /\ s.second = r.second /\ (r.done_first => s.done_first)

Later(t, u) == Len(u) = Len(t) /\ \A i \in 1 .. Len(t) : Became(t[i], u[i])

\* What they do to the kernel.
Drained(w, v) ==
  /\ v.file = w.file /\ v.closed = w.closed
  /\ Len(v.stream) <= Len(w.stream)
  /\ w.pos > Len(w.file) => v.pos > Len(w.file)

LEMMA BecameRefl == \A r \in Node : Became(r, r)
<1>1. TAKE r \in Node
<1>2. /\ r.kind \in {"slice", "cursor"} => Len(r.data) \in Nat
      /\ r.kind \in Buffered => Len(r.buffer) \in Nat /\ r.cap \in Nat
  BY NodeFacts
<1>3. QED
  BY <1>2 DEF Became

LEMMA BecameTrans ==
  ASSUME NEW r \in Node, NEW s, NEW q, Became(r, s), Became(s, q)
  PROVE  Became(r, q)
<1>1. s \in Node /\ q \in Node /\ s.kind = r.kind /\ q.kind = r.kind
  BY DEF Became
<1>2. r.kind \in {"slice", "cursor"} => Len(q.data) <= Len(r.data)
  <2>1. HAVE r.kind \in {"slice", "cursor"}
  <2>2. Len(r.data) \in Nat /\ Len(s.data) \in Nat /\ Len(q.data) \in Nat
    BY <1>1, <2>1, NodeFacts
  <2>3. QED
    BY <1>1, <2>1, <2>2 DEF Became
<1>3. QED
  BY <1>1, <1>2 DEF Became

LEMMA LaterRefl == \A t \in Readers : Later(t, t)
BY BecameRefl DEF Later, Readers

LEMMA LaterTrans ==
  ASSUME NEW t \in Readers, NEW u \in Readers, NEW v \in Readers, Later(t, u), Later(u, v)
  PROVE  Later(t, v)
<1>1. \A i \in 1 .. Len(t) : t[i] \in Node
  BY DEF Readers
<1>2. QED
  BY <1>1, BecameTrans DEF Later

LEMMA LaterIsReaders ==
  ASSUME NEW t \in Readers, NEW u \in Seq(Node), Later(t, u)
  PROVE  u \in Readers
<1>1. t \in Seq(Node) /\ DOMAIN u = 1 .. Len(t) /\ DOMAIN t = 1 .. Len(t)
  BY DEF Readers, Later
<1>2. ASSUME NEW n \in 1 .. Len(t)
      PROVE  Inside(u[n]) = Inside(t[n])
  <2>1. Became(t[n], u[n])
    BY <1>2 DEF Later
  <2>2. QED
    BY <2>1 DEF Inside, Became
<1>3. ASSUME NEW n \in 1 .. Len(t), u[n].kind = "stdin"
      PROVE  u[u[n].inner].kind = "pipe"
  <2>1. Became(t[n], u[n])
    BY <1>3 DEF Later
  <2>2. t[n].kind = "stdin" /\ u[n].inner = t[n].inner
    BY <1>3, <2>1 DEF Became, Adaptors, Buffered
  <2>3. t[n].inner \in 1 .. n - 1 /\ t[t[n].inner].kind = "pipe"
    BY <1>1, <2>2 DEF Readers, Inside, Adaptors, Buffered
  <2>4. Became(t[t[n].inner], u[t[n].inner])
    BY <2>3 DEF Later
  <2>5. QED
    BY <2>2, <2>3, <2>4 DEF Became
<1>4. QED
  BY <1>1, <1>2, <1>3 DEF Readers

With(t, n, s) == [t EXCEPT ![n] = s]

LEMMA SetReader ==
  ASSUME NEW n, NEW t \in Having(n), NEW s, Became(t[n], s)
  PROVE  /\ With(t, n, s) \in Having(n) /\ Later(t, With(t, n, s)) /\ With(t, n, s)[n] = s
         /\ \A i \in 1 .. Len(t) : i # n => With(t, n, s)[i] = t[i]
<1> DEFINE u == With(t, n, s)
<1>1. t \in Seq(Node) /\ n \in 1 .. Len(t) /\ s \in Node /\ t \in Readers
  BY DEF Having, Readers, Became
<1>2. u \in Seq(Node) /\ Len(u) = Len(t) /\ u[n] = s
  BY <1>1 DEF With
<1>3. \A i \in 1 .. Len(t) : i # n => u[i] = t[i]
  BY <1>1 DEF With
<1> HIDE DEF u
<1>4. \A i \in 1 .. Len(t) : t[i] \in Node
  BY <1>1
<1>5. Later(t, u)
  BY <1>2, <1>3, <1>4, BecameRefl DEF Later
<1>6. u \in Readers
  BY <1>1, <1>2, <1>5, LaterIsReaders
<1>7. u \in Having(n)
  BY <1>1, <1>2, <1>6 DEF Having
<1>8. QED
  BY <1>2, <1>3, <1>5, <1>7 DEF u

LEMMA DrainedFacts ==
  /\ \A w \in Kernel : Drained(w, w)
  /\ \A u, v, w \in Kernel : Drained(u, v) /\ Drained(v, w) => Drained(u, w)
<1>1. \A w \in Kernel : Len(w.stream) \in Nat
  BY DEF Kernel
<1>2. QED
  BY <1>1 DEF Drained

-----------------------------------------------------------------------------
(***************************************************************************)
(* What read and fill_buf leave behind                                     *)
(***************************************************************************)

Outcomes == [how : {"ok", "blocks", "fails"}, out : Seq(Nat), t : Readers, w : Kernel]

\* An outcome o of a call c of a method of the n-th reader.
Valid(n, c, o) ==
  /\ o \in Outcomes
  /\ o.how # "ok" => o.out = <<>>
  /\ Later(c.t, o.t) /\ Drained(c.w, o.w)
  /\ \A i \in n + 1 .. Len(c.t) : o.t[i] = c.t[i]

ValidRead(n, c) ==
  Valid(n, c, Methods[n].read[c]) /\ Len(Methods[n].read[c].out) <= c.k

LEMMA CallFacts ==
  ASSUME NEW n, NEW c \in Calls(n)
  PROVE  /\ n \in 1 .. Len(c.t) /\ c.t[n] \in Node /\ c.k \in Nat /\ c.w \in Kernel
         /\ c.t \in Having(n) /\ c.t \in Readers /\ Len(c.t) \in Nat
         /\ \A i \in 1 .. Len(c.t) : c.t[i] \in Node
<1>1. c.t \in Having(n) /\ c.k \in Nat /\ c.w \in Kernel
  BY DEF Calls
<1>2. c.t \in Readers /\ \A i \in 1 .. Len(c.t) : c.t[i] \in Node
  BY <1>1 DEF Having, Readers
<1>3. QED
  BY <1>1, <1>2, InsideFacts

\* A call may be passed on to a reader inside.
LEMMA CallInside ==
  ASSUME NEW n, NEW c \in Calls(n), NEW m \in 1 .. Len(c.t), NEW k \in Nat
  PROVE  /\ c \in Calls(m) /\ [c EXCEPT !.k = k] \in Calls(m)
         /\ [c EXCEPT !.k = k].k = k
         /\ [c EXCEPT !.k = k].t = c.t /\ [c EXCEPT !.k = k].w = c.w
<1>1. c.t \in Having(m)
  BY CallFacts DEF Having, Readers
<1>2. QED
  BY <1>1 DEF Calls

LEMMA CallAfter ==
  ASSUME NEW n, NEW c \in Calls(n), NEW o \in Outcomes, Later(c.t, o.t), NEW m \in 1 .. Len(c.t)
  PROVE  /\ After(c, o) \in Calls(m)
         /\ After(c, o).k = c.k /\ After(c, o).t = o.t /\ After(c, o).w = o.w
<1>1. o.t \in Readers /\ o.w \in Kernel
  BY DEF Outcomes
<1>2. m \in DOMAIN o.t
  BY <1>1 DEF Later, Readers
<1>3. o.t \in Having(m)
  BY <1>1, <1>2 DEF Having
<1>4. QED
  BY <1>1, <1>3 DEF After, Calls

\* A call of a reader before the n-th leaves the n-th as it was.
LEMMA ValidKeeps ==
  ASSUME NEW n \in Nat, NEW c \in Calls(n), NEW o, Valid(n - 1, c, o)
  PROVE  /\ o.t \in Having(n) /\ o.t[n] = c.t[n] /\ Len(o.t) = Len(c.t)
         /\ o.t \in Readers /\ o.w \in Kernel /\ o.out \in Seq(Nat)
<1>1. /\ n \in 1 .. Len(c.t) /\ c.t \in Readers /\ Len(c.t) \in Nat
      /\ o \in Outcomes /\ Later(c.t, o.t)
      /\ \A i \in n .. Len(c.t) : o.t[i] = c.t[i]
  BY CallFacts DEF Valid
<1>2. o.t \in Readers /\ o.w \in Kernel /\ o.out \in Seq(Nat) /\ Len(o.t) = Len(c.t)
  BY <1>1 DEF Outcomes, Later
<1>3. o.t \in Having(n) /\ o.t[n] = c.t[n]
  BY <1>1, <1>2 DEF Having, Readers
<1>4. QED
  BY <1>2, <1>3

\* The n-th reader changes after one before it has been called.
LEMMA ValidAfterSet ==
  ASSUME NEW n \in Nat, NEW c \in Calls(n), NEW o, Valid(n - 1, c, o),
         NEW how \in {"ok", "blocks", "fails"}, NEW out \in Seq(Nat), how # "ok" => out = <<>>,
         NEW s, Became(c.t[n], s)
  PROVE  Valid(n, c, Outcome(how, out, With(o.t, n, s), o.w))
<1> DEFINE u == With(o.t, n, s)
<1>1. /\ n \in 1 .. Len(c.t) /\ c.t \in Readers /\ c.w \in Kernel /\ Len(c.t) \in Nat
      /\ Later(c.t, o.t) /\ Drained(c.w, o.w)
      /\ \A i \in n .. Len(c.t) : o.t[i] = c.t[i]
  BY CallFacts DEF Valid
<1>2. o.t \in Readers /\ o.w \in Kernel /\ Len(o.t) = Len(c.t) /\ o.t \in Having(n)
  BY ValidKeeps
<1>3. Became(o.t[n], s)
  BY ValidKeeps
<1>4. /\ u \in Having(n) /\ Later(o.t, u)
      /\ \A i \in 1 .. Len(o.t) : i # n => u[i] = o.t[i]
  BY <1>2, <1>3, SetReader
<1> HIDE DEF u
<1>5. u \in Readers
  BY <1>4 DEF Having
<1>6. Later(c.t, u)
  BY <1>1, <1>2, <1>4, <1>5, LaterTrans
<1>7. Outcome(how, out, u, o.w) \in Outcomes
  BY <1>2, <1>5 DEF Outcome, Outcomes
<1>8. \A i \in n + 1 .. Len(c.t) : u[i] = c.t[i]
  BY <1>1, <1>2, <1>4
<1>9. Valid(n, c, Outcome(how, out, u, o.w))
  BY <1>1, <1>6, <1>7, <1>8 DEF Valid, Outcome
<1>10. QED
  BY <1>9 DEF u

\* A call that changes nothing but the n-th reader and the kernel.
LEMMA ValidSet ==
  ASSUME NEW n \in Nat, NEW c \in Calls(n), NEW out \in Seq(Nat),
         NEW s, Became(c.t[n], s), NEW w \in Kernel, Drained(c.w, w)
  PROVE  Valid(n, c, Outcome("ok", out, With(c.t, n, s), w))
<1> DEFINE o == Outcome("ok", <<>>, c.t, w)
<1>1. c.t \in Readers /\ Later(c.t, c.t)
  BY CallFacts, LaterRefl
<1>2. Valid(n - 1, c, o)
  BY <1>1 DEF Valid, Outcome, Outcomes
<1>3. o.t = c.t /\ o.w = w
  BY DEF Outcome
<1> HIDE DEF o
<1>4. "ok" \in {"ok", "blocks", "fails"} /\ ("ok" # "ok" => out = <<>>)
  OBVIOUS
<1>5. Valid(n, c, Outcome("ok", out, With(o.t, n, s), o.w))
  BY <1>2, <1>4, ValidAfterSet
<1>6. QED
  BY <1>3, <1>5

LEMMA ValidSame ==
  ASSUME NEW n \in Nat, NEW c \in Calls(n), NEW how \in {"ok", "blocks", "fails"},
         NEW out \in Seq(Nat), how # "ok" => out = <<>>, NEW w \in Kernel, Drained(c.w, w)
  PROVE  Valid(n, c, Outcome(how, out, c.t, w))
<1>1. c.t \in Readers /\ Later(c.t, c.t)
  BY CallFacts, LaterRefl
<1>2. Outcome(how, out, c.t, w) \in Outcomes
  BY <1>1 DEF Outcome, Outcomes
<1>3. QED
  BY <1>1, <1>2 DEF Valid, Outcome

LEMMA ValidWider ==
  ASSUME NEW n \in Nat, NEW m \in 0 .. n, NEW c, NEW o, Valid(m, c, o)
  PROVE  Valid(n, c, o)
BY DEF Valid

LEMMA ValidThen ==
  ASSUME NEW n \in Nat, NEW c \in Calls(n), NEW one, Valid(n, c, one),
         NEW two, Valid(n, After(c, one), two)
  PROVE  Valid(n, c, two)
<1>1. /\ c.t \in Readers /\ c.w \in Kernel /\ n \in 1 .. Len(c.t) /\ Len(c.t) \in Nat
      /\ one \in Outcomes /\ two \in Outcomes
      /\ Later(c.t, one.t) /\ Drained(c.w, one.w)
      /\ \A i \in n + 1 .. Len(c.t) : one.t[i] = c.t[i]
  BY CallFacts DEF Valid
<1>2. After(c, one).t = one.t /\ After(c, one).w = one.w
  BY <1>1, CallAfter
<1>3. /\ Later(one.t, two.t) /\ Drained(one.w, two.w)
      /\ \A i \in n + 1 .. Len(one.t) : two.t[i] = one.t[i]
      /\ two.how # "ok" => two.out = <<>>
  BY <1>2 DEF Valid
<1>4. /\ one.t \in Readers /\ one.w \in Kernel /\ two.t \in Readers /\ two.w \in Kernel
      /\ Len(one.t) = Len(c.t)
  BY <1>1 DEF Outcomes, Later
<1>5. Later(c.t, two.t)
  BY <1>1, <1>3, <1>4, LaterTrans
<1>6. Drained(c.w, two.w)
  BY <1>1, <1>3, <1>4, DrainedFacts
<1>7. \A i \in n + 1 .. Len(c.t) : two.t[i] = c.t[i]
  BY <1>1, <1>3, <1>4
<1>8. QED
  BY <1>1, <1>3, <1>5, <1>6, <1>7 DEF Valid

LEMMA ReadLeafIsValid ==
  ASSUME NEW n \in Nat, NEW c \in Calls(n), c.t[n].kind \notin Adaptors \cup {"chain"}
  PROVE  Valid(n, c, ReadLeaf(n, c)) /\ Len(ReadLeaf(n, c).out) <= c.k
<1> DEFINE r == c.t[n]
<1>1. r \in Node /\ c.k \in Nat /\ c.w \in Kernel /\ Drained(c.w, c.w)
  BY CallFacts, DrainedFacts
<1>2. c.w.stream \in Seq(Nat) /\ c.w.pos \in Nat /\ c.w.file \in Seq(Nat)
  BY <1>1 DEF Kernel
<1>s. /\ Streams = {"socket", "pipe", "windows_pipe"}
      /\ Adaptors = {"buf", "stdin", "take"} /\ Buffered = {"buf", "stdin"}
  BY DEF Streams, Adaptors, Buffered
<1>o. \A how, out, t, w : /\ Outcome(how, out, t, w).out = out
                          /\ Outcome(how, out, t, w).how = how
  BY DEF Outcome
<1>v. \A out \in Seq(Nat), w \in Kernel :
        Drained(c.w, w) => Valid(n, c, Outcome("ok", out, c.t, w))
  <2>1. "ok" \in {"ok", "blocks", "fails"} /\ \A out : "ok" # "ok" => out = <<>>
    OBVIOUS
  <2>2. QED
    BY <2>1, ValidSame
<1>w. \A how \in {"blocks", "fails"} : Valid(n, c, Outcome(how, <<>>, c.t, c.w))
  <2>1. TAKE how \in {"blocks", "fails"}
  <2>2. how \in {"ok", "blocks", "fails"} /\ <<>> \in Seq(Nat)
    OBVIOUS
  <2>3. QED
    BY <1>1, <2>2, ValidSame
<1>3. CASE r.kind = "slice"
  <2> DEFINE s == [r EXCEPT !.data = Rest(r.data, c.k)]
             out == Prefix(r.data, c.k)
  <2>1. r \in [kind : {"slice"}, data : Seq(Nat)]
    BY <1>1, <1>3, NodeFacts
  <2>2. Rest(r.data, c.k) \in Seq(Nat) /\ Len(Rest(r.data, c.k)) <= Len(r.data)
    BY <1>1, <2>1, RestFacts
  <2>3. s \in [kind : {"slice"}, data : Seq(Nat)] /\ s.data = Rest(r.data, c.k)
    BY <2>1, <2>2
  <2>4. Became(r, s)
    BY <1>s, <1>3, <2>1, <2>2, <2>3 DEF Became, Node
  <2>5. out \in Seq(Nat) /\ Len(out) <= c.k
    BY <1>1, <2>1, PrefixFacts
  <2>6. ReadLeaf(n, c) = Outcome("ok", out, With(c.t, n, s), c.w)
    BY <1>s, <1>3 DEF ReadLeaf, With
  <2> HIDE DEF s, out
  <2>7. Valid(n, c, ReadLeaf(n, c))
    BY <1>1, <2>4, <2>5, <2>6, ValidSet
  <2>8. QED
    BY <1>o, <2>5, <2>6, <2>7
<1>4. CASE r.kind = "cursor"
  <2> DEFINE out == Prefix(Rest(r.data, r.pos), c.k)
             s == [r EXCEPT !.pos = r.pos + Len(out)]
  <2>1. r \in [kind : {"cursor"}, data : Seq(Nat), pos : Nat]
    BY <1>1, <1>4, NodeFacts
  <2>2. Rest(r.data, r.pos) \in Seq(Nat)
    BY <2>1, RestFacts
  <2>3. out \in Seq(Nat) /\ Len(out) <= c.k
    BY <1>1, <2>2, PrefixFacts
  <2>4. ReadLeaf(n, c) = Outcome("ok", out, With(c.t, n, s), c.w)
    BY <1>s, <1>4 DEF ReadLeaf, With
  <2> HIDE DEF out
  <2>5. /\ s \in [kind : {"cursor"}, data : Seq(Nat), pos : Nat]
        /\ s.data = r.data /\ s.pos = r.pos + Len(out)
    BY <2>1, <2>3
  <2>6. Became(r, s)
    BY <1>s, <1>4, <2>1, <2>3, <2>5 DEF Became, Node
  <2> HIDE DEF s
  <2>7. Valid(n, c, ReadLeaf(n, c))
    BY <1>1, <2>3, <2>4, <2>6, ValidSet
  <2>8. QED
    BY <1>o, <2>3, <2>4, <2>7
<1>5. CASE r.kind = "empty"
  <2>1. ReadLeaf(n, c) = Outcome("ok", <<>>, c.t, c.w)
    BY <1>s, <1>5 DEF ReadLeaf
  <2>2. Valid(n, c, ReadLeaf(n, c))
    <3>1. <<>> \in Seq(Nat)
      OBVIOUS
    <3>2. QED
      BY <1>1, <1>v, <2>1, <3>1
  <2>3. QED
    BY <1>1, <1>o, <2>1, <2>2
<1>6. CASE r.kind = "repeat"
  <2> DEFINE out == [i \in 1 .. c.k |-> Zero]
  <2>1. out \in Seq(Nat) /\ Len(out) = c.k
    BY <1>1 DEF Zero
  <2>2. ReadLeaf(n, c) = Outcome("ok", out, c.t, c.w)
    BY <1>s, <1>6 DEF ReadLeaf
  <2> HIDE DEF out
  <2>3. Valid(n, c, ReadLeaf(n, c))
    BY <1>1, <1>v, <2>1, <2>2
  <2>4. QED
    BY <1>1, <1>o, <2>1, <2>2, <2>3
<1>7. CASE r.kind \in Streams /\ c.w.stream = <<>> /\ ~c.w.closed
  <2>1. ReadLeaf(n, c) = Outcome("blocks", <<>>, c.t, c.w)
    BY <1>s, <1>7 DEF ReadLeaf
  <2>2. Valid(n, c, ReadLeaf(n, c))
    BY <1>w, <2>1
  <2>3. QED
    BY <1>1, <1>o, <2>1, <2>2
<1>8. CASE r.kind \in Streams /\ ~(c.w.stream = <<>> /\ ~c.w.closed)
  <2> DEFINE out == Prefix(c.w.stream, c.k)
             w == [c.w EXCEPT !.stream = Rest(c.w.stream, c.k)]
  <2>1. out \in Seq(Nat) /\ Len(out) <= c.k
    BY <1>1, <1>2, PrefixFacts
  <2>2. /\ Rest(c.w.stream, c.k) \in Seq(Nat)
        /\ Len(Rest(c.w.stream, c.k)) <= Len(c.w.stream)
    BY <1>1, <1>2, RestFacts
  <2>3. w \in Kernel /\ Drained(c.w, w)
    BY <1>1, <1>2, <2>2 DEF Kernel, Drained
  <2>4. ReadLeaf(n, c) = Outcome("ok", out, c.t, w)
    BY <1>s, <1>8 DEF ReadLeaf
  <2> HIDE DEF out, w
  <2>5. Valid(n, c, ReadLeaf(n, c))
    BY <1>v, <2>1, <2>3, <2>4
  <2>6. QED
    BY <1>o, <2>1, <2>4, <2>5
<1>9. CASE r.kind = "file" /\ r.readable
  <2> DEFINE out == FileBytes(c.w, c.w.pos, c.k)
             w == [c.w EXCEPT !.pos = c.w.pos + Len(out)]
  <2>1. out \in Seq(Nat) /\ Len(out) <= c.k
    BY <1>1, <1>2, FileBytesFacts
  <2>2. ReadLeaf(n, c) = Outcome("ok", out, c.t, w)
    BY <1>s, <1>9 DEF ReadLeaf
  <2> HIDE DEF out
  <2>3. w \in Kernel /\ Drained(c.w, w)
    <3>1. Len(out) \in Nat /\ Len(c.w.file) \in Nat /\ Len(c.w.stream) \in Nat
      BY <1>2, <2>1
    <3>2. w \in Kernel
      <4>1. c.w.pos + Len(out) \in Nat
        BY <1>2, <3>1
      <4>2. QED
        BY <1>1, <4>1 DEF Kernel
    <3>3. /\ w.stream = c.w.stream /\ w.closed = c.w.closed /\ w.file = c.w.file
          /\ w.pos = c.w.pos + Len(out)
      BY <1>1 DEF Kernel
    <3> HIDE DEF w
    <3>4. QED
      BY <1>2, <3>1, <3>2, <3>3 DEF Drained
  <2> HIDE DEF w
  <2>4. Valid(n, c, ReadLeaf(n, c))
    BY <1>v, <2>1, <2>2, <2>3
  <2>5. QED
    BY <1>o, <2>1, <2>2, <2>4
<1>10. CASE r.kind = "file" /\ ~r.readable
  <2>1. ReadLeaf(n, c) = Outcome("fails", <<>>, c.t, c.w)
    BY <1>s, <1>10 DEF ReadLeaf
  <2>2. Valid(n, c, ReadLeaf(n, c))
    BY <1>w, <2>1
  <2>3. QED
    BY <1>1, <1>o, <2>1, <2>2
<1>11. QED
  BY <1>s, <1>1, <1>3, <1>4, <1>5, <1>6, <1>7, <1>8, <1>9, <1>10, NodeFacts

\* The reads of the readers before the n-th are valid.
ReadsBelow(n) == \A m \in 1 .. n - 1 : \A c \in Calls(m) : ValidRead(m, c)

LEMMA InnerRead ==
  ASSUME NEW n \in Nat, ReadsBelow(n), NEW c \in Calls(n), NEW m \in 1 .. n - 1
  PROVE  /\ Valid(n - 1, c, Methods[m].read[c])
         /\ Len(Methods[m].read[c].out) <= c.k
<1>1. m \in 1 .. Len(c.t) /\ c.k \in Nat
  BY CallFacts
<1>2. c \in Calls(m)
  BY <1>1, CallInside
<1>3. ValidRead(m, c)
  BY <1>2 DEF ReadsBelow
<1>4. n - 1 \in Nat /\ m \in 1 .. n - 1
  OBVIOUS
<1>5. QED
  BY <1>3, <1>4, ValidWider DEF ValidRead

LEMMA InnerReadOf ==
  ASSUME NEW n \in Nat, ReadsBelow(n), NEW c \in Calls(n), NEW m \in 1 .. n - 1, NEW k \in Nat
  PROVE  /\ Valid(n - 1, c, Methods[m].read[[c EXCEPT !.k = k]])
         /\ Len(Methods[m].read[[c EXCEPT !.k = k]].out) <= k
<1> DEFINE d == [c EXCEPT !.k = k]
<1>1. n \in 1 .. Len(c.t)
  BY CallFacts
<1>2. d \in Calls(n) /\ d.k = k /\ d.t = c.t /\ d.w = c.w
  BY <1>1, CallInside
<1> HIDE DEF d
<1>3. Valid(n - 1, d, Methods[m].read[d]) /\ Len(Methods[m].read[d].out) <= d.k
  BY <1>2, InnerRead
<1>4. Valid(n - 1, c, Methods[m].read[d]) /\ Len(Methods[m].read[d].out) <= k
  BY <1>2, <1>3 DEF Valid
<1>5. QED
  BY <1>4 DEF d

\* What the adaptors make of the outcome o of a call inside.
LEMMA ReadTakeIs ==
  ASSUME NEW n \in Nat, NEW c \in Calls(n), c.t[n].limit # 0,
         NEW o, o = Methods[c.t[n].inner].read[[c EXCEPT !.k = Least(c.k, c.t[n].limit)]],
         Valid(n - 1, c, o)
  PROVE  ReadTake(Methods, n, c) =
           Outcome(o.how, o.out,
                   With(o.t, n, [c.t[n] EXCEPT !.limit = c.t[n].limit - Len(o.out)]), o.w)
<1>1. o.t[n] = c.t[n] /\ o \in Outcomes
  BY ValidKeeps DEF Valid
<1>2. ReadTake(Methods, n, c) = [o EXCEPT !.t[n].limit = o.t[n].limit - Len(o.out)]
  BY DEF ReadTake
<1>3. QED
  BY <1>1, <1>2 DEF Outcomes, Outcome, With

LEMMA FillReaderIs ==
  ASSUME NEW n \in Nat, NEW c \in Calls(n), c.t[n].buffer = <<>>,
         NEW o, o = Methods[c.t[n].inner].read[[c EXCEPT !.k = c.t[n].cap]],
         Valid(n - 1, c, o)
  PROVE  FillReader(Methods, n, c) =
           Outcome(o.how, o.out, With(o.t, n, [c.t[n] EXCEPT !.buffer = o.out]), o.w)
<1>1. o.t[n] = c.t[n] /\ o \in Outcomes
  BY ValidKeeps DEF Valid
<1>2. FillReader(Methods, n, c) = [o EXCEPT !.t[n].buffer = o.out]
  BY DEF FillReader
<1>3. QED
  BY <1>1, <1>2 DEF Outcomes, Outcome, With

LEMMA ReadBufHeld ==
  ASSUME NEW n \in Nat, NEW c \in Calls(n), c.t[n].buffer # <<>>
  PROVE  ReadBuf(Methods, n, c) =
           Outcome("ok", Prefix(c.t[n].buffer, c.k),
                   With(c.t, n, [c.t[n] EXCEPT !.buffer = Rest(c.t[n].buffer, c.k)]), c.w)
<1>1. FillReader(Methods, n, c) = Outcome("ok", c.t[n].buffer, c.t, c.w)
  BY DEF FillReader
<1>2. QED
  BY <1>1 DEF ReadBuf, Outcome, With

LEMMA ReadBufDirect ==
  ASSUME NEW n \in Nat, NEW c \in Calls(n), c.t[n].buffer = <<>>, c.k >= c.t[n].cap
  PROVE  ReadBuf(Methods, n, c) = Methods[c.t[n].inner].read[c]
BY DEF ReadBuf

LEMMA ReadBufFilled ==
  ASSUME NEW n \in Nat, NEW c \in Calls(n), c.t[n].kind \in Buffered,
         c.t[n].buffer = <<>>, ~(c.k >= c.t[n].cap),
         NEW o, o = Methods[c.t[n].inner].read[[c EXCEPT !.k = c.t[n].cap]],
         Valid(n - 1, c, o)
  PROVE  ReadBuf(Methods, n, c) =
           Outcome(o.how, Prefix(o.out, c.k),
                   With(o.t, n, [c.t[n] EXCEPT !.buffer = Rest(o.out, c.k)]), o.w)
<1> DEFINE u == With(o.t, n, [c.t[n] EXCEPT !.buffer = o.out])
           filled == Outcome(o.how, o.out, u, o.w)
<1>1. FillReader(Methods, n, c) = filled
  BY FillReaderIs
<1>2. o.t \in Having(n) /\ c.t[n] \in Node
  BY ValidKeeps, CallFacts
<1>3. o.t \in Seq(Node) /\ n \in DOMAIN o.t
  BY <1>2 DEF Having, Readers
<1>4. c.t[n] \in [kind : Buffered, cap : Nat \ {0}, buffer : Seq(Nat), inner : Nat]
  BY <1>2, NodeFacts
<1>5. u[n] = [c.t[n] EXCEPT !.buffer = o.out]
  BY <1>3 DEF With
<1>6. u[n].buffer = o.out
  BY <1>4, <1>5
<1>7. filled.how = o.how /\ filled.out = o.out /\ filled.t = u /\ filled.w = o.w
  BY DEF Outcome
<1>8. [u EXCEPT ![n].buffer = Rest(o.out, c.k)]
        = With(o.t, n, [c.t[n] EXCEPT !.buffer = Rest(o.out, c.k)])
  BY <1>3, <1>4, <1>5 DEF With
<1> HIDE DEF u, filled
<1>9. QED
  BY <1>1, <1>6, <1>7, <1>8 DEF ReadBuf

LEMMA ChainedIs ==
  ASSUME NEW n \in Nat, NEW c \in Calls(n), NEW one, one.how = "ok", one.out = <<>>,
         NEW two, Valid(n - 1, c, two)
  PROVE  Chained(n, one, two) =
           Outcome(two.how, two.out, With(two.t, n, [c.t[n] EXCEPT !.done_first = TRUE]), two.w)
<1>1. two.t[n] = c.t[n] /\ two \in Outcomes
  BY ValidKeeps DEF Valid
<1>2. Chained(n, one, two) = [two EXCEPT !.t[n].done_first = TRUE]
  BY DEF Chained
<1>3. QED
  BY <1>1, <1>2 DEF Outcomes, Outcome, With

\* What the adaptors become.
LEMMA BufBecomes ==
  ASSUME NEW r \in Node, r.kind \in Buffered, NEW b \in Seq(Nat),
         Len(b) <= r.cap \/ Len(b) <= Len(r.buffer)
  PROVE  Became(r, [r EXCEPT !.buffer = b]) /\ [r EXCEPT !.buffer = b].buffer = b
<1> DEFINE s == [r EXCEPT !.buffer = b]
<1>1. r \in [kind : Buffered, cap : Nat \ {0}, buffer : Seq(Nat), inner : Nat]
  BY NodeFacts
<1>2. /\ s \in [kind : Buffered, cap : Nat \ {0}, buffer : Seq(Nat), inner : Nat]
      /\ s.kind = r.kind /\ s.cap = r.cap /\ s.inner = r.inner /\ s.buffer = b
  BY <1>1
<1>3. Len(b) \in Nat /\ Len(r.buffer) \in Nat /\ r.cap \in Nat
  BY <1>1
<1> HIDE DEF s
<1>4. s \in Node
  BY <1>2 DEF Node
<1>5. r.kind \notin {"slice", "cursor", "chain"}
  BY DEF Buffered
<1>6. Became(r, s)
  BY <1>2, <1>3, <1>4, <1>5 DEF Became
<1>7. QED
  BY <1>2, <1>6 DEF s

LEMMA TakeBecomes ==
  ASSUME NEW r \in Node, r.kind = "take", NEW k \in Nat
  PROVE  Became(r, [r EXCEPT !.limit = k]) /\ [r EXCEPT !.limit = k].limit = k
<1> DEFINE s == [r EXCEPT !.limit = k]
<1>1. r \in [kind : {"take"}, limit : Nat, inner : Nat]
  BY NodeFacts
<1>2. /\ s \in [kind : {"take"}, limit : Nat, inner : Nat]
      /\ s.kind = "take" /\ s.inner = r.inner /\ s.limit = k
  BY <1>1
<1> HIDE DEF s
<1>3. s \in Node
  BY <1>2 DEF Node
<1>4. "take" \notin {"slice", "cursor", "chain"} \cup Buffered
  BY DEF Buffered
<1>5. Became(r, s)
  BY <1>2, <1>3, <1>4 DEF Became
<1>6. QED
  BY <1>2, <1>5 DEF s

LEMMA ChainBecomes ==
  ASSUME NEW r \in Node, r.kind = "chain"
  PROVE  /\ Became(r, [r EXCEPT !.done_first = TRUE])
         /\ [r EXCEPT !.done_first = TRUE].done_first = TRUE
<1> DEFINE s == [r EXCEPT !.done_first = TRUE]
<1>1. r \in [kind : {"chain"}, first : Nat, second : Nat, done_first : BOOLEAN]
  BY NodeFacts
<1>2. /\ s \in [kind : {"chain"}, first : Nat, second : Nat, done_first : BOOLEAN]
      /\ s.kind = "chain" /\ s.first = r.first /\ s.second = r.second /\ s.done_first = TRUE
  BY <1>1
<1> HIDE DEF s
<1>3. s \in Node
  BY <1>2 DEF Node
<1>4. "chain" \notin {"slice", "cursor"} \cup Adaptors \cup Buffered
  BY DEF Adaptors, Buffered
<1>5. Became(r, s)
  BY <1>2, <1>3, <1>4 DEF Became
<1>6. QED
  BY <1>2, <1>5 DEF s

LEMMA BothChained ==
  ASSUME NEW n \in Nat, NEW c \in Calls(n), c.t[n].kind = "chain",
         NEW one, Valid(n - 1, c, one), NEW two,
         one.how = "ok" /\ one.out = <<>> => Valid(n - 1, c, two)
  PROVE  Valid(n, c, Chained(n, one, two))
<1>1. n \in 1 .. Len(c.t) /\ c.t[n] \in Node
  BY CallFacts
<1>2. CASE one.how # "ok" \/ one.out # <<>>
  <2>1. Chained(n, one, two) = one
    BY <1>2 DEF Chained
  <2>2. QED
    BY <1>1, <2>1 DEF Valid
<1>3. CASE one.how = "ok" /\ one.out = <<>>
  <2> DEFINE s == [c.t[n] EXCEPT !.done_first = TRUE]
  <2>1. Valid(n - 1, c, two)
    BY <1>3
  <2>2. /\ two.how \in {"ok", "blocks", "fails"} /\ two.out \in Seq(Nat)
        /\ two.how # "ok" => two.out = <<>>
    BY <2>1 DEF Valid, Outcomes
  <2>3. Became(c.t[n], s)
    BY <1>1, ChainBecomes
  <2>4. Chained(n, one, two) = Outcome(two.how, two.out, With(two.t, n, s), two.w)
    BY <1>3, <2>1, ChainedIs
  <2> HIDE DEF s
  <2>5. Valid(n, c, Outcome(two.how, two.out, With(two.t, n, s), two.w))
    BY <2>1, <2>2, <2>3, ValidAfterSet
  <2>6. QED
    BY <2>4, <2>5
<1>4. QED
  BY <1>2, <1>3

LEMMA FillReaderIsValid ==
  ASSUME NEW n \in Nat, ReadsBelow(n), NEW c \in Calls(n), c.t[n].kind \in Buffered
  PROVE  Valid(n, c, FillReader(Methods, n, c))
<1> DEFINE r == c.t[n]
<1>1. r \in Node /\ c.k \in Nat /\ c.w \in Kernel /\ Drained(c.w, c.w)
  BY CallFacts, DrainedFacts
<1>2. /\ r \in [kind : Buffered, cap : Nat \ {0}, buffer : Seq(Nat), inner : Nat]
      /\ r.inner \in 1 .. n - 1
  BY <1>1, CallFacts, NodeFacts, InsideFacts DEF Adaptors
<1>3. CASE r.buffer # <<>>
  <2>1. FillReader(Methods, n, c) = Outcome("ok", r.buffer, c.t, c.w)
    BY <1>3 DEF FillReader
  <2>2. "ok" \in {"ok", "blocks", "fails"} /\ ("ok" # "ok" => r.buffer = <<>>)
    OBVIOUS
  <2>3. r.buffer \in Seq(Nat)
    BY <1>2
  <2>4. Valid(n, c, Outcome("ok", r.buffer, c.t, c.w))
    BY <1>1, <2>2, <2>3, ValidSame
  <2>5. QED
    BY <2>1, <2>4
<1>4. CASE r.buffer = <<>>
  <2> DEFINE o == Methods[r.inner].read[[c EXCEPT !.k = r.cap]]
             s == [r EXCEPT !.buffer = o.out]
  <2>1. r.cap \in Nat
    BY <1>2
  <2>2. Valid(n - 1, c, o) /\ Len(o.out) <= r.cap
    BY <1>2, <2>1, InnerReadOf
  <2>3. FillReader(Methods, n, c) = Outcome(o.how, o.out, With(o.t, n, s), o.w)
    BY <1>4, <2>2, FillReaderIs
  <2>4. /\ o.how \in {"ok", "blocks", "fails"} /\ o.out \in Seq(Nat)
        /\ o.how # "ok" => o.out = <<>>
    BY <2>2 DEF Valid, Outcomes
  <2>5. Became(r, s)
    BY <1>1, <2>2, <2>4, BufBecomes
  <2> HIDE DEF o, s
  <2>6. Valid(n, c, Outcome(o.how, o.out, With(o.t, n, s), o.w))
    BY <2>2, <2>4, <2>5, ValidAfterSet
  <2>7. QED
    BY <2>3, <2>6
<1>5. QED
  BY <1>3, <1>4

LEMMA ReadBufIsValid ==
  ASSUME NEW n \in Nat, ReadsBelow(n), NEW c \in Calls(n), c.t[n].kind \in Buffered
  PROVE  Valid(n, c, ReadBuf(Methods, n, c)) /\ Len(ReadBuf(Methods, n, c).out) <= c.k
<1> DEFINE r == c.t[n]
<1>1. /\ r \in Node /\ c.k \in Nat /\ c.w \in Kernel /\ Drained(c.w, c.w)
      /\ n \in 1 .. Len(c.t)
  BY CallFacts, DrainedFacts
<1>2. /\ r \in [kind : Buffered, cap : Nat \ {0}, buffer : Seq(Nat), inner : Nat]
      /\ r.inner \in 1 .. n - 1
  BY <1>1, CallFacts, NodeFacts, InsideFacts DEF Adaptors
<1>o. \A how, out, t, w : Outcome(how, out, t, w).out = out
  BY DEF Outcome
<1>3. CASE r.buffer # <<>>
  <2> DEFINE out == Prefix(r.buffer, c.k)
             b == Rest(r.buffer, c.k)
             s == [r EXCEPT !.buffer = b]
  <2>1. r.buffer \in Seq(Nat)
    BY <1>2
  <2>2. out \in Seq(Nat) /\ Len(out) <= c.k
    BY <1>1, <2>1, PrefixFacts
  <2>3. b \in Seq(Nat) /\ Len(b) <= Len(r.buffer)
    BY <1>1, <2>1, RestFacts
  <2>4. ReadBuf(Methods, n, c) = Outcome("ok", out, With(c.t, n, s), c.w)
    BY <1>3, ReadBufHeld
  <2> HIDE DEF out, b
  <2>5. Became(r, s)
    BY <1>1, <2>3, BufBecomes
  <2> HIDE DEF s
  <2>6. Valid(n, c, Outcome("ok", out, With(c.t, n, s), c.w))
    BY <1>1, <2>2, <2>5, ValidSet
  <2>7. QED
    BY <1>o, <2>2, <2>4, <2>6
<1>4. CASE r.buffer = <<>> /\ c.k >= r.cap
  <2>1. Valid(n - 1, c, Methods[r.inner].read[c]) /\ Len(Methods[r.inner].read[c].out) <= c.k
    BY <1>2, InnerRead
  <2>2. ReadBuf(Methods, n, c) = Methods[r.inner].read[c]
    BY <1>4, ReadBufDirect
  <2>3. n - 1 \in 0 .. n
    BY <1>2
  <2>4. Valid(n, c, Methods[r.inner].read[c])
    BY <2>1, <2>3, ValidWider
  <2>5. QED
    BY <2>1, <2>2, <2>4
<1>5. CASE r.buffer = <<>> /\ ~(c.k >= r.cap)
  <2> DEFINE o == Methods[r.inner].read[[c EXCEPT !.k = r.cap]]
             out == Prefix(o.out, c.k)
             b == Rest(o.out, c.k)
             s == [r EXCEPT !.buffer = b]
  <2>1. r.cap \in Nat
    BY <1>2
  <2>2. Valid(n - 1, c, o) /\ Len(o.out) <= r.cap
    BY <1>2, <2>1, InnerReadOf
  <2>3. ReadBuf(Methods, n, c) = Outcome(o.how, out, With(o.t, n, s), o.w)
    BY <1>5, <2>2, ReadBufFilled
  <2> HIDE DEF o
  <2>4. /\ o.how \in {"ok", "blocks", "fails"} /\ o.out \in Seq(Nat)
        /\ o.how # "ok" => o.out = <<>>
    BY <2>2 DEF Valid, Outcomes
  <2>5. out \in Seq(Nat) /\ Len(out) <= c.k /\ Len(out) <= Len(o.out)
    BY <1>1, <2>4, PrefixFacts
  <2>6. o.how # "ok" => out = <<>>
    BY <2>4, <2>5
  <2>7. b \in Seq(Nat) /\ Len(b) <= Len(o.out)
    BY <1>1, <2>4, RestFacts
  <2>8. Len(b) <= r.cap
    BY <2>1, <2>2, <2>4, <2>7
  <2> HIDE DEF out, b
  <2>9. Became(r, s)
    BY <1>1, <2>7, <2>8, BufBecomes
  <2> HIDE DEF s
  <2>10. Valid(n, c, Outcome(o.how, out, With(o.t, n, s), o.w))
    BY <2>2, <2>4, <2>5, <2>6, <2>9, ValidAfterSet
  <2>11. QED
    BY <1>o, <2>3, <2>5, <2>10
<1>6. QED
  BY <1>3, <1>4, <1>5

LEMMA ReadTakeIsValid ==
  ASSUME NEW n \in Nat, ReadsBelow(n), NEW c \in Calls(n), c.t[n].kind = "take"
  PROVE  Valid(n, c, ReadTake(Methods, n, c)) /\ Len(ReadTake(Methods, n, c).out) <= c.k
<1> DEFINE r == c.t[n]
<1>1. r \in Node /\ c.k \in Nat /\ c.w \in Kernel /\ Drained(c.w, c.w)
  BY CallFacts, DrainedFacts
<1>2. /\ r \in [kind : {"take"}, limit : Nat, inner : Nat]
      /\ r.inner \in 1 .. n - 1
  BY <1>1, CallFacts, NodeFacts, InsideFacts DEF Adaptors
<1>o. \A how, out, t, w : Outcome(how, out, t, w).out = out
  BY DEF Outcome
<1>3. CASE r.limit = 0
  <2>1. ReadTake(Methods, n, c) = Outcome("ok", <<>>, c.t, c.w)
    BY <1>3 DEF ReadTake
  <2>2. "ok" \in {"ok", "blocks", "fails"} /\ <<>> \in Seq(Nat) /\ ("ok" # "ok" => <<>> = <<>>)
    OBVIOUS
  <2>3. Valid(n, c, Outcome("ok", <<>>, c.t, c.w))
    BY <1>1, <2>2, ValidSame
  <2>4. QED
    BY <1>1, <1>o, <2>1, <2>3
<1>4. CASE r.limit # 0
  <2> DEFINE k == Least(c.k, r.limit)
             o == Methods[r.inner].read[[c EXCEPT !.k = k]]
             left == r.limit - Len(o.out)
             s == [r EXCEPT !.limit = left]
  <2>1. k \in Nat /\ k <= c.k /\ k <= r.limit /\ r.limit \in Nat
    BY <1>1, <1>2 DEF Least
  <2>2. Valid(n - 1, c, o) /\ Len(o.out) <= k
    BY <1>2, <2>1, InnerReadOf
  <2>3. ReadTake(Methods, n, c) = Outcome(o.how, o.out, With(o.t, n, s), o.w)
    BY <1>4, <2>2, ReadTakeIs
  <2> HIDE DEF k, o
  <2>4. /\ o.how \in {"ok", "blocks", "fails"} /\ o.out \in Seq(Nat)
        /\ o.how # "ok" => o.out = <<>>
    BY <2>2 DEF Valid, Outcomes
  <2>5. left \in Nat /\ Len(o.out) <= c.k
    BY <1>1, <2>1, <2>2, <2>4
  <2> HIDE DEF left
  <2>6. Became(r, s)
    BY <1>1, <1>2, <2>5, TakeBecomes
  <2> HIDE DEF s
  <2>7. Valid(n, c, Outcome(o.how, o.out, With(o.t, n, s), o.w))
    BY <2>2, <2>4, <2>6, ValidAfterSet
  <2>8. QED
    BY <1>o, <2>3, <2>5, <2>7
<1>5. QED
  BY <1>3, <1>4

\* Where a Chain reads first.
LEMMA LeftFirstIsValid ==
  ASSUME NEW n \in Nat, NEW m \in 0 .. n, NEW c \in Calls(n)
  PROVE  Valid(m, c, LeftFirst(c)) /\ After(c, LeftFirst(c)) = c
<1>1. c.t \in Readers /\ c.w \in Kernel /\ Later(c.t, c.t) /\ Drained(c.w, c.w)
  BY CallFacts, LaterRefl, DrainedFacts
<1>2. Valid(m, c, LeftFirst(c))
  BY <1>1 DEF Valid, LeftFirst, Outcome, Outcomes
<1>3. After(c, LeftFirst(c)) = c
  BY DEF After, LeftFirst, Outcome, Calls
<1>4. QED
  BY <1>2, <1>3

LEMMA SecondRead ==
  ASSUME NEW n \in Nat, ReadsBelow(n), NEW c \in Calls(n), c.t[n].kind = "chain",
         NEW one, Valid(n - 1, c, one)
  PROVE  /\ Valid(n - 1, c, Methods[c.t[n].second].read[After(c, one)])
         /\ Len(Methods[c.t[n].second].read[After(c, one)].out) <= c.k
<1> DEFINE m == c.t[n].second
           d == After(c, one)
<1>1. m \in 1 .. n - 1 /\ n \in 1 .. Len(c.t) /\ Len(c.t) \in Nat
  BY CallFacts, InsideFacts
<1>2. one \in Outcomes /\ Later(c.t, one.t)
  BY DEF Valid
<1>3. d \in Calls(n) /\ d.k = c.k
  BY <1>1, <1>2, CallAfter
<1>4. Valid(n - 1, d, Methods[m].read[d]) /\ Len(Methods[m].read[d].out) <= c.k
  BY <1>1, <1>3, InnerRead
<1> HIDE DEF d
<1>5. n - 1 \in Nat /\ n - 1 \in 1 .. Len(c.t)
  BY <1>1
<1>6. c \in Calls(n - 1)
  BY <1>5, CallInside, CallFacts
<1>7. Valid(n - 1, c, Methods[m].read[d])
  BY <1>4, <1>5, <1>6, ValidThen DEF d
<1>8. QED
  BY <1>4, <1>7 DEF d

LEMMA ReadChainIsValid ==
  ASSUME NEW n \in Nat, ReadsBelow(n), NEW c \in Calls(n), c.t[n].kind = "chain"
  PROVE  Valid(n, c, ReadChain(Methods, n, c)) /\ Len(ReadChain(Methods, n, c).out) <= c.k
<1> DEFINE r == c.t[n]
           one == IF r.done_first THEN LeftFirst(c) ELSE Methods[r.first].read[c]
           two == Methods[r.second].read[After(c, one)]
<1>1. /\ n \in 1 .. Len(c.t) /\ c.k \in Nat /\ n - 1 \in 0 .. n
      /\ r.first \in 1 .. n - 1 /\ r.second \in 1 .. n - 1
  BY CallFacts, InsideFacts
<1>2. Valid(n - 1, c, one) /\ Len(one.out) <= c.k
  <2>1. CASE r.done_first
    <3>1. one = LeftFirst(c)
      BY <2>1
    <3>2. Valid(n - 1, c, LeftFirst(c))
      BY <1>1, LeftFirstIsValid
    <3>3. Len(LeftFirst(c).out) <= c.k
      BY <1>1 DEF LeftFirst, Outcome
    <3>4. QED
      BY <3>1, <3>2, <3>3
  <2>2. CASE ~r.done_first
    <3>1. one = Methods[r.first].read[c]
      BY <2>2
    <3>2. Valid(n - 1, c, Methods[r.first].read[c]) /\ Len(Methods[r.first].read[c].out) <= c.k
      BY <1>1, InnerRead
    <3>3. QED
      BY <3>1, <3>2
  <2>3. QED
    BY <2>1, <2>2
<1>3. ReadChain(Methods, n, c) = Chained(n, one, two)
  BY DEF ReadChain
<1> HIDE DEF one
<1>4. Valid(n - 1, c, two) /\ Len(two.out) <= c.k
  BY <1>1, <1>2, SecondRead
<1> HIDE DEF two
<1>5. Valid(n, c, Chained(n, one, two))
  BY <1>2, <1>4, BothChained
<1>6. Len(Chained(n, one, two).out) <= c.k
  <2>1. CASE one.how # "ok" \/ one.out # <<>>
    BY <1>2, <2>1 DEF Chained
  <2>2. CASE one.how = "ok" /\ one.out = <<>>
    <3>1. Chained(n, one, two) =
            Outcome(two.how, two.out, With(two.t, n, [c.t[n] EXCEPT !.done_first = TRUE]), two.w)
      BY <1>4, <2>2, ChainedIs
    <3>2. \A how, out, t, w : Outcome(how, out, t, w).out = out
      BY DEF Outcome
    <3>3. QED
      BY <1>4, <3>1, <3>2
  <2>3. QED
    BY <2>1, <2>2
<1>7. QED
  BY <1>3, <1>5, <1>6

LEMMA ReadFromIsValid ==
  ASSUME NEW n \in Nat, ReadsBelow(n), NEW c \in Calls(n)
  PROVE  Valid(n, c, ReadFrom(Methods, n, c)) /\ Len(ReadFrom(Methods, n, c).out) <= c.k
<1>s. Adaptors = {"buf", "stdin", "take"} /\ Buffered = {"buf", "stdin"}
  BY DEF Adaptors, Buffered
<1>1. CASE c.t[n].kind \in Buffered
  <2>1. ReadFrom(Methods, n, c) = ReadBuf(Methods, n, c)
    BY <1>s, <1>1 DEF ReadFrom
  <2>2. QED
    BY <1>1, <2>1, ReadBufIsValid
<1>2. CASE c.t[n].kind = "take"
  <2>1. ReadFrom(Methods, n, c) = ReadTake(Methods, n, c)
    BY <1>s, <1>2 DEF ReadFrom
  <2>2. QED
    BY <1>2, <2>1, ReadTakeIsValid
<1>3. CASE c.t[n].kind = "chain"
  <2>1. ReadFrom(Methods, n, c) = ReadChain(Methods, n, c)
    BY <1>s, <1>3 DEF ReadFrom
  <2>2. QED
    BY <1>3, <2>1, ReadChainIsValid
<1>4. CASE c.t[n].kind \notin Adaptors \cup {"chain"}
  <2>1. /\ c.t[n].kind \notin Buffered /\ c.t[n].kind # "take"
        /\ c.t[n].kind # "chain"
    BY <1>s, <1>4
  <2>2. ReadFrom(Methods, n, c) = ReadLeaf(n, c)
    BY <2>1 DEF ReadFrom
  <2>3. QED
    BY <1>4, <2>2, ReadLeafIsValid
<1>5. QED
  BY <1>s, <1>1, <1>2, <1>3, <1>4

\* What every read returns, and what it leaves behind.
LEMMA ReadIsValid == \A n \in Nat : \A c \in Calls(n) : ValidRead(n, c)
<1> DEFINE T == {n \in Nat : \E c \in Calls(n) : ~ValidRead(n, c)}
<1>1. SUFFICES ASSUME T # {} PROVE FALSE
  OBVIOUS
<1>2. PICK n \in T : \A m \in T : ~(m < n)
  BY <1>1, LeastNumber
<1>3. n \in Nat /\ ReadsBelow(n)
  BY <1>2 DEF ReadsBelow
<1>4. PICK c \in Calls(n) : ~ValidRead(n, c)
  BY <1>2
<1>5. Methods[n].read[c] = ReadFrom(Methods, n, c)
  BY <1>3, MethodsFacts
<1>6. Valid(n, c, ReadFrom(Methods, n, c)) /\ Len(ReadFrom(Methods, n, c).out) <= c.k
  BY <1>3, ReadFromIsValid
<1>7. QED
  BY <1>4, <1>5, <1>6 DEF ValidRead

LEMMA ReadsAreValid == \A n \in Nat : ReadsBelow(n)
BY ReadIsValid DEF ReadsBelow

-----------------------------------------------------------------------------
(***************************************************************************)
(* fill_buf, of readers whose inner readers have one too                   *)
(***************************************************************************)

\* IsBufRead asks for such a set.
BufReads(s, t) ==
  \A n \in s :
    /\ n \in DOMAIN t
    /\ \/ t[n].kind \in {"slice", "cursor", "empty"} \cup Buffered
       \/ t[n].kind \in {"take", "chain"} /\ Inside(t[n]) \subseteq s

ValidFill(n, c) == Valid(n, c, Methods[n].fill_buf[c])

FillsBelow(n, s) ==
  \A m \in s \cap 1 .. n - 1 : \A c \in Calls(m) : BufReads(s, c.t) => ValidFill(m, c)

LEMMA BufReadsLater ==
  ASSUME NEW s, NEW t \in Readers, NEW u \in Readers, BufReads(s, t), Later(t, u)
  PROVE  BufReads(s, u)
<1>1. t \in Seq(Node) /\ u \in Seq(Node) /\ Len(u) = Len(t)
  BY DEF Readers, Later
<1>2. ASSUME NEW n \in s
      PROVE  n \in DOMAIN u /\ u[n].kind = t[n].kind /\ Inside(u[n]) = Inside(t[n])
  <2>1. n \in 1 .. Len(t)
    BY <1>1 DEF BufReads
  <2>2. Became(t[n], u[n])
    BY <2>1 DEF Later
  <2>3. Inside(u[n]) = Inside(t[n]) /\ u[n].kind = t[n].kind
    BY <2>2 DEF Became, Inside
  <2>4. QED
    BY <1>1, <2>1, <2>3
<1>3. QED
  BY <1>2 DEF BufReads

LEMMA InnerFill ==
  ASSUME NEW n \in Nat, NEW s, FillsBelow(n, s), NEW c \in Calls(n), BufReads(s, c.t),
         NEW m \in s \cap 1 .. n - 1
  PROVE  Valid(n - 1, c, Methods[m].fill_buf[c])
<1>1. m \in 1 .. Len(c.t) /\ c.k \in Nat
  BY CallFacts
<1>2. c \in Calls(m)
  BY <1>1, CallInside
<1>3. Valid(m, c, Methods[m].fill_buf[c])
  BY <1>2 DEF FillsBelow, ValidFill
<1>4. n - 1 \in Nat /\ m \in 0 .. n - 1
  OBVIOUS
<1>5. QED
  BY <1>3, <1>4, ValidWider

LEMMA SecondFill ==
  ASSUME NEW n \in Nat, NEW s, FillsBelow(n, s), NEW c \in Calls(n), BufReads(s, c.t),
         c.t[n].kind = "chain", c.t[n].second \in s, NEW one, Valid(n - 1, c, one)
  PROVE  Valid(n - 1, c, Methods[c.t[n].second].fill_buf[After(c, one)])
<1> DEFINE m == c.t[n].second
           d == After(c, one)
<1>1. m \in 1 .. n - 1 /\ n \in 1 .. Len(c.t) /\ Len(c.t) \in Nat /\ c.t \in Readers
  BY CallFacts, InsideFacts
<1>2. one \in Outcomes /\ Later(c.t, one.t) /\ one.t \in Readers
  BY DEF Valid, Outcomes
<1>3. d \in Calls(n) /\ d.t = one.t
  BY <1>1, <1>2, CallAfter
<1>4. BufReads(s, d.t)
  BY <1>1, <1>2, <1>3, BufReadsLater
<1> HIDE DEF d
<1>5. Valid(n - 1, d, Methods[m].fill_buf[d])
  BY <1>1, <1>3, <1>4, InnerFill
<1>6. n - 1 \in Nat /\ n - 1 \in 1 .. Len(c.t)
  BY <1>1
<1>7. c \in Calls(n - 1)
  BY <1>6, CallInside, CallFacts
<1>8. Valid(n - 1, c, Methods[m].fill_buf[d])
  BY <1>5, <1>6, <1>7, ValidThen DEF d
<1>9. QED
  BY <1>8 DEF d

LEMMA FillTakeIs ==
  ASSUME NEW n \in Nat, NEW c \in Calls(n), c.t[n].limit # 0,
         NEW o \in Outcomes, o = Methods[c.t[n].inner].fill_buf[c]
  PROVE  FillTake(Methods, n, c) = Outcome(o.how, Prefix(o.out, c.t[n].limit), o.t, o.w)
<1>1. FillTake(Methods, n, c) = [o EXCEPT !.out = Prefix(o.out, c.t[n].limit)]
  BY DEF FillTake
<1>2. QED
  BY <1>1 DEF Outcomes, Outcome

LEMMA FillTakeIsValid ==
  ASSUME NEW n \in Nat, NEW s, FillsBelow(n, s), NEW c \in Calls(n), BufReads(s, c.t),
         c.t[n].kind = "take", c.t[n].inner \in s
  PROVE  Valid(n, c, FillTake(Methods, n, c))
<1> DEFINE r == c.t[n]
<1>1. r \in Node /\ c.w \in Kernel /\ Drained(c.w, c.w)
  BY CallFacts, DrainedFacts
<1>2. /\ r \in [kind : {"take"}, limit : Nat, inner : Nat]
      /\ r.inner \in s \cap 1 .. n - 1
  BY <1>1, CallFacts, NodeFacts, InsideFacts DEF Adaptors
<1>3. CASE r.limit = 0
  <2>1. FillTake(Methods, n, c) = Outcome("ok", <<>>, c.t, c.w)
    BY <1>3 DEF FillTake
  <2>2. "ok" \in {"ok", "blocks", "fails"} /\ <<>> \in Seq(Nat) /\ ("ok" # "ok" => <<>> = <<>>)
    OBVIOUS
  <2>3. Valid(n, c, Outcome("ok", <<>>, c.t, c.w))
    BY <1>1, <2>2, ValidSame
  <2>4. QED
    BY <2>1, <2>3
<1>4. CASE r.limit # 0
  <2> DEFINE o == Methods[r.inner].fill_buf[c]
             out == Prefix(o.out, r.limit)
  <2>1. Valid(n - 1, c, o)
    BY <1>2, InnerFill
  <2>2. o \in Outcomes
    BY <2>1 DEF Valid
  <2>3. FillTake(Methods, n, c) = Outcome(o.how, out, o.t, o.w)
    BY <1>4, <2>2, FillTakeIs
  <2> HIDE DEF o
  <2>4. /\ o.how \in {"ok", "blocks", "fails"} /\ o.out \in Seq(Nat)
        /\ o.how # "ok" => o.out = <<>>
        /\ o.t \in Readers /\ o.w \in Kernel
    BY <2>1 DEF Valid, Outcomes
  <2>5. r.limit \in Nat
    BY <1>2
  <2>6. out \in Seq(Nat) /\ Len(out) <= Len(o.out)
    BY <2>4, <2>5, PrefixFacts
  <2>7. o.how # "ok" => out = <<>>
    BY <2>4, <2>6
  <2> HIDE DEF out
  <2>8. Outcome(o.how, out, o.t, o.w) \in Outcomes
    BY <2>4, <2>6 DEF Outcome, Outcomes
  <2>9. n - 1 \in 0 .. n
    BY <1>2
  <2>10. Valid(n, c, o)
    BY <2>1, <2>9, ValidWider
  <2>11. Valid(n, c, Outcome(o.how, out, o.t, o.w))
    BY <2>7, <2>8, <2>10 DEF Valid, Outcome
  <2>12. QED
    BY <2>3, <2>11
<1>5. QED
  BY <1>3, <1>4

LEMMA FillChainIsValid ==
  ASSUME NEW n \in Nat, NEW s, FillsBelow(n, s), NEW c \in Calls(n), BufReads(s, c.t),
         c.t[n].kind = "chain", c.t[n].first \in s, c.t[n].second \in s
  PROVE  Valid(n, c, FillChain(Methods, n, c))
<1> DEFINE r == c.t[n]
           one == IF r.done_first THEN LeftFirst(c) ELSE Methods[r.first].fill_buf[c]
           two == Methods[r.second].fill_buf[After(c, one)]
<1>1. /\ n \in 1 .. Len(c.t) /\ n - 1 \in 0 .. n
      /\ r.first \in s \cap 1 .. n - 1 /\ r.second \in 1 .. n - 1
  BY CallFacts, InsideFacts
<1>2. Valid(n - 1, c, one)
  <2>1. CASE r.done_first
    BY <1>1, <2>1, LeftFirstIsValid
  <2>2. CASE ~r.done_first
    <3>1. Valid(n - 1, c, Methods[r.first].fill_buf[c])
      BY <1>1, InnerFill
    <3>2. QED
      BY <2>2, <3>1
  <2>3. QED
    BY <2>1, <2>2
<1>3. FillChain(Methods, n, c) = Chained(n, one, two)
  BY DEF FillChain
<1> HIDE DEF one
<1>4. Valid(n - 1, c, two)
  BY <1>1, <1>2, SecondFill
<1> HIDE DEF two
<1>5. Valid(n, c, Chained(n, one, two))
  BY <1>2, <1>4, BothChained
<1>6. QED
  BY <1>3, <1>5

LEMMA FillBufIsValid ==
  ASSUME NEW n \in Nat, NEW s, n \in s, FillsBelow(n, s), NEW c \in Calls(n), BufReads(s, c.t)
  PROVE  Valid(n, c, FillBuf(Methods, n, c))
<1> DEFINE r == c.t[n]
<1>s. Adaptors = {"buf", "stdin", "take"} /\ Buffered = {"buf", "stdin"}
  BY DEF Adaptors, Buffered
<1>1. /\ r \in Node /\ c.w \in Kernel /\ Drained(c.w, c.w)
      /\ \/ r.kind \in {"slice", "cursor", "empty"} \cup Buffered
         \/ r.kind \in {"take", "chain"} /\ Inside(r) \subseteq s
  BY CallFacts, DrainedFacts DEF BufReads
<1>v. \A out \in Seq(Nat) : Valid(n, c, Outcome("ok", out, c.t, c.w))
  <2>1. "ok" \in {"ok", "blocks", "fails"} /\ \A out : "ok" # "ok" => out = <<>>
    OBVIOUS
  <2>2. QED
    BY <1>1, <2>1, ValidSame
<1>2. CASE r.kind = "slice"
  <2>1. FillBuf(Methods, n, c) = Outcome("ok", r.data, c.t, c.w)
    BY <1>s, <1>2 DEF FillBuf
  <2>2. r.data \in Seq(Nat)
    BY <1>1, <1>2, NodeFacts
  <2>3. QED
    BY <1>v, <2>1, <2>2
<1>3. CASE r.kind = "cursor"
  <2>1. FillBuf(Methods, n, c) = Outcome("ok", Rest(r.data, r.pos), c.t, c.w)
    BY <1>s, <1>3 DEF FillBuf
  <2>2. r.data \in Seq(Nat) /\ r.pos \in Nat
    BY <1>1, <1>3, NodeFacts
  <2>3. Rest(r.data, r.pos) \in Seq(Nat)
    BY <2>2, RestFacts
  <2>4. QED
    BY <1>v, <2>1, <2>3
<1>4. CASE r.kind = "empty"
  <2>1. FillBuf(Methods, n, c) = Outcome("ok", <<>>, c.t, c.w)
    BY <1>s, <1>4 DEF FillBuf
  <2>2. <<>> \in Seq(Nat)
    OBVIOUS
  <2>3. QED
    BY <1>v, <2>1, <2>2
<1>5. CASE r.kind \in Buffered
  <2>1. FillBuf(Methods, n, c) = FillReader(Methods, n, c)
    BY <1>s, <1>5 DEF FillBuf
  <2>2. QED
    BY <1>5, <2>1, ReadsAreValid, FillReaderIsValid
<1>6. CASE r.kind = "take"
  <2>1. FillBuf(Methods, n, c) = FillTake(Methods, n, c)
    BY <1>s, <1>6 DEF FillBuf
  <2>2. r.inner \in s
    BY <1>s, <1>1, <1>6 DEF Inside
  <2>3. QED
    BY <1>6, <2>1, <2>2, FillTakeIsValid
<1>7. CASE r.kind = "chain"
  <2>1. FillBuf(Methods, n, c) = FillChain(Methods, n, c)
    BY <1>s, <1>7 DEF FillBuf
  <2>2. r.first \in s /\ r.second \in s
    BY <1>s, <1>1, <1>7 DEF Inside
  <2>3. QED
    BY <1>7, <2>1, <2>2, FillChainIsValid
<1>8. QED
  BY <1>1, <1>2, <1>3, <1>4, <1>5, <1>6, <1>7

\* What every fill_buf returns, and what it leaves behind.
LEMMA FillIsValid ==
  ASSUME NEW s
  PROVE  \A n \in Nat \cap s : \A c \in Calls(n) : BufReads(s, c.t) => ValidFill(n, c)
<1> DEFINE T == {n \in Nat \cap s : \E c \in Calls(n) : BufReads(s, c.t) /\ ~ValidFill(n, c)}
<1>1. SUFFICES ASSUME T # {} PROVE FALSE
  OBVIOUS
<1>2. T \subseteq Nat
  OBVIOUS
<1>3. PICK n \in T : \A m \in T : ~(m < n)
  BY <1>1, <1>2, LeastNumber
<1>4. n \in Nat /\ n \in s /\ FillsBelow(n, s)
  BY <1>3 DEF FillsBelow
<1>5. PICK c \in Calls(n) : BufReads(s, c.t) /\ ~ValidFill(n, c)
  BY <1>3
<1>6. Methods[n].fill_buf[c] = FillBuf(Methods, n, c)
  BY <1>4, MethodsFacts
<1>7. Valid(n, c, FillBuf(Methods, n, c))
  BY <1>4, <1>5, FillBufIsValid
<1>8. QED
  BY <1>5, <1>6, <1>7 DEF ValidFill

-----------------------------------------------------------------------------
(***************************************************************************)
(* The readers that are asked, and those that overstate                    *)
(***************************************************************************)

LEMMA HavingInside ==
  ASSUME NEW n, NEW t \in Having(n), NEW m \in 1 .. n
  PROVE  m \in Nat /\ t \in Having(m)
<1>1. n \in 1 .. Len(t) /\ t \in Readers /\ Len(t) \in Nat
  BY InsideFacts DEF Having
<1>2. m \in DOMAIN t /\ m \in Nat
  BY <1>1 DEF Readers
<1>3. QED
  BY <1>1, <1>2 DEF Having

LEMMA HavingLater ==
  ASSUME NEW n, NEW t \in Having(n), NEW u \in Readers, Later(t, u)
  PROVE  u \in Having(n) /\ Became(t[n], u[n])
<1>1. n \in 1 .. Len(t) /\ t \in Readers
  BY InsideFacts DEF Having
<1>2. n \in DOMAIN u /\ Became(t[n], u[n])
  BY <1>1 DEF Later, Readers
<1>3. QED
  BY <1>2 DEF Having

LEMMA AskedIs ==
  ASSUME NEW n \in Nat, NEW t \in Having(n)
  PROVE  /\ t[n].kind \in {"buf", "take"} =>
              Methods[n].asked[t] = {n} \cup Methods[t[n].inner].asked[t]
         /\ t[n].kind = "chain" =>
              Methods[n].asked[t] = {n} \cup Methods[t[n].first].asked[t]
         /\ t[n].kind \notin {"buf", "take", "chain"} => Methods[n].asked[t] = {n}
<1>1. Methods[n].asked[t] = AskedBy(Methods, n, t)
  BY MethodsFacts
<1>2. QED
  BY <1>1 DEF AskedBy

\* A reader asks itself, and readers before it.
LEMMA AskedRange ==
  \A n \in Nat : \A t \in Having(n) : n \in Methods[n].asked[t] /\ Methods[n].asked[t] \subseteq 1 .. n
<1> DEFINE P(n, t) == n \in Methods[n].asked[t] /\ Methods[n].asked[t] \subseteq 1 .. n
           T == {n \in Nat : \E t \in Having(n) : ~P(n, t)}
<1>1. SUFFICES ASSUME T # {} PROVE FALSE
  OBVIOUS
<1>2. PICK n \in T : \A m \in T : ~(m < n)
  BY <1>1, LeastNumber
<1>3. PICK t \in Having(n) : ~P(n, t)
  BY <1>2
<1>4. /\ n \in Nat /\ n \in 1 .. n
      /\ t[n].kind \in Adaptors => t[n].inner \in 1 .. n - 1
      /\ t[n].kind = "chain" => t[n].first \in 1 .. n - 1
  BY <1>2, InsideFacts
<1>5. ASSUME NEW m \in 1 .. n - 1
      PROVE  Methods[m].asked[t] \subseteq 1 .. n
  <2>1. m \in Nat /\ m < n /\ m \in 1 .. n
    BY <1>4
  <2>2. t \in Having(m)
    BY <2>1, HavingInside
  <2>3. P(m, t)
    BY <1>2, <2>1, <2>2
  <2>4. QED
    BY <1>4, <2>1, <2>3
<1>6. Methods[n].asked[t] = {n} \/ \E m \in 1 .. n - 1 : Methods[n].asked[t] = {n} \cup Methods[m].asked[t]
  BY <1>4, AskedIs DEF Adaptors, Buffered
<1>7. P(n, t)
  BY <1>4, <1>5, <1>6
<1>8. QED
  BY <1>3, <1>7

\* What calls do to the readers does not change which are asked.
LEMMA AskedLater ==
  \A n \in Nat : \A t \in Having(n), u \in Having(n) :
    Later(t, u) => Methods[n].asked[t] = Methods[n].asked[u]
<1> DEFINE P(n, t, u) == Later(t, u) => Methods[n].asked[t] = Methods[n].asked[u]
           T == {n \in Nat : \E t \in Having(n), u \in Having(n) : ~P(n, t, u)}
<1>1. SUFFICES ASSUME T # {} PROVE FALSE
  OBVIOUS
<1>2. PICK n \in T : \A m \in T : ~(m < n)
  BY <1>1, LeastNumber
<1>3. PICK t \in Having(n), u \in Having(n) : ~P(n, t, u)
  BY <1>2
<1>4. /\ n \in Nat /\ n \in 1 .. Len(t)
      /\ t[n].kind \in Adaptors => t[n].inner \in 1 .. n - 1
      /\ t[n].kind = "chain" => t[n].first \in 1 .. n - 1
  BY <1>2, InsideFacts
<1>5. Later(t, u) /\ Became(t[n], u[n])
  BY <1>3, <1>4 DEF Later
<1>6. ASSUME NEW m \in 1 .. n - 1
      PROVE  Methods[m].asked[t] = Methods[m].asked[u]
  <2>1. m \in Nat /\ m < n /\ m \in 1 .. n
    BY <1>4
  <2>2. t \in Having(m) /\ u \in Having(m)
    BY <2>1, HavingInside
  <2>3. P(m, t, u)
    BY <1>2, <2>1, <2>2
  <2>4. QED
    BY <1>5, <2>3
<1>7. /\ u[n].kind = t[n].kind
      /\ t[n].kind \in {"buf", "take"} => u[n].inner = t[n].inner /\ t[n].kind \in Adaptors
      /\ t[n].kind = "chain" => u[n].first = t[n].first
  BY <1>5 DEF Became, Adaptors, Buffered
<1>8. Methods[n].asked[t] = Methods[n].asked[u]
  <2>1. CASE t[n].kind \in {"buf", "take"}
    <3>1. /\ Methods[n].asked[t] = {n} \cup Methods[t[n].inner].asked[t]
          /\ Methods[n].asked[u] = {n} \cup Methods[u[n].inner].asked[u]
      BY <1>4, <1>7, <2>1, AskedIs
    <3>2. QED
      BY <1>4, <1>6, <1>7, <2>1, <3>1
  <2>2. CASE t[n].kind = "chain"
    <3>1. /\ Methods[n].asked[t] = {n} \cup Methods[t[n].first].asked[t]
          /\ Methods[n].asked[u] = {n} \cup Methods[u[n].first].asked[u]
      BY <1>4, <1>7, <2>2, AskedIs
    <3>2. QED
      BY <1>4, <1>6, <1>7, <2>2, <3>1
  <2>3. CASE t[n].kind \notin {"buf", "take", "chain"}
    <3>1. Methods[n].asked[t] = {n} /\ Methods[n].asked[u] = {n}
      BY <1>4, <1>7, <2>3, AskedIs
    <3>2. QED
      BY <3>1
  <2>4. QED
    BY <2>1, <2>2, <2>3
<1>9. QED
  BY <1>3, <1>8

LEMMA OverstatesLater ==
  ASSUME NEW r, NEW s, NEW w, NEW v, Became(r, s), Overstates(r, w),
         w.pos > Len(w.file) => v.pos > Len(v.file)
  PROVE  Overstates(s, v)
BY DEF Became, Overstates

\* Some reader the n-th asks overstates.
AskedOverstates(n, t, w) == \E i \in Methods[n].asked[t] : Overstates(t[i], w)

LEMMA AskedOverstatesLater ==
  ASSUME NEW n \in Nat, NEW t \in Having(n), NEW u \in Readers, Later(t, u),
         NEW w, NEW v, w.pos > Len(w.file) => v.pos > Len(v.file),
         AskedOverstates(n, t, w)
  PROVE  AskedOverstates(n, u, v)
<1>1. u \in Having(n) /\ n \in 1 .. Len(t) /\ Len(t) \in Nat
  BY HavingLater, InsideFacts
<1>2. PICK i \in Methods[n].asked[t] : Overstates(t[i], w)
  BY DEF AskedOverstates
<1>3. i \in Methods[n].asked[u] /\ i \in 1 .. Len(t)
  BY <1>1, <1>2, AskedLater, AskedRange
<1>4. Became(t[i], u[i])
  BY <1>3 DEF Later
<1>5. Overstates(u[i], v)
  BY <1>2, <1>4, OverstatesLater
<1>6. QED
  BY <1>3, <1>5 DEF AskedOverstates

\* Once a Chain asks a reader that overstates, it does.
LEMMA ChainOverstatesLater ==
  ASSUME NEW n \in Nat, NEW t \in Having(n), NEW u \in Readers, Later(t, u),
         NEW w, NEW v, w.pos > Len(w.file) => v.pos > Len(v.file),
         ChainOverstates(n, t, w)
  PROVE  ChainOverstates(n, u, v)
<1>1. u \in Having(n) /\ n \in 1 .. Len(t) /\ Len(t) \in Nat
  BY HavingLater, InsideFacts
<1>2. PICK i \in Methods[n].asked[t] :
        t[i].kind = "chain" /\ \E j \in Methods[t[i].first].asked[t] : Overstates(t[j], w)
  BY DEF ChainOverstates
<1>3. i \in Methods[n].asked[u] /\ i \in 1 .. n
  BY <1>1, <1>2, AskedLater, AskedRange
<1>4. t \in Having(i) /\ i \in Nat /\ i \in 1 .. Len(t)
  BY <1>1, <1>3, HavingInside
<1>5. u[i].kind = "chain" /\ u[i].first = t[i].first
  BY <1>2, <1>4 DEF Later, Became
<1>6. t[i].first \in 1 .. i - 1
  BY <1>2, <1>4, InsideFacts
<1>7. t[i].first \in Nat /\ t \in Having(t[i].first)
  BY <1>4, <1>6, HavingInside
<1>8. AskedOverstates(t[i].first, t, w)
  BY <1>2 DEF AskedOverstates
<1>9. AskedOverstates(t[i].first, u, v)
  BY <1>7, <1>8, AskedOverstatesLater
<1>10. QED
  BY <1>3, <1>5, <1>9 DEF ChainOverstates, AskedOverstates

\* What holds of the readers a reader asks holds of those that it passes
\* num_ready_bytes on to.
LEMMA PassedOn ==
  ASSUME NEW n \in Nat, NEW t \in Having(n), NEW w, NEW m \in 1 .. n - 1,
         \/ t[n].kind \in {"buf", "take"} /\ m = t[n].inner
         \/ t[n].kind = "chain" /\ m = t[n].first
  PROVE  /\ m \in Nat /\ t \in Having(m)
         /\ Methods[m].asked[t] \subseteq Methods[n].asked[t]
         /\ AskedOverstates(m, t, w) => AskedOverstates(n, t, w)
         /\ ChainOverstates(m, t, w) => ChainOverstates(n, t, w)
         /\ t[n].kind = "chain" /\ AskedOverstates(m, t, w) => ChainOverstates(n, t, w)
<1>1. m \in 1 .. n
  OBVIOUS
<1>2. m \in Nat /\ t \in Having(m)
  BY <1>1, HavingInside
<1>3. Methods[m].asked[t] \subseteq Methods[n].asked[t]
  BY AskedIs
<1>4. n \in Methods[n].asked[t]
  BY AskedRange
<1>5. AskedOverstates(m, t, w) => AskedOverstates(n, t, w)
  BY <1>3 DEF AskedOverstates
<1>6. ChainOverstates(m, t, w) => ChainOverstates(n, t, w)
  BY <1>3 DEF ChainOverstates
<1>7. t[n].kind = "chain" /\ AskedOverstates(m, t, w) => ChainOverstates(n, t, w)
  <2>1. t[n].kind = "chain" => m = t[n].first
    OBVIOUS
  <2>2. QED
    BY <1>4, <2>1 DEF ChainOverstates, AskedOverstates
<1>8. QED
  BY <1>2, <1>3, <1>5, <1>6, <1>7

\* So it is for those it reads from, first of all; Stdin's is a pipe.
LEMMA ReadsOn ==
  ASSUME NEW n \in Nat, NEW t \in Having(n), NEW w, NEW m,
         \/ t[n].kind \in Adaptors /\ m = t[n].inner
         \/ t[n].kind = "chain" /\ m = t[n].first
  PROVE  /\ m \in 1 .. n - 1 /\ t \in Having(m)
         /\ AskedOverstates(m, t, w) => AskedOverstates(n, t, w)
         /\ ChainOverstates(m, t, w) => ChainOverstates(n, t, w)
         /\ t[n].kind = "chain" /\ AskedOverstates(m, t, w) => ChainOverstates(n, t, w)
<1>1. m \in 1 .. n - 1 /\ m \in 1 .. n /\ m \in Nat
  BY InsideFacts
<1>2. t \in Having(m)
  BY <1>1, HavingInside
<1>3. CASE t[n].kind # "stdin"
  BY <1>1, <1>2, <1>3, PassedOn DEF Adaptors, Buffered
<1>4. CASE t[n].kind = "stdin"
  <2>1. t[m].kind = "pipe"
    BY <1>4 DEF Having, Readers
  <2>2. Methods[m].asked[t] = {m}
    BY <1>1, <1>2, <2>1, AskedIs
  <2>3. ~AskedOverstates(m, t, w) /\ ~ChainOverstates(m, t, w)
    BY <2>1, <2>2 DEF AskedOverstates, ChainOverstates, Overstates
  <2>4. QED
    BY <1>1, <1>2, <1>4, <2>3
<1>5. QED
  BY <1>3, <1>4

-----------------------------------------------------------------------------
(***************************************************************************)
(* Promises.  p says of every reader how many bytes it can return without  *)
(* waiting; it is backed when what the reader holds, and what p says of    *)
(* those inside it, account for as many.                                   *)
(***************************************************************************)

Backs(v, p, r, w) ==
  /\ r.kind = "slice" => v <= Len(r.data)
  /\ r.kind = "cursor" => r.pos + v <= Len(r.data) \/ r.pos > Len(r.data)
  /\ r.kind = "file" => w.pos + v <= Len(w.file) \/ w.pos > Len(w.file)
  /\ r.kind \in Streams => v <= Len(w.stream)
  /\ r.kind \in Buffered => v <= Len(r.buffer) + p[r.inner]
  /\ r.kind = "take" => v <= r.limit /\ v <= p[r.inner]
  /\ r.kind = "chain" => v <= p[r.first] /\ ~r.done_first

Backed(p, n, t, w) ==
  /\ p \in [Nat -> Nat]
  /\ \A i \in 1 .. n : p[i] = 0 \/ Backs(p[i], p, t[i], w)

Nothing == [i \in Nat |-> 0]

LEMMA NothingIsBacked == \A t, w : Backed(Nothing, 0, t, w)
BY DEF Backed, Nothing

\* Only readers up to the m-th say something.
Uses(r, m) ==
  /\ r.kind \in Adaptors => r.inner \in 1 .. m
  /\ r.kind = "chain" => r.first \in 1 .. m

LEMMA UsesBefore ==
  ASSUME NEW n \in Nat, NEW t \in Having(n)
  PROVE  Uses(t[n], n - 1)
BY InsideFacts DEF Uses

LEMMA BacksLocal ==
  ASSUME NEW m \in Nat, NEW r, Uses(r, m), NEW v, NEW p, NEW q, \A i \in 1 .. m : p[i] = q[i],
         NEW w, Backs(v, p, r, w)
  PROVE  Backs(v, q, r, w)
BY DEF Backs, Uses, Adaptors

LEMMA BackedLocal ==
  ASSUME NEW m \in Nat, NEW p, NEW t, NEW u, \A i \in 1 .. m : u[i] = t[i], NEW w,
         Backed(p, m, t, w)
  PROVE  Backed(p, m, u, w)
BY DEF Backed

LEMMA BackedInside ==
  ASSUME NEW n \in Nat, NEW m \in 0 .. n, NEW p, NEW t, NEW w, Backed(p, n, t, w)
  PROVE  Backed(p, m, t, w)
BY DEF Backed

\* From the m-th reader to the n-th, which may say v.
LEMMA Extend ==
  ASSUME NEW n \in Nat, NEW t \in Having(n), NEW w, NEW m \in 0 .. n - 1,
         NEW q, Backed(q, m, t, w), Uses(t[n], m),
         NEW v \in Nat, v = 0 \/ Backs(v, q, t[n], w)
  PROVE  \E p : Backed(p, n, t, w) /\ p[n] = v
<1> DEFINE p == [i \in Nat |-> IF i = n THEN v ELSE IF i \in 1 .. m THEN q[i] ELSE 0]
<1>1. n \in 1 .. Len(t) /\ Len(t) \in Nat /\ m \in Nat
  BY InsideFacts
<1>q. q \in [Nat -> Nat]
  BY DEF Backed
<1>2. /\ p \in [Nat -> Nat] /\ p[n] = v
      /\ \A i \in 1 .. m : p[i] = q[i]
      /\ \A i \in m + 1 .. n - 1 : p[i] = 0
  <2>1. p \in [Nat -> Nat]
    BY <1>q
  <2>2. \A i \in Nat : p[i] = IF i = n THEN v ELSE IF i \in 1 .. m THEN q[i] ELSE 0
    OBVIOUS
  <2> HIDE DEF p
  <2>3. p[n] = v
    BY <2>2
  <2>4. \A i \in 1 .. m : p[i] = q[i]
    BY <1>1, <2>2
  <2>5. \A i \in m + 1 .. n - 1 : p[i] = 0
    BY <1>1, <2>2
  <2>6. QED
    BY <2>1, <2>3, <2>4, <2>5
<1> HIDE DEF p
<1>3. ASSUME NEW i \in 1 .. m
      PROVE  p[i] = 0 \/ Backs(p[i], p, t[i], w)
  <2>1. i \in Nat /\ i - 1 \in Nat /\ i \in 1 .. n
    BY <1>1
  <2>2. Uses(t[i], i - 1)
    BY <2>1, HavingInside, UsesBefore
  <2>3. \A j \in 1 .. i - 1 : q[j] = p[j]
    BY <1>1, <1>2
  <2>4. q[i] = 0 \/ Backs(q[i], q, t[i], w)
    BY DEF Backed
  <2>5. q[i] = 0 \/ Backs(q[i], p, t[i], w)
    BY <2>1, <2>2, <2>3, <2>4, BacksLocal
  <2>6. QED
    BY <1>2, <2>5
<1>4. v = 0 \/ Backs(v, p, t[n], w)
  BY <1>1, <1>2, BacksLocal
<1>5. \A i \in 1 .. n : i \in 1 .. m \/ i \in m + 1 .. n - 1 \/ i = n
  BY <1>1
<1>6. Backed(p, n, t, w)
  BY <1>2, <1>3, <1>4, <1>5 DEF Backed
<1>7. QED
  BY <1>2, <1>6

Left(a, b) == IF a >= b THEN a - b ELSE 0

LEMMA LeftFacts ==
  \A a, b \in Nat :
    /\ Left(a, b) \in Nat /\ a <= Left(a, b) + b
    /\ Left(a, b) = 0 \/ Left(a, b) + b = a
BY DEF Left

\* The outcome o of a call of the n-th reader that takes used bytes keeps the
\* promise p.
Delivers(n, c, p, o, used) ==
  /\ o.how # "blocks"
  /\ o.how = "ok" /\ o.out = <<>> => AskedOverstates(n, c.t, c.w)
  /\ \E q : Backed(q, n, o.t, o.w) /\ p[n] <= q[n] + used

LEMMA DeliversAt ==
  ASSUME NEW n \in Nat, NEW c, NEW p, p[n] \in Nat, NEW o, o.t \in Having(n),
         o.how # "blocks", o.how = "ok" /\ o.out = <<>> => AskedOverstates(n, c.t, c.w),
         NEW used \in Nat, NEW m \in 0 .. n - 1, NEW q, Backed(q, m, o.t, o.w),
         Uses(o.t[n], m),
         Left(p[n], used) = 0 \/ Backs(Left(p[n], used), q, o.t[n], o.w)
  PROVE  Delivers(n, c, p, o, used)
<1> DEFINE v == Left(p[n], used)
           t == o.t
           w == o.w
<1>1. v \in Nat /\ p[n] <= v + used
  BY LeftFacts
<1>2. t \in Having(n) /\ Uses(t[n], m) /\ Backed(q, m, t, w) /\ (v = 0 \/ Backs(v, q, t[n], w))
  OBVIOUS
<1> HIDE DEF v, t, w
<1>3. PICK b : Backed(b, n, t, w) /\ b[n] = v
  BY <1>1, <1>2, Extend
<1>4. Backed(b, n, o.t, o.w) /\ p[n] <= b[n] + used
  BY <1>1, <1>3 DEF t, w
<1>5. QED
  BY <1>4 DEF Delivers

-----------------------------------------------------------------------------
(***************************************************************************)
(* read keeps promises                                                     *)
(***************************************************************************)

\* The call c of the n-th reader is one that p says will not wait.
Owes(n, c, p) ==
  /\ c.k > 0 /\ Backed(p, n, c.t, c.w) /\ p[n] > 0
  /\ ~ChainOverstates(n, c.t, c.w)

LEMMA OwesFacts ==
  ASSUME NEW n \in Nat, NEW c \in Calls(n), NEW p, Owes(n, c, p)
  PROVE  /\ p \in [Nat -> Nat] /\ p[n] \in Nat /\ p[n] > 0
         /\ Backs(p[n], p, c.t[n], c.w)
<1>1. n \in 1 .. n
  BY CallFacts
<1>2. QED
  BY <1>1 DEF Owes, Backed

LEMMA WithSame ==
  ASSUME NEW n, NEW t \in Having(n)
  PROVE  With(t, n, t[n]) = t
BY DEF With, Having, Readers

\* A reader with none inside it: it becomes s, and the kernel w.
LEMMA LeafDeliversAt ==
  ASSUME NEW n \in Nat, NEW c \in Calls(n), c.t[n].kind \notin Adaptors \cup {"chain"},
         NEW p, p[n] \in Nat, NEW out \in Seq(Nat),
         NEW s, Became(c.t[n], s), NEW w, out = <<>> => Overstates(c.t[n], c.w),
         Left(p[n], Len(out)) = 0 \/ Backs(Left(p[n], Len(out)), Nothing, s, w)
  PROVE  Delivers(n, c, p, Outcome("ok", out, With(c.t, n, s), w), Len(out))
<1> DEFINE o == Outcome("ok", out, With(c.t, n, s), w)
<1>1. c.t \in Having(n) /\ n \in 1 .. Len(c.t) /\ 0 \in 0 .. n - 1 /\ Len(out) \in Nat
  BY CallFacts
<1>2. o.how = "ok" /\ o.out = out /\ o.t = With(c.t, n, s) /\ o.w = w
  BY DEF Outcome
<1> HIDE DEF o
<1>3. o.t \in Having(n) /\ o.t[n] = s
  BY <1>1, <1>2, SetReader
<1>4. Uses(o.t[n], 0)
  BY <1>3 DEF Uses, Became
<1>5. n \in Methods[n].asked[c.t]
  BY <1>1, AskedRange
<1>6. o.how # "blocks" /\ (o.how = "ok" /\ o.out = <<>> => AskedOverstates(n, c.t, c.w))
  BY <1>2, <1>5 DEF AskedOverstates
<1>7. Backed(Nothing, 0, o.t, o.w)
  BY NothingIsBacked
<1>8. Left(p[n], Len(out)) = 0 \/ Backs(Left(p[n], Len(out)), Nothing, o.t[n], o.w)
  BY <1>2, <1>3
<1>9. Delivers(n, c, p, o, Len(out))
  BY <1>1, <1>3, <1>4, <1>6, <1>7, <1>8, DeliversAt
<1>10. QED
  BY <1>9 DEF o

LEMMA LeafDelivers ==
  ASSUME NEW n \in Nat, NEW c \in Calls(n), c.t[n].kind \notin Adaptors \cup {"chain"},
         NEW p, Owes(n, c, p)
  PROVE  Delivers(n, c, p, ReadLeaf(n, c), Len(ReadLeaf(n, c).out))
<1> DEFINE r == c.t[n]
           v == p[n]
<1>1. /\ r \in Node /\ c.k \in Nat /\ c.k > 0 /\ c.w \in Kernel /\ c.t \in Having(n)
      /\ n \in 1 .. Len(c.t) /\ n \in 1 .. n
  BY CallFacts DEF Owes
<1>2. c.w.stream \in Seq(Nat) /\ c.w.pos \in Nat /\ c.w.file \in Seq(Nat)
  BY <1>1 DEF Kernel
<1>3. v \in Nat /\ v > 0 /\ Backs(v, p, r, c.w)
  BY OwesFacts
<1>s. /\ Streams = {"socket", "pipe", "windows_pipe"}
      /\ Adaptors = {"buf", "stdin", "take"} /\ Buffered = {"buf", "stdin"}
  BY DEF Streams, Adaptors, Buffered
<1>o. \A how, out, t, w : Outcome(how, out, t, w).out = out
  BY DEF Outcome
<1>t. With(c.t, n, r) = c.t /\ Became(r, r)
  BY <1>1, WithSame, BecameRefl
<1> HIDE DEF r, v
<1>4. CASE r.kind = "slice"
  <2> DEFINE b == Rest(r.data, c.k)
             s == [r EXCEPT !.data = b]
             out == Prefix(r.data, c.k)
  <2>1. r \in [kind : {"slice"}, data : Seq(Nat)]
    BY <1>1, <1>4, NodeFacts
  <2>2. /\ b \in Seq(Nat) /\ Len(b) <= Len(r.data)
        /\ Len(b) = IF c.k <= Len(r.data) THEN Len(r.data) - c.k ELSE 0
    BY <1>1, <2>1, RestFacts
  <2>3. out \in Seq(Nat) /\ Len(out) = Least(c.k, Len(r.data))
    BY <1>1, <2>1, PrefixFacts
  <2>4. ReadLeaf(n, c) = Outcome("ok", out, With(c.t, n, s), c.w)
    BY <1>s, <1>4 DEF ReadLeaf, With, r
  <2> HIDE DEF b, out
  <2>5. s \in [kind : {"slice"}, data : Seq(Nat)] /\ s.data = b
    BY <2>1, <2>2
  <2> HIDE DEF s
  <2>6. Became(r, s)
    BY <1>s, <1>4, <2>1, <2>2, <2>5 DEF Became, Node
  <2>7. v <= Len(r.data) /\ Len(r.data) \in Nat
    BY <1>3, <1>4, <2>1 DEF Backs
  <2>8. out # <<>> /\ Left(v, Len(out)) <= Len(b)
    <3>1. Least(c.k, Len(r.data)) # 0
      BY <1>1, <1>3, <2>7 DEF Least
    <3>2. Left(v, Len(out)) <= Len(b)
      <4>1. Left(v, Len(out)) = 0 \/ Left(v, Len(out)) + Len(out) = v
        BY <1>3, <2>3, LeftFacts
      <4>2. Left(v, Len(out)) \in Nat
        BY <1>3, <2>3, LeftFacts
      <4>3. QED
        BY <1>1, <1>3, <2>2, <2>3, <2>7, <4>1, <4>2 DEF Least
    <3>3. QED
      BY <2>3, <3>1, <3>2
  <2>9. Backs(Left(v, Len(out)), Nothing, s, c.w)
    BY <1>s, <2>5, <2>8 DEF Backs
  <2>10. Delivers(n, c, p, Outcome("ok", out, With(c.t, n, s), c.w), Len(out))
    BY <1>3, <2>3, <2>6, <2>8, <2>9, LeafDeliversAt DEF r, v
  <2>11. QED
    BY <1>o, <2>4, <2>10
<1>5. CASE r.kind = "cursor"
  <2> DEFINE b == Rest(r.data, r.pos)
             out == Prefix(b, c.k)
             s == [r EXCEPT !.pos = r.pos + Len(out)]
  <2>1. r \in [kind : {"cursor"}, data : Seq(Nat), pos : Nat]
    BY <1>1, <1>5, NodeFacts
  <2>2. /\ b \in Seq(Nat)
        /\ Len(b) = IF r.pos <= Len(r.data) THEN Len(r.data) - r.pos ELSE 0
    BY <2>1, RestFacts
  <2>3. out \in Seq(Nat) /\ Len(out) = Least(c.k, Len(b))
    BY <1>1, <2>2, PrefixFacts
  <2>4. ReadLeaf(n, c) = Outcome("ok", out, With(c.t, n, s), c.w)
    BY <1>s, <1>5 DEF ReadLeaf, With, r
  <2> HIDE DEF b, out
  <2>5. /\ s \in [kind : {"cursor"}, data : Seq(Nat), pos : Nat]
        /\ s.data = r.data /\ s.pos = r.pos + Len(out)
    BY <2>1, <2>3
  <2> HIDE DEF s
  <2>6. Became(r, s)
    BY <1>s, <1>5, <2>1, <2>3, <2>5 DEF Became, Node
  <2>7. /\ r.pos + v <= Len(r.data) \/ r.pos > Len(r.data)
        /\ Len(r.data) \in Nat /\ r.pos \in Nat
    BY <1>3, <1>5, <2>1 DEF Backs
  <2>8. out = <<>> => r.pos > Len(r.data)
    BY <1>1, <1>3, <2>2, <2>3, <2>7 DEF Least
  <2>9. s.pos + Left(v, Len(out)) <= Len(s.data) \/ s.pos > Len(s.data)
    <3>1. Len(out) \in Nat /\ (r.pos <= Len(r.data) => r.pos + Len(out) <= Len(r.data))
      BY <1>1, <2>2, <2>3, <2>7 DEF Least
    <3>2. CASE r.pos + v <= Len(r.data)
      <4>1. Left(v, Len(out)) = 0 \/ Left(v, Len(out)) + Len(out) = v
        BY <1>3, <3>1, LeftFacts
      <4>2. Left(v, Len(out)) \in Nat
        BY <1>3, <3>1, LeftFacts
      <4>3. QED
        BY <1>3, <2>5, <2>7, <3>1, <3>2, <4>1, <4>2
    <3>3. CASE r.pos > Len(r.data)
      BY <2>5, <2>7, <3>1, <3>3
    <3>4. QED
      BY <2>7, <3>2, <3>3
  <2>10. Backs(Left(v, Len(out)), Nothing, s, c.w)
    BY <1>s, <2>5, <2>9 DEF Backs
  <2>11. out = <<>> => Overstates(r, c.w)
    BY <1>5, <2>8 DEF Overstates
  <2>12. Delivers(n, c, p, Outcome("ok", out, With(c.t, n, s), c.w), Len(out))
    BY <1>3, <2>3, <2>6, <2>10, <2>11, LeafDeliversAt DEF r, v
  <2>13. QED
    BY <1>o, <2>4, <2>12
<1>6. CASE r.kind = "empty"
  <2> DEFINE out == <<>>
  <2>1. ReadLeaf(n, c) = Outcome("ok", out, With(c.t, n, r), c.w)
    BY <1>s, <1>6, <1>t DEF ReadLeaf, r
  <2>2. out \in Seq(Nat)
    OBVIOUS
  <2>3. Overstates(r, c.w)
    BY <1>6 DEF Overstates
  <2> HIDE DEF out
  <2>4. Backs(Left(v, Len(out)), Nothing, r, c.w)
    BY <1>s, <1>6 DEF Backs
  <2>5. Delivers(n, c, p, Outcome("ok", out, With(c.t, n, r), c.w), Len(out))
    BY <1>3, <1>t, <2>2, <2>3, <2>4, LeafDeliversAt DEF r, v
  <2>6. QED
    BY <1>o, <2>1, <2>5
<1>7. CASE r.kind = "repeat"
  <2> DEFINE out == [i \in 1 .. c.k |-> Zero]
  <2>1. out \in Seq(Nat) /\ Len(out) = c.k
    BY <1>1 DEF Zero
  <2>2. ReadLeaf(n, c) = Outcome("ok", out, With(c.t, n, r), c.w)
    BY <1>s, <1>7, <1>t DEF ReadLeaf, r
  <2> HIDE DEF out
  <2>3. out # <<>>
    BY <1>1, <2>1
  <2>4. Backs(Left(v, Len(out)), Nothing, r, c.w)
    BY <1>s, <1>7 DEF Backs
  <2>5. Delivers(n, c, p, Outcome("ok", out, With(c.t, n, r), c.w), Len(out))
    BY <1>3, <1>t, <2>1, <2>3, <2>4, LeafDeliversAt DEF r, v
  <2>6. QED
    BY <1>o, <2>2, <2>5
<1>8. CASE r.kind \in Streams
  <2> DEFINE out == Prefix(c.w.stream, c.k)
             b == Rest(c.w.stream, c.k)
             w == [c.w EXCEPT !.stream = b]
  <2>1. v <= Len(c.w.stream) /\ Len(c.w.stream) \in Nat
    BY <1>2, <1>3, <1>8 DEF Backs
  <2>2. out \in Seq(Nat) /\ Len(out) = Least(c.k, Len(c.w.stream))
    BY <1>1, <1>2, PrefixFacts
  <2>3. /\ b \in Seq(Nat)
        /\ Len(b) = IF c.k <= Len(c.w.stream) THEN Len(c.w.stream) - c.k ELSE 0
    BY <1>1, <1>2, RestFacts
  <2>4. c.w.stream # <<>>
    BY <1>3, <2>1
  <2>5. ReadLeaf(n, c) = Outcome("ok", out, With(c.t, n, r), w)
    BY <1>s, <1>8, <1>t, <2>4 DEF ReadLeaf, r
  <2> HIDE DEF out, b
  <2>6. w.stream = b
    BY <1>1 DEF Kernel
  <2> HIDE DEF w
  <2>7. out # <<>> /\ Left(v, Len(out)) <= Len(b)
    <3>1. Least(c.k, Len(c.w.stream)) # 0
      BY <1>1, <1>3, <2>1 DEF Least
    <3>2. Left(v, Len(out)) <= Len(b)
      <4>1. Left(v, Len(out)) = 0 \/ Left(v, Len(out)) + Len(out) = v
        BY <1>3, <2>2, LeftFacts
      <4>2. Left(v, Len(out)) \in Nat
        BY <1>3, <2>2, LeftFacts
      <4>3. QED
        BY <1>1, <1>3, <2>1, <2>2, <2>3, <4>1, <4>2 DEF Least
    <3>3. QED
      BY <2>2, <3>1, <3>2
  <2>8. Backs(Left(v, Len(out)), Nothing, r, w)
    BY <1>s, <1>8, <2>6, <2>7 DEF Backs
  <2>9. Delivers(n, c, p, Outcome("ok", out, With(c.t, n, r), w), Len(out))
    BY <1>3, <1>t, <2>2, <2>7, <2>8, LeafDeliversAt DEF r, v
  <2>10. QED
    BY <1>o, <2>5, <2>9
<1>9. CASE r.kind = "file" /\ r.readable
  <2> DEFINE out == FileBytes(c.w, c.w.pos, c.k)
             w == [c.w EXCEPT !.pos = c.w.pos + Len(out)]
  <2>1. out \in Seq(Nat) /\ Len(out) \in Nat
    BY <1>1, <1>2, FileBytesFacts
  <2>2. ReadLeaf(n, c) = Outcome("ok", out, With(c.t, n, r), w)
    BY <1>s, <1>9, <1>t DEF ReadLeaf, r
  <2>3. /\ c.w.pos + v <= Len(c.w.file) \/ c.w.pos > Len(c.w.file)
        /\ Len(c.w.file) \in Nat
    BY <1>2, <1>3, <1>9 DEF Backs
  <2>4. /\ c.w.pos <= Len(c.w.file) => c.w.pos + Len(out) <= Len(c.w.file)
        /\ c.w.pos < Len(c.w.file) => out # <<>>
    BY <1>1, <1>2, FileBytesFacts
  <2> HIDE DEF out
  <2>5. w.pos = c.w.pos + Len(out) /\ w.file = c.w.file
    BY <1>1 DEF Kernel
  <2> HIDE DEF w
  <2>6. out = <<>> => Overstates(r, c.w)
    BY <1>2, <1>3, <1>9, <2>3, <2>4 DEF Overstates
  <2>7. w.pos + Left(v, Len(out)) <= Len(w.file) \/ w.pos > Len(w.file)
    <3>1. CASE c.w.pos + v <= Len(c.w.file)
      <4>1. Left(v, Len(out)) = 0 \/ Left(v, Len(out)) + Len(out) = v
        BY <1>3, <2>1, LeftFacts
      <4>2. Left(v, Len(out)) \in Nat
        BY <1>3, <2>1, LeftFacts
      <4>3. \A at, all, x, y, len \in Nat :
              at + all <= len /\ (x = 0 \/ x + y = all) =>
                (at + y) + x <= len \/ at + y > len
        OBVIOUS
      <4>4. c.w.pos \in Nat /\ v \in Nat
        BY <1>2, <1>3
      <4>5. \/ (c.w.pos + Len(out)) + Left(v, Len(out)) <= Len(c.w.file)
            \/ c.w.pos + Len(out) > Len(c.w.file)
        BY <2>1, <2>3, <3>1, <4>1, <4>2, <4>3, <4>4
      <4>6. QED
        BY <2>5, <4>5
    <3>2. CASE c.w.pos > Len(c.w.file)
      BY <1>2, <2>1, <2>3, <2>5, <3>2
    <3>3. QED
      BY <2>3, <3>1, <3>2
  <2>8. Backs(Left(v, Len(out)), Nothing, r, w)
    BY <1>s, <1>9, <2>7 DEF Backs
  <2>9. Delivers(n, c, p, Outcome("ok", out, With(c.t, n, r), w), Len(out))
    BY <1>3, <1>t, <2>1, <2>6, <2>8, LeafDeliversAt DEF r, v
  <2>10. QED
    BY <1>o, <2>2, <2>9
<1>10. CASE r.kind = "file" /\ ~r.readable
  <2>1. ReadLeaf(n, c) = Outcome("fails", <<>>, c.t, c.w)
    BY <1>s, <1>10 DEF ReadLeaf, r
  <2>2. /\ ReadLeaf(n, c).how = "fails" /\ ReadLeaf(n, c).out = <<>>
        /\ ReadLeaf(n, c).t = c.t /\ ReadLeaf(n, c).w = c.w
    BY <2>1 DEF Outcome
  <2>3. p[n] <= p[n] + Len(ReadLeaf(n, c).out)
    BY <1>3, <2>2 DEF v
  <2>4. QED
    BY <2>2, <2>3 DEF Delivers, Owes
<1>11. QED
  BY <1>s, <1>1, <1>4, <1>5, <1>6, <1>7, <1>8, <1>9, <1>10, NodeFacts DEF r

ReadDelivers(n, c, p) ==
  Owes(n, c, p) => Delivers(n, c, p, Methods[n].read[c], Len(Methods[n].read[c].out))

\* The reads of the readers before the n-th keep promises.
ReadsDeliver(n) == \A m \in 1 .. n - 1 : \A c \in Calls(m) : \A p \in [Nat -> Nat] : ReadDelivers(m, c, p)

\* The n-th reader makes the call d of the m-th, on the way to answering c.
LEMMA InnerDelivers ==
  ASSUME NEW n \in Nat, ReadsDeliver(n), NEW c \in Calls(n), NEW p, Owes(n, c, p),
         NEW m, \/ c.t[n].kind \in Adaptors /\ m = c.t[n].inner
                \/ c.t[n].kind = "chain" /\ m = c.t[n].first,
         p[m] > 0, NEW d \in Calls(n), d.t = c.t, d.w = c.w, d.k > 0
  PROVE  Delivers(m, c, p, Methods[m].read[d], Len(Methods[m].read[d].out))
<1>1. c.t \in Having(n) /\ n \in 1 .. Len(c.t) /\ Len(c.t) \in Nat
  BY CallFacts
<1>2. m \in 1 .. n - 1 /\ (ChainOverstates(m, c.t, c.w) => ChainOverstates(n, c.t, c.w))
  BY <1>1, ReadsOn
<1>3. m \in 0 .. n /\ m \in 1 .. Len(d.t)
  BY <1>1, <1>2
<1>4. d \in Calls(m)
  BY <1>3, CallInside, CallFacts
<1>5. Backed(p, m, d.t, d.w) /\ p \in [Nat -> Nat]
  BY <1>3, BackedInside, OwesFacts DEF Owes
<1>6. Owes(m, d, p)
  BY <1>2, <1>5 DEF Owes
<1>7. ReadDelivers(m, d, p)
  BY <1>2, <1>4, <1>5 DEF ReadsDeliver
<1>8. QED
  BY <1>6, <1>7 DEF ReadDelivers, Delivers

\* The n-th reader makes out of the outcome o of the m-th, and becomes s.
LEMMA AdaptorDelivers ==
  ASSUME NEW n \in Nat, NEW c \in Calls(n), NEW p, p[n] \in Nat,
         NEW m \in 0 .. n - 1, NEW o, Valid(n - 1, c, o), NEW q, Backed(q, m, o.t, o.w),
         NEW how, how # "blocks", NEW out, how = "ok" /\ out = <<>> => AskedOverstates(n, c.t, c.w),
         NEW s, Became(c.t[n], s), Uses(s, m), NEW used \in Nat,
         Left(p[n], used) = 0 \/ Backs(Left(p[n], used), q, s, o.w)
  PROVE  Delivers(n, c, p, Outcome(how, out, With(o.t, n, s), o.w), used)
<1> DEFINE b == Outcome(how, out, With(o.t, n, s), o.w)
<1>1. b.how = how /\ b.out = out /\ b.t = With(o.t, n, s) /\ b.w = o.w
  BY DEF Outcome
<1> HIDE DEF b
<1>2. o.t \in Having(n) /\ o.t[n] = c.t[n] /\ Len(o.t) = Len(c.t)
  BY ValidKeeps
<1>3. n \in 1 .. Len(c.t) /\ Len(c.t) \in Nat
  BY CallFacts
<1>4. Became(o.t[n], s)
  BY <1>2
<1>5. /\ b.t \in Having(n) /\ b.t[n] = s
      /\ \A i \in 1 .. Len(o.t) : i # n => b.t[i] = o.t[i]
  BY <1>1, <1>2, <1>4, SetReader
<1>6. \A i \in 1 .. m : b.t[i] = o.t[i]
  BY <1>2, <1>3, <1>5
<1>7. m \in Nat
  OBVIOUS
<1>8. Backed(q, m, b.t, b.w)
  BY <1>1, <1>6, <1>7, BackedLocal
<1>9. Left(p[n], used) = 0 \/ Backs(Left(p[n], used), q, b.t[n], b.w)
  BY <1>1, <1>5
<1>10. b.how # "blocks" /\ (b.how = "ok" /\ b.out = <<>> => AskedOverstates(n, c.t, c.w))
  BY <1>1
<1>11. Uses(b.t[n], m)
  BY <1>5
<1>12. Delivers(n, c, p, b, used)
  BY <1>5, <1>8, <1>9, <1>10, <1>11, DeliversAt
<1>13. QED
  BY <1>12 DEF b

LEMMA LeftPassed ==
  ASSUME NEW a \in Nat, NEW b \in Nat, NEW x \in Nat, NEW y \in Nat, a <= x, x <= y + b
  PROVE  Left(a, b) <= y
BY DEF Left

LEMMA FillReaderDelivers ==
  ASSUME NEW n \in Nat, ReadsDeliver(n), NEW c \in Calls(n), c.t[n].kind \in Buffered,
         NEW p, Owes(n, c, p)
  PROVE  Delivers(n, c, p, FillReader(Methods, n, c), 0)
<1> DEFINE r == c.t[n]
           m == r.inner
<1>1. r \in Node /\ c.k \in Nat /\ c.w \in Kernel /\ c.t \in Having(n) /\ n \in 1 .. Len(c.t)
  BY CallFacts
<1>2. /\ r \in [kind : Buffered, cap : Nat \ {0}, buffer : Seq(Nat), inner : Nat]
      /\ m \in 1 .. n - 1 /\ r.kind \in Adaptors
  BY <1>1, NodeFacts, InsideFacts DEF Adaptors
<1>3. p \in [Nat -> Nat] /\ p[n] \in Nat /\ p[n] > 0 /\ Backs(p[n], p, r, c.w)
  BY OwesFacts
<1>4. p[n] <= Len(r.buffer) + p[m] /\ p[m] \in Nat
  BY <1>2, <1>3 DEF Backs
<1>5. CASE r.buffer # <<>>
  <2> DEFINE o == FillReader(Methods, n, c)
  <2>1. o.how = "ok" /\ o.out = r.buffer /\ o.t = c.t /\ o.w = c.w
    BY <1>5 DEF FillReader, Outcome
  <2> HIDE DEF o
  <2>2. p[n] <= p[n] + 0
    BY <1>3
  <2>3. Delivers(n, c, p, o, 0)
    BY <1>5, <2>1, <2>2 DEF Delivers, Owes
  <2>4. QED
    BY <2>3 DEF o
<1>6. CASE r.buffer = <<>>
  <2> DEFINE d == [c EXCEPT !.k = r.cap]
             o == Methods[m].read[d]
             s == [r EXCEPT !.buffer = o.out]
  <2>c. r.cap \in Nat /\ r.cap > 0
    BY <1>2
  <2>p. p[n] <= p[m]
    <3>1. Len(r.buffer) = 0
      BY <1>6
    <3>2. \A a, b, l \in Nat : a <= l + b /\ l = 0 => a <= b
      OBVIOUS
    <3>3. Len(r.buffer) \in Nat
      BY <3>1
    <3>4. QED
      BY <1>3, <1>4, <3>1, <3>2, <3>3
  <2>q. p[m] > 0
    <3>1. \A a, b \in Nat : a > 0 /\ a <= b => b > 0
      OBVIOUS
    <3>2. p[n] \in Nat /\ p[m] \in Nat /\ p[n] > 0
      BY <1>3, <1>4
    <3>3. QED
      BY <2>p, <3>1, <3>2
  <2>1. r.cap \in Nat /\ r.cap > 0 /\ p[m] > 0
    BY <2>c, <2>q
  <2>2. d \in Calls(n) /\ d.t = c.t /\ d.w = c.w /\ d.k = r.cap
    BY <1>1, <2>1, CallInside
  <2>3. Valid(n - 1, c, o) /\ Len(o.out) <= r.cap
    BY <1>2, <2>1, ReadsAreValid, InnerReadOf
  <2>4. FillReader(Methods, n, c) = Outcome(o.how, o.out, With(o.t, n, s), o.w)
    BY <1>6, <2>3, FillReaderIs
  <2> HIDE DEF d
  <2>5. Delivers(m, c, p, o, Len(o.out))
    BY <1>2, <2>1, <2>2, InnerDelivers
  <2> HIDE DEF o
  <2>6. o.out \in Seq(Nat) /\ Len(o.out) \in Nat
    BY <2>3 DEF Valid, Outcomes
  <2>7. Became(r, s) /\ s.buffer = o.out
    BY <1>1, <2>3, <2>6, BufBecomes
  <2>8. PICK q : Backed(q, m, o.t, o.w) /\ p[m] <= q[m] + Len(o.out)
    BY <2>5 DEF Delivers
  <2>9. q[m] \in Nat
    BY <1>2, <2>8 DEF Backed
  <2> HIDE DEF s
  <2>10. s.kind = r.kind /\ s.inner = m
    BY <1>2, <2>7 DEF Became
  <2>11. Uses(s, m)
    BY <1>2, <2>10 DEF Uses, Buffered
  <2>12. Left(p[n], 0) <= Len(s.buffer) + q[m]
    <3>1. Len(s.buffer) = Len(o.out) /\ Len(s.buffer) + q[m] \in Nat /\ 0 \in Nat
      BY <2>6, <2>7, <2>9
    <3>2. p[m] <= (Len(s.buffer) + q[m]) + 0
      BY <1>4, <2>6, <2>8, <2>9, <3>1
    <3>3. QED
      BY <1>3, <1>4, <2>p, <3>1, <3>2, LeftPassed
  <2>13. Backs(Left(p[n], 0), q, s, o.w)
    BY <1>2, <2>10, <2>12 DEF Backs, Buffered, Streams
  <2>14. AskedOverstates(m, c.t, c.w) => AskedOverstates(n, c.t, c.w)
    BY <1>1, <1>2, ReadsOn
  <2>15. o.how # "blocks" /\ (o.how = "ok" /\ o.out = <<>> => AskedOverstates(n, c.t, c.w))
    BY <2>5, <2>14 DEF Delivers
  <2>16. m \in 0 .. n - 1 /\ 0 \in Nat
    BY <1>2
  <2>17. Delivers(n, c, p, Outcome(o.how, o.out, With(o.t, n, s), o.w), 0)
    BY <1>3, <2>3, <2>7, <2>8, <2>11, <2>13, <2>15, <2>16, AdaptorDelivers
  <2>18. QED
    BY <2>4, <2>17
<1>7. QED
  BY <1>5, <1>6

LEMMA SplitFacts ==
  ASSUME NEW s \in Seq(Nat), NEW k \in Nat
  PROVE  Len(s) = Len(Prefix(s, k)) + Len(Rest(s, k))
<1>1. Len(Prefix(s, k)) = Least(k, Len(s)) /\ Len(s) \in Nat
  BY PrefixFacts
<1>2. Len(Rest(s, k)) = IF k <= Len(s) THEN Len(s) - k ELSE 0
  BY RestFacts
<1>3. Len(Prefix(s, k)) \in Nat /\ Len(Rest(s, k)) \in Nat
  BY PrefixFacts, RestFacts
<1>4. CASE k <= Len(s)
  BY <1>1, <1>2, <1>4 DEF Least
<1>5. CASE ~(k <= Len(s))
  BY <1>1, <1>2, <1>5 DEF Least
<1>6. QED
  BY <1>4, <1>5

\* A BufReader that holds b, or what is as good as one.
LEMMA BufBacks ==
  ASSUME NEW r \in Node, r.kind \in Buffered, r.inner \in Nat \ {0}, NEW s, Became(r, s),
         NEW v, NEW q, NEW w, v <= Len(s.buffer) + q[r.inner]
  PROVE  Uses(s, r.inner) /\ Backs(v, q, s, w)
<1>1. s.kind = r.kind /\ s.inner = r.inner
  BY DEF Became, Adaptors
<1>2. Uses(s, r.inner)
  BY <1>1 DEF Uses, Buffered
<1>3. Backs(v, q, s, w)
  BY <1>1 DEF Backs, Buffered, Streams
<1>4. QED
  BY <1>2, <1>3

LEMMA ReadBufDelivers ==
  ASSUME NEW n \in Nat, ReadsDeliver(n), NEW c \in Calls(n), c.t[n].kind \in Buffered,
         NEW p, Owes(n, c, p)
  PROVE  Delivers(n, c, p, ReadBuf(Methods, n, c), Len(ReadBuf(Methods, n, c).out))
<1> DEFINE r == c.t[n]
           m == r.inner
<1>1. /\ r \in Node /\ c.k \in Nat /\ c.k > 0 /\ c.w \in Kernel /\ c.t \in Having(n)
      /\ n \in 1 .. Len(c.t)
  BY CallFacts DEF Owes
<1>2. /\ r \in [kind : Buffered, cap : Nat \ {0}, buffer : Seq(Nat), inner : Nat]
      /\ m \in 1 .. n - 1 /\ r.kind \in Adaptors
  BY <1>1, NodeFacts, InsideFacts DEF Adaptors
<1>3. p \in [Nat -> Nat] /\ p[n] \in Nat /\ p[n] > 0 /\ Backs(p[n], p, r, c.w)
  BY OwesFacts
<1>4. p[n] <= Len(r.buffer) + p[m] /\ p[m] \in Nat
  BY <1>2, <1>3 DEF Backs
<1>5. m \in Nat \ {0} /\ m \in 0 .. n - 1 /\ m \in 0 .. n /\ n - 1 \in 0 .. n
  BY <1>2
<1>6. AskedOverstates(m, c.t, c.w) => AskedOverstates(n, c.t, c.w)
  BY <1>1, <1>2, ReadsOn
<1>o. \A how, out, t, w : Outcome(how, out, t, w).out = out
  BY DEF Outcome
<1>p. ASSUME r.buffer = <<>>
      PROVE  p[m] > 0 /\ p[n] <= p[m]
  <2>1. Len(r.buffer) = 0 /\ Len(r.buffer) \in Nat
    BY <1>p
  <2>2. \A a, b, l \in Nat : a <= l + b /\ l = 0 /\ a > 0 => a <= b /\ b > 0
    OBVIOUS
  <2>3. QED
    BY <1>3, <1>4, <2>1, <2>2
<1>7. CASE r.buffer # <<>>
  <2> DEFINE out == Prefix(r.buffer, c.k)
             b == Rest(r.buffer, c.k)
             s == [r EXCEPT !.buffer = b]
             o == LeftFirst(c)
  <2>1. r.buffer \in Seq(Nat) /\ Len(r.buffer) \in Nat
    BY <1>2
  <2>2. out \in Seq(Nat) /\ out # <<>> /\ Len(out) \in Nat
    BY <1>1, <1>7, <2>1, PrefixFacts
  <2>3. b \in Seq(Nat) /\ Len(b) <= Len(r.buffer) /\ Len(b) \in Nat
    BY <1>1, <2>1, RestFacts
  <2>4. Len(r.buffer) = Len(out) + Len(b)
    BY <1>1, <2>1, SplitFacts
  <2>5. ReadBuf(Methods, n, c) = Outcome("ok", out, With(c.t, n, s), c.w)
    BY <1>7, ReadBufHeld
  <2> HIDE DEF out, b
  <2>6. Became(r, s) /\ s.buffer = b
    BY <1>1, <2>3, BufBecomes
  <2> HIDE DEF s
  <2>7. Valid(n - 1, c, o)
    BY <1>5, LeftFirstIsValid
  <2>8. o.t = c.t /\ o.w = c.w
    BY DEF LeftFirst, Outcome
  <2> HIDE DEF o
  <2>9. Backed(p, m, o.t, o.w)
    BY <1>5, <2>8, BackedInside DEF Owes
  <2>10. Left(p[n], Len(out)) <= Len(s.buffer) + p[m]
    <3>1. Len(s.buffer) + p[m] \in Nat /\ Len(r.buffer) + p[m] \in Nat
      BY <1>4, <2>1, <2>3, <2>6
    <3>2. Len(r.buffer) + p[m] <= (Len(s.buffer) + p[m]) + Len(out)
      BY <1>4, <2>2, <2>3, <2>4, <2>6
    <3>3. QED
      BY <1>3, <1>4, <2>2, <3>1, <3>2, LeftPassed
  <2>11. Uses(s, m) /\ Backs(Left(p[n], Len(out)), p, s, o.w)
    BY <1>1, <1>5, <2>6, <2>10, BufBacks
  <2>12. "ok" # "blocks" /\ ("ok" = "ok" /\ out = <<>> => AskedOverstates(n, c.t, c.w))
    BY <2>2
  <2>13. Delivers(n, c, p, Outcome("ok", out, With(o.t, n, s), o.w), Len(out))
    BY <1>3, <1>5, <2>2, <2>6, <2>7, <2>9, <2>11, <2>12, AdaptorDelivers
  <2>14. QED
    BY <1>o, <2>5, <2>8, <2>13
<1>8. CASE r.buffer = <<>> /\ c.k >= r.cap
  <2> DEFINE o == Methods[m].read[c]
  <2>1. p[m] > 0 /\ p[n] <= p[m]
    BY <1>8, <1>p
  <2>2. Delivers(m, c, p, o, Len(o.out))
    BY <1>1, <1>2, <2>1, InnerDelivers
  <2>3. Valid(n - 1, c, o)
    BY <1>2, ReadsAreValid, InnerRead
  <2>4. ReadBuf(Methods, n, c) = o
    BY <1>8, ReadBufDirect
  <2> HIDE DEF o
  <2>5. o.t \in Having(n) /\ o.t[n] = r /\ Len(o.out) \in Nat
    BY <2>3, ValidKeeps
  <2>6. PICK q : Backed(q, m, o.t, o.w) /\ p[m] <= q[m] + Len(o.out)
    BY <2>2 DEF Delivers
  <2>7. q[m] \in Nat
    BY <1>2, <2>6 DEF Backed
  <2>8. Left(p[n], Len(o.out)) <= Len(r.buffer) + q[m]
    <3>1. Len(r.buffer) + q[m] = q[m]
      BY <1>8, <2>7
    <3>2. Left(p[n], Len(o.out)) <= q[m]
      BY <1>3, <1>4, <2>1, <2>5, <2>6, <2>7, LeftPassed
    <3>3. QED
      BY <3>1, <3>2
  <2>9. Became(r, r)
    BY <1>1, BecameRefl
  <2>10. Uses(o.t[n], m) /\ Backs(Left(p[n], Len(o.out)), q, o.t[n], o.w)
    BY <1>1, <1>5, <2>5, <2>8, <2>9, BufBacks
  <2>11. o.how # "blocks" /\ (o.how = "ok" /\ o.out = <<>> => AskedOverstates(n, c.t, c.w))
    BY <1>6, <2>2 DEF Delivers
  <2>12. Delivers(n, c, p, o, Len(o.out))
    BY <1>3, <1>5, <2>5, <2>6, <2>10, <2>11, DeliversAt
  <2>13. QED
    BY <2>4, <2>12
<1>9. CASE r.buffer = <<>> /\ ~(c.k >= r.cap)
  <2> DEFINE d == [c EXCEPT !.k = r.cap]
             o == Methods[m].read[d]
             out == Prefix(o.out, c.k)
             b == Rest(o.out, c.k)
             s == [r EXCEPT !.buffer = b]
  <2>1. r.cap \in Nat /\ r.cap > 0
    BY <1>2
  <2>2. p[m] > 0 /\ p[n] <= p[m]
    BY <1>9, <1>p
  <2>3. d \in Calls(n) /\ d.t = c.t /\ d.w = c.w /\ d.k = r.cap
    BY <1>1, <2>1, CallInside
  <2>4. Valid(n - 1, c, o) /\ Len(o.out) <= r.cap
    BY <1>2, <2>1, ReadsAreValid, InnerReadOf
  <2>5. ReadBuf(Methods, n, c) = Outcome(o.how, out, With(o.t, n, s), o.w)
    BY <1>9, <2>4, ReadBufFilled
  <2> HIDE DEF d
  <2>6. Delivers(m, c, p, o, Len(o.out))
    BY <1>2, <2>1, <2>2, <2>3, InnerDelivers
  <2> HIDE DEF o
  <2>7. o.out \in Seq(Nat) /\ Len(o.out) \in Nat
    BY <2>4 DEF Valid, Outcomes
  <2>8. out \in Seq(Nat) /\ Len(out) \in Nat /\ (o.out # <<>> => out # <<>>)
    BY <1>1, <2>7, PrefixFacts
  <2>9. b \in Seq(Nat) /\ Len(b) <= Len(o.out) /\ Len(b) \in Nat
    BY <1>1, <2>7, RestFacts
  <2>10. Len(o.out) = Len(out) + Len(b)
    BY <1>1, <2>7, SplitFacts
  <2>11. Len(b) <= r.cap
    BY <2>1, <2>4, <2>7, <2>9
  <2> HIDE DEF out, b
  <2>12. Became(r, s) /\ s.buffer = b
    BY <1>1, <2>9, <2>11, BufBecomes
  <2> HIDE DEF s
  <2>13. PICK q : Backed(q, m, o.t, o.w) /\ p[m] <= q[m] + Len(o.out)
    BY <2>6 DEF Delivers
  <2>14. q[m] \in Nat
    BY <1>2, <2>13 DEF Backed
  <2>15. Left(p[n], Len(out)) <= Len(s.buffer) + q[m]
    <3>1. Len(s.buffer) + q[m] \in Nat
      BY <2>9, <2>12, <2>14
    <3>2. p[m] <= (Len(s.buffer) + q[m]) + Len(out)
      BY <1>4, <2>8, <2>9, <2>10, <2>12, <2>13, <2>14
    <3>3. QED
      BY <1>3, <1>4, <2>2, <2>8, <3>1, <3>2, LeftPassed
  <2>16. Uses(s, m) /\ Backs(Left(p[n], Len(out)), q, s, o.w)
    BY <1>1, <1>5, <2>12, <2>15, BufBacks
  <2>17. o.how # "blocks" /\ (o.how = "ok" /\ out = <<>> => AskedOverstates(n, c.t, c.w))
    BY <1>6, <2>6, <2>8 DEF Delivers
  <2>18. Delivers(n, c, p, Outcome(o.how, out, With(o.t, n, s), o.w), Len(out))
    BY <1>3, <1>5, <2>4, <2>8, <2>12, <2>13, <2>16, <2>17, AdaptorDelivers
  <2>19. QED
    BY <1>o, <2>5, <2>18
<1>10. QED
  BY <1>7, <1>8, <1>9

LEMMA TakeBacks ==
  ASSUME NEW r \in Node, r.kind = "take", r.inner \in Nat \ {0}, NEW s, Became(r, s),
         NEW v, NEW q, NEW w, v <= s.limit, v <= q[r.inner]
  PROVE  Uses(s, r.inner) /\ Backs(v, q, s, w)
<1>1. s.kind = "take" /\ s.inner = r.inner
  BY DEF Became, Adaptors
<1>2. Uses(s, r.inner)
  BY <1>1 DEF Uses
<1>3. "take" \notin Buffered \cup Streams
  BY DEF Buffered, Streams
<1>4. Backs(v, q, s, w)
  BY <1>1, <1>3 DEF Backs
<1>5. QED
  BY <1>2, <1>4

LEMMA ReadTakeDelivers ==
  ASSUME NEW n \in Nat, ReadsDeliver(n), NEW c \in Calls(n), c.t[n].kind = "take",
         NEW p, Owes(n, c, p)
  PROVE  Delivers(n, c, p, ReadTake(Methods, n, c), Len(ReadTake(Methods, n, c).out))
<1> DEFINE r == c.t[n]
           m == r.inner
           k == Least(c.k, r.limit)
           d == [c EXCEPT !.k = k]
           o == Methods[m].read[d]
           left == r.limit - Len(o.out)
           s == [r EXCEPT !.limit = left]
<1>1. /\ r \in Node /\ c.k \in Nat /\ c.k > 0 /\ c.w \in Kernel /\ c.t \in Having(n)
      /\ n \in 1 .. Len(c.t)
  BY CallFacts DEF Owes
<1>2. /\ r \in [kind : {"take"}, limit : Nat, inner : Nat]
      /\ m \in 1 .. n - 1 /\ r.kind \in Adaptors
  BY <1>1, NodeFacts, InsideFacts DEF Adaptors
<1>3. p \in [Nat -> Nat] /\ p[n] \in Nat /\ p[n] > 0 /\ Backs(p[n], p, r, c.w)
  BY OwesFacts
<1>4. p[n] <= r.limit /\ p[n] <= p[m] /\ p[m] \in Nat /\ r.limit \in Nat
  BY <1>2, <1>3 DEF Backs
<1>5. m \in Nat \ {0} /\ m \in 0 .. n - 1
  BY <1>2
<1>6. AskedOverstates(m, c.t, c.w) => AskedOverstates(n, c.t, c.w)
  BY <1>1, <1>2, ReadsOn
<1>o. \A how, out, t, w : Outcome(how, out, t, w).out = out
  BY DEF Outcome
<1>7. p[m] > 0 /\ r.limit > 0
  <2>1. \A a, b \in Nat : a > 0 /\ a <= b => b > 0
    OBVIOUS
  <2>2. p[n] \in Nat /\ p[n] > 0
    BY <1>3
  <2>3. QED
    BY <1>4, <2>1, <2>2
<1>8. k \in Nat /\ k > 0 /\ k <= r.limit
  BY <1>1, <1>4, <1>7 DEF Least
<1>9. d \in Calls(n) /\ d.t = c.t /\ d.w = c.w /\ d.k = k
  BY <1>1, <1>8, CallInside
<1>10. Valid(n - 1, c, o) /\ Len(o.out) <= k
  BY <1>2, <1>8, ReadsAreValid, InnerReadOf
<1>z. r.limit # 0
  BY <1>4, <1>7
<1>11. ReadTake(Methods, n, c) = Outcome(o.how, o.out, With(o.t, n, s), o.w)
  BY <1>z, <1>10, ReadTakeIs
<1> HIDE DEF k, d
<1>12. Delivers(m, c, p, o, Len(o.out))
  BY <1>2, <1>7, <1>8, <1>9, InnerDelivers
<1> HIDE DEF o
<1>13. Len(o.out) \in Nat /\ left \in Nat /\ r.limit = left + Len(o.out)
  <2>1. Len(o.out) \in Nat
    BY <1>10 DEF Valid, Outcomes
  <2>2. QED
    BY <1>4, <1>8, <1>10, <2>1
<1> HIDE DEF left
<1>14. Became(r, s) /\ s.limit = left
  BY <1>1, <1>2, <1>13, TakeBecomes
<1> HIDE DEF s
<1>15. PICK q : Backed(q, m, o.t, o.w) /\ p[m] <= q[m] + Len(o.out)
  BY <1>12 DEF Delivers
<1>16. q[m] \in Nat
  BY <1>2, <1>15 DEF Backed
<1>17. Left(p[n], Len(o.out)) <= s.limit
  <2>1. r.limit <= left + Len(o.out)
    BY <1>4, <1>13
  <2>2. Left(p[n], Len(o.out)) <= left
    BY <1>3, <1>4, <1>13, <2>1, LeftPassed
  <2>3. QED
    BY <1>14, <2>2
<1>18. Left(p[n], Len(o.out)) <= q[m]
  BY <1>3, <1>4, <1>13, <1>15, <1>16, LeftPassed
<1>19. Uses(s, m) /\ Backs(Left(p[n], Len(o.out)), q, s, o.w)
  BY <1>1, <1>2, <1>5, <1>14, <1>17, <1>18, TakeBacks
<1>20. o.how # "blocks" /\ (o.how = "ok" /\ o.out = <<>> => AskedOverstates(n, c.t, c.w))
  BY <1>6, <1>12 DEF Delivers
<1>21. Delivers(n, c, p, Outcome(o.how, o.out, With(o.t, n, s), o.w), Len(o.out))
  BY <1>3, <1>5, <1>10, <1>13, <1>14, <1>15, <1>19, <1>20, AdaptorDelivers
<1>22. QED
  BY <1>o, <1>11, <1>21

\* The first reader of a Chain answers for it, unless it overstates: one is
\* its outcome, of which used bytes are taken.
LEMMA ChainDelivers ==
  ASSUME NEW n \in Nat, NEW c \in Calls(n), c.t[n].kind = "chain", NEW p, Owes(n, c, p),
         NEW one, Valid(n - 1, c, one), NEW used \in Nat,
         Delivers(c.t[n].first, c, p, one, used)
  PROVE  (\A two : Chained(n, one, two) = one) /\ Delivers(n, c, p, one, used)
<1> DEFINE r == c.t[n]
           m == r.first
<1>1. r \in Node /\ c.t \in Having(n) /\ n \in 1 .. Len(c.t)
  BY CallFacts
<1>2. /\ m \in 1 .. n - 1 /\ m \in 0 .. n - 1 /\ m \in Nat
      /\ "chain" \notin Adaptors \cup Buffered \cup Streams
  BY <1>1, InsideFacts DEF Adaptors, Buffered, Streams
<1>3. p \in [Nat -> Nat] /\ p[n] \in Nat /\ p[n] > 0 /\ Backs(p[n], p, r, c.w)
  BY OwesFacts
<1>4. p[n] <= p[m] /\ ~r.done_first
  BY <1>3 DEF Backs
<1>m. p[m] \in Nat
  BY <1>2, <1>3
<1>5. ~AskedOverstates(m, c.t, c.w)
  BY <1>1, ReadsOn DEF Owes
<1>6. one.how # "blocks" /\ ~(one.how = "ok" /\ one.out = <<>>)
  BY <1>5 DEF Delivers
<1>7. \A two : Chained(n, one, two) = one
  BY <1>6 DEF Chained
<1>8. one.t \in Having(n) /\ one.t[n] = r
  BY ValidKeeps
<1>9. PICK q : Backed(q, m, one.t, one.w) /\ p[m] <= q[m] + used
  BY DEF Delivers
<1>10. q[m] \in Nat
  BY <1>2, <1>9 DEF Backed
<1>11. Left(p[n], used) <= q[m]
  BY <1>3, <1>4, <1>m, <1>9, <1>10, LeftPassed
<1>12. Uses(one.t[n], m)
  BY <1>2, <1>8 DEF Uses
<1>13. Backs(Left(p[n], used), q, one.t[n], one.w)
  BY <1>2, <1>4, <1>8, <1>11 DEF Backs
<1>14. Delivers(n, c, p, one, used)
  BY <1>2, <1>3, <1>6, <1>8, <1>9, <1>12, <1>13, DeliversAt
<1>15. QED
  BY <1>7, <1>14

LEMMA ReadChainDelivers ==
  ASSUME NEW n \in Nat, ReadsDeliver(n), NEW c \in Calls(n), c.t[n].kind = "chain",
         NEW p, Owes(n, c, p)
  PROVE  Delivers(n, c, p, ReadChain(Methods, n, c), Len(ReadChain(Methods, n, c).out))
<1> DEFINE r == c.t[n]
           m == r.first
           one == Methods[m].read[c]
           two == Methods[r.second].read[After(c, one)]
<1>1. c.k > 0 /\ c.t \in Having(n) /\ m \in 1 .. n - 1
  BY CallFacts, InsideFacts DEF Owes
<1>2. p \in [Nat -> Nat] /\ p[n] \in Nat /\ p[n] > 0 /\ Backs(p[n], p, r, c.w)
  BY OwesFacts
<1>3. p[m] > 0 /\ ~r.done_first
  <2>1. p[n] <= p[m] /\ ~r.done_first
    BY <1>2 DEF Backs
  <2>2. p[m] \in Nat
    BY <1>1, <1>2
  <2>3. \A a, b \in Nat : a > 0 /\ a <= b => b > 0
    OBVIOUS
  <2>4. p[n] \in Nat /\ p[n] > 0
    BY <1>2
  <2>5. QED
    BY <2>1, <2>2, <2>3, <2>4
<1>4. Delivers(m, c, p, one, Len(one.out))
  BY <1>1, <1>3, InnerDelivers
<1>5. Valid(n - 1, c, one)
  BY <1>1, ReadsAreValid, InnerRead
<1>6. ReadChain(Methods, n, c) = Chained(n, one, two)
  BY <1>3 DEF ReadChain
<1> HIDE DEF one, two
<1>7. Len(one.out) \in Nat
  BY <1>5 DEF Valid, Outcomes
<1> DEFINE used == Len(one.out)
<1>8. used \in Nat /\ Delivers(m, c, p, one, used)
  BY <1>4, <1>7
<1> HIDE DEF used
<1>9. Delivers(n, c, p, one, used)
  BY <1>5, <1>8, ChainDelivers
<1>10. Chained(n, one, two) = one
  BY <1>5, <1>8, ChainDelivers
<1>11. QED
  BY <1>6, <1>9, <1>10 DEF used

LEMMA ReadFromDelivers ==
  ASSUME NEW n \in Nat, ReadsDeliver(n), NEW c \in Calls(n), NEW p, Owes(n, c, p)
  PROVE  Delivers(n, c, p, ReadFrom(Methods, n, c), Len(ReadFrom(Methods, n, c).out))
<1>s. Adaptors = {"buf", "stdin", "take"} /\ Buffered = {"buf", "stdin"}
  BY DEF Adaptors, Buffered
<1>1. CASE c.t[n].kind \in Buffered
  <2>1. ReadFrom(Methods, n, c) = ReadBuf(Methods, n, c)
    BY <1>s, <1>1 DEF ReadFrom
  <2>2. QED
    BY <1>1, <2>1, ReadBufDelivers
<1>2. CASE c.t[n].kind = "take"
  <2>1. ReadFrom(Methods, n, c) = ReadTake(Methods, n, c)
    BY <1>s, <1>2 DEF ReadFrom
  <2>2. QED
    BY <1>2, <2>1, ReadTakeDelivers
<1>3. CASE c.t[n].kind = "chain"
  <2>1. ReadFrom(Methods, n, c) = ReadChain(Methods, n, c)
    BY <1>s, <1>3 DEF ReadFrom
  <2>2. QED
    BY <1>3, <2>1, ReadChainDelivers
<1>4. CASE c.t[n].kind \notin Adaptors \cup {"chain"}
  <2>1. /\ c.t[n].kind \notin Buffered /\ c.t[n].kind # "take"
        /\ c.t[n].kind # "chain"
    BY <1>s, <1>4
  <2>2. ReadFrom(Methods, n, c) = ReadLeaf(n, c)
    BY <2>1 DEF ReadFrom
  <2>3. QED
    BY <1>4, <2>2, LeafDelivers
<1>5. QED
  BY <1>s, <1>1, <1>2, <1>3, <1>4

\* Every read keeps every promise that is backed.
LEMMA ReadKeepsPromises ==
  \A n \in Nat : \A c \in Calls(n) : \A p \in [Nat -> Nat] : ReadDelivers(n, c, p)
<1> DEFINE T == {n \in Nat : \E c \in Calls(n) : \E p \in [Nat -> Nat] : ~ReadDelivers(n, c, p)}
<1>1. SUFFICES ASSUME T # {} PROVE FALSE
  OBVIOUS
<1>2. PICK n \in T : \A m \in T : ~(m < n)
  BY <1>1, LeastNumber
<1>3. n \in Nat /\ ReadsDeliver(n)
  BY <1>2 DEF ReadsDeliver
<1>4. PICK c \in Calls(n), p \in [Nat -> Nat] : ~ReadDelivers(n, c, p)
  BY <1>2
<1>5. Methods[n].read[c] = ReadFrom(Methods, n, c)
  BY <1>3, MethodsFacts
<1>6. Owes(n, c, p) => Delivers(n, c, p, ReadFrom(Methods, n, c), Len(ReadFrom(Methods, n, c).out))
  BY <1>3, ReadFromDelivers
<1>7. QED
  BY <1>4, <1>5, <1>6 DEF ReadDelivers

LEMMA ReadsKeepPromises == \A n \in Nat : ReadsDeliver(n)
BY ReadKeepsPromises DEF ReadsDeliver

-----------------------------------------------------------------------------
(***************************************************************************)
(* fill_buf keeps promises                                                 *)
(***************************************************************************)

FillDelivers(n, c, p) == Owes(n, c, p) => Delivers(n, c, p, Methods[n].fill_buf[c], 0)

FillsDeliver(n, s) ==
  \A m \in s \cap 1 .. n - 1 : \A c \in Calls(m) : \A p \in [Nat -> Nat] :
    BufReads(s, c.t) => FillDelivers(m, c, p)

LEMMA InnerFillDelivers ==
  ASSUME NEW n \in Nat, NEW s, FillsDeliver(n, s), NEW c \in Calls(n), BufReads(s, c.t),
         NEW p, Owes(n, c, p),
         NEW m \in s, \/ c.t[n].kind \in Adaptors /\ m = c.t[n].inner
                      \/ c.t[n].kind = "chain" /\ m = c.t[n].first,
         p[m] > 0
  PROVE  Delivers(m, c, p, Methods[m].fill_buf[c], 0)
<1>1. c.t \in Having(n) /\ n \in 1 .. Len(c.t) /\ Len(c.t) \in Nat
  BY CallFacts
<1>2. m \in 1 .. n - 1 /\ (ChainOverstates(m, c.t, c.w) => ChainOverstates(n, c.t, c.w))
  BY <1>1, ReadsOn
<1>3. m \in 0 .. n /\ m \in 1 .. Len(c.t)
  BY <1>1, <1>2
<1>4. c \in Calls(m)
  BY <1>3, CallInside, CallFacts
<1>5. Backed(p, m, c.t, c.w) /\ p \in [Nat -> Nat]
  BY <1>3, BackedInside, OwesFacts DEF Owes
<1>6. Owes(m, c, p)
  BY <1>2, <1>5 DEF Owes
<1>7. FillDelivers(m, c, p)
  BY <1>2, <1>4, <1>5 DEF FillsDeliver
<1>8. QED
  BY <1>6, <1>7 DEF FillDelivers

\* A call that changes nothing.
LEMMA SameDelivers ==
  ASSUME NEW n \in Nat, NEW c \in Calls(n), NEW p, Owes(n, c, p),
         NEW out, out = <<>> => Overstates(c.t[n], c.w)
  PROVE  Delivers(n, c, p, Outcome("ok", out, c.t, c.w), 0)
<1> DEFINE o == Outcome("ok", out, c.t, c.w)
<1>1. o.how = "ok" /\ o.out = out /\ o.t = c.t /\ o.w = c.w
  BY DEF Outcome
<1> HIDE DEF o
<1>2. n \in Methods[n].asked[c.t]
  BY CallFacts, AskedRange
<1>3. o.how = "ok" /\ o.out = <<>> => AskedOverstates(n, c.t, c.w)
  BY <1>1, <1>2 DEF AskedOverstates
<1>4. p[n] \in Nat
  BY OwesFacts
<1>5. p[n] <= p[n] + 0
  BY <1>4
<1>6. Delivers(n, c, p, o, 0)
  BY <1>1, <1>3, <1>5 DEF Delivers, Owes
<1>7. QED
  BY <1>6 DEF o

LEMMA FillTakeDelivers ==
  ASSUME NEW n \in Nat, NEW s, FillsBelow(n, s), FillsDeliver(n, s),
         NEW c \in Calls(n), BufReads(s, c.t), c.t[n].kind = "take", c.t[n].inner \in s,
         NEW p, Owes(n, c, p)
  PROVE  Delivers(n, c, p, FillTake(Methods, n, c), 0)
<1> DEFINE r == c.t[n]
           m == r.inner
           o == Methods[m].fill_buf[c]
           out == Prefix(o.out, r.limit)
           b == Outcome(o.how, out, o.t, o.w)
<1>1. r \in Node /\ c.t \in Having(n)
  BY CallFacts
<1>2. /\ r \in [kind : {"take"}, limit : Nat, inner : Nat]
      /\ m \in 1 .. n - 1 /\ r.kind \in Adaptors
  BY <1>1, NodeFacts, InsideFacts DEF Adaptors
<1>3. p \in [Nat -> Nat] /\ p[n] \in Nat /\ p[n] > 0 /\ Backs(p[n], p, r, c.w)
  BY OwesFacts
<1>4. p[n] <= r.limit /\ p[n] <= p[m] /\ p[m] \in Nat /\ r.limit \in Nat
  BY <1>2, <1>3 DEF Backs
<1>5. m \in Nat \ {0} /\ m \in 0 .. n - 1 /\ m \in s \cap 1 .. n - 1
  BY <1>2
<1>6. AskedOverstates(m, c.t, c.w) => AskedOverstates(n, c.t, c.w)
  BY <1>1, <1>2, ReadsOn
<1>7. p[m] > 0 /\ r.limit > 0 /\ r.limit # 0
  <2>1. \A a, i \in Nat : a > 0 /\ a <= i => i > 0 /\ i # 0
    OBVIOUS
  <2>2. p[n] \in Nat /\ p[n] > 0
    BY <1>3
  <2>3. QED
    BY <1>4, <2>1, <2>2
<1>8. Valid(n - 1, c, o)
  BY <1>5, InnerFill
<1>9. o \in Outcomes
  BY <1>8 DEF Valid
<1>10. FillTake(Methods, n, c) = Outcome(o.how, out, o.t, o.w)
  BY <1>7, <1>9, FillTakeIs
<1>11. Delivers(m, c, p, o, 0)
  BY <1>2, <1>5, <1>7, InnerFillDelivers
<1> HIDE DEF o
<1>12. o.t \in Having(n) /\ o.t[n] = r
  BY <1>8, ValidKeeps
<1>13. o.out \in Seq(Nat)
  BY <1>9 DEF Outcomes
<1>14. o.out # <<>> => out # <<>>
  BY <1>4, <1>7, <1>13, PrefixFacts
<1> HIDE DEF out
<1>15. b.how = o.how /\ b.out = out /\ b.t = o.t /\ b.w = o.w
  BY DEF Outcome
<1> HIDE DEF b
<1>16. PICK q : Backed(q, m, o.t, o.w) /\ p[m] <= q[m] + 0
  BY <1>11 DEF Delivers
<1>17. q[m] \in Nat /\ 0 \in Nat
  BY <1>2, <1>16 DEF Backed
<1>18. Left(p[n], 0) <= r.limit
  <2>1. r.limit <= r.limit + 0
    BY <1>4
  <2>2. QED
    BY <1>3, <1>4, <1>17, <2>1, LeftPassed
<1>19. Left(p[n], 0) <= q[m]
  BY <1>3, <1>4, <1>16, <1>17, LeftPassed
<1>20. Became(r, r)
  BY <1>1, BecameRefl
<1>21. Uses(r, m) /\ Backs(Left(p[n], 0), q, r, o.w)
  BY <1>1, <1>5, <1>18, <1>19, <1>20, TakeBacks
<1>22. b.how # "blocks" /\ (b.how = "ok" /\ b.out = <<>> => AskedOverstates(n, c.t, c.w))
  BY <1>6, <1>11, <1>14, <1>15 DEF Delivers
<1>23. /\ b.t \in Having(n) /\ Backed(q, m, b.t, b.w) /\ Uses(b.t[n], m)
       /\ Backs(Left(p[n], 0), q, b.t[n], b.w)
  BY <1>12, <1>15, <1>16, <1>21
<1>24. Delivers(n, c, p, b, 0)
  BY <1>3, <1>5, <1>17, <1>22, <1>23, DeliversAt
<1>25. QED
  BY <1>10, <1>24 DEF b

LEMMA FillChainDelivers ==
  ASSUME NEW n \in Nat, NEW s, FillsBelow(n, s), FillsDeliver(n, s),
         NEW c \in Calls(n), BufReads(s, c.t), c.t[n].kind = "chain", c.t[n].first \in s,
         NEW p, Owes(n, c, p)
  PROVE  Delivers(n, c, p, FillChain(Methods, n, c), 0)
<1> DEFINE r == c.t[n]
           m == r.first
           one == Methods[m].fill_buf[c]
           two == Methods[r.second].fill_buf[After(c, one)]
<1>1. m \in s \cap 1 .. n - 1
  BY CallFacts, InsideFacts
<1>2. p \in [Nat -> Nat] /\ p[n] \in Nat /\ p[n] > 0 /\ Backs(p[n], p, r, c.w)
  BY OwesFacts
<1>3. p[m] > 0 /\ ~r.done_first
  <2>1. p[n] <= p[m] /\ ~r.done_first
    BY <1>2 DEF Backs
  <2>2. p[m] \in Nat
    BY <1>1, <1>2
  <2>3. \A a, b \in Nat : a > 0 /\ a <= b => b > 0
    OBVIOUS
  <2>4. p[n] \in Nat /\ p[n] > 0
    BY <1>2
  <2>5. QED
    BY <2>1, <2>2, <2>3, <2>4
<1>4. Delivers(m, c, p, one, 0)
  BY <1>1, <1>3, InnerFillDelivers
<1>5. Valid(n - 1, c, one)
  BY <1>1, InnerFill
<1>6. FillChain(Methods, n, c) = Chained(n, one, two)
  BY <1>3 DEF FillChain
<1> HIDE DEF one, two
<1>7. 0 \in Nat
  OBVIOUS
<1>8. Delivers(n, c, p, one, 0)
  BY <1>4, <1>5, <1>7, ChainDelivers
<1>9. Chained(n, one, two) = one
  BY <1>4, <1>5, <1>7, ChainDelivers
<1>10. QED
  BY <1>6, <1>8, <1>9

LEMMA FillBufDelivers ==
  ASSUME NEW n \in Nat, NEW s, n \in s, FillsBelow(n, s), FillsDeliver(n, s),
         NEW c \in Calls(n), BufReads(s, c.t), NEW p, Owes(n, c, p)
  PROVE  Delivers(n, c, p, FillBuf(Methods, n, c), 0)
<1> DEFINE r == c.t[n]
<1>s. /\ Adaptors = {"buf", "stdin", "take"} /\ Buffered = {"buf", "stdin"}
      /\ Streams = {"socket", "pipe", "windows_pipe"}
  BY DEF Adaptors, Buffered, Streams
<1>1. /\ r \in Node /\ c.w \in Kernel
      /\ \/ r.kind \in {"slice", "cursor", "empty"} \cup Buffered
         \/ r.kind \in {"take", "chain"} /\ Inside(r) \subseteq s
  BY CallFacts DEF BufReads
<1>2. p[n] \in Nat /\ p[n] > 0 /\ Backs(p[n], p, r, c.w)
  BY OwesFacts
<1>3. CASE r.kind = "slice"
  <2>1. FillBuf(Methods, n, c) = Outcome("ok", r.data, c.t, c.w)
    BY <1>s, <1>3 DEF FillBuf
  <2>2. p[n] <= Len(r.data)
    BY <1>2, <1>3 DEF Backs
  <2>3. r.data # <<>>
    <3>1. r.data = <<>> => Len(r.data) = 0
      OBVIOUS
    <3>2. \A a \in Nat : a > 0 => ~(a <= 0)
      OBVIOUS
    <3>3. QED
      BY <1>2, <2>2, <3>1, <3>2
  <2>4. QED
    BY <2>1, <2>3, SameDelivers
<1>4. CASE r.kind = "cursor"
  <2> DEFINE out == Rest(r.data, r.pos)
  <2>1. FillBuf(Methods, n, c) = Outcome("ok", out, c.t, c.w)
    BY <1>s, <1>4 DEF FillBuf
  <2>2. r.data \in Seq(Nat) /\ r.pos \in Nat /\ Len(r.data) \in Nat
    BY <1>1, <1>4, NodeFacts
  <2>3. Len(out) = IF r.pos <= Len(r.data) THEN Len(r.data) - r.pos ELSE 0
    BY <2>2, RestFacts
  <2> HIDE DEF out
  <2>4. r.pos + p[n] <= Len(r.data) \/ r.pos > Len(r.data)
    BY <1>2, <1>4 DEF Backs
  <2>5. out = <<>> => r.pos > Len(r.data)
    <3>1. \A a, pos, end \in Nat : a > 0 /\ pos + a <= end => pos <= end /\ end - pos # 0
      OBVIOUS
    <3>2. out = <<>> => Len(out) = 0
      OBVIOUS
    <3>3. CASE r.pos + p[n] <= Len(r.data)
      <4>1. r.pos <= Len(r.data) /\ Len(r.data) - r.pos # 0
        BY <1>2, <2>2, <3>1, <3>3
      <4>2. QED
        BY <2>3, <3>2, <4>1
    <3>4. QED
      BY <2>4, <3>3
  <2>6. out = <<>> => Overstates(r, c.w)
    BY <1>4, <2>5 DEF Overstates
  <2>7. QED
    BY <2>1, <2>6, SameDelivers
<1>5. CASE r.kind = "empty"
  <2>1. FillBuf(Methods, n, c) = Outcome("ok", <<>>, c.t, c.w)
    BY <1>s, <1>5 DEF FillBuf
  <2>2. Overstates(r, c.w)
    BY <1>5 DEF Overstates
  <2>3. QED
    BY <2>1, <2>2, SameDelivers
<1>6. CASE r.kind \in Buffered
  <2>1. FillBuf(Methods, n, c) = FillReader(Methods, n, c)
    BY <1>s, <1>6 DEF FillBuf
  <2>2. QED
    BY <1>6, <2>1, ReadsKeepPromises, FillReaderDelivers
<1>7. CASE r.kind = "take"
  <2>1. FillBuf(Methods, n, c) = FillTake(Methods, n, c)
    BY <1>s, <1>7 DEF FillBuf
  <2>2. r.inner \in s
    BY <1>s, <1>1, <1>7 DEF Inside
  <2>3. QED
    BY <1>7, <2>1, <2>2, FillTakeDelivers
<1>8. CASE r.kind = "chain"
  <2>1. FillBuf(Methods, n, c) = FillChain(Methods, n, c)
    BY <1>s, <1>8 DEF FillBuf
  <2>2. r.first \in s
    BY <1>s, <1>1, <1>8 DEF Inside
  <2>3. QED
    BY <1>8, <2>1, <2>2, FillChainDelivers
<1>9. QED
  BY <1>1, <1>3, <1>4, <1>5, <1>6, <1>7, <1>8

\* Every fill_buf keeps every promise that is backed.
LEMMA FillKeepsPromises ==
  ASSUME NEW s
  PROVE  \A n \in Nat \cap s : \A c \in Calls(n) : \A p \in [Nat -> Nat] :
           BufReads(s, c.t) => FillDelivers(n, c, p)
<1> DEFINE T == {n \in Nat \cap s : \E c \in Calls(n) : \E p \in [Nat -> Nat] :
                   BufReads(s, c.t) /\ ~FillDelivers(n, c, p)}
<1>1. SUFFICES ASSUME T # {} PROVE FALSE
  OBVIOUS
<1>2. T \subseteq Nat
  OBVIOUS
<1>3. PICK n \in T : \A m \in T : ~(m < n)
  BY <1>1, <1>2, LeastNumber
<1>4. n \in Nat /\ n \in s /\ FillsDeliver(n, s)
  BY <1>3 DEF FillsDeliver
<1>5. FillsBelow(n, s)
  BY FillIsValid DEF FillsBelow
<1>6. PICK c \in Calls(n), p \in [Nat -> Nat] : BufReads(s, c.t) /\ ~FillDelivers(n, c, p)
  BY <1>3
<1>7. Methods[n].fill_buf[c] = FillBuf(Methods, n, c)
  BY <1>4, MethodsFacts
<1>8. Owes(n, c, p) => Delivers(n, c, p, FillBuf(Methods, n, c), 0)
  BY <1>4, <1>5, <1>6, FillBufDelivers
<1>9. QED
  BY <1>6, <1>7, <1>8 DEF FillDelivers

-----------------------------------------------------------------------------
(***************************************************************************)
(* What num_ready_bytes answers                                            *)
(***************************************************************************)

\* No more than m in any reader, and a u64 has room for all of them.
FitsIn(m, t, w) ==
  /\ m \in 0 .. U64Max /\ Len(t) * m <= U64Max
  /\ \A n \in DOMAIN t :
       Most(t[n]) <= m /\ (t[n].kind \in Buffered => Len(t[n].buffer) <= t[n].cap)
  /\ Len(w.stream) <= MaxArrived /\ Len(w.file) <= MaxLen

\* The size of a file is not what fstat said.
Misses(r, c) == r.kind = "file" /\ r.readable /\ c.k # Len(c.w.file)

\* Readers whose counts a sum may overrun, or that promise what is not next.
Overruns(r, c) == r.kind = "repeat" \/ Overstates(r, c.w) \/ Misses(r, c)
IsStale(r, c) == (r.kind = "chain" /\ r.done_first) \/ Misses(r, c)

AsksOverrun(n, c) == \E i \in Methods[n].asked[c.t] : Overruns(c.t[i], c)
AsksStale(n, c) == \E i \in Methods[n].asked[c.t] : IsStale(c.t[i], c)

Typed(a) ==
  /\ a.how \in {"ok", "fails", "panics"} /\ a.n \in 0 .. U64Max
  /\ a.how # "ok" => a.n = 0

\* The answer a of the n-th reader to the call c.
Answers(n, c, m, a) ==
  /\ Typed(a)
  /\ AsksOverrun(n, c) \/ (a.how # "panics" /\ a.n <= n * m)
  /\ AsksStale(n, c) \/ \E p : Backed(p, n, c.t, c.w) /\ a.n <= p[n]

LEMMA Multiples ==
  ASSUME NEW i \in Nat, NEW n \in Nat, NEW m \in Nat, i < n
  PROVE  i * m \in Nat /\ n * m \in Nat /\ i * m + m <= n * m
<1>1. PICK d \in Nat : n = i + 1 + d
  <2>1. n - i - 1 \in Nat /\ n = i + 1 + (n - i - 1)
    OBVIOUS
  <2>2. QED
    BY <2>1
<1>2. n * m = i * m + m + d * m
  BY <1>1
<1>3. i * m \in Nat /\ n * m \in Nat /\ d * m \in Nat
  BY <1>1
<1>4. QED
  BY <1>2, <1>3

LEMMA FitsFacts ==
  ASSUME NEW n, NEW c \in Calls(n), NEW m, FitsIn(m, c.t, c.w)
  PROVE  /\ m \in Nat /\ m <= U64Max /\ U64Max \in Nat
         /\ n * m \in Nat /\ m <= n * m /\ n * m <= U64Max
         /\ \A i \in 1 .. n - 1 : i * m \in Nat /\ i * m + m <= n * m
         /\ Most(c.t[n]) <= m
         /\ c.t[n].kind \in Buffered => Len(c.t[n].buffer) <= c.t[n].cap
         /\ Len(c.w.stream) <= MaxArrived /\ Len(c.w.file) <= MaxLen
<1>1. n \in 1 .. Len(c.t) /\ Len(c.t) \in Nat /\ n \in DOMAIN c.t
  BY CallFacts DEF Having, Readers
<1>2. m \in Nat /\ m <= U64Max /\ U64Max \in Nat /\ Len(c.t) * m <= U64Max
  BY ReadersAssumption DEF FitsIn
<1>3. n * m \in Nat /\ n * m <= U64Max
  <2>1. n = Len(c.t) \/ n < Len(c.t)
    BY <1>1
  <2>2. n \in Nat
    BY <1>1
  <2>3. n < Len(c.t) => n * m \in Nat /\ n * m + m <= Len(c.t) * m /\ Len(c.t) * m \in Nat
    BY <1>1, <1>2, <2>2, Multiples
  <2>4. CASE n = Len(c.t)
    BY <1>1, <1>2, <2>4
  <2>5. CASE n < Len(c.t)
    BY <1>2, <2>3, <2>5
  <2>6. QED
    BY <2>1, <2>4, <2>5
<1>4. \A i \in 0 .. n - 1 : i * m \in Nat /\ i * m + m <= n * m
  <2>1. TAKE i \in 0 .. n - 1
  <2>2. i \in Nat /\ n \in Nat /\ i < n
    BY <1>1
  <2>3. QED
    BY <1>2, <2>2, Multiples
<1>5. m <= n * m
  <2>1. 0 \in 0 .. n - 1 /\ 0 * m = 0
    BY <1>1, <1>2
  <2>2. 0 * m + m <= n * m
    BY <1>4, <2>1
  <2>3. QED
    BY <1>2, <2>1, <2>2
<1>6. \A i \in 1 .. n - 1 : i * m \in Nat /\ i * m + m <= n * m
  BY <1>1, <1>4
<1>7. /\ Most(c.t[n]) <= m
      /\ c.t[n].kind \in Buffered => Len(c.t[n].buffer) <= c.t[n].cap
      /\ Len(c.w.stream) <= MaxArrived /\ Len(c.w.file) <= MaxLen
  BY <1>1 DEF FitsIn
<1>8. QED
  BY <1>2, <1>3, <1>5, <1>6, <1>7

LEMMA U64Facts ==
  ASSUME NEW x \in Int
  PROVE  \A a \in U64(x) :
           /\ Typed(a)
           /\ x \in Nat => a.n <= x
           /\ x \in 0 .. U64Max => a.how = "ok" /\ a.n = x
<1>1. U64Max \in Nat
  BY ReadersAssumption
<1>2. x % (U64Max + 1) \in 0 .. U64Max /\ (x \in Nat => x % (U64Max + 1) <= x)
  BY <1>1
<1>3. CASE x \in 0 .. U64Max
  BY <1>1, <1>3 DEF U64, Count, Typed
<1>4. CASE x \notin 0 .. U64Max
  <2>1. U64(x) = {Panic, Count(x % (U64Max + 1))}
    BY <1>4 DEF U64
  <2>2. QED
    BY <1>1, <1>2, <1>4, <2>1 DEF Panic, Count, Typed
<1>5. QED
  BY <1>3, <1>4

LEMMA NothingBacked == \A m \in Nat : \A t, w : Backed(Nothing, m, t, w)
BY DEF Backed, Nothing

\* What the readers up to the j-th are good for backs the answer.
LEMMA AnswersAt ==
  ASSUME NEW n \in Nat, NEW c \in Calls(n), NEW m, NEW a, Typed(a),
         AsksOverrun(n, c) \/ (a.how # "panics" /\ a.n <= n * m),
         NEW j \in 0 .. n - 1, NEW q, Backed(q, j, c.t, c.w), Uses(c.t[n], j),
         a.n = 0 \/ Backs(a.n, q, c.t[n], c.w)
  PROVE  Answers(n, c, m, a)
<1> DEFINE v == a.n
           t == c.t
           w == c.w
<1>1. v \in Nat /\ t \in Having(n)
  BY CallFacts, ReadersAssumption DEF Typed
<1>2. Backed(q, j, t, w) /\ Uses(t[n], j) /\ (v = 0 \/ Backs(v, q, t[n], w))
  OBVIOUS
<1> HIDE DEF v, t, w
<1>3. PICK p : Backed(p, n, t, w) /\ p[n] = v
  BY <1>1, <1>2, Extend
<1>4. v <= p[n]
  BY <1>1, <1>3
<1>5. Backed(p, n, c.t, c.w) /\ a.n <= p[n]
  BY <1>3, <1>4 DEF v, t, w
<1>6. QED
  BY <1>5 DEF Answers

LEMMA AsksItself ==
  ASSUME NEW n \in Nat, NEW c \in Calls(n)
  PROVE  /\ Overruns(c.t[n], c) => AsksOverrun(n, c)
         /\ IsStale(c.t[n], c) => AsksStale(n, c)
<1>1. n \in Methods[n].asked[c.t]
  BY CallFacts, AskedRange
<1>2. QED
  BY <1>1 DEF AsksOverrun, AsksStale

LEMMA LeafAnswersAt ==
  ASSUME NEW n \in Nat, NEW c \in Calls(n), NEW m, NEW a, Typed(a),
         c.t[n].kind \notin Adaptors \cup {"chain"},
         Overruns(c.t[n], c) \/ (a.how # "panics" /\ a.n <= n * m),
         a.n = 0 \/ Backs(a.n, Nothing, c.t[n], c.w)
  PROVE  Answers(n, c, m, a)
<1>1. 0 \in 0 .. n - 1 /\ Backed(Nothing, 0, c.t, c.w) /\ Uses(c.t[n], 0)
  BY CallFacts, NothingIsBacked DEF Uses
<1>2. AsksOverrun(n, c) \/ (a.how # "panics" /\ a.n <= n * m)
  BY AsksItself
<1>3. QED
  BY <1>1, <1>2, AnswersAt

LEMMA CountFacts ==
  ASSUME NEW x \in 0 .. U64Max
  PROVE  Typed(Count(x)) /\ Count(x).how = "ok" /\ Count(x).n = x
BY DEF Typed, Count

LEMMA FailureFacts ==
  /\ Typed(Failure) /\ Failure.how = "fails" /\ Failure.n = 0
  /\ Typed(Panic) /\ Panic.how = "panics" /\ Panic.n = 0
BY ReadersAssumption DEF Typed, Failure, Panic

\* The remainder of size x - y is the number of bytes after y, or y is beyond x.
LEMMA RemainingAnswers ==
  ASSUME NEW x \in Nat, NEW y \in Nat, NEW b \in Nat, x <= b, b <= U64Max, NEW a \in Remaining(x, y)
  PROVE  /\ Typed(a)
         /\ y <= x => a.how # "panics" /\ a.n \in Nat /\ a.n <= b /\ y + a.n <= x
<1>1. U64Max \in Nat /\ x - y \in Int /\ a \in U64(x - y)
  BY ReadersAssumption DEF Remaining
<1>2. /\ Typed(a)
      /\ x - y \in 0 .. U64Max => a.how = "ok" /\ a.n = x - y
  BY <1>1, U64Facts
<1>3. y <= x => x - y \in 0 .. U64Max
  BY <1>1
<1>4. QED
  BY <1>2, <1>3

LEMMA LeafAnswers ==
  ASSUME NEW n \in Nat, NEW c \in Calls(n), NEW m, FitsIn(m, c.t, c.w),
         c.t[n].kind \notin Adaptors \cup {"chain"}, NEW a \in NumReady(Methods, n, c)
  PROVE  Answers(n, c, m, a)
<1> DEFINE r == c.t[n]
<1>1. /\ r \in Node /\ c.k \in Nat /\ c.w \in Kernel
      /\ c.w.stream \in Seq(Nat) /\ c.w.pos \in Nat /\ c.w.file \in Seq(Nat)
  BY CallFacts DEF Kernel
<1>2. /\ m \in Nat /\ m <= U64Max /\ U64Max \in Nat /\ n * m \in Nat /\ m <= n * m
      /\ Most(r) <= m /\ Len(c.w.stream) <= MaxArrived /\ Len(c.w.file) <= MaxLen
  BY FitsFacts
<1>a. MaxArrived \in Nat /\ MaxLen \in Nat
  BY ReadersAssumption
<1>s. /\ Streams = {"socket", "pipe", "windows_pipe"}
      /\ Adaptors = {"buf", "stdin", "take"} /\ Buffered = {"buf", "stdin"}
  BY DEF Streams, Adaptors, Buffered
<1>3. CASE r.kind = "slice"
  <2>1. Len(r.data) \in Nat
    BY <1>1, <1>3, NodeFacts
  <2>2. Len(r.data) <= m
    BY <1>2, <1>3, <1>s DEF Most
  <2>3. a = Count(Len(r.data))
    BY <1>s, <1>3 DEF NumReady
  <2>4. Typed(a) /\ a.how = "ok" /\ a.n = Len(r.data)
    BY <1>2, <2>1, <2>2, <2>3, CountFacts
  <2>5. a.how # "panics" /\ a.n <= n * m
    BY <1>2, <2>1, <2>2, <2>4
  <2>6. Backs(a.n, Nothing, r, c.w)
    BY <1>s, <1>3, <2>1, <2>4 DEF Backs
  <2>7. QED
    BY <2>4, <2>5, <2>6, LeafAnswersAt
<1>4. CASE r.kind = "cursor"
  <2>1. Len(r.data) \in Nat /\ r.pos \in Nat
    BY <1>1, <1>4, NodeFacts
  <2>2. Len(r.data) <= m
    BY <1>2, <1>4, <1>s DEF Most
  <2>3. a \in Remaining(Len(r.data), r.pos)
    BY <1>s, <1>4 DEF NumReady
  <2>4. /\ Typed(a)
        /\ r.pos <= Len(r.data) =>
             a.how # "panics" /\ a.n \in Nat /\ a.n <= m /\ r.pos + a.n <= Len(r.data)
    BY <1>2, <2>1, <2>2, <2>3, RemainingAnswers
  <2>5. CASE r.pos <= Len(r.data)
    <3>1. a.how # "panics" /\ a.n <= n * m
      BY <1>2, <2>4, <2>5
    <3>2. Backs(a.n, Nothing, r, c.w)
      BY <1>s, <1>4, <2>4, <2>5 DEF Backs
    <3>3. QED
      BY <2>4, <3>1, <3>2, LeafAnswersAt
  <2>6. CASE r.pos > Len(r.data)
    <3>1. Overruns(r, c)
      BY <1>4, <2>6 DEF Overruns, Overstates
    <3>2. Backs(a.n, Nothing, r, c.w)
      BY <1>s, <1>4, <2>6 DEF Backs
    <3>3. QED
      BY <2>4, <3>1, <3>2, LeafAnswersAt
  <2>7. QED
    BY <2>1, <2>5, <2>6
<1>5. CASE r.kind \in {"empty", "repeat"}
  <2>1. a = Count(IF r.kind = "empty" THEN 1 ELSE U64Max)
    BY <1>s, <1>5 DEF NumReady
  <2>2. r.kind = "empty" => 1 <= m
    BY <1>2, <1>s DEF Most
  <2>3. (IF r.kind = "empty" THEN 1 ELSE U64Max) \in 0 .. U64Max
    BY <1>2, <2>2
  <2>4. Typed(a)
    BY <2>1, <2>3, CountFacts
  <2>5. Overruns(r, c)
    BY <1>5 DEF Overruns, Overstates
  <2>6. Backs(a.n, Nothing, r, c.w)
    BY <1>s, <1>5 DEF Backs
  <2>7. QED
    BY <2>4, <2>5, <2>6, LeafAnswersAt
<1>6. CASE r.kind \in Streams
  <2>1. a \in {Count(Len(c.w.stream)), Failure, Count(0)}
    BY <1>s, <1>6 DEF NumReady, StreamReady, SocketReady, WindowsPipeReady
  <2>2. MaxArrived <= m
    BY <1>2, <1>s, <1>6 DEF Most
  <2>3. Len(c.w.stream) \in Nat /\ Len(c.w.stream) <= m
    BY <1>1, <1>2, <1>a, <2>2
  <2>4. Len(c.w.stream) \in 0 .. U64Max /\ 0 \in 0 .. U64Max
    BY <1>2, <2>3
  <2>5. Typed(a) /\ a.how # "panics" /\ (a.n = 0 \/ a.n = Len(c.w.stream))
    BY <2>1, <2>4, CountFacts, FailureFacts
  <2>6. a.n <= n * m
    BY <1>2, <2>3, <2>5
  <2>7. a.n = 0 \/ Backs(a.n, Nothing, r, c.w)
    BY <1>s, <1>6, <2>3, <2>5 DEF Backs
  <2>8. QED
    BY <2>5, <2>6, <2>7, LeafAnswersAt
<1>7. CASE r.kind = "file"
  <2>1. a = Failure \/ (r.readable /\ a \in Remaining(c.k, c.w.pos))
    BY <1>s, <1>7 DEF NumReady
  <2>2. CASE a = Failure
    <3>1. Typed(a) /\ a.how # "panics" /\ a.n = 0
      BY <2>2, FailureFacts
    <3>2. a.n <= n * m
      BY <1>2, <3>1
    <3>3. QED
      BY <3>1, <3>2, LeafAnswersAt
  <2>3. CASE r.readable /\ a \in Remaining(c.k, c.w.pos) /\ c.k # Len(c.w.file)
    <3>1. Typed(a)
      <4>1. c.k - c.w.pos \in Int
        BY <1>1
      <4>2. QED
        BY <2>3, <4>1, U64Facts DEF Remaining
    <3>2. Misses(r, c)
      BY <1>7, <2>3 DEF Misses
    <3>3. AsksOverrun(n, c) /\ AsksStale(n, c)
      BY <3>2, AsksItself DEF Overruns, IsStale
    <3>4. QED
      BY <3>1, <3>3 DEF Answers
  <2>4. CASE a \in Remaining(Len(c.w.file), c.w.pos)
    <3>1. Len(c.w.file) \in Nat /\ Len(c.w.file) <= m
      <4>1. Most(r) = MaxLen
        BY <1>s, <1>7 DEF Most
      <4>2. Len(c.w.file) \in Nat
        BY <1>1
      <4>3. QED
        BY <1>2, <1>a, <4>1, <4>2
    <3>2. /\ Typed(a)
          /\ c.w.pos <= Len(c.w.file) =>
               a.how # "panics" /\ a.n \in Nat /\ a.n <= m /\ c.w.pos + a.n <= Len(c.w.file)
      BY <1>1, <1>2, <2>4, <3>1, RemainingAnswers
    <3>3. CASE c.w.pos <= Len(c.w.file)
      <4>1. a.how # "panics" /\ a.n <= n * m
        BY <1>2, <3>2, <3>3
      <4>2. Backs(a.n, Nothing, r, c.w)
        BY <1>s, <1>7, <3>2, <3>3 DEF Backs
      <4>3. QED
        BY <3>2, <4>1, <4>2, LeafAnswersAt
    <3>4. CASE c.w.pos > Len(c.w.file)
      <4>1. Overruns(r, c)
        BY <1>7, <3>4 DEF Overruns, Overstates
      <4>2. Backs(a.n, Nothing, r, c.w)
        BY <1>s, <1>7, <3>4 DEF Backs
      <4>3. QED
        BY <3>2, <4>1, <4>2, LeafAnswersAt
    <3>5. QED
      BY <1>1, <3>1, <3>3, <3>4
  <2>5. QED
    BY <2>1, <2>2, <2>3, <2>4
<1>8. QED
  BY <1>s, <1>1, <1>3, <1>4, <1>5, <1>6, <1>7, NodeFacts

\* The answers of the readers before the n-th.
AnswersBelow(n) ==
  \A i \in 1 .. n - 1 : \A c \in Calls(i) : \A m \in Nat :
    FitsIn(m, c.t, c.w) => \A a \in Methods[i].num_ready_bytes[c] : Answers(i, c, m, a)

LEMMA InnerAnswers ==
  ASSUME NEW n \in Nat, AnswersBelow(n), NEW c \in Calls(n), NEW m, FitsIn(m, c.t, c.w),
         NEW i, \/ c.t[n].kind \in {"buf", "take"} /\ i = c.t[n].inner
                \/ c.t[n].kind = "chain" /\ i = c.t[n].first,
         NEW o \in Methods[i].num_ready_bytes[c]
  PROVE  /\ i \in 1 .. n - 1 /\ Typed(o)
         /\ AsksOverrun(n, c) \/ (o.how # "panics" /\ o.n <= i * m)
         /\ AsksStale(n, c) \/ \E q : Backed(q, i, c.t, c.w) /\ o.n <= q[i]
<1>1. c.t \in Having(n) /\ n \in 1 .. Len(c.t) /\ Len(c.t) \in Nat
  BY CallFacts
<1>2. i \in 1 .. n - 1
  BY <1>1, InsideFacts DEF Adaptors, Buffered
<1>i. i \in 1 .. Len(c.t)
  BY <1>1, <1>2
<1>3. c \in Calls(i)
  BY <1>i, CallInside, CallFacts
<1>4. m \in Nat
  BY FitsFacts
<1>5. Answers(i, c, m, o)
  BY <1>2, <1>3, <1>4 DEF AnswersBelow
<1>6. Methods[i].asked[c.t] \subseteq Methods[n].asked[c.t]
  BY <1>1, <1>2, PassedOn
<1>7. (AsksOverrun(i, c) => AsksOverrun(n, c)) /\ (AsksStale(i, c) => AsksStale(n, c))
  BY <1>6 DEF AsksOverrun, AsksStale
<1>8. QED
  BY <1>2, <1>5, <1>7 DEF Answers

\* An answer of nothing.
LEMMA AnswersNothing ==
  ASSUME NEW n \in Nat, NEW c \in Calls(n), NEW m, FitsIn(m, c.t, c.w),
         NEW a, Typed(a), a.n = 0, AsksOverrun(n, c) \/ a.how # "panics"
  PROVE  Answers(n, c, m, a)
<1>1. n - 1 \in Nat /\ n - 1 \in 0 .. n - 1 /\ c.t \in Having(n)
  BY CallFacts
<1>2. Backed(Nothing, n - 1, c.t, c.w) /\ Uses(c.t[n], n - 1)
  BY <1>1, NothingBacked, UsesBefore
<1>3. a.n <= n * m
  BY FitsFacts
<1>4. QED
  BY <1>1, <1>2, <1>3, AnswersAt

LEMMA BufferedAnswers ==
  ASSUME NEW n \in Nat, AnswersBelow(n), NEW c \in Calls(n), NEW m, FitsIn(m, c.t, c.w),
         c.t[n].kind = "buf", NEW o \in Methods[c.t[n].inner].num_ready_bytes[c],
         NEW a \in BufferedReady(c.t[n], o)
  PROVE  Answers(n, c, m, a)
<1> DEFINE r == c.t[n]
           i == r.inner
           l == Len(r.buffer)
<1>1. r \in Node /\ c.t \in Having(n) /\ r.kind \in Buffered
  BY CallFacts DEF Buffered
<1>2. /\ i \in 1 .. n - 1 /\ Typed(o)
      /\ AsksOverrun(n, c) \/ (o.how # "panics" /\ o.n <= i * m)
      /\ AsksStale(n, c) \/ \E q : Backed(q, i, c.t, c.w) /\ o.n <= q[i]
  BY InnerAnswers
<1>3. /\ m \in Nat /\ m <= U64Max /\ U64Max \in Nat
      /\ n * m \in Nat /\ m <= n * m /\ n * m <= U64Max
      /\ i * m \in Nat /\ i * m + m <= n * m
      /\ Most(r) <= m /\ l <= r.cap
  BY <1>1, <1>2, FitsFacts
<1>4. l \in Nat /\ l <= m /\ r.buffer \in Seq(Nat)
  <2>1. r \in [kind : Buffered, cap : Nat \ {0}, buffer : Seq(Nat), inner : Nat]
    BY <1>1, NodeFacts
  <2>2. Most(r) = r.cap
    BY <1>1 DEF Most, Streams, Buffered
  <2>3. l \in Nat /\ r.cap \in Nat
    BY <2>1
  <2>4. QED
    BY <1>3, <2>1, <2>2, <2>3
<1>5. i \in Nat \ {0} /\ i \in 0 .. n - 1 /\ i \in Nat
  BY <1>2
<1>6. Became(r, r)
  BY <1>1, BecameRefl
<1> HIDE DEF l, i, r
<1>7. CASE o.how = "ok"
  <2> DEFINE x == l + o.n
  <2>1. o.n \in Nat /\ x \in Nat
    BY <1>2, <1>3, <1>4 DEF Typed
  <2>2. a \in U64(x)
    BY <1>7 DEF BufferedReady, l, r
  <2>3. Typed(a) /\ a.n <= x /\ (x \in 0 .. U64Max => a.how = "ok" /\ a.n = x)
    BY <2>1, <2>2, U64Facts
  <2>4. AsksOverrun(n, c) \/ (a.how # "panics" /\ a.n <= n * m)
    <3>1. SUFFICES ASSUME ~AsksOverrun(n, c) PROVE a.how # "panics" /\ a.n <= n * m
      OBVIOUS
    <3>2. o.n <= i * m
      BY <1>2, <3>1
    <3>3. x <= n * m /\ x \in 0 .. U64Max
      BY <1>3, <1>4, <2>1, <3>2
    <3>4. QED
      BY <2>3, <3>3
  <2>5. CASE AsksStale(n, c)
    BY <2>3, <2>4, <2>5 DEF Answers
  <2>6. CASE ~AsksStale(n, c)
    <3>1. PICK q : Backed(q, i, c.t, c.w) /\ o.n <= q[i]
      BY <1>2, <2>6
    <3>2. q[i] \in Nat
      BY <1>5, <3>1 DEF Backed
    <3>3. a.n <= l + q[i]
      <4>1. a.n \in Nat
        BY <1>3, <2>3 DEF Typed
      <4>2. QED
        BY <1>4, <2>1, <2>3, <3>1, <3>2, <4>1
    <3>4. Uses(r, i) /\ Backs(a.n, q, r, c.w)
      BY <1>1, <1>5, <1>6, <3>3, BufBacks DEF i, l
    <3>5. QED
      BY <1>5, <2>3, <2>4, <3>1, <3>4, AnswersAt DEF r
  <2>7. QED
    BY <2>5, <2>6
<1>8. CASE o.how = "fails" /\ r.buffer # <<>>
  <2>1. a = Count(l)
    BY <1>8 DEF BufferedReady, l, r
  <2>2. Typed(a) /\ a.how = "ok" /\ a.n = l
    <3>1. l \in 0 .. U64Max
      BY <1>3, <1>4
    <3>2. QED
      BY <2>1, <3>1, CountFacts
  <2>3. a.how # "panics" /\ a.n <= n * m
    BY <1>3, <1>4, <2>2
  <2>4. Backed(Nothing, i, c.t, c.w)
    BY <1>5, NothingBacked
  <2>5. a.n <= l + Nothing[i]
    BY <1>4, <1>5, <2>2 DEF Nothing
  <2>6. Uses(r, i) /\ Backs(a.n, Nothing, r, c.w)
    BY <1>1, <1>5, <1>6, <2>5, BufBacks DEF i, l
  <2>7. QED
    BY <1>5, <2>2, <2>3, <2>4, <2>6, AnswersAt DEF r
<1>9. CASE o.how # "ok" /\ ~(o.how = "fails" /\ r.buffer # <<>>)
  <2>1. a = o
    BY <1>9 DEF BufferedReady, r
  <2>2. a.n = 0
    BY <1>2, <1>9, <2>1 DEF Typed
  <2>3. QED
    BY <1>2, <2>1, <2>2, AnswersNothing
<1>10. QED
  BY <1>7, <1>8, <1>9

LEMMA LimitedAnswers ==
  ASSUME NEW n \in Nat, AnswersBelow(n), NEW c \in Calls(n), NEW m, FitsIn(m, c.t, c.w),
         c.t[n].kind = "take", NEW o \in Methods[c.t[n].inner].num_ready_bytes[c],
         NEW a \in LimitedReady(c.t[n], o)
  PROVE  Answers(n, c, m, a)
<1> DEFINE r == c.t[n]
           i == r.inner
<1>1. r \in Node /\ c.t \in Having(n)
  BY CallFacts
<1>2. /\ i \in 1 .. n - 1 /\ Typed(o)
      /\ AsksOverrun(n, c) \/ (o.how # "panics" /\ o.n <= i * m)
      /\ AsksStale(n, c) \/ \E q : Backed(q, i, c.t, c.w) /\ o.n <= q[i]
  BY InnerAnswers
<1>3. /\ m \in Nat /\ U64Max \in Nat /\ n * m \in Nat
      /\ i * m \in Nat /\ i * m + m <= n * m
  BY <1>1, <1>2, FitsFacts
<1>4. r.limit \in Nat
  BY <1>1, NodeFacts
<1>5. i \in Nat \ {0} /\ i \in 0 .. n - 1 /\ i \in Nat
  BY <1>2
<1>6. Became(r, r)
  BY <1>1, BecameRefl
<1> HIDE DEF i, r
<1>7. CASE o.how = "ok"
  <2> DEFINE x == Least(r.limit, o.n)
  <2>1. o.n \in 0 .. U64Max /\ o.n \in Nat
    BY <1>2, <1>3 DEF Typed
  <2>2. x \in 0 .. U64Max /\ x <= o.n /\ x <= r.limit
    BY <1>3, <1>4, <2>1 DEF Least
  <2>3. a = Count(x)
    BY <1>7 DEF LimitedReady, r
  <2> HIDE DEF x
  <2>4. Typed(a) /\ a.how = "ok" /\ a.n = x
    BY <2>2, <2>3, CountFacts
  <2>5. AsksOverrun(n, c) \/ (a.how # "panics" /\ a.n <= n * m)
    <3>1. SUFFICES ASSUME ~AsksOverrun(n, c) PROVE a.n <= n * m
      BY <2>4
    <3>2. o.n <= i * m
      BY <1>2, <3>1
    <3>3. QED
      BY <1>3, <2>1, <2>2, <2>4, <3>2
  <2>6. CASE AsksStale(n, c)
    BY <2>4, <2>5, <2>6 DEF Answers
  <2>7. CASE ~AsksStale(n, c)
    <3>1. PICK q : Backed(q, i, c.t, c.w) /\ o.n <= q[i]
      BY <1>2, <2>7
    <3>2. q[i] \in Nat
      BY <1>5, <3>1 DEF Backed
    <3>3. a.n <= q[i] /\ a.n <= r.limit
      BY <2>1, <2>2, <2>4, <3>1, <3>2
    <3>4. Uses(r, i) /\ Backs(a.n, q, r, c.w)
      BY <1>1, <1>5, <1>6, <3>3, TakeBacks DEF i, r
    <3>5. QED
      BY <1>5, <2>4, <2>5, <3>1, <3>4, AnswersAt DEF r
  <2>8. QED
    BY <2>6, <2>7
<1>8. CASE o.how # "ok"
  <2>1. a = o
    BY <1>8 DEF LimitedReady, r
  <2>2. a.n = 0
    BY <1>2, <1>8, <2>1 DEF Typed
  <2>3. QED
    BY <1>2, <2>1, <2>2, AnswersNothing
<1>9. QED
  BY <1>7, <1>8

LEMMA ChainAnswers ==
  ASSUME NEW n \in Nat, AnswersBelow(n), NEW c \in Calls(n), NEW m, FitsIn(m, c.t, c.w),
         c.t[n].kind = "chain", NEW a \in Methods[c.t[n].first].num_ready_bytes[c]
  PROVE  Answers(n, c, m, a)
<1> DEFINE r == c.t[n]
           i == r.first
<1>1. /\ i \in 1 .. n - 1 /\ Typed(a)
      /\ AsksOverrun(n, c) \/ (a.how # "panics" /\ a.n <= i * m)
      /\ AsksStale(n, c) \/ \E q : Backed(q, i, c.t, c.w) /\ a.n <= q[i]
  BY InnerAnswers
<1>2. m \in Nat /\ U64Max \in Nat /\ n * m \in Nat /\ i * m \in Nat /\ i * m + m <= n * m
  BY <1>1, FitsFacts
<1>3. "chain" \notin Adaptors \cup Buffered \cup Streams /\ i \in 0 .. n - 1
  BY <1>1 DEF Adaptors, Buffered, Streams
<1>4. AsksOverrun(n, c) \/ (a.how # "panics" /\ a.n <= n * m)
  <2>1. SUFFICES ASSUME ~AsksOverrun(n, c) PROVE a.how # "panics" /\ a.n <= n * m
    OBVIOUS
  <2>2. a.how # "panics" /\ a.n <= i * m /\ a.n \in Nat
    BY <1>1, <1>2, <2>1 DEF Typed
  <2>3. QED
    BY <1>2, <2>2
<1>5. CASE AsksStale(n, c)
  BY <1>1, <1>4, <1>5 DEF Answers
<1>6. CASE ~AsksStale(n, c)
  <2>1. ~r.done_first
    BY <1>6, AsksItself DEF IsStale
  <2>2. PICK q : Backed(q, i, c.t, c.w) /\ a.n <= q[i]
    BY <1>1, <1>6
  <2>3. Uses(r, i) /\ Backs(a.n, q, r, c.w)
    BY <1>1, <1>3, <2>1, <2>2 DEF Uses, Backs
  <2>4. QED
    BY <1>1, <1>3, <1>4, <2>2, <2>3, AnswersAt
<1>7. QED
  BY <1>5, <1>6

LEMMA StdinAnswers ==
  ASSUME NEW n \in Nat, NEW c \in Calls(n), NEW m, FitsIn(m, c.t, c.w),
         c.t[n].kind = "stdin", NEW a \in StdinReady(c.w)
  PROVE  Answers(n, c, m, a)
<1> DEFINE r == c.t[n]
           i == r.inner
           l == Len(c.w.stream)
<1>1. /\ r \in Node /\ c.t \in Having(n) /\ r.kind \in Buffered /\ n \in 1 .. Len(c.t)
      /\ c.k \in Nat /\ c.w \in Kernel
  BY CallFacts DEF Buffered
<1>2. i \in 1 .. n - 1 /\ i \in 1 .. n /\ i \in 1 .. Len(c.t)
  BY <1>1, InsideFacts DEF Adaptors
<1>3. c.t[i].kind = "pipe"
  BY DEF Calls, Having, Readers
<1>4. c \in Calls(i) /\ c.t \in Having(i) /\ i \in Nat
  BY <1>1, <1>2, CallInside, HavingInside
<1>5. l \in Nat /\ MaxArrived \in Nat
  BY <1>1, ReadersAssumption DEF Kernel
<1>6. m \in Nat /\ m <= U64Max /\ U64Max \in Nat /\ n * m \in Nat /\ m <= n * m
  BY FitsFacts
<1>7. l <= m
  <2>1. Most(c.t[i]) = MaxArrived
    BY <1>3 DEF Most, Streams, Buffered
  <2>2. MaxArrived <= m /\ l <= MaxArrived
    BY <1>4, <2>1, FitsFacts
  <2>3. QED
    BY <1>5, <1>6, <2>2
<1>8. Typed(a) /\ a.how # "panics" /\ (a.n = 0 \/ a.n = l)
  <2>1. l \in 0 .. U64Max
    BY <1>5, <1>6, <1>7
  <2>2. a \in {Count(l), Failure}
    BY DEF StdinReady, SocketReady
  <2>3. QED
    BY <2>1, <2>2, CountFacts, FailureFacts
<1>9. a.n <= n * m
  BY <1>5, <1>6, <1>7, <1>8
<1>10. \E q : Backed(q, i, c.t, c.w) /\ q[i] = l
  <2>1. 0 \in 0 .. i - 1 /\ Backed(Nothing, 0, c.t, c.w)
    BY <1>2, NothingIsBacked
  <2>2. Uses(c.t[i], 0) /\ Backs(l, Nothing, c.t[i], c.w)
    BY <1>3, <1>5 DEF Uses, Backs, Adaptors, Buffered, Streams
  <2> DEFINE t == c.t
             w == c.w
  <2>3. /\ Backed(Nothing, 0, t, w) /\ Uses(t[i], 0) /\ Backs(l, Nothing, t[i], w)
        /\ t \in Having(i)
    BY <1>4, <2>1, <2>2
  <2> HIDE DEF l, t, w
  <2>4. \E q : Backed(q, i, t, w) /\ q[i] = l
    BY <1>4, <1>5, <2>1, <2>3, Extend
  <2>5. QED
    BY <2>4 DEF t, w
<1>11. PICK q : Backed(q, i, c.t, c.w) /\ q[i] = l
  BY <1>10
<1>12. Became(r, r) /\ i \in Nat \ {0} /\ i \in 0 .. n - 1
  BY <1>1, <1>2, BecameRefl
<1>13. a.n <= Len(r.buffer) + q[i]
  <2>1. Len(r.buffer) \in Nat
    BY <1>1, NodeFacts
  <2>2. \A x, b, y \in Nat : (x = 0 \/ x = y) => x <= b + y
    OBVIOUS
  <2>3. a.n \in Nat /\ (a.n = 0 \/ a.n = l)
    BY <1>5, <1>8
  <2>4. a.n <= Len(r.buffer) + l
    BY <1>5, <2>1, <2>2, <2>3
  <2>5. QED
    BY <1>11, <2>4
<1>14. Uses(r, i) /\ Backs(a.n, q, r, c.w)
  BY <1>1, <1>12, <1>13, BufBacks
<1>15. QED
  BY <1>8, <1>9, <1>11, <1>12, <1>14, AnswersAt

LEMMA NumReadyAnswers ==
  ASSUME NEW n \in Nat, AnswersBelow(n), NEW c \in Calls(n), NEW m, FitsIn(m, c.t, c.w),
         NEW a \in NumReady(Methods, n, c)
  PROVE  Answers(n, c, m, a)
<1> DEFINE r == c.t[n]
<1>s. /\ Adaptors = {"buf", "stdin", "take"} /\ Buffered = {"buf", "stdin"}
      /\ Streams = {"socket", "pipe", "windows_pipe"}
  BY DEF Adaptors, Buffered, Streams
<1>1. CASE r.kind = "buf"
  <2>1. PICK o \in Methods[r.inner].num_ready_bytes[c] : a \in BufferedReady(r, o)
    BY <1>s, <1>1 DEF NumReady
  <2>2. QED
    BY <1>1, <2>1, BufferedAnswers
<1>2. CASE r.kind = "take"
  <2>1. PICK o \in Methods[r.inner].num_ready_bytes[c] : a \in LimitedReady(r, o)
    BY <1>s, <1>2 DEF NumReady
  <2>2. QED
    BY <1>2, <2>1, LimitedAnswers
<1>3. CASE r.kind = "chain"
  <2>1. a \in Methods[r.first].num_ready_bytes[c]
    BY <1>s, <1>3 DEF NumReady
  <2>2. QED
    BY <1>3, <2>1, ChainAnswers
<1>4. CASE r.kind = "stdin"
  <2>1. a \in StdinReady(c.w)
    BY <1>s, <1>4 DEF NumReady
  <2>2. QED
    BY <1>4, <2>1, StdinAnswers
<1>5. CASE r.kind \notin Adaptors \cup {"chain"}
  BY <1>5, LeafAnswers
<1>6. QED
  BY <1>s, <1>1, <1>2, <1>3, <1>4, <1>5

\* What every num_ready_bytes answers.
LEMMA AllAnswers ==
  \A n \in Nat : \A c \in Calls(n) : \A m \in Nat :
    FitsIn(m, c.t, c.w) => \A a \in Methods[n].num_ready_bytes[c] : Answers(n, c, m, a)
<1> DEFINE P(n, c, m) ==
             FitsIn(m, c.t, c.w) => \A a \in Methods[n].num_ready_bytes[c] : Answers(n, c, m, a)
           T == {n \in Nat : \E c \in Calls(n) : \E m \in Nat : ~P(n, c, m)}
<1>1. SUFFICES ASSUME T # {} PROVE FALSE
  OBVIOUS
<1>2. PICK n \in T : \A i \in T : ~(i < n)
  BY <1>1, LeastNumber
<1>3. n \in Nat /\ AnswersBelow(n)
  BY <1>2 DEF AnswersBelow
<1>4. PICK c \in Calls(n), m \in Nat : ~P(n, c, m)
  BY <1>2
<1>5. Methods[n].num_ready_bytes[c] = NumReady(Methods, n, c)
  BY <1>3, MethodsFacts
<1>6. ASSUME FitsIn(m, c.t, c.w), NEW a \in NumReady(Methods, n, c)
      PROVE  Answers(n, c, m, a)
  BY <1>3, <1>6, NumReadyAnswers
<1>7. QED
  BY <1>4, <1>5, <1>6

-----------------------------------------------------------------------------
(***************************************************************************)
(* The invariant                                                           *)
(***************************************************************************)

Buffers(t) == \A n \in DOMAIN t : t[n].kind \in Buffered => Len(t[n].buffer) <= t[n].cap

Fits(t) == \E m \in 0 .. U64Max : Len(t) * m <= U64Max /\ \A n \in DOMAIN t : Most(t[n]) <= m

\* The readers t and the kernel w when the peer has sent a bytes.
Good(t, w, a) ==
  /\ t \in Readers /\ t # <<>> /\ Buffers(t) /\ Fits(t)
  /\ w \in Kernel /\ Len(w.file) <= MaxLen /\ a \in Len(w.stream) .. MaxArrived

\* The v bytes promised are there.
Promise(t, w, v) ==
  v > 0 => \/ ChainOverstates(Len(t), t, w)
           \/ \E p : Backed(p, Len(t), t, w) /\ v <= p[Len(t)]

\* TypeOK, ReadyDoesNotBlock and PanicIsOverrun, with what makes them inductive:
\* counts fit a u64, promises are backed, and what fstat said holds until
\* another user comes.
RInv ==
  /\ Good(reader, world, arrived)
  /\ pc \in {"idle", "stat", "seek", "blocked", "panicked"}
  /\ promised \in 0 .. U64Max /\ saved \in Nat /\ disturbed \in BOOLEAN
  /\ Promise(reader, world, promised)
  /\ pc = "stat" /\ ~disturbed => saved = Len(world.file)
  /\ ReadyDoesNotBlock
  /\ PanicIsOverrun

LEMMA RInvImpliesTypeOK == RInv => TypeOK
BY DEF RInv, Good, Buffers, TypeOK

LEMMA GoodFacts ==
  ASSUME NEW t, NEW w, NEW a, Good(t, w, a)
  PROVE  /\ Len(t) \in Nat \ {0} /\ Len(t) \in 1 .. Len(t) /\ t \in Having(Len(t))
         /\ \A k \in Nat : [k |-> k, t |-> t, w |-> w] \in Calls(Len(t))
<1>1. t \in Seq(Node) /\ t # <<>> /\ t \in Readers /\ w \in Kernel
  BY DEF Good, Readers
<1>2. Len(t) \in Nat \ {0} /\ Len(t) \in 1 .. Len(t) /\ Len(t) \in DOMAIN t
  BY <1>1
<1>3. t \in Having(Len(t))
  BY <1>1, <1>2 DEF Having
<1>4. QED
  BY <1>1, <1>2, <1>3 DEF Calls

LEMMA MostLater ==
  ASSUME NEW r \in Node, NEW s, Became(r, s)
  PROVE  Most(s) \in Nat /\ Most(r) \in Nat /\ Most(s) <= Most(r)
<1>1. s \in Node /\ s.kind = r.kind
  BY DEF Became
<1>a. MaxArrived \in Nat /\ MaxLen \in Nat
  BY ReadersAssumption
<1>s. Buffered = {"buf", "stdin"} /\ Streams = {"socket", "pipe", "windows_pipe"}
  BY DEF Buffered, Streams
<1>2. CASE r.kind \in {"slice", "cursor"}
  <2>1. Len(r.data) \in Nat /\ Len(s.data) \in Nat /\ Len(s.data) <= Len(r.data)
    BY <1>1, <1>2, NodeFacts DEF Became
  <2>2. Most(r) = Len(r.data) /\ Most(s) = Len(s.data)
    BY <1>1, <1>2, <1>s DEF Most
  <2>3. QED
    BY <2>1, <2>2
<1>3. CASE r.kind \in Buffered
  <2>1. r.cap \in Nat /\ s.cap = r.cap
    BY <1>3, NodeFacts DEF Became
  <2>2. Most(r) = r.cap /\ Most(s) = s.cap
    BY <1>1, <1>3, <1>s DEF Most
  <2>3. QED
    BY <2>1, <2>2
<1>4. CASE r.kind \notin {"slice", "cursor"} \cup Buffered
  <2>1. Most(s) = Most(r) /\ Most(r) \in {MaxArrived, MaxLen, 1, 0}
    BY <1>1, <1>4, <1>s DEF Most
  <2>2. QED
    BY <1>a, <2>1
<1>5. QED
  BY <1>2, <1>3, <1>4

LEMMA GoodLater ==
  ASSUME NEW t, NEW w, NEW a, Good(t, w, a), NEW u \in Readers, Later(t, u),
         NEW v \in Kernel, Len(v.file) <= MaxLen, NEW b \in Len(v.stream) .. MaxArrived
  PROVE  Good(u, v, b) /\ Len(u) = Len(t)
<1>1. t \in Seq(Node) /\ t # <<>> /\ u \in Seq(Node) /\ Len(u) = Len(t)
  BY DEF Good, Readers, Later
<1>2. ASSUME NEW n \in DOMAIN u
      PROVE  n \in DOMAIN t /\ t[n] \in Node /\ Became(t[n], u[n])
  BY <1>1 DEF Later
<1>3. u # <<>>
  BY <1>1
<1>4. Buffers(u)
  <2>1. SUFFICES ASSUME NEW n \in DOMAIN u, u[n].kind \in Buffered
                 PROVE  Len(u[n].buffer) <= u[n].cap
    BY DEF Buffers
  <2>2. n \in DOMAIN t /\ Became(t[n], u[n])
    BY <1>2
  <2>3. t[n].kind \in Buffered => Len(t[n].buffer) <= t[n].cap
    BY <2>2 DEF Good, Buffers
  <2>4. QED
    BY <2>1, <2>2, <2>3 DEF Became
<1>5. Fits(u)
  <2>1. PICK m \in 0 .. U64Max : Len(t) * m <= U64Max /\ \A n \in DOMAIN t : Most(t[n]) <= m
    BY DEF Good, Fits
  <2>2. ASSUME NEW n \in DOMAIN u
        PROVE  Most(u[n]) <= m
    <3>1. n \in DOMAIN t /\ Most(u[n]) \in Nat /\ Most(t[n]) \in Nat /\ Most(u[n]) <= Most(t[n])
      BY <1>2, MostLater
    <3>2. Most(t[n]) <= m
      BY <2>1, <3>1
    <3>3. m \in Nat
      BY <2>1, ReadersAssumption
    <3>4. QED
      BY <3>1, <3>2, <3>3
  <2>3. QED
    BY <1>1, <2>1, <2>2 DEF Fits
<1>6. QED
  BY <1>1, <1>3, <1>4, <1>5 DEF Good

\* The outcome of a call by the user is good too.
LEMMA OutcomeIsGood ==
  ASSUME NEW t, NEW w, NEW a, Good(t, w, a), NEW c, c.t = t, c.w = w,
         NEW o, Valid(Len(t), c, o)
  PROVE  Good(o.t, o.w, a) /\ Len(o.t) = Len(t)
<1>1. o.t \in Readers /\ o.w \in Kernel /\ Later(t, o.t) /\ Drained(w, o.w)
  BY DEF Valid, Outcomes
<1>2. /\ w \in Kernel /\ Len(w.file) <= MaxLen /\ a \in Len(w.stream) .. MaxArrived
      /\ MaxArrived \in Nat
  BY ReadersAssumption DEF Good
<1>3. Len(w.stream) \in Nat /\ Len(o.w.stream) \in Nat
  BY <1>1, <1>2 DEF Kernel
<1>4. Len(o.w.file) <= MaxLen
  BY <1>1, <1>2 DEF Drained
<1>5. a \in Len(o.w.stream) .. MaxArrived
  BY <1>1, <1>2, <1>3 DEF Drained
<1>6. QED
  BY <1>1, <1>4, <1>5, GoodLater

\* It keeps the promise of v bytes, less the used ones.
LEMMA OutcomeKeeps ==
  ASSUME NEW t, NEW w, NEW a, Good(t, w, a), NEW v \in Nat, Promise(t, w, v),
         NEW c \in Calls(Len(t)), c.t = t, c.w = w, c.k > 0,
         NEW o, Valid(Len(t), c, o), NEW used \in Nat,
         \A p \in [Nat -> Nat] : Owes(Len(t), c, p) => Delivers(Len(t), c, p, o, used)
  PROVE  /\ o.how = "blocks" /\ v > 0 => ChainOverstates(Len(o.t), o.t, o.w)
         /\ Promise(o.t, o.w, Left(v, used))
<1> DEFINE n == Len(t)
<1>1. n \in Nat /\ t \in Having(n) /\ n \in 1 .. n
  BY GoodFacts
<1>2. o.t \in Readers /\ Later(t, o.t) /\ Drained(w, o.w) /\ Len(o.t) = n
  BY OutcomeIsGood DEF Valid, Outcomes
<1>3. w.pos > Len(w.file) => o.w.pos > Len(o.w.file)
  BY <1>2 DEF Drained
<1>4. Left(v, used) \in Nat /\ (Left(v, used) > 0 => v > 0)
  <2>1. v = 0 => Left(v, used) = 0
    BY DEF Left
  <2>2. Left(v, used) \in Nat
    BY LeftFacts
  <2>3. QED
    BY <2>1, <2>2
<1>5. CASE v = 0
  BY <1>4, <1>5 DEF Promise
<1>6. CASE v > 0 /\ ChainOverstates(n, t, w)
  <2>1. ChainOverstates(n, o.t, o.w)
    BY <1>1, <1>2, <1>3, <1>6, ChainOverstatesLater
  <2>2. QED
    BY <1>2, <2>1 DEF Promise
<1>7. CASE v > 0 /\ ~ChainOverstates(n, t, w)
  <2>1. PICK p : Backed(p, n, t, w) /\ v <= p[n]
    BY <1>7 DEF Promise
  <2>2. p \in [Nat -> Nat]
    BY <2>1 DEF Backed
  <2>3. p[n] \in Nat
    BY <1>1, <2>2
  <2>4. p[n] > 0
    <3>1. \A x, y \in Nat : x > 0 /\ x <= y => y > 0
      OBVIOUS
    <3>2. QED
      BY <1>7, <2>1, <2>3, <3>1
  <2>5. Owes(n, c, p)
    BY <1>7, <2>1, <2>4 DEF Owes
  <2>6. Delivers(n, c, p, o, used)
    BY <2>2, <2>5
  <2>7. PICK q : Backed(q, n, o.t, o.w) /\ p[n] <= q[n] + used
    BY <2>6 DEF Delivers
  <2>8. q[n] \in Nat
    BY <1>1, <2>7 DEF Backed
  <2>9. Left(v, used) <= q[n]
    BY <2>1, <2>3, <2>7, <2>8, LeftPassed
  <2>10. Promise(o.t, o.w, Left(v, used))
    BY <1>2, <2>7, <2>9 DEF Promise
  <2>11. o.how # "blocks"
    BY <2>6 DEF Delivers
  <2>12. QED
    BY <2>10, <2>11
<1>8. QED
  BY <1>5, <1>6, <1>7

\* Its number fits, and is backed unless it is stale.
LEMMA ReadyAnswers ==
  ASSUME NEW t, NEW w, NEW a, Good(t, w, a),
         NEW c \in Calls(Len(t)), c.t = t, c.w = w,
         NEW o \in Methods[Len(t)].num_ready_bytes[c]
  PROVE  /\ Typed(o)
         /\ o.how = "panics" => AsksOverrun(Len(t), c)
         /\ ~AsksStale(Len(t), c) => Promise(t, w, o.n)
<1> DEFINE n == Len(t)
<1>1. n \in Nat
  BY GoodFacts
<1>2. PICK m \in 0 .. U64Max : n * m <= U64Max /\ \A i \in DOMAIN t : Most(t[i]) <= m
  BY DEF Good, Fits
<1>3. m \in Nat
  BY <1>2, ReadersAssumption
<1>4. Len(w.stream) <= MaxArrived
  <2>1. Len(w.stream) \in Nat /\ a \in Len(w.stream) .. MaxArrived /\ MaxArrived \in Nat
    BY ReadersAssumption DEF Good, Kernel
  <2>2. QED
    BY <2>1
<1>5. FitsIn(m, c.t, c.w)
  BY <1>2, <1>4 DEF FitsIn, Good, Buffers
<1>6. Answers(n, c, m, o)
  BY <1>1, <1>3, <1>5, AllAnswers
<1>7. QED
  BY <1>6 DEF Answers, Promise

-----------------------------------------------------------------------------
(***************************************************************************)
(* The invariant holds at first, and every step keeps it                   *)
(***************************************************************************)

\* Everything fits before the first call.
LEMMA InitGood ==
  ASSUME Init
  PROVE  Good(reader, world, arrived)
<1>1. PICK f \in Files : world = [stream |-> <<>>, closed |-> FALSE, file |-> f[1], pos |-> f[2]]
  BY DEF Init
<1>2. f[1] \in Seq(Nat) /\ Len(f[1]) <= MaxLen /\ f[2] \in Nat
  BY ReadersAssumption
<1>3. <<>> \in Seq(Nat) /\ FALSE \in BOOLEAN
  OBVIOUS
<1>4. world \in Kernel /\ Len(world.file) <= MaxLen
  BY <1>1, <1>2, <1>3 DEF Kernel
<1>5. arrived \in Len(world.stream) .. MaxArrived
  <2>1. world.stream = <<>> /\ arrived = 0 /\ MaxArrived \in Nat
    BY <1>1, ReadersAssumption DEF Init
  <2>2. QED
    BY <2>1
<1>6. /\ reader \in Readers /\ reader # <<>>
      /\ \A n \in DOMAIN reader : reader[n].kind \in Buffered => reader[n].buffer = <<>>
      /\ \E m \in 0 .. U64Max :
           Len(reader) * m <= U64Max /\ \A n \in DOMAIN reader : Most(reader[n]) <= m
  BY ReadersAssumption DEF Init
<1>7. Buffers(reader)
  <2>1. SUFFICES ASSUME NEW n \in DOMAIN reader, reader[n].kind \in Buffered
                 PROVE  Len(reader[n].buffer) <= reader[n].cap
    BY DEF Buffers
  <2>2. reader[n] \in Node
    BY <1>6, <2>1 DEF Readers
  <2>3. reader[n].cap \in Nat \ {0} /\ reader[n].buffer = <<>>
    BY <1>6, <2>1, <2>2, NodeFacts
  <2>4. QED
    BY <2>3
<1>8. Fits(reader)
  BY <1>6 DEF Fits
<1>9. QED
  BY <1>4, <1>5, <1>6, <1>7, <1>8 DEF Good

LEMMA InitRInv == Init => RInv
<1>1. SUFFICES ASSUME Init PROVE RInv
  OBVIOUS
<1>2. pc = "idle" /\ promised = 0 /\ saved = 0 /\ disturbed = FALSE
  BY <1>1 DEF Init
<1>3. promised \in 0 .. U64Max
  BY <1>2, ReadersAssumption
<1>4. Promise(reader, world, promised)
  BY <1>2 DEF Promise
<1>5. QED
  BY <1>1, <1>2, <1>3, <1>4, InitGood DEF RInv, ReadyDoesNotBlock, PanicIsOverrun

\* What a step that does not panic has to leave.
LEMMA RInvAfter ==
  ASSUME Good(reader', world', arrived'), pc' \in {"idle", "stat", "seek", "blocked"},
         promised' \in 0 .. U64Max, saved' \in Nat, disturbed' \in BOOLEAN,
         Promise(reader', world', promised'),
         pc' = "stat" /\ ~disturbed' => saved' = Len(world'.file),
         pc' = "blocked" /\ promised' > 0 => ChainOverstates(Len(reader'), reader', world')
  PROVE  RInv'
<1>1. ReadyDoesNotBlock'
  BY DEF ReadyDoesNotBlock
<1>2. PanicIsOverrun'
  BY DEF PanicIsOverrun
<1>3. QED
  BY <1>1, <1>2 DEF RInv

\* The calls the user makes are calls of the reader.
LEMMA OwnCalls ==
  ASSUME RInv, NEW k \in Nat
  PROVE  /\ Call(k) \in Calls(Len(reader))
         /\ Call(k).k = k /\ Call(k).t = reader /\ Call(k).w = world
         /\ Len(reader) \in Nat /\ reader \in Having(Len(reader)) /\ Len(reader) \in 1 .. Len(reader)
BY GoodFacts DEF RInv, Call

LEMMA PromisedFacts ==
  ASSUME RInv
  PROVE  promised \in Nat /\ promised \in 0 .. U64Max /\ U64Max \in Nat
BY ReadersAssumption DEF RInv

\* A step of the user's that leaves the readers, the kernel and the promise.
LEMMA IdleStep ==
  ASSUME RInv, pc' \in {"idle", "seek"}, UNCHANGED <<reader, world, arrived, promised>>,
         saved' \in Nat, disturbed' \in BOOLEAN
  PROVE  RInv'
<1>1. pc' \in {"idle", "stat", "seek", "blocked"} /\ pc' # "stat" /\ pc' # "blocked"
  OBVIOUS
<1>2. /\ Good(reader', world', arrived') /\ promised' \in 0 .. U64Max
      /\ Promise(reader', world', promised')
  BY DEF RInv
<1>3. QED
  BY <1>1, <1>2, RInvAfter

\* An answer that is not stale is promised to be there.
LEMMA ReadyStep ==
  ASSUME RInv, pc \in {"idle", "stat"}, pc = "idle" => ~AsksFile, Ready
  PROVE  RInv'
<1> DEFINE n == Len(reader)
           c == Call(saved)
<1>1. saved \in Nat /\ disturbed \in BOOLEAN /\ Good(reader, world, arrived)
  BY DEF RInv
<1>2. c \in Calls(n) /\ c.k = saved /\ c.t = reader /\ c.w = world
  BY <1>1, OwnCalls
<1> HIDE DEF c
<1>3. PICK o \in Methods[n].num_ready_bytes[c] :
        /\ pc' = IF o.how = "panics" THEN "panicked" ELSE "idle"
        /\ promised' = IF disturbed \/ AsksLeft THEN 0 ELSE o.n
        /\ UNCHANGED <<reader, world, arrived, want, saved, peeked, disturbed>>
  BY DEF Ready, Own, c
<1>4. /\ Typed(o)
      /\ o.how = "panics" => AsksOverrun(n, c)
      /\ ~AsksStale(n, c) => Promise(reader, world, o.n)
  BY <1>1, <1>2, ReadyAnswers
<1>5. ASSUME NEW i \in Asked, Misses(reader[i], c)
      PROVE  disturbed
  <2>1. /\ reader[i].kind = "file" /\ reader[i].readable /\ saved # Len(world.file)
    BY <1>2, <1>5 DEF Misses
  <2>2. AsksFile
    BY <1>5, <2>1 DEF AsksFile
  <2>3. QED
    BY <1>1, <2>1, <2>2 DEF RInv
<1>6. AsksStale(n, c) => disturbed \/ AsksLeft
  <2>1. SUFFICES ASSUME NEW i \in Asked, IsStale(reader[i], c)
                 PROVE  disturbed \/ AsksLeft
    BY <1>2 DEF AsksStale, Asked, Own
  <2>2. CASE Misses(reader[i], c)
    BY <1>5, <2>2
  <2>3. CASE reader[i].kind = "chain" /\ reader[i].done_first
    BY <2>3 DEF AsksLeft
  <2>4. QED
    BY <2>1, <2>2, <2>3 DEF IsStale
<1>7. AsksOverrun(n, c) =>
        disturbed \/ \E i \in Asked : reader[i].kind = "repeat" \/ Overstates(reader[i], world)
  <2>1. SUFFICES ASSUME NEW i \in Asked, Overruns(reader[i], c)
                 PROVE  disturbed \/ reader[i].kind = "repeat" \/ Overstates(reader[i], world)
    BY <1>2 DEF AsksOverrun, Asked, Own
  <2>2. QED
    BY <1>2, <1>5, <2>1 DEF Overruns
<1>8. promised' \in 0 .. U64Max /\ Promise(reader, world, promised')
  <2>1. CASE disturbed \/ AsksLeft
    <3>1. promised' = 0
      BY <1>3, <2>1
    <3>2. promised' \in 0 .. U64Max
      BY <3>1, PromisedFacts
    <3>3. QED
      BY <3>1, <3>2 DEF Promise
  <2>2. CASE ~(disturbed \/ AsksLeft)
    BY <1>3, <1>4, <1>6, <2>2 DEF Typed
  <2>3. QED
    BY <2>1, <2>2
<1>9. CASE o.how = "panics"
  <2>1. pc' = "panicked"
    BY <1>3, <1>9
  <2>2. /\ Good(reader', world', arrived') /\ Promise(reader', world', promised')
        /\ saved' \in Nat /\ disturbed' \in BOOLEAN
    BY <1>1, <1>3, <1>8
  <2>3. disturbed \/ \E i \in Asked : reader[i].kind = "repeat" \/ Overstates(reader[i], world)
    BY <1>4, <1>7, <1>9
  <2>4. Asked' = Asked
    BY <1>3 DEF Asked, Own
  <2>5. disturbed' \/ \E i \in Asked' : reader'[i].kind = "repeat" \/ Overstates(reader'[i], world')
    BY <1>3, <2>3, <2>4
  <2>6. PanicIsOverrun'
    BY <2>5 DEF PanicIsOverrun
  <2>7. ReadyDoesNotBlock'
    BY <2>1 DEF ReadyDoesNotBlock
  <2>8. QED
    BY <1>8, <2>1, <2>2, <2>6, <2>7 DEF RInv
<1>10. CASE o.how # "panics"
  <2>1. pc' \in {"idle", "stat", "seek", "blocked"} /\ pc' # "stat" /\ pc' # "blocked"
    BY <1>3, <1>10
  <2>2. /\ Good(reader', world', arrived') /\ Promise(reader', world', promised')
        /\ saved' \in Nat /\ disturbed' \in BOOLEAN
    BY <1>1, <1>3, <1>8
  <2>3. QED
    BY <1>8, <2>1, <2>2, RInvAfter
<1>11. QED
  BY <1>9, <1>10

\* What a peek leaves, o being what the reader answered.
LEMMA PeekStep ==
  ASSUME RInv, NEW o, PeekAnswers(o), Good(o.t, o.w, arrived), Promise(o.t, o.w, promised),
         o.how = "blocks" /\ promised > 0 => ChainOverstates(Len(o.t), o.t, o.w)
  PROVE  RInv'
<1>1. /\ reader' = o.t /\ world' = o.w
      /\ pc' = IF o.how = "blocks" THEN "blocked" ELSE "idle"
      /\ UNCHANGED <<arrived, saved, promised, disturbed>>
  BY DEF PeekAnswers
<1>2. /\ pc' \in {"idle", "stat", "seek", "blocked"} /\ pc' # "stat"
      /\ pc' = "blocked" => o.how = "blocks"
  BY <1>1
<1>3. saved' \in Nat /\ disturbed' \in BOOLEAN /\ promised' \in 0 .. U64Max
  BY <1>1 DEF RInv
<1>4. Good(reader', world', arrived') /\ Promise(reader', world', promised')
  BY <1>1
<1>5. pc' = "blocked" /\ promised' > 0 => ChainOverstates(Len(reader'), reader', world')
  BY <1>1, <1>2
<1>6. QED
  BY <1>2, <1>3, <1>4, <1>5, RInvAfter

\* A peek that does not reach the readers.
LEMMA PeekSameStep ==
  ASSUME RInv, NEW how, how # "blocks", NEW out,
         PeekAnswers(Outcome(how, out, reader, world))
  PROVE  RInv'
<1> DEFINE o == Outcome(how, out, reader, world)
<1>1. o.how = how /\ o.t = reader /\ o.w = world
  BY DEF Outcome
<1>2. PeekAnswers(o) /\ Good(o.t, o.w, arrived) /\ Promise(o.t, o.w, promised)
  BY <1>1 DEF RInv
<1> HIDE DEF o
<1>3. QED
  BY <1>1, <1>2, PeekStep

\* Lengths of the buffers a user passes.
LEMMA SizeFacts == \A k \in Sizes : k \in Nat /\ k > 0
<1>1. SUFFICES ASSUME NEW k \in Sizes PROVE k \in Nat /\ k > 0
  OBVIOUS
<1>2. k \in Nat \ {0}
  BY ReadersAssumption
<1>3. QED
  BY <1>2

LEMMA PeekBufReadStep ==
  ASSUME RInv, PeekBufRead
  PROVE  RInv'
<1> DEFINE n == Len(reader)
<1>1. PICK k \in Sizes : PeekAnswers([Own.fill_buf[Call(k)] EXCEPT !.out = Prefix(@, k)])
  BY DEF PeekBufRead
<1> DEFINE c == Call(k)
           o == Methods[n].fill_buf[c]
           s == [o EXCEPT !.out = Prefix(o.out, k)]
<1>2. k \in Nat /\ k > 0
  BY SizeFacts
<1>3. /\ c \in Calls(n) /\ c.k = k /\ c.t = reader /\ c.w = world
      /\ n \in Nat /\ Good(reader, world, arrived)
  BY <1>2, OwnCalls DEF RInv
<1>4. PeekAnswers(s)
  BY <1>1 DEF Own
<1>5. PICK b \in SUBSET DOMAIN reader :
        /\ n \in b
        /\ \A i \in b :
             \/ reader[i].kind \in {"slice", "cursor", "empty"} \cup Buffered
             \/ reader[i].kind \in {"take", "chain"} /\ Inside(reader[i]) \subseteq b
  BY DEF PeekBufRead, IsBufRead
<1>6. BufReads(b, c.t) /\ n \in Nat \cap b
  BY <1>3, <1>5 DEF BufReads
<1> HIDE DEF c
<1>7. Valid(n, c, o)
  BY <1>3, <1>6, FillIsValid DEF ValidFill
<1>8. o \in Outcomes
  BY <1>7 DEF Valid
<1>9. s.how = o.how /\ s.t = o.t /\ s.w = o.w
  BY <1>8 DEF Outcomes
<1>10. Good(o.t, o.w, arrived)
  BY <1>3, <1>7, OutcomeIsGood
<1>11. \A p \in [Nat -> Nat] : Owes(n, c, p) => Delivers(n, c, p, o, 0)
  BY <1>3, <1>6, FillKeepsPromises DEF FillDelivers
<1>12. promised \in Nat /\ Promise(reader, world, promised)
  BY PromisedFacts DEF RInv
<1> HIDE DEF o
<1>13. /\ o.how = "blocks" /\ promised > 0 => ChainOverstates(Len(o.t), o.t, o.w)
       /\ Promise(o.t, o.w, Left(promised, 0))
  BY <1>2, <1>3, <1>7, <1>11, <1>12, OutcomeKeeps
<1>14. Left(promised, 0) = promised
  BY <1>12 DEF Left
<1> HIDE DEF s
<1>15. /\ Good(s.t, s.w, arrived) /\ Promise(s.t, s.w, promised)
       /\ s.how = "blocks" /\ promised > 0 => ChainOverstates(Len(s.t), s.t, s.w)
  BY <1>9, <1>10, <1>13, <1>14
<1>16. QED
  BY <1>4, <1>15, PeekStep

\* What a read by the user leaves of the promise.
LEMMA OwnRead ==
  ASSUME RInv, NEW k \in Sizes, NEW o, o = Own.read[Call(k)]
  PROVE  /\ o \in Outcomes /\ (o.how # "ok" => o.out = <<>>)
         /\ Good(o.t, o.w, arrived)
         /\ o.how = "blocks" /\ promised > 0 => ChainOverstates(Len(o.t), o.t, o.w)
         /\ Promise(o.t, o.w, Left(promised, Len(o.out)))
<1> DEFINE n == Len(reader)
           c == Call(k)
<1>1. k \in Nat /\ k > 0
  BY SizeFacts
<1>2. /\ c \in Calls(n) /\ c.k = k /\ c.t = reader /\ c.w = world
      /\ n \in Nat /\ Good(reader, world, arrived)
  BY <1>1, OwnCalls DEF RInv
<1>3. o = Methods[n].read[c]
  BY DEF Own
<1> HIDE DEF c
<1>4. Valid(n, c, o)
  BY <1>2, <1>3, ReadIsValid DEF ValidRead
<1>5. o \in Outcomes /\ (o.how # "ok" => o.out = <<>>)
  BY <1>4 DEF Valid
<1>6. Good(o.t, o.w, arrived)
  BY <1>2, <1>4, OutcomeIsGood
<1> DEFINE used == Len(o.out)
<1>7. used \in Nat
  BY <1>5 DEF Outcomes
<1>8. \A p \in [Nat -> Nat] : Owes(n, c, p) => Delivers(n, c, p, o, used)
  BY <1>2, <1>3, ReadKeepsPromises DEF ReadDelivers
<1>9. promised \in Nat /\ Promise(reader, world, promised)
  BY PromisedFacts DEF RInv
<1> HIDE DEF used
<1>10. /\ o.how = "blocks" /\ promised > 0 => ChainOverstates(Len(o.t), o.t, o.w)
       /\ Promise(o.t, o.w, Left(promised, used))
  BY <1>1, <1>2, <1>4, <1>7, <1>8, <1>9, OutcomeKeeps
<1>11. QED
  BY <1>5, <1>6, <1>10 DEF used

\* Repeat and a socket are as they were before a peek.
LEMMA PeekDirectStep ==
  ASSUME RInv, PeekDirect
  PROVE  RInv'
<1> DEFINE n == Len(reader)
<1>1. PICK k \in Sizes : PeekAnswers([Own.read[Call(k)] EXCEPT !.w = world])
  BY DEF PeekDirect
<1> DEFINE c == Call(k)
           o == Own.read[c]
           s == [o EXCEPT !.w = world]
<1>2. k \in Nat /\ k > 0
  BY SizeFacts
<1>3. c \in Calls(n) /\ c.t = reader /\ c.w = world /\ n \in Nat
  BY <1>2, OwnCalls
<1>4. reader[n].kind \in {"repeat", "socket"}
  BY DEF PeekDirect, Kind
<1>5. /\ o \in Outcomes /\ Good(o.t, o.w, arrived)
      /\ o.how = "blocks" /\ promised > 0 => ChainOverstates(Len(o.t), o.t, o.w)
  BY OwnRead
<1>6. o = ReadLeaf(n, c)
  <2>1. o = ReadFrom(Methods, n, c)
    BY <1>3, MethodsFacts DEF Own
  <2>2. ReadFrom(Methods, n, c) = ReadLeaf(n, c)
    BY <1>3, <1>4 DEF ReadFrom, Buffered
  <2>3. QED
    BY <2>1, <2>2
<1>7. o.t = reader /\ (o.how = "blocks" => o.w = world)
  BY <1>3, <1>4, <1>6 DEF ReadLeaf, Outcome, Streams
<1>8. s.how = o.how /\ s.t = o.t /\ s.w = world
  BY <1>5 DEF Outcomes
<1>9. PeekAnswers(s)
  BY <1>1
<1> HIDE DEF o, s
<1>10. /\ Good(s.t, s.w, arrived) /\ Promise(s.t, s.w, promised)
       /\ s.how = "blocks" /\ promised > 0 => ChainOverstates(Len(s.t), s.t, s.w)
  BY <1>5, <1>7, <1>8 DEF RInv
<1>11. QED
  BY <1>9, <1>10, PeekStep

LEMMA PeekPipeStep ==
  ASSUME RInv, PeekPipe \/ PeekNamedPipe
  PROVE  RInv'
<1>1. CASE PeekPipe
  BY <1>1, PeekSameStep DEF PeekPipe
<1>2. CASE PeekNamedPipe
  <2>1. PICK k \in Sizes :
          PeekAnswers(IF world.stream = <<>> /\ world.closed
                      THEN Outcome("fails", <<>>, reader, world)
                      ELSE Outcome("ok", Prefix(world.stream, k), reader, world))
    BY <1>2 DEF PeekNamedPipe
  <2>2. CASE world.stream = <<>> /\ world.closed
    BY <2>1, <2>2, PeekSameStep
  <2>3. CASE ~(world.stream = <<>> /\ world.closed)
    BY <2>1, <2>3, PeekSameStep
  <2>4. QED
    BY <2>2, <2>3
<1>3. QED
  BY <1>1, <1>2

LEMMA ReadStep ==
  ASSUME RInv, Read
  PROVE  RInv'
<1>1. PICK k \in Sizes : LET o == Own.read[Call(k)] IN
        /\ reader' = o.t /\ world' = o.w
        /\ IF o.how = "blocks"
           THEN pc' = "blocked" /\ UNCHANGED <<last, ghosts>>
           ELSE /\ last' = Answer("read", o.how, o.out, Len(o.out))
                /\ peeked' = Rest(peeked, Len(o.out))
                /\ promised' = IF o.how # "ok" \/ o.out = <<>> \/ promised < Len(o.out)
                               THEN 0 ELSE promised - Len(o.out)
                /\ UNCHANGED pc
  BY DEF Read
<1> DEFINE o == Own.read[Call(k)]
<1>2. pc = "idle" /\ UNCHANGED <<arrived, saved, disturbed>>
  BY DEF Read
<1>3. /\ reader' = o.t /\ world' = o.w
      /\ o.how = "blocks" => pc' = "blocked" /\ promised' = promised
      /\ o.how # "blocks" =>
           /\ pc' = "idle"
           /\ promised' = IF o.how # "ok" \/ o.out = <<>> \/ promised < Len(o.out)
                          THEN 0 ELSE promised - Len(o.out)
  BY <1>1, <1>2 DEF ghosts
<1>4. /\ o \in Outcomes /\ (o.how # "ok" => o.out = <<>>)
      /\ Good(o.t, o.w, arrived)
      /\ o.how = "blocks" /\ promised > 0 => ChainOverstates(Len(o.t), o.t, o.w)
      /\ Promise(o.t, o.w, Left(promised, Len(o.out)))
  BY OwnRead
<1> HIDE DEF o
<1>5. promised \in Nat /\ promised \in 0 .. U64Max /\ U64Max \in Nat /\ Len(o.out) \in Nat
  BY <1>4, PromisedFacts DEF Outcomes
<1>6. promised' = 0 \/ promised' = Left(promised, Len(o.out))
  <2>1. CASE o.how = "blocks"
    <3>1. Len(o.out) = 0
      BY <1>4, <2>1
    <3>2. Left(promised, 0) = promised
      BY <1>5 DEF Left
    <3>3. QED
      BY <1>3, <2>1, <3>1, <3>2
  <2>2. CASE o.how # "blocks"
    BY <1>3, <1>5, <2>2 DEF Left
  <2>3. QED
    BY <2>1, <2>2
<1>7. promised' \in 0 .. U64Max
  BY <1>5, <1>6 DEF Left
<1>8. Promise(reader', world', promised')
  <2>1. CASE promised' = 0
    BY <2>1 DEF Promise
  <2>2. CASE promised' = Left(promised, Len(o.out))
    BY <1>3, <1>4, <2>2
  <2>3. QED
    BY <1>6, <2>1, <2>2
<1>9. /\ pc' \in {"idle", "stat", "seek", "blocked"} /\ pc' # "stat"
      /\ pc' = "blocked" => o.how = "blocks" /\ promised' = promised
  BY <1>3
<1>10. pc' = "blocked" /\ promised' > 0 => ChainOverstates(Len(reader'), reader', world')
  BY <1>3, <1>4, <1>9
<1>11. Good(reader', world', arrived') /\ saved' \in Nat /\ disturbed' \in BOOLEAN
  BY <1>2, <1>3, <1>4 DEF RInv
<1>12. QED
  BY <1>7, <1>8, <1>9, <1>10, <1>11, RInvAfter

\* More on the stream, and the peer gone: what was promised is still there.
LEMMA PeerKeeps ==
  ASSUME RInv, NEW w \in Kernel, w.file = world.file, w.pos = world.pos,
         Len(world.stream) <= Len(w.stream)
  PROVE  Promise(reader, w, promised)
<1> DEFINE n == Len(reader)
<1>1. SUFFICES ASSUME promised > 0
               PROVE  \/ ChainOverstates(n, reader, w)
                      \/ \E p : Backed(p, n, reader, w) /\ promised <= p[n]
  BY DEF Promise
<1>2. n \in Nat /\ reader \in Having(n) /\ reader \in Readers
  BY GoodFacts DEF RInv, Good
<1>3. CASE ChainOverstates(n, reader, world)
  <2>1. Later(reader, reader)
    BY <1>2, LaterRefl
  <2>2. ChainOverstates(n, reader, w)
    BY <1>2, <1>3, <2>1, ChainOverstatesLater
  <2>3. QED
    BY <2>2
<1>4. CASE ~ChainOverstates(n, reader, world)
  <2>1. PICK p : Backed(p, n, reader, world) /\ promised <= p[n]
    BY <1>1, <1>4 DEF RInv, Promise
  <2>2. Len(world.stream) \in Nat /\ Len(w.stream) \in Nat
    BY DEF RInv, Good, Kernel
  <2>3. \A x, y, z \in Nat : x <= y /\ y <= z => x <= z
    OBVIOUS
  <2>4. ASSUME NEW i \in 1 .. n, Backs(p[i], p, reader[i], world)
        PROVE  Backs(p[i], p, reader[i], w)
    <3>1. p[i] \in Nat
      BY <1>2, <2>1 DEF Backed
    <3>2. p[i] <= Len(world.stream) => p[i] <= Len(w.stream)
      BY <2>2, <2>3, <3>1
    <3>3. QED
      BY <2>4, <3>2 DEF Backs
  <2>5. Backed(p, n, reader, w)
    BY <2>1, <2>4 DEF Backed
  <2>6. QED
    BY <2>1, <2>5
<1>5. QED
  BY <1>3, <1>4

\* The same reader is good with another kernel.
LEMMA OtherKernel ==
  ASSUME RInv, NEW w \in Kernel, Len(w.file) <= MaxLen, NEW a \in Len(w.stream) .. MaxArrived
  PROVE  Good(reader, w, a)
BY DEF RInv, Good

LEMMA PeerStep ==
  ASSUME RInv, pc # "panicked", NEW w \in Kernel, w.file = world.file, w.pos = world.pos,
         Len(world.stream) <= Len(w.stream), NEW a \in Len(w.stream) .. MaxArrived,
         world' = w, arrived' = a, UNCHANGED <<reader, pc, saved, promised, disturbed>>
  PROVE  RInv'
<1>1. Len(w.file) <= MaxLen /\ reader \in Having(Len(reader)) /\ Len(reader) \in Nat
      /\ reader \in Readers
  BY GoodFacts DEF RInv, Good
<1>2. Good(reader', world', arrived')
  BY <1>1, OtherKernel
<1>3. Promise(reader', world', promised')
  BY PeerKeeps
<1>4. pc' \in {"idle", "stat", "seek", "blocked"}
  BY DEF RInv
<1>5. promised' \in 0 .. U64Max /\ saved' \in Nat /\ disturbed' \in BOOLEAN
  BY DEF RInv
<1>6. pc' = "stat" /\ ~disturbed' => saved' = Len(world'.file)
  BY DEF RInv
<1>7. ASSUME pc' = "blocked", promised' > 0
      PROVE  ChainOverstates(Len(reader'), reader', world')
  <2>1. ChainOverstates(Len(reader), reader, world)
    BY <1>7 DEF RInv, ReadyDoesNotBlock
  <2>2. Later(reader, reader)
    BY <1>1, LaterRefl
  <2>3. ChainOverstates(Len(reader), reader, w)
    BY <1>1, <2>1, <2>2, ChainOverstatesLater
  <2>4. QED
    BY <2>3
<1>8. QED
  BY <1>2, <1>3, <1>4, <1>5, <1>6, <1>7, RInvAfter

LEMMA SendStep ==
  ASSUME RInv, pc # "panicked", Send
  PROVE  RInv'
<1> DEFINE s == Append(world.stream, arrived + 1)
           w == [world EXCEPT !.stream = s]
<1>1. /\ world \in Kernel /\ arrived \in Len(world.stream) .. MaxArrived /\ MaxArrived \in Nat
      /\ arrived < MaxArrived
  BY ReadersAssumption DEF RInv, Good, Send
<1>2. world.stream \in Seq(Nat) /\ Len(world.stream) \in Nat /\ arrived \in Nat
  BY <1>1 DEF Kernel
<1>3. s \in Seq(Nat) /\ Len(s) = Len(world.stream) + 1
  BY <1>2
<1> HIDE DEF s
<1>4. w \in Kernel /\ w.stream = s /\ w.file = world.file /\ w.pos = world.pos
  BY <1>1, <1>3 DEF Kernel
<1>5. Len(world.stream) <= Len(w.stream) /\ arrived + 1 \in Len(w.stream) .. MaxArrived
  BY <1>1, <1>2, <1>3, <1>4
<1>6. world' = w /\ arrived' = arrived + 1 /\ UNCHANGED <<reader, pc, saved, promised, disturbed>>
  BY DEF Send, ghosts, s
<1> HIDE DEF w
<1>7. QED
  BY <1>4, <1>5, <1>6, PeerStep

LEMMA HangUpStep ==
  ASSUME RInv, pc # "panicked", HangUp
  PROVE  RInv'
<1> DEFINE w == [world EXCEPT !.closed = TRUE]
<1>1. world \in Kernel /\ arrived \in Len(world.stream) .. MaxArrived
  BY DEF RInv, Good
<1>2. w \in Kernel /\ w.stream = world.stream /\ w.file = world.file /\ w.pos = world.pos
  BY <1>1 DEF Kernel
<1>3. Len(world.stream) \in Nat
  BY <1>1 DEF Kernel
<1>4. Len(world.stream) <= Len(w.stream) /\ arrived \in Len(w.stream) .. MaxArrived
  BY <1>1, <1>2, <1>3
<1>5. world' = w /\ arrived' = arrived /\ UNCHANGED <<reader, pc, saved, promised, disturbed>>
  BY DEF HangUp, ghosts
<1> HIDE DEF w
<1>6. QED
  BY <1>2, <1>4, <1>5, PeerStep

\* Whatever others do to the file, nothing is promised afterwards.
LEMMA DisturbStep ==
  ASSUME RInv, pc # "panicked", NEW w \in Kernel, w.stream = world.stream, Len(w.file) <= MaxLen,
         Disturb(w)
  PROVE  RInv'
<1>1. /\ world' = w /\ disturbed' = TRUE /\ promised' = 0
      /\ UNCHANGED <<reader, arrived, pc, saved>>
  BY DEF Disturb
<1>2. arrived \in Len(w.stream) .. MaxArrived
  BY DEF RInv, Good
<1>3. Good(reader', world', arrived')
  BY <1>1, <1>2, OtherKernel
<1>4. promised' \in 0 .. U64Max /\ Promise(reader', world', promised') /\ ~(promised' > 0)
  BY <1>1, ReadersAssumption DEF Promise
<1>5. pc' \in {"idle", "stat", "seek", "blocked"} /\ saved' \in Nat
  BY <1>1 DEF RInv
<1>6. disturbed' \in BOOLEAN /\ disturbed'
  BY <1>1
<1>7. QED
  BY <1>3, <1>4, <1>5, <1>6, RInvAfter

LEMMA SeekElsewhereStep ==
  ASSUME RInv, pc # "panicked", SeekElsewhere
  PROVE  RInv'
<1>1. PICK p \in 0 .. MaxLen : Disturb([world EXCEPT !.pos = p])
  BY DEF SeekElsewhere
<1> DEFINE w == [world EXCEPT !.pos = p]
<1>2. p \in Nat
  BY ReadersAssumption
<1>3. world \in Kernel /\ Len(world.file) <= MaxLen
  BY DEF RInv, Good
<1>4. w \in Kernel /\ w.stream = world.stream /\ w.file = world.file
  BY <1>2, <1>3 DEF Kernel
<1>5. Disturb(w)
  BY <1>1
<1> HIDE DEF w
<1>6. QED
  BY <1>3, <1>4, <1>5, DisturbStep

\* A file of another content, no longer than MaxLen.
LEMMA ResizeStep ==
  ASSUME RInv, pc # "panicked", NEW s \in Seq(Nat), Len(s) <= MaxLen,
         Disturb([world EXCEPT !.file = s])
  PROVE  RInv'
<1> DEFINE w == [world EXCEPT !.file = s]
<1>1. world \in Kernel
  BY DEF RInv, Good
<1>2. w \in Kernel /\ w.stream = world.stream /\ w.file = s
  BY <1>1 DEF Kernel
<1>3. Disturb(w)
  OBVIOUS
<1> HIDE DEF w
<1>4. QED
  BY <1>2, <1>3, DisturbStep

LEMMA ResizeElsewhereStep ==
  ASSUME RInv, pc # "panicked", ResizeElsewhere
  PROVE  RInv'
<1>1. world.file \in Seq(Nat) /\ Len(world.file) <= MaxLen /\ MaxLen \in Nat
  BY ReadersAssumption DEF RInv, Good, Kernel
<1>2. Len(world.file) \in Nat
  BY <1>1
<1>3. CASE Len(world.file) < MaxLen /\ Disturb([world EXCEPT !.file = Append(@, Added)])
  <2> DEFINE s == Append(world.file, Added)
  <2>1. s \in Seq(Nat) /\ Len(s) = Len(world.file) + 1
    BY <1>1 DEF Added
  <2>2. Disturb([world EXCEPT !.file = s])
    BY <1>3
  <2> HIDE DEF s
  <2>3. Len(s) <= MaxLen
    BY <1>1, <1>2, <1>3, <2>1
  <2>4. QED
    BY <2>1, <2>2, <2>3, ResizeStep
<1>4. CASE /\ world.file # <<>>
           /\ Disturb([world EXCEPT !.file = SubSeq(@, 1, Len(@) - 1)])
  <2> DEFINE s == SubSeq(world.file, 1, Len(world.file) - 1)
  <2>1. s \in Seq(Nat) /\ Len(s) <= Len(world.file)
    BY <1>1, <1>2, <1>4
  <2>2. Disturb([world EXCEPT !.file = s])
    BY <1>4
  <2>3. Len(s) \in Nat
    BY <2>1
  <2> HIDE DEF s
  <2>4. Len(s) <= MaxLen
    BY <1>1, <1>2, <2>1, <2>3
  <2>5. QED
    BY <2>1, <2>2, <2>4, ResizeStep
<1>5. QED
  BY <1>3, <1>4 DEF ResizeElsewhere

LEMMA UserStep ==
  ASSUME RInv, User
  PROVE  RInv'
<1>1. CASE NumReadyBytes \/ ReadyOfFile
  BY <1>1, ReadyStep DEF NumReadyBytes, ReadyOfFile
<1>2. CASE StatFile
  <2>1. /\ pc' = "stat" /\ saved' = Len(world.file) /\ disturbed' = FALSE
        /\ UNCHANGED <<reader, world, arrived, promised>>
    BY <1>2 DEF StatFile, ghosts
  <2>2. /\ Good(reader', world', arrived') /\ promised' \in 0 .. U64Max
        /\ Promise(reader', world', promised')
    BY <2>1 DEF RInv
  <2>3. saved' \in Nat
    BY <2>1 DEF RInv, Good, Kernel
  <2>4. disturbed' \in BOOLEAN /\ saved' = Len(world'.file) /\ pc' # "blocked"
        /\ pc' \in {"idle", "stat", "seek", "blocked"}
    BY <2>1
  <2>5. QED
    BY <2>2, <2>3, <2>4, RInvAfter
<1>3. CASE PeekBufRead
  BY <1>3, PeekBufReadStep
<1>4. CASE PeekDirect
  BY <1>4, PeekDirectStep
<1>5. CASE PeekPipe \/ PeekNamedPipe
  BY <1>5, PeekPipeStep
<1>6. CASE SeekToPeek
  <2>1. /\ pc' = "seek" /\ saved' = world.pos /\ disturbed' = FALSE
        /\ UNCHANGED <<reader, world, arrived, promised>>
    BY <1>6 DEF SeekToPeek, ghosts
  <2>2. saved' \in Nat /\ disturbed' \in BOOLEAN /\ pc' \in {"idle", "seek"}
    BY <2>1 DEF RInv, Good, Kernel
  <2>3. QED
    BY <2>1, <2>2, IdleStep
<1>7. CASE PeekFile
  <2>1. pc' = "idle" /\ UNCHANGED <<reader, world, arrived, promised, saved, disturbed>>
    BY <1>7 DEF PeekFile
  <2>2. saved' \in Nat /\ disturbed' \in BOOLEAN /\ pc' \in {"idle", "seek"}
    BY <2>1 DEF RInv
  <2>3. QED
    BY <2>1, <2>2, IdleStep
<1>8. CASE Read
  BY <1>8, ReadStep
<1>9. CASE Wake
  <2>1. pc' = "idle" /\ UNCHANGED <<reader, world, arrived, promised, saved, disturbed>>
    BY <1>9 DEF Wake, ghosts
  <2>2. saved' \in Nat /\ disturbed' \in BOOLEAN /\ pc' \in {"idle", "seek"}
    BY <2>1 DEF RInv
  <2>3. QED
    BY <2>1, <2>2, IdleStep
<1>10. QED
  BY <1>1, <1>2, <1>3, <1>4, <1>5, <1>6, <1>7, <1>8, <1>9 DEF User

LEMMA OthersStep ==
  ASSUME RInv, Others
  PROVE  RInv'
BY SendStep, HangUpStep, SeekElsewhereStep, ResizeElsewhereStep DEF Others

LEMMA StutterStep ==
  ASSUME RInv, UNCHANGED vars
  PROVE  RInv'
<1>1. /\ reader' = reader /\ world' = world /\ arrived' = arrived /\ pc' = pc
      /\ promised' = promised /\ saved' = saved /\ disturbed' = disturbed
  BY DEF vars
<1>2. Asked' = Asked
  BY <1>1 DEF Asked, Own
<1>3. ReadyDoesNotBlock' /\ PanicIsOverrun'
  BY <1>1, <1>2 DEF RInv, ReadyDoesNotBlock, PanicIsOverrun
<1>4. QED
  BY <1>1, <1>3 DEF RInv

\* RInv is an invariant: counts fit, and what num_ready_bytes promised is
\* there, in the buffers and behind them (read_ready.rs:149-232).
THEOREM RInvHolds == Spec => []RInv
<1>1. Init => RInv
  BY InitRInv
<1>2. RInv /\ [Next]_vars => RInv'
  <2>1. SUFFICES ASSUME RInv, [Next]_vars PROVE RInv'
    OBVIOUS
  <2>2. CASE User
    BY <2>1, <2>2, UserStep
  <2>3. CASE Others
    BY <2>1, <2>3, OthersStep
  <2>4. CASE UNCHANGED vars
    BY <2>1, <2>4, StutterStep
  <2>5. QED
    BY <2>1, <2>2, <2>3, <2>4 DEF Next
<1>3. QED
  BY <1>1, <1>2, PTL DEF Spec

\* Type correctness; no BufReader ever holds more than its capacity, whatever
\* calls the user makes (read_ready.rs:193-202).
THEOREM TypeCorrect == Spec => []TypeOK
<1>1. RInv => TypeOK
  BY RInvImpliesTypeOK
<1>2. QED
  BY <1>1, RInvHolds, PTL

\* Bytes reported as ready are read without waiting, by every composition of
\* readers and after every mix of peeks, reads and bytes sent; a Chain that
\* overstates aside (read_ready.rs:180-236).
THEOREM ReadyDoesNotBlockThm == Spec => []ReadyDoesNotBlock
<1>1. RInv => ReadyDoesNotBlock
  BY DEF RInv
<1>2. QED
  BY <1>1, RInvHolds, PTL

\* num_ready_bytes panics only for what is beyond its end, for a file others
\* changed during the call, and over Repeat (read_ready.rs:78, 195-201, 209).
THEOREM PanicIsOverrunThm == Spec => []PanicIsOverrun
<1>1. RInv => PanicIsOverrun
  BY DEF RInv
<1>2. QED
  BY <1>1, RInvHolds, PTL

=============================================================================
