------------------------- MODULE ReadersPeek_proofs -------------------------
(***************************************************************************)
(* Proofs about peeks: what a peek shows is what the next reads return,    *)
(* and num_ready_bytes counts it.                                          *)
(***************************************************************************)
EXTENDS Readers_proofs

-----------------------------------------------------------------------------
(***************************************************************************)
(* Sequences                                                               *)
(***************************************************************************)

LEMMA PrefixIs ==
  ASSUME NEW s \in Seq(Nat), NEW k \in Nat
  PROVE  /\ Prefix(s, k) \in Seq(Nat) /\ Len(Prefix(s, k)) = Least(k, Len(s))
         /\ \A i \in 1 .. Least(k, Len(s)) : Prefix(s, k)[i] = s[i]
<1>1. Least(k, Len(s)) \in 0 .. Len(s)
  BY DEF Least
<1>2. QED
  BY <1>1 DEF Prefix

LEMMA RestIs ==
  ASSUME NEW s \in Seq(Nat), NEW k \in Nat
  PROVE  /\ Rest(s, k) \in Seq(Nat) /\ Len(Rest(s, k)) = Left(Len(s), k)
         /\ \A i \in 1 .. Left(Len(s), k) : Rest(s, k)[i] = s[k + i]
<1>1. CASE k < Len(s)
  BY <1>1 DEF Rest, Left
<1>2. CASE k >= Len(s)
  <2>1. Rest(s, k) = <<>> /\ Left(Len(s), k) = 0
    BY <1>2 DEF Rest, Left
  <2>2. QED
    BY <2>1
<1>3. QED
  BY <1>1, <1>2

LEMMA SameSeq ==
  ASSUME NEW a \in Seq(Nat), NEW b \in Seq(Nat), Len(a) = Len(b),
         \A i \in 1 .. Len(a) : a[i] = b[i]
  PROVE  a = b
OBVIOUS

\* Prefixes and rests of prefixes and rests.
LEMMA PrefixPrefix ==
  ASSUME NEW s \in Seq(Nat), NEW k \in Nat, NEW j \in Nat, j <= k
  PROVE  Prefix(Prefix(s, k), j) = Prefix(s, j)
<1> DEFINE a == Prefix(s, k)
<1>s. Len(s) \in Nat
  OBVIOUS
<1>1. a \in Seq(Nat) /\ Len(a) = Least(k, Len(s))
      /\ \A i \in 1 .. Least(k, Len(s)) : a[i] = s[i]
  BY PrefixIs
<1> HIDE DEF a
<1>2. Least(j, Len(a)) = Least(j, Len(s)) /\ Least(j, Len(s)) <= Least(k, Len(s))
      /\ Least(j, Len(s)) \in Nat /\ Least(k, Len(s)) \in Nat
  BY <1>s, <1>1 DEF Least
<1>3. /\ Prefix(a, j) \in Seq(Nat) /\ Len(Prefix(a, j)) = Least(j, Len(s))
      /\ \A i \in 1 .. Least(j, Len(s)) : Prefix(a, j)[i] = a[i]
  BY <1>1, <1>2, PrefixIs
<1>4. /\ Prefix(s, j) \in Seq(Nat) /\ Len(Prefix(s, j)) = Least(j, Len(s))
      /\ \A i \in 1 .. Least(j, Len(s)) : Prefix(s, j)[i] = s[i]
  BY PrefixIs
<1>5. \A i \in 1 .. Least(j, Len(s)) : i \in 1 .. Least(k, Len(s))
  BY <1>2
<1>6. \A i \in 1 .. Least(j, Len(s)) : Prefix(a, j)[i] = Prefix(s, j)[i]
  BY <1>1, <1>3, <1>4, <1>5
<1>7. Prefix(a, j) = Prefix(s, j)
  BY <1>3, <1>4, <1>6, SameSeq
<1>8. QED
  BY <1>7 DEF a

LEMMA RestRest ==
  ASSUME NEW s \in Seq(Nat), NEW k \in Nat, NEW j \in Nat
  PROVE  Rest(Rest(s, k), j) = Rest(s, k + j)
<1> DEFINE a == Rest(s, k)
<1>s. Len(s) \in Nat /\ k + j \in Nat
  OBVIOUS
<1>1. a \in Seq(Nat) /\ Len(a) = Left(Len(s), k)
      /\ \A i \in 1 .. Left(Len(s), k) : a[i] = s[k + i]
  BY RestIs
<1> HIDE DEF a
<1>2. /\ Left(Len(a), j) = Left(Len(s), k + j) /\ Left(Len(s), k) \in Nat
      /\ \A i \in 1 .. Left(Len(s), k + j) : j + i \in 1 .. Left(Len(s), k) /\ k + (j + i) = (k + j) + i
  BY <1>s, <1>1 DEF Left
<1>3. /\ Rest(a, j) \in Seq(Nat) /\ Len(Rest(a, j)) = Left(Len(a), j)
      /\ \A i \in 1 .. Left(Len(a), j) : Rest(a, j)[i] = a[j + i]
  BY <1>1, RestIs
<1>4. /\ Rest(s, k + j) \in Seq(Nat) /\ Len(Rest(s, k + j)) = Left(Len(s), k + j)
      /\ \A i \in 1 .. Left(Len(s), k + j) : Rest(s, k + j)[i] = s[(k + j) + i]
  BY <1>s, RestIs
<1>5. \A i \in 1 .. Left(Len(s), k + j) : a[j + i] = s[(k + j) + i]
  BY <1>1, <1>2
<1>e. /\ Len(Rest(a, j)) = Len(Rest(s, k + j))
      /\ \A i \in 1 .. Len(Rest(a, j)) : Rest(a, j)[i] = Rest(s, k + j)[i]
  BY <1>2, <1>3, <1>4, <1>5
<1>6. Rest(a, j) = Rest(s, k + j)
  BY <1>3, <1>4, <1>e, SameSeq
<1>7. QED
  BY <1>6 DEF a

LEMMA RestOfPrefix ==
  ASSUME NEW s \in Seq(Nat), NEW k \in Nat, NEW j \in Nat, j <= k
  PROVE  Rest(Prefix(s, k), j) = Prefix(Rest(s, j), k - j)
<1> DEFINE a == Prefix(s, k)
           b == Rest(s, j)
<1>s. Len(s) \in Nat /\ k - j \in Nat
  OBVIOUS
<1>1. a \in Seq(Nat) /\ Len(a) = Least(k, Len(s))
      /\ \A i \in 1 .. Least(k, Len(s)) : a[i] = s[i]
  BY PrefixIs
<1>2. b \in Seq(Nat) /\ Len(b) = Left(Len(s), j)
      /\ \A i \in 1 .. Left(Len(s), j) : b[i] = s[j + i]
  BY RestIs
<1> HIDE DEF a, b
<1> DEFINE l == Left(Len(a), j)
<1>3. /\ l = Least(k - j, Len(b)) /\ l \in Nat
      /\ \A i \in 1 .. l : j + i \in 1 .. Least(k, Len(s)) /\ i \in 1 .. Left(Len(s), j)
  <2>1. l = Least(k - j, Len(b)) /\ l \in Nat
    BY <1>s, <1>1, <1>2 DEF Left, Least
  <2>2. l = 0 \/ (j + l = Len(a) /\ l <= Len(b))
    BY <1>s, <1>1, <1>2 DEF Left, Least
  <2>3. Len(a) \in Nat /\ Len(b) \in Nat
    BY <1>1, <1>2
  <2> HIDE DEF l
  <2>4. \A i \in 1 .. l : j + i \in 1 .. Len(a) /\ i \in 1 .. Len(b)
    BY <2>1, <2>2, <2>3
  <2>5. QED
    BY <1>1, <1>2, <2>1, <2>4
<1>4. /\ Rest(a, j) \in Seq(Nat) /\ Len(Rest(a, j)) = l
      /\ \A i \in 1 .. l : Rest(a, j)[i] = a[j + i]
  BY <1>1, RestIs
<1> HIDE DEF l
<1>5. /\ Prefix(b, k - j) \in Seq(Nat) /\ Len(Prefix(b, k - j)) = l
      /\ \A i \in 1 .. l : Prefix(b, k - j)[i] = b[i]
  <2>1. b \in Seq(Nat) /\ k - j \in Nat /\ l = Least(k - j, Len(b))
    BY <1>s, <1>2, <1>3
  <2>2. QED
    BY ONLY <2>1, PrefixIs
<1>6. \A i \in 1 .. l : a[j + i] = b[i]
  BY <1>1, <1>2, <1>3
<1>7. Rest(a, j) = Prefix(b, k - j)
  BY <1>4, <1>5, <1>6, SameSeq
<1>8. QED
  BY <1>7 DEF a, b

\* A read of k bytes takes as many as there are.
LEMMA TakenIs ==
  ASSUME NEW s \in Seq(Nat), NEW k \in Nat
  PROVE  LET j == Len(Prefix(s, k)) IN
         j \in Nat /\ Prefix(s, k) = Prefix(s, j) /\ Rest(s, k) = Rest(s, j)
<1> DEFINE j == Len(Prefix(s, k))
<1>1. j = Least(k, Len(s)) /\ Len(s) \in Nat
  BY PrefixIs
<1> HIDE DEF j
<1>2. j \in Nat /\ Least(j, Len(s)) = Least(k, Len(s)) /\ Left(Len(s), k) = Left(Len(s), j)
  BY <1>1 DEF Least, Left
<1>3. Prefix(s, k) = Prefix(s, j)
  BY <1>2 DEF Prefix
<1>4. Rest(s, k) = Rest(s, j)
  <2>1. CASE k <= Len(s)
    BY <1>1, <2>1 DEF Least
  <2>2. CASE ~(k <= Len(s))
    <3>1. Left(Len(s), k) = 0
      BY <1>1, <2>2 DEF Left
    <3>2. /\ Rest(s, k) \in Seq(Nat) /\ Len(Rest(s, k)) = 0
          /\ Rest(s, j) \in Seq(Nat) /\ Len(Rest(s, j)) = 0
      BY <1>2, <3>1, RestIs
    <3>3. QED
      BY <3>2
  <2>3. QED
    BY <2>1, <2>2
<1>5. QED
  BY <1>2, <1>3, <1>4 DEF j

LEMMA EmptyFacts ==
  /\ <<>> \in Seq(Nat) /\ Len(<<>>) = 0
  /\ \A k \in Nat : Prefix(<<>>, k) = <<>> /\ Rest(<<>>, k) = <<>>
  /\ \A s \in Seq(Nat) : Prefix(s, 0) = <<>> /\ (Len(s) = 0 <=> s = <<>>) /\ Len(s) \in Nat
<1>1. <<>> \in Seq(Nat) /\ Len(<<>>) = 0
  OBVIOUS
<1>2. ASSUME NEW k \in Nat PROVE Prefix(<<>>, k) = <<>> /\ Rest(<<>>, k) = <<>>
  <2>1. Len(Prefix(<<>>, k)) = Least(k, Len(<<>>)) /\ Len(Rest(<<>>, k)) = Left(Len(<<>>), k)
    BY <1>1, PrefixIs, RestIs
  <2>2. Prefix(<<>>, k) \in Seq(Nat) /\ Rest(<<>>, k) \in Seq(Nat)
    BY <1>1, PrefixIs, RestIs
  <2>3. Least(k, Len(<<>>)) = 0 /\ Left(Len(<<>>), k) = 0
    BY <1>1 DEF Least, Left
  <2>4. QED
    BY <2>1, <2>2, <2>3
<1>3. ASSUME NEW s \in Seq(Nat) PROVE Prefix(s, 0) = <<>> /\ (Len(s) = 0 <=> s = <<>>) /\ Len(s) \in Nat
  <2>1. Prefix(s, 0) \in Seq(Nat) /\ Len(Prefix(s, 0)) = 0
    BY PrefixIs DEF Least
  <2>2. QED
    BY <2>1
<1>4. QED
  BY <1>1, <1>2, <1>3

-----------------------------------------------------------------------------
(***************************************************************************)
(* What readers hold                                                       *)
(***************************************************************************)

\* The bytes a reader r returns before it asks the kernel, when the readers
\* inside it hold h.
Bytes(h, r) ==
  CASE r.kind = "slice" -> r.data
    [] r.kind = "cursor" -> Rest(r.data, r.pos)
    [] r.kind \in Buffered -> r.buffer
    [] r.kind = "take" -> Prefix(h[r.inner], r.limit)
    [] r.kind = "chain" -> h[IF r.done_first THEN r.second ELSE r.first]
    [] OTHER -> <<>>

Held(t) == CHOOSE h : \A n \in DOMAIN t : h[n] = Bytes(h, t[n])

LEMMA BytesLocal ==
  ASSUME NEW t \in Readers, NEW n \in DOMAIN t, NEW h, NEW g, \A m \in 1 .. n - 1 : h[m] = g[m]
  PROVE  Bytes(h, t[n]) = Bytes(g, t[n])
<1>1. t \in Having(n)
  BY DEF Having
<1>2. /\ t[n].kind = "take" => h[t[n].inner] = g[t[n].inner]
      /\ t[n].kind = "chain" => h[t[n].first] = g[t[n].first] /\ h[t[n].second] = g[t[n].second]
  BY <1>1, InsideFacts DEF Adaptors
<1>3. QED
  BY <1>2 DEF Bytes, Buffered

LEMMA HeldExists ==
  ASSUME NEW t \in Readers
  PROVE  \E h : \A n \in DOMAIN t : h[n] = Bytes(h, t[n])
<1>1. Len(t) \in Nat /\ DOMAIN t = 1 .. Len(t)
  BY DEF Readers
<1> DEFINE T == {n \in 0 .. Len(t) : ~ \E h : \A m \in 1 .. n : h[m] = Bytes(h, t[m])}
<1>2. T = {}
  <2>1. SUFFICES ASSUME T # {} PROVE FALSE
    OBVIOUS
  <2>2. T \subseteq Nat
    BY <1>1
  <2>3. PICK n \in T : \A m \in T : ~(m < n)
    BY <2>1, <2>2, LeastNumber
  <2>4. n \in 0 .. Len(t) /\ n \in Nat /\ ~ \E h : \A m \in 1 .. n : h[m] = Bytes(h, t[m])
    BY <2>2, <2>3
  <2>5. n # 0
    <3>1. n = 0 => \A m \in 1 .. n : FALSE
      OBVIOUS
    <3>2. QED
      BY <2>4, <3>1
  <2>6. n - 1 \in 0 .. Len(t) /\ n - 1 < n
    BY <1>1, <2>4, <2>5
  <2>7. n - 1 \notin T
    BY <2>3, <2>6
  <2>8. PICK f : \A m \in 1 .. n - 1 : f[m] = Bytes(f, t[m])
    BY <2>6, <2>7
  <2> DEFINE g == [m \in 1 .. n |-> IF m = n THEN Bytes(f, t[n]) ELSE f[m]]
  <2>9. /\ \A m \in 1 .. n - 1 : g[m] = f[m]
        /\ g[n] = Bytes(f, t[n])
    BY <2>4, <2>5
  <2> HIDE DEF g
  <2>10. ASSUME NEW m \in 1 .. n
         PROVE  g[m] = Bytes(g, t[m])
    <3>1. m \in DOMAIN t /\ \A i \in 1 .. m - 1 : f[i] = g[i]
      BY <1>1, <2>4, <2>9
    <3>2. Bytes(f, t[m]) = Bytes(g, t[m])
      BY <3>1, BytesLocal
    <3>3. g[m] = Bytes(f, t[m])
      BY <2>4, <2>8, <2>9
    <3>4. QED
      BY <3>2, <3>3
  <2>11. QED
    BY <2>4, <2>10
<1>3. Len(t) \notin T
  BY <1>2
<1>4. QED
  BY <1>1, <1>3

LEMMA HeldEquation ==
  ASSUME NEW t \in Readers, NEW n \in DOMAIN t
  PROVE  Held(t)[n] = Bytes(Held(t), t[n])
BY HeldExists DEF Held

\* What a reader holds depends on it and those before it alone.
LEMMA HeldLocal ==
  ASSUME NEW t \in Readers, NEW u \in Readers, NEW n \in DOMAIN t \cap DOMAIN u,
         \A m \in 1 .. n : t[m] = u[m]
  PROVE  Held(t)[n] = Held(u)[n]
<1>1. /\ n \in Nat /\ DOMAIN t = 1 .. Len(t) /\ DOMAIN u = 1 .. Len(u)
      /\ Len(t) \in Nat /\ Len(u) \in Nat
  BY DEF Readers
<1> DEFINE T == {m \in 1 .. n : Held(t)[m] # Held(u)[m]}
<1>2. SUFFICES ASSUME T # {} PROVE FALSE
  BY <1>1
<1>3. T \subseteq Nat
  BY <1>1
<1>4. PICK m \in T : \A i \in T : ~(i < m)
  BY <1>2, <1>3, LeastNumber
<1>5. m \in DOMAIN t /\ m \in DOMAIN u /\ t[m] = u[m] /\ m \in Nat /\ m <= n
  BY <1>1, <1>4
<1>6. \A i \in 1 .. m - 1 : Held(t)[i] = Held(u)[i]
  <2>1. \A i \in 1 .. m - 1 : i \in 1 .. n /\ i < m
    BY <1>1, <1>5
  <2>2. QED
    BY <1>4, <2>1
<1> DEFINE h == Held(t)
           g == Held(u)
<1>7. h[m] = Bytes(h, t[m]) /\ g[m] = Bytes(g, u[m])
  BY <1>5, HeldEquation
<1>8. \A i \in 1 .. m - 1 : h[i] = g[i]
  BY <1>6
<1>9. h[m] # g[m]
  BY <1>4
<1> HIDE DEF h, g
<1>10. Bytes(h, t[m]) = Bytes(g, t[m])
  BY <1>5, <1>8, BytesLocal
<1>11. QED
  BY <1>5, <1>7, <1>9, <1>10

LEMMA HeldIsSeq == \A t \in Readers : \A n \in DOMAIN t : Held(t)[n] \in Seq(Nat)
<1>1. SUFFICES ASSUME NEW t \in Readers PROVE \A n \in DOMAIN t : Held(t)[n] \in Seq(Nat)
  OBVIOUS
<1>2. DOMAIN t = 1 .. Len(t) /\ Len(t) \in Nat /\ t \in Seq(Node)
  BY DEF Readers
<1> DEFINE T == {n \in DOMAIN t : Held(t)[n] \notin Seq(Nat)}
<1>3. SUFFICES ASSUME T # {} PROVE FALSE
  OBVIOUS
<1>4. T \subseteq Nat
  BY <1>2
<1>5. PICK n \in T : \A m \in T : ~(m < n)
  BY <1>3, <1>4, LeastNumber
<1>6. n \in DOMAIN t /\ Held(t)[n] \notin Seq(Nat) /\ n \in Nat /\ t \in Having(n)
  BY <1>4, <1>5 DEF Having
<1>7. t[n] \in Node
  BY <1>2, <1>6
<1>8. ASSUME NEW m \in 1 .. n - 1 PROVE Held(t)[m] \in Seq(Nat)
  <2>1. m \in DOMAIN t /\ m < n
    BY <1>2, <1>6
  <2>2. QED
    BY <1>5, <2>1
<1> DEFINE h == Held(t)
<1>9. h[n] = Bytes(h, t[n])
  BY <1>6, HeldEquation
<1>10. /\ t[n].kind = "take" => h[t[n].inner] \in Seq(Nat)
       /\ t[n].kind = "chain" => h[t[n].first] \in Seq(Nat) /\ h[t[n].second] \in Seq(Nat)
  BY <1>6, <1>8, InsideFacts DEF Adaptors
<1>11. h[n] \notin Seq(Nat)
  BY <1>6
<1> HIDE DEF h
<1>12. CASE t[n].kind = "slice"
  BY <1>7, <1>9, <1>11, <1>12, NodeFacts DEF Bytes
<1>13. CASE t[n].kind = "cursor"
  <2>1. t[n].data \in Seq(Nat) /\ t[n].pos \in Nat
    BY <1>7, <1>13, NodeFacts
  <2>2. h[n] = Rest(t[n].data, t[n].pos)
    BY <1>9, <1>13 DEF Bytes, Buffered
  <2>3. Rest(t[n].data, t[n].pos) \in Seq(Nat)
    BY <2>1, RestFacts
  <2>4. QED
    BY <1>11, <2>2, <2>3
<1>14. CASE t[n].kind \in Buffered
  BY <1>7, <1>9, <1>11, <1>14, NodeFacts DEF Bytes, Buffered
<1>15. CASE t[n].kind = "take"
  <2>1. h[n] = Prefix(h[t[n].inner], t[n].limit) /\ t[n].limit \in Nat
    BY <1>7, <1>9, <1>15, NodeFacts DEF Bytes, Buffered
  <2>2. QED
    BY <1>10, <1>11, <1>15, <2>1, PrefixFacts
<1>16. CASE t[n].kind = "chain"
  <2>1. h[n] = h[IF t[n].done_first THEN t[n].second ELSE t[n].first]
    BY <1>9, <1>16 DEF Bytes, Buffered
  <2>2. QED
    BY <1>10, <1>11, <1>16, <2>1
<1>17. CASE t[n].kind \notin {"slice", "cursor", "take", "chain"} \cup Buffered
  <2>1. h[n] = <<>>
    BY <1>9, <1>17 DEF Bytes
  <2>2. QED
    BY <1>11, <2>1, EmptyFacts
<1>18. QED
  BY <1>12, <1>13, <1>14, <1>15, <1>16, <1>17

\* What each reader holds, by its kind.
LEMMA HeldFacts ==
  ASSUME NEW n, NEW t \in Having(n)
  PROVE  /\ Held(t)[n] \in Seq(Nat)
         /\ t[n].kind = "slice" => Held(t)[n] = t[n].data
         /\ t[n].kind = "cursor" => Held(t)[n] = Rest(t[n].data, t[n].pos)
         /\ t[n].kind \in Buffered => Held(t)[n] = t[n].buffer
         /\ t[n].kind = "take" =>
              /\ Held(t)[t[n].inner] \in Seq(Nat)
              /\ Held(t)[n] = Prefix(Held(t)[t[n].inner], t[n].limit)
         /\ t[n].kind = "chain" =>
              /\ t[n].done_first => Held(t)[n] = Held(t)[t[n].second]
              /\ ~t[n].done_first => Held(t)[n] = Held(t)[t[n].first]
         /\ t[n].kind \notin {"slice", "cursor", "take", "chain"} \cup Buffered =>
              Held(t)[n] = <<>>
<1>1. t \in Readers /\ n \in DOMAIN t
  BY DEF Having
<1> DEFINE h == Held(t)
<1>2. h[n] \in Seq(Nat) /\ h[n] = Bytes(h, t[n])
  BY <1>1, HeldIsSeq, HeldEquation
<1>3. t[n].kind = "take" => h[t[n].inner] \in Seq(Nat)
  <2>1. SUFFICES ASSUME t[n].kind = "take" PROVE h[t[n].inner] \in Seq(Nat)
    OBVIOUS
  <2>2. t[n].inner \in 1 .. n - 1 /\ n \in 1 .. Len(t) /\ Len(t) \in Nat
    BY <2>1, InsideFacts DEF Adaptors
  <2>3. t[n].inner \in DOMAIN t
    BY <1>1, <2>2 DEF Readers
  <2>4. QED
    BY <1>1, <2>3, HeldIsSeq
<1> HIDE DEF h
<1>4. /\ t[n].kind = "slice" => h[n] = t[n].data
      /\ t[n].kind = "cursor" => h[n] = Rest(t[n].data, t[n].pos)
      /\ t[n].kind \in Buffered => h[n] = t[n].buffer
      /\ t[n].kind = "take" => h[n] = Prefix(h[t[n].inner], t[n].limit)
      /\ t[n].kind = "chain" =>
           /\ t[n].done_first => h[n] = h[t[n].second]
           /\ ~t[n].done_first => h[n] = h[t[n].first]
      /\ t[n].kind \notin {"slice", "cursor", "take", "chain"} \cup Buffered => h[n] = <<>>
  BY <1>2 DEF Bytes, Buffered
<1>5. QED
  BY <1>2, <1>3, <1>4 DEF h

\* When the n-th reader becomes s, those before it hold what they held.
LEMMA HeldSet ==
  ASSUME NEW n \in Nat, NEW c \in Calls(n), NEW o, Valid(n - 1, c, o), NEW s, Became(c.t[n], s)
  PROVE  /\ With(o.t, n, s) \in Having(n) /\ With(o.t, n, s)[n] = s
         /\ \A m \in 1 .. n - 1 : Held(With(o.t, n, s))[m] = Held(o.t)[m]
<1> DEFINE u == With(o.t, n, s)
<1>1. o.t \in Having(n) /\ o.t[n] = c.t[n]
  BY ValidKeeps
<1>2. /\ u \in Having(n) /\ Later(o.t, u) /\ u[n] = s
      /\ \A i \in 1 .. Len(o.t) : i # n => u[i] = o.t[i]
  BY <1>1, SetReader
<1> HIDE DEF u
<1>3. /\ u \in Readers /\ o.t \in Readers /\ n \in 1 .. Len(o.t)
      /\ DOMAIN u = 1 .. Len(o.t) /\ DOMAIN o.t = 1 .. Len(o.t) /\ Len(o.t) \in Nat
  BY <1>1, <1>2 DEF Having, Readers, Later
<1>4. ASSUME NEW m \in 1 .. n - 1 PROVE Held(u)[m] = Held(o.t)[m]
  <2>1. m \in DOMAIN u \cap DOMAIN o.t /\ \A i \in 1 .. m : u[i] = o.t[i]
    BY <1>2, <1>3
  <2>2. QED
    BY <1>3, <2>1, HeldLocal
<1>5. QED
  BY <1>2, <1>4 DEF u

\* A call of a reader before the n-th that changes nothing.
LEMMA NothingDone ==
  ASSUME NEW n \in Nat, NEW c \in Calls(n)
  PROVE  /\ Valid(n - 1, c, LeftFirst(c)) /\ LeftFirst(c).t = c.t /\ LeftFirst(c).w = c.w
         /\ LeftFirst(c).how = "ok" /\ LeftFirst(c).out = <<>>
<1>1. n - 1 \in 0 .. n
  BY CallFacts
<1>2. Valid(n - 1, c, LeftFirst(c))
  BY <1>1, LeftFirstIsValid
<1>3. QED
  BY <1>2 DEF LeftFirst, Outcome

-----------------------------------------------------------------------------
(***************************************************************************)
(* Reads take what readers hold from its front                             *)
(***************************************************************************)

\* o returns the front of h, and leaves the rest, g.
Front(h, o, g) ==
  /\ o.how = "ok" /\ o.out # <<>>
  /\ o.out = Prefix(h, Len(o.out)) /\ g = Rest(h, Len(o.out))

Takes(n, c, o) == c.k > 0 /\ Held(c.t)[n] # <<>> => Front(Held(c.t)[n], o, Held(o.t)[n])

LEMMA FrontIs ==
  ASSUME NEW h \in Seq(Nat), NEW k \in Nat, k > 0, h # <<>>,
         NEW o, o.how = "ok" /\ o.out = Prefix(h, k), NEW g, g = Rest(h, k)
  PROVE  Front(h, o, g)
<1>1. Prefix(h, k) # <<>>
  BY PrefixFacts
<1>2. Prefix(h, k) = Prefix(h, Len(Prefix(h, k))) /\ Rest(h, k) = Rest(h, Len(Prefix(h, k)))
  BY TakenIs
<1>3. QED
  BY <1>1, <1>2 DEF Front

LEMMA LeafTakes ==
  ASSUME NEW n \in Nat, NEW c \in Calls(n), c.t[n].kind \notin Adaptors \cup {"chain"}
  PROVE  Takes(n, c, ReadLeaf(n, c))
<1> DEFINE r == c.t[n]
           h == Held(c.t)[n]
<1>s. /\ Streams = {"socket", "pipe", "windows_pipe"}
      /\ Adaptors = {"buf", "stdin", "take"} /\ Buffered = {"buf", "stdin"}
  BY DEF Streams, Adaptors, Buffered
<1>1. SUFFICES ASSUME c.k > 0, h # <<>>
               PROVE  Front(h, ReadLeaf(n, c), Held(ReadLeaf(n, c).t)[n])
  BY DEF Takes
<1>2. r \in Node /\ c.k \in Nat /\ c.t \in Having(n) /\ h \in Seq(Nat)
  BY CallFacts, HeldFacts
<1>3. Valid(n - 1, c, LeftFirst(c)) /\ LeftFirst(c).t = c.t
  BY NothingDone
<1>4. CASE r.kind = "slice"
  <2> DEFINE s == [r EXCEPT !.data = Rest(r.data, c.k)]
             u == With(c.t, n, s)
  <2>1. r \in [kind : {"slice"}, data : Seq(Nat)]
    BY <1>2, <1>4, NodeFacts
  <2>2. Rest(r.data, c.k) \in Seq(Nat) /\ Len(Rest(r.data, c.k)) <= Len(r.data)
    BY <1>2, <2>1, RestFacts
  <2>3. s \in [kind : {"slice"}, data : Seq(Nat)] /\ s.data = Rest(r.data, c.k)
    BY <2>1, <2>2
  <2>4. Became(r, s)
    BY <1>s, <1>4, <2>1, <2>2, <2>3 DEF Became, Node
  <2>5. ReadLeaf(n, c) = Outcome("ok", Prefix(r.data, c.k), u, c.w)
    BY <1>s, <1>4 DEF ReadLeaf, With
  <2>6. s.kind = "slice"
    BY <2>3
  <2> HIDE DEF s
  <2>7. u \in Having(n) /\ u[n] = s
    BY <1>3, <2>4, HeldSet
  <2> HIDE DEF u
  <2>8. h = r.data
    BY <1>2, <1>4, HeldFacts
  <2>9. Held(u)[n] = Rest(r.data, c.k)
    BY <2>3, <2>6, <2>7, HeldFacts
  <2>10. /\ ReadLeaf(n, c).how = "ok" /\ ReadLeaf(n, c).out = Prefix(h, c.k)
         /\ Held(ReadLeaf(n, c).t)[n] = Rest(h, c.k)
    BY <2>5, <2>8, <2>9 DEF Outcome
  <2> HIDE DEF h
  <2>11. QED
    BY <1>1, <1>2, <2>10, FrontIs
<1>5. CASE r.kind = "cursor"
  <2> DEFINE out == Prefix(h, c.k)
             s == [r EXCEPT !.pos = r.pos + Len(out)]
             u == With(c.t, n, s)
  <2>1. r \in [kind : {"cursor"}, data : Seq(Nat), pos : Nat]
    BY <1>2, <1>5, NodeFacts
  <2>2. h = Rest(r.data, r.pos)
    BY <1>2, <1>5, HeldFacts
  <2>3. out \in Seq(Nat)
    BY <1>2, PrefixFacts
  <2>4. ReadLeaf(n, c) = Outcome("ok", out, u, c.w)
    BY <1>s, <1>5, <2>2 DEF ReadLeaf, With
  <2> HIDE DEF out, h
  <2>l. Len(out) \in Nat
    BY <2>3
  <2>5. /\ s \in [kind : {"cursor"}, data : Seq(Nat), pos : Nat]
        /\ s.data = r.data /\ s.pos = r.pos + Len(out)
    BY <2>1, <2>l
  <2>6. Became(r, s)
    BY <1>s, <1>5, <2>1, <2>3, <2>5 DEF Became, Node
  <2>k. s.kind = "cursor"
    BY <2>5
  <2> HIDE DEF s
  <2>7. u \in Having(n) /\ u[n] = s
    BY <1>3, <2>6, HeldSet
  <2> HIDE DEF u
  <2>8. Held(u)[n] = Rest(r.data, r.pos + Len(out))
    BY <2>k, <2>5, <2>7, HeldFacts
  <2>9. Rest(r.data, r.pos + Len(out)) = Rest(Rest(r.data, r.pos), Len(out))
    <3>1. r.data \in Seq(Nat) /\ r.pos \in Nat
      BY <2>1
    <3>2. QED
      BY <2>l, <3>1, RestRest
  <2>10. out = Prefix(h, Len(out)) /\ out # <<>>
    BY <1>1, <1>2, TakenIs, PrefixFacts DEF out, h
  <2>11. /\ ReadLeaf(n, c).how = "ok" /\ ReadLeaf(n, c).out = out
         /\ Held(ReadLeaf(n, c).t)[n] = Rest(h, Len(out))
    BY <2>2, <2>4, <2>8, <2>9 DEF Outcome
  <2>12. Front(h, ReadLeaf(n, c), Held(ReadLeaf(n, c).t)[n])
    BY <2>10, <2>11 DEF Front
  <2>13. QED
    BY <2>12 DEF h
<1>6. CASE r.kind \notin {"slice", "cursor"}
  <2>1. h = <<>>
    BY <1>s, <1>2, <1>6, HeldFacts
  <2>2. QED
    BY <1>1, <2>1
<1>7. QED
  BY <1>4, <1>5, <1>6

TakesBelow(n) == \A m \in 1 .. n - 1 : \A c \in Calls(m) : Takes(m, c, Methods[m].read[c])

LEMMA InnerTakes ==
  ASSUME NEW n \in Nat, TakesBelow(n), NEW c \in Calls(n), NEW m \in 1 .. n - 1,
         NEW k \in Nat, k > 0, Held(c.t)[m] # <<>>,
         NEW o, o = Methods[m].read[[c EXCEPT !.k = k]]
  PROVE  Front(Held(c.t)[m], o, Held(o.t)[m])
<1> DEFINE d == [c EXCEPT !.k = k]
<1>1. m \in 1 .. Len(c.t)
  BY CallFacts
<1>2. d \in Calls(m) /\ d.k = k /\ d.t = c.t
  BY <1>1, CallInside
<1>3. o = Methods[m].read[d]
  OBVIOUS
<1> HIDE DEF d
<1>4. Takes(m, d, o)
  BY <1>2, <1>3 DEF TakesBelow
<1>5. QED
  BY <1>2, <1>4 DEF Takes

LEMMA BufTakes ==
  ASSUME NEW n \in Nat, NEW c \in Calls(n), c.t[n].kind \in Buffered
  PROVE  Takes(n, c, ReadBuf(Methods, n, c))
<1> DEFINE r == c.t[n]
           h == Held(c.t)[n]
           o == ReadBuf(Methods, n, c)
           b == Rest(r.buffer, c.k)
           s == [r EXCEPT !.buffer = b]
           u == With(c.t, n, s)
<1>1. SUFFICES ASSUME c.k > 0, h # <<>> PROVE Front(h, o, Held(o.t)[n])
  BY DEF Takes
<1>2. r \in Node /\ c.k \in Nat /\ c.t \in Having(n)
  BY CallFacts
<1>3. h = r.buffer
  BY <1>2, HeldFacts
<1>4. r.buffer \in Seq(Nat)
  BY <1>2, NodeFacts
<1>5. b \in Seq(Nat) /\ Len(b) <= Len(r.buffer)
  BY <1>2, <1>4, RestFacts
<1>6. o = Outcome("ok", Prefix(r.buffer, c.k), u, c.w)
  BY <1>1, <1>3, ReadBufHeld
<1> HIDE DEF b
<1>7. Became(r, s) /\ s.buffer = b
  BY <1>2, <1>5, BufBecomes
<1> HIDE DEF s
<1>8. s.kind \in Buffered
  BY <1>7 DEF Became
<1>9. Valid(n - 1, c, LeftFirst(c)) /\ LeftFirst(c).t = c.t
  BY NothingDone
<1>10. u \in Having(n) /\ u[n] = s
  BY <1>7, <1>9, HeldSet
<1> HIDE DEF u
<1>11. Held(u)[n] = b
  BY <1>7, <1>8, <1>10, HeldFacts
<1>12. o.how = "ok" /\ o.out = Prefix(h, c.k) /\ o.t = u
  BY <1>3, <1>6 DEF Outcome
<1>13. Held(o.t)[n] = Rest(h, c.k) /\ h \in Seq(Nat)
  BY <1>3, <1>4, <1>11, <1>12 DEF b
<1> HIDE DEF o, h
<1>14. QED
  BY <1>1, <1>2, <1>12, <1>13, FrontIs

LEMMA TakeTakes ==
  ASSUME NEW n \in Nat, TakesBelow(n), NEW c \in Calls(n), c.t[n].kind = "take"
  PROVE  Takes(n, c, ReadTake(Methods, n, c))
<1> DEFINE r == c.t[n]
           h == Held(c.t)[n]
           g == Held(c.t)[r.inner]
           k == Least(c.k, r.limit)
           o == Methods[r.inner].read[[c EXCEPT !.k = k]]
           j == Len(o.out)
           s == [r EXCEPT !.limit = r.limit - j]
           u == With(o.t, n, s)
           a == ReadTake(Methods, n, c)
<1>1. SUFFICES ASSUME c.k > 0, h # <<>> PROVE Front(h, a, Held(a.t)[n])
  BY DEF Takes
<1>2. r \in Node /\ c.k \in Nat /\ c.t \in Having(n)
  BY CallFacts
<1>3. g \in Seq(Nat) /\ h = Prefix(g, r.limit)
  BY <1>2, HeldFacts
<1>4. r.limit \in Nat /\ r.inner \in 1 .. n - 1
  BY <1>2, NodeFacts, InsideFacts DEF Adaptors
<1>5. r.limit # 0
  BY <1>1, <1>3, EmptyFacts
<1>6. g # <<>>
  BY <1>1, <1>3, <1>4, EmptyFacts
<1>7. k \in Nat /\ k > 0 /\ k <= r.limit
  BY <1>1, <1>2, <1>4, <1>5 DEF Least
<1>8. ReadsBelow(n)
  BY ReadsAreValid
<1>9. Valid(n - 1, c, o) /\ Len(o.out) <= k
  BY <1>4, <1>7, <1>8, InnerReadOf
<1>10. Front(g, o, Held(o.t)[r.inner])
  BY <1>4, <1>6, <1>7, InnerTakes
<1>11. a = Outcome(o.how, o.out, u, o.w)
  BY <1>5, <1>9, ReadTakeIs
<1> HIDE DEF k
<1> HIDE DEF o
<1>12. o.out \in Seq(Nat)
  BY <1>9, ValidKeeps
<1>13. j \in Nat /\ j <= r.limit /\ r.limit - j \in Nat
  BY <1>4, <1>7, <1>9, <1>12
<1> HIDE DEF j
<1>14. Became(r, s) /\ s.limit = r.limit - j
  BY <1>2, <1>13, TakeBecomes
<1> HIDE DEF s
<1>15. s.kind = "take" /\ s.inner = r.inner
  BY <1>14 DEF Became, Adaptors
<1>v. n \in Nat /\ c \in Calls(n) /\ Valid(n - 1, c, o) /\ Became(r, s)
  BY <1>9, <1>14
<1>x. \A m \in 1 .. n - 1 : Held(u)[m] = Held(o.t)[m]
  BY ONLY <1>v, HeldSet
<1>y. u \in Having(n)
  BY ONLY <1>v, HeldSet
<1>z. u[n] = s
  BY <1>v, HeldSet
<1>w. u \in Having(n) /\ u[n] = s /\ \A m \in 1 .. n - 1 : Held(u)[m] = Held(o.t)[m]
  BY <1>x, <1>y, <1>z
<1> HIDE DEF u
<1>16. u \in Having(n) /\ u[n] = s /\ Held(u)[r.inner] = Held(o.t)[r.inner]
  BY <1>4, <1>w
<1>17. Held(u)[n] = Prefix(Held(o.t)[r.inner], r.limit - j)
  BY <1>14, <1>15, <1>16, HeldFacts
<1>18. /\ o.how = "ok" /\ o.out # <<>> /\ o.out = Prefix(g, j)
       /\ Held(o.t)[r.inner] = Rest(g, j)
  BY <1>10 DEF Front, j
<1> HIDE DEF g
<1>19. Rest(Prefix(g, r.limit), j) = Prefix(Rest(g, j), r.limit - j)
  BY <1>3, <1>4, <1>13, RestOfPrefix
<1>20. Prefix(Prefix(g, r.limit), j) = Prefix(g, j)
  BY <1>3, <1>4, <1>13, PrefixPrefix
<1>21. a.how = o.how /\ a.out = o.out /\ a.t = u
  BY <1>11 DEF Outcome
<1>22. Len(a.out) = j
  BY <1>21 DEF j
<1> HIDE DEF a, h
<1>23. Held(a.t)[n] = Rest(h, j) /\ a.out = Prefix(h, j)
  BY <1>3, <1>17, <1>18, <1>19, <1>20, <1>21
<1>24. QED
  BY <1>18, <1>21, <1>22, <1>23 DEF Front

LEMMA ChainTakes ==
  ASSUME NEW n \in Nat, TakesBelow(n), NEW c \in Calls(n), c.t[n].kind = "chain"
  PROVE  Takes(n, c, ReadChain(Methods, n, c))
<1> DEFINE r == c.t[n]
           h == Held(c.t)[n]
           a == ReadChain(Methods, n, c)
<1>1. SUFFICES ASSUME c.k > 0, h # <<>> PROVE Front(h, a, Held(a.t)[n])
  BY DEF Takes
<1>2. /\ r \in Node /\ c.k \in Nat /\ c.t \in Having(n) /\ n \in 1 .. Len(c.t)
      /\ r.first \in 1 .. n - 1 /\ r.second \in 1 .. n - 1
  BY CallFacts, InsideFacts
<1>3. ReadsBelow(n)
  BY ReadsAreValid
<1>4. ASSUME NEW m \in 1 .. n - 1, Held(c.t)[m] # <<>>
      PROVE  Front(Held(c.t)[m], Methods[m].read[c], Held(Methods[m].read[c].t)[m])
  <2>1. m \in 1 .. Len(c.t)
    BY <1>2, CallFacts
  <2>2. c \in Calls(m)
    BY <1>2, <2>1, CallInside
  <2>3. Takes(m, c, Methods[m].read[c])
    BY <2>2 DEF TakesBelow
  <2>4. QED
    BY <1>1, <1>4, <2>3 DEF Takes
<1>5. CASE ~r.done_first
  <2> DEFINE m == r.first
             o == Methods[m].read[c]
  <2>1. h = Held(c.t)[m]
    BY <1>2, <1>5, HeldFacts
  <2>2. Front(h, o, Held(o.t)[m])
    BY <1>1, <1>2, <1>4, <2>1
  <2>3. Valid(n - 1, c, o)
    BY <1>2, <1>3, InnerRead
  <2>4. o.t \in Having(n) /\ o.t[n] = r
    BY <2>3, ValidKeeps
  <2>5. Held(o.t)[n] = Held(o.t)[m]
    BY <1>5, <2>4, HeldFacts
  <2>6. a = o
    <3>1. o.out # <<>>
      BY <2>2 DEF Front
    <3>2. \A two : Chained(n, o, two) = o
      BY <3>1 DEF Chained
    <3>3. QED
      BY <1>5, <3>2 DEF ReadChain
  <2>7. QED
    BY <2>2, <2>5, <2>6
<1>6. CASE r.done_first
  <2> DEFINE m == r.second
             o == Methods[m].read[c]
             s == [r EXCEPT !.done_first = TRUE]
             u == With(o.t, n, s)
  <2>1. h = Held(c.t)[m]
    BY <1>2, <1>6, HeldFacts
  <2>2. Front(h, o, Held(o.t)[m])
    BY <1>1, <1>2, <1>4, <2>1
  <2>3. Valid(n - 1, c, o)
    BY <1>2, <1>3, InnerRead
  <2>4. /\ LeftFirst(c).how = "ok" /\ LeftFirst(c).out = <<>> /\ After(c, LeftFirst(c)) = c
    <3>1. n \in 0 .. n
      OBVIOUS
    <3>2. QED
      BY <3>1, NothingDone, LeftFirstIsValid
  <2>5. a = Chained(n, LeftFirst(c), o)
    BY <1>6, <2>4 DEF ReadChain
  <2>6. a = Outcome(o.how, o.out, u, o.w)
    BY <2>3, <2>4, <2>5, ChainedIs
  <2> HIDE DEF o
  <2>7. Became(r, s) /\ s.done_first = TRUE
    BY <1>2, ChainBecomes
  <2> HIDE DEF s
  <2>8. s.kind = "chain" /\ s.second = r.second
    BY <2>7 DEF Became
  <2>v. Valid(n - 1, c, o) /\ Became(r, s)
    BY <2>3, <2>7
  <2>x. \A i \in 1 .. n - 1 : Held(u)[i] = Held(o.t)[i]
    BY <2>v, HeldSet
  <2>y. u \in Having(n)
    BY <2>v, HeldSet
  <2>z. u[n] = s
    BY <2>v, HeldSet
  <2>w. u \in Having(n) /\ u[n] = s /\ \A i \in 1 .. n - 1 : Held(u)[i] = Held(o.t)[i]
    BY <2>x, <2>y, <2>z
  <2> HIDE DEF u
  <2>9. u \in Having(n) /\ u[n] = s /\ Held(u)[m] = Held(o.t)[m]
    BY <1>2, <2>w
  <2>10. Held(u)[n] = Held(o.t)[m]
    BY <2>7, <2>8, <2>9, HeldFacts
  <2>11. a.how = o.how /\ a.out = o.out /\ a.t = u
    BY <2>6 DEF Outcome
  <2> HIDE DEF a, h
  <2>12. QED
    BY <2>2, <2>10, <2>11 DEF Front
<1>7. QED
  BY <1>5, <1>6

\* Every read returns the front of what the reader holds, and keeps the rest.
LEMMA ReadTakesFront == \A n \in Nat : \A c \in Calls(n) : Takes(n, c, Methods[n].read[c])
<1> DEFINE T == {n \in Nat : \E c \in Calls(n) : ~Takes(n, c, Methods[n].read[c])}
<1>1. SUFFICES ASSUME T # {} PROVE FALSE
  OBVIOUS
<1>2. PICK n \in T : \A m \in T : ~(m < n)
  BY <1>1, LeastNumber
<1>3. n \in Nat /\ TakesBelow(n)
  BY <1>2 DEF TakesBelow
<1>4. PICK c \in Calls(n) : ~Takes(n, c, Methods[n].read[c])
  BY <1>2
<1>5. Methods[n].read[c] = ReadFrom(Methods, n, c)
  BY <1>3, MethodsFacts
<1>s. Adaptors = {"buf", "stdin", "take"} /\ Buffered = {"buf", "stdin"}
  BY DEF Adaptors, Buffered
<1>6. Takes(n, c, ReadFrom(Methods, n, c))
  <2>1. CASE c.t[n].kind \in Buffered
    <3>1. ReadFrom(Methods, n, c) = ReadBuf(Methods, n, c)
      BY <1>s, <2>1 DEF ReadFrom
    <3>2. QED
      BY <1>3, <2>1, <3>1, BufTakes
  <2>2. CASE c.t[n].kind = "take"
    <3>1. ReadFrom(Methods, n, c) = ReadTake(Methods, n, c)
      BY <1>s, <2>2 DEF ReadFrom
    <3>2. QED
      BY <1>3, <2>2, <3>1, TakeTakes
  <2>3. CASE c.t[n].kind = "chain"
    <3>1. ReadFrom(Methods, n, c) = ReadChain(Methods, n, c)
      BY <1>s, <2>3 DEF ReadFrom
    <3>2. QED
      BY <1>3, <2>3, <3>1, ChainTakes
  <2>4. CASE c.t[n].kind \notin Adaptors \cup {"chain"}
    <3>1. /\ c.t[n].kind \notin Buffered /\ c.t[n].kind # "take"
          /\ c.t[n].kind # "chain"
      BY <1>s, <2>4
    <3>2. ReadFrom(Methods, n, c) = ReadLeaf(n, c)
      BY <3>1 DEF ReadFrom
    <3>3. QED
      BY <1>3, <2>4, <3>2, LeafTakes
  <2>5. QED
    BY <1>s, <2>1, <2>2, <2>3, <2>4
<1>7. QED
  BY <1>4, <1>5, <1>6

-----------------------------------------------------------------------------
(***************************************************************************)
(* fill_buf shows what readers hold, after filling those that hold nothing *)
(***************************************************************************)

FillShows(n, c, o) ==
  /\ o.how = "ok" => Held(o.t)[n] = o.out
  /\ Held(c.t)[n] # <<>> => o.how = "ok" /\ o.out = Held(c.t)[n]

FillsShow(n, s) ==
  \A m \in s \cap 1 .. n - 1 : \A c \in Calls(m) :
    BufReads(s, c.t) => FillShows(m, c, Methods[m].fill_buf[c])

LEMMA FillReaderShows ==
  ASSUME NEW n \in Nat, NEW c \in Calls(n), c.t[n].kind \in Buffered
  PROVE  FillShows(n, c, FillReader(Methods, n, c))
<1> DEFINE r == c.t[n]
           a == FillReader(Methods, n, c)
<1>1. r \in Node /\ c.t \in Having(n)
  BY CallFacts
<1>2. Held(c.t)[n] = r.buffer
  BY <1>1, HeldFacts
<1>3. CASE r.buffer # <<>>
  <2>1. a = Outcome("ok", r.buffer, c.t, c.w)
    BY <1>3 DEF FillReader
  <2>2. a.how = "ok" /\ a.out = r.buffer /\ a.t = c.t
    BY <2>1 DEF Outcome
  <2>3. QED
    BY <1>2, <2>2 DEF FillShows
<1>4. CASE r.buffer = <<>>
  <2> DEFINE o == Methods[r.inner].read[[c EXCEPT !.k = r.cap]]
             s == [r EXCEPT !.buffer = o.out]
             u == With(o.t, n, s)
  <2>1. r.inner \in 1 .. n - 1 /\ r.cap \in Nat
    BY <1>1, InsideFacts, NodeFacts DEF Adaptors
  <2>2. ReadsBelow(n)
    BY ReadsAreValid
  <2>3. Valid(n - 1, c, o) /\ Len(o.out) <= r.cap
    BY <2>1, <2>2, InnerReadOf
  <2>4. a = Outcome(o.how, o.out, u, o.w)
    BY <1>4, <2>3, FillReaderIs
  <2> HIDE DEF o
  <2>5. o.out \in Seq(Nat)
    BY <2>3, ValidKeeps
  <2>6. Became(r, s) /\ s.buffer = o.out
    BY <1>1, <2>3, <2>5, BufBecomes
  <2> HIDE DEF s
  <2>7. s.kind \in Buffered
    BY <2>6 DEF Became
  <2>i. n \in Nat /\ c \in Calls(n) /\ Valid(n - 1, c, o) /\ Became(r, s)
    BY <1>1, <2>3, <2>6
  <2>8. u \in Having(n)
    BY ONLY <2>i, HeldSet
  <2>9. u[n] = s
    BY ONLY <2>i, HeldSet
  <2> HIDE DEF u
  <2>10. Held(u)[n] = o.out
    BY <2>6, <2>7, <2>8, <2>9, HeldFacts
  <2>11. a.how = o.how /\ a.out = o.out /\ a.t = u
    BY <2>4 DEF Outcome
  <2> HIDE DEF a
  <2>12. FillShows(n, c, a)
    BY <1>2, <1>4, <2>10, <2>11 DEF FillShows
  <2>13. QED
    BY <2>12 DEF a
<1>5. QED
  BY <1>3, <1>4

LEMMA InnerShows ==
  ASSUME NEW n \in Nat, NEW s, FillsShow(n, s), NEW c \in Calls(n), BufReads(s, c.t),
         NEW m \in s \cap 1 .. n - 1
  PROVE  FillShows(m, c, Methods[m].fill_buf[c])
<1>1. m \in 1 .. Len(c.t) /\ c.k \in Nat
  BY CallFacts
<1>2. c \in Calls(m)
  BY <1>1, CallInside
<1>3. QED
  BY <1>2 DEF FillsShow

LEMMA FillTakeShows ==
  ASSUME NEW n \in Nat, NEW s, FillsBelow(n, s), FillsShow(n, s),
         NEW c \in Calls(n), BufReads(s, c.t), c.t[n].kind = "take", c.t[n].inner \in s
  PROVE  FillShows(n, c, FillTake(Methods, n, c))
<1> DEFINE r == c.t[n]
           g == Held(c.t)[r.inner]
           a == FillTake(Methods, n, c)
<1>1. r \in Node /\ c.t \in Having(n)
  BY CallFacts
<1>2. r.limit \in Nat /\ r.inner \in s \cap 1 .. n - 1
  BY <1>1, NodeFacts, InsideFacts DEF Adaptors
<1>3. g \in Seq(Nat) /\ Held(c.t)[n] = Prefix(g, r.limit)
  BY <1>1, HeldFacts
<1>4. CASE r.limit = 0
  <2>1. a = Outcome("ok", <<>>, c.t, c.w)
    BY <1>4 DEF FillTake
  <2>2. a.how = "ok" /\ a.out = <<>> /\ a.t = c.t
    BY <2>1 DEF Outcome
  <2>3. Held(c.t)[n] = <<>>
    BY <1>3, <1>4, EmptyFacts
  <2>4. QED
    BY <2>2, <2>3 DEF FillShows
<1>5. CASE r.limit # 0
  <2> DEFINE o == Methods[r.inner].fill_buf[c]
  <2>1. Valid(n - 1, c, o) /\ FillShows(r.inner, c, o)
    BY <1>2, InnerFill, InnerShows
  <2>2. o \in Outcomes
    BY <2>1 DEF Valid
  <2>3. a = Outcome(o.how, Prefix(o.out, r.limit), o.t, o.w)
    BY <1>5, <2>2, FillTakeIs
  <2> HIDE DEF o
  <2>4. o.t \in Having(n) /\ o.t[n] = r
    BY <2>1, ValidKeeps
  <2>5. Held(o.t)[n] = Prefix(Held(o.t)[r.inner], r.limit)
    BY <2>4, HeldFacts
  <2>6. a.how = o.how /\ a.out = Prefix(o.out, r.limit) /\ a.t = o.t
    BY <2>3 DEF Outcome
  <2> HIDE DEF a
  <2>7. o.how = "ok" => Held(o.t)[n] = Prefix(o.out, r.limit)
    BY <2>1, <2>5 DEF FillShows
  <2>8. Held(c.t)[n] # <<>> => g # <<>>
    BY <1>2, <1>3, EmptyFacts
  <2>9. Held(c.t)[n] # <<>> => o.how = "ok" /\ Prefix(o.out, r.limit) = Held(c.t)[n]
    BY <1>3, <2>1, <2>8 DEF FillShows
  <2>10. FillShows(n, c, a)
    BY <2>6, <2>7, <2>9 DEF FillShows
  <2>11. QED
    BY <2>10 DEF a
<1>6. QED
  BY <1>4, <1>5

\* A Chain whose first reader is at its end shows what the second holds.
\* The n-th reader is a Chain whose first reader is at its end, with outcome
\* one: two is the outcome of the second, a that of the Chain.
GoesOn(n, s, c, one, two, a) ==
  /\ FillsBelow(n, s) /\ FillsShow(n, s) /\ BufReads(s, c.t)
  /\ c.t[n].kind = "chain" /\ c.t[n].second \in s
  /\ Valid(n - 1, c, one) /\ one.how = "ok" /\ one.out = <<>>
  /\ two = Methods[c.t[n].second].fill_buf[After(c, one)]
  /\ a = Chained(n, one, two)

LEMMA SecondShows ==
  ASSUME NEW n \in Nat, NEW c \in Calls(n), NEW s, NEW one, NEW two, NEW a,
         GoesOn(n, s, c, one, two, a)
  PROVE  /\ FillShows(c.t[n].second, After(c, one), two)
         /\ a.how = two.how /\ a.out = two.out
         /\ a.how = "ok" => Held(a.t)[n] = a.out
<1>0. /\ FillsBelow(n, s) /\ FillsShow(n, s) /\ BufReads(s, c.t)
      /\ c.t[n].kind = "chain" /\ c.t[n].second \in s
      /\ Valid(n - 1, c, one) /\ one.how = "ok" /\ one.out = <<>>
      /\ two = Methods[c.t[n].second].fill_buf[After(c, one)]
      /\ a = Chained(n, one, two)
  BY DEF GoesOn
<1> USE <1>0
<1> DEFINE r == c.t[n]
           m == r.second
           d == After(c, one)
           q == [r EXCEPT !.done_first = TRUE]
           u == With(two.t, n, q)
<1>1. /\ r \in Node /\ c.t \in Having(n) /\ n \in 1 .. Len(c.t)
      /\ m \in s \cap 1 .. n - 1 /\ c.t \in Readers
  BY CallFacts, InsideFacts
<1>2. one \in Outcomes /\ Later(c.t, one.t) /\ one.t \in Readers
  BY DEF Valid, Outcomes
<1>3. d \in Calls(n) /\ d.t = one.t
  BY <1>1, <1>2, CallAfter
<1>4. BufReads(s, d.t)
  BY <1>1, <1>2, <1>3, BufReadsLater
<1>5. Valid(n - 1, c, two)
  BY SecondFill
<1>6. a = Outcome(two.how, two.out, u, two.w)
  BY <1>5, ChainedIs
<1> HIDE DEF d
<1>7. FillShows(m, d, Methods[m].fill_buf[d])
  BY <1>1, <1>3, <1>4, InnerShows
<1>8. FillShows(m, d, two)
  BY <1>7 DEF d
<1>9. Became(r, q)
  BY <1>1, ChainBecomes
<1>10. q.done_first = TRUE
  BY <1>1, ChainBecomes
<1> HIDE DEF q
<1>11. q.kind = "chain" /\ q.second = m
  BY <1>9 DEF Became
<1>12. /\ u \in Having(n) /\ u[n] = q
       /\ \A i \in 1 .. n - 1 : Held(u)[i] = Held(two.t)[i]
  <2>1. n \in Nat /\ c \in Calls(n)
    OBVIOUS
  <2>2. u \in Having(n)
    BY ONLY <2>1, <1>5, <1>9, HeldSet
  <2>3. u[n] = q
    BY ONLY <2>1, <1>5, <1>9, HeldSet
  <2>4. \A i \in 1 .. n - 1 : Held(u)[i] = Held(two.t)[i]
    BY ONLY <2>1, <1>5, <1>9, HeldSet
  <2>5. QED
    BY <2>2, <2>3, <2>4
<1> HIDE DEF u
<1>13. Held(u)[m] = Held(two.t)[m]
  BY <1>1, <1>12
<1>14. Held(u)[n] = Held(u)[m]
  <2>1. u \in Having(n) /\ u[n].kind = "chain" /\ u[n].done_first /\ u[n].second = m
    BY <1>10, <1>11, <1>12
  <2> HIDE DEF m
  <2>2. QED
    BY ONLY <2>1, HeldFacts
<1>15. Held(u)[n] = Held(two.t)[m]
  BY <1>13, <1>14
<1>16. a.how = two.how /\ a.out = two.out /\ a.t = u
  BY ONLY <1>6 DEF Outcome
<1>17. a.how = "ok" => Held(a.t)[n] = a.out
  BY <1>8, <1>15, <1>16 DEF FillShows
<1>18. FillShows(r.second, After(c, one), two)
  BY <1>8 DEF d
<1>19. QED
  BY <1>16, <1>17, <1>18

LEMMA FillChainShows ==
  ASSUME NEW n \in Nat, NEW s, FillsBelow(n, s), FillsShow(n, s),
         NEW c \in Calls(n), BufReads(s, c.t), c.t[n].kind = "chain",
         c.t[n].first \in s /\ c.t[n].second \in s
  PROVE  FillShows(n, c, FillChain(Methods, n, c))
<1> DEFINE r == c.t[n]
           one == IF r.done_first THEN LeftFirst(c) ELSE Methods[r.first].fill_buf[c]
           two == Methods[r.second].fill_buf[After(c, one)]
           a == FillChain(Methods, n, c)
<1>1. /\ c.t \in Having(n) /\ n \in 0 .. n
      /\ r.first \in s \cap 1 .. n - 1 /\ r.second \in 1 .. n - 1
  BY CallFacts, InsideFacts
<1>2. a = Chained(n, one, two)
  BY DEF FillChain
<1>c. Valid(n - 1, c, one) /\ one.how = "ok" /\ one.out = <<>> => GoesOn(n, s, c, one, two, a)
  BY <1>2 DEF GoesOn
<1> SUFFICES FillShows(n, c, a)
  OBVIOUS
<1> HIDE DEF a, two
<1>3. CASE ~r.done_first
  <2> DEFINE o == Methods[r.first].fill_buf[c]
  <2>1. one = o
    BY <1>3
  <2>2. Valid(n - 1, c, o) /\ FillShows(r.first, c, o)
    BY <1>1, InnerFill, InnerShows
  <2>3. Held(c.t)[n] = Held(c.t)[r.first]
    BY <1>1, <1>3, HeldFacts
  <2>4. CASE o.how = "ok" /\ o.out = <<>>
    <3>1. one.how = "ok" /\ one.out = <<>> /\ Valid(n - 1, c, one)
      BY <2>1, <2>2, <2>4
    <3> HIDE DEF one
    <3>2. a.how = "ok" => Held(a.t)[n] = a.out
      BY <1>c, <3>1, SecondShows
    <3>3. Held(c.t)[n] = <<>>
      BY <2>2, <2>3, <2>4 DEF FillShows
    <3>4. QED
      BY <3>2, <3>3 DEF FillShows
  <2>5. CASE ~(o.how = "ok" /\ o.out = <<>>)
    <3>1. a = o
      BY <1>2, <2>1, <2>5 DEF Chained
    <3>2. o.t \in Having(n) /\ o.t[n] = r
      BY <2>2, ValidKeeps
    <3>3. Held(o.t)[n] = Held(o.t)[r.first]
      BY <1>3, <3>2, HeldFacts
    <3>4. FillShows(n, c, o)
      BY <2>2, <2>3, <3>3 DEF FillShows
    <3>5. QED
      BY <3>1, <3>4
  <2>6. QED
    BY <2>4, <2>5
<1>4. CASE r.done_first
  <2>1. one = LeftFirst(c)
    BY <1>4
  <2>2. one.how = "ok" /\ one.out = <<>> /\ Valid(n - 1, c, one)
    BY <2>1, NothingDone
  <2>3. After(c, one) = c
    BY <1>1, <2>1, LeftFirstIsValid
  <2> HIDE DEF one
  <2>4. a.how = "ok" => Held(a.t)[n] = a.out
    BY <1>c, <2>2, SecondShows
  <2>5. FillShows(r.second, After(c, one), two)
    BY <1>c, <2>2, SecondShows
  <2>6. a.how = two.how /\ a.out = two.out
    BY <1>c, <2>2, SecondShows
  <2>7. Held(c.t)[n] = Held(c.t)[r.second]
    BY <1>1, <1>4, HeldFacts
  <2>8. QED
    BY <2>3, <2>4, <2>5, <2>6, <2>7 DEF FillShows
<1>5. QED
  BY <1>3, <1>4

LEMMA FillBufShows ==
  ASSUME NEW n \in Nat, NEW s, n \in s, FillsBelow(n, s), FillsShow(n, s),
         NEW c \in Calls(n), BufReads(s, c.t)
  PROVE  FillShows(n, c, FillBuf(Methods, n, c))
<1> DEFINE r == c.t[n]
           a == FillBuf(Methods, n, c)
<1>s. Adaptors = {"buf", "stdin", "take"} /\ Buffered = {"buf", "stdin"}
  BY DEF Adaptors, Buffered
<1>1. /\ c.t \in Having(n)
      /\ \/ r.kind \in {"slice", "cursor", "empty"} \cup Buffered
         \/ r.kind \in {"take", "chain"} /\ Inside(r) \subseteq s
  BY CallFacts DEF BufReads
<1>2. CASE r.kind \in {"slice", "cursor", "empty"}
  <2>1. a = Outcome("ok", Held(c.t)[n], c.t, c.w)
    <3>1. CASE r.kind = "slice"
      <4>1. Held(c.t)[n] = r.data
        BY <1>1, <3>1, HeldFacts
      <4>2. QED
        BY <1>s, <3>1, <4>1 DEF FillBuf
    <3>2. CASE r.kind = "cursor"
      <4>1. Held(c.t)[n] = Rest(r.data, r.pos)
        BY <1>1, <3>2, HeldFacts
      <4>2. QED
        BY <1>s, <3>2, <4>1 DEF FillBuf
    <3>3. CASE r.kind = "empty"
      <4>1. Held(c.t)[n] = <<>>
        BY <1>s, <1>1, <3>3, HeldFacts
      <4>2. QED
        BY <1>s, <3>3, <4>1 DEF FillBuf
    <3>4. QED
      BY <1>2, <3>1, <3>2, <3>3
  <2>2. a.how = "ok" /\ a.out = Held(c.t)[n] /\ a.t = c.t
    BY <2>1 DEF Outcome
  <2>3. QED
    BY <2>2 DEF FillShows
<1>3. CASE r.kind \in Buffered
  <2>1. a = FillReader(Methods, n, c)
    BY <1>s, <1>3 DEF FillBuf
  <2>2. QED
    BY <1>3, <2>1, FillReaderShows
<1>4. CASE r.kind = "take"
  <2>1. a = FillTake(Methods, n, c)
    BY <1>s, <1>4 DEF FillBuf
  <2>2. r.inner \in s
    BY <1>s, <1>1, <1>4 DEF Inside
  <2>3. QED
    BY <1>4, <2>1, <2>2, FillTakeShows
<1>5. CASE r.kind = "chain"
  <2>1. a = FillChain(Methods, n, c)
    BY <1>s, <1>5 DEF FillBuf
  <2>2. r.first \in s /\ r.second \in s
    BY <1>s, <1>1, <1>5 DEF Inside
  <2>3. QED
    BY <1>5, <2>1, <2>2, FillChainShows
<1>6. QED
  BY <1>1, <1>2, <1>3, <1>4, <1>5

\* fill_buf shows what the reader then holds, and what it held if it did.
LEMMA FillShowsHeld ==
  ASSUME NEW s
  PROVE  \A n \in Nat \cap s : \A c \in Calls(n) :
           BufReads(s, c.t) => FillShows(n, c, Methods[n].fill_buf[c])
<1> DEFINE T == {n \in Nat \cap s : \E c \in Calls(n) :
                   BufReads(s, c.t) /\ ~FillShows(n, c, Methods[n].fill_buf[c])}
<1>1. SUFFICES ASSUME T # {} PROVE FALSE
  OBVIOUS
<1>2. T \subseteq Nat
  OBVIOUS
<1>3. PICK n \in T : \A m \in T : ~(m < n)
  BY <1>1, <1>2, LeastNumber
<1>4. n \in Nat /\ n \in s /\ FillsShow(n, s)
  BY <1>3 DEF FillsShow
<1>5. FillsBelow(n, s)
  BY FillIsValid DEF FillsBelow
<1>6. PICK c \in Calls(n) : BufReads(s, c.t) /\ ~FillShows(n, c, Methods[n].fill_buf[c])
  BY <1>3
<1>7. Methods[n].fill_buf[c] = FillBuf(Methods, n, c)
  BY <1>4, MethodsFacts
<1>8. FillShows(n, c, FillBuf(Methods, n, c))
  BY <1>4, <1>5, <1>6, FillBufShows
<1>9. QED
  BY <1>6, <1>7, <1>8

-----------------------------------------------------------------------------
(***************************************************************************)
(* What the next reads of a reader return                                  *)
(***************************************************************************)

\* The bytes the reads of t will return, for all that is known when the kernel
\* is in w: what the last reader holds, or the kernel does for it.
Source(t, w) ==
  LET r == t[Len(t)] IN
  CASE r.kind \in Streams -> w.stream
    [] r.kind = "file" -> IF r.readable THEN Rest(w.file, w.pos) ELSE <<>>
    [] OTHER -> Held(t)[Len(t)]

\* Bytes s are the next ones; those of Repeat are zeros without end.
Shown(s, t, w) ==
  IF t[Len(t)].kind = "repeat"
  THEN \A i \in DOMAIN s : s[i] = Zero
  ELSE s = Prefix(Source(t, w), Len(s))

LEMMA SourceIsSeq ==
  ASSUME NEW t \in Readers, t # <<>>, NEW w \in Kernel
  PROVE  Source(t, w) \in Seq(Nat)
<1> DEFINE n == Len(t)
           r == t[n]
<1>s. Streams = {"socket", "pipe", "windows_pipe"}
  BY DEF Streams
<1>1. w.stream \in Seq(Nat) /\ w.file \in Seq(Nat) /\ w.pos \in Nat /\ n \in DOMAIN t
  BY DEF Kernel, Readers
<1>2. Rest(w.file, w.pos) \in Seq(Nat) /\ <<>> \in Seq(Nat)
  BY <1>1, RestFacts
<1>3. Held(t)[n] \in Seq(Nat)
  BY <1>1, HeldIsSeq
<1>4. \/ Source(t, w) = w.stream \/ Source(t, w) = Rest(w.file, w.pos)
      \/ Source(t, w) = <<>> \/ Source(t, w) = Held(t)[n]
  BY <1>s DEF Source
<1>5. QED
  BY <1>1, <1>2, <1>3, <1>4

LEMMA NothingShown == \A t \in Readers, w \in Kernel : t # <<>> => Shown(<<>>, t, w)
<1>1. SUFFICES ASSUME NEW t \in Readers, NEW w \in Kernel, t # <<>> PROVE Shown(<<>>, t, w)
  OBVIOUS
<1>2. Source(t, w) \in Seq(Nat)
  BY <1>1, SourceIsSeq
<1>3. Prefix(Source(t, w), Len(<<>>)) = <<>>
  BY <1>2, EmptyFacts
<1>4. QED
  BY <1>3 DEF Shown

\* A read leaves what it did not take.
LEMMA ShownFront ==
  ASSUME NEW s \in Seq(Nat), NEW h \in Seq(Nat), s = Prefix(h, Len(s)),
         NEW o, o.out \in Seq(Nat), NEW g \in Seq(Nat), Front(h, o, g)
  PROVE  /\ Rest(s, Len(o.out)) = Prefix(g, Len(Rest(s, Len(o.out))))
         /\ LET k == Least(Len(s), Len(o.out)) IN Prefix(s, k) = Prefix(o.out, k)
<1> DEFINE l == Len(s)
           j == Len(o.out)
           k == Least(l, j)
<1>1. l \in Nat /\ j \in Nat
  OBVIOUS
<1>2. o.out = Prefix(h, j) /\ g = Rest(h, j) /\ s = Prefix(h, l)
  BY DEF Front
<1>3. Rest(s, j) \in Seq(Nat) /\ Len(Rest(s, j)) = Left(l, j)
  BY <1>1, RestIs
<1> HIDE DEF l, j
<1>4. k \in Nat /\ k <= l /\ k <= j
  BY <1>1 DEF Least
<1>5. Rest(s, j) = Prefix(g, Len(Rest(s, j)))
  <2>1. CASE j <= l
    <3>1. Rest(Prefix(h, l), j) = Prefix(Rest(h, j), l - j)
      BY <1>1, <2>1, RestOfPrefix
    <3>2. Left(l, j) = l - j
      BY <2>1 DEF Left
    <3>3. QED
      BY <1>2, <1>3, <3>1, <3>2
  <2>2. CASE ~(j <= l)
    <3>1. Left(l, j) = 0
      BY <1>1, <2>2 DEF Left
    <3>2. Rest(s, j) = <<>> /\ Len(Rest(s, j)) = 0
      BY <1>3, <3>1
    <3>3. Prefix(g, 0) = <<>>
      BY EmptyFacts
    <3>4. QED
      BY <3>2, <3>3
  <2>3. QED
    BY <2>1, <2>2
<1> HIDE DEF k
<1>6. Prefix(Prefix(h, l), k) = Prefix(h, k) /\ Prefix(Prefix(h, j), k) = Prefix(h, k)
  BY <1>1, <1>4, PrefixPrefix
<1>7. Prefix(s, k) = Prefix(o.out, k)
  BY <1>2, <1>6
<1>8. QED
  BY <1>5, <1>7 DEF k, l, j

\* The outcome of a call keeps the kind of the last reader.
LEMMA KindKept ==
  ASSUME NEW t \in Readers, t # <<>>, NEW u \in Readers, Later(t, u)
  PROVE  Len(u) = Len(t) /\ Len(t) \in 1 .. Len(t) /\ u[Len(t)].kind = t[Len(t)].kind
<1>1. Len(t) \in 1 .. Len(t) /\ Len(u) = Len(t)
  BY DEF Readers, Later
<1>2. Became(t[Len(t)], u[Len(t)])
  BY <1>1 DEF Later
<1>3. QED
  BY <1>1, <1>2 DEF Became

\* Reads return the front of the source of a reader.
LEMMA SourceTakes ==
  ASSUME NEW t \in Readers, t # <<>>, NEW n, n = Len(t), t[n].kind # "repeat",
         NEW c \in Calls(n), c.t = t, c.k > 0, Source(t, c.w) # <<>>,
         NEW o, o = Methods[n].read[c]
  PROVE  Front(Source(t, c.w), o, Source(o.t, o.w))
<1> DEFINE r == t[n]
<1>s. /\ Streams = {"socket", "pipe", "windows_pipe"}
      /\ Adaptors = {"buf", "stdin", "take"} /\ Buffered = {"buf", "stdin"}
  BY DEF Streams, Adaptors, Buffered
<1>1. n \in Nat /\ c.k \in Nat /\ c.w \in Kernel
  BY CallFacts DEF Readers
<1>2. c.w.stream \in Seq(Nat) /\ c.w.file \in Seq(Nat) /\ c.w.pos \in Nat
  BY <1>1 DEF Kernel
<1>3. r.kind \in Streams \cup {"file"} => o = ReadLeaf(n, c)
  <2>1. HAVE r.kind \in Streams \cup {"file"}
  <2>2. o = ReadFrom(Methods, n, c)
    BY <1>1, MethodsFacts
  <2>3. ReadFrom(Methods, n, c) = ReadLeaf(n, c)
    BY <1>s, <2>1 DEF ReadFrom
  <2>4. QED
    BY <2>2, <2>3
<1>4. CASE r.kind \in Streams
  <2> DEFINE h == c.w.stream
             w == [c.w EXCEPT !.stream = Rest(h, c.k)]
  <2>1. Source(t, c.w) = h
    BY <1>s, <1>4 DEF Source
  <2>2. o = Outcome("ok", Prefix(h, c.k), t, w)
    BY <1>s, <1>3, <1>4, <2>1 DEF ReadLeaf
  <2>3. w.stream = Rest(h, c.k)
    BY <1>1 DEF Kernel
  <2> HIDE DEF w
  <2>4. o.how = "ok" /\ o.out = Prefix(h, c.k) /\ o.t = t /\ o.w = w
    BY <2>2 DEF Outcome
  <2>5. Source(t, w) = Rest(h, c.k)
    BY <1>s, <1>4, <2>3 DEF Source
  <2>6. Source(o.t, o.w) = Rest(h, c.k) /\ h # <<>>
    BY <2>1, <2>4, <2>5
  <2>7. Front(h, o, Source(o.t, o.w))
    BY <1>1, <1>2, <2>4, <2>6, FrontIs
  <2>8. QED
    BY <2>1, <2>7
<1>5. CASE r.kind = "file"
  <2> DEFINE h == Rest(c.w.file, c.w.pos)
             out == Prefix(h, c.k)
             w == [c.w EXCEPT !.pos = c.w.pos + Len(out)]
  <2>1. Source(t, c.w) = IF r.readable THEN h ELSE <<>>
    BY <1>s, <1>5 DEF Source
  <2>2. r.readable /\ Source(t, c.w) = h
    BY <2>1
  <2>3. o = Outcome("ok", out, t, w)
    BY <1>s, <1>3, <1>5, <2>2 DEF ReadLeaf, FileBytes
  <2>4. w.file = c.w.file /\ w.pos = c.w.pos + Len(out)
    BY <1>1 DEF Kernel
  <2> HIDE DEF w
  <2>5. o.how = "ok" /\ o.out = out /\ o.t = t /\ o.w = w
    BY <2>3 DEF Outcome
  <2>6. Source(t, w) = Rest(c.w.file, c.w.pos + Len(out))
    BY <1>s, <1>5, <2>2, <2>4 DEF Source
  <2>7. h \in Seq(Nat) /\ h # <<>>
    BY <1>2, <2>2, RestFacts
  <2> HIDE DEF h
  <2>8. out \in Seq(Nat) /\ out # <<>> /\ out = Prefix(h, Len(out))
    BY <1>1, <2>7, PrefixFacts, TakenIs
  <2> HIDE DEF out
  <2>9. Len(out) \in Nat
    BY <2>8
  <2>10. Rest(h, Len(out)) = Rest(c.w.file, c.w.pos + Len(out))
    BY <1>2, <2>9, RestRest DEF h
  <2>11. Front(h, o, Source(o.t, o.w))
    BY <2>5, <2>6, <2>8, <2>10 DEF Front
  <2>12. QED
    BY <2>2, <2>11
<1>6. CASE r.kind \notin Streams \cup {"file"}
  <2>1. Source(t, c.w) = Held(t)[n]
    BY <1>s, <1>6 DEF Source
  <2>2. Front(Held(t)[n], o, Held(o.t)[n])
    BY <1>1, <2>1, ReadTakesFront DEF Takes
  <2>3. Valid(n, c, o)
    BY <1>1, ReadIsValid DEF ValidRead
  <2>4. o.t \in Readers /\ Later(t, o.t)
    BY <2>3 DEF Valid, Outcomes
  <2>5. Len(o.t) = n /\ o.t[n].kind = r.kind
    BY <2>4, KindKept
  <2>6. Source(o.t, o.w) = Held(o.t)[n]
    BY <1>s, <1>6, <2>5 DEF Source
  <2>7. QED
    BY <2>1, <2>2, <2>6
<1>7. QED
  BY <1>4, <1>5, <1>6

-----------------------------------------------------------------------------
(***************************************************************************)
(* Peeked bytes stay the next ones                                         *)
(***************************************************************************)

\* The bytes peeked and not yet read are the next ones, and a peek at a file
\* goes on where the file is, until another user comes.
SInv ==
  /\ RInv
  /\ peeked \in Seq(Nat) /\ Shown(peeked, reader, world)
  /\ pc = "seek" =>
       /\ reader[Len(reader)].kind = "file" /\ want \in Sizes
       /\ disturbed \/ saved = world.pos

LEMMA InvFacts ==
  ASSUME SInv
  PROVE  /\ reader \in Readers /\ reader # <<>> /\ world \in Kernel
         /\ Len(reader) \in Nat /\ reader \in Having(Len(reader))
         /\ peeked \in Seq(Nat) /\ Shown(peeked, reader, world)
         /\ Source(reader, world) \in Seq(Nat)
<1>1. reader \in Readers /\ reader # <<>> /\ world \in Kernel
  BY DEF SInv, RInv, Good
<1>2. Len(reader) \in Nat /\ reader \in Having(Len(reader))
  BY GoodFacts DEF SInv, RInv
<1>3. QED
  BY <1>1, <1>2, SourceIsSeq DEF SInv

\* What a step has to leave, besides RInv.
LEMMA SInvAfter ==
  ASSUME RInv', pc' # "seek", peeked' \in Seq(Nat), Shown(peeked', reader', world')
  PROVE  SInv'
BY DEF SInv

\* A step that leaves the readers and the kernel, and what was peeked or nothing.
LEMMA SamePeeked ==
  ASSUME SInv, RInv', pc' # "seek", reader' = reader, world' = world,
         peeked' = peeked \/ peeked' = <<>>
  PROVE  SInv'
<1>1. /\ peeked \in Seq(Nat) /\ Shown(peeked, reader, world)
      /\ <<>> \in Seq(Nat) /\ Shown(<<>>, reader, world)
  BY InvFacts, NothingShown
<1>2. peeked' \in Seq(Nat) /\ Shown(peeked', reader', world')
  BY <1>1
<1>3. QED
  BY <1>2, SInvAfter

\* A peek at the first k bytes of the source.
LEMMA SourcePeeked ==
  ASSUME SInv, RInv', pc' # "seek", NEW t \in Readers, t # <<>>, NEW w \in Kernel,
         reader' = t, world' = w, t[Len(t)].kind # "repeat",
         NEW k \in Nat, peeked' = Prefix(Source(t, w), k)
  PROVE  SInv'
<1> DEFINE h == Source(t, w)
<1>1. h \in Seq(Nat)
  BY SourceIsSeq
<1> HIDE DEF h
<1>2. Prefix(h, k) \in Seq(Nat) /\ Prefix(h, k) = Prefix(h, Len(Prefix(h, k)))
  BY <1>1, PrefixFacts, TakenIs
<1>3. Shown(Prefix(h, k), t, w)
  BY <1>2 DEF Shown, h
<1>4. peeked' \in Seq(Nat) /\ Shown(peeked', reader', world')
  BY <1>2, <1>3 DEF h
<1>5. QED
  BY <1>4, SInvAfter

LEMMA PeekBufReadShows ==
  ASSUME SInv, RInv', PeekBufRead
  PROVE  SInv'
<1> DEFINE n == Len(reader)
<1>1. PICK k \in Sizes : PeekAnswers([Own.fill_buf[Call(k)] EXCEPT !.out = Prefix(@, k)])
  BY DEF PeekBufRead
<1> DEFINE c == Call(k)
           o == Methods[n].fill_buf[c]
           s == [o EXCEPT !.out = Prefix(o.out, k)]
<1>2. k \in Nat /\ RInv
  BY SizeFacts DEF SInv
<1>3. c \in Calls(n) /\ c.t = reader /\ c.w = world /\ n \in Nat
  BY <1>2, OwnCalls
<1>4. PeekAnswers(s)
  BY <1>1 DEF Own
<1>5. PICK b \in SUBSET DOMAIN reader :
        /\ n \in b
        /\ \A i \in b :
             \/ reader[i].kind \in {"slice", "cursor", "empty"} \cup Buffered
             \/ reader[i].kind \in {"take", "chain"} /\ Inside(reader[i]) \subseteq b
  BY DEF PeekBufRead, IsBufRead
<1>6. BufReads(b, c.t) /\ n \in Nat \cap b
  BY <1>3, <1>5 DEF BufReads
<1>k. reader[n].kind \notin Streams \cup {"file", "repeat"}
  BY <1>5 DEF Streams, Buffered
<1> HIDE DEF c
<1>7. Valid(n, c, o)
  BY <1>3, <1>6, FillIsValid DEF ValidFill
<1>8. FillShows(n, c, o)
  BY <1>3, <1>6, FillShowsHeld
<1> HIDE DEF o
<1>9. o \in Outcomes /\ o.t \in Readers /\ o.w \in Kernel /\ Later(reader, o.t)
  BY <1>3, <1>7 DEF Valid, Outcomes
<1>10. s.how = o.how /\ s.t = o.t /\ s.w = o.w /\ s.out = Prefix(o.out, k)
  BY <1>9 DEF Outcomes
<1> HIDE DEF s
<1>11. /\ reader' = o.t /\ world' = o.w /\ pc' # "seek"
       /\ peeked' = IF o.how = "ok" THEN Prefix(o.out, k) ELSE peeked
  BY <1>4, <1>10 DEF PeekAnswers
<1>12. reader \in Readers /\ reader # <<>> /\ world \in Kernel
  BY InvFacts
<1>13. Len(o.t) = n /\ o.t[n].kind = reader[n].kind
  BY <1>9, <1>12, KindKept
<1>14. Source(o.t, o.w) = Held(o.t)[n] /\ Source(reader, world) = Held(reader)[n]
  BY <1>k, <1>13 DEF Source, Streams
<1>e. o.t # <<>>
  <2>1. n # 0 /\ Len(<<>>) = 0
    BY <1>12 DEF Readers
  <2>2. QED
    BY <1>13, <2>1
<1>15. CASE o.how = "ok"
  <2>1. peeked' = Prefix(Source(o.t, o.w), k)
    BY <1>8, <1>11, <1>14, <1>15 DEF FillShows
  <2>2. QED
    BY <1>2, <1>9, <1>11, <1>13, <1>e, <1>k, <2>1, SourcePeeked
<1>16. CASE o.how # "ok"
  <2>1. Source(reader, world) = <<>>
    BY <1>3, <1>8, <1>14, <1>16 DEF FillShows
  <2>2. peeked = Prefix(Source(reader, world), Len(peeked)) /\ Len(peeked) \in Nat
    BY <1>k, InvFacts DEF Shown
  <2>3. peeked = <<>>
    BY <2>1, <2>2, EmptyFacts
  <2>4. peeked' = <<>> /\ <<>> \in Seq(Nat)
    BY <1>11, <1>16, <2>3
  <2>5. Shown(<<>>, o.t, o.w)
    BY <1>9, <1>e, NothingShown
  <2>6. QED
    BY <1>11, <2>4, <2>5, SInvAfter
<1>17. QED
  BY <1>15, <1>16

\* What a leaf that is the user's own reader answers.
LEMMA OwnLeaf ==
  ASSUME RInv, NEW k \in Sizes, reader[Len(reader)].kind \in {"repeat", "file"} \cup Streams
  PROVE  Own.read[Call(k)] = ReadLeaf(Len(reader), Call(k))
<1> DEFINE n == Len(reader)
           c == Call(k)
<1>1. k \in Nat
  BY SizeFacts
<1>2. c \in Calls(n) /\ c.t = reader /\ n \in Nat
  BY <1>1, OwnCalls
<1>3. Methods[n].read[c] = ReadFrom(Methods, n, c)
  BY <1>2, MethodsFacts
<1> HIDE DEF c
<1>4. ReadFrom(Methods, n, c) = ReadLeaf(n, c)
  BY <1>2 DEF ReadFrom, Buffered, Streams
<1>5. QED
  BY <1>3, <1>4 DEF Own, c

\* Repeat returns zeros.
LEMMA OwnRepeat ==
  ASSUME RInv, NEW k \in Sizes, reader[Len(reader)].kind = "repeat",
         NEW o, o = Own.read[Call(k)]
  PROVE  /\ o.how = "ok" /\ o.t = reader /\ o.w = world
         /\ o.out \in Seq(Nat) /\ Len(o.out) = k /\ \A i \in 1 .. k : o.out[i] = Zero
<1> DEFINE z == [i \in 1 .. k |-> Zero]
<1>1. k \in Nat /\ k > 0
  BY SizeFacts
<1>2. Call(k).k = k /\ Call(k).t = reader /\ Call(k).w = world
  BY <1>1, OwnCalls
<1>3. o = Outcome("ok", z, reader, world)
  BY <1>2, OwnLeaf DEF ReadLeaf, Streams
<1>4. z \in Seq(Nat) /\ Len(z) = k /\ \A i \in 1 .. k : z[i] = Zero
  BY <1>1 DEF Zero
<1> HIDE DEF z
<1>5. QED
  BY <1>3, <1>4 DEF Outcome

LEMMA PeekDirectShows ==
  ASSUME SInv, RInv', PeekDirect
  PROVE  SInv'
<1> DEFINE n == Len(reader)
<1>1. PICK k \in Sizes : PeekAnswers([Own.read[Call(k)] EXCEPT !.w = world])
  BY DEF PeekDirect
<1> DEFINE o == Own.read[Call(k)]
           s == [o EXCEPT !.w = world]
<1>2. k \in Nat /\ RInv
  BY SizeFacts DEF SInv
<1>3. reader[n].kind \in {"repeat", "socket"}
  BY DEF PeekDirect, Kind
<1>4. Call(k).k = k /\ Call(k).t = reader /\ Call(k).w = world
  BY <1>2, OwnCalls
<1>5. o \in Outcomes
  BY <1>2, OwnRead
<1>6. s.how = o.how /\ s.t = o.t /\ s.w = world /\ s.out = o.out
  BY <1>5 DEF Outcomes
<1>7. PeekAnswers(s)
  BY <1>1
<1> HIDE DEF s
<1>8. /\ reader' = o.t /\ world' = world /\ pc' # "seek"
      /\ peeked' = IF o.how = "ok" THEN o.out ELSE peeked
  BY <1>6, <1>7 DEF PeekAnswers
<1>9. reader \in Readers /\ reader # <<>> /\ world \in Kernel
  BY InvFacts
<1>10. CASE reader[n].kind = "repeat"
  <2>1. /\ o.how = "ok" /\ o.t = reader /\ o.out \in Seq(Nat) /\ Len(o.out) = k
        /\ \A i \in 1 .. k : o.out[i] = Zero
    BY <1>2, <1>10, OwnRepeat
  <2> HIDE DEF o
  <2>2. reader' = reader /\ peeked' = o.out
    BY <1>8, <2>1
  <2>3. Shown(o.out, reader, world)
    BY <1>10, <2>1 DEF Shown
  <2>4. peeked' \in Seq(Nat) /\ Shown(peeked', reader', world')
    BY <1>8, <2>1, <2>2, <2>3
  <2>5. QED
    BY <1>8, <2>4, SInvAfter
<1>11. CASE reader[n].kind = "socket"
  <2>1. o = ReadLeaf(n, Call(k))
    BY <1>2, <1>11, OwnLeaf DEF Streams
  <2>2. /\ o.t = reader
        /\ o.how # "ok" \/ o.out = Prefix(world.stream, k)
    BY <1>4, <1>11, <2>1 DEF ReadLeaf, Outcome, Streams
  <2> HIDE DEF o
  <2>3. CASE o.how = "ok"
    <3>1. Source(reader, world) = world.stream
      BY <1>11 DEF Source, Streams
    <3>2. /\ reader' = reader /\ world' = world /\ peeked' = Prefix(Source(reader, world), k)
          /\ reader[Len(reader)].kind # "repeat"
      BY <1>8, <1>11, <2>2, <2>3, <3>1
    <3>3. QED
      BY <1>2, <1>8, <1>9, <3>2, SourcePeeked
  <2>4. CASE o.how # "ok"
    BY <1>8, <2>2, <2>4, SamePeeked
  <2>5. QED
    BY <2>3, <2>4
<1>12. QED
  BY <1>3, <1>10, <1>11

\* The step is one of a peek that answers what and shows out.
LEMMA PeekAnswersIs ==
  ASSUME NEW how, NEW out, NEW t, NEW w, how # "blocks", PeekAnswers(Outcome(how, out, t, w))
  PROVE  /\ reader' = t /\ world' = w /\ pc' # "seek"
         /\ peeked' = IF how = "ok" THEN out ELSE peeked
BY DEF PeekAnswers, Outcome

LEMMA PeekPipeShows ==
  ASSUME SInv, RInv', PeekPipe \/ PeekNamedPipe
  PROVE  SInv'
<1>1. CASE PeekPipe
  <2>1. PeekAnswers(Outcome("ok", <<>>, reader, world)) /\ "ok" # "blocks"
    BY <1>1 DEF PeekPipe
  <2>2. reader' = reader /\ world' = world /\ pc' # "seek" /\ peeked' = <<>>
    BY <2>1, PeekAnswersIs
  <2>3. QED
    BY <2>2, SamePeeked
<1>2. CASE PeekNamedPipe
  <2>1. PICK k \in Sizes :
          PeekAnswers(IF world.stream = <<>> /\ world.closed
                      THEN Outcome("fails", <<>>, reader, world)
                      ELSE Outcome("ok", Prefix(world.stream, k), reader, world))
    BY <1>2 DEF PeekNamedPipe
  <2>2. CASE world.stream = <<>> /\ world.closed
    <3>1. PeekAnswers(Outcome("fails", <<>>, reader, world)) /\ "fails" # "blocks" /\ "fails" # "ok"
      BY <2>1, <2>2
    <3>2. reader' = reader /\ world' = world /\ pc' # "seek" /\ peeked' = peeked
      BY <3>1, PeekAnswersIs
    <3>3. QED
      BY <3>2, SamePeeked
  <2>3. CASE ~(world.stream = <<>> /\ world.closed)
    <3>1. PeekAnswers(Outcome("ok", Prefix(world.stream, k), reader, world)) /\ "ok" # "blocks"
      BY <2>1, <2>3
    <3>2. reader' = reader /\ world' = world /\ pc' # "seek" /\ peeked' = Prefix(world.stream, k)
      BY <3>1, PeekAnswersIs
    <3>3. /\ reader[Len(reader)].kind # "repeat"
          /\ Source(reader, world) = world.stream
      BY <1>2 DEF PeekNamedPipe, Kind, Source, Streams
    <3>4. /\ reader \in Readers /\ reader # <<>> /\ world \in Kernel /\ k \in Nat
          /\ peeked' = Prefix(Source(reader, world), k)
      BY <3>2, <3>3, InvFacts, SizeFacts
    <3>5. QED
      BY <3>2, <3>3, <3>4, SourcePeeked
  <2>4. QED
    BY <2>2, <2>3
<1>3. QED
  BY <1>1, <1>2

LEMMA PeekFileShows ==
  ASSUME SInv, RInv', PeekFile
  PROVE  SInv'
<1> DEFINE r == reader[Len(reader)]
<1>1. pc = "seek" /\ pc' # "seek" /\ reader' = reader /\ world' = world
  BY DEF PeekFile
<1>2. r.kind = "file" /\ want \in Sizes /\ (disturbed \/ saved = world.pos)
  BY <1>1 DEF SInv
<1>3. \/ r.readable /\ peeked' = IF disturbed THEN <<>> ELSE FileBytes(world, saved, want)
      \/ peeked' = peeked
  BY DEF PeekFile
<1>4. CASE peeked' = peeked \/ peeked' = <<>>
  BY <1>1, <1>4, SamePeeked
<1>5. CASE r.readable /\ ~disturbed /\ peeked' = FileBytes(world, saved, want)
  <2>1. peeked' = Prefix(Rest(world.file, world.pos), want)
    BY <1>2, <1>5 DEF FileBytes
  <2>2. Source(reader, world) = Rest(world.file, world.pos)
    BY <1>2, <1>5 DEF Source, Streams
  <2>3. /\ reader \in Readers /\ reader # <<>> /\ world \in Kernel /\ want \in Nat
        /\ peeked' = Prefix(Source(reader, world), want)
    BY <1>2, <2>1, <2>2, InvFacts, SizeFacts
  <2>4. r.kind # "repeat"
    BY <1>2
  <2>5. QED
    BY <1>1, <2>3, <2>4, SourcePeeked
<1>6. QED
  BY <1>3, <1>4, <1>5

LEMMA SeekToPeekShows ==
  ASSUME SInv, RInv', SeekToPeek
  PROVE  SInv'
<1>1. /\ saved' = world.pos /\ want' \in Sizes /\ reader' = reader /\ world' = world
      /\ peeked' = peeked
  BY DEF SeekToPeek, ghosts
<1>2. reader[Len(reader)].kind = "file"
  BY DEF SeekToPeek, Kind
<1>3. peeked' \in Seq(Nat) /\ Shown(peeked', reader', world')
  BY <1>1, InvFacts
<1>4. reader'[Len(reader')].kind = "file" /\ want' \in Sizes /\ saved' = world'.pos
  BY <1>1, <1>2
<1>5. QED
  BY <1>3, <1>4 DEF SInv

\* What a read by the user returns, and leaves of what was peeked.
LEMMA ReadIsShown ==
  ASSUME SInv, NEW k \in Sizes, NEW o, o = Own.read[Call(k)]
  PROVE  /\ o.t \in Readers /\ o.t # <<>> /\ o.w \in Kernel /\ o.out \in Seq(Nat)
         /\ Rest(peeked, Len(o.out)) \in Seq(Nat)
         /\ Shown(Rest(peeked, Len(o.out)), o.t, o.w)
         /\ o.how = "blocks" => Shown(peeked, o.t, o.w)
         /\ peeked # <<>> =>
              /\ o.how = "ok" /\ o.out # <<>>
              /\ LET m == Least(Len(peeked), Len(o.out)) IN Prefix(peeked, m) = Prefix(o.out, m)
<1> DEFINE n == Len(reader)
           c == Call(k)
           h == Source(reader, world)
           g == Source(o.t, o.w)
           m == Least(Len(peeked), Len(o.out))
<1>1. k \in Nat /\ k > 0 /\ RInv
  BY SizeFacts DEF SInv
<1>2. c \in Calls(n) /\ c.k = k /\ c.t = reader /\ c.w = world /\ n \in Nat
  BY <1>1, OwnCalls
<1>3. /\ reader \in Readers /\ reader # <<>> /\ world \in Kernel
      /\ peeked \in Seq(Nat) /\ Shown(peeked, reader, world) /\ h \in Seq(Nat)
  BY InvFacts
<1>4. o = Methods[n].read[c]
  BY DEF Own
<1> HIDE DEF c
<1>5. Valid(n, c, o)
  BY <1>2, <1>4, ReadIsValid DEF ValidRead
<1>6. /\ o.t \in Readers /\ o.w \in Kernel /\ o.out \in Seq(Nat) /\ Later(reader, o.t)
      /\ o.how # "ok" => o.out = <<>>
  BY <1>2, <1>5 DEF Valid, Outcomes
<1>7. Len(o.t) = n /\ o.t[n].kind = reader[n].kind
  BY <1>3, <1>6, KindKept
<1>8. o.t # <<>>
  <2>1. n # 0 /\ Len(<<>>) = 0
    BY <1>3 DEF Readers
  <2>2. QED
    BY <1>7, <2>1
<1>9. Len(o.out) \in Nat /\ Len(peeked) \in Nat
  BY <1>3, <1>6
<1>10. Rest(peeked, Len(o.out)) \in Seq(Nat)
  BY <1>3, <1>9, RestFacts
<1>11. Shown(<<>>, o.t, o.w)
  BY <1>6, <1>8, NothingShown
<1>12. CASE peeked = <<>>
  <2>1. Rest(peeked, Len(o.out)) = <<>>
    BY <1>9, <1>12, EmptyFacts
  <2>2. QED
    BY <1>6, <1>8, <1>10, <1>11, <1>12, <2>1
<1>13. CASE peeked # <<>> /\ reader[n].kind # "repeat"
  <2>1. peeked = Prefix(h, Len(peeked))
    BY <1>3, <1>13 DEF Shown
  <2>2. h # <<>>
    BY <1>9, <1>13, <2>1, EmptyFacts
  <2>3. Front(Source(reader, c.w), o, Source(o.t, o.w))
    BY <1>1, <1>2, <1>3, <1>4, <1>13, <2>2, SourceTakes
  <2>4. Front(h, o, g)
    BY <1>2, <2>3
  <2>5. g \in Seq(Nat)
    BY <1>6, <1>8, SourceIsSeq
  <2> HIDE DEF h, g
  <2>6. /\ Rest(peeked, Len(o.out)) = Prefix(g, Len(Rest(peeked, Len(o.out))))
        /\ Prefix(peeked, m) = Prefix(o.out, m)
    BY <1>3, <1>6, <2>1, <2>4, <2>5, ShownFront
  <2>7. Shown(Rest(peeked, Len(o.out)), o.t, o.w)
    BY <1>7, <1>13, <2>6 DEF Shown, g
  <2>8. o.how = "ok" /\ o.out # <<>>
    BY <2>4 DEF Front
  <2>9. o.how # "blocks"
    BY <2>8
  <2>10. QED
    BY <1>6, <1>8, <1>10, <2>6, <2>7, <2>8, <2>9
<1>14. CASE peeked # <<>> /\ reader[n].kind = "repeat"
  <2>1. \A i \in 1 .. Len(peeked) : peeked[i] = Zero
    BY <1>3, <1>14 DEF Shown
  <2>2. /\ o.how = "ok" /\ Len(o.out) = k /\ \A i \in 1 .. k : o.out[i] = Zero
    BY <1>1, <1>14, OwnRepeat
  <2>3. /\ Len(Rest(peeked, Len(o.out))) = Left(Len(peeked), Len(o.out))
        /\ \A i \in 1 .. Left(Len(peeked), Len(o.out)) :
             Rest(peeked, Len(o.out))[i] = peeked[Len(o.out) + i]
    BY <1>3, <1>9, RestIs
  <2>4. \A i \in 1 .. Left(Len(peeked), Len(o.out)) : Len(o.out) + i \in 1 .. Len(peeked)
    BY <1>9 DEF Left
  <2>5. \A i \in DOMAIN Rest(peeked, Len(o.out)) : Rest(peeked, Len(o.out))[i] = Zero
    <3>1. DOMAIN Rest(peeked, Len(o.out)) = 1 .. Left(Len(peeked), Len(o.out))
      BY <1>10, <2>3
    <3>2. \A i \in 1 .. Left(Len(peeked), Len(o.out)) : peeked[Len(o.out) + i] = Zero
      BY ONLY <2>1, <2>4
    <3>3. \A i \in 1 .. Left(Len(peeked), Len(o.out)) : Rest(peeked, Len(o.out))[i] = Zero
      BY ONLY <2>3, <3>2
    <3>4. QED
      BY ONLY <3>1, <3>3
  <2>6. Shown(Rest(peeked, Len(o.out)), o.t, o.w)
    BY <1>7, <1>14, <2>5 DEF Shown
  <2>7. o.out # <<>> /\ o.how # "blocks"
    BY <1>1, <1>6, <2>2
  <2>8. m \in Nat /\ m <= Len(peeked) /\ m <= Len(o.out)
    BY <1>9 DEF Least
  <2> HIDE DEF m
  <2>9. Least(m, Len(peeked)) = m /\ Least(m, Len(o.out)) = m
    BY <1>9, <2>8 DEF Least
  <2>10. /\ Prefix(peeked, m) \in Seq(Nat) /\ Len(Prefix(peeked, m)) = m
         /\ \A i \in 1 .. m : Prefix(peeked, m)[i] = peeked[i]
    BY <1>3, <2>8, <2>9, PrefixIs
  <2>11. /\ Prefix(o.out, m) \in Seq(Nat) /\ Len(Prefix(o.out, m)) = m
         /\ \A i \in 1 .. m : Prefix(o.out, m)[i] = o.out[i]
    BY <1>6, <2>8, <2>9, PrefixIs
  <2>12. \A i \in 1 .. m : i \in 1 .. Len(peeked) /\ i \in 1 .. k
    BY <1>9, <2>2, <2>8
  <2>13. \A i \in 1 .. m : Prefix(peeked, m)[i] = Prefix(o.out, m)[i]
    BY <2>1, <2>2, <2>10, <2>11, <2>12
  <2>14. Prefix(peeked, m) = Prefix(o.out, m)
    BY <2>10, <2>11, <2>13, SameSeq
  <2>15. QED
    BY <1>6, <1>8, <1>10, <2>2, <2>6, <2>7, <2>14 DEF m
<1>15. QED
  BY <1>12, <1>13, <1>14

\* What the step of a read is.
LEMMA ReadIs ==
  ASSUME Read
  PROVE  \E k \in Sizes : LET o == Own.read[Call(k)] IN
           /\ reader' = o.t /\ world' = o.w
           /\ IF o.how = "blocks"
              THEN pc' = "blocked" /\ peeked' = peeked
              ELSE /\ pc' = "idle" /\ peeked' = Rest(peeked, Len(o.out))
                   /\ last'.how = o.how /\ last'.out = o.out
BY DEF Read, Answer, ghosts

LEMMA ReadShows ==
  ASSUME SInv, RInv', Read
  PROVE  SInv'
<1>1. PICK k \in Sizes : LET o == Own.read[Call(k)] IN
        /\ reader' = o.t /\ world' = o.w
        /\ IF o.how = "blocks"
           THEN pc' = "blocked" /\ peeked' = peeked
           ELSE /\ pc' = "idle" /\ peeked' = Rest(peeked, Len(o.out))
                /\ last'.how = o.how /\ last'.out = o.out
  BY ReadIs
<1> DEFINE o == Own.read[Call(k)]
<1>2. /\ Rest(peeked, Len(o.out)) \in Seq(Nat)
      /\ Shown(Rest(peeked, Len(o.out)), o.t, o.w)
      /\ o.how = "blocks" => Shown(peeked, o.t, o.w)
  BY ReadIsShown
<1>3. reader' = o.t /\ world' = o.w /\ pc' # "seek"
  BY <1>1
<1>4. \/ o.how = "blocks" /\ peeked' = peeked
      \/ peeked' = Rest(peeked, Len(o.out))
  BY <1>1
<1>5. peeked \in Seq(Nat)
  BY InvFacts
<1> HIDE DEF o
<1>6. peeked' \in Seq(Nat) /\ Shown(peeked', reader', world')
  BY <1>2, <1>3, <1>4, <1>5
<1>7. QED
  BY <1>3, <1>6, SInvAfter

LEMMA UserShows ==
  ASSUME SInv, User
  PROVE  SInv'
<1>1. RInv'
  BY UserStep DEF SInv
<1>2. CASE NumReadyBytes \/ ReadyOfFile
  <2>1. pc' \in {"panicked", "idle"} /\ reader' = reader /\ world' = world /\ peeked' = peeked
    BY <1>2 DEF NumReadyBytes, ReadyOfFile, Ready
  <2>2. pc' # "seek"
    BY <2>1
  <2>3. QED
    BY <1>1, <2>1, <2>2, SamePeeked
<1>3. CASE StatFile \/ Wake
  <2>1. pc' # "seek" /\ reader' = reader /\ world' = world /\ peeked' = peeked
    BY <1>3 DEF StatFile, Wake, ghosts
  <2>2. QED
    BY <1>1, <2>1, SamePeeked
<1>4. CASE PeekBufRead \/ PeekDirect \/ PeekPipe \/ PeekNamedPipe \/ PeekFile
  BY <1>1, <1>4, PeekBufReadShows, PeekDirectShows, PeekPipeShows, PeekFileShows
<1>5. CASE SeekToPeek \/ Read
  BY <1>1, <1>5, SeekToPeekShows, ReadShows
<1>6. QED
  BY <1>2, <1>3, <1>4, <1>5 DEF User

\* What comes behind the next bytes leaves them the next.
LEMMA PrefixOfAppend ==
  ASSUME NEW h \in Seq(Nat), NEW x \in Nat, NEW s \in Seq(Nat), s = Prefix(h, Len(s))
  PROVE  s = Prefix(Append(h, x), Len(s))
<1> DEFINE l == Len(s)
           g == Append(h, x)
<1>1. /\ l \in Nat /\ Len(h) \in Nat /\ g \in Seq(Nat) /\ Len(g) = Len(h) + 1
      /\ \A i \in 1 .. Len(h) : g[i] = h[i]
  OBVIOUS
<1>p. s = Prefix(h, l)
  OBVIOUS
<1> HIDE DEF g, l
<1>2. /\ Len(s) = Least(l, Len(h))
      /\ \A i \in 1 .. Least(l, Len(h)) : s[i] = h[i]
  <2>1. /\ Len(Prefix(h, l)) = Least(l, Len(h))
        /\ \A i \in 1 .. Least(l, Len(h)) : Prefix(h, l)[i] = h[i]
    BY <1>1, PrefixIs
  <2>2. QED
    BY <1>p, <2>1
<1>3. l <= Len(h)
  BY <1>1, <1>2 DEF Least, l
<1>4. Least(l, Len(h)) = l /\ Least(l, Len(g)) = l
  BY <1>1, <1>3 DEF Least
<1>5. /\ Prefix(g, l) \in Seq(Nat) /\ Len(Prefix(g, l)) = l
      /\ \A i \in 1 .. l : Prefix(g, l)[i] = g[i]
  BY <1>1, <1>4, PrefixIs
<1>q. \A i \in 1 .. l : i \in 1 .. Len(h)
  BY <1>1, <1>3
<1>6. \A i \in 1 .. l : s[i] = Prefix(g, l)[i]
  <2>1. \A i \in 1 .. l : s[i] = h[i] /\ g[i] = h[i] /\ Prefix(g, l)[i] = g[i]
    BY <1>1, <1>2, <1>4, <1>5, <1>q
  <2>2. QED
    BY <2>1
<1>7. s = Prefix(g, l)
  BY <1>5, <1>6, SameSeq DEF l
<1>8. QED
  BY <1>7 DEF g, l

\* A source that is not the kernel's does not depend on it.
LEMMA OtherSource ==
  ASSUME NEW t, NEW w, NEW v, t[Len(t)].kind \in Streams => w.stream = v.stream,
         t[Len(t)].kind = "file" => w.file = v.file /\ w.pos = v.pos
  PROVE  Source(t, w) = Source(t, v)
BY DEF Source

\* A step of others that leaves the calls of the user as they are.
LEMMA OthersKeep ==
  ASSUME SInv, RInv', reader' = reader, pc' = pc, want' = want, saved' = saved,
         peeked' \in Seq(Nat), Shown(peeked', reader, world'),
         disturbed' \/ (disturbed' = disturbed /\ world'.pos = world.pos)
  PROVE  SInv'
BY DEF SInv

LEMMA SendShows ==
  ASSUME SInv, RInv', Send
  PROVE  SInv'
<1> DEFINE h == world.stream
           x == arrived + 1
           w == [world EXCEPT !.stream = Append(h, x)]
           r == reader[Len(reader)]
<1>1. /\ world \in Kernel /\ peeked \in Seq(Nat) /\ Shown(peeked, reader, world)
  BY InvFacts
<1>2. /\ world' = w /\ reader' = reader /\ pc' = pc /\ want' = want /\ saved' = saved
      /\ peeked' = peeked /\ disturbed' = disturbed
  BY DEF Send, ghosts
<1>3. h \in Seq(Nat) /\ x \in Nat
  <2>1. Len(h) \in Nat /\ arrived \in Len(h) .. MaxArrived /\ MaxArrived \in Nat /\ h \in Seq(Nat)
    BY <1>1, ReadersAssumption DEF SInv, RInv, Good, Kernel
  <2>2. QED
    BY <2>1
<1>4. w.stream = Append(h, x) /\ w.file = world.file /\ w.pos = world.pos
  BY <1>1 DEF Kernel
<1> HIDE DEF w, x
<1>5. Shown(peeked, reader, w)
  <2>1. CASE r.kind \in Streams
    <3>1. Source(reader, world) = h /\ Source(reader, w) = Append(h, x) /\ r.kind # "repeat"
      BY <1>4, <2>1 DEF Source, Streams
    <3>2. peeked = Prefix(h, Len(peeked))
      BY <1>1, <3>1 DEF Shown
    <3>3. peeked = Prefix(Append(h, x), Len(peeked))
      BY <1>1, <1>3, <3>2, PrefixOfAppend
    <3>4. QED
      BY <3>1, <3>3 DEF Shown
  <2>2. CASE r.kind \notin Streams
    <3>1. Source(reader, w) = Source(reader, world)
      BY <1>4, <2>2, OtherSource
    <3>2. QED
      BY <1>1, <3>1 DEF Shown
  <2>3. QED
    BY <2>1, <2>2
<1>6. QED
  BY <1>1, <1>2, <1>4, <1>5, OthersKeep

LEMMA HangUpShows ==
  ASSUME SInv, RInv', HangUp
  PROVE  SInv'
<1> DEFINE w == [world EXCEPT !.closed = TRUE]
<1>1. /\ world \in Kernel /\ peeked \in Seq(Nat) /\ Shown(peeked, reader, world)
  BY InvFacts
<1>2. /\ world' = w /\ reader' = reader /\ pc' = pc /\ want' = want /\ saved' = saved
      /\ peeked' = peeked /\ disturbed' = disturbed
  BY DEF HangUp, ghosts
<1>3. w.stream = world.stream /\ w.file = world.file /\ w.pos = world.pos
  BY <1>1 DEF Kernel
<1> HIDE DEF w
<1>4. Source(reader, w) = Source(reader, world)
  BY <1>3, OtherSource
<1>5. Shown(peeked, reader, w)
  BY <1>1, <1>4 DEF Shown
<1>6. QED
  BY <1>1, <1>2, <1>3, <1>5, OthersKeep

\* What others do to the file leaves what a BufReader has peeked.
LEMMA DisturbShows ==
  ASSUME SInv, RInv', NEW w, w.stream = world.stream, Disturb(w)
  PROVE  SInv'
<1>1. /\ world' = w /\ reader' = reader /\ pc' = pc /\ want' = want /\ saved' = saved
      /\ disturbed' /\ peeked' = IF Kind = "file" THEN <<>> ELSE peeked
  BY DEF Disturb
<1>2. /\ reader \in Readers /\ reader # <<>> /\ <<>> \in Seq(Nat)
      /\ peeked \in Seq(Nat) /\ Shown(peeked, reader, world)
  BY InvFacts
<1>3. w \in Kernel
  BY <1>1 DEF RInv, Good
<1>4. CASE Kind = "file"
  <2>1. peeked' = <<>>
    BY <1>1, <1>4
  <2>2. Shown(<<>>, reader, w)
    BY <1>2, <1>3, NothingShown
  <2>3. peeked' \in Seq(Nat) /\ Shown(peeked', reader, world')
    BY <1>1, <1>2, <2>1, <2>2
  <2>4. QED
    BY <1>1, <2>3, OthersKeep
<1>5. CASE Kind # "file"
  <2>1. Source(reader, w) = Source(reader, world)
    BY <1>5, OtherSource DEF Kind
  <2>2. Shown(peeked, reader, w)
    BY <1>2, <2>1 DEF Shown
  <2>3. peeked' \in Seq(Nat) /\ Shown(peeked', reader, world')
    BY <1>1, <1>2, <1>5, <2>2
  <2>4. QED
    BY <1>1, <2>3, OthersKeep
<1>6. QED
  BY <1>4, <1>5

LEMMA OthersShows ==
  ASSUME SInv, Others
  PROVE  SInv'
<1>1. RInv' /\ world \in Kernel
  BY OthersStep, InvFacts DEF SInv
<1>2. CASE SeekElsewhere
  <2>1. PICK p \in 0 .. MaxLen : Disturb([world EXCEPT !.pos = p])
    BY <1>2 DEF SeekElsewhere
  <2>2. [world EXCEPT !.pos = p].stream = world.stream
    BY <1>1 DEF Kernel
  <2>3. QED
    BY <1>1, <2>1, <2>2, DisturbShows
<1>3. CASE ResizeElsewhere
  <2>1. PICK s : Disturb([world EXCEPT !.file = s])
    BY <1>3 DEF ResizeElsewhere
  <2>2. [world EXCEPT !.file = s].stream = world.stream
    BY <1>1 DEF Kernel
  <2>3. QED
    BY <1>1, <2>1, <2>2, DisturbShows
<1>4. CASE Send \/ HangUp
  BY <1>1, <1>4, SendShows, HangUpShows
<1>5. QED
  BY <1>2, <1>3, <1>4 DEF Others

LEMMA StutterShows ==
  ASSUME SInv, UNCHANGED vars
  PROVE  SInv'
<1>1. RInv'
  BY StutterStep DEF SInv
<1>2. /\ reader' = reader /\ world' = world /\ pc' = pc /\ want' = want /\ saved' = saved
      /\ peeked' = peeked /\ disturbed' = disturbed
  BY DEF vars, ghosts
<1>3. QED
  BY <1>1, <1>2 DEF SInv

LEMMA InitShows == Init => SInv
<1>1. SUFFICES ASSUME Init PROVE SInv
  OBVIOUS
<1>2. RInv /\ peeked = <<>> /\ pc # "seek"
  BY <1>1, InitRInv DEF Init
<1>3. reader \in Readers /\ reader # <<>> /\ world \in Kernel /\ <<>> \in Seq(Nat)
  BY <1>2 DEF RInv, Good
<1>4. Shown(<<>>, reader, world)
  BY <1>3, NothingShown
<1>5. QED
  BY <1>2, <1>3, <1>4 DEF SInv

\* The bytes peeked and not yet read are the next ones, in the buffers and
\* behind them, or in the kernel (peek.rs:28-43, io_ext.rs:237-252).
THEOREM SInvHolds == Spec => []SInv
<1>1. Init => SInv
  BY InitShows
<1>2. SInv /\ [Next]_vars => SInv'
  <2>1. SUFFICES ASSUME SInv, [Next]_vars PROVE SInv'
    OBVIOUS
  <2>2. CASE User
    BY <2>1, <2>2, UserShows
  <2>3. CASE Others
    BY <2>1, <2>3, OthersShows
  <2>4. CASE UNCHANGED vars
    BY <2>1, <2>4, StutterShows
  <2>5. QED
    BY <2>1, <2>2, <2>3, <2>4 DEF Next
<1>3. QED
  BY <1>1, <1>2, PTL DEF Spec

LEMMA ReadsWhatWasPeeked ==
  ASSUME SInv, Read, peeked # <<>>
  PROVE  /\ pc' = "idle" /\ last'.how = "ok" /\ last'.out # <<>>
         /\ LET k == Least(Len(peeked), Len(last'.out))
            IN Prefix(peeked, k) = Prefix(last'.out, k)
<1>1. PICK k \in Sizes : LET o == Own.read[Call(k)] IN
        /\ reader' = o.t /\ world' = o.w
        /\ IF o.how = "blocks"
           THEN pc' = "blocked" /\ peeked' = peeked
           ELSE /\ pc' = "idle" /\ peeked' = Rest(peeked, Len(o.out))
                /\ last'.how = o.how /\ last'.out = o.out
  BY ReadIs
<1> DEFINE o == Own.read[Call(k)]
<1>2. /\ o.how = "ok" /\ o.out # <<>>
      /\ LET m == Least(Len(peeked), Len(o.out)) IN Prefix(peeked, m) = Prefix(o.out, m)
  BY ReadIsShown
<1>3. pc' = "idle" /\ last'.how = "ok" /\ last'.out = o.out
  BY <1>1, <1>2
<1>4. QED
  BY <1>2, <1>3

\* The reads after a peek return the bytes peeked, in order and without
\* waiting, from every composition of readers, whatever calls and bytes come
\* between (peek.rs:21-26, 30-36, 162-167, io_ext.rs:237-252).
THEOREM PeekIsRereadThm == Spec => PeekIsReread
<1>1. SInv /\ [Next]_vars =>
        [Read /\ peeked # <<>>
           => /\ pc' = "idle" /\ last'.how = "ok" /\ last'.out # <<>>
              /\ LET k == Least(Len(peeked), Len(last'.out))
                 IN Prefix(peeked, k) = Prefix(last'.out, k)]_vars
  BY ReadsWhatWasPeeked
<1>2. QED
  BY <1>1, SInvHolds, PTL DEF Spec, PeekIsReread

-----------------------------------------------------------------------------
(***************************************************************************)
(* num_ready_bytes counts what readers hold                                *)
(***************************************************************************)

\* Every reader asked counts its own bytes, and none overruns.
Counted(n, c) ==
  /\ ~AsksOverrun(n, c)
  /\ \A i \in Methods[n].asked[c.t] : c.t[i].kind \notin {"chain", "stdin"}

CountsHeld(n, c, a) == a.how = "ok" => Len(Held(c.t)[n]) <= a.n

LEMMA CountedInside ==
  ASSUME NEW n \in Nat, NEW c \in Calls(n), Counted(n, c), c.t[n].kind \in {"buf", "take"}
  PROVE  c.t[n].inner \in 1 .. n - 1 /\ c \in Calls(c.t[n].inner) /\ Counted(c.t[n].inner, c)
<1> DEFINE i == c.t[n].inner
<1>1. c.t \in Having(n) /\ n \in 1 .. Len(c.t) /\ Len(c.t) \in Nat
  BY CallFacts
<1>2. i \in 1 .. n - 1
  BY <1>1, InsideFacts DEF Adaptors, Buffered
<1>3. i \in 1 .. Len(c.t)
  BY <1>1, <1>2
<1>4. c \in Calls(i)
  BY <1>3, CallInside, CallFacts
<1>5. Methods[i].asked[c.t] \subseteq Methods[n].asked[c.t]
  BY <1>1, <1>2, PassedOn
<1>6. Counted(i, c)
  BY <1>5 DEF Counted, AsksOverrun
<1>7. QED
  BY <1>2, <1>4, <1>6

LEMMA LeafCounts ==
  ASSUME NEW n \in Nat, NEW c \in Calls(n), NEW m \in Nat, FitsIn(m, c.t, c.w), Counted(n, c),
         c.t[n].kind \notin Adaptors \cup {"chain"}, NEW a \in NumReady(Methods, n, c)
  PROVE  CountsHeld(n, c, a)
<1> DEFINE r == c.t[n]
           h == Held(c.t)[n]
<1>s. /\ Streams = {"socket", "pipe", "windows_pipe"}
      /\ Adaptors = {"buf", "stdin", "take"} /\ Buffered = {"buf", "stdin"}
  BY DEF Streams, Adaptors, Buffered
<1>1. r \in Node /\ c.t \in Having(n) /\ U64Max \in Nat
  BY CallFacts, ReadersAssumption
<1>2. m <= U64Max /\ Most(r) <= m
  BY FitsFacts
<1>3. CASE r.kind = "slice"
  <2>1. a = Count(Len(r.data)) /\ h = r.data
    BY <1>s, <1>1, <1>3, HeldFacts DEF NumReady
  <2>2. Len(r.data) \in Nat
    BY <1>1, <1>3, NodeFacts
  <2>3. a.n = Len(h)
    BY <2>1 DEF Count
  <2>4. QED
    BY <2>1, <2>2, <2>3 DEF CountsHeld
<1>4. CASE r.kind = "cursor"
  <2> DEFINE l == Len(r.data)
             p == r.pos
  <2>1. r.data \in Seq(Nat) /\ l \in Nat /\ p \in Nat
    BY <1>1, <1>4, NodeFacts
  <2>2. a \in U64(l - p) /\ h = Rest(r.data, p)
    BY <1>s, <1>1, <1>4, HeldFacts DEF NumReady, Remaining
  <2>3. Most(r) = l
    BY <1>4, <1>s DEF Most
  <2>4. p <= l
    <3>1. ~Overruns(r, c)
      BY AsksItself DEF Counted
    <3>2. ~(p > l)
      BY <1>4, <3>1 DEF Overruns, Overstates
    <3>3. QED
      BY <2>1, <3>2
  <2>5. Len(Rest(r.data, p)) = l - p
    BY <2>1, <2>4, RestFacts
  <2> HIDE DEF l, p
  <2>6. l - p \in 0 .. U64Max /\ l - p \in Int
    BY <1>1, <1>2, <2>1, <2>3, <2>4
  <2>7. a.n = l - p
    BY <2>2, <2>6, U64Facts
  <2>8. Len(h) = a.n /\ a.n \in Nat
    BY <2>2, <2>5, <2>6, <2>7
  <2>9. QED
    BY <2>8 DEF CountsHeld
<1>5. CASE r.kind \notin {"slice", "cursor"}
  <2>1. h = <<>>
    BY <1>s, <1>1, <1>5, HeldFacts
  <2>2. Typed(a)
    BY LeafAnswers DEF Answers
  <2>3. a.n \in Nat
    BY <1>1, <2>2 DEF Typed
  <2>4. QED
    BY <2>1, <2>3 DEF CountsHeld
<1>6. QED
  BY <1>3, <1>4, <1>5

LEMMA BelowAnswers == \A n \in Nat : AnswersBelow(n)
<1>1. SUFFICES ASSUME NEW n \in Nat PROVE AnswersBelow(n)
  OBVIOUS
<1>2. \A i \in 1 .. n - 1 : i \in Nat
  OBVIOUS
<1>3. QED
  BY <1>2, AllAnswers DEF AnswersBelow

LEMMA BufferedCounts ==
  ASSUME NEW n \in Nat, NEW c \in Calls(n), NEW m \in Nat, FitsIn(m, c.t, c.w), Counted(n, c),
         c.t[n].kind = "buf", NEW o \in Methods[c.t[n].inner].num_ready_bytes[c],
         NEW a \in BufferedReady(c.t[n], o)
  PROVE  CountsHeld(n, c, a)
<1> DEFINE r == c.t[n]
           i == r.inner
           l == Len(r.buffer)
<1>1. r \in Node /\ c.t \in Having(n) /\ r.kind \in Buffered /\ AnswersBelow(n)
  BY CallFacts, BelowAnswers DEF Buffered
<1>2. i \in 1 .. n - 1 /\ Typed(o) /\ o.n <= i * m
  BY <1>1, InnerAnswers DEF Counted
<1>3. /\ m <= U64Max /\ U64Max \in Nat /\ n * m \in Nat /\ n * m <= U64Max
      /\ i * m \in Nat /\ i * m + m <= n * m
      /\ Most(r) <= m /\ l <= r.cap
  BY <1>1, <1>2, FitsFacts
<1>4. l \in Nat /\ l <= m /\ Held(c.t)[n] = r.buffer
  <2>1. r \in [kind : Buffered, cap : Nat \ {0}, buffer : Seq(Nat), inner : Nat]
    BY <1>1, NodeFacts
  <2>2. Most(r) = r.cap
    BY <1>1 DEF Most, Streams, Buffered
  <2>3. l \in Nat /\ r.cap \in Nat
    BY <2>1
  <2>4. Held(c.t)[n] = r.buffer
    BY <1>1, HeldFacts
  <2>5. QED
    BY <1>3, <2>2, <2>3, <2>4
<1> HIDE DEF l, i, r
<1>5. CASE o.how = "ok"
  <2> DEFINE x == l + o.n
  <2>1. o.n \in Nat /\ x \in Nat /\ l <= x
    BY <1>2, <1>3, <1>4 DEF Typed
  <2>2. x <= U64Max
    BY <1>2, <1>3, <1>4, <2>1
  <2>3. a \in U64(x)
    BY <1>5 DEF BufferedReady, l, r
  <2>4. x \in 0 .. U64Max /\ x \in Int
    BY <1>3, <2>1, <2>2
  <2> HIDE DEF x
  <2>5. a.n = x
    BY <2>3, <2>4, U64Facts
  <2>6. QED
    BY <1>4, <2>1, <2>5 DEF CountsHeld, l
<1>6. CASE o.how = "fails" /\ r.buffer # <<>>
  <2>1. a = Count(l)
    BY <1>6 DEF BufferedReady, l, r
  <2>2. a.n = l
    BY <2>1 DEF Count
  <2>3. QED
    BY <1>4, <2>2 DEF CountsHeld, l
<1>7. CASE o.how # "ok" /\ ~(o.how = "fails" /\ r.buffer # <<>>)
  <2>1. a = o
    BY <1>7 DEF BufferedReady, r
  <2>2. QED
    BY <1>7, <2>1 DEF CountsHeld
<1>8. QED
  BY <1>5, <1>6, <1>7

LEMMA LimitedCounts ==
  ASSUME NEW n \in Nat, NEW c \in Calls(n), c.t[n].kind = "take",
         NEW o, Typed(o), CountsHeld(c.t[n].inner, c, o), NEW a \in LimitedReady(c.t[n], o)
  PROVE  CountsHeld(n, c, a)
<1> DEFINE r == c.t[n]
           h == Held(c.t)[r.inner]
           x == Least(r.limit, o.n)
<1>1. r \in Node /\ c.t \in Having(n) /\ U64Max \in Nat
  BY CallFacts, ReadersAssumption
<1>2. r.limit \in Nat /\ h \in Seq(Nat) /\ Held(c.t)[n] = Prefix(h, r.limit)
  BY <1>1, NodeFacts, HeldFacts
<1>3. Len(Held(c.t)[n]) = Least(r.limit, Len(h))
  BY <1>2, PrefixFacts
<1>4. Len(h) \in Nat
  BY <1>2
<1>5. SUFFICES ASSUME a.how = "ok" PROVE Len(Held(c.t)[n]) <= a.n
  BY DEF CountsHeld
<1>6. o.how = "ok" /\ a = Count(x)
  BY <1>5 DEF LimitedReady
<1>7. Len(h) <= o.n /\ o.n \in Nat /\ a.n = x
  BY <1>1, <1>6 DEF CountsHeld, Typed, Count
<1>8. QED
  BY <1>2, <1>3, <1>4, <1>7 DEF Least

\* Every reader counts the bytes it holds.
LEMMA ReadyCountsHeld ==
  \A n \in Nat : \A c \in Calls(n) : \A m \in Nat :
    FitsIn(m, c.t, c.w) /\ Counted(n, c) =>
      \A a \in Methods[n].num_ready_bytes[c] : CountsHeld(n, c, a)
<1> DEFINE P(n, c, m) ==
             FitsIn(m, c.t, c.w) /\ Counted(n, c) =>
               \A a \in Methods[n].num_ready_bytes[c] : CountsHeld(n, c, a)
           T == {n \in Nat : \E c \in Calls(n) : \E m \in Nat : ~P(n, c, m)}
<1>s. /\ Streams = {"socket", "pipe", "windows_pipe"}
      /\ Adaptors = {"buf", "stdin", "take"} /\ Buffered = {"buf", "stdin"}
  BY DEF Streams, Adaptors, Buffered
<1>1. SUFFICES ASSUME T # {} PROVE FALSE
  OBVIOUS
<1>2. PICK n \in T : \A i \in T : ~(i < n)
  BY <1>1, LeastNumber
<1>3. n \in Nat /\ \A i \in 1 .. n - 1 : \A c \in Calls(i) : \A m \in Nat : P(i, c, m)
  BY <1>2
<1>4. PICK c \in Calls(n), m \in Nat : ~P(n, c, m)
  BY <1>2
<1>5. PICK a \in Methods[n].num_ready_bytes[c] : ~CountsHeld(n, c, a)
  BY <1>4
<1>6. FitsIn(m, c.t, c.w) /\ Counted(n, c)
  BY <1>4
<1>7. a \in NumReady(Methods, n, c)
  BY <1>3, <1>5, MethodsFacts
<1> DEFINE r == c.t[n]
<1>8. n \in Methods[n].asked[c.t]
  BY <1>3, CallFacts, AskedRange
<1>9. r.kind \notin {"chain", "stdin"}
  BY <1>6, <1>8 DEF Counted
<1>10. CASE r.kind = "buf"
  <2>1. PICK o \in Methods[r.inner].num_ready_bytes[c] : a \in BufferedReady(r, o)
    BY <1>s, <1>7, <1>10 DEF NumReady
  <2>2. QED
    BY <1>3, <1>5, <1>6, <1>10, <2>1, BufferedCounts
<1>11. CASE r.kind = "take"
  <2>1. PICK o \in Methods[r.inner].num_ready_bytes[c] : a \in LimitedReady(r, o)
    BY <1>s, <1>7, <1>11 DEF NumReady
  <2>2. r.inner \in 1 .. n - 1 /\ c \in Calls(r.inner) /\ Counted(r.inner, c)
    BY <1>3, <1>6, <1>11, CountedInside
  <2>3. P(r.inner, c, m)
    BY <1>3, <2>2
  <2>4. CountsHeld(r.inner, c, o)
    BY <1>6, <2>1, <2>2, <2>3
  <2>5. AnswersBelow(n)
    BY <1>3, BelowAnswers
  <2>6. Typed(o)
    BY <1>3, <1>6, <1>11, <2>1, <2>5, InnerAnswers
  <2>7. QED
    BY <1>3, <1>5, <1>11, <2>1, <2>4, <2>6, LimitedCounts
<1>12. CASE r.kind \notin Adaptors \cup {"chain"}
  BY <1>3, <1>5, <1>6, <1>7, <1>12, LeafCounts
<1>13. QED
  BY <1>s, <1>9, <1>10, <1>11, <1>12

-----------------------------------------------------------------------------
(***************************************************************************)
(* num_ready_bytes counts what was peeked                                  *)
(***************************************************************************)

\* No byte of a bare pipe is ever peeked.
PInv == SInv /\ (Kind = "pipe" => peeked = <<>>)

LEMMA OutcomeKind ==
  ASSUME SInv, NEW c \in Calls(Len(reader)), c.t = reader,
         NEW o, Valid(Len(reader), c, o), reader' = o.t
  PROVE  Kind' = Kind
<1>1. o.t \in Readers /\ Later(reader, o.t)
  BY DEF Valid, Outcomes
<1>2. Len(o.t) = Len(reader) /\ o.t[Len(reader)].kind = reader[Len(reader)].kind
  BY <1>1, InvFacts, KindKept
<1>3. QED
  BY <1>2 DEF Kind

\* A read of the user's reader keeps its kind.
LEMMA ReadKeepsKind ==
  ASSUME SInv, NEW k \in Sizes, reader' = Own.read[Call(k)].t
  PROVE  Kind' = Kind
<1> DEFINE n == Len(reader)
           c == Call(k)
           o == Methods[n].read[c]
<1>1. k \in Nat /\ RInv
  BY SizeFacts DEF SInv
<1>2. c \in Calls(n) /\ c.t = reader /\ n \in Nat
  BY <1>1, OwnCalls
<1>3. reader' = o.t
  BY DEF Own
<1> HIDE DEF c
<1>4. Valid(n, c, o)
  BY <1>2, ReadIsValid DEF ValidRead
<1> HIDE DEF o
<1>5. QED
  BY <1>2, <1>3, <1>4, OutcomeKind

LEMMA FillKeepsKind ==
  ASSUME SInv, PeekBufRead
  PROVE  Kind' = Kind
<1> DEFINE n == Len(reader)
<1>1. PICK k \in Sizes : PeekAnswers([Own.fill_buf[Call(k)] EXCEPT !.out = Prefix(@, k)])
  BY DEF PeekBufRead
<1> DEFINE c == Call(k)
           o == Methods[n].fill_buf[c]
           s == [o EXCEPT !.out = Prefix(o.out, k)]
<1>2. k \in Nat /\ RInv
  BY SizeFacts DEF SInv
<1>3. c \in Calls(n) /\ c.t = reader /\ n \in Nat
  BY <1>2, OwnCalls
<1>4. PeekAnswers(s)
  BY <1>1 DEF Own
<1>5. PICK b \in SUBSET DOMAIN reader :
        /\ n \in b
        /\ \A i \in b :
             \/ reader[i].kind \in {"slice", "cursor", "empty"} \cup Buffered
             \/ reader[i].kind \in {"take", "chain"} /\ Inside(reader[i]) \subseteq b
  BY DEF PeekBufRead, IsBufRead
<1>6. BufReads(b, c.t) /\ n \in Nat \cap b
  BY <1>3, <1>5 DEF BufReads
<1> HIDE DEF c
<1>7. Valid(n, c, o)
  BY <1>3, <1>6, FillIsValid DEF ValidFill
<1> HIDE DEF o
<1>8. s.t = o.t
  BY <1>7 DEF Valid, Outcomes
<1> HIDE DEF s
<1>9. reader' = o.t
  BY <1>4, <1>8 DEF PeekAnswers
<1>10. QED
  BY <1>3, <1>7, <1>9, OutcomeKind

LEMMA UserKeepsPipe ==
  ASSUME PInv, User, Kind' = "pipe"
  PROVE  peeked' = <<>>
<1>1. SInv /\ (Kind = "pipe" => peeked = <<>>)
  BY DEF PInv
<1>2. CASE NumReadyBytes \/ StatFile \/ ReadyOfFile \/ SeekToPeek \/ Wake
  <2>1. reader' = reader /\ peeked' = peeked
    BY <1>2 DEF NumReadyBytes, StatFile, ReadyOfFile, Ready, SeekToPeek, Wake, ghosts
  <2>2. QED
    BY <1>1, <2>1 DEF Kind
<1>3. CASE PeekBufRead
  <2>1. Kind = "pipe"
    BY <1>1, <1>3, FillKeepsKind
  <2>2. Kind \notin {"pipe"}
    BY <1>3 DEF PeekBufRead, IsBufRead, Kind, Buffered
  <2>3. QED
    BY <2>1, <2>2
<1>4. CASE PeekDirect
  <2>1. PICK k \in Sizes : PeekAnswers([Own.read[Call(k)] EXCEPT !.w = world])
    BY <1>4 DEF PeekDirect
  <2> DEFINE o == Own.read[Call(k)]
             s == [o EXCEPT !.w = world]
  <2>2. o \in Outcomes
    <3>1. k \in Nat /\ RInv
      BY <1>1, SizeFacts DEF SInv
    <3>2. Call(k) \in Calls(Len(reader)) /\ Len(reader) \in Nat
      BY <3>1, OwnCalls
    <3>3. Valid(Len(reader), Call(k), o)
      BY <3>2, ReadIsValid DEF ValidRead, Own
    <3>4. QED
      BY <3>3 DEF Valid
  <2>3. PeekAnswers(s)
    BY <2>1
  <2> HIDE DEF o
  <2>4. s.t = o.t
    BY <2>2 DEF Outcomes
  <2> HIDE DEF s
  <2>5. reader' = o.t
    BY <2>3, <2>4 DEF PeekAnswers
  <2>6. Kind' = Kind
    BY <1>1, <2>5, ReadKeepsKind DEF o
  <2>7. QED
    BY <1>4, <2>6 DEF PeekDirect
<1>5. CASE PeekPipe
  <2>1. PeekAnswers(Outcome("ok", <<>>, reader, world)) /\ "ok" # "blocks"
    BY <1>5 DEF PeekPipe
  <2>2. QED
    BY <2>1, PeekAnswersIs
<1>6. CASE PeekNamedPipe
  <2>1. reader' = reader /\ Kind = "windows_pipe"
    BY <1>6 DEF PeekNamedPipe, PeekAnswers, Outcome
  <2>2. QED
    BY <2>1 DEF Kind
<1>7. CASE PeekFile
  <2>1. reader' = reader /\ pc = "seek"
    BY <1>7 DEF PeekFile
  <2>2. reader[Len(reader)].kind = "file"
    BY <1>1, <2>1 DEF SInv
  <2>3. QED
    BY <2>1, <2>2 DEF Kind
<1>8. CASE Read
  <2>1. PICK k \in Sizes : LET o == Own.read[Call(k)] IN
          /\ reader' = o.t /\ world' = o.w
          /\ IF o.how = "blocks"
             THEN pc' = "blocked" /\ peeked' = peeked
             ELSE /\ pc' = "idle" /\ peeked' = Rest(peeked, Len(o.out))
                  /\ last'.how = o.how /\ last'.out = o.out
    BY <1>8, ReadIs
  <2> DEFINE o == Own.read[Call(k)]
  <2>2. Kind' = Kind
    BY <1>1, <2>1, ReadKeepsKind
  <2>3. peeked = <<>>
    BY <1>1, <2>2
  <2>4. o.out \in Seq(Nat)
    BY <1>1, ReadIsShown
  <2>5. Rest(<<>>, Len(o.out)) = <<>>
    BY <2>4, EmptyFacts
  <2>6. peeked' = peeked \/ peeked' = Rest(peeked, Len(o.out))
    BY <2>1
  <2>7. QED
    BY <2>3, <2>5, <2>6
<1>9. QED
  BY <1>2, <1>3, <1>4, <1>5, <1>6, <1>7, <1>8 DEF User

\* What was peeked and not read is the next bytes, and nothing of a pipe, which
\* says 0 when FIONREAD fails (io_ext.rs:237-252, read_ready.rs:81-89).
THEOREM PInvHolds == Spec => []PInv
<1>1. Init => PInv
  BY InitShows DEF PInv, Init
<1>2. PInv /\ [Next]_vars => PInv'
  <2>1. SUFFICES ASSUME PInv, [Next]_vars PROVE PInv'
    OBVIOUS
  <2>s. SInv
    BY <2>1 DEF PInv
  <2>2. CASE User
    BY <2>1, <2>2, <2>s, UserShows, UserKeepsPipe DEF PInv
  <2>3. CASE Others
    <3>1. SInv'
      BY <2>3, <2>s, OthersShows
    <3>2. reader' = reader /\ (peeked' = peeked \/ peeked' = <<>>)
      BY <2>3 DEF Others, Send, HangUp, SeekElsewhere, ResizeElsewhere, Disturb, ghosts
    <3>3. Kind' = Kind
      BY <3>2 DEF Kind
    <3>4. QED
      BY <2>1, <3>1, <3>2, <3>3 DEF PInv
  <2>4. CASE UNCHANGED vars
    <3>1. SInv' /\ reader' = reader /\ peeked' = peeked
      BY <2>4, <2>s, StutterShows DEF vars, ghosts
    <3>2. Kind' = Kind
      BY <3>1 DEF Kind
    <3>3. QED
      BY <2>1, <3>1, <3>2 DEF PInv
  <2>5. QED
    BY <2>1, <2>2, <2>3, <2>4 DEF Next
<1>3. QED
  BY <1>1, <1>2, PTL DEF Spec

LEMMA GoodFits ==
  ASSUME NEW t, NEW w, NEW a, Good(t, w, a)
  PROVE  \E m \in Nat : FitsIn(m, t, w)
<1>1. PICK m \in 0 .. U64Max : Len(t) * m <= U64Max /\ \A i \in DOMAIN t : Most(t[i]) <= m
  BY DEF Good, Fits
<1>2. m \in Nat
  BY <1>1, ReadersAssumption
<1>3. Len(w.stream) <= MaxArrived
  <2>1. Len(w.stream) \in Nat /\ a \in Len(w.stream) .. MaxArrived /\ MaxArrived \in Nat
    BY ReadersAssumption DEF Good, Kernel
  <2>2. QED
    BY <2>1
<1>4. FitsIn(m, t, w)
  BY <1>1, <1>3 DEF FitsIn, Good, Buffers
<1>5. QED
  BY <1>2, <1>4

\* Every answer that is not an error counts the whole source of a reader; that
\* of a pipe may be 0.
LEMMA ReadyCountsSource ==
  ASSUME NEW n, NEW c \in Calls(n), n = Len(c.t), Counted(n, c), NEW m \in Nat, FitsIn(m, c.t, c.w),
         c.t[n].kind \notin {"pipe", "windows_pipe"},
         NEW a \in Methods[n].num_ready_bytes[c], a.how = "ok"
  PROVE  Len(Source(c.t, c.w)) <= a.n
<1> DEFINE r == c.t[n]
<1>s. Streams = {"socket", "pipe", "windows_pipe"}
  BY DEF Streams
<1>1. n \in Nat /\ c.t \in Having(n) /\ c.w \in Kernel /\ c.k \in Nat
  BY CallFacts DEF Having, Readers
<1>2. Len(Held(c.t)[n]) <= a.n
  BY <1>1, ReadyCountsHeld DEF CountsHeld
<1>3. a \in NumReady(Methods, n, c)
  BY <1>1, MethodsFacts
<1>4. CASE r.kind = "socket"
  <2>1. a = Count(Len(c.w.stream)) \/ a = Failure
    BY <1>s, <1>3, <1>4 DEF NumReady, StreamReady, SocketReady
  <2>2. a = Count(Len(c.w.stream))
    BY <2>1, FailureFacts
  <2>3. a.n = Len(c.w.stream)
    BY <2>2 DEF Count
  <2>4. Source(c.t, c.w) = c.w.stream
    BY <1>s, <1>4 DEF Source
  <2>5. Len(c.w.stream) \in Nat
    BY <1>1 DEF Kernel
  <2>6. QED
    BY <2>3, <2>4, <2>5
<1>5. CASE r.kind = "file" /\ r.readable
  <2> DEFINE l == Len(c.w.file)
             p == c.w.pos
  <2>1. ~Misses(r, c) /\ ~Overstates(r, c.w)
    BY <1>1, AsksItself DEF Counted, Overruns
  <2>2. c.k = l /\ ~(p > l)
    BY <1>5, <2>1 DEF Misses, Overstates
  <2>3. a \in Remaining(l, p)
    <3>1. a = Failure \/ a \in Remaining(c.k, p)
      BY <1>s, <1>3, <1>5 DEF NumReady
    <3>2. QED
      BY <2>2, <3>1, FailureFacts
  <2>4. c.w.file \in Seq(Nat) /\ l \in Nat /\ p \in Nat
    BY <1>1 DEF Kernel
  <2>5. l <= m /\ m <= U64Max /\ U64Max \in Nat
    <3>0. MaxLen \in Nat
      BY ReadersAssumption
    <3>1. Most(r) = MaxLen
      BY <1>5 DEF Most, Streams, Buffered
    <3>2. l <= MaxLen /\ Most(r) <= m /\ m <= U64Max /\ U64Max \in Nat
      BY FitsFacts
    <3>3. QED
      BY <2>4, <3>0, <3>1, <3>2
  <2>6. Source(c.t, c.w) = Rest(c.w.file, p)
    BY <1>s, <1>5 DEF Source
  <2>7. p <= l
    BY <2>2, <2>4
  <2>8. Len(Rest(c.w.file, p)) = l - p
    BY <2>4, <2>7, RestFacts
  <2> HIDE DEF l, p
  <2>9. l - p \in 0 .. U64Max /\ l - p \in Int
    BY <2>4, <2>5, <2>7
  <2>10. a.n = l - p
    BY <2>3, <2>9, U64Facts DEF Remaining
  <2>11. QED
    BY <2>6, <2>8, <2>9, <2>10
<1>6. CASE r.kind = "file" /\ ~r.readable
  <2>1. Failure = a
    BY <1>s, <1>3, <1>6 DEF NumReady
  <2>2. QED
    BY <2>1, FailureFacts
<1>7. CASE r.kind \notin {"socket", "file"}
  <2>1. Source(c.t, c.w) = Held(c.t)[n]
    BY <1>s, <1>7 DEF Source
  <2>2. QED
    BY <1>2, <2>1
<1>8. QED
  BY <1>4, <1>5, <1>6, <1>7

LEMMA CountsWhatWasPeeked ==
  ASSUME PInv, NumReadyBytes \/ ReadyOfFile, last'.how = "ok", ~disturbed,
         \A i \in Asked : /\ reader[i].kind \notin {"chain", "repeat", "stdin", "windows_pipe"}
                          /\ ~Overstates(reader[i], world)
  PROVE  last'.n >= Len(peeked)
<1> DEFINE n == Len(reader)
           c == Call(saved)
<1>1. /\ SInv /\ RInv /\ saved \in Nat /\ Good(reader, world, arrived)
      /\ Kind = "pipe" => peeked = <<>>
  BY DEF PInv, SInv, RInv
<1>2. c \in Calls(n) /\ c.k = saved /\ c.t = reader /\ c.w = world /\ n \in Nat
  BY <1>1, OwnCalls
<1>3. PICK a \in Methods[n].num_ready_bytes[c] : last' = Answer("ready", a.how, <<>>, a.n)
  BY DEF NumReadyBytes, ReadyOfFile, Ready, Own
<1> HIDE DEF c
<1>4. a.how = "ok" /\ last'.n = a.n
  BY <1>3 DEF Answer
<1>5. Asked = Methods[n].asked[c.t]
  BY <1>2 DEF Asked, Own
<1>6. ASSUME NEW i \in Asked PROVE ~Misses(reader[i], c)
  <2>1. SUFFICES ASSUME Misses(reader[i], c) PROVE FALSE
    OBVIOUS
  <2>2. reader[i].kind = "file" /\ reader[i].readable /\ saved # Len(world.file)
    BY <1>2, <2>1 DEF Misses
  <2>3. AsksFile
    BY <2>2 DEF AsksFile
  <2>4. pc = "stat"
    BY <2>3 DEF NumReadyBytes, ReadyOfFile
  <2>5. QED
    BY <1>1, <2>2, <2>4 DEF RInv
<1>7. Counted(n, c)
  BY <1>2, <1>5, <1>6 DEF Counted, AsksOverrun, Overruns
<1>8. PICK m \in Nat : FitsIn(m, c.t, c.w)
  BY <1>1, <1>2, GoodFits
<1>9. /\ reader \in Readers /\ reader # <<>> /\ peeked \in Seq(Nat)
      /\ Shown(peeked, reader, world) /\ Source(reader, world) \in Seq(Nat)
  BY <1>1, InvFacts
<1>10. n \in Asked
  <2>1. reader \in Having(n)
    BY <1>1, InvFacts
  <2>2. QED
    BY <1>2, <1>5, <2>1, AskedRange
<1>11. Kind \notin {"chain", "repeat", "stdin", "windows_pipe"}
  BY <1>10 DEF Kind
<1>12. Typed(a) /\ a.n \in Nat
  <2>1. Typed(a)
    BY <1>1, <1>2, ReadyAnswers
  <2>2. QED
    BY <2>1, ReadersAssumption DEF Typed
<1>13. CASE Kind = "pipe"
  <2>1. Len(peeked) = 0
    BY <1>1, <1>13
  <2>2. QED
    BY <1>4, <1>12, <2>1
<1>14. CASE Kind # "pipe"
  <2> DEFINE h == Source(reader, world)
  <2>1. c.t[n].kind \notin {"pipe", "windows_pipe"} /\ n = Len(c.t)
    BY <1>2, <1>11, <1>14 DEF Kind
  <2>2. Len(Source(c.t, c.w)) <= a.n
    BY <1>2, <1>4, <1>7, <1>8, <2>1, ReadyCountsSource
  <2>3. Len(h) <= a.n
    BY <1>2, <2>2
  <2>4. peeked = Prefix(h, Len(peeked))
    BY <1>9, <1>11 DEF Shown, Kind
  <2> HIDE DEF h
  <2>5. h \in Seq(Nat) /\ Len(peeked) \in Nat /\ Len(h) \in Nat
    BY <1>9 DEF h
  <2>6. Len(Prefix(h, Len(peeked))) <= Len(h)
    BY <2>5, PrefixFacts
  <2>7. Len(peeked) <= Len(h)
    BY <2>4, <2>6
  <2>8. QED
    BY <1>4, <1>12, <2>3, <2>5, <2>7
<1>15. QED
  BY <1>13, <1>14

\* Bytes peeked and not yet read are counted by num_ready_bytes, through every
\* composition of readers that counts its own bytes, whatever calls and bytes
\* came since the peek (read_ready.rs:46-52, 180-236, 299-320).
THEOREM PeekedIsReadyThm == Spec => PeekedIsReady
<1>1. PInv /\ [Next]_vars =>
        [(NumReadyBytes \/ ReadyOfFile) /\ last'.how = "ok" /\ ~disturbed
         /\ (\A n \in Asked : /\ reader[n].kind \notin {"chain", "repeat", "stdin", "windows_pipe"}
                            /\ ~Overstates(reader[n], world))
           => last'.n >= Len(peeked)]_vars
  BY CountsWhatWasPeeked
<1>2. QED
  BY <1>1, PInvHolds, PTL DEF Spec, PeekedIsReady

=============================================================================
