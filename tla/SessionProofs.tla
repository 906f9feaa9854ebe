--------------------------- MODULE SessionProofs ---------------------------
(***************************************************************************)
(* Proofs about an interactive session, for every size of the queues and   *)
(* of the line buffer and for every sequence of keys, writes, yields and   *)
(* traps.                                                                  *)
(***************************************************************************)
EXTENDS TextSession, SequenceTheorems, WellFoundedInduction, TLAPS

-----------------------------------------------------------------------------
(* Induction up to a bound, and functions defined by recursion up to one.  *)
LEMMA LeastNatural ==
  ASSUME NEW T \in SUBSET Nat, T # {} PROVE \E x \in T : \A y \in T : x <= y
<1> DEFINE R == OpToRel(<, Nat)
<1>1. IsWellFoundedOn(R, Nat)
  BY NatLessThanWellFounded
<1>2. \A x, y \in Nat : <<y, x>> \in R <=> y < x
  BY DEF OpToRel
<1> HIDE DEF R
<1>3. PICK x \in T : \A y \in T : ~(<<y, x>> \in R)
  BY <1>1, WFMin
<1>4. \A y \in T : ~(y < x)
  BY <1>2, <1>3
<1> QED  BY <1>4

LEMMA UpTo ==
  ASSUME NEW L \in Nat, NEW T, 0 \in T, \A n \in 1..L : n - 1 \in T => n \in T
  PROVE  \A n \in 0..L : n \in T
<1> DEFINE bad == {n \in 0..L : n \notin T}
<1> SUFFICES ASSUME bad # {} PROVE FALSE
  OBVIOUS
<1>1. bad \in SUBSET Nat
  OBVIOUS
<1>2. PICK n \in bad : \A k \in bad : n <= k
  BY <1>1, LeastNatural
<1>3. n \in 1..L /\ n - 1 \in 0..L /\ ~(n <= n - 1)
  BY <1>2
<1>4. n - 1 \in T
  BY <1>2, <1>3
<1> QED  BY <1>3, <1>4

Steps(L, S) == [1..L -> [S -> S]]
Chain(f, L, S, start, step) ==
  f \in [0..L -> S] /\ f[0] = start /\ \A n \in 1..L : f[n] = step[n][f[n - 1]]
LEMMA Recursion ==
  ASSUME NEW L \in Nat, NEW S, NEW start \in S, NEW step \in Steps(L, S)
  PROVE  \E f : Chain(f, L, S, start, step)
<1> DEFINE Good(f, n) == f[0] = start /\ \A i \in 1..n : f[i] = step[i][f[i - 1]]
           T == {n \in 0..L : \E f \in [0..n -> S] : Good(f, n)}
<1>1. 0 \in T
  <2>1. PICK f : f = [n \in 0..0 |-> start]
    OBVIOUS
  <2>2. f \in [0..0 -> S] /\ Good(f, 0)
    BY <2>1
  <2>3. 0 \in 0..L
    OBVIOUS
  <2> QED  BY <2>2, <2>3
<1>2. ASSUME NEW n \in 1..L, n - 1 \in T PROVE n \in T
  <2>1. PICK f \in [0..(n - 1) -> S] : Good(f, n - 1)
    BY <1>2
  <2>2. PICK h : h = [i \in 0..n |-> IF i = n THEN step[n][f[n - 1]] ELSE f[i]]
    OBVIOUS
  <2>3. \A i \in 0..(n - 1) : i \in 0..n /\ i # n /\ h[i] = f[i] /\ f[i] \in S
    BY <2>2
  <2>4. n - 1 \in 0..(n - 1) /\ n \in 0..n /\ 0 \in 0..(n - 1)
    OBVIOUS
  <2>5. step[n] \in [S -> S] /\ f[n - 1] \in S /\ h[n] = step[n][f[n - 1]]
    BY <2>2, <2>3, <2>4 DEF Steps
  <2>6. h[n] \in S /\ h[n] = step[n][h[n - 1]]
    BY <2>3, <2>4, <2>5
  <2>7. h \in [0..n -> S]
    <3>1. \A i \in 0..n : i = n \/ i \in 0..(n - 1)
      OBVIOUS
    <3>2. \A i \in 0..n : h[i] \in S
      BY <3>1, <2>3, <2>6
    <3> QED  BY <3>2, <2>2
  <2>8. Good(h, n)
    <3>1. h[0] = start
      BY <2>1, <2>3, <2>4
    <3>2. ASSUME NEW i \in 1..n PROVE h[i] = step[i][h[i - 1]]
      <4>1. CASE i = n
        BY <4>1, <2>6
      <4>2. CASE i # n
        <5>1. i \in 1..(n - 1) /\ i \in 0..(n - 1) /\ i - 1 \in 0..(n - 1)
          BY <4>2
        <5> QED  BY <5>1, <2>1, <2>3
      <4> QED  BY <4>1, <4>2
    <3> QED  BY <3>1, <3>2
  <2> QED  BY <2>7, <2>8
<1>3. L \in 0..L
  OBVIOUS
<1> HIDE DEF T
<1>4. L \in T
  BY <1>1, <1>2, <1>3, UpTo
<1> QED  BY <1>4 DEF T, Chain

LEMMA MaxIs ==
  ASSUME NEW S \in SUBSET Int, NEW x \in S, \A y \in S : y <= x PROVE Max(S) = x
<1>1. \A z \in S : (\A y \in S : z >= y) => z = x
  OBVIOUS
<1> QED  BY <1>1 DEF Max

LEMMA PrefixOf ==
  ASSUME NEW S, NEW q \in Seq(S), NEW n \in Nat, n <= Len(q)
  PROVE  /\ SubSeq(q, 1, n) \in Seq(S) /\ Len(SubSeq(q, 1, n)) = n
         /\ \A i \in 1..n : SubSeq(q, 1, n)[i] = q[i]
<1>1. Len(q) \in Nat /\ \A i \in 1..n : q[i] \in S
  OBVIOUS
<1>2. \A i \in 1..(n - 1 + 1) : SubSeq(q, 1, n)[i] = q[1 + i - 1]
  BY <1>1, SubSeqProperties
<1>3. SubSeq(q, 1, n) \in Seq(S) /\ Len(SubSeq(q, 1, n)) = IF 1 <= n THEN n - 1 + 1 ELSE 0
  BY <1>1, SubSeqProperties
<1>4. \A i \in 1..n : SubSeq(q, 1, n)[i] = q[i]
  BY <1>2
<1> QED  BY <1>3, <1>4

LEMMA MaxOfWritten ==
  ASSUME NEW bound \in Int, NEW S \in SUBSET Int, S # {}, \A x \in S : x <= bound
  PROVE  Max(S) \in S /\ \A y \in S : y <= Max(S)
<1> DEFINE T == {bound - x : x \in S}
<1>1. T \in SUBSET Nat /\ T # {}
  <2>1. \A x \in S : bound - x \in Nat
    OBVIOUS
  <2> QED  BY <2>1
<1>2. PICK t \in T : \A y \in T : t <= y
  BY <1>1, LeastNatural
<1>3. PICK x \in S : t = bound - x
  BY <1>2
<1>4. \A y \in S : y <= x
  BY <1>2, <1>3
<1> QED  BY <1>4, MaxIs

LEMMA MinIs ==
  ASSUME NEW x \in Int, NEW y \in Int PROVE Min({x, y}) = IF x <= y THEN x ELSE y
<1>1. CASE x <= y
  <2>1. \A z \in {x, y} : (\A u \in {x, y} : z <= u) => z = x
    BY <1>1
  <2>2. x \in {x, y} /\ \A u \in {x, y} : x <= u
    BY <1>1
  <2> QED  BY <2>1, <2>2, <1>1 DEF Min
<1>2. CASE ~(x <= y)
  <2>1. \A z \in {x, y} : (\A u \in {x, y} : z <= u) => z = y
    BY <1>2
  <2>2. y \in {x, y} /\ \A u \in {x, y} : y <= u
    BY <1>2
  <2> QED  BY <2>1, <2>2, <1>2 DEF Min
<1> QED  BY <1>1, <1>2

LEMMA FrontOf ==
  ASSUME NEW S, NEW q \in Seq(S), q # <<>>
  PROVE  /\ Len(q) \in Nat /\ Len(q) >= 1 /\ Last(q) \in S /\ Last(q) = q[Len(q)]
         /\ Front(q) \in Seq(S) /\ Len(Front(q)) = Len(q) - 1
         /\ \A i \in 1..(Len(q) - 1) : Front(q)[i] = q[i]
<1>1. Len(q) \in Nat /\ Len(q) >= 1 /\ Len(q) - 1 \in Nat /\ Len(q) - 1 <= Len(q) /\ Len(q) \in 1..Len(q)
  OBVIOUS
<1>2. Last(q) = q[Len(q)] /\ q[Len(q)] \in S
  BY <1>1 DEF Last
<1> QED  BY <1>1, <1>2, PrefixOf DEF Front

LEMMA FrontOfAppend ==
  ASSUME NEW S, NEW q \in Seq(S), NEW x \in S
  PROVE  Front(Append(q, x)) = q /\ Last(Append(q, x)) = x /\ Append(q, x) \in Seq(S) /\ Append(q, x) # <<>>
<1>1. PICK r : r = Append(q, x)
  OBVIOUS
<1>2. /\ r \in Seq(S) /\ r # <<>> /\ Len(r) = Len(q) + 1 /\ r[Len(q) + 1] = x /\ Len(q) \in Nat
      /\ \A i \in 1..Len(q) : r[i] = q[i]
  BY <1>1, AppendProperties
<1>3. /\ Last(r) = r[Len(r)] /\ Front(r) \in Seq(S) /\ Len(Front(r)) = Len(r) - 1
      /\ \A i \in 1..(Len(r) - 1) : Front(r)[i] = r[i]
  BY <1>2, FrontOf
<1>4. Len(Front(r)) = Len(q) /\ \A i \in 1..Len(q) : Front(r)[i] = q[i]
  BY <1>2, <1>3
<1>5. Front(r) = q
  <2>1. Front(r) \in [1..Len(q) -> S] /\ q \in [1..Len(q) -> S]
    BY <1>3, <1>4
  <2> QED  BY <2>1, <1>4
<1> QED  BY <1>1, <1>2, <1>3, <1>5

LEMMA PrefixGrows ==
  ASSUME NEW S, NEW q \in Seq(S), NEW n \in Nat, 1 <= n, n <= Len(q)
  PROVE  SubSeq(q, 1, n - 1) \o <<q[n]>> = SubSeq(q, 1, n)
<1>1. PICK p : p = SubSeq(q, 1, n)
  OBVIOUS
<1>2. p \in Seq(S) /\ Len(p) = n /\ \A i \in 1..n : p[i] = q[i]
  BY <1>1, PrefixOf
<1>3. PICK f : f = SubSeq(q, 1, n - 1)
  OBVIOUS
<1>4. f \in Seq(S) /\ Len(f) = n - 1 /\ \A i \in 1..(n - 1) : f[i] = q[i]
  <2>1. n - 1 \in Nat /\ n - 1 <= Len(q)
    OBVIOUS
  <2> QED  BY <1>3, <2>1, PrefixOf
<1>5. PICK x : x = q[n] /\ x \in S
  OBVIOUS
<1>6. /\ Append(f, x) \in Seq(S) /\ Len(Append(f, x)) = n /\ Append(f, x)[n] = x
      /\ \A i \in 1..(n - 1) : Append(f, x)[i] = f[i]
  BY <1>4, <1>5, AppendProperties
<1>7. PICK a : a = Append(f, x)
  OBVIOUS
<1>8. \A i \in 1..n : a[i] = p[i]
  BY <1>2, <1>4, <1>5, <1>6, <1>7
<1>9. a \in [1..n -> S] /\ p \in [1..n -> S]
  <2>1. a \in Seq(S) /\ Len(a) = n
    BY <1>6, <1>7
  <2>2. a \in [1..Len(a) -> S] /\ p \in [1..Len(p) -> S]
    BY <1>2, <2>1
  <2> QED  BY <1>2, <2>1, <2>2
<1>10. a = p
  BY <1>8, <1>9
<1>11. Append(f, x) = f \o <<x>>
  BY <1>4, <1>5, AppendIsConcat
<1> QED  BY <1>1, <1>3, <1>5, <1>7, <1>10, <1>11

-----------------------------------------------------------------------------
(* Documents.                                                              *)
OutBytes == Printable \cup {"newline", "delete", "o", "t", "/", ">", "none"}
Docs == {d \in Seq(Seq(OutBytes)) : d # <<>>}

LEMMA ExtendIs ==
  ASSUME NEW d \in Docs, NEW s \in Seq(OutBytes)
  PROVE  /\ Extend(d, s) \in Docs /\ Front(Extend(d, s)) = Front(d)
         /\ Last(Extend(d, s)) = Last(d) \o s /\ Front(d) \in Seq(Seq(OutBytes))
         /\ Last(d) \in Seq(OutBytes) /\ Last(d) \o s \in Seq(OutBytes)
<1>1. d \in Seq(Seq(OutBytes)) /\ d # <<>>
  BY DEF Docs
<1>2. Front(d) \in Seq(Seq(OutBytes)) /\ Last(d) \in Seq(OutBytes)
  BY <1>1, FrontOf
<1>3. PICK x : x = Last(d) \o s
  OBVIOUS
<1>4. x \in Seq(OutBytes)
  BY <1>2, <1>3, ConcatProperties
<1>5. PICK p : p = Front(d)
  OBVIOUS
<1>6. /\ Front(Append(p, x)) = p /\ Last(Append(p, x)) = x
      /\ Append(p, x) \in Seq(Seq(OutBytes)) /\ Append(p, x) # <<>>
  BY <1>2, <1>4, <1>5, FrontOfAppend
<1>7. Extend(d, s) = Append(p, x)
  BY <1>3, <1>5 DEF Extend
<1> QED  BY <1>2, <1>3, <1>4, <1>5, <1>6, <1>7 DEF Docs

LEMMA ExtendNothing == ASSUME NEW d \in Docs PROVE Extend(d, <<>>) = d
<1>1. PICK e : e = Extend(d, <<>>)
  OBVIOUS
<1>2. <<>> \in Seq(OutBytes) /\ d \in Seq(Seq(OutBytes)) /\ d # <<>>
  BY DEF Docs
<1>3. /\ e \in Docs /\ Front(e) = Front(d) /\ Last(e) = Last(d) \o <<>> /\ Last(d) \in Seq(OutBytes)
  BY <1>1, <1>2, ExtendIs
<1>4. Last(e) = Last(d) /\ e \in Seq(Seq(OutBytes)) /\ e # <<>>
  BY <1>3, ConcatEmptySeq DEF Docs
<1>5. /\ Len(d) \in Nat /\ Len(d) >= 1 /\ Last(d) = d[Len(d)] /\ Len(Front(d)) = Len(d) - 1
      /\ \A i \in 1..(Len(d) - 1) : Front(d)[i] = d[i]
  BY <1>2, FrontOf
<1>6. /\ Len(e) \in Nat /\ Len(e) >= 1 /\ Last(e) = e[Len(e)] /\ Len(Front(e)) = Len(e) - 1
      /\ \A i \in 1..(Len(e) - 1) : Front(e)[i] = e[i]
  BY <1>4, FrontOf
<1>7. Len(e) = Len(d)
  BY <1>3, <1>5, <1>6
<1>8. \A i \in 1..Len(d) : e[i] = d[i]
  <2>1. \A i \in 1..Len(d) : i = Len(d) \/ i \in 1..(Len(d) - 1)
    BY <1>5
  <2> QED  BY <2>1, <1>3, <1>4, <1>5, <1>6, <1>7
<1>9. e = d
  <2>1. e \in [1..Len(d) -> Seq(OutBytes)] /\ d \in [1..Len(d) -> Seq(OutBytes)]
    BY <1>2, <1>4, <1>7
  <2> QED  BY <2>1, <1>8
<1> QED  BY <1>1, <1>9

LEMMA ExtendTwice ==
  ASSUME NEW d \in Docs, NEW s \in Seq(OutBytes), NEW b \in OutBytes
  PROVE  Extend(Extend(d, s), <<b>>) = Extend(d, Append(s, b))
<1>1. <<b>> \in Seq(OutBytes) /\ Append(s, b) = s \o <<b>>
  BY AppendIsConcat
<1>2. /\ Extend(d, s) \in Docs /\ Front(Extend(d, s)) = Front(d) /\ Last(Extend(d, s)) = Last(d) \o s
      /\ Last(d) \in Seq(OutBytes)
  BY ExtendIs
<1>3. (Last(d) \o s) \o <<b>> = Last(d) \o (s \o <<b>>)
  BY <1>1, <1>2, ConcatAssociative
<1> QED  BY <1>1, <1>2, <1>3 DEF Extend

LEMMA RubOutIs ==
  ASSUME NEW d \in Docs
  PROVE  /\ RubOut(d, 1) \in Docs
         /\ Last(d) # <<>> => RubOut(d, 1) = Append(Front(d), Front(Last(d)))
<1>1. d \in Seq(Seq(OutBytes)) /\ d # <<>>
  BY DEF Docs
<1>2. Len(d) \in Nat /\ Len(d) >= 1 /\ Last(d) = d[Len(d)]
  BY <1>1, FrontOf
<1>3. PICK written : written = {r \in 1..Len(d) : d[r] # <<>>}
  OBVIOUS
<1>4. RubOut(d, 1) = IF written = {} THEN d
                     ELSE Append(SubSeq(d, 1, Max(written) - 1), Front(d[Max(written)]))
  BY <1>3 DEF RubOut
<1>5. CASE written = {}
  <2>1. Last(d) = <<>>
    <3>1. Len(d) \in 1..Len(d)
      BY <1>2
    <3> QED  BY <3>1, <1>2, <1>3, <1>5
  <2> QED  BY <2>1, <1>4, <1>5
<1>6. CASE written # {}
  <2>1. written \in SUBSET Int /\ \A x \in written : x <= Len(d)
    BY <1>2, <1>3
  <2>2. PICK top : top = Max(written)
    OBVIOUS
  <2>3. top \in written /\ \A y \in written : y <= top
    <3>1. Len(d) \in Int
      BY <1>2
    <3>2. Max(written) \in written /\ \A y \in written : y <= Max(written)
      BY <3>1, <2>1, <1>6, MaxOfWritten
    <3> QED  BY <3>2, <2>2
  <2>4. top \in 1..Len(d) /\ d[top] # <<>> /\ d[top] \in Seq(OutBytes)
    BY <2>3, <1>1, <1>2, <1>3
  <2>5. Front(d[top]) \in Seq(OutBytes)
    BY <2>4, FrontOf
  <2>6. SubSeq(d, 1, top - 1) \in Seq(Seq(OutBytes))
    <3>1. top - 1 \in Nat /\ top - 1 <= Len(d)
      BY <2>4, <1>2
    <3> QED  BY <3>1, <1>1, PrefixOf
  <2>7. PICK p : p = SubSeq(d, 1, top - 1)
    OBVIOUS
  <2>8. PICK x : x = Front(d[top])
    OBVIOUS
  <2>9. Append(p, x) \in Seq(Seq(OutBytes)) /\ Append(p, x) # <<>>
    BY <2>5, <2>6, <2>7, <2>8, AppendProperties
  <2>10. RubOut(d, 1) = Append(p, x)
    BY <2>2, <2>7, <2>8, <1>4, <1>6
  <2>11. ASSUME Last(d) # <<>> PROVE RubOut(d, 1) = Append(Front(d), Front(Last(d)))
    <3>1. Len(d) \in written
      BY <2>11, <1>2, <1>3
    <3>2. top = Len(d)
      BY <3>1, <2>3, <2>4, <1>2
    <3>3. p = Front(d) /\ x = Front(Last(d))
      BY <3>2, <2>7, <2>8, <1>2 DEF Front
    <3> QED  BY <3>3, <2>10
  <2> QED  BY <2>9, <2>10, <2>11 DEF Docs
<1> QED  BY <1>5, <1>6

LEMMA RubOutLast ==
  ASSUME NEW d \in Docs, NEW s \in Seq(OutBytes), s # <<>>
  PROVE  RubOut(Extend(d, s), 1) = Extend(d, Front(s))
<1>1. PICK e : e = Extend(d, s)
  OBVIOUS
<1>2. PICK l : l = Last(d)
  OBVIOUS
<1>3. /\ e \in Docs /\ Front(e) = Front(d) /\ Last(e) = l \o s /\ l \in Seq(OutBytes)
      /\ l \o s \in Seq(OutBytes)
  BY <1>1, <1>2, ExtendIs
<1>4. /\ Len(s) \in Nat /\ Len(s) >= 1 /\ Front(s) \in Seq(OutBytes) /\ Len(Front(s)) = Len(s) - 1
      /\ \A i \in 1..(Len(s) - 1) : Front(s)[i] = s[i]
  BY FrontOf
<1>5. PICK j : j = l \o s
  OBVIOUS
<1>6. /\ j \in Seq(OutBytes) /\ Len(l) \in Nat /\ Len(j) = Len(l) + Len(s)
      /\ \A i \in 1..(Len(l) + Len(s)) : j[i] = IF i <= Len(l) THEN l[i] ELSE s[i - Len(l)]
  BY <1>3, <1>5, ConcatProperties
<1>7. j # <<>>
  BY <1>4, <1>6
<1>8. /\ Front(j) \in Seq(OutBytes) /\ Len(Front(j)) = Len(j) - 1
      /\ \A i \in 1..(Len(j) - 1) : Front(j)[i] = j[i]
  BY <1>6, <1>7, FrontOf
<1>9. PICK k : k = l \o Front(s)
  OBVIOUS
<1>10. /\ k \in Seq(OutBytes) /\ Len(k) = Len(l) + (Len(s) - 1)
       /\ \A i \in 1..(Len(l) + (Len(s) - 1)) : k[i] = IF i <= Len(l) THEN l[i] ELSE Front(s)[i - Len(l)]
  <2>1. PICK r : r = Front(s)
    OBVIOUS
  <2>2. /\ l \o r \in Seq(OutBytes) /\ Len(l \o r) = Len(l) + Len(r)
        /\ \A i \in 1..(Len(l) + Len(r)) : (l \o r)[i] = IF i <= Len(l) THEN l[i] ELSE r[i - Len(l)]
    BY <1>3, <1>4, <2>1, ConcatProperties
  <2> QED  BY <2>1, <2>2, <1>4, <1>9
<1>11. Front(j) = k
  <2>1. Len(Front(j)) = Len(k) /\ Len(k) \in Nat
    BY <1>4, <1>6, <1>8, <1>10
  <2>2. ASSUME NEW i \in 1..Len(k) PROVE Front(j)[i] = k[i]
    <3>1. i \in 1..(Len(j) - 1) /\ i \in 1..(Len(l) + Len(s)) /\ i \in 1..(Len(l) + (Len(s) - 1))
      BY <1>4, <1>6, <1>10
    <3>2. CASE i <= Len(l)
      BY <3>1, <3>2, <1>6, <1>8, <1>10
    <3>3. CASE ~(i <= Len(l))
      <4>1. i - Len(l) \in 1..(Len(s) - 1)
        BY <3>1, <3>3, <1>4, <1>6
      <4>2. Front(s)[i - Len(l)] = s[i - Len(l)]
        BY <4>1, <1>4
      <4> QED  BY <3>1, <3>3, <4>2, <1>6, <1>8, <1>10
    <3> QED  BY <3>2, <3>3
  <2>3. Front(j) \in [1..Len(k) -> OutBytes] /\ k \in [1..Len(k) -> OutBytes]
    <3>1. PICK r : r = Front(j)
      OBVIOUS
    <3>2. r \in Seq(OutBytes) /\ k \in Seq(OutBytes) /\ Len(r) = Len(k)
      BY <3>1, <2>1, <1>8, <1>10
    <3>3. r \in [1..Len(r) -> OutBytes] /\ k \in [1..Len(k) -> OutBytes]
      BY <3>2
    <3> QED  BY <3>1, <3>2, <3>3
  <2> QED  BY <2>2, <2>3
<1>12. RubOut(e, 1) = Append(Front(e), Front(Last(e)))
  BY <1>3, <1>5, <1>7, RubOutIs
<1>13. RubOut(e, 1) = Append(Front(d), k)
  BY <1>3, <1>5, <1>11, <1>12
<1> QED  BY <1>1, <1>2, <1>9, <1>13 DEF Extend

LEMMA ShowByteType == ASSUME NEW d \in Docs, NEW b \in OutBytes PROVE ShowByte(d, b) \in Docs
<1>1. NewLine(d) \in Docs
  <2>1. d \in Seq(Seq(OutBytes)) /\ <<>> \in Seq(OutBytes)
    BY DEF Docs
  <2>2. PICK x : x = <<>> /\ x \in Seq(OutBytes)
    BY <2>1
  <2>3. Append(d, x) \in Seq(Seq(OutBytes)) /\ Append(d, x) # <<>>
    BY <2>1, <2>2, AppendProperties
  <2> QED  BY <2>2, <2>3 DEF NewLine, Docs
<1>2. RubOut(d, 1) \in Docs
  BY RubOutIs
<1>3. Extend(d, <<b>>) \in Docs
  <2>1. <<b>> \in Seq(OutBytes)
    OBVIOUS
  <2> QED  BY <2>1, ExtendIs
<1> QED  BY <1>1, <1>2, <1>3 DEF ShowByte

LEMMA ShowIs ==
  ASSUME NEW d \in Docs, NEW bytes \in Seq(OutBytes)
  PROVE  /\ Show(d, bytes) \in Docs
         /\ Len(bytes) = 0 => Show(d, bytes) = d
         /\ Len(bytes) = 1 => Show(d, bytes) = ShowByte(d, bytes[1])
<1> DEFINE L == Len(bytes)
           Is(f) == f = [n \in 0..L |-> IF n = 0 THEN d ELSE ShowByte(f[n - 1], bytes[n])]
<1>1. L \in Nat /\ \A n \in 1..L : bytes[n] \in OutBytes
  OBVIOUS
<1>d. Show(d, bytes) = (CHOOSE f : Is(f))[L]
  BY DEF Show
<1>2. \A e \in Docs : \A n \in 1..L : ShowByte(e, bytes[n]) \in Docs
  BY <1>1, ShowByteType
<1>3. PICK step : step = [n \in 1..L |-> [e \in Docs |-> ShowByte(e, bytes[n])]]
  OBVIOUS
<1>4. step \in Steps(L, Docs)
  BY <1>2, <1>3 DEF Steps
<1> HIDE DEF L, Is
<1>5. PICK f : Chain(f, L, Docs, d, step)
  BY <1>1, <1>4, Recursion
<1>6. f \in [0..L -> Docs] /\ f[0] = d /\ \A n \in 1..L : f[n] = step[n][f[n - 1]]
  BY <1>5 DEF Chain
<1>7. ASSUME NEW n \in 1..L PROVE f[n] = ShowByte(f[n - 1], bytes[n])
  <2>1. n - 1 \in 0..L
    BY <1>1
  <2>2. f[n - 1] \in Docs
    BY <2>1, <1>6
  <2> QED  BY <2>2, <1>3, <1>6
<1>8. Is(f)
  <2>1. ASSUME NEW n \in 0..L PROVE f[n] = IF n = 0 THEN d ELSE ShowByte(f[n - 1], bytes[n])
    <3>1. CASE n = 0
      BY <3>1, <1>6
    <3>2. CASE n # 0
      <4>1. n \in 1..L
        BY <3>2, <1>1
      <4> QED  BY <3>2, <4>1, <1>7
    <3> QED  BY <3>1, <3>2
  <2> QED  BY <2>1, <1>6 DEF Is
<1>9. PICK shown : shown = CHOOSE h : Is(h)
  OBVIOUS
<1>10. Is(shown)
  BY <1>8, <1>9
<1>11. shown[0] = d /\ \A n \in 1..L : shown[n] = ShowByte(shown[n - 1], bytes[n])
  <2>1. \A n \in 0..L : shown[n] = IF n = 0 THEN d ELSE ShowByte(shown[n - 1], bytes[n])
    BY <1>10 DEF Is
  <2>2. 0 \in 0..L /\ \A n \in 1..L : n \in 0..L /\ n # 0
    BY <1>1
  <2> QED  BY <2>1, <2>2
<1> DEFINE T == {n \in 0..L : shown[n] \in Docs}
<1>12. 0 \in T
  BY <1>1, <1>11
<1>13. ASSUME NEW n \in 1..L, n - 1 \in T PROVE n \in T
  <2>1. n \in 0..L /\ shown[n - 1] \in Docs
    BY <1>1, <1>13
  <2> QED  BY <2>1, <1>2, <1>11
<1>14. L \in 0..L
  BY <1>1
<1> HIDE DEF T
<1>15. L \in T
  BY <1>1, <1>12, <1>13, <1>14, UpTo
<1>16. shown[L] \in Docs
  BY <1>15 DEF T
<1>17. L = 0 => shown[L] = d
  BY <1>11
<1>18. L = 1 => shown[L] = ShowByte(d, bytes[1])
  <2> SUFFICES ASSUME L = 1 PROVE shown[1] = ShowByte(d, bytes[1])
    OBVIOUS
  <2>1. 1 \in 1..L /\ 1 - 1 = 0
    OBVIOUS
  <2> QED  BY <2>1, <1>11
<1> QED  BY <1>9, <1>16, <1>17, <1>18, <1>d DEF L

-----------------------------------------------------------------------------
(* The output queue.  A ring counts its elements from the place it reads   *)
(* to the place it writes, around the end of its slots.                    *)
Wrapped(n, capacity) == IF n < capacity THEN n ELSE n - capacity
Rings(S, capacity) ==
  [slots : [0..(capacity - 1) -> S], capacity : {capacity}, read : 0..(capacity - 1),
   write : 0..(capacity - 1), len : 0..capacity]
RingOf(q, S, capacity) == q \in Rings(S, capacity) /\ q.write = Wrapped(q.read + q.len, capacity)

LEMMA WrapsOnce ==
  ASSUME NEW c \in Nat \ {0}, NEW n \in Nat, n < 2 * c
  PROVE  n % c = Wrapped(n, c) /\ Wrapped(n, c) \in 0..(c - 1)
<1>1. n = c * (n \div c) + (n % c) /\ (n % c) \in 0..(c - 1) /\ n \div c \in Int
  BY Z3
<1>2. PICK d \in Int : d = n \div c
  BY <1>1
<1>3. PICK e \in Int : e = n % c
  BY <1>1
<1>4. n = c * d + e /\ 0 <= e /\ e < c
  BY <1>1, <1>2, <1>3
<1>5. d = 0 \/ d = 1
  <2>1. ~(d >= 2)
    <3>1. d >= 2 => c * d >= c * 2
      OBVIOUS
    <3> QED  BY <3>1, <1>4
  <2>2. ~(d <= -1)
    <3>1. d <= -1 => c * d <= c * (-1)
      OBVIOUS
    <3> QED  BY <3>1, <1>4
  <2> QED  BY <2>1, <2>2
<1> QED  BY <1>3, <1>4, <1>5 DEF Wrapped

LEMMA RingContents ==
  ASSUME NEW c \in Nat \ {0}, NEW S, NEW q, RingOf(q, S, c)
  PROVE  /\ q.len \in Nat /\ q.read \in Nat /\ Contents(q) \in Seq(S) /\ Len(Contents(q)) = q.len
         /\ \A i \in 1..q.len : Contents(q)[i] = q.slots[Wrapped(q.read + i - 1, c)]
<1>1. /\ q.slots \in [0..(c - 1) -> S] /\ q.capacity = c /\ q.read \in 0..(c - 1)
      /\ q.len \in 0..c
  BY DEF RingOf, Rings
<1>2. ASSUME NEW i \in 1..q.len
      PROVE  /\ (q.read + i - 1) % c = Wrapped(q.read + i - 1, c)
             /\ Wrapped(q.read + i - 1, c) \in 0..(c - 1)
  <2>1. q.read + i - 1 \in Nat /\ q.read + i - 1 < 2 * c
    BY <1>1
  <2> QED  BY <2>1, WrapsOnce
<1>3. Contents(q) = [i \in 1..q.len |-> q.slots[Wrapped(q.read + i - 1, c)]]
  BY <1>1, <1>2 DEF Contents
<1>4. Contents(q) \in [1..q.len -> S] /\ q.len \in Nat
  BY <1>1, <1>2, <1>3
<1>5. Contents(q) \in Seq(S) /\ Len(Contents(q)) = q.len
  BY <1>4
<1>6. q.read \in Nat
  BY <1>1
<1> QED  BY <1>3, <1>4, <1>5, <1>6

LEMMA RingPush ==
  ASSUME NEW c \in Nat \ {0}, NEW S, NEW q, RingOf(q, S, c), NEW x \in S
  PROVE  /\ RingOf(Push(q, x), S, c)
         /\ IsFull(q) => Push(q, x) = q
         /\ ~IsFull(q) => /\ Push(q, x).len = q.len + 1
                          /\ Contents(Push(q, x))[q.len + 1] = x
                          /\ \A i \in 1..q.len : Contents(Push(q, x))[i] = Contents(q)[i]
<1>1. /\ q.slots \in [0..(c - 1) -> S] /\ q.capacity = c /\ q.read \in 0..(c - 1)
      /\ q.write \in 0..(c - 1) /\ q.len \in 0..c /\ q.write = Wrapped(q.read + q.len, c)
      /\ q \in Rings(S, c)
  BY DEF RingOf, Rings
<1>2. CASE IsFull(q)
  BY <1>2 DEF Push
<1>3. CASE ~IsFull(q)
  <2>1. q.len < c
    BY <1>1, <1>3 DEF IsFull
  <2>2. PICK p : p = Push(q, x)
    OBVIOUS
  <2>3. (q.write + 1) % c = Wrapped(q.write + 1, c) /\ Wrapped(q.write + 1, c) \in 0..(c - 1)
    <3>1. q.write + 1 \in Nat /\ q.write + 1 < 2 * c
      BY <1>1
    <3> QED  BY <3>1, WrapsOnce
  <2>4. /\ p.slots = [q.slots EXCEPT ![q.write] = x] /\ p.capacity = c /\ p.read = q.read
        /\ p.write = Wrapped(q.write + 1, c) /\ p.len = q.len + 1
        /\ p \in [slots : {p.slots}, capacity : {p.capacity}, read : {p.read}, write : {p.write}, len : {p.len}]
    BY <2>2, <2>3, <1>1, <1>3 DEF Push, Rings
  <2>5. p.slots \in [0..(c - 1) -> S] /\ p.len \in 0..c
    BY <2>1, <2>4, <1>1
  <2>6. p \in Rings(S, c)
    BY <2>3, <2>4, <2>5, <1>1 DEF Rings
  <2>7. p.write = Wrapped(p.read + p.len, c)
    BY <2>1, <2>4, <1>1 DEF Wrapped
  <2>8. RingOf(p, S, c)
    BY <2>6, <2>7 DEF RingOf
  <2>9. \A i \in 1..p.len : Contents(p)[i] = p.slots[Wrapped(p.read + i - 1, c)]
    BY <2>8, RingContents
  <2>10. \A i \in 1..q.len : Contents(q)[i] = q.slots[Wrapped(q.read + i - 1, c)]
    BY RingContents
  <2>11. ASSUME NEW i \in 1..q.len PROVE Contents(p)[i] = Contents(q)[i]
    <3>1. Wrapped(q.read + i - 1, c) \in 0..(c - 1) /\ Wrapped(q.read + i - 1, c) # q.write
      BY <2>1, <1>1 DEF Wrapped
    <3>2. i \in 1..p.len
      BY <2>4, <1>1
    <3> QED  BY <3>1, <3>2, <2>4, <2>9, <2>10, <1>1
  <2>12. Contents(p)[q.len + 1] = x
    <3>1. q.len + 1 \in 1..p.len /\ q.read + (q.len + 1) - 1 = q.read + q.len
      BY <2>4, <1>1, SMTT(30)
    <3>2. Contents(p)[q.len + 1] = p.slots[q.write]
      BY <3>1, <2>4, <2>9, <1>1
    <3> QED  BY <3>2, <2>4, <1>1
  <2> QED  BY <1>3, <2>2, <2>4, <2>8, <2>11, <2>12
<1> QED  BY <1>2, <1>3

OutRings == {q \in Rings(OutBytes, OutputCapacity) : RingOf(q, OutBytes, OutputCapacity)}

LEMMA Capacities == OutputCapacity \in Nat \ {0}
BY TextSessionAssumption

LEMMA IsOutRing == ASSUME NEW q PROVE q \in OutRings <=> RingOf(q, OutBytes, OutputCapacity)
BY DEF OutRings, RingOf

LEMMA ContentsType ==
  ASSUME NEW q \in OutRings
  PROVE  /\ Contents(q) \in Seq(OutBytes) /\ Len(Contents(q)) = q.len
         /\ q.len \in 0..OutputCapacity /\ q.capacity = OutputCapacity
<1>1. RingOf(q, OutBytes, OutputCapacity)
  BY IsOutRing
<1>2. Contents(q) \in Seq(OutBytes) /\ Len(Contents(q)) = q.len
  BY <1>1, Capacities, RingContents
<1>3. q.len \in 0..OutputCapacity /\ q.capacity = OutputCapacity
  BY <1>1 DEF RingOf, Rings
<1> QED  BY <1>2, <1>3

LEMMA PushType ==
  ASSUME NEW q \in OutRings, NEW b \in OutBytes
  PROVE  /\ Push(q, b) \in OutRings
         /\ q.len < OutputCapacity =>
              /\ Push(q, b).len = q.len + 1 /\ Contents(Push(q, b)) = Append(Contents(q), b)
<1>1. RingOf(q, OutBytes, OutputCapacity)
  BY IsOutRing
<1>2. PICK p : p = Push(q, b)
  OBVIOUS
<1>3. /\ RingOf(p, OutBytes, OutputCapacity)
      /\ ~IsFull(q) => /\ p.len = q.len + 1 /\ Contents(p)[q.len + 1] = b
                       /\ \A i \in 1..q.len : Contents(p)[i] = Contents(q)[i]
  BY <1>1, <1>2, Capacities, RingPush
<1>4. p \in OutRings
  BY <1>3, IsOutRing
<1>5. ASSUME q.len < OutputCapacity PROVE p.len = q.len + 1 /\ Contents(p) = Append(Contents(q), b)
  <2>1. q.len \in 0..OutputCapacity /\ q.capacity = OutputCapacity
    BY ContentsType
  <2>2. ~IsFull(q)
    BY <1>5, <2>1, Capacities DEF IsFull
  <2>3. PICK old : old = Contents(q)
    OBVIOUS
  <2>4. PICK new : new = Contents(p)
    OBVIOUS
  <2>5. /\ old \in Seq(OutBytes) /\ Len(old) = q.len /\ new \in Seq(OutBytes) /\ Len(new) = q.len + 1
        /\ new[q.len + 1] = b /\ \A i \in 1..q.len : new[i] = old[i]
    BY <1>3, <1>4, <2>2, <2>3, <2>4, ContentsType
  <2>6. new = Append(old, b)
    <3>1. /\ Append(old, b) \in Seq(OutBytes) /\ Len(Append(old, b)) = q.len + 1
          /\ Append(old, b)[q.len + 1] = b /\ \A i \in 1..q.len : Append(old, b)[i] = old[i]
      BY <2>5, AppendProperties
    <3>2. PICK a : a = Append(old, b)
      OBVIOUS
    <3>3. \A i \in 1..(q.len + 1) : a[i] = new[i]
      BY <3>1, <3>2, <2>1, <2>5
    <3>4. a \in Seq(OutBytes) /\ Len(a) = q.len + 1
      BY <3>1, <3>2
    <3>5. a \in [1..Len(a) -> OutBytes] /\ new \in [1..Len(new) -> OutBytes]
      BY <3>4, <2>5
    <3>6. a = new
      BY <3>3, <3>4, <3>5, <2>5
    <3> QED  BY <3>2, <3>6
  <2> QED  BY <1>3, <2>2, <2>3, <2>4, <2>6
<1> QED  BY <1>2, <1>4, <1>5

LEMMA PushAllIs ==
  ASSUME NEW q \in OutRings, NEW bytes \in Seq(OutBytes)
  PROVE  /\ PushAll(q, bytes) \in OutRings
         /\ q.len + Len(bytes) <= OutputCapacity =>
              Contents(PushAll(q, bytes)) = Contents(q) \o bytes
<1> DEFINE L == Len(bytes)
           Is(f) == f = [n \in 0..L |-> IF n = 0 THEN q ELSE Push(f[n - 1], bytes[n])]
<1>1. L \in Nat /\ \A n \in 1..L : bytes[n] \in OutBytes
  OBVIOUS
<1>d. PushAll(q, bytes) = (CHOOSE f : Is(f))[L]
  BY DEF PushAll
<1>2. \A e \in OutRings : \A n \in 1..L : Push(e, bytes[n]) \in OutRings
  BY <1>1, PushType
<1>3. PICK step : step = [n \in 1..L |-> [e \in OutRings |-> Push(e, bytes[n])]]
  OBVIOUS
<1>4. step \in Steps(L, OutRings)
  BY <1>2, <1>3 DEF Steps
<1> HIDE DEF L, Is
<1>5. PICK f : Chain(f, L, OutRings, q, step)
  BY <1>1, <1>4, Recursion
<1>6. f \in [0..L -> OutRings] /\ f[0] = q /\ \A n \in 1..L : f[n] = step[n][f[n - 1]]
  BY <1>5 DEF Chain
<1>7. ASSUME NEW n \in 1..L PROVE f[n] = Push(f[n - 1], bytes[n])
  <2>1. n - 1 \in 0..L
    BY <1>1
  <2>2. f[n - 1] \in OutRings
    BY <2>1, <1>6
  <2> QED  BY <2>2, <1>3, <1>6
<1>8. Is(f)
  <2>1. ASSUME NEW n \in 0..L PROVE f[n] = IF n = 0 THEN q ELSE Push(f[n - 1], bytes[n])
    <3>1. CASE n = 0
      BY <3>1, <1>6
    <3>2. CASE n # 0
      <4>1. n \in 1..L
        BY <3>2, <1>1
      <4> QED  BY <3>2, <4>1, <1>7
    <3> QED  BY <3>1, <3>2
  <2> QED  BY <2>1, <1>6 DEF Is
<1>9. PICK pushed : pushed = CHOOSE h : Is(h)
  OBVIOUS
<1>10. Is(pushed)
  BY <1>8, <1>9
<1>11. pushed[0] = q /\ \A n \in 1..L : pushed[n] = Push(pushed[n - 1], bytes[n])
  <2>1. \A n \in 0..L : pushed[n] = IF n = 0 THEN q ELSE Push(pushed[n - 1], bytes[n])
    BY <1>10 DEF Is
  <2>2. 0 \in 0..L /\ \A n \in 1..L : n \in 0..L /\ n # 0
    BY <1>1
  <2> QED  BY <2>1, <2>2
<1>12. PICK full : full = OutputCapacity
  OBVIOUS
<1>13. full \in Nat /\ q.len \in Nat /\ Contents(q) \in Seq(OutBytes)
  BY <1>12, Capacities, ContentsType
<1> DEFINE T == {n \in 0..L : /\ pushed[n] \in OutRings
                              /\ q.len + n <= full =>
                                   /\ pushed[n].len = q.len + n
                                   /\ Contents(pushed[n]) = Contents(q) \o SubSeq(bytes, 1, n)}
<1>14. 0 \in T
  <2>1. SubSeq(bytes, 1, 0) = <<>>
    OBVIOUS
  <2>2. Contents(q) \o SubSeq(bytes, 1, 0) = Contents(q)
    BY <1>13, <2>1, ConcatEmptySeq
  <2> QED  BY <1>1, <1>11, <1>13, <2>2
<1>15. ASSUME NEW n \in 1..L, n - 1 \in T PROVE n \in T
  <2>1. n \in 0..L /\ n \in Nat /\ n - 1 \in Nat
    BY <1>1
  <2>2. PICK p : p = pushed[n - 1]
    OBVIOUS
  <2>3. /\ p \in OutRings /\ pushed[n] = Push(p, bytes[n]) /\ bytes[n] \in OutBytes
        /\ q.len + (n - 1) <= full =>
             p.len = q.len + (n - 1) /\ Contents(p) = Contents(q) \o SubSeq(bytes, 1, n - 1)
    BY <1>1, <1>11, <1>15, <2>2
  <2>4. pushed[n] \in OutRings
    BY <2>3, PushType
  <2>5. ASSUME q.len + n <= full
        PROVE  /\ pushed[n].len = q.len + n
               /\ Contents(pushed[n]) = Contents(q) \o SubSeq(bytes, 1, n)
    <3>1. /\ p.len = q.len + (n - 1) /\ p.len < full
          /\ Contents(p) = Contents(q) \o SubSeq(bytes, 1, n - 1)
      BY <1>13, <2>1, <2>3, <2>5
    <3>2. pushed[n].len = p.len + 1 /\ Contents(pushed[n]) = Append(Contents(p), bytes[n])
      BY <1>12, <2>3, <3>1, PushType
    <3>3. PICK c : c = Contents(q)
      OBVIOUS
    <3>4. PICK s : s = SubSeq(bytes, 1, n - 1)
      OBVIOUS
    <3>5. PICK b : b = bytes[n]
      OBVIOUS
    <3>6. c \in Seq(OutBytes) /\ s \in Seq(OutBytes) /\ b \in OutBytes /\ <<b>> \in Seq(OutBytes)
      <4>1. n - 1 <= Len(bytes)
        BY <1>1, <2>1 DEF L
      <4>2. s \in Seq(OutBytes)
        BY <2>1, <3>4, <4>1, PrefixOf
      <4> QED  BY <1>13, <2>3, <3>3, <3>5, <4>2
    <3>7. (c \o s) \o <<b>> = c \o (s \o <<b>>)
      BY <3>6, ConcatAssociative
    <3>8. s \o <<b>> = SubSeq(bytes, 1, n)
      BY <1>1, <2>1, <3>4, <3>5, PrefixGrows DEF L
    <3>9. Append(c \o s, b) = (c \o s) \o <<b>>
      <4>1. c \o s \in Seq(OutBytes)
        BY <3>6, ConcatProperties
      <4> QED  BY <3>6, <4>1, AppendIsConcat
    <3>10. pushed[n].len = q.len + n
      BY <1>13, <2>1, <3>1, <3>2
    <3> QED  BY <3>1, <3>2, <3>3, <3>4, <3>5, <3>7, <3>8, <3>9, <3>10
  <2> QED  BY <2>1, <2>4, <2>5
<1>16. L \in 0..L
  BY <1>1
<1> HIDE DEF T
<1>17. L \in T
  BY <1>1, <1>14, <1>15, <1>16, UpTo
<1>18. SubSeq(bytes, 1, L) = bytes
  BY <1>1 DEF L
<1>19. /\ pushed[L] \in OutRings
       /\ q.len + L <= full => Contents(pushed[L]) = Contents(q) \o bytes
  BY <1>17, <1>18 DEF T
<1> QED  BY <1>9, <1>12, <1>19, <1>d DEF L

LEMMA AcceptedIs ==
  ASSUME NEW q \in OutRings, NEW bytes \in Seq(OutBytes)
  PROVE  /\ Accepted(q, bytes) \in Seq(OutBytes)
         /\ q.len + Len(Accepted(q, bytes)) <= OutputCapacity
         /\ q.len + Len(bytes) <= OutputCapacity => Accepted(q, bytes) = bytes
<1>1. q.capacity = OutputCapacity /\ q.len \in 0..OutputCapacity /\ Len(bytes) \in Nat
  BY ContentsType
<1>2. PICK n : n = Min({Len(bytes), Room(q)})
  OBVIOUS
<1>3. Room(q) = OutputCapacity - q.len /\ Room(q) \in Nat
  BY <1>1, Capacities DEF Room
<1>4. n = (IF Len(bytes) <= Room(q) THEN Len(bytes) ELSE Room(q))
  BY <1>1, <1>2, <1>3, MinIs
<1>5. n \in Nat /\ n <= Len(bytes) /\ q.len + n <= OutputCapacity
  BY <1>1, <1>3, <1>4, Capacities
<1>6. SubSeq(bytes, 1, n) \in Seq(OutBytes) /\ Len(SubSeq(bytes, 1, n)) = n
  BY <1>5, PrefixOf
<1>7. q.len + Len(bytes) <= OutputCapacity => n = Len(bytes)
  BY <1>1, <1>3, <1>4, Capacities
<1>8. SubSeq(bytes, 1, Len(bytes)) = bytes
  OBVIOUS
<1>9. Accepted(q, bytes) = SubSeq(bytes, 1, n)
  BY <1>2 DEF Accepted
<1> QED  BY <1>5, <1>6, <1>7, <1>8, <1>9

(* A write puts behind the queue's contents just what it accepts, and a    *)
(* byte into an empty queue is accepted.                                   *)
LEMMA WriteIs ==
  ASSUME NEW q \in OutRings, NEW bytes \in Seq(OutBytes)
  PROVE  /\ PushAll(q, Accepted(q, bytes)) \in OutRings
         /\ Contents(PushAll(q, Accepted(q, bytes))) = Contents(q) \o Accepted(q, bytes)
         /\ Contents(q) \in Seq(OutBytes) /\ Accepted(q, bytes) \in Seq(OutBytes)
         /\ Len(bytes) = 1 /\ q.len = 0 => Contents(PushAll(q, Accepted(q, bytes))) = bytes
<1>1. PICK a : a = Accepted(q, bytes)
  OBVIOUS
<1>2. /\ a \in Seq(OutBytes) /\ q.len + Len(a) <= OutputCapacity
      /\ q.len + Len(bytes) <= OutputCapacity => a = bytes
  BY <1>1, AcceptedIs
<1>3. PushAll(q, a) \in OutRings /\ Contents(PushAll(q, a)) = Contents(q) \o a
  BY <1>2, PushAllIs
<1>4. Contents(q) \in Seq(OutBytes) /\ Len(Contents(q)) = q.len /\ q.len \in Nat
  BY ContentsType, Capacities
<1>5. ASSUME Len(bytes) = 1, q.len = 0 PROVE Contents(q) \o a = bytes
  <2>1. a = bytes
    BY <1>2, <1>5, Capacities
  <2>2. Contents(q) = <<>>
    BY <1>4, <1>5, EmptySeq
  <2> QED  BY <2>1, <2>2, ConcatEmptySeq
<1> QED  BY <1>1, <1>2, <1>3, <1>4, <1>5

-----------------------------------------------------------------------------
(* The output queue is empty whenever the editor runs, and then the line   *)
(* is on the screen.  Until power goes off the screen and the queue are    *)
(* what the history says of them.                                          *)
SessionInv ==
  /\ output \in OutRings /\ screen \in Docs /\ prompted \in Docs /\ line \in Seq(OutBytes)
  /\ pc \in {"terminal", "read", "execute", "off"} /\ user \in {"read", "execute"}
  /\ pc = "read" => output.len = 0
  /\ pc = "read" \/ (pc = "terminal" /\ user = "read") => Flushed = Extend(prompted, line)
  /\ said = [doc |-> said.doc, queue |-> said.queue]
  /\ pc # "off" => said.doc = screen /\ said.queue = Contents(output)
  /\ pc = "off" => screen = Due

LEMMA FlushedType ==
  ASSUME SessionInv
  PROVE  /\ Flushed \in Docs /\ (output.len = 0 => Flushed = screen)
         /\ pc # "off" => Due = Flushed
<1>1. output \in OutRings /\ screen \in Docs
  BY DEF SessionInv
<1>2. Contents(output) \in Seq(OutBytes) /\ Len(Contents(output)) = output.len
  BY <1>1, ContentsType
<1>3. pc # "off" => Due = Flushed
  BY DEF SessionInv, Due, Flushed
<1> QED  BY <1>1, <1>2, <1>3, ShowIs DEF Flushed

LEMMA EmptiedIs ==
  ASSUME SessionInv
  PROVE  EmptyOutput \in OutRings /\ EmptyOutput.len = 0 /\ Contents(EmptyOutput) = <<>>
<1>1. RingOf(output, OutBytes, OutputCapacity)
  BY IsOutRing DEF SessionInv
<1>2. /\ output.slots \in [0..(OutputCapacity - 1) -> OutBytes] /\ output.capacity = OutputCapacity
      /\ output.write \in 0..(OutputCapacity - 1)
      /\ output = [slots |-> output.slots, capacity |-> output.capacity, read |-> output.read,
                   write |-> output.write, len |-> output.len]
  BY <1>1 DEF RingOf, Rings
<1>3. PICK p : p = EmptyOutput
  OBVIOUS
<1>4. /\ p.slots = output.slots /\ p.capacity = OutputCapacity /\ p.read = output.write
      /\ p.write = output.write /\ p.len = 0
      /\ p \in [slots : {p.slots}, capacity : {p.capacity}, read : {p.read}, write : {p.write}, len : {p.len}]
  BY <1>2, <1>3 DEF EmptyOutput
<1>5. p.write = Wrapped(p.read + p.len, OutputCapacity)
  BY <1>2, <1>4, Capacities DEF Wrapped
<1>6. p \in Rings(OutBytes, OutputCapacity)
  BY <1>2, <1>4, Capacities DEF Rings
<1>7. p \in OutRings
  BY <1>5, <1>6, IsOutRing DEF RingOf
<1>8. Contents(p) = <<>>
  BY <1>4, <1>7, ContentsType, EmptySeq
<1> QED  BY <1>3, <1>4, <1>7, <1>8

LEMMA SessionStarts == Init => SessionInv
<1> SUFFICES ASSUME Init PROVE SessionInv
  OBVIOUS
<1>1. PICK q : q = output
  OBVIOUS
<1>2. /\ q.slots \in [0..(OutputCapacity - 1) -> OutBytes] /\ q.capacity = OutputCapacity
      /\ q.read = 0 /\ q.write = 0 /\ q.len = 0
      /\ q \in [slots : {q.slots}, capacity : {q.capacity}, read : {q.read}, write : {q.write}, len : {q.len}]
  BY <1>1 DEF Init, NewRing, OutBytes
<1>3. q \in OutRings
  <2>1. q.write = Wrapped(q.read + q.len, OutputCapacity)
    BY <1>2, Capacities DEF Wrapped
  <2>2. q \in Rings(OutBytes, OutputCapacity)
    BY <1>2, Capacities DEF Rings
  <2> QED  BY <2>1, <2>2, IsOutRing DEF RingOf
<1>4. screen \in Docs /\ prompted = screen
  <2>1. <<"/", ">">> \in Seq(OutBytes)
    BY DEF OutBytes
  <2>2. <<<<"/", ">">>>> \in Seq(Seq(OutBytes)) /\ <<<<"/", ">">>>> # <<>>
    BY <2>1
  <2> QED  BY <2>2 DEF Init, Docs
<1>5. line = <<>> /\ line \in Seq(OutBytes) /\ pc = "terminal" /\ user = "read"
  BY DEF Init
<1>6. Contents(q) \in Seq(OutBytes) /\ Len(Contents(q)) = 0 /\ Contents(q) = <<>>
  BY <1>2, <1>3, ContentsType, EmptySeq
<1>7. Flushed = screen
  BY <1>1, <1>4, <1>6, ShowIs DEF Flushed
<1>8. Extend(prompted, line) = screen
  BY <1>4, <1>5, ExtendNothing
<1>9. said = [doc |-> said.doc, queue |-> said.queue] /\ said.doc = screen /\ said.queue = Contents(output)
  BY <1>1, <1>6 DEF Init
<1> QED  BY <1>1, <1>3, <1>4, <1>5, <1>7, <1>8, <1>9 DEF SessionInv

-----------------------------------------------------------------------------
(* The actions.                                                            *)
LEMMA RoundKeeps == ASSUME SessionInv, TerminalRound PROVE SessionInv'
<1>1. /\ screen' = Flushed /\ output' = EmptyOutput /\ pc = "terminal" /\ pc' = user
      /\ line' = line /\ user' = user /\ prompted' = prompted
      /\ said' = [doc |-> Due, queue |-> <<>>]
  BY DEF TerminalRound
<1>2. /\ Flushed \in Docs /\ EmptyOutput \in OutRings /\ EmptyOutput.len = 0
      /\ Contents(EmptyOutput) = <<>> /\ Due = Flushed
  BY <1>1, FlushedType, EmptiedIs
<1>3. Flushed' = Show(Flushed, Contents(EmptyOutput))
  BY <1>1 DEF Flushed, Contents
<1>4. Contents(EmptyOutput) \in Seq(OutBytes) /\ Len(Contents(EmptyOutput)) = 0
  BY <1>2, ContentsType
<1>5. Flushed' = Flushed
  BY <1>2, <1>3, <1>4, ShowIs
<1>6. /\ said'.doc = screen' /\ said'.queue = Contents(output)'
      /\ said' = [doc |-> said'.doc, queue |-> said'.queue]
  BY <1>1, <1>2 DEF Contents
<1>7. pc' # "off"
  BY <1>1 DEF SessionInv
<1> QED  BY <1>1, <1>2, <1>5, <1>6, <1>7 DEF SessionInv

(* A write is recorded as it is queued.                                    *)
LEMMA WriteRecorded ==
  ASSUME SessionInv, pc # "off", NEW bytes \in Seq(OutBytes), Write(bytes), screen' = screen
  PROVE  /\ output' \in OutRings /\ said'.doc = screen' /\ said'.queue = Contents(output)'
         /\ said' = [doc |-> said'.doc, queue |-> said'.queue]
<1>1. /\ output \in OutRings /\ said = [doc |-> said.doc, queue |-> said.queue]
      /\ said.doc = screen /\ said.queue = Contents(output)
  BY DEF SessionInv
<1>2. PICK p : p = PushAll(output, Accepted(output, bytes))
  OBVIOUS
<1>3. p \in OutRings /\ Contents(p) = Contents(output) \o Accepted(output, bytes)
  BY <1>1, <1>2, WriteIs
<1>4. output' = p /\ said' = [said EXCEPT !.queue = said.queue \o Accepted(output, bytes)]
  BY <1>2 DEF Write
<1>5. /\ said'.doc = said.doc /\ said'.queue = said.queue \o Accepted(output, bytes)
      /\ said' = [doc |-> said'.doc, queue |-> said'.queue]
  BY <1>1, <1>4
<1>6. Contents(output)' = Contents(p)
  BY <1>4 DEF Contents
<1> QED  BY <1>1, <1>3, <1>4, <1>5, <1>6

(* Nothing written, and nothing recorded.                                  *)
LEMMA SilentKeeps ==
  ASSUME SessionInv, pc # "off", Silent, screen' = screen
  PROVE  /\ output' \in OutRings /\ Flushed' = Flushed
         /\ said'.doc = screen' /\ said'.queue = Contents(output)'
         /\ said' = [doc |-> said'.doc, queue |-> said'.queue]
BY DEF Silent, SessionInv, Flushed, Contents

(* Echoing b while the editor runs.                                        *)
LEMMA EchoShown ==
  ASSUME SessionInv, pc = "read", NEW b \in OutBytes, Write(<<b>>), screen' = screen
  PROVE  /\ output' \in OutRings /\ Flushed' = ShowByte(Extend(prompted, line), b)
         /\ said'.doc = screen' /\ said'.queue = Contents(output)'
         /\ said' = [doc |-> said'.doc, queue |-> said'.queue]
<1>1. output \in OutRings /\ screen \in Docs /\ output.len = 0
  BY DEF SessionInv
<1>2. screen = Extend(prompted, line)
  BY <1>1, FlushedType DEF SessionInv
<1>3. PICK p : p = PushAll(output, Accepted(output, <<b>>))
  OBVIOUS
<1>4. <<b>> \in Seq(OutBytes) /\ Len(<<b>>) = 1 /\ <<b>>[1] = b
  OBVIOUS
<1>5. p \in OutRings /\ Contents(p) = <<b>>
  BY <1>1, <1>3, <1>4, WriteIs
<1>6. output' = p
  BY <1>3 DEF Write
<1>7. Flushed' = Show(screen, Contents(p))
  BY <1>6 DEF Flushed, Contents
<1>8. Show(screen, Contents(p)) = ShowByte(screen, b)
  <2>1. PICK c : c = Contents(p)
    OBVIOUS
  <2>2. c \in Seq(OutBytes) /\ Len(c) = 1 /\ c[1] = b
    BY <1>4, <1>5, <2>1
  <2> QED  BY <1>1, <2>1, <2>2, ShowIs
<1>9. /\ said'.doc = screen' /\ said'.queue = Contents(output)'
      /\ said' = [doc |-> said'.doc, queue |-> said'.queue]
  BY <1>4, WriteRecorded
<1> QED  BY <1>2, <1>5, <1>6, <1>7, <1>8, <1>9

LEMMA AppendKeeps == ASSUME SessionInv, AppendPrintable PROVE SessionInv'
<1>1. /\ pc = "read" /\ Oldest(input) \in Printable /\ pc' = "terminal" /\ user' = "read"
      /\ screen' = screen /\ prompted' = prompted
  BY DEF AppendPrintable, Yield
<1>2. /\ screen \in Docs /\ prompted \in Docs /\ line \in Seq(OutBytes) /\ output \in OutRings
      /\ Flushed = Extend(prompted, line)
  BY <1>1 DEF SessionInv
<1>3. CASE Len(line) >= LineCapacity
  <2>1. line' = line /\ Silent
    BY <1>3 DEF AppendPrintable
  <2> QED  BY <1>1, <1>2, <2>1, SilentKeeps DEF SessionInv
<1>4. CASE ~(Len(line) >= LineCapacity)
  <2>1. PICK b : b = Oldest(input)
    OBVIOUS
  <2>2. line' = Append(line, b) /\ Write(<<b>>)
    BY <1>4, <2>1 DEF AppendPrintable
  <2>3. b \in OutBytes /\ b # "newline" /\ b # "delete"
    BY <1>1, <2>1 DEF OutBytes, Printable
  <2>4. /\ output' \in OutRings /\ Flushed' = ShowByte(Extend(prompted, line), b)
        /\ said'.doc = screen' /\ said'.queue = Contents(output)'
        /\ said' = [doc |-> said'.doc, queue |-> said'.queue]
    BY <1>1, <2>2, <2>3, EchoShown
  <2>5. ShowByte(Extend(prompted, line), b) = Extend(Extend(prompted, line), <<b>>)
    BY <2>3 DEF ShowByte
  <2>6. Extend(Extend(prompted, line), <<b>>) = Extend(prompted, Append(line, b))
    BY <1>2, <2>3, ExtendTwice
  <2>7. Append(line, b) \in Seq(OutBytes)
    BY <1>2, <2>3, AppendProperties
  <2>8. Flushed' = Extend(prompted', line')
    BY <1>1, <2>2, <2>4, <2>5, <2>6
  <2> QED  BY <1>1, <1>2, <2>2, <2>4, <2>7, <2>8 DEF SessionInv
<1> QED  BY <1>3, <1>4

LEMMA BackspaceKeeps == ASSUME SessionInv, Backspace PROVE SessionInv'
<1>1. /\ pc = "read" /\ pc' = "terminal" /\ user' = "read" /\ screen' = screen /\ prompted' = prompted
  BY DEF Backspace, Yield
<1>2. /\ screen \in Docs /\ prompted \in Docs /\ line \in Seq(OutBytes) /\ output \in OutRings
      /\ Flushed = Extend(prompted, line)
  BY <1>1 DEF SessionInv
<1>3. CASE line = <<>>
  <2>1. line' = line /\ Silent
    BY <1>3 DEF Backspace
  <2> QED  BY <1>1, <1>2, <2>1, SilentKeeps DEF SessionInv
<1>4. CASE line # <<>>
  <2>1. line' = Front(line) /\ Write(<<"delete">>)
    BY <1>4 DEF Backspace
  <2>2. "delete" \in OutBytes
    BY DEF OutBytes
  <2>3. /\ output' \in OutRings /\ Flushed' = ShowByte(Extend(prompted, line), "delete")
        /\ said'.doc = screen' /\ said'.queue = Contents(output)'
        /\ said' = [doc |-> said'.doc, queue |-> said'.queue]
    BY <1>1, <2>1, <2>2, EchoShown
  <2>4. ShowByte(Extend(prompted, line), "delete") = RubOut(Extend(prompted, line), 1)
    BY DEF ShowByte
  <2>5. RubOut(Extend(prompted, line), 1) = Extend(prompted, Front(line))
    BY <1>2, <1>4, RubOutLast
  <2>6. Front(line) \in Seq(OutBytes)
    BY <1>2, <1>4, FrontOf
  <2>7. Flushed' = Extend(prompted', line')
    BY <1>1, <2>1, <2>3, <2>4, <2>5
  <2> QED  BY <1>1, <1>2, <2>1, <2>3, <2>6, <2>7 DEF SessionInv
<1> QED  BY <1>3, <1>4

LEMMA EditorKeeps == ASSUME SessionInv, Editor PROVE SessionInv'
<1>1. ASSUME ReadNothing PROVE SessionInv'
  <2>1. /\ Silent /\ screen' = screen /\ line' = line /\ prompted' = prompted
        /\ pc = "read" /\ pc' = "terminal" /\ user' = "read"
    BY <1>1 DEF ReadNothing, Yield
  <2> QED  BY <2>1, SilentKeeps DEF SessionInv
<1>2. ASSUME SubmitLine PROVE SessionInv'
  <2>1. /\ screen' = screen /\ line' = line /\ prompted' = prompted /\ user' = user
        /\ pc = "read" /\ pc' = "execute" /\ Write(<<"newline">>)
    BY <1>2 DEF SubmitLine
  <2>2. "newline" \in OutBytes
    BY DEF OutBytes
  <2>3. /\ output' \in OutRings
        /\ said'.doc = screen' /\ said'.queue = Contents(output)'
        /\ said' = [doc |-> said'.doc, queue |-> said'.queue]
    BY <2>1, <2>2, EchoShown
  <2> QED  BY <2>1, <2>3 DEF SessionInv
<1> QED  BY <1>1, <1>2, AppendKeeps, BackspaceKeeps DEF Editor

LEMMA CommandKeeps == ASSUME SessionInv, Command PROVE SessionInv'
<1>1. output \in OutRings /\ screen \in Docs /\ prompted \in Docs /\ line \in Seq(OutBytes)
  BY DEF SessionInv
<1>2. ASSUME CommandWrites PROVE SessionInv'
  <2>1. PICK n \in 1..MaxWrite, last \in {"o", "newline"} :
          Write(Append([i \in 1..(n - 1) |-> "o"], last))
    BY <1>2 DEF CommandWrites
  <2>2. PICK bytes : bytes = Append([i \in 1..(n - 1) |-> "o"], last)
    OBVIOUS
  <2>3. bytes \in Seq(OutBytes)
    <3>1. n - 1 \in Nat /\ "o" \in OutBytes /\ last \in OutBytes
      BY TextSessionAssumption DEF OutBytes
    <3>2. PICK os : os = [i \in 1..(n - 1) |-> "o"]
      OBVIOUS
    <3>3. os \in Seq(OutBytes)
      BY <3>1, <3>2
    <3> QED  BY <3>1, <3>2, <3>3, <2>2, AppendProperties
  <2>4. Write(bytes) /\ pc # "off" /\ screen' = screen
    BY <1>2, <2>1, <2>2 DEF CommandWrites
  <2>5. /\ output' \in OutRings
        /\ said'.doc = screen' /\ said'.queue = Contents(output)'
        /\ said' = [doc |-> said'.doc, queue |-> said'.queue]
    BY <2>3, <2>4, WriteRecorded
  <2>6. /\ screen' = screen /\ line' = line /\ prompted' = prompted /\ user' = user
        /\ pc = "execute" /\ pc' = pc
    BY <1>2 DEF CommandWrites
  <2> QED  BY <1>1, <2>5, <2>6 DEF SessionInv
<1>3. ASSUME CommandYields PROVE SessionInv'
  <2>1. /\ Silent /\ screen' = screen /\ line' = line /\ prompted' = prompted
        /\ pc # "off" /\ pc' = "terminal" /\ user' = "execute"
    BY <1>3 DEF CommandYields, Yield
  <2> QED  BY <1>1, <2>1, SilentKeeps DEF SessionInv
<1>4. ASSUME CommandTraps PROVE SessionInv'
  <2>1. /\ output' = output /\ screen' = Show(screen, <<"t", "newline">>) /\ line' = line
        /\ prompted' = prompted /\ pc = "execute" /\ pc' = pc /\ user' = user
        /\ said' = [said EXCEPT !.doc = Show(said.doc, <<"t", "newline">>)]
    BY <1>4 DEF CommandTraps
  <2>2. <<"t", "newline">> \in Seq(OutBytes)
    BY DEF OutBytes
  <2>3. screen' \in Docs
    BY <1>1, <2>1, <2>2, ShowIs
  <2>4. /\ said = [doc |-> said.doc, queue |-> said.queue] /\ said.doc = screen
        /\ said.queue = Contents(output)
    BY <2>1 DEF SessionInv
  <2>5. /\ said'.doc = screen' /\ said'.queue = said.queue
        /\ said' = [doc |-> said'.doc, queue |-> said'.queue]
    BY <2>1, <2>4
  <2>6. Contents(output)' = Contents(output)
    BY <2>1 DEF Contents
  <2> QED  BY <1>1, <2>1, <2>3, <2>4, <2>5, <2>6 DEF SessionInv
<1>5. ASSUME LineDone PROVE SessionInv'
  <2>1. PICK first : first = PushAll(output, Accepted(output, Pieces[1]))
    OBVIOUS
  <2>2. /\ output' = PushAll(first, Accepted(first, Pieces[2]))
        /\ prompted' = Show(screen, Contents(output)') /\ screen' = screen /\ line' = <<>>
        /\ pc = "execute" /\ pc' = "terminal" /\ user' = "read"
        /\ said' = [said EXCEPT !.queue =
                     said.queue \o Accepted(output, Pieces[1]) \o Accepted(first, Pieces[2])]
    BY <1>5, <2>1 DEF LineDone, PrintPrompt, Yield, Contents
  <2>3. Pieces[1] \in Seq(OutBytes) /\ Pieces[2] \in Seq(OutBytes)
    BY DEF Pieces, OutBytes
  <2>4. first \in OutRings /\ Contents(first) = Contents(output) \o Accepted(output, Pieces[1])
    BY <1>1, <2>1, <2>3, WriteIs
  <2>5. output' \in OutRings
    BY <2>2, <2>3, <2>4, WriteIs
  <2>6. PICK q : q = output'
    OBVIOUS
  <2>7. Contents(output)' = Contents(q) /\ Contents(q) \in Seq(OutBytes)
    BY <2>5, <2>6, ContentsType DEF Contents
  <2>8. prompted' \in Docs
    BY <1>1, <2>2, <2>7, ShowIs
  <2>9. Flushed' = prompted'
    BY <2>2 DEF Flushed
  <2>10. PICK p : p = prompted'
    OBVIOUS
  <2>11. Extend(p, <<>>) = p
    BY <2>8, <2>10, ExtendNothing
  <2>12. Flushed' = Extend(prompted', line')
    BY <2>2, <2>9, <2>10, <2>11
  <2>13. line' \in Seq(OutBytes)
    BY <2>2
  <2>14. Contents(q) = Contents(first) \o Accepted(first, Pieces[2])
    BY <2>2, <2>3, <2>4, <2>6, WriteIs
  <2>15. /\ said = [doc |-> said.doc, queue |-> said.queue] /\ said.doc = screen
         /\ said.queue = Contents(output)
    BY <2>2 DEF SessionInv
  <2>16. /\ said'.doc = said.doc
         /\ said'.queue = said.queue \o Accepted(output, Pieces[1]) \o Accepted(first, Pieces[2])
         /\ said' = [doc |-> said'.doc, queue |-> said'.queue]
    BY <2>2, <2>15
  <2>17. said'.doc = screen' /\ said'.queue = Contents(output)'
    BY <2>2, <2>4, <2>7, <2>14, <2>15, <2>16
  <2> QED  BY <1>1, <2>2, <2>5, <2>8, <2>12, <2>13, <2>16, <2>17 DEF SessionInv
<1>6. ASSUME ExitShell PROVE SessionInv'
  <2>1. /\ output' = EmptyOutput /\ screen' = Flushed /\ line' = line /\ prompted' = prompted
        /\ user' = user /\ pc = "execute" /\ pc' = "off" /\ said' = said
    BY <1>6 DEF ExitShell
  <2>2. Flushed \in Docs /\ EmptyOutput \in OutRings /\ Due = Flushed
    BY <2>1, FlushedType, EmptiedIs
  <2>3. Due' = Due
    BY <2>1 DEF Due
  <2> QED  BY <1>1, <2>1, <2>2, <2>3 DEF SessionInv
<1> QED  BY <1>2, <1>3, <1>4, <1>5, <1>6 DEF Command

LEMMA SessionSteps == SessionInv /\ [Next]_vars => SessionInv'
<1> SUFFICES ASSUME SessionInv, [Next]_vars PROVE SessionInv'
  OBVIOUS
<1>1. ASSUME UNCHANGED vars PROVE SessionInv'
  BY <1>1 DEF vars, SessionInv, Flushed, Due, Contents
<1>2. ASSUME Off PROVE SessionInv'
  BY <1>1, <1>2 DEF Off
<1> QED  BY <1>1, <1>2, RoundKeeps, EditorKeeps, CommandKeeps DEF Next

LEMMA SessionInvariant == Spec => []SessionInv
<1> QED  BY SessionStarts, SessionSteps, PTL DEF Spec

(* Once the output queue is flushed the screen shows, behind the prompt,   *)
(* exactly the line that the shell will execute: an echo is never refused, *)
(* and a backspace never reaches the prompt (run_interactive of repl.rs,   *)
(* flush_output of terminal.rs).                                           *)
THEOREM LineOnScreenCorrect == Spec => []LineOnScreen
<1>1. SessionInv => LineOnScreen
  BY DEF SessionInv, LineOnScreen
<1> QED  BY <1>1, SessionInvariant, PTL

(* When power goes off the screen shows every byte that writes accepted,   *)
(* once and in order, for every size of the queue: the ring holds just     *)
(* what was accepted since the last flush, and exit_current_process of the *)
(* bootstrap process flushes it.                                           *)
THEOREM ShutdownShowsAll == Spec => []AllShownAtShutdown
<1>1. SessionInv => AllShownAtShutdown
  BY DEF SessionInv, AllShownAtShutdown
<1> QED  BY <1>1, SessionInvariant, PTL
=============================================================================
