---------------------------- MODULE MemoryProofs ----------------------------
(***************************************************************************)
(* Proofs about the allocator of physical pages, for every memory map,     *)
(* every size of the range table and every order of requests and frees.    *)
(*                                                                         *)
(* The table is kept sorted, and no two of its regions touch.  So the      *)
(* regions that a range touches are consecutive: a of them lie before the  *)
(* range, those up to b are absorbed, the others lie behind it.            *)
(***************************************************************************)
EXTENDS Memory, FiniteSetTheorems, SequenceTheorems, WellFoundedInduction, TLAPS

Regions == [start : Nat, end : Nat]
InOrder(rs) == \A i, j \in 1..Len(rs) : i < j => rs[i].end < rs[j].start
Canonical(rs) ==
  /\ rs \in Seq(Regions)
  /\ \A i \in 1..Len(rs) : rs[i].start < rs[i].end
  /\ InOrder(rs)
PagesIn(rs) == UNION {rs[i].start..(rs[i].end - 1) : i \in DOMAIN rs}

-----------------------------------------------------------------------------
(* Induction over the naturals, for sets.                                  *)
LEMMA LeastNatural ==
  ASSUME NEW T \in SUBSET Nat, T # {} PROVE \E x \in T : \A y \in T : x <= y
<1> DEFINE R == OpToRel(<, Nat)
<1>1. IsWellFoundedOn(R, Nat)
  BY NatLessThanWellFounded
<1>2. \A x, y \in Nat : <<y, x>> \in R <=> y < x
  BY DEF OpToRel
<1> HIDE DEF R
<1>3. PICK x \in T : \A y \in T : ~(<<y, x>> \in R)
  BY <1>1, WFMin
<1>4. \A y \in T : ~(y < x)
  BY <1>2, <1>3
<1> QED  BY <1>4

LEMMA CoveredPage ==
  ASSUME NEW rs \in Seq(Regions), NEW p
  PROVE  p \in PagesIn(rs) <=> p \in Int /\ \E i \in 1..Len(rs) : rs[i].start <= p /\ p < rs[i].end
<1>0. \A i \in 1..Len(rs) : rs[i] \in Regions
  OBVIOUS
<1>1. \A i \in 1..Len(rs) : rs[i].start \in Nat /\ rs[i].end \in Nat
  BY <1>0 DEF Regions
<1>2. p \in PagesIn(rs) <=> \E i \in 1..Len(rs) : p \in rs[i].start..(rs[i].end - 1)
  BY DEF PagesIn
<1> QED  BY <1>1, <1>2

LEMMA RegionTypes ==
  ASSUME NEW rs, Canonical(rs)
  PROVE  /\ Len(rs) \in Nat
         /\ \A i \in 1..Len(rs) : /\ rs[i] \in Regions /\ rs[i].start \in Nat /\ rs[i].end \in Nat
                                  /\ rs[i].start < rs[i].end
         /\ \A i, j \in 1..Len(rs) : i < j => rs[i].end < rs[j].start
<1>1. rs \in Seq(Regions)
  BY DEF Canonical
<1>2. Len(rs) \in Nat /\ \A i \in 1..Len(rs) : rs[i] \in Regions
  BY <1>1
<1>3. \A i \in 1..Len(rs) : rs[i].start \in Nat /\ rs[i].end \in Nat
  BY <1>2 DEF Regions
<1> QED  BY <1>2, <1>3 DEF Canonical, InOrder

(* The regions before, at and behind a range.                              *)
Borders(rs, s, e, a, b) ==
  /\ a \in 0..Len(rs) /\ b \in a..Len(rs)
  /\ \A i \in 1..a : rs[i].end < s
  /\ \A i \in (a + 1)..b : s <= rs[i].end /\ rs[i].start <= e
  /\ \A i \in (b + 1)..Len(rs) : e < rs[i].start

LEMMA HasBorders ==
  ASSUME NEW rs, Canonical(rs), NEW s \in Nat, NEW e \in Nat, s < e
  PROVE  \E a, b \in Nat : Borders(rs, s, e, a, b)
<1>t. /\ Len(rs) \in Nat
      /\ \A i \in 1..Len(rs) : rs[i].start \in Nat /\ rs[i].end \in Nat /\ rs[i].start < rs[i].end
      /\ \A i, j \in 1..Len(rs) : i < j => rs[i].end < rs[j].start
  BY RegionTypes
<1> DEFINE A == {x \in 0..Len(rs) : \A i \in (x + 1)..Len(rs) : s <= rs[i].end}
           B == {x \in 0..Len(rs) : \A i \in (x + 1)..Len(rs) : e < rs[i].start}
<1>1. A \in SUBSET Nat /\ B \in SUBSET Nat /\ Len(rs) \in A /\ Len(rs) \in B
  BY <1>t
<1>2. PICK a \in A : \A y \in A : a <= y
  BY <1>1, LeastNatural
<1>3. PICK b \in B : \A y \in B : b <= y
  BY <1>1, LeastNatural
<1>4. \A i \in 1..a : rs[i].end < s
  <2>1. a = 0 \/ rs[a].end < s
    <3> SUFFICES ASSUME a # 0, ~(rs[a].end < s) PROVE FALSE
      OBVIOUS
    <3>1. a - 1 \in 0..Len(rs) /\ a \in 1..Len(rs)
      BY <1>t
    <3>2. \A i \in ((a - 1) + 1)..Len(rs) : s <= rs[i].end
      BY <1>t, <3>1
    <3> QED  BY <1>2, <3>1, <3>2
  <2> QED  BY <1>t, <2>1
<1>5. \A i \in 1..b : rs[i].start <= e
  <2>1. b = 0 \/ rs[b].start <= e
    <3> SUFFICES ASSUME b # 0, ~(rs[b].start <= e) PROVE FALSE
      OBVIOUS
    <3>1. b - 1 \in 0..Len(rs) /\ b \in 1..Len(rs)
      BY <1>t
    <3>2. \A i \in ((b - 1) + 1)..Len(rs) : e < rs[i].start
      BY <1>t, <3>1
    <3> QED  BY <1>3, <3>1, <3>2
  <2> QED  BY <1>t, <2>1
<1>6. a <= b
  <2> SUFFICES ASSUME b < a PROVE FALSE
    BY <1>t
  <2>1. a \in 1..a /\ a \in (b + 1)..Len(rs) /\ a \in 1..Len(rs)
    BY <1>t
  <2>2. rs[a].end < s /\ e < rs[a].start
    BY <1>4, <2>1
  <2> QED  BY <1>t, <2>1, <2>2
<1>7. /\ a \in 0..Len(rs) /\ b \in a..Len(rs) /\ a \in Nat /\ b \in Nat
      /\ \A i \in (a + 1)..b : s <= rs[i].end /\ rs[i].start <= e
      /\ \A i \in (b + 1)..Len(rs) : e < rs[i].start
  <2>1. a \in 0..Len(rs) /\ b \in a..Len(rs) /\ a \in Nat /\ b \in Nat
    BY <1>t, <1>6
  <2>2. \A i \in (a + 1)..b : i \in (a + 1)..Len(rs) /\ i \in 1..b
    BY <1>t, <2>1
  <2> QED  BY <1>5, <2>1, <2>2
<1> QED  BY <1>4, <1>7 DEF Borders

-----------------------------------------------------------------------------
(* insert_range: what the pass over the table leaves, after n regions.     *)
Kept(rs, a, b, n) == IF n <= a THEN n ELSE IF n <= b THEN a ELSE n - (b - a)
Rest(rs, a, b, n) ==
  [i \in 1..Kept(rs, a, b, n) |-> IF i <= a THEN rs[i] ELSE rs[i + (b - a)]]
Low(rs, s, a, b, n) == IF a < n /\ a < b /\ rs[a + 1].start < s THEN rs[a + 1].start ELSE s
Top(b, n) == IF n <= b THEN n ELSE b
High(rs, e, a, b, n) == IF a < n /\ a < b /\ rs[Top(b, n)].end > e THEN rs[Top(b, n)].end ELSE e
Pass(rs, s, e, a, b, n) ==
  [start |-> Low(rs, s, a, b, n), end |-> High(rs, e, a, b, n), rest |-> Rest(rs, a, b, n)]

LEMMA RestAppends ==
  ASSUME NEW rs \in Seq(Regions), NEW a \in Nat, NEW b \in Nat, a <= b, b <= Len(rs),
         NEW n \in 1..Len(rs), n <= a \/ b < n
  PROVE  Rest(rs, a, b, n) = Append(Rest(rs, a, b, n - 1), rs[n])
<1> DEFINE k == Kept(rs, a, b, n)
           l == Rest(rs, a, b, n - 1)
           r == Rest(rs, a, b, n)
<1>1. k \in Nat \ {0} /\ Kept(rs, a, b, n - 1) = k - 1
  BY DEF Kept
<1>2. k <= n /\ (n <= a => k = n) /\ (b < n => k + (b - a) = n /\ a < k)
  BY DEF Kept
<1> HIDE DEF k
<1>3. \A i \in 1..k : (i <= a => i \in 1..Len(rs)) /\ (~(i <= a) => i + (b - a) \in 1..Len(rs))
  BY <1>1, <1>2
<1>4. r = [i \in 1..k |-> IF i <= a THEN rs[i] ELSE rs[i + (b - a)]]
  BY DEF Rest, k
<1>5. l = [i \in 1..(k - 1) |-> IF i <= a THEN rs[i] ELSE rs[i + (b - a)]]
  BY <1>1 DEF Rest
<1>6. r \in Seq(Regions) /\ Len(r) = k
  BY <1>1, <1>3, <1>4
<1>7. l \in Seq(Regions) /\ Len(l) = k - 1
  <2>1. PICK mg \in Nat : mg = k - 1
    BY <1>1
  <2>2. \A i \in 1..mg : i \in 1..k
    BY <1>1, <2>1
  <2>3. \A i \in 1..mg : (IF i <= a THEN rs[i] ELSE rs[i + (b - a)]) \in Regions
    BY <1>3, <2>2
  <2>4. l = [i \in 1..mg |-> IF i <= a THEN rs[i] ELSE rs[i + (b - a)]]
    BY <1>5, <2>1
  <2> HIDE DEF l
  <2>5. l \in Seq(Regions) /\ Len(l) = mg
    BY <2>3, <2>4
  <2> QED  BY <2>1, <2>5
<1>8. r[k] = rs[n] /\ \A i \in 1..(k - 1) : r[i] = l[i]
  BY <1>1, <1>2, <1>4, <1>5
<1> HIDE DEF l, r
<1>9. PICK c : c = Append(l, rs[n])
  OBVIOUS
<1>10. c \in Seq(Regions) /\ Len(c) = k /\ c[k] = rs[n] /\ \A i \in 1..(k - 1) : c[i] = l[i]
  BY <1>1, <1>7, <1>9
<1>11. \A i \in 1..k : r[i] = c[i]
  BY <1>1, <1>8, <1>10
<1>12. r = c
  BY <1>6, <1>10, <1>11
<1> QED  BY <1>9, <1>12 DEF l, r

LEMMA PassStep ==
  ASSUME NEW rs, Canonical(rs), NEW s \in Nat, NEW e \in Nat, s < e,
         NEW a \in Nat, NEW b \in Nat, Borders(rs, s, e, a, b), NEW n \in 1..Len(rs)
  PROVE  LET mg == Pass(rs, s, e, a, b, n - 1)
             r == rs[n]
         IN  Pass(rs, s, e, a, b, n) =
               IF Touches(r, mg)
               THEN [start |-> IF r.start < mg.start THEN r.start ELSE mg.start,
                     end |-> IF r.end > mg.end THEN r.end ELSE mg.end,
                     rest |-> mg.rest]
               ELSE [mg EXCEPT !.rest = Append(@, r)]
<1> DEFINE mg == Pass(rs, s, e, a, b, n - 1)
           r == rs[n]
           l == Low(rs, s, a, b, n - 1)
           h == High(rs, e, a, b, n - 1)
<1>t. /\ Len(rs) \in Nat
      /\ \A i \in 1..Len(rs) : rs[i].start \in Nat /\ rs[i].end \in Nat /\ rs[i].start < rs[i].end
      /\ \A i, j \in 1..Len(rs) : i < j => rs[i].end < rs[j].start
      /\ rs \in Seq(Regions)
  BY RegionTypes DEF Canonical
<1>b. /\ a <= b /\ b <= Len(rs)
      /\ \A i \in 1..a : rs[i].end < s
      /\ \A i \in (a + 1)..b : s <= rs[i].end /\ rs[i].start <= e
      /\ \A i \in (b + 1)..Len(rs) : e < rs[i].start
  BY <1>t DEF Borders
<1>mg. mg.start = l /\ mg.end = h /\ mg.rest = Rest(rs, a, b, n - 1)
  BY DEF Pass
<1>e. [mg EXCEPT !.rest = Append(@, r)] = [start |-> l, end |-> h, rest |-> Append(Rest(rs, a, b, n - 1), r)]
  BY DEF Pass
<1>1. CASE n <= a
  <2>1. n \in 1..a /\ ~(a < n) /\ ~(a < n - 1)
    BY <1>1, <1>b, <1>t
  <2>2. r.end < s /\ l = s /\ h = e
    BY <1>b, <2>1 DEF Low, High
  <2>3. Low(rs, s, a, b, n) = s /\ High(rs, e, a, b, n) = e
    BY <2>1 DEF Low, High
  <2>4. ~Touches(r, mg)
    BY <1>mg, <2>2 DEF Touches
  <2>5. Rest(rs, a, b, n) = Append(Rest(rs, a, b, n - 1), r)
    BY <1>1, <1>b, <1>t, RestAppends
  <2> QED  BY <1>e, <2>2, <2>3, <2>4, <2>5 DEF Pass
<1>2. CASE a < n /\ n <= b
  <2>1. n \in (a + 1)..b /\ n \in 1..Len(rs) /\ a < b /\ a + 1 \in 1..Len(rs)
    BY <1>2, <1>b, <1>t
  <2>2. s <= r.end /\ r.start <= e /\ r.start \in Nat /\ r.end \in Nat
    BY <1>b, <1>t, <2>1
  <2>3. Rest(rs, a, b, n) = Rest(rs, a, b, n - 1)
    <3>1. Kept(rs, a, b, n) = a /\ Kept(rs, a, b, n - 1) = a
      BY <1>2, <1>t DEF Kept
    <3> QED  BY <3>1 DEF Rest
  <2>4. CASE n = a + 1
    <3>1. l = s /\ h = e
      BY <2>4 DEF Low, High
    <3>2. Touches(r, mg)
      BY <1>mg, <2>2, <3>1 DEF Touches
    <3>3. Low(rs, s, a, b, n) = IF r.start < s THEN r.start ELSE s
      BY <2>1, <2>4 DEF Low
    <3>4. High(rs, e, a, b, n) = IF r.end > e THEN r.end ELSE e
      BY <1>2, <2>1, <2>4 DEF High, Top
    <3> QED  BY <1>mg, <2>3, <3>1, <3>2, <3>3, <3>4 DEF Pass
  <2>5. CASE n # a + 1
    <3>1. n - 1 \in 1..Len(rs) /\ a < n - 1 /\ n - 1 <= b /\ a + 1 < n
      BY <1>2, <1>t, <2>5
    <3>2. l = (IF rs[a + 1].start < s THEN rs[a + 1].start ELSE s) /\ h = IF rs[n - 1].end > e THEN rs[n - 1].end ELSE e
      BY <2>1, <3>1 DEF Low, High, Top
    <3>3. rs[n - 1].end < r.start /\ rs[a + 1].end < r.start /\ r.start < r.end
      <4>1. n - 1 < n /\ a + 1 < n /\ n \in 1..Len(rs) /\ n - 1 \in 1..Len(rs) /\ a + 1 \in 1..Len(rs)
        BY <2>1, <3>1
      <4>2. rs[n - 1].end < rs[n].start
        BY <1>t, <4>1
      <4>3. rs[a + 1].end < rs[n].start
        BY <1>t, <4>1
      <4> QED  BY <1>t, <4>1, <4>2, <4>3
    <3>n. rs[n - 1].end \in Nat /\ rs[a + 1].start \in Nat /\ rs[a + 1].end \in Nat /\ rs[a + 1].start < rs[a + 1].end
      BY <1>t, <2>1, <3>1
    <3>4. Low(rs, s, a, b, n) = l
      BY <1>2, <2>1, <3>2 DEF Low
    <3>5. High(rs, e, a, b, n) = IF r.end > e THEN r.end ELSE e
      BY <1>2, <2>1 DEF High, Top
    <3> HIDE DEF l, h
    <3>l. l \in Nat /\ l <= s
      BY <3>2, <3>n
    <3>h. h \in Nat /\ e <= h
      BY <3>2, <3>n
    <3>6. Touches(r, mg)
      BY <1>mg, <2>2, <3>l, <3>h DEF Touches
    <3>7. ~(r.start < l)
      <4>1. PICK x, y, z \in Nat : x = rs[a + 1].start /\ y = r.start /\ z = rs[a + 1].end
        BY <2>2, <3>n
      <4>2. x < y
        BY <3>3, <3>n, <4>1, SMTT(30)
      <4>3. l = IF x < s THEN x ELSE s
        BY <3>2, <4>1
      <4> QED  BY <4>1, <4>2, <4>3
    <3>8. (IF r.end > h THEN r.end ELSE h) = IF r.end > e THEN r.end ELSE e
      BY <2>2, <3>2, <3>3, <3>n
    <3> QED  BY <1>mg, <2>3, <3>4, <3>5, <3>6, <3>7, <3>8 DEF Pass
  <2> QED  BY <2>4, <2>5
<1>3. CASE b < n
  <2>1. n \in (b + 1)..Len(rs) /\ n \in 1..Len(rs) /\ n - 1 \in Nat
    BY <1>3, <1>b, <1>t
  <2>2. e < r.start /\ r.start \in Nat
    BY <1>b, <1>t, <2>1
  <2>3. Rest(rs, a, b, n) = Append(Rest(rs, a, b, n - 1), r)
    BY <1>3, <1>b, <1>t, RestAppends
  <2>4. CASE a = b
    <3>1. l = s /\ h = e /\ Low(rs, s, a, b, n) = s /\ High(rs, e, a, b, n) = e
      BY <2>4 DEF Low, High
    <3>2. ~Touches(r, mg)
      BY <1>mg, <2>2, <3>1 DEF Touches
    <3> QED  BY <1>e, <2>3, <3>1, <3>2 DEF Pass
  <2>5. CASE a < b
    <3>1. a < n /\ a < n - 1 /\ Top(b, n) = b /\ Top(b, n - 1) = b
      BY <1>3, <2>1, <2>5 DEF Top
    <3>2. l = Low(rs, s, a, b, n) /\ h = High(rs, e, a, b, n) /\ h = IF rs[b].end > e THEN rs[b].end ELSE e
      BY <2>5, <3>1 DEF Low, High
    <3>3. b \in 1..Len(rs) /\ rs[b].end < r.start /\ rs[b].end \in Nat
      <4>1. b \in 1..Len(rs)
        BY <1>b, <1>t, <2>5
      <4> QED  BY <1>3, <1>t, <2>1, <4>1
    <3>4. h < r.start
      BY <2>2, <3>2, <3>3
    <3>5. ~Touches(r, mg)
      BY <1>mg, <3>4 DEF Touches
    <3> QED  BY <1>e, <2>3, <3>2, <3>5 DEF Pass
  <2> QED  BY <1>b, <2>4, <2>5
<1> QED  BY <1>1, <1>2, <1>3, <1>t

LEMMA AbsorbIs ==
  ASSUME NEW rs, Canonical(rs), NEW s \in Nat, NEW e \in Nat, s < e,
         NEW a \in Nat, NEW b \in Nat, Borders(rs, s, e, a, b)
  PROVE  Absorb(rs, s, e) = Pass(rs, s, e, a, b, Len(rs))
<1> DEFINE L == Len(rs)
           P(n) == Pass(rs, s, e, a, b, n)
           Start == [start |-> s, end |-> e, rest |-> <<>>]
           Step(mg, r) == IF Touches(r, mg)
                         THEN [start |-> IF r.start < mg.start THEN r.start ELSE mg.start,
                               end |-> IF r.end > mg.end THEN r.end ELSE mg.end,
                               rest |-> mg.rest]
                         ELSE [mg EXCEPT !.rest = Append(@, r)]
           IsPass(f) == f = [n \in 0..Len(rs) |->
                             IF n = 0 THEN [start |-> s, end |-> e, rest |-> <<>>]
                             ELSE LET mg == f[n - 1]
                                      r == rs[n]
                                  IN  IF Touches(r, mg)
                                      THEN [start |-> IF r.start < mg.start THEN r.start ELSE mg.start,
                                            end |-> IF r.end > mg.end THEN r.end ELSE mg.end,
                                            rest |-> mg.rest]
                                      ELSE [mg EXCEPT !.rest = Append(@, r)]]
           g == [n \in 0..L |-> P(n)]
           f == CHOOSE f : IsPass(f)
<1>n. L \in Nat
  BY RegionTypes
<1>0. P(0) = Start
  <2>1. Kept(rs, a, b, 0) = 0 /\ ~(a < 0)
    BY DEF Kept
  <2>2. Rest(rs, a, b, 0) = <<>>
    BY <2>1 DEF Rest
  <2> QED  BY <2>1, <2>2 DEF Pass, Low, High
<1>s. \A n \in 1..L : P(n) = Step(P(n - 1), rs[n])
  BY PassStep
<1>w. \A h : IsPass(h) <=> h = [n \in 0..L |-> IF n = 0 THEN Start ELSE Step(h[n - 1], rs[n])]
  OBVIOUS
<1>3. Absorb(rs, s, e) = f[L]
  BY DEF Absorb
<1> HIDE DEF P, Start, Step
<1>1. IsPass(g)
  <2>1. \A n \in 0..L : n # 0 => n \in 1..L /\ n - 1 \in 0..L
    BY <1>n
  <2>2. \A n \in 0..L : g[n] = IF n = 0 THEN Start ELSE Step(g[n - 1], rs[n])
    BY <1>0, <1>s, <2>1
  <2>3. g = [n \in 0..L |-> IF n = 0 THEN Start ELSE Step(g[n - 1], rs[n])]
    BY <2>2
  <2> HIDE DEF g, IsPass
  <2> QED  BY <1>w, <2>3
<1> HIDE DEF IsPass
<1>2. IsPass(f)
  BY <1>1
<1>e. \A n \in 0..L : f[n] = IF n = 0 THEN Start ELSE Step(f[n - 1], rs[n])
  BY <1>2, <1>w
<1> HIDE DEF f, g
<1>4. \A n \in 0..L : f[n] = P(n)
  <2> DEFINE bad == {n \in 0..L : f[n] # P(n)}
  <2> SUFFICES ASSUME bad # {} PROVE FALSE
    OBVIOUS
  <2>1. bad \in SUBSET Nat
    BY <1>n
  <2>2. PICK n \in bad : \A k \in bad : n <= k
    BY <2>1, LeastNatural
  <2>3. n # 0
    BY <1>0, <1>e, <1>n
  <2>4. n - 1 \in 0..L /\ n \in 1..L /\ ~(n <= n - 1)
    BY <1>n, <2>3
  <2>5. f[n - 1] = P(n - 1)
    BY <2>2, <2>4
  <2>6. f[n] = P(n)
    BY <1>e, <1>s, <2>3, <2>4, <2>5
  <2> QED  BY <2>6
<1> QED  BY <1>3, <1>4, <1>n DEF P

(* One more region at a place of the table.                                *)
LEMMA Inserted ==
  ASSUME NEW q \in Seq(Regions), NEW x \in Regions, NEW k \in 1..(Len(q) + 1)
  PROVE  LET t == InsertAt(q, k, x)
         IN  /\ t \in Seq(Regions) /\ Len(t) = Len(q) + 1 /\ t[k] = x
             /\ \A i \in 1..(k - 1) : t[i] = q[i]
             /\ \A i \in (k + 1)..(Len(q) + 1) : t[i] = q[i - 1]
<1> DEFINE u == SubSeq(q, 1, k - 1)
           v == SubSeq(q, k, Len(q))
<1>1. u \in Seq(Regions) /\ Len(u) = k - 1 /\ \A i \in 1..(k - 1) : u[i] = q[i]
  OBVIOUS
<1>2. v \in Seq(Regions) /\ Len(v) = Len(q) + 1 - k /\ \A i \in 1..(Len(q) + 1 - k) : v[i] = q[k + i - 1]
  OBVIOUS
<1> HIDE DEF u, v
<1>3. PICK w : w = u \o <<x>>
  OBVIOUS
<1>4. w \in Seq(Regions) /\ Len(w) = k /\ w[k] = x /\ \A i \in 1..(k - 1) : w[i] = u[i]
  BY <1>1, <1>3
<1>5. PICK t : t = w \o v
  OBVIOUS
<1>6. /\ t \in Seq(Regions) /\ Len(t) = Len(q) + 1
      /\ \A i \in 1..k : t[i] = w[i]
      /\ \A i \in (k + 1)..(Len(q) + 1) : t[i] = v[i - k]
  BY <1>2, <1>4, <1>5
<1>7. InsertAt(q, k, x) = t
  BY <1>3, <1>5 DEF InsertAt, u, v
<1>8. \A i \in (k + 1)..(Len(q) + 1) : i - k \in 1..(Len(q) + 1 - k) /\ k + (i - k) - 1 = i - 1
  OBVIOUS
<1>9. \A i \in (k + 1)..(Len(q) + 1) : t[i] = q[i - 1]
  BY <1>2, <1>6, <1>8
<1>10. \A i \in 1..(k - 1) : i \in 1..k
  OBVIOUS
<1> QED  BY <1>1, <1>4, <1>6, <1>7, <1>9, <1>10

LEMMA MinOf == ASSUME NEW T \in SUBSET Nat, NEW mg \in T, \A j \in T : mg <= j
               PROVE  Min(T) = mg
<1>0. mg \in Nat /\ \A x \in T : x \in Nat /\ mg <= x
  OBVIOUS
<1>1. ASSUME NEW x \in T, \A y \in T : x <= y PROVE x = mg
  <2>1. x <= mg /\ mg <= x /\ x \in Nat
    BY <1>0, <1>1
  <2> QED  BY <1>0, <2>1
<1> QED  BY <1>0, <1>1 DEF Min

(* The table after insert_range.                                           *)
Merged(rs, s, e, a, b) ==
  Region(Low(rs, s, a, b, Len(rs)), High(rs, e, a, b, Len(rs)))
LEMMA InsertIs ==
  ASSUME NEW rs, Canonical(rs), NEW s \in Nat, NEW e \in Nat, s < e,
         NEW a \in Nat, NEW b \in Nat, Borders(rs, s, e, a, b)
  PROVE  LET t == Insert(rs, s, e)
             k == Len(rs) - (b - a)
         IN  /\ Len(Absorb(rs, s, e).rest) = k /\ k \in Nat
             /\ t \in Seq(Regions) /\ Len(t) = k + 1
             /\ \A i \in 1..a : t[i] = rs[i]
             /\ t[a + 1] = Merged(rs, s, e, a, b)
             /\ \A i \in (a + 2)..(k + 1) : t[i] = rs[(i - 1) + (b - a)]
<1> DEFINE L == Len(rs)
           k == L - (b - a)
           q == Rest(rs, a, b, L)
           lo == Low(rs, s, a, b, L)
           hi == High(rs, e, a, b, L)
           mg == Absorb(rs, s, e)
           place == SelectInSeq(mg.rest, LAMBDA r : r.start >= mg.start)
<1>t. /\ L \in Nat
      /\ \A i \in 1..L : rs[i] \in Regions /\ rs[i].start \in Nat /\ rs[i].end \in Nat /\ rs[i].start < rs[i].end
      /\ \A i, j \in 1..L : i < j => rs[i].end < rs[j].start
  BY RegionTypes
<1>b. /\ a <= b /\ b <= L
      /\ \A i \in 1..a : rs[i].end < s
      /\ \A i \in (a + 1)..b : s <= rs[i].end /\ rs[i].start <= e
      /\ \A i \in (b + 1)..L : e < rs[i].start
  BY <1>t DEF Borders
<1>k. k \in Nat /\ a <= k /\ Kept(rs, a, b, L) = k
  <2>1. k \in Nat /\ a <= k /\ a <= L
    BY <1>b, <1>t
  <2>2. L <= a => L = k
    <3>1. L <= a => a = b /\ L = a
      BY <1>b, <1>t, <2>1
    <3> QED  BY <3>1
  <2>3. L <= b => a = k
    <3>1. L <= b => L = b
      BY <1>b, <1>t
    <3> QED  BY <3>1
  <2> QED  BY <2>1, <2>2, <2>3 DEF Kept
<1>1. mg.rest = q /\ mg.start = lo /\ mg.end = hi
  BY AbsorbIs DEF Pass
<1>2. lo \in Nat /\ hi \in Nat /\ lo <= s /\ \A i \in 1..a : rs[i].start < lo
  <2>1. CASE a < b
    <3>1. a + 1 \in 1..L /\ b \in 1..L /\ Top(b, L) = b /\ a < L
      BY <1>b, <1>t, <2>1 DEF Top
    <3>2. /\ lo = IF rs[a + 1].start < s THEN rs[a + 1].start ELSE s
          /\ hi = IF rs[b].end > e THEN rs[b].end ELSE e
      BY <2>1, <3>1 DEF Low, High
    <3>3. ASSUME NEW i \in 1..a PROVE rs[i].start < rs[a + 1].start /\ rs[i].start < s
      <4>1. i \in 1..L /\ i < a + 1
        BY <1>b, <1>t
      <4>2. rs[i].end < rs[a + 1].start /\ rs[i].end < s /\ rs[i].start < rs[i].end
        BY <1>b, <1>t, <3>1, <4>1
      <4> QED  BY <1>t, <3>1, <4>1, <4>2
    <3>4. rs[a + 1].start \in Nat /\ rs[b].end \in Nat
      BY <1>t, <3>1
    <3> QED  BY <3>2, <3>3, <3>4, SMTT(30)
  <2>2. CASE ~(a < b)
    <3>1. lo = s /\ hi = e
      BY <2>2 DEF Low, High
    <3>2. \A i \in 1..a : i \in 1..L
      BY <1>b, <1>t
    <3> QED  BY <1>b, <1>t, <3>1, <3>2
  <2> QED  BY <2>1, <2>2
<1>3. q = [i \in 1..k |-> IF i <= a THEN rs[i] ELSE rs[i + (b - a)]]
  BY <1>k DEF Rest
<1>4. \A i \in 1..k : (i <= a => i \in 1..L) /\ (~(i <= a) => i + (b - a) \in (b + 1)..L /\ i + (b - a) \in 1..L)
  BY <1>b, <1>t
<1>5. q \in Seq(Regions) /\ Len(q) = k
  <2>1. \A i \in 1..k : (IF i <= a THEN rs[i] ELSE rs[i + (b - a)]) \in Regions
    BY <1>4, <1>t
  <2> HIDE DEF k, q
  <2> QED  BY <1>3, <1>k, <2>1
<1> HIDE DEF q, lo, hi, k
<1>6. place = IF {i \in 1..Len(q) : q[i].start >= lo} # {} THEN Min({i \in 1..Len(q) : q[i].start >= lo}) ELSE 0
  BY <1>1 DEF SelectInSeq
<1>7. \A i \in 1..k : q[i].start >= lo <=> a < i
  <2> SUFFICES ASSUME NEW i \in 1..k PROVE q[i].start >= lo <=> a < i
    OBVIOUS
  <2>1. CASE i <= a
    <3>1. q[i] = rs[i] /\ i \in 1..a /\ i \in 1..L
      BY <1>3, <1>4, <2>1
    <3>2. rs[i].start < lo /\ rs[i].start \in Nat
      BY <1>2, <1>t, <3>1
    <3> QED  BY <1>2, <2>1, <3>1, <3>2
  <2>2. CASE ~(i <= a)
    <3>1. q[i] = rs[i + (b - a)] /\ i + (b - a) \in (b + 1)..L /\ i + (b - a) \in 1..L
      BY <1>3, <1>4, <2>2
    <3>2. e < q[i].start /\ q[i].start \in Nat
      BY <1>b, <1>t, <3>1
    <3> QED  BY <1>2, <2>2, <3>2, <1>k
  <2> QED  BY <2>1, <2>2
<1> DEFINE T == {i \in 1..Len(q) : q[i].start >= lo}
<1>8. (IF place = 0 THEN k + 1 ELSE place) = a + 1
  <2>1. CASE a = k
    <3>1. T = {}
      BY <1>5, <1>7, <1>k, <2>1
    <3> QED  BY <1>6, <2>1, <3>1
  <2>2. CASE a < k
    <3>1. a + 1 \in T /\ T \in SUBSET Nat /\ \A j \in T : a + 1 <= j
      BY <1>5, <1>7, <1>k, <2>2
    <3>2. Min(T) = a + 1
      BY <3>1, MinOf
    <3>3. T # {}
      BY <3>1
    <3> QED  BY <1>6, <3>2, <3>3
  <2> QED  BY <1>k, <2>1, <2>2
<1>9. Insert(rs, s, e) = InsertAt(q, a + 1, Region(lo, hi))
  <2>1. Insert(rs, s, e) = InsertAt(mg.rest, IF place = 0 THEN Len(mg.rest) + 1 ELSE place, Region(mg.start, mg.end))
    BY DEF Insert
  <2> QED  BY <1>1, <1>5, <1>8, <2>1
<1>10. Region(lo, hi) \in Regions /\ a + 1 \in 1..(Len(q) + 1)
  BY <1>2, <1>5, <1>k DEF Region, Regions
<1>11. PICK t : t = Insert(rs, s, e)
  OBVIOUS
<1>12. /\ t \in Seq(Regions) /\ Len(t) = k + 1 /\ t[a + 1] = Region(lo, hi)
       /\ \A i \in 1..a : t[i] = q[i]
       /\ \A i \in (a + 2)..(k + 1) : t[i] = q[i - 1]
  <2>1. PICK p \in 1..(Len(q) + 1) : p = a + 1
    BY <1>10
  <2>2. /\ t \in Seq(Regions) /\ Len(t) = Len(q) + 1 /\ t[p] = Region(lo, hi)
        /\ \A i \in 1..(p - 1) : t[i] = q[i]
        /\ \A i \in (p + 1)..(Len(q) + 1) : t[i] = q[i - 1]
    <3>1. t = InsertAt(q, p, Region(lo, hi))
      BY <1>9, <1>11, <2>1
    <3>2. PICK x \in Regions : x = Region(lo, hi)
      BY <1>10
    <3>3. t = InsertAt(q, p, x)
      BY <3>1, <3>2
    <3>q. q \in Seq(Regions)
      BY <1>5
    <3>i. LET u == InsertAt(q, p, x)
          IN  /\ u \in Seq(Regions) /\ Len(u) = Len(q) + 1 /\ u[p] = x
              /\ \A i \in 1..(p - 1) : u[i] = q[i]
              /\ \A i \in (p + 1)..(Len(q) + 1) : u[i] = q[i - 1]
      BY <3>q, Inserted
    <3>4. /\ t \in Seq(Regions) /\ Len(t) = Len(q) + 1 /\ t[p] = x
          /\ \A i \in 1..(p - 1) : t[i] = q[i]
          /\ \A i \in (p + 1)..(Len(q) + 1) : t[i] = q[i - 1]
      BY <3>3, <3>i
    <3> QED  BY <3>2, <3>4
  <2>3. p - 1 = a /\ p + 1 = a + 2
    BY <2>1
  <2> QED  BY <1>5, <2>1, <2>2, <2>3
<1>13. \A i \in 1..a : q[i] = rs[i]
  BY <1>3, <1>k
<1>14. \A i \in (a + 2)..(k + 1) : q[i - 1] = rs[(i - 1) + (b - a)]
  <2> SUFFICES ASSUME NEW i \in (a + 2)..(k + 1) PROVE q[i - 1] = rs[(i - 1) + (b - a)]
    OBVIOUS
  <2>1. i - 1 \in 1..k /\ ~(i - 1 <= a)
    BY <1>k
  <2> QED  BY <1>3, <2>1
<1> QED
  BY <1>1, <1>5, <1>k, <1>11, <1>12, <1>13, <1>14 DEF Merged, k, lo, hi

LEMMA MergedIs ==
  ASSUME NEW rs, Canonical(rs), NEW s \in Nat, NEW e \in Nat, s < e,
         NEW a \in Nat, NEW b \in Nat, Borders(rs, s, e, a, b)
  PROVE  LET mg == Merged(rs, s, e, a, b)
         IN  /\ mg.start \in Nat /\ mg.end \in Nat /\ mg.start <= s /\ e <= mg.end
             /\ \A i \in 1..a : rs[i].end < mg.start
             /\ \A i \in (b + 1)..Len(rs) : mg.end < rs[i].start
             /\ \A i \in (a + 1)..b : mg.start <= rs[i].start /\ rs[i].end <= mg.end
             /\ \A p \in Int : mg.start <= p /\ p < mg.end =>
                  \/ s <= p /\ p < e
                  \/ \E i \in (a + 1)..b : rs[i].start <= p /\ p < rs[i].end
<1> DEFINE L == Len(rs)
           mg == Merged(rs, s, e, a, b)
<1>t. /\ L \in Nat
      /\ \A i \in 1..L : rs[i].start \in Nat /\ rs[i].end \in Nat /\ rs[i].start < rs[i].end
      /\ \A i, j \in 1..L : i < j => rs[i].end < rs[j].start
  BY RegionTypes
<1>b. /\ a <= b /\ b <= L
      /\ \A i \in 1..a : rs[i].end < s
      /\ \A i \in (a + 1)..b : s <= rs[i].end /\ rs[i].start <= e
      /\ \A i \in (b + 1)..L : e < rs[i].start
  BY <1>t DEF Borders
<1>i. /\ \A i \in 1..a : i \in 1..L
      /\ \A i \in (a + 1)..b : i \in 1..L
      /\ \A i \in (b + 1)..L : i \in 1..L
  BY <1>b, <1>t
<1>mg. mg.start = Low(rs, s, a, b, L) /\ mg.end = High(rs, e, a, b, L)
  BY DEF Merged, Region
<1> HIDE DEF mg
<1>1. CASE a = b
  <2>1. mg.start = s /\ mg.end = e
    BY <1>1, <1>mg DEF Low, High
  <2>2. \A i \in (a + 1)..b : FALSE
    BY <1>1
  <2> QED  BY <1>b, <2>1, <2>2 DEF mg
<1>2. CASE a < b
  <2>1. a + 1 \in (a + 1)..b /\ b \in (a + 1)..b /\ a + 1 \in 1..L /\ b \in 1..L /\ Top(b, L) = b /\ a < L
    BY <1>2, <1>b, <1>t DEF Top
  <2>2. PICK x, y \in Nat : x = rs[a + 1].start /\ y = rs[b].end
    BY <1>t, <2>1
  <2>3. mg.start = (IF x < s THEN x ELSE s) /\ mg.end = IF y > e THEN y ELSE e
    BY <1>2, <1>mg, <2>1, <2>2 DEF Low, High
  <2>4. mg.start \in Nat /\ mg.end \in Nat /\ mg.start <= s /\ mg.start <= x /\ e <= mg.end /\ y <= mg.end
    BY <2>2, <2>3
  <2>5. ASSUME NEW i \in 1..a PROVE rs[i].end < mg.start
    <3>1. i < a + 1 /\ i \in 1..L
      BY <1>i
    <3>2. rs[i].end < x /\ rs[i].end < s
      BY <1>b, <1>t, <2>1, <2>2, <3>1
    <3> QED  BY <2>3, <3>2
  <2>6. ASSUME NEW i \in (b + 1)..L PROVE mg.end < rs[i].start
    <3>1. b < i /\ i \in 1..L
      BY <1>i
    <3>2. y < rs[i].start /\ e < rs[i].start
      BY <1>b, <1>t, <2>1, <2>2, <3>1
    <3> QED  BY <2>3, <3>2
  <2>7. ASSUME NEW i \in (a + 1)..b PROVE mg.start <= rs[i].start /\ rs[i].end <= mg.end
    <3>1. i \in 1..L /\ rs[i].start \in Nat /\ rs[i].end \in Nat
      BY <1>i, <1>t
    <3>2. x <= rs[i].start
      <4>1. i = a + 1 \/ a + 1 < i
        OBVIOUS
      <4>2. rs[a + 1].end \in Nat /\ rs[a + 1].start < rs[a + 1].end
        BY <1>t, <2>1
      <4>3. a + 1 < i => rs[a + 1].end < rs[i].start
        BY <1>t, <2>1, <3>1
      <4> QED  BY <2>2, <3>1, <4>1, <4>2, <4>3
    <3>3. rs[i].end <= y
      <4>1. i = b \/ i < b
        OBVIOUS
      <4>2. rs[b].start \in Nat /\ rs[b].start < rs[b].end
        BY <1>t, <2>1
      <4>3. i < b => rs[i].end < rs[b].start
        BY <1>t, <2>1, <3>1
      <4> QED  BY <2>2, <3>1, <4>1, <4>2, <4>3, SMTT(30)
    <3>4. mg.start <= rs[i].start
      BY <2>2, <2>4, <3>1, <3>2, SMTT(30)
    <3>5. rs[i].end <= mg.end
      BY <2>2, <2>4, <3>1, <3>3, SMTT(30)
    <3> QED  BY <3>4, <3>5
  <2>8. ASSUME NEW p \in Int, mg.start <= p, p < mg.end
        PROVE  \/ s <= p /\ p < e
               \/ \E i \in (a + 1)..b : rs[i].start <= p /\ p < rs[i].end
    <3>1. CASE p < s
      <4>1. x <= p
        BY <2>2, <2>3, <2>8, <3>1
      <4>2. s <= rs[a + 1].end /\ rs[a + 1].end \in Nat
        BY <1>b, <1>t, <2>1
      <4>3. rs[a + 1].start <= p /\ p < rs[a + 1].end
        BY <2>2, <3>1, <4>1, <4>2
      <4> QED  BY <2>1, <4>3
    <3>2. CASE p >= e
      <4>1. p < y
        BY <2>2, <2>3, <2>8, <3>2
      <4>2. rs[b].start <= e /\ rs[b].start \in Nat
        BY <1>b, <1>t, <2>1
      <4>3. rs[b].start <= p /\ p < rs[b].end
        BY <2>2, <3>2, <4>1, <4>2
      <4> QED  BY <2>1, <4>3
    <3> QED  BY <3>1, <3>2
  <2> QED  BY <2>4, <2>5, <2>6, <2>7, <2>8 DEF mg
<1> QED  BY <1>1, <1>2, <1>b

(* insert_range keeps the form of the table and adds exactly the range.    *)
LEMMA InsertKeeps ==
  ASSUME NEW rs, Canonical(rs), NEW s \in Nat, NEW e \in Nat, s < e
  PROVE  /\ Canonical(Insert(rs, s, e))
         /\ PagesIn(Insert(rs, s, e)) = PagesIn(rs) \cup (s..(e - 1))
         /\ Len(Insert(rs, s, e)) = Len(Absorb(rs, s, e).rest) + 1
         /\ Len(Absorb(rs, s, e).rest) \in Nat
<1>1. PICK a, b \in Nat : Borders(rs, s, e, a, b)
  BY HasBorders
<1> DEFINE L == Len(rs)
<1>2. PICK t, k, mg : /\ t = Insert(rs, s, e) /\ k = L - (b - a) /\ mg = Merged(rs, s, e, a, b)
  OBVIOUS
<1>t. /\ L \in Nat /\ rs \in Seq(Regions)
      /\ \A i \in 1..L : rs[i].start \in Nat /\ rs[i].end \in Nat /\ rs[i].start < rs[i].end
      /\ \A i, j \in 1..L : i < j => rs[i].end < rs[j].start
  BY RegionTypes DEF Canonical
<1>b. a <= b /\ b <= L
  BY <1>1, <1>t DEF Borders
<1>3. /\ Len(Absorb(rs, s, e).rest) = k /\ k \in Nat
      /\ t \in Seq(Regions) /\ Len(t) = k + 1
      /\ \A i \in 1..a : t[i] = rs[i]
      /\ t[a + 1] = mg
      /\ \A i \in (a + 2)..(k + 1) : t[i] = rs[(i - 1) + (b - a)]
  <2>1. LET tt == Insert(rs, s, e)
            kk == Len(rs) - (b - a)
        IN  /\ Len(Absorb(rs, s, e).rest) = kk /\ kk \in Nat
            /\ tt \in Seq(Regions) /\ Len(tt) = kk + 1
            /\ \A i \in 1..a : tt[i] = rs[i]
            /\ tt[a + 1] = Merged(rs, s, e, a, b)
            /\ \A i \in (a + 2)..(kk + 1) : tt[i] = rs[(i - 1) + (b - a)]
    BY <1>1, InsertIs
  <2> QED  BY <1>2, <2>1
<1>4. /\ mg.start \in Nat /\ mg.end \in Nat /\ mg.start <= s /\ e <= mg.end
      /\ \A i \in 1..a : rs[i].end < mg.start
      /\ \A i \in (b + 1)..L : mg.end < rs[i].start
      /\ \A i \in (a + 1)..b : mg.start <= rs[i].start /\ rs[i].end <= mg.end
      /\ \A p \in Int : mg.start <= p /\ p < mg.end =>
           \/ s <= p /\ p < e
           \/ \E i \in (a + 1)..b : rs[i].start <= p /\ p < rs[i].end
  <2>1. LET mm == Merged(rs, s, e, a, b)
        IN  /\ mm.start \in Nat /\ mm.end \in Nat /\ mm.start <= s /\ e <= mm.end
            /\ \A i \in 1..a : rs[i].end < mm.start
            /\ \A i \in (b + 1)..Len(rs) : mm.end < rs[i].start
            /\ \A i \in (a + 1)..b : mm.start <= rs[i].start /\ rs[i].end <= mm.end
            /\ \A p \in Int : mm.start <= p /\ p < mm.end =>
                 \/ s <= p /\ p < e
                 \/ \E i \in (a + 1)..b : rs[i].start <= p /\ p < rs[i].end
    BY <1>1, MergedIs, ZenonT(60)
  <2> QED  BY <1>2, <2>1
<1>5. \A i \in 1..(k + 1) :
        \/ i \in 1..a /\ i \in 1..L /\ t[i] = rs[i]
        \/ i = a + 1 /\ t[i] = mg
        \/ \E j \in (b + 1)..L : /\ j = (i - 1) + (b - a) /\ j \in 1..L /\ t[i] = rs[j] /\ i > a + 1
  <2> SUFFICES ASSUME NEW i \in 1..(k + 1)
               PROVE  \/ i \in 1..a /\ i \in 1..L /\ t[i] = rs[i]
                      \/ i = a + 1 /\ t[i] = mg
                      \/ \E j \in (b + 1)..L : j = (i - 1) + (b - a) /\ j \in 1..L /\ t[i] = rs[j] /\ i > a + 1
    OBVIOUS
  <2>1. CASE i <= a
    BY <1>3, <1>b, <1>t, <2>1
  <2>2. CASE i = a + 1
    BY <1>3, <2>2
  <2>3. CASE i > a + 1
    <3>1. PICK j \in Int : j = (i - 1) + (b - a)
      OBVIOUS
    <3>2. j \in (b + 1)..L /\ j \in 1..L /\ i \in (a + 2)..(k + 1)
      BY <1>2, <1>b, <1>t, <2>3, <3>1
    <3>3. t[i] = rs[j]
      BY <1>3, <3>1, <3>2
    <3> QED  BY <2>3, <3>1, <3>2, <3>3
  <2> QED  BY <2>1, <2>2, <2>3
<1>6. Canonical(t)
  <2>1. ASSUME NEW i \in 1..(k + 1) PROVE t[i].start < t[i].end
    <3>1. (\E j \in 1..L : t[i] = rs[j]) \/ t[i] = mg
      BY <1>5
    <3>2. mg.start < mg.end
      BY <1>4
    <3> QED  BY <1>t, <3>1, <3>2
  <2>2. ASSUME NEW i \in 1..(k + 1), NEW j \in 1..(k + 1), i < j PROVE t[i].end < t[j].start
    <3>1. CASE i \in 1..a /\ t[i] = rs[i] /\ i \in 1..L
      <4>1. CASE j \in 1..a /\ j \in 1..L /\ t[j] = rs[j]
        BY <1>t, <2>2, <3>1, <4>1
      <4>2. CASE j = a + 1 /\ t[j] = mg
        BY <1>4, <3>1, <4>2
      <4>3. CASE \E l \in (b + 1)..L : l \in 1..L /\ t[j] = rs[l]
        <5>1. PICK l \in (b + 1)..L : l \in 1..L /\ t[j] = rs[l]
          BY <4>3
        <5>2. i < l
          BY <1>b, <3>1
        <5> QED  BY <1>t, <3>1, <5>1, <5>2
      <4> QED  BY <1>5, <4>1, <4>2, <4>3
    <3>2. CASE i = a + 1 /\ t[i] = mg
      <4>1. PICK l \in (b + 1)..L : t[j] = rs[l]
        BY <1>5, <2>2, <3>2
      <4> QED  BY <1>4, <3>2, <4>1
    <3>3. CASE \E l \in (b + 1)..L : l = (i - 1) + (b - a) /\ l \in 1..L /\ t[i] = rs[l] /\ i > a + 1
      <4>1. PICK l \in (b + 1)..L : l = (i - 1) + (b - a) /\ l \in 1..L /\ t[i] = rs[l] /\ i > a + 1
        BY <3>3
      <4>2. PICK n \in (b + 1)..L : n = (j - 1) + (b - a) /\ n \in 1..L /\ t[j] = rs[n]
        BY <1>5, <2>2, <4>1
      <4>3. l < n
        BY <2>2, <4>1, <4>2
      <4> QED  BY <1>t, <4>1, <4>2, <4>3
    <3> QED  BY <1>5, <3>1, <3>2, <3>3
  <2> QED  BY <1>3, <2>1, <2>2 DEF Canonical, InOrder
<1>7. PagesIn(t) = PagesIn(rs) \cup (s..(e - 1))
  <2>1. ASSUME NEW p \in PagesIn(t) PROVE p \in PagesIn(rs) \cup (s..(e - 1))
    <3>1. PICK i \in 1..(k + 1) : p \in Int /\ t[i].start <= p /\ p < t[i].end
      BY <1>3, CoveredPage
    <3>2. CASE i \in 1..L /\ t[i] = rs[i]
      BY <1>t, <3>1, <3>2, CoveredPage
    <3>3. CASE t[i] = mg
      <4>1. CASE s <= p /\ p < e
        BY <3>1, <4>1
      <4>2. CASE \E j \in (a + 1)..b : rs[j].start <= p /\ p < rs[j].end
        <5>1. PICK j \in (a + 1)..b : rs[j].start <= p /\ p < rs[j].end
          BY <4>2
        <5>2. j \in 1..L
          BY <1>b, <1>t
        <5> QED  BY <1>t, <3>1, <5>1, <5>2, CoveredPage
      <4> QED  BY <1>4, <3>1, <3>3, <4>1, <4>2
    <3>4. CASE \E j \in (b + 1)..L : j \in 1..L /\ t[i] = rs[j]
      BY <1>t, <3>1, <3>4, CoveredPage
    <3> QED  BY <1>5, <3>2, <3>3, <3>4
  <2>2. ASSUME NEW p \in s..(e - 1) PROVE p \in PagesIn(t)
    <3>1. p \in Int /\ mg.start <= p /\ p < mg.end /\ a + 1 \in 1..(k + 1)
      BY <1>2, <1>3, <1>4, <1>b, <1>t, SMTT(30)
    <3> QED  BY <1>3, <3>1, CoveredPage
  <2>3. ASSUME NEW p \in PagesIn(rs) PROVE p \in PagesIn(t)
    <3>1. PICK i \in 1..L : p \in Int /\ rs[i].start <= p /\ p < rs[i].end
      BY <1>t, CoveredPage
    <3>2. CASE i <= a
      <4>1. i \in 1..a /\ i \in 1..(k + 1)
        BY <1>2, <1>b, <1>t, <3>2
      <4> QED  BY <1>3, <3>1, <4>1, CoveredPage
    <3>3. CASE a < i /\ i <= b
      <4>1. i \in (a + 1)..b /\ a + 1 \in 1..(k + 1)
        BY <1>2, <1>3, <1>b, <1>t, <3>3
      <4>2. mg.start <= p /\ p < mg.end
        BY <1>4, <1>t, <3>1, <4>1
      <4> QED  BY <1>3, <3>1, <4>1, <4>2, CoveredPage
    <3>4. CASE b < i
      <4>1. PICK j \in (a + 2)..(k + 1) : (j - 1) + (b - a) = i /\ j \in 1..(k + 1)
        <5>1. PICK j \in Int : j = (i + 1) - (b - a)
          OBVIOUS
        <5>2. j \in (a + 2)..(k + 1) /\ (j - 1) + (b - a) = i /\ j \in 1..(k + 1)
          BY <1>2, <1>b, <1>t, <3>4, <5>1
        <5> QED  BY <5>2
      <4> QED  BY <1>3, <3>1, <4>1, CoveredPage
    <3> QED  BY <1>b, <3>2, <3>3, <3>4
  <2> QED  BY <2>1, <2>2, <2>3
<1> QED  BY <1>2, <1>3, <1>6, <1>7

-----------------------------------------------------------------------------
(* reserve_range: what is left of one region.                              *)
Around(r, s, e) == r.start < s /\ e < r.end
LEMMA RemainsIs ==
  ASSUME NEW r \in Regions, r.start < r.end, NEW s \in Nat, NEW e \in Nat, s < e
  PROVE  LET w == Remains(r, s, e)
         IN  /\ Canonical(w)
             /\ \A i \in 1..Len(w) : r.start <= w[i].start /\ w[i].end <= r.end
             /\ PagesIn(w) = (r.start..(r.end - 1)) \ (s..(e - 1))
             /\ Len(w) \in Nat /\ (Len(w) <= 1 \/ (Len(w) = 2 /\ Around(r, s, e)))
<1> DEFINE w == Remains(r, s, e)
           x == Region(r.start, s)
           y == Region(e, r.end)
<1>n. r.start \in Nat /\ r.end \in Nat
  BY DEF Regions
<1>x. x \in Regions /\ x.start = r.start /\ x.end = s /\ y \in Regions /\ y.start = e /\ y.end = r.end
  BY <1>n DEF Region, Regions
<1>c. \A p : p \in (r.start..(r.end - 1)) \ (s..(e - 1)) <=>
               p \in Int /\ r.start <= p /\ p < r.end /\ (p < s \/ e <= p)
  BY <1>n
<1>1. CASE r.end <= s \/ r.start >= e
  <2>1. w = <<r>>
    BY <1>1 DEF Remains
  <2>2. w \in Seq(Regions) /\ Len(w) = 1 /\ w[1] = r /\ \A i \in 1..1 : i = 1
    BY <2>1
  <2> HIDE DEF w
  <2>3. Canonical(w)
    BY <2>2 DEF Canonical, InOrder
  <2>4. \A p : p \in PagesIn(w) <=> p \in Int /\ r.start <= p /\ p < r.end
    BY <2>2, CoveredPage
  <2>5. PagesIn(w) = (r.start..(r.end - 1)) \ (s..(e - 1))
    BY <1>1, <1>c, <1>n, <2>4
  <2> QED  BY <1>n, <2>2, <2>3, <2>5 DEF w
<1>2. CASE ~(r.end <= s \/ r.start >= e)
  <2>1. w = (IF r.start < s THEN <<x>> ELSE <<>>) \o (IF e < r.end THEN <<y>> ELSE <<>>)
    BY <1>2 DEF Remains
  <2> HIDE DEF w, x, y
  <2>2. CASE r.start < s /\ e < r.end
    <3>1. w = <<x>> \o <<y>>
      BY <2>1, <2>2
    <3>2. w \in Seq(Regions) /\ Len(w) = 2 /\ w[1] = x /\ w[2] = y /\ \A i \in 1..2 : i = 1 \/ i = 2
      BY <1>x, <3>1
    <3>3. Canonical(w)
      BY <1>x, <2>2, <3>2 DEF Canonical, InOrder
    <3>4. \A p : p \in PagesIn(w) <=> p \in Int /\ ((r.start <= p /\ p < s) \/ (e <= p /\ p < r.end))
      BY <1>x, <3>2, CoveredPage
    <3>5. PagesIn(w) = (r.start..(r.end - 1)) \ (s..(e - 1))
      BY <1>c, <1>n, <2>2, <3>4
    <3> QED  BY <1>n, <1>x, <2>2, <3>2, <3>3, <3>5 DEF w, Around
  <2>3. CASE r.start < s /\ ~(e < r.end)
    <3>1. w = <<x>>
      BY <2>1, <2>3
    <3>2. w \in Seq(Regions) /\ Len(w) = 1 /\ w[1] = x /\ \A i \in 1..1 : i = 1
      BY <1>x, <3>1
    <3>3. Canonical(w)
      BY <1>x, <2>3, <3>2 DEF Canonical, InOrder
    <3>4. \A p : p \in PagesIn(w) <=> p \in Int /\ r.start <= p /\ p < s
      BY <1>x, <3>2, CoveredPage
    <3>5. PagesIn(w) = (r.start..(r.end - 1)) \ (s..(e - 1))
      BY <1>2, <1>c, <1>n, <2>3, <3>4
    <3> QED  BY <1>2, <1>n, <1>x, <3>2, <3>3, <3>5 DEF w
  <2>4. CASE ~(r.start < s) /\ e < r.end
    <3>1. w = <<y>>
      BY <2>1, <2>4
    <3>2. w \in Seq(Regions) /\ Len(w) = 1 /\ w[1] = y /\ \A i \in 1..1 : i = 1
      BY <1>x, <3>1
    <3>3. Canonical(w)
      BY <1>x, <2>4, <3>2 DEF Canonical, InOrder
    <3>4. \A p : p \in PagesIn(w) <=> p \in Int /\ e <= p /\ p < r.end
      BY <1>x, <3>2, CoveredPage
    <3>5. PagesIn(w) = (r.start..(r.end - 1)) \ (s..(e - 1))
      BY <1>2, <1>c, <1>n, <2>4, <3>4
    <3> QED  BY <1>2, <1>n, <1>x, <3>2, <3>3, <3>5 DEF w
  <2>5. CASE ~(r.start < s) /\ ~(e < r.end)
    <3>1. w = <<>>
      BY <2>1, <2>5
    <3>2. w \in Seq(Regions) /\ Len(w) = 0 /\ \A i \in 1..0 : FALSE
      BY <3>1
    <3>3. Canonical(w)
      BY <3>2 DEF Canonical, InOrder
    <3>4. \A p : p \notin PagesIn(w)
      BY <3>2, CoveredPage
    <3>5. PagesIn(w) = (r.start..(r.end - 1)) \ (s..(e - 1))
      BY <1>c, <1>n, <2>5, <3>4
    <3> QED  BY <3>2, <3>3, <3>5 DEF w
  <2> QED  BY <2>2, <2>3, <2>4, <2>5
<1> QED  BY <1>1, <1>2

LEMMA JoinedTables ==
  ASSUME NEW q, NEW w, Canonical(q), Canonical(w),
         \A i \in 1..Len(q) : \A j \in 1..Len(w) : q[i].end < w[j].start
  PROVE  /\ Canonical(q \o w) /\ PagesIn(q \o w) = PagesIn(q) \cup PagesIn(w)
         /\ Len(q \o w) = Len(q) + Len(w)
         /\ \A i \in 1..Len(q \o w) : (\E j \in 1..Len(q) : (q \o w)[i] = q[j])
                                     \/ (\E j \in 1..Len(w) : (q \o w)[i] = w[j])
<1>1. q \in Seq(Regions) /\ w \in Seq(Regions) /\ Len(q) \in Nat /\ Len(w) \in Nat
  BY RegionTypes DEF Canonical
<1>2. PICK t : t = q \o w
  OBVIOUS
<1>3. /\ t \in Seq(Regions) /\ Len(t) = Len(q) + Len(w)
      /\ \A i \in 1..Len(q) : t[i] = q[i]
      /\ \A i \in 1..Len(w) : t[i + Len(q)] = w[i]
  BY <1>1, <1>2
<1>4. \A i \in 1..Len(t) :
        \/ i \in 1..Len(q) /\ t[i] = q[i]
        \/ i - Len(q) \in 1..Len(w) /\ t[i] = w[i - Len(q)]
  <2>1. ASSUME NEW i \in 1..Len(t), ~(i \in 1..Len(q))
        PROVE  i - Len(q) \in 1..Len(w) /\ t[i] = w[i - Len(q)]
    <3>1. i - Len(q) \in 1..Len(w) /\ (i - Len(q)) + Len(q) = i
      BY <1>1, <1>3, <2>1
    <3> QED  BY <1>3, <3>1
  <2> QED  BY <1>3, <2>1
<1>5. Canonical(t)
  <2>1. \A i \in 1..Len(t) : t[i].start < t[i].end
    BY <1>4 DEF Canonical
  <2>2. ASSUME NEW i \in 1..Len(t), NEW j \in 1..Len(t), i < j PROVE t[i].end < t[j].start
    <3>1. CASE i \in 1..Len(q) /\ t[i] = q[i] /\ j \in 1..Len(q) /\ t[j] = q[j]
      BY <2>2, <3>1 DEF Canonical, InOrder
    <3>2. CASE i \in 1..Len(q) /\ t[i] = q[i] /\ j - Len(q) \in 1..Len(w) /\ t[j] = w[j - Len(q)]
      BY <3>2
    <3>3. CASE i - Len(q) \in 1..Len(w) /\ t[i] = w[i - Len(q)] /\ j - Len(q) \in 1..Len(w) /\ t[j] = w[j - Len(q)]
      <4>1. i - Len(q) < j - Len(q)
        BY <1>1, <2>2
      <4> QED  BY <3>3, <4>1 DEF Canonical, InOrder
    <3>4. ~(i - Len(q) \in 1..Len(w) /\ j \in 1..Len(q))
      BY <1>1, <2>2
    <3> QED  BY <1>4, <3>1, <3>2, <3>3, <3>4
  <2> QED  BY <1>3, <2>1, <2>2 DEF Canonical, InOrder
<1>6. PagesIn(t) = PagesIn(q) \cup PagesIn(w)
  <2>1. ASSUME NEW p \in PagesIn(t) PROVE p \in PagesIn(q) \cup PagesIn(w)
    <3>1. PICK i \in 1..Len(t) : p \in Int /\ t[i].start <= p /\ p < t[i].end
      BY <1>3, CoveredPage
    <3> QED  BY <1>1, <1>4, <3>1, CoveredPage
  <2>2. ASSUME NEW p \in PagesIn(q) PROVE p \in PagesIn(t)
    <3>1. PICK i \in 1..Len(q) : p \in Int /\ q[i].start <= p /\ p < q[i].end
      BY <1>1, CoveredPage
    <3>2. i \in 1..Len(t) /\ t[i] = q[i]
      BY <1>1, <1>3
    <3> QED  BY <1>3, <3>1, <3>2, CoveredPage
  <2>3. ASSUME NEW p \in PagesIn(w) PROVE p \in PagesIn(t)
    <3>1. PICK i \in 1..Len(w) : p \in Int /\ w[i].start <= p /\ p < w[i].end
      BY <1>1, CoveredPage
    <3>2. i + Len(q) \in 1..Len(t) /\ t[i + Len(q)] = w[i]
      BY <1>1, <1>3
    <3> QED  BY <1>3, <3>1, <3>2, CoveredPage
  <2> QED  BY <2>1, <2>2, <2>3
<1> QED  BY <1>2, <1>3, <1>4, <1>5, <1>6

(* Joining the parts one by one.                                           *)
LEMMA FlattenIs ==
  ASSUME NEW parts, Len(parts) \in Nat \ {0}
  PROVE  \E f : /\ FlattenSeq(parts) = f[Len(parts)]
                /\ f[1] = parts[1]
                /\ \A i \in 2..Len(parts) : f[i] = f[i - 1] \o parts[i]
<1> DEFINE L == Len(parts)
           Joins(f, n) == f = [i \in 1..n |-> IF i = 1 THEN parts[i] ELSE f[i - 1] \o parts[i]]
           bad == {n \in 1..L : ~\E f : Joins(f, n)}
<1>1. \E f : Joins(f, 1)
  <2>1. PICK f : f = [i \in 1..1 |-> parts[i]]
    OBVIOUS
  <2>2. \A i \in 1..1 : i = 1
    OBVIOUS
  <2>3. f = [i \in 1..1 |-> IF i = 1 THEN parts[i] ELSE f[i - 1] \o parts[i]]
    BY <2>1, <2>2
  <2> QED  BY <2>3
<1>2. ASSUME NEW n \in 2..L, NEW g, Joins(g, n - 1) PROVE \E f : Joins(f, n)
  <2>1. PICK f : f = [i \in 1..n |-> IF i = n THEN g[n - 1] \o parts[n] ELSE g[i]]
    OBVIOUS
  <2>2. \A i \in 1..(n - 1) : g[i] = IF i = 1 THEN parts[i] ELSE g[i - 1] \o parts[i]
    BY <1>2
  <2>3. ASSUME NEW i \in 1..n PROVE f[i] = IF i = 1 THEN parts[i] ELSE f[i - 1] \o parts[i]
    <3>1. CASE i = n
      <4>1. n - 1 \in 1..n /\ n - 1 # n /\ n # 1
        OBVIOUS
      <4>2. f[n - 1] = g[n - 1]
        BY <2>1, <4>1
      <4>3. f[i] = g[n - 1] \o parts[n]
        BY <2>1, <3>1
      <4> QED  BY <3>1, <4>1, <4>2, <4>3
    <3>2. CASE i # n /\ i # 1
      <4>1. i \in 1..(n - 1) /\ i - 1 \in 1..n /\ i - 1 # n
        BY <3>2
      <4>2. f[i] = g[i] /\ f[i - 1] = g[i - 1]
        BY <2>1, <3>2, <4>1
      <4> QED  BY <2>2, <3>2, <4>1, <4>2
    <3>3. CASE i # n /\ i = 1
      <4>1. i \in 1..(n - 1) /\ f[i] = g[i]
        BY <2>1, <3>3
      <4> QED  BY <2>2, <3>3, <4>1
    <3> QED  BY <3>1, <3>2, <3>3
  <2>4. f = [i \in 1..n |-> IF i = 1 THEN parts[i] ELSE f[i - 1] \o parts[i]]
    BY <2>1, <2>3
  <2> QED  BY <2>4
<1> HIDE DEF Joins
<1>3. bad = {}
  <2> SUFFICES ASSUME bad # {} PROVE FALSE
    OBVIOUS
  <2>1. bad \in SUBSET Nat
    OBVIOUS
  <2>2. PICK n \in bad : \A k \in bad : n <= k
    BY <2>1, LeastNatural
  <2>3. n # 1
    BY <1>1
  <2>4. n \in 2..L /\ n - 1 \in 1..L /\ ~(n <= n - 1)
    BY <2>3
  <2>5. \E g : Joins(g, n - 1)
    BY <2>2, <2>4
  <2> QED  BY <1>2, <2>4, <2>5
<1>4. \E f : Joins(f, L)
  BY <1>3
<1>5. PICK f : f = CHOOSE g : Joins(g, L)
  OBVIOUS
<1>6. Joins(f, L)
  BY <1>4, <1>5
<1>7. FlattenSeq(parts) = f[L]
  BY <1>5 DEF FlattenSeq, Joins
<1>8. \A i \in 1..L : f[i] = IF i = 1 THEN parts[i] ELSE f[i - 1] \o parts[i]
  BY <1>6 DEF Joins
<1>9. f[1] = parts[1] /\ \A i \in 2..L : f[i] = f[i - 1] \o parts[i]
  <2>1. 1 \in 1..L /\ \A i \in 2..L : i \in 1..L /\ i # 1
    OBVIOUS
  <2> QED  BY <1>8, <2>1
<1> QED  BY <1>7, <1>9

(* reserve_range keeps the form of the table and takes out exactly the     *)
(* range; the table grows only when one region lies around the range.      *)
LEMMA ReserveKeeps ==
  ASSUME NEW rs, Canonical(rs), NEW s \in Nat, NEW e \in Nat, s < e,
         NEW t, t = FlattenSeq([i \in DOMAIN rs |-> Remains(rs[i], s, e)])
  PROVE  /\ Canonical(t) /\ PagesIn(t) = PagesIn(rs) \ (s..(e - 1))
         /\ Len(t) \in Nat
         /\ Len(t) <= Len(rs) \/ (Len(t) <= Len(rs) + 1 /\ \E i \in DOMAIN rs : Around(rs[i], s, e))
<1> DEFINE L == Len(rs)
           parts == [i \in DOMAIN rs |-> Remains(rs[i], s, e)]
<1>t. /\ L \in Nat /\ rs \in Seq(Regions) /\ DOMAIN rs = 1..L
      /\ \A i \in 1..L : /\ rs[i] \in Regions /\ rs[i].start \in Nat /\ rs[i].end \in Nat
                         /\ rs[i].start < rs[i].end
      /\ \A i, j \in 1..L : i < j => rs[i].end < rs[j].start
  <2>1. rs \in Seq(Regions)
    BY DEF Canonical
  <2> QED  BY <2>1, RegionTypes
<1>p. parts = [i \in 1..L |-> Remains(rs[i], s, e)] /\ Len(parts) = L
  <2>1. parts = [i \in 1..L |-> Remains(rs[i], s, e)]
    BY <1>t
  <2> QED  BY <1>t, <2>1
<1>1. CASE L = 0
  <2>1. rs = <<>> /\ parts = <<>>
    BY <1>1, <1>p, <1>t
  <2>2. t = parts
    BY <1>1, <1>p DEF FlattenSeq
  <2>3. t = rs
    BY <2>1, <2>2
  <2>4. \A p : p \notin PagesIn(rs)
    <3>1. \A i \in 1..L : FALSE
      BY <1>1
    <3> QED  BY <1>t, <3>1, CoveredPage
  <2>5. PagesIn(t) = PagesIn(rs) \ (s..(e - 1))
    BY <2>3, <2>4
  <2> QED  BY <1>1, <2>3, <2>5
<1>2. CASE L # 0
  <2>1. PICK f : /\ FlattenSeq(parts) = f[L] /\ f[1] = parts[1]
                 /\ \A i \in 2..L : f[i] = f[i - 1] \o parts[i]
    <3>1. Len(parts) \in Nat \ {0}
      BY <1>2, <1>p, <1>t
    <3> HIDE DEF parts
    <3>2. \E f : /\ FlattenSeq(parts) = f[Len(parts)] /\ f[1] = parts[1]
                 /\ \A i \in 2..Len(parts) : f[i] = f[i - 1] \o parts[i]
      BY <3>1, FlattenIs
    <3> QED  BY <1>p, <3>2, ZenonT(60)
  <2> DEFINE Thus(n) ==
        /\ Canonical(f[n])
        /\ \A j \in 1..Len(f[n]) : f[n][j].end <= rs[n].end
        /\ \A p : p \in PagesIn(f[n]) <=>
                    p \in Int /\ p \notin s..(e - 1) /\ \E i \in 1..n : rs[i].start <= p /\ p < rs[i].end
        /\ Len(f[n]) <= n \/ (Len(f[n]) <= n + 1 /\ \E i \in 1..n : Around(rs[i], s, e))
  <2>w. ASSUME NEW n \in 1..L
        PROVE  /\ Canonical(parts[n])
               /\ \A i \in 1..Len(parts[n]) : rs[n].start <= parts[n][i].start /\ parts[n][i].end <= rs[n].end
               /\ \A p : p \in PagesIn(parts[n]) <=>
                           p \in Int /\ p \notin s..(e - 1) /\ rs[n].start <= p /\ p < rs[n].end
               /\ Len(parts[n]) \in Nat /\ (Len(parts[n]) <= 1 \/ (Len(parts[n]) = 2 /\ Around(rs[n], s, e)))
    <3>1. PICK r, w : r = rs[n] /\ w = Remains(r, s, e)
      OBVIOUS
    <3>2. r \in Regions /\ r.start < r.end /\ r.start \in Nat /\ r.end \in Nat /\ parts[n] = w
      BY <1>p, <1>t, <3>1
    <3>3. LET ww == Remains(r, s, e)
          IN  /\ Canonical(ww)
              /\ \A i \in 1..Len(ww) : r.start <= ww[i].start /\ ww[i].end <= r.end
              /\ PagesIn(ww) = (r.start..(r.end - 1)) \ (s..(e - 1))
              /\ Len(ww) \in Nat /\ (Len(ww) <= 1 \/ (Len(ww) = 2 /\ Around(r, s, e)))
      BY <3>2, RemainsIs
    <3>4. \A p : p \in PagesIn(w) <=> p \in Int /\ p \notin s..(e - 1) /\ r.start <= p /\ p < r.end
      BY <3>1, <3>2, <3>3
    <3> QED  BY <3>1, <3>2, <3>3, <3>4
  <2> HIDE DEF parts
  <2>3. Thus(1)
    <3>1. 1 \in 1..L /\ \A i \in 1..1 : i = 1
      BY <1>2, <1>t
    <3>2. \A p : (\E i \in 1..1 : rs[i].start <= p /\ p < rs[i].end) <=> rs[1].start <= p /\ p < rs[1].end
      BY <3>1
    <3>3. /\ Canonical(parts[1])
          /\ \A i \in 1..Len(parts[1]) : parts[1][i].end <= rs[1].end
          /\ \A p : p \in PagesIn(parts[1]) <=>
                      p \in Int /\ p \notin s..(e - 1) /\ rs[1].start <= p /\ p < rs[1].end
          /\ Len(parts[1]) \in Nat /\ (Len(parts[1]) <= 1 \/ (Len(parts[1]) = 2 /\ Around(rs[1], s, e)))
      BY <2>w, <3>1
    <3> QED  BY <2>1, <3>1, <3>2, <3>3, SMTT(30)
  <2>4. ASSUME NEW n \in 2..L, Thus(n - 1) PROVE Thus(n)
    <3>1. n \in 1..L /\ n - 1 \in 1..L /\ n - 1 < n
      BY <1>t
    <3>2. PICK q, w, g, k : q = f[n - 1] /\ w = parts[n] /\ g = f[n] /\ k = n - 1
      OBVIOUS
    <3>3. g = q \o w
      BY <2>1, <3>2
    <3>4. /\ Canonical(w)
          /\ \A i \in 1..Len(w) : rs[n].start <= w[i].start /\ w[i].end <= rs[n].end
          /\ \A p : p \in PagesIn(w) <=>
                      p \in Int /\ p \notin s..(e - 1) /\ rs[n].start <= p /\ p < rs[n].end
          /\ Len(w) \in Nat /\ (Len(w) <= 1 \/ (Len(w) = 2 /\ Around(rs[n], s, e)))
      BY <2>w, <3>1, <3>2
    <3>5. /\ Canonical(q)
          /\ \A j \in 1..Len(q) : q[j].end <= rs[k].end
          /\ \A p : p \in PagesIn(q) <=>
                      p \in Int /\ p \notin s..(e - 1) /\ \E i \in 1..k : rs[i].start <= p /\ p < rs[i].end
          /\ Len(q) <= k \/ (Len(q) <= k + 1 /\ \E i \in 1..k : Around(rs[i], s, e))
      BY <2>4, <3>2
    <3> HIDE DEF Thus
    <3>6. /\ rs[k].end < rs[n].start /\ rs[k].end \in Nat /\ rs[n].start \in Nat /\ rs[n].end \in Nat
          /\ rs[n].start < rs[n].end
      BY <1>t, <3>1, <3>2
    <3>7. /\ Len(q) \in Nat
          /\ \A i \in 1..Len(q) : q[i].end \in Nat
          /\ \A i \in 1..Len(w) : w[i].start \in Nat /\ w[i].end \in Nat
      BY <3>4, <3>5, RegionTypes
    <3>8. \A i \in 1..Len(q) : \A j \in 1..Len(w) : q[i].end < w[j].start
      BY <3>4, <3>5, <3>6, <3>7, SMTT(30)
    <3>9. /\ Canonical(g) /\ PagesIn(g) = PagesIn(q) \cup PagesIn(w)
          /\ Len(g) = Len(q) + Len(w)
          /\ \A i \in 1..Len(g) : (\E j \in 1..Len(q) : g[i] = q[j]) \/ (\E j \in 1..Len(w) : g[i] = w[j])
      BY <3>3, <3>4, <3>5, <3>8, JoinedTables
    <3>10. ASSUME NEW j \in 1..Len(g) PROVE g[j].end <= rs[n].end
      <4>1. CASE \E i \in 1..Len(q) : g[j] = q[i]
        <5>1. PICK i \in 1..Len(q) : g[j] = q[i]
          BY <4>1
        <5>2. q[i].end <= rs[k].end /\ q[i].end \in Nat
          BY <3>5, <3>7
        <5>3. q[i].end <= rs[n].end
          <6>1. PICK low, high, left, right \in Nat :
                  low = q[i].end /\ high = rs[n].end /\ left = rs[k].end /\ right = rs[n].start
            BY <3>6, <5>2
          <6>2. low <= left /\ left < right /\ right < high
            BY <3>6, <5>2, <6>1
          <6>3. low <= high
            BY <6>2
          <6> QED  BY <6>1, <6>3
        <5> QED  BY <5>1, <5>3
      <4>2. CASE \E i \in 1..Len(w) : g[j] = w[i]
        BY <3>4, <4>2
      <4> QED  BY <3>9, <4>1, <4>2
    <3>11. ASSUME NEW p
           PROVE  p \in PagesIn(g) <=>
                    p \in Int /\ p \notin s..(e - 1) /\ \E i \in 1..n : rs[i].start <= p /\ p < rs[i].end
      <4>1. \A i \in 1..n : i \in 1..k \/ i = n
        BY <3>1, <3>2
      <4>2. \A i \in 1..k : i \in 1..n
        BY <3>1, <3>2
      <4>3. n \in 1..n
        BY <3>1
      <4> QED  BY <3>4, <3>5, <3>9, <4>1, <4>2, <4>3
    <3>12. Len(g) <= n \/ (Len(g) <= n + 1 /\ \E i \in 1..n : Around(rs[i], s, e))
      <4>1. \A i \in 1..k : i \in 1..n /\ i \in 1..L /\ i < n
        BY <1>t, <3>1, <3>2
      <4>2. CASE Len(w) <= 1
        <5>1. PICK x, y \in Nat : x = Len(q) /\ y = Len(w)
          BY <3>4, <3>7
        <5>2. Len(g) = x + y /\ y <= 1 /\ k \in Nat /\ n = k + 1
          BY <3>1, <3>2, <3>9, <4>2, <5>1
        <5>3. x <= k => x + y <= n
          BY <5>1, <5>2
        <5>4. x <= k + 1 => x + y <= n + 1
          BY <5>1, <5>2
        <5> QED  BY <3>5, <4>1, <5>1, <5>2, <5>3, <5>4
      <4>3. CASE Len(w) = 2 /\ Around(rs[n], s, e)
        <5>1. ASSUME NEW i \in 1..k PROVE ~Around(rs[i], s, e)
          <6>1. rs[i].end < rs[n].start /\ rs[i].end \in Nat
            BY <1>t, <3>1, <4>1
          <6>2. rs[n].start < s
            BY <4>3 DEF Around
          <6> QED  BY <3>6, <6>1, <6>2 DEF Around
        <5>2. Len(q) <= k
          BY <3>5, <5>1
        <5>3. Len(g) <= n + 1 /\ n \in 1..n
          BY <3>1, <3>2, <3>7, <3>9, <4>3, <5>2
        <5> QED  BY <4>3, <5>3
      <4> QED  BY <3>4, <4>2, <4>3
    <3> QED  BY <3>2, <3>9, <3>10, <3>11, <3>12 DEF Thus
  <2> HIDE DEF Thus
  <2>5. \A n \in 1..L : Thus(n)
    <3> DEFINE bad == {n \in 1..L : ~Thus(n)}
    <3> SUFFICES ASSUME bad # {} PROVE FALSE
      OBVIOUS
    <3>1. bad \in SUBSET Nat
      OBVIOUS
    <3>2. PICK n \in bad : \A k \in bad : n <= k
      BY <3>1, LeastNatural
    <3>3. n # 1
      BY <2>3
    <3>4. n \in 2..L /\ n - 1 \in 1..L /\ ~(n <= n - 1)
      BY <1>t, <3>3
    <3>5. Thus(n - 1)
      BY <3>2, <3>4
    <3> QED  BY <2>4, <3>4, <3>5
  <2>6. L \in 1..L
    BY <1>2, <1>t
  <2>7. Thus(L) /\ t = f[L]
    BY <2>1, <2>5, <2>6 DEF parts
  <2>8. Canonical(t) /\ Len(t) \in Nat
    BY <2>7, RegionTypes DEF Thus
  <2>9. \A p : p \in PagesIn(t) <=> p \in PagesIn(rs) /\ p \notin s..(e - 1)
    <3>1. \A p : p \in PagesIn(t) <=> p \in Int /\ p \notin s..(e - 1) /\ \E i \in 1..L : rs[i].start <= p /\ p < rs[i].end
      BY <2>7 DEF Thus
    <3>2. \A p : p \in PagesIn(rs) <=> p \in Int /\ \E i \in 1..L : rs[i].start <= p /\ p < rs[i].end
      BY <1>t, CoveredPage
    <3> QED  BY <3>1, <3>2
  <2>10. Len(t) <= L \/ (Len(t) <= L + 1 /\ \E i \in DOMAIN rs : Around(rs[i], s, e))
    BY <1>t, <2>7 DEF Thus
  <2> QED  BY <2>8, <2>9, <2>10
<1> QED  BY <1>1, <1>2

(* The window is never rounded down.                                       *)
LEMMA RoundedUp == ASSUME NEW n \in Nat, NEW u \in Nat \ {0} PROVE RoundUp(n, u) \in Nat /\ n <= RoundUp(n, u)
<1> DEFINE x == n + u - 1
           d == x \div u
<1>1. x \in Nat /\ x = u * (x \div u) + (x % u) /\ x % u \in 0..(u - 1) /\ x \div u \in Nat
  OBVIOUS
<1>2. PICK y \in Nat, z \in 0..(u - 1) : y = d /\ n + u - 1 = u * y + z
  BY <1>1
<1>3. PICK w : w = u * y
  OBVIOUS
<1>4. w \in Nat /\ y * u = w
  BY <1>3
<1>5. n <= w
  BY <1>2, <1>3, <1>4
<1> QED  BY <1>2, <1>4, <1>5 DEF RoundUp

-----------------------------------------------------------------------------
(* One entry less.                                                         *)
LEMMA Removed ==
  ASSUME NEW q \in Seq(Regions), NEW k \in 1..Len(q), NEW t, t = RemoveAt(q, k)
  PROVE  /\ t \in Seq(Regions) /\ Len(t) = Len(q) - 1
         /\ \A i \in 1..(k - 1) : t[i] = q[i]
         /\ \A i \in k..(Len(q) - 1) : t[i] = q[i + 1]
<1> DEFINE u == SubSeq(q, 1, k - 1)
           v == SubSeq(q, k + 1, Len(q))
<1>1. u \in Seq(Regions) /\ Len(u) = k - 1 /\ \A i \in 1..(k - 1) : u[i] = q[i]
  OBVIOUS
<1>2. v \in Seq(Regions) /\ Len(v) = Len(q) - k /\ \A i \in 1..(Len(q) - k) : v[i] = q[k + i]
  OBVIOUS
<1>3. t = u \o v
  BY DEF RemoveAt
<1> HIDE DEF u, v
<1>k. PICK n \in Nat : n = Len(q) /\ k \in 1..n
  OBVIOUS
<1>m. k - 1 \in Nat /\ Len(q) - k \in Nat
  BY <1>k
<1>a. PICK a \in Nat : a = k - 1
  BY <1>m
<1>b. PICK b \in Nat : b = Len(q) - k
  BY <1>m
<1>l. a = k - 1 /\ b = Len(q) - k /\ a + b = Len(q) - 1 /\ a + 1 = k
  BY <1>k, <1>a, <1>b
<1>j. /\ t \in Seq(Regions) /\ Len(t) = Len(u) + Len(v)
      /\ \A i \in 1..Len(u) : t[i] = u[i]
      /\ \A i \in (Len(u) + 1)..(Len(u) + Len(v)) : t[i] = v[i - Len(u)]
  <2>1. u \in Seq(Regions) /\ v \in Seq(Regions)
    BY <1>1, <1>2
  <2> QED  BY <1>3, <2>1
<1>4. /\ t \in Seq(Regions) /\ Len(t) = Len(q) - 1
      /\ \A i \in 1..(k - 1) : t[i] = u[i]
      /\ \A i \in k..(Len(q) - 1) : t[i] = v[i - (k - 1)]
  <2>1. Len(u) = a /\ Len(v) = b
    BY <1>1, <1>2, <1>l
  <2> QED  BY <1>j, <1>l, <2>1
<1>5. \A i \in k..(Len(q) - 1) : i - (k - 1) \in 1..(Len(q) - k) /\ k + (i - (k - 1)) = i + 1
  OBVIOUS
<1> QED  BY <1>1, <1>2, <1>4, <1>5

(* An allocation takes its pages from the start of one region.             *)
LEMMA CutKeeps ==
  ASSUME NEW rs, Canonical(rs), NEW k \in 1..Len(rs), NEW n \in Nat \ {0},
         rs[k].start + n <= rs[k].end, NEW t, t = Cut(rs, k, n)
  PROVE  /\ Canonical(t) /\ Len(t) \in Nat /\ Len(t) <= Len(rs)
         /\ PagesIn(t) = PagesIn(rs) \ (rs[k].start..(rs[k].start + n - 1))
<1> DEFINE L == Len(rs)
<1>t. /\ L \in Nat /\ rs \in Seq(Regions)
      /\ \A i \in 1..L : /\ rs[i] \in Regions /\ rs[i].start \in Nat /\ rs[i].end \in Nat
                         /\ rs[i].start < rs[i].end
      /\ \A i, j \in 1..L : i < j => rs[i].end < rs[j].start
  BY RegionTypes DEF Canonical
<1>1. PICK x, y \in Nat : x = rs[k].start /\ y = rs[k].end /\ x + n <= y
  BY <1>t
<1>2. PICK r : r = Region(x + n, y)
  OBVIOUS
<1>3. r \in Regions /\ r.start = x + n /\ r.end = y
  BY <1>1, <1>2 DEF Region, Regions
<1>4. t = IF x + n >= y THEN RemoveAt(rs, k) ELSE [rs EXCEPT ![k] = r]
  BY <1>1, <1>2, <1>3 DEF Cut
<1>5. \A p : p \in PagesIn(rs) <=> p \in Int /\ \E i \in 1..L : rs[i].start <= p /\ p < rs[i].end
  BY <1>t, CoveredPage
<1>6. ASSUME NEW p \in Int, NEW i \in 1..L, i # k, rs[i].start <= p, p < rs[i].end PROVE p \notin x..(x + n - 1)
  <2>1. i < k \/ k < i
    BY <1>6, <1>t
  <2>2. i < k => rs[i].end < x
    BY <1>1, <1>t
  <2>3. k < i => y < rs[i].start
    BY <1>1, <1>t
  <2>4. rs[i].start \in Nat /\ rs[i].end \in Nat
    BY <1>t
  <2> QED  BY <1>1, <1>6, <2>1, <2>2, <2>3, <2>4, SMTT(30)
<1>7. CASE x + n >= y
  <2>1. t = RemoveAt(rs, k)
    BY <1>4, <1>7
  <2>2. /\ t \in Seq(Regions) /\ Len(t) = L - 1
        /\ \A i \in 1..(k - 1) : t[i] = rs[i]
        /\ \A i \in k..(L - 1) : t[i] = rs[i + 1]
    BY <1>t, <2>1, Removed
  <2>3. \A i \in 1..(L - 1) :
          \/ i < k /\ i \in 1..L /\ t[i] = rs[i]
          \/ k <= i /\ i + 1 \in 1..L /\ t[i] = rs[i + 1]
    <3> SUFFICES ASSUME NEW i \in 1..(L - 1)
                 PROVE  \/ i < k /\ i \in 1..L /\ t[i] = rs[i]
                        \/ k <= i /\ i + 1 \in 1..L /\ t[i] = rs[i + 1]
      OBVIOUS
    <3>1. CASE i < k
      <4>1. i \in 1..(k - 1) /\ i \in 1..L
        BY <1>t, <3>1
      <4> QED  BY <2>2, <3>1, <4>1
    <3>2. CASE k <= i
      <4>1. i \in k..(L - 1) /\ i + 1 \in 1..L
        BY <1>t, <3>2
      <4> QED  BY <2>2, <3>2, <4>1
    <3> QED  BY <1>t, <3>1, <3>2
  <2>4. \A i \in 1..(L - 1) : t[i].start < t[i].end
    BY <1>t, <2>3
  <2>5. ASSUME NEW i \in 1..(L - 1), NEW j \in 1..(L - 1), i < j PROVE t[i].end < t[j].start
    <3>1. PICK a \in 1..L : t[i] = rs[a] /\ ((i < k /\ a = i) \/ (k <= i /\ a = i + 1))
      BY <2>3
    <3>2. PICK b \in 1..L : t[j] = rs[b] /\ ((j < k /\ b = j) \/ (k <= j /\ b = j + 1))
      BY <2>3
    <3>3. a < b
      BY <2>5, <3>1, <3>2
    <3> QED  BY <1>t, <3>1, <3>2, <3>3
  <2>6. Canonical(t)
    BY <2>2, <2>4, <2>5 DEF Canonical, InOrder
  <2>7. ASSUME NEW p
        PROVE  p \in PagesIn(t) <=> p \in PagesIn(rs) /\ p \notin x..(x + n - 1)
    <3>1. p \in PagesIn(t) <=> p \in Int /\ \E i \in 1..(L - 1) : t[i].start <= p /\ p < t[i].end
      BY <2>2, CoveredPage
    <3>2. ASSUME p \in Int, NEW i \in 1..(L - 1), t[i].start <= p, p < t[i].end
          PROVE  p \in PagesIn(rs) /\ p \notin x..(x + n - 1)
      <4>1. PICK a \in 1..L : t[i] = rs[a] /\ a # k
        BY <2>3
      <4> QED  BY <1>5, <1>6, <3>2, <4>1
    <3>3. ASSUME p \in Int, NEW a \in 1..L, rs[a].start <= p, p < rs[a].end, p \notin x..(x + n - 1)
          PROVE  \E i \in 1..(L - 1) : t[i].start <= p /\ p < t[i].end
      <4>1. a # k
        BY <1>1, <1>7, <3>3
      <4>2. CASE a < k
        <5>1. a \in 1..(L - 1) /\ a \in 1..(k - 1)
          BY <1>t, <4>2
        <5> QED  BY <2>2, <3>3, <5>1
      <4>3. CASE k < a
        <5>1. a - 1 \in 1..(L - 1) /\ a - 1 \in k..(L - 1) /\ (a - 1) + 1 = a
          BY <1>t, <4>3
        <5>2. t[a - 1] = rs[a]
          BY <2>2, <5>1
        <5> QED  BY <3>3, <5>1, <5>2
      <4> QED  BY <1>t, <4>1, <4>2, <4>3
    <3> QED  BY <1>5, <3>1, <3>2, <3>3
  <2>8. Len(t) \in Nat /\ Len(t) <= Len(rs)
    BY <1>t, <2>2
  <2> QED  BY <1>1, <2>6, <2>7, <2>8
<1>8. CASE ~(x + n >= y)
  <2>1. t = [rs EXCEPT ![k] = r]
    BY <1>4, <1>8
  <2>2. /\ t \in Seq(Regions) /\ Len(t) = L
        /\ t[k] = r /\ \A i \in 1..L : i # k => t[i] = rs[i]
    BY <1>3, <1>t, <2>1
  <2>3. \A i \in 1..L : t[i].start < t[i].end /\ t[i].end = rs[i].end /\ rs[i].start <= t[i].start
    <3>1. \A i \in 1..L : i = k => t[i].start < t[i].end /\ t[i].end = rs[i].end /\ rs[i].start <= t[i].start
      BY <1>1, <1>3, <1>8, <2>2
    <3> QED  BY <1>t, <2>2, <3>1
  <2>4. ASSUME NEW i \in 1..L, NEW j \in 1..L, i < j PROVE t[i].end < t[j].start
    <3>1. rs[i].end < rs[j].start /\ rs[i].end \in Nat /\ rs[j].start \in Nat
      BY <1>t, <2>4
    <3>2. t[j].start \in Nat
      BY <1>1, <1>3, <1>t, <2>2
    <3> QED  BY <2>3, <3>1, <3>2, SMTT(30)
  <2>5. Canonical(t)
    BY <2>2, <2>3, <2>4 DEF Canonical, InOrder
  <2>6. ASSUME NEW p
        PROVE  p \in PagesIn(t) <=> p \in PagesIn(rs) /\ p \notin x..(x + n - 1)
    <3>1. p \in PagesIn(t) <=> p \in Int /\ \E i \in 1..L : t[i].start <= p /\ p < t[i].end
      BY <2>2, CoveredPage
    <3>2. p \in Int => (t[k].start <= p /\ p < t[k].end <=> rs[k].start <= p /\ p < rs[k].end /\ p \notin x..(x + n - 1))
      BY <1>1, <1>3, <2>2, SMTT(30)
    <3>3. \A i \in 1..L : i # k /\ p \in Int =>
            (t[i].start <= p /\ p < t[i].end <=> rs[i].start <= p /\ p < rs[i].end /\ p \notin x..(x + n - 1))
      BY <1>6, <2>2
    <3> QED  BY <1>5, <3>1, <3>2, <3>3
  <2> QED  BY <1>1, <1>t, <2>2, <2>5, <2>6
<1> QED  BY <1>7, <1>8

(* The first region that is large enough.                                  *)
LEMMA FirstFitIs ==
  ASSUME regions \in Seq(Regions), NEW n
  PROVE  \/ FirstFit(n) = 0 /\ \A i \in 1..Len(regions) : ~Fits(regions[i], n)
         \/ /\ FirstFit(n) \in 1..Len(regions) /\ Fits(regions[FirstFit(n)], n) /\ FirstFit(n) # 0
            /\ \A i \in 1..Len(regions) : i < FirstFit(n) => ~Fits(regions[i], n)
<1> DEFINE T == {i \in 1..Len(regions) : Fits(regions[i], n)}
<1>1. FirstFit(n) = IF T # {} THEN Min(T) ELSE 0
  BY DEF FirstFit, SelectInSeq
<1>2. CASE T = {}
  BY <1>1, <1>2
<1>3. CASE T # {}
  <2>1. T \in SUBSET Nat
    OBVIOUS
  <2>2. PICK k \in T : \A j \in T : k <= j
    BY <1>3, <2>1, LeastNatural
  <2>3. Min(T) = k
    BY <2>1, <2>2, MinOf
  <2>4. FirstFit(n) = k
    BY <1>1, <1>3, <2>3
  <2>5. k \in 1..Len(regions) /\ Fits(regions[k], n) /\ k # 0
    OBVIOUS
  <2>6. \A i \in 1..Len(regions) : i < k => ~Fits(regions[i], n)
    BY <2>2, <2>5
  <2> QED  BY <2>4, <2>5, <2>6
<1> QED  BY <1>2, <1>3

-----------------------------------------------------------------------------
(* The inductive invariant.  Besides AllocatorSound it says that the table *)
(* is in order over any distance, that pages are numbers of the memory     *)
(* map, and that nothing is held before the map has been read.             *)
Blocks == [start : Nat, count : Nat \ {0}]
TableInv == Canonical(regions) /\ Len(regions) <= MaxFreeRanges
UseInv ==
  /\ held \subseteq Blocks /\ (mode = "boot" => held = {})
  /\ PagesIn(regions) \cap HeldPages = {}
  /\ \A a, b \in held : a # b => PagesOf(a) \cap PagesOf(b) = {}
WindowInv ==
  /\ windowEnd \in Nat
  /\ PagesIn(regions) \cup HeldPages \subseteq FirstPage..(windowEnd - 1)
  /\ PagesIn(regions) \cup HeldPages \subseteq FirstPage..MapEnd
AllocatorInv == TableInv /\ UseInv /\ WindowInv

LEMMA FreeIs == FreePages = PagesIn(regions) /\ FreePages' = PagesIn(regions')
BY DEF FreePages, PagesIn

LEMMA BlockPages ==
  ASSUME NEW block \in Blocks
  PROVE  /\ block.start \in Nat /\ block.count \in Nat \ {0} /\ block.start + block.count \in Nat
         /\ block.start < block.start + block.count
         /\ PagesOf(block) = block.start..((block.start + block.count) - 1)
BY DEF Blocks, PagesOf

(* A table with as many runs of free pages as entries.                     *)
LEMMA RunsCounted ==
  ASSUME NEW t, Canonical(t) PROVE Cardinality(RunStarts(PagesIn(t))) = Len(t)
<1> DEFINE L == Len(t)
           T == RunStarts(PagesIn(t))
           f == [i \in 1..L |-> t[i].start]
<1>t. /\ L \in Nat /\ t \in Seq(Regions)
      /\ \A i \in 1..L : t[i].start \in Nat /\ t[i].end \in Nat /\ t[i].start < t[i].end
      /\ \A i, j \in 1..L : i < j => t[i].end < t[j].start
  BY RegionTypes DEF Canonical
<1>c. \A p : p \in PagesIn(t) <=> p \in Int /\ \E i \in 1..L : t[i].start <= p /\ p < t[i].end
  BY <1>t, CoveredPage
<1>1. ASSUME NEW p \in T PROVE \E i \in 1..L : p = t[i].start
  <2>1. p \in PagesIn(t) /\ p - 1 \notin PagesIn(t)
    BY DEF RunStarts
  <2>2. PICK i \in 1..L : t[i].start <= p /\ p < t[i].end /\ p \in Int
    BY <1>c, <2>1
  <2>3. t[i].start \in Nat /\ t[i].end \in Nat /\ p - 1 \in Int
    BY <1>t, <2>2
  <2>4. ~(t[i].start <= p - 1 /\ p - 1 < t[i].end)
    BY <1>c, <2>1, <2>3
  <2> QED  BY <2>2, <2>3, <2>4
<1>2. ASSUME NEW i \in 1..L PROVE t[i].start \in T
  <2>1. t[i].start \in Nat /\ t[i].end \in Nat /\ t[i].start < t[i].end
    BY <1>t
  <2>2. t[i].start \in PagesIn(t)
    BY <1>c, <2>1
  <2>3. ASSUME NEW j \in 1..L, t[j].start <= t[i].start - 1, t[i].start - 1 < t[j].end PROVE FALSE
    <3>1. t[j].start \in Nat /\ t[j].end \in Nat
      BY <1>t
    <3>2. j < i => t[j].end < t[i].start
      BY <1>t
    <3>3. i < j => t[i].end < t[j].start
      BY <1>t
    <3>4. j < i \/ i < j \/ i = j
      BY <1>t
    <3> QED  BY <2>1, <2>3, <3>1, <3>2, <3>3, <3>4
  <2>4. t[i].start - 1 \notin PagesIn(t)
    BY <1>c, <2>3
  <2> QED  BY <2>2, <2>4 DEF RunStarts
<1>3. f \in Bijection(1..L, T)
  <2>1. f \in [1..L -> T]
    BY <1>2
  <2>2. \A x \in T : \E i \in 1..L : f[i] = x
    BY <1>1
  <2>3. ASSUME NEW i \in 1..L, NEW j \in 1..L, f[i] = f[j] PROVE i = j
    <3>1. t[i].start = t[j].start /\ t[i].start \in Nat /\ t[i].end \in Nat /\ t[j].end \in Nat
      BY <1>t, <2>3
    <3>2. ~(i < j) /\ ~(j < i)
      BY <1>t, <3>1
    <3> QED  BY <1>t, <3>2
  <2> QED  BY <2>1, <2>2, <2>3 DEF Bijection, Injection, Surjection, IsInjective
<1>4. IsFiniteSet(1..L) /\ Cardinality(1..L) = L
  BY <1>t, FS_Interval
<1> HIDE DEF f, T
<1>5. Cardinality(T) = Cardinality(1..L)
  BY <1>3, <1>4, FS_Bijection DEF ExistsBijection
<1> QED  BY <1>4, <1>5 DEF T

LEMMA WiderRange ==
  ASSUME NEW a \in Nat, NEW b \in Nat, NEW c \in Nat, NEW d \in Nat, c <= a, b <= d
  PROVE  a..(b - 1) \subseteq c..(d - 1) /\ a..(b - 1) \subseteq c..d
<1>1. \A p \in a..(b - 1) : p \in Int /\ a <= p /\ p < b
  OBVIOUS
<1> QED  BY <1>1

(* How insert_range changes the table, for a range of the window.          *)
LEMMA InsertStep ==
  ASSUME TableInv, NEW s \in Nat, NEW e \in Nat, s < e, InsertRange(s, e)
  PROVE  \/ /\ mode' = "panic" /\ regions' = regions
            /\ Cardinality(RunStarts(PagesIn(regions) \cup (s..(e - 1)))) > MaxFreeRanges
         \/ /\ mode' = mode /\ TableInv'
            /\ PagesIn(regions') = PagesIn(regions) \cup (s..(e - 1))
<1>1. Canonical(regions) /\ MaxFreeRanges \in Nat
  BY AllocatorAssumption DEF TableInv
<1>2. PICK t, n : t = Insert(regions, s, e) /\ n = Len(Absorb(regions, s, e).rest)
  OBVIOUS
<1>3. Canonical(t) /\ PagesIn(t) = PagesIn(regions) \cup (s..(e - 1)) /\ Len(t) = n + 1 /\ n \in Nat
  BY <1>1, <1>2, InsertKeeps
<1>4. CASE Overflows(regions, s, e)
  <2>1. mode' = "panic" /\ regions' = regions
    BY <1>4 DEF InsertRange
  <2>2. n >= MaxFreeRanges
    BY <1>2, <1>4 DEF Overflows
  <2>3. Cardinality(RunStarts(PagesIn(t))) = n + 1
    BY <1>3, RunsCounted
  <2>4. n + 1 > MaxFreeRanges
    BY <1>1, <1>3, <2>2
  <2> QED  BY <1>3, <2>1, <2>3, <2>4
<1>5. CASE ~Overflows(regions, s, e)
  <2>1. mode' = mode /\ regions' = t
    BY <1>2, <1>5 DEF InsertRange
  <2>2. ~(n >= MaxFreeRanges)
    BY <1>2, <1>5 DEF Overflows
  <2>3. Len(t) <= MaxFreeRanges
    BY <1>1, <1>3, <2>2
  <2> QED  BY <1>3, <2>1, <2>3 DEF TableInv
<1> QED  BY <1>4, <1>5

(* One entry of the memory map.                                            *)
LEMMA AddRegionStep ==
  ASSUME AllocatorInv, NEW s \in 0..MapEnd, NEW e \in 0..MapEnd, AddRegion(s, e)
  PROVE  /\ AllocatorInv' /\ mode # "run" /\ UNCHANGED <<held, answer>>
         /\ \E S \in SUBSET (FirstPage..MapEnd) : FreePages' = FreePages \cup S
<1> DEFINE start == IF s < FirstPage THEN FirstPage ELSE s
<1>a. MapEnd \in Nat /\ FirstPage \in Nat /\ FirstPage <= FirstPage
  BY AllocatorAssumption
<1>1. /\ mode = "boot" /\ held' = held /\ answer' = answer
      /\ IF e <= start THEN UNCHANGED <<regions, windowEnd, mode>>
         ELSE InsertRange(start, e) /\ windowEnd' = IF e > windowEnd THEN e ELSE windowEnd
  BY DEF AddRegion
<1>2. start \in Nat /\ FirstPage <= start /\ e \in Nat /\ e <= MapEnd
  BY <1>a
<1>3. held = {} /\ HeldPages = {} /\ HeldPages' = {}
  BY <1>1 DEF AllocatorInv, UseInv, HeldPages
<1> HIDE DEF start
<1>4. ASSUME regions' = regions, windowEnd' \in Nat, windowEnd <= windowEnd'
      PROVE  AllocatorInv' /\ \E S \in SUBSET (FirstPage..MapEnd) : FreePages' = FreePages \cup S
  <2>1. TableInv' /\ UseInv'
    BY <1>1, <1>3, <1>4 DEF AllocatorInv, TableInv, UseInv
  <2>2. FirstPage..(windowEnd - 1) \subseteq FirstPage..(windowEnd' - 1)
    BY <1>4, <1>a, WiderRange DEF AllocatorInv, WindowInv
  <2>3. WindowInv'
    BY <1>3, <1>4, <2>2 DEF AllocatorInv, WindowInv
  <2>4. FreePages' = FreePages \cup {} /\ {} \in SUBSET (FirstPage..MapEnd)
    BY <1>4, FreeIs
  <2> QED  BY <2>1, <2>3, <2>4 DEF AllocatorInv
<1>w. windowEnd \in Nat
  BY DEF AllocatorInv, WindowInv
<1>5. CASE e <= start
  BY <1>1, <1>4, <1>5, <1>w
<1>6. CASE ~(e <= start)
  <2>1. InsertRange(start, e) /\ windowEnd' = IF e > windowEnd THEN e ELSE windowEnd
    BY <1>1, <1>6
  <2>2. windowEnd' \in Nat /\ windowEnd <= windowEnd' /\ e <= windowEnd' /\ start < e
    BY <1>2, <1>6, <1>w, <2>1
  <2>3. CASE regions' = regions
    BY <1>1, <1>4, <2>2, <2>3
  <2>4. CASE TableInv' /\ PagesIn(regions') = PagesIn(regions) \cup (start..(e - 1))
    <3>1. start..(e - 1) \subseteq FirstPage..(windowEnd' - 1) /\ start..(e - 1) \subseteq FirstPage..MapEnd
      BY <1>2, <1>a, <2>2, WiderRange
    <3>2. FirstPage..(windowEnd - 1) \subseteq FirstPage..(windowEnd' - 1)
      BY <1>a, <1>w, <2>2, WiderRange
    <3>3. WindowInv'
      BY <1>3, <2>2, <2>4, <3>1, <3>2 DEF AllocatorInv, WindowInv
    <3>4. UseInv'
      BY <1>1, <1>3 DEF UseInv
    <3>5. FreePages' = FreePages \cup (start..(e - 1))
      BY <2>4, FreeIs
    <3> QED  BY <1>1, <2>4, <3>1, <3>3, <3>4, <3>5 DEF AllocatorInv
  <2>5. TableInv
    BY DEF AllocatorInv
  <2> QED  BY <1>2, <2>1, <2>2, <2>3, <2>4, <2>5, InsertStep
<1> QED  BY <1>5, <1>6

(* The kernel's image is taken out and the window is rounded up.           *)
LEMMA FinishBootStep ==
  ASSUME AllocatorInv, NEW s \in 0..MapEnd, NEW e \in 0..MapEnd, FinishBoot(s, e)
  PROVE  /\ AllocatorInv' /\ mode # "run" /\ UNCHANGED <<held, answer>>
         /\ \E S \in SUBSET (FirstPage..MapEnd) : FreePages' = FreePages \ S
<1>a. MapEnd \in Nat /\ FirstPage \in Nat /\ FirstPage <= FirstPage /\ HugePage \in Nat \ {0} /\ MaxFreeRanges \in Nat
  BY AllocatorAssumption
<1>1. /\ mode = "boot" /\ held' = held /\ answer' = answer
      /\ IF windowEnd <= FirstPage THEN mode' = "panic" /\ UNCHANGED <<regions, windowEnd>>
         ELSE ReserveRange(s, e) /\ windowEnd' = RoundUp(windowEnd, HugePage)
  BY DEF FinishBoot
<1>2. held = {} /\ HeldPages = {} /\ HeldPages' = {}
  BY <1>1 DEF AllocatorInv, UseInv, HeldPages
<1>w. windowEnd \in Nat /\ s \in Nat /\ e \in Nat
  BY DEF AllocatorInv, WindowInv
<1>3. windowEnd' \in Nat /\ windowEnd <= windowEnd'
  BY <1>1, <1>a, <1>w, RoundedUp
<1>4. FirstPage..(windowEnd - 1) \subseteq FirstPage..(windowEnd' - 1)
  BY <1>3, <1>a, <1>w, WiderRange
<1>5. ASSUME TableInv', NEW T, PagesIn(regions') = PagesIn(regions) \ T
      PROVE  AllocatorInv' /\ \E S \in SUBSET (FirstPage..MapEnd) : FreePages' = FreePages \ S
  <2>1. UseInv'
    BY <1>1, <1>2 DEF UseInv
  <2>2. WindowInv'
    BY <1>2, <1>3, <1>4, <1>5 DEF AllocatorInv, WindowInv
  <2>3. PagesIn(regions) \subseteq FirstPage..MapEnd
    BY DEF AllocatorInv, WindowInv
  <2>4. FreePages' = FreePages \ (T \cap (FirstPage..MapEnd))
    BY <1>5, <2>3, FreeIs
  <2> QED  BY <1>5, <2>1, <2>2, <2>4 DEF AllocatorInv
<1>6. CASE regions' = regions
  <2>1. TableInv' /\ PagesIn(regions') = PagesIn(regions) \ {}
    BY <1>6 DEF AllocatorInv, TableInv
  <2> QED  BY <1>1, <1>5, <2>1
<1>7. CASE regions' # regions
  <2>1. /\ s < e
        /\ ~(Len(regions) >= MaxFreeRanges
             /\ \E i \in DOMAIN regions : regions[i].start < s /\ e < regions[i].end)
        /\ regions' = FlattenSeq([i \in DOMAIN regions |-> Remains(regions[i], s, e)])
    BY <1>1, <1>7, <1>w DEF ReserveRange
  <2>2. PICK t : t = FlattenSeq([i \in DOMAIN regions |-> Remains(regions[i], s, e)])
    OBVIOUS
  <2>3. Canonical(regions) /\ Len(regions) <= MaxFreeRanges /\ Len(regions) \in Nat
    BY RegionTypes DEF AllocatorInv, TableInv
  <2>4. /\ Canonical(t) /\ PagesIn(t) = PagesIn(regions) \ (s..(e - 1))
        /\ Len(t) \in Nat
        /\ \/ Len(t) <= Len(regions)
           \/ Len(t) <= Len(regions) + 1 /\ \E i \in DOMAIN regions : Around(regions[i], s, e)
    <3>1. Canonical(regions) /\ s \in Nat /\ e \in Nat /\ s < e
      BY <1>w, <2>1, <2>3
    <3> QED  BY <2>2, <3>1, ReserveKeeps
  <2>5. Len(t) <= MaxFreeRanges
    BY <1>a, <2>1, <2>3, <2>4 DEF Around
  <2>6. TableInv' /\ PagesIn(regions') = PagesIn(regions) \ (s..(e - 1))
    BY <2>1, <2>2, <2>4, <2>5 DEF TableInv
  <2> QED  BY <1>1, <1>5, <2>6
<1> QED  BY <1>6, <1>7

(* A run of free pages lies within one region, because two regions never   *)
(* touch: so first fit finds it, and finds the lowest one.                 *)
LEMMA RunInRegion ==
  ASSUME AllocatorInv, NEW n \in Nat \ {0}, NEW p, p \in Pool!Runs(n)
  PROVE  \E i \in 1..Len(regions) : regions[i].start <= p /\ Fits(regions[i], n)
<1>a. MapEnd \in Nat /\ FirstPage \in Nat \ {0}
  BY AllocatorAssumption
<1>t. /\ Len(regions) \in Nat /\ regions \in Seq(Regions)
      /\ \A i \in 1..Len(regions) : /\ regions[i].start \in Nat /\ regions[i].end \in Nat
                                    /\ regions[i].start < regions[i].end
      /\ \A i, j \in 1..Len(regions) : i < j => regions[i].end < regions[j].start
  BY RegionTypes DEF AllocatorInv, TableInv, Canonical
<1>1. p \in FirstPage..MapEnd /\ p..(p + n - 1) \subseteq FreePages
  BY DEF Pool!Runs
<1>2. p \in Int /\ p \in p..(p + n - 1)
  BY <1>1, <1>a
<1>c. \A x : x \in FreePages <=> x \in Int /\ \E i \in 1..Len(regions) : regions[i].start <= x /\ x < regions[i].end
  BY <1>t, CoveredPage, FreeIs
<1>3. PICK i \in 1..Len(regions) : regions[i].start <= p /\ p < regions[i].end
  BY <1>1, <1>2, <1>c
<1>4. regions[i].start \in Nat /\ regions[i].end \in Nat /\ regions[i].start < regions[i].end
  BY <1>t
<1>5. p + n <= regions[i].end
  <2> SUFFICES ASSUME ~(p + n <= regions[i].end) PROVE FALSE
    OBVIOUS
  <2>1. regions[i].end \in p..(p + n - 1)
    BY <1>2, <1>3, <1>4
  <2>2. PICK j \in 1..Len(regions) : regions[j].start <= regions[i].end /\ regions[i].end < regions[j].end
    BY <1>1, <1>c, <2>1
  <2>3. regions[j].start \in Nat /\ regions[j].end \in Nat
    BY <1>t
  <2>4. i < j => regions[i].end < regions[j].start
    BY <1>t
  <2>5. j < i => regions[j].end < regions[i].start
    BY <1>t
  <2>6. i < j \/ j < i \/ i = j
    BY <1>t
  <2> QED  BY <1>4, <2>2, <2>3, <2>4, <2>5, <2>6
<1>6. regions[i].start # 0
  <2>1. regions[i].start \in FreePages
    BY <1>4, <1>c
  <2>2. FreePages \subseteq FirstPage..MapEnd
    BY FreeIs DEF AllocatorInv, WindowInv
  <2> QED  BY <1>a, <2>1, <2>2
<1>7. regions[i].start + n <= regions[i].end
  BY <1>2, <1>3, <1>4, <1>5
<1> QED  BY <1>3, <1>6, <1>7 DEF Fits

LEMMA RegionIsRun ==
  ASSUME AllocatorInv, NEW n \in Nat \ {0}, NEW k \in 1..Len(regions), Fits(regions[k], n)
  PROVE  regions[k].start \in Pool!Runs(n)
<1>a. MapEnd \in Nat /\ FirstPage \in Nat
  BY AllocatorAssumption
<1>t. regions \in Seq(Regions) /\ regions[k].start \in Nat /\ regions[k].end \in Nat
  BY RegionTypes DEF AllocatorInv, TableInv, Canonical
<1>1. PICK x, y \in Nat : x = regions[k].start /\ y = regions[k].end /\ x + n <= y
  BY <1>t DEF Fits
<1>2. \A p \in x..(x + n - 1) : p \in Int /\ x <= p /\ p < y
  BY <1>1
<1>3. x..(x + n - 1) \subseteq FreePages
  BY <1>1, <1>2, <1>t, CoveredPage, FreeIs
<1>4. x \in x..(x + n - 1)
  BY <1>1
<1>5. FreePages \subseteq FirstPage..MapEnd
  BY FreeIs DEF AllocatorInv, WindowInv
<1>6. x \in FirstPage..MapEnd
  BY <1>3, <1>4, <1>5
<1> QED  BY <1>1, <1>3, <1>6 DEF Pool!Runs

LEMMA PoolMin == ASSUME NEW T PROVE Pool!Min(T) = Min(T)
BY DEF Pool!Min, Min

(* An allocation is a grant of the lowest run, or a refusal.               *)
LEMMA AllocateStep ==
  ASSUME AllocatorInv, NEW n \in Requests, Allocate(n)
  PROVE  AllocatorInv' /\ mode' = mode /\ (Pool!Grant(n) \/ Pool!Refuse(n))
<1>a. MapEnd \in Nat /\ FirstPage \in Nat /\ n \in Nat \ {0} /\ MaxFreeRanges \in Nat
  BY AllocatorAssumption
<1>1. PICK k : k = FirstFit(n)
  OBVIOUS
<1>t. /\ Len(regions) \in Nat /\ regions \in Seq(Regions) /\ Canonical(regions)
      /\ \A i \in 1..Len(regions) : /\ regions[i].start \in Nat /\ regions[i].end \in Nat
                                    /\ regions[i].start < regions[i].end
      /\ \A i, j \in 1..Len(regions) : i < j => regions[i].end < regions[j].start
  BY RegionTypes DEF AllocatorInv, TableInv, Canonical
<1>2. /\ mode = "run" /\ windowEnd' = windowEnd /\ mode' = mode
      /\ k = 0 => answer' = Exhausted /\ regions' = regions /\ held' = held
      /\ k # 0 => /\ answer' = [start |-> regions[k].start, count |-> n]
                  /\ regions' = Cut(regions, k, n)
                  /\ held' = held \cup {[start |-> regions[k].start, count |-> n]}
  BY <1>1 DEF Allocate
<1>3. \/ k = 0 /\ \A i \in 1..Len(regions) : ~Fits(regions[i], n)
      \/ /\ k \in 1..Len(regions) /\ Fits(regions[k], n) /\ k # 0
         /\ \A i \in 1..Len(regions) : i < k => ~Fits(regions[i], n)
  BY <1>1, <1>t, FirstFitIs
<1>4. CASE k = 0
  <2>1. regions' = regions /\ held' = held /\ windowEnd' = windowEnd /\ answer' = Exhausted
    BY <1>2, <1>4
  <2>2. AllocatorInv'
    BY <1>2, <2>1 DEF AllocatorInv, TableInv, UseInv, WindowInv, HeldPages
  <2>3. Pool!Runs(n) = {}
    <3>1. \A i \in 1..Len(regions) : ~Fits(regions[i], n)
      BY <1>3, <1>4
    <3> QED  BY <1>a, <3>1, RunInRegion
  <2>4. FreePages' = FreePages
    BY <2>1, FreeIs
  <2> QED  BY <1>2, <2>1, <2>2, <2>3, <2>4 DEF Pool!Refuse, Exhausted, Pool!Exhausted
<1>5. CASE k # 0
  <2>1. /\ k \in 1..Len(regions) /\ Fits(regions[k], n)
        /\ \A i \in 1..Len(regions) : i < k => ~Fits(regions[i], n)
    BY <1>3, <1>5
  <2>2. PICK x \in Nat : x = regions[k].start /\ x + n <= regions[k].end
    BY <1>t, <2>1 DEF Fits
  <2>3. PICK block : block = [start |-> x, count |-> n]
    OBVIOUS
  <2>4. /\ block \in Blocks /\ PagesOf(block) = x..(x + n - 1)
        /\ answer' = block /\ held' = held \cup {block} /\ regions' = Cut(regions, k, n)
    BY <1>2, <1>5, <1>a, <2>2, <2>3 DEF Blocks, PagesOf
  <2>5. PICK t : t = Cut(regions, k, n)
    OBVIOUS
  <2>6. /\ Canonical(t) /\ Len(t) \in Nat /\ Len(t) <= Len(regions)
        /\ PagesIn(t) = PagesIn(regions) \ (x..(x + n - 1))
    BY <1>a, <1>t, <2>1, <2>2, <2>5, CutKeeps
  <2>7. x \in Pool!Runs(n)
    BY <1>a, <2>1, <2>2, RegionIsRun
  <2>8. x..(x + n - 1) \subseteq PagesIn(regions)
    BY <2>7, FreeIs DEF Pool!Runs
  <2>9. TableInv'
    <3>1. Len(t) <= MaxFreeRanges
      BY <1>a, <1>t, <2>6 DEF AllocatorInv, TableInv
    <3> QED  BY <2>4, <2>5, <2>6, <3>1 DEF TableInv
  <2>10. HeldPages' = HeldPages \cup PagesOf(block)
    BY <2>4 DEF HeldPages
  <2>11. PagesIn(regions') = PagesIn(regions) \ PagesOf(block) /\ PagesOf(block) \subseteq PagesIn(regions)
    BY <2>4, <2>5, <2>6, <2>8
  <2>12. \A b \in held : PagesOf(b) \cap PagesOf(block) = {}
    <3>1. \A b \in held : PagesOf(b) \subseteq HeldPages
      BY DEF HeldPages
    <3>2. PagesIn(regions) \cap HeldPages = {}
      BY DEF AllocatorInv, UseInv
    <3> QED  BY <2>11, <3>1, <3>2
  <2>13. UseInv'
    <3>1. PagesIn(regions') \cap HeldPages' = {}
      BY <2>10, <2>11 DEF AllocatorInv, UseInv
    <3>2. \A a, b \in held' : a # b => PagesOf(a) \cap PagesOf(b) = {}
      BY <2>4, <2>12 DEF AllocatorInv, UseInv
    <3>3. held' \subseteq Blocks /\ mode' # "boot"
      BY <1>2, <2>4 DEF AllocatorInv, UseInv
    <3> QED  BY <3>1, <3>2, <3>3 DEF UseInv
  <2>14. WindowInv'
    BY <1>2, <2>10, <2>11 DEF AllocatorInv, WindowInv
  <2>15. Pool!Min(Pool!Runs(n)) = x
    <3>1. Pool!Runs(n) \in SUBSET Nat
      BY <1>a DEF Pool!Runs
    <3>2. ASSUME NEW p \in Pool!Runs(n) PROVE x <= p
      <4>1. PICK i \in 1..Len(regions) : regions[i].start <= p /\ Fits(regions[i], n)
        BY <1>a, RunInRegion
      <4>2. ~(i < k)
        BY <2>1, <4>1
      <4>3. i = k \/ k < i
        BY <1>t, <2>1, <4>2
      <4>4. k < i => regions[k].end < regions[i].start
        BY <1>t, <2>1
      <4>5. p \in Nat /\ regions[i].start \in Nat /\ regions[k].end \in Nat /\ regions[k].start < regions[k].end
        BY <1>t, <2>1, <3>1
      <4> QED  BY <2>2, <4>1, <4>3, <4>4, <4>5
    <3>3. Min(Pool!Runs(n)) = x
      BY <2>7, <3>1, <3>2, MinOf
    <3> QED  BY <3>3, PoolMin
  <2>16. Pool!Grant(n)
    <3>1. Pool!PagesOf(block) = PagesOf(block)
      BY DEF PagesOf, Pool!PagesOf
    <3>2. FreePages' = FreePages \ Pool!PagesOf(block)
      BY <2>11, <3>1, FreeIs
    <3> QED  BY <2>3, <2>4, <2>7, <2>15, <3>2 DEF Pool!Grant
  <2> QED  BY <1>2, <2>9, <2>13, <2>14, <2>16 DEF AllocatorInv
<1> QED  BY <1>4, <1>5

(* A block goes back whole, or the table is really too small.              *)
LEMMA FreeStep ==
  ASSUME AllocatorInv, NEW block \in held, Free(block)
  PROVE  /\ AllocatorInv'
         /\ \/ /\ mode' = mode /\ Pool!Return(block)
            \/ /\ UNCHANGED <<regions, held, answer>>
               /\ Cardinality(RunStarts(FreePages \cup PagesOf(block))) > MaxFreeRanges
<1>1. /\ mode = "run" /\ InsertRange(block.start, block.start + block.count)
      /\ held' = (IF mode' = "panic" THEN held ELSE held \ {block})
      /\ windowEnd' = windowEnd /\ answer' = answer
  BY DEF Free
<1>2. block \in Blocks
  BY DEF AllocatorInv, UseInv
<1>3. PICK s, e \in Nat : /\ s = block.start /\ e = block.start + block.count /\ s < e
                          /\ PagesOf(block) = s..(e - 1)
  BY <1>2, BlockPages
<1>4. \/ /\ mode' = "panic" /\ regions' = regions
         /\ Cardinality(RunStarts(PagesIn(regions) \cup (s..(e - 1)))) > MaxFreeRanges
      \/ /\ mode' = mode /\ TableInv'
         /\ PagesIn(regions') = PagesIn(regions) \cup (s..(e - 1))
  BY <1>1, <1>3, InsertStep DEF AllocatorInv
<1>5. CASE mode' = "panic" /\ regions' = regions
           /\ Cardinality(RunStarts(PagesIn(regions) \cup (s..(e - 1)))) > MaxFreeRanges
  <2>1. held' = held
    BY <1>1, <1>5
  <2>2. AllocatorInv'
    BY <1>1, <1>5, <2>1 DEF AllocatorInv, TableInv, UseInv, WindowInv, HeldPages
  <2> QED  BY <1>1, <1>3, <1>5, <2>1, <2>2, FreeIs
<1>6. CASE /\ mode' = mode /\ TableInv'
           /\ PagesIn(regions') = PagesIn(regions) \cup (s..(e - 1))
  <2>1. held' = held \ {block} /\ mode' = "run"
    BY <1>1, <1>6
  <2>2. PagesOf(block) \subseteq HeldPages /\ HeldPages' \subseteq HeldPages
    BY <2>1 DEF HeldPages
  <2>3. HeldPages' \cap PagesOf(block) = {}
    BY <2>1 DEF HeldPages, AllocatorInv, UseInv
  <2>4. UseInv'
    BY <1>3, <1>6, <2>1, <2>2, <2>3 DEF AllocatorInv, UseInv
  <2>5. WindowInv'
    BY <1>1, <1>3, <1>6, <2>2 DEF AllocatorInv, WindowInv
  <2>6. Pool!PagesOf(block) = PagesOf(block)
    BY DEF PagesOf, Pool!PagesOf
  <2>7. Pool!Return(block)
    BY <1>1, <1>3, <1>6, <2>1, <2>6, FreeIs DEF Pool!Return
  <2> QED  BY <1>6, <2>4, <2>5, <2>7 DEF AllocatorInv
<1> QED  BY <1>4, <1>5, <1>6

-----------------------------------------------------------------------------
Fragmented ==
  \E block \in held : Cardinality(RunStarts(FreePages \cup PagesOf(block))) > MaxFreeRanges

(* Every step of the machine: it keeps the invariant, is a step of the     *)
(* pool of pages or leaves it alone, and panics while running only when    *)
(* the memory is too fragmented for the table.                             *)
LEMMA MachineStep ==
  ASSUME AllocatorInv, [Next]_vars
  PROVE  /\ AllocatorInv' /\ (Pool!Next \/ UNCHANGED Pool!pool)
         /\ (mode = "run" /\ mode' = "panic") => Fragmented
<1>1. CASE UNCHANGED allocatorVars
  <2>1. UNCHANGED <<regions, windowEnd, mode, held, answer>>
    BY <1>1 DEF allocatorVars
  <2>2. AllocatorInv'
    BY <2>1 DEF AllocatorInv, TableInv, UseInv, WindowInv, HeldPages
  <2>3. UNCHANGED Pool!pool
    BY <2>1, FreeIs DEF Pool!pool
  <2>4. ~(mode = "run" /\ mode' = "panic")
    BY <2>1
  <2> QED  BY <2>2, <2>3, <2>4
<1>2. ASSUME NEW s \in 0..MapEnd, NEW e \in 0..MapEnd, AddRegion(s, e)
      PROVE  AllocatorInv' /\ mode # "run" /\ Pool!Next
  <2>1. /\ AllocatorInv' /\ mode # "run" /\ UNCHANGED <<held, answer>>
        /\ \E S \in SUBSET (FirstPage..MapEnd) : FreePages' = FreePages \cup S
    BY <1>2, AddRegionStep
  <2> QED  BY <2>1 DEF Pool!Next, Pool!Donate
<1>3. ASSUME NEW s \in 0..MapEnd, NEW e \in 0..MapEnd, FinishBoot(s, e)
      PROVE  AllocatorInv' /\ mode # "run" /\ Pool!Next
  <2>1. /\ AllocatorInv' /\ mode # "run" /\ UNCHANGED <<held, answer>>
        /\ \E S \in SUBSET (FirstPage..MapEnd) : FreePages' = FreePages \ S
    BY <1>3, FinishBootStep
  <2> QED  BY <2>1 DEF Pool!Next, Pool!Withhold
<1>4. ASSUME NEW n \in Requests, Allocate(n)
      PROVE  AllocatorInv' /\ mode' = mode /\ Pool!Next
  BY <1>4, AllocateStep DEF Pool!Next
<1>5. ASSUME NEW block \in held, Free(block)
      PROVE  AllocatorInv' /\ ((mode' = mode /\ Pool!Next) \/ (UNCHANGED Pool!pool /\ Fragmented))
  <2>1. /\ AllocatorInv'
        /\ \/ mode' = mode /\ Pool!Return(block)
           \/ /\ UNCHANGED <<regions, held, answer>>
              /\ Cardinality(RunStarts(FreePages \cup PagesOf(block))) > MaxFreeRanges
    BY <1>5, FreeStep
  <2>2. Pool!Return(block) => Pool!Next
    BY DEF Pool!Next
  <2>3. UNCHANGED <<regions, held, answer>> => UNCHANGED Pool!pool
    BY FreeIs DEF Pool!pool
  <2> QED  BY <2>1, <2>2, <2>3 DEF Fragmented
<1>6. CASE AllocatorNext
  <2>1. CASE Panicked
    BY <1>1, <2>1 DEF Panicked
  <2>2. CASE \E s, e \in 0..MapEnd : AddRegion(s, e) \/ FinishBoot(s, e)
    BY <1>2, <1>3, <2>2
  <2>3. CASE \E n \in Requests : Allocate(n)
    BY <1>4, <2>3
  <2>4. CASE \E block \in held : Free(block)
    BY <1>5, <2>4
  <2> QED  BY <1>6, <2>1, <2>2, <2>3, <2>4 DEF AllocatorNext
<1>7. AllocatorNext \/ UNCHANGED allocatorVars
  BY DEF Next, Boot, Allocator, Spaces, vars
<1> QED  BY <1>1, <1>6, <1>7

LEMMA MachineStarts == Init => AllocatorInv /\ Pool!Init
<1> SUFFICES ASSUME Init PROVE AllocatorInv /\ Pool!Init
  OBVIOUS
<1>a. MapEnd \in Nat /\ FirstPage \in Nat /\ MaxFreeRanges \in Nat
  BY AllocatorAssumption
<1>1. AllocatorInit
  BY DEF Init
<1>2. regions = <<>> /\ windowEnd = 0 /\ held = {} /\ answer = Exhausted
  BY <1>1 DEF AllocatorInit
<1>3. regions \in Seq(Regions) /\ Len(regions) = 0 /\ \A i \in 1..0 : FALSE
  BY <1>2
<1>4. TableInv
  BY <1>3, <1>a DEF TableInv, Canonical, InOrder
<1>5. PagesIn(regions) = {} /\ HeldPages = {}
  BY <1>2, <1>3, CoveredPage DEF HeldPages
<1>6. UseInv /\ WindowInv
  BY <1>2, <1>5 DEF UseInv, WindowInv
<1>7. Pool!Init
  BY <1>2, <1>5, FreeIs DEF Pool!Init, Exhausted, Pool!Exhausted
<1> QED  BY <1>4, <1>6, <1>7 DEF AllocatorInv

(* The table of free ranges is in canonical form and accounts for every    *)
(* page, through every order of map entries, requests and frees.           *)
THEOREM AllocatorInvariant == Spec => []AllocatorInv
<1>1. Init => AllocatorInv
  BY MachineStarts
<1>2. AllocatorInv /\ [Next]_vars => AllocatorInv'
  BY MachineStep
<1> QED  BY <1>1, <1>2, PTL DEF Spec

LEMMA InvariantSuffices == AllocatorInv => AllocatorSound
<1> SUFFICES ASSUME AllocatorInv PROVE AllocatorSound
  OBVIOUS
<1>t. /\ Len(regions) \in Nat /\ regions \in Seq(Regions) /\ DOMAIN regions = 1..Len(regions)
      /\ \A i \in 1..Len(regions) : regions[i].start < regions[i].end
      /\ \A i, j \in 1..Len(regions) : i < j => regions[i].end < regions[j].start
  BY RegionTypes DEF AllocatorInv, TableInv, Canonical
<1>1. \A i \in 1..(Len(regions) - 1) : i \in 1..Len(regions) /\ i + 1 \in 1..Len(regions) /\ i < i + 1
  BY <1>t
<1>2. RegionsCanonical
  BY <1>1, <1>t DEF RegionsCanonical, AllocatorInv, TableInv
<1>3. NoDoubleUse
  BY FreeIs DEF NoDoubleUse, AllocatorInv, UseInv, WindowInv
<1> QED  BY <1>2, <1>3 DEF AllocatorSound

(* allocate_page, allocate_contiguous_pages, free_contiguous_pages and the *)
(* set-up from the memory map keep the region table sorted, merged and     *)
(* within its capacity, and never hand out a page twice or outside the     *)
(* window.                                                                 *)
THEOREM AllocatorCorrect == Spec => []AllocatorSound
<1>1. AllocatorInv => AllocatorSound
  BY InvariantSuffices
<1> QED  BY <1>1, AllocatorInvariant, PTL

(* The region table implements a set of free pages: a request is answered  *)
(* with the lowest run of free pages that is long enough, and is refused   *)
(* only when there is none.                                                *)
THEOREM AllocatorImplementsPool == Spec => ImplementsPagePool
<1>1. Init => Pool!Init
  BY MachineStarts
<1>2. AllocatorInv /\ [Next]_vars => [Pool!pool' # Pool!pool /\ Pool!Next]_(Pool!pool)
  BY MachineStep
<1> QED  BY <1>1, <1>2, AllocatorInvariant, PTL DEF Spec, ImplementsPagePool, Pool!Spec

(* free_contiguous_pages gives up with "allocator free-range capacity      *)
(* exhausted" only when the free memory really has more runs than the      *)
(* table has entries, never because it failed to merge.                    *)
THEOREM PanicJustified == Spec => PanicOnlyWhenFragmented
<1>1. AllocatorInv /\ [Next]_vars =>
        [(mode = "run" /\ mode' = "panic") =>
           \E block \in held :
             Cardinality(RunStarts(FreePages \cup PagesOf(block))) > MaxFreeRanges]_allocatorVars
  BY MachineStep DEF Fragmented
<1> QED  BY <1>1, AllocatorInvariant, PTL DEF Spec, PanicOnlyWhenFragmented
=============================================================================
