----------------------------- MODULE BootProofs -----------------------------
(***************************************************************************)
(* Proofs about the boot, for every machine, every kernel file and every   *)
(* place the firmware puts an allocation: what the loader hands the kernel *)
(* as free memory, and the image it enters.                                *)
(***************************************************************************)
EXTENDS MemoryProofs

-----------------------------------------------------------------------------
(* The memory map.  Its descriptors are the runs of pages of one type, one *)
(* for each page at which a run begins.                                    *)
Starts == {p \in DOMAIN types : p - 1 \notin DOMAIN types \/ types[p - 1] # types[p]}
Rank(p) == Cardinality({q \in Starts : q <= p})
Run(p) == {q \in DOMAIN types : q >= p /\ \A r \in p..q : types[r] = types[p]}

LEMMA StartsFinite ==
  ASSUME NEW n \in Nat, DOMAIN types = 0..(n - 1)
  PROVE  /\ IsFiniteSet(Starts) /\ Starts \subseteq Nat /\ Cardinality(Starts) \in Nat
         /\ \A p : IsFiniteSet({q \in Starts : q <= p})
<1>1. Starts \subseteq 0..(n - 1) /\ \A p : {q \in Starts : q <= p} \subseteq 0..(n - 1)
  BY DEF Starts
<1>2. IsFiniteSet(0..(n - 1))
  BY FS_Interval
<1>3. IsFiniteSet(Starts) /\ \A p : IsFiniteSet({q \in Starts : q <= p})
  BY <1>1, <1>2, FS_Subset
<1>4. Starts \subseteq Nat
  <2>1. 0..(n - 1) \subseteq Nat
    OBVIOUS
  <2> QED  BY <1>1, <2>1
<1> QED  BY <1>3, <1>4, FS_CardinalityType

LEMMA RanksDiffer ==
  ASSUME NEW n \in Nat, DOMAIN types = 0..(n - 1), NEW p \in Starts, NEW q \in Starts, p < q
  PROVE  Rank(p) # Rank(q)
<1>1. PICK A, B : A = {r \in Starts : r <= p} /\ B = {r \in Starts : r <= q}
  OBVIOUS
<1>2. IsFiniteSet(B) /\ p \in Nat /\ q \in Nat /\ Starts \subseteq Nat
  BY <1>1, StartsFinite
<1>3. A \subseteq B /\ q \in B /\ q \notin A
  <2>1. \A r \in Nat : r <= p => r <= q
    BY <1>2
  <2>2. q <= q /\ ~(q <= p)
    BY <1>2
  <2> QED  BY <1>1, <1>2, <2>1, <2>2
<1>4. Cardinality(B) = Cardinality(A) => B = A
  BY <1>2, <1>3, FS_Subset
<1> QED  BY <1>1, <1>3, <1>4 DEF Rank

LEMMA RankRange ==
  ASSUME NEW n \in Nat, DOMAIN types = 0..(n - 1), NEW p \in Starts
  PROVE  Rank(p) \in 1..Cardinality(Starts)
<1>1. IsFiniteSet(Starts) /\ Starts \subseteq Nat /\ Cardinality(Starts) \in Nat
  BY StartsFinite
<1>2. PICK A : A = {r \in Starts : r <= p}
  OBVIOUS
<1>3. A \subseteq Starts /\ p \in A
  <2>1. p <= p
    BY <1>1
  <2> QED  BY <1>2, <2>1
<1>4. IsFiniteSet(A) /\ Cardinality(A) <= Cardinality(Starts)
  BY <1>1, <1>3, FS_Subset
<1>5. Cardinality(A) \in Nat /\ Cardinality(A) # 0
  BY <1>3, <1>4, FS_CardinalityType, FS_EmptySet
<1> QED  BY <1>1, <1>2, <1>4, <1>5 DEF Rank

LEMMA RanksCount ==
  ASSUME NEW n \in Nat, DOMAIN types = 0..(n - 1), NEW i \in 1..Cardinality(Starts)
  PROVE  \E p \in Starts : Rank(p) = i
<1> DEFINE C == Cardinality(Starts)
           f == [p \in Starts |-> Rank(p)]
<1>1. IsFiniteSet(Starts) /\ Starts \subseteq Nat /\ C \in Nat
  BY StartsFinite
<1>2. \A p \in Starts : Rank(p) \in 1..C
  BY RankRange
<1>3. \A p, q \in Starts : f[p] = f[q] => p = q
  <2> SUFFICES ASSUME NEW p \in Starts, NEW q \in Starts, p # q PROVE Rank(p) # Rank(q)
    OBVIOUS
  <2>1. p < q \/ q < p
    BY <1>1
  <2> QED  BY <2>1, RanksDiffer
<1>4. f \in Injection(Starts, 1..C)
  BY <1>2, <1>3 DEF Injection, IsInjective
<1>5. IsFiniteSet(1..C) /\ Cardinality(1..C) = C
  BY <1>1, FS_Interval
<1>6. f \in Surjection(Starts, 1..C)
  BY <1>4, <1>5, FS_Injection
<1> QED  BY <1>6 DEF Surjection

LEMMA DescriptorsAreRuns ==
  ASSUME NEW n \in Nat, DOMAIN types = 0..(n - 1)
  PROVE  Range(MapOfMemory) = {RunFrom(p) : p \in Starts}
<1> DEFINE C == Cardinality(Starts)
           at_(i) == CHOOSE p \in Starts : Rank(p) = i
<1>1. MapOfMemory = [i \in 1..C |-> RunFrom(at_(i))]
  BY DEF MapOfMemory, Starts, Rank
<1>2. Range(MapOfMemory) = {RunFrom(at_(i)) : i \in 1..C}
  BY <1>1 DEF Range
<1>3. \A i \in 1..C : at_(i) \in Starts /\ Rank(at_(i)) = i
  BY RanksCount
<1>4. \A p \in Starts : \E i \in 1..C : at_(i) = p
  <2> SUFFICES ASSUME NEW p \in Starts PROVE \E i \in 1..C : at_(i) = p
    OBVIOUS
  <2>1. PICK i : i = Rank(p)
    OBVIOUS
  <2>2. i \in 1..C
    BY <2>1, RankRange
  <2>3. at_(i) \in Starts /\ Rank(at_(i)) = Rank(p)
    BY <1>3, <2>1, <2>2
  <2>4. Starts \subseteq Nat
    BY StartsFinite
  <2>5. at_(i) < p \/ p < at_(i) \/ at_(i) = p
    BY <2>3, <2>4
  <2> QED  BY <2>2, <2>3, <2>5, RanksDiffer
<1> QED  BY <1>2, <1>3, <1>4

(* A descriptor covers its run.                                            *)
LEMMA RunPages ==
  ASSUME NEW n \in Nat, DOMAIN types = 0..(n - 1), NEW p \in DOMAIN types
  PROVE  RegionPages(RunFrom(p)) = Run(p)
<1> DEFINE T == {u \in p..n : u = n \/ types[u] # types[p]}
<1>1. p \in Nat /\ p < n /\ n \in T
  OBVIOUS
<1>2. T \in SUBSET Nat
  BY <1>1
<1>3. PICK u \in T : \A v \in T : u <= v
  BY <1>1, <1>2, LeastNatural
<1>4. u \in Nat /\ p <= u /\ u <= n /\ (u = n \/ types[u] # types[p])
  BY <1>1, <1>3
<1>5. u # p
  BY <1>1, <1>4
<1>6. \A v \in p..(u - 1) : types[v] = types[p]
  <2> SUFFICES ASSUME NEW v \in p..(u - 1), types[v] # types[p] PROVE FALSE
    OBVIOUS
  <2>1. v \in p..n /\ ~(u <= v)
    BY <1>1, <1>4
  <2>2. v \in T
    BY <2>1
  <2> QED  BY <1>3, <2>1, <2>2
<1> HIDE DEF T
<1>7. Run(p) = p..(u - 1)
  <2>1. ASSUME NEW q \in Run(p) PROVE q \in p..(u - 1)
    <3>1. q \in 0..(n - 1) /\ q >= p /\ \A r \in p..q : types[r] = types[p]
      BY DEF Run
    <3>2. ~(u <= q)
      <4> SUFFICES ASSUME u <= q PROVE FALSE
        OBVIOUS
      <4>1. u \in p..q /\ u # n
        BY <1>1, <1>4, <3>1
      <4> QED  BY <1>4, <3>1, <4>1
    <3> QED  BY <1>1, <1>4, <3>1, <3>2
  <2>2. ASSUME NEW q \in p..(u - 1) PROVE q \in Run(p)
    <3>1. q \in 0..(n - 1) /\ q >= p /\ \A r \in p..q : r \in p..(u - 1)
      BY <1>1, <1>4
    <3> QED  BY <1>6, <3>1 DEF Run
  <2> QED  BY <2>1, <2>2
<1>8. Cardinality(p..(u - 1)) = u - p
  <2>1. p \in Int /\ u - 1 \in Int /\ ~(p > u - 1) /\ (u - 1) - p + 1 = u - p
    BY <1>1, <1>4, <1>5
  <2> QED  BY <2>1, FS_Interval
<1>9. RunFrom(p).start = p /\ RunFrom(p).pages = Cardinality(Run(p))
  BY DEF RunFrom, Run
<1>10. RegionPages(RunFrom(p)) = p..(p + (u - p) - 1)
  BY <1>7, <1>8, <1>9 DEF RegionPages, PagesFrom
<1>11. p + (u - p) - 1 = u - 1
  BY <1>1, <1>4
<1> QED  BY <1>7, <1>10, <1>11

LEMMA UsableIsConventional == ASSUME NEW t PROVE Normalize(t) = "Usable" <=> t = "CONVENTIONAL"
  BY DEF Normalize

(* What the kernel is handed is what the firmware's map had as             *)
(* conventional when boot services were left, all of it and nothing else.  *)
LEMMA HandedIs ==
  ASSUME NEW n \in Nat, DOMAIN types = 0..(n - 1), info.regions = MapOfMemory
  PROVE  Handed = {p \in DOMAIN types : types[p] = "CONVENTIONAL"}
<1>1. Range(info.regions) = {RunFrom(p) : p \in Starts}
  BY DescriptorsAreRuns
<1>2. \A p \in Starts : p \in DOMAIN types
  BY DEF Starts
<1>3. \A p : RunFrom(p).kind = Normalize(types[p])
  BY DEF RunFrom
<1>4. \A q : q \in Handed <=> \E p \in Starts : types[p] = "CONVENTIONAL" /\ q \in Run(p)
  <2>1. \A q : q \in Handed <=> \E p \in Starts : RunFrom(p).kind = "Usable" /\ q \in RegionPages(RunFrom(p))
    BY <1>1 DEF Handed
  <2>2. \A p \in Starts : RegionPages(RunFrom(p)) = Run(p)
    BY <1>2, RunPages
  <2>3. \A p \in Starts : RunFrom(p).kind = "Usable" <=> types[p] = "CONVENTIONAL"
    BY <1>3, UsableIsConventional
  <2> QED  BY <2>1, <2>2, <2>3
<1>5. ASSUME NEW q \in Handed PROVE q \in DOMAIN types /\ types[q] = "CONVENTIONAL"
  <2>1. PICK p \in Starts : types[p] = "CONVENTIONAL" /\ q \in Run(p)
    BY <1>4
  <2>2. q \in DOMAIN types /\ q \in Nat /\ p \in Nat /\ q >= p /\ \A r \in p..q : types[r] = types[p]
    BY <1>2, <2>1 DEF Run
  <2>3. q \in p..q
    BY <2>2
  <2> QED  BY <2>1, <2>2, <2>3
<1>6. ASSUME NEW q \in DOMAIN types, types[q] = "CONVENTIONAL" PROVE q \in Handed
  <2> DEFINE T == {p \in 0..q : \A r \in p..q : types[r] = types[q]}
  <2>1. q \in Nat /\ q < n
    OBVIOUS
  <2>2. q \in T /\ T \in SUBSET Nat
    <3>1. \A r \in q..q : r = q
      BY <2>1
    <3> QED  BY <2>1, <3>1
  <2>3. PICK p \in T : \A v \in T : p <= v
    BY <2>2, LeastNatural
  <2>4. p \in 0..q /\ p \in DOMAIN types /\ p \in p..q /\ \A r \in p..q : types[r] = types[q]
    BY <2>1, <2>3
  <2>5. p \in Starts
    <3> SUFFICES ASSUME p - 1 \in DOMAIN types, types[p - 1] = types[p] PROVE FALSE
      BY <2>4 DEF Starts
    <3>1. p - 1 \in 0..q /\ ~(p <= p - 1)
      BY <2>1, <2>4
    <3>2. \A r \in (p - 1)..q : r = p - 1 \/ r \in p..q
      BY <2>1, <2>4
    <3>3. \A r \in (p - 1)..q : types[r] = types[q]
      BY <2>4, <3>2
    <3>4. p - 1 \in T
      BY <3>1, <3>3
    <3> QED  BY <2>3, <3>1, <3>4
  <2>6. q \in Run(p) /\ types[p] = "CONVENTIONAL"
    <3>1. q >= p /\ types[p] = types[q]
      BY <2>1, <2>4
    <3> QED  BY <1>6, <2>4, <3>1 DEF Run
  <2> QED  BY <1>4, <2>5, <2>6
<1> QED  BY <1>5, <1>6

-----------------------------------------------------------------------------
(* The boot.  The pages the loader has claimed so far, and that a segment  *)
(* lies in memory as the file has it.                                      *)
SegmentsLoaded == {i \in 1..loaded : Loadable(Headers[i])}
OwnPages == UNION {taken[n] : n \in Names}
LoadedPages == UNION {SegmentPages(Headers[i]) : i \in SegmentsLoaded}
Claimed == OwnPages \cup LoadedPages
InPlace(h) ==
  \A i \in 0..(h.mem - 1) :
    ram[LoadAddress(h) + i] = IF i < h.file THEN h.offset + i ELSE ZeroByte

(* A page has its first type unless it was claimed, and only conventional  *)
(* pages are claimed: so no two claims overlap.                            *)
ClaimsInv ==
  /\ DOMAIN types = DOMAIN fw.types
  /\ \A p \in DOMAIN types : types[p] = IF p \in Claimed THEN "LOADER_DATA" ELSE fw.types[p]
  /\ Claimed \subseteq {p \in DOMAIN fw.types : fw.types[p] = "CONVENTIONAL"}

(* Each of the loader's allocations is made once.                          *)
StageInv ==
  /\ at \in {"read", "framebuffer", "allocate", "segments", "exit", "kernel", "running", "failed"}
  /\ DOMAIN taken = Names /\ "regions" \in DOMAIN info
  /\ at = "read" => taken["file"] = {}
  /\ at \in {"read", "framebuffer", "allocate"} => taken["regions"] = {} /\ taken["info"] = {}
  /\ at \in {"read", "framebuffer", "allocate", "segments"} => taken["stack"] = {}
  /\ at \in {"exit", "kernel", "running"} => loaded = Len(Headers)
  /\ at \in {"kernel", "running"} => info.regions = MapOfMemory

BootInv ==
  \/ at = "off"
  \/ /\ fw \in Firmwares /\ loaded \in 0..Len(Headers)
     /\ DOMAIN ram = 0..(PageBytes * Cardinality(DOMAIN fw.types) - 1)
     /\ StageInv /\ ClaimsInv
     /\ \A i \in SegmentsLoaded : InPlace(Headers[i])

LEMMA HeaderTypes ==
  ASSUME fw \in Firmwares
  PROVE  /\ Headers \in Seq(ProgramHeaders) /\ Len(Headers) \in Nat
         /\ \A i \in 1..Len(Headers) :
              LET h == Headers[i]
              IN  LoadAddress(h) \in Nat /\ h.mem \in Nat /\ h.file \in Nat /\ h.offset \in Nat
<1>1. Headers \in Seq(ProgramHeaders)
  BY UefiBootAssumption DEF Headers
<1>2. Len(Headers) \in Nat /\ \A i \in 1..Len(Headers) : Headers[i] \in ProgramHeaders
  BY <1>1
<1>3. \A h \in ProgramHeaders : LoadAddress(h) \in Nat /\ h.mem \in Nat /\ h.file \in Nat /\ h.offset \in Nat
  BY DEF ProgramHeaders, LoadAddress
<1> QED  BY <1>1, <1>2, <1>3

LEMMA PagesNumbered ==
  ASSUME fw \in Firmwares
  PROVE  Cardinality(DOMAIN fw.types) \in Nat /\ DOMAIN fw.types = 0..(Cardinality(DOMAIN fw.types) - 1)
  BY UefiBootAssumption, FS_CardinalityType

LEMMA BootInvInit == Init => BootInv
<1>1. ASSUME BootInit PROVE BootInv
  <2>1. /\ fw \in Firmwares /\ at = "read" /\ types = fw.types /\ loaded = 0
        /\ taken = [n \in Names |-> {}] /\ info = NoInfo
        /\ DOMAIN ram = 0..(PageBytes * Cardinality(DOMAIN fw.types) - 1)
    BY <1>1 DEF BootInit
  <2>2. SegmentsLoaded = {} /\ loaded \in 0..Len(Headers)
    BY <2>1, HeaderTypes DEF SegmentsLoaded
  <2>3. Claimed = {}
    BY <2>1, <2>2 DEF Claimed, OwnPages, LoadedPages
  <2>4. ClaimsInv
    BY <2>1, <2>3 DEF ClaimsInv
  <2>5. StageInv
    BY <2>1 DEF StageInv, Names, NoInfo
  <2> QED  BY <2>1, <2>2, <2>4, <2>5 DEF BootInv
<1>2. ASSUME BootRests PROVE BootInv
  BY <1>2 DEF BootRests, BootInv
<1> QED  BY <1>1, <1>2 DEF Init

(* Conventional pages are unclaimed; owning them claims them.              *)
LEMMA OwnKeepsClaims ==
  ASSUME ClaimsInv, fw' = fw, NEW ps, Conventional(ps), Own(ps), Claimed' = Claimed \cup ps
  PROVE  ClaimsInv' /\ ps \cap Claimed = {}
<1>1. \A p \in ps : p \in DOMAIN types /\ p \in DOMAIN fw.types /\ types[p] = "CONVENTIONAL"
  BY DEF Conventional, ClaimsInv
<1>2. \A p \in ps : p \notin Claimed /\ fw.types[p] = "CONVENTIONAL"
  BY <1>1 DEF ClaimsInv
<1>3. DOMAIN types' = DOMAIN types
  BY DEF Own
<1>4. \A p \in DOMAIN types : types'[p] = IF p \in ps THEN "LOADER_DATA" ELSE types[p]
  BY DEF Own
<1>5. \A p \in DOMAIN types' : types'[p] = IF p \in Claimed' THEN "LOADER_DATA" ELSE fw'.types[p]
  BY <1>3, <1>4 DEF ClaimsInv
<1> QED  BY <1>1, <1>2, <1>3, <1>5 DEF ClaimsInv

LEMMA SameClaims ==
  ASSUME fw' = fw, taken' = taken, loaded' = loaded
  PROVE  Headers' = Headers /\ SegmentsLoaded' = SegmentsLoaded /\ Claimed' = Claimed
  BY DEF Headers, SegmentsLoaded, Claimed, OwnPages, LoadedPages, Loadable, SegmentPages

LEMMA SameImage ==
  ASSUME fw' = fw, loaded' = loaded, ram' = ram, \A i \in SegmentsLoaded : InPlace(Headers[i])
  PROVE  \A i \in SegmentsLoaded' : InPlace(Headers[i])'
  BY DEF Headers, SegmentsLoaded, Loadable, InPlace

LEMMA RunIsConventional == ASSUME NEW n, NEW ps \in Runs(n) PROVE Conventional(ps)
  BY DEF Runs

LEMMA FailsKeepsBoot == ASSUME BootInv, at # "off", NEW error, Fails(error) PROVE BootInv'
<1>1. /\ at' = "failed" /\ fw' = fw /\ types' = types /\ ram' = ram /\ loaded' = loaded
      /\ taken' = taken /\ info' = info
  BY DEF Fails
<1>2. Headers' = Headers /\ SegmentsLoaded' = SegmentsLoaded /\ Claimed' = Claimed
  BY <1>1, SameClaims
<1>3. ClaimsInv'
  BY <1>1, <1>2 DEF BootInv, ClaimsInv
<1>4. StageInv'
  BY <1>1 DEF BootInv, StageInv
<1>5. \A i \in SegmentsLoaded' : InPlace(Headers[i])'
  BY <1>1, SameImage DEF BootInv
<1> QED  BY <1>1, <1>2, <1>3, <1>4, <1>5 DEF BootInv

LEMMA ClaimedIs ==
  /\ \A x : x \in Claimed <=> \/ \E n \in Names : x \in taken[n]
                            \/ \E i \in SegmentsLoaded : x \in SegmentPages(Headers[i])
  /\ \A x : x \in Claimed' <=> \/ \E n \in Names : x \in taken'[n]
                             \/ \E i \in SegmentsLoaded' : x \in SegmentPages(Headers[i])'
<1>1. /\ \A x : x \in OwnPages <=> \E n \in Names : x \in taken[n]
      /\ \A x : x \in OwnPages' <=> \E n \in Names : x \in taken'[n]
  BY DEF OwnPages
<1>2. /\ \A x : x \in LoadedPages <=> \E i \in SegmentsLoaded : x \in SegmentPages(Headers[i])
      /\ \A x : x \in LoadedPages' <=> \E i \in SegmentsLoaded' : x \in SegmentPages(Headers[i])'
  BY DEF LoadedPages
<1> QED  BY <1>1, <1>2 DEF Claimed

(* An allocation of the loader's own, under names that had none.           *)
LEMMA TakingClaims ==
  ASSUME fw' = fw, loaded' = loaded, NEW A \in SUBSET Names, NEW ps,
         \A m_ \in A : taken[m_] = {}, \A m_ \in Names \ A : taken'[m_] = taken[m_],
         UNION {taken'[m_] : m_ \in A} = ps
  PROVE  Claimed' = Claimed \cup ps
<1>1. \A x : x \in ps <=> \E n \in A : x \in taken'[n]
  OBVIOUS
<1>2. \A n \in Names : n \in A \/ taken'[n] = taken[n]
  OBVIOUS
<1>3. \A x : (\E n \in Names : x \in taken'[n]) <=> (\E n \in Names : x \in taken[n]) \/ x \in ps
  BY <1>1, <1>2
<1>4. /\ SegmentsLoaded' = SegmentsLoaded
      /\ \A i : SegmentPages(Headers[i])' = SegmentPages(Headers[i])
  BY DEF Headers, SegmentsLoaded, Loadable, SegmentPages
<1> QED  BY <1>3, <1>4, ClaimedIs

(* A step that keeps image and headers needs only its claims looked at.    *)
LEMMA AllocationKeepsBoot ==
  ASSUME BootInv, at # "off", fw' = fw, loaded' = loaded, ram' = ram, at' # "off",
         StageInv', NEW ps, Conventional(ps), Own(ps), Claimed' = Claimed \cup ps
  PROVE  BootInv'
<1>1. ClaimsInv'
  BY OwnKeepsClaims DEF BootInv
<1>2. \A i \in SegmentsLoaded' : InPlace(Headers[i])'
  BY SameImage DEF BootInv
<1>3. Headers' = Headers
  BY DEF Headers
<1> QED  BY <1>1, <1>2, <1>3 DEF BootInv

LEMMA QuietKeepsBoot ==
  ASSUME BootInv, at # "off", at' # "off", StageInv',
         fw' = fw, loaded' = loaded, ram' = ram, taken' = taken, types' = types
  PROVE  BootInv'
<1>1. Headers' = Headers /\ SegmentsLoaded' = SegmentsLoaded /\ Claimed' = Claimed
  BY SameClaims
<1>2. ClaimsInv'
  BY <1>1 DEF BootInv, ClaimsInv
<1>3. \A i \in SegmentsLoaded' : InPlace(Headers[i])'
  BY SameImage DEF BootInv
<1> QED  BY <1>1, <1>2, <1>3 DEF BootInv

LEMMA ReadKernelKeepsBoot == ASSUME BootInv, ReadKernel PROVE BootInv'
<1>1. ASSUME NEW error, Fails(error) PROVE BootInv'
  BY <1>1, FailsKeepsBoot DEF ReadKernel
<1>2. ASSUME NEW ps \in Runs(1), Goes("framebuffer"), Own(ps),
             taken' = [taken EXCEPT !["file"] = ps], UNCHANGED <<ram, loaded, info>>
      PROVE  BootInv'
  <2>1. StageInv /\ at = "read" /\ at' = "framebuffer" /\ fw' = fw /\ info' = info
    BY <1>2 DEF ReadKernel, BootInv, Goes
  <2>2. DOMAIN taken = Names /\ "file" \in Names /\ taken["file"] = {}
    BY <2>1 DEF StageInv, Names
  <2>3. /\ DOMAIN taken' = Names /\ taken'["file"] = ps
        /\ \A n \in Names : n # "file" => taken'[n] = taken[n]
    BY <1>2, <2>2
  <2>4. Claimed' = Claimed \cup ps
    <3>1. PICK A \in SUBSET Names : A = {"file"}
      BY <2>2
    <3>2. UNION {taken'[n] : n \in A} = ps
      BY <2>3, <3>1
    <3> QED  BY <1>2, <2>1, <2>2, <2>3, <3>1, <3>2, TakingClaims
  <2>5. StageInv'
    BY <2>1, <2>3 DEF StageInv, Names
  <2> QED  BY <1>2, <2>1, <2>4, <2>5, RunIsConventional, AllocationKeepsBoot
<1> QED  BY <1>1, <1>2 DEF ReadKernel

LEMMA PrepareKeepsBoot == ASSUME BootInv, Prepare PROVE BootInv'
<1>1. PICK v \in Runs(1), b \in Runs(1) :
        Own(v \cup b) /\ taken' = [taken EXCEPT !["regions"] = v, !["info"] = b]
  BY DEF Prepare
<1>2. /\ StageInv /\ at = "allocate" /\ at' = "segments" /\ fw' = fw /\ ram' = ram /\ loaded' = loaded
  BY DEF Prepare, BootInv, Goes
<1>3. /\ DOMAIN taken = Names /\ {"regions", "info"} \subseteq Names
      /\ taken["regions"] = {} /\ taken["info"] = {} /\ taken["stack"] = {}
  BY <1>2 DEF StageInv, Names
<1>4. /\ DOMAIN taken' = Names /\ taken'["regions"] = v /\ taken'["info"] = b
      /\ \A n \in Names : n \notin {"regions", "info"} => taken'[n] = taken[n]
  BY <1>1, <1>3
<1>5. Claimed' = Claimed \cup (v \cup b)
  <2>1. PICK A \in SUBSET Names : A = {"regions", "info"}
    BY <1>3
  <2>2. UNION {taken'[n] : n \in A} = v \cup b
    BY <1>4, <2>1
  <2> QED  BY <1>2, <1>3, <1>4, <2>1, <2>2, TakingClaims
<1>i. DOMAIN info' = DOMAIN info
  BY DEF Prepare
<1>6. StageInv'
  BY <1>2, <1>3, <1>4, <1>i DEF StageInv, Names
<1>7. Conventional(v \cup b)
  BY RunIsConventional DEF Conventional
<1> QED  BY <1>1, <1>2, <1>5, <1>6, <1>7, AllocationKeepsBoot

LEMMA StackKeepsBoot == ASSUME BootInv, AllocateKernelStack PROVE BootInv'
<1>1. ASSUME NEW error, Fails(error) PROVE BootInv'
  BY <1>1, FailsKeepsBoot DEF AllocateKernelStack
<1>2. ASSUME NEW ps \in Runs(StackPages), Goes("exit"), Own(ps),
             taken' = [taken EXCEPT !["stack"] = ps], UNCHANGED <<ram, loaded, info>>
      PROVE  BootInv'
  <2>1. /\ StageInv /\ at = "segments" /\ at' = "exit" /\ fw' = fw /\ info' = info
        /\ loaded = Len(Headers)
    BY <1>2 DEF AllocateKernelStack, BootInv, Goes
  <2>2. DOMAIN taken = Names /\ "stack" \in Names /\ taken["stack"] = {}
    BY <2>1 DEF StageInv, Names
  <2>3. /\ DOMAIN taken' = Names /\ taken'["stack"] = ps
        /\ \A n \in Names : n # "stack" => taken'[n] = taken[n]
    BY <1>2, <2>2
  <2>4. Claimed' = Claimed \cup ps
    <3>1. PICK A \in SUBSET Names : A = {"stack"}
      BY <2>2
    <3>2. UNION {taken'[n] : n \in A} = ps
      BY <2>3, <3>1
    <3> QED  BY <1>2, <2>1, <2>2, <2>3, <3>1, <3>2, TakingClaims
  <2>5. StageInv'
    <3>1. loaded' = Len(Headers')
      BY <1>2, <2>1 DEF Headers
    <3> QED  BY <2>1, <2>3, <3>1 DEF StageInv, Names
  <2> QED  BY <1>2, <2>1, <2>4, <2>5, RunIsConventional, AllocationKeepsBoot
<1> QED  BY <1>1, <1>2 DEF AllocateKernelStack

-----------------------------------------------------------------------------
(* Segments.                                                               *)
LEMMA DivMonotone ==
  ASSUME NEW u \in Nat \ {0}, NEW a \in Nat, NEW b \in Nat, a <= b
  PROVE  a \div u \in Nat /\ a \div u <= b \div u
<1>1. PICK x \in Nat, y \in Nat : x = a \div u /\ y = b \div u
  OBVIOUS
<1>2. u * x <= a /\ b < u * y + u
  BY <1>1
<1>3. y + 1 <= x => u * (y + 1) <= u * x
  OBVIOUS
<1>4. u * (y + 1) = u * y + u
  OBVIOUS
<1>5. u * x \in Nat /\ u * y \in Nat
  OBVIOUS
<1>6. ~(y + 1 <= x)
  BY <1>2, <1>3, <1>4, <1>5
<1> QED  BY <1>1, <1>6

(* The addresses of a segment lie on its pages, and these in RAM.          *)
LEMMA SegmentAddresses ==
  ASSUME fw \in Firmwares, NEW i \in 1..Len(Headers), NEW k \in 0..(Headers[i].mem - 1)
  PROVE  LET h == Headers[i]
         IN  /\ Page(LoadAddress(h) + k) \in SegmentPages(h)
             /\ SegmentPages(h) \subseteq DOMAIN fw.types =>
                  LoadAddress(h) + k \in 0..(PageBytes * Cardinality(DOMAIN fw.types) - 1)
<1>1. PICK h, base, mem : h = Headers[i] /\ base = LoadAddress(h) /\ mem = h.mem
  OBVIOUS
<1>2. base \in Nat /\ mem \in Nat /\ k \in Nat /\ k <= mem - 1 /\ mem - 1 \in Nat
  BY <1>1, HeaderTypes
<1>u. PageBytes \in Nat \ {0}
  BY UefiBootAssumption
<1>3. PICK a, z \in Nat : a = base + k /\ z = base + mem - 1 /\ base <= a /\ a <= z
  BY <1>2
<1>4. base \div PageBytes \in Nat /\ a \div PageBytes \in Nat /\ z \div PageBytes \in Nat
      /\ base \div PageBytes <= a \div PageBytes /\ a \div PageBytes <= z \div PageBytes
  BY <1>2, <1>3, <1>u, DivMonotone
<1>5. SegmentPages(h) = (base \div PageBytes)..(z \div PageBytes)
  BY <1>1, <1>3 DEF SegmentPages, Page
<1>6. a \div PageBytes \in SegmentPages(h)
  BY <1>4, <1>5
<1>7. ASSUME SegmentPages(h) \subseteq DOMAIN fw.types
      PROVE  a \in 0..(PageBytes * Cardinality(DOMAIN fw.types) - 1)
  <2>1. PICK n \in Nat : n = Cardinality(DOMAIN fw.types) /\ DOMAIN fw.types = 0..(n - 1)
    BY PagesNumbered
  <2>a. PICK x \in Nat : x = a \div PageBytes
    BY <1>4
  <2>b. x \in 0..(n - 1)
    BY <1>6, <1>7, <2>1, <2>a
  <2>2. x = a \div PageBytes /\ x + 1 <= n
    BY <2>a, <2>b
  <2>3. a < PageBytes * x + PageBytes
    BY <1>u, <2>2
  <2>4. PageBytes * (x + 1) <= PageBytes * n
    BY <1>u, <2>2
  <2>5. PageBytes * (x + 1) = PageBytes * x + PageBytes /\ PageBytes * n \in Nat /\ PageBytes * x \in Nat
    BY <1>u
  <2>6. a < PageBytes * n
    BY <1>u, <2>3, <2>4, <2>5
  <2> QED  BY <2>1, <2>5, <2>6
<1> QED  BY <1>1, <1>3, <1>6, <1>7 DEF Page

(* What the new segment's pages held is gone, the rest of RAM is not       *)
(* touched: the segment lies in place, and so do those loaded before,      *)
(* whose pages it cannot have got.                                         *)
LEMMA SegmentKeepsBoot == ASSUME BootInv, LoadKernelSegment PROVE BootInv'
<1>0. /\ fw \in Firmwares /\ StageInv /\ ClaimsInv /\ at = "segments"
      /\ loaded \in 0..Len(Headers) /\ loaded < Len(Headers)
      /\ DOMAIN ram = 0..(PageBytes * Cardinality(DOMAIN fw.types) - 1)
      /\ \A i \in SegmentsLoaded : InPlace(Headers[i])
  BY DEF LoadKernelSegment, BootInv
<1>h. Len(Headers) \in Nat
  BY <1>0, HeaderTypes
<1>i. PICK next \in 1..Len(Headers) : next = loaded + 1
  BY <1>0, <1>h
<1>1. ASSUME NEW error, Fails(error) PROVE BootInv'
  BY <1>0, <1>1, FailsKeepsBoot
<1>g. ASSUME Goes("segments"), loaded' = loaded + 1
      PROVE  /\ at' = "segments" /\ fw' = fw /\ Headers' = Headers
             /\ loaded' \in 0..Len(Headers')
             /\ \A j : j \in SegmentsLoaded' <=> j \in SegmentsLoaded \/ (j = next /\ Loadable(Headers[next]))
  <2>1. at' = "segments" /\ fw' = fw /\ Headers' = Headers
    BY <1>g DEF Goes, Headers
  <2>2. loaded' \in 0..Len(Headers')
    BY <1>0, <1>h, <1>g, <2>1
  <2>3. \A j : j \in 1..loaded' <=> j \in 1..loaded \/ j = next
    BY <1>0, <1>h, <1>g, <1>i
  <2>4. \A j : Loadable(Headers[j])' <=> Loadable(Headers[j])
    BY <2>1 DEF Loadable
  <2> QED  BY <2>1, <2>2, <2>3, <2>4 DEF SegmentsLoaded
<1>s. ASSUME Goes("segments"), taken' = taken, info' = info PROVE StageInv'
  BY <1>0, <1>s DEF StageInv, Goes
<1>2. ASSUME ~Loadable(Headers[next]), Goes("segments"), loaded' = loaded + 1,
             UNCHANGED <<types, ram, taken, info>>
      PROVE  BootInv'
  <2>1. fw' = fw /\ Headers' = Headers /\ loaded' \in 0..Len(Headers') /\ SegmentsLoaded' = SegmentsLoaded
    BY <1>2, <1>g
  <2>2. Claimed' = Claimed
    BY <1>2, <2>1 DEF Claimed, OwnPages, LoadedPages, SegmentPages
  <2>3. ClaimsInv'
    BY <1>0, <1>2, <2>1, <2>2 DEF ClaimsInv
  <2>4. \A i \in SegmentsLoaded' : InPlace(Headers[i])'
    BY <1>0, <1>2, <2>1 DEF InPlace
  <2> QED  BY <1>0, <1>2, <1>s, <2>1, <2>3, <2>4 DEF BootInv
<1>3. ASSUME Loadable(Headers[next]), Conventional(SegmentPages(Headers[next])),
             ~(Headers[next].file > Headers[next].mem),
             Goes("segments"), loaded' = loaded + 1, Own(SegmentPages(Headers[next])),
             ram' = [a \in DOMAIN ram |-> SegmentBytes(Headers[next], a)],
             UNCHANGED <<taken, info>>
      PROVE  BootInv'
  <2>1. PICK h : h = Headers[next]
    OBVIOUS
  <2>2. /\ fw' = fw /\ Headers' = Headers /\ loaded' \in 0..Len(Headers')
        /\ \A j : j \in SegmentsLoaded' <=> j \in SegmentsLoaded \/ j = next
    BY <1>3, <1>g
  <2>3. Claimed' = Claimed \cup SegmentPages(h)
    <3>1. \A j : SegmentPages(Headers[j])' = SegmentPages(Headers[j])
      BY <2>2 DEF SegmentPages
    <3>2. taken' = taken
      BY <1>3
    <3> QED  BY <2>1, <2>2, <3>1, <3>2, ClaimedIs
  <2>4. ClaimsInv' /\ SegmentPages(h) \cap Claimed = {}
    BY <1>0, <1>3, <2>1, <2>2, <2>3, OwnKeepsClaims
  <2>5. DOMAIN ram' = DOMAIN ram
    BY <1>3
  <2>6. InPlace(h)'
    <3>1. /\ LoadAddress(h) \in Nat /\ h.mem \in Nat /\ h.file \in Nat /\ h.offset \in Nat
      BY <1>0, <2>1, HeaderTypes
    <3>2. SegmentPages(h) \subseteq DOMAIN fw.types
      BY <1>0, <1>3, <2>1 DEF Conventional, ClaimsInv
    <3>3. ASSUME NEW k \in 0..(h.mem - 1)
          PROVE  ram'[LoadAddress(h) + k] = IF k < h.file THEN h.offset + k ELSE ZeroByte
      <4>1. PICK a : a = LoadAddress(h) + k
        OBVIOUS
      <4>2. Page(a) \in SegmentPages(h) /\ a \in DOMAIN ram
        BY <1>0, <2>1, <3>2, <4>1, SegmentAddresses
      <4>3. ram'[a] = SegmentBytes(h, a)
        BY <1>3, <2>1, <4>2
      <4>4. k \in Nat
        BY <3>1
      <4>5. a \in LoadAddress(h)..(LoadAddress(h) + h.file - 1) <=> k < h.file
        BY <3>1, <4>1, <4>4
      <4>6. h.offset + a - LoadAddress(h) = h.offset + k
        BY <3>1, <4>1, <4>4
      <4> QED  BY <4>1, <4>2, <4>3, <4>5, <4>6 DEF SegmentBytes
    <3> QED  BY <3>3 DEF InPlace
  <2>7. ASSUME NEW i \in SegmentsLoaded PROVE InPlace(Headers[i])'
    <3>1. PICK g : g = Headers[i]
      OBVIOUS
    <3>a. i \in 1..Len(Headers)
      BY <1>0, <1>h DEF SegmentsLoaded
    <3>b. SegmentPages(g) \subseteq Claimed
      BY <3>1, ClaimedIs
    <3>2. i \in 1..Len(Headers) /\ InPlace(g) /\ SegmentPages(g) \subseteq Claimed
      BY <1>0, <3>1, <3>a, <3>b
    <3>3. SegmentPages(g) \subseteq DOMAIN fw.types
      BY <1>0, <3>2 DEF ClaimsInv
    <3>4. ASSUME NEW k \in 0..(g.mem - 1)
          PROVE  ram'[LoadAddress(g) + k] = IF k < g.file THEN g.offset + k ELSE ZeroByte
      <4>1. PICK a : a = LoadAddress(g) + k
        OBVIOUS
      <4>2. Page(a) \in SegmentPages(g) /\ a \in DOMAIN ram
        BY <1>0, <3>1, <3>2, <3>3, <4>1, SegmentAddresses
      <4>3. Page(a) \notin SegmentPages(h)
        BY <2>4, <3>2, <4>2
      <4>4. ram'[a] = ram[a]
        BY <1>3, <2>1, <4>2, <4>3 DEF SegmentBytes
      <4> QED  BY <3>2, <4>1, <4>4 DEF InPlace
    <3>5. Headers'[i] = g
      BY <2>2, <3>1
    <3> QED  BY <3>4, <3>5 DEF InPlace
  <2>8. \A i \in SegmentsLoaded' : InPlace(Headers[i])'
    <3>1. InPlace(Headers[next])'
      BY <2>1, <2>2, <2>6 DEF InPlace
    <3> QED  BY <2>2, <2>7, <3>1
  <2> QED  BY <1>0, <1>3, <1>s, <2>2, <2>4, <2>5, <2>8 DEF BootInv
<1> QED  BY <1>1, <1>2, <1>3, <1>i DEF LoadKernelSegment

-----------------------------------------------------------------------------
LEMMA BootInvStep == BootInv /\ [Next]_vars => BootInv'
<1> SUFFICES ASSUME BootInv, [Next]_vars PROVE BootInv'
  OBVIOUS
<1>1. CASE UNCHANGED bootVars
  <2>1. /\ at' = at /\ fw' = fw /\ types' = types /\ ram' = ram /\ loaded' = loaded
        /\ taken' = taken /\ info' = info
    BY <1>1 DEF bootVars
  <2>2. CASE at = "off"
    BY <2>1, <2>2 DEF BootInv
  <2>3. CASE at # "off"
    <3>1. StageInv'
      BY <2>1, <2>3 DEF BootInv, StageInv, Headers, MapOfMemory, RunFrom
    <3> QED  BY <2>1, <2>3, <3>1, QuietKeepsBoot
  <2> QED  BY <2>2, <2>3
<1>2. CASE QueryFramebuffer
  <2>1. ASSUME NEW error, Fails(error) PROVE BootInv'
    BY <1>2, <2>1, FailsKeepsBoot DEF QueryFramebuffer
  <2>2. ASSUME Goes("allocate"), UNCHANGED <<types, ram, loaded, taken, info>> PROVE BootInv'
    <3>1. at = "framebuffer" /\ at' = "allocate" /\ fw' = fw
      BY <1>2, <2>2 DEF QueryFramebuffer, Goes
    <3>2. StageInv'
      BY <2>2, <3>1 DEF BootInv, StageInv
    <3> QED  BY <2>2, <3>1, <3>2, QuietKeepsBoot
  <2> QED  BY <1>2, <2>1, <2>2 DEF QueryFramebuffer
<1>3. CASE ExitBootServices
  <2>1. ASSUME NEW error, Fails(error) PROVE BootInv'
    BY <1>3, <2>1, FailsKeepsBoot DEF ExitBootServices
  <2>2. ASSUME info' = [info EXCEPT !.regions = MapOfMemory], Goes("kernel"),
               UNCHANGED <<types, ram, loaded, taken>>
        PROVE  BootInv'
    <3>1. at = "exit" /\ at' = "kernel" /\ fw' = fw /\ "regions" \in DOMAIN info
      BY <1>3, <2>2 DEF ExitBootServices, Goes, BootInv, StageInv
    <3>2. info'.regions = MapOfMemory /\ MapOfMemory' = MapOfMemory
      BY <2>2, <3>1 DEF MapOfMemory, RunFrom
    <3>3. StageInv'
      BY <2>2, <3>1, <3>2 DEF BootInv, StageInv, Headers
    <3> QED  BY <2>2, <3>1, <3>3, QuietKeepsBoot
  <2> QED  BY <1>3, <2>1, <2>2 DEF ExitBootServices
<1>4. CASE EnterKernel
  <2>1. ASSUME NEW error, Fails(error) PROVE BootInv'
    BY <1>4, <2>1, FailsKeepsBoot DEF EnterKernel
  <2>2. ASSUME Goes("running"), UNCHANGED <<types, ram, loaded, taken, info>> PROVE BootInv'
    <3>1. at = "kernel" /\ at' = "running" /\ fw' = fw
      BY <1>4, <2>2 DEF EnterKernel, Goes
    <3>2. MapOfMemory' = MapOfMemory
      BY <2>2 DEF MapOfMemory, RunFrom
    <3>3. StageInv'
      BY <2>2, <3>1, <3>2 DEF BootInv, StageInv, Headers
    <3> QED  BY <2>2, <3>1, <3>3, QuietKeepsBoot
  <2> QED  BY <1>4, <2>1, <2>2 DEF EnterKernel
<1>5. CASE BootNext
  BY <1>2, <1>3, <1>4, <1>5, ReadKernelKeepsBoot, PrepareKeepsBoot, SegmentKeepsBoot, StackKeepsBoot
     DEF BootNext
<1> QED  BY <1>1, <1>5 DEF Next, Boot, Allocator, Spaces, vars

-----------------------------------------------------------------------------
(* What the kernel is handed when it is entered, wherever the firmware put *)
(* things: its own image as in the file, and as free memory exactly what   *)
(* nobody needs any more (the loader's load_kernel_segments,               *)
(* exit_boot_services and normalize_memory_region).                        *)
THEOREM HandoffCorrect == Spec => []HandoffSound
<1>1. BootInv => HandoffSound
  <2> SUFFICES ASSUME BootInv, at \in {"kernel", "running"} PROVE HandoffSound
    BY DEF HandoffSound, HandoffDisjoint, KernelAsInFile
  <2>1. /\ fw \in Firmwares /\ ClaimsInv /\ loaded = Len(Headers) /\ info.regions = MapOfMemory
        /\ DOMAIN taken = Names /\ \A i \in SegmentsLoaded : InPlace(Headers[i])
    BY DEF BootInv, StageInv
  <2>2. Headers \in Seq(ProgramHeaders) /\ DOMAIN Headers = 1..Len(Headers)
    BY <2>1, HeaderTypes
  <2>3. \A h : h \in Range(Headers) /\ Loadable(h) <=> \E i \in SegmentsLoaded : h = Headers[i]
    BY <2>1, <2>2 DEF Range, SegmentsLoaded
  <2>4. Claimed = Image \cup UNION Range(taken)
    <3>1. \A x : x \in Image <=> \E i \in SegmentsLoaded : x \in SegmentPages(Headers[i])
      BY <2>3 DEF Image
    <3>2. \A x : x \in UNION Range(taken) <=> \E n \in Names : x \in taken[n]
      BY <2>1 DEF Range
    <3> QED  BY <3>1, <3>2, ClaimedIs
  <2>5. Handed = {p \in DOMAIN types : types[p] = "CONVENTIONAL"}
    <3>1. PICK n \in Nat : DOMAIN types = 0..(n - 1)
      BY <2>1, PagesNumbered DEF ClaimsInv
    <3> QED  BY <2>1, <3>1, HandedIs
  <2>6. HandoffDisjoint
    <3>1. \A p : p \in Handed <=> p \in DOMAIN fw.types /\ p \notin Claimed /\ fw.types[p] = "CONVENTIONAL"
      BY <2>1, <2>5 DEF ClaimsInv
    <3> QED  BY <2>4, <3>1 DEF HandoffDisjoint
  <2>7. KernelAsInFile
    BY <2>1, <2>3 DEF KernelAsInFile, InPlace
  <2> QED  BY <2>6, <2>7 DEF HandoffSound
<1> QED  BY <1>1, BootInvInit, BootInvStep, PTL DEF Spec
=============================================================================
