------------------------- MODULE BufferCacheProofs -------------------------
(***************************************************************************)
(* Proofs about BufferCache: the cache never holds a block twice, a clean  *)
(* buffer is what the disk holds, the copies of the FAT agree, link_fat's  *)
(* pointer is safe, and the cache implements BlockStore; for any number of *)
(* buffers, disks and blocks.                                              *)
(*                                                                         *)
(* Every action writes some buffers S (DiskStep) and makes of the old ring *)
(* a new one in which each buffer is an old one, written if it is in S, or *)
(* has been given new contents (RingStep).  What follows from these two is *)
(* proved once, and each action is shown to be such a step.                *)
(***************************************************************************)
EXTENDS BufferCache, SequenceTheorems, FiniteSetTheorems, WellFoundedInduction, TLAPS

(* What the accesses rely on without saying so: only a valid buffer is dirty,
   its data were read or written, and a buffer of a FAT sector is known to be
   one, or else its second copy would not be written. *)
Marked ==
  \A i \in Positions :
    /\ ring[i].dirty => ring[i].valid
    /\ ring[i].valid => ring[i].data \in Values
    /\ ring[i].valid /\ ring[i].blk \in Fat => ring[i].fat

(* The buffer that link_fat points to is one that searchblock does not choose. *)
HeldInv ==
  \A f \in held : /\ ring[1].valid /\ ring[1].blk = f
                  /\ ring[1].fat /\ ~ring[1].uncache

RingInv == TypeOK /\ BuffersKept /\ NoDuplicates /\ Marked /\ CleanIsDisk /\ MirrorsAgree
CacheInv == RingInv /\ HeldInv

-----------------------------------------------------------------------------
(* Positions of the ring *)

LEMMA MinOfOne ==
  ASSUME NEW k \in Nat
  PROVE  Min({k}) = k
BY DEF Min

LEMMA MaxOfRange ==
  ASSUME NEW n \in Nat, NEW S \in SUBSET (1..n), S # {}
  PROVE  Max(S) \in S /\ \A y \in S : y <= Max(S)
<1> DEFINE Back == {n - x : x \in S}
           Less == {p \in Nat \X Nat : p[1] < p[2]}
<1>1. OpToRel(<, Nat) = Less
  BY Zenon DEF OpToRel
<1>2. IsWellFoundedOn(Less, Nat)
  BY ONLY <1>1, NatLessThanWellFounded
<1>3. Back \in SUBSET Nat /\ Back # {}
  <2>1. \A x \in S : n - x \in Nat
    OBVIOUS
  <2>2. PICK x \in S : TRUE
    OBVIOUS
  <2> QED BY ONLY <2>1, <2>2, Zenon
<1>4. PICK m \in Back : \A y \in Back : ~ (<<y, m>> \in Less)
  <2> HIDE DEF Back
  <2> QED BY ONLY <1>2, <1>3, WFMin
<1>5. \A y \in Back : m <= y
  <2> SUFFICES ASSUME NEW y \in Back, y < m PROVE FALSE
    BY <1>3
  <2>1. m \in Nat /\ y \in Nat
    BY <1>3
  <2> DEFINE p == <<y, m>>
  <2>2. p \in Nat \X Nat /\ p[1] = y /\ p[2] = m
    BY <2>1
  <2>3. p \in Less
    <3> HIDE DEF p
    <3> QED BY <2>2
  <2> QED BY <1>4, <2>3
<1>6. PICK x \in S : m = n - x
  OBVIOUS
<1>7. \A y \in S : y <= x
  <2> SUFFICES ASSUME NEW y \in S PROVE y <= x
    OBVIOUS
  <2>1. n - y \in Back
    OBVIOUS
  <2>2. m <= n - y
    BY <1>5, <2>1
  <2> QED BY <1>6, <2>2
<1> QED BY <1>7 DEF Max

(* searchblock returns a buffer of the ring. *)
LEMMA HoldingOne ==
  ASSUME TypeOK, NoDuplicates, NEW b, NEW k \in Positions, ring[k].valid, ring[k].blk = b
  PROVE  Holding(b) = {k} /\ Cached(b) /\ StoreOf(b) = ring[k].data
<1>1. Holding(b) = {k}
  BY DEF Holding, NoDuplicates
<1>2. k \in Nat
  BY DEF Positions, TypeOK
<1> QED BY <1>1, <1>2, MinOfOne DEF Cached, StoreOf

LEMMA HoldingOnePrime ==
  ASSUME TypeOK', NoDuplicates', NEW b, NEW k \in Positions', ring'[k].valid, ring'[k].blk = b
  PROVE  StoreOf(b)' = ring'[k].data
<1>1. Holding(b)' = {k}
  BY DEF Holding, NoDuplicates
<1>2. k \in Nat
  BY DEF Positions, TypeOK
<1> QED BY <1>1, <1>2, MinOfOne DEF Cached, StoreOf

LEMMA CachedAt ==
  ASSUME NEW b, Cached(b)
  PROVE  \E k \in Positions : ring[k].valid /\ ring[k].blk = b
BY DEF Cached, Holding

(* Two sets of the same size. *)
LEMMA SameNumber ==
  ASSUME NEW A, IsFiniteSet(A), NEW B, NEW f \in [A -> B],
         \A a, b \in A : f[a] = f[b] => a = b,
         \A b \in B : \E a \in A : f[a] = b
  PROVE  Cardinality(A) = Cardinality(B)
<1>1. f \in Surjection(A, B) /\ f \in Injection(A, B)
  BY Zenon DEF Surjection, Injection, IsInjective
<1> QED BY <1>1, FS_Surjection

(* The BUFFERS= ones are at least two. *)
LEMMA TwoBuffers ==
  ASSUME TypeOK, BuffersKept
  PROVE  /\ Len(ring) \in Nat /\ Len(ring) >= 2 /\ Len(ring) \in 0..NBuffers
         /\ Positions = 1..Len(ring)
<1>1. Len(ring) \in Nat /\ Len(ring) \in 0..NBuffers /\ Positions = 1..Len(ring)
  BY CacheAssumption DEF TypeOK, Positions
<1>2. IsFiniteSet(1..Len(ring)) /\ Cardinality(1..Len(ring)) = Len(ring)
  BY <1>1, FS_Interval
<1>3. Positions \ Additional \in SUBSET (1..Len(ring))
  BY <1>1
<1>4. Cardinality(Positions \ Additional) <= Len(ring)
  BY ONLY <1>2, <1>3, FS_Subset
<1>5. MinBuffers <= Len(ring)
  BY <1>4 DEF BuffersKept
<1> QED BY <1>1, <1>5, CacheAssumption

LEMMA VictimType ==
  ASSUME TypeOK, BuffersKept
  PROVE  /\ Victim \in Positions
         /\ ring[1].fat /\ ~ring[1].uncache => Victim # 1
<1> DEFINE uncache == {i \in Positions : ring[i].uncache}
           nonFat == {i \in Positions : ~ring[i].fat}
<1>1. /\ Len(ring) \in Nat /\ Len(ring) >= 2
      /\ uncache \in SUBSET (1..Len(ring)) /\ nonFat \in SUBSET (1..Len(ring))
      /\ Positions = 1..Len(ring)
  BY TwoBuffers
<1>2. CASE uncache # {}
  <2>1. Victim = Max(uncache)
    BY <1>2 DEF Victim
  <2> QED BY <1>1, <1>2, <2>1, MaxOfRange
<1>3. CASE uncache = {} /\ ring[1].fat /\ Cardinality(Positions \ nonFat) < 3 /\ nonFat # {}
  <2>1. Victim = Max(nonFat)
    BY <1>3 DEF Victim
  <2> QED BY <1>1, <1>3, <2>1, MaxOfRange
<1>4. CASE uncache = {} /\ ~(ring[1].fat /\ Cardinality(Positions \ nonFat) < 3 /\ nonFat # {})
  <2>1. Victim = Len(ring)
    BY <1>4 DEF Victim
  <2> QED BY <1>1, <2>1
<1> QED BY <1>2, <1>3, <1>4

LEMMA SearchType ==
  ASSUME RingInv, NEW b
  PROVE  /\ searchblock(b) \in Positions
         /\ ~Cached(b) => searchblock(b) = Victim
         /\ Cached(b) => /\ ring[searchblock(b)].valid /\ ring[searchblock(b)].blk = b
                         /\ StoreOf(b) = ring[searchblock(b)].data
<1>1. CASE Cached(b)
  <2>1. PICK k \in Positions : ring[k].valid /\ ring[k].blk = b
    BY <1>1, CachedAt
  <2>2. Holding(b) = {k} /\ StoreOf(b) = ring[k].data
    BY <2>1, HoldingOne DEF RingInv
  <2>3. k \in Nat
    BY DEF Positions, RingInv, TypeOK
  <2>4. searchblock(b) = k
    BY <1>1, <2>2, <2>3, MinOfOne DEF searchblock
  <2> QED BY <1>1, <2>1, <2>2, <2>4
<1>2. CASE ~Cached(b)
  BY <1>2, VictimType DEF searchblock, RingInv
<1> QED BY <1>1, <1>2

LEMMA StoreType ==
  ASSUME RingInv, NEW b \in Blocks
  PROVE  StoreOf(b) \in Values
<1>1. CASE Cached(b)
  BY <1>1, SearchType DEF RingInv, Marked
<1>2. CASE ~Cached(b)
  BY <1>2 DEF RingInv, TypeOK, StoreOf
<1> QED BY <1>1, <1>2

-----------------------------------------------------------------------------
(* Writing buffers *)

(* The disks after the buffers S were written: what can be relied upon is the
   data of a buffer that was dirty, or what it was. *)
DiskStep(S) ==
  /\ disk' \in [Blocks -> Values] /\ mirror' \in [Fat -> Values]
  /\ suspect' \subseteq Blocks
  /\ \A x \in Blocks \ suspect' :
       /\ (\A k \in Pending(S) : ring[k].blk # x) =>
            /\ x \notin suspect
            /\ disk'[x] = disk[x]
            /\ x \in Fat => mirror'[x] = mirror[x]
       /\ \A k \in Pending(S) : ring[k].blk = x =>
            /\ disk'[x] = ring[k].data
            /\ x \in Fat => mirror'[x] = ring[k].data

LEMMA NothingWritten ==
  ASSUME RingInv, UNCHANGED <<disk, mirror>>,
         suspect \subseteq suspect', suspect' \subseteq Blocks
  PROVE  DiskStep({})
BY DEF DiskStep, RingInv, TypeOK, Pending

LEMMA FlushWrites ==
  ASSUME RingInv, NEW S \in SUBSET Positions, NEW o, flush1(S, o),
         SuspectAfter(S, o) \subseteq suspect', suspect' \subseteq Blocks
  PROVE  DiskStep(S)
<1> DEFINE fats == BlocksOf({i \in Pending(S) : ring[i].fat})
<1>1. PICK lost \in SUBSET BlocksOf(InError(S, o)),
           lostCopy \in SUBSET (BlocksOf(InError(S, o)) \intersect fats) :
        /\ disk' = [y \in Blocks |-> IF y \in BlocksOf(Pending(S)) \ lost
                                     THEN StoreOf(y) ELSE disk[y]]
        /\ mirror' = [y \in Fat |-> IF y \in fats \ lostCopy
                                    THEN StoreOf(y) ELSE mirror[y]]
  BY DEF flush1
<1>2. /\ Fat \subseteq Blocks
      /\ disk \in [Blocks -> Values] /\ mirror \in [Fat -> Values]
  BY CacheAssumption DEF RingInv, TypeOK
<1>3. \A y \in Blocks : StoreOf(y) \in Values
  BY StoreType
<1>4. disk' \in [Blocks -> Values] /\ mirror' \in [Fat -> Values]
  <2> HIDE DEF fats
  <2> QED BY ONLY <1>1, <1>2, <1>3
<1>5. ASSUME NEW x \in Blocks \ suspect'
      PROVE  /\ (\A k \in Pending(S) : ring[k].blk # x) =>
                  /\ x \notin suspect
                  /\ disk'[x] = disk[x]
                  /\ x \in Fat => mirror'[x] = mirror[x]
             /\ \A k \in Pending(S) : ring[k].blk = x =>
                  /\ disk'[x] = ring[k].data
                  /\ x \in Fat => mirror'[x] = ring[k].data
  <2>1. x \notin BlocksOf(InError(S, o))
    BY <1>5 DEF SuspectAfter
  <2>2. x \notin lost /\ x \notin lostCopy
    BY <2>1
  <2>3. ASSUME \A k \in Pending(S) : ring[k].blk # x
        PROVE  /\ x \notin suspect
               /\ disk'[x] = disk[x]
               /\ x \in Fat => mirror'[x] = mirror[x]
    <3>1. x \notin BlocksOf(Pending(S)) /\ x \notin fats /\ x \notin BlocksOf(Done(S, o))
      BY <2>3 DEF BlocksOf, Done
    <3>2. x \notin suspect
      BY <1>5, <3>1 DEF SuspectAfter
    <3> HIDE DEF fats
    <3> QED BY <1>1, <1>5, <3>1, <3>2
  <2>4. ASSUME NEW k \in Pending(S), ring[k].blk = x
        PROVE  /\ disk'[x] = ring[k].data
               /\ x \in Fat => mirror'[x] = ring[k].data
    <3>1. k \in Positions /\ ring[k].valid
      BY DEF Pending
    <3>2. StoreOf(x) = ring[k].data
      BY <2>4, <3>1, HoldingOne DEF RingInv
    <3>3. x \in BlocksOf(Pending(S))
      BY <2>4 DEF BlocksOf
    <3>4. x \in Fat => x \in fats
      BY <2>4, <3>1 DEF BlocksOf, RingInv, Marked
    <3> HIDE DEF fats
    <3> QED BY <1>1, <1>5, <2>2, <3>2, <3>3, <3>4
  <2> QED BY <2>3, <2>4
<1> QED BY <1>4, <1>5 DEF DiskStep

(* What the disk holds of a block after the step. *)
LEMMA DiskAfter ==
  ASSUME RingInv, NEW S \in SUBSET Positions, DiskStep(S), NEW x \in Blocks \ suspect'
  PROVE  /\ ~Cached(x) => disk'[x] = disk[x] /\ x \notin suspect
         /\ \A k \in Positions : ring[k].valid /\ ring[k].blk = x =>
              IF k \in S THEN disk'[x] = ring[k].data
                         ELSE disk'[x] = disk[x] /\ x \notin suspect
<1>1. ~Cached(x) => disk'[x] = disk[x] /\ x \notin suspect
  BY DEF DiskStep, Cached, Holding, Pending
<1>2. ASSUME NEW k \in Positions, ring[k].valid, ring[k].blk = x, k \notin S
      PROVE  disk'[x] = disk[x] /\ x \notin suspect
  <2>1. \A m \in Pending(S) : ring[m].blk # x
    BY <1>2 DEF Pending, RingInv, NoDuplicates
  <2> QED BY <2>1 DEF DiskStep
<1>3. ASSUME NEW k \in Positions, ring[k].valid, ring[k].blk = x, k \in S
      PROVE  disk'[x] = ring[k].data
  <2>1. CASE ring[k].dirty
    BY <1>3, <2>1 DEF DiskStep, Pending
  <2>2. CASE ~ring[k].dirty
    <3>1. \A m \in Pending(S) : ring[m].blk # x
      BY <1>3, <2>2 DEF Pending, RingInv, NoDuplicates
    <3> QED BY <1>3, <2>2, <3>1 DEF DiskStep, RingInv, CleanIsDisk
  <2> QED BY <2>1, <2>2
<1> QED BY <1>1, <1>2, <1>3

(* The copies of the FAT agree again. *)
LEMMA MirrorsAfter ==
  ASSUME RingInv, NEW S, DiskStep(S)
  PROVE  MirrorsAgree'
<1> SUFFICES ASSUME NEW f \in Fat \ suspect' PROVE mirror'[f] = disk'[f]
  BY DEF MirrorsAgree
<1>1. f \in Blocks \ suspect'
  BY CacheAssumption
<1>2. CASE \A k \in Pending(S) : ring[k].blk # f
  BY <1>1, <1>2 DEF DiskStep, RingInv, MirrorsAgree
<1>3. CASE \E k \in Pending(S) : ring[k].blk = f
  BY <1>1, <1>3 DEF DiskStep
<1> QED BY <1>2, <1>3

-----------------------------------------------------------------------------
(* The new ring *)

(* Buffer j of the new ring is buffer i of the old one, written if i \in S.  Its
   data are the same, if they can be relied upon. *)
From(i, j, S) ==
  /\ ring'[j].extra = ring[i].extra
  /\ ring'[j].dirty => ring[i].dirty /\ i \notin S
  /\ i \notin S => /\ ring'[j].valid = ring[i].valid
                   /\ ring'[j].dirty = ring[i].dirty
  /\ ring'[j].valid =>
       /\ ring[i].valid
       /\ ring'[j].blk = ring[i].blk /\ ring'[j].fat = ring[i].fat
       /\ \/ ring'[j].data = ring[i].data
          \/ ring'[j].data \in Values /\ ring'[j].blk \in suspect'

(* Buffer j of the new ring has been filled: buffer i gave it its memory, and
   no other one holds its block. *)
New(i, j) ==
  LET r == ring'[j]
  IN  /\ r.valid /\ r.data \in Values /\ r.extra = ring[i].extra
      /\ r.blk \in Fat => r.fat
      /\ ~r.dirty /\ r.blk \notin suspect' => r.data = disk'[r.blk]
      /\ \A k \in Positions \ {i} : ring[k].valid => ring[k].blk # r.blk

(* p gives the origin of each buffer of the new ring, J are the filled ones. *)
RingStep(S, p, J) ==
  LET new == 1..Len(ring')
  IN  /\ Len(ring') \in 0..NBuffers /\ ring' \in [new -> Buffer]
      /\ p \in [new -> Positions]
      /\ \A i, j \in new : p[i] = p[j] => i = j
      /\ \A i \in Positions \ Additional : \E j \in new : p[j] = i
      /\ J \subseteq new
      /\ \A j \in new \ J : From(p[j], j, S)
      /\ \A j \in J : New(p[j], j)
      /\ \A i, j \in J : ring'[i].blk = ring'[j].blk => i = j
      /\ \A i \in Positions \ S : ring[i].valid =>
           \E j \in new : p[j] = i /\ (j \in J => ring'[j].blk = ring[i].blk)

LEMMA RingKept ==
  ASSUME RingInv, NEW S \in SUBSET Positions, NEW p, NEW J,
         DiskStep(S), RingStep(S, p, J),
         held' \subseteq Fat, out' \in Values \union {Nothing, Error, Outside}
  PROVE  RingInv'
<1> DEFINE new == 1..Len(ring')
<1>1. TypeOK'
  BY DEF RingStep, DiskStep, TypeOK, Positions
<1>2. Positions' = new
  BY DEF Positions
<1>3. NoDuplicates'
  <2> SUFFICES ASSUME NEW i \in new, NEW j \in new, ring'[i].valid, ring'[j].valid,
                      ring'[i].blk = ring'[j].blk
               PROVE  i = j
    BY <1>2 DEF NoDuplicates
  <2>0. p[i] \in Positions /\ p[j] \in Positions
    BY DEF RingStep
  <2>1. CASE i \in J /\ j \in J
    BY <2>1 DEF RingStep
  <2>2. CASE i \in J /\ j \notin J
    <3>1. New(p[i], i) /\ From(p[j], j, S)
      BY <2>2 DEF RingStep
    <3>2. p[i] = p[j]
      BY <2>0, <3>1 DEF New, From
    <3> QED BY <3>2 DEF RingStep
  <2>3. CASE i \notin J /\ j \in J
    <3>1. New(p[j], j) /\ From(p[i], i, S)
      BY <2>3 DEF RingStep
    <3>2. p[i] = p[j]
      BY <2>0, <3>1 DEF New, From
    <3> QED BY <3>2 DEF RingStep
  <2>4. CASE i \notin J /\ j \notin J
    <3>1. From(p[j], j, S) /\ From(p[i], i, S)
      BY <2>4 DEF RingStep
    <3>2. p[i] = p[j]
      BY <2>0, <3>1 DEF From, RingInv, NoDuplicates
    <3> QED BY <3>2 DEF RingStep
  <2> QED BY <2>1, <2>2, <2>3, <2>4
<1>4. Marked'
  <2> SUFFICES ASSUME NEW j \in new
               PROVE  /\ ring'[j].dirty => ring'[j].valid
                      /\ ring'[j].valid => ring'[j].data \in Values
                      /\ ring'[j].valid /\ ring'[j].blk \in Fat => ring'[j].fat
    BY <1>2 DEF Marked
  <2>0. p[j] \in Positions
    BY DEF RingStep
  <2>1. CASE j \in J
    <3>1. New(p[j], j)
      BY <2>1 DEF RingStep
    <3> QED BY <3>1 DEF New
  <2>2. CASE j \notin J
    <3>1. From(p[j], j, S)
      BY <2>2 DEF RingStep
    <3> QED BY <2>0, <3>1 DEF From, RingInv, Marked
  <2> QED BY <2>1, <2>2
<1>5. CleanIsDisk'
  <2> SUFFICES ASSUME NEW j \in new, ring'[j].valid, ~ring'[j].dirty,
                      ring'[j].blk \notin suspect'
               PROVE  ring'[j].data = disk'[ring'[j].blk]
    BY <1>2 DEF CleanIsDisk
  <2>0. p[j] \in Positions /\ ring'[j] \in Buffer
    BY DEF RingStep
  <2>1. CASE j \in J
    <3>1. New(p[j], j)
      BY <2>1 DEF RingStep
    <3> QED BY <3>1 DEF New
  <2>2. CASE j \notin J
    <3> DEFINE x == ring'[j].blk
               i == p[j]
    <3>1. From(i, j, S)
      BY <2>2 DEF RingStep
    <3>2. ring[i].valid /\ ring[i].blk = x /\ ring'[j].data = ring[i].data
      BY <3>1 DEF From
    <3>3. x \in Blocks \ suspect'
      BY <2>0 DEF Buffer
    <3>4. CASE i \in S
      BY <2>0, <3>2, <3>3, <3>4, DiskAfter
    <3>5. CASE i \notin S
      <4>1. ~ring[i].dirty
        BY <3>1, <3>5 DEF From
      <4>2. disk'[x] = disk[x] /\ x \notin suspect
        BY <2>0, <3>2, <3>3, <3>5, DiskAfter
      <4> QED BY <2>0, <3>2, <4>1, <4>2 DEF RingInv, CleanIsDisk
    <3> QED BY <3>4, <3>5
  <2> QED BY <2>1, <2>2
<1>6. MirrorsAgree'
  BY MirrorsAfter
<1>7. BuffersKept'
  <2>1. PICK A : A = (Positions \ Additional)'
    OBVIOUS
  <2>2. PICK B : B = Positions \ Additional
    OBVIOUS
  <2>3. \A j \in new : p[j] \in Positions /\ ring'[j].extra = ring[p[j]].extra
    BY DEF RingStep, From, New
  <2>4. \A j \in new : j \in A <=> p[j] \in B
    BY <1>2, <2>1, <2>2, <2>3 DEF Additional
  <2>5. A \subseteq new /\ B \subseteq Positions
    BY <1>2, <2>1, <2>2
  <2> DEFINE f == [j \in A |-> p[j]]
  <2>6. f \in [A -> B] /\ \A i, j \in A : f[i] = f[j] => i = j
    BY <2>4, <2>5 DEF RingStep
  <2>7. \A i \in B : \E j \in A : f[j] = i
    <3> SUFFICES ASSUME NEW i \in B PROVE \E j \in A : f[j] = i
      OBVIOUS
    <3>1. PICK j \in new : p[j] = i
      BY <2>2 DEF RingStep
    <3> QED BY <2>4, <3>1
  <2>8. IsFiniteSet(A)
    <3>1. Len(ring') \in Nat
      BY <1>1, CacheAssumption DEF TypeOK
    <3>2. IsFiniteSet(new)
      BY <3>1, FS_Interval
    <3> QED BY <2>5, <3>2, FS_Subset
  <2> HIDE DEF f
  <2>9. Cardinality(A) = Cardinality(B)
    BY ONLY <2>6, <2>7, <2>8, SameNumber
  <2> QED BY <2>1, <2>2, <2>9 DEF RingInv, BuffersKept
<1> QED BY <1>1, <1>3, <1>4, <1>5, <1>6, <1>7 DEF RingInv

(* Every block that was not filled keeps its content, as BlockStore promises. *)
Kept(x) == StoreOf(x)' = StoreOf(x) /\ disk'[x] \in {disk[x], StoreOf(x)}

LEMMA BlocksKept ==
  ASSUME RingInv, RingInv', NEW S \in SUBSET Positions, NEW p, NEW J,
         DiskStep(S), RingStep(S, p, J),
         NEW x \in Blocks \ suspect', \A j \in J : ring'[j].blk # x
  PROVE  Kept(x)
<1> DEFINE new == 1..Len(ring')
<1>0. Positions' = new
  BY DEF Positions
<1>1. CASE ~Cached(x)
  <2>1. disk'[x] = disk[x] /\ StoreOf(x) = disk[x]
    BY <1>1, DiskAfter DEF StoreOf
  <2>2. Holding(x)' = {}
    <3> SUFFICES ASSUME NEW j \in new, ring'[j].valid, ring'[j].blk = x PROVE FALSE
      BY <1>0 DEF Holding
    <3>1. From(p[j], j, S) /\ p[j] \in Positions
      BY DEF RingStep
    <3> QED BY <1>1, <3>1 DEF From, Cached, Holding
  <2>3. StoreOf(x)' = disk'[x]
    BY <2>2 DEF StoreOf, Cached
  <2> QED BY <2>1, <2>3 DEF Kept
<1>2. CASE Cached(x)
  <2>1. PICK k \in Positions : ring[k].valid /\ ring[k].blk = x
    BY <1>2, CachedAt
  <2>2. StoreOf(x) = ring[k].data
    BY <2>1, HoldingOne DEF RingInv
  <2>3. disk'[x] \in {disk[x], StoreOf(x)}
    BY <2>1, <2>2, DiskAfter
  <2>4. CASE Holding(x)' = {}
    <3>1. StoreOf(x)' = disk'[x]
      BY <2>4 DEF StoreOf, Cached
    <3>2. CASE k \in S
      <4>1. disk'[x] = ring[k].data
        BY <2>1, <3>2, DiskAfter
      <4> QED BY <2>2, <2>3, <3>1, <4>1 DEF Kept
    <3>3. CASE k \notin S
      <4>1. PICK j \in new : p[j] = k /\ (j \in J => ring'[j].blk = ring[k].blk)
        BY <2>1, <3>3 DEF RingStep
      <4>2. From(k, j, S)
        BY <2>1, <4>1 DEF RingStep
      <4>3. ring'[j].valid /\ ring'[j].blk = x
        BY <2>1, <3>3, <4>2 DEF From
      <4> QED BY <1>0, <2>4, <4>3 DEF Holding
    <3> QED BY <3>2, <3>3
  <2>5. CASE Holding(x)' # {}
    <3>1. PICK j \in new : ring'[j].valid /\ ring'[j].blk = x
      BY <1>0, <2>5 DEF Holding
    <3>2. StoreOf(x)' = ring'[j].data
      BY <1>0, <3>1, HoldingOnePrime DEF RingInv
    <3>3. From(p[j], j, S) /\ p[j] \in Positions
      BY <3>1 DEF RingStep
    <3>4. ring[p[j]].valid /\ ring[p[j]].blk = x /\ ring'[j].data = ring[p[j]].data
      BY <3>1, <3>3 DEF From
    <3>5. p[j] = k
      BY <2>1, <3>3, <3>4 DEF RingInv, NoDuplicates
    <3> QED BY <2>2, <2>3, <3>2, <3>4, <3>5 DEF Kept
  <2> QED BY <2>4, <2>5
<1> QED BY <1>1, <1>2

(* A filled block has its new content. *)
LEMMA NewStored ==
  ASSUME RingInv', NEW S, NEW p, NEW J, RingStep(S, p, J), NEW j \in J,
         NEW b, b = ring'[j].blk
  PROVE  StoreOf(b)' = ring'[j].data
<1>1. j \in Positions' /\ ring'[j].valid
  BY DEF RingStep, Positions, New
<1> QED BY <1>1, HoldingOnePrime DEF RingInv

-----------------------------------------------------------------------------
(* The shapes of the new ring *)

(* move_buffer: where the buffers come from when the one at i becomes the first. *)
FrontOf(i) == [j \in Positions |-> IF j = 1 THEN i ELSE IF j <= i THEN j - 1 ELSE j]

LEMMA RingLen ==
  ASSUME NEW n \in Nat, NEW f \in [1..n -> Buffer]
  PROVE  Len(f) = n
OBVIOUS

LEMMA FrontOfType ==
  ASSUME TypeOK, BuffersKept, NEW i \in Positions
  PROVE  /\ FrontOf(i) \in [Positions -> Positions]
         /\ \A j, k \in Positions : FrontOf(i)[j] = FrontOf(i)[k] => j = k
         /\ \A k \in Positions : \E j \in Positions : FrontOf(i)[j] = k
         /\ FrontOf(i)[1] = i /\ 1 \in Positions
         /\ \A j \in Positions \ {1} : FrontOf(i)[j] # i
<1>1. Positions = 1..Len(ring) /\ Len(ring) \in Nat /\ Len(ring) >= 2
  BY TwoBuffers
<1>2. FrontOf(i) \in [Positions -> Positions]
  BY <1>1 DEF FrontOf
<1>3. \A j, k \in Positions : FrontOf(i)[j] = FrontOf(i)[k] => j = k
  BY <1>1 DEF FrontOf
<1>4. ASSUME NEW k \in Positions PROVE \E j \in Positions : FrontOf(i)[j] = k
  <2>1. CASE k = i
    BY <1>1, <2>1 DEF FrontOf
  <2>2. CASE k < i
    <3>1. k + 1 \in Positions /\ FrontOf(i)[k + 1] = k
      BY <1>1, <2>2 DEF FrontOf
    <3> QED BY <3>1
  <2>3. CASE k > i
    BY <1>1, <2>3 DEF FrontOf
  <2> QED BY <1>1, <2>1, <2>2, <2>3
<1>5. FrontOf(i)[1] = i /\ 1 \in Positions
  BY <1>1 DEF FrontOf
<1> QED BY <1>2, <1>3, <1>4, <1>5

LEMMA ToFrontShape ==
  ASSUME RingInv, NEW i \in Positions, NEW r \in Buffer, NEW t, t = ToFront(i, r)
  PROVE  /\ t \in [Positions -> Buffer] /\ Len(t) = Len(ring) /\ t[1] = r
         /\ \A j \in Positions \ {1} : t[j] = ring[FrontOf(i)[j]]
<1>1. Positions = 1..Len(ring) /\ Len(ring) \in Nat /\ Len(ring) >= 2
  BY TwoBuffers DEF RingInv
<1>2. ring \in [Positions -> Buffer]
  BY DEF RingInv, TypeOK
<1>3. t \in [Positions -> Buffer]
  BY <1>1, <1>2 DEF ToFront
<1>4. Len(t) = Len(ring)
  BY ONLY <1>1, <1>3, RingLen
<1>5. t[1] = r
  BY <1>1 DEF ToFront
<1>6. \A j \in Positions \ {1} : t[j] = ring[FrontOf(i)[j]]
  BY <1>1, <1>2 DEF ToFront, FrontOf
<1> QED BY <1>3, <1>4, <1>5, <1>6

(* A ring in which every buffer stays where it is. *)
LEMMA InPlace ==
  ASSUME RingInv, NEW S \in SUBSET Positions, ring' \in [Positions -> Buffer],
         \A i \in Positions : From(i, i, S)
  PROVE  RingStep(S, [j \in Positions |-> j], {})
<1>1. Len(ring) \in 0..NBuffers /\ Len(ring) \in Nat /\ Positions = 1..Len(ring)
  BY CacheAssumption DEF RingInv, TypeOK, Positions
<1>2. Len(ring') = Len(ring)
  BY <1>1, RingLen
<1> DEFINE p == [j \in Positions |-> j]
<1>3. p \in [Positions -> Positions] /\ \A j \in Positions : p[j] = j
  OBVIOUS
<1> HIDE DEF p
<1>4. 1..Len(ring') = Positions
  BY <1>1, <1>2
<1> QED BY <1>1, <1>2, <1>3, <1>4 DEF RingStep

(* The first buffer is another one, and the rest is the old ring without it. *)
LEMMA FirstChanged ==
  ASSUME RingInv, NEW S \in SUBSET Positions, NEW i \in Positions, NEW r \in Buffer,
         ring' = ToFront(i, r), S \subseteq {i},
         NEW J \in SUBSET {1},
         IF J = {} THEN From(i, 1, S) ELSE New(i, 1),
         J # {} /\ i \notin S /\ ring[i].valid => r.blk = ring[i].blk
  PROVE  RingStep(S, FrontOf(i), J)
<1>1. Len(ring) \in 0..NBuffers /\ Len(ring) \in Nat /\ Positions = 1..Len(ring)
  BY CacheAssumption DEF RingInv, TypeOK, Positions
<1>2. /\ ring' \in [Positions -> Buffer] /\ Len(ring') = Len(ring) /\ ring'[1] = r
      /\ \A j \in Positions \ {1} : ring'[j] = ring[FrontOf(i)[j]]
  BY ToFrontShape
<1> DEFINE p == FrontOf(i)
<1>3. /\ p \in [Positions -> Positions]
      /\ \A j, k \in Positions : p[j] = p[k] => j = k
      /\ \A k \in Positions : \E j \in Positions : p[j] = k
      /\ p[1] = i /\ 1 \in Positions
      /\ \A j \in Positions \ {1} : p[j] # i
  BY FrontOfType DEF RingInv
<1> HIDE DEF p
<1>4. 1..Len(ring') = Positions
  BY <1>1, <1>2
<1>5. \A j \in Positions \ J : From(p[j], j, S)
  <2> SUFFICES ASSUME NEW j \in Positions \ J PROVE From(p[j], j, S)
    OBVIOUS
  <2>1. CASE j = 1
    BY <1>3, <2>1
  <2>2. CASE j # 1
    <3>1. ring'[j] = ring[p[j]] /\ p[j] \notin S
      BY <1>2, <1>3, <2>2 DEF p
    <3> QED BY <3>1 DEF From
  <2> QED BY <2>1, <2>2
<1>6. \A j \in J : New(p[j], j)
  BY <1>3
<1>7. \A k \in Positions \ S : ring[k].valid =>
        \E j \in Positions : p[j] = k /\ (j \in J => ring'[j].blk = ring[k].blk)
  <2> SUFFICES ASSUME NEW k \in Positions \ S, ring[k].valid
               PROVE  \E j \in Positions : p[j] = k /\ (j \in J => ring'[j].blk = ring[k].blk)
    OBVIOUS
  <2>1. PICK j \in Positions : p[j] = k
    BY <1>3
  <2>2. j \in J => ring'[j].blk = ring[k].blk
    BY <1>2, <1>3, <2>1
  <2> QED BY <2>1, <2>2
<1>8. J \subseteq Positions /\ \A j, k \in J : ring'[j].blk = ring'[k].blk => j = k
  BY <1>3
<1>9. RingStep(S, p, J)
  BY ONLY <1>1, <1>2, <1>3, <1>4, <1>5, <1>6, <1>7, <1>8 DEF RingStep
<1> QED BY <1>9 DEF p

(* A buffer that flush1 has written or given up. *)
LEMMA FlushedType ==
  ASSUME RingInv, NEW i \in Positions, NEW o
  PROVE  /\ Flushed(i, o) \in Buffer /\ Invalid(ring[i]) \in Buffer
         /\ Cleared(ring[i]) \in Buffer
         /\ ~Flushed(i, o).dirty
         /\ ~Invalid(ring[i]).valid /\ ~Invalid(ring[i]).dirty
         /\ ~Cleared(ring[i]).valid /\ ~Cleared(ring[i]).dirty
         /\ \A r \in {Flushed(i, o), Invalid(ring[i]), Cleared(ring[i])} :
              r.extra = ring[i].extra
         /\ Flushed(i, o).valid =>
              /\ ring[i].valid
              /\ Flushed(i, o).blk = ring[i].blk /\ Flushed(i, o).fat = ring[i].fat
              /\ Flushed(i, o).data = ring[i].data
<1> DEFINE b == CHOOSE b \in Blocks : DiskOf[b] = DiskOf[ring[i].blk]
<1>1. ring[i] \in Buffer
  BY DEF RingInv, TypeOK
<1>2. b \in Blocks
  BY <1>1 DEF Buffer
<1> DEFINE r == ring[i]
           n == [r EXCEPT !.dirty = FALSE, !.valid = FALSE, !.data = Nothing, !.blk = b]
           c == [n EXCEPT !.fat = FALSE, !.uncache = FALSE]
           w == [r EXCEPT !.dirty = FALSE]
<1>3. Invalid(ring[i]) = n /\ Cleared(ring[i]) = c
  BY DEF Invalid, Cleared
<1>4. (Flushed(i, o) = w /\ ring[i].valid) \/ Flushed(i, o) = n
  BY <1>3 DEF Flushed
<1> HIDE DEF b
<1>5. /\ n \in Buffer /\ ~n.valid /\ ~n.dirty
      /\ n.extra = r.extra /\ c.extra = r.extra /\ w.extra = r.extra
      /\ c \in Buffer /\ ~c.valid /\ ~c.dirty
      /\ w \in Buffer /\ ~w.dirty /\ w.blk = r.blk /\ w.fat = r.fat /\ w.data = r.data
  BY <1>1, <1>2 DEF Buffer
<1> HIDE DEF n, c, w
<1> QED BY <1>3, <1>4, <1>5

LEMMA GotType ==
  ASSUME RingInv, NEW b \in Blocks, NEW d \in Values
  PROVE  /\ Got(b, d) \in Buffer /\ Got(b, d).valid /\ Got(b, d).blk = b
         /\ Got(b, d).data = d /\ ~Got(b, d).uncache /\ (b \in Fat => Got(b, d).fat)
         /\ Got(b, d).dirty = (Cached(b) /\ ring[searchblock(b)].dirty)
         /\ Got(b, d).extra = ring[searchblock(b)].extra
<1>1. ring[searchblock(b)] \in Buffer
  BY SearchType DEF RingInv, TypeOK
<1> QED BY <1>1 DEF Got, Buffer

LEMMA SuspectType ==
  ASSUME RingInv, NEW S \in SUBSET Positions, NEW o
  PROVE  /\ SuspectAfter(S, o) \subseteq Blocks
         /\ InError(S, o) = {} => SuspectAfter(S, o) \subseteq suspect
<1>1. \A i \in Positions : ring[i].blk \in Blocks
  BY DEF RingInv, TypeOK, Buffer
<1>2. BlocksOf(InError(S, o)) \subseteq Blocks
  BY <1>1 DEF BlocksOf, InError, Pending
<1>3. InError(S, o) = {} => BlocksOf(InError(S, o)) = {}
  BY DEF BlocksOf
<1> QED BY <1>2, <1>3 DEF SuspectAfter, RingInv, TypeOK

-----------------------------------------------------------------------------
(* getblk *)

(* getblk has succeeded, and its buffer is first in the ring: r, as it was
   returned or with other contents and marked as dirty. *)
Filled(b, d, r) ==
  /\ r \in Buffer /\ r.valid /\ r.blk = b /\ r.data \in Values
  /\ r.extra = ring[searchblock(b)].extra
  /\ b \in Fat => r.fat
  /\ ~r.dirty => r.data = d /\ ~Got(b, d).dirty

(* Without an error the block was what the store had. *)
ReadWell(b, d, e) ==
  /\ ~e => suspect' \subseteq suspect
  /\ ~e \/ b \notin suspect' => d = StoreOf(b)

(* At most the buffer that the block takes is written. *)
VictimWritten(b) ==
  \E S \in SUBSET {searchblock(b)} : DiskStep(S) /\ (searchblock(b) \notin S => Cached(b))

LEMMA GetblkStep ==
  ASSUME RingInv, NEW b \in Blocks, NEW overwrite, NEW d \in Values, NEW e \in BOOLEAN,
         getblk(b, overwrite, d, e),
         NEW r, Filled(b, d, r), ring'[1] = r
  PROVE  New(searchblock(b), 1) /\ ReadWell(b, d, e) /\ VictimWritten(b)
<1> USE DEF Filled
<1> DEFINE i == searchblock(b)
<1>1. /\ i \in Positions
      /\ ~Cached(b) => i = Victim
      /\ Cached(b) => ring[i].valid /\ ring[i].blk = b /\ StoreOf(b) = ring[i].data
  BY SearchType
<1>0. r.extra = ring[i].extra
  OBVIOUS
<1>2. Got(b, d).dirty = (Cached(b) /\ ring[i].dirty)
  BY GotType
<1>3. \A k \in Positions \ {i} : ring[k].valid => ring[k].blk # b
  <2>1. CASE Cached(b)
    BY <1>1, <2>1 DEF RingInv, NoDuplicates
  <2>2. CASE ~Cached(b)
    BY <2>2 DEF Cached, Holding
  <2> QED BY <2>1, <2>2
<1> HIDE DEF i
<1>4. CASE Cached(b)
  <2>1. d = StoreOf(b) /\ UNCHANGED <<disk, mirror, suspect>>
    BY <1>4 DEF getblk
  <2>2. DiskStep({})
    BY <2>1, NothingWritten DEF RingInv, TypeOK
  <2>3. ~r.dirty /\ b \notin suspect' => r.data = disk'[b]
    BY <1>1, <1>2, <1>4, <2>1 DEF RingInv, CleanIsDisk
  <2>4. New(i, 1)
    BY <1>0, <1>3, <2>3 DEF New
  <2>5. {} \in SUBSET {i}
    OBVIOUS
  <2> QED BY <1>4, <2>1, <2>2, <2>4, <2>5 DEF i, ReadWell, VictimWritten
<1>5. CASE ~Cached(b)
  <2>0. i = Victim
    BY <1>1, <1>5
  <2>1. PICK o \in [Pending({i}) -> {"done", "ignored"}], unread \in BOOLEAN :
          /\ e = (unread \/ InError({i}, o) # {})
          /\ d = disk[b] \/ unread
          /\ suspect' = SuspectAfter({i}, o) \union (IF unread THEN {b} ELSE {})
          /\ flush1({i}, o)
    <3> HIDE DEF i
    <3> QED BY <1>5, <2>0, Zenon DEF getblk, Doubt
  <2>2. {i} \in SUBSET Positions
    BY <1>1
  <2>3. /\ SuspectAfter({i}, o) \subseteq suspect' /\ suspect' \subseteq Blocks
        /\ ~e => suspect' \subseteq suspect /\ d = disk[b]
    BY <2>1, <2>2, SuspectType
  <2>4. DiskStep({i})
    BY <2>1, <2>2, <2>3, FlushWrites
  <2>5. ~e \/ b \notin suspect' => d = StoreOf(b)
    BY <1>5, <2>1, <2>3 DEF StoreOf
  <2>6. ASSUME ~r.dirty, b \notin suspect' PROVE r.data = disk'[b]
    <3>1. r.data = disk[b]
      BY <2>1, <2>6
    <3>2. disk'[b] = disk[b]
      BY <1>5, <2>2, <2>4, <2>6, DiskAfter
    <3> QED BY <3>1, <3>2
  <2>7. New(i, 1)
    BY <1>0, <1>3, <2>6 DEF New
  <2>8. {i} \in SUBSET {i} /\ i \in {i}
    OBVIOUS
  <2> QED BY <2>3, <2>4, <2>5, <2>7, <2>8 DEF i, ReadWell, VictimWritten
<1> QED BY <1>4, <1>5

(* getblk has failed: nothing that can be relied upon has changed. *)
LEMMA FailStep ==
  ASSUME RingInv, NEW b, NEW overwrite, getblkFails(b, overwrite), held' \subseteq Fat
  PROVE  /\ RingInv'
         /\ out' = Error
         /\ \A x \in Blocks \ suspect' : Kept(x)
<1> DEFINE i == Victim
<1>1. i \in Positions /\ {i} \in SUBSET Positions
  BY VictimType DEF RingInv
<1>2. ring[i] \in Buffer
  BY <1>1 DEF RingInv, TypeOK
<1>3. out' = Error
  BY DEF getblkFails
<1>4. \E r \in Buffer : ring' = ToFront(i, r) /\ From(i, 1, {i}) /\ DiskStep({i})
  <2>1. PICK o \in [Pending({i}) -> Outcomes] :
       \/ /\ suspect' = SuspectAfter({i}, o)
          /\ ring' = ToFront(i, [Flushed(i, o) EXCEPT !.uncache = TRUE])
          /\ flush1({i}, o)
       \/ /\ suspect' = SuspectAfter({i}, o) \union
                          (IF ring[i].valid THEN {ring[i].blk} ELSE {})
          /\ \E junk \in IF ring[i].valid THEN Values ELSE {Nothing} :
               ring' = ToFront(i, [Flushed(i, o) EXCEPT !.uncache = TRUE, !.data = junk])
          /\ flush1({i}, o)
    BY DEF getblkFails, Doubt
  <2>2. SuspectAfter({i}, o) \subseteq suspect' /\ suspect' \subseteq Blocks
    BY <1>1, <1>2, <2>1, SuspectType DEF Buffer
  <2>3. DiskStep({i})
    BY <1>1, <2>1, <2>2, FlushWrites
  <2> DEFINE q == Flushed(i, o)
  <2>4. /\ q \in Buffer /\ ~q.dirty /\ q.extra = ring[i].extra
        /\ q.valid => /\ ring[i].valid /\ q.blk = ring[i].blk /\ q.fat = ring[i].fat
                      /\ q.data = ring[i].data
    BY <1>1, FlushedType
  <2> HIDE DEF i, q
  <2>5. CASE ring' = ToFront(i, [q EXCEPT !.uncache = TRUE])
    <3> DEFINE r == [q EXCEPT !.uncache = TRUE]
    <3>1. /\ r \in Buffer /\ r.dirty = q.dirty /\ r.valid = q.valid
          /\ r.blk = q.blk /\ r.fat = q.fat /\ r.data = q.data /\ r.extra = q.extra
      BY <2>4 DEF Buffer
    <3> HIDE DEF r
    <3>2. ring' = ToFront(i, r)
      BY <2>5 DEF r
    <3>3. ring'[1] = r
      BY <1>1, <3>1, <3>2, ToFrontShape
    <3>4. From(i, 1, {i})
      BY <2>4, <3>1, <3>3 DEF From
    <3> QED BY <2>3, <3>1, <3>2, <3>4
  <2>6. ASSUME NEW junk \in IF ring[i].valid THEN Values ELSE {Nothing},
               ring' = ToFront(i, [q EXCEPT !.uncache = TRUE, !.data = junk]),
               ring[i].valid => ring[i].blk \in suspect'
        PROVE  \E r \in Buffer : ring' = ToFront(i, r) /\ From(i, 1, {i}) /\ DiskStep({i})
    <3> DEFINE r == [q EXCEPT !.uncache = TRUE, !.data = junk]
    <3>0. junk \in Values \union {Nothing} /\ (ring[i].valid => junk \in Values)
      OBVIOUS
    <3>1. /\ r \in Buffer /\ r.dirty = q.dirty /\ r.valid = q.valid
          /\ r.blk = q.blk /\ r.fat = q.fat /\ r.data = junk /\ r.extra = q.extra
      BY ONLY <2>4, <3>0 DEF Buffer
    <3> HIDE DEF r
    <3>2. ring' = ToFront(i, r)
      BY <2>6 DEF r
    <3>3. ring'[1] = r
      BY <1>1, <3>1, <3>2, ToFrontShape
    <3>4. From(i, 1, {i})
      BY <2>4, <2>6, <3>0, <3>1, <3>3 DEF From
    <3> QED BY <2>3, <3>1, <3>2, <3>4
  <2> QED BY <2>1, <2>5, <2>6 DEF q
<1>5. PICK r \in Buffer : ring' = ToFront(i, r) /\ From(i, 1, {i}) /\ DiskStep({i})
  BY <1>4
<1> HIDE DEF i
<1>6. RingStep({i}, FrontOf(i), {})
  BY <1>1, <1>5, FirstChanged
<1>7. RingInv'
  BY <1>1, <1>3, <1>5, <1>6, RingKept
<1>8. \A x \in Blocks \ suspect' : Kept(x)
  BY <1>1, <1>5, <1>6, <1>7, BlocksKept
<1> QED BY <1>3, <1>7, <1>8

(* An access to block b through the cache. *)
Accessed(b, r) ==
  /\ RingInv'
  /\ ring'[1] = r /\ StoreOf(b)' = r.data
  /\ \A x \in Blocks \ (suspect' \union {b}) : Kept(x)
  /\ b \notin suspect' => disk'[b] \in {disk[b], StoreOf(b)}

LEMMA AccessStep ==
  ASSUME RingInv, NEW b \in Blocks, NEW overwrite, NEW d \in Values, NEW e \in BOOLEAN,
         getblk(b, overwrite, d, e),
         NEW r, Filled(b, d, r), ring' = ToFront(searchblock(b), r),
         held' \subseteq Fat, out' \in Values \union {Nothing, Error, Outside}
  PROVE  Accessed(b, r) /\ ReadWell(b, d, e)
<1> DEFINE i == searchblock(b)
<1>0. r \in Buffer /\ r.blk = b
  BY DEF Filled
<1>1. /\ i \in Positions
      /\ Cached(b) => ring[i].valid /\ ring[i].blk = b /\ StoreOf(b) = ring[i].data
  BY SearchType
<1>2. ring'[1] = r
  BY <1>0, <1>1, ToFrontShape
<1>3. New(i, 1) /\ ReadWell(b, d, e) /\ VictimWritten(b)
  BY <1>2, GetblkStep
<1>4. PICK S \in SUBSET {i} : DiskStep(S) /\ (i \notin S => Cached(b))
  BY <1>3 DEF VictimWritten
<1>5. S \in SUBSET Positions
  BY <1>1
<1> HIDE DEF i
<1>6. RingStep(S, FrontOf(i), {1})
  BY <1>0, <1>1, <1>3, <1>4, <1>5, FirstChanged DEF i
<1>7. RingInv'
  BY <1>4, <1>5, <1>6, RingKept
<1>8. StoreOf(b)' = r.data
  BY <1>0, <1>2, <1>6, <1>7, NewStored
<1>9. ASSUME NEW x \in Blocks \ (suspect' \union {b}) PROVE Kept(x)
  BY <1>0, <1>2, <1>4, <1>5, <1>6, <1>7, BlocksKept
<1>10. ASSUME b \notin suspect' PROVE disk'[b] \in {disk[b], StoreOf(b)}
  BY <1>1, <1>4, <1>5, <1>10, DiskAfter
<1> QED BY <1>2, <1>3, <1>7, <1>8, <1>9, <1>10 DEF Accessed

-----------------------------------------------------------------------------
(* The steps of BlockStore *)

LEMMA KeepsSome ==
  ASSUME NEW W, \A x \in Blocks \ (suspect' \union W) : Kept(x)
  PROVE  BS!KeepsAllBut(W)
BY DEF BS!KeepsAllBut, BS!Keeps, Store, Kept

LEMMA KeepsAll ==
  ASSUME \A x \in Blocks \ suspect' : Kept(x)
  PROVE  BS!KeepsAllBut({})
BY DEF BS!KeepsAllBut, BS!Keeps, Store, Kept

LEMMA FailIsRead ==
  ASSUME NEW b \in Blocks, out' = Error, \A x \in Blocks \ suspect' : Kept(x)
  PROVE  BS!Next
<1>1. BS!Read(b)
  BY KeepsAll DEF BS!Read
<1> QED BY <1>1 DEF BS!Next

LEMMA ReadStep ==
  ASSUME CacheInv, NEW b \in Blocks, Read(b)
  PROVE  CacheInv' /\ BS!Next
<1>1. RingInv /\ held = {} /\ held' = {}
  BY DEF CacheInv, Read
<1>2. HeldInv'
  BY <1>1 DEF HeldInv
<1>3. CASE getblkFails(b, FALSE)
  BY <1>1, <1>2, <1>3, FailStep, FailIsRead DEF CacheInv
<1>4. ASSUME NEW d \in Values, NEW e \in BOOLEAN, NEW u \in Released(b),
             getblk(b, FALSE, d, e),
             ring' = ToFront(searchblock(b), [Got(b, d) EXCEPT !.uncache = u]),
             Result(e, d)
      PROVE  CacheInv' /\ BS!Next
  <2> DEFINE r == [Got(b, d) EXCEPT !.uncache = u]
  <2>1. u \in BOOLEAN
    BY DEF Released
  <2>2. Filled(b, d, r) /\ r.data = d
    <3> DEFINE g == Got(b, d)
    <3>1. /\ g \in Buffer /\ g.valid /\ g.blk = b /\ g.data = d /\ (b \in Fat => g.fat)
          /\ g.extra = ring[searchblock(b)].extra
      BY <1>1, GotType
    <3> HIDE DEF g
    <3>2. /\ [g EXCEPT !.uncache = u] \in Buffer
          /\ [g EXCEPT !.uncache = u].valid = g.valid
          /\ [g EXCEPT !.uncache = u].blk = g.blk
          /\ [g EXCEPT !.uncache = u].data = g.data
          /\ [g EXCEPT !.uncache = u].fat = g.fat
          /\ [g EXCEPT !.uncache = u].dirty = g.dirty
          /\ [g EXCEPT !.uncache = u].extra = g.extra
      BY <2>1, <3>1 DEF Buffer
    <3> QED BY <3>1, <3>2 DEF g, Filled
  <2> HIDE DEF r
  <2>3. ring' = ToFront(searchblock(b), r)
    BY <1>4 DEF r
  <2>4. IF e THEN out' = Error ELSE out' = d
    BY <1>4 DEF Result
  <2>5. Accessed(b, r) /\ ReadWell(b, d, e)
    <3>1. held' \subseteq Fat /\ out' \in Values \union {Nothing, Error, Outside}
      BY <1>1, <2>4
    <3> QED BY ONLY <1>1, <1>4, <2>2, <2>3, <3>1, AccessStep, b \in Blocks
  <2>6. \A x \in Blocks \ suspect' : Kept(x)
    BY <2>2, <2>5 DEF Kept, Accessed, ReadWell
  <2>7. BS!Read(b)
    <3>1. BS!KeepsAllBut({})
      BY <2>6, KeepsAll
    <3>2. CASE e
      BY <2>4, <3>1, <3>2 DEF BS!Read
    <3>3. CASE ~e
      <4>1. out' \in Values /\ out' = Store[b]
        BY <2>4, <2>5, <3>3 DEF Store, ReadWell
      <4>2. BS!Sound
        BY <2>5, <3>3, <4>1, CacheAssumption DEF BS!Sound, ReadWell
      <4> QED BY <3>1, <4>1, <4>2 DEF BS!Read
    <3> QED BY <3>2, <3>3
  <2> QED BY <1>2, <2>5, <2>7 DEF CacheInv, BS!Next, Accessed
<1> QED BY <1>3, <1>4 DEF Read

LEMMA WriteStep ==
  ASSUME CacheInv, NEW b \in Blocks, NEW v \in Values, NEW overwrite, Write(b, v, overwrite)
  PROVE  CacheInv' /\ BS!Next
<1>1. RingInv /\ held = {} /\ held' = {}
  BY DEF CacheInv, Write
<1>2. HeldInv'
  BY <1>1 DEF HeldInv
<1>3. CASE getblkFails(b, overwrite)
  BY <1>1, <1>2, <1>3, FailStep, FailIsRead DEF CacheInv
<1>4. ASSUME NEW e \in BOOLEAN, NEW u \in Released(b),
             getblk(b, overwrite, StoreOf(b), e),
             ring' = ToFront(searchblock(b), [Got(b, v) EXCEPT !.dirty = TRUE, !.uncache = u]),
             Result(e, Nothing)
      PROVE  CacheInv' /\ BS!Next
  <2> DEFINE r == [Got(b, v) EXCEPT !.dirty = TRUE, !.uncache = u]
             d == StoreOf(b)
  <2>1. u \in BOOLEAN /\ d \in Values
    BY <1>1, StoreType DEF Released
  <2>2. Filled(b, d, r) /\ r.data = v
    <3> DEFINE g == Got(b, v)
    <3>1. /\ g \in Buffer /\ g.valid /\ g.blk = b /\ g.data = v /\ (b \in Fat => g.fat)
          /\ g.extra = ring[searchblock(b)].extra
      BY <1>1, GotType
    <3> HIDE DEF g
    <3>2. /\ [g EXCEPT !.dirty = TRUE, !.uncache = u] \in Buffer
          /\ [g EXCEPT !.dirty = TRUE, !.uncache = u].valid = g.valid
          /\ [g EXCEPT !.dirty = TRUE, !.uncache = u].blk = g.blk
          /\ [g EXCEPT !.dirty = TRUE, !.uncache = u].data = g.data
          /\ [g EXCEPT !.dirty = TRUE, !.uncache = u].fat = g.fat
          /\ [g EXCEPT !.dirty = TRUE, !.uncache = u].dirty
          /\ [g EXCEPT !.dirty = TRUE, !.uncache = u].extra = g.extra
      BY <2>1, <3>1 DEF Buffer
    <3> QED BY <3>1, <3>2 DEF g, Filled
  <2> HIDE DEF r, d
  <2>3. ring' = ToFront(searchblock(b), r) /\ getblk(b, overwrite, d, e)
    BY <1>4 DEF r, d
  <2>4. IF e THEN out' = Error ELSE out' = Nothing
    BY <1>4 DEF Result
  <2>5. Accessed(b, r) /\ ReadWell(b, d, e)
    <3>1. held' \subseteq Fat /\ out' \in Values \union {Nothing, Error, Outside}
      BY <1>1, <2>4
    <3> QED BY ONLY <1>1, <2>1, <2>2, <2>3, <3>1, AccessStep, b \in Blocks, e \in BOOLEAN
  <2>6. BS!Write([x \in {b} |-> v])
    <3> DEFINE f == [x \in {b} |-> v]
    <3>1. DOMAIN f = {b} /\ f[b] = v
      OBVIOUS
    <3>2. BS!KeepsAllBut({b})
      BY <2>5, KeepsSome DEF Accessed
    <3>3. Store'[b] = v
      BY <2>2, <2>5 DEF Accessed, Store
    <3>4. out' = Nothing /\ ~e => BS!Sound
      BY <2>5, CacheAssumption DEF ReadWell, BS!Sound
    <3> HIDE DEF f
    <3>5. BS!Write(f)
      BY <2>4, <3>1, <3>2, <3>3, <3>4 DEF BS!Write
    <3> QED BY <3>5 DEF f
  <2> QED BY <1>2, <2>5, <2>6 DEF CacheInv, BS!Next, Accessed
<1> QED BY <1>3, <1>4 DEF Write

LEMMA LinkFirstStep ==
  ASSUME CacheInv, NEW f \in Fat, LinkFatFirst(f)
  PROVE  CacheInv' /\ BS!Next
<1>1. RingInv /\ held = {} /\ f \in Blocks
  BY CacheAssumption DEF CacheInv, LinkFatFirst
<1>2. CASE getblkFails(f, FALSE) /\ UNCHANGED held
  <2>1. HeldInv' /\ held' \subseteq Fat
    BY <1>1, <1>2 DEF HeldInv
  <2> QED BY <1>1, <1>2, <2>1, FailStep, FailIsRead DEF CacheInv
<1>3. ASSUME NEW d \in Values, NEW e \in BOOLEAN,
             getblk(f, FALSE, d, e),
             ring' = ToFront(searchblock(f), Got(f, d)),
             held' = {f},
             Result(e, d)
      PROVE  CacheInv' /\ BS!Next
  <2> DEFINE r == Got(f, d)
  <2>1. Filled(f, d, r) /\ r.data = d /\ ~r.uncache
    BY <1>1, GotType DEF Filled
  <2> HIDE DEF r
  <2>2. ring' = ToFront(searchblock(f), r)
    BY <1>3 DEF r
  <2>3. IF e THEN out' = Error ELSE out' = d
    BY <1>3 DEF Result
  <2>4. Accessed(f, r) /\ ReadWell(f, d, e)
    <3>1. held' \subseteq Fat /\ out' \in Values \union {Nothing, Error, Outside}
      BY <1>3, <2>3
    <3> QED BY ONLY <1>1, <1>3, <2>1, <2>2, <3>1, AccessStep
  <2>5. HeldInv'
    BY <1>3, <2>1, <2>4 DEF HeldInv, Accessed, Filled
  <2>6. \A x \in Blocks \ suspect' : Kept(x)
    BY <2>1, <2>4 DEF Kept, Accessed, ReadWell
  <2>7. BS!Read(f)
    <3>1. BS!KeepsAllBut({})
      BY <2>6, KeepsAll
    <3>2. CASE e
      BY <2>3, <3>1, <3>2 DEF BS!Read
    <3>3. CASE ~e
      <4>1. out' \in Values /\ out' = Store[f]
        BY <1>1, <2>3, <2>4, <3>3 DEF Store, ReadWell
      <4>2. BS!Sound
        BY <2>4, <3>3, <4>1, CacheAssumption DEF BS!Sound, ReadWell
      <4> QED BY <3>1, <4>1, <4>2 DEF BS!Read
    <3> QED BY <3>2, <3>3
  <2> QED BY <1>1, <2>4, <2>5, <2>7 DEF CacheInv, BS!Next, Accessed
<1> QED BY <1>2, <1>3 DEF LinkFatFirst

(* The buffer that link_fat holds on to is not the one that searchblock takes
   for another FAT sector. *)
LEMMA HeldNotTaken ==
  ASSUME CacheInv, NEW f \in held, NEW g, g # f
  PROVE  searchblock(g) # 1
<1>1. RingInv /\ ring[1].valid /\ ring[1].blk = f /\ ring[1].fat /\ ~ring[1].uncache
  BY DEF CacheInv, HeldInv
<1>2. CASE Cached(g)
  BY <1>1, <1>2, SearchType
<1>3. CASE ~Cached(g)
  BY <1>1, <1>3, SearchType, VictimType DEF RingInv
<1> QED BY <1>2, <1>3

(* The first two buffers of the new ring have been changed: the one that getblk
   returned and the one that was first before. *)
LEMMA FirstTwoChanged ==
  ASSUME RingInv, NEW S, NEW i \in Positions, i # 1, S \subseteq {i},
         NEW r \in Buffer, NEW q \in Buffer,
         ring' = [ToFront(i, r) EXCEPT ![2] = q],
         New(i, 1), New(1, 2), r.blk # q.blk, q.blk = ring[1].blk,
         i \notin S => r.blk = ring[i].blk
  PROVE  RingStep(S, FrontOf(i), {1, 2}) /\ ring'[1] = r /\ ring'[2] = q
<1>1. /\ Len(ring) \in 0..NBuffers /\ Len(ring) \in Nat /\ Len(ring) >= 2
      /\ Positions = 1..Len(ring)
  BY TwoBuffers DEF RingInv
<1> DEFINE t == ToFront(i, r)
<1>2. /\ t \in [Positions -> Buffer] /\ t[1] = r
      /\ \A j \in Positions \ {1} : t[j] = ring[FrontOf(i)[j]]
  BY ToFrontShape
<1> HIDE DEF t
<1>3. ring' = [t EXCEPT ![2] = q]
  BY DEF t
<1>4. /\ ring' \in [Positions -> Buffer] /\ ring'[1] = r /\ ring'[2] = q
      /\ \A j \in Positions \ {1, 2} : ring'[j] = ring[FrontOf(i)[j]]
  BY ONLY <1>1, <1>2, <1>3, r \in Buffer, q \in Buffer
<1>5. Len(ring') = Len(ring)
  BY ONLY <1>1, <1>4, RingLen
<1>6. 1..Len(ring') = Positions
  BY <1>1, <1>5
<1>7. FrontOf(i)[2] = 1 /\ 2 \in Positions
  BY <1>1 DEF FrontOf
<1> DEFINE p == FrontOf(i)
<1>8. /\ p \in [Positions -> Positions]
      /\ \A j, k \in Positions : p[j] = p[k] => j = k
      /\ \A k \in Positions : \E j \in Positions : p[j] = k
      /\ p[1] = i /\ 1 \in Positions /\ p[2] = 1
      /\ \A j \in Positions \ {1} : p[j] # i
  BY <1>7, FrontOfType DEF RingInv
<1>9. \A j \in Positions \ {1, 2} : ring'[j] = ring[p[j]]
  BY <1>4
<1> HIDE DEF p
<1>10. \A j \in Positions \ {1, 2} : From(p[j], j, S)
  BY <1>8, <1>9 DEF From
<1>11. \A j \in {1, 2} : New(p[j], j)
  BY <1>8
<1>12. \A k \in Positions \ S : ring[k].valid =>
         \E j \in Positions : p[j] = k /\ (j \in {1, 2} => ring'[j].blk = ring[k].blk)
  <2> SUFFICES ASSUME NEW k \in Positions \ S
               PROVE  \E j \in Positions :
                        p[j] = k /\ (j \in {1, 2} => ring'[j].blk = ring[k].blk)
    OBVIOUS
  <2>1. PICK j \in Positions : p[j] = k
    BY <1>8
  <2>2. j = 1 => ring'[j].blk = ring[k].blk
    BY <1>4, <1>8, <2>1
  <2>3. j = 2 => ring'[j].blk = ring[k].blk
    BY <1>4, <1>8, <2>1
  <2> QED BY <2>1, <2>2, <2>3
<1>13. /\ {1, 2} \subseteq Positions
       /\ \A j, k \in {1, 2} : ring'[j].blk = ring'[k].blk => j = k
  BY <1>4, <1>7, <1>8
<1>14. RingStep(S, p, {1, 2})
  BY ONLY <1>1, <1>4, <1>5, <1>6, <1>8, <1>10, <1>11, <1>12, <1>13 DEF RingStep
<1> QED BY <1>4, <1>14 DEF p

LEMMA LinkSecondStep ==
  ASSUME CacheInv, NEW f \in Fat, NEW g \in Fat, NEW v \in Values, NEW w \in Values,
         LinkFatSecond(f, g, v, w)
  PROVE  CacheInv' /\ BS!Next
<1>1. /\ RingInv /\ held = {f} /\ held' = {} /\ g # f
      /\ f \in Blocks /\ g \in Blocks
  BY CacheAssumption DEF CacheInv, LinkFatSecond
<1>2. HeldInv' /\ held' \subseteq Fat
  BY <1>1 DEF HeldInv
<1>3. CASE getblkFails(g, FALSE)
  BY <1>1, <1>2, <1>3, FailStep, FailIsRead DEF CacheInv
<1>4. ASSUME NEW e \in BOOLEAN,
             getblk(g, FALSE, StoreOf(g), e),
             ring' = [ToFront(searchblock(g), [Got(g, w) EXCEPT !.dirty = TRUE])
                        EXCEPT ![IF searchblock(g) = 1 THEN 1 ELSE 2] =
                          [@ EXCEPT !.data = v, !.dirty = TRUE, !.valid = TRUE]],
             Result(e, Nothing)
      PROVE  CacheInv' /\ BS!Next
  <2> DEFINE i == searchblock(g)
             r == [Got(g, w) EXCEPT !.dirty = TRUE]
             q == [ring[1] EXCEPT !.data = v, !.dirty = TRUE, !.valid = TRUE]
             d == StoreOf(g)
  <2>1. /\ i \in Positions /\ i # 1 /\ 1 \in Positions
        /\ Cached(g) => ring[i].valid /\ ring[i].blk = g
        /\ d \in Values
        /\ ring[1].valid /\ ring[1].blk = f /\ ring[1].fat
    <3>1. 1 \in Positions
      BY <1>1, FrontOfType, SearchType DEF RingInv
    <3> QED BY <1>1, <3>1, SearchType, HeldNotTaken, StoreType DEF CacheInv, HeldInv
  <2>2. Filled(g, d, r) /\ r.data = w
    <3> DEFINE h == Got(g, w)
    <3>1. /\ h \in Buffer /\ h.valid /\ h.blk = g /\ h.data = w /\ (g \in Fat => h.fat)
          /\ h.extra = ring[searchblock(g)].extra
      BY <1>1, GotType
    <3> HIDE DEF h
    <3>2. /\ [h EXCEPT !.dirty = TRUE] \in Buffer
          /\ [h EXCEPT !.dirty = TRUE].valid = h.valid
          /\ [h EXCEPT !.dirty = TRUE].blk = h.blk
          /\ [h EXCEPT !.dirty = TRUE].data = h.data
          /\ [h EXCEPT !.dirty = TRUE].fat = h.fat
          /\ [h EXCEPT !.dirty = TRUE].dirty
          /\ [h EXCEPT !.dirty = TRUE].extra = h.extra
      BY <3>1 DEF Buffer
    <3> QED BY <3>1, <3>2 DEF h, Filled
  <2>3. /\ q \in Buffer /\ q.valid /\ q.blk = f /\ q.data = v /\ q.dirty
        /\ q.fat = ring[1].fat /\ q.extra = ring[1].extra
    <3>1. ring[1] \in Buffer
      BY <1>1, <2>1 DEF RingInv, TypeOK
    <3> QED BY ONLY <2>1, <3>1, v \in Values DEF Buffer
  <2> DEFINE t == ToFront(i, r)
  <2>4. ring' = [t EXCEPT ![2] = [t[2] EXCEPT !.data = v, !.dirty = TRUE, !.valid = TRUE]]
    BY <1>4, <2>1
  <2>5. t[2] = ring[1] /\ t \in [Positions -> Buffer] /\ 2 \in Positions /\ t[1] = r
    <3>1. /\ Positions = 1..Len(ring) /\ Len(ring) \in Nat /\ Len(ring) >= 2
      BY <1>1, TwoBuffers DEF RingInv
    <3>2. r \in Buffer
      BY <2>2 DEF Filled
    <3> HIDE DEF i, r
    <3>3. /\ t \in [Positions -> Buffer] /\ t[1] = r
          /\ \A j \in Positions \ {1} : t[j] = ring[FrontOf(i)[j]]
      BY <1>1, <2>1, <3>2, ToFrontShape
    <3>4. FrontOf(i)[2] = 1 /\ 2 \in Positions
      BY <2>1, <3>1 DEF FrontOf
    <3> QED BY <3>3, <3>4
  <2> HIDE DEF i, r, d, t
  <2>6. ring' = [t EXCEPT ![2] = q]
    BY <2>4, <2>5
  <2> HIDE DEF q
  <2>7. ring'[1] = r /\ ring'[2] = q
    BY ONLY <2>5, <2>6, <2>1
  <2>8. New(i, 1) /\ ReadWell(g, d, e) /\ VictimWritten(g)
    <3>1. getblk(g, FALSE, d, e)
      BY <1>4 DEF d
    <3> QED BY ONLY <1>1, <2>1, <2>2, <2>7, <3>1, GetblkStep, e \in BOOLEAN DEF i
  <2>9. PICK S \in SUBSET {i} : DiskStep(S) /\ (i \notin S => Cached(g))
    BY <2>8 DEF VictimWritten, i
  <2>10. New(1, 2)
    BY <1>1, <2>1, <2>3, <2>7 DEF New, RingInv, NoDuplicates
  <2>11. RingStep(S, FrontOf(i), {1, 2})
    <3>1. r \in Buffer /\ r.blk = g
      BY <2>2 DEF Filled
    <3>2. i \notin S => r.blk = ring[i].blk
      BY <2>1, <2>9, <3>1
    <3>3. S \subseteq {i} /\ r.blk # q.blk /\ q.blk = ring[1].blk
      BY <1>1, <2>1, <2>3, <3>1
    <3>4. ring' = [ToFront(i, r) EXCEPT ![2] = q]
      BY <2>6 DEF t
    <3> QED BY ONLY <1>1, <2>1, <2>3, <2>8, <2>10, <3>1, <3>2, <3>3, <3>4, FirstTwoChanged
  <2>12. IF e THEN out' = Error ELSE out' = Nothing
    BY <1>4 DEF Result
  <2>13. S \in SUBSET Positions /\ out' \in Values \union {Nothing, Error, Outside}
    BY <2>1, <2>12
  <2>14. RingInv'
    BY ONLY <1>1, <1>2, <2>9, <2>11, <2>13, RingKept
  <2>15. StoreOf(g)' = w /\ StoreOf(f)' = v
    <3>1. r.blk = g
      BY <2>2 DEF Filled
    <3> QED BY <2>2, <2>3, <2>7, <2>11, <2>14, <3>1, NewStored
  <2>16. \A x \in Blocks \ (suspect' \union {f, g}) : Kept(x)
    <3>1. r.blk = g
      BY <2>2 DEF Filled
    <3>2. \A j \in {1, 2} : ring'[j].blk \in {f, g}
      BY <2>3, <2>7, <3>1
    <3> HIDE DEF RingStep
    <3> QED BY <1>1, <2>9, <2>11, <2>13, <2>14, <3>2, BlocksKept
  <2>17. BS!Write([x \in {f, g} |-> IF x = f THEN v ELSE w])
    <3> DEFINE c == [x \in {f, g} |-> IF x = f THEN v ELSE w]
    <3>1. DOMAIN c = {f, g} /\ c[f] = v /\ c[g] = w
      BY <1>1
    <3>2. BS!KeepsAllBut({f, g})
      BY <2>16, KeepsSome
    <3>3. Store'[f] = v /\ Store'[g] = w
      BY <1>1, <2>15 DEF Store
    <3>4. out' = Nothing /\ ~e => BS!Sound
      BY <2>8, CacheAssumption DEF ReadWell, BS!Sound
    <3> HIDE DEF c
    <3>5. BS!Write(c)
      BY ONLY <2>12, <3>1, <3>2, <3>3, <3>4 DEF BS!Write
    <3> QED BY <3>5 DEF c
  <2>18. BS!Next
    BY <1>1, <2>17 DEF BS!Next
  <2> QED BY <1>2, <2>14, <2>18 DEF CacheInv
<1> QED BY <1>3, <1>4 DEF LinkFatSecond

-----------------------------------------------------------------------------
(* Flushing *)

(* The buffers S are written, and none has been filled. *)
FlushStep(S, o) ==
  /\ suspect' = SuspectAfter(S, o)
  /\ flush1(S, o)
  /\ \E p : RingStep(S, p, {})

LEMMA FlushKeeps ==
  ASSUME RingInv, NEW S \in SUBSET Positions, NEW o, FlushStep(S, o),
         held' = {}, out' \in Values \union {Nothing, Error, Outside}
  PROVE  /\ CacheInv' /\ DiskStep(S)
         /\ InError(S, o) = {} => suspect' \subseteq suspect
         /\ BS!KeepsAllBut({})
<1>1. PICK p : RingStep(S, p, {})
  BY DEF FlushStep
<1>2. SuspectAfter(S, o) \subseteq suspect' /\ suspect' \subseteq Blocks
  BY SuspectType DEF FlushStep
<1>3. DiskStep(S)
  BY <1>2, FlushWrites DEF FlushStep
<1>4. RingInv'
  BY <1>1, <1>3, RingKept
<1>5. \A x \in Blocks \ suspect' : Kept(x)
  BY <1>1, <1>3, <1>4, BlocksKept
<1>6. HeldInv'
  BY DEF HeldInv
<1>7. InError(S, o) = {} => suspect' \subseteq suspect
  BY SuspectType DEF FlushStep
<1> QED BY <1>3, <1>4, <1>5, <1>6, <1>7, KeepsAll DEF CacheInv

(* A block is on the disk when no buffer outside S holds it. *)
LEMMA OnDisk ==
  ASSUME RingInv, NEW S \in SUBSET Positions, DiskStep(S), NEW x \in Blocks \ suspect',
         \A k \in Positions : ring[k].valid /\ ring[k].blk = x => k \in S
  PROVE  disk'[x] = StoreOf(x)
<1>1. CASE ~Cached(x)
  BY <1>1, DiskAfter DEF StoreOf
<1>2. CASE Cached(x)
  <2>1. PICK k \in Positions : ring[k].valid /\ ring[k].blk = x
    BY <1>2, CachedAt
  <2>2. StoreOf(x) = ring[k].data
    BY <2>1, HoldingOne DEF RingInv
  <2> QED BY <2>1, <2>2, DiskAfter
<1> QED BY <1>1, <1>2

LEMMA FlushedRingStep ==
  ASSUME RingInv, NEW S \in SUBSET Positions, NEW o, ring' = FlushedRing(S, o)
  PROVE  \E p : RingStep(S, p, {})
<1>1. \A i \in Positions : ring[i] \in Buffer
  BY DEF RingInv, TypeOK
<1>2. \A i \in Positions : Flushed(i, o) \in Buffer
  BY FlushedType
<1>3. ring' \in [Positions -> Buffer]
  BY <1>1, <1>2 DEF FlushedRing
<1>4. ASSUME NEW i \in Positions PROVE From(i, i, S)
  <2>1. CASE i \in S
    <3>1. ring'[i] = Flushed(i, o)
      BY <2>1 DEF FlushedRing
    <3> QED BY <2>1, <3>1, FlushedType DEF From
  <2>2. CASE i \notin S
    <3>1. ring'[i] = ring[i]
      BY <2>2 DEF FlushedRing
    <3> QED BY <2>2, <3>1 DEF From
  <2> QED BY <2>1, <2>2
<1> QED BY <1>3, <1>4, InPlace

LEMMA FlushBuffersStep ==
  ASSUME CacheInv, NEW d \in Disks, flush_buffers(d)
  PROVE  CacheInv' /\ BS!Next
<1> DEFINE S == UnitBuffers(d)
<1>1. RingInv /\ held' = {} /\ S \in SUBSET Positions
  BY DEF CacheInv, flush_buffers, UnitBuffers
<1>2. PICK o \in [Pending(S) -> Outcomes] :
        /\ suspect' = SuspectAfter(S, o) /\ flush1(S, o) /\ ring' = FlushedRing(S, o)
        /\ Result(InError(S, o) # {}, Nothing)
  BY DEF flush_buffers, Doubt
<1> HIDE DEF S
<1>3. FlushStep(S, o)
  BY <1>1, <1>2, FlushedRingStep DEF FlushStep
<1>4. IF InError(S, o) # {} THEN out' = Error ELSE out' = Nothing
  BY <1>2 DEF Result
<1>5. /\ CacheInv' /\ DiskStep(S) /\ BS!KeepsAllBut({})
      /\ InError(S, o) = {} => suspect' \subseteq suspect
  <2>1. out' \in Values \union {Nothing, Error, Outside}
    BY <1>4
  <2> QED BY ONLY <1>1, <1>3, <2>1, FlushKeeps
<1>6. \A x \in Blocks \ suspect' : DiskOf[x] \in {d} => disk'[x] = Store[x]
  <2> SUFFICES ASSUME NEW x \in Blocks \ suspect', DiskOf[x] = d PROVE disk'[x] = StoreOf(x)
    BY DEF Store
  <2>1. \A k \in Positions : ring[k].valid /\ ring[k].blk = x => k \in S
    BY DEF UnitBuffers, S
  <2> QED BY <1>1, <1>5, <2>1, OnDisk
<1>7. InError(S, o) = {} => BS!Sound
  BY <1>4, <1>5, CacheAssumption DEF BS!Sound
<1>8. BS!Flush({d})
  BY <1>4, <1>5, <1>6, <1>7 DEF BS!Flush
<1> QED BY <1>5, <1>8 DEF BS!Next

LEMMA FlushAllStep ==
  ASSUME CacheInv, flush
  PROVE  CacheInv' /\ BS!Next
<1> DEFINE S == Positions
<1>1. RingInv /\ held' = {} /\ S \in SUBSET Positions
  BY DEF CacheInv, flush
<1>2. PICK o \in [Pending(S) -> Outcomes] :
        /\ suspect' = SuspectAfter(S, o) /\ flush1(S, o)
        /\ ring' = [i \in Positions |-> Invalid(ring[i])]
        /\ Result(InError(S, o) # {}, Nothing)
  BY DEF flush, Doubt
<1>3. FlushStep(S, o)
  <2>1. ring' \in [Positions -> Buffer]
    BY <1>1, <1>2, FlushedType
  <2>2. \A i \in Positions : From(i, i, S)
    BY <1>1, <1>2, FlushedType DEF From
  <2> QED BY <1>1, <1>2, <2>1, <2>2, InPlace DEF FlushStep
<1>4. IF InError(S, o) # {} THEN out' = Error ELSE out' = Nothing
  BY <1>2 DEF Result
<1>5. /\ CacheInv' /\ DiskStep(S) /\ BS!KeepsAllBut({})
      /\ InError(S, o) = {} => suspect' \subseteq suspect
  <2>1. out' \in Values \union {Nothing, Error, Outside}
    BY <1>4
  <2> QED BY ONLY <1>1, <1>3, <2>1, FlushKeeps
<1>6. \A x \in Blocks \ suspect' : DiskOf[x] \in Disks => disk'[x] = Store[x]
  BY <1>1, <1>5, OnDisk DEF Store
<1>7. InError(S, o) = {} => BS!Sound
  BY <1>4, <1>5, CacheAssumption DEF BS!Sound
<1>8. BS!Flush(Disks)
  BY <1>4, <1>5, <1>6, <1>7 DEF BS!Flush
<1> QED BY <1>5, <1>8 DEF BS!Next

LEMMA AllocateStep ==
  ASSUME CacheInv, NEW i \in Positions, AllocateHMASpace(i)
  PROVE  CacheInv' /\ BS!Next
<1> DEFINE S == {i}
<1>1. RingInv /\ held' = {} /\ S \in SUBSET Positions
  BY DEF CacheInv, AllocateHMASpace
<1>2. PICK o \in [Pending(S) -> Outcomes] :
        /\ suspect' = SuspectAfter(S, o) /\ flush1(S, o)
        /\ Result(InError(S, o) # {}, Nothing)
  BY DEF AllocateHMASpace, Doubt
<1>3. \E p : RingStep(S, p, {})
  <2>1. /\ Positions = 1..Len(ring) /\ Len(ring) \in Nat /\ ring \in [Positions -> Buffer]
        /\ NBuffers \in Nat /\ Len(ring) <= NBuffers /\ Len(ring) >= 2
    BY <1>1, TwoBuffers, CacheAssumption DEF RingInv, TypeOK
  <2>2. PICK n \in Nat : n = Len(ring) - 1
    <3>1. Len(ring) - 1 \in Nat
      BY <2>1
    <3> QED BY ONLY <3>1, Zenon
  <2> DEFINE p == [j \in 1..n |-> IF j < i THEN j ELSE j + 1]
  <2>3. /\ p \in [1..n -> Positions]
        /\ \A j, k \in 1..n : p[j] = p[k] => j = k
        /\ \A j \in 1..n : p[j] # i
    BY <2>1, <2>2
  <2>4. ASSUME NEW k \in Positions, k # i PROVE \E j \in 1..n : p[j] = k
    <3>1. CASE k < i
      <4>1. k \in 1..n /\ p[k] = k
        BY <2>1, <2>2, <3>1
      <4> QED BY <4>1
    <3>2. CASE k > i
      <4>1. k - 1 \in 1..n /\ p[k - 1] = k
        BY <2>1, <2>2, <3>2
      <4> QED BY <4>1
    <3> QED BY <2>1, <2>4, <3>1, <3>2
  <2>5. ring' = [j \in 1..n |-> ring[p[j]]]
    BY <2>1, <2>2 DEF AllocateHMASpace, Unlink
  <2> HIDE DEF p
  <2>6. ring' \in [1..n -> Buffer] /\ \A j \in 1..n : ring'[j] = ring[p[j]]
    BY ONLY <2>1, <2>3, <2>5
  <2>7. Len(ring') = n
    BY ONLY <2>6, RingLen, n \in Nat
  <2>8. n \in 0..NBuffers
    BY <2>1, <2>2
  <2>9. \A j \in 1..n : From(p[j], j, S)
    BY <2>3, <2>6 DEF From
  <2> HIDE DEF S
  <2>10. \A k \in Positions \ S : \E j \in 1..n : p[j] = k
    BY <2>4 DEF S
  <2>11. \A k \in Positions \ Additional : \E j \in 1..n : p[j] = k
    BY <2>4 DEF AllocateHMASpace
  <2>12. RingStep(S, p, {})
    BY ONLY <2>3, <2>6, <2>7, <2>8, <2>9, <2>10, <2>11 DEF RingStep
  <2> QED BY <2>12
<1>4. FlushStep(S, o)
  BY <1>2, <1>3 DEF FlushStep
<1>5. IF InError(S, o) # {} THEN out' = Error ELSE out' = Nothing
  BY <1>2 DEF Result
<1>6. /\ CacheInv' /\ BS!KeepsAllBut({})
      /\ InError(S, o) = {} => suspect' \subseteq suspect
  <2>1. out' \in Values \union {Nothing, Error, Outside}
    BY <1>5
  <2> QED BY ONLY <1>1, <1>4, <2>1, FlushKeeps
<1>7. InError(S, o) = {} => BS!Sound
  BY <1>5, <1>6, CacheAssumption DEF BS!Sound
<1>8. BS!Flush({})
  BY <1>5, <1>6, <1>7 DEF BS!Flush
<1> QED BY <1>6, <1>8 DEF BS!Next

LEMMA DirectReadStep ==
  ASSUME CacheInv, NEW b \in Blocks, DirectRead(b)
  PROVE  CacheInv' /\ BS!Next
<1> DEFINE S == Holding(b)
<1>1. RingInv /\ held' = {} /\ S \in SUBSET Positions
  BY DEF CacheInv, DirectRead, Holding
<1>2. PICK o \in [Pending(S) -> Outcomes], e \in BOOLEAN :
        /\ suspect' = SuspectAfter(S, o) /\ flush1(S, o) /\ ring' = FlushedRing(S, o)
        /\ Result(e \/ InError(S, o) # {}, disk'[b])
  BY DEF DirectRead, Doubt
<1> HIDE DEF S
<1>3. FlushStep(S, o)
  BY <1>1, <1>2, FlushedRingStep DEF FlushStep
<1>4. IF e \/ InError(S, o) # {} THEN out' = Error ELSE out' = disk'[b]
  BY <1>2 DEF Result
<1>5. DiskStep(S)
  <2>1. SuspectAfter(S, o) \subseteq suspect' /\ suspect' \subseteq Blocks
    BY <1>1, <1>2, SuspectType
  <2> QED BY <1>1, <1>2, <2>1, FlushWrites
<1>6. disk'[b] \in Values
  BY <1>5 DEF DiskStep
<1>7. /\ CacheInv' /\ BS!KeepsAllBut({})
      /\ InError(S, o) = {} => suspect' \subseteq suspect
  <2>1. out' \in Values \union {Nothing, Error, Outside}
    BY <1>4, <1>6
  <2> QED BY ONLY <1>1, <1>3, <2>1, FlushKeeps
<1>8. BS!Read(b)
  <2>1. CASE out' = Error
    BY <1>7, <2>1 DEF BS!Read
  <2>2. CASE out' = disk'[b] /\ InError(S, o) = {}
    <3>1. BS!Sound
      BY <1>6, <1>7, <2>2, CacheAssumption DEF BS!Sound
    <3>2. b \notin suspect => disk'[b] = Store[b]
      <4> SUFFICES ASSUME b \notin suspect PROVE disk'[b] = StoreOf(b)
        BY DEF Store
      <4>1. b \in Blocks \ suspect'
        BY <1>7, <2>2
      <4>2. \A k \in Positions : ring[k].valid /\ ring[k].blk = b => k \in S
        BY DEF S, Holding
      <4> QED BY <1>1, <1>5, <4>1, <4>2, OnDisk
    <3> QED BY <1>6, <1>7, <2>2, <3>1, <3>2 DEF BS!Read
  <2> QED BY <1>4, <2>1, <2>2
<1> QED BY <1>7, <1>8 DEF BS!Next

-----------------------------------------------------------------------------
(* Invalidation and transfers past the cache *)

(* Every buffer stays as it is or is given up. *)
Dropped == /\ ring' \in [Positions -> Buffer]
           /\ \A i \in Positions :
                /\ ring'[i] = ring[i] \/ (~ring'[i].valid /\ ~ring'[i].dirty)
                /\ ring'[i].extra = ring[i].extra

(* A buffer that stays still agrees with the disk. *)
LEMMA DropKeeps ==
  ASSUME RingInv, Dropped,
         disk' \in [Blocks -> Values], mirror' \in [Fat -> Values], suspect' \subseteq Blocks,
         \A f \in Fat \ suspect' : mirror'[f] = disk'[f],
         \A i \in Positions : ring'[i].valid /\ ring[i].blk \notin suspect' =>
           ring[i].blk \notin suspect /\ disk'[ring[i].blk] = disk[ring[i].blk],
         held' = {}, out' = Outside \/ out' = Nothing \/ out' = Error
  PROVE  CacheInv' /\ Positions' = Positions
<1>1. Len(ring) \in 0..NBuffers /\ Len(ring) \in Nat /\ Positions = 1..Len(ring)
  BY CacheAssumption DEF RingInv, TypeOK, Positions
<1>2. Len(ring') = Len(ring)
  BY <1>1, RingLen DEF Dropped
<1>3. Positions' = Positions
  BY <1>2 DEF Positions
<1>4. TypeOK'
  BY <1>1, <1>2, <1>3 DEF TypeOK, Dropped
<1>5. NoDuplicates'
  BY <1>3 DEF NoDuplicates, RingInv, Dropped
<1>6. Marked'
  BY <1>3 DEF Marked, RingInv, Dropped
<1>7. CleanIsDisk'
  BY <1>3 DEF CleanIsDisk, RingInv, Dropped
<1>8. MirrorsAgree' /\ HeldInv'
  BY DEF MirrorsAgree, HeldInv
<1>9. BuffersKept'
  <2>1. Additional' = Additional
    BY <1>3 DEF Additional, Dropped
  <2> QED BY <1>3, <2>1 DEF BuffersKept, RingInv
<1> QED BY <1>3, <1>4, <1>5, <1>6, <1>7, <1>8, <1>9 DEF RingInv, CacheInv

(* What the store has of a block whose buffer was given up, or was not. *)
LEMMA DropStore ==
  ASSUME RingInv, RingInv', Dropped, Positions' = Positions, NEW x
  PROVE  /\ (\A i \in Holding(x) : ~ring'[i].valid) => StoreOf(x)' = disk'[x]
         /\ (\A i \in Holding(x) : ring'[i] = ring[i]) =>
              StoreOf(x)' = IF Cached(x) THEN StoreOf(x) ELSE disk'[x]
<1>1. ASSUME \A i \in Positions : ring'[i].valid => ring'[i].blk # x
      PROVE  StoreOf(x)' = disk'[x]
  BY <1>1 DEF StoreOf, Cached, Holding
<1>2. ASSUME \A i \in Holding(x) : ~ring'[i].valid
      PROVE  StoreOf(x)' = disk'[x]
  BY <1>1, <1>2 DEF Dropped, Holding
<1>3. ASSUME \A i \in Holding(x) : ring'[i] = ring[i]
      PROVE  StoreOf(x)' = IF Cached(x) THEN StoreOf(x) ELSE disk'[x]
  <2>1. CASE ~Cached(x)
    <3>1. \A i \in Holding(x) : ~ring'[i].valid
      BY <2>1 DEF Cached
    <3> QED BY <1>2, <2>1, <3>1
  <2>2. CASE Cached(x)
    <3>1. PICK k \in Positions : ring[k].valid /\ ring[k].blk = x
      BY <2>2, CachedAt
    <3>2. StoreOf(x) = ring[k].data /\ k \in Holding(x)
      BY <3>1, HoldingOne DEF RingInv
    <3>3. StoreOf(x)' = ring'[k].data
      BY <1>3, <3>1, <3>2, HoldingOnePrime DEF RingInv
    <3> QED BY <1>3, <2>2, <3>2, <3>3
  <2> QED BY <2>1, <2>2
<1> QED BY <1>2, <1>3

(* The disk and the doubt about it after a sector was written past the cache. *)
LEMMA Overwritten ==
  ASSUME RingInv, NEW b \in Blocks, NEW v \in Values,
         disk' \in {disk, [disk EXCEPT ![b] = v]}
  PROVE  /\ disk' \in [Blocks -> Values]
         /\ \A x \in Blocks \ {b} : disk'[x] = disk[x]
         /\ disk' = [disk EXCEPT ![b] = v] => disk'[b] = v
BY DEF RingInv, TypeOK

(* A ring from which the buffers S were taken. *)
LEMMA ClearedRing ==
  ASSUME RingInv, NEW S \in SUBSET Positions,
         ring' = [i \in Positions |-> IF i \in S THEN Cleared(ring[i]) ELSE ring[i]]
  PROVE  /\ Dropped
         /\ \A i \in S : ~ring'[i].valid
         /\ \A i \in Positions \ S : ring'[i] = ring[i]
<1>1. \A i \in Positions : ring[i] \in Buffer
  BY DEF RingInv, TypeOK
<1>2. \A i \in Positions : /\ Cleared(ring[i]) \in Buffer
                            /\ ~Cleared(ring[i]).valid /\ ~Cleared(ring[i]).dirty
                            /\ Cleared(ring[i]).extra = ring[i].extra
  BY FlushedType
<1> QED BY <1>1, <1>2 DEF Dropped

LEMMA DirectWriteStep ==
  ASSUME CacheInv, NEW b \in Blocks, NEW v \in Values, DirectWrite(b, v)
  PROVE  CacheInv' /\ BS!Next
<1>1. /\ RingInv /\ held' = {} /\ mirror' = mirror /\ b \notin Fat
      /\ ring' = [i \in Positions |-> IF i \in Holding(b) THEN Cleared(ring[i]) ELSE ring[i]]
  BY DEF CacheInv, DirectWrite
<1>2. /\ disk' \in {disk, [disk EXCEPT ![b] = v]}
      /\ \/ out' = Nothing /\ suspect' = suspect \ {b} /\ disk' = [disk EXCEPT ![b] = v]
         \/ out' = Error /\ suspect' = suspect \union {b}
  BY DEF DirectWrite, Doubt
<1>3. /\ disk' \in [Blocks -> Values]
      /\ \A x \in Blocks \ {b} : disk'[x] = disk[x]
      /\ disk' = [disk EXCEPT ![b] = v] => disk'[b] = v
  BY ONLY <1>1, <1>2, Overwritten, b \in Blocks, v \in Values
<1>4. /\ Dropped /\ \A i \in Holding(b) : ~ring'[i].valid
      /\ \A i \in Positions \ Holding(b) : ring'[i] = ring[i]
  <2>1. Holding(b) \in SUBSET Positions
    BY DEF Holding
  <2> HIDE DEF Holding
  <2> QED BY <1>1, <2>1, ClearedRing
<1>5. CacheInv' /\ Positions' = Positions
  <2>1. ASSUME NEW i \in Positions, ring'[i].valid, ring[i].blk \notin suspect'
        PROVE  ring[i].blk \notin suspect /\ disk'[ring[i].blk] = disk[ring[i].blk]
    <3>1. i \notin Holding(b) /\ ring[i].valid
      BY <1>4, <2>1
    <3>2. ring[i].blk # b /\ ring[i].blk \in Blocks
      BY <1>1, <3>1 DEF Holding, RingInv, TypeOK, Buffer
    <3> QED BY <1>2, <1>3, <2>1, <3>2
  <2>2. \A f \in Fat \ suspect' : mirror'[f] = disk'[f]
    <3>1. \A f \in Fat \ suspect' : f \notin suspect /\ disk'[f] = disk[f]
      BY <1>1, <1>2, <1>3, CacheAssumption
    <3> QED BY <1>1, <3>1 DEF RingInv, MirrorsAgree
  <2>3. mirror' \in [Fat -> Values] /\ suspect' \subseteq Blocks
    BY <1>1, <1>2 DEF RingInv, TypeOK
  <2>4. out' = Nothing \/ out' = Error
    BY <1>2
  <2> QED BY ONLY <1>1, <1>3, <1>4, <2>1, <2>2, <2>3, <2>4, DropKeeps
<1>6. StoreOf(b)' = disk'[b]
  BY <1>1, <1>4, <1>5, DropStore DEF CacheInv
<1>7. \A x \in Blocks \ (suspect' \union {b}) : Kept(x)
  <2> SUFFICES ASSUME NEW x \in Blocks, x # b PROVE Kept(x)
    OBVIOUS
  <2>1. \A i \in Holding(x) : ring'[i] = ring[i]
    BY <1>4 DEF Holding
  <2>2. StoreOf(x)' = IF Cached(x) THEN StoreOf(x) ELSE disk'[x]
    BY <1>1, <1>4, <1>5, <2>1, DropStore DEF CacheInv
  <2>3. ~Cached(x) => StoreOf(x) = disk[x]
    BY DEF StoreOf
  <2> QED BY <1>3, <2>2, <2>3 DEF Kept
<1>8. BS!WriteThrough(b, v)
  <2>1. BS!KeepsAllBut({b})
    BY <1>7, KeepsSome
  <2>2. CASE out' = Error /\ suspect' = suspect \union {b}
    BY <2>1, <2>2 DEF BS!WriteThrough
  <2>3. CASE out' = Nothing /\ suspect' = suspect \ {b} /\ disk' = [disk EXCEPT ![b] = v]
    <3>1. BS!Sound
      BY <2>3, CacheAssumption DEF BS!Sound
    <3>2. Store'[b] = v /\ disk'[b] = v
      BY <1>3, <1>6, <2>3 DEF Store
    <3> QED BY <2>1, <2>3, <3>1, <3>2 DEF BS!WriteThrough
  <2> QED BY <1>2, <2>2, <2>3
<1> QED BY <1>5, <1>8 DEF BS!Next

(* INT 26h and INT 21h/7305h. *)
LEMMA AbsoluteStep ==
  ASSUME RingInv, NEW b \in Blocks, NEW v \in Values,
         NEW S, S = {} \/ S = UnitBuffers(DiskOf[b]),
         ring' = [i \in Positions |-> IF i \in S THEN Cleared(ring[i]) ELSE ring[i]],
         disk' \in {disk, [disk EXCEPT ![b] = v]},
         suspect \subseteq suspect', suspect' \subseteq suspect \union {b},
         \/ b \in suspect'
         \/ b \notin Fat /\ disk' = [disk EXCEPT ![b] = v] /\ Holding(b) \subseteq S,
         mirror' = mirror, held' = {}, out' = Outside
  PROVE  CacheInv' /\ BS!Next
<1>1. /\ disk' \in [Blocks -> Values]
      /\ \A x \in Blocks \ {b} : disk'[x] = disk[x]
      /\ disk' = [disk EXCEPT ![b] = v] => disk'[b] = v
  BY Overwritten
<1>2. /\ Dropped /\ \A i \in S : ~ring'[i].valid
      /\ \A i \in Positions \ S : ring'[i] = ring[i]
  <2>1. S \in SUBSET Positions
    BY DEF UnitBuffers
  <2> QED BY <2>1, ClearedRing
<1>3. CacheInv' /\ Positions' = Positions
  <2>1. ASSUME NEW i \in Positions, ring'[i].valid, ring[i].blk \notin suspect'
        PROVE  ring[i].blk \notin suspect /\ disk'[ring[i].blk] = disk[ring[i].blk]
    <3>1. i \notin S /\ ring[i].valid
      BY <1>2, <2>1
    <3>2. ring[i].blk # b /\ ring[i].blk \in Blocks
      BY <2>1, <3>1 DEF Holding, RingInv, TypeOK, Buffer
    <3> QED BY <1>1, <2>1, <3>2
  <2>2. \A f \in Fat \ suspect' : mirror'[f] = disk'[f]
    <3>1. \A f \in Fat \ suspect' : f \notin suspect /\ disk'[f] = disk[f]
      BY <1>1, CacheAssumption
    <3> QED BY <3>1 DEF RingInv, MirrorsAgree
  <2>3. mirror' \in [Fat -> Values] /\ suspect' \subseteq Blocks
    BY DEF RingInv, TypeOK
  <2> QED BY ONLY RingInv, held' = {}, out' = Outside, <1>1, <1>2, <2>1, <2>2, <2>3, DropKeeps
<1>4. \A x : /\ Holding(x) \subseteq S => StoreOf(x)' = disk'[x]
             /\ S = {} => StoreOf(x)' = IF Cached(x) THEN StoreOf(x) ELSE disk'[x]
             /\ Holding(x) \intersect S = {} =>
                  StoreOf(x)' = IF Cached(x) THEN StoreOf(x) ELSE disk'[x]
  <2> SUFFICES ASSUME NEW x
               PROVE  /\ Holding(x) \subseteq S => StoreOf(x)' = disk'[x]
                      /\ Holding(x) \intersect S = {} =>
                           StoreOf(x)' = IF Cached(x) THEN StoreOf(x) ELSE disk'[x]
    OBVIOUS
  <2>1. Holding(x) \subseteq Positions
    BY DEF Holding
  <2>2. Holding(x) \subseteq S => \A i \in Holding(x) : ~ring'[i].valid
    BY <1>2
  <2>3. Holding(x) \intersect S = {} => \A i \in Holding(x) : ring'[i] = ring[i]
    BY <1>2, <2>1
  <2> QED BY <1>2, <1>3, <2>2, <2>3, DropStore DEF CacheInv
<1>5. BS!AbsoluteWrite(b, v)
  <2>1. b \in suspect' \/ (Store'[b] = v /\ disk'[b] = v)
    BY <1>1, <1>4 DEF Store
  <2>2. ASSUME NEW x \in Blocks \ {b}
        PROVE  /\ disk'[x] = disk[x]
               /\ \/ Store'[x] = Store[x]
                  \/ DiskOf[x] = DiskOf[b] /\ Store'[x] = disk[x]
    <3>0. Store'[x] = StoreOf(x)' /\ Store[x] = StoreOf(x) /\ disk'[x] = disk[x]
      BY <1>1 DEF Store
    <3>1. ~Cached(x) => StoreOf(x) = disk[x]
      BY DEF StoreOf
    <3>2. CASE Holding(x) \intersect S = {}
      BY <1>4, <3>0, <3>1, <3>2
    <3>3. CASE Holding(x) \intersect S # {}
      <4>1. DiskOf[x] = DiskOf[b] /\ Holding(x) \subseteq S
        BY <3>3 DEF Holding, UnitBuffers
      <4> QED BY <1>4, <3>0, <4>1
    <3> QED BY <3>2, <3>3
  <2> QED BY <2>1, <2>2 DEF BS!AbsoluteWrite
<1> QED BY <1>3, <1>5 DEF BS!Next

LEMMA SameRing ==
  ASSUME RingInv, ring' = ring, NEW S, S = {}
  PROVE  ring' = [i \in Positions |-> IF i \in S THEN Cleared(ring[i]) ELSE ring[i]]
BY DEF RingInv, TypeOK

LEMMA Absolute26Step ==
  ASSUME CacheInv, NEW b \in Blocks, NEW v \in Values, AbsoluteWrite26(b, v)
  PROVE  CacheInv' /\ BS!Next
<1>1. RingInv /\ mirror' = mirror /\ held' = {} /\ out' = Outside
  BY DEF CacheInv, AbsoluteWrite26
<1>2. CASE /\ disk' = [disk EXCEPT ![b] = v]
           /\ suspect' = IF Cached(b) \/ b \in Fat THEN suspect \union {b} ELSE suspect
           /\ ring' = ring
  <2>0. PICK S : S = {}
    OBVIOUS
  <2>1. ring' = [i \in Positions |-> IF i \in S THEN Cleared(ring[i]) ELSE ring[i]]
    BY <1>1, <1>2, <2>0, SameRing
  <2>2. /\ suspect \subseteq suspect' /\ suspect' \subseteq suspect \union {b}
        /\ b \in suspect' \/ (b \notin Fat /\ Holding(b) \subseteq S)
        /\ disk' \in {disk, [disk EXCEPT ![b] = v]}
    BY <1>2 DEF Cached
  <2> QED BY ONLY <1>1, <1>2, <2>0, <2>1, <2>2, AbsoluteStep, b \in Blocks, v \in Values
<1>3. CASE /\ disk' \in {disk, [disk EXCEPT ![b] = v]}
           /\ suspect' = suspect \union {b}
           /\ setinvld(DiskOf[b])
  <2>1. /\ suspect \subseteq suspect' /\ suspect' \subseteq suspect \union {b}
        /\ b \in suspect'
    BY <1>3
  <2> QED BY ONLY <1>1, <1>3, <2>1, AbsoluteStep, b \in Blocks, v \in Values DEF setinvld
<1> QED BY <1>2, <1>3 DEF AbsoluteWrite26, Doubt

LEMMA Absolute7305Step ==
  ASSUME CacheInv, NEW b \in Blocks, NEW v \in Values, AbsoluteWrite7305(b, v)
  PROVE  CacheInv' /\ BS!Next
<1>1. RingInv /\ mirror' = mirror /\ held' = {} /\ out' = Outside
  BY DEF CacheInv, AbsoluteWrite7305
<1>2. CASE /\ disk' = [disk EXCEPT ![b] = v]
           /\ suspect' = IF b \in Fat THEN suspect \union {b} ELSE suspect
           /\ setinvld(DiskOf[b])
  <2>1. Holding(b) \subseteq UnitBuffers(DiskOf[b])
    BY DEF Holding, UnitBuffers
  <2>2. /\ suspect \subseteq suspect' /\ suspect' \subseteq suspect \union {b}
        /\ b \in suspect' \/ b \notin Fat
        /\ disk' \in {disk, [disk EXCEPT ![b] = v]}
    BY <1>2
  <2> QED BY ONLY <1>1, <1>2, <2>1, <2>2, AbsoluteStep, b \in Blocks, v \in Values
          DEF setinvld
<1>3. CASE /\ disk' \in {disk, [disk EXCEPT ![b] = v]}
           /\ suspect' = suspect \union {b}
           /\ ring' = ring
  <2>0. PICK S : S = {}
    OBVIOUS
  <2>1. ring' = [i \in Positions |-> IF i \in S THEN Cleared(ring[i]) ELSE ring[i]]
    BY <1>1, <1>3, <2>0, SameRing
  <2>2. /\ suspect \subseteq suspect' /\ suspect' \subseteq suspect \union {b}
        /\ b \in suspect'
    BY <1>3
  <2> QED BY ONLY <1>1, <1>3, <2>0, <2>1, <2>2, AbsoluteStep, b \in Blocks, v \in Values
<1> QED BY <1>2, <1>3 DEF AbsoluteWrite7305, Doubt

-----------------------------------------------------------------------------
(* Media changes and crashes *)

LEMMA MediaStep ==
  ASSUME RingInv, NEW d \in Disks, setinvld(d), held' = {}, out' = Outside,
         disk' \in [Blocks -> Values], mirror' \in [Fat -> Values], suspect' \subseteq suspect,
         \A x \in Blocks : DiskOf[x] # d => disk'[x] = disk[x] /\ (x \in suspect => x \in suspect'),
         \A x \in Blocks : disk'[x] = disk[x] \/ d \in Removable,
         \A f \in Fat \ suspect' : mirror'[f] = disk'[f]
  PROVE  CacheInv' /\ BS!Next
<1> DEFINE S == UnitBuffers(d)
<1>1. /\ Dropped /\ \A i \in S : ~ring'[i].valid
      /\ \A i \in Positions \ S : ring'[i] = ring[i]
  <2>1. S \in SUBSET Positions
    BY DEF UnitBuffers
  <2> HIDE DEF S
  <2>2. ring' = [i \in Positions |-> IF i \in S THEN Cleared(ring[i]) ELSE ring[i]]
    BY DEF setinvld, S
  <2> QED BY <2>1, <2>2, ClearedRing
<1>2. CacheInv' /\ Positions' = Positions
  <2>1. ASSUME NEW i \in Positions, ring'[i].valid, ring[i].blk \notin suspect'
        PROVE  ring[i].blk \notin suspect /\ disk'[ring[i].blk] = disk[ring[i].blk]
    <3>1. i \notin S /\ ring[i].blk \in Blocks
      BY <1>1, <2>1 DEF RingInv, TypeOK, Buffer
    <3>2. DiskOf[ring[i].blk] # d
      BY <3>1 DEF UnitBuffers
    <3> QED BY <2>1, <3>1, <3>2
  <2>2. suspect' \subseteq Blocks
    BY DEF RingInv, TypeOK
  <2> QED BY <1>1, <2>1, <2>2, DropKeeps
<1>3. ASSUME NEW x \in Blocks, DiskOf[x] = d
      PROVE  Store'[x] = disk'[x] /\ (disk'[x] = disk[x] \/ d \in Removable)
  <2>1. \A i \in Holding(x) : ~ring'[i].valid
    BY <1>1, <1>3 DEF Holding, UnitBuffers
  <2> QED BY <1>1, <1>2, <2>1, DropStore DEF CacheInv, Store
<1>4. ASSUME NEW x \in Blocks, DiskOf[x] # d
      PROVE  Store'[x] = Store[x] /\ disk'[x] = disk[x]
  <2>1. \A i \in Holding(x) : ring'[i] = ring[i]
    BY <1>1, <1>4 DEF Holding, UnitBuffers
  <2>2. StoreOf(x)' = IF Cached(x) THEN StoreOf(x) ELSE disk'[x]
    BY <1>1, <1>2, <2>1, DropStore DEF CacheInv
  <2>3. ~Cached(x) => StoreOf(x) = disk[x]
    BY DEF StoreOf
  <2> QED BY <1>4, <2>2, <2>3 DEF Store
<1>5. BS!Drop(d)
  <2>1. BS!Sound
    BY CacheAssumption DEF BS!Sound
  <2> QED BY <1>3, <1>4, <2>1 DEF BS!Drop, BS!On
<1> QED BY <1>2, <1>5 DEF BS!Next

LEMMA MediaUnknownStep ==
  ASSUME CacheInv, NEW d \in Disks, MediaUnknown(d)
  PROVE  CacheInv' /\ BS!Next
<1>1. /\ RingInv /\ setinvld(d) /\ held' = {} /\ out' = Outside
      /\ disk' = disk /\ mirror' = mirror /\ suspect' = suspect
  BY DEF CacheInv, MediaUnknown
<1>2. /\ disk \in [Blocks -> Values] /\ mirror \in [Fat -> Values]
      /\ \A f \in Fat \ suspect : mirror[f] = disk[f]
  BY <1>1 DEF RingInv, TypeOK, MirrorsAgree
<1> QED BY <1>1, <1>2, MediaStep

LEMMA MediaChangedStep ==
  ASSUME CacheInv, NEW d \in Disks, MediaChanged(d)
  PROVE  CacheInv' /\ BS!Next
<1>1. RingInv /\ setinvld(d) /\ held' = {} /\ out' = Outside
  BY DEF CacheInv, MediaChanged
<1>2. /\ disk \in [Blocks -> Values] /\ mirror \in [Fat -> Values]
      /\ \A f \in Fat \ suspect : mirror[f] = disk[f]
      /\ Fat \subseteq Blocks
  BY <1>1, CacheAssumption DEF RingInv, TypeOK, MirrorsAgree
<1>3. CASE UNCHANGED <<disk, mirror, suspect>>
  BY <1>1, <1>2, <1>3, MediaStep
<1>4. ASSUME d \in Removable,
             NEW medium \in [{b \in Blocks : DiskOf[b] = d} -> Values],
             disk' = [b \in Blocks |-> IF DiskOf[b] = d THEN medium[b] ELSE disk[b]],
             mirror' = [f \in Fat |-> IF DiskOf[f] = d THEN medium[f] ELSE mirror[f]],
             suspect' = {b \in suspect : DiskOf[b] # d}
      PROVE  CacheInv' /\ BS!Next
  <2>1. disk' \in [Blocks -> Values] /\ mirror' \in [Fat -> Values]
    BY ONLY <1>2, <1>4
  <2>2. \A x \in Blocks : DiskOf[x] # d => disk'[x] = disk[x] /\ (x \in suspect => x \in suspect')
    BY <1>4
  <2>3. \A f \in Fat \ suspect' : mirror'[f] = disk'[f]
    BY <1>2, <1>4
  <2>4. suspect' \subseteq suspect
    BY <1>4
  <2> QED BY <1>1, <1>4, <2>1, <2>2, <2>3, <2>4, MediaStep
<1> QED BY <1>3, <1>4 DEF MediaChanged, Doubt

LEMMA EmptyType ==
  ASSUME NEW r, r = EmptyRing
  PROVE  /\ r \in [1..NBuffers -> Buffer] /\ Len(r) = NBuffers
         /\ \A i \in 1..NBuffers : ~r[i].valid /\ ~r[i].dirty
         /\ Cardinality({i \in 1..NBuffers : ~(r[i].extra > 0)}) = MinBuffers
<1> DEFINE Place(i) == IF i <= MinBuffers THEN 0 ELSE i - MinBuffers
<1>1. (CHOOSE b \in Blocks : TRUE) \in Blocks
  BY CacheAssumption
<1>2. ASSUME NEW k \in 0..(NBuffers - MinBuffers)
      PROVE  Empty(k) \in Buffer /\ ~Empty(k).valid /\ ~Empty(k).dirty /\ Empty(k).extra = k
  BY <1>1 DEF Empty, Buffer
<1>3. \A i \in 1..NBuffers : /\ Place(i) \in 0..(NBuffers - MinBuffers)
                              /\ (Place(i) > 0 <=> i > MinBuffers)
  BY CacheAssumption
<1>4. r = [i \in 1..NBuffers |-> Empty(Place(i))]
  BY DEF EmptyRing
<1> HIDE DEF Place
<1>5. r \in [1..NBuffers -> Buffer] /\ \A i \in 1..NBuffers : r[i] = Empty(Place(i))
  BY <1>2, <1>3, <1>4
<1>6. Len(r) = NBuffers
  BY ONLY <1>5, RingLen, CacheAssumption
<1>7. Cardinality({i \in 1..NBuffers : ~(r[i].extra > 0)}) = MinBuffers
  <2>1. \A i \in 1..NBuffers : r[i].extra > 0 <=> i > MinBuffers
    BY <1>2, <1>3, <1>5
  <2>2. {i \in 1..NBuffers : ~(r[i].extra > 0)} = 1..MinBuffers
    BY <2>1, CacheAssumption
  <2>3. Cardinality(1..MinBuffers) = MinBuffers
    BY FS_Interval, CacheAssumption
  <2> QED BY <2>2, <2>3
<1> QED BY <1>2, <1>3, <1>5, <1>6, <1>7

(* No HMA request has been made yet. *)
LEMMA EmptyKept ==
  ASSUME Positions = 1..NBuffers,
         Cardinality({i \in 1..NBuffers : ~(ring[i].extra > 0)}) = MinBuffers
  PROVE  BuffersKept
<1>1. Positions \ Additional = {i \in 1..NBuffers : ~(ring[i].extra > 0)}
  BY DEF Additional
<1> QED BY <1>1 DEF BuffersKept

LEMMA CrashStep ==
  ASSUME CacheInv, Crash
  PROVE  CacheInv' /\ BS!Next
<1>1. RingInv /\ ring' = EmptyRing /\ held' = {} /\ out' = Outside
  BY DEF CacheInv, Crash
<1>2. PICK S \in SUBSET Positions, t \in Blocks :
        DiskStep(S) /\ suspect' \subseteq suspect \union {t}
        /\ \A x \in Blocks \ suspect' : disk'[x] = disk[x] \/ disk'[x] = StoreOf(x)
  <2>1. PICK S \in PartlyFlushed : \E cut \in SUBSET {i \in S : \A j \in S : j <= i} :
          /\ suspect' = SuspectAfter(S, [i \in S |-> IF i \in cut THEN "failed" ELSE "done"])
          /\ flush1(S, [i \in S |-> IF i \in cut THEN "failed" ELSE "done"])
    BY DEF Crash, Doubt
  <2>2. PICK cut \in SUBSET {i \in S : \A j \in S : j <= i} :
          /\ suspect' = SuspectAfter(S, [i \in S |-> IF i \in cut THEN "failed" ELSE "done"])
          /\ flush1(S, [i \in S |-> IF i \in cut THEN "failed" ELSE "done"])
    BY <2>1
  <2>3. PICK o : o = [i \in S |-> IF i \in cut THEN "failed" ELSE "done"]
    OBVIOUS
  <2>4. suspect' = SuspectAfter(S, o) /\ flush1(S, o)
    BY <2>2, <2>3
  <2>5. S \in SUBSET Positions
    BY DEF PartlyFlushed, FlushSets, UnitBuffers, Pending
  <2>6. suspect' \subseteq Blocks /\ SuspectAfter(S, o) \subseteq suspect'
    BY <1>1, <2>4, <2>5, SuspectType
  <2>7. DiskStep(S)
    BY <1>1, <2>4, <2>5, <2>6, FlushWrites
  <2>8. InError(S, o) \subseteq cut
    BY <2>3 DEF InError, Pending
  <2>9. \A i, j \in cut : i = j
    BY <2>5 DEF Positions
  <2>10. PICK t \in Blocks : suspect' \subseteq suspect \union {t}
    <3>1. CASE cut = {}
      <4>1. suspect' \subseteq suspect
        BY <2>4, <2>8, <3>1 DEF SuspectAfter, BlocksOf
      <4> QED BY <4>1, CacheAssumption
    <3>2. CASE cut # {}
      <4>1. PICK i \in cut : TRUE
        BY <3>2
      <4>2. ring[i].blk \in Blocks
        BY <1>1, <2>5 DEF RingInv, TypeOK, Buffer
      <4>3. BlocksOf(InError(S, o)) \subseteq {ring[i].blk}
        BY <2>8, <2>9 DEF BlocksOf
      <4> QED BY <2>4, <4>2, <4>3 DEF SuspectAfter
    <3> QED BY <3>1, <3>2
  <2>11. \A x \in Blocks \ suspect' : disk'[x] = disk[x] \/ disk'[x] = StoreOf(x)
    <3> SUFFICES ASSUME NEW x \in Blocks \ suspect'
                 PROVE  disk'[x] = disk[x] \/ disk'[x] = StoreOf(x)
      OBVIOUS
    <3>1. CASE ~Cached(x)
      BY <1>1, <2>5, <2>7, <3>1, DiskAfter
    <3>2. CASE Cached(x)
      <4>1. PICK k \in Positions : ring[k].valid /\ ring[k].blk = x
        BY <3>2, CachedAt
      <4>2. StoreOf(x) = ring[k].data
        BY <1>1, <4>1, HoldingOne DEF RingInv
      <4> QED BY <1>1, <2>5, <2>7, <4>1, <4>2, DiskAfter
    <3> QED BY <3>1, <3>2
  <2> QED BY ONLY <2>5, <2>7, <2>10, <2>11
<1>3. /\ ring' \in [1..NBuffers -> Buffer] /\ Len(ring') = NBuffers
      /\ \A i \in 1..NBuffers : ~ring'[i].valid /\ ~ring'[i].dirty
      /\ Cardinality({i \in 1..NBuffers : ~(ring'[i].extra > 0)}) = MinBuffers
  BY <1>1, EmptyType
<1>4. Positions' = 1..NBuffers /\ NBuffers \in 0..NBuffers
  BY <1>3, CacheAssumption DEF Positions
<1>5. RingInv'
  <2>1. TypeOK'
    BY <1>1, <1>2, <1>3, <1>4 DEF TypeOK, DiskStep
  <2>2. NoDuplicates' /\ Marked' /\ CleanIsDisk'
    BY <1>3, <1>4 DEF NoDuplicates, Marked, CleanIsDisk
  <2>3. BuffersKept'
    <3>1. (Positions \ Additional)' = {i \in 1..NBuffers : ~(ring'[i].extra > 0)}
      BY <1>4 DEF Additional
    <3> QED BY <1>3, <3>1 DEF BuffersKept
  <2> QED BY <1>1, <1>2, <2>1, <2>2, <2>3, MirrorsAfter DEF RingInv
<1>6. \A x \in Blocks : Store'[x] = disk'[x]
  BY <1>3, <1>4 DEF Store, StoreOf, Cached, Holding
<1>7. BS!Crash
  BY <1>1, <1>2, <1>6 DEF BS!Crash, Store
<1> QED BY <1>1, <1>5, <1>7 DEF CacheInv, HeldInv, BS!Next

-----------------------------------------------------------------------------
(* The theorems *)

LEMMA InitOK ==
  ASSUME Init
  PROVE  CacheInv /\ BS!Init
<1>1. /\ ring \in [1..NBuffers -> Buffer] /\ Len(ring) = NBuffers
      /\ \A i \in 1..NBuffers : ~ring[i].valid /\ ~ring[i].dirty
      /\ Cardinality({i \in 1..NBuffers : ~(ring[i].extra > 0)}) = MinBuffers
  BY EmptyType DEF Init
<1>2. Positions = 1..NBuffers /\ NBuffers \in 0..NBuffers
  BY <1>1, CacheAssumption DEF Positions
<1>3. disk \in [Blocks -> Values] /\ mirror = [f \in Fat |-> disk[f]] /\ Fat \subseteq Blocks
  BY CacheAssumption DEF Init
<1>4. mirror \in [Fat -> Values] /\ MirrorsAgree
  BY <1>3 DEF MirrorsAgree
<1>5. TypeOK /\ BuffersKept
  BY <1>1, <1>2, <1>3, <1>4, EmptyKept DEF TypeOK, Init
<1>6. NoDuplicates /\ Marked /\ CleanIsDisk /\ HeldInv
  BY <1>1, <1>2 DEF NoDuplicates, Marked, CleanIsDisk, HeldInv, Init
<1>7. Store = disk
  BY <1>1, <1>2, <1>3 DEF Store, StoreOf, Cached, Holding
<1> QED BY <1>3, <1>4, <1>5, <1>6, <1>7 DEF CacheInv, RingInv, BS!Init, Init

LEMMA NextOK ==
  ASSUME CacheInv, Next
  PROVE  CacheInv' /\ BS!Next
<1>1. ASSUME NEW b \in Blocks, Read(b) \/ DirectRead(b)
      PROVE  CacheInv' /\ BS!Next
  BY <1>1, ReadStep, DirectReadStep
<1>2. ASSUME NEW b \in Blocks, NEW v \in Values,
             DirectWrite(b, v) \/ AbsoluteWrite26(b, v) \/ AbsoluteWrite7305(b, v)
      PROVE  CacheInv' /\ BS!Next
  BY <1>2, DirectWriteStep, Absolute26Step, Absolute7305Step
<1>3. ASSUME NEW b \in Blocks, NEW v \in Values, NEW overwrite \in BOOLEAN,
             Write(b, v, overwrite)
      PROVE  CacheInv' /\ BS!Next
  BY <1>3, WriteStep
<1>4. ASSUME NEW f \in Fat, LinkFatFirst(f)
      PROVE  CacheInv' /\ BS!Next
  BY <1>4, LinkFirstStep
<1>5. ASSUME NEW f \in Fat, NEW g \in Fat, NEW v \in Values, NEW w \in Values,
             LinkFatSecond(f, g, v, w)
      PROVE  CacheInv' /\ BS!Next
  BY <1>5, LinkSecondStep
<1>6. ASSUME NEW d \in Disks, flush_buffers(d) \/ MediaUnknown(d) \/ MediaChanged(d)
      PROVE  CacheInv' /\ BS!Next
  BY <1>6, FlushBuffersStep, MediaUnknownStep, MediaChangedStep
<1>7. ASSUME NEW i \in Positions, AllocateHMASpace(i)
      PROVE  CacheInv' /\ BS!Next
  BY <1>7, AllocateStep
<1>8. CASE flush
  BY <1>8, FlushAllStep
<1>9. CASE Crash
  BY <1>9, CrashStep
<1> QED BY <1>1, <1>2, <1>3, <1>4, <1>5, <1>6, <1>7, <1>8, <1>9 DEF Next

LEMMA StutterOK ==
  ASSUME CacheInv, UNCHANGED vars
  PROVE  CacheInv' /\ UNCHANGED BS!vars
<1>1. /\ ring' = ring /\ disk' = disk /\ mirror' = mirror
      /\ held' = held /\ suspect' = suspect /\ out' = out
  BY DEF vars
<1>2. RingInv'
  BY <1>1 DEF CacheInv, RingInv, TypeOK, BuffersKept, NoDuplicates, Marked, CleanIsDisk,
              MirrorsAgree, Positions, Additional
<1>3. HeldInv'
  BY <1>1 DEF CacheInv, HeldInv
<1>4. Store' = Store
  BY <1>1 DEF Store, StoreOf, Cached, Holding, Positions
<1> QED BY <1>1, <1>2, <1>3, <1>4 DEF CacheInv, BS!vars

(* The invariant that every call of the cache keeps. *)
THEOREM Invariant == Spec => []CacheInv
<1>1. Init => CacheInv
  BY InitOK
<1>2. CacheInv /\ [Next]_vars => CacheInv'
  BY NextOK, StutterOK
<1> QED BY <1>1, <1>2, PTL DEF Spec

(* The variables of the cache have their types. *)
THEOREM TypeCorrect == Spec => []TypeOK
<1>1. CacheInv => TypeOK
  BY DEF CacheInv, RingInv
<1> QED BY <1>1, Invariant, PTL

(* AllocateHMASpace takes none of the BUFFERS= buffers, however often move_buffer
   has rearranged the ring. *)
THEOREM AlwaysBuffersKept == Spec => []BuffersKept
<1>1. CacheInv => BuffersKept
  BY DEF CacheInv, RingInv
<1> QED BY <1>1, Invariant, PTL

(* searchblock finds a block in at most one buffer, whatever was replaced,
   flushed, given up or written past the cache before. *)
THEOREM AlwaysNoDuplicates == Spec => []NoDuplicates
<1>1. CacheInv => NoDuplicates
  BY DEF CacheInv, RingInv
<1> QED BY <1>1, Invariant, PTL

(* A buffer without BFR_DIRTY holds what the disk holds, so that flush1, setinvld
   and getblk lose nothing when they drop it. *)
THEOREM AlwaysCleanIsDisk == Spec => []CleanIsDisk
<1>1. CacheInv => CleanIsDisk
  BY DEF CacheInv, RingInv
<1> QED BY <1>1, Invariant, PTL

(* The second copy of the FAT, which flush1 writes for the buffers that have
   BFR_FAT, agrees with the first. *)
THEOREM AlwaysMirrorsAgree == Spec => []MirrorsAgree
<1>1. CacheInv => MirrorsAgree
  BY DEF CacheInv, RingInv
<1> QED BY <1>1, Invariant, PTL

(* link_fat's pointer to its first buffer survives the getblk of the second
   one, with any number of buffers from two on. *)
THEOREM AlwaysHeldIsSafe == Spec => []HeldIsSafe
<1>1. CacheInv => HeldIsSafe
  BY HeldNotTaken DEF CacheInv, HeldIsSafe, HeldInv
<1> QED BY <1>1, Invariant, PTL

(* What the calls of blockio.c do to the ring and the disks is a step of the
   store of blocks: the cache is transparent, but for the errors of the drive. *)
THEOREM Refinement == Spec => ImplementsBlockStore
<1>1. Init => BS!Init
  BY InitOK
<1>2. CacheInv /\ [Next]_vars => [BS!Next]_(BS!vars)
  BY NextOK, StutterOK
<1> QED BY <1>1, <1>2, Invariant, PTL DEF Spec, ImplementsBlockStore, BS!Spec
=============================================================================
