----------------------------- MODULE FatProofs -----------------------------
(***************************************************************************)
(* Proofs about Fat that need no knowledge of the chains: the types of the *)
(* table, the directory and the SFT, the count of free clusters, and that  *)
(* "disk full" is true; for disks, files and transfers of every size, and  *)
(* whether files are shared or not.                                        *)
(***************************************************************************)
EXTENDS Fat, FiniteSetTheorems, WellFoundedInduction, TLAPS

LEMMA MinInNat ==
  ASSUME NEW S \in SUBSET Nat, S # {}
  PROVE  \E x \in S : \A y \in S : x <= y
<1> DEFINE Less == {p \in Nat \X Nat : p[1] < p[2]}
<1>1. OpToRel(<, Nat) = Less
  BY Zenon DEF OpToRel
<1>2. IsWellFoundedOn(Less, Nat)
  BY ONLY <1>1, NatLessThanWellFounded
<1>3. PICK x \in S : \A y \in S : ~ (<<y, x>> \in Less)
  BY ONLY <1>2, WFMin, S \in SUBSET Nat, S # {}
<1>4. \A y \in S : x <= y
  <2> SUFFICES ASSUME NEW y \in S, y < x PROVE FALSE
    OBVIOUS
  <2>1. x \in Nat /\ y \in Nat
    OBVIOUS
  <2> DEFINE p == <<y, x>>
  <2>2. p \in Nat \X Nat /\ p[1] = y /\ p[2] = x
    BY <2>1
  <2>3. p \in Less
    <3> HIDE DEF p
    <3> QED BY <2>2
  <2> QED BY <1>3, <2>3
<1> QED BY <1>4

LEMMA MinType ==
  ASSUME NEW S \in SUBSET Nat, S # {}
  PROVE  Min(S) \in S /\ \A y \in S : Min(S) <= y
BY MinInNat DEF Min

LEMMA MinOfTwo ==
  ASSUME NEW a \in Int, NEW b \in Int
  PROVE  Min({a, b}) = IF a <= b THEN a ELSE b
BY DEF Min

LEMMA MaxOfTwo ==
  ASSUME NEW a \in Int, NEW b \in Int
  PROVE  Max({a, b}) = IF a <= b THEN b ELSE a
BY DEF Max

(* Induction over the natural numbers, for a set. *)
LEMMA SetInduction ==
  ASSUME NEW S, 0 \in S, \A n \in Nat : n \in S => n + 1 \in S
  PROVE  \A n \in Nat : n \in S
<1> DEFINE Bad == {n \in Nat : n \notin S}
<1> SUFFICES ASSUME Bad # {} PROVE FALSE
  OBVIOUS
<1>1. Bad \in SUBSET Nat
  OBVIOUS
<1> HIDE DEF Bad
<1>2. PICK m \in Bad : \A y \in Bad : m <= y
  BY ONLY <1>1, Bad # {}, MinInNat
<1>3. m \in Nat /\ m \notin S
  BY DEF Bad
<1>4. m - 1 \in Nat /\ (m - 1) + 1 = m /\ ~ (m <= m - 1)
  BY <1>3
<1>5. m - 1 \in Bad
  BY <1>3, <1>4 DEF Bad
<1> QED BY <1>2, <1>4, <1>5

-----------------------------------------------------------------------------
(* The table *)

Table == [Clusters -> 0..LAST]

LEMMA Numbers ==
  /\ Size \in Nat /\ Size >= 2 /\ LAST \in Nat /\ LAST = Size + 1 /\ LAST \notin Clusters
  /\ Clusters \subseteq 0..LAST /\ Clusters \subseteq Nat /\ 0 \notin Clusters /\ 1 \notin Clusters
  /\ FREE = 0 /\ BadLink = 1 /\ UNKNCLUSTER = 0 /\ UNKNCLSTFREE = -1
BY FatAssumption DEF LAST, Clusters, FREE, BadLink, UNKNCLUSTER, UNKNCLSTFREE

LEMMA AfterCluster ==
  ASSUME NEW c \in Clusters \union {FREE}
  PROVE  c + 1 \in 0..LAST
BY FatAssumption DEF LAST, Clusters, FREE

LEMMA Values ==
  ASSUME NEW c \in 0..LAST
  PROVE  c \in Clusters \/ c = 0 \/ c = 1 \/ c = LAST
BY FatAssumption DEF LAST, Clusters

LEMMA NextType ==
  ASSUME NEW g \in Table, NEW c
  PROVE  NextIn(g, c) \in 0..LAST
<1>1. BadLink \in 0..LAST
  BY Numbers
<1>2. c \in Clusters => g[c] \in 0..LAST
  BY DEF Table
<1> QED BY <1>1, <1>2 DEF NextIn

(* The chain from c on, as a function: the recursive definition of Nth has a
   solution. *)
LEMMA ChainExists ==
  ASSUME NEW g \in Table, NEW c \in 0..LAST
  PROVE  \E n : n = [i \in 0..Size |-> IF i = 0 THEN c ELSE NextIn(g, n[i - 1])]
<1> DEFINE Walk(k, f) == f[0] = c /\ \A i \in 1..k : f[i] = NextIn(g, f[i - 1])
           K == {k \in Nat : \E f \in [0..k -> 0..LAST] : Walk(k, f)}
<1>1. 0 \in K
  <2> DEFINE f == [i \in 0..0 |-> c]
  <2>1. f \in [0..0 -> 0..LAST] /\ f[0] = c
    OBVIOUS
  <2>2. \A i \in 1..0 : f[i] = NextIn(g, f[i - 1])
    OBVIOUS
  <2> HIDE DEF f
  <2> QED BY <2>1, <2>2
<1>2. ASSUME NEW k \in Nat, k \in K PROVE k + 1 \in K
  <2>1. PICK f \in [0..k -> 0..LAST] : Walk(k, f)
    BY <1>2
  <2> DEFINE h == [i \in 0..(k + 1) |-> IF i <= k THEN f[i] ELSE NextIn(g, f[k])]
  <2>2. NextIn(g, f[k]) \in 0..LAST
    BY NextType
  <2>3. h \in [0..(k + 1) -> 0..LAST]
    BY <2>2
  <2>4. h[0] = c
    BY <2>1
  <2>5. ASSUME NEW i \in 1..(k + 1) PROVE h[i] = NextIn(g, h[i - 1])
    <3>1. CASE i <= k
      <4>1. h[i] = f[i] /\ h[i - 1] = f[i - 1]
        BY <3>1
      <4> QED BY <2>1, <3>1, <4>1
    <3>2. CASE i = k + 1
      <4>1. h[i] = NextIn(g, f[k]) /\ h[i - 1] = f[k]
        BY <3>2
      <4> QED BY <4>1
    <3> QED BY <3>1, <3>2
  <2> HIDE DEF h
  <2>6. Walk(k + 1, h)
    BY <2>4, <2>5
  <2> HIDE DEF Walk
  <2> QED BY <2>3, <2>6
<1> HIDE DEF K
<1>3. Size \in K
  BY <1>1, <1>2, SetInduction, Numbers
<1>4. PICK f \in [0..Size -> 0..LAST] : Walk(Size, f)
  BY <1>3 DEF K
<1>5. f = [i \in 0..Size |-> IF i = 0 THEN c ELSE NextIn(g, f[i - 1])]
  <2>1. \A i \in 0..Size : f[i] = IF i = 0 THEN c ELSE NextIn(g, f[i - 1])
    BY <1>4, Numbers
  <2> QED BY <2>1
<1> QED BY <1>5

LEMMA NthType ==
  ASSUME fat \in Table, NEW c \in 0..LAST
  PROVE  /\ Nth(c)[0] = c
         /\ \A i \in 1..Size : Nth(c)[i] = next_cluster(Nth(c)[i - 1])
         /\ \A i \in 0..Size : Nth(c)[i] \in 0..LAST
<1> DEFINE P(n) == n = [i \in 0..Size |-> IF i = 0 THEN c ELSE next_cluster(n[i - 1])]
<1>1. Nth(c) = CHOOSE n : P(n)
  BY Zenon DEF Nth
<1>2. \E n : P(n)
  BY ChainExists DEF next_cluster
<1> HIDE DEF P
<1>3. P(Nth(c))
  BY <1>1, <1>2
<1>4. Nth(c) = [i \in 0..Size |-> IF i = 0 THEN c ELSE next_cluster(Nth(c)[i - 1])]
  BY <1>3 DEF P
<1> DEFINE n == Nth(c)
<1> HIDE DEF n
<1>5. n = [i \in 0..Size |-> IF i = 0 THEN c ELSE next_cluster(n[i - 1])]
  BY <1>4 DEF n
<1>6. n[0] = c /\ \A i \in 1..Size : n[i] = next_cluster(n[i - 1])
  BY <1>5, Numbers
<1>7. \A i \in 0..Size : n[i] \in 0..LAST
  <2>1. \A j : next_cluster(j) \in 0..LAST
    BY NextType DEF next_cluster
  <2> QED BY <1>6, <2>1
<1> QED BY <1>6, <1>7 DEF n

(* The search of find_fat_free: after n turns it is n clusters further, or has
   gone around.  The recursive definition of Search has a solution. *)
LEMMA SearchIs ==
  ASSUME hint \in MaybeCluster
  PROVE  /\ SearchStart \in Clusters
         /\ \A n \in 0..Size : Search[n] \in Clusters
         /\ \A n \in 0..Size : n <= Size - SearchStart => Search[n] = SearchStart + n
         /\ \A n \in 0..Size : (Size - SearchStart < n /\ n <= Size - 1) =>
                                 Search[n] = n - (Size - SearchStart) + 1
<1> DEFINE start == SearchStart
           next(i) == IF i + 1 > Size THEN 2 ELSE i + 1
           P(f) == f = [n \in 0..Size |-> IF n = 0 THEN start ELSE next(f[n - 1])]
           room == Size - start
           cyc == Size - 1
           turn(n) == IF n <= room THEN start + n
                      ELSE IF n <= cyc THEN n - room + 1 ELSE next(start)
           w == [n \in 0..Size |-> turn(n)]
<1>1. start \in Clusters /\ start \in Nat /\ 2 <= start /\ start <= Size
  BY Numbers DEF SearchStart, MaybeCluster, Clusters
<1>2. Size \in Nat /\ Size >= 2
  BY Numbers
<1> HIDE DEF start
<1>3. Search = CHOOSE f : P(f)
  BY Zenon DEF Search, start
<1>4. \A n \in 0..Size : w[n] = turn(n)
  OBVIOUS
<1>5. w[0] = start
  BY <1>1, <1>2, <1>4
<1>6. ASSUME NEW n \in 0..Size, n # 0 PROVE w[n] = next(w[n - 1])
  <2>1. n - 1 \in 0..Size /\ w[n] = turn(n) /\ w[n - 1] = turn(n - 1)
    BY <1>2, <1>4, <1>6
  <2> HIDE DEF w
  <2>2. CASE n <= room
    BY <1>1, <1>2, <1>6, <2>1, <2>2
  <2>3. CASE n = room + 1
    <3>1. n <= cyc /\ ~ (n <= room) /\ n - 1 <= room /\ start + (n - 1) = Size /\ n - room + 1 = 2
      BY <1>1, <1>2, <2>3
    <3> QED BY <1>2, <2>1, <3>1
  <2>4. CASE room + 1 < n /\ n <= cyc
    BY <1>1, <1>2, <1>6, <2>1, <2>4
  <2>5. CASE n = Size
    <3>1. ~ (n <= cyc) /\ ~ (n <= room) /\ ~ (n - 1 <= room) /\ n - 1 <= cyc /\ (n - 1) - room + 1 = start
      BY <1>1, <1>2, <2>5
    <3> QED BY <2>1, <3>1
  <2> QED BY <1>1, <1>2, <1>6, <2>2, <2>3, <2>4, <2>5
<1>7. w = [n \in 0..Size |-> IF n = 0 THEN start ELSE next(w[n - 1])]
  <2>1. PICK u : u = w
    OBVIOUS
  <2>2. \A n \in 0..Size : w[n] = IF n = 0 THEN start ELSE next(w[n - 1])
    BY <1>5, <1>6
  <2> HIDE DEF next
  <2> QED BY <2>2
<1>8. P(Search)
  <2>1. \E f : P(f)
    BY <1>7
  <2> HIDE DEF P
  <2> QED BY <1>3, <2>1
<1> DEFINE v == Search
<1>9. v[0] = start /\ \A n \in 0..Size : n # 0 => v[n] = next(v[n - 1])
  <2>1. v = [n \in 0..Size |-> IF n = 0 THEN start ELSE next(v[n - 1])]
    BY <1>8
  <2>2. PICK u : u = v
    OBVIOUS
  <2>3. u = [n \in 0..Size |-> IF n = 0 THEN start ELSE next(u[n - 1])]
    BY <2>1, <2>2
  <2> HIDE DEF next, v
  <2>4. u[0] = start /\ \A n \in 0..Size : n # 0 => u[n] = next(u[n - 1])
    BY <1>2, <2>3
  <2> QED BY <2>2, <2>4
<1> HIDE DEF v, w
<1> DEFINE I == {n \in Nat : n \in 0..Size => v[n] = w[n]}
<1>10. 0 \in I
  BY <1>5, <1>9
<1>11. ASSUME NEW n \in Nat, n \in I PROVE n + 1 \in I
  <2> SUFFICES ASSUME n + 1 \in 0..Size PROVE v[n + 1] = w[n + 1]
    BY <1>11
  <2>1. n \in 0..Size /\ (n + 1) - 1 = n /\ n + 1 # 0
    BY <1>2
  <2>2. v[n] = w[n] /\ v[n + 1] = next(v[n])
    BY <1>9, <1>11, <2>1
  <2>3. w[n + 1] = next(w[n])
    BY <1>6, <2>1
  <2> QED BY <2>2, <2>3
<1> HIDE DEF I
<1>12. \A n \in Nat : n \in I
  BY <1>10, <1>11, SetInduction
<1>13. ASSUME NEW n \in 0..Size PROVE v[n] = turn(n)
  BY <1>4, <1>12 DEF I
<1>14. ASSUME NEW n \in 0..Size
       PROVE  /\ v[n] \in Clusters
              /\ n <= Size - start => v[n] = start + n
              /\ (Size - start < n /\ n <= Size - 1) => v[n] = n - (Size - start) + 1
  BY <1>1, <1>2, <1>13 DEF Clusters
<1> QED BY <1>1, <1>14 DEF v, start

(* It visits every cluster before it is back, or finds one that is free. *)
LEMMA Visited ==
  ASSUME hint \in MaybeCluster, NEW c \in Clusters
  PROVE  \E n \in 0..Size : /\ Search[n] = c
                            /\ \A k \in 0..Size : Back(k) => n < k
<1> DEFINE start == SearchStart
<1>1. /\ start \in Clusters
      /\ \A n \in 0..Size : n <= Size - start => Search[n] = start + n
      /\ \A n \in 0..Size : (Size - start < n /\ n <= Size - 1) =>
                              Search[n] = n - (Size - start) + 1
  BY SearchIs
<1>2. /\ start \in Nat /\ 2 <= start /\ start <= Size /\ c \in Nat /\ 2 <= c /\ c <= Size
      /\ Size \in Nat
  BY <1>1, Numbers DEF Clusters
<1>3. ASSUME NEW k \in 0..Size, Back(k) PROVE k >= Size - 1
  <2>1. k > 0 /\ Search[k] = start
    BY <1>3 DEF Back
  <2> HIDE DEF start
  <2>2. CASE k <= Size - start
    BY <1>1, <1>2, <2>1, <2>2
  <2>3. CASE Size - start < k /\ k < Size - 1
    <3>1. Search[k] = k - (Size - start) + 1
      BY <1>1, <1>2, <2>3
    <3> QED BY <1>2, <2>1, <2>3, <3>1
  <2> QED BY <1>2, <2>2, <2>3
<1> HIDE DEF start
<1>4. CASE start <= c
  <2>1. PICK n \in 0..Size : n = c - start
    BY <1>2, <1>4
  <2>2. n <= Size - start /\ n < Size - 1 /\ start + n = c
    BY <1>2, <1>4, <2>1
  <2>3. Search[n] = c
    BY <1>1, <2>2
  <2> QED BY <1>2, <1>3, <2>2, <2>3
<1>5. CASE c < start
  <2>1. PICK n \in 0..Size : n = c + (Size - start) - 1
    BY <1>2, <1>5
  <2>2. Size - start < n /\ n < Size - 1 /\ n - (Size - start) + 1 = c
    BY <1>2, <1>5, <2>1
  <2>4. n <= Size - 1
    BY <1>2, <2>2
  <2>3. Search[n] = c
    BY <1>1, <2>2, <2>4
  <2> QED BY <1>2, <1>3, <2>2, <2>3
<1> QED BY <1>2, <1>4, <1>5

(* find_fat_free finds a free cluster if it sees one. *)
LEMMA FirstFreeType ==
  ASSUME hint \in MaybeCluster, NEW S \in SUBSET Clusters
  PROVE  /\ S = {} => FirstFree(S) = LAST
         /\ S # {} => FirstFree(S) \in S
<1> DEFINE K == {k \in 0..Size : Search[k] \in S \/ Back(k)}
<1>1. FirstFree(S) = IF Search[Min(K)] \in S THEN Search[Min(K)] ELSE LAST
  BY DEF FirstFree
<1>2. CASE S = {}
  BY <1>1, <1>2
<1>3. CASE S # {}
  <2>1. PICK c \in Clusters : c \in S
    BY <1>3
  <2>2. PICK n \in 0..Size : Search[n] = c /\ \A k \in 0..Size : Back(k) => n < k
    BY <2>1, Visited
  <2>3. n \in K /\ K \in SUBSET Nat
    BY <2>1, <2>2
  <2>4. \A k \in K : k \in 0..Size /\ (Search[k] \in S \/ Back(k))
    OBVIOUS
  <2> HIDE DEF K
  <2>5. PICK m : m = Min(K)
    OBVIOUS
  <2>6. m \in K /\ m <= n
    BY <2>3, <2>5, MinType
  <2>7. m \in 0..Size /\ ~ (n < m)
    BY <2>4, <2>6
  <2>8. Search[m] \in S
    BY <2>2, <2>4, <2>6, <2>7
  <2> QED BY <1>1, <1>3, <2>5, <2>8
<1> QED BY <1>2, <1>3

LEMMA SearchType ==
  ASSUME hint \in MaybeCluster, NEW e, NEW c \in find_fat_free(e)
  PROVE  /\ c \in Free \union {LAST}
         /\ c # LAST => c \in Clusters /\ fat[c] = FREE
         /\ HintAfter(c) \in MaybeCluster
         /\ ~e /\ c = LAST => Free = {}
<1>1. PICK S \in Seen(e) : c = FirstFree(S)
  BY DEF find_fat_free
<1>2. S \in SUBSET Free /\ (~e => S = Free) /\ S \in SUBSET Clusters
  BY <1>1 DEF Seen, Free
<1>3. c \in Free \union {LAST} /\ (~e /\ c = LAST => Free = {})
  BY <1>1, <1>2, FirstFreeType, Numbers DEF Free
<1> QED BY <1>3, Numbers DEF HintAfter, MaybeCluster, Free

(* A table of which changes were dropped is a table. *)
LEMMA DroppedType ==
  ASSUME NEW g \in Table, NEW x \in Dropped(g)
  PROVE  x \in Table
<1>1. Stale \subseteq 0..LAST
  BY FatAssumption DEF LAST
<1>2. PICK S \in SUBSET Clusters, v \in [Clusters -> Stale] :
        x = [c \in Clusters |-> IF c \in S THEN v[c] ELSE g[c]]
  BY DEF Dropped
<1>3. \A c \in Clusters : v[c] \in 0..LAST /\ g[c] \in 0..LAST
  BY <1>1 DEF Table
<1> QED BY <1>2, <1>3 DEF Table

(* The count of free clusters. *)
LEMMA FreeType ==
  ASSUME NEW g
  PROVE  /\ IsFiniteSet({c \in Clusters : g[c] = FREE})
         /\ Cardinality({c \in Clusters : g[c] = FREE}) \in 0..(Size - 1)
<1>1. Size \in Nat /\ 2 \in Nat /\ Size >= 2
  BY Numbers
<1>2. IsFiniteSet(2..Size) /\ Cardinality(2..Size) = Size - 1
  BY <1>1, FS_Interval
<1>3. {c \in Clusters : g[c] = FREE} \subseteq 2..Size
  BY DEF Clusters
<1>4. /\ IsFiniteSet({c \in Clusters : g[c] = FREE})
      /\ Cardinality({c \in Clusters : g[c] = FREE}) <= Size - 1
  BY <1>2, <1>3, FS_Subset
<1> QED BY <1>4, FS_CardinalityType, Numbers

LEMMA LinkCounts ==
  ASSUME nfree \in Int, FreeCountExact, NEW g, fat' = g, nfree' = Counted(g),
         UNCHANGED damaged, errors' = 0 => errors = 0
  PROVE  FreeCountExact'
<1>1. /\ Cardinality(Free) \in 0..(Size - 1)
      /\ Cardinality({c \in Clusters : g[c] = FREE}) \in 0..(Size - 1)
  BY FreeType DEF Free
<1>2. Free' = {c \in Clusters : g[c] = FREE}
  BY DEF Free
<1>3. CASE nfree = UNKNCLSTFREE
  BY <1>3 DEF Counted, FreeCountExact, UNKNCLSTFREE
<1>4. CASE nfree # UNKNCLSTFREE
  <2>1. PICK a, b : a = Cardinality(Free) /\ b = Cardinality({c \in Clusters : g[c] = FREE})
    OBVIOUS
  <2>4. a \in Nat /\ b \in Nat
    BY <1>1, <2>1
  <2>2. nfree' = nfree + b - a /\ Cardinality(Free') = b
    BY <1>2, <1>4, <2>1 DEF Counted
  <2>3. ASSUME ~damaged' PROVE nfree' <= b /\ (errors' = 0 => nfree' = b)
    BY <1>4, <2>1, <2>2, <2>3, <2>4 DEF FreeCountExact
  <2> QED BY <2>2, <2>3 DEF FreeCountExact
<1> QED BY <1>3, <1>4

LEMMA CountType ==
  ASSUME nfree \in Int, NEW g
  PROVE  Counted(g) \in Int
<1>1. /\ Cardinality(Free) \in 0..(Size - 1)
      /\ Cardinality({c \in Clusters : g[c] = FREE}) \in 0..(Size - 1)
  BY FreeType DEF Free
<1>2. UNKNCLSTFREE \in Int
  BY Numbers
<1> QED BY <1>1, <1>2 DEF Counted
-----------------------------------------------------------------------------
(* The inductive invariant *)

Results == {"ok", "full", "error"}

\* The table and the free-space fields.
TableOK == fat \in Table /\ hint \in MaybeCluster /\ nfree \in Int /\ FreeCountExact

\* The directory and the SFT.
EntriesOK == dir \in [Names -> Entry] /\ sft \in [Slots -> Node]

\* The history.
HistoryOK == errors \in 0..MaxErrors /\ damaged \in BOOLEAN

\* The call c with the node x, and the result r: what is gathered is part of what
\* is to be transferred and ends at the position, a write ends in the bounds, a
\* read before the end of the file; the result is that of an earlier call only
\* while no call runs.
CallOK(c, x, r) ==
  /\ c \in Call /\ x \in Node /\ r \in Results
  /\ c.op \in {"create", "delete", "mkdir", "rename"} => c.name \in Names
  /\ c.op = "create" => c.name \in Files
  /\ c.at \in {"data", "more"} => c.op \in {"read", "write"}
  /\ c.at = "extend" => c.op \in {"write", "truncate"}
  /\ c.at # "more" => c.got = 0
  /\ c.got <= c.left /\ c.got <= x.pos
  /\ c.op = "write" => x.pos + c.left <= MaxLen + c.got
  /\ c.op = "read" => x.pos <= x.len
  /\ c = NoCall \/ r = "ok"

FatInv == TableOK /\ EntriesOK /\ HistoryOK /\ CallOK(call, fn, res) /\ FullIsTrue

LEMMA NumbersMore ==
  /\ CS \in Nat /\ CS > 0 /\ SftCount \in Nat /\ MaxLen \in Nat /\ MaxCount \in Nat
  /\ MaxErrors \in Nat
  /\ FREE \in MaybeCluster /\ Clusters \subseteq MaybeCluster /\ MaybeCluster \subseteq 0..LAST
  /\ MaybeCluster \subseteq Nat /\ UNKNCLUSTER \in MaybeCluster
  /\ Files \subseteq Names /\ Dirs \subseteq Names /\ NoName \notin Names
BY FatAssumption, Numbers DEF MaybeCluster, Names

LEMMA NothingType ==
  NoNode \in Node /\ NoCall \in Call /\ NoEntry \in Entry
BY NumbersMore, Numbers DEF NoNode, Node, NoCall, Call, NoEntry, Entry

LEMMA NothingRuns ==
  ASSUME NEW r \in Results
  PROVE  CallOK(NoCall, NoNode, r)
BY NothingType, NumbersMore DEF CallOK, NoCall, NoNode

LEMMA ReturnOK ==
  ASSUME NEW r \in Results, Return(r)
  PROVE  CallOK(call', fn', res') /\ res' = r
BY NothingRuns DEF Return

LEMMA NotFull ==
  ASSUME res' # "full"
  PROVE  FullIsTrue'
BY DEF FullIsTrue

LEMMA StillFull ==
  ASSUME FullIsTrue, UNCHANGED <<fat, res, errors>>
  PROVE  FullIsTrue'
BY DEF FullIsTrue, Free

LEMMA DriveOK ==
  ASSUME HistoryOK, NEW e \in BOOLEAN, Drive(e)
  PROVE  errors' \in 0..MaxErrors /\ (errors' = 0 => ~e /\ errors = 0)
BY NumbersMore DEF HistoryOK, Drive

(* The table becomes g, or loses changes by an error e; d is whether the drive is
   in error in the step. *)
LEMMA TableBecomes ==
  ASSUME TableOK, HistoryOK, NEW d \in BOOLEAN, Drive(d), NEW g \in Table, NEW e, Becomes(g, e),
         nfree' \in Int, hint' \in MaybeCluster, ~damaged' => FreeCountExact'
  PROVE  TableOK' /\ HistoryOK'
<1>1. fat' \in Table /\ damaged' \in BOOLEAN
  <2>1. CASE fat' = g /\ UNCHANGED damaged
    BY <2>1 DEF HistoryOK
  <2>2. CASE Damage(g)
    BY <2>2, DroppedType DEF Damage
  <2> QED BY <2>1, <2>2 DEF Becomes
<1>2. FreeCountExact'
  BY DEF FreeCountExact
<1>3. Table' = Table /\ MaybeCluster' = MaybeCluster
  BY DEF Table, MaybeCluster
<1>4. errors' \in 0..MaxErrors
  BY DriveOK
<1> QED BY <1>1, <1>2, <1>3, <1>4 DEF TableOK, HistoryOK

LEMMA Undamaged ==
  ASSUME NEW g, NEW e, Becomes(g, e), ~damaged'
  PROVE  fat' = g /\ UNCHANGED damaged
BY DEF Becomes, Damage

LEMMA TableLinked ==
  ASSUME TableOK, HistoryOK, NEW d \in BOOLEAN, Drive(d), NEW g \in Table, NEW e, link_fat(g, e),
         hint' \in MaybeCluster
  PROVE  TableOK' /\ HistoryOK'
<1>1. Becomes(g, e) /\ nfree' = Counted(g) /\ nfree' \in Int
  BY CountType DEF link_fat, TableOK
<1>2. ~damaged' => FreeCountExact'
  BY <1>1, Undamaged, LinkCounts, DriveOK DEF TableOK
<1> QED BY <1>1, <1>2, TableBecomes

LEMMA TableKept ==
  ASSUME TableOK, HistoryOK, NEW d \in BOOLEAN, Drive(d), NEW e, Becomes(fat, e), UNCHANGED nfree,
         hint' \in MaybeCluster
  PROVE  TableOK' /\ HistoryOK'
<1>1. fat \in Table /\ nfree' \in Int
  BY DEF TableOK
<1>2. ~damaged' => FreeCountExact'
  BY Undamaged, DriveOK DEF TableOK, FreeCountExact, Free
<1> QED BY <1>1, <1>2, TableBecomes

LEMMA TableSame ==
  ASSUME TableOK, HistoryOK, NEW d \in BOOLEAN, Drive(d), NEW e, Becomes(fat, e),
         UNCHANGED <<hint, nfree>>
  PROVE  TableOK' /\ HistoryOK'
BY TableKept DEF TableOK

LEMMA NoError ==
  ASSUME HistoryOK, UNCHANGED errors
  PROVE  Drive(FALSE)
BY NumbersMore DEF Drive, HistoryOK

LEMMA TableUnchanged ==
  ASSUME TableOK, HistoryOK, UNCHANGED <<fat, hint, nfree, errors, damaged>>
  PROVE  TableOK' /\ HistoryOK'
BY DEF TableOK, HistoryOK, FreeCountExact, Free, Table, MaybeCluster

-----------------------------------------------------------------------------
(* extend *)

LEMMA MarkedType ==
  ASSUME fat \in Table, NEW c \in Clusters, NEW cur \in MaybeCluster
  PROVE  Marked(c) \in Table /\ HalfDone(c, cur) \in Table /\ Linked(c, cur) \in Table
<1>1. Marked(c) \in Table
  BY Numbers DEF Marked, Table
<1>2. cur # FREE => [Marked(c) EXCEPT ![cur] = c] \in Table
  BY <1>1, Numbers DEF Table
<1> QED BY <1>1, <1>2 DEF HalfDone, Linked

LEMMA ExtendOK ==
  ASSUME TableOK, HistoryOK, NEW e \in BOOLEAN, NEW cur \in MaybeCluster, NEW c,
         extend(cur, c, e), NEW d \in BOOLEAN, Drive(d)
  PROVE  TableOK' /\ HistoryOK' /\ c \in Clusters
<1>1. c \in Clusters /\ HintAfter(c) \in MaybeCluster
  BY SearchType DEF extend, TableOK
<1>2. Linked(c, cur) \in Table
  BY <1>1, MarkedType DEF TableOK
<1>3. link_fat(Linked(c, cur), e) /\ hint' \in MaybeCluster
  BY <1>1 DEF extend
<1> QED BY <1>1, <1>2, <1>3, TableLinked

LEMMA ExtendFailsOK ==
  ASSUME TableOK, HistoryOK, NEW e \in BOOLEAN, NEW cur \in MaybeCluster, extendFails(cur, e),
         cur # FREE => e \/ next_cluster(cur) = LAST, NEW d \in BOOLEAN, Drive(d)
  PROVE  TableOK' /\ HistoryOK' /\ (e \/ Free' = {})
<1>1. PICK c \in find_fat_free(e) :
        /\ hint' = HintAfter(c)
        /\ \/ (c = LAST \/ e) /\ Becomes(fat, e) /\ UNCHANGED nfree
           \/ /\ c # LAST /\ cur # FREE
              /\ e \/ NextIn(Marked(c), cur) # LAST
              /\ link_fat(HalfDone(c, cur), e)
  BY DEF extendFails
<1>2. /\ HintAfter(c) \in MaybeCluster
      /\ c # LAST => c \in Clusters
      /\ ~e /\ c = LAST => Free = {}
  BY SearchType DEF TableOK
<1>3. CASE (c = LAST \/ e) /\ Becomes(fat, e) /\ UNCHANGED nfree
  <2>1. TableOK' /\ HistoryOK'
    BY <1>1, <1>2, <1>3, TableKept
  <2>2. e \/ Free' = Free
    BY <1>3 DEF Free, Becomes
  <2> QED BY <1>2, <1>3, <2>1, <2>2
<1>4. CASE /\ c # LAST /\ cur # FREE
           /\ e \/ NextIn(Marked(c), cur) # LAST
           /\ link_fat(HalfDone(c, cur), e)
  <2>1. HalfDone(c, cur) \in Table
    BY <1>2, <1>4, MarkedType DEF TableOK
  <2>2. TableOK' /\ HistoryOK'
    BY <1>1, <1>2, <1>4, <2>1, TableLinked
  <2>3. ASSUME ~e PROVE FALSE
    <3>1. next_cluster(cur) = LAST
      BY <1>4, <2>3
    <3>2. cur \in Clusters /\ fat[cur] = LAST
      BY <3>1, Numbers DEF next_cluster, NextIn
    <3>3. Marked(c)[cur] = LAST
      BY <3>2, Numbers DEF Marked, TableOK, Table
    <3>4. NextIn(Marked(c), cur) = LAST
      BY <3>2, <3>3, Numbers DEF NextIn
    <3> QED BY <1>4, <2>3, <3>4
  <2> QED BY <2>2, <2>3
<1> QED BY <1>1, <1>3, <1>4

-----------------------------------------------------------------------------
(* map_cluster *)

LEMMA DivBound ==
  ASSUME NEW a \in Nat, NEW b \in Nat, NEW n \in Nat, n > 0, a <= n * b
  PROVE  a \div n \in Nat /\ a \div n <= b
<1> DEFINE q == a \div n
<1>1. q \in Nat /\ n * q <= a
  OBVIOUS
<1> HIDE DEF q
<1>2. ASSUME b + 1 <= q PROVE FALSE
  <2>1. n * (b + 1) <= n * q
    BY <1>1, <1>2
  <2>2. n * (b + 1) = n * b + n
    OBVIOUS
  <2>3. n * b \in Nat /\ n * q \in Nat
    BY <1>1
  <2> QED BY <1>1, <2>1, <2>2, <2>3
<1>3. q <= b
  BY <1>1, <1>2
<1> QED BY <1>1, <1>3 DEF q

LEMMA RelclusterType ==
  ASSUME fn \in Node
  PROVE  relcluster \in 0..Size
<1>1. fn.pos \in 0..MaxLen
  BY DEF Node
<1>2. Offset \in Nat /\ Offset <= CS * Size
  <2>1. Offset \in 0..MaxLen
    BY <1>1, NumbersMore DEF Offset
  <2>2. CS * Size \in Nat /\ MaxLen <= CS * Size
    BY FatAssumption
  <2> QED BY <2>1, <2>2, NumbersMore
<1> QED BY <1>2, DivBound, Numbers, NumbersMore DEF relcluster

LEMMA SamePlace ==
  ASSUME NEW x \in Node
  PROVE  x = [x EXCEPT !.cur = x.cur, !.rel = x.rel]
<1>1. PICK y : y = [x EXCEPT !.cur = x.cur, !.rel = x.rel]
  OBVIOUS
<1>2. /\ y.file = x.file /\ y.start = x.start /\ y.len = x.len /\ y.cur = x.cur
      /\ y.rel = x.rel /\ y.pos = x.pos /\ y.clean = x.clean /\ y \in Node
  BY <1>1 DEF Node
<1> QED BY <1>1, <1>2 DEF Node

LEMMA RewoundType ==
  ASSUME fn \in Node
  PROVE  /\ Rewound \in Node /\ Rewound.rel <= relcluster /\ Links \in 0..Size
         /\ Rewound.rel + Links = relcluster
         /\ Rewound = [fn EXCEPT !.cur = Rewound.cur, !.rel = Rewound.rel]
<1>1. relcluster \in 0..Size /\ Size \in Nat
  BY RelclusterType, Numbers
<1>2. Rewound \in Node /\ Rewound.rel <= relcluster
  <2>1. fn.rel \in 0..Size /\ fn.start \in MaybeCluster
    BY DEF Node
  <2>2. CASE relcluster < fn.rel
    <3>1. Rewound = [fn EXCEPT !.cur = fn.start, !.rel = 0]
      BY <2>2 DEF Rewound
    <3>2. PICK y : y = [fn EXCEPT !.cur = fn.start, !.rel = 0]
      OBVIOUS
    <3>3. 0 \in 0..Size
      BY Numbers
    <3>4. y \in Node /\ y.rel = 0
      BY ONLY <3>2, <3>3, fn \in Node DEF Node
    <3> QED BY <1>1, <3>1, <3>2, <3>4
  <2>3. CASE fn.rel <= relcluster
    <3>1. Rewound = fn
      BY <1>1, <2>1, <2>3 DEF Rewound
    <3> QED BY <2>3, <3>1
  <2> QED BY <1>1, <2>1, <2>2, <2>3
<1>3. Rewound.rel \in 0..Size
  BY <1>2 DEF Node
<1>4. Rewound = [fn EXCEPT !.cur = Rewound.cur, !.rel = Rewound.rel]
  BY SamePlace DEF Rewound, Node
<1> QED BY <1>1, <1>2, <1>3, <1>4 DEF Links

LEMMA ReachedType ==
  ASSUME fat \in Table, fn \in Node, NEW i \in 0..Size, i <= Links, Ahead(i)
  PROVE  /\ Reached(i) \in Node /\ Reached(i).rel = Rewound.rel + i
         /\ Reached(i) = [fn EXCEPT !.cur = Reached(i).cur, !.rel = Reached(i).rel]
         /\ Reached(i).cur = Nth(Rewound.cur)[i]
<1>1. /\ Rewound \in Node /\ Links \in 0..Size /\ Rewound.rel + Links = relcluster
      /\ relcluster \in 0..Size
      /\ Rewound = [fn EXCEPT !.cur = Rewound.cur, !.rel = Rewound.rel]
  BY RewoundType, RelclusterType
<1> DEFINE n == Nth(Rewound.cur)[i]
<1>2. Rewound.cur \in MaybeCluster /\ Rewound.rel \in 0..Size /\ Size \in Nat
  BY <1>1, Numbers DEF Node
<1>3. n \in MaybeCluster
  <2>1. CASE i = 0
    <3>1. Nth(Rewound.cur)[0] = Rewound.cur
      BY <1>2, NthType, NumbersMore
    <3> QED BY <1>2, <2>1, <3>1
  <2>2. CASE i # 0
    BY <2>2, NumbersMore DEF Ahead
  <2> QED BY <2>1, <2>2
<1>4. Rewound.rel + i \in 0..Size
  BY <1>1, <1>2
<1>5. Reached(i) = [Rewound EXCEPT !.cur = n, !.rel = Rewound.rel + i]
  BY DEF Reached
<1> HIDE DEF n
<1>6. PICK w : w = Rewound
  OBVIOUS
<1>7. PICK v : v = Reached(i)
  OBVIOUS
<1>8. w \in Node /\ v = [w EXCEPT !.cur = n, !.rel = w.rel + i]
      /\ w.rel + i \in 0..Size /\ w = [fn EXCEPT !.cur = w.cur, !.rel = w.rel]
  BY <1>1, <1>4, <1>5, <1>6, <1>7
<1>9. v \in Node /\ v.rel = w.rel + i /\ v.cur = n
      /\ v = [fn EXCEPT !.cur = v.cur, !.rel = v.rel]
  BY ONLY <1>3, <1>8, fn \in Node DEF Node
<1> QED BY <1>6, <1>7, <1>9 DEF n

\* The node x is at another place of the same file.
SameFile(x) == x \in Node /\ x = [fn EXCEPT !.cur = x.cur, !.rel = x.rel]

LEMMA FoundType ==
  ASSUME fat \in Table, fn \in Node, NEW at, NEW x \in Found(at)
  PROVE  call.at = at /\ fn.cur # FREE /\ SameFile(x) /\ x.rel = relcluster
<1>1. /\ call.at = at /\ fn.cur # FREE /\ Ahead(Links) /\ x = Reached(Links)
  BY DEF Found
<1>2. Links \in 0..Size /\ Rewound.rel + Links = relcluster
  BY RewoundType
<1>3. Links <= Links
  BY <1>2
<1> QED BY <1>1, <1>2, <1>3, ReachedType DEF SameFile

LEMMA StopsType ==
  ASSUME fat \in Table, fn \in Node, NEW Ends, NEW e, NEW i \in Stops(Ends, e)
  PROVE  /\ i \in 0..Size /\ i < Links /\ Ahead(i) /\ SameFile(Reached(i))
         /\ Reached(i).rel < relcluster /\ fn.cur # FREE
         /\ e \/ next_cluster(Reached(i).cur) \in Ends
<1>1. /\ i \in 0..Links /\ i < Links /\ Ahead(i) /\ fn.cur # FREE
      /\ e \/ Nth(Rewound.cur)[i + 1] \in Ends
  BY DEF Stops
<1>2. Links \in 0..Size /\ Rewound.rel + Links = relcluster /\ Rewound \in Node
  BY RewoundType
<1>3. i \in 0..Size /\ i <= Links /\ i + 1 \in 1..Size /\ (i + 1) - 1 = i
  BY <1>1, <1>2, Numbers
<1>4. SameFile(Reached(i)) /\ Reached(i).rel = Rewound.rel + i
      /\ Reached(i).cur = Nth(Rewound.cur)[i]
  BY <1>1, <1>3, ReachedType DEF SameFile
<1>5. Rewound.cur \in 0..LAST /\ Rewound.rel \in Nat
  <2>1. Rewound.cur \in MaybeCluster /\ Rewound.rel \in 0..Size
    BY <1>2 DEF Node
  <2>2. Rewound.cur \in 0..LAST
    BY <2>1, NumbersMore
  <2>3. Rewound.rel \in Nat
    BY <2>1
  <2> QED BY <2>2, <2>3
<1>6. Nth(Rewound.cur)[i + 1] = next_cluster(Nth(Rewound.cur)[i])
  BY <1>3, <1>5, NthType
<1>7. Reached(i).rel < relcluster
  BY <1>1, <1>2, <1>3, <1>4, <1>5
<1> QED BY <1>1, <1>3, <1>4, <1>6, <1>7

LEMMA NotFoundType ==
  ASSUME fat \in Table, fn \in Node, NEW at, NEW e, NEW x \in NotFound(at, e)
  PROVE  call.at = at /\ SameFile(x)
<1>1. SameFile(fn)
  BY SamePlace DEF SameFile
<1>2. ASSUME NEW Ends, NEW i \in Stops(Ends, e) PROVE SameFile(Reached(i))
  BY <1>2, StopsType
<1> QED BY <1>1, <1>2 DEF NotFound

LEMMA AtEndType ==
  ASSUME fat \in Table, fn \in Node, NEW x \in AtEnd
  PROVE  /\ Writing /\ SameFile(x)
         /\ x.cur = FREE => x = fn
         /\ x.cur # FREE => x.rel < relcluster /\ next_cluster(x.cur) = LAST
<1>1. SameFile(fn)
  BY SamePlace DEF SameFile
<1>2. ASSUME NEW i \in Stops({LAST}, FALSE)
      PROVE  /\ SameFile(Reached(i)) /\ Reached(i).rel < relcluster
             /\ next_cluster(Reached(i).cur) = LAST
  <2>1. FALSE \/ next_cluster(Reached(i).cur) \in {LAST}
    BY <1>2, StopsType, Zenon
  <2> QED BY <1>2, <2>1, StopsType
<1>3. next_cluster(FREE) # LAST
  BY Numbers DEF next_cluster, NextIn
<1> QED BY <1>1, <1>2, <1>3 DEF AtEnd
-----------------------------------------------------------------------------
(* Nodes, calls and the SFT *)

SFT == [Slots -> Node]

LEMMA NodeFields ==
  ASSUME NEW x \in Node
  PROVE  /\ x.file \in Files \union {NoName} /\ x.start \in MaybeCluster
         /\ x.len \in 0..MaxLen /\ x.cur \in MaybeCluster /\ x.rel \in 0..Size
         /\ x.pos \in 0..MaxLen /\ x.clean \in BOOLEAN
BY DEF Node

LEMMA WithLen ==
  ASSUME NEW x \in Node, NEW n \in 0..MaxLen, NEW y, y = [x EXCEPT !.len = n]
  PROVE  y \in Node /\ y.len = n /\ y.pos = x.pos
BY DEF Node

LEMMA WithPos ==
  ASSUME NEW x \in Node, NEW n \in 0..MaxLen, NEW y, y = [x EXCEPT !.pos = n]
  PROVE  y \in Node /\ y.len = x.len /\ y.pos = n
BY DEF Node

LEMMA WithShare ==
  ASSUME NEW x \in Node, NEW c \in MaybeCluster, NEW n \in 0..MaxLen
  PROVE  [x EXCEPT !.start = c, !.len = n] \in Node
BY DEF Node

LEMMA SameFileFields ==
  ASSUME fn \in Node, NEW x, SameFile(x)
  PROVE  /\ x \in Node /\ x.file = fn.file /\ x.start = fn.start /\ x.len = fn.len
         /\ x.pos = fn.pos /\ x.clean = fn.clean
BY DEF SameFile, Node

LEMMA MergedType ==
  ASSUME NEW t \in SFT, NEW x \in Node, NEW s
  PROVE  Merged(t, x, s) \in SFT
<1>1. x.start \in MaybeCluster /\ x.len \in 0..MaxLen
  BY NodeFields
<1>2. ASSUME NEW o \in Slots
      PROVE  (IF o # s /\ t[o].file = x.file
              THEN [t[o] EXCEPT !.start = x.start, !.len = x.len] ELSE t[o]) \in Node
  <2>1. t[o] \in Node
    BY DEF SFT
  <2>2. [t[o] EXCEPT !.start = x.start, !.len = x.len] \in Node
    BY <1>1, <2>1, WithShare
  <2> QED BY <2>1, <2>2
<1> QED BY <1>2 DEF Merged, SFT

LEMMA StoredType ==
  ASSUME NEW t \in SFT, NEW x \in Node, fnode_to_sft(t, x)
  PROVE  sft' \in SFT
BY DEF fnode_to_sft, SFT

LEMMA CallFields ==
  ASSUME NEW c \in Call
  PROVE  /\ c.name \in Names \union {NoName} /\ c.slot \in 0..SftCount
         /\ c.st \in Clusters \union {LAST} /\ c.left \in 0..MaxCount
         /\ c.got \in 0..MaxCount /\ c.want \in 0..LAST
         /\ c.op \in {"none", "read", "write", "truncate", "create", "delete", "mkdir", "rename"}
         /\ c.at \in {"none", "extend", "data", "more", "shrink", "wipe", "slot"}
BY DEF Call

LEMMA WithAt ==
  ASSUME NEW c \in Call, NEW at \in {"data", "shrink", "wipe"}, NEW n \in Clusters \union {LAST},
         NEW d, d = [c EXCEPT !.at = at, !.st = n] \/ (d = [c EXCEPT !.at = at] /\ n = c.st)
  PROVE  d \in Call /\ d.op = c.op /\ d.at = at /\ d.name = c.name
         /\ d.left = c.left /\ d.got = c.got /\ d.st = n
BY DEF Call

-----------------------------------------------------------------------------
(* The transfer *)

LEMMA TransferOK ==
  ASSUME CallOK(call, fn, res), call.op \in {"read", "write"}, res = "ok",
         NEW t \in SFT, NEW x \in Node, NEW got \in 0..call.left, got <= x.pos,
         call.op = "write" => x.pos + call.left <= MaxLen + got,
         call.op = "read" => x.pos <= x.len,
         NEW e \in BOOLEAN, Transfer(t, x, got, e)
  PROVE  sft' \in SFT /\ CallOK(call', fn', res') /\ res' # "full"
<1> DEFINE left == call.left - got
           write == call.op = "write"
           len == IF write THEN Max({x.len, x.pos}) ELSE x.len
           y == [x EXCEPT !.len = len]
           merged == IF write THEN Merged(t, y, call.slot) ELSE t
           done == left = 0 \/ (~write /\ y.pos >= y.len)
<1>1. call \in Call /\ call.left \in 0..MaxCount /\ x.pos \in 0..MaxLen /\ x.len \in 0..MaxLen
  BY NodeFields, CallFields DEF CallOK
<1>2. left \in 0..MaxCount /\ left = call.left - got
  BY <1>1, NumbersMore
<1>3. len \in 0..MaxLen /\ x.pos - got \in 0..MaxLen
  BY <1>1, MaxOfTwo, NumbersMore
<1>4. y = [x EXCEPT !.len = IF write THEN Max({x.len, x.pos}) ELSE x.len]
  OBVIOUS
<1>5. \/ e /\ fnode_to_sft(t, [x EXCEPT !.pos = x.pos - got]) /\ Return("error")
      \/ ~e /\ done /\ fnode_to_sft(merged, y) /\ Return("ok")
      \/ /\ ~e /\ ~done
         /\ sft' = merged /\ fn' = y
         /\ call' = [call EXCEPT !.at = "data", !.left = left, !.got = 0, !.want = 0]
         /\ UNCHANGED res
  BY Zenon DEF Transfer
<1> HIDE DEF left, len, y
<1>6. y \in Node /\ y.len = len /\ y.pos = x.pos
  BY <1>3, WithLen DEF y
<1>7. merged \in SFT
  BY <1>6, MergedType
<1> HIDE DEF merged
<1>8. CASE e /\ fnode_to_sft(t, [x EXCEPT !.pos = x.pos - got]) /\ Return("error")
  <2>1. [x EXCEPT !.pos = x.pos - got] \in Node
    BY <1>3, WithPos
  <2>2. sft' \in SFT
    BY <1>8, <2>1, StoredType
  <2> QED BY <1>8, <2>2, ReturnOK DEF Results
<1>9. CASE ~e /\ done /\ fnode_to_sft(merged, y) /\ Return("ok")
  <2>1. sft' \in SFT
    BY <1>6, <1>7, <1>9, StoredType
  <2> QED BY <1>9, <2>1, ReturnOK DEF Results
<1>10. CASE /\ ~e /\ ~done
            /\ sft' = merged /\ fn' = y
            /\ call' = [call EXCEPT !.at = "data", !.left = left, !.got = 0, !.want = 0]
            /\ UNCHANGED res
  <2>1. 0 \in 0..MaxCount /\ 0 \in 0..LAST
    BY NumbersMore, Numbers
  <2>2. /\ call' \in Call /\ call'.op = call.op /\ call'.at = "data" /\ call'.name = call.name
        /\ call'.left = left /\ call'.got = 0
    BY ONLY <1>1, <1>2, <1>10, <2>1 DEF Call
  <2>3. fn' \in Node /\ fn'.len = len /\ fn'.pos = x.pos
    BY <1>6, <1>10
  <2>4. res' = "ok"
    BY <1>10
  <2>5. call'.op = "write" => fn'.pos + call'.left <= MaxLen + call'.got
    BY <1>1, <1>2, <2>2, <2>3, NumbersMore
  <2>6. call'.op = "read" => fn'.pos <= fn'.len
    BY <1>1, <2>2, <2>3 DEF len
  <2>7. call'.got <= call'.left /\ call'.got <= fn'.pos
    BY <1>1, <1>2, <2>2, <2>3
  <2>8. CallOK(call', fn', res')
    BY <2>2, <2>3, <2>4, <2>5, <2>6, <2>7 DEF CallOK, Results
  <2> QED BY <1>7, <1>10, <2>4, <2>8
<1> QED BY <1>5, <1>8, <1>9, <1>10

\* What is still to be transferred from p on.
LEMMA WantedType ==
  ASSUME CallOK(call, fn, res), call.op \in {"read", "write"}, NEW p \in Nat,
         p <= fn.pos
  PROVE  /\ Wanted(p) \in 0..call.left
         /\ call.op = "write" => Wanted(p) = call.left
         /\ call.op = "read" => p + Wanted(p) <= fn.len
<1>1. call.left \in 0..MaxCount /\ fn.len \in 0..MaxLen /\ fn.pos \in 0..MaxLen
  BY NodeFields, CallFields DEF CallOK
<1>2. CASE call.op = "write"
  BY <1>1, <1>2, NumbersMore DEF Wanted
<1>3. CASE call.op = "read"
  <2>1. fn.pos <= fn.len
    BY <1>3 DEF CallOK
  <2>2. fn.len - p \in Nat
    BY <1>1, <2>1, NumbersMore
  <2>3. Wanted(p) = IF call.left <= fn.len - p THEN call.left ELSE fn.len - p
    BY <1>1, <1>3, <2>2, MinOfTwo DEF Wanted
  <2> QED BY <1>1, <1>3, <2>2, <2>3, NumbersMore
<1> QED BY <1>2, <1>3

LEMMA GatherOK ==
  ASSUME CallOK(call, fn, res), call.op \in {"read", "write"}, res = "ok",
         NEW t \in SFT, NEW x, SameFile(x), NEW p \in Nat, p + call.got = fn.pos,
         NEW got \in 0..Wanted(p), NEW e \in BOOLEAN, Gather(t, x, p, got, e)
  PROVE  sft' \in SFT /\ CallOK(call', fn', res') /\ res' # "full"
<1> DEFINE y == [x EXCEPT !.pos = p + got]
<1>1. call \in Call /\ call.left \in 0..MaxCount /\ call.got \in 0..MaxCount
      /\ fn.len \in 0..MaxLen /\ fn.pos \in 0..MaxLen /\ fn \in Node
  BY NodeFields, CallFields DEF CallOK
<1>2. p <= fn.pos
  BY <1>1, NumbersMore
<1>3. /\ Wanted(p) \in 0..call.left
      /\ call.op = "write" => Wanted(p) = call.left
      /\ call.op = "read" => p + Wanted(p) <= fn.len
  BY <1>2, WantedType
<1>4. /\ got \in 0..call.left /\ got \in 0..MaxCount
      /\ call.op = "write" => p + call.left <= MaxLen
      /\ call.op = "read" => p + got <= fn.len
  BY <1>1, <1>3, NumbersMore DEF CallOK
<1>5. p + got \in 0..MaxLen
  BY <1>1, <1>3, <1>4, NumbersMore
<1>6. x \in Node /\ x.len = fn.len
  BY <1>1, SameFileFields
<1>7. \/ got >= Wanted(p) /\ Transfer(t, y, got, e)
      \/ /\ got < Wanted(p) /\ ~e
         /\ sft' = t /\ fn' = y
         /\ call' = [call EXCEPT !.at = "more", !.got = got, !.want = x.cur + 1]
         /\ UNCHANGED res
  BY DEF Gather
<1> HIDE DEF y
<1>8. y \in Node /\ y.len = fn.len /\ y.pos = p + got
  BY <1>5, <1>6, WithPos DEF y
<1>9. CASE got >= Wanted(p) /\ Transfer(t, y, got, e)
  <2>1. got <= y.pos
    BY <1>4, <1>8
  <2>2. call.op = "write" => y.pos + call.left <= MaxLen + got
    BY <1>1, <1>4, <1>8, NumbersMore
  <2>3. call.op = "read" => y.pos <= y.len
    BY <1>4, <1>8
  <2> QED BY <1>4, <1>8, <1>9, <2>1, <2>2, <2>3, TransferOK
<1>10. CASE /\ got < Wanted(p) /\ ~e
            /\ sft' = t /\ fn' = y
            /\ call' = [call EXCEPT !.at = "more", !.got = got, !.want = x.cur + 1]
            /\ UNCHANGED res
  <2>1. x.cur + 1 \in 0..LAST
    BY <1>6, NodeFields, AfterCluster DEF MaybeCluster
  <2>2. /\ call' \in Call /\ call'.op = call.op /\ call'.at = "more" /\ call'.name = call.name
        /\ call'.left = call.left /\ call'.got = got
    BY ONLY <1>1, <1>4, <1>10, <2>1 DEF Call
  <2>3. fn' \in Node /\ fn'.len = fn.len /\ fn'.pos = p + got
    BY <1>8, <1>10
  <2>4. res' = "ok"
    BY <1>10
  <2>5. call'.op = "write" => fn'.pos + call'.left <= MaxLen + call'.got
    BY <1>1, <1>4, <2>2, <2>3, NumbersMore
  <2>6. call'.op = "read" => fn'.pos <= fn'.len
    BY <1>4, <2>2, <2>3
  <2>7. call'.got <= call'.left /\ call'.got <= fn'.pos
    BY <1>1, <1>4, <2>2, <2>3
  <2>8. CallOK(call', fn', res')
    BY <2>2, <2>3, <2>4, <2>5, <2>6, <2>7 DEF CallOK, Results
  <2> QED BY <1>10, <2>4, <2>8
<1> QED BY <1>7, <1>9, <1>10
-----------------------------------------------------------------------------
(* One lemma per action *)

Directory == [Names -> Entry]

LEMMA InvParts ==
  ASSUME FatInv
  PROVE  /\ fat \in Table /\ fn \in Node /\ call \in Call /\ sft \in SFT /\ dir \in Directory
         /\ call.at # "none" => res = "ok"
BY DEF FatInv, TableOK, EntriesOK, CallOK, SFT, Directory, NoCall

LEMMA Preserved ==
  ASSUME TableOK', dir' \in Directory, sft' \in SFT, HistoryOK', CallOK(call', fn', res'),
         FullIsTrue'
  PROVE  FatInv'
BY DEF FatInv, EntriesOK, SFT, Directory, Slots, Names, Node, Entry, MaybeCluster, Clusters

LEMMA EntryType ==
  ASSUME NEW x \in Node
  PROVE  EntryOf(x) \in Entry
BY NodeFields DEF EntryOf, Entry

LEMMA DirWritten ==
  ASSUME dir \in Directory, NEW f \in Names, NEW x \in Entry, NEW e \in BOOLEAN, dir_write(f, x, e)
  PROVE  dir' \in Directory /\ Drive(e) /\ Becomes(fat, e)
<1>1. dir' \in Directory
  BY DEF dir_write, Directory
<1>2. Drive(e) /\ Becomes(fat, e)
  BY DEF dir_write, Becomes
<1> QED BY <1>1, <1>2

LEMMA StartOK ==
  ASSUME FatInv, NEW c, NEW x, CallOK(c, x, "ok"), Start(c, x)
  PROVE  FatInv'
<1>1. /\ call' = c /\ fn' = x /\ res' = "ok"
      /\ UNCHANGED <<fat, hint, nfree, dir, sft, errors, damaged>>
  BY DEF Start
<1>2. CallOK(call', fn', res')
  BY <1>1
<1>3. TableOK' /\ FullIsTrue' /\ HistoryOK'
  BY <1>1, TableUnchanged, NotFull DEF FatInv
<1>4. dir' \in Directory /\ sft' \in SFT
  BY <1>1, InvParts
<1> QED BY <1>2, <1>3, <1>4, Preserved

LEMMA FreeSlot ==
  ASSUME NEW f, OpenSlots(f) # {}
  PROVE  Min(OpenSlots(f)) \in Slots
<1>1. OpenSlots(f) \in SUBSET Nat
  BY NumbersMore DEF OpenSlots, Slots
<1>2. Min(OpenSlots(f)) \in OpenSlots(f)
  BY <1>1, MinType
<1> QED BY <1>2 DEF OpenSlots

LEMMA OpenOK ==
  ASSUME FatInv, NEW f \in Files, dos_open(f)
  PROVE  FatInv'
<1> DEFINE from == IF OpenSlots(f) = {} THEN dir[f] ELSE sft[Min(OpenSlots(f))]
           x == [NoNode EXCEPT !.file = f, !.start = from.start, !.cur = from.start,
                               !.len = from.len]
<1>1. /\ sft' = [sft EXCEPT ![Min(FreeSlots)] = x] /\ res' = "ok" /\ FreeSlots # {}
      /\ UNCHANGED <<fat, hint, nfree, dir, fn, call, errors, damaged>>
  BY DEF dos_open
<1>2. from.start \in MaybeCluster /\ from.len \in 0..MaxLen
  <2>1. CASE OpenSlots(f) = {}
    <3>1. from = dir[f] /\ dir[f] \in Entry
      BY <2>1, InvParts, NumbersMore DEF Directory
    <3> HIDE DEF from
    <3> QED BY <3>1 DEF Entry
  <2>2. CASE OpenSlots(f) # {}
    <3>1. from = sft[Min(OpenSlots(f))] /\ sft[Min(OpenSlots(f))] \in Node
      BY <2>2, InvParts, FreeSlot DEF SFT
    <3> HIDE DEF from
    <3> QED BY <3>1, NodeFields
  <2> QED BY <2>1, <2>2
<1> HIDE DEF from
<1>3. x \in Node
  BY <1>2, NothingType DEF Node
<1> HIDE DEF x
<1>4. sft' \in SFT
  BY <1>1, <1>3, InvParts, FreeSlot DEF SFT, FreeSlots
<1>5. CallOK(call', fn', res')
  BY <1>1 DEF FatInv, CallOK, Results
<1>6. TableOK' /\ FullIsTrue' /\ HistoryOK'
  BY <1>1, TableUnchanged, NotFull DEF FatInv
<1>7. dir' \in Directory
  BY <1>1, InvParts
<1> QED BY <1>4, <1>5, <1>6, <1>7, Preserved

LEMMA CloseOK ==
  ASSUME FatInv, NEW s \in Slots, NEW commitonly \in BOOLEAN, NEW e \in BOOLEAN,
         dos_close(s, commitonly, e)
  PROVE  FatInv'
<1> DEFINE x == sft[s]
           merged == IF x.clean THEN sft ELSE Merged(sft, x, s)
<1>1. /\ Idle /\ x.file # NoName
      /\ IF x.clean THEN Drive(e) /\ Becomes(fat, e) /\ UNCHANGED dir
         ELSE dir_write(x.file, EntryOf(x), e)
      /\ sft' = IF e \/ commitonly THEN merged ELSE [merged EXCEPT ![s] = NoNode]
      /\ res' = IF e THEN "error" ELSE "ok"
      /\ UNCHANGED <<hint, nfree, fn, call>>
  BY DEF dos_close
<1>2. x \in Node
  BY InvParts DEF SFT
<1>3. x.file \in Names
  BY <1>1, <1>2, NodeFields, NumbersMore
<1> HIDE DEF x
<1>4. dir' \in Directory /\ Drive(e) /\ Becomes(fat, e)
  <2>1. CASE x.clean
    BY <1>1, <2>1, InvParts
  <2>2. CASE ~x.clean
    BY <1>1, <1>2, <1>3, <2>2, DirWritten, EntryType, InvParts
  <2> QED BY <2>1, <2>2
<1>5. merged \in SFT
  BY <1>2, MergedType, InvParts
<1> HIDE DEF merged
<1>6. sft' \in SFT
  BY <1>1, <1>5, NothingType DEF SFT
<1>7. res' \in Results /\ res' # "full"
  BY <1>1 DEF Results
<1>8. CallOK(call', fn', res')
  BY <1>1, <1>7 DEF FatInv, CallOK, Idle
<1>9. TableOK' /\ HistoryOK' /\ FullIsTrue'
  BY <1>1, <1>4, <1>7, TableSame, NotFull DEF FatInv
<1> QED BY <1>4, <1>6, <1>8, <1>9, Preserved

LEMMA SeekOK ==
  ASSUME FatInv, NEW s \in Slots, NEW p \in 0..MaxLen, SftSeek(s, p)
  PROVE  FatInv'
<1>1. /\ sft' = [sft EXCEPT ![s].pos = p]
      /\ UNCHANGED <<fat, hint, nfree, dir, fn, call, res, errors, damaged>>
  BY DEF SftSeek
<1>2. sft[s] \in Node
  BY InvParts DEF SFT
<1>3. [sft[s] EXCEPT !.pos = p] \in Node
  BY <1>2, WithPos
<1>4. sft' \in SFT
  BY <1>1, <1>3, InvParts DEF SFT
<1>5. CallOK(call', fn', res') /\ TableOK' /\ FullIsTrue' /\ HistoryOK'
  BY <1>1, TableUnchanged, StillFull DEF FatInv
<1> QED BY <1>1, <1>4, <1>5, Preserved, InvParts

(* The clusters that are seen to be free. *)
LEMMA SeenType ==
  ASSUME NEW e, NEW S \in Seen(e)
  PROVE  /\ S \in SUBSET Free /\ (~e => S = Free) /\ S \in SUBSET Nat /\ S \in SUBSET Clusters
         /\ Cardinality(S) \in Nat /\ Cardinality(S) <= Cardinality(Free)
<1>1. S \in SUBSET Free /\ (~e => S = Free)
  BY DEF Seen
<1>2. IsFiniteSet(Free)
  BY FreeType DEF Free
<1>3. IsFiniteSet(S) /\ Cardinality(S) <= Cardinality(Free)
  BY <1>1, <1>2, FS_Subset
<1> QED BY <1>1, <1>3, FS_CardinalityType, Numbers DEF Free

LEMMA FreeOK ==
  ASSUME FatInv, NEW e \in BOOLEAN, dos_free(e)
  PROVE  FatInv'
<1>1. Drive(e) /\ Becomes(fat, e) /\ UNCHANGED <<dir, sft, fn, call, res>>
  BY DEF dos_free
<1>2. PICK S \in Seen(e) : nfree' = Cardinality(S) /\ hint' = IF S = {} THEN hint ELSE Min(S)
  BY DEF dos_free
<1>3. /\ S \in SUBSET Nat /\ S \in SUBSET Clusters /\ (~e => S = Free)
      /\ Cardinality(S) \in Nat /\ Cardinality(S) <= Cardinality(Free)
  BY SeenType
<1>4. hint' \in MaybeCluster /\ nfree' \in Int
  BY <1>2, <1>3, MinType, NumbersMore DEF FatInv, TableOK
<1>5. errors' = 0 => ~e /\ errors = 0
  BY <1>1, DriveOK DEF FatInv
<1>6. ~damaged' => FreeCountExact'
  <2> SUFFICES ASSUME ~damaged' PROVE FreeCountExact'
    OBVIOUS
  <2>1. fat' = fat
    BY <1>1, Undamaged
  <2>2. Free' = Free
    BY <2>1 DEF Free
  <2> QED BY <1>2, <1>3, <1>5, <2>2 DEF FreeCountExact
<1>7. TableOK' /\ HistoryOK'
  BY <1>1, <1>4, <1>6, TableBecomes, InvParts DEF FatInv
<1>8. FullIsTrue'
  <2> SUFFICES ASSUME errors' = 0, res' = "full" PROVE Free' = {}
    BY DEF FullIsTrue
  <2>1. fat' = fat /\ errors = 0 /\ res = "full"
    BY <1>1, <1>5 DEF Becomes
  <2> QED BY <2>1 DEF FatInv, FullIsTrue, Free
<1>9. CallOK(call', fn', res')
  BY <1>1 DEF FatInv
<1> QED BY <1>1, <1>7, <1>8, <1>9, Preserved, InvParts

LEMMA ReadFailsOK ==
  ASSUME FatInv, ReadFails
  PROVE  FatInv'
<1>1. /\ Idle /\ Drive(TRUE) /\ Becomes(fat, TRUE) /\ res' = "error"
      /\ UNCHANGED <<hint, nfree, dir, sft, fn, call>>
  BY DEF ReadFails
<1>2. TableOK' /\ HistoryOK' /\ FullIsTrue'
  BY <1>1, TableSame, NotFull DEF FatInv
<1>3. CallOK(call', fn', res')
  BY <1>1 DEF FatInv, CallOK, Idle, Results
<1> QED BY <1>1, <1>2, <1>3, Preserved, InvParts

LEMMA MediaOK ==
  ASSUME FatInv, bpb_to_dpb
  PROVE  FatInv'
<1>1. /\ hint' = UNKNCLUSTER /\ nfree' = UNKNCLSTFREE
      /\ UNCHANGED <<fat, dir, sft, fn, call, res, errors, damaged>>
  BY DEF bpb_to_dpb
<1>2. Table' = Table /\ MaybeCluster' = MaybeCluster
  BY DEF Table, MaybeCluster
<1>3. FreeCountExact' /\ nfree' \in Int /\ hint' \in MaybeCluster
  BY <1>1, Numbers, NumbersMore DEF FreeCountExact, UNKNCLSTFREE
<1>4. TableOK' /\ HistoryOK' /\ FullIsTrue' /\ CallOK(call', fn', res')
  BY <1>1, <1>2, <1>3, StillFull DEF FatInv, TableOK, HistoryOK
<1> QED BY <1>1, <1>4, Preserved, InvParts

LEMMA ReadOK ==
  ASSUME FatInv, NEW s \in Slots, NEW n \in 1..MaxCount, Read(s, n)
  PROVE  FatInv'
<1> DEFINE c == [NoCall EXCEPT !.op = "read", !.at = "data", !.slot = s, !.left = n]
<1>1. sft[s] \in Node /\ sft[s].pos < sft[s].len /\ Start(c, sft[s])
  BY InvParts DEF Read, SFT
<1>2. s \in 0..SftCount /\ n \in 0..MaxCount
  BY NumbersMore DEF Slots
<1>3. c \in Call /\ c.op = "read" /\ c.at = "data" /\ c.left = n /\ c.got = 0
  BY <1>2, NothingType DEF Call, NoCall
<1> HIDE DEF c
<1>4. sft[s].pos \in 0..MaxLen /\ sft[s].len \in 0..MaxLen
  BY <1>1, NodeFields
<1>5. c.got <= c.left /\ c.got <= sft[s].pos /\ sft[s].pos <= sft[s].len
  BY <1>1, <1>3, <1>4
<1>6. CallOK(c, sft[s], "ok")
  BY <1>1, <1>3, <1>5 DEF CallOK, Results
<1> QED BY <1>1, <1>6, StartOK

LEMMA WriteOK ==
  ASSUME FatInv, NEW s \in Slots, NEW n \in 0..MaxCount, Write(s, n)
  PROVE  FatInv'
<1> DEFINE x == sft[s]
           op == IF n = 0 THEN "truncate" ELSE "write"
           at == IF x.pos > x.len THEN "extend" ELSE IF n = 0 THEN "shrink" ELSE "data"
           c == [NoCall EXCEPT !.op = op, !.slot = s, !.at = at, !.left = n]
           y == [x EXCEPT !.clean = FALSE, !.len = IF n = 0 /\ x.pos <= x.len THEN x.pos ELSE @]
<1>1. x \in Node /\ x.pos + n <= MaxLen /\ Start(c, y)
  BY InvParts DEF Write, SFT
<1>2. s \in 0..SftCount
  BY NumbersMore DEF Slots
<1>3. x.pos \in 0..MaxLen /\ x.len \in 0..MaxLen
  BY <1>1, NodeFields
<1> HIDE DEF x
<1>4. y \in Node /\ y.pos = x.pos
  BY <1>1, <1>3 DEF Node
<1>5. op \in {"truncate", "write"} /\ at \in {"extend", "shrink", "data"}
      /\ (at = "data" => op = "write")
  OBVIOUS
<1> HIDE DEF op, at
<1>6. c \in Call /\ c.op = op /\ c.at = at /\ c.left = n /\ c.got = 0
  BY <1>2, <1>5, NothingType DEF Call, NoCall
<1> HIDE DEF c, y
<1>7. c.got <= c.left /\ c.got <= y.pos /\ y.pos + c.left <= MaxLen + c.got
  BY <1>1, <1>3, <1>4, <1>6, NumbersMore
<1>8. CallOK(c, y, "ok")
  BY <1>4, <1>5, <1>6, <1>7 DEF CallOK, Results
<1> QED BY <1>1, <1>8, StartOK

\* The calls that change the directory start.
LEMMA BeginOK ==
  ASSUME NEW op \in {"create", "delete", "mkdir", "rename"}, NEW at \in {"wipe", "slot"},
         NEW f \in Names, op = "create" => f \in Files, NEW s \in 0..SftCount,
         NEW st \in Clusters \union {LAST}, NEW c \in Call,
         c.op = op, c.at = at, c.name = f, c.left = 0, c.got = 0
  PROVE  CallOK(c, NoNode, "ok")
<1>1. NoNode.pos = 0 /\ c.got <= c.left /\ c.got <= NoNode.pos
  BY DEF NoNode
<1> QED BY <1>1, NothingType DEF CallOK, Results

LEMMA RestType ==
  ASSUME NEW c \in MaybeCluster
  PROVE  Rest(c) \in Clusters \union {LAST}
BY DEF Rest, MaybeCluster

LEMMA FreeSlotNumber ==
  ASSUME FreeSlots # {}
  PROVE  Min(FreeSlots) \in 0..SftCount
<1>1. Min(FreeSlots) \in Slots
  BY FreeSlot DEF FreeSlots
<1> QED BY <1>1, NumbersMore DEF Slots

LEMMA ReplaceOK ==
  ASSUME FatInv, NEW f \in Files, Replace(f)
  PROVE  FatInv'
<1> DEFINE m == Min(FreeSlots)
           r == Rest(dir[f].start)
           c == [NoCall EXCEPT !.op = "create", !.at = "wipe", !.name = f, !.slot = m, !.st = r]
<1>1. Start(c, NoNode) /\ FreeSlots # {}
  BY DEF Replace
<1>2. m \in 0..SftCount /\ f \in Names
  BY <1>1, FreeSlotNumber, NumbersMore
<1>3. r \in Clusters \union {LAST}
  <2>1. dir[f] \in Entry
    BY <1>2, InvParts DEF Directory
  <2> QED BY <2>1, RestType DEF Entry
<1> HIDE DEF m, r
<1>4. c \in Call /\ c.op = "create" /\ c.at = "wipe" /\ c.name = f /\ c.left = 0 /\ c.got = 0
  BY <1>2, <1>3, NothingType DEF Call, NoCall
<1> HIDE DEF c
<1> QED BY <1>1, <1>2, <1>3, <1>4, BeginOK, StartOK

LEMMA CreateOK ==
  ASSUME FatInv, NEW f \in Files, NEW at \in alloc_find_free, Create(f, at)
  PROVE  FatInv'
<1> DEFINE m == Min(FreeSlots)
           c == [NoCall EXCEPT !.op = "create", !.at = at, !.name = f, !.slot = m]
<1>1. Start(c, NoNode) /\ FreeSlots # {}
  BY DEF Create
<1>2. m \in 0..SftCount /\ f \in Names /\ at \in {"wipe", "slot"}
  BY <1>1, FreeSlotNumber, NumbersMore DEF alloc_find_free
<1> HIDE DEF m
<1>3. /\ c \in Call /\ c.op = "create" /\ c.at = at /\ c.name = f /\ c.left = 0 /\ c.got = 0
      /\ c.st \in Clusters \union {LAST}
  BY <1>2, NothingType DEF Call, NoCall
<1> HIDE DEF c
<1> QED BY <1>1, <1>2, <1>3, BeginOK, StartOK

LEMMA BeginDirOK ==
  ASSUME FatInv, NEW f \in Names,
         \/ dos_delete(f)
         \/ \E at \in alloc_find_free : dos_mkdir(f, at) \/ dos_rename(f, at)
  PROVE  FatInv'
<1>1. CASE dos_delete(f)
  <2> DEFINE r == Rest(dir[f].start)
             c == [NoCall EXCEPT !.op = "delete", !.at = "wipe", !.name = f, !.st = r]
  <2>1. Start(c, NoNode)
    BY <1>1 DEF dos_delete
  <2>2. r \in Clusters \union {LAST}
    <3>1. dir[f] \in Entry
      BY InvParts DEF Directory
    <3> QED BY <3>1, RestType DEF Entry
  <2> HIDE DEF r
  <2>3. /\ c \in Call /\ c.op = "delete" /\ c.at = "wipe" /\ c.name = f /\ c.left = 0
        /\ c.got = 0 /\ c.slot \in 0..SftCount
    BY <2>2, NothingType DEF Call, NoCall
  <2> HIDE DEF c
  <2> QED BY <2>1, <2>2, <2>3, BeginOK, StartOK
<1>2. ASSUME NEW at \in alloc_find_free, dos_mkdir(f, at) \/ dos_rename(f, at)
      PROVE  FatInv'
  <2>1. PICK op \in {"mkdir", "rename"} :
          Start([NoCall EXCEPT !.op = op, !.at = at, !.name = f], NoNode)
    BY <1>2 DEF dos_mkdir, dos_rename
  <2>2. at \in {"wipe", "slot"}
    BY DEF alloc_find_free
  <2> DEFINE c == [NoCall EXCEPT !.op = op, !.at = at, !.name = f]
  <2>3. /\ c \in Call /\ c.op = op /\ c.at = at /\ c.name = f /\ c.left = 0 /\ c.got = 0
        /\ c.slot \in 0..SftCount /\ c.st \in Clusters \union {LAST}
    BY <2>2, NothingType DEF Call, NoCall
  <2>4. Start(c, NoNode)
    BY <2>1
  <2> HIDE DEF c
  <2> QED BY <2>2, <2>3, <2>4, BeginOK, StartOK
<1> QED BY <1>1, <1>2

LEMMA RequestOK ==
  ASSUME FatInv, Request
  PROVE  FatInv'
BY OpenOK, ReplaceOK, CreateOK, BeginDirOK, CloseOK, SeekOK, ReadOK, WriteOK, FreeOK,
   ReadFailsOK, MediaOK, NumbersMore DEF Request

LEMMA MapExtendOK ==
  ASSUME FatInv, NEW e \in BOOLEAN, MapExtend(e)
  PROVE  FatInv'
<1>1. fat \in Table /\ fn \in Node /\ TableOK /\ HistoryOK
  BY InvParts DEF FatInv
<1>2. PICK x \in AtEnd, c \in Clusters :
        /\ extend(x.cur, c, e) /\ Drive(e)
        /\ fn' = IF x.cur = FREE THEN [x EXCEPT !.start = c, !.cur = c]
                 ELSE [x EXCEPT !.cur = c, !.rel = x.rel + 1]
  BY DEF MapExtend
<1>3. /\ SameFile(x) /\ x \in Node /\ x.pos = fn.pos /\ x.len = fn.len
      /\ x.cur # FREE => x.rel < relcluster
  BY <1>1, AtEndType, SameFileFields
<1>4. x.cur \in MaybeCluster /\ x.rel \in 0..Size /\ relcluster \in 0..Size /\ c \in MaybeCluster
  BY <1>1, <1>3, NodeFields, RelclusterType, NumbersMore
<1>5. TableOK' /\ HistoryOK'
  BY <1>1, <1>2, <1>4, ExtendOK
<1>6. fn' \in Node /\ fn'.len = fn.len /\ fn'.pos = fn.pos
  <2>1. CASE x.cur = FREE
    <3>1. fn' = [x EXCEPT !.start = c, !.cur = c]
      BY <1>2, <2>1
    <3> QED BY ONLY <1>3, <1>4, <3>1 DEF Node
  <2>2. CASE x.cur # FREE
    <3>1. x.rel + 1 \in 0..Size
      BY <1>3, <1>4, <2>2, Numbers
    <3>2. fn' = [x EXCEPT !.cur = c, !.rel = x.rel + 1]
      BY <1>2, <2>2
    <3> QED BY ONLY <1>3, <1>4, <3>1, <3>2 DEF Node
  <2> QED BY <2>1, <2>2
<1>7. UNCHANGED <<dir, sft, call, res>> /\ call.at # "none"
  BY DEF MapExtend, Mapping
<1>8. res = "ok" /\ CallOK(call, fn, res)
  BY <1>7, InvParts DEF FatInv
<1>9. CallOK(call', fn', res')
  BY <1>6, <1>7, <1>8 DEF CallOK
<1>10. FullIsTrue'
  BY <1>7, <1>8, NotFull
<1> QED BY <1>5, <1>7, <1>9, <1>10, Preserved, InvParts

LEMMA LocatedOK ==
  ASSUME FatInv, NEW e \in BOOLEAN, Located(e)
  PROVE  FatInv'
<1>1. fat \in Table /\ fn \in Node /\ CallOK(call, fn, res) /\ sft \in SFT
  BY InvParts DEF FatInv
<1>2. PICK x \in Found("data") :
        Gather(IF call.op = "write" THEN Merged(sft, x, call.slot) ELSE sft,
               x, x.pos, Min({CS - (x.pos % CS), Wanted(x.pos)}), e)
  BY DEF Located
<1> DEFINE t == IF call.op = "write" THEN Merged(sft, x, call.slot) ELSE sft
           got == Min({CS - (x.pos % CS), Wanted(x.pos)})
<1>3. call.at = "data" /\ SameFile(x) /\ x \in Node /\ x.pos = fn.pos
  BY <1>1, FoundType, SameFileFields
<1>4. call.op \in {"read", "write"} /\ res = "ok" /\ call.got = 0
  BY <1>1, <1>3 DEF CallOK, NoCall
<1>5. t \in SFT
  BY <1>1, <1>3, MergedType
<1>6. x.pos \in Nat /\ x.pos + call.got = fn.pos /\ x.pos <= fn.pos
  BY <1>3, <1>4, NodeFields
<1>7. Wanted(x.pos) \in 0..call.left
  BY <1>1, <1>4, <1>6, WantedType
<1>8. got \in 0..Wanted(x.pos)
  <2>1. call.left \in Nat
    BY <1>1, CallFields DEF CallOK
  <2>2. CS - (x.pos % CS) \in Nat
    BY <1>6, NumbersMore
  <2> QED BY <1>7, <2>1, <2>2, MinOfTwo
<1>9. Gather(t, x, x.pos, got, e)
  BY <1>2
<1> HIDE DEF t, got
<1>10. sft' \in SFT /\ CallOK(call', fn', res') /\ res' # "full"
  BY <1>1, <1>3, <1>4, <1>5, <1>6, <1>8, <1>9, GatherOK
<1>11. Drive(e) /\ Becomes(fat, e) /\ UNCHANGED <<hint, nfree, dir>>
  BY DEF Located
<1>12. HistoryOK' /\ FullIsTrue' /\ TableOK'
  BY <1>10, <1>11, NotFull, TableSame DEF FatInv
<1> QED BY <1>10, <1>11, <1>12, Preserved, InvParts

\* What is gathered is transferred, from a node at another place of the file.
LEMMA FlushOK ==
  ASSUME FatInv, NEW e \in BOOLEAN, NEW x, SameFile(x), call.at = "more",
         Transfer(sft, x, call.got, e)
  PROVE  sft' \in SFT /\ CallOK(call', fn', res') /\ res' # "full"
<1>1. fn \in Node /\ call \in Call /\ CallOK(call, fn, res) /\ sft \in SFT /\ res = "ok"
  BY InvParts DEF FatInv
<1>2. x \in Node /\ x.pos = fn.pos /\ x.len = fn.len
  BY <1>1, SameFileFields
<1>3. /\ call.op \in {"read", "write"} /\ call.got <= call.left /\ call.got <= x.pos
      /\ call.op = "write" => x.pos + call.left <= MaxLen + call.got
      /\ call.op = "read" => x.pos <= x.len
  BY <1>1, <1>2 DEF CallOK
<1>4. call.got \in 0..call.left
  BY <1>1, <1>3, CallFields
<1> QED BY <1>1, <1>2, <1>3, <1>4, TransferOK

LEMMA GatheredOK ==
  ASSUME FatInv, NEW e \in BOOLEAN, NEW t \in BOOLEAN, Gathered(e, t)
  PROVE  FatInv'
<1> DEFINE p == fn.pos - call.got
           got(q) == Min({call.got + CS, Wanted(q)})
<1>1. fat \in Table /\ fn \in Node /\ CallOK(call, fn, res) /\ sft \in SFT
  BY InvParts DEF FatInv
<1>2. /\ \/ \E x \in Found("more") :
              IF x.cur = call.want THEN Gather(sft, x, p, got(p), t)
              ELSE Transfer(sft, x, call.got, t)
         \/ \E x \in NotFound("more", e) : Transfer(sft, x, call.got, t)
      /\ Drive(e \/ t) /\ Becomes(fat, e)
      /\ UNCHANGED <<hint, nfree, dir>>
  BY DEF Gathered
<1>3. PICK x : /\ SameFile(x) /\ call.at = "more"
               /\ Gather(sft, x, p, got(p), t) \/ Transfer(sft, x, call.got, t)
  BY <1>1, <1>2, FoundType, NotFoundType
<1>4. sft' \in SFT /\ CallOK(call', fn', res') /\ res' # "full"
  <2>1. CASE Gather(sft, x, p, got(p), t)
    <3>1. call.op \in {"read", "write"} /\ res = "ok"
      BY <1>1, <1>3 DEF CallOK, NoCall
    <3>2. fn.pos \in Nat /\ call.got \in Nat /\ call.left \in Nat /\ call.got <= fn.pos
      BY <1>1, NodeFields, CallFields DEF CallOK
    <3>3. p \in Nat /\ p <= fn.pos /\ p + call.got = fn.pos
      BY <3>2
    <3> HIDE DEF p
    <3>4. Wanted(p) \in 0..call.left
      BY <1>1, <3>1, <3>3, WantedType
    <3>5. got(p) \in 0..Wanted(p)
      <4>1. call.got + CS \in Nat
        BY <3>2, NumbersMore
      <4> QED BY <3>2, <3>4, <4>1, MinOfTwo
    <3> HIDE DEF got
    <3> QED BY <1>1, <1>3, <2>1, <3>1, <3>3, <3>5, GatherOK
  <2>2. CASE Transfer(sft, x, call.got, t)
    BY <1>3, <2>2, FlushOK
  <2> QED BY <1>3, <2>1, <2>2
<1>5. HistoryOK' /\ FullIsTrue' /\ TableOK'
  <2>1. PICK d \in BOOLEAN : d = (e \/ t)
    OBVIOUS
  <2> QED BY <1>2, <1>4, <2>1, NotFull, TableSame DEF FatInv
<1> QED BY <1>2, <1>4, <1>5, Preserved, InvParts

LEMMA ExtendedOK ==
  ASSUME FatInv, Extended
  PROVE  FatInv'
<1>1. fat \in Table /\ fn \in Node /\ CallOK(call, fn, res) /\ sft \in SFT
  BY InvParts DEF FatInv
<1>2. PICK x \in Found("extend") : fn' = [x EXCEPT !.len = x.pos]
                                   /\ sft' = Merged(sft, [x EXCEPT !.len = x.pos], call.slot)
  BY DEF Extended
<1>3. call.at = "extend" /\ x \in Node /\ x.pos = fn.pos
  BY <1>1, FoundType, SameFileFields
<1>4. fn' \in Node /\ fn'.len = x.pos /\ fn'.pos = x.pos
  BY <1>2, <1>3, NodeFields, WithLen
<1>5. sft' \in SFT
  BY <1>1, <1>2, <1>4, MergedType
<1> DEFINE at == IF call.op = "truncate" THEN "shrink" ELSE "data"
<1>6. call' = [call EXCEPT !.at = at] /\ UNCHANGED <<fat, hint, nfree, dir, res, errors, damaged>>
  BY DEF Extended
<1>7. call.op \in {"write", "truncate"} /\ res = "ok" /\ call.got = 0 /\ call \in Call
  BY <1>1, <1>3 DEF CallOK, NoCall
<1>8. at \in {"shrink", "data"} /\ (at = "data" => call.op = "write")
  BY <1>7
<1> HIDE DEF at
<1>9. call' \in Call /\ call'.op = call.op /\ call'.at = at /\ call'.name = call.name
      /\ call'.left = call.left /\ call'.got = call.got
  BY <1>6, <1>7, <1>8 DEF Call
<1>10. CallOK(call', fn', res')
  BY <1>1, <1>3, <1>4, <1>6, <1>7, <1>8, <1>9 DEF CallOK
<1>11. HistoryOK' /\ FullIsTrue' /\ TableOK'
  BY <1>6, <1>7, NotFull, TableUnchanged DEF FatInv
<1> QED BY <1>5, <1>6, <1>10, <1>11, Preserved, InvParts

LEMMA ReturnNodeOK ==
  ASSUME FatInv, NEW x \in Node, NEW r \in Results, ReturnNode(x, r)
  PROVE  sft' \in SFT /\ CallOK(call', fn', res') /\ res' = r
BY ReturnOK, StoredType, InvParts DEF ReturnNode

LEMMA EndedOK ==
  ASSUME FatInv, NEW e \in BOOLEAN, Ended(e)
  PROVE  FatInv'
<1>1. PICK x \in NotFound("extend", e) \union NotFound("data", e) : ReturnNode(x, "error")
  BY DEF Ended
<1>2. x \in Node
  BY NotFoundType, SameFileFields, InvParts
<1>3. sft' \in SFT /\ CallOK(call', fn', res') /\ res' # "full"
  BY <1>1, <1>2, ReturnNodeOK DEF Results
<1>4. Drive(e) /\ Becomes(fat, e) /\ UNCHANGED <<hint, nfree, dir>>
  BY DEF Ended
<1>5. HistoryOK' /\ FullIsTrue' /\ TableOK'
  BY <1>3, <1>4, NotFull, TableSame DEF FatInv
<1> QED BY <1>3, <1>4, <1>5, Preserved, InvParts

\* "Disk full" is the truth when extend reports it at the end of a chain.
LEMMA FullOK ==
  ASSUME FatInv, NEW e \in BOOLEAN, NEW t \in BOOLEAN, Full(e, t)
  PROVE  FatInv'
<1>1. fat \in Table /\ fn \in Node /\ TableOK /\ HistoryOK
  BY InvParts DEF FatInv
<1>2. PICK x \in AtEnd :
        /\ extendFails(x.cur, e)
        /\ \/ call.at \in {"extend", "data"} /\ ~t /\ ReturnNode(x, "full")
           \/ call.at = "more" /\ Transfer(sft, x, call.got, t)
  BY DEF Full
<1>3. SameFile(x) /\ x \in Node /\ (x.cur # FREE => next_cluster(x.cur) = LAST)
  BY <1>1, AtEndType, SameFileFields
<1>4. PICK d \in BOOLEAN : d = (e \/ t) /\ Drive(d)
  BY DEF Full
<1>5. TableOK' /\ HistoryOK' /\ (e \/ Free' = {})
  BY <1>1, <1>2, <1>3, <1>4, NodeFields, ExtendFailsOK
<1>6. sft' \in SFT /\ CallOK(call', fn', res')
  <2>1. CASE ReturnNode(x, "full")
    BY <1>3, <2>1, ReturnNodeOK DEF Results
  <2>2. CASE call.at = "more" /\ Transfer(sft, x, call.got, t)
    BY <1>3, <2>2, FlushOK
  <2> QED BY <1>2, <2>1, <2>2
<1>7. FullIsTrue'
  BY <1>1, <1>4, <1>5, DriveOK DEF FullIsTrue
<1>8. UNCHANGED dir
  BY DEF Full
<1> QED BY <1>6, <1>7, <1>8, <1>5, Preserved, InvParts

LEMMA ShrinkNothingOK ==
  ASSUME FatInv, ShrinkNothing
  PROVE  FatInv'
<1>1. ReturnNode(fn, "ok") /\ UNCHANGED <<fat, hint, nfree, dir, errors, damaged>>
  BY DEF ShrinkNothing
<1>2. sft' \in SFT /\ CallOK(call', fn', res') /\ res' # "full"
  BY <1>1, InvParts, ReturnNodeOK DEF Results
<1>3. HistoryOK' /\ FullIsTrue' /\ TableOK'
  BY <1>1, <1>2, NotFull, TableUnchanged DEF FatInv
<1> QED BY <1>1, <1>2, <1>3, Preserved, InvParts

LEMMA ShrinkFailsOK ==
  ASSUME FatInv, NEW e \in BOOLEAN, ShrinkFails(e)
  PROVE  FatInv'
<1>1. Return("error") /\ Drive(e) /\ Becomes(fat, e) /\ UNCHANGED <<hint, nfree, dir, sft>>
  BY DEF ShrinkFails
<1>2. CallOK(call', fn', res') /\ res' # "full"
  BY <1>1, ReturnOK DEF Results
<1>3. HistoryOK' /\ FullIsTrue' /\ TableOK'
  BY <1>1, <1>2, NotFull, TableSame DEF FatInv
<1> QED BY <1>1, <1>2, <1>3, Preserved, InvParts

\* The call goes on with the rest of the chain.
LEMMA WipingOK ==
  ASSUME CallOK(call, fn, res), NEW n \in Clusters \union {LAST}, NEW x \in Node, x.pos = fn.pos,
         x.len = fn.len, call.at \in {"shrink", "wipe", "slot"}, NEW c,
         c = [call EXCEPT !.at = "wipe", !.st = n]
  PROVE  CallOK(c, x, res) /\ c.st = n
<1>1. call \in Call /\ call.got = 0 /\ res = "ok"
  BY DEF CallOK, NoCall
<1>2. /\ c \in Call /\ c.op = call.op /\ c.at = "wipe" /\ c.name = call.name
      /\ c.left = call.left /\ c.got = call.got /\ c.st = n
  BY ONLY <1>1, c = [call EXCEPT !.at = "wipe", !.st = n], n \in Clusters \union {LAST} DEF Call
<1> QED BY <1>1, <1>2 DEF CallOK

LEMMA ShrinkOK ==
  ASSUME FatInv, Shrink
  PROVE  FatInv'
<1>1. fat \in Table /\ fn \in Node /\ CallOK(call, fn, res) /\ TableOK /\ sft \in SFT
  BY InvParts DEF FatInv
<1> DEFINE none == fn.len = 0
<1>2. PICK x \in Found("shrink") :
        /\ next_cluster(x.cur) \notin {FREE, BadLink}
        /\ \/ /\ next_cluster(x.cur) = LAST /\ ~none
              /\ ReturnNode(x, "ok")
              /\ UNCHANGED <<fat, nfree, damaged>>
           \/ /\ next_cluster(x.cur) # LAST \/ none
              /\ link_fat([fat EXCEPT ![x.cur] = IF none THEN FREE ELSE LAST], FALSE)
              /\ fn' = IF none THEN Emptied(x) ELSE x
              /\ call' = [call EXCEPT !.at = "wipe", !.st = next_cluster(x.cur)]
              /\ UNCHANGED <<sft, res>>
  BY DEF Shrink
<1>3. UNCHANGED <<hint, dir, errors>>
  BY DEF Shrink
<1>4. call.at = "shrink" /\ x \in Node /\ x.pos = fn.pos /\ x.len = fn.len
  BY <1>1, FoundType, SameFileFields
<1>5. next_cluster(x.cur) \in Clusters \union {LAST}
  <2>1. next_cluster(x.cur) \in 0..LAST
    BY <1>1, NextType DEF next_cluster
  <2> QED BY <1>2, <2>1, Values, Numbers
<1>6. HistoryOK /\ Drive(FALSE)
  BY <1>3, NoError DEF FatInv
<1>7. CASE ReturnNode(x, "ok") /\ UNCHANGED <<fat, nfree, damaged>>
  <2>1. sft' \in SFT /\ CallOK(call', fn', res') /\ res' # "full"
    BY <1>4, <1>7, ReturnNodeOK DEF Results
  <2>2. TableOK' /\ HistoryOK' /\ FullIsTrue'
    BY <1>1, <1>3, <1>6, <1>7, <2>1, TableUnchanged, NotFull
  <2> QED BY <1>3, <1>6, <2>1, <2>2, Preserved, InvParts
<1>8. CASE /\ link_fat([fat EXCEPT ![x.cur] = IF none THEN FREE ELSE LAST], FALSE)
           /\ fn' = IF none THEN Emptied(x) ELSE x
           /\ call' = [call EXCEPT !.at = "wipe", !.st = next_cluster(x.cur)]
           /\ UNCHANGED <<sft, res>>
  <2>1. PICK g : g = [fat EXCEPT ![x.cur] = IF none THEN FREE ELSE LAST]
    OBVIOUS
  <2>2. g \in Table
    <3>1. FREE \in 0..LAST /\ LAST \in 0..LAST
      BY Numbers
    <3> QED BY ONLY <1>1, <2>1, <3>1 DEF Table
  <2>3. TableOK' /\ HistoryOK'
    BY <1>1, <1>3, <1>6, <1>8, <2>1, <2>2, TableLinked DEF TableOK
  <2>4. Emptied(x) \in Node /\ Emptied(x).pos = x.pos /\ Emptied(x).len = x.len
    BY ONLY <1>4, NumbersMore DEF Emptied, Node
  <2>5. fn' \in Node /\ fn'.pos = fn.pos /\ fn'.len = fn.len
    BY <1>4, <1>8, <2>4
  <2>6. CallOK(call', fn', res)
    BY <1>1, <1>4, <1>5, <1>8, <2>5, WipingOK
  <2>7. res' = "ok" /\ CallOK(call', fn', res')
    BY <1>4, <1>8, <2>6, InvParts
  <2> QED BY <1>1, <1>3, <1>6, <1>8, <2>3, <2>7, NotFull, Preserved, InvParts
<1> QED BY <1>2, <1>7, <1>8

LEMMA WipeOK ==
  ASSUME FatInv, NEW e \in BOOLEAN, Wipe(e)
  PROVE  FatInv'
<1>1. /\ fat \in Table /\ fn \in Node /\ call \in Call /\ CallOK(call, fn, res) /\ TableOK
      /\ res = "ok" /\ HistoryOK
  BY InvParts DEF FatInv, Wipe
<1> DEFINE next == next_cluster(call.st)
<1>2. /\ call.at = "wipe" /\ call.st # LAST /\ Drive(e)
      /\ \/ /\ ~e /\ next > BadLink
            /\ link_fat([fat EXCEPT ![call.st] = FREE], e)
            /\ hint' = IF hint = UNKNCLUSTER \/ hint > call.st THEN call.st ELSE hint
            /\ call' = [call EXCEPT !.st = next]
         \/ /\ e \/ next <= BadLink
            /\ call' = [call EXCEPT !.st = LAST]
            /\ Becomes(fat, e) /\ UNCHANGED <<nfree, hint>>
      /\ UNCHANGED <<dir, sft, fn, res>>
  BY DEF Wipe
<1>3. call.st \in Clusters
  BY <1>1, <1>2, CallFields
<1>4. next \in 0..LAST
  BY <1>1, NextType DEF next_cluster
<1> HIDE DEF next
<1>5. TableOK' /\ HistoryOK' /\ \E n \in Clusters \union {LAST} : call' = [call EXCEPT !.st = n]
  <2>1. CASE /\ ~e /\ next > BadLink
             /\ link_fat([fat EXCEPT ![call.st] = FREE], e)
             /\ hint' = IF hint = UNKNCLUSTER \/ hint > call.st THEN call.st ELSE hint
             /\ call' = [call EXCEPT !.st = next]
    <3>1. next \in Clusters \union {LAST}
      <4>1. next # 0 /\ next # 1
        BY <1>4, <2>1, Numbers
      <4> QED BY <1>4, <4>1, Values
    <3>2. PICK g : g = [fat EXCEPT ![call.st] = FREE]
      OBVIOUS
    <3>3. g \in Table
      <4>1. FREE \in 0..LAST
        BY Numbers
      <4> QED BY ONLY <1>1, <3>2, <4>1 DEF Table
    <3>4. hint' \in MaybeCluster
      BY <1>1, <1>3, <2>1, NumbersMore DEF TableOK
    <3>5. TableOK' /\ HistoryOK'
      BY <1>1, <1>2, <2>1, <3>2, <3>3, <3>4, TableLinked
    <3> QED BY <2>1, <3>1, <3>5
  <2>2. CASE call' = [call EXCEPT !.st = LAST] /\ Becomes(fat, e) /\ UNCHANGED <<nfree, hint>>
    BY <1>1, <1>2, <2>2, TableSame
  <2> QED BY <1>2, <2>1, <2>2
<1>6. PICK n \in Clusters \union {LAST} : call' = [call EXCEPT !.st = n]
  BY <1>5
<1>7. call' = [call EXCEPT !.at = "wipe", !.st = n]
  BY <1>1, <1>2, <1>6 DEF Call
<1>8. CallOK(call', fn, res)
  BY <1>1, <1>2, <1>7, WipingOK
<1>9. CallOK(call', fn', res') /\ res' = "ok"
  BY <1>1, <1>2, <1>8
<1>10. FullIsTrue'
  BY <1>9, NotFull
<1> QED BY <1>2, <1>5, <1>9, <1>10, Preserved, InvParts

LEMMA ShrunkOK ==
  ASSUME FatInv, NEW e \in BOOLEAN, Shrunk(e)
  PROVE  FatInv'
<1>1. /\ Drive(e) /\ Becomes(fat, e)
      /\ IF e THEN Return("error") /\ UNCHANGED sft ELSE ReturnNode(fn, "ok")
      /\ UNCHANGED <<hint, nfree, dir>>
  BY DEF Shrunk, Becomes
<1>2. sft' \in SFT /\ CallOK(call', fn', res') /\ res' # "full"
  BY <1>1, InvParts, ReturnOK, ReturnNodeOK DEF Results
<1>3. HistoryOK' /\ FullIsTrue' /\ TableOK'
  BY <1>1, <1>2, NotFull, TableSame DEF FatInv
<1> QED BY <1>1, <1>2, <1>3, Preserved, InvParts

LEMMA CreatedOK ==
  ASSUME FatInv, NEW e \in BOOLEAN, Created(e)
  PROVE  FatInv'
<1> DEFINE x == [NoNode EXCEPT !.file = call.name]
<1>1. /\ Wiped("create") /\ dir_write(call.name, EntryOf(x), e)
      /\ IF e THEN Return("error") /\ UNCHANGED sft
         ELSE fnode_to_sft(Merged(sft, x, call.slot), x) /\ Return("ok")
      /\ UNCHANGED <<hint, nfree>>
  BY DEF Created
<1>2. call.name \in Files /\ call.name \in Names
  BY <1>1, NumbersMore DEF Wiped, FatInv, CallOK
<1>3. x \in Node
  BY <1>2, NothingType DEF Node
<1> HIDE DEF x
<1>4. dir' \in Directory /\ Drive(e) /\ Becomes(fat, e)
  BY <1>1, <1>2, <1>3, DirWritten, EntryType, InvParts
<1>5. sft' \in SFT
  BY <1>1, <1>3, MergedType, StoredType, InvParts
<1>6. CallOK(call', fn', res') /\ res' # "full"
  BY <1>1, ReturnOK DEF Results
<1>7. FullIsTrue' /\ TableOK' /\ HistoryOK'
  BY <1>1, <1>4, <1>6, NotFull, TableSame DEF FatInv
<1> QED BY <1>4, <1>5, <1>6, <1>7, Preserved

LEMMA DeletedOK ==
  ASSUME FatInv, NEW e \in BOOLEAN, Deleted(e)
  PROVE  FatInv'
<1>1. /\ Wiped("delete") /\ dir_write(call.name, NoEntry, e)
      /\ Return(IF e THEN "error" ELSE "ok")
      /\ UNCHANGED <<hint, nfree, sft>>
  BY DEF Deleted
<1>2. call.name \in Names
  BY <1>1 DEF Wiped, FatInv, CallOK
<1>3. dir' \in Directory /\ Drive(e) /\ Becomes(fat, e)
  BY <1>1, <1>2, DirWritten, NothingType, InvParts
<1>4. CallOK(call', fn', res') /\ res' # "full"
  BY <1>1, ReturnOK DEF Results
<1>5. FullIsTrue' /\ TableOK' /\ HistoryOK'
  BY <1>1, <1>3, <1>4, NotFull, TableSame DEF FatInv
<1> QED BY <1>1, <1>3, <1>4, <1>5, Preserved, InvParts

LEMMA MadeDirOK ==
  ASSUME FatInv, NEW e \in BOOLEAN, MadeDir(e)
  PROVE  FatInv'
<1>1. Wiped("mkdir") /\ UNCHANGED sft /\ Drive(e)
  BY DEF MadeDir
<1>2. PICK c \in find_fat_free(e) :
        /\ hint' = HintAfter(c)
        /\ \/ /\ c = LAST \/ e
              /\ Becomes(fat, e) /\ UNCHANGED <<nfree, dir>> /\ Return("full")
           \/ /\ c # LAST
              /\ link_fat(Marked(c), e)
              /\ \/ e /\ UNCHANGED dir
                 \/ dir' = [dir EXCEPT ![call.name] = [NoEntry EXCEPT !.used = TRUE, !.start = c]]
              /\ Return(IF e THEN "error" ELSE "ok")
  BY DEF MadeDir
<1>3. /\ HintAfter(c) \in MaybeCluster /\ (c # LAST => c \in Clusters)
      /\ ~e /\ c = LAST => Free = {}
  BY SearchType DEF FatInv, TableOK
<1>4. call.name \in Names
  BY <1>1 DEF Wiped, FatInv, CallOK
<1>6. CallOK(call', fn', res')
  BY <1>2, ReturnOK DEF Results
<1>7. /\ TableOK' /\ HistoryOK' /\ dir' \in Directory
      /\ (res' = "full" /\ ~e => c = LAST /\ UNCHANGED fat)
  <2>1. CASE /\ c = LAST \/ e
             /\ Becomes(fat, e) /\ UNCHANGED <<nfree, dir>> /\ Return("full")
    <3>1. TableOK' /\ HistoryOK'
      BY <1>1, <1>2, <1>3, <2>1, TableKept DEF FatInv
    <3> QED BY <2>1, <3>1, InvParts DEF Becomes
  <2>3. CASE /\ c # LAST
             /\ link_fat(Marked(c), e)
             /\ \/ e /\ UNCHANGED dir
                \/ dir' = [dir EXCEPT ![call.name] = [NoEntry EXCEPT !.used = TRUE, !.start = c]]
             /\ Return(IF e THEN "error" ELSE "ok")
    <3>1. Marked(c) \in Table
      BY <1>3, <2>3, InvParts, MarkedType, NumbersMore
    <3>2. TableOK' /\ HistoryOK'
      BY <1>1, <1>2, <1>3, <2>3, <3>1, TableLinked DEF FatInv
    <3>3. [NoEntry EXCEPT !.used = TRUE, !.start = c] \in Entry
      <4>1. c \in MaybeCluster
        BY <1>3, <2>3, NumbersMore
      <4> QED BY <4>1, NothingType DEF Entry
    <3>4. dir' \in Directory
      BY <1>4, <2>3, <3>3, InvParts DEF Directory
    <3> QED BY <2>3, <3>2, <3>4 DEF Return
  <2> QED BY <1>2, <2>1, <2>3
<1>8. FullIsTrue'
  BY <1>1, <1>3, <1>7, DriveOK DEF FullIsTrue, Free, FatInv
<1> QED BY <1>1, <1>6, <1>7, <1>8, Preserved, InvParts

LEMMA RenamedOK ==
  ASSUME FatInv, NEW g \in Files, NEW e \in BOOLEAN, Renamed(g, e)
  PROVE  FatInv'
<1>1. /\ Wiped("rename") /\ Drive(e) /\ Becomes(fat, e)
      /\ \/ dir' = [dir EXCEPT ![call.name] = NoEntry, ![g] = dir[call.name]]
         \/ e /\ dir' = [dir EXCEPT ![call.name] = NoEntry]
         \/ e /\ UNCHANGED dir
      /\ Return(IF e THEN "error" ELSE "ok")
      /\ UNCHANGED <<hint, nfree, sft>>
  BY DEF Renamed
<1>2. call.name \in Names /\ g \in Names
  BY <1>1, NumbersMore DEF Wiped, FatInv, CallOK
<1>3. dir' \in Directory
  BY <1>1, <1>2, NothingType, InvParts DEF Directory
<1>4. CallOK(call', fn', res') /\ res' # "full"
  BY <1>1, ReturnOK DEF Results
<1>5. HistoryOK' /\ FullIsTrue' /\ TableOK'
  BY <1>1, <1>4, NotFull, TableSame DEF FatInv
<1> QED BY <1>1, <1>3, <1>4, <1>5, Preserved, InvParts

LEMMA ExtendDirOK ==
  ASSUME FatInv, NEW d \in Dirs, NEW e \in BOOLEAN, extend_dir(d, e)
  PROVE  FatInv'
<1>1. fat \in Table /\ fn \in Node /\ CallOK(call, fn, res) /\ TableOK /\ HistoryOK
  BY InvParts DEF FatInv
<1>2. PICK cur \in ChainOf(dir[d].start) :
        /\ fat[cur] = LAST \/ e
        /\ \/ extendFails(cur, e) /\ Return("full")
           \/ /\ \E c \in Clusters : extend(cur, c, e)
              /\ \/ call' = [call EXCEPT !.at = "wipe"] /\ UNCHANGED <<fn, res>>
                 \/ e /\ Return("error")
  BY DEF extend_dir
<1>3. call.at = "slot" /\ Drive(e) /\ UNCHANGED <<dir, sft>>
  BY DEF extend_dir
<1>4. cur \in Clusters /\ cur \in MaybeCluster
  BY NumbersMore DEF ChainOf
<1>5. /\ TableOK' /\ HistoryOK' /\ (res' = "full" => e \/ Free' = {})
      /\ CallOK(call', fn', res')
  <2>1. CASE extendFails(cur, e) /\ Return("full")
    <3>1. e \/ next_cluster(cur) = LAST
      BY <1>2, <1>4, Numbers DEF next_cluster, NextIn
    <3>2. TableOK' /\ HistoryOK' /\ (e \/ Free' = {})
      BY <1>1, <1>3, <1>4, <2>1, <3>1, ExtendFailsOK
    <3> QED BY <2>1, <3>2, ReturnOK DEF Results
  <2>2. ASSUME NEW c \in Clusters, extend(cur, c, e),
               \/ call' = [call EXCEPT !.at = "wipe"] /\ UNCHANGED <<fn, res>>
               \/ e /\ Return("error")
        PROVE  /\ TableOK' /\ HistoryOK' /\ (res' = "full" => e \/ Free' = {})
               /\ CallOK(call', fn', res')
    <3>1. TableOK' /\ HistoryOK'
      BY <1>1, <1>3, <1>4, <2>2, ExtendOK
    <3>2. CASE call' = [call EXCEPT !.at = "wipe"] /\ UNCHANGED <<fn, res>>
      <4>1. res = "ok" /\ call \in Call /\ call.st \in Clusters \union {LAST}
        BY <1>3, InvParts, CallFields
      <4>2. call' = [call EXCEPT !.at = "wipe", !.st = call.st]
        BY <3>2, <4>1 DEF Call
      <4>3. CallOK(call', fn, res)
        BY <1>1, <1>3, <4>1, <4>2, WipingOK
      <4> QED BY <3>1, <3>2, <4>1, <4>3
    <3>3. CASE e /\ Return("error")
      BY <3>1, <3>3, ReturnOK DEF Results
    <3> QED BY <2>2, <3>2, <3>3
  <2> QED BY <1>2, <2>1, <2>2
<1>6. FullIsTrue'
  BY <1>1, <1>3, <1>5, DriveOK DEF FullIsTrue
<1> QED BY <1>3, <1>5, <1>6, Preserved, InvParts

LEMMA StepOK ==
  ASSUME FatInv, Step
  PROVE  FatInv'
BY ShrinkNothingOK, ExtendedOK, ShrinkOK, MapExtendOK, LocatedOK, GatheredOK, EndedOK, FullOK,
   ShrinkFailsOK, WipeOK, ShrunkOK, CreatedOK, DeletedOK, MadeDirOK, ExtendDirOK, RenamedOK
   DEF Step

LEMMA InitOK ==
  ASSUME Init
  PROVE  FatInv
<1>1. fat \in Table
  BY Numbers DEF Init, Table
<1>2. TableOK
  BY <1>1, Numbers, NumbersMore DEF Init, TableOK, FreeCountExact
<1>3. EntriesOK
  BY NothingType DEF Init, EntriesOK
<1>4. HistoryOK
  <2>1. 0 \in 0..MaxErrors
    BY NumbersMore
  <2> QED BY <2>1 DEF Init, HistoryOK
<1>5. CallOK(call, fn, res) /\ FullIsTrue
  BY NothingRuns DEF Init, FullIsTrue, Results
<1> QED BY <1>2, <1>3, <1>4, <1>5 DEF FatInv

LEMMA StutterOK ==
  ASSUME FatInv, UNCHANGED vars
  PROVE  FatInv'
<1>1. UNCHANGED <<fat, hint, nfree, dir, sft, fn, call, res, errors, damaged>>
  BY DEF vars
<1>2. CallOK(call', fn', res') /\ TableOK' /\ FullIsTrue' /\ HistoryOK'
  BY <1>1, TableUnchanged, StillFull DEF FatInv
<1> QED BY <1>1, <1>2, Preserved, InvParts

-----------------------------------------------------------------------------
(* The theorems *)

\* The inductive invariant holds in every state: each request and each step of a
\* call keeps it.
THEOREM Invariant == Spec => []FatInv
<1>1. FatInv /\ [Next]_vars => FatInv'
  BY StepOK, RequestOK, StutterOK DEF Next
<1> QED BY <1>1, InitOK, PTL DEF Spec

\* The table, the directory, the SFT and the call that runs have their types: no
\* transfer leaves the bounds of the file, and no search runs over the table's end.
THEOREM TypeCorrect == Spec => []TypeOK
<1>1. FatInv => TypeOK
  BY DEF FatInv, TableOK, EntriesOK, HistoryOK, CallOK, TypeOK, Table, Results
<1> QED BY <1>1, Invariant, PTL

\* The count of free clusters that dos_free caches and link_fat keeps up is exact
\* while the drive works.  After an error it may leave out clusters that could not
\* be read, but it counts none that is used, unless changed sectors were dropped.
THEOREM AlwaysFreeCountExact == Spec => []FreeCountExact
<1>1. FatInv => FreeCountExact
  BY DEF FatInv, TableOK
<1> QED BY <1>1, Invariant, PTL

\* While the drive works, a call ends with "disk full" only when there is no free
\* cluster, wherever the search started.
THEOREM AlwaysFullIsTrue == Spec => []FullIsTrue
<1>1. FatInv => FullIsTrue
  BY DEF FatInv
<1> QED BY <1>1, Invariant, PTL
=============================================================================
