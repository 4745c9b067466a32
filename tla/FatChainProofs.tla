--------------------------- MODULE FatChainProofs ---------------------------
(***************************************************************************)
(* Proofs about the chains of Fat when programs use a file through one SFT *)
(* entry at a time (Exclusive): no cluster belongs to two files, none is   *)
(* lost while the drive works, the place that an SFT entry remembers is    *)
(* right, and the chain of a file covers its length.  For disks, clusters, *)
(* files and transfers of every size.  Nothing is claimed once a failed    *)
(* write has dropped changes (damaged).                                    *)
(***************************************************************************)
EXTENDS FatProofs

-----------------------------------------------------------------------------
(* Labels.  The invariant says that the clusters can be labelled: a cluster *)
(* of a file with the file and its number in the file, a free or lost one   *)
(* and one that is about to be freed with no file.                          *)

\* No two clusters have the same successor, and none leads to a free cluster.
LinksOK(g) ==
  /\ \A c, d \in Clusters : g[c] = g[d] /\ g[c] \in Clusters => c = d
  /\ \A c \in Clusters : g[c] # BadLink /\ (g[c] \in Clusters => g[g[c]] # FREE)

\* The table g, with labels: cluster c belongs to the file own[c] and is its
\* idx[c]-th, and h[f] is the first cluster of f.
LabelsOK(g, own, idx, h) ==
  /\ own \in [Clusters -> Names \union {NoName}] /\ idx \in [Clusters -> Nat]
  /\ h \in [Names -> MaybeCluster]
  /\ \A c \in Clusters : g[c] \in Clusters =>
       own[g[c]] = own[c] /\ (own[c] \in Names => idx[g[c]] = idx[c] + 1)
  /\ \A c, d \in Clusters : own[c] \in Names /\ own[c] = own[d] /\ idx[c] = idx[d] => c = d
  /\ \A c \in Clusters : own[c] \in Names /\ idx[c] > 0 => \E d \in Clusters : g[d] = c
  /\ \A c \in Clusters : own[c] \in Names /\ idx[c] = 0 => c = h[own[c]]
  /\ \A f \in Names : h[f] # FREE => own[h[f]] = f /\ idx[h[f]] = 0
  /\ \A c \in Clusters : own[c] \in Names => g[c] # FREE

\* st is the start of the chain that is being freed; and unless the drive was in
\* error (lossy), every cluster that is in use but of no file follows from it.
RestOK(g, own, st, lossy) ==
  /\ st \in Clusters => g[st] # FREE /\ own[st] = NoName /\ \A c \in Clusters : g[c] # st
  /\ lossy \/ \A c \in Clusters :
                g[c] # FREE /\ own[c] = NoName => c = st \/ \E d \in Clusters : g[d] = c

Chains(g, own, idx, h, st, lossy) ==
  LinksOK(g) /\ LabelsOK(g, own, idx, h) /\ RestOK(g, own, st, lossy)

\* The call c frees the chain of f; it cuts the one of the file of slot s.
Removing(c, f) == c.op \in {"create", "delete"} /\ c.name = f
Cutting(c, s) == c.op = "truncate" /\ c.at = "wipe" /\ c.slot = s

\* f is not open, in the SFT t.
Closed(t, f) == \A s \in Slots : t[s].file # f

\* Who knows where the chain of f starts: the fnode x of the call c, else the SFT
\* t, else the directory d.
HeadsAre(d, t, x, c, h) ==
  \A f \in Names :
    /\ x.file = f => h[f] = x.start
    /\ x.file # f /\ Removing(c, f) => h[f] = FREE
    /\ x.file # f /\ ~Removing(c, f) =>
         /\ \A s \in Slots : t[s].file = f => h[f] = t[s].start
         /\ Closed(t, f) => h[f] = IF d[f].used THEN d[f].start ELSE FREE

\* One of the clusters of f ends at n or behind it.
Covered(f, n, own, idx) ==
  n = 0 \/ \E c \in Clusters : own[c] = f /\ idx[c] <= Size /\ n <= CS * (idx[c] + 1)

\* The place that x remembers is one of its file; x agrees with the directory
\* unless it was written to.
OnChain(x, own, idx) ==
  IF x.start = FREE THEN x.cur = FREE /\ x.rel = 0 /\ x.len = 0
  ELSE x.cur # FREE /\ own[x.cur] = x.file /\ idx[x.cur] = x.rel
Sound(x, own, idx) == OnChain(x, own, idx) /\ Covered(x.file, x.len, own, idx)
Agrees(x, d) == x.clean => d[x.file].start = x.start /\ d[x.file].len = x.len

\* A file has one SFT entry, and that is right about the file; so is the directory
\* about a file that is not open.
SlotsOK(d, t, c, own, idx) ==
  /\ \A s, u \in Slots : t[s].file \in Files /\ t[s].file = t[u].file => s = u
  /\ \A s \in Slots : t[s].file = NoName => t[s] = NoNode
  /\ \A s \in Slots : t[s].file \in Files =>
       /\ d[t[s].file].used /\ Agrees(t[s], d)
       /\ Cutting(c, s) \/ Sound(t[s], own, idx)
  /\ \A f \in Files : d[f].used /\ Closed(t, f) /\ ~Removing(c, f) =>
       Covered(f, d[f].len, own, idx) /\ (d[f].start = FREE => d[f].len = 0)

\* What the call that runs knows: its fnode is right about the file, "more" has
\* reached the end of a cluster, "shrink" cuts at the position, and what is
\* created, deleted or renamed is not open.
CallsOK(d, t, x, c, own, idx) ==
  /\ c = NoCall => x = NoNode
  /\ x.file = NoName => c.op \notin {"read", "write", "truncate"} /\ c.at \notin Mapping
  /\ x.file \in Files =>
       /\ c.op \in {"read", "write", "truncate"} /\ c.slot \in Slots /\ t[c.slot].file = x.file
       /\ Sound(x, own, idx) /\ Agrees(x, d) /\ (c.op = "read" \/ ~x.clean)
       /\ Cutting(c, c.slot) \/ t[c.slot].start \in {FREE, x.start}
  /\ c.at = "more" => x.pos % CS = 0 /\ Covered(x.file, x.pos, own, idx)
  /\ c.at = "shrink" => x.len = x.pos /\ c.op = "truncate"
  /\ c.at # "wipe" => c.st = LAST
  /\ c.at = "slot" => c.op \in {"create", "mkdir", "rename"}
  /\ c.op \in {"create", "delete", "mkdir", "rename"} => Closed(t, c.name)
  /\ c.op = "create" => c.slot \in Slots /\ t[c.slot].file = NoName
  /\ c.op = "create" /\ c.at = "slot" => ~d[c.name].used
  /\ c.op = "mkdir" => ~d[c.name].used
  /\ c.op = "rename" => d[c.name].used /\ c.name \in Files

FilesOK(d, t, x, c, own, idx, h) ==
  HeadsAre(d, t, x, c, h) /\ SlotsOK(d, t, c, own, idx) /\ CallsOK(d, t, x, c, own, idx)

Labelled(own, idx, h) ==
  /\ Chains(fat, own, idx, h, call.st, errors # 0)
  /\ FilesOK(dir, sft, fn, call, own, idx, h)

\* The inductive invariant.
ChainInv == ~damaged => \E own, idx, h : Labelled(own, idx, h)
-----------------------------------------------------------------------------
(* How the steps of the file system change the labels *)

LEMMA NamesFacts == FREE \notin Clusters /\ NoName \notin Names /\ LAST \notin Clusters /\ LAST # FREE
BY Numbers, NumbersMore

(* One more cluster c at the end of the chain of f. *)
LEMMA ChainGrows ==
  ASSUME NEW g, NEW own, NEW idx, NEW h, NEW st, NEW lossy, Chains(g, own, idx, h, st, lossy),
         NEW c \in Clusters, g[c] = FREE, NEW cur \in Clusters, g[cur] = LAST,
         NEW f \in Names, own[cur] = f,
         NEW g2, NEW own2, NEW idx2,
         \A d \in Clusters : g2[d] = IF d = c THEN LAST ELSE IF d = cur THEN c ELSE g[d],
         own2 = [own EXCEPT ![c] = f], idx2 = [idx EXCEPT ![c] = idx[cur] + 1]
  PROVE  Chains(g2, own2, idx2, h, st, lossy)
<1>1. own \in [Clusters -> Names \union {NoName}] /\ idx \in [Clusters -> Nat]
      /\ h \in [Names -> MaybeCluster]
  BY DEF Chains, LabelsOK
<1>2. own2 \in [Clusters -> Names \union {NoName}] /\ idx2 \in [Clusters -> Nat]
  BY <1>1
<1>3. /\ \A d \in Clusters : own2[d] = IF d = c THEN f ELSE own[d]
      /\ \A d \in Clusters : idx2[d] = IF d = c THEN idx[cur] + 1 ELSE idx[d]
  BY <1>1
<1>4. c # cur /\ own[c] \notin Names
  BY NamesFacts DEF Chains, LabelsOK
<1>5. \A d \in Clusters : g[d] # c
  BY NamesFacts DEF Chains, LinksOK
<1>6. LinksOK(g2)
  BY <1>4, <1>5, NamesFacts, Numbers DEF Chains, LinksOK
<1>7. LabelsOK(g2, own2, idx2, h)
  <2>1. \A d \in Clusters : g2[d] \in Clusters =>
          own2[g2[d]] = own2[d] /\ (own2[d] \in Names => idx2[g2[d]] = idx2[d] + 1)
    BY <1>3, <1>4, <1>5, NamesFacts DEF Chains, LabelsOK
  <2>2. ASSUME NEW d \in Clusters, own[d] = f, idx[d] = idx[cur] + 1 PROVE FALSE
    <3>1. idx[d] > 0 /\ idx[cur] \in Nat
      BY <1>1, <2>2
    <3>2. PICK b \in Clusters : g[b] = d
      BY <2>2, <3>1 DEF Chains, LabelsOK
    <3>3. own[b] = f /\ idx[d] = idx[b] + 1
      BY <2>2, <3>2 DEF Chains, LabelsOK
    <3>4. idx[b] = idx[cur]
      BY <1>1, <2>2, <3>3
    <3>5. b = cur
      BY <3>3, <3>4 DEF Chains, LabelsOK
    <3> QED BY <3>2, <3>5, NamesFacts
  <2>3. \A d, b \in Clusters : own2[d] \in Names /\ own2[d] = own2[b] /\ idx2[d] = idx2[b] => d = b
    BY <1>3, <2>2 DEF Chains, LabelsOK
  <2>4. ASSUME NEW d \in Clusters, own2[d] \in Names, idx2[d] > 0
        PROVE  \E b \in Clusters : g2[b] = d
    <3>1. CASE d = c
      BY <1>4, <3>1
    <3>2. CASE d # c
      <4>1. PICK b \in Clusters : g[b] = d
        BY <1>3, <2>4, <3>2 DEF Chains, LabelsOK
      <4>2. b # c /\ b # cur
        BY <4>1, NamesFacts
      <4> QED BY <4>1, <4>2
    <3> QED BY <3>1, <3>2
  <2>5. \A d \in Clusters : own2[d] \in Names /\ idx2[d] = 0 => d = h[own2[d]]
    <3>1. idx2[c] # 0
      BY <1>1, <1>3
    <3> QED BY <1>3, <3>1 DEF Chains, LabelsOK
  <2>6. \A b \in Names : h[b] # FREE => own2[h[b]] = b /\ idx2[h[b]] = 0
    <3> SUFFICES ASSUME NEW b \in Names, h[b] # FREE PROVE own2[h[b]] = b /\ idx2[h[b]] = 0
      OBVIOUS
    <3>1. h[b] \in Clusters /\ own[h[b]] = b /\ idx[h[b]] = 0
      BY <1>1 DEF Chains, LabelsOK, MaybeCluster
    <3> QED BY <1>3, <1>4, <3>1
  <2>7. \A d \in Clusters : own2[d] \in Names => g2[d] # FREE
    BY <1>3, NamesFacts DEF Chains, LabelsOK
  <2> QED BY <1>1, <1>2, <2>1, <2>3, <2>4, <2>5, <2>6, <2>7 DEF LabelsOK
<1>8. RestOK(g2, own2, st, lossy)
  <2>1. st \in Clusters => g2[st] # FREE /\ own2[st] = NoName /\ \A d \in Clusters : g2[d] # st
    BY <1>3, <1>4, NamesFacts DEF Chains, RestOK
  <2>2. ASSUME ~lossy, NEW d \in Clusters, g2[d] # FREE, own2[d] = NoName
        PROVE  d = st \/ \E b \in Clusters : g2[b] = d
    <3>1. d # c /\ d # cur
      BY <1>3, <1>4, <2>2, NamesFacts
    <3>2. g[d] # FREE /\ own[d] = NoName
      BY <1>3, <2>2, <3>1
    <3>3. d = st \/ \E b \in Clusters : g[b] = d
      BY <2>2, <3>2 DEF Chains, RestOK
    <3>4. ASSUME NEW b \in Clusters, g[b] = d PROVE g2[b] = d
      BY <3>4, NamesFacts
    <3> QED BY <3>3, <3>4
  <2> QED BY <2>1, <2>2 DEF RestOK
<1> QED BY <1>6, <1>7, <1>8 DEF Chains

(* The first cluster c of f. *)
LEMMA ChainStarts ==
  ASSUME NEW g, NEW own, NEW idx, NEW h, NEW st, NEW lossy, Chains(g, own, idx, h, st, lossy),
         NEW c \in Clusters, g[c] = FREE, NEW f \in Names, h[f] = FREE,
         NEW g2, NEW own2, NEW idx2, NEW h2,
         \A d \in Clusters : g2[d] = IF d = c THEN LAST ELSE g[d],
         own2 = [own EXCEPT ![c] = f], idx2 = [idx EXCEPT ![c] = 0], h2 = [h EXCEPT ![f] = c]
  PROVE  Chains(g2, own2, idx2, h2, st, lossy)
<1>1. own \in [Clusters -> Names \union {NoName}] /\ idx \in [Clusters -> Nat]
      /\ h \in [Names -> MaybeCluster]
  BY DEF Chains, LabelsOK
<1>2. own2 \in [Clusters -> Names \union {NoName}] /\ idx2 \in [Clusters -> Nat]
      /\ h2 \in [Names -> MaybeCluster]
  BY <1>1, NumbersMore
<1>3. /\ \A d \in Clusters : own2[d] = IF d = c THEN f ELSE own[d]
      /\ \A d \in Clusters : idx2[d] = IF d = c THEN 0 ELSE idx[d]
      /\ \A b \in Names : h2[b] = IF b = f THEN c ELSE h[b]
  BY <1>1
<1>4. own[c] \notin Names
  BY NamesFacts DEF Chains, LabelsOK
<1>5. \A d \in Clusters : g[d] # c
  BY NamesFacts DEF Chains, LinksOK
<1>6. \A d \in Clusters : own[d] = f => idx[d] # 0
  BY NamesFacts DEF Chains, LabelsOK
<1>7. LinksOK(g2)
  BY <1>4, <1>5, NamesFacts, Numbers DEF Chains, LinksOK
<1>8. LabelsOK(g2, own2, idx2, h2)
  <2>1. \A d \in Clusters : g2[d] \in Clusters =>
          own2[g2[d]] = own2[d] /\ (own2[d] \in Names => idx2[g2[d]] = idx2[d] + 1)
    BY <1>3, <1>5, NamesFacts DEF Chains, LabelsOK
  <2>2. \A d, b \in Clusters : own2[d] \in Names /\ own2[d] = own2[b] /\ idx2[d] = idx2[b] => d = b
    BY <1>3, <1>6 DEF Chains, LabelsOK
  <2>3. ASSUME NEW d \in Clusters, own2[d] \in Names, idx2[d] > 0
        PROVE  \E b \in Clusters : g2[b] = d
    <3>1. d # c
      BY <1>3, <2>3
    <3>2. PICK b \in Clusters : g[b] = d
      BY <1>3, <2>3, <3>1 DEF Chains, LabelsOK
    <3> QED BY <3>2, NamesFacts
  <2>4. \A d \in Clusters : own2[d] \in Names /\ idx2[d] = 0 => d = h2[own2[d]]
    BY <1>3, <1>6 DEF Chains, LabelsOK
  <2>5. \A b \in Names : h2[b] # FREE => own2[h2[b]] = b /\ idx2[h2[b]] = 0
    <3> SUFFICES ASSUME NEW b \in Names, b # f, h[b] # FREE
                 PROVE  own2[h[b]] = b /\ idx2[h[b]] = 0
      BY <1>3
    <3>1. h[b] \in Clusters /\ own[h[b]] = b /\ idx[h[b]] = 0
      BY <1>1 DEF Chains, LabelsOK, MaybeCluster
    <3> QED BY <1>3, <1>4, <3>1
  <2>6. \A d \in Clusters : own2[d] \in Names => g2[d] # FREE
    BY <1>3, NamesFacts DEF Chains, LabelsOK
  <2> QED BY <1>2, <2>1, <2>2, <2>3, <2>4, <2>5, <2>6 DEF LabelsOK
<1>9. RestOK(g2, own2, st, lossy)
  <2>1. st \in Clusters => g2[st] # FREE /\ own2[st] = NoName /\ \A d \in Clusters : g2[d] # st
    BY <1>3, <1>4, NamesFacts DEF Chains, RestOK
  <2>2. ASSUME ~lossy, NEW d \in Clusters, g2[d] # FREE, own2[d] = NoName
        PROVE  d = st \/ \E b \in Clusters : g2[b] = d
    <3>1. d # c
      BY <1>3, <2>2, NamesFacts
    <3>2. g[d] # FREE /\ own[d] = NoName
      BY <1>3, <2>2, <3>1
    <3>3. d = st \/ \E b \in Clusters : g[b] = d
      BY <2>2, <3>2 DEF Chains, RestOK
    <3>4. ASSUME NEW b \in Clusters, g[b] = d PROVE g2[b] = d
      BY <3>4, NamesFacts
    <3> QED BY <3>3, <3>4
  <2> QED BY <2>1, <2>2 DEF RestOK
<1> QED BY <1>7, <1>8, <1>9 DEF Chains

(* A cluster c is marked and lost. *)
LEMMA ChainLoses ==
  ASSUME NEW g, NEW own, NEW idx, NEW h, NEW st, NEW lossy, Chains(g, own, idx, h, st, lossy),
         NEW c \in Clusters, g[c] = FREE, NEW g2,
         \A d \in Clusters : g2[d] = IF d = c THEN LAST ELSE g[d]
  PROVE  Chains(g2, own, idx, h, st, TRUE)
<1>1. \A d \in Clusters : g[d] # c
  BY NamesFacts DEF Chains, LinksOK
<1>2. LinksOK(g2)
  <2>1. \A d, b \in Clusters : g2[d] = g2[b] /\ g2[d] \in Clusters => d = b
    BY NamesFacts DEF Chains, LinksOK
  <2>2. LAST # BadLink
    BY Numbers
  <2>3. \A d \in Clusters : g2[d] # BadLink /\ (g2[d] \in Clusters => g2[g2[d]] # FREE)
    BY <2>2, NamesFacts DEF Chains, LinksOK
  <2> QED BY <2>1, <2>3 DEF LinksOK
<1>3. LabelsOK(g2, own, idx, h)
  <2>1. ASSUME NEW d \in Clusters, own[d] \in Names, idx[d] > 0
        PROVE  \E b \in Clusters : g2[b] = d
    <3>1. PICK b \in Clusters : g[b] = d
      BY <2>1 DEF Chains, LabelsOK
    <3> QED BY <3>1, NamesFacts
  <2>2. \A d \in Clusters : g2[d] \in Clusters =>
          own[g2[d]] = own[d] /\ (own[d] \in Names => idx[g2[d]] = idx[d] + 1)
    BY NamesFacts DEF Chains, LabelsOK
  <2>3. \A d \in Clusters : own[d] \in Names => g2[d] # FREE
    BY NamesFacts DEF Chains, LabelsOK
  <2> QED BY <2>1, <2>2, <2>3 DEF Chains, LabelsOK
<1>4. RestOK(g2, own, st, TRUE)
  BY NamesFacts DEF Chains, RestOK
<1> QED BY <1>2, <1>3, <1>4 DEF Chains

(* The labels of f are taken away. *)
LEMMA LabelsDropped ==
  ASSUME NEW g, NEW own, NEW idx, NEW h, LabelsOK(g, own, idx, h),
         NEW f \in Names, NEW own2, NEW h2,
         own2 = [c \in Clusters |-> IF own[c] = f THEN NoName ELSE own[c]],
         h2 = [h EXCEPT ![f] = FREE]
  PROVE  LabelsOK(g, own2, idx, h2)
<1>1. own \in [Clusters -> Names \union {NoName}] /\ idx \in [Clusters -> Nat]
      /\ h \in [Names -> MaybeCluster]
  BY DEF LabelsOK
<1>2. own2 \in [Clusters -> Names \union {NoName}] /\ h2 \in [Names -> MaybeCluster]
  BY <1>1, NumbersMore
<1>3. /\ \A d \in Clusters : own2[d] = IF own[d] = f THEN NoName ELSE own[d]
      /\ \A b \in Names : h2[b] = IF b = f THEN FREE ELSE h[b]
  BY <1>1
<1>4. \A d \in Clusters : own2[d] \in Names => own[d] = own2[d] /\ own2[d] # f
  BY <1>3, NamesFacts
<1>5. \A d \in Clusters : g[d] \in Clusters =>
        own2[g[d]] = own2[d] /\ (own2[d] \in Names => idx[g[d]] = idx[d] + 1)
  BY <1>3, <1>4 DEF LabelsOK
<1>6. \A d, b \in Clusters : own2[d] \in Names /\ own2[d] = own2[b] /\ idx[d] = idx[b] => d = b
  BY <1>4 DEF LabelsOK
<1>7. \A d \in Clusters : own2[d] \in Names /\ idx[d] > 0 => \E b \in Clusters : g[b] = d
  BY <1>4 DEF LabelsOK
<1>8. \A d \in Clusters : own2[d] \in Names /\ idx[d] = 0 => d = h2[own2[d]]
  BY <1>3, <1>4 DEF LabelsOK
<1>9. \A b \in Names : h2[b] # FREE => own2[h2[b]] = b /\ idx[h2[b]] = 0
  <2> SUFFICES ASSUME NEW b \in Names, b # f, h[b] # FREE
               PROVE  own2[h[b]] = b /\ idx[h[b]] = 0
    BY <1>3
  <2>1. h[b] \in Clusters /\ own[h[b]] = b /\ idx[h[b]] = 0
    BY <1>1 DEF LabelsOK, MaybeCluster
  <2> QED BY <1>3, <2>1
<1>10. \A d \in Clusters : own2[d] \in Names => g[d] # FREE
  BY <1>4 DEF LabelsOK
<1> QED BY <1>1, <1>2, <1>5, <1>6, <1>7, <1>8, <1>9, <1>10 DEF LabelsOK

(* The chain of f is to be freed. *)
LEMMA ChainDropped ==
  ASSUME NEW g, NEW own, NEW idx, NEW h, NEW lossy, Chains(g, own, idx, h, LAST, lossy),
         NEW f \in Names, NEW own2, NEW h2,
         own2 = [c \in Clusters |-> IF own[c] = f THEN NoName ELSE own[c]],
         h2 = [h EXCEPT ![f] = FREE]
  PROVE  Chains(g, own2, idx, h2, Rest(h[f]), lossy)
<1>1. LabelsOK(g, own2, idx, h2)
  BY LabelsDropped DEF Chains
<1>2. own \in [Clusters -> Names \union {NoName}] /\ idx \in [Clusters -> Nat]
      /\ h \in [Names -> MaybeCluster]
  BY DEF Chains, LabelsOK
<1>3. \A d \in Clusters : own2[d] = IF own[d] = f THEN NoName ELSE own[d]
  BY <1>2
<1>4. ASSUME h[f] # FREE
      PROVE  /\ h[f] \in Clusters /\ own[h[f]] = f /\ g[h[f]] # FREE
             /\ \A c \in Clusters : g[c] # h[f]
  <2>1. h[f] \in Clusters /\ own[h[f]] = f /\ idx[h[f]] = 0
    BY <1>2, <1>4 DEF Chains, LabelsOK, MaybeCluster
  <2>2. g[h[f]] # FREE
    BY <2>1 DEF Chains, LabelsOK
  <2>3. ASSUME NEW c \in Clusters, g[c] = h[f] PROVE FALSE
    <3>1. own[c] = f /\ idx[h[f]] = idx[c] + 1
      BY <2>1, <2>3 DEF Chains, LabelsOK
    <3>2. idx[c] \in Nat
      BY <1>2
    <3> QED BY <2>1, <3>1, <3>2
  <2> QED BY <2>1, <2>2, <2>3
<1>5. RestOK(g, own2, Rest(h[f]), lossy)
  <2>1. Rest(h[f]) \in Clusters => g[Rest(h[f])] # FREE /\ own2[Rest(h[f])] = NoName
                                   /\ \A c \in Clusters : g[c] # Rest(h[f])
    BY <1>3, <1>4, NamesFacts DEF Rest
  <2>2. ASSUME ~lossy, NEW c \in Clusters, g[c] # FREE, own2[c] = NoName
        PROVE  c = Rest(h[f]) \/ \E d \in Clusters : g[d] = c
    <3>1. CASE own[c] = NoName
      BY <2>2, <3>1, NamesFacts DEF Chains, RestOK
    <3>2. CASE own[c] = f /\ idx[c] = 0
      <4>1. c = h[f]
        BY <3>2 DEF Chains, LabelsOK
      <4> QED BY <4>1, NamesFacts DEF Rest
    <3>3. CASE own[c] = f /\ idx[c] # 0
      <4>1. idx[c] > 0
        BY <1>2, <3>3
      <4> QED BY <3>3, <4>1 DEF Chains, LabelsOK
    <3> QED BY <1>3, <2>2, <3>1, <3>2, <3>3
  <2> QED BY <2>1, <2>2 DEF RestOK
<1> QED BY <1>1, <1>5 DEF Chains

(* The rest of a chain that was to be freed is lost. *)
LEMMA ChainForgotten ==
  ASSUME NEW g, NEW own, NEW idx, NEW h, NEW st, NEW lossy, Chains(g, own, idx, h, st, lossy)
  PROVE  Chains(g, own, idx, h, LAST, TRUE)
BY NamesFacts DEF Chains, RestOK

LEMMA ChainLossy ==
  ASSUME NEW g, NEW own, NEW idx, NEW h, NEW st, NEW lossy, Chains(g, own, idx, h, st, lossy)
  PROVE  Chains(g, own, idx, h, st, TRUE)
BY DEF Chains, RestOK

(* The chain of f ends at its cluster cur. *)
LEMMA ChainCut ==
  ASSUME NEW g, NEW own, NEW idx, NEW h, NEW lossy, Chains(g, own, idx, h, LAST, lossy),
         NEW f \in Names, NEW cur \in Clusters, own[cur] = f, g[cur] \in Clusters,
         NEW g2, \A d \in Clusters : g2[d] = IF d = cur THEN LAST ELSE g[d],
         NEW own2, own2 = [c \in Clusters |-> IF own[c] = f /\ idx[c] > idx[cur] THEN NoName
                                               ELSE own[c]]
  PROVE  Chains(g2, own2, idx, h, g[cur], lossy)
<1>1. own \in [Clusters -> Names \union {NoName}] /\ idx \in [Clusters -> Nat]
      /\ h \in [Names -> MaybeCluster]
  BY DEF Chains, LabelsOK
<1>2. own2 \in [Clusters -> Names \union {NoName}]
  BY <1>1
<1>3. \A d \in Clusters : own2[d] = IF own[d] = f /\ idx[d] > idx[cur] THEN NoName ELSE own[d]
  BY <1>1
<1>4. \A d \in Clusters : own2[d] \in Names =>
        own2[d] = own[d] /\ ~ (own[d] = f /\ idx[d] > idx[cur])
  BY <1>3, NamesFacts
<1>5. LAST # BadLink
  BY Numbers
<1>6. LinksOK(g2)
  <2>1. \A d, b \in Clusters : g2[d] = g2[b] /\ g2[d] \in Clusters => d = b
    BY NamesFacts DEF Chains, LinksOK
  <2>2. \A d \in Clusters : g2[d] # BadLink /\ (g2[d] \in Clusters => g2[g2[d]] # FREE)
    BY <1>5, NamesFacts DEF Chains, LinksOK
  <2> QED BY <2>1, <2>2 DEF LinksOK
<1>7. \A d \in Clusters : own[d] = f /\ d # cur => idx[d] # idx[cur]
  BY DEF Chains, LabelsOK
<1>8. LabelsOK(g2, own2, idx, h)
  <2>1. ASSUME NEW d \in Clusters, g2[d] \in Clusters
        PROVE  own2[g2[d]] = own2[d] /\ (own2[d] \in Names => idx[g2[d]] = idx[d] + 1)
    <3>1. d # cur /\ g2[d] = g[d]
      BY <2>1, NamesFacts
    <3>2. own[g[d]] = own[d] /\ (own[d] \in Names => idx[g[d]] = idx[d] + 1)
      BY <2>1, <3>1 DEF Chains, LabelsOK
    <3>3. CASE own[d] = f
      <4>1. idx[d] \in Nat /\ idx[cur] \in Nat /\ idx[g[d]] = idx[d] + 1 /\ idx[d] # idx[cur]
        BY <1>1, <1>7, <3>1, <3>2, <3>3
      <4>2. idx[d] > idx[cur] <=> idx[g[d]] > idx[cur]
        BY <4>1
      <4> QED BY <1>3, <2>1, <3>1, <3>2, <3>3, <4>1, <4>2
    <3>4. CASE own[d] # f
      BY <1>3, <2>1, <3>1, <3>2, <3>4
    <3> QED BY <3>3, <3>4
  <2>2. \A d, b \in Clusters : own2[d] \in Names /\ own2[d] = own2[b] /\ idx[d] = idx[b] => d = b
    BY <1>4 DEF Chains, LabelsOK
  <2>3. ASSUME NEW d \in Clusters, own2[d] \in Names, idx[d] > 0
        PROVE  \E b \in Clusters : g2[b] = d
    <3>1. own[d] \in Names /\ own2[d] = own[d]
      BY <1>4, <2>3
    <3>2. PICK b \in Clusters : g[b] = d
      BY <2>3, <3>1 DEF Chains, LabelsOK
    <3>3. b # cur
      <4>1. ASSUME b = cur PROVE FALSE
        <5>1. own[d] = f /\ idx[d] = idx[cur] + 1
          BY <3>2, <4>1 DEF Chains, LabelsOK
        <5>2. idx[d] > idx[cur]
          BY <1>1, <5>1
        <5> QED BY <1>4, <2>3, <5>1, <5>2
      <4> QED BY <4>1
    <3> QED BY <3>2, <3>3
  <2>4. \A d \in Clusters : own2[d] \in Names /\ idx[d] = 0 => d = h[own2[d]]
    BY <1>4 DEF Chains, LabelsOK
  <2>5. ASSUME NEW b \in Names, h[b] # FREE PROVE own2[h[b]] = b /\ idx[h[b]] = 0
    <3>1. h[b] \in Clusters /\ own[h[b]] = b /\ idx[h[b]] = 0
      BY <1>1, <2>5 DEF Chains, LabelsOK, MaybeCluster
    <3>2. ~ (idx[h[b]] > idx[cur])
      BY <1>1, <3>1
    <3> QED BY <1>3, <3>1, <3>2
  <2>6. \A d \in Clusters : own2[d] \in Names => g2[d] # FREE
    BY <1>4, NamesFacts DEF Chains, LabelsOK
  <2> QED BY <1>1, <1>2, <2>1, <2>2, <2>3, <2>4, <2>5, <2>6 DEF LabelsOK
<1>9. RestOK(g2, own2, g[cur], lossy)
  <2>1. own[g[cur]] = f /\ idx[g[cur]] = idx[cur] + 1
    BY DEF Chains, LabelsOK
  <2>2. idx[g[cur]] > idx[cur]
    BY <1>1, <2>1
  <2>3. g[cur] # cur
    BY <1>1, <2>2
  <2>4. g2[g[cur]] # FREE /\ own2[g[cur]] = NoName
    BY <1>3, <2>1, <2>2, <2>3 DEF Chains, LinksOK
  <2>5. \A d \in Clusters : g2[d] # g[cur]
    BY NamesFacts DEF Chains, LinksOK
  <2>6. ASSUME ~lossy, NEW c \in Clusters, g2[c] # FREE, own2[c] = NoName
        PROVE  c = g[cur] \/ \E d \in Clusters : g2[d] = c
    <3>1. PICK d \in Clusters : g[d] = c
      <4>1. CASE own[c] = NoName
        <5>1. c # cur
          BY <4>1, NamesFacts
        <5> QED BY <2>6, <4>1, <5>1, NamesFacts DEF Chains, RestOK
      <4>2. CASE own[c] = f /\ idx[c] > idx[cur]
        <5>1. idx[c] > 0
          BY <1>1, <4>2
        <5> QED BY <4>2, <5>1 DEF Chains, LabelsOK
      <4> QED BY <1>3, <2>6, <4>1, <4>2
    <3> QED BY <3>1
  <2> QED BY <2>4, <2>5, <2>6 DEF RestOK
<1> QED BY <1>6, <1>8, <1>9 DEF Chains

(* The first cluster that is to be freed is free. *)
LEMMA ChainWiped ==
  ASSUME NEW g, NEW own, NEW idx, NEW h, NEW st \in Clusters, NEW lossy,
         Chains(g, own, idx, h, st, lossy),
         NEW g2, \A d \in Clusters : g2[d] = IF d = st THEN FREE ELSE g[d]
  PROVE  Chains(g2, own, idx, h, g[st], lossy)
<1>1. g[st] # FREE /\ own[st] = NoName /\ \A c \in Clusters : g[c] # st
  BY DEF Chains, RestOK
<1>2. FREE # BadLink
  BY Numbers
<1>3. LinksOK(g2)
  <2>1. \A d, b \in Clusters : g2[d] = g2[b] /\ g2[d] \in Clusters => d = b
    BY NamesFacts DEF Chains, LinksOK
  <2>2. \A d \in Clusters : g2[d] # BadLink /\ (g2[d] \in Clusters => g2[g2[d]] # FREE)
    BY <1>1, <1>2, NamesFacts DEF Chains, LinksOK
  <2> QED BY <2>1, <2>2 DEF LinksOK
<1>4. LabelsOK(g2, own, idx, h)
  <2>1. \A d \in Clusters : g2[d] \in Clusters =>
          own[g2[d]] = own[d] /\ (own[d] \in Names => idx[g2[d]] = idx[d] + 1)
    BY NamesFacts DEF Chains, LabelsOK
  <2>2. ASSUME NEW c \in Clusters, own[c] \in Names, idx[c] > 0
        PROVE  \E d \in Clusters : g2[d] = c
    <3>1. PICK d \in Clusters : g[d] = c
      BY <2>2 DEF Chains, LabelsOK
    <3>2. own[c] = own[d]
      BY <3>1 DEF Chains, LabelsOK
    <3>3. d # st
      BY <1>1, <2>2, <3>2, NamesFacts
    <3> QED BY <3>1, <3>3
  <2>3. \A d \in Clusters : own[d] \in Names => g2[d] # FREE
    BY <1>1, NamesFacts DEF Chains, LabelsOK
  <2> QED BY <2>1, <2>2, <2>3 DEF Chains, LabelsOK
<1>5. RestOK(g2, own, g[st], lossy)
  <2>1. ASSUME g[st] \in Clusters
        PROVE  g2[g[st]] # FREE /\ own[g[st]] = NoName /\ \A c \in Clusters : g2[c] # g[st]
    <3>1. g[st] # st /\ g[g[st]] # FREE /\ own[g[st]] = own[st]
      BY <1>1, <2>1 DEF Chains, LinksOK, LabelsOK
    <3>2. \A c \in Clusters : g[c] = g[st] => c = st
      BY <2>1 DEF Chains, LinksOK
    <3> QED BY <1>1, <2>1, <3>1, <3>2
  <2>2. ASSUME ~lossy, NEW c \in Clusters, g2[c] # FREE, own[c] = NoName
        PROVE  c = g[st] \/ \E d \in Clusters : g2[d] = c
    <3>1. c # st /\ g[c] # FREE
      BY <2>2
    <3>2. PICK d \in Clusters : g[d] = c
      BY <2>2, <3>1 DEF Chains, RestOK
    <3> QED BY <3>2
  <2> QED BY <2>1, <2>2 DEF RestOK
<1> QED BY <1>3, <1>4, <1>5 DEF Chains

(* f is now called b. *)
LEMMA ChainRenamed ==
  ASSUME NEW g, NEW own, NEW idx, NEW h, NEW lossy, Chains(g, own, idx, h, LAST, lossy),
         NEW f \in Names, NEW b \in Names, f # b, \A c \in Clusters : own[c] # b, h[b] = FREE,
         NEW own2, NEW h2,
         own2 = [c \in Clusters |-> IF own[c] = f THEN b ELSE own[c]],
         h2 = [h EXCEPT ![f] = FREE, ![b] = h[f]]
  PROVE  Chains(g, own2, idx, h2, LAST, lossy)
<1>1. own \in [Clusters -> Names \union {NoName}] /\ idx \in [Clusters -> Nat]
      /\ h \in [Names -> MaybeCluster]
  BY DEF Chains, LabelsOK
<1>2. own2 \in [Clusters -> Names \union {NoName}] /\ h2 \in [Names -> MaybeCluster]
  BY <1>1, NumbersMore
<1>3. /\ \A d \in Clusters : own2[d] = IF own[d] = f THEN b ELSE own[d]
      /\ \A a \in Names : h2[a] = IF a = f THEN FREE ELSE IF a = b THEN h[f] ELSE h[a]
  BY <1>1
<1>4. LabelsOK(g, own2, idx, h2)
  <2>1. \A d \in Clusters : own2[d] \in Names => own[d] \in Names
    BY <1>3
  <2>2. \A d \in Clusters : g[d] \in Clusters =>
          own2[g[d]] = own2[d] /\ (own2[d] \in Names => idx[g[d]] = idx[d] + 1)
    BY <1>3, <2>1 DEF Chains, LabelsOK
  <2>3. \A d, a \in Clusters : own2[d] = own2[a] => own[d] = own[a]
    BY <1>3
  <2>4. \A d, a \in Clusters : own2[d] \in Names /\ own2[d] = own2[a] /\ idx[d] = idx[a] => d = a
    BY <2>1, <2>3 DEF Chains, LabelsOK
  <2>5. \A d \in Clusters : own2[d] \in Names /\ idx[d] > 0 => \E a \in Clusters : g[a] = d
    BY <2>1 DEF Chains, LabelsOK
  <2>6. \A d \in Clusters : own2[d] \in Names /\ idx[d] = 0 => d = h2[own2[d]]
    BY <1>3, <2>1 DEF Chains, LabelsOK
  <2>7. ASSUME NEW a \in Names, h2[a] # FREE PROVE own2[h2[a]] = a /\ idx[h2[a]] = 0
    <3>1. \A n \in Names : h[n] # FREE => h[n] \in Clusters /\ own[h[n]] = n /\ idx[h[n]] = 0
      BY <1>1 DEF Chains, LabelsOK, MaybeCluster
    <3>2. CASE a = b
      <4>1. h2[a] = h[f] /\ h[f] # FREE
        BY <1>3, <2>7, <3>2
      <4>2. h[f] \in Clusters /\ own[h[f]] = f /\ idx[h[f]] = 0
        BY <3>1, <4>1
      <4> QED BY <1>3, <3>2, <4>1, <4>2
    <3>3. CASE a # b
      <4>1. a # f /\ h2[a] = h[a] /\ h[a] # FREE
        BY <1>3, <2>7, <3>3
      <4>2. h[a] \in Clusters /\ own[h[a]] = a /\ idx[h[a]] = 0
        BY <3>1, <4>1
      <4> QED BY <1>3, <4>1, <4>2
    <3> QED BY <3>2, <3>3
  <2>8. \A d \in Clusters : own2[d] \in Names => g[d] # FREE
    BY <2>1 DEF Chains, LabelsOK
  <2> QED BY <1>1, <1>2, <2>2, <2>4, <2>5, <2>6, <2>7, <2>8 DEF LabelsOK
<1>5. RestOK(g, own2, LAST, lossy)
  <2>1. \A d \in Clusters : own2[d] = NoName => own[d] = NoName
    BY <1>3, NamesFacts
  <2> QED BY <2>1, NamesFacts DEF Chains, RestOK
<1> QED BY <1>4, <1>5 DEF Chains

-----------------------------------------------------------------------------
(* Following a chain *)

(* In a chain that is in order next_cluster is the link. *)
LEMMA NextIsLink ==
  ASSUME LinksOK(fat), NEW c \in Clusters, fat[c] # FREE
  PROVE  next_cluster(c) = fat[c] /\ next_cluster(c) \notin {FREE, BadLink}
BY DEF LinksOK, next_cluster, NextIn

(* The clusters that follow c belong to the same file and are numbered. *)
LEMMA Walked ==
  ASSUME fat \in Table, NEW own, NEW idx, NEW h, NEW st, NEW lossy,
         Chains(fat, own, idx, h, st, lossy), NEW c \in Clusters, own[c] \in Names
  PROVE  \A i \in 0..Size : Nth(c)[i] \in Clusters =>
           own[Nth(c)[i]] = own[c] /\ idx[Nth(c)[i]] = idx[c] + i
<1> DEFINE P(i) == i \in 0..Size /\ Nth(c)[i] \in Clusters =>
                     own[Nth(c)[i]] = own[c] /\ idx[Nth(c)[i]] = idx[c] + i
           S == {i \in Nat : P(i)}
<1>1. c \in 0..LAST /\ idx[c] \in Nat /\ Size \in Nat
  BY Numbers DEF Chains, LabelsOK
<1>2. /\ Nth(c)[0] = c
      /\ \A i \in 1..Size : Nth(c)[i] = next_cluster(Nth(c)[i - 1])
  BY <1>1, NthType
<1>3. 0 \in S
  BY <1>1, <1>2
<1>4. ASSUME NEW i \in Nat, i \in S PROVE i + 1 \in S
  <2> SUFFICES ASSUME i + 1 \in 0..Size, Nth(c)[i + 1] \in Clusters
               PROVE  own[Nth(c)[i + 1]] = own[c] /\ idx[Nth(c)[i + 1]] = idx[c] + (i + 1)
    OBVIOUS
  <2>1. i \in 0..Size /\ i + 1 \in 1..Size /\ (i + 1) - 1 = i
    BY <1>1
  <2>2. Nth(c)[i + 1] = next_cluster(Nth(c)[i])
    BY <1>2, <2>1
  <2> DEFINE d == Nth(c)[i]
  <2> HIDE DEF d
  <2>3. d \in Clusters /\ fat[d] \in Clusters /\ next_cluster(d) = fat[d]
    BY <2>2, NamesFacts, Numbers DEF next_cluster, NextIn, d
  <2>4. own[d] = own[c] /\ idx[d] = idx[c] + i
    BY <1>4, <2>1, <2>3 DEF d
  <2>5. own[fat[d]] = own[c] /\ idx[fat[d]] = idx[d] + 1
    BY <2>3, <2>4 DEF Chains, LabelsOK
  <2>6. idx[fat[d]] = idx[c] + (i + 1)
    BY <1>1, <2>4, <2>5
  <2> QED BY <2>2, <2>3, <2>5, <2>6 DEF d
<1> HIDE DEF P
<1>5. \A i \in Nat : i \in S
  <2> HIDE DEF S
  <2> QED BY <1>3, <1>4, SetInduction
<1> QED BY <1>1, <1>5 DEF P

(* The n-th cluster of a file is what n links from its start lead to. *)
LEMMA Reaches ==
  ASSUME fat \in Table, NEW own, NEW idx, NEW h, NEW st, NEW lossy,
         Chains(fat, own, idx, h, st, lossy), NEW f \in Names
  PROVE  \A c \in Clusters : own[c] = f /\ idx[c] <= Size => Nth(h[f])[idx[c]] = c
<1> DEFINE P(i) == \A c \in Clusters : own[c] = f /\ idx[c] = i /\ i <= Size => Nth(h[f])[i] = c
           S == {i \in Nat : P(i)}
<1>1. idx \in [Clusters -> Nat] /\ h[f] \in 0..LAST /\ Size \in Nat
  BY NumbersMore, Numbers DEF Chains, LabelsOK
<1>2. /\ Nth(h[f])[0] = h[f]
      /\ \A i \in 1..Size : Nth(h[f])[i] = next_cluster(Nth(h[f])[i - 1])
  BY <1>1, NthType
<1>3. 0 \in S
  BY <1>2 DEF Chains, LabelsOK
<1>4. ASSUME NEW i \in Nat, i \in S PROVE i + 1 \in S
  <2> SUFFICES ASSUME NEW c \in Clusters, own[c] = f, idx[c] = i + 1, i + 1 <= Size
               PROVE  Nth(h[f])[i + 1] = c
    OBVIOUS
  <2>1. PICK d \in Clusters : fat[d] = c
    BY DEF Chains, LabelsOK
  <2>2. own[d] = f /\ idx[c] = idx[d] + 1
    BY <2>1 DEF Chains, LabelsOK
  <2>3. idx[d] = i /\ i <= Size /\ i + 1 \in 1..Size /\ (i + 1) - 1 = i
    BY <1>1, <2>2
  <2>4. Nth(h[f])[i] = d
    BY <1>4, <2>2, <2>3
  <2>5. next_cluster(d) = c
    BY <2>1, NextIsLink, NamesFacts DEF Chains
  <2> QED BY <1>2, <2>3, <2>4, <2>5
<1> HIDE DEF P
<1>5. \A i \in Nat : i \in S
  <2> HIDE DEF S
  <2> QED BY <1>3, <1>4, SetInduction
<1>6. \A i \in Nat : P(i)
  BY <1>5
<1> QED BY <1>1, <1>6 DEF P

(* A file that has an n-th cluster has all those before it. *)
LEMMA Below ==
  ASSUME NEW g, NEW own, NEW idx, NEW h, LabelsOK(g, own, idx, h),
         NEW c \in Clusters, own[c] \in Names, NEW j \in Nat, j <= idx[c]
  PROVE  \E d \in Clusters : own[d] = own[c] /\ idx[d] = j
<1> DEFINE P(n) == n <= idx[c] => \E d \in Clusters : own[d] = own[c] /\ idx[d] = idx[c] - n
           S == {n \in Nat : P(n)}
<1>1. idx \in [Clusters -> Nat]
  BY DEF LabelsOK
<1>2. 0 \in S
  BY <1>1
<1>3. ASSUME NEW n \in Nat, n \in S PROVE n + 1 \in S
  <2> SUFFICES ASSUME n + 1 <= idx[c]
               PROVE  \E d \in Clusters : own[d] = own[c] /\ idx[d] = idx[c] - (n + 1)
    OBVIOUS
  <2>1. PICK d \in Clusters : own[d] = own[c] /\ idx[d] = idx[c] - n
    BY <1>1, <1>3
  <2>2. idx[d] > 0
    BY <1>1, <2>1
  <2>3. PICK b \in Clusters : g[b] = d
    BY <2>1, <2>2 DEF LabelsOK
  <2>4. own[b] = own[c] /\ idx[d] = idx[b] + 1
    BY <2>1, <2>3 DEF LabelsOK
  <2>5. idx[b] = idx[c] - (n + 1)
    BY <1>1, <2>1, <2>4
  <2> QED BY <2>4, <2>5
<1> HIDE DEF P
<1>4. \A n \in Nat : n \in S
  <2> HIDE DEF S
  <2> QED BY <1>2, <1>3, SetInduction
<1>5. idx[c] - j \in Nat /\ idx[c] - j <= idx[c] /\ idx[c] - (idx[c] - j) = j
  BY <1>1
<1>6. P(idx[c] - j)
  BY <1>4, <1>5
<1> QED BY <1>5, <1>6 DEF P

-----------------------------------------------------------------------------
(* The files when the labels change *)

\* All files but f keep their labels.
Kept(f, own, idx, own2, idx2) ==
  \A c \in Clusters : own[c] \in Names /\ own[c] # f => own2[c] = own[c] /\ idx2[c] = idx[c]

LEMMA NothingFields ==
  /\ NoNode.file = NoName /\ NoNode.start = FREE /\ NoNode.len = 0 /\ NoNode.cur = FREE
  /\ NoNode.rel = 0 /\ NoNode.clean /\ NoNode.pos = 0
  /\ NoCall.op = "none" /\ NoCall.at = "none" /\ NoCall.name = NoName /\ NoCall.st = LAST
  /\ NoEntry.used = FALSE /\ NoEntry.start = FREE /\ NoEntry.len = 0
BY DEF NoNode, NoCall, NoEntry

LEMMA CoveredKept ==
  ASSUME NEW f, NEW b \in Names, b # f, NEW n, NEW own, NEW idx, NEW own2, NEW idx2,
         Kept(f, own, idx, own2, idx2), Covered(b, n, own, idx)
  PROVE  Covered(b, n, own2, idx2)
BY DEF Covered, Kept

LEMMA SoundKept ==
  ASSUME NEW f, NEW x \in Node, x.file \in Files, x.file # f,
         NEW own, NEW idx, NEW own2, NEW idx2, Kept(f, own, idx, own2, idx2),
         Sound(x, own, idx)
  PROVE  Sound(x, own2, idx2)
<1>1. x.file \in Names
  BY NumbersMore
<1>2. Covered(x.file, x.len, own2, idx2)
  BY <1>1, CoveredKept DEF Sound
<1>3. x.cur # FREE => x.cur \in Clusters
  BY DEF Node, MaybeCluster
<1>4. OnChain(x, own2, idx2)
  BY <1>1, <1>3 DEF Sound, OnChain, Kept
<1> QED BY <1>2, <1>4 DEF Sound

\* The slots and the closed files after a step that leaves the directory and the
\* SFT alone.
LEMMA SlotsKept ==
  ASSUME NEW d, NEW t \in SFT, NEW c, NEW c2, NEW own, NEW idx, NEW own2, NEW idx2, NEW f,
         SlotsOK(d, t, c, own, idx), Kept(f, own, idx, own2, idx2),
         \A s \in Slots : Cutting(c, s) => Cutting(c2, s),
         f \in Files => \A s \in Slots : t[s].file = f => Cutting(c2, s),
         \A b \in Files : Removing(c, b) => Removing(c2, b) \/ ~d[b].used,
         f \in Files => Removing(c2, f) \/ ~Closed(t, f) \/ ~d[f].used
  PROVE  SlotsOK(d, t, c2, own2, idx2)
<1>1. ASSUME NEW s \in Slots, t[s].file \in Files
      PROVE  Cutting(c2, s) \/ Sound(t[s], own2, idx2)
  <2>1. t[s] \in Node
    BY DEF SFT
  <2>2. CASE t[s].file = f
    BY <1>1, <2>2
  <2>3. CASE t[s].file # f
    <3>1. Cutting(c, s) \/ Sound(t[s], own, idx)
      BY <1>1 DEF SlotsOK
    <3> QED BY <1>1, <2>1, <2>3, <3>1, SoundKept
  <2> QED BY <2>2, <2>3
<1>2. ASSUME NEW b \in Files, d[b].used, Closed(t, b), ~Removing(c2, b)
      PROVE  Covered(b, d[b].len, own2, idx2) /\ (d[b].start = FREE => d[b].len = 0)
  <2>1. ~Removing(c, b) /\ b # f /\ b \in Names
    BY <1>2, NumbersMore
  <2>2. Covered(b, d[b].len, own, idx) /\ (d[b].start = FREE => d[b].len = 0)
    BY <1>2, <2>1 DEF SlotsOK
  <2> QED BY <2>1, <2>2, CoveredKept
<1> QED BY <1>1, <1>2 DEF SlotsOK

\* The heads depend on the start of the node and on the name of the call only.
LEMMA HeadsKept ==
  ASSUME NEW d, NEW t, NEW x, NEW c, NEW h, NEW x2, NEW c2, HeadsAre(d, t, x, c, h),
         x2.file = x.file, x2.start = x.start, c2.op = c.op, c2.name = c.name
  PROVE  HeadsAre(d, t, x2, c2, h)
BY DEF HeadsAre, Removing

LEMMA KeptSame ==
  ASSUME NEW own, NEW idx
  PROVE  Kept(NoName, own, idx, own, idx)
BY DEF Kept

LEMMA NoFile == NoName \notin Files /\ NoName \notin Names
BY NumbersMore

\* A call on an open file goes on, with the node x and the call c2.
LEMMA FilesMoved ==
  ASSUME NEW d, NEW t \in SFT, NEW x, NEW c, NEW own, NEW idx, NEW h,
         FilesOK(d, t, x, c, own, idx, h), x.file \in Files,
         NEW x2, x2.file = x.file, x2.start = x.start, Sound(x2, own, idx), Agrees(x2, d),
         c.op = "read" \/ ~x2.clean, NEW c2, c2.op = c.op, c2.name = c.name, c2.slot = c.slot, c2.st = c.st, ~ (c2 = NoCall),
         c.at # "wipe", c2.at \in {"extend", "data", "more", "shrink"},
         c2.at = "more" => x2.pos % CS = 0 /\ Covered(x2.file, x2.pos, own, idx),
         c2.at = "shrink" => x2.len = x2.pos /\ c2.op = "truncate"
  PROVE  FilesOK(d, t, x2, c2, own, idx, h)
<1>1. HeadsAre(d, t, x2, c2, h)
  BY HeadsKept DEF FilesOK
<1>2. SlotsOK(d, t, c2, own, idx)
  <2>1. \A s \in Slots : Cutting(c, s) => Cutting(c2, s)
    BY DEF Cutting
  <2>2. \A b \in Files : Removing(c, b) => Removing(c2, b)
    BY DEF Removing
  <2> QED BY <2>1, <2>2, SlotsKept, KeptSame, NoFile DEF FilesOK
<1>3. CallsOK(d, t, x2, c2, own, idx)
  <2>1. c.op \in {"read", "write", "truncate"} /\ c.slot \in Slots /\ t[c.slot].file = x.file
    BY DEF FilesOK, CallsOK
  <2>2. t[c.slot].start \in {FREE, x.start}
    BY DEF FilesOK, CallsOK, Cutting
  <2>3. c.st = LAST
    BY DEF FilesOK, CallsOK
  <2> QED BY <2>1, <2>2, <2>3, NoFile DEF CallsOK
<1> QED BY <1>1, <1>2, <1>3 DEF FilesOK

\* It ends, and the node goes back to the SFT.
LEMMA FilesReturned ==
  ASSUME NEW d, NEW t \in SFT, NEW x, NEW c, NEW own, NEW idx, NEW h,
         FilesOK(d, t, x, c, own, idx, h), x.file \in Files,
         NEW x2, x2.file = x.file, x2.start = x.start, Sound(x2, own, idx), Agrees(x2, d),
         NEW t2, t2 = [t EXCEPT ![c.slot] = x2]
  PROVE  FilesOK(d, t2, NoNode, NoCall, own, idx, h)
<1>1. /\ c.op \in {"read", "write", "truncate"} /\ c.slot \in Slots /\ t[c.slot].file = x.file
  BY DEF FilesOK, CallsOK
<1>2. \A s \in Slots : t2[s] = IF s = c.slot THEN x2 ELSE t[s]
  BY <1>1 DEF SFT
<1>3. \A s \in Slots : t2[s].file = t[s].file
  BY <1>1, <1>2
<1>4. \A f : ~Removing(c, f) /\ ~Removing(NoCall, f)
  BY <1>1, NothingFields DEF Removing
<1>5. \A f : Closed(t2, f) <=> Closed(t, f)
  BY <1>3 DEF Closed
<1>6. \A s \in Slots : t[s].file = x.file => s = c.slot
  BY <1>1 DEF FilesOK, SlotsOK
<1>7. HeadsAre(d, t2, NoNode, NoCall, h)
  <2> SUFFICES ASSUME NEW f \in Names
               PROVE  /\ \A s \in Slots : t2[s].file = f => h[f] = t2[s].start
                      /\ Closed(t2, f) => h[f] = IF d[f].used THEN d[f].start ELSE FREE
    BY <1>4, NothingFields, NoFile DEF HeadsAre
  <2>1. CASE f = x.file
    <3>1. h[f] = x.start
      BY <2>1 DEF FilesOK, HeadsAre
    <3>2. ~Closed(t2, f)
      BY <1>1, <1>5, <2>1 DEF Closed
    <3> QED BY <1>2, <1>3, <1>6, <2>1, <3>1, <3>2
  <2>2. CASE f # x.file
    <3>1. /\ \A s \in Slots : t[s].file = f => h[f] = t[s].start
          /\ Closed(t, f) => h[f] = IF d[f].used THEN d[f].start ELSE FREE
      BY <1>4, <2>2 DEF FilesOK, HeadsAre
    <3>2. \A s \in Slots : t2[s].file = f => t2[s] = t[s]
      BY <1>1, <1>2, <1>3, <2>2
    <3> QED BY <1>3, <1>5, <3>1, <3>2
  <2> QED BY <2>1, <2>2
<1>8. SlotsOK(d, t2, NoCall, own, idx)
  <2>1. \A s, u \in Slots : t2[s].file \in Files /\ t2[s].file = t2[u].file => s = u
    BY <1>3 DEF FilesOK, SlotsOK
  <2>2. \A s \in Slots : t2[s].file = NoName => t2[s] = NoNode
    BY <1>1, <1>2, <1>3, NoFile DEF FilesOK, SlotsOK
  <2>3. ASSUME NEW s \in Slots, t2[s].file \in Files
        PROVE  d[t2[s].file].used /\ Agrees(t2[s], d) /\ Sound(t2[s], own, idx)
    <3>1. d[t2[s].file].used
      BY <1>3, <2>3 DEF FilesOK, SlotsOK
    <3>2. CASE s = c.slot
      BY <1>2, <3>1, <3>2
    <3>3. CASE s # c.slot
      <4>1. ~Cutting(c, s)
        BY <3>3 DEF Cutting
      <4> QED BY <1>2, <2>3, <3>1, <3>3, <4>1 DEF FilesOK, SlotsOK
    <3> QED BY <3>2, <3>3
  <2>4. \A f \in Files : d[f].used /\ Closed(t2, f) =>
          Covered(f, d[f].len, own, idx) /\ (d[f].start = FREE => d[f].len = 0)
    BY <1>4, <1>5 DEF FilesOK, SlotsOK
  <2> QED BY <2>1, <2>2, <2>3, <2>4 DEF SlotsOK
<1>9. CallsOK(d, t2, NoNode, NoCall, own, idx)
  BY NothingFields, NoFile DEF CallsOK, Mapping
<1> QED BY <1>7, <1>8, <1>9 DEF FilesOK

-----------------------------------------------------------------------------
(* map_cluster on labelled chains *)

LEMMA OnFile ==
  ASSUME FatInv, NEW own, NEW idx, NEW h, Labelled(own, idx, h), call.at \in Mapping
  PROVE  /\ fn.file \in Files /\ fn.file \in Names /\ Sound(fn, own, idx) /\ Agrees(fn, dir)
         /\ h[fn.file] = fn.start /\ call.op \in {"read", "write", "truncate"}
         /\ call.op = "read" \/ ~fn.clean
         /\ call.slot \in Slots /\ sft[call.slot].file = fn.file /\ call.st = LAST
         /\ \A s \in Slots : sft[s].file = fn.file => s = call.slot
<1>1. fn.file \in Files \union {NoName}
  BY InvParts, NodeFields
<1>2. fn.file \in Files /\ fn.file \in Names
  BY <1>1, NumbersMore DEF Labelled, FilesOK, CallsOK
<1>3. call.at # "wipe"
  BY DEF Mapping
<1> QED BY <1>2, <1>3 DEF Labelled, FilesOK, CallsOK, HeadsAre, SlotsOK

LEMMA ReachedSound ==
  ASSUME FatInv, NEW own, NEW idx, NEW h, Labelled(own, idx, h), call.at \in Mapping,
         fn.cur # FREE, NEW i \in 0..Size, i <= Links, Ahead(i)
  PROVE  /\ Sound(Reached(i), own, idx) /\ Reached(i).cur \in Clusters
         /\ own[Reached(i).cur] = fn.file /\ idx[Reached(i).cur] = Reached(i).rel
<1>1. /\ fat \in Table /\ fn \in Node /\ fn.file \in Names /\ Sound(fn, own, idx)
      /\ h[fn.file] = fn.start
  BY InvParts, OnFile
<1>2. fn.start # FREE /\ own[fn.cur] = fn.file /\ idx[fn.cur] = fn.rel
  BY <1>1 DEF Sound, OnChain
<1>3. fn.start \in Clusters /\ fn.cur \in Clusters
  BY <1>1, <1>2, NodeFields DEF MaybeCluster
<1>4. own[fn.start] = fn.file /\ idx[fn.start] = 0
  BY <1>1, <1>2 DEF Labelled, Chains, LabelsOK
<1> DEFINE w == Rewound
<1>5. w.cur \in Clusters /\ own[w.cur] = fn.file /\ idx[w.cur] = w.rel
  <2>1. CASE relcluster < fn.rel
    <3>1. w.cur = fn.start /\ w.rel = 0
      BY <1>1, <2>1 DEF Rewound, Node
    <3> QED BY <1>3, <1>4, <3>1
  <2>2. CASE ~ (relcluster < fn.rel)
    <3>1. w = fn
      BY <2>2 DEF Rewound
    <3> QED BY <1>2, <1>3, <3>1
  <2> QED BY <2>1, <2>2
<1> HIDE DEF w
<1>6. Nth(w.cur)[0] = w.cur
  BY <1>1, <1>5, NthType, Numbers
<1>7. Nth(w.cur)[i] \in Clusters
  BY <1>5, <1>6 DEF Ahead, w
<1>8. own[Nth(w.cur)[i]] = fn.file /\ idx[Nth(w.cur)[i]] = w.rel + i
  BY <1>1, <1>5, <1>7, Walked DEF Labelled
<1> DEFINE x == Reached(i)
<1>9. /\ x \in Node /\ x.rel = w.rel + i /\ x.cur = Nth(w.cur)[i] /\ SameFile(x)
  BY <1>1, ReachedType DEF w, SameFile
<1> HIDE DEF x
<1>10. x.file = fn.file /\ x.start = fn.start /\ x.len = fn.len
  BY <1>1, <1>9, SameFileFields
<1>11. x.cur \in Clusters /\ own[x.cur] = fn.file /\ idx[x.cur] = x.rel
  BY <1>7, <1>8, <1>9
<1>12. Sound(x, own, idx)
  BY <1>1, <1>2, <1>10, <1>11, NamesFacts DEF Sound, OnChain
<1> QED BY <1>11, <1>12 DEF x

LEMMA FoundSound ==
  ASSUME FatInv, NEW own, NEW idx, NEW h, Labelled(own, idx, h), NEW at \in Mapping,
         NEW x \in Found(at)
  PROVE  /\ call.at = at /\ SameFile(x) /\ Sound(x, own, idx) /\ x.cur \in Clusters
         /\ own[x.cur] = fn.file /\ idx[x.cur] = relcluster /\ x.rel = relcluster
<1>1. fat \in Table /\ fn \in Node
  BY InvParts
<1>2. call.at = at /\ fn.cur # FREE /\ SameFile(x) /\ x.rel = relcluster
  BY <1>1, FoundType
<1>3. x = Reached(Links) /\ Ahead(Links)
  BY DEF Found
<1>4. Links \in 0..Size /\ Links <= Links
  BY <1>1, RewoundType
<1> QED BY <1>2, <1>3, <1>4, ReachedSound

LEMMA StopsSound ==
  ASSUME FatInv, NEW own, NEW idx, NEW h, Labelled(own, idx, h), call.at \in Mapping,
         NEW Ends, NEW e, NEW i \in Stops(Ends, e)
  PROVE  /\ SameFile(Reached(i)) /\ Sound(Reached(i), own, idx) /\ Reached(i).cur \in Clusters
         /\ own[Reached(i).cur] = fn.file /\ idx[Reached(i).cur] = Reached(i).rel
         /\ Reached(i).rel < relcluster
         /\ e \/ next_cluster(Reached(i).cur) \in Ends
<1>1. fat \in Table /\ fn \in Node
  BY InvParts
<1>2. /\ i \in 0..Size /\ i < Links /\ Ahead(i) /\ SameFile(Reached(i)) /\ fn.cur # FREE
      /\ Reached(i).rel < relcluster
      /\ e \/ next_cluster(Reached(i).cur) \in Ends
  BY <1>1, StopsType
<1>3. Links \in 0..Size
  BY <1>1, RewoundType
<1>4. i <= Links
  BY <1>2, <1>3
<1> QED BY <1>2, <1>4, ReachedSound

LEMMA NotFoundSound ==
  ASSUME FatInv, NEW own, NEW idx, NEW h, Labelled(own, idx, h), NEW at \in Mapping, NEW e,
         NEW x \in NotFound(at, e)
  PROVE  call.at = at /\ SameFile(x) /\ Sound(x, own, idx)
<1>1. call.at = at /\ SameFile(x)
  BY InvParts, NotFoundType
<1>2. Sound(fn, own, idx)
  BY <1>1, OnFile
<1>3. ASSUME NEW Ends, NEW i \in Stops(Ends, e) PROVE Sound(Reached(i), own, idx)
  BY <1>1, <1>3, StopsSound
<1> QED BY <1>1, <1>2, <1>3 DEF NotFound

LEMMA AtEndSound ==
  ASSUME FatInv, NEW own, NEW idx, NEW h, Labelled(own, idx, h), call.at \in Mapping,
         NEW x \in AtEnd
  PROVE  /\ Writing /\ SameFile(x) /\ Sound(x, own, idx)
         /\ x.cur = FREE => x = fn
         /\ x.cur # FREE => /\ x.cur \in Clusters /\ fat[x.cur] = LAST
                            /\ own[x.cur] = fn.file /\ idx[x.cur] = x.rel
<1>1. fat \in Table /\ fn \in Node
  BY InvParts
<1>2. /\ Writing /\ SameFile(x)
      /\ x.cur = FREE => x = fn
      /\ x.cur # FREE => x.rel < relcluster /\ next_cluster(x.cur) = LAST
  BY <1>1, AtEndType
<1>3. Sound(fn, own, idx)
  BY OnFile
<1>4. CASE fn.cur = FREE
  BY <1>2, <1>3, <1>4 DEF AtEnd
<1>5. CASE fn.cur # FREE
  <2>1. PICK i \in Stops({LAST}, FALSE) : x = Reached(i)
    BY <1>5 DEF AtEnd
  <2>2. Sound(x, own, idx) /\ x.cur \in Clusters /\ own[x.cur] = fn.file /\ idx[x.cur] = x.rel
    <3>1. PICK Ends : Ends = {LAST}
      OBVIOUS
    <3>2. PICK e : e = FALSE
      OBVIOUS
    <3>3. i \in Stops(Ends, e)
      BY <3>1, <3>2
    <3> QED BY <2>1, <3>3, StopsSound
  <2>3. fat[x.cur] = LAST
    BY <1>2, <2>2, NamesFacts, Numbers DEF next_cluster, NextIn
  <2> QED BY <1>2, <2>2, <2>3
<1> QED BY <1>4, <1>5

-----------------------------------------------------------------------------
(* Offsets in clusters *)

LEMMA DivMod ==
  ASSUME NEW a \in Nat, NEW n \in Nat, n > 0
  PROVE  /\ a \div n \in Nat /\ a % n \in Nat /\ a % n < n
         /\ n * (a \div n) \in Nat /\ a = n * (a \div n) + (a % n)
         /\ n * ((a \div n) + 1) = n * (a \div n) + n
OBVIOUS

LEMMA Multiple ==
  ASSUME NEW k \in Nat, NEW n \in Nat, n > 0
  PROVE  (n * k) % n = 0
<1>1. PICK m \in Nat : m = n * k
  OBVIOUS
<1>2. PICK q \in Nat : q = m \div n
  BY DivMod
<1>3. PICK r \in Nat : r = m % n
  BY DivMod
<1>4. m = n * q + r /\ r < n
  BY <1>2, <1>3, DivMod
<1>5. r = n * (k - q)
  BY <1>1, <1>4
<1>6. CASE k - q >= 1
  <2>1. n * (k - q) >= n
    BY <1>6
  <2> QED BY <1>4, <1>5, <2>1
<1>7. CASE k - q <= -1
  <2>1. PICK j \in Nat : j = q - k /\ j >= 1
    BY <1>7
  <2>2. n * j >= n
    BY <2>1
  <2>3. r = 0 - n * j
    BY <1>5, <2>1
  <2> QED BY <2>2, <2>3
<1>8. CASE k - q = 0
  <2>1. r = 0
    BY <1>5, <1>8
  <2> QED BY <1>1, <1>3, <2>1
<1> QED BY <1>6, <1>7, <1>8

\* The offset of the next cluster.
LEMMA NextOffset ==
  ASSUME NEW a \in Nat
  PROVE  /\ CS - (a % CS) \in Nat /\ a % CS \in Nat
         /\ a + (CS - (a % CS)) = CS * ((a \div CS) + 1)
         /\ (a + (CS - (a % CS))) % CS = 0
<1>1. CS \in Nat /\ CS > 0
  BY NumbersMore
<1>2. /\ a \div CS \in Nat /\ a % CS \in Nat /\ a % CS < CS
      /\ CS * (a \div CS) \in Nat /\ a = CS * (a \div CS) + (a % CS)
      /\ CS * ((a \div CS) + 1) = CS * (a \div CS) + CS
  BY <1>1, DivMod
<1>3. a + (CS - (a % CS)) = CS * ((a \div CS) + 1)
  BY <1>1, <1>2
<1>4. (a \div CS) + 1 \in Nat
  BY <1>2
<1>5. (CS * ((a \div CS) + 1)) % CS = 0
  BY <1>1, <1>4, Multiple
<1> QED BY <1>1, <1>2, <1>3, <1>5

-----------------------------------------------------------------------------
(* One lemma per step of a call on an open file *)

LEMMA Relabelled ==
  ASSUME NEW own, NEW idx, NEW h, Chains(fat', own, idx, h, call'.st, errors' # 0),
         FilesOK(dir', sft', fn', call', own, idx, h)
  PROVE  ChainInv'
BY DEF ChainInv, Labelled

LEMMA ChainMore ==
  ASSUME NEW g, NEW own, NEW idx, NEW h, NEW st, NEW lossy, NEW lossier,
         Chains(g, own, idx, h, st, lossy), lossy => lossier
  PROVE  Chains(g, own, idx, h, st, lossier)
BY DEF Chains, RestOK

LEMMA Lossier ==
  ASSUME HistoryOK, NEW e \in BOOLEAN, Drive(e)
  PROVE  (errors # 0 => errors' # 0) /\ (e => errors' # 0)
BY NumbersMore DEF HistoryOK, Drive

LEMMA MergedSame ==
  ASSUME NEW t \in SFT, NEW s, NEW x, \A o \in Slots : t[o].file = x.file => o = s
  PROVE  Merged(t, x, s) = t
<1>1. \A o \in Slots : (IF o # s /\ t[o].file = x.file
                        THEN [t[o] EXCEPT !.start = x.start, !.len = x.len] ELSE t[o]) = t[o]
  OBVIOUS
<1>2. Merged(t, x, s) = [o \in Slots |-> t[o]]
  BY <1>1 DEF Merged
<1> QED BY <1>2 DEF SFT

\* A node of the file of the call, with the length that fn has.
Within(x, own, idx) ==
  /\ x \in Node /\ x.file = fn.file /\ x.start = fn.start /\ x.clean = fn.clean /\ x.len = fn.len
  /\ OnChain(x, own, idx)

LEMMA WithinSound ==
  ASSUME FatInv, NEW own, NEW idx, NEW h, Labelled(own, idx, h), call.at \in Mapping,
         NEW x, Within(x, own, idx)
  PROVE  Sound(x, own, idx) /\ Agrees(x, dir) /\ (call.op = "read" \/ ~x.clean)
BY OnFile DEF Within, Sound, Agrees

LEMMA SameWithin ==
  ASSUME FatInv, NEW own, NEW idx, NEW x, SameFile(x), Sound(x, own, idx)
  PROVE  Within(x, own, idx)
BY InvParts, SameFileFields DEF Within, Sound

LEMMA ReturnFiles ==
  ASSUME FatInv, NEW own, NEW idx, NEW h, Labelled(own, idx, h), call.at \in Mapping,
         NEW x, Within(x, own, idx), NEW r, ReturnNode(x, r)
  PROVE  FilesOK(dir, sft', fn', call', own, idx, h) /\ call'.st = LAST
<1>1. Sound(x, own, idx) /\ Agrees(x, dir)
  BY WithinSound
<1>2. sft' = [sft EXCEPT ![call.slot] = x] /\ fn' = NoNode /\ call' = NoCall
  BY DEF ReturnNode, Return, fnode_to_sft
<1>3. FilesOK(dir, sft', NoNode, NoCall, own, idx, h)
  BY <1>1, <1>2, OnFile, InvParts, FilesReturned DEF Within, Labelled
<1> QED BY <1>2, <1>3, NothingFields

LEMMA TransferFiles ==
  ASSUME FatInv, NEW own, NEW idx, NEW h, Labelled(own, idx, h), call.at \in {"data", "more"},
         NEW x, Within(x, own, idx), call.op = "write" => Covered(fn.file, x.pos, own, idx),
         call.op = "write" => x.start # FREE \/ x.pos = 0,
         NEW got \in Nat, got <= x.pos, NEW e \in BOOLEAN, Transfer(sft, x, got, e)
  PROVE  FilesOK(dir, sft', fn', call', own, idx, h) /\ call'.st = LAST
<1> DEFINE left == call.left - got
           write == call.op = "write"
           len == IF write THEN Max({x.len, x.pos}) ELSE x.len
           y == [x EXCEPT !.len = len]
           merged == IF write THEN Merged(sft, y, call.slot) ELSE sft
           done == left = 0 \/ (~write /\ y.pos >= y.len)
           z == [x EXCEPT !.pos = x.pos - got]
<1>1. call.at \in Mapping /\ sft \in SFT /\ call \in Call /\ x \in Node
  BY InvParts DEF Mapping, Within
<1>2. /\ fn.file \in Files /\ call.slot \in Slots /\ call.st = LAST
      /\ \A s \in Slots : sft[s].file = fn.file => s = call.slot
  BY <1>1, OnFile
<1>3. Sound(x, own, idx) /\ Agrees(x, dir) /\ (call.op = "read" \/ ~x.clean)
  BY <1>1, WithinSound
<1>4. \/ e /\ fnode_to_sft(sft, z) /\ Return("error")
      \/ ~e /\ done /\ fnode_to_sft(merged, y) /\ Return("ok")
      \/ /\ ~e /\ ~done
         /\ sft' = merged /\ fn' = y
         /\ call' = [call EXCEPT !.at = "data", !.left = left, !.got = 0, !.want = 0]
         /\ UNCHANGED res
  BY Zenon DEF Transfer
<1>5. len \in {x.len, x.pos} /\ (~write => len = x.len)
  BY <1>1, NodeFields, MaxOfTwo
<1> HIDE DEF len, left
<1>6. /\ y.file = fn.file /\ y.start = fn.start /\ y.cur = x.cur /\ y.rel = x.rel
      /\ y.clean = x.clean /\ y.len = len
  BY <1>1 DEF Node, Within
<1>7. /\ z.file = fn.file /\ z.start = fn.start /\ z.cur = x.cur /\ z.rel = x.rel
      /\ z.clean = x.clean /\ z.len = x.len
  BY <1>1 DEF Node, Within
<1> HIDE DEF y, z
<1>8. Sound(y, own, idx) /\ Agrees(y, dir)
  <2>1. Covered(fn.file, len, own, idx)
    BY <1>3, <1>5 DEF Sound, Within
  <2>2. OnChain(y, own, idx)
    BY <1>3, <1>5, <1>6 DEF Sound, OnChain, Within
  <2>3. Agrees(y, dir)
    BY <1>3, <1>5, <1>6, OnFile, <1>1 DEF Agrees, Within
  <2> QED BY <1>6, <2>1, <2>2, <2>3 DEF Sound
<1>9. Sound(z, own, idx) /\ Agrees(z, dir)
  BY <1>3, <1>7 DEF Sound, OnChain, Agrees, Within
<1>10. merged = sft
  BY <1>1, <1>2, <1>6, MergedSame
<1> HIDE DEF merged
<1>11. CASE e /\ fnode_to_sft(sft, z) /\ Return("error")
  <2>1. sft' = [sft EXCEPT ![call.slot] = z] /\ fn' = NoNode /\ call' = NoCall
    BY <1>11 DEF fnode_to_sft, Return
  <2>2. FilesOK(dir, sft', NoNode, NoCall, own, idx, h)
    BY <1>1, <1>2, <1>7, <1>9, <2>1, FilesReturned DEF Labelled
  <2> QED BY <2>1, <2>2, NothingFields
<1>12. CASE ~e /\ done /\ fnode_to_sft(merged, y) /\ Return("ok")
  <2>1. sft' = [sft EXCEPT ![call.slot] = y] /\ fn' = NoNode /\ call' = NoCall
    BY <1>10, <1>12 DEF fnode_to_sft, Return
  <2>2. FilesOK(dir, sft', NoNode, NoCall, own, idx, h)
    BY <1>1, <1>2, <1>6, <1>8, <2>1, FilesReturned DEF Labelled
  <2> QED BY <2>1, <2>2, NothingFields
<1>13. CASE /\ ~e /\ ~done
            /\ sft' = merged /\ fn' = y
            /\ call' = [call EXCEPT !.at = "data", !.left = left, !.got = 0, !.want = 0]
            /\ UNCHANGED res
  <2>1. /\ call'.op = call.op /\ call'.name = call.name /\ call'.slot = call.slot
        /\ call'.st = call.st /\ call'.at = "data"
    BY ONLY <1>1, <1>13 DEF Call
  <2>2. call' # NoCall
    BY <2>1, NothingFields
  <2>3. FilesOK(dir, sft, y, call', own, idx, h)
    BY <1>1, <1>2, <1>3, <1>6, <1>8, <2>1, <2>2, FilesMoved DEF Labelled
  <2> QED BY <1>2, <1>10, <1>13, <2>1, <2>3
<1> QED BY <1>4, <1>11, <1>12, <1>13

LEMMA GatherFiles ==
  ASSUME FatInv, NEW own, NEW idx, NEW h, Labelled(own, idx, h), call.at \in {"data", "more"},
         NEW x, Within(x, own, idx), x.start # FREE, NEW p \in Nat, NEW got \in Nat,
         p + got \in 0..MaxLen,
         Covered(fn.file, p + got, own, idx), got < Wanted(p) => (p + got) % CS = 0,
         NEW e \in BOOLEAN, Gather(sft, x, p, got, e)
  PROVE  FilesOK(dir, sft', fn', call', own, idx, h) /\ call'.st = LAST
<1> DEFINE y == [x EXCEPT !.pos = p + got]
<1>1. call.at \in Mapping /\ sft \in SFT /\ call \in Call /\ x \in Node
  BY InvParts DEF Mapping, Within
<1>2. \/ got >= Wanted(p) /\ Transfer(sft, y, got, e)
      \/ /\ got < Wanted(p) /\ ~e
         /\ sft' = sft /\ fn' = y
         /\ call' = [call EXCEPT !.at = "more", !.got = got, !.want = x.cur + 1]
         /\ UNCHANGED res
  BY DEF Gather
<1>3. /\ y \in Node /\ y.file = x.file /\ y.start = x.start /\ y.cur = x.cur /\ y.rel = x.rel
      /\ y.clean = x.clean /\ y.len = x.len /\ y.pos = p + got
  BY <1>1 DEF Node
<1> HIDE DEF y
<1>4. Within(y, own, idx) /\ y.start # FREE
  BY <1>3 DEF Within, OnChain
<1>5. CASE got >= Wanted(p) /\ Transfer(sft, y, got, e)
  <2>1. got <= y.pos
    BY <1>3
  <2> QED BY <1>3, <1>4, <1>5, <2>1, TransferFiles
<1>6. CASE /\ got < Wanted(p) /\ ~e
           /\ sft' = sft /\ fn' = y
           /\ call' = [call EXCEPT !.at = "more", !.got = got, !.want = x.cur + 1]
           /\ UNCHANGED res
  <2>1. /\ call'.op = call.op /\ call'.name = call.name /\ call'.slot = call.slot
        /\ call'.st = call.st /\ call'.at = "more"
    BY ONLY <1>1, <1>6 DEF Call
  <2>2. call' # NoCall
    BY <2>1, NothingFields
  <2>3. Sound(y, own, idx) /\ Agrees(y, dir) /\ (call.op = "read" \/ ~y.clean)
    BY <1>1, <1>4, WithinSound
  <2>4. y.pos % CS = 0 /\ Covered(y.file, y.pos, own, idx)
    BY <1>3, <1>6 DEF Within
  <2>5. fn.file \in Files /\ call.st = LAST /\ y.file = fn.file /\ y.start = fn.start
    BY <1>1, <1>4, OnFile DEF Within
  <2>6. FilesOK(dir, sft, y, call', own, idx, h)
    BY <1>1, <2>1, <2>2, <2>3, <2>4, <2>5, FilesMoved DEF Labelled
  <2> QED BY <1>6, <2>1, <2>5, <2>6
<1> QED BY <1>2, <1>5, <1>6

\* A step of the call that leaves the table alone, and the rest that is to be freed.
LEMMA ChainsSame ==
  ASSUME FatInv, NEW own, NEW idx, NEW h, Labelled(own, idx, h), call.st = LAST,
         UNCHANGED <<fat, dir>>, call'.st = LAST,
         errors' = errors \/ \E e \in BOOLEAN : Drive(e),
         FilesOK(dir, sft', fn', call', own, idx, h)
  PROVE  ChainInv'
<1>1. errors # 0 => errors' # 0
  BY Lossier DEF FatInv
<1>2. Chains(fat', own, idx, h, call'.st, errors' # 0)
  BY <1>1, ChainMore DEF Labelled
<1> QED BY <1>2, Relabelled

\* What ends with the cluster of the offset is covered.
LEMMA ClusterCovers ==
  ASSUME NEW own, NEW idx, NEW f, NEW c \in Clusters, own[c] = f, idx[c] \in 0..Size,
         NEW n, n <= CS * (idx[c] + 1)
  PROVE  Covered(f, n, own, idx)
<1>1. idx[c] <= Size
  BY Numbers
<1> QED BY <1>1 DEF Covered

LEMMA LocatedChains ==
  ASSUME FatInv, NEW own, NEW idx, NEW h, Labelled(own, idx, h), NEW e \in BOOLEAN, Located(e),
         ~damaged'
  PROVE  ChainInv'
<1>1. fat \in Table /\ fn \in Node /\ CallOK(call, fn, res) /\ sft \in SFT
  BY InvParts DEF FatInv
<1>2. PICK x \in Found("data") :
        Gather(IF call.op = "write" THEN Merged(sft, x, call.slot) ELSE sft,
               x, x.pos, Min({CS - (x.pos % CS), Wanted(x.pos)}), e)
  BY DEF Located
<1> DEFINE got == Min({CS - (x.pos % CS), Wanted(x.pos)})
<1>3. "data" \in Mapping
  BY DEF Mapping
<1>4. /\ call.at = "data" /\ SameFile(x) /\ Sound(x, own, idx) /\ x.cur \in Clusters
      /\ own[x.cur] = fn.file /\ idx[x.cur] = relcluster
  BY <1>3, FoundSound
<1>5. x \in Node /\ x.pos = fn.pos /\ x.file = fn.file /\ Within(x, own, idx) /\ x.start # FREE
  BY <1>1, <1>4, SameFileFields, SameWithin, NamesFacts DEF Sound, OnChain
<1>6. Merged(sft, x, call.slot) = sft
  BY <1>1, <1>3, <1>4, <1>5, OnFile, MergedSame
<1>7. Gather(sft, x, x.pos, got, e)
  BY <1>2, <1>6
<1>8. call.op \in {"read", "write"} /\ x.pos \in Nat /\ x.pos <= fn.pos /\ call.got = 0
  BY <1>1, <1>4, <1>5, NodeFields DEF CallOK
<1>9. /\ Wanted(x.pos) \in 0..call.left
      /\ call.op = "write" => Wanted(x.pos) = call.left
      /\ call.op = "read" => x.pos + Wanted(x.pos) <= fn.len
  BY <1>1, <1>8, WantedType
<1>10. call.left \in Nat /\ fn.len \in 0..MaxLen /\ MaxLen \in Nat
  BY <1>1, CallFields, NodeFields, NumbersMore DEF CallOK
<1>11. /\ CS - (x.pos % CS) \in Nat
       /\ x.pos + (CS - (x.pos % CS)) = CS * ((x.pos \div CS) + 1)
       /\ (x.pos + (CS - (x.pos % CS))) % CS = 0
  BY <1>8, NextOffset
<1> DEFINE room == CS - (x.pos % CS)
<1>12. got = IF room <= Wanted(x.pos) THEN room ELSE Wanted(x.pos)
  BY <1>9, <1>10, <1>11, MinOfTwo
<1>13. relcluster = x.pos \div CS /\ relcluster \in 0..Size
  BY <1>1, <1>4, <1>5, RelclusterType DEF relcluster, Offset
<1>14. x.pos + Wanted(x.pos) <= MaxLen
  <2>1. call.op = "write" => fn.pos + call.left <= MaxLen + call.got
    BY <1>1 DEF CallOK
  <2> QED BY <1>5, <1>8, <1>9, <1>10, <2>1
<1> HIDE DEF got
<1>15. x.pos + room <= CS * (relcluster + 1)
  <2>1. x.pos + room = CS * (relcluster + 1)
    BY <1>11, <1>13
  <2> HIDE DEF room
  <2> QED BY <1>8, <1>11, <2>1 DEF room
<1>16. got <= room /\ got <= Wanted(x.pos) /\ got \in Nat
  BY <1>9, <1>10, <1>11, <1>12
<1>17. x.pos + got \in 0..MaxLen
  BY <1>8, <1>9, <1>10, <1>14, <1>16
<1>18. Covered(fn.file, x.pos + got, own, idx)
  <2>1. PICK n \in Int : n = CS * (relcluster + 1)
    BY <1>13, NumbersMore, Numbers
  <2>2. x.pos + got <= n
    <3> HIDE DEF room
    <3> QED BY <1>8, <1>11, <1>15, <1>16, <2>1 DEF room
  <2> QED BY <1>4, <1>13, <2>1, <2>2, ClusterCovers
<1>19. got < Wanted(x.pos) => (x.pos + got) % CS = 0
  <2>1. got < Wanted(x.pos) => got = room
    BY <1>9, <1>10, <1>11, <1>12
  <2> QED BY <1>11, <2>1
<1>20. FilesOK(dir, sft', fn', call', own, idx, h) /\ call'.st = LAST
  BY <1>4, <1>5, <1>7, <1>8, <1>16, <1>17, <1>18, <1>19, GatherFiles
<1>21. call.st = LAST
  BY <1>3, <1>4, OnFile
<1>22. Drive(e) /\ UNCHANGED <<fat, dir>>
  BY Undamaged DEF Located
<1> QED BY <1>20, <1>21, <1>22, ChainsSame

\* A file without a start has no clusters.
LEMMA NoneCovered ==
  ASSUME NEW g, NEW own, NEW idx, NEW h, LabelsOK(g, own, idx, h), NEW f \in Names, h[f] = FREE
  PROVE  /\ \A c \in Clusters : own[c] # f
         /\ \A n : Covered(f, n, own, idx) => n = 0
<1>1. ASSUME NEW c \in Clusters, own[c] = f PROVE FALSE
  <2>1. 0 \in Nat /\ 0 <= idx[c]
    BY DEF LabelsOK
  <2>2. PICK j \in Nat : j = 0
    BY <2>1
  <2>3. PICK d \in Clusters : own[d] = own[c] /\ idx[d] = j
    BY <1>1, <2>1, <2>2, Below
  <2>4. d = h[f]
    BY <1>1, <2>2, <2>3 DEF LabelsOK
  <2> QED BY <2>4, NamesFacts
<1> QED BY <1>1 DEF Covered

\* What is gathered is transferred, from a node at another place of the file.
LEMMA FlushChains ==
  ASSUME FatInv, NEW own, NEW idx, NEW h, Labelled(own, idx, h), call.at = "more",
         NEW x, SameFile(x), Sound(x, own, idx), NEW e \in BOOLEAN, Transfer(sft, x, call.got, e)
  PROVE  FilesOK(dir, sft', fn', call', own, idx, h) /\ call'.st = LAST
<1>1. fn \in Node /\ CallOK(call, fn, res) /\ call.at \in Mapping
  BY InvParts DEF FatInv, Mapping
<1>2. x \in Node /\ x.pos = fn.pos /\ x.start = fn.start /\ Within(x, own, idx)
  BY <1>1, SameFileFields, SameWithin
<1>3. Covered(fn.file, x.pos, own, idx)
  BY <1>2 DEF Labelled, FilesOK, CallsOK
<1>4. x.start # FREE \/ x.pos = 0
  <2>1. fn.file \in Names /\ h[fn.file] = fn.start
    BY <1>1, OnFile
  <2> QED BY <1>2, <1>3, <2>1, NoneCovered DEF Labelled, Chains
<1>5. call.got \in Nat /\ call.got <= x.pos
  BY <1>1, <1>2, CallFields DEF CallOK
<1> QED BY <1>2, <1>3, <1>4, <1>5, TransferFiles

LEMMA GatheredChains ==
  ASSUME FatInv, NEW own, NEW idx, NEW h, Labelled(own, idx, h), NEW e \in BOOLEAN,
         NEW t \in BOOLEAN, Gathered(e, t), ~damaged'
  PROVE  ChainInv'
<1> DEFINE p == fn.pos - call.got
           got(q) == Min({call.got + CS, Wanted(q)})
<1>1. fat \in Table /\ fn \in Node /\ CallOK(call, fn, res) /\ sft \in SFT
  BY InvParts DEF FatInv
<1>2. /\ \/ \E x \in Found("more") :
              IF x.cur = call.want THEN Gather(sft, x, p, got(p), t)
              ELSE Transfer(sft, x, call.got, t)
         \/ \E x \in NotFound("more", e) : Transfer(sft, x, call.got, t)
      /\ \E d \in BOOLEAN : Drive(d)
      /\ UNCHANGED <<fat, dir>>
  <2>1. Drive(e \/ t) /\ (e \/ t) \in BOOLEAN /\ Becomes(fat, e) /\ UNCHANGED dir
    BY DEF Gathered
  <2>2. UNCHANGED fat
    BY <2>1, Undamaged
  <2> QED BY <2>1, <2>2 DEF Gathered
<1>3. "more" \in Mapping
  BY DEF Mapping
<1>4. PICK x : /\ SameFile(x) /\ call.at = "more" /\ Sound(x, own, idx)
               /\ \/ Gather(sft, x, p, got(p), t) /\ x \in Found("more")
                  \/ Transfer(sft, x, call.got, t)
  BY <1>2, <1>3, FoundSound, NotFoundSound
<1>5. FilesOK(dir, sft', fn', call', own, idx, h) /\ call'.st = LAST
  <2>1. CASE Gather(sft, x, p, got(p), t) /\ x \in Found("more")
    <3>1. call.op \in {"read", "write"}
      BY <1>1, <1>4 DEF CallOK
    <3>2. fn.pos \in Nat /\ call.got \in Nat /\ call.left \in Nat /\ call.got <= fn.pos
          /\ fn.len \in 0..MaxLen /\ MaxLen \in Nat
      BY <1>1, NodeFields, CallFields, NumbersMore DEF CallOK
    <3>3. p \in Nat /\ p <= fn.pos /\ p + call.got = fn.pos
      BY <3>2
    <3> HIDE DEF p
    <3>4. /\ Wanted(p) \in 0..call.left
          /\ call.op = "write" => Wanted(p) = call.left
          /\ call.op = "read" => p + Wanted(p) <= fn.len
      BY <1>1, <3>1, <3>3, WantedType
    <3> DEFINE k == got(p)
    <3>5. CS \in Nat /\ call.got + CS \in Nat
      BY <3>2, NumbersMore
    <3>6. k = IF call.got + CS <= Wanted(p) THEN call.got + CS ELSE Wanted(p)
      BY <3>2, <3>4, <3>5, MinOfTwo
    <3>7. Gather(sft, x, p, k, t)
      BY <2>1
    <3> HIDE DEF k
    <3>8. k \in Nat /\ k <= call.got + CS /\ k <= Wanted(p)
      BY <3>2, <3>4, <3>5, <3>6
    <3>9. p + k \in 0..MaxLen
      <4>1. call.op = "write" => fn.pos + call.left <= MaxLen + call.got
        BY <1>1 DEF CallOK
      <4> QED BY <3>1, <3>2, <3>3, <3>4, <3>8, <4>1
    <3>10. fn.pos % CS = 0
      BY <1>4 DEF Labelled, FilesOK, CallsOK
    <3>11. /\ fn.pos + (CS - (fn.pos % CS)) = CS * ((fn.pos \div CS) + 1)
           /\ (fn.pos + (CS - (fn.pos % CS))) % CS = 0
      BY <3>2, NextOffset
    <3>12. fn.pos + CS = CS * ((fn.pos \div CS) + 1) /\ (fn.pos + CS) % CS = 0
      <4>1. CS - (fn.pos % CS) = CS
        BY <3>5, <3>10
      <4> QED BY <3>11, <4>1
    <3>13. /\ x.cur \in Clusters /\ own[x.cur] = fn.file /\ idx[x.cur] = relcluster
           /\ x.start # FREE /\ Within(x, own, idx)
      BY <1>1, <1>3, <1>4, <2>1, FoundSound, SameWithin, NamesFacts DEF Sound, OnChain
    <3>14. relcluster = fn.pos \div CS /\ relcluster \in 0..Size
      BY <1>1, <1>4, RelclusterType DEF relcluster, Offset
    <3>15. Covered(fn.file, p + k, own, idx)
      <4>1. PICK n \in Int : n = CS * (relcluster + 1)
        BY <3>14, NumbersMore, Numbers
      <4>2. n = fn.pos + CS
        BY <3>12, <3>14, <4>1
      <4>3. p + k <= n
        BY <3>2, <3>3, <3>5, <3>8, <4>2
      <4> QED BY <3>13, <3>14, <4>1, <4>3, ClusterCovers
    <3>16. k < Wanted(p) => (p + k) % CS = 0
      <4>1. k < Wanted(p) => p + k = fn.pos + CS
        BY <3>2, <3>3, <3>4, <3>5, <3>6
      <4> QED BY <3>12, <4>1
    <3> QED BY <1>4, <3>3, <3>7, <3>8, <3>9, <3>13, <3>15, <3>16, GatherFiles
  <2>2. CASE Transfer(sft, x, call.got, t)
    BY <1>4, <2>2, FlushChains
  <2> QED BY <1>4, <2>1, <2>2
<1>6. call.st = LAST
  BY <1>3, <1>4, OnFile
<1> QED BY <1>2, <1>5, <1>6, ChainsSame

LEMMA ExtendedChains ==
  ASSUME FatInv, NEW own, NEW idx, NEW h, Labelled(own, idx, h), Extended
  PROVE  ChainInv'
<1>1. fat \in Table /\ fn \in Node /\ CallOK(call, fn, res) /\ sft \in SFT /\ call \in Call
  BY InvParts DEF FatInv
<1>2. PICK x \in Found("extend") : fn' = [x EXCEPT !.len = x.pos]
                                   /\ sft' = Merged(sft, [x EXCEPT !.len = x.pos], call.slot)
  BY DEF Extended
<1>3. "extend" \in Mapping
  BY DEF Mapping
<1>4. /\ call.at = "extend" /\ SameFile(x) /\ Sound(x, own, idx) /\ x.cur \in Clusters
      /\ own[x.cur] = fn.file /\ idx[x.cur] = relcluster
  BY <1>3, FoundSound
<1>5. /\ fn.file \in Files /\ call.op \in {"read", "write", "truncate"} /\ call.st = LAST
      /\ call.op = "read" \/ ~fn.clean
      /\ \A s \in Slots : sft[s].file = fn.file => s = call.slot
  BY <1>3, <1>4, OnFile
<1>6. call.op \in {"write", "truncate"} /\ ~fn.clean
  BY <1>1, <1>4, <1>5 DEF CallOK
<1>7. /\ x \in Node /\ x.pos = fn.pos /\ x.file = fn.file /\ x.start = fn.start
      /\ x.clean = fn.clean /\ x.start # FREE
  BY <1>1, <1>4, SameFileFields, NamesFacts DEF Sound, OnChain
<1>8. /\ fn'.file = fn.file /\ fn'.start = fn.start /\ fn'.clean = fn.clean
      /\ fn'.cur = x.cur /\ fn'.rel = x.rel /\ fn'.len = fn.pos /\ fn'.pos = fn.pos
  BY <1>2, <1>7 DEF Node
<1>9. relcluster = fn.pos \div CS /\ relcluster \in 0..Size /\ fn.pos \in Nat
  BY <1>1, <1>4, RelclusterType, NodeFields DEF relcluster, Offset
<1>10. Covered(fn.file, fn.pos, own, idx)
  <2>1. CS \in Nat /\ CS > 0
    BY NumbersMore
  <2>2. /\ fn.pos % CS \in Nat /\ fn.pos % CS < CS
        /\ CS * (fn.pos \div CS) \in Nat /\ fn.pos = CS * (fn.pos \div CS) + (fn.pos % CS)
        /\ CS * ((fn.pos \div CS) + 1) = CS * (fn.pos \div CS) + CS
    BY <1>9, <2>1, DivMod
  <2>3. fn.pos <= CS * ((fn.pos \div CS) + 1)
    BY <1>9, <2>1, <2>2
  <2> QED BY <1>4, <1>9, <2>3, ClusterCovers
<1>11. Sound(fn', own, idx) /\ Agrees(fn', dir)
  BY <1>4, <1>6, <1>7, <1>8, <1>10 DEF Sound, OnChain, Agrees
<1>12. sft' = sft
  <2>1. sft' = Merged(sft, fn', call.slot)
    BY <1>2
  <2> QED BY <1>1, <1>5, <1>8, <2>1, MergedSame
<1> DEFINE at == IF call.op = "truncate" THEN "shrink" ELSE "data"
<1>13. call' = [call EXCEPT !.at = at]
       /\ UNCHANGED <<fat, hint, nfree, dir, res, errors, damaged>>
  BY DEF Extended
<1>14. /\ call'.op = call.op /\ call'.name = call.name /\ call'.slot = call.slot
       /\ call'.st = call.st /\ call'.at = at
  BY ONLY <1>1, <1>13 DEF Call
<1>15. call' # NoCall /\ call'.at \in {"extend", "data", "more", "shrink"} /\ call'.at # "more"
       /\ (call'.at = "shrink" => call'.op = "truncate")
  BY <1>14, NothingFields
<1>16. FilesOK(dir, sft, fn', call', own, idx, h)
  BY <1>1, <1>4, <1>5, <1>6, <1>8, <1>11, <1>14, <1>15, FilesMoved DEF Labelled
<1> QED BY <1>5, <1>12, <1>13, <1>14, <1>16, ChainsSame

LEMMA EndedChains ==
  ASSUME FatInv, NEW own, NEW idx, NEW h, Labelled(own, idx, h), NEW e \in BOOLEAN, Ended(e),
         ~damaged'
  PROVE  ChainInv'
<1>1. PICK x \in NotFound("extend", e) \union NotFound("data", e) : ReturnNode(x, "error")
  BY DEF Ended
<1>2. "extend" \in Mapping /\ "data" \in Mapping
  BY DEF Mapping
<1>3. call.at \in Mapping /\ SameFile(x) /\ Sound(x, own, idx)
  BY <1>2, NotFoundSound
<1>4. Within(x, own, idx)
  BY <1>3, SameWithin
<1>5. FilesOK(dir, sft', fn', call', own, idx, h) /\ call'.st = LAST
  BY <1>1, <1>3, <1>4, ReturnFiles
<1>6. call.st = LAST
  BY <1>3, OnFile
<1>7. Drive(e) /\ UNCHANGED <<fat, dir>>
  BY Undamaged DEF Ended
<1> QED BY <1>5, <1>6, <1>7, ChainsSame

LEMMA ShrinkNothingChains ==
  ASSUME FatInv, NEW own, NEW idx, NEW h, Labelled(own, idx, h), ShrinkNothing
  PROVE  ChainInv'
<1>1. ReturnNode(fn, "ok") /\ UNCHANGED <<fat, dir, errors>> /\ call.at \in Mapping
  BY DEF ShrinkNothing, Mapping
<1>2. Within(fn, own, idx)
  BY <1>1, OnFile, InvParts DEF Within, Sound
<1>3. FilesOK(dir, sft', fn', call', own, idx, h) /\ call'.st = LAST
  BY <1>1, <1>2, ReturnFiles
<1>4. call.st = LAST
  BY <1>1, OnFile
<1> QED BY <1>1, <1>3, <1>4, ChainsSame

\* extend fails: the table is as it was, or after an error one cluster is lost.
LEMMA FailsLoses ==
  ASSUME FatInv, NEW e \in BOOLEAN, NEW cur \in MaybeCluster, extendFails(cur, e), ~damaged',
         cur # FREE => e \/ next_cluster(cur) = LAST,
         NEW b \in BOOLEAN, Drive(b), e => b,
         NEW own, NEW idx, NEW h, NEW st, Chains(fat, own, idx, h, st, errors # 0)
  PROVE  Chains(fat', own, idx, h, st, errors' # 0)
<1>1. PICK c \in find_fat_free(e) :
        \/ (c = LAST \/ e) /\ fat' = fat
        \/ /\ c # LAST /\ cur # FREE
           /\ e \/ NextIn(Marked(c), cur) # LAST
           /\ fat' = HalfDone(c, cur)
  BY Undamaged DEF extendFails, link_fat
<1>2. (errors # 0 => errors' # 0) /\ (e => errors' # 0)
  BY Lossier DEF FatInv
<1>3. CASE fat' = fat
  BY <1>2, <1>3, ChainMore
<1>4. CASE /\ c # LAST /\ cur # FREE
           /\ e \/ NextIn(Marked(c), cur) # LAST
           /\ fat' = HalfDone(c, cur)
  <2>1. c \in Clusters /\ fat[c] = FREE /\ fat \in Table
    BY <1>4, SearchType DEF FatInv, TableOK
  <2>2. e
    <3> SUFFICES ASSUME ~e PROVE FALSE
      OBVIOUS
    <3>1. next_cluster(cur) = LAST
      BY <1>4
    <3>2. cur \in Clusters /\ fat[cur] = LAST
      BY <3>1, Numbers DEF next_cluster, NextIn
    <3>3. Marked(c)[cur] = LAST
      BY <2>1, <3>2, Numbers DEF Marked, Table
    <3>4. NextIn(Marked(c), cur) = LAST
      BY <3>2, <3>3, Numbers DEF NextIn
    <3> QED BY <1>4, <3>4
  <2>3. \A d \in Clusters : fat'[d] = IF d = c THEN LAST ELSE fat[d]
    BY <1>4, <2>1 DEF HalfDone, Marked, Table
  <2>4. Chains(fat', own, idx, h, st, TRUE)
    BY <2>1, <2>3, ChainLoses
  <2> QED BY <1>2, <2>2, <2>4, ChainMore
<1> QED BY <1>1, <1>3, <1>4

LEMMA FullChains ==
  ASSUME FatInv, NEW own, NEW idx, NEW h, Labelled(own, idx, h), NEW e \in BOOLEAN,
         NEW t \in BOOLEAN, Full(e, t), ~damaged'
  PROVE  ChainInv'
<1>1. PICK x \in AtEnd :
        /\ extendFails(x.cur, e)
        /\ \/ call.at \in {"extend", "data"} /\ ReturnNode(x, "full")
           \/ call.at = "more" /\ Transfer(sft, x, call.got, t)
  BY DEF Full
<1>2. call.at \in Mapping /\ fn \in Node /\ fat \in Table
  BY <1>1, InvParts DEF Mapping
<1>3. SameFile(x) /\ Sound(x, own, idx) /\ (x.cur # FREE => next_cluster(x.cur) = LAST)
  BY <1>2, AtEndSound, AtEndType
<1>4. Within(x, own, idx) /\ x.cur \in MaybeCluster
  BY <1>2, <1>3, SameWithin, NodeFields DEF SameFile
<1>5. FilesOK(dir, sft', fn', call', own, idx, h) /\ call'.st = LAST
  <2>1. CASE ReturnNode(x, "full")
    BY <1>2, <1>4, <2>1, ReturnFiles
  <2>2. CASE call.at = "more" /\ Transfer(sft, x, call.got, t)
    BY <1>3, <2>2, FlushChains
  <2> QED BY <1>1, <2>1, <2>2
<1>6. call.st = LAST /\ UNCHANGED dir
  BY <1>2, OnFile DEF Full
<1>7. PICK d \in BOOLEAN : Drive(d) /\ d = (e \/ t)
  BY DEF Full
<1>8. Chains(fat', own, idx, h, call'.st, errors' # 0)
  BY <1>1, <1>3, <1>4, <1>5, <1>6, <1>7, FailsLoses DEF Labelled
<1> QED BY <1>5, <1>6, <1>8, Relabelled

LEMMA KeptGrown ==
  ASSUME NEW own, NEW idx, NEW c, own[c] \notin Names, NEW f, NEW n,
         own \in [Clusters -> Names \union {NoName}], idx \in [Clusters -> Nat]
  PROVE  Kept(NoName, own, idx, [own EXCEPT ![c] = f], [idx EXCEPT ![c] = n])
BY DEF Kept

\* The file of the call has grown.
LEMMA FilesGrown ==
  ASSUME NEW d, NEW t \in SFT, NEW x, NEW c, NEW own, NEW idx, NEW h, h \in [Names -> MaybeCluster],
         FilesOK(d, t, x, c, own, idx, h), x.file \in Files, c.at \in Mapping,
         NEW x2, x2.file = x.file, x2.len = x.len, x2.pos = x.pos, ~x2.clean,
         x.start # FREE => x2.start = x.start,
         NEW own2, NEW idx2, Kept(NoName, own, idx, own2, idx2), Sound(x2, own2, idx2),
         NEW h2, h2 = [h EXCEPT ![x.file] = x2.start]
  PROVE  FilesOK(d, t, x2, c, own2, idx2, h2)
<1>1. \A b \in Names : h2[b] = IF b = x.file THEN x2.start ELSE h[b]
  OBVIOUS
<1>2. HeadsAre(d, t, x2, c, h2)
  BY <1>1 DEF FilesOK, HeadsAre
<1>3. SlotsOK(d, t, c, own2, idx2)
  BY SlotsKept, NoFile DEF FilesOK
<1>4. CallsOK(d, t, x2, c, own2, idx2)
  <2>1. x.file \in Names /\ x.file # NoName
    BY NumbersMore
  <2>2. c.at = "more" => Covered(x2.file, x2.pos, own2, idx2)
    BY <2>1, CoveredKept DEF FilesOK, CallsOK
  <2>3. /\ c.op \in {"read", "write", "truncate"} /\ c.slot \in Slots /\ t[c.slot].file = x.file
        /\ Cutting(c, c.slot) \/ t[c.slot].start \in {FREE, x.start}
    BY DEF FilesOK, CallsOK
  <2>4. Agrees(x2, d)
    BY DEF Agrees
  <2>5. Cutting(c, c.slot) \/ t[c.slot].start \in {FREE, x2.start}
    BY <2>3
  <2>6. ~ (c = NoCall)
    BY <2>3, NothingFields
  <2>7. /\ c.at = "more" => x.pos % CS = 0
        /\ c.at = "shrink" => x.len = x.pos /\ c.op = "truncate"
        /\ c.at # "wipe" => c.st = LAST
        /\ c.at = "slot" => c.op \in {"create", "mkdir", "rename"}
    BY DEF FilesOK, CallsOK
  <2> QED BY <2>1, <2>2, <2>3, <2>4, <2>5, <2>6, <2>7 DEF CallsOK
<1> QED BY <1>2, <1>3, <1>4 DEF FilesOK

LEMMA MapExtendChains ==
  ASSUME FatInv, NEW own, NEW idx, NEW h, Labelled(own, idx, h), NEW e \in BOOLEAN,
         MapExtend(e), ~damaged'
  PROVE  ChainInv'
<1>1. fat \in Table /\ fn \in Node /\ sft \in SFT /\ CallOK(call, fn, res)
      /\ hint \in MaybeCluster /\ HistoryOK
  BY InvParts DEF FatInv, TableOK
<1>2. PICK x \in AtEnd, c \in Clusters :
        /\ extend(x.cur, c, e) /\ Drive(e)
        /\ fn' = IF x.cur = FREE THEN [x EXCEPT !.start = c, !.cur = c]
                 ELSE [x EXCEPT !.cur = c, !.rel = x.rel + 1]
  BY DEF MapExtend
<1>3. call.at \in Mapping /\ UNCHANGED <<dir, sft, call, res>>
  BY DEF MapExtend
<1>4. /\ Writing /\ SameFile(x) /\ Sound(x, own, idx)
      /\ x.cur = FREE => x = fn
      /\ x.cur # FREE => /\ x.cur \in Clusters /\ fat[x.cur] = LAST
                         /\ own[x.cur] = fn.file /\ idx[x.cur] = x.rel
  BY <1>3, AtEndSound
<1>5. /\ fn.file \in Files /\ fn.file \in Names /\ h[fn.file] = fn.start
      /\ call.op = "read" \/ ~fn.clean
  BY <1>3, OnFile
<1>6. ~fn.clean
  BY <1>1, <1>4, <1>5 DEF CallOK, Writing
<1>7. /\ x \in Node /\ x.file = fn.file /\ x.start = fn.start /\ x.len = fn.len
      /\ x.pos = fn.pos /\ x.clean = fn.clean
  BY <1>1, <1>4, SameFileFields
<1>8. fat[c] = FREE
  BY <1>1, <1>2, SearchType, Numbers DEF extend
<1>9. Drive(e) /\ fat' = Linked(c, x.cur)
  BY <1>2, Undamaged DEF extend, link_fat
<1>10. errors # 0 => errors' # 0
  BY <1>1, <1>9, Lossier
<1>11. /\ own \in [Clusters -> Names \union {NoName}] /\ idx \in [Clusters -> Nat]
       /\ h \in [Names -> MaybeCluster] /\ own[c] \notin Names
  BY <1>8, NamesFacts DEF Labelled, Chains, LabelsOK
<1>12. Chains(fat, own, idx, h, call.st, errors # 0)
  BY DEF Labelled
<1> DEFINE own2 == [own EXCEPT ![c] = fn.file]
<1>13. CASE x.cur = FREE
  <2> DEFINE idx2 == [idx EXCEPT ![c] = 0]
             h2 == [h EXCEPT ![fn.file] = c]
  <2>1. x.start = FREE /\ x.rel = 0 /\ x.len = 0
    BY <1>4, <1>13 DEF Sound, OnChain
  <2>2. \A d \in Clusters : fat'[d] = IF d = c THEN LAST ELSE fat[d]
    BY <1>1, <1>9, <1>13 DEF Linked, Marked, Table
  <2>3. Chains(fat', own2, idx2, h2, call.st, errors # 0)
    BY <1>5, <1>7, <1>8, <1>12, <2>1, <2>2, ChainStarts
  <2>4. Chains(fat', own2, idx2, h2, call'.st, errors' # 0)
    BY <1>3, <1>10, <2>3, ChainMore
  <2>5. Kept(NoName, own, idx, own2, idx2)
    BY <1>11, KeptGrown
  <2>6. own2[c] = fn.file /\ idx2[c] = 0
    BY <1>11
  <2>7. /\ fn'.file = fn.file /\ fn'.start = c /\ fn'.cur = c /\ fn'.rel = 0
        /\ fn'.len = fn.len /\ fn'.pos = fn.pos /\ fn'.clean = fn.clean
    BY <1>2, <1>7, <1>13, <2>1 DEF Node
  <2> HIDE DEF own2, idx2
  <2>8. Sound(fn', own2, idx2)
    BY <1>7, <2>1, <2>6, <2>7, NamesFacts DEF Sound, OnChain, Covered
  <2>9. h2 = [h EXCEPT ![fn.file] = fn'.start]
    BY <2>7
  <2> HIDE DEF h2
  <2>10. FilesOK(dir, sft, fn', call, own2, idx2, h2)
    BY <1>1, <1>3, <1>5, <1>6, <1>7, <1>11, <2>1, <2>5, <2>7, <2>8, <2>9, FilesGrown DEF Labelled
  <2> QED BY <1>3, <2>4, <2>10, Relabelled
<1>14. CASE x.cur # FREE
  <2> DEFINE idx2 == [idx EXCEPT ![c] = idx[x.cur] + 1]
  <2>1. x.start # FREE
    BY <1>4, <1>14 DEF Sound, OnChain
  <2>2. \A d \in Clusters : fat'[d] = IF d = c THEN LAST ELSE IF d = x.cur THEN c ELSE fat[d]
    <3>1. c # x.cur
      BY <1>4, <1>8, <1>14, NamesFacts
    <3> QED BY <1>1, <1>9, <1>14, <3>1 DEF Linked, Marked, Table
  <2>3. x.cur \in Clusters /\ fat[x.cur] = LAST /\ own[x.cur] = fn.file /\ idx[x.cur] = x.rel
    BY <1>4, <1>14
  <2>4. Chains(fat', own2, idx2, h, call.st, errors # 0)
    BY <1>5, <1>8, <1>12, <2>2, <2>3, ChainGrows
  <2>5. Chains(fat', own2, idx2, h, call'.st, errors' # 0)
    BY <1>3, <1>10, <2>4, ChainMore
  <2>6. Kept(NoName, own, idx, own2, idx2)
    BY <1>11, KeptGrown
  <2>7. own2[c] = fn.file /\ idx2[c] = x.rel + 1
    BY <1>11, <2>3
  <2>8. /\ fn'.file = fn.file /\ fn'.start = fn.start /\ fn'.cur = c /\ fn'.rel = x.rel + 1
        /\ fn'.len = fn.len /\ fn'.pos = fn.pos /\ fn'.clean = fn.clean
    BY <1>2, <1>7, <1>14 DEF Node
  <2> HIDE DEF own2, idx2
  <2>9. Sound(fn', own2, idx2)
    <3>1. Covered(fn.file, fn.len, own, idx)
      BY <1>4, <1>7 DEF Sound
    <3>2. Covered(fn.file, fn.len, own2, idx2)
      BY <1>5, <2>6, <3>1, CoveredKept, NoFile
    <3> QED BY <1>7, <2>1, <2>7, <2>8, <3>2, NamesFacts DEF Sound, OnChain
  <2>10. h = [h EXCEPT ![fn.file] = fn'.start]
    BY <1>5, <1>11, <2>8
  <2>11. FilesOK(dir, sft, fn', call, own2, idx2, h)
    BY <1>1, <1>3, <1>5, <1>6, <1>7, <1>11, <2>6, <2>8, <2>9, <2>10, FilesGrown DEF Labelled
  <2> QED BY <1>3, <2>5, <2>11, Relabelled
<1> QED BY <1>13, <1>14

\* The offset is in one of the first b clusters.
LEMMA DivBelow ==
  ASSUME NEW a \in Nat, NEW b \in Nat, NEW n \in Nat, n > 0, a < n * b
  PROVE  a \div n < b
<1>1. PICK q \in Nat : q = a \div n
  BY DivMod
<1>2. n * q \in Nat /\ n * q <= a
  BY <1>1, DivMod
<1>3. ASSUME q >= b PROVE FALSE
  <2>1. PICK j \in Nat : q = b + j
    BY <1>3
  <2>2. n * q = n * b + n * j /\ n * j \in Nat /\ n * b \in Nat
    BY <2>1
  <2> QED BY <1>2, <2>2
<1> QED BY <1>1, <1>3

\* The cluster that shrink_file looks for belongs to the file.
LEMMA ShrinkInFile ==
  ASSUME FatInv, NEW own, NEW idx, NEW h, Labelled(own, idx, h), call.at = "shrink",
         fn.pos # 0
  PROVE  \E c \in Clusters : own[c] = fn.file /\ relcluster <= idx[c]
<1>1. fn \in Node /\ call.at \in Mapping
  BY InvParts DEF Mapping
<1>2. fn.len = fn.pos /\ Covered(fn.file, fn.len, own, idx)
  BY <1>1, OnFile DEF Labelled, FilesOK, CallsOK, Sound
<1>3. PICK c \in Clusters : own[c] = fn.file /\ fn.pos <= CS * (idx[c] + 1)
  BY <1>2 DEF Covered
<1>4. idx[c] \in Nat
  BY DEF Labelled, Chains, LabelsOK
<1>5. fn.pos \in Nat /\ fn.pos > 0 /\ fn.pos - 1 \in Nat
  BY <1>1, NodeFields
<1>6. relcluster = (fn.pos - 1) \div CS
  BY <1>5 DEF relcluster, Offset
<1>7. CS \in Nat /\ CS > 0 /\ idx[c] + 1 \in Nat
  BY <1>4, NumbersMore
<1>8. fn.pos - 1 < CS * (idx[c] + 1)
  <2>1. PICK n \in Nat : n = CS * (idx[c] + 1)
    BY <1>7
  <2> QED BY <1>3, <1>5, <2>1
<1>9. (fn.pos - 1) \div CS < idx[c] + 1
  BY <1>5, <1>7, <1>8, DivBelow
<1>10. (fn.pos - 1) \div CS \in Nat
  BY <1>5, <1>7, DivMod
<1> QED BY <1>3, <1>4, <1>6, <1>9, <1>10

\* Without an error the cluster of the last byte is found, and its link is good.
LEMMA ShrinkFinds ==
  ASSUME FatInv, NEW own, NEW idx, NEW h, Labelled(own, idx, h), NEW e \in BOOLEAN,
         ShrinkFails(e), fn.start # FREE
  PROVE  e
<1> SUFFICES ASSUME ~e PROVE FALSE
  OBVIOUS
<1>1. "shrink" \in Mapping /\ fat \in Table /\ fn \in Node
  BY InvParts DEF Mapping
<1>2. /\ \/ NotFound("shrink", e) # {}
         \/ \E x \in Found("shrink") : next_cluster(x.cur) \in {FREE, BadLink}
  BY DEF ShrinkFails
<1>3. call.at = "shrink"
  BY <1>1, <1>2, NotFoundSound, FoundSound
<1>4. fn.file \in Names /\ Sound(fn, own, idx) /\ call.op = "truncate" /\ ~Writing
  BY <1>1, <1>3, OnFile DEF Labelled, FilesOK, CallsOK, Writing
<1>5. fn.cur # FREE
  BY <1>4 DEF Sound, OnChain
<1>6. ASSUME NEW c \in Clusters, own[c] = fn.file
      PROVE  next_cluster(c) = fat[c] /\ next_cluster(c) \notin {FREE, BadLink}
  BY <1>4, <1>6, NextIsLink DEF Labelled, Chains, LabelsOK
<1>7. CASE \E x \in Found("shrink") : next_cluster(x.cur) \in {FREE, BadLink}
  BY <1>1, <1>6, <1>7, FoundSound
<1>8. CASE NotFound("shrink", e) # {}
  <2> DEFINE Ends == {FREE, BadLink} \union {LAST}
  <2>1. PICK i \in Stops(Ends, e) : TRUE
    BY <1>3, <1>4, <1>5, <1>8 DEF NotFound
  <2> HIDE DEF Ends
  <2> DEFINE c == Reached(i).cur
             n == Reached(i).rel
  <2>2. c \in Clusters /\ own[c] = fn.file /\ idx[c] = n /\ n < relcluster
        /\ next_cluster(c) \in Ends
    BY <1>1, <1>3, StopsSound
  <2> HIDE DEF c, n
  <2>3. fat[c] = LAST
    BY <1>6, <2>2 DEF Ends
  <2>4. idx \in [Clusters -> Nat] /\ relcluster \in 0..Size /\ Size \in Nat
    BY <1>1, RelclusterType, Numbers DEF Labelled, Chains, LabelsOK
  <2>5. fn.pos # 0
    <3>1. ASSUME fn.pos = 0 PROVE relcluster = 0
      <4>1. Offset = 0
        BY <3>1 DEF Offset
      <4>2. CS \in Nat /\ CS > 0
        BY NumbersMore
      <4>3. 0 \div CS = 0
        BY <4>2
      <4> QED BY <4>1, <4>3 DEF relcluster
    <3> QED BY <2>2, <2>4, <3>1
  <2>6. PICK b \in Clusters : own[b] = fn.file /\ relcluster <= idx[b]
    BY <1>3, <2>5, ShrinkInFile
  <2>7. n + 1 \in Nat /\ n + 1 <= idx[b] /\ n + 1 > 0
    BY <2>2, <2>4, <2>6
  <2>8. LabelsOK(fat, own, idx, h)
    BY DEF Labelled, Chains
  <2>9. PICK d \in Clusters : own[d] = own[b] /\ idx[d] = n + 1
    BY <1>4, <2>6, <2>7, <2>8, Below
  <2>10. PICK a \in Clusters : fat[a] = d
    BY <1>4, <2>6, <2>7, <2>8, <2>9 DEF LabelsOK
  <2>11. own[a] = fn.file /\ idx[a] + 1 = n + 1
    BY <1>4, <2>6, <2>8, <2>9, <2>10 DEF LabelsOK
  <2>12. idx[a] = idx[c]
    BY <2>2, <2>4, <2>11
  <2>13. a = c
    BY <1>4, <2>2, <2>8, <2>11, <2>12 DEF LabelsOK
  <2> QED BY <2>3, <2>10, <2>13, NamesFacts
<1> QED BY <1>2, <1>7, <1>8

LEMMA KeptDropped ==
  ASSUME NEW own, NEW idx, NEW f
  PROVE  Kept(f, own, idx, [c \in Clusters |-> IF own[c] = f THEN NoName ELSE own[c]], idx)
BY DEF Kept

\* The call ends, and the clusters of its file are lost.
LEMMA FilesAbandoned ==
  ASSUME NEW d, NEW t \in SFT, NEW x, NEW c, NEW own, NEW idx, NEW h, h \in [Names -> MaybeCluster],
         FilesOK(d, t, x, c, own, idx, h), x.file \in Files, c.at # "wipe",
         t[c.slot].start = FREE, NEW own2, Kept(x.file, own, idx, own2, idx),
         NEW h2, h2 = [h EXCEPT ![x.file] = FREE]
  PROVE  FilesOK(d, t, NoNode, NoCall, own2, idx, h2)
<1>1. /\ c.op \in {"read", "write", "truncate"} /\ c.slot \in Slots /\ t[c.slot].file = x.file
  BY DEF FilesOK, CallsOK
<1>2. \A f : ~Removing(c, f) /\ ~Removing(NoCall, f)
  BY <1>1, NothingFields DEF Removing
<1>3. \A s \in Slots : ~Cutting(c, s)
  BY DEF Cutting
<1>4. \A s \in Slots : t[s].file = x.file => s = c.slot
  BY <1>1 DEF FilesOK, SlotsOK
<1>5. \A b \in Names : h2[b] = IF b = x.file THEN FREE ELSE h[b]
  OBVIOUS
<1>6. HeadsAre(d, t, NoNode, NoCall, h2)
  <2> SUFFICES ASSUME NEW f \in Names
               PROVE  /\ \A s \in Slots : t[s].file = f => h2[f] = t[s].start
                      /\ Closed(t, f) => h2[f] = IF d[f].used THEN d[f].start ELSE FREE
    BY <1>2, NothingFields, NoFile DEF HeadsAre
  <2>1. CASE f = x.file
    BY <1>1, <1>4, <1>5, <2>1 DEF Closed
  <2>2. CASE f # x.file
    BY <1>2, <1>5, <2>2 DEF FilesOK, HeadsAre
  <2> QED BY <2>1, <2>2
<1>7. SlotsOK(d, t, NoCall, own2, idx)
  <2>1. ASSUME NEW s \in Slots, t[s].file \in Files PROVE Sound(t[s], own2, idx)
    <3>1. Sound(t[s], own, idx) /\ t[s] \in Node
      BY <1>3, <2>1 DEF FilesOK, SlotsOK, SFT
    <3>2. CASE t[s].file = x.file
      <4>1. t[s].start = FREE
        BY <1>4, <3>2
      <4> QED BY <3>1, <4>1 DEF Sound, OnChain, Covered
    <3>3. CASE t[s].file # x.file
      BY <2>1, <3>1, <3>3, SoundKept
    <3> QED BY <3>2, <3>3
  <2>2. ASSUME NEW f \in Files, d[f].used, Closed(t, f)
        PROVE  Covered(f, d[f].len, own2, idx) /\ (d[f].start = FREE => d[f].len = 0)
    <3>1. f # x.file /\ f \in Names
      BY <1>1, <2>2, NumbersMore DEF Closed
    <3>2. Covered(f, d[f].len, own, idx) /\ (d[f].start = FREE => d[f].len = 0)
      BY <1>2, <2>2 DEF FilesOK, SlotsOK
    <3> QED BY <3>1, <3>2, CoveredKept
  <2> QED BY <2>1, <2>2 DEF FilesOK, SlotsOK
<1>8. CallsOK(d, t, NoNode, NoCall, own2, idx)
  BY NothingFields, NoFile DEF CallsOK, Mapping
<1> QED BY <1>6, <1>7, <1>8 DEF FilesOK

LEMMA ShrinkFailsChains ==
  ASSUME FatInv, NEW own, NEW idx, NEW h, Labelled(own, idx, h), NEW e \in BOOLEAN, ShrinkFails(e),
         ~damaged'
  PROVE  ChainInv'
<1>1. sft \in SFT /\ fn \in Node /\ HistoryOK /\ "shrink" \in Mapping
  BY InvParts DEF FatInv, Mapping
<1>2. call.at = "shrink"
  BY <1>1, NotFoundSound, FoundSound DEF ShrinkFails
<1>3. fn' = NoNode /\ call' = NoCall /\ Drive(e) /\ UNCHANGED <<fat, dir, sft>>
  BY Undamaged DEF ShrinkFails, Return
<1>4. /\ fn.file \in Files /\ fn.file \in Names /\ call.slot \in Slots /\ call.st = LAST
      /\ sft[call.slot].file = fn.file
  BY <1>1, <1>2, OnFile
<1>5. /\ Sound(sft[call.slot], own, idx) /\ Agrees(sft[call.slot], dir)
      /\ sft[call.slot].start \in {FREE, fn.start}
  BY <1>2, <1>4 DEF Labelled, FilesOK, SlotsOK, CallsOK, Cutting
<1>6. CASE sft[call.slot].start = fn.start
  <2>1. PICK x : x = sft[call.slot]
    OBVIOUS
  <2>2. sft = [sft EXCEPT ![call.slot] = x]
    BY <1>1, <2>1 DEF SFT
  <2>3. FilesOK(dir, sft, NoNode, NoCall, own, idx, h)
    BY <1>1, <1>4, <1>5, <1>6, <2>1, <2>2, FilesReturned DEF Labelled
  <2> QED BY <1>3, <1>4, <2>3, NothingFields, ChainsSame
<1>7. CASE sft[call.slot].start = FREE /\ fn.start # FREE
  <2>1. e /\ errors' # 0
    BY <1>1, <1>3, <1>7, ShrinkFinds, Lossier
  <2> DEFINE own2 == [c \in Clusters |-> IF own[c] = fn.file THEN NoName ELSE own[c]]
             h2 == [h EXCEPT ![fn.file] = FREE]
  <2>2. h \in [Names -> MaybeCluster] /\ LabelsOK(fat, own, idx, h) /\ LinksOK(fat)
    BY DEF Labelled, Chains, LabelsOK
  <2>3. LabelsOK(fat, own2, idx, h2)
    BY <1>4, <2>2, LabelsDropped
  <2>4. Kept(fn.file, own, idx, own2, idx)
    BY KeptDropped
  <2> HIDE DEF own2
  <2>5. Chains(fat, own2, idx, h2, LAST, TRUE)
    BY <2>2, <2>3, NamesFacts DEF Chains, RestOK
  <2>6. FilesOK(dir, sft, NoNode, NoCall, own2, idx, h2)
    BY <1>1, <1>2, <1>4, <1>7, <2>2, <2>4, FilesAbandoned DEF Labelled
  <2> HIDE DEF h2
  <2>7. Chains(fat', own2, idx, h2, call'.st, errors' # 0)
    BY <1>3, <2>1, <2>5, NothingFields, ChainMore
  <2> QED BY <1>3, <2>6, <2>7, Relabelled
<1> QED BY <1>5, <1>6, <1>7

\* shrink_file has cut the chain.
LEMMA FilesCut ==
  ASSUME NEW d, NEW t \in SFT, NEW x, NEW c, NEW own, NEW idx, NEW h, h \in [Names -> MaybeCluster],
         FilesOK(d, t, x, c, own, idx, h), x.file \in Files, c.at = "shrink",
         NEW x2, x2.file = x.file, ~x2.clean,
         NEW own2, Kept(x.file, own, idx, own2, idx), Sound(x2, own2, idx),
         NEW h2, h2 = [h EXCEPT ![x.file] = x2.start],
         NEW c2, c2.op = c.op, c2.name = c.name, c2.slot = c.slot, c2.at = "wipe"
  PROVE  FilesOK(d, t, x2, c2, own2, idx, h2)
<1>1. /\ c.op = "truncate" /\ c.slot \in Slots /\ t[c.slot].file = x.file
  BY DEF FilesOK, CallsOK
<1>2. \A s \in Slots : t[s].file = x.file => s = c.slot
  BY <1>1 DEF FilesOK, SlotsOK
<1>3. \A b \in Names : h2[b] = IF b = x.file THEN x2.start ELSE h[b]
  OBVIOUS
<1>4. HeadsAre(d, t, x2, c2, h2)
  BY <1>3 DEF FilesOK, HeadsAre, Removing
<1>5. Cutting(c2, c.slot)
  BY <1>1 DEF Cutting
<1>6. SlotsOK(d, t, c2, own2, idx)
  <2>1. \A s \in Slots : Cutting(c, s) => Cutting(c2, s)
    BY DEF Cutting
  <2>2. \A s \in Slots : t[s].file = x.file => Cutting(c2, s)
    BY <1>2, <1>5
  <2>3. \A b \in Files : ~Removing(c, b)
    BY <1>1 DEF Removing
  <2>4. ~Closed(t, x.file)
    BY <1>1 DEF Closed
  <2> QED BY <2>1, <2>2, <2>3, <2>4, SlotsKept DEF FilesOK
<1>7. CallsOK(d, t, x2, c2, own2, idx)
  BY <1>1, <1>5, NoFile, NothingFields DEF CallsOK, Agrees, Cutting
<1> QED BY <1>4, <1>6, <1>7 DEF FilesOK

LEMMA ShrinkChains ==
  ASSUME FatInv, NEW own, NEW idx, NEW h, Labelled(own, idx, h), Shrink, ~damaged'
  PROVE  ChainInv'
<1>1. fat \in Table /\ fn \in Node /\ sft \in SFT /\ call \in Call /\ "shrink" \in Mapping
  BY InvParts DEF Mapping
<1> DEFINE none == fn.len = 0
<1>2. PICK x \in Found("shrink") :
        /\ next_cluster(x.cur) \notin {FREE, BadLink}
        /\ \/ /\ next_cluster(x.cur) = LAST /\ ~none
              /\ ReturnNode(x, "ok")
              /\ UNCHANGED <<fat, nfree, damaged>>
           \/ /\ next_cluster(x.cur) # LAST \/ none
              /\ link_fat([fat EXCEPT ![x.cur] = IF none THEN FREE ELSE LAST], FALSE)
              /\ fn' = IF none THEN Emptied(x) ELSE x
              /\ call' = [call EXCEPT !.at = "wipe", !.st = next_cluster(x.cur)]
              /\ UNCHANGED <<sft, res>>
  BY DEF Shrink
<1>3. UNCHANGED <<hint, dir, errors>>
  BY DEF Shrink
<1>4. /\ call.at = "shrink" /\ SameFile(x) /\ Sound(x, own, idx) /\ x.cur \in Clusters
      /\ own[x.cur] = fn.file /\ idx[x.cur] = relcluster /\ x.rel = relcluster
  BY <1>1, FoundSound
<1>5. /\ fn.file \in Files /\ fn.file \in Names /\ h[fn.file] = fn.start /\ call.st = LAST
      /\ call.op = "truncate" /\ ~fn.clean /\ fn.len = fn.pos
  BY <1>1, <1>4, OnFile DEF Labelled, FilesOK, CallsOK
<1>6. /\ x \in Node /\ x.file = fn.file /\ x.start = fn.start /\ x.len = fn.len
      /\ x.pos = fn.pos /\ x.clean = fn.clean /\ Within(x, own, idx)
  BY <1>1, <1>4, SameFileFields, SameWithin
<1>7. next_cluster(x.cur) = fat[x.cur]
  BY <1>4, <1>5, NextIsLink DEF Labelled, Chains, LabelsOK
<1>8. /\ own \in [Clusters -> Names \union {NoName}] /\ idx \in [Clusters -> Nat]
      /\ h \in [Names -> MaybeCluster] /\ Chains(fat, own, idx, h, LAST, errors # 0)
  BY <1>5 DEF Labelled, Chains, LabelsOK
<1>9. CASE ReturnNode(x, "ok") /\ UNCHANGED <<fat, nfree, damaged>>
  <2>1. FilesOK(dir, sft', fn', call', own, idx, h) /\ call'.st = LAST
    BY <1>1, <1>4, <1>6, <1>9, ReturnFiles
  <2> QED BY <1>3, <1>5, <1>9, <2>1, ChainsSame
<1>10. CASE /\ next_cluster(x.cur) # LAST \/ none
            /\ link_fat([fat EXCEPT ![x.cur] = IF none THEN FREE ELSE LAST], FALSE)
            /\ fn' = IF none THEN Emptied(x) ELSE x
            /\ call' = [call EXCEPT !.at = "wipe", !.st = next_cluster(x.cur)]
            /\ UNCHANGED <<sft, res>>
  <2>1. /\ call'.op = call.op /\ call'.name = call.name /\ call'.slot = call.slot
        /\ call'.st = fat[x.cur] /\ call'.at = "wipe"
    BY ONLY <1>1, <1>7, <1>10 DEF Call
  <2>2. \A d \in Clusters : fat'[d] = IF d = x.cur THEN (IF none THEN FREE ELSE LAST) ELSE fat[d]
    <3>1. fat' = [fat EXCEPT ![x.cur] = IF none THEN FREE ELSE LAST]
      BY <1>10, Undamaged DEF link_fat
    <3> QED BY <1>1, <3>1 DEF Table
  <2>3. fn.pos \in Nat /\ CS \in Nat /\ CS > 0
    BY <1>1, NodeFields, NumbersMore
  <2>4. CASE ~none
    <3> DEFINE own2 == [c \in Clusters |-> IF own[c] = fn.file /\ idx[c] > idx[x.cur] THEN NoName
                                            ELSE own[c]]
    <3>1. fat[x.cur] \in Clusters
      <4>1. fat[x.cur] \in 0..LAST
        BY <1>1, <1>4 DEF Table
      <4> QED BY <1>2, <1>7, <1>10, <2>4, <4>1, Values, Numbers
    <3>2. \A d \in Clusters : fat'[d] = IF d = x.cur THEN LAST ELSE fat[d]
      BY <2>2, <2>4
    <3>3. Chains(fat', own2, idx, h, fat[x.cur], errors # 0)
      BY <1>4, <1>5, <1>8, <3>1, <3>2, ChainCut
    <3>4. Kept(fn.file, own, idx, own2, idx)
      BY DEF Kept
    <3>5. own2[x.cur] = fn.file
      BY <1>4, <1>8
    <3> HIDE DEF own2
    <3>6. fn' = x
      BY <1>10, <2>4
    <3>7. relcluster = (fn.pos - 1) \div CS /\ fn.pos - 1 \in Nat /\ relcluster \in 0..Size
      BY <1>1, <1>4, <1>5, <2>3, <2>4, RelclusterType DEF relcluster, Offset
    <3>8. Covered(fn.file, fn.len, own2, idx)
      <4>1. PICK a \in Nat : a = fn.pos - 1
        BY <3>7
      <4>2. /\ a % CS \in Nat /\ a % CS < CS
            /\ CS * (a \div CS) \in Nat /\ a = CS * (a \div CS) + (a % CS)
            /\ CS * ((a \div CS) + 1) = CS * (a \div CS) + CS
        BY <2>3, <4>1, DivMod
      <4>3. a + 1 <= CS * ((a \div CS) + 1)
        BY <2>3, <4>1, <4>2
      <4>4. fn.len = a + 1
        BY <1>5, <2>3, <4>1
      <4>5. fn.len <= CS * (idx[x.cur] + 1)
        BY <1>4, <3>7, <4>1, <4>3, <4>4
      <4> QED BY <1>4, <3>5, <3>7, <4>5, ClusterCovers
    <3>9. Sound(x, own2, idx)
      BY <1>4, <1>6, <3>5, <3>8, NamesFacts DEF Sound, OnChain
    <3>10. h = [h EXCEPT ![fn.file] = x.start]
      BY <1>5, <1>6, <1>8
    <3>11. FilesOK(dir, sft, x, call', own2, idx, h)
      BY <1>1, <1>4, <1>5, <1>6, <1>8, <2>1, <3>4, <3>9, <3>10, FilesCut DEF Labelled
    <3> QED BY <1>3, <1>10, <2>1, <3>3, <3>6, <3>11, Relabelled
  <2>5. CASE none
    <3> DEFINE own2 == [c \in Clusters |-> IF own[c] = fn.file THEN NoName ELSE own[c]]
               h2 == [h EXCEPT ![fn.file] = FREE]
    <3>1. relcluster = 0
      <4>1. Offset = 0
        BY <1>5, <2>5 DEF Offset
      <4>2. 0 \div CS = 0
        BY <2>3
      <4> QED BY <4>1, <4>2 DEF relcluster
    <3>2. x.cur = h[fn.file]
      BY <1>4, <1>5, <3>1 DEF Labelled, Chains, LabelsOK
    <3>3. Rest(h[fn.file]) = x.cur
      BY <1>4, <3>2, NamesFacts DEF Rest
    <3>4. Chains(fat, own2, idx, h2, x.cur, errors # 0)
      <4>1. Chains(fat, own2, idx, h2, Rest(h[fn.file]), errors # 0)
        BY <1>5, <1>8, ChainDropped
      <4> HIDE DEF own2, h2
      <4> QED BY <3>3, <4>1
    <3>5. Kept(fn.file, own, idx, own2, idx)
      BY KeptDropped
    <3> HIDE DEF own2
    <3>6. \A d \in Clusters : fat'[d] = IF d = x.cur THEN FREE ELSE fat[d]
      BY <2>2, <2>5
    <3>7. Chains(fat', own2, idx, h2, fat[x.cur], errors # 0)
      BY <1>4, <3>4, <3>6, ChainWiped
    <3>8. fn' = Emptied(x)
      BY <1>10, <2>5
    <3>9. /\ fn'.file = fn.file /\ fn'.start = FREE /\ fn'.cur = FREE /\ fn'.rel = 0
          /\ fn'.len = 0 /\ fn'.clean = fn.clean
      BY <1>4, <1>6, <2>5, <3>1, <3>8 DEF Emptied, Node
    <3>10. Sound(fn', own2, idx)
      BY <3>9 DEF Sound, OnChain, Covered
    <3>11. h2 = [h EXCEPT ![fn.file] = fn'.start]
      BY <3>9
    <3> HIDE DEF h2
    <3>12. FilesOK(dir, sft, fn', call', own2, idx, h2)
      BY <1>1, <1>4, <1>5, <1>8, <2>1, <3>5, <3>9, <3>10, <3>11, FilesCut DEF Labelled
    <3> QED BY <1>3, <1>10, <2>1, <3>7, <3>12, Relabelled
  <2> QED BY <2>4, <2>5
<1> QED BY <1>2, <1>9, <1>10

LEMMA FilesWiping ==
  ASSUME NEW d, NEW t, NEW x, NEW c, NEW own, NEW idx, NEW h, FilesOK(d, t, x, c, own, idx, h),
         NEW c2, c2.op = c.op, c2.name = c.name, c2.slot = c.slot, c2.at = c.at, c.at = "wipe"
  PROVE  FilesOK(d, t, x, c2, own, idx, h)
<1>1. HeadsAre(d, t, x, c2, h)
  BY HeadsKept DEF FilesOK
<1>2. SlotsOK(d, t, c2, own, idx)
  BY DEF FilesOK, SlotsOK, Cutting, Removing
<1>3. ~ (c2 = NoCall)
  BY NothingFields
<1>4. CallsOK(d, t, x, c2, own, idx)
  BY <1>3 DEF FilesOK, CallsOK, Cutting
<1> QED BY <1>1, <1>2, <1>4 DEF FilesOK

LEMMA WipeChains ==
  ASSUME FatInv, NEW own, NEW idx, NEW h, Labelled(own, idx, h), NEW e \in BOOLEAN, Wipe(e),
         ~damaged'
  PROVE  ChainInv'
<1> DEFINE next == next_cluster(call.st)
<1>1. call.at = "wipe" /\ call.st # LAST /\ Drive(e) /\ UNCHANGED <<dir, sft, fn>>
  BY DEF Wipe
<1>2. /\ fat \in Table /\ call \in Call /\ call.st \in Clusters
      /\ (errors # 0 => errors' # 0) /\ (e => errors' # 0)
  BY <1>1, InvParts, CallFields, Lossier DEF FatInv
<1>3. Chains(fat, own, idx, h, call.st, errors # 0)
  BY DEF Labelled
<1>4. next = fat[call.st] /\ next \notin {FREE, BadLink}
  BY <1>2, <1>3, NextIsLink DEF Chains, RestOK
<1>5. next \in Nat /\ next > BadLink /\ ~ (next <= BadLink)
  <2>1. next \in 0..LAST
    BY <1>2, <1>4 DEF Table
  <2> HIDE DEF next
  <2> QED BY <1>4, <2>1, Numbers
<1>6. \/ /\ fat' = [fat EXCEPT ![call.st] = FREE]
         /\ call' = [call EXCEPT !.st = next]
      \/ /\ e /\ fat' = fat
         /\ call' = [call EXCEPT !.st = LAST]
  BY <1>5, Undamaged DEF Wipe, link_fat
<1> HIDE DEF next
<1>7. CASE /\ fat' = [fat EXCEPT ![call.st] = FREE]
           /\ call' = [call EXCEPT !.st = next]
  <2>1. /\ call'.op = call.op /\ call'.name = call.name /\ call'.slot = call.slot
        /\ call'.at = call.at /\ call'.st = next
    BY <1>2, <1>7 DEF Call
  <2>2. \A d \in Clusters : fat'[d] = IF d = call.st THEN FREE ELSE fat[d]
    BY <1>2, <1>7 DEF Table
  <2>3. Chains(fat', own, idx, h, fat[call.st], errors # 0)
    BY <1>2, <1>3, <2>2, ChainWiped
  <2>4. Chains(fat', own, idx, h, call'.st, errors' # 0)
    BY <1>2, <1>4, <2>1, <2>3, ChainMore
  <2>5. FilesOK(dir, sft, fn, call', own, idx, h)
    BY <1>1, <2>1, FilesWiping DEF Labelled
  <2> QED BY <1>1, <2>4, <2>5, Relabelled
<1>8. CASE e /\ fat' = fat /\ call' = [call EXCEPT !.st = LAST]
  <2>1. /\ call'.op = call.op /\ call'.name = call.name /\ call'.slot = call.slot
        /\ call'.at = call.at /\ call'.st = LAST
    BY <1>2, <1>8 DEF Call
  <2>2. Chains(fat, own, idx, h, LAST, TRUE)
    BY <1>3, ChainForgotten
  <2>3. Chains(fat', own, idx, h, call'.st, errors' # 0)
    BY <1>2, <1>8, <2>1, <2>2, ChainMore
  <2>4. FilesOK(dir, sft, fn, call', own, idx, h)
    BY <1>1, <2>1, FilesWiping DEF Labelled
  <2> QED BY <1>1, <2>3, <2>4, Relabelled
<1> QED BY <1>6, <1>7, <1>8

LEMMA ShrunkChains ==
  ASSUME FatInv, NEW own, NEW idx, NEW h, Labelled(own, idx, h), NEW e \in BOOLEAN, Shrunk(e)
  PROVE  ChainInv'
<1>1. CASE e
  <2>1. damaged'
    BY <1>1 DEF Shrunk, Damage
  <2> QED BY <2>1 DEF ChainInv
<1>2. CASE ~e
  <2>1. /\ call.op = "truncate" /\ call.st = LAST /\ Drive(e) /\ UNCHANGED <<fat, dir>>
        /\ ReturnNode(fn, "ok")
    BY <1>2 DEF Shrunk, Wiped
  <2>2. sft \in SFT /\ fn.file \in Files
    BY <2>1, InvParts, NodeFields DEF Labelled, FilesOK, CallsOK
  <2>3. Sound(fn, own, idx) /\ Agrees(fn, dir)
    BY <2>2 DEF Labelled, FilesOK, CallsOK
  <2>4. sft' = [sft EXCEPT ![call.slot] = fn] /\ fn' = NoNode /\ call' = NoCall
    BY <2>1 DEF ReturnNode, Return, fnode_to_sft
  <2>5. FilesOK(dir, sft', NoNode, NoCall, own, idx, h)
    BY <2>2, <2>3, <2>4, FilesReturned DEF Labelled
  <2> QED BY <2>1, <2>4, <2>5, NothingFields, ChainsSame
<1> QED BY <1>1, <1>2

-----------------------------------------------------------------------------
(* One lemma per step of a call on a name *)

Naming == {"create", "delete", "mkdir", "rename"}

LEMMA OnName ==
  ASSUME FatInv, NEW own, NEW idx, NEW h, Labelled(own, idx, h), call.op \in Naming
  PROVE  /\ fn.file = NoName /\ call.name \in Names /\ Closed(sft, call.name)
         /\ call.op = "create" => call.name \in Files
<1>1. fn.file \in Files \union {NoName}
  BY InvParts, NodeFields
<1>2. fn.file = NoName
  BY <1>1 DEF Labelled, FilesOK, CallsOK, Naming
<1> QED BY <1>2 DEF Labelled, FilesOK, CallsOK, FatInv, CallOK, Naming

LEMMA NothingOK ==
  ASSUME NEW d, NEW t, NEW own, NEW idx
  PROVE  CallsOK(d, t, NoNode, NoCall, own, idx)
BY NothingFields, NoFile DEF CallsOK, Mapping

\* The call ends without an effect on the directory.
LEMMA FilesQuit ==
  ASSUME NEW d, NEW t \in SFT, NEW x, NEW c, NEW own, NEW idx, NEW h,
         FilesOK(d, t, x, c, own, idx, h), x.file = NoName, c.op \in Naming, c.op # "delete",
         c.op = "create" => c.at = "slot",
         NEW own2, NEW idx2, Kept(NoName, own, idx, own2, idx2)
  PROVE  FilesOK(d, t, NoNode, NoCall, own2, idx2, h)
<1>1. \A s \in Slots : ~Cutting(c, s)
  BY DEF Cutting, Naming
<1>2. \A f : ~Removing(NoCall, f)
  BY NothingFields DEF Removing
<1>3. \A f \in Names : Removing(c, f) => ~d[f].used /\ Closed(t, f)
  BY DEF FilesOK, CallsOK, Removing, Naming
<1>4. HeadsAre(d, t, NoNode, NoCall, h)
  BY <1>2, <1>3, NothingFields, NoFile DEF FilesOK, HeadsAre, Closed
<1>5. SlotsOK(d, t, NoCall, own2, idx2)
  <2>1. \A b \in Files : Removing(c, b) => Removing(NoCall, b) \/ ~d[b].used
    BY <1>3, NumbersMore
  <2>2. \A s \in Slots : Cutting(c, s) => Cutting(NoCall, s)
    BY <1>1
  <2>3. SlotsOK(d, t, c, own, idx)
    BY DEF FilesOK
  <2> QED BY <2>1, <2>2, <2>3, SlotsKept, NoFile
<1>6. CallsOK(d, t, NoNode, NoCall, own2, idx2)
  BY NothingOK
<1> QED BY <1>4, <1>5, <1>6 DEF FilesOK

\* It goes on after extend_dir.
LEMMA FilesPlaced ==
  ASSUME NEW d, NEW t \in SFT, NEW x, NEW c, NEW own, NEW idx, NEW h,
         FilesOK(d, t, x, c, own, idx, h), x.file = NoName, c.op \in Naming,
         NEW c2, c2.op = c.op, c2.name = c.name, c2.slot = c.slot, c2.at = "wipe",
         NEW own2, NEW idx2, Kept(NoName, own, idx, own2, idx2)
  PROVE  FilesOK(d, t, x, c2, own2, idx2, h)
<1>1. \A s \in Slots : ~Cutting(c, s)
  BY DEF Cutting, Naming
<1>2. \A b \in Files : Removing(c, b) => Removing(c2, b)
  BY DEF Removing
<1>3. HeadsAre(d, t, x, c2, h)
  BY HeadsKept DEF FilesOK
<1>4. SlotsOK(d, t, c2, own2, idx2)
  BY <1>1, <1>2, SlotsKept, NoFile DEF FilesOK
<1>5. ~ (c2 = NoCall)
  BY NothingFields
<1>6. CallsOK(d, t, x, c2, own2, idx2)
  BY <1>5, NoFile DEF FilesOK, CallsOK, Naming, Mapping
<1> QED BY <1>3, <1>4, <1>6 DEF FilesOK

\* It ends, and the entry of its name is now y.
LEMMA FilesEntered ==
  ASSUME NEW d \in Directory, NEW t \in SFT, NEW x, NEW c, NEW own, NEW idx,
         NEW h, h \in [Names -> MaybeCluster],
         FilesOK(d, t, x, c, own, idx, h), x.file = NoName, c.op \in Naming,
         NEW f \in Names, c.name = f, NEW y, y.len = 0,
         NEW d2, d2 = [d EXCEPT ![f] = y],
         NEW h2, h2 = [h EXCEPT ![f] = IF y.used THEN y.start ELSE FREE],
         NEW own2, NEW idx2, Kept(f, own, idx, own2, idx2)
  PROVE  FilesOK(d2, t, NoNode, NoCall, own2, idx2, h2)
<1>1. \A s \in Slots : ~Cutting(c, s)
  BY DEF Cutting, Naming
<1>2. \A b : ~Removing(NoCall, b) /\ (b # f => ~Removing(c, b))
  BY NothingFields DEF Removing
<1>3. \A b \in Names : d2[b] = IF b = f THEN y ELSE d[b]
  BY DEF Directory
<1>4. \A b \in Names : h2[b] = IF b = f THEN (IF y.used THEN y.start ELSE FREE) ELSE h[b]
  OBVIOUS
<1>5. Closed(t, f)
  BY DEF FilesOK, CallsOK, Naming
<1>6. HeadsAre(d2, t, NoNode, NoCall, h2)
  <2> SUFFICES ASSUME NEW b \in Names
               PROVE  /\ \A s \in Slots : t[s].file = b => h2[b] = t[s].start
                      /\ Closed(t, b) => h2[b] = IF d2[b].used THEN d2[b].start ELSE FREE
    BY <1>2, NothingFields, NoFile DEF HeadsAre
  <2>1. CASE b = f
    BY <1>3, <1>4, <1>5, <2>1 DEF Closed
  <2>2. CASE b # f
    BY <1>2, <1>3, <1>4, <2>2, NoFile DEF FilesOK, HeadsAre
  <2> QED BY <2>1, <2>2
<1>7. SlotsOK(d2, t, NoCall, own2, idx2)
  <2>1. /\ \A s, u \in Slots : t[s].file \in Files /\ t[s].file = t[u].file => s = u
        /\ \A s \in Slots : t[s].file = NoName => t[s] = NoNode
    BY DEF FilesOK, SlotsOK
  <2>2. ASSUME NEW s \in Slots, t[s].file \in Files
        PROVE  d2[t[s].file].used /\ Agrees(t[s], d2) /\ Sound(t[s], own2, idx2)
    <3>1. t[s].file # f /\ t[s].file \in Names /\ t[s] \in Node
      BY <1>5, <2>2, NumbersMore DEF Closed, SFT
    <3>2. d[t[s].file].used /\ Agrees(t[s], d) /\ Sound(t[s], own, idx)
      BY <1>1, <2>2 DEF FilesOK, SlotsOK
    <3>3. d2[t[s].file] = d[t[s].file]
      BY <1>3, <3>1
    <3>4. Sound(t[s], own2, idx2)
      BY <2>2, <3>1, <3>2, SoundKept
    <3> QED BY <3>2, <3>3, <3>4 DEF Agrees
  <2>3. ASSUME NEW b \in Files, d2[b].used, Closed(t, b)
        PROVE  Covered(b, d2[b].len, own2, idx2) /\ (d2[b].start = FREE => d2[b].len = 0)
    <3>1. b \in Names
      BY NumbersMore
    <3>2. CASE b = f
      BY <1>3, <3>1, <3>2 DEF Covered
    <3>3. CASE b # f
      <4>1. d2[b] = d[b]
        BY <1>3, <3>1, <3>3
      <4>2. Covered(b, d[b].len, own, idx) /\ (d[b].start = FREE => d[b].len = 0)
        BY <1>2, <2>3, <3>3, <4>1 DEF FilesOK, SlotsOK
      <4> QED BY <3>1, <3>3, <4>1, <4>2, CoveredKept
    <3> QED BY <3>2, <3>3
  <2> QED BY <2>1, <2>2, <2>3 DEF SlotsOK
<1>8. CallsOK(d2, t, NoNode, NoCall, own2, idx2)
  BY NothingOK
<1> QED BY <1>6, <1>7, <1>8 DEF FilesOK

\* The heads while no call runs.
LEMMA IdleHeads ==
  ASSUME NEW d, NEW t, NEW h
  PROVE  HeadsAre(d, t, NoNode, NoCall, h) <=>
           \A f \in Names :
             /\ \A s \in Slots : t[s].file = f => h[f] = t[s].start
             /\ Closed(t, f) => h[f] = IF d[f].used THEN d[f].start ELSE FREE
<1>1. \A f \in Names : NoNode.file # f /\ ~Removing(NoCall, f)
  BY NothingFields, NoFile DEF Removing
<1> QED BY <1>1 DEF HeadsAre

\* A closed file is opened.
LEMMA FilesOpened ==
  ASSUME NEW d, NEW t \in SFT, NEW own, NEW idx, NEW h,
         FilesOK(d, t, NoNode, NoCall, own, idx, h), NEW f \in Files, d[f].used, Closed(t, f),
         NEW g, NEW lossy, Chains(g, own, idx, h, LAST, lossy),
         NEW s \in Slots, t[s].file = NoName,
         NEW x, x.file = f, x.start = d[f].start, x.cur = d[f].start, x.len = d[f].len, x.rel = 0,
         NEW t2, t2 = [t EXCEPT ![s] = x]
  PROVE  FilesOK(d, t2, NoNode, NoCall, own, idx, h)
<1>1. \A u \in Slots : t2[u] = IF u = s THEN x ELSE t[u]
  BY DEF SFT
<1>2. \A b : ~Removing(NoCall, b)
  BY NothingFields DEF Removing
<1>3. \A u \in Slots : ~Cutting(NoCall, u)
  BY NothingFields DEF Cutting
<1>4. f \in Names /\ f # NoName
  BY NumbersMore
<1>5. h[f] = d[f].start
  BY <1>4, IdleHeads DEF FilesOK
<1>6. \A b \in Names : b # f => (Closed(t2, b) <=> Closed(t, b))
  BY <1>1, NoFile DEF Closed
<1>7. ASSUME NEW b \in Names
      PROVE  /\ \A u \in Slots : t2[u].file = b => h[b] = t2[u].start
             /\ Closed(t2, b) => h[b] = IF d[b].used THEN d[b].start ELSE FREE
  <2>1. CASE b = f
    BY <1>1, <1>5, <2>1 DEF Closed
  <2>2. CASE b # f
    <3>1. /\ \A u \in Slots : t[u].file = b => h[b] = t[u].start
          /\ Closed(t, b) => h[b] = IF d[b].used THEN d[b].start ELSE FREE
      BY IdleHeads DEF FilesOK
    <3>2. \A u \in Slots : t2[u].file = b => t2[u] = t[u]
      BY <1>1, <2>2
    <3>3. \A u \in Slots : t2[u].file = b => h[b] = t2[u].start
      BY <3>1, <3>2
    <3> QED BY <1>6, <2>2, <3>1, <3>3
  <2> QED BY <2>1, <2>2
<1>8. Sound(x, own, idx)
  <2>1. SlotsOK(d, t, NoCall, own, idx) /\ ~Removing(NoCall, f)
    BY <1>2 DEF FilesOK
  <2>2. Covered(f, d[f].len, own, idx) /\ (d[f].start = FREE => d[f].len = 0)
    BY <2>1 DEF SlotsOK
  <2>3. d[f].start # FREE => own[d[f].start] = f /\ idx[d[f].start] = 0
    BY <1>4, <1>5 DEF Chains, LabelsOK
  <2> QED BY <2>2, <2>3 DEF Sound, OnChain
<1>9. SlotsOK(d, t2, NoCall, own, idx)
  <2>1. \A r, u \in Slots : t2[r].file \in Files /\ t2[r].file = t2[u].file => r = u
    BY <1>1 DEF FilesOK, SlotsOK, Closed
  <2>2. \A u \in Slots : t2[u].file = NoName => t2[u] = NoNode
    BY <1>1, <1>4 DEF FilesOK, SlotsOK
  <2>3. ASSUME NEW u \in Slots, t2[u].file \in Files
        PROVE  d[t2[u].file].used /\ Agrees(t2[u], d) /\ Sound(t2[u], own, idx)
    <3>1. CASE u = s
      BY <1>1, <1>8, <3>1 DEF Agrees
    <3>2. CASE u # s
      BY <1>1, <1>3, <2>3, <3>2 DEF FilesOK, SlotsOK
    <3> QED BY <3>1, <3>2
  <2>4. ASSUME NEW b \in Files, d[b].used, Closed(t2, b)
        PROVE  Covered(b, d[b].len, own, idx) /\ (d[b].start = FREE => d[b].len = 0)
    <3>1. b \in Names /\ b # f
      BY <1>1, <2>4, NumbersMore DEF Closed
    <3> QED BY <1>2, <1>6, <2>4, <3>1 DEF FilesOK, SlotsOK
  <2> QED BY <2>1, <2>2, <2>3, <2>4 DEF SlotsOK
<1>10. CallsOK(d, t2, NoNode, NoCall, own, idx)
  BY NothingOK
<1>11. HeadsAre(d, t2, NoNode, NoCall, h)
  <2>1. \A b \in Names :
          /\ \A u \in Slots : t2[u].file = b => h[b] = t2[u].start
          /\ Closed(t2, b) => h[b] = IF d[b].used THEN d[b].start ELSE FREE
    BY <1>7
  <2> QED BY ONLY <2>1, IdleHeads
<1> QED BY <1>9, <1>10, <1>11 DEF FilesOK

LEMMA CreatedChains ==
  ASSUME FatInv, NEW own, NEW idx, NEW h, Labelled(own, idx, h), NEW e \in BOOLEAN, Created(e)
  PROVE  ChainInv'
<1>1. CASE e
  <2>1. damaged'
    BY <1>1 DEF Created, dir_write, Damage
  <2> QED BY <2>1 DEF ChainInv
<1>2. CASE ~e
  <2> DEFINE f == call.name
             x == [NoNode EXCEPT !.file = f]
             y == EntryOf(x)
             d == [dir EXCEPT ![f] = y]
  <2>1. /\ call.op = "create" /\ call.st = LAST /\ Drive(e) /\ UNCHANGED fat
        /\ dir' = d /\ sft' = [Merged(sft, x, call.slot) EXCEPT ![call.slot] = x]
        /\ fn' = NoNode /\ call' = NoCall
    BY <1>2 DEF Created, Wiped, dir_write, fnode_to_sft, Return
  <2>2. call.op \in Naming /\ dir \in Directory /\ sft \in SFT
    BY <2>1, InvParts DEF Naming
  <2>3. f \in Files /\ f \in Names /\ fn.file = NoName /\ Closed(sft, f)
    BY <2>1, <2>2, OnName
  <2>4. call.slot \in Slots /\ sft[call.slot].file = NoName
    BY <2>1 DEF Labelled, FilesOK, CallsOK
  <2>5. x.file = f /\ x.start = FREE /\ x.cur = FREE /\ x.len = 0 /\ x.rel = 0
    BY DEF NoNode
  <2>6. y.used /\ y.start = FREE /\ y.len = 0
    BY <2>5 DEF EntryOf
  <2>7. h \in [Names -> MaybeCluster] /\ Chains(fat, own, idx, h, LAST, errors # 0)
    BY <2>1 DEF Labelled, Chains, LabelsOK
  <2>8. h[f] = FREE
    <3>1. Removing(call, f) /\ fn.file # f
      BY <2>1, <2>3, NoFile DEF Removing
    <3> QED BY <2>3, <3>1 DEF Labelled, FilesOK, HeadsAre
  <2>9. d[f] = y
    BY <2>2, <2>3 DEF Directory
  <2> HIDE DEF f, x, y
  <2>10. h = [h EXCEPT ![f] = IF y.used THEN y.start ELSE FREE]
    BY <2>3, <2>6, <2>7, <2>8
  <2>11. Kept(f, own, idx, own, idx)
    BY DEF Kept
  <2>12. FilesOK(d, sft, NoNode, NoCall, own, idx, h)
    BY <2>2, <2>3, <2>6, <2>7, <2>10, <2>11, FilesEntered DEF Labelled, f
  <2> HIDE DEF d
  <2>13. Merged(sft, x, call.slot) = sft
    BY <2>2, <2>3, <2>5, MergedSame DEF Closed
  <2>14. sft' = [sft EXCEPT ![call.slot] = x]
    BY <2>1, <2>13
  <2>15. FilesOK(d, sft', NoNode, NoCall, own, idx, h)
    BY <2>2, <2>3, <2>4, <2>5, <2>6, <2>7, <2>9, <2>12, <2>14, FilesOpened
  <2>16. Chains(fat', own, idx, h, call'.st, errors' # 0)
    BY <2>1, <2>7, NothingFields, Lossier, ChainMore DEF FatInv
  <2> QED BY <2>1, <2>15, <2>16, Relabelled
<1> QED BY <1>1, <1>2

LEMMA DeletedChains ==
  ASSUME FatInv, NEW own, NEW idx, NEW h, Labelled(own, idx, h), NEW e \in BOOLEAN, Deleted(e)
  PROVE  ChainInv'
<1>1. CASE e
  <2>1. damaged'
    BY <1>1 DEF Deleted, dir_write, Damage
  <2> QED BY <2>1 DEF ChainInv
<1>2. CASE ~e
  <2> DEFINE f == call.name
             d == [dir EXCEPT ![f] = NoEntry]
  <2>1. /\ call.op = "delete" /\ call.st = LAST /\ Drive(e) /\ UNCHANGED <<fat, sft>>
        /\ dir' = d /\ fn' = NoNode /\ call' = NoCall
    BY <1>2 DEF Deleted, Wiped, dir_write, Return
  <2>2. call.op \in Naming /\ dir \in Directory /\ sft \in SFT
    BY <2>1, InvParts DEF Naming
  <2>3. f \in Names /\ fn.file = NoName
    BY <2>1, <2>2, OnName
  <2>4. h \in [Names -> MaybeCluster] /\ Chains(fat, own, idx, h, LAST, errors # 0)
    BY <2>1 DEF Labelled, Chains, LabelsOK
  <2>5. h[f] = FREE
    <3>1. Removing(call, f) /\ fn.file # f
      BY <2>1, <2>3, NoFile DEF Removing
    <3> QED BY <2>3, <3>1 DEF Labelled, FilesOK, HeadsAre
  <2>6. h = [h EXCEPT ![f] = IF NoEntry.used THEN NoEntry.start ELSE FREE] /\ NoEntry.len = 0
    BY <2>3, <2>4, <2>5, NothingFields
  <2>7. Kept(f, own, idx, own, idx)
    BY DEF Kept
  <2>8. FilesOK(d, sft, NoNode, NoCall, own, idx, h)
    BY <2>2, <2>3, <2>4, <2>6, <2>7, FilesEntered DEF Labelled
  <2>9. Chains(fat', own, idx, h, call'.st, errors' # 0)
    BY <2>1, <2>4, NothingFields, Lossier, ChainMore DEF FatInv
  <2> QED BY <2>1, <2>8, <2>9, Relabelled
<1> QED BY <1>1, <1>2

LEMMA MadeDirChains ==
  ASSUME FatInv, NEW own, NEW idx, NEW h, Labelled(own, idx, h), NEW e \in BOOLEAN, MadeDir(e),
         ~damaged'
  PROVE  ChainInv'
<1> DEFINE f == call.name
<1>1. call.op = "mkdir" /\ call.st = LAST /\ Drive(e) /\ UNCHANGED sft
  BY DEF MadeDir, Wiped
<1>2. /\ call.op \in Naming /\ call.op # "delete" /\ call.op # "create"
      /\ dir \in Directory /\ sft \in SFT /\ fat \in Table /\ hint \in MaybeCluster
  BY <1>1, InvParts DEF Naming, FatInv, TableOK
<1>3. f \in Names /\ fn.file = NoName /\ Closed(sft, f)
  BY <1>2, OnName
<1>4. /\ own \in [Clusters -> Names \union {NoName}] /\ idx \in [Clusters -> Nat]
      /\ h \in [Names -> MaybeCluster] /\ Chains(fat, own, idx, h, LAST, errors # 0)
  BY <1>1 DEF Labelled, Chains, LabelsOK
<1>5. (errors # 0 => errors' # 0) /\ (e => errors' # 0)
  BY <1>1, Lossier DEF FatInv
<1>6. FilesOK(dir, sft, NoNode, NoCall, own, idx, h)
  BY <1>2, <1>3, KeptSame, FilesQuit DEF Labelled
<1>7. h[f] = FREE
  <2>1. ~dir[f].used
    BY <1>1 DEF Labelled, FilesOK, CallsOK
  <2> QED BY <1>3, <1>6, <2>1, IdleHeads DEF FilesOK
<1> DEFINE y(c) == [NoEntry EXCEPT !.used = TRUE, !.start = c]
<1>8. PICK c \in find_fat_free(e) :
        /\ fn' = NoNode /\ call' = NoCall
        /\ \/ UNCHANGED <<fat, dir>>
           \/ /\ c # LAST /\ fat' = Marked(c)
              /\ (e /\ UNCHANGED dir) \/ dir' = [dir EXCEPT ![f] = y(c)]
  BY Undamaged DEF MadeDir, Return, link_fat
<1>9. CASE UNCHANGED <<fat, dir>>
  <2>1. Chains(fat', own, idx, h, call'.st, errors' # 0)
    BY <1>4, <1>5, <1>8, <1>9, NothingFields, ChainMore
  <2> QED BY <1>1, <1>6, <1>8, <1>9, <2>1, Relabelled
<1>10. CASE /\ c # LAST /\ fat' = Marked(c)
            /\ (e /\ UNCHANGED dir) \/ dir' = [dir EXCEPT ![f] = y(c)]
  <2>1. c \in Clusters /\ fat[c] = FREE
    BY <1>2, <1>10, SearchType
  <2>2. \A d \in Clusters : fat'[d] = IF d = c THEN LAST ELSE fat[d]
    BY <1>2, <1>10, <2>1 DEF Marked, Table
  <2>3. CASE e /\ UNCHANGED dir
    <3>1. Chains(fat', own, idx, h, LAST, TRUE)
      BY <1>4, <2>1, <2>2, ChainLoses
    <3>2. Chains(fat', own, idx, h, call'.st, errors' # 0)
      BY <1>5, <1>8, <2>3, <3>1, NothingFields, ChainMore
    <3> QED BY <1>1, <1>6, <1>8, <2>3, <3>2, Relabelled
  <2>4. CASE dir' = [dir EXCEPT ![f] = y(c)]
    <3> DEFINE own2 == [own EXCEPT ![c] = f]
               idx2 == [idx EXCEPT ![c] = 0]
               h2 == [h EXCEPT ![f] = c]
    <3>1. Chains(fat', own2, idx2, h2, LAST, errors # 0)
      <4>1. /\ own2 = [own EXCEPT ![c] = f] /\ idx2 = [idx EXCEPT ![c] = 0]
            /\ h2 = [h EXCEPT ![f] = c]
        OBVIOUS
      <4> HIDE DEF own2, idx2, h2, f
      <4> QED BY <1>3, <1>4, <1>7, <2>1, <2>2, <4>1, ChainStarts
    <3>2. Chains(fat', own2, idx2, h2, call'.st, errors' # 0)
      BY <1>5, <1>8, <3>1, NothingFields, ChainMore
    <3>3. own[c] \notin Names
      BY <1>4, <2>1 DEF Chains, LabelsOK
    <3>4. Kept(f, own, idx, own2, idx2)
      BY <1>4, <3>3 DEF Kept
    <3>5. PICK z : z = y(c)
      OBVIOUS
    <3>6. z.used /\ z.start = c /\ z.len = 0
      BY <3>5 DEF NoEntry
    <3>7. dir' = [dir EXCEPT ![f] = z]
      BY <2>4, <3>5
    <3>8. h2 = [h EXCEPT ![f] = IF z.used THEN z.start ELSE FREE]
      BY <3>6
    <3> HIDE DEF own2, idx2, h2, f
    <3>9. FilesOK(dir', sft, NoNode, NoCall, own2, idx2, h2)
      BY <1>2, <1>3, <1>4, <3>4, <3>6, <3>7, <3>8, FilesEntered DEF Labelled, f
    <3> QED BY <1>1, <1>8, <3>2, <3>9, Relabelled
  <2> QED BY <1>10, <2>3, <2>4
<1> QED BY <1>8, <1>9, <1>10

\* The file f is now called b.
LEMMA FilesRenamed ==
  ASSUME NEW d \in Directory, NEW t \in SFT, NEW own, NEW idx, NEW h, h \in [Names -> MaybeCluster],
         FilesOK(d, t, NoNode, NoCall, own, idx, h),
         NEW f \in Files, d[f].used, Closed(t, f), NEW b \in Files, ~d[b].used,
         NEW d2, d2 = [d EXCEPT ![f] = NoEntry, ![b] = d[f]],
         NEW own2, own \in [Clusters -> Names \union {NoName}],
         own2 = [c \in Clusters |-> IF own[c] = f THEN b ELSE own[c]],
         NEW h2, h2 = [h EXCEPT ![f] = FREE, ![b] = h[f]]
  PROVE  FilesOK(d2, t, NoNode, NoCall, own2, idx, h2)
<1>1. f # b /\ f \in Names /\ b \in Names
  BY NumbersMore
<1>2. \A a \in Names : d2[a] = IF a = b THEN d[f] ELSE IF a = f THEN NoEntry ELSE d[a]
  BY <1>1 DEF Directory
<1>3. \A a \in Names : h2[a] = IF a = b THEN h[f] ELSE IF a = f THEN FREE ELSE h[a]
  BY <1>1
<1>4. Closed(t, b)
  BY DEF FilesOK, SlotsOK, Closed
<1>5. \A a \in Names : /\ \A s \in Slots : t[s].file = a => h[a] = t[s].start
                       /\ Closed(t, a) => h[a] = IF d[a].used THEN d[a].start ELSE FREE
  BY IdleHeads DEF FilesOK
<1>6. HeadsAre(d2, t, NoNode, NoCall, h2)
  <2>1. ASSUME NEW a \in Names
        PROVE  /\ \A s \in Slots : t[s].file = a => h2[a] = t[s].start
               /\ Closed(t, a) => h2[a] = IF d2[a].used THEN d2[a].start ELSE FREE
    <3>1. CASE a = b
      <4>1. h2[a] = h[f] /\ d2[a] = d[f] /\ h[f] = d[f].start
        BY <1>1, <1>2, <1>3, <1>5, <3>1
      <4> QED BY <1>4, <3>1, <4>1 DEF Closed
    <3>2. CASE a = f
      BY <1>1, <1>2, <1>3, <3>2, NothingFields DEF Closed
    <3>3. CASE a # b /\ a # f
      <4>1. h2[a] = h[a] /\ d2[a] = d[a]
        BY <1>2, <1>3, <3>3
      <4> QED BY <1>5, <4>1
    <3> QED BY <3>1, <3>2, <3>3
  <2>2. \A a \in Names :
          /\ \A s \in Slots : t[s].file = a => h2[a] = t[s].start
          /\ Closed(t, a) => h2[a] = IF d2[a].used THEN d2[a].start ELSE FREE
    BY <2>1
  <2> QED BY ONLY <2>2, IdleHeads
<1>7. \A a : ~Removing(NoCall, a)
  BY NothingFields DEF Removing
<1>8. Kept(f, own, idx, own2, idx)
  BY DEF Kept
<1>9. SlotsOK(d2, t, NoCall, own2, idx)
  <2>1. /\ \A s, u \in Slots : t[s].file \in Files /\ t[s].file = t[u].file => s = u
        /\ \A s \in Slots : t[s].file = NoName => t[s] = NoNode
    BY DEF FilesOK, SlotsOK
  <2>2. ASSUME NEW s \in Slots, t[s].file \in Files
        PROVE  d2[t[s].file].used /\ Agrees(t[s], d2) /\ Sound(t[s], own2, idx)
    <3>1. t[s].file # f /\ t[s].file # b /\ t[s].file \in Names /\ t[s] \in Node
      BY <1>4, <2>2, NumbersMore DEF Closed, SFT
    <3>2. ~Cutting(NoCall, s)
      BY NothingFields DEF Cutting
    <3>3. d[t[s].file].used /\ Agrees(t[s], d) /\ Sound(t[s], own, idx)
      BY <2>2, <3>2 DEF FilesOK, SlotsOK
    <3>4. d2[t[s].file] = d[t[s].file]
      BY <1>2, <3>1
    <3>5. Sound(t[s], own2, idx)
      BY <1>8, <2>2, <3>1, <3>3, SoundKept
    <3> QED BY <3>3, <3>4, <3>5 DEF Agrees
  <2>3. ASSUME NEW a \in Files, d2[a].used, Closed(t, a)
        PROVE  Covered(a, d2[a].len, own2, idx) /\ (d2[a].start = FREE => d2[a].len = 0)
    <3>1. a \in Names /\ a # f
      BY <1>1, <1>2, <2>3, NumbersMore, NothingFields
    <3>2. ASSUME NEW n, Covered(f, n, own, idx) PROVE Covered(b, n, own2, idx)
      BY <3>2 DEF Covered
    <3>3. SlotsOK(d, t, NoCall, own, idx)
      BY DEF FilesOK
    <3>4. CASE a = b
      <4>1. d2[a] = d[f]
        BY <1>2, <3>1, <3>4
      <4>2. Covered(f, d[f].len, own, idx) /\ (d[f].start = FREE => d[f].len = 0)
        BY <1>7, <3>3 DEF SlotsOK
      <4> QED BY <3>2, <3>4, <4>1, <4>2
    <3>5. CASE a # b
      <4>1. d2[a] = d[a]
        BY <1>2, <3>1, <3>5
      <4>2. Covered(a, d[a].len, own, idx) /\ (d[a].start = FREE => d[a].len = 0)
        BY <1>7, <2>3, <3>3, <4>1 DEF SlotsOK
      <4> QED BY <1>8, <3>1, <4>1, <4>2, CoveredKept
    <3> QED BY <3>4, <3>5
  <2> QED BY <2>1, <2>2, <2>3 DEF SlotsOK
<1>10. CallsOK(d2, t, NoNode, NoCall, own2, idx)
  BY NothingOK
<1> QED BY <1>6, <1>9, <1>10 DEF FilesOK

LEMMA RenamedChains ==
  ASSUME FatInv, NEW own, NEW idx, NEW h, Labelled(own, idx, h),
         NEW g \in Files, NEW e \in BOOLEAN, Renamed(g, e), ~damaged'
  PROVE  ChainInv'
<1> DEFINE f == call.name
<1>1. /\ call.op = "rename" /\ call.st = LAST /\ Drive(e) /\ UNCHANGED <<fat, sft>>
      /\ fn' = NoNode /\ call' = NoCall /\ ~dir[g].used
      /\ \/ dir' = [dir EXCEPT ![f] = NoEntry, ![g] = dir[f]]
         \/ e /\ dir' = [dir EXCEPT ![f] = NoEntry]
         \/ e /\ UNCHANGED dir
  BY Undamaged DEF Renamed, Wiped, Return
<1>2. /\ call.op \in Naming /\ call.op # "delete" /\ call.op # "create"
      /\ dir \in Directory /\ sft \in SFT
  BY <1>1, InvParts DEF Naming
<1>3. f \in Names /\ fn.file = NoName /\ Closed(sft, f) /\ dir[f].used /\ f \in Files
  BY <1>1, <1>2, OnName DEF Labelled, FilesOK, CallsOK
<1>4. /\ own \in [Clusters -> Names \union {NoName}] /\ LinksOK(fat) /\ LabelsOK(fat, own, idx, h)
      /\ h \in [Names -> MaybeCluster] /\ Chains(fat, own, idx, h, LAST, errors # 0)
  BY <1>1 DEF Labelled, Chains, LabelsOK
<1>5. (errors # 0 => errors' # 0) /\ (e => errors' # 0)
  BY <1>1, Lossier DEF FatInv
<1>6. FilesOK(dir, sft, NoNode, NoCall, own, idx, h)
  BY <1>2, <1>3, KeptSame, FilesQuit DEF Labelled
<1>7. CASE UNCHANGED dir
  <2>1. Chains(fat', own, idx, h, call'.st, errors' # 0)
    BY <1>1, <1>4, <1>5, NothingFields, ChainMore
  <2> QED BY <1>1, <1>6, <1>7, <2>1, Relabelled
<1>8. CASE e /\ dir' = [dir EXCEPT ![f] = NoEntry]
  <2> DEFINE own2 == [c \in Clusters |-> IF own[c] = f THEN NoName ELSE own[c]]
             h2 == [h EXCEPT ![f] = FREE]
  <2>1. LabelsOK(fat, own2, idx, h2)
    BY <1>3, <1>4, LabelsDropped
  <2>2. Kept(f, own, idx, own2, idx)
    BY KeptDropped
  <2>3. h2 = [h EXCEPT ![f] = IF NoEntry.used THEN NoEntry.start ELSE FREE] /\ NoEntry.len = 0
    BY NothingFields
  <2> HIDE DEF own2, h2
  <2>4. Chains(fat, own2, idx, h2, LAST, TRUE)
    BY <1>4, <2>1, NamesFacts DEF Chains, RestOK
  <2>5. Chains(fat', own2, idx, h2, call'.st, errors' # 0)
    BY <1>1, <1>5, <1>8, <2>4, NothingFields, ChainMore
  <2>6. FilesOK(dir', sft, NoNode, NoCall, own2, idx, h2)
    BY <1>2, <1>3, <1>4, <1>8, <2>2, <2>3, FilesEntered DEF Labelled
  <2> QED BY <1>1, <2>5, <2>6, Relabelled
<1>9. CASE dir' = [dir EXCEPT ![f] = NoEntry, ![g] = dir[f]]
  <2> DEFINE own2 == [c \in Clusters |-> IF own[c] = f THEN g ELSE own[c]]
             h2 == [h EXCEPT ![f] = FREE, ![g] = h[f]]
  <2>1. f # g /\ g \in Names
    BY <1>1, <1>3, NumbersMore
  <2>2. Closed(sft, g)
    BY <1>1 DEF Labelled, FilesOK, SlotsOK, Closed
  <2>3. h[g] = FREE
    BY <1>1, <1>6, <2>1, <2>2, IdleHeads DEF FilesOK
  <2>4. \A c \in Clusters : own[c] # g
    BY <1>4, <2>1, <2>3, NoneCovered
  <2>5. /\ own2 = [c \in Clusters |-> IF own[c] = f THEN g ELSE own[c]]
        /\ h2 = [h EXCEPT ![f] = FREE, ![g] = h[f]]
    OBVIOUS
  <2> HIDE DEF own2, h2, f
  <2>6. FilesOK(dir', sft, NoNode, NoCall, own2, idx, h2)
    <3>1. /\ f \in Files /\ dir[f].used /\ Closed(sft, f) /\ ~dir[g].used
          /\ dir \in Directory /\ sft \in SFT /\ h \in [Names -> MaybeCluster]
          /\ own \in [Clusters -> Names \union {NoName}]
      BY <1>1, <1>2, <1>3, <1>4
    <3> QED BY ONLY g \in Files, <1>6, <1>9, <2>5, <3>1, FilesRenamed
  <2>7. Chains(fat, own2, idx, h2, LAST, errors # 0)
    <3>1. PICK lossy : lossy = (errors # 0)
      OBVIOUS
    <3>2. f \in Names /\ Chains(fat, own, idx, h, LAST, lossy)
      BY <1>3, <1>4, <3>1
    <3>3. Chains(fat, own2, idx, h2, LAST, lossy)
      BY ONLY <2>1, <2>3, <2>4, <2>5, <3>2, ChainRenamed
    <3> QED BY <3>1, <3>3
  <2>8. Chains(fat', own2, idx, h2, call'.st, errors' # 0)
    BY <1>1, <1>5, <2>7, NothingFields, ChainMore
  <2> QED BY <1>1, <2>6, <2>8, Relabelled
<1> QED BY <1>1, <1>7, <1>8, <1>9

\* From no cluster there is no way to one.
LEMMA NowhereFromFree ==
  ASSUME fat \in Table
  PROVE  \A i \in 0..Size : Nth(FREE)[i] \notin Clusters
<1> DEFINE S == {i \in Nat : i \in 0..Size => Nth(FREE)[i] \notin Clusters}
<1>1. /\ Nth(FREE)[0] = FREE
      /\ \A i \in 1..Size : Nth(FREE)[i] = next_cluster(Nth(FREE)[i - 1])
  BY NthType, Numbers
<1>2. 0 \in S
  BY <1>1, NamesFacts
<1>3. ASSUME NEW i \in Nat, i \in S PROVE i + 1 \in S
  <2> SUFFICES ASSUME i + 1 \in 0..Size PROVE Nth(FREE)[i + 1] \notin Clusters
    OBVIOUS
  <2>1. i \in 0..Size /\ i + 1 \in 1..Size /\ (i + 1) - 1 = i
    BY Numbers
  <2>2. Nth(FREE)[i] \notin Clusters
    BY <1>3, <2>1
  <2>3. Nth(FREE)[i + 1] = BadLink
    BY <1>1, <2>1, <2>2 DEF next_cluster, NextIn
  <2> QED BY <2>3, Numbers
<1>4. \A i \in Nat : i \in S
  <2> HIDE DEF S
  <2> QED BY <1>2, <1>3, SetInduction
<1> QED BY <1>4, Numbers

LEMMA DirGrows ==
  ASSUME fat \in Table, NEW own, NEW idx, NEW h, NEW st, NEW lossy,
         Chains(fat, own, idx, h, st, lossy), NEW c \in Clusters, fat[c] = FREE,
         NEW cur \in Clusters, fat[cur] = LAST, NEW f \in Names, own[cur] = f,
         fat' = Linked(c, cur)
  PROVE  Chains(fat', [own EXCEPT ![c] = f], [idx EXCEPT ![c] = idx[cur] + 1], h, st, lossy)
<1>1. c # cur /\ cur # FREE
  BY NamesFacts
<1>2. \A d \in Clusters : fat'[d] = IF d = c THEN LAST ELSE IF d = cur THEN c ELSE fat[d]
  BY <1>1 DEF Linked, Marked, Table
<1> QED BY <1>2, ChainGrows

LEMMA ExtendDirChains ==
  ASSUME FatInv, NEW own, NEW idx, NEW h, Labelled(own, idx, h),
         NEW d \in Dirs, NEW e \in BOOLEAN, extend_dir(d, e), ~damaged'
  PROVE  ChainInv'
<1>1. call.at = "slot" /\ dir[d].used /\ Drive(e) /\ UNCHANGED <<dir, sft>>
  BY DEF extend_dir
<1>2. PICK cur \in ChainOf(dir[d].start) :
        /\ fat[cur] = LAST \/ e
        /\ \/ extendFails(cur, e) /\ Return("full")
           \/ /\ \E c \in Clusters : extend(cur, c, e)
              /\ \/ call' = [call EXCEPT !.at = "wipe"] /\ UNCHANGED <<fn, res>>
                 \/ e /\ Return("error")
  BY DEF extend_dir
<1>3. /\ fat \in Table /\ call \in Call /\ sft \in SFT /\ dir \in Directory
      /\ hint \in MaybeCluster /\ HistoryOK
  BY InvParts DEF FatInv, TableOK
<1>4. /\ call.op \in Naming /\ call.op # "delete" /\ call.st = LAST
  BY <1>1 DEF Labelled, FilesOK, CallsOK, Naming
<1>5. fn.file = NoName /\ (call.op = "create" => call.name \in Files)
  BY <1>4, OnName
<1>6. d \in Names /\ d \notin Files /\ d # NoName
  BY NumbersMore, FatAssumption
<1>7. Closed(sft, d)
  BY <1>3, <1>6, NodeFields DEF Closed, SFT
<1>8. h[d] = dir[d].start
  <2>1. ~Removing(call, d)
    BY <1>4, <1>5, <1>6 DEF Removing
  <2> QED BY <1>1, <1>5, <1>6, <1>7, <2>1 DEF Labelled, FilesOK, HeadsAre
<1>9. /\ own \in [Clusters -> Names \union {NoName}] /\ idx \in [Clusters -> Nat]
      /\ h \in [Names -> MaybeCluster] /\ Chains(fat, own, idx, h, LAST, errors # 0)
  BY <1>4 DEF Labelled, Chains, LabelsOK
<1>10. cur \in Clusters /\ own[cur] = d
  <2>1. PICK i \in 0..Size : cur = Nth(h[d])[i] /\ cur \in Clusters
    BY <1>2, <1>8 DEF ChainOf
  <2>2. h[d] # FREE
    BY <1>3, <2>1, NowhereFromFree
  <2>3. h[d] \in Clusters /\ own[h[d]] = d
    BY <1>6, <1>9, <2>2 DEF Chains, LabelsOK, MaybeCluster
  <2> QED BY <1>3, <1>6, <1>9, <2>1, <2>3, Walked
<1>11. fat[cur] # FREE
  BY <1>6, <1>9, <1>10 DEF Chains, LabelsOK
<1>12. CASE extendFails(cur, e) /\ Return("full")
  <2>1. FilesOK(dir, sft, NoNode, NoCall, own, idx, h)
    BY <1>1, <1>3, <1>4, <1>5, KeptSame, FilesQuit DEF Labelled
  <2>2. fn' = NoNode /\ call' = NoCall
    BY <1>12 DEF Return
  <2>3. e \/ next_cluster(cur) = LAST
    BY <1>2, <1>9, <1>10, <1>11, NextIsLink DEF Chains
  <2>4. Chains(fat', own, idx, h, LAST, errors' # 0)
    BY <1>1, <1>9, <1>10, <1>12, <2>3, FailsLoses, NumbersMore
  <2> QED BY <1>1, <2>1, <2>2, <2>4, NothingFields, Relabelled
<1>13. ASSUME NEW c \in Clusters, extend(cur, c, e),
              \/ call' = [call EXCEPT !.at = "wipe"] /\ UNCHANGED <<fn, res>>
              \/ e /\ Return("error")
       PROVE  ChainInv'
  <2> DEFINE own2 == [own EXCEPT ![c] = d]
             idx2 == [idx EXCEPT ![c] = idx[cur] + 1]
  <2>1. fat[c] = FREE
    BY <1>3, <1>13, SearchType, Numbers DEF extend
  <2>2. fat' = Linked(c, cur) /\ NextIn(Marked(c), cur) = LAST /\ cur # FREE
    BY <1>10, <1>13, NamesFacts, Undamaged DEF extend, link_fat
  <2>3. c # cur /\ own[c] \notin Names
    BY <1>9, <1>11, <2>1 DEF Chains, LabelsOK
  <2>4. fat[cur] = LAST
    <3>1. Marked(c)[cur] = fat[cur]
      BY <1>3, <1>10, <2>3 DEF Marked, Table
    <3> QED BY <1>10, <2>2, <3>1, Numbers DEF NextIn
  <2>6. Chains(fat', own2, idx2, h, LAST, errors # 0)
    BY <1>3, <1>6, <1>9, <1>10, <2>1, <2>2, <2>4, DirGrows
  <2>7. Chains(fat', own2, idx2, h, LAST, errors' # 0)
    BY <1>1, <1>3, <2>6, Lossier, ChainMore
  <2>8. Kept(NoName, own, idx, own2, idx2)
    BY <1>9, <2>3, KeptGrown
  <2> HIDE DEF own2, idx2
  <2>9. CASE call' = [call EXCEPT !.at = "wipe"] /\ UNCHANGED <<fn, res>>
    <3>1. /\ call'.op = call.op /\ call'.name = call.name /\ call'.slot = call.slot
          /\ call'.at = "wipe" /\ call'.st = call.st
      BY ONLY <1>3, <2>9 DEF Call
    <3>2. FilesOK(dir, sft, fn, call', own2, idx2, h)
      BY <1>3, <1>4, <1>5, <2>8, <3>1, FilesPlaced DEF Labelled
    <3> QED BY <1>1, <1>4, <2>7, <2>9, <3>1, <3>2, Relabelled
  <2>10. CASE e /\ Return("error")
    <3>1. FilesOK(dir, sft, NoNode, NoCall, own2, idx2, h)
      BY <1>1, <1>3, <1>4, <1>5, <2>8, FilesQuit DEF Labelled
    <3>2. fn' = NoNode /\ call' = NoCall
      BY <2>10 DEF Return
    <3> QED BY <1>1, <2>7, <3>1, <3>2, NothingFields, Relabelled
  <2> QED BY <1>13, <2>9, <2>10
<1> QED BY <1>2, <1>12, <1>13

-----------------------------------------------------------------------------
(* One lemma per call of a program *)

\* While no call runs.
LEMMA WhenIdle ==
  ASSUME FatInv, NEW own, NEW idx, NEW h, Labelled(own, idx, h), Idle
  PROVE  /\ call = NoCall /\ fn = NoNode /\ call.st = LAST
         /\ FilesOK(dir, sft, NoNode, NoCall, own, idx, h)
         /\ Chains(fat, own, idx, h, LAST, errors # 0)
         /\ dir \in Directory /\ sft \in SFT /\ h \in [Names -> MaybeCluster]
<1>1. call = NoCall /\ call.st = LAST
  BY NothingFields DEF Idle
<1>2. fn = NoNode
  BY <1>1 DEF Labelled, FilesOK, CallsOK
<1> QED BY <1>1, <1>2, InvParts DEF Labelled, Chains, LabelsOK

LEMMA FreeSlotIs ==
  ASSUME FreeSlots # {}
  PROVE  Min(FreeSlots) \in Slots /\ sft[Min(FreeSlots)].file = NoName
<1>1. Slots \subseteq Nat
  BY NumbersMore DEF Slots
<1>2. FreeSlots \in SUBSET Nat
  BY <1>1 DEF FreeSlots, OpenSlots
<1>3. Min(FreeSlots) \in FreeSlots
  BY <1>2, MinType
<1> QED BY <1>3 DEF FreeSlots, OpenSlots

\* A file that may be opened, replaced, deleted or renamed is not open.
LEMMA NotLocked ==
  ASSUME FatInv, Exclusive, NEW f, ~LockedBy(f)
  PROVE  OpenSlots(f) = {} /\ Closed(sft, f)
BY DEF LockedBy, OpenSlots, Closed

LEMMA DirNotOpen ==
  ASSUME FatInv, NEW d \in Dirs
  PROVE  Closed(sft, d)
<1>1. d \notin Files /\ d # NoName
  BY NumbersMore, FatAssumption
<1> QED BY <1>1, InvParts, NodeFields DEF Closed, SFT

LEMMA OpenChains ==
  ASSUME FatInv, Exclusive, NEW own, NEW idx, NEW h, Labelled(own, idx, h),
         NEW f \in Files, dos_open(f)
  PROVE  ChainInv'
<1>1. /\ Idle /\ FreeSlots # {} /\ dir[f].used /\ ~LockedBy(f)
      /\ UNCHANGED <<fat, dir, fn, call, errors>>
  BY DEF dos_open
<1>2. OpenSlots(f) = {} /\ Closed(sft, f)
  BY <1>1, NotLocked
<1>3. PICK x : x = [NoNode EXCEPT !.file = f, !.start = dir[f].start, !.cur = dir[f].start,
                                  !.len = dir[f].len]
  OBVIOUS
<1>4. sft' = [sft EXCEPT ![Min(FreeSlots)] = x]
  BY <1>2, <1>3 DEF dos_open
<1>5. /\ x.file = f /\ x.start = dir[f].start /\ x.cur = dir[f].start /\ x.len = dir[f].len
      /\ x.rel = 0
  BY <1>3 DEF NoNode
<1>6. /\ call = NoCall /\ fn = NoNode /\ FilesOK(dir, sft, NoNode, NoCall, own, idx, h)
      /\ Chains(fat, own, idx, h, LAST, errors # 0) /\ sft \in SFT /\ call.st = LAST
  BY <1>1, WhenIdle
<1>7. Min(FreeSlots) \in Slots /\ sft[Min(FreeSlots)].file = NoName
  BY <1>1, FreeSlotIs
<1>8. FilesOK(dir, sft', NoNode, NoCall, own, idx, h)
  BY <1>1, <1>2, <1>4, <1>5, <1>6, <1>7, FilesOpened
<1> QED BY <1>1, <1>6, <1>8, ChainsSame

\* An open file is written to the directory.
LEMMA FilesCommitted ==
  ASSUME NEW d \in Directory, NEW t \in SFT, NEW own, NEW idx, NEW h,
         FilesOK(d, t, NoNode, NoCall, own, idx, h), NEW s \in Slots, t[s].file \in Files,
         NEW y, y.used, y.start = t[s].start, y.len = t[s].len,
         NEW d2, d2 = [d EXCEPT ![t[s].file] = y]
  PROVE  FilesOK(d2, t, NoNode, NoCall, own, idx, h)
<1>1. t[s].file \in Names
  BY NumbersMore
<1>2. \A b \in Names : d2[b] = IF b = t[s].file THEN y ELSE d[b]
  BY <1>1 DEF Directory
<1>3. \A u \in Slots : t[u].file = t[s].file => u = s
  BY DEF FilesOK, SlotsOK
<1>4. ~Closed(t, t[s].file)
  BY DEF Closed
<1>5. HeadsAre(d2, t, NoNode, NoCall, h)
  <2>1. \A b \in Names :
          /\ \A u \in Slots : t[u].file = b => h[b] = t[u].start
          /\ Closed(t, b) => h[b] = IF d[b].used THEN d[b].start ELSE FREE
    BY IdleHeads DEF FilesOK
  <2>2. \A b \in Names : Closed(t, b) => d2[b] = d[b]
    BY <1>2, <1>4
  <2>3. \A b \in Names :
          /\ \A u \in Slots : t[u].file = b => h[b] = t[u].start
          /\ Closed(t, b) => h[b] = IF d2[b].used THEN d2[b].start ELSE FREE
    BY ONLY <2>1, <2>2
  <2> QED BY ONLY <2>3, IdleHeads
<1>6. SlotsOK(d2, t, NoCall, own, idx)
  <2>1. SlotsOK(d, t, NoCall, own, idx)
    BY DEF FilesOK
  <2>2. ASSUME NEW u \in Slots, t[u].file \in Files
        PROVE  d2[t[u].file].used /\ Agrees(t[u], d2)
    <3>1. t[u].file \in Names
      BY <2>2, NumbersMore
    <3>2. CASE u = s
      BY <1>1, <1>2, <3>2 DEF Agrees
    <3>3. CASE u # s
      <4>1. d2[t[u].file] = d[t[u].file]
        BY <1>2, <1>3, <3>1, <3>3
      <4> QED BY <2>1, <2>2, <4>1 DEF SlotsOK, Agrees
    <3> QED BY <3>2, <3>3
  <2>3. \A b \in Files : Closed(t, b) => d2[b] = d[b]
    BY <1>2, <1>4, NumbersMore
  <2> QED BY <2>1, <2>2, <2>3 DEF SlotsOK
<1>7. CallsOK(d2, t, NoNode, NoCall, own, idx)
  BY NothingOK
<1> QED BY <1>5, <1>6, <1>7 DEF FilesOK

\* An open file that the directory agrees with is closed.
LEMMA FilesClosed ==
  ASSUME NEW d, NEW t \in SFT, NEW own, NEW idx, NEW h,
         FilesOK(d, t, NoNode, NoCall, own, idx, h), NEW s \in Slots, t[s].file \in Files,
         d[t[s].file].start = t[s].start, d[t[s].file].len = t[s].len,
         NEW t2, t2 = [t EXCEPT ![s] = NoNode]
  PROVE  FilesOK(d, t2, NoNode, NoCall, own, idx, h)
<1> DEFINE f == t[s].file
<1>1. \A u \in Slots : t2[u] = IF u = s THEN NoNode ELSE t[u]
  BY DEF SFT
<1>2. f \in Names /\ f # NoName /\ NoNode.file = NoName
  BY NumbersMore, NothingFields
<1>3. \A u \in Slots : t[u].file = f => u = s
  BY DEF FilesOK, SlotsOK
<1>4. \A b \in Names : b # f => (Closed(t2, b) <=> Closed(t, b))
  BY <1>1, <1>2, NoFile DEF Closed
<1>5. SlotsOK(d, t, NoCall, own, idx) /\ ~Cutting(NoCall, s)
  BY NothingFields DEF FilesOK, Cutting
<1>6. d[f].used /\ Sound(t[s], own, idx)
  BY <1>5 DEF SlotsOK
<1>7. HeadsAre(d, t2, NoNode, NoCall, h)
  <2>1. \A b \in Names :
          /\ \A u \in Slots : t[u].file = b => h[b] = t[u].start
          /\ Closed(t, b) => h[b] = IF d[b].used THEN d[b].start ELSE FREE
    BY IdleHeads DEF FilesOK
  <2>2. \A b \in Names : \A u \in Slots : t2[u].file = b => t2[u] = t[u]
    BY <1>1, <1>2, NoFile
  <2>3. h[f] = d[f].start
    BY <1>2, <2>1
  <2>4. \A b \in Names : \A u \in Slots : t2[u].file = b => h[b] = t2[u].start
    BY <2>1, <2>2
  <2>5. \A b \in Names : Closed(t2, b) => h[b] = IF d[b].used THEN d[b].start ELSE FREE
    <3> HIDE DEF f
    <3> QED BY <1>4, <1>6, <2>1, <2>3
  <2>6. \A b \in Names :
          /\ \A u \in Slots : t2[u].file = b => h[b] = t2[u].start
          /\ Closed(t2, b) => h[b] = IF d[b].used THEN d[b].start ELSE FREE
    BY ONLY <2>4, <2>5
  <2> QED BY ONLY <2>6, IdleHeads
<1>8. SlotsOK(d, t2, NoCall, own, idx)
  <2>1. \A u \in Slots : t2[u].file \in Files => t2[u] = t[u]
    BY <1>1, <1>2, NoFile
  <2>2. \A r, u \in Slots : t2[r].file \in Files /\ t2[r].file = t2[u].file => r = u
    BY <1>5, <2>1 DEF SlotsOK
  <2>3. \A u \in Slots : t2[u].file = NoName => t2[u] = NoNode
    BY <1>1, <1>5 DEF SlotsOK
  <2>4. ASSUME NEW b \in Files, d[b].used, Closed(t2, b), ~Removing(NoCall, b)
        PROVE  Covered(b, d[b].len, own, idx) /\ (d[b].start = FREE => d[b].len = 0)
    <3>1. CASE b = f
      BY <1>6, <3>1 DEF Sound, OnChain
    <3>2. CASE b # f
      <4>1. Closed(t, b)
        BY <1>4, <2>4, <3>2, NumbersMore
      <4> QED BY <1>5, <2>4, <4>1 DEF SlotsOK
    <3> QED BY <3>1, <3>2
  <2> QED BY <1>5, <2>1, <2>2, <2>3, <2>4 DEF SlotsOK
<1>9. CallsOK(d, t2, NoNode, NoCall, own, idx)
  BY NothingOK
<1> QED BY <1>7, <1>8, <1>9 DEF FilesOK

LEMMA CloseChains ==
  ASSUME FatInv, NEW own, NEW idx, NEW h, Labelled(own, idx, h),
         NEW s \in Slots, NEW commitonly \in BOOLEAN, NEW e \in BOOLEAN,
         dos_close(s, commitonly, e), ~damaged'
  PROVE  ChainInv'
<1> DEFINE x == sft[s]
           merged == IF x.clean THEN sft ELSE Merged(sft, x, s)
<1>1. /\ Idle /\ x.file # NoName /\ UNCHANGED <<fat, fn, call>>
      /\ IF x.clean THEN Drive(e) /\ UNCHANGED dir
         ELSE ~e /\ dir_write(x.file, EntryOf(x), e)
      /\ sft' = IF e \/ commitonly THEN merged ELSE [merged EXCEPT ![s] = NoNode]
  BY Undamaged DEF dos_close, dir_write, Damage
<1>2. /\ call = NoCall /\ fn = NoNode /\ FilesOK(dir, sft, NoNode, NoCall, own, idx, h)
      /\ Chains(fat, own, idx, h, LAST, errors # 0) /\ sft \in SFT /\ dir \in Directory
      /\ call.st = LAST
  BY <1>1, WhenIdle
<1>3. x \in Node /\ x.file \in Files
  BY <1>1, <1>2, NodeFields DEF SFT
<1>4. \A o \in Slots : sft[o].file = x.file => o = s
  BY <1>2, <1>3 DEF FilesOK, SlotsOK
<1>5. merged = sft
  BY <1>2, <1>4, MergedSame
<1>6. sft' = sft \/ sft' = [sft EXCEPT ![s] = NoNode]
  BY <1>1, <1>5
<1>7. /\ FilesOK(dir', sft, NoNode, NoCall, own, idx, h) /\ Drive(e)
      /\ dir'[x.file].start = x.start /\ dir'[x.file].len = x.len
  <2>1. CASE x.clean
    BY <1>1, <1>2, <1>3, <2>1 DEF FilesOK, SlotsOK, Agrees
  <2>2. CASE ~x.clean
    <3>1. PICK y : y = EntryOf(x)
      OBVIOUS
    <3>2. y.used /\ y.start = x.start /\ y.len = x.len
      BY <3>1 DEF EntryOf
    <3>3. dir' = [dir EXCEPT ![x.file] = y] /\ Drive(e)
      BY <1>1, <2>2, <3>1 DEF dir_write
    <3>4. FilesOK(dir', sft, NoNode, NoCall, own, idx, h)
      BY <1>2, <1>3, <3>2, <3>3, FilesCommitted
    <3>5. dir'[x.file] = y
      BY <1>2, <1>3, <3>3, NumbersMore DEF Directory
    <3> QED BY <3>2, <3>3, <3>4, <3>5
  <2> QED BY <2>1, <2>2
<1>8. FilesOK(dir', sft', NoNode, NoCall, own, idx, h)
  <2>1. CASE sft' = sft
    BY <1>7, <2>1
  <2>2. CASE sft' = [sft EXCEPT ![s] = NoNode]
    BY <1>2, <1>3, <1>7, <2>2, FilesClosed
  <2> QED BY <1>6, <2>1, <2>2
<1>9. Chains(fat', own, idx, h, call'.st, errors' # 0)
  BY <1>1, <1>2, <1>7, Lossier, ChainMore DEF FatInv
<1> QED BY <1>1, <1>2, <1>8, <1>9, Relabelled

LEMMA SeekChains ==
  ASSUME FatInv, NEW own, NEW idx, NEW h, Labelled(own, idx, h),
         NEW s \in Slots, NEW p \in 0..MaxLen, SftSeek(s, p)
  PROVE  ChainInv'
<1>1. /\ Idle /\ sft[s].file # NoName /\ sft' = [sft EXCEPT ![s].pos = p]
      /\ UNCHANGED <<fat, dir, fn, call, errors>>
  BY DEF SftSeek
<1>2. /\ call = NoCall /\ fn = NoNode /\ FilesOK(dir, sft, NoNode, NoCall, own, idx, h)
      /\ sft \in SFT /\ call.st = LAST
  BY <1>1, WhenIdle
<1>3. \A u \in Slots : sft[u] \in Node /\ (u # s => sft'[u] = sft[u])
  BY <1>1, <1>2 DEF SFT
<1>4. sft'[s] = [sft[s] EXCEPT !.pos = p]
  BY <1>1, <1>2 DEF SFT
<1>5. \A u \in Slots :
        /\ sft'[u].file = sft[u].file /\ sft'[u].start = sft[u].start /\ sft'[u].len = sft[u].len
        /\ sft'[u].cur = sft[u].cur /\ sft'[u].rel = sft[u].rel /\ sft'[u].clean = sft[u].clean
  BY <1>3, <1>4 DEF Node
<1>6. \A b : Closed(sft', b) <=> Closed(sft, b)
  BY <1>5 DEF Closed
<1>7. HeadsAre(dir, sft', NoNode, NoCall, h)
  <2>1. \A b \in Names :
          /\ \A u \in Slots : sft[u].file = b => h[b] = sft[u].start
          /\ Closed(sft, b) => h[b] = IF dir[b].used THEN dir[b].start ELSE FREE
    BY <1>2, IdleHeads DEF FilesOK
  <2>2. \A b \in Names :
          /\ \A u \in Slots : sft'[u].file = b => h[b] = sft'[u].start
          /\ Closed(sft', b) => h[b] = IF dir[b].used THEN dir[b].start ELSE FREE
    BY ONLY <1>5, <1>6, <2>1
  <2> QED BY ONLY <2>2, IdleHeads
<1>8. SlotsOK(dir, sft', NoCall, own, idx)
  <2>1. SlotsOK(dir, sft, NoCall, own, idx)
    BY <1>2 DEF FilesOK
  <2>2. \A u \in Slots : sft'[u].file = NoName => sft'[u] = NoNode
    BY <1>1, <1>3, <1>5, <2>1 DEF SlotsOK
  <2>3. \A u \in Slots : Sound(sft[u], own, idx) => Sound(sft'[u], own, idx)
    BY <1>5 DEF Sound, OnChain
  <2>4. \A u \in Slots : Agrees(sft[u], dir) => Agrees(sft'[u], dir)
    BY <1>5 DEF Agrees
  <2>5. ASSUME NEW u \in Slots, sft'[u].file \in Files
        PROVE  /\ dir[sft'[u].file].used /\ Agrees(sft'[u], dir)
               /\ Cutting(NoCall, u) \/ Sound(sft'[u], own, idx)
    BY <1>5, <2>1, <2>3, <2>4, <2>5 DEF SlotsOK
  <2>6. \A r, u \in Slots : sft'[r].file \in Files /\ sft'[r].file = sft'[u].file => r = u
    BY <1>5, <2>1 DEF SlotsOK
  <2>7. \A f \in Files : dir[f].used /\ Closed(sft', f) /\ ~Removing(NoCall, f) =>
          Covered(f, dir[f].len, own, idx) /\ (dir[f].start = FREE => dir[f].len = 0)
    BY <1>6, <2>1 DEF SlotsOK
  <2> QED BY <2>2, <2>5, <2>6, <2>7 DEF SlotsOK
<1>9. CallsOK(dir, sft', NoNode, NoCall, own, idx)
  BY NothingOK
<1>10. FilesOK(dir, sft', NoNode, NoCall, own, idx, h)
  BY <1>7, <1>8, <1>9 DEF FilesOK
<1> QED BY <1>1, <1>2, <1>10, ChainsSame

\* A call that only reads, or a change of the medium.
LEMMA FreeChains ==
  ASSUME FatInv, NEW own, NEW idx, NEW h, Labelled(own, idx, h), ~damaged',
         (\E e \in BOOLEAN : dos_free(e)) \/ ReadFails \/ bpb_to_dpb
  PROVE  ChainInv'
<1>1. UNCHANGED <<dir, sft, fn, call>>
  BY DEF dos_free, ReadFails, bpb_to_dpb
<1>2. UNCHANGED fat
  BY Undamaged DEF dos_free, ReadFails, bpb_to_dpb
<1>3. UNCHANGED errors \/ \E e \in BOOLEAN : Drive(e)
  BY DEF dos_free, ReadFails, bpb_to_dpb
<1>4. errors # 0 => errors' # 0
  BY <1>3, Lossier DEF FatInv
<1>5. Chains(fat', own, idx, h, call'.st, errors' # 0)
  BY <1>1, <1>2, <1>4, ChainMore DEF Labelled
<1> QED BY <1>1, <1>5, Relabelled DEF Labelled

\* A call on an open file starts.
LEMMA FilesStarted ==
  ASSUME NEW d, NEW t \in SFT, NEW own, NEW idx, NEW h,
         FilesOK(d, t, NoNode, NoCall, own, idx, h), NEW s \in Slots, t[s].file \in Files,
         NEW x, x.file = t[s].file, x.start = t[s].start, Sound(x, own, idx), Agrees(x, d),
         NEW c, c.op \in {"read", "write", "truncate"}, c.op = "read" \/ ~x.clean,
         c.at \in {"extend", "data", "shrink"}, c.slot = s, c.name = NoName, c.st = LAST,
         c.at = "shrink" => x.len = x.pos /\ c.op = "truncate"
  PROVE  FilesOK(d, t, x, c, own, idx, h)
<1>1. \A b : ~Removing(c, b)
  BY DEF Removing
<1>2. \A b \in Names :
        /\ \A u \in Slots : t[u].file = b => h[b] = t[u].start
        /\ Closed(t, b) => h[b] = IF d[b].used THEN d[b].start ELSE FREE
  BY IdleHeads DEF FilesOK
<1>3. HeadsAre(d, t, x, c, h)
  BY <1>1, <1>2 DEF HeadsAre
<1>4. \A u \in Slots : ~Cutting(NoCall, u)
  BY NothingFields DEF Cutting
<1>5. \A b : ~Removing(NoCall, b)
  BY NothingFields DEF Removing
<1>6. SlotsOK(d, t, c, own, idx)
  BY <1>4, <1>5, SlotsKept, KeptSame, NoFile DEF FilesOK
<1>7. ~ (c = NoCall)
  BY NothingFields
<1>8. CallsOK(d, t, x, c, own, idx)
  BY <1>7, NoFile DEF CallsOK
<1> QED BY <1>3, <1>6, <1>8 DEF FilesOK

LEMMA ReadChains ==
  ASSUME FatInv, NEW own, NEW idx, NEW h, Labelled(own, idx, h),
         NEW s \in Slots, NEW n \in 1..MaxCount, Read(s, n)
  PROVE  ChainInv'
<1>1. PICK c : c = [NoCall EXCEPT !.op = "read", !.at = "data", !.slot = s, !.left = n]
  OBVIOUS
<1>2. /\ sft[s].file # NoName /\ Idle /\ call' = c /\ fn' = sft[s]
      /\ UNCHANGED <<fat, dir, sft, errors>>
  BY <1>1 DEF Read, Start
<1>3. c.op = "read" /\ c.at = "data" /\ c.slot = s /\ c.name = NoName /\ c.st = LAST
  BY <1>1 DEF NoCall
<1>4. /\ FilesOK(dir, sft, NoNode, NoCall, own, idx, h) /\ sft \in SFT /\ call.st = LAST
  BY <1>2, WhenIdle
<1>5. sft[s].file \in Files /\ ~Cutting(NoCall, s)
  BY <1>2, <1>4, NodeFields, NothingFields DEF SFT, Cutting
<1>6. Sound(sft[s], own, idx) /\ Agrees(sft[s], dir)
  BY <1>4, <1>5 DEF FilesOK, SlotsOK
<1>7. FilesOK(dir, sft, sft[s], c, own, idx, h)
  BY <1>3, <1>4, <1>5, <1>6, FilesStarted
<1> QED BY <1>2, <1>3, <1>4, <1>7, ChainsSame

LEMMA CoveredLess ==
  ASSUME NEW f, NEW m \in Nat, NEW n \in Nat, m <= n, NEW own, NEW idx,
         idx \in [Clusters -> Nat], Covered(f, n, own, idx)
  PROVE  Covered(f, m, own, idx)
<1>1. CASE n = 0
  BY <1>1 DEF Covered
<1>2. CASE n # 0
  <2>1. PICK c \in Clusters : own[c] = f /\ idx[c] <= Size /\ n <= CS * (idx[c] + 1)
    BY <1>2 DEF Covered
  <2>2. idx[c] + 1 \in Nat /\ CS \in Nat
    BY NumbersMore
  <2>3. PICK k \in Nat : k = CS * (idx[c] + 1)
    BY <2>2
  <2>4. m <= k
    BY <2>1, <2>3
  <2> QED BY <2>1, <2>3, <2>4 DEF Covered
<1> QED BY <1>1, <1>2

LEMMA WriteChains ==
  ASSUME FatInv, NEW own, NEW idx, NEW h, Labelled(own, idx, h),
         NEW s \in Slots, NEW n \in 0..MaxCount, Write(s, n)
  PROVE  ChainInv'
<1> DEFINE x == sft[s]
           op == IF n = 0 THEN "truncate" ELSE "write"
           at == IF x.pos > x.len THEN "extend" ELSE IF n = 0 THEN "shrink" ELSE "data"
           len == IF n = 0 /\ x.pos <= x.len THEN x.pos ELSE x.len
<1>1. PICK c : c = [NoCall EXCEPT !.op = op, !.slot = s, !.at = at, !.left = n]
  OBVIOUS
<1>2. PICK y : y = [x EXCEPT !.clean = FALSE, !.len = len]
  OBVIOUS
<1>3. /\ x.file # NoName /\ Idle /\ call' = c /\ fn' = y /\ UNCHANGED <<fat, dir, sft, errors>>
  BY <1>1, <1>2 DEF Write, Start
<1>4. c.op = op /\ c.at = at /\ c.slot = s /\ c.name = NoName /\ c.st = LAST
  BY <1>1 DEF NoCall
<1>5. /\ FilesOK(dir, sft, NoNode, NoCall, own, idx, h) /\ sft \in SFT /\ call.st = LAST
      /\ idx \in [Clusters -> Nat]
  BY <1>3, WhenIdle DEF Chains, LabelsOK
<1>6. x \in Node /\ x.file \in Files /\ ~Cutting(NoCall, s)
  BY <1>3, <1>5, NodeFields, NothingFields DEF SFT, Cutting
<1>7. Sound(x, own, idx) /\ x.pos \in Nat /\ x.len \in Nat
  BY <1>5, <1>6, NodeFields DEF FilesOK, SlotsOK
<1>8. len \in Nat /\ len <= x.len
  BY <1>7
<1>9. op \in {"read", "write", "truncate"} /\ at \in {"extend", "data", "shrink"}
  OBVIOUS
<1>10. at = "shrink" => len = x.pos /\ op = "truncate"
  BY <1>7
<1> HIDE DEF op, at, len
<1>11. /\ y.file = x.file /\ y.start = x.start /\ y.cur = x.cur /\ y.rel = x.rel
       /\ y.len = len /\ y.pos = x.pos /\ y.clean = FALSE
  BY <1>2, <1>6 DEF Node
<1>12. Covered(x.file, len, own, idx)
  BY <1>5, <1>7, <1>8, CoveredLess DEF Sound
<1>13. Sound(y, own, idx) /\ Agrees(y, dir)
  <2>1. x.start = FREE => len = 0
    BY <1>7, <1>8 DEF Sound, OnChain
  <2>2. OnChain(y, own, idx)
    BY <1>7, <1>11, <2>1 DEF Sound, OnChain
  <2> QED BY <1>11, <1>12, <2>2 DEF Sound, Agrees
<1>14. FilesOK(dir, sft, y, c, own, idx, h)
  <2> HIDE DEF x
  <2>1. c.op \in {"read", "write", "truncate"} /\ ~y.clean
        /\ c.at \in {"extend", "data", "shrink"} /\ (c.at = "shrink" => y.len = y.pos /\ c.op = "truncate")
    BY <1>4, <1>9, <1>10, <1>11
  <2> QED BY <1>4, <1>5, <1>6, <1>11, <1>13, <2>1, FilesStarted DEF x
<1> QED BY <1>3, <1>4, <1>5, <1>14, ChainsSame

\* A call on the name of a file or of a directory that is not open starts.
LEMMA FilesNamed ==
  ASSUME NEW d, NEW t \in SFT, NEW own, NEW idx, NEW h, FilesOK(d, t, NoNode, NoCall, own, idx, h),
         NEW f \in Names, Closed(t, f),
         NEW c, c.op \in Naming, c.name = f, c.at \in {"wipe", "slot"},
         c.at = "slot" => c.st = LAST /\ c.op # "delete",
         c.op = "create" => c.slot \in Slots /\ t[c.slot].file = NoName,
         c.op = "create" /\ c.at = "slot" => ~d[f].used,
         c.op = "mkdir" => ~d[f].used, c.op = "rename" => d[f].used /\ f \in Files,
         NEW own2, NEW h2, NEW k, Kept(k, own, idx, own2, idx),
         k = NoName \/ (k = f /\ Removing(c, f)),
         \A b \in Names : b # f => h2[b] = h[b],
         h2[f] = IF Removing(c, f) THEN FREE ELSE h[f]
  PROVE  FilesOK(d, t, NoNode, c, own2, idx, h2)
<1>1. \A b \in Names : b # f => ~Removing(c, b)
  BY DEF Removing
<1>2. \A b \in Names :
        /\ \A u \in Slots : t[u].file = b => h[b] = t[u].start
        /\ Closed(t, b) => h[b] = IF d[b].used THEN d[b].start ELSE FREE
  BY IdleHeads DEF FilesOK
<1>3. \A b \in Names : NoNode.file # b
  BY NothingFields, NoFile
<1>4. HeadsAre(d, t, NoNode, c, h2)
  <2> SUFFICES ASSUME NEW b \in Names
               PROVE  /\ Removing(c, b) => h2[b] = FREE
                      /\ ~Removing(c, b) =>
                           /\ \A s \in Slots : t[s].file = b => h2[b] = t[s].start
                           /\ Closed(t, b) => h2[b] = IF d[b].used THEN d[b].start ELSE FREE
    BY <1>3 DEF HeadsAre
  <2>1. CASE b = f
    BY <1>2, <2>1
  <2>2. CASE b # f
    BY <1>1, <1>2, <2>2
  <2> QED BY <2>1, <2>2
<1>5. \A u \in Slots : ~Cutting(NoCall, u)
  BY NothingFields DEF Cutting
<1>6. \A b : ~Removing(NoCall, b)
  BY NothingFields DEF Removing
<1>7. k \in Files => Removing(c, k) /\ \A s \in Slots : t[s].file = k => Cutting(c, s)
  BY NoFile DEF Closed
<1>8. SlotsOK(d, t, c, own2, idx)
  BY <1>5, <1>6, <1>7, SlotsKept DEF FilesOK
<1>9. ~ (c = NoCall)
  BY NothingFields
<1>10. CallsOK(d, t, NoNode, c, own2, idx)
  BY <1>9, NothingFields, NoFile DEF CallsOK, Naming, Mapping
<1> QED BY <1>4, <1>8, <1>10 DEF FilesOK

\* wipe_out starts: the chain of f is no longer one of a file.
LEMMA WipeOutStarts ==
  ASSUME FatInv, NEW own, NEW idx, NEW h, Labelled(own, idx, h), NEW f \in Names, Closed(sft, f),
         dir[f].used, NEW c, Start(c, NoNode), c.op \in {"create", "delete"}, c.name = f,
         c.at = "wipe", c.st = Rest(dir[f].start),
         c.op = "create" => c.slot \in Slots /\ sft[c.slot].file = NoName
  PROVE  ChainInv'
<1>1. /\ Idle /\ call' = c /\ fn' = NoNode /\ UNCHANGED <<fat, dir, sft, errors>>
  BY DEF Start
<1>2. /\ FilesOK(dir, sft, NoNode, NoCall, own, idx, h) /\ sft \in SFT
      /\ h \in [Names -> MaybeCluster]
  BY <1>1, WhenIdle
<1>3. PICK lossy : lossy = (errors # 0)
  OBVIOUS
<1>4. Chains(fat, own, idx, h, LAST, lossy)
  BY <1>1, <1>3, WhenIdle
<1>5. h[f] = dir[f].start
  BY <1>2, IdleHeads DEF FilesOK
<1>6. PICK own2 : own2 = [b \in Clusters |-> IF own[b] = f THEN NoName ELSE own[b]]
  OBVIOUS
<1>7. PICK h2 : h2 = [h EXCEPT ![f] = FREE]
  OBVIOUS
<1>8. Chains(fat, own2, idx, h2, Rest(h[f]), lossy)
  BY <1>4, <1>6, <1>7, ChainDropped
<1>9. Kept(f, own, idx, own2, idx)
  BY <1>6, KeptDropped
<1>10. Removing(c, f)
  BY DEF Removing
<1>11. (\A b \in Names : b # f => h2[b] = h[b]) /\ h2[f] = FREE
  BY <1>2, <1>7
<1>12. FilesOK(dir, sft, NoNode, c, own2, idx, h2)
  BY <1>2, <1>9, <1>10, <1>11, FilesNamed DEF Naming
<1>13. Chains(fat', own2, idx, h2, call'.st, errors' # 0)
  BY <1>1, <1>3, <1>5, <1>8
<1> QED BY <1>1, <1>12, <1>13, Relabelled

LEMMA ReplaceChains ==
  ASSUME FatInv, Exclusive, NEW own, NEW idx, NEW h, Labelled(own, idx, h),
         NEW f \in Files, Replace(f)
  PROVE  ChainInv'
<1>1. PICK c : c = [NoCall EXCEPT !.op = "create", !.at = "wipe", !.name = f,
                                  !.slot = Min(FreeSlots), !.st = Rest(dir[f].start)]
  OBVIOUS
<1>2. FreeSlots # {} /\ dir[f].used /\ ~LockedBy(f) /\ Start(c, NoNode)
  BY <1>1 DEF Replace
<1>3. /\ c.op = "create" /\ c.at = "wipe" /\ c.name = f /\ c.slot = Min(FreeSlots)
      /\ c.st = Rest(dir[f].start)
  BY <1>1 DEF NoCall
<1>4. f \in Names /\ Closed(sft, f) /\ c.slot \in Slots /\ sft[c.slot].file = NoName
  BY <1>2, <1>3, NotLocked, FreeSlotIs, NumbersMore
<1> QED BY <1>2, <1>3, <1>4, WipeOutStarts

LEMMA DeleteChains ==
  ASSUME FatInv, Exclusive, NEW own, NEW idx, NEW h, Labelled(own, idx, h),
         NEW f \in Names, dos_delete(f)
  PROVE  ChainInv'
<1>1. PICK c : c = [NoCall EXCEPT !.op = "delete", !.at = "wipe", !.name = f,
                                  !.st = Rest(dir[f].start)]
  OBVIOUS
<1>2. dir[f].used /\ ~LockedBy(f) /\ Start(c, NoNode)
  BY <1>1 DEF dos_delete
<1>3. c.op = "delete" /\ c.at = "wipe" /\ c.name = f /\ c.st = Rest(dir[f].start)
  BY <1>1 DEF NoCall
<1>4. Closed(sft, f)
  BY <1>2, NotLocked
<1> QED BY <1>2, <1>3, <1>4, WipeOutStarts

\* A call starts that leaves the chains alone.
LEMMA NamingStarts ==
  ASSUME FatInv, NEW own, NEW idx, NEW h, Labelled(own, idx, h), NEW f \in Names, Closed(sft, f),
         NEW c, Start(c, NoNode), c.op \in {"create", "mkdir", "rename"}, c.name = f,
         c.at \in alloc_find_free, c.st = LAST,
         c.op = "create" => c.slot \in Slots /\ sft[c.slot].file = NoName,
         c.op # "rename" => ~dir[f].used, c.op = "rename" => dir[f].used /\ f \in Files
  PROVE  ChainInv'
<1>1. /\ Idle /\ call' = c /\ fn' = NoNode /\ UNCHANGED <<fat, dir, sft, errors>>
  BY DEF Start
<1>2. /\ FilesOK(dir, sft, NoNode, NoCall, own, idx, h) /\ sft \in SFT /\ call.st = LAST
  BY <1>1, WhenIdle
<1>3. ~dir[f].used => h[f] = FREE
  BY <1>2, IdleHeads DEF FilesOK
<1>4. h[f] = IF Removing(c, f) THEN FREE ELSE h[f]
  BY <1>3 DEF Removing
<1>5. c.at \in {"wipe", "slot"}
  BY DEF alloc_find_free
<1>6. FilesOK(dir, sft, NoNode, c, own, idx, h)
  BY <1>2, <1>4, <1>5, KeptSame, FilesNamed DEF Naming
<1> QED BY <1>1, <1>2, <1>6, ChainsSame

LEMMA CreateChains ==
  ASSUME FatInv, Exclusive, NEW own, NEW idx, NEW h, Labelled(own, idx, h),
         NEW f \in Files, NEW at \in alloc_find_free, Create(f, at)
  PROVE  ChainInv'
<1>1. PICK c : c = [NoCall EXCEPT !.op = "create", !.at = at, !.name = f,
                                  !.slot = Min(FreeSlots)]
  OBVIOUS
<1>2. FreeSlots # {} /\ ~dir[f].used /\ ~LockedBy(f) /\ Start(c, NoNode)
  BY <1>1 DEF Create
<1>3. c.op = "create" /\ c.at = at /\ c.name = f /\ c.slot = Min(FreeSlots) /\ c.st = LAST
  BY <1>1 DEF NoCall
<1>4. f \in Names /\ Closed(sft, f) /\ c.slot \in Slots /\ sft[c.slot].file = NoName
  BY <1>2, <1>3, NotLocked, FreeSlotIs, NumbersMore
<1> QED BY <1>2, <1>3, <1>4, NamingStarts

LEMMA MkdirChains ==
  ASSUME FatInv, NEW own, NEW idx, NEW h, Labelled(own, idx, h),
         NEW f \in Dirs, NEW at \in alloc_find_free, dos_mkdir(f, at)
  PROVE  ChainInv'
<1>1. PICK c : c = [NoCall EXCEPT !.op = "mkdir", !.at = at, !.name = f]
  OBVIOUS
<1>2. ~dir[f].used /\ Start(c, NoNode)
  BY <1>1 DEF dos_mkdir
<1>3. c.op = "mkdir" /\ c.at = at /\ c.name = f /\ c.st = LAST
  BY <1>1 DEF NoCall
<1>4. f \in Names /\ Closed(sft, f)
  BY DirNotOpen, NumbersMore DEF Names
<1> QED BY <1>2, <1>3, <1>4, NamingStarts

LEMMA RenameChains ==
  ASSUME FatInv, Exclusive, NEW own, NEW idx, NEW h, Labelled(own, idx, h),
         NEW f \in Files, NEW at \in alloc_find_free, dos_rename(f, at)
  PROVE  ChainInv'
<1>1. PICK c : c = [NoCall EXCEPT !.op = "rename", !.at = at, !.name = f]
  OBVIOUS
<1>2. dir[f].used /\ ~LockedBy(f) /\ Start(c, NoNode)
  BY <1>1 DEF dos_rename
<1>3. c.op = "rename" /\ c.at = at /\ c.name = f /\ c.st = LAST
  BY <1>1 DEF NoCall
<1>4. f \in Names /\ Closed(sft, f)
  BY <1>2, NotLocked, NumbersMore
<1> QED BY <1>2, <1>3, <1>4, NamingStarts

-----------------------------------------------------------------------------
(* The invariant *)

\* Only an error of the drive drops changes.
Quiet == errors = 0 => ~damaged

\* The history goes on: without an error, or with one that may do damage.
GoesOn ==
  \/ UNCHANGED <<errors, damaged>>
  \/ \E e \in BOOLEAN : Drive(e) /\ (damaged' = damaged \/ (e /\ damaged'))

LEMMA HistoryGrows ==
  ASSUME HistoryOK, GoesOn
  PROVE  (damaged => damaged') /\ (Quiet => Quiet')
<1>1. CASE UNCHANGED <<errors, damaged>>
  BY <1>1 DEF Quiet
<1>2. ASSUME NEW e \in BOOLEAN, Drive(e), damaged' = damaged \/ (e /\ damaged')
      PROVE  (damaged => damaged') /\ (Quiet => Quiet')
  <2>1. (errors # 0 => errors' # 0) /\ (e => errors' # 0)
    BY <1>2, Lossier
  <2> QED BY <1>2, <2>1 DEF Quiet
<1> QED BY <1>1, <1>2 DEF GoesOn

\* The table becomes g, with an error e of the table; d is one of the drive.
LEMMA BecomesGoesOn ==
  ASSUME NEW g, NEW e, Becomes(g, e), NEW d \in BOOLEAN, Drive(d), e => d
  PROVE  GoesOn
BY DEF Becomes, Damage, GoesOn

LEMMA ExtendGoesOn ==
  ASSUME NEW cur, NEW e \in BOOLEAN,
         extendFails(cur, e) \/ \E c \in Clusters : extend(cur, c, e),
         NEW d \in BOOLEAN, Drive(d), e => d
  PROVE  GoesOn
BY BecomesGoesOn DEF extendFails, extend, link_fat

LEMMA StepGoesOn ==
  ASSUME Step
  PROVE  GoesOn
<1>1. CASE ShrinkNothing
  BY <1>1 DEF ShrinkNothing, GoesOn
<1>2. CASE Extended
  BY <1>2 DEF Extended, GoesOn
<1>3. CASE Shrink
  BY <1>3 DEF Shrink, GoesOn, link_fat, Becomes
<1>4. ASSUME NEW e \in BOOLEAN, MapExtend(e) PROVE GoesOn
  BY <1>4, ExtendGoesOn DEF MapExtend
<1>5. ASSUME NEW e \in BOOLEAN, Located(e) \/ Ended(e) \/ ShrinkFails(e) PROVE GoesOn
  BY <1>5, BecomesGoesOn DEF Located, Ended, ShrinkFails
<1>6. ASSUME NEW e \in BOOLEAN, NEW t \in BOOLEAN, Gathered(e, t) PROVE GoesOn
  <2>1. PICK d \in BOOLEAN : Drive(d) /\ d = (e \/ t)
    BY <1>6 DEF Gathered
  <2> QED BY <1>6, <2>1, BecomesGoesOn DEF Gathered
<1>7. ASSUME NEW e \in BOOLEAN, NEW t \in BOOLEAN, Full(e, t) PROVE GoesOn
  <2>1. PICK d \in BOOLEAN : Drive(d) /\ d = (e \/ t)
    BY <1>7 DEF Full
  <2>2. PICK cur : extendFails(cur, e)
    BY <1>7 DEF Full
  <2> QED BY <2>1, <2>2, ExtendGoesOn
<1>8. ASSUME NEW e \in BOOLEAN, Wipe(e) PROVE GoesOn
  BY <1>8, BecomesGoesOn DEF Wipe, link_fat
<1>9. ASSUME NEW e \in BOOLEAN, Shrunk(e) \/ Created(e) \/ Deleted(e) PROVE GoesOn
  <2>1. Drive(e) /\ Becomes(fat, e)
    BY <1>9 DEF Shrunk, Created, Deleted, dir_write, Becomes
  <2> QED BY <2>1, BecomesGoesOn
<1>10. ASSUME NEW e \in BOOLEAN, MadeDir(e) PROVE GoesOn
  BY <1>10, BecomesGoesOn DEF MadeDir, link_fat
<1>11. ASSUME NEW e \in BOOLEAN, NEW d \in Dirs, extend_dir(d, e) PROVE GoesOn
  BY <1>11, ExtendGoesOn DEF extend_dir
<1>12. ASSUME NEW e \in BOOLEAN, NEW g \in Files, Renamed(g, e) PROVE GoesOn
  BY <1>12, BecomesGoesOn DEF Renamed
<1> QED BY <1>1, <1>2, <1>3, <1>4, <1>5, <1>6, <1>7, <1>8, <1>9, <1>10, <1>11, <1>12 DEF Step

LEMMA RequestGoesOn ==
  ASSUME Request
  PROVE  GoesOn
<1>1. ASSUME NEW c, NEW x, Start(c, x) PROVE GoesOn
  BY <1>1 DEF Start, GoesOn
<1>2. ASSUME NEW f, dos_open(f) PROVE GoesOn
  BY <1>2 DEF dos_open, GoesOn
<1>3. ASSUME NEW f, Replace(f) \/ dos_delete(f) PROVE GoesOn
  BY <1>1, <1>3 DEF Replace, dos_delete
<1>4. ASSUME NEW f, NEW at, Create(f, at) \/ dos_rename(f, at) \/ dos_mkdir(f, at) PROVE GoesOn
  BY <1>1, <1>4 DEF Create, dos_rename, dos_mkdir
<1>5. ASSUME NEW s \in Slots, NEW commitonly \in BOOLEAN, NEW e \in BOOLEAN,
             dos_close(s, commitonly, e)
      PROVE  GoesOn
  <2>1. Drive(e) /\ Becomes(fat, e)
    BY <1>5 DEF dos_close, dir_write, Becomes
  <2> QED BY <2>1, BecomesGoesOn
<1>6. ASSUME NEW s, NEW p, SftSeek(s, p) PROVE GoesOn
  BY <1>6 DEF SftSeek, GoesOn
<1>7. ASSUME NEW s, NEW n, Read(s, n) \/ Write(s, n) PROVE GoesOn
  BY <1>1, <1>7 DEF Read, Write
<1>8. ASSUME NEW e \in BOOLEAN, dos_free(e) PROVE GoesOn
  BY <1>8, BecomesGoesOn DEF dos_free
<1>9. CASE ReadFails
  <2>1. PICK d \in BOOLEAN : Drive(d) /\ d = TRUE
    BY <1>9 DEF ReadFails
  <2> QED BY <1>9, <2>1, BecomesGoesOn DEF ReadFails
<1>10. CASE bpb_to_dpb
  BY <1>10 DEF bpb_to_dpb, GoesOn
<1> QED BY <1>2, <1>3, <1>4, <1>5, <1>6, <1>7, <1>8, <1>9, <1>10 DEF Request

\* Every step of a call keeps the labels, or new ones can be given.
LEMMA StepChains ==
  ASSUME FatInv, Exclusive, NEW own, NEW idx, NEW h, Labelled(own, idx, h), Step, ~damaged'
  PROVE  ChainInv'
<1>1. CASE ShrinkNothing
  BY <1>1, ShrinkNothingChains
<1>2. CASE Extended
  BY <1>2, ExtendedChains
<1>3. CASE Shrink
  BY <1>3, ShrinkChains
<1>4. ASSUME NEW e \in BOOLEAN, MapExtend(e) PROVE ChainInv'
  BY <1>4, MapExtendChains
<1>5. ASSUME NEW e \in BOOLEAN, Located(e) PROVE ChainInv'
  BY <1>5, LocatedChains
<1>6. ASSUME NEW e \in BOOLEAN, NEW t \in BOOLEAN, Gathered(e, t) PROVE ChainInv'
  BY <1>6, GatheredChains
<1>7. ASSUME NEW e \in BOOLEAN, Ended(e) PROVE ChainInv'
  BY <1>7, EndedChains
<1>8. ASSUME NEW e \in BOOLEAN, NEW t \in BOOLEAN, Full(e, t) PROVE ChainInv'
  BY <1>8, FullChains
<1>9. ASSUME NEW e \in BOOLEAN, ShrinkFails(e) PROVE ChainInv'
  BY <1>9, ShrinkFailsChains
<1>10. ASSUME NEW e \in BOOLEAN, Wipe(e) PROVE ChainInv'
  BY <1>10, WipeChains
<1>11. ASSUME NEW e \in BOOLEAN, Shrunk(e) PROVE ChainInv'
  BY <1>11, ShrunkChains
<1>12. ASSUME NEW e \in BOOLEAN, Created(e) PROVE ChainInv'
  BY <1>12, CreatedChains
<1>13. ASSUME NEW e \in BOOLEAN, Deleted(e) PROVE ChainInv'
  BY <1>13, DeletedChains
<1>14. ASSUME NEW e \in BOOLEAN, MadeDir(e) PROVE ChainInv'
  BY <1>14, MadeDirChains
<1>15. ASSUME NEW e \in BOOLEAN, NEW d \in Dirs, extend_dir(d, e) PROVE ChainInv'
  BY <1>15, ExtendDirChains
<1>16. ASSUME NEW e \in BOOLEAN, NEW g \in Files, Renamed(g, e) PROVE ChainInv'
  BY <1>16, RenamedChains
<1> QED BY <1>1, <1>2, <1>3, <1>4, <1>5, <1>6, <1>7, <1>8, <1>9, <1>10, <1>11, <1>12,
           <1>13, <1>14, <1>15, <1>16 DEF Step

\* So does every call of a program.
LEMMA RequestChains ==
  ASSUME FatInv, Exclusive, NEW own, NEW idx, NEW h, Labelled(own, idx, h), Request,
         ~damaged'
  PROVE  ChainInv'
<1>1. ASSUME NEW f \in Files, dos_open(f) PROVE ChainInv'
  BY <1>1, OpenChains
<1>2. ASSUME NEW f \in Files, Replace(f) PROVE ChainInv'
  BY <1>2, ReplaceChains
<1>3. ASSUME NEW f \in Files, NEW at \in alloc_find_free, Create(f, at) PROVE ChainInv'
  BY <1>3, CreateChains
<1>4. ASSUME NEW f \in Files, NEW at \in alloc_find_free, dos_rename(f, at) PROVE ChainInv'
  BY <1>4, RenameChains
<1>5. ASSUME NEW f \in Names, dos_delete(f) PROVE ChainInv'
  BY <1>5, DeleteChains
<1>6. ASSUME NEW d \in Dirs, NEW at \in alloc_find_free, dos_mkdir(d, at) PROVE ChainInv'
  BY <1>6, MkdirChains
<1>7. ASSUME NEW s \in Slots, NEW commitonly \in BOOLEAN, NEW e \in BOOLEAN,
             dos_close(s, commitonly, e)
      PROVE  ChainInv'
  BY <1>7, CloseChains
<1>8. ASSUME NEW s \in Slots, NEW p \in 0..MaxLen, SftSeek(s, p) PROVE ChainInv'
  BY <1>8, SeekChains
<1>9. ASSUME NEW s \in Slots, NEW n \in 1..MaxCount, Read(s, n) PROVE ChainInv'
  BY <1>9, ReadChains
<1>10. ASSUME NEW s \in Slots, NEW n \in 0..MaxCount, Write(s, n) PROVE ChainInv'
  BY <1>10, WriteChains
<1>11. CASE (\E e \in BOOLEAN : dos_free(e)) \/ ReadFails \/ bpb_to_dpb
  BY <1>11, FreeChains
<1> QED BY <1>1, <1>2, <1>3, <1>4, <1>5, <1>6, <1>7, <1>8, <1>9, <1>10, <1>11 DEF Request

LEMMA NextChains ==
  ASSUME FatInv, Exclusive, Quiet /\ ChainInv, [Next]_vars
  PROVE  (Quiet /\ ChainInv)'
<1>1. CASE Next
  <2>1. GoesOn
    BY <1>1, StepGoesOn, RequestGoesOn DEF Next
  <2>2. (damaged => damaged') /\ Quiet'
    BY <2>1, HistoryGrows DEF FatInv
  <2>3. CASE damaged'
    BY <2>2, <2>3 DEF ChainInv
  <2>4. CASE ~damaged'
    <3>1. PICK own, idx, h : Labelled(own, idx, h)
      BY <2>2, <2>4 DEF ChainInv
    <3> QED BY <1>1, <2>2, <2>4, <3>1, StepChains, RequestChains DEF Next
  <2> QED BY <2>3, <2>4
<1>2. CASE UNCHANGED vars
  BY <1>2 DEF vars, Quiet, ChainInv, Labelled
<1> QED BY <1>1, <1>2

LEMMA InitChains ==
  ASSUME Init
  PROVE  Quiet /\ ChainInv
<1>1. PICK own : own = [c \in Clusters |-> NoName]
  OBVIOUS
<1>2. PICK idx : idx = [c \in Clusters |-> 0]
  OBVIOUS
<1>3. PICK h : h = [f \in Names |-> FREE]
  OBVIOUS
<1>4. /\ \A c \in Clusters : own[c] = NoName /\ idx[c] = 0 /\ fat[c] = FREE
      /\ \A f \in Names : h[f] = FREE /\ dir[f] = NoEntry
      /\ \A s \in Slots : sft[s] = NoNode
      /\ fn = NoNode /\ call = NoCall /\ call.st = LAST
  BY <1>1, <1>2, <1>3, NothingFields DEF Init
<1>5. /\ own \in [Clusters -> Names \union {NoName}] /\ idx \in [Clusters -> Nat]
      /\ h \in [Names -> MaybeCluster]
  BY <1>1, <1>2, <1>3 DEF MaybeCluster
<1>6. FREE # BadLink
  BY DEF FREE, BadLink
<1>7. Chains(fat, own, idx, h, call.st, errors # 0)
  <2>1. LinksOK(fat)
    BY <1>4, <1>6, NamesFacts DEF LinksOK
  <2>2. LabelsOK(fat, own, idx, h)
    BY <1>4, <1>5, NamesFacts DEF LabelsOK
  <2>3. RestOK(fat, own, call.st, errors # 0)
    BY <1>4, NamesFacts DEF RestOK
  <2> QED BY <2>1, <2>2, <2>3 DEF Chains
<1>8. FilesOK(dir, sft, fn, call, own, idx, h)
  <2>1. HeadsAre(dir, sft, NoNode, NoCall, h)
    <3>1. \A f \in Names : /\ \A s \in Slots : sft[s].file = f => h[f] = sft[s].start
                           /\ Closed(sft, f) => h[f] = IF dir[f].used THEN dir[f].start ELSE FREE
      BY <1>4, NothingFields
    <3> QED BY <3>1, IdleHeads
  <2>2. SlotsOK(dir, sft, NoCall, own, idx)
    BY <1>4, NothingFields, NoFile, NumbersMore DEF SlotsOK
  <2> QED BY <1>4, <2>1, <2>2, NothingOK DEF FilesOK
<1> QED BY <1>7, <1>8 DEF Init, Quiet, ChainInv, Labelled

\* When programs use a file through one SFT entry at a time, the clusters can
\* be labelled as long as no changed sector has been dropped: every file has its
\* chain, from the place where the call that runs, the SFT or the directory says
\* that it starts (fatfs.c, fattab.c).  Only an error of the drive drops one.
THEOREM ChainInvariant ==
  ASSUME Exclusive
  PROVE  Spec => [](FatInv /\ Quiet /\ ChainInv)
<1>1. Init => Quiet /\ ChainInv
  BY InitChains
<1>2. FatInv /\ (Quiet /\ ChainInv) /\ [Next]_vars => (Quiet /\ ChainInv)'
  BY NextChains
<1> QED BY <1>1, <1>2, Invariant, PTL DEF Spec

-----------------------------------------------------------------------------
(* What the labels say *)

\* The start of a chain, as NoCrossLinks and NothingLost see it, is the one of
\* the labels.
LEMMA StartsAre ==
  ASSUME NEW own, NEW idx, NEW h, Labelled(own, idx, h), NEW f \in Names
  PROVE  Starts(f) \subseteq {FREE, h[f]} /\ (h[f] # FREE => h[f] \in Starts(f))
<1>1. OpenSlots(f) = {} => Closed(sft, f)
  BY DEF OpenSlots, Closed
<1>2. CASE fn.file = f
  <2>1. h[f] = fn.start
    BY <1>2 DEF Labelled, FilesOK, HeadsAre
  <2> QED BY <1>2, <2>1 DEF Starts, InCall
<1>3. CASE fn.file # f /\ Removing(call, f)
  <2>1. h[f] = FREE
    BY <1>3 DEF Labelled, FilesOK, HeadsAre
  <2> QED BY <1>3, <2>1 DEF Starts, InCall, Removing
<1>4. CASE fn.file # f /\ ~Removing(call, f)
  <2>1. /\ \A s \in Slots : sft[s].file = f => h[f] = sft[s].start
        /\ Closed(sft, f) => h[f] = IF dir[f].used THEN dir[f].start ELSE FREE
    BY <1>4 DEF Labelled, FilesOK, HeadsAre
  <2>2. Starts(f) = IF OpenSlots(f) # {} THEN {sft[s].start : s \in OpenSlots(f)}
                    ELSE IF dir[f].used THEN {dir[f].start} ELSE {}
    BY <1>4 DEF Starts, InCall, Removing
  <2> QED BY <1>1, <2>1, <2>2 DEF OpenSlots
<1> QED BY <1>2, <1>3, <1>4

LEMMA LabelledNoCrossLinks ==
  ASSUME NEW own, NEW idx, NEW h, Labelled(own, idx, h)
  PROVE  NoCrossLinks
<1> DEFINE starts == [f \in Names |-> Starts(f)]
           heads == (UNION {starts[f] : f \in Names}) \union {call.st}
           next == {c \in Clusters : fat[c] \in Clusters}
<1>1. /\ LinksOK(fat) /\ LabelsOK(fat, own, idx, h) /\ RestOK(fat, own, call.st, errors # 0)
      /\ idx \in [Clusters -> Nat] /\ h \in [Names -> MaybeCluster]
  BY DEF Labelled, Chains, LabelsOK
<1>2. \A f \in Names : starts[f] \subseteq {FREE, h[f]}
  BY StartsAre
<1>3. ASSUME NEW f \in Names, h[f] \in Clusters
      PROVE  /\ own[h[f]] = f /\ fat[h[f]] # FREE
             /\ \A c \in Clusters : fat[c] # h[f]
  <2>1. own[h[f]] = f /\ idx[h[f]] = 0
    BY <1>1, <1>3, NamesFacts DEF LabelsOK
  <2>2. fat[h[f]] # FREE
    BY <1>1, <1>3, <2>1 DEF LabelsOK
  <2>3. ASSUME NEW c \in Clusters, fat[c] = h[f] PROVE FALSE
    <3>1. own[c] = f /\ idx[h[f]] = idx[c] + 1
      BY <1>1, <1>3, <2>1, <2>3 DEF LabelsOK
    <3>2. idx[c] \in Nat
      BY <1>1
    <3> QED BY <2>1, <3>1, <3>2
  <2> QED BY <2>1, <2>2, <2>3
<1>4. \A c \in heads : c \in Clusters => fat[c] # FREE /\ \A d \in Clusters : fat[d] # c
  <2> SUFFICES ASSUME NEW c \in heads, c \in Clusters
               PROVE  fat[c] # FREE /\ \A d \in Clusters : fat[d] # c
    OBVIOUS
  <2>1. CASE c = call.st
    BY <1>1, <2>1 DEF RestOK
  <2>2. ASSUME NEW f \in Names, c \in starts[f] PROVE fat[c] # FREE /\ \A d \in Clusters : fat[d] # c
    <3>1. c = h[f]
      BY <1>2, <2>2, NamesFacts
    <3> QED BY <1>3, <3>1
  <2>3. c = call.st \/ \E f \in Names : c \in starts[f]
    <3> HIDE DEF starts
    <3> QED OBVIOUS
  <2> QED BY <2>1, <2>2, <2>3
<1>5. \A f, g \in Names : f # g => starts[f] \intersect starts[g] \subseteq {FREE}
  <2> SUFFICES ASSUME NEW f \in Names, NEW g \in Names, f # g,
                      NEW c \in starts[f] \intersect starts[g], c # FREE
               PROVE  FALSE
    OBVIOUS
  <2>1. c = h[f] /\ c = h[g]
    BY <1>2
  <2>2. c \in Clusters
    BY <1>1, <2>1 DEF MaybeCluster
  <2> QED BY <1>3, <2>1, <2>2
<1>6. \A f \in Names : call.st \in Clusters => call.st \notin starts[f]
  <2> SUFFICES ASSUME NEW f \in Names, call.st \in Clusters, call.st \in starts[f] PROVE FALSE
    OBVIOUS
  <2>1. call.st = h[f]
    BY <1>2, NamesFacts
  <2> QED BY <1>1, <1>3, <2>1, NamesFacts DEF RestOK
<1> HIDE DEF starts
<1>7. /\ \A c, d \in next : fat[c] = fat[d] => c = d
      /\ \A c \in Clusters : fat[c] # BadLink
      /\ \A c \in next : fat[c] \notin heads /\ fat[fat[c]] # FREE
      /\ \A c \in heads : c \in Clusters => fat[c] # FREE
  BY <1>1, <1>4 DEF LinksOK
<1> QED BY <1>5, <1>6, <1>7 DEF NoCrossLinks, starts

LEMMA LabelledNothingLost ==
  ASSUME NEW own, NEW idx, NEW h, Labelled(own, idx, h), errors = 0,
         NEW c \in Clusters, fat[c] # FREE
  PROVE  c \in Heads \union Successors
<1>1. /\ LabelsOK(fat, own, idx, h) /\ RestOK(fat, own, call.st, errors # 0)
      /\ idx \in [Clusters -> Nat] /\ own[c] \in Names \union {NoName}
  BY DEF Labelled, Chains, LabelsOK
<1>2. (\E d \in Clusters : fat[d] = c) => c \in Successors
  BY DEF Successors
<1>3. CASE own[c] = NoName
  <2>1. c = call.st \/ \E d \in Clusters : fat[d] = c
    BY <1>1, <1>3 DEF RestOK
  <2>2. call.st \in Heads
    BY Zenon DEF Heads
  <2> QED BY <1>2, <2>1, <2>2
<1>4. CASE own[c] \in Names /\ idx[c] > 0
  BY <1>1, <1>2, <1>4 DEF LabelsOK
<1>5. CASE own[c] \in Names /\ idx[c] = 0
  <2>1. c = h[own[c]]
    BY <1>1, <1>5 DEF LabelsOK
  <2>2. h[own[c]] # FREE
    BY <2>1, NamesFacts
  <2>3. c \in Starts(own[c])
    BY <1>5, <2>1, <2>2, StartsAre
  <2> QED BY <1>5, <2>3 DEF Heads
<1>6. idx[c] \in Nat
  BY <1>1
<1> QED BY <1>1, <1>3, <1>4, <1>5, <1>6

\* The chain of a file has all of its clusters.
LEMMA ChainHas ==
  ASSUME fat \in Table, NEW own, NEW idx, NEW h, NEW st, NEW lossy,
         Chains(fat, own, idx, h, st, lossy), NEW c \in Clusters, own[c] \in Names, idx[c] <= Size
  PROVE  /\ Cardinality(ChainOf(h[own[c]])) \in Nat
         /\ idx[c] + 1 <= Cardinality(ChainOf(h[own[c]]))
<1> DEFINE f == own[c]
           N == Nth(h[f])
           T == ChainOf(h[f])
           S == 0..idx[c]
           m == [j \in S |-> N[j]]
<1>1. idx[c] \in Nat /\ LabelsOK(fat, own, idx, h) /\ Size \in Nat
  BY Numbers DEF Chains, LabelsOK
<1>2. T = {N[i] : i \in 0..Size} \intersect Clusters
  BY DEF ChainOf
<1>3. IsFiniteSet(T) /\ Cardinality(T) \in Nat
  <2>1. IsFiniteSet(Clusters)
    BY <1>1, FS_Interval DEF Clusters
  <2>2. IsFiniteSet(T)
    BY <1>2, <2>1, FS_Subset
  <2> QED BY <2>2, FS_CardinalityType
<1>4. \A j \in S : N[j] \in Clusters /\ idx[N[j]] = j
  <2> SUFFICES ASSUME NEW j \in S PROVE N[j] \in Clusters /\ idx[N[j]] = j
    OBVIOUS
  <2>1. j \in Nat /\ j <= idx[c]
    BY <1>1
  <2>2. PICK d \in Clusters : own[d] = f /\ idx[d] = j
    BY <1>1, <2>1, Below
  <2>3. idx[d] <= Size
    BY <1>1, <2>1, <2>2
  <2>4. \A b \in Clusters : own[b] = f /\ idx[b] <= Size => N[idx[b]] = b
    BY Reaches
  <2> QED BY <2>2, <2>3, <2>4
<1>5. S \subseteq 0..Size
  BY <1>1
<1> HIDE DEF N, T, f
<1>6. m \in Injection(S, T)
  <2>1. m \in [S -> T]
    BY <1>2, <1>4, <1>5
  <2>2. \A i, j \in S : m[i] = m[j] => i = j
    BY <1>4
  <2> QED BY <2>1, <2>2 DEF Injection, IsInjective
<1>7. Cardinality(S) <= Cardinality(T)
  BY <1>3, <1>6, FS_Injection
<1>8. Cardinality(S) = idx[c] + 1
  BY <1>1, FS_Interval
<1> QED BY <1>3, <1>7, <1>8 DEF T, f

LEMMA NothingCovers == Covers(FREE, 0)
<1>1. IsFiniteSet(Clusters) /\ CS \in Nat
  BY Numbers, NumbersMore, FS_Interval DEF Clusters
<1>2. ChainOf(FREE) \subseteq Clusters
  BY DEF ChainOf
<1>3. Cardinality(ChainOf(FREE)) \in Nat
  BY <1>1, <1>2, FS_Subset, FS_CardinalityType
<1>4. PICK k \in Nat : k = Cardinality(ChainOf(FREE))
  BY <1>3
<1>5. 0 <= CS * k
  BY <1>1
<1> QED BY <1>4, <1>5 DEF Covers

LEMMA ChainCovers ==
  ASSUME fat \in Table, NEW own, NEW idx, NEW h, NEW st, NEW lossy,
         Chains(fat, own, idx, h, st, lossy), NEW f \in Names, NEW n \in Nat, Covered(f, n, own, idx)
  PROVE  Covers(h[f], n)
<1>1. idx \in [Clusters -> Nat] /\ Size \in Nat /\ CS \in Nat
  BY Numbers, NumbersMore DEF Chains, LabelsOK
<1>2. Cardinality(ChainOf(h[f])) \in Nat
  <2>1. IsFiniteSet(Clusters)
    BY <1>1, FS_Interval DEF Clusters
  <2>2. ChainOf(h[f]) \subseteq Clusters
    BY DEF ChainOf
  <2> QED BY <2>1, <2>2, FS_Subset, FS_CardinalityType
<1>3. PICK k \in Nat : k = Cardinality(ChainOf(h[f]))
  BY <1>2
<1>4. CASE n = 0
  <2>1. 0 <= CS * k
    BY <1>1
  <2> QED BY <1>3, <1>4, <2>1 DEF Covers
<1>5. CASE n # 0
  <2>1. PICK c \in Clusters : own[c] = f /\ idx[c] <= Size /\ n <= CS * (idx[c] + 1)
    BY <1>5 DEF Covered
  <2>2. idx[c] + 1 <= k
    BY <1>3, <2>1, ChainHas
  <2>3. PICK i \in Nat : i = idx[c] + 1
    BY <1>1
  <2>4. CS * i <= CS * k
    BY ONLY <1>1, <2>2, <2>3, k \in Nat, i \in Nat
  <2>5. n <= CS * i /\ CS * i \in Nat /\ CS * k \in Nat
    BY <1>1, <2>1, <2>3
  <2> QED BY <1>3, <2>4, <2>5 DEF Covers
<1> QED BY <1>4, <1>5

\* What the labels say of the SFT and of the directory while no call runs.
LEMMA LabelledPlaces ==
  ASSUME FatInv, NEW own, NEW idx, NEW h, Labelled(own, idx, h), Idle, NEW s \in Slots
  PROVE  /\ sft[s].cur = Nth(sft[s].start)[sft[s].rel]
         /\ Covers(sft[s].start, sft[s].len)
<1> DEFINE x == sft[s]
<1>1. /\ FilesOK(dir, sft, NoNode, NoCall, own, idx, h) /\ sft \in SFT /\ fat \in Table
      /\ Chains(fat, own, idx, h, LAST, errors # 0) /\ idx \in [Clusters -> Nat]
  BY WhenIdle, InvParts DEF Labelled, Chains, LabelsOK
<1>2. x \in Node /\ x.file \in Files \union {NoName} /\ x.cur \in MaybeCluster
      /\ x.rel \in 0..Size /\ x.len \in Nat
  BY <1>1, NodeFields DEF SFT, Node
<1>3. Nth(FREE)[0] = FREE
  BY <1>1, NumbersMore, NthType
<1>4. CASE x.file = NoName
  <2>1. x.start = FREE /\ x.cur = FREE /\ x.rel = 0 /\ x.len = 0
    BY <1>1, <1>4, NothingFields DEF FilesOK, SlotsOK
  <2>2. Covers(FREE, 0)
    BY NothingCovers
  <2> QED BY <1>3, <2>1, <2>2
<1>5. CASE x.file \in Files
  <2>1. Sound(x, own, idx) /\ x.file \in Names
    BY <1>1, <1>5, NothingFields, NumbersMore DEF FilesOK, SlotsOK, Cutting
  <2>2. h[x.file] = x.start
    BY <1>1, <2>1, IdleHeads DEF FilesOK
  <2>3. Covers(x.start, x.len)
    BY <1>1, <1>2, <2>1, <2>2, ChainCovers DEF Sound
  <2>4. CASE x.start = FREE
    BY <1>3, <2>1, <2>3, <2>4 DEF Sound, OnChain
  <2>5. CASE x.start # FREE
    <3>1. x.cur \in Clusters /\ own[x.cur] = x.file /\ idx[x.cur] = x.rel
      BY <1>2, <2>1, <2>5 DEF Sound, OnChain, MaybeCluster
    <3>2. idx[x.cur] <= Size
      BY <1>2, <3>1
    <3>3. \A c \in Clusters : own[c] = x.file /\ idx[c] <= Size => Nth(h[x.file])[idx[c]] = c
      BY <1>1, <2>1, Reaches
    <3> QED BY <2>2, <2>3, <3>1, <3>2, <3>3
  <2> QED BY <2>4, <2>5
<1> QED BY <1>2, <1>4, <1>5

LEMMA LabelledLengths ==
  ASSUME FatInv, NEW own, NEW idx, NEW h, Labelled(own, idx, h), Idle,
         NEW f \in Files, dir[f].used, OpenSlots(f) = {}
  PROVE  Covers(dir[f].start, dir[f].len)
<1>1. /\ FilesOK(dir, sft, NoNode, NoCall, own, idx, h) /\ dir \in Directory /\ fat \in Table
      /\ Chains(fat, own, idx, h, LAST, errors # 0) /\ f \in Names
  BY WhenIdle, InvParts, NumbersMore
<1>2. Closed(sft, f) /\ ~Removing(NoCall, f)
  BY NothingFields DEF OpenSlots, Closed, Removing
<1>3. Covered(f, dir[f].len, own, idx)
  BY <1>1, <1>2 DEF FilesOK, SlotsOK
<1>4. h[f] = dir[f].start
  BY <1>1, <1>2, IdleHeads DEF FilesOK
<1>5. dir[f].len \in Nat
  BY <1>1, NumbersMore DEF Directory, Entry
<1> QED BY <1>1, <1>3, <1>4, <1>5, ChainCovers

-----------------------------------------------------------------------------
(* The theorems *)

\* No cluster belongs to two chains, wherever a call stops because a sector of the
\* table cannot be read or linked: extend marks the new cluster before it links
\* it, wipe_out and shrink_file cut a chain before they free it.  As long as no
\* failed write has dropped changes of the table (blockio.c:335).
THEOREM AlwaysNoCrossLinks ==
  ASSUME Exclusive
  PROVE  Spec => []NoCrossLinks
<1>1. ChainInv => NoCrossLinks
  <2>1. CASE damaged
    BY <2>1 DEF NoCrossLinks
  <2>2. CASE ~damaged
    BY <2>2, LabelledNoCrossLinks DEF ChainInv
  <2> QED BY <2>1, <2>2
<1> QED BY <1>1, ChainInvariant, PTL

\* While the drive works no cluster is lost: every cluster that is not free is
\* reached from the directory, the SFT or the call that runs.
THEOREM AlwaysNothingLost ==
  ASSUME Exclusive
  PROVE  Spec => []NothingLost
<1>1. Quiet /\ ChainInv => NothingLost
  BY LabelledNothingLost DEF Quiet, ChainInv, NothingLost
<1> QED BY <1>1, ChainInvariant, PTL

\* The cluster that an SFT entry remembers is the one with the number that it
\* remembers, so that map_cluster may go on from there.
THEOREM AlwaysSftOnChain ==
  ASSUME Exclusive
  PROVE  Spec => []SftOnChain
<1>1. FatInv /\ ChainInv => SftOnChain
  BY LabelledPlaces DEF ChainInv, SftOnChain
<1> QED BY <1>1, ChainInvariant, PTL

\* The chain of a file, open or closed, covers its length: neither a full disk
\* nor a transfer that stops half-way leaves a length beyond the last cluster, as
\* long as no changed sector has been dropped.
THEOREM AlwaysLengthCovered ==
  ASSUME Exclusive
  PROVE  Spec => []LengthCovered
<1>1. FatInv /\ ChainInv => LengthCovered
  BY LabelledPlaces, LabelledLengths DEF ChainInv, LengthCovered
<1> QED BY <1>1, ChainInvariant, PTL
=============================================================================
