----------------------------- MODULE LockProofs -----------------------------
(***************************************************************************)
(* Proofs about the handles, the SFT and the locks of Files and Share: no  *)
(* SFT entry that a handle refers to is used for another file, the entries *)
(* of SHARE are the open files of the kernel, and what lock_unlock and     *)
(* close_file ensure about locked regions.                                 *)
(*                                                                         *)
(* DosSetFattr closes SFT entries behind the handles, and access_check     *)
(* frees the entry of a file that stays open: the run files_entry shows    *)
(* what follows of the latter.  The theorems are about programs that do    *)
(* not change attributes (AttrFiles = {}) and, where they need it, are not *)
(* refused a transfer (Transfers = {}).                                    *)
(***************************************************************************)
EXTENDS FilesProofs

-----------------------------------------------------------------------------
(* Counting *)

Bound(S, n) == IsFiniteSet(S) /\ Cardinality(S) <= n

LEMMA BoundLess ==
  ASSUME NEW S, NEW n \in Nat, Bound(S, n), NEW T \in SUBSET S, NEW m \in Nat, n <= m
  PROVE  Bound(T, m)
<1>1. /\ IsFiniteSet(T) /\ Cardinality(T) <= Cardinality(S)
      /\ Cardinality(T) \in Nat /\ Cardinality(S) \in Nat
  BY FS_Subset, FS_CardinalityType DEF Bound
<1> QED BY <1>1 DEF Bound

LEMMA BoundMore ==
  ASSUME NEW S, NEW n \in Nat, Bound(S, n), NEW U, NEW k \in Nat, Bound(U, k),
         NEW T \in SUBSET (S \cup U)
  PROVE  Bound(T, n + k)
<1>1. /\ IsFiniteSet(S) /\ IsFiniteSet(U) /\ IsFiniteSet(S \cap U)
      /\ Cardinality(S) \in Nat /\ Cardinality(U) \in Nat /\ Cardinality(S \cap U) \in Nat
  BY FS_Subset, FS_CardinalityType DEF Bound
<1>2. /\ IsFiniteSet(S \cup U) /\ Cardinality(S \cup U) \in Nat
      /\ Cardinality(S \cup U) = Cardinality(S) + Cardinality(U) - Cardinality(S \cap U)
  BY <1>1, FS_Union, FS_CardinalityType
<1>3. Bound(S \cup U, n + k)
  BY <1>1, <1>2 DEF Bound
<1> QED BY <1>3, BoundLess

LEMMA BoundMinus ==
  ASSUME NEW S, NEW n \in Nat, Bound(S, n), NEW x \in S, NEW T \in SUBSET (S \ {x})
  PROVE  n # 0 /\ Bound(T, n - 1)
<1>1. /\ IsFiniteSet(S \ {x}) /\ Cardinality(S \ {x}) = Cardinality(S) - 1
      /\ Cardinality(S) \in Nat /\ Cardinality(S \ {x}) \in Nat
  BY FS_RemoveElement, FS_CardinalityType DEF Bound
<1>2. n - 1 \in Nat /\ Bound(S \ {x}, n - 1)
  BY <1>1 DEF Bound
<1> QED BY <1>2, BoundLess

LEMMA BoundOne ==
  ASSUME NEW x
  PROVE  Bound({x}, 1)
BY FS_Singleton DEF Bound

LEMMA BoundZero ==
  ASSUME NEW S, Bound(S, 0)
  PROVE  S = {}
BY FS_EmptySet, FS_CardinalityType DEF Bound

(* The handle h of the current process becomes v. *)
HandleSet(h, v) ==
  \A q \in Psp, k \in Handles :
    ps_filetab'[q][k] = IF q = cu_psp /\ k = h THEN v ELSE ps_filetab[q][k]

LEMMA RefsSet ==
  ASSUME NEW h, NEW v, HandleSet(h, v), NEW u
  PROVE  /\ v = u => References(u)' \subseteq References(u) \cup {<<cu_psp, h>>}
         /\ v # u => References(u)' \subseteq References(u) \ {<<cu_psp, h>>}
<1>1. References(u)' = {x \in Psp \X Handles : ps_filetab'[x[1]][x[2]] = u}
  BY DEF References, Handles
<1>2. ASSUME NEW x \in References(u)'
      PROVE  /\ x \in Psp \X Handles /\ x[1] \in Psp /\ x[2] \in Handles /\ x = <<x[1], x[2]>>
             /\ u = IF x[1] = cu_psp /\ x[2] = h THEN v ELSE ps_filetab[x[1]][x[2]]
  BY <1>1, <1>2 DEF HandleSet
<1>3. ASSUME NEW x \in References(u)', ~(x[1] = cu_psp /\ x[2] = h)
      PROVE  x \in References(u) \ {<<cu_psp, h>>}
  BY <1>2, <1>3 DEF References
<1>4. ASSUME NEW x \in References(u)', x[1] = cu_psp /\ x[2] = h
      PROVE  x = <<cu_psp, h>> /\ u = v
  BY <1>2, <1>4
<1> QED BY <1>3, <1>4

LEMMA SetHandleSets ==
  ASSUME TypeOK, NEW h \in Handles, NEW v, ps_filetab' = SetHandle(h, v)
  PROVE  HandleSet(h, v)
BY TypeParts DEF SetHandle, HandleSet, HandlesTyped, ProcTyped

(* The handles never outnumber the count, and are finitely many. *)
Counted == \A s \in Sfts : Bound(References(s), sft_count[s])

LEMMA CountIs ==
  ASSUME TypeOK, NEW s \in Sfts
  PROVE  sft_count[s] \in Nat
BY TypeParts, FilesAssumption DEF CountTyped

LEMMA Refers ==
  ASSUME TypeOK, NEW h \in Handles
  PROVE  <<cu_psp, h>> \in References(filetab[h])
BY TypeParts DEF References, filetab, ProcTyped

LEMMA CountsAre ==
  ASSUME NEW S, NEW s \in Sfts
  PROVE  CountsAfter(S)[s] = sft_count[s] - (IF s \in S THEN 1 ELSE 0)
BY DEF CountsAfter

(* A handle is closed, with its SFT entry or without. *)
LEMMA CloseCounted ==
  ASSUME TypeOK, Counted, NEW h \in Handles, get_sft(h), HandleSet(h, NoSft),
         \A s \in Sfts : sft_count'[s] = sft_count[s] \/ sft_count'[s] = CountsAfter({filetab[h]})[s]
  PROVE  Counted'
<1> SUFFICES ASSUME NEW s \in Sfts PROVE Bound(References(s)', sft_count'[s])
  BY DEF Counted, Sfts
<1>1. sft_count[s] \in Nat /\ Bound(References(s), sft_count[s])
  BY CountIs DEF Counted
<1>2. NoSft # s
  BY FilesAssumption
<1>3. References(s)' \subseteq References(s) \ {<<cu_psp, h>>}
  BY <1>2, RefsSet
<1>4. CASE sft_count'[s] = sft_count[s]
  BY <1>1, <1>3, <1>4, BoundLess
<1>5. CASE sft_count'[s] # sft_count[s]
  <2>1. s = filetab[h] /\ sft_count'[s] = sft_count[s] - 1
    BY <1>1, <1>5, CountsAre
  <2>2. <<cu_psp, h>> \in References(s)
    BY <2>1, Refers
  <2> QED BY <1>1, <1>3, <2>1, <2>2, BoundMinus
<1> QED BY <1>4, <1>5

LEMMA OpenCounted ==
  ASSUME TypeOK, Counted, NEW f, NEW fl, DosOpen(f, fl)
  PROVE  Counted'
<1> DEFINE t == Min(FreeSfts)
           h == Min(FreeHndls)
<1>1. t \in Sfts /\ sft_count[t] = 0
  <2>1. FreeSfts \in SUBSET Nat /\ FreeSfts # {}
    BY FilesAssumption DEF FreeSfts, Sfts, DosOpen
  <2> QED BY <2>1, MinOfNat DEF FreeSfts
<1>2. h \in Handles
  BY FreeHndl DEF DosOpen
<1>3. ps_filetab' = SetHandle(h, t) /\ sft_count' = [sft_count EXCEPT ![t] = 1]
  BY DEF DosOpen
<1> HIDE DEF t, h
<1>4. HandleSet(h, t)
  BY <1>2, <1>3, SetHandleSets
<1> SUFFICES ASSUME NEW s \in Sfts PROVE Bound(References(s)', sft_count'[s])
  BY DEF Counted, Sfts
<1>5. sft_count[s] \in Nat /\ Bound(References(s), sft_count[s])
  BY CountIs DEF Counted
<1>6. sft_count'[s] = IF s = t THEN 1 ELSE sft_count[s]
  BY <1>3, TypeParts DEF CountTyped
<1>7. CASE s = t
  <2>1. References(s)' \subseteq References(s) \cup {<<cu_psp, h>>}
    BY <1>4, <1>7, RefsSet
  <2>2. Bound({<<cu_psp, h>>}, 1)
    BY BoundOne
  <2>3. Bound(References(s)', 0 + 1)
    BY <1>1, <1>5, <1>7, <2>1, <2>2, BoundMore
  <2> QED BY <1>6, <1>7, <2>3
<1>8. CASE s # t
  <2>1. References(s)' \subseteq References(s)
    BY <1>4, <1>8, RefsSet
  <2> QED BY <1>5, <1>6, <1>8, <2>1, BoundLess
<1> QED BY <1>7, <1>8

(* What DosForceDup does to the handle new, when it succeeds. *)
LEMMA DupSets ==
  ASSUME TypeOK, NEW old \in Handles, NEW new \in Handles,
         LET closed == SetHandle(new, NoSft)
         IN  ps_filetab' = [closed EXCEPT ![cu_psp][new] = closed[cu_psp][old]]
  PROVE  HandleSet(new, IF old = new THEN NoSft ELSE filetab[old])
<1> DEFINE closed == SetHandle(new, NoSft)
<1>1. closed \in [Psp -> [Handles -> Sfts \cup {NoSft}]] /\ cu_psp \in Psp
  BY SetHandleType, TypeParts DEF ProcTyped
<1>2. \A q \in Psp, k \in Handles :
        closed[q][k] = IF q = cu_psp /\ k = new THEN NoSft ELSE ps_filetab[q][k]
  BY TypeParts DEF SetHandle, HandlesTyped, ProcTyped
<1>3. ps_filetab' = [closed EXCEPT ![cu_psp][new] = closed[cu_psp][old]]
  OBVIOUS
<1> HIDE DEF closed
<1>4. \A q \in Psp, k \in Handles :
        ps_filetab'[q][k] = IF q = cu_psp /\ k = new THEN closed[cu_psp][old] ELSE closed[q][k]
  BY <1>1, <1>3
<1> QED BY <1>1, <1>2, <1>4 DEF HandleSet, filetab

LEMMA DupCounted ==
  ASSUME TypeOK, Counted, NEW old \in Handles, NEW new \in Handles, DosForceDup(old, new)
  PROVE  Counted'
<1> DEFINE s == filetab[old]
           t == filetab[new]
           p == <<cu_psp, new>>
<1>1. s \in Sfts /\ sft_count[s] # 0 /\ get_sft(old) /\ s # NoSft
  BY GetSft, FilesAssumption DEF DosForceDup
<1>2. \A u \in Sfts : sft_count[u] \in Nat /\ Bound(References(u), sft_count[u]) /\ u # NoSft
  BY CountIs, FilesAssumption DEF Counted
<1>3. ASSUME NEW u \in Sfts, u = s, NEW k \in Nat, k = sft_count[u] + 1,
             References(u)' \subseteq References(u) \cup {p}
      PROVE  Bound(References(u)', k)
  <2>1. Bound({p}, 1)
    BY BoundOne
  <2> QED BY <1>2, <1>3, <2>1, BoundMore
<1>4. CASE /\ t = NoSft
           /\ ps_filetab' = SetHandle(new, s)
           /\ sft_count' = [sft_count EXCEPT ![s] = @ + 1]
  <2>1. HandleSet(new, s)
    BY <1>4, SetHandleSets
  <2> SUFFICES ASSUME NEW u \in Sfts PROVE Bound(References(u)', sft_count'[u])
    BY DEF Counted, Sfts
  <2>2. sft_count'[u] = IF u = s THEN sft_count[u] + 1 ELSE sft_count[u]
    BY <1>1, <1>4, TypeParts DEF CountTyped
  <2>3. CASE u = s
    <3>1. References(u)' \subseteq References(u) \cup {p}
      BY <2>1, <2>3, RefsSet
    <3>2. sft_count[u] + 1 \in Nat
      BY <1>2
    <3> QED BY <1>3, <2>2, <2>3, <3>1, <3>2
  <2>4. CASE u # s
    <3>1. References(u)' \subseteq References(u)
      BY <2>1, <2>4, RefsSet
    <3> QED BY <1>2, <2>2, <2>4, <3>1, BoundLess
  <2> QED BY <2>3, <2>4
<1>5. CASE /\ get_sft(new)
           /\ LET closed == SetHandle(new, NoSft)
              IN  ps_filetab' = [closed EXCEPT ![cu_psp][new] = closed[cu_psp][old]]
           /\ sft_count' = [CountsAfter({t}) EXCEPT ![s] = @ + 1]
  <2> DEFINE v == IF old = new THEN NoSft ELSE s
  <2>1. HandleSet(new, v)
    BY <1>5, DupSets
  <2>2. p \in References(t) /\ t \in Sfts
    BY <1>5, Refers, GetSft
  <2> HIDE DEF t
  <2> SUFFICES ASSUME NEW u \in Sfts PROVE Bound(References(u)', sft_count'[u])
    BY DEF Counted, Sfts
  <2>3. sft_count'[u] = sft_count[u] - (IF u = t THEN 1 ELSE 0) + (IF u = s THEN 1 ELSE 0)
    <3>1. CountsAfter({t})[u] = sft_count[u] - (IF u = t THEN 1 ELSE 0)
      BY CountsAre
    <3>2. sft_count'[u] = IF u = s THEN CountsAfter({t})[u] + 1 ELSE CountsAfter({t})[u]
      BY <1>1, <1>5 DEF CountsAfter, t
    <3> QED BY <1>2, <3>1, <3>2
  <2>4. References(u)' \subseteq References(u) \cup {p}
    BY <2>1, RefsSet
  <2>5. u # s => References(u)' \subseteq References(u) \ {p}
    BY <1>2, <2>1, RefsSet
  <2> HIDE DEF p, v, s
  <2>6. CASE u = s /\ u = t
    <3>1. References(u)' \subseteq References(u)
      BY <2>2, <2>4, <2>6
    <3>2. sft_count'[u] = sft_count[u]
      BY <1>2, <2>3, <2>6
    <3> QED BY <1>2, <3>1, <3>2, BoundLess
  <2>7. CASE u = s /\ u # t
    BY <1>2, <1>3, <2>3, <2>4, <2>7
  <2>8. CASE u # s /\ u = t
    <3>1. sft_count'[u] = sft_count[u] - 1
      BY <1>2, <2>3, <2>8
    <3> QED BY <1>2, <2>2, <2>5, <2>8, <3>1, BoundMinus
  <2>9. CASE u # s /\ u # t
    <3>1. sft_count'[u] = sft_count[u]
      BY <1>2, <2>3, <2>9
    <3> QED BY <1>2, <2>5, <2>9, <3>1, BoundLess
  <2> QED BY <2>6, <2>7, <2>8, <2>9
<1>6. CASE get_sft(new) /\ ps_filetab' = SetHandle(new, NoSft) /\ UNCHANGED sftVars
  <2>1. HandleSet(new, NoSft)
    BY <1>6, SetHandleSets
  <2> QED BY <1>6, <2>1, CloseCounted DEF sftVars
<1> QED BY <1>4, <1>5, <1>6 DEF DosForceDup

LEMMA ExecCounted ==
  ASSUME TypeOK, Counted, NEW ps \in Psp, Exec(ps)
  PROVE  Counted'
<1> DEFINE H(s) == {h \in Handles : CloneHandle(h) /\ filetab[h] = s}
<1> SUFFICES ASSUME NEW s \in Sfts PROVE Bound(References(s)', sft_count'[s])
  BY DEF Counted, Sfts
<1>1. sft_count[s] \in Nat /\ Bound(References(s), sft_count[s]) /\ s # NoSft
  BY CountIs, FilesAssumption DEF Counted
<1>2. IsFiniteSet(H(s)) /\ Cardinality(H(s)) \in Nat
  <2>1. IsFiniteSet(Handles)
    BY FilesAssumption, FS_Interval DEF Handles
  <2>2. H(s) \subseteq Handles
    OBVIOUS
  <2> HIDE DEF H
  <2> QED BY <2>1, <2>2, FS_Subset, FS_CardinalityType
<1>3. sft_count'[s] = sft_count[s] + Cardinality(H(s))
  BY DEF Exec
<1>4. \A q \in Psp, k \in Handles :
        ps_filetab'[q][k] = IF q = ps THEN (IF CloneHandle(k) THEN filetab[k] ELSE NoSft)
                            ELSE ps_filetab[q][k]
  BY TypeParts DEF Exec, HandlesTyped
<1>5. References(s)' \subseteq References(s) \cup ({ps} \X H(s))
  <2>1. References(s)' = {x \in Psp \X Handles : ps_filetab'[x[1]][x[2]] = s}
    BY DEF References, Handles
  <2> SUFFICES ASSUME NEW x \in References(s)' PROVE x \in References(s) \cup ({ps} \X H(s))
    OBVIOUS
  <2>2. x \in Psp \X Handles /\ x[1] \in Psp /\ x[2] \in Handles /\ ps_filetab'[x[1]][x[2]] = s
    BY <2>1
  <2>3. CASE x[1] = ps
    BY <1>1, <1>4, <2>2, <2>3
  <2>4. CASE x[1] # ps
    BY <1>4, <2>2, <2>4 DEF References
  <2> QED BY <2>3, <2>4
<1> HIDE DEF H
<1>6. Bound({ps} \X H(s), Cardinality(H(s)))
  <2>1. IsFiniteSet({ps}) /\ Cardinality({ps}) = 1
    BY FS_Singleton
  <2>2. IsFiniteSet({ps} \X H(s)) /\ Cardinality({ps} \X H(s)) = 1 * Cardinality(H(s))
    BY <1>2, <2>1, FS_Product
  <2> QED BY <1>2, <2>2 DEF Bound
<1>7. Bound(References(s)', sft_count[s] + Cardinality(H(s)))
  BY <1>1, <1>2, <1>5, <1>6, BoundMore
<1> QED BY <1>3, <1>7

LEMMA DosCloseCounted ==
  ASSUME TypeOK, Counted, NEW h \in Handles, DosClose(h)
  PROVE  Counted'
<1>1. get_sft(h) /\ HandleSet(h, NoSft)
  BY SetHandleSets DEF DosClose
<1>2. sft_count' = CountsAfter({filetab[h]}) \/ sft_count' = sft_count
  BY DEF DosClose, sftVars
<1> QED BY <1>1, <1>2, CloseCounted

LEMMA ClosingHandle ==
  ASSUME TypeOK, CloseNext
  PROVE  closing \in Handles
BY TypeParts, FilesAssumption DEF CloseNext, Idle, NotClosing, ProcTyped, Handles

LEMMA NextCounted ==
  ASSUME AttrFiles = {}, TypeOK, Counted, [Next]_vars
  PROVE  Counted'
<1>1. CASE UNCHANGED <<sft_count, ps_filetab>>
  BY <1>1 DEF Counted, References
<1>2. CASE \E f \in File, fl \in Flags : DosOpen(f, fl)
  BY <1>2, OpenCounted
<1>3. CASE \E h \in Handles : CloseHandle(h)
  BY <1>3, DosCloseCounted DEF CloseHandle
<1>4. CASE \E old, new \in Handles : DosForceDup(old, new)
  BY <1>4, DupCounted
<1>5. CASE \E h \in Handles : DosDup(h)
  BY <1>5, DupCounted, FreeHndl DEF DosDup
<1>6. CASE \E ps \in Psp : Exec(ps)
  BY <1>6, ExecCounted
<1>7. CASE CloseNext
  <2>1. CASE DosClose(closing)
    BY <1>7, <2>1, ClosingHandle, DosCloseCounted
  <2> QED BY <1>1, <1>7, <2>1 DEF CloseNext, sftVars
<1> QED BY <1>1, <1>2, <1>3, <1>4, <1>5, <1>6, <1>7 DEF Next, vars, DosOpenFails, SetPsp, Terminate,
        DosLockUnlock, DosRWSft, InstallShare, sftVars

LEMMA InitCounted ==
  ASSUME Init
  PROVE  Counted
<1> SUFFICES ASSUME NEW s \in Sfts PROVE Bound(References(s), sft_count[s])
  BY DEF Counted
<1>1. sft_count[s] = 0 /\ s # NoSft
  BY FilesAssumption DEF Init
<1>2. References(s) = {}
  BY <1>1 DEF Init, References
<1> QED BY <1>1, <1>2, FS_EmptySet DEF Bound

(* No SFT entry that a handle refers to becomes free: through dup, EXEC,   *)
(* failed closes and termination the count of dosfns.c stays at least the  *)
(* number of handles, for any number of processes.                         *)
THEOREM HandlesAlwaysCounted ==
  ASSUME AttrFiles = {}
  PROVE  Spec => []HandlesCounted
<1>1. Counted => HandlesCounted
  <2> SUFFICES ASSUME Counted, NEW s \in Sfts PROVE sft_count[s] >= Cardinality(References(s))
    BY DEF HandlesCounted
  <2> QED BY DEF Counted, Bound
<1>2. Init => Counted
  BY InitCounted
<1>3. TypeOK /\ Counted /\ [Next]_vars => Counted'
  BY NextCounted
<1> QED BY <1>1, <1>2, <1>3, TypeCorrect, PTL DEF Spec

-----------------------------------------------------------------------------
(* SHARE's entries and the kernel's open files *)

(* What the step relies on: an unused SFT entry has no entry of SHARE, one *)
(* in use has a name, and the kernel knows of SHARE once it used it, so    *)
(* that the last close of a file will tell SHARE.                          *)
SftsKnown ==
  \A s \in Sfts :
    /\ sft_count[s] = 0 => sft_shroff[s] = -1
    /\ sft_count[s] # 0 => sft_name[s] \in File
    /\ sft_shroff[s] >= 0 => IsShareInstalled
SlotInv == SlotPerOpenFile /\ SftsKnown

LEMMA Shroff ==
  ASSUME TypeOK, NEW s \in Sfts
  PROVE  /\ sft_shroff[s] \in Filenos \cup {-1}
         /\ sft_shroff[s] >= 0 <=> sft_shroff[s] \in Filenos
         /\ sft_shroff[s] # -1 => sft_shroff[s] >= 0
BY TypeParts, ShareAssumption DEF SftTyped, Filenos

(* DosCloseSft of the entries S. *)
LEMMA CloseSlots ==
  ASSUME TypeOK, SlotInv, NEW S \in SUBSET Sfts, DosCloseSft(S), resident' = resident,
         \A s \in Sfts : /\ sft_count'[s] = 0 => sft_count[s] = 0 \/ (s \in S /\ sft_count[s] = 1)
                         /\ sft_count[s] = 0 => sft_count'[s] = 0
  PROVE  SlotInv'
<1> DEFINE L == LastRefs(S)
           N == {sft_shroff[s] : s \in L}
<1>1. \A s \in Sfts : sft_shroff'[s] = IF s \in L THEN -1 ELSE sft_shroff[s]
  BY DEF DosCloseSft
<1>2. \A n \in Filenos : file_table'[n] = IF n \in N THEN NoFile ELSE file_table[n]
  BY DEF DosCloseSft, close_file, FilesWithout
<1>3. \A s \in Sfts : sft_name'[s] = IF sft_count'[s] = 0 THEN NoName ELSE sft_name[s]
  BY DEF DosCloseSft, ForgetUnused
<1>4. \A s \in L : s \in Sfts /\ s \in S /\ sft_count[s] = 1
  BY DEF LastRefs
<1>5. \A s \in S : sft_count[s] = 1 /\ IsShareInstalled => s \in L
  BY DEF LastRefs
<1>6. IsShareInstalled => IsShareInstalled'
  BY DEF DosCloseSft, IsShareInstalled
<1>7. NoFile.filename = NoName
  BY DEF NoFile, FileEntry
<1>8. ~(-1 >= 0)
  OBVIOUS
<1> HIDE DEF L
<1>9. ASSUME NEW s \in Sfts, Open(s)'
      PROVE  /\ Open(s) /\ s \notin L /\ sft_shroff'[s] = sft_shroff[s] /\ sft_name'[s] = sft_name[s]
             /\ sft_shroff[s] \in Filenos /\ sft_shroff[s] \notin N
  <2>1. sft_count'[s] # 0 /\ sft_shroff'[s] >= 0
    BY <1>9 DEF Open
  <2>2. s \notin L /\ sft_shroff'[s] = sft_shroff[s] /\ sft_name'[s] = sft_name[s]
    BY <1>1, <1>3, <1>8, <2>1
  <2>3. sft_count[s] # 0
    BY <2>1
  <2>4. Open(s) /\ sft_shroff[s] \in Filenos
    BY <2>1, <2>2, <2>3, Shroff DEF Open
  <2>5. ASSUME NEW u \in L, sft_shroff[u] = sft_shroff[s] PROVE FALSE
    <3>1. u \in Sfts /\ Open(u)
      BY <1>4, <2>4, <2>5 DEF Open
    <3>2. u = s
      BY <2>4, <2>5, <3>1 DEF SlotInv, SlotPerOpenFile
    <3> QED BY <2>2, <3>2
  <2> QED BY <2>2, <2>4, <2>5
<1>10. ASSUME NEW s \in Sfts, Open(s), sft_shroff[s] \notin N PROVE Open(s)' /\ sft_shroff'[s] = sft_shroff[s]
  <2>1. s \notin L /\ IsShareInstalled /\ sft_count[s] # 0 /\ sft_shroff[s] >= 0
    BY <1>10 DEF Open, SlotInv, SftsKnown
  <2>2. sft_count'[s] # 0
    BY <1>5, <2>1
  <2> QED BY <1>1, <2>1, <2>2 DEF Open
<1>11. SlotPerOpenFile'
  <2>1. ASSUME NEW s \in Sfts, Open(s)' PROVE file_table'[sft_shroff'[s]].filename = sft_name'[s]
    BY <1>2, <1>9, <2>1 DEF SlotInv, SlotPerOpenFile
  <2>2. ASSUME NEW s \in Sfts, NEW t \in Sfts, Open(s)', Open(t)', sft_shroff'[s] = sft_shroff'[t]
        PROVE  s = t
    BY <1>9, <2>2 DEF SlotInv, SlotPerOpenFile
  <2>3. ASSUME NEW n \in Filenos, file_table'[n].filename # NoName
        PROVE  \E s \in Sfts : Open(s)' /\ sft_shroff'[s] = n
    <3>1. n \notin N /\ file_table[n].filename # NoName
      BY <1>2, <1>7, <2>3
    <3>2. PICK s \in Sfts : Open(s) /\ sft_shroff[s] = n
      BY <3>1 DEF SlotInv, SlotPerOpenFile
    <3> QED BY <1>10, <3>1, <3>2
  <2> QED BY <2>1, <2>2, <2>3 DEF SlotPerOpenFile, Sfts, Filenos
<1>12. SftsKnown'
  <2> SUFFICES ASSUME NEW s \in Sfts
               PROVE  /\ sft_count'[s] = 0 => sft_shroff'[s] = -1
                      /\ sft_count'[s] # 0 => sft_name'[s] \in File
                      /\ sft_shroff'[s] >= 0 => IsShareInstalled'
    BY DEF SftsKnown, Sfts
  <2>1. ASSUME sft_count'[s] = 0 PROVE sft_shroff'[s] = -1
    <3>1. CASE s \in L
      BY <1>1, <3>1
    <3>2. CASE s \notin L /\ sft_count[s] = 0
      BY <1>1, <3>2 DEF SlotInv, SftsKnown
    <3>3. CASE s \notin L /\ sft_count[s] # 0
      <4>1. ~IsShareInstalled
        BY <1>5, <2>1, <3>3
      <4> QED BY <1>1, <3>3, <4>1, Shroff DEF SlotInv, SftsKnown
    <3> QED BY <3>1, <3>2, <3>3
  <2>2. sft_count'[s] # 0 => sft_name'[s] \in File
    BY <1>3 DEF SlotInv, SftsKnown
  <2>3. sft_shroff'[s] >= 0 => IsShareInstalled'
    BY <1>1, <1>6, <1>8 DEF SlotInv, SftsKnown
  <2> QED BY <2>1, <2>2, <2>3
<1> QED BY <1>11, <1>12 DEF SlotInv

LEMMA OpenedSlots ==
  ASSUME TypeOK, SlotInv, NEW f \in File, NEW fl \in Flags, DosOpen(f, fl)
  PROVE  SlotInv'
<1> DEFINE k == NewFileno
           n0 == IF IsShareInstalled THEN k ELSE -1
<1>0. PICK t : t = Min(FreeSfts)
  OBVIOUS
<1>1. t \in Sfts /\ sft_count[t] = 0
  <2>1. FreeSfts \in SUBSET Nat /\ FreeSfts # {}
    BY FilesAssumption DEF FreeSfts, Sfts, DosOpen
  <2> QED BY <1>0, <2>1, MinOfNat DEF FreeSfts
<1>2. /\ sft_shroff' = [sft_shroff EXCEPT ![t] = n0]
      /\ sft_count' = [sft_count EXCEPT ![t] = 1] /\ sft_name' = [sft_name EXCEPT ![t] = f]
  BY <1>0 DEF DosOpen
<1>3. (IsShareInstalled => IsShareInstalled') /\ (IsShareInstalled' => IsShareInstalled)
  BY DEF DosOpen, Recheck, IsShareInstalled
<1>4. IsShareInstalled =>
        /\ k \in Filenos /\ file_table[k].filename = NoName
        /\ \A n \in Filenos : n # k => file_table'[n] = file_table[n]
        /\ file_table'[k].filename = f
  <2> SUFFICES ASSUME IsShareInstalled
               PROVE  /\ k \in Filenos /\ file_table[k].filename = NoName
                      /\ \A n \in Filenos : n # k => file_table'[n] = file_table[n]
                      /\ file_table'[k].filename = f
    OBVIOUS
  <2>1. /\ EntriesOf(NoName) # {}
        /\ file_table' = [file_table EXCEPT ![k] = NewEntry(f, fl.open, fl.share)]
    BY DEF DosOpen, ShareConsents, open_check, Opened
  <2>2. k \in Filenos /\ file_table[k].filename = NoName
    BY <2>1, FirstEntry DEF NewFileno
  <2>3. NewEntry(f, fl.open, fl.share).filename = f
    BY DEF NewEntry, FileEntry
  <2> HIDE DEF k
  <2> QED BY <2>1, <2>2, <2>3, TypeParts DEF FilesTyped
<1>5. ~IsShareInstalled => file_table' = file_table
  BY DEF DosOpen
<1>6. /\ \A s \in Sfts : sft_shroff'[s] = IF s = t THEN n0 ELSE sft_shroff[s]
      /\ \A s \in Sfts : sft_count'[s] = IF s = t THEN 1 ELSE sft_count[s]
      /\ \A s \in Sfts : sft_name'[s] = IF s = t THEN f ELSE sft_name[s]
  BY <1>1, <1>2, TypeParts DEF SftTyped, CountTyped
<1>7. \A n \in Filenos : n >= 0
  BY ShareAssumption DEF Filenos
<1>8. n0 >= 0 <=> IsShareInstalled
  BY <1>4, <1>7
<1>9. ~Open(t) /\ \A s \in Sfts : s # t => (Open(s)' <=> Open(s))
  BY <1>1, <1>6 DEF Open
<1>10. Open(t)' <=> IsShareInstalled
  BY <1>1, <1>6, <1>8 DEF Open
<1>11. ASSUME NEW s \in Sfts, Open(s)
       PROVE  sft_shroff[s] \in Filenos /\ (IsShareInstalled => sft_shroff[s] # k)
  <2>1. sft_shroff[s] \in Filenos /\ sft_name[s] \in File
    BY <1>11, Shroff DEF Open, SlotInv, SftsKnown
  <2>2. file_table[sft_shroff[s]].filename = sft_name[s]
    BY <1>11 DEF SlotInv, SlotPerOpenFile
  <2> QED BY <1>4, <2>1, <2>2, ShareAssumption
<1> HIDE DEF k
<1>12. SlotPerOpenFile'
  <2>1. ASSUME NEW s \in Sfts, Open(s)' PROVE file_table'[sft_shroff'[s]].filename = sft_name'[s]
    <3>1. CASE s = t
      BY <1>4, <1>6, <1>10, <2>1, <3>1
    <3>2. CASE s # t
      <4>1. Open(s) /\ sft_shroff'[s] = sft_shroff[s] /\ sft_name'[s] = sft_name[s]
        BY <1>6, <1>9, <2>1, <3>2
      <4>2. file_table'[sft_shroff[s]] = file_table[sft_shroff[s]]
        BY <1>4, <1>5, <1>11, <4>1
      <4> QED BY <4>1, <4>2 DEF SlotInv, SlotPerOpenFile
    <3> QED BY <3>1, <3>2
  <2>2. ASSUME NEW s \in Sfts, NEW u \in Sfts, Open(s)', Open(u)', sft_shroff'[s] = sft_shroff'[u],
               s # u
        PROVE  FALSE
    <3>1. CASE s # t /\ u # t
      BY <1>6, <1>9, <2>2, <3>1 DEF SlotInv, SlotPerOpenFile
    <3>2. CASE s = t
      BY <1>6, <1>9, <1>10, <1>11, <2>2, <3>2
    <3>3. CASE u = t
      BY <1>6, <1>9, <1>10, <1>11, <2>2, <3>3
    <3> QED BY <3>1, <3>2, <3>3
  <2>3. ASSUME NEW n \in Filenos, file_table'[n].filename # NoName
        PROVE  \E s \in Sfts : Open(s)' /\ sft_shroff'[s] = n
    <3>1. CASE IsShareInstalled /\ n = k
      BY <1>1, <1>6, <1>10, <3>1
    <3>2. CASE ~(IsShareInstalled /\ n = k)
      <4>1. file_table[n].filename # NoName
        BY <1>4, <1>5, <2>3, <3>2
      <4>2. PICK s \in Sfts : Open(s) /\ sft_shroff[s] = n
        BY <4>1 DEF SlotInv, SlotPerOpenFile
      <4> QED BY <1>6, <1>9, <4>2
    <3> QED BY <3>1, <3>2
  <2> QED BY <2>1, <2>2, <2>3 DEF SlotPerOpenFile, Sfts, Filenos
<1>13. SftsKnown'
  <2> SUFFICES ASSUME NEW s \in Sfts
               PROVE  /\ sft_count'[s] = 0 => sft_shroff'[s] = -1
                      /\ sft_count'[s] # 0 => sft_name'[s] \in File
                      /\ sft_shroff'[s] >= 0 => IsShareInstalled'
    BY DEF SftsKnown, Sfts
  <2>1. CASE s = t
    BY <1>3, <1>6, <1>8, <2>1
  <2>2. CASE s # t
    BY <1>3, <1>6, <2>2 DEF SlotInv, SftsKnown
  <2> QED BY <2>1, <2>2
<1> QED BY <1>12, <1>13 DEF SlotInv

(* Nothing but the handles, the processes and what the kernel knows of     *)
(* SHARE changes.                                                          *)
LEMMA SameSlots ==
  ASSUME SlotInv, UNCHANGED <<file_table, sft_name, sft_shroff>>,
         \A s \in Sfts : sft_count'[s] = 0 <=> sft_count[s] = 0,
         IsShareInstalled => IsShareInstalled'
  PROVE  SlotInv'
<1>1. \A s \in Sfts : Open(s)' <=> Open(s)
  BY DEF Open
<1>2. SlotPerOpenFile'
  BY <1>1 DEF SlotInv, SlotPerOpenFile, Sfts, Filenos
<1>3. SftsKnown'
  BY DEF SlotInv, SftsKnown, Sfts
<1> QED BY <1>2, <1>3 DEF SlotInv

LEMMA DosCloseSlots ==
  ASSUME TypeOK, SlotInv, NEW h \in Handles, DosClose(h), resident' = resident
  PROVE  SlotInv'
<1>1. CASE sft_count' = CountsAfter({filetab[h]}) /\ DosCloseSft({filetab[h]})
  <2>1. filetab[h] \in Sfts /\ sft_count[filetab[h]] # 0
    BY GetSft DEF DosClose
  <2>2. \A s \in Sfts : sft_count[s] \in Nat
    BY CountIs
  <2>3. \A s \in Sfts : sft_count'[s] = sft_count[s] - (IF s \in {filetab[h]} THEN 1 ELSE 0)
    BY <1>1, CountsAre
  <2>4. PICK S \in SUBSET Sfts : S = {filetab[h]}
    BY <2>1
  <2> QED BY <1>1, <2>1, <2>2, <2>3, <2>4, CloseSlots
<1>2. CASE UNCHANGED <<shareVars, sftVars, share_installed>>
  BY <1>2, SameSlots DEF shareVars, sftVars, IsShareInstalled
<1> QED BY <1>1, <1>2 DEF DosClose

LEMMA DupSlots ==
  ASSUME TypeOK, SlotInv, NEW old \in Handles, NEW new \in Handles, DosForceDup(old, new)
  PROVE  SlotInv'
<1> DEFINE s == filetab[old]
           t == filetab[new]
<1>1. s \in Sfts /\ sft_count[s] # 0 /\ resident' = resident
  BY GetSft DEF DosForceDup
<1>2. \A u \in Sfts : sft_count[u] \in Nat
  BY CountIs
<1>3. CASE /\ sft_count' = [sft_count EXCEPT ![s] = @ + 1]
           /\ UNCHANGED <<shareVars, sft_name, sft_mode, sft_shroff, share_installed>>
  <2>1. \A u \in Sfts : sft_count'[u] = IF u = s THEN sft_count[u] + 1 ELSE sft_count[u]
    BY <1>1, <1>3, TypeParts DEF CountTyped
  <2>2. \A u \in Sfts : sft_count'[u] = 0 <=> sft_count[u] = 0
    BY <1>1, <1>2, <2>1
  <2> QED BY <1>1, <1>3, <2>2, SameSlots DEF shareVars, IsShareInstalled
<1>4. CASE /\ get_sft(new)
           /\ sft_count' = [CountsAfter({t}) EXCEPT ![s] = @ + 1]
           /\ DosCloseSft({t})
  <2>1. t \in Sfts /\ sft_count[t] # 0
    BY <1>4, GetSft
  <2>2. \A u \in Sfts : CountsAfter({t})[u] = sft_count[u] - (IF u = t THEN 1 ELSE 0)
    BY CountsAre
  <2>3. \A u \in Sfts : sft_count'[u] = IF u = s THEN CountsAfter({t})[u] + 1 ELSE CountsAfter({t})[u]
    BY <1>1, <1>4 DEF CountsAfter
  <2> HIDE DEF s, t
  <2>4. \A u \in Sfts : /\ sft_count'[u] = 0 => sft_count[u] = 0 \/ (u \in {t} /\ sft_count[u] = 1)
                        /\ sft_count[u] = 0 => sft_count'[u] = 0
    <3> SUFFICES ASSUME NEW u \in Sfts
                 PROVE  /\ sft_count'[u] = 0 => sft_count[u] = 0 \/ (u = t /\ sft_count[u] = 1)
                        /\ sft_count[u] = 0 => sft_count'[u] = 0
      OBVIOUS
    <3>1. PICK c \in Nat : c = sft_count[u]
      BY <1>2
    <3>2. sft_count'[u] = c - (IF u = t THEN 1 ELSE 0) + (IF u = s THEN 1 ELSE 0)
      <4>1. PICK a : a = CountsAfter({t})[u]
        OBVIOUS
      <4>2. a = c - (IF u = t THEN 1 ELSE 0)
        BY <2>2, <3>1, <4>1
      <4>3. sft_count'[u] = IF u = s THEN a + 1 ELSE a
        BY <2>3, <4>1
      <4> QED BY <4>2, <4>3
    <3>3. (u = s => c # 0) /\ (u = t => c # 0)
      BY <1>1, <2>1, <3>1
    <3> QED BY <3>1, <3>2, <3>3
  <2>5. PICK S \in SUBSET Sfts : S = {t}
    BY <2>1
  <2> QED BY <1>1, <1>4, <2>4, <2>5, CloseSlots
<1>5. CASE UNCHANGED <<shareVars, sftVars, share_installed>>
  BY <1>1, <1>5, SameSlots DEF shareVars, sftVars, IsShareInstalled
<1> QED BY <1>3, <1>4, <1>5 DEF DosForceDup

(* dos_open fails: the entry that SHARE has just taken is free again. *)
LEMMA OpenFailsFiles ==
  ASSUME TypeOK, NEW f, NEW fl, DosOpenFails(f, fl)
  PROVE  \A n \in Filenos : file_table'[n].filename = file_table[n].filename
<1>1. CASE IsShareInstalled
  <2>1. EntriesOf(NoName) # {} /\ file_table' = FilesWithout({NewFileno})
    BY <1>1 DEF DosOpenFails, ShareConsents, open_check, close_file
  <2>2. NewFileno \in Filenos /\ file_table[NewFileno].filename = NoName
    BY <2>1, FirstEntry DEF NewFileno
  <2> QED BY <2>1, <2>2 DEF FilesWithout, NoFile, FileEntry
<1>2. CASE ~IsShareInstalled
  BY <1>2 DEF DosOpenFails, shareVars
<1> QED BY <1>1, <1>2

LEMMA OpenFailsSlots ==
  ASSUME TypeOK, SlotInv, NEW f, NEW fl, DosOpenFails(f, fl)
  PROVE  SlotInv'
<1>1. \A n \in Filenos : file_table'[n].filename = file_table[n].filename
  BY OpenFailsFiles
<1>2. UNCHANGED sftVars /\ (IsShareInstalled => IsShareInstalled')
  BY DEF DosOpenFails, Recheck, IsShareInstalled
<1>3. \A s \in Sfts : (Open(s)' <=> Open(s)) /\ (Open(s) => sft_shroff[s] \in Filenos)
  BY <1>2, Shroff DEF Open, sftVars
<1>4. SlotPerOpenFile'
  <2>1. \A s \in Sfts : Open(s)' => file_table'[sft_shroff'[s]].filename = sft_name'[s]
    BY <1>1, <1>2, <1>3 DEF SlotInv, SlotPerOpenFile, sftVars
  <2> QED BY <1>1, <1>2, <1>3, <2>1 DEF SlotInv, SlotPerOpenFile, Sfts, Filenos, sftVars
<1>5. SftsKnown'
  BY <1>2 DEF SlotInv, SftsKnown, Sfts, sftVars
<1> QED BY <1>4, <1>5 DEF SlotInv

(* EXEC uses no SFT entry that was unused. *)
LEMMA ExecCounts ==
  ASSUME TypeOK, NEW ps \in Psp, Exec(ps), NEW s \in Sfts
  PROVE  sft_count'[s] = 0 <=> sft_count[s] = 0
<1> DEFINE H == {h \in Handles : CloneHandle(h) /\ filetab[h] = s}
<1>1. IsFiniteSet(H) /\ Cardinality(H) \in Nat
  <2>1. IsFiniteSet(Handles)
    BY FilesAssumption, FS_Interval DEF Handles
  <2>2. H \subseteq Handles
    OBVIOUS
  <2> HIDE DEF H
  <2> QED BY <2>1, <2>2, FS_Subset, FS_CardinalityType
<1>2. sft_count'[s] = sft_count[s] + Cardinality(H) /\ sft_count[s] \in Nat
  BY CountIs DEF Exec
<1>3. sft_count[s] = 0 => H = {}
  BY DEF CloneHandle, get_sft
<1> HIDE DEF H
<1> QED BY <1>1, <1>2, <1>3, FS_EmptySet

LEMMA NextSlots ==
  ASSUME AttrFiles = {}, Transfers = {}, TypeOK, SlotInv, [Next]_vars
  PROVE  SlotInv'
<1>1. CASE UNCHANGED <<file_table, sftVars, share_installed>> /\ (resident => resident')
  BY <1>1, SameSlots DEF sftVars, IsShareInstalled
<1>2. CASE \E f \in File, fl \in Flags : DosOpen(f, fl)
  BY <1>2, OpenedSlots
<1>3. CASE \E f \in File, fl \in Flags : DosOpenFails(f, fl)
  BY <1>3, OpenFailsSlots
<1>4. CASE \E h \in Handles : CloseHandle(h)
  BY <1>4, DosCloseSlots DEF CloseHandle
<1>5. CASE \E old, new \in Handles : DosForceDup(old, new)
  BY <1>5, DupSlots
<1>6. CASE \E h \in Handles : DosDup(h)
  BY <1>6, DupSlots, FreeHndl DEF DosDup
<1>7. CASE CloseNext
  <2>1. CASE DosClose(closing)
    BY <1>7, <2>1, ClosingHandle, DosCloseSlots DEF CloseNext
  <2> QED BY <1>1, <1>7, <2>1 DEF CloseNext, shareVars
<1>8. CASE \E ps \in Psp : Exec(ps)
  <2>1. PICK ps \in Psp : Exec(ps)
    BY <1>8
  <2>2. \A s \in Sfts : sft_count'[s] = 0 <=> sft_count[s] = 0
    BY <2>1, ExecCounts
  <2> QED BY <2>1, <2>2, SameSlots DEF Exec, shareVars, IsShareInstalled
<1>9. CASE (\E ps \in Psp : SetPsp(ps)) \/ Terminate \/ UNCHANGED vars
  BY <1>1, <1>9 DEF SetPsp, Terminate, vars, shareVars
<1>10. CASE \E h \in Handles, r \in Locks : DosLockUnlock(h, r)
  <2>1. file_table' = file_table
    BY <1>10 DEF DosLockUnlock, lock, unlock
  <2>2. UNCHANGED <<sftVars, resident, share_installed>>
    BY <1>10 DEF DosLockUnlock
  <2> QED BY <1>1, <2>1, <2>2
<1>11. CASE InstallShare
  BY <1>1, <1>11 DEF InstallShare, shareVars
<1> QED BY <1>2, <1>3, <1>4, <1>5, <1>6, <1>7, <1>8, <1>9, <1>10, <1>11 DEF Next

LEMMA InitSlots ==
  ASSUME Init
  PROVE  SlotInv
<1>1. \A s \in Sfts : sft_count[s] = 0 /\ sft_shroff[s] = -1 /\ ~Open(s)
  BY DEF Init, Open
<1>2. \A n \in Filenos : file_table[n].filename = NoName
  BY DEF Init, ShareInit, NoFile, FileEntry
<1> QED BY <1>1, <1>2 DEF SlotInv, SlotPerOpenFile, SftsKnown

(* SHARE has one entry for each open file of the kernel, of the same name, *)
(* and no other (share.c:115), whatever fails and whenever SHARE is        *)
(* started.                                                                *)
THEOREM SlotPerOpenFileAlways ==
  ASSUME AttrFiles = {}, Transfers = {}
  PROVE  Spec => []SlotPerOpenFile
<1>1. Init => SlotInv
  BY InitSlots
<1>2. TypeOK /\ SlotInv /\ [Next]_vars => SlotInv'
  BY NextSlots
<1>3. SlotInv => SlotPerOpenFile
  BY DEF SlotInv
<1> QED BY <1>1, <1>2, <1>3, TypeCorrect, PTL DEF Spec

-----------------------------------------------------------------------------
(* Locks *)

(* The locks that stay keep their files. *)
LEMMA KeptLocks ==
  ASSUME LocksNested,
         \A i \in LockNos : lock_table'[i].used =>
           /\ lock_table'[i] = lock_table[i]
           /\ file_table'[lock_table[i].fileno].filename = file_table[lock_table[i].fileno].filename
  PROVE  LocksNested'
<1>1. \A i \in LockNos : lock_table'[i].used =>
        file_table'[lock_table'[i].fileno].filename # NoName
  BY DEF LocksNested
<1>2. ASSUME NEW i \in LockNos, NEW j \in LockNos, SameFileLocks(i, j)'
      PROVE  SameFileLocks(i, j) /\ lock_table'[i] = lock_table[i] /\ lock_table'[j] = lock_table[j]
  BY <1>2 DEF SameFileLocks, SameFile
<1>3. ASSUME NEW i \in LockNos, NEW j \in LockNos, SameFileLocks(i, j)',
             Bytes(lock_table'[i]) \cap Bytes(lock_table'[j]) # {}
      PROVE  LET a == lock_table'[i]  b == lock_table'[j] IN
             (a.start < b.start /\ b.end < a.end) \/ (b.start < a.start /\ a.end < b.end)
  BY <1>2, <1>3 DEF LocksNested
<1> QED BY <1>1, <1>3 DEF LocksNested, LockNos, Bytes, Offset

LEMMA CloseLocks ==
  ASSUME TypeOK, LocksNested, NEW N, close_file(N)
  PROVE  LocksNested'
<1>1. \A i \in LockNos : lock_table[i].fileno \in Filenos
  BY TypeParts DEF LocksTyped, LockType
<1>2. ~NoLock.used
  BY DEF NoLock, LockEntry
<1>3. \A i \in LockNos : lock_table'[i] = IF lock_table[i].fileno \in N THEN NoLock ELSE lock_table[i]
  BY DEF close_file, LocksWithout
<1>4. \A n \in Filenos : file_table'[n] = IF n \in N THEN NoFile ELSE file_table[n]
  BY DEF close_file, FilesWithout
<1> QED BY <1>1, <1>2, <1>3, <1>4, KeptLocks

LEMMA OpenLocks ==
  ASSUME TypeOK, LocksNested, NEW f, NEW fl, DosOpen(f, fl)
  PROVE  LocksNested'
<1>1. lock_table' = lock_table
  BY DEF DosOpen
<1>2. ASSUME NEW n \in Filenos, file_table[n].filename # NoName PROVE file_table'[n] = file_table[n]
  <2>1. CASE IsShareInstalled
    <3>1. /\ EntriesOf(NoName) # {}
          /\ file_table' = [file_table EXCEPT ![NewFileno] = NewEntry(f, fl.open, fl.share)]
      BY <2>1 DEF DosOpen, ShareConsents, open_check, Opened
    <3>2. NewFileno \in Filenos /\ file_table[NewFileno].filename = NoName
      BY <3>1, FirstEntry DEF NewFileno
    <3> QED BY <1>2, <3>1, <3>2, TypeParts DEF FilesTyped
  <2>2. CASE ~IsShareInstalled
    BY <2>2 DEF DosOpen
  <2> QED BY <2>1, <2>2
<1>3. \A i \in LockNos : lock_table[i].fileno \in Filenos
  BY TypeParts DEF LocksTyped, LockType
<1> QED BY <1>1, <1>2, <1>3, KeptLocks DEF LocksNested

(* Where lock_unlock finds no violation, a lock that meets the region lies *)
(* strictly inside.                                                        *)
LEMMA LockFits ==
  ASSUME TypeOK, NEW n, NEW r \in Regions, NEW e, e = EndOf(r[1], r[2]), e > r[1],
         ~Violates(AnyPsp, n, r[1], r[2]),
         NEW i \in LockNos, lock_table[i].used, SameFile(n, lock_table[i]),
         NEW b \in Bytes(lock_table[i]), r[1] <= b, b < e
  PROVE  r[1] < lock_table[i].start /\ lock_table[i].end < e
<1> DEFINE l == lock_table[i]
<1>1. ~Hits(r[1], e, l)
  BY DEF Violates
<1>2. /\ r[1] \in Nat /\ e \in Nat /\ l.start \in Nat /\ l.end \in Nat /\ b \in Nat
      /\ l.start <= b /\ b < l.end
  <2>1. l \in LockType /\ r[1] \in Offset /\ r[2] \in 0 .. LongMax
    BY TypeParts DEF LocksTyped, Regions
  <2>2. l.start \in Offset /\ l.end \in Offset /\ e \in Offset
    BY <2>1, EndOfType DEF LockType
  <2> QED BY <2>1, <2>2, ShareAssumption DEF Offset, Bytes
<1> HIDE DEF l
<1> QED BY <1>1, <1>2 DEF Hits, l

LEMMA LockLocks ==
  ASSUME TypeOK, LocksNested, NEW ps \in Psp, NEW n \in Filenos, file_table[n].filename # NoName,
         NEW r \in Regions, lock(ps, n, r[1], r[2])
  PROVE  LocksNested'
<1>1. PICK k : k = Min(FreeLocks)
  OBVIOUS
<1>2. PICK e : e = EndOf(r[1], r[2])
  OBVIOUS
<1>3. PICK m : m = LockEntry(TRUE, r[1], e, n, ps)
  OBVIOUS
<1>4. k \in LockNos /\ ~lock_table[k].used
  <2>1. FreeLocks \in SUBSET Nat /\ FreeLocks # {}
    BY ShareAssumption DEF FreeLocks, LockNos, lock
  <2> QED BY <1>1, <2>1, MinOfNat DEF FreeLocks
<1>5. /\ lock_table' = [lock_table EXCEPT ![k] = m] /\ file_table' = file_table
      /\ e > r[1] /\ ~Violates(AnyPsp, n, r[1], r[2])
  BY <1>1, <1>2, <1>3 DEF lock
<1>6. m.used /\ m.start = r[1] /\ m.end = e /\ m.fileno = n
  BY <1>3 DEF LockEntry
<1>7. \A i \in LockNos : lock_table'[i] = IF i = k THEN m ELSE lock_table[i]
  BY <1>4, <1>5, TypeParts DEF LocksTyped
<1>8. \A i \in LockNos : lock_table'[i].used => file_table'[lock_table'[i].fileno].filename # NoName
  BY <1>5, <1>6, <1>7 DEF LocksNested
<1>9. ASSUME NEW i \in LockNos, i # k, lock_table[i].used, SameFile(n, lock_table[i]),
             Bytes(m) \cap Bytes(lock_table[i]) # {}
      PROVE  m.start < lock_table[i].start /\ lock_table[i].end < m.end
  <2>1. PICK b : b \in Bytes(m) /\ b \in Bytes(lock_table[i])
    BY <1>9
  <2>2. r[1] <= b /\ b < e
    BY <1>6, <2>1 DEF Bytes
  <2>3. r[1] < lock_table[i].start /\ lock_table[i].end < e
    BY <1>2, <1>5, <1>9, <2>1, <2>2, LockFits
  <2> QED BY <1>6, <2>3
<1>10. ASSUME NEW i \in LockNos, NEW j \in LockNos, SameFileLocks(i, j)',
              Bytes(lock_table'[i]) \cap Bytes(lock_table'[j]) # {}
       PROVE  LET a == lock_table'[i]  b == lock_table'[j] IN
              (a.start < b.start /\ b.end < a.end) \/ (b.start < a.start /\ a.end < b.end)
  <2>1. /\ i # j /\ lock_table'[i].used /\ lock_table'[j].used
        /\ file_table[lock_table'[i].fileno].filename = file_table[lock_table'[j].fileno].filename
    BY <1>5, <1>10 DEF SameFileLocks, SameFile
  <2>2. CASE i # k /\ j # k
    <3>1. lock_table'[i] = lock_table[i] /\ lock_table'[j] = lock_table[j]
      BY <1>7, <2>2
    <3>2. SameFileLocks(i, j)
      BY <2>1, <3>1 DEF SameFileLocks, SameFile
    <3> QED BY <1>10, <3>1, <3>2 DEF LocksNested
  <2>3. CASE i = k
    <3>1. lock_table'[i] = m /\ lock_table'[j] = lock_table[j] /\ j # k
      BY <1>7, <2>1, <2>3
    <3>2. SameFile(n, lock_table[j])
      BY <1>6, <2>1, <3>1 DEF SameFile
    <3> QED BY <1>9, <1>10, <2>1, <3>1, <3>2
  <2>4. CASE j = k
    <3>1. lock_table'[j] = m /\ lock_table'[i] = lock_table[i] /\ i # k
      BY <1>7, <2>1, <2>4
    <3>2. SameFile(n, lock_table[i]) /\ Bytes(m) \cap Bytes(lock_table[i]) # {}
      BY <1>6, <1>10, <2>1, <3>1 DEF SameFile
    <3> QED BY <1>9, <2>1, <3>1, <3>2
  <2> QED BY <2>2, <2>3, <2>4
<1> QED BY <1>8, <1>10 DEF LocksNested, LockNos, Bytes, Offset

LEMMA UnlockLocks ==
  ASSUME TypeOK, LocksNested, NEW ps, NEW n, NEW ofs, NEW len, unlock(ps, n, ofs, len)
  PROVE  LocksNested'
<1>1. 0 \in LockNos
  BY ShareAssumption DEF LockNos
<1>2. ~NoLock.used
  BY DEF NoLock, LockEntry
<1>3. \A i \in LockNos : lock_table'[i] = IF i = 0 THEN NoLock ELSE lock_table[i]
  BY <1>1, TypeParts DEF unlock, LocksTyped
<1>4. file_table' = file_table
  BY DEF unlock
<1> QED BY <1>2, <1>3, <1>4, KeptLocks

LEMMA NextLocks ==
  ASSUME AttrFiles = {}, Transfers = {}, TypeOK, SlotInv, LocksNested, [Next]_vars
  PROVE  LocksNested'
<1>1. CASE UNCHANGED shareVars
  BY <1>1, KeptLocks DEF shareVars
<1>2. CASE \E N : close_file(N)
  BY <1>2, CloseLocks
<1>3. CASE \E f \in File, fl \in Flags : DosOpen(f, fl)
  BY <1>3, OpenLocks
<1>4. CASE \E f \in File, fl \in Flags : DosOpenFails(f, fl)
  BY <1>1, <1>2, <1>4 DEF DosOpenFails
<1>5. ASSUME NEW h, DosClose(h) PROVE LocksNested'
  BY <1>1, <1>2, <1>5 DEF DosClose, DosCloseSft
<1>6. ASSUME NEW old, NEW new, DosForceDup(old, new) PROVE LocksNested'
  BY <1>1, <1>2, <1>6 DEF DosForceDup, DosCloseSft
<1>7. ASSUME NEW h \in Handles, NEW r \in Locks, DosLockUnlock(h, r) PROVE LocksNested'
  <2> DEFINE n == sft_shroff[filetab[h]]
  <2>1. /\ Shared(h) /\ (lock(cu_psp, n, r[1], r[2]) \/ unlock(cu_psp, n, r[1], r[2]))
    BY <1>7 DEF DosLockUnlock
  <2>2. r \in Regions /\ cu_psp \in Psp /\ n \in Filenos
    BY <2>1, FilesAssumption, TypeParts, SharedFileno DEF ProcTyped
  <2>3. filetab[h] \in Sfts /\ Open(filetab[h])
    BY <2>1, GetSft DEF Shared, Open
  <2>4. file_table[n].filename # NoName
    BY <2>3, ShareAssumption DEF SlotInv, SlotPerOpenFile, SftsKnown, Open
  <2> HIDE DEF n
  <2> QED BY <2>1, <2>2, <2>4, LockLocks, UnlockLocks
<1>8. CASE CloseNext
  BY <1>1, <1>5, <1>8 DEF CloseNext
<1>9. CASE \E h \in Handles : CloseHandle(h) \/ DosDup(h)
  BY <1>5, <1>6, <1>9 DEF CloseHandle, DosDup
<1>10. CASE (\E ps \in Psp : Exec(ps) \/ SetPsp(ps)) \/ Terminate \/ InstallShare \/ UNCHANGED vars
  BY <1>1, <1>10 DEF Exec, SetPsp, Terminate, InstallShare, vars
<1> QED BY <1>3, <1>4, <1>6, <1>7, <1>8, <1>9, <1>10 DEF Next

(* All of it. *)
LockInv == TypeOK /\ Counted /\ SlotInv /\ LocksNested

LEMMA LockInvariance ==
  ASSUME AttrFiles = {}, Transfers = {}
  PROVE  Spec => []LockInv
<1>1. Init => Counted /\ SlotInv /\ LocksNested
  <2> SUFFICES ASSUME Init PROVE Counted /\ SlotInv /\ LocksNested
    OBVIOUS
  <2>1. Counted /\ SlotInv
    BY InitCounted, InitSlots
  <2>2. \A i \in LockNos : ~lock_table[i].used
    BY DEF Init, ShareInit, NoLock, LockEntry
  <2> QED BY <2>1, <2>2 DEF LocksNested, SameFileLocks
<1>2. TypeOK /\ (Counted /\ SlotInv /\ LocksNested) /\ [Next]_vars => (Counted /\ SlotInv /\ LocksNested)'
  BY NextCounted, NextSlots, NextLocks
<1> QED BY <1>1, <1>2, TypeCorrect, PTL DEF Spec, LockInv

(* A lock belongs to an open file, and two locks on a byte are nested with *)
(* bytes to spare on both sides: that is what access_check ensures, since  *)
(* it looks at the ends of the new region only.                            *)
THEOREM LocksAlwaysNested ==
  ASSUME AttrFiles = {}, Transfers = {}
  PROVE  Spec => []LocksNested
BY LockInvariance, PTL DEF LockInv

(* access_check refuses a region exactly when a lock of another process    *)
(* meets it and does not lie strictly inside, in every state.              *)
THEOREM AccessAlwaysExact == Spec => []AccessExact
<1>1. ASSUME TypeOK, NEW n \in Filenos, NEW ofs \in Offset, NEW len \in 0 .. LongMax,
             NEW ps \in Psp, NEW e, e = EndOf(ofs, len),
             NEW i \in LockNos, NEW l, l = lock_table[i]
      PROVE  (e > ofs /\ Hits(ofs, e, l)) <=>
               (ofs < e /\ ofs < l.end /\ l.start < e /\ (l.start <= ofs \/ e <= l.end))
  <2>1. l \in LockType
    BY <1>1, TypeParts DEF LocksTyped
  <2>2. l.start \in Offset /\ l.end \in Offset /\ e \in Offset
    BY <1>1, <2>1, EndOfType DEF LockType
  <2>3. ofs \in Nat /\ e \in Nat /\ l.start \in Nat /\ l.end \in Nat
    BY <2>2, ShareAssumption DEF Offset
  <2> QED BY <2>3 DEF Hits
<1>2. ASSUME TypeOK, NEW n \in Filenos, NEW ofs \in Offset, NEW len \in 0 .. LongMax, NEW ps \in Psp
      PROVE  LET e == EndOf(ofs, len)
                 met == {i \in LockNos :
                           LET l == lock_table[i] IN
                           /\ l.used /\ SameFile(n, l)
                           /\ ofs < e /\ ofs < l.end /\ l.start < e
                           /\ l.start <= ofs \/ e <= l.end}
             IN  Violates(ps, n, ofs, len) <=> \E i \in met : lock_table[i].psp # ps
  <2>1. PICK e : e = EndOf(ofs, len)
    OBVIOUS
  <2>2. ps # AnyPsp
    BY ShareAssumption
  <2>3. Violates(ps, n, ofs, len) <=>
          \E i \in LockNos : /\ lock_table[i].used /\ lock_table[i].psp # ps
                             /\ SameFile(n, lock_table[i])
                             /\ e > ofs /\ Hits(ofs, e, lock_table[i])
    BY <2>1, <2>2 DEF Violates
  <2>4. \A i \in LockNos :
          (e > ofs /\ Hits(ofs, e, lock_table[i])) <=>
             (ofs < e /\ ofs < lock_table[i].end /\ lock_table[i].start < e
              /\ (lock_table[i].start <= ofs \/ e <= lock_table[i].end))
    BY <1>1, <1>2, <2>1
  <2> QED BY <2>1, <2>3, <2>4
<1>3. TypeOK => AccessExact
  BY <1>2 DEF AccessExact
<1> QED BY <1>3, TypeCorrect, PTL


-----------------------------------------------------------------------------
(* How a lock ends *)

(* The lock i ends in this step. *)
Ends(i) == lock_table[i].used /\ ~lock_table'[i].used

NoHandle(s) == \A ps \in Psp, h \in Handles : ps_filetab'[ps][h] # s

EndRule(i) ==
  \/ Unlocked(i)
  \/ \A s \in Sfts : Open(s) /\ sft_shroff[s] = lock_table[i].fileno => NoHandle(s)

(* The handle h was the last one of its SFT entry when SHARE is told. *)
LEMMA LastHandle ==
  ASSUME LockInv, NEW h \in Handles, get_sft(h), DosCloseSft({filetab[h]}),
         NEW v, HandleSet(h, v), v = filetab[h] => sft_count[filetab[h]] # 1,
         NEW i \in LockNos, Ends(i)
  PROVE  EndRule(i)
<1>1. PICK t : t = filetab[h]
  OBVIOUS
<1>2. lock_table'[i] = IF lock_table[i].fileno \in {sft_shroff[s] : s \in LastRefs({t})}
                       THEN NoLock ELSE lock_table[i]
  BY <1>1 DEF DosCloseSft, close_file, LocksWithout
<1>3. t \in Sfts /\ sft_count[t] = 1 /\ sft_shroff[t] = lock_table[i].fileno
  <2>1. lock_table[i].fileno \in {sft_shroff[s] : s \in LastRefs({t})}
    BY <1>2 DEF Ends
  <2>2. PICK s \in LastRefs({t}) : sft_shroff[s] = lock_table[i].fileno
    BY <2>1
  <2>3. s = t /\ sft_count[s] = 1
    BY <2>2 DEF LastRefs
  <2> QED BY <1>1, <2>2, <2>3, GetSft DEF LockInv
<1>4. Open(t)
  <2>1. lock_table[i].fileno \in Filenos
    BY TypeParts DEF LocksTyped, LockType, LockInv
  <2> QED BY <1>3, <2>1, Shroff DEF Open, LockInv
<1>5. References(t)' = {}
  <2>1. v # t
    BY <1>1, <1>3
  <2>2. References(t)' \subseteq References(t) \ {<<cu_psp, h>>}
    BY <2>1, RefsSet
  <2>3. <<cu_psp, h>> \in References(t)
    BY <1>1, Refers DEF LockInv
  <2>4. Bound(References(t), 1)
    BY <1>3 DEF LockInv, Counted
  <2>5. PICK T : T = References(t)'
    OBVIOUS
  <2>6. T \in SUBSET (References(t) \ {<<cu_psp, h>>})
    BY <2>2, <2>5
  <2>7. Bound(T, 1 - 1)
    BY <2>3, <2>4, <2>6, BoundMinus
  <2>8. T = {}
    BY <2>7, BoundZero
  <2> QED BY <2>5, <2>8
<1>6. NoHandle(t)
  <2> SUFFICES ASSUME NEW ps \in Psp, NEW k \in Handles, ps_filetab'[ps][k] = t PROVE FALSE
    BY DEF NoHandle
  <2>1. References(t)' = {x \in Psp \X Handles : ps_filetab'[x[1]][x[2]] = t}
    BY DEF References, Handles
  <2>2. <<ps, k>> \in References(t)'
    BY <2>1
  <2> QED BY <1>5, <2>2
<1>7. ASSUME NEW s \in Sfts, Open(s), sft_shroff[s] = lock_table[i].fileno PROVE s = t
  BY <1>3, <1>4, <1>7 DEF LockInv, SlotInv, SlotPerOpenFile
<1> QED BY <1>6, <1>7 DEF EndRule

(* SHARE keeps its tables, or forgets an entry that was not in use. *)
LEMMA NoLockEnds ==
  ASSUME LockInv, NEW f, NEW fl, DosOpenFails(f, fl), NEW i \in LockNos, Ends(i)
  PROVE  FALSE
<1>1. CASE IsShareInstalled
  <2>1. EntriesOf(NoName) # {} /\ lock_table' = LocksWithout({NewFileno})
    BY <1>1 DEF DosOpenFails, ShareConsents, open_check, close_file
  <2>2. file_table[NewFileno].filename = NoName
    BY <2>1, FirstEntry DEF NewFileno
  <2>3. lock_table[i].fileno = NewFileno
    BY <2>1 DEF LocksWithout, Ends
  <2> QED BY <2>2, <2>3 DEF Ends, LockInv, LocksNested
<1>2. CASE ~IsShareInstalled
  BY <1>2 DEF DosOpenFails, shareVars, Ends
<1> QED BY <1>1, <1>2

LEMMA CloseEnds ==
  ASSUME LockInv, NEW h \in Handles, DosClose(h), NEW i \in LockNos, Ends(i)
  PROVE  EndRule(i)
<1>1. get_sft(h) /\ HandleSet(h, NoSft)
  BY SetHandleSets DEF DosClose, LockInv
<1>2. filetab[h] # NoSft
  BY <1>1 DEF get_sft
<1>3. DosCloseSft({filetab[h]})
  BY DEF DosClose, shareVars, Ends
<1> QED BY <1>1, <1>2, <1>3, LastHandle

LEMMA DupEnds ==
  ASSUME LockInv, NEW old \in Handles, NEW new \in Handles, DosForceDup(old, new),
         NEW i \in LockNos, Ends(i)
  PROVE  EndRule(i)
<1>1. /\ get_sft(old) /\ get_sft(new) /\ DosCloseSft({filetab[new]})
      /\ LET closed == SetHandle(new, NoSft)
         IN  ps_filetab' = [closed EXCEPT ![cu_psp][new] = closed[cu_psp][old]]
  BY DEF DosForceDup, shareVars, Ends
<1>2. PICK v : v = IF old = new THEN NoSft ELSE filetab[old]
  OBVIOUS
<1>3. HandleSet(new, v)
  BY <1>1, <1>2, DupSets DEF LockInv
<1>4. ASSUME v = filetab[new], sft_count[filetab[new]] = 1 PROVE FALSE
  <2>1. PICK t : t = filetab[new]
    OBVIOUS
  <2>2. old # new /\ filetab[old] = t
    BY <1>1, <1>2, <1>4, <2>1 DEF get_sft
  <2>3. t \in Sfts /\ sft_count[t] = 1
    BY <1>1, <1>4, <2>1, GetSft DEF LockInv
  <2>4. <<cu_psp, new>> \in References(t) /\ <<cu_psp, old>> \in References(t)
    BY <2>1, <2>2, Refers DEF LockInv
  <2>5. <<cu_psp, old>> # <<cu_psp, new>>
    BY <2>2
  <2>6. Bound(References(t), 1)
    BY <2>3 DEF LockInv, Counted
  <2>7. PICK T : T = References(t) \ {<<cu_psp, new>>}
    OBVIOUS
  <2>8. Bound(T, 1 - 1)
    BY <2>4, <2>6, <2>7, BoundMinus
  <2>9. T = {}
    BY <2>8, BoundZero
  <2> QED BY <2>4, <2>5, <2>7, <2>9
<1> QED BY <1>1, <1>3, <1>4, LastHandle

LEMMA UnlockEnds ==
  ASSUME LockInv, NEW h \in Handles, NEW r \in Locks, DosLockUnlock(h, r),
         NEW i \in LockNos, Ends(i)
  PROVE  EndRule(i)
<1>1. PICK n : n = sft_shroff[filetab[h]]
  OBVIOUS
<1>2. lock(cu_psp, n, r[1], r[2]) \/ unlock(cu_psp, n, r[1], r[2])
  BY <1>1 DEF DosLockUnlock
<1>3. ~lock(cu_psp, n, r[1], r[2])
  <2> SUFFICES ASSUME lock(cu_psp, n, r[1], r[2]) PROVE FALSE
    OBVIOUS
  <2>1. PICK m : m = LockEntry(TRUE, r[1], EndOf(r[1], r[2]), n, cu_psp)
    OBVIOUS
  <2>2. lock_table' = [lock_table EXCEPT ![Min(FreeLocks)] = m]
    BY <2>1 DEF lock
  <2>3. m.used
    BY <2>1 DEF LockEntry
  <2>4. lock_table'[i] = m \/ lock_table'[i] = lock_table[i]
    BY <2>2, TypeParts DEF LockInv, LocksTyped
  <2> QED BY <2>3, <2>4 DEF Ends
<1>4. unlock(cu_psp, n, r[1], r[2])
  BY <1>2, <1>3
<1>5. lock_table' = [lock_table EXCEPT ![0] = NoLock] /\ lock_table[0].psp = cu_psp
  BY <1>4 DEF unlock, Releases
<1>6. i = 0
  BY <1>5, TypeParts DEF LockInv, LocksTyped, Ends
<1>7. \A j \in LockNos : j # i => lock_table'[j] = lock_table[j]
  BY <1>5, <1>6, TypeParts DEF LockInv, LocksTyped
<1>8. UNCHANGED <<file_table, sftVars, ps_filetab>>
  BY <1>4 DEF unlock, DosLockUnlock
<1> QED BY <1>5, <1>6, <1>7, <1>8 DEF EndRule, Unlocked

LEMMA StepEnds ==
  ASSUME AttrFiles = {}, Transfers = {}, LockInv, [Next]_vars, NEW i \in LockNos, Ends(i)
  PROVE  EndRule(i)
<1>1. lock_table' # lock_table
  BY DEF Ends
<1>2. CASE \E f \in File, fl \in Flags : DosOpenFails(f, fl)
  BY <1>2, NoLockEnds
<1>3. CASE \E h \in Handles : CloseHandle(h)
  BY <1>3, CloseEnds DEF CloseHandle
<1>4. CASE \E old, new \in Handles : DosForceDup(old, new)
  BY <1>4, DupEnds
<1>5. CASE \E h \in Handles : DosDup(h)
  BY <1>5, DupEnds, FreeHndl DEF DosDup, LockInv
<1>6. CASE CloseNext
  <2>1. CASE DosClose(closing)
    BY <1>6, <2>1, CloseEnds, ClosingHandle DEF LockInv
  <2> QED BY <1>1, <1>6, <2>1 DEF CloseNext, shareVars
<1>7. CASE \E h \in Handles, r \in Locks : DosLockUnlock(h, r)
  BY <1>7, UnlockEnds
<1>8. CASE \/ \E f \in File, fl \in Flags : DosOpen(f, fl)
           \/ (\E ps \in Psp : Exec(ps) \/ SetPsp(ps)) \/ Terminate \/ InstallShare \/ UNCHANGED vars
  BY <1>1, <1>8 DEF DosOpen, Exec, SetPsp, Terminate, InstallShare, vars, shareVars
<1> QED BY <1>2, <1>3, <1>4, <1>5, <1>6, <1>7, <1>8 DEF Next

(* A lock ends when its owner unlocks it, or when the last handle of the   *)
(* file is closed: close_file is never called for a file that some handle, *)
(* one of the owner's included, still refers to, through dup, EXEC and the *)
(* close of a terminating process.                                         *)
THEOREM LockAlwaysKept ==
  ASSUME AttrFiles = {}, Transfers = {}
  PROVE  Spec => LockKept
<1>1. LockInv /\ [Next]_vars =>
        [\A i \in LockNos : lock_table[i].used /\ ~lock_table'[i].used =>
           \/ Unlocked(i)
           \/ \A s \in Sfts : Open(s) /\ sft_shroff[s] = lock_table[i].fileno =>
                \A ps \in Psp, h \in Handles : ps_filetab'[ps][h] # s]_vars
  BY StepEnds DEF Ends, EndRule, NoHandle
<1> QED BY <1>1, LockInvariance, PTL DEF Spec, LockKept
=============================================================================
