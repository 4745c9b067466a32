---------------------------- MODULE FilesProofs ----------------------------
(***************************************************************************)
(* Proofs about Files and Share: the types of all tables, and what SHARE's *)
(* file table says about the modes of open files, for tables of every size *)
(* and any number of processes and files.                                  *)
(*                                                                         *)
(* What do_open_check ensures at the time of an open is lost when the      *)
(* first opener closes the file, unless every entry is known to agree with *)
(* the modes that are remembered as the first: that is TableInv.           *)
(***************************************************************************)
EXTENDS Files, FiniteSetTheorems, WellFoundedInduction, TLAPS

LEMMA MinOfNat ==
  ASSUME NEW S \in SUBSET Nat, S # {}
  PROVE  Min(S) \in S /\ \A y \in S : Min(S) <= y
<1> DEFINE Less == {p \in Nat \X Nat : p[1] < p[2]}
<1>1. OpToRel(<, Nat) = Less
  BY Zenon DEF OpToRel
<1>2. IsWellFoundedOn(Less, Nat)
  BY ONLY <1>1, NatLessThanWellFounded
<1>3. PICK x \in S : \A y \in S : ~ (<<y, x>> \in Less)
  BY ONLY <1>2, WFMin, S \in SUBSET Nat, S # {}
<1>4. \A y \in S : x <= y
  <2> SUFFICES ASSUME NEW y \in S, y < x PROVE FALSE
    OBVIOUS
  <2>1. x \in Nat /\ y \in Nat
    OBVIOUS
  <2> DEFINE p == <<y, x>>
  <2>2. p \in Nat \X Nat /\ p[1] = y /\ p[2] = x
    BY <2>1
  <2>3. p \in Less
    <3> HIDE DEF p
    <3> QED BY <2>2
  <2> QED BY <1>3, <2>3
<1> QED BY <1>4 DEF Min

LEMMA FirstEntry ==
  ASSUME NEW f, EntriesOf(f) # {}
  PROVE  /\ Min(EntriesOf(f)) \in Filenos
         /\ file_table[Min(EntriesOf(f))].filename = f
         /\ \A m \in EntriesOf(f) : Min(EntriesOf(f)) <= m
<1>1. EntriesOf(f) \in SUBSET Nat
  BY ShareAssumption DEF EntriesOf, Filenos
<1> QED BY <1>1, MinOfNat DEF EntriesOf

-----------------------------------------------------------------------------
(* The invariant of SHARE's file table. *)
FileType ==
  [filename : File \cup {NoName}, openmode : OpenMode, sharemode : ShareMode,
   first_openmode : OpenMode, first_sharemode : ShareMode]

(* The entry was let in by the modes it remembers. *)
LetIn(e) == Proceeds(e.first_sharemode, e.first_openmode, e.sharemode, e.openmode)

EntriesAgree == \A n \in Filenos : file_table[n].filename # NoName =>
                  IsFirst(file_table[n]) \/ LetIn(file_table[n])
OneFirst == \A i, j \in Filenos : SameName(i, j) =>
              LetIn(file_table[i]) \/ LetIn(file_table[j])

TableInv ==
  /\ file_table \in [Filenos -> FileType]
  /\ FirstAgrees
  /\ EntriesAgree
  /\ OneFirst

(* The three things that SHARE does to the table. *)
TableStep ==
  \/ UNCHANGED file_table
  \/ \E N \in SUBSET Int : file_table' = FilesWithout(N)
  \/ \E f \in File, o \in OpenMode, s \in ShareMode :
       open_check(f, o, s) /\ file_table' = Opened(f, o, s)

LEMMA OpenedKeeps ==
  ASSUME TableInv,
         NEW f \in File, NEW o \in OpenMode, NEW s \in ShareMode,
         open_check(f, o, s), file_table' = Opened(f, o, s)
  PROVE  TableInv'
<1> DEFINE k == NewFileno
           e == NewEntry(f, o, s)
<1>1. k \in Filenos /\ file_table[k].filename = NoName
  BY FirstEntry DEF open_check, NewFileno
<1>2. /\ e \in FileType /\ e.filename = f /\ e.openmode = o /\ e.sharemode = s
      /\ EntriesOf(f) = {} => IsFirst(e)
      /\ \A m \in EntriesOf(f) :
           /\ e.first_openmode = file_table[m].first_openmode
           /\ e.first_sharemode = file_table[m].first_sharemode
           /\ LetIn(e)
  <2>1. CASE EntriesOf(f) = {}
    BY <2>1 DEF NewEntry, FileEntry, FileType, IsFirst
  <2>2. CASE EntriesOf(f) # {}
    <3> DEFINE m == Min(EntriesOf(f))
               p == file_table[m]
    <3>1. m \in EntriesOf(f) /\ m \in Filenos /\ \A x \in EntriesOf(f) : m <= x
      BY <2>2, FirstEntry DEF EntriesOf
    <3>2. p \in FileType
      BY <3>1 DEF TableInv
    <3>3. e = FileEntry(f, o, s, p.first_openmode, p.first_sharemode)
      BY <2>2 DEF NewEntry
    <3>4. /\ e.first_openmode = p.first_openmode /\ e.first_sharemode = p.first_sharemode
          /\ e \in FileType /\ e.filename = f /\ e.openmode = o /\ e.sharemode = s
      BY <3>2, <3>3 DEF FileEntry, FileType
    <3>5. LetIn(e)
      BY <3>1, <3>4 DEF open_check, do_open_check, LetIn
    <3>6. \A x \in EntriesOf(f) :
             /\ p.first_openmode = file_table[x].first_openmode
             /\ p.first_sharemode = file_table[x].first_sharemode
      <4> SUFFICES ASSUME NEW x \in EntriesOf(f), x # m
                   PROVE  /\ p.first_openmode = file_table[x].first_openmode
                          /\ p.first_sharemode = file_table[x].first_sharemode
        OBVIOUS
      <4>1. SameName(m, x) /\ x \in Filenos
        BY <3>1, ShareAssumption DEF SameName, EntriesOf
      <4> QED BY <3>1, <4>1 DEF TableInv, FirstAgrees
    <3> QED BY <2>2, <3>4, <3>5, <3>6
  <2> QED BY <2>1, <2>2
<1> HIDE DEF e, k
<1>3. file_table' = [file_table EXCEPT ![k] = e]
  BY DEF Opened, e, k
<1>4. file_table' \in [Filenos -> FileType]
  BY <1>1, <1>2, <1>3 DEF TableInv
<1>5. file_table'[k] = e /\ \A n \in Filenos \ {k} : file_table'[n] = file_table[n]
  BY <1>1, <1>3 DEF TableInv
<1>6. \A n \in Filenos \ {k} : file_table[n].filename = f <=> n \in EntriesOf(f)
  BY DEF EntriesOf
<1>7. FirstAgrees'
  <2> SUFFICES ASSUME NEW i \in Filenos, NEW j \in Filenos, SameName(i, j)'
               PROVE  /\ file_table'[i].first_sharemode = file_table'[j].first_sharemode
                      /\ file_table'[i].first_openmode = file_table'[j].first_openmode
    BY DEF FirstAgrees, Filenos
  <2>1. CASE i # k /\ j # k
    BY <2>1, <1>5 DEF TableInv, FirstAgrees, SameName
  <2>2. CASE i = k
    BY <2>2, <1>2, <1>5, <1>6 DEF SameName
  <2>3. CASE j = k
    BY <2>3, <1>2, <1>5, <1>6 DEF SameName
  <2> QED BY <2>1, <2>2, <2>3
<1>8. EntriesAgree'
  <2> SUFFICES ASSUME NEW n \in Filenos, file_table'[n].filename # NoName
               PROVE  IsFirst(file_table'[n]) \/ LetIn(file_table'[n])
    BY DEF EntriesAgree, IsFirst, LetIn, Filenos
  <2> QED BY <1>2, <1>5 DEF TableInv, EntriesAgree
<1>9. OneFirst'
  <2> SUFFICES ASSUME NEW i \in Filenos, NEW j \in Filenos, SameName(i, j)'
               PROVE  LetIn(file_table'[i]) \/ LetIn(file_table'[j])
    BY DEF OneFirst, LetIn, Filenos
  <2>1. CASE i # k /\ j # k
    BY <2>1, <1>5 DEF TableInv, OneFirst, SameName
  <2>2. CASE i = k
    BY <2>2, <1>2, <1>5, <1>6 DEF SameName
  <2>3. CASE j = k
    BY <2>3, <1>2, <1>5, <1>6 DEF SameName
  <2> QED BY <2>1, <2>2, <2>3
<1> QED BY <1>4, <1>7, <1>8, <1>9 DEF TableInv, FileType, Filenos, OpenMode, ShareMode

LEMMA ClosedKeeps ==
  ASSUME TableInv, NEW N, file_table' = FilesWithout(N)
  PROVE  TableInv'
<1>1. NoFile \in FileType /\ NoFile.filename = NoName
  BY DEF NoFile, FileEntry, FileType, OpenMode, ShareMode
<1>2. \A n \in Filenos : file_table'[n] = file_table[n] \/ file_table'[n].filename = NoName
  BY <1>1 DEF FilesWithout
<1>3. file_table' \in [Filenos -> FileType]
  BY <1>1 DEF FilesWithout, TableInv
<1>4. FirstAgrees'
  BY <1>2 DEF TableInv, FirstAgrees, SameName, Filenos
<1>5. EntriesAgree'
  BY <1>2 DEF TableInv, EntriesAgree, IsFirst, LetIn, Filenos
<1>6. OneFirst'
  BY <1>2 DEF TableInv, OneFirst, LetIn, SameName, Filenos
<1> QED BY <1>3, <1>4, <1>5, <1>6 DEF TableInv, FileType, Filenos, OpenMode, ShareMode

LEMMA TableStepKeeps == TableInv /\ TableStep => TableInv'
<1> SUFFICES ASSUME TableInv, TableStep PROVE TableInv'
  OBVIOUS
<1>1. CASE UNCHANGED file_table
  BY <1>1 DEF TableInv, FirstAgrees, EntriesAgree, OneFirst, SameName, FileType, Filenos,
     OpenMode, ShareMode, IsFirst, LetIn
<1>2. CASE \E N \in SUBSET Int : file_table' = FilesWithout(N)
  BY <1>2, ClosedKeeps
<1>3. CASE \E f \in File, o \in OpenMode, s \in ShareMode :
             open_check(f, o, s) /\ file_table' = Opened(f, o, s)
  BY <1>3, OpenedKeeps
<1> QED BY <1>1, <1>2, <1>3 DEF TableStep

-----------------------------------------------------------------------------
(* The types, table by table. *)
LockType ==
  [used : BOOLEAN, start : Offset, end : Offset, fileno : Filenos, psp : Psp \cup {AnyPsp}]
FilesTyped == file_table \in [Filenos -> FileType]
LocksTyped == lock_table \in [LockNos -> LockType]
CountTyped == sft_count \in [Sfts -> 0 .. MaxCount]
SftTyped ==
  /\ sft_name \in [Sfts -> File \cup {NoName}]
  /\ sft_mode \in [Sfts -> AllFlags]
  /\ sft_shroff \in [Sfts -> Filenos \cup {-1}]
HandlesTyped == ps_filetab \in [Psp -> [Handles -> Sfts \cup {NoSft}]]
ProcTyped ==
  /\ ps_parent \in [Psp -> Psp \cup {NoPsp}]
  /\ cu_psp \in Psp /\ closing \in 0 .. ps_maxfiles
FlagsTyped == resident \in BOOLEAN /\ share_installed \in BOOLEAN

LEMMA TypeParts ==
  TypeOK <=> /\ FilesTyped /\ LocksTyped /\ CountTyped /\ SftTyped
             /\ HandlesTyped /\ ProcTyped /\ FlagsTyped
BY DEF TypeOK, ShareTypeOK, FilesTyped, FileType, LocksTyped, LockType, CountTyped, SftTyped,
   HandlesTyped, ProcTyped, FlagsTyped

LEMMA TypePartsNext ==
  TypeOK' <=> /\ FilesTyped' /\ LocksTyped' /\ CountTyped' /\ SftTyped'
              /\ HandlesTyped' /\ ProcTyped' /\ FlagsTyped'
BY TypeParts, PTL

LEMMA NoEntries ==
  /\ NoFile \in FileType
  /\ NoLock \in LockType
  /\ NoFlags \in AllFlags
<1>1. NoFile \in FileType
  BY DEF NoFile, FileEntry, FileType, OpenMode, ShareMode
<1>2. NoLock \in LockType
  BY ShareAssumption DEF NoLock, LockEntry, LockType, Offset, Filenos
<1>3. NoFlags \in AllFlags
  BY DEF NoFlags, AllFlags, OpenMode, ShareMode
<1> QED BY <1>1, <1>2, <1>3

LEMMA CloseFileTypes ==
  ASSUME FilesTyped, LocksTyped, NEW N, close_file(N)
  PROVE  FilesTyped' /\ LocksTyped'
<1>1. FilesTyped'
  BY NoEntries DEF close_file, FilesWithout, FilesTyped, FileType, Filenos, OpenMode, ShareMode
<1>2. LocksTyped'
  BY NoEntries DEF close_file, LocksWithout, LocksTyped, LockType, LockNos, Offset, Filenos
<1> QED BY <1>1, <1>2

LEMMA OpenedTypes ==
  ASSUME FilesTyped, NEW f \in File, NEW o \in OpenMode, NEW s \in ShareMode,
         open_check(f, o, s)
  PROVE  NewFileno \in Filenos /\ Opened(f, o, s) \in [Filenos -> FileType]
<1>1. NewFileno \in Filenos
  BY FirstEntry DEF open_check, NewFileno
<1>2. NewEntry(f, o, s) \in FileType
  <2>1. CASE EntriesOf(f) = {}
    BY <2>1 DEF NewEntry, FileEntry, FileType
  <2>2. CASE EntriesOf(f) # {}
    <3>1. file_table[Min(EntriesOf(f))] \in FileType
      BY <2>2, FirstEntry DEF FilesTyped
    <3> QED BY <2>2, <3>1 DEF NewEntry, FileEntry, FileType
  <2> QED BY <2>1, <2>2
<1> QED BY <1>1, <1>2 DEF Opened, FilesTyped

LEMMA EndOfType ==
  ASSUME NEW ofs \in Offset, NEW len \in 0 .. LongMax
  PROVE  EndOf(ofs, len) \in Offset
<1>1. (ofs + len) % (LongMax + 1) \in Offset
  BY ShareAssumption DEF Offset
<1> QED BY <1>1, ShareAssumption DEF EndOf, Offset

LEMMA LockTypes ==
  ASSUME LocksTyped, NEW ps \in Psp, NEW n \in Filenos, NEW r \in Regions,
         lock(ps, n, r[1], r[2]) \/ unlock(ps, n, r[1], r[2])
  PROVE  LocksTyped' /\ file_table' = file_table
<1>0. r[1] \in Offset /\ r[2] \in 0 .. LongMax
  BY DEF Regions
<1>1. CASE lock(ps, n, r[1], r[2])
  <2>1. LockEntry(TRUE, r[1], EndOf(r[1], r[2]), n, ps) \in LockType
    BY <1>0, EndOfType DEF LockEntry, LockType
  <2> QED BY <1>1, <2>1 DEF lock, LocksTyped, LockType, LockNos, Offset, Filenos
<1>2. CASE unlock(ps, n, r[1], r[2])
  BY <1>2, NoEntries DEF unlock, LocksTyped, LockType, LockNos, Offset, Filenos
<1> QED BY <1>1, <1>2

LEMMA CountsAfterType ==
  ASSUME CountTyped, NEW S, \A s \in S : sft_count[s] # 0
  PROVE  CountsAfter(S) \in [Sfts -> 0 .. MaxCount]
BY FilesAssumption DEF CountTyped, CountsAfter, Sfts

LEMMA CloseSftTypes ==
  ASSUME TypeOK, NEW S, CountTyped', DosCloseSft(S)
  PROVE  FilesTyped' /\ LocksTyped' /\ SftTyped' /\ share_installed' \in BOOLEAN
<1>1. FilesTyped' /\ LocksTyped'
  BY TypeParts, CloseFileTypes DEF DosCloseSft
<1>2. SftTyped'
  BY TypeParts, NoEntries DEF DosCloseSft, ForgetUnused, SftTyped, AllFlags, Sfts, Filenos,
     OpenMode, ShareMode
<1>3. share_installed' \in BOOLEAN
  BY Zenon DEF DosCloseSft
<1> QED BY <1>1, <1>2, <1>3

-----------------------------------------------------------------------------
(* A handle of the current process that is in use. *)
LEMMA GetSft ==
  ASSUME TypeOK, NEW h \in Handles, get_sft(h)
  PROVE  filetab[h] \in Sfts /\ sft_count[filetab[h]] # 0
BY TypeParts DEF get_sft, filetab, HandlesTyped, ProcTyped

LEMMA SetHandleType ==
  ASSUME TypeOK, NEW h \in Handles, NEW s \in Sfts \cup {NoSft}
  PROVE  SetHandle(h, s) \in [Psp -> [Handles -> Sfts \cup {NoSft}]]
BY TypeParts DEF SetHandle, HandlesTyped, ProcTyped

LEMMA RecheckType == FlagsTyped /\ Recheck => share_installed' \in BOOLEAN
BY Zenon DEF Recheck, IsShareInstalled, FlagsTyped

LEMMA FreeHndl ==
  ASSUME TypeOK, FreeHndls # {}
  PROVE  Min(FreeHndls) \in Handles
<1>1. FreeHndls \in SUBSET Nat
  BY FilesAssumption DEF FreeHndls, Handles
<1> QED BY <1>1, MinOfNat DEF FreeHndls

LEMMA DosCloseTypes ==
  ASSUME TypeOK, NEW h \in Handles, DosClose(h)
  PROVE  /\ FilesTyped' /\ LocksTyped' /\ CountTyped' /\ SftTyped' /\ HandlesTyped'
         /\ share_installed' \in BOOLEAN
<1>1. HandlesTyped'
  BY SetHandleType DEF DosClose, HandlesTyped, Handles, Sfts
<1>2. CASE sft_count' = CountsAfter({filetab[h]}) /\ DosCloseSft({filetab[h]})
  <2>1. CountTyped'
    BY <1>2, TypeParts, GetSft, CountsAfterType DEF CountTyped, Sfts, DosClose
  <2> QED BY <1>1, <1>2, <2>1, CloseSftTypes
<1>3. CASE UNCHANGED <<shareVars, sftVars, share_installed>>
  BY <1>1, <1>3, TypeParts DEF shareVars, sftVars, FilesTyped, LocksTyped, CountTyped, SftTyped,
     FlagsTyped
<1> QED BY <1>2, <1>3 DEF DosClose

-----------------------------------------------------------------------------
LEMMA TypeInit == Init => TypeOK
<1> SUFFICES ASSUME Init PROVE TypeOK
  OBVIOUS
<1>1. FilesTyped /\ LocksTyped
  BY NoEntries DEF Init, ShareInit, FilesTyped, LocksTyped
<1>2. CountTyped /\ SftTyped
  BY NoEntries, FilesAssumption DEF Init, CountTyped, SftTyped
<1>3. HandlesTyped /\ ProcTyped
  BY FilesAssumption DEF Init, HandlesTyped, ProcTyped, NotClosing
<1>4. FlagsTyped
  BY DEF Init, FlagsTyped
<1> QED BY <1>1, <1>2, <1>3, <1>4, TypeParts

LEMMA TypeDosOpen ==
  ASSUME TypeOK, NEW f \in File, NEW fl \in Flags, DosOpen(f, fl)
  PROVE  TypeOK'
<1> DEFINE s == Min(FreeSfts)
<1>1. s \in Sfts
  <2>1. FreeSfts \in SUBSET Nat /\ FreeSfts # {}
    BY FilesAssumption DEF FreeSfts, Sfts, DosOpen
  <2> QED BY <2>1, MinOfNat DEF FreeSfts
<1>2. fl \in AllFlags /\ fl.open \in OpenMode /\ fl.share \in ShareMode
  BY FilesAssumption DEF AllFlags
<1>3. IsShareInstalled => /\ NewFileno \in Filenos
                          /\ Opened(f, fl.open, fl.share) \in [Filenos -> FileType]
  BY <1>2, TypeParts, OpenedTypes DEF DosOpen, ShareConsents
<1>4. FilesTyped' /\ LocksTyped'
  BY <1>3, TypeParts DEF DosOpen, FilesTyped, LocksTyped
<1>5. CountTyped' /\ SftTyped'
  <2>1. sft_count' = [sft_count EXCEPT ![s] = 1]
    BY DEF DosOpen
  <2>2. CountTyped'
    BY <1>1, <2>1, TypeParts, FilesAssumption DEF CountTyped
  <2>3. sft_name' = [sft_name EXCEPT ![s] = f] /\ sft_mode' = [sft_mode EXCEPT ![s] = fl]
    BY DEF DosOpen
  <2>4. PICK n \in Filenos \cup {-1} : sft_shroff' = [sft_shroff EXCEPT ![s] = n]
    BY <1>3 DEF DosOpen
  <2> QED BY <1>1, <1>2, <2>2, <2>3, <2>4, TypeParts DEF SftTyped
<1>6. HandlesTyped'
  BY <1>1, FreeHndl, SetHandleType DEF DosOpen, HandlesTyped
<1>7. ProcTyped' /\ FlagsTyped'
  <2>1. share_installed' \in BOOLEAN
    BY TypeParts, RecheckType DEF DosOpen
  <2> QED BY <2>1, TypeParts DEF DosOpen, ProcTyped, FlagsTyped, procVars
<1> QED BY <1>4, <1>5, <1>6, <1>7, TypePartsNext

LEMMA TypeDosOpenFails ==
  ASSUME TypeOK, NEW f \in File, NEW fl \in Flags, DosOpenFails(f, fl)
  PROVE  TypeOK'
<1>1. FilesTyped' /\ LocksTyped'
  <2>1. CASE IsShareInstalled
    BY <2>1, TypeParts, CloseFileTypes DEF DosOpenFails
  <2>2. CASE ~IsShareInstalled
    BY <2>2, TypeParts DEF DosOpenFails, FilesTyped, LocksTyped, shareVars
  <2> QED BY <2>1, <2>2
<1>2. share_installed' \in BOOLEAN
  BY TypeParts, RecheckType DEF DosOpenFails
<1>3. CountTyped' /\ SftTyped' /\ HandlesTyped' /\ ProcTyped' /\ FlagsTyped'
  BY <1>2, TypeParts DEF DosOpenFails, CountTyped, SftTyped, HandlesTyped, ProcTyped, FlagsTyped,
     sftVars, procVars
<1> QED BY <1>1, <1>3, TypePartsNext

LEMMA TypeCloseHandle ==
  ASSUME TypeOK, NEW h \in Handles, CloseHandle(h)
  PROVE  TypeOK'
BY DosCloseTypes, TypeParts, TypePartsNext DEF CloseHandle, ProcTyped, FlagsTyped, procVars

LEMMA TypeForceDup ==
  ASSUME TypeOK, NEW old \in Handles, NEW new \in Handles, DosForceDup(old, new)
  PROVE  TypeOK'
<1> DEFINE s == filetab[old]
           t == filetab[new]
           closed == SetHandle(new, NoSft)
<1>1. s \in Sfts /\ sft_count[s] \in 1 .. MaxCount /\ sft_count[s] < MaxCount
  BY GetSft, TypeParts DEF DosForceDup, CountTyped
<1>2. ProcTyped' /\ resident' \in BOOLEAN
  BY TypeParts DEF DosForceDup, ProcTyped, FlagsTyped, procVars
<1>3. ASSUME NEW C \in [Sfts -> 0 .. MaxCount], C[s] < MaxCount,
             sft_count' = [C EXCEPT ![s] = @ + 1]
      PROVE  CountTyped'
  BY <1>1, <1>3, FilesAssumption DEF CountTyped
<1>4. CASE /\ t = NoSft
           /\ ps_filetab' = SetHandle(new, s)
           /\ sft_count' = [sft_count EXCEPT ![s] = @ + 1]
           /\ UNCHANGED <<shareVars, sft_name, sft_mode, sft_shroff, share_installed>>
  <2>1. CountTyped'
    BY <1>1, <1>3, <1>4, TypeParts DEF CountTyped
  <2>2. HandlesTyped'
    BY <1>1, <1>4, SetHandleType DEF HandlesTyped
  <2> QED BY <1>2, <1>4, <2>1, <2>2, TypeParts, TypePartsNext DEF shareVars, FilesTyped, LocksTyped,
          SftTyped, FlagsTyped
<1>5. CASE /\ get_sft(new)
           /\ ps_filetab' = [closed EXCEPT ![cu_psp][new] = closed[cu_psp][old]]
           /\ sft_count' = [CountsAfter({t}) EXCEPT ![s] = @ + 1]
           /\ DosCloseSft({t})
  <2>1. CountTyped'
    <3>1. CountsAfter({t}) \in [Sfts -> 0 .. MaxCount]
      BY <1>5, GetSft, TypeParts, CountsAfterType
    <3>2. CountsAfter({t})[s] < MaxCount
      <4>1. CountsAfter({t})[s] = sft_count[s] - (IF s \in {t} THEN 1 ELSE 0)
        BY <1>1 DEF CountsAfter
      <4> QED BY <1>1, <4>1, FilesAssumption
    <3> QED BY <1>3, <1>5, <3>1, <3>2
  <2>2. HandlesTyped'
    <3>1. closed \in [Psp -> [Handles -> Sfts \cup {NoSft}]]
      BY SetHandleType
    <3> HIDE DEF closed
    <3>2. cu_psp \in Psp /\ closed[cu_psp] \in [Handles -> Sfts \cup {NoSft}]
      BY <3>1, TypeParts DEF ProcTyped
    <3>3. closed[cu_psp][old] \in Sfts \cup {NoSft}
      BY <3>2
    <3> QED BY <1>5, <3>1, <3>2, <3>3 DEF HandlesTyped
  <2> QED BY <1>2, <1>5, <2>1, <2>2, CloseSftTypes, TypePartsNext DEF FlagsTyped
<1>6. CASE ps_filetab' = closed /\ UNCHANGED <<shareVars, sftVars, share_installed>>
  <2>1. HandlesTyped'
    BY <1>6, SetHandleType DEF HandlesTyped
  <2> QED BY <1>2, <1>6, <2>1, TypeParts, TypePartsNext DEF shareVars, sftVars, FilesTyped,
          LocksTyped, CountTyped, SftTyped, FlagsTyped
<1> QED BY <1>4, <1>5, <1>6 DEF DosForceDup

LEMMA TypeDosDup ==
  ASSUME TypeOK, NEW h \in Handles, DosDup(h)
  PROVE  TypeOK'
BY FreeHndl, TypeForceDup DEF DosDup

(* The current process exists, and while it ends its parent does. *)
ParentLives ==
  /\ ps_parent[cu_psp] # NoPsp
  /\ ~Idle => ps_parent[cu_psp] # cu_psp /\ ps_parent[ps_parent[cu_psp]] # NoPsp

LEMMA ParentLivesNext ==
  ASSUME TypeOK, ParentLives, [Next]_vars
  PROVE  ParentLives'
<1> USE TypeParts, FilesAssumption DEF ProcTyped, ParentLives, Idle, NotClosing
<1>1. CASE UNCHANGED procVars
  BY <1>1 DEF procVars
<1>2. CASE \E ps \in Psp : Exec(ps)
  BY <1>2 DEF Exec
<1>3. CASE \E ps \in Psp : SetPsp(ps)
  BY <1>3 DEF SetPsp
<1>4. CASE Terminate
  BY <1>4 DEF Terminate
<1>5. CASE CloseNext
  BY <1>5 DEF CloseNext
<1> QED BY <1>1, <1>2, <1>3, <1>4, <1>5 DEF Next, vars, DosOpen, DosOpenFails, CloseHandle, DosDup,
        DosForceDup, DosLockUnlock, DosRWSft, DosSetFattr, InstallShare

LEMMA TypeExec ==
  ASSUME TypeOK, NEW ps \in Psp, Exec(ps)
  PROVE  TypeOK'
<1> DEFINE H(s) == {h \in Handles : CloneHandle(h) /\ filetab[h] = s}
<1>1. \A s \in Sfts : Cardinality(H(s)) \in Nat
  <2> SUFFICES ASSUME NEW s \in Sfts PROVE Cardinality(H(s)) \in Nat
    OBVIOUS
  <2>1. IsFiniteSet(Handles)
    BY FilesAssumption, FS_Interval DEF Handles
  <2>2. IsFiniteSet(H(s))
    BY <2>1, FS_Subset
  <2> QED BY <2>2, FS_CardinalityType
<1>2. CountTyped'
  <2>1. sft_count' = [s \in Sfts |-> sft_count[s] + Cardinality(H(s))]
    BY DEF Exec
  <2>2. \A s \in Sfts : sft_count'[s] <= MaxCount
    BY DEF Exec
  <2> HIDE DEF H
  <2>3. \A s \in Sfts : sft_count'[s] \in 0 .. MaxCount
    BY <1>1, <2>1, <2>2, TypeParts, FilesAssumption DEF CountTyped
  <2> QED BY <2>1, <2>3 DEF CountTyped
<1>3. HandlesTyped'
  <2>1. filetab \in [Handles -> Sfts \cup {NoSft}]
    BY TypeParts DEF filetab, HandlesTyped, ProcTyped
  <2>2. [h \in Handles |-> IF CloneHandle(h) THEN filetab[h] ELSE NoSft]
          \in [Handles -> Sfts \cup {NoSft}]
    BY <2>1
  <2> QED BY <2>2, TypeParts DEF Exec, HandlesTyped
<1>4. ProcTyped'
  BY TypeParts DEF Exec, ProcTyped
<1>5. FilesTyped' /\ LocksTyped' /\ SftTyped' /\ FlagsTyped'
  BY TypeParts DEF Exec, shareVars, FilesTyped, LocksTyped, SftTyped, FlagsTyped
<1> QED BY <1>2, <1>3, <1>4, <1>5, TypePartsNext

LEMMA TypeCloseNext ==
  ASSUME TypeOK, ParentLives, CloseNext
  PROVE  TypeOK'
<1>1. closing \in Handles
  BY TypeParts, FilesAssumption DEF CloseNext, Idle, NotClosing, ProcTyped, Handles
<1>2. /\ FilesTyped' /\ LocksTyped' /\ CountTyped' /\ SftTyped' /\ HandlesTyped'
      /\ share_installed' \in BOOLEAN
  <2>1. CASE DosClose(closing)
    BY <1>1, <2>1, DosCloseTypes
  <2>2. CASE UNCHANGED <<shareVars, sftVars, ps_filetab, share_installed>>
    BY <2>2, TypeParts DEF shareVars, sftVars, FilesTyped, LocksTyped, CountTyped, SftTyped,
       HandlesTyped, FlagsTyped
  <2> QED BY <2>1, <2>2 DEF CloseNext
<1>3. closing' \in 0 .. ps_maxfiles
  BY <1>1, FilesAssumption DEF CloseNext, Handles
<1>4. ps_parent' \in [Psp -> Psp \cup {NoPsp}]
  <2>1. \/ ps_parent' = ps_parent
        \/ ps_parent' = [ps_parent EXCEPT ![cu_psp] = NoPsp]
    BY DEF CloseNext
  <2> QED BY <2>1, TypeParts DEF ProcTyped
<1>5. cu_psp' \in Psp
  BY TypeParts DEF CloseNext, ParentLives, ProcTyped
<1>6. resident' \in BOOLEAN
  BY TypeParts DEF CloseNext, FlagsTyped
<1> QED BY <1>2, <1>3, <1>4, <1>5, <1>6, TypePartsNext DEF ProcTyped, FlagsTyped

(* The entry of SHARE that a handle uses. *)
LEMMA SharedFileno ==
  ASSUME TypeOK, NEW h \in Handles, Shared(h)
  PROVE  sft_shroff[filetab[h]] \in Filenos
BY TypeParts, GetSft DEF Shared, SftTyped

LEMMA TypeDosLockUnlock ==
  ASSUME TypeOK, NEW h \in Handles, NEW r \in Locks, DosLockUnlock(h, r)
  PROVE  TypeOK'
<1>1. r \in Regions /\ cu_psp \in Psp
  BY FilesAssumption, TypeParts DEF ProcTyped
<1>2. LocksTyped' /\ file_table' = file_table
  BY <1>1, TypeParts, SharedFileno, LockTypes DEF DosLockUnlock
<1> QED BY <1>2, TypeParts, TypePartsNext DEF DosLockUnlock, sftVars, procVars, FilesTyped,
        CountTyped, SftTyped, HandlesTyped, ProcTyped, FlagsTyped

LEMMA RefusedTable ==
  ASSUME TypeOK, NEW h \in Handles, NEW r, DosRWSft(h, r)
  PROVE  file_table' = FilesWithout({sft_shroff[filetab[h]]})
BY TypeParts, SharedFileno DEF DosRWSft, access_check, FilesWithout, FilesTyped

LEMMA TypeDosRWSft ==
  ASSUME TypeOK, NEW h \in Handles, NEW r, DosRWSft(h, r)
  PROVE  TypeOK'
<1>1. FilesTyped'
  BY TypeParts, RefusedTable, NoEntries DEF FilesWithout, FilesTyped
<1>2. LocksTyped'
  BY TypeParts DEF DosRWSft, access_check, LocksTyped
<1> QED BY <1>1, <1>2, TypeParts, TypePartsNext DEF DosRWSft, sftVars, procVars,
        CountTyped, SftTyped, HandlesTyped, ProcTyped, FlagsTyped

LEMMA TypeDosSetFattr ==
  ASSUME TypeOK, NEW f \in AttrFiles, NEW bad, DosSetFattr(f, bad)
  PROVE  TypeOK'
<1> DEFINE S == {s \in Sfts : sft_count[s] # 0 /\ sft_name[s] = f /\ s < bad}
<1>1. FilesTyped' /\ LocksTyped'
  BY TypeParts, CloseFileTypes DEF DosSetFattr
<1>2. CountTyped'
  <2>1. sft_count' = CountsAfter(S)
    BY DEF DosSetFattr
  <2> QED BY <2>1, TypeParts, CountsAfterType DEF CountTyped
<1>3. SftTyped'
  BY TypeParts, NoEntries DEF DosSetFattr, ForgetUnused, SftTyped
<1>4. share_installed' \in BOOLEAN
  BY TypeParts, RecheckType DEF DosSetFattr
<1> QED BY <1>1, <1>2, <1>3, <1>4, TypeParts, TypePartsNext DEF DosSetFattr, procVars,
        HandlesTyped, ProcTyped, FlagsTyped

LEMMA TypeOthers ==
  ASSUME TypeOK, (\E ps \in Psp : SetPsp(ps)) \/ Terminate \/ InstallShare \/ UNCHANGED vars
  PROVE  TypeOK'
<1> USE TypeParts, TypePartsNext DEF shareVars, sftVars, FilesTyped, LocksTyped, CountTyped,
        SftTyped, HandlesTyped, ProcTyped, FlagsTyped
<1>1. CASE \E ps \in Psp : SetPsp(ps)
  BY <1>1 DEF SetPsp
<1>2. CASE Terminate
  BY <1>2, FilesAssumption DEF Terminate
<1>3. CASE InstallShare
  BY <1>3 DEF InstallShare, procVars
<1>4. CASE UNCHANGED vars
  BY <1>4 DEF vars, procVars
<1> QED BY <1>1, <1>2, <1>3, <1>4

LEMMA TypeNext == TypeOK /\ ParentLives /\ [Next]_vars => TypeOK'
<1> SUFFICES ASSUME TypeOK, ParentLives, [Next]_vars PROVE TypeOK'
  OBVIOUS
<1> QED BY TypeDosOpen, TypeDosOpenFails, TypeCloseHandle, TypeDosDup, TypeForceDup, TypeExec,
        TypeCloseNext, TypeDosLockUnlock, TypeDosRWSft, TypeDosSetFattr, TypeOthers DEF Next

(* Every table of the kernel and of SHARE keeps its type through every     *)
(* system call: handles name SFT entries, SFT entries name entries of      *)
(* SHARE's table, counts and lock regions stay in range.                   *)
THEOREM TypeCorrect == Spec => []TypeOK
<1>1. Init => ParentLives
  BY FilesAssumption DEF Init, ParentLives, Idle
<1> QED BY <1>1, TypeInit, TypeNext, ParentLivesNext, PTL DEF Spec

-----------------------------------------------------------------------------
LEMMA StepOfTable == TypeOK /\ [Next]_vars => TableStep
<1> SUFFICES ASSUME TypeOK, [Next]_vars PROVE TableStep
  OBVIOUS
<1>1. ASSUME NEW N, close_file(N) PROVE \E M \in SUBSET Int : file_table' = FilesWithout(M)
  <2>1. FilesWithout(N) = FilesWithout(N \cap Int)
    BY ShareAssumption DEF FilesWithout, Filenos
  <2> QED BY <1>1, <2>1 DEF close_file
<1>2. ASSUME NEW h, DosClose(h) PROVE TableStep
  BY <1>1, <1>2 DEF DosClose, DosCloseSft, TableStep, shareVars
<1>3. ASSUME NEW old, NEW new, DosForceDup(old, new) PROVE TableStep
  BY <1>1, <1>3 DEF DosForceDup, DosCloseSft, TableStep, shareVars
<1>4. ASSUME NEW f \in File, NEW fl \in Flags, DosOpen(f, fl) PROVE TableStep
  <2>1. fl.open \in OpenMode /\ fl.share \in ShareMode
    BY FilesAssumption DEF AllFlags
  <2> QED BY <1>4, <2>1 DEF DosOpen, ShareConsents, TableStep
<1>5. ASSUME NEW f, NEW fl, DosOpenFails(f, fl) PROVE TableStep
  BY <1>1, <1>5 DEF DosOpenFails, TableStep, shareVars
<1>6. ASSUME NEW h \in Handles, NEW r, DosRWSft(h, r) PROVE TableStep
  <2>1. sft_shroff[filetab[h]] \in Int
    BY <1>6, SharedFileno, ShareAssumption DEF DosRWSft, Filenos
  <2> QED BY <1>6, <2>1, RefusedTable DEF TableStep
<1>7. ASSUME NEW h, NEW r, DosLockUnlock(h, r) PROVE TableStep
  BY <1>7 DEF DosLockUnlock, lock, unlock, TableStep
<1>8. ASSUME NEW f, NEW bad, DosSetFattr(f, bad) PROVE TableStep
  BY <1>1, <1>8 DEF DosSetFattr, TableStep
<1>9. CASE CloseNext
  BY <1>2, <1>9 DEF CloseNext, TableStep, shareVars
<1>10. CASE \/ \E ps \in Psp : Exec(ps) \/ SetPsp(ps)
            \/ Terminate \/ InstallShare \/ UNCHANGED vars
  BY <1>10 DEF Exec, SetPsp, Terminate, InstallShare, vars, TableStep, shareVars
<1>11. ASSUME NEW h, CloseHandle(h) \/ DosDup(h) PROVE TableStep
  BY <1>2, <1>3, <1>11 DEF CloseHandle, DosDup
<1> QED BY <1>3, <1>4, <1>5, <1>6, <1>7, <1>8, <1>9, <1>10, <1>11 DEF Next

(* What SHARE's file table says holds after any sequence of opens, closes, *)
(* dups, EXECs, terminations, locks and refused transfers.                 *)
THEOREM TableInvariance == Spec => []TableInv
<1>1. Init => TableInv
  BY NoEntries, ShareAssumption DEF Init, ShareInit, TableInv, FirstAgrees, EntriesAgree, OneFirst,
     SameName, NoFile, FileEntry
<1>2. TypeOK /\ TableInv /\ [Next]_vars => TableInv'
  BY StepOfTable, TableStepKeeps
<1> QED BY <1>1, <1>2, TypeCorrect, PTL DEF Spec

(* All entries of a file remember the modes of the same first open,        *)
(* however many programs opened and closed the file since.                 *)
THEOREM FirstAlwaysAgrees == Spec => []FirstAgrees
BY TableInvariance, PTL DEF TableInv

(* The sharing mode of the first open binds all later ones, also after the *)
(* first opener is gone: who does what it denies is the first open itself. *)
THEOREM FirstDenyAlwaysHonoured == Spec => []FirstDenyHonoured
<1>1. ASSUME NEW e \in FileType, LetIn(e)
      PROVE  /\ Permitted(e)
             /\ e.first_sharemode = SHARE_DENY_WRITE => e.first_openmode = OPEN_READ_ONLY
  <2>1. /\ e.first_sharemode # 1
        /\ e.first_sharemode = 2 => e.first_openmode = 0 /\ e.openmode = 0
        /\ e.first_sharemode = 3 => e.openmode = 1
    BY <1>1 DEF LetIn, Proceeds, open_exceptions, open_actions
  <2>2. e.openmode \in OpenMode
    BY DEF FileType
  <2> QED BY <2>1, <2>2 DEF Permitted, Undenied, SHARE_DENY_ALL, SHARE_DENY_WRITE, SHARE_DENY_READ,
          OPEN_READ_ONLY, OPEN_WRITE_ONLY
<1>2. ASSUME TableInv PROVE FirstDenyHonoured
  <2>1. ASSUME NEW n \in Filenos, file_table[n].filename # NoName
        PROVE  IsFirst(file_table[n]) \/ Permitted(file_table[n])
    BY <1>1, <1>2, <2>1 DEF TableInv, EntriesAgree
  <2>2. ASSUME NEW i \in Filenos, NEW j \in Filenos, SameName(i, j)
        PROVE  /\ Permitted(file_table[i]) \/ Permitted(file_table[j])
               /\ file_table[i].first_sharemode = SHARE_DENY_WRITE =>
                    file_table[i].first_openmode = OPEN_READ_ONLY
    <3>1. /\ file_table[i] \in FileType /\ file_table[j] \in FileType
          /\ LetIn(file_table[i]) \/ LetIn(file_table[j])
          /\ file_table[i].first_sharemode = file_table[j].first_sharemode
          /\ file_table[i].first_openmode = file_table[j].first_openmode
      BY <1>2, <2>2 DEF TableInv, FirstAgrees, OneFirst
    <3> QED BY <1>1, <3>1
  <2> QED BY <2>1, <2>2 DEF FirstDenyHonoured
<1> QED BY <1>2, TableInvariance, PTL
=============================================================================
