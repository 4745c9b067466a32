------------------------------- MODULE Files -------------------------------
(***************************************************************************)
(* Open files in the kernel (kernel/dosfns.c): every process has a table   *)
(* of handles (ps_filetab), which index the system file table (SFT); an    *)
(* SFT entry counts the handles that refer to it and, when SHARE is there, *)
(* keeps the number of its entry in SHARE's file table (sft_shroff).       *)
(*                                                                         *)
(* One DOS call runs at a time.  A call that returns an error and changes  *)
(* nothing is no step.  Character devices and network files are left out.  *)
(* A program seeks where it likes before a transfer, so that the position  *)
(* is an input.  The file system below (dos_open, dos_close) may fail.     *)
(* The fields of an unused SFT entry are never read and are reset here.    *)
(* Every process has the handles of its PSP, 20 in the code, all of which  *)
(* EXEC offers to the child; INT 21h/67h, which gives a process more, is   *)
(* left out, and programs name a new handle inside the table, whose bounds *)
(* DosForceDup does not check.                                             *)
(***************************************************************************)
EXTENDS Share, FiniteSets

CONSTANTS
  Root,         \* the process that never ends, its own parent
  NoPsp,        \* the parent of a process that does not exist
  SftCount,     \* entries of the system file table
  ps_maxfiles,  \* handles of a process
  NoSft,        \* an unused handle, 0xff
  Flags,        \* open, sharing and inheritance modes that programs use
  Locks,        \* regions <<ofs, len>> that programs lock and unlock
  Transfers,    \* regions that programs read and write
  AttrFiles,    \* files whose attributes programs change
  MaxCount      \* bound on sft_count: failed closes let it grow

Sfts == 0 .. (SftCount - 1)
Handles == 0 .. (ps_maxfiles - 1)
AllFlags == [open : OpenMode, share : ShareMode, inherit : BOOLEAN]
NoFlags == [open |-> 0, share |-> 0, inherit |-> FALSE]
Regions == Offset \X (0 .. LongMax)

ASSUME FilesAssumption ==
  /\ Root \in Psp /\ NoPsp \notin Psp
  /\ SftCount \in Nat /\ ps_maxfiles \in Nat
  /\ NoSft \notin Sfts
  /\ Flags \subseteq AllFlags
  /\ Locks \subseteq Regions /\ Transfers \subseteq Regions
  /\ AttrFiles \subseteq File
  /\ MaxCount \in Nat \ {0}

VARIABLES
  sft_count, sft_name, sft_mode, sft_shroff,  \* the system file table
  ps_filetab,       \* the handles of each process
  ps_parent,
  cu_psp,           \* the current process
  closing,          \* handle that a terminating process closes next
  resident,         \* SHARE is loaded and answers INT 2Fh
  share_installed   \* the kernel knows

sftVars == <<sft_count, sft_name, sft_mode, sft_shroff>>
procVars == <<ps_parent, cu_psp, closing>>
vars == <<shareVars, sftVars, ps_filetab, procVars, resident, share_installed>>

NotClosing == ps_maxfiles

Init ==
  /\ ShareInit
  /\ sft_count = [s \in Sfts |-> 0]
  /\ sft_name = [s \in Sfts |-> NoName]
  /\ sft_mode = [s \in Sfts |-> NoFlags]
  /\ sft_shroff = [s \in Sfts |-> -1]
  /\ ps_filetab = [ps \in Psp |-> [h \in Handles |-> NoSft]]
  /\ ps_parent = [ps \in Psp |-> IF ps = Root THEN Root ELSE NoPsp]
  /\ cu_psp = Root
  /\ closing = NotClosing
  /\ resident = FALSE /\ share_installed = FALSE

-----------------------------------------------------------------------------
Idle == closing = NotClosing

(* IsShareInstalled(TRUE): the kernel asks again. *)
IsShareInstalled == share_installed \/ resident
Recheck == share_installed' = IsShareInstalled

filetab == ps_filetab[cu_psp]
(* The handle h of the current process refers to an SFT in use. *)
get_sft(h) == filetab[h] # NoSft /\ sft_count[filetab[h]] # 0

FreeHndls == {h \in Handles : filetab[h] = NoSft}
FreeSfts == {s \in Sfts : sft_count[s] = 0}

SetHandle(h, s) == [ps_filetab EXCEPT ![cu_psp][h] = s]

-----------------------------------------------------------------------------
(* DosOpen and DosOpenSft: the lowest free handle and SFT, SHARE's consent *)
(* and then the file system's.                                             *)
ShareConsents(f, fl) == IsShareInstalled => open_check(f, fl.open, fl.share)

DosOpen(f, fl) ==
  LET s == Min(FreeSfts) IN
  /\ Idle /\ FreeHndls # {} /\ FreeSfts # {}
  /\ ShareConsents(f, fl)
  /\ IF IsShareInstalled
       THEN file_table' = Opened(f, fl.open, fl.share)
       ELSE UNCHANGED file_table
  /\ sft_shroff' = [sft_shroff EXCEPT ![s] = IF IsShareInstalled THEN NewFileno ELSE -1]
  /\ sft_count' = [sft_count EXCEPT ![s] = 1]
  /\ sft_name' = [sft_name EXCEPT ![s] = f]
  /\ sft_mode' = [sft_mode EXCEPT ![s] = fl]
  /\ ps_filetab' = SetHandle(Min(FreeHndls), s)
  /\ Recheck
  /\ UNCHANGED <<lock_table, procVars, resident>>

(* dos_open fails: the kernel tells SHARE to forget the file. *)
DosOpenFails(f, fl) ==
  /\ Idle /\ FreeHndls # {} /\ FreeSfts # {}
  /\ ShareConsents(f, fl)
  /\ IF IsShareInstalled THEN close_file({NewFileno}) ELSE UNCHANGED shareVars
  /\ Recheck
  /\ UNCHANGED <<sftVars, ps_filetab, procVars, resident>>

-----------------------------------------------------------------------------
(* DosCloseSft of the entries S, once each: dos_close succeeds, SHARE is   *)
(* told when the last reference goes.  sft_count' is the caller's.         *)
ForgetUnused ==
  /\ sft_name' = [s \in Sfts |-> IF sft_count'[s] = 0 THEN NoName ELSE sft_name[s]]
  /\ sft_mode' = [s \in Sfts |-> IF sft_count'[s] = 0 THEN NoFlags ELSE sft_mode[s]]

LastRefs_any(S) == {s \in S : IsShareInstalled}
LastRefs_none(S) == {}
LastRefs(S) == {s \in S : sft_count[s] = 1 /\ IsShareInstalled}
DosCloseSft(S) ==
  /\ close_file({sft_shroff[s] : s \in LastRefs(S)})
  /\ sft_shroff' = [s \in Sfts |-> IF s \in LastRefs(S) THEN -1 ELSE sft_shroff[s]]
  /\ share_installed' = (share_installed \/ \E s \in S : sft_count[s] = 1 /\ resident)
  /\ ForgetUnused

CountsAfter(S) == [s \in Sfts |-> sft_count[s] - (IF s \in S THEN 1 ELSE 0)]

(* DosClose: the handle is gone even when dos_close fails. *)
DosClose(h) ==
  /\ get_sft(h)
  /\ ps_filetab' = SetHandle(h, NoSft)
  /\ \/ sft_count' = CountsAfter({filetab[h]}) /\ DosCloseSft({filetab[h]})
     \/ UNCHANGED <<shareVars, sftVars, share_installed>>

CloseHandle(h) ==
  /\ Idle /\ DosClose(h)
  /\ UNCHANGED <<procVars, resident>>

(* DosForceDup: close the new handle if it is open, then copy the old one. *)
DosForceDup(old, new) ==
  LET s == filetab[old]
      t == filetab[new]
      closed == SetHandle(new, NoSft)
  IN
  /\ Idle /\ get_sft(old) /\ sft_count[s] < MaxCount
  /\ \/ /\ t = NoSft
        /\ ps_filetab' = SetHandle(new, s)
        /\ sft_count' = [sft_count EXCEPT ![s] = @ + 1]
        /\ UNCHANGED <<shareVars, sft_name, sft_mode, sft_shroff, share_installed>>
     \/ /\ get_sft(new)
        /\ ps_filetab' = [closed EXCEPT ![cu_psp][new] = closed[cu_psp][old]]
        /\ sft_count' = [CountsAfter({t}) EXCEPT ![s] = @ + 1]
        /\ DosCloseSft({t})
     \/ /\ get_sft(new)  \* dos_close fails
        /\ ps_filetab' = closed
        /\ UNCHANGED <<shareVars, sftVars, share_installed>>
  /\ UNCHANGED <<procVars, resident>>

DosDup_notCounted(h) ==
  /\ Idle /\ FreeHndls # {} /\ get_sft(h)
  /\ ps_filetab' = SetHandle(Min(FreeHndls), filetab[h])
  /\ UNCHANGED <<shareVars, sftVars, procVars, resident, share_installed>>
DosDup(h) == FreeHndls # {} /\ DosForceDup(h, Min(FreeHndls))

-----------------------------------------------------------------------------
(* Processes.  child_psp clones the handles that may be inherited.         *)
CloneHandle(h) == get_sft(h) /\ sft_mode[filetab[h]].inherit

Exec(ps) ==
  /\ Idle /\ ps_parent[ps] = NoPsp
  /\ ps_filetab' = [ps_filetab EXCEPT ![ps] =
                      [h \in Handles |-> IF CloneHandle(h) THEN filetab[h] ELSE NoSft]]
  /\ sft_count' = [s \in Sfts |->
       sft_count[s] + Cardinality({h \in Handles : CloneHandle(h) /\ filetab[h] = s})]
  /\ \A s \in Sfts : sft_count'[s] <= MaxCount
  /\ ps_parent' = [ps_parent EXCEPT ![ps] = cu_psp]
  /\ cu_psp' = ps
  /\ UNCHANGED <<shareVars, sft_name, sft_mode, sft_shroff, closing, resident, share_installed>>

(* INT 21h/50h, by which task switchers run another program. *)
SetPsp(ps) ==
  /\ Idle /\ ps_parent[ps] # NoPsp
  /\ cu_psp' = ps
  /\ UNCHANGED <<shareVars, sftVars, ps_filetab, ps_parent, closing, resident, share_installed>>

(* return_user closes the handles one by one and returns to the parent,    *)
(* which task switchers are trusted to have kept.                          *)
Terminate ==
  /\ Idle /\ ps_parent[cu_psp] # cu_psp /\ ps_parent[ps_parent[cu_psp]] # NoPsp
  /\ closing' = 0
  /\ UNCHANGED <<shareVars, sftVars, ps_filetab, ps_parent, cu_psp, resident, share_installed>>

CloseNext ==
  /\ ~Idle
  /\ \/ DosClose(closing)
     \/ ~get_sft(closing) /\ UNCHANGED <<shareVars, sftVars, ps_filetab, share_installed>>
  /\ closing' = closing + 1
  /\ IF closing + 1 = ps_maxfiles
       THEN /\ cu_psp' = ps_parent[cu_psp]
            /\ ps_parent' = [ps_parent EXCEPT ![cu_psp] = NoPsp]
       ELSE UNCHANGED <<cu_psp, ps_parent>>
  /\ UNCHANGED resident

-----------------------------------------------------------------------------
(* DosLockUnlock and the transfers: the kernel relies on what it knows of  *)
(* SHARE.                                                                  *)
Shared(h) == get_sft(h) /\ share_installed /\ sft_shroff[filetab[h]] >= 0

DosLockUnlock(h, r) ==
  LET n == sft_shroff[filetab[h]] IN
  /\ Idle /\ Shared(h)
  /\ lock(cu_psp, n, r[1], r[2]) \/ unlock(cu_psp, n, r[1], r[2])
  /\ UNCHANGED <<sftVars, ps_filetab, procVars, resident, share_installed>>

(* DosRWSft when SHARE refuses; a transfer it allows changes none of this. *)
DosRWSft(h, r) ==
  /\ Idle /\ Shared(h)
  /\ access_check(cu_psp, sft_shroff[filetab[h]], r[1], r[2])
  /\ UNCHANGED <<sftVars, ps_filetab, procVars, resident, share_installed>>

(* DosSetFattr: SHARE must allow to open the file for writing in           *)
(* compatibility mode; then merge_file_changes closes every SFT of the     *)
(* file in turn, up to the first for which dos_close fails.                *)
DosSetFattr(f, bad) ==
  LET S == {s \in Sfts : sft_count[s] # 0 /\ sft_name[s] = f /\ s < bad}
      N == {NewFileno} \cup {sft_shroff[s] : s \in LastRefs(S)}
  IN
  /\ Idle /\ IsShareInstalled
  /\ open_check(f, OPEN_READ_WRITE, SHARE_COMPAT)
  /\ close_file(N)
  /\ sft_count' = CountsAfter(S)
  /\ sft_shroff' = [s \in Sfts |-> IF s \in LastRefs(S) THEN -1 ELSE sft_shroff[s]]
  /\ Recheck
  /\ ForgetUnused
  /\ UNCHANGED <<ps_filetab, procVars, resident>>

(* SHARE is started. *)
InstallShare ==
  /\ Idle /\ ~resident
  /\ resident' = TRUE
  /\ UNCHANGED <<shareVars, sftVars, ps_filetab, procVars, share_installed>>

Next ==
  \/ \E f \in File, fl \in Flags : DosOpen(f, fl) \/ DosOpenFails(f, fl)
  \/ \E h \in Handles : CloseHandle(h) \/ DosDup(h)
  \/ \E old, new \in Handles : DosForceDup(old, new)
  \/ \E ps \in Psp : Exec(ps) \/ SetPsp(ps)
  \/ Terminate \/ CloseNext
  \/ \E h \in Handles, r \in Locks : DosLockUnlock(h, r)
  \/ \E h \in Handles, r \in Transfers : DosRWSft(h, r)
  \/ \E f \in AttrFiles, bad \in Sfts \cup {SftCount} : DosSetFattr(f, bad)
  \/ InstallShare

Spec == Init /\ [][Next]_vars

-----------------------------------------------------------------------------
(* Properties. *)

TypeOK ==
  /\ ShareTypeOK
  /\ sft_count \in [Sfts -> 0 .. MaxCount]
  /\ sft_name \in [Sfts -> File \cup {NoName}]
  /\ sft_mode \in [Sfts -> AllFlags]
  /\ sft_shroff \in [Sfts -> Filenos \cup {-1}]
  /\ ps_filetab \in [Psp -> [Handles -> Sfts \cup {NoSft}]]
  /\ ps_parent \in [Psp -> Psp \cup {NoPsp}]
  /\ cu_psp \in Psp /\ closing \in 0 .. ps_maxfiles
  /\ resident \in BOOLEAN /\ share_installed \in BOOLEAN

References(s) == {x \in Psp \X Handles : ps_filetab[x[1]][x[2]] = s}

(* An entry that a handle refers to is not given to another open: through  *)
(* dup, inheritance, failed closes and termination the count never falls   *)
(* below the number of handles.                                            *)
HandlesCounted == \A s \in Sfts : sft_count[s] >= Cardinality(References(s))

Open(s) == sft_count[s] # 0 /\ sft_shroff[s] >= 0

(* share.c:115: "One of these exists for each instance of an open file":   *)
(* SHARE's entries and the kernel's open files correspond one to one.      *)
SlotPerOpenFile ==
  /\ \A s \in Sfts : Open(s) => file_table[sft_shroff[s]].filename = sft_name[s]
  /\ \A s, t \in Sfts : Open(s) /\ Open(t) /\ sft_shroff[s] = sft_shroff[t] => s = t
  /\ \A n \in Filenos : file_table[n].filename # NoName =>
       \E s \in Sfts : Open(s) /\ sft_shroff[s] = n

(* A lock ends when its owner unlocks it, a call that changes nothing else *)
(* in the tables, or when no handle refers to the file any more: not when  *)
(* a process, the owner included, closes one of several handles.           *)
Unlocked(i) ==
  /\ cu_psp = lock_table[i].psp
  /\ \A j \in LockNos : j # i => lock_table'[j] = lock_table[j]
  /\ UNCHANGED <<file_table, sftVars, ps_filetab>>

LockKept ==
  [][\A i \in LockNos : lock_table[i].used /\ ~lock_table'[i].used =>
       \/ Unlocked(i)
       \/ \A s \in Sfts : Open(s) /\ sft_shroff[s] = lock_table[i].fileno =>
            \A ps \in Psp, h \in Handles : ps_filetab'[ps][h] # s
    ]_vars
=============================================================================
