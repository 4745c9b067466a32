------------------------------- MODULE MemMgr -------------------------------
(***************************************************************************)
(* The DOS memory manager (kernel/memmgr.c) behind INT 21h functions 48h,  *)
(* 49h, 4Ah, 58h and process termination.  Memory is an arena of           *)
(* paragraphs; a block is a memory control block (MCB) in one paragraph    *)
(* followed by m_size paragraphs of data, and the chain is walked by       *)
(* address arithmetic only: the next MCB is at  seg + m_size + 1.          *)
(*                                                                         *)
(* DOS is not reentrant, so one call runs at a time; each loop of the code *)
(* advances by one iteration per step, and pc is the place in the code.    *)
(* m_size = 0xffff marks an MCB that joinMCBs unlinked ("fake").           *)
(***************************************************************************)
EXTENDS Integers

CONSTANTS
  WordMax,        \* the largest UWORD, 0xffff
  Psp,            \* segments of the processes that may call DOS
  FREE_PSP,       \* owner of an unused block
  SysPsp,         \* owner of the kernel's own blocks (8 in the code)
  first_mcb,      \* segment of the first MCB
  Top,            \* first segment above the arena
  uppermem_root,  \* MCB that covers the video hole, or NoUmb
  DosData,        \* paragraphs of the kernel's data block at first_mcb
  Hole,           \* paragraphs of the block at uppermem_root
  Sizes,          \* sizes the callers ask for
  Strategies      \* allocation strategies the callers select (AX=5801h)

NoUmb == WordMax
FAKE == WordMax
Strat(f, a) == [fit |-> f, area |-> a]
LARGEST == Strat("largest", "low")

Para == first_mcb .. (Top - 1)
HasUmb == uppermem_root # NoUmb
\* MCBs that were never handed to a process.
SystemMcbs == {first_mcb, uppermem_root}
\* The nine values that AX=5801h lets into mem_access_mode.
Strategy == [fit : {"first", "best", "last"}, area : {"low", "UO", "U"}]

Low0 == first_mcb + DosData + 1
Upper0 == uppermem_root + Hole + 1
BootFree == {Low0} \cup (IF HasUmb THEN {Upper0} ELSE {})

ASSUME MemMgrAssumption ==
  /\ first_mcb \in Nat \ {0}
  /\ WordMax \in Nat /\ Top \in Nat /\ Top < WordMax
  /\ DosData \in Nat /\ Hole \in Nat
  /\ Low0 < Top
  /\ \/ uppermem_root = NoUmb
     \/ uppermem_root \in Nat /\ Low0 < uppermem_root /\ Upper0 < Top
  /\ FREE_PSP # SysPsp
  /\ FREE_PSP \notin Psp /\ SysPsp \notin Psp
  /\ Sizes \subseteq 0 .. WordMax
  /\ Strategies \subseteq Strategy

VARIABLES
  m_type, m_psp, m_size,  \* every paragraph of the arena, read as an MCB
  uppermem_link,    \* 1 when upper memory is linked into the chain
  mem_access_mode,  \* allocation strategy
  pc, ret,          \* place in the code, place to return to from a subroutine
  op,               \* the call being served: its name and arguments
  size, mode,       \* arguments of DosMemAlloc and DosMemChange
  p, q,             \* MCB pointers of the loops
  foundSeg, biggestSeg,
  asize, bx,        \* *asize of DosMemAlloc; the caller's BX
  phase,            \* which DosMemAlloc call of the handler is running
  oldumbstate,
  rc

mcbs == <<m_type, m_psp, m_size>>
globals == <<mcbs, uppermem_link, mem_access_mode>>
args == <<size, mode>>
found == <<foundSeg, biggestSeg>>
sizes == <<asize, bx>>
caller == <<op, phase, oldumbstate>>
locals == <<args, p, q, found, sizes, phase, oldumbstate>>
vars == <<globals, pc, ret, op, locals, rc>>

-----------------------------------------------------------------------------
(* The macros of memmgr.c. *)
nxtMCBsize(a, s) == a + s + 1
nxtMCB(a) == nxtMCBsize(a, m_size[a])
mcbFree(a) == m_psp[a] = FREE_PSP
mcbFreeable(a) == m_type[a] \in {"M", "Z"}
mcbValid(a) == m_size[a] # FAKE /\ mcbFreeable(a)

(* An MCB gets another owner or type. *)
Owned(a, o) == m_psp' = [m_psp EXCEPT ![a] = o] /\ UNCHANGED <<m_type, m_size>>
Typed(a, t) == m_type' = [m_type EXCEPT ![a] = t] /\ UNCHANGED <<m_psp, m_size>>

(* The block f becomes two, the second with its MCB at x. *)
SplitAt_typeKept(f, x, owner, owner2) ==
  /\ m_type' = [m_type EXCEPT ![f] = "M"]
  /\ m_psp' = [m_psp EXCEPT ![f] = owner, ![x] = owner2]
  /\ m_size' = [m_size EXCEPT ![f] = x - f - 1, ![x] = m_size[f] - (x - f)]
SplitAt(f, x, owner, owner2) ==
  /\ m_type' = [m_type EXCEPT ![f] = "M", ![x] = m_type[f]]
  /\ m_psp' = [m_psp EXCEPT ![f] = owner, ![x] = owner2]
  /\ m_size' = [m_size EXCEPT ![f] = x - f - 1, ![x] = m_size[f] - (x - f)]

Nobody == [name |-> "none", psp |-> FREE_PSP, para |-> 0, size |-> 0, strat |-> LARGEST]

(* The arena as configDone leaves it: the kernel's data block, free low    *)
(* memory, the block over the video hole, free upper memory, not linked.   *)
BootMcbs ==
  /\ m_type = [a \in Para |-> IF a \in SystemMcbs THEN "M"
                             ELSE IF a \in BootFree THEN "Z" ELSE "other"]
  /\ m_psp = [a \in Para |-> IF a \in SystemMcbs THEN SysPsp ELSE FREE_PSP]
  /\ m_size = [a \in Para |->
       IF a = first_mcb THEN DosData
       ELSE IF a = Low0 THEN (IF HasUmb THEN uppermem_root ELSE Top) - Low0 - 1
       ELSE IF HasUmb /\ a = uppermem_root THEN Hole
       ELSE IF HasUmb /\ a = Upper0 THEN Top - Upper0 - 1
       ELSE 0]

LocalsReset ==
  /\ size' = 0 /\ mode' = LARGEST
  /\ p' = first_mcb /\ q' = first_mcb
  /\ foundSeg' = 0 /\ biggestSeg' = 0
  /\ asize' = 0 /\ bx' = 0
  /\ phase' = "request" /\ oldumbstate' = 0

Init ==
  /\ BootMcbs
  /\ uppermem_link = 0
  /\ mem_access_mode = Strat("first", "low")
  /\ pc = "idle" /\ ret = "done" /\ op = Nobody
  /\ size = 0 /\ mode = LARGEST
  /\ p = first_mcb /\ q = first_mcb
  /\ foundSeg = 0 /\ biggestSeg = 0
  /\ asize = 0 /\ bx = 0
  /\ phase = "request" /\ oldumbstate = 0
  /\ rc = "SUCCESS"

-----------------------------------------------------------------------------
(* DosMemLargest ignores what DosMemAlloc returns: the handler keeps the   *)
(* error of its own call.                                                  *)
Fails(e) == rc' = IF phase \in {"largest", "lowlargest"} THEN rc ELSE e

(* joinMCBs: one iteration of its loop, on the MCB p.                      *)
CanJoin_any(a) == m_type[a] = "M"
CanJoin_notEmpty(a) == m_type[a] = "M" /\ mcbFree(nxtMCB(a)) /\ m_size[nxtMCB(a)] # 0
CanJoin(a) == m_type[a] = "M" /\ mcbFree(nxtMCB(a))

Joined_notMarked(a, n) ==
  /\ m_type' = [m_type EXCEPT ![a] = m_type[n]]
  /\ m_size' = [m_size EXCEPT ![a] = m_size[a] + m_size[n] + 1]
  /\ UNCHANGED m_psp
Joined_typeKept(a, n) ==
  /\ m_size' = [m_size EXCEPT ![a] = m_size[a] + m_size[n] + 1, ![n] = FAKE]
  /\ UNCHANGED <<m_type, m_psp>>
Joined(a, n) ==
  /\ m_type' = [m_type EXCEPT ![a] = m_type[n]]
  /\ m_size' = [m_size EXCEPT ![a] = m_size[a] + m_size[n] + 1, ![n] = FAKE]
  /\ UNCHANGED m_psp

joinMCBs ==
  LET n == nxtMCB(p) IN
  /\ pc = "join"
  /\ \/ /\ CanJoin(p) /\ mcbValid(n)
        /\ Joined(p, n)
        /\ UNCHANGED <<pc, rc>>
     \/ /\ CanJoin(p) /\ ~mcbValid(n)
        /\ pc' = IF ret = "fit" THEN "allocfail" ELSE "changefail"
        /\ Fails("DE_MCBDESTRY")
        /\ UNCHANGED mcbs
     \/ /\ ~CanJoin(p)
        /\ pc' = ret
        /\ UNCHANGED <<mcbs, rc>>
  /\ UNCHANGED <<uppermem_link, mem_access_mode, ret, op, locals>>

-----------------------------------------------------------------------------
(* DosMemAlloc. *)

(* Where the search begins: the "hack to the Umb region".                  *)
ScanStart(m) ==
  LET tmpmode == IF m = LARGEST THEN mem_access_mode ELSE m IN
  IF /\ uppermem_link = 1 /\ HasUmb
     /\ m # LARGEST \/ size = WordMax
     /\ tmpmode.area # "low"
    THEN uppermem_root ELSE first_mcb

searchAgain ==
  /\ pc = "search"
  /\ p' = ScanStart(mode)
  /\ foundSeg' = 0 /\ biggestSeg' = 0
  /\ pc' = "scan"
  /\ UNCHANGED <<globals, ret, caller, args, q, sizes, rc>>

(* One MCB of the chain: corruption check, then join if it is free.        *)
Scan ==
  /\ pc = "scan"
  /\ \/ /\ ~mcbValid(p)
        /\ pc' = "allocfail" /\ Fails("DE_MCBDESTRY")
        /\ UNCHANGED ret
     \/ /\ mcbValid(p) /\ mcbFree(p)
        /\ pc' = "join" /\ ret' = "fit"
        /\ UNCHANGED rc
     \/ /\ mcbValid(p) /\ ~mcbFree(p)
        /\ pc' = "advance"
        /\ UNCHANGED <<ret, rc>>
  /\ UNCHANGED <<globals, op, locals>>

(* A free block, joined: remember the biggest, apply the rule set.         *)
BlockFits_offByOne(a) == m_size[a] + 1 >= size
BlockFits(a) == m_size[a] >= size
Better_worst(a) == mode.fit = "best" => foundSeg = 0 \/ m_size[foundSeg] < m_size[a]
Better(a) == mode.fit = "best" => foundSeg = 0 \/ m_size[foundSeg] > m_size[a]

Fit ==
  /\ pc = "fit"
  /\ biggestSeg' = IF biggestSeg = 0 \/ m_size[biggestSeg] < m_size[p]
                     THEN p ELSE biggestSeg
  /\ foundSeg' = IF BlockFits(p) /\ mode # LARGEST /\ Better(p) THEN p ELSE foundSeg
  /\ pc' = IF BlockFits(p) /\ mode.fit = "first" THEN "take" ELSE "advance"
  /\ UNCHANGED <<globals, ret, caller, args, p, q, sizes, rc>>

Advance_noHeader ==
  /\ pc = "advance"
  /\ IF m_type[p] = "Z"
       THEN pc' = "endscan" /\ UNCHANGED p
       ELSE pc' = "scan" /\ p' = p + m_size[p]
  /\ UNCHANGED <<globals, ret, caller, args, q, found, sizes, rc>>
Advance ==
  /\ pc = "advance"
  /\ IF m_type[p] = "Z"
       THEN pc' = "endscan" /\ UNCHANGED p
       ELSE pc' = "scan" /\ p' = nxtMCB(p)
  /\ UNCHANGED <<globals, ret, caller, args, q, found, sizes, rc>>

(* Upper memory was tried first: search again from the bottom. *)
SearchLow_never == FALSE
SearchLow == mode # LARGEST /\ mode.area = "U" /\ uppermem_link = 1 /\ HasUmb

(* The whole chain was searched. *)
EndScan ==
  LET largest == mode = LARGEST /\ biggestSeg # 0 /\ m_size[biggestSeg] >= size
      fseg == IF largest THEN biggestSeg ELSE foundSeg
      nothing == fseg = 0 \/ m_size[fseg] = 0
      again == SearchLow
      biggest == IF biggestSeg = 0 THEN 0 ELSE m_size[biggestSeg]
  IN
  /\ pc = "endscan"
  /\ foundSeg' = fseg
  /\ pc' = CASE ~nothing -> "take" [] nothing /\ again -> "search"
             [] OTHER -> "allocfail"
  /\ mode' = IF nothing /\ again THEN Strat(mode.fit, "low") ELSE mode
  /\ asize' = IF largest \/ (nothing /\ ~again) THEN biggest ELSE asize
  /\ IF nothing /\ ~again THEN Fails("DE_NOMEM") ELSE UNCHANGED rc
  /\ UNCHANGED <<globals, ret, caller, size, p, q, biggestSeg, bx>>

(* The block is carved out of the found one: from its end for the last-fit *)
(* strategies, else from its beginning; the rest stays free.  Carved is    *)
(* the MCB that is handed out.                                             *)
Carved(f) ==
  IF mode.fit = "last" /\ size # m_size[f] THEN f + m_size[f] - size ELSE f

Carve(f) ==
  IF mode = LARGEST \/ size = m_size[f] THEN Owned(f, op.psp)
  ELSE IF mode.fit = "last" THEN SplitAt(f, Carved(f), FREE_PSP, op.psp)
  ELSE SplitAt(f, nxtMCBsize(f, size), op.psp, FREE_PSP)

(* mem_access_mode &= ~0x80 and |= 0x80. *)
ClearUpper == Strat(mem_access_mode.fit, "low")
SetUpper_dropped == mem_access_mode
SetUpper == Strat(mem_access_mode.fit, "U")

(* ExecMemAlloc gives a LARGEST block back when it is smaller than asked.  *)
Take ==
  /\ pc = "take"
  /\ Carve(foundSeg)
  /\ p' = Carved(foundSeg)
  /\ rc' = "SUCCESS"
  /\ mem_access_mode' = IF phase = "execlow" THEN SetUpper ELSE mem_access_mode
  /\ pc' = IF phase \in {"execlargest", "execlow"} /\ asize < op.size
             THEN "execfree" ELSE "done"
  /\ UNCHANGED <<uppermem_link, ret, caller, args, q, found, sizes>>

ExecFree ==
  /\ pc = "execfree"
  /\ Owned(p, FREE_PSP)
  /\ rc' = "DE_NOMEM"
  /\ pc' = "done"
  /\ UNCHANGED <<uppermem_link, mem_access_mode, ret, op, locals>>

(* DosMemAlloc failed: what its caller tries next.  LARGEST ignores the    *)
(* strategy's fit and the mode bit 80h is cleared while it is retried low. *)
Retry(ph, s) ==
  /\ phase' = ph /\ pc' = "search"
  /\ mode' = LARGEST /\ size' = s /\ asize' = 0
  /\ UNCHANGED <<ret, p>>

(* INT 21h/48h asks DosMemLargest for the size to report, then checks the  *)
(* chain.                                                                  *)
AllocFail ==
  LET check == /\ pc' = "check" /\ ret' = "done" /\ p' = first_mcb
               /\ UNCHANGED <<phase, asize, args>>
  IN
  /\ pc = "allocfail" /\ op.name = "alloc"
  /\ \/ /\ phase = "request"
        /\ Retry("largest", WordMax)
        /\ UNCHANGED <<mem_access_mode, bx>>
     \/ /\ phase = "largest"
        /\ bx' = asize
        /\ IF mem_access_mode.area = "U"
             THEN mem_access_mode' = ClearUpper /\ Retry("lowlargest", WordMax)
             ELSE check /\ UNCHANGED mem_access_mode
     \/ /\ phase = "lowlargest"
        /\ bx' = IF asize > bx THEN asize ELSE bx
        /\ mem_access_mode' = SetUpper
        /\ check
  /\ UNCHANGED <<mcbs, uppermem_link, op, q, found, oldumbstate, rc>>

(* ExecMemAlloc takes the largest block instead, except on a bad chain.    *)
ExecFail ==
  LET giveup == pc' = "done" /\ UNCHANGED <<ret, phase, asize, args, p>> IN
  /\ pc = "allocfail" /\ op.name = "exec"
  /\ \/ /\ phase = "request"
        /\ IF rc = "DE_NOMEM" THEN Retry("execlargest", 0) ELSE giveup
        /\ UNCHANGED mem_access_mode
     \/ /\ phase = "execlargest"
        /\ IF mem_access_mode.area = "U"
             THEN mem_access_mode' = ClearUpper /\ Retry("execlow", 0)
             ELSE giveup /\ UNCHANGED mem_access_mode
     \/ /\ phase = "execlow"
        /\ giveup
        /\ mem_access_mode' = SetUpper
  /\ UNCHANGED <<mcbs, uppermem_link, op, q, found, bx, oldumbstate, rc>>

-----------------------------------------------------------------------------
(* DosMemCheck: one MCB of the chain; INT 21h panics on a bad one.         *)
DosMemCheck ==
  /\ pc = "check"
  /\ IF m_type[p] = "Z" THEN pc' = ret /\ p' = op.para
     ELSE IF m_type[p] = "M" THEN pc' = "check" /\ p' = nxtMCB(p)
     ELSE pc' = "panic" /\ UNCHANGED p
  /\ UNCHANGED <<globals, ret, caller, args, q, found, sizes, rc>>

-----------------------------------------------------------------------------
(* DosMemChange, on the MCB op.para. *)
DosMemChange_noJoin ==
  /\ pc = "change"
  /\ \/ /\ ~mcbValid(p)
        /\ pc' = "changefail" /\ rc' = "DE_MCBDESTRY"
     \/ /\ mcbValid(p) /\ size > m_size[p]
        /\ pc' = "grow"
        /\ UNCHANGED rc
     \/ /\ mcbValid(p) /\ size <= m_size[p]
        /\ pc' = "shrink"
        /\ UNCHANGED rc
  /\ UNCHANGED <<globals, ret, op, locals>>
DosMemChange ==
  /\ pc = "change"
  /\ \/ /\ ~mcbValid(p)
        /\ pc' = "changefail" /\ rc' = "DE_MCBDESTRY"
        /\ UNCHANGED ret
     \/ /\ mcbValid(p) /\ size > m_size[p]
        /\ pc' = "join" /\ ret' = "grow"
        /\ UNCHANGED rc
     \/ /\ mcbValid(p) /\ size <= m_size[p]
        /\ pc' = "shrink"
        /\ UNCHANGED <<ret, rc>>
  /\ UNCHANGED <<globals, op, locals>>

(* The following unused blocks are joined; is the block big enough now?    *)
Grow ==
  /\ pc = "grow"
  /\ IF size > m_size[p]
       THEN pc' = "changefail" /\ rc' = "DE_NOMEM" /\ bx' = m_size[p]
       ELSE pc' = "shrink" /\ UNCHANGED <<rc, bx>>
  /\ UNCHANGED <<globals, ret, caller, args, p, q, found, asize>>

(* Cut the block down to size; the rest becomes a free block that is       *)
(* joined with the free blocks after it.                                   *)
Shrink ==
  /\ pc = "shrink"
  /\ IF size < m_size[p]
       THEN /\ SplitAt(p, nxtMCBsize(p, size), m_psp[p], FREE_PSP)
            /\ p' = nxtMCBsize(p, size)
            /\ pc' = "join" /\ ret' = "setpsp"
       ELSE pc' = "setpsp" /\ UNCHANGED <<mcbs, p, ret>>
  /\ UNCHANGED <<uppermem_link, mem_access_mode, caller, args, q, found, sizes, rc>>

SetPsp ==
  /\ pc = "setpsp"
  /\ Owned(op.para, op.psp)
  /\ rc' = "SUCCESS"
  /\ pc' = "done"
  /\ UNCHANGED <<uppermem_link, mem_access_mode, ret, op, locals>>

(* INT 21h/4Ah checks the chain again after a failure. *)
ChangeFail ==
  /\ pc = "changefail"
  /\ pc' = "check" /\ ret' = "done" /\ p' = first_mcb
  /\ UNCHANGED <<globals, caller, args, q, found, sizes, rc>>

-----------------------------------------------------------------------------
(* DosUmbLink(n), n in size; it returns with p at first_mcb for the walk   *)
(* of FreeProcessMem.                                                      *)
DosUmbLink ==
  /\ pc = "umblink"
  /\ p' = first_mcb /\ q' = first_mcb
  /\ pc' = IF ~HasUmb \/ size > 1 \/ uppermem_link = size THEN ret ELSE "umbwalk"
  /\ UNCHANGED <<globals, ret, caller, args, found, sizes, rc>>

UmbWalk ==
  /\ pc = "umbwalk"
  /\ p # uppermem_root /\ m_type[p] # "Z"
  /\ IF mcbValid(p) THEN q' = p /\ p' = nxtMCB(p) /\ UNCHANGED pc
                    ELSE pc' = ret /\ p' = first_mcb /\ UNCHANGED q
  /\ UNCHANGED <<globals, ret, caller, args, found, sizes, rc>>

UmbSet ==
  /\ pc = "umbwalk"
  /\ p = uppermem_root \/ m_type[p] = "Z"
  /\ \/ /\ size = 0
        /\ IF m_type[q] = "M" /\ p = uppermem_root
             THEN Typed(q, "Z") ELSE UNCHANGED mcbs
        /\ uppermem_link' = size
     \/ /\ size # 0 /\ m_type[p] = "Z"
        /\ Typed(p, "M")
        /\ uppermem_link' = size
     \/ /\ size # 0 /\ m_type[p] # "Z"
        /\ UNCHANGED <<mcbs, uppermem_link>>
  /\ pc' = ret /\ p' = first_mcb
  /\ UNCHANGED <<mem_access_mode, ret, caller, args, q, found, sizes, rc>>

-----------------------------------------------------------------------------
(* FreeProcessMem: with upper memory linked, free every block of the       *)
(* process, then restore the link.                                         *)
FreeWalk ==
  /\ pc = "freewalk"
  /\ \/ /\ ~mcbValid(p)
        /\ pc' = "done" /\ rc' = "DE_MCBDESTRY"
        /\ UNCHANGED <<mcbs, p, ret, size>>
     \/ /\ mcbValid(p)
        /\ IF m_psp[p] = op.psp THEN Owned(p, FREE_PSP) ELSE UNCHANGED mcbs
        /\ IF m_type[p] = "Z"
             THEN /\ pc' = "umblink" /\ ret' = "done" /\ size' = oldumbstate
                  /\ rc' = "SUCCESS"
                  /\ UNCHANGED p
             ELSE /\ p' = nxtMCB(p)
                  /\ UNCHANGED <<pc, ret, size, rc>>
  /\ UNCHANGED <<uppermem_link, mem_access_mode, caller, mode, q, found, sizes>>

-----------------------------------------------------------------------------
(* The calls. *)
Call(name, ps, a, s) ==
  /\ pc = "idle"
  /\ op' = [name |-> name, psp |-> ps, para |-> a, size |-> s, strat |-> mem_access_mode]
  /\ size' = s

(* INT 21h/48h *)
Int21Alloc(ps, s) ==
  /\ Call("alloc", ps, first_mcb, s)
  /\ mode' = mem_access_mode
  /\ pc' = "search"
  /\ UNCHANGED <<globals, ret, p, q, found, sizes, phase, oldumbstate, rc>>

(* The memory of a program that EXEC loads. *)
ExecMemAlloc(ps, s) ==
  /\ Call("exec", ps, first_mcb, s)
  /\ mode' = mem_access_mode
  /\ pc' = "search"
  /\ UNCHANGED <<globals, ret, p, q, found, sizes, phase, oldumbstate, rc>>

(* INT 21h/49h: DosMemFree on the MCB a, which may be stale or no MCB.     *)
Int21Free(ps, a) ==
  /\ Call("free", ps, a, 0)
  /\ IF a # 0 /\ mcbFreeable(a)
       THEN /\ Owned(a, FREE_PSP)
            /\ rc' = "SUCCESS" /\ pc' = "done"
       ELSE /\ rc' = "DE_INVLDMCB" /\ pc' = "check"
            /\ UNCHANGED mcbs
  /\ UNCHANGED <<uppermem_link, mem_access_mode, ret, mode, p, q, found, sizes, phase, oldumbstate>>

(* INT 21h/4Ah: check the chain, then DosMemChange. *)
Int21Change(ps, a, s) ==
  /\ Call("change", ps, a, s)
  /\ pc' = "check" /\ ret' = "change"
  /\ UNCHANGED <<globals, mode, p, q, found, sizes, phase, oldumbstate, rc>>

(* return_user: the memory of a terminating process. *)
FreeProcessMem_notLinked(ps) ==
  /\ Call("freeproc", ps, first_mcb, 1)
  /\ oldumbstate' = uppermem_link
  /\ pc' = "freewalk"
  /\ UNCHANGED <<globals, ret, mode, p, q, found, sizes, phase, rc>>
FreeProcessMem(ps) ==
  /\ Call("freeproc", ps, first_mcb, 1)
  /\ oldumbstate' = uppermem_link
  /\ pc' = "umblink" /\ ret' = "freewalk"
  /\ UNCHANGED <<globals, mode, p, q, found, sizes, phase, rc>>

(* INT 21h/5801h *)
SetStrategy(m) ==
  /\ pc = "idle"
  /\ mem_access_mode' = m
  /\ UNCHANGED <<mcbs, uppermem_link, pc, ret, op, locals, rc>>

(* INT 21h/5803h *)
Int21UmbLink(n) ==
  /\ HasUmb
  /\ Call("link", FREE_PSP, first_mcb, n)
  /\ pc' = "umblink"
  /\ UNCHANGED <<globals, ret, mode, p, q, found, sizes, phase, oldumbstate, rc>>

(* A program fills the block b it owns: what joinMCBs left there is gone.  *)
UserWrite(b) ==
  /\ pc = "idle"
  /\ mcbValid(b) /\ m_psp[b] \in Psp
  /\ LET inside(a) == b < a /\ a < nxtMCB(b) IN
     /\ m_type' = [a \in Para |-> IF inside(a) THEN "other" ELSE m_type[a]]
     /\ m_psp' = [a \in Para |-> IF inside(a) THEN FREE_PSP ELSE m_psp[a]]
     /\ m_size' = [a \in Para |-> IF inside(a) THEN 0 ELSE m_size[a]]
  /\ UNCHANGED <<uppermem_link, mem_access_mode, pc, ret, op, locals, rc>>

(* Back to the caller. *)
Return ==
  /\ pc = "done"
  /\ pc' = "idle" /\ ret' = "done" /\ op' = Nobody /\ rc' = "SUCCESS"
  /\ LocalsReset
  /\ UNCHANGED globals

Kernel ==
  \/ joinMCBs \/ searchAgain \/ Scan \/ Fit \/ Advance \/ EndScan \/ Take \/ ExecFree
  \/ AllocFail \/ ExecFail
  \/ DosMemCheck \/ DosMemChange \/ Grow \/ Shrink \/ SetPsp \/ ChangeFail
  \/ DosUmbLink \/ UmbWalk \/ UmbSet \/ FreeWalk \/ Return

Program ==
  \/ \E ps \in Psp, s \in Sizes : Int21Alloc(ps, s)
  \/ \E ps \in Psp, s \in Sizes : ExecMemAlloc(ps, s)
  \/ \E ps \in Psp, a \in Para \ SystemMcbs : Int21Free(ps, a)
  \/ \E ps \in Psp, a \in Para \ SystemMcbs, s \in Sizes : Int21Change(ps, a, s)
  \/ \E ps \in Psp : FreeProcessMem(ps)
  \/ \E m \in Strategies : SetStrategy(m)
  \/ \E n \in 0 .. 2 : Int21UmbLink(n)
  \/ \E b \in Para : UserWrite(b)

Next == Kernel \/ Program

Spec == Init /\ [][Next]_vars

(* The CPU keeps executing the kernel's code once a call is made.          *)
FairSpec == Spec /\ WF_vars(Kernel)

-----------------------------------------------------------------------------
(* Properties. *)

TypeOK ==
  /\ m_type \in [Para -> {"M", "Z", "other"}]
  /\ m_psp \in [Para -> Psp \cup {FREE_PSP, SysPsp}]
  /\ m_size \in [Para -> 0 .. WordMax]
  /\ uppermem_link \in {0, 1}
  /\ mem_access_mode \in Strategy
  /\ pc \in {"idle", "search", "scan", "join", "fit", "advance", "endscan", "take",
             "execfree", "allocfail", "check", "change", "grow", "shrink", "setpsp",
             "changefail", "umblink", "umbwalk", "freewalk", "done", "panic"}
  /\ ret \in {"fit", "grow", "setpsp", "change", "freewalk", "done"}
  /\ op \in [name : {"none", "alloc", "exec", "free", "change", "freeproc", "link"},
             psp : Psp \cup {FREE_PSP}, para : Para \cup {0}, size : 0 .. WordMax,
             strat : Strategy \cup {LARGEST}]
  /\ size \in 0 .. WordMax
  /\ mode \in Strategy \cup {LARGEST}
  /\ p \in Para \cup {0} /\ q \in Para
  /\ foundSeg \in Para \cup {0} /\ biggestSeg \in Para \cup {0}
  /\ asize \in 0 .. WordMax /\ bx \in 0 .. WordMax
  /\ phase \in {"request", "largest", "lowlargest", "execlargest", "execlow"}
  /\ oldumbstate \in {0, 1}
  /\ rc \in {"SUCCESS", "DE_NOMEM", "DE_MCBDESTRY", "DE_INVLDMCB"}

Heads == {a \in Para : mcbValid(a)}

(* The valid MCBs tile the arena: each block ends where the next MCB is,   *)
(* the last one at Top, and no stale MCB inside a block passes mcbValid    *)
(* (joinMCBs marks it "fake"; DosMemChange on it must be refused).         *)
ArenaTiled ==
  /\ first_mcb \in Heads
  /\ HasUmb => uppermem_root \in Heads
  /\ \A a \in Heads :
       /\ nxtMCB(a) \in Heads \cup {Top}
       /\ \A b \in Para : a < b /\ b < nxtMCB(a) => ~mcbValid(b)

(* The walkers stop exactly at the end of what is linked: the last MCB is  *)
(* the one below Top, and also the one below the UMB root while upper      *)
(* memory is not linked.                                                   *)
ChainEnds ==
  \A a \in Heads :
    m_type[a] = "Z" <=> \/ nxtMCB(a) = Top
                        \/ HasUmb /\ uppermem_link = 0 /\ nxtMCB(a) = uppermem_root

(* "MCB chain corrupted": no sequence of calls makes the kernel panic or   *)
(* report a destroyed chain for an operation on the whole chain.           *)
NoPanic ==
  /\ pc # "panic"
  /\ rc = "DE_MCBDESTRY" => op.name = "change"

(* The blocks a search under strategy area ar looks at, in a chain that is *)
(* cut at the UMB root while upper memory is not linked.                   *)
Region(ar) ==
  {a \in Heads :
     IF ~HasUmb THEN TRUE
     ELSE IF uppermem_link = 0 THEN a < uppermem_root
     ELSE ar = "UO" => a > uppermem_root}

FreeIn(ar) == {a \in Region(ar) : mcbFree(a)}

(* Best or last fit settles on an empty block of F: for a request of no    *)
(* paragraphs best fit takes the smallest block, last fit the last one.    *)
ChoseEmpty(F) ==
  /\ op.strat.fit # "first"
  /\ \E a \in F : m_size[a] = 0 /\ (op.strat.fit = "last" => \A b \in F : b <= a)

(* An allocation refused with DE_NOMEM was impossible, even by joining     *)
(* free neighbours, and the size reported in BX is the largest the same    *)
(* strategy can have.  The one exception is a request of no paragraphs:    *)
(* the test !foundSeg->m_size after the search refuses it when the block   *)
(* that best or last fit chose is empty, although larger ones are free.    *)
NoMemIsTrue ==
  pc = "done" /\ op.name = "alloc" /\ rc = "DE_NOMEM" =>
    LET F == FreeIn(op.strat.area) IN
    /\ \A a \in F :
         /\ m_size[a] < op.size \/ (op.size = 0 /\ ChoseEmpty(F))
         /\ nxtMCB(a) \notin F
         /\ m_size[a] <= bx
    /\ bx # 0 => \E a \in F : m_size[a] = bx

(* A resize refused with DE_NOMEM leaves its block as large as it can get  *)
(* (the comment of DosMemChange: "resized to the maximal size less than or *)
(* equal to size"): too small, its size in BX, and no free block after it. *)
ResizeRefusedIsTrue ==
  pc = "done" /\ op.name = "change" /\ rc = "DE_NOMEM" =>
    /\ mcbValid(op.para) /\ m_size[op.para] < op.size
    /\ bx = m_size[op.para]
    /\ nxtMCB(op.para) \in Heads => ~mcbFree(nxtMCB(op.para))

(* The block DosMemAlloc takes is the one its strategy names among all     *)
(* free blocks of the chain from the start of the search.                  *)
FitRule ==
  pc = "take" =>
    LET C == {a \in Heads : /\ ScanStart(mode) <= a
                            /\ HasUmb /\ uppermem_link = 0 => a < uppermem_root
                            /\ mcbFree(a) /\ m_size[a] >= size}
        sz(a) == m_size[a]
    IN
    /\ foundSeg \in C
    /\ CASE mode.fit = "first" -> \A a \in C : foundSeg <= a
         [] mode.fit = "last" -> \A a \in C : a <= foundSeg
         [] mode.fit = "best" ->
              \A a \in C : sz(foundSeg) <= sz(a) /\ (sz(foundSeg) = sz(a) => foundSeg <= a)
         [] mode.fit = "largest" -> \A a \in C : sz(a) <= sz(foundSeg)

(* When a process ends nothing of it is left, in low or in upper memory,   *)
(* and the UMB link is what it was before.                                 *)
ProcessMemFreed ==
  pc = "done" /\ op.name = "freeproc" =>
    /\ \A a \in Heads : m_psp[a] # op.psp
    /\ uppermem_link = oldumbstate

(* No call leaves the temporary change of the strategy behind. *)
StrategyKept == pc = "done" => mem_access_mode = op.strat

(* A step changes the owner or the size of an allocated block only when    *)
(* the call is about that block, or its owner is the process that ends, or *)
(* ExecMemAlloc gives back the block it just took.                         *)
OthersUntouched ==
  \A a \in Heads :
    m_psp[a] \in Psp /\ (m_psp'[a] # m_psp[a] \/ m_size'[a] # m_size[a])
      => \/ op'.name \in {"free", "change"} /\ op'.para = a
         \/ op'.name = "freeproc" /\ op'.psp = m_psp[a]
         \/ pc = "execfree" /\ a = p
AllocatedUntouched == [][OthersUntouched]_vars

(* Every call returns to its caller: the walks of the chain end. *)
CallReturns == pc # "idle" ~> pc = "idle"
=============================================================================
