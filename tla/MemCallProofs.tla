--------------------------- MODULE MemCallProofs ---------------------------
(***************************************************************************)
(* What the calls of the memory manager promise when they return, for      *)
(* every arena: an allocation takes the block that its strategy names, is  *)
(* refused only when it must be (or for no paragraphs, see ChoseEmpty) and *)
(* reports the largest block; a resize is refused only at the largest size *)
(* the block can have; the end of a process leaves nothing behind.         *)
(*                                                                         *)
(* MemMgrProofs has the shape of the chain.  Here an invariant follows     *)
(* each call: PhaseInv the attempts of the handler, FreeInv the walk of    *)
(* FreeProcessMem, ScanInv the search of DosMemAlloc, RefusedInv what is   *)
(* known once the search failed, ResizeInv the steps of DosMemChange.      *)
(***************************************************************************)
EXTENDS MemMgrProofs

Allocating ==
  \/ pc \in {"search", "scan", "fit", "advance", "endscan", "take", "allocfail"}
  \/ pc = "join" /\ ret = "fit"

(* The last attempt: mode bit 80h is cleared. *)
LowPhase == phase \in {"lowlargest", "execlow"} /\ Allocating

(* What the request searches for: the caller's strategy, in upper memory   *)
(* and then in low memory where the strategy says so.                      *)
Requested ==
  /\ size = op.size
  /\ \/ mode = op.strat
     \/ mode = Strat(op.strat.fit, "low") /\ op.strat.area = "U"

PhaseInv ==
  /\ pc = "idle" => phase = "request"
  /\ pc # "idle" =>
       /\ op.strat \in Strategy
       /\ mem_access_mode = IF LowPhase THEN Strat(op.strat.fit, "low") ELSE op.strat
  /\ LowPhase => op.strat.area = "U"
  /\ phase \in {"largest", "lowlargest"} => op.name = "alloc"
  /\ phase \in {"execlargest", "execlow"} => op.name = "exec"
  /\ Allocating =>
       /\ op.name \in {"alloc", "exec"}
       /\ phase # "request" => mode = LARGEST
       /\ phase \in {"largest", "lowlargest"} => size = WordMax
       /\ phase = "request" => Requested
  /\ Searching /\ mode = LARGEST => foundSeg = 0
  /\ pc = "take" => phase \notin {"largest", "lowlargest"}

(* The process has no block. *)
Freed == \A a \in Para : Head(a) => m_psp[a] # op.psp

FreeInv ==
  /\ ~HasUmb => uppermem_link = 0 /\ oldumbstate = 0
  /\ op.name = "freeproc" =>
       /\ op.psp \in Psp /\ pc \in {"umblink", "umbwalk", "freewalk", "done"}
       /\ pc \in {"umblink", "umbwalk"} /\ ret = "freewalk" =>
            size = 1 /\ uppermem_link = oldumbstate
       /\ pc = "freewalk" =>
            /\ HasUmb => uppermem_link = 1
            /\ \A a \in Para : Head(a) /\ a < p => m_psp[a] # op.psp
       /\ pc \in {"umblink", "umbwalk"} /\ ret = "done" => size = oldumbstate /\ Freed
       /\ pc = "done" => Freed /\ uppermem_link = oldumbstate

(* A free block that the search has passed, and what it knows of it. *)
Scanned(a) ==
  /\ Candidate(a) /\ ScanStart(mode) <= a
  /\ a < p \/ (a = p /\ pc \in {"advance", "endscan"})
ScanRule(a) ==
  /\ biggestSeg # 0 /\ m_size[a] <= m_size[biggestSeg]
  /\ m_type[a] = "M" => m_psp[nxtMCB(a)] # FREE_PSP
  /\ m_size[a] >= size =>
       /\ mode.fit # "first"
       /\ mode.fit = "last" => foundSeg # 0 /\ a <= foundSeg
       /\ mode.fit = "best" =>
            /\ foundSeg # 0 /\ m_size[foundSeg] <= m_size[a]
            /\ m_size[foundSeg] = m_size[a] => foundSeg <= a

ScanInv ==
  Searching =>
    /\ ScanStart(mode) <= p
    /\ HasUmb /\ uppermem_link = 0 => p < uppermem_root
    /\ pc = "endscan" => m_type[p] = "Z"
    /\ pc = "fit" => ~CanJoin(p)
    /\ foundSeg # 0 => Scanned(foundSeg) /\ m_size[foundSeg] >= size
    /\ biggestSeg # 0 => Scanned(biggestSeg)
    /\ \A a \in Para : Scanned(a) => ScanRule(a)

(* The blocks the caller could have had. *)
Choices == FreeIn(op.strat.area)
NoneFits ==
  \A a \in Choices :
    /\ nxtMCB(a) \notin Choices
    /\ m_size[a] < op.size \/ (op.size = 0 /\ ChoseEmpty(Choices))
IsChoice(n) == n # 0 => \E a \in Choices : m_size[a] = n
IsLargest(n) == IsChoice(n) /\ \A a \in Choices : m_size[a] <= n

RefusedInv ==
  op.name = "alloc" =>
    /\ Allocating \/ pc \in {"check", "done"}
    /\ Allocating /\ (phase # "request" \/ pc = "allocfail") => NoneFits
    /\ pc = "allocfail" /\ phase # "request" =>
         IsChoice(asize) /\ \A a \in Choices : ScanStart(LARGEST) <= a => m_size[a] <= asize
    /\ Allocating /\ phase = "lowlargest" => IsChoice(bx)
    /\ pc = "check" \/ (pc = "done" /\ rc = "DE_NOMEM") => NoneFits /\ IsLargest(bx)

(* The block of a resize that was refused: no free block follows it in the *)
(* chain, it is too small, and BX is its size.                             *)
Stuck ==
  /\ Head(op.para) /\ m_size[op.para] < op.size /\ bx = m_size[op.para]
  /\ ~CanJoin(op.para)

(* Where a resize is after it failed. *)
ResizeOver == pc \in {"changefail", "done"} \/ (pc = "check" /\ ret = "done")

ResizeInv ==
  op.name = "change" =>
    /\ Changing \/ ResizeOver
    /\ size = op.size
    /\ pc = "grow" => ~CanJoin(p)
    /\ rc = "DE_NOMEM" => ResizeOver /\ Stuck

-----------------------------------------------------------------------------
(* The attempts of the handlers *)

LEMMA PhaseCalls ==
  ASSUME IInv, PhaseInv, Program
  PROVE  PhaseInv'
<1> USE DEF PhaseInv, LowPhase, Allocating, Searching, Requested
<1>1. pc = "idle" /\ phase = "request" /\ ret = "done" /\ mem_access_mode \in Strategy
  BY DEF Program, Int21Alloc, ExecMemAlloc, Int21Free, Int21Change, FreeProcessMem, SetStrategy,
     Int21UmbLink, UserWrite, Call, IInv, TypeOK, PcInv
<1>2. mem_access_mode # LARGEST
  BY <1>1 DEF Strategy, LARGEST, Strat
<1>3. CASE \E ps \in Psp, s \in Sizes : Int21Alloc(ps, s) \/ ExecMemAlloc(ps, s)
  BY <1>1, <1>2, <1>3 DEF Int21Alloc, ExecMemAlloc, Call, globals
<1>4. CASE \E ps \in Psp, a \in Para \ SystemMcbs : Int21Free(ps, a)
  BY <1>1, <1>4 DEF Int21Free, Call
<1>5. CASE \E ps \in Psp, a \in Para \ SystemMcbs, s \in Sizes : Int21Change(ps, a, s)
  BY <1>1, <1>5 DEF Int21Change, Call, globals
<1>6. CASE \E ps \in Psp : FreeProcessMem(ps)
  BY <1>1, <1>6 DEF FreeProcessMem, Call, globals
<1>7. CASE \E n \in 0 .. 2 : Int21UmbLink(n)
  BY <1>1, <1>7 DEF Int21UmbLink, Call, globals
<1>8. CASE (\E m \in Strategies : SetStrategy(m)) \/ \E b \in Para : UserWrite(b)
  BY <1>1, <1>8 DEF SetStrategy, UserWrite, locals
<1> QED BY <1>3, <1>4, <1>5, <1>6, <1>7, <1>8 DEF Program

(* Attempts end and begin. *)
LEMMA PhaseEnds ==
  ASSUME IInv, PhaseInv, AllocFail \/ ExecFail \/ Take \/ ExecFree \/ Return
  PROVE  PhaseInv'
<1> USE DEF PhaseInv, LowPhase, Allocating, Searching, Requested
<1>1. op.strat \in Strategy => op.strat = Strat(op.strat.fit, op.strat.area)
  BY DEF Strategy, Strat
<1>2. \A f, a : Strat(f, a).fit = f /\ Strat(f, a).area = a
  BY DEF Strat
<1>3. CASE AllocFail
  BY <1>1, <1>2, <1>3 DEF AllocFail, Retry, ClearUpper, SetUpper, args
<1>4. CASE ExecFail
  BY <1>1, <1>2, <1>4 DEF ExecFail, Retry, ClearUpper, SetUpper, args
<1>5. CASE Take
  BY <1>1, <1>2, <1>5 DEF Take, SetUpper, caller, args
<1>6. CASE ExecFree
  BY <1>6 DEF ExecFree, locals, args
<1>7. CASE Return
  BY <1>7 DEF Return, LocalsReset, Nobody
<1> QED BY <1>3, <1>4, <1>5, <1>6, <1>7

LEMMA PhaseEndScan ==
  ASSUME IInv, PhaseInv, EndScan
  PROVE  PhaseInv'
<1> USE DEF PhaseInv, LowPhase, Allocating, Searching, Requested
<1>1. /\ pc = "endscan" /\ UNCHANGED <<mem_access_mode, ret, op, phase, size>>
      /\ pc' \in {"take", "search", "allocfail"}
  BY DEF EndScan, globals, caller
<1>2. pc' = "take" => phase \notin {"largest", "lowlargest"}
  <2> SUFFICES ASSUME pc' = "take", phase \in {"largest", "lowlargest"} PROVE FALSE
    OBVIOUS
  <2>1. mode = LARGEST /\ size = WordMax /\ foundSeg = 0
    BY <1>1
  <2>2. biggestSeg # 0 /\ m_size[biggestSeg] >= WordMax
    BY <2>1 DEF EndScan
  <2>3. Head(biggestSeg)
    BY <1>1, <2>2 DEF IInv, SearchInv, Candidate
  <2> QED BY <2>2, <2>3, Layout DEF Head, Hd, IInv, TypeOK
<1>3. mode' = mode \/ (mode # LARGEST /\ mode.area = "U" /\ mode' = Strat(mode.fit, "low"))
  BY DEF EndScan, SearchLow
<1>4. op.strat \in Strategy /\ \A f : Strat(f, "low").fit = f /\ Strat(f, "low").area = "low"
  BY <1>1 DEF Strat
<1>5. (phase # "request" => mode' = LARGEST) /\ (phase = "request" => Requested')
  BY <1>1, <1>3, <1>4
<1> QED BY <1>1, <1>2, <1>5

LEMMA PhaseSteps ==
  ASSUME IInv, PhaseInv,
         \/ searchAgain \/ Scan \/ Fit \/ Advance \/ joinMCBs
         \/ DosMemCheck \/ DosMemChange \/ Grow \/ Shrink \/ SetPsp \/ ChangeFail
         \/ DosUmbLink \/ UmbWalk \/ UmbSet \/ FreeWalk \/ UNCHANGED vars
  PROVE  PhaseInv'
<1> USE DEF PhaseInv, LowPhase, Allocating, Searching, Requested
<1>1. CASE searchAgain \/ Scan \/ Advance \/ joinMCBs
  BY <1>1 DEF searchAgain, Scan, Advance, joinMCBs, globals, caller, args, found, locals, IInv, PcInv
<1>2. CASE Fit
  BY <1>2 DEF Fit, globals, caller, args, LARGEST, Strat
<1>3. CASE DosMemCheck \/ DosMemChange \/ Grow \/ Shrink \/ SetPsp \/ ChangeFail
  BY <1>3 DEF DosMemCheck, DosMemChange, Grow, Shrink, SetPsp, ChangeFail, globals, caller, args,
     locals, IInv, PcInv
<1>4. CASE DosUmbLink \/ UmbWalk \/ UmbSet \/ FreeWalk
  BY <1>4 DEF DosUmbLink, UmbWalk, UmbSet, FreeWalk, globals, caller, args, locals, IInv, PcInv
<1>5. CASE UNCHANGED vars
  BY <1>5 DEF vars, globals, locals, args, found
<1> QED BY <1>1, <1>2, <1>3, <1>4, <1>5

LEMMA PhaseNext == IInv /\ PhaseInv /\ [Next]_vars => PhaseInv'
BY PhaseCalls, PhaseEnds, PhaseEndScan, PhaseSteps DEF Next, Kernel

LEMMA PhaseInit == Init => PhaseInv
BY DEF Init, PhaseInv, LowPhase, Allocating, Searching

(* DosMemLargest and ExecMemAlloc clear bit 80h of the strategy for a      *)
(* while; no path through them, successful or not, leaves it cleared.      *)
THEOREM StrategyAlwaysKept == Spec => []StrategyKept
<1>1. PhaseInv => StrategyKept
  BY DEF PhaseInv, StrategyKept, LowPhase, Allocating
<1> QED BY <1>1, PhaseInit, PhaseNext, Invariance, PTL DEF Spec

-----------------------------------------------------------------------------
(* The end of a process *)

LEMMA FreeFreeWalk ==
  ASSUME IInv, FreeInv, FreeWalk
  PROVE  FreeInv'
<1>1. /\ pc = "freewalk" /\ op.name = "freeproc" /\ op.psp \in Psp /\ Head(p)
      /\ UNCHANGED <<uppermem_link, op, oldumbstate>>
  BY DEF FreeWalk, IInv, PcInv, FreeInv, caller
<1>2. /\ p \in Para /\ mcbValid(p) /\ m_type[p] \in {"M", "Z"} /\ nxtMCB(p) = Nx(m_size, p)
      /\ Nx(m_size, p) \in Int
  BY <1>1, Follow
<1>3. /\ m_type' = m_type /\ m_size' = m_size
      /\ \A a \in Para : a # p => m_psp'[a] = m_psp[a]
      /\ m_psp'[p] # op.psp
  <2>1. FREE_PSP # op.psp
    BY <1>1, MemMgrAssumption
  <2> QED BY <1>2, <2>1 DEF FreeWalk, Owned, mcbs, IInv, TypeOK
<1>4. \A a \in Para : Head(a) /\ a < p => m_psp[a] # op.psp
  BY <1>1 DEF FreeInv
<1>5. \A a \in Para : Head(a) /\ p < a => Nx(m_size, p) <= a
  BY <1>1, <1>2 DEF IInv, Shape, Arena, Tiled, Head
<1>6. \A a \in Para : Hd(m_type', m_size', a) <=> Head(a)
  BY <1>3 DEF Head
<1>7. CASE m_type[p] = "M"
  <2>1. pc' = "freewalk" /\ p' = Nx(m_size, p)
    BY <1>1, <1>2, <1>7 DEF FreeWalk
  <2>2. ASSUME NEW a \in Para, Head(a)', a < p' PROVE m_psp'[a] # op.psp
    <3>1. Head(a) /\ (a < p \/ a = p)
      BY <1>2, <1>5, <1>6, <2>1, <2>2, Layout DEF Head
    <3> QED BY <1>3, <1>4, <3>1
  <2> QED BY <1>1, <2>1, <2>2 DEF FreeInv, Para
<1>8. CASE m_type[p] = "Z"
  <2>1. pc' = "umblink" /\ ret' = "done" /\ size' = oldumbstate
    BY <1>2, <1>8 DEF FreeWalk
  <2>2. Nx(m_size, p) = Top
    <3>1. HasUmb => uppermem_link = 1
      BY <1>1 DEF FreeInv
    <3> QED BY <1>1, <1>2, <1>8, <3>1 DEF IInv, Shape, Arena, Ends, Last, Head
  <2>3. ASSUME NEW a \in Para, Head(a)' PROVE m_psp'[a] # op.psp
    <3>1. Head(a) /\ (a < p \/ a = p)
      BY <1>2, <1>5, <1>6, <2>2, <2>3, Layout DEF Head
    <3> QED BY <1>3, <1>4, <3>1
  <2>4. Freed'
    BY <1>1, <2>3 DEF Freed, Para
  <2> QED BY <1>1, <2>1, <2>4 DEF FreeInv
<1> QED BY <1>2, <1>7, <1>8

LEMMA FreeUmbLink ==
  ASSUME IInv, FreeInv, DosUmbLink
  PROVE  FreeInv'
<1>1. /\ pc = "umblink" /\ p' = first_mcb /\ pc' \in {ret, "umbwalk"} /\ ret \in {"freewalk", "done"}
      /\ UNCHANGED <<uppermem_link, op, oldumbstate, ret, size, mcbs>>
      /\ pc' # "umbwalk" => ~HasUmb \/ size > 1 \/ uppermem_link = size
  BY DEF DosUmbLink, IInv, PcInv, globals, caller, args
<1>2. UNCHANGED <<m_type, m_psp, m_size>> /\ (Freed => Freed')
  BY <1>1 DEF mcbs, Freed, Head
<1>3. oldumbstate \in {0, 1} /\ uppermem_link \in {0, 1}
  BY DEF IInv, TypeOK
<1>4. \A a \in Para : ~(a < first_mcb)
  BY Layout
<1> QED BY <1>1, <1>2, <1>3, <1>4 DEF FreeInv, Para

LEMMA FreeUmbSet ==
  ASSUME IInv, FreeInv, UmbSet
  PROVE  FreeInv'
<1>1. /\ pc = "umbwalk" /\ pc' = ret /\ ret \in {"freewalk", "done"} /\ p' = first_mcb
      /\ UNCHANGED <<op, oldumbstate, ret, size>> /\ HasUmb /\ size \in {0, 1} /\ size # uppermem_link
      /\ Head(p) /\ p <= uppermem_root /\ (uppermem_link = 0 => p < uppermem_root)
      /\ uppermem_link \in {0, 1}
  BY DEF UmbSet, IInv, PcInv, UmbInv, caller, args, TypeOK
<1>2. uppermem_link' = size
  BY <1>1, Layout DEF UmbSet, Head, Hd
<1>3. m_psp' = m_psp /\ m_size' = m_size /\ \A a \in Para : Hd(m_type', m_size', a) => Head(a)
  <2>1. m_psp' = m_psp /\ m_size' = m_size
    BY DEF UmbSet, Typed, mcbs
  <2>2. UNCHANGED m_type \/ (Typed(q, "Z") /\ m_type[q] = "M") \/ (Typed(p, "M") /\ m_type[p] = "Z")
    BY DEF UmbSet, mcbs
  <2>3. \A a \in Para : m_type'[a] # "other" => m_type[a] # "other"
    BY <2>2 DEF Typed, IInv, TypeOK
  <2> QED BY <2>1, <2>3 DEF Hd, Head
<1>4. Freed => Freed'
  BY <1>1, <1>3 DEF Freed, Head, Para
<1>5. \A a \in Para : ~(a < first_mcb)
  BY Layout
<1> QED BY <1>1, <1>2, <1>4, <1>5 DEF FreeInv, Para

LEMMA FreeCalls ==
  ASSUME IInv, FreeInv, Program
  PROVE  FreeInv'
<1>1. pc = "idle" /\ op.name # "freeproc"
  BY DEF Program, Int21Alloc, ExecMemAlloc, Int21Free, Int21Change, FreeProcessMem, SetStrategy,
     Int21UmbLink, UserWrite, Call, FreeInv
<1>2. CASE \E ps \in Psp : FreeProcessMem(ps)
  BY <1>2 DEF FreeProcessMem, Call, FreeInv, globals
<1>3. CASE \E ps \in Psp, s \in Sizes : Int21Alloc(ps, s) \/ ExecMemAlloc(ps, s)
  BY <1>3 DEF Int21Alloc, ExecMemAlloc, Call, globals, FreeInv
<1>4. CASE \E ps \in Psp, a \in Para \ SystemMcbs : Int21Free(ps, a)
  BY <1>4 DEF Int21Free, Call, FreeInv
<1>5. CASE \E ps \in Psp, a \in Para \ SystemMcbs, s \in Sizes : Int21Change(ps, a, s)
  BY <1>5 DEF Int21Change, Call, globals, FreeInv
<1>6. CASE \E n \in 0 .. 2 : Int21UmbLink(n)
  BY <1>6 DEF Int21UmbLink, Call, globals, FreeInv
<1>7. CASE (\E m \in Strategies : SetStrategy(m)) \/ \E b \in Para : UserWrite(b)
  BY <1>1, <1>7 DEF SetStrategy, UserWrite, locals, FreeInv
<1> QED BY <1>2, <1>3, <1>4, <1>5, <1>6, <1>7 DEF Program

(* The other steps are of other calls, or end one. *)
LEMMA FreeOthers ==
  ASSUME IInv, FreeInv, op.name # "freeproc", op' = op \/ op' = Nobody,
         uppermem_link' = uppermem_link, oldumbstate' = oldumbstate \/ oldumbstate' = 0
  PROVE  FreeInv'
BY DEF FreeInv, Nobody

LEMMA FreeNext == IInv /\ FreeInv /\ [Next]_vars => FreeInv'
<1> SUFFICES ASSUME IInv, FreeInv, [Next]_vars PROVE FreeInv'
  OBVIOUS
<1>1. CASE FreeWalk \/ DosUmbLink \/ UmbSet \/ Program
  BY <1>1, FreeFreeWalk, FreeUmbLink, FreeUmbSet, FreeCalls
<1>2. CASE UmbWalk
  <2>1. Head(p) /\ mcbValid(p)
    BY <1>2, Follow DEF UmbWalk, IInv, PcInv
  <2>2. UNCHANGED <<pc, ret, op, size, oldumbstate, uppermem_link, m_type, m_psp, m_size>>
        /\ pc = "umbwalk"
    BY <1>2, <2>1 DEF UmbWalk, globals, mcbs, caller, args
  <2>3. Freed => Freed'
    BY <2>2 DEF Freed, Head
  <2> QED BY <2>2, <2>3 DEF FreeInv
<1>3. CASE Return
  BY <1>3 DEF Return, LocalsReset, Nobody, FreeInv, globals
<1>4. CASE \/ joinMCBs \/ searchAgain \/ Scan \/ Fit \/ Advance \/ EndScan \/ Take \/ ExecFree
           \/ AllocFail \/ ExecFail
           \/ DosMemCheck \/ DosMemChange \/ Grow \/ Shrink \/ SetPsp \/ ChangeFail
  <2>1. op.name # "freeproc"
    BY <1>4 DEF FreeInv, joinMCBs, searchAgain, Scan, Fit, Advance, EndScan, Take, ExecFree,
       AllocFail, ExecFail, DosMemCheck, DosMemChange, Grow, Shrink, SetPsp, ChangeFail
  <2>2. UNCHANGED <<op, oldumbstate, uppermem_link>>
    BY <1>4 DEF joinMCBs, searchAgain, Scan, Fit, Advance, EndScan, Take, ExecFree,
       AllocFail, ExecFail, DosMemCheck, DosMemChange, Grow, Shrink, SetPsp, ChangeFail,
       globals, caller, locals
  <2> QED BY <2>1, <2>2, FreeOthers
<1>5. CASE UNCHANGED vars
  BY <1>5 DEF vars, globals, mcbs, locals, args, FreeInv, Freed, Head
<1> QED BY <1>1, <1>2, <1>3, <1>4, <1>5 DEF Next, Kernel

LEMMA FreeInit == Init => FreeInv
BY DEF Init, FreeInv, Nobody

(* FreeProcessMem finds every block of the process, the ones in upper      *)
(* memory too since it links them first, and restores the link.            *)
THEOREM ProcessMemAlwaysFreed == Spec => []ProcessMemFreed
<1>1. IInv /\ FreeInv => ProcessMemFreed
  BY ValidIsHead DEF FreeInv, Freed, ProcessMemFreed, Heads
<1> QED BY <1>1, FreeInit, FreeNext, Invariance, PTL DEF Spec

-----------------------------------------------------------------------------
(* The search *)

LEMMA Start ==
  ASSUME IInv
  PROVE  /\ ScanStart(mode) \in Para
         /\ ScanStart(mode) \in {first_mcb, uppermem_root}
         /\ uppermem_link = 0 => ScanStart(mode) = first_mcb
BY Layout DEF ScanStart

LEMMA SameStart ==
  ASSUME UNCHANGED <<mode, size, uppermem_link, mem_access_mode>>
  PROVE  ScanStart(mode)' = ScanStart(mode)
BY DEF ScanStart

(* Where the search is after a step, for steps that change no MCB. *)
LEMMA SameRules ==
  ASSUME UNCHANGED <<mcbs, size, mode, foundSeg, biggestSeg>>, NEW a
  PROVE  (Candidate(a)' <=> Candidate(a)) /\ (ScanRule(a)' <=> ScanRule(a))
BY DEF mcbs, Candidate, Head, ScanRule, nxtMCB, nxtMCBsize

LEMMA ScanStarts ==
  ASSUME IInv, searchAgain
  PROVE  ScanInv'
<1>1. /\ p' = ScanStart(mode) /\ foundSeg' = 0 /\ biggestSeg' = 0 /\ pc' = "scan"
      /\ UNCHANGED <<mode, size, uppermem_link, mem_access_mode>>
  BY DEF searchAgain, globals, args
<1>2. ScanStart(mode)' = p' /\ p' \in Para /\ (uppermem_link = 0 => p' = first_mcb)
  BY <1>1, Start, SameStart
<1>3. \A a \in Para : ~Scanned(a)'
  BY <1>1, <1>2, Layout DEF Scanned
<1>4. HasUmb /\ uppermem_link = 0 => p' < uppermem_root
  BY <1>2, Layout
<1> QED BY <1>1, <1>2, <1>3, <1>4, Layout DEF ScanInv, Para

LEMMA ScanScans ==
  ASSUME IInv, ScanInv, Scan
  PROVE  ScanInv'
<1>1. /\ pc = "scan" /\ UNCHANGED <<mcbs, mode, size, uppermem_link, mem_access_mode, p, foundSeg, biggestSeg>>
      /\ Head(p)
  BY DEF Scan, globals, locals, args, found, IInv, PcInv
<1>2. mcbValid(p)
  BY <1>1, Follow
<1>3. (pc' = "join" /\ ret' = "fit") \/ (pc' = "advance" /\ m_psp[p] # FREE_PSP)
  BY <1>2 DEF Scan, mcbFree
<1>4. ScanStart(mode)' = ScanStart(mode)
  BY <1>1, SameStart
<1>5. \A a \in Para : Scanned(a)' <=> Scanned(a)
  BY <1>1, <1>3, <1>4, SameRules DEF Scanned, Candidate
<1>6. Searching
  BY <1>1 DEF Searching
<1>7. m_size' = m_size /\ p' = p
  BY <1>1 DEF mcbs
<1>8. \A a \in Para : Scanned(a)' => ScanRule(a)'
  BY <1>1, <1>5, <1>6, SameRules DEF ScanInv
<1>9. foundSeg # 0 => foundSeg \in Para /\ Scanned(foundSeg) /\ m_size[foundSeg] >= size
  BY <1>6 DEF ScanInv, Scanned, Candidate, Head, Hd
<1>10. biggestSeg # 0 => biggestSeg \in Para /\ Scanned(biggestSeg)
  BY <1>6 DEF ScanInv, Scanned, Candidate, Head, Hd
<1>11. foundSeg' # 0 => Scanned(foundSeg)' /\ m_size'[foundSeg'] >= size'
  BY <1>1, <1>3, <1>4, <1>7, <1>9, SameRules DEF Scanned, Candidate, Head, mcbs
<1>12. biggestSeg' # 0 => Scanned(biggestSeg)'
  BY <1>1, <1>3, <1>4, <1>10 DEF Scanned, Candidate, Head, mcbs
<1>13. ScanStart(mode) <= p /\ (HasUmb /\ uppermem_link = 0 => p < uppermem_root)
  BY <1>6 DEF ScanInv
<1> QED BY <1>1, <1>3, <1>4, <1>8, <1>11, <1>12, <1>13 DEF ScanInv, Para

(* Blocks below p are not touched by a join at p. *)
LEMMA ScanJoins ==
  ASSUME IInv, ScanInv, joinMCBs, ret = "fit"
  PROVE  ScanInv'
<1>1. /\ pc = "join" /\ Head(p) /\ Searching /\ ret' = ret
      /\ UNCHANGED <<mode, size, uppermem_link, mem_access_mode, p, foundSeg, biggestSeg>>
  BY DEF joinMCBs, IInv, PcInv, Searching, locals, args, found
<1>2. p \in Para /\ p \in Int
  BY <1>1, Layout DEF Head, Hd
<1>3. PICK n : n = nxtMCB(p)
  OBVIOUS
<1>4. n \in Int /\ p < n /\ (CanJoin(p) => n \in Para /\ Head(n) /\ mcbValid(n) /\ m_psp[n] = FREE_PSP)
  BY <1>1, <1>3, Follow, ValidIsHead DEF CanJoin, mcbFree
<1>5. m_psp' = m_psp /\ \A a \in Para : a < p => m_type'[a] = m_type[a] /\ m_size'[a] = m_size[a]
  BY <1>2, <1>3, <1>4, Layout DEF joinMCBs, Joined, mcbs, IInv, TypeOK
<1>6. (CanJoin(p) /\ pc' = "join") \/ (~CanJoin(p) /\ pc' = "fit" /\ UNCHANGED mcbs)
  BY <1>3, <1>4 DEF joinMCBs
<1>7. ScanStart(mode)' = ScanStart(mode)
  BY <1>1, SameStart
<1>8. ASSUME NEW a \in Para
      PROVE  /\ Scanned(a)' <=> Scanned(a)
             /\ Scanned(a) => a < p /\ m_type'[a] = m_type[a] /\ m_size'[a] = m_size[a]
  BY <1>1, <1>5, <1>6, <1>7 DEF Scanned, Candidate, Head, Hd
<1>9. foundSeg # 0 => foundSeg \in Para /\ Scanned(foundSeg) /\ m_size[foundSeg] >= size
  BY <1>1 DEF ScanInv, Scanned, Candidate, Head, Hd
<1>10. biggestSeg # 0 => biggestSeg \in Para /\ Scanned(biggestSeg)
  BY <1>1 DEF ScanInv, Scanned, Candidate, Head, Hd
<1>11. ASSUME NEW a \in Para, Scanned(a)' PROVE ScanRule(a)'
  <2>1. Scanned(a) /\ ScanRule(a) /\ m_type'[a] = m_type[a] /\ m_size'[a] = m_size[a]
    BY <1>1, <1>8, <1>11 DEF ScanInv
  <2>2. nxtMCB(a)' = nxtMCB(a)
    BY <2>1 DEF nxtMCB, nxtMCBsize
  <2>3. biggestSeg # 0 /\ m_size'[biggestSeg] = m_size[biggestSeg]
    BY <1>8, <1>10, <2>1 DEF ScanRule
  <2>4. foundSeg # 0 => m_size'[foundSeg] = m_size[foundSeg]
    BY <1>8, <1>9
  <2> QED BY <1>1, <1>5, <2>1, <2>2, <2>3, <2>4 DEF ScanRule
<1>12. foundSeg' # 0 => Scanned(foundSeg)' /\ m_size'[foundSeg'] >= size'
  <2> SUFFICES ASSUME foundSeg # 0 PROVE Scanned(foundSeg)' /\ m_size'[foundSeg] >= size
    BY <1>1
  <2>1. PICK a \in Para : a = foundSeg
    BY <1>9
  <2>2. Scanned(a)' /\ m_size'[a] = m_size[a]
    BY <1>8, <1>9, <2>1
  <2> QED BY <1>1, <1>9, <2>1, <2>2 DEF Scanned, Candidate, Head
<1>13. biggestSeg' # 0 => Scanned(biggestSeg)'
  <2> SUFFICES ASSUME biggestSeg # 0 PROVE Scanned(biggestSeg)'
    BY <1>1
  <2>1. PICK a \in Para : a = biggestSeg
    BY <1>10
  <2>2. Scanned(a)'
    BY <1>8, <1>10, <2>1
  <2> QED BY <1>1, <2>1, <2>2 DEF Scanned, Candidate, Head
<1>14. ScanStart(mode) <= p /\ (HasUmb /\ uppermem_link = 0 => p < uppermem_root)
  BY <1>1 DEF ScanInv
<1>15. ~CanJoin(p) => ~CanJoin(p)' \/ pc' # "fit"
  BY <1>1, <1>6 DEF CanJoin, mcbFree, nxtMCB, nxtMCBsize, mcbs
<1> QED BY <1>1, <1>6, <1>7, <1>11, <1>12, <1>13, <1>14, <1>15 DEF ScanInv, Para

(* The block p joins the scanned ones. *)
LEMMA ScanFits ==
  ASSUME IInv, ScanInv, Fit
  PROVE  ScanInv'
<1>1. /\ pc = "fit" /\ Head(p) /\ Searching /\ m_psp[p] = FREE_PSP
      /\ UNCHANGED <<mcbs, mode, size, uppermem_link, mem_access_mode, p>>
  BY DEF Fit, IInv, PcInv, SearchInv, Searching, globals, args
<1>2. /\ p \in Para /\ p \in Int /\ p > 0 /\ size \in Int /\ Candidate(p) /\ p # 0
      /\ \A a \in Para : a \in Int /\ m_size[a] \in Int
  BY <1>1, Layout DEF Head, Hd, Candidate, IInv, TypeOK
<1>3. /\ biggestSeg' = IF biggestSeg = 0 \/ m_size[biggestSeg] < m_size[p] THEN p ELSE biggestSeg
      /\ foundSeg' = IF BlockFits(p) /\ mode # LARGEST /\ Better(p) THEN p ELSE foundSeg
      /\ pc' = IF BlockFits(p) /\ mode.fit = "first" THEN "take" ELSE "advance"
  BY DEF Fit
<1>4. CASE pc' = "take"
  BY <1>4 DEF ScanInv, Searching
<1>5. CASE pc' = "advance"
  <2>1. ~(BlockFits(p) /\ mode.fit = "first")
    BY <1>3, <1>5
  <2>2. ScanStart(mode)' = ScanStart(mode)
    BY <1>1, SameStart
  <2>3. /\ ScanStart(mode) <= p /\ (HasUmb /\ uppermem_link = 0 => p < uppermem_root)
        /\ m_type[p] = "M" => m_psp[nxtMCB(p)] # FREE_PSP
    BY <1>1 DEF ScanInv, CanJoin, mcbFree
  <2>4. \A a \in Para : Scanned(a)' <=> Scanned(a) \/ a = p
    <3>1. \A a \in Para : Candidate(a)' <=> Candidate(a)
      BY <1>1 DEF Candidate, Head, mcbs
    <3> QED BY <1>1, <1>2, <1>5, <2>2, <2>3, <3>1 DEF Scanned
  <2>5. \A a \in Para : Scanned(a) => ScanRule(a) /\ a < p
    BY <1>1 DEF ScanInv, Scanned
  <2>6. foundSeg # 0 => foundSeg \in Para /\ Scanned(foundSeg) /\ m_size[foundSeg] >= size /\ foundSeg < p
    BY <1>1 DEF ScanInv, Scanned, Candidate, Head, Hd
  <2>7. biggestSeg # 0 => biggestSeg \in Para /\ Scanned(biggestSeg) /\ biggestSeg < p
    BY <1>1 DEF ScanInv, Scanned, Candidate, Head, Hd
  <2>8. PICK b : b = biggestSeg'
    OBVIOUS
  <2>9. PICK f : f = foundSeg'
    OBVIOUS
  <2>10. b \in Para /\ b # 0 /\ (Scanned(b) \/ b = p)
    BY <1>2, <1>3, <2>7, <2>8
  <2>11. f # 0 => f \in Para /\ (Scanned(f) \/ f = p) /\ m_size[f] >= size
    BY <1>2, <1>3, <2>6, <2>9 DEF BlockFits
  <2>12. ASSUME NEW a \in Para, Scanned(a) \/ a = p
         PROVE  /\ m_size[a] <= m_size[b]
                /\ m_type[a] = "M" => m_psp[nxtMCB(a)] # FREE_PSP
    <3>1. m_size[a] <= m_size[b]
      <4>1. CASE a = p
        BY <1>2, <1>3, <2>7, <2>8, <4>1
      <4>2. CASE Scanned(a)
        <5>1. biggestSeg # 0 /\ m_size[a] <= m_size[biggestSeg]
          BY <2>5, <4>2 DEF ScanRule
        <5>2. b = IF m_size[biggestSeg] < m_size[p] THEN p ELSE biggestSeg
          BY <1>3, <2>8, <5>1
        <5>3. m_size[a] \in Int /\ m_size[p] \in Int /\ m_size[biggestSeg] \in Int
          BY <1>2, <2>7, <5>1
        <5> QED BY <5>1, <5>2, <5>3
      <4> QED BY <2>12, <4>1, <4>2
    <3> QED BY <2>3, <2>5, <2>12, <3>1 DEF ScanRule
  <2>13. ASSUME NEW a \in Para, Scanned(a) \/ a = p, m_size[a] >= size
         PROVE  /\ mode.fit # "first"
                /\ mode.fit = "last" => f # 0 /\ a <= f
                /\ mode.fit = "best" => /\ f # 0 /\ m_size[f] <= m_size[a]
                                        /\ m_size[f] = m_size[a] => f <= a
    <3>1. mode.fit # "first"
      BY <2>1, <2>5, <2>13 DEF ScanRule, BlockFits
    <3>2. ASSUME mode.fit = "last" PROVE f # 0 /\ a <= f
      <4>1. BlockFits(p) => f = p
        BY <1>3, <2>9, <3>2 DEF Better, LARGEST, Strat
      <4>2. ~BlockFits(p) => f = foundSeg
        BY <1>3, <2>9
      <4>3. CASE a = p
        BY <1>2, <2>13, <4>1, <4>3 DEF BlockFits
      <4>4. CASE Scanned(a)
        <5>1. foundSeg # 0 /\ a <= foundSeg /\ a < p
          BY <2>5, <2>13, <3>2, <4>4 DEF ScanRule
        <5> QED BY <1>2, <4>1, <4>2, <5>1
      <4> QED BY <2>13, <4>3, <4>4
    <3>3. ASSUME mode.fit = "best"
          PROVE  f # 0 /\ m_size[f] <= m_size[a] /\ (m_size[f] = m_size[a] => f <= a)
      <4>1. f = IF BlockFits(p) /\ (foundSeg = 0 \/ m_size[foundSeg] > m_size[p]) THEN p ELSE foundSeg
        BY <1>3, <2>9, <3>3 DEF Better, LARGEST, Strat
      <4>2. CASE a = p
        <5>1. BlockFits(p)
          BY <2>13, <4>2 DEF BlockFits
        <5>2. CASE foundSeg = 0
          BY <1>2, <4>1, <4>2, <5>1, <5>2
        <5>3. CASE foundSeg # 0
          BY <1>2, <2>6, <4>1, <4>2, <5>1, <5>3
        <5> QED BY <5>2, <5>3
      <4>3. CASE Scanned(a)
        <5>1. /\ foundSeg # 0 /\ m_size[foundSeg] <= m_size[a]
              /\ m_size[foundSeg] = m_size[a] => foundSeg <= a
          BY <2>5, <2>13, <3>3, <4>3 DEF ScanRule
        <5>2. foundSeg \in Para
          BY <2>6, <5>1
        <5>3. f = p => m_size[p] < m_size[foundSeg]
          BY <1>2, <2>6, <4>1, <5>1, <5>2
        <5>4. f = p \/ f = foundSeg
          BY <4>1
        <5> QED BY <1>2, <5>1, <5>2, <5>3, <5>4
      <4> QED BY <2>13, <4>2, <4>3
    <3> QED BY <3>1, <3>2, <3>3
  <2>14. ASSUME NEW a \in Para, Scanned(a)' PROVE ScanRule(a)'
    <3>1. Scanned(a) \/ a = p
      BY <2>4, <2>14
    <3>2. m_type' = m_type /\ m_psp' = m_psp /\ m_size' = m_size /\ nxtMCB(a)' = nxtMCB(a)
      BY <1>1 DEF mcbs, nxtMCB, nxtMCBsize
    <3> QED BY <1>1, <2>8, <2>9, <2>10, <2>12, <2>13, <3>1, <3>2 DEF ScanRule
  <2>15. foundSeg' # 0 => Scanned(foundSeg)' /\ m_size'[foundSeg'] >= size'
    <3> SUFFICES ASSUME f # 0 PROVE Scanned(foundSeg)' /\ m_size'[f] >= size
      BY <1>1, <2>9
    <3>1. Scanned(f)' /\ m_size[f] >= size
      BY <2>4, <2>11
    <3> QED BY <1>1, <2>9, <3>1 DEF Scanned, Candidate, Head, mcbs
  <2>16. Scanned(biggestSeg)'
    <3>1. Scanned(b)'
      BY <2>4, <2>10
    <3> QED BY <2>8, <3>1 DEF Scanned, Candidate, Head
  <2> QED BY <1>1, <1>5, <2>2, <2>3, <2>14, <2>15, <2>16 DEF ScanInv, Para
<1> QED BY <1>3, <1>4, <1>5

LEMMA ScanAdvances ==
  ASSUME IInv, ScanInv, Advance
  PROVE  ScanInv'
<1>1. /\ pc = "advance" /\ Head(p) /\ Searching
      /\ UNCHANGED <<mcbs, mode, size, uppermem_link, mem_access_mode, foundSeg, biggestSeg>>
  BY DEF Advance, IInv, PcInv, Searching, globals, args, found
<1>2. /\ p \in Para /\ p \in Int /\ nxtMCB(p) = Nx(m_size, p) /\ nxtMCB(p) \in Int /\ p < nxtMCB(p)
      /\ m_type[p] \in {"M", "Z"}
  BY <1>1, Follow, Layout
<1>3. ScanStart(mode)' = ScanStart(mode) /\ ScanStart(mode) \in Int
  BY <1>1, SameStart, Start, Layout
<1>4. ScanStart(mode) <= p /\ (HasUmb /\ uppermem_link = 0 => p < uppermem_root)
  BY <1>1 DEF ScanInv
<1>5. \/ pc' = "endscan" /\ p' = p /\ m_type[p] = "Z"
      \/ pc' = "scan" /\ p' = nxtMCB(p) /\ m_type[p] = "M"
  BY <1>2 DEF Advance
<1>6. ASSUME NEW a \in Para PROVE Scanned(a)' <=> Scanned(a)
  <2>1. Candidate(a)' <=> Candidate(a)
    BY <1>1, SameRules
  <2>2. Candidate(a) /\ p < a => nxtMCB(p) <= a
    BY <1>1, <1>2 DEF IInv, Shape, Arena, Tiled, Candidate, Head
  <2>3. a \in Int
    BY Layout
  <2>4. CASE p' = p /\ pc' = "endscan"
    BY <1>1, <1>3, <2>1, <2>4 DEF Scanned
  <2>5. CASE p' = nxtMCB(p) /\ pc' = "scan"
    <3>1. Candidate(a) => (a < nxtMCB(p) <=> a < p \/ a = p)
      BY <1>2, <2>2, <2>3
    <3> QED BY <1>1, <1>3, <2>1, <2>5, <3>1 DEF Scanned
  <2> QED BY <1>5, <2>4, <2>5
<1>7. \A a \in Para : Scanned(a)' => ScanRule(a)'
  BY <1>1, <1>6, SameRules DEF ScanInv
<1>8. ASSUME NEW a, a # 0, Scanned(a) PROVE Scanned(a)'
  BY <1>6, <1>8 DEF Scanned, Candidate, Head, Hd
<1>9. foundSeg' # 0 => Scanned(foundSeg)' /\ m_size'[foundSeg'] >= size'
  <2> SUFFICES ASSUME foundSeg # 0 PROVE Scanned(foundSeg)' /\ m_size[foundSeg] >= size
    BY <1>1 DEF mcbs
  <2>1. PICK f : f = foundSeg
    OBVIOUS
  <2>2. Scanned(f)' /\ m_size[f] >= size
    BY <1>1, <1>8, <2>1 DEF ScanInv
  <2> QED BY <1>1, <2>1, <2>2 DEF Scanned, Candidate, Head
<1>10. biggestSeg' # 0 => Scanned(biggestSeg)'
  <2> SUFFICES ASSUME biggestSeg # 0 PROVE Scanned(biggestSeg)'
    BY <1>1
  <2>1. PICK f : f = biggestSeg
    OBVIOUS
  <2>2. Scanned(f)'
    BY <1>1, <1>8, <2>1 DEF ScanInv
  <2> QED BY <1>1, <2>1, <2>2 DEF Scanned, Candidate, Head
<1>11. HasUmb /\ uppermem_link = 0 => p' < uppermem_root
  <2> SUFFICES ASSUME HasUmb, uppermem_link = 0, p' = nxtMCB(p), m_type[p] = "M" PROVE p' < uppermem_root
    BY <1>4, <1>5
  <2>1. p < uppermem_root /\ uppermem_root \in Para /\ uppermem_root \in Int /\ Head(uppermem_root)
    BY <1>4, Layout DEF IInv, Shape, Arena, Tiled, Head
  <2>2. nxtMCB(p) <= uppermem_root
    BY <1>1, <1>2, <2>1 DEF IInv, Shape, Arena, Tiled, Head
  <2>3. nxtMCB(p) # uppermem_root
    BY <1>1, <1>2 DEF IInv, Shape, Arena, Ends, Last, Head
  <2> QED BY <1>2, <2>1, <2>2, <2>3
<1>12. ScanStart(mode)' <= p'
  BY <1>2, <1>3, <1>4, <1>5
<1> QED BY <1>1, <1>5, <1>7, <1>9, <1>10, <1>11, <1>12 DEF ScanInv, Para, mcbs

LEMMA ScanNext == IInv /\ ScanInv /\ [Next]_vars => ScanInv'
<1> SUFFICES ASSUME IInv, ScanInv, [Next]_vars PROVE ScanInv'
  OBVIOUS
<1>1. CASE searchAgain \/ Scan \/ Fit \/ Advance
  BY <1>1, ScanStarts, ScanScans, ScanFits, ScanAdvances
<1>2. CASE joinMCBs /\ ret = "fit"
  BY <1>2, ScanJoins
<1>3. CASE /\ joinMCBs /\ ret # "fit"
  BY <1>3 DEF ScanInv, Searching, joinMCBs, IInv, PcInv
<1>4. CASE \/ EndScan \/ Take \/ ExecFree \/ AllocFail \/ ExecFail
           \/ DosMemCheck \/ DosMemChange \/ Grow \/ Shrink \/ SetPsp \/ ChangeFail
           \/ DosUmbLink \/ UmbWalk \/ UmbSet \/ FreeWalk \/ Return
  BY <1>4 DEF ScanInv, Searching, EndScan, Take, ExecFree, AllocFail, ExecFail, Retry,
     DosMemCheck, DosMemChange, Grow, Shrink, SetPsp, ChangeFail, DosUmbLink, UmbWalk, UmbSet,
     FreeWalk, Return, IInv, PcInv
<1>5. CASE Program
  BY <1>5 DEF ScanInv, Searching, Program, Int21Alloc, ExecMemAlloc, Int21Free, Int21Change,
     FreeProcessMem, SetStrategy, Int21UmbLink, UserWrite, Call
<1>6. CASE UNCHANGED vars
  BY <1>6 DEF vars, globals, mcbs, locals, args, found, ScanInv, Searching, Scanned, Candidate,
     Head, ScanRule, ScanStart, CanJoin, mcbFree, nxtMCB, nxtMCBsize
<1> QED BY <1>1, <1>2, <1>3, <1>4, <1>5, <1>6 DEF Next, Kernel

LEMMA ScanInit == Init => ScanInv
BY DEF Init, ScanInv, Searching

(* At the end of the chain the search has seen every free block. *)
LEMMA AllScanned ==
  ASSUME IInv, ScanInv, pc = "endscan", NEW a, Candidate(a), ScanStart(mode) <= a,
         HasUmb /\ uppermem_link = 0 => a < uppermem_root
  PROVE  a \in Para /\ Scanned(a) /\ ScanRule(a)
<1>1. Searching /\ Head(p) /\ m_type[p] = "Z"
  BY DEF Searching, IInv, PcInv, ScanInv
<1>2. a \in Para /\ p \in Para /\ Head(a) /\ a \in Int /\ p \in Int /\ Nx(m_size, p) \in Int
  BY <1>1, Follow, Layout DEF Candidate, Head, Hd
<1>3. p < a => Nx(m_size, p) <= a
  BY <1>1, <1>2 DEF IInv, Shape, Arena, Tiled, Head
<1>4. Nx(m_size, p) = Top \/ (HasUmb /\ uppermem_link = 0 /\ Nx(m_size, p) = uppermem_root)
  BY <1>1, <1>2 DEF IInv, Shape, Arena, Ends, Last, Head
<1>5. ~(p < a)
  BY <1>2, <1>3, <1>4, Layout
<1>6. Scanned(a)
  BY <1>2, <1>5 DEF Scanned
<1> QED BY <1>1, <1>2, <1>6 DEF ScanInv

(* The blocks that would do. *)
Fitting ==
  {a \in Heads : /\ ScanStart(mode) <= a
                 /\ HasUmb /\ uppermem_link = 0 => a < uppermem_root
                 /\ mcbFree(a) /\ m_size[a] >= size}
Chosen(f) ==
  /\ f \in Fitting
  /\ CASE mode.fit = "first" -> \A a \in Fitting : f <= a
       [] mode.fit = "last" -> \A a \in Fitting : a <= f
       [] mode.fit = "best" ->
            \A a \in Fitting : m_size[f] <= m_size[a] /\ (m_size[f] = m_size[a] => f <= a)
       [] mode.fit = "largest" -> \A a \in Fitting : m_size[a] <= m_size[f]

LEMMA FittingIs ==
  ASSUME IInv, NEW a
  PROVE  a \in Fitting <=>
           /\ Candidate(a) /\ ScanStart(mode) <= a /\ m_size[a] >= size
           /\ HasUmb /\ uppermem_link = 0 => a < uppermem_root
BY ValidIsHead DEF Fitting, Heads, Candidate, mcbFree, Head, Hd

LEMMA FitChooses ==
  ASSUME IInv, ScanInv, Fit, pc' = "take"
  PROVE  Chosen(p) /\ foundSeg' = p
<1>1. /\ pc = "fit" /\ Searching /\ Head(p) /\ m_psp[p] = FREE_PSP /\ m_size[p] >= size
      /\ mode.fit = "first"
  BY DEF Fit, Searching, IInv, PcInv, SearchInv, BlockFits
<1>2. foundSeg' = p
  BY <1>1 DEF Fit, BlockFits, Better, LARGEST, Strat
<1>3. p \in Fitting
  BY <1>1, FittingIs DEF ScanInv, Candidate
<1>4. ASSUME NEW a \in Fitting PROVE p <= a
  <2>1. Candidate(a) /\ ScanStart(mode) <= a /\ m_size[a] >= size /\ a \in Para /\ a \in Int /\ p \in Int
    BY <1>1, <1>4, FittingIs, Layout DEF Candidate, Head, Hd
  <2>2. ~(a < p)
    <3> SUFFICES ASSUME a < p PROVE FALSE
      OBVIOUS
    <3>1. Scanned(a)
      BY <2>1 DEF Scanned
    <3> QED BY <1>1, <2>1, <3>1 DEF ScanInv, ScanRule
  <2> QED BY <2>1, <2>2
<1> QED BY <1>1, <1>2, <1>3, <1>4 DEF Chosen

LEMMA EndScanChooses ==
  ASSUME IInv, PhaseInv, ScanInv, EndScan, pc' = "take"
  PROVE  Chosen(foundSeg') /\ mode' = mode
<1>1. pc = "endscan" /\ Searching
  BY DEF EndScan, Searching
<1>2. mode' = mode
  BY DEF EndScan
<1>3. PICK f : f = foundSeg'
  OBVIOUS
<1>4. ASSUME NEW a \in Fitting PROVE Scanned(a) /\ ScanRule(a) /\ m_size[a] >= size
  BY <1>1, <1>4, FittingIs, AllScanned
<1>5. CASE mode = LARGEST
  <2>1. f = biggestSeg /\ f # 0 /\ m_size[f] >= size
    BY <1>1, <1>3, <1>5 DEF EndScan, PhaseInv
  <2>2. Scanned(f) /\ ScanStart(mode) <= p
    BY <1>1, <2>1 DEF ScanInv
  <2>3. f \in Fitting
    <3>1. f \in Int /\ p \in Int /\ f <= p
      BY <1>1, <2>2, Layout DEF Scanned, Candidate, Head, Hd, IInv, PcInv
    <3>2. HasUmb /\ uppermem_link = 0 => f < uppermem_root
      BY <1>1, <3>1, Layout DEF ScanInv
    <3> QED BY <2>1, <2>2, <3>2, FittingIs DEF Scanned
  <2>4. \A a \in Fitting : m_size[a] <= m_size[f]
    BY <1>4, <2>1 DEF ScanRule
  <2> QED BY <1>2, <1>3, <1>5, <2>3, <2>4 DEF Chosen, LARGEST, Strat
<1>6. CASE mode # LARGEST
  <2>1. f = foundSeg /\ f # 0
    BY <1>3, <1>6 DEF EndScan
  <2>2. Scanned(f) /\ m_size[f] >= size
    BY <1>1, <2>1 DEF ScanInv
  <2>3. f \in Fitting
    <3>1. f \in Int /\ p \in Int /\ f <= p
      BY <1>1, <2>2, Layout DEF Scanned, Candidate, Head, Hd, IInv, PcInv
    <3>2. HasUmb /\ uppermem_link = 0 => f < uppermem_root
      BY <1>1, <3>1, Layout DEF ScanInv
    <3> QED BY <2>2, <3>2, FittingIs DEF Scanned
  <2>4. mode.fit \in {"last", "best"}
    <3>1. mode.fit # "first"
      BY <1>4, <2>3 DEF ScanRule
    <3> QED BY <1>6, <3>1 DEF IInv, TypeOK, Strategy
  <2>5. CASE mode.fit = "last"
    <3>1. \A a \in Fitting : a <= f
      BY <1>4, <2>1, <2>5 DEF ScanRule
    <3> QED BY <1>2, <1>3, <2>3, <2>5, <3>1 DEF Chosen
  <2>6. CASE mode.fit = "best"
    <3>1. \A a \in Fitting : m_size[f] <= m_size[a] /\ (m_size[f] = m_size[a] => f <= a)
      BY <1>4, <2>1, <2>6 DEF ScanRule
    <3> QED BY <1>2, <1>3, <2>3, <2>6, <3>1 DEF Chosen
  <2> QED BY <2>4, <2>5, <2>6
<1> QED BY <1>5, <1>6

LEMMA SameChosen ==
  ASSUME UNCHANGED <<mcbs, mode, size, uppermem_link, mem_access_mode>>, Chosen(foundSeg')
  PROVE  Chosen(foundSeg)'
<1>1. PICK f : f = foundSeg'
  OBVIOUS
<1>2. Fitting' = Fitting
  <2>1. ScanStart(mode)' = ScanStart(mode)
    BY SameStart
  <2> QED BY <2>1 DEF Fitting, Heads, mcbValid, mcbFreeable, mcbFree, mcbs
<1> QED BY <1>1, <1>2 DEF Chosen, mcbs

(* DosMemAlloc applies the rule of the strategy to all free blocks of the  *)
(* chain, joined with their free neighbours, from where the search begins. *)
THEOREM FitAlwaysRuled == Spec => []FitRule
<1>1. FitRule <=> (pc = "take" => Chosen(foundSeg))
  BY DEF FitRule, Chosen, Fitting
<1>2. ASSUME IInv, PhaseInv, ScanInv, FitRule, [Next]_vars PROVE FitRule'
  <2>1. FitRule' <=> (pc' = "take" => Chosen(foundSeg)')
    BY DEF FitRule, Chosen, Fitting
  <2> SUFFICES ASSUME pc' = "take" PROVE Chosen(foundSeg)'
    BY <2>1
  <2>2. CASE Fit
    <3>1. UNCHANGED <<mcbs, mode, size, uppermem_link, mem_access_mode>>
      BY <2>2 DEF Fit, globals, args
    <3>2. Chosen(p) /\ foundSeg' = p
      BY <1>2, <2>2, FitChooses
    <3>3. Chosen(foundSeg')
      BY <3>2
    <3> QED BY <3>1, <3>3, SameChosen
  <2>3. CASE EndScan
    <3>1. Chosen(foundSeg') /\ mode' = mode
      BY <1>2, <2>3, EndScanChooses
    <3>2. UNCHANGED <<mcbs, mode, size, uppermem_link, mem_access_mode>>
      BY <2>3, <3>1 DEF EndScan, globals
    <3> QED BY <3>1, <3>2, SameChosen
  <2>4. CASE UNCHANGED vars
    <3>1. pc = "take" /\ UNCHANGED <<mcbs, mode, size, uppermem_link, mem_access_mode, foundSeg>>
      BY <2>4 DEF vars, globals, locals, args, found
    <3>2. Chosen(foundSeg)
      BY <1>1, <1>2, <3>1
    <3>3. Chosen(foundSeg')
      BY <3>1, <3>2
    <3> QED BY <3>1, <3>3, SameChosen
  <2>5. CASE Program
    BY <2>5 DEF Program, Int21Alloc, ExecMemAlloc, Int21Free, Int21Change,
       FreeProcessMem, SetStrategy, Int21UmbLink, UserWrite, Call
  <2>6. CASE \/ joinMCBs \/ searchAgain \/ Scan \/ Advance \/ Take \/ ExecFree \/ AllocFail \/ ExecFail
             \/ DosMemCheck \/ DosMemChange \/ Grow \/ Shrink \/ SetPsp \/ ChangeFail
             \/ DosUmbLink \/ UmbWalk \/ UmbSet \/ FreeWalk \/ Return
    <3>1. PcInv
      BY <1>2 DEF IInv
    <3> QED BY <2>6, <3>1 DEF joinMCBs, searchAgain, Scan, Advance, Take, ExecFree, AllocFail,
            ExecFail, Retry, DosMemCheck, DosMemChange, Grow, Shrink, SetPsp, ChangeFail, DosUmbLink,
            UmbWalk, UmbSet, FreeWalk, Return, PcInv
  <2> QED BY <1>2, <2>2, <2>3, <2>4, <2>5, <2>6 DEF Next, Kernel
<1>3. Init => FitRule
  BY DEF Init, FitRule
<1> QED BY <1>2, <1>3, PhaseInit, PhaseNext, ScanInit, ScanNext, Invariance, PTL DEF Spec

-----------------------------------------------------------------------------
(* Refused allocations *)

LEMMA ChoiceIs ==
  ASSUME IInv, NEW a
  PROVE  a \in Choices <=>
           /\ Candidate(a)
           /\ HasUmb => IF uppermem_link = 0 THEN a < uppermem_root
                        ELSE op.strat.area = "UO" => a > uppermem_root
BY ValidIsHead DEF Choices, FreeIn, Region, Heads, Candidate, mcbFree, Head, Hd

LEMMA SameChoices ==
  ASSUME UNCHANGED <<mcbs, uppermem_link, op>>
  PROVE  Choices' = Choices /\ (NoneFits => NoneFits')
<1>1. Heads' = Heads /\ m_psp' = m_psp /\ m_size' = m_size
  BY DEF Heads, mcbValid, mcbFreeable, mcbs
<1>2. Choices' = Choices
  BY <1>1 DEF Choices, FreeIn, Region, mcbFree
<1>3. ChoseEmpty(Choices)' <=> ChoseEmpty(Choices)
  BY <1>1, <1>2 DEF ChoseEmpty
<1> QED BY <1>1, <1>2, <1>3 DEF NoneFits, nxtMCB, nxtMCBsize

(* What a search that ends in vain has seen is all there was. *)
LEMMA SawAll ==
  ASSUME IInv, PhaseInv, ScanInv, pc = "endscan", op.name = "alloc", ~SearchLow,
         NEW a \in Choices, phase = "request" \/ ScanStart(mode) <= a
  PROVE  a \in Para /\ Candidate(a) /\ Scanned(a) /\ ScanRule(a)
<1>1. /\ Candidate(a)
      /\ HasUmb => IF uppermem_link = 0 THEN a < uppermem_root
                   ELSE op.strat.area = "UO" => a > uppermem_root
  BY ChoiceIs
<1>2. a \in Para /\ a \in Int /\ first_mcb <= a /\ first_mcb \in Int /\ uppermem_link \in {0, 1}
  BY <1>1, Layout DEF Candidate, Head, Hd, IInv, TypeOK
<1>3. ScanStart(mode) <= a
  <2>0. phase = "request" => mode # LARGEST
    BY DEF PhaseInv, Allocating, Requested, Strategy, Strat, LARGEST
  <2> SUFFICES ASSUME phase = "request", uppermem_link = 1, HasUmb, mode.area # "low", mode # LARGEST
               PROVE  uppermem_root <= a
    <3>1. CASE ScanStart(mode) = first_mcb
      BY <1>2, <3>1
    <3>2. CASE ScanStart(mode) # first_mcb /\ phase = "request"
      BY <2>0, <3>2 DEF ScanStart
    <3> QED BY <3>1, <3>2
  <2>1. mode.area # "U"
    BY DEF SearchLow
  <2>2. mode = op.strat
    BY DEF PhaseInv, Allocating, Requested, Strat
  <2>3. op.strat.area = "UO"
    BY <2>1, <2>2 DEF PhaseInv, Strategy
  <2> QED BY <1>1, <1>2, <2>3, Layout
<1> QED BY <1>1, <1>3, AllScanned

(* The free blocks are joined: the block after one is in use. *)
LEMMA NoNeighbour ==
  ASSUME IInv, NEW a \in Choices, m_type[a] = "M" => m_psp[nxtMCB(a)] # FREE_PSP
  PROVE  nxtMCB(a) \notin Choices
<1> SUFFICES ASSUME nxtMCB(a) \in Choices PROVE FALSE
  OBVIOUS
<1>1. Candidate(a) /\ Candidate(nxtMCB(a)) /\ Head(a) /\ Head(nxtMCB(a))
  BY ChoiceIs DEF Candidate
<1>2. m_type[a] = "Z" /\ nxtMCB(a) = Nx(m_size, a) /\ a \in Para /\ nxtMCB(a) \in Para
  BY <1>1, Follow DEF Candidate
<1>3. HasUmb /\ uppermem_link = 0 /\ nxtMCB(a) = uppermem_root
  BY <1>1, <1>2, Layout DEF IInv, Shape, Arena, Ends, Last, Head
<1>4. nxtMCB(a) < uppermem_root
  BY <1>3, ChoiceIs
<1> QED BY <1>3, <1>4, Layout

(* The block that a search for the request settled on is a choice. *)
LEMMA FoundIsChoice ==
  ASSUME IInv, PhaseInv, ScanInv, pc = "endscan", op.name = "alloc", phase = "request", ~SearchLow,
         foundSeg # 0
  PROVE  foundSeg \in Choices
<1>1. Searching /\ Allocating
  BY DEF Searching, Allocating
<1>2. Scanned(foundSeg) /\ Head(p)
  BY <1>1 DEF ScanInv, IInv, PcInv
<1>3. /\ Candidate(foundSeg) /\ foundSeg \in Int /\ p \in Int /\ foundSeg <= p
      /\ ScanStart(mode) <= foundSeg /\ foundSeg \in Para
  BY <1>2, Layout DEF Scanned, Candidate, Head, Hd
<1>4. HasUmb /\ uppermem_link = 0 => foundSeg < uppermem_root
  BY <1>1, <1>3, Layout DEF ScanInv
<1>5. ASSUME HasUmb, uppermem_link # 0, op.strat.area = "UO" PROVE foundSeg > uppermem_root
  <2>1. mode = op.strat /\ mode # LARGEST /\ uppermem_link = 1
    BY <1>1, <1>5 DEF PhaseInv, Requested, Strategy, LARGEST, IInv, TypeOK
  <2>2. ScanStart(mode) = uppermem_root
    BY <1>5, <2>1 DEF ScanStart
  <2>3. m_psp[uppermem_root] = SysPsp /\ m_psp[foundSeg] = FREE_PSP
    BY <1>3, <1>5 DEF IInv, Shape, Arena, Sys, Candidate
  <2> QED BY <1>3, <1>5, <2>2, <2>3, MemMgrAssumption, Layout
<1> QED BY <1>3, <1>4, <1>5, ChoiceIs

LEMMA RequestRefused ==
  ASSUME IInv, PhaseInv, ScanInv, EndScan, op.name = "alloc", phase = "request", pc' = "allocfail"
  PROVE  NoneFits
<1>1. /\ pc = "endscan" /\ Searching /\ ~SearchLow /\ mode \in Strategy /\ mode # LARGEST
      /\ size = op.size /\ size \in Nat /\ mode.fit = op.strat.fit
  <2>1. pc = "endscan"
    BY DEF EndScan
  <2>2. size = op.size /\ op.strat \in Strategy /\ (mode = op.strat \/ mode = Strat(op.strat.fit, "low"))
    BY <2>1 DEF PhaseInv, Allocating, Requested
  <2>3. mode \in Strategy /\ mode # LARGEST /\ mode.fit = op.strat.fit
    BY <2>2 DEF Strategy, Strat, LARGEST
  <2>4. ~SearchLow
    BY DEF EndScan
  <2> QED BY <2>1, <2>2, <2>3, <2>4 DEF Searching, IInv, TypeOK
<1>2. foundSeg = 0 \/ m_size[foundSeg] = 0
  BY <1>1 DEF EndScan
<1>3. ASSUME NEW a \in Choices PROVE a \in Para /\ ScanRule(a) /\ m_size[a] \in Nat
  <2>1. a \in Para /\ ScanRule(a)
    BY <1>1, SawAll
  <2> QED BY <2>1 DEF IInv, TypeOK
<1> SUFFICES ASSUME NEW a \in Choices, ~(m_size[a] < op.size)
             PROVE  op.size = 0 /\ ChoseEmpty(Choices)
  BY <1>3, NoNeighbour DEF NoneFits, ScanRule
<1>4. m_size[a] >= size
  BY <1>1, <1>3
<1>5. mode.fit \in {"last", "best"} /\ foundSeg # 0
  BY <1>1, <1>3, <1>4 DEF ScanRule, Strategy
<1>6. m_size[foundSeg] >= size /\ m_size[foundSeg] = 0 /\ size = 0
  <2>1. m_size[foundSeg] >= size /\ m_size[foundSeg] = 0
    BY <1>1, <1>2, <1>5 DEF ScanInv
  <2> QED BY <1>1, <2>1
<1>7. foundSeg \in Choices
  BY <1>1, <1>5, FoundIsChoice
<1>8. ASSUME mode.fit = "last", NEW b \in Choices PROVE b <= foundSeg
  <2>1. m_size[b] >= size /\ ScanRule(b)
    BY <1>3, <1>6
  <2> QED BY <1>8, <2>1 DEF ScanRule
<1> QED BY <1>1, <1>5, <1>6, <1>7, <1>8 DEF ChoseEmpty

(* DosMemLargest, after its search. *)
LEMMA LargestFound ==
  ASSUME IInv, PhaseInv, ScanInv, EndScan, op.name = "alloc", phase # "request", pc' = "allocfail"
  PROVE  /\ IsChoice(asize')
         /\ \A a \in Choices : ScanStart(LARGEST) <= a => m_size[a] <= asize'
         /\ mode = LARGEST
<1>1. pc = "endscan" /\ Searching /\ mode = LARGEST /\ ~SearchLow
  BY DEF EndScan, PhaseInv, Searching, Allocating, SearchLow
<1>2. asize' = IF biggestSeg = 0 THEN 0 ELSE m_size[biggestSeg]
  BY <1>1 DEF EndScan
<1>3. ASSUME NEW a \in Choices, ScanStart(LARGEST) <= a PROVE m_size[a] <= asize'
  <2>1. ScanRule(a)
    BY <1>1, <1>3, SawAll
  <2> QED BY <1>2, <2>1 DEF ScanRule
<1>4. ASSUME biggestSeg # 0 PROVE biggestSeg \in Choices
  <2>1. Scanned(biggestSeg) /\ Head(p)
    BY <1>1, <1>4 DEF ScanInv, IInv, PcInv
  <2>2. /\ Candidate(biggestSeg) /\ biggestSeg \in Int /\ p \in Int /\ biggestSeg <= p
        /\ ScanStart(mode) <= biggestSeg /\ biggestSeg \in Para
    BY <2>1, Layout DEF Scanned, Candidate, Head, Hd
  <2>3. HasUmb /\ uppermem_link = 0 => biggestSeg < uppermem_root
    BY <1>1, <2>2, Layout DEF ScanInv
  <2>4. ASSUME HasUmb, uppermem_link # 0, op.strat.area = "UO" PROVE biggestSeg > uppermem_root
    <3>1. uppermem_link = 1 /\ size = WordMax /\ mem_access_mode = op.strat
      BY <1>1, <2>4 DEF IInv, TypeOK, PhaseInv, LowPhase, Allocating
    <3>2. ScanStart(mode) = uppermem_root
      BY <1>1, <2>4, <3>1 DEF ScanStart
    <3>3. m_psp[uppermem_root] = SysPsp /\ m_psp[biggestSeg] = FREE_PSP
      BY <2>2, <2>4 DEF IInv, Shape, Arena, Sys, Candidate
    <3> QED BY <2>2, <2>4, <3>2, <3>3, MemMgrAssumption, Layout
  <2> QED BY <2>2, <2>3, <2>4, ChoiceIs
<1>5. IsChoice(asize')
  BY <1>2, <1>4 DEF IsChoice
<1> QED BY <1>1, <1>3, <1>5

LEMMA RefusedEndScan ==
  ASSUME IInv, PhaseInv, ScanInv, RefusedInv, EndScan, op.name = "alloc"
  PROVE  RefusedInv'
<1>1. /\ pc = "endscan" /\ UNCHANGED <<mcbs, uppermem_link, mem_access_mode, op, phase, size, bx>>
      /\ pc' \in {"take", "search", "allocfail"} /\ Allocating /\ Allocating'
  BY DEF EndScan, globals, caller, Allocating
<1>2. Choices' = Choices /\ (NoneFits => NoneFits') /\ m_size' = m_size
  BY <1>1, SameChoices DEF mcbs
<1>3. phase # "request" => NoneFits'
  BY <1>1, <1>2 DEF RefusedInv
<1>4. pc' = "allocfail" /\ phase = "request" => NoneFits'
  BY <1>2, RequestRefused
<1>5. ASSUME phase = "lowlargest" PROVE IsChoice(bx)'
  BY <1>1, <1>2, <1>5 DEF RefusedInv, IsChoice
<1>6. ASSUME pc' = "allocfail", phase # "request"
      PROVE  IsChoice(asize)' /\ (\A a \in Choices : ScanStart(LARGEST) <= a => m_size[a] <= asize)'
  <2>1. /\ IsChoice(asize')
        /\ \A a \in Choices : ScanStart(LARGEST) <= a => m_size[a] <= asize'
    BY <1>6, LargestFound
  <2>2. ScanStart(LARGEST)' = ScanStart(LARGEST)
    BY <1>1 DEF ScanStart, LARGEST, Strat
  <2>3. IsChoice(asize)'
    BY <1>2, <2>1 DEF IsChoice
  <2> QED BY <1>2, <2>1, <2>2, <2>3
<1> QED BY <1>1, <1>3, <1>4, <1>5, <1>6 DEF RefusedInv

(* A search of DosMemLargest finds nothing to join. *)
LEMMA RefusedJoin ==
  ASSUME IInv, PhaseInv, ScanInv, RefusedInv, joinMCBs, op.name = "alloc"
  PROVE  RefusedInv'
<1>1. /\ pc = "join" /\ Head(p) /\ ret' = ret
      /\ UNCHANGED <<uppermem_link, mem_access_mode, op, phase, size, mode, bx, asize>>
  BY DEF joinMCBs, IInv, PcInv, locals, args, sizes
<1>2. ret = "fit" /\ m_psp[p] = FREE_PSP
  BY <1>1 DEF RefusedInv, Allocating, IInv, SearchInv
<1>3. Allocating /\ Searching
  BY <1>1, <1>2 DEF Allocating, Searching
<1>4. PICK n : n = nxtMCB(p)
  OBVIOUS
<1>5. CanJoin(p) => Head(n) /\ mcbValid(n) /\ m_psp[n] = FREE_PSP
  <2>1. CanJoin(p) => Head(n) /\ m_psp[n] = FREE_PSP
    BY <1>1, <1>4, Follow DEF CanJoin, mcbFree
  <2> QED BY <2>1, Follow
<1>6. pc' \in {"join", "fit"}
  BY <1>1, <1>2, <1>4, <1>5 DEF joinMCBs
<1>7. CASE phase = "request"
  BY <1>1, <1>2, <1>6, <1>7 DEF RefusedInv, Allocating
<1>8. CASE phase # "request"
  <2>1. NoneFits
    BY <1>3, <1>8 DEF RefusedInv
  <2>2. p \in Choices
    <3>1. /\ p \in Para /\ p \in Int /\ Candidate(p) /\ uppermem_link \in {0, 1} /\ ScanStart(mode) <= p
          /\ HasUmb /\ uppermem_link = 0 => p < uppermem_root
      BY <1>1, <1>2, <1>3, Layout DEF Candidate, Head, Hd, IInv, TypeOK, ScanInv
    <3>2. ASSUME HasUmb, uppermem_link # 0, op.strat.area = "UO" PROVE p > uppermem_root
      <4>1. uppermem_link = 1 /\ size = WordMax /\ mem_access_mode = op.strat /\ mode = LARGEST
        BY <1>1, <1>3, <1>8, <3>1, <3>2 DEF PhaseInv, LowPhase, IInv, TypeOK
      <4>2. ScanStart(mode) = uppermem_root
        BY <3>2, <4>1 DEF ScanStart
      <4>3. m_psp[uppermem_root] = SysPsp
        BY <3>2 DEF IInv, Shape, Arena, Sys
      <4> QED BY <1>2, <3>1, <3>2, <4>2, <4>3, MemMgrAssumption, Layout
    <3> QED BY <3>1, <3>2, ChoiceIs
  <2>3. ~CanJoin(p)
    <3> SUFFICES ASSUME CanJoin(p) PROVE FALSE
      OBVIOUS
    <3>1. Candidate(n) /\ m_type[p] = "M" /\ n = Nx(m_size, p) /\ p < n /\ n \in Para /\ p \in Para
      BY <1>1, <1>4, <1>5, Follow DEF CanJoin, Candidate
    <3>2. ASSUME HasUmb, uppermem_link = 0 PROVE n < uppermem_root
      <4>1. p < uppermem_root /\ uppermem_root \in Para /\ Head(uppermem_root)
        BY <2>2, <3>2, ChoiceIs, Layout DEF IInv, Shape, Arena, Tiled, Head
      <4>2. n <= uppermem_root
        BY <1>1, <3>1, <4>1 DEF IInv, Shape, Arena, Tiled, Head
      <4>3. n # uppermem_root
        BY <1>1, <3>1, <3>2 DEF IInv, Shape, Arena, Ends, Last, Head
      <4> QED BY <3>1, <4>1, <4>2, <4>3, Layout
    <3>3. ASSUME HasUmb, uppermem_link # 0, op.strat.area = "UO" PROVE n > uppermem_root
      <4>1. p > uppermem_root
        BY <2>2, <3>3, ChoiceIs
      <4> QED BY <3>1, <3>3, <4>1, Layout
    <3>4. n \in Choices
      BY <3>1, <3>2, <3>3, ChoiceIs
    <3> QED BY <1>4, <2>1, <2>2, <3>4 DEF NoneFits
  <2>4. UNCHANGED mcbs /\ pc' = "fit"
    BY <1>2, <2>3 DEF joinMCBs
  <2>5. NoneFits' /\ Choices' = Choices /\ m_size' = m_size
    BY <1>1, <2>1, <2>4, SameChoices DEF mcbs
  <2>6. phase = "lowlargest" => IsChoice(bx)'
    BY <1>1, <1>3, <2>5 DEF RefusedInv, IsChoice
  <2> QED BY <1>1, <2>4, <2>5, <2>6 DEF RefusedInv, Allocating
<1> QED BY <1>7, <1>8

(* The other steps of a search, and the check of the chain. *)
LEMMA RefusedWalks ==
  ASSUME IInv, RefusedInv, op.name = "alloc", searchAgain \/ Scan \/ Fit \/ Advance \/ DosMemCheck
  PROVE  RefusedInv'
<1>1. UNCHANGED <<mcbs, uppermem_link, mem_access_mode, op, phase, size, bx, asize>>
  BY DEF searchAgain, Scan, Fit, Advance, DosMemCheck, globals, caller, args, sizes, locals
<1>2. NoneFits => NoneFits'
  BY <1>1, SameChoices
<1>3. (IsChoice(bx) => IsChoice(bx)') /\ (IsLargest(bx) => IsLargest(bx)')
  BY <1>1, SameChoices DEF IsChoice, IsLargest, mcbs
<1>4. CASE DosMemCheck
  <2>1. pc = "check" /\ m_type[p] \in {"M", "Z"} /\ ret = "done"
    BY <1>4, Follow DEF DosMemCheck, IInv, PcInv, ChangeInv, Changing
  <2>2. pc' \in {"check", "done"} /\ ~Allocating'
    BY <1>4, <2>1 DEF DosMemCheck, Allocating
  <2> QED BY <1>1, <1>2, <1>3, <2>1, <2>2 DEF RefusedInv
<1>5. CASE searchAgain \/ Scan \/ Fit \/ Advance
  <2>1. Allocating
    BY <1>5 DEF Allocating, searchAgain, Scan, Fit, Advance
  <2>2. Allocating' /\ pc' \notin {"allocfail", "check", "done"}
    <3>1. CASE Scan
      <4>1. mcbValid(p)
        BY <3>1, Follow DEF Scan, IInv, PcInv
      <4> QED BY <3>1, <4>1 DEF Scan, Allocating
    <3>2. CASE searchAgain \/ Fit \/ Advance
      BY <3>2 DEF searchAgain, Fit, Advance, Allocating
    <3> QED BY <1>5, <3>1, <3>2
  <2> QED BY <1>1, <1>2, <1>3, <2>1, <2>2 DEF RefusedInv
<1> QED BY <1>4, <1>5

(* Every attempt that looks no further has looked at all the choices. *)
LEMMA LastStart ==
  ASSUME IInv, PhaseInv, LowPhase \/ (Allocating /\ mem_access_mode.area # "U"), NEW a \in Choices
  PROVE  ScanStart(LARGEST) <= a
<1>1. /\ Candidate(a) /\ a \in Para /\ a \in Int /\ first_mcb <= a /\ first_mcb \in Int
      /\ uppermem_link \in {0, 1}
      /\ HasUmb /\ uppermem_link = 1 /\ op.strat.area = "UO" => a > uppermem_root
  BY ChoiceIs, Layout DEF Candidate, Head, Hd, IInv, TypeOK
<1>2. CASE ScanStart(LARGEST) = first_mcb
  BY <1>1, <1>2
<1>3. CASE ScanStart(LARGEST) # first_mcb
  <2>1. /\ HasUmb /\ uppermem_link = 1 /\ mem_access_mode.area # "low"
        /\ ScanStart(LARGEST) = uppermem_root
    BY <1>3 DEF ScanStart
  <2>2. ~LowPhase
    BY <2>1 DEF PhaseInv, LowPhase, Allocating, Strat
  <2>3. pc # "idle" /\ op.strat \in Strategy /\ mem_access_mode = op.strat
    BY <2>2 DEF PhaseInv, Allocating
  <2>4. op.strat.area = "UO"
    BY <2>1, <2>2, <2>3 DEF Strategy
  <2> QED BY <1>1, <2>1, <2>4, Layout
<1> QED BY <1>2, <1>3

(* The handler's attempts after a refusal, to the size it reports. *)
LEMMA RefusedAllocFail ==
  ASSUME IInv, PhaseInv, RefusedInv, AllocFail
  PROVE  RefusedInv'
<1>1. pc = "allocfail" /\ op.name = "alloc" /\ UNCHANGED <<mcbs, uppermem_link, op>> /\ Allocating
  BY DEF AllocFail, Allocating
<1>2. Choices' = Choices /\ NoneFits /\ NoneFits' /\ m_size' = m_size
  BY <1>1, SameChoices DEF RefusedInv, mcbs
<1>3. /\ phase # "request" => IsChoice(asize)
      /\ phase = "lowlargest" => IsChoice(bx)
      /\ phase # "request" => \A a \in Choices : ScanStart(LARGEST) <= a => m_size[a] <= asize
  BY <1>1 DEF RefusedInv
<1>4. asize \in Int /\ bx \in Int /\ \A a \in Choices : m_size[a] \in Int
  BY ChoiceIs DEF IInv, TypeOK, Candidate, Head, Hd
<1>5. CASE phase = "request"
  <2>1. phase' = "largest" /\ pc' = "search"
    BY <1>5 DEF AllocFail, Retry
  <2> QED BY <1>2, <2>1 DEF RefusedInv, Allocating
<1>6. CASE phase = "largest" /\ mem_access_mode.area = "U"
  <2>1. phase' = "lowlargest" /\ pc' = "search" /\ bx' = asize
    BY <1>6 DEF AllocFail, Retry
  <2>2. IsChoice(bx)'
    BY <1>2, <1>3, <1>6, <2>1 DEF IsChoice
  <2> QED BY <1>2, <2>1, <2>2 DEF RefusedInv, Allocating
<1>7. CASE phase = "largest" /\ mem_access_mode.area # "U"
  <2>1. pc' = "check" /\ bx' = asize
    BY <1>7 DEF AllocFail
  <2>2. \A a \in Choices : m_size[a] <= asize
    BY <1>1, <1>3, <1>7, LastStart
  <2>3. IsLargest(bx)'
    BY <1>2, <1>3, <1>7, <2>1, <2>2 DEF IsChoice, IsLargest
  <2> QED BY <1>2, <2>1, <2>3 DEF RefusedInv, Allocating
<1>8. CASE phase = "lowlargest"
  <2>1. pc' = "check" /\ bx' = IF asize > bx THEN asize ELSE bx
    BY <1>8 DEF AllocFail
  <2>2. \A a \in Choices : m_size[a] <= asize
    BY <1>1, <1>3, <1>8, LastStart DEF LowPhase
  <2>3. IsChoice(bx')
    BY <1>3, <1>8, <2>1
  <2>4. \A a \in Choices : m_size[a] <= bx'
    BY <1>4, <2>1, <2>2
  <2>5. IsLargest(bx)'
    BY <1>2, <2>3, <2>4 DEF IsChoice, IsLargest
  <2> QED BY <1>2, <2>1, <2>5 DEF RefusedInv, Allocating
<1> QED BY <1>5, <1>6, <1>7, <1>8 DEF AllocFail

LEMMA RefusedCalls ==
  ASSUME IInv, PhaseInv, RefusedInv, Program
  PROVE  RefusedInv'
<1>1. pc = "idle" /\ phase = "request" /\ op.name # "alloc"
  BY DEF Program, Int21Alloc, ExecMemAlloc, Int21Free, Int21Change, FreeProcessMem, SetStrategy,
     Int21UmbLink, UserWrite, Call, RefusedInv, PhaseInv, Allocating
<1>2. CASE \E ps \in Psp, s \in Sizes : Int21Alloc(ps, s)
  <2>1. pc' = "search" /\ phase' = "request"
    BY <1>1, <1>2 DEF Int21Alloc
  <2> QED BY <2>1 DEF RefusedInv, Allocating
<1>3. CASE ~\E ps \in Psp, s \in Sizes : Int21Alloc(ps, s)
  <2>1. op'.name # "alloc"
    BY <1>1, <1>3 DEF Program, ExecMemAlloc, Int21Free, Int21Change, FreeProcessMem, SetStrategy,
       Int21UmbLink, UserWrite, Call
  <2> QED BY <2>1 DEF RefusedInv
<1> QED BY <1>2, <1>3

LEMMA RefusedNext == IInv /\ PhaseInv /\ ScanInv /\ RefusedInv /\ [Next]_vars => RefusedInv'
<1> SUFFICES ASSUME IInv, PhaseInv, ScanInv, RefusedInv, [Next]_vars PROVE RefusedInv'
  OBVIOUS
<1>1. CASE Program
  BY <1>1, RefusedCalls
<1>2. CASE AllocFail
  BY <1>2, RefusedAllocFail
<1>3. CASE Return
  BY <1>3 DEF Return, Nobody, RefusedInv
<1>4. CASE UNCHANGED vars
  <2>1. /\ UNCHANGED <<mcbs, uppermem_link, op, pc, ret, phase, rc, asize, bx, size, mem_access_mode>>
        /\ m_size' = m_size
    BY <1>4 DEF vars, globals, mcbs, locals, sizes, args
  <2>2. Choices' = Choices /\ (NoneFits => NoneFits') /\ (Allocating' <=> Allocating)
    BY <2>1, SameChoices DEF Allocating
  <2>3. ScanStart(LARGEST)' = ScanStart(LARGEST)
    BY <2>1 DEF ScanStart, LARGEST, Strat
  <2> QED BY <2>1, <2>2, <2>3 DEF RefusedInv, IsChoice, IsLargest
<1>5. CASE /\ Kernel /\ ~AllocFail /\ ~Return /\ op.name # "alloc"
  <2>1. op' = op
    BY <1>5 DEF Kernel, joinMCBs, searchAgain, Scan, Fit, Advance, EndScan, Take, ExecFree,
       ExecFail, DosMemCheck, DosMemChange, Grow, Shrink, SetPsp, ChangeFail,
       DosUmbLink, UmbWalk, UmbSet, FreeWalk, caller
  <2> QED BY <1>5, <2>1 DEF RefusedInv
<1>6. CASE /\ Kernel /\ ~AllocFail /\ ~Return /\ op.name = "alloc"
  <2>1. Allocating \/ pc \in {"check", "done"}
    BY <1>6 DEF RefusedInv
  <2>2. \/ joinMCBs \/ EndScan \/ Take \/ searchAgain \/ Scan \/ Fit \/ Advance \/ DosMemCheck
    BY <1>6, <2>1 DEF Kernel, Allocating, ExecFree, ExecFail, DosMemChange, Grow, Shrink, SetPsp,
       ChangeFail, DosUmbLink, UmbWalk, UmbSet, FreeWalk
  <2>3. CASE Take
    <3>1. pc = "take" /\ phase = "request" /\ rc' = "SUCCESS"
      BY <1>6, <2>3 DEF Take, PhaseInv, IInv, TypeOK
    <3>2. pc' = "done"
      BY <2>3, <3>1 DEF Take
    <3> QED BY <3>1, <3>2 DEF RefusedInv, Allocating
  <2> QED BY <1>6, <2>2, <2>3, RefusedJoin, RefusedEndScan, RefusedWalks
<1> QED BY <1>1, <1>2, <1>3, <1>4, <1>5, <1>6 DEF Next

LEMMA RefusedInit == Init => RefusedInv
BY DEF Init, Nobody, RefusedInv

(* An allocation that INT 21h/48h refuses with DE_NOMEM could not be had:  *)
(* no free block of the caller's region is large enough, none could be     *)
(* joined with its neighbour, and BX is the size of the largest.  Only a   *)
(* request of no paragraphs may be refused beside blocks that would do,    *)
(* when best or last fit chose an empty one (memmgr.c:195).                *)
THEOREM NoMemAlwaysTrue == Spec => []NoMemIsTrue
<1>1. RefusedInv => NoMemIsTrue
  <2> SUFFICES ASSUME RefusedInv, pc = "done", op.name = "alloc", rc = "DE_NOMEM"
               PROVE  /\ \A a \in Choices :
                           /\ m_size[a] < op.size \/ (op.size = 0 /\ ChoseEmpty(Choices))
                           /\ nxtMCB(a) \notin Choices
                           /\ m_size[a] <= bx
                      /\ bx # 0 => \E a \in Choices : m_size[a] = bx
    BY DEF NoMemIsTrue, Choices
  <2>1. NoneFits /\ IsLargest(bx)
    BY DEF RefusedInv
  <2> QED BY <2>1 DEF NoneFits, IsLargest, IsChoice
<1> QED BY <1>1, RefusedInit, RefusedNext, PhaseInit, PhaseNext, ScanInit, ScanNext, Invariance, PTL
        DEF Spec

-----------------------------------------------------------------------------
(* Refused resizes *)

LEMMA ResizeJoins ==
  ASSUME IInv, ResizeInv, joinMCBs, op.name = "change"
  PROVE  ResizeInv'
<1>1. pc = "join" /\ Head(p) /\ ret' = ret /\ UNCHANGED <<op, size, p>>
  BY DEF joinMCBs, IInv, PcInv, locals, args
<1>2. ret \in {"grow", "setpsp"} /\ rc # "DE_NOMEM"
  BY <1>1 DEF ResizeInv, ResizeOver, Changing
<1>3. CASE CanJoin(p)
  <2>1. pc' \in {"join", "changefail"} /\ rc' # "DE_NOMEM"
    BY <1>1, <1>2, <1>3 DEF joinMCBs, Fails
  <2> QED BY <1>1, <1>2, <2>1 DEF ResizeInv, Changing, ResizeOver
<1>4. CASE ~CanJoin(p)
  <2>1. pc' = ret /\ rc' = rc /\ UNCHANGED mcbs
    BY <1>1, <1>4 DEF joinMCBs
  <2>2. ~CanJoin(p)'
    BY <1>1, <1>4, <2>1 DEF CanJoin, mcbFree, nxtMCB, nxtMCBsize, mcbs
  <2> QED BY <1>1, <1>2, <2>1, <2>2 DEF ResizeInv, Changing, ResizeOver
<1> QED BY <1>3, <1>4

LEMMA SameStuck ==
  ASSUME UNCHANGED <<mcbs, op, bx>>, Stuck
  PROVE  Stuck'
BY DEF Stuck, Head, Hd, CanJoin, mcbFree, nxtMCB, nxtMCBsize, mcbs

LEMMA ResizeSteps ==
  ASSUME IInv, ResizeInv, op.name = "change",
         DosMemCheck \/ DosMemChange \/ Grow \/ Shrink \/ SetPsp \/ ChangeFail
  PROVE  ResizeInv'
<1>1. CASE DosMemCheck
  <2>1. /\ pc = "check" /\ ret \in {"change", "done"} /\ m_type[p] \in {"M", "Z"}
        /\ UNCHANGED <<mcbs, op, size, bx, ret, rc>>
    BY <1>1, Follow DEF DosMemCheck, IInv, PcInv, globals, caller, args, sizes
  <2>2. pc' = "check" \/ pc' = ret
    BY <1>1, <2>1 DEF DosMemCheck
  <2>3. rc = "DE_NOMEM" => ret = "done" /\ Stuck'
    BY <2>1, SameStuck DEF ResizeInv, ResizeOver
  <2> QED BY <2>1, <2>2, <2>3 DEF ResizeInv, Changing, ResizeOver
<1>2. CASE DosMemChange
  BY <1>2 DEF DosMemChange, ResizeInv, Changing, ResizeOver, locals, args
<1>3. CASE Grow
  <2>1. /\ pc = "grow" /\ p = op.para /\ Head(p) /\ ~CanJoin(p) /\ size = op.size /\ rc # "DE_NOMEM"
        /\ UNCHANGED <<mcbs, op, size, p>>
    BY <1>3 DEF Grow, IInv, PcInv, ChangeInv, ResizeInv, ResizeOver, globals, caller, args
  <2>2. CASE size > m_size[p]
    <3>1. pc' = "changefail" /\ bx' = m_size[p]
      BY <1>3, <2>2 DEF Grow
    <3>2. m_size[p] < size
      BY <2>1, <2>2 DEF IInv, TypeOK, Head, Hd
    <3>3. Stuck'
      BY <2>1, <3>1, <3>2 DEF Stuck, Head, Hd, CanJoin, mcbFree, nxtMCB, nxtMCBsize, mcbs
    <3> QED BY <2>1, <3>1, <3>3 DEF ResizeInv, Changing, ResizeOver
  <2>3. CASE ~(size > m_size[p])
    BY <1>3, <2>1, <2>3 DEF Grow, ResizeInv, Changing, ResizeOver
  <2> QED BY <2>2, <2>3
<1>4. CASE Shrink
  BY <1>4 DEF Shrink, ResizeInv, Changing, ResizeOver, caller, args
<1>5. CASE SetPsp
  BY <1>5 DEF SetPsp, ResizeInv, Changing, ResizeOver, locals, args
<1>6. CASE ChangeFail
  <2>1. UNCHANGED <<mcbs, op, size, bx, rc>> /\ pc' = "check" /\ ret' = "done"
    BY <1>6 DEF ChangeFail, globals, caller, args, sizes
  <2> QED BY <2>1, SameStuck DEF ResizeInv, ResizeOver
<1> QED BY <1>1, <1>2, <1>3, <1>4, <1>5, <1>6

LEMMA ResizeCalls ==
  ASSUME IInv, ResizeInv, Program
  PROVE  ResizeInv'
<1>1. pc = "idle" /\ rc = "SUCCESS" /\ op.name # "change"
  BY DEF Program, Int21Alloc, ExecMemAlloc, Int21Free, Int21Change, FreeProcessMem, SetStrategy,
     Int21UmbLink, UserWrite, Call, IInv, PcInv, ResizeInv, Changing, ResizeOver
<1>2. CASE \E ps \in Psp, a \in Para \ SystemMcbs, s \in Sizes : Int21Change(ps, a, s)
  BY <1>1, <1>2 DEF Int21Change, Call, ResizeInv, Changing
<1>3. CASE ~\E ps \in Psp, a \in Para \ SystemMcbs, s \in Sizes : Int21Change(ps, a, s)
  <2>1. op'.name # "change"
    BY <1>1, <1>3 DEF Program, Int21Alloc, ExecMemAlloc, Int21Free, FreeProcessMem, SetStrategy,
       Int21UmbLink, UserWrite, Call
  <2> QED BY <2>1 DEF ResizeInv
<1> QED BY <1>2, <1>3

LEMMA ResizeNext == IInv /\ ResizeInv /\ [Next]_vars => ResizeInv'
<1> SUFFICES ASSUME IInv, ResizeInv, [Next]_vars PROVE ResizeInv'
  OBVIOUS
<1>1. CASE Program
  BY <1>1, ResizeCalls
<1>2. CASE Return
  BY <1>2 DEF Return, Nobody, ResizeInv
<1>3. CASE UNCHANGED vars
  <2>1. UNCHANGED <<mcbs, op, size, bx, pc, ret, rc, p>>
    BY <1>3 DEF vars, globals, locals, sizes, args
  <2>2. CanJoin(p)' <=> CanJoin(p)
    BY <2>1 DEF CanJoin, mcbFree, nxtMCB, nxtMCBsize, mcbs
  <2> QED BY <2>1, <2>2, SameStuck DEF ResizeInv, Changing, ResizeOver
<1>4. CASE Kernel /\ ~Return /\ op.name # "change"
  <2>1. op' = op
    BY <1>4 DEF Kernel, joinMCBs, searchAgain, Scan, Fit, Advance, EndScan, Take, ExecFree,
       AllocFail, ExecFail, DosMemCheck, DosMemChange, Grow, Shrink, SetPsp, ChangeFail,
       DosUmbLink, UmbWalk, UmbSet, FreeWalk, caller
  <2> QED BY <1>4, <2>1 DEF ResizeInv
<1>5. CASE Kernel /\ ~Return /\ op.name = "change"
  <2>1. Changing \/ ResizeOver
    BY <1>5 DEF ResizeInv
  <2>2. \/ joinMCBs \/ DosMemCheck \/ DosMemChange \/ Grow \/ Shrink \/ SetPsp \/ ChangeFail
    BY <1>5, <2>1 DEF Kernel, Changing, ResizeOver, searchAgain, Scan, Fit, Advance, EndScan, Take, ExecFree,
       AllocFail, ExecFail, DosUmbLink, UmbWalk, UmbSet, FreeWalk
  <2> QED BY <1>5, <2>2, ResizeJoins, ResizeSteps
<1> QED BY <1>1, <1>2, <1>3, <1>4, <1>5 DEF Next

LEMMA ResizeInit == Init => ResizeInv
BY DEF Init, Nobody, ResizeInv

(* The block of a resize that INT 21h/4Ah refuses with DE_NOMEM was made   *)
(* as large as it can get (memmgr.c:314): it is still too small, BX is its *)
(* size, and the block after it is in use.                                 *)
THEOREM ResizeRefusalAlwaysTrue == Spec => []ResizeRefusedIsTrue
<1>1. IInv /\ ResizeInv => ResizeRefusedIsTrue
  <2> SUFFICES ASSUME IInv, ResizeInv, pc = "done", op.name = "change", rc = "DE_NOMEM"
               PROVE  /\ mcbValid(op.para) /\ m_size[op.para] < op.size /\ bx = m_size[op.para]
                      /\ nxtMCB(op.para) \in Heads => ~mcbFree(nxtMCB(op.para))
    BY DEF ResizeRefusedIsTrue
  <2>1. Stuck
    BY DEF ResizeInv
  <2>2. /\ mcbValid(op.para) /\ op.para \in Para /\ m_type[op.para] \in {"M", "Z"}
        /\ nxtMCB(op.para) = Nx(m_size, op.para)
    BY <2>1, Follow DEF Stuck
  <2>3. ASSUME nxtMCB(op.para) \in Heads PROVE ~mcbFree(nxtMCB(op.para))
    <3>1. CASE m_type[op.para] = "M"
      BY <2>1, <3>1 DEF Stuck, CanJoin
    <3>2. CASE m_type[op.para] = "Z"
      <4>1. nxtMCB(op.para) \in Para
        BY <2>3 DEF Heads
      <4>2. HasUmb /\ nxtMCB(op.para) = uppermem_root
        BY <2>1, <2>2, <3>2, <4>1, Layout DEF Stuck, IInv, Shape, Arena, Ends, Last, Head
      <4>3. m_psp[uppermem_root] = SysPsp
        BY <4>2 DEF IInv, Shape, Arena, Sys
      <4> QED BY <4>2, <4>3, MemMgrAssumption DEF mcbFree
    <3> QED BY <2>2, <3>1, <3>2
  <2> QED BY <2>1, <2>2, <2>3 DEF Stuck
<1> QED BY <1>1, ResizeInit, ResizeNext, Invariance, PTL DEF Spec
=============================================================================
