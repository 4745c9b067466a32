---------------------------- MODULE Int14Proofs ----------------------------
(***************************************************************************)
(* Proofs about Int14: bytes are neither lost, repeated nor reordered by   *)
(* the serial service, for any number of ports and UARTs, every timeout    *)
(* and every command, and whatever the UARTs do between two accesses.      *)
(*                                                                         *)
(* The status that a poll read is stale when the data register is          *)
(* accessed.  What makes the access safe is that a UART can only make the  *)
(* transmit register emptier and the receive register fuller by itself,    *)
(* and that DLAB was cleared after the last program that could set it:     *)
(* that is CallInv.                                                        *)
(***************************************************************************)
EXTENDS Int14, SequenceTheorems, TLAPS

-----------------------------------------------------------------------------
(* Sequences. *)
LEMMA SeqFacts ==
  ASSUME NEW S, NEW s \in Seq(S), NEW e \in S
  PROVE  /\ s \o <<>> = s
         /\ Append(s, e) = s \o <<e>>
         /\ Append(s, e) \in Seq(S)
         /\ s \o <<e>> \in Seq(S)
<1>1. s \o <<>> = s
  BY ConcatEmptySeq
<1>2. Append(s, e) \in Seq(S)
  OBVIOUS
<1>3. <<e>> \in Seq(S)
  OBVIOUS
<1>4. s \o <<e>> \in Seq(S)
  BY <1>3, ConcatProperties
<1>5. Append(s, e) = s \o <<e>>
  OBVIOUS
<1> QED BY <1>1, <1>2, <1>4, <1>5

LEMMA AppendedEmpty ==
  ASSUME NEW S, NEW s \in Seq(S), NEW e \in S
  PROVE  /\ Append(s, e) = s \o <<e>>
         /\ Append(s, e) \o <<>> = s \o <<e>>
<1>1. Append(s, e) = s \o <<e>> /\ Append(s, e) \in Seq(S)
  BY SeqFacts
<1>2. Append(s, e) \o <<>> = Append(s, e)
  BY <1>1, ConcatEmptySeq
<1> QED BY <1>1, <1>2

LEMMA LastReplaced ==
  ASSUME NEW S, NEW s \in Seq(S), NEW e \in S, NEW d \in S,
         NEW t \in Seq(S), t = s \o <<e>>, NEW r \in Seq(S), Len(r) = Len(t),
         \A i \in 1 .. Len(t) : r[i] = IF i = Len(t) THEN d ELSE t[i]
  PROVE  r = s \o <<d>>
<1> DEFINE v == s \o <<d>>
<1>1. <<e>> \in Seq(S) /\ Len(<<e>>) = 1 /\ <<d>> \in Seq(S) /\ Len(<<d>>) = 1 /\ <<d>>[1] = d
  OBVIOUS
<1>2. Len(t) = Len(s) + 1 /\ \A i \in 1 .. Len(s) : t[i] = s[i]
  BY <1>1, ConcatProperties
<1>3. v \in Seq(S) /\ Len(v) = Len(s) + 1 /\ v[Len(s) + 1] = d /\ \A i \in 1 .. Len(s) : v[i] = s[i]
  BY <1>1, ConcatProperties
<1> HIDE DEF v
<1>4. \A i \in 1 .. Len(r) : r[i] = v[i]
  BY ONLY <1>2, <1>3, s \in Seq(S), Len(r) = Len(t),
          \A i \in 1 .. Len(t) : r[i] = IF i = Len(t) THEN d ELSE t[i]
<1>5. r = v
  BY ONLY <1>2, <1>3, <1>4, r \in Seq(S), Len(r) = Len(t), SeqEqual
<1> QED BY <1>5 DEF v

LEMMA LastReplacedType ==
  ASSUME NEW S, NEW s \in Seq(S), NEW d \in S
  PROVE  [s EXCEPT ![Len(s)] = d] \in Seq(S)
<1>1. CASE Len(s) \in 1 .. Len(s)
  BY <1>1, ExceptSeq
<1>2. CASE Len(s) \notin 1 .. Len(s)
  <2>1. DOMAIN s = 1 .. Len(s) /\ s \in [1 .. Len(s) -> S]
    BY LenProperties
  <2>2. [s EXCEPT ![Len(s)] = d] = s
    BY <1>2, <2>1
  <2> QED BY <2>2
<1> QED BY <1>1, <1>2
-----------------------------------------------------------------------------
(* Commands. *)
LEMMA Commands128 ==
  ASSUME NEW a \in Commands
  PROVE  Command(a) \in 0 .. 127
BY Int14Assumption DEF Command

\* The table of the vectors, command by command.
LEMMA TableOfCommands ==
  ASSUME cmd \in 0 .. 127
  PROVE  /\ Is("xmit") <=> cmd = 1
         /\ Is("recv") <=> cmd = 2
         /\ Is("stat") <=> cmd \in {0, 3}
<1>1. \A c \in 0 .. 4 : c \in {0, 1, 2, 3, 4}
  OBVIOUS
<1>2. /\ cmdtbl[0 + 1] = "stat" /\ cmdtbl[1 + 1] = "xmit" /\ cmdtbl[2 + 1] = "recv"
      /\ cmdtbl[3 + 1] = "stat" /\ cmdtbl[4 + 1] = "wild"
  BY DEF cmdtbl
<1>3. Accepted(cmd) <=> cmd \in {0, 1, 2, 3, 4}
  BY <1>1 DEF Accepted, cmdmax
<1> QED BY <1>2, <1>3 DEF Is

LEMMA TableOfCommandsNext ==
  ASSUME cmd' \in 0 .. 127
  PROVE  /\ Is("xmit")' <=> cmd' = 1
         /\ Is("recv")' <=> cmd' = 2
         /\ Is("stat")' <=> cmd' \in {0, 3}
<1>1. \A c \in 0 .. 4 : c \in {0, 1, 2, 3, 4}
  OBVIOUS
<1>2. /\ cmdtbl[0 + 1] = "stat" /\ cmdtbl[1 + 1] = "xmit" /\ cmdtbl[2 + 1] = "recv"
      /\ cmdtbl[3 + 1] = "stat" /\ cmdtbl[4 + 1] = "wild"
  BY DEF cmdtbl
<1>3. Accepted(cmd)' <=> cmd' \in {0, 1, 2, 3, 4}
  BY <1>1 DEF Accepted, cmdmax
<1> QED BY <1>2, <1>3 DEF Is

-----------------------------------------------------------------------------
(* What is known of the call in progress. *)
InStat == pc \in {"lcr", "lsr"}
InCall == InStat \/ pc \in {"poll", "data", "done"}

\* The call is of a routine, which knows where int14_stat returns to.
Routine ==
  /\ InCall => cmd \in 0 .. 3 /\ (back = "ret" <=> cmd \in {0, 3})
  /\ InCall => bl \in Byte
  /\ pc \in {"poll", "data"} => back = "poll"
  /\ pc = "done" => back = "done"
\* DLAB is off from the first access of int14_stat on.
DlabOff == pc \in {"lsr", "poll", "data", "done"} => ~dlab[dx]
\* The count of polls has not run out.
PollsLeft == InCall /\ back = "poll" => cx # 0
\* The status that was read is still true where it matters.
StatusHolds ==
  /\ pc \in {"poll", "data"} => (cmd = 1 /\ ah.thre => thr[dx] = NoByte)
                                /\ (cmd = 2 /\ ah.rdy => rbr[dx] # NoByte)
  /\ pc = "data" => (cmd = 1 => ah.thre) /\ (cmd = 2 => ah.rdy)
\* A call that reports success returns the byte that it moved.
Reported == pc = "ret" /\ ~ah.timeout /\ cmd \in {1, 2} => al = bl /\ bl \in Byte

CallInv == Routine /\ DlabOff /\ PollsLeft /\ StatusHolds /\ Reported

IInv == TypeOK /\ CallInv
-----------------------------------------------------------------------------
LEMMA InitialType == Init => IInv
<1> SUFFICES ASSUME Init PROVE IInv
  OBVIOUS
<1> USE DEF Init
<1>1. Bits(TRUE, FALSE, FALSE, FALSE) \in [timeout : BOOLEAN, rdy : BOOLEAN, oe : BOOLEAN, thre : BOOLEAN]
  BY DEF Bits
<1>2. <<>> \in Seq(Byte)
  OBVIOUS
<1>3. TypeOK
  <2>1. cx \in 0 .. TIMEOUT /\ cmd \in 0 .. 127
    BY Int14Assumption DEF W
  <2>2. divisor \in [Uart -> {NoByte, Divisor}] /\ oe \in [Uart -> BOOLEAN]
    OBVIOUS
  <2>3. thr \in [Uart -> Byte \cup {NoByte}] /\ rbr \in [Uart -> Byte \cup {NoByte}]
    OBVIOUS
  <2>4. \A f \in {line, kept, sent, got} : f \in [Uart -> Seq(Byte)]
    BY <1>2
  <2> QED BY <1>1, <2>1, <2>2, <2>3, <2>4 DEF TypeOK, ERROR_RETURN
<1>4. CallInv
  BY DEF CallInv, Routine, DlabOff, PollsLeft, StatusHolds, Reported, InCall, InStat
<1> QED BY <1>3, <1>4 DEF IInv

\* Every step keeps the types, and what is known of the call in progress.
LEMMA StepType == IInv /\ [Next]_vars => IInv'
<1> SUFFICES ASSUME IInv, [Next]_vars PROVE IInv'
  OBVIOUS
<1> USE DEF IInv
<1>0. /\ TypeOK /\ CallInv
      /\ Is("xmit") <=> cmd = 1
      /\ Is("recv") <=> cmd = 2
      /\ Is("stat") <=> cmd \in {0, 3}
  BY TableOfCommands DEF TypeOK
<1>a. CASE _start
  <2>1. TypeOK'
    BY <1>0, <1>a DEF TypeOK, _start, userVars
  <2>2. CallInv'
    BY <1>a DEF _start, CallInv, Routine, DlabOff, PollsLeft, StatusHolds, Reported, InCall, InStat
  <2> QED BY <2>1, <2>2
<1>b. CASE Call
  <2> PICK a \in Commands, b \in Byte, i \in Port : int14_entry(a, b, i)
    BY <1>b DEF Call
  <2>1. cmd' = Command(a) /\ cmd' \in 0 .. 127
    BY Commands128 DEF int14_entry
  <2>2. BDA[i] # NoUart => BDA[i] \in Uart
    BY Int14Assumption
  <2>a. TIMEOUT \in 0 .. TIMEOUT
    BY Int14Assumption
  <2>b. ERROR_RETURN \in [timeout : BOOLEAN, rdy : BOOLEAN, oe : BOOLEAN, thre : BOOLEAN]
    BY DEF ERROR_RETURN, Bits
  <2>c. /\ pc' \in {"lcr", "wild", "ret"} /\ back' \in {"poll", "done", "ret"} /\ dx' \in Uart
        /\ al' \in Byte \cup {MSR, Zero} /\ bl' \in Byte \cup {MSR} /\ cx' \in 0 .. TIMEOUT
        /\ ah' \in [timeout : BOOLEAN, rdy : BOOLEAN, oe : BOOLEAN, thre : BOOLEAN]
    BY <1>0, <2>1, <2>2, <2>a, <2>b DEF TypeOK, int14_entry, Timer
  <2>3. TypeOK'
    BY <1>0, <2>1, <2>c DEF TypeOK, int14_entry, userVars
  <2>4. CASE Accepted(cmd') /\ BDA[i] # NoUart
    <3>1. cmd' \in 0 .. 4
      BY <2>1, <2>4 DEF Accepted, cmdmax
    <3>2. pc' \in {"lcr", "wild"} /\ bl' = b /\ cx' = TIMEOUT
      BY <2>1, <2>4 DEF int14_entry, Timer
    <3>3. pc' = "lcr" => cmd' \in 0 .. 3 /\ (back' = "ret" <=> cmd' \in {0, 3})
      BY <2>1, <2>4, <3>1 DEF int14_entry, cmdtbl
    <3> QED BY <2>3, <3>2, <3>3, Int14Assumption
            DEF CallInv, Routine, DlabOff, PollsLeft, StatusHolds, Reported, InCall, InStat
  <2>5. CASE ~ (Accepted(cmd') /\ BDA[i] # NoUart)
    <3>1. pc' = "ret" /\ ah' = ERROR_RETURN
      BY <2>1, <2>5 DEF int14_entry
    <3> QED BY <2>3, <3>1 DEF ERROR_RETURN, Bits, CallInv, Routine, DlabOff, PollsLeft,
                              StatusHolds, Reported, InCall, InStat
  <2> QED BY <2>4, <2>5
<1>c. CASE StatLcr
  <2>1. TypeOK'
    BY <1>0, <1>c DEF TypeOK, StatLcr, userVars, ClearedDlab
  <2>2. ~dlab'[dx']
    BY <1>0, <1>c DEF TypeOK, StatLcr, ClearedDlab
  <2>3. CallInv'
    BY <1>0, <1>c, <2>2 DEF StatLcr, CallInv, Routine, DlabOff, PollsLeft, StatusHolds, Reported, InCall, InStat
  <2> QED BY <2>1, <2>3
<1>d. CASE StatLsr
  <2>1. /\ LSR(dx) \in [timeout : BOOLEAN, rdy : BOOLEAN, oe : BOOLEAN, thre : BOOLEAN]
        /\ LSR(dx).thre = (thr[dx] = NoByte) /\ LSR(dx).rdy = (rbr[dx] # NoByte)
    BY <1>0 DEF LSR, Bits, TypeOK
  <2>2. TypeOK'
    BY <1>0, <1>d, <2>1 DEF TypeOK, StatLsr, userVars
  <2>3. CallInv'
    BY <1>0, <1>d, <2>1 DEF StatLsr, CallInv, Routine, DlabOff, PollsLeft, StatusHolds,
                            Reported, InCall, InStat, TypeOK
  <2> QED BY <2>2, <2>3
<1>e. CASE Poll
  <2>1. cx \in 1 .. TIMEOUT /\ CountDown \in 0 .. TIMEOUT
    <3>1. cx # 0 /\ cx \in 0 .. TIMEOUT
      BY <1>0, <1>e DEF TypeOK, Poll, CallInv, Routine, PollsLeft, InCall
    <3>2. TIMEOUT \in 1 .. 65535
      BY Int14Assumption DEF W
    <3> QED BY <3>1, <3>2 DEF CountDown, W
  <2>2. TypeOK'
    BY <1>0, <1>e, <2>1 DEF TypeOK, Poll, userVars
  <2>3. cmd \in {1, 2}
    BY <1>0, <1>e DEF Poll, CallInv, Routine, InCall, InStat
  <2>4. ah'.thre = ah.thre /\ ah'.rdy = ah.rdy
    BY <1>0, <1>e DEF Poll, TypeOK
  <2>5. pc' = "ret" => ah'.timeout
    BY <1>0, <1>e DEF Poll, TypeOK
  <2>6. CallInv'
    BY <1>0, <1>e, <2>3, <2>4, <2>5
       DEF Poll, Ready, CallInv, Routine, DlabOff, PollsLeft, StatusHolds, Reported, InCall, InStat
  <2> QED BY <2>2, <2>6
<1>f. CASE DataOut
  <2>1. ~dlab[dx] /\ bl \in Byte /\ cmd = 1
    BY <1>0, <1>f DEF DataOut, CallInv, DlabOff, Routine, InCall
  <2>2. TypeOK'
    BY <1>0, <1>f, <2>1 DEF TypeOK, DataOut, userVars
  <2>3. CallInv'
    BY <1>0, <1>f, <2>1 DEF DataOut, CallInv, Routine, DlabOff, PollsLeft, StatusHolds, Reported, InCall, InStat
  <2> QED BY <2>2, <2>3
<1>g. CASE DataIn
  <2>1. ~dlab[dx] /\ cmd = 2 /\ rbr[dx] \in Byte
    BY <1>0, <1>g DEF DataIn, CallInv, DlabOff, StatusHolds, TypeOK
  <2>2. TypeOK'
    BY <1>0, <1>g, <2>1 DEF TypeOK, DataIn, userVars
  <2>3. CallInv'
    BY <1>0, <1>g, <2>1 DEF DataIn, CallInv, Routine, DlabOff, PollsLeft, StatusHolds, Reported, InCall, InStat
  <2> QED BY <2>2, <2>3
<1>h. CASE Done
  <2>1. TypeOK'
    BY <1>0, <1>h DEF TypeOK, Done, userVars
  <2>2. CallInv'
    BY <1>0, <1>h DEF Done, CallInv, Routine, DlabOff, PollsLeft, StatusHolds, Reported, InCall, InStat
  <2> QED BY <2>1, <2>2
<1>i. CASE Iret
  <2>1. CallInv'
    BY <1>0, <1>i DEF Iret, CallInv, Routine, DlabOff, PollsLeft, StatusHolds, Reported, InCall, InStat
  <2>2. (cmd \in {1, 2} /\ ~ah.timeout) => al \in Byte
    BY <1>0, <1>i DEF Iret, CallInv, Reported
  <2>3. sent' \in [Uart -> Seq(Byte)] /\ got' \in [Uart -> Seq(Byte)]
    BY <1>0, <1>i, <2>2 DEF Iret, TypeOK
  <2>4. TypeOK'
    BY <1>0, <1>i, <2>3 DEF TypeOK, Iret
  <2> QED BY <2>1, <2>4
<1>j. ASSUME NEW u \in Uart, ShiftOut(u) PROVE IInv'
  <2>1. TypeOK'
    BY <1>0, <1>j DEF TypeOK, ShiftOut, userVars, cpuVars
  <2>2. CallInv'
    BY <1>0, <1>j DEF TypeOK, ShiftOut, cpuVars, CallInv, Routine, DlabOff, PollsLeft,
                      StatusHolds, Reported, InCall, InStat
  <2> QED BY <2>1, <2>2
<1>k. ASSUME NEW u \in Uart, SetDlab(u) PROVE IInv'
  <2>1. TypeOK'
    BY <1>0, <1>k DEF TypeOK, SetDlab, userVars, cpuVars
  <2>2. CallInv'
    BY <1>0, <1>k DEF TypeOK, SetDlab, cpuVars, CallInv, Routine, DlabOff, PollsLeft,
                      StatusHolds, Reported, InCall, InStat
  <2> QED BY <2>1, <2>2
<1>l. ASSUME NEW u \in Uart, NEW b \in Byte, ShiftIn(u, b) PROVE IInv'
  <2>1. kept' \in [Uart -> Seq(Byte)]
    <3>0. kept \in [Uart -> Seq(Byte)]
      BY <1>0 DEF TypeOK
    <3>1. [kept[u] EXCEPT ![Len(kept[u])] = b] \in Seq(Byte)
      BY <3>0, LastReplacedType
    <3>2. Append(kept[u], b) \in Seq(Byte)
      BY <3>0
    <3>3. \E t \in Seq(Byte) : kept' = [kept EXCEPT ![u] = t]
      BY <1>l, <3>1, <3>2 DEF ShiftIn
    <3> QED BY <3>0, <3>3
  <2>2. TypeOK'
    <3>1. rbr' \in [Uart -> Byte \cup {NoByte}] /\ oe' \in [Uart -> BOOLEAN]
      BY <1>0, <1>l DEF TypeOK, ShiftIn
    <3> QED BY <1>0, <1>l, <2>1, <3>1 DEF TypeOK, ShiftIn, userVars, cpuVars
  <2>3. CallInv'
    BY <1>0, <1>l, Int14Assumption DEF TypeOK, ShiftIn, cpuVars, CallInv, Routine, DlabOff,
       PollsLeft, StatusHolds, Reported, InCall, InStat
  <2> QED BY <2>2, <2>3
<1>m. CASE UNCHANGED vars
  BY <1>0, <1>m DEF vars, cpuVars, userVars, TypeOK, CallInv, Routine, DlabOff,
     PollsLeft, StatusHolds, Reported, InCall, InStat
<1> QED BY <1>a, <1>b, <1>c, <1>d, <1>e, <1>f, <1>g, <1>h, <1>i, <1>j, <1>k, <1>l, <1>m
        DEF Next, Handler

\* The variables have their types in every state: in particular the divisor
\* latch never gets a byte that was meant for the line, and no count of polls
\* leaves its range.
THEOREM TypeCorrect == Spec => []TypeOK
<1>1. Spec => []IInv
  BY InitialType, StepType, PTL DEF Spec
<1> QED BY <1>1, PTL DEF IInv

-----------------------------------------------------------------------------
(* The bytes in order. *)
LEMMA MovedType ==
  ASSUME IInv, NEW u \in Uart, NEW f \in {"xmit", "recv"}
  PROVE  Moved(u, f) = <<>> \/ (Moved(u, f) = <<bl>> /\ bl \in Byte)
<1>1. Is(f) => cmd \in {1, 2}
  BY TableOfCommands DEF IInv, TypeOK
<1> QED BY <1>1 DEF IInv, CallInv, Routine, Reported, Moved, InCall, InStat

LEMMA RegType ==
  ASSUME NEW r \in Byte \cup {NoByte}
  PROVE  InReg(r) \in Seq(Byte)
<1>1. <<>> \in Seq(Byte)
  OBVIOUS
<1>2. r \in Byte => <<r>> \in Seq(Byte)
  OBVIOUS
<1> QED BY <1>1, <1>2 DEF InReg

\* Where Moved is unchanged.
LEMMA MovedStays ==
  ASSUME NEW u, NEW f, cmd' = cmd, dx' = dx, pc' = pc, back' = back, bl' = bl, ah' = ah
  PROVE  Moved(u, f)' = Moved(u, f)
BY DEF Moved, Is

\* Outside of the routine f, and before it has moved its byte, there is none.
LEMMA NotMoved ==
  ASSUME IInv, NEW u,
         \/ pc \in {"start", "user", "poll", "data", "wild"}
         \/ pc \in {"lcr", "lsr"} /\ back # "done"
         \/ pc = "ret" /\ ah.timeout
         \/ dx # u
  PROVE  Moved(u, "xmit") = <<>> /\ Moved(u, "recv") = <<>>
BY DEF Moved

LEMMA NotMovedNext ==
  ASSUME NEW u,
         \/ pc' \in {"start", "user", "poll", "data", "wild"}
         \/ pc' \in {"lcr", "lsr"} /\ back' # "done"
         \/ pc' = "ret" /\ ah'.timeout
         \/ dx' # u
  PROVE  Moved(u, "xmit")' = <<>> /\ Moved(u, "recv")' = <<>>
BY DEF Moved

\* Every step but the two accesses to the data register and the return keeps
\* what has been moved and not reported.
LEMMA MovedKept ==
  ASSUME IInv, NEW u \in Uart, NEW f \in {"xmit", "recv"},
         _start \/ Call \/ StatLcr \/ StatLsr \/ Poll \/ Done
  PROVE  Moved(u, f)' = Moved(u, f)
<1>0. /\ cmd \in 0 .. 127 /\ CallInv
      /\ Is("xmit") <=> cmd = 1
      /\ Is("recv") <=> cmd = 2
  BY TableOfCommands DEF IInv, TypeOK
<1>1. CASE _start
  BY <1>1, NotMoved, NotMovedNext DEF _start
<1>2. CASE Call
  <2>1. PICK a \in Commands, b \in Byte, i \in Port : int14_entry(a, b, i)
    BY <1>2 DEF Call
  <2>2. \/ pc' = "wild"
        \/ pc' = "lcr" /\ back' # "done"
        \/ pc' = "ret" /\ ah'.timeout
    <3>1. ERROR_RETURN.timeout
      BY DEF ERROR_RETURN, Bits
    <3>2. CASE Accepted(Command(a)) /\ BDA[i] # NoUart
      BY <2>1, <3>2 DEF int14_entry
    <3>3. CASE ~ (Accepted(Command(a)) /\ BDA[i] # NoUart)
      <4>1. pc' = "ret" /\ ah' = ERROR_RETURN
        BY <2>1, <3>3 DEF int14_entry
      <4> QED BY <3>1, <4>1
    <3> QED BY <3>2, <3>3
  <2>3. pc = "user"
    BY <2>1 DEF int14_entry
  <2> QED BY <2>2, <2>3, NotMoved, NotMovedNext
<1>3. CASE StatLcr
  BY <1>3 DEF StatLcr, Moved, Is
<1>4. CASE StatLsr
  <2>1. cmd \in {1, 2} => back \in {"poll", "done"}
    BY <1>0, <1>4 DEF StatLsr, CallInv, Routine, InCall, InStat, IInv, TypeOK
  <2>2. CASE back = "poll"
    BY <1>4, <2>2, NotMoved, NotMovedNext DEF StatLsr
  <2>3. CASE back = "done"
    BY <1>4, <2>3 DEF StatLsr, Moved, Is
  <2>4. CASE cmd \notin {1, 2}
    BY <1>0, <1>4, <2>4 DEF StatLsr, Moved, Is
  <2> QED BY <2>1, <2>2, <2>3, <2>4
<1>5. CASE Poll
  <2>1. pc = "poll" /\ back = "poll" /\ back' = back
    BY <1>0, <1>5 DEF Poll, CallInv, Routine
  <2>2. pc' \in {"data", "lcr"} \/ (pc' = "ret" /\ ah'.timeout)
    BY <1>5 DEF Poll, IInv, TypeOK
  <2> QED BY <2>1, <2>2, NotMoved, NotMovedNext
<1>6. CASE Done
  <2>1. ~ ah'.timeout
    BY <1>6 DEF Done, IInv, TypeOK
  <2> QED BY <1>6, <2>1 DEF Done, Moved, Is
<1> QED BY <1>1, <1>2, <1>3, <1>4, <1>5, <1>6

(* The two invariants are kept by each step, for one UART. *)
SentAt(u) == line[u] \o InReg(thr[u]) = sent[u] \o Moved(u, "xmit")
ReceivedAt(u) == kept[u] = got[u] \o Moved(u, "recv") \o InReg(rbr[u])

LEMMA OrderKept ==
  ASSUME IInv, [Next]_vars, NEW u \in Uart, SentAt(u), ReceivedAt(u)
  PROVE  SentAt(u)' /\ ReceivedAt(u)'
<1>0. /\ TypeOK /\ CallInv /\ cmd \in 0 .. 127
      /\ Is("xmit") <=> cmd = 1
      /\ Is("recv") <=> cmd = 2
  BY TableOfCommands DEF IInv, TypeOK
<1>t. /\ line[u] \in Seq(Byte) /\ kept[u] \in Seq(Byte)
      /\ sent[u] \in Seq(Byte) /\ got[u] \in Seq(Byte)
      /\ thr[u] \in Byte \cup {NoByte} /\ rbr[u] \in Byte \cup {NoByte}
  BY <1>0 DEF TypeOK
<1>v. NoByte \notin Byte
  BY Int14Assumption
<1>1. CASE _start \/ Call \/ StatLcr \/ StatLsr \/ Poll \/ Done
  <2>1. Moved(u, "xmit")' = Moved(u, "xmit") /\ Moved(u, "recv")' = Moved(u, "recv")
    BY <1>1, MovedKept
  <2>2. UNCHANGED <<line, kept, sent, got, thr, rbr>>
    BY <1>1 DEF _start, Call, int14_entry, StatLcr, StatLsr, Poll, Done, userVars
  <2> QED BY <2>1, <2>2 DEF SentAt, ReceivedAt
<1>2. CASE DataOut
  <2>1. pc = "data" /\ cmd = 1 /\ ~dlab[dx] /\ thr[dx] = NoByte /\ bl \in Byte
    BY <1>0, <1>2 DEF DataOut, CallInv, DlabOff, StatusHolds, Routine, InCall
  <2>2. UNCHANGED <<line, kept, sent, got, rbr, cmd, dx, bl>> /\ pc' = "lcr" /\ back' = "done"
        /\ thr' = [thr EXCEPT ![dx] = bl]
    BY <1>2, <2>1 DEF DataOut, userVars
  <2>3. Moved(u, "xmit") = <<>> /\ Moved(u, "recv") = <<>>
    BY <2>1, NotMoved
  <2>4. Moved(u, "recv")' = <<>>
    BY <1>0, <2>1, <2>2 DEF Moved, Is
  <2>5. ReceivedAt(u)'
    BY <2>2, <2>3, <2>4 DEF ReceivedAt
  <2>6. CASE u = dx
    <3>1. Moved(u, "xmit")' = <<bl>>
      BY <1>0, <2>1, <2>2, <2>6 DEF Moved, Is
    <3>2. thr'[u] = bl
      BY <1>0, <2>2, <2>6 DEF TypeOK
    <3>3. line[u] = sent[u]
      <4>1. line[u] \o <<>> = sent[u] \o <<>>
        BY <2>1, <2>3, <2>6 DEF SentAt, InReg
      <4> QED BY <1>t, <4>1, ConcatEmptySeq
    <3> QED BY <1>v, <2>1, <2>2, <2>5, <3>1, <3>2, <3>3 DEF SentAt, InReg
  <2>7. CASE u # dx
    <3>1. thr'[u] = thr[u]
      BY <1>0, <2>2, <2>7 DEF TypeOK
    <3>2. Moved(u, "xmit")' = <<>>
      BY <2>2, <2>7, NotMovedNext
    <3> QED BY <2>2, <2>3, <2>5, <3>1, <3>2 DEF SentAt
  <2> QED BY <2>6, <2>7
<1>3. CASE DataIn
  <2>1. pc = "data" /\ cmd = 2 /\ ~dlab[dx] /\ rbr[dx] # NoByte
    BY <1>0, <1>3 DEF DataIn, CallInv, DlabOff, StatusHolds
  <2>2. UNCHANGED <<line, kept, sent, got, thr, cmd, dx>> /\ pc' = "lcr" /\ back' = "done"
        /\ bl' = rbr[dx] /\ rbr' = [rbr EXCEPT ![dx] = NoByte]
    BY <1>3, <2>1 DEF DataIn, userVars
  <2>3. Moved(u, "xmit") = <<>> /\ Moved(u, "recv") = <<>>
    BY <2>1, NotMoved
  <2>4. Moved(u, "xmit")' = <<>>
    BY <1>0, <2>1, <2>2 DEF Moved, Is
  <2>5. SentAt(u)'
    BY <2>2, <2>3, <2>4 DEF SentAt
  <2>6. CASE u = dx
    <3>1. Moved(u, "recv")' = <<rbr[u]>>
      BY <1>0, <2>1, <2>2, <2>6 DEF Moved, Is
    <3>2. rbr'[u] = NoByte
      BY <1>0, <2>2, <2>6 DEF TypeOK
    <3>3. kept[u] = (got[u] \o <<>>) \o <<rbr[u]>>
      BY <2>1, <2>3, <2>6 DEF ReceivedAt, InReg
    <3>4. rbr[u] \in Byte
      BY <1>t, <2>1, <2>6
    <3>5. got[u] \o <<>> = got[u] /\ got[u] \o <<rbr[u]>> \in Seq(Byte)
      BY <1>t, <3>4, SeqFacts
    <3>6. (got[u] \o <<rbr[u]>>) \o <<>> = got[u] \o <<rbr[u]>>
      BY <3>5, ConcatEmptySeq
    <3> QED BY <2>2, <2>5, <3>1, <3>2, <3>3, <3>5, <3>6 DEF ReceivedAt, InReg
  <2>7. CASE u # dx
    <3>1. rbr'[u] = rbr[u]
      BY <1>0, <2>2, <2>7 DEF TypeOK
    <3>2. Moved(u, "recv")' = <<>>
      BY <2>2, <2>7, NotMovedNext
    <3> QED BY <2>2, <2>3, <2>5, <3>1, <3>2 DEF ReceivedAt
  <2> QED BY <2>6, <2>7
<1>4. CASE Iret
  <2>1. pc = "ret" /\ pc' = "user" /\ UNCHANGED <<line, kept, thr, rbr>>
    BY <1>4 DEF Iret
  <2>2. Moved(u, "xmit")' = <<>> /\ Moved(u, "recv")' = <<>>
    BY <2>1, NotMovedNext
  <2>3. ~ah.timeout /\ cmd \in {1, 2} => al = bl /\ bl \in Byte
    BY <1>0, <2>1 DEF CallInv, Reported
  <2>4. sent'[u] \o <<>> = sent[u] \o Moved(u, "xmit")
    <3>1. CASE cmd = 1 /\ ~ah.timeout /\ dx = u
      <4>1. Moved(u, "xmit") = <<bl>>
        BY <1>0, <2>1, <3>1 DEF Moved
      <4>2. sent'[u] = Append(sent[u], bl)
        BY <1>0, <1>4, <2>3, <3>1 DEF Iret, TypeOK
      <4>3. bl \in Byte
        BY <2>3, <3>1
      <4> QED BY <1>t, <4>1, <4>2, <4>3, AppendedEmpty
    <3>2. CASE ~ (cmd = 1 /\ ~ah.timeout /\ dx = u)
      <4>1. Moved(u, "xmit") = <<>>
        BY <1>0, <2>1, <3>2 DEF Moved
      <4>2. sent'[u] = sent[u]
        BY <1>0, <1>4, <3>2 DEF Iret, TypeOK
      <4> QED BY <4>1, <4>2
    <3> QED BY <3>1, <3>2
  <2>5. got'[u] \o <<>> = got[u] \o Moved(u, "recv")
    <3>1. CASE cmd = 2 /\ ~ah.timeout /\ dx = u
      <4>1. Moved(u, "recv") = <<bl>>
        BY <1>0, <2>1, <3>1 DEF Moved
      <4>2. got'[u] = Append(got[u], bl)
        BY <1>0, <1>4, <2>3, <3>1 DEF Iret, TypeOK
      <4>3. bl \in Byte
        BY <2>3, <3>1
      <4> QED BY <1>t, <4>1, <4>2, <4>3, AppendedEmpty
    <3>2. CASE ~ (cmd = 2 /\ ~ah.timeout /\ dx = u)
      <4>1. Moved(u, "recv") = <<>>
        BY <1>0, <2>1, <3>2 DEF Moved
      <4>2. got'[u] = got[u]
        BY <1>0, <1>4, <3>2 DEF Iret, TypeOK
      <4> QED BY <4>1, <4>2
    <3> QED BY <3>1, <3>2
  <2> QED BY <2>1, <2>2, <2>4, <2>5 DEF SentAt, ReceivedAt
<1>5. ASSUME NEW x \in Uart, ShiftOut(x) PROVE SentAt(u)' /\ ReceivedAt(u)'
  <2>1. UNCHANGED <<kept, sent, got, rbr, cmd, dx, pc, back, bl, ah>>
    BY <1>5 DEF ShiftOut, cpuVars, userVars
  <2>2. Moved(u, "xmit")' = Moved(u, "xmit") /\ Moved(u, "recv")' = Moved(u, "recv")
    BY <2>1, MovedStays
  <2>3. ReceivedAt(u)'
    BY <2>1, <2>2 DEF ReceivedAt
  <2>4. CASE u = x
    <3>1. thr[u] \in Byte /\ thr'[u] = NoByte /\ line'[u] = Append(line[u], thr[u])
      BY <1>0, <1>5, <1>t, <2>4 DEF ShiftOut, TypeOK
    <3>2. InReg(thr[u]) = <<thr[u]>> /\ InReg(thr'[u]) = <<>>
      BY <1>v, <3>1 DEF InReg
    <3>3. line'[u] = line[u] \o <<thr[u]>> /\ line'[u] \o <<>> = line'[u]
      <4>1. /\ Append(line[u], thr[u]) = line[u] \o <<thr[u]>>
            /\ Append(line[u], thr[u]) \o <<>> = line[u] \o <<thr[u]>>
        BY <1>t, <3>1, AppendedEmpty
      <4> HIDE DEF InReg
      <4> QED BY ONLY <3>1, <4>1
    <3>4. SentAt(u)'
      BY <2>1, <2>2, <3>2, <3>3 DEF SentAt
    <3> QED BY <2>3, <3>4
  <2>5. CASE u # x
    BY <1>0, <1>5, <2>1, <2>2, <2>3, <2>5 DEF ShiftOut, TypeOK, SentAt
  <2> QED BY <2>4, <2>5
<1>6. ASSUME NEW x \in Uart, SetDlab(x) PROVE SentAt(u)' /\ ReceivedAt(u)'
  <2>1. UNCHANGED <<line, thr, kept, sent, got, rbr, cmd, dx, pc, back, bl, ah>>
    BY <1>6 DEF SetDlab, cpuVars, userVars
  <2> QED BY <2>1, MovedStays DEF SentAt, ReceivedAt
<1>7. ASSUME NEW x \in Uart, NEW b \in Byte, ShiftIn(x, b) PROVE SentAt(u)' /\ ReceivedAt(u)'
  <2>1. UNCHANGED <<line, thr, sent, got, cmd, dx, pc, back, bl, ah>>
    BY <1>7 DEF ShiftIn, cpuVars, userVars
  <2>2. Moved(u, "xmit")' = Moved(u, "xmit") /\ Moved(u, "recv")' = Moved(u, "recv")
    BY <2>1, MovedStays
  <2>3. SentAt(u)'
    BY <2>1, <2>2 DEF SentAt
  <2> DEFINE s == got[u] \o Moved(u, "recv")
  <2>4. s \in Seq(Byte)
    <3>1. <<>> \in Seq(Byte) /\ (bl \in Byte => <<bl>> \in Seq(Byte))
      OBVIOUS
    <3>2. Moved(u, "recv") \in Seq(Byte)
      BY <3>1, MovedType
    <3> QED BY <1>t, <3>2, ConcatProperties
  <2>5. CASE u = x /\ rbr[u] = NoByte
    <3>1. rbr'[u] = b /\ kept'[u] = Append(kept[u], b)
      BY <1>0, <1>7, <2>5 DEF ShiftIn, TypeOK
    <3>2. kept[u] = s \o <<>> /\ InReg(rbr'[u]) = <<b>>
      BY <1>v, <2>5, <3>1 DEF ReceivedAt, InReg
    <3> HIDE DEF s
    <3>3. kept'[u] = s \o <<b>>
      BY <2>4, <3>1, <3>2, SeqFacts
    <3>4. ReceivedAt(u)'
      BY <2>1, <2>2, <3>2, <3>3 DEF ReceivedAt, s
    <3> QED BY <2>3, <3>4
  <2>6. CASE u = x /\ rbr[u] # NoByte
    <3>1. rbr'[u] = b /\ kept'[u] = [kept[u] EXCEPT ![Len(kept[u])] = b] /\ rbr[u] \in Byte
      BY <1>0, <1>7, <1>t, <2>6 DEF ShiftIn, TypeOK
    <3>2. kept[u] = s \o <<rbr[u]>> /\ InReg(rbr'[u]) = <<b>>
      BY <1>v, <2>6, <3>1 DEF ReceivedAt, InReg
    <3> HIDE DEF s
    <3>3. kept'[u] = s \o <<b>>
      <4>1. [kept[u] EXCEPT ![Len(kept[u])] = b] = s \o <<b>>
        <5> PICK k : k = kept[u]
          OBVIOUS
        <5> PICK r : r = [k EXCEPT ![Len(k)] = b]
          OBVIOUS
        <5>1. k = s \o <<rbr[u]>> /\ rbr[u] \in Byte /\ b \in Byte /\ k \in Seq(Byte)
          BY <1>t, <3>1, <3>2
        <5>2. Len(k) \in 1 .. Len(k)
          <6>1. <<rbr[u]>> \in Seq(Byte) /\ Len(<<rbr[u]>>) = 1
            BY <5>1
          <6> QED BY ONLY <2>4, <5>1, <6>1, ConcatProperties
        <5>3. /\ r \in Seq(Byte) /\ Len(r) = Len(k)
              /\ \A i \in 1 .. Len(k) : r[i] = IF i = Len(k) THEN b ELSE k[i]
          <6>1. k \in Seq(Byte)
            BY <5>1
          <6> QED BY ONLY <5>2, <6>1, b \in Byte, r = [k EXCEPT ![Len(k)] = b], ExceptSeq
        <5>4. r = s \o <<b>>
          BY ONLY <2>4, <5>1, <5>3, LastReplaced
        <5> QED BY <5>4
      <4> QED BY <3>1, <4>1
    <3>4. ReceivedAt(u)'
      BY <2>1, <2>2, <3>2, <3>3 DEF ReceivedAt, s
    <3> QED BY <2>3, <3>4
  <2>7. CASE u # x
    <3>1. rbr'[u] = rbr[u] /\ kept'[u] = kept[u]
      BY <1>0, <1>7, <2>7 DEF ShiftIn, TypeOK
    <3> QED BY <2>1, <2>2, <2>3, <3>1 DEF ReceivedAt
  <2> QED BY <2>5, <2>6, <2>7
<1>8. CASE UNCHANGED vars
  <2>1. UNCHANGED <<line, thr, kept, sent, got, rbr, cmd, dx, pc, back, bl, ah>>
    BY <1>8 DEF vars, cpuVars, userVars
  <2> QED BY <2>1, MovedStays DEF SentAt, ReceivedAt
<1> QED BY <1>1, <1>2, <1>3, <1>4, <1>5, <1>6, <1>7, <1>8 DEF Next, Handler

LEMMA InitialOrder == Init => SentInOrder /\ ReceivedInOrder
<1> SUFFICES ASSUME Init, NEW u \in Uart
             PROVE  SentAt(u) /\ ReceivedAt(u)
  BY DEF SentInOrder, ReceivedInOrder, SentAt, ReceivedAt
<1>1. Moved(u, "xmit") = <<>> /\ Moved(u, "recv") = <<>>
  BY DEF Init, Moved
<1>2. <<>> \o <<>> = <<>>
  OBVIOUS
<1> QED BY <1>1, <1>2 DEF Init, SentAt, ReceivedAt, InReg

LEMMA StepOrder ==
  IInv /\ SentInOrder /\ ReceivedInOrder /\ [Next]_vars => SentInOrder' /\ ReceivedInOrder'
<1> SUFFICES ASSUME IInv, SentInOrder, ReceivedInOrder, [Next]_vars, NEW u \in Uart
             PROVE  SentAt(u)' /\ ReceivedAt(u)'
  BY DEF SentInOrder, ReceivedInOrder, SentAt, ReceivedAt
<1>1. SentAt(u) /\ ReceivedAt(u)
  BY DEF SentInOrder, ReceivedInOrder, SentAt, ReceivedAt
<1> QED BY <1>1, OrderKept

LEMMA BytesInOrder == Spec => [](SentInOrder /\ ReceivedInOrder)
<1>1. Spec => []IInv
  BY InitialType, StepType, PTL DEF Spec
<1> QED BY <1>1, InitialOrder, StepOrder, PTL DEF Spec

\* Every byte that int14_xmit reports as sent leaves the UART once, in the
\* order of the calls; one for which it reports a timeout never does.
THEOREM AlwaysSentInOrder == Spec => []SentInOrder
BY BytesInOrder, PTL

\* The bytes that int14_recv returns are those that arrived, each once and in
\* order, except what the UART itself lost to an overrun.
THEOREM AlwaysReceivedInOrder == Spec => []ReceivedInOrder
BY BytesInOrder, PTL

-----------------------------------------------------------------------------
LEMMA StepDivisor == IInv /\ DivisorKept /\ [Next]_vars => DivisorKept'
<1> SUFFICES ASSUME IInv, DivisorKept, [Next]_vars PROVE DivisorKept'
  OBVIOUS
<1>0. /\ divisor \in [Uart -> {NoByte, Divisor}] /\ dx \in Uart
      /\ pc \in {"lsr", "poll", "data", "done"} => ~dlab[dx]
  BY DEF IInv, TypeOK, CallInv, DlabOff
<1>1. CASE _start
  <2>1. Initialised \subseteq Uart
    <3> SUFFICES ASSUME NEW j \in Port, \A k \in 0 .. j : BDA[k] # NoUart
                 PROVE  BDA[j] \in Uart
      BY DEF Initialised
    <3>1. j \in 0 .. j
      BY DEF Port
    <3> QED BY <3>1, Int14Assumption
  <2> QED BY <1>1, <2>1 DEF _start, DivisorKept
<1>2. CASE DataOut
  BY <1>0, <1>2 DEF DataOut, DivisorKept
<1>3. CASE Call \/ StatLcr \/ StatLsr \/ Poll \/ DataIn \/ Done \/ Iret \/ UNCHANGED vars
  <2>1. divisor' = divisor /\ (pc = "start" => pc' = "start")
    BY <1>3 DEF Call, int14_entry, StatLcr, StatLsr, Poll, DataIn, Done, Iret, vars, cpuVars
  <2> QED BY <2>1 DEF DivisorKept
<1>4. ASSUME NEW u \in Uart, ShiftOut(u) \/ SetDlab(u) \/ \E b \in Byte : ShiftIn(u, b)
      PROVE  DivisorKept'
  BY <1>4 DEF ShiftOut, SetDlab, ShiftIn, cpuVars, DivisorKept
<1> QED BY <1>1, <1>2, <1>3, <1>4 DEF Next, Handler

\* The speed that uart_init set stays, although other programs may leave the
\* data register switched to the divisor latch: int14_stat switches it back
\* before the first access to it.
THEOREM DivisorAlwaysKept == Spec => []DivisorKept
<1>1. Spec => []IInv
  BY InitialType, StepType, PTL DEF Spec
<1>2. Init => DivisorKept
  BY DEF Init, DivisorKept
<1> QED BY <1>1, <1>2, StepDivisor, PTL DEF Spec
=============================================================================
