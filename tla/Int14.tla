------------------------------- MODULE Int14 -------------------------------
(***************************************************************************)
(* The resident program that replaces the BIOS serial port service INT 14h *)
(* (src/int14.S).  It polls an 8250 UART, which receives and shifts bytes  *)
(* out while the handler runs; the handler itself runs with interrupts     *)
(* off.  One step is one access to a UART register, or the instructions    *)
(* between two of them.                                                    *)
(*                                                                         *)
(* The UART is modelled as the handler uses it: a transmit register, a     *)
(* receive register, the line status with its error bit that is cleared    *)
(* when read, and DLAB, which turns the data register into the divisor     *)
(* latch.  Other programs drive the UART directly between two calls and    *)
(* may leave DLAB set.  The modem status is one value.                     *)
(***************************************************************************)
EXTENDS Integers, Sequences

CONSTANTS
  Uart,       \* base addresses of UARTs
  NoUart,     \* address 0: the port does not exist
  BDA,        \* addresses of the ports 0 .. 3 in the BIOS data area
  TIMEOUT,    \* polls before a call gives up, 0xffff in the code
  Byte,       \* bytes that are sent and received
  NoByte,     \* an empty register
  MSR,        \* the modem status
  Zero,       \* AL when int14_recv gives up
  Divisor,    \* RI_8250_DLL and RI_8250_DLH, 115200 baud
  Commands,   \* values of AH in calls
  MaxBytes    \* bound on the bytes that arrive, and that are sent

Port == 0 .. 3
W == 65536    \* registers have 16 bits

ASSUME Int14Assumption ==
  /\ NoUart \notin Uart /\ BDA \in [Port -> Uart \cup {NoUart}]
  /\ TIMEOUT \in 1 .. (W - 1)
  /\ NoByte \notin Byte /\ {MSR, Zero} \cap (Byte \cup {NoByte}) = {}
  /\ Divisor \notin Byte
  /\ Commands \subseteq 0 .. 255
  /\ MaxBytes \in Nat

VARIABLES
  pc,        \* where the CPU is; "user" outside of the handler
  back,      \* where int14_stat returns to
  cmd, dx,   \* the command and the UART of the call
  al, bl, cx,
  ah,        \* the status, in bits: [timeout, rdy, oe, thre]
  dlab, divisor, thr, rbr, oe,     \* the UARTs
  line,      \* bytes that left each UART
  kept,      \* bytes that arrived at each UART and were not overrun
  sent, got  \* bytes that calls reported as sent, or received

cpuVars == <<pc, back, cmd, dx, al, bl, cx, ah>>
userVars == <<sent, got>>
vars == <<cpuVars, dlab, divisor, thr, rbr, oe, line, kept, userVars>>

Bits(t, r, o, h) == [timeout |-> t, rdy |-> r, oe |-> o, thre |-> h]
ERROR_RETURN == Bits(TRUE, FALSE, FALSE, FALSE)

Init ==
  /\ pc = "start" /\ back = "ret"
  /\ cmd = 0 /\ dx \in Uart
  /\ al = MSR /\ bl = MSR /\ cx = 0 /\ ah = ERROR_RETURN
  /\ dlab \in [Uart -> BOOLEAN] /\ divisor = [u \in Uart |-> NoByte]
  /\ thr = [u \in Uart |-> NoByte] /\ rbr = [u \in Uart |-> NoByte]
  /\ oe = [u \in Uart |-> FALSE]
  /\ line = [u \in Uart |-> <<>>] /\ kept = [u \in Uart |-> <<>>]
  /\ sent = [u \in Uart |-> <<>>] /\ got = [u \in Uart |-> <<>>]

-----------------------------------------------------------------------------
(* _start: uart_init of the ports up to the first that does not exist,     *)
(* then the vector of INT 14h is set and the program stays resident.       *)
Initialised == {BDA[i] : i \in {j \in Port : \A k \in 0 .. j : BDA[k] # NoUart}}

_start ==
  /\ pc = "start"
  /\ dlab' = [u \in Uart |-> IF u \in Initialised THEN FALSE ELSE dlab[u]]
  /\ divisor' = [u \in Uart |-> IF u \in Initialised THEN Divisor ELSE divisor[u]]
  /\ pc' = "user"
  /\ UNCHANGED <<back, cmd, dx, al, bl, cx, ah, thr, rbr, oe, line, kept, userVars>>

(* int14_entry.  The address of the vector is cmdtbl + 2 * (a & 7fh), and  *)
(* it is compared with cmdmax, the address after the table, where a zero   *)
(* word lies.                                                              *)
Command(a) == a % 128
cmdmax == 4
Accepted(c) == c <= cmdmax
cmdtbl == <<"stat", "xmit", "recv", "stat", "wild">>

(* The call in progress is one of the routine f. *)
Is(f) == Accepted(cmd) /\ cmdtbl[cmd + 1] = f

Timer_notSet == cx
Timer == TIMEOUT

int14_entry(a, b, i) ==
  LET c == Command(a) IN
  /\ pc = "user"
  /\ cmd' = c
  /\ IF Accepted(c) /\ BDA[i] # NoUart
       THEN /\ pc' = IF cmdtbl[c + 1] = "wild" THEN "wild" ELSE "lcr"
            /\ back' = IF cmdtbl[c + 1] = "stat" THEN "ret" ELSE "poll"
            /\ dx' = BDA[i]
            /\ al' = b /\ bl' = b /\ cx' = Timer
            /\ UNCHANGED ah
       ELSE /\ pc' = "ret" /\ ah' = ERROR_RETURN
            /\ UNCHANGED <<back, dx, al, bl, cx>>
  /\ UNCHANGED <<dlab, divisor, thr, rbr, oe, line, kept, userVars>>

(* int14_stat: clear DLAB, then read the line status, which clears its     *)
(* error bit, and the modem status.                                        *)
Dlab_kept == dlab
ClearedDlab == [dlab EXCEPT ![dx] = FALSE]
StatLcr ==
  /\ pc = "lcr"
  /\ dlab' = ClearedDlab
  /\ pc' = "lsr"
  /\ UNCHANGED <<back, cmd, dx, al, bl, cx, ah, divisor, thr, rbr, oe, line, kept, userVars>>

LSR(u) == Bits(FALSE, rbr[u] # NoByte, oe[u], thr[u] = NoByte)
StatLsr ==
  /\ pc = "lsr"
  /\ ah' = LSR(dx) /\ al' = MSR
  /\ oe' = [oe EXCEPT ![dx] = FALSE]
  /\ pc' = back
  /\ UNCHANGED <<back, cmd, dx, bl, cx, dlab, divisor, thr, rbr, line, kept, userVars>>

(* int14_xmit and int14_recv after a poll: go on when the bit they wait    *)
(* for is set, else poll again until the count in CX is used up.           *)
Ready_swapped == IF Is("xmit") THEN ah.rdy ELSE ah.thre
Ready_notLast == cx # 1 /\ IF Is("xmit") THEN ah.thre ELSE ah.rdy
Ready == IF Is("xmit") THEN ah.thre ELSE ah.rdy

CountDown_reloaded == TIMEOUT
CountDown == (cx - 1) % W

Poll ==
  /\ pc = "poll"
  /\ \/ /\ Ready
        /\ pc' = "data"
        /\ UNCHANGED <<cx, ah, al>>
     \/ /\ ~Ready
        /\ cx' = CountDown
        /\ pc' = IF cx' # 0 THEN "lcr" ELSE "ret"
        /\ ah' = IF cx' # 0 THEN ah ELSE [ah EXCEPT !.timeout = TRUE]
        /\ al' = IF cx' = 0 /\ Is("recv") THEN Zero ELSE al
  /\ UNCHANGED <<back, cmd, dx, bl, dlab, divisor, thr, rbr, oe, line, kept, userVars>>

(* The access to the data register, or to the divisor latch. *)
DataOut ==
  /\ pc = "data" /\ Is("xmit")
  /\ IF dlab[dx]
       THEN divisor' = [divisor EXCEPT ![dx] = bl] /\ UNCHANGED thr
       ELSE thr' = [thr EXCEPT ![dx] = bl] /\ UNCHANGED divisor
  /\ pc' = "lcr" /\ back' = "done"
  /\ UNCHANGED <<cmd, dx, al, bl, cx, ah, dlab, rbr, oe, line, kept, userVars>>

DataIn ==
  /\ pc = "data" /\ Is("recv")
  /\ IF dlab[dx]
       THEN bl' = divisor[dx] /\ UNCHANGED rbr
       ELSE bl' = rbr[dx] /\ rbr' = [rbr EXCEPT ![dx] = NoByte]
  /\ pc' = "lcr" /\ back' = "done"
  /\ UNCHANGED <<cmd, dx, al, cx, ah, dlab, divisor, thr, oe, line, kept, userVars>>

(* The end of int14_xmit and int14_recv: the status is the one after the   *)
(* access.                                                                 *)
Done ==
  /\ pc = "done"
  /\ al' = bl /\ ah' = [ah EXCEPT !.timeout = FALSE]
  /\ pc' = "ret"
  /\ UNCHANGED <<back, cmd, dx, bl, cx, dlab, divisor, thr, rbr, oe, line, kept, userVars>>

(* iret; the caller takes note of the result. *)
Iret ==
  /\ pc = "ret"
  /\ pc' = "user"
  /\ sent' = IF Is("xmit") /\ ~ah.timeout THEN [sent EXCEPT ![dx] = Append(@, al)] ELSE sent
  /\ got' = IF Is("recv") /\ ~ah.timeout THEN [got EXCEPT ![dx] = Append(@, al)] ELSE got
  /\ UNCHANGED <<back, cmd, dx, al, bl, cx, ah, dlab, divisor, thr, rbr, oe, line, kept>>

Handler == StatLcr \/ StatLsr \/ Poll \/ DataOut \/ DataIn \/ Done \/ Iret

-----------------------------------------------------------------------------
(* The UART. *)
ShiftOut(u) ==
  /\ thr[u] # NoByte
  /\ line' = [line EXCEPT ![u] = Append(@, thr[u])]
  /\ thr' = [thr EXCEPT ![u] = NoByte]
  /\ UNCHANGED <<cpuVars, dlab, divisor, rbr, oe, kept, userVars>>

ShiftIn(u, b) ==
  /\ Len(kept[u]) < MaxBytes
  /\ rbr' = [rbr EXCEPT ![u] = b]
  /\ IF rbr[u] = NoByte
       THEN kept' = [kept EXCEPT ![u] = Append(@, b)] /\ UNCHANGED oe
       ELSE /\ kept' = [kept EXCEPT ![u] = [@ EXCEPT ![Len(@)] = b]]
            /\ oe' = [oe EXCEPT ![u] = TRUE]
  /\ UNCHANGED <<cpuVars, dlab, divisor, thr, line, userVars>>

(* Another program sets DLAB and leaves it so. *)
SetDlab(u) ==
  /\ pc = "user"
  /\ dlab' = [dlab EXCEPT ![u] = TRUE]
  /\ UNCHANGED <<cpuVars, divisor, thr, rbr, oe, line, kept, userVars>>

Call ==
  \E a \in Commands, b \in Byte, i \in Port :
    /\ BDA[i] # NoUart => Len(sent[BDA[i]]) < MaxBytes
    /\ int14_entry(a, b, i)

Next ==
  \/ _start \/ Call \/ Handler
  \/ \E u \in Uart : ShiftOut(u) \/ SetDlab(u)
  \/ \E u \in Uart, b \in Byte : ShiftIn(u, b)

Spec == Init /\ [][Next]_vars /\ WF_vars(_start) /\ WF_vars(Handler)

-----------------------------------------------------------------------------
(* Properties. *)

TypeOK ==
  /\ pc \in {"start", "user", "lcr", "lsr", "poll", "data", "done", "ret", "wild"}
  /\ back \in {"poll", "done", "ret"}
  /\ cmd \in 0 .. 127 /\ dx \in Uart
  /\ al \in Byte \cup {MSR, Zero} /\ bl \in Byte \cup {MSR}
  /\ cx \in 0 .. TIMEOUT
  /\ ah \in [timeout : BOOLEAN, rdy : BOOLEAN, oe : BOOLEAN, thre : BOOLEAN]
  /\ dlab \in [Uart -> BOOLEAN] /\ oe \in [Uart -> BOOLEAN]
  /\ divisor \in [Uart -> {NoByte, Divisor}]
  /\ thr \in [Uart -> Byte \cup {NoByte}] /\ rbr \in [Uart -> Byte \cup {NoByte}]
  /\ \A f \in {line, kept, sent, got} : f \in [Uart -> Seq(Byte)]

(* The byte that the call in progress has moved and not yet reported. *)
Moved(u, f) ==
  IF /\ Is(f) /\ dx = u
     /\ \/ pc \in {"lcr", "lsr"} /\ back = "done"
        \/ pc = "done"
        \/ pc = "ret" /\ ~ah.timeout
    THEN <<bl>> ELSE <<>>
InReg(r) == IF r = NoByte THEN <<>> ELSE <<r>>

(* Every byte that int14_xmit reports as sent leaves the UART once, in the *)
(* order of the calls, and a byte for which it reports a timeout never     *)
(* does: no byte is written over one that waits.                           *)
SentInOrder == \A u \in Uart : line[u] \o InReg(thr[u]) = sent[u] \o Moved(u, "xmit")

(* The bytes that int14_recv returns are those that arrived, each once and *)
(* in order, except the ones that the UART itself lost to an overrun.      *)
ReceivedInOrder == \A u \in Uart : kept[u] = got[u] \o Moved(u, "recv") \o InReg(rbr[u])

(* The speed that uart_init set stays, although other programs leave the   *)
(* data register switched to the divisor latch.                            *)
DivisorKept == pc # "start" => \A u \in Initialised : divisor[u] = Divisor

(* Every call returns, whatever the UART does. *)
CallReturns == pc # "user" ~> pc = "user"

(* A call that polls while the UART is ready for it succeeds, also when    *)
(* that is the last poll before the timeout.                               *)
Serviceable ==
  /\ pc = "lcr" /\ back = "poll"
  /\ \/ Is("xmit") /\ thr[dx] = NoByte
     \/ Is("recv") /\ rbr[dx] # NoByte
ReadyIsServed == Serviceable ~> pc = "ret" /\ ~ah.timeout

(* int14.S:148: "check for valid command": of the commands 00 to 03 that   *)
(* the header comment lists, each goes to its routine; any other is a      *)
(* "bad command" (int14.S:165) and calls nothing.                          *)
BadCommandRefused == pc # "wild"
=============================================================================
