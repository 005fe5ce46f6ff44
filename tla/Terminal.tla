------------------------------ MODULE Terminal ------------------------------
(***************************************************************************)
(* The console and the UART: console.c and uart.c, with uartintr() as the  *)
(* trap handler runs it, and the clock: clockintr() and sys_pause().       *)
(*                                                                         *)
(* A process reads, writes or pauses.  uartwrite(), the body of uartintr() *)
(* under tx_lock and clockintr() are one step each, for what they do with  *)
(* the lock held nobody sees in between.  consoleread() and consoleintr()  *)
(* keep cons.lock while they go from character to character, and           *)
(* uartputc_sync() writes to the UART without any lock: these are several  *)
(* steps.  The UART puts up to FIFO characters in a row; it interrupts     *)
(* when the last one is out, and as long as there is input.  One CPU at a  *)
(* time serves its interrupt, between plic_claim() and plic_complete().    *)
(***************************************************************************)
EXTENDS Integers, Sequences, SequencesExt, FiniteSets

CONSTANTS
  Procs,
  Kernel,           \* stands for the kernel as a sender of characters
  Plain, Newline, Eof, Backspace, KillLine,   \* characters typed
  Nothing,          \* none of them
  INPUT_BUF_SIZE,
  BUFSIZE,          \* sizeof(buf) of consolewrite()
  FIFO,             \* what the UART holds, 16 in the machine
  Wrap,             \* what a uint wraps around at
  Start,            \* bound: where the indices and the clock are at first
  Budgets           \* bound: what may happen in one run: the calls each
                    \* process makes, how many keys are typed, how many
                    \* characters are printed, and who gets killed

Chars == Plain \cup {Newline, Eof}
Keys == Chars \cup {Backspace, KillLine}

ASSUME TerminalAssumption ==
  /\ Kernel \notin Procs /\ Nothing \notin Keys
  /\ {INPUT_BUF_SIZE, BUFSIZE, FIFO, Wrap} \subseteq Nat \ {0}
  /\ Wrap % INPUT_BUF_SIZE = 0 /\ INPUT_BUF_SIZE < Wrap
  /\ Start \in 0 .. Wrap - 1
  /\ Budgets \subseteq
       [jobs : [Procs -> SUBSET [call : {"read", "write", "pause"}, n : 0 .. Wrap - 1]],
        keys : Nat, prints : Nat, victims : SUBSET Procs]

VARIABLES
  buf, r, w, e,   \* cons
  tx_busy,
  ticks,
  thr,            \* who sent the characters that the UART is to put out
  thre,           \* its interrupt for having put them out
  rhr,            \* its input, or Nothing
  intr,           \* uartintr(): where it is, its c, what it has to echo
  printf,         \* printf() on another CPU: it saw LSR_TX_IDLE
  proc,           \* what each process does
  due,            \* characters each process wrote that are not out yet
  killed,
  budget          \* what is left of it

cons == <<buf, r, w, e>>
uart == <<thr, thre, rhr>>
vars == <<buf, r, w, e, tx_busy, ticks, thr, thre, rhr, intr, printf, proc,
          due, killed, budget>>

(* Where a process is, how many characters or ticks are left, how many it  *)
(* asked for or when it began, and the character it has just read.         *)
At(pc, left, from, cbuf) ==
  [pc |-> pc, left |-> left, from |-> from, cbuf |-> cbuf]
Idle == At("idle", 0, 0, Nothing)
NoIntr == [pc |-> "none", c |-> Nothing, echo |-> 0, idle |-> FALSE]

Init ==
  /\ \E c \in Plain : buf = [i \in 0 .. INPUT_BUF_SIZE - 1 |-> c]
  /\ r = Start /\ w = Start /\ e = Start
  /\ tx_busy = FALSE
  /\ ticks = Start
  /\ thr = <<>> /\ thre = FALSE /\ rhr = Nothing
  /\ intr = NoIntr
  /\ printf = FALSE
  /\ proc = [p \in Procs |-> Idle]
  /\ due = [p \in Procs |-> 0]
  /\ killed = {}
  /\ budget \in Budgets

-----------------------------------------------------------------------------
(* Unsigned arithmetic. *)
Plus(x, y) == (x + y) % Wrap
Minus(x, y) == (x - y) % Wrap
Slot(x) == x % INPUT_BUF_SIZE

Goto(p, pc) == proc' = [proc EXCEPT ![p].pc = pc]

(* wakeup(): what sleeps at pc goes on where sleep() returns. *)
Awake == [onread |-> "read", onwrite |-> "write", onpause |-> "pause"]
Wakeup(pc) ==
  proc' = [p \in Procs |-> IF proc[p].pc = pc
                           THEN [proc[p] EXCEPT !.pc = Awake[pc]] ELSE proc[p]]

ConsFree ==
  /\ intr.pc \notin {"console", "store", "done"}
  /\ \A p \in Procs : proc[p].pc \notin {"reading", "nap", "return"}
TicksFree == \A p \in Procs : proc[p].pc # "tick"

(* A system call begins: not in a killed process. *)
Call(p, job) ==
  /\ proc[p] = Idle /\ p \notin killed
  /\ budget' = [budget EXCEPT !.jobs[p] = @ \ {job}]
  /\ proc' = [proc EXCEPT ![p] =
                At(job.call, job.n, IF job.call = "pause" THEN ticks ELSE job.n,
                   Nothing)]
  /\ due' = [due EXCEPT ![p] = @ + IF job.call = "write" THEN job.n ELSE 0]
  /\ UNCHANGED <<cons, uart, tx_busy, ticks, intr, printf, killed>>

(* kkill(): marks, and wakes up from any sleep. *)
Kill(p) ==
  /\ p \in budget.victims
  /\ budget' = [budget EXCEPT !.victims = @ \ {p}]
  /\ killed' = killed \cup {p}
  /\ IF proc[p].pc \in DOMAIN Awake THEN Goto(p, Awake[proc[p].pc])
     ELSE UNCHANGED proc
  /\ UNCHANGED <<cons, uart, tx_busy, ticks, intr, printf, due>>

InProc == UNCHANGED <<uart, tx_busy, ticks, intr, printf, due, killed, budget>>

-----------------------------------------------------------------------------
(* consoleread(), from acquire() or the end of sleep(), *)
ReadEnter(p) ==
  /\ proc[p].pc = "read" /\ ConsFree
  /\ Goto(p, "reading")
  /\ UNCHANGED cons /\ InProc

(* to wait for a line, unless killed;                                      *)
ReadWaits(p) ==
  /\ proc[p].pc = "reading" /\ proc[p].left > 0 /\ r = w
  /\ Goto(p, IF p \in killed THEN "return" ELSE "nap")
  /\ UNCHANGED cons /\ InProc

ReadSleeps(p) ==
  /\ proc[p].pc = "nap"
  /\ Goto(p, "onread")
  /\ UNCHANGED cons /\ InProc

NextChar == buf[Slot(r)]
Reading(p) == proc[p].pc = "reading" /\ proc[p].left > 0 /\ r # w

(* to take an end-of-file, unless it has got something: then that is left  *)
(* to the next read;                                                       *)
ReadEof(p) ==
  /\ Reading(p) /\ NextChar = Eof
  /\ IF proc[p].left < proc[p].from
     THEN Goto(p, "return") /\ UNCHANGED r
     ELSE /\ proc' = [proc EXCEPT ![p].cbuf = Eof, ![p].pc = "return"]
          /\ r' = Plus(r, 1)
  /\ UNCHANGED <<buf, w, e>> /\ InProc

(* to take a character, up to the end of the line;                         *)
ReadChar(p) ==
  /\ Reading(p) /\ NextChar # Eof
  /\ r' = Plus(r, 1)
  /\ proc' = [proc EXCEPT
                ![p].cbuf = NextChar, ![p].left = @ - 1,
                ![p].pc = IF NextChar = Newline THEN "return" ELSE @]
  /\ UNCHANGED <<buf, w, e>> /\ InProc

(* to take one that either_copyout() cannot deliver;                       *)
ReadFault(p) ==
  /\ Reading(p) /\ NextChar # Eof
  /\ r' = Plus(r, 1)
  /\ proc' = [proc EXCEPT ![p].cbuf = Nothing, ![p].pc = "return"]
  /\ UNCHANGED <<buf, w, e>> /\ InProc

(* release() and return.                                                   *)
ReadReturns(p) ==
  /\ \/ proc[p].pc = "return"
     \/ proc[p].pc = "reading" /\ proc[p].left = 0
  /\ proc' = [proc EXCEPT ![p] = Idle]
  /\ UNCHANGED cons /\ InProc

consoleread(p) ==
  \/ ReadEnter(p) \/ ReadWaits(p) \/ ReadSleeps(p) \/ ReadEof(p)
  \/ ReadChar(p) \/ ReadFault(p) \/ ReadReturns(p)

-----------------------------------------------------------------------------
(* WriteReg(THR, c): a character too many is lost. *)
Send(who) ==
  /\ thr' = IF Len(thr) < FIFO THEN Append(thr, who) ELSE thr
  /\ thre' = FALSE
  /\ UNCHANGED rhr

(* uartwrite() under tx_lock: a character, unless the last one is still on *)
(* its way; and sleep(), unless that was the last one of buf.              *)
uartwrite(p) ==
  /\ proc[p].pc = "write" /\ proc[p].left > 0
  /\ LET left == proc[p].left - IF tx_busy THEN 0 ELSE 1
         chunk == ~tx_busy /\ (proc[p].from - left) % BUFSIZE = 0
     IN proc' = [proc EXCEPT
                   ![p].left = left,
                   ![p].pc = IF chunk \/ left = 0 THEN "write" ELSE "onwrite"]
  /\ IF tx_busy THEN UNCHANGED uart ELSE Send(p)
  /\ tx_busy' = TRUE
  /\ UNCHANGED <<cons, ticks, intr, printf, due, killed, budget>>

(* consolewrite(): the next characters cannot be copied in,                *)
WriteFault(p) ==
  /\ proc[p].pc = "write" /\ proc[p].left > 0
  /\ (proc[p].from - proc[p].left) % BUFSIZE = 0
  /\ due' = [due EXCEPT ![p] = @ - proc[p].left]
  /\ proc' = [proc EXCEPT ![p] = Idle]
  /\ UNCHANGED <<cons, uart, tx_busy, ticks, intr, printf, killed, budget>>

(* or there are none.                                                      *)
WriteReturns(p) ==
  /\ proc[p].pc = "write" /\ proc[p].left = 0
  /\ proc' = [proc EXCEPT ![p] = Idle]
  /\ UNCHANGED cons /\ InProc

consolewrite(p) == uartwrite(p) \/ WriteFault(p) \/ WriteReturns(p)

-----------------------------------------------------------------------------
(* uartputc_sync() of printf() on another CPU: it sees the UART idle, and  *)
(* sends, whatever others have sent meanwhile.                             *)
PrintWaits ==
  /\ ~printf /\ budget.prints > 0 /\ thr = <<>>
  /\ printf' = TRUE
  /\ UNCHANGED <<cons, uart, tx_busy, ticks, intr, proc, due, killed, budget>>

PrintSends ==
  /\ printf
  /\ printf' = FALSE
  /\ budget' = [budget EXCEPT !.prints = @ - 1]
  /\ Send(Kernel)
  /\ UNCHANGED <<cons, tx_busy, ticks, intr, proc, due, killed>>

(* The UART: a character goes out; a key comes in. *)
Transmit ==
  /\ thr # <<>>
  /\ thr' = Tail(thr)
  /\ thre' = (Tail(thr) = <<>>)
  /\ due' = IF Head(thr) = Kernel THEN due
            ELSE [due EXCEPT ![Head(thr)] = @ - 1]
  /\ UNCHANGED <<cons, rhr, tx_busy, ticks, intr, printf, proc, killed, budget>>

Key(c) ==
  /\ rhr = Nothing /\ budget.keys > 0
  /\ rhr' = c
  /\ budget' = [budget EXCEPT !.keys = @ - 1]
  /\ UNCHANGED <<cons, thr, thre, tx_busy, ticks, intr, printf, proc, due,
                 killed>>

-----------------------------------------------------------------------------
IntrAt(pc) == intr' = [intr EXCEPT !.pc = pc]
InIntr == UNCHANGED <<ticks, printf, due, killed, budget>>

plic_claim ==
  /\ intr = NoIntr /\ (thre \/ rhr # Nothing)
  /\ IntrAt("isr")
  /\ UNCHANGED <<cons, uart, tx_busy, proc>> /\ InIntr

(* ReadReg(ISR) acknowledges THR empty, if it is not input that ISR shows. *)
ReadISR ==
  /\ intr.pc = "isr"
  /\ thre' = (thre /\ rhr # Nothing)
  /\ IntrAt("tx")
  /\ UNCHANGED <<cons, thr, rhr, tx_busy, proc>> /\ InIntr

(* Mutant: the writers that wait are not woken up. *)
TxIdleQuiet ==
  /\ intr.pc = "tx"
  /\ tx_busy' = (tx_busy /\ thr # <<>>)
  /\ IntrAt("rx")
  /\ UNCHANGED <<cons, uart, proc>> /\ InIntr

(* uartintr() under tx_lock: all sent, so the writers go on. *)
TxIdle ==
  /\ intr.pc = "tx"
  /\ IF thr = <<>> THEN tx_busy' = FALSE /\ Wakeup("onwrite")
     ELSE UNCHANGED <<tx_busy, proc>>
  /\ IntrAt("rx")
  /\ UNCHANGED <<cons, uart>> /\ InIntr

(* uartgetc(), and consoleintr() gets cons.lock. *)
uartgetc ==
  /\ intr.pc = "rx" /\ rhr # Nothing /\ ConsFree
  /\ intr' = [intr EXCEPT !.pc = "console", !.c = rhr]
  /\ rhr' = Nothing
  /\ UNCHANGED <<cons, thr, thre, tx_busy, proc>> /\ InIntr

plic_complete ==
  /\ intr.pc = "rx" /\ rhr = Nothing
  /\ intr' = NoIntr
  /\ UNCHANGED <<cons, uart, tx_busy, proc>> /\ InIntr

(* consputc(): the characters to be echoed one by one, each when idle. *)
EchoWaits ==
  /\ intr.echo > 0 /\ ~intr.idle /\ thr = <<>>
  /\ intr' = [intr EXCEPT !.idle = TRUE]
  /\ UNCHANGED <<cons, uart, tx_busy, proc>> /\ InIntr

EchoSends ==
  /\ intr.idle
  /\ intr' = [intr EXCEPT !.idle = FALSE, !.echo = @ - 1]
  /\ Send(Kernel)
  /\ UNCHANGED <<cons, tx_busy, proc>> /\ InIntr

(* consoleintr(): backspace takes a character of the line back, and kill   *)
(* all of them, and both overwrite what they take on the screen;           *)
Switch(keys) == intr.pc = "console" /\ intr.echo = 0 /\ intr.c \in keys
CanErase ==
  e # w /\ (intr.c = KillLine => buf[Slot(Minus(e, 1))] # Newline)

EraseOne ==
  /\ Switch({Backspace, KillLine}) /\ CanErase
  /\ e' = Minus(e, 1)
  /\ intr' = [intr EXCEPT !.echo = 3,
                          !.pc = IF intr.c = KillLine THEN @ ELSE "done"]
  /\ UNCHANGED <<buf, r, w, uart, tx_busy, proc>> /\ InIntr

(* Mutant: one character too many. *)
RoomForOneMore == Minus(e, r) <= INPUT_BUF_SIZE

(* any other is echoed if there is room for it,                            *)
Room == Minus(e, r) < INPUT_BUF_SIZE

EchoChar ==
  /\ Switch(Chars) /\ Room
  /\ intr' = [intr EXCEPT !.echo = 1, !.pc = "store"]
  /\ UNCHANGED <<cons, uart, tx_busy, proc>> /\ InIntr

(* and then stored; a line that is complete, or fills the buffer, is for   *)
(* the readers.                                                            *)
Store ==
  /\ intr.pc = "store" /\ intr.echo = 0
  /\ buf' = [buf EXCEPT ![Slot(e)] = intr.c]
  /\ e' = Plus(e, 1)
  /\ IF intr.c \in {Newline, Eof} \/ Minus(e', r) = INPUT_BUF_SIZE
     THEN w' = e' /\ Wakeup("onread")
     ELSE UNCHANGED <<w, proc>>
  /\ IntrAt("done")
  /\ UNCHANGED <<r, uart, tx_busy>> /\ InIntr

Ignore ==
  /\ \/ Switch({Backspace, KillLine}) /\ ~CanErase
     \/ Switch(Chars) /\ ~Room
  /\ IntrAt("done")
  /\ UNCHANGED <<cons, uart, tx_busy, proc>> /\ InIntr

ConsoleDone ==
  /\ intr.pc = "done" /\ intr.echo = 0
  /\ intr' = [intr EXCEPT !.pc = "rx", !.c = Nothing]
  /\ UNCHANGED <<cons, uart, tx_busy, proc>> /\ InIntr

consoleintr == EraseOne \/ EchoChar \/ Store \/ Ignore \/ ConsoleDone
uartintr ==
  ReadISR \/ TxIdle \/ uartgetc \/ consoleintr \/ EchoWaits \/ EchoSends

-----------------------------------------------------------------------------
(* sys_pause(), with tickslock: over, killed, or not yet.                  *)
PauseTest(p) ==
  /\ proc[p].pc = "pause" /\ TicksFree
  /\ IF Minus(ticks, proc[p].from) < proc[p].left /\ p \notin killed
     THEN Goto(p, "tick")
     ELSE proc' = [proc EXCEPT ![p] = Idle]
  /\ UNCHANGED cons /\ InProc

PauseSleeps(p) ==
  /\ proc[p].pc = "tick"
  /\ Goto(p, "onpause")
  /\ UNCHANGED cons /\ InProc

sys_pause(p) == PauseTest(p) \/ PauseSleeps(p)

(* clockintr().  Ticks that nobody counts do not matter; and a process     *)
(* that has been woken up runs before the clock has gone all the way round *)
(* (in the code, 2^32 tenths of a second).                                 *)
Pausing(p) == proc[p].pc \in {"pause", "tick", "onpause"}

clockintr ==
  /\ TicksFree
  /\ \E p \in Procs : Pausing(p)
  /\ \A p \in Procs : Pausing(p) => Plus(ticks, 1) # proc[p].from
  /\ ticks' = Plus(ticks, 1)
  /\ Wakeup("onpause")
  /\ UNCHANGED <<cons, uart, tx_busy, intr, printf, due, killed, budget>>

-----------------------------------------------------------------------------
Runs(p) == consoleread(p) \/ consolewrite(p) \/ sys_pause(p)
Handler == plic_claim \/ uartintr \/ plic_complete

Next ==
  \/ \E p \in Procs : Runs(p) \/ Kill(p) \/ \E job \in budget.jobs[p] : Call(p, job)
  \/ \E c \in Keys : Key(c)
  \/ Handler \/ Transmit \/ PrintWaits \/ PrintSends \/ clockintr

Spec == Init /\ [][Next]_vars

(* Processes get to run, an interrupt is served and goes on, a printf()    *)
(* that is about to send does, the UART sends, and the clock ticks.        *)
(* Nobody has to call, to type, to print or to kill.                       *)
FairSpec ==
  /\ Spec
  /\ \A p \in Procs : WF_vars(Runs(p))
  /\ WF_vars(Handler) /\ WF_vars(Transmit) /\ WF_vars(PrintSends)
  /\ WF_vars(clockintr)

-----------------------------------------------------------------------------
(* The characters between two of the indices. *)
Between(x, y) == [i \in 1 .. Minus(y, x) |-> buf[Slot(Plus(x, i - 1))]]

Console ==
  INSTANCE Tty WITH
    Readers <- Procs, Capacity <- INPUT_BUF_SIZE,
    line <- Between(w, e), queue <- Between(r, w),
    last <- [p \in Procs |-> proc[p].cbuf]

(***************************************************************************)
(* The buffer with its three indices is a line editor and a queue of       *)
(* lines: what is typed is read once, in order, whatever the readers and   *)
(* the interrupts do, and wherever the indices wrap around.                *)
(***************************************************************************)
ImplementsTty == Console!TtySpec

(***************************************************************************)
(* What can end ends: what a process writes is all sent out, whoever else  *)
(* sends; a pause is over some time; and a reader that waits gets on when  *)
(* there is something to read.                                             *)
(***************************************************************************)
CallsEnd ==
  \A p \in Procs :
    /\ due[p] > 0 ~> due[p] = 0
    /\ Pausing(p) ~> ~Pausing(p)
    /\ proc[p].pc = "onread" /\ r # w ~> proc[p].pc # "onread"
=============================================================================
