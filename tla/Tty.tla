--------------------------------- MODULE Tty ---------------------------------
(***************************************************************************)
(* A terminal on a serial line: kernel/chr_drv/tty_io.c, tty_ioctl.c,      *)
(* serial.c and rs_io.s, with interruptible_sleep_on() of kernel/sched.c.  *)
(*                                                                         *)
(* The interrupt puts characters into read_q; copy_to_cooked() moves them  *)
(* to secondary, editing the line on the way; tty_read() takes them from   *)
(* there.  tty_write() fills write_q, which the transmit interrupt empties *)
(* as long as it is enabled (txi).  Of write_q only the number of          *)
(* characters matters.  A queue holds at most Size - 1 characters; PUTCH() *)
(* into a full queue makes it look empty, and the echo of copy_to_cooked() *)
(* does not ask whether write_q is full.                                   *)
(*                                                                         *)
(* A task in the kernel keeps the processor (current) until it calls       *)
(* schedule().  Interrupts come between any two steps; a step is what runs *)
(* with interrupts off, or touches shared state once.                      *)
(*                                                                         *)
(* cooked is ICANON, ISIG and ECHO together.  VMIN is 1 and VTIME is 0, as *)
(* in INIT_C_CC, and output is not processed (OPOST is off).  ^S and ^Q    *)
(* set tty->stopped, which no code reads.                                  *)
(***************************************************************************)
EXTENDS Naturals, Sequences, FiniteSets, SequencesExt

CONSTANTS Readers, Writers, NoTask,
          Size,     \* TTY_BUF_SIZE
          Room,     \* 20: tty_read() takes an unfinished line if LEFT is not above it
          Low,      \* 128: a writer that found the queue full waits for this much
          Startup,  \* 256: the transmit interrupt wakes the writer from here on
          Chars,    \* the characters that arrive
          Counts,   \* the sizes of reads and writes
          Edits     \* TRUE: an erase may come between a test and a GETCH()

Tasks == Readers \cup Writers
Capacity == Size - 1

(* A woken writer finds the room it waits for. *)
ASSUME TtyAssumption ==
  /\ Size \in Nat /\ Room \in Nat /\ Startup \in Nat \ {0} /\ Low \in 1 .. Capacity
  /\ Startup + Low <= Capacity
  /\ Counts \subseteq Nat \ {0}
  /\ Edits \in BOOLEAN /\ NoTask \notin Tasks /\ Readers \cap Writers = {}

VARIABLES cooked, read_q, secondary, data, write_q, txi,
          proc_list, state, signal, current, loc

queueVars == <<cooked, read_q, secondary, data, write_q, txi>>
taskVars == <<proc_list, state, signal, current, loc>>
ttyVars == <<queueVars, taskVars>>

User == [pc |-> "user", nr |-> 0, tmp |-> NoTask]
QueueOf(t) == IF t \in Readers THEN "secondary" ELSE "write_q"

TtyInit ==
  /\ cooked = FALSE
  /\ read_q = << >> /\ secondary = << >> /\ data = 0
  /\ write_q = 0 /\ txi = FALSE
  /\ proc_list = [q \in {"secondary", "write_q"} |-> NoTask]
  /\ state = [t \in Tasks |-> "running"]
  /\ signal = [t \in Tasks |-> FALSE]
  /\ current = NoTask
  /\ loc = [t \in Tasks |-> User]

LEFT(n) == Capacity - n
FULL(n) == LEFT(n) = 0

----------------------------------------------------------------------------
(* copy_to_cooked().  q is the line discipline's state: the characters     *)
(* that stay in read_q, secondary, its data, the echoed characters and     *)
(* whether tty_intr() was called.                                          *)

LineEnd(c) == c \in {"nl", "eof"}

(* Something of the unfinished line is left. *)
Erasable(s) == s # << >> /\ ~LineEnd(Last(s))

(* Mutant: all lines are killed. *)
Killed_all(s) == << >>

(* Killing the line: up to the last line end. *)
Killed(s) ==
  LET ends == {i \in DOMAIN s : LineEnd(s[i])}
      keep == CHOOSE i \in {0} \cup ends : \A j \in ends : j <= i
  IN  SubSeq(s, 1, keep)

Echo(c) == IF LineEnd(c) THEN 2 ELSE 1

(* In the queue, a character that edits or interrupts is one like others. *)
Plain(c) == IF LineEnd(c) THEN c ELSE "c"

CookChar(q, c) ==
  IF FULL(Len(q.sec)) THEN [q EXCEPT !.rest = Append(@, c)]
  ELSE IF cooked /\ c = "kill"
  THEN [q EXCEPT !.sec = Killed(@), !.echo = @ + Len(q.sec) - Len(Killed(q.sec))]
  ELSE IF cooked /\ c = "erase"
  THEN IF Erasable(q.sec) THEN [q EXCEPT !.sec = Front(@), !.echo = @ + 1] ELSE q
  ELSE IF cooked /\ c = "intr"
  THEN [q EXCEPT !.intr = TRUE]
  ELSE [q EXCEPT !.sec = Append(@, Plain(c)), !.data = IF LineEnd(c) THEN @ + 1 ELSE @,
                 !.echo = IF cooked THEN @ + Echo(c) ELSE @]

Uncooked == [rest |-> << >>, sec |-> secondary, data |-> data, echo |-> 0, intr |-> FALSE]

copy_to_cooked(rq) ==
  LET cooked_to[i \in 0 .. Len(rq)] ==
        IF i = 0 THEN Uncooked ELSE CookChar(cooked_to[i - 1], rq[i])
  IN  cooked_to[Len(rq)]

(* An erase can take away the character that a reader has seen and is      *)
(* about to take; that is left out unless Edits is TRUE.                   *)
Apart(q) == Edits \/ q.sec # << >> \/ \A r \in Readers : loc[r].pc # "get"

(* wake_up() of a queue of the terminal. *)
Woken(st, q) == IF proc_list[q] = NoTask THEN st ELSE [st EXCEPT ![proc_list[q]] = "running"]

(* tty_intr(): the signal of ^C goes to the tasks of the terminal; what it *)
(* does to one in user mode is not the terminal's business.                *)
tty_intr(q) == [t \in Tasks |-> signal[t] \/ (q.intr /\ loc[t].pc # "user")]

(* read_char of rs_io.s: a character that finds read_q full is dropped.    *)
(* Then do_tty_interrupt().                                                *)
read_char(c) ==
  LET rq == IF FULL(Len(read_q)) THEN read_q ELSE Append(read_q, c)
      q == copy_to_cooked(rq)
  IN  /\ Apart(q)
      /\ read_q' = q.rest /\ secondary' = q.sec /\ data' = q.data
      /\ write_q' = (write_q + q.echo) % Size
      /\ txi' = (txi \/ (q.echo > 0 /\ write_q' > 0))
      /\ signal' = tty_intr(q)
      /\ state' = Woken(state, "secondary")
      /\ proc_list' = [proc_list EXCEPT !["secondary"] = NoTask]
      /\ UNCHANGED <<cooked, current, loc>>

(* Mutant: the writer is woken only if the queue was empty before. *)
WakesAt_empty(n) == n = 0

(* write_char wakes the writer when the queue is empty, or nearly. *)
WakesAt(n) == n <= Startup

(* write_char of rs_io.s: a character goes out.  The pointer to the writer *)
(* stays in proc_list.                                                     *)
write_char ==
  LET n == IF write_q = 0 THEN 0 ELSE write_q - 1
  IN  /\ txi
      /\ write_q' = n
      /\ txi' = (n > 0)
      /\ state' = IF WakesAt(write_q) THEN Woken(state, "write_q") ELSE state
      /\ UNCHANGED <<cooked, read_q, secondary, data, proc_list, signal, current, loc>>

----------------------------------------------------------------------------
(* schedule() gives the processor to a task that can run; a signal wakes   *)
(* an interruptible one.                                                   *)
schedule(t) ==
  /\ current = NoTask /\ loc[t].pc # "user"
  /\ state[t] = "running" \/ signal[t]
  /\ current' = t
  /\ state' = [state EXCEPT ![t] = "running"]
  /\ UNCHANGED <<queueVars, proc_list, signal, loc>>

Goto(t, pc) == loc' = [loc EXCEPT ![t].pc = pc]

(* Back in user mode; signals are delivered on the way. *)
Return(t) ==
  /\ loc' = [loc EXCEPT ![t] = User]
  /\ signal' = [signal EXCEPT ![t] = FALSE]
  /\ current' = NoTask

(* interruptible_sleep_on(), up to schedule(). *)
interruptible_sleep_on(t) ==
  /\ loc' = [loc EXCEPT ![t].pc = "asleep", ![t].tmp = proc_list[QueueOf(t)]]
  /\ proc_list' = [proc_list EXCEPT ![QueueOf(t)] = t]
  /\ state' = [state EXCEPT ![t] = "interruptible"]
  /\ current' = NoTask

(* The rest: a newer sleeper goes first, and this one sleeps again. *)
WakeUp(t) ==
  LET p == proc_list[QueueOf(t)]
  IN  /\ current = t /\ loc[t].pc = "asleep"
      /\ \/ /\ p \notin {NoTask, t}
            /\ state' = [state EXCEPT ![p] = "running", ![t] = "interruptible"]
            /\ current' = NoTask
            /\ UNCHANGED <<proc_list, loc>>
         \/ /\ p \in {NoTask, t}
            /\ proc_list' = [proc_list EXCEPT ![QueueOf(t)] = NoTask]
            /\ state' = IF loc[t].tmp = NoTask THEN state
                        ELSE [state EXCEPT ![loc[t].tmp] = "running"]
            /\ loc' = [loc EXCEPT ![t].pc = IF t \in Readers THEN "empty" ELSE "full",
                                  ![t].tmp = NoTask]
            /\ UNCHANGED current
      /\ UNCHANGED <<queueVars, signal>>

----------------------------------------------------------------------------
(* tty_read().  NoLine: nothing to take yet. *)
NoLine == \/ secondary = << >>
          \/ cooked /\ data = 0 /\ LEFT(Len(secondary)) > Room

StartCall(t, pc, n) ==
  /\ current = NoTask /\ loc[t].pc = "user"
  /\ current' = t
  /\ loc' = [loc EXCEPT ![t] = [User EXCEPT !.pc = pc, !.nr = n]]
  /\ UNCHANGED <<queueVars, proc_list, state, signal>>

ReadTest(t) ==
  /\ current = t /\ loc[t].pc = "read"
  /\ \/ signal[t] /\ Return(t)
     \/ ~signal[t] /\ Goto(t, IF NoLine THEN "empty" ELSE "get") /\ UNCHANGED <<signal, current>>
  /\ UNCHANGED <<queueVars, proc_list, state>>

(* Mutant: the queue is not tested again with interrupts off. *)
sleep_if_empty_blind(t) ==
  /\ current = t /\ loc[t].pc = "empty"
  /\ interruptible_sleep_on(t)
  /\ UNCHANGED <<queueVars, signal>>

(* sleep_if_empty(): the test and the sleep are one step, interrupts are   *)
(* off.  With an unfinished line in the queue it does not sleep, and the   *)
(* reader runs round its loop with the processor in its hands.             *)
sleep_if_empty(t) ==
  /\ current = t /\ loc[t].pc = "empty"
  /\ \/ /\ ~signal[t] /\ secondary = << >>
        /\ interruptible_sleep_on(t)
     \/ /\ signal[t] \/ secondary # << >>
        /\ Goto(t, "read")
        /\ UNCHANGED <<proc_list, state, current>>
  /\ UNCHANGED <<queueVars, signal>>

(* GETCH().  The loop goes on while there is something, past the end of    *)
(* the line; taking from an empty queue leaves a full one of old bytes.    *)
GetChar(t) ==
  LET c == Head(secondary)
      rest == Tail(secondary)
      ended == (c = "eof" /\ cooked) \/ loc[t].nr = 1 \/ rest = << >>
  IN  /\ current = t /\ loc[t].pc = "get"
      /\ IF secondary = << >>
         THEN /\ secondary' \in [1 .. Capacity -> {"c", "nl"}]
              /\ UNCHANGED data
         ELSE /\ secondary' = rest
              /\ data' = IF LineEnd(c) THEN data - 1 ELSE data
      /\ IF secondary # << >> /\ ended
         THEN Return(t)
         ELSE loc' = [loc EXCEPT ![t].nr = @ - 1] /\ UNCHANGED <<signal, current>>
      /\ UNCHANGED <<cooked, read_q, write_q, txi, proc_list, state>>

----------------------------------------------------------------------------
(* tty_write() and sleep_if_full(). *)
WriteTest(t) ==
  /\ current = t /\ loc[t].pc = "write"
  /\ \/ FULL(write_q) /\ Goto(t, "full") /\ UNCHANGED <<signal, current>>
     \/ ~FULL(write_q) /\ ~signal[t] /\ Goto(t, "copy") /\ UNCHANGED <<signal, current>>
     \/ ~FULL(write_q) /\ signal[t] /\ Return(t)
  /\ UNCHANGED <<queueVars, proc_list, state>>

sleep_if_full(t) ==
  /\ current = t /\ loc[t].pc = "full"
  /\ \/ signal[t] /\ Return(t) /\ UNCHANGED <<proc_list, state>>
     \/ ~signal[t] /\ LEFT(write_q) < Low /\ interruptible_sleep_on(t) /\ UNCHANGED signal
     \/ ~signal[t] /\ LEFT(write_q) >= Low /\ Goto(t, "copy")
        /\ UNCHANGED <<proc_list, state, signal, current>>
  /\ UNCHANGED queueVars

PutChar(t) ==
  /\ current = t /\ loc[t].pc = "copy"
  /\ \/ /\ loc[t].nr > 0 /\ ~FULL(write_q)
        /\ write_q' = write_q + 1
        /\ loc' = [loc EXCEPT ![t].nr = @ - 1]
     \/ /\ loc[t].nr = 0 \/ FULL(write_q)
        /\ Goto(t, "out")
        /\ UNCHANGED write_q
  /\ UNCHANGED <<cooked, read_q, secondary, data, txi, proc_list, state, signal, current>>

(* Mutant: rs_write() starts the transmitter only if the queue is full. *)
rs_write_full(n) == txi \/ FULL(n)

(* rs_write(): the transmit interrupt is enabled if there is something. *)
rs_write(n) == txi \/ n > 0

(* tty->write(); if not everything fitted, the others come first. *)
WriteOut(t) ==
  /\ current = t /\ loc[t].pc = "out"
  /\ txi' = rs_write(write_q)
  /\ \/ /\ loc[t].nr > 0
        /\ Goto(t, "write")
        /\ current' = NoTask
        /\ UNCHANGED signal
     \/ loc[t].nr = 0 /\ Return(t)
  /\ UNCHANGED <<cooked, read_q, secondary, data, write_q, proc_list, state>>

----------------------------------------------------------------------------
(* tty_ioctl(): TCSETS sets the mode, TCSETSF flushes read_q first, TCFLSH *)
(* flushes a queue.  flush() wakes nobody.                                 *)
tty_ioctl ==
  /\ current = NoTask /\ \E t \in Tasks : loc[t].pc = "user"
  /\ \/ \E m \in BOOLEAN, rq \in {read_q, << >>} :
          cooked' = m /\ read_q' = rq /\ UNCHANGED write_q
     \/ \E rq \in {read_q, << >>} : read_q' = rq /\ write_q' = 0 /\ UNCHANGED cooked
  /\ UNCHANGED <<secondary, data, txi, taskVars>>

Step(t) == ReadTest(t) \/ sleep_if_empty(t) \/ GetChar(t) \/ WriteTest(t)
           \/ sleep_if_full(t) \/ PutChar(t) \/ WriteOut(t) \/ WakeUp(t)

TtyNext ==
  \/ \E c \in Chars : read_char(c)
  \/ write_char
  \/ tty_ioctl
  \/ \E t \in Tasks : schedule(t) \/ Step(t)
  \/ \E t \in Readers, n \in Counts : StartCall(t, "read", n)
  \/ \E t \in Writers, n \in Counts : StartCall(t, "write", n)

TtySpec == TtyInit /\ [][TtyNext]_ttyVars

(* The line sends what is in its register; a task goes on; schedule() runs *)
(* everyone who can run (Scheduler).                                       *)
TtyFairSpec ==
  /\ TtySpec
  /\ WF_ttyVars(write_char)
  /\ WF_ttyVars(\E t \in Tasks : Step(t))
  /\ \A t \in Tasks : SF_ttyVars(schedule(t))

----------------------------------------------------------------------------
(* secondary.data is the number of finished lines in the queue, whatever   *)
(* interrupts edit while a reader takes characters.                        *)
LinesCounted ==
  data = Cardinality({i \in DOMAIN secondary : LineEnd(secondary[i])})

(* Characters in write_q are on their way: the transmit interrupt is on,   *)
(* or a writer is about to turn it on.                                     *)
TransmitOn ==
  write_q > 0 => txi \/ \E w \in Writers : loc[w].pc \in {"copy", "out"}

(* A reader runs round tty_read()'s loop with an unfinished line. *)
Spinning == \E r \in Readers : current = r /\ NoLine /\ secondary # << >>

(* A reader whose line is there gets it: no wake_up() is lost between the  *)
(* test of the queue and the sleep, or while the reader sleeps.            *)
ReaderServed ==
  \A r \in Readers : (loc[r].pc # "user" /\ data > 0) ~> loc[r].pc = "user"

(* Once no more characters come in, to be echoed, a writer that waits for  *)
(* room is woken in time and ends, unless a reader keeps the processor.    *)
WriterServed ==
  <>[][\A c \in Chars : ~read_char(c)]_ttyVars =>
    \A w \in Writers : (loc[w].pc # "user") ~> (loc[w].pc = "user" \/ Spinning)
=============================================================================
