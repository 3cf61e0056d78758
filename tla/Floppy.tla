------------------------------- MODULE Floppy -------------------------------
(***************************************************************************)
(* The floppy driver, kernel/blk_drv/floppy.c, with the kernel timers and  *)
(* the motor control of kernel/sched.c it stands on.                       *)
(*                                                                         *)
(* The driver has no process of its own: do_fd_request() starts something, *)
(* and a timer or the controller's interrupt goes on.  fd holds its        *)
(* variables, do_floppy (the handler of the next interrupt), the digital   *)
(* output register current_DOR (the drive and the motors), mon_timer,      *)
(* moff_timer and the list of timers.  busy is the command the controller  *)
(* is working on, headAt where the heads really are; the driver has        *)
(* current_track only, for whatever drive it used last.                    *)
(*                                                                         *)
(* fn in a step is the whole handler.  dead says that the controller does  *)
(* not take the bytes of this step, so that output_byte() sets reset; it   *)
(* happens at most Timeouts times.                                         *)
(***************************************************************************)
EXTENDS Naturals, Sequences, FiniteSets

CONSTANTS Drives, Tracks,
          MAX_ERRORS,
          SpinUp,     \* HZ/2: ticks until a motor that was off can be used
          Settle,     \* 2 ticks after another drive is selected
          Keep, Off,  \* 10000 and 3*HZ: ticks until a motor is turned off
          MaxQueue,   \* requests waiting at most
          Timeouts,   \* times the controller does not answer, or interrupts unasked
          MaxOp,      \* ticks a command takes at most
          Races       \* which of "late" and "beyond" may happen

Unknown == 255      \* current_track before anything was sought
Beyond == 254       \* the track of a request past the end of the disk

ASSUME FloppyAssumption ==
  /\ 0 \in Tracks /\ Tracks \subseteq Nat \ {Unknown, Beyond} /\ Drives \subseteq Nat /\ Drives # {}
  /\ {MAX_ERRORS, SpinUp, Settle, Keep, Off, MaxQueue, Timeouts, MaxOp} \subseteq Nat
  /\ 0 < Settle /\ Settle <= SpinUp /\ Settle + 2 * MaxOp <= Off /\ Off < Keep
  /\ Races \subseteq {"late", "beyond"}

VARIABLES fd, headAt, busy, faults, changer

floppyVars == <<fd, headAt, busy, faults, changer>>

NoCommand == [op |-> "none", drive |-> 0, track |-> 0, age |-> 0]
Command(op, d, t) == [op |-> op, drive |-> d, track |-> t, age |-> 0]

FloppyInit ==
  /\ fd = [queue |-> << >>, reset |-> FALSE, recalibrate |-> FALSE, seek |-> FALSE,
           current_drive |-> 0, seek_track |-> 0, current_track |-> Unknown,
           selected |-> FALSE, do_floppy |-> "none", start |-> NoCommand,
           DOR |-> [drive |-> 0, motors |-> {}],
           mon_timer |-> [d \in Drives |-> 0], moff_timer |-> [d \in Drives |-> 0],
           timers |-> << >>]
  /\ headAt \in [Drives -> Tracks]
  /\ busy = NoCommand
  /\ faults = 0
  /\ changer = [pc |-> "idle", nr |-> 0]

----------------------------------------------------------------------------
(* Timers.  The list holds time differences; add_timer() does not reduce   *)
(* that of the timer it puts the new one in front of.                      *)
DueBefore(D, k) ==
  LET sum[i \in 0 .. k] == IF i = 0 THEN 0 ELSE sum[i - 1] + D.timers[i].jiffies
  IN  sum[k]

PlaceOf(D, j) ==
  CHOOSE k \in 0 .. Len(D.timers) :
    /\ \A i \in 1 .. k : D.timers[i].jiffies < j - DueBefore(D, i - 1)
    /\ k < Len(D.timers) => D.timers[k + 1].jiffies >= j - DueBefore(D, k)

add_timer(D, j, fn) ==
  LET at == PlaceOf(D, j)
      new == [jiffies |-> j - DueBefore(D, at), fn |-> fn]
  IN  [D EXCEPT !.timers = SubSeq(@, 1, at) \o <<new>> \o SubSeq(@, at + 1, Len(@))]

(* ticks_to_floppy_on(): the motor, and the drive unless one is selected.  *)
(* Its value is mon_timer.                                                 *)
ticks_to_floppy_on(D, nr) ==
  LET mask == [drive |-> IF D.selected THEN D.DOR.drive ELSE nr,
               motors |-> D.DOR.motors \cup {nr}]
      mon == IF mask = D.DOR THEN D.mon_timer[nr]
             ELSE IF mask.motors # D.DOR.motors THEN SpinUp
             ELSE IF D.mon_timer[nr] < Settle THEN Settle ELSE D.mon_timer[nr]
  IN  [D EXCEPT !.moff_timer[nr] = Keep, !.mon_timer[nr] = mon, !.DOR = mask]

floppy_deselect(D) == [D EXCEPT !.selected = FALSE]
end_request(D) == [D EXCEPT !.queue = Tail(@)]

----------------------------------------------------------------------------
(* What the driver starts.  D.start is the command it sends. *)
reset_floppy(D) ==
  [D EXCEPT !.reset = FALSE, !.recalibrate = TRUE, !.seek = FALSE,
            !.do_floppy = "reset", !.start = Command("reset", D.current_drive, 0)]

recalibrate_floppy(D, dead) ==
  LET E == [D EXCEPT !.recalibrate = FALSE, !.current_track = 0, !.do_floppy = "recal",
                     !.start = Command("recal", D.current_drive, 0)]
  IN  IF dead THEN reset_floppy(E) ELSE E

setup_rw_floppy(D, dead) ==
  IF dead THEN reset_floppy(D)
  ELSE [D EXCEPT !.do_floppy = "rw", !.start = Command("rw", D.current_drive, D.seek_track)]

transfer(D, dead) ==
  IF D.reset \/ dead THEN reset_floppy(D)
  ELSE IF ~D.seek THEN setup_rw_floppy(D, dead)
  ELSE [D EXCEPT !.do_floppy = "seek",
                 !.start = Command(IF D.seek_track = 0 THEN "recal" ELSE "seek",
                                   D.current_drive, D.seek_track)]

(* Mutant: the drive is not selected again after another one was used. *)
floppy_on_interrupt_trusts(D, dead) == transfer([D EXCEPT !.selected = TRUE], dead)

floppy_on_interrupt(D, dead) ==
  LET E == [D EXCEPT !.selected = TRUE, !.DOR.drive = D.current_drive]
  IN  IF D.current_drive # D.DOR.drive
      THEN add_timer(E, Settle, "transfer")
      ELSE transfer(E, dead)

(* Mutant: the heads are taken to be where the last drive's were. *)
NeedsSeek_track(D, r) == r.track # D.current_track

NeedsSeek(D, r) == r.drive # D.current_drive \/ r.track # D.current_track

(* Requests past the end of the disk are ended at once; current_drive is   *)
(* theirs all the same.                                                    *)
InRange(D) ==
  LET good == {i \in DOMAIN D.queue : D.queue[i].track # Beyond}
      skip == IF good = {} THEN Len(D.queue)
              ELSE (CHOOSE i \in good : \A j \in good : i <= j) - 1
      last == IF skip = 0 THEN D.current_drive ELSE D.queue[skip].drive
  IN  [D EXCEPT !.queue = SubSeq(@, skip + 1, Len(@)), !.current_drive = last,
                !.seek = (\E i \in 1 .. skip : D.queue[i].drive # D.current_drive)]

do_fd_request(D, dead) ==
  LET E == InRange(D)
      r == Head(E.queue)
      F == [E EXCEPT !.seek = @ \/ NeedsSeek(E, r), !.current_drive = r.drive,
                     !.seek_track = r.track]
      G == ticks_to_floppy_on(F, r.drive)
  IN  IF D.reset THEN reset_floppy(D)
      ELSE IF D.recalibrate THEN recalibrate_floppy([D EXCEPT !.seek = FALSE], dead)
      ELSE IF E.queue = << >> THEN E
      ELSE IF G.mon_timer[r.drive] = 0 THEN floppy_on_interrupt(G, dead)
      ELSE add_timer(G, G.mon_timer[r.drive], "on")

GiveUp(D) == end_request(floppy_deselect(D))

(* bad_flp_intr(): after the last try it looks at the errors of the next   *)
(* request, or, without one, at page 0, which says "many".                 *)
bad_flp_intr(D) ==
  LET E == [D EXCEPT !.queue[1].errors = @ + 1]
      F == IF E.queue[1].errors > MAX_ERRORS THEN GiveUp(E) ELSE E
      many == F.queue = << >> \/ F.queue[1].errors > MAX_ERRORS \div 2
  IN  IF many THEN [F EXCEPT !.reset = TRUE] ELSE [F EXCEPT !.recalibrate = TRUE]

----------------------------------------------------------------------------
(* A step of the driver gives D; the command it starts, if any, is run.    *)
Becomes(D, dead) ==
  /\ fd' = [D EXCEPT !.start = NoCommand]
  /\ busy' = IF D.start = NoCommand THEN busy ELSE D.start
  /\ faults' = IF dead THEN faults + 1 ELSE faults
  /\ changer' = IF changer.pc = "selecting" /\ ~D.selected
                THEN [changer EXCEPT !.pc = "select"] ELSE changer

MayFail(dead) == dead => faults < Timeouts

(* Mutant: the driver is started for every request. *)
StartsDriver_always(q) == TRUE

(* add_request() starts the driver if its queue was empty. *)
StartsDriver(q) == q = << >>

(* A buffer is to be read or written; the driver may still be busy with    *)
(* the end of the last request: that is left out unless Races says "late".  *)
NewRequest(d, t, dead) ==
  LET r == [drive |-> d, track |-> t, errors |-> 0]
      D == [fd EXCEPT !.queue = Append(@, r)]
  IN  /\ Len(fd.queue) < MaxQueue /\ MayFail(dead)
      /\ t # Beyond \/ "beyond" \in Races
      /\ \/ ~StartsDriver(fd.queue) /\ ~dead /\ Becomes(D, FALSE)
         \/ /\ StartsDriver(fd.queue)
            /\ "late" \in Races \/ busy = NoCommand
            /\ Becomes(do_fd_request(D, dead), dead)
      /\ UNCHANGED headAt

(* do_timer(): timers that are due run, then the motors' counters go on.   *)
do_floppy_timer(D) ==
  LET on == D.DOR.motors
      expired == {d \in on : D.mon_timer[d] = 0 /\ D.moff_timer[d] = 0}
  IN  [D EXCEPT
        !.mon_timer = [d \in Drives |->
           IF d \in on /\ @[d] > 0 THEN @[d] - 1 ELSE @[d]],
        !.moff_timer = [d \in Drives |->
           IF d \in on /\ D.mon_timer[d] = 0 /\ @[d] > 0 THEN @[d] - 1 ELSE @[d]],
        !.DOR.motors = on \ expired]

RunTimer(D, fn, dead) ==
  IF fn = "on" THEN floppy_on_interrupt(D, dead) ELSE transfer(D, dead)

do_timer(dead) ==
  LET due == fd.timers # << >> /\ Head(fd.timers).jiffies = 1
      D == IF due
           THEN RunTimer([fd EXCEPT !.timers = Tail(@)], Head(fd.timers).fn, dead)
           ELSE IF fd.timers = << >> THEN fd
           ELSE [fd EXCEPT !.timers[1].jiffies = @ - 1]
      E == do_floppy_timer(D)
      woken == changer.pc = "motor" /\ fd.mon_timer[changer.nr] = 1
               /\ changer.nr \in fd.DOR.motors
  IN  /\ MayFail(dead) /\ (dead => due)
      /\ busy.op # "none" => busy.age < MaxOp
      /\ fd' = [E EXCEPT !.start = NoCommand]
      /\ busy' = IF E.start # NoCommand THEN E.start
                 ELSE IF busy = NoCommand THEN busy ELSE [busy EXCEPT !.age = @ + 1]
      /\ faults' = IF dead THEN faults + 1 ELSE faults
      /\ changer' = IF woken THEN [changer EXCEPT !.pc = "on"] ELSE changer
      /\ UNCHANGED headAt

----------------------------------------------------------------------------
(* The controller is done with its command: floppy_interrupt calls the     *)
(* handler in do_floppy.  ok: the command succeeded.  A transfer from the  *)
(* wrong track never does.                                                 *)
Moved == IF busy.op \in {"seek", "recal"} THEN [headAt EXCEPT ![busy.drive] = busy.track]
         ELSE headAt

rw_interrupt(D, ok, dead) ==
  do_fd_request(IF ok THEN end_request(floppy_deselect(D)) ELSE bad_flp_intr(D), dead)

seek_interrupt(D, ok, dead) ==
  IF ok THEN setup_rw_floppy([D EXCEPT !.current_track = D.seek_track], dead)
        ELSE do_fd_request(bad_flp_intr(D), dead)

recal_interrupt(D, ok, dead) ==
  do_fd_request([D EXCEPT !.reset = @ \/ ~ok, !.recalibrate = @ /\ ~ok], dead)

reset_interrupt(D, dead) == do_fd_request([D EXCEPT !.reset = dead], dead)

(* What unexpected_floppy_interrupt() notes for later. *)
Surprised(D, ok) == [D EXCEPT !.reset = @ \/ ~ok, !.recalibrate = @ \/ ok]

Handled(D, ok, dead) ==
  CASE fd.do_floppy = "rw"    -> rw_interrupt(D, ok, dead)
    [] fd.do_floppy = "seek"  -> seek_interrupt(D, ok, dead)
    [] fd.do_floppy = "recal" -> recal_interrupt(D, ok, dead)
    [] fd.do_floppy = "reset" -> reset_interrupt(D, dead)
    [] fd.do_floppy = "none"  -> Surprised(D, ok)

floppy_interrupt(ok, dead) ==
  LET D == Handled([fd EXCEPT !.do_floppy = "none"], ok, dead)
      bad == fd.do_floppy = "recal" /\ ~ok
  IN  /\ busy # NoCommand /\ MayFail(dead)
      /\ bad => faults < Timeouts
      /\ ok /\ busy.op = "rw" => headAt[busy.drive] = busy.track
      /\ headAt' = IF ok THEN Moved ELSE headAt
      /\ fd' = [D EXCEPT !.start = NoCommand]
      /\ busy' = D.start
      /\ faults' = IF dead \/ bad THEN faults + 1 ELSE faults
      /\ changer' = IF changer.pc = "selecting" /\ ~D.selected
                    THEN [changer EXCEPT !.pc = "select"] ELSE changer

(* A write-protected disk: the request ends without another try. *)
WriteProtected(dead) ==
  LET D == do_fd_request(end_request(floppy_deselect([fd EXCEPT !.do_floppy = "none"])), dead)
  IN  /\ busy.op = "rw" /\ fd.do_floppy = "rw" /\ MayFail(dead)
      /\ fd' = [D EXCEPT !.start = NoCommand]
      /\ busy' = D.start
      /\ faults' = IF dead THEN faults + 1 ELSE faults
      /\ changer' = IF changer.pc = "selecting" THEN [changer EXCEPT !.pc = "select"] ELSE changer
      /\ UNCHANGED headAt

(* An interrupt nobody waits for. *)
unexpected_floppy_interrupt(ok) ==
  /\ busy = NoCommand /\ fd.do_floppy = "none" /\ faults < Timeouts
  /\ fd' = Surprised(fd, ok)
  /\ faults' = faults + 1
  /\ UNCHANGED <<headAt, busy, changer>>

----------------------------------------------------------------------------
(* floppy_change(), by a process that opens or mounts a floppy. *)
ChangeStart(nr) ==
  /\ changer.pc = "idle"
  /\ changer' = [pc |-> "on", nr |-> nr]
  /\ UNCHANGED <<fd, headAt, busy, faults>>

(* floppy_on(): sleeps until the motor is up to speed. *)
ChangeOn ==
  LET D == ticks_to_floppy_on(fd, changer.nr)
  IN  /\ changer.pc = "on"
      /\ fd' = D
      /\ changer' = [changer EXCEPT !.pc = IF D.mon_timer[changer.nr] = 0
                                           THEN "select" ELSE "motor"]
      /\ UNCHANGED <<headAt, busy, faults>>

(* The drive may be another one by now: wait until it is released, and     *)
(* begin again.  Else look at the change line, and floppy_off().           *)
ChangeSelect ==
  LET other == fd.DOR.drive # changer.nr
  IN  /\ changer.pc = "select"
      /\ \/ other /\ fd.selected /\ changer' = [changer EXCEPT !.pc = "selecting"] /\ UNCHANGED fd
         \/ other /\ ~fd.selected /\ changer' = [changer EXCEPT !.pc = "on"] /\ UNCHANGED fd
         \/ /\ ~other
            /\ changer' = [pc |-> "idle", nr |-> 0]
            /\ fd' = [fd EXCEPT !.moff_timer[changer.nr] = Off]
      /\ UNCHANGED <<headAt, busy, faults>>

----------------------------------------------------------------------------
FloppyNext ==
  \/ \E dead \in BOOLEAN :
       \/ \E d \in Drives, t \in Tracks \cup {Beyond} : NewRequest(d, t, dead)
       \/ do_timer(dead)
       \/ \E ok \in BOOLEAN : floppy_interrupt(ok, dead)
       \/ WriteProtected(dead)
  \/ \E ok \in BOOLEAN : unexpected_floppy_interrupt(ok)
  \/ \E nr \in Drives : ChangeStart(nr)
  \/ ChangeOn \/ ChangeSelect

FloppySpec == FloppyInit /\ [][FloppyNext]_floppyVars

----------------------------------------------------------------------------
(* The driver does one thing at a time: it waits for one timer, or for the *)
(* controller, never for both, and while there are requests never for      *)
(* neither.  With one timer in the list, add_timer()'s mistake with the    *)
(* differences cannot be seen.  A drive is selected for a request only, so *)
(* that floppy_change() does not wait for one nobody will release.         *)
OneThing ==
  /\ Len(fd.timers) <= 1
  /\ fd.timers # << >> => busy = NoCommand
  /\ (busy # NoCommand) = (fd.do_floppy # "none")
  /\ fd.queue # << >> => fd.timers # << >> \/ busy # NoCommand
  /\ fd.selected => fd.queue # << >>

(* Data is transferred from the drive of the request, which is selected    *)
(* and turns at full speed, whatever floppy_change() did to the motors and *)
(* to current_DOR meanwhile.  What may be left in mon_timer is a part of   *)
(* the settle time: floppy_change() of another drive and then of this one, *)
(* between the request's ticks_to_floppy_on() and its timer, selects the   *)
(* drive anew and sets mon_timer to 2, but the request's timer stays.      *)
TransferReady ==
  busy.op = "rw" =>
    /\ fd.queue # << >> /\ busy.drive = Head(fd.queue).drive /\ busy.track = Head(fd.queue).track
    /\ fd.selected /\ fd.DOR.drive = busy.drive
    /\ busy.drive \in fd.DOR.motors /\ fd.mon_timer[busy.drive] < Settle

(* The heads are where the driver believes them to be when it reads or     *)
(* writes without a seek.                                                  *)
HeadsKnown == busy.op = "rw" => headAt[busy.drive] = busy.track

=============================================================================
