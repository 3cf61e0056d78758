---------------------------- MODULE DeviceProofs ----------------------------
(***************************************************************************)
(* The floppy driver, for any number of drives and tracks, any lengths of  *)
(* its delays and any faults of the controller; and the terminal, for any  *)
(* size of its queues, any line and any number of readers and writers.     *)
(***************************************************************************)
EXTENDS Floppy, Tty, OrderTheorems

(* What the driver's variables hold. *)
Commands == [op : {"none", "reset", "recal", "seek", "rw"}, drive : Nat,
             track : Nat, age : Nat]
Requests == [drive : Drives, track : Tracks, errors : Nat]
Timers == [jiffies : Nat, fn : {"on", "transfer"}]
FdType ==
  [queue : Seq(Requests), reset : BOOLEAN, recalibrate : BOOLEAN, seek : BOOLEAN,
   current_drive : Nat, seek_track : Nat, current_track : Nat, selected : BOOLEAN,
   do_floppy : {"none", "reset", "recal", "seek", "rw"}, start : Commands,
   DOR : [drive : Nat, motors : SUBSET Drives],
   mon_timer : [Drives -> Nat], moff_timer : [Drives -> Nat],
   timers : Seq(Timers)]

LEMMA NothingBefore == ASSUME NEW D PROVE DueBefore(D, 0) = 0
<1> DEFINE IsSum(f) == f = [i \in 0 .. 0 |-> IF i = 0 THEN 0 ELSE f[i - 1] + D.timers[i].jiffies]
           sum == CHOOSE f : IsSum(f)
<1>1. IsSum([i \in 0 .. 0 |-> 0])
  <2>1. \A i \in 0 .. 0 : i = 0
    OBVIOUS
  <2> QED
    BY <2>1
<1>2. IsSum(sum)
  BY <1>1
<1>3. sum[0] = 0
  <2> HIDE DEF sum
  <2>1. 0 \in 0 .. 0
    OBVIOUS
  <2> QED
    BY <1>2, <2>1
<1> QED
  BY <1>3 DEF DueBefore

LEMMA FirstTimer ==
  ASSUME NEW D, D.timers = << >>, NEW j \in Nat, NEW fn
  PROVE  add_timer(D, j, fn) = [D EXCEPT !.timers = <<[jiffies |-> j, fn |-> fn]>>]
<1>1. PlaceOf(D, j) = 0
  <2>1. Len(D.timers) = 0 /\ 0 .. 0 = {0} /\ \A i \in 1 .. 0 : FALSE
    OBVIOUS
  <2> QED
    BY <2>1 DEF PlaceOf
<1>2. SubSeq(D.timers, 1, 0) = << >> /\ SubSeq(D.timers, 0 + 1, Len(D.timers)) = << >>
  OBVIOUS
<1>3. j - 0 = j
  OBVIOUS
<1>4. DueBefore(D, 0) = 0
  BY NothingBefore
<1> HIDE DEF DueBefore
<1> DEFINE new == [jiffies |-> j, fn |-> fn]
<1>5. << >> \o <<new>> \o << >> = <<new>>
  <2> HIDE DEF new
  <2> QED
    OBVIOUS
<1> QED
  BY <1>1, <1>2, <1>3, <1>4, <1>5 DEF add_timer

----------------------------------------------------------------------------
(* The invariant.  It is a predicate of the driver's variables D, of the   *)
(* heads h and of the command c under way, since a handler changes them in *)
(* several steps.  k is 1 in the middle of do_timer(), when the motors'    *)
(* counters have one more tick to run, and 0 otherwise.                    *)

(* The drive and the track that will be used are those of the request.     *)
Aimed(D) ==
  /\ D.queue # << >>
  /\ D.current_drive = Head(D.queue).drive /\ D.seek_track = Head(D.queue).track

(* A drive is selected for the request that is being tried.                *)
SelectedFor(D) ==
  D.selected => /\ D.queue # << >> /\ D.current_drive = Head(D.queue).drive
                /\ D.DOR.drive = D.current_drive

(* current_track says where the heads of current_drive are.                *)
Believed(D, h) ==
  D.current_track # Unknown /\ D.current_drive \in Drives =>
    h[D.current_drive] = D.current_track

OnTrack(D, h) == D.current_track = D.seek_track /\ h[D.current_drive] = D.current_track

(* The motor is not turned off within n ticks.                             *)
Lasts(D, n, k) ==
  \/ D.moff_timer[D.current_drive] >= n + k
  \/ k = 1 /\ D.mon_timer[D.current_drive] >= 1 /\ D.moff_timer[D.current_drive] >= n

Turning(D) == D.current_drive \in D.DOR.motors

(* Nothing but a part of the settle time is left.                          *)
Ready(D, k) ==
  /\ D.selected /\ D.DOR.drive = D.current_drive /\ Turning(D)
  /\ D.mon_timer[D.current_drive] < Settle + k

(* The timer "on" does not run out before the motor is up to speed; after  *)
(* "transfer" there is time for a seek and a transfer.                     *)
TimerOK(D, k) ==
  LET j == Head(D.timers).jiffies
      m == D.mon_timer[D.current_drive]
  IN  /\ j >= 1 /\ Turning(D)
      /\ \/ /\ Head(D.timers).fn = "on"
            /\ m >= j + k /\ (m <= j + k \/ m <= Settle)
            /\ D.moff_timer[D.current_drive] >= Off
         \/ /\ Head(D.timers).fn = "transfer" /\ j <= Settle
            /\ Ready(D, k) /\ Lasts(D, 2 * MaxOp + j, k)

Waiting(D, h, k) ==
  /\ Len(D.timers) = 1 /\ D.do_floppy = "none"
  /\ Aimed(D) /\ (D.seek \/ OnTrack(D, h)) /\ TimerOK(D, k)

Transferring(D, h, c, k) ==
  /\ D.do_floppy = "rw" /\ c.op = "rw" /\ c.drive = D.current_drive /\ c.track = D.seek_track
  /\ Aimed(D) /\ OnTrack(D, h) /\ Ready(D, k) /\ Lasts(D, MaxOp - c.age, k)

Seeking(D, c, k) ==
  /\ D.do_floppy = "seek" /\ c.op \in {"seek", "recal"}
  /\ c.drive = D.current_drive /\ c.track = D.seek_track
  /\ Aimed(D) /\ Ready(D, k) /\ Lasts(D, 2 * MaxOp - c.age, k)

Recalibrating(D, c) ==
  /\ D.do_floppy = "recal" /\ c.op = "recal" /\ c.drive = D.current_drive
  /\ c.track = 0 /\ D.current_track = 0

Resetting(D, c) == D.do_floppy = "reset" /\ c.op = "reset" /\ D.recalibrate

Working(D, h, c, k) ==
  Transferring(D, h, c, k) \/ Seeking(D, c, k) \/ Recalibrating(D, c) \/ Resetting(D, c)

(* Nothing to do: the heads are known, or will be looked for first.        *)
Resting(D, h) ==
  /\ D.do_floppy = "none" /\ D.queue = << >>
  /\ D.reset \/ D.recalibrate \/ Believed(D, h)

DriverOK(D, h, c, k) ==
  /\ SelectedFor(D)
  /\ \/ c = NoCommand /\ Waiting(D, h, k)
     \/ c = NoCommand /\ D.timers = << >> /\ Resting(D, h)
     \/ D.timers = << >> /\ c.op # "none" /\ Working(D, h, c, k)

ChangerType ==
  changer \in [pc : {"idle", "on", "motor", "select", "selecting"}, nr : Nat]
  /\ (changer.pc # "idle" => changer.nr \in Drives)

FloppyTypeOK ==
  /\ fd \in FdType /\ fd.start = NoCommand
  /\ headAt \in [Drives -> Tracks]
  /\ busy \in Commands /\ busy.age <= MaxOp /\ (busy.op = "none" => busy = NoCommand)
  /\ ChangerType

FloppyIInv == FloppyTypeOK /\ DriverOK(fd, headAt, busy, 0)

----------------------------------------------------------------------------
(* What the operators of the driver do. *)
LEMMA FdFacts ==
  ASSUME NEW D \in FdType
  PROVE  /\ D.queue \in Seq(Requests) /\ D.reset \in BOOLEAN /\ D.recalibrate \in BOOLEAN
         /\ D.seek \in BOOLEAN /\ D.selected \in BOOLEAN
         /\ D.current_drive \in Nat /\ D.seek_track \in Nat /\ D.current_track \in Nat
         /\ D.DOR.drive \in Nat /\ D.DOR.motors \subseteq Drives
         /\ D.mon_timer \in [Drives -> Nat] /\ D.moff_timer \in [Drives -> Nat]
         /\ D.timers \in Seq(Timers)
         /\ D.start \in Commands
BY DEF FdType

LEMMA HeadFacts ==
  ASSUME NEW D \in FdType, D.queue # << >>
  PROVE  /\ Head(D.queue) \in Requests /\ Head(D.queue) = D.queue[1]
         /\ Head(D.queue).drive \in Drives /\ Head(D.queue).track \in Tracks
         /\ Head(D.queue).errors \in Nat
         /\ Head(D.queue).track # Beyond /\ Head(D.queue).track # Unknown
         /\ Head(D.queue).track \in Nat /\ Head(D.queue).drive \in Nat
<1>1. D.queue \in Seq(Requests)
  BY FdFacts
<1>2. Head(D.queue) \in Requests /\ Head(D.queue) = D.queue[1]
  BY <1>1
<1> QED
  BY <1>2, FloppyAssumption DEF Requests

LEMMA Numbers ==
  /\ MAX_ERRORS \in Nat /\ SpinUp \in Nat /\ Settle \in Nat /\ Keep \in Nat /\ Off \in Nat
  /\ MaxQueue \in Nat /\ Timeouts \in Nat /\ MaxOp \in Nat /\ 2 * MaxOp \in Nat
  /\ 0 < Settle /\ Settle <= SpinUp /\ Settle + 2 * MaxOp <= Off /\ Off < Keep
  /\ \A t \in Tracks : t \in Nat /\ t # Unknown /\ t # Beyond
  /\ \A d \in Drives : d \in Nat
  /\ 0 \in Tracks
BY FloppyAssumption

(* A result D of a handler: a command was sent, or it waits, or it rests.  *)
Outcome(D, h, k) ==
  D \in FdType /\ D.start.age = 0 /\ (D.start.op = "none" => D.start = NoCommand)
  /\ DriverOK(D, h, D.start, k)

(* Nothing is under way. *)
Free(D) == D.timers = << >> /\ D.do_floppy = "none" /\ D.start = NoCommand

LEMMA CommandFacts ==
  ASSUME NEW op \in {"reset", "recal", "seek", "rw"}, NEW d \in Nat, NEW t \in Nat
  PROVE  /\ Command(op, d, t) \in Commands /\ Command(op, d, t).op = op
         /\ Command(op, d, t).drive = d /\ Command(op, d, t).track = t
         /\ Command(op, d, t).age = 0 /\ Command(op, d, t) # NoCommand
BY DEF Command, Commands, NoCommand

LEMMA reset_floppyOK ==
  ASSUME NEW D \in FdType, NEW h, NEW k, D.timers = << >>, SelectedFor(D)
  PROVE  Outcome(reset_floppy(D), h, k)
<1> DEFINE c == Command("reset", D.current_drive, 0)
           R == reset_floppy(D)
<1>1. D.current_drive \in Nat /\ 0 \in Nat
  BY FdFacts
<1>2. c \in Commands /\ c.op = "reset" /\ c.age = 0
  BY <1>1, CommandFacts
<1> HIDE DEF c
<1>3. R = [D EXCEPT !.reset = FALSE, !.recalibrate = TRUE, !.seek = FALSE,
                    !.do_floppy = "reset", !.start = c]
  BY DEF reset_floppy, c
<1>4. R \in FdType
  BY <1>2, <1>3 DEF FdType
<1>5. /\ R.queue = D.queue /\ R.selected = D.selected /\ R.current_drive = D.current_drive
      /\ R.DOR = D.DOR /\ R.timers = D.timers /\ R.do_floppy = "reset" /\ R.recalibrate
      /\ R.start = c
  BY <1>3 DEF FdType
<1> HIDE DEF R
<1>6. SelectedFor(R)
  BY <1>5 DEF SelectedFor
<1>7. Resetting(R, c)
  BY <1>2, <1>5 DEF Resetting
<1>8. DriverOK(R, h, c, k)
  BY <1>2, <1>5, <1>6, <1>7 DEF DriverOK, Working
<1>9. Outcome(R, h, k)
  BY <1>2, <1>4, <1>5, <1>8 DEF Outcome
<1> QED
  BY <1>9 DEF R

LEMMA recalibrate_floppyOK ==
  ASSUME NEW D \in FdType, NEW h, NEW k, NEW dead \in BOOLEAN, D.timers = << >>, SelectedFor(D)
  PROVE  Outcome(recalibrate_floppy(D, dead), h, k)
<1> DEFINE c == Command("recal", D.current_drive, 0)
           R == [D EXCEPT !.recalibrate = FALSE, !.current_track = 0, !.do_floppy = "recal",
                          !.start = c]
<1>1. D.current_drive \in Nat /\ 0 \in Nat
  BY FdFacts
<1>2. c \in Commands /\ c.op = "recal" /\ c.age = 0 /\ c.drive = D.current_drive /\ c.track = 0
  BY <1>1, CommandFacts
<1>3. recalibrate_floppy(D, dead) = IF dead THEN reset_floppy(R) ELSE R
  BY DEF recalibrate_floppy
<1> HIDE DEF c
<1>4. R \in FdType
  BY <1>2 DEF FdType
<1>5. /\ R.queue = D.queue /\ R.selected = D.selected /\ R.current_drive = D.current_drive
      /\ R.DOR = D.DOR /\ R.timers = D.timers /\ R.do_floppy = "recal"
      /\ R.current_track = 0 /\ R.start = c
  BY DEF FdType
<1> HIDE DEF R
<1>6. SelectedFor(R)
  BY <1>5 DEF SelectedFor
<1>7. Recalibrating(R, c)
  BY <1>2, <1>5 DEF Recalibrating
<1>8. DriverOK(R, h, c, k)
  BY <1>2, <1>5, <1>6, <1>7 DEF DriverOK, Working
<1>9. Outcome(R, h, k)
  BY <1>2, <1>4, <1>5, <1>8 DEF Outcome
<1>10. Outcome(reset_floppy(R), h, k)
  BY <1>4, <1>5, <1>6, reset_floppyOK
<1> QED
  BY <1>3, <1>9, <1>10

LEMMA setup_rw_floppyOK ==
  ASSUME NEW D \in FdType, NEW h, NEW k, NEW dead \in BOOLEAN, D.timers = << >>, SelectedFor(D),
         Aimed(D), OnTrack(D, h), Ready(D, k), Lasts(D, MaxOp, k)
  PROVE  Outcome(setup_rw_floppy(D, dead), h, k)
<1> DEFINE c == Command("rw", D.current_drive, D.seek_track)
           R == [D EXCEPT !.do_floppy = "rw", !.start = c]
<1>1. D.current_drive \in Nat /\ D.seek_track \in Nat
  BY FdFacts
<1>2. /\ c \in Commands /\ c.op = "rw" /\ c.age = 0
      /\ c.drive = D.current_drive /\ c.track = D.seek_track
  BY <1>1, CommandFacts
<1>3. setup_rw_floppy(D, dead) = IF dead THEN reset_floppy(D) ELSE R
  BY DEF setup_rw_floppy
<1> HIDE DEF c
<1>4. R \in FdType
  BY <1>2 DEF FdType
<1>5. /\ R.queue = D.queue /\ R.selected = D.selected /\ R.current_drive = D.current_drive
      /\ R.DOR = D.DOR /\ R.timers = D.timers /\ R.do_floppy = "rw"
      /\ R.current_track = D.current_track /\ R.seek_track = D.seek_track
      /\ R.mon_timer = D.mon_timer /\ R.moff_timer = D.moff_timer /\ R.start = c
  BY DEF FdType
<1> HIDE DEF R
<1>6. SelectedFor(R) /\ Aimed(R) /\ OnTrack(R, h) /\ Ready(R, k)
  BY <1>5 DEF SelectedFor, Aimed, OnTrack, Ready, Turning
<1>7. Lasts(R, MaxOp - c.age, k)
  <2>1. MaxOp - c.age = MaxOp
    BY <1>2, Numbers
  <2> QED
    BY <1>5, <2>1 DEF Lasts
<1>8. Transferring(R, h, c, k)
  BY <1>2, <1>5, <1>6, <1>7 DEF Transferring
<1>9. DriverOK(R, h, c, k)
  BY <1>2, <1>5, <1>6, <1>8 DEF DriverOK, Working
<1>10. Outcome(R, h, k)
  BY <1>2, <1>4, <1>5, <1>9 DEF Outcome
<1>11. Outcome(reset_floppy(D), h, k)
  BY reset_floppyOK
<1> QED
  BY <1>3, <1>10, <1>11

LEMMA transferOK ==
  ASSUME NEW D \in FdType, NEW h, NEW k \in {0, 1}, NEW dead \in BOOLEAN, D.timers = << >>,
         SelectedFor(D), Aimed(D), D.seek \/ OnTrack(D, h), Ready(D, k), Lasts(D, 2 * MaxOp, k)
  PROVE  Outcome(transfer(D, dead), h, k)
<1> DEFINE op == IF D.seek_track = 0 THEN "recal" ELSE "seek"
           c == Command(op, D.current_drive, D.seek_track)
           R == [D EXCEPT !.do_floppy = "seek", !.start = c]
<1>1. D.current_drive \in Nat /\ D.seek_track \in Nat
  BY FdFacts
<1>2. /\ c \in Commands /\ c.op \in {"recal", "seek"} /\ c.age = 0
      /\ c.drive = D.current_drive /\ c.track = D.seek_track
  BY <1>1, CommandFacts
<1>3. transfer(D, dead) = IF D.reset \/ dead THEN reset_floppy(D)
                          ELSE IF ~D.seek THEN setup_rw_floppy(D, dead) ELSE R
  BY DEF transfer
<1> HIDE DEF c
<1>4. R \in FdType
  BY <1>2 DEF FdType
<1>5. /\ R.queue = D.queue /\ R.selected = D.selected /\ R.current_drive = D.current_drive
      /\ R.DOR = D.DOR /\ R.timers = D.timers /\ R.do_floppy = "seek"
      /\ R.current_track = D.current_track /\ R.seek_track = D.seek_track
      /\ R.mon_timer = D.mon_timer /\ R.moff_timer = D.moff_timer /\ R.start = c
  BY DEF FdType
<1> HIDE DEF R
<1>6. SelectedFor(R) /\ Aimed(R) /\ Ready(R, k)
  BY <1>5 DEF SelectedFor, Aimed, Ready, Turning
<1>7. Lasts(R, 2 * MaxOp - c.age, k)
  <2>1. 2 * MaxOp - c.age = 2 * MaxOp
    BY <1>2, Numbers
  <2> QED
    BY <1>5, <2>1 DEF Lasts
<1>8. Seeking(R, c, k)
  BY <1>2, <1>5, <1>6, <1>7 DEF Seeking
<1>9. DriverOK(R, h, c, k)
  BY <1>2, <1>5, <1>6, <1>8 DEF DriverOK, Working
<1>10. Outcome(R, h, k)
  BY <1>2, <1>4, <1>5, <1>9 DEF Outcome
<1>11. Outcome(reset_floppy(D), h, k)
  BY reset_floppyOK
<1>12. Lasts(D, MaxOp, k)
  <2>1. D.current_drive \in Drives
    BY HeadFacts DEF Aimed
  <2>2. D.moff_timer[D.current_drive] \in Nat
    BY <2>1, FdFacts
  <2> QED
    BY <2>2, Numbers DEF Lasts
<1>13. ~D.seek => Outcome(setup_rw_floppy(D, dead), h, k)
  BY <1>12, setup_rw_floppyOK
<1> QED
  BY <1>3, <1>10, <1>11, <1>13

LEMMA floppy_on_interruptOK ==
  ASSUME NEW D \in FdType, NEW h, NEW k \in {0, 1}, NEW dead \in BOOLEAN, Free(D),
         SelectedFor(D), Aimed(D), D.seek \/ OnTrack(D, h), Turning(D),
         D.mon_timer[D.current_drive] < Settle + k, Lasts(D, Off, k)
  PROVE  Outcome(floppy_on_interrupt(D, dead), h, k)
<1> DEFINE E == [D EXCEPT !.selected = TRUE, !.DOR.drive = D.current_drive]
           new == [jiffies |-> Settle, fn |-> "transfer"]
           R == [E EXCEPT !.timers = <<new>>]
<1>1. D.current_drive \in Drives
  BY HeadFacts DEF Aimed
<1>2. E \in FdType
  BY FdFacts DEF FdType
<1>3. /\ E.queue = D.queue /\ E.selected /\ E.current_drive = D.current_drive
      /\ E.DOR.drive = D.current_drive /\ E.DOR.motors = D.DOR.motors
      /\ E.timers = D.timers /\ E.do_floppy = D.do_floppy /\ E.start = D.start
      /\ E.current_track = D.current_track /\ E.seek_track = D.seek_track
      /\ E.mon_timer = D.mon_timer /\ E.moff_timer = D.moff_timer /\ E.seek = D.seek
  BY DEF FdType
<1>4. E.timers = << >>
  BY <1>3 DEF Free
<1>5. add_timer(E, Settle, "transfer") = R
  <2> HIDE DEF E
  <2> QED
    BY <1>4, FirstTimer, Numbers
<1>6. floppy_on_interrupt(D, dead) = IF D.current_drive # D.DOR.drive THEN R ELSE transfer(E, dead)
  BY <1>5 DEF floppy_on_interrupt
<1> HIDE DEF E
<1>7. R \in FdType
  <2>1. new \in Timers
    BY Numbers DEF Timers
  <2> HIDE DEF new
  <2>2. <<new>> \in Seq(Timers)
    BY <2>1
  <2> QED
    BY <1>2, <2>2 DEF FdType
<1>8. /\ R.queue = E.queue /\ R.selected = E.selected /\ R.current_drive = E.current_drive
      /\ R.DOR = E.DOR /\ R.timers = <<new>> /\ R.do_floppy = E.do_floppy /\ R.start = E.start
      /\ R.current_track = E.current_track /\ R.seek_track = E.seek_track /\ R.seek = E.seek
      /\ R.mon_timer = E.mon_timer /\ R.moff_timer = E.moff_timer
  BY <1>2 DEF FdType
<1> HIDE DEF R
<1>9. SelectedFor(E) /\ Aimed(E) /\ (E.seek \/ OnTrack(E, h)) /\ Ready(E, k)
  BY <1>3 DEF SelectedFor, Aimed, OnTrack, Ready, Turning
<1>10. D.moff_timer[D.current_drive] \in Nat
  BY <1>1, FdFacts
<1>11. Lasts(E, 2 * MaxOp, k) /\ Lasts(E, 2 * MaxOp + Settle, k)
  <2>1. Lasts(D, 2 * MaxOp, k) /\ Lasts(D, 2 * MaxOp + Settle, k)
    BY <1>10, Numbers DEF Lasts
  <2> QED
    BY <1>3, <2>1 DEF Lasts
<1>12. Outcome(transfer(E, dead), h, k)
  BY <1>2, <1>4, <1>9, <1>11, transferOK
<1>13. Head(R.timers) = new /\ Len(R.timers) = 1
  <2> HIDE DEF new
  <2> QED
    BY <1>8
<1>14. SelectedFor(R) /\ Aimed(R) /\ (R.seek \/ OnTrack(R, h)) /\ Ready(R, k)
  BY <1>8, <1>9 DEF SelectedFor, Aimed, OnTrack, Ready, Turning
<1>15. Lasts(R, 2 * MaxOp + Settle, k)
  BY <1>8, <1>11 DEF Lasts
<1>16. TimerOK(R, k)
  <2>1. Settle >= 1
    BY Numbers
  <2> QED
    BY <1>13, <1>14, <1>15, <2>1, Numbers DEF TimerOK, Ready
<1>17. R.do_floppy = "none" /\ R.start = NoCommand
  BY <1>3, <1>8 DEF Free
<1>18. DriverOK(R, h, R.start, k)
  BY <1>13, <1>14, <1>16, <1>17 DEF DriverOK, Waiting
<1>19. Outcome(R, h, k)
  BY <1>7, <1>17, <1>18 DEF Outcome, NoCommand
<1> QED
  BY <1>6, <1>12, <1>19

LEMMA ticks_to_floppy_onDoes ==
  ASSUME NEW D \in FdType, NEW nr \in Drives
  PROVE  LET R == ticks_to_floppy_on(D, nr)
             same == (D.selected => D.DOR.drive = R.DOR.drive) /\ nr \in D.DOR.motors
         IN  /\ R \in FdType
             /\ R.queue = D.queue /\ R.selected = D.selected /\ R.current_drive = D.current_drive
             /\ R.timers = D.timers /\ R.do_floppy = D.do_floppy /\ R.start = D.start
             /\ R.current_track = D.current_track /\ R.seek_track = D.seek_track
             /\ R.seek = D.seek /\ R.reset = D.reset /\ R.recalibrate = D.recalibrate
             /\ R.DOR.drive = (IF D.selected THEN D.DOR.drive ELSE nr)
             /\ R.DOR.motors = D.DOR.motors \cup {nr}
             /\ R.moff_timer[nr] = Keep
             /\ \A d \in Drives \ {nr} : /\ R.moff_timer[d] = D.moff_timer[d]
                                         /\ R.mon_timer[d] = D.mon_timer[d]
             /\ nr \in D.DOR.motors =>
                  /\ R.mon_timer[nr] >= D.mon_timer[nr]
                  /\ R.mon_timer[nr] <= D.mon_timer[nr] \/ R.mon_timer[nr] <= Settle
                  /\ D.selected => R.mon_timer[nr] = D.mon_timer[nr]
<1> DEFINE mask == [drive |-> IF D.selected THEN D.DOR.drive ELSE nr,
                    motors |-> D.DOR.motors \cup {nr}]
           mon == IF mask = D.DOR THEN D.mon_timer[nr]
                  ELSE IF mask.motors # D.DOR.motors THEN SpinUp
                  ELSE IF D.mon_timer[nr] < Settle THEN Settle ELSE D.mon_timer[nr]
           R == [D EXCEPT !.moff_timer[nr] = Keep, !.mon_timer[nr] = mon, !.DOR = mask]
<1>1. ticks_to_floppy_on(D, nr) = R
  BY DEF ticks_to_floppy_on
<1>2. mask \in [drive : Nat, motors : SUBSET Drives] /\ D.mon_timer[nr] \in Nat
  BY FdFacts, Numbers
<1>3. mon \in Nat
  BY <1>2, Numbers
<1>4. mask.drive = (IF D.selected THEN D.DOR.drive ELSE nr) /\ mask.motors = D.DOR.motors \cup {nr}
  OBVIOUS
<1>5. nr \in D.DOR.motors =>
        /\ mon >= D.mon_timer[nr]
        /\ mon <= D.mon_timer[nr] \/ mon <= Settle
        /\ D.selected => mon = D.mon_timer[nr]
  <2> SUFFICES ASSUME nr \in D.DOR.motors
               PROVE  /\ mon >= D.mon_timer[nr]
                      /\ mon <= D.mon_timer[nr] \/ mon <= Settle
                      /\ D.selected => mon = D.mon_timer[nr]
    OBVIOUS
  <2>1. mask.motors = D.DOR.motors
    OBVIOUS
  <2>2. D.selected => mask = D.DOR
    <3>1. D.DOR \in [drive : Nat, motors : SUBSET Drives]
      BY DEF FdType
    <3> QED
      BY <2>1, <3>1
  <2> HIDE DEF mask
  <2> QED
    BY <1>2, <2>1, <2>2, Numbers
<1> HIDE DEF mask, mon
<1>6. R \in FdType
  BY <1>2, <1>3, FdFacts, Numbers DEF FdType
<1>7. /\ R.queue = D.queue /\ R.selected = D.selected /\ R.current_drive = D.current_drive
      /\ R.timers = D.timers /\ R.do_floppy = D.do_floppy /\ R.start = D.start
      /\ R.current_track = D.current_track /\ R.seek_track = D.seek_track
      /\ R.seek = D.seek /\ R.reset = D.reset /\ R.recalibrate = D.recalibrate
      /\ R.DOR = mask
      /\ R.moff_timer = [D.moff_timer EXCEPT ![nr] = Keep]
      /\ R.mon_timer = [D.mon_timer EXCEPT ![nr] = mon]
  BY DEF FdType
<1> HIDE DEF R
<1>8. R.mon_timer[nr] = mon /\ R.moff_timer[nr] = Keep
  BY <1>7, FdFacts
<1>9. \A d \in Drives \ {nr} : R.moff_timer[d] = D.moff_timer[d] /\ R.mon_timer[d] = D.mon_timer[d]
  BY <1>7, FdFacts
<1> QED
  BY <1>1, <1>4, <1>5, <1>6, <1>7, <1>8, <1>9

(* Without requests past the end of the disk, none is skipped.             *)
LEMMA InRangeDoes ==
  ASSUME NEW D \in FdType
  PROVE  InRange(D) = [D EXCEPT !.seek = FALSE]
<1> DEFINE good == {i \in DOMAIN D.queue : D.queue[i].track # Beyond}
           skip == IF good = {} THEN Len(D.queue)
                   ELSE (CHOOSE i \in good : \A j \in good : i <= j) - 1
           last == IF skip = 0 THEN D.current_drive ELSE D.queue[skip].drive
<1>1. D.queue \in Seq(Requests)
  BY FdFacts
<1>2. good = 1 .. Len(D.queue)
  <2>1. ASSUME NEW i \in 1 .. Len(D.queue) PROVE D.queue[i].track # Beyond
    <3>1. D.queue[i] \in Requests
      BY <1>1
    <3> QED
      BY <3>1, Numbers DEF Requests
  <2>2. DOMAIN D.queue = 1 .. Len(D.queue)
    BY <1>1
  <2> QED
    BY <2>1, <2>2
<1>3. skip = 0
  <2>1. CASE D.queue = << >>
    <3>1. Len(D.queue) = 0 /\ 1 .. 0 = {}
      BY <2>1
    <3> QED
      BY <1>2, <3>1
  <2>2. CASE D.queue # << >>
    <3>1. Len(D.queue) \in Nat /\ Len(D.queue) >= 1
      BY <1>1, <2>2
    <3>2. 1 \in good /\ \A i \in good : i \in Int /\ 1 <= i
      BY <1>2, <3>1
    <3> HIDE DEF good
    <3>3. (CHOOSE i \in good : \A j \in good : i <= j) = 1
      <4> DEFINE first == CHOOSE i \in good : \A j \in good : i <= j
      <4>1. first \in good /\ \A j \in good : first <= j
        BY <3>2
      <4> HIDE DEF first
      <4>2. first = 1
        BY <3>2, <4>1
      <4> QED
        BY <4>2 DEF first
    <3> QED
      BY <3>2, <3>3
  <2> QED
    BY <2>1, <2>2
<1>4. InRange(D) = [D EXCEPT !.queue = SubSeq(@, skip + 1, Len(@)), !.current_drive = last,
                       !.seek = (\E i \in 1 .. skip : D.queue[i].drive # D.current_drive)]
  BY DEF InRange
<1> HIDE DEF skip
<1>5. SubSeq(D.queue, skip + 1, Len(D.queue)) = D.queue
  BY <1>1, <1>3
<1>6. last = D.current_drive
  BY <1>3
<1>7. (\E i \in 1 .. skip : D.queue[i].drive # D.current_drive) = FALSE
  BY <1>3
<1> HIDE DEF last
<1>8. InRange(D) = [D EXCEPT !.queue = D.queue, !.current_drive = D.current_drive, !.seek = FALSE]
  BY <1>4, <1>5, <1>6, <1>7
<1> QED
  BY <1>8 DEF FdType

(* do_fd_request() as its callers leave the driver. *)
LEMMA do_fd_requestOK ==
  ASSUME NEW D \in FdType, NEW h, NEW dead \in BOOLEAN, Free(D), SelectedFor(D),
         D.reset \/ D.recalibrate \/ Believed(D, h)
  PROVE  Outcome(do_fd_request(D, dead), h, 0)
<1> DEFINE E == InRange(D)
           r == Head(E.queue)
           F == [E EXCEPT !.seek = @ \/ NeedsSeek(E, r), !.current_drive = r.drive,
                          !.seek_track = r.track]
           G == ticks_to_floppy_on(F, r.drive)
<1>1. do_fd_request(D, dead) =
        IF D.reset THEN reset_floppy(D)
        ELSE IF D.recalibrate THEN recalibrate_floppy([D EXCEPT !.seek = FALSE], dead)
        ELSE IF E.queue = << >> THEN E
        ELSE IF G.mon_timer[r.drive] = 0 THEN floppy_on_interrupt(G, dead)
        ELSE add_timer(G, G.mon_timer[r.drive], "on")
  BY DEF do_fd_request
<1>2. E = [D EXCEPT !.seek = FALSE]
  BY InRangeDoes
<1> HIDE DEF E
<1>3. E \in FdType
  BY <1>2 DEF FdType
<1>4. /\ E.queue = D.queue /\ E.selected = D.selected /\ E.current_drive = D.current_drive
      /\ E.DOR = D.DOR /\ E.timers = D.timers /\ E.do_floppy = D.do_floppy /\ E.start = D.start
      /\ E.current_track = D.current_track /\ E.seek = FALSE
      /\ E.reset = D.reset /\ E.recalibrate = D.recalibrate
  BY <1>2 DEF FdType
<1>5. SelectedFor(E) /\ Free(E)
  BY <1>4 DEF SelectedFor, Free
<1>6. Outcome(reset_floppy(D), h, 0)
  BY reset_floppyOK DEF Free
<1>7. Outcome(recalibrate_floppy([D EXCEPT !.seek = FALSE], dead), h, 0)
  BY <1>2, <1>3, <1>5, recalibrate_floppyOK DEF Free
<1>8. CASE D.reset \/ D.recalibrate
  BY <1>1, <1>6, <1>7, <1>8
<1>9. CASE ~D.reset /\ ~D.recalibrate /\ E.queue = << >>
  <2>1. Believed(E, h)
    BY <1>4, <1>9 DEF Believed
  <2>2. Resting(E, h)
    BY <1>5, <1>9, <2>1 DEF Resting, Free
  <2>3. Outcome(E, h, 0)
    BY <1>3, <1>5, <2>2 DEF Outcome, DriverOK, Free, NoCommand
  <2> QED
    BY <1>1, <1>9, <2>3
<1>10. CASE ~D.reset /\ ~D.recalibrate /\ E.queue # << >>
  <2>1. /\ r \in Requests /\ r.drive \in Drives /\ r.track \in Tracks
        /\ r.track # Unknown /\ r.track \in Nat /\ r.drive \in Nat
    BY <1>3, <1>10, HeadFacts
  <2>2. NeedsSeek(E, r) = (r.drive # E.current_drive \/ r.track # E.current_track)
    BY DEF NeedsSeek
  <2>3. r = Head(D.queue)
    BY <1>4
  <2> HIDE DEF r
  <2>4. NeedsSeek(E, r) \in BOOLEAN
    BY <2>2
  <2>5. F \in FdType
    BY <1>3, <2>1, <2>4 DEF FdType
  <2>6. /\ F.queue = D.queue /\ F.selected = D.selected /\ F.current_drive = r.drive
        /\ F.DOR = D.DOR /\ F.timers = D.timers /\ F.do_floppy = D.do_floppy
        /\ F.start = D.start /\ F.current_track = D.current_track
        /\ F.seek_track = r.track /\ F.seek = NeedsSeek(E, r)
    BY <1>3, <1>4, <2>4 DEF FdType
  <2> HIDE DEF F
  <2>7. /\ G \in FdType
        /\ G.queue = D.queue /\ G.selected = D.selected /\ G.current_drive = r.drive
        /\ G.timers = D.timers /\ G.do_floppy = D.do_floppy /\ G.start = D.start
        /\ G.current_track = D.current_track /\ G.seek_track = r.track
        /\ G.seek = NeedsSeek(E, r)
        /\ G.DOR.drive = (IF D.selected THEN D.DOR.drive ELSE r.drive)
        /\ r.drive \in G.DOR.motors /\ G.moff_timer[r.drive] = Keep
    BY <2>1, <2>5, <2>6, ticks_to_floppy_onDoes
  <2> HIDE DEF G
  <2>8. Free(G) /\ Turning(G)
    BY <2>7 DEF Free, Turning
  <2>9. Aimed(G)
    BY <1>4, <1>10, <2>3, <2>7 DEF Aimed
  <2>10. SelectedFor(G)
    BY <2>3, <2>7 DEF SelectedFor
  <2>11. G.seek \/ OnTrack(G, h)
    <3>1. CASE NeedsSeek(E, r)
      BY <2>7, <3>1
    <3>2. CASE ~NeedsSeek(E, r)
      <4>1. r.drive = D.current_drive /\ r.track = D.current_track
        BY <1>4, <2>2, <3>2
      <4>2. h[D.current_drive] = D.current_track
        BY <1>10, <2>1, <4>1 DEF Believed
      <4> QED
        BY <2>7, <4>1, <4>2 DEF OnTrack
    <3> QED
      BY <3>1, <3>2
  <2>12. G.mon_timer[r.drive] \in Nat /\ G.moff_timer[r.drive] = Keep
    BY <2>1, <2>7, FdFacts
  <2>13. CASE G.mon_timer[r.drive] = 0
    <3>1. G.mon_timer[G.current_drive] < Settle + 0
      BY <2>7, <2>13, Numbers
    <3>2. Lasts(G, Off, 0)
      BY <2>7, <2>12, Numbers DEF Lasts
    <3>3. Outcome(floppy_on_interrupt(G, dead), h, 0)
      BY <2>7, <2>8, <2>9, <2>10, <2>11, <3>1, <3>2, floppy_on_interruptOK
    <3> QED
      BY <1>1, <1>10, <2>13, <3>3
  <2>14. CASE G.mon_timer[r.drive] # 0
    <3> DEFINE j == G.mon_timer[r.drive]
               new == [jiffies |-> j, fn |-> "on"]
               R == [G EXCEPT !.timers = <<new>>]
    <3>1. add_timer(G, j, "on") = R
      BY <2>8, <2>12, FirstTimer DEF Free
    <3>2. new \in Timers
      BY <2>12 DEF Timers
    <3>3. new.jiffies = j /\ new.fn = "on"
      OBVIOUS
    <3> HIDE DEF new
    <3>4. <<new>> \in Seq(Timers) /\ Head(<<new>>) = new
          /\ Len(<<new>>) = 1
      BY <3>2
    <3>5. R \in FdType
      BY <2>7, <3>4 DEF FdType
    <3>6. /\ R.queue = G.queue /\ R.selected = G.selected /\ R.current_drive = G.current_drive
          /\ R.DOR = G.DOR /\ R.timers = <<new>> /\ R.do_floppy = G.do_floppy
          /\ R.start = G.start /\ R.seek = G.seek
          /\ R.current_track = G.current_track /\ R.seek_track = G.seek_track
          /\ R.mon_timer = G.mon_timer /\ R.moff_timer = G.moff_timer
      BY <2>7 DEF FdType
    <3> HIDE DEF R
    <3>7. SelectedFor(R) /\ Aimed(R) /\ (R.seek \/ OnTrack(R, h)) /\ Turning(R)
      BY <2>8, <2>9, <2>10, <2>11, <3>6 DEF SelectedFor, Aimed, OnTrack, Turning
    <3>8. TimerOK(R, 0)
      <4>1. R.mon_timer[R.current_drive] = j /\ R.moff_timer[R.current_drive] = Keep
        BY <2>7, <2>12, <3>6
      <4>2. j \in Nat /\ j >= 1
        BY <2>12, <2>14
      <4>3. Head(R.timers) = new
        BY <3>4, <3>6
      <4> HIDE DEF j
      <4> QED
        BY <3>3, <3>7, <4>1, <4>2, <4>3, Numbers DEF TimerOK
    <3>9. R.do_floppy = "none" /\ R.start = NoCommand /\ Len(R.timers) = 1
      BY <2>8, <3>4, <3>6 DEF Free
    <3>10. DriverOK(R, h, R.start, 0)
      BY <3>7, <3>8, <3>9 DEF DriverOK, Waiting
    <3>11. Outcome(R, h, 0)
      BY <3>5, <3>9, <3>10 DEF Outcome, NoCommand
    <3> QED
      BY <1>1, <1>10, <2>14, <3>1, <3>11
  <2> QED
    BY <2>13, <2>14
<1> QED
  BY <1>8, <1>9, <1>10 DEF FdType

----------------------------------------------------------------------------
(* The handlers. *)
LEMMA GaveUp ==
  ASSUME NEW D \in FdType, D.queue # << >>
  PROVE  LET R == GiveUp(D)
         IN  /\ R \in FdType /\ R.selected = FALSE
             /\ R.timers = D.timers /\ R.do_floppy = D.do_floppy /\ R.start = D.start
             /\ R.current_drive = D.current_drive /\ R.current_track = D.current_track
             /\ R.reset = D.reset /\ R.recalibrate = D.recalibrate
<1> DEFINE R == [D EXCEPT !.selected = FALSE, !.queue = Tail(D.queue)]
<1>1. GiveUp(D) = R
  <2> DEFINE E == [D EXCEPT !.selected = FALSE]
  <2>1. E.queue = D.queue
    BY DEF FdType
  <2>2. GiveUp(D) = [E EXCEPT !.queue = Tail(E.queue)]
    BY DEF GiveUp, end_request, floppy_deselect
  <2> QED
    BY <2>1, <2>2
<1>2. Tail(D.queue) \in Seq(Requests)
  BY FdFacts
<1>3. R \in FdType
  BY <1>2 DEF FdType
<1> QED
  BY <1>1, <1>3 DEF FdType

LEMMA bad_flp_intrOK ==
  ASSUME NEW D \in FdType, D.queue # << >>, SelectedFor(D)
  PROVE  LET R == bad_flp_intr(D)
         IN  /\ R \in FdType /\ SelectedFor(R)
             /\ R.timers = D.timers /\ R.do_floppy = D.do_floppy /\ R.start = D.start
             /\ R.reset \/ R.recalibrate
<1> DEFINE q == [D.queue EXCEPT ![1].errors = @ + 1]
           E == [D EXCEPT !.queue = q]
           F == IF E.queue[1].errors > MAX_ERRORS THEN GiveUp(E) ELSE E
           many == F.queue = << >> \/ F.queue[1].errors > MAX_ERRORS \div 2
<1>1. bad_flp_intr(D) = IF many THEN [F EXCEPT !.reset = TRUE] ELSE [F EXCEPT !.recalibrate = TRUE]
  BY DEF bad_flp_intr
<1>2. q \in Seq(Requests) /\ q # << >> /\ Head(q).drive = Head(D.queue).drive
  <2>1. D.queue \in Seq(Requests) /\ Len(D.queue) >= 1
    BY FdFacts
  <2>2. D.queue[1] \in Requests /\ Head(D.queue) = D.queue[1]
    BY <2>1
  <2> DEFINE r == [D.queue[1] EXCEPT !.errors = @ + 1]
  <2>3. r \in Requests /\ r.drive = D.queue[1].drive
    BY <2>2 DEF Requests
  <2>4. q = [D.queue EXCEPT ![1] = r]
    OBVIOUS
  <2> HIDE DEF r
  <2>5. q \in Seq(Requests) /\ Len(q) = Len(D.queue) /\ q[1] = r
    BY <2>1, <2>3, <2>4
  <2>6. Head(q) = q[1] /\ q # << >>
    BY <2>1, <2>5
  <2> QED
    BY <2>2, <2>3, <2>5, <2>6
<1> HIDE DEF q
<1>3. E \in FdType
  BY <1>2 DEF FdType
<1>4. /\ E.queue = q /\ E.selected = D.selected /\ E.current_drive = D.current_drive
      /\ E.DOR = D.DOR /\ E.timers = D.timers /\ E.do_floppy = D.do_floppy /\ E.start = D.start
  BY DEF FdType
<1> HIDE DEF E
<1>5. SelectedFor(E)
  BY <1>2, <1>4 DEF SelectedFor
<1>6. /\ F \in FdType /\ SelectedFor(F)
      /\ F.timers = D.timers /\ F.do_floppy = D.do_floppy /\ F.start = D.start
  <2>1. /\ GiveUp(E) \in FdType /\ GiveUp(E).selected = FALSE
        /\ GiveUp(E).timers = E.timers /\ GiveUp(E).do_floppy = E.do_floppy
        /\ GiveUp(E).start = E.start
    BY <1>2, <1>3, <1>4, GaveUp
  <2>2. SelectedFor(GiveUp(E))
    BY <2>1 DEF SelectedFor
  <2> QED
    BY <1>3, <1>4, <1>5, <2>1, <2>2
<1> HIDE DEF F
<1> DEFINE A == [F EXCEPT !.reset = TRUE]
           B == [F EXCEPT !.recalibrate = TRUE]
<1>7. A \in FdType /\ B \in FdType
  BY <1>6 DEF FdType
<1>8. /\ A.queue = F.queue /\ A.selected = F.selected /\ A.current_drive = F.current_drive
      /\ A.DOR = F.DOR /\ A.timers = F.timers /\ A.do_floppy = F.do_floppy /\ A.start = F.start
      /\ A.reset
  BY <1>6 DEF FdType
<1>9. /\ B.queue = F.queue /\ B.selected = F.selected /\ B.current_drive = F.current_drive
      /\ B.DOR = F.DOR /\ B.timers = F.timers /\ B.do_floppy = F.do_floppy /\ B.start = F.start
      /\ B.recalibrate
  BY <1>6 DEF FdType
<1> HIDE DEF A, B, many
<1>10. SelectedFor(A) /\ SelectedFor(B)
  BY <1>6, <1>8, <1>9 DEF SelectedFor
<1>11. bad_flp_intr(D) = A \/ bad_flp_intr(D) = B
  BY <1>1 DEF A, B
<1> QED
  BY <1>6, <1>7, <1>8, <1>9, <1>10, <1>11

(* A handler starts with do_floppy reset by floppy_interrupt.              *)
Interrupted(D) == [D EXCEPT !.do_floppy = "none"]

LEMMA InterruptedIs ==
  ASSUME NEW D \in FdType
  PROVE  LET R == Interrupted(D)
         IN  /\ R \in FdType /\ R.do_floppy = "none"
             /\ R.queue = D.queue /\ R.selected = D.selected /\ R.current_drive = D.current_drive
             /\ R.DOR = D.DOR /\ R.timers = D.timers /\ R.start = D.start
             /\ R.current_track = D.current_track /\ R.seek_track = D.seek_track
             /\ R.mon_timer = D.mon_timer /\ R.moff_timer = D.moff_timer
             /\ R.reset = D.reset /\ R.recalibrate = D.recalibrate
             /\ SelectedFor(D) => SelectedFor(R)
             /\ D.timers = << >> /\ D.start = NoCommand => Free(R)
<1> DEFINE R == Interrupted(D)
<1>1. /\ R \in FdType /\ R.do_floppy = "none"
      /\ R.queue = D.queue /\ R.selected = D.selected /\ R.current_drive = D.current_drive
      /\ R.DOR = D.DOR /\ R.timers = D.timers /\ R.start = D.start
      /\ R.current_track = D.current_track /\ R.seek_track = D.seek_track
      /\ R.mon_timer = D.mon_timer /\ R.moff_timer = D.moff_timer
      /\ R.reset = D.reset /\ R.recalibrate = D.recalibrate
  BY DEF FdType, Interrupted
<1> HIDE DEF R
<1>2. SelectedFor(D) => SelectedFor(R)
  BY <1>1 DEF SelectedFor
<1>3. D.timers = << >> /\ D.start = NoCommand => Free(R)
  BY <1>1 DEF Free
<1> QED
  BY <1>1, <1>2, <1>3 DEF R

(* The end of a request whose sector was moved, or may not be written.     *)
LEMMA EndedOK ==
  ASSUME NEW D \in FdType, NEW h, NEW c, NEW dead \in BOOLEAN,
         D.timers = << >>, D.start = NoCommand, Transferring(D, h, c, 0)
  PROVE  Outcome(do_fd_request(GiveUp(Interrupted(D)), dead), h, 0)
<1> DEFINE E == Interrupted(D)
           R == GiveUp(E)
<1>1. /\ E \in FdType /\ Free(E) /\ E.queue = D.queue
      /\ E.current_drive = D.current_drive /\ E.current_track = D.current_track
  BY InterruptedIs
<1> HIDE DEF E
<1>2. E.queue # << >>
  BY <1>1 DEF Transferring, Aimed
<1>3. /\ R \in FdType /\ R.selected = FALSE
      /\ R.timers = E.timers /\ R.do_floppy = E.do_floppy /\ R.start = E.start
      /\ R.current_drive = E.current_drive /\ R.current_track = E.current_track
  BY <1>1, <1>2, GaveUp
<1> HIDE DEF R
<1>4. Free(R) /\ SelectedFor(R)
  BY <1>1, <1>3 DEF Free, SelectedFor
<1>5. Believed(R, h)
  BY <1>1, <1>3 DEF Believed, Transferring, OnTrack
<1>6. Outcome(do_fd_request(R, dead), h, 0)
  BY <1>3, <1>4, <1>5, do_fd_requestOK
<1> QED
  BY <1>6 DEF R, E

(* A try failed.                                                           *)
LEMMA FailedOK ==
  ASSUME NEW D \in FdType, NEW h, NEW dead \in BOOLEAN,
         D.timers = << >>, D.start = NoCommand, D.queue # << >>, SelectedFor(D)
  PROVE  Outcome(do_fd_request(bad_flp_intr(Interrupted(D)), dead), h, 0)
<1> DEFINE E == Interrupted(D)
           R == bad_flp_intr(E)
<1>1. E \in FdType /\ Free(E) /\ E.queue = D.queue /\ SelectedFor(E)
  BY InterruptedIs
<1> HIDE DEF E
<1>2. /\ R \in FdType /\ SelectedFor(R)
      /\ R.timers = E.timers /\ R.do_floppy = E.do_floppy /\ R.start = E.start
      /\ R.reset \/ R.recalibrate
  BY <1>1, bad_flp_intrOK
<1> HIDE DEF R
<1>3. Free(R)
  BY <1>1, <1>2 DEF Free
<1>4. Outcome(do_fd_request(R, dead), h, 0)
  BY <1>2, <1>3, do_fd_requestOK
<1> QED
  BY <1>4 DEF R, E

LEMMA rw_interruptOK ==
  ASSUME NEW D \in FdType, NEW h, NEW c, NEW ok \in BOOLEAN, NEW dead \in BOOLEAN,
         D.timers = << >>, D.start = NoCommand, SelectedFor(D), Transferring(D, h, c, 0)
  PROVE  Outcome(rw_interrupt(Interrupted(D), ok, dead), h, 0)
<1>1. Outcome(do_fd_request(GiveUp(Interrupted(D)), dead), h, 0)
  BY EndedOK
<1>2. D.queue # << >>
  BY DEF Transferring, Aimed
<1>3. Outcome(do_fd_request(bad_flp_intr(Interrupted(D)), dead), h, 0)
  BY <1>2, FailedOK
<1> QED
  BY <1>1, <1>3 DEF rw_interrupt, GiveUp

LEMMA seek_interruptOK ==
  ASSUME NEW D \in FdType, NEW h, NEW g, NEW c \in Commands, NEW ok \in BOOLEAN, NEW dead \in BOOLEAN,
         D.timers = << >>, D.start = NoCommand, SelectedFor(D), Seeking(D, c, 0),
         c.age <= MaxOp, ok => g[D.current_drive] = D.seek_track
  PROVE  Outcome(seek_interrupt(Interrupted(D), ok, dead), g, 0)
<1> DEFINE E == Interrupted(D)
           R == [E EXCEPT !.current_track = E.seek_track]
<1>1. D.queue # << >>
  BY DEF Seeking, Aimed
<1>2. Outcome(do_fd_request(bad_flp_intr(E), dead), g, 0)
  BY <1>1, FailedOK
<1>3. seek_interrupt(E, ok, dead) = IF ok THEN setup_rw_floppy(R, dead)
                                    ELSE do_fd_request(bad_flp_intr(E), dead)
  BY DEF seek_interrupt
<1>4. CASE ok
  <2>1. /\ E \in FdType /\ E.do_floppy = "none" /\ E.timers = D.timers
        /\ E.queue = D.queue /\ E.selected = D.selected /\ E.current_drive = D.current_drive
        /\ E.DOR = D.DOR /\ E.seek_track = D.seek_track
        /\ E.mon_timer = D.mon_timer /\ E.moff_timer = D.moff_timer
    BY InterruptedIs
  <2> HIDE DEF E
  <2>2. E.seek_track \in Nat
    BY <2>1, FdFacts
  <2>3. /\ R \in FdType /\ R.timers = << >>
        /\ R.queue = D.queue /\ R.selected = D.selected /\ R.current_drive = D.current_drive
        /\ R.DOR = D.DOR /\ R.current_track = D.seek_track /\ R.seek_track = D.seek_track
        /\ R.mon_timer = D.mon_timer /\ R.moff_timer = D.moff_timer
    BY <2>1, <2>2 DEF FdType
  <2> HIDE DEF R
  <2>4. SelectedFor(R) /\ Aimed(R) /\ Ready(R, 0)
    BY <2>3 DEF Seeking, SelectedFor, Aimed, Ready, Turning
  <2>5. OnTrack(R, g)
    BY <1>4, <2>3 DEF OnTrack
  <2>6. Lasts(R, MaxOp, 0)
    <3>1. Lasts(D, 2 * MaxOp - c.age, 0)
      BY DEF Seeking
    <3>2. D.current_drive \in Drives
      BY HeadFacts DEF Seeking, Aimed
    <3>3. D.moff_timer[D.current_drive] \in Nat /\ c.age \in Nat
      BY <3>2, FdFacts DEF Commands
    <3>4. D.moff_timer[D.current_drive] >= MaxOp + 0
      BY <3>1, <3>3, Numbers DEF Lasts
    <3> QED
      BY <2>3, <3>4 DEF Lasts
  <2>7. Outcome(setup_rw_floppy(R, dead), g, 0)
    BY <2>3, <2>4, <2>5, <2>6, setup_rw_floppyOK
  <2> QED
    BY <1>3, <1>4, <2>7 DEF E
<1> QED
  BY <1>2, <1>3, <1>4

LEMMA recal_interruptOK ==
  ASSUME NEW D \in FdType, NEW g, NEW c, NEW ok \in BOOLEAN, NEW dead \in BOOLEAN,
         D.timers = << >>, D.start = NoCommand, SelectedFor(D), Recalibrating(D, c),
         ok /\ D.current_drive \in Drives => g[D.current_drive] = 0
  PROVE  Outcome(recal_interrupt(Interrupted(D), ok, dead), g, 0)
<1> DEFINE E == Interrupted(D)
           R == [E EXCEPT !.reset = @ \/ ~ok, !.recalibrate = @ /\ ~ok]
<1>1. /\ E \in FdType /\ Free(E) /\ SelectedFor(E)
      /\ E.current_drive = D.current_drive /\ E.current_track = D.current_track
  BY InterruptedIs
<1>2. recal_interrupt(E, ok, dead) = do_fd_request(R, dead)
  BY DEF recal_interrupt
<1> HIDE DEF E
<1>3. /\ R \in FdType /\ R.reset = (E.reset \/ ~ok)
      /\ R.queue = E.queue /\ R.selected = E.selected /\ R.current_drive = E.current_drive
      /\ R.DOR = E.DOR /\ R.timers = E.timers /\ R.start = E.start
      /\ R.do_floppy = E.do_floppy /\ R.current_track = E.current_track
  BY <1>1 DEF FdType
<1> HIDE DEF R
<1>4. Free(R) /\ SelectedFor(R)
  BY <1>1, <1>3 DEF Free, SelectedFor
<1>5. R.reset \/ Believed(R, g)
  BY <1>1, <1>3 DEF Believed, Recalibrating
<1> QED
  BY <1>2, <1>3, <1>4, <1>5, do_fd_requestOK DEF E

LEMMA reset_interruptOK ==
  ASSUME NEW D \in FdType, NEW h, NEW c, NEW dead \in BOOLEAN,
         D.timers = << >>, D.start = NoCommand, SelectedFor(D), Resetting(D, c)
  PROVE  Outcome(reset_interrupt(Interrupted(D), dead), h, 0)
<1> DEFINE E == Interrupted(D)
           R == [E EXCEPT !.reset = dead]
<1>1. E \in FdType /\ Free(E) /\ SelectedFor(E) /\ E.recalibrate = D.recalibrate
  BY InterruptedIs
<1>2. reset_interrupt(E, dead) = do_fd_request(R, dead)
  BY DEF reset_interrupt
<1> HIDE DEF E
<1>3. /\ R \in FdType /\ R.recalibrate = E.recalibrate
      /\ R.queue = E.queue /\ R.selected = E.selected /\ R.current_drive = E.current_drive
      /\ R.DOR = E.DOR /\ R.timers = E.timers /\ R.start = E.start /\ R.do_floppy = E.do_floppy
  BY <1>1 DEF FdType
<1> HIDE DEF R
<1>4. Free(R) /\ SelectedFor(R)
  BY <1>1, <1>3 DEF Free, SelectedFor
<1>5. R.recalibrate
  BY <1>1, <1>3 DEF Resetting
<1> QED
  BY <1>2, <1>3, <1>4, <1>5, do_fd_requestOK DEF E

----------------------------------------------------------------------------
(* The steps. *)

(* The command is taken from start: the driver's variables otherwise stay. *)
Started(D) == [D EXCEPT !.start = NoCommand]

LEMMA StartedIs ==
  ASSUME NEW D \in FdType
  PROVE  LET R == Started(D)
         IN  /\ R \in FdType /\ R.start = NoCommand
             /\ \A h, c, k : DriverOK(D, h, c, k) => DriverOK(R, h, c, k)
<1> DEFINE R == Started(D)
<1>1. R \in FdType /\ R.start = NoCommand
  BY DEF Started, FdType, NoCommand, Commands
<1>2. /\ R.queue = D.queue /\ R.selected = D.selected /\ R.current_drive = D.current_drive
      /\ R.DOR = D.DOR /\ R.timers = D.timers /\ R.do_floppy = D.do_floppy
      /\ R.current_track = D.current_track /\ R.seek_track = D.seek_track /\ R.seek = D.seek
      /\ R.mon_timer = D.mon_timer /\ R.moff_timer = D.moff_timer
      /\ R.reset = D.reset /\ R.recalibrate = D.recalibrate
  BY DEF Started, FdType
<1> HIDE DEF R
<1>3. SelectedFor(D) => SelectedFor(R)
  BY <1>2 DEF SelectedFor
<1>4. ASSUME NEW h, NEW c, NEW k
      PROVE  /\ Waiting(D, h, k) => Waiting(R, h, k)
             /\ Resting(D, h) => Resting(R, h)
             /\ Working(D, h, c, k) => Working(R, h, c, k)
  <2>1. (Aimed(D) <=> Aimed(R)) /\ (OnTrack(D, h) <=> OnTrack(R, h))
    BY <1>2 DEF Aimed, OnTrack
  <2>2. Ready(D, k) <=> Ready(R, k)
    BY <1>2 DEF Ready, Turning
  <2>3. \A n : Lasts(D, n, k) <=> Lasts(R, n, k)
    BY <1>2 DEF Lasts
  <2>4. TimerOK(D, k) => TimerOK(R, k)
    BY <1>2, <2>2, <2>3 DEF TimerOK, Turning
  <2>5. Believed(D, h) <=> Believed(R, h)
    BY <1>2 DEF Believed
  <2>6. Waiting(D, h, k) => Waiting(R, h, k)
    BY <1>2, <2>1, <2>4 DEF Waiting
  <2>7. Resting(D, h) => Resting(R, h)
    BY <1>2, <2>5 DEF Resting
  <2>8. Transferring(D, h, c, k) => Transferring(R, h, c, k)
    BY <1>2, <2>1, <2>2, <2>3 DEF Transferring
  <2>9. Seeking(D, c, k) => Seeking(R, c, k)
    BY <1>2, <2>1, <2>2, <2>3 DEF Seeking
  <2>10. Recalibrating(D, c) => Recalibrating(R, c)
    BY <1>2 DEF Recalibrating
  <2>11. Resetting(D, c) => Resetting(R, c)
    BY <1>2 DEF Resetting
  <2> QED
    BY <2>6, <2>7, <2>8, <2>9, <2>10, <2>11 DEF Working
<1>5. \A h, c, k : DriverOK(D, h, c, k) => DriverOK(R, h, c, k)
  BY <1>2, <1>3, <1>4 DEF DriverOK
<1> QED
  BY <1>1, <1>5 DEF R

(* An outcome of a handler, as the driver's next state.                    *)
LEMMA OutcomeKept ==
  ASSUME NEW D, NEW h, Outcome(D, h, 0)
  PROVE  /\ Started(D) \in FdType /\ Started(D).start = NoCommand
         /\ DriverOK(Started(D), h, D.start, 0)
         /\ D.start \in Commands /\ D.start.age <= MaxOp
         /\ D.start.op = "none" => D.start = NoCommand
<1>1. D \in FdType /\ DriverOK(D, h, D.start, 0)
  BY DEF Outcome
<1>2. D.start \in Commands /\ 0 <= MaxOp
  BY <1>1, FdFacts, Numbers
<1> QED
  BY <1>1, <1>2, StartedIs DEF Outcome

LEMMA ChangerKept ==
  ASSUME ChangerType,
         changer' \in {changer, [changer EXCEPT !.pc = "select"], [changer EXCEPT !.pc = "on"]}
           \/ changer' = [pc |-> "idle", nr |-> 0],
         changer' # changer => changer.pc # "idle"
  PROVE  ChangerType'
<1>1. CASE changer' = changer
  BY <1>1 DEF ChangerType
<1>2. CASE changer' = [changer EXCEPT !.pc = "select"] /\ changer' # changer
  BY <1>2 DEF ChangerType
<1>3. CASE changer' = [changer EXCEPT !.pc = "on"] /\ changer' # changer
  BY <1>3 DEF ChangerType
<1>4. CASE changer' = [pc |-> "idle", nr |-> 0]
  BY <1>4 DEF ChangerType
<1> QED
  BY <1>1, <1>2, <1>3, <1>4

(* At rest, nothing is selected and the flags or the heads are as needed.  *)
LEMMA AtRest ==
  ASSUME FloppyIInv, fd.queue = << >>, busy = NoCommand
  PROVE  /\ fd \in FdType /\ Free(fd) /\ ~fd.selected
         /\ fd.reset \/ fd.recalibrate \/ Believed(fd, headAt)
<1>1. fd \in FdType /\ fd.start = NoCommand /\ DriverOK(fd, headAt, busy, 0)
  BY DEF FloppyIInv, FloppyTypeOK
<1>2. busy.op = "none"
  BY DEF NoCommand
<1>3. fd.timers = << >> /\ Resting(fd, headAt)
  BY <1>1, <1>2 DEF DriverOK, Waiting, Aimed
<1>4. ~fd.selected
  BY <1>1 DEF DriverOK, SelectedFor
<1> QED
  BY <1>1, <1>3, <1>4 DEF Resting, Free

(* A request behind others changes nothing for the first.                  *)
LEMMA Appended ==
  ASSUME NEW D \in FdType, NEW r \in Requests, D.queue # << >>, NEW h, NEW c, NEW k,
         DriverOK(D, h, c, k)
  PROVE  LET R == [D EXCEPT !.queue = Append(@, r)]
         IN  R \in FdType /\ R.start = D.start /\ DriverOK(R, h, c, k)
<1> DEFINE q == Append(D.queue, r)
           R == [D EXCEPT !.queue = q]
<1>1. q \in Seq(Requests) /\ q # << >> /\ Head(q) = Head(D.queue)
  <2>1. D.queue \in Seq(Requests)
    BY FdFacts
  <2> QED
    BY <2>1
<1> HIDE DEF q
<1>2. R \in FdType
  BY <1>1 DEF FdType
<1>3. /\ R.queue = q /\ R.selected = D.selected /\ R.current_drive = D.current_drive
      /\ R.DOR = D.DOR /\ R.timers = D.timers /\ R.do_floppy = D.do_floppy
      /\ R.current_track = D.current_track /\ R.seek_track = D.seek_track /\ R.seek = D.seek
      /\ R.mon_timer = D.mon_timer /\ R.moff_timer = D.moff_timer
      /\ R.reset = D.reset /\ R.recalibrate = D.recalibrate /\ R.start = D.start
  BY DEF FdType
<1> HIDE DEF R
<1>4. SelectedFor(D) => SelectedFor(R)
  BY <1>1, <1>3 DEF SelectedFor
<1>5. (Aimed(D) <=> Aimed(R)) /\ (OnTrack(D, h) <=> OnTrack(R, h))
  BY <1>1, <1>3 DEF Aimed, OnTrack
<1>6. Ready(D, k) <=> Ready(R, k)
  BY <1>3 DEF Ready, Turning
<1>7. \A n : Lasts(D, n, k) <=> Lasts(R, n, k)
  BY <1>3 DEF Lasts
<1>8. TimerOK(D, k) => TimerOK(R, k)
  BY <1>3, <1>6, <1>7 DEF TimerOK, Turning
<1>9. Waiting(D, h, k) => Waiting(R, h, k)
  BY <1>3, <1>5, <1>8 DEF Waiting
<1>10. ~Resting(D, h)
  BY DEF Resting
<1>11. Transferring(D, h, c, k) => Transferring(R, h, c, k)
  BY <1>3, <1>5, <1>6, <1>7 DEF Transferring
<1>12. Seeking(D, c, k) => Seeking(R, c, k)
  BY <1>3, <1>5, <1>6, <1>7 DEF Seeking
<1>13. Recalibrating(D, c) => Recalibrating(R, c)
  BY <1>3 DEF Recalibrating
<1>14. Resetting(D, c) => Resetting(R, c)
  BY <1>3 DEF Resetting
<1>15. DriverOK(R, h, c, k)
  BY <1>3, <1>4, <1>9, <1>10, <1>11, <1>12, <1>13, <1>14 DEF DriverOK, Working
<1> QED
  BY <1>2, <1>3, <1>15 DEF R, q

LEMMA NewRequestKeeps ==
  ASSUME FloppyIInv, "late" \notin Races, "beyond" \notin Races,
         NEW d \in Drives, NEW t \in Tracks \cup {Beyond}, NEW dead \in BOOLEAN,
         NewRequest(d, t, dead)
  PROVE  FloppyIInv'
<1> DEFINE r == [drive |-> d, track |-> t, errors |-> 0]
           D == [fd EXCEPT !.queue = Append(@, r)]
<1>1. r \in Requests
  BY DEF NewRequest, Requests
<1>2. /\ fd \in FdType /\ fd.start = NoCommand /\ headAt \in [Drives -> Tracks]
      /\ busy \in Commands /\ busy.age <= MaxOp /\ (busy.op = "none" => busy = NoCommand)
      /\ ChangerType /\ DriverOK(fd, headAt, busy, 0)
  BY DEF FloppyIInv, FloppyTypeOK
<1>3. headAt' = headAt
  BY DEF NewRequest
<1> HIDE DEF r
<1>4. ASSUME NEW E, Becomes(E, dead), E.start = NoCommand \/ busy = NoCommand,
             Started(E) \in FdType, Started(E).start = NoCommand,
             E.start \in Commands, E.start.age <= MaxOp,
             E.start.op = "none" => E.start = NoCommand,
             E.start = NoCommand => DriverOK(Started(E), headAt, busy, 0),
             E.start # NoCommand => DriverOK(Started(E), headAt, E.start, 0)
      PROVE  FloppyIInv'
  <2>1. fd' = Started(E)
    BY <1>4 DEF Becomes, Started
  <2>2. busy' = IF E.start = NoCommand THEN busy ELSE E.start
    BY <1>4 DEF Becomes
  <2>3. ChangerType'
    <3>1. changer' = changer \/ (changer' = [changer EXCEPT !.pc = "select"] /\ changer.pc # "idle")
      BY <1>4 DEF Becomes
    <3> QED
      BY <1>2, <3>1, ChangerKept
  <2>4. DriverOK(fd', headAt', busy', 0)
    BY <1>3, <1>4, <2>1, <2>2
  <2>5. busy' \in Commands /\ busy'.age <= MaxOp /\ (busy'.op = "none" => busy' = NoCommand)
    BY <1>2, <1>4, <2>2
  <2> QED
    BY <1>2, <1>3, <1>4, <2>1, <2>3, <2>4, <2>5 DEF FloppyIInv, FloppyTypeOK
<1>5. CASE fd.queue # << >>
  <2>1. Becomes(D, dead) /\ ~dead
    BY <1>5 DEF NewRequest, StartsDriver, r
  <2>2. D \in FdType /\ D.start = NoCommand /\ DriverOK(D, headAt, busy, 0)
    BY <1>1, <1>2, <1>5, Appended
  <2> HIDE DEF D
  <2>3. Started(D) \in FdType /\ Started(D).start = NoCommand
        /\ DriverOK(Started(D), headAt, busy, 0)
    BY <2>2, StartedIs
  <2>4. D.start \in Commands /\ D.start.age <= MaxOp
    BY <2>2, FdFacts, Numbers DEF NoCommand
  <2> QED
    BY <1>4, <2>1, <2>2, <2>3, <2>4
<1>6. CASE fd.queue = << >>
  <2>1. busy = NoCommand /\ Becomes(do_fd_request(D, dead), dead)
    BY <1>6 DEF NewRequest, StartsDriver, r
  <2>2. /\ Free(fd) /\ ~fd.selected
        /\ fd.reset \/ fd.recalibrate \/ Believed(fd, headAt)
    BY <1>6, <2>1, AtRest
  <2>3. Append(fd.queue, r) \in Seq(Requests)
    BY <1>1, <1>2, FdFacts
  <2>4. /\ D \in FdType /\ D.selected = fd.selected /\ D.timers = fd.timers
        /\ D.do_floppy = fd.do_floppy /\ D.start = fd.start
        /\ D.reset = fd.reset /\ D.recalibrate = fd.recalibrate
        /\ D.current_drive = fd.current_drive /\ D.current_track = fd.current_track
    BY <1>2, <2>3 DEF FdType
  <2> HIDE DEF D
  <2>5. Free(D) /\ SelectedFor(D)
    BY <2>2, <2>4 DEF Free, SelectedFor
  <2>6. D.reset \/ D.recalibrate \/ Believed(D, headAt)
    BY <2>2, <2>4 DEF Believed
  <2> DEFINE E == do_fd_request(D, dead)
  <2>7. Outcome(E, headAt, 0)
    BY <2>4, <2>5, <2>6, do_fd_requestOK
  <2>8. Becomes(E, dead)
    BY <2>1
  <2> HIDE DEF E
  <2>9. /\ Started(E) \in FdType /\ Started(E).start = NoCommand
        /\ DriverOK(Started(E), headAt, E.start, 0)
        /\ E.start \in Commands /\ E.start.age <= MaxOp
        /\ E.start.op = "none" => E.start = NoCommand
    BY <2>7, OutcomeKept
  <2> QED
    BY <1>4, <2>1, <2>8, <2>9
<1> QED
  BY <1>5, <1>6

(* The motors' counters run on.  What was good for k = 1 is good.          *)
LEMMA TickOK ==
  ASSUME NEW D \in FdType, NEW h, NEW c \in Commands, c.age <= MaxOp, DriverOK(D, h, c, 1)
  PROVE  LET R == do_floppy_timer(D)
         IN  R \in FdType /\ R.start = D.start /\ DriverOK(R, h, c, 0)
<1> DEFINE on == D.DOR.motors
           expired == {d \in on : D.mon_timer[d] = 0 /\ D.moff_timer[d] = 0}
           mon == [d \in Drives |-> IF d \in on /\ D.mon_timer[d] > 0
                                    THEN D.mon_timer[d] - 1 ELSE D.mon_timer[d]]
           moff == [d \in Drives |-> IF d \in on /\ D.mon_timer[d] = 0 /\ D.moff_timer[d] > 0
                                     THEN D.moff_timer[d] - 1 ELSE D.moff_timer[d]]
           R == [D EXCEPT !.mon_timer = mon, !.moff_timer = moff, !.DOR.motors = on \ expired]
           cd == D.current_drive
<1>1. do_floppy_timer(D) = R
  BY DEF do_floppy_timer
<1>2. mon \in [Drives -> Nat] /\ moff \in [Drives -> Nat]
  <2>1. \A d \in Drives : D.mon_timer[d] \in Nat /\ D.moff_timer[d] \in Nat
    BY FdFacts
  <2>2. \A d \in Drives : (IF d \in on /\ D.mon_timer[d] > 0
                           THEN D.mon_timer[d] - 1 ELSE D.mon_timer[d]) \in Nat
    BY <2>1
  <2>3. \A d \in Drives : (IF d \in on /\ D.mon_timer[d] = 0 /\ D.moff_timer[d] > 0
                           THEN D.moff_timer[d] - 1 ELSE D.moff_timer[d]) \in Nat
    BY <2>1
  <2> QED
    BY <2>2, <2>3
<1>3. \A d \in Drives :
        /\ mon[d] = (IF d \in on /\ D.mon_timer[d] > 0
                     THEN D.mon_timer[d] - 1 ELSE D.mon_timer[d])
        /\ moff[d] = (IF d \in on /\ D.mon_timer[d] = 0 /\ D.moff_timer[d] > 0
                      THEN D.moff_timer[d] - 1 ELSE D.moff_timer[d])
  OBVIOUS
<1> HIDE DEF mon, moff
<1>4. on \ expired \subseteq Drives
  BY FdFacts
<1>5. \A d \in on : d \notin expired => d \in on \ expired
  OBVIOUS
<1>6. \A d \in on : D.mon_timer[d] # 0 \/ D.moff_timer[d] # 0 => d \in on \ expired
  OBVIOUS
<1> HIDE DEF expired
<1>7. R \in FdType
  BY <1>2, <1>4, FdFacts DEF FdType
<1>8. /\ R.queue = D.queue /\ R.selected = D.selected /\ R.current_drive = D.current_drive
      /\ R.DOR.drive = D.DOR.drive /\ R.DOR.motors = on \ expired
      /\ R.timers = D.timers /\ R.do_floppy = D.do_floppy
      /\ R.current_track = D.current_track /\ R.seek_track = D.seek_track /\ R.seek = D.seek
      /\ R.mon_timer = mon /\ R.moff_timer = moff
      /\ R.reset = D.reset /\ R.recalibrate = D.recalibrate /\ R.start = D.start
  BY DEF FdType
<1> HIDE DEF R
<1>9. SelectedFor(R)
  BY <1>8 DEF SelectedFor, DriverOK
<1>10. (Aimed(D) <=> Aimed(R)) /\ (OnTrack(D, h) <=> OnTrack(R, h))
       /\ (Believed(D, h) <=> Believed(R, h))
  BY <1>8 DEF Aimed, OnTrack, Believed
<1>11. Aimed(D) => cd \in Drives
  BY HeadFacts DEF Aimed
<1>12. cd \in Drives => D.mon_timer[cd] \in Nat /\ D.moff_timer[cd] \in Nat
  BY FdFacts
<1>13. ASSUME NEW n \in Nat, Aimed(D), Turning(D), Lasts(D, n, 1)
       PROVE  Lasts(R, n, 0) /\ Turning(R)
  <2>1. cd \in on
    BY <1>13 DEF Turning
  <2>2. CASE D.moff_timer[cd] >= n + 1
    <3>1. moff[cd] >= n /\ D.moff_timer[cd] # 0
      BY <1>3, <1>11, <1>12, <1>13, <2>1, <2>2
    <3> QED
      BY <1>6, <1>8, <2>1, <3>1 DEF Lasts, Turning
  <2>3. CASE D.mon_timer[cd] >= 1 /\ D.moff_timer[cd] >= n
    <3>1. moff[cd] >= n /\ D.mon_timer[cd] # 0
      BY <1>3, <1>11, <1>12, <1>13, <2>1, <2>3
    <3> QED
      BY <1>6, <1>8, <2>1, <3>1 DEF Lasts, Turning
  <2> QED
    BY <1>13, <2>2, <2>3 DEF Lasts
<1>14. ASSUME NEW n \in Nat, Aimed(D), Ready(D, 1), Lasts(D, n, 1)
       PROVE  Ready(R, 0) /\ Lasts(R, n, 0)
  <2>1. Turning(D)
    BY <1>14 DEF Ready
  <2>2. Lasts(R, n, 0) /\ Turning(R)
    BY <1>13, <1>14, <2>1
  <2>3. D.mon_timer[cd] < Settle + 1 /\ cd \in on
    BY <1>14 DEF Ready, Turning
  <2>4. mon[cd] < Settle
    BY <1>3, <1>11, <1>12, <1>14, <2>3, Numbers
  <2>5. mon[cd] < Settle + 0
    BY <2>4, Numbers
  <2> QED
    BY <1>8, <1>14, <2>2, <2>5 DEF Ready
<1>15. CASE c = NoCommand /\ Waiting(D, h, 1)
  <2> DEFINE j == Head(D.timers).jiffies
             f == Head(D.timers).fn
             m == D.mon_timer[cd]
  <2>1. j \in Nat
    <3>1. D.timers \in Seq(Timers)
      BY FdFacts
    <3>2. D.timers # << >>
      BY <1>15 DEF Waiting
    <3>3. Head(D.timers) \in Timers
      BY <3>1, <3>2
    <3> QED
      BY <3>3 DEF Timers
  <2>2. Aimed(D) /\ TimerOK(D, 1)
    BY <1>15 DEF Waiting
  <2>3. j >= 1 /\ Turning(D)
    BY <2>2 DEF TimerOK
  <2> HIDE DEF j, f
  <2>4. ASSUME f = "on", m >= j + 1, m <= j + 1 \/ m <= Settle, D.moff_timer[cd] >= Off
        PROVE  TimerOK(R, 0)
    <3>1. Lasts(D, Off, 1)
      BY <1>11, <1>12, <2>1, <2>2, <2>4, Numbers DEF Lasts
    <3>2. Lasts(R, Off, 0) /\ Turning(R)
      BY <1>13, <2>2, <2>3, <3>1, Numbers
    <3>3. moff[cd] >= Off
      BY <1>2, <1>8, <1>11, <2>2, <3>2, Numbers DEF Lasts
    <3>4. mon[cd] = m - 1
      BY <1>3, <1>11, <1>12, <2>1, <2>2, <2>3, <2>4 DEF Turning
    <3>5. mon[cd] >= j + 0 /\ (mon[cd] <= j + 0 \/ mon[cd] <= Settle)
      BY <1>11, <1>12, <2>1, <2>2, <2>4, <3>4, Numbers
    <3>6. Head(R.timers).jiffies = j /\ Head(R.timers).fn = f
          /\ R.mon_timer[R.current_drive] = mon[cd] /\ R.moff_timer[R.current_drive] = moff[cd]
      BY <1>8 DEF j, f
    <3> QED
      BY <2>3, <2>4, <3>2, <3>3, <3>5, <3>6 DEF TimerOK
  <2>5. ASSUME f = "transfer", j <= Settle, Ready(D, 1), Lasts(D, 2 * MaxOp + j, 1)
        PROVE  TimerOK(R, 0)
    <3>1. 2 * MaxOp + j \in Nat
      BY <2>1, Numbers
    <3>2. Ready(R, 0) /\ Lasts(R, 2 * MaxOp + j, 0)
      BY <1>14, <2>2, <2>5, <3>1
    <3>3. Ready(R, 0) => Turning(R)
      BY DEF Ready
    <3>4. Head(R.timers).jiffies = j /\ Head(R.timers).fn = f
      BY <1>8 DEF j, f
    <3> QED
      BY <2>3, <2>5, <3>2, <3>3, <3>4 DEF TimerOK
  <2>6. \/ f = "on" /\ m >= j + 1 /\ (m <= j + 1 \/ m <= Settle) /\ D.moff_timer[cd] >= Off
        \/ f = "transfer" /\ j <= Settle /\ Ready(D, 1) /\ Lasts(D, 2 * MaxOp + j, 1)
    BY <2>2 DEF TimerOK, j, f
  <2>7. Waiting(R, h, 0)
    BY <1>8, <1>10, <1>15, <2>4, <2>5, <2>6 DEF Waiting
  <2> QED
    BY <1>1, <1>7, <1>8, <1>9, <1>15, <2>7 DEF DriverOK
<1>16. CASE c = NoCommand /\ D.timers = << >> /\ Resting(D, h)
  <2>1. Resting(R, h)
    BY <1>8, <1>10, <1>16 DEF Resting
  <2> QED
    BY <1>1, <1>7, <1>8, <1>9, <1>16, <2>1 DEF DriverOK
<1>17. CASE D.timers = << >> /\ c.op # "none" /\ Working(D, h, c, 1)
  <2>1. MaxOp - c.age \in Nat /\ 2 * MaxOp - c.age \in Nat
    BY Numbers DEF Commands
  <2>2. Transferring(D, h, c, 1) => Transferring(R, h, c, 0)
    BY <1>8, <1>10, <1>14, <2>1 DEF Transferring
  <2>3. Seeking(D, c, 1) => Seeking(R, c, 0)
    BY <1>8, <1>10, <1>14, <2>1 DEF Seeking
  <2>4. Recalibrating(D, c) => Recalibrating(R, c)
    BY <1>8 DEF Recalibrating
  <2>5. Resetting(D, c) => Resetting(R, c)
    BY <1>8 DEF Resetting
  <2>6. Working(R, h, c, 0)
    BY <1>17, <2>2, <2>3, <2>4, <2>5 DEF Working
  <2> QED
    BY <1>1, <1>7, <1>8, <1>9, <1>17, <2>6 DEF DriverOK
<1> QED
  BY <1>15, <1>16, <1>17 DEF DriverOK

LEMMA NoneLeft == ASSUME NEW T, NEW s \in Seq(T), Len(s) = 1 PROVE Tail(s) = << >>
<1> DEFINE t == Tail(s)
<1>1. s # << >>
  <2>1. Len(<< >>) # 1
    OBVIOUS
  <2> QED
    BY <2>1, Zenon
<1>2. t \in Seq(T)
  BY <1>1
<1>3. Len(t) = Len(s) - 1
  BY <1>1
<1>4. Len(t) = 0
  BY <1>3
<1> HIDE DEF t
<1>5. t = << >>
  BY <1>2, <1>4
<1> QED
  BY <1>5 DEF t

(* A timer runs out.                                                       *)
LEMMA RunTimerOK ==
  ASSUME FloppyIInv, NEW dead \in BOOLEAN, fd.timers # << >>, Head(fd.timers).jiffies = 1
  PROVE  /\ busy = NoCommand
         /\ Outcome(RunTimer([fd EXCEPT !.timers = Tail(@)], Head(fd.timers).fn, dead), headAt, 1)
<1> DEFINE D == [fd EXCEPT !.timers = Tail(@)]
           f == Head(fd.timers).fn
           cd == fd.current_drive
           m == fd.mon_timer[cd]
<1>1. fd \in FdType /\ fd.start = NoCommand /\ DriverOK(fd, headAt, busy, 0)
  BY DEF FloppyIInv, FloppyTypeOK
<1>2. busy = NoCommand /\ Waiting(fd, headAt, 0) /\ SelectedFor(fd)
  BY <1>1 DEF DriverOK, Resting
<1>3. Tail(fd.timers) = << >>
  <2>1. fd.timers \in Seq(Timers) /\ Len(fd.timers) = 1
    BY <1>1, <1>2, FdFacts DEF Waiting
  <2> QED
    BY <2>1, NoneLeft
<1>4. D \in FdType
  <2>1. << >> \in Seq(Timers)
    OBVIOUS
  <2> QED
    BY <1>1, <1>3, <2>1 DEF FdType
<1>5. /\ D.queue = fd.queue /\ D.selected = fd.selected /\ D.current_drive = fd.current_drive
      /\ D.DOR = fd.DOR /\ D.timers = << >> /\ D.do_floppy = fd.do_floppy
      /\ D.current_track = fd.current_track /\ D.seek_track = fd.seek_track /\ D.seek = fd.seek
      /\ D.mon_timer = fd.mon_timer /\ D.moff_timer = fd.moff_timer /\ D.start = fd.start
  BY <1>1, <1>3 DEF FdType
<1> HIDE DEF D
<1>6. Free(D) /\ SelectedFor(D) /\ Aimed(D) /\ (D.seek \/ OnTrack(D, headAt))
  BY <1>1, <1>2, <1>5 DEF Free, SelectedFor, Aimed, OnTrack, Waiting
<1>7. cd \in Drives
  BY <1>1, <1>2, HeadFacts DEF Waiting, Aimed
<1>8. m \in Nat /\ fd.moff_timer[cd] \in Nat
  BY <1>1, <1>7, FdFacts
<1>9. TimerOK(fd, 0)
  BY <1>2 DEF Waiting
<1> HIDE DEF m
<1>10. CASE f = "on"
  <2>1. m >= 1 + 0 /\ (m <= 1 + 0 \/ m <= Settle) /\ fd.moff_timer[cd] >= Off /\ Turning(fd)
    BY <1>9, <1>10 DEF TimerOK, m
  <2>2. m < Settle + 1
    BY <1>8, <2>1, Numbers
  <2>3. Lasts(D, Off, 1) /\ Turning(D) /\ D.mon_timer[D.current_drive] < Settle + 1
    BY <1>5, <2>1, <2>2 DEF Lasts, Turning, m
  <2>4. Outcome(floppy_on_interrupt(D, dead), headAt, 1)
    BY <1>4, <1>6, <2>3, floppy_on_interruptOK
  <2> QED
    BY <1>2, <1>10, <2>4 DEF RunTimer, D
<1>11. CASE f = "transfer"
  <2>1. Ready(fd, 0) /\ Lasts(fd, 2 * MaxOp + 1, 0)
    BY <1>9, <1>11 DEF TimerOK
  <2>2. m < Settle + 1 /\ fd.moff_timer[cd] >= 2 * MaxOp + 1
    BY <1>8, <2>1, Numbers DEF Ready, Lasts, m
  <2>3. Ready(D, 1) /\ Lasts(D, 2 * MaxOp, 1)
    BY <1>5, <2>1, <2>2 DEF Ready, Lasts, Turning, m
  <2>4. Outcome(transfer(D, dead), headAt, 1)
    BY <1>4, <1>5, <1>6, <2>3, transferOK
  <2> QED
    BY <1>2, <1>11, <2>4 DEF RunTimer, D
<1> QED
  BY <1>9, <1>10, <1>11 DEF TimerOK

(* What a timer step does to the driver before the motors run on.          *)
Due == fd.timers # << >> /\ Head(fd.timers).jiffies = 1
Timed(dead) ==
  IF Due THEN RunTimer([fd EXCEPT !.timers = Tail(@)], Head(fd.timers).fn, dead)
  ELSE IF fd.timers = << >> THEN fd
  ELSE [fd EXCEPT !.timers[1].jiffies = @ - 1]

(* The command under way, one tick older.                                  *)
Older == IF busy = NoCommand THEN busy ELSE [busy EXCEPT !.age = @ + 1]

LEMMA CountedDown ==
  ASSUME FloppyIInv, fd.timers # << >>, ~Due
  PROVE  LET D == [fd EXCEPT !.timers[1].jiffies = @ - 1]
         IN  /\ busy = NoCommand /\ D \in FdType /\ D.start = NoCommand
             /\ DriverOK(D, headAt, NoCommand, 1)
<1> DEFINE cd == fd.current_drive
           m == fd.mon_timer[cd]
           new == [fd.timers[1] EXCEPT !.jiffies = @ - 1]
           D == [fd EXCEPT !.timers = [@ EXCEPT ![1] = new]]
           j == Head(fd.timers).jiffies
           f == Head(fd.timers).fn
<1>1. fd \in FdType /\ fd.start = NoCommand /\ DriverOK(fd, headAt, busy, 0)
  BY DEF FloppyIInv, FloppyTypeOK
<1>2. busy = NoCommand /\ Waiting(fd, headAt, 0) /\ SelectedFor(fd)
  BY <1>1 DEF DriverOK, Resting
<1>3. TimerOK(fd, 0) /\ Aimed(fd) /\ fd.do_floppy = "none" /\ Len(fd.timers) = 1
  BY <1>2 DEF Waiting
<1>4. cd \in Drives
  BY <1>1, <1>3, HeadFacts DEF Aimed
<1>5. m \in Nat /\ fd.moff_timer[cd] \in Nat
  BY <1>1, <1>4, FdFacts
<1>6. fd.timers \in Seq(Timers) /\ Head(fd.timers) = fd.timers[1] /\ fd.timers[1] \in Timers
  <2>1. fd.timers \in Seq(Timers)
    BY <1>1, FdFacts
  <2> QED
    BY <1>3, <2>1
<1>7. j \in Nat /\ j >= 1 /\ j # 1 /\ f \in {"on", "transfer"}
  BY <1>3, <1>6 DEF TimerOK, Due, Timers
<1>8. new \in Timers /\ new.jiffies = j - 1 /\ new.fn = f
  BY <1>6, <1>7 DEF Timers
<1>9. [fd EXCEPT !.timers[1].jiffies = @ - 1] = D
  OBVIOUS
<1> HIDE DEF new
<1> DEFINE s == [fd.timers EXCEPT ![1] = new]
<1>10. s \in Seq(Timers) /\ Len(s) = 1 /\ Head(s) = new /\ s # << >>
  <2>1. s \in Seq(Timers) /\ Len(s) = 1 /\ s[1] = new
    BY <1>3, <1>6, <1>8
  <2> HIDE DEF s
  <2> QED
    BY <2>1
<1>11. D = [fd EXCEPT !.timers = s]
  OBVIOUS
<1> HIDE DEF s
<1>12. D \in FdType
  BY <1>1, <1>10, <1>11 DEF FdType
<1>13. /\ D.queue = fd.queue /\ D.selected = fd.selected /\ D.current_drive = fd.current_drive
       /\ D.DOR = fd.DOR /\ D.timers = s /\ D.do_floppy = fd.do_floppy
       /\ D.current_track = fd.current_track /\ D.seek_track = fd.seek_track /\ D.seek = fd.seek
       /\ D.mon_timer = fd.mon_timer /\ D.moff_timer = fd.moff_timer /\ D.start = fd.start
  BY <1>1, <1>11 DEF FdType
<1> HIDE DEF D
<1>14. SelectedFor(D) /\ Aimed(D) /\ (D.seek \/ OnTrack(D, headAt))
  BY <1>2, <1>3, <1>13 DEF SelectedFor, Aimed, OnTrack, Waiting
<1>15. Head(D.timers).jiffies = j - 1 /\ Head(D.timers).fn = f
  BY <1>8, <1>10, <1>13
<1>16. Turning(D) /\ j - 1 >= 1
  BY <1>3, <1>7, <1>13 DEF TimerOK, Turning
<1> HIDE DEF j, f
<1>17. ASSUME f = "on", m >= j + 0, m <= j + 0 \/ m <= Settle, fd.moff_timer[cd] >= Off
       PROVE  TimerOK(D, 1)
  <2>1. m >= (j - 1) + 1 /\ (m <= (j - 1) + 1 \/ m <= Settle)
    BY <1>5, <1>7, <1>17, Numbers
  <2> QED
    BY <1>13, <1>15, <1>16, <1>17, <2>1 DEF TimerOK
<1>18. ASSUME f = "transfer", j <= Settle, Ready(fd, 0), Lasts(fd, 2 * MaxOp + j, 0)
       PROVE  TimerOK(D, 1)
  <2>1. m < Settle + 0 /\ fd.moff_timer[cd] >= 2 * MaxOp + j + 0
    BY <1>18 DEF Ready, Lasts
  <2>2. m < Settle + 1 /\ fd.moff_timer[cd] >= 2 * MaxOp + (j - 1) + 1 /\ j - 1 <= Settle
    BY <1>5, <1>7, <1>18, <2>1, Numbers
  <2>3. Ready(D, 1)
    BY <1>13, <1>16, <1>18, <2>2 DEF Ready
  <2>4. Lasts(D, 2 * MaxOp + (j - 1), 1)
    BY <1>13, <2>2 DEF Lasts
  <2> QED
    BY <1>15, <1>16, <1>18, <2>2, <2>3, <2>4 DEF TimerOK
<1>19. TimerOK(D, 1)
  <2>1. \/ f = "on" /\ m >= j + 0 /\ (m <= j + 0 \/ m <= Settle) /\ fd.moff_timer[cd] >= Off
        \/ f = "transfer" /\ j <= Settle /\ Ready(fd, 0) /\ Lasts(fd, 2 * MaxOp + j, 0)
    BY <1>3 DEF TimerOK, j, f
  <2> QED
    BY <1>17, <1>18, <2>1
<1>20. DriverOK(D, headAt, NoCommand, 1)
  BY <1>3, <1>10, <1>13, <1>14, <1>19 DEF DriverOK, Waiting
<1> QED
  BY <1>1, <1>2, <1>9, <1>12, <1>13, <1>20 DEF D

LEMMA CommandOlder ==
  ASSUME FloppyIInv, fd.timers = << >>, busy.op # "none" => busy.age < MaxOp
  PROVE  /\ Older \in Commands /\ Older.age <= MaxOp /\ (Older.op = "none" => Older = NoCommand)
         /\ DriverOK(fd, headAt, Older, 1)
<1> DEFINE D == fd
           c == Older
<1>1. /\ D \in FdType /\ D.start = NoCommand /\ DriverOK(D, headAt, busy, 0)
      /\ busy \in Commands /\ busy.age <= MaxOp /\ (busy.op = "none" => busy = NoCommand)
  BY DEF FloppyIInv, FloppyTypeOK
<1>2. CASE busy = NoCommand
  <2>1. c = NoCommand
    BY <1>2 DEF Older
  <2>2. busy.op = "none"
    BY <1>2 DEF NoCommand
  <2>3. Resting(D, headAt) /\ SelectedFor(D)
    <3>1. ~Waiting(D, headAt, 0)
      BY DEF Waiting
    <3> QED
      BY <1>1, <2>2, <3>1 DEF DriverOK
  <2>4. DriverOK(D, headAt, c, 1)
    BY <2>1, <2>3 DEF DriverOK
  <2> QED
    BY <1>1, <1>2, <2>1, <2>4
<1>3. CASE busy # NoCommand
  <2>1. busy.age \in Nat /\ busy.age < MaxOp
    BY <1>1, <1>3 DEF Commands
  <2>2. c = [busy EXCEPT !.age = @ + 1]
    BY <1>3 DEF Older
  <2>3. /\ c \in Commands /\ c.op = busy.op /\ c.drive = busy.drive /\ c.track = busy.track
        /\ c.age = busy.age + 1
    BY <1>1, <2>1, <2>2 DEF Commands
  <2> HIDE DEF c
  <2>4. c.age <= MaxOp /\ c.op # "none"
    BY <1>1, <1>3, <2>1, <2>3, Numbers
  <2>5. Working(D, headAt, busy, 0) /\ SelectedFor(D)
    BY <1>1, <1>3 DEF DriverOK
  <2>6. Aimed(D) => D.current_drive \in Drives
    BY <1>1, HeadFacts DEF Aimed
  <2>7. D.current_drive \in Drives =>
          D.mon_timer[D.current_drive] \in Nat /\ D.moff_timer[D.current_drive] \in Nat
    BY <1>1, FdFacts
  <2>8. Aimed(D) /\ Ready(D, 0) => Ready(D, 1)
    BY <2>6, <2>7, Numbers DEF Ready
  <2>9. ASSUME NEW n \in Nat, Aimed(D), Lasts(D, n - busy.age, 0) PROVE Lasts(D, n - c.age, 1)
    <3>1. D.moff_timer[D.current_drive] >= n - busy.age + 0
      BY <2>9 DEF Lasts
    <3>2. D.moff_timer[D.current_drive] >= n - c.age + 1
      BY <2>1, <2>3, <2>6, <2>7, <2>9, <3>1
    <3> QED
      BY <3>2 DEF Lasts
  <2>10. Transferring(D, headAt, busy, 0) => Transferring(D, headAt, c, 1)
    BY <2>3, <2>8, <2>9, Numbers DEF Transferring
  <2>11. Seeking(D, busy, 0) => Seeking(D, c, 1)
    BY <2>3, <2>8, <2>9, Numbers DEF Seeking
  <2>12. Recalibrating(D, busy) => Recalibrating(D, c)
    BY <2>3 DEF Recalibrating
  <2>13. Resetting(D, busy) => Resetting(D, c)
    BY <2>3 DEF Resetting
  <2>14. DriverOK(D, headAt, c, 1)
    BY <2>4, <2>5, <2>10, <2>11, <2>12, <2>13 DEF DriverOK, Working
  <2> QED
    BY <2>3, <2>4, <2>14 DEF c
<1> QED
  BY <1>2, <1>3

LEMMA do_timerKeeps ==
  ASSUME FloppyIInv, NEW dead \in BOOLEAN, do_timer(dead)
  PROVE  FloppyIInv'
<1> DEFINE D == Timed(dead)
           E == do_floppy_timer(D)
           c == IF E.start # NoCommand THEN E.start ELSE Older
<1>1. /\ fd \in FdType /\ fd.start = NoCommand /\ headAt \in [Drives -> Tracks]
      /\ ChangerType /\ DriverOK(fd, headAt, busy, 0)
      /\ busy \in Commands /\ busy.age <= MaxOp /\ (busy.op = "none" => busy = NoCommand)
  BY DEF FloppyIInv, FloppyTypeOK
<1>2. fd' = Started(E)
  BY DEF do_timer, Started, Timed, Due
<1>3. busy' = c
  BY DEF do_timer, Timed, Due, Older
<1>4. headAt' = headAt
  BY DEF do_timer
<1>5. changer' = changer \/ (changer' = [changer EXCEPT !.pc = "on"] /\ changer.pc # "idle")
  BY DEF do_timer
<1>6. ChangerType'
  BY <1>1, <1>5, ChangerKept
<1>7. busy.op # "none" => busy.age < MaxOp
  BY DEF do_timer
<1> HIDE DEF E
<1>8. /\ D \in FdType /\ D.start \in Commands
      /\ E \in FdType /\ E.start = D.start
      /\ c \in Commands /\ c.age <= MaxOp /\ (c.op = "none" => c = NoCommand)
      /\ DriverOK(E, headAt, c, 0)
  <2>1. CASE Due
    <3>1. D = RunTimer([fd EXCEPT !.timers = Tail(@)], Head(fd.timers).fn, dead)
      BY <2>1 DEF Timed
    <3>2. busy = NoCommand /\ Outcome(D, headAt, 1)
      BY <2>1, <3>1, RunTimerOK DEF Due
    <3> HIDE DEF D
    <3>3. D \in FdType /\ D.start \in Commands /\ D.start.age = 0
          /\ (D.start.op = "none" => D.start = NoCommand) /\ DriverOK(D, headAt, D.start, 1)
      BY <3>2, FdFacts DEF Outcome
    <3>4. D.start.age <= MaxOp
      BY <3>3, Numbers
    <3>5. E \in FdType /\ E.start = D.start /\ DriverOK(E, headAt, D.start, 0)
      BY <3>3, <3>4, TickOK DEF E
    <3>6. c = D.start
      BY <3>2, <3>5 DEF Older
    <3> QED
      BY <3>3, <3>4, <3>5, <3>6
  <2>2. CASE ~Due /\ fd.timers # << >>
    <3>1. D = [fd EXCEPT !.timers[1].jiffies = @ - 1]
      BY <2>2 DEF Timed
    <3>2. /\ busy = NoCommand /\ D \in FdType /\ D.start = NoCommand
          /\ DriverOK(D, headAt, NoCommand, 1)
      BY <2>2, <3>1, CountedDown
    <3> HIDE DEF D
    <3>3. NoCommand \in Commands /\ NoCommand.age = 0 /\ NoCommand.age <= MaxOp
      BY <3>2, FdFacts, Numbers DEF NoCommand
    <3>4. E \in FdType /\ E.start = D.start /\ DriverOK(E, headAt, NoCommand, 0)
      BY <3>2, <3>3, TickOK DEF E
    <3>5. c = NoCommand
      BY <3>2, <3>4 DEF Older
    <3> QED
      BY <3>2, <3>3, <3>4, <3>5
  <2>3. CASE fd.timers = << >>
    <3>1. D = fd
      BY <2>3 DEF Timed, Due
    <3>2. /\ Older \in Commands /\ Older.age <= MaxOp /\ (Older.op = "none" => Older = NoCommand)
          /\ DriverOK(D, headAt, Older, 1)
      BY <1>7, <2>3, <3>1, CommandOlder
    <3>3. D \in FdType /\ D.start = NoCommand
      BY <1>1, <3>1
    <3> HIDE DEF D
    <3>4. E \in FdType /\ E.start = D.start /\ DriverOK(E, headAt, Older, 0)
      BY <3>2, <3>3, TickOK DEF E
    <3>5. c = Older
      BY <3>3, <3>4
    <3>6. D.start \in Commands
      BY <3>3, FdFacts
    <3> QED
      BY <3>2, <3>3, <3>4, <3>5, <3>6
  <2> QED
    BY <2>1, <2>2, <2>3
<1> HIDE DEF D, c
<1>9. fd' \in FdType /\ fd'.start = NoCommand /\ DriverOK(fd', headAt', busy', 0)
  BY <1>2, <1>3, <1>4, <1>8, StartedIs
<1> QED
  BY <1>1, <1>3, <1>4, <1>6, <1>8, <1>9 DEF FloppyIInv, FloppyTypeOK

(* While the controller works, no timer runs and nothing is to be started. *)
LEMMA AtWork ==
  ASSUME FloppyIInv, busy # NoCommand
  PROVE  /\ fd \in FdType /\ fd.start = NoCommand /\ fd.timers = << >> /\ SelectedFor(fd)
         /\ Working(fd, headAt, busy, 0) /\ busy \in Commands /\ busy.age <= MaxOp
         /\ headAt \in [Drives -> Tracks] /\ ChangerType
BY DEF FloppyIInv, FloppyTypeOK, DriverOK

(* A step that leaves an outcome.                                          *)
LEMMA OutcomeStep ==
  ASSUME NEW D, Outcome(D, headAt', 0), fd' = Started(D), busy' = D.start,
         headAt' \in [Drives -> Tracks], ChangerType'
  PROVE  FloppyIInv'
<1>1. /\ Started(D) \in FdType /\ Started(D).start = NoCommand
      /\ DriverOK(Started(D), headAt', D.start, 0)
      /\ D.start \in Commands /\ D.start.age <= MaxOp
      /\ D.start.op = "none" => D.start = NoCommand
  <2> PICK h : h = headAt'
    OBVIOUS
  <2> QED
    BY OutcomeKept
<1> QED
  BY <1>1 DEF FloppyIInv, FloppyTypeOK

LEMMA floppy_interruptKeeps ==
  ASSUME FloppyIInv, NEW ok \in BOOLEAN, NEW dead \in BOOLEAN, floppy_interrupt(ok, dead)
  PROVE  FloppyIInv'
<1> DEFINE D == Handled([fd EXCEPT !.do_floppy = "none"], ok, dead)
           cd == fd.current_drive
<1>1. /\ fd \in FdType /\ fd.start = NoCommand /\ fd.timers = << >> /\ SelectedFor(fd)
      /\ Working(fd, headAt, busy, 0) /\ busy \in Commands /\ busy.age <= MaxOp
      /\ headAt \in [Drives -> Tracks] /\ ChangerType
  BY AtWork DEF floppy_interrupt
<1>2. fd' = Started(D) /\ busy' = D.start /\ headAt' = (IF ok THEN Moved ELSE headAt)
  BY DEF floppy_interrupt, Started
<1>3. ChangerType'
  <2>1. changer' = changer \/ (changer' = [changer EXCEPT !.pc = "select"] /\ changer.pc # "idle")
    BY DEF floppy_interrupt
  <2> QED
    BY <1>1, <2>1, ChangerKept
<1>4. D = Handled(Interrupted(fd), ok, dead)
  BY DEF Interrupted
<1> HIDE DEF D
<1>5. CASE Transferring(fd, headAt, busy, 0)
  <2>1. busy.op = "rw" /\ fd.do_floppy = "rw"
    BY <1>5 DEF Transferring
  <2>2. headAt' = headAt
    BY <1>2, <2>1 DEF Moved
  <2>3. D = rw_interrupt(Interrupted(fd), ok, dead)
    BY <1>4, <2>1 DEF Handled
  <2>4. Outcome(D, headAt, 0)
    BY <1>1, <1>5, <2>3, rw_interruptOK
  <2>5. Outcome(D, headAt', 0)
    BY <2>2, <2>4
  <2>6. headAt' \in [Drives -> Tracks]
    BY <1>1, <2>2
  <2> QED
    BY <1>2, <1>3, <2>5, <2>6, OutcomeStep
<1>6. CASE Seeking(fd, busy, 0)
  <2>1. busy.op \in {"seek", "recal"} /\ fd.do_floppy = "seek" /\ Aimed(fd)
        /\ busy.drive = cd /\ busy.track = fd.seek_track
    BY <1>6 DEF Seeking
  <2>2. cd \in Drives /\ fd.seek_track \in Tracks
    BY <1>1, <2>1, HeadFacts DEF Aimed
  <2>3. headAt' = IF ok THEN [headAt EXCEPT ![cd] = fd.seek_track] ELSE headAt
    BY <1>2, <2>1 DEF Moved
  <2> PICK g : g = headAt'
    OBVIOUS
  <2>4. g \in [Drives -> Tracks] /\ (ok => g[cd] = fd.seek_track)
    BY <1>1, <2>2, <2>3
  <2>5. D = seek_interrupt(Interrupted(fd), ok, dead)
    BY <1>4, <2>1 DEF Handled
  <2>6. Outcome(D, g, 0)
    BY <1>1, <1>6, <2>4, <2>5, seek_interruptOK
  <2> QED
    BY <1>2, <1>3, <2>4, <2>6, OutcomeStep
<1>7. CASE Recalibrating(fd, busy)
  <2>1. busy.op = "recal" /\ fd.do_floppy = "recal" /\ busy.drive = cd /\ busy.track = 0
    BY <1>7 DEF Recalibrating
  <2>2. headAt' = IF ok THEN [headAt EXCEPT ![cd] = 0] ELSE headAt
    BY <1>2, <2>1 DEF Moved
  <2> PICK g : g = headAt'
    OBVIOUS
  <2>3. g \in [Drives -> Tracks] /\ (ok /\ cd \in Drives => g[cd] = 0)
    BY <1>1, <2>2, Numbers
  <2>4. D = recal_interrupt(Interrupted(fd), ok, dead)
    BY <1>4, <2>1 DEF Handled
  <2>5. Outcome(D, g, 0)
    BY <1>1, <1>7, <2>3, <2>4, recal_interruptOK
  <2> QED
    BY <1>2, <1>3, <2>3, <2>5, OutcomeStep
<1>8. CASE Resetting(fd, busy)
  <2>1. busy.op = "reset" /\ fd.do_floppy = "reset"
    BY <1>8 DEF Resetting
  <2>2. headAt' = headAt
    BY <1>2, <2>1 DEF Moved
  <2>3. D = reset_interrupt(Interrupted(fd), dead)
    BY <1>4, <2>1 DEF Handled
  <2>4. Outcome(D, headAt, 0)
    BY <1>1, <1>8, <2>3, reset_interruptOK
  <2>5. Outcome(D, headAt', 0) /\ headAt' \in [Drives -> Tracks]
    BY <1>1, <2>2, <2>4
  <2> QED
    BY <1>2, <1>3, <2>5, OutcomeStep
<1> QED
  BY <1>1, <1>5, <1>6, <1>7, <1>8 DEF Working

LEMMA WriteProtectedKeeps ==
  ASSUME FloppyIInv, NEW dead \in BOOLEAN, WriteProtected(dead)
  PROVE  FloppyIInv'
<1> DEFINE D == do_fd_request(GiveUp(Interrupted(fd)), dead)
<1>1. busy.op = "rw" /\ fd.do_floppy = "rw"
  BY DEF WriteProtected
<1>2. busy # NoCommand
  BY <1>1 DEF NoCommand
<1>3. /\ fd \in FdType /\ fd.start = NoCommand /\ fd.timers = << >> /\ SelectedFor(fd)
      /\ Working(fd, headAt, busy, 0) /\ headAt \in [Drives -> Tracks] /\ ChangerType
  BY <1>2, AtWork
<1>4. Transferring(fd, headAt, busy, 0)
  BY <1>1, <1>3 DEF Working, Seeking, Recalibrating, Resetting
<1>5. Outcome(D, headAt, 0)
  BY <1>3, <1>4, EndedOK
<1>6. fd' = Started(D) /\ busy' = D.start /\ headAt' = headAt
  BY DEF WriteProtected, Started, Interrupted, GiveUp
<1> HIDE DEF D
<1>7. changer' = changer \/ (changer' = [changer EXCEPT !.pc = "select"] /\ changer.pc # "idle")
  BY DEF WriteProtected
<1>8. ChangerType'
  BY <1>3, <1>7, ChangerKept
<1>9. Outcome(D, headAt', 0) /\ headAt' \in [Drives -> Tracks]
  BY <1>3, <1>5, <1>6
<1> QED
  BY <1>6, <1>8, <1>9, OutcomeStep

LEMMA unexpectedKeeps ==
  ASSUME FloppyIInv, NEW ok \in BOOLEAN, unexpected_floppy_interrupt(ok)
  PROVE  FloppyIInv'
<1> DEFINE R == Surprised(fd, ok)
<1>1. /\ fd \in FdType /\ fd.start = NoCommand /\ headAt \in [Drives -> Tracks]
      /\ ChangerType /\ DriverOK(fd, headAt, busy, 0)
      /\ busy \in Commands /\ busy.age <= MaxOp /\ (busy.op = "none" => busy = NoCommand)
  BY DEF FloppyIInv, FloppyTypeOK
<1>2. fd' = R /\ busy = NoCommand /\ busy' = busy /\ headAt' = headAt /\ changer' = changer
  BY DEF unexpected_floppy_interrupt
<1>3. /\ R \in FdType
      /\ R.queue = fd.queue /\ R.selected = fd.selected /\ R.current_drive = fd.current_drive
      /\ R.DOR = fd.DOR /\ R.timers = fd.timers /\ R.do_floppy = fd.do_floppy
      /\ R.current_track = fd.current_track /\ R.seek_track = fd.seek_track /\ R.seek = fd.seek
      /\ R.mon_timer = fd.mon_timer /\ R.moff_timer = fd.moff_timer
      /\ R.start = fd.start
      /\ R.reset = (fd.reset \/ ~ok) /\ R.recalibrate = (fd.recalibrate \/ ok)
  BY <1>1 DEF Surprised, FdType
<1> HIDE DEF R
<1>4. SelectedFor(R)
  BY <1>1, <1>3 DEF SelectedFor, DriverOK
<1>5. busy.op = "none"
  BY <1>2 DEF NoCommand
<1>6. Ready(fd, 0) => Ready(R, 0)
  BY <1>3 DEF Ready, Turning
<1>7. \A n : Lasts(fd, n, 0) => Lasts(R, n, 0)
  BY <1>3 DEF Lasts
<1>8. TimerOK(fd, 0) => TimerOK(R, 0)
  BY <1>3, <1>6, <1>7 DEF TimerOK, Turning
<1>9. Waiting(fd, headAt, 0) => Waiting(R, headAt, 0)
  BY <1>3, <1>8 DEF Waiting, Aimed, OnTrack
<1>10. Resting(fd, headAt) => Resting(R, headAt)
  BY <1>3 DEF Resting
<1>11. DriverOK(R, headAt, busy, 0)
  BY <1>1, <1>3, <1>4, <1>5, <1>9, <1>10 DEF DriverOK
<1>12. ChangerType'
  BY <1>1, <1>2, ChangerKept
<1>13. DriverOK(fd', headAt', busy', 0)
  BY <1>2, <1>11
<1> QED
  BY <1>1, <1>2, <1>3, <1>12, <1>13 DEF FloppyIInv, FloppyTypeOK

(* floppy_change() selects a drive only if none is, and changes the        *)
(* counters of the current drive upwards, or moff_timer to Off.            *)
LEMMA CountersKept ==
  ASSUME NEW D \in FdType, NEW R \in FdType, NEW h, NEW c \in Commands, DriverOK(D, h, c, 0),
         R.queue = D.queue, R.selected = D.selected, R.current_drive = D.current_drive,
         R.timers = D.timers, R.do_floppy = D.do_floppy, R.seek = D.seek,
         R.current_track = D.current_track, R.seek_track = D.seek_track,
         R.reset = D.reset, R.recalibrate = D.recalibrate,
         D.selected => R.DOR.drive = D.DOR.drive,
         D.DOR.motors \subseteq R.DOR.motors,
         ASSUME D.current_drive \in D.DOR.motors, D.current_drive \in Drives
         PROVE  LET m == D.mon_timer[D.current_drive]
                    n == R.mon_timer[D.current_drive]
                IN  /\ n >= m /\ (n <= m \/ n <= Settle) /\ (D.selected => n = m)
                    /\ \/ R.moff_timer[D.current_drive] >= D.moff_timer[D.current_drive]
                       \/ R.moff_timer[D.current_drive] >= Off
  PROVE  DriverOK(R, h, c, 0)
<1> DEFINE cd == D.current_drive
           m == D.mon_timer[cd]
           n == R.mon_timer[cd]
<1>1. SelectedFor(R) /\ SelectedFor(D)
  BY DEF SelectedFor, DriverOK
<1>2. (Aimed(D) <=> Aimed(R)) /\ (OnTrack(D, h) <=> OnTrack(R, h))
      /\ (Believed(D, h) <=> Believed(R, h)) /\ (Turning(D) => Turning(R))
  BY DEF Aimed, OnTrack, Believed, Turning
<1>3. Aimed(D) => cd \in Drives
  BY HeadFacts DEF Aimed
<1>4. cd \in Drives => /\ m \in Nat /\ D.moff_timer[cd] \in Nat
                       /\ n \in Nat /\ R.moff_timer[cd] \in Nat
  BY FdFacts
<1>5. Aimed(D) /\ Turning(D) =>
        /\ n >= m /\ (n <= m \/ n <= Settle) /\ (D.selected => n = m)
        /\ R.moff_timer[cd] >= D.moff_timer[cd] \/ R.moff_timer[cd] >= Off
  BY <1>3 DEF Turning
<1> HIDE DEF m, n
<1>6. Aimed(D) /\ Ready(D, 0) => Ready(R, 0)
  BY <1>2, <1>5 DEF Ready, m, n
<1>7. ASSUME NEW i \in Int, i <= Off, Aimed(D), Turning(D), Lasts(D, i, 0)
      PROVE  Lasts(R, i, 0)
  <2>1. D.moff_timer[cd] >= i + 0
    BY <1>7 DEF Lasts
  <2>2. R.moff_timer[cd] >= i + 0
    BY <1>3, <1>4, <1>5, <1>7, <2>1, Numbers
  <2> QED
    BY <2>2 DEF Lasts
<1>8. CASE c = NoCommand /\ Waiting(D, h, 0)
  <2> DEFINE j == Head(D.timers).jiffies
             f == Head(D.timers).fn
  <2>1. Aimed(D) /\ TimerOK(D, 0) /\ D.timers # << >>
    <3>1. Len(D.timers) = 1 /\ Aimed(D) /\ TimerOK(D, 0)
      BY <1>8 DEF Waiting
    <3>2. Len(<< >>) # 1
      OBVIOUS
    <3> QED
      BY <3>1, <3>2, Zenon
  <2>2. j \in Nat
    <3>1. D.timers \in Seq(Timers)
      BY FdFacts
    <3>2. Head(D.timers) \in Timers
      BY <2>1, <3>1
    <3> QED
      BY <3>2 DEF Timers
  <2>3. j >= 1 /\ Turning(D) /\ Turning(R)
    BY <1>2, <2>1 DEF TimerOK
  <2>4. Head(R.timers).jiffies = j /\ Head(R.timers).fn = f
    OBVIOUS
  <2> HIDE DEF j, f
  <2>5. ASSUME f = "on", m >= j + 0, m <= j + 0 \/ m <= Settle, D.moff_timer[cd] >= Off
        PROVE  TimerOK(R, 0)
    <3>1. n >= j + 0 /\ (n <= j + 0 \/ n <= Settle) /\ R.moff_timer[cd] >= Off
      BY <1>3, <1>4, <1>5, <2>1, <2>2, <2>3, <2>5, Numbers
    <3> QED
      BY <2>3, <2>4, <2>5, <3>1 DEF TimerOK, n
  <2>6. ASSUME f = "transfer", j <= Settle, Ready(D, 0), Lasts(D, 2 * MaxOp + j, 0)
        PROVE  TimerOK(R, 0)
    <3>1. 2 * MaxOp + j <= Off /\ 2 * MaxOp + j \in Int
      BY <2>2, <2>6, Numbers
    <3>2. Ready(R, 0) /\ Lasts(R, 2 * MaxOp + j, 0)
      BY <1>6, <1>7, <2>1, <2>3, <2>6, <3>1
    <3> QED
      BY <2>3, <2>4, <2>6, <3>2 DEF TimerOK
  <2>7. \/ f = "on" /\ m >= j + 0 /\ (m <= j + 0 \/ m <= Settle) /\ D.moff_timer[cd] >= Off
        \/ f = "transfer" /\ j <= Settle /\ Ready(D, 0) /\ Lasts(D, 2 * MaxOp + j, 0)
    BY <2>1 DEF TimerOK, j, f, m
  <2>8. Waiting(R, h, 0)
    BY <1>2, <1>8, <2>5, <2>6, <2>7 DEF Waiting
  <2> QED
    BY <1>1, <1>8, <2>8 DEF DriverOK
<1>9. CASE c = NoCommand /\ D.timers = << >> /\ Resting(D, h)
  <2>1. Resting(R, h)
    BY <1>2, <1>9 DEF Resting
  <2> QED
    BY <1>1, <1>9, <2>1 DEF DriverOK
<1>10. CASE D.timers = << >> /\ c.op # "none" /\ Working(D, h, c, 0)
  <2>1. /\ MaxOp - c.age \in Int /\ MaxOp - c.age <= Off
        /\ 2 * MaxOp - c.age \in Int /\ 2 * MaxOp - c.age <= Off
    BY Numbers DEF Commands
  <2>2. Ready(D, 0) => Turning(D)
    BY DEF Ready
  <2>3. Transferring(D, h, c, 0) => Transferring(R, h, c, 0)
    BY <1>2, <1>6, <1>7, <2>1, <2>2 DEF Transferring
  <2>4. Seeking(D, c, 0) => Seeking(R, c, 0)
    BY <1>2, <1>6, <1>7, <2>1, <2>2 DEF Seeking
  <2>5. Recalibrating(D, c) => Recalibrating(R, c)
    BY DEF Recalibrating
  <2>6. Resetting(D, c) => Resetting(R, c)
    BY DEF Resetting
  <2> QED
    BY <1>1, <1>10, <2>3, <2>4, <2>5, <2>6 DEF DriverOK, Working
<1> QED
  BY <1>8, <1>9, <1>10 DEF DriverOK

LEMMA ChangeStartKeeps ==
  ASSUME FloppyIInv, NEW nr \in Drives, ChangeStart(nr)
  PROVE  FloppyIInv'
<1>1. changer' \in [pc : {"idle", "on", "motor", "select", "selecting"}, nr : Nat]
      /\ changer'.nr \in Drives
  BY Numbers DEF ChangeStart
<1>2. ChangerType'
  BY <1>1 DEF ChangerType
<1> QED
  BY <1>2 DEF FloppyIInv, FloppyTypeOK, ChangeStart

LEMMA ChangeOnKeeps ==
  ASSUME FloppyIInv, ChangeOn
  PROVE  FloppyIInv'
<1> DEFINE nr == changer.nr
           R == ticks_to_floppy_on(fd, nr)
<1>1. /\ fd \in FdType /\ fd.start = NoCommand /\ headAt \in [Drives -> Tracks]
      /\ ChangerType /\ DriverOK(fd, headAt, busy, 0)
      /\ busy \in Commands /\ busy.age <= MaxOp /\ (busy.op = "none" => busy = NoCommand)
  BY DEF FloppyIInv, FloppyTypeOK
<1>2. fd' = R /\ busy' = busy /\ headAt' = headAt /\ changer.pc = "on"
      /\ changer' = [changer EXCEPT !.pc = IF R.mon_timer[nr] = 0 THEN "select" ELSE "motor"]
  BY DEF ChangeOn
<1>3. nr \in Drives
  BY <1>1, <1>2 DEF ChangerType
<1>4. /\ R \in FdType
      /\ R.queue = fd.queue /\ R.selected = fd.selected /\ R.current_drive = fd.current_drive
      /\ R.timers = fd.timers /\ R.do_floppy = fd.do_floppy /\ R.start = fd.start
      /\ R.current_track = fd.current_track /\ R.seek_track = fd.seek_track
      /\ R.seek = fd.seek /\ R.reset = fd.reset /\ R.recalibrate = fd.recalibrate
      /\ R.DOR.drive = (IF fd.selected THEN fd.DOR.drive ELSE nr)
      /\ R.DOR.motors = fd.DOR.motors \cup {nr}
      /\ R.moff_timer[nr] = Keep
      /\ \A d \in Drives \ {nr} : /\ R.moff_timer[d] = fd.moff_timer[d]
                                  /\ R.mon_timer[d] = fd.mon_timer[d]
      /\ nr \in fd.DOR.motors =>
           /\ R.mon_timer[nr] >= fd.mon_timer[nr]
           /\ R.mon_timer[nr] <= fd.mon_timer[nr] \/ R.mon_timer[nr] <= Settle
           /\ fd.selected => R.mon_timer[nr] = fd.mon_timer[nr]
  BY <1>1, <1>3, ticks_to_floppy_onDoes
<1> HIDE DEF R
<1>5. ASSUME fd.current_drive \in fd.DOR.motors, fd.current_drive \in Drives
      PROVE  LET m == fd.mon_timer[fd.current_drive]
                 n == R.mon_timer[fd.current_drive]
             IN  /\ n >= m /\ (n <= m \/ n <= Settle) /\ (fd.selected => n = m)
                 /\ \/ R.moff_timer[fd.current_drive] >= fd.moff_timer[fd.current_drive]
                    \/ R.moff_timer[fd.current_drive] >= Off
  <2> DEFINE cd == fd.current_drive
  <2>1. CASE cd = nr
    <3>1. R.moff_timer[cd] >= Off
      BY <1>4, <2>1, Numbers
    <3> QED
      BY <1>4, <1>5, <2>1, <3>1
  <2>2. CASE cd # nr
    <3>1. R.moff_timer[cd] = fd.moff_timer[cd] /\ R.mon_timer[cd] = fd.mon_timer[cd]
      BY <1>4, <1>5, <2>2
    <3>2. fd.moff_timer[cd] \in Nat /\ fd.mon_timer[cd] \in Nat
      BY <1>1, <1>5, FdFacts
    <3> QED
      BY <3>1, <3>2
  <2> QED
    BY <2>1, <2>2
<1>6. DriverOK(R, headAt, busy, 0)
  BY <1>1, <1>4, <1>5, CountersKept
<1>7. ChangerType'
  BY <1>1, <1>2 DEF ChangerType
<1>8. DriverOK(fd', headAt', busy', 0)
  BY <1>2, <1>6
<1> QED
  BY <1>1, <1>2, <1>4, <1>7, <1>8 DEF FloppyIInv, FloppyTypeOK

LEMMA ChangeSelectKeeps ==
  ASSUME FloppyIInv, ChangeSelect
  PROVE  FloppyIInv'
<1> DEFINE nr == changer.nr
           R == [fd EXCEPT !.moff_timer[nr] = Off]
<1>1. /\ fd \in FdType /\ fd.start = NoCommand /\ headAt \in [Drives -> Tracks]
      /\ ChangerType /\ DriverOK(fd, headAt, busy, 0)
      /\ busy \in Commands /\ busy.age <= MaxOp /\ (busy.op = "none" => busy = NoCommand)
  BY DEF FloppyIInv, FloppyTypeOK
<1>2. busy' = busy /\ headAt' = headAt /\ changer.pc = "select"
  BY DEF ChangeSelect
<1>3. nr \in Drives
  BY <1>1, <1>2 DEF ChangerType
<1>4. ChangerType'
  BY <1>1 DEF ChangeSelect, ChangerType
<1>5. CASE fd' = fd
  <2>1. DriverOK(fd', headAt', busy', 0)
    BY <1>1, <1>2, <1>5
  <2> QED
    BY <1>1, <1>2, <1>4, <1>5, <2>1 DEF FloppyIInv, FloppyTypeOK
<1>6. CASE fd' = R
  <2>1. R \in FdType
    BY <1>1, <1>3, FdFacts, Numbers DEF FdType
  <2>2. /\ R.queue = fd.queue /\ R.selected = fd.selected /\ R.current_drive = fd.current_drive
        /\ R.timers = fd.timers /\ R.do_floppy = fd.do_floppy /\ R.start = fd.start
        /\ R.current_track = fd.current_track /\ R.seek_track = fd.seek_track
        /\ R.seek = fd.seek /\ R.reset = fd.reset /\ R.recalibrate = fd.recalibrate
        /\ R.DOR = fd.DOR /\ R.mon_timer = fd.mon_timer
        /\ R.moff_timer = [fd.moff_timer EXCEPT ![nr] = Off]
    BY <1>1 DEF FdType
  <2> HIDE DEF R
  <2>3. ASSUME fd.current_drive \in fd.DOR.motors, fd.current_drive \in Drives
        PROVE  LET m == fd.mon_timer[fd.current_drive]
                   n == R.mon_timer[fd.current_drive]
               IN  /\ n >= m /\ (n <= m \/ n <= Settle) /\ (fd.selected => n = m)
                   /\ \/ R.moff_timer[fd.current_drive] >= fd.moff_timer[fd.current_drive]
                      \/ R.moff_timer[fd.current_drive] >= Off
    <3>1. /\ fd.moff_timer \in [Drives -> Nat] /\ fd.mon_timer[fd.current_drive] \in Nat
          /\ fd.moff_timer[fd.current_drive] \in Nat
      BY <1>1, <2>3, FdFacts
    <3>2. CASE fd.current_drive = nr
      BY <1>3, <2>2, <3>1, <3>2, Numbers
    <3>3. CASE fd.current_drive # nr
      <4>1. R.moff_timer[fd.current_drive] = fd.moff_timer[fd.current_drive]
        BY <2>2, <2>3, <3>1, <3>3
      <4> QED
        BY <2>2, <3>1, <4>1
    <3> QED
      BY <3>2, <3>3
  <2>4. DriverOK(R, headAt, busy, 0)
    BY <1>1, <2>1, <2>2, <2>3, CountersKept
  <2>5. DriverOK(fd', headAt', busy', 0)
    BY <1>2, <1>6, <2>4
  <2> QED
    BY <1>1, <1>2, <1>4, <1>6, <2>1, <2>2, <2>5 DEF FloppyIInv, FloppyTypeOK
<1> QED
  BY <1>5, <1>6 DEF ChangeSelect

----------------------------------------------------------------------------
LEMMA InitOK == FloppyInit => FloppyIInv
<1> SUFFICES ASSUME FloppyInit PROVE FloppyIInv
  OBVIOUS
<1>1. NoCommand \in Commands /\ NoCommand.op = "none" /\ NoCommand.age = 0
  BY DEF NoCommand, Commands
<1>2. << >> \in Seq(Requests) /\ << >> \in Seq(Timers)
  OBVIOUS
<1>3. [drive |-> 0, motors |-> {}] \in [drive : Nat, motors : SUBSET Drives]
  OBVIOUS
<1>4. [d \in Drives |-> 0] \in [Drives -> Nat]
  OBVIOUS
<1>5. Unknown \in Nat
  BY DEF Unknown
<1>6. fd \in FdType /\ fd.start = NoCommand
  <2> HIDE DEF NoCommand
  <2> QED
    BY <1>1, <1>2, <1>3, <1>4, <1>5 DEF FloppyInit, FdType
<1>7. /\ fd.queue = << >> /\ fd.selected = FALSE /\ fd.timers = << >> /\ fd.do_floppy = "none"
      /\ fd.current_track = Unknown
  BY DEF FloppyInit
<1>8. busy = NoCommand /\ headAt \in [Drives -> Tracks]
      /\ changer = [pc |-> "idle", nr |-> 0]
  BY DEF FloppyInit
<1>9. DriverOK(fd, headAt, busy, 0)
  BY <1>7, <1>8 DEF DriverOK, SelectedFor, Resting, Believed
<1>10. ChangerType
  BY <1>8 DEF ChangerType
<1>11. busy.age <= MaxOp
  BY <1>1, <1>8, Numbers
<1> QED
  BY <1>1, <1>6, <1>8, <1>9, <1>10, <1>11 DEF FloppyIInv, FloppyTypeOK

LEMMA NextOK ==
  ASSUME FloppyIInv, [FloppyNext]_floppyVars, "late" \notin Races, "beyond" \notin Races
  PROVE  FloppyIInv'
<1>1. CASE UNCHANGED floppyVars
  BY <1>1 DEF floppyVars, FloppyIInv, FloppyTypeOK, ChangerType
<1>2. ASSUME NEW dead \in BOOLEAN, NEW d \in Drives, NEW t \in Tracks \cup {Beyond},
             NewRequest(d, t, dead)
      PROVE  FloppyIInv'
  BY <1>2, NewRequestKeeps
<1>3. ASSUME NEW dead \in BOOLEAN, do_timer(dead) PROVE FloppyIInv'
  BY <1>3, do_timerKeeps
<1>4. ASSUME NEW dead \in BOOLEAN, NEW ok \in BOOLEAN, floppy_interrupt(ok, dead)
      PROVE  FloppyIInv'
  BY <1>4, floppy_interruptKeeps
<1>5. ASSUME NEW dead \in BOOLEAN, WriteProtected(dead) PROVE FloppyIInv'
  BY <1>5, WriteProtectedKeeps
<1>6. ASSUME NEW ok \in BOOLEAN, unexpected_floppy_interrupt(ok) PROVE FloppyIInv'
  BY <1>6, unexpectedKeeps
<1>7. ASSUME NEW nr \in Drives, ChangeStart(nr) PROVE FloppyIInv'
  BY <1>7, ChangeStartKeeps
<1>8. CASE ChangeOn
  BY <1>8, ChangeOnKeeps
<1>9. CASE ChangeSelect
  BY <1>9, ChangeSelectKeeps
<1> QED
  BY <1>1, <1>2, <1>3, <1>4, <1>5, <1>6, <1>7, <1>8, <1>9 DEF FloppyNext

(* What the invariant says of the properties. *)
LEMMA InvGives == FloppyIInv => OneThing /\ TransferReady /\ HeadsKnown
<1> SUFFICES ASSUME FloppyIInv PROVE OneThing /\ TransferReady /\ HeadsKnown
  OBVIOUS
<1>1. fd \in FdType /\ busy \in Commands /\ DriverOK(fd, headAt, busy, 0)
      /\ (busy.op = "none" => busy = NoCommand)
  BY DEF FloppyIInv, FloppyTypeOK
<1>2. NoCommand.op = "none"
  BY DEF NoCommand
<1>3. CASE busy = NoCommand
  <2>1. ~(busy.op # "none")
    BY <1>2, <1>3
  <2>2. Waiting(fd, headAt, 0) \/ (fd.timers = << >> /\ Resting(fd, headAt))
    BY <1>1, <2>1 DEF DriverOK
  <2>3. fd.do_floppy = "none" /\ Len(fd.timers) <= 1
    <3>1. Len(<< >>) <= 1
      OBVIOUS
    <3>2. Waiting(fd, headAt, 0) => Len(fd.timers) <= 1
      BY DEF Waiting
    <3> QED
      BY <2>2, <3>1, <3>2 DEF Waiting, Resting
  <2>4. fd.queue # << >> => fd.timers # << >>
    <3>1. Len(<< >>) # 1
      OBVIOUS
    <3> QED
      BY <2>2, <3>1, Zenon DEF Waiting, Resting
  <2>5. fd.selected => fd.queue # << >>
    BY <1>1 DEF DriverOK, SelectedFor
  <2> QED
    BY <1>3, <2>1, <2>3, <2>4, <2>5 DEF OneThing, TransferReady, HeadsKnown
<1>4. CASE busy # NoCommand
  <2>1. fd.timers = << >> /\ Working(fd, headAt, busy, 0) /\ SelectedFor(fd)
    BY <1>1, <1>4 DEF DriverOK
  <2>2. fd.do_floppy # "none"
    BY <2>1 DEF Working, Transferring, Seeking, Recalibrating, Resetting
  <2>3. Len(<< >>) <= 1
    OBVIOUS
  <2>4. OneThing
    BY <1>4, <2>1, <2>2, <2>3 DEF OneThing, SelectedFor
  <2>5. CASE busy.op = "rw"
    <3>1. Transferring(fd, headAt, busy, 0)
      BY <2>1, <2>5 DEF Working, Seeking, Recalibrating, Resetting
    <3>2. /\ Aimed(fd) /\ OnTrack(fd, headAt) /\ Ready(fd, 0)
          /\ busy.drive = fd.current_drive /\ busy.track = fd.seek_track
      BY <3>1 DEF Transferring
    <3>3. HeadsKnown
      BY <3>2 DEF HeadsKnown, OnTrack
    <3>4. fd.mon_timer[fd.current_drive] < Settle
      <4>1. fd.mon_timer[fd.current_drive] < Settle + 0
        BY <3>2 DEF Ready
      <4> QED
        BY <4>1, Numbers
    <3>5. TransferReady
      BY <3>2, <3>4 DEF TransferReady, Aimed, Ready, Turning
    <3> QED
      BY <2>4, <3>3, <3>5
  <2>6. CASE busy.op # "rw"
    BY <2>4, <2>6 DEF TransferReady, HeadsKnown
  <2> QED
    BY <2>5, <2>6
<1> QED
  BY <1>3, <1>4

(* The floppy driver does one thing at a time, transfers only when the     *)
(* drive is ready, and knows where the heads are: for any number of drives *)
(* and tracks, any delays as FloppyAssumption orders them and any faults.  *)
(* The hypothesis leaves out a request that finds the queue empty and the  *)
(* controller busy, and one past the end of the disk.                      *)
THEOREM FloppyInvariant ==
  ASSUME "late" \notin Races, "beyond" \notin Races
  PROVE  FloppySpec => []FloppyIInv
<1>1. FloppyInit => FloppyIInv
  BY InitOK
<1>2. FloppyIInv /\ [FloppyNext]_floppyVars => FloppyIInv'
  BY NextOK
<1> QED
  BY <1>1, <1>2, PTL DEF FloppySpec

(* do_fd_request(), the timers and the interrupts never overlap.           *)
THEOREM FloppyOneThing ==
  ASSUME "late" \notin Races, "beyond" \notin Races
  PROVE  FloppySpec => []OneThing
<1>1. FloppyIInv => OneThing
  BY InvGives
<1> QED
  BY <1>1, FloppyInvariant, PTL

(* setup_rw_floppy() starts only on the request's drive, selected and up   *)
(* to speed.                                                               *)
THEOREM FloppyReady ==
  ASSUME "late" \notin Races, "beyond" \notin Races
  PROVE  FloppySpec => []TransferReady
<1>1. FloppyIInv => TransferReady
  BY InvGives
<1> QED
  BY <1>1, FloppyInvariant, PTL

(* current_track is true whenever a transfer is started without a seek.    *)
THEOREM FloppyOnTrack ==
  ASSUME "late" \notin Races, "beyond" \notin Races
  PROVE  FloppySpec => []HeadsKnown
<1>1. FloppyIInv => HeadsKnown
  BY InvGives
<1> QED
  BY <1>1, FloppyInvariant, PTL

----------------------------------------------------------------------------
(* The terminal, for any number of readers and writers and queues of any   *)
(* length.                                                                 *)

Kept == {"c", "nl", "eof"}

(* Where the lines end in a queue.                                         *)
Finished(s) == {i \in DOMAIN s : LineEnd(s[i])}

LEMMA FinishedFinite ==
  ASSUME NEW S, NEW s \in Seq(S)
  PROVE  /\ Finished(s) = {i \in 1 .. Len(s) : LineEnd(s[i])}
         /\ IsFiniteSet(Finished(s)) /\ Cardinality(Finished(s)) \in Nat
<1>1. DOMAIN s = 1 .. Len(s) /\ Len(s) \in Nat
  OBVIOUS
<1>2. Finished(s) \in SUBSET (1 .. Len(s))
  BY <1>1 DEF Finished
<1>3. IsFiniteSet(Finished(s))
  <2>1. Len(s) \in Int /\ 1 \in Int
    OBVIOUS
  <2> DEFINE n == Len(s)
             F == Finished(s)
  <2>2. n \in Int /\ F \in SUBSET (1 .. n)
    BY <1>2, <2>1
  <2> HIDE DEF n, F
  <2>3. IsFiniteSet(F)
    BY <2>1, <2>2, IntervalFinite
  <2> QED
    BY <2>3 DEF F
<1> QED
  BY <1>1, <1>3, FS_CardinalityType DEF Finished

LEMMA FinishedAppend ==
  ASSUME NEW S, NEW s \in Seq(S), NEW c \in S
  PROVE  Cardinality(Finished(Append(s, c)))
           = Cardinality(Finished(s)) + (IF LineEnd(c) THEN 1 ELSE 0)
<1> DEFINE t == Append(s, c)
           n == Len(s) + 1
<1>1. /\ t \in Seq(S) /\ Len(t) = n /\ n \in Nat /\ t[n] = c
      /\ \A i \in 1 .. Len(s) : t[i] = s[i]
  OBVIOUS
<1>2. Finished(s) = {i \in 1 .. Len(s) : LineEnd(s[i])}
      /\ IsFiniteSet(Finished(s)) /\ Cardinality(Finished(s)) \in Nat
  BY FinishedFinite
<1>3. Finished(t) = {i \in 1 .. Len(t) : LineEnd(t[i])}
  BY <1>1, FinishedFinite
<1> HIDE DEF t
<1>4. n \notin Finished(s)
  BY <1>2
<1>5. Finished(t) = IF LineEnd(c) THEN Finished(s) \cup {n} ELSE Finished(s)
  <2>1. 1 .. Len(t) = 1 .. Len(s) \cup {n} /\ n \notin 1 .. Len(s)
    BY <1>1
  <2>2. \A i \in 1 .. Len(t) : LineEnd(t[i]) <=> (i \in Finished(s) \/ (i = n /\ LineEnd(c)))
    BY <1>1, <1>2, <2>1
  <2> HIDE DEF n
  <2>3. Finished(s) \subseteq 1 .. Len(t)
    BY <1>2, <2>1
  <2> QED
    BY <1>3, <2>1, <2>2, <2>3
<1>6. Cardinality(Finished(t)) = Cardinality(Finished(s)) + (IF LineEnd(c) THEN 1 ELSE 0)
  <2> DEFINE F == Finished(s)
  <2> HIDE DEF F, n
  <2>1. Cardinality(F \cup {n}) = Cardinality(F) + 1
    BY <1>2, <1>4, FS_AddElement DEF F
  <2>2. Cardinality(F) \in Nat
    BY <1>2 DEF F
  <2> QED
    BY <1>5, <2>1, <2>2 DEF F
<1> QED
  BY <1>6 DEF t

(* What follows the last line end may be cut off.                          *)
LEMMA FinishedCut ==
  ASSUME NEW S, NEW s \in Seq(S), NEW k \in 0 .. Len(s), \A i \in Finished(s) : i <= k
  PROVE  LET t == SubSeq(s, 1, k)
         IN  t \in Seq(S) /\ Len(t) = k /\ Finished(t) = Finished(s)
<1> DEFINE t == SubSeq(s, 1, k)
<1>1. t \in Seq(S) /\ Len(t) = k /\ \A i \in 1 .. k : t[i] = s[i]
  OBVIOUS
<1>2. Finished(s) = {i \in 1 .. Len(s) : LineEnd(s[i])}
  BY FinishedFinite
<1>3. Finished(t) = {i \in 1 .. Len(t) : LineEnd(t[i])}
  BY <1>1, FinishedFinite
<1> HIDE DEF t
<1>4. \A i \in 1 .. k : i \in 1 .. Len(s)
  OBVIOUS
<1>5. \A i \in Finished(s) : i \in 1 .. k
  BY <1>2
<1>6. Finished(t) = Finished(s)
  BY <1>1, <1>2, <1>3, <1>4, <1>5
<1> QED
  BY <1>1, <1>6 DEF t

LEMMA KilledIs ==
  ASSUME NEW S, NEW s \in Seq(S)
  PROVE  /\ Killed(s) \in Seq(S) /\ Len(Killed(s)) <= Len(s)
         /\ Finished(Killed(s)) = Finished(s)
<1> DEFINE ends == Finished(s)
           keep == CHOOSE i \in {0} \cup ends : \A j \in ends : j <= i
<1>1. Killed(s) = SubSeq(s, 1, keep)
  BY DEF Killed, Finished
<1>2. ends \subseteq 1 .. Len(s) /\ IsFiniteSet(ends)
  BY FinishedFinite
<1>3. \E i \in {0} \cup ends : \A j \in ends : j <= i
  <2>1. CASE ends = {}
    BY <2>1
  <2>2. CASE ends # {}
    <3>1. ends \in SUBSET Int
      BY <1>2
    <3> HIDE DEF ends
    <3> QED
      BY <1>2, <2>2, <3>1, LargestExists
  <2> QED
    BY <2>1, <2>2
<1>4. keep \in {0} \cup ends /\ \A j \in ends : j <= keep
  BY <1>3
<1> HIDE DEF keep
<1>5. keep \in 0 .. Len(s)
  <2>1. Len(s) \in Nat
    OBVIOUS
  <2> QED
    BY <1>2, <1>4, <2>1
<1>6. Killed(s) \in Seq(S) /\ Len(Killed(s)) = keep /\ Finished(Killed(s)) = Finished(s)
  BY <1>1, <1>4, <1>5, FinishedCut
<1> QED
  BY <1>5, <1>6

(* The last character is erased if it does not end a line. *)
LEMMA FrontIs ==
  ASSUME NEW S, NEW s \in Seq(S), Erasable(s)
  PROVE  Front(s) \in Seq(S) /\ Finished(Front(s)) = Finished(s)
<1>1. s # << >> /\ ~LineEnd(s[Len(s)])
  BY DEF Erasable, Last
<1>2. Len(s) \in Nat /\ Len(s) >= 1
  BY <1>1
<1>3. Len(s) - 1 \in 0 .. Len(s)
  BY <1>2
<1>4. \A i \in Finished(s) : i <= Len(s) - 1
  <2>1. Finished(s) = {i \in 1 .. Len(s) : LineEnd(s[i])}
    BY FinishedFinite
  <2>2. Len(s) \notin Finished(s)
    BY <1>1, <2>1
  <2> QED
    BY <1>2, <2>1, <2>2
<1>5. Front(s) = SubSeq(s, 1, Len(s) - 1)
  BY DEF Front
<1> QED
  BY <1>3, <1>4, <1>5, FinishedCut

LEMMA FinishedTail ==
  ASSUME NEW S, NEW s \in Seq(S), s # << >>
  PROVE  /\ Tail(s) \in Seq(S) /\ Head(s) \in S
         /\ Cardinality(Finished(s))
              = Cardinality(Finished(Tail(s))) + (IF LineEnd(Head(s)) THEN 1 ELSE 0)
<1> DEFINE t == Tail(s)
           F == Finished(s)
           G == Finished(t)
           f == [i \in G |-> i + 1]
<1>1. /\ t \in Seq(S) /\ Len(t) = Len(s) - 1 /\ Len(s) \in Nat /\ Len(s) >= 1
      /\ \A i \in 1 .. Len(s) - 1 : t[i] = s[i + 1]
      /\ Head(s) = s[1] /\ Head(s) \in S
  OBVIOUS
<1>2. F = {i \in 1 .. Len(s) : LineEnd(s[i])} /\ IsFiniteSet(F) /\ Cardinality(F) \in Nat
  BY FinishedFinite
<1>3. G = {i \in 1 .. Len(t) : LineEnd(t[i])} /\ IsFiniteSet(G) /\ Cardinality(G) \in Nat
  BY <1>1, FinishedFinite
<1> HIDE DEF t, F, G
<1>4. \A i \in G : i \in Nat /\ i + 1 \in F \ {1}
  <2> SUFFICES ASSUME NEW i \in G PROVE i \in Nat /\ i + 1 \in F \ {1}
    OBVIOUS
  <2>1. i \in 1 .. Len(s) - 1 /\ LineEnd(t[i])
    BY <1>1, <1>3
  <2>2. i + 1 \in 1 .. Len(s) /\ LineEnd(s[i + 1])
    BY <1>1, <2>1
  <2>3. i \in Nat /\ i + 1 # 1
    BY <2>1
  <2> QED
    BY <1>2, <2>2, <2>3
<1>5. \A j \in F \ {1} : j - 1 \in G /\ (j - 1) + 1 = j
  <2> SUFFICES ASSUME NEW j \in F \ {1} PROVE j - 1 \in G /\ (j - 1) + 1 = j
    OBVIOUS
  <2>1. j \in 1 .. Len(s) /\ LineEnd(s[j]) /\ j # 1
    BY <1>2
  <2>2. j - 1 \in 1 .. Len(s) - 1 /\ (j - 1) + 1 = j
    BY <1>1, <2>1
  <2>3. t[j - 1] = s[(j - 1) + 1]
    BY <1>1, <2>2
  <2>4. LineEnd(t[j - 1])
    BY <2>1, <2>2, <2>3
  <2> QED
    BY <1>1, <1>3, <2>2, <2>4
<1>6. f \in Bijection(G, F \ {1})
  <2>1. f \in [G -> F \ {1}]
    BY <1>4
  <2>2. \A a, b \in G : f[a] = f[b] => a = b
    BY <1>4
  <2>3. \A j \in F \ {1} : \E i \in G : f[i] = j
    BY <1>5
  <2> HIDE DEF f
  <2> QED
    BY <2>1, <2>2, <2>3 DEF Bijection, Injection, Surjection, IsInjective
<1>7. Cardinality(F \ {1}) = Cardinality(G)
  BY <1>3, <1>6, FS_Bijection DEF ExistsBijection
<1>8. 1 \in F <=> LineEnd(Head(s))
  BY <1>1, <1>2
<1>9. Cardinality(F \ {1}) = IF 1 \in F THEN Cardinality(F) - 1 ELSE Cardinality(F)
  BY <1>2, FS_RemoveElement
<1>10. Cardinality(F) = Cardinality(G) + (IF LineEnd(Head(s)) THEN 1 ELSE 0)
  BY <1>2, <1>3, <1>7, <1>8, <1>9
<1> QED
  BY <1>1, <1>10 DEF t, F, G

(* The line discipline's state: its data is k more than there are lines in *)
(* the queue, and stays so.                                                *)
LineStates(k) ==
  {q \in [rest : Seq(Chars), sec : Seq(Kept), data : Int, echo : Nat, intr : BOOLEAN] :
     q.data = Cardinality(Finished(q.sec)) + k}

LEMMA CookCharOK ==
  ASSUME NEW k \in Int, NEW q \in LineStates(k), NEW c \in Chars
  PROVE  CookChar(q, c) \in LineStates(k)
<1>1. /\ q \in [rest : Seq(Chars), sec : Seq(Kept), data : Int, echo : Nat, intr : BOOLEAN]
      /\ q.data = Cardinality(Finished(q.sec)) + k
      /\ q.rest \in Seq(Chars) /\ q.sec \in Seq(Kept) /\ q.data \in Int /\ q.echo \in Nat
      /\ q.intr \in BOOLEAN
  BY DEF LineStates
<1> DEFINE full == [q EXCEPT !.rest = Append(@, c)]
           killed == [q EXCEPT !.sec = Killed(@), !.echo = @ + Len(q.sec) - Len(Killed(q.sec))]
           erased == [q EXCEPT !.sec = Front(@), !.echo = @ + 1]
           intr == [q EXCEPT !.intr = TRUE]
           put == [q EXCEPT !.sec = Append(@, Plain(c)),
                            !.data = IF LineEnd(c) THEN @ + 1 ELSE @,
                            !.echo = IF cooked THEN @ + Echo(c) ELSE @]
<1>2. CookChar(q, c) \in {full, killed, intr, put, q} \/ (Erasable(q.sec) /\ CookChar(q, c) = erased)
  <2> HIDE DEF full, killed, erased, intr, put
  <2>1. CookChar(q, c) = IF FULL(Len(q.sec)) THEN full
                         ELSE IF cooked /\ c = "kill" THEN killed
                         ELSE IF cooked /\ c = "erase"
                         THEN IF Erasable(q.sec) THEN erased ELSE q
                         ELSE IF cooked /\ c = "intr" THEN intr ELSE put
    BY DEF CookChar, full, killed, erased, intr, put
  <2> QED
    BY <2>1
<1>3. full \in LineStates(k)
  <2>1. Append(q.rest, c) \in Seq(Chars)
    BY <1>1
  <2> QED
    BY <1>1, <2>1 DEF LineStates
<1>4. killed \in LineStates(k)
  <2> DEFINE s == Killed(q.sec)
             e == q.echo + Len(q.sec) - Len(s)
  <2>1. s \in Seq(Kept) /\ Len(s) <= Len(q.sec) /\ Finished(s) = Finished(q.sec)
    BY <1>1, KilledIs
  <2>2. Len(s) \in Nat /\ Len(q.sec) \in Nat
    <3> HIDE DEF s
    <3> QED
      BY <1>1, <2>1
  <2>3. e \in Nat
    BY <1>1, <2>1, <2>2
  <2>4. killed = [q EXCEPT !.sec = s, !.echo = e]
    BY <1>1
  <2> HIDE DEF s, e, killed
  <2>5. /\ killed \in [rest : Seq(Chars), sec : Seq(Kept), data : Int, echo : Nat, intr : BOOLEAN]
        /\ killed.sec = s /\ killed.data = q.data
    BY <1>1, <2>1, <2>3, <2>4
  <2> QED
    BY <1>1, <2>1, <2>5 DEF LineStates
<1>5. Erasable(q.sec) => erased \in LineStates(k)
  <2> SUFFICES ASSUME Erasable(q.sec) PROVE erased \in LineStates(k)
    OBVIOUS
  <2> DEFINE s == Front(q.sec)
             e == q.echo + 1
  <2>1. s \in Seq(Kept) /\ Finished(s) = Finished(q.sec)
    BY <1>1, FrontIs
  <2>2. erased = [q EXCEPT !.sec = s, !.echo = e]
    BY <1>1
  <2>3. e \in Nat
    BY <1>1
  <2> HIDE DEF s, e, erased
  <2>4. /\ erased \in [rest : Seq(Chars), sec : Seq(Kept), data : Int, echo : Nat, intr : BOOLEAN]
        /\ erased.sec = s /\ erased.data = q.data
    BY <1>1, <2>1, <2>2, <2>3
  <2> QED
    BY <1>1, <2>1, <2>4 DEF LineStates
<1>6. intr \in LineStates(k)
  BY <1>1 DEF LineStates
<1>7. put \in LineStates(k)
  <2> DEFINE p == Plain(c)
             s == Append(q.sec, p)
             n == IF LineEnd(c) THEN q.data + 1 ELSE q.data
             e == IF cooked THEN q.echo + Echo(c) ELSE q.echo
  <2>1. p \in Kept /\ (LineEnd(p) <=> LineEnd(c))
    BY DEF Plain, LineEnd, Kept
  <2>2. n \in Int /\ e \in Nat
    BY <1>1 DEF Echo
  <2> HIDE DEF p
  <2>3. s \in Seq(Kept)
    BY <1>1, <2>1
  <2>4. Cardinality(Finished(s))
          = Cardinality(Finished(q.sec)) + (IF LineEnd(p) THEN 1 ELSE 0)
    BY <1>1, <2>1, FinishedAppend
  <2>5. n = Cardinality(Finished(s)) + k
    <3>1. Cardinality(Finished(q.sec)) \in Nat
      BY <1>1, FinishedFinite
    <3> HIDE DEF s
    <3> QED
      BY <1>1, <2>1, <2>4, <3>1
  <2>6. put = [q EXCEPT !.sec = s, !.data = n, !.echo = e]
    BY <1>1 DEF p
  <2> HIDE DEF s, n, e, put
  <2>7. /\ put \in [rest : Seq(Chars), sec : Seq(Kept), data : Int, echo : Nat, intr : BOOLEAN]
        /\ put.sec = s /\ put.data = n
    BY <1>1, <2>2, <2>3, <2>6
  <2> QED
    BY <2>5, <2>7 DEF LineStates
<1> QED
  BY <1>2, <1>3, <1>4, <1>5, <1>6, <1>7

(* f goes through the characters of rq one by one.                         *)
Cooks(f, rq, m) ==
  f = [i \in 0 .. m |-> IF i = 0 THEN Uncooked ELSE CookChar(f[i - 1], rq[i])]

(* The recursion of copy_to_cooked() has a value: a shortest queue without *)
(* one would have one, by one more character.                              *)
LEMMA CooksExists ==
  ASSUME NEW rq, NEW n \in Nat
  PROVE  \E f : Cooks(f, rq, n)
<1> DEFINE Bad == {m \in Nat : ~ \E f : Cooks(f, rq, m)}
<1>1. CASE Bad = {}
  BY <1>1
<1>2. CASE Bad # {}
  <2>1. Bad \in SUBSET Nat
    OBVIOUS
  <2>2. PICK m \in Bad : \A k \in Bad : m <= k
    <3> HIDE DEF Bad
    <3> QED
      BY <1>2, <2>1, SmallestExists
  <2>3. m \in Nat /\ ~ \E f : Cooks(f, rq, m)
    OBVIOUS
  <2>4. CASE m = 0
    <3> DEFINE f == [i \in 0 .. 0 |-> Uncooked]
    <3>1. \A i \in 0 .. 0 : i = 0
      OBVIOUS
    <3>2. f = [i \in 0 .. 0 |-> IF i = 0 THEN Uncooked ELSE CookChar(f[i - 1], rq[i])]
      BY <3>1
    <3>3. Cooks(f, rq, m)
      BY <2>4, <3>2 DEF Cooks
    <3> QED
      BY <2>3, <3>3
  <2>5. CASE m # 0
    <3>1. m - 1 \in Nat /\ m - 1 < m
      BY <2>3, <2>5
    <3>2. m - 1 \notin Bad
      BY <2>2, <2>3, <3>1
    <3>3. PICK g : Cooks(g, rq, m - 1)
      BY <3>1, <3>2
    <3>4. \A i \in 0 .. m - 1 : g[i] = IF i = 0 THEN Uncooked ELSE CookChar(g[i - 1], rq[i])
      BY <3>3 DEF Cooks
    <3> DEFINE f == [i \in 0 .. m |-> IF i = m THEN CookChar(g[m - 1], rq[m]) ELSE g[i]]
    <3>5. ASSUME NEW i \in 0 .. m
          PROVE  f[i] = IF i = 0 THEN Uncooked ELSE CookChar(f[i - 1], rq[i])
      <4>1. CASE i = 0
        <5>1. f[i] = g[i] /\ i \in 0 .. m - 1
          BY <2>5, <3>1, <4>1
        <5> QED
          BY <3>4, <4>1, <5>1
      <4>2. CASE i # 0 /\ i # m
        <5>1. f[i] = g[i] /\ i \in 0 .. m - 1 /\ i - 1 \in 0 .. m /\ i - 1 # m
          BY <2>3, <4>2
        <5>2. f[i - 1] = g[i - 1]
          BY <5>1
        <5> QED
          BY <3>4, <4>2, <5>1, <5>2
      <4>3. CASE i = m
        <5>1. m - 1 \in 0 .. m /\ m - 1 # m /\ m \in 0 .. m
          BY <2>3, <3>1
        <5>2. f[m - 1] = g[m - 1] /\ f[m] = CookChar(g[m - 1], rq[m])
          BY <5>1
        <5> QED
          BY <2>5, <4>3, <5>2
      <4> QED
        BY <4>1, <4>2, <4>3
    <3>6. f = [i \in 0 .. m |-> f[i]]
      OBVIOUS
    <3> HIDE DEF f
    <3>7. Cooks(f, rq, m)
      BY <3>5, <3>6 DEF Cooks
    <3> QED
      BY <2>3, <3>7
  <2> QED
    BY <2>4, <2>5
<1> QED
  BY <1>1, <1>2

LEMMA CookedOK ==
  ASSUME NEW k \in Int, Uncooked \in LineStates(k), NEW rq \in Seq(Chars)
  PROVE  copy_to_cooked(rq) \in LineStates(k)
<1> DEFINE n == Len(rq)
           f == CHOOSE g : Cooks(g, rq, n)
<1>1. n \in Nat /\ \A i \in 1 .. n : rq[i] \in Chars
  OBVIOUS
<1>2. Cooks(f, rq, n)
  BY <1>1, CooksExists
<1>3. copy_to_cooked(rq) = f[n]
  BY DEF copy_to_cooked, Cooks
<1> HIDE DEF f, n
<1>4. \A i \in 0 .. n : f[i] = IF i = 0 THEN Uncooked ELSE CookChar(f[i - 1], rq[i])
  BY <1>2 DEF Cooks
<1> DEFINE Bad == {i \in 0 .. n : f[i] \notin LineStates(k)}
<1>5. CASE Bad = {}
  <2>1. n \in 0 .. n
    BY <1>1
  <2> QED
    BY <1>3, <1>5, <2>1
<1>6. CASE Bad # {}
  <2>1. Bad \in SUBSET Nat
    OBVIOUS
  <2>2. PICK m \in Bad : \A j \in Bad : m <= j
    <3> HIDE DEF Bad
    <3> QED
      BY <1>6, <2>1, SmallestExists
  <2>3. m \in 0 .. n /\ f[m] \notin LineStates(k)
    OBVIOUS
  <2>4. m # 0
    BY <1>4, <2>3
  <2>5. m - 1 \in 0 .. n /\ ~ (m <= m - 1) /\ m \in 1 .. n
    BY <1>1, <2>3, <2>4
  <2>6. f[m - 1] \in LineStates(k)
    BY <2>2, <2>5
  <2>7. f[m] \in LineStates(k)
    BY <1>1, <1>4, <2>3, <2>4, <2>5, <2>6, CookCharOK
  <2> QED
    BY <2>3, <2>7
<1> QED
  BY <1>5, <1>6

----------------------------------------------------------------------------
Places(t) ==
  [pc : IF t \in Readers THEN {"user", "read", "empty", "get", "asleep"}
        ELSE {"user", "write", "full", "copy", "out", "asleep"},
   nr : Int, tmp : Tasks \cup {NoTask}]

QueuesTyped ==
  /\ cooked \in BOOLEAN /\ read_q \in Seq(Chars)
  /\ secondary \in Seq(Kept) /\ data \in Int
  /\ write_q \in 0 .. Capacity /\ txi \in BOOLEAN

TasksTyped ==
  /\ proc_list \in [{"secondary", "write_q"} -> Tasks \cup {NoTask}]
  /\ state \in [Tasks -> {"running", "interruptible"}]
  /\ signal \in [Tasks -> BOOLEAN]
  /\ current \in Tasks \cup {NoTask}

LocTyped == DOMAIN loc = Tasks /\ loc = [t \in Tasks |-> loc[t]] /\ \A t \in Tasks : loc[t] \in Places(t)

TtyTypeOK == QueuesTyped /\ TasksTyped /\ LocTyped

(* Unless an erase can come between a reader's test and its GETCH().       *)
There == Edits \/ secondary # << >>
Counted == Edits \/ data = Cardinality(Finished(secondary))

(* A reader about to take a character has the processor, and the character *)
(* is there.                                                               *)
CharThere == \A t \in Tasks : loc[t].pc = "get" => current = t /\ There

TtyIInv == TtyTypeOK /\ CharThere /\ Counted /\ TransmitOn

(* What a step of a task has to keep.                                      *)
LEMMA TaskMoves ==
  ASSUME TtyIInv, NEW t \in Tasks, current \in {t, NoTask}, current' \in {t, NoTask},
         NEW l \in Places(t), loc' = [loc EXCEPT ![t] = l],
         l.pc = "get" => current' = t /\ There',
         QueuesTyped', TasksTyped', Counted',
         \/ write_q' = write_q /\ txi' = txi /\ loc[t].pc \notin {"copy", "out"}
         \/ write_q' = 0 \/ txi'
         \/ t \in Writers /\ l.pc \in {"copy", "out"}
  PROVE  TtyIInv'
<1> USE DEF TtyIInv, TtyTypeOK
<1>1. DOMAIN loc = Tasks /\ \A s \in Tasks : loc[s] \in Places(s)
  BY DEF LocTyped
<1>2. DOMAIN loc' = Tasks /\ loc'[t] = l /\ \A s \in Tasks : s # t => loc'[s] = loc[s]
  BY <1>1
<1>3. LocTyped'
  <2>1. loc' = [s \in Tasks |-> loc'[s]]
    BY <1>1
  <2>2. \A s \in Tasks : loc'[s] \in Places(s)
    BY <1>1, <1>2
  <2> QED
    BY <1>2, <2>1, <2>2 DEF LocTyped, Places
<1>4. CharThere'
  <2> SUFFICES ASSUME NEW s \in Tasks, loc'[s].pc = "get"
               PROVE  current' = s /\ There'
    BY DEF CharThere
  <2>1. s = t
    <3>1. ASSUME s # t PROVE FALSE
      <4>1. current = s
        BY <1>2, <3>1 DEF CharThere
      <4> QED
        BY <3>1, <4>1, TtyAssumption
    <3> QED
      BY <3>1
  <2> QED
    BY <1>2, <2>1
<1>5. Counted'
  BY DEF Counted
<1>6. TransmitOn'
  <2> SUFFICES ASSUME write_q' > 0
               PROVE  txi' \/ \E w \in Writers : loc'[w].pc \in {"copy", "out"}
    BY DEF TransmitOn
  <2>1. CASE write_q' = write_q /\ txi' = txi /\ loc[t].pc \notin {"copy", "out"}
    <3>1. CASE txi
      BY <2>1, <3>1
    <3>2. CASE ~txi
      <4>1. PICK w \in Writers : loc[w].pc \in {"copy", "out"}
        BY <2>1, <3>2 DEF TransmitOn
      <4>2. w \in Tasks /\ w # t
        BY <2>1, <4>1 DEF Tasks
      <4>3. loc'[w] = loc[w]
        BY <1>2, <4>2
      <4> QED
        BY <4>1, <4>3
    <3> QED
      BY <3>1, <3>2
  <2>2. CASE write_q' = 0
    BY <2>2
  <2>3. CASE txi'
    BY <2>3
  <2>4. CASE t \in Writers /\ l.pc \in {"copy", "out"}
    BY <1>2, <2>4
  <2> QED
    BY <2>1, <2>2, <2>3, <2>4
<1> QED
  BY <1>3, <1>4, <1>5, <1>6

(* A step that leaves the queues alone.                                    *)
LEMMA TaskOnly ==
  ASSUME TtyIInv, NEW t \in Tasks, current \in {t, NoTask}, current' \in {t, NoTask},
         NEW l \in Places(t), loc' = [loc EXCEPT ![t] = l],
         l.pc = "get" => current' = t /\ There,
         UNCHANGED queueVars, TasksTyped',
         loc[t].pc \notin {"copy", "out"} \/ write_q = 0 \/ txi
  PROVE  TtyIInv'
<1>1. UNCHANGED <<cooked, read_q, secondary, data, write_q, txi>>
  BY DEF queueVars
<1>2. QueuesTyped' /\ Counted' /\ (There => There')
  BY <1>1 DEF TtyIInv, TtyTypeOK, QueuesTyped, Counted, There
<1> QED
  BY <1>1, <1>2, TaskMoves

PcOf(t) == IF t \in Readers THEN {"user", "read", "empty", "get", "asleep"}
           ELSE {"user", "write", "full", "copy", "out", "asleep"}

LEMMA PlacesAre == ASSUME NEW t PROVE Places(t) = [pc : PcOf(t), nr : Int, tmp : Tasks \cup {NoTask}]
  BY DEF Places, PcOf

LEMMA HomePlace ==
  ASSUME NEW t PROVE User \in Places(t) /\ User.pc = "user"
<1>1. "user" \in PcOf(t) /\ NoTask \in Tasks \cup {NoTask} /\ 0 \in Int
  BY DEF PcOf
<1> QED
  BY <1>1, PlacesAre DEF User

LEMMA PlaceIs ==
  ASSUME LocTyped, NEW t \in Tasks
  PROVE  loc[t] \in Places(t) /\ loc[t].pc \in PcOf(t) /\ loc[t].nr \in Int
  BY PlacesAre DEF LocTyped

LEMMA PlaceGoes ==
  ASSUME LocTyped, NEW t \in Tasks, NEW pc \in PcOf(t)
  PROVE  [loc[t] EXCEPT !.pc = pc] \in Places(t) /\ [loc[t] EXCEPT !.pc = pc].pc = pc
  BY PlaceIs, PlacesAre

LEMMA PlaceSleeps ==
  ASSUME LocTyped, NEW t \in Tasks, NEW pc \in PcOf(t), NEW p \in Tasks \cup {NoTask}
  PROVE  /\ [loc[t] EXCEPT !.pc = pc, !.tmp = p] \in Places(t)
         /\ [loc[t] EXCEPT !.pc = pc, !.tmp = p].pc = pc
  BY PlaceIs, PlacesAre

LEMMA PlaceCounts ==
  ASSUME LocTyped, NEW t \in Tasks, NEW n \in Int
  PROVE  [loc[t] EXCEPT !.nr = n] \in Places(t) /\ [loc[t] EXCEPT !.nr = n].pc = loc[t].pc
  BY PlaceIs, PlacesAre

LEMMA PlaceCalls ==
  ASSUME NEW t, NEW pc \in PcOf(t), NEW n \in Int
  PROVE  /\ [User EXCEPT !.pc = pc, !.nr = n] \in Places(t)
         /\ [User EXCEPT !.pc = pc, !.nr = n].pc = pc
  BY HomePlace, PlacesAre

(* A step that only goes on.                                               *)
LEMMA GotoOK ==
  ASSUME TtyIInv, NEW t \in Tasks, NEW pc \in PcOf(t), current = t,
         Goto(t, pc), UNCHANGED <<queueVars, proc_list, state, signal, current>>,
         pc = "get" => There,
         loc[t].pc \notin {"copy", "out"}
  PROVE  TtyIInv'
<1> DEFINE l == [loc[t] EXCEPT !.pc = pc]
<1>1. l \in Places(t) /\ l.pc = pc
  BY PlaceGoes DEF TtyIInv, TtyTypeOK
<1>2. loc' = [loc EXCEPT ![t] = l]
  BY DEF Goto
<1>3. TasksTyped'
  BY DEF TtyIInv, TtyTypeOK, TasksTyped
<1> HIDE DEF l
<1> QED
  BY <1>1, <1>2, <1>3, TaskOnly

LEMMA ReturnOK ==
  ASSUME TtyIInv, NEW t \in Tasks, current = t,
         Return(t), UNCHANGED <<queueVars, proc_list, state>>,
         loc[t].pc \notin {"copy", "out"}
  PROVE  TtyIInv'
<1>1. User \in Places(t) /\ User.pc = "user"
  BY HomePlace
<1>2. TasksTyped'
  BY DEF TtyIInv, TtyTypeOK, TasksTyped, Return
<1> QED
  BY <1>1, <1>2, TaskOnly DEF Return

LEMMA SleepOK ==
  ASSUME TtyIInv, NEW t \in Tasks, current = t,
         interruptible_sleep_on(t), UNCHANGED <<queueVars, signal>>,
         loc[t].pc \notin {"copy", "out"}
  PROVE  TtyIInv'
<1> DEFINE p == proc_list[QueueOf(t)]
           l == [loc[t] EXCEPT !.pc = "asleep", !.tmp = p]
<1>1. p \in Tasks \cup {NoTask}
  BY DEF TtyIInv, TtyTypeOK, TasksTyped, QueueOf
<1>2. loc' = [loc EXCEPT ![t] = l]
  BY DEF interruptible_sleep_on
<1>3. TasksTyped'
  BY DEF TtyIInv, TtyTypeOK, TasksTyped, QueueOf, interruptible_sleep_on
<1>4. "asleep" \in PcOf(t)
  BY DEF PcOf
<1> HIDE DEF p
<1>5. l \in Places(t) /\ l.pc = "asleep"
  BY <1>1, <1>4, PlaceSleeps DEF TtyIInv, TtyTypeOK
<1>6. current' = NoTask
  BY DEF interruptible_sleep_on
<1> HIDE DEF l
<1> QED
  BY <1>2, <1>3, <1>5, <1>6, TaskOnly

LEMMA WakeUpOK == ASSUME TtyIInv, NEW t \in Tasks, WakeUp(t) PROVE TtyIInv'
<1> DEFINE p == proc_list[QueueOf(t)]
           woken == IF t \in Readers THEN "empty" ELSE "full"
<1>1. p \in Tasks \cup {NoTask} /\ woken \in PcOf(t)
  BY DEF TtyIInv, TtyTypeOK, TasksTyped, QueueOf, PcOf
<1>2. current = t /\ loc[t].pc = "asleep" /\ UNCHANGED <<queueVars, signal>>
  BY DEF WakeUp
<1>3. CASE /\ p \notin {NoTask, t}
           /\ state' = [state EXCEPT ![p] = "running", ![t] = "interruptible"]
           /\ current' = NoTask
           /\ UNCHANGED <<proc_list, loc>>
  <2>1. TasksTyped'
    BY <1>1, <1>2, <1>3 DEF TtyIInv, TtyTypeOK, TasksTyped
  <2>2. loc' = [loc EXCEPT ![t] = loc[t]] /\ loc[t] \in Places(t)
    BY <1>3 DEF TtyIInv, TtyTypeOK, LocTyped
  <2> QED
    BY <1>2, <1>3, <2>1, <2>2, TaskOnly
<1>4. CASE /\ proc_list' = [proc_list EXCEPT ![QueueOf(t)] = NoTask]
           /\ state' = IF loc[t].tmp = NoTask THEN state
                       ELSE [state EXCEPT ![loc[t].tmp] = "running"]
           /\ loc' = [loc EXCEPT ![t].pc = woken, ![t].tmp = NoTask]
           /\ UNCHANGED current
  <2> DEFINE l == [loc[t] EXCEPT !.pc = woken, !.tmp = NoTask]
  <2>1. TasksTyped'
    BY <1>1, <1>2, <1>4 DEF TtyIInv, TtyTypeOK, TasksTyped, QueueOf
  <2>2. loc' = [loc EXCEPT ![t] = l]
    BY <1>4 DEF TtyIInv, TtyTypeOK, LocTyped
  <2>3. woken \notin {"get"}
    OBVIOUS
  <2> HIDE DEF woken
  <2>4. l \in Places(t) /\ l.pc = woken
    BY <1>1, PlaceSleeps DEF TtyIInv, TtyTypeOK
  <2> HIDE DEF l
  <2> QED
    BY <1>2, <1>4, <2>1, <2>2, <2>3, <2>4, TaskOnly
<1> QED
  BY <1>3, <1>4 DEF WakeUp

LEMMA scheduleOK == ASSUME TtyIInv, NEW t \in Tasks, schedule(t) PROVE TtyIInv'
<1>1. TasksTyped' /\ loc' = [loc EXCEPT ![t] = loc[t]] /\ loc[t] \in Places(t)
  BY DEF TtyIInv, TtyTypeOK, TasksTyped, LocTyped, schedule
<1>2. loc[t].pc # "get"
  BY TtyAssumption DEF TtyIInv, CharThere, schedule
<1>3. UNCHANGED queueVars /\ current = NoTask /\ current' = t
  BY DEF schedule
<1>4. UNCHANGED <<cooked, read_q, secondary, data, write_q, txi>>
  BY <1>3 DEF queueVars
<1>5. QueuesTyped' /\ Counted'
  BY <1>4 DEF TtyIInv, TtyTypeOK, QueuesTyped, Counted
<1>6. LocTyped' /\ TransmitOn' /\ CharThere'
  <2>1. loc' = loc
    BY DEF schedule
  <2>2. LocTyped'
    BY <2>1 DEF TtyIInv, TtyTypeOK, LocTyped, Places
  <2>3. TransmitOn'
    BY <1>4, <2>1 DEF TtyIInv, TransmitOn
  <2>4. \A s \in Tasks : loc[s].pc # "get"
    BY <1>3, TtyAssumption DEF TtyIInv, CharThere
  <2>5. CharThere'
    BY <2>1, <2>4 DEF CharThere
  <2> QED
    BY <2>2, <2>3, <2>5
<1> QED
  BY <1>1, <1>5, <1>6 DEF TtyIInv, TtyTypeOK

LEMMA StartCallOK ==
  ASSUME TtyIInv, NEW t \in Tasks, NEW pc \in PcOf(t) \ {"get"}, NEW n \in Counts,
         StartCall(t, pc, n)
  PROVE  TtyIInv'
<1> DEFINE l == [User EXCEPT !.pc = pc, !.nr = n]
<1>1. n \in Int
  BY TtyAssumption
<1>2. l \in Places(t) /\ l.pc = pc
  BY <1>1, PlaceCalls
<1>3. loc' = [loc EXCEPT ![t] = l] /\ current = NoTask /\ current' = t /\ loc[t].pc = "user"
  BY DEF StartCall
<1>4. UNCHANGED queueVars /\ TasksTyped'
  BY DEF TtyIInv, TtyTypeOK, TasksTyped, StartCall
<1> HIDE DEF l
<1> QED
  BY <1>2, <1>3, <1>4, TaskOnly

LEMMA PcIs ==
  ASSUME TtyIInv, NEW t \in Tasks
  PROVE  /\ loc[t].pc \in {"read", "empty", "get"} => t \in Readers
         /\ loc[t].pc \in {"write", "full", "copy", "out"} => t \in Writers /\ t \notin Readers
         /\ t \in Readers => {"read", "empty", "get", "asleep"} \subseteq PcOf(t)
         /\ t \notin Readers => {"write", "full", "copy", "out", "asleep"} \subseteq PcOf(t)
<1>1. loc[t].pc \in PcOf(t)
  BY PlaceIs DEF TtyIInv, TtyTypeOK
<1> QED
  BY <1>1 DEF PcOf, Tasks

LEMMA ReadTestOK == ASSUME TtyIInv, NEW t \in Tasks, ReadTest(t) PROVE TtyIInv'
<1> DEFINE pc == IF NoLine THEN "empty" ELSE "get"
<1>1. current = t /\ loc[t].pc = "read" /\ UNCHANGED <<queueVars, proc_list, state>>
  BY DEF ReadTest
<1>2. pc \in PcOf(t)
  BY <1>1, PcIs
<1>3. pc = "get" => There
  BY DEF NoLine, There
<1> HIDE DEF pc
<1>4. Return(t) \/ (Goto(t, pc) /\ UNCHANGED <<signal, current>>)
  BY DEF ReadTest, pc
<1> QED
  BY <1>1, <1>2, <1>3, <1>4, ReturnOK, GotoOK

LEMMA sleep_if_emptyOK == ASSUME TtyIInv, NEW t \in Tasks, sleep_if_empty(t) PROVE TtyIInv'
<1>1. current = t /\ loc[t].pc = "empty" /\ UNCHANGED <<queueVars, signal>>
  BY DEF sleep_if_empty
<1>2. \/ interruptible_sleep_on(t)
      \/ Goto(t, "read") /\ UNCHANGED <<proc_list, state, current>>
  BY DEF sleep_if_empty
<1>3. "read" \in PcOf(t)
  BY <1>1, PcIs
<1> QED
  BY <1>1, <1>2, <1>3, SleepOK, GotoOK

LEMMA WriteTestOK == ASSUME TtyIInv, NEW t \in Tasks, WriteTest(t) PROVE TtyIInv'
<1>1. current = t /\ loc[t].pc = "write" /\ UNCHANGED <<queueVars, proc_list, state>>
  BY DEF WriteTest
<1>2. \/ Goto(t, "full") /\ UNCHANGED <<signal, current>>
      \/ Goto(t, "copy") /\ UNCHANGED <<signal, current>>
      \/ Return(t)
  BY DEF WriteTest
<1>3. "full" \in PcOf(t) /\ "copy" \in PcOf(t)
  BY <1>1, PcIs
<1> QED
  BY <1>1, <1>2, <1>3, ReturnOK, GotoOK

LEMMA sleep_if_fullOK == ASSUME TtyIInv, NEW t \in Tasks, sleep_if_full(t) PROVE TtyIInv'
<1>1. current = t /\ loc[t].pc = "full" /\ UNCHANGED queueVars
  BY DEF sleep_if_full
<1>2. \/ Return(t) /\ UNCHANGED <<proc_list, state>>
      \/ interruptible_sleep_on(t) /\ UNCHANGED signal
      \/ Goto(t, "copy") /\ UNCHANGED <<proc_list, state, signal, current>>
  BY DEF sleep_if_full
<1>3. "copy" \in PcOf(t)
  BY <1>1, PcIs
<1> QED
  BY <1>1, <1>2, <1>3, ReturnOK, GotoOK, SleepOK

(* A character taken is a line less only if it ends one.                   *)
LEMMA GetCharOK == ASSUME TtyIInv, NEW t \in Tasks, GetChar(t) PROVE TtyIInv'
<1> DEFINE l == [loc[t] EXCEPT !.nr = @ - 1]
           c == Head(secondary)
           rest == Tail(secondary)
           ended == (c = "eof" /\ cooked) \/ loc[t].nr = 1 \/ rest = << >>
<1>1. /\ current = t /\ loc[t].pc = "get" /\ There
      /\ UNCHANGED <<cooked, read_q, write_q, txi, proc_list, state>>
  BY DEF GetChar, TtyIInv, CharThere
<1>2. loc[t].nr - 1 \in Int
  BY PlaceIs DEF TtyIInv, TtyTypeOK
<1>3. l \in Places(t) /\ l.pc = "get"
  BY <1>1, <1>2, PlaceCounts DEF TtyIInv, TtyTypeOK
<1> HIDE DEF l
<1>4. secondary \in Seq(Kept) /\ data \in Int
  BY DEF TtyIInv, TtyTypeOK, QueuesTyped
<1>5. CASE secondary = << >>
  <2>1. /\ Edits /\ secondary' \in [1 .. Capacity -> {"c", "nl"}] /\ UNCHANGED data
        /\ loc' = [loc EXCEPT ![t] = l] /\ UNCHANGED <<signal, current>>
    BY <1>1, <1>5 DEF There, GetChar, l
  <2>2. secondary' \in Seq(Kept)
    <3>1. Capacity \in Nat
      BY TtyAssumption DEF Capacity
    <3> DEFINE n == Capacity
    <3>2. secondary' \in [1 .. n -> Kept] /\ n \in Nat
      BY <2>1, <3>1 DEF Kept
    <3> HIDE DEF n
    <3> QED
      BY <3>2
  <2>3. QueuesTyped' /\ TasksTyped'
    BY <1>1, <2>1, <2>2 DEF TtyIInv, TtyTypeOK, QueuesTyped, TasksTyped
  <2>4. Counted' /\ There'
    BY <2>1 DEF Counted, There
  <2> QED
    BY <1>1, <1>3, <2>1, <2>3, <2>4, TaskMoves
<1>6. CASE secondary # << >>
  <2>1. /\ secondary' = rest /\ data' = IF LineEnd(c) THEN data - 1 ELSE data
        /\ IF ended THEN Return(t)
           ELSE loc' = [loc EXCEPT ![t] = l] /\ UNCHANGED <<signal, current>>
    BY <1>1, <1>6 DEF GetChar, l
  <2>2. /\ rest \in Seq(Kept)
        /\ Cardinality(Finished(secondary))
             = Cardinality(Finished(rest)) + (IF LineEnd(c) THEN 1 ELSE 0)
    BY <1>4, <1>6, FinishedTail
  <2>3. Cardinality(Finished(rest)) \in Nat
    BY <2>2, FinishedFinite
  <2>4. ended \/ rest # << >>
    OBVIOUS
  <2> HIDE DEF rest, c, ended
  <2>5. /\ data' \in Int
        /\ data = Cardinality(Finished(secondary)) => data' = Cardinality(Finished(rest))
    BY <1>4, <2>1, <2>2, <2>3
  <2>6. Counted'
    BY <2>1, <2>5 DEF TtyIInv, Counted
  <2>7. QueuesTyped'
    BY <1>1, <2>1, <2>2, <2>5 DEF TtyIInv, TtyTypeOK, QueuesTyped
  <2>8. CASE ended
    <3>1. loc' = [loc EXCEPT ![t] = User] /\ current' = NoTask /\ TasksTyped'
      BY <1>1, <2>1, <2>8 DEF Return, TtyIInv, TtyTypeOK, TasksTyped
    <3> QED
      BY <1>1, <2>6, <2>7, <3>1, HomePlace, TaskMoves
  <2>9. CASE ~ended
    <3>1. loc' = [loc EXCEPT ![t] = l] /\ current' = t /\ TasksTyped' /\ There'
      BY <1>1, <2>1, <2>4, <2>9 DEF TtyIInv, TtyTypeOK, TasksTyped, There
    <3> QED
      BY <1>1, <1>3, <2>6, <2>7, <3>1, TaskMoves
  <2> QED
    BY <2>8, <2>9
<1> QED
  BY <1>5, <1>6

(* As long as the writer puts characters into the queue, it is to start    *)
(* the transmitter.                                                        *)
LEMMA PutCharOK == ASSUME TtyIInv, NEW t \in Tasks, PutChar(t) PROVE TtyIInv'
<1>1. /\ current = t /\ loc[t].pc = "copy"
      /\ UNCHANGED <<cooked, read_q, secondary, data, txi, proc_list, state, signal, current>>
  BY DEF PutChar
<1>2. t \in Writers /\ "out" \in PcOf(t)
  BY <1>1, PcIs
<1>3. TasksTyped' /\ Counted'
  BY <1>1 DEF TtyIInv, TtyTypeOK, TasksTyped, Counted
<1>4. CASE ~FULL(write_q) /\ write_q' = write_q + 1 /\ loc' = [loc EXCEPT ![t].nr = @ - 1]
  <2> DEFINE l == [loc[t] EXCEPT !.nr = @ - 1]
  <2>1. QueuesTyped'
    BY <1>1, <1>4, TtyAssumption DEF TtyIInv, TtyTypeOK, QueuesTyped, FULL, LEFT, Capacity
  <2>2. loc[t].nr - 1 \in Int
    BY PlaceIs DEF TtyIInv, TtyTypeOK
  <2>3. l \in Places(t) /\ l.pc = "copy" /\ loc' = [loc EXCEPT ![t] = l]
    BY <1>1, <1>4, <2>2, PlaceCounts DEF TtyIInv, TtyTypeOK
  <2> HIDE DEF l
  <2> QED
    BY <1>1, <1>2, <1>3, <2>1, <2>3, TaskMoves
<1>5. CASE Goto(t, "out") /\ UNCHANGED write_q
  <2> DEFINE l == [loc[t] EXCEPT !.pc = "out"]
  <2>1. QueuesTyped'
    BY <1>1, <1>5 DEF TtyIInv, TtyTypeOK, QueuesTyped
  <2>2. l \in Places(t) /\ l.pc = "out" /\ loc' = [loc EXCEPT ![t] = l]
    BY <1>2, <1>5, PlaceGoes DEF TtyIInv, TtyTypeOK, Goto
  <2> HIDE DEF l
  <2> QED
    BY <1>1, <1>2, <1>3, <2>1, <2>2, TaskMoves
<1> QED
  BY <1>4, <1>5 DEF PutChar

LEMMA WriteOutOK == ASSUME TtyIInv, NEW t \in Tasks, WriteOut(t) PROVE TtyIInv'
<1>1. /\ current = t /\ loc[t].pc = "out" /\ txi' = (txi \/ write_q > 0)
      /\ UNCHANGED <<cooked, read_q, secondary, data, write_q, proc_list, state>>
  BY DEF WriteOut, rs_write
<1>2. "write" \in PcOf(t)
  BY <1>1, PcIs
<1>3. QueuesTyped' /\ Counted'
  BY <1>1 DEF TtyIInv, TtyTypeOK, QueuesTyped, Counted
<1>4. write_q' = 0 \/ txi'
  <2>1. write_q = 0 \/ write_q > 0
    BY TtyAssumption DEF TtyIInv, TtyTypeOK, QueuesTyped, Capacity
  <2> QED
    BY <1>1, <2>1, Zenon
<1>5. CASE Goto(t, "write") /\ current' = NoTask /\ UNCHANGED signal
  <2> DEFINE l == [loc[t] EXCEPT !.pc = "write"]
  <2>1. TasksTyped'
    BY <1>1, <1>5 DEF TtyIInv, TtyTypeOK, TasksTyped
  <2>2. l \in Places(t) /\ l.pc = "write" /\ loc' = [loc EXCEPT ![t] = l]
    BY <1>2, <1>5, PlaceGoes DEF TtyIInv, TtyTypeOK, Goto
  <2> HIDE DEF l
  <2> QED
    BY <1>1, <1>3, <1>4, <1>5, <2>1, <2>2, TaskMoves
<1>6. CASE Return(t)
  <2>1. loc' = [loc EXCEPT ![t] = User] /\ current' = NoTask /\ TasksTyped'
    BY <1>1, <1>6 DEF Return, TtyIInv, TtyTypeOK, TasksTyped
  <2> QED
    BY <1>1, <1>3, <1>4, <2>1, HomePlace, TaskMoves
<1> QED
  BY <1>5, <1>6 DEF WriteOut

----------------------------------------------------------------------------
(* The interrupts and tty_ioctl() leave every task where it is.            *)

LEMMA NobodyMoves ==
  ASSUME TtyIInv, UNCHANGED loc, QueuesTyped', TasksTyped',
         Counted',
         (\E r \in Readers : loc[r].pc = "get") => current' = current /\ There',
         \/ write_q' = 0 \/ txi'
         \/ write_q' = write_q /\ txi' = txi
  PROVE  TtyIInv'
<1>1. LocTyped'
  BY DEF TtyIInv, TtyTypeOK, LocTyped, Places
<1>2. CharThere'
  <2> SUFFICES ASSUME NEW t \in Tasks, loc[t].pc = "get"
               PROVE  current' = t /\ There'
    BY DEF CharThere
  <2>1. t \in Readers
    BY PcIs
  <2>2. current = t
    BY DEF TtyIInv, CharThere
  <2> QED
    BY <2>1, <2>2
<1>3. Counted'
  BY DEF Counted
<1>4. TransmitOn'
  <2>1. CASE write_q' = 0
    BY <2>1 DEF TransmitOn
  <2>2. CASE txi'
    BY <2>2 DEF TransmitOn
  <2>3. CASE write_q' = write_q /\ txi' = txi
    BY <2>3 DEF TtyIInv, TransmitOn
  <2> QED
    BY <2>1, <2>2, <2>3
<1> QED
  BY <1>1, <1>2, <1>3, <1>4 DEF TtyIInv, TtyTypeOK

LEMMA WokenTyped ==
  ASSUME TasksTyped, NEW q PROVE Woken(state, q) \in [Tasks -> {"running", "interruptible"}]
  BY DEF TasksTyped, Woken

(* What the echo adds to write_q is on its way, or write_q looks empty.    *)
LEMMA read_charOK ==
  ASSUME TtyIInv, NEW c \in Chars, read_char(c) PROVE TtyIInv'
<1> DEFINE rq == IF FULL(Len(read_q)) THEN read_q ELSE Append(read_q, c)
           q == copy_to_cooked(rq)
           k == data - Cardinality(Finished(secondary))
<1>0. /\ data \in Int /\ Cardinality(Finished(secondary)) \in Nat
      /\ k \in Int /\ (Edits \/ k = 0)
  <2>1. secondary \in Seq(Kept) /\ data \in Int
    BY DEF TtyIInv, TtyTypeOK, QueuesTyped
  <2>2. Cardinality(Finished(secondary)) \in Nat
    BY <2>1, FinishedFinite
  <2>3. k \in Int /\ (data = Cardinality(Finished(secondary)) => k = 0)
    BY <2>1, <2>2
  <2> HIDE DEF k
  <2> QED
    BY <2>1, <2>2, <2>3 DEF TtyIInv, Counted
<1>1. rq \in Seq(Chars)
  BY DEF TtyIInv, TtyTypeOK, QueuesTyped
<1>2. Uncooked \in LineStates(k)
  <2> DEFINE u == [rest |-> << >>, sec |-> secondary, data |-> data, echo |-> 0, intr |-> FALSE]
  <2>1. << >> \in Seq(Chars) /\ secondary \in Seq(Kept) /\ data \in Int /\ 0 \in Nat
        /\ FALSE \in BOOLEAN
    BY DEF TtyIInv, TtyTypeOK, QueuesTyped
  <2>2. u \in [rest : Seq(Chars), sec : Seq(Kept), data : Int, echo : Nat, intr : BOOLEAN]
    BY <2>1
  <2>3. u.data = Cardinality(Finished(u.sec)) + k
    BY <1>0
  <2> QED
    BY <2>2, <2>3 DEF Uncooked, LineStates
<1>3. /\ Apart(q)
      /\ read_q' = q.rest /\ secondary' = q.sec /\ data' = q.data
      /\ write_q' = (write_q + q.echo) % Size
      /\ txi' = (txi \/ (q.echo > 0 /\ write_q' > 0))
      /\ signal' = tty_intr(q)
      /\ state' = Woken(state, "secondary")
      /\ proc_list' = [proc_list EXCEPT !["secondary"] = NoTask]
      /\ UNCHANGED <<cooked, current, loc>>
  BY DEF read_char
<1>4. q \in LineStates(k)
  BY <1>0, <1>1, <1>2, CookedOK
<1> HIDE DEF rq, q, k
<1>5. /\ q.rest \in Seq(Chars) /\ q.sec \in Seq(Kept) /\ q.data \in Int /\ q.echo \in Nat
      /\ q.data = Cardinality(Finished(q.sec)) + k
  BY <1>4 DEF LineStates
<1>6. Size \in Nat /\ Size > 0 /\ write_q \in 0 .. Size - 1
  BY TtyAssumption DEF TtyIInv, TtyTypeOK, QueuesTyped, Capacity
<1>7. write_q' \in 0 .. Capacity /\ (q.echo = 0 => write_q' = write_q)
  <2> DEFINE n == write_q + q.echo
  <2>1. n \in Nat /\ (q.echo = 0 => n = write_q /\ n < Size)
    BY <1>5, <1>6
  <2>2. write_q' = n % Size
    BY <1>3
  <2> HIDE DEF n
  <2>3. n % Size \in 0 .. Size - 1 /\ (n < Size => n % Size = n)
    BY <1>6, <2>1
  <2> QED
    BY <2>1, <2>2, <2>3 DEF Capacity
<1>8. write_q' = 0 \/ write_q' > 0
  BY <1>6, <1>7 DEF Capacity
<1>9. q.echo = 0 \/ q.echo > 0
  BY <1>5
<1>10. txi \in BOOLEAN /\ ~(q.echo = 0 /\ q.echo > 0)
  BY DEF TtyIInv, TtyTypeOK, QueuesTyped
<1>11. \/ write_q' = 0 \/ txi'
       \/ write_q' = write_q /\ txi' = txi
  <2>1. CASE q.echo = 0
    <3>1. txi' = txi
      BY <1>3, <1>10, <2>1, Zenon
    <3> QED
      BY <1>7, <2>1, <3>1
  <2>2. CASE q.echo > 0
    BY <1>3, <1>8, <2>2, Zenon
  <2> QED
    BY <1>9, <2>1, <2>2
<1>12. txi' \in BOOLEAN
  BY <1>3, Zenon
<1>13. QueuesTyped'
  BY <1>3, <1>5, <1>7, <1>12 DEF TtyIInv, TtyTypeOK, QueuesTyped
<1>14. TasksTyped'
  <2>1. state' \in [Tasks -> {"running", "interruptible"}]
    BY <1>3, WokenTyped DEF TtyIInv, TtyTypeOK
  <2>2. signal' \in [Tasks -> BOOLEAN]
    BY <1>3, Zenon DEF tty_intr
  <2>3. proc_list' \in [{"secondary", "write_q"} -> Tasks \cup {NoTask}]
    BY <1>3 DEF TtyIInv, TtyTypeOK, TasksTyped
  <2> QED
    BY <1>3, <2>1, <2>2, <2>3 DEF TtyIInv, TtyTypeOK, TasksTyped
<1>15. (\E r \in Readers : loc[r].pc = "get") => current' = current /\ There'
  BY <1>3 DEF Apart, There
<1>16. Counted'
  <2>1. Cardinality(Finished(q.sec)) \in Nat
    BY <1>5, FinishedFinite
  <2>2. k = 0 => q.data = Cardinality(Finished(q.sec))
    BY <1>5, <2>1
  <2> QED
    BY <1>0, <1>3, <2>2 DEF Counted
<1> QED
  BY <1>3, <1>16, <1>11, <1>13, <1>14, <1>15, NobodyMoves

LEMMA write_charOK == ASSUME TtyIInv, write_char PROVE TtyIInv'
<1>1. /\ txi
      /\ write_q' = IF write_q = 0 THEN 0 ELSE write_q - 1
      /\ txi' = (write_q' > 0)
      /\ state' = IF WakesAt(write_q) THEN Woken(state, "write_q") ELSE state
      /\ UNCHANGED <<cooked, read_q, secondary, data, proc_list, signal, current, loc>>
  BY DEF write_char
<1>2. write_q \in 0 .. Capacity /\ Capacity \in Nat
  BY TtyAssumption DEF TtyIInv, TtyTypeOK, QueuesTyped, Capacity
<1>3. write_q' \in 0 .. Capacity /\ (write_q' = 0 \/ write_q' > 0)
  BY <1>1, <1>2
<1>4. write_q' = 0 \/ txi'
  BY <1>1, <1>3, Zenon
<1>5. txi' \in BOOLEAN
  <2>1. (write_q' > 0) \in BOOLEAN
    BY <1>2, <1>3
  <2> QED
    BY <1>1, <2>1, Zenon
<1>6. QueuesTyped'
  BY <1>1, <1>3, <1>5 DEF TtyIInv, TtyTypeOK, QueuesTyped
<1>7. TasksTyped'
  <2>1. state' \in [Tasks -> {"running", "interruptible"}]
    BY <1>1, WokenTyped DEF TtyIInv, TtyTypeOK, TasksTyped
  <2> QED
    BY <1>1, <2>1 DEF TtyIInv, TtyTypeOK, TasksTyped
<1>8. Counted'
  BY <1>1 DEF TtyIInv, Counted
<1>9. (\E r \in Readers : loc[r].pc = "get") => current' = current /\ There'
  BY <1>1 DEF TtyIInv, CharThere, There, Tasks
<1> QED
  BY <1>1, <1>4, <1>6, <1>7, <1>8, <1>9, NobodyMoves

LEMMA tty_ioctlOK == ASSUME TtyIInv, tty_ioctl PROVE TtyIInv'
<1>1. UNCHANGED <<secondary, data, txi, proc_list, state, signal, current, loc>>
  BY DEF tty_ioctl, taskVars
<1>2. /\ cooked' \in BOOLEAN /\ read_q' \in {read_q, << >>}
      /\ write_q' = 0 \/ write_q' = write_q
  BY DEF tty_ioctl, TtyIInv, TtyTypeOK, QueuesTyped
<1>3. 0 \in 0 .. Capacity
  BY TtyAssumption DEF Capacity
<1>4. QueuesTyped'
  <2>1. read_q' \in Seq(Chars)
    <3>1. << >> \in Seq(Chars) /\ read_q \in Seq(Chars)
      BY DEF TtyIInv, TtyTypeOK, QueuesTyped
    <3> QED
      BY <1>2, <3>1
  <2>2. write_q' \in 0 .. Capacity
    BY <1>2, <1>3 DEF TtyIInv, TtyTypeOK, QueuesTyped
  <2>3. /\ secondary' \in Seq(Kept) /\ data' \in Int /\ txi' \in BOOLEAN
    BY <1>1 DEF TtyIInv, TtyTypeOK, QueuesTyped
  <2> QED
    BY <1>2, <2>1, <2>2, <2>3, Zenon DEF QueuesTyped
<1>5. TasksTyped' /\ Counted'
  BY <1>1 DEF TtyIInv, TtyTypeOK, TasksTyped, Counted
<1>6. (\E r \in Readers : loc[r].pc = "get") => current' = current /\ There'
  BY <1>1 DEF TtyIInv, CharThere, There, Tasks
<1> QED
  BY <1>1, <1>2, <1>4, <1>5, <1>6, NobodyMoves

LEMMA TtyInitOK == TtyInit => TtyIInv
<1> SUFFICES ASSUME TtyInit PROVE TtyIInv
  OBVIOUS
<1>1. /\ cooked = FALSE /\ read_q = << >> /\ secondary = << >> /\ data = 0
      /\ write_q = 0 /\ txi = FALSE
      /\ proc_list = [q \in {"secondary", "write_q"} |-> NoTask]
      /\ state = [t \in Tasks |-> "running"] /\ signal = [t \in Tasks |-> FALSE]
      /\ current = NoTask /\ loc = [t \in Tasks |-> User]
  BY DEF TtyInit
<1>2. QueuesTyped
  <2>1. << >> \in Seq(Chars) /\ << >> \in Seq(Kept) /\ 0 \in Int /\ FALSE \in BOOLEAN
    OBVIOUS
  <2>2. 0 \in 0 .. Capacity
    BY TtyAssumption DEF Capacity
  <2> QED
    BY <1>1, <2>1, <2>2, Zenon DEF QueuesTyped
<1>3. TasksTyped
  BY <1>1 DEF TasksTyped
<1>4. LocTyped
  BY <1>1, HomePlace DEF LocTyped
<1>5. \A t \in Tasks : loc[t].pc = "user"
  BY <1>1, HomePlace
<1>6. CharThere
  BY <1>5 DEF CharThere
<1>7. Counted
  <2>1. {i \in DOMAIN secondary : LineEnd(secondary[i])} = {}
    BY <1>1
  <2> QED
    BY <1>1, <2>1, FS_EmptySet DEF Counted, Finished
<1>8. TransmitOn
  BY <1>1 DEF TransmitOn
<1> QED
  BY <1>2, <1>3, <1>4, <1>6, <1>7, <1>8 DEF TtyIInv, TtyTypeOK

LEMMA TtyNextOK == ASSUME TtyIInv, [TtyNext]_ttyVars PROVE TtyIInv'
<1>1. ASSUME NEW c \in Chars, read_char(c) PROVE TtyIInv'
  BY <1>1, read_charOK
<1>2. CASE write_char
  BY <1>2, write_charOK
<1>3. CASE tty_ioctl
  BY <1>3, tty_ioctlOK
<1>4. ASSUME NEW t \in Tasks, schedule(t) PROVE TtyIInv'
  BY <1>4, scheduleOK
<1>5. ASSUME NEW t \in Tasks, Step(t) PROVE TtyIInv'
  BY <1>5, ReadTestOK, sleep_if_emptyOK, GetCharOK, WriteTestOK, sleep_if_fullOK, PutCharOK,
     WriteOutOK, WakeUpOK DEF Step
<1>6. ASSUME NEW t \in Readers, NEW n \in Counts, StartCall(t, "read", n) PROVE TtyIInv'
  <2>1. t \in Tasks /\ "read" \in PcOf(t) \ {"get"}
    BY DEF Tasks, PcOf
  <2> QED
    BY <1>6, <2>1, StartCallOK
<1>7. ASSUME NEW t \in Writers, NEW n \in Counts, StartCall(t, "write", n) PROVE TtyIInv'
  <2>1. t \in Tasks /\ "write" \in PcOf(t) \ {"get"}
    BY TtyAssumption DEF Tasks, PcOf
  <2> QED
    BY <1>7, <2>1, StartCallOK
<1>8. CASE UNCHANGED ttyVars
  <2>1. UNCHANGED <<cooked, read_q, secondary, data, write_q, txi>>
        /\ UNCHANGED <<proc_list, state, signal, current, loc>>
    BY <1>8 DEF ttyVars, queueVars, taskVars
  <2>2. QueuesTyped' /\ TasksTyped' /\ Counted'
    BY <2>1 DEF TtyIInv, TtyTypeOK, QueuesTyped, TasksTyped, Counted
  <2>3. (\E r \in Readers : loc[r].pc = "get") => current' = current /\ There'
    BY <2>1 DEF TtyIInv, CharThere, There, Tasks
  <2> QED
    BY <2>1, <2>2, <2>3, NobodyMoves
<1> QED
  BY <1>1, <1>2, <1>3, <1>4, <1>5, <1>6, <1>7, <1>8 DEF TtyNext

(* The terminal's invariant: unless an erase comes between a reader's test *)
(* and its GETCH(), a reader about to take a character finds one and the   *)
(* lines are counted; in any case the transmitter is on or about to be.    *)
THEOREM TtyInvariant == TtySpec => []TtyIInv
<1>1. TtyInit => TtyIInv
  BY TtyInitOK
<1>2. TtyIInv /\ [TtyNext]_ttyVars => TtyIInv'
  BY TtyNextOK
<1> QED
  BY <1>1, <1>2, PTL DEF TtySpec

(* secondary.data counts the finished lines of secondary, for any queue    *)
(* size and any interleaving of the interrupt's line editing with GETCH(), *)
(* as long as no erase comes between a reader's test and its GETCH().      *)
THEOREM TtyLinesCounted ==
  ASSUME ~Edits
  PROVE  TtySpec => []LinesCounted
<1>1. TtyIInv => LinesCounted
  BY DEF TtyIInv, Counted, LinesCounted, Finished
<1> QED
  BY <1>1, TtyInvariant, PTL

(* No character is left in write_q with the transmit interrupt off, unless *)
(* the writer that is putting it there has still to call rs_write().       *)
THEOREM TtyTransmits == TtySpec => []TransmitOn
<1>1. TtyIInv => TransmitOn
  BY DEF TtyIInv
<1> QED
  BY <1>1, TtyInvariant, PTL
=============================================================================
