------------------------------ MODULE HardDisk ------------------------------
(***************************************************************************)
(* The hard disk driver of kernel/blk_drv/hd.c on the request queue of     *)
(* RequestQueue: a state machine that interrupts drive from one handler    *)
(* (the pointer do_hd) to the next, with retries, recalibration and reset. *)
(*                                                                         *)
(* A request moves one block of two sectors.  cur holds the fields of      *)
(* CURRENT that the driver changes; behind the head they have the values   *)
(* make_request() gave them.  ctl is the controller (external): the        *)
(* command it executes, the sector of the block it is at and how many it   *)
(* still has to move.  moved is a history variable: the sectors of the     *)
(* block in work that went between the disk and their own place in the     *)
(* buffer.  at says where the processor is: "repeat" and "drq" are inside  *)
(* do_hd_request(), which nothing else interrupts.                         *)
(*                                                                         *)
(* hd_out()'s panics (a controller that never gets ready) are left out,    *)
(* and a controller that withholds DRQ is taken not to interrupt for that  *)
(* command any more.                                                       *)
(***************************************************************************)
EXTENDS RequestQueue

CONSTANTS MAX_ERRORS,   \* errors per sector before a request is given up
          Beyond,       \* positions that do not lie inside their partition
          LastBlock     \* positions of the last block of a partition

ASSUME HardDiskAssumption ==
  MAX_ERRORS \in Nat \ {0} /\ Beyond \subseteq Sectors /\ LastBlock \subseteq Sectors

VARIABLES cur, reset, recalibrate, do_hd, ctl, at, moved, uptodate

hdVars == <<rq, cur, reset, recalibrate, do_hd, ctl, at, moved, uptodate>>

BlockSectors == {0, 1}
Fresh == [errors |-> 0, sector |-> 0, buffer |-> 0, nr_sectors |-> 2]
IdleController == [op |-> "idle", sector |-> 0, nr |-> 0]

HdInit ==
  /\ RequestInit
  /\ cur = Fresh
  /\ reset = TRUE /\ recalibrate = TRUE
  /\ do_hd = "none"
  /\ ctl = IdleController
  /\ at = "idle"
  /\ moved = {} /\ uptodate = FALSE

(* hd_out(): the handler is set before the command is given. *)
hd_out(op, nr, handler) ==
  /\ do_hd' = handler
  /\ ctl' = [op |-> op, sector |-> cur.sector, nr |-> nr]

(* end_request(): the buffer is unlocked with its new b_uptodate. *)
end_request(ok) ==
  /\ rq' = EndRequest(rq)
  /\ cur' = Fresh
  /\ uptodate' = ok

(* Mutant: errors are not counted. *)
bad_rw_intr_patient ==
  UNCHANGED <<rq, cur, reset, uptodate>>

(* bad_rw_intr(): CURRENT is looked at again after end_request(); the next *)
(* request has no errors yet, and if there is none the field is read       *)
(* through a null pointer.                                                 *)
bad_rw_intr ==
  IF cur.errors + 1 >= MAX_ERRORS
  THEN /\ end_request(FALSE)
       /\ reset' \in IF Len(rq) = 1 THEN {reset, TRUE} ELSE {reset}
  ELSE /\ cur' = [cur EXCEPT !.errors = @ + 1]
       /\ reset' = (reset \/ cur.errors + 1 > MAX_ERRORS \div 2)
       /\ UNCHANGED <<rq, uptodate>>

(* Bytes go between sector s of the disk and the place of cur.buffer. *)
Transfer(s) ==
  moved' = IF s = cur.buffer THEN moved \cup {s} ELSE moved \ {cur.buffer}

(* Mutant: the sector is not advanced with the buffer. *)
Advanced_buffer_only(c) ==
  [c EXCEPT !.buffer = @ + 1, !.nr_sectors = @ - 1]

(* The bookkeeping of CURRENT after one sector. *)
Advanced(c) ==
  [c EXCEPT !.sector = @ + 1, !.buffer = @ + 1, !.nr_sectors = @ - 1]

(* The status an interrupt reports, and that the handler was taken off. *)
Interrupted(handler) ==
  /\ at = "idle" /\ ctl.op # "idle"
  /\ do_hd = handler

(* Mutant: the driver does not go on after an error. *)
ReadError_stops ==
  /\ Interrupted("read_intr")
  /\ bad_rw_intr
  /\ do_hd' = "none" /\ ctl' = IdleController
  /\ at' = "idle"
  /\ UNCHANGED <<recalibrate, moved>>

(* read_intr() with an error status. *)
ReadError ==
  /\ Interrupted("read_intr")
  /\ bad_rw_intr
  /\ do_hd' = "none" /\ ctl' = IdleController
  /\ at' = "repeat"
  /\ UNCHANGED <<recalibrate, moved>>

(* read_intr(): a sector is taken from the controller; errors start anew. *)
ReadSector ==
  /\ Interrupted("read_intr")
  /\ Transfer(ctl.sector)
  /\ IF cur.nr_sectors > 1
     THEN /\ cur' = Advanced([cur EXCEPT !.errors = 0])
          /\ ctl' = [ctl EXCEPT !.sector = @ + 1, !.nr = @ - 1]
          /\ UNCHANGED <<rq, uptodate, do_hd, at>>
     ELSE /\ end_request(TRUE)
          /\ do_hd' = "none" /\ ctl' = IdleController
          /\ at' = "repeat"
  /\ UNCHANGED <<reset, recalibrate>>

(* write_intr() with an error status. *)
WriteError ==
  /\ Interrupted("write_intr")
  /\ bad_rw_intr
  /\ do_hd' = "none" /\ ctl' = IdleController
  /\ at' = "repeat"
  /\ UNCHANGED <<recalibrate, moved>>

(* write_intr(): the sector given last is on the disk; the next one is     *)
(* given, and errors are not forgotten.                                    *)
WriteSector ==
  /\ Interrupted("write_intr")
  /\ Transfer(ctl.sector)
  /\ IF cur.nr_sectors > 1
     THEN /\ cur' = Advanced(cur)
          /\ ctl' = [ctl EXCEPT !.sector = @ + 1, !.nr = @ - 1]
          /\ UNCHANGED <<rq, uptodate, do_hd, at>>
     ELSE /\ end_request(TRUE)
          /\ do_hd' = "none" /\ ctl' = IdleController
          /\ at' = "repeat"
  /\ UNCHANGED <<reset, recalibrate>>

(* recal_intr(), after WIN_SPECIFY and after WIN_RESTORE. *)
recal_intr ==
  /\ Interrupted("recal_intr")
  /\ \/ bad_rw_intr
     \/ UNCHANGED <<rq, cur, reset, uptodate>>
  /\ do_hd' = "none" /\ ctl' = IdleController
  /\ at' = "repeat"
  /\ UNCHANGED <<recalibrate, moved>>

(* block+2 > nr_sects, for the sector CURRENT has been advanced to. *)
OutOfRange ==
  \/ Head(rq).sector \in Beyond
  \/ Head(rq).sector \in LastBlock /\ cur.sector > 0

(* One pass of do_hd_request(), from the label repeat. *)
do_hd_request ==
  /\ at = "repeat"
  /\ \/ /\ rq = << >>
        /\ at' = "idle"
        /\ UNCHANGED <<rq, cur, reset, recalibrate, do_hd, ctl, moved, uptodate>>
     \/ /\ rq # << >> /\ OutOfRange
        /\ end_request(FALSE)
        /\ UNCHANGED <<reset, recalibrate, do_hd, ctl, at, moved>>
     \/ /\ rq # << >> /\ ~OutOfRange /\ reset
        /\ reset' = FALSE /\ recalibrate' = TRUE
        /\ hd_out("specify", 0, "recal_intr")
        /\ at' = "idle"
        /\ UNCHANGED <<rq, cur, moved, uptodate>>
     \/ /\ rq # << >> /\ ~OutOfRange /\ ~reset /\ recalibrate
        /\ recalibrate' = FALSE
        /\ hd_out("restore", 0, "recal_intr")
        /\ at' = "idle"
        /\ UNCHANGED <<rq, cur, reset, moved, uptodate>>
     \/ /\ rq # << >> /\ ~OutOfRange /\ ~reset /\ ~recalibrate
        /\ moved' = IF cur.sector = 0 THEN {} ELSE moved
        /\ IF Head(rq).cmd = WRITE
           THEN hd_out("write", cur.nr_sectors, "write_intr") /\ at' = "drq"
           ELSE hd_out("read", cur.nr_sectors, "read_intr") /\ at' = "idle"
        /\ UNCHANGED <<rq, cur, reset, recalibrate, uptodate>>

(* The controller asks for the first sector of a write: port_write(). *)
DataRequested ==
  /\ at = "drq"
  /\ at' = "idle"
  /\ UNCHANGED <<rq, cur, reset, recalibrate, do_hd, ctl, moved, uptodate>>

(* It does not within 3000 polls; do_hd keeps pointing to write_intr(). *)
NoDataRequest ==
  /\ at = "drq"
  /\ bad_rw_intr
  /\ ctl' = IdleController
  /\ at' = "repeat"
  /\ UNCHANGED <<recalibrate, do_hd, moved>>

(* make_request(); add_request() starts an idle driver. *)
NewRequest(cmd, s) ==
  /\ at = "idle"
  /\ MakeRequest(cmd, s)
  /\ at' = IF rq = << >> THEN "repeat" ELSE at
  /\ UNCHANGED <<cur, reset, recalibrate, do_hd, ctl, moved, uptodate>>

Driver ==
  \/ ReadError \/ ReadSector \/ WriteError \/ WriteSector \/ recal_intr
  \/ do_hd_request \/ DataRequested \/ NoDataRequest

HdNext == Driver \/ \E cmd \in Commands, s \in Sectors : NewRequest(cmd, s)

(* Every command of the controller ends in an interrupt or an error. *)
HdSpec == HdInit /\ [][HdNext]_hdVars /\ WF_hdVars(Driver)

----------------------------------------------------------------------------
HdTypeOK ==
  /\ RequestTypeOK
  /\ cur \in [errors : 0 .. MAX_ERRORS - 1, sector : BlockSectors,
              buffer : BlockSectors, nr_sectors : 1 .. 2]
  /\ {reset, recalibrate, uptodate} \subseteq BOOLEAN
  /\ do_hd \in {"none", "read_intr", "write_intr", "recal_intr"}
  /\ ctl \in [op : {"idle", "specify", "restore", "read", "write"},
              sector : BlockSectors, nr : 0 .. 2]
  /\ at \in {"idle", "repeat", "drq"}
  /\ moved \subseteq BlockSectors

(* The driver never stops with work to do: between its steps a queued      *)
(* request has a command in the controller, and the interrupt of that      *)
(* command finds the handler that belongs to it, whatever errors and       *)
(* resets came before.                                                     *)
NeverIdle ==
  /\ at = "idle" => (rq # << >> <=> ctl.op # "idle")
  /\ ctl.op = "read" => do_hd = "read_intr" /\ Head(rq).cmd = READ
  /\ ctl.op = "write" => do_hd = "write_intr" /\ Head(rq).cmd = WRITE
  /\ ctl.op \in {"specify", "restore"} => do_hd = "recal_intr"

(* A request that end_request() reports as up to date has had both of its  *)
(* sectors moved to their own places, also when an error in the middle of  *)
(* the block made the driver start again from the sector that failed.      *)
EndsWhole ==
  [][Len(rq') < Len(rq) /\ uptodate' => moved' = BlockSectors]_hdVars

(* The driver implements the request queue whose every transfer ends:      *)
(* retries, resets and recalibrations are steps that leave the queue alone *)
(* and cannot go on for ever.                                              *)
ImplementsQueue == RequestSpec

(* The state of queue and driver between two steps: the types, a handler   *)
(* for every interrupt, at most two sweeps, and room for reads.            *)
HdInv == HdTypeOK /\ NeverIdle /\ TwoSweeps /\ ReadsFindRoom
=============================================================================
