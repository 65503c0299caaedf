------------------------------- MODULE Cdrom -------------------------------
(***************************************************************************)
(* The CD-ROM controller of src/cdrom: the command register, the interrupt *)
(* flag the guest acknowledges bit by bit, the drive, and its three events *)
(* on the scheduler's queue (command, drive, second response).             *)
(*                                                                         *)
(* Time is counted in units of CDROM_MIN_INT_DELAY: a deadline is the time *)
(* left until it, no less than 0.  The reader answers as SectorSource      *)
(* promises.  Responses are abstracted to the interrupt that announces     *)
(* them, a sector to its number, its track and where it is routed.         *)
(***************************************************************************)
EXTENDS Naturals

CONSTANTS
  MaxLba,          \* bound: the last address the guest uses
  Total,           \* total_sectors, the address of the lead-out
  Damaged,         \* sectors the image cannot deliver
  TrackOf,         \* the track of every address, as subchannel Q gives it
  AudioTracks,     \* the CD-DA ones
  XaMatch,         \* audio sectors of the selected file and channel
  XaOther,         \* those of another one
  BadQ,            \* LibCrypt sectors, whose subchannel Q is dropped
  ReportAt,        \* sectors a report is due on
  MaxSpeed, Back,  \* bounds of Forward and Backward (4 sectors in the code)
  AckDelay, Period, Delays,  \* time to an INT3, between sectors, to the rest
  Guests           \* the guests: the commands each of them issues

Lba    == 0..MaxLba
Event  == {"COMMAND", "DRIVE", "SECOND"}
Flag   == SUBSET {"AUDIO", "ADPCM", "FILTER", "REPORT", "AUTOPAUSE"}
Drive  == {"IDLE", "SEEKING", "READING", "PLAYING", "PAUSING", "STOPPING"}

(* A command is a record: op, and lba or mode where it takes a parameter.   *)
(* A parameter that is not valid BCD is one that is missing.               *)
None == [op |-> "NONE"]

(* setloc_lba is looked at only while setloc_pending: one field for both.  *)
NotPending == MaxLba + 1

ASSUME Disc ==
  /\ MaxLba \in Nat /\ Total \in Lba \ {0} /\ Damaged \subseteq Lba
  /\ DOMAIN TrackOf = Lba
  /\ XaMatch \cap XaOther = {} /\ XaMatch \cup XaOther \subseteq Lba

ASSUME Times == AckDelay \in Nat \ {0} /\ Period \in Nat \ {0} /\ Delays \subseteq Nat \ {0}

(* A command's location is an address, and so is where the head gets from  *)
(* the disc's last sector in one step.                                     *)
ASSUME GuestCommands ==
  /\ \A c \in UNION Guests : /\ c # None
                             /\ "lba" \in DOMAIN c => c.lba \in Lba
                             /\ c.op = "SETMODE" => c.mode \in Flag
  /\ MaxSpeed \in Nat \ {0} /\ Back \in Nat
  /\ Total + MaxSpeed <= MaxLba + 1

VARIABLES
  cd,   \* struct Cdrom
  ev,   \* the three events: which are queued, when due, and their deadlines
  guest \* the commands the guest at work issues

vars == <<cd, ev, guest>>

Issued == UNION Guests

(* The interrupt flag, by its bits.                                        *)
NONE == {}
INT1 == {1}
INT2 == {2}
INT3 == {1, 2}
INT4 == {4}
INT5 == {1, 4}

(* The fields of struct Cdrom that the properties tell apart.              *)
Controller ==
  [interrupt_flag : SUBSET {1, 2, 4},
   pending_command : Issued \cup {None},
   second_response_cmd : {c.op : c \in Issued} \cup {"NONE"},
   cmd_event_pending : BOOLEAN, second_event_pending : BOOLEAN,
   drive_state : Drive, seek_phase : BOOLEAN,
   motor_on : BOOLEAN, disc_present : BOOLEAN,
   current_lba : Lba, head_lba : Lba, target_lba : Lba,
   setloc : Lba \cup {NotPending},
   last_track : {0} \cup {TrackOf[l] : l \in Lba},
   header_valid : BOOLEAN, mode : Flag, cdda_speed : 1..MaxSpeed]

Queue == [queue : SUBSET Event, due : [Event -> Nat], left : [Event -> Nat]]

TypeOK ==
  /\ cd \in Controller
  /\ ev \in Queue
  /\ guest \in Guests

(* cdrom_init, and cdrom_load_disc when the emulator is given a disc.      *)
Init ==
  /\ \E disc \in BOOLEAN :
       cd = [interrupt_flag |-> NONE, pending_command |-> None,
             second_response_cmd |-> "NONE",
             cmd_event_pending |-> FALSE, second_event_pending |-> FALSE,
             drive_state |-> "IDLE", seek_phase |-> FALSE,
             motor_on |-> disc, disc_present |-> disc,
             current_lba |-> 0, head_lba |-> 0, target_lba |-> 0,
             setloc |-> NotPending,
             last_track |-> IF disc THEN TrackOf[0] ELSE 0,
             header_valid |-> FALSE, mode |-> {}, cdda_speed |-> 1]
  /\ ev = [queue |-> {}, due |-> [e \in Event |-> 0], left |-> [e \in Event |-> 0]]
  /\ guest \in Guests
-----------------------------------------------------------------------------
(* The events.  Those due in the same dispatch run in the order of their   *)
(* slots, and the guest runs when none is due.                             *)
Slot(e) == CASE e = "COMMAND" -> 7 [] e = "DRIVE" -> 8 [] e = "SECOND" -> 9

Due(e) == e \in ev.queue /\ ev.due[e] = 0
Dispatched(e) == Due(e) /\ \A f \in Event : Due(f) => Slot(e) <= Slot(f)
GuestRuns == \A e \in Event : ~Due(e)

(* The dispatcher takes an event off the queue before it calls the handler.*)
Taken(e) == [ev EXCEPT !.queue = @ \ {e}]

Schedule(q, e, d) ==
  [queue |-> q.queue \cup {e},
   due   |-> [q.due EXCEPT ![e] = d],
   left  |-> [q.left EXCEPT ![e] = d]]

(* Mutant: what is left of the deadline, without the minimum.              *)
Rearm_NoFloor(q, es) ==
  [q EXCEPT !.queue = @ \cup es,
            !.due = [e \in Event |-> IF e \in es THEN q.left[e] ELSE q.due[e]]]

(* The re-arm functions: what is left of the deadline, at least one unit.  *)
Rearm(q, es) ==
  [q EXCEPT !.queue = @ \cup es,
            !.due = [e \in Event |-> IF e \in es /\ q.left[e] > 1 THEN q.left[e]
                                    ELSE IF e \in es THEN 1 ELSE q.due[e]]]

Earlier(n) == IF n = 0 THEN 0 ELSE n - 1

Time ==
  /\ GuestRuns
  /\ ev' = [queue |-> ev.queue,
            due   |-> [e \in Event |-> Earlier(ev.due[e])],
            left  |-> [e \in Event |-> Earlier(ev.left[e])]]
  /\ ev' # ev
  /\ UNCHANGED <<cd, guest>>
-----------------------------------------------------------------------------
(* The guest's two writes.                                                 *)

(* Index 0, port 1.  A command written over one that waits is dropped.     *)
WriteCommand(c) ==
  /\ GuestRuns
  /\ cd.pending_command = None
  /\ cd' = [cd EXCEPT !.pending_command = c, !.cmd_event_pending = TRUE]
  /\ ev' = IF cd.cmd_event_pending THEN ev ELSE Schedule(ev, "COMMAND", AckDelay)
  /\ UNCHANGED guest

(* Mutant: the drive is left to its own event.                             *)
Released_NoDrive(c) ==
  (IF c.second_response_cmd # "NONE" THEN {"SECOND"} ELSE {})
  \cup (IF c.pending_command # None THEN {"COMMAND"} ELSE {})

(* What the write that clears the last bit re-arms.                        *)
Released(c) ==
  (IF c.second_response_cmd # "NONE" THEN {"SECOND"} ELSE {})
  \cup (IF c.drive_state = "READING" THEN {"DRIVE"} ELSE {})
  \cup (IF c.pending_command # None THEN {"COMMAND"} ELSE {})

(* Index 1, port 3: the bits written are cleared.                          *)
Acknowledge(bits) ==
  /\ GuestRuns
  /\ LET flag == cd.interrupt_flag \ bits
         es   == IF flag = NONE THEN Released(cd) ELSE {}
     IN /\ cd' = [cd EXCEPT !.interrupt_flag = flag,
                            !.second_event_pending = @ \/ "SECOND" \in es,
                            !.cmd_event_pending = @ \/ "COMMAND" \in es]
        /\ ev' = Rearm(ev, es)
  /\ UNCHANGED guest

Guest == \/ \E c \in guest : WriteCommand(c)
         \/ \E bits \in SUBSET {1, 2, 4} : Acknowledge(bits)
-----------------------------------------------------------------------------
(* The first response: cdrom_execute_command.                              *)
NeedsDisc == {"SETLOC", "PLAY", "READN", "SEEKL"}
Unknown   == {"SYNC", "SETCLOCK", "GETCLOCK", "VIDEOCD"}
Plain     == {"GETSTAT", "MUTE", "DEMUTE", "SETFILTER", "GETPARAM", "GETLOCL", "GETLOCP",
              "GETTN", "GETTD", "TEST", "GETQ"}
(* ReadS and SeekP do what ReadN and SeekL do.                             *)
TwoResponses == {"MOTORON", "READT", "GETID", "READTOC"}

(* cdrom_disc_get_track_at_lba: past the end, the last track.              *)
OnAudio(l) == TrackOf[IF l < Total THEN l ELSE Total - 1] \in AudioTracks

HasHeader == cd.header_valid /\ cd.motor_on /\ ~(cd.disc_present /\ OnAudio(cd.head_lba))

Refused(c) ==
  \/ c.op \in NeedsDisc /\ ~cd.disc_present
  \/ c.op \in Unknown
  \/ c.op \in {"SETLOC", "GETTD"} /\ "lba" \notin DOMAIN c
  \/ c.op \in {"PAUSE", "GETLOCL"} /\ cd.seek_phase
  \/ c.op = "GETLOCL" /\ ~HasHeader

(* A second Init while the first is at work is dropped without an answer.  *)
InitOwed(c) ==
  /\ c.op = "INIT" /\ cd.second_response_cmd = "INIT"
  /\ cd.second_event_pending /\ ev.left["SECOND"] > 0

Begun == [cd EXCEPT !.pending_command = None, !.cmd_event_pending = FALSE]
Acked == [Begun EXCEPT !.interrupt_flag = INT3]

(* The command c is executed, changes the controller to `after` and queues *)
(* the event e after one of the delays ds.                                 *)
Answers(after) == cd' = after /\ ev' = Taken("COMMAND")
Starts(after, e, ds) ==
  /\ cd' = IF e = "SECOND" THEN [after EXCEPT !.second_event_pending = TRUE] ELSE after
  /\ \E d \in ds : ev' = Schedule(Taken("COMMAND"), e, d)

Refuse(c) == Refused(c) /\ Answers([Begun EXCEPT !.interrupt_flag = INT5])
DropInit(c) == InitOwed(c) /\ Answers(Begun)
Answer(c) == c.op \in Plain /\ Answers(Acked)

(* Test 04h forces the motor on.                                           *)
TestMotor(c) == c.op = "TEST04" /\ Answers([Acked EXCEPT !.motor_on = TRUE])

Setloc(c) ==
  /\ c.op = "SETLOC"
  /\ Answers([Acked EXCEPT !.setloc = c.lba])

Setmode(c) == c.op = "SETMODE" /\ Answers([Acked EXCEPT !.mode = c.mode])

Forward(c) ==
  /\ c.op = "FORWARD"
  /\ Answers([Acked EXCEPT !.cdda_speed =
                IF cd.drive_state = "PLAYING" /\ 2 * @ <= MaxSpeed THEN 2 * @ ELSE @])

(* Mutant: the address wraps below sector 0.                               *)
Backward_NoFloor(c) ==
  /\ c.op = "BACKWARD"
  /\ Answers([Acked EXCEPT !.current_lba = IF cd.drive_state = "PLAYING" THEN @ - Back ELSE @])

Backward(c) ==
  /\ c.op = "BACKWARD"
  /\ Answers([Acked EXCEPT !.current_lba =
                IF cd.drive_state = "PLAYING" THEN (IF @ > Back THEN @ - Back ELSE 0) ELSE @])

(* begin_reading: a new location or a drive that was not reading costs a   *)
(* seek; without a Setloc a stopped drive resumes at the last sector.      *)
ReadFrom ==
  IF cd.setloc # NotPending THEN cd.setloc
  ELSE IF cd.drive_state \in {"IDLE", "PAUSING"} THEN cd.head_lba ELSE cd.current_lba

ReadN(c) ==
  /\ c.op = "READN"
  /\ LET moved == cd.setloc # NotPending /\ cd.setloc # cd.current_lba
     IN Starts([Acked EXCEPT !.current_lba = ReadFrom, !.setloc = NotPending,
                             !.drive_state = "READING",
                             !.seek_phase = @ \/ moved \/ cd.drive_state # "READING"],
               "DRIVE", IF moved THEN Delays ELSE {Period})

(* begin_playing: from a track's start, from Setloc, or from where it is.  *)
Play(c) ==
  /\ c.op = "PLAY"
  /\ LET from == IF "lba" \in DOMAIN c THEN c.lba
                 ELSE IF cd.setloc # NotPending THEN cd.setloc ELSE cd.current_lba
         moved == from # cd.current_lba
     IN Starts([Acked EXCEPT !.current_lba = from, !.setloc = NotPending,
                             !.drive_state = "PLAYING", !.cdda_speed = 1,
                             !.seek_phase = @ \/ moved \/ cd.drive_state # "PLAYING"],
               "DRIVE", IF moved THEN Delays ELSE {Period})

(* begin_seeking.                                                          *)
SeekL(c) ==
  /\ c.op = "SEEKL"
  /\ Starts([Acked EXCEPT !.target_lba = IF cd.setloc # NotPending THEN cd.setloc ELSE @,
                          !.setloc = NotPending, !.drive_state = "SEEKING",
                          !.seek_phase = TRUE, !.second_response_cmd = "SEEKL"],
            "SECOND", Delays)

Stop(c) ==
  /\ c.op = "STOP"
  /\ Starts([Acked EXCEPT !.drive_state = "STOPPING", !.second_response_cmd = "STOP"],
            "SECOND", Delays)

Pause(c) ==
  /\ c.op = "PAUSE"
  /\ Starts([Acked EXCEPT !.drive_state = IF @ \in {"READING", "PLAYING"} THEN "PAUSING" ELSE @,
                          !.second_response_cmd = "PAUSE"],
            "SECOND", Delays)

InitCommand(c) ==
  /\ c.op = "INIT"
  /\ LET aborts == cd.drive_state \in {"READING", "PLAYING", "SEEKING"}
     IN Starts([Acked EXCEPT !.mode = {}, !.motor_on = TRUE,
                             !.drive_state = IF aborts THEN "IDLE" ELSE @,
                             !.seek_phase = @ /\ ~aborts,
                             !.second_response_cmd = "INIT"],
               "SECOND", Delays)

(* The mode register alone is cleared; the flags taken from it stay.       *)
Reset(c) ==
  /\ c.op = "RESET"
  /\ Answers([Acked EXCEPT !.drive_state = "IDLE", !.motor_on = cd.disc_present])

(* One slot holds the second response owed: a later command takes it.      *)
StartTask(c) ==
  /\ c.op \in TwoResponses
  /\ Starts([Acked EXCEPT !.second_response_cmd = c.op, !.motor_on = @ \/ c.op = "MOTORON"],
            "SECOND", Delays)

Execute(c) ==
  \/ Refuse(c)
  \/ DropInit(c)
  \/ /\ ~Refused(c) /\ ~InitOwed(c)
     /\ \/ Answer(c) \/ TestMotor(c) \/ Setloc(c) \/ Setmode(c) \/ Forward(c) \/ Backward(c)
        \/ ReadN(c) \/ Play(c) \/ SeekL(c) \/ Stop(c) \/ Pause(c) \/ InitCommand(c)
        \/ Reset(c) \/ StartTask(c)

CommandTick ==
  /\ Dispatched("COMMAND") /\ UNCHANGED guest
  /\ IF cd.interrupt_flag # NONE
     THEN ev' = Rearm(Taken("COMMAND"), {"COMMAND"}) /\ UNCHANGED cd
     ELSE Execute(cd.pending_command)
-----------------------------------------------------------------------------
(* The second response: cdrom_execute_second_response.                     *)
Completed == [cd EXCEPT !.second_response_cmd = "NONE", !.second_event_pending = FALSE,
                        !.interrupt_flag = INT2]

Halted(c) == [c EXCEPT !.drive_state = "IDLE", !.seek_phase = FALSE]

Complete(op) ==
  CASE op = "SEEKL" -> [Halted(Completed) EXCEPT !.current_lba = cd.target_lba,
                                                 !.head_lba = cd.target_lba,
                                                 !.last_track = TrackOf[cd.target_lba]]
    [] op = "PAUSE" -> Halted(Completed)
    [] op = "STOP"  -> [Halted(Completed) EXCEPT !.motor_on = FALSE]
    [] op = "INIT"  -> [Halted(Completed) EXCEPT !.motor_on = cd.disc_present, !.mode = {}]
    [] op = "GETID" ->
         [Completed EXCEPT !.interrupt_flag = IF cd.disc_present THEN INT2 ELSE INT5]
    [] OTHER        -> Completed

(* Mutant: a response that is due while an interrupt waits is dropped.     *)
SecondTick_Drops ==
  /\ Dispatched("SECOND") /\ UNCHANGED guest
  /\ ev' = Taken("SECOND")
  /\ cd' = IF cd.interrupt_flag # NONE THEN [cd EXCEPT !.second_event_pending = FALSE]
           ELSE Complete(cd.second_response_cmd)

(* Mutant: an interrupt that waits is not looked at.                       *)
SecondTick_Overwrites ==
  /\ Dispatched("SECOND") /\ UNCHANGED guest
  /\ ev' = Taken("SECOND") /\ cd' = Complete(cd.second_response_cmd)

SecondTick ==
  /\ Dispatched("SECOND") /\ UNCHANGED guest
  /\ IF cd.interrupt_flag # NONE
     THEN ev' = Rearm(Taken("SECOND"), {"SECOND"}) /\ UNCHANGED cd
     ELSE ev' = Taken("SECOND") /\ cd' = Complete(cd.second_response_cmd)
-----------------------------------------------------------------------------
(* The drive.                                                              *)

(* What the reader answers for the sector under the head.  A sector past   *)
(* the last track's end cannot be read (cdrom_disc_read_sector).           *)
Readable(l) == l < Total /\ l \notin Damaged
Polls(l) == {"PENDING", IF Readable(l) THEN "READY" ELSE "FAILED"}

(* cdrom_route_sector.                                                     *)
Route(l) ==
  IF OnAudio(l) THEN "DATA"
  ELSE IF "ADPCM" \in cd.mode /\ (l \in XaMatch \/ ("FILTER" \notin cd.mode /\ l \in XaOther))
  THEN "ADPCM"
  ELSE IF "FILTER" \in cd.mode /\ l \in XaMatch \cup XaOther THEN "DISCARD"
  ELSE "DATA"

Passed(c) == [c EXCEPT !.seek_phase = FALSE, !.head_lba = c.current_lba,
                       !.current_lba = c.current_lba + 1,
                       !.last_track = IF c.current_lba \in BadQ THEN @
                                      ELSE TrackOf[c.current_lba]]

(* Mutant: the head moves on over a sector that has to be held.            *)
Hold_Skips == ev' = Taken("DRIVE") /\ cd' = Passed(cd)
Hold == ev' = Taken("DRIVE") /\ UNCHANGED cd

Retry == ev' = Schedule(Taken("DRIVE"), "DRIVE", 1) /\ UNCHANGED cd

(* Mutant: the read stops without a word.                                  *)
FailRead_Silent ==
  /\ ev' = Taken("DRIVE")
  /\ cd' = [cd EXCEPT !.drive_state = "IDLE"]

FailRead ==
  /\ ev' = Taken("DRIVE")
  /\ cd' = [cd EXCEPT !.interrupt_flag = INT5, !.drive_state = "IDLE"]

Stream == ev' = Schedule(Taken("DRIVE"), "DRIVE", Period) /\ cd' = Passed(cd)

Deliver ==
  /\ ev' = Schedule(Taken("DRIVE"), "DRIVE", Period)
  /\ cd' = [Passed(cd) EXCEPT !.interrupt_flag = INT1, !.header_valid = TRUE]

(* cdrom_drive_read_sector; `held`: an interrupt is not yet acknowledged.  *)
ReadSector(held) ==
  \E st \in Polls(cd.current_lba) :
    \/ st = "PENDING" /\ Retry
    \/ st = "FAILED" /\ IF held THEN Hold ELSE FailRead
    \/ st = "READY" /\ IF Route(cd.current_lba) # "DATA" THEN Stream
                       ELSE IF held THEN Hold ELSE Deliver

(* The end of the disc, or with AutoPause of the track: back to its last   *)
(* sector.  The first sector after a seek has no predecessor to compare.   *)
TrackEnds(l) ==
  /\ "AUTOPAUSE" \in cd.mode /\ ~cd.seek_phase
  /\ l \notin BadQ /\ TrackOf[l] # cd.last_track

EndPlay(l) ==
  LET back == IF l > 0 THEN l - 1 ELSE 0
  IN /\ ev' = Taken("DRIVE")
     /\ cd' = IF l >= Total
              THEN [Halted(cd) EXCEPT !.interrupt_flag = INT4]
              ELSE [Halted(cd) EXCEPT !.interrupt_flag = INT4,
                                      !.current_lba = back, !.head_lba = back]

KeepPlaying(l) ==
  /\ ev' = Schedule(Taken("DRIVE"), "DRIVE", Period)
  /\ cd' = [cd EXCEPT !.seek_phase = FALSE, !.head_lba = l,
                      !.last_track = IF l \in BadQ THEN @ ELSE TrackOf[l],
                      !.interrupt_flag =
                         IF "REPORT" \in cd.mode /\ l \in ReportAt THEN INT1 ELSE @,
                      !.current_lba = l + cd.cdda_speed]

(* cdrom_execute_drive while playing.  A sector that cannot be read stops  *)
(* the drive.                                                              *)
PlaySector ==
  LET l == cd.current_lba
  IN \E st \in Polls(l) :
       \/ st = "PENDING" /\ Retry
       \/ st = "FAILED" /\ ev' = Taken("DRIVE") /\ cd' = Halted(cd)
       \/ st = "READY" /\ IF l >= Total \/ TrackEnds(l) THEN EndPlay(l) ELSE KeepPlaying(l)

DriveTick ==
  /\ Dispatched("DRIVE") /\ UNCHANGED guest
  /\ \/ cd.drive_state = "READING" /\ ReadSector(cd.interrupt_flag # NONE)
     \/ cd.drive_state = "PLAYING" /\ IF cd.interrupt_flag # NONE THEN Retry ELSE PlaySector
     \/ cd.drive_state \notin {"READING", "PLAYING"} /\ Hold
-----------------------------------------------------------------------------
Next == Time \/ Guest \/ CommandTick \/ DriveTick \/ SecondTick

Spec == Init /\ [][Next]_vars

(* Time passes, what is due is dispatched, and a guest acknowledges every  *)
(* interrupt in the end.                                                   *)
Clears == cd.interrupt_flag # NONE /\ Acknowledge({1, 2, 4})
FairSpec == Spec /\ WF_vars(Time) /\ WF_vars(CommandTick) /\ WF_vars(DriveTick)
                 /\ WF_vars(SecondTick) /\ SF_vars(Clears)
-----------------------------------------------------------------------------
(* An interrupt the guest has not acknowledged is never overwritten: only  *)
(* the guest's own write changes a flag that is up.                        *)
NeverOverwritten ==
  [][cd.interrupt_flag # NONE => cd'.interrupt_flag \subseteq cd.interrupt_flag]_vars

(* A drive at work has an event to go on with: one that waits in the queue,*)
(* or, for a read, the acknowledge it is held by.                          *)
DriveIsDriven ==
  /\ cd.drive_state = "PLAYING" => "DRIVE" \in ev.queue
  /\ cd.drive_state = "READING" => "DRIVE" \in ev.queue \/ cd.interrupt_flag # NONE

(* What the controller owes is in the queue, and its own two flags never   *)
(* drift from the queue.                                                   *)
OwedIsQueued ==
  /\ cd.pending_command # None <=> "COMMAND" \in ev.queue
  /\ cd.second_response_cmd # "NONE" <=> "SECOND" \in ev.queue
  /\ cd.cmd_event_pending <=> "COMMAND" \in ev.queue
  /\ cd.second_event_pending <=> "SECOND" \in ev.queue

(* While the drive reads no sector is skipped and none is given twice,     *)
(* however the guest delays its acknowledges, unless the head was sent     *)
(* elsewhere; and a data sector never passes without its INT1.             *)
NoSectorLost ==
  [][cd.drive_state = "READING" /\ cd'.drive_state = "READING" /\ cd'.head_lba # cd.head_lba
     => /\ cd.seek_phase \/ cd'.head_lba = cd.head_lba + 1
        /\ Route(cd'.head_lba) = "DATA"
             => cd.interrupt_flag = NONE /\ cd'.interrupt_flag = INT1]_vars

(* A read does not stop without telling the guest.                         *)
NoSilentStop ==
  [][cd.drive_state = "READING" /\ cd'.drive_state # "READING"
     => cd.interrupt_flag = NONE /\ cd'.interrupt_flag # NONE]_vars

(* A command that was written is executed, whatever the drive delivers and *)
(* however slowly the guest acknowledges.                                  *)
CommandIsExecuted == cd.pending_command # None ~> cd.pending_command = None

(* Whatever the controller has begun is on its way to an end: an event, or *)
(* the acknowledge that re-arms it.                                        *)
NothingForgotten == TypeOK /\ DriveIsDriven /\ OwedIsQueued

(* A read gives every sector, or says that it has stopped.                 *)
ReadsAreWhole == NoSectorLost /\ NoSilentStop

(* cdrom.h on seek_phase: "True from the moment a seek starts until the    *)
(* head has arrived" - a head that is to arrive is on its way.             *)
SeekPhaseEnds ==
  cd.seek_phase => \/ cd.drive_state \in {"READING", "PLAYING"}
                   \/ cd.second_response_cmd \in {"SEEKL", "STOP", "PAUSE", "INIT"}

(* cdrom_execute_drive: "End of disc: INT4 DataEnd".                       *)
EndOfDiscIsSignalled ==
  [][DriveTick /\ cd.drive_state = "PLAYING" /\ cd'.drive_state = "IDLE"
     /\ cd.current_lba >= Total => cd'.interrupt_flag = INT4]_vars
=============================================================================
