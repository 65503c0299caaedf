---------------------------- MODULE CdromProofs ----------------------------
(***************************************************************************)
(* Proofs about Cdrom for every disc, every set of commands and every      *)
(* delay.  What holds the controller together is that its own flags never  *)
(* drift from the event queue (OwedIsQueued): a handler may then rely on   *)
(* its event, and an acknowledge on the flags, to go on with what waits.   *)
(***************************************************************************)
EXTENDS Cdrom, TLAPS

IInv == TypeOK /\ OwedIsQueued /\ DriveIsDriven

(* An event off the queue, put on it, or put back on it.                   *)
LEMMA TakenType ==
  ASSUME ev \in Queue, NEW e \in Event
  PROVE  Taken(e) \in Queue /\ Taken(e).queue = ev.queue \ {e}
BY DEF Queue, Taken

(* Scheduling queues the event.                                            *)
LEMMA ScheduleType ==
  ASSUME NEW q \in Queue, NEW e \in Event, NEW d \in Nat
  PROVE  Schedule(q, e, d) \in Queue /\ Schedule(q, e, d).queue = q.queue \cup {e}
BY DEF Queue, Schedule

(* So does re-arming, for all that are held back.                          *)
LEMMA RearmType ==
  ASSUME NEW q \in Queue, NEW es \in SUBSET Event
  PROVE  Rearm(q, es) \in Queue /\ Rearm(q, es).queue = q.queue \cup es
<1> DEFINE due == [e \in Event |-> IF e \in es /\ q.left[e] > 1 THEN q.left[e]
                                   ELSE IF e \in es THEN 1 ELSE q.due[e]]
<1>1. due \in [Event -> Nat]
  BY DEF Queue
<1>2. Rearm(q, es) = [q EXCEPT !.queue = @ \cup es, !.due = due]
  BY DEF Rearm
<1> HIDE DEF due
<1> QED
  BY <1>1, <1>2 DEF Queue

(* An event that fired and is put off is where it was.                     *)
LEMMA RequeueType ==
  ASSUME ev \in Queue, NEW e \in ev.queue, e \in Event
  PROVE  Rearm(Taken(e), {e}) \in Queue /\ Rearm(Taken(e), {e}).queue = ev.queue
<1>1. Taken(e) \in Queue /\ Taken(e).queue = ev.queue \ {e} /\ {e} \in SUBSET Event
  BY TakenType
<1>2. /\ Rearm(Taken(e), {e}) \in Queue
      /\ Rearm(Taken(e), {e}).queue = (ev.queue \ {e}) \cup {e}
  BY <1>1, RearmType
<1>3. (ev.queue \ {e}) \cup {e} = ev.queue
  OBVIOUS
<1> QED
  BY <1>2, <1>3

(* The delays are numbers of units.                                        *)
LEMMA DelayTypes ==
  /\ AckDelay \in Nat /\ Period \in Nat /\ 1 \in Nat /\ \A d \in Delays : d \in Nat
  /\ MaxLba \in Nat /\ Total \in Nat /\ Total > 0 /\ Total <= MaxLba
  /\ 0 \in Lba
BY Times, Disc DEF Lba
-----------------------------------------------------------------------------
(* The guest and the clock.                                                *)

(* A command that is accepted is queued.                                   *)
LEMMA WriteCommandStep ==
  ASSUME IInv, NEW c \in guest, WriteCommand(c)
  PROVE  IInv'
<1>1. c \in Issued /\ c # None
  BY GuestCommands DEF IInv, TypeOK, Issued
<1>2. "COMMAND" \notin ev.queue /\ ~cd.cmd_event_pending
  BY DEF WriteCommand, IInv, OwedIsQueued
<1>3. ev' = Schedule(ev, "COMMAND", AckDelay)
  BY <1>2 DEF WriteCommand
<1>4. ev' \in Queue /\ ev'.queue = ev.queue \cup {"COMMAND"}
  BY <1>3, ScheduleType, DelayTypes DEF IInv, TypeOK, Event
<1>5. cd' = [cd EXCEPT !.pending_command = c, !.cmd_event_pending = TRUE]
  BY DEF WriteCommand
<1>6. cd' \in Controller
  BY <1>1, <1>5 DEF IInv, TypeOK, Controller
<1>7. /\ cd'.pending_command = c /\ cd'.cmd_event_pending
      /\ cd'.second_response_cmd = cd.second_response_cmd
      /\ cd'.second_event_pending = cd.second_event_pending
      /\ cd'.drive_state = cd.drive_state /\ cd'.interrupt_flag = cd.interrupt_flag
  BY <1>5 DEF IInv, TypeOK, Controller
<1>8. guest' = guest
  BY DEF WriteCommand
<1> QED
  BY <1>1, <1>4, <1>6, <1>7, <1>8 DEF IInv, TypeOK, OwedIsQueued, DriveIsDriven

(* An acknowledge that clears the last bit re-arms all that is held back.  *)
LEMMA AcknowledgeStep ==
  ASSUME IInv, NEW bits \in SUBSET {1, 2, 4}, Acknowledge(bits)
  PROVE  IInv'
<1> DEFINE flag == cd.interrupt_flag \ bits
           es   == IF flag = NONE THEN Released(cd) ELSE {}
<1>1. /\ cd' = [cd EXCEPT !.interrupt_flag = flag,
                          !.second_event_pending = @ \/ "SECOND" \in es,
                          !.cmd_event_pending = @ \/ "COMMAND" \in es]
      /\ ev' = Rearm(ev, es) /\ guest' = guest
  BY DEF Acknowledge
<1>2. /\ es \in SUBSET Event
      /\ "SECOND" \in es => cd.second_response_cmd # "NONE"
      /\ "COMMAND" \in es => cd.pending_command # None
      /\ cd.drive_state = "READING" /\ flag = NONE => "DRIVE" \in es
  BY DEF Released, Event
<1>3. flag \in SUBSET {1, 2, 4}
  BY DEF IInv, TypeOK, Controller
<1> HIDE DEF flag, es
<1>4. ev' \in Queue /\ ev'.queue = ev.queue \cup es
  BY <1>1, <1>2, RearmType DEF IInv, TypeOK
<1>5. cd' \in Controller
  BY <1>1, <1>3 DEF IInv, TypeOK, Controller
<1>6. /\ cd'.pending_command = cd.pending_command
      /\ cd'.cmd_event_pending = (cd.cmd_event_pending \/ "COMMAND" \in es)
      /\ cd'.second_response_cmd = cd.second_response_cmd
      /\ cd'.second_event_pending = (cd.second_event_pending \/ "SECOND" \in es)
      /\ cd'.drive_state = cd.drive_state /\ cd'.interrupt_flag = flag
  BY <1>1 DEF IInv, TypeOK, Controller
<1> QED
  BY <1>1, <1>2, <1>4, <1>5, <1>6 DEF IInv, TypeOK, OwedIsQueued, DriveIsDriven

(* The clock only counts down.                                             *)
LEMMA TimeStep ==
  ASSUME IInv, Time
  PROVE  IInv'
<1>1. /\ ev' = [queue |-> ev.queue,
                due   |-> [e \in Event |-> Earlier(ev.due[e])],
                left  |-> [e \in Event |-> Earlier(ev.left[e])]]
      /\ cd' = cd /\ guest' = guest
  BY DEF Time
<1>2. \A n \in Nat : Earlier(n) \in Nat
  BY DEF Earlier
<1>3. ev' \in Queue /\ ev'.queue = ev.queue
  BY <1>1, <1>2 DEF IInv, TypeOK, Queue
<1> QED
  BY <1>1, <1>3 DEF IInv, TypeOK, OwedIsQueued, DriveIsDriven
-----------------------------------------------------------------------------
(* The first response.                                                     *)

(* What the command handler may make of the controller: the command is     *)
(* gone and the drive goes on as before, or stands still.                  *)
Done(after) ==
  /\ after \in Controller
  /\ after.pending_command = None /\ ~after.cmd_event_pending
  /\ after.drive_state \in {"READING", "PLAYING"} => after.drive_state = cd.drive_state

SameSecond(after) ==
  /\ after.second_response_cmd = cd.second_response_cmd
  /\ after.second_event_pending = cd.second_event_pending

(* While the flag is down the drive at work is queued, so a command that   *)
(* answers and does nothing else leaves it queued.                         *)
LEMMA AnswersStep ==
  ASSUME IInv, cd.interrupt_flag = NONE, guest' = guest,
         NEW after, Done(after), SameSecond(after), Answers(after)
  PROVE  IInv'
<1>1. cd' = after /\ ev' = Taken("COMMAND")
  BY DEF Answers
<1>2. ev' \in Queue /\ ev'.queue = ev.queue \ {"COMMAND"}
  BY <1>1, TakenType DEF IInv, TypeOK, Event
<1> QED
  BY <1>1, <1>2 DEF IInv, TypeOK, OwedIsQueued, DriveIsDriven, Done, SameSecond

(* One that starts the second response owes it and queues it.              *)
LEMMA StartsSecondStep ==
  ASSUME IInv, cd.interrupt_flag = NONE, guest' = guest,
         NEW after, Done(after), after.second_response_cmd # "NONE",
         NEW ds \in SUBSET Nat, Starts(after, "SECOND", ds)
  PROVE  IInv'
<1>1. PICK d \in ds : ev' = Schedule(Taken("COMMAND"), "SECOND", d)
  BY DEF Starts
<1>2. ev' \in Queue /\ ev'.queue = (ev.queue \ {"COMMAND"}) \cup {"SECOND"}
  BY <1>1, TakenType, ScheduleType DEF IInv, TypeOK, Event
<1>3. cd' = [after EXCEPT !.second_event_pending = TRUE] /\ after \in Controller
  BY DEF Starts, Done
<1>4. cd' \in Controller
  BY <1>3 DEF Controller
<1>5. /\ cd'.pending_command = after.pending_command
      /\ cd'.cmd_event_pending = after.cmd_event_pending
      /\ cd'.second_response_cmd = after.second_response_cmd
      /\ cd'.second_event_pending /\ cd'.drive_state = after.drive_state
  BY <1>3 DEF Controller
<1> QED
  BY <1>2, <1>4, <1>5 DEF IInv, TypeOK, OwedIsQueued, DriveIsDriven, Done

(* One that starts the drive queues it.                                    *)
LEMMA StartsDriveStep ==
  ASSUME IInv, guest' = guest,
         NEW after, after \in Controller,
         after.pending_command = None, ~after.cmd_event_pending, SameSecond(after),
         NEW ds \in SUBSET Nat, Starts(after, "DRIVE", ds)
  PROVE  IInv'
<1>1. PICK d \in ds : ev' = Schedule(Taken("COMMAND"), "DRIVE", d)
  BY DEF Starts
<1>2. ev' \in Queue /\ ev'.queue = (ev.queue \ {"COMMAND"}) \cup {"DRIVE"}
  BY <1>1, TakenType, ScheduleType DEF IInv, TypeOK, Event
<1>3. cd' = after
  BY DEF Starts
<1> QED
  BY <1>2, <1>3 DEF IInv, TypeOK, OwedIsQueued, DriveIsDriven, SameSecond

(* The controller as every command finds it, and as most leave it.         *)
LEMMA BegunDone ==
  ASSUME IInv
  PROVE  /\ Begun \in Controller /\ Done(Begun) /\ SameSecond(Begun)
         /\ Acked \in Controller /\ Done(Acked) /\ SameSecond(Acked)
         /\ \A f \in {"drive_state", "seek_phase", "motor_on", "current_lba", "head_lba",
                      "target_lba", "setloc", "mode", "cdda_speed", "disc_present"} :
               Acked[f] = cd[f]
<1>1. cd \in Controller
  BY DEF IInv, TypeOK
<1>2. Begun \in Controller
  BY <1>1 DEF Begun, Controller
<1>3. Acked \in Controller
  BY <1>2 DEF Acked, Controller, INT3
<1>4. Done(Begun) /\ SameSecond(Begun)
  BY <1>1, <1>2 DEF Begun, Done, SameSecond, Controller
<1>5. Done(Acked) /\ SameSecond(Acked)
  BY <1>1, <1>2, <1>3, <1>4 DEF Acked, Done, SameSecond, Controller
<1> QED
  BY <1>1, <1>2, <1>3, <1>4, <1>5 DEF Acked, Begun, Controller

(* A command that only answers.                                            *)
LEMMA AnswerStep ==
  ASSUME IInv, cd.interrupt_flag = NONE, guest' = guest, NEW c \in Issued,
         \/ Refuse(c) \/ DropInit(c) \/ Answer(c) \/ TestMotor(c) \/ Setmode(c)
         \/ Forward(c) \/ Backward(c) \/ Reset(c)
         \/ Setloc(c) /\ ~Refused(c)
  PROVE  IInv'
<1> USE BegunDone, AnswersStep
<1>0. Acked \in Controller /\ Begun \in Controller
  OBVIOUS
<1>1. CASE Refuse(c)
  <2> DEFINE a == [Begun EXCEPT !.interrupt_flag = INT5]
  <2>1. Done(a) /\ SameSecond(a)
    BY DEF Done, SameSecond, Controller, INT5
  <2> QED
    BY <1>1, <2>1 DEF Refuse
<1>2. CASE DropInit(c)
  BY <1>2 DEF DropInit
<1>3. CASE Answer(c)
  BY <1>3 DEF Answer
<1>4. CASE TestMotor(c)
  <2> DEFINE a == [Acked EXCEPT !.motor_on = TRUE]
  <2>1. Done(a) /\ SameSecond(a)
    BY DEF Done, SameSecond, Controller
  <2> QED
    BY <1>4, <2>1 DEF TestMotor
<1>5. CASE Setmode(c)
  <2> DEFINE a == [Acked EXCEPT !.mode = c.mode]
  <2>1. c.mode \in Flag
    BY <1>5, GuestCommands DEF Setmode, Issued
  <2>2. Done(a) /\ SameSecond(a)
    BY <2>1 DEF Done, SameSecond, Controller
  <2> QED
    BY <1>5, <2>2 DEF Setmode
<1>6. CASE Forward(c)
  <2> DEFINE speed == IF cd.drive_state = "PLAYING" /\ 2 * Acked.cdda_speed <= MaxSpeed
                      THEN 2 * Acked.cdda_speed ELSE Acked.cdda_speed
             a == [Acked EXCEPT !.cdda_speed = speed]
  <2>1. Acked.cdda_speed \in 1..MaxSpeed /\ MaxSpeed \in Nat
    BY GuestCommands DEF Controller
  <2>2. speed \in 1..MaxSpeed
    BY <2>1
  <2>3. Answers(a)
    BY <1>6 DEF Forward
  <2> HIDE DEF speed
  <2>4. Done(a) /\ SameSecond(a)
    BY <2>2 DEF Done, SameSecond, Controller
  <2> QED
    BY <2>3, <2>4
<1>7. CASE Backward(c)
  <2> DEFINE at == Acked.current_lba
             to == IF cd.drive_state = "PLAYING" THEN (IF at > Back THEN at - Back ELSE 0) ELSE at
             a  == [Acked EXCEPT !.current_lba = to]
  <2>1. at \in Lba /\ Back \in Nat /\ MaxLba \in Nat
    BY GuestCommands, DelayTypes DEF Controller
  <2>2. to \in Lba
    BY <2>1 DEF Lba
  <2>3. Answers(a)
    BY <1>7 DEF Backward
  <2> HIDE DEF to
  <2>4. Done(a) /\ SameSecond(a)
    BY <2>2 DEF Done, SameSecond, Controller
  <2> QED
    BY <2>3, <2>4
<1>8. CASE Reset(c)
  <2> DEFINE a == [Acked EXCEPT !.drive_state = "IDLE", !.motor_on = cd.disc_present]
  <2>1. cd.disc_present \in BOOLEAN
    BY DEF IInv, TypeOK, Controller
  <2>2. a \in Controller
    BY <2>1 DEF Controller, Drive
  <2>3. Done(a) /\ SameSecond(a)
    BY <2>2 DEF Done, SameSecond, Controller
  <2> QED
    BY <1>8, <2>3 DEF Reset
<1>9. CASE Setloc(c) /\ ~Refused(c)
  <2> DEFINE a == [Acked EXCEPT !.setloc = c.lba]
  <2>1. c.lba \in Lba
    BY <1>9, GuestCommands DEF Setloc, Refused, Issued
  <2>2. Done(a) /\ SameSecond(a)
    BY <2>1 DEF Done, SameSecond, Controller
  <2> QED
    BY <1>9, <2>2 DEF Setloc
<1> QED
  BY <1>1, <1>2, <1>3, <1>4, <1>5, <1>6, <1>7, <1>8, <1>9

(* A command that starts the drive: a read from the head, the location     *)
(* that waits or where the drive is, or audio from a track's start.        *)
LEMMA DriveCommandStep ==
  ASSUME IInv, guest' = guest, NEW c \in Issued, ReadN(c) \/ Play(c)
  PROVE  IInv'
<1>0. Acked \in Controller /\ SameSecond(Acked)
      /\ Acked.pending_command = None /\ ~Acked.cmd_event_pending
  BY BegunDone DEF Done
<1>1. /\ cd.setloc # NotPending => cd.setloc \in Lba
      /\ cd.head_lba \in Lba /\ cd.current_lba \in Lba /\ cd.seek_phase \in BOOLEAN
      /\ Acked.seek_phase \in BOOLEAN
  BY <1>0 DEF IInv, TypeOK, Controller
<1>2. Delays \in SUBSET Nat /\ {Period} \in SUBSET Nat
  BY DelayTypes
<1>3. CASE ReadN(c)
  <2> DEFINE moved == cd.setloc # NotPending /\ cd.setloc # cd.current_lba
             seek  == Acked.seek_phase \/ moved \/ cd.drive_state # "READING"
             a == [Acked EXCEPT !.current_lba = ReadFrom, !.setloc = NotPending,
                                !.drive_state = "READING", !.seek_phase = seek]
  <2>1. ReadFrom \in Lba
    BY <1>1 DEF ReadFrom
  <2>2. Starts(a, "DRIVE", IF moved THEN Delays ELSE {Period})
    BY <1>3 DEF ReadN
  <2>3. seek \in BOOLEAN
    BY <1>1
  <2> HIDE DEF seek, moved
  <2>4. a \in Controller
    BY <1>0, <2>1, <2>3 DEF Controller, Drive
  <2>5. a.pending_command = None /\ ~a.cmd_event_pending /\ SameSecond(a)
    BY <1>0 DEF Controller, SameSecond
  <2> QED
    BY <1>2, <2>2, <2>4, <2>5, StartsDriveStep
<1>4. CASE Play(c)
  <2> DEFINE from == IF "lba" \in DOMAIN c THEN c.lba
                     ELSE IF cd.setloc # NotPending THEN cd.setloc ELSE cd.current_lba
             moved == from # cd.current_lba
             seek == Acked.seek_phase \/ moved \/ cd.drive_state # "PLAYING"
             a == [Acked EXCEPT !.current_lba = from, !.setloc = NotPending,
                                !.drive_state = "PLAYING", !.cdda_speed = 1,
                                !.seek_phase = seek]
  <2>1. from \in Lba
    BY <1>1, GuestCommands DEF Issued
  <2>2. Starts(a, "DRIVE", IF moved THEN Delays ELSE {Period})
    BY <1>4 DEF Play
  <2>3. seek \in BOOLEAN /\ 1 \in 1..MaxSpeed
    BY <1>1, GuestCommands
  <2> HIDE DEF seek, moved, from
  <2>4. a \in Controller
    BY <1>0, <2>1, <2>3 DEF Controller, Drive
  <2>5. a.pending_command = None /\ ~a.cmd_event_pending /\ SameSecond(a)
    BY <1>0 DEF Controller, SameSecond
  <2> QED
    BY <1>2, <2>2, <2>4, <2>5, StartsDriveStep
<1> QED
  BY <1>3, <1>4

(* A command that owes a second response: the one slot is its own now.     *)
LEMMA TaskCommandStep ==
  ASSUME IInv, cd.interrupt_flag = NONE, guest' = guest, NEW c \in Issued,
         SeekL(c) \/ Stop(c) \/ Pause(c) \/ InitCommand(c) \/ StartTask(c)
  PROVE  IInv'
<1>0. /\ Acked \in Controller /\ Done(Acked) /\ Delays \in SUBSET Nat
      /\ c.op \in {x.op : x \in Issued}
  BY BegunDone, DelayTypes
<1>2. /\ Acked.drive_state \in Drive /\ Acked.target_lba \in Lba
      /\ Acked.seek_phase \in BOOLEAN /\ Acked.motor_on \in BOOLEAN
      /\ cd.setloc # NotPending => cd.setloc \in Lba
      /\ {} \in Flag
  BY <1>0 DEF IInv, TypeOK, Controller, Flag
<1>3. CASE SeekL(c)
  <2> DEFINE target == IF cd.setloc # NotPending THEN cd.setloc ELSE Acked.target_lba
             a == [Acked EXCEPT !.target_lba = target, !.setloc = NotPending,
                                !.drive_state = "SEEKING", !.seek_phase = TRUE,
                                !.second_response_cmd = "SEEKL"]
  <2>1. target \in Lba /\ "SEEKL" \in {x.op : x \in Issued}
    BY <1>0, <1>2, <1>3 DEF SeekL
  <2>2. Starts(a, "SECOND", Delays) /\ c.op \in {x.op : x \in Issued}
    BY <1>0, <1>3 DEF SeekL
  <2> HIDE DEF target
  <2>3. a \in Controller
    BY <1>0, <2>1 DEF Controller, Drive
  <2>4. Done(a) /\ a.second_response_cmd # "NONE"
    BY <1>0, <2>1, <2>3 DEF Done, Controller
  <2> HIDE DEF a
  <2> QED
    BY <1>0, <2>2, <2>4, StartsSecondStep
<1>4. CASE Stop(c)
  <2> DEFINE a == [Acked EXCEPT !.drive_state = "STOPPING", !.second_response_cmd = "STOP"]
  <2>1. "STOP" \in {x.op : x \in Issued}
    BY <1>0, <1>4 DEF Stop
  <2>2. Starts(a, "SECOND", Delays) /\ c.op \in {x.op : x \in Issued}
    BY <1>0, <1>4 DEF Stop
  <2>3. a \in Controller
    BY <1>0, <2>1 DEF Controller, Drive
  <2>4. Done(a) /\ a.second_response_cmd # "NONE"
    BY <1>0, <2>1, <2>3 DEF Done, Controller
  <2> HIDE DEF a
  <2> QED
    BY <1>0, <2>2, <2>4, StartsSecondStep
<1>5. CASE Pause(c)
  <2> DEFINE drive == IF Acked.drive_state \in {"READING", "PLAYING"} THEN "PAUSING"
                      ELSE Acked.drive_state
             a == [Acked EXCEPT !.drive_state = drive, !.second_response_cmd = "PAUSE"]
  <2>1. /\ drive \in Drive /\ drive \notin {"READING", "PLAYING"}
        /\ "PAUSE" \in {x.op : x \in Issued}
    BY <1>0, <1>2, <1>5 DEF Pause, Drive
  <2>2. Starts(a, "SECOND", Delays) /\ c.op \in {x.op : x \in Issued}
    BY <1>0, <1>5 DEF Pause
  <2> HIDE DEF drive
  <2>3. a \in Controller
    BY <1>0, <2>1 DEF Controller
  <2>4. Done(a) /\ a.second_response_cmd # "NONE"
    BY <1>0, <2>1, <2>3 DEF Done, Controller
  <2> HIDE DEF a
  <2> QED
    BY <1>0, <2>2, <2>4, StartsSecondStep
<1>6. CASE InitCommand(c)
  <2> DEFINE aborts == cd.drive_state \in {"READING", "PLAYING", "SEEKING"}
             drive == IF aborts THEN "IDLE" ELSE Acked.drive_state
             seek  == Acked.seek_phase /\ ~aborts
             a == [Acked EXCEPT !.mode = {}, !.motor_on = TRUE, !.drive_state = drive,
                                !.seek_phase = seek, !.second_response_cmd = "INIT"]
  <2>1. /\ drive \in Drive /\ drive \notin {"READING", "PLAYING"} /\ seek \in BOOLEAN
        /\ "INIT" \in {x.op : x \in Issued}
    BY <1>0, <1>2, <1>6, BegunDone DEF InitCommand, Drive
  <2>2. Starts(a, "SECOND", Delays) /\ c.op \in {x.op : x \in Issued}
    BY <1>0, <1>6 DEF InitCommand
  <2> HIDE DEF drive, seek
  <2>3. a \in Controller
    BY <1>0, <1>2, <2>1 DEF Controller
  <2>4. Done(a) /\ a.second_response_cmd # "NONE"
    BY <1>0, <2>1, <2>3 DEF Done, Controller
  <2> HIDE DEF a
  <2> QED
    BY <1>0, <2>2, <2>4, StartsSecondStep
<1>7. CASE StartTask(c)
  <2> DEFINE motor == Acked.motor_on \/ c.op = "MOTORON"
             a == [Acked EXCEPT !.second_response_cmd = c.op, !.motor_on = motor]
  <2>1. motor \in BOOLEAN
    BY <1>2
  <2>2. Starts(a, "SECOND", Delays) /\ c.op \in {x.op : x \in Issued}
    BY <1>0, <1>7 DEF StartTask
  <2> HIDE DEF motor
  <2>3. a \in Controller
    BY <1>0, <2>1 DEF Controller
  <2>4. Done(a) /\ a.second_response_cmd # "NONE"
    BY <1>0, <2>1, <2>3, <1>7 DEF Done, Controller, StartTask, TwoResponses
  <2> HIDE DEF a
  <2> QED
    BY <1>0, <2>2, <2>4, StartsSecondStep
<1> QED
  BY <1>3, <1>4, <1>5, <1>6, <1>7

(* The command handler, or a command put off by an interrupt.              *)
LEMMA CommandTickStep ==
  ASSUME IInv, CommandTick
  PROVE  IInv'
<1>1. "COMMAND" \in ev.queue /\ guest' = guest
  BY DEF CommandTick, Dispatched, Due
<1>2. cd.pending_command \in Issued
  BY <1>1 DEF IInv, TypeOK, Controller, OwedIsQueued
<1>3. CASE cd.interrupt_flag # NONE
  <2>1. cd' = cd /\ ev' = Rearm(Taken("COMMAND"), {"COMMAND"})
    BY <1>3 DEF CommandTick
  <2>2. ev' \in Queue /\ ev'.queue = ev.queue
    BY <1>1, <2>1, RequeueType DEF IInv, TypeOK, Event
  <2> QED
    BY <1>1, <2>1, <2>2 DEF IInv, TypeOK, OwedIsQueued, DriveIsDriven
<1>4. CASE cd.interrupt_flag = NONE
  <2>1. Execute(cd.pending_command)
    BY <1>4 DEF CommandTick
  <2> QED
    BY <1>1, <1>2, <1>4, <2>1, AnswerStep, DriveCommandStep, TaskCommandStep DEF Execute
<1> QED
  BY <1>3, <1>4
-----------------------------------------------------------------------------
(* The second response and the drive.                                      *)

(* A second response is given, and the drive stands still or goes on.      *)
LEMMA CompleteType ==
  ASSUME IInv, NEW op \in {x.op : x \in Issued} \cup {"NONE"}
  PROVE  /\ Complete(op) \in Controller
         /\ Complete(op).second_response_cmd = "NONE" /\ ~Complete(op).second_event_pending
         /\ Complete(op).pending_command = cd.pending_command
         /\ Complete(op).cmd_event_pending = cd.cmd_event_pending
         /\ Complete(op).drive_state \in {cd.drive_state, "IDLE"}
         /\ Complete(op).interrupt_flag # NONE
<1>1. /\ cd \in Controller /\ cd.target_lba \in Lba /\ cd.disc_present \in BOOLEAN
      /\ TrackOf[cd.target_lba] \in {0} \cup {TrackOf[l] : l \in Lba}
  BY DEF IInv, TypeOK, Controller
<1>2. /\ Completed \in Controller
      /\ Completed.second_response_cmd = "NONE" /\ ~Completed.second_event_pending
      /\ Completed.pending_command = cd.pending_command
      /\ Completed.cmd_event_pending = cd.cmd_event_pending
      /\ Completed.drive_state = cd.drive_state
      /\ Completed.interrupt_flag # NONE
  BY <1>1 DEF Completed, Controller, INT2, NONE
<1>3. /\ Halted(Completed) \in Controller
      /\ Halted(Completed).second_response_cmd = "NONE"
      /\ ~Halted(Completed).second_event_pending
      /\ Halted(Completed).pending_command = cd.pending_command
      /\ Halted(Completed).cmd_event_pending = cd.cmd_event_pending
      /\ Halted(Completed).drive_state = "IDLE"
      /\ Halted(Completed).interrupt_flag # NONE
  BY <1>2 DEF Halted, Controller, Drive
<1>4. CASE op = "SEEKL"
  <2>1. Complete(op) = [Halted(Completed) EXCEPT !.current_lba = cd.target_lba,
                                                 !.head_lba = cd.target_lba,
                                                 !.last_track = TrackOf[cd.target_lba]]
    BY <1>4 DEF Complete
  <2> QED
    BY <1>1, <1>3, <2>1 DEF Controller
<1>5. CASE op = "STOP"
  <2>1. Complete(op) = [Halted(Completed) EXCEPT !.motor_on = FALSE]
    BY <1>5 DEF Complete
  <2> QED
    BY <1>3, <2>1 DEF Controller
<1>6. CASE op = "INIT"
  <2>1. Complete(op) = [Halted(Completed) EXCEPT !.motor_on = cd.disc_present, !.mode = {}]
    BY <1>6 DEF Complete
  <2> QED
    BY <1>1, <1>3, <2>1 DEF Controller, Flag
<1>7. CASE op = "GETID"
  <2> DEFINE flag == IF cd.disc_present THEN INT2 ELSE INT5
  <2>1. Complete(op) = [Completed EXCEPT !.interrupt_flag = flag]
    BY <1>7 DEF Complete
  <2>2. flag \in SUBSET {1, 2, 4} /\ flag # NONE
    BY DEF INT2, INT5, NONE
  <2> HIDE DEF flag
  <2> QED
    BY <1>2, <2>1, <2>2 DEF Controller
<1>8. CASE op \notin {"SEEKL", "STOP", "INIT", "GETID"}
  <2>1. Complete(op) = Completed \/ Complete(op) = Halted(Completed)
    BY <1>8 DEF Complete
  <2> QED
    BY <1>2, <1>3, <2>1
<1> QED
  BY <1>4, <1>5, <1>6, <1>7, <1>8

(* The handler of the second response.                                     *)
LEMMA SecondTickStep ==
  ASSUME IInv, SecondTick
  PROVE  IInv'
<1>1. "SECOND" \in ev.queue /\ guest' = guest
  BY DEF SecondTick, Dispatched, Due
<1>2. CASE cd.interrupt_flag # NONE
  <2>1. cd' = cd /\ ev' = Rearm(Taken("SECOND"), {"SECOND"})
    BY <1>2 DEF SecondTick
  <2>2. ev' \in Queue /\ ev'.queue = ev.queue
    BY <1>1, <2>1, RequeueType DEF IInv, TypeOK, Event
  <2> QED
    BY <1>1, <2>1, <2>2 DEF IInv, TypeOK, OwedIsQueued, DriveIsDriven
<1>3. CASE cd.interrupt_flag = NONE
  <2>1. ev' = Taken("SECOND") /\ cd' = Complete(cd.second_response_cmd)
    BY <1>3 DEF SecondTick
  <2>2. ev' \in Queue /\ ev'.queue = ev.queue \ {"SECOND"}
    BY <2>1, TakenType DEF IInv, TypeOK, Event
  <2>3. cd.second_response_cmd \in {x.op : x \in Issued} \cup {"NONE"}
    BY DEF IInv, TypeOK, Controller
  <2> QED
    BY <1>1, <2>1, <2>2, <2>3, CompleteType DEF IInv, TypeOK, OwedIsQueued, DriveIsDriven
<1> QED
  BY <1>2, <1>3

(* What the drive's handler may make of the controller: commands and       *)
(* second responses are not its business.                                  *)
Drives(after) ==
  /\ after \in Controller
  /\ after.pending_command = cd.pending_command
  /\ after.cmd_event_pending = cd.cmd_event_pending
  /\ SameSecond(after)

(* A drive that goes on has its event; one that has none stands still or   *)
(* reads and is held by an interrupt.                                      *)
LEMMA DriveGoesOn ==
  ASSUME IInv, guest' = guest, "DRIVE" \in ev.queue, Drives(cd'), NEW d \in Nat,
         ev' = Schedule(Taken("DRIVE"), "DRIVE", d)
  PROVE  IInv'
<1>1. Taken("DRIVE") \in Queue /\ Taken("DRIVE").queue = ev.queue \ {"DRIVE"}
  BY TakenType DEF IInv, TypeOK, Event
<1>2. ev' \in Queue /\ ev'.queue = (ev.queue \ {"DRIVE"}) \cup {"DRIVE"}
  BY <1>1, ScheduleType DEF Event
<1> QED
  BY <1>2 DEF IInv, TypeOK, OwedIsQueued, DriveIsDriven, Drives, SameSecond

(* The same for a drive that has no event left.                            *)
LEMMA DriveStops ==
  ASSUME IInv, guest' = guest, Drives(cd'), ev' = Taken("DRIVE"),
         cd'.drive_state # "PLAYING",
         cd'.drive_state = "READING" => cd'.interrupt_flag # NONE
  PROVE  IInv'
<1>1. ev' \in Queue /\ ev'.queue = ev.queue \ {"DRIVE"}
  BY TakenType DEF IInv, TypeOK, Event
<1> QED
  BY <1>1 DEF IInv, TypeOK, OwedIsQueued, DriveIsDriven, Drives, SameSecond

(* The head passes a sector that was there.                                *)
LEMMA PassedType ==
  ASSUME IInv, Readable(cd.current_lba)
  PROVE  Drives(Passed(cd)) /\ Passed(cd).drive_state = cd.drive_state
<1> DEFINE l == cd.current_lba
           track == IF l \in BadQ THEN cd.last_track ELSE TrackOf[l]
<1>1. cd \in Controller /\ l \in Lba
  BY DEF IInv, TypeOK, Controller
<1>2. track \in {0} \cup {TrackOf[x] : x \in Lba}
  BY <1>1 DEF Controller
<1>3. l + 1 \in Lba
  BY <1>1, DelayTypes DEF Readable, Lba
<1>4. Passed(cd) = [cd EXCEPT !.seek_phase = FALSE, !.head_lba = l,
                              !.current_lba = l + 1, !.last_track = track]
  BY <1>1 DEF Passed, Controller
<1> HIDE DEF track, l
<1>5. Passed(cd) \in Controller
  BY <1>1, <1>2, <1>3, <1>4 DEF Controller
<1> QED
  BY <1>1, <1>4, <1>5 DEF Drives, SameSecond, Controller

(* The drive reads a sector, waits for it, or gives up.                    *)
LEMMA ReadSectorStep ==
  ASSUME IInv, guest' = guest, "DRIVE" \in ev.queue, cd.drive_state = "READING",
         ReadSector(cd.interrupt_flag # NONE)
  PROVE  IInv'
<1>0. cd \in Controller /\ Drives(cd)
  BY DEF IInv, TypeOK, Drives, SameSecond
<1>1. CASE Retry
  BY <1>0, <1>1, DriveGoesOn, DelayTypes DEF Retry
<1>2. CASE Hold /\ cd.interrupt_flag # NONE
  BY <1>0, <1>2, DriveStops DEF Hold
<1>3. CASE FailRead
  <2>1. cd' \in Controller
    BY <1>0, <1>3 DEF FailRead, Controller, Drive, INT5
  <2>2. Drives(cd') /\ cd'.drive_state = "IDLE"
    BY <1>0, <1>3, <2>1 DEF FailRead, Controller, Drives, SameSecond
  <2> QED
    BY <1>3, <2>2, DriveStops DEF FailRead
<1>4. CASE Stream /\ Readable(cd.current_lba)
  BY <1>4, PassedType, DriveGoesOn, DelayTypes DEF Stream
<1>5. CASE Deliver /\ Readable(cd.current_lba)
  <2> DEFINE p == Passed(cd)
  <2>1. Drives(p)
    BY <1>5, PassedType
  <2>2. cd' = [p EXCEPT !.interrupt_flag = INT1, !.header_valid = TRUE]
    BY <1>5 DEF Deliver
  <2> HIDE DEF p
  <2>3. cd' \in Controller
    BY <2>1, <2>2 DEF Drives, Controller, INT1
  <2>4. Drives(cd')
    BY <2>1, <2>2, <2>3 DEF Drives, SameSecond, Controller
  <2> QED
    BY <1>5, <2>4, DriveGoesOn, DelayTypes DEF Deliver
<1> QED
  <2>1. PICK st \in Polls(cd.current_lba) :
          \/ st = "PENDING" /\ Retry
          \/ st = "FAILED" /\ IF cd.interrupt_flag # NONE THEN Hold ELSE FailRead
          \/ st = "READY" /\ IF Route(cd.current_lba) # "DATA" THEN Stream
                             ELSE IF cd.interrupt_flag # NONE THEN Hold ELSE Deliver
    BY DEF ReadSector
  <2>2. st = "READY" => Readable(cd.current_lba)
    BY DEF Polls
  <2>3. Retry \/ (Hold /\ cd.interrupt_flag # NONE) \/ FailRead
        \/ (Readable(cd.current_lba) /\ (Stream \/ Deliver))
    <3>1. CASE st = "PENDING"
      BY <2>1, <3>1
    <3>2. CASE st = "FAILED"
      BY <2>1, <3>2
    <3>3. CASE st = "READY"
      <4>1. CASE Route(cd.current_lba) # "DATA" /\ Stream
        BY <2>2, <3>3, <4>1
      <4>2. CASE cd.interrupt_flag # NONE /\ Hold
        BY <4>2
      <4>3. CASE Deliver
        BY <2>2, <3>3, <4>3
      <4> QED
        BY <2>1, <3>3, <4>1, <4>2, <4>3
    <3> QED
      BY <2>1, <3>1, <3>2, <3>3
  <2> QED
    BY <1>1, <1>2, <1>3, <1>4, <1>5, <2>3

(* The drive plays a sector, or its track or its disc is over.             *)
LEMMA PlaySectorStep ==
  ASSUME IInv, guest' = guest, "DRIVE" \in ev.queue, cd.interrupt_flag = NONE, PlaySector
  PROVE  IInv'
<1> DEFINE l == cd.current_lba
<1>0. cd \in Controller /\ Drives(cd) /\ l \in Lba
  BY DEF IInv, TypeOK, Drives, SameSecond, Controller
<1>a. Halted(cd) \in Controller /\ Drives(Halted(cd)) /\ Halted(cd).drive_state = "IDLE"
  <2>1. Halted(cd) \in Controller
    BY <1>0 DEF Halted, Controller, Drive
  <2> QED
    BY <1>0, <2>1 DEF Halted, Controller, Drives, SameSecond
<1>1. CASE Retry
  BY <1>0, <1>1, DriveGoesOn, DelayTypes DEF Retry
<1>2. CASE ev' = Taken("DRIVE") /\ cd' = Halted(cd)
  BY <1>2, <1>a, DriveStops
<1>3. CASE EndPlay(l)
  <2> DEFINE h == Halted(cd)
             back == IF l > 0 THEN l - 1 ELSE 0
  <2>1. back \in Lba
    BY <1>0, DelayTypes DEF Lba
  <2>2. \/ cd' = [h EXCEPT !.interrupt_flag = INT4]
        \/ cd' = [h EXCEPT !.interrupt_flag = INT4, !.current_lba = back, !.head_lba = back]
    BY <1>3 DEF EndPlay
  <2>3. ev' = Taken("DRIVE")
    BY <1>3 DEF EndPlay
  <2> HIDE DEF h, back
  <2>4. h \in Controller /\ Drives(h) /\ h.drive_state = "IDLE"
    BY <1>a DEF h
  <2>5. cd' \in Controller
    <3>1. CASE cd' = [h EXCEPT !.interrupt_flag = INT4]
      BY <2>4, <3>1 DEF Controller, INT4
    <3>2. CASE cd' = [h EXCEPT !.interrupt_flag = INT4, !.current_lba = back, !.head_lba = back]
      BY <2>1, <2>4, <3>2 DEF Controller, INT4
    <3> QED
      BY <2>2, <3>1, <3>2
  <2>6. Drives(cd') /\ cd'.drive_state = "IDLE"
    BY <2>2, <2>4, <2>5 DEF Drives, SameSecond, Controller
  <2> QED
    BY <2>3, <2>6, DriveStops
<1>4. CASE KeepPlaying(l) /\ l < Total
  <2> DEFINE track == IF l \in BadQ THEN cd.last_track ELSE TrackOf[l]
             flag == IF "REPORT" \in cd.mode /\ l \in ReportAt THEN INT1 ELSE cd.interrupt_flag
  <2>1. track \in {0} \cup {TrackOf[x] : x \in Lba} /\ flag \in SUBSET {1, 2, 4}
    BY <1>0 DEF Controller, INT1
  <2>2. l + cd.cdda_speed \in Lba
    <3>1. cd.cdda_speed \in 1..MaxSpeed
      BY <1>0 DEF Controller
    <3> QED
      BY <1>0, <1>4, <3>1, GuestCommands, DelayTypes DEF Lba
  <2>3. /\ cd' = [cd EXCEPT !.seek_phase = FALSE, !.head_lba = l, !.last_track = track,
                            !.interrupt_flag = flag, !.current_lba = l + cd.cdda_speed]
        /\ ev' = Schedule(Taken("DRIVE"), "DRIVE", Period)
    BY <1>4 DEF KeepPlaying
  <2> HIDE DEF track, flag, l
  <2>4. cd' \in Controller
    BY <1>0, <2>1, <2>2, <2>3 DEF Controller
  <2>5. Drives(cd')
    BY <1>0, <2>3, <2>4 DEF Drives, SameSecond, Controller
  <2> QED
    BY <2>3, <2>5, DriveGoesOn, DelayTypes
<1> QED
  BY <1>0, <1>1, <1>2, <1>3, <1>4, DelayTypes DEF PlaySector, Lba, Polls, Readable

(* The handler of the drive's event.                                       *)
LEMMA DriveTickStep ==
  ASSUME IInv, DriveTick
  PROVE  IInv'
<1>1. "DRIVE" \in ev.queue /\ guest' = guest /\ Drives(cd)
  BY DEF DriveTick, Dispatched, Due, IInv, TypeOK, Drives, SameSecond
<1>2. CASE cd.drive_state = "READING" /\ ReadSector(cd.interrupt_flag # NONE)
  BY <1>1, <1>2, ReadSectorStep
<1>3. CASE cd.interrupt_flag = NONE /\ PlaySector
  BY <1>1, <1>3, PlaySectorStep
<1>4. CASE Retry
  BY <1>1, <1>4, DriveGoesOn, DelayTypes DEF Retry
<1>5. CASE cd.drive_state \notin {"READING", "PLAYING"} /\ Hold
  BY <1>1, <1>5, DriveStops DEF Hold
<1> QED
  BY <1>2, <1>3, <1>4, <1>5 DEF DriveTick
-----------------------------------------------------------------------------
(* The theorems.                                                           *)

(* At first nothing is owed and the drive is idle.                         *)
LEMMA InitIInv == Init => IInv
<1> SUFFICES ASSUME Init PROVE IInv
  OBVIOUS
<1>1. PICK disc \in BOOLEAN :
        cd = [interrupt_flag |-> NONE, pending_command |-> None,
              second_response_cmd |-> "NONE",
              cmd_event_pending |-> FALSE, second_event_pending |-> FALSE,
              drive_state |-> "IDLE", seek_phase |-> FALSE,
              motor_on |-> disc, disc_present |-> disc,
              current_lba |-> 0, head_lba |-> 0, target_lba |-> 0,
              setloc |-> NotPending,
              last_track |-> IF disc THEN TrackOf[0] ELSE 0,
              header_valid |-> FALSE, mode |-> {}, cdda_speed |-> 1]
  BY DEF Init
<1>2. /\ (IF disc THEN TrackOf[0] ELSE 0) \in {0} \cup {TrackOf[l] : l \in Lba}
      /\ 0 \in Lba /\ 1 \in 1..MaxSpeed /\ {} \in Flag
  BY DelayTypes, GuestCommands DEF Flag
<1>3. cd \in Controller
  BY <1>1, <1>2 DEF Controller, NONE, Drive
<1>4. ev \in Queue /\ ev.queue = {} /\ guest \in Guests
  BY DEF Init, Queue
<1> QED
  BY <1>1, <1>3, <1>4 DEF IInv, TypeOK, OwedIsQueued, DriveIsDriven

(* Every action keeps the invariant.                                       *)
LEMMA NextIInv == IInv /\ [Next]_vars => IInv'
<1> SUFFICES ASSUME IInv, [Next]_vars PROVE IInv'
  OBVIOUS
<1>1. CASE UNCHANGED vars
  BY <1>1 DEF vars, IInv, TypeOK, OwedIsQueued, DriveIsDriven
<1> QED
  BY <1>1, TimeStep, WriteCommandStep, AcknowledgeStep, CommandTickStep, DriveTickStep,
     SecondTickStep DEF Next, Guest

(* So it always holds.                                                     *)
LEMMA SpecIInv == Spec => []IInv
BY InitIInv, NextIInv, PTL DEF Spec

(* The controller's fields stay in their ranges: the head never leaves the *)
(* disc's addresses, whatever the guest asks for.                          *)
THEOREM TypeCorrect == Spec => []TypeOK
<1>1. IInv => TypeOK
  BY DEF IInv
<1> QED
  BY <1>1, SpecIInv, PTL

(* A command or a second response that is owed is in the event queue, and  *)
(* nothing is in the queue that is not owed.                               *)
THEOREM NothingOwedIsForgotten == Spec => []OwedIsQueued
<1>1. IInv => OwedIsQueued
  BY DEF IInv
<1> QED
  BY <1>1, SpecIInv, PTL

(* A drive that reads or plays never stands without an event to go on      *)
(* with, unless an interrupt holds it that the guest will acknowledge.     *)
THEOREM DriveNeverStalls == Spec => []DriveIsDriven
<1>1. IInv => DriveIsDriven
  BY DEF IInv
<1> QED
  BY <1>1, SpecIInv, PTL

(* The three handlers and the guest never put one interrupt over another.  *)
LEMMA StepNeverOverwrites ==
  ASSUME IInv, Next, cd.interrupt_flag # NONE
  PROVE  cd'.interrupt_flag \subseteq cd.interrupt_flag
<1>0. cd \in Controller
  BY DEF IInv, TypeOK
<1>1. CASE Time \/ CommandTick \/ SecondTick
  BY <1>1 DEF Time, CommandTick, SecondTick
<1>2. ASSUME NEW c \in guest, WriteCommand(c)
      PROVE  cd'.interrupt_flag = cd.interrupt_flag
  BY <1>0, <1>2 DEF WriteCommand, Controller
<1>3. ASSUME NEW bits \in SUBSET {1, 2, 4}, Acknowledge(bits)
      PROVE  cd'.interrupt_flag \subseteq cd.interrupt_flag
  <2> DEFINE flag == cd.interrupt_flag \ bits
             es == IF flag = NONE THEN Released(cd) ELSE {}
  <2>1. cd' = [cd EXCEPT !.interrupt_flag = flag,
                         !.second_event_pending = @ \/ "SECOND" \in es,
                         !.cmd_event_pending = @ \/ "COMMAND" \in es]
    BY <1>3 DEF Acknowledge
  <2> HIDE DEF es
  <2>2. cd'.interrupt_flag = flag
    BY <1>0, <2>1 DEF Controller
  <2> QED
    BY <2>2
<1>4. CASE DriveTick
  <2>1. CASE ReadSector(TRUE)
    <3>1. ASSUME Stream
          PROVE  cd'.interrupt_flag = cd.interrupt_flag
      BY <1>0, <3>1 DEF Stream, Passed, Controller
    <3> QED
      BY <2>1, <3>1 DEF ReadSector, Retry, Hold
  <2> QED
    BY <1>4, <2>1 DEF DriveTick, Retry, Hold
<1> QED
  BY <1>1, <1>2, <1>3, <1>4 DEF Next, Guest

(* An interrupt stays up until the guest's own write takes it down.        *)
THEOREM InterruptsAreNeverOverwritten == Spec => NeverOverwritten
<1>1. IInv /\ [Next]_vars
        => [cd.interrupt_flag # NONE => cd'.interrupt_flag \subseteq cd.interrupt_flag]_vars
  BY StepNeverOverwrites
<1> QED
  BY <1>1, SpecIInv, PTL DEF Spec, NeverOverwritten

(* What the controller has begun is on its way to an end.                  *)
THEOREM NothingIsForgotten == Spec => []NothingForgotten
<1>1. IInv => NothingForgotten
  BY DEF IInv, NothingForgotten
<1> QED
  BY <1>1, SpecIInv, PTL

-----------------------------------------------------------------------------
(* Reads: no sector is lost and no read stops in silence.  While the drive *)
(* reads on, the next sector is the one after the last (HeadFollows), which *)
(* is what a Setloc, a Pause or a Backward in between could break.         *)

(* While the drive reads on, the head is one sector ahead of the last.     *)
HeadFollows ==
  cd.drive_state = "READING" /\ ~cd.seek_phase => cd.current_lba = cd.head_lba + 1

(* A step that keeps this, and that ReadsAreWhole allows.                  *)
StepIsWhole ==
  /\ HeadFollows'
  /\ cd.drive_state = "READING" /\ cd'.drive_state = "READING" /\ cd'.head_lba # cd.head_lba
       => /\ cd.seek_phase \/ cd'.head_lba = cd.head_lba + 1
          /\ Route(cd'.head_lba) = "DATA"
               => cd.interrupt_flag = NONE /\ cd'.interrupt_flag = INT1
  /\ cd.drive_state = "READING" /\ cd'.drive_state # "READING"
       => cd.interrupt_flag = NONE /\ cd'.interrupt_flag # NONE

(* A step that is not about the head.                                      *)
Undisturbed == /\ cd'.drive_state = cd.drive_state /\ cd'.seek_phase = cd.seek_phase
               /\ cd'.current_lba = cd.current_lba /\ cd'.head_lba = cd.head_lba

LEMMA UndisturbedIsWhole ==
  ASSUME HeadFollows, Undisturbed
  PROVE  StepIsWhole
BY DEF HeadFollows, Undisturbed, StepIsWhole

(* A step after which the drive does not read, and which the guest hears   *)
(* of if it did.                                                           *)
LEMMA StopIsWhole ==
  ASSUME cd'.drive_state # "READING",
         cd.drive_state = "READING" => cd.interrupt_flag = NONE /\ cd'.interrupt_flag # NONE
  PROVE  StepIsWhole
BY DEF HeadFollows, StepIsWhole

(* The first response starts from the command register emptied.            *)
LEMMA AckedIs ==
  ASSUME cd \in Controller
  PROVE  /\ Begun \in Controller /\ Acked \in Controller
         /\ \A c \in {Begun, Acked} : /\ c.drive_state = cd.drive_state /\ c.seek_phase = cd.seek_phase
                                      /\ c.current_lba = cd.current_lba /\ c.head_lba = cd.head_lba
         /\ Acked.interrupt_flag = INT3 /\ Acked.cdda_speed = cd.cdda_speed /\ Acked.motor_on = cd.motor_on
<1> DEFINE over == FALSE
           a == [cd EXCEPT !.pending_command = None]
           b == [a EXCEPT !.cmd_event_pending = over]
           d == [b EXCEPT !.interrupt_flag = INT3]
<1>1. over \in BOOLEAN /\ INT3 \in SUBSET {1, 2, 4} /\ None \in Issued \cup {None}
  BY DEF INT3
<1>2. a \in Controller /\ a.drive_state = cd.drive_state /\ a.seek_phase = cd.seek_phase
      /\ a.current_lba = cd.current_lba /\ a.head_lba = cd.head_lba
      /\ a.cdda_speed = cd.cdda_speed /\ a.motor_on = cd.motor_on
  BY <1>1 DEF Controller
<1>3. Begun = b
  BY DEF Begun, Controller
<1> HIDE DEF a, over
<1>4. b \in Controller /\ b.drive_state = cd.drive_state /\ b.seek_phase = cd.seek_phase
      /\ b.current_lba = cd.current_lba /\ b.head_lba = cd.head_lba
      /\ b.cdda_speed = cd.cdda_speed /\ b.motor_on = cd.motor_on
  BY <1>1, <1>2 DEF Controller
<1>5. Acked = d
  BY <1>3 DEF Acked
<1> HIDE DEF b
<1>6. d \in Controller /\ d.drive_state = cd.drive_state /\ d.seek_phase = cd.seek_phase
      /\ d.current_lba = cd.current_lba /\ d.head_lba = cd.head_lba
      /\ d.cdda_speed = cd.cdda_speed /\ d.motor_on = cd.motor_on /\ d.interrupt_flag = INT3
  BY <1>1, <1>4 DEF Controller
<1> QED
  BY <1>3, <1>4, <1>5, <1>6

LEMMA FlagsAreUp == INT1 # NONE /\ INT2 # NONE /\ INT3 # NONE /\ INT4 # NONE /\ INT5 # NONE
BY DEF INT1, INT2, INT3, INT4, INT5, NONE

(* A command that does not move the head.                                  *)
LEMMA PlainIsWhole ==
  ASSUME cd \in Controller, HeadFollows, NEW c, cd.interrupt_flag = NONE,
         \/ Refuse(c) \/ DropInit(c) \/ Answer(c) \/ TestMotor(c) \/ Setloc(c) \/ Setmode(c)
         \/ Forward(c) \/ StartTask(c)
  PROVE  StepIsWhole
<1>1. /\ Begun \in Controller /\ Acked \in Controller
      /\ \A k \in {Begun, Acked} : /\ k.drive_state = cd.drive_state /\ k.seek_phase = cd.seek_phase
                                   /\ k.current_lba = cd.current_lba /\ k.head_lba = cd.head_lba
  BY AckedIs
<1> HIDE DEF Begun, Acked
<1>2. ASSUME Refuse(c) PROVE Undisturbed
  BY <1>1, <1>2 DEF Refuse, Answers, Undisturbed, Controller
<1>3. ASSUME DropInit(c) PROVE Undisturbed
  BY <1>1, <1>3 DEF DropInit, Answers, Undisturbed
<1>4. ASSUME Answer(c) PROVE Undisturbed
  BY <1>1, <1>4 DEF Answer, Answers, Undisturbed
<1>5. ASSUME TestMotor(c) PROVE Undisturbed
  BY <1>1, <1>5 DEF TestMotor, Answers, Undisturbed, Controller
<1>6. ASSUME Setloc(c) PROVE Undisturbed
  BY <1>1, <1>6 DEF Setloc, Answers, Undisturbed, Controller
<1>7. ASSUME Setmode(c) PROVE Undisturbed
  BY <1>1, <1>7 DEF Setmode, Answers, Undisturbed, Controller
<1>8. ASSUME Forward(c) PROVE Undisturbed
  <2> DEFINE n == IF cd.drive_state = "PLAYING" /\ 2 * Acked.cdda_speed <= MaxSpeed
                  THEN 2 * Acked.cdda_speed ELSE Acked.cdda_speed
  <2>1. cd' = [Acked EXCEPT !.cdda_speed = n]
    BY <1>8 DEF Forward, Answers
  <2> HIDE DEF n
  <2> QED
    BY <1>1, <2>1 DEF Undisturbed, Controller
<1>9. ASSUME StartTask(c) PROVE Undisturbed
  <2> DEFINE motor == Acked.motor_on \/ c.op = "MOTORON"
             sure == TRUE
             a == [Acked EXCEPT !.second_response_cmd = c.op]
             b == [a EXCEPT !.motor_on = motor]
  <2>1. cd' = [[Acked EXCEPT !.second_response_cmd = c.op, !.motor_on = motor]
                 EXCEPT !.second_event_pending = sure]
    BY <1>9 DEF StartTask, Starts
  <2> HIDE DEF motor, sure
  <2>2. [Acked EXCEPT !.second_response_cmd = c.op, !.motor_on = motor] = b
    BY <1>1 DEF Controller
  <2>3. cd' = [b EXCEPT !.second_event_pending = sure]
    BY <2>1, <2>2
  <2> QED
    BY <1>1, <2>3 DEF Undisturbed, Controller
<1> QED
  BY <1>2, <1>3, <1>4, <1>5, <1>6, <1>7, <1>8, <1>9, UndisturbedIsWhole

(* A read begins: where the head stands, or with a seek before it.         *)
LEMMA ReadNIsWhole ==
  ASSUME cd \in Controller, HeadFollows, NEW c, ReadN(c)
  PROVE  StepIsWhole
<1> DEFINE moved == cd.setloc # NotPending /\ cd.setloc # cd.current_lba
           seeks == Acked.seek_phase \/ moved \/ cd.drive_state # "READING"
           from  == ReadFrom
           rest  == NotPending
<1>1. /\ Acked \in Controller /\ Acked.seek_phase = cd.seek_phase /\ Acked.head_lba = cd.head_lba
      /\ Acked.drive_state = cd.drive_state
  BY AckedIs
<1>2. cd' = [Acked EXCEPT !.current_lba = from, !.setloc = rest, !.drive_state = "READING",
                          !.seek_phase = seeks]
  BY DEF ReadN, Starts
<1>3. cd.seek_phase \in BOOLEAN
  BY DEF Controller
<1>4. ~seeks => ~cd.seek_phase /\ cd.drive_state = "READING" /\ from = cd.current_lba
  BY <1>1 DEF ReadFrom
<1> HIDE DEF Acked, from, seeks, rest
<1>5. /\ cd'.drive_state = "READING" /\ cd'.current_lba = from /\ cd'.seek_phase = seeks
      /\ cd'.head_lba = cd.head_lba
  BY <1>1, <1>2 DEF Controller
<1>6. HeadFollows'
  BY <1>4, <1>5 DEF HeadFollows
<1> QED
  BY <1>5, <1>6 DEF StepIsWhole

(* Whatever ends or replaces a read is announced by its own INT3.          *)
LEMMA MoveIsWhole ==
  ASSUME cd \in Controller, HeadFollows, cd.interrupt_flag = NONE, NEW c,
         \/ Backward(c) \/ Play(c) \/ SeekL(c) \/ Stop(c) \/ Pause(c) \/ InitCommand(c) \/ Reset(c)
  PROVE  StepIsWhole
<1>1. /\ Acked \in Controller /\ Acked.interrupt_flag = INT3 /\ INT3 # NONE
      /\ Acked.drive_state = cd.drive_state /\ Acked.seek_phase = cd.seek_phase
      /\ Acked.current_lba = cd.current_lba /\ Acked.head_lba = cd.head_lba
  BY AckedIs, FlagsAreUp
<1> HIDE DEF Acked, INT3
<1>2. ASSUME cd'.drive_state # "READING", cd'.interrupt_flag = INT3 PROVE StepIsWhole
  BY <1>1, <1>2, StopIsWhole
<1>3. ASSUME Backward(c) PROVE StepIsWhole
  <2> DEFINE l == IF cd.drive_state = "PLAYING"
                  THEN (IF Acked.current_lba > Back THEN Acked.current_lba - Back ELSE 0)
                  ELSE Acked.current_lba
  <2>1. cd' = [Acked EXCEPT !.current_lba = l]
    BY <1>3 DEF Backward, Answers
  <2>2. cd.drive_state # "PLAYING" => l = cd.current_lba
    BY <1>1
  <2> HIDE DEF l
  <2>3. /\ cd'.drive_state = cd.drive_state /\ cd'.seek_phase = cd.seek_phase
        /\ cd'.current_lba = l /\ cd'.head_lba = cd.head_lba /\ cd'.interrupt_flag = INT3
    BY <1>1, <2>1 DEF Controller
  <2>4. CASE cd.drive_state = "PLAYING"
    BY <1>2, <2>3, <2>4
  <2>5. CASE cd.drive_state # "PLAYING"
    BY <2>2, <2>3, <2>5, UndisturbedIsWhole DEF Undisturbed
  <2> QED
    BY <2>4, <2>5
<1>4. ASSUME Play(c) PROVE StepIsWhole
  <2> DEFINE from == IF "lba" \in DOMAIN c THEN c.lba
                     ELSE IF cd.setloc # NotPending THEN cd.setloc ELSE cd.current_lba
             moved == from # cd.current_lba
             seeks == Acked.seek_phase \/ moved \/ cd.drive_state # "PLAYING"
             rest  == NotPending
  <2>1. cd' = [Acked EXCEPT !.current_lba = from, !.setloc = rest,
                            !.drive_state = "PLAYING", !.cdda_speed = 1, !.seek_phase = seeks]
    BY <1>4 DEF Play, Starts
  <2> HIDE DEF from, seeks, rest
  <2>2. cd'.drive_state = "PLAYING" /\ cd'.interrupt_flag = INT3
    BY <1>1, <2>1 DEF Controller
  <2> QED
    BY <1>2, <2>2
<1>5. ASSUME SeekL(c) PROVE StepIsWhole
  <2> DEFINE to == IF cd.setloc # NotPending THEN cd.setloc ELSE Acked.target_lba
             rest == NotPending
             sure == TRUE
             a == [Acked EXCEPT !.target_lba = to, !.setloc = rest, !.drive_state = "SEEKING",
                                !.seek_phase = sure, !.second_response_cmd = "SEEKL"]
  <2>1. cd' = [a EXCEPT !.second_event_pending = sure]
    BY <1>5 DEF SeekL, Starts
  <2> HIDE DEF to, rest, sure
  <2>2. cd'.drive_state = "SEEKING" /\ cd'.interrupt_flag = INT3
    BY <1>1, <2>1 DEF Controller
  <2> QED
    BY <1>2, <2>2
<1>6. ASSUME Stop(c) PROVE StepIsWhole
  <2> DEFINE sure == TRUE
  <2>1. cd' = [[Acked EXCEPT !.drive_state = "STOPPING", !.second_response_cmd = "STOP"]
                 EXCEPT !.second_event_pending = sure]
    BY <1>6 DEF Stop, Starts
  <2> HIDE DEF sure
  <2>2. cd'.drive_state = "STOPPING" /\ cd'.interrupt_flag = INT3
    BY <1>1, <2>1 DEF Controller
  <2> QED
    BY <1>2, <2>2
<1>7. ASSUME Pause(c) PROVE StepIsWhole
  <2> DEFINE sure == TRUE
             st == IF Acked.drive_state \in {"READING", "PLAYING"} THEN "PAUSING" ELSE Acked.drive_state
  <2>1. cd' = [[Acked EXCEPT !.drive_state = st, !.second_response_cmd = "PAUSE"]
                 EXCEPT !.second_event_pending = sure]
    BY <1>7 DEF Pause, Starts
  <2>2. st # "READING"
    OBVIOUS
  <2> HIDE DEF sure, st
  <2>3. cd'.drive_state = st /\ cd'.interrupt_flag = INT3
    BY <1>1, <2>1 DEF Controller
  <2> QED
    BY <1>2, <2>2, <2>3
<1>8. ASSUME InitCommand(c) PROVE StepIsWhole
  <2> DEFINE sure == TRUE
             none == {}
             aborts == cd.drive_state \in {"READING", "PLAYING", "SEEKING"}
             st == IF aborts THEN "IDLE" ELSE Acked.drive_state
             seeks == Acked.seek_phase /\ ~aborts
  <2>1. cd' = [[Acked EXCEPT !.mode = none, !.motor_on = sure, !.drive_state = st,
                             !.seek_phase = seeks, !.second_response_cmd = "INIT"]
                 EXCEPT !.second_event_pending = sure]
    BY <1>8 DEF InitCommand, Starts
  <2>2. st # "READING"
    BY <1>1
  <2> HIDE DEF sure, st, none, seeks
  <2>3. cd'.drive_state = st /\ cd'.interrupt_flag = INT3
    BY <1>1, <2>1 DEF Controller
  <2> QED
    BY <1>2, <2>2, <2>3
<1>9. ASSUME Reset(c) PROVE StepIsWhole
  <2> DEFINE motor == cd.disc_present
  <2>1. cd' = [Acked EXCEPT !.drive_state = "IDLE", !.motor_on = motor]
    BY <1>9 DEF Reset, Answers
  <2> HIDE DEF motor
  <2>2. cd'.drive_state = "IDLE" /\ cd'.interrupt_flag = INT3
    BY <1>1, <2>1 DEF Controller
  <2> QED
    BY <1>2, <2>2
<1> QED
  BY <1>3, <1>4, <1>5, <1>6, <1>7, <1>8, <1>9

LEMMA CommandIsWhole ==
  ASSUME cd \in Controller, HeadFollows, CommandTick
  PROVE  StepIsWhole
<1>1. CASE cd.interrupt_flag # NONE
  <2>1. Undisturbed
    BY <1>1 DEF CommandTick, Undisturbed
  <2> QED
    BY <2>1, UndisturbedIsWhole
<1>2. CASE cd.interrupt_flag = NONE
  <2> DEFINE c == cd.pending_command
  <2>1. Execute(c)
    BY <1>2 DEF CommandTick
  <2> HIDE DEF c
  <2> QED
    BY <1>2, <2>1, PlainIsWhole, ReadNIsWhole, MoveIsWhole DEF Execute
<1> QED
  BY <1>1, <1>2

(* The second response.                                                    *)
LEMMA SecondIsWhole ==
  ASSUME cd \in Controller, HeadFollows, SecondTick
  PROVE  StepIsWhole
<1>1. CASE cd.interrupt_flag # NONE
  <2>1. Undisturbed
    BY <1>1 DEF SecondTick, Undisturbed
  <2> QED
    BY <2>1, UndisturbedIsWhole
<1>2. CASE cd.interrupt_flag = NONE
  <2> DEFINE op == cd.second_response_cmd
             over == FALSE
             h == Halted(Completed)
  <2>1. cd' = Complete(op)
    BY <1>2 DEF SecondTick
  <2>2. /\ DOMAIN Completed = DOMAIN cd /\ Completed.interrupt_flag = INT2 /\ INT2 # NONE /\ INT5 # NONE
        /\ Completed.drive_state = cd.drive_state /\ Completed.seek_phase = cd.seek_phase
        /\ Completed.current_lba = cd.current_lba /\ Completed.head_lba = cd.head_lba
    <3> DEFINE a == [cd EXCEPT !.second_response_cmd = "NONE"]
               b == [a EXCEPT !.second_event_pending = over]
    <3>1. Completed = [b EXCEPT !.interrupt_flag = INT2]
      BY DEF Completed, Controller
    <3> HIDE DEF over
    <3> QED
      BY <3>1, FlagsAreUp DEF Controller
  <2>3. DOMAIN cd = DOMAIN Completed /\ "interrupt_flag" \in DOMAIN cd /\ "drive_state" \in DOMAIN cd
        /\ "seek_phase" \in DOMAIN cd /\ "current_lba" \in DOMAIN cd /\ "head_lba" \in DOMAIN cd
        /\ "motor_on" \in DOMAIN cd /\ "mode" \in DOMAIN cd /\ "last_track" \in DOMAIN cd
    BY <2>2 DEF Controller
  <2> HIDE DEF Completed, INT2, INT5
  <2>4. h.drive_state = "IDLE" /\ h.interrupt_flag = INT2 /\ DOMAIN h = DOMAIN cd
    <3>1. h = [Completed EXCEPT !.drive_state = "IDLE", !.seek_phase = over]
      BY DEF Halted
    <3> HIDE DEF over, h
    <3> QED
      BY <2>2, <2>3, <3>1
  <2> HIDE DEF h
  <2>5. CASE op \in {"SEEKL", "PAUSE", "STOP", "INIT"}
    <3>1. cd'.drive_state = "IDLE" /\ cd'.interrupt_flag = INT2
      <4>1. CASE op = "SEEKL"
        <5> DEFINE to == cd.target_lba
                   track == TrackOf[cd.target_lba]
        <5>1. cd' = [h EXCEPT !.current_lba = to, !.head_lba = to, !.last_track = track]
          BY <2>1, <4>1 DEF Complete, h
        <5> HIDE DEF to, track
        <5> QED
          BY <2>3, <2>4, <5>1
      <4>2. CASE op = "PAUSE"
        BY <2>1, <2>4, <4>2 DEF Complete, h
      <4>3. CASE op = "STOP"
        <5>1. cd' = [h EXCEPT !.motor_on = over]
          BY <2>1, <4>3 DEF Complete, h
        <5> HIDE DEF over
        <5> QED
          BY <2>3, <2>4, <5>1
      <4>4. CASE op = "INIT"
        <5> DEFINE motor == cd.disc_present
                   none == {}
        <5>1. cd' = [h EXCEPT !.motor_on = motor, !.mode = none]
          BY <2>1, <4>4 DEF Complete, h
        <5> HIDE DEF motor, none
        <5> QED
          BY <2>3, <2>4, <5>1
      <4> QED
        BY <2>5, <4>1, <4>2, <4>3, <4>4
    <3> QED
      BY <1>2, <2>2, <3>1, StopIsWhole
  <2>6. CASE op \notin {"SEEKL", "PAUSE", "STOP", "INIT"}
    <3> DEFINE i == IF cd.disc_present THEN INT2 ELSE INT5
    <3>1. cd' = Completed \/ cd' = [Completed EXCEPT !.interrupt_flag = i]
      BY <2>1, <2>6 DEF Complete
    <3> HIDE DEF i
    <3>2. Undisturbed
      BY <2>2, <2>3, <3>1 DEF Undisturbed
    <3> QED
      BY <3>2, UndisturbedIsWhole
  <2> QED
    BY <2>5, <2>6
<1> QED
  BY <1>1, <1>2

(* The head goes over a sector.                                            *)
LEMMA PassedIs ==
  ASSUME cd \in Controller
  PROVE  /\ Passed(cd).drive_state = cd.drive_state /\ Passed(cd).seek_phase = FALSE
         /\ Passed(cd).head_lba = cd.current_lba /\ Passed(cd).current_lba = cd.current_lba + 1
         /\ DOMAIN Passed(cd) = DOMAIN cd
         /\ "interrupt_flag" \in DOMAIN cd /\ "header_valid" \in DOMAIN cd
<1> DEFINE over == FALSE
           next == cd.current_lba + 1
           l == cd.current_lba
           track == IF cd.current_lba \in BadQ THEN cd.last_track ELSE TrackOf[cd.current_lba]
<1>1. Passed(cd) = [cd EXCEPT !.seek_phase = over, !.head_lba = l, !.current_lba = next,
                              !.last_track = track]
  BY DEF Passed
<1>2. over = FALSE /\ next = cd.current_lba + 1 /\ l = cd.current_lba
  OBVIOUS
<1> HIDE DEF over, next, l, track
<1> QED
  BY <1>1, <1>2 DEF Controller

LEMMA DriveIsWhole ==
  ASSUME cd \in Controller, HeadFollows, DriveTick
  PROVE  StepIsWhole
<1>1. cd.drive_state \in Drive /\ cd.current_lba \in Nat /\ cd.head_lba \in Nat
  BY DEF Controller, Lba
<1>2. ASSUME cd' = cd PROVE StepIsWhole
  <2>1. Undisturbed
    BY <1>2 DEF Undisturbed
  <2> QED
    BY <2>1, UndisturbedIsWhole
<1>3. ASSUME cd.drive_state = "READING", ReadSector(cd.interrupt_flag # NONE) PROVE StepIsWhole
  <2> DEFINE l == cd.current_lba
  <2>1. \/ Retry \/ Hold
        \/ cd.interrupt_flag = NONE /\ FailRead
        \/ Route(l) # "DATA" /\ Stream
        \/ cd.interrupt_flag = NONE /\ Deliver
    BY <1>3 DEF ReadSector
  <2>2. CASE Retry \/ Hold
    BY <1>2, <2>2 DEF Retry, Hold
  <2>3. CASE cd.interrupt_flag = NONE /\ FailRead
    <3>1. cd'.drive_state = "IDLE" /\ cd'.interrupt_flag = INT5
      BY <2>3 DEF FailRead, Controller
    <3> QED
      BY <2>3, <3>1, FlagsAreUp, StopIsWhole
  <2>4. cd.seek_phase \/ l = cd.head_lba + 1
    BY <1>3 DEF HeadFollows
  <2>5. CASE Route(l) # "DATA" /\ Stream
    <3>1. /\ cd'.drive_state = "READING" /\ cd'.head_lba = l /\ cd'.current_lba = l + 1
      BY <1>3, <2>5, PassedIs DEF Stream
    <3>2. HeadFollows'
      BY <3>1 DEF HeadFollows
    <3>3. Route(cd'.head_lba) # "DATA"
      BY <2>5, <3>1
    <3> QED
      BY <2>4, <3>1, <3>2, <3>3 DEF StepIsWhole
  <2>6. CASE cd.interrupt_flag = NONE /\ Deliver
    <3> DEFINE p == Passed(cd)
               sure == TRUE
    <3>1. cd' = [p EXCEPT !.interrupt_flag = INT1, !.header_valid = sure]
      BY <2>6 DEF Deliver
    <3>2. /\ p.drive_state = "READING" /\ p.head_lba = l /\ p.current_lba = l + 1
          /\ DOMAIN p = DOMAIN cd /\ "interrupt_flag" \in DOMAIN cd
      BY <1>3, PassedIs
    <3> HIDE DEF p, sure
    <3>3. /\ cd'.drive_state = "READING" /\ cd'.head_lba = l /\ cd'.current_lba = l + 1
          /\ cd'.interrupt_flag = INT1
      BY <3>1, <3>2
    <3>4. HeadFollows'
      BY <3>3 DEF HeadFollows
    <3> QED
      BY <2>4, <2>6, <3>3, <3>4 DEF StepIsWhole
  <2> QED
    BY <2>1, <2>2, <2>3, <2>5, <2>6
<1>4. ASSUME cd.drive_state = "PLAYING", PlaySector PROVE StepIsWhole
  <2> DEFINE l == cd.current_lba
             over == FALSE
             h == Halted(cd)
             back == IF l > 0 THEN l - 1 ELSE 0
  <2>1. h.drive_state = "IDLE" /\ DOMAIN h = DOMAIN cd /\ "drive_state" \in DOMAIN cd
    <3>1. h = [cd EXCEPT !.drive_state = "IDLE", !.seek_phase = over]
      BY DEF Halted
    <3> HIDE DEF over, h
    <3> QED
      BY <3>1 DEF Controller
  <2>2. \/ Retry \/ cd' = h \/ EndPlay(l) \/ KeepPlaying(l)
    BY <1>4 DEF PlaySector
  <2>3. CASE Retry
    BY <1>2, <2>3 DEF Retry
  <2>4. ASSUME cd'.drive_state # "READING" PROVE StepIsWhole
    BY <1>4, <2>4, StopIsWhole
  <2>5. CASE EndPlay(l)
    <3>1. \/ cd' = [h EXCEPT !.interrupt_flag = INT4]
          \/ cd' = [h EXCEPT !.interrupt_flag = INT4, !.current_lba = back, !.head_lba = back]
      BY <2>5 DEF EndPlay
    <3> HIDE DEF h, back
    <3>2. cd'.drive_state = "IDLE"
      BY <2>1, <3>1
    <3> QED
      BY <2>4, <3>2
  <2>6. CASE KeepPlaying(l)
    <3> DEFINE track == IF l \in BadQ THEN cd.last_track ELSE TrackOf[l]
               flag == IF "REPORT" \in cd.mode /\ l \in ReportAt THEN INT1 ELSE cd.interrupt_flag
               next == l + cd.cdda_speed
    <3>1. cd' = [cd EXCEPT !.seek_phase = over, !.head_lba = l, !.last_track = track,
                           !.interrupt_flag = flag, !.current_lba = next]
      BY <2>6 DEF KeepPlaying
    <3> HIDE DEF track, flag, next, over
    <3>2. cd'.drive_state = "PLAYING"
      BY <1>4, <3>1 DEF Controller
    <3> QED
      BY <2>4, <3>2
  <2> QED
    BY <2>1, <2>2, <2>3, <2>4, <2>5, <2>6
<1> QED
  BY <1>2, <1>3, <1>4 DEF DriveTick, Retry, Hold

(* Any step.                                                               *)
LEMMA NextIsWhole ==
  ASSUME IInv, HeadFollows, Next
  PROVE  StepIsWhole
<1>1. cd \in Controller
  BY DEF IInv, TypeOK
<1>2. CASE Time
  BY <1>2, UndisturbedIsWhole DEF Time, Undisturbed
<1>3. ASSUME NEW c \in guest, WriteCommand(c) PROVE Undisturbed
  BY <1>1, <1>3 DEF WriteCommand, Undisturbed, Controller
<1>4. ASSUME NEW bits \in SUBSET {1, 2, 4}, Acknowledge(bits) PROVE Undisturbed
  <2> DEFINE flag == cd.interrupt_flag \ bits
             es == IF flag = NONE THEN Released(cd) ELSE {}
  <2>1. cd' = [cd EXCEPT !.interrupt_flag = flag,
                         !.second_event_pending = @ \/ "SECOND" \in es,
                         !.cmd_event_pending = @ \/ "COMMAND" \in es]
    BY <1>4 DEF Acknowledge
  <2> HIDE DEF es, flag
  <2> QED
    BY <1>1, <2>1 DEF Undisturbed, Controller
<1> QED
  BY <1>1, <1>2, <1>3, <1>4, UndisturbedIsWhole, CommandIsWhole, SecondIsWhole, DriveIsWhole
     DEF Next, Guest

(* A read gives every sector in its order, each data sector with its INT1, *)
(* and never stops without an interrupt of its own, however late the guest *)
(* acknowledges and whatever it commands (cdrom_drive_read_sector,         *)
(* begin_reading, cdrom_execute_second_response).                          *)
THEOREM ReadsStayWhole == Spec => ReadsAreWhole
<1>1. Init => HeadFollows
  BY DEF Init, HeadFollows
<1>2. HeadFollows /\ UNCHANGED vars => HeadFollows'
  BY DEF HeadFollows, vars
<1>3. IInv /\ HeadFollows /\ [Next]_vars => HeadFollows'
  BY <1>2, NextIsWhole DEF StepIsWhole
<1>4. IInv /\ HeadFollows /\ [Next]_vars =>
        [cd.drive_state = "READING" /\ cd'.drive_state = "READING" /\ cd'.head_lba # cd.head_lba
         => /\ cd.seek_phase \/ cd'.head_lba = cd.head_lba + 1
            /\ Route(cd'.head_lba) = "DATA"
                 => cd.interrupt_flag = NONE /\ cd'.interrupt_flag = INT1]_vars
  BY NextIsWhole DEF StepIsWhole
<1>5. IInv /\ HeadFollows /\ [Next]_vars =>
        [cd.drive_state = "READING" /\ cd'.drive_state # "READING"
         => cd.interrupt_flag = NONE /\ cd'.interrupt_flag # NONE]_vars
  BY NextIsWhole DEF StepIsWhole
<1>6. Spec => [](IInv /\ HeadFollows)
  BY <1>1, <1>3, InitIInv, NextIInv, PTL DEF Spec
<1>7. Spec => NoSectorLost
  BY <1>4, <1>6, PTL DEF Spec, NoSectorLost
<1>8. Spec => NoSilentStop
  BY <1>5, <1>6, PTL DEF Spec, NoSilentStop
<1> QED
  BY <1>7, <1>8 DEF ReadsAreWhole
=============================================================================
