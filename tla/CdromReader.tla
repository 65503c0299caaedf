---------------------------- MODULE CdromReader ----------------------------
(***************************************************************************)
(* The asynchronous sector reader of src/cdrom/cdrom_disc.c: a thread that *)
(* reads the disc image, and the emulation thread that asks it.  They      *)
(* share the struct CdromAsyncReader under one mutex; each action below is *)
(* one critical section, or a step that holds no lock.                     *)
(*                                                                         *)
(* The reader waits on cond_req.  pthread_cond_wait gives up the mutex and *)
(* goes to sleep in one step, and may also return for no reason.           *)
(*                                                                         *)
(* A buffer is abstracted to the sector whose bytes it holds.              *)
(***************************************************************************)
CONSTANTS Lbas,        \* the sectors of the image that are asked for
          Unreadable,  \* those that cannot be read
          Garbage      \* what a failed read leaves in the buffer

ASSUME Image == Unreadable \subseteq Lbas /\ Garbage \notin Lbas

VARIABLES
  r,        \* the shared struct
  thread,   \* the reader: where it is, and its locals lba, tmp and ok
  emu,      \* the emulation thread: running, joining the reader, or done
  want,     \* the sector under the head (Cdrom.current_lba)
  answer,   \* what the last poll for it returned
  polled    \* the emulation thread has just been handed a sector

vars == <<r, thread, emu, want, answer, polled>>

Source == INSTANCE SectorSource

Sectors == Lbas \cup {Garbage}

TypeOK ==
  /\ r \in [requested_lba : Lbas, has_request : BOOLEAN, sector_ready : BOOLEAN,
            shutdown : BOOLEAN, ready_lba : Lbas, read_ok : BOOLEAN,
            busy : BOOLEAN, sector : Sectors]
  /\ thread \in [pc : {"lock", "parked", "reading", "publishing", "exited"},
                 lba : Lbas, tmp : Sectors, ok : BOOLEAN]
  /\ emu \in {"running", "joining", "done"}
  /\ want \in Lbas
  /\ answer \in {Source!None, Source!Pending, Source!Failed}
                \cup [status : {"READY"}, sector : Sectors]
  /\ polled \in BOOLEAN

(* cdrom_async_reader_init, with memset's zeroes (some sector is sector 0).*)
Init ==
  /\ want \in Lbas
  /\ \E zero \in Lbas :
       /\ r = [requested_lba |-> zero, has_request |-> FALSE, sector_ready |-> FALSE,
               shutdown |-> FALSE, ready_lba |-> zero, read_ok |-> FALSE,
               busy |-> FALSE, sector |-> Garbage]
       /\ thread = [pc |-> "lock", lba |-> zero, tmp |-> Garbage, ok |-> FALSE]
  /\ emu = "running"
  /\ answer = Source!None
  /\ polled = FALSE
-----------------------------------------------------------------------------
(* The reader thread.                                                      *)

(* pthread_cond_signal(&r->cond_req).                                      *)
Signalled == IF thread.pc = "parked" THEN [thread EXCEPT !.pc = "lock"] ELSE thread

Park ==
  /\ thread.pc = "lock"
  /\ ~r.has_request /\ ~r.shutdown
  /\ thread' = [thread EXCEPT !.pc = "parked"]
  /\ UNCHANGED <<r, emu, want, answer, polled>>

SpuriousWakeup ==
  /\ thread.pc = "parked"
  /\ thread' = [thread EXCEPT !.pc = "lock"]
  /\ UNCHANGED <<r, emu, want, answer, polled>>

TakeRequest ==
  /\ thread.pc = "lock"
  /\ r.has_request /\ ~r.shutdown
  /\ r' = [r EXCEPT !.has_request = FALSE, !.busy = TRUE]
  /\ thread' = [thread EXCEPT !.pc = "reading", !.lba = r.requested_lba]
  /\ UNCHANGED <<emu, want, answer, polled>>

(* cdrom_disc_read_sector into the local buffer, with the mutex released.  *)
ReadSector ==
  /\ thread.pc = "reading"
  /\ LET ok == thread.lba \notin Unreadable
     IN thread' = [thread EXCEPT !.pc = "publishing", !.ok = ok,
                                 !.tmp = IF ok THEN thread.lba ELSE Garbage]
  /\ UNCHANGED <<r, emu, want, answer, polled>>

(* Mutant: the buffer is tagged with what is wanted now.                   *)
Publish_TagRequested ==
  /\ thread.pc = "publishing"
  /\ r' = [r EXCEPT !.sector = thread.tmp, !.ready_lba = r.requested_lba,
                    !.read_ok = thread.ok, !.sector_ready = TRUE, !.busy = FALSE]
  /\ thread' = [thread EXCEPT !.pc = "lock"]
  /\ UNCHANGED <<emu, want, answer, polled>>

(* Mutant: the tag is taken from the header of what was read.              *)
Publish_TagFromHeader ==
  /\ thread.pc = "publishing"
  /\ r' = [r EXCEPT !.sector = thread.tmp, !.ready_lba = thread.tmp,
                    !.read_ok = thread.ok, !.sector_ready = TRUE, !.busy = FALSE]
  /\ thread' = [thread EXCEPT !.pc = "lock"]
  /\ UNCHANGED <<emu, want, answer, polled>>

(* Mutant: the reader stays busy.                                          *)
Publish_StaysBusy ==
  /\ thread.pc = "publishing"
  /\ r' = [r EXCEPT !.sector = thread.tmp, !.ready_lba = thread.lba,
                    !.read_ok = thread.ok, !.sector_ready = TRUE]
  /\ thread' = [thread EXCEPT !.pc = "lock"]
  /\ UNCHANGED <<emu, want, answer, polled>>

Publish ==
  /\ thread.pc = "publishing"
  /\ r' = [r EXCEPT !.sector = thread.tmp, !.ready_lba = thread.lba,
                    !.read_ok = thread.ok, !.sector_ready = TRUE, !.busy = FALSE]
  /\ thread' = [thread EXCEPT !.pc = "lock"]
  /\ UNCHANGED <<emu, want, answer, polled>>

Exit ==
  /\ thread.pc = "lock"
  /\ r.shutdown
  /\ thread' = [thread EXCEPT !.pc = "exited"]
  /\ UNCHANGED <<r, emu, want, answer, polled>>
-----------------------------------------------------------------------------
(* The emulation thread.                                                   *)

(* cdrom_async_reader_queue, when the head goes to another sector.         *)
Queue(lba) ==
  /\ emu = "running"
  /\ r' = [r EXCEPT !.requested_lba = lba, !.has_request = TRUE, !.sector_ready = FALSE]
  /\ thread' = Signalled
  /\ want' = lba
  /\ answer' = Source!None
  /\ polled' = FALSE
  /\ UNCHANGED emu

(* The head goes to another sector without a queue(): a seek's end, or a   *)
(* loaded state, which holds current_lba and nothing of the reader.        *)
Jump(lba) ==
  /\ emu = "running"
  /\ want' = lba
  /\ answer' = Source!None
  /\ polled' = FALSE
  /\ UNCHANGED <<r, thread, emu>>

(* Mutant: the reader is not woken.                                        *)
PollMiss_NoSignal ==
  /\ ~(r.sector_ready /\ r.ready_lba = want)
  /\ answer' = Source!Pending
  /\ polled' = FALSE
  /\ r' = IF r.busy \/ r.has_request THEN [r EXCEPT !.sector_ready = FALSE]
          ELSE [r EXCEPT !.sector_ready = FALSE, !.requested_lba = want, !.has_request = TRUE]
  /\ UNCHANGED thread

(* cdrom_async_reader_poll.                                                *)
PollHit ==
  /\ r.sector_ready /\ r.ready_lba = want
  /\ answer' = IF r.read_ok THEN Source!Ready(r.sector) ELSE Source!Failed
  /\ polled' = r.read_ok
  /\ r' = [r EXCEPT !.sector_ready = FALSE]
  /\ UNCHANGED thread

PollMiss ==
  /\ ~(r.sector_ready /\ r.ready_lba = want)
  /\ answer' = Source!Pending
  /\ polled' = FALSE
  /\ IF r.busy \/ r.has_request
     THEN r' = [r EXCEPT !.sector_ready = FALSE] /\ UNCHANGED thread
     ELSE /\ r' = [r EXCEPT !.sector_ready = FALSE, !.requested_lba = want,
                            !.has_request = TRUE]
          /\ thread' = Signalled

Poll == emu = "running" /\ (PollHit \/ PollMiss) /\ UNCHANGED <<emu, want>>

(* cdrom_async_reader_unpoll, right after a poll that delivered a sector   *)
(* the drive has to hold; the reader may have run in between.              *)
Unpoll ==
  /\ emu = "running" /\ polled
  /\ r' = [r EXCEPT !.sector_ready =
             @ \/ (~r.has_request /\ ~r.busy /\ r.read_ok /\ r.ready_lba = want)]
  /\ polled' = FALSE
  /\ UNCHANGED <<thread, emu, want, answer>>

(* Mutant: the reader is not woken.                                        *)
Shutdown_NoSignal ==
  /\ emu = "running"
  /\ r' = [r EXCEPT !.shutdown = TRUE]
  /\ emu' = "joining"
  /\ polled' = FALSE
  /\ UNCHANGED <<thread, want, answer>>

(* cdrom_async_reader_shutdown, from cdrom_eject_disc at the end of main.  *)
Shutdown ==
  /\ emu = "running"
  /\ r' = [r EXCEPT !.shutdown = TRUE]
  /\ thread' = Signalled
  /\ emu' = "joining"
  /\ polled' = FALSE
  /\ UNCHANGED <<want, answer>>

Join ==
  /\ emu = "joining"
  /\ thread.pc = "exited"
  /\ emu' = "done"
  /\ UNCHANGED <<r, thread, want, answer, polled>>

Reader == Park \/ TakeRequest \/ ReadSector \/ Publish \/ Exit

Next == \/ Reader
        \/ SpuriousWakeup
        \/ \E lba \in Lbas : Queue(lba) \/ Jump(lba)
        \/ Poll
        \/ Unpoll
        \/ Shutdown
        \/ Join

Spec == Init /\ [][Next]_vars

(* The host schedules both threads; the drive event comes back every       *)
(* CDROM_READ_RETRY_DELAY cycles while the answer is PENDING.              *)
FairSpec == Spec /\ WF_vars(Reader) /\ WF_vars(Poll) /\ WF_vars(Join)
-----------------------------------------------------------------------------
(* The promise to the controller: a sector that is delivered is the sector *)
(* asked for, whatever was queued, dropped, held or half read in between.  *)
KeepsThePromise == Source!Spec

(* No wakeup is lost: the reader never sleeps on a request or a shutdown.  *)
NoLostWakeup == thread.pc = "parked" => ~r.has_request /\ ~r.shutdown

(* The flag that keeps poll() from asking twice is never left behind: it   *)
(* is up exactly while the reader is between its two critical sections.    *)
BusyIsReading == r.busy <=> thread.pc \in {"reading", "publishing"}

(* A drive that stays at one sector gets it, or the news that it cannot be *)
(* read, and gets it again as often as it has to ask.                      *)
HeadRests == <>[][\A lba \in Lbas : ~Queue(lba) /\ ~Jump(lba)]_vars
PollIsAnswered ==
  HeadRests => []<>(answer \notin {Source!None, Source!Pending} \/ emu # "running")

(* Ejecting the disc ends the thread, whatever it was doing.               *)
EjectEnds == emu = "joining" ~> emu = "done"

(* Neither a drive at rest nor an eject is left waiting.                   *)
AnswersCome == PollIsAnswered /\ EjectEnds
=============================================================================
