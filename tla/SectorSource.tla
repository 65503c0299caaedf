---------------------------- MODULE SectorSource ----------------------------
(***************************************************************************)
(* What the CD-ROM controller is promised by the disc side: it asks for    *)
(* the sector under the head, again and again, and is told either that     *)
(* the sector is not here yet or the truth about that very sector.         *)
(* CdromReader shows that the asynchronous reader thread keeps the         *)
(* promise; Cdrom is written against the promise.                          *)
(***************************************************************************)
CONSTANTS Lbas,       \* the sectors that are asked for
          Unreadable  \* those the image cannot deliver

VARIABLES want,       \* current_lba
          answer      \* what the last poll for it returned

None    == [status |-> "NONE"]
Pending == [status |-> "PENDING"]
Failed  == [status |-> "FAILED"]
Ready(lba) == [status |-> "READY", sector |-> lba]

Truth(lba) == IF lba \in Unreadable THEN Failed ELSE Ready(lba)

Init == want \in Lbas /\ answer = None

Move == want' \in Lbas /\ answer' = None
Ask  == answer' \in {Pending, Truth(want)} /\ UNCHANGED want

Spec == Init /\ [][Move \/ Ask]_<<want, answer>>
=============================================================================
