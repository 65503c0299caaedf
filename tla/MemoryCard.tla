------------------------------ MODULE MemoryCard ------------------------------
(***************************************************************************)
(* The file behind a memory card, src/core/sio.c:1337-1450: load or create *)
(* at start, and the save that a write's end byte starts: a backup once    *)
(* per session, a temporary file, a rename.  Every file operation can fail *)
(* and the process can be killed between any two of them.  What was        *)
(* written to a file before a kill stays written (no power failure).       *)
(***************************************************************************)
EXTENDS Naturals

CONSTANTS Contents,     \* what 128 KB of card can hold, as far as it differs
          Formatted     \* the card sio_create_memcard makes

ASSUME CardConstants == Formatted \in Contents /\ "ABSENT" \notin Contents /\ "PARTIAL" \notin Contents

VARIABLES card,         \* struct MemoryCard
          disk,         \* the card's file, and its .tmp and .bak
          saver,        \* the next step of sio_save_memcard, or what runs instead
          found         \* history: the file as this session found it, and
                        \* whether copying it aside failed

card_vars == <<card, disk, saver, found>>

Files == Contents \cup {"ABSENT", "PARTIAL"}

CardTypeOK ==
  /\ card \in [data : Contents \cup {"PARTIAL"}, dirty : BOOLEAN, backed_up : BOOLEAN]
  /\ disk \in [file : Files, tmp : Files, bak : Files]
  /\ saver \in {"DOWN", "IDLE", "BACKUP", "COPY", "OPEN", "WRITE", "RENAME"}
  /\ found \in [file : Files, uncopied : BOOLEAN]

CardInit ==
  /\ card = [data |-> Formatted, dirty |-> FALSE, backed_up |-> FALSE]
  /\ \E f \in Contents \cup {"ABSENT"} :
       /\ disk = [file |-> f, tmp |-> "ABSENT", bak |-> "ABSENT"]
       /\ found = [file |-> f, uncopied |-> FALSE]
  /\ saver = "DOWN"

(* sio_load_memcard: a missing file is created, a short one filled up.     *)
Load ==
  /\ saver = "DOWN"
  /\ card' = [data |-> IF disk.file = "ABSENT" THEN Formatted ELSE disk.file,
              dirty |-> disk.file = "ABSENT", backed_up |-> FALSE]
  /\ saver' = IF disk.file = "ABSENT" THEN "BACKUP" ELSE "IDLE"
  /\ found' = [file |-> disk.file, uncopied |-> FALSE]
  /\ UNCHANGED disk

(* The checksum of a write packet matches, sio_memcard_transfer.           *)
StoreSector(v) ==
  /\ saver = "IDLE" /\ v # card.data
  /\ card' = [card EXCEPT !.data = v, !.dirty = TRUE]
  /\ UNCHANGED <<disk, saver, found>>

(* Its end byte, which may come much later or never.                       *)
EndByte ==
  /\ saver = "IDLE" /\ card.dirty
  /\ saver' = "BACKUP"
  /\ UNCHANGED <<card, disk, found>>

BackupOnce_EverySave ==
  /\ saver = "BACKUP"
  /\ card' = [card EXCEPT !.backed_up = TRUE]
  /\ IF disk.file = "ABSENT"
     THEN saver' = "OPEN" /\ UNCHANGED <<disk, found>>
     ELSE \/ saver' = "COPY" /\ disk' = [disk EXCEPT !.bak = "PARTIAL"] /\ UNCHANGED found
          \/ saver' = "OPEN" /\ found' = [found EXCEPT !.uncopied = TRUE] /\ UNCHANGED disk

(* memcard_backup_once: nothing to copy, no place for the copy, or a copy. *)
BackupOnce ==
  /\ saver = "BACKUP"
  /\ card' = [card EXCEPT !.backed_up = TRUE]
  /\ IF card.backed_up \/ disk.file = "ABSENT"
     THEN saver' = "OPEN" /\ UNCHANGED <<disk, found>>
     ELSE \/ saver' = "COPY" /\ disk' = [disk EXCEPT !.bak = "PARTIAL"] /\ UNCHANGED found
          \/ saver' = "OPEN" /\ found' = [found EXCEPT !.uncopied = TRUE] /\ UNCHANGED disk

(* Its loop, whose writes are not checked.                                 *)
CopyAside ==
  /\ saver = "COPY" /\ saver' = "OPEN"
  /\ \/ disk' = [disk EXCEPT !.bak = disk.file] /\ UNCHANGED found
     \/ found' = [found EXCEPT !.uncopied = TRUE] /\ UNCHANGED disk
  /\ UNCHANGED card

OpenTemporary_InPlace ==
  /\ saver = "OPEN"
  /\ \/ saver' = "WRITE" /\ disk' = [disk EXCEPT !.tmp = "PARTIAL", !.file = "PARTIAL"]
     \/ saver' = "IDLE" /\ UNCHANGED disk
  /\ UNCHANGED <<card, found>>

OpenTemporary ==
  /\ saver = "OPEN"
  /\ \/ saver' = "WRITE" /\ disk' = [disk EXCEPT !.tmp = "PARTIAL"]
     \/ saver' = "IDLE" /\ UNCHANGED disk
  /\ UNCHANGED <<card, found>>

WriteTemporary ==
  /\ saver = "WRITE"
  /\ \/ saver' = "RENAME" /\ disk' = [disk EXCEPT !.tmp = card.data]
     \/ saver' = "IDLE" /\ disk' = [disk EXCEPT !.tmp = "ABSENT"]
  /\ UNCHANGED <<card, found>>

RenameOver_AlwaysClean ==
  /\ saver = "RENAME" /\ saver' = "IDLE"
  /\ \/ disk' = [disk EXCEPT !.file = disk.tmp, !.tmp = "ABSENT"]
     \/ disk' = [disk EXCEPT !.tmp = "ABSENT"]
  /\ card' = [card EXCEPT !.dirty = FALSE]
  /\ UNCHANGED found

RenameOver ==
  /\ saver = "RENAME" /\ saver' = "IDLE"
  /\ \/ /\ disk' = [disk EXCEPT !.file = disk.tmp, !.tmp = "ABSENT"]
        /\ card' = [card EXCEPT !.dirty = FALSE]
     \/ disk' = [disk EXCEPT !.tmp = "ABSENT"] /\ UNCHANGED card
  /\ UNCHANGED found

(* The process is killed, or quits: nothing is saved on the way out.       *)
Killed == saver # "DOWN" /\ saver' = "DOWN" /\ UNCHANGED <<card, disk, found>>

CardNext == \/ Load
            \/ \E v \in Contents : StoreSector(v)
            \/ EndByte
            \/ BackupOnce
            \/ CopyAside
            \/ OpenTemporary
            \/ WriteTemporary
            \/ RenameOver
            \/ Killed

CardSpec == CardInit /\ [][CardNext]_card_vars
-----------------------------------------------------------------------------
(* Whenever the process dies, the card's file is the card before or after  *)
(* the save, never half of it (sio.c:1397-1399), and an existing card is   *)
(* never gone; a card not marked dirty is in its file.                     *)
CardFileIsWhole ==
  /\ disk.file # "PARTIAL"
  /\ found.file # "ABSENT" => disk.file # "ABSENT"
  /\ saver # "DOWN" /\ ~card.dirty => disk.file = card.data

(* After any number of saves of a session what it found can still be had:  *)
(* the first save copied it aside and no later one touches the copy        *)
(* (sio.c:1364-1370), unless the copy itself failed.                       *)
FoundIsKept ==
  found.file \in Contents /\ ~found.uncopied =>
    \/ disk.file = found.file
    \/ disk.bak = found.file

(* A kill at any step costs the guest neither its card nor the one the     *)
(* session found.                                                          *)
CardIsSafe == CardFileIsWhole /\ FoundIsKept
=============================================================================
