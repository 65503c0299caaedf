------------------------------ MODULE SaveState ------------------------------
(***************************************************************************)
(* Saving and loading the machine, src/core/savestate.c: a file of         *)
(* sections in a fixed order, read straight into the live structs.  What a *)
(* section holds is the moment it was taken at.  The file is written in    *)
(* place, so a full disk or a kill leaves it short at any point, and it    *)
(* may be one of another build, another disc or another layout (which      *)
(* reads as a file that ends at the first section that differs).           *)
(* The pixels of VRAM are in Gp0 (CaptureVram).                            *)
(***************************************************************************)
EXTENDS Naturals, Integers, Sequences

CONSTANTS LastMoment,   \* moments the machine goes through
          Discs         \* discs that tell themselves apart

ASSUME SaveConstants == LastMoment \in Nat /\ "NONE" \notin Discs

SectionOrder == <<"DISC", "CPU", "RAM", "SCRP", "INTC", "GPUH", "GPUT", "DMA", "TMR",
                  "CDRH", "CDRT", "SPU", "SIO", "SIOI", "MDEC">>
Restored == {SectionOrder[i] : i \in 2 .. Len(SectionOrder)}
CardPorts == {1, 2}

VARIABLES
  machine,      \* the moment each restored section of the machine is of
  vblank,       \* EVQ_VBLANK is in the queue
  active,       \* sio.c active_card: no card, a live slot, or a stale address
  drive,        \* the disc mounted, and what disc_present says
  cards,        \* the memory cards in the slots
  file,         \* the state file
  report        \* how the last load ended

save_vars == <<machine, vblank, active, drive, cards, file, report>>

Moments == 0 .. LastMoment
Snapshot == [Restored -> Moments]
StateFile == [build : {"THIS", "OTHER"}, disc : Discs \cup {"NONE"}, content : Snapshot,
              vblank : BOOLEAN, active : CardPorts \cup {0}, cards : [CardPorts -> Moments],
              length : -1 .. Len(SectionOrder)]

SaveTypeOK ==
  /\ machine \in Snapshot /\ vblank \in BOOLEAN
  /\ active \in [to : CardPorts \cup {0}, live : BOOLEAN]
  /\ drive \in [disc : Discs \cup {"NONE"}, present : BOOLEAN]
  /\ cards \in [CardPorts -> Moments]
  /\ file \in StateFile
  /\ report \in {"NONE", "REFUSED", "FAILED", "LOADED"}

At(m) == [s \in Restored |-> m]
NoCardActive == [to |-> 0, live |-> TRUE]

(* A file of an earlier session, also one that an older build wrote from   *)
(* inside the event dispatch, with no VBlank in its queue.                 *)
SaveInit ==
  /\ machine = At(0) /\ vblank = TRUE /\ active = NoCardActive
  /\ \E d \in Discs \cup {"NONE"} : drive = [disc |-> d, present |-> d # "NONE"]
  /\ cards = [k \in CardPorts |-> 0]
  /\ \E b \in {"THIS", "OTHER"}, d \in Discs \cup {"NONE"}, v \in BOOLEAN, n \in {-1, 9, 15} :
       file = [build |-> b, disc |-> d, content |-> At(LastMoment), vblank |-> v, active |-> 2,
               cards |-> [k \in CardPorts |-> LastMoment], length |-> n]
  /\ report = "NONE"
-----------------------------------------------------------------------------
(* The machine runs on to its next moment, with a card addressed or not.   *)
RunOn(k) ==
  LET now == machine["RAM"] IN
  /\ now < LastMoment
  /\ machine' = At(now + 1)
  /\ active' = [to |-> k, live |-> TRUE]
  /\ report' = "NONE"
  /\ UNCHANGED <<vblank, drive, cards, file>>

CardWritten(k) ==
  /\ cards[k] < LastMoment
  /\ cards' = [cards EXCEPT ![k] = @ + 1]
  /\ report' = "NONE"
  /\ UNCHANGED <<machine, vblank, active, drive, file>>

(* Another disc, or none, between two sessions of loading.                 *)
ChangeDisc(d) ==
  /\ drive' = [disc |-> d, present |-> d # "NONE"]
  /\ report' = "NONE"
  /\ UNCHANGED <<machine, vblank, active, cards, file>>

(* savestate_save: truncates the file, then writes n of its parts.         *)
Save(n) ==
  /\ file' = [build |-> "THIS", disc |-> drive.disc, content |-> machine, vblank |-> vblank,
              active |-> active.to, cards |-> cards, length |-> n]
  /\ report' = "NONE"
  /\ UNCHANGED <<machine, vblank, active, drive, cards>>

(* The header, and disc_identity_of against the drive.                     *)
Readable == file.build = "THIS" /\ file.length >= 1
DiscAgrees == file.disc = "NONE" \/ file.disc = drive.disc

(* get_section up to the first that does not read.                         *)
ReadIn   == {SectionOrder[i] : i \in 2 .. file.length}
Complete == file.length = Len(SectionOrder)

Refuse ==
  /\ ~(Readable /\ DiscAgrees)
  /\ report' = "REFUSED"
  /\ UNCHANGED <<machine, vblank, active, drive, cards, file>>

(* INTC waits for the last section; the rest is read in place.             *)
Overwritten_InPlace == ReadIn

Overwritten == IF Complete THEN ReadIn ELSE ReadIn \ {"INTC"}

Load_TrustsTheQueue ==
  /\ Readable /\ DiscAgrees
  /\ machine' = [s \in Restored |-> IF s \in Overwritten THEN file.content[s] ELSE machine[s]]
  /\ active' = IF "SIOI" \in ReadIn THEN [to |-> file.active, live |-> TRUE] ELSE active
  /\ vblank' = IF Complete THEN file.vblank ELSE vblank
  /\ drive' = [drive EXCEPT !.present = drive.disc # "NONE"]
  /\ report' = IF Complete THEN "LOADED" ELSE "FAILED"
  /\ UNCHANGED <<cards, file>>

Load_RewindsTheCards ==
  /\ Readable /\ DiscAgrees
  /\ machine' = [s \in Restored |-> IF s \in Overwritten THEN file.content[s] ELSE machine[s]]
  /\ active' = IF "SIOI" \in ReadIn THEN [to |-> file.active, live |-> TRUE] ELSE active
  /\ vblank' = (vblank \/ Complete)
  /\ drive' = [drive EXCEPT !.present = drive.disc # "NONE"]
  /\ report' = IF Complete THEN "LOADED" ELSE "FAILED"
  /\ cards' = IF "SIO" \in ReadIn THEN file.cards ELSE cards
  /\ UNCHANGED file

(* savestate_load, with sio_load_internal_state and the VBlank it puts     *)
(* back; the host's pointers and cards are held across it.                 *)
LoadState ==
  /\ Readable /\ DiscAgrees
  /\ machine' = [s \in Restored |-> IF s \in Overwritten THEN file.content[s] ELSE machine[s]]
  /\ active' = IF "SIOI" \in ReadIn THEN [to |-> file.active, live |-> TRUE] ELSE active
  /\ vblank' = (vblank \/ Complete)
  /\ drive' = [drive EXCEPT !.present = drive.disc # "NONE"]
  /\ report' = IF Complete THEN "LOADED" ELSE "FAILED"
  /\ UNCHANGED <<cards, file>>

SaveNext ==
  \/ \E k \in CardPorts \cup {0} : RunOn(k)
  \/ \E k \in CardPorts : CardWritten(k)
  \/ \E d \in Discs \cup {"NONE"} : ChangeDisc(d)
  \/ \E n \in {-1, 0, 1, 5, 13, 14, 15} : Save(n)
  \/ Refuse
  \/ LoadState

SaveSpec == SaveInit /\ [][SaveNext]_save_vars
-----------------------------------------------------------------------------
(* A load either changes nothing, or says it failed, or leaves the machine *)
(* of one moment, the file's, with its frame boundary in the queue         *)
(* (savestate.c:442-448) and every pointer live.                           *)
LoadedIsTheSaved ==
  /\ report = "LOADED" => machine = file.content /\ vblank /\ active.live
  /\ drive.present = (drive.disc # "NONE")

(* The cards in the slots are host storage: no load takes back what the    *)
(* guest wrote on them (savestate.c:381-391).                              *)
CardsAreNeverRewound ==
  [][\A k \in CardPorts : cards'[k] >= cards[k]]_save_vars

(* A load that refuses leaves the machine exactly as it was                *)
(* (savestate.c:318-319), and a failed one never the event queue of one    *)
(* moment under interrupt registers of another.                            *)
RefusalIsClean ==
  [][/\ report' = "REFUSED" => UNCHANGED <<machine, vblank, active, drive, cards>>
     /\ report' = "FAILED" => machine'["INTC"] = machine["INTC"] /\ vblank' = vblank]_save_vars

(* Save and load as a whole: the machine is the saved one or the untouched *)
(* one, and no card goes back in time.                                     *)
LoadsAreWhole == []LoadedIsTheSaved /\ CardsAreNeverRewound /\ RefusalIsClean
=============================================================================
