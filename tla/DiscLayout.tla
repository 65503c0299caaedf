------------------------------ MODULE DiscLayout ------------------------------
(***************************************************************************)
(* A cue sheet, the table of tracks cdrom_disc_load makes of it, and what  *)
(* a sector of that disc reads and reports (src/cdrom/cdrom_disc.c).       *)
(*                                                                         *)
(* Addresses are in sectors.  A sector of an image file is <<file, n>>.    *)
(* The sheet is kept as it is written; the loader's arrays, in which an    *)
(* INDEX 00 that is absent and one at 00:00:00 look the same, are derived  *)
(* from it.                                                                *)
(***************************************************************************)
EXTENDS Naturals, Sequences, FiniteSets, SequencesExt, FiniteSetsExt

CONSTANTS
  ImageSectors,  \* the sectors of each image file: a sequence of lengths
  EcmImages,     \* which of the files are ECM, by number
  Pregaps,       \* PREGAP lengths a sheet uses, 0 for none
  Protected,     \* the .sbi files: the sectors of their patches, which ascend
  MaxTracks      \* bound: tracks of a sheet

VARIABLES sheet, table, sbi, head
disc_vars == <<sheet, table, sbi, head>>

Silence == <<0, 0>>
Failed  == <<0, 1>>
NoDisc  == [tracks |-> <<>>, total |-> 0]
LeadOut == 170

Images == 1..Len(ImageSectors)
LastFile == IF sheet = <<>> THEN 0 ELSE Last(sheet).file

Addresses == 0..Max({ImageSectors[f] : f \in Images})

(* A TRACK of the sheet: its FILE, its PREGAP, whether it has an INDEX 00, *)
(* which is 0 if not, and its INDEX 01.                                    *)
Entries == [file : Images, pregap : Pregaps,
            paused : BOOLEAN, index0 : Addresses, index1 : Addresses]

First(e) == IF e.paused THEN e.index0 ELSE e.index1

(* A sheet a dump carries: it starts the disc with the first file, uses    *)
(* every file from its first sector, and its addresses climb.              *)
Follows(e) ==
  /\ IF e.paused THEN e.pregap = 0 /\ e.index0 < e.index1 ELSE e.index0 = 0
  /\ e.index1 < ImageSectors[e.file]
  /\ IF e.file = LastFile
     THEN First(e) > Last(sheet).index1
     ELSE e.file = LastFile + 1 /\ First(e) = 0
  /\ sheet = <<>> => e.index1 = 0 /\ e.pregap = 0
-----------------------------------------------------------------------------
(* cdrom_disc_load.                                                        *)
MultiFile == LastFile > 1

(* The gaps up to track i: PREGAP lines are silence the file does not hold. *)
ShiftAt_Unshifted(i) == 0
ShiftAt(i) ==
  LET shift[k \in 0..Len(sheet)] == IF k = 0 THEN 0 ELSE shift[k - 1] + sheet[k].pregap
  IN shift[i]

SingleTrack(i) ==
  LET start == sheet[i].index1 + ShiftAt(i)
  IN [file |-> sheet[i].file, start_lba |-> start, file_offset |-> sheet[i].index1,
      pregap_lba |-> IF sheet[i].index0 # 0 THEN sheet[i].index0 + ShiftAt(i)
                     ELSE IF sheet[i].pregap # 0 THEN start - sheet[i].pregap ELSE 0]

(* The loop adds the whole of a track's file to accum_lba, track by track. *)
Accumulated(i) ==
  FoldSeq(LAMBDA e, sum : sum + ImageSectors[e.file], 0, SubSeq(sheet, 1, i - 1))

MultiTrack(i) ==
  [file |-> sheet[i].file, start_lba |-> Accumulated(i), file_offset |-> 0,
   pregap_lba |-> IF sheet[i].index0 > 0 THEN Accumulated(i) - (sheet[i].index1 - sheet[i].index0) ELSE 0]

Tracks == [i \in 1..Len(sheet) |-> IF MultiFile THEN MultiTrack(i) ELSE SingleTrack(i)]

TotalSectors == IF MultiFile THEN Accumulated(Len(sheet) + 1)
                ELSE ImageSectors[1] + ShiftAt(Len(sheet))

Load == [tracks |-> Tracks, total |-> TotalSectors]
-----------------------------------------------------------------------------
(* cdrom_disc_get_track_at_lba, and the same search in the readers.        *)
TrackAt(lba) ==
  LET Next1(i) == table.tracks[i + 1].start_lba
      last  == Len(table.tracks)
  IN Min({i \in 1..last : i = last \/ Next1(i) > lba})

FromImage(file, n) == IF n < ImageSectors[file] THEN <<file, n>> ELSE Failed

(* cdrom_disc_read_sector; an ECM image is read by ecm_read_sector.        *)
DiscSector_NoGap(lba) ==
  LET t   == table.tracks[TrackAt(lba)]
      rel == lba - t.start_lba
  IN IF lba < t.start_lba THEN Silence
     ELSE FromImage(t.file, IF t.file \in EcmImages THEN rel ELSE t.file_offset + rel)

DiscSector(lba) ==
  LET i    == TrackAt(lba)
      t    == table.tracks[i]
      rel  == lba - t.start_lba
      room == table.tracks[i + 1].file_offset - t.file_offset
      next_is_later == i < Len(table.tracks) /\ table.tracks[i + 1].file_offset > t.file_offset
  IN IF lba < t.start_lba THEN Silence
     ELSE IF t.file \in EcmImages THEN FromImage(t.file, rel)
     ELSE IF next_is_later /\ rel >= room THEN Silence
     ELSE FromImage(t.file, t.file_offset + rel)

(* sbi_find, low and high as in the code.                                  *)
SbiFind(lba) ==
  LET Search[span \in (0..Len(sbi)) \X (0..Len(sbi) - 1)] ==
        LET lo  == span[1]
            hi  == span[2]
            mid == lo + (hi - lo) \div 2
        IN IF lo > hi THEN FALSE
           ELSE IF sbi[mid + 1] = lba THEN TRUE
           ELSE IF sbi[mid + 1] < lba THEN Search[<<mid + 1, hi>>]
           ELSE mid # 0 /\ Search[<<lo, mid - 1>>]
  IN sbi # <<>> /\ Search[<<0, Len(sbi) - 1>>]

Q(track, index, rel) == [track |-> track, index |-> index, rel |-> rel]
Patched == Q(0, 0, 0)

(* cdrom_disc_get_subq.                                                    *)
InPregap_NotCounted(lba, i) == FALSE
InPregap(lba, i) ==
  /\ i < Len(table.tracks)
  /\ table.tracks[i + 1].pregap_lba # 0
  /\ lba \in table.tracks[i + 1].pregap_lba .. table.tracks[i + 1].start_lba - 1

Subq(lba) ==
  LET i == TrackAt(lba)
      t == table.tracks[i]
  IN IF SbiFind(lba) THEN Patched
     ELSE IF lba >= table.total THEN Q(LeadOut, 1, lba - table.total)
     ELSE IF InPregap(lba, i) THEN Q(i + 1, 0, table.tracks[i + 1].start_lba - lba)
     ELSE Q(i, 1, IF lba >= t.start_lba THEN lba - t.start_lba ELSE 0)
-----------------------------------------------------------------------------
DiscInit == sheet = <<>> /\ table = NoDisc /\ sbi \in Protected /\ head = 0

AddTrack == /\ table = NoDisc /\ Len(sheet) < MaxTracks
                 /\ \E e \in Entries : Follows(e) /\ sheet' = Append(sheet, e)
                 /\ UNCHANGED <<table, sbi, head>>

LoadDisc == /\ table = NoDisc /\ LastFile = Len(ImageSectors)
            /\ table' = Load
            /\ UNCHANGED <<sheet, sbi, head>>

(* The head runs over the disc and one sector into the lead-out.           *)
NextSector == /\ table # NoDisc /\ head <= table.total
              /\ head' = head + 1
              /\ UNCHANGED <<sheet, table, sbi>>

DiscNext == AddTrack \/ LoadDisc \/ NextSector
DiscSpec == DiscInit /\ [][DiscNext]_disc_vars

DiscTypeOK ==
  /\ sheet \in Seq(Entries) /\ head \in Nat
  /\ table # NoDisc => /\ Len(table.tracks) = Len(sheet)
                          /\ \A t \in ToSet(table.tracks) :
                               {t.start_lba, t.pregap_lba, t.file_offset} \subseteq 0..table.total
-----------------------------------------------------------------------------
(* The disc the sheet describes, sector by sector: the PREGAP's silence,   *)
(* the file from INDEX 00, the file from INDEX 01 to the next track.       *)
Span(file, from, upto) == [k \in 1..upto - from |-> <<file, from + k - 1>>]

Upto(i) == IF i < Len(sheet) /\ sheet[i + 1].file = sheet[i].file
           THEN First(sheet[i + 1]) ELSE ImageSectors[sheet[i].file]

Gap(i)  == [k \in 1..sheet[i].pregap |-> Silence]
             \o Span(sheet[i].file, First(sheet[i]), sheet[i].index1)
Body(i) == Span(sheet[i].file, sheet[i].index1, Upto(i))

Pressed == FlattenSeq([i \in 1..Len(sheet) |-> Gap(i) \o Body(i)])
PressedQ ==
  FlattenSeq([i \in 1..Len(sheet) |->
    [k \in 1..Len(Gap(i)) |-> Q(i, 0, Len(Gap(i)) - k + 1)]
      \o [k \in 1..Len(Body(i)) |-> Q(i, 1, k - 1)]])

(* Every sector of the disc reads what the sheet puts there: no gap moves  *)
(* the data behind it, and no track reads into the next one's.             *)
ReadsThePressedDisc ==
  table # NoDisc /\ head < Len(Pressed) =>
    table.total = Len(Pressed) /\ DiscSector(head) = Pressed[head + 1]

(* Subchannel Q names the track, tells a pause from the music, counts down *)
(* to each track and up from it, and is replaced exactly on the sectors    *)
(* the .sbi lists.                                                         *)
QIsThePressedDisc ==
  table # NoDisc =>
    Subq(head) = IF head \in ToSet(sbi) THEN Patched
                 ELSE IF head < Len(PressedQ) THEN PressedQ[head + 1]
                 ELSE Q(LeadOut, 1, head - Len(PressedQ))

(* Data and subchannel agree with the sheet at every sector.               *)
DiscIsThePressed == ReadsThePressedDisc /\ QIsThePressedDisc
=============================================================================
