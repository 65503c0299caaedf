------------------------------ MODULE MCThreads ------------------------------
(***************************************************************************)
(* What runs beside the emulation thread, for TLC: the SPU's voice and the *)
(* audio callback, the disc reader, and the disc image it reads.  They     *)
(* share no state with each other, so one instance checks them side by     *)
(* side: subject is the component a behaviour is about, the others rest.   *)
(***************************************************************************)
EXTENDS Spu, SpuRing, SpuStretch, CdromReader

CONSTANTS Pregaps, Patches   \* see DiscLayout

VARIABLES subject, sheet, table, sbi, disc_head

(* One image of seven sectors, not ECM, and sheets of up to three tracks.  *)
Disc == INSTANCE DiscLayout
          WITH head <- disc_head, ImageSectors <- <<7>>, EcmImages <- {},
               Protected <- Patches, MaxTracks <- 3

disc_vars == <<sheet, table, sbi, disc_head>>
thread_vars == <<subject, spu_vars, ring_vars, stretch_vars, vars, disc_vars>>

(* Flags of a block, and an envelope of every phase.                       *)
Flags(start, end, repeat) == [start |-> start, end |-> end, repeat |-> repeat]
StreamFlags == {Flags(TRUE, FALSE, FALSE), Flags(FALSE, TRUE, TRUE), Flags(FALSE, TRUE, FALSE)}
OneEnvelope == {[attack |-> 4, attack_exp |-> TRUE, decay |-> 0, level |-> 2, sustain |-> 0,
                 sustain_exp |-> FALSE, increase |-> TRUE, release |-> 0, release_exp |-> FALSE]}

(* Files of patches: none, one, and even and odd numbers of them.          *)
PatchFiles == {<<>>, <<0>>, <<1, 4>>, <<2, 3, 6>>, <<0, 1, 2, 5, 8>>}
-----------------------------------------------------------------------------
(* A component that is not the subject starts in one initial state.        *)
Fixed(p, choice) == subject = p \/ choice

ThreadsInit ==
  /\ subject \in {"spu", "ring", "stretch", "reader", "disc"}
  /\ SpuInit /\ Fixed("spu", \A b \in Addresses : sram[b].start)
  /\ RingInit
  /\ StretchInit
  /\ Init    /\ Fixed("reader", want = 0 /\ r.requested_lba = 0)
  /\ Disc!DiscInit /\ Fixed("disc", sbi = <<>>)

Others(p) ==
  /\ UNCHANGED subject
  /\ IF p = "spu"     THEN TRUE ELSE UNCHANGED spu_vars
  /\ IF p = "ring"    THEN TRUE ELSE UNCHANGED ring_vars
  /\ IF p = "stretch" THEN TRUE ELSE UNCHANGED stretch_vars
  /\ IF p = "reader"  THEN TRUE ELSE UNCHANGED vars
  /\ IF p = "disc"    THEN TRUE ELSE UNCHANGED disc_vars

ThreadsNext ==
  \/ subject = "spu"     /\ SpuNext     /\ Others("spu")
  \/ subject = "ring"    /\ RingNext    /\ Others("ring")
  \/ subject = "stretch" /\ StretchNext /\ Others("stretch")
  \/ subject = "reader"  /\ Next        /\ Others("reader")
  \/ subject = "disc"    /\ Disc!DiscNext /\ Others("disc")

(* The fairness each component states, once it is the subject.             *)
ThreadsFair ==
  /\ WF_spu_vars(subject = "spu" /\ Fetching)
  /\ WF_stretch_vars(subject = "stretch" /\ Device)
  /\ WF_stretch_vars(subject = "stretch" /\ (MakeField \/ GoOn))
  /\ WF_vars(subject = "reader" /\ Reader)
  /\ WF_vars(subject = "reader" /\ Poll)
  /\ WF_vars(subject = "reader" /\ Join)

ThreadsSpec == ThreadsInit /\ [][ThreadsNext]_thread_vars /\ ThreadsFair
-----------------------------------------------------------------------------
(* The state of every component keeps its type.                            *)
TypesOK == SpuTypeOK /\ RingTypeOK /\ StretchTypeOK /\ TypeOK /\ Disc!DiscTypeOK

(* See CdromReader: a drive at rest is answered and an eject ends.         *)
DiscAnswers == subject = "reader" => AnswersCome

(* See DiscLayout: each sector reads, and reports, what the sheet says.    *)
DiscIsThePressed == Disc!DiscIsThePressed
=============================================================================
