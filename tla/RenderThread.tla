---------------------------- MODULE RenderThread ----------------------------
(***************************************************************************)
(* The OpenGL renderer's two threads (src/gpu/renderer_gl.c): the          *)
(* emulation thread records what is drawn and uploaded into the write      *)
(* slot, the GPU thread replays the other slot, and the slots trade places *)
(* in glr_submit_frame.  GP0(C0h) and GP0(80h) make the GPU thread run the *)
(* write slot part of the way and read VRAM back while the emulation       *)
(* thread waits.                                                           *)
(*                                                                         *)
(* A primitive or an upload is numbered in the order it was asked for; a   *)
(* batch is the numbers it holds.  A critical section of gpu_mutex is one  *)
(* step; a wait on a condition is a state of its own, left only by a       *)
(* signal.                                                                 *)
(***************************************************************************)
EXTENDS Naturals, Sequences, FiniteSets, SequencesExt

CONSTANTS
  MaxAsked,      \* bound: primitives and uploads of one run
  MaxBatches,    \* GPU_MAX_BATCHES
  MaxUpdates,    \* GPU_MAX_VRAM_UPDATES, and the pool of their pixels
  MaxVertices,   \* VERTEX_BUFFER_LEN, in primitives
  MaxSessions    \* bound: how often the GPU thread is started

ASSUME RenderLimits == /\ {MaxBatches, MaxUpdates, MaxVertices} \subseteq Nat \ {0}
                       /\ {MaxAsked, MaxSessions} \subseteq Nat

VARIABLES
  front,     \* the emulation thread's GlRenderer: open batch and state
  slot,      \* s_frame[], s_vtx[], s_vram_pool_used[], s_exec_from[]
  shared,    \* under gpu_mutex: write_idx, frames_pending, the sync request
  recorder, replayer,  \* where each thread stands
  asked,     \* history: how many have been asked for
  dropped,   \* history: those a full table or a stopped thread lost
  drawn      \* history: what has been run into vram_tex, in that order

render_vars == <<front, slot, shared, recorder, replayer, asked, dropped, drawn>>

FrameSlots     == {0, 1}
EmptySlot == [ops |-> <<>>, batches |-> 0, updates |-> 0, vertices |-> 0,
              exec_from |-> 0]

RenderInit ==
  /\ front = [open |-> <<>>, isolated |-> FALSE, dither |-> FALSE]
  /\ slot = [s \in FrameSlots |-> EmptySlot]
  /\ shared = [write_idx |-> 0, frames_pending |-> 0, sync |-> FALSE,
               sync_slot |-> 0, stop |-> FALSE, sessions |-> 1]
  /\ recorder = "FIELD" /\ replayer = [at |-> "LOOP", slot |-> 0]
  /\ asked = 0 /\ dropped = {} /\ drawn = <<>>

EmuStates == {"FIELD", "READ", "READ_ASLEEP", "SYNC_ASLEEP", "WAIT", "WAIT_ASLEEP",
              "UI", "SUBMIT", "SUBMIT_ASLEEP", "JOIN"}
GpuStates == {"LOOP", "ASLEEP", "SYNC", "REPLAY", "UI", "EXITED"}

RenderTypeOK ==
  /\ front.open \in Seq(1..MaxAsked) /\ {front.isolated, front.dither} \subseteq BOOLEAN
  /\ \A s \in FrameSlots :
       /\ slot[s].batches \in 0..MaxBatches /\ slot[s].updates \in 0..MaxUpdates
       /\ slot[s].vertices \in 0..MaxVertices
       /\ slot[s].exec_from \in 0..Len(slot[s].ops)
  /\ shared.write_idx \in FrameSlots /\ shared.frames_pending \in 0..1
  /\ recorder \in EmuStates /\ replayer.at \in GpuStates /\ replayer.slot \in FrameSlots
  /\ asked \in 0..MaxAsked /\ dropped \subseteq 1..asked
-----------------------------------------------------------------------------
(* The emulation thread records.  A recorder takes the write slot `w' and  *)
(* the dropped set so far, and gives both back.                            *)
Recorded(w, lost) == [w |-> w, lost |-> lost]
Batch(items, lines) == [batch |-> TRUE, items |-> items, lines |-> lines,
                        dither |-> front.dither]
Update(n) == [batch |-> FALSE, items |-> <<n>>, lines |-> FALSE, dither |-> FALSE]

(* gpu_frame_record_op: there is room for every batch and every update.    *)
RecordOp(w, op) == [w EXCEPT !.ops = Append(@, op)]

(* glr_draw: the open primitives become a batch, or are lost.              *)
Close(r, open) ==
  LET w == r.w
  IN IF open = <<>> THEN r
     ELSE IF w.batches >= MaxBatches \/ w.vertices + Len(open) > MaxVertices
     THEN Recorded(w, r.lost \cup ToSet(open))
     ELSE Recorded([RecordOp(w, Batch(open, FALSE)) EXCEPT
                       !.batches = @ + 1, !.vertices = @ + Len(open)], r.lost)

Draw == Close(Recorded(slot[shared.write_idx], dropped), front.open)

(* What a recorder leaves, with the open batch `open'.                     *)
Leaves(r, open) ==
  /\ slot' = [slot EXCEPT ![shared.write_idx] = r.w]
  /\ dropped' = r.lost
  /\ front' = [front EXCEPT !.open = open]

Asking == recorder = "FIELD" /\ asked < MaxAsked /\ asked' = asked + 1
Recording == UNCHANGED <<shared, recorder, replayer, drawn>>

(* glr_push_triangle, glr_push_quad; `own' is what                         *)
(* zs1_prim_reads_drawn_area says of the primitive.                        *)
PushPrimitive(own) ==
  LET full  == Len(front.open) >= MaxVertices
      close == own \/ front.isolated \/ full
      r     == IF close THEN Draw ELSE Recorded(slot[shared.write_idx], dropped)
  IN /\ Asking /\ Recording
     /\ slot' = [slot EXCEPT ![shared.write_idx] = r.w]
     /\ dropped' = r.lost
     /\ front' = [front EXCEPT !.isolated = own,
                    !.open = Append(IF close THEN <<>> ELSE @, asked + 1)]

(* The batch a line may join: the last op, if it has not been run.         *)
Extendable_EvenIfRun(w) ==
  /\ w.ops # <<>>
  /\ Last(w.ops).batch /\ Last(w.ops).lines /\ Last(w.ops).dither = front.dither

Extendable(w) ==
  /\ w.ops # <<>> /\ Len(w.ops) > w.exec_from
  /\ Last(w.ops).batch /\ Last(w.ops).lines /\ Last(w.ops).dither = front.dither

Extended(w, n) == [w EXCEPT !.ops[Len(w.ops)].items = Append(@, n), !.vertices = @ + 1]

(* glr_push_line.                                                          *)
PushLine ==
  LET n == asked + 1
      r == Draw
      w == r.w
  IN /\ Asking /\ Recording
     /\ Leaves(IF w.vertices + 1 > MaxVertices THEN Recorded(w, r.lost \cup {n})
               ELSE IF Extendable(w) THEN Recorded(Extended(w, n), r.lost)
               ELSE IF w.batches >= MaxBatches THEN Recorded(w, r.lost \cup {n})
               ELSE Recorded([RecordOp(w, Batch(<<n>>, TRUE)) EXCEPT
                                 !.batches = @ + 1, !.vertices = @ + 1], r.lost), <<>>)

(* glr_record_vram_update.                                                 *)
RecordVramUpdate(r, n) ==
  IF r.w.updates >= MaxUpdates THEN Recorded(r.w, r.lost \cup {n})
  ELSE Recorded([RecordOp(r.w, Update(n)) EXCEPT !.updates = @ + 1], r.lost)

(* glr_upload_vram_rect: what is open takes its place first.               *)
UploadRect_NoFlush ==
  /\ Asking /\ Recording
  /\ Leaves(RecordVramUpdate(Recorded(slot[shared.write_idx], dropped), asked + 1),
            front.open)

UploadRect == /\ Asking /\ Recording
              /\ Leaves(RecordVramUpdate(Draw, asked + 1), <<>>)

(* glr_set_dither_mode; the other setters flush the open batch alike.      *)
SetDither == /\ recorder = "FIELD" /\ asked < MaxAsked /\ Recording
             /\ slot' = [slot EXCEPT ![shared.write_idx] = Draw.w]
             /\ dropped' = Draw.lost
             /\ front' = [front EXCEPT !.open = <<>>, !.dither = ~@]
             /\ UNCHANGED asked
-----------------------------------------------------------------------------
Wake(at) == IF replayer.at = "ASLEEP" THEN [replayer EXCEPT !.at = at] ELSE replayer

(* glr_read_vram_rect up to the mutex: the open batch is pushed.           *)
ReadRect == /\ recorder = "FIELD" /\ recorder' = "READ"
            /\ Leaves(Draw, <<>>)
            /\ UNCHANGED <<shared, replayer, asked, drawn>>

(* Under the mutex: wait for the frame in flight, then ask and sleep.      *)
RequestSync_NoWait ==
  /\ recorder = "READ"
  /\ shared' = [shared EXCEPT !.sync = TRUE, !.sync_slot = shared.write_idx]
  /\ replayer' = Wake("LOOP")
  /\ recorder' = "SYNC_ASLEEP"
  /\ UNCHANGED <<front, slot, asked, dropped, drawn>>

RequestSync ==
  /\ recorder = "READ"
  /\ IF shared.frames_pending > 0
     THEN recorder' = "READ_ASLEEP" /\ UNCHANGED <<shared, replayer>>
     ELSE /\ shared' = [shared EXCEPT !.sync = TRUE, !.sync_slot = shared.write_idx]
          /\ replayer' = Wake("LOOP")
          /\ recorder' = "SYNC_ASLEEP"
  /\ UNCHANGED <<front, slot, asked, dropped, drawn>>

(* The field is over: renderer_wait_frame_done, the ImGui frame, the       *)
(* submit.                                                                 *)
EndField == /\ recorder = "FIELD" /\ recorder' = "WAIT"
            /\ UNCHANGED <<front, slot, shared, replayer, asked, dropped, drawn>>

WaitFrameDone_Skipped == /\ recorder = "WAIT" /\ recorder' = "UI"
                         /\ UNCHANGED <<front, slot, shared, replayer, asked, dropped, drawn>>

WaitFrameDone ==
  /\ recorder = "WAIT"
  /\ recorder' = IF shared.frames_pending > 0 THEN "WAIT_ASLEEP" ELSE "UI"
  /\ UNCHANGED <<front, slot, shared, replayer, asked, dropped, drawn>>

BuildUi == /\ recorder = "UI" /\ recorder' = "SUBMIT"
           /\ Leaves(Draw, <<>>)
           /\ UNCHANGED <<shared, replayer, asked, drawn>>

SubmitFrame ==
  /\ recorder = "SUBMIT"
  /\ IF shared.frames_pending > 0
     THEN recorder' = "SUBMIT_ASLEEP" /\ UNCHANGED <<shared, replayer>>
     ELSE /\ shared' = [shared EXCEPT !.write_idx = 1 - @, !.frames_pending = 1]
          /\ replayer' = Wake("LOOP")
          /\ recorder' = "FIELD"
  /\ UNCHANGED <<front, slot, asked, dropped, drawn>>

(* glr_stop_gpu_thread, between two fields: the flag, the signal, the join. *)
StopThread == /\ recorder = "FIELD" /\ shared.sessions < MaxSessions
              /\ shared' = [shared EXCEPT !.stop = TRUE]
              /\ replayer' = Wake("LOOP")
              /\ recorder' = "JOIN"
              /\ UNCHANGED <<front, slot, asked, dropped, drawn>>

Unrun(s) == UNION {ToSet(slot[s].ops[i].items) : i \in slot[s].exec_from + 1..Len(slot[s].ops)}

(* glr_start_gpu_thread: both slots begin empty; what they held is lost.   *)
StartThread ==
  /\ recorder = "JOIN" /\ replayer.at = "EXITED"
  /\ slot' = [s \in FrameSlots |-> EmptySlot]
  /\ dropped' = dropped \cup UNION {Unrun(s) : s \in FrameSlots}
  /\ shared' = [shared EXCEPT !.write_idx = 0, !.frames_pending = 0, !.sync = FALSE,
                              !.stop = FALSE, !.sessions = @ + 1]
  /\ replayer' = [at |-> "LOOP", slot |-> 0]
  /\ recorder' = "FIELD"
  /\ UNCHANGED <<front, asked, drawn>>
-----------------------------------------------------------------------------
(* gpu_thread_main.  The top of the loop, up to the mutex's release.       *)
GpuLoop ==
  /\ replayer.at = "LOOP"
  /\ replayer' = CASE shared.stop -> [replayer EXCEPT !.at = "EXITED"]
              [] ~shared.stop /\ shared.sync -> [at |-> "SYNC", slot |-> shared.sync_slot]
              [] ~shared.stop /\ ~shared.sync /\ shared.frames_pending > 0 ->
                    [at |-> "REPLAY", slot |-> 1 - shared.write_idx]
              [] OTHER -> [replayer EXCEPT !.at = "ASLEEP"]
  /\ UNCHANGED <<front, slot, shared, recorder, asked, dropped, drawn>>

(* glr_replay_slot, one op of the slot.                                    *)
ReplayOp ==
  /\ replayer.at \in {"SYNC", "REPLAY"}
  /\ slot[replayer.slot].exec_from < Len(slot[replayer.slot].ops)
  /\ slot' = [slot EXCEPT ![replayer.slot].exec_from = @ + 1]
  /\ drawn' = drawn \o slot[replayer.slot].ops[slot[replayer.slot].exec_from + 1].items
  /\ UNCHANGED <<front, shared, recorder, replayer, asked, dropped>>

Replayed == slot[replayer.slot].exec_from = Len(slot[replayer.slot].ops)

(* glr_service_sync_readback is done: the emulation thread is signalled.   *)
SyncDone == /\ replayer.at = "SYNC" /\ Replayed
            /\ shared' = [shared EXCEPT !.sync = FALSE]
            /\ recorder' = IF recorder = "SYNC_ASLEEP" THEN "FIELD" ELSE recorder
            /\ replayer' = [replayer EXCEPT !.at = "LOOP"]
            /\ UNCHANGED <<front, slot, asked, dropped, drawn>>

(* Scanout, then ImGui's draw data.                                        *)
Scanout == /\ replayer.at = "REPLAY" /\ Replayed
           /\ replayer' = [replayer EXCEPT !.at = "UI"]
           /\ UNCHANGED <<front, slot, shared, recorder, asked, dropped, drawn>>

Woken == CASE recorder = "READ_ASLEEP"   -> "READ"
           [] recorder = "WAIT_ASLEEP"   -> "WAIT"
           [] recorder = "SUBMIT_ASLEEP" -> "SUBMIT"
           [] OTHER                 -> recorder

(* The read slot is reset, frames_pending cleared, frame_done signalled.   *)
FrameDone_StillPending ==
  /\ replayer.at = "UI"
  /\ slot' = [slot EXCEPT ![replayer.slot] = EmptySlot]
  /\ recorder' = Woken
  /\ replayer' = [replayer EXCEPT !.at = "LOOP"]
  /\ UNCHANGED <<front, shared, asked, dropped, drawn>>

FrameDone ==
  /\ replayer.at = "UI"
  /\ slot' = [slot EXCEPT ![replayer.slot] = EmptySlot]
  /\ shared' = [shared EXCEPT !.frames_pending = 0]
  /\ recorder' = Woken
  /\ replayer' = [replayer EXCEPT !.at = "LOOP"]
  /\ UNCHANGED <<front, asked, dropped, drawn>>
-----------------------------------------------------------------------------
Record  == \/ \E own \in BOOLEAN : PushPrimitive(own)
           \/ PushLine \/ UploadRect \/ SetDither
HostStep == RequestSync \/ WaitFrameDone \/ BuildUi \/ SubmitFrame \/ StartThread
GpuStep  == GpuLoop \/ ReplayOp \/ SyncDone \/ Scanout \/ FrameDone

RenderNext == Record \/ ReadRect \/ EndField \/ StopThread \/ HostStep \/ GpuStep

(* Both threads are scheduled; what the guest draws, and when its field    *)
(* ends, is its own business.                                              *)
RenderFair == WF_render_vars(HostStep) /\ WF_render_vars(GpuStep)
RenderSpec == RenderInit /\ [][RenderNext]_render_vars /\ RenderFair
-----------------------------------------------------------------------------
(* Whatever the threads do, VRAM takes every primitive and upload in the   *)
(* order the guest asked for them, each once: partial replays repeat       *)
(* nothing, a later upload never goes before an earlier draw, and a line   *)
(* never joins a batch that has been run.  Nothing older than what is in   *)
(* VRAM is still to come, except what a full table lost.                   *)
VramIsInOrder ==
  /\ \A i \in 1..Len(drawn) - 1 : drawn[i] < drawn[i + 1]
  /\ drawn # <<>> => 1..Last(drawn) \subseteq ToSet(drawn) \cup dropped

(* GP0(C0h): when the emulation thread is about to be answered, VRAM holds *)
(* all it has asked for.                                                   *)
ReadbackIsCurrent ==
  replayer.at = "SYNC" /\ Replayed => 1..asked \subseteq ToSet(drawn) \cup dropped

(* ImGui's frame is built only while the GPU thread draws none, and the    *)
(* two threads never work on the same slot, except in a readback, when the *)
(* emulation thread waits.                                                 *)
ThreadsKeepApart ==
  /\ recorder = "UI" => replayer.at \notin {"REPLAY", "UI"}
  /\ replayer.at \in {"REPLAY", "UI"} => replayer.slot # shared.write_idx
  /\ replayer.at = "SYNC" => recorder = "SYNC_ASLEEP" /\ replayer.slot = shared.write_idx

(* No wait is for ever: a field that has ended is submitted, a readback    *)
(* answered, a thread asked to stop replaced.                              *)
WaitsEnd == recorder # "FIELD" ~> recorder = "FIELD"

(* The two threads and the user interface share frames and VRAM, and none  *)
(* sees the other's work half done: neither a readback nor a slot.         *)
HandoversAreClean == RenderTypeOK /\ ReadbackIsCurrent /\ ThreadsKeepApart
=============================================================================
