# ZonistationOne: a verification project

TLA+ models of the parts of the ZonistationOne emulator (a Sony PlayStation, in
C) whose correctness depends on the order of things: who writes a register
between two events, what is in the queue when a handler runs, which of two
threads gets the lock. TLC checks the models on small instances; the TLA+ proof
system (TLAPS) proves their central invariants for every value of the constants.

The emulator runs on one *emulation thread*, which steps the CPU and dispatches
the events that have come due; the devices are state machines called from CPU
stores and from events. Beside it run a *reader thread* for disc sectors, a
*render thread*, and the host's *audio callback*. So almost every hazard is one
of two kinds: a guest access that falls between two events of the same device,
and a step of another thread that falls between two critical sections.

## 1. Inventory

| Component | State | Operations | What makes it hard | What makes it correct |
|---|---|---|---|---|
| Interrupt controller (`bus_irq.c`, `bus.c`) | I_STAT, I_MASK, level of each line | a device raises, lowers or pulses a line; the guest writes I_STAT and I_MASK | edges are latched, so a line left high is deaf; the guest acknowledges controller and device in either order | every request is latched until the guest clears it; no line is high without its bit |
| DMA controller (`dma.c`, `bus.c`) | seven channels, DPCR, DICR, slices in flight | register writes, two slice events | a transfer outlives the write that started it while the guest rewrites its registers, aborts, restarts or re-enables it | no transfer is stranded, its end is signalled, the guest's registers win |
| Event scheduler (`event_scheduler.c`, `cpu_execution.c`) | cycle counter, targets, next target, downcount | schedule, charge cycles, dispatch, recompute | a 32-bit counter that wraps; handlers that reschedule during the scan | nothing fires early, nothing due is left, the CPU cannot oversleep |
| CPU multiplier and GTE timing (`cpu_instructions.c`) | completion ticks | issue, use | an absolute comparison on a counter that wraps | a result is waited for exactly as long as it takes |
| CD-ROM controller (`cdrom.c`, `cdrom_commands.c`) | command register, interrupt flag, second response owed, drive, head | guest writes, command, drive and second-response events | three events share one interrupt flag that the guest clears late and bit by bit | nothing owed is forgotten, no interrupt overwritten, no sector lost |
| CD-ROM reader thread (`cdrom_disc.c`) | request, sector, busy, shutdown | queue, poll, unpoll, read, publish, eject | the mutex is released while the disc is read | never another sector's bytes; no lost wake-up; eject ends |
| CPU pipeline (`cpu_execution.c`, `cpu_exceptions.c`) | delay slots, PC, COP0 | step, exception | load delay × branch delay × interrupt | the value that lands is the one hardware lands |
| Timers (`timers.c`) | counter base, mode, flags | read (catch up), write, gate, event | many periods crossed in one catch-up | closed form equals stepwise |
| Serial port, pads, cards (`sio.c`, `controller.c`) | shifter, bus phase, card step, dirty flag | register writes, shift event, save | deselect with a shift in flight; crash during a save | bytes are not mixed; a saved card is old or new, never half |
| MDEC (`mdec.c`) | two FIFOs, command state | write, DMA in and out, execute | both DMA halves and the decoder wait for each other | no deadlock before the last block |
| CPU instruction cache and arithmetic (`cpu_icache.c`, `cpu_instructions.c`, `cpu_mem.h`) | lines with a valid bit per word; HI and LO | fetch, isolated stores, division, unaligned words | a cache that is not coherent; the edges of the integers | the very address, no older than the last flush; exact results |
| SPU (`spu*.c`) | voices, ring, IRQ address | register and DMA writes, catch-up, callback | the ring is shared with the audio callback without a lock; IRQ9 watches voices nobody hears | samples in order, none read before it is written; an armed trap is sprung |
| Audio stretching (`spu_stretch.c`, `main.c`) | levels of ring, input and output, tempo | callback, pacing loop | the ring is the clock of the whole machine | silence only when dry; the loop is always released |
| GPU (`gpu*.c`, `vram.c`) | GP0 state, two copies of VRAM, draw settings, display registers | GP0, GP1, GPUREAD, tick | commands split over any number of words; the renderer ahead of the CPU's copy; settings kept twice | every command consumes its own words; no stale pixel; each primitive drawn as asked; a rectangle that exists |
| Renderers (`renderer_gl.c`, `vk/`) | two frame slots, read-back requests | submit, replay, read back, stop | read-back in mid frame from the slot being written | no slot written while replayed; no operation executed twice |
| Save states (`savestate.c`) | all of the above | save, load | written at any moment, loaded into another machine state | a loaded machine goes on |
| Disc layout (`cdrom_disc.c`) | table of tracks, patched sectors | load a sheet, read a sector, report subchannel Q | pregaps inside and outside the files | data and Q of every sector are the sheet's |
| GTE, CD audio, ECM, BIOS calls, host, debugger, logging | - | arithmetic, parsing, host I/O | little order, much data | see section 8 |

How they interact: a device raises its line with `interconnect_set_irq_line`,
`interconnect_request_irq` or `interconnect_trigger_cdrom_irq`; it is driven by the
scheduler through the table `evq_handlers`; DMA pulls and pushes the words of the
GPU and the MDEC; the CD-ROM controller polls the reader thread once per
sector; a store that schedules an event shortens the CPU's `downcount`.

`PROJECT.json` lists the components with their status, and the hazards at their
lines.

## 2. Plan

A component is modelled in a module of its own, the most order-sensitive first:
interrupts, DMA, the event queue and the CD-ROM side (with their proofs), then
timers, the CPU's pipeline, the render thread, the audio ring, the serial bus and
what it saves, MDEC, GPU and save states. All of that is written. Components that
share state are composed: `Dma`, `IrqDevices` and `Timers` stand on `Irq`, `Gp0` on
`Vram`, `Cdrom` on the promise `SectorSource` that `CdromReader` implements, `SpuRing`
implements `AudioQueue`.

What is left, most useful first:

1. `Cdrom`: the parameter, response and data FIFOs, and the sector buffers.
2. `RenderThread`: the asynchronous read-back and its index flip.
3. `Mdec` composed with `Dma` in place of the free choice `Dma` has for readiness; each
   is written against the other's interface now.

## 3. Modules and the code

### Interrupts, DMA, events

**`Irq`** holds the interrupt registers as a record and one operator per entry point
of `bus_irq.c`: `RaiseLine`/`LowerLine` (`SetIrqLine`), `TriggerLine` for the CD-ROM,
`PulseLine` for the SIO, and the guest's `WriteIStat` (which brings down the lines of
the bits it clears) and `WriteIMask`.

**`IrqDevices`** has one action per kind of requester: latched lines (VBlank, timers,
with the timer's guard on a pending bit), lines with a device flag (GPU, SPU, each
with its own acknowledge and the GPU's reset, which forgets the line), the SIO's
pulse and the CD-ROM's trigger. `owed` is history: what was requested since the
guest last cleared the bit.

**`Dma`** keeps the machine's state in one record `inter` as the code does in
`struct Interconnect`, and translates each function to an operator from states to
states, so that a handler that calls five functions is their composition in the
code's order. One action per register write (`WriteMadr`, `WriteBcr`, `WriteChcr`,
`WriteDpcr`, `WriteDicr`), the I_STAT write, and the two slice events. `WriteChcr`
contains everything the store does: the abort, the drain of a transfer in flight,
the new transfer. RAM is reduced to what the control flow sees: for each node
where a slice that starts there stops (`SliceEnd`), and where the list ends
(`ListEnd`), including lists that leave RAM, whose packet leaves RAM, or that never
end. The MDEC's readiness is a free choice at each slice. `guest_madr` is
history.

**`EventQueue`** has the clock, the queue and the CPU's `downcount`; the dispatch is
modelled one slot of the scan at a time with the snapshot of pending events that
the code takes. Handlers are what they schedule and charge. An instruction
charges fetch cycles before and its own cycle and stalls after its effect; an
exception skips the second part, as `cpu_step` does. `Restore` is what
`savestate_load` does to the queue. `backlog` is history: the exact distance to each
target, without modulus.

**`Timers`** is one root counter. Its value is not stepped in the code but derived
from the cycles since `cycle_start`, so the module keeps `since`, and `due`, the
cycles left until its event. `Cross` is the code's catch-up in one division;
`Stepwise` is the reference, one boundary at a time. Register writes, the four gate
modes, the event and a change of the video mode (which alters the rate of a running
timer) are actions, and each ends with the re-arm the code ends with.

### CPU

**`CpuPipeline`** executes one instruction per step as `cpu_step` does: the branch delay
slot, the two slots of the load delay, the interrupt test, exception entry and
return, and the debugger's breakpoint, pause and single step. The program is chosen in
`Init` and never changes, so a run checks every program over an alphabet.
`Reference` reads the same program with no pipeline at all. `ForwardPrograms` says what
a program must be for that: K0 is left to the handler, branches go forward and end
within two words of the last instruction.

**`Coprocessors`** has the completion ticks of multiplier and GTE, `Stall` as the code
computes it, and as history the cycles each unit really needs (`left`) and whether
the counter has wrapped since.

**`ICache`** has lines of words with their valid bits, fetches that hit, refill or
bypass, and the stores of an isolated cache which FlushCache is made of. Memory
holds a version of each word; `held` is history: the versions a word has had since
its line was last invalidated.

**`CpuAlu`** is division, multiplication, the trapping additions, comparisons, and
LWL/LWR/SWL/SWR as the code splits them, over registers of a few bits.

### Disc

**`SectorSource`** is the promise: a poll for the sector under the head is answered
with "pending" or the truth about that sector. **`CdromReader`** is the thread that
keeps it: each action is one critical section of `struct CdromAsyncReader`, or the
read between two of them; waiting may end spuriously. `PollHit` and `PollMiss` are the
two exits of `cdrom_async_reader_poll`; `Jump` is the controller moving the head;
`Shutdown` and `Join` are an eject. The refinement mapping is the identity on `want` and
`answer`.

**`Cdrom`** has `cd` (the fields of `struct Cdrom` that decide control), `ev` (its three
events) and `guest` (which guest program is at work). The guest's two writes are
`WriteCommand` and `Acknowledge` (of any set of bits); `CommandTick`, `SecondTick` and
`DriveTick` are the three handlers whole, with `Execute`, `Complete`, `ReadSector` and
`PlaySector` for the functions they call, one operator per command. Events due
together run in the order of their slots, and the guest runs when none is due,
as in `cpu_step`. Time is counted in units of `CDROM_MIN_INT_DELAY`, and a deadline is
the time left until it, so the model has no clock and no bound on it. ReadS and
SeekP do what ReadN and SeekL do and are not repeated; `setloc_lba` is only read
while `setloc_pending`, so the two are one field.

**`DiscLayout`** takes a cue sheet (tracks with a file, INDEX 00, INDEX 01 and PREGAP),
makes the table of tracks as `cdrom_disc_load` does, and reads a sector and its
subchannel Q from the table as `cdrom_disc_read_sector` and `cdrom_disc_get_subq` do.
`Pressed` and `PressedQ` are the reference: the disc the sheet describes, written out
sector by sector. `sbi` is the list of patched sectors as the .sbi file has it; the
loader does not sort it, and `sbi_find` searches it by halves, so `Protected` holds lists
that ascend, as the comment at `cdrom_disc.c:483-485` says they do.

### Serial port, cards, MDEC

**`Sio`** is the bus: /CS, the transmit buffer, the byte being shifted, whose event
nothing takes out of the queue again, and the memory card's three commands byte by
byte. `heard` is history: the card packet as the guest sent it. **`Pad`** is the
controller, one byte in and one out, with its modes, configuration, watchdog and
rumble. **`MemoryCard`** is the file: load or create at the start, and the save, one
action per file operation, each of which may fail, with a kill between any two.

**`Mdec`** is the decoder between its FIFOs and the two DMA halves of `bus.c`. The
stream is tokens; the decoder stops wherever the input runs dry and goes on from
there, and the nudge at the end of the output half is part of that half.

### SPU

**`Spu`** is one voice: its walk over the ADPCM blocks, its envelope, the key latches,
the transfer FIFO and IRQ9. **`SpuRing`** is the ring between the mixer and the audio
callback with every load and store of it a step of its own, and the copy a save state
makes; it implements **`AudioQueue`**, a bounded queue of whole samples. The refinement
mapping is the slots from head to tail. **`SpuStretch`** has the levels of ring, input
and output in frames, the stretcher's tempo and hold, and the main loop that makes a
field and waits for the ring to fall.

### GPU and renderer

**`Vram`** has both copies of video memory, each pixel reduced to which copy is newer,
and the map of tiles where the renderer may be ahead. **`Gp0`** frames words into
commands, polylines and image data and moves pixels between the copies; GPUREAD,
the GP1 commands that cut a transfer short and the read-back of a save state are
actions. **`DrawState`** has the guest's settings, the renderer's copy and the four modes
a backend keeps, and one action per kind of primitive. **`Crtc`** has the display
registers, the rectangle they make the renderer show, and the beam, with the
numbers of the code.

**`RenderThread`** has the emulation thread and the GPU thread over two frame slots: a
critical section of `gpu_mutex` is a step, a wait on a condition a state left only by a
signal. Primitives and uploads are numbered in the order they were asked for, and
`drawn` is history: what VRAM has taken, in order.

**`SaveState`** has for each section of the file and of the machine the moment it is
of. `SaveState` writes in place and may stop at any section; `LoadState` goes through the
sections in the code's order and stops at the first that fails.

### Instances

| Module | Extends or instantiates | Why together |
|---|---|---|
| `MCPeripherals` | `IrqDevices`, `Sio`, `Pad`, `MemoryCard`, `Mdec`, `Gp0`, `DrawState`, `Crtc`, `SaveState` | the devices on the bus |
| `MCThreads` | `Spu`, `SpuRing`, `SpuStretch`, `CdromReader`, `DiscLayout` | the other threads, and what they read |
| `MCCore` | `EventQueue`, `Timers`, `Coprocessors`, `CpuPipeline`, `ICache`, `CpuAlu` | the CPU and its clock |
| `MCDmaChannels` | `Dma`, by way of `MCDma` | one controller under two guests, one at a time |

The components of the first three share no state, so it checks them *side by
side*: `subject`, chosen in `Init`, is the component a behaviour is about, and the
others rest in one of their initial states (`Fixed`). The reachable states are the sum
of the components' and not their product, every property sees all states of its own
component, and one that spans components (`TypesOK`) sees all of them. In `MCDmaChannels`
there is one component, and `subject` is the guest that drives it: the GPU's channel or
the two of the MDEC.

## 4. Runs

| Run | States | Question |
|---|---|---|
| `peripherals` | 636,000 | is a request ever lost or invented (`RequestsAreKept`); does a packet keep the length its ID promised (`PacketMatchesItsId`); can a card change otherwise than by a whole packet, or be lost to a failure or a kill (`CardsChangeByWholePackets`, `CardIsSafe`); do decoder and DMA ever all wait (`DecoderFlows`); is a stale pixel ever moved, a word of one command taken for another's, a primitive drawn with another's modes, an impossible rectangle shown (`PixelsAreReal`, `WordsAreAccounted`, `DrawsAreFaithful`, `RegionIsShowable`); is a loaded machine ever a mixture (`LoadsAreWhole`)? |
| `threads` | 295,000 | does an armed IRQ9 fire and a Key Off end in silence (`TrapIsSprung`, `KeyOffSilences`); is the ring a queue (`RingIsAQueue`); is silence played while frames are held, can the pacing loop hang (`SilenceMeansDry`, `PacerReleases`); does the reader keep its promise, answer and end (`KeepsThePromise`, `DiscAnswers`); is each sector the sheet's (`DiscIsThePressed`)? |
| `render` | 577,000 | is VRAM painted in the order asked, each thing once (`VramIsInOrder`); is a slot ever shared or a read-back old (`HandoversAreClean`); does every wait end (`WaitsEnd`)? |
| `dma` | 100,000 | derived flags, line and slices in every state (`ControllerIsSound`, `SlicesAgree`); is a start lost or taken twice (`StartsAreKept`), an end unheard (`EndsAreHeard`), and does a list end (`GpuListEnds`)? |
| `core` | 511,000 | early, late or lost events, and does VBlank keep coming (`ScheduleIsExact`, `EventsKeepTime`); is the catch-up of a timer exact (`TimerIsExact`) and a wait (`ExactWithinOneWrap`); does every program give its result under interrupts and single steps (`ResultIsTheProgram`); is the right word executed (`FetchesThatAddress`); are results exact at the edges (`DataIsExact`)? |
| `cdrom` | 478,000 | everything section 1 asks of the controller (`NothingForgotten`, `NeverOverwritten`, `ReadsAreWhole`, `CommandIsExecuted`) |
| `dma_waits`, `coprocessors_wrap`, `cdrom_seek`, `cdrom_leadout`, `disc_files`, `crtc_tick` | | the disagreements of section 7, in that order |

A property of a run is often the conjunction of named parts, each with its own
comment in the component's module: `NeverStuck` and `OneMacroblockOut` make
`DecoderFlows`, for instance.

Bounds, and why they are enough:

- *Interrupt lines.* Five: a latch, the two status flags (GPU and SPU), the serial
  port's and the CD-ROM's.
- *Serial bus.* Four bytes tell a card packet of either kind, its checksum and anything
  else; a sector has one byte, because every further one does the same. Three
  register writes select, change port and deselect at any moment.
- *Pad.* The seven bytes that mean something to one of its commands; one motor byte.
- *Card file.* Three contents: empty, and two that differ.
- *MDEC.* Eight words put a command, a block's end, padding and plain data in either
  half; the input FIFO of six halfwords fills up; two parameter sizes.
- *GPU.* A VRAM of 4 by 2 pixels in tiles of 2: a square inside one tile and a row that
  wraps around the edge. A command buffer of four words and polylines of three overflow.
  The display uses the real numbers, with a full and an empty range.
- *Save states.* Two moments and two discs: old and new, same and other; the file is cut
  at every section.
- *SPU.* Two blocks in every combination of flags and three writes of the guest: arm,
  key and change. The ring has three slots, so it is empty, half full and full.
- *Stretching.* The real ratios of sequence, seek window, overlap and margin, scaled down; requests of
  7 and 8 frames against fields of 12 never fall into step.
- *Reader.* Three sectors, one unreadable. *Disc.* One image of seven sectors, sheets
  of up to three tracks, five sets of patched sectors; `disc_files` has two files of four.
- *Render thread.* Three primitives or uploads against tables of two batches, one update and
  two vertices, so each of them overflows; two sessions, so the thread is replaced once.
- *DMA.* Three nodes give one slice boundary, one end and one address out of RAM;
  a third slice repeats the second. A BCR of 0 stands for `MaxWords`, so "zero is
  the largest" happens. The MDEC's guest uses transfers of two slices, so one channel
  ends while the other goes on; the one MADR it writes is the last address of RAM, so
  its second slice leaves RAM and the bus error happens. The two channels run the same
  code, so that MADR goes to one and the BCR to the other. The GPU's guest writes the others.
- *Event queue.* Two events are one that is scanned before and one after the one
  that fires; delays of 1 and 7 against instructions of 1 to 7 cycles let an
  event be hit exactly, overshot, and overtaken. The modulus 24 satisfies the
  assumption the code relies on (delays and charges below half the range), which
  is stated as `SaneDelays` and `SaneCharges`.
- *Timers.* A counter of three values, so that target, wrap and zero fall together in
  every way; five modes, with each gate; steps of 1 and 3 cycles cross several
  boundaries at once.
- *Pipeline.* All programs of three instructions over ten, with at most one interrupt
  at any boundary and any pause or single step: a load, what is in its slot, and what
  reads the result. Breakpoints are empty (section 7).
- *Cache.* Two tags, two lines of two words, one store. *Arithmetic.* All pairs of three-bit
  operands.
- *CD-ROM.* `AckDelay`, `Period` and the other delays of 1 to 3 units order the three
  events in every way, ties included. Speeds 1 and 2 stand for 1 to 4, a step
  back of 1 for 4 sectors; the disc's sectors cover data with and without XA
  routing, audio, a report, a change of track and the lead-out. The four guests
  split the command set so that the commands that interfere are issued
  together; each guest issues its commands in any order, for ever. `Damaged` and
  `BadQ` are empty in the configuration: a read past the end already gives an
  unreadable sector.

`CHECK_DEADLOCK` is off in `threads`, where the reader stops after an eject and a disc
is read to its end, and in `disc_files` for the same reason.

## 5. Fairness

- `Dma`: `WF(DmaGpuEvent)`. The CPU keeps retiring instructions and the dispatcher fires
  every due event. `GpuListEnds` supposes that the guest stops starting transfers;
  nothing is assumed of the guest otherwise.
- `EventQueue`: the CPU keeps stepping and a dispatch runs to its end.
- `CdromReader`: the operating system schedules the reader, the drive event polls
  again and again (`cdrom_drive_read_sector` re-arms itself on "pending"), and the
  join returns when the thread has exited. A disc read ends.
- `Cdrom`: time passes, due events are dispatched, and the guest acknowledges every
  interrupt in the end. The last is strong fairness: the guest runs only between
  dispatches, so its write is not enabled all the time. It is an assumption on
  the guest's program, and `CommandIsExecuted` is false without it, as on hardware.
  On a finite disc a read comes to the lead-out and stops, so the run does not
  show that a command is executed while a read goes on for ever.
- `Spu`: output samples are produced, because the main loop catches the SPU up every
  frame. Nothing is assumed of the guest.
- `SpuStretch`: the device keeps calling back, and the emulation loop goes on when it
  may. That the ring then falls is what `PacerReleases` checks.
- `RenderThread`: each thread takes its next step while it has one. A wait on a condition
  has none until it is signalled, so a lost signal is a violation of `WaitsEnd`.

In an instance with several subjects the fairness of a component is stated for the
behaviours it is the subject of.

## 6. Proofs

Constants are arbitrary under the named assumptions of each module: any RAM,
lists and guest words for `Dma`, any disc, delays and guests for `Cdrom`, any even modulus and
any delays and charges small against it for `EventQueue` (`SaneDelays`, `SaneCharges`), any
modulus for `Coprocessors`, any tags and line length for `ICache`, any
sheets and lists of patches for `DiscLayout` with one image file (`OneImage`), any
registers and forward programs for `CpuPipeline` (`ForwardPrograms`, `LoadsAreNumbers`) with no breakpoint set, any even width of
register for `CpuAlu`, any width, rates and modes for `Timers`, any size for `SpuRing`,
any levels whose margin holds what the device asks for at once for `SpuStretch`, any
tables, draws and restarts for `RenderThread`, any video memory, tiles, rectangles,
buffer sizes and settings for `Gp0` and `DrawState`, any bytes for `Pad`, sectors of any
length for `Sio`, FIFOs, tables and macroblocks of any size for `Mdec`, any moments and discs for `SaveState`. The assumptions that close a
CASE (`KnownOperations` of `CpuAlu`, `ModesAreBits` of `Timers`) name the
operations and the mode bits there are.

| Module | Theorems | Argument |
|---|---|---|
| `DmaProofs` | `TypeCorrect`, `MasterFlagIsDerived`, `LineIsFreeToRise`, `NoTransferStranded`, `MasterRiseIsLatched`, `ControllerStaysSound` | `IInv` is `Coherent` (types, the derived flag, the line under the flag, lines under I_STAT) and `Scheduled`. A handler is a composition of operators, so each operator has one lemma that it makes a `Step`: from a coherent state to a coherent one that takes nothing out of I_STAT and latches a rising flag. `Step` is transitive, and handlers follow |
| | `SlicesAlwaysAgree`, `StartsStayKept`, `EndsStayHeard` | `ChannelIInv` adds `Orderly` to `IInv`: every channel is `Sane` (a half of the MDEC in flight belongs to a busy channel with words left, and where the guest's MADR stands the channel still has it) and `Runs` (what is started and enabled is in flight). Four relations say what an operator does to a channel: nothing (`Untouched`), carry its transfer on or end it (`Carried`), start it (`Kicked`), or one turn of the loop of a DPCR write (`Turned`). They chain through the operators, and seven turns make the loop. That an end is heard is part of them (`Settled`): a channel is left in flight, or it is over and its interrupt was given |
| `CoreProofs` | `ScheduleStaysExact`, `NoEventIsEarly` | `QueueIInv`: a target is its event's `backlog` on the wrapping counter (`Exact`); between instructions no event is overdue and `downcount` never outlasts the nearest one (`Ahead`); in a dispatch, what the scan has passed is not due, and the soonest it found is the soonest of those (`Scanned`). `SaneCharges` bounds what the instructions and handlers charge by half the counter, so the code's signed difference is the integers' |
| | `TimersAreExact` | `TimerIInv`: the types, the event armed for the next boundary (`InTimeBy`), and a one-shot that has fired has its enables clear (`OneShot`). For the catch-up, what a walk boundary by boundary has done after k of them is written in closed form (`After`, `Rang`) and holds at every step, because there is no least step at which it fails; `Cross` is the same form |
| | `DataStaysExact` | quotient and remainder are unique; a product taken by its halves is the product; the bytes of an unaligned word are exactly those of the halves already done, in any order (`WordIInv`) |
| | `FetchesAreTrue` | `CacheIInv`: every valid word of a line is a version its address has held since the line was last invalidated, and so is what is in memory; a hit uses the first, a refill or a bypass the second |
| | `TypeCorrect`, `WaitIsExact` | `TypeOK /\ ExactWithinOneWrap` is inductive: the history variable `wrapped` says for which units the subtraction of the code is a subtraction of integers, and there it counts down with `left` |
| | `ResultStaysTheProgram` | a simulation of the reference (`PipeIInv`): the Cpu is at the instruction the reference has come to, with registers that are the reference's once the load in flight has landed (`InProgram`), or at one of the handler's five stages on its way back to one (`InHandler`). Every instruction takes it one further, a trap too; an interrupt leaves it where it is, or in a slot puts it back on the branch, which changed no register. The reference ends because its place always grows |
| | `UnitsKeepTheirTypes`, `UnitsAreSound` | a behaviour of `MCCore` is one of every unit (`UnitsSideBySide`: the subject takes its own steps and the others stutter), so what is proved of the units holds of the whole. The types of the pipeline do without the reference: `Somewhere` says where the Cpu may stand, in the program (`OnProgram`) or in the handler with a place to go back to (`OnHandler`), so it never leaves the program counters there are, whatever the program does with its loads. `OwnBreakpoints`, the hypothesis of the first, is that no breakpoint is set in the handler: a stop leaves its instruction out (section 7), and without its `jr` or `rfe` the handler runs off its end, where the model has no words. Those of the ALU rest on `OutcomeFits`: whatever the operands, an outcome is HI and LO, a register or a trap |
| `ThreadProofs` | `TypeCorrect`, `NoWakeupIsLost`, `BusyMeansReading`, `ReaderImplementsSource` | the refinement rests on two facts no property states: between read and publish the thread's locals tell the truth about its own `lba` (`LocalsAreTrue`), and the shared buffer holds the sector of its tag (`BufferIsTagged`) |
| | `SlotsNeverMeet`, `RingImplementsQueue` | what each thread knows without a lock (`Claims`): the mixer has seen room and only it moves the tail, the callback has seen a sample and only it moves the head; so what either has copied is still the truth (`Written`, `CopiedOut`). Each step then is a step of `AudioQueue` or a stutter, over sequences of any length |
| | `SilenceIsDry` | `HoldIsEnough`: what a callback has pulled, unless the ring ran dry, with what was left over is enough for a block, so it can fill one as long as it owes the device frames. `OneBuffer`, the theorem's hypothesis, is that a request is no longer than the margin and a block; section 7 says what the code opens the device with |
| | `DiscStaysThePressed`, `ThreadsKeepTheirTypes`, `ThreadsAreSound` | a behaviour of `MCThreads` is one of every component (`ThreadsSideBySide`), so what is proved of each holds of the whole. The types of the voice rest on the envelope: a step moves the volume and the rate's divider within `Levels` and `Waits`, whichever of the rates `2^k` it has. `DiscProofs` is instantiated with the constants `MCThreads` gives the disc, and `SameDisc` says that the two instances mean the same. `PlainDisc`, the hypothesis, is that PREGAPs are lengths and that an `.sbi` ascends |
| `CdromProofs` | `TypeCorrect`, `NothingOwedIsForgotten`, `DriveNeverStalls`, `NothingIsForgotten`, `InterruptsAreNeverOverwritten` | `IInv == TypeOK /\ OwedIsQueued /\ DriveIsDriven`: the second response's event is queued only if one is owed, so `Complete` is never called on none, which keeps `drive_state` and the queue together; one lemma per command group. `NeverOverwritten` follows step by step |
| | `ReadsStayWhole` | `HeadFollows`, inductive with `IInv`: while the drive reads on, its next sector is the one after the last. Every other step leaves the head alone (`Undisturbed`) or ends the read with an interrupt of its own |
| `PeripheralProofs` | `TypeCorrect`, `NoLineStuckHigh`, `EveryRequestIsLatched`, `NoRequestIsForgotten` | inductive together: `NoRequestLost` needs a raised line that makes no edge to be pending already, which is `HighLineIsPending`; the guest's write takes line and bit down together |
| | `CardSurvives` | what is about to be renamed is the whole card (`Staged`), and until the first save has made its copy the file is the one the session found, afterwards the copy is (`CopiedFirst`); the two are inductive with `CardIsSafe` |
| | `CardsAreWrittenWhole` | a card that is addressed is at the step that the bytes the guest has sent have led to (`Tracked`) |
| | `PacketsAreWhole` | as many bytes of a packet have been sent as the pad's step says, and its ID is the mode its bytes are answered in as long as nobody switches the mode from outside (`PacketIsTracked`) |
| | `LoadingIsWhole` | `SaveTypeOK /\ LoadedIsTheSaved` is inductive; a load is compared with the order of its sections |
| | `DecoderAlwaysFlows` | `MdecIInv`: between two steps the decoder is `Rested`, within its FIFO and dry. A turn either makes `Size` smaller, which counts the halfwords left and the state to leave, or stops with the decoder dry; there are more turns than `Size` can be, so the loop ends dry. The halves of a DMA are walks that keep it, word by word |
| | `PeripheralsKeepTheirTypes`, `PeripheralsAreSound` | a behaviour of the instance is one of every device (`SideBySide`: the subject takes its own steps and the others stutter), so what is proved of the devices holds of the whole |
| `GpuProofs` | `DrawingIsFaithful` | every kind of primitive pushes all the settings that what it draws depends on, so `DrawIInv` needs only the types and the last push |
| | `RegionExists` | `CrtcIInv`: the registers hold what can be written to them and the last rectangle was inside VRAM; whatever the ranges, the arithmetic of `Region` is bounded on both sides |
| | `WordsAreFramed`, `TransfersAreReal` | `Gp0IInv`: as many words are awaited as the command or image under way still lacks (`Framed`), and the two copies of VRAM differ only where a tile is marked or the upload under way has put pixels (`Pictured`) |
| `RenderThreadProofs` | `HandoversStayClean` | `Protocol` says where each thread may stand, given `frames_pending` and the request for a read-back: the GPU thread has the write slot only while the other sleeps on it, the other slot only while a frame is pending. `Accounted` counts: all that was asked for is drawn, lost, in the open batch, or in a slot and not yet run; so once the slot has run out, with the batch closed and no frame pending, nothing is left to draw |
| | `OrderIsKept` | `Queue`: what is drawn, what is in the slots and what is in the open batch ascend, one after the other, so with `Accounted` nothing older than the last thing drawn is still in hand |
| `DiscProofs` | `OneImageReadsAsPressed`, `TableIsOnTheDisc` | `DiscIInv`: the sheet climbs (`Climbs`) and the table is the one made of it. The track i of the sheet ends where the gap of track i + 1 begins (`EndOf`, `StartOf`, `LengthsAdd`), and pieces joined by `FlattenSeq` lie at the sums of the lengths before them (`FlattenHolds`); so a sector is in the body of the track the table finds for it, or in the gap before the next (`SectorLies`), and in each case both sides are the same sector. `sbi_find` is right for a span if it is for every shorter one (`HalvingKeeps`). `OneImage`, the hypothesis, is a dump in one file that is not ECM: with several files the property is false (section 7) |

Two theorems are refinements, from code to promise: `ReaderImplementsSource` and
`RingImplementsQueue`.

Only model-checked:

- liveness (`GpuListEnds`, `EventsKeepTime`, `DiscAnswers`, `CommandIsExecuted`, `TrapIsSprung`,
  `KeyOffSilences`, `PacerReleases`, `WaitsEnd`), which needs fairness and `ENABLED`, out of
  the prover's reach; of `EventsKeepTime` the safety half is the theorem `NoEventIsEarly`.

Every invariant and every safety action property of the passing runs is a theorem, under the
hypotheses the table names (`OneImage`, `OneBuffer`, no breakpoint).

## 7. Where code and comments disagree

1. **A waiting channel loses its start** (`dma_waits`). The comment at `bus.c:320`
   says a channel started with its DPCR enable off waits. An abort leaves the
   slice event queued; when it fires, `dma_gpu_run_slice` finds nothing in flight,
   reports the end, and the completion clears the enable bit of the channel that
   waits, with an interrupt for a transfer that never ran.
2. **Waits around a wrap** (`coprocessors_wrap`). `cpu_cycle_counter <
   completion_tick` is absolute: near 2^32 the wait is skipped, and a tick from before
   a wrap can stall the CPU for up to 2^32 cycles.
3. **A seek that never ends** (`cdrom_seek`). `SeekL`, acknowledge, then `GetID` (or
   MotorOn, ReadT, ReadTOC) before the INT2: the one slot for the second response
   is overwritten, the seek's completion never runs, and Pause and GetlocL answer
   error 80h for ever, however often the guest retries as `cdrom.h:275-281` expects.
4. **The end of the disc is silent** (`cdrom_leadout`). The sector past the end is
   polled, and fails, before the code compares its address with the lead-out; the
   INT4 of `cdrom_commands.c:1155` is never sent.
5. **A PREGAP is ignored with one file per track** (`disc_files`). `cdrom_disc.c:127-131`
   says that ignoring PREGAP lines "put every following track at the wrong disc
   address"; the branch for several files (`cdrom_disc.c:236-257`) does ignore them.
6. **The scanline stands still** (`crtc_tick`). `gpu.c:256` says "at least 1 scanline per
   call"; the only caller passes a frame of 566,203 cycles, 263 lines of NTSC, which is
   the total the counter wraps at. So `in_vblank` never changes either, nor Timer
   1's gate (`gpu.c:287`).

Seen while modelling, and not stated as properties of a run:

- *CPU.* A breakpoint returns after the PC has moved on and before the instruction is
  decoded (`cpu_execution.c:140-171`), and none of the ways to go on steps back: the
  instruction is left out. `Breakpoints = {1}` shows it in `ResultIsTheProgram`.
  `step_skip_bp` stays set when the step takes an interrupt. After an interrupt in a
  branch delay slot `branch_taken` survives into the handler's first instruction.
- *DMA.* A kick of channel 2 over a list in flight ends with the drained list's
  completion clearing the enable bit just written (`bus.c:1242-1269` against
  `bus.c:1233`). GPU slices charge `cpu_mem_stall_cycles` outside an instruction, against
  `interconnect.h:190-191`. A BCR of 0 asks for 2^32 words, whose product wraps to 0.
- *Serial port.* A remap by 4Dh leaves a running motor unmapped (`sio.c:960-970`);
  deselecting does not end the packet (`sio.c:811-812`), which is why a stale shift can
  still be part of it.
- *GPU.* GP0 words sent while a C0h store is being read are kept in the buffer and never
  leave it; the seventeenth ends the process. After GP1(00) the renderer keeps the old
  settings until the next primitive or setting (`gpu.c:712-716`). Polylines never dither
  (`gpu_commands.c:1056`). Bit 25 of GPUSTAT, once set by the first of two assignments, is not
  taken back by the second (`gpu.c:530-549`).
- *Save states.* A save truncates the slot before it writes, so a full disk loses the old
  state too; `main.c` reports success whether or not the load was refused;
  `savestate_save` reads the SPU without the audio lock.
- *SPU.* An exponential release never reaches "off", only the volume 0. Key On and Key Off
  latched in the same sample end in Key On. Halfwords written to the FIFO in transfer mode Stop are
  overtaken by a DMA. `sample_buf_count` is changed by both threads and only shown in the
  debugger. The device is opened for chunks of 1024 frames (`main.c:467`) while the
  hint is 512 (`main.c:492`): with requests of a whole chunk `SilenceMeansDry` does not hold,
  because the stretcher is asked for more than its working set.
- *Disc.* In a sheet with several files, INDEX 00 at 00:00:00 cannot be told from none, and two
  tracks in one of the files are each counted with the whole file. An ECM image with several
  tracks in one file reads each from the start of the file. A PREGAP of track 1
  reports index 1 and a relative address of 0. The product in the seek time
  (`cdrom_disc.c:628`) exceeds 32 bits for seeks beyond 9,511 sectors.

## 8. Not modelled

- *Data without control*: GTE arithmetic, ADPCM and XA decoding, mixing and
  resampling, rasterisation, shaders, error-correction codes. Bounded checks of
  such functions are what the unit tests in `tests/` do already.
- *Parsing and host I/O*: the text of cue sheets, ECM, PCDRV, BIOS calls, configuration,
  logging, the window, input and the debugger's tools.
- *Vulkan*: one thread, whose order is kept by fences of the driver.
- *CD-ROM*: parameter, response and data FIFOs, sector buffers (a guest that acknowledges
  INT1 before it reads sees the next buffer), volumes and mute, the reset line,
  `read_after_seek` and `play_after_seek` (never set), and the `ZS1_XA_HOLD` switch.
- *DMA*: the words moved, the `ZS1_DMA_STALL` accounting (only costs), OTC contents.
- *Serial port*: the multitap, buttons, sticks and the bytes received.
- *Renderer*: the asynchronous read-back, and what the GL calls draw.
- *SPU*: the other voices, noise, sweeps and reverb, which share only IRQ9 with the one modelled.
- *Memory order*: the steps of two threads interleave; the acquire and release pairs of
  the ring and the mutexes justify that for the data they guard.
- *Third-party code*, tests, tools and deployment files.
