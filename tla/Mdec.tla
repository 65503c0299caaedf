--------------------------------- MODULE Mdec ---------------------------------
(***************************************************************************)
(* The macroblock decoder of src/core/mdec.c between its two FIFOs, with   *)
(* the two DMA halves of bus.c that feed and drain it.  Decoding goes on   *)
(* from wherever the input ran dry, so a command, a block or a run of      *)
(* padding may be cut anywhere.                                            *)
(*                                                                         *)
(* A halfword of the stream is a token: the halves of a command word, the  *)
(* padding FE00h (which inside a block is the code that ends it), or MID,  *)
(* a code that does not.  Coefficients, IDCT and colour are left out.      *)
(***************************************************************************)
EXTENDS Naturals, Sequences

CONSTANTS
  InCapacity,       \* MDEC_IN_FIFO_HW
  NumBlocks,        \* MDEC_NUM_BLOCKS
  TableWords,       \* parameter words of MDEC(2): one table; MDEC(3) takes two
  OutWords,         \* words of a macroblock, by depth
  MdecWords,        \* the words a guest sends, as pairs of halfwords
  MaxDma,           \* longest DMA transfer
  MdecSlice         \* MDEC_SLICE_WORDS

Depths  == {"MONO", "COLOR"}
Decodes == Depths                                    \* MDEC(1), by its depth bits
Tokens  == Decodes \cup {"QT", "SCALE", "NOP"} \cup {"0", "1", "2"} \cup {"PAD", "MID"}

ASSUME MdecConstants ==
  /\ {InCapacity, NumBlocks, TableWords, MaxDma, MdecSlice} \subseteq Nat \ {0}
  /\ OutWords \in [Depths -> Nat \ {0}]
  /\ MdecWords \subseteq Tokens \X Tokens
  /\ 4 * TableWords <= InCapacity

VARIABLES mdec,     \* struct Mdec and the status bits kept outside it
          half      \* words left to the DMA halves in flight

mdec_vars == <<mdec, half>>

MdecState == [state : {"IDLE", "DECODING", "SET_QTABLE", "SET_SCALE"}, depth : Depths,
              in : Seq(Tokens), out : Nat, remaining : Nat, block : 0 .. NumBlocks,
              inside : BOOLEAN, low16 : {"ZERO", "COUNT", "NONE"}]

MdecTypeOK ==
  /\ mdec \in MdecState
  /\ Len(mdec.in) <= InCapacity
  /\ half \in [{"IN", "OUT"} -> 0 .. MaxDma]

Number(t) == CASE t = "1" -> 1 [] t = "2" -> 2 [] OTHER -> 0

NewBlock(m) == [m EXCEPT !.block = 0, !.inside = FALSE]

(* One turn of the loop in mdec_execute or in mdec_decode_rle gives the    *)
(* decoder and whether the loop goes on.                                   *)
More(m) == [m |-> m, go |-> TRUE]
Stop(m) == [m |-> m, go |-> FALSE]

(* MDEC_ST_IDLE: a command word; MDEC(0) and MDEC(4..7), which is what     *)
(* padding reads as, take no parameters.                                   *)
Command(m) ==
  LET lo == m.in[1]
      hi == m.in[2]
      n  == CASE hi \in Decodes -> Number(lo)
              [] hi = "QT" -> TableWords + (IF lo = "1" THEN TableWords ELSE 0)
              [] OTHER -> 2 * TableWords
      c  == [m EXCEPT !.in = SubSeq(@, 3, Len(@)), !.out = 0,
                      !.depth = IF hi \in Depths THEN hi ELSE "MONO"]
      new == CASE hi \in Decodes -> "DECODING" [] hi = "QT" -> "SET_QTABLE" [] OTHER -> "SET_SCALE"
  IN IF Len(m.in) < 2 THEN Stop(m)
     ELSE IF hi \notin Decodes \cup {"QT", "SCALE"} THEN More([c EXCEPT !.low16 = "COUNT"])
     ELSE More([c EXCEPT !.state = new, !.remaining = 2 * n, !.low16 = "NONE"])

(* mdec_handle_set_qtable and mdec_handle_set_scale.                       *)
Table(m) ==
  IF Len(m.in) < m.remaining THEN Stop(m)
  ELSE More([m EXCEPT !.in = SubSeq(@, m.remaining + 1, Len(@)), !.remaining = 0,
                      !.state = "IDLE"])

(* mdec_decode_macroblock returned false: the stream may have ended.       *)
NotDecoded(m) ==
  IF m.remaining = 0 /\ m.block < NumBlocks THEN More([NewBlock(m) EXCEPT !.state = "IDLE"])
  ELSE Stop(m)

(* mdec_copy_out_block.                                                    *)
CopyOut(m) ==
  Stop([NewBlock(m) EXCEPT !.out = @ + OutWords[m.depth],
                           !.state = IF m.remaining = 0 THEN "IDLE" ELSE "DECODING"])

BlockDone(m) ==
  IF m.depth = "MONO" THEN CopyOut(m) ELSE More([m EXCEPT !.block = @ + 1, !.inside = FALSE])

(* mdec_decode_rle, one halfword: padding is skipped before a block and    *)
(* ends it within.                                                         *)
Rle(m) ==
  LET n == Head(m.in)
      p == [m EXCEPT !.in = Tail(@), !.remaining = @ - 1]
  IN IF m.in = <<>> \/ m.remaining = 0 THEN NotDecoded(m)
     ELSE IF ~m.inside THEN More(IF n = "PAD" THEN p ELSE [p EXCEPT !.inside = TRUE])
     ELSE IF n = "PAD" THEN BlockDone(p) ELSE More(p)

Macroblock_NoDrain(m) ==
  IF m.block = NumBlocks THEN CopyOut(m) ELSE Rle(m)

(* mdec_decode_macroblock: mono waits for the output to drain before the   *)
(* block, colour after the sixth.                                          *)
Macroblock(m) ==
  IF m.depth = "MONO" /\ m.out > 0 THEN NotDecoded(m)
  ELSE IF m.block = NumBlocks THEN IF m.out > 0 THEN NotDecoded(m) ELSE CopyOut(m)
  ELSE Rle(m)

Turn(m) == CASE m.state = "IDLE" -> Command(m)
             [] m.state = "DECODING" -> Macroblock(m)
             [] OTHER -> Table(m)

(* mdec_execute: at most a turn per halfword and one per state change.     *)
Decode(m0) ==
  LET run[k \in 0 .. 2 * InCapacity + NumBlocks + 4] ==
        IF k = 0 THEN More(m0)
        ELSE LET r == run[k - 1] IN IF r.go THEN Turn(r.m) ELSE r
  IN run[2 * InCapacity + NumBlocks + 4].m
-----------------------------------------------------------------------------
Blank == [state |-> "IDLE", depth |-> "MONO", in |-> <<>>, out |-> 0, remaining |-> 0,
          block |-> 0, inside |-> FALSE, low16 |-> "ZERO"]

InputHasSpace(m) == InCapacity - Len(m.in) >= 2      \* mdec_input_has_space
OutputHasData(m) == m.out > 0                        \* mdec_output_has_data

(* mdec_dma_in, and the write of the data register.                        *)
InPush(m, w) == Decode([m EXCEPT !.in = @ \o w])

Pop_NoExecute(m) == IF m.out = 0 THEN m ELSE [m EXCEPT !.out = @ - 1]

(* mdec_dma_out: the last word lets the decoder go on.                     *)
Pop(m) ==
  LET p == [m EXCEPT !.out = @ - 1]
  IN IF m.out = 0 THEN m ELSE IF p.out = 0 THEN Decode(p) ELSE p

(* The two halves of dma_mdec_run_slice.                                   *)
InHalf(m, left, ws) ==
  LET f[k \in 0 .. MdecSlice] ==
        IF k = 0 THEN [m |-> m, left |-> left]
        ELSE LET p == f[k - 1] IN
             IF p.left > 0 /\ InputHasSpace(p.m)
             THEN [m |-> InPush(p.m, ws[k]), left |-> p.left - 1] ELSE p
  IN f[MdecSlice]

OutHalf(m, left) ==
  LET f[k \in 0 .. MdecSlice] ==
        IF k = 0 THEN [m |-> m, left |-> left]
        ELSE LET p == f[k - 1] IN
             IF p.left > 0 /\ OutputHasData(p.m)
             THEN [m |-> Pop(p.m), left |-> p.left - 1] ELSE p
      r == f[MdecSlice]
  IN IF r.left > 0 /\ ~OutputHasData(r.m) THEN [r EXCEPT !.m = Decode(@)] ELSE r
-----------------------------------------------------------------------------
MdecInit == mdec = Blank /\ half = [h \in {"IN", "OUT"} |-> 0]

(* mdec_write of the data register.  The code does not look at the room it *)
(* has; a guest does, in status bit 30.                                    *)
WriteWord(w) ==
  /\ InputHasSpace(mdec)
  /\ mdec' = InPush(mdec, w) /\ UNCHANGED half

ReadData == mdec' = Pop(mdec) /\ UNCHANGED half

(* mdec_write of the control register: reset, or the DMA enables.          *)
WriteControl(reset) ==
  /\ mdec' = IF reset THEN Blank ELSE Decode(mdec)
  /\ UNCHANGED half

(* The guest starts a half, or stops it (dma_cancel_slice).                *)
StartHalf(h, n) == half' = [half EXCEPT ![h] = n] /\ UNCHANGED mdec

(* dma_mdec_resume, while either half is in flight.                        *)
MdecEventSlice ==
  /\ half["IN"] + half["OUT"] > 0
  /\ \E ws \in [1 .. MdecSlice -> MdecWords] :
       LET i == IF half["IN"] > 0 THEN InHalf(mdec, half["IN"], ws)
                ELSE [m |-> mdec, left |-> 0]
           o == IF half["OUT"] > 0 THEN OutHalf(i.m, half["OUT"]) ELSE [m |-> i.m, left |-> 0]
       IN mdec' = o.m /\ half' = [half EXCEPT !["IN"] = i.left, !["OUT"] = o.left]

(* A saved state of an idle decoder forgets its status bits 15 to 0,       *)
(* mdec_state_restored.                                                    *)
MdecRestored == mdec' = [mdec EXCEPT !.low16 = "NONE"] /\ UNCHANGED half

MdecNext == \/ \E w \in MdecWords : WriteWord(w)
            \/ ReadData
            \/ \E reset \in BOOLEAN : WriteControl(reset)
            \/ \E h \in {"IN", "OUT"}, n \in 0 .. MaxDma : StartHalf(h, n)
            \/ MdecEventSlice
            \/ MdecRestored

MdecSpec == MdecInit /\ [][MdecNext]_mdec_vars
-----------------------------------------------------------------------------
(* Whenever the output is empty the decoder has taken all the input it     *)
(* can: less than a command word is left, or less than the table it waits  *)
(* for, or nothing.  So the two DMA halves and the decoder never all wait  *)
(* for each other (bus.c:1161-1168).                                       *)
NeverStuck ==
  mdec.out = 0 =>
    CASE mdec.state = "IDLE" -> Len(mdec.in) < 2
      [] mdec.state = "DECODING" -> mdec.in = <<>>
      [] OTHER -> Len(mdec.in) < mdec.remaining

(* The output holds words of one macroblock only, so a guest that reads    *)
(* slowly gets each one whole, wherever the stream was cut.                *)
OneMacroblockOut == mdec.out <= OutWords[mdec.depth]

(* Decoder and DMA never wait for each other, and what is waiting in the   *)
(* output is one macroblock at most.                                       *)
DecoderFlows == NeverStuck /\ OneMacroblockOut
=============================================================================
