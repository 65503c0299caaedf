------------------------------- MODULE ICache -------------------------------
(***************************************************************************)
(* The instruction cache (src/cpu/cpu_icache.c) and the stores of an       *)
(* isolated cache, which the BIOS's FlushCache is made of                  *)
(* (src/cpu/cpu_instructions.c).                                           *)
(*                                                                         *)
(* An address is <<tag, line, word>>.  Memory holds a version of each      *)
(* word.  The cache is not coherent: a store, or a DMA, leaves what is     *)
(* cached.  `held' is history: the versions each word has held since its   *)
(* line was last invalidated.                                              *)
(***************************************************************************)
EXTENDS Naturals

CONSTANTS
  Tags, CacheLines,  \* the high part of an address and its cache line
  LineWords,    \* ICACHE_LINE_WORDS
  MaxStores     \* bound: how often memory is written

ASSUME ICacheConstants == Tags # {} /\ {LineWords, MaxStores} \subseteq Nat

Words     == 0..(LineWords - 1)
CodeAddresses == Tags \X CacheLines \X Words

VARIABLES
  icache,   \* Cpu.icache: tag, valid[], data[] of every line
  memory,   \* the version each address holds
  isolated, \* SR bit 16
  stores,   \* history: writes to memory so far
  held,     \* history: versions since the last invalidation
  fetched   \* history: the last word cpu_icache_fetch returned, and for what

icache_vars == <<icache, memory, isolated, stores, held, fetched>>

Line(a) == a[2]
Word(a) == a[3]
(* What a fetch of address a brings from the bus.                          *)
InMemory(a) == <<a, memory[a]>>

ICacheInit ==
  /\ icache = [l \in CacheLines |-> [tag |-> CHOOSE t \in Tags : TRUE,
                                valid |-> [w \in Words |-> FALSE],
                                data |-> [w \in Words |-> <<>>]]]
  /\ memory = [a \in CodeAddresses |-> 0]
  /\ isolated = FALSE
  /\ stores = 0
  /\ held = [a \in CodeAddresses |-> {0}]
  /\ fetched = {}

ICacheTypeOK ==
  /\ \A l \in CacheLines : /\ icache[l].tag \in Tags
                      /\ icache[l].valid \in [Words -> BOOLEAN]
                      /\ DOMAIN icache[l].data = Words
  /\ memory \in [CodeAddresses -> 0..MaxStores]
  /\ isolated \in BOOLEAN
  /\ stores \in 0..MaxStores
  /\ held \in [CodeAddresses -> SUBSET (0..MaxStores)]
-----------------------------------------------------------------------------
IsHit_AnyWord(a) == icache[Line(a)].tag = a[1]

IsHit(a) == icache[Line(a)].tag = a[1] /\ icache[Line(a)].valid[Word(a)]

(* A miss: the line takes the tag, the missed word and those after it come *)
(* from memory, those before it are no longer valid.                       *)
Refilled_KeepsEarlier(a) ==
  [tag   |-> a[1],
   valid |-> [w \in Words |-> icache[Line(a)].valid[w] \/ w >= Word(a)],
   data  |-> [w \in Words |-> IF w >= Word(a) THEN InMemory(<<a[1], a[2], w>>)
                              ELSE icache[Line(a)].data[w]]]

Refilled(a) ==
  [tag   |-> a[1],
   valid |-> [w \in Words |-> w >= Word(a)],
   data  |-> [w \in Words |-> IF w >= Word(a) THEN InMemory(<<a[1], a[2], w>>)
                              ELSE icache[Line(a)].data[w]]]

(* cpu_icache_fetch.                                                       *)
Fetch(a) ==
  LET line == IF IsHit(a) THEN icache[Line(a)] ELSE Refilled(a)
  IN /\ icache' = [icache EXCEPT ![Line(a)] = line]
     /\ fetched' = {<<a, line.data[Word(a)]>>}
     /\ UNCHANGED <<memory, isolated, stores, held>>

(* The same through KSEG1: the cache is neither asked nor filled.          *)
FetchUncached(a) ==
  /\ fetched' = {<<a, InMemory(a)>>}
  /\ UNCHANGED <<icache, memory, isolated, stores, held>>

Written(a) ==
  /\ stores < MaxStores
  /\ memory' = [memory EXCEPT ![a] = stores + 1]
  /\ stores' = stores + 1
  /\ held' = [held EXCEPT ![a] = @ \cup {stores + 1}]
  /\ UNCHANGED <<icache, isolated>>

Invalidated_OneWord(a) == [icache[Line(a)] EXCEPT !.valid[Word(a)] = FALSE]

Invalidated(a) == [icache[Line(a)] EXCEPT !.valid = [w \in Words |-> FALSE]]

(* op_sw, op_sh, op_sb.  To an isolated cache the store only invalidates   *)
(* the line its address names, whatever the line's tag.                    *)
StoreTo(a) ==
  /\ fetched' = {}
  /\ IF isolated
     THEN /\ icache' = [icache EXCEPT ![Line(a)] = Invalidated(a)]
          /\ held' = [b \in CodeAddresses |->
                        IF Line(b) = Line(a) THEN {memory[b]} ELSE held[b]]
          /\ UNCHANGED <<memory, isolated, stores>>
     ELSE Written(a)

(* A DMA into memory, isolated or not.                                     *)
DmaInto(a) == isolated /\ Written(a) /\ fetched' = {}

(* op_mtc0 to SR.                                                          *)
Isolate == /\ isolated' = ~isolated
           /\ fetched' = {}
           /\ UNCHANGED <<icache, memory, stores, held>>

ICacheNext == \/ \E a \in CodeAddresses : Fetch(a) \/ FetchUncached(a)
              \/ \E a \in CodeAddresses : StoreTo(a) \/ DmaInto(a)
              \/ Isolate
ICacheSpec == ICacheInit /\ [][ICacheNext]_icache_vars
-----------------------------------------------------------------------------
(* The CPU executes what that very address has held since its line was     *)
(* last invalidated: never a word of another address with the same line,   *)
(* never a word older than the guest's FlushCache.                         *)
FetchesThatAddress ==
  \A f \in fetched : \E v \in held[f[1]] : f[2] = <<f[1], v>>
=============================================================================
