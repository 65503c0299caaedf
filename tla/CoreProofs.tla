---------------------------- MODULE CoreProofs ------------------------------
(***************************************************************************)
(* Proofs about the machine's core, for any widths, sizes and costs:       *)
(* Coprocessors, whose waits are exact within one wrap of the counter,     *)
(* ICache, whose words are all held by the addresses they are fetched for, *)
(* EventQueue, whose schedule is exact, CpuAlu, whose results are the      *)
(* integers' own, Timers, which count what stepping would, and             *)
(* CpuPipeline, which runs a program as it reads; last, MCCore, where      *)
(* every unit keeps its type beside the others.                            *)
(***************************************************************************)
EXTENDS MCCore, WellFoundedInduction, TLAPS

(* Coprocessors.                                                           *)

IInv == TypeOK /\ ExactWithinOneWrap

(* A sum on the counter stays on the counter.                              *)
LEMMA ModRange == ASSUME NEW x \in Nat PROVE x % M \in Cycle
BY CounterRange DEF Cycle

(* A sum that does not wrap is itself.                                     *)
LEMMA ModSmall == ASSUME NEW x \in Nat, x < M PROVE x % M = x
BY CounterRange

(* Costs and latencies are numbers of cycles.                              *)
LEMMA Sizes ==
  /\ M \in Nat /\ M > 0 /\ Cycle \subseteq Nat
  /\ \A n \in Latencies : n \in Nat
  /\ \A c \in Costs : c \in Nat
BY CounterRange, CycleCounts DEF Cycle

(* A wait is a number of cycles.                                           *)
LEMMA StallType ==
  ASSUME TypeOK, NEW u \in Units
  PROVE  Stall(u) \in Nat
<1>1. cpu_cycle_counter \in Nat /\ completion_tick[u] \in Nat
  BY Sizes DEF TypeOK
<1> QED
  BY <1>1 DEF Stall

(* When n cycles pass, every unit that has not wrapped is n cycles nearer  *)
(* to its end, by the code's subtraction as by an exact count.             *)
LEMMA ElapseStep ==
  ASSUME IInv, NEW n \in Nat, Elapse(n), UNCHANGED completion_tick
  PROVE  IInv'
<1>1. cpu_cycle_counter \in Nat /\ cpu_cycle_counter + n \in Nat
  BY Sizes DEF IInv, TypeOK
<1>2. cpu_cycle_counter' \in Cycle
  BY <1>1, ModRange DEF Elapse
<1>3. left' \in [Units -> Nat]
  BY DEF IInv, TypeOK, Elapse, Remaining
<1>4. wrapped' \in SUBSET Units
  BY DEF IInv, TypeOK, Elapse
<1>5. ASSUME NEW u \in Units \ wrapped'
      PROVE  Stall(u)' = left'[u]
  <2>1. cpu_cycle_counter + n < M /\ u \notin wrapped
    BY <1>1, <1>5, Sizes DEF Elapse
  <2>2. cpu_cycle_counter' = cpu_cycle_counter + n
    BY <1>1, <2>1, ModSmall DEF Elapse
  <2>3. completion_tick[u] \in Nat /\ left[u] \in Nat
    BY Sizes DEF IInv, TypeOK
  <2>4. left'[u] = Remaining(left[u], n)
    BY DEF Elapse
  <2>5. left[u] = Stall(u)
    BY <2>1 DEF IInv, ExactWithinOneWrap
  <2> QED
    BY <1>1, <2>2, <2>3, <2>4, <2>5 DEF Stall, Remaining
<1> QED
  BY <1>2, <1>3, <1>4, <1>5 DEF IInv, TypeOK, ExactWithinOneWrap

(* A new operation: an interlocked unit first waits for the one at work.   *)
LEMMA IssueStep ==
  ASSUME IInv, NEW u \in Units, NEW n \in Latencies, NEW cost \in Costs, Issue(u, n, cost)
  PROVE  IInv'
<1> DEFINE spent == IF u \in Interlocked THEN Stall(u) ELSE 0
           begin == cpu_cycle_counter + spent
<1>1. /\ cpu_cycle_counter' = (begin + cost) % M
      /\ completion_tick' = [completion_tick EXCEPT ![u] = (begin + n) % M]
      /\ left' = [v \in Units |-> IF v = u THEN Remaining(n, cost)
                                  ELSE Remaining(left[v], begin - cpu_cycle_counter + cost)]
      /\ wrapped' = IF begin + cost >= M THEN Units
                    ELSE IF begin + n >= M THEN wrapped \cup {u} ELSE wrapped \ {u}
  BY DEF Issue
<1>2. spent \in Nat /\ cpu_cycle_counter \in Nat /\ n \in Nat /\ cost \in Nat
  BY StallType, Sizes DEF IInv, TypeOK
<1> HIDE DEF spent
<1>3. begin \in Nat /\ begin - cpu_cycle_counter + cost \in Nat
  BY <1>2
<1>4. cpu_cycle_counter' \in Cycle /\ (begin + n) % M \in Cycle
  BY <1>1, <1>2, <1>3, ModRange
<1>5. completion_tick' \in [Units -> Cycle]
  BY <1>1, <1>4 DEF IInv, TypeOK
<1>6. left' \in [Units -> Nat]
  <2>1. \A v \in Units : left[v] \in Nat
    BY DEF IInv, TypeOK
  <2>2. \A v \in Units : left'[v] \in Nat
    BY <1>1, <1>2, <1>3, <2>1 DEF Remaining
  <2> QED
    BY <1>1, <2>2
<1>7. wrapped' \in SUBSET Units
  BY <1>1 DEF IInv, TypeOK
<1>8. ASSUME NEW v \in Units \ wrapped'
      PROVE  Stall(v)' = left'[v]
  <2>1. begin + cost < M /\ begin + cost \in Nat
    BY <1>1, <1>2, <1>3, <1>8, Sizes
  <2>2. cpu_cycle_counter' = begin + cost
    BY <1>1, <2>1, ModSmall
  <2>3. CASE v = u
    <3>1. begin + n < M /\ begin + n \in Nat
      BY <1>1, <1>2, <1>3, <1>8, <2>1, <2>3, Sizes
    <3>2. completion_tick'[u] = begin + n
      BY <1>1, <3>1, ModSmall DEF IInv, TypeOK
    <3>3. left'[u] = Remaining(n, cost)
      BY <1>1
    <3> QED
      BY <1>2, <1>3, <2>2, <2>3, <3>2, <3>3 DEF Stall, Remaining
  <2>4. CASE v # u
    <3>1. completion_tick'[v] = completion_tick[v] /\ completion_tick[v] \in Nat
      BY <1>1, <2>4, Sizes DEF IInv, TypeOK
    <3>2. left'[v] = Remaining(left[v], begin - cpu_cycle_counter + cost)
      BY <1>1, <2>4
    <3>3. v \notin wrapped
      BY <1>1, <1>8, <2>1, <2>4
    <3>4. left[v] = Stall(v)
      BY <3>3 DEF IInv, ExactWithinOneWrap
    <3> QED
      BY <1>2, <1>3, <2>2, <3>1, <3>2, <3>4 DEF Stall, Remaining
  <2> QED
    BY <2>3, <2>4
<1> QED
  BY <1>4, <1>5, <1>6, <1>7, <1>8, <1>1 DEF IInv, TypeOK, ExactWithinOneWrap

(* The code's comparison against the counter is an exact count of the      *)
(* cycles a unit still needs, at the boot and after every instruction.     *)
LEMMA SpecIInv == Spec => []IInv
<1>1. Init => IInv
  BY Sizes DEF Init, IInv, TypeOK, ExactWithinOneWrap, Stall, Cycle
<1>2. IInv /\ [Next]_vars => IInv'
  <2> SUFFICES ASSUME IInv, [Next]_vars PROVE IInv'
    OBVIOUS
  <2>1. ASSUME NEW cost \in Costs, Plain(cost) PROVE IInv'
    BY <2>1, ElapseStep, Sizes DEF Plain
  <2>2. ASSUME NEW cost \in Costs, NEW u \in Units, Use(u, cost) PROVE IInv'
    <3>1. Stall(u) + cost \in Nat
      BY StallType, Sizes DEF IInv
    <3> QED
      BY <2>2, <3>1, ElapseStep DEF Use
  <2>3. ASSUME NEW cost \in Costs, NEW u \in Units, NEW n \in Latencies, Issue(u, n, cost)
        PROVE  IInv'
    BY <2>3, IssueStep
  <2>4. CASE UNCHANGED vars
    BY <2>4 DEF vars, IInv, TypeOK, ExactWithinOneWrap, Stall
  <2> QED
    BY <2>1, <2>2, <2>3, <2>4 DEF Next
<1> QED
  BY <1>1, <1>2, PTL DEF Spec

(* The ticks stay on the counter, whose width is any M.                    *)
THEOREM TypeCorrect == Spec => []TypeOK
<1>1. IInv => TypeOK
  BY DEF IInv
<1> QED
  BY <1>1, SpecIInv, PTL

(* Until the counter or the tick wraps, an instruction waits for HI, LO or *)
(* a GTE register exactly as long as the unit still works.                 *)
THEOREM WaitIsExact == Spec => []ExactWithinOneWrap
<1>1. IInv => ExactWithinOneWrap
  BY DEF IInv
<1> QED
  BY <1>1, SpecIInv, PTL

-----------------------------------------------------------------------------
(* ICache.                                                                 *)

(* A word of a line: empty before its first refill, then an address and a  *)
(* version of it.                                                          *)
Copies     == {<<>>} \cup (CodeAddresses \X Nat)
LineStates == [tag : Tags, valid : [Words -> BOOLEAN], data : [Words -> Copies]]

(* A valid word is a copy of the address its line and tag name, of a       *)
(* version that address has held since the line was last invalidated.      *)
CachedWordsAreHeld ==
  /\ icache \in [CacheLines -> LineStates]
  /\ \A l \in CacheLines, w \in Words : icache[l].valid[w] =>
       \E v \in held[<<icache[l].tag, l, w>>] :
          icache[l].data[w] = <<<<icache[l].tag, l, w>>, v>>

MemoryIsHeld == \A a \in CodeAddresses : memory[a] \in held[a]

CacheIInv ==
  /\ ICacheTypeOK /\ fetched \subseteq CodeAddresses \X (CodeAddresses \X Nat)
  /\ CachedWordsAreHeld /\ MemoryIsHeld /\ FetchesThatAddress

LEMMA AddressParts ==
  ASSUME NEW a \in CodeAddresses
  PROVE  /\ Line(a) \in CacheLines /\ Word(a) \in Words /\ a[1] \in Tags
         /\ a = <<a[1], Line(a), Word(a)>>
BY DEF CodeAddresses, Line, Word

LEMMA CacheInit == ICacheInit => CacheIInv
<1> SUFFICES ASSUME ICacheInit PROVE CacheIInv
  OBVIOUS
<1>1. (CHOOSE t \in Tags : TRUE) \in Tags
  BY ICacheConstants
<1>2. CachedWordsAreHeld
  BY <1>1 DEF ICacheInit, CachedWordsAreHeld, LineStates, Copies
<1>3. ICacheTypeOK
  <2>1. 0 \in 0 .. MaxStores /\ {0} \in SUBSET (0 .. MaxStores)
    BY ICacheConstants
  <2>2. /\ memory \in [CodeAddresses -> 0 .. MaxStores] /\ stores \in 0 .. MaxStores
        /\ held \in [CodeAddresses -> SUBSET (0 .. MaxStores)] /\ isolated \in BOOLEAN
    BY <2>1 DEF ICacheInit
  <2>3. \A l \in CacheLines : /\ icache[l].tag \in Tags
                              /\ icache[l].valid \in [Words -> BOOLEAN]
                              /\ DOMAIN icache[l].data = Words
    BY <1>1 DEF ICacheInit
  <2> QED
    BY <2>2, <2>3 DEF ICacheTypeOK
<1>4. MemoryIsHeld /\ FetchesThatAddress /\ fetched \subseteq CodeAddresses \X (CodeAddresses \X Nat)
  BY DEF ICacheInit, MemoryIsHeld, FetchesThatAddress
<1> QED
  BY <1>2, <1>3, <1>4 DEF CacheIInv

(* The line a refill leaves.                                               *)
LEMMA RefilledLine ==
  ASSUME CacheIInv, NEW a \in CodeAddresses
  PROVE  /\ Refilled(a) \in LineStates /\ Refilled(a).tag = a[1]
         /\ \A w \in Words : Refilled(a).valid[w] =>
              Refilled(a).data[w] = <<<<a[1], Line(a), w>>, memory[<<a[1], Line(a), w>>]>>
         /\ Refilled(a).valid[Word(a)] = TRUE
<1>1. /\ Line(a) \in CacheLines /\ Word(a) \in Words /\ a[1] \in Tags /\ Word(a) \in Nat
  BY AddressParts DEF Words
<1>2. icache[Line(a)] \in LineStates
  BY <1>1 DEF CacheIInv, CachedWordsAreHeld
<1>3. \A w \in Words : /\ <<a[1], Line(a), w>> \in CodeAddresses
                       /\ memory[<<a[1], Line(a), w>>] \in Nat
                       /\ <<a[1], Line(a), w>> = <<a[1], a[2], w>>
  BY <1>1, ICacheConstants DEF CodeAddresses, CacheIInv, ICacheTypeOK, Line
<1>4. \A w \in Words : InMemory(<<a[1], a[2], w>>) \in Copies
  BY <1>3 DEF InMemory, Copies
<1>5. Refilled(a) \in LineStates
  BY <1>1, <1>2, <1>4 DEF Refilled, LineStates
<1>6. Word(a) >= Word(a) /\ \A w \in Words : InMemory(<<a[1], a[2], w>>)
                               = <<<<a[1], Line(a), w>>, memory[<<a[1], Line(a), w>>]>>
  BY <1>1, <1>3 DEF InMemory
<1> QED
  BY <1>1, <1>5, <1>6 DEF Refilled

LEMMA FetchKeeps ==
  ASSUME CacheIInv, NEW a \in CodeAddresses, Fetch(a) PROVE CacheIInv'
<1> DEFINE l    == Line(a)
           cl == IF IsHit(a) THEN icache[Line(a)] ELSE Refilled(a)
<1>1. /\ l \in CacheLines /\ Word(a) \in Words /\ a[1] \in Tags /\ a = <<a[1], l, Word(a)>>
  BY AddressParts
<1>2. cl \in LineStates /\ cl.tag = a[1] /\ cl.valid[Word(a)]
  BY <1>1, RefilledLine DEF IsHit, CacheIInv, CachedWordsAreHeld, LineStates
<1>3. \A w \in Words : cl.valid[w] =>
         \E v \in held[<<a[1], l, w>>] : cl.data[w] = <<<<a[1], l, w>>, v>>
  <2>1. CASE IsHit(a)
    BY <1>1, <2>1 DEF IsHit, CacheIInv, CachedWordsAreHeld
  <2>2. CASE ~IsHit(a)
    <3>1. \A w \in Words : memory[<<a[1], l, w>>] \in held[<<a[1], l, w>>]
      BY <1>1 DEF CacheIInv, MemoryIsHeld, CodeAddresses
    <3> QED
      BY <2>2, <3>1, RefilledLine
  <2> QED
    BY <2>1, <2>2
<1>4. icache' = [icache EXCEPT ![l] = cl] /\ fetched' = {<<a, cl.data[Word(a)]>>}
      /\ UNCHANGED <<memory, isolated, stores, held>>
  BY DEF Fetch
<1> HIDE DEF cl, l
<1>5. icache' \in [CacheLines -> LineStates] /\ icache'[l] = cl
      /\ \A k \in CacheLines : k # l => icache'[k] = icache[k]
  BY <1>1, <1>2, <1>4 DEF CacheIInv, CachedWordsAreHeld
<1>6. CachedWordsAreHeld'
  BY <1>2, <1>3, <1>4, <1>5 DEF CacheIInv, CachedWordsAreHeld
<1>7. ICacheTypeOK'
  BY <1>4, <1>5 DEF CacheIInv, ICacheTypeOK, LineStates
<1>8. \E v \in held[a] : cl.data[Word(a)] = <<a, v>>
  BY <1>1, <1>2, <1>3
<1>9. FetchesThatAddress'
  BY <1>4, <1>8 DEF FetchesThatAddress
<1>10. held[a] \subseteq Nat
  BY ICacheConstants DEF CacheIInv, ICacheTypeOK
<1> QED
  BY <1>4, <1>6, <1>7, <1>8, <1>9, <1>10 DEF CacheIInv, MemoryIsHeld

LEMMA WrittenKeeps ==
  ASSUME CacheIInv, NEW a \in CodeAddresses, Written(a), fetched' = {} PROVE CacheIInv'
<1>1. stores \in Nat /\ stores + 1 \in 0 .. MaxStores
  BY ICacheConstants DEF CacheIInv, ICacheTypeOK, Written
<1>2. \A b \in CodeAddresses : held[b] \subseteq held'[b]
  BY DEF CacheIInv, ICacheTypeOK, Written
<1>3. CachedWordsAreHeld'
  <2> SUFFICES ASSUME NEW l \in CacheLines, NEW w \in Words, icache[l].valid[w]
               PROVE  \E v \in held'[<<icache[l].tag, l, w>>] :
                         icache[l].data[w] = <<<<icache[l].tag, l, w>>, v>>
    BY DEF CacheIInv, CachedWordsAreHeld, Written
  <2>1. <<icache[l].tag, l, w>> \in CodeAddresses
    BY DEF CacheIInv, ICacheTypeOK, CodeAddresses
  <2> QED
    BY <1>2, <2>1 DEF CacheIInv, CachedWordsAreHeld
<1>4. ICacheTypeOK'
  <2>1. memory' \in [CodeAddresses -> 0 .. MaxStores]
    BY <1>1 DEF CacheIInv, ICacheTypeOK, Written
  <2>2. held' \in [CodeAddresses -> SUBSET (0 .. MaxStores)]
    BY <1>1 DEF CacheIInv, ICacheTypeOK, Written
  <2> QED
    BY <1>1, <2>1, <2>2 DEF CacheIInv, ICacheTypeOK, Written
<1>5. MemoryIsHeld'
  BY DEF CacheIInv, ICacheTypeOK, MemoryIsHeld, Written
<1> QED
  BY <1>3, <1>4, <1>5 DEF CacheIInv, FetchesThatAddress

(* A store to the isolated cache.                                          *)
LEMMA InvalidateKeeps ==
  ASSUME CacheIInv, NEW a \in CodeAddresses, isolated, StoreTo(a) PROVE CacheIInv'
<1> DEFINE l == Line(a)
<1>1. /\ l \in CacheLines /\ icache[l] \in LineStates
      /\ fetched' = {} /\ icache' = [icache EXCEPT ![l] = Invalidated(a)]
      /\ held' = [b \in CodeAddresses |-> IF Line(b) = l THEN {memory[b]} ELSE held[b]]
      /\ UNCHANGED <<memory, isolated, stores>>
  BY AddressParts DEF StoreTo, CacheIInv, CachedWordsAreHeld
<1>2. /\ Invalidated(a) \in LineStates
      /\ \A w \in Words : ~Invalidated(a).valid[w]
  BY <1>1 DEF Invalidated, LineStates
<1>3. /\ icache' \in [CacheLines -> LineStates] /\ icache'[l] = Invalidated(a)
      /\ \A k \in CacheLines : k # l => icache'[k] = icache[k]
  BY <1>1, <1>2 DEF CacheIInv, CachedWordsAreHeld
<1> HIDE DEF l
<1>4. CachedWordsAreHeld'
  <2> SUFFICES ASSUME NEW k \in CacheLines, NEW w \in Words, icache'[k].valid[w]
               PROVE  \E v \in held'[<<icache'[k].tag, k, w>>] :
                         icache'[k].data[w] = <<<<icache'[k].tag, k, w>>, v>>
    BY <1>3 DEF CachedWordsAreHeld
  <2>1. k # l /\ icache'[k] = icache[k]
    BY <1>2, <1>3
  <2>2. <<icache[k].tag, k, w>> \in CodeAddresses
    BY DEF CacheIInv, ICacheTypeOK, CodeAddresses
  <2>3. Line(<<icache[k].tag, k, w>>) = k
    BY DEF Line
  <2>4. held'[<<icache[k].tag, k, w>>] = held[<<icache[k].tag, k, w>>]
    BY <1>1, <2>1, <2>2, <2>3
  <2> QED
    BY <2>1, <2>4 DEF CacheIInv, CachedWordsAreHeld
<1>5. ICacheTypeOK'
  <2>1. held' \in [CodeAddresses -> SUBSET (0 .. MaxStores)]
    BY <1>1 DEF CacheIInv, ICacheTypeOK
  <2> QED
    BY <1>1, <1>3, <2>1 DEF CacheIInv, ICacheTypeOK, LineStates
<1>6. MemoryIsHeld'
  BY <1>1 DEF CacheIInv, MemoryIsHeld
<1> QED
  BY <1>1, <1>4, <1>5, <1>6 DEF CacheIInv, FetchesThatAddress

LEMMA CacheStep == CacheIInv /\ [ICacheNext]_icache_vars => CacheIInv'
<1> SUFFICES ASSUME CacheIInv, [ICacheNext]_icache_vars PROVE CacheIInv'
  OBVIOUS
<1>1. ASSUME NEW a \in CodeAddresses, Fetch(a) PROVE CacheIInv'
  BY <1>1, FetchKeeps
<1>2. ASSUME NEW a \in CodeAddresses, FetchUncached(a) PROVE CacheIInv'
  <2>1. CachedWordsAreHeld' /\ ICacheTypeOK' /\ MemoryIsHeld'
    BY <1>2 DEF CacheIInv, FetchUncached, CachedWordsAreHeld, ICacheTypeOK, MemoryIsHeld
  <2>2. memory[a] \in held[a] /\ memory[a] \in Nat
    BY ICacheConstants DEF CacheIInv, ICacheTypeOK, MemoryIsHeld
  <2>3. FetchesThatAddress' /\ (fetched \subseteq CodeAddresses \X (CodeAddresses \X Nat))'
    BY <1>2, <2>2 DEF FetchUncached, InMemory, FetchesThatAddress
  <2> QED
    BY <2>1, <2>3 DEF CacheIInv
<1>3. ASSUME NEW a \in CodeAddresses, StoreTo(a) PROVE CacheIInv'
  BY <1>3, InvalidateKeeps, WrittenKeeps DEF StoreTo
<1>4. ASSUME NEW a \in CodeAddresses, DmaInto(a) PROVE CacheIInv'
  BY <1>4, WrittenKeeps DEF DmaInto
<1>5. CASE Isolate
  BY <1>5 DEF Isolate, CacheIInv, CachedWordsAreHeld, ICacheTypeOK, MemoryIsHeld, FetchesThatAddress
<1>6. CASE UNCHANGED icache_vars
  BY <1>6 DEF icache_vars, CacheIInv, CachedWordsAreHeld, ICacheTypeOK, MemoryIsHeld,
              FetchesThatAddress
<1> QED
  BY <1>1, <1>2, <1>3, <1>4, <1>5, <1>6 DEF ICacheNext

(* For any number of tags and lines, and lines of any length: whatever is  *)
(* stored, by the CPU or a DMA, and whatever the guest flushes, the CPU    *)
(* executes a word its address has held since its line was last flushed    *)
(* (cpu_icache_fetch, cpu_icache.c).                                       *)
THEOREM FetchesAreTrue == ICacheSpec => []FetchesThatAddress
<1>1. CacheIInv => FetchesThatAddress
  BY DEF CacheIInv
<1> QED
  BY <1>1, CacheInit, CacheStep, PTL DEF ICacheSpec

-----------------------------------------------------------------------------
(* EventQueue: the schedule is exact, and no event fires before its time.  *)
(* The distances on the counter are half a turn wide, so what is inductive *)
(* is how far behind its time an event may be found: no further than the   *)
(* instruction and the dispatch under way can have charged (SaneCharges).  *)

(* A set of natural numbers has a least.                                   *)
LEMMA LeastOf ==
  ASSUME NEW S, S \subseteq Nat, S # {}
  PROVE  \E m \in S : \A n \in S : m <= n
<1> DEFINE R == OpToRel(<, Nat)
<1>1. IsWellFoundedOn(R, Nat)
  BY NatLessThanWellFounded
<1>2. R = {ss \in Nat \X Nat : ss[1] < ss[2]}
  BY DEF OpToRel
<1> HIDE DEF R
<1>3. PICK m \in S : \A n \in S : ~(<<n, m>> \in R)
  BY <1>1, WFMin
<1>4. ASSUME NEW n \in S PROVE m <= n
  <2>1. n \in Nat /\ m \in Nat /\ <<n, m>> \in Nat \X Nat
    OBVIOUS
  <2>2. ~(n < m)
    BY <1>2, <1>3, <2>1
  <2> QED
    BY <2>1, <2>2
<1> QED
  BY <1>4

Half == CounterModulus \div 2

LEMMA Halves == Half \in Nat /\ Half > 0 /\ CounterModulus = 2 * Half /\ CounterModulus \in Nat \ {0}
BY CounterSize DEF Half

LEMMA WrapIs ==
  ASSUME NEW x \in Int, -CounterModulus <= x, x < 2 * CounterModulus
  PROVE  x % CounterModulus = IF x < 0 THEN x + CounterModulus
                              ELSE IF x < CounterModulus THEN x ELSE x - CounterModulus
<1> DEFINE n == CounterModulus
<1>1. n \in Nat \ {0} /\ -n <= x /\ x < 2 * n
  BY Halves
<1> HIDE DEF n
<1>2. CASE x < 0
  <2>1. x % n = x + n
    BY <1>1, <1>2
  <2> QED
    BY <1>2, <2>1 DEF n
<1>3. CASE x >= 0 /\ x < n
  <2>1. x % n = x
    BY <1>1, <1>3
  <2> QED
    BY <1>3, <2>1 DEF n
<1>4. CASE x >= n
  <2>1. x % n = x - n
    BY <1>1, <1>4
  <2> QED
    BY <1>1, <1>4, <2>1 DEF n
<1> QED
  BY <1>1, <1>2, <1>3, <1>4

(* A difference of two cycles, read with its sign.                         *)
LEMMA SignedIs ==
  ASSUME NEW x \in Int, -CounterModulus <= x, x <= CounterModulus
  PROVE  /\ Signed(x) = IF x < -Half THEN x + CounterModulus
                        ELSE IF x < Half THEN x ELSE x - CounterModulus
         /\ Signed(x) \in -Half .. Half - 1
<1> DEFINE y == x % CounterModulus
<1>1. y = IF x < 0 THEN x + CounterModulus
          ELSE IF x < CounterModulus THEN x ELSE x - CounterModulus
  BY Halves, WrapIs, SMTT(20)
<1>2. Signed(x) = IF y >= Half THEN y - CounterModulus ELSE y
  BY DEF Signed, Half
<1> HIDE DEF y
<1> QED
  BY <1>1, <1>2, Halves

LEMMA DistanceIs ==
  ASSUME NEW t \in CycleOf, NEW c \in CycleOf
  PROVE  /\ Signed(t - c) = IF t - c < -Half THEN t - c + CounterModulus
                            ELSE IF t - c < Half THEN t - c ELSE t - c - CounterModulus
         /\ Signed(t - c) \in -Half .. Half - 1
<1>1. t - c \in Int /\ -CounterModulus <= t - c /\ t - c <= CounterModulus
  BY Halves DEF CycleOf
<1> QED
  BY <1>1, SignedIs

(* The counter and a target move on.                                       *)
LEMMA AdvanceIs ==
  ASSUME NEW c \in CycleOf, NEW k \in Nat, k <= CounterModulus
  PROVE  /\ (c + k) % CounterModulus \in CycleOf
         /\ (c + k) % CounterModulus = IF c + k < CounterModulus THEN c + k ELSE c + k - CounterModulus
<1> DEFINE x == c + k
<1>1. x \in Int /\ -CounterModulus <= x /\ x < 2 * CounterModulus /\ x >= 0
  BY Halves DEF CycleOf
<1>2. x % CounterModulus = IF x < CounterModulus THEN x ELSE x - CounterModulus
  <2> HIDE DEF x
  <2> QED
    BY <1>1, WrapIs
<1> QED
  BY <1>1, <1>2, Halves DEF CycleOf

LEMMA DistanceShrinks ==
  ASSUME NEW t \in CycleOf, NEW c \in CycleOf, NEW k \in Nat, k <= CounterModulus,
         NEW d, d = (c + k) % CounterModulus
  PROVE  /\ Signed(t - c) - k >= -Half => Signed(t - d) = Signed(t - c) - k
         /\ Signed(t - c) - k < -Half =>
              \/ Signed(t - d) = Signed(t - c) - k + CounterModulus
              \/ Signed(t - d) = Signed(t - c) - k + 2 * CounterModulus
<1> DEFINE n == Signed(t - c)
           m == Signed(t - d)
<1>1. d \in CycleOf /\ d = IF c + k < CounterModulus THEN c + k ELSE c + k - CounterModulus
  BY AdvanceIs
<1>2. n = IF t - c < -Half THEN t - c + CounterModulus
          ELSE IF t - c < Half THEN t - c ELSE t - c - CounterModulus
  BY DistanceIs
<1>3. m = IF t - d < -Half THEN t - d + CounterModulus
          ELSE IF t - d < Half THEN t - d ELSE t - d - CounterModulus
  BY <1>1, DistanceIs
<1> HIDE DEF n, m
<1>4. /\ n - k >= -Half => m = n - k
      /\ n - k < -Half => m = n - k + CounterModulus \/ m = n - k + 2 * CounterModulus
  BY <1>1, <1>2, <1>3, Halves DEF CycleOf
<1> QED
  BY <1>4 DEF n, m

LEMMA TargetIs ==
  ASSUME NEW c \in CycleOf, NEW d \in Delays, NEW t \in CycleOf
  PROVE  LET target == (c + d) % CounterModulus
             n      == Signed(t - c)
         IN /\ target \in CycleOf /\ Signed(target - c) = d /\ d \in 1 .. Half - 1
            /\ n > 0 => Signed(t - target) = n - d
<1> DEFINE target == (c + d) % CounterModulus
           n == Signed(t - c)
           m == Signed(t - target)
<1>1. d \in 1 .. Half - 1 /\ d \in Nat /\ d <= CounterModulus
  BY SaneDelays, Halves DEF Half
<1>2. target \in CycleOf /\ target = IF c + d < CounterModulus THEN c + d ELSE c + d - CounterModulus
  BY <1>1, AdvanceIs
<1>3. n = IF t - c < -Half THEN t - c + CounterModulus
          ELSE IF t - c < Half THEN t - c ELSE t - c - CounterModulus
  BY DistanceIs
<1> HIDE DEF target, n
<1>4. m = IF t - target < -Half THEN t - target + CounterModulus
          ELSE IF t - target < Half THEN t - target ELSE t - target - CounterModulus
  BY <1>2, DistanceIs
<1>5. Signed(target - c) = IF target - c < -Half THEN target - c + CounterModulus
          ELSE IF target - c < Half THEN target - c ELSE target - c - CounterModulus
  BY <1>2, DistanceIs
<1> HIDE DEF m
<1>6. Signed(target - c) = d
  BY <1>1, <1>2, <1>5, Halves DEF CycleOf
<1>7. n > 0 => m = n - d
  BY <1>1, <1>2, <1>3, <1>4, Halves DEF CycleOf
<1> QED
  BY <1>1, <1>2, <1>6, <1>7 DEF target, n, m

(* Looked at from the other side.                                          *)
LEMMA DueIs ==
  ASSUME NEW t \in CycleOf, NEW c \in CycleOf, Signed(t - c) > -Half
  PROVE  Signed(c - t) >= 0 <=> Signed(t - c) <= 0
BY DistanceIs, Halves DEF CycleOf

(* The most a fetch charges and the most a data access owes.               *)
FetchMost == CHOOSE f \in FetchCosts \cup {0} :
               /\ \A n \in FetchCosts : n <= f
               /\ \E s \in MemStalls \cup {0} : /\ \A n \in MemStalls : n <= s
                                                /\ 2 * f + (LastEvent + 3) * s < CounterModulus \div 2
StallMost == CHOOSE s \in MemStalls \cup {0} :
               /\ \A n \in MemStalls : n <= s
               /\ 2 * FetchMost + (LastEvent + 3) * s < CounterModulus \div 2

LEMMA MostIs ==
  /\ FetchMost \in Nat /\ StallMost \in Nat /\ LastEvent \in Nat
  /\ \A n \in FetchCosts : n \in Nat /\ n <= FetchMost
  /\ \A n \in MemStalls : n \in Nat /\ n <= StallMost
  /\ 2 * FetchMost + (LastEvent + 3) * StallMost < Half
<1>1. PICK f \in FetchCosts \cup {0}, s \in MemStalls \cup {0} :
        /\ \A n \in FetchCosts : n <= f
        /\ \A n \in MemStalls : n <= s
        /\ 2 * f + (LastEvent + 3) * s < CounterModulus \div 2
  BY SaneCharges
<1>2. /\ FetchMost \in FetchCosts \cup {0} /\ \A n \in FetchCosts : n <= FetchMost
      /\ \E t \in MemStalls \cup {0} : /\ \A n \in MemStalls : n <= t
                                       /\ 2 * FetchMost + (LastEvent + 3) * t < CounterModulus \div 2
  BY <1>1 DEF FetchMost
<1>3. /\ StallMost \in MemStalls \cup {0} /\ \A n \in MemStalls : n <= StallMost
      /\ 2 * FetchMost + (LastEvent + 3) * StallMost < CounterModulus \div 2
  BY <1>2 DEF StallMost
<1> QED
  BY <1>2, <1>3, Charges, Queue DEF Half

Targets  == UNION {[S -> CycleOf] : S \in SUBSET Events}
Backlogs == UNION {[S -> Int] : S \in SUBSET Events}
Machines == [cpu_cycle_counter : CycleOf, downcount : Int, cpu_mem_stall_cycles : Nat,
             evq_next_cycle : CycleOf, evq_target_cycle : Targets]

Left(q, t) == Signed(t - q.cpu_cycle_counter)

(* The exact distances, and the ones the code computes.                    *)
Exact(q, l) ==
  /\ q \in Machines /\ l \in Backlogs /\ DOMAIN l = DOMAIN q.evq_target_cycle
  /\ \A e \in DOMAIN l : Left(q, q.evq_target_cycle[e]) = l[e]

InTime(q, l)  == \A e \in DOMAIN l : q.downcount <= l[e]
AtLeast(l, n) == \A e \in DOMAIN l : n <= l[e]

(* The cached next target never makes eventq_schedule keep a later one.    *)
Told(q) ==
  /\ q.downcount < Half
  /\ Left(q, q.evq_next_cycle) > 0 => q.downcount <= Left(q, q.evq_next_cycle)

LEMMA TargetsAre ==
  ASSUME NEW f \in Targets
  PROVE  DOMAIN f \subseteq Events /\ f \in [DOMAIN f -> CycleOf] /\ \A e \in DOMAIN f : f[e] \in CycleOf
BY DEF Targets

LEMMA BacklogsAre ==
  ASSUME NEW f \in Backlogs
  PROVE  DOMAIN f \subseteq Events /\ f \in [DOMAIN f -> Int] /\ \A e \in DOMAIN f : f[e] \in Int
BY DEF Backlogs

LEMMA WithIs ==
  ASSUME NEW f, NEW e \in Events, NEW v, DOMAIN f \subseteq Events
  PROVE  /\ DOMAIN With(f, e, v) = DOMAIN f \cup {e}
         /\ f \in Targets /\ v \in CycleOf => With(f, e, v) \in Targets
         /\ f \in Backlogs /\ v \in Int => With(f, e, v) \in Backlogs
<1> DEFINE g == With(f, e, v)
<1>1. g = [x \in DOMAIN f \cup {e} |-> IF x = e THEN v ELSE f[x]]
  BY DEF With
<1>2. DOMAIN g = DOMAIN f \cup {e}
  BY <1>1
<1>3. DOMAIN f \cup {e} \in SUBSET Events
  OBVIOUS
<1>4. ASSUME f \in Targets, v \in CycleOf PROVE g \in Targets
  <2>1. g \in [DOMAIN f \cup {e} -> CycleOf]
    BY <1>1, <1>4, TargetsAre
  <2> QED
    BY <1>3, <2>1 DEF Targets
<1>5. ASSUME f \in Backlogs, v \in Int PROVE g \in Backlogs
  <2>1. g \in [DOMAIN f \cup {e} -> Int]
    BY <1>1, <1>5, BacklogsAre
  <2> QED
    BY <1>3, <2>1 DEF Backlogs
<1> QED
  BY <1>2, <1>4, <1>5

LEMMA WithoutIs ==
  ASSUME NEW f, NEW e, DOMAIN f \subseteq Events
  PROVE  /\ DOMAIN Without(f, e) = DOMAIN f \ {e}
         /\ \A x \in DOMAIN f \ {e} : Without(f, e)[x] = f[x]
         /\ f \in Targets => Without(f, e) \in Targets
         /\ f \in Backlogs => Without(f, e) \in Backlogs
<1> DEFINE g == Without(f, e)
<1>1. g = [x \in DOMAIN f \ {e} |-> f[x]]
  BY DEF Without
<1>2. DOMAIN g = DOMAIN f \ {e} /\ \A x \in DOMAIN f \ {e} : g[x] = f[x]
  BY <1>1
<1>3. DOMAIN f \ {e} \in SUBSET Events
  OBVIOUS
<1>4. ASSUME f \in Targets PROVE g \in Targets
  <2>1. g \in [DOMAIN f \ {e} -> CycleOf]
    BY <1>1, <1>4, TargetsAre
  <2> QED
    BY <1>3, <2>1 DEF Targets
<1>5. ASSUME f \in Backlogs PROVE g \in Backlogs
  <2>1. g \in [DOMAIN f \ {e} -> Int]
    BY <1>1, <1>5, BacklogsAre
  <2> QED
    BY <1>3, <2>1 DEF Backlogs
<1> QED
  BY <1>2, <1>4, <1>5

LEMMA AgedIs ==
  ASSUME NEW f \in Backlogs, NEW n \in Int
  PROVE  /\ Aged(f, n) \in Backlogs /\ DOMAIN Aged(f, n) = DOMAIN f
         /\ \A x \in DOMAIN f : Aged(f, n)[x] = f[x] - n
<1> DEFINE g == Aged(f, n)
<1>1. g = [x \in DOMAIN f |-> f[x] - n]
  BY DEF Aged
<1>2. DOMAIN g = DOMAIN f /\ \A x \in DOMAIN f : g[x] = f[x] - n
  BY <1>1
<1>3. DOMAIN f \in SUBSET Events /\ \A x \in DOMAIN f : f[x] \in Int
  BY BacklogsAre
<1>4. g \in [DOMAIN f -> Int]
  BY <1>1, <1>3
<1> QED
  BY <1>2, <1>3, <1>4 DEF Backlogs

(* What is left is less than half the counter's range.                     *)
LEMMA ExactRange ==
  ASSUME NEW q, NEW l, Exact(q, l)
  PROVE  \A e \in DOMAIN l : l[e] \in -Half .. Half - 1
<1>1. ASSUME NEW e \in DOMAIN l PROVE l[e] \in -Half .. Half - 1
  <2>1. q.evq_target_cycle[e] \in CycleOf /\ q.cpu_cycle_counter \in CycleOf
    BY TargetsAre DEF Exact, Machines
  <2>2. l[e] = Signed(q.evq_target_cycle[e] - q.cpu_cycle_counter)
    BY DEF Exact, Left
  <2> QED
    BY <2>1, <2>2, DistanceIs
<1> QED
  BY <1>1

(* Cycles are charged.                                                     *)
LEMMA ChargeIs ==
  ASSUME NEW q \in Machines, NEW k \in Nat
  PROVE  LET r == Charge(q, k)
         IN /\ r \in Machines
            /\ r.cpu_cycle_counter = (q.cpu_cycle_counter + k) % CounterModulus
            /\ r.downcount = q.downcount - k
            /\ r.cpu_mem_stall_cycles = q.cpu_mem_stall_cycles
            /\ r.evq_next_cycle = q.evq_next_cycle /\ r.evq_target_cycle = q.evq_target_cycle
<1> DEFINE c == (q.cpu_cycle_counter + k) % CounterModulus
           d == q.downcount - k
           r == [q EXCEPT !.cpu_cycle_counter = c, !.downcount = d]
<1>1. c \in CycleOf
  <2>1. q.cpu_cycle_counter + k \in Nat
    BY Halves DEF Machines, CycleOf
  <2> DEFINE x == q.cpu_cycle_counter + k
             n == CounterModulus
  <2>2. x \in Nat /\ n \in Nat \ {0}
    BY <2>1, Halves
  <2> HIDE DEF x, n
  <2>3. x % n \in 0 .. n - 1
    BY <2>2
  <2> QED
    BY <2>3 DEF x, n, CycleOf
<1>2. d \in Int
  BY DEF Machines
<1>3. Charge(q, k) = r
  BY DEF Charge
<1> HIDE DEF c, d
<1>4. /\ r \in Machines /\ r.cpu_cycle_counter = c /\ r.downcount = d
      /\ r.cpu_mem_stall_cycles = q.cpu_mem_stall_cycles
      /\ r.evq_next_cycle = q.evq_next_cycle /\ r.evq_target_cycle = q.evq_target_cycle
  BY <1>1, <1>2 DEF Machines
<1> QED
  BY <1>3, <1>4 DEF c, d

LEMMA ChargeKeeps ==
  ASSUME NEW q, NEW l, Exact(q, l), NEW k \in Nat, k <= CounterModulus, AtLeast(l, k - Half)
  PROVE  LET r == Charge(q, k)
             m == Aged(l, k)
         IN /\ Exact(r, m) /\ DOMAIN m = DOMAIN l /\ \A e \in DOMAIN m : m[e] = l[e] - k
            /\ InTime(q, l) => InTime(r, m)
            /\ Told(q) => Told(r)
<1> DEFINE r == Charge(q, k)
           m == Aged(l, k)
<1>1. /\ r \in Machines
      /\ r.cpu_cycle_counter = (q.cpu_cycle_counter + k) % CounterModulus
      /\ r.downcount = q.downcount - k
      /\ r.evq_next_cycle = q.evq_next_cycle /\ r.evq_target_cycle = q.evq_target_cycle
  BY ChargeIs DEF Exact
<1>2. m \in Backlogs /\ DOMAIN m = DOMAIN l /\ \A x \in DOMAIN l : m[x] = l[x] - k
  BY AgedIs DEF Exact
<1>3. /\ q.cpu_cycle_counter \in CycleOf /\ q.evq_next_cycle \in CycleOf /\ q.downcount \in Int
      /\ \A e \in DOMAIN l : q.evq_target_cycle[e] \in CycleOf /\ l[e] \in Int
  BY TargetsAre, BacklogsAre DEF Exact, Machines
<1> HIDE DEF r, m
<1>4. Exact(r, m)
  <2>1. ASSUME NEW e \in DOMAIN m PROVE Left(r, r.evq_target_cycle[e]) = m[e]
    <3>1. Signed(q.evq_target_cycle[e] - q.cpu_cycle_counter) = l[e] /\ l[e] - k >= -Half
      BY <1>2, <1>3, Halves DEF Exact, Left, AtLeast
    <3>2. Signed(q.evq_target_cycle[e] - r.cpu_cycle_counter) = l[e] - k
      BY <1>1, <1>2, <1>3, <3>1, DistanceShrinks
    <3> QED
      BY <1>1, <1>2, <3>2 DEF Left
  <2> QED
    BY <1>1, <1>2, <2>1 DEF Exact
<1>5. InTime(q, l) => InTime(r, m)
  BY <1>1, <1>2, <1>3 DEF InTime
<1>6. ASSUME Told(q) PROVE Told(r)
  <2> DEFINE n == Left(q, q.evq_next_cycle)
             p == Left(r, r.evq_next_cycle)
  <2>1. n \in -Half .. Half - 1
    BY <1>3, DistanceIs DEF Left
  <2>2. /\ n - k >= -Half => p = n - k
        /\ n - k < -Half => p = n - k + CounterModulus \/ p = n - k + 2 * CounterModulus
    BY <1>1, <1>3, DistanceShrinks DEF Left
  <2>3. q.downcount < Half /\ (n > 0 => q.downcount <= n)
    BY <1>6 DEF Told
  <2> HIDE DEF n, p
  <2>4. r.downcount < Half /\ (p > 0 => r.downcount <= p)
    BY <1>1, <1>3, <2>1, <2>2, <2>3, Halves
  <2> QED
    BY <2>4 DEF Told, p
<1> QED
  BY <1>2, <1>4, <1>5, <1>6 DEF r, m

(* An event is scheduled: it is exact at any time, and in time if the      *)
(* queue was.                                                              *)
LEMMA ScheduleIs ==
  ASSUME NEW q \in Machines, NEW e \in Events, NEW d \in Delays
  PROVE  LET r      == Schedule(q, e, d)
             target == (q.cpu_cycle_counter + d) % CounterModulus
         IN /\ r \in Machines
            /\ r.cpu_cycle_counter = q.cpu_cycle_counter
            /\ r.cpu_mem_stall_cycles = q.cpu_mem_stall_cycles
            /\ r.evq_target_cycle = With(q.evq_target_cycle, e, target)
            /\ \/ ~Sooner(q, target) /\ r.evq_next_cycle = q.evq_next_cycle /\ r.downcount = q.downcount
               \/ /\ Sooner(q, target) /\ r.evq_next_cycle = target
                  /\ r.downcount = IF d < q.downcount THEN d ELSE q.downcount
<1> DEFINE target == (q.cpu_cycle_counter + d) % CounterModulus
           until  == Signed(target - q.cpu_cycle_counter)
           f == With(q.evq_target_cycle, e, target)
           r == [q EXCEPT !.evq_target_cycle = f]
           k == IF 0 < until /\ until < q.downcount THEN until ELSE q.downcount
           s == [r EXCEPT !.evq_next_cycle = target]
           t == [s EXCEPT !.downcount = k]
<1>1. q.cpu_cycle_counter \in CycleOf /\ q.evq_target_cycle \in Targets /\ q.downcount \in Int
  BY DEF Machines
<1>2. target \in CycleOf /\ until = d /\ d \in 1 .. Half - 1
  BY <1>1, TargetIs
<1>3. f \in Targets
  BY <1>1, <1>2, WithIs, TargetsAre
<1>4. k = (IF d < q.downcount THEN d ELSE q.downcount) /\ k \in Int
  <2> HIDE DEF until
  <2> QED
    BY <1>1, <1>2
<1>5. Schedule(q, e, d) = IF ~Sooner(q, target) THEN r ELSE t
  <2>1. r.downcount = q.downcount
    OBVIOUS
  <2> QED
    BY <2>1 DEF Schedule
<1> HIDE DEF f, k, target
<1>6. /\ r \in Machines /\ r.evq_target_cycle = f /\ r.downcount = q.downcount
      /\ r.cpu_cycle_counter = q.cpu_cycle_counter /\ r.evq_next_cycle = q.evq_next_cycle
      /\ r.cpu_mem_stall_cycles = q.cpu_mem_stall_cycles
  BY <1>3 DEF Machines
<1> HIDE DEF r
<1>7. /\ s \in Machines /\ s.evq_target_cycle = f /\ s.evq_next_cycle = target
      /\ s.cpu_cycle_counter = q.cpu_cycle_counter
      /\ s.cpu_mem_stall_cycles = q.cpu_mem_stall_cycles
  BY <1>2, <1>6 DEF Machines
<1> HIDE DEF s
<1>8. /\ t \in Machines /\ t.evq_target_cycle = f /\ t.evq_next_cycle = target /\ t.downcount = k
      /\ t.cpu_cycle_counter = q.cpu_cycle_counter
      /\ t.cpu_mem_stall_cycles = q.cpu_mem_stall_cycles
  BY <1>4, <1>7 DEF Machines
<1> HIDE DEF t
<1>9. CASE ~Sooner(q, target)
  BY <1>5, <1>6, <1>9 DEF f, target
<1>10. CASE Sooner(q, target)
  BY <1>4, <1>5, <1>8, <1>10 DEF f, target
<1> QED
  BY <1>9, <1>10

LEMMA ScheduleKeeps ==
  ASSUME NEW q, NEW l, Exact(q, l), NEW e \in Events, NEW d \in Delays
  PROVE  /\ Exact(Schedule(q, e, d), With(l, e, d))
         /\ Schedule(q, e, d).cpu_mem_stall_cycles = q.cpu_mem_stall_cycles
         /\ Schedule(q, e, d).cpu_cycle_counter = q.cpu_cycle_counter
         /\ DOMAIN With(l, e, d) = DOMAIN l \cup {e} /\ d \in 1 .. Half - 1
         /\ InTime(q, l) /\ Told(q) => /\ InTime(Schedule(q, e, d), With(l, e, d))
                                       /\ Told(Schedule(q, e, d))
<1> DEFINE r == Schedule(q, e, d)
           m == With(l, e, d)
           target == (q.cpu_cycle_counter + d) % CounterModulus
           f == q.evq_target_cycle
           g == With(f, e, target)
           n == Left(q, q.evq_next_cycle)
<1>1. /\ q \in Machines /\ l \in Backlogs /\ q.cpu_cycle_counter \in CycleOf /\ f \in Targets
      /\ q.evq_next_cycle \in CycleOf /\ q.downcount \in Int /\ DOMAIN l = DOMAIN f
  BY DEF Exact, Machines
<1>2. /\ r \in Machines
      /\ r.cpu_cycle_counter = q.cpu_cycle_counter
      /\ r.cpu_mem_stall_cycles = q.cpu_mem_stall_cycles
      /\ r.evq_target_cycle = g
      /\ \/ ~Sooner(q, target) /\ r.evq_next_cycle = q.evq_next_cycle /\ r.downcount = q.downcount
         \/ /\ Sooner(q, target) /\ r.evq_next_cycle = target
            /\ r.downcount = IF d < q.downcount THEN d ELSE q.downcount
  BY <1>1, ScheduleIs
<1>3. /\ target \in CycleOf /\ Signed(target - q.cpu_cycle_counter) = d /\ d \in 1 .. Half - 1
      /\ n > 0 => Signed(q.evq_next_cycle - target) = n - d
  BY <1>1, TargetIs DEF Left
<1>4. n \in -Half .. Half - 1
  BY <1>1, DistanceIs DEF Left
<1>5. DOMAIN f \subseteq Events /\ DOMAIN l \subseteq Events /\ \A x \in DOMAIN l : l[x] \in Int
  BY <1>1, TargetsAre, BacklogsAre
<1>6. /\ DOMAIN m = DOMAIN l \cup {e} /\ m[e] = d /\ m \in Backlogs
      /\ \A x \in DOMAIN l : x # e => m[x] = l[x]
  <2>1. d \in Int
    BY <1>3, Halves
  <2>2. DOMAIN With(l, e, d) = DOMAIN l \cup {e}
    BY <1>5, WithIs
  <2>3. With(l, e, d)[e] = d
    BY DEF With
  <2>4. \A x \in DOMAIN l : x # e => With(l, e, d)[x] = l[x]
    BY DEF With
  <2>5. With(l, e, d) \in Backlogs
    BY <1>1, <1>5, <2>1, WithIs
  <2> QED
    BY <2>2, <2>3, <2>4, <2>5
<1>7. /\ DOMAIN g = DOMAIN f \cup {e} /\ g[e] = target
      /\ \A x \in DOMAIN f : x # e => g[x] = f[x]
  <2> HIDE DEF target, f
  <2>2. DOMAIN g = DOMAIN f \cup {e}
    BY <1>5, WithIs
  <2>3. g[e] = target
    BY DEF With
  <2>4. \A x \in DOMAIN f : x # e => g[x] = f[x]
    BY DEF With
  <2> QED
    BY <2>2, <2>3, <2>4
<1>8. Sooner(q, target) <=> (Signed(q.evq_next_cycle - target) > 0 \/ n <= 0)
  BY DEF Sooner, Left
<1> HIDE DEF r, m, g, n, target
<1>9. Exact(r, m)
  <2>1. ASSUME NEW x \in DOMAIN m PROVE Left(r, g[x]) = m[x]
    <3>1. CASE x = e
      BY <1>2, <1>3, <1>6, <1>7, <3>1 DEF Left
    <3>2. CASE x # e
      BY <1>1, <1>2, <1>6, <1>7, <3>2 DEF Left, Exact
    <3> QED
      BY <3>1, <3>2
  <2> QED
    BY <1>1, <1>2, <1>6, <1>7, <2>1 DEF Exact
<1>10. ASSUME InTime(q, l), Told(q) PROVE InTime(r, m) /\ Told(r)
  <2>1. q.downcount < Half /\ (n > 0 => q.downcount <= n)
    BY <1>10 DEF Told, n
  <2>2. r.downcount <= q.downcount /\ r.downcount <= d /\ r.downcount \in Int
    <3>1. CASE ~Sooner(q, target)
      <4>1. n > 0 /\ n - d <= 0
        BY <1>3, <1>4, <1>8, <3>1
      <4> QED
        BY <1>1, <1>2, <1>3, <1>4, <2>1, <3>1, <4>1
    <3>2. CASE Sooner(q, target)
      BY <1>1, <1>2, <1>3, <3>2
    <3> QED
      BY <3>1, <3>2
  <2>3. InTime(r, m)
    BY <1>1, <1>3, <1>5, <1>6, <1>10, <2>2 DEF InTime
  <2>4. Told(r)
    <3>1. CASE r.evq_next_cycle = q.evq_next_cycle
      <4>1. Left(r, r.evq_next_cycle) = n
        BY <1>2, <3>1 DEF Left, n
      <4> QED
        BY <1>1, <1>4, <2>1, <2>2, <4>1, Halves DEF Told
    <3>2. CASE r.evq_next_cycle = target
      <4>1. Left(r, r.evq_next_cycle) = d
        BY <1>2, <1>3, <3>2 DEF Left
      <4> QED
        BY <1>1, <1>3, <2>1, <2>2, <4>1, Halves DEF Told
    <3> QED
      BY <1>2, <3>1, <3>2
  <2> QED
    BY <2>3, <2>4
<1> QED
  BY <1>2, <1>3, <1>6, <1>9, <1>10 DEF r, m

SlicesMost == StallMost * (LastEvent + 1)

Scans == [event : 0 .. LastEvent + 1, pending : SUBSET Events, any_fired : BOOLEAN,
          soonest : CycleOf, best_delta : 1 .. CounterModulus]

(* Between two instructions.                                               *)
Ahead ==
  /\ InTime(sys, backlog) /\ Told(sys)
  /\ AtLeast(backlog, IF faulted THEN 1 - FetchMost ELSE 1)
  /\ sys.cpu_mem_stall_cycles <= SlicesMost + (IF faulted THEN StallMost ELSE 0)

(* In a dispatch: what a pass has gone by is not due, nor is what it did   *)
(* not find; while nothing has fired, what it found is still there, and    *)
(* the soonest target is the soonest of those gone by.                     *)
Scanned ==
  /\ scan \in Scans /\ ~faulted /\ AtLeast(backlog, 1 - Half)
  /\ \A e \in Pending : e < scan.event \/ e \notin scan.pending => backlog[e] > 0
  /\ \A e \in scan.pending : e >= scan.event => e \in Pending
  /\ \/ sys.cpu_mem_stall_cycles <= StallMost * scan.event
     \/ AtLeast(backlog, 1) /\ sys.cpu_mem_stall_cycles <= SlicesMost
  /\ \/ scan.best_delta = CounterModulus
     \/ scan.best_delta = Left(sys, scan.soonest)
  /\ ~scan.any_fired => /\ scan.pending = Pending
                        /\ \A e \in Pending : e < scan.event => scan.best_delta <= backlog[e]

QueueIInv ==
  /\ Exact(sys, backlog) /\ VBLANK \in Pending /\ faulted \in BOOLEAN
  /\ \/ scan = Running /\ Ahead
     \/ Scanned

LEMMA NotRunning == ASSUME scan \in Scans PROVE scan # Running /\ scan.event \in Nat
<1>1. scan.event \in 0 .. LastEvent + 1
  BY DEF Scans
<1>2. scan.event \in Nat /\ scan.event # -1
  BY <1>1, MostIs
<1>3. Running.event = -1
  BY DEF Running
<1> QED
  BY <1>2, <1>3

(* The products the bounds are made of.                                    *)
LEMMA Bounds ==
  /\ SlicesMost \in Nat /\ SlicesMost + 2 * StallMost = (LastEvent + 3) * StallMost
  /\ StallMost * 0 = 0
  /\ \A n \in Nat : StallMost * n \in Nat /\ StallMost * (n + 1) = StallMost * n + StallMost
  /\ \A n \in Nat : n <= LastEvent + 1 => StallMost * n <= SlicesMost
<1> DEFINE s == StallMost
           k == LastEvent
<1>1. s \in Nat /\ k \in Nat
  BY MostIs
<1> HIDE DEF s, k
<1>2. s * (k + 1) \in Nat /\ s * (k + 1) + 2 * s = (k + 3) * s /\ s * 0 = 0
  BY <1>1
<1>3. \A n \in Nat : s * n \in Nat /\ s * (n + 1) = s * n + s
  BY <1>1
<1>4. ASSUME NEW n \in Nat, n <= k + 1 PROVE s * n <= s * (k + 1)
  BY <1>1, <1>4
<1> QED
  BY <1>2, <1>3, <1>4 DEF s, k, SlicesMost

LEMMA InstructionCosts ==
  /\ 2 * FetchMost + SlicesMost + 2 * StallMost < Half
  /\ FetchMost < Half /\ FetchMost \in Nat /\ StallMost \in Nat /\ Half \in Nat /\ SlicesMost \in Nat
BY MostIs, Bounds, Halves

(* An instruction retires.                                                 *)
LEMMA RetireKeeps ==
  ASSUME NEW q, NEW l, NEW stall \in MemStalls, Exact(q, l), VBLANK \in DOMAIN l,
         (InTime(q, l) /\ Told(q)) \/ q.downcount <= 0,
         AtLeast(l, 1 - 2 * FetchMost),
         q.cpu_mem_stall_cycles <= SlicesMost + StallMost,
         Retire(q, l, stall)
  PROVE  QueueIInv'
<1> DEFINE owed == 1 + q.cpu_mem_stall_cycles + stall
           r == Charge(q, owed)
           m == Aged(l, owed)
           s == [r EXCEPT !.cpu_mem_stall_cycles = 0]
<1>1. /\ sys' = s /\ backlog' = m /\ faulted' = FALSE
      /\ scan' = (IF s.downcount <= 0 THEN Pass(s) ELSE Running)
  BY DEF Retire
<1>2. /\ q.cpu_mem_stall_cycles \in Nat /\ stall \in Nat /\ stall <= StallMost /\ StallMost \in Nat
      /\ q.downcount \in Int
  BY MostIs DEF Exact, Machines
<1>3. /\ owed \in Nat /\ owed > 0 /\ owed <= 1 + SlicesMost + 2 * StallMost
      /\ owed <= CounterModulus
  BY <1>2, InstructionCosts, Halves, Bounds
<1>4. 1 - 2 * FetchMost >= 1 + owed - Half
  BY <1>3, InstructionCosts, Bounds, <1>2
<1>5. \A e \in DOMAIN l : l[e] \in Int
  BY BacklogsAre DEF Exact
<1> HIDE DEF owed
<1>6. AtLeast(l, owed - Half)
  BY <1>3, <1>4, <1>5, InstructionCosts DEF AtLeast
<1>7. /\ Exact(r, m) /\ DOMAIN m = DOMAIN l /\ \A e \in DOMAIN m : m[e] = l[e] - owed
      /\ InTime(q, l) => InTime(r, m)
      /\ Told(q) => Told(r)
  BY <1>3, <1>6, ChargeKeeps
<1>8. r \in Machines /\ r.downcount = q.downcount - owed
  BY <1>3, ChargeIs DEF Exact
<1> HIDE DEF r, m
<1>9. /\ s \in Machines /\ s.cpu_mem_stall_cycles = 0 /\ s.downcount = r.downcount
      /\ s.cpu_cycle_counter = r.cpu_cycle_counter /\ s.evq_next_cycle = r.evq_next_cycle
      /\ s.evq_target_cycle = r.evq_target_cycle
  BY <1>8 DEF Machines
<1> HIDE DEF s
<1>10. Exact(s, m)
  BY <1>7, <1>9 DEF Exact, Left
<1>11. DOMAIN s.evq_target_cycle = DOMAIN l /\ DOMAIN s.evq_target_cycle \subseteq Events
  BY <1>7, <1>10, BacklogsAre DEF Exact
<1>12. \A e \in DOMAIN m : m[e] \in Int
  BY <1>10, BacklogsAre DEF Exact
<1>13. s.downcount \in Int
  BY <1>9 DEF Machines
<1>14. Exact(sys', backlog') /\ VBLANK \in DOMAIN sys'.evq_target_cycle /\ faulted' \in BOOLEAN
  BY <1>1, <1>10, <1>11
<1>15. CASE s.downcount > 0
  <2>1. scan' = Running
    BY <1>1, <1>13, <1>15
  <2>2. InTime(r, m) /\ Told(r)
    <3>1. ~(q.downcount <= 0)
      BY <1>2, <1>3, <1>8, <1>9, <1>15
    <3> QED
      BY <1>7, <3>1
  <2>3. InTime(s, m) /\ Told(s)
    BY <1>9, <2>2 DEF InTime, Told, Left
  <2>4. AtLeast(m, 1)
    BY <1>12, <1>13, <1>15, <2>3 DEF InTime, AtLeast
  <2>5. Ahead'
    BY <1>1, <1>9, <2>3, <2>4, Bounds DEF Ahead
  <2> QED
    BY <1>14, <2>1, <2>5 DEF QueueIInv, Pending
<1>16. CASE ~(s.downcount > 0)
  <2>1. scan' = Pass(s)
    BY <1>1, <1>13, <1>16
  <2>2. /\ scan' \in Scans /\ scan'.event = 0 /\ scan'.pending = DOMAIN s.evq_target_cycle
        /\ scan'.best_delta = CounterModulus /\ scan'.any_fired = FALSE
    BY <1>11, <2>1, MostIs, Halves DEF Pass, Scans, NoTarget, CycleOf
  <2>3. AtLeast(m, 1 - Half)
    BY <1>3, <1>4, <1>5, <1>7, InstructionCosts DEF AtLeast
  <2>4. \A e \in DOMAIN s.evq_target_cycle : ~(e < 0)
    BY <1>11, MostIs DEF Events
  <2>5. s.cpu_mem_stall_cycles <= StallMost * scan'.event
    BY <1>9, <2>2, Bounds
  <2>6. Scanned'
    BY <1>1, <2>2, <2>3, <2>4, <2>5 DEF Scanned, Pending
  <2> QED
    BY <1>14, <2>6 DEF QueueIInv, Pending
<1> QED
  BY <1>15, <1>16

(* An instruction is fetched.                                              *)
LEMMA FetchedAhead ==
  ASSUME QueueIInv, scan = Running, NEW fetch \in FetchCosts
  PROVE  LET q == Charge(sys, fetch)
             l == Aged(backlog, fetch)
         IN /\ Exact(q, l) /\ VBLANK \in DOMAIN l /\ InTime(q, l) /\ Told(q)
            /\ AtLeast(l, 1 - 2 * FetchMost)
            /\ ~faulted => AtLeast(l, 1 - FetchMost)
            /\ q.cpu_mem_stall_cycles = sys.cpu_mem_stall_cycles
            /\ q.cpu_mem_stall_cycles <= SlicesMost + (IF faulted THEN StallMost ELSE 0)
            /\ q.cpu_mem_stall_cycles <= SlicesMost + StallMost
            /\ q \in Machines /\ DOMAIN l = Pending /\ DOMAIN q.evq_target_cycle = Pending
<1> DEFINE q == Charge(sys, fetch)
           l == Aged(backlog, fetch)
<1>1. Ahead /\ Exact(sys, backlog) /\ VBLANK \in Pending /\ faulted \in BOOLEAN
  BY NotRunning DEF QueueIInv, Scanned
<1>2. fetch \in Nat /\ fetch <= FetchMost /\ fetch <= CounterModulus
  BY MostIs, InstructionCosts, Halves
<1>3. \A e \in DOMAIN backlog : backlog[e] \in Int
  BY <1>1, BacklogsAre DEF Exact
<1>4. AtLeast(backlog, 1 - FetchMost) /\ (~faulted => AtLeast(backlog, 1))
  BY <1>1, <1>3, InstructionCosts DEF Ahead, AtLeast
<1>5. AtLeast(backlog, fetch - Half)
  BY <1>2, <1>3, <1>4, InstructionCosts, Bounds, MostIs DEF AtLeast
<1>6. /\ Exact(q, l) /\ DOMAIN l = DOMAIN backlog /\ \A e \in DOMAIN l : l[e] = backlog[e] - fetch
      /\ InTime(sys, backlog) => InTime(q, l)
      /\ Told(sys) => Told(q)
  BY <1>1, <1>2, <1>5, ChargeKeeps
<1>7. q.cpu_mem_stall_cycles = sys.cpu_mem_stall_cycles /\ q \in Machines
  BY <1>1, <1>2, ChargeIs DEF Exact
<1> HIDE DEF q, l
<1>8. AtLeast(l, 1 - 2 * FetchMost) /\ (~faulted => AtLeast(l, 1 - FetchMost))
  BY <1>2, <1>3, <1>4, <1>6, InstructionCosts DEF AtLeast
<1>9. sys.cpu_mem_stall_cycles \in Nat
  BY <1>1 DEF Exact, Machines
<1>10. q.cpu_mem_stall_cycles <= SlicesMost + (IF faulted THEN StallMost ELSE 0)
  BY <1>1, <1>7 DEF Ahead
<1>11. q.cpu_mem_stall_cycles <= SlicesMost + StallMost
  BY <1>7, <1>9, <1>10, MostIs, Bounds
<1>12. DOMAIN l = Pending /\ DOMAIN q.evq_target_cycle = Pending
  BY <1>1, <1>6 DEF Exact, Pending
<1> QED
  BY <1>1, <1>6, <1>7, <1>8, <1>10, <1>11, <1>12 DEF Ahead, q, l

LEMMA PlainKeeps ==
  ASSUME QueueIInv, NEW fetch \in FetchCosts, NEW stall \in MemStalls, PlainOp(fetch, stall)
  PROVE  QueueIInv'
BY FetchedAhead, RetireKeeps DEF PlainOp

LEMMA StoreKeepsQueue ==
  ASSUME QueueIInv, NEW fetch \in FetchCosts, NEW stall \in MemStalls,
         NEW e \in Events \ {VBLANK}, NEW cycles \in Delays, Store(e, cycles, fetch, stall)
  PROVE  QueueIInv'
<1> DEFINE q == Charge(sys, fetch)
           l == Aged(backlog, fetch)
           r == Schedule(q, e, cycles)
           m == With(l, e, cycles)
<1>1. scan = Running /\ Retire(r, m, stall)
  BY DEF Store
<1>2. /\ Exact(q, l) /\ VBLANK \in DOMAIN l /\ InTime(q, l) /\ Told(q)
      /\ AtLeast(l, 1 - 2 * FetchMost)
      /\ q.cpu_mem_stall_cycles <= SlicesMost + StallMost
  BY <1>1, FetchedAhead
<1> HIDE DEF q, l
<1>3. /\ Exact(r, m) /\ r.cpu_mem_stall_cycles = q.cpu_mem_stall_cycles
      /\ DOMAIN m = DOMAIN l \cup {e} /\ m[e] = cycles /\ cycles \in 1 .. Half - 1
      /\ \A x \in DOMAIN l : x # e => m[x] = l[x]
      /\ InTime(r, m) /\ Told(r)
  <2>1. e \in Events
    OBVIOUS
  <2>2. Exact(r, m) /\ r.cpu_mem_stall_cycles = q.cpu_mem_stall_cycles /\ InTime(r, m) /\ Told(r)
    BY <1>2, <2>1, ScheduleKeeps
  <2>3. DOMAIN m = DOMAIN l \cup {e} /\ cycles \in 1 .. Half - 1
    BY <1>2, <2>1, ScheduleKeeps
  <2>4. m[e] = cycles /\ \A x \in DOMAIN l : x # e => m[x] = l[x]
    BY DEF With
  <2> QED
    BY <2>2, <2>3, <2>4
<1> HIDE DEF r, m
<1>4. AtLeast(m, 1 - 2 * FetchMost)
  <2>1. cycles >= 1 - 2 * FetchMost
    BY <1>3, InstructionCosts
  <2>2. \A x \in DOMAIN m : x = e \/ (x \in DOMAIN l /\ x # e)
    BY <1>3
  <2> QED
    BY <1>2, <1>3, <2>1, <2>2 DEF AtLeast
<1>5. VBLANK \in DOMAIN m
  BY <1>2, <1>3
<1>6. r.cpu_mem_stall_cycles <= SlicesMost + StallMost
  BY <1>2, <1>3
<1> QED
  BY <1>1, <1>3, <1>4, <1>5, <1>6, RetireKeeps

(* Taking cycles off downcount alone.                                      *)
LEMMA DowncountIs ==
  ASSUME NEW q \in Machines, NEW n \in Int
  PROVE  LET r == [q EXCEPT !.downcount = n]
         IN /\ r \in Machines /\ r.downcount = n
            /\ r.cpu_cycle_counter = q.cpu_cycle_counter
            /\ r.cpu_mem_stall_cycles = q.cpu_mem_stall_cycles
            /\ r.evq_next_cycle = q.evq_next_cycle /\ r.evq_target_cycle = q.evq_target_cycle
BY DEF Machines

LEMMA IrqKeeps ==
  ASSUME QueueIInv, NEW fetch \in FetchCosts, NEW stall \in MemStalls, IrqStore(fetch, stall)
  PROVE  QueueIInv'
<1> DEFINE q == Charge(sys, fetch)
           l == Aged(backlog, fetch)
           r == [q EXCEPT !.downcount = 0]
<1>1. scan = Running /\ Retire(r, l, stall)
  BY DEF IrqStore
<1>2. /\ Exact(q, l) /\ VBLANK \in DOMAIN l /\ q \in Machines
      /\ AtLeast(l, 1 - 2 * FetchMost)
      /\ q.cpu_mem_stall_cycles <= SlicesMost + StallMost
  BY <1>1, FetchedAhead
<1> HIDE DEF q, l
<1>3. /\ r \in Machines /\ r.downcount = 0 /\ r.cpu_cycle_counter = q.cpu_cycle_counter
      /\ r.cpu_mem_stall_cycles = q.cpu_mem_stall_cycles
      /\ r.evq_target_cycle = q.evq_target_cycle
  BY <1>2 DEF Machines
<1> HIDE DEF r
<1>4. Exact(r, l)
  BY <1>2, <1>3 DEF Exact, Left
<1>5. r.downcount <= 0 /\ r.cpu_mem_stall_cycles <= SlicesMost + StallMost
  BY <1>2, <1>3
<1> QED
  BY <1>1, <1>2, <1>4, <1>5, RetireKeeps

LEMMA DmaKeeps ==
  ASSUME QueueIInv, NEW fetch \in FetchCosts, NEW stall \in MemStalls, NEW dma \in DmaStalls,
         DmaStore(dma, fetch, stall)
  PROVE  QueueIInv'
<1> DEFINE q == Charge(sys, fetch)
           l == Aged(backlog, fetch)
           n == q.downcount - dma
           r == [q EXCEPT !.downcount = n]
<1>1. scan = Running /\ Retire(r, l, stall)
  BY DEF DmaStore
<1>2. /\ Exact(q, l) /\ VBLANK \in DOMAIN l /\ q \in Machines /\ InTime(q, l) /\ Told(q)
      /\ AtLeast(l, 1 - 2 * FetchMost)
      /\ q.cpu_mem_stall_cycles <= SlicesMost + StallMost
  BY <1>1, FetchedAhead
<1> HIDE DEF q, l
<1>3. dma \in Nat /\ q.downcount \in Int /\ q.evq_next_cycle \in CycleOf /\ q.cpu_cycle_counter \in CycleOf
  BY <1>2, Charges DEF Machines
<1>4. n \in Int /\ n <= q.downcount
  BY <1>3
<1> HIDE DEF n
<1>5. /\ r \in Machines /\ r.downcount = n /\ r.cpu_cycle_counter = q.cpu_cycle_counter
      /\ r.cpu_mem_stall_cycles = q.cpu_mem_stall_cycles
      /\ r.evq_next_cycle = q.evq_next_cycle /\ r.evq_target_cycle = q.evq_target_cycle
  BY <1>2, <1>4, DowncountIs
<1> HIDE DEF r
<1>6. Exact(r, l)
  BY <1>2, <1>5 DEF Exact, Left
<1>7. InTime(r, l)
  <2>1. \A e \in DOMAIN l : l[e] \in Int
    BY <1>2, BacklogsAre DEF Exact
  <2> QED
    BY <1>2, <1>3, <1>4, <1>5, <2>1 DEF InTime
<1>8. Told(r)
  <2> DEFINE k == Left(q, q.evq_next_cycle)
  <2>1. k \in Int /\ Half \in Int
    BY <1>3, DistanceIs, Halves DEF Left
  <2>2. Left(r, r.evq_next_cycle) = k
    BY <1>5 DEF Left
  <2>3. q.downcount < Half /\ (k > 0 => q.downcount <= k)
    BY <1>2 DEF Told
  <2> HIDE DEF k
  <2> QED
    BY <1>3, <1>4, <1>5, <2>1, <2>2, <2>3 DEF Told
<1>9. r.cpu_mem_stall_cycles <= SlicesMost + StallMost
  BY <1>2, <1>5
<1> QED
  BY <1>1, <1>2, <1>6, <1>7, <1>8, <1>9, RetireKeeps

LEMMA ExceptionKeeps ==
  ASSUME QueueIInv, NEW fetch \in FetchCosts, NEW stall \in MemStalls, Exception(fetch, stall)
  PROVE  QueueIInv'
<1> DEFINE q == Charge(sys, fetch)
           l == Aged(backlog, fetch)
           n == q.cpu_mem_stall_cycles + stall
           r == [q EXCEPT !.cpu_mem_stall_cycles = n]
<1>1. /\ scan = Running /\ ~faulted /\ faulted' = TRUE /\ scan' = Running
      /\ sys' = r /\ backlog' = l
  BY DEF Exception
<1>2. /\ Exact(q, l) /\ VBLANK \in DOMAIN l /\ q \in Machines /\ InTime(q, l) /\ Told(q)
      /\ AtLeast(l, 1 - FetchMost)
      /\ q.cpu_mem_stall_cycles <= SlicesMost
      /\ DOMAIN q.evq_target_cycle = DOMAIN l
  <2>1. /\ Exact(q, l) /\ VBLANK \in DOMAIN l /\ q \in Machines /\ InTime(q, l) /\ Told(q)
        /\ AtLeast(l, 1 - FetchMost)
        /\ q.cpu_mem_stall_cycles <= SlicesMost + (IF faulted THEN StallMost ELSE 0)
        /\ DOMAIN q.evq_target_cycle = DOMAIN l
    BY <1>1, FetchedAhead
  <2> HIDE DEF q, l
  <2>2. q.cpu_mem_stall_cycles \in Nat
    BY <2>1 DEF Machines
  <2> QED
    BY <1>1, <2>1, <2>2, Bounds
<1> HIDE DEF q, l
<1>3. n \in Nat /\ n <= SlicesMost + StallMost
  BY <1>2, MostIs, Bounds DEF Machines
<1> HIDE DEF n
<1>4. /\ r \in Machines /\ r.cpu_mem_stall_cycles = n /\ r.cpu_cycle_counter = q.cpu_cycle_counter
      /\ r.downcount = q.downcount
      /\ r.evq_next_cycle = q.evq_next_cycle /\ r.evq_target_cycle = q.evq_target_cycle
  BY <1>2, <1>3 DEF Machines
<1> HIDE DEF r
<1>5. Exact(r, l) /\ InTime(r, l) /\ Told(r)
  BY <1>2, <1>4 DEF Exact, Left, InTime, Told
<1>6. Ahead'
  BY <1>1, <1>2, <1>3, <1>4, <1>5 DEF Ahead
<1> QED
  BY <1>1, <1>2, <1>4, <1>5, <1>6 DEF QueueIInv, Pending

(* A state is loaded.                                                      *)
LEMMA RestoreKeeps == ASSUME QueueIInv, Restore PROVE QueueIInv'
<1> DEFINE n == Soonest(sys)
           r == [sys EXCEPT !.evq_next_cycle = n]
           s == [r EXCEPT !.cpu_mem_stall_cycles = 0]
<1>1. scan = Running /\ scan' = scan /\ faulted' = faulted /\ backlog' = backlog /\ sys' = s
  BY DEF Restore
<1>2. Ahead /\ Exact(sys, backlog) /\ VBLANK \in Pending /\ faulted \in BOOLEAN
  BY <1>1, NotRunning DEF QueueIInv, Scanned
<1>3. /\ sys \in Machines /\ sys.downcount \in Int /\ sys.cpu_cycle_counter \in CycleOf
      /\ DOMAIN backlog = Pending /\ \A e \in Pending : sys.evq_target_cycle[e] \in CycleOf
  BY <1>2, TargetsAre DEF Exact, Machines, Pending
<1>4. n \in CycleOf /\ (Left(sys, n) > 0 => sys.downcount <= Left(sys, n))
  <2> DEFINE later == {e \in Pending : Signed(sys.evq_target_cycle[e] - sys.cpu_cycle_counter) > 0}
             first == CHOOSE e \in later : \A f \in later :
                        Signed(sys.evq_target_cycle[e] - sys.cpu_cycle_counter) <=
                        Signed(sys.evq_target_cycle[f] - sys.cpu_cycle_counter)
  <2>1. n = IF later = {} THEN NoTarget ELSE sys.evq_target_cycle[first]
    BY DEF Soonest, Pending
  <2>2. \A e \in Pending : /\ Signed(sys.evq_target_cycle[e] - sys.cpu_cycle_counter) = backlog[e]
                           /\ backlog[e] \in Int /\ sys.downcount <= backlog[e]
    BY <1>2, <1>3, BacklogsAre DEF Exact, Left, Ahead, InTime
  <2>3. later # {} => first \in later
    <3>1. SUFFICES ASSUME later # {} PROVE \E e \in later : \A f \in later :
                        Signed(sys.evq_target_cycle[e] - sys.cpu_cycle_counter) <=
                        Signed(sys.evq_target_cycle[f] - sys.cpu_cycle_counter)
      OBVIOUS
    <3> DEFINE S == {backlog[e] : e \in later}
    <3>2. \A e \in later : /\ Signed(sys.evq_target_cycle[e] - sys.cpu_cycle_counter) = backlog[e]
                           /\ backlog[e] \in Nat
      BY <2>2
    <3> HIDE DEF later
    <3>3. S \subseteq Nat /\ S # {}
      BY <3>1, <3>2
    <3>4. PICK k \in S : \A j \in S : k <= j
      BY <3>3, LeastOf
    <3>5. PICK e \in later : k = backlog[e]
      OBVIOUS
    <3>6. \A f \in later : backlog[e] <= backlog[f]
      BY <3>4, <3>5
    <3> QED
      BY <3>2, <3>5, <3>6
  <2>4. VBLANK \in Pending /\ sys.downcount <= backlog[VBLANK] /\ backlog[VBLANK] \in Int
    BY <1>2, <2>2
  <2>5. NoTarget \in CycleOf
    BY Halves DEF NoTarget, CycleOf
  <2>6. CASE later = {}
    <3>1. n = NoTarget
      BY <2>1, <2>6
    <3>2. ~(backlog[VBLANK] > 0)
      BY <2>2, <2>4, <2>6
    <3>3. sys.downcount <= 0
      BY <1>3, <2>4, <3>2
    <3>4. Left(sys, n) \in Int
      BY <1>3, <2>5, <3>1, DistanceIs, Halves DEF Left
    <3> QED
      BY <1>3, <2>5, <3>1, <3>3, <3>4
  <2>7. CASE later # {}
    <3>1. first \in Pending /\ n = sys.evq_target_cycle[first]
      BY <2>1, <2>3, <2>7
    <3> HIDE DEF later, first
    <3>2. n \in CycleOf
      BY <1>3, <3>1
    <3>3. Left(sys, n) = backlog[first]
      BY <2>2, <3>1 DEF Left
    <3> QED
      BY <2>2, <3>1, <3>2, <3>3
  <2> QED
    BY <2>6, <2>7
<1> HIDE DEF n
<1>5. /\ r \in Machines /\ r.evq_next_cycle = n /\ r.downcount = sys.downcount
      /\ r.cpu_cycle_counter = sys.cpu_cycle_counter /\ r.evq_target_cycle = sys.evq_target_cycle
  BY <1>3, <1>4 DEF Machines
<1> HIDE DEF r
<1>6. /\ s \in Machines /\ s.evq_next_cycle = n /\ s.downcount = sys.downcount
      /\ s.cpu_cycle_counter = sys.cpu_cycle_counter /\ s.evq_target_cycle = sys.evq_target_cycle
      /\ s.cpu_mem_stall_cycles = 0
  BY <1>5 DEF Machines
<1> HIDE DEF s
<1>7. Exact(s, backlog) /\ InTime(s, backlog) /\ Told(s)
  BY <1>2, <1>4, <1>6 DEF Exact, InTime, Told, Left, Ahead
<1>8. s.cpu_mem_stall_cycles <= SlicesMost + (IF faulted THEN StallMost ELSE 0)
  BY <1>2, <1>6, InstructionCosts
<1>9. Ahead'
  BY <1>1, <1>2, <1>7, <1>8 DEF Ahead
<1> QED
  BY <1>1, <1>2, <1>3, <1>6, <1>7, <1>9 DEF QueueIInv, Pending, Exact

LEMMA Scanning ==
  ASSUME QueueIInv, scan # Running
  PROVE  /\ Scanned /\ Exact(sys, backlog) /\ VBLANK \in Pending /\ faulted = FALSE
         /\ DOMAIN backlog = Pending /\ Pending \subseteq Events
         /\ \A e \in Pending : backlog[e] \in Int
         /\ scan.event \in Nat /\ scan.event <= LastEvent + 1 /\ LastEvent \in Nat
         /\ sys \in Machines /\ sys.cpu_mem_stall_cycles \in Nat
<1>1. Scanned /\ Exact(sys, backlog) /\ VBLANK \in Pending /\ faulted = FALSE
  BY DEF QueueIInv, Scanned
<1>2. DOMAIN backlog = Pending /\ Pending \subseteq Events /\ \A e \in Pending : backlog[e] \in Int
  BY <1>1, BacklogsAre DEF Exact, Pending
<1>3. scan.event \in 0 .. LastEvent + 1
  BY <1>1 DEF Scanned, Scans
<1>4. sys \in Machines /\ sys.cpu_mem_stall_cycles \in Nat
  BY <1>1 DEF Exact, Machines
<1> QED
  BY <1>1, <1>2, <1>3, <1>4, MostIs

(* A slot of the scan is a dispatch's.                                     *)
LEMMA SlotIs ==
  ASSUME QueueIInv, scan.event \in Nat
  PROVE  scan # Running
<1>1. Running.event = -1
  BY DEF Running
<1>2. scan.event # -1
  OBVIOUS
<1> QED
  BY <1>1, <1>2

LEMMA NextSlot ==
  ASSUME scan \in Scans, scan.event \in Events
  PROVE  /\ [scan EXCEPT !.event = @ + 1] \in Scans
         /\ [scan EXCEPT !.event = @ + 1].event = scan.event + 1
         /\ [scan EXCEPT !.event = @ + 1].pending = scan.pending
         /\ [scan EXCEPT !.event = @ + 1].any_fired = scan.any_fired
         /\ [scan EXCEPT !.event = @ + 1].soonest = scan.soonest
         /\ [scan EXCEPT !.event = @ + 1].best_delta = scan.best_delta
<1> DEFINE n == scan.event + 1
           r == [scan EXCEPT !.event = n]
<1>1. n \in 0 .. LastEvent + 1
  BY MostIs DEF Events
<1> HIDE DEF n
<1>2. /\ r \in Scans /\ r.event = n /\ r.pending = scan.pending /\ r.any_fired = scan.any_fired
      /\ r.soonest = scan.soonest /\ r.best_delta = scan.best_delta
  BY <1>1 DEF Scans
<1> QED
  BY <1>2 DEF n

LEMMA SkipKeeps == ASSUME QueueIInv, Skip PROVE QueueIInv'
<1> DEFINE r == [scan EXCEPT !.event = @ + 1]
<1>1. /\ scan.event \in Events /\ scan.event \notin scan.pending
      /\ scan' = r /\ sys' = sys /\ faulted' = faulted /\ backlog' = backlog
  BY DEF Skip, AtPending
<1>2. scan # Running
  BY <1>1, SlotIs, MostIs DEF Events
<1>3. /\ Scanned /\ Exact(sys, backlog) /\ VBLANK \in Pending /\ faulted = FALSE
      /\ DOMAIN backlog = Pending /\ Pending \subseteq Events
      /\ \A e \in Pending : backlog[e] \in Int
      /\ scan.event \in Nat /\ LastEvent \in Nat
      /\ sys.cpu_mem_stall_cycles \in Nat
  BY <1>2, Scanning
<1>4. /\ r \in Scans /\ r.event = scan.event + 1 /\ r.pending = scan.pending
      /\ r.any_fired = scan.any_fired /\ r.soonest = scan.soonest /\ r.best_delta = scan.best_delta
  BY <1>1, <1>3, NextSlot DEF Scanned
<1> HIDE DEF r
<1>5. \A e \in Events : e < scan.event + 1 => e < scan.event \/ e = scan.event
  BY <1>3 DEF Events
<1>6. \A e \in Events : e >= scan.event + 1 => e >= scan.event
  BY <1>3 DEF Events
<1>7. \A e \in Pending : e < r.event \/ e \notin r.pending => backlog[e] > 0
  BY <1>1, <1>3, <1>4, <1>5 DEF Scanned
<1>8. \A e \in r.pending : e >= r.event => e \in Pending
  BY <1>3, <1>4, <1>6 DEF Scanned, Scans
<1>9. \/ sys.cpu_mem_stall_cycles <= StallMost * r.event
      \/ AtLeast(backlog, 1) /\ sys.cpu_mem_stall_cycles <= SlicesMost
  <2>1. /\ StallMost * r.event = StallMost * scan.event + StallMost
        /\ StallMost * scan.event \in Nat /\ StallMost \in Nat
    BY <1>3, <1>4, Bounds, MostIs
  <2> DEFINE a == StallMost * scan.event
             b == StallMost * r.event
  <2>2. sys.cpu_mem_stall_cycles <= a \/ (AtLeast(backlog, 1) /\ sys.cpu_mem_stall_cycles <= SlicesMost)
    BY <1>3 DEF Scanned
  <2>3. b = a + StallMost /\ a \in Nat
    BY <2>1
  <2> HIDE DEF a, b
  <2>4. sys.cpu_mem_stall_cycles <= a => sys.cpu_mem_stall_cycles <= b
    BY <1>3, <2>1, <2>3
  <2>5. sys.cpu_mem_stall_cycles <= b \/ (AtLeast(backlog, 1) /\ sys.cpu_mem_stall_cycles <= SlicesMost)
    BY <2>2, <2>4
  <2> QED
    BY <2>5 DEF b
<1>10. ~r.any_fired => /\ r.pending = Pending
                       /\ \A e \in Pending : e < r.event => r.best_delta <= backlog[e]
  BY <1>1, <1>3, <1>4, <1>5 DEF Scanned
<1>11. AtLeast(backlog, 1 - Half) /\ (r.best_delta = CounterModulus \/ r.best_delta = Left(sys, r.soonest))
  BY <1>3, <1>4 DEF Scanned
<1>12. Scanned'
  BY <1>1, <1>3, <1>4, <1>7, <1>8, <1>9, <1>10, <1>11 DEF Scanned, Pending
<1> QED
  BY <1>1, <1>3, <1>12 DEF QueueIInv, Pending

(* Due, in exact cycles.                                                   *)
LEMMA DueMeans ==
  ASSUME QueueIInv, scan # Running, NEW e \in Pending
  PROVE  Due(e) <=> backlog[e] <= 0
<1>1. /\ Exact(sys, backlog) /\ DOMAIN backlog = Pending /\ AtLeast(backlog, 1 - Half)
      /\ backlog[e] \in Int
  BY Scanning DEF Scanned
<1>2. /\ sys.evq_target_cycle[e] \in CycleOf /\ sys.cpu_cycle_counter \in CycleOf
      /\ Signed(sys.evq_target_cycle[e] - sys.cpu_cycle_counter) = backlog[e]
  BY <1>1, TargetsAre DEF Exact, Machines, Pending, Left
<1>3. backlog[e] > -Half
  BY <1>1, Halves DEF AtLeast
<1> QED
  BY <1>2, <1>3, DueIs DEF Due

LEMMA WaitKeeps == ASSUME QueueIInv, Wait PROVE QueueIInv'
<1> DEFINE target == sys.evq_target_cycle[scan.event]
           delta  == Signed(target - sys.cpu_cycle_counter)
           better == delta > 0 /\ delta < scan.best_delta
           best   == IF better THEN delta ELSE scan.best_delta
           soon   == IF better THEN target ELSE scan.soonest
           a == [scan EXCEPT !.event = @ + 1]
           b == [a EXCEPT !.best_delta = best]
           r == [b EXCEPT !.soonest = soon]
<1>1. /\ scan.event \in Events /\ scan.event \in scan.pending /\ ~Due(scan.event)
      /\ sys' = sys /\ faulted' = faulted /\ backlog' = backlog
  BY DEF Wait, AtPending
<1>2. scan # Running
  BY <1>1, SlotIs, MostIs DEF Events
<1>3. /\ Scanned /\ Exact(sys, backlog) /\ VBLANK \in Pending /\ faulted = FALSE
      /\ DOMAIN backlog = Pending /\ Pending \subseteq Events
      /\ \A e \in Pending : backlog[e] \in Int
      /\ scan.event \in Nat /\ LastEvent \in Nat
      /\ sys.cpu_mem_stall_cycles \in Nat /\ sys \in Machines
  BY <1>2, Scanning
<1>4. scan.event \in Pending
  BY <1>1, <1>3 DEF Scanned
<1>5. backlog[scan.event] > 0
  BY <1>1, <1>2, <1>3, <1>4, DueMeans
<1>6. target \in CycleOf /\ delta = backlog[scan.event] /\ delta \in 1 .. Half - 1
  <2>1. target \in CycleOf /\ delta = backlog[scan.event]
    BY <1>3, <1>4, TargetsAre DEF Exact, Machines, Pending, Left
  <2>2. backlog[scan.event] \in -Half .. Half - 1
    BY <1>3, <1>4, ExactRange
  <2> QED
    BY <1>5, <2>1, <2>2, Halves
<1>7. /\ scan.best_delta \in 1 .. CounterModulus /\ scan.soonest \in CycleOf
      /\ scan.best_delta = CounterModulus \/ scan.best_delta = Left(sys, scan.soonest)
  BY <1>3 DEF Scanned, Scans
<1>8. Left(sys, target) = delta
  BY DEF Left
<1>9. scan' = [scan EXCEPT !.event = @ + 1, !.best_delta = best, !.soonest = soon]
  BY DEF Wait
<1> HIDE DEF target, delta
<1>10. /\ best \in 1 .. CounterModulus /\ soon \in CycleOf /\ best <= scan.best_delta /\ best <= delta
       /\ best = CounterModulus \/ best = Left(sys, soon)
  BY <1>6, <1>7, <1>8, Halves
<1> HIDE DEF best, soon
<1>11. scan' = r
  BY <1>9
<1>12. /\ a \in Scans /\ a.event = scan.event + 1 /\ a.pending = scan.pending
       /\ a.any_fired = scan.any_fired
  BY <1>1, <1>3, NextSlot DEF Scanned
<1> HIDE DEF a
<1>13. /\ r \in Scans /\ r.event = scan.event + 1 /\ r.pending = scan.pending
       /\ r.any_fired = scan.any_fired /\ r.soonest = soon /\ r.best_delta = best
  BY <1>10, <1>12 DEF Scans
<1> HIDE DEF r
<1>14. \A e \in Events : e < scan.event + 1 => e < scan.event \/ e = scan.event
  BY <1>3 DEF Events
<1>15. \A e \in Events : e >= scan.event + 1 => e >= scan.event
  BY <1>3 DEF Events
<1>16. \A e \in Pending : e < r.event \/ e \notin r.pending => backlog[e] > 0
  BY <1>3, <1>5, <1>13, <1>14 DEF Scanned
<1>17. \A e \in r.pending : e >= r.event => e \in Pending
  BY <1>3, <1>13, <1>15 DEF Scanned, Scans
<1>18. \/ sys.cpu_mem_stall_cycles <= StallMost * r.event
       \/ AtLeast(backlog, 1) /\ sys.cpu_mem_stall_cycles <= SlicesMost
  <2>1. /\ StallMost * r.event = StallMost * scan.event + StallMost
        /\ StallMost * scan.event \in Nat /\ StallMost \in Nat
    BY <1>3, <1>13, Bounds, MostIs
  <2> DEFINE m == StallMost * scan.event
             n == StallMost * r.event
  <2>2. sys.cpu_mem_stall_cycles <= m \/ (AtLeast(backlog, 1) /\ sys.cpu_mem_stall_cycles <= SlicesMost)
    BY <1>3 DEF Scanned
  <2>3. n = m + StallMost /\ m \in Nat
    BY <2>1
  <2> HIDE DEF m, n
  <2>4. sys.cpu_mem_stall_cycles <= m => sys.cpu_mem_stall_cycles <= n
    BY <1>3, <2>1, <2>3
  <2>5. sys.cpu_mem_stall_cycles <= n \/ (AtLeast(backlog, 1) /\ sys.cpu_mem_stall_cycles <= SlicesMost)
    BY <2>2, <2>4
  <2> QED
    BY <2>5 DEF n
<1>19. ~r.any_fired => /\ r.pending = Pending
                       /\ \A e \in Pending : e < r.event => r.best_delta <= backlog[e]
  <2>1. ASSUME ~r.any_fired, NEW e \in Pending, e < r.event PROVE r.best_delta <= backlog[e]
    <3>1. e = scan.event \/ e < scan.event
      BY <1>3, <1>13, <1>14, <2>1
    <3>2. e < scan.event => scan.best_delta <= backlog[e]
      BY <1>3, <1>13, <2>1 DEF Scanned
    <3>3. backlog[e] \in Int /\ best \in Int /\ scan.best_delta \in Int /\ best <= scan.best_delta
      BY <1>3, <1>7, <1>10, Halves
    <3> QED
      BY <1>6, <1>10, <1>13, <3>1, <3>2, <3>3
  <2> QED
    BY <1>3, <1>13, <2>1 DEF Scanned
<1>20. AtLeast(backlog, 1 - Half) /\ (r.best_delta = CounterModulus \/ r.best_delta = Left(sys, r.soonest))
  BY <1>3, <1>10, <1>13 DEF Scanned
<1>21. Scanned'
  BY <1>1, <1>3, <1>11, <1>13, <1>16, <1>17, <1>18, <1>19, <1>20 DEF Scanned, Pending
<1> QED
  BY <1>1, <1>3, <1>21 DEF QueueIInv, Pending

(* A due slot has fired: the queue without it, or with what it scheduled.  *)
LEMMA FireKeeps ==
  ASSUME QueueIInv, NEW reschedule \in Reschedules(scan.event), NEW stall \in {0} \cup MemStalls,
         Fire(reschedule, stall)
  PROVE  QueueIInv'
<1> DEFINE x == scan.event
           c == sys.cpu_mem_stall_cycles + stall
           f == Without(sys.evq_target_cycle, x)
           q == [sys EXCEPT !.evq_target_cycle = f, !.cpu_mem_stall_cycles = c]
           l == Without(backlog, x)
           a == [scan EXCEPT !.event = @ + 1]
           r == [a EXCEPT !.any_fired = TRUE]
<1>1. /\ x \in Events /\ x \in scan.pending /\ Due(x) /\ scan' = r /\ faulted' = faulted
      /\ IF reschedule = <<>> THEN sys' = q /\ backlog' = l
         ELSE /\ sys' = Schedule(q, reschedule[1], reschedule[2])
              /\ backlog' = With(l, reschedule[1], reschedule[2])
  BY DEF Fire, AtPending
<1>2. scan # Running
  BY <1>1, SlotIs, MostIs DEF Events
<1>3. /\ Scanned /\ Exact(sys, backlog) /\ VBLANK \in Pending /\ faulted = FALSE
      /\ DOMAIN backlog = Pending /\ Pending \subseteq Events
      /\ \A e \in Pending : backlog[e] \in Int
      /\ scan.event \in Nat /\ LastEvent \in Nat
      /\ sys.cpu_mem_stall_cycles \in Nat /\ sys \in Machines
  BY <1>2, Scanning
<1>4. x \in Pending
  BY <1>1, <1>3 DEF Scanned
<1>5. backlog[x] <= 0
  BY <1>1, <1>2, <1>4, DueMeans
<1>6. stall \in Nat /\ stall <= StallMost /\ StallMost \in Nat
  BY MostIs
<1>7. c \in Nat /\ c <= StallMost * (x + 1)
  <2>1. sys.cpu_mem_stall_cycles <= StallMost * x
    BY <1>3, <1>4, <1>5 DEF Scanned, AtLeast
  <2>2. StallMost * (x + 1) = StallMost * x + StallMost /\ StallMost * x \in Nat
    BY <1>3, Bounds
  <2> QED
    BY <1>3, <1>6, <2>1, <2>2
<1> HIDE DEF c
<1>8. f \in Targets /\ DOMAIN f = Pending \ {x} /\ \A e \in Pending \ {x} : f[e] = sys.evq_target_cycle[e]
  <2>1. sys.evq_target_cycle \in Targets /\ DOMAIN sys.evq_target_cycle = Pending
    BY <1>3 DEF Machines, Pending
  <2>2. f \in Targets /\ DOMAIN f = Pending \ {x}
    BY <1>3, <2>1, WithoutIs
  <2>3. \A e \in Pending \ {x} : f[e] = sys.evq_target_cycle[e]
    BY <2>1 DEF Without
  <2> QED
    BY <2>2, <2>3
<1>9. l \in Backlogs /\ DOMAIN l = Pending \ {x} /\ \A e \in Pending \ {x} : l[e] = backlog[e]
  <2>1. backlog \in Backlogs
    BY <1>3 DEF Exact
  <2>2. l \in Backlogs /\ DOMAIN l = Pending \ {x}
    BY <1>3, <2>1, WithoutIs
  <2>3. \A e \in Pending \ {x} : l[e] = backlog[e]
    BY <1>3 DEF Without
  <2> QED
    BY <2>2, <2>3
<1> HIDE DEF f
<1>10. /\ q \in Machines /\ q.evq_target_cycle = f /\ q.cpu_mem_stall_cycles = c
       /\ q.cpu_cycle_counter = sys.cpu_cycle_counter
  BY <1>3, <1>7, <1>8 DEF Machines
<1> HIDE DEF q, l
<1>11. Exact(q, l)
  BY <1>3, <1>8, <1>9, <1>10 DEF Exact, Left, Pending
<1>12. /\ a \in Scans /\ a.event = x + 1 /\ a.pending = scan.pending
       /\ a.soonest = scan.soonest /\ a.best_delta = scan.best_delta
  BY <1>1, <1>3, NextSlot DEF Scanned
<1> HIDE DEF a
<1>13. /\ r \in Scans /\ r.event = x + 1 /\ r.pending = scan.pending /\ r.any_fired = TRUE
       /\ r.soonest = scan.soonest /\ r.best_delta = scan.best_delta
  BY <1>12 DEF Scans
<1> HIDE DEF r
<1>14. /\ Exact(sys', backlog') /\ sys'.cpu_mem_stall_cycles = c
       /\ sys'.cpu_cycle_counter = sys.cpu_cycle_counter
       /\ DOMAIN backlog' \subseteq Events /\ Pending \ {x} \subseteq DOMAIN backlog' /\ VBLANK \in DOMAIN backlog'
       /\ \A e \in DOMAIN backlog' : \/ backlog'[e] > 0
                                     \/ e \in Pending \ {x} /\ backlog'[e] = backlog[e]
  <2>1. CASE reschedule = <<>>
    <3>1. x # VBLANK
      <4>1. ASSUME x = VBLANK PROVE FALSE
        <5>1. reschedule \in {VBLANK} \X Delays
          BY <4>1 DEF Reschedules
        <5> QED
          BY <2>1, <5>1
      <4> QED
        BY <4>1
    <3>2. sys' = q /\ backlog' = l
      BY <1>1, <2>1
    <3> QED
      BY <1>3, <1>9, <1>10, <1>11, <3>1, <3>2
  <2>2. CASE reschedule # <<>>
    <3> DEFINE e0 == reschedule[1]
               d == reschedule[2]
    <3>1. e0 \in Events /\ d \in Delays /\ (x = VBLANK => e0 = VBLANK)
      <4>1. VBLANK \in Events
        BY MostIs DEF Events, VBLANK
      <4> QED
        BY <2>2, <4>1 DEF Reschedules
    <3>2. sys' = Schedule(q, e0, d) /\ backlog' = With(l, e0, d)
      BY <1>1, <2>2
    <3> HIDE DEF e0, d
    <3>3. /\ Exact(sys', backlog') /\ sys'.cpu_mem_stall_cycles = q.cpu_mem_stall_cycles
          /\ sys'.cpu_cycle_counter = q.cpu_cycle_counter
          /\ DOMAIN backlog' = DOMAIN l \cup {e0} /\ d \in 1 .. Half - 1
      <4> DEFINE s == Schedule(q, e0, d)
                 m == With(l, e0, d)
      <4>1. Exact(q, l) /\ e0 \in Events /\ d \in Delays
        BY <1>11, <3>1
      <4>2. Exact(s, m)
        BY <4>1, ScheduleKeeps
      <4>3. s.cpu_mem_stall_cycles = q.cpu_mem_stall_cycles /\ s.cpu_cycle_counter = q.cpu_cycle_counter
        BY <4>1, ScheduleKeeps
      <4>4. DOMAIN m = DOMAIN l \cup {e0} /\ d \in 1 .. Half - 1
        BY <4>1, ScheduleKeeps
      <4>5. sys' = s /\ backlog' = m
        BY <3>2
      <4> HIDE DEF s, m
      <4> QED
        BY <4>2, <4>3, <4>4, <4>5
    <3>4. backlog'[e0] = d /\ \A e \in DOMAIN l : e # e0 => backlog'[e] = l[e]
      BY <3>2 DEF With
    <3>5. d > 0
      BY <3>3, Halves
    <3>6. ASSUME NEW e \in DOMAIN backlog'
          PROVE  backlog'[e] > 0 \/ (e \in Pending \ {x} /\ backlog'[e] = backlog[e])
      <4>1. CASE e = e0
        BY <3>4, <3>5, <4>1
      <4>2. CASE e # e0
        BY <1>9, <3>3, <3>4, <3>6, <4>2
      <4> QED
        BY <4>1, <4>2
    <3> QED
      BY <1>3, <1>9, <1>10, <3>1, <3>3, <3>6
  <2> QED
    BY <2>1, <2>2
<1>15. Pending' = DOMAIN backlog'
  BY <1>14 DEF Exact, Pending
<1>16. AtLeast(backlog', 1 - Half)
  <2>1. ASSUME NEW e \in DOMAIN backlog' PROVE 1 - Half <= backlog'[e]
    <3>1. backlog'[e] \in Int
      BY <1>14, BacklogsAre DEF Exact
    <3>2. CASE backlog'[e] > 0
      BY <3>1, <3>2, Halves
    <3>3. CASE e \in Pending \ {x} /\ backlog'[e] = backlog[e]
      BY <1>3, <3>3 DEF Scanned, AtLeast
    <3> QED
      BY <1>14, <3>2, <3>3
  <2> QED
    BY <2>1 DEF AtLeast
<1>17. \A e \in Pending' : e < r.event \/ e \notin r.pending => backlog'[e] > 0
  <2>1. ASSUME NEW e \in Pending', e < r.event \/ e \notin r.pending PROVE backlog'[e] > 0
    <3>1. CASE e \in Pending \ {x} /\ backlog'[e] = backlog[e]
      <4>1. e < x \/ e \notin scan.pending
        <5>1. e \in Nat /\ e # x
          BY <1>3, <3>1, MostIs DEF Events
        <5> QED
          BY <1>3, <1>13, <2>1, <5>1
      <4> QED
        BY <1>3, <3>1, <4>1 DEF Scanned
    <3> QED
      BY <1>14, <1>15, <3>1
  <2> QED
    BY <2>1
<1>18. \A e \in r.pending : e >= r.event => e \in Pending'
  <2>1. ASSUME NEW e \in scan.pending, e >= x + 1 PROVE e \in Pending'
    <3>1. e \in Nat
      BY <1>3 DEF Scanned, Scans, Events
    <3>2. e >= x /\ e # x
      BY <1>3, <2>1, <3>1
    <3>3. e \in Pending \ {x}
      BY <1>3, <3>2 DEF Scanned
    <3> QED
      BY <1>14, <1>15, <3>3
  <2> QED
    BY <1>13, <2>1
<1>19. sys'.cpu_mem_stall_cycles <= StallMost * r.event
  BY <1>7, <1>13, <1>14
<1>20. r.best_delta = CounterModulus \/ r.best_delta = Left(sys', r.soonest)
  BY <1>3, <1>13, <1>14 DEF Scanned, Left
<1>21. Scanned'
  BY <1>1, <1>3, <1>13, <1>16, <1>17, <1>18, <1>19, <1>20 DEF Scanned
<1> QED
  BY <1>1, <1>3, <1>14, <1>15, <1>21 DEF QueueIInv

LEMMA NextPassKeeps == ASSUME QueueIInv, NextPass PROVE QueueIInv'
<1>1. /\ scan.event = LastEvent + 1 /\ scan' = Pass(sys)
      /\ sys' = sys /\ faulted' = faulted /\ backlog' = backlog
  BY DEF NextPass
<1>2. scan # Running
  BY <1>1, SlotIs, MostIs
<1>3. /\ Scanned /\ Exact(sys, backlog) /\ VBLANK \in Pending /\ faulted = FALSE
      /\ DOMAIN backlog = Pending /\ Pending \subseteq Events
      /\ \A e \in Pending : backlog[e] \in Int
      /\ LastEvent \in Nat /\ sys.cpu_mem_stall_cycles \in Nat
  BY <1>2, Scanning
<1>4. AtLeast(backlog, 1)
  <2>1. \A e \in Pending : e < scan.event
    BY <1>1, <1>3 DEF Events
  <2>2. \A e \in Pending : backlog[e] > 0
    BY <1>3, <2>1 DEF Scanned
  <2> QED
    BY <1>3, <2>2 DEF AtLeast
<1>5. /\ scan' \in Scans /\ scan'.event = 0 /\ scan'.pending = Pending
      /\ scan'.best_delta = CounterModulus /\ scan'.any_fired = FALSE
  BY <1>1, <1>3, MostIs, Halves DEF Pass, Scans, NoTarget, CycleOf, Pending
<1>6. \A e \in Pending : ~(e < 0)
  BY <1>3 DEF Events
<1>7. sys.cpu_mem_stall_cycles <= SlicesMost
  <2>1. StallMost * scan.event = SlicesMost
    BY <1>1 DEF SlicesMost
  <2> QED
    BY <1>3, <2>1 DEF Scanned
<1>8. Scanned'
  BY <1>1, <1>3, <1>4, <1>5, <1>6, <1>7 DEF Scanned, Pending
<1> QED
  BY <1>1, <1>3, <1>8 DEF QueueIInv, Pending

LEMMA ReturnKeeps == ASSUME QueueIInv, Return PROVE QueueIInv'
<1> DEFINE ahead == Signed(scan.soonest - sys.cpu_cycle_counter)
           n == scan.soonest
           d == IF scan.soonest # NoTarget /\ ahead > 0 THEN ahead ELSE 1
           s == [sys EXCEPT !.evq_next_cycle = n, !.downcount = d]
<1>1. /\ scan.event = LastEvent + 1 /\ ~scan.any_fired /\ scan' = Running
      /\ sys' = s /\ faulted' = faulted /\ backlog' = backlog
  BY DEF Return
<1>2. scan # Running
  BY <1>1, SlotIs, MostIs
<1>3. /\ Scanned /\ Exact(sys, backlog) /\ VBLANK \in Pending /\ faulted = FALSE
      /\ DOMAIN backlog = Pending /\ Pending \subseteq Events
      /\ \A e \in Pending : backlog[e] \in Int
      /\ LastEvent \in Nat /\ sys.cpu_mem_stall_cycles \in Nat /\ sys \in Machines
  BY <1>2, Scanning
<1>4. \A e \in Pending : backlog[e] > 0 /\ scan.best_delta <= backlog[e]
  <2>1. \A e \in Pending : e < scan.event
    BY <1>1, <1>3 DEF Events
  <2> QED
    BY <1>1, <1>3, <2>1 DEF Scanned
<1>5. scan.best_delta = ahead /\ ahead \in -Half .. Half - 1 /\ n \in CycleOf /\ scan.best_delta > 0
  <2>1. n \in CycleOf /\ scan.best_delta \in 1 .. CounterModulus /\ sys.cpu_cycle_counter \in CycleOf
    BY <1>3 DEF Scanned, Scans, Machines
  <2>2. ahead \in -Half .. Half - 1
    BY <2>1, DistanceIs
  <2>3. backlog[VBLANK] \in -Half .. Half - 1
    BY <1>3, ExactRange
  <2>4. scan.best_delta # CounterModulus
    BY <1>3, <1>4, <2>3, Halves
  <2>5. scan.best_delta = ahead
    BY <1>3, <2>4 DEF Scanned, Left
  <2> HIDE DEF n, ahead
  <2> QED
    BY <2>1, <2>2, <2>5, Halves
<1>6. Left(sys, n) = ahead
  BY DEF Left
<1> HIDE DEF ahead, n
<1>7. d \in Int /\ d < Half /\ d <= ahead /\ d >= 1
  <2>1. d \in {ahead, 1}
    BY DEF n
  <2> HIDE DEF d
  <2> QED
    BY <1>5, <2>1, Halves
<1> HIDE DEF d
<1>8. /\ s \in Machines /\ s.evq_next_cycle = n /\ s.downcount = d
      /\ s.cpu_cycle_counter = sys.cpu_cycle_counter /\ s.evq_target_cycle = sys.evq_target_cycle
      /\ s.cpu_mem_stall_cycles = sys.cpu_mem_stall_cycles
  BY <1>3, <1>5, <1>7 DEF Machines
<1> HIDE DEF s
<1>9. Exact(s, backlog)
  BY <1>3, <1>8 DEF Exact, Left
<1>10. InTime(s, backlog)
  BY <1>3, <1>4, <1>5, <1>7, <1>8, Halves DEF InTime
<1>11. Told(s)
  BY <1>6, <1>7, <1>8 DEF Told, Left
<1>12. AtLeast(backlog, 1)
  BY <1>3, <1>4 DEF AtLeast
<1>13. sys.cpu_mem_stall_cycles <= SlicesMost
  <2>1. StallMost * scan.event = SlicesMost
    BY <1>1 DEF SlicesMost
  <2> QED
    BY <1>3, <2>1 DEF Scanned
<1>14. Ahead'
  BY <1>1, <1>3, <1>8, <1>10, <1>11, <1>12, <1>13, InstructionCosts DEF Ahead
<1> QED
  BY <1>1, <1>3, <1>8, <1>9, <1>14 DEF QueueIInv, Pending
-----------------------------------------------------------------------------
LEMMA InitQueue == QueueInit => QueueIInv
<1> SUFFICES ASSUME QueueInit PROVE QueueIInv
  OBVIOUS
<1>1. PICK d \in Delays : sys = Schedule(Boot, VBLANK, d) /\ backlog = With(<<>>, VBLANK, d)
  BY DEF QueueInit
<1>2. scan = Running /\ faulted = FALSE
  BY DEF QueueInit
<1> DEFINE none == <<>>
<1>3. none \in Targets /\ none \in Backlogs /\ DOMAIN none = {}
  <2>1. DOMAIN none = {} /\ none = [x \in {} |-> 0]
    OBVIOUS
  <2> HIDE DEF none
  <2>2. none \in [{} -> CycleOf] /\ none \in [{} -> Int] /\ {} \in SUBSET Events
    BY <2>1
  <2> QED
    BY <2>1, <2>2 DEF Targets, Backlogs
<1>4. /\ Boot \in Machines /\ Boot.cpu_cycle_counter = 0 /\ Boot.downcount = 1
      /\ Boot.cpu_mem_stall_cycles = 0 /\ Boot.evq_next_cycle = 0 /\ Boot.evq_target_cycle = none
  <2>1. 0 \in CycleOf
    BY Halves DEF CycleOf
  <2>2. Boot = [cpu_cycle_counter |-> 0, downcount |-> 1, cpu_mem_stall_cycles |-> 0,
                evq_next_cycle |-> 0, evq_target_cycle |-> none]
    BY DEF Boot
  <2> HIDE DEF none
  <2> QED
    BY <1>3, <2>1, <2>2 DEF Machines
<1>5. backlog = With(none, VBLANK, d)
  BY <1>1
<1> HIDE DEF none
<1>6. Exact(Boot, none) /\ InTime(Boot, none) /\ Told(Boot)
  <2>1. Left(Boot, Boot.evq_next_cycle) = 0
    <3>1. 0 \in CycleOf /\ 0 - 0 = 0
      BY Halves DEF CycleOf
    <3>2. Signed(0 - 0) = 0
      BY <3>1, DistanceIs, Halves
    <3> QED
      BY <1>4, <3>2 DEF Left
  <2>2. 1 < Half \/ Half = 1
    BY Halves
  <2>3. 1 < Half
    <3>1. d \in 1 .. Half - 1
      BY SaneDelays DEF Half
    <3> QED
      BY <3>1, Halves
  <2> QED
    BY <1>3, <1>4, <2>1, <2>3 DEF Exact, InTime, Told
<1>7. VBLANK \in Events
  BY MostIs DEF Events, VBLANK
<1>8. /\ Exact(sys, backlog) /\ InTime(sys, backlog) /\ Told(sys) /\ DOMAIN backlog = {VBLANK}
      /\ sys.cpu_mem_stall_cycles = 0 /\ d \in 1 .. Half - 1
  <2> DEFINE s == Schedule(Boot, VBLANK, d)
             m == With(none, VBLANK, d)
  <2>1. Exact(Boot, none) /\ VBLANK \in Events /\ d \in Delays
    BY <1>1, <1>6, <1>7
  <2>2. Exact(s, m)
    BY <2>1, ScheduleKeeps
  <2>3. InTime(Boot, none) /\ Told(Boot) => InTime(s, m) /\ Told(s)
    BY <2>1, ScheduleKeeps
  <2>4. s.cpu_mem_stall_cycles = Boot.cpu_mem_stall_cycles
    BY <2>1, ScheduleKeeps
  <2>5. DOMAIN m = DOMAIN none \cup {VBLANK} /\ d \in 1 .. Half - 1
    BY <2>1, ScheduleKeeps
  <2>6. sys = s /\ backlog = m
    BY <1>1, <1>5
  <2> HIDE DEF s, m
  <2> QED
    BY <1>3, <1>4, <1>6, <2>2, <2>3, <2>4, <2>5, <2>6
<1>9. backlog[VBLANK] = d /\ d >= 1
  BY <1>5, <1>8, Halves DEF With
<1>10. Ahead
  BY <1>2, <1>8, <1>9, InstructionCosts DEF Ahead, AtLeast
<1> QED
  BY <1>2, <1>8, <1>10 DEF QueueIInv, Pending, Exact

LEMMA NextQueue == QueueIInv /\ [QueueNext]_queue_vars => QueueIInv'
<1> SUFFICES ASSUME QueueIInv, [QueueNext]_queue_vars PROVE QueueIInv'
  OBVIOUS
<1>1. CASE Instruction
  BY <1>1, PlainKeeps, StoreKeepsQueue, IrqKeeps, DmaKeeps, ExceptionKeeps DEF Instruction
<1>2. CASE Restore
  BY <1>2, RestoreKeeps
<1>3. CASE Dispatch
  BY <1>3, SkipKeeps, WaitKeeps, FireKeeps, NextPassKeeps, ReturnKeeps DEF Dispatch, Fires
<1>4. CASE UNCHANGED queue_vars
  BY <1>4 DEF queue_vars, QueueIInv, Ahead, Scanned, Pending
<1> QED
  BY <1>1, <1>2, <1>3, <1>4 DEF QueueNext

LEMMA SpecQueue == QueueInit /\ [][QueueNext]_queue_vars => []QueueIInv
<1>1. QueueInit => QueueIInv
  BY InitQueue
<1>2. QueueIInv /\ [QueueNext]_queue_vars => QueueIInv'
  BY NextQueue
<1> QED
  BY <1>1, <1>2, PTL

LEMMA ExactSchedule == QueueIInv => ScheduleIsExact
<1> SUFFICES ASSUME QueueIInv PROVE ScheduleIsExact
  OBVIOUS
<1>1. TargetsAreExact
  BY DEF QueueIInv, Exact, Left, TargetsAreExact, Pending
<1>2. ASSUME scan = Running
      PROVE  Ahead /\ DOMAIN backlog = Pending /\ \A e \in Pending : backlog[e] \in Int
  BY <1>2, NotRunning, BacklogsAre DEF QueueIInv, Scanned, Exact, Pending
<1>3. DowncountInTime
  BY <1>2 DEF DowncountInTime, Ahead, InTime
<1>4. NothingDueIsLeft
  BY <1>2 DEF NothingDueIsLeft, Ahead, AtLeast
<1> QED
  BY <1>1, <1>3, <1>4 DEF ScheduleIsExact

LEMMA FiresInTime == QueueIInv /\ [QueueNext]_queue_vars => [Fires => backlog[scan.event] <= 0]_queue_vars
<1> SUFFICES ASSUME QueueIInv, Fires PROVE backlog[scan.event] <= 0
  OBVIOUS
<1>1. scan.event \in Events /\ scan.event \in scan.pending /\ Due(scan.event)
  BY DEF Fires, Fire, AtPending
<1>2. scan # Running
  BY <1>1, SlotIs, MostIs DEF Events
<1>3. scan.event \in Pending
  BY <1>1, <1>2, Scanning DEF Scanned
<1> QED
  BY <1>1, <1>2, <1>3, DueMeans

(* The queue and the countdown of event_scheduler.c and cpu_step: for any  *)
(* modulus of the counter, the wrapped distances are the exact ones, and   *)
(* downcount runs out no later than the first event is due, through        *)
(* dispatches, exceptions, DMA stalls and loaded states.                   *)
THEOREM ScheduleStaysExact == QueueSpec => []ScheduleIsExact
BY ExactSchedule, SpecQueue, PTL DEF QueueSpec

(* eventq_dispatch_due fires no event before its time.                     *)
THEOREM NoEventIsEarly == QueueSpec => NoEventEarly
BY FiresInTime, SpecQueue, PTL DEF QueueSpec, NoEventEarly

-----------------------------------------------------------------------------
(* CpuAlu: at the edges, the arithmetic is the arithmetic of the integers; *)
(* the bytes of an unaligned word are those of the halves that are done.   *)

Span(p) == p.off .. (p.off + Len(p.bytes) - 1)

(* A store in one piece.                                                   *)
LEMMA OnePiece ==
  ASSUME NEW mem, NEW p
  PROVE  Planned(mem, {p}) =
           [b \in Bytes |-> IF b \in Span(p) THEN p.bytes[b - p.off + 1] ELSE mem[b]]
<1> SUFFICES ASSUME NEW b \in Bytes
             PROVE  (LET over == {x \in {p} : b \in Span(x)}
                     IN IF over = {} THEN mem[b]
                        ELSE LET x == CHOOSE x \in over : TRUE IN x.bytes[b - x.off + 1])
                    = IF b \in Span(p) THEN p.bytes[b - p.off + 1] ELSE mem[b]
  BY DEF Planned, Span
<1> DEFINE over == {x \in {p} : b \in Span(x)}
<1>1. CASE b \in Span(p)
  <2>1. over = {p}
    BY <1>1
  <2>2. (CHOOSE x \in {p} : TRUE) = p
    OBVIOUS
  <2> HIDE DEF over
  <2> QED
    BY <1>1, <2>1, <2>2
<1>2. CASE b \notin Span(p)
  <2>1. over = {}
    BY <1>2
  <2> HIDE DEF over
  <2> QED
    BY <1>2, <2>1
<1> QED
  BY <1>1, <1>2

(* A store in two pieces that do not overlap.                              *)
LEMMA TwoPieces ==
  ASSUME NEW mem, NEW p, NEW q, \A b \in Bytes : ~(b \in Span(p) /\ b \in Span(q))
  PROVE  Planned(mem, {p, q}) =
           [b \in Bytes |-> IF b \in Span(p) THEN p.bytes[b - p.off + 1]
                            ELSE IF b \in Span(q) THEN q.bytes[b - q.off + 1] ELSE mem[b]]
<1> SUFFICES ASSUME NEW b \in Bytes
             PROVE  (LET over == {x \in {p, q} : b \in Span(x)}
                     IN IF over = {} THEN mem[b]
                        ELSE LET x == CHOOSE x \in over : TRUE IN x.bytes[b - x.off + 1])
                    = IF b \in Span(p) THEN p.bytes[b - p.off + 1]
                      ELSE IF b \in Span(q) THEN q.bytes[b - q.off + 1] ELSE mem[b]
  BY DEF Planned, Span
<1> DEFINE over == {x \in {p, q} : b \in Span(x)}
<1>a. \A y : (CHOOSE x \in {y} : TRUE) = y
  OBVIOUS
<1>1. CASE b \in Span(p)
  <2>1. over = {p}
    BY <1>1
  <2> HIDE DEF over
  <2> QED
    BY <1>1, <1>a, <2>1
<1>2. CASE b \notin Span(p) /\ b \in Span(q)
  <2>1. over = {q}
    BY <1>2
  <2> HIDE DEF over
  <2> QED
    BY <1>2, <1>a, <2>1
<1>3. CASE b \notin Span(p) /\ b \notin Span(q)
  <2>1. over = {}
    BY <1>3
  <2> HIDE DEF over
  <2> QED
    BY <1>3, <2>1
<1> QED
  BY <1>1, <1>2, <1>3

LEMMA PieceIs ==
  ASSUME NEW off \in Bytes
  PROVE  /\ \A x : LET p == Piece(off, <<x>>)
                  IN /\ p.off = off /\ p.bytes[1] = x
                     /\ \A b \in Bytes : b \in Span(p) <=> b = off
         /\ \A x, y : LET p == Piece(off, <<x, y>>)
                     IN /\ p.off = off /\ p.bytes[1] = x /\ p.bytes[2] = y
                        /\ \A b \in Bytes : b \in Span(p) <=> b = off \/ b = off + 1
         /\ \A x, y, z, w : LET p == Piece(off, <<x, y, z, w>>)
                           IN /\ p.off = off /\ p.bytes[1] = x /\ p.bytes[2] = y
                              /\ p.bytes[3] = z /\ p.bytes[4] = w
                              /\ \A b \in Bytes : b \in Span(p) <=> b >= off
                                                   /\ b <= off + 3
<1>1. ASSUME NEW x
      PROVE  LET p == Piece(off, <<x>>)
             IN /\ p.off = off /\ p.bytes[1] = x
                /\ \A b \in Bytes : b \in Span(p) <=> b = off
  BY DEF Span, Piece, Bytes
<1>2. ASSUME NEW x, NEW y
      PROVE  LET p == Piece(off, <<x, y>>)
             IN /\ p.off = off /\ p.bytes[1] = x /\ p.bytes[2] = y
                /\ \A b \in Bytes : b \in Span(p) <=> b = off \/ b = off + 1
  BY DEF Span, Piece, Bytes
<1>3. ASSUME NEW x, NEW y, NEW z, NEW w
      PROVE  LET p == Piece(off, <<x, y, z, w>>)
             IN /\ p.off = off /\ p.bytes[1] = x /\ p.bytes[2] = y
                /\ p.bytes[3] = z /\ p.bytes[4] = w
                /\ \A b \in Bytes : b \in Span(p) <=> b >= off /\ b <= off + 3
  BY DEF Span, Piece, Bytes
<1> QED
  BY <1>1, <1>2, <1>3

LEMMA BytesAre == \A b \in Bytes : b = 0 \/ b = 1 \/ b = 2 \/ b = 3
BY DEF Bytes

(* The naturally aligned stores do what the merge does.                    *)
LEMMA SwlPlanIs ==
  ASSUME NEW mem, NEW rt, NEW off \in Bytes
  PROVE  Planned(mem, SwlPlan(rt, off)) = SwlMerge(mem, rt, off)
<1>1. CASE off = 0
  <2> DEFINE p == Piece(0, <<rt[3]>>)
  <2>1. SwlPlan(rt, off) = {p}
    BY <1>1 DEF SwlPlan
  <2>a. /\ \A b \in Bytes : b \in Span(p) <=> b = 0
        /\ p.off = 0 /\ p.bytes[1] = rt[3]
    <3>1. 0 \in Bytes /\ 0 + 1 = 1
      BY DEF Bytes
    <3> QED
      BY <3>1, PieceIs
  <2> HIDE DEF p
  <2>3. Planned(mem, {p}) = [b \in Bytes |-> IF b \in Span(p) THEN p.bytes[b - p.off + 1] ELSE mem[b]]
    BY OnePiece
  <2>4. ASSUME NEW b \in Bytes
        PROVE  (IF b \in Span(p) THEN p.bytes[b - p.off + 1] ELSE mem[b])
               = IF b <= off THEN rt[b + 3 - off] ELSE mem[b]
    <3>1. CASE b = 0
      BY <1>1, <2>a, <3>1
    <3>2. CASE b = 1
      BY <1>1, <2>a, <3>2
    <3>3. CASE b = 2
      BY <1>1, <2>a, <3>3
    <3>4. CASE b = 3
      BY <1>1, <2>a, <3>4
    <3> QED
      BY <3>1, <3>2, <3>3, <3>4, BytesAre
  <2> QED
    BY <2>1, <2>3, <2>4 DEF SwlMerge
<1>2. CASE off = 1
  <2> DEFINE p == Piece(0, <<rt[2], rt[3]>>)
  <2>1. SwlPlan(rt, off) = {p}
    BY <1>2 DEF SwlPlan
  <2>a. /\ \A b \in Bytes : b \in Span(p) <=> b = 0 \/ b = 1
        /\ p.off = 0 /\ p.bytes[1] = rt[2] /\ p.bytes[2] = rt[3]
    <3>1. 0 \in Bytes /\ 0 + 1 = 1
      BY DEF Bytes
    <3> QED
      BY <3>1, PieceIs
  <2> HIDE DEF p
  <2>3. Planned(mem, {p}) = [b \in Bytes |-> IF b \in Span(p) THEN p.bytes[b - p.off + 1] ELSE mem[b]]
    BY OnePiece
  <2>4. ASSUME NEW b \in Bytes
        PROVE  (IF b \in Span(p) THEN p.bytes[b - p.off + 1] ELSE mem[b])
               = IF b <= off THEN rt[b + 3 - off] ELSE mem[b]
    <3>1. CASE b = 0
      BY <1>2, <2>a, <3>1
    <3>2. CASE b = 1
      BY <1>2, <2>a, <3>2
    <3>3. CASE b = 2
      BY <1>2, <2>a, <3>3
    <3>4. CASE b = 3
      BY <1>2, <2>a, <3>4
    <3> QED
      BY <3>1, <3>2, <3>3, <3>4, BytesAre
  <2> QED
    BY <2>1, <2>3, <2>4 DEF SwlMerge
<1>3. CASE off = 2
  <2> DEFINE p == Piece(0, <<rt[1], rt[2]>>)
             q == Piece(2, <<rt[3]>>)
  <2>1. SwlPlan(rt, off) = {p, q}
    BY <1>3 DEF SwlPlan
  <2>a. /\ \A b \in Bytes : b \in Span(p) <=> b = 0 \/ b = 1
        /\ p.off = 0 /\ p.bytes[1] = rt[1] /\ p.bytes[2] = rt[2]
    <3>1. 0 \in Bytes /\ 0 + 1 = 1
      BY DEF Bytes
    <3> QED
      BY <3>1, PieceIs
  <2>b. /\ \A b \in Bytes : b \in Span(q) <=> b = 2
        /\ q.off = 2 /\ q.bytes[1] = rt[3]
    <3>1. 2 \in Bytes /\ 2 + 1 = 3
      BY DEF Bytes
    <3> QED
      BY <3>1, PieceIs
  <2> HIDE DEF p, q
  <2>2. \A b \in Bytes : ~(b \in Span(p) /\ b \in Span(q))
    BY <2>a, <2>b
  <2>3. Planned(mem, {p, q}) =
          [b \in Bytes |-> IF b \in Span(p) THEN p.bytes[b - p.off + 1]
           ELSE IF b \in Span(q) THEN q.bytes[b - q.off + 1] ELSE mem[b]]
    BY <2>2, TwoPieces
  <2>4. ASSUME NEW b \in Bytes
        PROVE  (IF b \in Span(p) THEN p.bytes[b - p.off + 1]
           ELSE IF b \in Span(q) THEN q.bytes[b - q.off + 1] ELSE mem[b])
               = IF b <= off THEN rt[b + 3 - off] ELSE mem[b]
    <3>1. CASE b = 0
      BY <1>3, <2>a, <2>b, <3>1
    <3>2. CASE b = 1
      BY <1>3, <2>a, <2>b, <3>2
    <3>3. CASE b = 2
      BY <1>3, <2>a, <2>b, <3>3
    <3>4. CASE b = 3
      BY <1>3, <2>a, <2>b, <3>4
    <3> QED
      BY <3>1, <3>2, <3>3, <3>4, BytesAre
  <2> QED
    BY <2>1, <2>3, <2>4 DEF SwlMerge
<1>4. CASE off = 3
  <2> DEFINE p == Piece(0, <<rt[0], rt[1], rt[2], rt[3]>>)
  <2>1. SwlPlan(rt, off) = {p}
    BY <1>4 DEF SwlPlan
  <2>a. /\ \A b \in Bytes : b \in Span(p) <=> b >= 0 /\ b <= 3
        /\ p.off = 0 /\ p.bytes[1] = rt[0] /\ p.bytes[2] = rt[1] /\ p.bytes[3] = rt[2] /\ p.bytes[4] = rt[3]
    <3>1. 0 \in Bytes /\ 0 + 1 = 1
      BY DEF Bytes
    <3> QED
      BY <3>1, PieceIs
  <2> HIDE DEF p
  <2>3. Planned(mem, {p}) = [b \in Bytes |-> IF b \in Span(p) THEN p.bytes[b - p.off + 1] ELSE mem[b]]
    BY OnePiece
  <2>4. ASSUME NEW b \in Bytes
        PROVE  (IF b \in Span(p) THEN p.bytes[b - p.off + 1] ELSE mem[b])
               = IF b <= off THEN rt[b + 3 - off] ELSE mem[b]
    <3>1. CASE b = 0
      BY <1>4, <2>a, <3>1
    <3>2. CASE b = 1
      BY <1>4, <2>a, <3>2
    <3>3. CASE b = 2
      BY <1>4, <2>a, <3>3
    <3>4. CASE b = 3
      BY <1>4, <2>a, <3>4
    <3> QED
      BY <3>1, <3>2, <3>3, <3>4, BytesAre
  <2> QED
    BY <2>1, <2>3, <2>4 DEF SwlMerge
<1> QED
  BY <1>1, <1>2, <1>3, <1>4, BytesAre

LEMMA SwrPlanIs ==
  ASSUME NEW mem, NEW rt, NEW off \in Bytes
  PROVE  Planned(mem, SwrPlan(rt, off)) = SwrMerge(mem, rt, off)
<1>1. CASE off = 0
  <2> DEFINE p == Piece(0, <<rt[0], rt[1], rt[2], rt[3]>>)
  <2>1. SwrPlan(rt, off) = {p}
    BY <1>1 DEF SwrPlan
  <2>a. /\ \A b \in Bytes : b \in Span(p) <=> b >= 0 /\ b <= 3
        /\ p.off = 0 /\ p.bytes[1] = rt[0] /\ p.bytes[2] = rt[1] /\ p.bytes[3] = rt[2] /\ p.bytes[4] = rt[3]
    <3>1. 0 \in Bytes /\ 0 + 1 = 1
      BY DEF Bytes
    <3> QED
      BY <3>1, PieceIs
  <2> HIDE DEF p
  <2>3. Planned(mem, {p}) = [b \in Bytes |-> IF b \in Span(p) THEN p.bytes[b - p.off + 1] ELSE mem[b]]
    BY OnePiece
  <2>4. ASSUME NEW b \in Bytes
        PROVE  (IF b \in Span(p) THEN p.bytes[b - p.off + 1] ELSE mem[b])
               = IF b >= off THEN rt[b - off] ELSE mem[b]
    <3>1. CASE b = 0
      BY <1>1, <2>a, <3>1
    <3>2. CASE b = 1
      BY <1>1, <2>a, <3>2
    <3>3. CASE b = 2
      BY <1>1, <2>a, <3>3
    <3>4. CASE b = 3
      BY <1>1, <2>a, <3>4
    <3> QED
      BY <3>1, <3>2, <3>3, <3>4, BytesAre
  <2> QED
    BY <2>1, <2>3, <2>4 DEF SwrMerge
<1>2. CASE off = 1
  <2> DEFINE p == Piece(1, <<rt[0]>>)
             q == Piece(2, <<rt[1], rt[2]>>)
  <2>1. SwrPlan(rt, off) = {p, q}
    BY <1>2 DEF SwrPlan
  <2>a. /\ \A b \in Bytes : b \in Span(p) <=> b = 1
        /\ p.off = 1 /\ p.bytes[1] = rt[0]
    <3>1. 1 \in Bytes /\ 1 + 1 = 2
      BY DEF Bytes
    <3> QED
      BY <3>1, PieceIs
  <2>b. /\ \A b \in Bytes : b \in Span(q) <=> b = 2 \/ b = 3
        /\ q.off = 2 /\ q.bytes[1] = rt[1] /\ q.bytes[2] = rt[2]
    <3>1. 2 \in Bytes /\ 2 + 1 = 3
      BY DEF Bytes
    <3> QED
      BY <3>1, PieceIs
  <2> HIDE DEF p, q
  <2>2. \A b \in Bytes : ~(b \in Span(p) /\ b \in Span(q))
    BY <2>a, <2>b
  <2>3. Planned(mem, {p, q}) =
          [b \in Bytes |-> IF b \in Span(p) THEN p.bytes[b - p.off + 1]
           ELSE IF b \in Span(q) THEN q.bytes[b - q.off + 1] ELSE mem[b]]
    BY <2>2, TwoPieces
  <2>4. ASSUME NEW b \in Bytes
        PROVE  (IF b \in Span(p) THEN p.bytes[b - p.off + 1]
           ELSE IF b \in Span(q) THEN q.bytes[b - q.off + 1] ELSE mem[b])
               = IF b >= off THEN rt[b - off] ELSE mem[b]
    <3>1. CASE b = 0
      BY <1>2, <2>a, <2>b, <3>1
    <3>2. CASE b = 1
      BY <1>2, <2>a, <2>b, <3>2
    <3>3. CASE b = 2
      BY <1>2, <2>a, <2>b, <3>3
    <3>4. CASE b = 3
      BY <1>2, <2>a, <2>b, <3>4
    <3> QED
      BY <3>1, <3>2, <3>3, <3>4, BytesAre
  <2> QED
    BY <2>1, <2>3, <2>4 DEF SwrMerge
<1>3. CASE off = 2
  <2> DEFINE p == Piece(2, <<rt[0], rt[1]>>)
  <2>1. SwrPlan(rt, off) = {p}
    BY <1>3 DEF SwrPlan
  <2>a. /\ \A b \in Bytes : b \in Span(p) <=> b = 2 \/ b = 3
        /\ p.off = 2 /\ p.bytes[1] = rt[0] /\ p.bytes[2] = rt[1]
    <3>1. 2 \in Bytes /\ 2 + 1 = 3
      BY DEF Bytes
    <3> QED
      BY <3>1, PieceIs
  <2> HIDE DEF p
  <2>3. Planned(mem, {p}) = [b \in Bytes |-> IF b \in Span(p) THEN p.bytes[b - p.off + 1] ELSE mem[b]]
    BY OnePiece
  <2>4. ASSUME NEW b \in Bytes
        PROVE  (IF b \in Span(p) THEN p.bytes[b - p.off + 1] ELSE mem[b])
               = IF b >= off THEN rt[b - off] ELSE mem[b]
    <3>1. CASE b = 0
      BY <1>3, <2>a, <3>1
    <3>2. CASE b = 1
      BY <1>3, <2>a, <3>2
    <3>3. CASE b = 2
      BY <1>3, <2>a, <3>3
    <3>4. CASE b = 3
      BY <1>3, <2>a, <3>4
    <3> QED
      BY <3>1, <3>2, <3>3, <3>4, BytesAre
  <2> QED
    BY <2>1, <2>3, <2>4 DEF SwrMerge
<1>4. CASE off = 3
  <2> DEFINE p == Piece(3, <<rt[0]>>)
  <2>1. SwrPlan(rt, off) = {p}
    BY <1>4 DEF SwrPlan
  <2>a. /\ \A b \in Bytes : b \in Span(p) <=> b = 3
        /\ p.off = 3 /\ p.bytes[1] = rt[0]
    <3>1. 3 \in Bytes /\ 3 + 1 = 4
      BY DEF Bytes
    <3> QED
      BY <3>1, PieceIs
  <2> HIDE DEF p
  <2>3. Planned(mem, {p}) = [b \in Bytes |-> IF b \in Span(p) THEN p.bytes[b - p.off + 1] ELSE mem[b]]
    BY OnePiece
  <2>4. ASSUME NEW b \in Bytes
        PROVE  (IF b \in Span(p) THEN p.bytes[b - p.off + 1] ELSE mem[b])
               = IF b >= off THEN rt[b - off] ELSE mem[b]
    <3>1. CASE b = 0
      BY <1>4, <2>a, <3>1
    <3>2. CASE b = 1
      BY <1>4, <2>a, <3>2
    <3>3. CASE b = 2
      BY <1>4, <2>a, <3>3
    <3>4. CASE b = 3
      BY <1>4, <2>a, <3>4
    <3> QED
      BY <3>1, <3>2, <3>3, <3>4, BytesAre
  <2> QED
    BY <2>1, <2>3, <2>4 DEF SwrMerge
<1> QED
  BY <1>1, <1>2, <1>3, <1>4, BytesAre

Both == {"LEFT", "RIGHT"}

(* The bytes of the word that the instruction for a half moves.            *)
Moves(at, half, k) ==
  k \in Bytes /\ IF half = "LEFT" THEN k >= 3 - ((at + 3) % 4) ELSE k <= 3 - at

(* The aligned word that holds the byte a half is at.                      *)
LEMMA WhereHalves ==
  ASSUME NEW at \in Bytes
  PROVE  /\ 4 * (at \div 4) = 0 /\ at % 4 = at
         /\ at = 0 => 4 * ((at + 3) \div 4) = 0 /\ (at + 3) % 4 = 3
         /\ at # 0 => 4 * ((at + 3) \div 4) = 4 /\ (at + 3) % 4 = at - 1
BY DEF Bytes

LEMMA AllIsMoved ==
  ASSUME NEW at \in Bytes, NEW k \in Bytes
  PROVE  Moves(at, "LEFT", k) \/ Moves(at, "RIGHT", k)
BY WhereHalves DEF Moves, Bytes

Filled(cells, reg, at, half) ==
  [x \in 0 .. 7 |-> IF Moves(at, half, x - at) THEN reg[x - at] ELSE cells[x]]
Taken(cells, loaded, at, half) ==
  [k \in Bytes |-> IF Moves(at, half, k) THEN cells[at + k] ELSE loaded[k]]

(* What a store leaves in memory: its bytes of the word, and the rest.     *)
LEMMA StoredIs ==
  ASSUME NEW cells, NEW reg, NEW at \in Bytes, NEW half \in Both, NEW ha,
         ha = (IF half = "LEFT" THEN at + 3 ELSE at)
  PROVE  LET base == 4 * (ha \div 4)
             off  == ha % 4
             new  == IF half = "LEFT" THEN SwlMerge(Aligned(cells, base), reg, off)
                     ELSE SwrMerge(Aligned(cells, base), reg, off)
         IN Stored(cells, base, new) = Filled(cells, reg, at, half)
<1> DEFINE base == 4 * (ha \div 4)
           off  == ha % 4
           new  == IF half = "LEFT" THEN SwlMerge(Aligned(cells, base), reg, off)
                   ELSE SwrMerge(Aligned(cells, base), reg, off)
<1>a. base = 4 * (ha \div 4) /\ off = ha % 4
  OBVIOUS
<1>b. new = IF half = "LEFT" THEN SwlMerge(Aligned(cells, base), reg, off)
            ELSE SwrMerge(Aligned(cells, base), reg, off)
  OBVIOUS
<1> HIDE DEF base, off, new
<1> SUFFICES ASSUME NEW x \in 0 .. 7
             PROVE  (IF x \in base .. (base + 3) THEN new[x - base] ELSE cells[x])
                    = IF Moves(at, half, x - at) THEN reg[x - at] ELSE cells[x]
  BY DEF Stored, Filled, base, new, off
<1>1. CASE half = "LEFT"
  <2>1. ha = at + 3
    BY <1>1
  <2>2. (at = 0 /\ base = 0 /\ off = 3) \/ (at \in 1 .. 3 /\ base = 4 /\ off = at - 1)
    BY <1>a, <2>1, WhereHalves DEF Bytes
  <2>3. base + off = at + 3 /\ base \in Int /\ off \in 0 .. 3 /\ at \in 0 .. 3
    BY <2>2
  <2>4. Moves(at, half, x - at) <=> x - at \in 0 .. 3 /\ x - at >= 3 - off
    BY <1>1, <1>a, <2>1 DEF Moves, Bytes
  <2>5. Moves(at, half, x - at) <=> x \in base .. (base + 3) /\ x - base <= off
    <3>1. CASE at = 0 /\ base = 0 /\ off = 3
      BY <2>4, <3>1
    <3>2. CASE at \in 1 .. 3 /\ base = 4 /\ off = at - 1
      BY <2>4, <3>2
    <3> QED
      BY <2>2, <3>1, <3>2
  <2>6. CASE x \in base .. (base + 3)
    <3>1. x - base \in Bytes
      BY <2>3, <2>6 DEF Bytes
    <3>2. new[x - base] = IF x - base <= off THEN reg[(x - base) + 3 - off]
                          ELSE Aligned(cells, base)[x - base]
      BY <1>1, <1>b, <3>1 DEF SwlMerge
    <3>3. Aligned(cells, base)[x - base] = cells[base + (x - base)]
      BY <3>1 DEF Aligned
    <3>4. base + (x - base) = x /\ (x - base) + 3 - off = x - at
      BY <2>3
    <3> QED
      BY <2>5, <2>6, <3>2, <3>3, <3>4
  <2>7. CASE x \notin base .. (base + 3)
    BY <2>5, <2>7
  <2> QED
    BY <2>6, <2>7
<1>2. CASE half = "RIGHT"
  <2>1. ha = at /\ base = 0 /\ off = at /\ at \in 0 .. 3
    <3>1. ha = at
      BY <1>2
    <3> QED
      BY <1>a, <3>1, WhereHalves DEF Bytes
  <2>2. Moves(at, half, x - at) <=> x - at \in 0 .. 3 /\ x - at <= 3 - at
    BY <1>2 DEF Moves, Bytes
  <2>3. Moves(at, half, x - at) <=> x \in base .. (base + 3) /\ x - base >= off
    BY <2>1, <2>2
  <2>4. CASE x \in base .. (base + 3)
    <3>1. x - base \in Bytes
      BY <2>1, <2>4 DEF Bytes
    <3>2. new[x - base] = IF x - base >= off THEN reg[(x - base) - off]
                          ELSE Aligned(cells, base)[x - base]
      BY <1>2, <1>b, <3>1 DEF SwrMerge
    <3>3. Aligned(cells, base)[x - base] = cells[base + (x - base)]
      BY <3>1 DEF Aligned
    <3>4. base + (x - base) = x /\ (x - base) - off = x - at
      BY <2>1
    <3> QED
      BY <2>3, <2>4, <3>2, <3>3, <3>4
  <2>5. CASE x \notin base .. (base + 3)
    BY <2>3, <2>5
  <2> QED
    BY <2>4, <2>5
<1> QED
  BY <1>1, <1>2 DEF Both

(* What a load leaves in the register.                                     *)
LEMMA LoadedIs ==
  ASSUME NEW cells, NEW loaded, NEW at \in Bytes, NEW half \in Both, NEW ha,
         ha = (IF half = "LEFT" THEN at + 3 ELSE at)
  PROVE  LET base == 4 * (ha \div 4)
             off  == ha % 4
             new  == IF half = "LEFT" THEN LwlMerge(loaded, Aligned(cells, base), off)
                     ELSE LwrMerge(loaded, Aligned(cells, base), off)
         IN new = Taken(cells, loaded, at, half)
<1> DEFINE base == 4 * (ha \div 4)
           off  == ha % 4
           new  == IF half = "LEFT" THEN LwlMerge(loaded, Aligned(cells, base), off)
                   ELSE LwrMerge(loaded, Aligned(cells, base), off)
<1>a. base = 4 * (ha \div 4) /\ off = ha % 4
  OBVIOUS
<1>b. new = IF half = "LEFT" THEN LwlMerge(loaded, Aligned(cells, base), off)
            ELSE LwrMerge(loaded, Aligned(cells, base), off)
  OBVIOUS
<1> SUFFICES new = [k \in Bytes |-> IF Moves(at, half, k) THEN cells[at + k] ELSE loaded[k]]
  BY DEF Taken
<1> HIDE DEF base, off, new
<1>1. CASE half = "LEFT"
  <2>1. ha = at + 3
    BY <1>1
  <2>2. (at = 0 /\ base = 0 /\ off = 3) \/ (at \in 1 .. 3 /\ base = 4 /\ off = at - 1)
    BY <1>a, <2>1, WhereHalves DEF Bytes
  <2>3. base + off = at + 3 /\ base \in Int /\ off \in 0 .. 3 /\ at \in 0 .. 3
    BY <2>2
  <2>4. ASSUME NEW k \in Bytes
        PROVE  (IF k >= 3 - off THEN Aligned(cells, base)[k - (3 - off)] ELSE loaded[k])
               = IF Moves(at, half, k) THEN cells[at + k] ELSE loaded[k]
    <3>1. Moves(at, half, k) <=> k >= 3 - off
      BY <1>1, <1>a, <2>1 DEF Moves
    <3>2. CASE k >= 3 - off
      <4>1. k - (3 - off) \in Bytes /\ base + (k - (3 - off)) = at + k
        BY <2>3, <3>2 DEF Bytes
      <4>2. Aligned(cells, base)[k - (3 - off)] = cells[base + (k - (3 - off))]
        BY <4>1 DEF Aligned
      <4> QED
        BY <3>1, <3>2, <4>1, <4>2
    <3>3. CASE ~(k >= 3 - off)
      BY <3>1, <3>3
    <3> QED
      BY <3>2, <3>3
  <2>5. new = [k \in Bytes |-> IF k >= 3 - off THEN Aligned(cells, base)[k - (3 - off)] ELSE loaded[k]]
    BY <1>1, <1>b DEF LwlMerge
  <2> QED
    BY <2>4, <2>5
<1>2. CASE half = "RIGHT"
  <2>1. ha = at /\ base = 0 /\ off = at /\ at \in 0 .. 3
    <3>1. ha = at
      BY <1>2
    <3> QED
      BY <1>a, <3>1, WhereHalves DEF Bytes
  <2>2. ASSUME NEW k \in Bytes
        PROVE  (IF k <= 3 - off THEN Aligned(cells, base)[k + off] ELSE loaded[k])
               = IF Moves(at, half, k) THEN cells[at + k] ELSE loaded[k]
    <3>1. Moves(at, half, k) <=> k <= 3 - off
      BY <1>2, <2>1 DEF Moves
    <3>2. CASE k <= 3 - off
      <4>1. k + off \in Bytes /\ base + (k + off) = at + k
        BY <2>1, <3>2 DEF Bytes
      <4>2. Aligned(cells, base)[k + off] = cells[base + (k + off)]
        BY <4>1 DEF Aligned
      <4> QED
        BY <3>1, <3>2, <4>1, <4>2
    <3>3. CASE ~(k <= 3 - off)
      BY <3>1, <3>3
    <3> QED
      BY <3>2, <3>3
  <2>3. new = [k \in Bytes |-> IF k <= 3 - off THEN Aligned(cells, base)[k + off] ELSE loaded[k]]
    BY <1>2, <1>b DEF LwrMerge
  <2> QED
    BY <2>2, <2>3
<1> QED
  BY <1>1, <1>2 DEF Both

(* A word on its way: the bytes that have been stored and loaded are those *)
(* of the halves that are done, whatever their order.                      *)
Arrived(at, owed, k) == \E half \in Both \ owed : Moves(at, half, k)
WordInMemory(at, store) ==
  [x \in 0 .. 7 |-> IF Arrived(at, store, x - at) THEN <<"reg", x - at>> ELSE <<"memory", x>>]
InRegister(at, load) ==
  [k \in Bytes |-> IF Arrived(at, load, k) THEN <<"reg", k>> ELSE "blank"]

WordIInv ==
  /\ word = [memory |-> WordInMemory(word.at, word.store), reg |-> [b \in Bytes |-> <<"reg", b>>],
             loaded |-> InRegister(word.at, word.load), at |-> word.at, ram |-> word.ram,
             store |-> word.store, load |-> word.load]
  /\ word.at \in Bytes /\ word.ram \in BOOLEAN
  /\ word.store \subseteq Both /\ word.load \subseteq Both
  /\ word.load # Both => word.store = {}

LEMMA PlacedIs ==
  ASSUME NEW at \in Bytes, NEW ram \in BOOLEAN, word = Placed(at, ram)
  PROVE  WordIInv
<1>1. \A k : ~Arrived(at, Both, k)
  BY DEF Arrived
<1>2. WordInMemory(at, Both) = [b \in 0 .. 7 |-> <<"memory", b>>] /\ InRegister(at, Both) = Blank
  BY <1>1 DEF WordInMemory, InRegister, Blank
<1>3. word = [memory |-> WordInMemory(at, Both), reg |-> [b \in Bytes |-> <<"reg", b>>],
              loaded |-> InRegister(at, Both), at |-> at, ram |-> ram,
              store |-> Both, load |-> Both]
  BY <1>2 DEF Placed, Both
<1>4. word.at = at /\ word.ram = ram /\ word.store = Both /\ word.load = Both
  BY <1>3
<1> QED
  BY <1>3, <1>4 DEF WordIInv

LEMMA ArrivedNext ==
  ASSUME NEW at, NEW owed, NEW half \in Both, NEW k
  PROVE  Arrived(at, owed \ {half}, k) <=> Arrived(at, owed, k) \/ Moves(at, half, k)
BY DEF Arrived

LEMMA StoreStep ==
  ASSUME WordIInv, NEW half \in Both, StorePartial(half)
  PROVE  WordIInv'
<1> DEFINE at == word.at
           ha == HalfAddress(half)
           base == 4 * (ha \div 4)
           off == ha % 4
           mem == Aligned(word.memory, base)
           new == IF half = "LEFT" THEN SwlMerge(mem, word.reg, off) ELSE SwrMerge(mem, word.reg, off)
           owed == word.store \ {half}
<1>1. at \in Bytes /\ ha = (IF half = "LEFT" THEN at + 3 ELSE at) /\ off \in Bytes
  <2>1. at \in Bytes /\ ha = (IF half = "LEFT" THEN at + 3 ELSE at)
    BY DEF WordIInv, HalfAddress
  <2>2. ha \in Nat
    BY <2>1 DEF Bytes
  <2> QED
    BY <2>1, <2>2 DEF Bytes
<1>2. word' = [word EXCEPT !.memory = Stored(word.memory, base, new), !.store = owed]
  <2> DEFINE done == IF word.ram
                     THEN IF half = "LEFT" THEN SwlMerge(mem, word.reg, off) ELSE SwrMerge(mem, word.reg, off)
                     ELSE Planned(mem, IF half = "LEFT" THEN SwlPlan(word.reg, off) ELSE SwrPlan(word.reg, off))
  <2>1. word' = [word EXCEPT !.memory = Stored(@, base, done), !.store = @ \ {half}]
    BY DEF StorePartial
  <2>2. /\ Planned(mem, SwlPlan(word.reg, off)) = SwlMerge(mem, word.reg, off)
        /\ Planned(mem, SwrPlan(word.reg, off)) = SwrMerge(mem, word.reg, off)
    BY <1>1, SwlPlanIs, SwrPlanIs
  <2>3. done = new
    <3> HIDE DEF mem, off
    <3> QED
      BY <2>2
  <2> HIDE DEF done, new, mem, off, base
  <2> QED
    BY <2>1, <2>3
<1>3. Stored(word.memory, base, new) = Filled(word.memory, word.reg, at, half)
  <2> HIDE DEF ha, at
  <2> QED
    BY <1>1, StoredIs
<1>4. /\ word.memory = WordInMemory(at, word.store) /\ word.reg = [b \in Bytes |-> <<"reg", b>>]
      /\ word.loaded = InRegister(at, word.load)
  BY DEF WordIInv
<1>5. ASSUME NEW x \in 0 .. 7
      PROVE  (IF Moves(at, half, x - at) THEN word.reg[x - at] ELSE word.memory[x])
             = IF Arrived(at, owed, x - at) THEN <<"reg", x - at>> ELSE <<"memory", x>>
  <2>1. Arrived(at, owed, x - at) <=> Arrived(at, word.store, x - at) \/ Moves(at, half, x - at)
    BY ArrivedNext
  <2>2. word.memory[x] = IF Arrived(at, word.store, x - at) THEN <<"reg", x - at>> ELSE <<"memory", x>>
    BY <1>4 DEF WordInMemory
  <2>3. Moves(at, half, x - at) => word.reg[x - at] = <<"reg", x - at>>
    BY <1>4 DEF Moves
  <2> HIDE DEF at, owed
  <2> QED
    BY <2>1, <2>2, <2>3
<1>6. Stored(word.memory, base, new) = WordInMemory(at, owed)
  BY <1>3, <1>5 DEF WordInMemory, Filled
<1> HIDE DEF new, base
<1>7. word' = [word EXCEPT !.memory = WordInMemory(at, owed), !.store = owed]
  BY <1>2, <1>6
<1>8. word = [memory |-> word.memory, reg |-> [b \in Bytes |-> <<"reg", b>>],
              loaded |-> InRegister(at, word.load), at |-> at, ram |-> word.ram,
              store |-> word.store, load |-> word.load]
  BY DEF WordIInv
<1> DEFINE stored == WordInMemory(at, owed)
           taken == InRegister(at, word.load)
           regs == [b \in Bytes |-> <<"reg", b>>]
<1> HIDE DEF stored, taken, regs, owed, at
<1>9. word' = [memory |-> stored, reg |-> regs, loaded |-> taken, at |-> at, ram |-> word.ram,
               store |-> owed, load |-> word.load]
  <2>1. word = [memory |-> word.memory, reg |-> regs, loaded |-> taken, at |-> at, ram |-> word.ram,
               store |-> word.store, load |-> word.load]
    BY <1>8 DEF regs, taken
  <2>2. word' = [word EXCEPT !.memory = stored, !.store = owed]
    BY <1>7 DEF stored
  <2> DEFINE w == [word EXCEPT !.memory = stored]
  <2>3. w = [memory |-> stored, reg |-> regs, loaded |-> taken, at |-> at, ram |-> word.ram,
             store |-> word.store, load |-> word.load]
    BY <2>1
  <2>4. word' = [w EXCEPT !.store = owed]
    BY <2>2
  <2> HIDE DEF w
  <2> QED
    BY <2>3, <2>4
<1>10. word'.at = at /\ word'.ram = word.ram /\ word'.store = owed /\ word'.load = word.load
  BY <1>9
<1>11. word.store # {}
  BY DEF StorePartial
<1>12. /\ word.ram \in BOOLEAN /\ word.store \subseteq Both /\ word.load = Both
  BY <1>11 DEF WordIInv
<1>13. owed \subseteq Both
  BY <1>12 DEF owed
<1> QED
  BY <1>1, <1>9, <1>10, <1>12, <1>13 DEF WordIInv, stored, taken, regs

LEMMA LoadStep ==
  ASSUME WordIInv, NEW half \in Both, LoadPartial(half)
  PROVE  WordIInv'
<1> DEFINE at == word.at
           ha == HalfAddress(half)
           base == 4 * (ha \div 4)
           off == ha % 4
           mem == Aligned(word.memory, base)
           new == IF half = "LEFT" THEN LwlMerge(word.loaded, mem, off) ELSE LwrMerge(word.loaded, mem, off)
           owed == word.load \ {half}
<1>1. at \in Bytes /\ ha = (IF half = "LEFT" THEN at + 3 ELSE at)
  BY DEF WordIInv, HalfAddress
<1>2. /\ word' = [word EXCEPT !.load = owed, !.loaded = new]
      /\ word.store = {} /\ half \in word.load
  BY DEF LoadPartial
<1>3. new = Taken(word.memory, word.loaded, at, half)
  <2> HIDE DEF ha, at
  <2> QED
    BY <1>1, LoadedIs
<1>4. /\ word.memory = WordInMemory(at, {}) /\ word.loaded = InRegister(at, word.load)
      /\ word.store = {} /\ word.load \subseteq Both
  BY <1>2 DEF WordIInv
<1> HIDE DEF new
<1>5. ASSUME NEW k \in Bytes
      PROVE  (IF Moves(at, half, k) THEN word.memory[at + k] ELSE word.loaded[k])
             = IF Arrived(at, owed, k) THEN <<"reg", k>> ELSE "blank"
  <2>1. Arrived(at, owed, k) <=> Arrived(at, word.load, k) \/ Moves(at, half, k)
    BY ArrivedNext
  <2>2. word.loaded[k] = IF Arrived(at, word.load, k) THEN <<"reg", k>> ELSE "blank"
    BY <1>4 DEF InRegister
  <2>3. word.memory[at + k] = <<"reg", k>>
    <3>1. at + k \in 0 .. 7 /\ (at + k) - at = k
      BY <1>1 DEF Bytes
    <3>2. Arrived(at, {}, k)
      BY <1>1, AllIsMoved DEF Arrived, Both
    <3>3. word.memory[at + k] = IF Arrived(at, {}, (at + k) - at) THEN <<"reg", (at + k) - at>>
                                ELSE <<"memory", at + k>>
      BY <1>4, <3>1 DEF WordInMemory
    <3> QED
      BY <3>1, <3>2, <3>3
  <2> HIDE DEF at, owed
  <2> QED
    BY <2>1, <2>2, <2>3
<1>6. new = InRegister(at, owed)
  BY <1>3, <1>5 DEF InRegister, Taken
<1> DEFINE stored == WordInMemory(at, {})
           taken == InRegister(at, owed)
           regs == [b \in Bytes |-> <<"reg", b>>]
<1> HIDE DEF stored, taken, regs, owed, at
<1>7. word' = [memory |-> stored, reg |-> regs, loaded |-> taken, at |-> at, ram |-> word.ram,
               store |-> word.store, load |-> owed]
  <2>1. word = [memory |-> stored, reg |-> regs, loaded |-> word.loaded, at |-> at, ram |-> word.ram,
               store |-> word.store, load |-> word.load]
    BY <1>4 DEF WordIInv, regs, stored, at
  <2> DEFINE w == [word EXCEPT !.load = owed]
  <2>2. w = [memory |-> stored, reg |-> regs, loaded |-> word.loaded, at |-> at, ram |-> word.ram,
             store |-> word.store, load |-> owed]
    BY <2>1
  <2>3. word' = [w EXCEPT !.loaded = taken]
    BY <1>2, <1>6 DEF taken
  <2> HIDE DEF w
  <2> QED
    BY <2>2, <2>3
<1>8. word'.at = at /\ word'.ram = word.ram /\ word'.store = {} /\ word'.load = owed
  <2>1. word'.at = at /\ word'.ram = word.ram /\ word'.store = word.store /\ word'.load = owed
    BY <1>7
  <2> QED
    BY <1>4, <2>1
<1>9. word.ram \in BOOLEAN /\ owed \subseteq Both
  BY <1>4 DEF WordIInv, owed
<1> QED
  BY <1>1, <1>2, <1>7, <1>8, <1>9 DEF WordIInv, stored, taken, regs

LEMMA WordIsWhole == ASSUME WordIInv PROVE WordArrivesWhole
<1>1. word.at \in Bytes /\ word.reg = [b \in Bytes |-> <<"reg", b>>]
  BY DEF WordIInv
<1>2. \A k : Arrived(word.at, {}, k) <=> k \in Bytes
  BY <1>1, AllIsMoved DEF Arrived, Both, Moves
<1>3. ASSUME word.store = {}
      PROVE  word.memory = [b \in 0..7 |-> IF b \in word.at..(word.at + 3)
                                           THEN word.reg[b - word.at] ELSE <<"memory", b>>]
  <2>1. word.memory = WordInMemory(word.at, {})
    BY <1>3 DEF WordIInv
  <2>2. ASSUME NEW b \in 0 .. 7
        PROVE  (IF Arrived(word.at, {}, b - word.at) THEN <<"reg", b - word.at>> ELSE <<"memory", b>>)
               = IF b \in word.at..(word.at + 3) THEN word.reg[b - word.at] ELSE <<"memory", b>>
    <3>1. b - word.at \in Bytes <=> b \in word.at..(word.at + 3)
      BY <1>1 DEF Bytes
    <3>2. b - word.at \in Bytes => word.reg[b - word.at] = <<"reg", b - word.at>>
      BY <1>1
    <3> QED
      BY <1>2, <3>1, <3>2
  <2> QED
    BY <2>1, <2>2 DEF WordInMemory
<1>4. ASSUME word.load = {} PROVE word.loaded = word.reg
  <2>1. word.loaded = InRegister(word.at, {})
    BY <1>4 DEF WordIInv
  <2> QED
    BY <1>1, <1>2, <2>1 DEF InRegister
<1> QED
  BY <1>3, <1>4 DEF WordArrivesWhole

LEMMA AgainKeepsWord == ASSUME WordIInv, Again PROVE WordIInv'
<1>1. word.at \in Bytes /\ word.ram \in BOOLEAN /\ word' = Placed(word.at, word.ram)
  BY DEF WordIInv, Again
<1> DEFINE at == word.at
           ram == word.ram
           start == [b \in Bytes |-> <<"reg", b>>]
<1>2. \A k : ~Arrived(at, Both, k)
  BY DEF Arrived
<1>3. WordInMemory(at, Both) = [b \in 0 .. 7 |-> <<"memory", b>>] /\ InRegister(at, Both) = Blank
  BY <1>2 DEF WordInMemory, InRegister, Blank
<1>4. word' = [memory |-> WordInMemory(at, Both), reg |-> start,
               loaded |-> InRegister(at, Both), at |-> at, ram |-> ram,
               store |-> Both, load |-> Both]
  BY <1>1, <1>3 DEF Placed, Both
<1> HIDE DEF at, ram, start
<1>5. word'.at = at /\ word'.ram = ram /\ word'.store = Both /\ word'.load = Both
  BY <1>4
<1> QED
  BY <1>1, <1>4, <1>5 DEF WordIInv, at, ram, start

LEMMA NextWord == WordIInv /\ [AluNext]_alu_vars => WordIInv'
<1> SUFFICES ASSUME WordIInv, [AluNext]_alu_vars PROVE WordIInv'
  OBVIOUS
<1>1. ASSUME NEW op \in Operations, Compute(op) PROVE WordIInv'
  BY <1>1 DEF Compute, WordIInv
<1>2. ASSUME NEW half \in Both, StorePartial(half) PROVE WordIInv'
  BY <1>2, StoreStep
<1>3. ASSUME NEW half \in Both, LoadPartial(half) PROVE WordIInv'
  BY <1>3, LoadStep
<1>4. CASE UNCHANGED alu_vars
  BY <1>4 DEF alu_vars, WordIInv
<1> QED
  BY <1>1, <1>2, <1>3, <1>4, AgainKeepsWord DEF AluNext, Both

(* The instruction's own fields: what it is given, and what it leaves.     *)
AluIInv == /\ alu.rs \in Unsigned /\ alu.rt \in Unsigned
           /\ alu.op = "NONE" => alu = Operands(alu.rs, alu.rt)
           /\ ResultsAreExact

LEMMA FreshIsExact ==
  ASSUME NEW a \in Unsigned, NEW b \in Unsigned, alu = Operands(a, b)
  PROVE  AluIInv
<1>1. alu.rs = a /\ alu.rt = b /\ alu.op = "NONE"
  BY DEF Operands
<1> QED
  BY <1>1 DEF AluIInv, ResultsAreExact

LEMMA AgainKeepsAlu == ASSUME AluIInv, Again PROVE AluIInv'
<1>1. alu.rs \in Unsigned /\ alu.rt \in Unsigned /\ alu' = Operands(alu.rs, alu.rt)
  BY DEF AluIInv, Again
<1>2. alu'.rs = alu.rs /\ alu'.rt = alu.rt /\ alu'.op = "NONE"
  BY <1>1 DEF Operands
<1> QED
  BY <1>1, <1>2 DEF AluIInv, ResultsAreExact

(* What an instruction leaves: the fields of its outcome, and the rest of  *)
(* a fresh start.                                                          *)
LEMMA ComputedIs ==
  ASSUME AluIInv, NEW op \in Operations, Compute(op), NEW new, new = Outcome(op, alu.rs, alu.rt),
         DOMAIN new \subseteq {"rd", "hi", "lo", "trap"}
  PROVE  /\ alu'.rs = alu.rs /\ alu'.rt = alu.rt /\ alu'.op = op
         /\ alu'.hi = IF "hi" \in DOMAIN new THEN new["hi"] ELSE 0
         /\ alu'.lo = IF "lo" \in DOMAIN new THEN new["lo"] ELSE 0
         /\ alu'.rd = IF "rd" \in DOMAIN new THEN new["rd"] ELSE 0
         /\ alu'.trap = IF "trap" \in DOMAIN new THEN new["trap"] ELSE FALSE
<1>1. alu = Operands(alu.rs, alu.rt)
  BY DEF AluIInv, Compute
<1>2. /\ DOMAIN alu = {"rs", "rt", "op", "rd", "hi", "lo", "trap"}
      /\ alu.hi = 0 /\ alu.lo = 0 /\ alu.rd = 0 /\ alu.trap = FALSE
  BY <1>1 DEF Operands
<1>3. alu' = [f \in DOMAIN alu |-> IF f = "op" THEN op
                                   ELSE IF f \in DOMAIN new THEN new[f] ELSE alu[f]]
  BY DEF Compute
<1>4. \A f \in DOMAIN alu : alu'[f] = IF f = "op" THEN op
                                      ELSE IF f \in DOMAIN new THEN new[f] ELSE alu[f]
  BY <1>3
<1>5. alu'["rs"] = alu["rs"] /\ alu'["rt"] = alu["rt"] /\ alu'["op"] = op
  BY <1>2, <1>4
<1>6. /\ alu'["hi"] = IF "hi" \in DOMAIN new THEN new["hi"] ELSE alu["hi"]
      /\ alu'["lo"] = IF "lo" \in DOMAIN new THEN new["lo"] ELSE alu["lo"]
  BY <1>2, <1>4
<1>7. /\ alu'["rd"] = IF "rd" \in DOMAIN new THEN new["rd"] ELSE alu["rd"]
      /\ alu'["trap"] = IF "trap" \in DOMAIN new THEN new["trap"] ELSE alu["trap"]
  BY <1>2, <1>4
<1> QED
  BY <1>2, <1>5, <1>6, <1>7

HalfOf == Modulus \div 2

LEMMA AluSizes == /\ HalfOf \in Nat \ {0} /\ Modulus = 2 * HalfOf /\ Modulus \in Nat \ {0}
                  /\ MinInt = -HalfOf /\ SignedInts = -HalfOf .. HalfOf - 1
BY AluWidth DEF HalfOf, MinInt, SignedInts

LEMMA QuotientAndRest ==
  ASSUME NEW x \in Int, NEW n \in Nat \ {0}
  PROVE  x \div n \in Int /\ x % n \in 0 .. n - 1 /\ x = ((x \div n) * n) + (x % n)
OBVIOUS

LEMMA AtLeastItself ==
  ASSUME NEW k \in Nat \ {0}, NEW n \in Nat
  PROVE  k * n >= n /\ k * n \in Nat
<1>1. (k - 1) * n = (k * n) - n
  OBVIOUS
<1>2. (k - 1) * n \in Nat /\ k * n \in Int
  <2>1. k - 1 \in Nat
    OBVIOUS
  <2> QED
    BY <2>1
<1> QED
  BY <1>1, <1>2

(* A number is split in one way only.                                      *)
LEMMA SplitOnce ==
  ASSUME NEW n \in Nat \ {0}, NEW q \in Int, NEW r \in 0 .. n - 1,
         NEW p \in Int, NEW s \in 0 .. n - 1, (q * n) + r = (p * n) + s
  PROVE  q = p /\ r = s
<1>1. (q - p) * n = s - r /\ (p - q) * n = r - s
  OBVIOUS
<1>2. CASE q > p
  <2>1. (q - p) * n >= n
    <3>1. q - p \in Nat \ {0}
      BY <1>2
    <3> QED
      BY <3>1, AtLeastItself
  <2> QED
    BY <1>1, <2>1
<1>3. CASE q < p
  <2>1. (p - q) * n >= n
    <3>1. p - q \in Nat \ {0}
      BY <1>3
    <3> QED
      BY <3>1, AtLeastItself
  <2> QED
    BY <1>1, <2>1
<1>4. CASE q = p
  BY <1>1, <1>4
<1> QED
  BY <1>2, <1>3, <1>4

LEMMA ResidueIs ==
  ASSUME NEW n \in Nat \ {0}, NEW q \in Int, NEW r \in 0 .. n - 1, NEW x \in Int, x = (q * n) + r
  PROVE  x \div n = q /\ x % n = r
<1> DEFINE p == x \div n
           s == x % n
<1>1. p \in Int /\ s \in 0 .. n - 1 /\ (q * n) + r = (p * n) + s
  BY QuotientAndRest
<1> HIDE DEF p, s
<1>2. q = p /\ r = s
  BY <1>1, SplitOnce
<1> QED
  BY <1>2 DEF p, s

LEMMA AsSignedIs ==
  ASSUME NEW a \in Unsigned
  PROVE  AsSigned(a) \in SignedInts
BY AluSizes DEF Unsigned, AsSigned, HalfOf

(* A number that fits survives the register it is put in.                  *)
LEMMA FitsIs ==
  ASSUME NEW y \in SignedInts
  PROVE  AsSigned(y % Modulus) = y /\ y % Modulus \in Unsigned
<1>1. y \in Int /\ -HalfOf <= y /\ y < HalfOf
  BY AluSizes
<1>2. CASE y >= 0
  <2>1. y = (0 * Modulus) + y /\ y \in 0 .. Modulus - 1
    BY <1>1, <1>2, AluSizes
  <2>2. y % Modulus = y
    BY <2>1, AluSizes, ResidueIs
  <2> QED
    BY <1>1, <2>1, <2>2, AluSizes DEF AsSigned, HalfOf, Unsigned
<1>3. CASE y < 0
  <2>1. y = ((-1) * Modulus) + (y + Modulus) /\ y + Modulus \in 0 .. Modulus - 1
    BY <1>1, <1>3, AluSizes
  <2>2. y % Modulus = y + Modulus
    <3> DEFINE z == y + Modulus
               m == -1
    <3>1. y = (m * Modulus) + z /\ z \in 0 .. Modulus - 1 /\ m \in Int
      BY <2>1
    <3> HIDE DEF z, m
    <3>2. y % Modulus = z
      BY <1>1, <3>1, AluSizes, ResidueIs
    <3> QED
      BY <3>2 DEF z
  <2>3. y + Modulus >= Modulus \div 2
    BY <1>1, AluSizes
  <2> QED
    BY <1>1, <2>1, <2>2, <2>3, AluSizes DEF AsSigned, Unsigned
<1> QED
  BY <1>1, <1>2, <1>3

LEMMA UnsignedFits == ASSUME NEW a \in Unsigned PROVE a % Modulus = a
<1>1. a \in Int /\ a = (0 * Modulus) + a /\ a \in 0 .. Modulus - 1
  BY AluSizes DEF Unsigned
<1> QED
  BY <1>1, AluSizes, ResidueIs

(* Towards zero: the rest is smaller than the divisor, and leans the way   *)
(* the numerator does.                                                     *)
LEMMA QuotientIs ==
  ASSUME NEW n \in Int, NEW d \in Int \ {0}, NEW q, q = Quotient(n, d), NEW r, r = n - (d * q)
  PROVE  /\ q \in Int /\ r \in Int /\ n = (q * d) + r
         /\ Magnitude(r) < Magnitude(d) /\ (r # 0 => (r < 0 <=> n < 0))
         /\ Magnitude(q) <= Magnitude(n)
         /\ Magnitude(q) = Magnitude(n) /\ n # 0 => Magnitude(d) = 1
         /\ q > 0 => (n < 0 <=> d < 0)
         /\ n >= 0 /\ d > 0 => q >= 0 /\ r >= 0
<1> DEFINE a == Magnitude(n)
           b == Magnitude(d)
           k == a \div b
           m == a % b
<1>1. /\ a \in Nat /\ b \in Nat \ {0}
      /\ (n >= 0 => n = a) /\ (n < 0 => n = -a) /\ (d >= 0 => d = b) /\ (d < 0 => d = -b)
  BY DEF Magnitude
<1>2. k \in Int /\ m \in 0 .. b - 1 /\ a = (k * b) + m
  <2>1. a \in Int /\ b \in Nat \ {0}
    BY <1>1
  <2> HIDE DEF a, b
  <2>2. a \div b \in Int /\ a % b \in 0 .. b - 1 /\ a = ((a \div b) * b) + (a % b)
    BY <2>1, QuotientAndRest
  <2> QED
    BY <2>2
<1>3. q = IF (n < 0) = (d < 0) THEN k ELSE -k
  BY DEF Quotient
<1> HIDE DEF a, b, k, m
<1>4. k \in Nat /\ k <= a /\ (k = a /\ a # 0 => b = 1)
  <2>1. k >= 0
    <3>1. ASSUME k < 0 PROVE FALSE
      <4>1. (-k) * b >= b
        <5>1. -k \in Nat \ {0}
          BY <1>2, <3>1
        <5> QED
          BY <1>1, <5>1, AtLeastItself
      <4>2. (-k) * b = -(k * b)
        BY <1>1, <1>2
      <4> QED
        BY <1>1, <1>2, <4>1, <4>2
    <3> QED
      BY <1>2, <3>1
  <2>2. k = 0 \/ k * b >= k
    BY <1>1, <1>2, <2>1, AtLeastItself
  <2>3. ASSUME k = a, a # 0 PROVE b = 1
    <3>1. m = 0 /\ k * b = k
      <4>1. k * b <= k /\ k \in Nat \ {0}
        BY <1>1, <1>2, <2>1, <2>3
      <4> QED
        BY <1>1, <1>2, <2>2, <2>3, <4>1
    <3>2. k * (b - 1) = 0 /\ k \in Nat \ {0}
      BY <1>1, <1>2, <2>1, <2>3, <3>1
    <3>3. ASSUME b # 1 PROVE FALSE
      <4>1. b - 1 \in Nat \ {0}
        BY <1>1, <3>3
      <4>2. (b - 1) * k >= k
        BY <3>2, <4>1, AtLeastItself
      <4>3. (b - 1) * k = k * (b - 1)
        BY <3>2, <4>1
      <4> QED
        BY <3>2, <4>2, <4>3
    <3> QED
      BY <3>3
  <2> QED
    BY <1>1, <1>2, <2>1, <2>2, <2>3
<1> DEFINE kb == k * b
<1>5. kb \in Int /\ a = kb + m /\ k * b = kb
  BY <1>1, <1>2
<1>6. CASE n >= 0 /\ d > 0
  <2>1. q = k /\ n = a /\ d = b
    BY <1>1, <1>3, <1>6
  <2>2. r = m /\ n = (q * d) + r
    <3>1. d * q = kb
      BY <1>1, <1>2, <1>5, <2>1
    <3> HIDE DEF kb
    <3> QED
      BY <1>1, <1>2, <1>5, <2>1, <3>1
  <2> HIDE DEF kb
  <2> QED
    BY <1>1, <1>2, <1>4, <1>6, <2>1, <2>2 DEF Magnitude
<1>7. CASE n >= 0 /\ d < 0
  <2>1. q = -k /\ n = a /\ d = -b
    BY <1>1, <1>3, <1>7
  <2>2. r = m /\ n = (q * d) + r
    <3>1. d * q = kb
      BY <1>1, <1>2, <1>5, <2>1
    <3>2. q * d = d * q
      BY <1>1, <1>2, <2>1
    <3> HIDE DEF kb
    <3> QED
      BY <1>1, <1>2, <1>5, <2>1, <3>1, <3>2
  <2> HIDE DEF kb
  <2> QED
    BY <1>1, <1>2, <1>4, <1>7, <2>1, <2>2 DEF Magnitude
<1>8. CASE n < 0 /\ d > 0
  <2>1. q = -k /\ n = -a /\ d = b
    BY <1>1, <1>3, <1>8
  <2>2. r = -m /\ n = (q * d) + r
    <3>1. d * q = -kb
      BY <1>1, <1>2, <1>5, <2>1
    <3>2. q * d = d * q
      BY <1>1, <1>2, <2>1
    <3> HIDE DEF kb
    <3> QED
      BY <1>1, <1>2, <1>5, <2>1, <3>1, <3>2
  <2> HIDE DEF kb
  <2> QED
    BY <1>1, <1>2, <1>4, <1>8, <2>1, <2>2 DEF Magnitude
<1>9. CASE n < 0 /\ d < 0
  <2>1. q = k /\ n = -a /\ d = -b
    BY <1>1, <1>3, <1>9
  <2>2. r = -m /\ n = (q * d) + r
    <3>1. d * q = -kb
      BY <1>1, <1>2, <1>5, <2>1
    <3>2. q * d = d * q
      BY <1>1, <1>2, <2>1
    <3> HIDE DEF kb
    <3> QED
      BY <1>1, <1>2, <1>5, <2>1, <3>1, <3>2
  <2> HIDE DEF kb
  <2> QED
    BY <1>1, <1>2, <1>4, <1>9, <2>1, <2>2 DEF Magnitude
<1> QED
  BY <1>6, <1>7, <1>8, <1>9

(* The quotient of two registers fits in one, but for the one of MinInt    *)
(* and -1.                                                                 *)
LEMMA QuotientFits ==
  ASSUME NEW n \in SignedInts, NEW d \in SignedInts \ {0}, ~(n = MinInt /\ d = -1)
  PROVE  Quotient(n, d) \in SignedInts /\ n - (d * Quotient(n, d)) \in SignedInts
<1> DEFINE q == Quotient(n, d)
           r == n - (d * q)
<1>1. n \in Int /\ d \in Int \ {0}
  BY AluSizes
<1>2. /\ q \in Int /\ r \in Int
      /\ Magnitude(r) < Magnitude(d) /\ Magnitude(q) <= Magnitude(n)
      /\ Magnitude(q) = Magnitude(n) /\ n # 0 => Magnitude(d) = 1
      /\ q > 0 => (n < 0 <=> d < 0)
  <2>1. /\ Quotient(n, d) \in Int /\ n - (d * Quotient(n, d)) \in Int
        /\ Magnitude(n - (d * Quotient(n, d))) < Magnitude(d)
        /\ Magnitude(Quotient(n, d)) <= Magnitude(n)
        /\ Magnitude(Quotient(n, d)) = Magnitude(n) /\ n # 0 => Magnitude(d) = 1
        /\ Quotient(n, d) > 0 => (n < 0 <=> d < 0)
    BY <1>1, QuotientIs
  <2> QED
    BY <2>1
<1> HIDE DEF q, r
<1>3. q \in SignedInts /\ r \in SignedInts
  BY <1>1, <1>2, AluSizes DEF Magnitude
<1> QED
  BY <1>3 DEF q, r

LEMMA ProductAtMost ==
  ASSUME NEW h \in Nat, NEW a \in 0 .. h, NEW b \in 0 .. h
  PROVE  a * b \in Nat /\ a * b <= h * h
<1>1. (h - a) * b \in Nat /\ (h - b) * h \in Nat /\ a * b \in Nat
  <2>1. h - a \in Nat /\ h - b \in Nat /\ a \in Nat /\ b \in Nat
    OBVIOUS
  <2> QED
    BY <2>1
<1>2. (h - a) * b = (h * b) - (a * b) /\ (h - b) * h = (h * h) - (b * h) /\ b * h = h * b
  OBVIOUS
<1> QED
  BY <1>1, <1>2

(* The product's halves: HI and LO are its two digits, modulo the square.  *)
LEMMA HalvesAre ==
  ASSUME NEW x \in Int, NEW y \in 0 .. (Modulus * Modulus) - 1, NEW c \in Int,
         x = (c * (Modulus * Modulus)) + y
  PROVE  LET hi == (x % (Modulus * Modulus)) \div Modulus
             lo == x % Modulus
         IN hi \in Unsigned /\ lo \in Unsigned /\ (hi * Modulus) + lo = y
<1> DEFINE n == Modulus
           p == y \div n
           s == y % n
<1>1. n \in Nat \ {0} /\ n * n \in Nat \ {0}
  <2>1. n \in Nat \ {0}
    BY AluSizes
  <2> HIDE DEF n
  <2>2. n * n >= n /\ n * n \in Nat
    BY <2>1, AtLeastItself
  <2> QED
    BY <2>1, <2>2
<1>2. y \in Int /\ p \in Int /\ s \in 0 .. n - 1 /\ y = (p * n) + s
  BY <1>1, QuotientAndRest
<1>3. x % (n * n) = y
  <2> DEFINE nn == n * n
  <2>1. nn \in Nat \ {0} /\ y \in 0 .. nn - 1 /\ x = (c * nn) + y
    BY <1>1
  <2> HIDE DEF nn
  <2>2. x % nn = y
    BY <2>1, ResidueIs
  <2> QED
    BY <2>2 DEF nn
<1>a. y >= 0 /\ y < n * n
  BY <1>1
<1> HIDE DEF p, s, n
<1>4. p \in 0 .. n - 1
  <2>1. ASSUME p < 0 PROVE FALSE
    <3>1. (-p) * n >= n /\ (-p) * n = -(p * n)
      <4>1. -p \in Nat \ {0}
        BY <1>2, <2>1
      <4> QED
        BY <1>1, <1>2, <4>1, AtLeastItself
    <3> QED
      BY <1>1, <1>2, <1>a, <3>1
  <2>2. ASSUME p >= n PROVE FALSE
    <3>1. (p - n) * n \in Nat /\ (p - n) * n = (p * n) - (n * n)
      <4>1. p - n \in Nat
        BY <1>1, <1>2, <2>2
      <4> QED
        BY <1>1, <1>2, <4>1
    <3> QED
      BY <1>1, <1>2, <1>a, <3>1
  <2> QED
    BY <1>1, <1>2, <2>1, <2>2
<1>5. x % n = s
  <2> DEFINE q == (c * n) + p
  <2>1. q \in Int /\ x = (q * n) + s
    <3>1. (q * n) = (c * (n * n)) + (p * n)
      BY <1>1, <1>2
    <3>2. x = (c * (n * n)) + y
      BY DEF n
    <3>3. q \in Int /\ c * (n * n) \in Int /\ p * n \in Int
      BY <1>1, <1>2
    <3> HIDE DEF q
    <3> QED
      BY <1>2, <3>1, <3>2, <3>3
  <2> HIDE DEF q
  <2>2. n \in Nat \ {0} /\ s \in 0 .. n - 1
    BY <1>1, <1>2
  <2> QED
    BY <2>1, <2>2, ResidueIs, ZenonT(60)
<1> QED
  BY <1>1, <1>2, <1>3, <1>4, <1>5 DEF Unsigned, n, p

(* The outcome is HI and LO, or rd, or a trap.                             *)
LEMMA ToHiLo ==
  ASSUME AluIInv, NEW op \in Operations, Compute(op), NEW hi, NEW lo,
         Outcome(op, alu.rs, alu.rt) = [hi |-> hi, lo |-> lo]
  PROVE  /\ alu'.rs = alu.rs /\ alu'.rt = alu.rt /\ alu'.op = op
         /\ alu'.hi = hi /\ alu'.lo = lo
<1> DEFINE new == [hi |-> hi, lo |-> lo]
<1>1. DOMAIN new = {"hi", "lo"} /\ new["hi"] = hi /\ new["lo"] = lo
  OBVIOUS
<1>2. new = Outcome(op, alu.rs, alu.rt)
  OBVIOUS
<1> HIDE DEF new
<1> QED
  BY <1>1, <1>2, ComputedIs

LEMMA ToRd ==
  ASSUME AluIInv, NEW op \in Operations, Compute(op), NEW rd,
         Outcome(op, alu.rs, alu.rt) = [rd |-> rd]
  PROVE  /\ alu'.rs = alu.rs /\ alu'.rt = alu.rt /\ alu'.op = op
         /\ alu'.rd = rd /\ alu'.trap = FALSE
<1> DEFINE new == [rd |-> rd]
<1>1. DOMAIN new = {"rd"} /\ new["rd"] = rd
  OBVIOUS
<1>2. new = Outcome(op, alu.rs, alu.rt)
  OBVIOUS
<1> HIDE DEF new
<1> QED
  BY <1>1, <1>2, ComputedIs

LEMMA ToTrap ==
  ASSUME AluIInv, NEW op \in Operations, Compute(op),
         Outcome(op, alu.rs, alu.rt) = [trap |-> TRUE]
  PROVE  /\ alu'.rs = alu.rs /\ alu'.rt = alu.rt /\ alu'.op = op
         /\ alu'.rd = 0 /\ alu'.trap = TRUE
<1> DEFINE new == [trap |-> TRUE]
<1>1. DOMAIN new = {"trap"} /\ new["trap"] = TRUE
  OBVIOUS
<1>2. new = Outcome(op, alu.rs, alu.rt)
  OBVIOUS
<1> HIDE DEF new
<1> QED
  BY <1>1, <1>2, ComputedIs

LEMMA DivStep == ASSUME AluIInv, "DIV" \in Operations, Compute("DIV") PROVE AluIInv'
<1> DEFINE s == AsSigned(alu.rs)
           t == AsSigned(alu.rt)
           q == Quotient(s, t)
           r == s - (t * q)
<1>1. alu.rs \in Unsigned /\ alu.rt \in Unsigned
  BY DEF AluIInv
<1>2. s \in SignedInts /\ t \in SignedInts /\ s \in Int /\ t \in Int
  BY <1>1, AsSignedIs, AluSizes
<1>3. Outcome("DIV", alu.rs, alu.rt) = Div(s, t)
  BY DEF Outcome
<1>4. PICK hi, lo : Div(s, t) = [hi |-> hi, lo |-> lo]
  <2> HIDE DEF s, t
  <2> QED
    BY DEF Div, Quotiented
<1>5. alu'.rs = alu.rs /\ alu'.rt = alu.rt /\ alu'.op = "DIV" /\ alu'.hi = hi /\ alu'.lo = lo
  BY <1>3, <1>4, ToHiLo
<1>6. ASSUME t # 0, ~(s = MinInt /\ t = -1)
      PROVE  /\ AsSigned(lo) = q /\ AsSigned(hi) = r
             /\ s = (q * t) + r /\ Magnitude(r) < Magnitude(t)
             /\ r # 0 => (r < 0 <=> s < 0)
  <2>1. Div(s, t) = Quotiented(s, t)
    <3> HIDE DEF s, t
    <3> QED
      BY <1>6 DEF Div
  <2>2. Quotiented(s, t) = [hi |-> r % Modulus, lo |-> q % Modulus]
    BY DEF Quotiented
  <2>3. hi = r % Modulus /\ lo = q % Modulus
    <3> DEFINE x == r % Modulus
               y == q % Modulus
    <3>1. [hi |-> hi, lo |-> lo] = [hi |-> x, lo |-> y]
      BY <1>4, <2>1, <2>2
    <3> HIDE DEF x, y
    <3>2. hi = x /\ lo = y
      BY <3>1
    <3> QED
      BY <3>2 DEF x, y
  <2>4. q \in SignedInts /\ r \in SignedInts
    <3> HIDE DEF s, t
    <3> QED
      BY <1>2, <1>6, QuotientFits
  <2>5. s = (q * t) + r /\ Magnitude(r) < Magnitude(t) /\ (r # 0 => (r < 0 <=> s < 0))
    <3>1. t \in Int \ {0} /\ s \in Int
      BY <1>2, <1>6
    <3> HIDE DEF s, t
    <3> QED
      BY <3>1, QuotientIs
  <2> HIDE DEF q, r
  <2> QED
    BY <2>3, <2>4, <2>5, FitsIs
<1>7. AsSigned(alu'.rs) = s /\ AsSigned(alu'.rt) = t
  BY <1>5
<1> HIDE DEF s, t, q, r
<1>8. t # 0 /\ ~(s = MinInt /\ t = -1) =>
        LET qq == AsSigned(alu'.lo)
            rr == AsSigned(alu'.hi)
        IN /\ s = qq * t + rr /\ Magnitude(rr) < Magnitude(t)
           /\ rr # 0 => (rr < 0) = (s < 0)
  <2> SUFFICES ASSUME t # 0, ~(s = MinInt /\ t = -1)
               PROVE  /\ s = (q * t) + r /\ Magnitude(r) < Magnitude(t)
                      /\ r # 0 => (r < 0) = (s < 0)
    BY <1>5, <1>6
  <2> QED
    BY <1>6
<1> QED
  BY <1>1, <1>5, <1>7, <1>8 DEF AluIInv, ResultsAreExact

LEMMA DivuStep == ASSUME AluIInv, "DIVU" \in Operations, Compute("DIVU") PROVE AluIInv'
<1> DEFINE n == alu.rs
           d == alu.rt
           q == Quotient(n, d)
           r == n - (d * q)
<1>1. n \in Unsigned /\ d \in Unsigned
  BY DEF AluIInv
<1>2. Outcome("DIVU", alu.rs, alu.rt) = Divu(n, d)
  BY DEF Outcome
<1> HIDE DEF n, d
<1>3. PICK hi, lo : Divu(n, d) = [hi |-> hi, lo |-> lo]
  BY DEF Divu, Quotiented
<1>4. alu'.rs = n /\ alu'.rt = d /\ alu'.op = "DIVU" /\ alu'.hi = hi /\ alu'.lo = lo
  BY <1>2, <1>3, ToHiLo DEF n, d
<1>5. ASSUME d # 0
      PROVE  lo = q /\ hi = r /\ n = (q * d) + r /\ r < d
  <2>1. Divu(n, d) = [hi |-> r % Modulus, lo |-> q % Modulus]
    BY <1>5 DEF Divu, Quotiented
  <2>2. hi = r % Modulus /\ lo = q % Modulus
    <3> DEFINE x == r % Modulus
               y == q % Modulus
    <3>1. [hi |-> hi, lo |-> lo] = [hi |-> x, lo |-> y]
      BY <1>3, <2>1
    <3> HIDE DEF x, y
    <3>2. hi = x /\ lo = y
      BY <3>1
    <3> QED
      BY <3>2 DEF x, y
  <2>3. n \in Int /\ d \in Int \ {0} /\ n >= 0 /\ d > 0 /\ n < Modulus /\ d < Modulus
    BY <1>1, <1>5, AluSizes DEF Unsigned
  <2>4. /\ q \in Int /\ r \in Int /\ n = (q * d) + r
        /\ Magnitude(r) < Magnitude(d) /\ Magnitude(q) <= Magnitude(n)
        /\ q >= 0 /\ r >= 0
    BY <2>3, QuotientIs
  <2> HIDE DEF q, r
  <2>5. r < d /\ q <= n
    BY <2>3, <2>4 DEF Magnitude
  <2>6. q \in Unsigned /\ r \in Unsigned
    BY <2>3, <2>4, <2>5, AluSizes DEF Unsigned
  <2> QED
    BY <2>2, <2>4, <2>5, <2>6, UnsignedFits
<1> HIDE DEF q, r
<1>6. d # 0 => n = lo * d + hi /\ hi < d
  BY <1>5
<1> QED
  BY <1>1, <1>4, <1>6 DEF AluIInv, ResultsAreExact

LEMMA MultuStep == ASSUME AluIInv, "MULTU" \in Operations, Compute("MULTU") PROVE AluIInv'
<1> DEFINE a == alu.rs
           b == alu.rt
           x == a * b
           hi == (x % (Modulus * Modulus)) \div Modulus
           lo == x % Modulus
<1>1. a \in Unsigned /\ b \in Unsigned
  BY DEF AluIInv
<1>2. Outcome("MULTU", alu.rs, alu.rt) = [hi |-> hi, lo |-> lo]
  BY DEF Outcome, Mult
<1> HIDE DEF a, b, hi, lo
<1>3. alu'.rs = a /\ alu'.rt = b /\ alu'.op = "MULTU" /\ alu'.hi = hi /\ alu'.lo = lo
  BY <1>2, ToHiLo DEF a, b
<1>4. x \in 0 .. (Modulus * Modulus) - 1
  <2> DEFINE h == Modulus - 1
  <2>1. h \in Nat /\ a \in 0 .. h /\ b \in 0 .. h /\ Modulus = h + 1
    BY <1>1, AluSizes DEF Unsigned
  <2> HIDE DEF h
  <2>2. x \in Nat /\ x <= h * h
    BY <2>1, ProductAtMost
  <2>3. (h + 1) * (h + 1) = ((h * h) + h) + (h + 1) /\ h * h \in Nat
    BY <2>1
  <2> HIDE DEF x
  <2> QED
    BY <2>1, <2>2, <2>3
<1>5. hi * Modulus + lo = a * b
  <2>1. x \in Int /\ x = (0 * (Modulus * Modulus)) + x
    <3>1. x \in Int /\ Modulus * Modulus \in Int
      BY <1>4, AluSizes
    <3> HIDE DEF x
    <3> QED
      BY <3>1
  <2> HIDE DEF x
  <2>2. (hi * Modulus) + lo = x
    BY <1>4, <2>1, HalvesAre DEF hi, lo
  <2> QED
    BY <2>2 DEF x
<1> QED
  BY <1>1, <1>3, <1>5 DEF AluIInv, ResultsAreExact

(* A signed product is no larger than a quarter of the square.             *)
LEMMA SignedProduct ==
  ASSUME NEW s \in SignedInts, NEW t \in SignedInts
  PROVE  /\ s * t \in Int /\ s * t <= HalfOf * HalfOf /\ -(HalfOf * HalfOf) <= s * t
<1> DEFINE a == Magnitude(s)
           b == Magnitude(t)
           hh == HalfOf * HalfOf
<1>1. s \in Int /\ t \in Int /\ HalfOf \in Nat
  BY AluSizes
<1>2. /\ a \in 0 .. HalfOf /\ b \in 0 .. HalfOf /\ a \in Int /\ b \in Int
      /\ (s = a \/ s = -a) /\ (t = b \/ t = -b)
  BY AluSizes DEF Magnitude
<1> HIDE DEF a, b
<1>3. a * b \in Nat /\ a * b <= hh /\ hh \in Int
  BY <1>1, <1>2, ProductAtMost
<1>4. s * t = a * b \/ s * t = -(a * b)
  <2>1. CASE s = a /\ t = b
    BY <2>1
  <2>2. CASE s = -a /\ t = b
    BY <1>2, <2>2
  <2>3. CASE s = a /\ t = -b
    BY <1>2, <2>3
  <2>4. CASE s = -a /\ t = -b
    BY <1>2, <2>4
  <2> QED
    BY <1>2, <2>1, <2>2, <2>3, <2>4
<1> HIDE DEF hh
<1>5. s * t \in Int /\ s * t <= hh /\ -hh <= s * t
  BY <1>3, <1>4
<1> QED
  BY <1>5 DEF hh

(* The upper half of a number says whether it is past the middle.          *)
LEMMA UpperHalf ==
  ASSUME NEW hi \in Unsigned, NEW lo \in Unsigned
  PROVE  hi >= HalfOf <=> (hi * Modulus) + lo >= 2 * (HalfOf * HalfOf)
<1> DEFINE n == Modulus
           h == HalfOf
<1>1. n \in Nat \ {0} /\ h \in Nat \ {0} /\ n = 2 * h /\ hi \in 0 .. n - 1 /\ lo \in 0 .. n - 1
  BY AluSizes DEF Unsigned
<1> HIDE DEF n, h
<1>2. h * n = 2 * (h * h)
  BY <1>1
<1>3. CASE hi >= h
  <2>1. (hi - h) * n \in Nat /\ (hi - h) * n = (hi * n) - (h * n)
    <3>1. hi - h \in Nat
      BY <1>1, <1>3
    <3> QED
      BY <1>1, <3>1
  <2>2. h * n \in Int /\ hi * n \in Int
    BY <1>1
  <2>3. (hi * n) + lo >= h * n
    BY <1>1, <2>1, <2>2
  <2> QED
    BY <1>2, <1>3, <2>3 DEF n, h
<1>4. CASE hi < h
  <2>1. (h - hi) * n >= n /\ (h - hi) * n = (h * n) - (hi * n)
    <3>1. h - hi \in Nat \ {0}
      BY <1>1, <1>4
    <3> QED
      BY <1>1, <3>1, AtLeastItself
  <2>2. h * n \in Int /\ hi * n \in Int
    BY <1>1
  <2>3. (hi * n) + lo < h * n
    BY <1>1, <2>1, <2>2
  <2>4. ~((hi * n) + lo >= h * n) /\ ~(hi >= h)
    BY <1>1, <1>4, <2>2, <2>3
  <2> QED
    BY <1>2, <2>4 DEF n, h
<1> QED
  BY <1>1, <1>3, <1>4

LEMMA SignedHalves ==
  ASSUME NEW s \in SignedInts, NEW t \in SignedInts
  PROVE  LET hi == ((s * t) % (Modulus * Modulus)) \div Modulus
             lo == (s * t) % Modulus
             whole == (hi * Modulus) + lo
         IN s * t = IF hi >= HalfOf THEN whole - Modulus * Modulus ELSE whole
<1> DEFINE x == s * t
           hh == HalfOf * HalfOf
           nn == Modulus * Modulus
           hi == (x % nn) \div Modulus
           lo == x % Modulus
           whole == (hi * Modulus) + lo
<1>1. x \in Int /\ x <= hh /\ -hh <= x
  BY SignedProduct
<1>2. hh \in Nat \ {0} /\ nn = 4 * hh
  <2>1. HalfOf \in Nat \ {0} /\ Modulus = 2 * HalfOf
    BY AluSizes
  <2>2. hh >= HalfOf /\ hh \in Nat
    BY <2>1, AtLeastItself
  <2> QED
    BY <2>1, <2>2
<1>3. hi \in Unsigned /\ lo \in Unsigned /\ whole = IF x >= 0 THEN x ELSE x + nn
  <2>1. CASE x >= 0
    <3>1. x \in 0 .. nn - 1 /\ x = (0 * nn) + x
      <4> HIDE DEF x, hh, nn
      <4> QED
        BY <1>1, <1>2, <2>1
    <3> HIDE DEF x
    <3> QED
      BY <1>1, <2>1, <3>1, HalvesAre
  <2>2. CASE x < 0
    <3> DEFINE y == x + nn
               c == -1
    <3>1. y \in 0 .. nn - 1 /\ x = (c * nn) + y /\ c \in Int
      <4> HIDE DEF x, hh, nn
      <4> QED
        BY <1>1, <1>2, <2>2
    <3>2. x \in Int /\ ~(x >= 0)
      <4> HIDE DEF x
      <4> QED
        BY <1>1, <2>2
    <3> HIDE DEF x, y, c
    <3>3. hi \in Unsigned /\ lo \in Unsigned /\ (hi * Modulus) + lo = y
      BY <3>1, <3>2, HalvesAre
    <3> QED
      BY <3>2, <3>3 DEF y
  <2> HIDE DEF x
  <2> QED
    BY <1>1, <2>1, <2>2
<1> HIDE DEF x, hi, lo
<1>4. hi >= HalfOf <=> whole >= 2 * hh
  BY <1>3, UpperHalf
<1> HIDE DEF hh, nn, whole
<1>5. x = IF hi >= HalfOf THEN whole - nn ELSE whole
  <2>1. CASE x >= 0
    BY <1>1, <1>2, <1>3, <1>4, <2>1
  <2>2. CASE x < 0
    BY <1>1, <1>2, <1>3, <1>4, <2>2
  <2> QED
    BY <1>1, <2>1, <2>2
<1> QED
  BY <1>5 DEF x, hi, lo, nn, whole

LEMMA MultStep == ASSUME AluIInv, "MULT" \in Operations, Compute("MULT") PROVE AluIInv'
<1> DEFINE s == AsSigned(alu.rs)
           t == AsSigned(alu.rt)
           hi == ((s * t) % (Modulus * Modulus)) \div Modulus
           lo == (s * t) % Modulus
<1>1. alu.rs \in Unsigned /\ alu.rt \in Unsigned
  BY DEF AluIInv
<1>2. s \in SignedInts /\ t \in SignedInts
  BY <1>1, AsSignedIs
<1>3. Outcome("MULT", alu.rs, alu.rt) = [hi |-> hi, lo |-> lo]
  BY DEF Outcome, Mult
<1>4. s * t = IF hi >= HalfOf THEN ((hi * Modulus) + lo) - Modulus * Modulus ELSE (hi * Modulus) + lo
  <2> HIDE DEF s, t
  <2> QED
    BY <1>2, SignedHalves
<1> HIDE DEF hi, lo
<1>5. alu'.rs = alu.rs /\ alu'.rt = alu.rt /\ alu'.op = "MULT" /\ alu'.hi = hi /\ alu'.lo = lo
  BY <1>3, ToHiLo
<1>6. AsSigned(alu'.rs) = s /\ AsSigned(alu'.rt) = t
  BY <1>5
<1> HIDE DEF s, t
<1>7. s * t = IF alu'.hi >= Modulus \div 2 THEN (alu'.hi * Modulus + alu'.lo) - Modulus * Modulus
              ELSE alu'.hi * Modulus + alu'.lo
  BY <1>4, <1>5 DEF HalfOf
<1> QED
  BY <1>1, <1>5, <1>6, <1>7 DEF AluIInv, ResultsAreExact

(* A sum or a difference.                                                  *)
LEMMA CheckedStep ==
  ASSUME AluIInv, NEW op \in Operations \cap {"ADD", "SUB"}, Compute(op), NEW exact \in Int,
         Outcome(op, alu.rs, alu.rt) = Checked(exact),
         exact = IF op = "ADD" THEN AsSigned(alu.rs) + AsSigned(alu.rt)
                 ELSE AsSigned(alu.rs) - AsSigned(alu.rt)
  PROVE  AluIInv'
<1>1. alu.rs \in Unsigned /\ alu.rt \in Unsigned
  BY DEF AluIInv
<1>2. CASE exact \in SignedInts
  <2> DEFINE rd == exact % Modulus
  <2>1. Outcome(op, alu.rs, alu.rt) = [rd |-> rd]
    BY <1>2 DEF Checked
  <2>2. AsSigned(rd) = exact
    BY <1>2, FitsIs
  <2> HIDE DEF rd
  <2>3. alu'.rs = alu.rs /\ alu'.rt = alu.rt /\ alu'.op = op /\ alu'.rd = rd /\ alu'.trap = FALSE
    BY <2>1, ToRd
  <2> QED
    BY <1>1, <2>2, <2>3 DEF AluIInv, ResultsAreExact
<1>3. CASE exact \notin SignedInts
  <2>1. Outcome(op, alu.rs, alu.rt) = [trap |-> TRUE]
    BY <1>3 DEF Checked
  <2>2. alu'.rs = alu.rs /\ alu'.rt = alu.rt /\ alu'.op = op /\ alu'.rd = 0 /\ alu'.trap = TRUE
    BY <2>1, ToTrap
  <2> QED
    BY <1>1, <1>3, <2>2 DEF AluIInv, ResultsAreExact
<1> QED
  BY <1>2, <1>3

LEMMA SetStep ==
  ASSUME AluIInv, NEW op \in Operations \cap {"SLT", "SLTU"}, Compute(op)
  PROVE  AluIInv'
<1>1. alu.rs \in Unsigned /\ alu.rt \in Unsigned
  BY DEF AluIInv
<1>2. PICK rd : Outcome(op, alu.rs, alu.rt) = [rd |-> rd]
  <2>1. CASE op = "SLT"
    BY <2>1 DEF Outcome, SetIf
  <2>2. CASE op = "SLTU"
    BY <2>2 DEF Outcome, SetIf
  <2> QED
    BY <2>1, <2>2
<1>3. alu'.rs = alu.rs /\ alu'.rt = alu.rt /\ alu'.op = op
  BY <1>2, ToRd
<1> QED
  BY <1>1, <1>3 DEF AluIInv, ResultsAreExact

LEMMA ComputeStep == ASSUME AluIInv, NEW op \in Operations, Compute(op) PROVE AluIInv'
<1> DEFINE s == AsSigned(alu.rs)
           t == AsSigned(alu.rt)
<1>1. s \in Int /\ t \in Int
  BY AsSignedIs, AluSizes DEF AluIInv
<1>2. CASE op = "ADD"
  <2>1. Outcome(op, alu.rs, alu.rt) = Checked(s + t)
    BY <1>2 DEF Outcome
  <2>2. s + t \in Int
    BY <1>1
  <2> QED
    BY <1>2, <2>1, <2>2, CheckedStep
<1>3. CASE op = "SUB"
  <2>1. Outcome(op, alu.rs, alu.rt) = Checked(s - t)
    BY <1>3 DEF Outcome
  <2>2. s - t \in Int
    BY <1>1
  <2> QED
    BY <1>3, <2>1, <2>2, CheckedStep
<1> QED
  BY <1>2, <1>3, KnownOperations, DivStep, DivuStep, MultStep, MultuStep, SetStep

LEMMA NextAlu == AluIInv /\ [AluNext]_alu_vars => AluIInv'
<1> SUFFICES ASSUME AluIInv, [AluNext]_alu_vars PROVE AluIInv'
  OBVIOUS
<1>1. ASSUME NEW op \in Operations, Compute(op) PROVE AluIInv'
  BY <1>1, ComputeStep
<1>2. ASSUME UNCHANGED alu PROVE AluIInv'
  BY <1>2 DEF AluIInv, ResultsAreExact
<1>3. ASSUME NEW half \in Both, StorePartial(half) \/ LoadPartial(half) PROVE AluIInv'
  BY <1>2, <1>3 DEF StorePartial, LoadPartial
<1> QED
  BY <1>1, <1>2, <1>3, AgainKeepsAlu DEF AluNext, Both, alu_vars

LEMMA InitAlu == AluInit => AluIInv /\ WordIInv
<1> SUFFICES ASSUME AluInit PROVE AluIInv /\ WordIInv
  OBVIOUS
<1>1. PICK a \in Unsigned, b \in Unsigned : alu = Operands(a, b)
  BY DEF AluInit
<1>2. PICK at \in Bytes, ram \in BOOLEAN : word = Placed(at, ram)
  BY DEF AluInit
<1> QED
  BY <1>1, <1>2, FreshIsExact, PlacedIs

(* Registers of any even width: a quotient and a remainder give the        *)
(* numerator back, HI and LO hold the whole product, a sum traps exactly   *)
(* when it does not fit, and a word stored and loaded in two unaligned     *)
(* halves arrives whole (op_div, op_divu, op_mult, op_multu, op_add,       *)
(* op_sub; cpu_store_partial, op_lwl, op_lwr).                             *)
THEOREM DataStaysExact == AluSpec => []DataIsExact
<1>1. AluInit => AluIInv /\ WordIInv
  BY InitAlu
<1>2. AluIInv /\ WordIInv /\ [AluNext]_alu_vars => AluIInv' /\ WordIInv'
  BY NextAlu, NextWord
<1>3. AluIInv /\ WordIInv => DataIsExact
  BY WordIsWhole DEF DataIsExact, AluIInv
<1> QED
  BY <1>1, <1>2, <1>3, PTL DEF AluSpec

-----------------------------------------------------------------------------
(* Timers: the closed form of the catch-up is what stepping boundary by    *)
(* boundary gives, the event comes in time and a one-shot fires once.      *)

(* A crossing changes a bit, the sticky flags and, in one-shot mode, the   *)
(* two enables.                                                            *)
Bit(t, b)   == [t EXCEPT !.bit10 = b]
Reached(t)  == IF ToTarget(t) THEN [t EXCEPT !.reached_target = TRUE]
               ELSE [t EXCEPT !.reached_ffff = TRUE]
Quieted(t)  == IF t.mode.irq_repeat THEN t
               ELSE [t EXCEPT !.mode.irq_on_target = FALSE, !.mode.irq_on_ffff = FALSE]
High(t)     == ~t.mode.irq_pulse \/ ~t.bit10
Rung(q)     == IF "TMR0" \in q.status THEN q ELSE RaiseLine(q, "TMR0")
RungIf(b, q) == IF b THEN Rung(q) ELSE q
Counted(n)  == IF n = 2 THEN 2 ELSE n + 1

TimerMachines == [t : TimerState, q : IrqRegs, n : 0 .. 2]

LEMMA RungIs ==
  ASSUME NEW q \in IrqRegs
  PROVE  Rung(q) \in IrqRegs /\ Rung(Rung(q)) = Rung(q)
<1>1. CASE "TMR0" \in q.status
  BY <1>1 DEF Rung
<1>2. CASE "TMR0" \notin q.status
  <2> DEFINE wires == q.line \cup {"TMR0"}
             status == IF "TMR0" \in q.line THEN q.status ELSE q.status \cup {"TMR0"}
  <2>1. q = [status |-> q.status, line |-> q.line, mask |-> q.mask]
    BY DEF IrqRegs
  <2>2. wires \subseteq Lines /\ status \subseteq Lines /\ q.mask \subseteq Lines /\ "TMR0" \in wires
    BY TimerConstants DEF IrqRegs
  <2>3. Rung(q) = [status |-> status, line |-> wires, mask |-> q.mask]
    BY <1>2, <2>1 DEF Rung, RaiseLine
  <2> HIDE DEF wires
  <2>4. /\ Rung(q).line = wires /\ Rung(q).status = status
        /\ Rung(q) \in IrqRegs
    BY <2>2, <2>3 DEF IrqRegs
  <2> HIDE DEF status
  <2>5. CASE "TMR0" \in status
    BY <2>4, <2>5 DEF Rung
  <2>6. CASE "TMR0" \notin status
    <3>1. Rung(Rung(q)) = RaiseLine(Rung(q), "TMR0")
      BY <2>4, <2>6 DEF Rung
    <3>2. RaiseLine(Rung(q), "TMR0") = [status |-> status, line |-> wires \cup {"TMR0"}, mask |-> q.mask]
      BY <2>2, <2>3, <2>4 DEF RaiseLine
    <3>3. wires \cup {"TMR0"} = wires
      BY <2>2
    <3> QED
      BY <2>3, <2>4, <3>1, <3>2, <3>3
  <2> QED
    BY <2>4, <2>5, <2>6
<1> QED
  BY <1>1, <1>2

LEMMA BitIs ==
  ASSUME NEW t \in TimerState, NEW b \in BOOLEAN
  PROVE  /\ Bit(t, b) \in TimerState /\ Bit(t, b).bit10 = b
         /\ Bit(t, b).mode = t.mode /\ Bit(t, b).target = t.target
         /\ Bit(t, b).counting = t.counting /\ Bit(t, b).index = t.index
         /\ \A c \in BOOLEAN : Bit(Bit(t, b), c) = Bit(t, c)
         /\ Bit(t, t.bit10) = t
<1>1. /\ Bit(t, b) \in TimerState /\ Bit(t, b).bit10 = b
      /\ Bit(t, b).mode = t.mode /\ Bit(t, b).target = t.target
      /\ Bit(t, b).counting = t.counting /\ Bit(t, b).index = t.index
  BY DEF Bit, TimerState
<1>2. ASSUME NEW c \in BOOLEAN PROVE Bit(Bit(t, b), c) = Bit(t, c)
  BY DEF Bit, TimerState
<1>3. Bit(t, t.bit10) = t
  BY DEF Bit, TimerState
<1> QED
  BY <1>1, <1>2, <1>3

LEMMA ReachedIs ==
  ASSUME NEW t \in TimerState
  PROVE  /\ Reached(t) \in TimerState /\ Reached(t).bit10 = t.bit10
         /\ Reached(t).mode = t.mode /\ Reached(t).target = t.target
         /\ Reached(t).counting = t.counting /\ Reached(t).index = t.index
         /\ Reached(Reached(t)) = Reached(t)
         /\ \A b \in BOOLEAN : Reached(Bit(Reached(t), b)) = Bit(Reached(t), b)
<1>1. CASE ToTarget(t)
  <2> DEFINE u == [t EXCEPT !.reached_target = TRUE]
  <2>1. Reached(t) = u
    BY <1>1 DEF Reached
  <2>2. /\ u \in TimerState /\ u.bit10 = t.bit10 /\ u.mode = t.mode /\ u.target = t.target
        /\ u.counting = t.counting /\ u.index = t.index /\ u.reached_target = TRUE
    BY DEF TimerState
  <2> HIDE DEF u
  <2>3. ToTarget(u)
    BY <1>1, <2>2 DEF ToTarget
  <2>4. Reached(u) = u
    BY <2>2, <2>3 DEF Reached, TimerState
  <2>5. ASSUME NEW b \in BOOLEAN PROVE Reached(Bit(u, b)) = Bit(u, b)
    <3> DEFINE w == Bit(u, b)
    <3>1. w \in TimerState /\ w.reached_target = TRUE /\ w.mode = u.mode /\ w.target = u.target
      BY <2>2 DEF Bit, TimerState
    <3> HIDE DEF w
    <3>2. ToTarget(w)
      BY <2>3, <3>1 DEF ToTarget
    <3>3. Reached(w) = w
      BY <3>1, <3>2 DEF Reached, TimerState
    <3> QED
      BY <3>3 DEF w
  <2> QED
    BY <2>1, <2>2, <2>4, <2>5
<1>2. CASE ~ToTarget(t)
  <2> DEFINE u == [t EXCEPT !.reached_ffff = TRUE]
  <2>1. Reached(t) = u
    BY <1>2 DEF Reached
  <2>2. /\ u \in TimerState /\ u.bit10 = t.bit10 /\ u.mode = t.mode /\ u.target = t.target
        /\ u.counting = t.counting /\ u.index = t.index /\ u.reached_ffff = TRUE
    BY DEF TimerState
  <2> HIDE DEF u
  <2>3. ~ToTarget(u)
    BY <1>2, <2>2 DEF ToTarget
  <2>4. Reached(u) = u
    BY <2>2, <2>3 DEF Reached, TimerState
  <2>5. ASSUME NEW b \in BOOLEAN PROVE Reached(Bit(u, b)) = Bit(u, b)
    <3> DEFINE w == Bit(u, b)
    <3>1. w \in TimerState /\ w.reached_ffff = TRUE /\ w.mode = u.mode /\ w.target = u.target
      BY <2>2 DEF Bit, TimerState
    <3> HIDE DEF w
    <3>2. ~ToTarget(w)
      BY <2>3, <3>1 DEF ToTarget
    <3>3. Reached(w) = w
      BY <3>1, <3>2 DEF Reached, TimerState
    <3> QED
      BY <3>3 DEF w
  <2> QED
    BY <2>1, <2>2, <2>4, <2>5
<1> QED
  BY <1>1, <1>2

(* A one-shot that has fired will not fire again.                          *)
LEMMA QuietedIs ==
  ASSUME NEW t \in TimerState
  PROVE  /\ Quieted(t) \in TimerState /\ Quieted(t).target = t.target
         /\ Quieted(t).counting = t.counting /\ Quieted(t).index = t.index
         /\ Quieted(t).mode.irq_repeat = t.mode.irq_repeat
         /\ Quieted(t).mode.derived = t.mode.derived
         /\ Quieted(t).mode.reset_on_target = t.mode.reset_on_target
         /\ t.mode.irq_repeat => Quieted(t) = t
         /\ ~t.mode.irq_repeat => /\ ~Quieted(t).mode.irq_on_target
                                  /\ ~Quieted(t).mode.irq_on_ffff
                                  /\ ~Armed(Quieted(t))
<1>1. CASE t.mode.irq_repeat
  BY <1>1 DEF Quieted
<1>2. CASE ~t.mode.irq_repeat
  <2> DEFINE md == [t.mode EXCEPT !.irq_on_target = FALSE, !.irq_on_ffff = FALSE]
             u == [t EXCEPT !.mode = md]
  <2>1. /\ md \in ModeBits /\ md.irq_on_target = FALSE /\ md.irq_on_ffff = FALSE
        /\ md.irq_repeat = t.mode.irq_repeat /\ md.derived = t.mode.derived
        /\ md.reset_on_target = t.mode.reset_on_target
    BY DEF TimerState, ModeBits
  <2>2. Quieted(t) = u
    <3> DEFINE w == [t EXCEPT !.mode.irq_on_target = FALSE]
    <3>1. Quieted(t) = [t EXCEPT !.mode.irq_on_target = FALSE, !.mode.irq_on_ffff = FALSE]
      BY <1>2 DEF Quieted
    <3>2. w = [t EXCEPT !.mode = [t.mode EXCEPT !.irq_on_target = FALSE]]
      BY DEF TimerState
    <3> QED
      BY <3>1 DEF TimerState
  <2> HIDE DEF md
  <2>3. /\ u \in TimerState /\ u.target = t.target /\ u.counting = t.counting /\ u.index = t.index
        /\ u.mode = md
    BY <2>1 DEF TimerState
  <2> HIDE DEF u
  <2>4. ~Armed(u)
    BY <2>1, <2>3 DEF Armed
  <2> QED
    BY <1>2, <2>1, <2>2, <2>3, <2>4
<1> QED
  BY <1>1, <1>2

Made(t, q, n) == [t |-> t, q |-> q, n |-> n]

LEMMA MadeIs ==
  ASSUME NEW x \in TimerMachines
  PROVE  x = Made(x.t, x.q, x.n) /\ x.t \in TimerState /\ x.q \in IrqRegs /\ x.n \in 0 .. 2
BY DEF TimerMachines, Made

LEMMA FieldsOf ==
  ASSUME NEW t, NEW q, NEW n
  PROVE  /\ Made(t, q, n).t = t /\ Made(t, q, n).q = q /\ Made(t, q, n).n = n
         /\ t \in TimerState /\ q \in IrqRegs /\ n \in 0 .. 2 => Made(t, q, n) \in TimerMachines
BY DEF TimerMachines, Made

LEMMA ReachIs ==
  ASSUME NEW t \in TimerState, NEW q \in IrqRegs, NEW n \in 0 .. 2
  PROVE  Reach(Made(t, q, n)) = Made(Reached(t), q, n)
BY DEF Reach, Made, Reached

LEMMA RequestIs ==
  ASSUME NEW t \in TimerState, NEW q \in IrqRegs, NEW n \in 0 .. 2
  PROVE  Request(Made(t, q, n)) = Made(t, Rung(q), n)
BY DEF Request, Made, Rung

LEMMA DisarmIs ==
  ASSUME NEW t \in TimerState, NEW q \in IrqRegs, NEW n \in 0 .. 2
  PROVE  Disarm(Made(t, q, n)) = Made(Quieted(t), q, n)
<1> DEFINE m == Made(t, q, n)
<1>1. m.t = t /\ m = [t |-> t, q |-> q, n |-> n]
  BY DEF Made
<1>2. CASE t.mode.irq_repeat
  BY <1>1, <1>2 DEF Disarm, Quieted
<1>3. CASE ~t.mode.irq_repeat
  <2>1. Disarm(m) = [m EXCEPT !.t.mode.irq_on_target = FALSE, !.t.mode.irq_on_ffff = FALSE]
    BY <1>1, <1>3 DEF Disarm
  <2>2. Quieted(t) = [t EXCEPT !.mode.irq_on_target = FALSE, !.mode.irq_on_ffff = FALSE]
    BY <1>3 DEF Quieted
  <2> DEFINE w == [m EXCEPT !.t.mode.irq_on_target = FALSE]
             v == [t EXCEPT !.mode.irq_on_target = FALSE]
  <2>3. w = [t |-> v, q |-> q, n |-> n]
    <3>1. w = [m EXCEPT !.t = v]
      BY <1>1
    <3> HIDE DEF v, w
    <3> QED
      BY <1>1, <3>1
  <2>4. Disarm(m) = [w EXCEPT !.t.mode.irq_on_ffff = FALSE]
    BY <2>1
  <2>5. Quieted(t) = [v EXCEPT !.mode.irq_on_ffff = FALSE]
    BY <2>2
  <2> HIDE DEF w, v
  <2>6. Disarm(m) = [t |-> [v EXCEPT !.mode.irq_on_ffff = FALSE], q |-> q, n |-> n]
    BY <2>3, <2>4
  <2> QED
    BY <2>5, <2>6 DEF Made
<1> QED
  BY <1>2, <1>3

(* One boundary's interrupt.                                               *)
LEMMA FireIs ==
  ASSUME NEW t \in TimerState, NEW q \in IrqRegs, NEW n \in 0 .. 2
  PROVE  /\ FireIrq(Made(t, q, n)) = Made(Quieted(Bit(t, High(t))), RungIf(High(t), q), Counted(n))
         /\ RungIf(High(t), q) \in IrqRegs /\ Counted(n) \in 0 .. 2 /\ High(t) \in BOOLEAN
<1> DEFINE m == Made(t, q, n)
           h == High(t)
           out == [m EXCEPT !.t.bit10 = h, !.n = IF @ = 2 THEN 2 ELSE @ + 1]
           ring == IF h THEN Request(out) ELSE out
<1>1. m = [t |-> t, q |-> q, n |-> n] /\ m.t = t /\ m.n = n
  BY DEF Made
<1>2. h \in BOOLEAN /\ Counted(n) \in 0 .. 2 /\ Bit(t, h) \in TimerState
  <2>1. h \in BOOLEAN
    BY DEF High
  <2> QED
    BY <2>1, BitIs DEF Counted
<1>3. FireIrq(m) = Disarm(ring)
  BY <1>1 DEF FireIrq, High
<1>4. out = Made(Bit(t, h), q, Counted(n))
  <2> DEFINE w == [m EXCEPT !.t.bit10 = h]
  <2>1. w = [t |-> Bit(t, h), q |-> q, n |-> n]
    BY <1>1 DEF Bit
  <2>2. out = [w EXCEPT !.n = IF @ = 2 THEN 2 ELSE @ + 1]
    OBVIOUS
  <2> HIDE DEF w
  <2>3. out = [t |-> Bit(t, h), q |-> q, n |-> IF n = 2 THEN 2 ELSE n + 1]
    BY <2>1, <2>2
  <2> QED
    BY <2>3 DEF Made, Counted
<1> HIDE DEF m, h, out
<1>5. ring = Made(Bit(t, h), RungIf(h, q), Counted(n))
  <2>1. CASE h
    BY <1>2, <1>4, <2>1, RequestIs DEF RungIf
  <2>2. CASE ~h
    BY <1>4, <2>2 DEF RungIf
  <2> QED
    BY <2>1, <2>2
<1>6. RungIf(h, q) \in IrqRegs
  BY RungIs DEF RungIf
<1> HIDE DEF ring
<1>7. FireIrq(m) = Made(Quieted(Bit(t, h)), RungIf(h, q), Counted(n))
  BY <1>2, <1>3, <1>5, <1>6, DisarmIs
<1> QED
  BY <1>2, <1>6, <1>7 DEF m, h

Flipped(b, rest) == IF rest % 2 = 1 THEN ~b ELSE b
Rises(b, rest)   == IF b THEN rest >= 2 ELSE rest >= 1

LEMMA TogglesIs ==
  ASSUME NEW t \in TimerState, NEW q \in IrqRegs, NEW n \in 0 .. 2, NEW rest \in Nat
  PROVE  Toggles(Made(t, q, n), rest)
           = Made(Bit(t, Flipped(t.bit10, rest)), RungIf(Rises(t.bit10, rest), q), n)
<1> DEFINE m == Made(t, q, n)
           b == Flipped(t.bit10, rest)
           out == [m EXCEPT !.t.bit10 = IF rest % 2 = 1 THEN ~@ ELSE @]
<1>1. m = [t |-> t, q |-> q, n |-> n] /\ m.t = t
  BY DEF Made
<1>2. t.bit10 \in BOOLEAN /\ b \in BOOLEAN /\ Bit(t, b) \in TimerState
  <2>1. t.bit10 \in BOOLEAN /\ b \in BOOLEAN
    BY DEF TimerState, Flipped
  <2> QED
    BY <2>1, BitIs
<1>3. out = Made(Bit(t, b), q, n)
  <2>1. CASE rest % 2 = 1
    BY <1>1, <2>1 DEF Made, Bit, Flipped
  <2>2. CASE rest % 2 # 1
    BY <1>1, <2>2 DEF Made, Bit, Flipped
  <2> QED
    BY <2>1, <2>2
<1>4. Toggles(m, rest) = IF Rises(t.bit10, rest) THEN Request(out) ELSE out
  <2> HIDE DEF m
  <2> QED
    BY <1>1 DEF Toggles, Rises
<1> HIDE DEF m, b, out
<1>5. CASE Rises(t.bit10, rest)
  BY <1>2, <1>3, <1>4, <1>5, RequestIs DEF RungIf, m, b
<1>6. CASE ~Rises(t.bit10, rest)
  BY <1>3, <1>4, <1>6 DEF RungIf, m, b
<1> QED
  BY <1>5, <1>6

LEMMA FlipsAreBits ==
  ASSUME NEW b \in BOOLEAN, NEW k \in Nat
  PROVE  Flipped(b, k) \in BOOLEAN /\ Rises(b, k) \in BOOLEAN
<1>1. Rises(b, k) \in BOOLEAN
  <2> DEFINE y == k >= 2
             z == k >= 1
  <2>1. y \in BOOLEAN /\ z \in BOOLEAN
    OBVIOUS
  <2>2. Rises(b, k) = IF b THEN y ELSE z
    BY DEF Rises
  <2> HIDE DEF y, z
  <2>3. CASE b
    BY <2>1, <2>2, <2>3
  <2>4. CASE ~b
    BY <2>1, <2>2, <2>4
  <2> QED
    BY <2>3, <2>4
<1>2. Flipped(b, k) \in BOOLEAN
  <2>1. Flipped(b, k) = ~b \/ Flipped(b, k) = b
    BY DEF Flipped
  <2> QED
    BY <2>1
<1> QED
  BY <1>1, <1>2

(* What k boundaries make of a timer, and whether they have rung.          *)
After(t, k) ==
  LET u == Reached(t)
  IN IF ~Armed(t) THEN u
     ELSE IF ~t.mode.irq_repeat THEN Quieted(Bit(u, High(t)))
     ELSE Bit(u, IF t.mode.irq_pulse THEN Flipped(t.bit10, k) ELSE TRUE)
Rang(t, k) ==
  Armed(t) /\ IF t.mode.irq_repeat /\ t.mode.irq_pulse THEN Rises(t.bit10, k) ELSE High(t)

(* One boundary.                                                           *)
Boundary(x) == LET r == Reach(x) IN IF Armed(r.t) THEN FireIrq(r) ELSE r

LEMMA ArmedBy ==
  ASSUME NEW t \in TimerState, NEW u \in TimerState, u.mode = t.mode, u.target = t.target
  PROVE  Armed(u) = Armed(t) /\ (Armed(t) \in BOOLEAN)
BY DEF Armed, ToTarget, TimerState, ModeBits

LEMMA BoundaryIs ==
  ASSUME NEW t \in TimerState, NEW q \in IrqRegs, NEW n \in 0 .. 2
  PROVE  LET h == High(t)
             u == Reached(t)
             b == Boundary(Made(t, q, n))
         IN /\ Armed(t) => b = Made(Quieted(Bit(u, h)), RungIf(h, q), Counted(n))
            /\ ~Armed(t) => b = Made(u, q, n)
            /\ b \in TimerMachines
<1> DEFINE u == Reached(t)
           h == High(t)
           b == Boundary(Made(t, q, n))
<1>1. /\ u \in TimerState /\ Armed(u) = Armed(t) /\ High(u) = h /\ Armed(t) \in BOOLEAN
      /\ Reach(Made(t, q, n)) = Made(u, q, n)
  BY ReachedIs, ArmedBy, ReachIs DEF High
<1> HIDE DEF u
<1>2. b = IF Armed(t) THEN FireIrq(Made(u, q, n)) ELSE Made(u, q, n)
  BY <1>1, FieldsOf DEF Boundary
<1>3. /\ FireIrq(Made(u, q, n)) = Made(Quieted(Bit(u, h)), RungIf(h, q), Counted(n))
      /\ RungIf(h, q) \in IrqRegs /\ Counted(n) \in 0 .. 2 /\ h \in BOOLEAN
  BY <1>1, FireIs
<1>4. Bit(u, h) \in TimerState
  BY <1>1, <1>3, BitIs
<1>5. Quieted(Bit(u, h)) \in TimerState
  BY <1>4, QuietedIs
<1> HIDE DEF b, h
<1>6. b \in TimerMachines
  BY <1>1, <1>2, <1>3, <1>5, FieldsOf
<1> QED
  BY <1>1, <1>2, <1>3, <1>6 DEF u, h, b

(* The first boundary.                                                     *)
LEMMA BoundaryFirst ==
  ASSUME NEW t \in TimerState, NEW q \in IrqRegs, NEW n \in 0 .. 2
  PROVE  LET b == Boundary(Made(t, q, n))
         IN b.t = After(t, 1) /\ b.q = RungIf(Rang(t, 1), q)
<1> DEFINE u == Reached(t)
           h == High(t)
           b == Boundary(Made(t, q, n))
<1>1. /\ Armed(t) => b.t = Quieted(Bit(u, h)) /\ b.q = RungIf(h, q)
      /\ ~Armed(t) => b.t = u /\ b.q = q
  BY BoundaryIs, FieldsOf
<1>2. u \in TimerState /\ u.mode = t.mode /\ h \in BOOLEAN
  BY ReachedIs DEF High
<1>3. /\ Bit(u, h).mode = t.mode
      /\ t.mode.irq_repeat => Quieted(Bit(u, h)) = Bit(u, h)
  BY <1>2, BitIs, QuietedIs
<1> HIDE DEF u, b
<1>4. t.mode.irq_pulse => (Flipped(t.bit10, 1) <=> h) /\ (Rises(t.bit10, 1) <=> h)
  BY DEF High, Flipped, Rises
<1>5. ~t.mode.irq_pulse => h
  BY DEF High
<1>6. /\ t.bit10 \in BOOLEAN /\ t.mode.irq_pulse \in BOOLEAN /\ t.mode.irq_repeat \in BOOLEAN
      /\ Flipped(t.bit10, 1) \in BOOLEAN /\ Rises(t.bit10, 1) \in BOOLEAN
  <2>1. t.bit10 \in BOOLEAN /\ t.mode.irq_pulse \in BOOLEAN /\ t.mode.irq_repeat \in BOOLEAN
    BY DEF TimerState, ModeBits
  <2>2. Flipped(t.bit10, 1) \in BOOLEAN /\ Rises(t.bit10, 1) \in BOOLEAN
    BY <2>1, FlipsAreBits
  <2> QED
    BY <2>1, <2>2
<1>7. t.mode.irq_pulse => Flipped(t.bit10, 1) = h /\ Rises(t.bit10, 1) = h
  BY <1>2, <1>4, <1>6
<1>8. ~t.mode.irq_pulse => h = TRUE
  BY <1>2, <1>5
<1>9. b.t = After(t, 1)
  <2>1. CASE ~Armed(t)
    BY <1>1, <2>1 DEF After, u
  <2>2. CASE Armed(t) /\ ~t.mode.irq_repeat
    BY <1>1, <2>2 DEF After, u
  <2>3. CASE Armed(t) /\ t.mode.irq_repeat
    <3>1. b.t = Bit(u, h)
      BY <1>1, <1>3, <2>3
    <3>2. After(t, 1) = Bit(u, IF t.mode.irq_pulse THEN Flipped(t.bit10, 1) ELSE TRUE)
      BY <2>3 DEF After, u
    <3> HIDE DEF h
    <3> QED
      BY <1>6, <1>7, <1>8, <3>1, <3>2
  <2> QED
    BY <1>6, <2>1, <2>2, <2>3
<1>10. b.q = RungIf(Rang(t, 1), q)
  <2>1. CASE ~Armed(t)
    BY <1>1, <2>1 DEF Rang, RungIf
  <2>2. CASE Armed(t)
    <3>1. Rang(t, 1) <=> h
      <4> HIDE DEF h
      <4> QED
        BY <1>4, <2>2 DEF Rang, h
    <3> HIDE DEF h
    <3> QED
      BY <1>1, <2>2, <3>1 DEF RungIf
  <2> QED
    BY <2>1, <2>2
<1> QED
  BY <1>9, <1>10 DEF b

(* Requests add up to one.                                                 *)
LEMMA RungTwice ==
  ASSUME NEW a \in BOOLEAN, NEW b \in BOOLEAN, NEW q \in IrqRegs
  PROVE  RungIf(a, RungIf(b, q)) = RungIf(a \/ b, q) /\ RungIf(b, q) \in IrqRegs
BY RungIs DEF RungIf

(* A one-shot that has fired keeps its flags.                              *)
LEMMA QuietStays ==
  ASSUME NEW w \in TimerState, Reached(w) = w
  PROVE  Reached(Quieted(w)) = Quieted(w)
<1>1. CASE w.mode.irq_repeat
  BY <1>1, QuietedIs
<1>2. CASE ~w.mode.irq_repeat
  <2> DEFINE v == Quieted(w)
  <2>1. /\ v \in TimerState /\ v.target = w.target
        /\ v.mode.reset_on_target = w.mode.reset_on_target
    BY QuietedIs
  <2>2. v.reached_target = w.reached_target /\ v.reached_ffff = w.reached_ffff
    <3>1. v = [w EXCEPT !.mode.irq_on_target = FALSE, !.mode.irq_on_ffff = FALSE]
      BY <1>2 DEF Quieted
    <3> HIDE DEF v
    <3> QED
      BY <3>1 DEF TimerState
  <2> HIDE DEF v
  <2>3. ToTarget(v) <=> ToTarget(w)
    BY <2>1 DEF ToTarget
  <2>4. CASE ToTarget(w)
    <3>1. w.reached_target = TRUE
      <4>1. w = [w EXCEPT !.reached_target = TRUE]
        BY <2>4 DEF Reached
      <4> QED
        BY <4>1 DEF TimerState
    <3>2. Reached(v) = [v EXCEPT !.reached_target = TRUE]
      BY <2>3, <2>4 DEF Reached
    <3> QED
      BY <2>1, <2>2, <3>1, <3>2 DEF TimerState, v
  <2>5. CASE ~ToTarget(w)
    <3>1. w.reached_ffff = TRUE
      <4>1. w = [w EXCEPT !.reached_ffff = TRUE]
        BY <2>5 DEF Reached
      <4> QED
        BY <4>1 DEF TimerState
    <3>2. Reached(v) = [v EXCEPT !.reached_ffff = TRUE]
      BY <2>3, <2>5 DEF Reached
    <3> QED
      BY <2>1, <2>2, <3>1, <3>2 DEF TimerState, v
  <2> QED
    BY <2>4, <2>5
<1> QED
  BY <1>1, <1>2

(* One flip more.                                                          *)
LEMMA FlipNext ==
  ASSUME NEW c \in BOOLEAN, NEW k \in Nat \ {0}
  PROVE  /\ Flipped(c, k + 1) = ~Flipped(c, k)
         /\ Rises(c, k + 1) = (~Flipped(c, k) \/ Rises(c, k))
<1>1. ((k + 1) % 2 = 1) <=> ~(k % 2 = 1)
  OBVIOUS
<1>2. Flipped(c, k + 1) <=> ~Flipped(c, k)
  BY <1>1 DEF Flipped
<1>3. Rises(c, k + 1) <=> (~Flipped(c, k) \/ Rises(c, k))
  <2>1. CASE c
    <3>1. CASE k = 1
      BY <2>1, <3>1 DEF Rises, Flipped
    <3>2. CASE k >= 2
      <4>1. Rises(c, k) /\ Rises(c, k + 1)
        BY <2>1, <3>2 DEF Rises
      <4> QED
        BY <4>1
    <3> QED
      BY <3>1, <3>2
  <2>2. CASE ~c
    BY <2>2 DEF Rises
  <2> QED
    BY <2>1, <2>2
<1>4. /\ Flipped(c, k) \in BOOLEAN /\ Rises(c, k) \in BOOLEAN
      /\ Flipped(c, k + 1) \in BOOLEAN /\ Rises(c, k + 1) \in BOOLEAN
  BY FlipsAreBits
<1> QED
  BY <1>2, <1>3, <1>4

(* From one boundary to the next.                                          *)
LEMMA BoundaryNext ==
  ASSUME NEW t \in TimerState, NEW q \in IrqRegs, NEW x \in TimerMachines, NEW k \in Nat \ {0},
         x.t = After(t, k), x.q = RungIf(Rang(t, k), q)
  PROVE  /\ Boundary(x).t = After(t, k + 1)
         /\ Boundary(x).q = RungIf(Rang(t, k + 1), q)
         /\ Boundary(x) \in TimerMachines
<1> DEFINE u == Reached(t)
           y == x.t
           b == Boundary(x)
           c == t.bit10
<1>1. /\ u \in TimerState /\ u.mode = t.mode /\ u.target = t.target /\ Armed(u) = Armed(t)
      /\ Armed(t) \in BOOLEAN /\ Reached(u) = u
      /\ \A d \in BOOLEAN : Reached(Bit(u, d)) = Bit(u, d)
  BY ReachedIs, ArmedBy
<1>2. x = Made(y, x.q, x.n) /\ y \in TimerState /\ x.q \in IrqRegs /\ x.n \in 0 .. 2
  BY MadeIs
<1>3. /\ Armed(y) => /\ b.t = Quieted(Bit(Reached(y), High(y)))
                     /\ b.q = RungIf(High(y), x.q)
      /\ ~Armed(y) => b.t = Reached(y) /\ b.q = x.q
      /\ b \in TimerMachines
  <2> HIDE DEF b, y
  <2>1. b = Boundary(Made(y, x.q, x.n))
    BY <1>2 DEF b
  <2> QED
    BY <1>2, <2>1, BoundaryIs, FieldsOf
<1>4. c \in BOOLEAN /\ t.mode.irq_pulse \in BOOLEAN /\ t.mode.irq_repeat \in BOOLEAN /\ High(t) \in BOOLEAN
  BY DEF TimerState, ModeBits, High
<1>5. ASSUME ~Armed(t) PROVE b.t = After(t, k + 1) /\ b.q = RungIf(Rang(t, k + 1), q)
  <2>1. y = u /\ x.q = q
    BY <1>5 DEF After, Rang, RungIf
  <2>2. b.t = u /\ b.q = q
    BY <1>1, <1>3, <1>5, <2>1
  <2> QED
    BY <1>5, <2>2 DEF After, Rang, RungIf
<1>6. ASSUME Armed(t), ~t.mode.irq_repeat PROVE b.t = After(t, k + 1) /\ b.q = RungIf(Rang(t, k + 1), q)
  <2> DEFINE w == Bit(u, High(t))
  <2>1. w \in TimerState /\ Reached(w) = w /\ w.mode = t.mode
    BY <1>1, <1>4, BitIs
  <2>2. y = Quieted(w) /\ x.q = RungIf(High(t), q)
    <3>1. y = Quieted(w)
      BY <1>6 DEF After
    <3>2. Rang(t, k) <=> High(t)
      BY <1>6 DEF Rang
    <3> QED
      BY <3>1, <3>2 DEF RungIf
  <2>3. ~Armed(y) /\ Reached(y) = y
    <3> HIDE DEF w, y, u
    <3> QED
      BY <1>6, <2>1, <2>2, QuietedIs, QuietStays
  <2>4. b.t = y /\ b.q = x.q
    BY <1>3, <2>3
  <2> QED
    BY <1>6, <2>2, <2>4 DEF After, Rang
<1>7. ASSUME Armed(t), t.mode.irq_repeat PROVE b.t = After(t, k + 1) /\ b.q = RungIf(Rang(t, k + 1), q)
  <2> DEFINE d == IF t.mode.irq_pulse THEN Flipped(c, k) ELSE TRUE
  <2>1. d \in BOOLEAN /\ Flipped(c, k) \in BOOLEAN /\ Rises(c, k) \in BOOLEAN
    BY <1>4, FlipsAreBits
  <2>2. y = Bit(u, d)
    BY <1>7 DEF After
  <2> HIDE DEF y, d
  <2>3. /\ y.mode = t.mode /\ y.target = t.target /\ y.bit10 = d /\ Reached(y) = y
        /\ Armed(y) /\ High(y) \in BOOLEAN
        /\ \A e \in BOOLEAN : Bit(y, e) = Bit(u, e) /\ Bit(u, e) \in TimerState /\ Bit(u, e).mode = t.mode
    <3>1. /\ y.mode = u.mode /\ y.target = u.target /\ y.bit10 = d
          /\ \A e \in BOOLEAN : Bit(y, e) = Bit(u, e) /\ Bit(u, e) \in TimerState /\ Bit(u, e).mode = u.mode
      BY <1>1, <2>1, <2>2, BitIs
    <3>2. Armed(y) = Armed(t)
      BY <1>1, <1>2, <3>1, ArmedBy DEF y
    <3> QED
      BY <1>1, <1>7, <2>1, <2>2, <3>1, <3>2 DEF High
  <2>4. b.t = Bit(u, High(y)) /\ b.q = RungIf(High(y), x.q)
    <3> HIDE DEF b, u
    <3>1. Bit(Reached(y), High(y)) = Bit(u, High(y)) /\ Bit(u, High(y)) \in TimerState /\ Bit(u, High(y)).mode = t.mode
      BY <2>3
    <3>2. Quieted(Bit(u, High(y))) = Bit(u, High(y))
      BY <1>7, <3>1, QuietedIs
    <3> QED
      BY <1>3, <2>3, <3>1, <3>2
  <2>5. CASE t.mode.irq_pulse
    <3>1. d = Flipped(c, k) /\ x.q = RungIf(Rises(c, k), q)
      <4>1. Rang(t, k) <=> Rises(c, k)
        BY <1>7, <2>5 DEF Rang
      <4> QED
        BY <2>5, <4>1 DEF RungIf, d
    <3>2. High(y) = ~Flipped(c, k)
      BY <2>1, <2>3, <2>5, <3>1 DEF High
    <3>3. Flipped(c, k + 1) = High(y) /\ Rises(c, k + 1) = (High(y) \/ Rises(c, k))
      BY <1>4, <3>2, FlipNext
    <3>4. b.q = RungIf(Rises(c, k + 1), q)
      BY <2>1, <2>3, <2>4, <3>1, <3>3, RungTwice
    <3>5. Rang(t, k + 1) <=> Rises(c, k + 1)
      BY <1>7, <2>5 DEF Rang
    <3>6. After(t, k + 1) = Bit(u, Flipped(c, k + 1))
      BY <1>7, <2>5 DEF After
    <3>7. RungIf(Rang(t, k + 1), q) = RungIf(Rises(c, k + 1), q)
      BY <3>5 DEF RungIf
    <3> QED
      BY <2>4, <3>3, <3>4, <3>6, <3>7
  <2>6. CASE ~t.mode.irq_pulse
    <3>1. High(y) = TRUE
      BY <2>3, <2>6 DEF High
    <3>2. x.q = Rung(q)
      BY <1>7, <2>6 DEF Rang, RungIf, High
    <3>3. b.q = Rung(q)
      BY <2>4, <3>1, <3>2, RungIs DEF RungIf
    <3>4. Rang(t, k + 1)
      BY <1>7, <2>6 DEF Rang, High
    <3>5. After(t, k + 1) = Bit(u, TRUE)
      BY <1>7, <2>6 DEF After
    <3> QED
      BY <2>4, <3>1, <3>3, <3>4, <3>5 DEF RungIf
  <2> QED
    BY <2>5, <2>6
<1> QED
  BY <1>3, <1>5, <1>6, <1>7

(* What crossing boundaries leaves alone.                                  *)
SameShape(t, u) ==
  /\ u.target = t.target /\ u.counting = t.counting /\ u.index = t.index
  /\ u.mode.irq_repeat = t.mode.irq_repeat /\ u.mode.derived = t.mode.derived
  /\ u.mode.reset_on_target = t.mode.reset_on_target

LEMMA AfterIs ==
  ASSUME NEW t \in TimerState, NEW k \in Nat
  PROVE  /\ After(t, k) \in TimerState /\ SameShape(t, After(t, k))
         /\ ~Armed(t) \/ t.mode.irq_repeat => After(t, k).mode = t.mode
         /\ Armed(t) /\ ~t.mode.irq_repeat => /\ ~After(t, k).mode.irq_on_target
                                              /\ ~After(t, k).mode.irq_on_ffff
<1> DEFINE u == Reached(t)
           h == High(t)
           a == After(t, k)
           d == IF t.mode.irq_pulse THEN Flipped(t.bit10, k) ELSE TRUE
<1>1. /\ u \in TimerState /\ u.mode = t.mode /\ u.target = t.target
      /\ u.counting = t.counting /\ u.index = t.index
  BY ReachedIs
<1>2. h \in BOOLEAN /\ d \in BOOLEAN
  <2>1. t.bit10 \in BOOLEAN
    BY DEF TimerState
  <2> QED
    BY <2>1, FlipsAreBits DEF High
<1>3. ASSUME NEW e \in BOOLEAN
      PROVE  LET w == Bit(u, e)
             IN /\ w \in TimerState /\ w.mode = t.mode /\ w.target = t.target
                /\ w.counting = t.counting /\ w.index = t.index
  BY <1>1, BitIs
<1> HIDE DEF u, h, d
<1>4. CASE ~Armed(t)
  <2>1. a = u
    BY <1>4 DEF After, u
  <2> HIDE DEF a
  <2> QED
    BY <1>1, <1>4, <2>1 DEF SameShape, a
<1>5. CASE Armed(t) /\ ~t.mode.irq_repeat
  <2> DEFINE w == Bit(u, h)
  <2>1. a = Quieted(w)
    BY <1>5 DEF After, u, h
  <2>2. /\ w \in TimerState /\ w.mode = t.mode /\ w.target = t.target
        /\ w.counting = t.counting /\ w.index = t.index
    BY <1>2, <1>3
  <2> HIDE DEF w, a
  <2>3. /\ a \in TimerState /\ SameShape(t, a)
        /\ ~a.mode.irq_on_target /\ ~a.mode.irq_on_ffff
    BY <1>5, <2>1, <2>2, QuietedIs DEF SameShape
  <2> QED
    BY <1>5, <2>3 DEF a
<1>6. CASE Armed(t) /\ t.mode.irq_repeat
  <2>1. a = Bit(u, d)
    BY <1>6 DEF After, u, d
  <2> HIDE DEF a
  <2> QED
    BY <1>2, <1>3, <1>6, <2>1 DEF SameShape, a
<1> QED
  BY <1>4, <1>5, <1>6

(* The flips after the first.                                              *)
LEMMA FlipRest ==
  ASSUME NEW c \in BOOLEAN, NEW k \in Nat, k >= 2
  PROVE  /\ Flipped(~c, k - 1) = Flipped(c, k)
         /\ Rises(c, k) = (Rises(~c, k - 1) \/ ~c)
<1>1. k - 1 \in Nat \ {0} /\ (k - 1) + 1 = k
  OBVIOUS
<1>2. Flipped(c, k) = ~Flipped(c, k - 1)
  BY <1>1, FlipNext
<1>3. /\ Flipped(c, k - 1) \in BOOLEAN /\ Flipped(~c, k - 1) \in BOOLEAN
      /\ Rises(~c, k - 1) \in BOOLEAN /\ Rises(c, k) \in BOOLEAN
  BY <1>1, FlipsAreBits
<1>4. Flipped(~c, k - 1) <=> ~Flipped(c, k - 1)
  BY DEF Flipped
<1>5. Rises(c, k) <=> (Rises(~c, k - 1) \/ ~c)
  <2>1. Rises(c, k)
    BY DEF Rises
  <2>2. CASE c
    <3>1. k - 1 >= 1
      OBVIOUS
    <3>2. Rises(~c, k - 1)
      BY <2>2, <3>1 DEF Rises
    <3> QED
      BY <2>1, <3>2
  <2>3. CASE ~c
    BY <2>1, <2>3
  <2> QED
    BY <2>2, <2>3
<1> QED
  BY <1>2, <1>3, <1>4, <1>5

(* The closed form.                                                        *)
LEMMA CrossIs ==
  ASSUME NEW t \in TimerState, NEW q \in IrqRegs, NEW n \in 0 .. 2, NEW k \in Nat \ {0}
  PROVE  LET x == Cross(Made(t, q, n), k)
         IN /\ x \in TimerMachines
            /\ x.t = After(t, k) /\ x.q = RungIf(Rang(t, k), q)
            /\ ~Armed(t) => x.n = n
            /\ Armed(t) /\ ~t.mode.irq_repeat => x.n = Counted(n)
<1> DEFINE m == Made(t, q, n)
           x == Cross(m, k)
           u == Reached(t)
           h == High(t)
           first == FireIrq(Reach(m))
           all == [first EXCEPT !.n = 2]
<1>1. /\ u \in TimerState /\ u.mode = t.mode /\ u.target = t.target /\ Armed(u) = Armed(t)
      /\ Armed(t) \in BOOLEAN /\ Reach(m) = Made(u, q, n) /\ High(u) = h /\ h \in BOOLEAN
  <2>1. /\ u \in TimerState /\ u.mode = t.mode /\ u.target = t.target /\ u.bit10 = t.bit10
    BY ReachedIs
  <2>2. Armed(u) = Armed(t) /\ Armed(t) \in BOOLEAN /\ Reach(m) = Made(u, q, n)
    BY <2>1, ArmedBy, ReachIs
  <2> QED
    BY <2>1, <2>2 DEF High
<1>2. /\ t.bit10 \in BOOLEAN /\ t.mode.irq_pulse \in BOOLEAN /\ t.mode.irq_repeat \in BOOLEAN
  BY DEF TimerState, ModeBits
<1>3. /\ m.t = t /\ m.q = q /\ m.n = n
  BY FieldsOf
<1>4. /\ first = Made(Quieted(Bit(u, h)), RungIf(h, q), Counted(n))
      /\ RungIf(h, q) \in IrqRegs /\ Counted(n) \in 0 .. 2
  <2> HIDE DEF u, h, m
  <2> QED
    BY <1>1, FireIs
<1>5. /\ Bit(u, h) \in TimerState /\ Bit(u, h).mode = t.mode /\ Bit(u, h).target = t.target
      /\ Bit(u, h).bit10 = h /\ \A e \in BOOLEAN : Bit(Bit(u, h), e) = Bit(u, e)
  BY <1>1, BitIs
<1>6. x = IF ~Armed(m.t) THEN Reach(m)
          ELSE IF ~Armed(first.t) \/ k - 1 = 0 THEN first
          ELSE IF first.t.mode.irq_pulse THEN Toggles(all, k - 1)
          ELSE [all EXCEPT !.t.bit10 = TRUE]
  BY DEF Cross
<1> HIDE DEF m, x, u, h, first
<1>7. CASE ~Armed(t)
  <2>1. x = Made(u, q, n)
    BY <1>1, <1>3, <1>6, <1>7
  <2>2. x.t = After(t, k) /\ x.q = RungIf(Rang(t, k), q)
    BY <1>7, <2>1, FieldsOf DEF After, Rang, RungIf, u
  <2>3. x \in TimerMachines /\ x.n = n
    BY <1>1, <2>1, FieldsOf
  <2> QED
    BY <1>7, <2>2, <2>3 DEF x, m
<1>8. CASE Armed(t) /\ ~t.mode.irq_repeat
  <2> DEFINE w == Quieted(Bit(u, h))
  <2>1. w \in TimerState /\ ~Armed(w)
    BY <1>5, <1>8, QuietedIs
  <2>2. first.t = w /\ first.q = RungIf(h, q) /\ first.n = Counted(n) /\ first \in TimerMachines
    BY <1>4, <2>1, FieldsOf
  <2>3. x = first
    <3> HIDE DEF w
    <3> QED
      BY <1>3, <1>6, <1>8, <2>1, <2>2
  <2>4. After(t, k) = w
    BY <1>8 DEF After, u, h
  <2>5. Rang(t, k) <=> h
    BY <1>8 DEF Rang, h
  <2>6. RungIf(Rang(t, k), q) = RungIf(h, q)
    BY <2>5 DEF RungIf
  <2> HIDE DEF w
  <2> QED
    BY <1>8, <2>2, <2>3, <2>4, <2>6 DEF x, m
<1>9. CASE Armed(t) /\ t.mode.irq_repeat
  <2>1. /\ first = Made(Bit(u, h), RungIf(h, q), Counted(n))
    BY <1>4, <1>5, <1>9, QuietedIs
  <2>2. first.t = Bit(u, h) /\ first.q = RungIf(h, q) /\ first.n = Counted(n) /\ first \in TimerMachines
    BY <1>4, <1>5, <2>1, FieldsOf
  <2>3. Armed(first.t)
    <3>1. Armed(Bit(u, h)) = Armed(t)
      BY <1>5, ArmedBy
    <3> QED
      BY <1>9, <2>2, <3>1
  <2>4. CASE k = 1
    <3>1. x = first
      BY <1>3, <1>6, <1>9, <2>3, <2>4
    <3>2. first = Boundary(m)
      <4>1. Reach(m).t = u
        BY <1>1, FieldsOf
      <4>2. Armed(Reach(m).t)
        BY <1>1, <1>9, <4>1
      <4> QED
        BY <4>2 DEF Boundary, first
    <3>3. Boundary(m).t = After(t, 1) /\ Boundary(m).q = RungIf(Rang(t, 1), q)
      BY BoundaryFirst DEF m
    <3> QED
      BY <1>9, <2>2, <2>4, <3>1, <3>2, <3>3 DEF x, m
  <2>5. CASE k >= 2
    <3>1. k - 1 \in Nat /\ k - 1 # 0
      BY <2>5
    <3>2. all = Made(Bit(u, h), RungIf(h, q), 2)
      BY <2>1 DEF Made
    <3> HIDE DEF all
    <3>3. CASE t.mode.irq_pulse
      <4> DEFINE c == t.bit10
                 f == Flipped(h, k - 1)
                 r == Rises(h, k - 1)
      <4>1. x = Toggles(all, k - 1)
        BY <1>3, <1>5, <1>6, <1>9, <2>2, <2>3, <3>1, <3>3
      <4>2. Toggles(all, k - 1) = Made(Bit(Bit(u, h), f), RungIf(r, RungIf(h, q)), 2)
        BY <1>4, <1>5, <3>1, <3>2, TogglesIs
      <4>3. h = ~c
        BY <1>1, <1>2, <3>3 DEF High, h
      <4>4. f \in BOOLEAN /\ r \in BOOLEAN
        BY <1>1, <3>1, FlipsAreBits
      <4>5. f = Flipped(c, k) /\ Rises(c, k) = (r \/ h)
        BY <1>2, <2>5, <4>3, FlipRest
      <4> HIDE DEF f, r, c
      <4>6. x = Made(Bit(u, f), RungIf(r \/ h, q), 2)
        BY <1>1, <1>5, <4>1, <4>2, <4>4, RungTwice
      <4>7. Bit(u, f) \in TimerState /\ RungIf(r \/ h, q) \in IrqRegs
        BY <1>1, <4>4, BitIs, RungTwice
      <4>8. x \in TimerMachines /\ x.t = Bit(u, f) /\ x.q = RungIf(r \/ h, q)
        BY <4>6, <4>7, FieldsOf
      <4>9. After(t, k) = Bit(u, f)
        BY <1>9, <3>3, <4>5 DEF After, u, c
      <4>10. Rang(t, k) <=> Rises(c, k)
        BY <1>9, <3>3 DEF Rang, c
      <4>11. RungIf(Rang(t, k), q) = RungIf(r \/ h, q)
        BY <4>5, <4>10 DEF RungIf
      <4> QED
        BY <1>9, <4>8, <4>9, <4>11 DEF x, m
    <3>4. CASE ~t.mode.irq_pulse
      <4>1. x = [all EXCEPT !.t.bit10 = TRUE]
        BY <1>3, <1>5, <1>6, <1>9, <2>2, <2>3, <3>1, <3>4
      <4>2. x = Made(Bit(Bit(u, h), TRUE), RungIf(h, q), 2)
        BY <3>2, <4>1 DEF Made, Bit
      <4>3. x = Made(Bit(u, TRUE), RungIf(h, q), 2) /\ Bit(u, TRUE) \in TimerState
        BY <1>1, <1>5, <4>2, BitIs
      <4> DEFINE w == Bit(u, TRUE)
      <4> HIDE DEF w
      <4>4. x \in TimerMachines /\ x.t = w /\ x.q = RungIf(h, q)
        <5>1. x = Made(w, RungIf(h, q), 2) /\ w \in TimerState
          BY <4>3 DEF w
        <5> QED
          BY <1>4, <5>1 DEF Made, TimerMachines
      <4>5. After(t, k) = w
        BY <1>9, <3>4 DEF After, u, w
      <4>6. Rang(t, k) <=> h
        BY <1>9, <3>4 DEF Rang, h
      <4>7. RungIf(Rang(t, k), q) = RungIf(h, q)
        BY <4>6 DEF RungIf
      <4> QED
        BY <1>9, <4>4, <4>5, <4>7 DEF x, m
    <3> QED
      BY <1>2, <3>3, <3>4
  <2> QED
    BY <2>4, <2>5
<1> QED
  BY <1>1, <1>2, <1>7, <1>8, <1>9

(* One instruction of the program p, read by the reference of CpuPipeline.  *)
Follow(p, m) == IF m.at > Len(p) THEN m ELSE Advanced(m, p[m.at])

(* A walk of n steps from x: over boundaries of a timer, or through a      *)
(* program.                                                                *)
Boundaries == [of |-> "BOUNDARY"]
Reading(p) == [of |-> "PROGRAM", prog |-> p]
Onward(a, x) == IF a.of = "BOUNDARY" THEN Boundary(x) ELSE Follow(a.prog, x)
StepOf(a, x, g, k) == IF k = 0 THEN x ELSE Onward(a, g[k - 1])
Walks(a, x, n, g) == g = [k \in 0 .. n |-> StepOf(a, x, g, k)]

LEMMA WalkExists ==
  ASSUME NEW a, NEW x, NEW n \in Nat
  PROVE  \E g : Walks(a, x, n, g)
<1> DEFINE S == {i \in Nat : ~ \E g : Walks(a, x, i, g)}
<1> SUFFICES ASSUME S # {} PROVE FALSE
  OBVIOUS
<1>1. PICK i \in S : \A j \in S : i <= j
  <2> HIDE DEF S
  <2>1. S \subseteq Nat
    BY DEF S
  <2> QED
    BY <2>1, LeastOf
<1>2. i \in Nat /\ ~ \E g : Walks(a, x, i, g)
  BY <1>1
<1>3. CASE i = 0
  <2> DEFINE g == [k \in 0 .. 0 |-> x]
  <2>1. g = [k \in 0 .. 0 |-> StepOf(a, x, g, k)]
    <3>1. \A k \in 0 .. 0 : k = 0
      OBVIOUS
    <3>2. \A k \in 0 .. 0 : StepOf(a, x, g, k) = x
      BY <3>1 DEF StepOf
    <3>3. g = [k \in 0 .. 0 |-> g[k]] /\ \A k \in 0 .. 0 : g[k] = x
      OBVIOUS
    <3> HIDE DEF g
    <3> QED
      BY <3>2, <3>3
  <2> QED
    BY <1>2, <1>3, <2>1 DEF Walks
<1>4. CASE i # 0
  <2>1. i - 1 \in Nat /\ ~(i <= i - 1) /\ i \in Nat
    BY <1>2, <1>4
  <2>2. i - 1 \notin S
    BY <1>1, <2>1
  <2>3. PICK f : Walks(a, x, i - 1, f)
    BY <2>1, <2>2
  <2> DEFINE g == [k \in 0 .. i |-> IF k = i THEN Onward(a, f[i - 1]) ELSE f[k]]
  <2>4. \A k \in 0 .. i - 1 : f[k] = StepOf(a, x, f, k)
    BY <2>3 DEF Walks
  <2>5. \A k \in 0 .. i : g[k] = IF k = i THEN Onward(a, f[i - 1]) ELSE f[k]
    OBVIOUS
  <2> HIDE DEF g
  <2>6. \A k \in 0 .. i - 1 : g[k] = f[k]
    <3>1. \A k \in 0 .. i - 1 : k \in 0 .. i /\ k # i
      BY <2>1
    <3> QED
      BY <2>5, <3>1
  <2>7. ASSUME NEW k \in 0 .. i PROVE g[k] = StepOf(a, x, g, k)
    <3>1. CASE k = 0
      <4>1. k \in 0 .. i - 1
        BY <2>1, <3>1
      <4> QED
        BY <2>4, <2>6, <3>1, <4>1 DEF StepOf
    <3>2. CASE k # 0
      <4>1. k - 1 \in 0 .. i - 1
        BY <2>1, <3>2
      <4>2. g[k - 1] = f[k - 1]
        BY <2>6, <4>1
      <4>3. CASE k = i
        BY <2>5, <3>2, <4>2, <4>3 DEF StepOf
      <4>4. CASE k # i
        <5>1. k \in 0 .. i - 1
          BY <2>1, <4>4
        <5> QED
          BY <2>4, <2>6, <3>2, <4>2, <5>1 DEF StepOf
      <4> QED
        BY <4>3, <4>4
    <3> QED
      BY <3>1, <3>2
  <2>8. g = [k \in 0 .. i |-> StepOf(a, x, g, k)]
    <3>1. g = [k \in 0 .. i |-> g[k]]
      BY DEF g
    <3> QED
      BY <2>7, <3>1
  <2> QED
    BY <1>2, <2>8 DEF Walks
<1> QED
  BY <1>3, <1>4

(* Stepping is such a walk.                                                *)
LEMMA StepwiseWalks ==
  ASSUME NEW x, NEW n \in Nat
  PROVE  \E g : Walks(Boundaries, x, n, g) /\ Stepwise(x, n) = g[n]
<1> DEFINE step == CHOOSE g : g = [k \in 0 .. n |-> StepOf(Boundaries, x, g, k)]
<1>1. Stepwise(x, n) = step[n]
  BY DEF Stepwise, StepOf, Onward, Boundaries, Boundary
<1>2. \E g : g = [k \in 0 .. n |-> StepOf(Boundaries, x, g, k)]
  BY WalkExists DEF Walks
<1>3. step = [k \in 0 .. n |-> StepOf(Boundaries, x, step, k)]
  BY <1>2
<1> QED
  BY <1>1, <1>3 DEF Walks

(* After k boundaries, one by one.                                         *)
LEMMA WalkIs ==
  ASSUME NEW t \in TimerState, NEW q \in IrqRegs, NEW i \in 0 .. 2, NEW n \in Nat,
         NEW g, Walks(Boundaries, Made(t, q, i), n, g), NEW k \in 1 .. n
  PROVE  g[k].t = After(t, k) /\ g[k].q = RungIf(Rang(t, k), q)
<1> DEFINE x == Made(t, q, i)
           OK(j) == /\ g[j].t = After(t, j) /\ g[j].q = RungIf(Rang(t, j), q)
                    /\ g[j] \in TimerMachines
           S == {j \in 1 .. n : ~OK(j)}
<1> SUFFICES ASSUME S # {} PROVE FALSE
  OBVIOUS
<1>1. \A j \in 0 .. n : g[j] = StepOf(Boundaries, x, g, j)
  BY DEF Walks
<1>2. PICK j \in S : \A l \in S : j <= l
  <2> HIDE DEF S
  <2>1. S \subseteq Nat
    <3>1. S \subseteq 1 .. n
      BY DEF S
    <3> QED
      BY <3>1
  <2> QED
    BY <2>1, LeastOf
<1>3. j \in 1 .. n /\ ~OK(j)
  BY <1>2
<1>4. j \in 0 .. n /\ j # 0 /\ j - 1 \in 0 .. n /\ j \in Nat
  BY <1>3
<1>5. g[j] = Boundary(g[j - 1])
  BY <1>1, <1>4 DEF StepOf, Onward, Boundaries
<1>6. CASE j = 1
  <2>1. 0 \in 0 .. n /\ j - 1 = 0
    BY <1>6
  <2>2. g[j] = Boundary(x)
    BY <1>1, <1>5, <2>1 DEF StepOf, Onward, Boundaries
  <2>3. Boundary(x).t = After(t, 1) /\ Boundary(x).q = RungIf(Rang(t, 1), q)
    BY BoundaryFirst
  <2>4. Boundary(x) \in TimerMachines
    BY BoundaryIs
  <2> HIDE DEF x
  <2> QED
    BY <1>3, <1>6, <2>2, <2>3, <2>4
<1>7. CASE j # 1
  <2>1. j - 1 \in 1 .. n /\ j - 1 \in Nat \ {0} /\ ~(j <= j - 1) /\ (j - 1) + 1 = j
    BY <1>3, <1>7
  <2>2. OK(j - 1)
    BY <1>2, <2>1
  <2>3. /\ Boundary(g[j - 1]).t = After(t, (j - 1) + 1)
        /\ Boundary(g[j - 1]).q = RungIf(Rang(t, (j - 1) + 1), q)
        /\ Boundary(g[j - 1]) \in TimerMachines
    BY <2>1, <2>2, BoundaryNext
  <2> QED
    BY <1>3, <1>5, <2>1, <2>3
<1> QED
  BY <1>6, <1>7

(* The closed form is what stepping boundary by boundary gives.            *)
LEMMA CrossIsStepwise ==
  ASSUME NEW t \in TimerState, NEW q \in IrqRegs, NEW i \in 0 .. 2, NEW n \in Nat \ {0}
  PROVE  /\ Cross(Made(t, q, i), n).t = Stepwise(Made(t, q, i), n).t
         /\ Cross(Made(t, q, i), n).q = Stepwise(Made(t, q, i), n).q
<1> DEFINE x == Made(t, q, i)
<1>1. PICK g : Walks(Boundaries, x, n, g) /\ Stepwise(x, n) = g[n]
  BY StepwiseWalks
<1>2. n \in 1 .. n /\ n \in Nat
  OBVIOUS
<1>3. g[n].t = After(t, n) /\ g[n].q = RungIf(Rang(t, n), q)
  BY <1>1, <1>2, WalkIs
<1>4. Cross(x, n).t = After(t, n) /\ Cross(x, n).q = RungIf(Rang(t, n), q)
  BY CrossIs
<1> HIDE DEF x
<1> QED
  BY <1>1, <1>3, <1>4 DEF x

(* The rate in a video mode.                                               *)
RateAt(t, v) == IF ~t.mode.derived THEN 1 ELSE IF t.index = 2 THEN SystemDivider ELSE v

(* The event d is armed for the next boundary of a timer that stands s     *)
(* cycles after its base.                                                  *)
RunUp(t, s, v) == LET ahead == (PeriodTicks(t) * RateAt(t, v)) - s IN IF ahead > 0 THEN ahead ELSE 1
InTimeBy(t, s, d, v) == d.queued /\ (d.left <= 0 \/ d.left < RateAt(t, v) + RunUp(t, s, v))

(* A one-shot that has fired has its enables clear.                        *)
OneShot(t, n) == ~t.mode.irq_repeat => /\ n <= 1
                                       /\ n = 1 => ~t.mode.irq_on_target /\ ~t.mode.irq_on_ffff

TimerIInv == /\ TimersTypeOK
             /\ timer.counting /\ ~retimed => InTimeBy(timer, since, due, video)
             /\ OneShot(timer, fires)

LEMMA RateIs ==
  ASSUME NEW t \in TimerState, NEW v \in VideoRates
  PROVE  RateAt(t, v) \in Nat \ {0} /\ PeriodTicks(t) \in 1 .. Wrap /\ PeriodTicks(t) \in Nat \ {0}
<1>1. Wrap \in Nat \ {0} /\ SystemDivider \in Nat \ {0} /\ v \in Nat \ {0}
  BY TimerConstants
<1>2. t.target \in 0 .. Wrap - 1
  BY DEF TimerState, Counts
<1>3. PeriodTicks(t) \in 1 .. Wrap
  BY <1>1, <1>2 DEF PeriodTicks
<1> QED
  BY <1>1, <1>3 DEF RateAt

(* Cycles as whole periods, ticks and a rest.                              *)
LEMMA CyclesSplit ==
  ASSUME NEW s \in Nat, NEW r \in Nat \ {0}, NEW p \in Nat \ {0}
  PROVE  LET e == s \div r
             k == e \div p
             c == e % p
             d == s % r
         IN /\ k \in Nat /\ c \in 0 .. p - 1 /\ d \in 0 .. r - 1
            /\ s - ((k * p) * r) = (c * r) + d
            /\ c * r \in Nat /\ (k * p) * r \in Nat
<1> DEFINE e == s \div r
           k == e \div p
           c == e % p
           d == s % r
<1>1. e \in Int /\ d \in 0 .. r - 1 /\ s = (e * r) + d
  BY QuotientAndRest
<1>2. e \in Nat
  OBVIOUS
<1> HIDE DEF e, d
<1>3. k \in Int /\ c \in 0 .. p - 1 /\ e = (k * p) + c
  BY <1>2, QuotientAndRest
<1>4. k \in Nat
  BY <1>2
<1> HIDE DEF k, c
<1>5. c * r \in Nat /\ k * p \in Nat
  BY <1>3, <1>4
<1>6. ((k * p) + c) * r = ((k * p) * r) + (c * r)
  <2> DEFINE a == k * p
  <2>1. a \in Nat
    BY <1>5
  <2> HIDE DEF a
  <2>2. (a + c) * r = (a * r) + (c * r)
    BY <1>3, <2>1
  <2> QED
    BY <2>2 DEF a
<1>7. (k * p) * r \in Nat
  <2> DEFINE a == k * p
  <2>1. a \in Nat
    BY <1>5
  <2> HIDE DEF a
  <2>2. a * r \in Nat
    BY <2>1
  <2> QED
    BY <2>2 DEF a
<1> DEFINE x == (k * p) * r
           y == c * r
<1>8. e * r = x + y /\ x \in Nat /\ y \in Nat
  BY <1>3, <1>5, <1>6, <1>7
<1> HIDE DEF x, y
<1>9. s - x = y + d
  BY <1>1, <1>8
<1> QED
  BY <1>1, <1>3, <1>4, <1>5, <1>7, <1>9 DEF e, k, c, d, x, y

(* What the catch-up leaves.                                               *)
LEMMA CaughtUpIs ==
  ASSUME TimerIInv
  PROVE  LET m == CaughtUp
             r == RateAt(timer, video)
             s == SinceCaughtUp
         IN /\ m.t \in TimerState /\ m.q \in IrqRegs /\ m.n \in 0 .. 2 /\ s \in Nat
            /\ SameShape(timer, m.t) /\ OneShot(m.t, m.n)
            /\ timer.counting => /\ s <= since
                                 /\ \E d \in 0 .. r - 1 : s = (m.t.counter * r) + d
            /\ ~timer.counting => s = since
<1> DEFINE m == CaughtUp
           r == RateAt(timer, video)
           p == PeriodTicks(timer)
           s == SinceCaughtUp
           c == Elapsed % p
<1>1. /\ timer \in TimerState /\ irq \in IrqRegs /\ fires \in 0 .. 2 /\ since \in Nat
      /\ video \in VideoRates /\ OneShot(timer, fires) /\ Machine = Made(timer, irq, fires)
  BY DEF TimerIInv, TimersTypeOK, Machine, Made
<1>2. r \in Nat \ {0} /\ p \in 1 .. Wrap /\ p \in Nat \ {0} /\ Rate(timer) = r
  BY <1>1, RateIs DEF Rate, RateAt
<1>3. CASE ~timer.counting
  <2>1. m = Machine /\ s = since
    BY <1>3 DEF CaughtUp, SinceCaughtUp
  <2>2. m.t = timer /\ m.q = irq /\ m.n = fires
    BY <1>1, <2>1, FieldsOf
  <2> HIDE DEF m, s
  <2> QED
    BY <1>1, <1>3, <2>1, <2>2 DEF SameShape, m, s
<1>4. CASE timer.counting
  <2> DEFINE k == Crossings
             x == IF k = 0 THEN Machine ELSE Cross(Machine, k)
  <2>1. /\ k \in Nat /\ c \in 0 .. p - 1 /\ (since % r) \in 0 .. r - 1
        /\ since - ((k * p) * r) = (c * r) + (since % r)
        /\ c * r \in Nat /\ (k * p) * r \in Nat
    BY <1>1, <1>2, CyclesSplit DEF Crossings, Elapsed
  <2>2. m = [x EXCEPT !.t.counter = c] /\ s = since - ((k * p) * r)
    BY <1>2, <1>4 DEF CaughtUp, SinceCaughtUp
  <2>3. x.t \in TimerState /\ x.q \in IrqRegs /\ x.n \in 0 .. 2 /\ x = Made(x.t, x.q, x.n)
        /\ SameShape(timer, x.t) /\ OneShot(x.t, x.n)
    <3>1. CASE k = 0
      <4>1. x.t = timer /\ x.q = irq /\ x.n = fires /\ x = Machine
        BY <1>1, <3>1, FieldsOf
      <4> HIDE DEF x
      <4> QED
        BY <1>1, <4>1 DEF SameShape
    <3>2. CASE k # 0
      <4>1. k \in Nat \ {0}
        BY <2>1, <3>2
      <4>2. x = Cross(Made(timer, irq, fires), k)
        BY <1>1, <3>2
      <4> HIDE DEF x, k
      <4>3. /\ x \in TimerMachines /\ x.t = After(timer, k)
            /\ ~Armed(timer) => x.n = fires
            /\ Armed(timer) /\ ~timer.mode.irq_repeat => x.n = Counted(fires)
        BY <1>1, <4>1, <4>2, CrossIs
      <4>4. /\ SameShape(timer, x.t)
            /\ ~Armed(timer) \/ timer.mode.irq_repeat => x.t.mode = timer.mode
            /\ Armed(timer) /\ ~timer.mode.irq_repeat => /\ ~x.t.mode.irq_on_target
                                                         /\ ~x.t.mode.irq_on_ffff
        BY <1>1, <4>1, <4>3, AfterIs
      <4>5. /\ x.t \in TimerState /\ x.q \in IrqRegs /\ x.n \in 0 .. 2 /\ x = Made(x.t, x.q, x.n)
        BY <4>3, MadeIs
      <4>6. OneShot(x.t, x.n)
        <5>1. CASE timer.mode.irq_repeat
          BY <4>4, <5>1 DEF OneShot, SameShape
        <5>2. CASE ~timer.mode.irq_repeat /\ Armed(timer)
          <6>1. timer.mode.irq_on_target \/ timer.mode.irq_on_ffff
            BY <5>2 DEF Armed
          <6>2. fires <= 1 /\ fires # 1
            BY <1>1, <5>2, <6>1 DEF OneShot
          <6>3. fires = 0
            BY <1>1, <6>2
          <6>4. x.n = 1
            BY <4>3, <5>2, <6>3 DEF Counted
          <6> QED
            BY <4>4, <5>2, <6>4 DEF OneShot
        <5>3. CASE ~Armed(timer)
          BY <1>1, <4>3, <4>4, <5>3 DEF OneShot
        <5> QED
          BY <5>1, <5>2, <5>3
      <4> QED
        BY <4>4, <4>5, <4>6
    <3> QED
      BY <3>1, <3>2
  <2> HIDE DEF x, m, s, c
  <2>4. /\ m.t = [x.t EXCEPT !.counter = c] /\ m.q = x.q /\ m.n = x.n
    BY <2>2, <2>3 DEF Made
  <2>5. c \in Counts
    BY <1>2, <2>1, TimerConstants DEF Counts
  <2>6. /\ m.t \in TimerState /\ m.t.counter = c /\ m.t.mode = x.t.mode /\ m.t.target = x.t.target
        /\ m.t.counting = x.t.counting /\ m.t.index = x.t.index
    BY <2>3, <2>4, <2>5 DEF TimerState
  <2>7. SameShape(timer, m.t) /\ OneShot(m.t, m.n)
    BY <2>3, <2>4, <2>6 DEF SameShape, OneShot
  <2>8. s \in Nat /\ s <= since /\ s = (m.t.counter * r) + (since % r)
    <3> HIDE DEF p, r, k
    <3> DEFINE y == (k * p) * r
               z == c * r
               d == since % r
    <3>1. y \in Nat /\ z \in Nat /\ d \in 0 .. r - 1 /\ since - y = z + d /\ s = since - y
      BY <2>1, <2>2
    <3> HIDE DEF y, z, d
    <3>2. s \in Nat /\ s <= since /\ s = z + d
      BY <1>1, <1>2, <3>1
    <3> QED
      BY <2>6, <3>2 DEF z, d
  <2>9. \E d \in 0 .. r - 1 : s = (m.t.counter * r) + d
    BY <2>1, <2>8
  <2> HIDE DEF r, p, k
  <2> QED
    BY <1>4, <2>3, <2>4, <2>6, <2>7, <2>8, <2>9 DEF m, r, s
<1> QED
  BY <1>3, <1>4

(* What the schedule arms is in time.                                      *)
LEMMA RearmInTime ==
  ASSUME NEW t \in TimerState, NEW v \in VideoRates, NEW d \in 0 .. RateAt(t, v) - 1, NEW s,
         s = (t.counter * RateAt(t, v)) + d
  PROVE  /\ s \in Nat /\ t.counter * RateAt(t, v) \in Nat
         /\ TicksLeft(t) * RateAt(t, v) \in Nat
         /\ InTimeBy(t, s, Queued(TicksLeft(t) * RateAt(t, v)), v)
<1> DEFINE r == RateAt(t, v)
           p == PeriodTicks(t)
           c == t.counter
           k == TicksLeft(t)
           e == Queued(k * r)
<1>1. r \in Nat \ {0} /\ p \in Nat \ {0} /\ c \in Nat
  BY RateIs, TimerConstants DEF TimerState, Counts
<1>2. e.queued = TRUE /\ e.left = k * r
  BY DEF Queued
<1>3. k = IF c < p THEN p - c ELSE 1
  BY DEF TicksLeft
<1> HIDE DEF r, p, c, k, e
<1>4. k \in Nat \ {0} /\ c * r \in Nat /\ k * r \in Nat /\ p * r \in Nat /\ d \in 0 .. r - 1
  <2>1. k \in Nat \ {0}
    BY <1>1, <1>3
  <2>2. k * r \in Nat /\ p * r \in Nat /\ c * r \in Nat
    BY <1>1, <2>1
  <2> QED
    BY <2>1, <2>2 DEF r
<1>5. s = (c * r) + d
  BY DEF c, r
<1> DEFINE x == c * r
           y == k * r
           z == p * r
<1>6. CASE c < p
  <2>1. k * r = (p * r) - (c * r)
    BY <1>1, <1>3, <1>6
  <2>2. k * r >= r
    BY <1>1, <1>4, AtLeastItself
  <2>3. x \in Nat /\ y \in Nat /\ z \in Nat /\ y = z - x /\ y >= r /\ s = x + d
    BY <1>4, <1>5, <2>1, <2>2
  <2> HIDE DEF x, y, z
  <2>4. z - s > 0 /\ y < r + (z - s) /\ s \in Nat
    BY <1>1, <1>4, <2>3
  <2>5. RunUp(t, s, v) = z - s
    BY <2>4 DEF RunUp, z, p, r
  <2>6. e.left < r + RunUp(t, s, v)
    BY <1>2, <2>4, <2>5 DEF y
  <2> QED
    BY <1>2, <1>4, <2>4, <2>6 DEF InTimeBy, e, r, k, c
<1>7. CASE ~(c < p)
  <2>1. y = r
    BY <1>1, <1>3, <1>7
  <2>2. RunUp(t, s, v) \in Nat /\ RunUp(t, s, v) >= 1 /\ s \in Nat
    <3>1. x \in Nat /\ z \in Nat /\ s = x + d
      BY <1>4, <1>5
    <3> HIDE DEF x, z
    <3>2. s \in Nat
      BY <1>4, <3>1
    <3>3. RunUp(t, s, v) = IF z - s > 0 THEN z - s ELSE 1
      BY DEF RunUp, z, p, r
    <3> QED
      BY <3>1, <3>2, <3>3
  <2> HIDE DEF y
  <2>3. y < r + RunUp(t, s, v)
    BY <1>1, <2>1, <2>2
  <2>4. e.left < r + RunUp(t, s, v)
    BY <1>2, <2>3 DEF y
  <2> QED
    BY <1>2, <1>4, <2>2, <2>4 DEF InTimeBy, e, r, k, c
<1> QED
  BY <1>6, <1>7

LEMMA ShapeIs ==
  ASSUME NEW t, NEW u, SameShape(t, u), NEW v
  PROVE  /\ RateAt(u, v) = RateAt(t, v) /\ PeriodTicks(u) = PeriodTicks(t)
         /\ \A s, d : InTimeBy(u, s, d, v) <=> InTimeBy(t, s, d, v)
<1>1. RateAt(u, v) = RateAt(t, v) /\ PeriodTicks(u) = PeriodTicks(t)
  BY DEF SameShape, RateAt, PeriodTicks
<1>2. \A s : RunUp(u, s, v) = RunUp(t, s, v)
  BY <1>1 DEF RunUp
<1> QED
  BY <1>1, <1>2 DEF InTimeBy

(* A catch-up only leaves more time before the boundary.                   *)
LEMMA MoreTime ==
  ASSUME NEW t \in TimerState, NEW v \in VideoRates, NEW d \in Event,
         NEW s \in Nat, NEW s2 \in Nat, s2 <= s, InTimeBy(t, s, d, v)
  PROVE  InTimeBy(t, s2, d, v)
<1> DEFINE z == PeriodTicks(t) * RateAt(t, v)
           r == RateAt(t, v)
<1>1. r \in Nat /\ z \in Nat /\ d.left \in Int
  BY RateIs DEF Event
<1>2. RunUp(t, s, v) = (IF z - s > 0 THEN z - s ELSE 1) /\ RunUp(t, s2, v) = (IF z - s2 > 0 THEN z - s2 ELSE 1)
  BY DEF RunUp
<1>3. d.queued /\ (d.left <= 0 \/ d.left < r + RunUp(t, s, v))
  BY DEF InTimeBy
<1> HIDE DEF z, r
<1>4. d.queued /\ (d.left <= 0 \/ d.left < r + RunUp(t, s2, v))
  BY <1>1, <1>2, <1>3
<1> QED
  BY <1>4 DEF InTimeBy, r

(* Every step that ends with the schedule.                                 *)
LEMMA RearmStep ==
  ASSUME TimerIInv, NEW t \in TimerState, NEW q \in IrqRegs, NEW n \in 0 .. 2, NEW s \in Nat,
         timer' = t, irq' = q, fires' = n, since' = s, video' = video,
         due' = Rescheduled(t) \/ (~t.counting /\ due' \in Event),
         retimed' \in BOOLEAN, OneShot(t, n),
         t.counting => \E d \in 0 .. RateAt(t, video) - 1 : s = (t.counter * RateAt(t, video)) + d
  PROVE  TimerIInv'
<1>1. video \in VideoRates /\ due \in Event
  BY DEF TimerIInv, TimersTypeOK
<1>2. Rate(t) = RateAt(t, video)
  BY DEF Rate, RateAt
<1>3. CASE ~t.counting
  <2>1. due' \in Event
    BY <1>1, <1>3 DEF Rescheduled
  <2> QED
    BY <1>1, <1>3, <2>1 DEF TimerIInv, TimersTypeOK
<1>4. CASE t.counting
  <2>1. PICK d \in 0 .. RateAt(t, video) - 1 : s = (t.counter * RateAt(t, video)) + d
    BY <1>4
  <2>2. due' = Queued(TicksLeft(t) * RateAt(t, video))
    BY <1>2, <1>4 DEF Rescheduled
  <2>3. TicksLeft(t) * RateAt(t, video) \in Nat /\ InTimeBy(t, s, due', video)
    BY <1>1, <2>1, <2>2, RearmInTime
  <2>4. due' \in Event
    BY <2>2, <2>3 DEF Queued, Event
  <2> QED
    BY <1>1, <2>3, <2>4 DEF TimerIInv, TimersTypeOK
<1> QED
  BY <1>3, <1>4

(* Every step that catches up and leaves the event alone.                  *)
LEMMA ReadStep ==
  ASSUME TimerIInv, NEW t \in TimerState, SameShape(timer, t), OneShot(t, CaughtUp.n),
         timer' = t, irq' = CaughtUp.q, fires' = CaughtUp.n, since' = SinceCaughtUp,
         UNCHANGED <<due, video, retimed>>
  PROVE  TimerIInv'
<1> DEFINE m == CaughtUp
           s == SinceCaughtUp
<1>1. /\ m.q \in IrqRegs /\ m.n \in 0 .. 2 /\ s \in Nat
      /\ timer.counting => s <= since
  BY CaughtUpIs
<1>2. /\ timer \in TimerState /\ video \in VideoRates /\ due \in Event /\ since \in Nat /\ retimed \in BOOLEAN
      /\ timer.counting /\ ~retimed => InTimeBy(timer, since, due, video)
  BY DEF TimerIInv, TimersTypeOK
<1> HIDE DEF m, s
<1>3. ASSUME timer.counting, ~retimed PROVE InTimeBy(t, s, due, video)
  <2>1. InTimeBy(timer, s, due, video)
    BY <1>1, <1>2, <1>3, MoreTime
  <2> QED
    BY <2>1, ShapeIs
<1>4. t.counting = timer.counting
  BY DEF SameShape
<1> QED
  BY <1>1, <1>2, <1>3, <1>4 DEF TimerIInv, TimersTypeOK, m, s

LEMMA ReadCounterStep == ASSUME TimerIInv, ReadCounter PROVE TimerIInv'
<1>1. CaughtUp.t \in TimerState /\ SameShape(timer, CaughtUp.t) /\ OneShot(CaughtUp.t, CaughtUp.n)
  BY CaughtUpIs
<1>2. /\ timer' = CaughtUp.t /\ irq' = CaughtUp.q /\ fires' = CaughtUp.n /\ since' = SinceCaughtUp
      /\ UNCHANGED <<due, video, retimed>>
  BY DEF ReadCounter, Keep
<1> DEFINE t == CaughtUp.t
<1> HIDE DEF t
<1> QED
  BY <1>1, <1>2, ReadStep

(* A record of three parts with its timer replaced.                        *)
LEMMA WithTimer ==
  ASSUME NEW m, m = Made(m.t, m.q, m.n), NEW t
  PROVE  [m EXCEPT !.t = t] = Made(t, m.q, m.n)
BY DEF Made

LEMMA CaughtUpMade ==
  ASSUME TimerIInv PROVE CaughtUp = Made(CaughtUp.t, CaughtUp.q, CaughtUp.n)
<1>1. timer \in TimerState /\ irq \in IrqRegs /\ fires \in 0 .. 2 /\ Machine = Made(timer, irq, fires)
  BY DEF TimerIInv, TimersTypeOK, Machine, Made
<1>2. CASE ~timer.counting
  BY <1>2 DEF CaughtUp, Machine, Made
<1>3. CASE timer.counting
  <2> DEFINE x == IF Crossings = 0 THEN Machine ELSE Cross(Machine, Crossings)
             c == Elapsed % PeriodTicks(timer)
  <2>1. x = Made(x.t, x.q, x.n)
    <3>1. CASE Crossings = 0
      BY <3>1 DEF Machine, Made
    <3>2. CASE Crossings # 0
      <4>1. Crossings \in Nat
        <5>1. /\ video \in VideoRates /\ since \in Nat
          BY DEF TimerIInv, TimersTypeOK
        <5>2. RateAt(timer, video) \in Nat \ {0} /\ PeriodTicks(timer) \in Nat \ {0}
              /\ Rate(timer) = RateAt(timer, video)
          BY <1>1, <5>1, RateIs DEF Rate, RateAt
        <5> QED
          BY <5>1, <5>2, CyclesSplit DEF Crossings, Elapsed
      <4>2. Cross(Made(timer, irq, fires), Crossings) \in TimerMachines
        BY <1>1, <3>2, <4>1, CrossIs
      <4> QED
        BY <1>1, <3>2, <4>2, MadeIs
    <3> QED
      BY <3>1, <3>2
  <2>2. CaughtUp = [x EXCEPT !.t.counter = c]
    BY <1>3 DEF CaughtUp
  <2> HIDE DEF x, c
  <2> QED
    BY <2>1, <2>2 DEF Made
<1> QED
  BY <1>2, <1>3

LEMMA ReadModeStep == ASSUME TimerIInv, ReadMode PROVE TimerIInv'
<1> DEFINE m == CaughtUp
           a == [m EXCEPT !.t.reached_target = FALSE, !.t.reached_ffff = FALSE]
           t == [m.t EXCEPT !.reached_target = FALSE, !.reached_ffff = FALSE]
<1>1. m.t \in TimerState /\ SameShape(timer, m.t) /\ OneShot(m.t, m.n)
  BY CaughtUpIs
<1>2. m = Made(m.t, m.q, m.n)
  BY CaughtUpMade
<1>3. /\ timer' = a.t /\ irq' = a.q /\ fires' = a.n /\ since' = SinceCaughtUp
      /\ UNCHANGED <<due, video, retimed>>
  BY DEF ReadMode, Keep
<1> HIDE DEF m
<1>4. a.t = t /\ a.q = m.q /\ a.n = m.n
  BY <1>2 DEF Made
<1>5. t \in TimerState /\ SameShape(timer, t) /\ OneShot(t, m.n)
  <2>1. /\ t \in TimerState /\ t.mode = m.t.mode /\ t.target = m.t.target
        /\ t.counting = m.t.counting /\ t.index = m.t.index
    BY <1>1 DEF TimerState
  <2> HIDE DEF t
  <2> QED
    BY <1>1, <2>1 DEF SameShape, OneShot
<1> HIDE DEF t, a
<1> QED
  BY <1>3, <1>4, <1>5, ReadStep DEF m

LEMMA RaiseIs ==
  ASSUME NEW q \in IrqRegs
  PROVE  RaiseLine(q, "TMR0") \in IrqRegs /\ WriteIStat(q, {}) \in IrqRegs
<1>1. RaiseLine(q, "TMR0") \in IrqRegs
  BY TimerConstants DEF RaiseLine, IrqRegs
<1>2. WriteIStat(q, {}) \in IrqRegs
  BY DEF WriteIStat, IrqRegs
<1> QED
  BY <1>1, <1>2

(* A timer rebased on its counter stands on a tick.                        *)
LEMMA OnATick ==
  ASSUME TimerIInv, NEW t \in TimerState
  PROVE  /\ Rebased(t) \in Nat
         /\ \E d \in 0 .. RateAt(t, video) - 1 : Rebased(t) = (t.counter * RateAt(t, video)) + d
<1>1. video \in VideoRates
  BY DEF TimerIInv, TimersTypeOK
<1> DEFINE r == RateAt(t, video)
           x == t.counter * r
<1>2. r \in Nat \ {0} /\ Rebased(t) = x /\ t.counter \in Nat
  BY <1>1, RateIs, TimerConstants DEF Rebased, Rate, RateAt, TimerState, Counts
<1>3. x \in Nat
  BY <1>2
<1>4. 0 \in 0 .. r - 1 /\ x = x + 0
  BY <1>2, <1>3
<1> QED
  BY <1>2, <1>3, <1>4

(* Rearm is a schedule.                                                    *)
LEMMA RearmIs ==
  ASSUME TimerIInv, NEW t, Rearm(t), t.counting \in BOOLEAN
  PROVE  /\ due' = Rescheduled(t) \/ (~t.counting /\ due' \in Event)
         /\ retimed' \in BOOLEAN
BY DEF TimerIInv, TimersTypeOK, Rearm

LEMMA WriteCounterStep == ASSUME TimerIInv, NEW v \in Counts, WriteCounter(v) PROVE TimerIInv'
<1> DEFINE m == CaughtUp
           a == [m EXCEPT !.t.counter = v]
           t == [m.t EXCEPT !.counter = v]
<1>1. m.t \in TimerState /\ m.q \in IrqRegs /\ m.n \in 0 .. 2 /\ OneShot(m.t, m.n)
  BY CaughtUpIs
<1>2. m = Made(m.t, m.q, m.n)
  BY CaughtUpMade
<1>3. /\ timer' = a.t /\ irq' = a.q /\ fires' = a.n /\ since' = Rebased(a.t) /\ Rearm(a.t)
      /\ video' = video
  BY DEF WriteCounter, Keep
<1> HIDE DEF m
<1>4. a.t = t /\ a.q = m.q /\ a.n = m.n
  BY <1>2 DEF Made
<1>5. t \in TimerState /\ t.mode = m.t.mode /\ t.counting \in BOOLEAN
  BY <1>1 DEF TimerState
<1> HIDE DEF t, a
<1>6. OneShot(t, m.n)
  BY <1>1, <1>5 DEF OneShot
<1>7. /\ Rebased(t) \in Nat
      /\ \E d \in 0 .. RateAt(t, video) - 1 : Rebased(t) = (t.counter * RateAt(t, video)) + d
  BY <1>5, OnATick
<1>8. /\ due' = Rescheduled(t) \/ (~t.counting /\ due' \in Event)
      /\ retimed' \in BOOLEAN
  BY <1>3, <1>4, <1>5, RearmIs
<1> QED
  BY <1>1, <1>3, <1>4, <1>5, <1>6, <1>7, <1>8, RearmStep

LEMMA WriteTargetStep == ASSUME TimerIInv, NEW v \in Counts, WriteTarget(v) PROVE TimerIInv'
<1> DEFINE m == CaughtUp
           s == SinceCaughtUp
           a == [m EXCEPT !.t.target = v]
           t == [m.t EXCEPT !.target = v]
<1>1. /\ m.t \in TimerState /\ m.q \in IrqRegs /\ m.n \in 0 .. 2 /\ OneShot(m.t, m.n)
      /\ SameShape(timer, m.t) /\ s \in Nat
      /\ timer.counting => \E d \in 0 .. RateAt(timer, video) - 1 :
                             s = (m.t.counter * RateAt(timer, video)) + d
  BY CaughtUpIs
<1>2. m = Made(m.t, m.q, m.n)
  BY CaughtUpMade
<1>3. /\ timer' = a.t /\ irq' = a.q /\ fires' = a.n /\ since' = s /\ Rearm(a.t)
      /\ video' = video
  BY DEF WriteTarget, Keep
<1> HIDE DEF m, s
<1>4. a.t = t /\ a.q = m.q /\ a.n = m.n
  BY <1>2 DEF Made
<1>5. /\ t \in TimerState /\ t.mode = m.t.mode /\ t.counting \in BOOLEAN /\ t.counting = m.t.counting
      /\ t.index = m.t.index /\ t.counter = m.t.counter
  BY <1>1 DEF TimerState
<1> HIDE DEF t, a
<1>6. OneShot(t, m.n)
  BY <1>1, <1>5 DEF OneShot
<1>7. RateAt(t, video) = RateAt(timer, video) /\ t.counting = timer.counting
  BY <1>1, <1>5 DEF RateAt, SameShape
<1>8. t.counting => \E d \in 0 .. RateAt(t, video) - 1 : s = (t.counter * RateAt(t, video)) + d
  BY <1>1, <1>5, <1>7
<1>9. /\ due' = Rescheduled(t) \/ (~t.counting /\ due' \in Event)
      /\ retimed' \in BOOLEAN
  BY <1>3, <1>4, <1>5, RearmIs
<1> QED
  BY <1>1, <1>3, <1>4, <1>5, <1>6, <1>8, <1>9, RearmStep

LEMMA WriteModeStep == ASSUME TimerIInv, NEW bits \in TimerModes, WriteMode(bits) PROVE TimerIInv'
<1> DEFINE m == CaughtUp
           t1 == [m.t EXCEPT !.mode = bits, !.counter = 0, !.bit10 = FALSE,
                             !.reached_target = FALSE, !.reached_ffff = FALSE]
           at == bits.irq_on_target /\ t1.target = 0
           on == CountingEnabled(t1)
           t2 == [t1 EXCEPT !.bit10 = at, !.counting = on]
           q2 == IF at THEN RaiseLine(m.q, "TMR0") ELSE m.q
<1>1. m.t \in TimerState /\ m.q \in IrqRegs
  BY CaughtUpIs
<1>2. /\ timer' = t2 /\ irq' = q2 /\ fires' = 0 /\ since' = Rebased(t2) /\ Rearm(t2)
      /\ video' = video
  BY DEF WriteMode
<1>3. bits \in ModeBits /\ 0 \in Counts
  BY ModesAreBits, TimerConstants DEF Counts
<1> HIDE DEF m
<1>4. q2 \in IrqRegs
  BY <1>1, RaiseIs
<1> HIDE DEF q2
<1>5. t1 \in TimerState
  BY <1>1, <1>3 DEF TimerState
<1> HIDE DEF t1
<1>6. at \in BOOLEAN /\ on \in BOOLEAN
  <2>1. bits.irq_on_target \in BOOLEAN
    BY <1>3 DEF ModeBits
  <2>2. on \in BOOLEAN
    BY DEF CountingEnabled
  <2> QED
    BY <2>1, <2>2
<1> HIDE DEF at, on
<1>7. t2 \in TimerState /\ t2.counting \in BOOLEAN
  BY <1>5, <1>6 DEF TimerState
<1> HIDE DEF t2
<1>8. OneShot(t2, 0)
  BY DEF OneShot
<1>9. /\ Rebased(t2) \in Nat
      /\ \E d \in 0 .. RateAt(t2, video) - 1 : Rebased(t2) = (t2.counter * RateAt(t2, video)) + d
  BY <1>7, OnATick
<1>10. /\ due' = Rescheduled(t2) \/ (~t2.counting /\ due' \in Event)
       /\ retimed' \in BOOLEAN
  BY <1>2, <1>7, RearmIs
<1>11. 0 \in 0 .. 2
  OBVIOUS
<1> QED
  BY <1>2, <1>4, <1>7, <1>8, <1>9, <1>10, <1>11, RearmStep

LEMMA SetGateStep == ASSUME TimerIInv, NEW level \in BOOLEAN, SetGate(level) PROVE TimerIInv'
<1> DEFINE m == CaughtUp
           md == m.t.mode
           sm == m.t.mode.sync_mode
           c == IF m.t.mode.sync_enable /\ ((sm = 1 /\ ~level) \/ (sm = 2 /\ level)) THEN 0 ELSE m.t.counter
           se == md.sync_enable /\ (sm = 3 => level)
           t1 == [m.t EXCEPT !.gate = level,
                    !.counter = IF m.t.mode.sync_enable
                                   /\ ((sm = 1 /\ ~level) \/ (sm = 2 /\ level)) THEN 0 ELSE @,
                    !.mode.sync_enable = @ /\ (sm = 3 => level)]
           on == CountingEnabled(t1)
           t2 == IF m.t.mode.sync_enable THEN [t1 EXCEPT !.counting = on] ELSE t1
           a == [m EXCEPT !.t = t2]
<1>1. m.t \in TimerState /\ m.q \in IrqRegs /\ m.n \in 0 .. 2 /\ OneShot(m.t, m.n)
  BY CaughtUpIs
<1>2. m = Made(m.t, m.q, m.n)
  BY CaughtUpMade
<1>3. /\ timer' = a.t /\ irq' = a.q /\ fires' = a.n /\ since' = Rebased(t2) /\ Rearm(t2)
      /\ video' = video
  BY DEF SetGate, Keep
<1> HIDE DEF m
<1>4. a.t = t2 /\ a.q = m.q /\ a.n = m.n
  BY <1>2, WithTimer, FieldsOf
<1>5. /\ t1 \in TimerState /\ t1.mode.irq_repeat = md.irq_repeat
      /\ t1.mode.irq_on_target = md.irq_on_target /\ t1.mode.irq_on_ffff = md.irq_on_ffff
  <2>1. md \in ModeBits /\ c \in Counts /\ se \in BOOLEAN
    <3>1. md \in ModeBits /\ m.t.counter \in Counts /\ 0 \in Counts
      BY <1>1, TimerConstants DEF TimerState, Counts
    <3>2. md.sync_enable \in BOOLEAN
      BY <3>1 DEF ModeBits
    <3> QED
      BY <3>1, <3>2
  <2> DEFINE w == [md EXCEPT !.sync_enable = se]
             u == [m.t EXCEPT !.gate = level, !.counter = c]
  <2>2. /\ w \in ModeBits /\ w.irq_repeat = md.irq_repeat
        /\ w.irq_on_target = md.irq_on_target /\ w.irq_on_ffff = md.irq_on_ffff
    BY <2>1 DEF ModeBits
  <2>3. u \in TimerState /\ u.mode = md
    BY <1>1, <2>1 DEF TimerState
  <2>4. t1 = [u EXCEPT !.mode.sync_enable = @ /\ (sm = 3 => level)]
    BY DEF TimerState
  <2> HIDE DEF u
  <2>5. t1 = [u EXCEPT !.mode = w]
    <3>1. [u EXCEPT !.mode.sync_enable = @ /\ (sm = 3 => level)] = [u EXCEPT !.mode = [u.mode EXCEPT !.sync_enable = @ /\ (sm = 3 => level)]]
      OBVIOUS
    <3> QED
      BY <2>3, <2>4, <3>1
  <2> HIDE DEF w, t1
  <2> QED
    BY <2>2, <2>3, <2>5 DEF TimerState
<1> HIDE DEF t1, md, sm
<1>6. on \in BOOLEAN
  BY DEF CountingEnabled
<1> HIDE DEF on
<1>7. t2 \in TimerState /\ t2.counting \in BOOLEAN /\ t2.mode = t1.mode
  BY <1>5, <1>6 DEF TimerState
<1> HIDE DEF t2, a
<1>8. OneShot(t2, m.n)
  BY <1>1, <1>5, <1>7 DEF OneShot, md
<1>9. /\ Rebased(t2) \in Nat
      /\ \E d \in 0 .. RateAt(t2, video) - 1 : Rebased(t2) = (t2.counter * RateAt(t2, video)) + d
  BY <1>7, OnATick
<1>10. /\ due' = Rescheduled(t2) \/ (~t2.counting /\ due' \in Event)
       /\ retimed' \in BOOLEAN
  BY <1>3, <1>7, RearmIs
<1> QED
  BY <1>1, <1>3, <1>4, <1>7, <1>8, <1>9, <1>10, RearmStep

LEMMA TimerEventStep == ASSUME TimerIInv, TimerEvent PROVE TimerIInv'
<1> DEFINE t == CaughtUp.t
           s == SinceCaughtUp
<1>1. /\ t \in TimerState /\ CaughtUp.q \in IrqRegs /\ CaughtUp.n \in 0 .. 2 /\ OneShot(t, CaughtUp.n)
      /\ SameShape(timer, t) /\ s \in Nat
      /\ timer.counting => \E d \in 0 .. RateAt(timer, video) - 1 :
                             s = (t.counter * RateAt(timer, video)) + d
  BY CaughtUpIs
<1>2. /\ timer' = t /\ irq' = CaughtUp.q /\ fires' = CaughtUp.n /\ since' = s
      /\ due' = (IF timer.counting THEN Rescheduled(t) ELSE NoEvent)
      /\ retimed' = FALSE /\ video' = video
  BY DEF TimerEvent, Keep
<1> HIDE DEF t, s
<1>3. RateAt(t, video) = RateAt(timer, video) /\ t.counting = timer.counting
  BY <1>1 DEF RateAt, SameShape
<1>4. t.counting => \E d \in 0 .. RateAt(t, video) - 1 : s = (t.counter * RateAt(t, video)) + d
  BY <1>1, <1>3
<1>5. NoEvent \in Event /\ t.counting \in BOOLEAN
  BY <1>1 DEF NoEvent, Event, TimerState
<1>6. due' = Rescheduled(t) \/ (~t.counting /\ due' \in Event)
  BY <1>2, <1>3, <1>5
<1> QED
  BY <1>1, <1>2, <1>4, <1>6, RearmStep

LEMMA CyclesPassStep == ASSUME TimerIInv, NEW c \in StepCosts, CyclesPass(c) PROVE TimerIInv'
<1>1. /\ timer \in TimerState /\ video \in VideoRates /\ due \in Event /\ since \in Nat /\ retimed \in BOOLEAN
      /\ timer.counting /\ ~retimed => InTimeBy(timer, since, due, video)
  BY DEF TimerIInv, TimersTypeOK
<1>2. /\ since' = (IF timer.counting THEN since + c ELSE since)
      /\ due' = (IF due.queued THEN Queued(due.left - c) ELSE due)
      /\ UNCHANGED <<irq, timer, video, retimed, fires>>
  BY DEF CyclesPass
<1>3. c \in Nat
  BY TimerConstants
<1>4. since' \in Nat
  BY <1>1, <1>2, <1>3
<1>5. due' \in Event
  BY <1>1, <1>2, <1>3 DEF Event, Queued
<1>6. ASSUME timer.counting, ~retimed PROVE InTimeBy(timer, since', due', video)
  <2> DEFINE z == PeriodTicks(timer) * RateAt(timer, video)
             r == RateAt(timer, video)
             l == due.left
             k == since
  <2>1. r \in Nat /\ z \in Nat /\ l \in Int /\ k \in Nat
    BY <1>1, RateIs DEF Event
  <2>2. due.queued /\ (l <= 0 \/ l < r + (IF z - k > 0 THEN z - k ELSE 1))
    BY <1>1, <1>6 DEF InTimeBy, RunUp
  <2>3. due' = Queued(l - c) /\ since' = k + c
    BY <1>2, <1>6, <2>2
  <2>4. due'.queued = TRUE /\ due'.left = l - c
    BY <2>3 DEF Queued
  <2> HIDE DEF z, r, l, k
  <2>5. (l - c <= 0) \/ l - c < r + (IF z - (k + c) > 0 THEN z - (k + c) ELSE 1)
    BY <1>3, <2>1, <2>2
  <2>6. RunUp(timer, since', video) = IF z - (k + c) > 0 THEN z - (k + c) ELSE 1
    BY <2>3 DEF RunUp, z
  <2> QED
    BY <2>4, <2>5, <2>6 DEF InTimeBy, r
<1> QED
  BY <1>1, <1>2, <1>4, <1>5, <1>6 DEF TimerIInv, TimersTypeOK

LEMMA SetVideoModeStep == ASSUME TimerIInv, NEW v \in VideoRates, SetVideoMode(v) PROVE TimerIInv'
<1>1. /\ timer \in TimerState /\ timer.mode \in ModeBits /\ timer.mode.derived \in BOOLEAN
      /\ retimed \in BOOLEAN
      /\ timer.counting /\ ~retimed => InTimeBy(timer, since, due, video)
  BY DEF TimerIInv, TimersTypeOK, TimerState, ModeBits
<1>2. /\ video' = v /\ retimed' = (retimed \/ (timer.mode.derived /\ timer.index # 2))
      /\ UNCHANGED <<irq, timer, since, due, fires>>
  BY DEF SetVideoMode
<1>3. ASSUME timer.counting, ~retimed' PROVE InTimeBy(timer, since, due, v)
  <2>1. RateAt(timer, v) = RateAt(timer, video)
    BY <1>2, <1>3 DEF RateAt
  <2>2. InTimeBy(timer, since, due, video)
    BY <1>1, <1>2, <1>3
  <2> QED
    BY <2>1, <2>2 DEF InTimeBy, RunUp
<1>4. retimed' \in BOOLEAN
  BY <1>1, <1>2
<1> QED
  BY <1>2, <1>3, <1>4 DEF TimerIInv, TimersTypeOK

LEMMA AckTimerStep == ASSUME TimerIInv, AckTimer PROVE TimerIInv'
<1>1. irq' \in IrqRegs
  BY RaiseIs DEF AckTimer, TimerIInv, TimersTypeOK
<1> QED
  BY <1>1 DEF AckTimer, TimerIInv, TimersTypeOK

LEMMA NextTimers == TimerIInv /\ [TimersNext]_timer_vars => TimerIInv'
<1> SUFFICES ASSUME TimerIInv, [TimersNext]_timer_vars PROVE TimerIInv'
  OBVIOUS
<1>1. CASE ReadCounter
  BY <1>1, ReadCounterStep
<1>2. CASE ReadMode
  BY <1>2, ReadModeStep
<1>3. CASE \E v \in Counts : WriteCounter(v)
  BY <1>3, WriteCounterStep
<1>4. CASE \E v \in Counts : WriteTarget(v)
  BY <1>4, WriteTargetStep
<1>5. CASE \E bits \in TimerModes : WriteMode(bits)
  BY <1>5, WriteModeStep
<1>6. CASE \E level \in BOOLEAN : SetGate(level)
  BY <1>6, SetGateStep
<1>7. CASE TimerEvent
  BY <1>7, TimerEventStep
<1>8. CASE \E c \in StepCosts : CyclesPass(c)
  BY <1>8, CyclesPassStep
<1>9. CASE \E v \in VideoRates : SetVideoMode(v)
  BY <1>9, SetVideoModeStep
<1>10. CASE AckTimer
  BY <1>10, AckTimerStep
<1>11. CASE UNCHANGED timer_vars
  BY <1>11 DEF TimerIInv, TimersTypeOK, timer_vars
<1> QED
  BY <1>1, <1>2, <1>3, <1>4, <1>5, <1>6, <1>7, <1>8, <1>9, <1>10, <1>11 DEF TimersNext

LEMMA InitTimers == TimersInit => TimerIInv
<1> SUFFICES ASSUME TimersInit PROVE TimerIInv
  OBVIOUS
<1>1. PICK i \in 0 .. 2 :
        timer = [index |-> i, counter |-> 0, target |-> 0, mode |-> InitialMode,
                 bit10 |-> FALSE, gate |-> FALSE, counting |-> TRUE,
                 reached_target |-> FALSE, reached_ffff |-> FALSE]
  BY DEF TimersInit
<1>2. 0 \in Counts /\ Wrap \in Nat
  BY TimerConstants DEF Counts
<1>3. InitialMode \in ModeBits /\ InitialMode.derived = FALSE /\ InitialMode.reset_on_target = FALSE
  BY DEF InitialMode, ModeBits
<1>4. /\ timer \in TimerState /\ timer.mode = InitialMode /\ timer.target = 0
  BY <1>1, <1>2, <1>3 DEF TimerState
<1>5. /\ irq \in IrqRegs /\ since = 0 /\ due = Queued(Wrap) /\ video \in VideoRates
      /\ retimed = FALSE /\ fires = 0
  BY DEF TimersInit, IrqReset, IrqRegs
<1>6. due \in Event /\ due.queued /\ due.left = Wrap
  BY <1>2, <1>5 DEF Queued, Event
<1>7. InTimeBy(timer, 0, due, video)
  <2>1. RateAt(timer, video) = 1 /\ PeriodTicks(timer) = Wrap
    BY <1>3, <1>4 DEF RateAt, PeriodTicks
  <2>2. RunUp(timer, 0, video) = IF Wrap > 0 THEN Wrap ELSE 1
    BY <1>2, <2>1 DEF RunUp
  <2>3. Wrap < 1 + RunUp(timer, 0, video)
    BY <1>2, <2>2
  <2> QED
    BY <1>6, <2>1, <2>3 DEF InTimeBy
<1>8. OneShot(timer, fires)
  BY <1>5 DEF OneShot
<1>9. TimersTypeOK
  <2>1. since \in Nat /\ fires \in 0 .. 2
    <3>1. since = 0 /\ fires = 0
      BY <1>5
    <3> QED
      BY <3>1
  <2>2. retimed \in BOOLEAN
    BY <1>5
  <2> QED
    BY <1>4, <1>5, <1>6, <2>1, <2>2 DEF TimersTypeOK
<1>10. InTimeBy(timer, since, due, video)
  BY <1>5, <1>7
<1> QED
  BY <1>8, <1>9, <1>10 DEF TimerIInv

LEMMA TimerIInvIsExact == TimerIInv => TimerIsExact
<1> SUFFICES ASSUME TimerIInv PROVE TimerIsExact
  OBVIOUS
<1>1. /\ timer \in TimerState /\ irq \in IrqRegs /\ fires \in 0 .. 2 /\ video \in VideoRates /\ since \in Nat
      /\ Machine = Made(timer, irq, fires)
  BY DEF TimerIInv, TimersTypeOK, Machine, Made
<1>2. ClosedFormIsExact
  <2> SUFFICES ASSUME Crossings > 0
               PROVE  /\ Cross(Machine, Crossings).t = Stepwise(Machine, Crossings).t
                      /\ Cross(Machine, Crossings).q = Stepwise(Machine, Crossings).q
    BY DEF ClosedFormIsExact
  <2>1. RateAt(timer, video) \in Nat \ {0} /\ PeriodTicks(timer) \in Nat \ {0}
        /\ Rate(timer) = RateAt(timer, video)
    BY <1>1, RateIs DEF Rate, RateAt
  <2>2. Crossings \in Nat
    BY <1>1, <2>1, CyclesSplit DEF Crossings, Elapsed
  <2>3. Crossings \in Nat \ {0}
    BY <2>2
  <2> QED
    BY <1>1, <2>3, CrossIsStepwise
<1>3. TimerEventInTime
  <2> SUFFICES ASSUME timer.counting, ~retimed
               PROVE  /\ due.queued
                      /\ LET ahead == (PeriodTicks(timer) * Rate(timer)) - since
                         IN due.left <= 0 \/ due.left < Rate(timer) + (IF ahead > 0 THEN ahead ELSE 1)
    BY DEF TimerEventInTime
  <2>1. InTimeBy(timer, since, due, video)
    BY DEF TimerIInv
  <2>2. Rate(timer) = RateAt(timer, video)
    BY DEF Rate, RateAt
  <2> QED
    BY <2>1, <2>2 DEF InTimeBy, RunUp
<1>4. OneShotFiresOnce
  BY DEF TimerIInv, OneShot, OneShotFiresOnce
<1> QED
  BY <1>2, <1>3, <1>4 DEF TimerIsExact

(* A root counter is exact: what its catch-up computes in one division is  *)
(* what stepping boundary by boundary gives, its event is at most a tick   *)
(* behind the boundary, and a one-shot interrupts once, for every width of *)
(* the counter, every divider and every order of register writes, gate     *)
(* moves and events (timers.c: timers_catch_up_one, timers_reschedule).    *)
THEOREM TimersAreExact == TimersSpec => []TimerIsExact
BY InitTimers, NextTimers, TimerIInvIsExact, PTL DEF TimersSpec

-----------------------------------------------------------------------------
(* CpuPipeline: a program that runs forward and respects the load delay    *)
(* ends with the registers it says.  What is inductive is where the Cpu is *)
(* in the reference's run: at an instruction the reference has reached,    *)
(* its load still in flight, or in the handler, on the way back to one.    *)

RegNames == Registers \cup {"k0", Zero}

(* What is assumed of the registers and the programs.                      *)
Disciplined == /\ "k0" \notin UserRegs /\ Zero \notin Registers
               /\ \A p \in Programs : ForwardProgram(p)

LEMMA PipeConstants == Disciplined
BY ForwardPrograms DEF Disciplined

(* The whole run of the reference.                                         *)
RefRun(p) == LET run[k \in 0 .. Len(p)] == IF k = 0 THEN Unread ELSE Follow(p, run[k - 1]) IN run

(* The reference after k instructions: further on than k, and only one     *)
(* instruction away from its next but in the slot of a branch.             *)
WalkOK(p, m, k) ==
  /\ DOMAIN m = {"at", "next", "regs", "gte", "loaded", "hazard"}
  /\ m.at \in 1 .. Len(p) + 2
  /\ m.at > k \/ m.at > Len(p)
  /\ m.next \in m.at + 1 .. Len(p) + 2 \/ m.next = m.at + 1
  /\ m.next = m.at + 1 \/ (m.at > 1 /\ m.at - 1 < Len(p) /\ p[m.at - 1].op = "BEQ")
  /\ DOMAIN m.regs = RegNames
  /\ m.loaded \in UserRegs
  /\ m.hazard \in BOOLEAN

(* The mode stack of the program and of the handler.                       *)
Open == <<TRUE, TRUE, TRUE>>
Shut == <<FALSE, TRUE, TRUE>>

(* The program's registers, once the load in flight has landed, are the    *)
(* reference's.                                                            *)
Same(c, m) == /\ \A r \in UserRegs : Land(c.regs, c.delay)[r] = m.regs[r]
              /\ c.gte = m.gte

(* In the slot of a branch taken, the branch can be taken again: it is     *)
(* what the reference did last, and it changed no register.                *)
Slot(p, c, k) == IF c.branch_taken
                 THEN /\ k > 0 /\ c.pc > 1 /\ c.pc <= Len(p) /\ p[c.pc - 1].op = "BEQ"
                      /\ LET b == RefRun(p)[k - 1] IN
                         /\ b.at = c.pc - 1 /\ b.next = c.pc
                         /\ b.regs = RefRun(p)[k].regs /\ b.gte = RefRun(p)[k].gte
                 ELSE c.next_pc = c.pc + 1

(* Where the reference is, or past the end of the program on the way to    *)
(* the halt.                                                               *)
Place(p, m, pc) == IF m.at > Len(p) THEN pc \in m.at .. Len(p) + 3 ELSE pc = m.at

(* The Cpu is about to run what the reference reads next.                  *)
InProgram(p, c, k) ==
  LET m == RefRun(p)[k] IN
  /\ Place(p, m, c.pc)
  /\ m.at <= Len(p) => c.next_pc = m.next
  /\ c.branch_taken \in BOOLEAN /\ Slot(p, c, k)
  /\ c.ie = Open
  /\ c.load = NoLoad
  /\ c.delay.reg # Zero => c.delay.reg = m.loaded /\ c.pc = m.at
  /\ Same(c, m)

(* Where the handler returns to.                                           *)
Resume(c) == IF c.cause.code = "TRAP" THEN c.epc + 1 ELSE c.epc

(* The Cpu is in the handler, and will be back at the reference's next.    *)
InHandler(p, c, k) ==
  LET m == RefRun(p)[k] IN
  /\ c.pc \in Vector .. Vector + 4
  /\ c.next_pc = IF c.pc = Vector + 4 THEN Resume(c) ELSE c.pc + 1
  /\ Place(p, m, Resume(c)) /\ Resume(c) <= Len(p) + 2 /\ m.next = m.at + 1
  /\ c.ie = Shut
  /\ c.load = NoLoad
  /\ c.delay = IF c.pc = Vector + 1 THEN [reg |-> "k0", value |-> c.epc] ELSE NoLoad
  /\ c.pc = Vector + 2 => c.regs["k0"] = c.epc
  /\ c.pc = Vector + 3 => c.regs["k0"] = Resume(c)
  /\ Same(c, m)

(* The Cpu is a record of these fields, over these registers.              *)
CpuFields == {"regs", "gte", "pc", "next_pc", "current_pc", "branch_taken", "in_delay_slot",
              "load", "delay", "exception_pending", "ie", "cause", "epc"}

Proper(c) == /\ DOMAIN c = CpuFields
             /\ DOMAIN c.regs = RegNames
             /\ c.load.reg \in RegNames /\ c.delay.reg \in RegNames

(* The reference is read one instruction at a time.                        *)
LEMMA RefRunIs ==
  ASSUME NEW p, Len(p) \in Nat, NEW k \in 0 .. Len(p)
  PROVE  RefRun(p)[k] = IF k = 0 THEN Unread ELSE Follow(p, RefRun(p)[k - 1])
<1> DEFINE Loop(g) == [j \in 0 .. Len(p) |-> IF j = 0 THEN Unread ELSE Follow(p, g[j - 1])]
           run == CHOOSE g : g = Loop(g)
<1>1. RefRun(p) = run
  BY DEF RefRun
<1>2. \A g : Loop(g) = [j \in 0 .. Len(p) |-> StepOf(Reading(p), Unread, g, j)]
  <2> TAKE g
  <2>1. \A j : (IF j = 0 THEN Unread ELSE Follow(p, g[j - 1])) = StepOf(Reading(p), Unread, g, j)
    BY DEF StepOf, Onward, Reading
  <2> QED
    BY <2>1
<1>3. PICK g : g = Loop(g)
  <2>1. PICK g : Walks(Reading(p), Unread, Len(p), g)
    BY WalkExists
  <2> HIDE DEF Loop
  <2> QED
    BY <1>2, <2>1 DEF Walks
<1>4. run = Loop(run)
  <2> HIDE DEF Loop
  <2> QED
    BY <1>3
<1> HIDE DEF run
<1> QED
  BY <1>1, <1>4

LEMMA ReferenceIs == Reference = RefRun(prog)[Len(prog)]
BY DEF Reference, RefRun, Follow

(* What is assumed of a program, with the slots of its branches.           *)
Good(p) ==
  /\ ForwardProgram(p)
  /\ \A i \in 1 .. Len(p) : p[i].op = "BEQ" => i < Len(p) /\ p[i + 1].op \notin {"BEQ", "TRAP"}

LEMMA GoodPrograms == ASSUME Disciplined, NEW p \in Programs PROVE Good(p)
BY WellFormed DEF Disciplined, Good

LEMMA MeaningIs ==
  ASSUME NEW m, NEW i, DOMAIN m.regs = RegNames
  PROVE  DOMAIN Meaning(m, i) = RegNames
<1>1. CASE i.op = "ADDIU"
  BY <1>1 DEF Meaning
<1>2. CASE i.op = "LW"
  BY <1>2 DEF Meaning
<1>3. CASE i.op = "LWL"
  BY <1>3 DEF Meaning
<1>4. CASE i.op = "LWR"
  BY <1>4 DEF Meaning
<1>5. CASE i.op \notin {"ADDIU", "LW", "LWL", "LWR"}
  BY <1>5 DEF Meaning
<1> QED
  BY <1>1, <1>2, <1>3, <1>4, <1>5

LEMMA FollowOK ==
  ASSUME NEW p, Good(p), NEW m, NEW k \in Nat, WalkOK(p, m, k)
  PROVE  WalkOK(p, Follow(p, m), k + 1) /\ (m.hazard => Follow(p, m).hazard)
<1>1. Len(p) \in Nat
  BY DEF Good, ForwardProgram
<1>2. CASE m.at > Len(p)
  BY <1>1, <1>2 DEF WalkOK, Follow
<1>3. CASE ~(m.at > Len(p))
  <2> DEFINE i == p[m.at]
             n == Advanced(m, i)
  <2>1. m.at \in 1 .. Len(p) /\ m.at > k
    BY <1>1, <1>3 DEF WalkOK
  <2>2. i.op \in Opcodes /\ (i.op = "BEQ" => m.at < Len(p) /\ p[m.at + 1].op # "BEQ")
    BY <2>1 DEF Good, ForwardProgram
  <2>3. i.op = "BEQ" => i.off \in Nat \ {0} /\ m.at + 1 + i.off <= Len(p) + 2
    BY <2>1 DEF Good, ForwardProgram
  <2>4. i.op \in {"LW", "LWL", "LWR"} => i.d \in Registers
    BY <2>1 DEF Good, ForwardProgram
  <2> HIDE DEF i
  <2>5. /\ n.at = m.next /\ n.regs = Meaning(m, i)
        /\ n.next = IF i.op = "BEQ" /\ m.regs[i.s] = m.regs[i.t] THEN m.at + 1 + i.off ELSE m.next + 1
        /\ n.loaded = IF i.op \in {"LW", "LWL", "LWR"} THEN i.d ELSE Zero
        /\ n.hazard = (m.hazard \/ m.loaded \in Reads(i) \ {Zero})
        /\ DOMAIN n = {"at", "next", "regs", "gte", "loaded", "hazard"}
    BY DEF Advanced
  <2>6. Follow(p, m) = n
    BY <1>3 DEF Follow, i
  <2> HIDE DEF n
  <2>7. m.next \in Nat /\ m.at \in Nat /\ m.next > m.at /\ m.next <= Len(p) + 2
    BY <1>1, <1>3, <2>1 DEF WalkOK
  <2>8. n.at \in 1 .. Len(p) + 2 /\ n.at > k + 1
    BY <1>1, <2>1, <2>5, <2>7
  <2>9. i.op = "BEQ" => m.next = m.at + 1
    <3> SUFFICES ASSUME i.op = "BEQ", m.next # m.at + 1 PROVE FALSE
      OBVIOUS
    <3>1. m.at > 1 /\ m.at - 1 < Len(p) /\ p[m.at - 1].op = "BEQ"
      BY DEF WalkOK
    <3>2. m.at - 1 \in 1 .. Len(p) /\ (m.at - 1) + 1 = m.at
      BY <1>1, <2>7, <3>1
    <3>3. p[m.at].op # "BEQ"
      BY <3>1, <3>2 DEF Good
    <3> QED
      BY <3>3 DEF i
  <2>10. CASE i.op = "BEQ" /\ m.regs[i.s] = m.regs[i.t]
    <3>1. n.at = m.at + 1 /\ n.next = m.at + 1 + i.off /\ n.at > 1 /\ n.at - 1 < Len(p) /\ n.at - 1 = m.at
      BY <1>1, <2>1, <2>2, <2>5, <2>9, <2>10
    <3>2. n.next \in n.at + 1 .. Len(p) + 2
      BY <1>1, <2>1, <2>3, <2>10, <3>1
    <3>3. p[n.at - 1].op = "BEQ"
      BY <2>10, <3>1 DEF i
    <3>4. DOMAIN n.regs = RegNames /\ n.loaded \in UserRegs /\ n.hazard \in BOOLEAN
      BY <2>4, <2>5, MeaningIs DEF WalkOK, UserRegs
    <3> QED
      BY <2>5, <2>6, <2>8, <3>1, <3>2, <3>3, <3>4 DEF WalkOK
  <2>11. CASE ~(i.op = "BEQ" /\ m.regs[i.s] = m.regs[i.t])
    <3>1. n.next = n.at + 1
      BY <2>5, <2>11
    <3>2. DOMAIN n.regs = RegNames /\ n.loaded \in UserRegs /\ n.hazard \in BOOLEAN
      BY <2>4, <2>5, MeaningIs DEF WalkOK, UserRegs
    <3> QED
      BY <2>5, <2>6, <2>8, <3>1, <3>2 DEF WalkOK
  <2> QED
    BY <2>5, <2>6, <2>10, <2>11
<1> QED
  BY <1>2, <1>3

LEMMA UnreadOK == ASSUME NEW p, Len(p) \in Nat PROVE WalkOK(p, Unread, 0)
<1> USE DEF Unread
<1>1. DOMAIN Unread = {"at", "next", "regs", "gte", "loaded", "hazard"}
  OBVIOUS
<1>2. Unread.at = 1 /\ Unread.next = 2 /\ Unread.loaded = Zero /\ Unread.hazard = FALSE /\ Unread.regs = Power.regs
  OBVIOUS
<1>3. DOMAIN Power.regs = RegNames
  BY DEF Power, RegNames
<1>4. Unread.hazard \in BOOLEAN
  BY <1>2
<1>5. Unread.at \in 1 .. Len(p) + 2 /\ Unread.at > 0 /\ Unread.next = Unread.at + 1
  BY <1>2
<1>6. Unread.loaded \in UserRegs /\ DOMAIN Unread.regs = RegNames
  BY <1>2, <1>3 DEF UserRegs
<1> HIDE DEF Unread
<1> QED
  BY <1>1, <1>4, <1>5, <1>6 DEF WalkOK

(* Every state of the reference is as it should be.                        *)
LEMMA RunOK ==
  ASSUME NEW p, Good(p), NEW k \in 0 .. Len(p)
  PROVE  WalkOK(p, RefRun(p)[k], k)
<1> DEFINE S == {j \in 0 .. Len(p) : ~WalkOK(p, RefRun(p)[j], j)}
<1> SUFFICES ASSUME S # {} PROVE FALSE
  OBVIOUS
<1>1. Len(p) \in Nat
  BY DEF Good, ForwardProgram
<1>2. PICK j \in S : \A l \in S : j <= l
  <2>1. S \subseteq Nat
    OBVIOUS
  <2> HIDE DEF S
  <2> QED
    BY <2>1, LeastOf
<1>3. j \in 0 .. Len(p) /\ ~WalkOK(p, RefRun(p)[j], j)
  BY <1>2
<1>4. CASE j = 0
  BY <1>1, <1>3, <1>4, RefRunIs, UnreadOK
<1>5. CASE j # 0
  <2>1. j - 1 \in 0 .. Len(p) /\ j - 1 \in Nat /\ ~(j <= j - 1) /\ (j - 1) + 1 = j
    BY <1>1, <1>3, <1>5
  <2>2. WalkOK(p, RefRun(p)[j - 1], j - 1)
    BY <1>2, <2>1
  <2>3. RefRun(p)[j] = Follow(p, RefRun(p)[j - 1])
    BY <1>1, <1>3, <1>5, RefRunIs
  <2>4. WalkOK(p, Follow(p, RefRun(p)[j - 1]), (j - 1) + 1)
    BY <2>1, <2>2, FollowOK
  <2> QED
    BY <1>3, <2>1, <2>3, <2>4
<1> QED
  BY <1>4, <1>5

(* Once past the end it does not change.                                   *)
LEMMA RunEnds ==
  ASSUME NEW p, Good(p), NEW k \in 0 .. Len(p), RefRun(p)[k].at > Len(p)
  PROVE  RefRun(p)[Len(p)] = RefRun(p)[k]
<1> DEFINE S == {j \in 0 .. Len(p) : j > k /\ RefRun(p)[j] # RefRun(p)[k]}
<1>1. Len(p) \in Nat
  BY DEF Good, ForwardProgram
<1> SUFFICES ASSUME S # {} PROVE FALSE
  BY <1>1
<1>2. PICK j \in S : \A l \in S : j <= l
  <2>1. S \subseteq Nat
    OBVIOUS
  <2> HIDE DEF S
  <2> QED
    BY <2>1, LeastOf
<1>3. j \in 0 .. Len(p) /\ j > k /\ RefRun(p)[j] # RefRun(p)[k]
  BY <1>2
<1>4. j - 1 \in 0 .. Len(p) /\ j # 0 /\ ~(j <= j - 1) /\ (j - 1 > k \/ j - 1 = k)
  BY <1>1, <1>3
<1>5. RefRun(p)[j - 1] = RefRun(p)[k]
  BY <1>2, <1>4
<1>6. RefRun(p)[j] = Follow(p, RefRun(p)[j - 1])
  BY <1>1, <1>3, <1>4, RefRunIs
<1> QED
  BY <1>3, <1>5, <1>6 DEF Follow

(* A hazard met is a hazard of the program.                                *)
LEMMA HazardsStay ==
  ASSUME NEW p, Good(p), NEW k \in 0 .. Len(p), ~RefRun(p)[Len(p)].hazard
  PROVE  ~RefRun(p)[k].hazard
<1> SUFFICES ASSUME RefRun(p)[k].hazard PROVE FALSE
  OBVIOUS
<1> DEFINE S == {j \in 0 .. Len(p) : j > k /\ ~RefRun(p)[j].hazard}
<1>1. Len(p) \in Nat
  BY DEF Good, ForwardProgram
<1>2. Len(p) \in S
  <2>1. Len(p) # k
    OBVIOUS
  <2> QED
    BY <1>1, <2>1
<1>3. PICK j \in S : \A l \in S : j <= l
  <2>1. S \subseteq Nat
    OBVIOUS
  <2> HIDE DEF S
  <2> QED
    BY <1>2, <2>1, LeastOf
<1>4. j \in 0 .. Len(p) /\ j > k /\ ~RefRun(p)[j].hazard
  BY <1>3
<1>5. j - 1 \in 0 .. Len(p) /\ j - 1 \in Nat /\ j # 0 /\ ~(j <= j - 1) /\ (j - 1 > k \/ j - 1 = k)
  BY <1>1, <1>4
<1>6. RefRun(p)[j - 1].hazard
  BY <1>3, <1>5
<1>7. RefRun(p)[j] = Follow(p, RefRun(p)[j - 1])
  BY <1>1, <1>4, <1>5, RefRunIs
<1>8. Follow(p, RefRun(p)[j - 1]).hazard
  BY <1>5, <1>6, RunOK, FollowOK
<1> QED
  BY <1>4, <1>7, <1>8

-----------------------------------------------------------------------------
(* What the operators of the pipeline leave in the Cpu.                    *)
SameControl(c, d) == /\ d.pc = c.pc /\ d.next_pc = c.next_pc /\ d.current_pc = c.current_pc
                     /\ d.branch_taken = c.branch_taken /\ d.in_delay_slot = c.in_delay_slot
                     /\ d.ie = c.ie /\ d.cause = c.cause /\ d.epc = c.epc
                     /\ d.exception_pending = c.exception_pending

(* The mode stack pushed by an exception, and popped by the return.        *)
Pushed(ie) == <<FALSE, ie[1], ie[2]>>
Popped(ie) == <<ie[2], ie[3], ie[3]>>

LEMMA ModesIs ==
  Pushed(Open) = Shut /\ Popped(Shut) = Open /\ ~Shut[1]
<1> DEFINE yes == TRUE
           no == FALSE
           open == <<yes, yes, yes>>
           shut == <<no, yes, yes>>
<1>1. open[1] = yes /\ open[2] = yes /\ shut[2] = yes /\ shut[3] = yes
  <2> HIDE DEF yes, no
  <2> QED
    OBVIOUS
<1>2. Pushed(open) = <<no, open[1], open[2]>> /\ Popped(shut) = <<shut[2], shut[3], shut[3]>>
  <2> HIDE DEF open, shut
  <2> QED
    BY DEF Pushed, Popped
<1>3. Pushed(open) = <<no, yes, yes>> /\ Popped(shut) = <<yes, yes, yes>>
  <2> HIDE DEF open, shut, yes, no
  <2> QED
    BY <1>1, <1>2
<1>4. Open = open /\ Shut = shut
  BY DEF Open, Shut
<1>5. ~Shut[1]
  BY DEF Shut
<1> QED
  BY <1>3, <1>4, <1>5

LEMMA NoLoadIs == NoLoad.reg = Zero /\ NoLoad.reg \in RegNames
BY DEF NoLoad, RegNames

LEMMA LandIs ==
  ASSUME NEW regs, DOMAIN regs = RegNames, NEW slot
  PROVE  /\ DOMAIN Land(regs, slot) = RegNames
         /\ slot.reg = Zero => Land(regs, slot) = regs
         /\ \A r \in RegNames : Land(regs, slot)[r] = IF slot.reg # Zero /\ slot.reg = r
                                                      THEN slot.value ELSE regs[r]
BY DEF Land

LEMMA BegunIs ==
  ASSUME Proper(core), NEW d, d = Begun
  PROVE  /\ Proper(d) /\ d.regs = core.regs /\ d.gte = core.gte
         /\ d.load = core.load /\ d.delay = core.delay
         /\ d.pc = core.pc /\ d.next_pc = core.next_pc /\ d.current_pc = core.pc
         /\ d.branch_taken = core.branch_taken /\ d.in_delay_slot = core.branch_taken
         /\ d.ie = core.ie /\ d.cause = core.cause /\ d.epc = core.epc
         /\ ~d.exception_pending
BY DEF Proper, Begun, CpuFields

LEMMA FetchedIs ==
  ASSUME Proper(core), NEW d, d = Fetched
  PROVE  /\ Proper(d) /\ d.regs = core.regs /\ d.gte = core.gte
         /\ d.load = core.load /\ d.delay = core.delay
         /\ d.pc = core.next_pc /\ d.next_pc = core.next_pc + 1 /\ d.current_pc = core.pc
         /\ d.branch_taken = FALSE /\ d.in_delay_slot = core.branch_taken
         /\ d.ie = core.ie /\ d.cause = core.cause /\ d.epc = core.epc
         /\ ~d.exception_pending
<1> DEFINE b == Begun
<1>1. /\ Proper(b) /\ b.regs = core.regs /\ b.gte = core.gte
      /\ b.load = core.load /\ b.delay = core.delay /\ b.current_pc = core.pc
      /\ b.in_delay_slot = core.branch_taken
      /\ b.ie = core.ie /\ b.cause = core.cause /\ b.epc = core.epc
      /\ ~b.exception_pending
  BY BegunIs
<1>2. d = [b EXCEPT !.branch_taken = FALSE, !.pc = core.next_pc, !.next_pc = core.next_pc + 1]
  BY DEF Fetched
<1> HIDE DEF b
<1> QED
  BY <1>1, <1>2 DEF Proper, CpuFields

LEMMA RetireIs ==
  ASSUME NEW c, Proper(c), NEW d, d = RetireLoadDelay(c)
  PROVE  /\ Proper(d) /\ d.regs = Land(c.regs, c.delay) /\ d.gte = c.gte
         /\ d.load = NoLoad /\ d.delay = c.load /\ SameControl(c, d)
<1> DEFINE regs == Land(c.regs, c.delay)
<1>1. DOMAIN regs = RegNames
  BY LandIs DEF Proper
<1>2. d = [c EXCEPT !.regs = regs, !.delay = c.load, !.load = NoLoad]
  BY DEF RetireLoadDelay
<1> HIDE DEF regs
<1>3. /\ DOMAIN d = CpuFields /\ d.regs = regs /\ d.gte = c.gte /\ d.load = NoLoad /\ d.delay = c.load
  BY <1>2 DEF Proper, CpuFields
<1>4. SameControl(c, d)
  BY <1>2 DEF Proper, CpuFields, SameControl
<1>5. d.load.reg \in RegNames /\ d.delay.reg \in RegNames
  BY <1>3, NoLoadIs DEF Proper
<1> QED
  BY <1>1, <1>3, <1>4, <1>5 DEF Proper, regs

(* With nothing newly loaded.                                              *)
LEMMA TakeExceptionIs ==
  ASSUME NEW c, Proper(c), c.load = NoLoad, NEW code, NEW d, d = TakeException(c, code)
  PROVE  /\ Proper(d) /\ d.regs = Land(c.regs, c.delay) /\ d.gte = c.gte
         /\ d.load = NoLoad /\ d.delay = NoLoad
         /\ d.pc = Vector /\ d.next_pc = Vector + 1 /\ d.current_pc = c.current_pc
         /\ d.epc = ReturnAddress(c) /\ d.cause.code = code
         /\ d.ie = Pushed(c.ie) /\ d.exception_pending
<1> DEFINE regs == Land(c.regs, c.delay)
           f == FlushLoadDelay(c)
           why == [code |-> code, bd |-> c.in_delay_slot]
           ie == Pushed(c.ie)
           epc == ReturnAddress(c)
           yes == TRUE
<1>1. DOMAIN regs = RegNames /\ Land(regs, NoLoad) = regs
  BY LandIs, NoLoadIs DEF Proper
<1>2. f = [c EXCEPT !.regs = regs, !.delay = NoLoad, !.load = NoLoad]
  BY <1>1 DEF FlushLoadDelay
<1>3. /\ DOMAIN f = CpuFields /\ f.regs = regs /\ f.gte = c.gte /\ f.load = NoLoad /\ f.delay = NoLoad
      /\ f.ie = c.ie /\ f.current_pc = c.current_pc
  <2> HIDE DEF regs, f
  <2> QED
    BY <1>2 DEF Proper, CpuFields
<1>4. d = [f EXCEPT !.exception_pending = yes, !.ie = ie, !.cause = why, !.epc = epc,
                    !.pc = Vector, !.next_pc = Vector + 1]
  BY <1>3 DEF TakeException, Pushed
<1>5. why.code = code
  OBVIOUS
<1> HIDE DEF regs, f, why, ie, epc, yes
<1>6. /\ DOMAIN d = CpuFields /\ d.regs = regs /\ d.gte = c.gte /\ d.load = NoLoad /\ d.delay = NoLoad
      /\ d.pc = Vector /\ d.next_pc = Vector + 1 /\ d.epc = epc /\ d.cause = why /\ d.ie = ie
      /\ d.exception_pending = yes /\ d.current_pc = c.current_pc
  BY <1>3, <1>4 DEF CpuFields
<1>7. Proper(d)
  BY <1>1, <1>6, NoLoadIs DEF Proper
<1> QED
  BY <1>5, <1>6, <1>7 DEF regs, ie, epc, yes

LEMMA SetRegIs ==
  ASSUME NEW c, Proper(c), NEW r \in RegNames \ {Zero}, NEW v, NEW d, d = SetReg(c, r, v)
  PROVE  /\ Proper(d) /\ d.regs = [c.regs EXCEPT ![r] = v] /\ d.gte = c.gte
         /\ d.load = c.load /\ d.delay = IF c.delay.reg = r THEN NoLoad ELSE c.delay
         /\ SameControl(c, d)
<1> DEFINE regs == [c.regs EXCEPT ![r] = v]
           slot == IF c.delay.reg = r THEN NoLoad ELSE c.delay
<1>1. d = [c EXCEPT !.regs = regs, !.delay = slot]
  BY DEF SetReg, Proper, CpuFields
<1>2. DOMAIN regs = RegNames /\ slot.reg \in RegNames
  BY NoLoadIs DEF Proper
<1> HIDE DEF regs, slot
<1>3. /\ DOMAIN d = CpuFields /\ d.regs = regs /\ d.gte = c.gte /\ d.load = c.load /\ d.delay = slot
  BY <1>1 DEF Proper, CpuFields
<1>4. SameControl(c, d)
  BY <1>1 DEF Proper, CpuFields, SameControl
<1> QED
  BY <1>2, <1>3, <1>4 DEF Proper, regs, slot

LEMMA LoadIs ==
  ASSUME NEW c, Proper(c), NEW r \in RegNames, NEW v, NEW d, d = Load(c, r, v)
  PROVE  /\ Proper(d) /\ d.regs = c.regs /\ d.gte = c.gte
         /\ d.load = [reg |-> r, value |-> v] /\ d.delay = c.delay /\ SameControl(c, d)
<1> DEFINE slot == [reg |-> r, value |-> v]
<1>1. d = [c EXCEPT !.load = slot]
  BY DEF Load
<1>2. slot.reg \in RegNames
  OBVIOUS
<1> HIDE DEF slot
<1>3. /\ DOMAIN d = CpuFields /\ d.regs = c.regs /\ d.gte = c.gte /\ d.load = slot /\ d.delay = c.delay
  BY <1>1 DEF Proper, CpuFields
<1>4. SameControl(c, d)
  BY <1>1 DEF Proper, CpuFields, SameControl
<1> QED
  BY <1>2, <1>3, <1>4 DEF Proper, slot

LEMMA JumpIs ==
  ASSUME NEW c, Proper(c), NEW t, NEW d, d = Jump(c, t)
  PROVE  /\ Proper(d) /\ d.regs = c.regs /\ d.gte = c.gte
         /\ d.load = c.load /\ d.delay = c.delay /\ d.pc = c.pc /\ d.next_pc = t
         /\ d.branch_taken /\ d.branch_taken \in BOOLEAN /\ d.ie = c.ie /\ d.cause = c.cause /\ d.epc = c.epc
         /\ d.exception_pending = c.exception_pending /\ d.current_pc = c.current_pc
<1> DEFINE yes == TRUE
<1>1. d = [c EXCEPT !.next_pc = t, !.branch_taken = yes]
  BY DEF Jump
<1>2. d.branch_taken = TRUE
  BY DEF Jump, Proper, CpuFields
<1> HIDE DEF yes
<1> QED
  BY <1>1, <1>2 DEF Proper, CpuFields

LEMMA GteIs ==
  ASSUME NEW c, Proper(c), NEW d, d = GteOperation(c)
  PROVE  /\ Proper(d) /\ d.regs = c.regs /\ d.gte = (c.gte + 1) % 16
         /\ d.load = c.load /\ d.delay = c.delay /\ SameControl(c, d)
<1> DEFINE v == (c.gte + 1) % 16
<1>1. d = [c EXCEPT !.gte = v]
  BY DEF GteOperation, Proper, CpuFields
<1> HIDE DEF v
<1>2. /\ DOMAIN d = CpuFields /\ d.regs = c.regs /\ d.gte = v /\ d.load = c.load /\ d.delay = c.delay
  BY <1>1 DEF Proper, CpuFields
<1>3. SameControl(c, d)
  BY <1>1 DEF Proper, CpuFields, SameControl
<1> QED
  BY <1>2, <1>3 DEF Proper, v

LEMMA ReturnIs ==
  ASSUME NEW c, Proper(c), NEW d, d = ReturnFromException(c)
  PROVE  /\ Proper(d) /\ d.regs = c.regs /\ d.gte = c.gte
         /\ d.load = c.load /\ d.delay = c.delay /\ d.pc = c.pc /\ d.next_pc = c.next_pc
         /\ d.branch_taken = c.branch_taken /\ d.ie = Popped(c.ie)
         /\ d.exception_pending = c.exception_pending
         /\ d.current_pc = c.current_pc /\ d.epc = c.epc /\ d.cause = c.cause
<1> DEFINE ie == Popped(c.ie)
<1>1. d = [c EXCEPT !.ie = ie]
  BY DEF ReturnFromException, Popped, Proper, CpuFields
<1> HIDE DEF ie
<1>2. /\ DOMAIN d = CpuFields /\ d.regs = c.regs /\ d.gte = c.gte /\ d.load = c.load /\ d.delay = c.delay
      /\ d.pc = c.pc /\ d.next_pc = c.next_pc
         /\ d.branch_taken = c.branch_taken /\ d.ie = ie
         /\ d.exception_pending = c.exception_pending
         /\ d.current_pc = c.current_pc /\ d.epc = c.epc /\ d.cause = c.cause
  BY <1>1 DEF Proper, CpuFields
<1> QED
  BY <1>2 DEF Proper, ie

-----------------------------------------------------------------------------
(* One instruction of the program, as the pipeline runs it.                *)
LEMMA WordIs ==
  ASSUME Good(prog), NEW pc \in Nat
  PROVE  /\ pc \in 1 .. Len(prog) => ProgramWord(pc) = prog[pc]
         /\ pc > Len(prog) /\ pc < Vector => ProgramWord(pc) = NOP
         /\ pc = Vector     => ProgramWord(pc).op = "MFC0"
         /\ pc = Vector + 1 => ProgramWord(pc).op = "ACK"
         /\ pc = Vector + 2 => ProgramWord(pc).op = "SKIP"
         /\ pc = Vector + 3 => ProgramWord(pc).op = "JR"
         /\ pc = Vector + 4 => ProgramWord(pc).op = "RFE"
<1>1. Vector \in Nat /\ Len(prog) \in Nat /\ Len(prog) + 3 < Vector
  BY DEF Good, ForwardProgram, Vector
<1>2. /\ Handler[1].op = "MFC0" /\ Handler[2].op = "ACK" /\ Handler[3].op = "SKIP"
      /\ Handler[4].op = "JR" /\ Handler[5].op = "RFE"
  BY DEF Handler
<1>3. ASSUME pc >= Vector PROVE ProgramWord(pc) = Handler[pc - Vector + 1]
  BY <1>3 DEF ProgramWord
<1>4. ASSUME pc < Vector PROVE ProgramWord(pc) = IF pc <= Len(prog) THEN prog[pc] ELSE NOP
  BY <1>1, <1>4 DEF ProgramWord
<1> QED
  BY <1>1, <1>2, <1>3, <1>4

LEMMA Following ==
  ASSUME NEW p, Good(p), NEW k \in 0 .. Len(p), NEW m, m = RefRun(p)[k], m.at <= Len(p)
  PROVE  /\ k \in Nat /\ k + 1 \in 0 .. Len(p) /\ k + 1 > 0 /\ (k + 1) - 1 = k
         /\ RefRun(p)[k + 1] = Advanced(m, p[m.at])
         /\ WalkOK(p, m, k) /\ WalkOK(p, Advanced(m, p[m.at]), k + 1)
         /\ m.at \in 1 .. Len(p) /\ m.next \in Nat /\ m.next > m.at
<1>1. Len(p) \in Nat /\ k \in Nat
  BY DEF Good, ForwardProgram
<1>2. WalkOK(p, m, k)
  BY RunOK
<1>3. m.at \in 1 .. Len(p) /\ m.at > k /\ m.next \in Nat /\ m.next > m.at
  BY <1>1, <1>2 DEF WalkOK
<1>4. k + 1 \in 0 .. Len(p) /\ k + 1 > 0 /\ (k + 1) - 1 = k /\ k + 1 # 0
  BY <1>1, <1>3
<1>5. RefRun(p)[k + 1] = Follow(p, m)
  BY <1>1, <1>4, RefRunIs
<1>6. Follow(p, m) = Advanced(m, p[m.at])
  BY <1>1, <1>3 DEF Follow
<1>7. WalkOK(p, Advanced(m, p[m.at]), k + 1)
  BY <1>4, <1>5, <1>6, RunOK
<1> QED
  BY <1>1, <1>2, <1>3, <1>4, <1>5, <1>6, <1>7

(* Where an instruction that does not branch leaves the program.           *)
LEMMA StraightOn ==
  ASSUME NEW p, Good(p), NEW k \in 0 .. Len(p), NEW m, m = RefRun(p)[k], m.at <= Len(p),
         NEW n, n = Advanced(m, p[m.at]), n.next = m.next + 1,
         NEW d, d.pc = m.next, d.next_pc = m.next + 1, d.branch_taken = FALSE,
         d.ie = Open, d.load = NoLoad,
         d.delay.reg # Zero => d.delay.reg = n.loaded, Same(d, n)
  PROVE  InProgram(p, d, k + 1) /\ k + 1 \in 0 .. Len(p)
<1>1. Len(p) \in Nat
  BY DEF Good, ForwardProgram
<1>2. k + 1 \in 0 .. Len(p) /\ RefRun(p)[k + 1] = n /\ WalkOK(p, n, k + 1)
  BY Following
<1>3. n.at = m.next
  BY DEF Advanced
<1>4. n.at \in Nat /\ n.at <= Len(p) + 2
  BY <1>1, <1>2 DEF WalkOK
<1>5. Place(p, n, d.pc)
  BY <1>1, <1>3, <1>4 DEF Place
<1>6. Slot(p, d, k + 1) /\ d.branch_taken \in BOOLEAN
  BY <1>3, <1>4 DEF Slot
<1> QED
  BY <1>2, <1>3, <1>5, <1>6 DEF InProgram

(* A register that is not in flight holds what the program says.           *)
LEMMA ReadIs ==
  ASSUME NEW p, NEW k, NEW m, m = RefRun(p)[k], Proper(core), InProgram(p, core, k),
         NEW i, ~Advanced(m, i).hazard, NEW r \in UserRegs, r \in Reads(i)
  PROVE  core.regs[r] = m.regs[r]
<1>1. m.loaded \notin Reads(i) \ {Zero}
  BY DEF Advanced
<1>2. core.delay.reg # Zero => core.delay.reg = m.loaded
  BY DEF InProgram
<1>3. core.delay.reg = Zero \/ core.delay.reg # r
  BY <1>1, <1>2
<1>4. r \in RegNames /\ DOMAIN core.regs = RegNames
  BY DEF UserRegs, RegNames, Proper
<1>5. Land(core.regs, core.delay)[r] = core.regs[r]
  BY <1>3, <1>4, LandIs
<1> QED
  BY <1>5 DEF InProgram, Same

LEMMA MergeIs ==
  ASSUME NEW m, Proper(core), Same(core, m), NEW f, f.regs = core.regs, f.delay = core.delay,
         NEW r \in Registers, Disciplined
  PROVE  MergeBase(f, r) = m.regs[r]
<1>1. r \in RegNames /\ DOMAIN core.regs = RegNames /\ r # Zero /\ r \in UserRegs
  BY DEF UserRegs, RegNames, Proper, Disciplined
<1>2. Land(core.regs, core.delay)[r] = IF core.delay.reg # Zero /\ core.delay.reg = r
                                       THEN core.delay.value ELSE core.regs[r]
  BY <1>1, LandIs
<1> QED
  BY <1>1, <1>2 DEF MergeBase, Same

(* The step before the last thing it does: the fetch.                      *)
LEMMA Fetching ==
  ASSUME Good(prog), Proper(core), NEW k \in 0 .. Len(prog), InProgram(prog, core, k),
         NEW m, m = RefRun(prog)[k], m.at <= Len(prog), NEW f, f = Fetched
  PROVE  /\ Proper(f) /\ f.regs = core.regs /\ f.gte = core.gte
         /\ f.load = NoLoad /\ f.delay = core.delay
         /\ f.pc = m.next /\ f.next_pc = m.next + 1 /\ f.current_pc = m.at
         /\ f.branch_taken = FALSE /\ f.in_delay_slot = core.branch_taken
         /\ f.ie = Open /\ ~f.exception_pending
         /\ core.pc = m.at /\ ProgramWord(core.pc) = prog[m.at] /\ Same(core, m)
<1>1. Len(prog) \in Nat /\ m.at \in 1 .. Len(prog)
  BY Following DEF Good, ForwardProgram
<1>2. core.pc = m.at /\ core.next_pc = m.next /\ core.load = NoLoad /\ core.ie = Open /\ Same(core, m)
  BY <1>1 DEF InProgram, Place
<1>3. ProgramWord(core.pc) = prog[m.at]
  BY <1>1, <1>2, WordIs
<1> QED
  BY <1>2, <1>3, FetchedIs

(* A write to a register, and a load, as they retire.                      *)
(* A register written.                                                     *)
Wrote(regs, old, x, v) == regs = [old EXCEPT ![x] = v]

LEMMA WriteLands ==
  ASSUME NEW m, Proper(core), Same(core, m), DOMAIN m.regs = RegNames, Disciplined,
         NEW x \in Registers, NEW v, NEW regs, Wrote(regs, core.regs, x, v),
         NEW slot, core.delay.reg = x => slot = NoLoad, core.delay.reg # x => slot = core.delay,
         NEW landed, landed = Land(regs, slot)
  PROVE  \A r \in UserRegs : Land(landed, NoLoad)[r] = IF r = x THEN v ELSE m.regs[r]
<1>1. DOMAIN regs = RegNames /\ x # Zero /\ UserRegs \subseteq RegNames /\ x \in RegNames /\ DOMAIN core.regs = RegNames
  BY DEF Proper, Disciplined, RegNames, UserRegs, Wrote
<1>2. \A r \in RegNames : regs[r] = IF r = x THEN v ELSE core.regs[r]
  BY <1>1 DEF Wrote
<1>3. slot.reg # x /\ (slot.reg # Zero => slot = core.delay) /\ (core.delay.reg # x => slot = core.delay)
  BY <1>1, NoLoadIs
<1>4. /\ DOMAIN landed = RegNames
      /\ \A r \in RegNames : landed[r] = IF slot.reg # Zero /\ slot.reg = r THEN slot.value ELSE regs[r]
  <2> DEFINE w == slot
             g == regs
  <2>1. DOMAIN g = RegNames /\ landed = Land(g, w)
    BY <1>1
  <2> HIDE DEF w, g
  <2>2. /\ DOMAIN Land(g, w) = RegNames
        /\ \A r \in RegNames : Land(g, w)[r] = IF w.reg # Zero /\ w.reg = r THEN w.value ELSE g[r]
    BY <2>1, LandIs
  <2> QED
    BY <2>1, <2>2 DEF w, g
<1>5. Land(landed, NoLoad) = landed
  BY <1>4, LandIs, NoLoadIs
<1>7. \A r \in RegNames : Land(core.regs, core.delay)[r] = IF core.delay.reg # Zero /\ core.delay.reg = r
                                                           THEN core.delay.value ELSE core.regs[r]
  BY <1>1, LandIs
<1>8. ASSUME NEW r \in UserRegs PROVE landed[r] = IF r = x THEN v ELSE m.regs[r]
  <2>1. r \in RegNames /\ Land(core.regs, core.delay)[r] = m.regs[r]
    BY <1>1 DEF Same
  <2>2. CASE r = x
    BY <1>2, <1>3, <1>4, <2>1, <2>2
  <2>3. CASE r # x
    <3>1. landed[r] = Land(core.regs, core.delay)[r]
      BY <1>1, <1>2, <1>3, <1>4, <1>7, <2>1, <2>3
    <3> QED
      BY <2>1, <2>3, <3>1
  <2> QED
    BY <2>2, <2>3
<1> QED
  BY <1>5, <1>8

LEMMA LoadLands ==
  ASSUME NEW m, Proper(core), Same(core, m), DOMAIN m.regs = RegNames, Disciplined,
         NEW x \in Registers, NEW v,
         NEW d, d.regs = Land(core.regs, core.delay), d.delay = [reg |-> x, value |-> v]
  PROVE  \A r \in UserRegs : Land(d.regs, d.delay)[r] = [m.regs EXCEPT ![x] = v][r]
<1> DEFINE slot == d.delay
           regs == d.regs
<1>1. DOMAIN core.regs = RegNames /\ x # Zero /\ UserRegs \subseteq RegNames
  BY DEF Proper, Disciplined, RegNames, UserRegs
<1>2. DOMAIN regs = RegNames
  BY <1>1, LandIs
<1>3. slot.reg = x /\ slot.value = v
  OBVIOUS
<1>4. \A r \in UserRegs : regs[r] = m.regs[r]
  BY DEF Same
<1> HIDE DEF slot, regs
<1>5. \A r \in RegNames : Land(regs, slot)[r] = IF slot.reg # Zero /\ slot.reg = r THEN slot.value ELSE regs[r]
  BY <1>2, LandIs
<1>6. \A r \in UserRegs : Land(regs, slot)[r] = [m.regs EXCEPT ![x] = v][r]
  BY <1>1, <1>3, <1>4, <1>5
<1> QED
  BY <1>6 DEF slot, regs

LEMMA NothingLands ==
  ASSUME NEW m, Proper(core), Same(core, m),
         NEW d, d.regs = Land(core.regs, core.delay), d.delay = NoLoad
  PROVE  \A r \in UserRegs : Land(d.regs, d.delay)[r] = m.regs[r]
<1>1. DOMAIN core.regs = RegNames
  BY DEF Proper
<1>2. DOMAIN d.regs = RegNames
  BY <1>1, LandIs
<1>3. Land(d.regs, d.delay) = d.regs
  BY <1>2, LandIs, NoLoadIs
<1> QED
  BY <1>3 DEF Same

-----------------------------------------------------------------------------
(* The program's instructions, one by one: at k of the reference, in the   *)
(* state m, with the instruction i to run.                                 *)
AtWork(k, m, i) ==
  /\ Disciplined /\ Good(prog) /\ Proper(core) /\ k \in 0 .. Len(prog)
  /\ InProgram(prog, core, k) /\ m = RefRun(prog)[k] /\ m.at <= Len(prog)
  /\ i = prog[m.at] /\ ~Advanced(m, i).hazard

LEMMA CompletedIs ==
  ASSUME NEW e, e = Execute(Fetched, ProgramWord(core.pc))
  PROVE  /\ e.exception_pending => Completed = e
         /\ ~e.exception_pending => Completed = RetireLoadDelay(e)
BY DEF Completed

LEMMA Working ==
  ASSUME NEW k, NEW m, NEW i, AtWork(k, m, i)
  PROVE  /\ WalkOK(prog, m, k) /\ DOMAIN m.regs = RegNames /\ m.at \in 1 .. Len(prog)
         /\ k + 1 \in 0 .. Len(prog) /\ RefRun(prog)[k + 1] = Advanced(m, i)
         /\ WalkOK(prog, Advanced(m, i), k + 1) /\ i.op \in Opcodes
         /\ (i.op = "ADDIU" => i.d \in Registers /\ i.s \in UserRegs)
         /\ (i.op \in {"LW", "LWL", "LWR"} => i.d \in Registers)
         /\ (i.op = "BEQ" => i.s \in UserRegs /\ i.t \in UserRegs /\ m.at < Len(prog))
<1>1. /\ WalkOK(prog, m, k) /\ m.at \in 1 .. Len(prog)
      /\ k + 1 \in 0 .. Len(prog) /\ RefRun(prog)[k + 1] = Advanced(m, i)
      /\ WalkOK(prog, Advanced(m, i), k + 1)
  BY Following DEF AtWork
<1>2. DOMAIN m.regs = RegNames
  BY <1>1 DEF WalkOK
<1>3. i = prog[m.at] /\ Good(prog)
  BY DEF AtWork
<1> QED
  BY <1>1, <1>2, <1>3 DEF Good, ForwardProgram

(* An instruction that does not branch, once it has executed: e before it  *)
(* retires, d after.                                                       *)
Settles(e, d, n) == d.regs = Land(e.regs, e.delay) /\ d.delay = e.load
                      => \A r \in UserRegs : Land(d.regs, d.delay)[r] = n.regs[r]

Executed(f, e, i, m, n) ==
  /\ f = Fetched /\ e = Execute(f, i) /\ Proper(e) /\ SameControl(f, e)
  /\ n = Advanced(m, i) /\ n.next = m.next + 1 /\ e.gte = n.gte
  /\ e.load.reg # Zero => e.load.reg = n.loaded

LEMMA Straight ==
  ASSUME NEW k, NEW m, NEW i, AtWork(k, m, i), NEW n, NEW f, NEW e, Executed(f, e, i, m, n),
         NEW d, d = Completed, Settles(e, d, n)
  PROVE  Proper(d) /\ InProgram(prog, d, k + 1)
<1>1. /\ Good(prog) /\ Proper(core) /\ k \in 0 .. Len(prog) /\ InProgram(prog, core, k)
      /\ m = RefRun(prog)[k] /\ m.at <= Len(prog) /\ i = prog[m.at] /\ f = Fetched
  BY DEF AtWork, Executed
<1>2. /\ f.pc = m.next /\ f.next_pc = m.next + 1 /\ f.branch_taken = FALSE
      /\ f.ie = Open /\ ~f.exception_pending /\ ProgramWord(core.pc) = i
  BY <1>1, Fetching
<1>3. e = Execute(Fetched, i) /\ Proper(e) /\ SameControl(f, e) /\ e.gte = n.gte
      /\ (e.load.reg # Zero => e.load.reg = n.loaded)
  BY DEF Executed
<1>4. d = RetireLoadDelay(e)
  <2>1. ~e.exception_pending
    BY <1>2, <1>3 DEF SameControl
  <2> QED
    BY <1>2, <1>3, <2>1, CompletedIs
<1>5. /\ Proper(d) /\ d.regs = Land(e.regs, e.delay) /\ d.gte = e.gte
      /\ d.load = NoLoad /\ d.delay = e.load /\ SameControl(e, d)
  BY <1>3, <1>4, RetireIs
<1>6. Same(d, n)
  BY <1>3, <1>5 DEF Same, Settles
<1>7. d.pc = m.next /\ d.next_pc = m.next + 1 /\ d.branch_taken = FALSE /\ d.ie = Open
  BY <1>2, <1>3, <1>5 DEF SameControl
<1>8. d.delay.reg # Zero => d.delay.reg = n.loaded
  BY <1>3, <1>5
<1>9. n = Advanced(m, prog[m.at]) /\ n.next = m.next + 1
  BY <1>1 DEF Executed
<1>10. InProgram(prog, d, k + 1)
  BY <1>1, <1>5, <1>6, <1>7, <1>8, <1>9, StraightOn
<1> QED
  BY <1>5, <1>10

LEMMA AddiuStep ==
  ASSUME NEW k, NEW m, NEW i, AtWork(k, m, i), i.op = "ADDIU", NEW d, d = Completed
  PROVE  Proper(d) /\ InProgram(prog, d, k + 1)
<1> DEFINE n == Advanced(m, i)
           f == Fetched
           e == Execute(f, i)
           v == (core.regs[i.s] + 1) % 16
<1>1. /\ Disciplined /\ Good(prog) /\ Proper(core) /\ k \in 0 .. Len(prog) /\ InProgram(prog, core, k)
      /\ m = RefRun(prog)[k] /\ m.at <= Len(prog) /\ i = prog[m.at] /\ ~n.hazard
  BY DEF AtWork
<1>2. /\ DOMAIN m.regs = RegNames /\ i.d \in Registers /\ i.s \in UserRegs
  BY Working
<1>3. /\ Proper(f) /\ f.regs = core.regs /\ f.gte = core.gte
      /\ f.load = NoLoad /\ f.delay = core.delay /\ Same(core, m)
  BY <1>1, Fetching
<1>4. core.regs[i.s] = m.regs[i.s]
  BY <1>1, <1>2, ReadIs DEF Reads
<1>5. n.next = m.next + 1 /\ n.regs = [m.regs EXCEPT ![i.d] = v] /\ n.gte = m.gte
  BY <1>4 DEF Advanced, Meaning
<1>6. e = SetReg(f, i.d, v)
  BY <1>3 DEF Execute, Addiu
<1>7. i.d \in RegNames \ {Zero} /\ i.d # Zero
  BY <1>1, <1>2 DEF RegNames, Disciplined
<1> HIDE DEF n, f, e, v
<1>8. /\ Proper(e) /\ e.regs = [f.regs EXCEPT ![i.d] = v] /\ e.gte = f.gte
      /\ e.load = f.load /\ e.delay = IF f.delay.reg = i.d THEN NoLoad ELSE f.delay
      /\ SameControl(f, e)
  BY <1>3, <1>6, <1>7, SetRegIs
<1>9. e.gte = n.gte
  BY <1>3, <1>5, <1>8 DEF Same
<1>10. e.load.reg = Zero /\ e.load = NoLoad
  BY <1>3, <1>8, NoLoadIs
<1>11. Settles(e, d, n)
  <2> SUFFICES ASSUME d.regs = Land(e.regs, e.delay), d.delay = e.load
               PROVE  \A r \in UserRegs : Land(d.regs, d.delay)[r] = n.regs[r]
    BY DEF Settles
  <2>1. /\ e.regs = [core.regs EXCEPT ![i.d] = v] /\ d.delay = NoLoad
        /\ e.delay = IF core.delay.reg = i.d THEN NoLoad ELSE core.delay
    BY <1>3, <1>8, <1>10
  <2> DEFINE x == i.d
             g == e.regs
             w == e.delay
             l == d.regs
  <2>2. /\ x \in Registers /\ Wrote(g, core.regs, x, v) /\ l = Land(g, w)
        /\ (core.delay.reg = x => w = NoLoad) /\ (core.delay.reg # x => w = core.delay)
    BY <1>2, <2>1 DEF Wrote
  <2> HIDE DEF x, g, w, l
  <2>3. \A r \in UserRegs : Land(l, NoLoad)[r] = IF r = x THEN v ELSE m.regs[r]
    BY <1>1, <1>2, <1>3, <2>2, WriteLands
  <2>4. \A r \in UserRegs : r \in DOMAIN m.regs
    BY <1>2 DEF UserRegs, RegNames
  <2> QED
    BY <1>5, <2>1, <2>3, <2>4 DEF x, l
<1>12. Executed(f, e, i, m, n)
  BY <1>5, <1>8, <1>9, <1>10 DEF Executed, n, f, e
<1> QED
  BY <1>11, <1>12, Straight

(* The three loads.                                                        *)
LEMMA LoadingStep ==
  ASSUME NEW k, NEW m, NEW i, AtWork(k, m, i), i.op \in {"LW", "LWL", "LWR"}, NEW d, d = Completed
  PROVE  Proper(d) /\ InProgram(prog, d, k + 1)
<1> DEFINE n == Advanced(m, i)
           f == Fetched
           e == Execute(f, i)
           v == CASE i.op = "LW"  -> i.v
                  [] i.op = "LWL" -> 4 * i.v + Lo(m.regs[i.d])
                  [] i.op = "LWR" -> 4 * Hi(m.regs[i.d]) + i.v
           slot == [reg |-> i.d, value |-> v]
<1>1. /\ Disciplined /\ Good(prog) /\ Proper(core) /\ k \in 0 .. Len(prog) /\ InProgram(prog, core, k)
      /\ m = RefRun(prog)[k] /\ m.at <= Len(prog) /\ i = prog[m.at] /\ ~n.hazard
  BY DEF AtWork
<1>2. /\ DOMAIN m.regs = RegNames /\ i.d \in Registers
  BY Working
<1>3. /\ Proper(f) /\ f.regs = core.regs /\ f.gte = core.gte
      /\ f.load = NoLoad /\ f.delay = core.delay /\ Same(core, m)
  BY <1>1, Fetching
<1>4. MergeBase(f, i.d) = m.regs[i.d]
  BY <1>1, <1>2, <1>3, MergeIs
<1>5. n.next = m.next + 1 /\ n.gte = m.gte /\ n.loaded = i.d /\ n.regs = Meaning(m, i)
  BY DEF Advanced
<1>6. i.d \in RegNames /\ i.d # Zero /\ i.d \in DOMAIN m.regs
  BY <1>1, <1>2 DEF RegNames, Disciplined
<1>7. Meaning(m, i) = [m.regs EXCEPT ![i.d] = v]
  <2>1. CASE i.op = "LW"
    BY <2>1 DEF Meaning
  <2>2. CASE i.op = "LWL"
    BY <1>6, <2>2 DEF Meaning
  <2>3. CASE i.op = "LWR"
    BY <1>6, <2>3 DEF Meaning
  <2> QED
    BY <2>1, <2>2, <2>3
<1>8. e = Load(f, i.d, v)
  <2> HIDE DEF f
  <2>1. CASE i.op = "LW"
    BY <2>1 DEF Execute, LoadWord
  <2>2. CASE i.op = "LWL"
    BY <1>4, <2>2 DEF Execute, LoadWordLeft
  <2>3. CASE i.op = "LWR"
    BY <1>4, <2>3 DEF Execute, LoadWordRight
  <2> QED
    BY <2>1, <2>2, <2>3
<1> HIDE DEF n, f, e, v
<1>9. /\ Proper(e) /\ e.regs = f.regs /\ e.gte = f.gte /\ e.load = slot /\ e.delay = f.delay /\ SameControl(f, e)
  BY <1>3, <1>6, <1>8, LoadIs
<1>10. e.gte = n.gte /\ (e.load.reg # Zero => e.load.reg = n.loaded)
  BY <1>3, <1>5, <1>9 DEF Same
<1>11. Settles(e, d, n)
  <2> SUFFICES ASSUME d.regs = Land(e.regs, e.delay), d.delay = e.load
               PROVE  \A r \in UserRegs : Land(d.regs, d.delay)[r] = n.regs[r]
    BY DEF Settles
  <2>1. d.regs = Land(core.regs, core.delay) /\ d.delay = [reg |-> i.d, value |-> v]
    BY <1>3, <1>9
  <2> QED
    BY <1>1, <1>2, <1>3, <1>5, <1>7, <2>1, LoadLands
<1>12. Executed(f, e, i, m, n)
  BY <1>5, <1>9, <1>10 DEF Executed, n, f, e
<1> QED
  BY <1>11, <1>12, Straight

(* What neither writes a register nor branches.                            *)
Silent(f, e, m, n) == /\ e.regs = f.regs /\ e.load = f.load /\ e.delay = f.delay
                      /\ n.regs = m.regs

LEMMA QuietStep ==
  ASSUME NEW k, NEW m, NEW i, AtWork(k, m, i), NEW n, NEW f, NEW e, Executed(f, e, i, m, n),
         Silent(f, e, m, n), NEW d, d = Completed
  PROVE  Proper(d) /\ InProgram(prog, d, k + 1)
<1>1. /\ Good(prog) /\ Proper(core) /\ k \in 0 .. Len(prog) /\ InProgram(prog, core, k)
      /\ m = RefRun(prog)[k] /\ m.at <= Len(prog) /\ f = Fetched
  BY DEF AtWork, Executed
<1>2. f.regs = core.regs /\ f.load = NoLoad /\ f.delay = core.delay /\ Same(core, m)
  BY <1>1, Fetching
<1>3. e.regs = core.regs /\ e.load = NoLoad /\ e.delay = core.delay /\ n.regs = m.regs
  BY <1>2 DEF Silent
<1>4. Settles(e, d, n)
  <2> SUFFICES ASSUME d.regs = Land(e.regs, e.delay), d.delay = e.load
               PROVE  \A r \in UserRegs : Land(d.regs, d.delay)[r] = n.regs[r]
    BY DEF Settles
  <2>1. d.regs = Land(core.regs, core.delay) /\ d.delay = NoLoad
    BY <1>3
  <2> QED
    BY <1>1, <1>2, <1>3, <2>1, NothingLands
<1> QED
  BY <1>4, Straight

LEMMA GteStep ==
  ASSUME NEW k, NEW m, NEW i, AtWork(k, m, i), i.op = "COP2", NEW d, d = Completed
  PROVE  Proper(d) /\ InProgram(prog, d, k + 1)
<1> DEFINE n == Advanced(m, i)
           f == Fetched
           e == Execute(f, i)
<1>1. /\ Good(prog) /\ Proper(core) /\ k \in 0 .. Len(prog) /\ InProgram(prog, core, k)
      /\ m = RefRun(prog)[k] /\ m.at <= Len(prog)
  BY DEF AtWork
<1>2. Proper(f) /\ f.gte = m.gte
  BY <1>1, Fetching, ZenonT(60) DEF Same
<1>3. n.next = m.next + 1 /\ n.regs = m.regs /\ n.gte = (m.gte + 1) % 16
  BY DEF Advanced, Meaning
<1>4. e = GteOperation(f)
  BY DEF Execute
<1> HIDE DEF n, f, e
<1>5. /\ Proper(e) /\ e.regs = f.regs /\ e.gte = (f.gte + 1) % 16
      /\ e.load = f.load /\ e.delay = f.delay /\ SameControl(f, e)
  BY <1>2, <1>4, GteIs
<1>6. e.gte = n.gte
  BY <1>2, <1>3, <1>5
<1>7. n = Advanced(m, i) /\ f = Fetched /\ e = Execute(f, i)
  BY DEF n, f, e
<1>8. f.load.reg = Zero
  BY <1>1, Fetching, NoLoadIs DEF f
<1>9. Executed(f, e, i, m, n) /\ Silent(f, e, m, n)
  BY <1>3, <1>5, <1>6, <1>7, <1>8 DEF Executed, Silent
<1> QED
  BY <1>9, QuietStep

LEMMA NopStep ==
  ASSUME NEW k, NEW m, NEW i, AtWork(k, m, i), i.op = "NOP", NEW d, d = Completed
  PROVE  Proper(d) /\ InProgram(prog, d, k + 1)
<1> DEFINE n == Advanced(m, i)
           f == Fetched
<1>1. /\ Good(prog) /\ Proper(core) /\ k \in 0 .. Len(prog) /\ InProgram(prog, core, k)
      /\ m = RefRun(prog)[k] /\ m.at <= Len(prog)
  BY DEF AtWork
<1>2. Proper(f) /\ f.gte = m.gte
  BY <1>1, Fetching DEF Same
<1>3. n.next = m.next + 1 /\ n.regs = m.regs /\ n.gte = m.gte
  BY DEF Advanced, Meaning
<1>4. f = Execute(f, i) /\ SameControl(f, f)
  BY DEF Execute, SameControl
<1>5. n = Advanced(m, i) /\ f = Fetched
  OBVIOUS
<1>6. f.load.reg = Zero
  BY <1>1, Fetching, NoLoadIs
<1> HIDE DEF n, f
<1>7. Executed(f, f, i, m, n) /\ Silent(f, f, m, n)
  BY <1>2, <1>3, <1>4, <1>5, <1>6 DEF Executed, Silent
<1> QED
  BY <1>7, QuietStep

LEMMA BranchStep ==
  ASSUME NEW k, NEW m, NEW i, AtWork(k, m, i), i.op = "BEQ", NEW d, d = Completed
  PROVE  Proper(d) /\ InProgram(prog, d, k + 1)
<1> DEFINE n == Advanced(m, i)
           f == Fetched
           e == Execute(f, i)
           taken == m.regs[i.s] = m.regs[i.t]
<1>1. /\ Good(prog) /\ Proper(core) /\ k \in 0 .. Len(prog) /\ InProgram(prog, core, k)
      /\ m = RefRun(prog)[k] /\ m.at <= Len(prog) /\ i = prog[m.at] /\ ~n.hazard
  BY DEF AtWork
<1>2. /\ WalkOK(prog, m, k) /\ m.at \in 1 .. Len(prog) /\ m.at < Len(prog) /\ Len(prog) \in Nat
      /\ k + 1 \in 0 .. Len(prog) /\ RefRun(prog)[k + 1] = n /\ WalkOK(prog, n, k + 1)
      /\ i.s \in UserRegs /\ i.t \in UserRegs
  BY <1>1, Working DEF Good, ForwardProgram
<1>3. /\ Proper(f) /\ f.regs = core.regs /\ f.gte = core.gte
      /\ f.load = NoLoad /\ f.delay = core.delay /\ Same(core, m)
      /\ f.pc = m.next /\ f.next_pc = m.next + 1 /\ f.current_pc = m.at
      /\ f.ie = Open /\ ~f.exception_pending /\ ProgramWord(core.pc) = i
  BY <1>1, Fetching
<1>4. f.regs[i.s] = m.regs[i.s] /\ f.regs[i.t] = m.regs[i.t]
  BY <1>1, <1>2, <1>3, ReadIs DEF Reads
<1>5. e = IF taken THEN Jump(f, f.current_pc + 1 + i.off) ELSE f
  BY <1>4 DEF Execute, Branch
<1>6. /\ n.at = m.next /\ n.next = (IF taken THEN m.at + 1 + i.off ELSE m.next + 1)
      /\ n.regs = m.regs /\ n.gte = m.gte
  BY DEF Advanced, Meaning
<1>7. m.next = m.at + 1 /\ m.at + 1 <= Len(prog) /\ (m.at + 1) - 1 = m.at /\ m.at + 1 > 1
  <2>1. m.next = m.at + 1
    <3> SUFFICES ASSUME m.next # m.at + 1 PROVE FALSE
      OBVIOUS
    <3>1. m.at > 1 /\ m.at - 1 < Len(prog) /\ prog[m.at - 1].op = "BEQ"
      BY <1>2 DEF WalkOK
    <3>2. m.at - 1 \in 1 .. Len(prog) /\ (m.at - 1) + 1 = m.at
      BY <1>2, <3>1
    <3>3. prog[m.at].op # "BEQ"
      BY <1>1, <3>1, <3>2 DEF Good
    <3> QED
      BY <1>1, <3>3
  <2> QED
    BY <1>2, <2>1
<1>8. CASE ~taken
  <2>1. e = f /\ n.next = m.next + 1 /\ n = Advanced(m, i) /\ f = Fetched /\ e = Execute(f, i) /\ f.gte = n.gte
    BY <1>3, <1>5, <1>6, <1>8 DEF Same
  <2> HIDE DEF n, f, e, taken
  <2>2. SameControl(f, f) /\ f.load.reg = Zero
    BY <1>3, NoLoadIs DEF SameControl
  <2>3. Executed(f, f, i, m, n) /\ Silent(f, f, m, n)
    BY <1>3, <1>6, <2>1, <2>2 DEF Executed, Silent
  <2> QED
    BY <2>3, QuietStep
<1>9. CASE taken
  <2> DEFINE t == m.at + 1 + i.off
  <2>1. e = Jump(f, t) /\ n.next = t
    BY <1>3, <1>5, <1>6, <1>9
  <2>2. e = Execute(Fetched, ProgramWord(core.pc))
    BY <1>3
  <2> HIDE DEF n, f, e, t, taken
  <2>3. /\ Proper(e) /\ e.regs = f.regs /\ e.gte = f.gte
        /\ e.load = f.load /\ e.delay = f.delay /\ e.pc = f.pc /\ e.next_pc = n.next
        /\ e.branch_taken /\ e.branch_taken \in BOOLEAN /\ e.ie = f.ie /\ e.exception_pending = f.exception_pending
    <3>1. e = Jump(f, t) /\ Proper(f)
      BY <1>3, <2>1
    <3>2. /\ Proper(e) /\ e.regs = f.regs /\ e.gte = f.gte
          /\ e.load = f.load /\ e.delay = f.delay /\ e.pc = f.pc /\ e.next_pc = t
          /\ e.branch_taken /\ e.branch_taken \in BOOLEAN /\ e.ie = f.ie /\ e.exception_pending = f.exception_pending
      BY <3>1, JumpIs
    <3> QED
      BY <2>1, <3>2
  <2>4. d = RetireLoadDelay(e)
    BY <1>3, <2>2, <2>3, CompletedIs
  <2>5. /\ Proper(d) /\ d.regs = Land(e.regs, e.delay) /\ d.gte = e.gte
        /\ d.load = NoLoad /\ d.delay = e.load /\ SameControl(e, d)
    BY <2>3, <2>4, RetireIs
  <2>6. d.regs = Land(core.regs, core.delay) /\ d.delay = NoLoad /\ d.gte = m.gte
    BY <1>3, <2>3, <2>5 DEF Same
  <2>7. Same(d, n)
    BY <1>1, <1>3, <1>6, <2>6, NothingLands DEF Same
  <2>8. d.pc = m.at + 1 /\ d.next_pc = n.next /\ d.branch_taken /\ d.branch_taken \in BOOLEAN /\ d.ie = Open
    BY <1>3, <1>7, <2>3, <2>5 DEF SameControl
  <2>9. Place(prog, n, d.pc)
    BY <1>2, <1>6, <1>7, <2>8 DEF Place
  <2>10. Slot(prog, d, k + 1)
    <3>1. k + 1 > 0 /\ (k + 1) - 1 = k
      BY <1>1, <1>2
    <3>2. RefRun(prog)[(k + 1) - 1] = m
      BY <1>1, <3>1
    <3>3. m.at = d.pc - 1 /\ m.next = d.pc /\ d.pc > 1 /\ d.pc <= Len(prog) /\ prog[d.pc - 1].op = "BEQ"
      BY <1>1, <1>7, <2>8
    <3> QED
      BY <1>2, <1>6, <2>8, <3>1, <3>2, <3>3 DEF Slot
  <2>11. d.delay.reg = Zero
    BY <2>6, NoLoadIs
  <2>12. d.branch_taken \in BOOLEAN
    BY <2>8
  <2>13. InProgram(prog, d, k + 1)
    BY <1>2, <2>5, <2>7, <2>8, <2>9, <2>10, <2>11, <2>12 DEF InProgram
  <2> QED
    BY <2>5, <2>13
<1> QED
  BY <1>8, <1>9

(* An exception of the program's own: to the handler, which will go one on.*)
LEMMA TrapStep ==
  ASSUME NEW k, NEW m, NEW i, AtWork(k, m, i), i.op = "TRAP", NEW d, d = Completed
  PROVE  Proper(d) /\ InHandler(prog, d, k + 1)
<1> DEFINE n == Advanced(m, i)
           f == Fetched
           why == "TRAP"
           e == TakeException(f, why)
<1>1. /\ Good(prog) /\ Proper(core) /\ k \in 0 .. Len(prog) /\ InProgram(prog, core, k)
      /\ m = RefRun(prog)[k] /\ m.at <= Len(prog) /\ i = prog[m.at]
  BY DEF AtWork
<1>2. /\ WalkOK(prog, m, k) /\ m.at \in 1 .. Len(prog) /\ Len(prog) \in Nat
      /\ k + 1 \in 0 .. Len(prog) /\ RefRun(prog)[k + 1] = n /\ WalkOK(prog, n, k + 1)
  BY <1>1, Working DEF Good, ForwardProgram
<1>3. /\ Proper(f) /\ f.regs = core.regs /\ f.gte = core.gte
      /\ f.load = NoLoad /\ f.delay = core.delay /\ Same(core, m)
      /\ f.pc = m.next /\ f.next_pc = m.next + 1 /\ f.current_pc = m.at
      /\ f.in_delay_slot = core.branch_taken
      /\ f.ie = Open /\ ~f.exception_pending /\ ProgramWord(core.pc) = i /\ core.pc = m.at
  BY <1>1, Fetching, ZenonT(60)
<1>4. e = Execute(Fetched, ProgramWord(core.pc))
  BY <1>3 DEF Execute
<1>5. /\ n.at = m.next /\ n.next = m.next + 1 /\ n.regs = m.regs /\ n.gte = m.gte
  BY DEF Advanced, Meaning
<1>6. ~core.branch_taken
  <2> SUFFICES ASSUME core.branch_taken PROVE FALSE
    OBVIOUS
  <2>1. core.pc > 1 /\ core.pc <= Len(prog) /\ prog[core.pc - 1].op = "BEQ"
    BY <1>1 DEF InProgram, Slot
  <2>2. core.pc - 1 \in 1 .. Len(prog) /\ (core.pc - 1) + 1 = m.at
    BY <1>2, <1>3, <2>1
  <2>3. prog[m.at].op # "TRAP"
    BY <1>1, <2>1, <2>2 DEF Good
  <2> QED
    BY <1>1, <2>3
<1>7. m.next = m.at + 1
  BY <1>1, <1>2, <1>3, <1>6 DEF InProgram, Slot
<1> HIDE DEF n, f, e, why
<1>8. /\ Proper(e) /\ e.regs = Land(f.regs, f.delay) /\ e.gte = f.gte
      /\ e.load = NoLoad /\ e.delay = NoLoad /\ e.pc = Vector /\ e.next_pc = Vector + 1
      /\ e.epc = ReturnAddress(f) /\ e.cause.code = why
      /\ e.ie = Pushed(f.ie) /\ e.exception_pending
  <2>1. e = TakeException(f, why) /\ Proper(f) /\ f.load = NoLoad
    BY <1>3 DEF e
  <2> QED
    BY <2>1, TakeExceptionIs
<1>9. d = e
  BY <1>4, <1>8, CompletedIs
<1>10. Resume(d) = n.at /\ Resume(d) <= Len(prog) + 2
  BY <1>2, <1>3, <1>5, <1>6, <1>7, <1>8, <1>9 DEF Resume, ReturnAddress, why
<1>11. Same(d, n)
  BY <1>1, <1>3, <1>5, <1>8, <1>9, NothingLands DEF Same
<1>12. Place(prog, n, Resume(d))
  BY <1>2, <1>5, <1>7, <1>10 DEF Place
<1>13. d.ie = Shut
  BY <1>3, <1>8, <1>9, ModesIs
<1>14. Vector \in Nat /\ d.pc = Vector
  BY <1>8, <1>9 DEF Vector
<1>15. InHandler(prog, d, k + 1)
  BY <1>2, <1>5, <1>8, <1>9, <1>10, <1>11, <1>12, <1>13, <1>14 DEF InHandler
<1> QED
  BY <1>8, <1>9, <1>15

(* Past the end of the program nothing happens, until it halts.            *)
LEMMA IdleStep ==
  ASSUME Disciplined, Good(prog), Proper(core), NEW k \in 0 .. Len(prog), InProgram(prog, core, k),
         NEW m, m = RefRun(prog)[k], m.at > Len(prog), core.pc <= Len(prog) + 2, NEW d, d = Completed
  PROVE  Proper(d) /\ InProgram(prog, d, k)
<1> DEFINE f == Fetched
<1>1. Len(prog) \in Nat /\ WalkOK(prog, m, k) /\ m.at \in Nat /\ Vector \in Nat /\ Len(prog) + 3 < Vector
  BY RunOK DEF Good, ForwardProgram, WalkOK, Vector
<1>2. core.pc \in m.at .. Len(prog) + 3 /\ core.pc \in Nat /\ core.pc > Len(prog) /\ core.pc < Vector
  BY <1>1 DEF InProgram, Place
<1>3. ~core.branch_taken /\ core.next_pc = core.pc + 1 /\ core.load = NoLoad /\ core.ie = Open /\ Same(core, m)
  BY <1>2 DEF InProgram, Slot
<1>4. ProgramWord(core.pc) = NOP
  BY <1>1, <1>2, WordIs
<1>5. f = Execute(f, NOP)
  BY DEF Execute, NOP
<1>6. /\ Proper(f) /\ f.regs = core.regs /\ f.gte = core.gte
      /\ f.load = core.load /\ f.delay = core.delay
      /\ f.pc = core.next_pc /\ f.next_pc = core.next_pc + 1
      /\ f.branch_taken = FALSE /\ f.ie = core.ie /\ ~f.exception_pending
  BY FetchedIs
<1>7. d = RetireLoadDelay(f)
  BY <1>4, <1>5, <1>6, CompletedIs
<1> HIDE DEF f
<1>8. /\ Proper(d) /\ d.regs = Land(f.regs, f.delay) /\ d.gte = f.gte
      /\ d.load = NoLoad /\ d.delay = f.load /\ SameControl(f, d)
  BY <1>6, <1>7, RetireIs
<1>9. d.regs = Land(core.regs, core.delay) /\ d.delay = NoLoad /\ d.gte = core.gte
  BY <1>3, <1>6, <1>8
<1>10. Same(d, m)
  BY <1>3, <1>9, NothingLands DEF Same
<1>11. d.pc = core.pc + 1 /\ d.next_pc = d.pc + 1 /\ d.branch_taken = FALSE /\ d.ie = Open
  BY <1>3, <1>6, <1>8 DEF SameControl
<1>12. Place(prog, m, d.pc) /\ Slot(prog, d, k) /\ d.branch_taken \in BOOLEAN /\ ~(m.at <= Len(prog))
  <2>1. Place(prog, m, d.pc) /\ ~(m.at <= Len(prog))
    BY <1>1, <1>2, <1>11 DEF Place
  <2>2. Slot(prog, d, k) /\ d.branch_taken \in BOOLEAN
    BY <1>11 DEF Slot
  <2> QED
    BY <2>1, <2>2
<1>13. d.delay.reg = Zero
  BY <1>9, NoLoadIs
<1>14. InProgram(prog, d, k)
  BY <1>8, <1>10, <1>11, <1>12, <1>13 DEF InProgram
<1> QED
  BY <1>8, <1>14

(* An instruction of the program, whatever it is.                          *)
LEMMA ProgramStep ==
  ASSUME Disciplined, Good(prog), Proper(core), NEW k \in 0 .. Len(prog), InProgram(prog, core, k),
         ~RefRun(prog)[Len(prog)].hazard, core.pc <= Len(prog) + 2, NEW d, d = Completed
  PROVE  /\ Proper(d)
         /\ \E j \in 0 .. Len(prog) : InProgram(prog, d, j) \/ InHandler(prog, d, j)
<1> DEFINE m == RefRun(prog)[k]
           i == prog[m.at]
<1>1. Len(prog) \in Nat /\ WalkOK(prog, m, k)
  BY RunOK DEF Good, ForwardProgram
<1>2. m.at \in Nat
  BY <1>1 DEF WalkOK
<1>3. CASE m.at > Len(prog)
  <2>1. Proper(d) /\ InProgram(prog, d, k)
    BY <1>3, IdleStep
  <2> QED
    BY <2>1
<1>4. CASE m.at <= Len(prog)
  <2>1. k + 1 \in 0 .. Len(prog) /\ RefRun(prog)[k + 1] = Advanced(m, i)
    BY <1>4, Following
  <2>2. ~Advanced(m, i).hazard
    BY <2>1, HazardsStay
  <2>3. AtWork(k, m, i)
    BY <1>4, <2>2 DEF AtWork
  <2>4. i.op \in Opcodes
    BY <2>3, Working
  <2> HIDE DEF m, i
  <2>5. CASE i.op = "ADDIU"
    BY <2>1, <2>3, <2>5, AddiuStep
  <2>6. CASE i.op \in {"LW", "LWL", "LWR"}
    BY <2>1, <2>3, <2>6, LoadingStep
  <2>7. CASE i.op = "BEQ"
    BY <2>1, <2>3, <2>7, BranchStep
  <2>8. CASE i.op = "COP2"
    BY <2>1, <2>3, <2>8, GteStep
  <2>9. CASE i.op = "TRAP"
    BY <2>1, <2>3, <2>9, TrapStep
  <2>10. CASE i.op = "NOP"
    BY <2>1, <2>3, <2>10, NopStep
  <2> QED
    BY <2>4, <2>5, <2>6, <2>7, <2>8, <2>9, <2>10 DEF Opcodes
<1> QED
  BY <1>1, <1>2, <1>3, <1>4

(* An interrupt: back to here, or to the branch if this is its slot.       *)
LEMMA InterruptStep ==
  ASSUME Disciplined, Good(prog), Proper(core), NEW k \in 0 .. Len(prog), InProgram(prog, core, k),
         core.pc <= Len(prog) + 2, NEW d, d = TakeException(Begun, "INT")
  PROVE  Proper(d) /\ \E j \in 0 .. Len(prog) : InHandler(prog, d, j)
<1> DEFINE m == RefRun(prog)[k]
           b == Begun
           why == "INT"
<1>1. /\ Len(prog) \in Nat /\ WalkOK(prog, m, k) /\ m.at \in Nat /\ m.at >= 1
      /\ Vector \in Nat /\ Len(prog) + 3 < Vector
  BY RunOK DEF Good, ForwardProgram, WalkOK, Vector
<1>2. core.pc \in Nat /\ core.pc >= m.at /\ core.pc <= Len(prog) + 3 /\ (m.at <= Len(prog) => core.pc = m.at)
  BY <1>1 DEF InProgram, Place
<1>3. /\ core.load = NoLoad /\ core.ie = Open /\ Same(core, m) /\ Slot(prog, core, k)
      /\ (m.at <= Len(prog) => core.next_pc = m.next)
  BY DEF InProgram
<1>4. /\ Proper(b) /\ b.regs = core.regs /\ b.gte = core.gte
      /\ b.load = core.load /\ b.delay = core.delay /\ b.current_pc = core.pc
      /\ b.in_delay_slot = core.branch_taken /\ b.ie = core.ie
  BY BegunIs
<1>5. d = TakeException(b, why) /\ b.load = NoLoad
  BY <1>3, <1>4
<1>6. why # "TRAP"
  OBVIOUS
<1> HIDE DEF b, why
<1>7. /\ Proper(d) /\ d.regs = Land(b.regs, b.delay) /\ d.gte = b.gte
      /\ d.load = NoLoad /\ d.delay = NoLoad
      /\ d.pc = Vector /\ d.next_pc = Vector + 1
      /\ d.epc = ReturnAddress(b) /\ d.cause.code = why
      /\ d.ie = Pushed(b.ie)
  BY <1>4, <1>5, TakeExceptionIs
<1>8. d.ie = Shut
  BY <1>3, <1>4, <1>7, ModesIs
<1>9. Resume(d) = IF core.branch_taken THEN core.pc - 1 ELSE core.pc
  BY <1>4, <1>6, <1>7 DEF Resume, ReturnAddress
<1>10. Same(d, m)
  <2>1. d.regs = Land(core.regs, core.delay) /\ d.delay = NoLoad /\ d.gte = core.gte
    BY <1>4, <1>7
  <2> QED
    BY <1>3, <2>1, NothingLands DEF Same
<1> HIDE DEF m
<1>11. ASSUME NEW j \in 0 .. Len(prog), NEW n, n = RefRun(prog)[j], Place(prog, n, Resume(d)),
             Resume(d) <= Len(prog) + 2, n.next = n.at + 1, Same(d, n)
       PROVE  InHandler(prog, d, j)
  <2>1. Vector \in Vector .. Vector + 4 /\ Vector # Vector + 4 /\ Vector # Vector + 1
        /\ Vector # Vector + 2 /\ Vector # Vector + 3
    BY <1>1
  <2> QED
    BY <1>7, <1>8, <1>11, <2>1 DEF InHandler
<1>12. CASE core.branch_taken
  <2> DEFINE n == RefRun(prog)[k - 1]
  <2>1. /\ k > 0 /\ core.pc > 1 /\ core.pc <= Len(prog)
        /\ n.at = core.pc - 1 /\ n.next = core.pc
        /\ n.regs = m.regs /\ n.gte = m.gte
    BY <1>3, <1>12 DEF Slot, m
  <2>2. k - 1 \in 0 .. Len(prog)
    BY <1>1, <2>1
  <2>3. Same(d, n)
    BY <1>10, <2>1 DEF Same
  <2>4. Resume(d) = n.at /\ n.next = n.at + 1 /\ Resume(d) <= Len(prog) + 2 /\ ~(n.at > Len(prog))
    BY <1>1, <1>2, <1>9, <1>12, <2>1
  <2>5. Place(prog, n, Resume(d))
    BY <2>4 DEF Place
  <2>6. InHandler(prog, d, k - 1)
    BY <1>11, <2>2, <2>3, <2>4, <2>5
  <2> QED
    BY <1>7, <2>2, <2>6
<1>13. CASE ~core.branch_taken
  <2>1. core.next_pc = core.pc + 1 /\ Resume(d) = core.pc
    BY <1>3, <1>9, <1>13 DEF Slot
  <2>2. m.next = m.at + 1
    <3>1. CASE m.at <= Len(prog)
      BY <1>2, <1>3, <2>1, <3>1
    <3>2. CASE m.at > Len(prog)
      BY <1>1, <3>2 DEF WalkOK
    <3> QED
      BY <1>1, <3>1, <3>2
  <2>3. Place(prog, m, Resume(d))
    BY <1>1, <1>2, <2>1 DEF Place
  <2>4. InHandler(prog, d, k)
    BY <1>10, <1>11, <2>1, <2>2, <2>3 DEF m
  <2> QED
    BY <1>7, <2>4
<1> QED
  BY <1>12, <1>13

-----------------------------------------------------------------------------
(* The handler, instruction by instruction.                                *)
AtHandler(k, m, f) ==
  /\ Disciplined /\ Good(prog) /\ Proper(core) /\ k \in 0 .. Len(prog)
  /\ InHandler(prog, core, k) /\ m = RefRun(prog)[k] /\ f = Fetched

LEMMA Handling ==
  ASSUME NEW k, NEW m, NEW f, AtHandler(k, m, f)
  PROVE  /\ Proper(f) /\ f.regs = core.regs /\ f.gte = core.gte /\ f.load = NoLoad /\ f.delay = core.delay
         /\ f.pc = core.next_pc /\ f.next_pc = core.next_pc + 1
         /\ f.cause = core.cause /\ f.epc = core.epc /\ f.ie = Shut
         /\ ~f.branch_taken /\ f.branch_taken \in BOOLEAN /\ ~f.exception_pending
         /\ core.pc \in Vector .. Vector + 4 /\ Vector \in Nat
         /\ core.pc = Vector     => ProgramWord(core.pc).op = "MFC0"
         /\ core.pc = Vector + 1 => ProgramWord(core.pc).op = "ACK"
         /\ core.pc = Vector + 2 => ProgramWord(core.pc).op = "SKIP"
         /\ core.pc = Vector + 3 => ProgramWord(core.pc).op = "JR"
         /\ core.pc = Vector + 4 => ProgramWord(core.pc).op = "RFE"
         /\ Same(core, m)
<1>1. Proper(core) /\ f = Fetched /\ InHandler(prog, core, k) /\ Good(prog) /\ m = RefRun(prog)[k]
  BY DEF AtHandler
<1>2. core.load = NoLoad /\ core.ie = Shut /\ core.pc \in Vector .. Vector + 4 /\ Vector \in Nat /\ Same(core, m)
  BY <1>1 DEF InHandler, Vector
<1>3. core.pc \in Nat
  BY <1>2
<1> HIDE DEF Vector
<1>4. /\ core.pc = Vector     => ProgramWord(core.pc).op = "MFC0"
      /\ core.pc = Vector + 1 => ProgramWord(core.pc).op = "ACK"
      /\ core.pc = Vector + 2 => ProgramWord(core.pc).op = "SKIP"
      /\ core.pc = Vector + 3 => ProgramWord(core.pc).op = "JR"
      /\ core.pc = Vector + 4 => ProgramWord(core.pc).op = "RFE"
  BY <1>1, <1>3, WordIs
<1>5. /\ Proper(f) /\ f.regs = core.regs /\ f.gte = core.gte /\ f.load = core.load /\ f.delay = core.delay
      /\ f.pc = core.next_pc /\ f.next_pc = core.next_pc + 1
      /\ f.cause = core.cause /\ f.epc = core.epc /\ f.ie = core.ie
      /\ ~f.branch_taken /\ f.branch_taken \in BOOLEAN /\ ~f.exception_pending
  BY <1>1, FetchedIs
<1> QED
  BY <1>2, <1>4, <1>5

(* K0 is not the program's.                                                *)
LEMMA K0Apart ==
  ASSUME NEW m, Disciplined, NEW old, DOMAIN old = RegNames, \A r \in UserRegs : old[r] = m.regs[r],
         NEW slot, slot.reg \in {"k0", Zero}
  PROVE  \A r \in UserRegs : Land(old, slot)[r] = m.regs[r]
<1>1. \A r \in UserRegs : r \in RegNames /\ r # "k0"
  BY DEF Disciplined, UserRegs, RegNames
<1>2. \A r \in UserRegs : Land(old, slot)[r] = old[r]
  BY <1>1, LandIs
<1> QED
  BY <1>2

(* The registers of the program are the reference's when nothing of its    *)
(* own is in flight.                                                       *)
LEMMA HandlerRegs ==
  ASSUME NEW k, NEW m, NEW f, AtHandler(k, m, f)
  PROVE  \A r \in UserRegs : core.regs[r] = m.regs[r]
<1>1. /\ Disciplined /\ Proper(core) /\ InHandler(prog, core, k) /\ m = RefRun(prog)[k]
  BY DEF AtHandler
<1>2. core.delay.reg \in {"k0", Zero} /\ Same(core, m)
  BY <1>1, NoLoadIs DEF InHandler
<1>3. \A r \in UserRegs : r \in RegNames /\ r # "k0"
  BY <1>1 DEF Disciplined, UserRegs, RegNames
<1>4. \A r \in UserRegs : Land(core.regs, core.delay)[r] = core.regs[r]
  <2> DEFINE regs == core.regs
             slot == core.delay
  <2>1. DOMAIN regs = RegNames /\ slot.reg \in {"k0", Zero}
    BY <1>1, <1>2 DEF Proper
  <2> HIDE DEF regs, slot
  <2>2. \A r \in UserRegs : Land(regs, slot)[r] = regs[r]
    BY <1>3, <2>1, LandIs
  <2> QED
    BY <2>2 DEF regs, slot
<1> QED
  BY <1>2, <1>4 DEF Same

(* From one instruction of the handler to the next: e before it retires.   *)
Onwards(k, m, f, e) ==
  /\ AtHandler(k, m, f) /\ e = Execute(f, ProgramWord(core.pc))
  /\ Proper(e) /\ e.gte = f.gte /\ e.epc = f.epc /\ e.cause = f.cause
  /\ ~e.exception_pending /\ e.delay = f.delay
  /\ \A r \in UserRegs : e.regs[r] = m.regs[r]

LEMMA HandlerOn ==
  ASSUME NEW k, NEW m, NEW f, NEW e, Onwards(k, m, f, e), NEW d, d = Completed
  PROVE  /\ d = RetireLoadDelay(e) /\ Proper(d) /\ d.regs = Land(e.regs, e.delay) /\ d.gte = m.gte
         /\ d.load = NoLoad /\ d.delay = e.load /\ SameControl(e, d) /\ Resume(d) = Resume(core)
         /\ d.epc = core.epc
         /\ (e.load.reg \in {"k0", Zero} => Same(d, m))
<1>1. /\ Disciplined /\ Proper(core) /\ InHandler(prog, core, k) /\ m = RefRun(prog)[k] /\ f = Fetched
      /\ e = Execute(Fetched, ProgramWord(core.pc)) /\ AtHandler(k, m, f)
      /\ Proper(e) /\ e.gte = f.gte /\ e.epc = f.epc /\ e.cause = f.cause /\ ~e.exception_pending
      /\ e.delay = f.delay
  BY DEF Onwards, AtHandler
<1>2. d = RetireLoadDelay(e)
  BY <1>1, CompletedIs
<1>3. /\ Proper(d) /\ d.regs = Land(e.regs, e.delay) /\ d.gte = e.gte
      /\ d.load = NoLoad /\ d.delay = e.load /\ SameControl(e, d)
  BY <1>1, <1>2, RetireIs
<1>4. f.epc = core.epc /\ f.cause = core.cause /\ f.gte = core.gte /\ f.delay = core.delay /\ Same(core, m)
  BY <1>1, Handling
<1>5. Resume(d) = Resume(core) /\ d.gte = m.gte /\ d.epc = core.epc
  BY <1>1, <1>3, <1>4 DEF Resume, SameControl, Same
<1>6. ASSUME e.load.reg \in {"k0", Zero} PROVE Same(d, m)
  <2>1. core.delay.reg \in {"k0", Zero}
    BY <1>1, NoLoadIs DEF InHandler
  <2>2. e.delay.reg \in {"k0", Zero}
    BY <1>1, <1>4, <2>1
  <2>3. DOMAIN e.regs = RegNames /\ \A r \in UserRegs : e.regs[r] = m.regs[r]
    BY <1>1 DEF Onwards, Proper
  <2>4. \A r \in UserRegs : Land(e.regs, e.delay)[r] = m.regs[r]
    BY <1>1, <2>2, <2>3, K0Apart
  <2>5. DOMAIN d.regs = RegNames /\ (\A r \in UserRegs : d.regs[r] = m.regs[r]) /\ d.delay.reg \in {"k0", Zero}
    BY <1>3, <1>6, <2>4 DEF Proper
  <2>6. \A r \in UserRegs : Land(d.regs, d.delay)[r] = m.regs[r]
    <3> DEFINE regs == d.regs
               slot == d.delay
    <3>1. /\ DOMAIN regs = RegNames /\ (\A r \in UserRegs : regs[r] = m.regs[r]) /\ slot.reg \in {"k0", Zero}
      BY <2>5
    <3> HIDE DEF regs, slot
    <3>2. \A r \in UserRegs : Land(regs, slot)[r] = m.regs[r]
      BY <1>1, <3>1, K0Apart
    <3> QED
      BY <3>2 DEF regs, slot
  <2> QED
    BY <1>5, <2>6 DEF Same
<1> QED
  BY <1>2, <1>3, <1>5, <1>6

LEMMA MoveStep ==
  ASSUME NEW k, NEW m, NEW f, AtHandler(k, m, f), core.pc = Vector, NEW d, d = Completed
  PROVE  Proper(d) /\ InHandler(prog, d, k)
<1> DEFINE w == ProgramWord(core.pc)
           e == Execute(f, w)
           k0 == "k0"
<1>1. /\ Disciplined /\ InHandler(prog, core, k) /\ m = RefRun(prog)[k]
  BY DEF AtHandler
<1>2. /\ Proper(f) /\ f.regs = core.regs /\ f.gte = core.gte /\ f.load = NoLoad /\ f.delay = core.delay
      /\ f.pc = core.next_pc /\ f.next_pc = core.next_pc + 1 /\ f.epc = core.epc /\ f.ie = Shut
      /\ ~f.exception_pending /\ Vector \in Nat /\ w.op = "MFC0"
  BY Handling
<1>3. core.next_pc = Vector + 1 /\ core.delay = NoLoad
  BY <1>1, <1>2 DEF InHandler
<1>4. e = Load(f, k0, core.epc) /\ k0 \in RegNames
  <2> HIDE DEF w
  <2> QED
    BY <1>2 DEF Execute, MoveFromEpc, RegNames
<1> HIDE DEF w, e, k0
<1>5. /\ Proper(e) /\ e.regs = f.regs /\ e.gte = f.gte /\ e.load = [reg |-> k0, value |-> core.epc]
      /\ e.delay = f.delay /\ SameControl(f, e)
  BY <1>2, <1>4, LoadIs
<1>6. Onwards(k, m, f, e)
  <2>1. ~e.exception_pending /\ e.epc = f.epc /\ e.cause = f.cause
    BY <1>2, <1>5 DEF SameControl
  <2>2. \A r \in UserRegs : e.regs[r] = m.regs[r]
    BY <1>2, <1>5, HandlerRegs
  <2> QED
    BY <1>5, <2>1, <2>2 DEF Onwards, e, w
<1>7. e.load.reg \in {"k0", Zero}
  BY <1>5 DEF k0
<1>8. /\ Proper(d) /\ d.load = NoLoad /\ d.delay = e.load /\ SameControl(e, d) /\ Resume(d) = Resume(core)
      /\ d.epc = core.epc /\ Same(d, m)
  BY <1>6, <1>7, HandlerOn
<1>9. d.pc = Vector + 1 /\ d.next_pc = Vector + 2 /\ d.ie = Shut
  BY <1>2, <1>3, <1>5, <1>8 DEF SameControl
<1>10. d.delay = [reg |-> "k0", value |-> d.epc]
  BY <1>5, <1>8 DEF k0
<1>11. InHandler(prog, d, k)
  BY <1>1, <1>2, <1>8, <1>9, <1>10 DEF InHandler
<1> QED
  BY <1>8, <1>11

LEMMA AckStep ==
  ASSUME NEW k, NEW m, NEW f, AtHandler(k, m, f), core.pc = Vector + 1, NEW d, d = Completed
  PROVE  Proper(d) /\ InHandler(prog, d, k)
<1> DEFINE w == ProgramWord(core.pc)
<1>1. /\ Disciplined /\ InHandler(prog, core, k) /\ m = RefRun(prog)[k] /\ Proper(core)
  BY DEF AtHandler
<1>2. /\ Proper(f) /\ f.regs = core.regs /\ f.load = NoLoad /\ f.delay = core.delay
      /\ f.pc = core.next_pc /\ f.next_pc = core.next_pc + 1 /\ f.epc = core.epc /\ f.ie = Shut
      /\ ~f.exception_pending /\ Vector \in Nat /\ w.op = "ACK"
  BY Handling
<1>3. core.next_pc = Vector + 2 /\ core.delay = [reg |-> "k0", value |-> core.epc]
  BY <1>1, <1>2 DEF InHandler
<1>4. f = Execute(f, w)
  <2> HIDE DEF w
  <2> QED
    BY <1>2 DEF Execute
<1> HIDE DEF w
<1>5. Onwards(k, m, f, f)
  <2>1. \A r \in UserRegs : f.regs[r] = m.regs[r]
    BY <1>2, HandlerRegs
  <2> QED
    BY <1>2, <1>4, <2>1 DEF Onwards, w
<1>6. f.load.reg \in {"k0", Zero}
  BY <1>2, NoLoadIs
<1>7. /\ Proper(d) /\ d.regs = Land(f.regs, f.delay) /\ d.load = NoLoad /\ d.delay = f.load
      /\ SameControl(f, d) /\ Resume(d) = Resume(core) /\ d.epc = core.epc /\ Same(d, m)
  BY <1>5, <1>6, HandlerOn
<1>8. d.pc = Vector + 2 /\ d.next_pc = Vector + 3 /\ d.ie = Shut
  BY <1>2, <1>3, <1>7 DEF SameControl
<1>9. d.regs["k0"] = d.epc
  <2> DEFINE slot == core.delay
             regs == core.regs
             x == "k0"
  <2>1. slot.reg = x /\ slot.value = core.epc /\ x # Zero /\ x \in RegNames /\ DOMAIN regs = RegNames
    BY <1>1, <1>3 DEF Zero, RegNames, Proper
  <2>2. d.regs = Land(regs, slot)
    BY <1>2, <1>7
  <2> HIDE DEF slot, regs, x
  <2>3. Land(regs, slot)[x] = slot.value
    <3>1. DOMAIN regs = RegNames
      BY <2>1
    <3>2. \A r \in RegNames : Land(regs, slot)[r] = IF slot.reg # Zero /\ slot.reg = r
                                                      THEN slot.value ELSE regs[r]
      BY <3>1, LandIs
    <3> QED
      BY <2>1, <3>2
  <2> QED
    BY <1>7, <2>1, <2>2, <2>3 DEF x
<1>10. InHandler(prog, d, k)
  BY <1>1, <1>2, <1>7, <1>8, <1>9 DEF InHandler
<1> QED
  BY <1>7, <1>10

LEMMA SkipStep ==
  ASSUME NEW k, NEW m, NEW f, AtHandler(k, m, f), core.pc = Vector + 2, NEW d, d = Completed
  PROVE  Proper(d) /\ InHandler(prog, d, k)
<1> DEFINE w == ProgramWord(core.pc)
           e == Execute(f, w)
<1>1. /\ Disciplined /\ InHandler(prog, core, k) /\ m = RefRun(prog)[k] /\ Proper(core)
  BY DEF AtHandler
<1>2. /\ Proper(f) /\ f.regs = core.regs /\ f.gte = core.gte /\ f.load = NoLoad /\ f.delay = core.delay
      /\ f.pc = core.next_pc /\ f.next_pc = core.next_pc + 1 /\ f.epc = core.epc /\ f.ie = Shut
      /\ f.cause = core.cause /\ ~f.exception_pending /\ Vector \in Nat /\ w.op = "SKIP"
  BY Handling
<1>3. core.next_pc = Vector + 3 /\ core.delay = NoLoad /\ core.regs["k0"] = core.epc
  BY <1>1, <1>2 DEF InHandler
<1>4. "k0" # Zero /\ "k0" \in RegNames \ {Zero} /\ "k0" \in DOMAIN f.regs /\ \A r \in UserRegs : r # "k0" /\ r \in RegNames
  BY <1>1, <1>2 DEF Zero, RegNames, Proper, Disciplined, UserRegs
<1>5. /\ Proper(e) /\ e.gte = f.gte /\ e.load = f.load /\ e.delay = f.delay /\ SameControl(f, e)
      /\ (\A r \in UserRegs : e.regs[r] = f.regs[r]) /\ e.regs["k0"] = Resume(core)
  <2>1. CASE core.cause.code = "TRAP"
    <3> DEFINE x == "k0"
               v == f.regs[x] + 1
    <3>1. e = SetReg(f, x, v) /\ x \in RegNames \ {Zero}
      <4> HIDE DEF w
      <4> QED
        BY <1>2, <1>4, <2>1 DEF Execute
    <3>2. v = Resume(core)
      BY <1>2, <1>3, <2>1 DEF Resume
    <3>3. f.delay.reg # x
      BY <1>2, <1>3, <1>4, NoLoadIs
    <3>4. x \in DOMAIN f.regs /\ \A r \in UserRegs : r # x /\ r \in DOMAIN f.regs
      BY <1>2, <1>4 DEF Proper
    <3> HIDE DEF w, e, x, v
    <3>5. /\ Proper(e) /\ e.regs = [f.regs EXCEPT ![x] = v] /\ e.gte = f.gte
          /\ e.load = f.load /\ e.delay = IF f.delay.reg = x THEN NoLoad ELSE f.delay
          /\ SameControl(f, e)
      BY <1>2, <3>1, SetRegIs
    <3>6. e.regs[x] = v /\ \A r \in UserRegs : e.regs[r] = f.regs[r]
      BY <3>4, <3>5
    <3> QED
      BY <3>2, <3>3, <3>5, <3>6 DEF x
  <2>2. CASE core.cause.code # "TRAP"
    <3>1. e = f
      <4> HIDE DEF w
      <4> QED
        BY <1>2, <2>2 DEF Execute
    <3>2. Resume(core) = core.epc
      BY <2>2 DEF Resume
    <3>3. SameControl(f, f)
      BY DEF SameControl
    <3> HIDE DEF e
    <3> QED
      BY <1>2, <1>3, <3>1, <3>2, <3>3
  <2> QED
    BY <2>1, <2>2
<1> HIDE DEF w, e
<1>6. Onwards(k, m, f, e)
  <2>1. ~e.exception_pending /\ e.epc = f.epc /\ e.cause = f.cause
    BY <1>2, <1>5 DEF SameControl
  <2>2. \A r \in UserRegs : e.regs[r] = m.regs[r]
    BY <1>2, <1>5, HandlerRegs
  <2> QED
    BY <1>5, <2>1, <2>2 DEF Onwards, e, w
<1>7. e.load.reg \in {"k0", Zero}
  BY <1>2, <1>5, NoLoadIs
<1>8. /\ Proper(d) /\ d.regs = Land(e.regs, e.delay) /\ d.load = NoLoad /\ d.delay = e.load /\ SameControl(e, d)
      /\ Resume(d) = Resume(core) /\ d.epc = core.epc /\ Same(d, m)
  BY <1>6, <1>7, HandlerOn
<1>9. d.pc = Vector + 3 /\ d.next_pc = Vector + 4 /\ d.ie = Shut
  BY <1>2, <1>3, <1>5, <1>8 DEF SameControl
<1>10. d.regs["k0"] = Resume(d)
  <2>1. e.delay.reg = Zero /\ DOMAIN e.regs = RegNames
    BY <1>2, <1>3, <1>5, NoLoadIs DEF Proper
  <2>2. d.regs = e.regs
    BY <1>8, <2>1, LandIs
  <2> QED
    BY <1>5, <1>8, <2>2
<1>11. InHandler(prog, d, k)
  BY <1>1, <1>2, <1>5, <1>8, <1>9, <1>10 DEF InHandler
<1> QED
  BY <1>8, <1>11

LEMMA JumpStep ==
  ASSUME NEW k, NEW m, NEW f, AtHandler(k, m, f), core.pc = Vector + 3, NEW d, d = Completed
  PROVE  Proper(d) /\ InHandler(prog, d, k)
<1> DEFINE w == ProgramWord(core.pc)
           e == Execute(f, w)
           t == Resume(core)
<1>1. /\ Disciplined /\ InHandler(prog, core, k) /\ m = RefRun(prog)[k] /\ Proper(core)
  BY DEF AtHandler
<1>2. /\ Proper(f) /\ f.regs = core.regs /\ f.gte = core.gte /\ f.load = NoLoad /\ f.delay = core.delay
      /\ f.pc = core.next_pc /\ f.epc = core.epc /\ f.ie = Shut
      /\ f.cause = core.cause /\ ~f.exception_pending /\ Vector \in Nat /\ w.op = "JR"
  BY Handling
<1>3. core.next_pc = Vector + 4 /\ core.delay = NoLoad /\ core.regs["k0"] = t
  BY <1>1, <1>2 DEF InHandler
<1>4. e = Jump(f, t)
  <2> HIDE DEF w
  <2> QED
    BY <1>2, <1>3 DEF Execute, JumpRegister
<1> HIDE DEF w, e, t
<1>5. /\ Proper(e) /\ e.regs = f.regs /\ e.gte = f.gte
      /\ e.load = f.load /\ e.delay = f.delay /\ e.pc = f.pc /\ e.next_pc = t
      /\ e.ie = f.ie /\ e.cause = f.cause /\ e.epc = f.epc /\ e.exception_pending = f.exception_pending
  BY <1>2, <1>4, JumpIs
<1>6. Onwards(k, m, f, e)
  <2>1. \A r \in UserRegs : e.regs[r] = m.regs[r]
    BY <1>2, <1>5, HandlerRegs
  <2>2. ~e.exception_pending
    BY <1>2, <1>5
  <2> QED
    BY <1>5, <2>1, <2>2 DEF Onwards, e, w
<1>7. e.load.reg \in {"k0", Zero}
  BY <1>2, <1>5, NoLoadIs
<1>8. /\ Proper(d) /\ d.load = NoLoad /\ d.delay = e.load /\ SameControl(e, d)
      /\ Resume(d) = t /\ Same(d, m)
  BY <1>6, <1>7, HandlerOn DEF t
<1>9. d.pc = Vector + 4 /\ d.next_pc = Resume(d) /\ d.ie = Shut /\ d.delay = NoLoad
  BY <1>2, <1>3, <1>5, <1>8 DEF SameControl
<1>10. InHandler(prog, d, k)
  BY <1>1, <1>2, <1>8, <1>9 DEF InHandler, t
<1> QED
  BY <1>8, <1>10

(* Back in the program.                                                    *)
LEMMA ReturnStep ==
  ASSUME NEW k, NEW m, NEW f, AtHandler(k, m, f), core.pc = Vector + 4, NEW d, d = Completed
  PROVE  Proper(d) /\ InProgram(prog, d, k)
<1> DEFINE w == ProgramWord(core.pc)
           e == Execute(f, w)
           t == Resume(core)
<1>1. /\ Disciplined /\ InHandler(prog, core, k) /\ m = RefRun(prog)[k] /\ Proper(core)
      /\ k \in 0 .. Len(prog) /\ Good(prog)
  BY DEF AtHandler
<1>2. /\ Proper(f) /\ f.regs = core.regs /\ f.gte = core.gte /\ f.load = NoLoad /\ f.delay = core.delay
      /\ f.pc = core.next_pc /\ f.next_pc = core.next_pc + 1 /\ f.epc = core.epc /\ f.ie = Shut
      /\ ~f.branch_taken /\ f.branch_taken \in BOOLEAN
      /\ f.cause = core.cause /\ ~f.exception_pending /\ Vector \in Nat /\ w.op = "RFE"
  BY Handling
<1>3. /\ core.next_pc = t /\ core.delay = NoLoad /\ Place(prog, m, t) /\ t <= Len(prog) + 2 /\ m.next = m.at + 1
  BY <1>1, <1>2 DEF InHandler
<1>4. e = ReturnFromException(f)
  <2> HIDE DEF w
  <2> QED
    BY <1>2 DEF Execute
<1> HIDE DEF w, e, t
<1>5. /\ Proper(e) /\ e.regs = f.regs /\ e.gte = f.gte
      /\ e.load = f.load /\ e.delay = f.delay /\ e.pc = f.pc /\ e.next_pc = f.next_pc
      /\ e.branch_taken = f.branch_taken /\ e.ie = Popped(f.ie)
      /\ e.exception_pending = f.exception_pending
  BY <1>2, <1>4, ReturnIs
<1>6. d = RetireLoadDelay(e)
  <2>1. e = Execute(Fetched, ProgramWord(core.pc)) /\ ~e.exception_pending
    BY <1>2, <1>5 DEF e, w, AtHandler
  <2> QED
    BY <2>1, CompletedIs
<1>7. /\ Proper(d) /\ d.regs = Land(e.regs, e.delay) /\ d.gte = e.gte
      /\ d.load = NoLoad /\ d.delay = e.load /\ SameControl(e, d)
  BY <1>5, <1>6, RetireIs
<1>8. d.regs = Land(core.regs, core.delay) /\ d.delay = NoLoad /\ d.gte = core.gte
  BY <1>2, <1>5, <1>7
<1>9. Same(d, m)
  <2>1. Same(core, m)
    BY Handling
  <2> QED
    BY <1>1, <1>8, <2>1, NothingLands DEF Same
<1>10. d.pc = t /\ d.next_pc = t + 1 /\ d.ie = Open
  BY <1>2, <1>3, <1>5, <1>7, ModesIs DEF SameControl
<1>11. ~d.branch_taken /\ d.branch_taken \in BOOLEAN
  BY <1>2, <1>5, <1>7 DEF SameControl
<1>12. Slot(prog, d, k)
  BY <1>10, <1>11 DEF Slot
<1>13. m.at <= Len(prog) => d.next_pc = m.next
  <2>1. Len(prog) \in Nat /\ m.at \in Nat
    BY <1>1, RunOK DEF Good, ForwardProgram, WalkOK
  <2> QED
    BY <1>3, <1>10, <2>1 DEF Place
<1>14. d.delay.reg = Zero
  BY <1>8, NoLoadIs
<1>15. InProgram(prog, d, k)
  BY <1>1, <1>3, <1>7, <1>9, <1>10, <1>11, <1>12, <1>13, <1>14 DEF InProgram
<1> QED
  BY <1>7, <1>15

LEMMA HandlerStep ==
  ASSUME Disciplined, Good(prog), Proper(core), NEW k \in 0 .. Len(prog), InHandler(prog, core, k),
         NEW d, d = Completed
  PROVE  Proper(d) /\ (InProgram(prog, d, k) \/ InHandler(prog, d, k))
<1> DEFINE m == RefRun(prog)[k]
           f == Fetched
<1>1. AtHandler(k, m, f)
  BY DEF AtHandler
<1> HIDE DEF m, f
<1>2. core.pc \in {Vector, Vector + 1, Vector + 2, Vector + 3, Vector + 4}
  BY <1>1, Handling
<1> QED
  BY <1>1, <1>2, MoveStep, AckStep, SkipStep, JumpStep, ReturnStep

-----------------------------------------------------------------------------
(* The Cpu is where the reference is, or in the handler on the way back to *)
(* it, unless the program cannot count on its loads.                       *)
Simulated(p, c) ==
  ~RefRun(p)[Len(p)].hazard =>
     /\ Proper(c)
     /\ \E k \in 0 .. Len(p) : InProgram(p, c, k) \/ InHandler(p, c, k)

PipeIInv == prog \in Programs /\ Simulated(prog, core)

LEMMA StepSimulates ==
  ASSUME Disciplined, Breakpoints = {}, PipeIInv, NEW d, NEW pausing, CpuStep(d, pausing)
  PROVE  PipeIInv'
<1>1. Good(prog) /\ prog' = prog /\ prog \in Programs
  BY GoodPrograms DEF PipeIInv, CpuStep
<1>2. SUFFICES ASSUME ~RefRun(prog)[Len(prog)].hazard
               PROVE  /\ Proper(core')
                      /\ \E k \in 0 .. Len(prog) : InProgram(prog, core', k) \/ InHandler(prog, core', k)
  BY <1>1 DEF PipeIInv, Simulated
<1>3. PICK k \in 0 .. Len(prog) : InProgram(prog, core, k) \/ InHandler(prog, core, k)
  BY <1>2 DEF PipeIInv, Simulated
<1>4. Proper(core)
  BY <1>2 DEF PipeIInv, Simulated
<1>5. ~StopsHere(d)
  BY DEF StopsHere
<1>6. core' = IF Interrupted THEN TakeException(Begun, "INT") ELSE Completed
  BY <1>5 DEF CpuStep
<1>7. ASSUME InProgram(prog, core, k) PROVE core.pc <= Len(prog) + 2
  <2>1. Len(prog) \in Nat /\ RefRun(prog)[k].at \in Nat /\ Len(prog) + 3 < Vector /\ Vector \in Nat
    <3>1. Len(prog) \in Nat /\ Len(prog) + 3 < Vector /\ Vector \in Nat
      BY <1>1 DEF Good, ForwardProgram, Vector
    <3>2. WalkOK(prog, RefRun(prog)[k], k)
      BY <1>1, RunOK
    <3>3. RefRun(prog)[k].at \in 1 .. Len(prog) + 2
      BY <3>2 DEF WalkOK
    <3> QED
      BY <3>1, <3>3
  <2>2. core.pc \in Nat /\ core.pc <= Len(prog) + 3
    BY <1>7, <2>1 DEF InProgram, Place
  <2>3. ~(core.pc < Vector /\ core.pc > Len(prog) + 2)
    BY DEF CpuStep, Halted
  <2> QED
    BY <2>1, <2>2, <2>3
<1>8. CASE Interrupted
  <2>1. core' = TakeException(Begun, "INT")
    BY <1>6, <1>8
  <2>2. ~InHandler(prog, core, k)
    BY <1>8, ModesIs DEF Interrupted, InHandler
  <2>3. InProgram(prog, core, k) /\ core.pc <= Len(prog) + 2
    BY <1>3, <1>7, <2>2
  <2> QED
    BY <1>1, <1>4, <2>1, <2>3, InterruptStep
<1>9. CASE ~Interrupted
  <2>1. core' = Completed
    BY <1>6, <1>9
  <2>2. CASE InProgram(prog, core, k)
    BY <1>1, <1>2, <1>4, <1>7, <2>1, <2>2, ProgramStep
  <2>3. CASE InHandler(prog, core, k)
    BY <1>1, <1>4, <2>1, <2>3, HandlerStep
  <2> QED
    BY <1>3, <2>2, <2>3
<1> QED
  BY <1>8, <1>9

(* The machine switched on is where the reference starts.                  *)
LEMMA PowerSimulates ==
  ASSUME Disciplined, NEW p \in Programs
  PROVE  Simulated(p, Power)
<1> DEFINE m == RefRun(p)[0]
           regs == Power.regs
<1>1. Good(p) /\ Len(p) \in Nat /\ 0 \in 0 .. Len(p)
  BY GoodPrograms DEF Good, ForwardProgram
<1>2. m = Unread
  BY <1>1, RefRunIs
<1>3. m.at = 1 /\ m.next = 2 /\ m.regs = regs /\ m.gte = 0
  BY <1>2 DEF Unread
<1>4. DOMAIN regs = RegNames /\ DOMAIN Power = CpuFields
  BY DEF Power, RegNames, CpuFields
<1>5. /\ Power.pc = 1 /\ Power.next_pc = 2 /\ Power.load = NoLoad /\ Power.delay = NoLoad
      /\ Power.gte = 0 /\ Power.ie = Open
  BY DEF Power, Open
<1>6. ~Power.branch_taken /\ Power.branch_taken \in BOOLEAN
  BY DEF Power
<1>7. Proper(Power)
  BY <1>4, <1>5, NoLoadIs DEF Proper
<1>8. Same(Power, m)
  <2>1. Land(regs, NoLoad) = regs
    BY <1>4, LandIs, NoLoadIs
  <2> HIDE DEF m
  <2> QED
    BY <1>3, <1>5, <2>1 DEF Same
<1> HIDE DEF m, regs
<1>9. Place(p, m, Power.pc) /\ Slot(p, Power, 0)
  BY <1>1, <1>3, <1>5, <1>6 DEF Place, Slot
<1>10. Power.delay.reg = Zero
  BY <1>5, NoLoadIs
<1>11. InProgram(p, Power, 0)
  BY <1>3, <1>5, <1>6, <1>8, <1>9, <1>10 DEF InProgram, m
<1> QED
  BY <1>1, <1>7, <1>11 DEF Simulated

LEMMA InitPipe == ASSUME Disciplined, PipeInit PROVE PipeIInv
BY PowerSimulates DEF PipeInit, PipeIInv

LEMMA NextPipe ==
  ASSUME Disciplined, Breakpoints = {}, PipeIInv, [PipeNext]_pipe_vars
  PROVE  PipeIInv'
<1>1. CASE Run
  BY <1>1, StepSimulates DEF Run
<1>2. CASE SingleStep
  BY <1>2, StepSimulates DEF SingleStep
<1>3. CASE TogglePause \/ RaiseDeviceLine \/ UNCHANGED pipe_vars
  <2>1. UNCHANGED <<prog, core>>
    BY <1>3 DEF TogglePause, RaiseDeviceLine, pipe_vars
  <2> QED
    BY <2>1 DEF PipeIInv
<1>4. CASE Reset
  BY <1>4, PowerSimulates DEF Reset, PipeIInv
<1> QED
  BY <1>1, <1>2, <1>3, <1>4 DEF PipeNext

(* Halted, the pipeline has retired its loads.                             *)
LEMMA HaltedIs == ASSUME Disciplined, PipeIInv PROVE ResultIsTheProgram
<1>1. Good(prog) /\ Len(prog) \in Nat /\ Vector \in Nat
  BY GoodPrograms DEF PipeIInv, Good, ForwardProgram, Vector
<1>2. SUFFICES ASSUME Halted, ~RefRun(prog)[Len(prog)].hazard
               PROVE  /\ \A r \in Registers : core.regs[r] = RefRun(prog)[Len(prog)].regs[r]
                      /\ core.gte = RefRun(prog)[Len(prog)].gte
  BY ReferenceIs DEF ResultIsTheProgram
<1>3. PICK k \in 0 .. Len(prog) : InProgram(prog, core, k) \/ InHandler(prog, core, k)
  BY <1>2 DEF PipeIInv, Simulated
<1> DEFINE m == RefRun(prog)[k]
<1>4. Proper(core)
  BY <1>2 DEF PipeIInv, Simulated
<1>5. core.pc < Vector /\ core.pc > Len(prog) + 2
  BY <1>2 DEF Halted
<1>6. InProgram(prog, core, k)
  BY <1>1, <1>3, <1>5 DEF InHandler
<1>7. m.at \in Nat /\ m.at <= Len(prog) + 2
  BY <1>1, RunOK DEF WalkOK
<1>8. m.at > Len(prog) /\ core.pc # m.at
  BY <1>1, <1>5, <1>6, <1>7 DEF InProgram, Place
<1>9. RefRun(prog)[Len(prog)] = m
  BY <1>1, <1>8, RunEnds
<1>10. Land(core.regs, core.delay) = core.regs
  BY <1>4, <1>6, <1>8, LandIs DEF InProgram, Proper
<1>11. /\ \A r \in UserRegs : core.regs[r] = m.regs[r]
       /\ core.gte = m.gte
  BY <1>6, <1>10 DEF InProgram, Same
<1> QED
  BY <1>9, <1>11 DEF UserRegs

(* However interrupts, traps, pauses and single steps fall between its     *)
(* instructions, a program that runs forward and respects the load delay   *)
(* ends with the registers it says (cpu_step, cpu_exception,               *)
(* cpu_retire_load_delay): any program that ends below the handler, any    *)
(* registers and any number of interrupts; no breakpoint is set.           *)
THEOREM ResultStaysTheProgram ==
  ASSUME Breakpoints = {}
  PROVE  PipeSpec => []ResultIsTheProgram
<1>1. PipeInit => PipeIInv
  BY PipeConstants, InitPipe
<1>2. PipeIInv /\ [PipeNext]_pipe_vars => PipeIInv'
  BY PipeConstants, NextPipe
<1>3. PipeIInv => ResultIsTheProgram
  BY PipeConstants, HaltedIs
<1> QED
  BY <1>1, <1>2, <1>3, PTL DEF PipeSpec

-----------------------------------------------------------------------------
(* The types of the pipeline, whatever the program does with its loads:    *)
(* the reference plays no part, only where the Cpu may stand.  Breakpoints *)
(* are the program's.                                                      *)
OwnBreakpoints == \A b \in Breakpoints : b < Vector

PipeWords == 1 .. Vector + 6

(* The Cpu's registers and slots hold numbers, and zero is zero.           *)
Whole(c) == /\ Proper(c)
            /\ c.regs \in [RegNames -> Nat] /\ c.regs[Zero] = 0
            /\ c.load.value \in Nat /\ c.delay.value \in Nat
            /\ c.current_pc \in PipeWords /\ c.epc \in PipeWords

(* In the program, and in the slot of a branch that is taken.              *)
OnProgram(p, c) ==
  /\ c.pc \in 1 .. Len(p) + 3
  /\ c.branch_taken \in BOOLEAN
  /\ IF c.branch_taken
     THEN /\ c.pc \in 2 .. Len(p) /\ p[c.pc].op \notin {"BEQ", "TRAP"}
          /\ c.next_pc \in 1 .. Len(p) + 2
     ELSE c.next_pc = c.pc + 1
  /\ c.ie = Open /\ c.load = NoLoad

(* In the handler, on the way back to the program.                         *)
OnHandler(p, c) ==
  /\ c.pc \in Vector .. Vector + 4
  /\ c.next_pc = IF c.pc = Vector + 4 THEN Resume(c) ELSE c.pc + 1
  /\ Resume(c) \in 1 .. Len(p) + 2
  /\ c.ie = Shut /\ c.load = NoLoad
  /\ c.delay = IF c.pc = Vector + 1 THEN [reg |-> "k0", value |-> c.epc] ELSE NoLoad
  /\ c.pc = Vector + 2 => c.regs["k0"] = c.epc
  /\ c.pc = Vector + 3 => c.regs["k0"] = Resume(c)

Somewhere(p, c) == Whole(c) /\ (OnProgram(p, c) \/ OnHandler(p, c))

PipeTypes ==
  /\ prog \in Programs /\ Somewhere(prog, core)
  /\ line \in BOOLEAN /\ raised \in 0 .. MaxInterrupts
  /\ dbg \in [paused : BOOLEAN, step_skip_bp : BOOLEAN]

LEMMA ModesAreTyped == Open \in [1 .. 3 -> BOOLEAN] /\ Shut \in [1 .. 3 -> BOOLEAN]
<1> DEFINE yes == TRUE
           no == FALSE
           open == <<yes, yes, yes>>
           shut == <<no, yes, yes>>
<1>1. yes \in BOOLEAN /\ no \in BOOLEAN
  OBVIOUS
<1>2. open \in [1 .. 3 -> BOOLEAN] /\ shut \in [1 .. 3 -> BOOLEAN]
  <2> HIDE DEF yes, no
  <2> QED
    BY <1>1
<1> QED
  BY <1>2 DEF Open, Shut

LEMMA PipeTyped == ASSUME Disciplined, PipeTypes PROVE PipeTypeOK
<1>1. Good(prog) /\ Len(prog) \in Nat /\ Len(prog) + 3 < Vector /\ Vector \in Nat
  BY GoodPrograms DEF PipeTypes, Good, ForwardProgram, Vector
<1>2. Whole(core)
  BY DEF PipeTypes, Somewhere
<1>3. core.ie \in [1 .. 3 -> BOOLEAN]
  BY ModesAreTyped DEF PipeTypes, Somewhere, OnProgram, OnHandler
<1>4. core.pc \in PipeWords /\ core.next_pc \in PipeWords
  <2> HIDE DEF Vector
  <2>1. CASE OnProgram(prog, core)
    BY <1>1, <2>1 DEF OnProgram, PipeWords
  <2>2. CASE OnHandler(prog, core)
    BY <1>1, <2>2 DEF OnHandler, PipeWords
  <2> QED
    BY <2>1, <2>2 DEF PipeTypes, Somewhere
<1> QED
  BY <1>2, <1>3, <1>4 DEF PipeTypes, PipeTypeOK, Whole, Proper, RegNames, PipeWords

(* What lands in the registers is a number too.                            *)
LEMMA LandTyped ==
  ASSUME NEW regs \in [RegNames -> Nat], regs[Zero] = 0, NEW slot, slot.reg \in RegNames, slot.value \in Nat
  PROVE  Land(regs, slot) \in [RegNames -> Nat] /\ Land(regs, slot)[Zero] = 0
BY DEF Land, RegNames

LEMMA NoLoadTyped == NoLoad.value \in Nat
BY DEF NoLoad

LEMMA RetireTyped ==
  ASSUME NEW c, Whole(c), NEW d, d = RetireLoadDelay(c)
  PROVE  Whole(d)
<1>1. Proper(c) /\ c.regs \in [RegNames -> Nat] /\ c.regs[Zero] = 0 /\ c.delay.value \in Nat /\ c.load.value \in Nat
      /\ c.delay.reg \in RegNames /\ c.current_pc \in PipeWords /\ c.epc \in PipeWords
  BY DEF Whole, Proper
<1>2. /\ Proper(d) /\ d.regs = Land(c.regs, c.delay)
      /\ d.load = NoLoad /\ d.delay = c.load /\ SameControl(c, d)
  BY <1>1, RetireIs
<1>3. d.regs \in [RegNames -> Nat] /\ d.regs[Zero] = 0
  BY <1>1, <1>2, LandTyped
<1> QED
  BY <1>1, <1>2, <1>3, NoLoadTyped DEF Whole, SameControl

LEMMA ExceptionTyped ==
  ASSUME NEW c, Whole(c), c.load = NoLoad, ReturnAddress(c) \in PipeWords,
         NEW code, NEW d, d = TakeException(c, code)
  PROVE  Whole(d)
<1>1. Proper(c) /\ c.regs \in [RegNames -> Nat] /\ c.regs[Zero] = 0 /\ c.delay.value \in Nat
      /\ c.delay.reg \in RegNames /\ c.current_pc \in PipeWords
  BY DEF Whole, Proper
<1>2. /\ Proper(d) /\ d.regs = Land(c.regs, c.delay)
      /\ d.load = NoLoad /\ d.delay = NoLoad /\ d.epc = ReturnAddress(c) /\ d.current_pc = c.current_pc
  BY <1>1, TakeExceptionIs
<1>3. d.regs \in [RegNames -> Nat] /\ d.regs[Zero] = 0
  BY <1>1, <1>2, LandTyped
<1> QED
  BY <1>1, <1>2, <1>3, NoLoadTyped DEF Whole

(* Fetched, and before that.                                               *)
LEMMA FetchedTyped ==
  ASSUME Whole(core), core.pc \in PipeWords
  PROVE  Whole(Fetched) /\ Whole(Begun)
<1> DEFINE f == Fetched
           b == Begun
<1>1. /\ Proper(f) /\ f.regs = core.regs /\ f.load = core.load /\ f.delay = core.delay
      /\ f.current_pc = core.pc /\ f.epc = core.epc
  BY FetchedIs DEF Whole
<1>2. /\ Proper(b) /\ b.regs = core.regs /\ b.load = core.load /\ b.delay = core.delay
      /\ b.current_pc = core.pc /\ b.epc = core.epc
  BY BegunIs DEF Whole
<1> HIDE DEF f, b
<1>3. Whole(f) /\ Whole(b)
  BY <1>1, <1>2 DEF Whole
<1> QED
  BY <1>3 DEF f, b

LEMMA SetRegTyped ==
  ASSUME NEW c, Whole(c), NEW r \in RegNames \ {Zero}, NEW v \in Nat, NEW e, e = SetReg(c, r, v)
  PROVE  Whole(e) /\ SameControl(c, e) /\ e.load = c.load
<1>1. Proper(c) /\ c.regs \in [RegNames -> Nat] /\ c.regs[Zero] = 0 /\ c.delay.value \in Nat /\ c.load.value \in Nat
      /\ c.current_pc \in PipeWords /\ c.epc \in PipeWords
  BY DEF Whole
<1>2. /\ Proper(e) /\ e.regs = [c.regs EXCEPT ![r] = v] /\ e.load = c.load
      /\ e.delay = (IF c.delay.reg = r THEN NoLoad ELSE c.delay) /\ SameControl(c, e)
  BY <1>1, SetRegIs
<1>3. e.regs \in [RegNames -> Nat] /\ e.regs[Zero] = 0 /\ e.delay.value \in Nat
  BY <1>1, <1>2, NoLoadTyped
<1> QED
  BY <1>1, <1>2, <1>3 DEF Whole, SameControl

LEMMA LoadTyped ==
  ASSUME NEW c, Whole(c), NEW r \in RegNames, NEW v \in Nat, NEW e, e = Load(c, r, v)
  PROVE  Whole(e) /\ SameControl(c, e)
<1>1. /\ Proper(e) /\ e.regs = c.regs
      /\ e.load = [reg |-> r, value |-> v] /\ e.delay = c.delay /\ SameControl(c, e)
  BY LoadIs DEF Whole
<1>2. e.load.value = v
  BY <1>1
<1> QED
  BY <1>1, <1>2 DEF Whole, SameControl

(* An instruction of the program that is not the last of the Cpu's run.    *)
Executing(p, c) == /\ Disciplined /\ Good(p) /\ Whole(c) /\ OnProgram(p, c) /\ c.pc <= Len(p) + 2

(* What is at hand in every step of the program.                           *)
LEMMA AtHand ==
  ASSUME Executing(prog, core), NEW f, f = Fetched, NEW i, i = ProgramWord(core.pc)
  PROVE  /\ Whole(f) /\ Proper(f) /\ f.load = NoLoad /\ f.pc = core.next_pc /\ f.next_pc = core.next_pc + 1
         /\ f.current_pc = core.pc /\ f.branch_taken = FALSE /\ f.in_delay_slot = core.branch_taken
         /\ f.ie = Open /\ ~f.exception_pending /\ f.regs \in [RegNames -> Nat]
         /\ f.delay.value \in Nat
         /\ Len(prog) \in Nat /\ Vector \in Nat /\ Len(prog) + 3 < Vector
         /\ core.pc \in 1 .. Len(prog) + 2 /\ core.next_pc \in 1 .. Len(prog) + 3
         /\ core.pc \in PipeWords
         /\ i.op \in Opcodes
         /\ i.op # "NOP" => core.pc \in 1 .. Len(prog) /\ i = prog[core.pc]
<1>1. Len(prog) \in Nat /\ Vector \in Nat /\ Len(prog) + 3 < Vector
  BY DEF Executing, Good, ForwardProgram, Vector
<1>2. core.load = NoLoad /\ core.ie = Open /\ core.branch_taken \in BOOLEAN /\ Proper(core)
  BY DEF Executing, OnProgram, Whole
<1> HIDE DEF Vector
<1>3. core.pc \in 1 .. Len(prog) + 2 /\ core.next_pc \in 1 .. Len(prog) + 3 /\ core.pc \in PipeWords
  BY <1>1 DEF Executing, OnProgram, PipeWords
<1>4. /\ Proper(f) /\ f.load = core.load /\ f.pc = core.next_pc /\ f.next_pc = core.next_pc + 1
      /\ f.current_pc = core.pc /\ f.branch_taken = FALSE /\ f.in_delay_slot = core.branch_taken
      /\ f.ie = core.ie /\ ~f.exception_pending
  BY <1>2, FetchedIs
<1>5. Whole(f)
  BY <1>3, FetchedTyped DEF Executing
<1>6. f.regs \in [RegNames -> Nat] /\ f.delay.value \in Nat
  BY <1>5 DEF Whole
<1>7. i.op \in Opcodes /\ (i.op # "NOP" => core.pc \in 1 .. Len(prog) /\ i = prog[core.pc])
  <2>1. CASE core.pc \in 1 .. Len(prog)
    <3>1. i = prog[core.pc] /\ ForwardProgram(prog)
      BY <1>1, <1>3, <2>1, WordIs DEF Executing, Good
    <3> QED
      BY <2>1, <3>1 DEF ForwardProgram
  <2>2. CASE core.pc \notin 1 .. Len(prog)
    <3>1. core.pc \in Nat /\ core.pc > Len(prog) /\ core.pc < Vector
      BY <1>1, <1>3, <2>2
    <3>2. i = NOP
      BY <3>1, WordIs DEF Executing
    <3> QED
      BY <3>2 DEF NOP, Opcodes
  <2> QED
    BY <2>1, <2>2
<1> QED
  BY <1>1, <1>2, <1>3, <1>4, <1>5, <1>6, <1>7

(* An instruction that does not branch goes on to the next.                *)
LEMMA PlainTyped ==
  ASSUME Executing(prog, core), NEW e, e = Execute(Fetched, ProgramWord(core.pc)),
         Whole(e), SameControl(Fetched, e), NEW d, d = Completed
  PROVE  Somewhere(prog, d)
<1> DEFINE f == Fetched
           i == ProgramWord(core.pc)
<1>1. /\ f.pc = core.next_pc /\ f.next_pc = core.next_pc + 1 /\ f.branch_taken = FALSE /\ f.ie = Open
      /\ ~f.exception_pending /\ core.next_pc \in 1 .. Len(prog) + 3
  BY AtHand
<1>2. SameControl(f, e)
  OBVIOUS
<1> HIDE DEF f, i
<1>3. ~e.exception_pending
  BY <1>1, <1>2 DEF SameControl
<1>4. d = RetireLoadDelay(e)
  BY <1>3, CompletedIs
<1>5. Whole(d)
  BY <1>4, RetireTyped
<1>6. d.load = NoLoad /\ SameControl(e, d)
  BY <1>4, RetireIs DEF Whole
<1>7. d.pc = core.next_pc /\ d.next_pc = d.pc + 1 /\ d.branch_taken = FALSE /\ d.ie = Open
  BY <1>1, <1>2, <1>6 DEF SameControl
<1> QED
  BY <1>1, <1>5, <1>6, <1>7 DEF Somewhere, OnProgram

(* The values the instructions compute.                                    *)
LEMMA HalfTyped == ASSUME NEW v \in Nat PROVE Lo(v) \in Nat /\ Hi(v) \in Nat
BY DEF Lo, Hi

LEMMA MergeTyped ==
  ASSUME NEW c, c.regs \in [RegNames -> Nat], c.delay.value \in Nat, NEW r \in RegNames
  PROVE  MergeBase(c, r) \in Nat
BY DEF MergeBase

(* The slot of a branch that is taken holds neither a branch nor a trap.   *)
LEMMA SlotIsPlain ==
  ASSUME Executing(prog, core), NEW i, i = ProgramWord(core.pc), i.op \in {"BEQ", "TRAP"}
  PROVE  core.branch_taken = FALSE /\ core.next_pc = core.pc + 1 /\ core.pc \in 1 .. Len(prog) /\ i = prog[core.pc]
<1>1. core.pc \in 1 .. Len(prog) /\ i = prog[core.pc]
  BY AtHand
<1>2. ~core.branch_taken
  BY <1>1 DEF Executing, OnProgram
<1> QED
  BY <1>1, <1>2 DEF Executing, OnProgram

LEMMA BranchTyped ==
  ASSUME Executing(prog, core), NEW i, i = ProgramWord(core.pc), i.op = "BEQ", NEW d, d = Completed
  PROVE  Somewhere(prog, d)
<1> DEFINE f == Fetched
           e == Branch(f, i)
           t == f.current_pc + 1 + i.off
<1>1. core.branch_taken = FALSE /\ core.next_pc = core.pc + 1 /\ core.pc \in 1 .. Len(prog) /\ i = prog[core.pc]
  BY SlotIsPlain
<1>2. /\ Whole(f) /\ Proper(f) /\ f.load = NoLoad /\ f.pc = core.next_pc /\ f.ie = Open
      /\ ~f.exception_pending /\ f.current_pc = core.pc
      /\ Len(prog) \in Nat /\ core.pc \in 1 .. Len(prog) + 2
  BY AtHand
<1>3. /\ core.pc + 1 \in 2 .. Len(prog) /\ prog[core.pc + 1].op \notin {"BEQ", "TRAP"}
      /\ t \in 1 .. Len(prog) + 2
  <2>1. /\ i.off \in Nat \ {0} /\ core.pc + 1 + i.off <= Len(prog) + 2
        /\ core.pc < Len(prog) /\ prog[core.pc + 1].op \notin {"BEQ", "TRAP"}
    BY <1>1 DEF Executing, Good, ForwardProgram
  <2> HIDE DEF f
  <2> QED
    BY <1>1, <1>2, <2>1
<1>4. e = Execute(Fetched, ProgramWord(core.pc))
  BY DEF Execute
<1>5. e = Jump(f, t) \/ e = f
  BY DEF Branch
<1> HIDE DEF f, e, t
<1>6. CASE e = f
  BY <1>2, <1>4, <1>6, PlainTyped DEF f, SameControl
<1>7. CASE e = Jump(f, t)
  <2>1. /\ Proper(e) /\ e.regs = f.regs /\ e.load = f.load /\ e.delay = f.delay /\ e.pc = f.pc /\ e.next_pc = t
        /\ e.branch_taken /\ e.branch_taken \in BOOLEAN /\ e.ie = f.ie /\ e.epc = f.epc
        /\ e.exception_pending = f.exception_pending /\ e.current_pc = f.current_pc
    BY <1>2, <1>7, JumpIs
  <2>2. Whole(e)
    BY <1>2, <2>1 DEF Whole
  <2>3. d = RetireLoadDelay(e)
    BY <1>2, <1>4, <2>1, CompletedIs
  <2>4. Whole(d) /\ d.load = NoLoad /\ SameControl(e, d)
    BY <2>2, <2>3, RetireTyped, RetireIs DEF Whole
  <2>5. d.pc = core.pc + 1 /\ d.next_pc = t /\ d.branch_taken /\ d.branch_taken \in BOOLEAN /\ d.ie = Open
    BY <1>1, <1>2, <2>1, <2>4 DEF SameControl
  <2>6. OnProgram(prog, d)
    BY <1>1, <1>2, <1>3, <2>4, <2>5 DEF OnProgram
  <2> QED
    BY <2>4, <2>6 DEF Somewhere
<1> QED
  BY <1>5, <1>6, <1>7

LEMMA TrapTyped ==
  ASSUME Executing(prog, core), NEW i, i = ProgramWord(core.pc), i.op = "TRAP", NEW d, d = Completed
  PROVE  Somewhere(prog, d)
<1> DEFINE f == Fetched
           why == "TRAP"
           e == TakeException(f, why)
<1>1. core.branch_taken = FALSE /\ core.next_pc = core.pc + 1 /\ core.pc \in 1 .. Len(prog)
  BY SlotIsPlain
<1>2. /\ Whole(f) /\ Proper(f) /\ f.load = NoLoad /\ f.ie = Open /\ f.current_pc = core.pc
      /\ f.in_delay_slot = core.branch_taken /\ core.pc \in PipeWords
      /\ Len(prog) \in Nat /\ Vector \in Nat
  BY AtHand
<1>3. e = Execute(Fetched, ProgramWord(core.pc))
  BY DEF Execute
<1>4. ReturnAddress(f) = core.pc
  BY <1>1, <1>2 DEF ReturnAddress
<1> HIDE DEF f, e, why, Vector
<1>5. /\ Proper(e) /\ e.load = NoLoad /\ e.delay = NoLoad /\ e.pc = Vector /\ e.next_pc = Vector + 1
      /\ e.epc = ReturnAddress(f) /\ e.cause.code = why
      /\ e.ie = Pushed(f.ie) /\ e.exception_pending
  BY <1>2, TakeExceptionIs DEF e
<1>6. d = e
  BY <1>3, <1>5, CompletedIs
<1>7. Whole(d)
  BY <1>2, <1>4, <1>6, ExceptionTyped DEF e
<1>8. Resume(d) = core.pc + 1 /\ d.ie = Shut
  BY <1>2, <1>4, <1>5, <1>6, ModesIs DEF Resume, why
<1>9. OnHandler(prog, d)
  BY <1>1, <1>2, <1>5, <1>6, <1>8 DEF OnHandler
<1> QED
  BY <1>7, <1>9 DEF Somewhere

(* Any instruction of the program.                                         *)
LEMMA ProgramTyped ==
  ASSUME Executing(prog, core), prog \in Programs, NEW d, d = Completed
  PROVE  Somewhere(prog, d)
<1> DEFINE f == Fetched
           i == ProgramWord(core.pc)
           e == Execute(f, i)
<1>1. /\ Whole(f) /\ Proper(f) /\ f.load = NoLoad /\ f.regs \in [RegNames -> Nat]
      /\ f.delay.value \in Nat /\ i.op \in Opcodes
      /\ i.op # "NOP" => core.pc \in 1 .. Len(prog) /\ i = prog[core.pc]
  BY AtHand
<1>2. /\ i.op = "ADDIU" => i.d \in RegNames \ {Zero} /\ i.s \in RegNames
      /\ i.op \in {"LW", "LWL", "LWR"} => i.d \in RegNames /\ i.v \in Nat
  <2>1. ForwardProgram(prog) /\ Zero \notin Registers
    BY DEF Executing, Good, Disciplined
  <2> HIDE DEF f, i
  <2>2. CASE i.op = "ADDIU"
    BY <1>1, <2>1, <2>2 DEF ForwardProgram, RegNames, UserRegs
  <2>3. CASE i.op \in {"LW", "LWL", "LWR"}
    BY <1>1, <2>1, <2>3, LoadsAreNumbers DEF ForwardProgram, RegNames
  <2> QED
    BY <2>2, <2>3
<1>3. ASSUME Whole(e), SameControl(f, e) PROVE Somewhere(prog, d)
  BY <1>3, PlainTyped
<1>4. e = Execute(f, i)
  OBVIOUS
<1> HIDE DEF f, i, e
<1>5. CASE i.op = "ADDIU"
  <2> DEFINE v == (f.regs[i.s] + 1) % 16
  <2>1. v \in Nat
    BY <1>1, <1>2, <1>5
  <2>2. e = SetReg(f, i.d, v)
    BY <1>4, <1>5 DEF Execute, Addiu
  <2> HIDE DEF v
  <2> QED
    BY <1>1, <1>2, <1>3, <1>5, <2>1, <2>2, SetRegTyped
<1>6. CASE i.op \in {"LW", "LWL", "LWR"}
  <2>1. MergeBase(f, i.d) \in Nat
    BY <1>1, <1>2, <1>6, MergeTyped
  <2>2. PICK v \in Nat : e = Load(f, i.d, v)
    <3>1. CASE i.op = "LW"
      BY <1>2, <1>4, <3>1 DEF Execute, LoadWord
    <3>2. CASE i.op = "LWL"
      <4>1. 4 * i.v + Lo(MergeBase(f, i.d)) \in Nat
        BY <1>2, <2>1, <3>2, HalfTyped
      <4> QED
        BY <1>4, <3>2, <4>1 DEF Execute, LoadWordLeft
    <3>3. CASE i.op = "LWR"
      <4>1. 4 * Hi(MergeBase(f, i.d)) + i.v \in Nat
        BY <1>2, <2>1, <3>3, HalfTyped
      <4> QED
        BY <1>4, <3>3, <4>1 DEF Execute, LoadWordRight
    <3> QED
      BY <1>6, <3>1, <3>2, <3>3
  <2> QED
    BY <1>1, <1>2, <1>3, <1>6, <2>2, LoadTyped
<1>7. CASE i.op = "COP2"
  <2>1. e = GteOperation(f)
    BY <1>4, <1>7 DEF Execute
  <2>2. Proper(e) /\ e.regs = f.regs /\ e.load = f.load /\ e.delay = f.delay /\ SameControl(f, e)
    BY <1>1, <2>1, GteIs
  <2> QED
    BY <1>1, <1>3, <2>2 DEF Whole, SameControl
<1>8. CASE i.op = "NOP"
  <2>1. e = f
    BY <1>4, <1>8 DEF Execute
  <2> QED
    BY <1>1, <1>3, <2>1 DEF SameControl
<1> QED
  BY <1>1, <1>5, <1>6, <1>7, <1>8, BranchTyped, TrapTyped DEF Opcodes, i

(* An interrupt comes between two instructions of the program.             *)
LEMMA InterruptTyped ==
  ASSUME Executing(prog, core), NEW d, d = TakeException(Begun, "INT")
  PROVE  Somewhere(prog, d)
<1> DEFINE b == Begun
           why == "INT"
           back == IF core.branch_taken THEN core.pc - 1 ELSE core.pc
<1>1. /\ Len(prog) \in Nat /\ Vector \in Nat /\ Len(prog) + 3 < Vector
      /\ core.pc \in 1 .. Len(prog) + 2 /\ core.pc \in PipeWords
  BY AtHand
<1>2. core.load = NoLoad /\ core.ie = Open /\ Whole(core) /\ Proper(core)
  BY DEF Executing, OnProgram, Whole
<1>3. /\ Whole(b) /\ Proper(b) /\ b.load = NoLoad /\ b.ie = Open
      /\ b.current_pc = core.pc /\ b.in_delay_slot = core.branch_taken
  BY <1>1, <1>2, BegunIs, FetchedTyped
<1>4. back \in 1 .. Len(prog) + 2 /\ back \in PipeWords
  <2> HIDE DEF Vector
  <2> QED
    BY <1>1 DEF Executing, OnProgram, PipeWords
<1>5. ReturnAddress(b) = back
  BY <1>3 DEF ReturnAddress
<1>6. d = TakeException(b, why) /\ why # "TRAP"
  OBVIOUS
<1> HIDE DEF b, why, back, Vector
<1>7. /\ d.load = NoLoad /\ d.delay = NoLoad /\ d.pc = Vector /\ d.next_pc = Vector + 1
      /\ d.epc = ReturnAddress(b) /\ d.cause.code = why /\ d.ie = Pushed(b.ie)
  BY <1>3, <1>6, TakeExceptionIs
<1>8. Whole(d)
  BY <1>3, <1>4, <1>5, <1>6, ExceptionTyped
<1>9. Resume(d) = back /\ d.ie = Shut
  BY <1>3, <1>5, <1>6, <1>7, ModesIs DEF Resume
<1>10. OnHandler(prog, d)
  BY <1>1, <1>4, <1>7, <1>9 DEF OnHandler
<1> QED
  BY <1>8, <1>10 DEF Somewhere

-----------------------------------------------------------------------------
(* The handler.                                                            *)
Serving(p, c) == Disciplined /\ Good(p) /\ Whole(c) /\ OnHandler(p, c)

LEMMA InHand ==
  ASSUME Serving(prog, core), NEW f, f = Fetched, NEW w, w = ProgramWord(core.pc)
  PROVE  /\ Whole(f) /\ Proper(f) /\ f.regs = core.regs /\ f.load = NoLoad /\ f.delay = core.delay
         /\ f.pc = core.next_pc /\ f.next_pc = core.next_pc + 1
         /\ f.branch_taken = FALSE /\ f.cause = core.cause /\ f.epc = core.epc
         /\ f.ie = Shut /\ ~f.exception_pending
         /\ Vector \in Nat /\ Len(prog) \in Nat
         /\ core.pc \in {Vector, Vector + 1, Vector + 2, Vector + 3, Vector + 4}
         /\ core.pc = Vector     => w.op = "MFC0"
         /\ core.pc = Vector + 1 => w.op = "ACK"
         /\ core.pc = Vector + 2 => w.op = "SKIP"
         /\ core.pc = Vector + 3 => w.op = "JR"
         /\ core.pc = Vector + 4 => w.op = "RFE"
<1>1. Vector \in Nat \ {0} /\ Len(prog) \in Nat
  BY DEF Serving, Good, ForwardProgram, Vector
<1> HIDE DEF Vector
<1>2. /\ core.pc \in {Vector, Vector + 1, Vector + 2, Vector + 3, Vector + 4}
      /\ core.pc \in Nat /\ core.pc \in PipeWords
      /\ core.load = NoLoad /\ core.ie = Shut /\ Proper(core)
  <2>1. core.pc \in Vector .. Vector + 4 /\ core.load = NoLoad /\ core.ie = Shut /\ Proper(core)
    BY DEF Serving, OnHandler, Whole
  <2> QED
    BY <1>1, <2>1 DEF PipeWords
<1>3. /\ Proper(f) /\ f.regs = core.regs /\ f.load = core.load /\ f.delay = core.delay
      /\ f.pc = core.next_pc /\ f.next_pc = core.next_pc + 1
      /\ f.branch_taken = FALSE /\ f.ie = core.ie /\ f.cause = core.cause /\ f.epc = core.epc
      /\ ~f.exception_pending
  BY <1>2, FetchedIs
<1>4. Whole(f)
  BY <1>2, FetchedTyped DEF Serving
<1>5. /\ core.pc = Vector     => w.op = "MFC0"
      /\ core.pc = Vector + 1 => w.op = "ACK"
      /\ core.pc = Vector + 2 => w.op = "SKIP"
      /\ core.pc = Vector + 3 => w.op = "JR"
      /\ core.pc = Vector + 4 => w.op = "RFE"
  BY <1>2, WordIs DEF Serving
<1> QED
  BY <1>1, <1>2, <1>3, <1>4, <1>5

(* An instruction of the handler, once it has retired.                     *)
LEMMA RetiredIs ==
  ASSUME NEW e, e = Execute(Fetched, ProgramWord(core.pc)), Whole(e), ~e.exception_pending,
         NEW d, d = Completed
  PROVE  /\ Whole(d) /\ d.regs = Land(e.regs, e.delay) /\ d.load = NoLoad /\ d.delay = e.load
         /\ SameControl(e, d) /\ Resume(d) = Resume(e)
         /\ e.delay = NoLoad => d.regs = e.regs
<1>1. d = RetireLoadDelay(e)
  BY CompletedIs
<1>2. /\ d.regs = Land(e.regs, e.delay) /\ d.load = NoLoad /\ d.delay = e.load /\ SameControl(e, d)
  BY <1>1, RetireIs DEF Whole
<1>3. e.delay = NoLoad => d.regs = e.regs
  <2>1. DOMAIN e.regs = RegNames
    BY DEF Whole, Proper
  <2>2. e.delay = NoLoad => e.delay.reg = Zero
    BY NoLoadIs
  <2> QED
    BY <1>2, <2>1, <2>2, LandIs
<1> QED
  BY <1>1, <1>2, <1>3, RetireTyped DEF Resume, SameControl

LEMMA MoveTyped ==
  ASSUME Serving(prog, core), core.pc = Vector, NEW d, d = Completed
  PROVE  Somewhere(prog, d)
<1> DEFINE f == Fetched
           w == ProgramWord(core.pc)
           e == Execute(f, w)
           k0 == "k0"
<1>1. /\ Whole(f) /\ f.regs = core.regs /\ f.delay = core.delay
      /\ f.pc = core.next_pc /\ f.next_pc = core.next_pc + 1 /\ f.ie = Shut
      /\ f.cause = core.cause /\ f.epc = core.epc /\ ~f.exception_pending
      /\ Vector \in Nat /\ Len(prog) \in Nat /\ w.op = "MFC0"
  BY InHand
<1>2. core.next_pc = Vector + 1 /\ Resume(core) \in 1 .. Len(prog) + 2
  <2> HIDE DEF Vector
  <2> QED
    BY <1>1 DEF Serving, OnHandler
<1>3. e = Load(f, k0, f.epc)
  <2> HIDE DEF w, f, k0
  <2> QED
    BY <1>1 DEF Execute, MoveFromEpc, k0
<1>4. f.epc \in Nat /\ k0 \in RegNames
  BY <1>1 DEF Whole, PipeWords, RegNames
<1>5. e = Execute(Fetched, ProgramWord(core.pc))
  OBVIOUS
<1> HIDE DEF f, w, e, k0, Vector
<1>6. Whole(e) /\ SameControl(f, e) /\ e.load = [reg |-> k0, value |-> f.epc]
  BY <1>1, <1>3, <1>4, LoadTyped, LoadIs DEF Whole
<1>7. ~e.exception_pending /\ Resume(e) = Resume(core) /\ e.epc = core.epc
      /\ e.pc = core.next_pc /\ e.next_pc = core.next_pc + 1 /\ e.ie = Shut
  BY <1>1, <1>6 DEF SameControl, Resume
<1>8. Whole(d) /\ d.load = NoLoad /\ d.delay = e.load /\ SameControl(e, d) /\ Resume(d) = Resume(e)
  BY <1>5, <1>6, <1>7, RetiredIs
<1>9. d.pc = Vector + 1 /\ d.next_pc = Vector + 2 /\ d.ie = Shut /\ d.epc = core.epc
  BY <1>1, <1>2, <1>7, <1>8 DEF SameControl
<1>10. d.delay = [reg |-> "k0", value |-> d.epc]
  BY <1>1, <1>6, <1>8, <1>9 DEF k0
<1>11. OnHandler(prog, d)
  BY <1>1, <1>2, <1>7, <1>8, <1>9, <1>10 DEF OnHandler
<1> QED
  BY <1>8, <1>11 DEF Somewhere

LEMMA AckTyped ==
  ASSUME Serving(prog, core), core.pc = Vector + 1, NEW d, d = Completed
  PROVE  Somewhere(prog, d)
<1> DEFINE f == Fetched
           w == ProgramWord(core.pc)
           x == "k0"
<1>1. /\ Whole(f) /\ f.regs = core.regs /\ f.load = NoLoad /\ f.delay = core.delay
      /\ f.pc = core.next_pc /\ f.next_pc = core.next_pc + 1 /\ f.ie = Shut
      /\ f.cause = core.cause /\ f.epc = core.epc /\ ~f.exception_pending
      /\ Vector \in Nat /\ Len(prog) \in Nat /\ w.op = "ACK"
  BY InHand
<1>2. /\ core.next_pc = Vector + 2 /\ Resume(core) \in 1 .. Len(prog) + 2
      /\ core.delay = [reg |-> x, value |-> core.epc]
  <2> HIDE DEF Vector
  <2> QED
    BY <1>1 DEF Serving, OnHandler
<1>3. f = Execute(Fetched, ProgramWord(core.pc))
  <2> HIDE DEF w
  <2>1. f = Execute(f, w)
    BY <1>1 DEF Execute
  <2> QED
    BY <2>1 DEF w
<1>4. x # Zero /\ x \in RegNames /\ DOMAIN f.regs = RegNames
  BY <1>1 DEF Zero, RegNames, Whole, Proper
<1> HIDE DEF f, w, x, Vector
<1>5. /\ Whole(d) /\ d.regs = Land(f.regs, f.delay) /\ d.load = NoLoad /\ d.delay = f.load
      /\ SameControl(f, d) /\ Resume(d) = Resume(f)
  BY <1>1, <1>3, RetiredIs
<1>6. d.pc = Vector + 2 /\ d.next_pc = Vector + 3 /\ d.ie = Shut /\ d.epc = core.epc /\ d.delay = NoLoad
  BY <1>1, <1>2, <1>5 DEF SameControl
<1>7. Resume(d) = Resume(core)
  BY <1>1, <1>5 DEF Resume
<1>8. d.regs[x] = d.epc
  <2> DEFINE regs == f.regs
             slot == f.delay
  <2>1. slot.reg = x /\ slot.value = core.epc /\ DOMAIN regs = RegNames /\ d.regs = Land(regs, slot)
    BY <1>1, <1>2, <1>4, <1>5
  <2> HIDE DEF regs, slot
  <2>2. \A r \in RegNames : Land(regs, slot)[r] = IF slot.reg # Zero /\ slot.reg = r
                                                   THEN slot.value ELSE regs[r]
    BY <2>1, LandIs
  <2>3. Land(regs, slot)[x] = slot.value
    BY <1>4, <2>1, <2>2
  <2> QED
    BY <1>6, <2>1, <2>3
<1>9. OnHandler(prog, d)
  BY <1>1, <1>2, <1>5, <1>6, <1>7, <1>8 DEF OnHandler, x
<1> QED
  BY <1>5, <1>9 DEF Somewhere

LEMMA SkipTyped ==
  ASSUME Serving(prog, core), core.pc = Vector + 2, NEW d, d = Completed
  PROVE  Somewhere(prog, d)
<1> DEFINE f == Fetched
           w == ProgramWord(core.pc)
           e == Execute(f, w)
           x == "k0"
<1>1. /\ Whole(f) /\ Proper(f) /\ f.regs = core.regs /\ f.load = NoLoad /\ f.delay = core.delay
      /\ f.pc = core.next_pc /\ f.next_pc = core.next_pc + 1 /\ f.ie = Shut
      /\ f.cause = core.cause /\ f.epc = core.epc /\ ~f.exception_pending
      /\ Vector \in Nat /\ Len(prog) \in Nat /\ w.op = "SKIP"
  BY InHand
<1>2. /\ core.next_pc = Vector + 3 /\ Resume(core) \in 1 .. Len(prog) + 2
      /\ core.delay = NoLoad /\ core.regs[x] = core.epc
  <2> HIDE DEF Vector
  <2> QED
    BY <1>1 DEF Serving, OnHandler
<1>3. x # Zero /\ x \in RegNames \ {Zero} /\ f.regs \in [RegNames -> Nat]
  BY <1>1 DEF Zero, RegNames, Whole
<1>4. e = Execute(Fetched, ProgramWord(core.pc))
  OBVIOUS
<1>5. /\ Whole(e) /\ e.load = f.load /\ e.delay = NoLoad /\ SameControl(f, e) /\ e.regs[x] = Resume(core)
  <2>1. CASE core.cause.code = "TRAP"
    <3> DEFINE v == f.regs[x] + 1
    <3>1. e = SetReg(f, x, v)
      <4> HIDE DEF w, f
      <4> QED
        BY <1>1, <2>1 DEF Execute
    <3>2. v \in Nat /\ v = Resume(core)
      BY <1>1, <1>2, <1>3, <2>1 DEF Resume
    <3> HIDE DEF w, f, e, x, v
    <3>3. Whole(e) /\ SameControl(f, e) /\ e.load = f.load
      BY <1>1, <1>3, <3>1, <3>2, SetRegTyped
    <3>4. e.regs = [f.regs EXCEPT ![x] = v] /\ e.delay = IF f.delay.reg = x THEN NoLoad ELSE f.delay
      BY <1>1, <1>3, <3>1, SetRegIs
    <3>5. e.regs[x] = v
      BY <1>3, <3>4
    <3> QED
      BY <1>1, <1>2, <3>2, <3>3, <3>4, <3>5
  <2>2. CASE core.cause.code # "TRAP"
    <3>1. e = f
      <4> HIDE DEF w, f
      <4> QED
        BY <1>1, <2>2 DEF Execute
    <3>2. Resume(core) = core.epc
      BY <2>2 DEF Resume
    <3> HIDE DEF e, f, x
    <3> QED
      BY <1>1, <1>2, <3>1, <3>2 DEF SameControl
  <2> QED
    BY <2>1, <2>2
<1> HIDE DEF f, w, e, x, Vector
<1>6. ~e.exception_pending /\ Resume(e) = Resume(core)
      /\ e.pc = core.next_pc /\ e.next_pc = core.next_pc + 1 /\ e.ie = Shut
  BY <1>1, <1>5 DEF SameControl, Resume
<1>7. /\ Whole(d) /\ d.load = NoLoad /\ d.delay = e.load /\ SameControl(e, d) /\ Resume(d) = Resume(e)
      /\ d.regs = e.regs
  BY <1>4, <1>5, <1>6, RetiredIs
<1>8. d.pc = Vector + 3 /\ d.next_pc = Vector + 4 /\ d.ie = Shut /\ d.delay = NoLoad
  BY <1>1, <1>2, <1>5, <1>6, <1>7 DEF SameControl
<1>9. Resume(d) = Resume(core) /\ d.regs["k0"] = Resume(d)
  BY <1>5, <1>6, <1>7 DEF x
<1>10. OnHandler(prog, d)
  BY <1>1, <1>2, <1>7, <1>8, <1>9 DEF OnHandler
<1> QED
  BY <1>7, <1>10 DEF Somewhere

LEMMA JumpTyped ==
  ASSUME Serving(prog, core), core.pc = Vector + 3, NEW d, d = Completed
  PROVE  Somewhere(prog, d)
<1> DEFINE f == Fetched
           w == ProgramWord(core.pc)
           e == Execute(f, w)
           t == Resume(core)
<1>1. /\ Whole(f) /\ Proper(f) /\ f.regs = core.regs /\ f.load = NoLoad /\ f.delay = core.delay
      /\ f.pc = core.next_pc /\ f.ie = Shut
      /\ f.cause = core.cause /\ f.epc = core.epc /\ ~f.exception_pending
      /\ Vector \in Nat /\ Len(prog) \in Nat /\ w.op = "JR"
  BY InHand
<1>2. /\ core.next_pc = Vector + 4 /\ t \in 1 .. Len(prog) + 2
      /\ core.delay = NoLoad /\ core.regs["k0"] = t
  <2> HIDE DEF Vector
  <2> QED
    BY <1>1 DEF Serving, OnHandler
<1>3. e = Jump(f, t)
  <2> HIDE DEF w, f
  <2> QED
    BY <1>1, <1>2 DEF Execute, JumpRegister
<1>4. e = Execute(Fetched, ProgramWord(core.pc))
  OBVIOUS
<1> HIDE DEF f, w, e, t, Vector
<1>5. /\ Proper(e) /\ e.regs = f.regs /\ e.load = f.load /\ e.delay = f.delay /\ e.pc = f.pc
      /\ e.next_pc = t /\ e.ie = f.ie /\ e.cause = f.cause /\ e.epc = f.epc
      /\ e.exception_pending = f.exception_pending /\ e.current_pc = f.current_pc
  BY <1>1, <1>3, JumpIs
<1>6. Whole(e) /\ ~e.exception_pending /\ Resume(e) = t
  BY <1>1, <1>5 DEF Whole, Resume, t
<1>7. Whole(d) /\ d.load = NoLoad /\ d.delay = e.load /\ SameControl(e, d) /\ Resume(d) = Resume(e)
  BY <1>4, <1>6, RetiredIs
<1>8. d.pc = Vector + 4 /\ d.next_pc = t /\ d.ie = Shut /\ d.delay = NoLoad /\ Resume(d) = t
  BY <1>1, <1>2, <1>5, <1>6, <1>7 DEF SameControl
<1>9. OnHandler(prog, d)
  BY <1>1, <1>2, <1>7, <1>8 DEF OnHandler
<1> QED
  BY <1>7, <1>9 DEF Somewhere

LEMMA ReturnTyped ==
  ASSUME Serving(prog, core), core.pc = Vector + 4, NEW d, d = Completed
  PROVE  Somewhere(prog, d)
<1> DEFINE f == Fetched
           w == ProgramWord(core.pc)
           e == Execute(f, w)
           t == Resume(core)
<1>1. /\ Whole(f) /\ Proper(f) /\ f.regs = core.regs /\ f.load = NoLoad /\ f.delay = core.delay
      /\ f.pc = core.next_pc /\ f.next_pc = core.next_pc + 1 /\ f.ie = Shut /\ f.branch_taken = FALSE
      /\ f.epc = core.epc /\ ~f.exception_pending
      /\ Vector \in Nat /\ Len(prog) \in Nat /\ w.op = "RFE"
  BY InHand
<1>2. core.next_pc = t /\ t \in 1 .. Len(prog) + 2
  <2> HIDE DEF Vector
  <2> QED
    BY <1>1 DEF Serving, OnHandler
<1>3. e = ReturnFromException(f)
  <2> HIDE DEF w, f
  <2> QED
    BY <1>1 DEF Execute
<1>4. e = Execute(Fetched, ProgramWord(core.pc))
  OBVIOUS
<1> HIDE DEF f, w, e, t, Vector
<1>5. /\ Proper(e) /\ e.regs = f.regs /\ e.load = f.load /\ e.delay = f.delay /\ e.pc = f.pc
      /\ e.next_pc = f.next_pc /\ e.branch_taken = f.branch_taken /\ e.ie = Popped(f.ie)
      /\ e.exception_pending = f.exception_pending
      /\ e.current_pc = f.current_pc /\ e.epc = f.epc /\ e.cause = f.cause
  BY <1>1, <1>3, ReturnIs
<1>6. Whole(e) /\ ~e.exception_pending
  BY <1>1, <1>5 DEF Whole
<1>7. Whole(d) /\ d.load = NoLoad /\ SameControl(e, d)
  BY <1>4, <1>6, RetiredIs
<1>8. d.pc = t /\ d.next_pc = t + 1 /\ d.ie = Open /\ d.branch_taken = FALSE
  BY <1>1, <1>2, <1>5, <1>7, ModesIs DEF SameControl
<1>9. d.pc \in 1 .. Len(prog) + 3 /\ d.next_pc = d.pc + 1 /\ d.branch_taken \in BOOLEAN
  <2>1. t \in 1 .. Len(prog) + 3
    BY <1>1, <1>2
  <2>2. d.branch_taken \in BOOLEAN
    BY <1>8
  <2> QED
    BY <1>8, <2>1, <2>2
<1>10. OnProgram(prog, d)
  BY <1>7, <1>8, <1>9 DEF OnProgram
<1> QED
  BY <1>7, <1>10 DEF Somewhere

(* The five of them.                                                       *)
LEMMA HandlerTyped ==
  ASSUME Serving(prog, core), NEW d, d = Completed
  PROVE  Somewhere(prog, d)
<1>1. core.pc \in {Vector, Vector + 1, Vector + 2, Vector + 3, Vector + 4}
  BY InHand
<1> HIDE DEF Vector
<1> QED
  BY <1>1, MoveTyped, AckTyped, SkipTyped, JumpTyped, ReturnTyped

-----------------------------------------------------------------------------
(* cpu_step, whatever the debugger wants: an interrupt, a stop at a        *)
(* breakpoint or an instruction.                                           *)
LEMMA StepTyped ==
  ASSUME Disciplined, OwnBreakpoints, prog \in Programs, Somewhere(prog, core),
         NEW dbg0 \in [paused : BOOLEAN, step_skip_bp : BOOLEAN], NEW pausing \in BOOLEAN,
         line \in BOOLEAN, CpuStep(dbg0, pausing)
  PROVE  /\ Somewhere(prog, core') /\ line' \in BOOLEAN
         /\ dbg' \in [paused : BOOLEAN, step_skip_bp : BOOLEAN] /\ UNCHANGED <<prog, raised>>
<1>1. Good(prog) /\ Vector \in Nat /\ Len(prog) \in Nat /\ Len(prog) + 3 < Vector
  BY GoodPrograms DEF Good, ForwardProgram, Vector
<1>2. UNCHANGED <<prog, raised>> /\ ~Halted
  BY DEF CpuStep
<1>3. OnProgram(prog, core) => Executing(prog, core)
  BY <1>1, <1>2 DEF OnProgram, Halted, Executing, Somewhere
<1>4. OnHandler(prog, core) => Serving(prog, core)
  BY <1>1 DEF Serving, Somewhere
<1> HIDE DEF Vector
<1>5. CASE Interrupted
  <2>1. core' = TakeException(Begun, "INT") /\ dbg' = [dbg0 EXCEPT !.paused = pausing] /\ UNCHANGED line
    BY <1>5 DEF CpuStep
  <2>2. ~OnHandler(prog, core)
    BY <1>5, ModesIs DEF Interrupted, OnHandler
  <2> QED
    BY <1>2, <1>3, <2>1, <2>2, InterruptTyped DEF Somewhere
<1>6. CASE ~Interrupted /\ StopsHere(dbg0)
  <2>1. core' = Fetched /\ dbg' = [dbg0 EXCEPT !.paused = TRUE] /\ UNCHANGED line
    BY <1>6 DEF CpuStep
  <2>2. core.pc < Vector
    BY <1>6 DEF StopsHere, OwnBreakpoints
  <2>3. ~OnHandler(prog, core)
    BY <1>1, <2>2 DEF OnHandler
  <2>4. Executing(prog, core)
    BY <1>3, <2>3 DEF Somewhere
  <2>5. Somewhere(prog, Fetched)
    BY <2>4, AtHand DEF Somewhere, OnProgram
  <2> QED
    BY <1>2, <2>1, <2>5
<1>7. CASE ~Interrupted /\ ~StopsHere(dbg0)
  <2>1. /\ core' = Completed /\ dbg' = [paused |-> pausing, step_skip_bp |-> FALSE]
        /\ line' = (line /\ ~Acknowledges(ProgramWord(core.pc)))
    BY <1>7 DEF CpuStep
  <2>2. Somewhere(prog, core')
    BY <1>3, <1>4, <2>1, ProgramTyped, HandlerTyped DEF Somewhere
  <2>3. line' \in BOOLEAN
    BY <2>1
  <2> QED
    BY <1>2, <2>1, <2>2, <2>3
<1> QED
  BY <1>5, <1>6, <1>7

LEMMA PowerTyped ==
  ASSUME Disciplined, NEW p \in Programs
  PROVE  Somewhere(p, Power)
<1>1. Len(p) \in Nat
  BY DEF Disciplined, ForwardProgram
<1>2. DOMAIN Power.regs = RegNames /\ DOMAIN Power = CpuFields
  BY DEF Power, RegNames, CpuFields
<1>3. /\ Power.pc = 1 /\ Power.next_pc = 2 /\ Power.load = NoLoad /\ Power.delay = NoLoad
      /\ Power.current_pc = 1 /\ Power.epc = 1 /\ Power.ie = Open
  BY DEF Power, Open
<1>4. ~Power.branch_taken /\ Power.branch_taken \in BOOLEAN
  BY DEF Power
<1>5. Power.regs \in [RegNames -> Nat] /\ Power.regs[Zero] = 0
  BY DEF Power, RegNames
<1>6. Proper(Power)
  BY <1>2, <1>3, NoLoadIs DEF Proper
<1>7. 1 \in PipeWords
  BY DEF PipeWords, Vector
<1>8. Whole(Power)
  BY <1>3, <1>5, <1>6, <1>7, NoLoadTyped DEF Whole
<1> QED
  BY <1>1, <1>3, <1>4, <1>8 DEF Somewhere, OnProgram

(* Switched on, or reset.                                                  *)
LEMMA FreshTyped ==
  [paused |-> FALSE, step_skip_bp |-> FALSE] \in [paused : BOOLEAN, step_skip_bp : BOOLEAN]
  /\ 0 \in 0 .. MaxInterrupts
BY LoadsAreNumbers

LEMMA NextPipeTyped ==
  ASSUME Disciplined, OwnBreakpoints, PipeTypes, [PipeNext]_pipe_vars
  PROVE  PipeTypes'
<1> USE DEF PipeTypes
<1>1. CASE Run
  BY <1>1, StepTyped DEF Run
<1>2. CASE SingleStep
  <2>1. [paused |-> FALSE, step_skip_bp |-> TRUE] \in [paused : BOOLEAN, step_skip_bp : BOOLEAN]
    OBVIOUS
  <2> QED
    BY <1>2, <2>1, StepTyped DEF SingleStep
<1>3. CASE TogglePause
  BY <1>3 DEF TogglePause
<1>4. CASE RaiseDeviceLine
  BY <1>4, LoadsAreNumbers DEF RaiseDeviceLine
<1>5. CASE Reset
  <2>1. /\ core' = Power /\ raised' = 0 /\ dbg' = [paused |-> FALSE, step_skip_bp |-> FALSE]
        /\ line' \in BOOLEAN /\ prog' = prog
    BY <1>5 DEF Reset
  <2> QED
    BY <2>1, FreshTyped, PowerTyped
<1>6. CASE UNCHANGED pipe_vars
  BY <1>6 DEF pipe_vars
<1> QED
  BY <1>1, <1>2, <1>3, <1>4, <1>5, <1>6 DEF PipeNext

LEMMA InitPipeTyped == ASSUME Disciplined, PipeInit PROVE PipeTypes
<1>1. /\ core = Power /\ raised = 0 /\ dbg = [paused |-> FALSE, step_skip_bp |-> FALSE]
      /\ line \in BOOLEAN /\ prog \in Programs
  BY DEF PipeInit
<1> QED
  BY <1>1, FreshTyped, PowerTyped DEF PipeTypes

-----------------------------------------------------------------------------
(* The types of the ALU: what every instruction leaves fits the register   *)
(* it is put in, a division by zero and a quotient that overflows too.     *)
LEMMA RestFits == ASSUME NEW x \in Int PROVE x % Modulus \in Unsigned
BY AluSizes, QuotientAndRest DEF Unsigned

LEMMA HalvesFit ==
  ASSUME NEW a \in Int, NEW b \in Int
  PROVE  Mult(a, b).hi \in Unsigned /\ Mult(a, b).lo \in Unsigned
<1> DEFINE x == a * b
           nn == Modulus * Modulus
           c == x \div nn
           y == x % nn
<1>1. x \in Int /\ nn \in Nat \ {0}
  BY AluSizes
<1>2. c \in Int /\ y \in 0 .. nn - 1 /\ x = (c * nn) + y
  <2> HIDE DEF x, nn
  <2> QED
    BY <1>1, QuotientAndRest
<1>3. Mult(a, b) = [hi |-> y \div Modulus, lo |-> x % Modulus]
  BY DEF Mult
<1>4. y \div Modulus \in Unsigned /\ x % Modulus \in Unsigned
  <2> HIDE DEF x, c
  <2>1. y \in 0 .. (Modulus * Modulus) - 1 /\ x = (c * (Modulus * Modulus)) + y
    BY <1>2
  <2>2. (x % (Modulus * Modulus)) \div Modulus \in Unsigned /\ x % Modulus \in Unsigned
    <3> HIDE DEF y
    <3> QED
      BY <1>1, <1>2, <2>1, HalvesAre
  <2> QED
    BY <2>2
<1> HIDE DEF x, y
<1> QED
  BY <1>3, <1>4

(* What an instruction leaves.                                             *)
Results == [hi : Unsigned, lo : Unsigned] \cup [rd : Unsigned] \cup {[trap |-> TRUE]}

LEMMA DividedFits ==
  ASSUME NEW n \in Int, NEW d \in Int \ {0}
  PROVE  Quotiented(n, d) \in Results
<1> DEFINE q == Quotient(n, d)
           r == n - (d * q)
           hi == r % Modulus
           lo == q % Modulus
<1>1. q \in Int /\ r \in Int
  <2>1. Quotient(n, d) \in Int /\ n - (d * Quotient(n, d)) \in Int
    BY QuotientIs
  <2> QED
    BY <2>1
<1>2. Quotiented(n, d) = [hi |-> hi, lo |-> lo]
  BY DEF Quotiented
<1> HIDE DEF q, r
<1>3. hi \in Unsigned /\ lo \in Unsigned
  BY <1>1, RestFits
<1> HIDE DEF hi, lo
<1> QED
  BY <1>2, <1>3 DEF Results

LEMMA ConstantsFit == /\ 0 \in Unsigned /\ 1 \in Unsigned /\ Modulus - 1 \in Unsigned
                      /\ Modulus \div 2 \in Unsigned
BY AluSizes DEF Unsigned, HalfOf

LEMMA OutcomeFits ==
  ASSUME NEW op \in Operations, NEW a \in Unsigned, NEW b \in Unsigned
  PROVE  Outcome(op, a, b) \in Results
<1> DEFINE s == AsSigned(a)
           t == AsSigned(b)
<1>1. s \in Int /\ t \in Int /\ a \in Int /\ b \in Int
  BY AsSignedIs, AluSizes DEF Unsigned
<1> HIDE DEF s, t
<1>2. Div(s, t) \in Results
  <2>1. CASE t = 0
    <3> DEFINE hi == s % Modulus
               lo == IF s >= 0 THEN Modulus - 1 ELSE 1
    <3>1. hi \in Unsigned /\ lo \in Unsigned
      BY <1>1, RestFits, ConstantsFit
    <3>2. Div(s, t) = [hi |-> hi, lo |-> lo]
      BY <2>1 DEF Div
    <3> HIDE DEF hi, lo
    <3> QED
      BY <3>1, <3>2 DEF Results
  <2>2. CASE t # 0 /\ s = MinInt /\ t = -1
    <3>1. Div(s, t) = [hi |-> 0, lo |-> Modulus \div 2]
      BY <2>2 DEF Div
    <3> QED
      BY <3>1, ConstantsFit DEF Results
  <2>3. CASE t # 0 /\ ~(s = MinInt /\ t = -1)
    BY <1>1, <2>3, DividedFits DEF Div
  <2> QED
    BY <2>1, <2>2, <2>3
<1>3. Divu(a, b) \in Results
  <2>1. CASE b = 0
    BY <2>1, ConstantsFit DEF Divu, Results
  <2>2. CASE b # 0
    BY <1>1, <2>2, DividedFits DEF Divu
  <2> QED
    BY <2>1, <2>2
<1>4. ASSUME NEW x \in Int, NEW y \in Int PROVE Mult(x, y) \in Results
  <2> DEFINE hi == ((x * y) % (Modulus * Modulus)) \div Modulus
             lo == (x * y) % Modulus
  <2>1. Mult(x, y) = [hi |-> hi, lo |-> lo]
    BY DEF Mult
  <2> HIDE DEF hi, lo
  <2>2. hi \in Unsigned /\ lo \in Unsigned
    BY <2>1, HalvesFit
  <2> QED
    BY <2>1, <2>2 DEF Results
<1>5. ASSUME NEW x \in Int PROVE Checked(x) \in Results
  <2>1. x % Modulus \in Unsigned
    BY RestFits
  <2> QED
    BY <2>1 DEF Checked, Results
<1>6. [rd |-> 0] \in Results /\ [rd |-> 1] \in Results
  BY ConstantsFit DEF Results
<1>7. CASE op \in {"DIV", "DIVU", "MULT", "MULTU"}
  BY <1>1, <1>2, <1>3, <1>4, <1>7 DEF Outcome, s, t
<1>8. CASE op \in {"ADD", "SUB"}
  <2>1. s + t \in Int /\ s - t \in Int
    BY <1>1
  <2>2. Checked(s + t) \in Results /\ Checked(s - t) \in Results
    BY <1>5, <2>1
  <2> QED
    BY <1>8, <2>2 DEF Outcome, s, t
<1>9. CASE op \in {"SLT", "SLTU"}
  <2>1. SetIf(s < t) \in Results /\ SetIf(a < b) \in Results
    <3>1. SetIf(s < t) \in {[rd |-> 0], [rd |-> 1]} /\ SetIf(a < b) \in {[rd |-> 0], [rd |-> 1]}
      BY DEF SetIf
    <3> QED
      BY <1>6, <3>1
  <2> QED
    BY <1>9, <2>1 DEF Outcome, s, t
<1> QED
  BY <1>7, <1>8, <1>9, KnownOperations

(* Every field of the instruction, and of the word.                        *)
AluTyped == /\ {alu.rs, alu.rt, alu.rd, alu.hi, alu.lo} \subseteq Unsigned
            /\ alu.trap \in BOOLEAN
            /\ alu.op \in Operations \cup {"NONE"}

LEMMA FreshFits == ASSUME NEW a \in Unsigned, NEW b \in Unsigned, alu = Operands(a, b) PROVE AluTyped
BY ConstantsFit DEF Operands, AluTyped

LEMMA NextAluTyped == ASSUME AluIInv, AluTyped, [AluNext]_alu_vars PROVE AluTyped'
<1>1. ASSUME NEW op \in Operations, Compute(op) PROVE AluTyped'
  <2> DEFINE new == Outcome(op, alu.rs, alu.rt)
  <2>1. new \in Results
    BY OutcomeFits DEF AluIInv
  <2> HIDE DEF new
  <2>2. DOMAIN new \subseteq {"rd", "hi", "lo", "trap"}
    BY <2>1 DEF Results
  <2>3. /\ alu'.rs = alu.rs /\ alu'.rt = alu.rt /\ alu'.op = op
        /\ alu'.hi = IF "hi" \in DOMAIN new THEN new["hi"] ELSE 0
        /\ alu'.lo = IF "lo" \in DOMAIN new THEN new["lo"] ELSE 0
        /\ alu'.rd = IF "rd" \in DOMAIN new THEN new["rd"] ELSE 0
        /\ alu'.trap = IF "trap" \in DOMAIN new THEN new["trap"] ELSE FALSE
    BY <1>1, <2>2, ComputedIs DEF new
  <2>4. alu'.hi \in Unsigned /\ alu'.lo \in Unsigned /\ alu'.rd \in Unsigned
    BY <2>1, <2>3, ConstantsFit DEF Results
  <2>5. alu'.trap \in BOOLEAN
    <3>1. CASE "trap" \in DOMAIN new
      <4>1. new = [trap |-> TRUE]
        BY <2>1, <3>1 DEF Results
      <4>2. new["trap"] = TRUE
        BY <4>1
      <4> QED
        BY <2>3, <3>1, <4>2
    <3>2. CASE ~("trap" \in DOMAIN new)
      BY <2>3, <3>2
    <3> QED
      BY <3>1, <3>2
  <2> QED
    BY <2>3, <2>4, <2>5 DEF AluTyped
<1>2. CASE UNCHANGED alu
  BY <1>2 DEF AluTyped
<1>3. CASE Again
  <2>1. alu.rs \in Unsigned /\ alu.rt \in Unsigned /\ alu' = Operands(alu.rs, alu.rt)
    BY <1>3 DEF AluIInv, Again
  <2> QED
    BY <2>1, ConstantsFit DEF Operands, AluTyped
<1>4. CASE \E half \in {"LEFT", "RIGHT"} : StorePartial(half) \/ LoadPartial(half)
  BY <1>2, <1>4 DEF StorePartial, LoadPartial
<1> QED
  BY <1>1, <1>2, <1>3, <1>4 DEF AluNext, alu_vars

LEMMA AluIsTyped == ASSUME AluTyped, WordIInv PROVE AluTypeOK
<1>1. word.memory = WordInMemory(word.at, word.store) /\ word.loaded = InRegister(word.at, word.load)
  BY DEF WordIInv
<1> QED
  BY <1>1 DEF AluTyped, WordIInv, AluTypeOK, WordInMemory, InRegister, Both

LEMMA InitAluTyped == AluInit => AluTyped
<1> SUFFICES ASSUME AluInit PROVE AluTyped
  OBVIOUS
<1>1. PICK a \in Unsigned, b \in Unsigned : alu = Operands(a, b)
  BY DEF AluInit
<1> QED
  BY <1>1, FreshFits

-----------------------------------------------------------------------------
(* MCCore: the units side by side.  A behaviour of the instance is one of  *)
(* every unit: the subject takes its own steps and the others stutter.     *)
LEMMA UnitsSideBySide ==
  CoreSpec => /\ QueueInit /\ [][QueueNext]_queue_vars
              /\ TimersSpec /\ Spec /\ PipeSpec /\ ICacheSpec /\ AluSpec
<1>1. CoreInit => QueueInit /\ TimersInit /\ Init /\ PipeInit /\ ICacheInit /\ AluInit
  BY DEF CoreInit
<1>2. [CoreNext]_core_vars => /\ [QueueNext]_queue_vars /\ [TimersNext]_timer_vars /\ [Next]_vars
                              /\ [PipeNext]_pipe_vars /\ [ICacheNext]_icache_vars /\ [AluNext]_alu_vars
  BY DEF CoreNext, Others, core_vars
<1> QED
  BY <1>1, <1>2, PTL DEF CoreSpec, TimersSpec, Spec, PipeSpec, ICacheSpec, AluSpec

(* The counter, the events, the cached target and a scan keep their types  *)
(* because they are the exact distances'.                                  *)
LEMMA QueueIsTyped == QueueIInv => QueueTypeOK
<1> SUFFICES ASSUME QueueIInv PROVE QueueTypeOK
  OBVIOUS
<1>1. sys \in Machines /\ DOMAIN backlog = Pending /\ faulted \in BOOLEAN
  BY DEF QueueIInv, Exact, Pending
<1>2. DOMAIN sys.evq_target_cycle \subseteq Events /\ \A e \in Pending : sys.evq_target_cycle[e] \in CycleOf
  BY <1>1 DEF Machines, Targets, Pending
<1>3. scan = Running \/ scan \in Scans
  BY DEF QueueIInv, Scanned
<1>4. /\ sys.cpu_cycle_counter \in CycleOf /\ sys.evq_next_cycle \in CycleOf
      /\ sys.downcount \in Int /\ sys.cpu_mem_stall_cycles \in Nat
  BY <1>1 DEF Machines
<1>5. ASSUME scan \in Scans
      PROVE  /\ scan.event \in 0 .. LastEvent + 1 /\ scan.pending \subseteq Events
             /\ scan.any_fired \in BOOLEAN /\ scan.soonest \in CycleOf
             /\ scan.best_delta \in 1 .. CounterModulus
  BY <1>5 DEF Scans
<1>6. \/ scan = Running
      \/ /\ scan.event \in 0 .. LastEvent + 1 /\ scan.pending \subseteq Events
         /\ scan.any_fired \in BOOLEAN /\ scan.soonest \in CycleOf
         /\ scan.best_delta \in 1 .. CounterModulus
  BY <1>3, <1>5
<1>7. faulted \in BOOLEAN /\ DOMAIN backlog = Pending /\ \A e \in Pending : backlog[e] \in Int
  BY <1>1, BacklogsAre DEF QueueIInv, Exact
<1> QED
  BY <1>2, <1>4, <1>6, <1>7 DEF QueueTypeOK

(* Every unit of the core keeps its type, for any widths, rates, costs,    *)
(* programs and breakpoints in the program.                                *)
THEOREM UnitsKeepTheirTypes ==
  ASSUME OwnBreakpoints
  PROVE  CoreSpec => []TypesOK
<1>1. QueueInit /\ [][QueueNext]_queue_vars => []QueueTypeOK
  BY SpecQueue, QueueIsTyped, PTL
<1>2. TimersSpec => []TimersTypeOK
  <2>1. TimerIInv => TimersTypeOK
    BY DEF TimerIInv
  <2> QED
    BY <2>1, InitTimers, NextTimers, PTL DEF TimersSpec
<1>3. PipeSpec => []PipeTypeOK
  <2>1. PipeInit => PipeTypes
    BY PipeConstants, InitPipeTyped
  <2>2. PipeTypes /\ [PipeNext]_pipe_vars => PipeTypes'
    BY PipeConstants, NextPipeTyped
  <2>3. PipeTypes => PipeTypeOK
    BY PipeConstants, PipeTyped
  <2> QED
    BY <2>1, <2>2, <2>3, PTL DEF PipeSpec
<1>4. ICacheSpec => []ICacheTypeOK
  <2>1. CacheIInv => ICacheTypeOK
    BY DEF CacheIInv
  <2> QED
    BY <2>1, CacheInit, CacheStep, PTL DEF ICacheSpec
<1>5. AluSpec => []AluTypeOK
  <2>1. AluInit => AluIInv /\ WordIInv /\ AluTyped
    BY InitAlu, InitAluTyped
  <2>2. AluIInv /\ WordIInv /\ AluTyped /\ [AluNext]_alu_vars => AluIInv' /\ WordIInv' /\ AluTyped'
    BY NextAlu, NextWord, NextAluTyped
  <2>3. AluIInv /\ WordIInv /\ AluTyped => AluTypeOK
    BY AluIsTyped
  <2> QED
    BY <2>1, <2>2, <2>3, PTL DEF AluSpec
<1>6. TypesOK <=> /\ QueueTypeOK /\ TimersTypeOK /\ TypeOK /\ PipeTypeOK /\ ICacheTypeOK /\ AluTypeOK
  BY DEF TypesOK
<1>7. Spec => []TypeOK
  BY TypeCorrect
<1> QED
  BY <1>1, <1>2, <1>3, <1>4, <1>5, <1>6, <1>7, UnitsSideBySide, PTL

(* The instance side by side has every safety property of its units that   *)
(* its run checks, for every value of the constants.                       *)
THEOREM UnitsAreSound ==
  ASSUME Breakpoints = {}
  PROVE  CoreSpec => /\ [](/\ ScheduleIsExact /\ TimerIsExact /\ ExactWithinOneWrap
                           /\ ResultIsTheProgram /\ FetchesThatAddress /\ DataIsExact)
                     /\ NoEventEarly
<1>1. QueueInit /\ [][QueueNext]_queue_vars => []ScheduleIsExact
  BY ExactSchedule, SpecQueue, PTL
<1>2. QueueInit /\ [][QueueNext]_queue_vars => NoEventEarly
  BY FiresInTime, SpecQueue, PTL DEF NoEventEarly
<1> QED
  BY <1>1, <1>2, UnitsSideBySide, TimersAreExact, WaitIsExact, ResultStaysTheProgram, FetchesAreTrue,
     DataStaysExact, PTL
=============================================================================
