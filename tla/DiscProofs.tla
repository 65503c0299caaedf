----------------------------- MODULE DiscProofs -----------------------------
(***************************************************************************)
(* Proofs about DiscLayout: the table of tracks that cdrom_disc_load makes *)
(* of a sheet with one image file, read sector by sector, is the disc the  *)
(* sheet describes, for sheets of any number of tracks, pauses inside and  *)
(* outside the file, and any file of patches.                              *)
(***************************************************************************)
EXTENDS DiscLayout, SequenceTheorems, WellFoundedInduction, TLAPS

(* A set of natural numbers has a least.                                   *)
LEMMA LeastOf ==
  ASSUME NEW S, S \subseteq Nat, S # {}
  PROVE  \E m \in S : \A n \in S : m <= n
<1> DEFINE R == OpToRel(<, Nat)
<1>1. IsWellFoundedOn(R, Nat)
  BY NatLessThanWellFounded
<1>2. R = {ss \in Nat \X Nat : ss[1] < ss[2]}
  BY DEF OpToRel
<1> HIDE DEF R
<1>3. PICK m \in S : \A n \in S : ~(<<n, m>> \in R)
  BY <1>1, WFMin
<1>4. ASSUME NEW n \in S PROVE m <= n
  <2>1. n \in Nat /\ m \in Nat /\ <<n, m>> \in Nat \X Nat
    OBVIOUS
  <2>2. ~(n < m)
    BY <1>2, <1>3, <2>1
  <2> QED
    BY <2>1, <2>2
<1> QED
  BY <1>4

(* The two loops over the sheet that the module writes as recursive        *)
(* functions: the silence before each track, and the joining of pieces.    *)
Shifting(pregaps) == [of |-> "SHIFT", each |-> pregaps]
Joining(pieces)   == [of |-> "JOIN", each |-> pieces]
Onward(a, x, k) == IF a.of = "SHIFT" THEN x + a.each[k]
                   ELSE IF k = 1 THEN a.each[1] ELSE x \o a.each[k]
Start(a)        == IF a.of = "SHIFT" THEN 0 ELSE <<>>

WalkStep(a, g, k) == IF k = 0 THEN Start(a) ELSE Onward(a, g[k - 1], k)
Walked(a, n, g)   == g = [k \in 0 .. n |-> WalkStep(a, g, k)]

LEMMA LoopExists ==
  ASSUME NEW a, NEW n \in Nat
  PROVE  \E g : Walked(a, n, g)
<1> DEFINE S == {i \in Nat : ~ \E g : Walked(a, i, g)}
<1> SUFFICES ASSUME S # {} PROVE FALSE
  OBVIOUS
<1>1. PICK i \in S : \A j \in S : i <= j
  <2> HIDE DEF S
  <2>1. S \subseteq Nat
    BY DEF S
  <2> QED
    BY <2>1, LeastOf
<1>2. i \in Nat /\ ~ \E g : Walked(a, i, g)
  BY <1>1
<1>3. CASE i = 0
  <2> DEFINE g == [k \in 0 .. 0 |-> Start(a)]
  <2>1. g = [k \in 0 .. 0 |-> WalkStep(a, g, k)]
    <3>1. \A k \in 0 .. 0 : k = 0
      OBVIOUS
    <3>2. \A k \in 0 .. 0 : WalkStep(a, g, k) = Start(a)
      BY <3>1 DEF WalkStep
    <3>3. g = [k \in 0 .. 0 |-> g[k]] /\ \A k \in 0 .. 0 : g[k] = Start(a)
      OBVIOUS
    <3> HIDE DEF g
    <3> QED
      BY <3>2, <3>3
  <2> QED
    BY <1>2, <1>3, <2>1 DEF Walked
<1>4. CASE i # 0
  <2>1. i - 1 \in Nat /\ ~(i <= i - 1) /\ i \in Nat
    BY <1>2, <1>4
  <2>2. i - 1 \notin S
    BY <1>1, <2>1
  <2>3. PICK f : Walked(a, i - 1, f)
    BY <2>1, <2>2
  <2> DEFINE g == [k \in 0 .. i |-> IF k = i THEN Onward(a, f[i - 1], i) ELSE f[k]]
  <2>4. \A k \in 0 .. i - 1 : f[k] = WalkStep(a, f, k)
    BY <2>3 DEF Walked
  <2>5. \A k \in 0 .. i : g[k] = IF k = i THEN Onward(a, f[i - 1], i) ELSE f[k]
    OBVIOUS
  <2> HIDE DEF g
  <2>6. \A k \in 0 .. i - 1 : g[k] = f[k]
    <3>1. \A k \in 0 .. i - 1 : k \in 0 .. i /\ k # i
      BY <2>1
    <3> QED
      BY <2>5, <3>1
  <2>7. ASSUME NEW k \in 0 .. i PROVE g[k] = WalkStep(a, g, k)
    <3>1. CASE k = 0
      <4>1. k \in 0 .. i - 1
        BY <2>1, <3>1
      <4> QED
        BY <2>4, <2>6, <3>1, <4>1 DEF WalkStep
    <3>2. CASE k # 0
      <4>1. k - 1 \in 0 .. i - 1
        BY <2>1, <3>2
      <4>2. g[k - 1] = f[k - 1]
        BY <2>6, <4>1
      <4>3. CASE k = i
        BY <2>5, <3>2, <4>2, <4>3 DEF WalkStep
      <4>4. CASE k # i
        <5>1. k \in 0 .. i - 1
          BY <2>1, <4>4
        <5> QED
          BY <2>4, <2>6, <3>2, <4>2, <5>1 DEF WalkStep
      <4> QED
        BY <4>3, <4>4
    <3> QED
      BY <3>1, <3>2
  <2>8. g = [k \in 0 .. i |-> WalkStep(a, g, k)]
    <3>1. g = [k \in 0 .. i |-> g[k]]
      BY DEF g
    <3> QED
      BY <2>7, <3>1
  <2> QED
    BY <1>2, <2>8 DEF Walked
<1> QED
  BY <1>3, <1>4

(* A property of the first numbers that goes on from one to the next, and  *)
(* is given as the set of them, holds of all.                              *)
LEMMA UpTo ==
  ASSUME NEW n \in Nat, NEW Good, NEW m \in 0 .. n, m \in Good,
         \A k \in m + 1 .. n : k - 1 \in Good => k \in Good
  PROVE  \A k \in m .. n : k \in Good
<1> DEFINE S == {k \in Nat : k \in m .. n /\ k \notin Good}
<1> SUFFICES ASSUME S # {} PROVE FALSE
  OBVIOUS
<1>1. PICK k \in S : \A j \in S : k <= j
  <2> HIDE DEF S
  <2>1. S \subseteq Nat
    BY DEF S
  <2> QED
    BY <2>1, LeastOf
<1>2. k \in Nat /\ k \in m .. n /\ k \notin Good
  BY <1>1
<1>3. k # m /\ k - 1 \in Nat /\ k - 1 \in m .. n /\ ~(k <= k - 1) /\ k \in m + 1 .. n
  BY <1>2
<1>4. k - 1 \in Good
  BY <1>1, <1>3
<1> QED
  BY <1>2, <1>3, <1>4

-----------------------------------------------------------------------------
(* FlattenSeq puts the pieces one behind the other: piece i begins where   *)
(* the pieces before it end.                                               *)
Joins(pieces, ends, T) ==
  LET n == Len(pieces)
  IN /\ n \in Nat \ {0}
     /\ \A i \in 1 .. n : pieces[i] \in Seq(T)
     /\ ends \in [0 .. n -> Nat] /\ ends[0] = 0
     /\ \A i \in 1 .. n : ends[i] = ends[i - 1] + Len(pieces[i])

HoldsPieces(s, i, pieces, ends, T) ==
  /\ s \in Seq(T) /\ Len(s) = ends[i]
  /\ \A j \in 1 .. i : \A k \in 1 .. Len(pieces[j]) : s[ends[j - 1] + k] = pieces[j][k]

LEMMA FlattenWalks ==
  ASSUME NEW pieces, Len(pieces) \in Nat \ {0}
  PROVE  \E f : /\ FlattenSeq(pieces) = f[Len(pieces)]
                /\ f[1] = pieces[1]
                /\ \A i \in 2 .. Len(pieces) : f[i] = f[i - 1] \o pieces[i]
<1> DEFINE n == Len(pieces)
           Loop(f) == [i \in 1 .. n |-> IF i = 1 THEN pieces[i] ELSE f[i - 1] \o pieces[i]]
           flatten == CHOOSE f : f = Loop(f)
<1>1. FlattenSeq(pieces) = flatten[n]
  BY DEF FlattenSeq
<1>2. PICK g : Walked(Joining(pieces), n, g)
  BY LoopExists
<1>3. \A k \in 1 .. n : g[k] = IF k = 1 THEN pieces[1] ELSE g[k - 1] \o pieces[k]
  <2> TAKE k \in 1 .. n
  <2>1. k \in 0 .. n /\ k # 0
    OBVIOUS
  <2>2. g[k] = WalkStep(Joining(pieces), g, k)
    BY <1>2, <2>1 DEF Walked
  <2> QED
    BY <2>1, <2>2 DEF WalkStep, Onward, Joining
<1> DEFINE h == [i \in 1 .. n |-> g[i]]
<1>4. h = Loop(h)
  <2>1. ASSUME NEW i \in 1 .. n
        PROVE  h[i] = IF i = 1 THEN pieces[i] ELSE h[i - 1] \o pieces[i]
    <3>1. CASE i = 1
      BY <1>3, <3>1
    <3>2. CASE i # 1
      <4>1. i - 1 \in 1 .. n
        BY <3>2
      <4>2. h[i - 1] = g[i - 1] /\ h[i] = g[i]
        BY <4>1
      <4> QED
        BY <1>3, <3>2, <4>2
    <3> QED
      BY <3>1, <3>2
  <2>2. h = [i \in 1 .. n |-> h[i]]
    OBVIOUS
  <2> HIDE DEF h
  <2> QED
    BY <2>1, <2>2
<1>5. flatten = Loop(flatten)
  <2> HIDE DEF Loop, h
  <2> QED
    BY <1>4
<1>6. \A i \in 1 .. n : flatten[i] = IF i = 1 THEN pieces[i] ELSE flatten[i - 1] \o pieces[i]
  <2> HIDE DEF flatten
  <2> QED
    BY <1>5
<1>7. 1 \in 1 .. n /\ \A i \in 2 .. n : i \in 1 .. n /\ i # 1
  OBVIOUS
<1> HIDE DEF flatten
<1> QED
  BY <1>1, <1>6, <1>7

LEMMA OneMorePiece ==
  ASSUME NEW T, NEW pieces, NEW ends, Joins(pieces, ends, T), NEW i \in 2 .. Len(pieces), NEW s,
         HoldsPieces(s, i - 1, pieces, ends, T)
  PROVE  HoldsPieces(s \o pieces[i], i, pieces, ends, T)
<1>1. /\ i - 1 \in Nat /\ i \in 1 .. Len(pieces) /\ i - 1 \in 1 .. Len(pieces)
      /\ pieces[i] \in Seq(T) /\ s \in Seq(T)
      /\ Len(s) = ends[i - 1] /\ Len(pieces[i]) \in Nat /\ Len(s) \in Nat
      /\ ends[i] = ends[i - 1] + Len(pieces[i])
  BY DEF Joins, HoldsPieces
<1> DEFINE r == s \o pieces[i]
<1>2. /\ r \in Seq(T) /\ Len(r) = Len(s) + Len(pieces[i])
      /\ \A k \in 1 .. Len(s) + Len(pieces[i]) :
            r[k] = IF k <= Len(s) THEN s[k] ELSE pieces[i][k - Len(s)]
  BY <1>1, ConcatProperties
<1> HIDE DEF r
<1>3. ASSUME NEW j \in 1 .. i, NEW k \in 1 .. Len(pieces[j]) PROVE r[ends[j - 1] + k] = pieces[j][k]
  <2>1. CASE j = i
    <3>1. ends[j - 1] + k \in 1 .. Len(s) + Len(pieces[i]) /\ ~(ends[j - 1] + k <= Len(s))
          /\ (ends[j - 1] + k) - Len(s) = k
      BY <1>1, <2>1
    <3> QED
      BY <1>2, <2>1, <3>1
  <2>2. CASE j # i
    <3>1. j \in 1 .. i - 1
      BY <1>1, <2>2
    <3>2. ends[j - 1] + k \in 1 .. Len(s)
      <4> DEFINE Good == {m \in Nat : m \in 0 .. Len(pieces) /\ (m >= j => ends[j] <= ends[m])}
      <4>1. ends \in [0 .. Len(pieces) -> Nat] /\ j \in 1 .. Len(pieces) /\ Len(pieces) \in Nat
        BY <1>1, <3>1 DEF Joins
      <4>2. \A m \in 1 .. Len(pieces) : ends[m - 1] <= ends[m]
        <5> TAKE m \in 1 .. Len(pieces)
        <5>1. ends[m] = ends[m - 1] + Len(pieces[m]) /\ Len(pieces[m]) \in Nat
          BY DEF Joins
        <5>2. m - 1 \in 0 .. Len(pieces) /\ m \in 0 .. Len(pieces)
          BY <4>1
        <5>3. ends[m - 1] \in Nat
          BY <4>1, <5>2
        <5> QED
          BY <5>1, <5>3
      <4>3. j \in Good
        BY <4>1
      <4>4. \A m \in j + 1 .. Len(pieces) : m - 1 \in Good => m \in Good
        <5> TAKE m \in j + 1 .. Len(pieces)
        <5>1. m \in 1 .. Len(pieces) /\ m - 1 \in 0 .. Len(pieces) /\ m \in 0 .. Len(pieces)
              /\ m \in Nat /\ m - 1 >= j
          BY <4>1
        <5>2. ends[m - 1] <= ends[m]
          BY <4>2, <5>1
        <5>3. j \in 0 .. Len(pieces)
          BY <4>1
        <5>4. ends[m] \in Nat /\ ends[m - 1] \in Nat /\ ends[j] \in Nat
          BY <4>1, <5>1, <5>3
        <5> QED
          BY <5>1, <5>2, <5>4
      <4>5. j \in 0 .. Len(pieces)
        BY <4>1
      <4> HIDE DEF Good
      <4>6. \A m \in j .. Len(pieces) : m \in Good
        BY <4>1, <4>3, <4>4, <4>5, UpTo
      <4>7. i - 1 \in j .. Len(pieces)
        BY <1>1, <3>1
      <4>8. ends[j] <= ends[i - 1]
        BY <4>6, <4>7 DEF Good
      <4>9. ends[j] = ends[j - 1] + Len(pieces[j]) /\ Len(pieces[j]) \in Nat
        BY <4>1 DEF Joins
      <4>10. j - 1 \in 0 .. Len(pieces) /\ j \in 0 .. Len(pieces)
        BY <4>1
      <4>11. ends[j - 1] \in Nat /\ ends[j] \in Nat /\ ends[i - 1] = Len(s)
        BY <1>1, <4>1, <4>10
      <4>12. k \in Nat /\ k >= 1 /\ k <= Len(pieces[j])
        BY <4>9
      <4> DEFINE a == ends[j - 1]
                 b == ends[j]
                 c == ends[i - 1]
                 l == Len(pieces[j])
      <4>13. /\ a \in Nat /\ b \in Nat /\ c \in Nat /\ l \in Nat /\ k \in Nat
             /\ b <= c /\ b = a + l /\ k >= 1 /\ k <= l
        BY <4>8, <4>9, <4>11, <4>12
      <4> HIDE DEF a, b, c, l
      <4>14. a + k \in 1 .. c
        BY <4>13
      <4> QED
        BY <4>11, <4>14 DEF a, c
    <3>3. s[ends[j - 1] + k] = pieces[j][k]
      BY <3>1 DEF HoldsPieces
    <3>4. ends[j - 1] + k \in 1 .. Len(s) + Len(pieces[i]) /\ ends[j - 1] + k <= Len(s)
      BY <1>1, <3>2
    <3> QED
      BY <1>2, <3>3, <3>4
  <2> QED
    BY <2>1, <2>2
<1> QED
  BY <1>1, <1>2, <1>3 DEF HoldsPieces, r

LEMMA FlattenHolds ==
  ASSUME NEW T, NEW pieces, NEW ends, Joins(pieces, ends, T)
  PROVE  HoldsPieces(FlattenSeq(pieces), Len(pieces), pieces, ends, T)
<1> DEFINE n == Len(pieces)
<1>1. n \in Nat \ {0}
  BY DEF Joins
<1>2. PICK f : /\ FlattenSeq(pieces) = f[n]
               /\ f[1] = pieces[1]
               /\ \A i \in 2 .. n : f[i] = f[i - 1] \o pieces[i]
  BY <1>1, FlattenWalks
<1> DEFINE Good == {i \in Nat : HoldsPieces(f[i], i, pieces, ends, T)}
<1>3. 1 \in Good
  <2>1. pieces[1] \in Seq(T) /\ ends[0] = 0 /\ ends[1] = ends[1 - 1] + Len(pieces[1])
        /\ Len(pieces[1]) \in Nat
    BY <1>1 DEF Joins
  <2>2. ASSUME NEW j \in 1 .. 1, NEW k \in 1 .. Len(pieces[j])
        PROVE  f[1][ends[j - 1] + k] = pieces[j][k]
    <3>1. j = 1 /\ j - 1 = 0
      OBVIOUS
    <3>2. ends[j - 1] + k = k
      BY <2>1, <3>1
    <3> QED
      BY <1>2, <3>1, <3>2
  <2> QED
    BY <1>2, <2>1, <2>2 DEF HoldsPieces
<1>4. \A i \in 1 + 1 .. n : i - 1 \in Good => i \in Good
  <2> TAKE i \in 1 + 1 .. n
  <2>1. i \in 2 .. n /\ i \in Nat
    BY <1>1
  <2>2. HAVE i - 1 \in Good
  <2>3. HoldsPieces(f[i - 1], i - 1, pieces, ends, T)
    BY <2>2
  <2>4. HoldsPieces(f[i - 1] \o pieces[i], i, pieces, ends, T)
    BY <2>1, <2>3, OneMorePiece
  <2>5. f[i] = f[i - 1] \o pieces[i]
    BY <1>2, <2>1
  <2> QED
    BY <2>1, <2>4, <2>5
<1>5. 1 \in 0 .. n /\ n \in 1 .. n
  BY <1>1
<1> HIDE DEF Good
<1>6. n \in Good
  BY <1>1, <1>3, <1>4, <1>5, UpTo
<1> QED
  BY <1>2, <1>6 DEF Good

-----------------------------------------------------------------------------
(* A dump in one image file that is not ECM, whose .sbi files list their   *)
(* sectors in ascending order.                                             *)
Ascends(p) == p \in Seq(Nat) /\ \A i, j \in 1 .. Len(p) : i < j => p[i] < p[j]
OneImage == /\ ImageSectors \in Seq(Nat \ {0}) /\ Len(ImageSectors) = 1
            /\ EcmImages = {} /\ Pregaps \subseteq Nat
            /\ \A p \in Protected : Ascends(p)

Formed(e) == /\ e.file = 1 /\ e.paused \in BOOLEAN
             /\ e.pregap \in Nat /\ e.index0 \in Nat /\ e.index1 \in Nat
             /\ e.paused => e.pregap = 0 /\ e.index0 < e.index1
             /\ ~e.paused => e.index0 = 0
             /\ e.index1 < ImageSectors[1]

Climbs(s) == /\ s \in Seq(Entries)
             /\ \A i \in 1 .. Len(s) : Formed(s[i])
             /\ s # <<>> => s[1].index1 = 0 /\ s[1].pregap = 0
             /\ \A i \in 2 .. Len(s) : First(s[i]) > s[i - 1].index1

OneFileTable == [tracks |-> [i \in 1 .. Len(sheet) |-> SingleTrack(i)],
                 total  |-> ImageSectors[1] + ShiftAt(Len(sheet))]

DiscIInv == /\ Climbs(sheet)
            /\ sbi \in Protected /\ head \in Nat
            /\ table # NoDisc => table = OneFileTable /\ sheet # <<>>

LEMMA OneFile ==
  ASSUME OneImage
  PROVE  /\ Images = {1} /\ ImageSectors[1] \in Nat /\ ImageSectors[1] # 0
         /\ Addresses = 0 .. ImageSectors[1]
<1>1. Images = {1} /\ ImageSectors[1] \in Nat /\ ImageSectors[1] # 0
  BY DEF OneImage, Images
<1>2. {ImageSectors[f] : f \in Images} = {ImageSectors[1]}
  BY <1>1
<1>3. Max({ImageSectors[1]}) = ImageSectors[1]
  BY <1>1 DEF Max
<1> QED
  BY <1>1, <1>2, <1>3 DEF Addresses

LEMMA EntriesFormed ==
  ASSUME OneImage, NEW e \in Entries, Follows(e)
  PROVE  Formed(e)
<1>1. /\ e.file \in Images /\ e.pregap \in Pregaps /\ e.paused \in BOOLEAN
      /\ e.index0 \in Addresses /\ e.index1 \in Addresses
  BY DEF Entries
<1>2. e.file = 1 /\ e.pregap \in Nat
  BY <1>1, OneFile DEF OneImage
<1>3. e.index0 \in Nat /\ e.index1 \in Nat
  BY <1>1, OneFile
<1> QED
  BY <1>1, <1>2, <1>3, OneFile DEF Follows, Formed

LEMMA LastOfSheet ==
  ASSUME OneImage, Climbs(sheet)
  PROVE  /\ sheet # <<>> => Len(sheet) \in Nat \ {0} /\ Last(sheet) = sheet[Len(sheet)] /\ LastFile = 1
         /\ sheet = <<>> => LastFile = 0
<1>1. ASSUME sheet # <<>> PROVE Len(sheet) \in Nat \ {0} /\ Last(sheet) = sheet[Len(sheet)] /\ LastFile = 1
  <2>1. Len(sheet) \in Nat \ {0} /\ Last(sheet) = sheet[Len(sheet)]
    BY <1>1, EmptySeq DEF Climbs, Last
  <2>2. Len(sheet) \in 1 .. Len(sheet)
    BY <2>1
  <2> QED
    BY <1>1, <2>1, <2>2 DEF Climbs, Formed, LastFile
<1> QED
  BY <1>1 DEF LastFile

LEMMA AppendClimbs ==
  ASSUME OneImage, Climbs(sheet), NEW e \in Entries, Follows(e)
  PROVE  Climbs(Append(sheet, e))
<1> DEFINE s == Append(sheet, e)
           n == Len(sheet)
<1>1. sheet \in Seq(Entries) /\ n \in Nat
  BY DEF Climbs
<1>2. /\ s \in Seq(Entries) /\ Len(s) = n + 1 /\ s[n + 1] = e
      /\ \A i \in 1 .. n : s[i] = sheet[i]
  BY <1>1, AppendProperties
<1> HIDE DEF s
<1>3. ASSUME NEW i \in 1 .. Len(s) PROVE Formed(s[i])
  <2>1. CASE i = n + 1
    BY <1>2, <2>1, EntriesFormed
  <2>2. CASE i # n + 1
    <3>1. i \in 1 .. n
      BY <1>1, <1>2, <2>2
    <3> QED
      BY <1>2, <3>1 DEF Climbs
  <2> QED
    BY <2>1, <2>2
<1>4. s[1].index1 = 0 /\ s[1].pregap = 0
  <2>1. CASE sheet = <<>>
    <3>1. n = 0
      BY <2>1
    <3> QED
      BY <1>2, <2>1, <3>1 DEF Follows
  <2>2. CASE sheet # <<>>
    <3>1. 1 \in 1 .. n
      BY <2>2, LastOfSheet
    <3> QED
      BY <1>2, <2>2, <3>1 DEF Climbs
  <2> QED
    BY <2>1, <2>2
<1>5. ASSUME NEW i \in 2 .. Len(s) PROVE First(s[i]) > s[i - 1].index1
  <2>1. CASE i = n + 1
    <3>1. n # 0 /\ i - 1 = n /\ n \in 1 .. n
      BY <1>1, <1>2, <2>1
    <3>2. sheet # <<>>
      BY <3>1
    <3>3. e.file = LastFile /\ Last(sheet) = sheet[n]
      BY <3>2, LastOfSheet, EntriesFormed DEF Formed
    <3> QED
      BY <1>2, <2>1, <3>1, <3>3 DEF Follows
  <2>2. CASE i # n + 1
    <3>1. i \in 2 .. n /\ i \in 1 .. n /\ i - 1 \in 1 .. n
      BY <1>1, <1>2, <2>2
    <3> QED
      BY <1>2, <3>1 DEF Climbs
  <2> QED
    BY <2>1, <2>2
<1> QED
  BY <1>2, <1>3, <1>4, <1>5 DEF Climbs, s

LEMMA DiscInitIInv == OneImage /\ DiscInit => DiscIInv
<1> SUFFICES ASSUME OneImage, DiscInit PROVE DiscIInv
  OBVIOUS
<1>1. Climbs(<<>>)
  BY EmptySeq DEF Climbs
<1> QED
  BY <1>1 DEF DiscInit, DiscIInv

LEMMA DiscNextIInv == OneImage /\ DiscIInv /\ [DiscNext]_disc_vars => DiscIInv'
<1> SUFFICES ASSUME OneImage, DiscIInv, [DiscNext]_disc_vars PROVE DiscIInv'
  OBVIOUS
<1> USE DEF DiscIInv
<1>1. CASE AddTrack
  <2>1. PICK e \in Entries : Follows(e) /\ sheet' = Append(sheet, e)
    BY <1>1 DEF AddTrack
  <2>2. Climbs(sheet')
    BY <2>1, AppendClimbs
  <2>3. table' = NoDisc /\ sbi' = sbi /\ head' = head
    BY <1>1 DEF AddTrack
  <2> QED
    BY <2>2, <2>3
<1>2. CASE LoadDisc
  <2>1. sheet # <<>>
    BY <1>2, LastOfSheet DEF LoadDisc, OneImage
  <2>2. sheet' = sheet /\ sbi' = sbi /\ head' = head /\ table' = OneFileTable
    <3>1. ~MultiFile
      BY <2>1, LastOfSheet DEF MultiFile
    <3> QED
      BY <1>2, <3>1 DEF LoadDisc, Load, Tracks, TotalSectors, OneFileTable
  <2>3. OneFileTable' = OneFileTable
    BY <2>2 DEF OneFileTable, SingleTrack, ShiftAt
  <2> QED
    BY <2>1, <2>2, <2>3
<1>3. CASE NextSector
  <2>1. sheet' = sheet /\ sbi' = sbi /\ head' = head + 1 /\ table' = table
    BY <1>3 DEF NextSector
  <2>2. OneFileTable' = OneFileTable
    BY <2>1 DEF OneFileTable, SingleTrack, ShiftAt
  <2> QED
    BY <2>1, <2>2
<1>4. CASE UNCHANGED disc_vars
  <2>1. sheet' = sheet /\ sbi' = sbi /\ head' = head /\ table' = table
    BY <1>4 DEF disc_vars
  <2>2. OneFileTable' = OneFileTable
    BY <2>1 DEF OneFileTable, SingleTrack, ShiftAt
  <2> QED
    BY <2>1, <2>2
<1> QED
  BY <1>1, <1>2, <1>3, <1>4 DEF DiscNext

-----------------------------------------------------------------------------
(* Where a track lies on the disc: the silence before it moves its sectors *)
(* of the file, so its own end is where the next one's gap begins.         *)
EndOf(i) == IF i = 0 THEN 0 ELSE Upto(i) + ShiftAt(i)
StartOf(i) == sheet[i].index1 + ShiftAt(i)

LEMMA ShiftAtIs ==
  ASSUME OneImage, Climbs(sheet)
  PROVE  /\ ShiftAt(0) = 0 /\ \A i \in 0 .. Len(sheet) : ShiftAt(i) \in Nat
         /\ \A i \in 1 .. Len(sheet) : ShiftAt(i) = ShiftAt(i - 1) + sheet[i].pregap
<1> DEFINE n == Len(sheet)
           Loop(f) == [k \in 0 .. n |-> IF k = 0 THEN 0 ELSE f[k - 1] + sheet[k].pregap]
           shift == CHOOSE f : f = Loop(f)
           pregaps == [k \in 1 .. n |-> sheet[k].pregap]
<1>1. n \in Nat /\ \A k \in 1 .. n : sheet[k].pregap \in Nat
  BY DEF Climbs, Formed
<1>2. \A i : ShiftAt(i) = shift[i]
  BY DEF ShiftAt
<1>3. PICK g : Walked(Shifting(pregaps), n, g)
  <2> HIDE DEF pregaps
  <2> QED
    BY <1>1, LoopExists
<1>4. g = Loop(g)
  <2>1. \A k \in 0 .. n : WalkStep(Shifting(pregaps), g, k) = IF k = 0 THEN 0 ELSE g[k - 1] + sheet[k].pregap
    <3> TAKE k \in 0 .. n
    <3>1. CASE k = 0
      BY <3>1 DEF WalkStep, Start, Shifting
    <3>2. CASE k # 0
      <4>1. k \in 1 .. n
        BY <1>1, <3>2
      <4>2. pregaps[k] = sheet[k].pregap
        BY <4>1
      <4> HIDE DEF pregaps
      <4> QED
        BY <3>2, <4>2 DEF WalkStep, Onward, Shifting
    <3> QED
      BY <3>1, <3>2
  <2> HIDE DEF pregaps
  <2> QED
    BY <1>3, <2>1 DEF Walked
<1>5. shift = Loop(shift)
  <2> HIDE DEF Loop
  <2> QED
    BY <1>4
<1> HIDE DEF shift
<1>6. \A k \in 0 .. n : shift[k] = IF k = 0 THEN 0 ELSE shift[k - 1] + sheet[k].pregap
  BY <1>5
<1>7. shift[0] = 0
  BY <1>1, <1>6
<1>8. \A k \in 1 .. n : shift[k] = shift[k - 1] + sheet[k].pregap
  <2>1. \A k \in 1 .. n : k \in 0 .. n /\ k # 0
    BY <1>1
  <2> QED
    BY <1>6, <2>1
<1>9. \A k \in 0 .. n : shift[k] \in Nat
  <2> DEFINE Good == {k \in Nat : shift[k] \in Nat}
  <2>1. 0 \in Good /\ 0 \in 0 .. n
    BY <1>1, <1>7
  <2>2. \A k \in 0 + 1 .. n : k - 1 \in Good => k \in Good
    BY <1>1, <1>8
  <2>3. \A k \in 0 .. n : k \in Good
    <3> HIDE DEF Good
    <3> QED
      BY <1>1, <2>1, <2>2, UpTo
  <2> QED
    BY <2>3
<1> QED
  BY <1>2, <1>7, <1>8, <1>9

LEMMA TrackLies ==
  ASSUME OneImage, Climbs(sheet), NEW i \in 1 .. Len(sheet)
  PROVE  /\ Upto(i) = IF i < Len(sheet) THEN First(sheet[i + 1]) ELSE ImageSectors[1]
         /\ Upto(i) \in Nat /\ First(sheet[i]) \in Nat /\ sheet[i].index1 \in Nat
         /\ First(sheet[i]) <= sheet[i].index1 /\ sheet[i].index1 < Upto(i)
         /\ Upto(i) <= ImageSectors[1]
         /\ StartOf(i) \in Nat /\ EndOf(i) \in Nat /\ EndOf(i - 1) \in Nat
         /\ StartOf(i) = EndOf(i - 1) + sheet[i].pregap + (sheet[i].index1 - First(sheet[i]))
         /\ EndOf(i) = StartOf(i) + (Upto(i) - sheet[i].index1)
         /\ i = 1 => StartOf(i) = 0
<1> DEFINE n == Len(sheet)
<1>1. n \in Nat /\ \A k \in 1 .. n : Formed(sheet[k])
  BY DEF Climbs
<1>2. \A k \in 1 .. n : First(sheet[k]) \in Nat /\ First(sheet[k]) <= sheet[k].index1
                        /\ sheet[k].index1 \in Nat /\ sheet[k].index1 < ImageSectors[1] /\ sheet[k].file = 1
                        /\ sheet[k].pregap \in Nat
  BY <1>1, OneFile DEF Formed, First
<1>3. \A k \in 1 .. n : /\ Upto(k) = IF k < n THEN First(sheet[k + 1]) ELSE ImageSectors[1]
                        /\ Upto(k) \in Nat /\ sheet[k].index1 < Upto(k) /\ Upto(k) <= ImageSectors[1]
  <2> TAKE k \in 1 .. n
  <2>1. CASE k < n
    <3>1. k + 1 \in 1 .. n /\ k + 1 \in 2 .. n /\ (k + 1) - 1 = k
      BY <1>1, <2>1
    <3>2. First(sheet[k + 1]) > sheet[k].index1
      BY <3>1 DEF Climbs
    <3>3. Upto(k) = First(sheet[k + 1])
      BY <1>2, <2>1, <3>1 DEF Upto
    <3>4. /\ First(sheet[k + 1]) \in Nat /\ First(sheet[k + 1]) <= sheet[k + 1].index1
          /\ sheet[k + 1].index1 \in Nat /\ sheet[k + 1].index1 < ImageSectors[1] /\ sheet[k].index1 \in Nat
      BY <1>2, <3>1
    <3> QED
      BY <2>1, <3>2, <3>3, <3>4, OneFile
  <2>2. CASE ~(k < n)
    BY <1>2, <2>2, OneFile DEF Upto
  <2> QED
    BY <2>1, <2>2
<1>4. i \in 0 .. n /\ i - 1 \in 0 .. n /\ i \in Nat /\ i # 0
  BY <1>1
<1>5. ShiftAt(i) \in Nat /\ ShiftAt(i - 1) \in Nat /\ ShiftAt(i) = ShiftAt(i - 1) + sheet[i].pregap /\ ShiftAt(0) = 0
  BY <1>4, ShiftAtIs
<1>6. EndOf(i) = Upto(i) + ShiftAt(i) /\ StartOf(i) = sheet[i].index1 + ShiftAt(i)
  BY <1>4 DEF EndOf, StartOf
<1>7. i = 1 => /\ sheet[i].index1 = 0 /\ sheet[i].pregap = 0
               /\ EndOf(i - 1) = 0
  <2>1. sheet # <<>>
    BY <1>4
  <2> QED
    BY <2>1 DEF Climbs, EndOf
<1>8. i # 1 => EndOf(i - 1) = First(sheet[i]) + ShiftAt(i - 1)
  <2> SUFFICES ASSUME i # 1 PROVE EndOf(i - 1) = First(sheet[i]) + ShiftAt(i - 1)
    OBVIOUS
  <2>1. i - 1 \in 1 .. n /\ i - 1 < n /\ (i - 1) + 1 = i /\ i - 1 # 0
    BY <1>1
  <2>2. Upto(i - 1) = First(sheet[i])
    BY <1>3, <2>1
  <2> QED
    BY <2>1, <2>2 DEF EndOf
<1>9. Upto(i) = IF i < n THEN First(sheet[i + 1]) ELSE ImageSectors[1]
  BY <1>3
<1>10. Upto(i) <= ImageSectors[1]
  BY <1>3
<1>11. Upto(i) \in Nat /\ sheet[i].index1 < Upto(i)
  BY <1>3
<1>12. /\ First(sheet[i]) \in Nat /\ sheet[i].index1 \in Nat /\ sheet[i].pregap \in Nat
       /\ First(sheet[i]) <= sheet[i].index1
  BY <1>2
<1> DEFINE u == Upto(i)
           f == First(sheet[i])
           x == sheet[i].index1
           p == sheet[i].pregap
           a == ShiftAt(i)
           b == ShiftAt(i - 1)
           start == StartOf(i)
           end == EndOf(i)
           before == EndOf(i - 1)
<1>13. /\ u \in Nat /\ f \in Nat /\ x \in Nat /\ p \in Nat /\ a \in Nat /\ b \in Nat
       /\ f <= x /\ x < u /\ a = b + p /\ end = u + a /\ start = x + a
  BY <1>5, <1>6, <1>11, <1>12
<1>14. /\ i = 1 => x = 0 /\ p = 0 /\ before = 0 /\ b = 0
       /\ i # 1 => before = f + b
  <2>1. i = 1 => i - 1 = 0
    OBVIOUS
  <2> QED
    BY <1>5, <1>7, <1>8, <2>1
<1> HIDE DEF u, f, x, p, a, b, start, end, before
<1>15. /\ start \in Nat /\ end \in Nat /\ before \in Nat
       /\ start = before + p + (x - f) /\ end = start + (u - x)
       /\ i = 1 => start = 0
  BY <1>13, <1>14
<1> QED
  BY <1>9, <1>10, <1>13, <1>15 DEF u, f, x, p, start, end, before

-----------------------------------------------------------------------------
(* Two sequences, one behind the other.                                    *)
OneAndOther(a, b, T) == a \in Seq(T) /\ b \in Seq(T)
Behind(r, a, b, T) == /\ r \in Seq(T) /\ Len(r) = Len(a) + Len(b)
                      /\ \A k \in 1 .. Len(a) : r[k] = a[k]
                      /\ \A k \in 1 .. Len(b) : r[Len(a) + k] = b[k]

LEMMA JoinedPair ==
  ASSUME NEW T, NEW a, NEW b, OneAndOther(a, b, T)
  PROVE  Behind(a \o b, a, b, T)
<1> DEFINE r == a \o b
           g == Len(a)
           h == Len(b)
<1> USE DEF OneAndOther
<1>0. g \in Nat /\ h \in Nat
  OBVIOUS
<1>1. /\ r \in Seq(T) /\ Len(r) = g + h
      /\ \A k \in 1 .. g + h : r[k] = IF k <= g THEN a[k] ELSE b[k - g]
  BY ConcatProperties
<1> HIDE DEF r, g, h
<1>2. \A k \in 1 .. g : r[k] = a[k]
  BY <1>0, <1>1
<1>3. ASSUME NEW k \in 1 .. h PROVE r[g + k] = b[k]
  <2>1. g + k \in 1 .. g + h /\ ~(g + k <= g) /\ (g + k) - g = k
    BY <1>0
  <2> QED
    BY <1>1, <2>1
<1> QED
  BY <1>1, <1>2, <1>3 DEF r, g, h, Behind

LEMMA SequenceOf ==
  ASSUME NEW S, NEW m \in Nat, NEW s \in [1 .. m -> S]
  PROVE  s \in Seq(S) /\ Len(s) = m
OBVIOUS

(* A gap and a body for each track, of the lengths the sheet gives, joined *)
(* in a row: gap i begins where track i - 1 ends, body i where track i     *)
(* starts.                                                                 *)
GapLength(i)  == sheet[i].pregap + (sheet[i].index1 - First(sheet[i]))
BodyLength(i) == Upto(i) - sheet[i].index1

LEMMA LengthsAdd ==
  ASSUME OneImage, Climbs(sheet), NEW i \in 1 .. Len(sheet)
  PROVE  /\ GapLength(i) \in Nat /\ BodyLength(i) \in Nat
         /\ EndOf(i) \in Nat /\ EndOf(i - 1) \in Nat /\ StartOf(i) \in Nat
         /\ StartOf(i) = EndOf(i - 1) + GapLength(i) /\ EndOf(i) = StartOf(i) + BodyLength(i)
<1>1. sheet[i].pregap \in Nat
  BY DEF Climbs, Formed
<1>2. /\ Upto(i) \in Nat /\ First(sheet[i]) \in Nat /\ sheet[i].index1 \in Nat
      /\ First(sheet[i]) <= sheet[i].index1 /\ sheet[i].index1 < Upto(i)
      /\ StartOf(i) \in Nat /\ EndOf(i) \in Nat /\ EndOf(i - 1) \in Nat
      /\ StartOf(i) = EndOf(i - 1) + sheet[i].pregap + (sheet[i].index1 - First(sheet[i]))
      /\ EndOf(i) = StartOf(i) + (Upto(i) - sheet[i].index1)
  BY TrackLies
<1>3. GapLength(i) = sheet[i].pregap + (sheet[i].index1 - First(sheet[i]))
      /\ BodyLength(i) = Upto(i) - sheet[i].index1
  BY DEF GapLength, BodyLength
<1>4. GapLength(i) \in Nat
  <2> DEFINE p == sheet[i].pregap
             x == sheet[i].index1
             f == First(sheet[i])
  <2>1. p \in Nat /\ x \in Nat /\ f \in Nat /\ f <= x
    BY <1>1, <1>2
  <2>2. GapLength(i) = p + (x - f)
    BY <1>3
  <2> HIDE DEF p, x, f
  <2> QED
    BY <2>1, <2>2
<1>5. BodyLength(i) \in Nat
  BY <1>2, <1>3
<1>6. StartOf(i) = EndOf(i - 1) + GapLength(i)
  BY <1>1, <1>2, <1>3
<1>7. EndOf(i) = StartOf(i) + BodyLength(i)
  BY <1>2, <1>3
<1> QED
  BY <1>2, <1>4, <1>5, <1>6, <1>7

Halves(gap, body, T) ==
  \A i \in 1 .. Len(sheet) : /\ gap[i] \in Seq(T) /\ Len(gap[i]) = GapLength(i)
                             /\ body[i] \in Seq(T) /\ Len(body[i]) = BodyLength(i)

InARow(s, gap, body) ==
  /\ Len(s) = EndOf(Len(sheet))
  /\ \A i \in 1 .. Len(sheet) : \A k \in 1 .. GapLength(i)  : s[EndOf(i - 1) + k] = gap[i][k]
  /\ \A i \in 1 .. Len(sheet) : \A k \in 1 .. BodyLength(i) : s[StartOf(i) + k] = body[i][k]

LEMMA HalvesJoin ==
  ASSUME OneImage, Climbs(sheet), sheet # <<>>,
         NEW T, NEW gap, NEW body, Halves(gap, body, T),
         NEW pieces, Len(pieces) = Len(sheet),
         \A i \in 1 .. Len(sheet) : pieces[i] = gap[i] \o body[i]
  PROVE  InARow(FlattenSeq(pieces), gap, body)
<1> DEFINE n == Len(sheet)
           ends == [i \in 0 .. n |-> EndOf(i)]
<1>1. n \in Nat \ {0} /\ n \in 1 .. n /\ n \in 0 .. n
  <2>1. n \in Nat \ {0}
    BY LastOfSheet
  <2> QED
    BY <2>1
<1>2. \A i \in 1 .. n :
         /\ GapLength(i) \in Nat /\ BodyLength(i) \in Nat
         /\ EndOf(i) \in Nat /\ EndOf(i - 1) \in Nat /\ StartOf(i) \in Nat
         /\ StartOf(i) = EndOf(i - 1) + GapLength(i) /\ EndOf(i) = StartOf(i) + BodyLength(i)
  BY LengthsAdd
<1>3. ASSUME NEW i \in 1 .. n
      PROVE  /\ pieces[i] \in Seq(T) /\ Len(pieces[i]) = GapLength(i) + BodyLength(i)
             /\ \A k \in 1 .. GapLength(i) : pieces[i][k] = gap[i][k]
             /\ \A k \in 1 .. BodyLength(i) : pieces[i][GapLength(i) + k] = body[i][k]
  <2>1. /\ gap[i] \in Seq(T) /\ Len(gap[i]) = GapLength(i)
        /\ body[i] \in Seq(T) /\ Len(body[i]) = BodyLength(i) /\ pieces[i] = gap[i] \o body[i]
        /\ GapLength(i) \in Nat /\ BodyLength(i) \in Nat
    BY <1>2 DEF Halves
  <2>2. Behind(gap[i] \o body[i], gap[i], body[i], T)
    BY <2>1, JoinedPair DEF OneAndOther
  <2> QED
    BY <2>1, <2>2 DEF Behind
<1>4. \A i \in 0 .. n : ends[i] = EndOf(i) /\ EndOf(i) \in Nat
  <2>1. EndOf(0) = 0
    BY DEF EndOf
  <2>2. \A i \in 0 .. n : i = 0 \/ i \in 1 .. n
    BY <1>1
  <2> QED
    BY <1>2, <2>1, <2>2
<1>5. ends \in [0 .. n -> Nat]
  BY <1>4
<1> HIDE DEF ends
<1>6. Joins(pieces, ends, T)
  <2>1. ends[0] = 0
    BY <1>1, <1>4 DEF EndOf
  <2>2. ASSUME NEW i \in 1 .. n PROVE ends[i] = ends[i - 1] + Len(pieces[i])
    <3>1. i \in 0 .. n /\ i - 1 \in 0 .. n
      BY <1>1
    <3>2. ends[i] = EndOf(i) /\ ends[i - 1] = EndOf(i - 1)
      BY <1>4, <3>1
    <3>3. /\ GapLength(i) \in Nat /\ BodyLength(i) \in Nat
          /\ EndOf(i) \in Nat /\ EndOf(i - 1) \in Nat /\ StartOf(i) \in Nat
          /\ StartOf(i) = EndOf(i - 1) + GapLength(i) /\ EndOf(i) = StartOf(i) + BodyLength(i)
      BY <1>2
    <3>4. Len(pieces[i]) = GapLength(i) + BodyLength(i)
      BY <1>3
    <3> QED
      BY <3>2, <3>3, <3>4
  <2> QED
    BY <1>1, <1>3, <1>5, <2>1, <2>2 DEF Joins
<1> DEFINE s == FlattenSeq(pieces)
<1>7. HoldsPieces(s, n, pieces, ends, T)
  BY <1>6, FlattenHolds
<1> HIDE DEF s
<1>8. /\ Len(s) = EndOf(n)
      /\ \A i \in 1 .. n : \A k \in 1 .. Len(pieces[i]) : s[ends[i - 1] + k] = pieces[i][k]
  BY <1>1, <1>4, <1>7 DEF HoldsPieces
<1>9. ASSUME NEW i \in 1 .. n, NEW k \in 1 .. GapLength(i) PROVE s[EndOf(i - 1) + k] = gap[i][k]
  <2>1. i - 1 \in 0 .. n /\ ends[i - 1] = EndOf(i - 1)
    BY <1>1, <1>4
  <2>2. k \in 1 .. Len(pieces[i])
    <3>1. GapLength(i) \in Nat /\ BodyLength(i) \in Nat /\ Len(pieces[i]) = GapLength(i) + BodyLength(i)
      BY <1>2, <1>3
    <3> QED
      BY <3>1
  <2> QED
    BY <1>3, <1>8, <2>1, <2>2
<1>10. ASSUME NEW i \in 1 .. n, NEW k \in 1 .. BodyLength(i) PROVE s[StartOf(i) + k] = body[i][k]
  <2>1. i - 1 \in 0 .. n /\ ends[i - 1] = EndOf(i - 1)
    BY <1>1, <1>4
  <2>2. GapLength(i) + k \in 1 .. Len(pieces[i])
    <3>1. GapLength(i) \in Nat /\ BodyLength(i) \in Nat
      BY <1>2
    <3>2. Len(pieces[i]) = GapLength(i) + BodyLength(i)
      BY <1>3
    <3> QED
      BY <3>1, <3>2
  <2>3. s[EndOf(i - 1) + (GapLength(i) + k)] = pieces[i][GapLength(i) + k]
    BY <1>8, <2>1, <2>2
  <2>4. EndOf(i - 1) + (GapLength(i) + k) = StartOf(i) + k
    BY <1>2
  <2> QED
    BY <1>3, <2>3, <2>4
<1> QED
  BY <1>8, <1>9, <1>10 DEF InARow, s

Sectors  == Nat \X Nat
QRecords == [track : Nat, index : Nat, rel : Nat]

(* What the gap and the body of a track hold, and what Q says of them.     *)
GapHolds(i, k) == IF k <= sheet[i].pregap THEN Silence
                  ELSE <<1, First(sheet[i]) + (k - sheet[i].pregap) - 1>>

LEMMA GapAndBody ==
  ASSUME OneImage, Climbs(sheet), NEW i \in 1 .. Len(sheet)
  PROVE  /\ Gap(i) \in Seq(Sectors) /\ Len(Gap(i)) = GapLength(i) /\ GapLength(i) \in Nat
         /\ \A k \in 1 .. GapLength(i) : Gap(i)[k] = GapHolds(i, k)
         /\ Body(i) \in Seq(Sectors) /\ Len(Body(i)) = BodyLength(i) /\ BodyLength(i) \in Nat
         /\ \A k \in 1 .. BodyLength(i) : Body(i)[k] = <<1, sheet[i].index1 + k - 1>>
<1> DEFINE p == sheet[i].pregap
           first == First(sheet[i])
           x == sheet[i].index1
           u == Upto(i)
<1>1. p \in Nat /\ sheet[i].file = 1
  BY DEF Climbs, Formed
<1>2. first \in Nat /\ x \in Nat /\ u \in Nat /\ first <= x /\ x < u
  BY TrackLies
<1>3. Gap(i) = [k \in 1 .. p |-> Silence] \o Span(1, first, x) /\ Body(i) = Span(1, x, u)
      /\ GapLength(i) = p + (x - first) /\ BodyLength(i) = u - x
      /\ \A k : GapHolds(i, k) = IF k <= p THEN Silence ELSE <<1, first + (k - p) - 1>>
  BY <1>1 DEF Gap, Body, GapLength, BodyLength, GapHolds
<1> HIDE DEF p, first, x, u
<1>4. ASSUME NEW from \in Nat, NEW upto \in Nat, from <= upto
      PROVE  /\ Span(1, from, upto) \in Seq(Sectors) /\ Len(Span(1, from, upto)) = upto - from
             /\ \A k \in 1 .. upto - from : Span(1, from, upto)[k] = <<1, from + k - 1>>
  <2>1. PICK m \in Nat : m = upto - from
    BY <1>4
  <2>2. \A k \in 1 .. m : from + k - 1 \in Nat
    BY <2>1
  <2> DEFINE sp == [k \in 1 .. m |-> <<1, from + k - 1>>]
  <2>3. sp \in [1 .. m -> Sectors] /\ \A k \in 1 .. m : sp[k] = <<1, from + k - 1>>
    BY <2>1, <2>2 DEF Sectors
  <2>4. Span(1, from, upto) = sp
    BY <2>1 DEF Span
  <2> HIDE DEF sp
  <2>5. sp \in Seq(Sectors) /\ Len(sp) = m
    BY <2>3, SequenceOf
  <2> QED
    BY <2>1, <2>3, <2>4, <2>5
<1>5. Body(i) \in Seq(Sectors) /\ Len(Body(i)) = u - x /\ u - x \in Nat
      /\ \A k \in 1 .. u - x : Body(i)[k] = <<1, x + k - 1>>
  <2>1. x \in Nat /\ u \in Nat /\ x <= u /\ u - x \in Nat
    BY <1>2
  <2>2. /\ Span(1, x, u) \in Seq(Sectors) /\ Len(Span(1, x, u)) = u - x
        /\ \A k \in 1 .. u - x : Span(1, x, u)[k] = <<1, x + k - 1>>
    BY <1>4, <2>1
  <2> QED
    BY <1>3, <2>1, <2>2
<1> DEFINE quiet == [k \in 1 .. p |-> Silence]
           sp == Span(1, first, x)
<1>6. quiet \in Seq(Sectors) /\ Len(quiet) = p /\ \A k \in 1 .. p : quiet[k] = Silence
  <2>1. Silence \in Sectors
    BY DEF Silence, Sectors
  <2>2. quiet \in [1 .. p -> Sectors] /\ \A k \in 1 .. p : quiet[k] = Silence
    BY <2>1
  <2> HIDE DEF quiet
  <2> QED
    BY <1>1, <2>2 DEF p
<1>7. sp \in Seq(Sectors) /\ Len(sp) = x - first /\ x - first \in Nat
      /\ \A k \in 1 .. x - first : sp[k] = <<1, first + k - 1>>
  <2>1. x \in Nat /\ first \in Nat /\ first <= x /\ x - first \in Nat
    BY <1>2
  <2> QED
    BY <1>4, <2>1
<1>8. Gap(i) = quiet \o sp
  BY <1>3
<1> HIDE DEF quiet, sp
<1>9. /\ Gap(i) \in Seq(Sectors) /\ Len(Gap(i)) = p + (x - first)
      /\ \A k \in 1 .. p + (x - first) : Gap(i)[k] = IF k <= p THEN quiet[k] ELSE sp[k - p]
  BY <1>6, <1>7, <1>8, ConcatProperties
<1>10. ASSUME NEW k \in 1 .. p + (x - first) PROVE Gap(i)[k] = GapHolds(i, k)
  <2>1. p \in Nat /\ k \in Nat
    BY <1>1, <1>7 DEF p
  <2>2. CASE k <= p
    BY <1>3, <1>6, <1>9, <2>1, <2>2
  <2>3. CASE ~(k <= p)
    <3>1. k - p \in 1 .. x - first
      BY <1>7, <2>1, <2>3
    <3> QED
      BY <1>3, <1>7, <1>9, <2>3, <3>1
  <2> QED
    BY <2>2, <2>3
<1>11. p + (x - first) \in Nat
  BY <1>1, <1>7 DEF p
<1>12. \A k \in 1 .. u - x : Body(i)[k] = <<1, sheet[i].index1 + k - 1>>
  BY <1>5 DEF x
<1> QED
  BY <1>3, <1>5, <1>9, <1>10, <1>11, <1>12

LEMMA PressedHolds ==
  ASSUME OneImage, Climbs(sheet), sheet # <<>>
  PROVE  /\ Len(Pressed) = EndOf(Len(sheet))
         /\ \A i \in 1 .. Len(sheet) : \A k \in 1 .. GapLength(i) :
               Pressed[EndOf(i - 1) + k] = GapHolds(i, k)
         /\ \A i \in 1 .. Len(sheet) : \A k \in 1 .. BodyLength(i) :
               Pressed[StartOf(i) + k] = <<1, sheet[i].index1 + k - 1>>
<1> DEFINE n == Len(sheet)
           gap == [i \in 1 .. n |-> Gap(i)]
           body == [i \in 1 .. n |-> Body(i)]
           pieces == [i \in 1 .. n |-> Gap(i) \o Body(i)]
<1>1. n \in Nat
  BY DEF Climbs
<1>2. \A i \in 1 .. n : gap[i] = Gap(i) /\ body[i] = Body(i) /\ pieces[i] = gap[i] \o body[i]
  OBVIOUS
<1>3. Len(pieces) = n
  BY <1>1
<1>4. Pressed = FlattenSeq(pieces)
  BY DEF Pressed
<1> HIDE DEF gap, body, pieces
<1>5. Halves(gap, body, Sectors)
  BY <1>2, GapAndBody DEF Halves
<1>6. InARow(Pressed, gap, body)
  BY <1>2, <1>3, <1>4, <1>5, HalvesJoin
<1>7. ASSUME NEW i \in 1 .. n, NEW k \in 1 .. GapLength(i) PROVE Pressed[EndOf(i - 1) + k] = GapHolds(i, k)
  <2>1. gap[i][k] = GapHolds(i, k)
    BY <1>2, GapAndBody
  <2> QED
    BY <1>6, <2>1 DEF InARow
<1>8. ASSUME NEW i \in 1 .. n, NEW k \in 1 .. BodyLength(i)
      PROVE  Pressed[StartOf(i) + k] = <<1, sheet[i].index1 + k - 1>>
  <2>1. body[i][k] = <<1, sheet[i].index1 + k - 1>>
    BY <1>2, GapAndBody
  <2> QED
    BY <1>6, <2>1 DEF InARow
<1> QED
  BY <1>6, <1>7, <1>8 DEF InARow

GapReports(i)  == [k \in 1 .. Len(Gap(i)) |-> Q(i, 0, Len(Gap(i)) - k + 1)]
BodyReports(i) == [k \in 1 .. Len(Body(i)) |-> Q(i, 1, k - 1)]

LEMMA ReportsLie ==
  ASSUME OneImage, Climbs(sheet), NEW i \in 1 .. Len(sheet)
  PROVE  /\ GapReports(i) \in Seq(QRecords) /\ Len(GapReports(i)) = GapLength(i)
         /\ \A k \in 1 .. GapLength(i) : GapReports(i)[k] = Q(i, 0, GapLength(i) - k + 1)
         /\ BodyReports(i) \in Seq(QRecords) /\ Len(BodyReports(i)) = BodyLength(i)
         /\ \A k \in 1 .. BodyLength(i) : BodyReports(i)[k] = Q(i, 1, k - 1)
<1>1. PICK g, b : g = Len(Gap(i)) /\ b = Len(Body(i))
  OBVIOUS
<1>2. g = GapLength(i) /\ b = BodyLength(i) /\ g \in Nat /\ b \in Nat /\ i \in Nat
  BY <1>1, GapAndBody DEF Climbs
<1> DEFINE q0 == [k \in 1 .. g |-> Q(i, 0, g - k + 1)]
           q1 == [k \in 1 .. b |-> Q(i, 1, k - 1)]
<1>3. /\ \A k \in 1 .. g : Q(i, 0, g - k + 1) \in QRecords
      /\ \A k \in 1 .. b : Q(i, 1, k - 1) \in QRecords
  BY <1>2 DEF Q, QRecords
<1>4. q0 \in [1 .. g -> QRecords] /\ \A k \in 1 .. g : q0[k] = Q(i, 0, g - k + 1)
  BY <1>3
<1>5. q1 \in [1 .. b -> QRecords] /\ \A k \in 1 .. b : q1[k] = Q(i, 1, k - 1)
  BY <1>3
<1>6. GapReports(i) = q0 /\ BodyReports(i) = q1
  BY <1>1 DEF GapReports, BodyReports
<1> HIDE DEF q0, q1
<1>7. q0 \in Seq(QRecords) /\ Len(q0) = g
  BY <1>2, <1>4, SequenceOf
<1>8. q1 \in Seq(QRecords) /\ Len(q1) = b
  BY <1>2, <1>5, SequenceOf
<1> QED
  BY <1>2, <1>4, <1>5, <1>6, <1>7, <1>8

LEMMA PressedQHolds ==
  ASSUME OneImage, Climbs(sheet), sheet # <<>>
  PROVE  /\ Len(PressedQ) = EndOf(Len(sheet))
         /\ \A i \in 1 .. Len(sheet) : \A k \in 1 .. GapLength(i) :
               PressedQ[EndOf(i - 1) + k] = Q(i, 0, GapLength(i) - k + 1)
         /\ \A i \in 1 .. Len(sheet) : \A k \in 1 .. BodyLength(i) :
               PressedQ[StartOf(i) + k] = Q(i, 1, k - 1)
<1> DEFINE n == Len(sheet)
           gap == [i \in 1 .. n |-> GapReports(i)]
           body == [i \in 1 .. n |-> BodyReports(i)]
           pieces == [i \in 1 .. n |-> GapReports(i) \o BodyReports(i)]
<1>1. n \in Nat
  BY DEF Climbs
<1>2. \A i \in 1 .. n : gap[i] = GapReports(i) /\ body[i] = BodyReports(i) /\ pieces[i] = gap[i] \o body[i]
  OBVIOUS
<1>3. Len(pieces) = n
  BY <1>1
<1>4. PressedQ = FlattenSeq(pieces)
  BY DEF PressedQ, GapReports, BodyReports
<1> HIDE DEF gap, body, pieces
<1>5. Halves(gap, body, QRecords)
  BY <1>2, ReportsLie DEF Halves
<1>6. InARow(PressedQ, gap, body)
  BY <1>2, <1>3, <1>4, <1>5, HalvesJoin
<1>7. ASSUME NEW i \in 1 .. n, NEW k \in 1 .. GapLength(i)
      PROVE  PressedQ[EndOf(i - 1) + k] = Q(i, 0, GapLength(i) - k + 1)
  <2>1. gap[i][k] = Q(i, 0, GapLength(i) - k + 1)
    BY <1>2, ReportsLie
  <2> QED
    BY <1>6, <2>1 DEF InARow
<1>8. ASSUME NEW i \in 1 .. n, NEW k \in 1 .. BodyLength(i) PROVE PressedQ[StartOf(i) + k] = Q(i, 1, k - 1)
  <2>1. body[i][k] = Q(i, 1, k - 1)
    BY <1>2, ReportsLie
  <2> QED
    BY <1>6, <2>1 DEF InARow
<1> QED
  BY <1>6, <1>7, <1>8 DEF InARow
-----------------------------------------------------------------------------
(* One look of sbi_find at the middle of what is left, and what it seeks.   *)
Halving(lba, S, lo, hi) ==
  LET mid == lo + (hi - lo) \div 2
  IN IF lo > hi THEN FALSE
     ELSE IF sbi[mid + 1] = lba THEN TRUE
     ELSE IF sbi[mid + 1] < lba THEN S[<<mid + 1, hi>>]
     ELSE mid # 0 /\ S[<<lo, mid - 1>>]

Listed(lba, lo, hi) == \E m \in lo .. hi : sbi[m + 1] = lba

(* The middle lies in what is left.                                        *)
LEMMA MiddleOf ==
  ASSUME NEW lo \in Nat, NEW hi \in Nat, lo <= hi
  PROVE  lo + (hi - lo) \div 2 \in lo .. hi
<1>1. \A d \in Nat : d \div 2 \in Nat /\ d \div 2 <= d
  OBVIOUS
<1>2. hi - lo \in Nat
  OBVIOUS
<1> QED
  BY <1>1, <1>2

(* One step of the search keeps what it is to say.                         *)
LEMMA HalvingKeeps ==
  ASSUME Ascends(sbi), NEW lba \in Nat, NEW lo \in 0 .. Len(sbi), NEW hi \in 0 .. Len(sbi) - 1, NEW S,
         \A l \in 0 .. Len(sbi), h \in 0 .. Len(sbi) - 1 :
            h - l < hi - lo => S[<<l, h>>] = Listed(lba, l, h)
  PROVE  Halving(lba, S, lo, hi) = Listed(lba, lo, hi)
<1> DEFINE L == Len(sbi)
           mid == lo + (hi - lo) \div 2
<1>1. L \in Nat /\ lo \in Nat /\ hi \in Nat /\ hi <= L - 1 /\ lo <= L
  BY DEF Ascends
<1>2. CASE lo > hi
  BY <1>1, <1>2 DEF Halving, Listed
<1>3. CASE ~(lo > hi)
  <2>1. mid \in lo .. hi
    BY <1>1, <1>3, MiddleOf
  <2> DEFINE v == sbi[mid + 1]
  <2>2. Halving(lba, S, lo, hi) = IF v = lba THEN TRUE
                                  ELSE IF v < lba THEN S[<<mid + 1, hi>>]
                                  ELSE mid # 0 /\ S[<<lo, mid - 1>>]
    BY <1>3 DEF Halving
  <2> HIDE DEF mid
  <2>3. \A m \in lo .. hi : m + 1 \in 1 .. L /\ sbi[m + 1] \in Nat
    BY <1>1 DEF Ascends
  <2>4. \A j, k \in lo .. hi : j < k => sbi[j + 1] < sbi[k + 1]
    BY <1>1, <2>3 DEF Ascends
  <2>5. CASE v = lba
    BY <2>1, <2>2, <2>5 DEF Listed
  <2>6. CASE v # lba /\ v < lba
    <3>1. mid + 1 \in 0 .. L /\ hi - (mid + 1) < hi - lo
      BY <1>1, <2>1
    <3>2. S[<<mid + 1, hi>>] = Listed(lba, mid + 1, hi)
      BY <3>1
    <3>3. \A m \in lo .. hi : sbi[m + 1] = lba => m \in mid + 1 .. hi
      <4> TAKE m \in lo .. hi
      <4>1. HAVE sbi[m + 1] = lba
      <4>2. m < mid => sbi[m + 1] < v
        BY <2>1, <2>4
      <4>3. m # mid /\ ~(m < mid)
        BY <2>1, <2>3, <2>6, <4>1, <4>2
      <4> QED
        BY <1>1, <2>1, <4>3
    <3>4. \A m \in mid + 1 .. hi : m \in lo .. hi
      BY <1>1, <2>1
    <3>5. Listed(lba, mid + 1, hi) = Listed(lba, lo, hi)
      BY <3>3, <3>4 DEF Listed
    <3> QED
      BY <2>2, <2>6, <3>2, <3>5
  <2>7. CASE v # lba /\ ~(v < lba)
    <3>1. \A m \in lo .. hi : sbi[m + 1] = lba => m \in lo .. mid - 1
      <4> TAKE m \in lo .. hi
      <4>1. HAVE sbi[m + 1] = lba
      <4>2. m # mid /\ ~(mid < m)
        BY <2>1, <2>3, <2>4, <2>7, <4>1
      <4> QED
        BY <1>1, <2>1, <4>2
    <3>2. CASE mid = 0
      <4>1. ~Listed(lba, lo, hi)
        BY <1>1, <2>1, <3>1, <3>2 DEF Listed
      <4>2. Halving(lba, S, lo, hi) = (mid # 0 /\ S[<<lo, mid - 1>>])
        BY <2>2, <2>7
      <4>3. (mid # 0 /\ S[<<lo, mid - 1>>]) = FALSE
        BY <3>2
      <4>4. Listed(lba, lo, hi) = FALSE
        BY <4>1 DEF Listed
      <4> QED
        BY <4>2, <4>3, <4>4
    <3>3. CASE mid # 0
      <4>1. mid - 1 \in 0 .. L - 1 /\ (mid - 1) - lo < hi - lo
        BY <1>1, <2>1, <3>3
      <4>2. S[<<lo, mid - 1>>] = Listed(lba, lo, mid - 1)
        BY <4>1
      <4>3. \A m \in lo .. mid - 1 : m \in lo .. hi
        BY <1>1, <2>1
      <4>4. Listed(lba, lo, mid - 1) = Listed(lba, lo, hi)
        BY <3>1, <4>3 DEF Listed
      <4>5. Halving(lba, S, lo, hi) = (mid # 0 /\ S[<<lo, mid - 1>>])
        BY <2>2, <2>7
      <4>6. (mid # 0 /\ S[<<lo, mid - 1>>]) = (mid # 0 /\ Listed(lba, lo, hi))
        BY <4>2, <4>4
      <4>7. (mid # 0 /\ Listed(lba, lo, hi)) = Listed(lba, lo, hi)
        BY <3>3 DEF Listed
      <4> QED
        BY <4>5, <4>6, <4>7
    <3> QED
      BY <3>2, <3>3
  <2> QED
    BY <2>5, <2>6, <2>7
<1> QED
  BY <1>2, <1>3

(* The search ends with the right answer for every span it is given.       *)
LEMMA SearchFinds ==
  ASSUME Ascends(sbi), sbi # <<>>, NEW lba \in Nat
  PROVE  SbiFind(lba) <=> Listed(lba, 0, Len(sbi) - 1)
<1> DEFINE L == Len(sbi)
           Spans == (0 .. L) \X (0 .. L - 1)
           Loop(f) == [p \in Spans |-> Halving(lba, f, p[1], p[2])]
           Search == CHOOSE f : f = Loop(f)
<1>1. SbiFind(lba) <=> Search[<<0, L - 1>>]
  BY DEF SbiFind, Halving
<1>2. L \in Nat \ {0}
  BY DEF Ascends
<1>3. \A p \in Spans : p[1] \in 0 .. L /\ p[2] \in 0 .. L - 1 /\ p = <<p[1], p[2]>>
  OBVIOUS
<1> DEFINE g == [p \in Spans |-> Listed(lba, p[1], p[2])]
<1>4. g = Loop(g)
  <2>1. \A l \in 0 .. L, h \in 0 .. L - 1 : g[<<l, h>>] = Listed(lba, l, h)
    OBVIOUS
  <2> HIDE DEF g
  <2>2. ASSUME NEW l \in 0 .. L, NEW h \in 0 .. L - 1 PROVE Halving(lba, g, l, h) = Listed(lba, l, h)
    BY <2>1, HalvingKeeps
  <2>3. \A p \in Spans : Halving(lba, g, p[1], p[2]) = Listed(lba, p[1], p[2])
    BY <1>3, <2>2
  <2> QED
    BY <2>3 DEF g
<1>5. Search = Loop(Search)
  <2> HIDE DEF Loop, g
  <2> QED
    BY <1>4
<1> HIDE DEF Search, g
<1>6. \A p \in Spans : Search[p] = Halving(lba, Search, p[1], p[2])
  BY <1>5
<1>7. \A l \in 0 .. L, h \in 0 .. L - 1 : Search[<<l, h>>] = Halving(lba, Search, l, h)
  BY <1>6
<1>8. \A l \in 0 .. L, h \in 0 .. L - 1 : Search[<<l, h>>] = Listed(lba, l, h)
  <2> DEFINE Width(l, h) == IF l > h THEN 0 ELSE h - l
             Bad == {d \in Nat : \E l \in 0 .. L, h \in 0 .. L - 1 :
                                   Width(l, h) = d /\ Search[<<l, h>>] # Listed(lba, l, h)}
  <2>1. \A l \in 0 .. L, h \in 0 .. L - 1 : Width(l, h) \in Nat
    BY <1>2
  <2>2. SUFFICES ASSUME Bad # {} PROVE FALSE
    BY <2>1
  <2>3. PICK d \in Bad : \A e \in Bad : d <= e
    <3> HIDE DEF Bad
    <3>1. Bad \subseteq Nat
      BY DEF Bad
    <3> QED
      BY <2>2, <3>1, LeastOf
  <2>4. PICK l \in 0 .. L, h \in 0 .. L - 1 : Width(l, h) = d /\ Search[<<l, h>>] # Listed(lba, l, h)
    BY <2>3
  <2>5. l \in Nat /\ h \in Nat
    BY <1>2
  <2>6. CASE l > h
    <3>1. Search[<<l, h>>] = FALSE
      BY <1>7, <2>6 DEF Halving
    <3>2. Listed(lba, l, h) = FALSE
      BY <2>5, <2>6 DEF Listed
    <3> QED
      BY <2>4, <3>1, <3>2
  <2>7. CASE ~(l > h)
    <3>1. ASSUME NEW a \in 0 .. L, NEW b \in 0 .. L - 1, b - a < h - l
          PROVE  Search[<<a, b>>] = Listed(lba, a, b)
      <4>1. Width(a, b) < d \/ a > b
        BY <1>2, <2>4, <2>5, <2>7, <3>1
      <4>2. CASE a > b
        <5>1. a \in Nat /\ b \in Nat
          BY <1>2
        <5>2. Search[<<a, b>>] = FALSE
          BY <1>7, <4>2 DEF Halving
        <5>3. Listed(lba, a, b) = FALSE
          BY <4>2, <5>1 DEF Listed
        <5> QED
          BY <5>2, <5>3
      <4>3. CASE Width(a, b) < d
        <5>1. Width(a, b) \in Nat /\ d \in Nat /\ ~(d <= Width(a, b))
          BY <2>1, <2>3, <4>3
        <5>2. Width(a, b) \notin Bad
          BY <2>3, <5>1
        <5> HIDE DEF Width
        <5> QED
          BY <5>1, <5>2
      <4> QED
        BY <4>1, <4>2, <4>3
    <3>2. Halving(lba, Search, l, h) = Listed(lba, l, h)
      BY <3>1, HalvingKeeps
    <3> QED
      BY <1>7, <2>4, <3>2
  <2> QED
    BY <2>6, <2>7
<1>9. 0 \in 0 .. L /\ L - 1 \in 0 .. L - 1
  BY <1>2
<1>10. Search[<<0, L - 1>>] = Listed(lba, 0, L - 1)
  BY <1>8, <1>9
<1> QED
  BY <1>1, <1>10

(* A list in ascending order is searched without a miss.                   *)
LEMMA SbiFinds ==
  ASSUME OneImage, sbi \in Protected, NEW lba \in Nat
  PROVE  SbiFind(lba) <=> lba \in ToSet(sbi)
<1>1. Ascends(sbi) /\ Len(sbi) \in Nat
  BY DEF OneImage, Ascends
<1>2. CASE sbi = <<>>
  <2>1. ~SbiFind(lba)
    BY <1>2 DEF SbiFind
  <2>2. Len(sbi) = 0
    BY <1>2
  <2>3. lba \notin ToSet(sbi)
    BY <2>2 DEF ToSet
  <2> QED
    BY <2>1, <2>3
<1>3. CASE sbi # <<>>
  <2>1. SbiFind(lba) <=> Listed(lba, 0, Len(sbi) - 1)
    BY <1>1, <1>3, SearchFinds
  <2>2. Listed(lba, 0, Len(sbi) - 1) <=> \E k \in 1 .. Len(sbi) : sbi[k] = lba
    <3>1. ASSUME NEW m \in 0 .. Len(sbi) - 1, sbi[m + 1] = lba
          PROVE  \E k \in 1 .. Len(sbi) : sbi[k] = lba
      <4>1. m + 1 \in 1 .. Len(sbi)
        BY <1>1
      <4> QED
        BY <3>1, <4>1
    <3>2. ASSUME NEW k \in 1 .. Len(sbi), sbi[k] = lba
          PROVE  \E m \in 0 .. Len(sbi) - 1 : sbi[m + 1] = lba
      <4>1. k - 1 \in 0 .. Len(sbi) - 1 /\ (k - 1) + 1 = k
        BY <1>1
      <4> QED
        BY <3>2, <4>1
    <3> QED
      BY <3>1, <3>2 DEF Listed
  <2>3. lba \in ToSet(sbi) <=> \E k \in 1 .. Len(sbi) : sbi[k] = lba
    BY DEF ToSet
  <2> QED
    BY <2>1, <2>2, <2>3
<1> QED
  BY <1>2, <1>3

-----------------------------------------------------------------------------
(* The track that the table gives to a sector: the last to have started.   *)
Loaded == OneImage /\ Climbs(sheet) /\ sheet # <<>> /\ table = OneFileTable

LEMMA TableIs ==
  ASSUME Loaded
  PROVE  /\ Len(table.tracks) = Len(sheet) /\ Len(sheet) \in Nat \ {0}
         /\ table.total = EndOf(Len(sheet))
         /\ \A i \in 1 .. Len(sheet) :
               /\ table.tracks[i] = SingleTrack(i)
               /\ table.tracks[i].start_lba = StartOf(i)
               /\ table.tracks[i].file = 1 /\ table.tracks[i].file_offset = sheet[i].index1
<1> DEFINE n == Len(sheet)
<1>1. n \in Nat \ {0}
  BY LastOfSheet DEF Loaded
<1>2. table.total = ImageSectors[1] + ShiftAt(n) /\ table.tracks = [i \in 1 .. n |-> SingleTrack(i)]
  BY DEF Loaded, OneFileTable
<1>3. n \in 1 .. n
  BY <1>1
<1>4. Upto(n) = ImageSectors[1]
  BY <1>1, <1>3, TrackLies DEF Loaded
<1>5. table.total = EndOf(n)
  BY <1>1, <1>2, <1>4 DEF EndOf
<1>6. ASSUME NEW i \in 1 .. n
      PROVE  /\ table.tracks[i] = SingleTrack(i)
             /\ table.tracks[i].start_lba = StartOf(i)
             /\ table.tracks[i].file = 1 /\ table.tracks[i].file_offset = sheet[i].index1
  <2>1. table.tracks[i] = SingleTrack(i)
    BY <1>2
  <2>2. sheet[i].file = 1
    BY DEF Loaded, Climbs, Formed
  <2> QED
    BY <2>1, <2>2 DEF SingleTrack, StartOf
<1>7. Len(table.tracks) = n
  BY <1>1, <1>2
<1> QED
  BY <1>1, <1>5, <1>6, <1>7

LEMMA TrackAtIs ==
  ASSUME Loaded, NEW lba \in Nat
  PROVE  /\ TrackAt(lba) \in 1 .. Len(sheet)
         /\ StartOf(TrackAt(lba)) <= lba
         /\ TrackAt(lba) < Len(sheet) => lba < StartOf(TrackAt(lba) + 1)
<1> DEFINE n == Len(sheet)
           S == {i \in 1 .. n : i = n \/ table.tracks[i + 1].start_lba > lba}
<1>1. n \in Nat \ {0} /\ Len(table.tracks) = n
  BY TableIs
<1>2. TrackAt(lba) = Min(S)
  BY <1>1 DEF TrackAt
<1>3. S \subseteq Nat /\ S # {}
  <2>1. n \in S
    BY <1>1
  <2> QED
    BY <1>1, <2>1
<1>4. \A i \in 1 .. n : i < n => i + 1 \in 1 .. n
  BY <1>1
<1>5. \A i \in S : i \in 1 .. n /\ (i < n => StartOf(i + 1) > lba)
  BY <1>1, <1>4, TableIs
<1>6. \A i \in 1 .. n : i < n /\ i \notin S => ~(StartOf(i + 1) > lba)
  BY <1>1, <1>4, TableIs
<1> HIDE DEF S
<1>7. Min(S) \in S /\ \A j \in S : Min(S) <= j
  <2>1. \E m \in S : \A j \in S : m <= j
    BY <1>3, LeastOf
  <2> QED
    BY <2>1 DEF Min
<1> DEFINE i == TrackAt(lba)
<1>8. i \in S /\ i \in 1 .. n /\ \A j \in S : i <= j
  BY <1>2, <1>5, <1>7
<1> HIDE DEF i
<1>9. StartOf(i) <= lba
  <2>1. CASE i = 1
    <3>1. StartOf(i) = 0
      BY <1>8, <2>1, TrackLies DEF Loaded
    <3> QED
      BY <3>1
  <2>2. CASE i # 1
    <3>1. i - 1 \in 1 .. n /\ i - 1 < n /\ ~(i <= i - 1) /\ (i - 1) + 1 = i
      BY <1>1, <1>8, <2>2
    <3>2. ~(StartOf(i) > lba)
      BY <1>6, <1>8, <3>1
    <3>3. StartOf(i) \in Nat
      BY <1>8, TrackLies DEF Loaded
    <3> QED
      BY <3>2, <3>3
  <2> QED
    BY <2>1, <2>2
<1>10. i < n => lba < StartOf(i + 1)
  <2> SUFFICES ASSUME i < n PROVE lba < StartOf(i + 1)
    OBVIOUS
  <2>1. StartOf(i + 1) > lba
    BY <1>5, <1>8
  <2>2. StartOf(i + 1) \in Nat
    BY <1>4, <1>8, TrackLies DEF Loaded
  <2> QED
    BY <2>1, <2>2
<1> QED
  BY <1>8, <1>9, <1>10 DEF i

(* A sector of the disc is in the body of its track or in the gap before   *)
(* the next.                                                               *)
InBody(i, lba) == lba < EndOf(i) /\ lba - StartOf(i) + 1 \in 1 .. BodyLength(i)
InGap(i, lba)  == /\ i < Len(sheet) /\ lba >= EndOf(i)
                  /\ lba - EndOf(i) + 1 \in 1 .. GapLength(i + 1)

LEMMA SectorLies ==
  ASSUME Loaded, NEW lba \in Nat, lba < EndOf(Len(sheet)), NEW i, i = TrackAt(lba)
  PROVE  InBody(i, lba) \/ InGap(i, lba)
<1> DEFINE n == Len(sheet)
<1>1. /\ n \in Nat \ {0} /\ i \in 1 .. n /\ StartOf(i) <= lba /\ (i < n => lba < StartOf(i + 1))
  BY TableIs, TrackAtIs
<1>3. /\ StartOf(i) \in Nat /\ EndOf(i) \in Nat
      /\ EndOf(i) = StartOf(i) + BodyLength(i) /\ BodyLength(i) \in Nat
  BY <1>1, LengthsAdd DEF Loaded
<1>4. CASE lba < EndOf(i)
  BY <1>1, <1>3, <1>4 DEF InBody
<1>5. CASE ~(lba < EndOf(i))
  <2>1. i < n
    BY <1>1, <1>3, <1>5
  <2>2. i + 1 \in 1 .. n /\ (i + 1) - 1 = i
    BY <1>1, <2>1
  <2>3. /\ StartOf(i + 1) = EndOf(i) + GapLength(i + 1)
        /\ StartOf(i + 1) \in Nat /\ GapLength(i + 1) \in Nat
    BY <2>2, LengthsAdd DEF Loaded
  <2>4. lba < StartOf(i + 1)
    BY <1>1, <2>1
  <2>5. lba >= EndOf(i) /\ lba - EndOf(i) + 1 \in 1 .. GapLength(i + 1)
    BY <1>3, <1>5, <2>3, <2>4
  <2> QED
    BY <2>1, <2>5 DEF InGap
<1> QED
  BY <1>4, <1>5

(* What the table gives for the track and, in the gap, for the next one.   *)
LEMMA BodyReads ==
  ASSUME Loaded, NEW lba \in Nat, NEW i, i = TrackAt(lba), InBody(i, lba)
  PROVE  DiscSector(lba) = Pressed[lba + 1]
<1> DEFINE n == Len(sheet)
           rel == lba - StartOf(i)
           x == sheet[i].index1
           t == table.tracks[i]
           y == table.tracks[i + 1]
           room == y.file_offset - t.file_offset
<1>1. /\ n \in Nat \ {0} /\ i \in 1 .. n /\ StartOf(i) <= lba
      /\ t.start_lba = StartOf(i) /\ t.file = 1 /\ t.file_offset = x /\ Len(table.tracks) = n
  BY TableIs, TrackAtIs
<1>2. /\ StartOf(i) \in Nat /\ x \in Nat /\ Upto(i) \in Nat /\ Upto(i) <= ImageSectors[1]
      /\ Upto(i) = IF i < n THEN First(sheet[i + 1]) ELSE ImageSectors[1]
  BY <1>1, TrackLies DEF Loaded
<1>3. rel \in Nat /\ rel + 1 \in 1 .. BodyLength(i) /\ BodyLength(i) = Upto(i) - x /\ StartOf(i) + (rel + 1) = lba + 1
  BY <1>1, <1>2 DEF InBody, BodyLength
<1>4. Pressed[lba + 1] = <<1, x + rel>>
  <2>1. Pressed[StartOf(i) + (rel + 1)] = <<1, x + (rel + 1) - 1>>
    BY <1>1, <1>3, PressedHolds DEF Loaded
  <2>2. x + (rel + 1) - 1 = x + rel
    BY <1>2, <1>3
  <2> QED
    BY <1>3, <2>1, <2>2
<1>5. ImageSectors[1] \in Nat /\ EcmImages = {}
  BY OneFile DEF Loaded, OneImage
<1>6. rel < Upto(i) - x /\ x + rel < ImageSectors[1]
  <2> DEFINE u == Upto(i)
             size == ImageSectors[1]
  <2>1. /\ x \in Nat /\ rel \in Nat /\ u \in Nat /\ size \in Nat /\ u <= size
        /\ rel + 1 \in 1 .. (u - x)
    BY <1>2, <1>3, <1>5
  <2> HIDE DEF u, size, x, rel
  <2>2. rel < u - x
    BY <2>1
  <2>3. x + rel < size
    BY <2>1, <2>2
  <2> QED
    BY <2>2, <2>3 DEF u, size
<1>7. i < n => rel < room
  <2> SUFFICES ASSUME i < n PROVE rel < room
    OBVIOUS
  <2>1. i + 1 \in 1 .. n
    BY <1>1
  <2>2. y.file_offset = sheet[i + 1].index1
    BY <2>1, TableIs
  <2>3. First(sheet[i + 1]) <= sheet[i + 1].index1 /\ sheet[i + 1].index1 \in Nat
    BY <2>1, TrackLies DEF Loaded
  <2>4. Upto(i) <= y.file_offset /\ y.file_offset \in Nat
    BY <1>2, <2>2, <2>3
  <2>5. room = y.file_offset - x
    BY <1>1
  <2> DEFINE u == Upto(i)
             o == y.file_offset
  <2>6. /\ x \in Nat /\ rel \in Nat /\ u \in Nat /\ o \in Nat
        /\ u <= o /\ rel < u - x /\ room = o - x
    BY <1>2, <1>3, <1>6, <2>4, <2>5
  <2> HIDE DEF u, o, x, rel, room
  <2> QED
    BY <2>6
<1>8. DiscSector(lba) = IF lba < t.start_lba THEN Silence
                        ELSE IF t.file \in EcmImages THEN FromImage(t.file, lba - t.start_lba)
                        ELSE IF (i < Len(table.tracks) /\ y.file_offset > t.file_offset) /\ lba - t.start_lba >= room
                             THEN Silence
                        ELSE FromImage(t.file, t.file_offset + (lba - t.start_lba))
  BY DEF DiscSector
<1> HIDE DEF t, y, room
<1>9. DiscSector(lba) = IF (i < n /\ y.file_offset > t.file_offset) /\ rel >= room THEN Silence
                        ELSE FromImage(1, x + rel)
  BY <1>1, <1>2, <1>5, <1>8
<1>10. room \in Int \/ ~(i < n)
  <2>1. i < n => i + 1 \in 1 .. n
    BY <1>1
  <2>2. i < n => y.file_offset = sheet[i + 1].index1 /\ sheet[i + 1].index1 \in Nat
    BY <2>1, TableIs, TrackLies DEF Loaded, y
  <2> QED
    BY <1>1, <1>2, <2>2 DEF room
<1>11. ~(i < n /\ rel >= room)
  BY <1>3, <1>7, <1>10
<1>12. DiscSector(lba) = FromImage(1, x + rel)
  BY <1>9, <1>11
<1> QED
  BY <1>4, <1>6, <1>12 DEF FromImage

LEMMA GapReads ==
  ASSUME Loaded, NEW lba \in Nat, NEW i, i = TrackAt(lba), InGap(i, lba)
  PROVE  DiscSector(lba) = Pressed[lba + 1]
<1> DEFINE n == Len(sheet)
           rel == lba - StartOf(i)
           x == sheet[i].index1
           e == sheet[i + 1]
           t == table.tracks[i]
           y == table.tracks[i + 1]
           room == y.file_offset - t.file_offset
           k == lba - EndOf(i) + 1
<1>1. /\ n \in Nat \ {0} /\ i \in 1 .. n /\ i + 1 \in 1 .. n /\ (i + 1) - 1 = i /\ i < n
      /\ StartOf(i) <= lba /\ lba >= EndOf(i) /\ k \in 1 .. GapLength(i + 1)
  <2>1. n \in Nat \ {0} /\ i \in 1 .. n /\ StartOf(i) <= lba
    BY TableIs, TrackAtIs
  <2>2. i < n /\ lba >= EndOf(i) /\ k \in 1 .. GapLength(i + 1)
    BY DEF InGap
  <2>3. i + 1 \in 1 .. n /\ (i + 1) - 1 = i
    BY <2>1, <2>2
  <2> QED
    BY <2>1, <2>2, <2>3
<1>2. /\ t.start_lba = StartOf(i) /\ t.file = 1 /\ t.file_offset = x /\ Len(table.tracks) = n
      /\ y.file_offset = e.index1
  BY <1>1, TableIs
<1>3. /\ StartOf(i) \in Nat /\ x \in Nat /\ EndOf(i) \in Nat /\ Upto(i) = First(e)
      /\ x < Upto(i) /\ EndOf(i) = StartOf(i) + (Upto(i) - x)
  BY <1>1, TrackLies DEF Loaded
<1>4. First(e) \in Nat /\ e.index1 \in Nat /\ First(e) <= e.index1 /\ e.index1 < Upto(i + 1)
      /\ Upto(i + 1) \in Nat /\ Upto(i + 1) <= ImageSectors[1]
  BY <1>1, TrackLies DEF Loaded
<1>5. Formed(e) /\ EcmImages = {} /\ ImageSectors[1] \in Nat
  BY <1>1, OneFile DEF Loaded, Climbs, OneImage
<1>6. Pressed[lba + 1] = GapHolds(i + 1, k)
  <2>1. Pressed[EndOf((i + 1) - 1) + k] = GapHolds(i + 1, k)
    BY <1>1, PressedHolds DEF Loaded
  <2>2. EndOf((i + 1) - 1) + k = lba + 1
    BY <1>1, <1>3
  <2> QED
    BY <2>1, <2>2
<1>7. DiscSector(lba) = IF lba < t.start_lba THEN Silence
                        ELSE IF t.file \in EcmImages THEN FromImage(t.file, lba - t.start_lba)
                        ELSE IF (i < Len(table.tracks) /\ y.file_offset > t.file_offset) /\ lba - t.start_lba >= room
                             THEN Silence
                        ELSE FromImage(t.file, t.file_offset + (lba - t.start_lba))
  BY DEF DiscSector
<1> HIDE DEF t, y
<1>8. room = e.index1 - x /\ y.file_offset > t.file_offset /\ rel \in Nat
  <2>1. room = e.index1 - x
    BY <1>2
  <2>2. x < e.index1
    BY <1>3, <1>4
  <2>3. rel \in Nat
    BY <1>1, <1>3
  <2> QED
    BY <1>2, <2>1, <2>2, <2>3
<1> HIDE DEF room
<1>9. DiscSector(lba) = IF rel >= e.index1 - x THEN Silence ELSE FromImage(1, x + rel)
  BY <1>1, <1>2, <1>3, <1>5, <1>7, <1>8
<1> HIDE DEF e, x
<1>10. GapLength(i + 1) = e.pregap + (e.index1 - First(e))
  BY DEF GapLength, e
<1>11. rel = (First(e) - x) + (k - 1)
  <2>1. lba \in Nat /\ Upto(i) \in Nat /\ x \in Nat /\ StartOf(i) \in Nat
    BY <1>3, <1>4
  <2> QED
    BY <1>3, <2>1
<1>12. k \in Nat /\ k >= 1 /\ k <= GapLength(i + 1)
  BY <1>1, <1>3, <1>4, <1>5, <1>10 DEF Formed
<1> HIDE DEF rel, k
<1>13. GapHolds(i + 1, k) = IF k <= e.pregap THEN Silence ELSE <<1, First(e) + (k - e.pregap) - 1>>
  BY DEF GapHolds, e
<1>14. CASE e.paused
  <2>1. e.pregap = 0 /\ First(e) = e.index0
    BY <1>5, <1>14 DEF Formed, First
  <2>2. GapHolds(i + 1, k) = <<1, First(e) + k - 1>>
    BY <1>4, <1>12, <1>13, <2>1
  <2>3. k <= e.index1 - First(e)
    BY <1>4, <1>10, <1>12, <2>1
  <2>4. ~(rel >= e.index1 - x) /\ x + rel = First(e) + k - 1 /\ x + rel < ImageSectors[1]
    BY <1>3, <1>4, <1>5, <1>11, <1>12, <2>3
  <2> QED
    BY <1>6, <1>9, <2>2, <2>4 DEF FromImage
<1>15. CASE ~e.paused
  <2>1. First(e) = e.index1 /\ e.pregap \in Nat
    BY <1>5, <1>15 DEF Formed, First
  <2>2. k <= e.pregap
    BY <1>4, <1>10, <1>12, <2>1
  <2>3. GapHolds(i + 1, k) = Silence
    BY <1>13, <2>2
  <2>4. rel >= e.index1 - x
    BY <1>3, <1>4, <1>11, <1>12, <2>1
  <2> QED
    BY <1>6, <1>9, <2>3, <2>4
<1> QED
  BY <1>5, <1>14, <1>15 DEF Formed

(* In the pregap, as cdrom_disc_get_subq sees it, is in the gap.           *)
LEMMA PregapIsGap ==
  ASSUME Loaded, NEW lba \in Nat, NEW i, i = TrackAt(lba), lba < EndOf(Len(sheet))
  PROVE  InPregap(lba, i) <=> InGap(i, lba)
<1> DEFINE n == Len(sheet)
           e == sheet[i + 1]
           y == table.tracks[i + 1]
<1>1. /\ n \in Nat \ {0} /\ i \in 1 .. n /\ Len(table.tracks) = n
      /\ StartOf(i) <= lba /\ (i < n => lba < StartOf(i + 1))
  BY TableIs, TrackAtIs
<1>2. CASE ~(i < n)
  BY <1>1, <1>2 DEF InPregap, InGap
<1>3. CASE i < n
  <2>1. i + 1 \in 1 .. n /\ (i + 1) - 1 = i
    BY <1>1, <1>3
  <2>2. y = SingleTrack(i + 1) /\ y.start_lba = StartOf(i + 1)
    BY <2>1, TableIs
  <2>3. y.pregap_lba = IF e.index0 # 0 THEN e.index0 + ShiftAt(i + 1)
                       ELSE IF e.pregap # 0 THEN StartOf(i + 1) - e.pregap ELSE 0
    BY <2>2 DEF SingleTrack, StartOf
  <2>4. /\ StartOf(i) \in Nat /\ EndOf(i) \in Nat /\ Upto(i) = First(e)
        /\ sheet[i].index1 \in Nat /\ sheet[i].index1 < Upto(i) /\ Upto(i) \in Nat
        /\ EndOf(i) = StartOf(i) + (Upto(i) - sheet[i].index1)
    BY <1>1, <1>3, TrackLies DEF Loaded
  <2>5. /\ StartOf(i + 1) \in Nat /\ GapLength(i + 1) \in Nat
        /\ StartOf(i + 1) = EndOf(i) + GapLength(i + 1)
    BY <2>1, LengthsAdd DEF Loaded
  <2>6. Formed(e)
    BY <2>1 DEF Loaded, Climbs
  <2>7. GapLength(i + 1) = e.pregap + (e.index1 - First(e))
    BY DEF GapLength
  <2>8. lba < StartOf(i + 1) /\ EndOf(i) > 0
    BY <1>1, <1>3, <2>4
  <2>gap. ASSUME y.pregap_lba = EndOf(i) PROVE InPregap(lba, i) <=> lba >= EndOf(i)
    <3> DEFINE here == EndOf(i)
               next == StartOf(i + 1)
    <3>1. here \in Nat /\ next \in Nat /\ lba < next /\ here > 0
      BY <2>4, <2>5, <2>8
    <3>2. InPregap(lba, i) <=> here # 0 /\ lba \in here .. next - 1
      BY <1>1, <1>3, <2>2, <2>gap DEF InPregap
    <3> HIDE DEF here, next
    <3>3. InPregap(lba, i) <=> lba >= here
      BY <3>1, <3>2
    <3> QED
      BY <3>3 DEF here
  <2>9. InGap(i, lba) <=> lba >= EndOf(i)
    BY <1>3, <2>4, <2>5, <2>8 DEF InGap
  <2>10. InPregap(lba, i) <=> y.pregap_lba # 0 /\ lba \in y.pregap_lba .. StartOf(i + 1) - 1
    BY <1>1, <1>3, <2>2 DEF InPregap
  <2>11. StartOf(i + 1) = e.index1 + ShiftAt(i + 1)
    BY DEF StartOf
  <2>12. ShiftAt(i + 1) \in Nat
    <3>1. i + 1 \in 0 .. n
      BY <1>1, <2>1
    <3> QED
      BY <3>1, ShiftAtIs DEF Loaded
  <2> HIDE DEF e, y
  <2>13. CASE e.paused
    <3>1. e.pregap = 0 /\ First(e) = e.index0 /\ e.index0 \in Nat /\ e.index1 \in Nat
      BY <2>6, <2>13 DEF Formed, First
    <3>2. e.index0 # 0
      BY <2>4, <3>1
    <3>3. GapLength(i + 1) = e.index1 - e.index0 /\ y.pregap_lba = e.index0 + ShiftAt(i + 1)
      BY <2>3, <2>7, <3>1, <3>2
    <3>4. e.index1 + ShiftAt(i + 1) = EndOf(i) + (e.index1 - e.index0)
      BY <2>5, <2>11, <3>3
    <3>5. EndOf(i) \in Nat /\ ShiftAt(i + 1) \in Nat
      BY <2>4, <2>12
    <3>6. e.index0 + ShiftAt(i + 1) = EndOf(i)
      BY <3>1, <3>4, <3>5
    <3>7. y.pregap_lba = EndOf(i)
      BY <3>3, <3>6
    <3> QED
      BY <2>9, <2>gap, <3>7
  <2>14. CASE ~e.paused
    <3>1. e.index0 = 0 /\ First(e) = e.index1 /\ e.pregap \in Nat /\ e.index1 \in Nat
      BY <2>6, <2>14 DEF Formed, First
    <3>2. GapLength(i + 1) = e.pregap
      BY <2>7, <3>1
    <3>3. CASE e.pregap = 0
      <4>1. ~InPregap(lba, i)
        BY <2>3, <2>10, <3>1, <3>3
      <4>2. ~(lba >= EndOf(i))
        BY <2>4, <2>5, <2>8, <3>2, <3>3
      <4> QED
        BY <2>9, <4>1, <4>2
    <3>4. CASE e.pregap # 0
      <4>1. y.pregap_lba = EndOf(i)
        BY <2>3, <2>4, <2>5, <3>1, <3>2, <3>4
      <4> QED
        BY <2>9, <2>gap, <4>1
    <3> QED
      BY <3>3, <3>4
  <2> QED
    BY <2>6, <2>13, <2>14 DEF Formed
<1> QED
  BY <1>2, <1>3

LEMMA SubqReports ==
  ASSUME Loaded, NEW lba \in Nat, lba < EndOf(Len(sheet)), ~SbiFind(lba)
  PROVE  Subq(lba) = PressedQ[lba + 1]
<1> DEFINE n == Len(sheet)
           i == TrackAt(lba)
           t == table.tracks[i]
           y == table.tracks[i + 1]
<1>1. /\ n \in Nat \ {0} /\ i \in 1 .. n /\ table.total = EndOf(n)
      /\ StartOf(i) <= lba /\ t.start_lba = StartOf(i)
  BY TableIs, TrackAtIs
<1>2. /\ StartOf(i) \in Nat /\ EndOf(i) \in Nat /\ BodyLength(i) \in Nat
  BY <1>1, LengthsAdd DEF Loaded
<1>3. EndOf(n) \in Nat
  <2>1. n \in 1 .. n
    BY <1>1
  <2> QED
    BY <2>1, LengthsAdd DEF Loaded
<1>4. Subq(lba) = IF InPregap(lba, i) THEN Q(i + 1, 0, y.start_lba - lba)
                  ELSE Q(i, 1, IF lba >= t.start_lba THEN lba - t.start_lba ELSE 0)
  <2>1. ~(lba >= table.total)
    BY <1>1, <1>3
  <2> QED
    BY <2>1 DEF Subq
<1> HIDE DEF i, t, y
<1>5. InBody(i, lba) \/ InGap(i, lba)
  BY SectorLies DEF i
<1>6. InPregap(lba, i) <=> InGap(i, lba)
  BY PregapIsGap DEF i
<1>7. CASE InGap(i, lba)
  <2>1. i < n /\ i + 1 \in 1 .. n /\ (i + 1) - 1 = i /\ lba >= EndOf(i)
    BY <1>1, <1>7 DEF InGap
  <2>2. y.start_lba = StartOf(i + 1)
    BY <2>1, TableIs DEF y
  <2>3. StartOf(i + 1) = EndOf(i) + GapLength(i + 1) /\ GapLength(i + 1) \in Nat
    BY <2>1, LengthsAdd DEF Loaded
  <2>4. PICK k \in 1 .. GapLength(i + 1) : k = lba - EndOf(i) + 1
    BY <1>7 DEF InGap
  <2>5. PressedQ[EndOf((i + 1) - 1) + k] = Q(i + 1, 0, GapLength(i + 1) - k + 1)
    BY <2>1, PressedQHolds DEF Loaded
  <2>6. EndOf((i + 1) - 1) + k = lba + 1
    BY <1>2, <2>1, <2>4
  <2>7. GapLength(i + 1) - k + 1 = StartOf(i + 1) - lba
    BY <1>2, <2>3, <2>4
  <2>8. Subq(lba) = Q(i + 1, 0, StartOf(i + 1) - lba)
    BY <1>4, <1>6, <1>7, <2>2
  <2> QED
    BY <2>5, <2>6, <2>7, <2>8
<1>8. CASE ~InGap(i, lba)
  <2>1. PICK k \in 1 .. BodyLength(i) : k = lba - StartOf(i) + 1
    BY <1>5, <1>8 DEF InBody
  <2>2. PressedQ[StartOf(i) + k] = Q(i, 1, k - 1)
    BY <1>1, PressedQHolds DEF Loaded
  <2>3. StartOf(i) + k = lba + 1 /\ k - 1 = lba - StartOf(i)
    BY <1>2, <2>1
  <2>4. Subq(lba) = Q(i, 1, lba - StartOf(i))
    BY <1>1, <1>2, <1>4, <1>6, <1>8
  <2> QED
    BY <2>2, <2>3, <2>4
<1> QED
  BY <1>7, <1>8

LEMMA DiscIInvReads == OneImage /\ DiscIInv => DiscIsThePressed
<1> SUFFICES ASSUME OneImage, DiscIInv, table # NoDisc PROVE DiscIsThePressed
  BY DEF DiscIsThePressed, ReadsThePressedDisc, QIsThePressedDisc
<1>1. Loaded /\ head \in Nat /\ sbi \in Protected
  BY DEF DiscIInv, Loaded
<1>2. /\ Len(Pressed) = EndOf(Len(sheet)) /\ Len(PressedQ) = EndOf(Len(sheet))
      /\ table.total = EndOf(Len(sheet))
  BY <1>1, PressedHolds, PressedQHolds, TableIs DEF Loaded
<1>3. EndOf(Len(sheet)) \in Nat
  <2>1. Len(sheet) \in 1 .. Len(sheet)
    BY <1>1, TableIs
  <2> QED
    BY <1>1, <2>1, LengthsAdd DEF Loaded
<1>4. ReadsThePressedDisc
  <2> SUFFICES ASSUME head < EndOf(Len(sheet)) PROVE DiscSector(head) = Pressed[head + 1]
    BY <1>2 DEF ReadsThePressedDisc
  <2>1. InBody(TrackAt(head), head) \/ InGap(TrackAt(head), head)
    BY <1>1, SectorLies
  <2> QED
    BY <1>1, <2>1, BodyReads, GapReads
<1>5. SbiFind(head) <=> head \in ToSet(sbi)
  BY <1>1, SbiFinds DEF Loaded
<1>6. Subq(head) = IF head \in ToSet(sbi) THEN Patched
                   ELSE IF head < Len(PressedQ) THEN PressedQ[head + 1]
                   ELSE Q(LeadOut, 1, head - Len(PressedQ))
  <2>1. CASE SbiFind(head)
    BY <1>5, <2>1 DEF Subq
  <2>2. CASE ~SbiFind(head) /\ head < EndOf(Len(sheet))
    BY <1>1, <1>2, <1>5, <2>2, SubqReports
  <2>3. CASE ~SbiFind(head) /\ ~(head < EndOf(Len(sheet)))
    <3>1. head >= table.total
      BY <1>1, <1>2, <1>3, <2>3
    <3> QED
      BY <1>2, <1>5, <2>3, <3>1 DEF Subq
  <2> QED
    BY <2>1, <2>2, <2>3
<1> QED
  BY <1>4, <1>6 DEF DiscIsThePressed, QIsThePressedDisc

-----------------------------------------------------------------------------
(* A dump in one image file reads, at every sector, what its sheet puts    *)
(* there, and subchannel Q says where that is and is replaced on exactly   *)
(* the sectors the .sbi lists: whatever the tracks, their pauses and their *)
(* PREGAP lines, no gap moves the data behind it.                          *)
THEOREM OneImageReadsAsPressed ==
  ASSUME OneImage
  PROVE  DiscSpec => []DiscIsThePressed
<1>1. DiscInit => DiscIInv
  BY DiscInitIInv
<1>2. DiscIInv /\ [DiscNext]_disc_vars => DiscIInv'
  BY DiscNextIInv
<1>3. DiscIInv => DiscIsThePressed
  BY DiscIInvReads
<1> QED
  BY <1>1, <1>2, <1>3, PTL DEF DiscSpec

-----------------------------------------------------------------------------
(* The table's addresses stay on the disc.                                 *)
LEMMA ShiftsGrow ==
  ASSUME OneImage, Climbs(sheet), NEW i \in 1 .. Len(sheet)
  PROVE  ShiftAt(i) <= ShiftAt(Len(sheet)) /\ ShiftAt(Len(sheet)) \in Nat
<1> DEFINE n == Len(sheet)
           Good == {k \in Nat : k \in i .. n /\ ShiftAt(i) <= ShiftAt(k)}
<1>1. n \in Nat /\ i \in Nat /\ i \in 0 .. n /\ n \in i .. n /\ \A k \in 0 .. n : ShiftAt(k) \in Nat
  <2>1. n \in Nat
    BY DEF Climbs
  <2> QED
    BY <2>1, ShiftAtIs
<1>2. i \in Good
  BY <1>1
<1>3. ASSUME NEW k \in i + 1 .. n, k - 1 \in Good PROVE k \in Good
  <2>1. k \in 1 .. n /\ k - 1 \in 0 .. n /\ k \in i .. n /\ k \in 0 .. n /\ k \in Nat
    BY <1>1
  <2>2. ShiftAt(k) = ShiftAt(k - 1) + sheet[k].pregap
    BY <2>1, ShiftAtIs
  <2>3. sheet[k].pregap \in Nat
    BY <2>1 DEF Climbs, Formed
  <2>4. ShiftAt(i) <= ShiftAt(k - 1)
    BY <1>3
  <2>5. ShiftAt(i) \in Nat /\ ShiftAt(k - 1) \in Nat
    BY <1>1, <2>1
  <2>6. ShiftAt(i) <= ShiftAt(k)
    BY <2>2, <2>3, <2>4, <2>5
  <2> QED
    BY <2>1, <2>6
<1> HIDE DEF Good
<1>4. n \in Good
  BY <1>1, <1>2, <1>3, UpTo
<1>5. n \in 0 .. n
  BY <1>1
<1> QED
  BY <1>1, <1>4, <1>5 DEF Good

LEMMA DiscIInvTyped == OneImage /\ DiscIInv => DiscTypeOK
<1> SUFFICES ASSUME OneImage, DiscIInv PROVE DiscTypeOK
  OBVIOUS
<1>1. sheet \in Seq(Entries) /\ head \in Nat
  BY DEF DiscIInv, Climbs
<1>2. ASSUME table # NoDisc
      PROVE  /\ Len(table.tracks) = Len(sheet)
             /\ \A t \in ToSet(table.tracks) :
                   {t.start_lba, t.pregap_lba, t.file_offset} \subseteq 0 .. table.total
  <2>1. Loaded
    BY <1>2 DEF DiscIInv, Loaded
  <2>2. Len(table.tracks) = Len(sheet) /\ table.total = ImageSectors[1] + ShiftAt(Len(sheet))
    BY <2>1, TableIs DEF Loaded, OneFileTable
  <2>3. ASSUME NEW i \in 1 .. Len(sheet)
        PROVE  {table.tracks[i].start_lba, table.tracks[i].pregap_lba, table.tracks[i].file_offset}
                  \subseteq 0 .. table.total
    <3> DEFINE e == sheet[i]
               t == table.tracks[i]
    <3>1. Formed(e) /\ ImageSectors[1] \in Nat
      BY <2>1, OneFile DEF Loaded, Climbs
    <3>2. /\ t.start_lba = e.index1 + ShiftAt(i) /\ t.file_offset = e.index1
          /\ t.pregap_lba = IF e.index0 # 0 THEN e.index0 + ShiftAt(i)
                            ELSE IF e.pregap # 0 THEN (e.index1 + ShiftAt(i)) - e.pregap ELSE 0
      <4>1. t = SingleTrack(i)
        BY <2>1, TableIs
      <4> HIDE DEF t
      <4> QED
        BY <4>1 DEF SingleTrack
    <3>3. ShiftAt(i) <= ShiftAt(Len(sheet)) /\ ShiftAt(Len(sheet)) \in Nat
      BY <2>1, ShiftsGrow DEF Loaded
    <3>4. ShiftAt(i) = ShiftAt(i - 1) + e.pregap /\ ShiftAt(i - 1) \in Nat
      <4>1. i - 1 \in 0 .. Len(sheet)
        BY <2>1 DEF Loaded, Climbs
      <4> QED
        BY <2>1, <4>1, ShiftAtIs DEF Loaded
    <3>5. /\ e.index0 \in Nat /\ e.index1 \in Nat /\ e.pregap \in Nat
          /\ e.index1 < ImageSectors[1] /\ e.index0 <= e.index1
      BY <3>1 DEF Formed
    <3> HIDE DEF e, t
    <3> DEFINE s == ShiftAt(i)
               last == ShiftAt(Len(sheet))
    <3>6. s \in Nat /\ last \in Nat /\ s <= last /\ s >= e.pregap
      BY <3>3, <3>4, <3>5
    <3>7. /\ t.start_lba = e.index1 + s /\ t.file_offset = e.index1
          /\ t.pregap_lba = IF e.index0 # 0 THEN e.index0 + s
                            ELSE IF e.pregap # 0 THEN (e.index1 + s) - e.pregap ELSE 0
          /\ table.total = ImageSectors[1] + last
      BY <2>2, <3>2
    <3> HIDE DEF s, last
    <3>8. t.start_lba \in 0 .. table.total /\ t.file_offset \in 0 .. table.total
      BY <3>1, <3>5, <3>6, <3>7
    <3>9. t.pregap_lba \in 0 .. table.total
      <4>1. CASE e.index0 # 0
        BY <3>1, <3>5, <3>6, <3>7, <4>1
      <4>2. CASE e.index0 = 0 /\ e.pregap # 0
        BY <3>1, <3>5, <3>6, <3>7, <4>2
      <4>3. CASE e.index0 = 0 /\ e.pregap = 0
        BY <3>1, <3>6, <3>7, <4>3
      <4> QED
        BY <4>1, <4>2, <4>3
    <3> QED
      BY <3>8, <3>9 DEF t
  <2>4. \A t \in ToSet(table.tracks) : \E i \in 1 .. Len(sheet) : t = table.tracks[i]
    BY <2>2 DEF ToSet
  <2> QED
    BY <2>2, <2>3, <2>4
<1> QED
  BY <1>1, <1>2 DEF DiscTypeOK

(* The table holds a track for each of the sheet's, and no address of it   *)
(* lies behind the end of the disc.                                        *)
THEOREM TableIsOnTheDisc ==
  ASSUME OneImage
  PROVE  DiscSpec => []DiscTypeOK
<1>1. DiscInit => DiscIInv
  BY DiscInitIInv
<1>2. DiscIInv /\ [DiscNext]_disc_vars => DiscIInv'
  BY DiscNextIInv
<1>3. DiscIInv => DiscTypeOK
  BY DiscIInvTyped
<1> QED
  BY <1>1, <1>2, <1>3, PTL DEF DiscSpec
=============================================================================
