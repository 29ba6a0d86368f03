---- MODULE EcPortProofs ----
(* Proofs about EcPort, for any number of callers, indices, slaves and calls.      *)
(*                                                                                 *)
(* The index is all that pairs an answer with its caller. The argument for it      *)
(* counts: when an index is handed out, at least MaxBuf - Cardinality(Callers)     *)
(* others are unused, and the search has to hand out every one of them before it   *)
(* comes to that index again (Lasts); a frame lives, and a failed send goes        *)
(* unnoticed, for less calls than that. So no two calls that overlap have one      *)
(* index, nothing under way bears the index of a later call, and what is left in   *)
(* a caller's buffers is its own. The last part follows one call through a ring    *)
(* that is whole, or broken anywhere, and shows which slaves its frame has passed. *)
EXTENDS EcPort, FiniteSetTheorems, WellFoundedInduction, TLAPS

Busy(c) == job[c].pc # "idle"
Held(i) == \E c \in Callers : Busy(c) /\ job[c].idx = i

\* How many steps the search for an index is from i.
Ahead(i) == IF i > lastidx THEN i - lastidx ELSE i + MaxBuf - lastidx

\* The indices nobody holds which it comes to before i.
Vacant(i) == {j \in Indices : Ahead(j) < Ahead(i) /\ ~Held(j)}

Spare == MaxBuf - Cardinality(Callers)

\* What was handed out at this call is not handed out again for so many calls.
Lasts(i, call) == Cardinality(Vacant(i)) + handed - call >= Spare

-----------------------------------------------------------------------------
(* Indices and the search.                                                       *)

LEMMA Bounds ==
    /\ MaxBuf \in Nat \ {0} /\ Indices = 0..(MaxBuf - 1)
    /\ Slaves \in Nat \ {0} /\ MaxSends \in Nat \ {0} /\ MaxCalls \in Nat /\ MaxFaults \in Nat
<1>1. Cardinality(Callers) \in Nat /\ Cardinality(Callers) < MaxBuf /\ MaxBuf \in Nat
      BY PortAssumption, FS_CardinalityType
<1>2. MaxBuf # 0
      BY <1>1
<1>3. QED
      BY <1>1, <1>2, PortAssumption DEF Indices

LEMMA Sizes ==
    /\ IsFiniteSet(Indices) /\ Cardinality(Indices) = MaxBuf
    /\ IsFiniteSet(Line) /\ Cardinality(Line) = Slaves
    /\ Spare \in Nat \ {0} /\ Turn = Spare + 1
<1>1. \A n \in Nat \ {0} : IsFiniteSet(0..(n - 1)) /\ Cardinality(0..(n - 1)) = n
      <2>1. TAKE n \in Nat \ {0}
      <2>2. 0 \in Int /\ n - 1 \in Int /\ ~(0 > n - 1) /\ (n - 1) - 0 + 1 = n
            OBVIOUS
      <2>3. QED
            BY <2>2, FS_Interval
<1>2. \A n \in Nat \ {0} : IsFiniteSet(1..n) /\ Cardinality(1..n) = n
      <2>1. TAKE n \in Nat \ {0}
      <2>2. 1 \in Int /\ n \in Int /\ ~(1 > n) /\ n - 1 + 1 = n
            OBVIOUS
      <2>3. QED
            BY <2>2, FS_Interval
<1>3. Cardinality(Callers) \in Nat /\ Cardinality(Callers) < MaxBuf
      BY PortAssumption, FS_CardinalityType
<1>4. Spare \in Nat \ {0} /\ Turn = Spare + 1
      BY <1>3, Bounds DEF Spare, Turn
<1>5. QED
      BY <1>1, <1>2, <1>4, Bounds DEF Line

\* The remainder of what is less than two turns.
LEMMA Wraps ==
    ASSUME NEW m \in Nat \ {0}, NEW x \in Nat, x < m + m
    PROVE  x % m = IF x < m THEN x ELSE x - m
<1>1. CASE x < m
      BY <1>1
<1>2. CASE x >= m
      BY <1>2
<1>3. QED
      BY <1>1, <1>2

LEMMA AheadFacts ==
    ASSUME lastidx \in Indices, NEW i \in Indices, NEW j \in Indices
    PROVE  /\ Ahead(i) \in 1..MaxBuf
           /\ Ahead(i) = Ahead(j) => i = j
<1>1. PICK last \in Indices : last = lastidx
      OBVIOUS
<1>2. \A k : Ahead(k) = IF k > last THEN k - last ELSE k + MaxBuf - last
      BY <1>1 DEF Ahead
<1>3. QED
      BY <1>1, <1>2, Bounds

\* Once the search has got to n, what was beyond n is as far apart as before.
LEMMA AheadMoves ==
    ASSUME lastidx \in Indices, NEW n \in Indices, lastidx' = n,
           NEW i \in Indices, NEW j \in Indices
    PROVE  /\ Ahead(n) < Ahead(j) /\ Ahead(j) < Ahead(i) => Ahead(j)' < Ahead(i)'
           /\ Ahead(n)' = MaxBuf
           /\ j # n => Ahead(j)' < MaxBuf
<1>1. PICK last \in Indices : last = lastidx
      OBVIOUS
<1>2. /\ Ahead(n) = IF n > last THEN n - last ELSE n + MaxBuf - last
      /\ Ahead(i) = IF i > last THEN i - last ELSE i + MaxBuf - last
      /\ Ahead(j) = IF j > last THEN j - last ELSE j + MaxBuf - last
      BY <1>1 DEF Ahead
<1>3. /\ Ahead(n)' = IF n > n THEN n - n ELSE n + MaxBuf - n
      /\ Ahead(i)' = IF i > n THEN i - n ELSE i + MaxBuf - n
      /\ Ahead(j)' = IF j > n THEN j - n ELSE j + MaxBuf - n
      BY DEF Ahead
<1>4. QED
      BY <1>2, <1>3, Bounds

\* A set of numbers has a least one.
LEMMA Least ==
    ASSUME NEW S, S \subseteq Nat, S # {}
    PROVE  \E k \in S : \A j \in S : k <= j
<1> DEFINE Less == {ss \in Nat \X Nat : ss[1] < ss[2]}
<1>1. IsWellFoundedOn(Less, Nat)
      BY NatLessThanWellFounded DEF OpToRel
<1>2. \A j, k \in Nat : j < k => <<j, k>> \in Less
      OBVIOUS
<1> HIDE DEF Less
<1>3. PICK k \in S : \A j \in S : ~(<<j, k>> \in Less)
      BY <1>1, WFMin
<1>4. \A j \in S : ~(j < k) /\ j \in Nat /\ k \in Nat
      BY <1>2, <1>3
<1>5. QED
      BY <1>4

\* The search ends at an unused index, if there is one, and passes none.
LEMMA Search ==
    ASSUME lastidx \in Indices
    PROVE  /\ NextIndex \in Indices
           /\ \A j \in Indices : ~InUse(j) =>
                 ~InUse(NextIndex) /\ Ahead(NextIndex) <= Ahead(j)
<1> DEFINE behind(k) == (lastidx + 1 + k) % MaxBuf
           Steps == 0..(MaxBuf - 1)
           free == {k \in Steps : ~InUse(behind(k))}
<1>1. ASSUME NEW k \in Steps
      PROVE  /\ behind(k) \in Indices
             /\ Ahead(behind(k)) = k + 1
      <2>1. PICK x \in Nat : x = lastidx + 1 + k
            BY Bounds
      <2>2. x < MaxBuf + MaxBuf /\ MaxBuf \in Nat \ {0}
            BY <2>1, Bounds
      <2>3. x % MaxBuf = IF x < MaxBuf THEN x ELSE x - MaxBuf
            BY <2>2, Wraps
      <2>4. PICK y : y = behind(k)
            OBVIOUS
      <2>5. y = IF x < MaxBuf THEN x ELSE x - MaxBuf
            BY <2>1, <2>3, <2>4
      <2>6. y \in Indices /\ Ahead(y) = k + 1
            <3>1. PICK last \in Indices : last = lastidx
                  OBVIOUS
            <3>2. Ahead(y) = IF y > last THEN y - last ELSE y + MaxBuf - last
                  BY <3>1 DEF Ahead
            <3>3. x = last + 1 + k
                  BY <2>1, <3>1
            <3>4. QED
                  BY <2>2, <2>5, <3>2, <3>3, Bounds
      <2>7. QED
            BY <2>4, <2>6
<1>2. ASSUME NEW j \in Indices
      PROVE  \E k \in Steps : behind(k) = j /\ Ahead(j) = k + 1
      <2>1. PICK k \in Steps : Ahead(j) = k + 1
            <3>1. Ahead(j) \in 1..MaxBuf
                  BY AheadFacts
            <3>2. Ahead(j) - 1 \in Steps /\ Ahead(j) = (Ahead(j) - 1) + 1
                  BY <3>1, Bounds
            <3>3. QED
                  BY <3>2
      <2>2. behind(k) \in Indices /\ Ahead(behind(k)) = Ahead(j)
            BY <1>1, <2>1
      <2>3. behind(k) = j
            BY <2>2, AheadFacts
      <2>4. QED
            BY <2>1, <2>3
<1>3. NextIndex = IF free = {} THEN behind(0)
                  ELSE behind(CHOOSE k \in free : \A j \in free : k <= j)
      BY DEF NextIndex
<1>4. 0 \in Steps
      BY Bounds
<1> HIDE DEF behind
<1>5. CASE free = {}
      <2>1. \A j \in Indices : InUse(j)
            BY <1>2, <1>5
      <2>2. QED
            BY <1>1, <1>3, <1>4, <1>5, <2>1
<1>6. CASE free # {}
      <2>1. free \subseteq Nat
            BY Bounds
      <2>2. \E k \in free : \A j \in free : k <= j
            BY <1>6, <2>1, Least
      <2>3. PICK k : k = CHOOSE h \in free : \A j \in free : h <= j
            OBVIOUS
      <2>4. k \in free /\ \A j \in free : k <= j
            BY <2>2, <2>3
      <2>5. NextIndex = behind(k) /\ k \in Steps /\ ~InUse(behind(k))
            BY <1>3, <1>6, <2>3, <2>4
      <2>6. ASSUME NEW j \in Indices, ~InUse(j)
            PROVE  Ahead(NextIndex) <= Ahead(j)
            <3>1. PICK h \in Steps : behind(h) = j /\ Ahead(j) = h + 1
                  BY <1>2
            <3>2. k <= h /\ Ahead(NextIndex) = k + 1
                  BY <1>1, <2>4, <2>5, <2>6, <3>1
            <3>3. QED
                  BY <2>5, <3>1, <3>2, Bounds
      <2>7. QED
            BY <1>1, <2>5, <2>6
<1>7. QED
      BY <1>5, <1>6

\* There are more indices than callers.
LEMMA Pigeons ==
    ASSUME NEW f \in [Callers -> Indices]
    PROVE  /\ IsFiniteSet({j \in Indices : \A c \in Callers : f[c] # j})
           /\ Cardinality({j \in Indices : \A c \in Callers : f[c] # j}) >= Spare
<1> DEFINE Taken == {f[c] : c \in Callers}
           Left == {j \in Indices : \A c \in Callers : f[c] # j}
<1>1. f \in Surjection(Callers, Taken)
      BY DEF Surjection
<1>2. IsFiniteSet(Callers)
      BY PortAssumption
<1>3. IsFiniteSet(Taken) /\ Cardinality(Taken) <= Cardinality(Callers)
      BY <1>1, <1>2, FS_Surjection
<1>4. Taken \subseteq Indices /\ Left = Indices \ Taken /\ Indices \cap Taken = Taken
      OBVIOUS
<1>5. /\ IsFiniteSet(Indices \ Taken)
      /\ Cardinality(Indices \ Taken) = Cardinality(Indices) - Cardinality(Indices \cap Taken)
      BY Sizes, FS_Difference
<1>6. Cardinality(Taken) \in Nat
      BY <1>3, FS_CardinalityType
<1>7. Cardinality(Indices \ Taken) = MaxBuf - Cardinality(Taken)
      BY <1>4, <1>5, Sizes
<1>8. MaxBuf - Cardinality(Taken) >= Spare
      BY <1>3, <1>6, PortAssumption, FS_CardinalityType DEF Spare
<1>9. QED
      BY <1>4, <1>5, <1>7, <1>8

LEMMA VacantCounts ==
    ASSUME NEW i
    PROVE  IsFiniteSet(Vacant(i)) /\ Cardinality(Vacant(i)) \in Nat
BY Sizes, FS_Subset, FS_CardinalityType DEF Vacant

-----------------------------------------------------------------------------
(* How long an index is out of reach of the search.                              *)

LEMMA LastsKept ==
    ASSUME NEW i, NEW call \in Int, handed \in Nat, Lasts(i, call),
           lastidx' = lastidx, handed' = handed, \A j : Held(j)' => Held(j)
    PROVE  Lasts(i, call)'
<1>1. PICK v \in Nat, w \in Nat : v = Cardinality(Vacant(i)) /\ w = Cardinality(Vacant(i)')
      <2>1. IsFiniteSet(Vacant(i)')
            BY Sizes, FS_Subset DEF Vacant
      <2>2. QED
            BY <2>1, VacantCounts, FS_CardinalityType
<1>2. \A j : Ahead(j)' = Ahead(j)
      BY DEF Ahead
<1>3. Vacant(i) \in SUBSET Vacant(i)' /\ IsFiniteSet(Vacant(i)')
      BY <1>2, Sizes, FS_Subset DEF Vacant
<1>4. v <= w
      BY <1>1, <1>3, FS_Subset
<1>5. PICK h \in Nat : h = handed
      OBVIOUS
<1>6. v + h - call >= Spare
      BY <1>1, <1>5 DEF Lasts
<1>7. w + h - call >= Spare
      BY <1>1, <1>4, <1>6, Sizes
<1>8. QED
      BY <1>1, <1>5, <1>7 DEF Lasts

\* Each time an index is handed out, one unused index before i is gone, and one call
\* more was made.
LEMMA LastsAtGet ==
    ASSUME lastidx \in Indices, handed \in Nat,
           \A j \in Indices : InUse(j) => Held(j),
           NEW n, n = NextIndex, lastidx' = n, handed' = handed + 1,
           \A j \in Indices : Held(j)' => Held(j) \/ j = n,
           NEW i \in Indices, NEW call \in Int, Lasts(i, call)
    PROVE  Lasts(i, call)' /\ (Young(call) => i # n)
<1>1. PICK v \in Nat, w \in Nat : v = Cardinality(Vacant(i)) /\ w = Cardinality(Vacant(i)')
      <2>1. IsFiniteSet(Vacant(i)')
            BY Sizes, FS_Subset DEF Vacant
      <2>2. QED
            BY <2>1, VacantCounts, FS_CardinalityType
<1>2. PICK h \in Nat : h = handed
      OBVIOUS
<1>3. v + h - call >= Spare
      BY <1>1, <1>2 DEF Lasts
<1>4. Lasts(i, call)' <=> w + (h + 1) - call >= Spare
      BY <1>1, <1>2 DEF Lasts
<1>5. Young(call) <=> h + 1 - call < Spare + 1
      BY <1>2, Sizes DEF Young
<1>6. CASE Vacant(i) = {}
      <2>1. v = 0
            BY <1>1, <1>6, FS_EmptySet
      <2>2. w + (h + 1) - call >= Spare /\ ~(h + 1 - call < Spare + 1)
            BY <1>1, <1>2, <1>3, <2>1, Sizes
      <2>3. QED
            BY <1>4, <1>5, <2>2
<1>7. CASE Vacant(i) # {}
      <2>1. PICK j \in Indices : Ahead(j) < Ahead(i) /\ ~InUse(j)
            BY <1>7 DEF Vacant
      <2>2. n \in Indices /\ Ahead(n) <= Ahead(j)
            BY <2>1, Search
      <2>3. Ahead(n) < Ahead(i)
            BY <2>1, <2>2, AheadFacts, Sizes
      <2>4. i # n
            BY <2>2, <2>3, AheadFacts, Sizes
      <2>5. ASSUME NEW k \in Vacant(i), k # n
            PROVE  k \in Vacant(i)'
            <3>1. k \in Indices /\ Ahead(k) < Ahead(i) /\ ~Held(k)
                  BY DEF Vacant
            <3>2. ~InUse(k)
                  BY <3>1
            <3>3. Ahead(n) <= Ahead(k) /\ Ahead(n) # Ahead(k)
                  BY <2>2, <2>5, <3>1, <3>2, Search, AheadFacts
            <3>4. Ahead(n) < Ahead(k)
                  BY <2>2, <3>1, <3>3, AheadFacts, Sizes
            <3>5. Ahead(k)' < Ahead(i)'
                  BY <2>2, <3>1, <3>4, AheadMoves
            <3>6. ~Held(k)'
                  BY <2>5, <3>1
            <3>7. QED
                  BY <3>1, <3>5, <3>6 DEF Vacant
      <2>6. (Vacant(i) \ {n}) \in SUBSET Vacant(i)' /\ IsFiniteSet(Vacant(i)')
            BY <2>5, Sizes, FS_Subset DEF Vacant
      <2>7. PICK u \in Nat : u = Cardinality(Vacant(i) \ {n}) /\ v - 1 <= u /\ u <= w
            <3>1. Cardinality(Vacant(i) \ {n}) \in {v, v - 1} /\ IsFiniteSet(Vacant(i) \ {n})
                  BY <1>1, VacantCounts, FS_RemoveElement
            <3>2. Cardinality(Vacant(i) \ {n}) \in Nat
                  BY <3>1, FS_CardinalityType
            <3>3. Cardinality(Vacant(i) \ {n}) <= w
                  BY <1>1, <2>6, FS_Subset
            <3>4. QED
                  BY <3>1, <3>2, <3>3
      <2>8. w + (h + 1) - call >= Spare
            BY <1>3, <2>7, Sizes
      <2>9. QED
            BY <1>4, <2>4, <2>8
<1>8. QED
      BY <1>6, <1>7

\* What was just handed out is as far away as can be.
LEMMA LastsNew ==
    ASSUME NEW f \in [Callers -> Indices], \A c \in Callers : f[c] = job'[c].idx,
           NEW n \in Indices, lastidx \in Indices, lastidx' = n,
           Held(n)', NEW h \in Nat, handed' = h
    PROVE  Lasts(n, h)'
<1> DEFINE Left == {j \in Indices : \A c \in Callers : f[c] # j}
<1>1. ASSUME NEW j \in Left
      PROVE  j \in Vacant(n)'
      <2>1. j \in Indices /\ \A c \in Callers : job'[c].idx # j
            OBVIOUS
      <2>2. ~Held(j)' /\ j # n
            BY <2>1 DEF Held
      <2>3. Ahead(j)' < Ahead(n)'
            BY <2>1, <2>2, AheadMoves
      <2>4. QED
            BY <2>1, <2>2, <2>3 DEF Vacant
<1>2. IsFiniteSet(Left) /\ Cardinality(Left) >= Spare
      BY Pigeons
<1> HIDE DEF Left
<1>3. Left \in SUBSET Vacant(n)' /\ IsFiniteSet(Vacant(n)')
      BY <1>1, Sizes, FS_Subset DEF Vacant
<1>4. PICK l \in Nat, w \in Nat : l = Cardinality(Left) /\ w = Cardinality(Vacant(n)') /\ l <= w
      BY <1>2, <1>3, FS_Subset, FS_CardinalityType
<1>5. w + h - h >= Spare
      BY <1>2, <1>4, Sizes
<1>6. QED
      BY <1>4, <1>5 DEF Lasts

-----------------------------------------------------------------------------
(* Frames.                                                                       *)

Coms == {"NOP", "BWR", "BRD", "APRD", "ARMW", "FRMW", "FPRD", "APWR", "FPWR", "LRW", "LRD", "LWR"}
Datagrams == [com : Coms, data : {"zero", "buffer"}, call : Nat, visited : SUBSET Line, follows : BOOLEAN]
Frames == [idx : Indices, grams : Seq(Datagrams) \ {<<>>}]
OnWire == [at : Stacks, sa : Stacks, frame : Frames, n : Nat \X Nat]

LEMMA FrameFacts ==
    ASSUME NEW frame \in Frames
    PROVE  /\ frame.idx \in Indices /\ frame.grams \in Seq(Datagrams)
           /\ Len(frame.grams) \in Nat \ {0} /\ DOMAIN frame.grams = 1..Len(frame.grams)
           /\ \A k \in DOMAIN frame.grams : frame.grams[k] \in Datagrams
           /\ frame.grams[1] \in Datagrams /\ LastGram(frame) \in Datagrams
<1>1. frame.idx \in Indices /\ frame.grams \in Seq(Datagrams) /\ frame.grams # <<>>
      BY DEF Frames
<1>2. /\ Len(frame.grams) \in Nat /\ DOMAIN frame.grams = 1..Len(frame.grams)
      /\ \A k \in DOMAIN frame.grams : frame.grams[k] \in Datagrams
      BY <1>1
<1>3. Len(frame.grams) # 0
      BY <1>1
<1>4. QED
      BY <1>1, <1>2, <1>3 DEF LastGram

LEMMA WkcFacts ==
    ASSUME NEW gram \in Datagrams
    PROVE  WkcOf(gram) \in 0..Slaves
<1> DEFINE those == gram.visited \cap Targets(gram.com, Addressed, Line)
<1>1. IsFiniteSet(Line) /\ Cardinality(Line) = Slaves
      BY Sizes
<1>2. those \in SUBSET Line
      BY DEF Datagrams
<1>3. IsFiniteSet(those) /\ Cardinality(those) <= Slaves
      BY <1>1, <1>2, FS_Subset
<1>4. Cardinality(those) \in Nat
      BY <1>3, FS_CardinalityType
<1>5. QED
      BY <1>3, <1>4, Sizes DEF WkcOf

LEMMA DatagramFacts ==
    ASSUME NEW com \in Coms, NEW data \in {"zero", "buffer"}, NEW call \in Nat, NEW follows \in BOOLEAN
    PROVE  /\ Datagram(com, data, call, follows) \in Datagrams
           /\ Datagram(com, data, call, follows).call = call
           /\ Datagram(com, data, call, follows).visited = {}
           /\ Datagram(com, data, call, follows).follows = follows
BY DEF Datagram, WriteDatagramData, Datagrams, Coms

LEMMA OneGram ==
    ASSUME NEW i \in Indices, NEW a \in Datagrams,
           NEW frame, frame = [idx |-> i, grams |-> <<a>>]
    PROVE  frame \in Frames /\ frame.idx = i /\ frame.grams[1] = a /\ DOMAIN frame.grams = {1}
<1>1. /\ <<a>> \in Seq(Datagrams) /\ <<a>> # <<>>
      /\ <<a>>[1] = a /\ Len(<<a>>) = 1 /\ DOMAIN <<a>> = 1..1
      OBVIOUS
<1>2. frame.idx = i /\ frame.grams = <<a>>
      OBVIOUS
<1>3. frame \in Frames
      BY <1>1 DEF Frames
<1>4. QED
      BY <1>1, <1>2, <1>3

LEMMA DummyFacts ==
    ASSUME NEW i \in Indices
    PROVE  /\ Dummy(i) \in Frames /\ Dummy(i).idx = i /\ Dummy(i).grams[1].call = 0
           /\ Blank \in Frames /\ Blank.grams[1].call = 0 /\ NoDatagram \in Datagrams
<1>1. PICK a, b : a = Datagram("BRD", "zero", 0, FALSE) /\ b = NoDatagram
      OBVIOUS
<1>2. a \in Datagrams /\ a.call = 0 /\ b \in Datagrams /\ b.call = 0
      BY <1>1 DEF NoDatagram, Datagram, WriteDatagramData, Datagrams, Coms
<1>3. 0 \in Indices
      BY Bounds
<1>4. Dummy(i) = [idx |-> i, grams |-> <<a>>] /\ Blank = [idx |-> 0, grams |-> <<b>>]
      BY <1>1 DEF Dummy, Blank
<1>5. Dummy(i) \in Frames /\ Dummy(i).idx = i /\ Dummy(i).grams[1] = a
      BY <1>2, <1>4, OneGram
<1>6. Blank \in Frames /\ Blank.grams[1] = b
      BY <1>2, <1>3, <1>4, OneGram
<1>7. QED
      BY <1>1, <1>2, <1>5, <1>6

\* The frame of a call: one datagram, or two of which the second is seen as well.
LEMMA FrameOfFacts ==
    ASSUME NEW com \in DOMAIN Primitives, NEW i \in Indices, NEW call \in Nat
    PROVE  LET frame == FrameOf(Primitives[com], i, call)
           IN  /\ frame \in Frames /\ frame.idx = i /\ frame.grams[1].call = call
               /\ Seen(frame) = DOMAIN frame.grams
<1>1. PICK p : p = Primitives[com]
      OBVIOUS
<1>2. /\ Len(p.coms) \in {1, 2} /\ p.coms[1] \in Coms
      /\ Len(p.coms) = 2 => p.coms[2] \in Coms
      BY <1>1 DEF Primitives, Primitive, BWR, BRD, APRD, ARMW, FRMW, FPRD, APWR, FPWR,
         LRW, LRD, LWR, LRWDC, Coms
<1>3. PICK a : a = Datagram(p.coms[1], "buffer", call, FALSE)
      OBVIOUS
<1>4. a \in Datagrams /\ a.call = call
      BY <1>2, <1>3, DatagramFacts
<1>5. CASE Len(p.coms) = 1
      <2>1. FrameOf(p, i, call) = [idx |-> i, grams |-> <<a>>]
            BY <1>3, <1>5 DEF FrameOf, SetupDatagram
      <2>2. PICK frame : frame = FrameOf(p, i, call)
            OBVIOUS
      <2>3. frame \in Frames /\ frame.idx = i /\ frame.grams[1] = a /\ DOMAIN frame.grams = {1}
            BY <1>4, <2>1, <2>2, OneGram
      <2>4. Seen(frame) = DOMAIN frame.grams
            BY <2>3 DEF Seen
      <2>5. QED
            BY <1>1, <1>4, <2>2, <2>3, <2>4
<1>6. CASE Len(p.coms) = 2
      <2>1. PICK b : b = Datagram(p.coms[2], "buffer", call, FALSE)
            OBVIOUS
      <2>2. b \in Datagrams
            BY <1>2, <1>6, <2>1, DatagramFacts
      <2>3. PICK d : d = [a EXCEPT !.follows = TRUE]
            OBVIOUS
      <2>4. d \in Datagrams /\ d.call = call /\ d.follows
            BY <1>4, <2>3 DEF Datagrams
      <2>5. PICK both : both = Append([<<a>> EXCEPT ![1] = d], b)
            OBVIOUS
      <2>6. both \in Seq(Datagrams) /\ Len(both) = 2 /\ both[1] = d
            BY <1>4, <2>2, <2>4, <2>5
      <2>7. [<<a>> EXCEPT ![1].follows = TRUE] = [<<a>> EXCEPT ![1] = d]
            BY <2>3
      <2>8. FrameOf(p, i, call) = [idx |-> i, grams |-> both]
            <3>1. PICK first : first = SetupDatagram(i, p.coms[1], "buffer", call)
                  OBVIOUS
            <3>2. first = [idx |-> i, grams |-> <<a>>]
                  BY <1>3, <3>1 DEF SetupDatagram
            <3>3. FrameOf(p, i, call) = AddDatagram(first, p.coms[2], FALSE, "buffer", call)
                  BY <1>6, <3>1 DEF FrameOf
            <3>4. first.grams = <<a>> /\ first.idx = i
                  BY <3>2
            <3>5. Append([first.grams EXCEPT ![1].follows = TRUE], b) = both
                  BY <2>5, <2>7, <3>4
            <3>6. FrameOf(p, i, call) = [first EXCEPT !.grams = both]
                  BY <2>1, <3>3, <3>5 DEF AddDatagram
            <3>7. QED
                  BY <3>2, <3>6
      <2>9. both # <<>> /\ DOMAIN both = 1..2
            BY <2>6
      <2>10. Seen([idx |-> i, grams |-> both]) = DOMAIN both
            BY <2>4, <2>6, <2>9 DEF Seen
      <2>11. QED
            BY <1>1, <2>4, <2>6, <2>8, <2>9, <2>10 DEF Frames
<1>7. QED
      BY <1>2, <1>5, <1>6

\* Passing slaves changes what they add, and nothing else.
LEMMA PassedFacts ==
    ASSUME NEW frame \in Frames, NEW slaves \in SUBSET Line
    PROVE  /\ Passed(frame, slaves) \in Frames
           /\ Passed(frame, slaves).idx = frame.idx
           /\ Passed(frame, slaves).grams[1].call = frame.grams[1].call
           /\ Len(Passed(frame, slaves).grams) = Len(frame.grams)
           /\ \A k \in DOMAIN frame.grams :
                 /\ Passed(frame, slaves).grams[k].follows = frame.grams[k].follows
                 /\ Passed(frame, slaves).grams[k].com = frame.grams[k].com
                 /\ k \in Seen(frame) =>
                       Passed(frame, slaves).grams[k].visited = frame.grams[k].visited \union slaves
<1> DEFINE grams == frame.grams
           visit(k) == IF k \in Seen(frame)
                       THEN [grams[k] EXCEPT !.visited = @ \union slaves] ELSE grams[k]
           after == [k \in DOMAIN grams |-> visit(k)]
<1>1. /\ grams \in Seq(Datagrams) /\ Len(grams) \in Nat \ {0} /\ DOMAIN grams = 1..Len(grams)
      /\ \A k \in DOMAIN grams : grams[k] \in Datagrams
      BY FrameFacts
<1>2. Passed(frame, slaves) = [frame EXCEPT !.grams = after]
      BY DEF Passed, ProcessedBy
<1>3. /\ Passed(frame, slaves).idx = frame.idx /\ Passed(frame, slaves).grams = after
      /\ after \in Seq(Datagrams) /\ after # <<>> => Passed(frame, slaves) \in Frames
      BY <1>2 DEF Frames
<1>4. ASSUME NEW k \in DOMAIN grams
      PROVE  /\ visit(k) \in Datagrams /\ visit(k).call = grams[k].call
             /\ visit(k).follows = grams[k].follows /\ visit(k).com = grams[k].com
             /\ k \in Seen(frame) => visit(k).visited = grams[k].visited \union slaves
      BY <1>1 DEF Datagrams
<1> HIDE DEF visit
<1>5. /\ after \in Seq(Datagrams) /\ Len(after) = Len(grams) /\ DOMAIN after = DOMAIN grams
      /\ after # <<>> /\ 1 \in DOMAIN grams
      BY <1>1, <1>4
<1>6. QED
      BY <1>3, <1>4, <1>5

LEMMA SentFacts ==
    ASSUME cut \in 0..Whole, NEW from \in Stacks, NEW sa \in Stacks, NEW frame \in Frames,
           NEW call \in Nat, NEW tries \in Nat, NEW f \in Sent(from, sa, frame, <<call, tries>>)
    PROVE  /\ f \in OnWire /\ f.at = Arrives(from) /\ f.sa = sa /\ CallOf(f) = call
           /\ f.frame.idx = frame.idx /\ f.frame.grams[1].call = frame.grams[1].call
<1>1. Visits(from) \in SUBSET Line
      <2>1. CASE from = Prim
            BY <2>1, Bounds DEF Visits, Line, Whole, Prim, Sec
      <2>2. CASE from = Sec
            BY <2>2, Bounds DEF Visits, Line, Whole, Prim, Sec
      <2>3. QED
            BY <2>1, <2>2 DEF Stacks
<1>2. f = [at |-> Arrives(from), sa |-> sa, frame |-> Passed(frame, Visits(from)),
           n |-> <<call, tries>>]
      BY DEF Sent
<1>3. Arrives(from) \in Stacks
      BY DEF Arrives, Stacks, Prim, Sec
<1>4. QED
      BY <1>1, <1>2, <1>3, PassedFacts DEF OnWire, CallOf

-----------------------------------------------------------------------------
(* The inductive invariant.                                                      *)

Jobs == [pc : {"idle", "send", "wait", "read", "reroute", "done"}, com : DOMAIN Primitives,
         idx : Indices, call : Nat, tries : 0..MaxSends, wkc : [Stacks -> NoFrame..Slaves],
         reads : Stacks, back : {"idle", "wait", "reroute"}, clean : BOOLEAN, copied : Datagrams]

Typed ==
    /\ txbuf \in [Indices -> Frames] /\ rxbuf \in [Stacks -> [Indices -> Frames]]
    /\ job \in [Callers -> Jobs] /\ wire \subseteq OnWire

\* The ports that are open, and the calls a frame of a call may say it is of.
Ports == IF redstate = "double" THEN Stacks ELSE {Prim}
Own(call) == {call} \union IF redstate = "double" THEN {0} ELSE {}
IsOf(frame, i, call) == frame.idx = i /\ frame.grams[1].call \in Own(call)

\* A frame was sent round the other way.
Round(c) == job[c].pc = "reroute" \/ (job[c].pc = "read" /\ job[c].back = "reroute")

Paced ==
    \A c \in Callers :
       /\ job[c].pc = "send" => job[c].tries < MaxSends
       /\ job[c].pc = "read" => job[c].back # "idle"
       /\ Round(c) => redstate = "double" /\ (job[c].pc = "read" => job[c].reads = Sec)

\* No index comes round again while a caller has it, or a frame bears it.
Bears(i, call) ==
    \/ \E c \in Callers : Busy(c) /\ job[c].idx = i /\ job[c].call = call
    \/ \E f \in wire : f.frame.idx = i /\ CallOf(f) = call
Turns == \A i \in Indices, call \in Nat : Bears(i, call) => Lasts(i, call)

UseIsHeld == \A st \in Ports, i \in Indices : rxbufstat[st][i] # "EMPTY" => Held(i)

FramesOwn ==
    \A f \in wire :
       /\ f.frame.grams[1].call \in Own(CallOf(f))
       /\ \A c \in Callers : Busy(c) /\ job[c].idx = f.frame.idx => CallOf(f) = job[c].call

\* What a caller sends, and what it has got or will find, is of its own call.
Has(c, st) == job[c].wkc[st] > NoFrame \/ rxbufstat[st][job[c].idx] = "RCVD"
BuffersOwn ==
    \A c \in Callers :
       Busy(c) => /\ IsOf(txbuf[job[c].idx], job[c].idx, job[c].call)
                  /\ \A st \in Ports :
                        Has(c, st) => IsOf(rxbuf[st][job[c].idx], job[c].idx, job[c].call)

CopiesOwn ==
    \A c \in Callers : job[c].copied # NoDatagram => job[c].copied.call \in Own(job[c].call)

OwnInv ==
    /\ TypeOK /\ Typed /\ Paced /\ Turns
    /\ IndexHeldOnce /\ UseIsHeld /\ FramesOwn /\ BuffersOwn /\ CopiesOwn

-----------------------------------------------------------------------------
(* All steps but the one that hands out an index.                                *)

\* No caller becomes busy, and what is new on the wire is of a busy one.
Moves ==
    /\ redstate' = redstate /\ lastidx' = lastidx /\ handed' = handed
    /\ \A d \in Callers :
          Busy(d)' => Busy(d) /\ job'[d].idx = job[d].idx /\ job'[d].call = job[d].call
    /\ \A f \in wire' :
          \/ f \in wire
          \/ \E c \in Callers : /\ Busy(c) /\ f.frame.idx = job[c].idx
                                /\ CallOf(f) = job[c].call
                                /\ f.frame.grams[1].call \in Own(CallOf(f))

LEMMA Moved ==
    ASSUME OwnInv, Moves
    PROVE  Turns' /\ IndexHeldOnce' /\ FramesOwn'
<1>1. /\ redstate' = redstate /\ lastidx' = lastidx /\ handed' = handed /\ handed \in Nat
      /\ \A j : Held(j)' => Held(j)
      <2>1. handed \in Nat
            BY Bounds DEF OwnInv, TypeOK
      <2>2. ASSUME NEW j, Held(j)'
            PROVE  Held(j)
            BY <2>2 DEF Moves, Held
      <2>3. QED
            BY <2>1, <2>2 DEF Moves
<1>2. \A call : Own(call)' = Own(call)
      BY <1>1 DEF Own
<1>3. ASSUME NEW f \in wire'
      PROVE  f \in wire \/ \E c \in Callers : /\ Busy(c) /\ f.frame.idx = job[c].idx
                                              /\ CallOf(f) = job[c].call
                                              /\ f.frame.grams[1].call \in Own(CallOf(f))
      BY DEF Moves
<1>4. IndexHeldOnce'
      <2>1. SUFFICES ASSUME NEW c \in Callers, NEW d \in Callers, c # d, Busy(c)', Busy(d)'
                     PROVE  job'[c].idx # job'[d].idx
            BY DEF IndexHeldOnce, Busy
      <2>2. QED
            BY <2>1 DEF Moves, OwnInv, IndexHeldOnce, Busy
<1>5. FramesOwn'
      <2>1. SUFFICES ASSUME NEW f \in wire'
                     PROVE  /\ f.frame.grams[1].call \in Own(CallOf(f))
                            /\ \A c \in Callers : Busy(c)' /\ job'[c].idx = f.frame.idx =>
                                                     CallOf(f) = job'[c].call
            BY <1>2 DEF FramesOwn, CallOf
      <2>2. CASE f \in wire
            BY <2>2 DEF Moves, OwnInv, FramesOwn
      <2>3. CASE f \notin wire
            <3>1. PICK d \in Callers : /\ Busy(d) /\ f.frame.idx = job[d].idx
                                       /\ CallOf(f) = job[d].call
                                       /\ f.frame.grams[1].call \in Own(CallOf(f))
                  BY <1>3, <2>3
            <3>2. ASSUME NEW c \in Callers, Busy(c)', job'[c].idx = f.frame.idx
                  PROVE  CallOf(f) = job'[c].call
                  <4>1. Busy(c) /\ job'[c].idx = job[c].idx /\ job'[c].call = job[c].call
                        BY <3>2 DEF Moves
                  <4>2. c = d
                        BY <3>1, <3>2, <4>1 DEF OwnInv, IndexHeldOnce, Busy
                  <4>3. QED
                        BY <3>1, <4>1, <4>2
            <3>3. QED
                  BY <3>1, <3>2
      <2>4. QED
            BY <2>2, <2>3
<1>6. Turns'
      <2>1. SUFFICES ASSUME NEW i \in Indices, NEW call \in Nat, Bears(i, call)'
                     PROVE  Lasts(i, call)'
            BY DEF Turns
      <2>2. Bears(i, call)
            <3>1. CASE \E c \in Callers : Busy(c)' /\ job'[c].idx = i /\ job'[c].call = call
                  BY <3>1 DEF Moves, Bears
            <3>2. CASE \E f \in wire' : f.frame.idx = i /\ CallOf(f) = call
                  BY <1>3, <3>2 DEF Bears
            <3>3. QED
                  BY <2>1, <3>1, <3>2 DEF Bears, CallOf
      <2>3. Lasts(i, call)
            BY <2>2 DEF OwnInv, Turns
      <2>4. call \in Int
            OBVIOUS
      <2>5. QED
            BY <1>1, <2>3, <2>4, LastsKept
<1>7. QED
      BY <1>4, <1>5, <1>6

LEMMA JobFacts ==
    ASSUME NEW j \in Jobs
    PROVE  /\ j.pc \in {"idle", "send", "wait", "read", "reroute", "done"}
           /\ j.com \in DOMAIN Primitives /\ j.idx \in Indices /\ j.call \in Nat
           /\ j.tries \in 0..MaxSends /\ j.wkc \in [Stacks -> NoFrame..Slaves]
           /\ j.reads \in Stacks /\ j.back \in {"idle", "wait", "reroute"}
           /\ j.clean \in BOOLEAN /\ j.copied \in Datagrams
BY DEF Jobs

LEMMA WireFacts ==
    ASSUME Typed, NEW f \in wire
    PROVE  /\ f \in OnWire /\ f.at \in Stacks /\ f.sa \in Stacks /\ f.frame \in Frames
           /\ f.frame.idx \in Indices /\ CallOf(f) \in Nat
<1>1. f \in OnWire
      BY DEF Typed
<1>2. f.at \in Stacks /\ f.sa \in Stacks /\ f.frame \in Frames /\ f.n \in Nat \X Nat
      BY <1>1 DEF OnWire
<1>3. QED
      BY <1>1, <1>2 DEF Frames, CallOf

\* A step of one caller: what it changes in the buffers of others is a frame it read
\* for them, and when it gives its index back, its buffers are empty.
Local(c) ==
    /\ \A d \in Callers : d # c => job'[d] = job[d]
    /\ \A i \in Indices, st \in Stacks : i # job[c].idx =>
          /\ txbuf'[i] = txbuf[i]
          /\ \/ rxbuf'[st][i] = rxbuf[st][i] /\ rxbufstat'[st][i] = rxbufstat[st][i]
             \/ /\ rxbufstat[st][i] # "EMPTY"
                /\ \E f \in wire : f.frame.idx = i /\ rxbuf'[st][i] = f.frame
    /\ Busy(c)' => /\ IsOf(txbuf'[job[c].idx], job[c].idx, job[c].call)
                   /\ \A st \in Ports : Has(c, st)' =>
                         IsOf(rxbuf'[st][job[c].idx], job[c].idx, job[c].call)
    /\ ~Busy(c)' => \A st \in Ports : rxbufstat'[st][job[c].idx] = "EMPTY"
    /\ job'[c].copied # NoDatagram => job'[c].copied.call \in Own(job'[c].call)

LEMMA Located ==
    ASSUME OwnInv, NEW c \in Callers, Busy(c), Moves, Local(c)
    PROVE  UseIsHeld' /\ BuffersOwn' /\ CopiesOwn'
<1>1. /\ \A call : Own(call)' = Own(call)
      /\ Ports' = Ports /\ Ports \subseteq Stacks
      BY DEF Moves, Own, Ports, Stacks, Prim, Sec
<1>2. \A d \in Callers : d # c => /\ job'[d] = job[d]
                                  /\ Busy(d) => job[d].idx # job[c].idx
      BY DEF Local, OwnInv, IndexHeldOnce, Busy
<1>3. CopiesOwn'
      <2>1. SUFFICES ASSUME NEW d \in Callers, job'[d].copied # NoDatagram
                     PROVE  job'[d].copied.call \in Own(job'[d].call)
            BY <1>1 DEF CopiesOwn
      <2>2. QED
            BY <1>2, <2>1 DEF Local, OwnInv, CopiesOwn
<1>4. BuffersOwn'
      <2>1. SUFFICES ASSUME NEW d \in Callers, Busy(d)'
                     PROVE  /\ IsOf(txbuf'[job'[d].idx], job'[d].idx, job'[d].call)
                            /\ \A st \in Ports : Has(d, st)' =>
                                  IsOf(rxbuf'[st][job'[d].idx], job'[d].idx, job'[d].call)
            BY <1>1 DEF BuffersOwn, IsOf
      <2>2. Busy(d) /\ job'[d].idx = job[d].idx /\ job'[d].call = job[d].call
            BY <2>1 DEF Moves
      <2>3. CASE d = c
            BY <2>1, <2>2, <2>3 DEF Local
      <2>4. CASE d # c
            <3>1. PICK i \in Indices : i = job[d].idx /\ i # job[c].idx
                  BY <1>2, <2>2, <2>4, JobFacts DEF OwnInv, Typed
            <3>2. IsOf(txbuf'[i], i, job[d].call)
                  BY <2>2, <3>1 DEF Local, OwnInv, BuffersOwn, Stacks
            <3>3. ASSUME NEW st \in Ports, Has(d, st)'
                  PROVE  IsOf(rxbuf'[st][i], i, job[d].call)
                  <4>1. CASE /\ rxbuf'[st][i] = rxbuf[st][i]
                             /\ rxbufstat'[st][i] = rxbufstat[st][i]
                        <5>1. Has(d, st)
                              BY <1>2, <2>4, <3>1, <3>3, <4>1 DEF Has
                        <5>2. QED
                              BY <2>2, <3>1, <4>1, <5>1 DEF OwnInv, BuffersOwn
                  <4>2. CASE \E f \in wire : f.frame.idx = i /\ rxbuf'[st][i] = f.frame
                        BY <2>2, <3>1, <4>2 DEF OwnInv, FramesOwn, IsOf
                  <4>3. QED
                        BY <1>1, <3>1, <4>1, <4>2 DEF Local
            <3>4. QED
                  BY <2>2, <3>1, <3>2, <3>3
      <2>5. QED
            BY <2>3, <2>4
<1>5. UseIsHeld'
      <2>1. SUFFICES ASSUME NEW st \in Ports, NEW i \in Indices, rxbufstat'[st][i] # "EMPTY"
                     PROVE  Held(i)'
            BY <1>1 DEF UseIsHeld
      <2>2. CASE i = job[c].idx
            <3>1. Busy(c)'
                  BY <2>1, <2>2 DEF Local
            <3>2. QED
                  BY <2>2, <3>1 DEF Held, Moves
      <2>3. CASE i # job[c].idx
            <3>1. rxbufstat[st][i] # "EMPTY"
                  BY <1>1, <2>1, <2>3 DEF Local
            <3>2. PICK d \in Callers : Busy(d) /\ job[d].idx = i
                  BY <3>1 DEF OwnInv, UseIsHeld, Held
            <3>3. d # c /\ job'[d] = job[d]
                  BY <1>2, <2>3, <3>2
            <3>4. QED
                  BY <3>2, <3>3 DEF Held, Busy
      <2>4. QED
            BY <2>2, <2>3
<1>6. QED
      BY <1>3, <1>4, <1>5

\* What a step of a caller has to show.
Steady(c) == TypeOK' /\ Typed' /\ Paced' /\ Moves /\ Local(c)

LEMMA SteadyKeeps ==
    ASSUME OwnInv, NEW c \in Callers, Busy(c), Steady(c)
    PROVE  OwnInv'
BY Moved, Located DEF Steady, OwnInv

LEMMA TypeKept ==
    ASSUME Typed', redstate' \in {"none", "double"}, cut' \in 0..Whole, lastidx' \in Indices,
           handed' \in 0..MaxCalls, faults' \in 0..MaxFaults, rxsa' \in [Stacks -> [Indices -> Stacks]],
           rxbufstat' \in [Stacks -> [Indices -> {"EMPTY", "ALLOC", "TX", "RCVD", "COMPLETE"}]]
    PROVE  TypeOK'
<1>1. ASSUME NEW c \in Callers
      PROVE  /\ job'[c].pc \in {"idle", "send", "wait", "read", "reroute", "done"}
             /\ job'[c].idx \in Indices /\ job'[c].tries \in 0..MaxSends
             /\ \A s \in Stacks : job'[c].wkc[s] \in NoFrame..Slaves
      <2>1. job'[c] \in Jobs
            BY DEF Typed
      <2>2. PICK wkc : wkc = job'[c].wkc /\ wkc \in [Stacks -> NoFrame..Slaves]
            BY <2>1, JobFacts
      <2>3. \A s \in Stacks : wkc[s] \in NoFrame..Slaves
            BY <2>2
      <2>4. QED
            BY <2>1, <2>2, <2>3, JobFacts
<1>2. ASSUME NEW f \in wire'
      PROVE  f.at \in Stacks /\ f.frame.idx \in Indices
      BY DEF Typed, OnWire, Frames
<1>3. QED
      BY <1>1, <1>2 DEF TypeOK

\* The step of a caller whose locals become j.
LEMMA JobMoves ==
    ASSUME OwnInv, NEW c \in Callers, NEW j \in Jobs, job' = [job EXCEPT ![c] = j],
           redstate' = redstate,
           j.pc = "send" => j.tries < MaxSends,
           j.pc = "read" => j.back # "idle",
           j.pc = "reroute" \/ (j.pc = "read" /\ j.back = "reroute") =>
              redstate = "double" /\ (j.pc = "read" => j.reads = Sec)
    PROVE  /\ job' \in [Callers -> Jobs] /\ job'[c] = j
           /\ \A d \in Callers : d # c => job'[d] = job[d]
           /\ Paced'
<1>1. job \in [Callers -> Jobs]
      BY DEF OwnInv, Typed
<1>2. /\ job' \in [Callers -> Jobs] /\ job'[c] = j
      /\ \A d \in Callers : d # c => job'[d] = job[d]
      BY <1>1
<1>3. SUFFICES ASSUME NEW d \in Callers
               PROVE  /\ job'[d].pc = "send" => job'[d].tries < MaxSends
                      /\ job'[d].pc = "read" => job'[d].back # "idle"
                      /\ Round(d)' => redstate = "double" /\ (job'[d].pc = "read" => job'[d].reads = Sec)
      BY <1>2 DEF Paced
<1>4. CASE d = c
      BY <1>2, <1>4 DEF Round
<1>5. CASE d # c
      <2>1. job'[d] = job[d]
            BY <1>2, <1>5
      <2>2. /\ job[d].pc = "send" => job[d].tries < MaxSends
            /\ job[d].pc = "read" => job[d].back # "idle"
            /\ Round(d) => redstate = "double" /\ (job[d].pc = "read" => job[d].reads = Sec)
            BY DEF OwnInv, Paced
      <2>3. Round(d)' <=> Round(d)
            BY <2>1 DEF Round
      <2>4. QED
            BY <2>1, <2>2, <2>3
<1>6. QED
      BY <1>4, <1>5

LEMMA MissingStep ==
    ASSUME OwnInv, NEW c \in Callers, NEW st \in Stacks, InFrameMissing(c, st)
    PROVE  Busy(c) /\ Steady(c)
<1>1. PICK j : j = [job[c] EXCEPT !.pc = "read", !.reads = st, !.back = job[c].pc]
      OBVIOUS
<1>2. job[c] \in Jobs /\ job[c].pc \in {"wait", "reroute"} /\ (job[c].pc = "reroute" => st = Sec)
      BY DEF InFrameMissing, Waits, OwnInv, Typed
<1>3. /\ j \in Jobs /\ j.pc = "read" /\ j.reads = st /\ j.back = job[c].pc
      /\ j.idx = job[c].idx /\ j.call = job[c].call /\ j.wkc = job[c].wkc /\ j.copied = job[c].copied
      BY <1>1, <1>2 DEF Jobs
<1>4. job' = [job EXCEPT ![c] = j]
      BY <1>1 DEF InFrameMissing, OwnInv, Typed
<1>5. j.back = "reroute" => redstate = "double" /\ st = Sec
      BY <1>2, <1>3 DEF OwnInv, Paced, Round
<1>6. /\ job' \in [Callers -> Jobs] /\ job'[c] = j /\ Paced'
      /\ \A d \in Callers : d # c => job'[d] = job[d]
      BY <1>2, <1>3, <1>4, <1>5, JobMoves, ZenonT(30) DEF InFrameMissing
<1>7. Typed' /\ TypeOK'
      <2>1. Typed'
            BY <1>6 DEF InFrameMissing, OwnInv, Typed
      <2>2. QED
            BY <2>1, TypeKept DEF InFrameMissing, OwnInv, TypeOK
<1>8. Moves
      BY <1>2, <1>3, <1>6 DEF InFrameMissing, Moves, Busy
<1>9. Local(c)
      BY <1>2, <1>3, <1>6 DEF InFrameMissing, Local, Busy, Has, OwnInv, BuffersOwn, CopiesOwn
<1>10. QED
      BY <1>2, <1>6, <1>7, <1>8, <1>9 DEF Steady, Busy

LEMMA NothingStep ==
    ASSUME OwnInv, NEW c \in Callers, NothingToRead(c)
    PROVE  Busy(c) /\ Steady(c)
<1>1. PICK j : j = [job[c] EXCEPT !.pc = job[c].back]
      OBVIOUS
<1>2. /\ job[c] \in Jobs /\ job[c].pc = "read" /\ job[c].back \in {"wait", "reroute"}
      /\ job[c].back = "reroute" => redstate = "double"
      BY JobFacts DEF NothingToRead, OwnInv, Typed, Paced, Round
<1>3. /\ j \in Jobs /\ j.pc = job[c].back
      /\ j.idx = job[c].idx /\ j.call = job[c].call /\ j.wkc = job[c].wkc /\ j.copied = job[c].copied
      BY <1>1, <1>2 DEF Jobs
<1>4. job' = [job EXCEPT ![c] = j]
      BY <1>1 DEF NothingToRead, OwnInv, Typed
<1>5. /\ job' \in [Callers -> Jobs] /\ job'[c] = j /\ Paced'
      /\ \A d \in Callers : d # c => job'[d] = job[d]
      BY <1>2, <1>3, <1>4, JobMoves DEF NothingToRead
<1>6. Typed' /\ TypeOK'
      <2>1. Typed'
            BY <1>5 DEF NothingToRead, OwnInv, Typed
      <2>2. QED
            BY <2>1, TypeKept DEF NothingToRead, OwnInv, TypeOK
<1>7. Moves
      BY <1>2, <1>3, <1>5 DEF NothingToRead, Moves, Busy
<1>8. Local(c)
      BY <1>2, <1>3, <1>5 DEF NothingToRead, Local, Busy, Has, OwnInv, BuffersOwn, CopiesOwn
<1>9. QED
      BY <1>2, <1>5, <1>6, <1>7, <1>8 DEF Steady, Busy

\* One entry of a table with two indices.
LEMMA EntrySet ==
    ASSUME NEW S, NEW T, NEW V, NEW f \in [S -> [T -> V]], NEW s \in S, NEW t \in T, NEW v \in V,
           NEW g, g = [f EXCEPT ![s][t] = v]
    PROVE  /\ g \in [S -> [T -> V]] /\ g[s][t] = v
           /\ \A a \in S, b \in T : a # s \/ b # t => g[a][b] = f[a][b]
OBVIOUS

LEMMA FrameWkc ==
    ASSUME NEW frame \in Frames
    PROVE  Wkc(frame) \in 0..Slaves /\ Wkc(frame) \in NoFrame..Slaves /\ Wkc(frame) > NoFrame
<1>1. LastGram(frame) \in Datagrams
      BY FrameFacts
<1>2. PICK n : n = Wkc(frame) /\ n \in 0..Slaves
      BY <1>1, WkcFacts DEF Wkc
<1>3. QED
      BY <1>2, Bounds DEF NoFrame

LEMMA StoredStep ==
    ASSUME OwnInv, NEW c \in Callers, NEW st \in Stacks, InFrameStored(c, st)
    PROVE  Busy(c) /\ Steady(c)
<1>1. PICK i, frame : i = job[c].idx /\ frame = rxbuf[st][i]
      OBVIOUS
<1>2. PICK j : j = [job[c] EXCEPT !.wkc[st] = Wkc(frame)]
      OBVIOUS
<1>3. /\ job[c] \in Jobs /\ job[c].pc \in {"wait", "reroute"} /\ i \in Indices /\ frame \in Frames
      /\ rxbufstat[st][i] = "RCVD" /\ rxbufstat' = [rxbufstat EXCEPT ![st][i] = "COMPLETE"]
      BY <1>1, JobFacts DEF InFrameStored, Waits, OwnInv, Typed
<1>4. /\ j.pc = job[c].pc /\ j.idx = i /\ j.call = job[c].call /\ j.copied = job[c].copied
      /\ j.reads = job[c].reads /\ j.back = job[c].back
      /\ j.wkc = [job[c].wkc EXCEPT ![st] = Wkc(frame)] /\ j \in Jobs
      BY <1>1, <1>2, <1>3, FrameWkc DEF Jobs
<1>5. \A t \in Stacks : t # st => j.wkc[t] = job[c].wkc[t]
      BY <1>3, <1>4, JobFacts
<1>6. job' = [job EXCEPT ![c] = j]
      BY <1>1, <1>2 DEF InFrameStored, OwnInv, Typed
<1>7. /\ j.pc = "reroute" => redstate = "double"
      /\ j.pc # "send" /\ j.pc # "read" /\ redstate' = redstate
      BY <1>3, <1>4 DEF InFrameStored, OwnInv, Paced, Round
<1>8. /\ job' \in [Callers -> Jobs] /\ job'[c] = j /\ Paced'
      /\ \A d \in Callers : d # c => job'[d] = job[d]
      BY <1>4, <1>6, <1>7, JobMoves, ZenonT(30)
<1>9. /\ rxbufstat' \in [Stacks -> [Indices -> {"EMPTY", "ALLOC", "TX", "RCVD", "COMPLETE"}]]
      /\ rxbufstat'[st][i] = "COMPLETE"
      /\ \A a \in Stacks, b \in Indices : a # st \/ b # i => rxbufstat'[a][b] = rxbufstat[a][b]
      <2>1. PICK g, stat : g = rxbufstat' /\ stat = rxbufstat
            OBVIOUS
      <2>2. /\ stat \in [Stacks -> [Indices -> {"EMPTY", "ALLOC", "TX", "RCVD", "COMPLETE"}]]
            /\ g = [stat EXCEPT ![st][i] = "COMPLETE"] /\ i \in Indices
            BY <1>3, <2>1 DEF OwnInv, TypeOK
      <2>3. /\ g \in [Stacks -> [Indices -> {"EMPTY", "ALLOC", "TX", "RCVD", "COMPLETE"}]]
            /\ g[st][i] = "COMPLETE"
            /\ \A a \in Stacks, b \in Indices : a # st \/ b # i => g[a][b] = stat[a][b]
            BY <2>2
      <2>4. QED
            BY <2>1, <2>3
<1>10. Typed' /\ TypeOK'
      <2>1. Typed'
            BY <1>8 DEF InFrameStored, OwnInv, Typed
      <2>2. QED
            BY <1>9, <2>1, TypeKept DEF InFrameStored, OwnInv, TypeOK
<1>11. Moves
      BY <1>1, <1>3, <1>4, <1>8 DEF InFrameStored, Moves, Busy
<1>12. Local(c)
      <2>1. /\ Busy(c) /\ txbuf' = txbuf /\ rxbuf' = rxbuf
            /\ IsOf(txbuf[i], i, job[c].call)
            BY <1>1, <1>3 DEF InFrameStored, Busy, OwnInv, BuffersOwn
      <2>2. ASSUME NEW t \in Ports, Has(c, t)'
            PROVE  IsOf(rxbuf'[t][i], i, job[c].call)
            <3>1. Has(c, t)
                  <4>1. t \in Stacks
                        BY DEF Ports, Stacks
                  <4>2. CASE t = st
                        BY <1>1, <1>3, <4>2 DEF Has
                  <4>3. CASE t # st
                        <5>1. rxbufstat'[t][i] = rxbufstat[t][i]
                              BY <1>3, <1>9, <4>1, <4>3
                        <5>2. job'[c].wkc[t] = job[c].wkc[t] /\ job'[c].idx = i
                              BY <1>4, <1>5, <1>8, <4>1, <4>3
                        <5>3. QED
                              BY <1>1, <2>2, <5>1, <5>2 DEF Has
                  <4>4. QED
                        BY <4>2, <4>3
            <3>2. QED
                  BY <1>1, <2>1, <3>1 DEF OwnInv, BuffersOwn
      <2>3. Busy(c)'
            BY <1>3, <1>4, <1>8 DEF Busy
      <2>4. job'[c].copied # NoDatagram => job'[c].copied.call \in Own(job'[c].call)
            BY <1>4, <1>8 DEF OwnInv, CopiesOwn
      <2>5. QED
            BY <1>1, <1>8, <1>9, <2>1, <2>2, <2>3, <2>4 DEF Local
<1>13. QED
      BY <1>3, <1>8, <1>10, <1>11, <1>12 DEF Steady, Busy

LEMMA ReadStep ==
    ASSUME OwnInv, NEW c \in Callers, InFrameRead(c)
    PROVE  Busy(c) /\ Steady(c)
<1>1. PICK i, st : i = job[c].idx /\ st = job[c].reads
      OBVIOUS
<1>2. PICK f \in wire, whole \in BOOLEAN :
          /\ job[c].pc = "read" /\ f.at = st
          /\ whole \/ faults < MaxFaults
          /\ faults' = IF whole THEN faults ELSE faults + 1
          /\ wire' = wire \ {f}
          /\ job' = [job EXCEPT ![c].pc = job[c].back,
                        ![c].wkc[st] = IF whole /\ f.frame.idx = i THEN Wkc(f.frame) ELSE @]
          /\ \/ whole /\ f.frame.idx = i /\ Store(st, i, f, "COMPLETE")
             \/ /\ whole /\ f.frame.idx # i /\ rxbufstat[st][f.frame.idx] = "TX"
                /\ Store(st, f.frame.idx, f, "RCVD")
             \/ /\ ~whole \/ (f.frame.idx # i /\ rxbufstat[st][f.frame.idx] # "TX")
                /\ UNCHANGED <<rxbuf, rxsa, rxbufstat>>
          /\ UNCHANGED <<redstate, lastidx, txbuf, cut, handed>>
      BY <1>1 DEF InFrameRead
<1> DEFINE mine == whole /\ f.frame.idx = i
           w == IF mine THEN Wkc(f.frame) ELSE job[c].wkc[st]
<1>3. PICK k, frame, sa : k = f.frame.idx /\ frame = f.frame /\ sa = f.sa
      OBVIOUS
<1>4. /\ frame \in Frames /\ k \in Indices /\ sa \in Stacks
      /\ job[c] \in Jobs /\ i \in Indices /\ st \in Stacks
      BY <1>1, <1>3, WireFacts, JobFacts DEF OwnInv, Typed
<1>5. w \in NoFrame..Slaves
      <2>1. job[c].wkc \in [Stacks -> NoFrame..Slaves]
            BY <1>4, JobFacts
      <2>2. job[c].wkc[st] \in NoFrame..Slaves
            BY <1>4, <2>1
      <2>3. QED
            BY <1>3, <1>4, <2>2, FrameWkc
<1>6. PICK j : j = [job[c] EXCEPT !.pc = job[c].back, !.wkc[st] = w]
      OBVIOUS
<1>7. /\ job[c].pc = "read" /\ job[c].back \in {"wait", "reroute"}
      /\ job[c].back = "reroute" => redstate = "double"
      BY <1>2, <1>4, JobFacts DEF OwnInv, Paced, Round
<1>8. /\ j.pc = job[c].back /\ j.idx = i /\ j.call = job[c].call /\ j.copied = job[c].copied
      /\ j.wkc = [job[c].wkc EXCEPT ![st] = w] /\ j \in Jobs
      BY <1>1, <1>4, <1>5, <1>6, <1>7 DEF Jobs
<1>9. j.wkc[st] = w /\ \A t \in Stacks : t # st => j.wkc[t] = job[c].wkc[t]
      BY <1>4, <1>8, JobFacts
<1>10. job' = [job EXCEPT ![c] = j]
      <2>1. job \in [Callers -> Jobs]
            BY DEF OwnInv, Typed
      <2>2. QED
            BY <1>2, <1>6, <2>1
<1>11. /\ job' \in [Callers -> Jobs] /\ job'[c] = j /\ Paced'
       /\ \A d \in Callers : d # c => job'[d] = job[d]
      BY <1>2, <1>7, <1>8, <1>10, JobMoves, ZenonT(30)
<1> HIDE DEF w, mine
<1>12. /\ rxbuf' \in [Stacks -> [Indices -> Frames]]
       /\ rxsa' \in [Stacks -> [Indices -> Stacks]]
       /\ rxbufstat' \in [Stacks -> [Indices -> {"EMPTY", "ALLOC", "TX", "RCVD", "COMPLETE"}]]
       /\ \A a \in Stacks, b \in Indices :
             \/ rxbuf'[a][b] = rxbuf[a][b] /\ rxbufstat'[a][b] = rxbufstat[a][b]
             \/ /\ a = st /\ b = k /\ rxbuf'[a][b] = frame
                /\ \/ mine /\ rxbufstat'[a][b] = "COMPLETE"
                   \/ k # i /\ rxbufstat[a][b] = "TX"
      <2>1. PICK g, stat : g = rxbufstat' /\ stat = rxbufstat
            OBVIOUS
      <2>2. PICK h, buf : h = rxbuf' /\ buf = rxbuf
            OBVIOUS
      <2>3. PICK s, sent : s = rxsa' /\ sent = rxsa
            OBVIOUS
      <2>4. /\ stat \in [Stacks -> [Indices -> {"EMPTY", "ALLOC", "TX", "RCVD", "COMPLETE"}]]
            /\ buf \in [Stacks -> [Indices -> Frames]] /\ sent \in [Stacks -> [Indices -> Stacks]]
            BY <2>1, <2>2, <2>3 DEF OwnInv, TypeOK, Typed
      <2>5. CASE /\ mine /\ k = i
                 /\ h = [buf EXCEPT ![st][k] = frame] /\ s = [sent EXCEPT ![st][k] = sa]
                 /\ g = [stat EXCEPT ![st][k] = "COMPLETE"]
            <3>1. /\ g \in [Stacks -> [Indices -> {"EMPTY", "ALLOC", "TX", "RCVD", "COMPLETE"}]]
                  /\ \A a \in Stacks, b \in Indices :
                        IF a = st /\ b = k THEN g[a][b] = "COMPLETE" ELSE g[a][b] = stat[a][b]
                  BY <1>4, <2>4, <2>5
            <3>2. /\ h \in [Stacks -> [Indices -> Frames]]
                  /\ \A a \in Stacks, b \in Indices :
                        IF a = st /\ b = k THEN h[a][b] = frame ELSE h[a][b] = buf[a][b]
                  BY <1>4, <2>4, <2>5
            <3>3. s \in [Stacks -> [Indices -> Stacks]]
                  BY <1>4, <2>4, <2>5
            <3>4. QED
                  BY <2>1, <2>2, <2>3, <2>5, <3>1, <3>2, <3>3
      <2>6. CASE /\ k # i /\ stat[st][k] = "TX"
                 /\ h = [buf EXCEPT ![st][k] = frame] /\ s = [sent EXCEPT ![st][k] = sa]
                 /\ g = [stat EXCEPT ![st][k] = "RCVD"]
            <3>1. /\ g \in [Stacks -> [Indices -> {"EMPTY", "ALLOC", "TX", "RCVD", "COMPLETE"}]]
                  /\ \A a \in Stacks, b \in Indices :
                        IF a = st /\ b = k THEN g[a][b] = "RCVD" ELSE g[a][b] = stat[a][b]
                  BY <1>4, <2>4, <2>6
            <3>2. /\ h \in [Stacks -> [Indices -> Frames]]
                  /\ \A a \in Stacks, b \in Indices :
                        IF a = st /\ b = k THEN h[a][b] = frame ELSE h[a][b] = buf[a][b]
                  BY <1>4, <2>4, <2>6
            <3>3. s \in [Stacks -> [Indices -> Stacks]]
                  BY <1>4, <2>4, <2>6
            <3>4. QED
                  BY <2>1, <2>2, <2>3, <2>6, <3>1, <3>2, <3>3
      <2>7. CASE h = buf /\ s = sent /\ g = stat
            BY <2>1, <2>2, <2>3, <2>4, <2>7
      <2>8. QED
            BY <1>2, <1>3, <2>1, <2>2, <2>3, <2>5, <2>6, <2>7 DEF Store, mine
<1>13. Typed' /\ TypeOK'
      <2>1. Typed'
            BY <1>2, <1>11, <1>12 DEF OwnInv, Typed
      <2>2. faults' \in 0..MaxFaults
            BY <1>2, Bounds DEF OwnInv, TypeOK
      <2>3. QED
            BY <1>2, <1>12, <2>1, <2>2, TypeKept DEF OwnInv, TypeOK
<1>14. Moves
      BY <1>1, <1>2, <1>7, <1>8, <1>11 DEF Moves, Busy
<1>15. Local(c)
      <2>1. Busy(c) /\ Busy(c)' /\ txbuf' = txbuf /\ IsOf(txbuf[i], i, job[c].call)
            BY <1>1, <1>2, <1>7, <1>8, <1>11 DEF Busy, OwnInv, BuffersOwn
      <2>2. ASSUME NEW t \in Ports, Has(c, t)'
            PROVE  IsOf(rxbuf'[t][i], i, job[c].call)
            <3>1. t \in Stacks
                  BY DEF Ports, Stacks
            <3>2. CASE t = st /\ mine
                  <4>1. rxbuf'[t][i] = f.frame
                        BY <1>2, <1>4, <3>2 DEF Store, mine, OwnInv, Typed
                  <4>2. CallOf(f) = job[c].call
                        BY <1>1, <2>1, <3>2 DEF mine, OwnInv, FramesOwn
                  <4>3. QED
                        BY <3>2, <4>1, <4>2 DEF OwnInv, FramesOwn, IsOf, mine
            <3>3. CASE ~(t = st /\ mine)
                  <4>1. rxbuf'[t][i] = rxbuf[t][i] /\ rxbufstat'[t][i] = rxbufstat[t][i]
                        BY <1>4, <1>12, <3>1, <3>3
                  <4>2. job'[c].wkc[t] = job[c].wkc[t] /\ job'[c].idx = i
                        BY <1>8, <1>9, <1>11, <3>1, <3>3 DEF w
                  <4>3. Has(c, t)
                        BY <1>1, <2>2, <4>1, <4>2 DEF Has
                  <4>4. QED
                        BY <1>1, <2>1, <4>1, <4>3 DEF OwnInv, BuffersOwn
            <3>4. QED
                  BY <3>2, <3>3
      <2>3. job'[c].copied # NoDatagram => job'[c].copied.call \in Own(job'[c].call)
            BY <1>8, <1>11 DEF OwnInv, CopiesOwn
      <2>4. ASSUME NEW b \in Indices, NEW a \in Stacks, b # i
            PROVE  \/ rxbuf'[a][b] = rxbuf[a][b] /\ rxbufstat'[a][b] = rxbufstat[a][b]
                   \/ /\ rxbufstat[a][b] # "EMPTY"
                      /\ \E g \in wire : g.frame.idx = b /\ rxbuf'[a][b] = g.frame
            <3>1. CASE rxbuf'[a][b] = rxbuf[a][b] /\ rxbufstat'[a][b] = rxbufstat[a][b]
                  BY <3>1
            <3>2. CASE b = k /\ rxbuf'[a][b] = frame /\ rxbufstat[a][b] = "TX"
                  BY <1>3, <3>2
            <3>3. QED
                  BY <1>3, <1>12, <2>4, <3>1, <3>2 DEF mine
      <2>5. QED
            BY <1>1, <1>11, <2>1, <2>2, <2>3, <2>4 DEF Local
<1>16. QED
      BY <1>7, <1>11, <1>13, <1>14, <1>15 DEF Steady, Busy

\* The end of a wait: the caller sends again, which needs that no frame came, or ends.
LEMMA Concludes ==
    ASSUME OwnInv, NEW c \in Callers, NEW w \in NoFrame..Slaves, NEW clean \in BOOLEAN,
           Conclude(c, w, clean), redstate' = redstate, job[c].pc \in {"wait", "reroute"}
    PROVE  /\ job' \in [Callers -> Jobs] /\ Paced'
           /\ \A d \in Callers : d # c => job'[d] = job[d]
           /\ Busy(c) /\ Busy(c)' /\ job'[c].idx = job[c].idx /\ job'[c].call = job[c].call
           /\ job'[c].copied = job[c].copied /\ job'[c].clean = clean
           /\ job'[c].wkc[Prim] = w /\ job'[c].wkc[Sec] = job[c].wkc[Sec]
           /\ job'[c].pc = "done" \/ (job'[c].pc = "send" /\ w <= NoFrame)
<1>1. PICK next : /\ next = "done" \/ (next = "send" /\ w <= NoFrame /\ job[c].tries < MaxSends)
                  /\ job' = [job EXCEPT ![c].wkc[Prim] = w, ![c].clean = clean, ![c].pc = next]
      <2>1. PICK again \in {w <= NoFrame /\ job[c].tries < MaxSends, FALSE} :
               job' = [job EXCEPT ![c].wkc[Prim] = w, ![c].clean = clean,
                                  ![c].pc = IF again THEN "send" ELSE "done"]
            BY DEF Conclude
      <2>2. CASE again
            BY <2>1, <2>2
      <2>3. CASE ~again
            BY <2>1, <2>3
      <2>4. QED
            BY <2>2, <2>3
<1>2. PICK j : j = [job[c] EXCEPT !.wkc[Prim] = w, !.clean = clean, !.pc = next]
      OBVIOUS
<1>3. job[c] \in Jobs /\ Prim \in Stacks /\ Sec \in Stacks /\ Prim # Sec
      BY DEF OwnInv, Typed, Stacks, Prim, Sec
<1>4. /\ j.pc = next /\ j.idx = job[c].idx /\ j.call = job[c].call /\ j.copied = job[c].copied
      /\ j.tries = job[c].tries /\ j.clean = clean
      /\ j.wkc = [job[c].wkc EXCEPT ![Prim] = w] /\ j \in Jobs
      BY <1>1, <1>2, <1>3 DEF Jobs
<1>5. j.wkc[Prim] = w /\ j.wkc[Sec] = job[c].wkc[Sec]
      BY <1>3, <1>4, JobFacts
<1>6. job' = [job EXCEPT ![c] = j]
      <2>1. job \in [Callers -> Jobs]
            BY DEF OwnInv, Typed
      <2>2. QED
            BY <1>1, <1>2, <2>1
<1>7. /\ job' \in [Callers -> Jobs] /\ job'[c] = j /\ Paced'
      /\ \A d \in Callers : d # c => job'[d] = job[d]
      BY <1>1, <1>4, <1>6, JobMoves, ZenonT(30)
<1>8. Busy(c) /\ Busy(c)'
      BY <1>1, <1>4, <1>7 DEF Busy
<1>9. QED
      BY <1>1, <1>4, <1>5, <1>7, <1>8

\* What it answers with is what its primary port, or in a ring its second one, got.
LEMMA Ends ==
    ASSUME OwnInv, NEW c \in Callers, NEW w \in NoFrame..Slaves, NEW clean \in BOOLEAN,
           Conclude(c, w, clean), job[c].pc \in {"wait", "reroute"},
           \/ w = job[c].wkc[Prim] /\ rxbuf' = rxbuf
           \/ /\ w = job[c].wkc[Sec] /\ w > NoFrame /\ redstate = "double"
              /\ rxbuf' = [rxbuf EXCEPT ![Prim][job[c].idx] = rxbuf[Sec][job[c].idx]],
           UNCHANGED <<redstate, lastidx, txbuf, rxbufstat, rxsa, wire, cut, handed, faults>>
    PROVE  Busy(c) /\ Steady(c)
<1>1. PICK i : i = job[c].idx
      OBVIOUS
<1>2. job[c] \in Jobs /\ i \in Indices /\ Prim \in Stacks /\ Sec \in Stacks /\ Prim # Sec
      BY <1>1, JobFacts DEF OwnInv, Typed, Stacks, Prim, Sec
<1>3. /\ job' \in [Callers -> Jobs] /\ Paced'
      /\ \A d \in Callers : d # c => job'[d] = job[d]
      /\ Busy(c) /\ Busy(c)' /\ job'[c].idx = job[c].idx /\ job'[c].call = job[c].call
      /\ job'[c].copied = job[c].copied
      /\ job'[c].wkc[Prim] = w /\ job'[c].wkc[Sec] = job[c].wkc[Sec]
      BY Concludes
<1>4. /\ rxbuf' \in [Stacks -> [Indices -> Frames]]
      /\ \A a \in Stacks, b \in Indices : a # Prim \/ b # i => rxbuf'[a][b] = rxbuf[a][b]
      /\ \/ w = job[c].wkc[Prim] /\ rxbuf'[Prim][i] = rxbuf[Prim][i]
         \/ /\ w = job[c].wkc[Sec] /\ w > NoFrame /\ redstate = "double"
            /\ rxbuf'[Prim][i] = rxbuf[Sec][i]
      <2>1. PICK h, buf : h = rxbuf' /\ buf = rxbuf /\ buf \in [Stacks -> [Indices -> Frames]]
            BY DEF OwnInv, Typed
      <2>2. CASE /\ h = [buf EXCEPT ![Prim][i] = buf[Sec][i]]
                 /\ w = job[c].wkc[Sec] /\ w > NoFrame /\ redstate = "double"
            BY <1>2, <2>1, <2>2
      <2>3. CASE h = buf /\ w = job[c].wkc[Prim]
            BY <2>1, <2>3
      <2>4. QED
            BY <1>1, <2>1, <2>2, <2>3
<1>5. Typed' /\ TypeOK'
      <2>1. Typed'
            BY <1>3, <1>4 DEF OwnInv, Typed
      <2>2. QED
            BY <2>1, TypeKept DEF OwnInv, TypeOK
<1>6. Moves
      <2>1. ASSUME NEW d \in Callers, Busy(d)'
            PROVE  Busy(d) /\ job'[d].idx = job[d].idx /\ job'[d].call = job[d].call
            BY <1>3, <2>1 DEF Busy
      <2>2. QED
            BY <2>1 DEF Moves
<1>7. Local(c)
      <2>1. /\ IsOf(txbuf[i], i, job[c].call)
            /\ \A st \in Ports : Has(c, st) => IsOf(rxbuf[st][i], i, job[c].call)
            BY <1>1, <1>3 DEF OwnInv, BuffersOwn
      <2>2. ASSUME NEW t \in Ports, Has(c, t)'
            PROVE  IsOf(rxbuf'[t][i], i, job[c].call)
            <3>1. CASE t = Sec
                  <4>1. Has(c, Sec)
                        BY <1>3, <2>2, <3>1 DEF Has
                  <4>2. rxbuf'[Sec][i] = rxbuf[Sec][i]
                        BY <1>2, <1>4
                  <4>3. QED
                        BY <2>1, <3>1, <4>1, <4>2
            <3>2. CASE /\ t = Prim /\ w = job[c].wkc[Sec] /\ w > NoFrame /\ redstate = "double"
                       /\ rxbuf'[Prim][i] = rxbuf[Sec][i]
                  <4>1. Sec \in Ports /\ Has(c, Sec)
                        BY <1>2, <3>2 DEF Ports, Has
                  <4>2. QED
                        BY <2>1, <3>2, <4>1
            <3>3. CASE t = Prim /\ w = job[c].wkc[Prim] /\ rxbuf'[Prim][i] = rxbuf[Prim][i]
                  <4>1. Has(c, Prim)
                        BY <1>3, <2>2, <3>3 DEF Has
                  <4>2. QED
                        BY <2>1, <2>2, <3>3, <4>1
            <3>4. QED
                  BY <1>4, <3>1, <3>2, <3>3 DEF Ports, Stacks
      <2>3. job'[c].copied # NoDatagram => job'[c].copied.call \in Own(job'[c].call)
            BY <1>3 DEF OwnInv, CopiesOwn
      <2>4. QED
            BY <1>1, <1>2, <1>3, <1>4, <2>1, <2>2, <2>3 DEF Local
<1>8. QED
      BY <1>3, <1>5, <1>6, <1>7 DEF Steady

LEMMA RerouteEndsStep ==
    ASSUME OwnInv, NEW c \in Callers, RerouteEnds(c)
    PROVE  Busy(c) /\ Steady(c)
<1>1. /\ job[c] \in Jobs /\ job[c].pc = "reroute" /\ redstate = "double"
      /\ Prim \in Stacks /\ Sec \in Stacks
      BY DEF RerouteEnds, OwnInv, Typed, Paced, Round, Stacks, Prim, Sec
<1>2. /\ job[c].wkc \in [Stacks -> NoFrame..Slaves] /\ job[c].clean \in BOOLEAN
      BY <1>1, JobFacts
<1>3. job[c].wkc[Prim] \in NoFrame..Slaves /\ job[c].wkc[Sec] \in NoFrame..Slaves
      BY <1>1, <1>2
<1>4. CASE job[c].wkc[Sec] > NoFrame
      BY <1>1, <1>2, <1>3, <1>4, Ends DEF RerouteEnds
<1>5. CASE ~(job[c].wkc[Sec] > NoFrame)
      BY <1>1, <1>2, <1>3, <1>5, Ends DEF RerouteEnds
<1>6. QED
      BY <1>4, <1>5

LEMMA IdleFacts ==
    /\ Idle \in Jobs /\ Idle.pc = "idle" /\ Idle.tries = 0 /\ Idle.copied = NoDatagram
    /\ Idle.wkc = [s \in Stacks |-> NoFrame]
<1>1. "BRD" \in DOMAIN Primitives
      BY DEF Primitives
<1>2. NoFrame \in NoFrame..Slaves /\ 0 \in 0..MaxSends
      BY Bounds DEF NoFrame
<1>3. [s \in Stacks |-> NoFrame] \in [Stacks -> NoFrame..Slaves]
      BY <1>2
<1>4. 0 \in Indices /\ Prim \in Stacks /\ NoDatagram \in Datagrams
      BY Bounds, DummyFacts DEF Stacks
<1>5. QED
      BY <1>1, <1>2, <1>3, <1>4 DEF Idle, Jobs

LEMMA ReturnStep ==
    ASSUME OwnInv, NEW c \in Callers, Return(c)
    PROVE  Busy(c) /\ Steady(c)
<1>1. PICK i : i = job[c].idx
      OBVIOUS
<1>2. job[c] \in Jobs /\ i \in Indices /\ job[c].pc = "done" /\ rxbuf[Prim][i] \in Frames
      BY <1>1, JobFacts DEF Return, OwnInv, Typed, Stacks, Prim
<1>3. rxbuf[Prim][i].grams[1] \in Datagrams /\ NoDatagram \in Datagrams
      BY <1>2, FrameFacts, DummyFacts
<1>4. Result(c) \in NoFrame..Slaves
      <2>1. job[c].wkc[Prim] \in NoFrame..Slaves
            BY <1>2, JobFacts DEF Stacks, Prim
      <2>2. PICK n : n = WkcOf(rxbuf[Prim][i].grams[1]) /\ n \in 0..Slaves
            BY <1>3, WkcFacts
      <2>3. n \in NoFrame..Slaves
            BY <2>2, Bounds DEF NoFrame
      <2>4. QED
            BY <1>1, <2>1, <2>2, <2>3 DEF Result
<1>5. PICK d : d = IF Copies(c) THEN rxbuf[Prim][i].grams[1] ELSE NoDatagram
      OBVIOUS
<1>6. /\ d \in Datagrams
      /\ d # NoDatagram => d.call \in Own(job[c].call)
      <2>1. CASE Copies(c)
            <3>1. job[c].wkc[Prim] > 0 /\ job[c].wkc[Prim] \in NoFrame..Slaves
                  BY <1>2, <2>1, JobFacts DEF Copies, Stacks, Prim
            <3>2. job[c].wkc[Prim] > NoFrame
                  BY <3>1, Bounds DEF NoFrame
            <3>3. Prim \in Ports /\ Has(c, Prim) /\ Busy(c)
                  BY <1>2, <3>2 DEF Ports, Stacks, Prim, Has, Busy
            <3>4. QED
                  BY <1>1, <1>3, <1>5, <2>1, <3>3 DEF OwnInv, BuffersOwn, IsOf
      <2>2. CASE ~Copies(c)
            BY <1>3, <1>5, <2>2
      <2>3. QED
            BY <2>1, <2>2
<1>7. PICK j : j = [Idle EXCEPT !.call = job[c].call, !.wkc[Prim] = Result(c), !.copied = d]
      OBVIOUS
<1>8. Idle \in Jobs /\ Idle.pc = "idle"
      BY IdleFacts
<1>9. j \in Jobs /\ j.pc = "idle" /\ j.call = job[c].call /\ j.copied = d
      BY <1>2, <1>4, <1>6, <1>7, <1>8, JobFacts DEF Jobs
<1>10. job' = [job EXCEPT ![c] = j]
      BY <1>1, <1>5, <1>7 DEF Return
<1>11. /\ job' \in [Callers -> Jobs] /\ job'[c] = j /\ Paced'
       /\ \A e \in Callers : e # c => job'[e] = job[e]
      BY <1>9, <1>10, JobMoves DEF Return
<1>12. /\ rxbufstat' \in [Stacks -> [Indices -> {"EMPTY", "ALLOC", "TX", "RCVD", "COMPLETE"}]]
       /\ \A st \in Stacks, b \in Indices : b # i => rxbufstat'[st][b] = rxbufstat[st][b]
       /\ \A st \in Ports : rxbufstat'[st][i] = "EMPTY"
      <2>1. rxbufstat' = [st \in Stacks |-> IF st = Prim \/ redstate = "double"
                             THEN [rxbufstat[st] EXCEPT ![i] = "EMPTY"] ELSE rxbufstat[st]]
            BY <1>1 DEF Return, SetBufStat
      <2>2. PICK stat, g : stat = rxbufstat /\ g = rxbufstat'
            OBVIOUS
      <2>3. stat \in [Stacks -> [Indices -> {"EMPTY", "ALLOC", "TX", "RCVD", "COMPLETE"}]]
            BY <2>2 DEF OwnInv, TypeOK
      <2>4. QED
            BY <1>2, <2>1, <2>2, <2>3 DEF Ports, Stacks
<1>13. Typed' /\ TypeOK'
      <2>1. Typed'
            BY <1>11 DEF Return, OwnInv, Typed
      <2>2. QED
            BY <1>12, <2>1, TypeKept DEF Return, OwnInv, TypeOK
<1>14. Moves
      <2>1. ASSUME NEW e \in Callers, Busy(e)'
            PROVE  Busy(e) /\ job'[e].idx = job[e].idx /\ job'[e].call = job[e].call
            BY <1>9, <1>11, <2>1 DEF Busy
      <2>2. QED
            BY <2>1 DEF Return, Moves
<1>15. Local(c)
      BY <1>1, <1>6, <1>9, <1>11, <1>12 DEF Return, Local, Busy
<1>16. QED
      BY <1>2, <1>11, <1>13, <1>14, <1>15 DEF Steady, Busy

LEMMA SendStep ==
    ASSUME OwnInv, NEW c \in Callers, OutFrameRed(c)
    PROVE  Busy(c) /\ Steady(c)
<1> DEFINE i == job[c].idx
           call == job[c].call
           tries == job[c].tries
<1>1. PICK fails \in SUBSET Ports :
          /\ job[c].pc = "send"
          /\ faults + Cardinality(fails) <= MaxFaults
          /\ faults' = faults + Cardinality(fails)
          /\ rxbufstat' = [st \in Stacks |->
                IF st \in Ports THEN OutStat(rxbufstat, st, i, st \notin fails)[st] ELSE rxbufstat[st]]
          /\ wire' = wire \union
                UNION {Sent(st, st, IF st = Prim THEN txbuf[i] ELSE Dummy(i), <<call, tries>>) :
                          st \in Ports \ fails}
          /\ job' = [job EXCEPT ![c].pc = "wait", ![c].tries = @ + 1,
                        ![c].wkc = [s \in Stacks |-> IF s = Sec /\ redstate = "none" THEN 0 ELSE NoFrame],
                        ![c].clean = @ /\ fails = {}]
          /\ UNCHANGED <<redstate, lastidx, txbuf, rxbuf, rxsa, cut, handed>>
      BY DEF OutFrameRed, Ports
<1>2. /\ job[c] \in Jobs /\ job[c].pc = "send" /\ Busy(c) /\ i \in Indices /\ call \in Nat
      /\ Ports \subseteq Stacks /\ Prim \in Stacks /\ Sec \in Stacks /\ Prim # Sec
      <2>1. job[c] \in Jobs /\ job[c].pc = "send" /\ Busy(c)
            BY <1>1 DEF OwnInv, Typed, Busy
      <2>2. Ports \subseteq Stacks /\ Prim \in Stacks /\ Sec \in Stacks /\ Prim # Sec
            BY DEF Ports, Stacks, Prim, Sec
      <2>3. QED
            BY <2>1, <2>2, JobFacts
<1>3. tries \in 0..MaxSends /\ tries < MaxSends /\ tries + 1 \in 0..MaxSends /\ tries \in Nat
      <2>1. tries \in 0..MaxSends /\ tries < MaxSends
            BY <1>2, JobFacts DEF OwnInv, Paced
      <2>2. QED
            BY <2>1, Bounds
<1>4. PICK wkc : wkc = [s \in Stacks |-> IF s = Sec /\ redstate = "none" THEN 0 ELSE NoFrame]
      OBVIOUS
<1>5. wkc \in [Stacks -> NoFrame..Slaves] /\ \A st \in Ports : ~(wkc[st] > NoFrame)
      <2>1. NoFrame \in NoFrame..Slaves /\ 0 \in NoFrame..Slaves /\ ~(NoFrame > NoFrame)
            BY Bounds DEF NoFrame
      <2>2. wkc \in [Stacks -> NoFrame..Slaves]
            BY <1>4, <2>1
      <2>3. ASSUME NEW st \in Ports
            PROVE  wkc[st] = NoFrame
            BY <1>2, <1>4 DEF Ports
      <2>4. QED
            BY <2>1, <2>2, <2>3
<1>6. PICK clean \in BOOLEAN : clean <=> job[c].clean /\ fails = {}
      OBVIOUS
<1>7. PICK j : j = [job[c] EXCEPT !.pc = "wait", !.tries = tries + 1, !.wkc = wkc, !.clean = job[c].clean /\ fails = {}]
      OBVIOUS
<1>8. /\ j \in Jobs /\ j.pc = "wait" /\ j.idx = i /\ j.call = call /\ j.wkc = wkc
      /\ j.copied = job[c].copied
      BY <1>2, <1>3, <1>5, <1>7 DEF Jobs
<1>9. job' = [job EXCEPT ![c] = j]
      <2>1. job \in [Callers -> Jobs]
            BY DEF OwnInv, Typed
      <2>2. QED
            BY <1>1, <1>4, <1>7, <2>1
<1>10. /\ job' \in [Callers -> Jobs] /\ job'[c] = j /\ Paced'
       /\ \A d \in Callers : d # c => job'[d] = job[d]
      BY <1>1, <1>8, <1>9, JobMoves
<1>11. /\ rxbufstat' \in [Stacks -> [Indices -> {"EMPTY", "ALLOC", "TX", "RCVD", "COMPLETE"}]]
       /\ \A st \in Stacks, b \in Indices : b # i => rxbufstat'[st][b] = rxbufstat[st][b]
       /\ \A st \in Ports : rxbufstat'[st][i] \in {"TX", "EMPTY"}
      <2>1. PICK g, stat : g = rxbufstat' /\ stat = rxbufstat
            OBVIOUS
      <2>2. stat \in [Stacks -> [Indices -> {"EMPTY", "ALLOC", "TX", "RCVD", "COMPLETE"}]]
            BY <2>1 DEF OwnInv, TypeOK
      <2>3. ASSUME NEW st \in Stacks, NEW ok
            PROVE  /\ OutStat(stat, st, i, ok)[st] \in [Indices -> {"EMPTY", "ALLOC", "TX", "RCVD", "COMPLETE"}]
                   /\ OutStat(stat, st, i, ok)[st][i] \in {"TX", "EMPTY"}
                   /\ \A b \in Indices : b # i => OutStat(stat, st, i, ok)[st][b] = stat[st][b]
            <3>1. PICK s \in {"TX", "EMPTY"} : s = IF ok THEN "TX" ELSE "EMPTY"
                  OBVIOUS
            <3>2. OutStat(stat, st, i, ok) = [stat EXCEPT ![st][i] = s]
                  BY <3>1 DEF OutStat
            <3>3. QED
                  BY <1>2, <2>2, <3>2
      <2>4. g = [st \in Stacks |-> IF st \in Ports THEN OutStat(stat, st, i, st \notin fails)[st] ELSE stat[st]]
            BY <1>1, <2>1
      <2>5. ASSUME NEW st \in Stacks
            PROVE  /\ g[st] \in [Indices -> {"EMPTY", "ALLOC", "TX", "RCVD", "COMPLETE"}]
                   /\ st \in Ports => g[st][i] \in {"TX", "EMPTY"}
                   /\ \A b \in Indices : b # i => g[st][b] = stat[st][b]
            BY <2>2, <2>3, <2>4
      <2>6. DOMAIN g = Stacks /\ g = [st \in Stacks |-> g[st]]
            BY <2>4
      <2>7. QED
            BY <1>2, <2>1, <2>5, <2>6
<1>12. ASSUME NEW f \in wire', f \notin wire
       PROVE  /\ f \in OnWire /\ f.frame.idx = i /\ CallOf(f) = call
              /\ f.frame.grams[1].call \in Own(call)
      <2>1. PICK st \in Ports : f \in Sent(st, st, IF st = Prim THEN txbuf[i] ELSE Dummy(i), <<call, tries>>)
            BY <1>1, <1>12
      <2>2. PICK frame : frame = IF st = Prim THEN txbuf[i] ELSE Dummy(i)
            OBVIOUS
      <2>3. frame \in Frames /\ frame.idx = i /\ frame.grams[1].call \in Own(call)
            <3>1. CASE st = Prim
                  BY <1>2, <2>2, <3>1 DEF OwnInv, Typed, BuffersOwn, IsOf
            <3>2. CASE st # Prim
                  <4>1. redstate = "double"
                        BY <3>2 DEF Ports
                  <4>2. QED
                        BY <1>2, <2>2, <3>2, <4>1, DummyFacts DEF Own
            <3>3. QED
                  BY <3>1, <3>2
      <2>4. cut \in 0..Whole /\ st \in Stacks
            BY <1>2 DEF OwnInv, TypeOK
      <2>5. QED
            BY <1>2, <1>3, <2>1, <2>2, <2>3, <2>4, SentFacts
<1>13. Typed' /\ TypeOK'
      <2>1. Typed'
            BY <1>1, <1>10, <1>12 DEF OwnInv, Typed
      <2>2. faults' \in 0..MaxFaults
            <3>1. Stacks = 0..1 /\ IsFiniteSet(0..1)
                  <4>1. Stacks = 0..1
                        BY DEF Stacks, Prim, Sec
                  <4>2. 0 \in Int /\ 1 \in Int
                        OBVIOUS
                  <4>3. QED
                        BY <4>1, <4>2, FS_Interval
            <3>2. fails \in SUBSET (0..1)
                  BY <1>2, <3>1
            <3>3. IsFiniteSet(fails)
                  BY <3>1, <3>2, FS_Subset
            <3>4. PICK n \in Nat : n = Cardinality(fails)
                  BY <3>3, FS_CardinalityType
            <3>5. faults' = faults + n /\ faults + n <= MaxFaults /\ faults \in 0..MaxFaults
                  BY <1>1, <3>4 DEF OwnInv, TypeOK
            <3>6. QED
                  BY <3>4, <3>5, Bounds
      <2>3. QED
            BY <1>1, <1>11, <2>1, <2>2, TypeKept DEF OwnInv, TypeOK
<1>14. Moves
      BY <1>1, <1>2, <1>8, <1>10, <1>12 DEF Moves, Busy
<1>15. Local(c)
      <2>1. IsOf(txbuf[i], i, job[c].call)
            BY <1>2 DEF OwnInv, BuffersOwn
      <2>2. \A st \in Ports : ~Has(c, st)'
            BY <1>5, <1>8, <1>10, <1>11 DEF Has
      <2>3. job'[c].copied # NoDatagram => job'[c].copied.call \in Own(job'[c].call)
            BY <1>8, <1>10 DEF OwnInv, CopiesOwn
      <2>4. QED
            BY <1>1, <1>8, <1>10, <1>11, <2>1, <2>2, <2>3, ZenonT(30) DEF Local, Busy
<1>16. QED
      BY <1>2, <1>10, <1>13, <1>14, <1>15 DEF Steady

\* Sending round the other way what the primary port got back.
LEMMA TurnedStep ==
    ASSUME OwnInv, NEW c \in Callers, WaitEnds(c), Turned(c)
    PROVE  Busy(c) /\ Steady(c)
<1> DEFINE i == job[c].idx
           call == job[c].call
           tries == job[c].tries
           round == IF From(c, Prim) = Prim THEN rxbuf[Prim][i] ELSE txbuf[i]
           clean == job[c].clean /\ \A st \in Stacks : In(c, st) \/ Severed(st)
<1>1. /\ job[c].pc = "wait" /\ redstate = "double"
      /\ txbuf' = [txbuf EXCEPT ![i] = round]
      /\ \E ok \in BOOLEAN :
           /\ ok \/ faults < MaxFaults
           /\ faults' = IF ok THEN faults ELSE faults + 1
           /\ rxbufstat' = OutStat(rxbufstat, Sec, i, ok)
           /\ wire' = IF ok THEN wire \union
                         Sent(Sec, Prim, txbuf'[i], <<call, MaxSends + tries>>) ELSE wire
           /\ job' = [job EXCEPT ![c].pc = "reroute", ![c].wkc[Sec] = NoFrame,
                                 ![c].clean = clean /\ ok]
      /\ UNCHANGED <<rxbuf, redstate, lastidx, rxsa, cut, handed>>
      BY DEF WaitEnds, Turned, Crossed, Rerouted, Prim, Sec, Nobody
<1>2. /\ job[c] \in Jobs /\ Busy(c) /\ i \in Indices /\ call \in Nat /\ tries \in Nat
      /\ Ports = Stacks /\ Prim \in Stacks /\ Sec \in Stacks /\ Prim # Sec
      <2>1. job[c] \in Jobs /\ Busy(c)
            BY <1>1 DEF OwnInv, Typed, Busy
      <2>2. Ports = Stacks /\ Prim \in Stacks /\ Sec \in Stacks /\ Prim # Sec
            BY <1>1 DEF Ports, Stacks, Prim, Sec
      <2>3. QED
            BY <2>1, <2>2, JobFacts, Bounds
<1>3. round \in Frames /\ IsOf(round, i, call)
      <2>1. txbuf[i] \in Frames /\ rxbuf[Prim][i] \in Frames /\ IsOf(txbuf[i], i, call)
            BY <1>2 DEF OwnInv, Typed, BuffersOwn
      <2>2. CASE From(c, Prim) = Prim
            <3>1. Has(c, Prim)
                  BY <2>2 DEF From, In, Has, Prim, Nobody
            <3>2. QED
                  BY <1>2, <2>1, <2>2, <3>1 DEF OwnInv, BuffersOwn
      <2>3. CASE From(c, Prim) # Prim
            BY <2>1, <2>3
      <2>4. QED
            BY <2>2, <2>3
<1> HIDE DEF round
<1>4. txbuf' \in [Indices -> Frames] /\ txbuf'[i] = round /\ \A b \in Indices : b # i => txbuf'[b] = txbuf[b]
      BY <1>1, <1>2, <1>3 DEF OwnInv, Typed
<1>5. PICK ok \in BOOLEAN :
           /\ ok \/ faults < MaxFaults
           /\ faults' = IF ok THEN faults ELSE faults + 1
           /\ rxbufstat' = OutStat(rxbufstat, Sec, i, ok)
           /\ wire' = IF ok THEN wire \union
                         Sent(Sec, Prim, round, <<call, MaxSends + tries>>) ELSE wire
           /\ job' = [job EXCEPT ![c].pc = "reroute", ![c].wkc[Sec] = NoFrame,
                                 ![c].clean = clean /\ ok]
      BY <1>1, <1>4
<1> HIDE DEF clean
<1>6. PICK j : j = [job[c] EXCEPT !.pc = "reroute", !.wkc[Sec] = NoFrame, !.clean = clean /\ ok]
      OBVIOUS
<1>7. /\ j \in Jobs /\ j.pc = "reroute" /\ j.idx = i /\ j.call = call /\ j.copied = job[c].copied
      /\ j.wkc = [job[c].wkc EXCEPT ![Sec] = NoFrame]
      <2>1. NoFrame \in NoFrame..Slaves
            BY Bounds DEF NoFrame
      <2>2. QED
            BY <1>2, <1>6, <2>1 DEF Jobs
<1>8. j.wkc[Sec] = NoFrame /\ j.wkc[Prim] = job[c].wkc[Prim]
      BY <1>2, <1>7, JobFacts
<1>9. job' = [job EXCEPT ![c] = j]
      <2>1. job \in [Callers -> Jobs]
            BY DEF OwnInv, Typed
      <2>2. QED
            BY <1>5, <1>6, <2>1
<1>10. /\ job' \in [Callers -> Jobs] /\ job'[c] = j /\ Paced'
       /\ \A d \in Callers : d # c => job'[d] = job[d]
      BY <1>1, <1>7, <1>9, JobMoves
<1>11. /\ rxbufstat' \in [Stacks -> [Indices -> {"EMPTY", "ALLOC", "TX", "RCVD", "COMPLETE"}]]
       /\ \A st \in Stacks, b \in Indices : st # Sec \/ b # i => rxbufstat'[st][b] = rxbufstat[st][b]
       /\ rxbufstat'[Sec][i] \in {"TX", "EMPTY"}
      <2>1. PICK g, stat : g = rxbufstat' /\ stat = rxbufstat
            OBVIOUS
      <2>2. stat \in [Stacks -> [Indices -> {"EMPTY", "ALLOC", "TX", "RCVD", "COMPLETE"}]]
            BY <2>1 DEF OwnInv, TypeOK
      <2>3. PICK s \in {"TX", "EMPTY"} : s = IF ok THEN "TX" ELSE "EMPTY"
            OBVIOUS
      <2>4. g = [stat EXCEPT ![Sec][i] = s]
            BY <1>5, <2>1, <2>3 DEF OutStat
      <2>5. QED
            BY <1>2, <2>1, <2>2, <2>4
<1>12. ASSUME NEW f \in wire', f \notin wire
       PROVE  /\ f \in OnWire /\ f.frame.idx = i /\ CallOf(f) = call
              /\ f.frame.grams[1].call \in Own(call)
      <2>1. f \in Sent(Sec, Prim, round, <<call, MaxSends + tries>>)
            BY <1>5, <1>12
      <2>2. MaxSends + tries \in Nat /\ cut \in 0..Whole
            <3>1. cut \in 0..Whole
                  BY DEF OwnInv, TypeOK
            <3>2. QED
                  BY <1>2, <3>1, Bounds
      <2>3. QED
            BY <1>2, <1>3, <2>1, <2>2, SentFacts DEF IsOf
<1>13. Typed' /\ TypeOK'
      <2>1. Typed'
            BY <1>1, <1>4, <1>10, <1>12 DEF OwnInv, Typed
      <2>2. faults' \in 0..MaxFaults
            BY <1>5, Bounds DEF OwnInv, TypeOK
      <2>3. QED
            BY <1>1, <1>11, <2>1, <2>2, TypeKept DEF OwnInv, TypeOK
<1>14. Moves
      BY <1>1, <1>2, <1>7, <1>10, <1>12 DEF Moves, Busy
<1>15. Local(c)
      <2>1. ASSUME NEW st \in Ports, Has(c, st)'
            PROVE  st = Prim /\ Has(c, Prim)
            <3>1. CASE st = Sec
                  <4>1. ~(NoFrame > NoFrame)
                        BY DEF NoFrame
                  <4>2. QED
                        BY <1>7, <1>8, <1>10, <1>11, <2>1, <3>1, <4>1 DEF Has
            <3>2. CASE st = Prim
                  <4>1. rxbufstat'[Prim][i] = rxbufstat[Prim][i]
                        BY <1>2, <1>11
                  <4>2. job'[c].idx = i /\ job'[c].wkc[Prim] = job[c].wkc[Prim]
                        BY <1>7, <1>8, <1>10
                  <4>3. QED
                        BY <2>1, <3>2, <4>1, <4>2 DEF Has
            <3>3. QED
                  BY <1>2, <3>1, <3>2 DEF Stacks
      <2>2. \A st \in Ports : Has(c, st)' => IsOf(rxbuf'[st][i], i, call)
            BY <1>1, <1>2, <2>1 DEF OwnInv, BuffersOwn
      <2>3. job'[c].copied # NoDatagram => job'[c].copied.call \in Own(job'[c].call)
            BY <1>7, <1>10 DEF OwnInv, CopiesOwn
      <2>4. QED
            BY <1>1, <1>3, <1>4, <1>7, <1>10, <1>11, <2>2, <2>3 DEF Local, Busy
<1>16. QED
      BY <1>2, <1>10, <1>13, <1>14, <1>15 DEF Steady

LEMMA WaitEndsStep ==
    ASSUME OwnInv, NEW c \in Callers, WaitEnds(c)
    PROVE  Busy(c) /\ Steady(c)
<1> DEFINE clean == job[c].clean /\ \A st \in Stacks : In(c, st) \/ Severed(st)
<1>1. /\ job[c] \in Jobs /\ job[c].pc = "wait" /\ Prim \in Stacks /\ Sec \in Stacks
      BY DEF WaitEnds, OwnInv, Typed, Stacks, Prim, Sec
<1>2. job[c].wkc[Prim] \in NoFrame..Slaves /\ job[c].wkc[Sec] \in NoFrame..Slaves
      <2>1. job[c].wkc \in [Stacks -> NoFrame..Slaves]
            BY <1>1, JobFacts
      <2>2. QED
            BY <1>1, <2>1
<1>3. clean \in BOOLEAN
      BY <1>1, JobFacts
<1>4. CASE Turned(c)
      BY <1>4, TurnedStep
<1>5. CASE ~Turned(c) /\ Crossed(c)
      <2>1. job[c].wkc[Sec] > NoFrame /\ redstate = "double"
            BY <1>5 DEF Crossed, From, In, Prim, Nobody
      <2>2. /\ Conclude(c, job[c].wkc[Sec], clean)
            /\ rxbuf' = [rxbuf EXCEPT ![Prim][job[c].idx] = rxbuf[Sec][job[c].idx]]
            /\ UNCHANGED <<redstate, lastidx, txbuf, rxbufstat, rxsa, wire, cut, handed, faults>>
            BY <1>5 DEF WaitEnds
      <2> HIDE DEF clean
      <2>3. QED
            BY <1>1, <1>2, <1>3, <2>1, <2>2, Ends
<1>6. CASE ~Turned(c) /\ ~Crossed(c)
      <2>1. /\ Conclude(c, job[c].wkc[Prim], clean) /\ rxbuf' = rxbuf
            /\ UNCHANGED <<redstate, lastidx, txbuf, rxbufstat, rxsa, wire, cut, handed, faults>>
            BY <1>6 DEF WaitEnds
      <2> HIDE DEF clean
      <2>2. QED
            BY <1>1, <1>2, <1>3, <2>1, Ends
<1>7. QED
      BY <1>4, <1>5, <1>6

LEMMA BreakStep ==
    ASSUME OwnInv, NEW k \in 0..Slaves, Break(k)
    PROVE  OwnInv'
<1>1. /\ job' = [c \in Callers |-> [job[c] EXCEPT !.clean = FALSE]]
      /\ faults < MaxFaults /\ faults' = faults + 1 /\ cut' = k
      /\ UNCHANGED <<redstate, lastidx, txbuf, rxbufstat, rxbuf, rxsa, wire, handed>>
      BY DEF Break
<1>2. ASSUME NEW c \in Callers
      PROVE  /\ job'[c] \in Jobs /\ job'[c].pc = job[c].pc /\ job'[c].idx = job[c].idx
             /\ job'[c].call = job[c].call /\ job'[c].wkc = job[c].wkc
             /\ job'[c].tries = job[c].tries /\ job'[c].reads = job[c].reads
             /\ job'[c].back = job[c].back /\ job'[c].copied = job[c].copied
      <2>1. PICK j : j = [job[c] EXCEPT !.clean = FALSE]
            OBVIOUS
      <2>2. job'[c] = j /\ job[c] \in Jobs
            BY <1>1, <2>1 DEF OwnInv, Typed
      <2>3. /\ j.pc = job[c].pc /\ j.idx = job[c].idx /\ j.call = job[c].call
            /\ j.wkc = job[c].wkc /\ j.tries = job[c].tries /\ j.reads = job[c].reads
            /\ j.back = job[c].back /\ j.copied = job[c].copied
            BY <2>1, <2>2 DEF Jobs
      <2>4. j \in Jobs
            BY <2>1, <2>2 DEF Jobs
      <2>5. QED
            BY <2>2, <2>3, <2>4
<1>3. \A c \in Callers : /\ Busy(c)' <=> Busy(c)
                         /\ Round(c)' <=> Round(c)
                         /\ \A st : Has(c, st)' <=> Has(c, st)
      BY <1>1, <1>2 DEF Busy, Round, Has
<1>4. /\ \A i : Held(i)' <=> Held(i)
      /\ Ports' = Ports /\ \A call : Own(call)' = Own(call)
      BY <1>1, <1>2, <1>3 DEF Held, Ports, Own
<1>5. Typed'
      <2>1. job' \in [Callers -> Jobs]
            BY <1>1, <1>2
      <2>2. QED
            BY <1>1, <2>1 DEF OwnInv, Typed
<1>6. TypeOK'
      <2>1. k \in 0..Whole /\ faults' \in 0..MaxFaults
            <3>1. faults \in 0..MaxFaults
                  BY DEF OwnInv, TypeOK
            <3>2. QED
                  BY <1>1, <3>1, Bounds DEF Whole
      <2>2. QED
            BY <1>1, <1>5, <2>1, TypeKept DEF OwnInv, TypeOK
<1>7. Paced'
      BY <1>1, <1>2, <1>3 DEF OwnInv, Paced
<1>8. Moves
      BY <1>1, <1>2, <1>3 DEF Moves
<1>9. Turns' /\ IndexHeldOnce' /\ FramesOwn'
      BY <1>5, <1>8, Moved
<1>10. UseIsHeld'
      BY <1>1, <1>4 DEF OwnInv, UseIsHeld
<1>11. BuffersOwn'
      BY <1>1, <1>2, <1>3, <1>4 DEF OwnInv, BuffersOwn, IsOf
<1>12. CopiesOwn'
      BY <1>2, <1>4 DEF OwnInv, CopiesOwn
<1>13. QED
      BY <1>5, <1>6, <1>7, <1>9, <1>10, <1>11, <1>12 DEF OwnInv

-----------------------------------------------------------------------------
(* An index is handed out.                                                       *)

\* It is one that nobody holds, and that no frame that goes on living bears.
LEMMA NextIsNew ==
    ASSUME OwnInv, SentAgain, lastidx' = NextIndex, handed' = handed + 1,
           \A j \in Indices : Held(j)' => Held(j) \/ j = NextIndex
    PROVE  /\ NextIndex \in Indices /\ lastidx \in Indices /\ handed \in Nat
           /\ \A i \in Indices, call \in Nat :
                 Bears(i, call) => Lasts(i, call)' /\ (Young(call) => i # NextIndex)
           /\ \A d \in Callers : Busy(d) => job[d].idx # NextIndex
<1>1. lastidx \in Indices /\ handed \in Nat /\ handed \in 0..MaxCalls
      BY Bounds DEF OwnInv, TypeOK
<1>2. \A j \in Indices : InUse(j) => Held(j)
      BY DEF InUse, OwnInv, UseIsHeld, Ports, Stacks
<1>3. PICK n \in Indices : n = NextIndex
      BY <1>1, Search
<1>4. ASSUME NEW i \in Indices, NEW call \in Nat, Bears(i, call)
      PROVE  Lasts(i, call)' /\ (Young(call) => i # n)
      <2>1. Lasts(i, call) /\ call \in Int
            BY <1>4 DEF OwnInv, Turns
      <2>2. lastidx' = n /\ \A j \in Indices : Held(j)' => Held(j) \/ j = n
            BY <1>3
      <2>3. QED
            BY <1>1, <1>2, <1>3, <2>1, <2>2, LastsAtGet
<1>5. ~InUse(n)
      <2>1. PICK f \in [Callers -> Indices] : \A c \in Callers : f[c] = job[c].idx
            <3>1. \A c \in Callers : job[c].idx \in Indices
                  BY JobFacts DEF OwnInv, Typed
            <3>2. [c \in Callers |-> job[c].idx] \in [Callers -> Indices]
                  BY <3>1
            <3>3. QED
                  BY <3>2
      <2> DEFINE Left == {j \in Indices : \A c \in Callers : f[c] # j}
      <2>2. IsFiniteSet(Left) /\ Cardinality(Left) >= Spare
            BY Pigeons
      <2>3. Left # {}
            BY <2>2, Sizes, FS_EmptySet
      <2>4. PICK j \in Indices : \A c \in Callers : f[c] # j
            BY <2>3
      <2>5. ~InUse(j)
            BY <1>2, <2>1, <2>4 DEF Held
      <2>6. QED
            BY <1>1, <1>3, <2>5, Search
<1>6. ASSUME NEW d \in Callers, Busy(d)
      PROVE  job[d].idx # n
      <2>1. PICK i \in Indices, call \in Nat : i = job[d].idx /\ call = job[d].call
            BY JobFacts DEF OwnInv, Typed
      <2>2. CASE InUse(i)
            BY <1>5, <2>1, <2>2
      <2>3. CASE ~InUse(i)
            <3>1. Young(call)
                  BY <1>6, <2>1, <2>3 DEF SentAgain, Busy
            <3>2. Bears(i, call)
                  BY <1>6, <2>1 DEF Bears
            <3>3. QED
                  BY <1>4, <2>1, <3>1, <3>2
      <2>4. QED
            BY <2>2, <2>3
<1>7. QED
      BY <1>1, <1>3, <1>4, <1>6

LEMMA GetStep ==
    ASSUME OwnInv, NEW c \in Callers, NEW com \in Commands, GetIndex(c, com)
    PROVE  /\ OwnInv'
           /\ Busy(c)' /\ job'[c].pc = "send" /\ job'[c].tries = 0
           /\ Seen(txbuf'[job'[c].idx]) = DOMAIN txbuf'[job'[c].idx].grams
           /\ \A f \in wire' : f.frame.idx # job'[c].idx
<1>1. PICK n, h : n = NextIndex /\ h = handed + 1
      OBVIOUS
<1>2. PICK frame : frame = FrameOf(Primitives[com], n, h)
      OBVIOUS
<1>3. /\ job[c].pc = "idle" /\ handed < MaxCalls /\ SentAgain
      /\ handed' = h /\ lastidx' = n
      /\ rxbufstat' = SetBufStat(rxbufstat, n, "ALLOC")
      /\ txbuf' = [txbuf EXCEPT ![n] = frame]
      /\ job' = [job EXCEPT ![c] = [Idle EXCEPT !.pc = "send", !.com = com, !.idx = n, !.call = h]]
      /\ wire' = {f \in wire : Young(CallOf(f))}
      /\ UNCHANGED <<redstate, rxbuf, rxsa, cut, faults>>
      BY <1>1, <1>2 DEF GetIndex
<1>4. h \in Nat /\ h \in 0..MaxCalls /\ n \in Indices /\ com \in DOMAIN Primitives
      <2>1. handed \in 0..MaxCalls /\ lastidx \in Indices
            BY DEF OwnInv, TypeOK
      <2>2. QED
            BY <1>1, <1>3, <2>1, Bounds, Search, PortAssumption
<1>5. /\ frame \in Frames /\ frame.idx = n /\ frame.grams[1].call = h
      /\ Seen(frame) = DOMAIN frame.grams
      BY <1>2, <1>4, FrameOfFacts
<1>6. PICK j : j = [Idle EXCEPT !.pc = "send", !.com = com, !.idx = n, !.call = h]
      OBVIOUS
<1>7. /\ j \in Jobs /\ j.pc = "send" /\ j.idx = n /\ j.call = h /\ j.tries = 0
      /\ j.copied = NoDatagram /\ j.wkc = [s \in Stacks |-> NoFrame]
      BY <1>4, <1>6, IdleFacts DEF Jobs
<1>8. /\ job' \in [Callers -> Jobs] /\ job'[c] = j /\ Paced'
      /\ \A d \in Callers : d # c => job'[d] = job[d]
      <2>1. j.tries < MaxSends
            BY <1>7, Bounds
      <2>2. QED
            BY <1>3, <1>6, <1>7, <2>1, JobMoves
<1>9. \A d \in Callers : d # c => (Busy(d)' <=> Busy(d))
      BY <1>8 DEF Busy
<1>10. Busy(c)' /\ ~Busy(c) /\ Held(n)'
      BY <1>3, <1>7, <1>8 DEF Busy, Held
<1>11. \A i \in Indices : /\ Held(i)' => Held(i) \/ i = n
                          /\ Held(i) => Held(i)'
      <2>1. ASSUME NEW i \in Indices, NEW d \in Callers, Busy(d)', job'[d].idx = i
            PROVE  Held(i) \/ i = n
            BY <1>7, <1>8, <1>9, <2>1 DEF Held
      <2>2. ASSUME NEW i \in Indices, NEW d \in Callers, Busy(d), job[d].idx = i
            PROVE  Held(i)'
            BY <1>8, <1>9, <1>10, <2>2 DEF Held
      <2>3. QED
            BY <2>1, <2>2 DEF Held
<1>12. /\ lastidx \in Indices /\ handed \in Nat
       /\ \A i \in Indices, call \in Nat : Bears(i, call) => Lasts(i, call)' /\ (Young(call) => i # n)
       /\ \A d \in Callers : Busy(d) => job[d].idx # n
      BY <1>1, <1>3, <1>11, NextIsNew
<1>13. \A f \in wire' : f \in wire /\ f.frame.idx # n
      <2>1. TAKE f \in wire'
      <2>2. f \in wire /\ Young(CallOf(f))
            BY <1>3
      <2>3. PICK i \in Indices, call \in Nat : i = f.frame.idx /\ call = CallOf(f)
            BY <2>2, WireFacts DEF OwnInv
      <2>4. Bears(i, call)
            BY <2>2, <2>3 DEF Bears
      <2>5. QED
            BY <1>12, <2>2, <2>3, <2>4
<1>14. /\ rxbufstat' \in [Stacks -> [Indices -> {"EMPTY", "ALLOC", "TX", "RCVD", "COMPLETE"}]]
       /\ \A st \in Stacks, b \in Indices : b # n => rxbufstat'[st][b] = rxbufstat[st][b]
       /\ \A st \in Ports : rxbufstat'[st][n] = "ALLOC"
      <2>1. rxbufstat' = [st \in Stacks |-> IF st = Prim \/ redstate = "double"
                             THEN [rxbufstat[st] EXCEPT ![n] = "ALLOC"] ELSE rxbufstat[st]]
            BY <1>3 DEF SetBufStat
      <2>2. PICK stat, g : stat = rxbufstat /\ g = rxbufstat'
            OBVIOUS
      <2>3. stat \in [Stacks -> [Indices -> {"EMPTY", "ALLOC", "TX", "RCVD", "COMPLETE"}]]
            BY <2>2 DEF OwnInv, TypeOK
      <2>4. QED
            BY <1>4, <2>1, <2>2, <2>3 DEF Ports, Stacks
<1>15. /\ txbuf' \in [Indices -> Frames] /\ txbuf'[n] = frame
       /\ \A b \in Indices : b # n => txbuf'[b] = txbuf[b]
      BY <1>3, <1>4, <1>5 DEF OwnInv, Typed
<1>16. Typed'
      BY <1>3, <1>8, <1>13, <1>15 DEF OwnInv, Typed
<1>17. TypeOK'
      BY <1>3, <1>4, <1>14, <1>16, TypeKept DEF OwnInv, TypeOK
<1>18. Turns'
      <2>1. SUFFICES ASSUME NEW i \in Indices, NEW call \in Nat, Bears(i, call)'
                     PROVE  Lasts(i, call)'
            BY DEF Turns
      <2>2. CASE Bears(i, call)
            BY <1>12, <2>2
      <2>3. CASE ~Bears(i, call)
            <3>1. i = n /\ call = h
                  BY <1>7, <1>8, <1>9, <1>13, <2>1, <2>3 DEF Bears, CallOf
            <3>2. PICK f \in [Callers -> Indices] : \A d \in Callers : f[d] = job'[d].idx
                  <4>1. \A d \in Callers : job'[d].idx \in Indices
                        BY <1>8, JobFacts
                  <4>2. [d \in Callers |-> job'[d].idx] \in [Callers -> Indices]
                        BY <4>1
                  <4>3. QED
                        BY <4>2
            <3>3. Lasts(n, h)'
                  BY <1>3, <1>4, <1>10, <1>12, <3>2, LastsNew
            <3>4. QED
                  BY <3>1, <3>3
      <2>4. QED
            BY <2>2, <2>3
<1>19. IndexHeldOnce'
      BY <1>7, <1>8, <1>12 DEF OwnInv, IndexHeldOnce, Busy
<1>20. Ports' = Ports /\ \A call : Own(call)' = Own(call)
      BY <1>3 DEF Ports, Own
<1>21. FramesOwn'
      BY <1>7, <1>8, <1>9, <1>13, <1>20 DEF OwnInv, FramesOwn, CallOf
<1>22. UseIsHeld'
      <2>1. SUFFICES ASSUME NEW st \in Ports, NEW i \in Indices, rxbufstat'[st][i] # "EMPTY"
                     PROVE  Held(i)'
            BY <1>20 DEF UseIsHeld
      <2>2. st \in Stacks
            BY DEF Ports, Stacks
      <2>3. QED
            BY <1>10, <1>11, <1>14, <2>1, <2>2 DEF OwnInv, UseIsHeld
<1>23. BuffersOwn'
      <2>1. SUFFICES ASSUME NEW d \in Callers, Busy(d)'
                     PROVE  /\ IsOf(txbuf'[job'[d].idx], job'[d].idx, job'[d].call)
                            /\ \A st \in Ports : Has(d, st)' =>
                                  IsOf(rxbuf'[st][job'[d].idx], job'[d].idx, job'[d].call)
            BY <1>20 DEF BuffersOwn, IsOf
      <2>2. CASE d = c
            <3>1. \A st \in Ports : ~Has(c, st)'
                  <4>1. \A st \in Stacks : ~(j.wkc[st] > NoFrame)
                        BY <1>7 DEF NoFrame
                  <4>2. Ports \subseteq Stacks
                        BY DEF Ports, Stacks
                  <4>3. QED
                        BY <1>7, <1>8, <1>14, <4>1, <4>2 DEF Has
            <3>2. IsOf(txbuf'[n], n, h)
                  BY <1>5, <1>15 DEF IsOf, Own
            <3>3. QED
                  BY <1>7, <1>8, <2>2, <3>1, <3>2
      <2>3. CASE d # c
            <3>1. job'[d] = job[d] /\ Busy(d) /\ job[d].idx # n /\ job[d].idx \in Indices
                  BY <1>8, <1>9, <1>12, <2>1, <2>3, JobFacts DEF OwnInv, Typed
            <3>2. \A st \in Ports : Has(d, st)' => Has(d, st)
                  <4>1. Ports \subseteq Stacks
                        BY DEF Ports, Stacks
                  <4>2. QED
                        BY <1>14, <3>1, <4>1 DEF Has
            <3>3. QED
                  BY <1>3, <1>15, <3>1, <3>2 DEF OwnInv, BuffersOwn
      <2>4. QED
            BY <2>2, <2>3
<1>24. CopiesOwn'
      BY <1>7, <1>8, <1>20 DEF OwnInv, CopiesOwn
<1>25. OwnInv'
      BY <1>8, <1>16, <1>17, <1>18, <1>19, <1>21, <1>22, <1>23, <1>24 DEF OwnInv
<1>26. QED
      BY <1>5, <1>7, <1>8, <1>10, <1>13, <1>15, <1>25

-----------------------------------------------------------------------------
(* The theorems about indices and answers.                                       *)

LEMMA InitOwn == Init => OwnInv
<1> SUFFICES ASSUME Init
             PROVE  OwnInv
    OBVIOUS
<1>1. /\ job = [c \in Callers |-> Idle] /\ wire = {} /\ handed = 0 /\ faults = 0 /\ lastidx = 0
      /\ redstate \in {"none", "double"}
      /\ txbuf = [i \in Indices |-> Blank]
      /\ rxbufstat = [s \in Stacks |-> [i \in Indices |-> "EMPTY"]]
      /\ rxbuf = [s \in Stacks |-> [i \in Indices |-> Blank]]
      /\ rxsa = [s \in Stacks |-> [i \in Indices |-> Prim]]
      /\ cut \in {Whole} \union IF redstate = "double" THEN 0..Slaves ELSE {}
      BY DEF Init
<1>2. Idle \in Jobs /\ Idle.pc = "idle" /\ Idle.copied = NoDatagram
      BY IdleFacts
<1>3. \A c \in Callers : job[c] = Idle /\ ~Busy(c) /\ ~Round(c)
      BY <1>1, <1>2 DEF Busy, Round
<1>4. 0 \in Indices /\ Blank \in Frames /\ Prim \in Stacks
      BY Bounds, DummyFacts DEF Stacks
<1>5. Typed
      BY <1>1, <1>2, <1>4 DEF Typed
<1>6. cut \in 0..Whole /\ 0 \in 0..MaxCalls /\ 0 \in 0..MaxFaults
      BY <1>1, Bounds DEF Whole
<1>7. TypeOK
      <2>1. rxbufstat \in [Stacks -> [Indices -> {"EMPTY", "ALLOC", "TX", "RCVD", "COMPLETE"}]]
            BY <1>1
      <2>2. rxsa \in [Stacks -> [Indices -> Stacks]]
            BY <1>1, <1>4
      <2>3. ASSUME NEW c \in Callers
            PROVE  /\ job[c].pc \in {"idle", "send", "wait", "read", "reroute", "done"}
                   /\ job[c].idx \in Indices /\ job[c].tries \in 0..MaxSends
                   /\ \A s \in Stacks : job[c].wkc[s] \in NoFrame..Slaves
            <3>1. PICK wkc : wkc = job[c].wkc /\ wkc \in [Stacks -> NoFrame..Slaves]
                  BY <1>2, <1>3, JobFacts
            <3>2. \A s \in Stacks : wkc[s] \in NoFrame..Slaves
                  BY <3>1
            <3>3. QED
                  BY <1>2, <1>3, <3>1, <3>2, JobFacts
      <2>4. QED
            BY <1>1, <1>4, <1>6, <2>1, <2>2, <2>3 DEF TypeOK
<1>8. Paced
      BY <1>2, <1>3 DEF Paced
<1>9. Turns /\ IndexHeldOnce /\ FramesOwn /\ BuffersOwn
      BY <1>1, <1>3 DEF Turns, Bears, IndexHeldOnce, FramesOwn, BuffersOwn, Busy
<1>10. UseIsHeld /\ CopiesOwn
      BY <1>1, <1>2, <1>3 DEF UseIsHeld, CopiesOwn, Ports, Stacks
<1>11. QED
      BY <1>5, <1>7, <1>8, <1>9, <1>10 DEF OwnInv

\* The steps of a caller.
LEMMA CallersSteady ==
    ASSUME OwnInv, NEW c \in Callers, CallerStep(c)
    PROVE  Busy(c) /\ Steady(c)
BY SendStep, NothingStep, ReadStep, WaitEndsStep, RerouteEndsStep, ReturnStep, StoredStep,
   MissingStep DEF CallerStep

LEMMA NextOwn == OwnInv /\ [Next]_vars => OwnInv'
<1> SUFFICES ASSUME OwnInv, [Next]_vars
             PROVE  OwnInv'
    OBVIOUS
<1>1. CASE \E c \in Callers : CallerStep(c)
      BY <1>1, CallersSteady, SteadyKeeps
<1>2. CASE \E c \in Callers : \E com \in Commands : GetIndex(c, com)
      BY <1>2, GetStep
<1>3. CASE \E k \in 0..Slaves : Break(k)
      BY <1>3, BreakStep
<1>4. CASE UNCHANGED vars
      <2>1. /\ \A c : Busy(c)' <=> Busy(c)
            /\ \A c, st : Has(c, st)' <=> Has(c, st)
            /\ \A i, call : (Bears(i, call)' <=> Bears(i, call)) /\ (Lasts(i, call)' <=> Lasts(i, call))
            /\ \A i : Held(i)' <=> Held(i)
            /\ Ports' = Ports /\ \A call : Own(call)' = Own(call)
            BY <1>4 DEF vars, Busy, Has, Bears, Lasts, Vacant, Ahead, Held, Ports, Own
      <2>2. TypeOK' /\ Typed' /\ Paced'
            BY <1>4 DEF vars, OwnInv, TypeOK, Typed, Paced, Round
      <2>3. Turns' /\ IndexHeldOnce' /\ UseIsHeld'
            BY <1>4, <2>1 DEF vars, OwnInv, Turns, IndexHeldOnce, UseIsHeld
      <2>4. FramesOwn' /\ BuffersOwn' /\ CopiesOwn'
            BY <1>4, <2>1 DEF vars, OwnInv, FramesOwn, BuffersOwn, CopiesOwn, IsOf, CallOf
      <2>5. QED
            BY <2>2, <2>3, <2>4 DEF OwnInv
<1>5. QED
      BY <1>1, <1>2, <1>3, <1>4 DEF Next

LEMMA AlwaysOwn == Spec => []OwnInv
BY InitOwn, NextOwn, PTL DEF Spec

LEMMA OwnAnswer == OwnInv => AnswerIsOwn
<1> SUFFICES ASSUME OwnInv, NEW c \in Callers
             PROVE  /\ job[c].pc = "done" /\ job[c].wkc[Prim] > 0 =>
                          rxbuf[Prim][job[c].idx].grams[1].call \in Own(job[c].call)
                    /\ job[c].copied # NoDatagram => job[c].copied.call \in Own(job[c].call)
    BY DEF AnswerIsOwn, Own
<1>1. ASSUME job[c].pc = "done", job[c].wkc[Prim] > 0
      PROVE  rxbuf[Prim][job[c].idx].grams[1].call \in Own(job[c].call)
      <2>1. job[c].wkc[Prim] \in NoFrame..Slaves
            BY JobFacts DEF OwnInv, Typed, Stacks
      <2>2. job[c].wkc[Prim] > NoFrame
            BY <1>1, <2>1, Bounds DEF NoFrame
      <2>3. Prim \in Ports /\ Has(c, Prim) /\ Busy(c)
            BY <1>1, <2>2 DEF Ports, Stacks, Has, Busy
      <2>4. QED
            BY <2>3 DEF OwnInv, BuffersOwn, IsOf
<1>2. QED
      BY <1>1 DEF OwnInv, CopiesOwn

\* The buffers, the callers' locals and the frames under way have their types.
THEOREM PortTypes == Spec => []TypeOK
<1>1. OwnInv => TypeOK
      BY DEF OwnInv
<1>2. QED
      BY <1>1, AlwaysOwn, PTL

\* No two calls of getindex that overlap are given the same index, although an index
\* whose frame could not be sent counts as unused while its caller goes on waiting.
THEOREM IndicesHeldOnce == Spec => []IndexHeldOnce
<1>1. OwnInv => IndexHeldOnce
      BY DEF OwnInv
<1>2. QED
      BY <1>1, AlwaysOwn, PTL

\* What inframe takes for the answer of a call, from the wire or from the buffer another
\* caller left it in, and what the primitive copies, is of this call.
THEOREM AnswersAreOwn == Spec => []AnswerIsOwn
BY OwnAnswer, AlwaysOwn, PTL

-----------------------------------------------------------------------------
(* A broken ring.                                                                *)

\* The slaves look at the last datagram of a frame.
Follows(frame) == Len(frame.grams) \in Seen(frame)

\* What may be read at a port: that of the primary port has passed the slaves it meets.
Right(at, sa, frame) ==
    /\ at = Arrives(sa) /\ ~Severed(sa)
    /\ sa = Prim => Follows(frame) /\ Visits(Prim) \subseteq LastGram(frame).visited

Complete(frame) == Line \subseteq LastGram(frame).visited

Out(c) == job[c].pc = "wait" \/ (job[c].pc = "read" /\ job[c].back = "wait")
Mine(c) == {f \in wire : f.frame.idx = job[c].idx}

\* How far a call has got with which nothing went wrong so far.
Bridged(c) ==
    LET i == job[c].idx
    IN  /\ job[c].pc = "send" => job[c].tries = 0 /\ Mine(c) = {}
        /\ job[c].pc = "send" \/ Out(c) => Follows(txbuf[i])
        /\ Out(c) => /\ \A f \in Mine(c) :
                           /\ Right(f.at, f.sa, f.frame) /\ ~In(c, f.at)
                           /\ \A g \in Mine(c) : f.at = g.at => f = g
                     /\ \A st \in Stacks : In(c, st) => Right(st, rxsa[st][i], rxbuf[st][i])
        /\ Round(c) => /\ \A f \in Mine(c) : f.at = Sec => Complete(f.frame)
                       /\ In(c, Sec) => Complete(rxbuf[Sec][i])
        /\ job[c].pc = "done" => In(c, Prim) /\ Complete(rxbuf[Prim][i])

BridgeInv ==
    redstate = "double" =>
       /\ \A c, d \in Callers : Busy(c) /\ Busy(d) => c = d
       /\ \A st \in Stacks, i \in Indices : rxbufstat[st][i] # "RCVD"
       /\ \A c \in Callers : Busy(c) /\ job[c].clean => Bridged(c)

LEMMA RingFacts ==
    ASSUME OwnInv, redstate = "double"
    PROVE  /\ cut \in 0..Whole /\ Stacks = {Prim, Sec} /\ Prim # Sec /\ Nobody \notin Stacks
           /\ Arrives(Prim) = IF cut = Whole THEN Sec ELSE Prim
           /\ Arrives(Sec) = IF cut = Whole THEN Prim ELSE Sec
           /\ Severed(Prim) <=> cut = 0
           /\ Severed(Sec) <=> cut = Slaves
           /\ cut = Whole => Visits(Prim) = Line /\ ~Severed(Prim) /\ ~Severed(Sec)
           /\ cut = Slaves => Visits(Prim) = Line /\ ~Severed(Prim)
           /\ cut = 0 => Visits(Prim) = {}
           /\ cut # Whole => Line \subseteq Visits(Prim) \union Visits(Sec)
           /\ Visits(Prim) \subseteq Line /\ Visits(Sec) \subseteq Line
<1>1. PICK k \in 0..Whole : k = cut
      BY DEF OwnInv, TypeOK
<1>2. Whole = Slaves + 1 /\ Slaves \in Nat \ {0} /\ Line = 1..Slaves
      BY Bounds DEF Whole, Line
<1>3. /\ Stacks = {Prim, Sec} /\ Prim # Sec /\ Nobody \notin Stacks
      /\ Arrives(Prim) = IF k = Whole THEN Sec ELSE Prim
      /\ Arrives(Sec) = IF k = Whole THEN Prim ELSE Sec
      BY <1>1 DEF Stacks, Prim, Sec, Nobody, Arrives
<1>4. /\ Severed(Prim) <=> k = 0
      /\ Severed(Sec) <=> k = Slaves
      BY <1>1 DEF Severed, Prim, Sec
<1>5. /\ Visits(Prim) = IF k = Whole THEN Line ELSE 1..k
      /\ Visits(Sec) = IF k = Whole THEN {} ELSE (k + 1)..Slaves
      BY <1>1 DEF Visits, Prim, Sec
<1>6. k = Whole => k # 0 /\ k # Slaves
      BY <1>2
<1>7. k # Whole => /\ Line \subseteq (1..k) \union ((k + 1)..Slaves)
                   /\ 1..k \subseteq Line /\ (k + 1)..Slaves \subseteq Line
      BY <1>2
<1>8. k = Slaves => k # Whole /\ k # 0 /\ 1..k = Line
      BY <1>2
<1>9. k = 0 => k # Whole /\ 1..k = {}
      BY <1>2
<1>10. QED
      BY <1>1, <1>3, <1>4, <1>5, <1>6, <1>7, <1>8, <1>9

\* A frame whose last datagram is looked at, and slaves that it passes.
LEMMA PassingFacts ==
    ASSUME NEW frame \in Frames, NEW slaves \in SUBSET Line, Follows(frame),
           NEW after, after = Passed(frame, slaves)
    PROVE  /\ Follows(after)
           /\ LastGram(after).visited = LastGram(frame).visited \union slaves
<1>1. /\ after \in Frames /\ Len(after.grams) = Len(frame.grams)
      /\ \A k \in DOMAIN frame.grams :
            /\ after.grams[k].follows = frame.grams[k].follows
            /\ k \in Seen(frame) =>
                  after.grams[k].visited = frame.grams[k].visited \union slaves
      BY PassedFacts
<1>2. /\ Len(frame.grams) \in Nat \ {0} /\ DOMAIN frame.grams = 1..Len(frame.grams)
      /\ DOMAIN after.grams = 1..Len(after.grams)
      BY <1>1, FrameFacts
<1>3. Len(frame.grams) \in Seen(frame) /\ Len(frame.grams) \in DOMAIN frame.grams
      BY <1>2 DEF Follows
<1>4. Follows(after)
      <2>1. \A j \in 1..(Len(frame.grams) - 1) : frame.grams[j].follows /\ j \in DOMAIN frame.grams
            BY <1>2, <1>3 DEF Seen
      <2>2. \A j \in 1..(Len(after.grams) - 1) : after.grams[j].follows
            BY <1>1, <2>1
      <2>3. QED
            BY <1>1, <1>2, <1>3, <2>2 DEF Follows, Seen
<1>5. QED
      BY <1>1, <1>3, <1>4 DEF LastGram

\* One call is under way, and its locals and buffers are typed.
LEMMA AloneFacts ==
    ASSUME OwnInv, BridgeInv, redstate = "double", NEW c \in Callers, Busy(c)
    PROVE  /\ \A d \in Callers : Busy(d) => d = c
           /\ \A st \in Stacks, i \in Indices :
                 /\ rxbufstat[st][i] # "RCVD"
                 /\ rxbufstat[st][i] # "EMPTY" => i = job[c].idx
           /\ job[c] \in Jobs /\ job[c].idx \in Indices /\ Prim \in Stacks /\ Sec \in Stacks
           /\ \A st \in Stacks : /\ job[c].wkc[st] \in NoFrame..Slaves
                                 /\ rxsa[st][job[c].idx] \in Stacks
                                 /\ rxbuf[st][job[c].idx] \in Frames
           /\ txbuf[job[c].idx] \in Frames
           /\ job[c].clean => Bridged(c)
<1>1. \A d \in Callers : Busy(d) => d = c
      BY DEF BridgeInv
<1>2. job[c] \in Jobs /\ job[c].idx \in Indices /\ Prim \in Stacks /\ Sec \in Stacks
      BY JobFacts DEF OwnInv, Typed, Stacks
<1>3. ASSUME NEW st \in Stacks, NEW i \in Indices
      PROVE  /\ rxbufstat[st][i] # "RCVD"
             /\ rxbufstat[st][i] # "EMPTY" => i = job[c].idx
      <2>1. rxbufstat[st][i] # "RCVD"
            BY DEF BridgeInv
      <2>2. rxbufstat[st][i] # "EMPTY" => Held(i)
            BY DEF OwnInv, UseIsHeld, Ports
      <2>3. QED
            BY <1>1, <2>1, <2>2 DEF Held
<1>4. ASSUME NEW st \in Stacks
      PROVE  /\ job[c].wkc[st] \in NoFrame..Slaves
             /\ rxsa[st][job[c].idx] \in Stacks
             /\ rxbuf[st][job[c].idx] \in Frames
      <2>1. PICK wkc : wkc = job[c].wkc /\ wkc \in [Stacks -> NoFrame..Slaves]
            BY <1>2, JobFacts
      <2>2. wkc[st] \in NoFrame..Slaves
            BY <2>1
      <2>3. rxsa[st][job[c].idx] \in Stacks
            BY <1>2 DEF OwnInv, TypeOK
      <2>4. rxbuf[st][job[c].idx] \in Frames
            BY <1>2 DEF OwnInv, Typed
      <2>5. QED
            BY <2>1, <2>2, <2>3, <2>4
<1>5. txbuf[job[c].idx] \in Frames
      BY <1>2 DEF OwnInv, Typed
<1>6. job[c].clean => Bridged(c)
      BY DEF BridgeInv
<1>7. QED
      BY <1>1, <1>2, <1>3, <1>4, <1>5, <1>6

\* What a step of the one caller has to show.
Bridges(c) ==
    /\ \A st \in Stacks, i \in Indices : rxbufstat'[st][i] # "RCVD"
    /\ Busy(c)' /\ job'[c].clean => Bridged(c)'

LEMMA BridgesKeeps ==
    ASSUME OwnInv, BridgeInv, redstate = "double", NEW c \in Callers, Busy(c),
           Steady(c), Bridges(c)
    PROVE  BridgeInv'
<1>1. \A d \in Callers : d # c => ~Busy(d) /\ job'[d] = job[d]
      BY AloneFacts DEF Steady, Local
<1>2. \A d \in Callers : Busy(d)' => d = c
      BY <1>1 DEF Busy
<1>3. \A d \in Callers : Busy(d)' /\ job'[d].clean => Bridged(d)'
      BY <1>2 DEF Bridges
<1>4. QED
      BY <1>2, <1>3 DEF BridgeInv, Bridges

\* Whether a frame may be read at a port depends on the ring alone.
LEMMA RightKept ==
    ASSUME redstate' = redstate, cut' = cut
    PROVE  \A at, sa, frame : Right(at, sa, frame)' <=> Right(at, sa, frame)
BY DEF Right, Arrives, Severed, Visits, LastGram, Follows, Seen

LEMMA MissingBridges ==
    ASSUME OwnInv, BridgeInv, redstate = "double", NEW c \in Callers, NEW st \in Stacks,
           InFrameMissing(c, st)
    PROVE  Bridges(c)
<1>1. job[c] \in Jobs /\ job[c].pc \in {"wait", "reroute"} /\ Busy(c)
      BY DEF InFrameMissing, Waits, OwnInv, Typed, Busy
<1>2. PICK j : j = [job[c] EXCEPT !.pc = "read", !.reads = st, !.back = job[c].pc]
      OBVIOUS
<1>3. /\ j.pc = "read" /\ j.back = job[c].pc /\ j.idx = job[c].idx
      /\ j.wkc = job[c].wkc /\ j.clean = job[c].clean
      BY <1>1, <1>2 DEF Jobs
<1>4. job'[c] = j
      BY <1>2 DEF InFrameMissing, OwnInv, Typed
<1>5. UNCHANGED <<redstate, lastidx, txbuf, rxbufstat, rxbuf, rxsa, wire, cut, handed, faults>>
      BY DEF InFrameMissing
<1>6. ASSUME job'[c].clean
      PROVE  Bridged(c)'
      <2>1. Bridged(c)
            BY <1>1, <1>3, <1>4, <1>6, AloneFacts
      <2>2. /\ Out(c)' <=> Out(c)
            /\ Round(c)' <=> Round(c)
            /\ Mine(c)' = Mine(c) /\ \A t : In(c, t)' <=> In(c, t)
            BY <1>1, <1>3, <1>4, <1>5 DEF Out, Round, Mine, In
      <2>3. \A at, sa, frame : Right(at, sa, frame)' <=> Right(at, sa, frame)
            BY <1>5, RightKept
      <2>4. QED
            BY <1>3, <1>4, <1>5, <2>1, <2>2, <2>3 DEF Bridged, Follows, Seen, Complete, LastGram
<1>7. QED
      BY <1>1, <1>5, <1>6, AloneFacts DEF Bridges

LEMMA NothingBridges ==
    ASSUME OwnInv, BridgeInv, redstate = "double", NEW c \in Callers, NothingToRead(c)
    PROVE  Bridges(c)
<1>1. job[c] \in Jobs /\ job[c].pc = "read" /\ job[c].back \in {"wait", "reroute"} /\ Busy(c)
      BY JobFacts DEF NothingToRead, OwnInv, Typed, Busy, Paced
<1>2. PICK j : j = [job[c] EXCEPT !.pc = job[c].back]
      OBVIOUS
<1>3. /\ j.pc = job[c].back /\ j.idx = job[c].idx
      /\ j.wkc = job[c].wkc /\ j.clean = job[c].clean
      BY <1>1, <1>2 DEF Jobs
<1>4. job'[c] = j
      BY <1>2 DEF NothingToRead, OwnInv, Typed
<1>5. UNCHANGED <<redstate, lastidx, txbuf, rxbufstat, rxbuf, rxsa, wire, cut, handed, faults>>
      BY DEF NothingToRead
<1>6. ASSUME job'[c].clean
      PROVE  Bridged(c)'
      <2>1. Bridged(c)
            BY <1>1, <1>3, <1>4, <1>6, AloneFacts
      <2>2. /\ Out(c)' <=> Out(c)
            /\ Round(c)' <=> Round(c)
            /\ Mine(c)' = Mine(c) /\ \A t : In(c, t)' <=> In(c, t)
            BY <1>1, <1>3, <1>4, <1>5 DEF Out, Round, Mine, In
      <2>3. \A at, sa, frame : Right(at, sa, frame)' <=> Right(at, sa, frame)
            BY <1>5, RightKept
      <2>4. QED
            BY <1>1, <1>3, <1>4, <1>5, <2>1, <2>2, <2>3 DEF Bridged, Follows, Seen, Complete, LastGram
<1>7. QED
      BY <1>1, <1>5, <1>6, AloneFacts DEF Bridges

\* The status a send leaves, or getindex and setbufstat set.
LEMMA StatFacts ==
    ASSUME OwnInv, NEW i \in Indices, NEW a \in Stacks, NEW b \in Indices
    PROVE  /\ \A st \in Stacks, ok \in BOOLEAN :
                 OutStat(rxbufstat, st, i, ok)[a][b] \in {rxbufstat[a][b], "TX", "EMPTY"}
           /\ \A s : SetBufStat(rxbufstat, i, s)[a][b] \in {rxbufstat[a][b], s}
<1>1. PICK stat : /\ stat = rxbufstat
                  /\ stat \in [Stacks -> [Indices -> {"EMPTY", "ALLOC", "TX", "RCVD", "COMPLETE"}]]
      BY DEF OwnInv, TypeOK
<1>2. ASSUME NEW st \in Stacks, NEW ok \in BOOLEAN
      PROVE  OutStat(stat, st, i, ok)[a][b] \in {stat[a][b], "TX", "EMPTY"}
      <2>1. PICK s \in {"TX", "EMPTY"} : s = IF ok THEN "TX" ELSE "EMPTY"
            OBVIOUS
      <2>2. OutStat(stat, st, i, ok) = [stat EXCEPT ![st][i] = s]
            BY <2>1 DEF OutStat
      <2>3. QED
            BY <1>1, <2>2
<1>3. ASSUME NEW s
      PROVE  SetBufStat(stat, i, s)[a][b] \in {stat[a][b], s}
      BY <1>1 DEF SetBufStat
<1>4. QED
      BY <1>1, <1>2, <1>3

\* Both frames are sent, each from its port, and come to different ports.
LEMMA SendBridges ==
    ASSUME OwnInv, BridgeInv, redstate = "double", NEW c \in Callers, OutFrameRed(c)
    PROVE  Bridges(c)
<1> DEFINE i == job[c].idx
           n == <<job[c].call, job[c].tries>>
           frame(st) == IF st = Prim THEN txbuf[i] ELSE Dummy(i)
<1>1. PICK fails \in SUBSET Stacks :
          /\ job[c].pc = "send"
          /\ rxbufstat' = [st \in Stacks |->
                IF st \in Stacks THEN OutStat(rxbufstat, st, i, st \notin fails)[st] ELSE rxbufstat[st]]
          /\ wire' = wire \union UNION {Sent(st, st, frame(st), n) : st \in Stacks \ fails}
          /\ job' = [job EXCEPT ![c].pc = "wait", ![c].tries = @ + 1,
                        ![c].wkc = [s \in Stacks |-> IF s = Sec /\ redstate = "none" THEN 0 ELSE NoFrame],
                        ![c].clean = @ /\ fails = {}]
          /\ UNCHANGED <<redstate, lastidx, txbuf, rxbuf, rxsa, cut, handed>>
      BY DEF OutFrameRed
<1>2. job[c] \in Jobs /\ Busy(c) /\ i \in Indices /\ txbuf[i] \in Frames
      BY <1>1, AloneFacts DEF OwnInv, Typed, Busy
<1>3. PICK wkc : wkc = [s \in Stacks |-> IF s = Sec /\ redstate = "none" THEN 0 ELSE NoFrame]
      OBVIOUS
<1>4. \A st \in Stacks : ~(wkc[st] > NoFrame)
      BY <1>3 DEF NoFrame
<1>5. PICK j : j = [job[c] EXCEPT !.pc = "wait", !.tries = job[c].tries + 1, !.wkc = wkc,
                                  !.clean = job[c].clean /\ fails = {}]
      OBVIOUS
<1>6. /\ j.pc = "wait" /\ j.idx = i /\ j.wkc = wkc
      /\ j.clean => job[c].clean /\ fails = {}
      BY <1>2, <1>5 DEF Jobs
<1>7. job'[c] = j
      BY <1>1, <1>3, <1>5 DEF OwnInv, Typed
<1>8. ASSUME NEW st \in Stacks, NEW b \in Indices
      PROVE  rxbufstat'[st][b] # "RCVD"
      <2>1. rxbufstat'[st][b] = OutStat(rxbufstat, st, i, st \notin fails)[st][b]
            BY <1>1
      <2>2. (st \notin fails) \in BOOLEAN
            OBVIOUS
      <2>3. rxbufstat'[st][b] \in {rxbufstat[st][b], "TX", "EMPTY"}
            BY <1>2, <2>1, <2>2, StatFacts
      <2>4. QED
            BY <1>2, <2>3, AloneFacts
<1>9. ASSUME job'[c].clean
      PROVE  Bridged(c)'
      <2>1. Bridged(c) /\ fails = {}
            BY <1>2, <1>6, <1>7, <1>9, AloneFacts
      <2>2. Mine(c) = {} /\ Follows(txbuf[i])
            BY <1>1, <2>1 DEF Bridged
      <2>3. ASSUME NEW f \in Mine(c)'
            PROVE  \E st \in Stacks : f \in Sent(st, st, frame(st), n)
            <3>1. f \in wire' /\ f.frame.idx = i
                  BY <1>6, <1>7 DEF Mine
            <3>2. f \notin wire
                  BY <2>2, <3>1 DEF Mine
            <3>3. QED
                  BY <1>1, <2>1, <3>1, <3>2
      <2>4. ASSUME NEW st \in Stacks, NEW f \in Sent(st, st, frame(st), n)
            PROVE  /\ f.at = Arrives(st) /\ f.sa = st /\ ~Severed(st)
                   /\ f = [at |-> Arrives(st), sa |-> st, frame |-> Passed(frame(st), Visits(st)), n |-> n]
            BY DEF Sent
      <2>5. ASSUME NEW f \in Mine(c)'
            PROVE  Right(f.at, f.sa, f.frame)
            <3>1. PICK st \in Stacks : f \in Sent(st, st, frame(st), n)
                  BY <2>3
            <3>2. f.at = Arrives(f.sa) /\ ~Severed(f.sa)
                  BY <2>4, <3>1
            <3>3. ASSUME f.sa = Prim
                  PROVE  Follows(f.frame) /\ Visits(Prim) \subseteq LastGram(f.frame).visited
                  <4>1. f.frame = Passed(txbuf[i], Visits(Prim))
                        BY <2>4, <3>1, <3>3
                  <4>2. Visits(Prim) \in SUBSET Line
                        BY RingFacts
                  <4>3. QED
                        BY <1>2, <2>2, <4>1, <4>2, PassingFacts
            <3>4. QED
                  BY <3>2, <3>3 DEF Right
      <2>6. ASSUME NEW f \in Mine(c)', NEW g \in Mine(c)', f.at = g.at
            PROVE  f = g
            <3>1. PICK s \in Stacks : f \in Sent(s, s, frame(s), n)
                  BY <2>3
            <3>2. PICK t \in Stacks : g \in Sent(t, t, frame(t), n)
                  BY <2>3
            <3>3. s = t
                  BY <2>4, <2>6, <3>1, <3>2, RingFacts
            <3>4. QED
                  BY <2>4, <3>1, <3>2, <3>3
      <2>7. \A st \in Stacks : ~In(c, st)'
            BY <1>4, <1>6, <1>7 DEF In
      <2>8. Mine(c)' \subseteq wire' /\ \A f \in wire' : f.at \in Stacks
            <3>1. Typed'
                  BY SendStep DEF Steady
            <3>2. QED
                  BY <3>1 DEF Mine, Typed, OnWire
      <2>9. \A at, sa, fr : Right(at, sa, fr)' <=> Right(at, sa, fr)
            BY <1>1, RightKept
      <2>10. Follows(txbuf'[i])
            BY <1>1, <2>2
      <2>11. QED
            BY <1>6, <1>7, <2>5, <2>6, <2>7, <2>8, <2>9, <2>10 DEF Bridged, Round, Follows, Seen
<1>10. QED
      BY <1>8, <1>9 DEF Bridges

LEMMA ReadBridges ==
    ASSUME OwnInv, BridgeInv, redstate = "double", NEW c \in Callers, InFrameRead(c)
    PROVE  Bridges(c)
<1> DEFINE i == job[c].idx
<1>1. PICK st : st = job[c].reads
      OBVIOUS
<1>2. PICK f \in wire, whole \in BOOLEAN :
          /\ job[c].pc = "read" /\ f.at = st
          /\ wire' = wire \ {f}
          /\ job' = [job EXCEPT ![c].pc = job[c].back,
                        ![c].wkc[st] = IF whole /\ f.frame.idx = i THEN Wkc(f.frame) ELSE @]
          /\ \/ whole /\ f.frame.idx = i /\ Store(st, i, f, "COMPLETE")
             \/ /\ whole /\ f.frame.idx # i /\ rxbufstat[st][f.frame.idx] = "TX"
                /\ Store(st, f.frame.idx, f, "RCVD")
             \/ /\ ~whole \/ (f.frame.idx # i /\ rxbufstat[st][f.frame.idx] # "TX")
                /\ UNCHANGED <<rxbuf, rxsa, rxbufstat>>
          /\ UNCHANGED <<redstate, lastidx, txbuf, cut, handed>>
      BY <1>1 DEF InFrameRead
<1> DEFINE mine == whole /\ f.frame.idx = i
           w == IF mine THEN Wkc(f.frame) ELSE job[c].wkc[st]
<1>3. /\ job[c] \in Jobs /\ Busy(c) /\ i \in Indices /\ st \in Stacks
      /\ job[c].back \in {"wait", "reroute"}
      /\ f.frame \in Frames /\ f.frame.idx \in Indices /\ f.sa \in Stacks
      <2>1. job[c] \in Jobs /\ Busy(c)
            BY <1>2 DEF OwnInv, Typed, Busy
      <2>2. f.frame \in Frames /\ f.frame.idx \in Indices /\ f.sa \in Stacks
            BY WireFacts DEF OwnInv
      <2>3. QED
            BY <1>1, <1>2, <2>1, <2>2, JobFacts DEF OwnInv, Paced
<1>4. PICK j : j = [job[c] EXCEPT !.pc = job[c].back, !.wkc[st] = w]
      OBVIOUS
<1>5. /\ j.pc = job[c].back /\ j.idx = i /\ j.clean = job[c].clean
      /\ j.wkc = [job[c].wkc EXCEPT ![st] = w]
      BY <1>3, <1>4 DEF Jobs
<1>6. j.wkc[st] = w /\ \A t \in Stacks : t # st => j.wkc[t] = job[c].wkc[t]
      BY <1>3, <1>5, JobFacts
<1>7. job'[c] = j
      <2>1. job \in [Callers -> Jobs]
            BY DEF OwnInv, Typed
      <2>2. QED
            BY <1>2, <1>4, <2>1
<1> HIDE DEF w
\* There is no buffer of another index to read for.
<1>8. \/ mine /\ Store(st, i, f, "COMPLETE")
      \/ ~mine /\ UNCHANGED <<rxbuf, rxsa, rxbufstat>>
      BY <1>2, <1>3, AloneFacts
<1>9. ASSUME mine, Store(st, i, f, "COMPLETE")
      PROVE  /\ rxbuf'[st][i] = f.frame /\ rxsa'[st][i] = f.sa
             /\ \A t \in Stacks : t # st => rxbuf'[t][i] = rxbuf[t][i] /\ rxsa'[t][i] = rxsa[t][i]
             /\ \A t \in Stacks, b \in Indices : rxbufstat'[t][b] \in {rxbufstat[t][b], "COMPLETE"}
      <2>1. PICK h, buf : h = rxbuf' /\ buf = rxbuf /\ buf \in [Stacks -> [Indices -> Frames]]
            BY DEF OwnInv, Typed
      <2>2. PICK s, sent : s = rxsa' /\ sent = rxsa /\ sent \in [Stacks -> [Indices -> Stacks]]
            BY DEF OwnInv, TypeOK
      <2>3. PICK g, stat : /\ g = rxbufstat' /\ stat = rxbufstat
                           /\ stat \in [Stacks -> [Indices -> {"EMPTY", "ALLOC", "TX", "RCVD", "COMPLETE"}]]
            BY DEF OwnInv, TypeOK
      <2>4. /\ h = [buf EXCEPT ![st][i] = f.frame] /\ s = [sent EXCEPT ![st][i] = f.sa]
            /\ g = [stat EXCEPT ![st][i] = "COMPLETE"]
            BY <1>9, <2>1, <2>2, <2>3 DEF Store
      <2>5. h[st][i] = f.frame /\ \A t \in Stacks : t # st => h[t][i] = buf[t][i]
            BY <1>3, <2>1, <2>4
      <2>6. s[st][i] = f.sa /\ \A t \in Stacks : t # st => s[t][i] = sent[t][i]
            BY <1>3, <2>2, <2>4
      <2>7. \A t \in Stacks, b \in Indices : g[t][b] \in {stat[t][b], "COMPLETE"}
            BY <1>3, <2>3, <2>4
      <2>8. QED
            BY <2>1, <2>2, <2>3, <2>5, <2>6, <2>7
<1>10. \A t \in Stacks, b \in Indices : rxbufstat'[t][b] # "RCVD"
      <2>1. \A t \in Stacks, b \in Indices : rxbufstat[t][b] # "RCVD"
            BY <1>3, AloneFacts
      <2>2. CASE mine /\ Store(st, i, f, "COMPLETE")
            BY <1>9, <2>1, <2>2
      <2>3. CASE UNCHANGED <<rxbuf, rxsa, rxbufstat>>
            BY <2>1, <2>3
      <2>4. QED
            BY <1>8, <2>2, <2>3
<1>11. ASSUME job'[c].clean
       PROVE  Bridged(c)'
      <2>1. Bridged(c)
            BY <1>3, <1>5, <1>7, <1>11, AloneFacts
      <2>2. /\ Out(c)' <=> Out(c)
            /\ Round(c)' <=> Round(c)
            /\ Mine(c)' = Mine(c) \ {f}
            /\ job'[c].idx = i /\ job'[c].pc \notin {"send", "done"}
            BY <1>2, <1>3, <1>5, <1>7 DEF Out, Round, Mine
      <2>3. \A at, sa, frame : Right(at, sa, frame)' <=> Right(at, sa, frame)
            BY <1>2, RightKept
      <2>4. Mine(c) \subseteq wire /\ \A g \in wire : g.at \in Stacks
            BY WireFacts DEF Mine, OwnInv
      <2>5. Out(c) => Follows(txbuf'[i])
            BY <1>2, <2>1 DEF Bridged
      <2>6. CASE mine /\ Store(st, i, f, "COMPLETE")
            <3>1. /\ f \in Mine(c)
                  /\ In(c, st)' /\ \A t \in Stacks : t # st => (In(c, t)' <=> In(c, t))
                  BY <1>3, <1>6, <1>7, <2>6, FrameWkc DEF Mine, In, w
            <3>2. ASSUME Out(c)
                  PROVE  /\ \A g \in Mine(c)' :
                               /\ Right(g.at, g.sa, g.frame) /\ ~In(c, g.at)'
                               /\ \A h \in Mine(c)' : g.at = h.at => g = h
                         /\ \A t \in Stacks : In(c, t)' => Right(t, rxsa'[t][i], rxbuf'[t][i])
                  <4>1. /\ \A g \in Mine(c) : /\ Right(g.at, g.sa, g.frame) /\ ~In(c, g.at)
                                              /\ \A h \in Mine(c) : g.at = h.at => g = h
                        /\ \A t \in Stacks : In(c, t) => Right(t, rxsa[t][i], rxbuf[t][i])
                        BY <2>1, <3>2 DEF Bridged
                  <4>2. \A g \in Mine(c)' : g \in Mine(c) /\ g # f /\ g.at # st /\ g.at \in Stacks
                        BY <1>2, <2>2, <2>4, <3>1, <4>1
                  <4>3. ASSUME NEW t \in Stacks, In(c, t)'
                        PROVE  Right(t, rxsa'[t][i], rxbuf'[t][i])
                        <5>1. CASE t = st
                              BY <1>2, <1>9, <2>6, <3>1, <4>1, <5>1
                        <5>2. CASE t # st
                              BY <1>9, <2>6, <3>1, <4>1, <4>3, <5>2
                        <5>3. QED
                              BY <5>1, <5>2
                  <4>4. QED
                        BY <3>1, <4>1, <4>2, <4>3
            <3>3. ASSUME Round(c)
                  PROVE  /\ \A g \in Mine(c)' : g.at = Sec => Complete(g.frame)
                         /\ In(c, Sec)' => Complete(rxbuf'[Sec][i])
                  <4>1. st = Sec /\ \A g \in Mine(c) : g.at = Sec => Complete(g.frame)
                        BY <1>1, <1>2, <2>1, <3>3 DEF Bridged, OwnInv, Paced
                  <4>2. QED
                        BY <1>2, <1>9, <2>2, <2>6, <3>1, <4>1
            <3>4. QED
                  BY <2>2, <2>3, <2>5, <3>2, <3>3 DEF Bridged, Complete, LastGram
      <2>7. CASE ~mine /\ UNCHANGED <<rxbuf, rxsa, rxbufstat>>
            <3>1. \A t \in Stacks : In(c, t)' <=> In(c, t)
                  BY <1>6, <1>7, <2>7 DEF In, w
            <3>2. Sec \in Stacks
                  BY DEF Stacks
            <3>3. QED
                  BY <2>1, <2>2, <2>3, <2>4, <2>5, <2>7, <3>1, <3>2 DEF Bridged, Complete, LastGram
      <2>8. QED
            BY <1>8, <2>6, <2>7
<1>12. QED
      BY <1>10, <1>11 DEF Bridges

\* A call with which nothing went wrong ends with a frame that all slaves have seen.
LEMMA DoneBridges ==
    ASSUME OwnInv, BridgeInv, redstate = "double", NEW c \in Callers,
           NEW w \in NoFrame..Slaves, NEW clean \in BOOLEAN, Conclude(c, w, clean),
           job[c].pc \in {"wait", "reroute"}, UNCHANGED <<redstate, rxbufstat>>,
           clean => w > NoFrame /\ Complete(rxbuf'[Prim][job[c].idx])
    PROVE  Bridges(c)
<1>1. Busy(c)
      BY DEF Busy
<1>2. /\ job'[c].idx = job[c].idx /\ job'[c].clean = clean /\ job'[c].wkc[Prim] = w
      /\ job'[c].pc = "done" \/ (job'[c].pc = "send" /\ w <= NoFrame)
      BY Concludes
<1>3. ~(w > NoFrame /\ w <= NoFrame)
      BY Bounds DEF NoFrame
<1>4. ASSUME job'[c].clean
      PROVE  Bridged(c)'
      <2>1. job'[c].pc = "done" /\ w > NoFrame /\ Complete(rxbuf'[Prim][job[c].idx])
            BY <1>2, <1>3, <1>4
      <2>2. ~Out(c)' /\ ~Round(c)' /\ In(c, Prim)'
            BY <1>2, <2>1 DEF Out, Round, In
      <2>3. QED
            BY <1>2, <2>1, <2>2 DEF Bridged, Complete, LastGram
<1>5. QED
      BY <1>1, <1>4, AloneFacts DEF Bridges

\* What a clean call has got when its wait ends, by where the ring is broken.
LEMMA WaitFacts ==
    ASSUME OwnInv, BridgeInv, redstate = "double", NEW c \in Callers,
           job[c].pc = "wait", job[c].clean, \A st \in Stacks : In(c, st) \/ Severed(st)
    PROVE  LET i == job[c].idx
           IN  /\ \A st \in Stacks : In(c, st) => Right(st, rxsa[st][i], rxbuf[st][i])
               /\ \A st \in Stacks : From(c, st) = IF In(c, st) THEN rxsa[st][i] ELSE Nobody
               /\ Follows(txbuf[i]) /\ \A f \in Mine(c) : ~In(c, f.at)
               /\ cut = Whole => Crossed(c) /\ In(c, Sec) /\ rxsa[Sec][i] = Prim
               /\ cut \notin {Whole, Slaves} => Turned(c)
               /\ cut = Slaves => In(c, Prim) /\ rxsa[Prim][i] = Prim /\ ~Crossed(c) /\ ~Turned(c)
<1> DEFINE i == job[c].idx
<1>1. Out(c) /\ Busy(c)
      BY DEF Out, Busy
<1>2. /\ Bridged(c) /\ Prim \in Stacks /\ Sec \in Stacks
      /\ \A st \in Stacks : rxsa[st][i] \in Stacks
      BY <1>1, AloneFacts
<1>3. /\ \A st \in Stacks : In(c, st) => Right(st, rxsa[st][i], rxbuf[st][i])
      /\ Follows(txbuf[i]) /\ \A f \in Mine(c) : ~In(c, f.at)
      BY <1>1, <1>2 DEF Bridged
<1>4. \A st \in Stacks : From(c, st) = IF In(c, st) THEN rxsa[st][i] ELSE Nobody
      BY DEF From
<1>5. \A st \in Stacks : In(c, st) => st = Arrives(rxsa[st][i]) /\ ~Severed(rxsa[st][i])
      BY <1>3 DEF Right
<1>6. CASE cut = Whole
      <2>1. ~Severed(Prim) /\ ~Severed(Sec) /\ Arrives(Prim) = Sec /\ Arrives(Sec) = Prim
            BY <1>6, RingFacts
      <2>2. In(c, Prim) /\ In(c, Sec)
            BY <1>2, <2>1
      <2>3. rxsa[Prim][i] = Sec /\ rxsa[Sec][i] = Prim
            BY <1>2, <1>5, <2>1, <2>2, RingFacts
      <2>4. cut # Slaves
            BY <1>6, Bounds DEF Whole
      <2>5. QED
            BY <1>2, <1>3, <1>4, <1>6, <2>2, <2>3, <2>4 DEF Crossed
<1>7. CASE cut # Whole
      <2>1. Arrives(Prim) = Prim /\ Arrives(Sec) = Sec /\ Prim # Sec /\ Stacks = {Prim, Sec}
            BY <1>7, RingFacts
      <2>2. \A st \in Stacks : In(c, st) => rxsa[st][i] = st /\ ~Severed(st)
            BY <1>2, <1>5, <2>1
      <2>3. Prim # Nobody /\ Sec # Nobody
            BY RingFacts
      <2>4. ~Crossed(c)
            BY <1>2, <1>4, <2>1, <2>2, <2>3 DEF Crossed
      <2>5. CASE cut = Slaves
            <3>1. In(c, Prim) /\ ~In(c, Sec)
                  BY <1>2, <2>2, <2>5, RingFacts
            <3>2. ~Turned(c)
                  BY <1>2, <1>4, <2>3, <3>1 DEF Turned
            <3>3. QED
                  BY <1>2, <1>3, <1>4, <1>7, <2>2, <2>4, <2>5, <3>1, <3>2
      <2>6. CASE cut # Slaves
            <3>1. In(c, Sec) /\ rxsa[Sec][i] = Sec
                  BY <1>2, <2>2, <2>6, RingFacts
            <3>2. From(c, Prim) \in {Nobody, Prim} /\ From(c, Sec) = Sec
                  BY <1>2, <1>4, <2>2, <3>1
            <3>3. QED
                  BY <1>3, <1>4, <1>7, <2>6, <3>2 DEF Turned
      <2>7. QED
            BY <2>5, <2>6
<1>8. QED
      BY <1>6, <1>7

\* What is sent round the other way has passed the slaves before the break, and passes
\* those behind it.
LEMMA TurnedBridges ==
    ASSUME OwnInv, BridgeInv, redstate = "double", NEW c \in Callers, WaitEnds(c), Turned(c)
    PROVE  Bridges(c)
<1> DEFINE i == job[c].idx
           n == <<job[c].call, MaxSends + job[c].tries>>
           clean == job[c].clean /\ \A st \in Stacks : In(c, st) \/ Severed(st)
<1>1. PICK round : round = Rerouted(c)
      OBVIOUS
<1>2. /\ job[c].pc = "wait"
      /\ txbuf' = [txbuf EXCEPT ![i] = round]
      /\ \E ok \in BOOLEAN :
           /\ rxbufstat' = OutStat(rxbufstat, Sec, i, ok)
           /\ wire' = IF ok THEN wire \union Sent(Sec, Prim, txbuf'[i], n) ELSE wire
           /\ job' = [job EXCEPT ![c].pc = "reroute", ![c].wkc[Sec] = NoFrame,
                                 ![c].clean = clean /\ ok]
      /\ UNCHANGED <<rxbuf, redstate, lastidx, rxsa, cut, handed>>
      BY <1>1 DEF WaitEnds, Turned, Crossed, Prim, Sec, Nobody
<1>3. /\ job[c] \in Jobs /\ Busy(c) /\ i \in Indices /\ txbuf[i] \in Frames
      /\ rxbuf[Prim][i] \in Frames /\ Prim \in Stacks /\ Sec \in Stacks /\ Prim # Sec
      BY <1>2, AloneFacts, RingFacts DEF OwnInv, Typed, Busy
<1>4. round \in Frames /\ txbuf'[i] = round
      <2>1. round \in Frames
            BY <1>1, <1>3 DEF Rerouted
      <2>2. QED
            BY <1>2, <1>3, <2>1 DEF OwnInv, Typed
<1>5. PICK ok \in BOOLEAN :
           /\ rxbufstat' = OutStat(rxbufstat, Sec, i, ok)
           /\ wire' = IF ok THEN wire \union Sent(Sec, Prim, round, n) ELSE wire
           /\ job' = [job EXCEPT ![c].pc = "reroute", ![c].wkc[Sec] = NoFrame,
                                 ![c].clean = clean /\ ok]
      BY <1>2, <1>4
<1> HIDE DEF clean
<1>6. PICK j : j = [job[c] EXCEPT !.pc = "reroute", !.wkc[Sec] = NoFrame, !.clean = clean /\ ok]
      OBVIOUS
<1>7. /\ j.pc = "reroute" /\ j.idx = i
      /\ j.clean => clean /\ ok
      /\ j.wkc = [job[c].wkc EXCEPT ![Sec] = NoFrame]
      BY <1>3, <1>6 DEF Jobs
<1>8. j.wkc[Sec] = NoFrame
      BY <1>3, <1>7, JobFacts
<1>9. job'[c] = j
      BY <1>5, <1>6 DEF OwnInv, Typed
<1>10. \A st \in Stacks, b \in Indices : rxbufstat'[st][b] # "RCVD"
      BY <1>3, <1>5, AloneFacts, StatFacts
<1>11. ASSUME job'[c].clean
       PROVE  Bridged(c)'
      <2>1. clean /\ ok
            BY <1>7, <1>9, <1>11
      <2>2. /\ \A st \in Stacks : In(c, st) => Right(st, rxsa[st][i], rxbuf[st][i])
            /\ \A st \in Stacks : From(c, st) = IF In(c, st) THEN rxsa[st][i] ELSE Nobody
            /\ Follows(txbuf[i]) /\ \A f \in Mine(c) : ~In(c, f.at)
            /\ cut = Whole => Crossed(c)
            BY <1>2, <2>1, WaitFacts DEF clean
      <2>3. In(c, Sec) /\ cut # Whole
            BY <1>3, <2>2, RingFacts DEF Turned, Crossed
      <2>4. Follows(round) /\ Visits(Prim) \subseteq LastGram(round).visited
            <3>1. CASE From(c, Prim) = Prim
                  <4>1. Right(Prim, Prim, rxbuf[Prim][i])
                        BY <1>3, <2>2, <3>1, RingFacts
                  <4>2. QED
                        BY <1>1, <3>1, <4>1 DEF Rerouted, Right
            <3>2. CASE From(c, Prim) # Prim
                  <4>1. ~In(c, Prim)
                        BY <1>3, <2>2, <3>2, AloneFacts, RingFacts DEF Turned
                  <4>2. Visits(Prim) = {}
                        BY <1>3, <2>1, <4>1, RingFacts DEF clean
                  <4>3. QED
                        BY <1>1, <2>2, <3>2, <4>2 DEF Rerouted
            <3>3. QED
                  BY <3>1, <3>2
      <2>5. ASSUME NEW f \in Mine(c)', f.at = Sec
            PROVE  Complete(f.frame)
            <3>1. f \notin wire
                  BY <1>7, <1>9, <2>2, <2>3, <2>5 DEF Mine
            <3>2. f \in Sent(Sec, Prim, round, n)
                  BY <1>5, <2>1, <3>1 DEF Mine
            <3>3. f.frame = Passed(round, Visits(Sec)) /\ Visits(Sec) \in SUBSET Line
                  BY <3>2, RingFacts DEF Sent
            <3>4. LastGram(f.frame).visited = LastGram(round).visited \union Visits(Sec)
                  BY <1>4, <2>4, <3>3, PassingFacts
            <3>5. QED
                  BY <2>3, <2>4, <3>4, RingFacts DEF Complete
      <2>6. ~In(c, Sec)' /\ ~Out(c)' /\ job'[c].pc = "reroute"
            <3>1. ~(NoFrame > NoFrame)
                  BY DEF NoFrame
            <3>2. QED
                  BY <1>7, <1>8, <1>9, <3>1 DEF In, Out
      <2>7. QED
            BY <2>5, <2>6 DEF Bridged, Complete, LastGram
<1>12. QED
      BY <1>10, <1>11 DEF Bridges

LEMMA WaitEndsBridges ==
    ASSUME OwnInv, BridgeInv, redstate = "double", NEW c \in Callers, WaitEnds(c)
    PROVE  Bridges(c)
<1> DEFINE i == job[c].idx
           clean == job[c].clean /\ \A st \in Stacks : In(c, st) \/ Severed(st)
<1>1. job[c].pc = "wait" /\ Busy(c)
      BY DEF WaitEnds, Busy
<1>2. /\ job[c].wkc[Prim] \in NoFrame..Slaves /\ job[c].wkc[Sec] \in NoFrame..Slaves
      /\ clean \in BOOLEAN /\ i \in Indices /\ Prim \in Stacks /\ Sec \in Stacks
      BY <1>1, AloneFacts, JobFacts
<1>3. CASE Turned(c)
      BY <1>3, TurnedBridges
<1>4. CASE ~Turned(c) /\ Crossed(c)
      <2>1. /\ Conclude(c, job[c].wkc[Sec], clean)
            /\ rxbuf' = [rxbuf EXCEPT ![Prim][i] = rxbuf[Sec][i]]
            /\ UNCHANGED <<redstate, rxbufstat>>
            BY <1>4 DEF WaitEnds
      <2>2. rxbuf'[Prim][i] = rxbuf[Sec][i]
            BY <1>2, <2>1 DEF OwnInv, Typed
      <2>3. ASSUME clean
            PROVE  job[c].wkc[Sec] > NoFrame /\ Complete(rxbuf[Sec][i])
            <3>1. In(c, Sec) /\ rxsa[Sec][i] = Prim
                  BY <1>4, RingFacts DEF Crossed, From
            <3>2. Right(Sec, Prim, rxbuf[Sec][i])
                  BY <1>1, <1>2, <2>3, <3>1, WaitFacts
            <3>3. cut = Whole
                  BY <3>2, RingFacts DEF Right
            <3>4. QED
                  BY <3>1, <3>2, <3>3, RingFacts DEF In, Right, Complete
      <2> HIDE DEF clean
      <2>4. QED
            BY <1>1, <1>2, <2>1, <2>2, <2>3, DoneBridges
<1>5. CASE ~Turned(c) /\ ~Crossed(c)
      <2>1. /\ Conclude(c, job[c].wkc[Prim], clean)
            /\ rxbuf' = rxbuf /\ UNCHANGED <<redstate, rxbufstat>>
            BY <1>5 DEF WaitEnds
      <2>2. ASSUME clean
            PROVE  job[c].wkc[Prim] > NoFrame /\ Complete(rxbuf[Prim][i])
            <3>1. cut = Slaves
                  BY <1>1, <1>5, <2>2, WaitFacts
            <3>2. In(c, Prim) /\ Right(Prim, Prim, rxbuf[Prim][i])
                  BY <1>1, <1>2, <2>2, <3>1, WaitFacts
            <3>3. QED
                  BY <3>1, <3>2, RingFacts DEF In, Right, Complete
      <2> HIDE DEF clean
      <2>3. QED
            BY <1>1, <1>2, <2>1, <2>2, DoneBridges
<1>6. QED
      BY <1>3, <1>4, <1>5

\* The answer of what was sent round replaces that of the primary port.
LEMMA RerouteEndsBridges ==
    ASSUME OwnInv, BridgeInv, redstate = "double", NEW c \in Callers, RerouteEnds(c)
    PROVE  Bridges(c)
<1> DEFINE i == job[c].idx
<1>1. job[c].pc = "reroute" /\ Busy(c) /\ Round(c) /\ UNCHANGED <<redstate, rxbufstat>>
      BY DEF RerouteEnds, Busy, Round
<1>2. /\ job[c].wkc[Prim] \in NoFrame..Slaves /\ job[c].wkc[Sec] \in NoFrame..Slaves
      /\ job[c].clean \in BOOLEAN /\ i \in Indices /\ Prim \in Stacks
      BY <1>1, AloneFacts, JobFacts
<1>3. CASE job[c].wkc[Sec] > NoFrame
      <2>1. /\ Conclude(c, job[c].wkc[Sec], job[c].clean)
            /\ rxbuf' = [rxbuf EXCEPT ![Prim][i] = rxbuf[Sec][i]]
            BY <1>3 DEF RerouteEnds
      <2>2. rxbuf'[Prim][i] = rxbuf[Sec][i]
            BY <1>2, <2>1 DEF OwnInv, Typed
      <2>3. job[c].clean => Complete(rxbuf[Sec][i])
            BY <1>1, <1>3, AloneFacts DEF Bridged, In
      <2>4. QED
            BY <1>1, <1>2, <1>3, <2>1, <2>2, <2>3, DoneBridges
<1>4. CASE ~(job[c].wkc[Sec] > NoFrame)
      <2>1. Conclude(c, job[c].wkc[Prim], FALSE)
            BY <1>4 DEF RerouteEnds
      <2>2. QED
            BY <1>1, <1>2, <2>1, DoneBridges
<1>5. QED
      BY <1>3, <1>4

LEMMA ReturnBridges ==
    ASSUME OwnInv, BridgeInv, redstate = "double", NEW c \in Callers, Return(c)
    PROVE  Bridges(c)
<1>1. Busy(c) /\ job[c] \in Jobs /\ rxbufstat' = SetBufStat(rxbufstat, job[c].idx, "EMPTY")
      BY DEF Return, Busy, OwnInv, Typed
<1>2. \A st \in Stacks, b \in Indices : rxbufstat'[st][b] # "RCVD"
      BY <1>1, AloneFacts, StatFacts
<1>3. ~Busy(c)'
      <2>1. PICK wkc, copied : /\ wkc = Result(c)
                               /\ copied = IF Copies(c) THEN rxbuf[Prim][job[c].idx].grams[1] ELSE NoDatagram
            OBVIOUS
      <2>2. PICK j : j = [Idle EXCEPT !.call = job[c].call, !.wkc[Prim] = wkc, !.copied = copied]
            OBVIOUS
      <2>3. j.pc = "idle"
            BY <2>2 DEF Idle
      <2>4. job'[c] = j
            BY <2>1, <2>2 DEF Return, OwnInv, Typed
      <2>5. QED
            BY <2>3, <2>4 DEF Busy
<1>4. QED
      BY <1>2, <1>3 DEF Bridges

LEMMA StoredBridges ==
    ASSUME OwnInv, BridgeInv, redstate = "double", NEW c \in Callers, NEW st \in Stacks,
           InFrameStored(c, st)
    PROVE  FALSE
<1>1. Busy(c) /\ rxbufstat[st][job[c].idx] = "RCVD"
      BY DEF InFrameStored, Waits, Busy
<1>2. QED
      BY <1>1, AloneFacts

LEMMA GetBridges ==
    ASSUME OwnInv, BridgeInv, redstate = "double",
           NEW c \in Callers, NEW com \in Commands, GetIndex(c, com)
    PROVE  BridgeInv'
<1>1. /\ \A d \in Callers : ~Busy(d)
      /\ rxbufstat' = SetBufStat(rxbufstat, NextIndex, "ALLOC")
      BY DEF GetIndex, OneAtATime, Busy
<1>2. NextIndex \in Indices
      BY Search DEF OwnInv, TypeOK
<1>3. \A d \in Callers : Busy(d)' => d = c
      BY <1>1 DEF GetIndex, Busy
<1>4. \A st \in Stacks, b \in Indices : rxbufstat'[st][b] # "RCVD"
      BY <1>1, <1>2, StatFacts DEF BridgeInv
<1>5. Bridged(c)'
      <2>1. /\ Typed' /\ job'[c].pc = "send" /\ job'[c].tries = 0
            /\ Seen(txbuf'[job'[c].idx]) = DOMAIN txbuf'[job'[c].idx].grams
            /\ \A f \in wire' : f.frame.idx # job'[c].idx
            BY GetStep DEF OwnInv
      <2>2. PICK frame : frame = txbuf'[job'[c].idx] /\ frame \in Frames
            BY <2>1, JobFacts DEF Typed
      <2>3. Follows(txbuf'[job'[c].idx])
            BY <2>1, <2>2, FrameFacts DEF Follows
      <2>4. ~Out(c)' /\ ~Round(c)' /\ Mine(c)' = {}
            BY <2>1 DEF Out, Round, Mine
      <2>5. QED
            BY <2>1, <2>3, <2>4 DEF Bridged, Follows, Seen
<1>6. QED
      BY <1>3, <1>4, <1>5 DEF BridgeInv

LEMMA BreakBridges ==
    ASSUME OwnInv, BridgeInv, redstate = "double", NEW k \in 0..Slaves, Break(k)
    PROVE  BridgeInv'
<1>1. ASSUME NEW c \in Callers
      PROVE  job'[c].pc = job[c].pc /\ job'[c].clean = FALSE
      <2>1. PICK j : j = [job[c] EXCEPT !.clean = FALSE]
            OBVIOUS
      <2>2. job[c] \in Jobs /\ job'[c] = j
            BY <2>1 DEF Break, OwnInv, Typed
      <2>3. QED
            BY <2>1, <2>2 DEF Jobs
<1>2. \A c \in Callers : (Busy(c)' <=> Busy(c)) /\ ~job'[c].clean
      BY <1>1 DEF Busy
<1>3. rxbufstat' = rxbufstat
      BY DEF Break
<1>4. QED
      BY <1>2, <1>3 DEF BridgeInv

LEMMA InitBridge == Init => BridgeInv
<1> SUFFICES ASSUME Init
             PROVE  BridgeInv
    OBVIOUS
<1>1. \A c \in Callers : ~Busy(c)
      BY IdleFacts DEF Init, Busy
<1>2. \A st \in Stacks, i \in Indices : rxbufstat[st][i] # "RCVD"
      BY DEF Init
<1>3. QED
      BY <1>1, <1>2 DEF BridgeInv

LEMMA NextBridge == OwnInv /\ BridgeInv /\ [Next]_vars => BridgeInv'
<1> SUFFICES ASSUME OwnInv, BridgeInv, [Next]_vars
             PROVE  BridgeInv'
    OBVIOUS
<1>1. redstate' = redstate
      <2>1. \A c \in Callers : CallerStep(c) => redstate' = redstate
            BY CallersSteady DEF Steady, Moves
      <2>2. \A c \in Callers, com \in Commands : GetIndex(c, com) => redstate' = redstate
            BY DEF GetIndex
      <2>3. \A k \in 0..Slaves : Break(k) => redstate' = redstate
            BY DEF Break
      <2>4. QED
            BY <2>1, <2>2, <2>3 DEF Next, vars
<1>2. CASE redstate # "double"
      BY <1>1, <1>2 DEF BridgeInv
<1>3. CASE redstate = "double" /\ \E c \in Callers : CallerStep(c)
      <2>1. PICK c \in Callers : CallerStep(c)
            BY <1>3
      <2>2. Busy(c) /\ Steady(c)
            BY <2>1, CallersSteady
      <2>3. Bridges(c)
            BY <1>3, <2>1, SendBridges, NothingBridges, ReadBridges, WaitEndsBridges,
               RerouteEndsBridges, ReturnBridges, StoredBridges, MissingBridges DEF CallerStep
      <2>4. QED
            BY <1>3, <2>2, <2>3, BridgesKeeps
<1>4. CASE redstate = "double" /\ \E c \in Callers : \E com \in Commands : GetIndex(c, com)
      BY <1>4, GetBridges
<1>5. CASE redstate = "double" /\ \E k \in 0..Slaves : Break(k)
      BY <1>5, BreakBridges
<1>6. CASE redstate = "double" /\ UNCHANGED vars
      <2>1. /\ \A at, sa, frame : Right(at, sa, frame)' <=> Right(at, sa, frame)
            /\ \A c : /\ (Busy(c)' <=> Busy(c)) /\ (Out(c)' <=> Out(c)) /\ (Round(c)' <=> Round(c))
                      /\ Mine(c)' = Mine(c) /\ \A st : In(c, st)' <=> In(c, st)
            BY <1>6, RightKept DEF vars, Busy, Out, Round, Mine, In
      <2>2. UNCHANGED <<job, txbuf, rxbufstat, rxbuf, rxsa, wire, cut, redstate>>
            BY <1>6 DEF vars
      <2>3. ASSUME NEW c \in Callers, Bridged(c)
            PROVE  Bridged(c)'
            BY <2>1, <2>2, <2>3 DEF Bridged, Follows, Seen, Complete, LastGram
      <2>4. QED
            BY <1>6, <2>1, <2>2, <2>3 DEF BridgeInv
<1>7. QED
      BY <1>2, <1>3, <1>4, <1>5, <1>6 DEF Next

LEMMA BridgeCovers == OwnInv /\ BridgeInv => CutIsBridged
<1> SUFFICES ASSUME OwnInv, BridgeInv, redstate = "double", NEW c \in Callers,
                    job[c].pc = "done", job[c].clean
             PROVE  LET gram == LastGram(rxbuf[Prim][job[c].idx])
                    IN  /\ job[c].wkc[Prim] > NoFrame
                        /\ Targets(gram.com, Addressed, Line) \subseteq gram.visited
    BY DEF CutIsBridged
<1>1. In(c, Prim) /\ Complete(rxbuf[Prim][job[c].idx])
      BY AloneFacts DEF Bridged, Busy
<1>2. Addressed \in Line
      BY Bounds DEF Addressed, Line
<1>3. \A com : Targets(com, Addressed, Line) \subseteq Line
      BY <1>2 DEF Targets
<1>4. QED
      BY <1>1, <1>3 DEF In, Complete

\* When one break of the ring is all that happens, it is made good wherever it is and
\* whichever primitive is used: the second port shows it, what the primary port got back
\* is sent round the other way, and every slave has processed what the caller then reads.
THEOREM CutsAreBridged == Spec => []CutIsBridged
<1>1. Init => OwnInv /\ BridgeInv
      BY InitOwn, InitBridge
<1>2. OwnInv /\ BridgeInv /\ [Next]_vars => (OwnInv /\ BridgeInv)'
      BY NextOwn, NextBridge
<1>3. QED
      BY <1>1, <1>2, BridgeCovers, PTL DEF Spec
=============================================================================
