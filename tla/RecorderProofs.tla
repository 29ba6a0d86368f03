---------------------------- MODULE RecorderProofs ----------------------------
(***************************************************************************)
(* Proofs about Recorder, for any capacity of the queue, any distance of   *)
(* the flushes and any number of records.                                  *)
(*                                                                         *)
(* A record is in one place at a time: in the queue, held back in the      *)
(* ring, in the file or discarded.  The invariant says where (Counted,     *)
(* Found), in which order (QueueIsNewest, RingIsNewer, FileOnce), and what *)
(* the stage of the worker implies (HeldBack, Closed); the properties      *)
(* follow from what it says of the last stages (Closing, Told).            *)
(***************************************************************************)
EXTENDS Recorder, FiniteSetTheorems, SequenceTheorems, TLAPS

Running == worker \in Listening
Closing == worker \in {"returned", "save", "ended"}

\* Records held back or queued.
Waiting == Len(ring) + Len(queue)

\* While the worker runs, the status agrees with where the records are, and it
\* never claims more than was accepted.
Counted ==
  /\ Running => /\ st.written + pending = Len(file)
                /\ st.accepted = Len(file) + st.discarded + Waiting
  /\ st.written <= stored
  /\ st.written + st.discarded <= st.accepted

\* No number was given to a record that is still to come.
Numbered ==
  worker # "none" =>
    /\ \A i \in DOMAIN file : file[i].seq <= Issued
    /\ \A i \in DOMAIN ring : ring[i].seq <= Issued
    /\ \A i \in DOMAIN queue : queue[i].seq <= Issued
    /\ \A n \in gone : n <= Issued

QueueIsNewest ==
  \A j \in DOMAIN queue :
    /\ \A i \in DOMAIN queue : i < j => queue[i].seq < queue[j].seq
    /\ \A i \in DOMAIN ring : ring[i].seq < queue[j].seq
    /\ \A i \in DOMAIN file : file[i].seq < queue[j].seq
    /\ \A n \in gone : n < queue[j].seq

RingIsNewer ==
  \A j \in DOMAIN ring :
    /\ \A i \in DOMAIN ring : i < j => ring[i].seq < ring[j].seq
    /\ \A i \in DOMAIN file : /\ file[i].seq # ring[j].seq
                              /\ file[i].what # "context" => file[i].seq < ring[j].seq
    /\ ring[j].seq \notin gone

FileOnce ==
  \A i \in DOMAIN file :
    /\ \A j \in DOMAIN file : i # j => file[i].seq # file[j].seq
    /\ file[i].seq \notin gone

\* Outside the window nothing is held back but what waits for the fault.
HeldBack ==
  /\ fault = 0 <=> clock = "unset"
  /\ worker = "loop" /\ ring # <<>> => draining \/ (trigger /\ clock = "unset")
  /\ worker = "last" /\ ring # <<>> => clock = "unset"

\* Once the worker no longer looks at the queue, nobody adds to it.
Closed ==
  /\ worker = "sort" \/ (worker = "loop" /\ finishing) => ~st.active
  /\ worker = "loop" /\ finishing => queue = <<>>
  /\ worker = "last" => queue = <<>> /\ ~(open /\ st.active)
  /\ ~Running => queue = <<>>
  /\ open => worker # "none"

\* A record that was accepted is somewhere, unless one was dropped.
Found ==
  Running /\ st.dropped = 0 =>
    \A n \in 1 .. st.accepted :
      \/ n \in gone
      \/ \E i \in DOMAIN file : file[i].seq = n
      \/ \E i \in DOMAIN ring : ring[i].seq = n
      \/ \E i \in DOMAIN queue : queue[i].seq = n

\* A status without an error and without a gap tells the truth of the files.
Faithful(s) ==
  ~s.error /\ s.dropped = 0 =>
    /\ stored = Len(file)
    /\ Readable = (1 .. s.accepted) \ gone

Told ==
  /\ Closing => Faithful(st)
  /\ Closing /\ ~st.error => st.accepted = st.written + st.discarded /\ ring = <<>>
  /\ summary # NoSummary => worker \in {"ended", "none"} /\ Faithful(summary)

Placed == Numbered /\ QueueIsNewest /\ RingIsNewer /\ FileOnce /\ OrderKept

RecorderInv ==
  /\ TypeOK /\ Issued \in Count
  /\ Counted /\ Placed
  /\ HeldBack /\ Closed /\ FaultWindowKept
  /\ Found /\ Told

-----------------------------------------------------------------------------
(* Sequences of records.                                                   *)

LEMMA Elements ==
  ASSUME NEW s \in Seq(Record)
  PROVE  /\ Len(s) \in Nat /\ DOMAIN s = 1 .. Len(s)
         /\ \A i \in 1 .. Len(s) : s[i] \in Record /\ s[i].seq \in 1 .. MaxRecords
         /\ s = <<>> <=> Len(s) = 0
<1>1. Len(s) \in Nat /\ DOMAIN s = 1 .. Len(s) /\ \A i \in 1 .. Len(s) : s[i] \in Record
  OBVIOUS
<1>2. \A r \in Record : r.seq \in 1 .. MaxRecords
  BY DEF Record
<1>3. s = <<>> <=> Len(s) = 0
  BY EmptySeq
<1>4. QED
  BY <1>1, <1>2, <1>3

LEMMA Appended ==
  ASSUME NEW s \in Seq(Record), NEW r \in Record
  PROVE  /\ Append(s, r) \in Seq(Record)
         /\ Len(Append(s, r)) = Len(s) + 1
         /\ DOMAIN Append(s, r) = 1 .. Len(s) + 1
         /\ \A i \in 1 .. Len(s) : Append(s, r)[i] = s[i]
         /\ Append(s, r)[Len(s) + 1] = r
  OBVIOUS

LEMMA Taken ==
  ASSUME NEW s \in Seq(Record), s # <<>>
  PROVE  /\ Len(s) > 0
         /\ Head(s) = s[1] /\ Head(s) \in Record
         /\ Tail(s) \in Seq(Record)
         /\ Len(Tail(s)) = Len(s) - 1
         /\ DOMAIN Tail(s) = 1 .. Len(s) - 1
         /\ \A i \in 1 .. Len(s) - 1 : Tail(s)[i] = s[i + 1]
<1>1. Len(s) \in Nat /\ Len(s) > 0
  BY Elements
<1>2. /\ Head(s) \in Record /\ Tail(s) \in Seq(Record) /\ Len(Tail(s)) = Len(s) - 1
      /\ \A i \in 1 .. Len(Tail(s)) : Tail(s)[i] = s[i + 1]
  BY HeadTailProperties
<1>3. Head(s) = s[1]
  BY <1>1
<1>4. DOMAIN Tail(s) = 1 .. Len(s) - 1
  BY <1>2, LenProperties
<1>5. QED
  BY <1>1, <1>2, <1>3, <1>4

LEMMA Kept ==
  ASSUME NEW s \in Seq(Record), NEW m \in 1 .. Len(s) + 1, NEW n \in m - 1 .. Len(s)
  PROVE  /\ SubSeq(s, m, n) \in Seq(Record)
         /\ Len(SubSeq(s, m, n)) = n - m + 1
         /\ DOMAIN SubSeq(s, m, n) = 1 .. n - m + 1
         /\ \A i \in 1 .. n - m + 1 : SubSeq(s, m, n)[i] = s[m + i - 1]
<1>1. Len(s) \in Nat /\ m \in Int /\ n \in Int /\ \A i \in m .. n : s[i] \in Record
  BY Elements
<1>2. /\ SubSeq(s, m, n) \in Seq(Record)
      /\ Len(SubSeq(s, m, n)) = IF m <= n THEN n - m + 1 ELSE 0
      /\ \A i \in 1 .. n - m + 1 : SubSeq(s, m, n)[i] = s[m + i - 1]
  BY <1>1, SubSeqProperties
<1>3. Len(SubSeq(s, m, n)) = n - m + 1
  BY <1>1, <1>2
<1>4. QED
  BY <1>2, <1>3, LenProperties

-----------------------------------------------------------------------------
(* A record leaves the ring or the queue.                                  *)

\* r was the next to be looked at, and rest is the queue without it.
Removed(r, rest) ==
  /\ r \in Record /\ rest \in Seq(Record) /\ ring' \in Seq(Record)
  /\ Len(ring) + Len(queue) = Len(ring') + Len(rest) + 1
  /\ Len(rest) <= Len(queue)
  /\ r.seq <= Issued /\ r.seq \notin gone
  /\ \A i \in DOMAIN file : /\ file[i].seq # r.seq
                            /\ file[i].what # "context" => file[i].seq < r.seq
  /\ \A j \in DOMAIN rest :
       /\ rest[j].seq <= Issued /\ r.seq < rest[j].seq
       /\ \A i \in DOMAIN rest : i < j => rest[i].seq < rest[j].seq
       /\ \A i \in DOMAIN ring' : ring'[i].seq < rest[j].seq
       /\ \A i \in DOMAIN file : file[i].seq < rest[j].seq
       /\ \A n \in gone : n < rest[j].seq
  /\ \A j \in DOMAIN ring' :
       /\ ring'[j].seq <= Issued /\ r.seq # ring'[j].seq
       /\ \A i \in DOMAIN ring' : i < j => ring'[i].seq < ring'[j].seq
       /\ \A i \in DOMAIN file : /\ file[i].seq # ring'[j].seq
                                 /\ file[i].what # "context" => file[i].seq < ring'[j].seq
       /\ ring'[j].seq \notin gone
  /\ \A i \in DOMAIN ring : ring[i].seq = r.seq \/ \E j \in DOMAIN ring' : ring'[j].seq = ring[i].seq
  /\ \A i \in DOMAIN queue : queue[i].seq = r.seq \/ \E j \in DOMAIN rest : rest[j].seq = queue[i].seq

\* What is still held back may follow it in the file.
Precedes(r) == \A j \in DOMAIN ring' : r.what # "context" => r.seq < ring'[j].seq

LEMMA FromRing ==
  ASSUME RecorderInv, worker # "none", ring # <<>>, ring' = Tail(ring)
  PROVE  Removed(Head(ring), queue) /\ Precedes(Head(ring))
<1>1. ring \in Seq(Record) /\ queue \in Seq(Record) /\ file \in Seq(Record)
  BY DEF RecorderInv, TypeOK
<1>2. /\ Len(ring) \in Nat /\ Len(ring) > 0 /\ DOMAIN ring = 1 .. Len(ring)
      /\ Head(ring) = ring[1] /\ Head(ring) \in Record
      /\ ring' \in Seq(Record) /\ Len(ring') = Len(ring) - 1
      /\ DOMAIN ring' = 1 .. Len(ring) - 1
      /\ \A i \in 1 .. Len(ring) - 1 : ring'[i] = ring[i + 1]
      /\ \A i \in 1 .. Len(ring) : ring[i].seq \in 1 .. MaxRecords
  BY <1>1, Elements, Taken
<1>3. Len(queue) \in Nat
  BY <1>1, Elements
<1>4. \A j \in DOMAIN ring' : j + 1 \in DOMAIN ring /\ ring'[j] = ring[j + 1]
  BY <1>2
<1>5. 1 \in DOMAIN ring
  BY <1>2
<1>6. \A i \in DOMAIN ring : i = 1 \/ (i - 1 \in DOMAIN ring' /\ ring'[i - 1] = ring[i])
  BY <1>2
<1>7. /\ Head(ring).seq <= Issued /\ Head(ring).seq \notin gone
      /\ \A i \in DOMAIN file : /\ file[i].seq # Head(ring).seq
                                /\ file[i].what # "context" => file[i].seq < Head(ring).seq
  BY <1>2, <1>5 DEF RecorderInv, Placed, Numbered, RingIsNewer
<1>8. \A j \in DOMAIN queue :
         /\ queue[j].seq <= Issued /\ Head(ring).seq < queue[j].seq
         /\ \A i \in DOMAIN queue : i < j => queue[i].seq < queue[j].seq
         /\ \A i \in DOMAIN ring' : ring'[i].seq < queue[j].seq
         /\ \A i \in DOMAIN file : file[i].seq < queue[j].seq
         /\ \A n \in gone : n < queue[j].seq
  BY <1>2, <1>4, <1>5 DEF RecorderInv, Placed, Numbered, QueueIsNewest
<1>9. \A j \in DOMAIN ring' :
         /\ ring'[j].seq <= Issued /\ Head(ring).seq < ring'[j].seq
         /\ \A i \in DOMAIN ring' : i < j => ring'[i].seq < ring'[j].seq
         /\ \A i \in DOMAIN file : /\ file[i].seq # ring'[j].seq
                                   /\ file[i].what # "context" => file[i].seq < ring'[j].seq
         /\ ring'[j].seq \notin gone
  <2> SUFFICES ASSUME NEW j \in DOMAIN ring'
               PROVE  /\ ring'[j].seq <= Issued /\ Head(ring).seq < ring'[j].seq
                      /\ \A i \in DOMAIN ring' : i < j => ring'[i].seq < ring'[j].seq
                      /\ \A i \in DOMAIN file : /\ file[i].seq # ring'[j].seq
                                                /\ file[i].what # "context" => file[i].seq < ring'[j].seq
                      /\ ring'[j].seq \notin gone
    OBVIOUS
  <2>1. j + 1 \in DOMAIN ring /\ ring'[j] = ring[j + 1] /\ 1 < j + 1
    BY <1>2
  <2>2. Head(ring).seq < ring'[j].seq
    BY <1>2, <1>5, <2>1 DEF RecorderInv, Placed, RingIsNewer
  <2>3. ASSUME NEW i \in DOMAIN ring', i < j PROVE ring'[i].seq < ring'[j].seq
    <3>1. i + 1 \in DOMAIN ring /\ i + 1 < j + 1 /\ ring'[i] = ring[i + 1]
      BY <1>2, <2>3
    <3>2. QED
      BY <2>1, <3>1 DEF RecorderInv, Placed, RingIsNewer
  <2>4. QED
    BY <2>1, <2>2, <2>3 DEF RecorderInv, Placed, Numbered, RingIsNewer
<1>10. \A j \in DOMAIN ring' : ring'[j].seq \in Nat /\ Head(ring).seq \in Nat
  BY <1>2, <1>4, <1>5
<1>11. \A i \in DOMAIN ring : ring[i].seq = Head(ring).seq
                               \/ \E j \in DOMAIN ring' : ring'[j].seq = ring[i].seq
  BY <1>2, <1>6
<1>12. QED
  BY <1>1, <1>2, <1>3, <1>7, <1>8, <1>9, <1>10, <1>11 DEF Removed, Precedes

LEMMA FromQueue ==
  ASSUME RecorderInv, worker # "none", queue # <<>>, ring' = ring
  PROVE  /\ Removed(Head(queue), Tail(queue))
         /\ (ring # <<>> => Head(queue).what = "context") => Precedes(Head(queue))
<1> DEFINE r == Head(queue)
           rest == Tail(queue)
<1>1. ring \in Seq(Record) /\ queue \in Seq(Record) /\ file \in Seq(Record)
  BY DEF RecorderInv, TypeOK
<1>2. /\ Len(queue) \in Nat /\ Len(queue) > 0 /\ DOMAIN queue = 1 .. Len(queue)
      /\ r = queue[1] /\ r \in Record
      /\ rest \in Seq(Record) /\ Len(rest) = Len(queue) - 1
      /\ DOMAIN rest = 1 .. Len(queue) - 1
      /\ \A i \in 1 .. Len(queue) - 1 : rest[i] = queue[i + 1]
      /\ \A i \in 1 .. Len(queue) : queue[i].seq \in 1 .. MaxRecords
  BY <1>1, Elements, Taken
<1>3. /\ Len(ring) \in Nat /\ (ring # <<>> <=> Len(ring) # 0) /\ DOMAIN ring = 1 .. Len(ring)
      /\ \A i \in DOMAIN ring : ring[i].seq \in 1 .. MaxRecords
      /\ \A i \in DOMAIN file : file[i].seq \in 1 .. MaxRecords
  BY <1>1, Elements
<1>4. 1 \in DOMAIN queue
  BY <1>2
<1>5. \A n \in gone : n \in Nat
  BY DEF RecorderInv, TypeOK
<1>6. /\ r.seq <= Issued /\ r.seq \notin gone
      /\ \A i \in DOMAIN file : file[i].seq # r.seq /\ file[i].seq < r.seq
      /\ \A i \in DOMAIN ring : ring[i].seq # r.seq
  BY <1>2, <1>3, <1>4, <1>5 DEF RecorderInv, Placed, Numbered, QueueIsNewest
<1>7. \A j \in DOMAIN rest :
         /\ rest[j].seq <= Issued /\ r.seq < rest[j].seq
         /\ \A i \in DOMAIN rest : i < j => rest[i].seq < rest[j].seq
         /\ \A i \in DOMAIN ring : ring[i].seq < rest[j].seq
         /\ \A i \in DOMAIN file : file[i].seq < rest[j].seq
         /\ \A n \in gone : n < rest[j].seq
  <2> SUFFICES ASSUME NEW j \in DOMAIN rest
               PROVE  /\ rest[j].seq <= Issued /\ r.seq < rest[j].seq
                      /\ \A i \in DOMAIN rest : i < j => rest[i].seq < rest[j].seq
                      /\ \A i \in DOMAIN ring : ring[i].seq < rest[j].seq
                      /\ \A i \in DOMAIN file : file[i].seq < rest[j].seq
                      /\ \A n \in gone : n < rest[j].seq
    OBVIOUS
  <2> HIDE DEF r, rest
  <2>1. j + 1 \in DOMAIN queue /\ rest[j] = queue[j + 1] /\ 1 < j + 1
    BY <1>2
  <2>2. r.seq < rest[j].seq
    BY <1>2, <1>4, <2>1 DEF RecorderInv, Placed, QueueIsNewest
  <2>3. ASSUME NEW i \in DOMAIN rest, i < j PROVE rest[i].seq < rest[j].seq
    <3>1. i + 1 \in DOMAIN queue /\ i + 1 < j + 1 /\ rest[i] = queue[i + 1]
      BY <1>2, <2>3
    <3>2. QED
      BY <2>1, <3>1 DEF RecorderInv, Placed, QueueIsNewest
  <2>4. QED
    BY <2>1, <2>2, <2>3 DEF RecorderInv, Placed, Numbered, QueueIsNewest
<1>8. \A i \in DOMAIN queue : queue[i].seq = r.seq \/ \E j \in DOMAIN rest : rest[j].seq = queue[i].seq
  <2> HIDE DEF r, rest
  <2>1. \A i \in DOMAIN queue : i = 1 \/ (i - 1 \in DOMAIN rest /\ rest[i - 1] = queue[i])
    BY <1>2
  <2>2. QED
    BY <1>2, <2>1
<1>9. (ring # <<>> => r.what = "context") => \A j \in DOMAIN ring : r.what = "context"
  BY <1>3
<1>10. \A j \in DOMAIN ring :
         /\ ring[j].seq <= Issued
         /\ \A i \in DOMAIN ring : i < j => ring[i].seq < ring[j].seq
         /\ \A i \in DOMAIN file : /\ file[i].seq # ring[j].seq
                                   /\ file[i].what # "context" => file[i].seq < ring[j].seq
         /\ ring[j].seq \notin gone
  BY DEF RecorderInv, Placed, Numbered, RingIsNewer
<1>11. QED
  <2> HIDE DEF r, rest
  <2>1. Removed(r, rest)
    BY <1>1, <1>2, <1>3, <1>6, <1>7, <1>8, <1>10 DEF Removed
  <2>2. (ring # <<>> => r.what = "context") => Precedes(r)
    BY <1>9 DEF Precedes
  <2>3. QED
    BY <2>1, <2>2 DEF r, rest

-----------------------------------------------------------------------------
(* What becomes of it.                                                     *)

\* The part of the invariant that depends on where the records are.
Kinds ==
  /\ st \in Status /\ pending \in 0 .. FlushEvery - 1
  /\ queue \in Seq(Record) /\ Len(queue) <= QueueSize
  /\ ring \in Seq(Record) /\ file \in Seq(Record)
  /\ stored \in 0 .. Len(file) /\ gone \subseteq 1 .. MaxRecords

LEMMA StatusFacts ==
  ASSUME TypeOK
  PROVE  /\ st.accepted \in Count /\ st.dropped \in Count /\ st.written \in Count
         /\ st.discarded \in Count /\ st.unwritten \in Count
         /\ st.active \in BOOLEAN /\ st.armed \in BOOLEAN /\ st.error \in BOOLEAN
         /\ MaxRecords \in Nat /\ QueueSize \in Nat \ {0} /\ FlushEvery \in Nat \ {0}
BY RecorderAssumption DEF TypeOK, Status

LEMMA Numbers ==
  ASSUME TypeOK
  PROVE  /\ \A i \in DOMAIN file : file[i].seq \in Nat
         /\ \A i \in DOMAIN ring : ring[i].seq \in Nat
         /\ \A i \in DOMAIN queue : queue[i].seq \in Nat
         /\ \A n \in gone : n \in Nat
<1>1. \A i \in DOMAIN file : file[i].seq \in Nat
  BY Elements DEF TypeOK
<1>2. \A i \in DOMAIN ring : ring[i].seq \in Nat
  BY Elements DEF TypeOK
<1>3. \A i \in DOMAIN queue : queue[i].seq \in Nat
  BY Elements DEF TypeOK
<1>4. \A n \in gone : n \in Nat
  BY DEF TypeOK
<1>5. QED
  BY <1>1, <1>2, <1>3, <1>4

\* It is discarded.
LEMMA RecordDiscarded ==
  ASSUME RecorderInv, Running, worker' = worker,
         NEW r, NEW rest, Removed(r, rest), Discard(r), queue' = rest,
         UNCHANGED <<file, stored, pending>>
  PROVE  (Kinds /\ Counted /\ Placed /\ Found)' /\ Issued' = Issued
<1>1. /\ st \in Status /\ pending \in 0 .. FlushEvery - 1
      /\ ring \in Seq(Record) /\ queue \in Seq(Record) /\ file \in Seq(Record)
      /\ stored \in 0 .. Len(file) /\ gone \subseteq 1 .. MaxRecords
      /\ Len(queue) <= QueueSize /\ worker # "none"
  BY DEF RecorderInv, TypeOK, Running, Listening
<1>2. /\ Len(ring) \in Nat /\ Len(queue) \in Nat /\ Len(file) \in Nat
      /\ Len(rest) \in Nat /\ Len(ring') \in Nat /\ r.seq \in 1 .. MaxRecords
      /\ Len(ring) + Len(queue) = Len(ring') + Len(rest) + 1 /\ Len(rest) <= Len(queue)
      /\ rest \in Seq(Record) /\ ring' \in Seq(Record)
      /\ QueueSize \in Nat
  BY <1>1, Elements, RecorderAssumption DEF Removed, Record
<1>3. /\ st.accepted \in Count /\ st.dropped \in Count /\ st.written \in Count
      /\ st.discarded \in Count /\ MaxRecords \in Nat
      /\ st.accepted \in Nat /\ st.written \in Nat /\ st.discarded \in Nat
  BY StatusFacts DEF RecorderInv, Count
<1>4. /\ st.accepted = Len(file) + st.discarded + Waiting
      /\ Waiting \in Nat /\ Waiting >= 1 /\ Waiting' = Waiting - 1
  <2>1. st.accepted = Len(file) + st.discarded + Waiting
    BY DEF RecorderInv, Counted
  <2>2. QED
    BY <1>2, <2>1 DEF Waiting
<1>5. st.discarded + 1 \in Count
  <2>1. st.discarded + 1 <= st.accepted
    BY <1>2, <1>3, <1>4
  <2>2. QED
    BY <1>3, <2>1 DEF Count
<1>6. /\ st' \in Status
      /\ st'.accepted = st.accepted /\ st'.dropped = st.dropped
      /\ st'.written = st.written /\ st'.discarded = st.discarded + 1
  BY <1>1, <1>5 DEF Discard, Status
<1>7. gone' = gone \cup {r.seq}
  BY DEF Discard
<1>8. Issued' = Issued
  BY <1>6 DEF Issued
<1>9. Kinds'
  <2>1. gone' \subseteq 1 .. MaxRecords
    BY <1>1, <1>2, <1>7
  <2>2. queue' \in Seq(Record) /\ Len(queue') <= QueueSize
    BY <1>1, <1>2
  <2>3. QED
    BY <1>1, <1>2, <1>6, <2>1, <2>2 DEF Kinds
<1>10. Counted'
  <2>1. st.written + pending = Len(file) /\ st.written <= stored
    BY DEF RecorderInv, Counted
  <2>2. Len(file) \in Nat /\ stored <= Len(file) /\ pending \in Nat /\ stored \in Nat
    BY <1>1, <1>2
  <2>3. st'.accepted = Len(file) + st'.discarded + Waiting'
    BY SMTT(30), <1>2, <1>3, <1>4, <1>6
  <2>4. st'.written + st'.discarded <= st'.accepted
    <3>1. st.written <= Len(file)
      BY <1>3, <2>1, <2>2
    <3>2. st'.written <= Len(file) /\ st'.written \in Nat /\ st'.discarded \in Nat /\ Waiting' \in Nat
      BY <1>3, <1>4, <1>6, <3>1
    <3>3. QED
      BY <2>2, <2>3, <3>2
  <2>5. QED
    BY <1>6, <2>1, <2>3, <2>4 DEF Counted
<1>11. Placed'
  <2>1. Numbered'
    BY <1>1, <1>7, <1>8 DEF RecorderInv, Placed, Numbered, Removed
  <2>2. QueueIsNewest'
    BY <1>7 DEF QueueIsNewest, Removed
  <2>3. RingIsNewer'
    BY <1>7 DEF RingIsNewer, Removed
  <2>4. FileOnce'
    <3>1. \A i \in DOMAIN file : /\ \A j \in DOMAIN file : i # j => file[i].seq # file[j].seq
                                 /\ file[i].seq \notin gone
      BY DEF RecorderInv, Placed, FileOnce
    <3>2. \A i \in DOMAIN file : file[i].seq # r.seq
      BY DEF Removed
    <3>3. QED
      BY <1>7, <3>1, <3>2 DEF FileOnce
  <2>5. OrderKept'
    BY DEF RecorderInv, Placed, OrderKept
  <2>6. QED
    BY <2>1, <2>2, <2>3, <2>4, <2>5 DEF Placed
<1>12. Found'
  <2> SUFFICES ASSUME st.dropped = 0, NEW n \in 1 .. st.accepted
               PROVE  \/ n \in gone'
                      \/ \E i \in DOMAIN file : file[i].seq = n
                      \/ \E i \in DOMAIN ring' : ring'[i].seq = n
                      \/ \E i \in DOMAIN rest : rest[i].seq = n
    BY <1>6 DEF Found
  <2>1. \/ n \in gone
        \/ \E i \in DOMAIN file : file[i].seq = n
        \/ \E i \in DOMAIN ring : ring[i].seq = n
        \/ \E i \in DOMAIN queue : queue[i].seq = n
    BY DEF RecorderInv, Found
  <2>2. QED
    BY <1>7, <2>1 DEF Removed
<1>13. QED
  BY <1>8, <1>9, <1>10, <1>11, <1>12

\* It is added to the file, whatever is flushed with it and whatever becomes of
\* the worker.
LEMMA RecordPlaced ==
  ASSUME RecorderInv, worker # "none",
         NEW r, NEW rest, Removed(r, rest), Precedes(r), file' = Append(file, r),
         queue' = rest \/ queue' = <<>>, gone' = gone, Issued' = Issued
  PROVE  Placed' /\ file' \in Seq(Record) /\ queue' \in Seq(Record) /\ ring' \in Seq(Record)
<1>1. file \in Seq(Record) /\ r \in Record /\ rest \in Seq(Record) /\ ring' \in Seq(Record)
  BY DEF RecorderInv, TypeOK, Removed
<1>2. /\ Len(file) \in Nat /\ DOMAIN file = 1 .. Len(file)
      /\ file' \in Seq(Record)
      /\ DOMAIN file' = 1 .. Len(file) + 1
      /\ \A i \in 1 .. Len(file) : file'[i] = file[i]
      /\ file'[Len(file) + 1] = r
  BY <1>1, Elements, Appended
<1>3. \A i \in DOMAIN file' : (i \in DOMAIN file /\ file'[i] = file[i])
                              \/ (i = Len(file) + 1 /\ file'[i] = r)
  BY <1>2
<1>4. DOMAIN queue' \subseteq DOMAIN rest /\ queue' \in Seq(Record)
      /\ \A j \in DOMAIN queue' : queue'[j] = rest[j]
  <2>1. <<>> \in Seq(Record) /\ DOMAIN <<>> = {}
    OBVIOUS
  <2>2. QED
    BY <1>1, <2>1
<1>5. Numbered'
  BY <1>3, <1>4 DEF RecorderInv, Placed, Numbered, Removed
<1>6. QueueIsNewest'
  BY <1>3, <1>4 DEF QueueIsNewest, Removed
<1>7. RingIsNewer'
  BY <1>3 DEF RingIsNewer, Removed, Precedes
<1>8. FileOnce'
  <2>1. \A i \in DOMAIN file : /\ \A j \in DOMAIN file : i # j => file[i].seq # file[j].seq
                               /\ file[i].seq \notin gone
    BY DEF RecorderInv, Placed, FileOnce
  <2>2. r.seq \notin gone /\ \A i \in DOMAIN file : file[i].seq # r.seq
    BY DEF Removed
  <2>3. QED
    BY <1>3, <2>1, <2>2 DEF FileOnce
<1>9. OrderKept'
  <2> SUFFICES ASSUME NEW i \in DOMAIN file', NEW j \in DOMAIN file', i < j,
                      file'[i].what # "context"
               PROVE  file'[i].seq < file'[j].seq
    BY DEF OrderKept
  <2>1. i \in DOMAIN file /\ file'[i] = file[i]
    BY <1>2
  <2>2. CASE j \in DOMAIN file
    BY <1>2, <2>1, <2>2 DEF RecorderInv, Placed, OrderKept
  <2>3. CASE j = Len(file) + 1
    <3>1. file[i].what # "context" => file[i].seq < r.seq
      BY <2>1 DEF Removed
    <3>2. QED
      BY <1>2, <2>1, <2>3, <3>1
  <2>4. QED
    BY <1>3, <2>2, <2>3
<1>10. QED
  BY <1>1, <1>2, <1>4, <1>5, <1>6, <1>7, <1>8, <1>9 DEF Placed

\* It is saved.
LEMMA RecordSaved ==
  ASSUME RecorderInv, Running,
         NEW r, NEW rest, Removed(r, rest), Precedes(r), Save(r), queue' = rest, UNCHANGED gone
  PROVE  (Kinds /\ Counted /\ Placed /\ Found)' /\ Issued' = Issued
<1>1. /\ st \in Status /\ pending \in 0 .. FlushEvery - 1
      /\ ring \in Seq(Record) /\ queue \in Seq(Record) /\ file \in Seq(Record)
      /\ stored \in 0 .. Len(file) /\ gone \subseteq 1 .. MaxRecords
      /\ Len(queue) <= QueueSize /\ worker # "none" /\ FlushEvery \in Nat \ {0}
      /\ QueueSize \in Nat
  BY RecorderAssumption DEF RecorderInv, TypeOK, Running, Listening
<1>2. /\ Len(ring) \in Nat /\ Len(queue) \in Nat /\ Len(file) \in Nat
      /\ Len(rest) \in Nat /\ Len(ring') \in Nat
      /\ Len(ring) + Len(queue) = Len(ring') + Len(rest) + 1 /\ Len(rest) <= Len(queue)
      /\ r \in Record /\ rest \in Seq(Record) /\ ring' \in Seq(Record)
  BY <1>1, Elements DEF Removed
<1>3. /\ st.accepted \in Count /\ st.written \in Count /\ st.discarded \in Count
      /\ st.accepted \in Nat /\ st.written \in Nat /\ st.discarded \in Nat
      /\ st.dropped \in Nat /\ MaxRecords \in Nat
  BY StatusFacts DEF RecorderInv, Count
<1>4. /\ st.accepted = Len(file) + st.discarded + Waiting
      /\ Waiting \in Nat /\ Waiting >= 1 /\ Waiting' = Waiting - 1
  <2>1. st.accepted = Len(file) + st.discarded + Waiting
    BY DEF RecorderInv, Counted
  <2>2. QED
    BY <1>2, <2>1 DEF Waiting
<1>5. /\ file' = Append(file, r) /\ worker' = worker /\ gone' = gone
      /\ file' \in Seq(Record) /\ Len(file') = Len(file) + 1
      /\ DOMAIN file' = 1 .. Len(file) + 1
      /\ \A i \in 1 .. Len(file) : file'[i] = file[i]
      /\ file'[Len(file) + 1] = r
  BY <1>1, <1>2, Appended DEF Save
<1>6. PICK rotated \in BOOLEAN, flushed \in BOOLEAN :
        LET unflushed == (IF rotated THEN 0 ELSE pending) + 1
            sure == IF flushed THEN Len(file') ELSE IF rotated THEN Len(file) ELSE stored
        IN  /\ unflushed >= FlushEvery => flushed
            /\ pending' = IF flushed THEN 0 ELSE unflushed
            /\ st' = [st EXCEPT !.written = @ + pending + 1 - pending']
            /\ stored' \in sure .. Len(file')
  BY DEF Save
<1>7. st.written + pending = Len(file) /\ st.written <= stored
      /\ stored \in Nat /\ stored <= Len(file) /\ pending \in Nat
  <2>1. st.written + pending = Len(file) /\ st.written <= stored
    BY DEF RecorderInv, Counted
  <2>2. QED
    BY <1>1, <1>2, <2>1
<1>8. PICK left \in Nat : left = pending' /\ left \in 0 .. FlushEvery - 1 /\ left <= pending + 1
  BY <1>1, <1>6
<1> DEFINE lines == Len(file)
<1>n. /\ lines \in Nat /\ st.written \in Nat /\ st.discarded \in Nat /\ st.accepted \in Nat
      /\ MaxRecords \in Nat /\ stored \in Nat /\ pending \in Nat /\ left \in Nat
      /\ st.accepted <= MaxRecords /\ stored <= lines /\ left <= pending + 1
      /\ st.written + pending = lines /\ st.written <= stored
      /\ st.accepted = lines + st.discarded + Waiting
      /\ Waiting \in Nat /\ Waiting >= 1 /\ Waiting' = Waiting - 1
  BY <1>2, <1>3, <1>4, <1>7, <1>8 DEF Count
<1> HIDE DEF lines
<1>9. PICK now \in Count :
        /\ now = st.written + pending + 1 - left
        /\ now \in Nat /\ now + left = lines + 1 /\ now <= lines + 1
  BY <1>n DEF Count
<1>10. /\ st' \in Status /\ st'.accepted = st.accepted /\ st'.dropped = st.dropped
       /\ st'.discarded = st.discarded /\ st'.written = now
  <2>1. st' = [st EXCEPT !.written = now]
    BY <1>6, <1>8, <1>9
  <2>2. QED
    BY <1>1, <1>9, <2>1 DEF Status
<1>11. stored' \in Nat /\ stored' <= lines + 1 /\ now <= stored'
  <2>0. Len(file') = lines + 1 /\ Len(file) = lines
    BY <1>5 DEF lines
  <2>1. CASE flushed
    <3>1. stored' \in lines + 1 .. lines + 1
      BY <1>6, <2>0, <2>1
    <3>2. QED
      BY <1>n, <1>9, <3>1
  <2>2. CASE ~flushed /\ rotated
    <3>1. stored' \in lines .. lines + 1 /\ left = 1
      BY <1>6, <1>8, <2>0, <2>2
    <3>2. QED
      BY <1>n, <1>9, <3>1
  <2>3. CASE ~flushed /\ ~rotated
    <3>1. stored' \in stored .. lines + 1 /\ left = pending + 1
      BY <1>6, <1>8, <2>0, <2>3
    <3>2. QED
      BY <1>n, <1>9, <3>1
  <2>4. QED
    BY <2>1, <2>2, <2>3
<1>12. Issued' = Issued
  BY <1>10 DEF Issued
<1>13. Kinds'
  <2>1. queue' \in Seq(Record) /\ Len(queue') <= QueueSize
    BY <1>1, <1>2
  <2>2. stored' \in 0 .. Len(file')
    BY <1>n, <1>5, <1>11 DEF lines
  <2>3. QED
    BY <1>1, <1>2, <1>5, <1>8, <1>10, <2>1, <2>2 DEF Kinds
<1>14. Counted'
  <2>0. Len(file') = lines + 1
    BY <1>5 DEF lines
  <2>1. st'.written + pending' = lines + 1 /\ st'.written <= stored'
    BY <1>8, <1>9, <1>10, <1>11
  <2>2. st'.accepted = lines + 1 + st'.discarded + Waiting'
    BY <1>n, <1>10
  <2>3. st'.written + st'.discarded <= st'.accepted
    BY <1>n, <1>9, <1>10, <2>2
  <2>4. QED
    BY <2>0, <2>1, <2>2, <2>3 DEF Counted
<1>15. Placed'
  BY <1>1, <1>5, <1>12, RecordPlaced
<1>16. Found'
  <2> SUFFICES ASSUME st.dropped = 0, NEW n \in 1 .. st.accepted
               PROVE  \/ n \in gone
                      \/ \E i \in DOMAIN file' : file'[i].seq = n
                      \/ \E i \in DOMAIN ring' : ring'[i].seq = n
                      \/ \E i \in DOMAIN rest : rest[i].seq = n
    BY <1>5, <1>10 DEF Found
  <2>1. \/ n \in gone
        \/ \E i \in DOMAIN file : file[i].seq = n
        \/ \E i \in DOMAIN ring : ring[i].seq = n
        \/ \E i \in DOMAIN queue : queue[i].seq = n
    BY DEF RecorderInv, Found
  <2>2. ASSUME \E i \in DOMAIN file : file[i].seq = n PROVE \E i \in DOMAIN file' : file'[i].seq = n
    <3>1. PICK i \in DOMAIN file : file[i].seq = n
      BY <2>2
    <3>2. i \in 1 .. Len(file)
      BY <1>1, Elements
    <3>3. i \in DOMAIN file' /\ file'[i] = file[i]
      BY <1>2, <1>5, <3>2
    <3>4. QED
      BY <3>1, <3>3
  <2>3. \E i \in DOMAIN file' : file'[i].seq = r.seq
    <3>1. Len(file) + 1 \in DOMAIN file'
      BY <1>2, <1>5
    <3>2. QED
      BY <1>5, <3>1
  <2>4. CASE \E i \in DOMAIN ring : ring[i].seq = n
    BY <2>3, <2>4 DEF Removed
  <2>5. CASE \E i \in DOMAIN queue : queue[i].seq = n
    BY <2>3, <2>5 DEF Removed
  <2>6. QED
    BY <2>1, <2>2, <2>4, <2>5
<1>17. QED
  BY <1>12, <1>13, <1>14, <1>15, <1>16

\* The worker fails over it, with its line handed over or not.
LEMMA RecordFails ==
  ASSUME RecorderInv, Running,
         NEW r, NEW rest, Removed(r, rest), Precedes(r), SaveFails(r), UNCHANGED gone
  PROVE  (Kinds /\ Counted /\ Placed /\ Found)' /\ Issued' = Issued
<1>1. /\ st \in Status /\ pending \in 0 .. FlushEvery - 1
      /\ ring \in Seq(Record) /\ queue \in Seq(Record) /\ file \in Seq(Record)
      /\ stored \in 0 .. Len(file) /\ gone \subseteq 1 .. MaxRecords
      /\ worker # "none" /\ FlushEvery \in Nat \ {0}
      /\ QueueSize \in Nat
  BY RecorderAssumption DEF RecorderInv, TypeOK, Running, Listening
<1>2. /\ Len(ring) \in Nat /\ Len(queue) \in Nat /\ Len(file) \in Nat
      /\ r \in Record /\ rest \in Seq(Record) /\ ring' \in Seq(Record)
  BY <1>1, Elements DEF Removed
<1>3. /\ st.accepted \in Nat /\ st.written \in Nat /\ st.discarded \in Nat
      /\ st.accepted \in Count /\ st.dropped \in Nat /\ MaxRecords \in Nat
  BY StatusFacts DEF RecorderInv, Count
<1>4. /\ st.accepted = Len(file) + st.discarded + Waiting /\ Waiting \in Nat
      /\ st.written + pending = Len(file) /\ st.written <= stored
  <2>1. /\ st.accepted = Len(file) + st.discarded + Waiting
        /\ st.written + pending = Len(file) /\ st.written <= stored
    BY DEF RecorderInv, Counted
  <2>2. QED
    BY <1>2, <2>1 DEF Waiting
<1>5. /\ worker' = "failed" /\ queue' = <<>> /\ pending' = pending /\ gone' = gone
      /\ file' = file \/ file' = Append(file, r)
  BY DEF SaveFails, Return
<1>6. /\ file' \in Seq(Record) /\ Len(file') \in Nat /\ Len(file) <= Len(file')
  <2>1. CASE file' = file
    BY <1>1, <1>2, <2>1
  <2>2. CASE file' = Append(file, r)
    <3>1. file' \in Seq(Record) /\ Len(file') = Len(file) + 1
      BY <1>1, <1>2, <2>2, Appended
    <3>2. QED
      BY <1>2, <3>1
  <2>3. QED
    BY <1>5, <2>1, <2>2
<1> DEFINE lines == Len(file)
           more == Len(file')
<1>n. /\ lines \in Nat /\ more \in Nat /\ lines <= more
      /\ st.written \in Nat /\ st.discarded \in Nat /\ st.accepted \in Nat /\ MaxRecords \in Nat
      /\ stored \in Nat /\ stored <= lines /\ pending \in Nat /\ st.accepted <= MaxRecords
      /\ st.written + pending = lines /\ st.written <= stored
      /\ st.accepted = lines + st.discarded + Waiting /\ Waiting \in Nat
  BY <1>1, <1>2, <1>3, <1>4, <1>6 DEF Count
<1> HIDE DEF lines, more
<1>7. /\ stored' \in 0 .. more
      /\ \/ st' = st /\ st.written <= stored'
         \/ st' = [st EXCEPT !.written = lines] /\ lines <= stored'
  <2>1. CASE stored' \in stored .. more /\ UNCHANGED st
    BY <1>n, <2>1
  <2>2. CASE stored' \in lines .. more /\ st' = [st EXCEPT !.written = @ + pending]
    <3>1. stored' \in 0 .. more /\ lines <= stored'
      BY <1>n, <2>2
    <3>2. QED
      BY <1>n, <2>2, <3>1
  <2>3. QED
    BY <2>1, <2>2 DEF SaveFails, lines, more
<1>8. lines \in Count /\ lines <= st.accepted
  BY <1>n DEF Count
<1>9. /\ st' \in Status /\ st'.accepted = st.accepted /\ st'.dropped = st.dropped
      /\ st'.discarded = st.discarded /\ st'.written <= stored' /\ st'.written <= lines
      /\ st'.written \in Nat
  <2>1. CASE st' = st /\ st.written <= stored'
    BY <1>n, <1>1, <2>1
  <2>2. CASE st' = [st EXCEPT !.written = lines] /\ lines <= stored'
    <3>1. /\ st' \in Status /\ st'.accepted = st.accepted /\ st'.dropped = st.dropped
          /\ st'.discarded = st.discarded /\ st'.written = lines
      BY <1>1, <1>8, <2>2 DEF Status
    <3>2. QED
      BY <1>n, <2>2, <3>1
  <2>3. QED
    BY <1>7, <2>1, <2>2
<1>10. Issued' = Issued
  BY <1>9 DEF Issued
<1>11. Placed'
  <2>1. CASE file' = Append(file, r)
    BY <1>1, <1>5, <1>10, <2>1, RecordPlaced
  <2>2. CASE file' = file
    <3>1. DOMAIN queue' = {}
      BY <1>5
    <3>2. Numbered' /\ QueueIsNewest'
      BY <1>1, <1>5, <1>10, <2>2, <3>1 DEF RecorderInv, Placed, Numbered, QueueIsNewest, Removed
    <3>3. RingIsNewer'
      BY <1>5, <2>2 DEF RingIsNewer, Removed
    <3>4. FileOnce' /\ OrderKept'
      BY <1>5, <2>2 DEF RecorderInv, Placed, FileOnce, OrderKept
    <3>5. QED
      BY <3>2, <3>3, <3>4 DEF Placed
  <2>3. QED
    BY <1>5, <2>1, <2>2
<1>12. Kinds'
  <2>1. queue' \in Seq(Record) /\ Len(queue') <= QueueSize
    BY <1>1, <1>5
  <2>2. QED
    BY <1>1, <1>2, <1>5, <1>6, <1>7, <1>9, <2>1 DEF Kinds, more
<1>13. ~Running' /\ Found'
  BY <1>5 DEF Running, Listening, Found
<1>14. Counted'
  <2>1. st'.written + st'.discarded <= st'.accepted
    BY <1>n, <1>9
  <2>2. QED
    BY <1>9, <1>13, <2>1 DEF Counted
<1>15. QED
  BY <1>10, <1>11, <1>12, <1>13, <1>14

-----------------------------------------------------------------------------
(* Steps that leave every record where it is.                              *)

LEMMA Unmoved ==
  ASSUME RecorderInv, UNCHANGED <<ring, queue, file, gone, stored, pending>>,
         st'.accepted = st.accepted, st'.dropped = st.dropped,
         st'.written = st.written, st'.discarded = st.discarded,
         worker' # "none" => worker # "none", Running' => Running
  PROVE  (Counted /\ Placed /\ Found)' /\ Issued' = Issued
<1>1. Issued' = Issued
  BY DEF Issued
<1>2. Counted'
  <2>1. Waiting' = Waiting
    BY DEF Waiting
  <2>2. /\ Running => st.written + pending = Len(file)
        /\ Running => st.accepted = Len(file) + st.discarded + Waiting
        /\ st.written <= stored /\ st.written + st.discarded <= st.accepted
    BY DEF RecorderInv, Counted
  <2>3. QED
    BY <2>1, <2>2 DEF Counted
<1>3. Placed'
  <2>1. Numbered'
    BY <1>1 DEF RecorderInv, Placed, Numbered
  <2>2. QueueIsNewest' /\ RingIsNewer'
    BY DEF RecorderInv, Placed, QueueIsNewest, RingIsNewer
  <2>3. FileOnce' /\ OrderKept'
    BY DEF RecorderInv, Placed, FileOnce, OrderKept
  <2>4. QED
    BY <2>1, <2>2, <2>3 DEF Placed
<1>4. Found'
  BY DEF RecorderInv, Found
<1>5. QED
  BY <1>1, <1>2, <1>3, <1>4

\* The commands that do not open a session.
LEMMA Commands ==
  ASSUME RecorderInv, StartBegin \/ StartFails \/ StopBegin \/ StopEnd
  PROVE  RecorderInv'
<1>1. /\ UNCHANGED <<st, queue, worker, trigger, ring, draining, finishing, clock, cutoff, gone,
                     fault, file, stored, pending, summary>>
      /\ transition' \in {"none", "starting", "stopping"} /\ open' \in BOOLEAN
      /\ open' => open
  <2>1. open \in BOOLEAN
    BY DEF RecorderInv, TypeOK
  <2>2. CASE StartBegin
    BY <2>1, <2>2 DEF StartBegin, capture, disk
  <2>3. CASE StartFails
    BY <2>1, <2>3 DEF StartFails, capture, disk
  <2>4. CASE StopBegin
    BY <2>1, <2>4 DEF StopBegin, capture, disk
  <2>5. CASE StopEnd
    BY <2>1, <2>5 DEF StopEnd, capture, disk
  <2>6. QED
    BY <2>2, <2>3, <2>4, <2>5
<1>2. TypeOK'
  BY <1>1 DEF RecorderInv, TypeOK
<1>3. (Counted /\ Placed /\ Found)' /\ Issued' = Issued
  BY <1>1, Unmoved DEF Running
<1>4. HeldBack' /\ Closed' /\ FaultWindowKept'
  BY <1>1 DEF RecorderInv, HeldBack, Closed, FaultWindowKept, Running
<1>5. Told'
  BY <1>1 DEF RecorderInv, Told, Faithful, Readable, Closing
<1>6. QED
  BY <1>1, <1>2, <1>3, <1>4, <1>5 DEF RecorderInv

\* The deadline closes the session; the queue is sorted until it is empty.
LEMMA Deadline ==
  ASSUME RecorderInv, CloseSession \/ SortEnds
  PROVE  RecorderInv'
<1>1. /\ UNCHANGED <<transition, open, queue, trigger, ring, clock, cutoff, gone, fault,
                     file, stored, pending, summary>>
      /\ worker \in {"loop", "sort"} /\ worker' \in {"loop", "sort"}
      /\ st' = [st EXCEPT !.active = FALSE] \/ st' = st
  BY DEF CloseSession, SortEnds, capture, disk
<1>2. /\ st' \in Status /\ st'.accepted = st.accepted /\ st'.dropped = st.dropped
      /\ st'.written = st.written /\ st'.discarded = st.discarded
  BY <1>1 DEF RecorderInv, TypeOK, Status
<1>3. TypeOK'
  BY <1>1, <1>2 DEF CloseSession, SortEnds, RecorderInv, TypeOK, Workers, capture
<1>4. (Counted /\ Placed /\ Found)' /\ Issued' = Issued
  BY <1>1, <1>2, Unmoved DEF Running, Listening
<1>5. HeldBack'
  BY <1>1 DEF CloseSession, SortEnds, RecorderInv, HeldBack, capture
<1>6. ~st'.active
  <2>1. st \in Status
    BY DEF RecorderInv, TypeOK
  <2>2. QED
    BY <2>1 DEF CloseSession, SortEnds, RecorderInv, Closed, Status
<1>7. Closed'
  BY <1>1, <1>6 DEF CloseSession, SortEnds, RecorderInv, Closed, Running, Listening, capture
<1>8. FaultWindowKept'
  BY <1>1 DEF RecorderInv, FaultWindowKept
<1>9. Told'
  BY <1>1 DEF RecorderInv, Told, Closing
<1>10. QED
  BY <1>2, <1>3, <1>4, <1>5, <1>7, <1>8, <1>9 DEF RecorderInv

\* Time.
LEMMA Clock ==
  ASSUME RecorderInv, WindowEnds \/ DeadlineComes
  PROVE  RecorderInv'
<1>1. /\ UNCHANGED <<transition, open, st, queue, worker, trigger, ring, draining, finishing,
                     gone, fault, file, stored, pending, summary>>
      /\ worker = "loop"
      /\ \/ clock = "running" /\ clock' = "past" /\ cutoff' = Issued
         \/ clock = "past" /\ clock' = "due" /\ cutoff' = cutoff
  BY DEF WindowEnds, DeadlineComes, disk
<1>2. TypeOK'
  BY <1>1 DEF RecorderInv, TypeOK, Clocks
<1>3. (Counted /\ Placed /\ Found)' /\ Issued' = Issued
  BY <1>1, Unmoved DEF Running
<1>4. HeldBack' /\ Closed'
  BY <1>1 DEF RecorderInv, HeldBack, Closed, Running
<1>5. FaultWindowKept'
  BY <1>1 DEF RecorderInv, FaultWindowKept
<1>6. Told'
  BY <1>1 DEF RecorderInv, Told, Closing
<1>7. QED
  BY <1>2, <1>3, <1>4, <1>5, <1>6 DEF RecorderInv

\* The worker leaves its loop.
LEMMA Leaving ==
  ASSUME RecorderInv, LoopEnds
  PROVE  RecorderInv'
<1>1. /\ UNCHANGED <<transition, open, st, queue, trigger, ring, draining, finishing, clock,
                     cutoff, gone, fault, file, stored, pending, summary>>
      /\ worker = "loop" /\ worker' = "last"
  BY DEF LoopEnds, capture, disk
<1>2. TypeOK'
  BY <1>1 DEF RecorderInv, TypeOK, Workers
<1>3. (Counted /\ Placed /\ Found)' /\ Issued' = Issued
  BY <1>1, Unmoved DEF Running, Listening
<1>4. /\ queue = <<>> /\ ~(open /\ st.active)
      /\ ring # <<>> => clock = "unset"
  <2>1. CASE Finished
    BY <1>1, <2>1 DEF Finished, RecorderInv, Closed
  <2>2. CASE Looping /\ (draining => ring = <<>>) /\ queue = <<>> /\ ~open
    BY <1>1, <2>2 DEF RecorderInv, HeldBack
  <2>3. QED
    BY <2>1, <2>2 DEF LoopEnds
<1>5. HeldBack' /\ Closed'
  BY <1>1, <1>4 DEF RecorderInv, HeldBack, Closed, Running, Listening
<1>6. FaultWindowKept' /\ Told'
  BY <1>1 DEF RecorderInv, FaultWindowKept, Told, Closing
<1>7. QED
  BY <1>2, <1>3, <1>5, <1>6 DEF RecorderInv

\* The final counts, and the summary.
LEMMA Summing ==
  ASSUME RecorderInv, FinishRecording
  PROVE  RecorderInv'
<1>1. /\ UNCHANGED <<transition, open, queue, trigger, ring, draining, finishing, clock,
                     cutoff, gone, fault, file, stored, pending, summary>>
      /\ worker \in {"returned", "failed"} /\ worker' = "save"
  BY DEF FinishRecording, capture, disk
<1>2. st.accepted - (st.written + st.discarded) \in Count
  <2>1. /\ st.accepted \in Nat /\ st.written \in Nat /\ st.discarded \in Nat
        /\ MaxRecords \in Nat /\ st.accepted <= MaxRecords
    BY StatusFacts DEF RecorderInv, Count
  <2>2. st.written + st.discarded <= st.accepted
    BY DEF RecorderInv, Counted
  <2>3. QED
    BY <2>1, <2>2 DEF Count
<1>3. /\ st' \in Status /\ st'.accepted = st.accepted /\ st'.dropped = st.dropped
      /\ st'.written = st.written /\ st'.discarded = st.discarded
      /\ st'.error = (st.error \/ worker = "failed")
  <2>1. st \in Status
    BY DEF RecorderInv, TypeOK
  <2>2. QED
    BY <1>2, <2>1 DEF FinishRecording, Status
<1>4. TypeOK'
  BY <1>1, <1>3 DEF RecorderInv, TypeOK, Workers
<1>5. (Counted /\ Placed /\ Found)' /\ Issued' = Issued
  BY <1>1, <1>3, Unmoved DEF Running, Listening
<1>6. HeldBack' /\ Closed' /\ FaultWindowKept'
  BY <1>1 DEF RecorderInv, HeldBack, Closed, FaultWindowKept, Running, Listening
<1>7. Told'
  <2>1. ~st'.error => worker = "returned" /\ ~st.error
    BY <1>1, <1>3
  <2>2. worker = "returned" => Faithful(st) /\ (~st.error => st.accepted = st.written + st.discarded /\ ring = <<>>)
    BY DEF RecorderInv, Told, Closing
  <2>3. summary = NoSummary
    BY <1>1 DEF RecorderInv, Told
  <2>4. Faithful(st)'
    BY <1>1, <1>3, <2>1, <2>2 DEF Faithful, Readable
  <2>5. QED
    BY <1>1, <1>3, <2>1, <2>2, <2>3, <2>4 DEF Told
<1>8. QED
  BY <1>3, <1>4, <1>5, <1>6, <1>7 DEF RecorderInv

LEMMA Saving ==
  ASSUME RecorderInv, SaveSummary
  PROVE  RecorderInv'
<1>1. /\ UNCHANGED <<transition, open, queue, trigger, ring, draining, finishing, clock,
                     cutoff, gone, fault, file, stored, pending>>
      /\ worker = "save" /\ worker' = "ended"
      /\ \/ summary' = st /\ st' = st
         \/ st' = [st EXCEPT !.error = TRUE] /\ summary' = summary
  BY DEF SaveSummary, capture, disk
<1>2. /\ st' \in Status /\ st'.accepted = st.accepted /\ st'.dropped = st.dropped
      /\ st'.written = st.written /\ st'.discarded = st.discarded
      /\ ~st'.error => ~st.error
  <2>1. st \in Status
    BY DEF RecorderInv, TypeOK
  <2>2. QED
    BY <1>1, <2>1 DEF Status
<1>3. TypeOK'
  BY <1>1, <1>2 DEF RecorderInv, TypeOK, Workers
<1>4. (Counted /\ Placed /\ Found)' /\ Issued' = Issued
  BY <1>1, <1>2, Unmoved DEF Running, Listening
<1>5. HeldBack' /\ Closed' /\ FaultWindowKept'
  BY <1>1 DEF RecorderInv, HeldBack, Closed, FaultWindowKept, Running, Listening
<1>6. Told'
  <2>1. /\ Faithful(st) /\ summary = NoSummary
        /\ ~st.error => st.accepted = st.written + st.discarded /\ ring = <<>>
    BY <1>1 DEF RecorderInv, Told, Closing
  <2>2. Faithful(st)'
    BY <1>1, <1>2, <2>1 DEF Faithful, Readable
  <2>3. summary' # NoSummary => Faithful(summary)'
    BY <1>1, <2>1, <2>2 DEF Faithful, Readable
  <2>4. QED
    BY <1>1, <1>2, <2>1, <2>2, <2>3 DEF Told
<1>7. QED
  BY <1>2, <1>3, <1>4, <1>5, <1>6 DEF RecorderInv

\* A session begins.
LEMMA Fresh ==
  ASSUME NEW active \in BOOLEAN, NEW armed \in BOOLEAN
  PROVE  LET s == FreshStatus(active, armed)
         IN  /\ s \in Status /\ s.active = active /\ s.armed = armed
             /\ s.accepted = 0 /\ s.dropped = 0 /\ s.written = 0 /\ s.discarded = 0
<1>1. 0 \in Count
  BY RecorderAssumption DEF Count
<1>2. QED
  BY <1>1 DEF FreshStatus, Status

LEMMA Starting ==
  ASSUME RecorderInv, NEW armed \in BOOLEAN, StartRun(armed)
  PROVE  RecorderInv'
<1>1. /\ st' \in Status /\ st'.accepted = 0 /\ st'.dropped = 0
      /\ st'.written = 0 /\ st'.discarded = 0
  BY Fresh DEF StartRun
<1>2. /\ transition' = "none" /\ open' = TRUE /\ queue' = <<>> /\ worker' = "loop"
      /\ trigger' = armed /\ ring' = <<>> /\ draining' = FALSE /\ finishing' = FALSE
      /\ clock' = "unset" /\ cutoff' = 0 /\ gone' = {} /\ fault' = 0
      /\ file' = <<>> /\ stored' = 0 /\ pending' = 0 /\ summary' = NoSummary
  BY DEF StartRun
<1>3. Len(<<>>) = 0 /\ DOMAIN <<>> = {} /\ <<>> \in Seq(Record)
  OBVIOUS
<1>4. QueueSize \in Nat \ {0} /\ FlushEvery \in Nat \ {0} /\ MaxRecords \in Nat
  BY RecorderAssumption
<1>5. TypeOK'
  <2>1. stored' \in 0 .. Len(file') /\ pending' \in 0 .. FlushEvery - 1
    BY <1>2, <1>3, <1>4
  <2>2. Len(queue') <= QueueSize /\ cutoff' \in Count /\ fault' \in Count
    BY <1>2, <1>3, <1>4 DEF Count
  <2>3. queue' \in Seq(Record) /\ ring' \in Seq(Record) /\ file' \in Seq(Record)
    BY <1>2, <1>3
  <2>4. {trigger', draining', finishing'} \subseteq BOOLEAN
    BY <1>2
  <2>5. QED
    BY <1>1, <1>2, <2>1, <2>2, <2>3, <2>4 DEF TypeOK, Workers, Clocks
<1>6. Counted' /\ (Issued \in Count)'
  BY <1>1, <1>2, <1>3, <1>4 DEF Counted, Waiting, Issued, Count
<1>7. Placed'
  BY <1>2, <1>3 DEF Placed, Numbered, QueueIsNewest, RingIsNewer, FileOnce, OrderKept
<1>8. HeldBack' /\ Closed' /\ FaultWindowKept' /\ Told'
  BY <1>2 DEF HeldBack, Closed, FaultWindowKept, Told, Running, Listening, Closing
<1>9. Found'
  BY <1>1 DEF Found
<1>10. QED
  BY <1>5, <1>6, <1>7, <1>8, <1>9 DEF RecorderInv

LEMMA RecorderInit ==
  Init => RecorderInv
<1> SUFFICES ASSUME Init PROVE RecorderInv
  OBVIOUS
<1>1. /\ st \in Status /\ st.accepted = 0 /\ st.dropped = 0
      /\ st.written = 0 /\ st.discarded = 0
  BY Fresh DEF Init
<1>2. Len(<<>>) = 0 /\ DOMAIN <<>> = {} /\ <<>> \in Seq(Record)
  OBVIOUS
<1>3. QueueSize \in Nat \ {0} /\ FlushEvery \in Nat \ {0} /\ MaxRecords \in Nat
  BY RecorderAssumption
<1>4. TypeOK
  <2>1. stored \in 0 .. Len(file) /\ pending \in 0 .. FlushEvery - 1
    BY <1>2, <1>3 DEF Init
  <2>2. Len(queue) <= QueueSize /\ cutoff \in Count /\ fault \in Count
    BY <1>2, <1>3 DEF Init, Count
  <2>3. queue \in Seq(Record) /\ ring \in Seq(Record) /\ file \in Seq(Record)
    BY <1>2 DEF Init
  <2>4. QED
    BY <1>1, <2>1, <2>2, <2>3 DEF TypeOK, Init, Workers, Clocks
<1>5. Counted /\ Issued \in Count
  <2>1. stored = 0 /\ worker = "none"
    BY DEF Init
  <2>2. QED
    BY <1>1, <1>3, <2>1 DEF Counted, Issued, Count, Running, Listening
<1>6. Placed
  BY <1>2 DEF Init, Placed, Numbered, QueueIsNewest, RingIsNewer, FileOnce, OrderKept
<1>7. HeldBack /\ Closed /\ FaultWindowKept /\ Told
  BY DEF Init, HeldBack, Closed, FaultWindowKept, Told, Running, Listening, Closing
<1>8. Found
  BY DEF Init, Found, Running, Listening
<1>9. QED
  BY <1>4, <1>5, <1>6, <1>7, <1>8 DEF RecorderInv

\* The process dies: what the system has of the files stays.
LEMMA Dying ==
  ASSUME RecorderInv, Crash
  PROVE  RecorderInv'
<1>1. /\ st' \in Status /\ st'.accepted = 0 /\ st'.dropped = 0
      /\ st'.written = 0 /\ st'.discarded = 0
  BY Fresh DEF Crash
<1>2. /\ transition' = "none" /\ open' = FALSE /\ queue' = <<>> /\ worker' = "none"
      /\ file' = SubSeq(file, 1, stored) /\ pending' = 0
      /\ UNCHANGED <<trigger, ring, draining, finishing, clock, cutoff, gone, fault,
                     stored, summary>>
      /\ worker # "none"
  BY DEF Crash, capture
<1>3. Len(<<>>) = 0 /\ DOMAIN <<>> = {} /\ <<>> \in Seq(Record)
  OBVIOUS
<1>4. QueueSize \in Nat \ {0} /\ FlushEvery \in Nat \ {0} /\ MaxRecords \in Nat
  BY RecorderAssumption
<1>5. file \in Seq(Record) /\ stored \in 0 .. Len(file) /\ Len(file) \in Nat
      /\ DOMAIN file = 1 .. Len(file)
  BY Elements DEF RecorderInv, TypeOK
<1>6. /\ file' \in Seq(Record) /\ Len(file') = stored /\ DOMAIN file' = 1 .. stored
      /\ 1 .. stored \subseteq DOMAIN file /\ \A i \in 1 .. stored : file'[i] = file[i]
  <2>1. 1 \in 1 .. Len(file) + 1 /\ stored \in 1 - 1 .. Len(file) /\ stored \in Nat
    BY <1>5
  <2>2. /\ SubSeq(file, 1, stored) \in Seq(Record)
        /\ Len(SubSeq(file, 1, stored)) = stored - 1 + 1
        /\ DOMAIN SubSeq(file, 1, stored) = 1 .. stored - 1 + 1
        /\ \A i \in 1 .. stored - 1 + 1 : SubSeq(file, 1, stored)[i] = file[1 + i - 1]
    BY <1>5, <2>1, Kept
  <2>3. stored - 1 + 1 = stored /\ \A i \in 1 .. stored : 1 + i - 1 = i
    BY <2>1
  <2>4. 1 .. stored \subseteq DOMAIN file
    BY <1>5
  <2>5. QED
    BY <1>2, <2>2, <2>3, <2>4
<1>7. TypeOK'
  <2>1. stored' \in 0 .. Len(file') /\ pending' \in 0 .. FlushEvery - 1
    BY <1>2, <1>4, <1>5, <1>6
  <2>2. queue' \in Seq(Record) /\ Len(queue') <= QueueSize
    BY <1>2, <1>3, <1>4
  <2>3. QED
    BY <1>1, <1>2, <1>6, <2>1, <2>2 DEF TypeOK, Workers, RecorderInv
<1>8. Counted' /\ (Issued \in Count)'
  <2>1. stored' >= 0
    BY <1>2, <1>5
  <2>2. QED
    BY <1>1, <1>2, <1>4, <2>1 DEF Counted, Issued, Count, Running, Listening
<1>9. Placed'
  <2>1. Numbered' /\ QueueIsNewest'
    BY <1>2, <1>3 DEF Numbered, QueueIsNewest
  <2>2. RingIsNewer' /\ FileOnce' /\ OrderKept'
    BY <1>2, <1>6 DEF RecorderInv, Placed, RingIsNewer, FileOnce, OrderKept
  <2>3. QED
    BY <2>1, <2>2 DEF Placed
<1>10. HeldBack' /\ Closed' /\ FaultWindowKept'
  BY <1>2 DEF RecorderInv, HeldBack, Closed, FaultWindowKept, Running, Listening
<1>11. Found'
  BY <1>2 DEF Found, Running, Listening
<1>12. Told'
  <2>1. Readable' = Readable
    BY <1>2, <1>6 DEF Readable
  <2>2. summary # NoSummary => Faithful(summary)
    BY DEF RecorderInv, Told
  <2>3. summary' # NoSummary => Faithful(summary)'
    BY <1>2, <1>6, <2>1, <2>2 DEF Faithful
  <2>4. QED
    BY <1>2, <2>3 DEF Told, Closing
<1>13. QED
  BY <1>7, <1>8, <1>9, <1>10, <1>11, <1>12 DEF RecorderInv

-----------------------------------------------------------------------------
(* Steps that move records.                                                *)

\* A record that is not held back leaves the ring or the queue.
LEMMA Delivering ==
  ASSUME RecorderInv, worker = "loop",
         NEW r, NEW rest, Removed(r, rest), Precedes(r), Deliver(r, rest),
         UNCHANGED <<transition, open, trigger, finishing, clock, cutoff, fault, summary>>,
         draining' \in BOOLEAN,
         ring' # <<>> => draining' \/ (trigger /\ clock = "unset"),
         finishing => rest = <<>>
  PROVE  RecorderInv'
<1>1. (Kinds /\ Counted /\ Placed /\ Found)' /\ Issued' = Issued
  <2>1. CASE Late(r) /\ Discard(r) /\ queue' = rest /\ UNCHANGED <<worker, disk>>
    BY <2>1, RecordDiscarded DEF Running, Listening, disk
  <2>2. CASE ~Late(r) /\ Save(r) /\ queue' = rest /\ UNCHANGED gone
    BY <2>2, RecordSaved DEF Running, Listening
  <2>3. CASE ~Late(r) /\ SaveFails(r) /\ UNCHANGED gone
    BY <2>3, RecordFails DEF Running, Listening
  <2>4. QED
    BY <2>1, <2>2, <2>3 DEF Deliver
<1>2. \/ worker' = "loop" /\ queue' = rest
      \/ worker' = "failed" /\ queue' = <<>>
  <2>1. CASE queue' = rest /\ UNCHANGED worker
    BY <2>1
  <2>2. CASE SaveFails(r)
    BY <2>2 DEF SaveFails, Return
  <2>3. QED
    BY <2>1, <2>2 DEF Deliver, Save
<1>3. st \in Status /\ (~st.active => ~st'.active)
  <2>1. st \in Status
    BY DEF RecorderInv, TypeOK
  <2>2. CASE Discard(r)
    BY <2>1, <2>2 DEF Discard, Status
  <2>3. CASE Save(r)
    BY <2>1, <2>3 DEF Save, Status
  <2>4. CASE SaveFails(r)
    BY <2>1, <2>4 DEF SaveFails, Status
  <2>5. QED
    BY <2>1, <2>2, <2>3, <2>4 DEF Deliver
<1>4. TypeOK'
  BY <1>1, <1>2 DEF RecorderInv, TypeOK, Kinds, Workers
<1>5. HeldBack'
  BY <1>2 DEF RecorderInv, HeldBack
<1>6. Closed'
  BY <1>2, <1>3 DEF RecorderInv, Closed, Running, Listening
<1>7. FaultWindowKept'
  <2>1. gone' = gone \/ (gone' = gone \cup {r.seq} /\ clock \in {"past", "due"} /\ r.seq > cutoff)
    BY DEF Deliver, Late, Discard
  <2>2. QED
    BY <2>1 DEF RecorderInv, FaultWindowKept
<1>8. Told'
  BY <1>2 DEF RecorderInv, Told, Closing
<1>9. QED
  BY <1>1, <1>4, <1>5, <1>6, <1>7, <1>8 DEF RecorderInv

LEMMA Draining ==
  ASSUME RecorderInv, DrainRing
  PROVE  RecorderInv'
<1>1. /\ worker = "loop" /\ draining /\ ring # <<>> /\ ring' = Tail(ring)
      /\ Deliver(Head(ring), queue)
      /\ UNCHANGED <<transition, open, trigger, draining, finishing, clock, cutoff, fault, summary>>
  BY DEF DrainRing, Looping
<1>2. Removed(Head(ring), queue) /\ Precedes(Head(ring))
  BY <1>1, FromRing
<1>3. draining' \in BOOLEAN /\ draining'
  BY <1>1 DEF RecorderInv, TypeOK
<1>4. finishing => queue = <<>>
  BY <1>1 DEF RecorderInv, Closed
<1>5. PICK r, rest : r = Head(ring) /\ rest = queue
  OBVIOUS
<1>6. Removed(r, rest) /\ Precedes(r) /\ Deliver(r, rest) /\ (finishing => rest = <<>>)
  BY <1>1, <1>2, <1>4, <1>5
<1>7. QED
  BY <1>1, <1>3, <1>6, Delivering

LEMMA Passing ==
  ASSUME RecorderInv, worker = "loop", queue # <<>>, draining => ring = <<>>,
         ~(trigger /\ clock = "unset" /\ Head(queue).what # "context"),
         Deliver(Head(queue), Tail(queue)), draining' = FALSE,
         UNCHANGED <<transition, open, trigger, ring, finishing, clock, cutoff, fault, summary>>
  PROVE  RecorderInv'
<1>1. ring # <<>> => trigger /\ clock = "unset" /\ Head(queue).what = "context"
  BY DEF RecorderInv, HeldBack
<1>2. Removed(Head(queue), Tail(queue)) /\ Precedes(Head(queue))
  BY <1>1, FromQueue
<1>3. ~finishing
  BY DEF RecorderInv, Closed
<1>4. PICK r, rest : r = Head(queue) /\ rest = Tail(queue)
  OBVIOUS
<1>5. Removed(r, rest) /\ Precedes(r) /\ Deliver(r, rest)
  BY <1>2, <1>4
<1>6. QED
  BY <1>1, <1>3, <1>5, Delivering

\* The head of the queue is held back; the n oldest records make room for it.
Held(n) ==
  /\ n \in 0 .. Len(ring)
  /\ queue # <<>> /\ queue' = Tail(queue)
  /\ gone' = gone \cup {ring[i].seq : i \in 1 .. n}
  /\ st' \in Status /\ st'.accepted = st.accepted /\ st'.dropped = st.dropped
  /\ st'.written = st.written /\ st'.discarded = st.discarded + n
  /\ UNCHANGED <<worker, file, stored, pending>>
  /\ ring' \in Seq(Record)
  /\ Len(ring') = Len(ring) - n + 1
  /\ DOMAIN ring' = 1 .. Len(ring) - n + 1
  /\ \A i \in 1 .. Len(ring) - n : ring'[i] = ring[n + i]
  /\ ring'[Len(ring) - n + 1] = Head(queue)

LEMMA RecordHeld ==
  ASSUME RecorderInv, Running, NEW n, Held(n)
  PROVE  (Kinds /\ Counted /\ Placed /\ Found)' /\ Issued' = Issued
<1> DEFINE r == Head(queue)
           keep == Len(ring) - n
<1>0. /\ gone' = gone \cup {ring[i].seq : i \in 1 .. n}
      /\ UNCHANGED <<worker, file, stored, pending>>
      /\ queue # <<>> /\ queue' = Tail(queue)
  BY DEF Held
<1>s. /\ st' \in Status /\ st'.accepted = st.accepted /\ st'.dropped = st.dropped
      /\ st'.written = st.written /\ st'.discarded = st.discarded + n
  BY DEF Held
<1>1. /\ st \in Status /\ pending \in 0 .. FlushEvery - 1
      /\ ring \in Seq(Record) /\ queue \in Seq(Record) /\ file \in Seq(Record)
      /\ stored \in 0 .. Len(file) /\ gone \subseteq 1 .. MaxRecords
      /\ Len(queue) <= QueueSize /\ worker # "none"
  BY DEF RecorderInv, TypeOK, Running, Listening
<1>2. /\ Len(ring) \in Nat /\ DOMAIN ring = 1 .. Len(ring)
      /\ \A i \in DOMAIN ring : ring[i].seq \in 1 .. MaxRecords
      /\ Len(queue) \in Nat /\ Len(queue) > 0 /\ DOMAIN queue = 1 .. Len(queue)
      /\ r = queue[1] /\ r \in Record
      /\ queue' \in Seq(Record) /\ Len(queue') = Len(queue) - 1
      /\ DOMAIN queue' = 1 .. Len(queue) - 1
      /\ \A i \in 1 .. Len(queue) - 1 : queue'[i] = queue[i + 1]
      /\ \A i \in 1 .. Len(queue) : queue[i].seq \in 1 .. MaxRecords
      /\ QueueSize \in Nat /\ n \in Nat /\ n <= Len(ring)
  <2>1. n \in 0 .. Len(ring)
    BY DEF Held
  <2>2. QED
    BY <1>0, <1>1, <2>1, Elements, Taken, RecorderAssumption
<1>3. /\ keep \in Nat /\ Len(ring') = keep + 1 /\ DOMAIN ring' = 1 .. keep + 1
      /\ ring' \in Seq(Record)
      /\ \A i \in 1 .. keep : ring'[i] = ring[n + i] /\ n + i \in DOMAIN ring
      /\ ring'[keep + 1] = r
  BY <1>2 DEF Held
<1>4. 1 \in DOMAIN queue
  BY <1>2
<1> HIDE DEF r, keep
<1>5. \A j \in DOMAIN queue' : j + 1 \in DOMAIN queue /\ 1 < j + 1 /\ queue'[j] = queue[j + 1]
  BY <1>2
<1>6. \A i \in DOMAIN ring' : \/ i = keep + 1 /\ ring'[i] = r
                              \/ i \in 1 .. keep /\ n + i \in DOMAIN ring /\ ring'[i] = ring[n + i]
  BY <1>3
<1>7. /\ \A i \in DOMAIN ring : ring[i].seq < r.seq
      /\ \A i \in DOMAIN file : file[i].seq < r.seq
      /\ \A m \in gone : m < r.seq
      /\ \A j \in DOMAIN queue' : r.seq < queue'[j].seq
      /\ r.seq <= Issued
  <2>1. /\ \A i \in DOMAIN ring : ring[i].seq < queue[1].seq
        /\ \A i \in DOMAIN file : file[i].seq < queue[1].seq
        /\ \A m \in gone : m < queue[1].seq
    BY <1>4 DEF RecorderInv, Placed, QueueIsNewest
  <2>2. queue[1].seq <= Issued
    BY <1>1, <1>4 DEF RecorderInv, Placed, Numbered
  <2>3. \A j \in DOMAIN queue : 1 < j => queue[1].seq < queue[j].seq
    BY <1>4 DEF RecorderInv, Placed, QueueIsNewest
  <2>4. \A j \in DOMAIN queue' : queue[1].seq < queue'[j].seq
    BY <1>5, <2>3
  <2>5. QED
    BY <1>2, <2>1, <2>2, <2>4
<1>8. \A i \in DOMAIN ring : \/ i \in 1 .. n
                             \/ i - n \in DOMAIN ring' /\ ring'[i - n] = ring[i]
  <2>1. keep = Len(ring) - n
    BY DEF keep
  <2>2. \A i \in DOMAIN ring : i \in 1 .. n \/ (i - n \in 1 .. keep /\ n + (i - n) = i)
    BY <1>2, <2>1
  <2>3. \A i \in 1 .. keep : i \in DOMAIN ring'
    BY <1>3
  <2>4. QED
    BY <1>3, <2>2, <2>3
<1>9. Issued' = Issued
  BY <1>s DEF Issued
<1>10. 1 .. n \subseteq DOMAIN ring
  BY <1>2
<1>11. Kinds'
  <2>1. gone' \subseteq 1 .. MaxRecords
    BY <1>0, <1>1, <1>2, <1>10
  <2>2. Len(queue') <= QueueSize
    BY <1>1, <1>2
  <2>3. QED
    BY <1>0, <1>1, <1>2, <1>3, <1>s, <2>1, <2>2 DEF Kinds
<1>12. Counted'
  <2>1. /\ st.written + pending = Len(file) /\ st.accepted = Len(file) + st.discarded + Waiting
        /\ st.written <= stored /\ st.written + st.discarded <= st.accepted
    BY DEF RecorderInv, Counted
  <2>2. /\ st.written \in Nat /\ st.discarded \in Nat /\ st.accepted \in Nat
        /\ FlushEvery \in Nat
    BY StatusFacts DEF RecorderInv, Count
  <2> DEFINE lines == Len(file)
  <2>0. lines \in Nat
    BY <1>1, Elements
  <2>n. pending \in Nat /\ n \in Nat
    BY <1>1, <1>2, <2>2
  <2>3. Waiting \in Nat /\ Waiting' \in Nat /\ Waiting = Waiting' + n
    <3>1. keep = Len(ring) - n
      BY DEF keep
    <3>2. QED
      BY <1>2, <1>3, <3>1 DEF Waiting
  <2>4. /\ st.written + pending = lines /\ st.accepted = lines + st.discarded + Waiting
    BY <2>1
  <2> HIDE DEF lines
  <2>5. PICK waits \in Nat : waits = Waiting'
    BY <2>3
  <2>6. Waiting = waits + n
    BY <2>3, <2>5
  <2>7. /\ st.accepted = lines + (st.discarded + n) + waits
        /\ st.written + (st.discarded + n) <= st.accepted
    BY <2>0, <2>2, <2>4, <2>6, <2>n
  <2>8. QED
    BY <1>0, <1>s, <2>1, <2>5, <2>7 DEF Counted, lines, Running
<1>13. Placed'
  <2>1. Numbered'
    <3>1. \A m \in gone' : m <= Issued
      BY <1>0, <1>1, <1>2, <1>10 DEF RecorderInv, Placed, Numbered
    <3>2. QED
      BY <1>0, <1>1, <1>5, <1>6, <1>7, <1>9, <3>1 DEF RecorderInv, Placed, Numbered
  <2>2. QueueIsNewest'
    <3> SUFFICES ASSUME NEW j \in DOMAIN queue'
                 PROVE  /\ \A i \in DOMAIN queue' : i < j => queue'[i].seq < queue'[j].seq
                        /\ \A i \in DOMAIN ring' : ring'[i].seq < queue'[j].seq
                        /\ \A i \in DOMAIN file : file[i].seq < queue'[j].seq
                        /\ \A m \in gone' : m < queue'[j].seq
      BY <1>0 DEF QueueIsNewest
    <3>1. j + 1 \in DOMAIN queue /\ queue'[j] = queue[j + 1]
      BY <1>5
    <3>2. /\ \A i \in DOMAIN queue : i < j + 1 => queue[i].seq < queue'[j].seq
          /\ \A i \in DOMAIN ring : ring[i].seq < queue'[j].seq
          /\ \A i \in DOMAIN file : file[i].seq < queue'[j].seq
          /\ \A m \in gone : m < queue'[j].seq
      BY <3>1 DEF RecorderInv, Placed, QueueIsNewest
    <3>3. \A i \in DOMAIN queue' : i < j => queue'[i].seq < queue'[j].seq
      <4>1. \A i \in DOMAIN queue' : i < j => i + 1 < j + 1
        BY <1>2
      <4>2. QED
        BY <1>5, <3>2, <4>1
    <3>4. \A i \in DOMAIN ring' : ring'[i].seq < queue'[j].seq
      BY <1>6, <1>7, <3>2
    <3>5. \A m \in gone' : m < queue'[j].seq
      BY <1>0, <1>10, <3>2
    <3>6. QED
      BY <3>2, <3>3, <3>4, <3>5
  <2>3. RingIsNewer'
    <3> SUFFICES ASSUME NEW j \in DOMAIN ring'
                 PROVE  /\ \A i \in DOMAIN ring' : i < j => ring'[i].seq < ring'[j].seq
                        /\ \A i \in DOMAIN file : /\ file[i].seq # ring'[j].seq
                                                  /\ file[i].what # "context" => file[i].seq < ring'[j].seq
                        /\ ring'[j].seq \notin gone'
      BY <1>0 DEF RingIsNewer
    <3>1. CASE j = keep + 1 /\ ring'[j] = r
      <4>1. \A i \in DOMAIN ring' : i < j => ring'[i].seq < r.seq
        <5>1. \A i \in DOMAIN ring' : i < j => i # keep + 1
          BY <1>3, <3>1
        <5>2. QED
          BY <1>6, <1>7, <5>1
      <4>2. /\ r.seq \in Nat /\ \A i \in DOMAIN file : file[i].seq \in Nat
            /\ \A m \in gone : m \in Nat
        <5>1. r.seq \in Nat
          BY <1>2, <1>4
        <5>2. \A i \in DOMAIN file : file[i].seq \in Nat
          BY <1>1, Elements
        <5>3. \A m \in gone : m \in Nat
          BY <1>1
        <5>4. QED
          BY <5>1, <5>2, <5>3
      <4>3. \A i \in DOMAIN file : file[i].seq # r.seq /\ file[i].seq < r.seq
        BY <1>7, <4>2
      <4>4. r.seq \notin gone'
        BY <1>0, <1>2, <1>7, <1>10, <4>2
      <4>5. QED
        BY <3>1, <4>1, <4>3, <4>4
    <3>2. CASE j \in 1 .. keep /\ n + j \in DOMAIN ring /\ ring'[j] = ring[n + j]
      <4>1. /\ \A i \in DOMAIN ring : i < n + j => ring[i].seq < ring'[j].seq
            /\ \A i \in DOMAIN file : /\ file[i].seq # ring'[j].seq
                                      /\ file[i].what # "context" => file[i].seq < ring'[j].seq
            /\ ring'[j].seq \notin gone
        BY <3>2 DEF RecorderInv, Placed, RingIsNewer
      <4>2. \A i \in DOMAIN ring' : i < j => i \in 1 .. keep /\ n + i < n + j
        <5>1. ASSUME NEW i \in DOMAIN ring', i < j
              PROVE  i \in 1 .. keep
          BY <1>2, <1>3, <3>2, <5>1
        <5>2. \A i \in 1 .. keep : i < j => n + i < n + j
          BY <1>2, <3>2
        <5>3. QED
          BY <5>1, <5>2
      <4>3. \A i \in DOMAIN ring' : i < j => ring'[i].seq < ring'[j].seq
        BY <1>3, <4>1, <4>2
      <4>4. \A i \in 1 .. n : i \in DOMAIN ring /\ i < n + j
        BY <1>2, <1>10, <3>2
      <4>5. \A i \in 1 .. n : ring[i].seq # ring'[j].seq
        <5>1. \A i \in 1 .. n : ring[i].seq \in Nat /\ ring[i].seq < ring'[j].seq
          BY <1>2, <4>1, <4>4
        <5>2. QED
          BY <5>1
      <4>6. QED
        BY <1>0, <4>1, <4>3, <4>5
    <3>3. QED
      BY <1>6, <3>1, <3>2
  <2>4. FileOnce'
    <3>1. \A i \in DOMAIN file : /\ \A j \in DOMAIN file : i # j => file[i].seq # file[j].seq
                                 /\ file[i].seq \notin gone
      BY DEF RecorderInv, Placed, FileOnce
    <3>2. \A i \in DOMAIN file : \A j \in DOMAIN ring : file[i].seq # ring[j].seq
      BY DEF RecorderInv, Placed, RingIsNewer
    <3>3. QED
      BY <1>0, <1>10, <3>1, <3>2 DEF FileOnce
  <2>5. OrderKept'
    BY <1>0 DEF RecorderInv, Placed, OrderKept
  <2>6. QED
    BY <2>1, <2>2, <2>3, <2>4, <2>5 DEF Placed
<1>14. Found'
  <2> SUFFICES ASSUME st.dropped = 0, NEW m \in 1 .. st.accepted
               PROVE  \/ m \in gone'
                      \/ \E i \in DOMAIN file : file[i].seq = m
                      \/ \E i \in DOMAIN ring' : ring'[i].seq = m
                      \/ \E i \in DOMAIN queue' : queue'[i].seq = m
    BY <1>0, <1>s DEF Found
  <2>1. \/ m \in gone
        \/ \E i \in DOMAIN file : file[i].seq = m
        \/ \E i \in DOMAIN ring : ring[i].seq = m
        \/ \E i \in DOMAIN queue : queue[i].seq = m
    BY DEF RecorderInv, Found
  <2>2. CASE \E i \in DOMAIN ring : ring[i].seq = m
    BY <1>0, <1>8, <2>2
  <2>3. CASE \E i \in DOMAIN queue : queue[i].seq = m
    <3>1. PICK i \in DOMAIN queue : queue[i].seq = m
      BY <2>3
    <3>2. i = 1 \/ (i - 1 \in DOMAIN queue' /\ queue'[i - 1] = queue[i])
      BY <1>2
    <3>3. keep + 1 \in DOMAIN ring'
      BY <1>3
    <3>4. QED
      BY <1>2, <1>3, <3>1, <3>2, <3>3
  <2>4. QED
    BY <1>0, <2>1, <2>2, <2>3
<1>15. QED
  BY <1>9, <1>11, <1>12, <1>13, <1>14

\* Armed: records are held back until a fault.
LEMMA Watching ==
  ASSUME RecorderInv, worker = "loop", queue # <<>>, trigger, clock = "unset",
         Watch(Head(queue)), UNCHANGED <<transition, open, trigger, finishing, summary>>
  PROVE  RecorderInv'
<1>1. PICK n \in 0 .. Len(ring) :
        /\ ring' = Append(SubSeq(ring, n + 1, Len(ring)), Head(queue))
        /\ gone' = gone \cup {ring[i].seq : i \in 1 .. n}
        /\ st' = [st EXCEPT !.discarded = @ + n,
                            !.armed = @ /\ Head(queue).what # "fault"]
  BY DEF Watch
<1>2. /\ queue' = Tail(queue) /\ UNCHANGED <<worker, file, stored, pending>>
      /\ \/ /\ fault' = Head(queue).seq /\ draining' = TRUE
            /\ \/ clock' = "running" /\ cutoff' = cutoff
               \/ clock' = "past" /\ cutoff' \in Head(queue).seq .. Issued
         \/ draining' = FALSE /\ UNCHANGED <<fault, clock, cutoff>>
  BY DEF Watch, disk
<1>3. ring \in Seq(Record) /\ queue \in Seq(Record) /\ st \in Status
  BY DEF RecorderInv, TypeOK
<1>4. Held(n)
  <2>1. Len(ring) \in Nat /\ n \in Nat /\ n <= Len(ring) /\ Head(queue) \in Record
    BY <1>3, Elements, Taken
  <2>2. n + 1 \in 1 .. Len(ring) + 1 /\ Len(ring) \in n + 1 - 1 .. Len(ring)
    BY <2>1
  <2>3. PICK rest : rest = SubSeq(ring, n + 1, Len(ring))
    OBVIOUS
  <2>4. /\ rest \in Seq(Record) /\ Len(rest) = Len(ring) - (n + 1) + 1
        /\ \A i \in 1 .. Len(ring) - (n + 1) + 1 : rest[i] = ring[n + 1 + i - 1]
    BY <1>3, <2>2, <2>3, Kept
  <2>5. Len(rest) = Len(ring) - n /\ \A i \in 1 .. Len(ring) - n : rest[i] = ring[n + i]
    BY <2>1, <2>4
  <2>6. PICK r \in Record : r = Head(queue)
    BY <2>1
  <2>7. /\ Append(rest, r) \in Seq(Record)
        /\ Len(Append(rest, r)) = Len(rest) + 1
        /\ DOMAIN Append(rest, r) = 1 .. Len(rest) + 1
        /\ \A i \in 1 .. Len(rest) : Append(rest, r)[i] = rest[i]
        /\ Append(rest, r)[Len(rest) + 1] = r
    BY <2>4, Appended
  <2>8. /\ ring' \in Seq(Record)
        /\ Len(ring') = Len(ring) - n + 1
        /\ DOMAIN ring' = 1 .. Len(ring) - n + 1
        /\ \A i \in 1 .. Len(ring) - n : ring'[i] = ring[n + i]
        /\ ring'[Len(ring) - n + 1] = Head(queue)
    BY <1>1, <2>3, <2>5, <2>6, <2>7
  <2>9. st.discarded + n \in Count
    <3>1. /\ st.accepted = Len(file) + st.discarded + Waiting
      BY DEF RecorderInv, Counted, Running, Listening
    <3>2. /\ st.accepted \in Nat /\ st.discarded \in Nat /\ st.accepted <= MaxRecords
          /\ MaxRecords \in Nat /\ Len(file) \in Nat /\ Len(queue) \in Nat
      BY SMTT(30), <1>3, Elements, StatusFacts DEF RecorderInv, TypeOK, Count
    <3>3. Waiting \in Nat /\ n <= Waiting
      BY <2>1, <3>2 DEF Waiting
    <3>4. st.discarded + n <= MaxRecords
      BY <2>1, <3>1, <3>2, <3>3
    <3>5. QED
      BY <2>1, <3>2, <3>4 DEF Count
  <2>10. /\ st' \in Status /\ st'.accepted = st.accepted /\ st'.dropped = st.dropped
         /\ st'.written = st.written /\ st'.discarded = st.discarded + n
    BY <1>1, <1>3, <2>9 DEF Status
  <2>11. QED
    BY <1>1, <1>2, <2>8, <2>10 DEF Held
<1>5. (Kinds /\ Counted /\ Placed /\ Found)' /\ Issued' = Issued
  BY <1>4, RecordHeld DEF Running, Listening
<1>6. /\ Head(queue).seq \in 1 .. MaxRecords /\ Head(queue).seq <= Issued
      /\ \A m \in gone' : m < Head(queue).seq
      /\ Head(queue).seq \in Nat /\ MaxRecords \in Nat
  <2>1. /\ Len(queue) \in Nat /\ Len(queue) > 0 /\ DOMAIN queue = 1 .. Len(queue)
        /\ Head(queue) = queue[1] /\ queue[1].seq \in 1 .. MaxRecords
    BY <1>3, Elements, Taken
  <2>2. 1 \in DOMAIN queue
    BY <2>1
  <2>3. /\ \A i \in DOMAIN ring : ring[i].seq < queue[1].seq
        /\ \A m \in gone : m < queue[1].seq
    BY <2>2 DEF RecorderInv, Placed, QueueIsNewest
  <2>4. 1 .. n \subseteq DOMAIN ring
    BY <1>3, Elements
  <2>5. queue[1].seq <= Issued
    BY <2>2 DEF RecorderInv, Placed, Numbered
  <2>6. QED
    BY SMTT(30), <1>1, <2>1, <2>3, <2>4, <2>5, StatusFacts DEF RecorderInv
<1>7. Issued \in Count /\ MaxRecords \in Nat
  BY <1>6 DEF RecorderInv
<1>8. TypeOK'
  <2>1. fault' \in Count /\ cutoff' \in Count
    <3>1. fault \in Count /\ cutoff \in Count
      BY DEF RecorderInv, TypeOK
    <3>2. QED
      BY <1>2, <1>6, <1>7, <3>1 DEF Count
  <2>2. clock' \in Clocks /\ draining' \in BOOLEAN
    BY <1>2 DEF Clocks
  <2>3. QED
    BY <1>2, <1>5, <2>1, <2>2 DEF RecorderInv, TypeOK, Kinds
<1>9. fault = 0 /\ ~finishing
  BY DEF RecorderInv, HeldBack, Closed
<1>10. HeldBack'
  BY <1>2, <1>6, <1>9 DEF HeldBack
<1>11. Closed'
  BY <1>2, <1>9 DEF Closed, Running, Listening
<1>12. FaultWindowKept'
  BY <1>2, <1>6, <1>9 DEF FaultWindowKept
<1>13. Told'
  BY <1>2 DEF RecorderInv, Told, Closing
<1>14. QED
  BY <1>5, <1>7, <1>8, <1>10, <1>11, <1>12, <1>13 DEF RecorderInv

LEMMA Receiving ==
  ASSUME RecorderInv, Receive
  PROVE  RecorderInv'
<1>1. /\ worker = "loop" /\ (draining => ring = <<>>) /\ queue # <<>>
      /\ UNCHANGED <<transition, open, trigger, finishing, summary>>
  BY DEF Receive, Looping
<1>2. CASE trigger /\ clock = "unset" /\ Head(queue).what # "context"
  <2>1. Watch(Head(queue))
    BY <1>2 DEF Receive
  <2>2. QED
    BY <1>1, <1>2, <2>1, Watching
<1>3. CASE ~(trigger /\ clock = "unset" /\ Head(queue).what # "context")
  <2>1. /\ Deliver(Head(queue), Tail(queue)) /\ draining' = FALSE
        /\ UNCHANGED <<ring, clock, cutoff, fault>>
    BY <1>3 DEF Receive
  <2>2. QED
    BY <1>1, <1>3, <2>1, Passing
<1>4. QED
  BY <1>2, <1>3

\* The deadline: what is queued is held back, or discarded.
LEMMA Sorting ==
  ASSUME RecorderInv, SortQueue
  PROVE  RecorderInv'
<1>1. /\ worker = "sort" /\ queue # <<>> /\ queue' = Tail(queue)
      /\ UNCHANGED <<transition, open, worker, trigger, draining, finishing, clock, cutoff,
                     fault, file, stored, pending, summary>>
      /\ \/ Late(Head(queue)) /\ Discard(Head(queue)) /\ ring' = ring
         \/ ring' = Append(ring, Head(queue)) /\ st' = st /\ gone' = gone
  BY DEF SortQueue, disk
<1>2. ring \in Seq(Record) /\ queue \in Seq(Record) /\ st \in Status
  BY DEF RecorderInv, TypeOK
<1>3. ASSUME Late(Head(queue)) /\ Discard(Head(queue)) /\ ring' = ring
        PROVE  /\ (Kinds /\ Counted /\ Placed /\ Found)' /\ Issued' = Issued
               /\ FaultWindowKept' /\ ~st'.active
  <2>1. Removed(Head(queue), Tail(queue))
    BY <1>1, <1>3, FromQueue
  <2>2. PICK r, rest : r = Head(queue) /\ rest = Tail(queue)
    OBVIOUS
  <2>3. Removed(r, rest) /\ Discard(r) /\ queue' = rest
    BY <1>1, <1>3, <2>1, <2>2
  <2>4. (Kinds /\ Counted /\ Placed /\ Found)' /\ Issued' = Issued
    BY <1>1, <2>3, RecordDiscarded DEF Running, Listening
  <2>5. FaultWindowKept'
    <3>1. gone' = gone \cup {r.seq} /\ clock \in {"past", "due"} /\ r.seq > cutoff
      BY <1>3, <2>2 DEF Late, Discard
    <3>2. QED
      BY <1>1, <3>1 DEF RecorderInv, FaultWindowKept
  <2>6. ~st'.active
    <3>1. ~st.active
      BY <1>1 DEF RecorderInv, Closed
    <3>2. QED
      BY <1>2, <1>3, <3>1 DEF Discard, Status
  <2>7. QED
    BY <2>4, <2>5, <2>6
<1>4. ASSUME ring' = Append(ring, Head(queue)) /\ st' = st /\ gone' = gone
        PROVE  /\ (Kinds /\ Counted /\ Placed /\ Found)' /\ Issued' = Issued
               /\ FaultWindowKept' /\ ~st'.active
  <2>1. Len(ring) \in Nat /\ Head(queue) \in Record
    BY <1>1, <1>2, Elements, Taken
  <2>2. PICK r \in Record : r = Head(queue)
    BY <2>1
  <2>3. /\ ring' \in Seq(Record) /\ Len(ring') = Len(ring) + 1
        /\ DOMAIN ring' = 1 .. Len(ring) + 1
        /\ \A i \in 1 .. Len(ring) : ring'[i] = ring[i]
        /\ ring'[Len(ring) + 1] = r
    BY <1>2, <1>4, <2>2, Appended
  <2>4. {ring[i].seq : i \in 1 .. 0} = {} /\ st.discarded + 0 = st.discarded
    BY StatusFacts DEF RecorderInv, Count
  <2>5. /\ Len(ring) - 0 = Len(ring)
        /\ \A i \in 1 .. Len(ring) : 0 + i = i
    BY <2>1
  <2>6. Held(0)
    BY <1>1, <1>2, <1>4, <2>1, <2>2, <2>3, <2>4, <2>5 DEF Held
  <2>7. (Kinds /\ Counted /\ Placed /\ Found)' /\ Issued' = Issued
    BY <1>1, <2>6, RecordHeld DEF Running, Listening
  <2>8. FaultWindowKept' /\ ~st'.active
    BY <1>1, <1>4 DEF RecorderInv, FaultWindowKept, Closed
  <2>9. QED
    BY <2>7, <2>8
<1>5. /\ (Kinds /\ Counted /\ Placed /\ Found)' /\ Issued' = Issued
      /\ FaultWindowKept' /\ ~st'.active
  BY <1>1, <1>3, <1>4
<1>6. TypeOK'
  BY <1>1, <1>5 DEF RecorderInv, TypeOK, Kinds
<1>7. HeldBack' /\ Closed'
  BY <1>1, <1>5 DEF RecorderInv, HeldBack, Closed, Running, Listening
<1>8. Told'
  BY <1>1 DEF RecorderInv, Told, Closing
<1>9. QED
  BY <1>5, <1>6, <1>7, <1>8 DEF RecorderInv

\* Nothing came for a while: the file is flushed, or this fails.
LEMMA Flushing ==
  ASSUME RecorderInv, Timeout
  PROVE  RecorderInv'
<1>1. /\ worker = "loop" /\ (draining => ring = <<>>) /\ queue = <<>> /\ draining' = FALSE
      /\ UNCHANGED <<transition, open, trigger, ring, finishing, clock, cutoff, gone, fault,
                     file, summary>>
      /\ queue' = <<>>
      /\ \/ /\ stored' = Len(file) /\ pending' = 0 /\ worker' = "loop"
            /\ st' = [st EXCEPT !.written = @ + pending]
         \/ /\ stored' \in stored .. Len(file) /\ pending' = pending /\ worker' = "failed"
            /\ st' = st
  BY DEF Timeout, Looping, Return
<1>2. /\ st \in Status /\ file \in Seq(Record) /\ pending \in 0 .. FlushEvery - 1
      /\ stored \in 0 .. Len(file) /\ FlushEvery \in Nat \ {0}
  BY RecorderAssumption DEF RecorderInv, TypeOK
<1>3. /\ st.written + pending = Len(file) /\ st.accepted = Len(file) + st.discarded + Waiting
      /\ st.written <= stored /\ st.written + st.discarded <= st.accepted
  BY <1>1 DEF RecorderInv, Counted, Running, Listening
<1>4. /\ st.written \in Nat /\ st.discarded \in Nat /\ st.accepted \in Nat
      /\ st.accepted <= MaxRecords /\ MaxRecords \in Nat
  BY StatusFacts DEF RecorderInv, Count
<1>5. Waiting \in Nat /\ Waiting' = Waiting
  <2>1. Len(ring) \in Nat /\ Len(queue) \in Nat
    BY Elements DEF RecorderInv, TypeOK
  <2>2. QED
    BY <1>1, <2>1 DEF Waiting
<1> DEFINE lines == Len(file)
<1>6. /\ lines \in Nat /\ stored \in Nat /\ stored <= lines /\ pending \in Nat
      /\ st.written + pending = lines /\ st.accepted = lines + st.discarded + Waiting
      /\ st.written <= stored
  BY <1>2, <1>3, Elements
<1> HIDE DEF lines
<1>7. lines \in Count /\ st.written + pending \in Count /\ lines + st.discarded <= st.accepted
  BY <1>4, <1>5, <1>6 DEF Count
<1>8. /\ st' \in Status /\ st'.accepted = st.accepted /\ st'.dropped = st.dropped
      /\ st'.discarded = st.discarded
      /\ st'.written = lines \/ (st'.written = st.written /\ worker' = "failed")
      /\ st'.active = st.active
  <2>1. CASE st' = [st EXCEPT !.written = @ + pending]
    BY <1>2, <1>6, <1>7, <2>1 DEF Status
  <2>2. QED
    BY <1>1, <1>2, <2>1
<1>9. Issued' = Issued
  BY <1>8 DEF Issued
<1>10. stored' \in 0 .. lines /\ st'.written <= stored' /\ pending' \in 0 .. FlushEvery - 1
  <2>1. CASE worker' = "loop"
    <3>1. stored' = lines /\ pending' = 0 /\ st'.written = lines
      BY <1>1, <1>8, <2>1 DEF lines
    <3>2. QED
      BY <1>2, <1>6, <3>1
  <2>2. CASE worker' = "failed"
    <3>1. stored' \in stored .. lines /\ pending' = pending /\ st' = st
      BY <1>1, <2>2 DEF lines
    <3>2. QED
      BY <1>2, <1>4, <1>6, <3>1
  <2>3. QED
    BY <1>1, <2>1, <2>2
<1>11. TypeOK'
  <2>1. stored' \in 0 .. Len(file')
    BY <1>1, <1>10 DEF lines
  <2>2. QED
    BY <1>1, <1>8, <1>10, <2>1 DEF RecorderInv, TypeOK, Workers
<1>12. Counted'
  <2>1. ASSUME worker' = "loop"
        PROVE  st'.written + pending' = lines /\ st'.accepted = lines + st'.discarded + Waiting'
    BY <1>1, <1>5, <1>6, <1>8, <2>1
  <2>2. st'.written + st'.discarded <= st'.accepted
    BY <1>3, <1>7, <1>8
  <2>3. QED
    BY <1>1, <1>10, <2>1, <2>2 DEF Counted, Running, Listening, lines
<1>13. Placed'
  <2>1. Numbered'
    BY <1>1, <1>9 DEF RecorderInv, Placed, Numbered
  <2>2. QueueIsNewest' /\ RingIsNewer' /\ FileOnce' /\ OrderKept'
    BY <1>1 DEF RecorderInv, Placed, QueueIsNewest, RingIsNewer, FileOnce, OrderKept
  <2>3. QED
    BY <2>1, <2>2 DEF Placed
<1>14. HeldBack' /\ Closed'
  BY <1>1, <1>8 DEF RecorderInv, HeldBack, Closed, Running, Listening
<1>15. FaultWindowKept' /\ Told'
  BY <1>1 DEF RecorderInv, FaultWindowKept, Told, Closing
<1>16. Found'
  BY <1>1, <1>8 DEF RecorderInv, Found, Running, Listening
<1>17. QED
  BY <1>9, <1>11, <1>12, <1>13, <1>14, <1>15, <1>16 DEF RecorderInv

\* A producer: the record is queued, or it is counted as dropped.
LEMMA Refusing ==
  ASSUME RecorderInv, worker # "none", Issued < MaxRecords,
         UNCHANGED <<transition, open, queue, worker, trigger, ring, draining, finishing, clock,
                     cutoff, gone, fault, file, stored, pending, summary>>,
         \/ /\ worker \in Listening
            /\ st' = [st EXCEPT !.dropped = @ + 1]
         \/ /\ worker \notin Listening
            /\ st' = [st EXCEPT !.dropped = @ + 1, !.active = FALSE, !.error = TRUE]
  PROVE  RecorderInv'
<1>1. st \in Status /\ st.dropped \in Nat /\ st.accepted \in Nat /\ MaxRecords \in Nat
  BY SMTT(30), StatusFacts DEF RecorderInv, TypeOK, Count
<1>2. st.dropped + 1 \in Count /\ Issued + 1 <= MaxRecords
  BY <1>1 DEF Count, Issued
<1>3. /\ st' \in Status /\ st'.accepted = st.accepted /\ st'.dropped = st.dropped + 1
      /\ st'.written = st.written /\ st'.discarded = st.discarded
      /\ ~st.active => ~st'.active
      /\ worker \notin Listening => st'.error
  BY <1>1, <1>2 DEF Status
<1>4. Issued' \in Count /\ Issued \in Nat /\ Issued <= Issued'
  BY <1>1, <1>2, <1>3 DEF Count, Issued
<1>5. TypeOK'
  BY <1>3 DEF RecorderInv, TypeOK
<1>6. Counted'
  <2>1. Waiting' = Waiting
    BY DEF Waiting
  <2>2. /\ Running => st.written + pending = Len(file)
        /\ Running => st.accepted = Len(file) + st.discarded + Waiting
        /\ st.written <= stored /\ st.written + st.discarded <= st.accepted
    BY DEF RecorderInv, Counted
  <2>3. QED
    BY <1>3, <2>1, <2>2 DEF Counted, Running
<1>7. Placed'
  <2>1. /\ \A i \in DOMAIN file : file[i].seq \in Nat
        /\ \A i \in DOMAIN ring : ring[i].seq \in Nat
        /\ \A i \in DOMAIN queue : queue[i].seq \in Nat
        /\ \A n \in gone : n \in Nat
    BY Numbers DEF RecorderInv
  <2>3. /\ \A i \in DOMAIN file : file[i].seq <= Issued
        /\ \A i \in DOMAIN ring : ring[i].seq <= Issued
        /\ \A i \in DOMAIN queue : queue[i].seq <= Issued
        /\ \A n \in gone : n <= Issued
    BY DEF RecorderInv, Placed, Numbered
  <2>4. PICK last \in Nat : last = Issued'
    BY <1>4 DEF Count
  <2>5. Numbered'
    BY <1>4, <2>1, <2>3, <2>4 DEF Numbered
  <2>6. QueueIsNewest' /\ RingIsNewer' /\ FileOnce' /\ OrderKept'
    BY DEF RecorderInv, Placed, QueueIsNewest, RingIsNewer, FileOnce, OrderKept
  <2>7. QED
    BY <2>5, <2>6 DEF Placed
<1>8. HeldBack' /\ Closed' /\ FaultWindowKept'
  BY <1>3 DEF RecorderInv, HeldBack, Closed, FaultWindowKept, Running, Listening
<1>9. Found'
  <2>1. st'.dropped # 0
    BY <1>1, <1>3
  <2>2. QED
    BY <2>1 DEF Found
<1>10. Told'
  <2>1. Closing => st'.error
    BY <1>3 DEF Closing, Listening
  <2>2. summary # NoSummary => worker \in {"ended", "none"} /\ Faithful(summary)
    BY DEF RecorderInv, Told
  <2>3. QED
    BY <2>1, <2>2 DEF Told, Faithful, Readable, Closing
<1>11. QED
  BY <1>4, <1>5, <1>6, <1>7, <1>8, <1>9, <1>10 DEF RecorderInv

LEMMA Accepting ==
  ASSUME RecorderInv, worker \in Listening, Issued < MaxRecords, Len(queue) < QueueSize,
         open, st.active,
         NEW what \in What, queue' = Append(queue, [seq |-> Issued + 1, what |-> what]),
         st' = [st EXCEPT !.accepted = @ + 1],
         UNCHANGED <<transition, open, worker, trigger, ring, draining, finishing, clock,
                     cutoff, gone, fault, file, stored, pending, summary>>
  PROVE  RecorderInv'
<1>1. st \in Status /\ st.dropped \in Nat /\ st.accepted \in Nat /\ MaxRecords \in Nat
      /\ st.discarded \in Nat /\ st.written \in Nat /\ QueueSize \in Nat
  <2>1. st \in Status /\ TypeOK
    BY DEF RecorderInv, TypeOK
  <2>2. QED
    BY <2>1, StatusFacts DEF Count
<1>2. /\ st.accepted + 1 \in Count /\ Issued + 1 \in 1 .. MaxRecords /\ Issued \in Nat
      /\ Issued = st.accepted + st.dropped
  BY SMTT(30), <1>1 DEF Count, Issued
<1>3. /\ st' \in Status /\ st'.accepted = st.accepted + 1 /\ st'.dropped = st.dropped
      /\ st'.written = st.written /\ st'.discarded = st.discarded
  BY <1>1, <1>2 DEF Status
<1>4. PICK last \in Nat : last = Issued + 1 /\ Issued' = last /\ Issued < last
  BY <1>1, <1>2, <1>3 DEF Issued
<1>5. PICK r \in Record : r.seq = last /\ queue' = Append(queue, r)
  BY <1>2, <1>4 DEF Record
<1>6. queue \in Seq(Record) /\ ring \in Seq(Record) /\ file \in Seq(Record)
      /\ gone \subseteq 1 .. MaxRecords
  BY DEF RecorderInv, TypeOK
<1>7. /\ queue' \in Seq(Record) /\ Len(queue') = Len(queue) + 1
      /\ DOMAIN queue' = 1 .. Len(queue) + 1
      /\ \A i \in 1 .. Len(queue) : queue'[i] = queue[i]
      /\ queue'[Len(queue) + 1] = r
      /\ Len(queue) \in Nat /\ DOMAIN queue = 1 .. Len(queue)
      /\ Len(ring) \in Nat /\ Len(file) \in Nat
  BY <1>5, <1>6, Elements, Appended
<1>8. Len(queue') <= QueueSize /\ Waiting' = Waiting + 1 /\ Waiting \in Nat
  BY <1>1, <1>7 DEF Waiting
<1>9. \A j \in DOMAIN queue' : \/ j \in DOMAIN queue /\ queue'[j] = queue[j]
                               \/ j = Len(queue) + 1 /\ queue'[j] = r
  BY <1>7
<1>10. /\ \A i \in DOMAIN file : file[i].seq <= Issued /\ file[i].seq < last
       /\ \A i \in DOMAIN ring : ring[i].seq <= Issued /\ ring[i].seq < last
       /\ \A i \in DOMAIN queue : queue[i].seq <= Issued /\ queue[i].seq < last
       /\ \A n \in gone : n <= Issued /\ n < last
  <2>1. /\ \A i \in DOMAIN file : file[i].seq <= Issued
        /\ \A i \in DOMAIN ring : ring[i].seq <= Issued
        /\ \A i \in DOMAIN queue : queue[i].seq <= Issued
        /\ \A n \in gone : n <= Issued
    BY DEF RecorderInv, Placed, Numbered, Listening
  <2>2. /\ \A i \in DOMAIN file : file[i].seq \in Nat
        /\ \A i \in DOMAIN ring : ring[i].seq \in Nat
        /\ \A i \in DOMAIN queue : queue[i].seq \in Nat
        /\ \A n \in gone : n \in Nat
    BY Numbers DEF RecorderInv
  <2>4. Issued \in Nat /\ last \in Nat /\ Issued < last
    BY <1>2, <1>4
  <2>5. \A n \in Nat : n <= Issued => n < last
    BY <2>4
  <2>6. QED
    BY <2>1, <2>2, <2>5
<1>11. TypeOK' /\ (Issued \in Count)'
  <2>1. TypeOK'
    BY <1>3, <1>7, <1>8 DEF RecorderInv, TypeOK
  <2>2. QED
    BY <1>2, <1>4, <2>1 DEF Count
<1>12. Counted'
  <2>1. /\ st.written + pending = Len(file) /\ st.accepted = Len(file) + st.discarded + Waiting
        /\ st.written <= stored /\ st.written + st.discarded <= st.accepted
    BY DEF RecorderInv, Counted, Running
  <2>2. st'.accepted = Len(file) + st'.discarded + Waiting'
    BY SMTT(30), <1>1, <1>3, <1>7, <1>8, <2>1
  <2>3. st'.written + st'.discarded <= st'.accepted
    BY SMTT(30), <1>1, <1>3, <2>1
  <2>4. QED
    BY <1>3, <2>1, <2>2, <2>3 DEF Counted
<1>13. Placed'
  <2>1. Numbered'
    <3>1. Issued' = last /\ last <= last
      BY <1>4
    <3>2. \A n \in Nat : n < last => n <= last
      BY <1>4
    <3>3. /\ \A i \in DOMAIN file : file[i].seq \in Nat
          /\ \A i \in DOMAIN ring : ring[i].seq \in Nat
          /\ \A i \in DOMAIN queue : queue[i].seq \in Nat
          /\ \A n \in gone : n \in Nat
      BY Numbers DEF RecorderInv
    <3>4. QED
      BY <1>5, <1>9, <1>10, <3>1, <3>2, <3>3 DEF Numbered
  <2>2. QueueIsNewest'
    <3> SUFFICES ASSUME NEW j \in DOMAIN queue'
                 PROVE  /\ \A i \in DOMAIN queue' : i < j => queue'[i].seq < queue'[j].seq
                        /\ \A i \in DOMAIN ring : ring[i].seq < queue'[j].seq
                        /\ \A i \in DOMAIN file : file[i].seq < queue'[j].seq
                        /\ \A n \in gone : n < queue'[j].seq
      BY DEF QueueIsNewest
    <3>1. CASE j = Len(queue) + 1 /\ queue'[j] = r
      <4>1. \A i \in DOMAIN queue' : i < j => i \in DOMAIN queue /\ queue'[i] = queue[i]
        BY <1>7, <3>1
      <4>2. QED
        BY <1>5, <1>10, <3>1, <4>1
    <3>2. CASE j \in DOMAIN queue /\ queue'[j] = queue[j]
      <4>1. \A i \in DOMAIN queue' : i < j => i \in DOMAIN queue /\ queue'[i] = queue[i]
        BY <1>7, <3>2
      <4>2. QED
        BY <3>2, <4>1 DEF RecorderInv, Placed, QueueIsNewest
    <3>3. QED
      BY <1>9, <3>1, <3>2
  <2>3. RingIsNewer' /\ FileOnce' /\ OrderKept'
    BY DEF RecorderInv, Placed, RingIsNewer, FileOnce, OrderKept
  <2>4. QED
    BY <2>1, <2>2, <2>3 DEF Placed
<1>14. HeldBack' /\ FaultWindowKept'
  BY DEF RecorderInv, HeldBack, FaultWindowKept
<1>15. Closed'
  <2>1. worker = "loop" /\ ~finishing
    BY DEF RecorderInv, Closed, Listening
  <2>2. QED
    BY <2>1 DEF Closed, Running, Listening
<1>16. Found'
  <2> SUFFICES ASSUME st.dropped = 0, NEW n \in 1 .. st.accepted + 1
               PROVE  \/ n \in gone
                      \/ \E i \in DOMAIN file : file[i].seq = n
                      \/ \E i \in DOMAIN ring : ring[i].seq = n
                      \/ \E i \in DOMAIN queue' : queue'[i].seq = n
    BY <1>3 DEF Found
  <2>1. CASE n = st.accepted + 1
    <3>1. n = last /\ Len(queue) + 1 \in DOMAIN queue'
      BY <1>1, <1>2, <1>4, <1>7, <2>1
    <3>2. QED
      BY <1>5, <1>7, <3>1
  <2>2. CASE n \in 1 .. st.accepted
    <3>1. \/ n \in gone
          \/ \E i \in DOMAIN file : file[i].seq = n
          \/ \E i \in DOMAIN ring : ring[i].seq = n
          \/ \E i \in DOMAIN queue : queue[i].seq = n
      BY <2>2 DEF RecorderInv, Found, Running
    <3>2. \A i \in DOMAIN queue : i \in DOMAIN queue' /\ queue'[i] = queue[i]
      BY <1>7
    <3>3. QED
      BY <3>1, <3>2
  <2>3. QED
    BY <1>1, <2>1, <2>2
<1>17. Told'
  BY DEF RecorderInv, Told, Closing, Listening
<1>18. QED
  BY <1>11, <1>12, <1>13, <1>14, <1>15, <1>16, <1>17 DEF RecorderInv

LEMMA Emitting ==
  ASSUME RecorderInv, NEW what \in What, Emit(what)
  PROVE  RecorderInv'
<1>1. /\ open /\ st.active /\ Issued < MaxRecords
      /\ UNCHANGED <<transition, open, worker, trigger, ring, draining, finishing, clock,
                     cutoff, gone, fault, file, stored, pending, summary>>
  BY DEF Emit, capture, disk
<1>2. CASE /\ worker \notin Listening
           /\ st' = [st EXCEPT !.dropped = @ + 1, !.active = FALSE, !.error = TRUE]
           /\ UNCHANGED queue
  <2>1. worker # "none"
    BY <1>1 DEF RecorderInv, Closed
  <2>2. QED
    BY <1>1, <1>2, <2>1, Refusing
<1>3. CASE /\ worker \in Listening
           /\ st' = [st EXCEPT !.dropped = @ + 1]
           /\ UNCHANGED queue
  BY <1>1, <1>3, Refusing DEF Listening
<1>4. CASE /\ worker \in Listening /\ Len(queue) < QueueSize
           /\ queue' = Append(queue, [seq |-> Issued + 1, what |-> what])
           /\ st' = [st EXCEPT !.accepted = @ + 1]
  BY <1>1, <1>4, Accepting
<1>5. QED
  BY <1>2, <1>3, <1>4 DEF Emit

\* What was held back for a fault that never came is discarded, and the file is
\* flushed for the last time, or this fails.
LEMMA Ending ==
  ASSUME RecorderInv, LastFlush
  PROVE  RecorderInv'
<1>1. PICK flushed \in BOOLEAN :
        /\ st' = [st EXCEPT !.discarded = @ + Len(ring),
                            !.written = IF flushed THEN @ + pending ELSE @]
        /\ pending' = IF flushed THEN 0 ELSE pending
        /\ stored' \in (IF flushed THEN Len(file) ELSE stored) .. Len(file)
        /\ worker' = "failed" \/ (flushed /\ worker' = "returned")
        /\ queue' = <<>>
  BY DEF LastFlush, Return
<1>2. /\ worker = "last" /\ ring' = <<>>
      /\ gone' = gone \cup {ring[i].seq : i \in DOMAIN ring}
      /\ UNCHANGED <<transition, open, trigger, draining, finishing, clock, cutoff, fault,
                     file, summary>>
  BY DEF LastFlush
<1>3. /\ st \in Status /\ file \in Seq(Record) /\ ring \in Seq(Record)
      /\ pending \in 0 .. FlushEvery - 1 /\ gone \subseteq 1 .. MaxRecords
      /\ stored \in 0 .. Len(file) /\ FlushEvery \in Nat \ {0} /\ QueueSize \in Nat
  BY RecorderAssumption DEF RecorderInv, TypeOK
<1>4. queue = <<>>
  BY <1>2 DEF RecorderInv, Closed
<1> DEFINE lines == Len(file)
           held == Len(ring)
<1>5. /\ lines \in Nat /\ held \in Nat /\ DOMAIN ring = 1 .. held /\ DOMAIN file = 1 .. lines
      /\ Waiting = held /\ Len(<<>>) = 0 /\ DOMAIN <<>> = {} /\ <<>> \in Seq(Record)
  <2>1. Len(<<>>) = 0 /\ DOMAIN <<>> = {} /\ <<>> \in Seq(Record)
    OBVIOUS
  <2>2. lines \in Nat /\ held \in Nat /\ DOMAIN ring = 1 .. held /\ DOMAIN file = 1 .. lines
    BY <1>3, Elements
  <2>3. Waiting = held
    BY <1>4, <2>1, <2>2 DEF Waiting
  <2>4. QED
    BY <2>1, <2>2, <2>3
<1>6. /\ st.written + pending = lines /\ st.accepted = lines + st.discarded + Waiting
      /\ st.written <= stored
  BY <1>2 DEF RecorderInv, Counted, Running, Listening
<1> HIDE DEF lines, held
<1>7. /\ st.written \in Nat /\ st.discarded \in Nat /\ st.accepted \in Nat /\ st.dropped \in Nat
      /\ st.accepted <= MaxRecords /\ MaxRecords \in Nat /\ pending \in Nat /\ stored \in Nat
      /\ stored <= lines
  <2>1. /\ st.written \in Nat /\ st.discarded \in Nat /\ st.accepted \in Nat /\ st.dropped \in Nat
        /\ st.accepted <= MaxRecords /\ MaxRecords \in Nat
    BY StatusFacts DEF RecorderInv, Count
  <2>2. pending \in Nat /\ stored \in Nat /\ stored <= lines
    BY <1>3, <1>5 DEF lines
  <2>3. QED
    BY <2>1, <2>2
<1>8. /\ st.accepted = lines + st.discarded + held
      /\ st.discarded + held \in Count /\ lines \in Count /\ st.written \in Count
      /\ st.written + (st.discarded + held) <= st.accepted
      /\ lines + (st.discarded + held) = st.accepted
  <2>1. st.accepted = lines + st.discarded + held
    BY <1>5, <1>6
  <2>2. lines \in Nat /\ held \in Nat
    BY <1>5
  <2>3. lines + (st.discarded + held) = st.accepted /\ st.written <= lines
    BY <1>6, <1>7, <2>1, <2>2
  <2>4. st.written + (st.discarded + held) <= st.accepted
    BY <1>7, <2>2, <2>3
  <2>5. st.discarded + held \in Count /\ lines \in Count /\ st.written \in Count
    BY <1>7, <2>2, <2>3 DEF Count
  <2>6. QED
    BY <2>1, <2>3, <2>4, <2>5
<1>9. /\ st' \in Status /\ st'.accepted = st.accepted /\ st'.dropped = st.dropped
      /\ st'.discarded = st.discarded + held
      /\ st'.written = IF flushed THEN lines ELSE st.written
      /\ st'.error = st.error
  <2>1. st' = [st EXCEPT !.discarded = st.discarded + held,
                         !.written = IF flushed THEN lines ELSE st.written]
    BY <1>1, <1>6 DEF held
  <2>2. QED
    BY <1>3, <1>8, <2>1 DEF Status
<1>10. Issued' = Issued
  BY <1>9 DEF Issued
<1>11. /\ stored' \in 0 .. lines /\ st'.written <= stored' /\ pending' \in 0 .. FlushEvery - 1
       /\ flushed => stored' = lines
  <2>1. CASE flushed
    <3>1. stored' \in lines .. lines /\ pending' = 0 /\ st'.written = lines
      BY <1>1, <1>9, <2>1 DEF lines
    <3>2. QED
      BY <1>3, <1>5, <3>1
  <2>2. CASE ~flushed
    <3>1. stored' \in stored .. lines /\ pending' = pending /\ st'.written = st.written
      BY <1>1, <1>9, <2>2 DEF lines
    <3>2. QED
      BY <1>3, <1>6, <1>7, <2>2, <3>1
  <2>3. QED
    BY <2>1, <2>2
<1>12. gone' \subseteq 1 .. MaxRecords
  <2>1. \A i \in DOMAIN ring : ring[i].seq \in 1 .. MaxRecords
    BY <1>3, Elements
  <2>2. QED
    BY <1>2, <1>3, <2>1
<1>13. TypeOK'
  <2>1. stored' \in 0 .. Len(file')
    BY <1>2, <1>11 DEF lines
  <2>2. queue' \in Seq(Record) /\ Len(queue') <= QueueSize /\ ring' \in Seq(Record)
    BY <1>1, <1>2, <1>3, <1>5
  <2>3. worker' \in Workers
    BY <1>1 DEF Workers
  <2>4. QED
    BY <1>2, <1>9, <1>11, <1>12, <2>1, <2>2, <2>3 DEF RecorderInv, TypeOK
<1>14. Counted'
  <2>1. st'.written + st'.discarded <= st'.accepted
    <3>1. CASE flushed
      BY <1>7, <1>8, <1>9, <3>1
    <3>2. CASE ~flushed
      BY <1>7, <1>8, <1>9, <3>2
    <3>3. QED
      BY <3>1, <3>2
  <2>2. QED
    BY <1>1, <1>11, <2>1 DEF Counted, Running, Listening
<1>15. Placed'
  <2>1. /\ \A i \in DOMAIN file : file[i].seq <= Issued
        /\ \A i \in DOMAIN ring : ring[i].seq <= Issued
        /\ \A n \in gone : n <= Issued
    BY <1>2 DEF RecorderInv, Placed, Numbered
  <2>2. Numbered'
    BY <1>1, <1>2, <1>5, <1>10, <2>1 DEF Numbered
  <2>3. QueueIsNewest' /\ RingIsNewer'
    BY <1>1, <1>2, <1>5 DEF QueueIsNewest, RingIsNewer
  <2>4. FileOnce'
    <3>1. \A i \in DOMAIN file : /\ \A j \in DOMAIN file : i # j => file[i].seq # file[j].seq
                                 /\ file[i].seq \notin gone
      BY DEF RecorderInv, Placed, FileOnce
    <3>2. \A i \in DOMAIN file : \A j \in DOMAIN ring : file[i].seq # ring[j].seq
      BY DEF RecorderInv, Placed, RingIsNewer
    <3>3. QED
      BY <1>2, <3>1, <3>2 DEF FileOnce
  <2>5. OrderKept'
    BY <1>2 DEF RecorderInv, Placed, OrderKept
  <2>6. QED
    BY <2>2, <2>3, <2>4, <2>5 DEF Placed
<1>16. HeldBack' /\ Closed'
  BY <1>1, <1>2 DEF RecorderInv, HeldBack, Closed
<1>17. FaultWindowKept'
  <2>1. fault > 0 => gone' = gone
    <3>1. fault \in Nat /\ (fault > 0 => clock # "unset")
      BY <1>7 DEF RecorderInv, TypeOK, HeldBack, Count
    <3>2. fault > 0 => DOMAIN ring = {}
      BY <1>2, <1>5, <3>1 DEF RecorderInv, HeldBack
    <3>3. QED
      BY <1>2, <3>2
  <2>2. QED
    BY <1>2, <2>1 DEF RecorderInv, FaultWindowKept
<1>18. Found'
  BY <1>1 DEF Found, Running, Listening
<1>19. Told'
  <2>1. summary = NoSummary
    BY <1>2 DEF RecorderInv, Told
  <2>2. CASE worker' = "failed"
    BY <1>2, <2>1, <2>2 DEF Told, Closing
  <2>3. CASE flushed /\ worker' = "returned"
    <3>1. ASSUME st.dropped = 0
          PROVE  Readable' = (1 .. st.accepted) \ gone'
      <4>1. Readable' = {file[i].seq : i \in 1 .. lines}
        BY <1>2, <1>11, <2>3 DEF Readable
      <4>2. \A i \in 1 .. lines : file[i].seq \in 1 .. st.accepted /\ file[i].seq \notin gone'
        <5> SUFFICES ASSUME NEW i \in 1 .. lines
                     PROVE  file[i].seq \in 1 .. st.accepted /\ file[i].seq \notin gone'
          OBVIOUS
        <5>1. i \in DOMAIN file
          BY <1>5
        <5>2. file[i].seq \in 1 .. MaxRecords
          BY <1>3, <5>1, Elements
        <5>3. file[i].seq <= st.accepted
          BY <1>2, <1>7, <3>1, <5>1 DEF RecorderInv, Placed, Numbered, Issued
        <5>4. file[i].seq \notin gone
          BY <5>1 DEF RecorderInv, Placed, FileOnce
        <5>5. \A j \in DOMAIN ring : file[i].seq # ring[j].seq
          BY <5>1 DEF RecorderInv, Placed, RingIsNewer
        <5>6. QED
          BY <1>2, <1>7, <5>2, <5>3, <5>4, <5>5
      <4>3. \A n \in 1 .. st.accepted : n \notin gone' => \E i \in 1 .. lines : file[i].seq = n
        <5> SUFFICES ASSUME NEW n \in 1 .. st.accepted, n \notin gone'
                     PROVE  \E i \in 1 .. lines : file[i].seq = n
          OBVIOUS
        <5>1. \/ n \in gone
              \/ \E i \in DOMAIN file : file[i].seq = n
              \/ \E i \in DOMAIN ring : ring[i].seq = n
              \/ \E i \in DOMAIN queue : queue[i].seq = n
          BY <1>2, <3>1 DEF RecorderInv, Found, Running, Listening
        <5>2. QED
          BY <1>2, <1>4, <1>5, <5>1
      <4>4. QED
        BY <4>1, <4>2, <4>3
    <3>2. Faithful(st)'
      BY <1>2, <1>9, <1>11, <2>3, <3>1 DEF Faithful, lines
    <3>3. st'.accepted = st'.written + st'.discarded
      BY <1>8, <1>9, <2>3
    <3>4. QED
      BY <1>2, <2>1, <3>2, <3>3 DEF Told
  <2>4. QED
    BY <1>1, <2>2, <2>3
<1>20. QED
  BY <1>10, <1>13, <1>14, <1>15, <1>16, <1>17, <1>18, <1>19 DEF RecorderInv

-----------------------------------------------------------------------------
(* The invariant, and what it shows.                                       *)

LEMMA RecorderStep == RecorderInv /\ [Next]_vars => RecorderInv'
<1> SUFFICES ASSUME RecorderInv, [Next]_vars PROVE RecorderInv'
  OBVIOUS
<1>1. ASSUME NEW what \in What, Emit(what) PROVE RecorderInv'
  BY <1>1, Emitting
<1>2. CASE StartBegin \/ StartFails \/ StopBegin \/ StopEnd
  BY <1>2, Commands
<1>3. ASSUME NEW armed \in BOOLEAN, StartRun(armed) PROVE RecorderInv'
  BY <1>3, Starting
<1>4. CASE Worker
  <2>1. CASE DrainRing
    BY <2>1, Draining
  <2>2. CASE Receive
    BY <2>2, Receiving
  <2>3. CASE Timeout
    BY <2>3, Flushing
  <2>4. CASE CloseSession \/ SortEnds
    BY <2>4, Deadline
  <2>5. CASE SortQueue
    BY <2>5, Sorting
  <2>6. CASE LoopEnds
    BY <2>6, Leaving
  <2>7. CASE LastFlush
    BY <2>7, Ending
  <2>8. CASE FinishRecording
    BY <2>8, Summing
  <2>9. CASE SaveSummary
    BY <2>9, Saving
  <2>10. QED
    BY <1>4, <2>1, <2>2, <2>3, <2>4, <2>5, <2>6, <2>7, <2>8, <2>9 DEF Worker
<1>5. CASE WindowEnds \/ DeadlineComes
  BY <1>5, Clock
<1>6. CASE Crash
  BY <1>6, Dying
<1>7. CASE UNCHANGED vars
  <2>1. UNCHANGED <<transition, open, st, queue, worker, trigger, ring, draining, finishing,
                    clock, cutoff, gone, fault, file, stored, pending, summary>>
    BY <1>7 DEF vars, capture, disk
  <2>2. TypeOK'
    BY <2>1 DEF RecorderInv, TypeOK
  <2>3. (Counted /\ Placed /\ Found)' /\ Issued' = Issued
    BY <2>1, Unmoved DEF Running
  <2>4. HeldBack' /\ Closed' /\ FaultWindowKept'
    BY <2>1 DEF RecorderInv, HeldBack, Closed, FaultWindowKept, Running
  <2>5. Told'
    BY <2>1 DEF RecorderInv, Told, Faithful, Readable, Closing
  <2>6. QED
    BY <2>2, <2>3, <2>4, <2>5 DEF RecorderInv
<1>8. QED
  BY <1>1, <1>2, <1>3, <1>4, <1>5, <1>6, <1>7 DEF Next

\* Every state has its type: the counts stay within the records offered, and no
\* more is stored than was handed to the writer (Recorder of recording.rs).
THEOREM RecorderTypes == Spec => []TypeOK
<1>1. RecorderInv => TypeOK
  BY DEF RecorderInv
<1> QED
  BY RecorderInit, RecorderStep, <1>1, PTL DEF Spec

\* The records the status calls written are with the operating system, so a crash
\* of the process does not lose them (write_records_mode, flush before `written`).
THEOREM WrittenIsStored == Spec => []WrittenSurvives
<1>1. RecorderInv => WrittenSurvives
  BY DEF RecorderInv, Counted, WrittenSurvives
<1> QED
  BY RecorderInit, RecorderStep, <1>1, PTL DEF Spec

\* A session that ended without an error has each accepted record written or
\* discarded, and none left in the queue or held back (finish_recording).
THEOREM AllAccounted == Spec => []AcceptedAccounted
<1>1. RecorderInv => AcceptedAccounted
  BY DEF RecorderInv, Told, Closed, Closing, Running, Listening, AcceptedAccounted
<1> QED
  BY RecorderInit, RecorderStep, <1>1, PTL DEF Spec

\* What the trigger discards is older than the fault or past the window, whatever
\* the queue held when the deadline came (the worker's loop, should_save).
THEOREM WindowIsKept == Spec => []FaultWindowKept
<1>1. RecorderInv => FaultWindowKept
  BY DEF RecorderInv
<1> QED
  BY RecorderInit, RecorderStep, <1>1, PTL DEF Spec

\* Records are in the file in the order they were made, except that a context
\* snapshot overtakes what is held back (emit_at under `status`, the ring first).
THEOREM RecordsInOrder == Spec => []OrderKept
<1>1. RecorderInv => OrderKept
  BY DEF RecorderInv, Placed
<1> QED
  BY RecorderInit, RecorderStep, <1>1, PTL DEF Spec

\* No record is in the file twice.
LEMMA ReadableCounted ==
  ASSUME RecorderInv
  PROVE  stored = Cardinality(Readable)
<1> DEFINE place == [i \in 1 .. stored |-> file[i].seq]
<1>1. stored \in Nat /\ 1 .. stored \subseteq DOMAIN file
  <2>1. Len(file) \in Nat /\ DOMAIN file = 1 .. Len(file) /\ stored \in 0 .. Len(file)
    BY Elements DEF RecorderInv, TypeOK
  <2>2. QED
    BY <2>1
<1>2. \A i, j \in 1 .. stored : file[i].seq = file[j].seq => i = j
  BY <1>1 DEF RecorderInv, Placed, FileOnce
<1>3. place \in Bijection(1 .. stored, Readable)
  <2>1. place \in [1 .. stored -> Readable]
    BY DEF Readable
  <2>2. IsInjective(place)
    BY <1>2 DEF IsInjective
  <2>3. \A n \in Readable : \E i \in 1 .. stored : place[i] = n
    BY DEF Readable
  <2>4. QED
    BY <2>1, <2>2, <2>3 DEF Bijection, Injection, Surjection
<1>4. ExistsBijection(1 .. stored, Readable)
  BY <1>3 DEF ExistsBijection
<1>5. QED
  BY <1>1, <1>4, FS_CountingElements

\* A summary its readers do not warn about is of a session that has every record
\* offered to it on disk, once, except what the trigger was asked to discard - and
\* stays so through crashes (session_warning and finish_recording).
THEOREM SilenceIsWhole == Spec => []SilenceMeansWhole
<1>1. RecorderInv => SilenceMeansWhole
  <2> SUFFICES ASSUME RecorderInv, ~Warned(summary)
               PROVE  /\ Readable = (1 .. summary.accepted) \ gone
                      /\ stored = Cardinality(Readable)
    BY DEF SilenceMeansWhole
  <2>1. summary # NoSummary /\ ~summary.error /\ ~(summary.dropped > 0)
    BY DEF Warned
  <2>2. summary.dropped \in Nat
    BY <2>1, RecorderAssumption DEF RecorderInv, TypeOK, Status, Count
  <2>3. summary.dropped = 0
    BY <2>1, <2>2
  <2>4. Readable = (1 .. summary.accepted) \ gone
    BY <2>1, <2>3 DEF RecorderInv, Told, Faithful
  <2>5. QED
    BY <2>4, ReadableCounted
<1> QED
  BY RecorderInit, RecorderStep, <1>1, PTL DEF Spec

=============================================================================
