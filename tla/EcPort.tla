---- MODULE EcPort ----
(* The link layer of the EtherCAT master: oshw/win32/nicdrv.c. Callers exchange    *)
(* frames over one port, and over a second one when the ring is closed by it. The  *)
(* index of a frame is all that pairs an answer with its caller: an index is taken *)
(* under getindex_mutex, frames are read under rx_mutex, and a frame that is read  *)
(* for another caller is left in that caller's buffer.                             *)
EXTENDS EcFrame

CONSTANTS
    Callers,    \* threads of execution that use the port
    MaxBuf,     \* EC_MAXBUF: the number of indices
    Commands,   \* the primitives the callers use
    Slaves,     \* the number of slaves in the ring, in the order of the line
    MaxCalls,   \* bound: calls in a behaviour
    MaxSends,   \* bound: how often the time-out of a call lets it send
    MaxFaults   \* bound: frames lost or cut short, failed sends

ASSUME PortAssumption ==
    /\ {MaxBuf, MaxCalls, MaxFaults} \subseteq Nat
    /\ {Slaves, MaxSends} \subseteq Nat \ {0}
    /\ IsFiniteSet(Callers) /\ Cardinality(Callers) < MaxBuf
    /\ Commands \subseteq DOMAIN Primitives

VARIABLES
    redstate,   \* ECT_RED_NONE or ECT_RED_DOUBLE
    lastidx,
    txbuf,      \* index -> frame
    rxbufstat,  \* stack -> index -> status of the buffer
    rxbuf,      \* stack -> index -> frame
    rxsa,       \* stack -> index -> the port the frame was sent from
    job,        \* caller -> its locals, and what its last call returned
    wire,       \* frames under way to a port
    cut,        \* the ring is broken behind this many slaves, or Whole
    handed,     \* indices handed out so far
    faults
vars == <<redstate, lastidx, txbuf, rxbufstat, rxbuf, rxsa, job, wire, cut, handed, faults>>

Indices == 0..(MaxBuf - 1)
Prim == 0
Sec == 1
Stacks == {Prim, Sec}
Line == 1..Slaves
Whole == Slaves + 1
NoFrame == -1
Nobody == 2

NoDatagram == Datagram("NOP", "zero", 0, FALSE)
Blank == [idx |-> 0, grams |-> <<NoDatagram>>]
Dummy(idx) == [idx |-> idx, grams |-> <<Datagram("BRD", "zero", 0, FALSE)>>]

Addressed == 1
LastGram(frame) == frame.grams[Len(frame.grams)]
WkcOf(gram) == Cardinality(gram.visited \cap Targets(gram.com, Addressed, Line))
Wkc(frame) == WkcOf(LastGram(frame))

Idle == [pc |-> "idle", com |-> "BRD", idx |-> 0, call |-> 0, tries |-> 0,
         wkc |-> [s \in Stacks |-> NoFrame], reads |-> Prim, back |-> "idle",
         clean |-> TRUE, copied |-> NoDatagram]

-----------------------------------------------------------------------------
(* The ring. A frame is processed on its way out from the primary port. In a     *)
(* broken ring it turns round at the break; from the secondary port it is then   *)
(* processed by the slaves behind the break, otherwise by none.                  *)

Visits(from) ==
    CASE from = Prim -> IF cut = Whole THEN Line ELSE 1..cut
      [] from = Sec  -> IF cut = Whole THEN {} ELSE (cut + 1)..Slaves

Arrives(from) ==
    IF redstate = "double" /\ cut = Whole THEN 1 - from ELSE from

Severed(from) == (from = Prim /\ cut = 0) \/ (from = Sec /\ cut = Slaves)

\* What is put on the wire: nothing when the cable of the port itself is broken.
Sent(from, sa, frame, n) ==
    IF Severed(from) THEN {} ELSE
    {[at |-> Arrives(from), sa |-> sa, frame |-> Passed(frame, Visits(from)), n |-> n]}

\* The frames of a call, or of its dummies, that are still under way.
CallOf(f) == f.n[1]

-----------------------------------------------------------------------------
(* The operations.                                                               *)

InUse(i) == rxbufstat[Prim][i] # "EMPTY"

\* Mutants: no search, the search does not turn round at the end of the table, and
\* it begins at the start of the table every time.
NextIndexAny == (lastidx + 1) % MaxBuf
NextIndexUnwrapped == lastidx + 1
NextIndexLowest == CHOOSE i \in Indices : InUse(i) = (\A j \in Indices : InUse(j))

\* The first unused index behind the last one handed out; when every one is in
\* use, the one the search ends at.
NextIndex ==
    LET behind(k) == (lastidx + 1 + k) % MaxBuf
        free == {k \in 0..(MaxBuf - 1) : ~InUse(behind(k))}
    IN  IF free = {} THEN behind(0)
        ELSE behind(CHOOSE k \in free : \A j \in free : k <= j)

SetBufStat(stat, i, s) ==
    [st \in Stacks |-> IF st = Prim \/ redstate = "double"
                       THEN [stat[st] EXCEPT ![i] = s] ELSE stat[st]]

(* How long a frame lives: it is gone before the index of its call can be handed  *)
(* out again. An index whose frame could not be sent counts as unused; its caller *)
(* has sent again, or given up, by then.                                          *)
Turn == MaxBuf - Cardinality(Callers) + 1
Young(call) == handed + 1 - call < Turn
SentAgain ==
    \A c \in Callers :
       job[c].pc # "idle" /\ ~InUse(job[c].idx) => Young(job[c].call)

\* Bound: with the second port, callers take turns, for half as many calls.
OneAtATime ==
    redstate = "double" => /\ \A d \in Callers : job[d].pc = "idle"
                           /\ 2 * handed < MaxCalls

GetIndex(c, com) ==
    /\ job[c].pc = "idle"
    /\ handed < MaxCalls /\ SentAgain /\ OneAtATime
    /\ handed' = handed + 1
    /\ lastidx' = NextIndex
    /\ rxbufstat' = SetBufStat(rxbufstat, NextIndex, "ALLOC")
    /\ txbuf' = [txbuf EXCEPT ![NextIndex] = FrameOf(Primitives[com], NextIndex, handed + 1)]
    /\ job' = [job EXCEPT ![c] = [Idle EXCEPT !.pc = "send", !.com = com,
                                              !.idx = NextIndex, !.call = handed + 1]]
    /\ wire' = {f \in wire : Young(CallOf(f))}
    /\ UNCHANGED <<redstate, rxbuf, rxsa, cut, faults>>

\* A send that fails marks the buffer empty while its caller goes on waiting.
OutStat(stat, st, i, ok) == [stat EXCEPT ![st][i] = IF ok THEN "TX" ELSE "EMPTY"]

OutFrameRed(c) ==
    LET i == job[c].idx
        n == <<job[c].call, job[c].tries>>
        used == IF redstate = "double" THEN Stacks ELSE {Prim}
    IN  \E fails \in SUBSET used :
          /\ job[c].pc = "send"
          /\ faults + Cardinality(fails) <= MaxFaults
          /\ faults' = faults + Cardinality(fails)
          /\ rxbufstat' = [st \in Stacks |->
                IF st \in used THEN OutStat(rxbufstat, st, i, st \notin fails)[st] ELSE rxbufstat[st]]
          /\ wire' = wire \union
                UNION {Sent(st, st, IF st = Prim THEN txbuf[i] ELSE Dummy(i), n) : st \in used \ fails}
          /\ job' = [job EXCEPT ![c].pc = "wait", ![c].tries = @ + 1,
                        ![c].wkc = [s \in Stacks |-> IF s = Sec /\ redstate = "none" THEN 0 ELSE NoFrame],
                        ![c].clean = @ /\ fails = {}]
          /\ UNCHANGED <<redstate, lastidx, txbuf, rxbuf, rxsa, cut, handed>>

Waits(c, st) ==
    \/ job[c].pc = "wait" /\ job[c].wkc[st] <= NoFrame
    \/ job[c].pc = "reroute" /\ st = Sec /\ job[c].wkc[Sec] <= NoFrame

\* Another caller may have read this caller's frame: it is looked for without the
\* lock, and the port is read under the lock when it is not there.
InFrameStored(c, st) ==
    LET i == job[c].idx
    IN  /\ Waits(c, st) /\ rxbufstat[st][i] = "RCVD"
        /\ rxbufstat' = [rxbufstat EXCEPT ![st][i] = "COMPLETE"]
        /\ job' = [job EXCEPT ![c].wkc[st] = Wkc(rxbuf[st][i])]
        /\ UNCHANGED <<redstate, lastidx, txbuf, rxbuf, rxsa, wire, cut, handed, faults>>

InFrameMissing(c, st) ==
    /\ Waits(c, st) /\ rxbufstat[st][job[c].idx] # "RCVD"
    /\ job' = [job EXCEPT ![c].pc = "read", ![c].reads = st, ![c].back = job[c].pc]
    /\ UNCHANGED <<redstate, lastidx, txbuf, rxbufstat, rxbuf, rxsa, wire, cut, handed, faults>>

NothingToRead(c) ==
    /\ job[c].pc = "read"
    /\ job' = [job EXCEPT ![c].pc = job[c].back]
    /\ UNCHANGED <<redstate, lastidx, txbuf, rxbufstat, rxbuf, rxsa, wire, cut, handed, faults>>

Store(st, i, f, s) ==
    /\ rxbuf' = [rxbuf EXCEPT ![st][i] = f.frame]
    /\ rxsa' = [rxsa EXCEPT ![st][i] = f.sa]
    /\ rxbufstat' = [rxbufstat EXCEPT ![st][i] = s]

\* Its own frame is taken whatever the status of the buffer says; that of another
\* index only when its caller has sent and waits. A frame cut short is left alone.
InFrameRead(c) ==
    LET i == job[c].idx
        st == job[c].reads
    IN  \E f \in wire, whole \in BOOLEAN :
          /\ job[c].pc = "read" /\ f.at = st
          /\ whole \/ faults < MaxFaults
          /\ faults' = IF whole THEN faults ELSE faults + 1
          /\ wire' = wire \ {f}
          /\ job' = [job EXCEPT ![c].pc = job[c].back,
                        ![c].wkc[st] = IF whole /\ f.frame.idx = i THEN Wkc(f.frame) ELSE @]
          /\ \/ whole /\ f.frame.idx = i /\ Store(st, i, f, "COMPLETE")
             \/ /\ whole /\ f.frame.idx # i /\ rxbufstat[st][f.frame.idx] = "TX"
                /\ Store(st, f.frame.idx, f, "RCVD")
             \/ /\ ~whole \/ (f.frame.idx # i /\ rxbufstat[st][f.frame.idx] # "TX")
                /\ UNCHANGED <<rxbuf, rxsa, rxbufstat>>
          /\ UNCHANGED <<redstate, lastidx, txbuf, cut, handed>>

-----------------------------------------------------------------------------
(* The end of a wait: both frames are there, or the timer expired.               *)

In(c, st) == job[c].wkc[st] > NoFrame
From(c, st) == IF In(c, st) THEN rxsa[st][job[c].idx] ELSE Nobody

Crossed(c) == redstate = "double" /\ From(c, Prim) = Sec /\ From(c, Sec) = Prim
Turned(c) == redstate = "double" /\ From(c, Prim) \in {Nobody, Prim} /\ From(c, Sec) = Sec

\* srconfirm: sends again while no frame came and its own timer has not expired.
Conclude(c, wkc, clean) ==
    \E again \in {wkc <= NoFrame /\ job[c].tries < MaxSends, FALSE} :
       job' = [job EXCEPT ![c].wkc[Prim] = wkc, ![c].clean = clean,
                          ![c].pc = IF again THEN "send" ELSE "done"]

\* The frame sent round the other way: what the primary port got back of it, if
\* it came back there, so that both halves of the ring add to one frame.
RerouteOriginal(c) == txbuf[job[c].idx]
Rerouted(c) == IF From(c, Prim) = Prim THEN rxbuf[Prim][job[c].idx] ELSE txbuf[job[c].idx]

WaitEnds(c) ==
    LET i == job[c].idx
        clean == job[c].clean /\ \A st \in Stacks : In(c, st) \/ Severed(st)
    IN  /\ job[c].pc = "wait"
        /\ \/ /\ Crossed(c)
              /\ rxbuf' = [rxbuf EXCEPT ![Prim][i] = rxbuf[Sec][i]]
              /\ Conclude(c, job[c].wkc[Sec], clean)
              /\ UNCHANGED <<txbuf, rxbufstat, wire, faults>>
           \/ /\ Turned(c)
              /\ txbuf' = [txbuf EXCEPT ![i] = Rerouted(c)]
              /\ \E ok \in BOOLEAN :
                   /\ ok \/ faults < MaxFaults
                   /\ faults' = IF ok THEN faults ELSE faults + 1
                   /\ rxbufstat' = OutStat(rxbufstat, Sec, i, ok)
                   /\ wire' = IF ok THEN wire \union
                          Sent(Sec, Prim, txbuf'[i], <<job[c].call, MaxSends + job[c].tries>>) ELSE wire
                   /\ job' = [job EXCEPT ![c].pc = "reroute", ![c].wkc[Sec] = NoFrame,
                                         ![c].clean = clean /\ ok]
              /\ UNCHANGED rxbuf
           \/ /\ ~Crossed(c) /\ ~Turned(c)
              /\ Conclude(c, job[c].wkc[Prim], clean)
              /\ UNCHANGED <<txbuf, rxbufstat, rxbuf, wire, faults>>
        /\ UNCHANGED <<redstate, lastidx, rxsa, cut, handed>>

RerouteEnds(c) ==
    LET i == job[c].idx
    IN  /\ job[c].pc = "reroute"
        /\ IF job[c].wkc[Sec] > NoFrame
           THEN /\ rxbuf' = [rxbuf EXCEPT ![Prim][i] = rxbuf[Sec][i]]
                /\ Conclude(c, job[c].wkc[Sec], job[c].clean)
           ELSE /\ Conclude(c, job[c].wkc[Prim], FALSE)
                /\ UNCHANGED rxbuf
        /\ UNCHANGED <<redstate, lastidx, txbuf, rxbufstat, rxsa, wire, cut, handed, faults>>

\* The primitive copies what it asked for and gives its index back. LRWDC has its
\* own counter from the first datagram: the one of the frame is the second's.
Copies(c) ==
    LET p == Primitives[job[c].com]
        first == rxbuf[Prim][job[c].idx].grams[1]
    IN  job[c].wkc[Prim] > 0 /\ p.copies /\ (p.checks => first.com = p.coms[1])

Result(c) ==
    LET first == rxbuf[Prim][job[c].idx].grams[1]
    IN  IF Copies(c) /\ Len(Primitives[job[c].com].coms) = 2 THEN WkcOf(first) ELSE job[c].wkc[Prim]

Return(c) ==
    LET i == job[c].idx
    IN  /\ job[c].pc = "done"
        /\ job' = [job EXCEPT ![c] = [Idle EXCEPT !.call = job[c].call, !.wkc[Prim] = Result(c),
                      !.copied = IF Copies(c) THEN rxbuf[Prim][i].grams[1] ELSE NoDatagram]]
        /\ rxbufstat' = SetBufStat(rxbufstat, i, "EMPTY")
        /\ UNCHANGED <<redstate, lastidx, txbuf, rxbuf, rxsa, wire, cut, handed, faults>>

-----------------------------------------------------------------------------
(* The network: answers come late or never, some cut short; the ring may break.  *)

Break(k) ==
    /\ redstate = "double" /\ cut = Whole
    /\ faults < MaxFaults /\ faults' = faults + 1
    /\ cut' = k
    /\ job' = [c \in Callers |-> [job[c] EXCEPT !.clean = FALSE]]
    /\ UNCHANGED <<redstate, lastidx, txbuf, rxbufstat, rxbuf, rxsa, wire, handed>>

-----------------------------------------------------------------------------
Init ==
    /\ redstate \in {"none", "double"}
    /\ cut \in {Whole} \union IF redstate = "double" THEN 0..Slaves ELSE {}
    /\ lastidx = 0
    /\ txbuf = [i \in Indices |-> Blank]
    /\ rxbufstat = [s \in Stacks |-> [i \in Indices |-> "EMPTY"]]
    /\ rxbuf = [s \in Stacks |-> [i \in Indices |-> Blank]]
    /\ rxsa = [s \in Stacks |-> [i \in Indices |-> Prim]]
    /\ job = [c \in Callers |-> Idle]
    /\ wire = {} /\ handed = 0 /\ faults = 0

CallerStep(c) ==
    \/ OutFrameRed(c) \/ NothingToRead(c) \/ InFrameRead(c)
    \/ WaitEnds(c) \/ RerouteEnds(c) \/ Return(c)
    \/ \E st \in Stacks : InFrameStored(c, st) \/ InFrameMissing(c, st)

Next ==
    \/ \E c \in Callers : CallerStep(c) \/ \E com \in Commands : GetIndex(c, com)
    \/ \E k \in 0..Slaves : Break(k)

Spec == Init /\ [][Next]_vars

-----------------------------------------------------------------------------
\* Type invariant: the buffers, the callers' locals and the frames under way.
TypeOK ==
    /\ redstate \in {"none", "double"} /\ cut \in 0..Whole
    /\ lastidx \in Indices /\ handed \in 0..MaxCalls /\ faults \in 0..MaxFaults
    /\ rxbufstat \in [Stacks -> [Indices -> {"EMPTY", "ALLOC", "TX", "RCVD", "COMPLETE"}]]
    /\ rxsa \in [Stacks -> [Indices -> Stacks]]
    /\ \A c \in Callers :
          /\ job[c].pc \in {"idle", "send", "wait", "read", "reroute", "done"}
          /\ job[c].idx \in Indices /\ job[c].tries \in 0..MaxSends
          /\ \A s \in Stacks : job[c].wkc[s] \in NoFrame..Slaves
    /\ \A f \in wire : f.at \in Stacks /\ f.frame.idx \in Indices

\* An answer that counts is an answer to the caller's own datagram: not a late
\* one to an earlier datagram of the same index, and not one that another caller
\* was waiting for. (With the second port a late dummy, whose call is 0, is taken
\* for the answer that was sent round the other way.)
AnswerIsOwn ==
    \A c \in Callers :
       LET own == {job[c].call} \union IF redstate = "double" THEN {0} ELSE {}
       IN  /\ job[c].pc = "done" /\ job[c].wkc[Prim] > 0 =>
                 rxbuf[Prim][job[c].idx].grams[1].call \in own
           /\ job[c].copied # NoDatagram => job[c].copied.call \in own

\* With the second port, one break of the ring loses no slave: when nothing else
\* goes wrong during a call, every slave it concerns has processed its datagram.
CutIsBridged ==
    redstate = "double" =>
       \A c \in Callers :
          job[c].pc = "done" /\ job[c].clean =>
             LET gram == LastGram(rxbuf[Prim][job[c].idx])
             IN  /\ job[c].wkc[Prim] > NoFrame
                 /\ Targets(gram.com, Addressed, Line) \subseteq gram.visited

\* An index belongs to one call at a time.
IndexHeldOnce ==
    \A c, d \in Callers :
       c # d /\ job[c].pc # "idle" /\ job[d].pc # "idle" => job[c].idx # job[d].idx
====
