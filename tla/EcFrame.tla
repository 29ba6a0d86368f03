---- MODULE EcFrame ----
(* EtherCAT frames and the blocking primitives that exchange them: ethercatbase.c *)
(* of the SOEM library compiled into the program. A frame has an index and one    *)
(* or more datagrams; what a slave adds to a datagram is the set of the slaves    *)
(* that processed it, from which the working counter follows.                     *)
EXTENDS Integers, Sequences, FiniteSets

Broadcast == {"BRD", "BWR"}
Logical == {"LRD", "LWR", "LRW"}

\* A reading command carries zeros, whatever the caller's buffer holds.
WriteDatagramData(com, data) ==
    IF com \in {"NOP", "APRD", "FPRD", "BRD", "LRD"} THEN "zero" ELSE data

Datagram(com, data, call, follows) ==
    [com |-> com, data |-> WriteDatagramData(com, data), call |-> call,
     visited |-> {}, follows |-> follows]

SetupDatagram(idx, com, data, call) ==
    [idx |-> idx, grams |-> <<Datagram(com, data, call, FALSE)>>]

\* The flag "a datagram follows" is set in the first datagram of the frame; of a
\* later one the caller says it when that one is added.
AddDatagram(frame, com, more, data, call) ==
    [frame EXCEPT !.grams = Append([@ EXCEPT ![1].follows = TRUE],
                                   Datagram(com, data, call, more))]

\* Slaves look at a datagram only when the one before it says that it follows.
Seen(frame) ==
    {k \in DOMAIN frame.grams : \A j \in 1..(k - 1) : frame.grams[j].follows}

ProcessedBy(gram, slaves) == [gram EXCEPT !.visited = @ \union slaves]

Passed(frame, slaves) ==
    [frame EXCEPT !.grams =
        [k \in DOMAIN @ |-> IF k \in Seen(frame) THEN ProcessedBy(@[k], slaves) ELSE @[k]]]

\* The slaves that answer a command: one for an address, all for the others.
Targets(com, addressed, slaves) ==
    IF com \in Broadcast \union Logical THEN slaves ELSE {addressed}

(* A primitive: its commands in the frame, whether the answer is copied to the  *)
(* caller's buffer, and whether that needs the command in the answer to match.  *)
Primitive(coms, copies, checks) == [coms |-> coms, copies |-> copies, checks |-> checks]

BWR == Primitive(<<"BWR">>, FALSE, FALSE)
BRD == Primitive(<<"BRD">>, TRUE, FALSE)
APRD == Primitive(<<"APRD">>, TRUE, FALSE)
ARMW == Primitive(<<"ARMW">>, TRUE, FALSE)
FRMW == Primitive(<<"FRMW">>, TRUE, FALSE)
FPRD == Primitive(<<"FPRD">>, TRUE, FALSE)
APWR == Primitive(<<"APWR">>, FALSE, FALSE)
FPWR == Primitive(<<"FPWR">>, FALSE, FALSE)
LRW == Primitive(<<"LRW">>, TRUE, TRUE)
LRD == Primitive(<<"LRD">>, TRUE, TRUE)
LWR == Primitive(<<"LWR">>, FALSE, FALSE)
LRWDC == Primitive(<<"LRW", "FRMW">>, TRUE, TRUE)

Primitives ==
    [BWR |-> BWR, BRD |-> BRD, APRD |-> APRD, ARMW |-> ARMW, FRMW |-> FRMW,
     FPRD |-> FPRD, APWR |-> APWR, FPWR |-> FPWR, LRW |-> LRW, LRD |-> LRD,
     LWR |-> LWR, LRWDC |-> LRWDC]

\* The frame a primitive builds for its call in the buffer of an index.
FrameOf(p, idx, call) ==
    LET first == SetupDatagram(idx, p.coms[1], "buffer", call)
    IN  IF Len(p.coms) = 1 THEN first
        ELSE AddDatagram(first, p.coms[2], FALSE, "buffer", call)
====
