---- MODULE MCEcStartup ----
(* EcStartup and EcClocks for TLC: a drive with a mailbox and eight-byte reads, a simple device *)
(* without either, and plain devices in every shape of ring.                       *)
EXTENDS EcClocks

SmBytes(start, length, control, activate) ==
    LowHigh(start) \o LowHigh(length) \o <<control, 0, activate, 0>>

Drive == [
    r64 |-> TRUE,
    header |-> [w \in {Manuf, Id, Rev, RxMbx, RxMbx + 1, TxMbx, MbxProto} |->
        CASE w = Manuf -> 7 [] w = Id -> 8 [] w = Rev -> 9
          [] w = RxMbx -> 4096 [] w = RxMbx + 1 -> 128 [] w = TxMbx -> 4224 [] w = MbxProto -> 4],
    sections |-> <<[cat |-> Strings, bytes |-> <<1, 2, 68, 49>>],
                   [cat |-> General, bytes |-> <<0, 0, 0, 0, 0, 35, 0, 0, 0, 0, 0, 2, 10, 0>>],
                   [cat |-> FMMU, bytes |-> <<1, 2, 3, 255>>],
                   [cat |-> SM, bytes |-> SmBytes(4096, 128, 38, 1) \o SmBytes(4224, 128, 34, 1)]>>,
    says |-> [identity |-> <<<<7, 0>>, <<8, 0>>, <<9, 0>>>>,
        sii |-> [name |-> <<68, 49>>, general |-> [coe |-> 35, blockLRW |-> TRUE, ebus |-> 10],
                 sms |-> <<Mailbox(4096, 128, <<38, 1>>), Mailbox(4224, 128, <<34, 1>>)>>,
                 fmmus |-> [i \in 0..3 |-> IF i = 3 THEN 0 ELSE i + 1]],
        box |-> <<Mailbox(4096, 128, <<38, 1>>), Mailbox(4224, 128, <<34, 1>>)>>]]

Simple == [
    r64 |-> FALSE,
    header |-> [w \in {Manuf, Id, Rev} |-> CASE w = Manuf -> 7 [] w = Id -> 5 [] w = Rev -> 6],
    sections |-> <<[cat |-> FMMU, bytes |-> <<1, 255>>],
                   [cat |-> SM, bytes |-> SmBytes(3840, 1, 68, 1)]>>,
    says |-> [identity |-> <<<<7, 0>>, <<5, 0>>, <<6, 0>>>>,
        sii |-> [name |-> Constructed, general |-> NoSii.general,
                 sms |-> <<Mailbox(3840, 1, <<68, 1>>)>>,
                 fmmus |-> [i \in 0..3 |-> IF i = 0 THEN 1 ELSE 0]],
        box |-> <<>>]]

Plain == [
    r64 |-> TRUE, header |-> [w \in {Manuf} |-> 3], sections |-> <<>>,
    says |-> [identity |-> <<<<3, 0>>, Nothing, Nothing>>,
              sii |-> [NoSii EXCEPT !.name = Constructed], box |-> <<>>]]

MCKinds == [drive |-> Drive, simple |-> Simple, plain |-> Plain]

\* The shapes of a ring of n devices, in the order of a frame: a device follows the
\* last one, or one of those before it, that has a port left.
PortsLeft(parent, p) == Cardinality({i \in DOMAIN parent : parent[i] = p}) < (IF p = 0 THEN 1 ELSE 3)
Branch(parent, p) ==
    LET up[q \in 0..Len(parent)] == IF q = 0 THEN {0} ELSE {q} \union up[parent[q]]
    IN  p \in up[Len(parent)]
Shapes(n) ==
    LET of[k \in 1..n] ==
          IF k = 1 THEN {<<0>>}
          ELSE {Append(t, p) : t \in of[k - 1], p \in 1..(k - 1)}
        legal(t) == \A k \in 2..n :
          LET before == SubSeq(t, 1, k - 1)
          IN  PortsLeft(before, t[k]) /\ Branch(before, t[k])
    IN  {t \in of[n] : legal(t)}

Line(kinds, f, n) ==
    [kinds |-> kinds, parent |-> [i \in DOMAIN kinds |-> i - 1], faults |-> f, connects |-> n, changes |-> 1]
Tree(parent, f) ==
    [kinds |-> [i \in DOMAIN parent |-> "plain"], parent |-> parent, faults |-> f, connects |-> 1, changes |-> 0]
MCRings ==
    {Line(<<"plain">>, 2, 2), Line(<<"drive">>, 1, 2), Line(<<"drive", "simple">>, 1, 1),
     Line(<<"simple", "drive">>, 1, 1), Line(<<"drive", "drive">>, 1, 1), Line(<<"simple", "simple">>, 1, 2),
     Tree(<<0, 1, 1>>, 1)}
    \union {Tree(t, 0) : t \in Shapes(5)}

\* The children of a device are at its first ports, at its last, or around a free one.
FirstPorts == [n \in 0..3 |-> SubSeq(<<3, 1, 2>>, 1, n)]
LastPorts == [n \in 0..3 |-> SubSeq(<<3, 1, 2>>, 4 - n, 3)]
AroundOne == [n \in 0..3 |-> CASE n = 1 -> <<1>> [] n = 2 -> <<3, 2>> [] OTHER -> FirstPorts[n]]
MCWirings == [r \in MCRings |->
    IF r.changes > 0 THEN {} ELSE IF r.faults > 0 THEN {LastPorts} ELSE {FirstPorts, LastPorts, AroundOne}]
MCWay == <<1, 5, 2, 9, 4>>

\* Clocks apart from each other, and one that turns over behind its first port.
MCSkews == {[p \in 1..5 |-> 70 * p], [p \in 1..5 |-> IF p = 3 THEN 498 ELSE 0]}
====
