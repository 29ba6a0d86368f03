---- MODULE MCEcProcess ----
(* EcProcess for TLC: devices that tell their process data by the dictionary, with *)
(* or without complete access, or by the EEPROM, of bits or of bytes.              *)
EXTENDS EcProcess

Unused == [start |-> 0, length |-> 0, enabled |-> FALSE]
Area(start, bytes) == [start |-> start, bytes |-> bytes]
Known(managers, types) ==
    [sm |-> [i \in Managers |-> IF i \in DOMAIN managers
               THEN [start |-> managers[i].start, length |-> managers[i].bytes, enabled |-> TRUE]
               ELSE Unused],
     type |-> [i \in Managers |-> IF i + 1 \in DOMAIN types THEN types[i + 1] ELSE 0],
     obits |-> 0, ibits |-> 0, obytes |-> 0, ibytes |-> 0,
     outputs |-> Zero, inputs |-> Zero, fmmu |-> <<>>]

\* A device with a mailbox: what its dictionary says, and its process memory.
Talks(identity, ca, types, pdos, takes, gives, managers, blocked) ==
    [identity |-> identity, mailbox |-> TRUE, ca |-> ca, coe |-> [types |-> types, pdos |-> pdos],
     image |-> <<>>, takes |-> takes, gives |-> gives, blockLRW |-> blocked,
     bits |-> <<8 * Sum([i \in DOMAIN takes |-> takes[i].bytes]),
                8 * Sum([i \in DOMAIN gives |-> gives[i].bytes])>>,
     known |-> Known(managers, <<1, 2, 3, 4>>)]

\* A device without: the PDOs of its EEPROM, of a category, on sync manager 0.
Entries(n) == Concat([k \in 1..n |-> <<0, 96, 1, 0, 0, 1, 0, 0>>])
Pdo(n) == <<0, 26, n, 0, 0, 0, 0, 0>> \o Entries(n)
Silent(identity, direction, n) ==
    LET area == Area(64, (n + 7) \div 8)
    IN  [identity |-> identity, mailbox |-> FALSE, ca |-> "none", coe |-> NoTypes,
         image |-> Image([w \in {} |-> 0],
                         <<[cat |-> PDO + (IF direction = Inputs THEN 0 ELSE 1), bytes |-> Pdo(n)]>>),
         takes |-> IF direction = Outputs THEN <<area>> ELSE <<>>,
         gives |-> IF direction = Inputs THEN <<area>> ELSE <<>>, blockLRW |-> FALSE,
         bits |-> IF direction = Outputs THEN <<n, 0>> ELSE <<0, n>>,
         known |-> Known([i \in {0} |-> area], <<>>)]

TwoManagers(out, in) == [i \in {2, 3} |-> IF i = 2 THEN out ELSE in]
Byte8 == <<<<8>>>>
MCDevices == [
    drive |-> Talks(1, "works", <<1, 2, 3, 4>>, [i \in {2, 3} |-> IF i = 2 THEN <<<<4, 4>>>> ELSE <<<<8>>, <<8>>>>],
                    <<Area(32, 1)>>, <<Area(40, 2)>>, TwoManagers(Area(32, 0), Area(40, 0)), FALSE),
    barred |-> Talks(2, "none", <<0, 1, 2, 3>>, [i \in {2, 3} |-> Byte8],
                    <<Area(32, 1)>>, <<Area(40, 1)>>, TwoManagers(Area(32, 4), Area(40, 4)), TRUE),
    denies |-> Talks(3, "refuses", <<1, 2, 0, 0>>, [i \in {2, 3} |-> Byte8],
                    <<Area(32, 1)>>, <<Area(40, 1)>>, TwoManagers(Area(32, 1), Area(40, 1)), FALSE),
    twice |-> Talks(4, "works", <<1, 2, 3, 4, 4>>, [i \in {2, 3, 4} |-> Byte8],
                    <<Area(32, 1)>>, <<Area(40, 1), Area(48, 1)>>,
                    [i \in {2, 3, 4} |-> Area(16 + 8 * i, 0)], FALSE),
    joined |-> Talks(5, "works", <<1, 2, 0, 4, 4>>, [i \in {2, 3, 4} |-> Byte8],
                    <<>>, <<Area(40, 1), Area(41, 1)>>,
                    [i \in {3, 4} |-> Area(37 + i, 0)], FALSE),
    lamps |-> Silent(6, Outputs, 3), switches |-> Silent(7, Inputs, 6), relays |-> Silent(8, Outputs, 8)]

Ring(kinds, overlap) == [kinds |-> kinds, overlap |-> overlap]
Lines == {<<"drive", "lamps">>, <<"lamps", "lamps", "relays">>, <<"lamps", "lamps", "lamps", "switches">>,
          <<"switches", "switches", "drive">>, <<"barred", "lamps">>, <<"denies", "joined">>, <<"twice", "relays">>,
          <<"joined">>, <<"drive", "barred">>, <<"drive", "drive">>}
MCRings == {Ring(kinds, o) : kinds \in Lines, o \in BOOLEAN} \ {Ring(<<"barred", "lamps">>, TRUE), Ring(<<"drive", "barred">>, TRUE)}
====
