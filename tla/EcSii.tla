---- MODULE EcSii ----
(* The slave information in a slave's EEPROM, as ethercatmain.c reads it: a header *)
(* of fixed words, then sections of a category, a length in words, and a content, *)
(* up to an end mark. An image is a function from some byte addresses to bytes;    *)
(* every reader below reads upwards, so the first byte it lacks is the lowest one. *)
EXTENDS Integers, Sequences, FiniteSets, Functions

CONSTANT MaxEepBuf  \* EC_MAXEEPBUF: the bytes of an EEPROM that are cached

MaxName == 40
MaxSM == 8
SiiStart == 2 * 64
Manuf == 8
Id == 10
Rev == 12
RxMbx == 24
TxMbx == 26
MbxProto == 28
Strings == 10
General == 30
FMMU == 40
SM == 41
PDO == 50
End == 65535

\* What is not there reads as erased memory does.
Byte(b, a) == IF a < MaxEepBuf /\ a \in DOMAIN b THEN b[a] ELSE 255
Word(b, a) == Byte(b, a) + 256 * Byte(b, a + 1)

\* The addresses of the section headers that a search for the category passes. An
\* address has 16 bits, so a length may lead back; none of the images has one that
\* leads to a header passed before, from where the search would never end.
Passes(b, cat) ==
    LET from[a \in 0..65535] ==
           IF Word(b, a) \in {cat, End} THEN {a}
           ELSE {a} \union from[(a + 4 + 2 * Word(b, a + 2)) % 65536]
    IN  from[SiiStart]

\* The address of the section's length, 0 when there is no such section.
Find(b, cat) ==
    LET found == {a \in Passes(b, cat) : Word(b, a) = cat}
    IN  IF found = {} THEN 0 ELSE 2 + CHOOSE a \in found : TRUE

Search(b, cat) ==
    UNION {{a, a + 1} \union IF Word(b, a) \in {cat, End} THEN {} ELSE {a + 2, a + 3} :
           a \in Passes(b, cat)}

\* What a reader of a section touches: the search, and what it reads behind it.
Touched(b, cat, behind(_)) ==
    Search(b, cat) \union IF Find(b, cat) = 0 THEN {} ELSE behind(Find(b, cat))

-----------------------------------------------------------------------------
\* String n of the section of strings; empty when there are fewer.
StringAt(b, n) ==
    LET a == Find(b, Strings) + 2
        at[i \in Nat] == IF i = 1 THEN a + 1 ELSE at[i - 1] + 1 + Byte(b, at[i - 1])
        length == Byte(b, at[n])
    IN  IF n > Byte(b, a) THEN <<>>
        ELSE [j \in 1..(IF length < MaxName THEN length ELSE MaxName) |-> Byte(b, at[n] + j)]

\* The name of a slave: its first string; one made of its identity without strings.
Constructed == <<"?">>
NameOf(b) == IF Find(b, Strings) = 0 THEN Constructed ELSE StringAt(b, 1)
NameTouched(b) ==
    LET behind(a) == {a + 2} \union IF Byte(b, a + 2) = 0 THEN {}
                     ELSE (a + 3)..(a + 3 + Len(StringAt(b, 1)))
    IN  Touched(b, Strings, behind)

\* The protocols' details, whether LRW is barred, and the current it draws.
GeneralOf(b) ==
    LET a == Find(b, General)
    IN  IF a = 0 THEN [coe |-> 0, blockLRW |-> FALSE, ebus |-> 0]
        ELSE [coe |-> Byte(b, a + 7), blockLRW |-> (Byte(b, a + 13) \div 2) % 2 = 1,
              ebus |-> Word(b, a + 14)]
GeneralTouched(b) ==
    LET behind(a) == ((a + 7)..(a + 10)) \union ((a + 13)..(a + 15))
    IN  Touched(b, General, behind)

\* The sync managers, eight at most: address, length, control, activation. A section
\* without a whole one leaves the slave with its defaults.
SMCount(b, a) ==
    LET n == Word(b, a) \div 4 IN IF n < MaxSM THEN n ELSE MaxSM
SMAt(b, a) == [start |-> Word(b, a), length |-> Word(b, a + 2),
               flags |-> <<Byte(b, a + 4), Byte(b, a + 6)>>]
SMsOf(b) ==
    LET a == Find(b, SM)
    IN  IF a = 0 THEN <<>> ELSE [n \in 1..SMCount(b, a) |-> SMAt(b, a + 2 + 8 * (n - 1))]
SMsTouched(b) ==
    LET behind(a) == a..(a + 9) \union a..(a + 1 + 8 * SMCount(b, a))
    IN  Touched(b, SM, behind)

\* The functions of the first four FMMUs; 255 leaves a function as it is, and the
\* third and fourth are read only of a section longer than a word.
Kept == 255
FMMUsOf(b) ==
    LET a == Find(b, FMMU)
        n == Word(b, a) * 2
        func(i) == IF i < 2 \/ n > 2 THEN Byte(b, a + 2 + i) ELSE 0
    IN  [i \in 0..3 |-> IF a = 0 \/ n = 0 \/ func(i) = Kept THEN 0 ELSE func(i)]
FMMUsTouched(b) ==
    LET behind(a) == a..(a + 3) \union IF Word(b, a) * 2 > 2 THEN {a + 4, a + 5} ELSE {}
    IN  Touched(b, FMMU, behind)

\* The process data of one direction (0 and 1 select the category): the bits of each
\* PDO, by sync manager. At least one PDO is read; one whose sync manager is out of
\* range is inactive, and its entries are passed over. c counts the words read.
PDOBits(b, t) ==
    LET start == Find(b, PDO + t)
        length == Word(b, start)
        entries(a) == Byte(b, a + 2)
        active(a) == Byte(b, a + 3) < MaxSM
        bits[a \in Nat] ==
           LET sum[e \in Nat] == IF e = 0 THEN 0 ELSE sum[e - 1] + Byte(b, a + 8 * e + 5)
           IN  sum[entries(a)]
        from[a \in Nat, c \in Nat] ==
           LET after == c + 4 + 4 * entries(a)
               rest == IF after < length THEN from[a + 8 + 8 * entries(a), after]
                       ELSE [s \in 0..(MaxSM - 1) |-> 0]
           IN  IF active(a) THEN [rest EXCEPT ![Byte(b, a + 3)] = @ + bits[a]] ELSE rest
    IN  IF start = 0 THEN [s \in 0..(MaxSM - 1) |-> 0] ELSE from[start + 2, 1]

-----------------------------------------------------------------------------
(* An image written from what it says, for reference.                            *)

Concat(seqs) ==
    LET all[i \in 0..Len(seqs)] == IF i = 0 THEN <<>> ELSE all[i - 1] \o seqs[i]
    IN  all[Len(seqs)]
LowHigh(w) == <<w % 256, w \div 256>>
SectionOf(cat, bytes) ==
    LET even == IF Len(bytes) % 2 = 0 THEN bytes ELSE bytes \o <<0>>
    IN  LowHigh(cat) \o LowHigh(Len(even) \div 2) \o even

\* The words of the header, by word address, and the sections that follow it.
Image(header, sections) ==
    LET tail == Concat([i \in DOMAIN sections |-> SectionOf(sections[i].cat, sections[i].bytes)])
                \o LowHigh(End)
    IN  [a \in 0..(SiiStart + Len(tail) - 1) |->
            IF a >= SiiStart THEN tail[a - SiiStart + 1]
            ELSE IF a \div 2 \in DOMAIN header THEN LowHigh(header[a \div 2])[1 + (a % 2)]
            ELSE 0]
====
