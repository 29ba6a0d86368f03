---- MODULE EcReadProofs ----
(* What a read returns is what the slave holds, for any objects, sizes, plans,      *)
(* counters and numbers of losses, refusals and notices. A segment says neither its *)
(* object nor its place. The argument follows the line of answers, from what the    *)
(* master took last to what the slave answered last. An initial answer in it is     *)
(* what the slave holds and now transfers, unless an answer lies behind it. So a    *)
(* read that finds the mailbox empty takes its own initial answer, and no segment   *)
(* lies behind that one before it is taken. From there on the toggle bits tell the  *)
(* segment it waits for from the one before, which may be sent again, and the slave *)
(* stands behind the last of them, or has broken the transfer off.                  *)
(* The next section follows a verified write: whatever answer it takes, the slave    *)
(* had what the answer tells when it made it. The last one says of the dictionary,    *)
(* whose answers have no toggle bit, that while nothing is lost it is read as it is.  *)
EXTENDS EcCoeProofs, SequenceTheorems

-----------------------------------------------------------------------------
(* What the slave's mailbox may still give: what the master took last, which it may *)
(* ask for again, what the mailbox holds, and what comes behind.                    *)

LineOf(l, s, rs) ==
    LET inbox == IF s = Nothing THEN rs ELSE <<s>> \o rs
    IN  [i \in 0..Len(inbox) |-> IF i = 0 THEN l ELSE inbox[i]]
Line == LineOf(last, sm1, replies)
Letters == FromSlave \union {Nothing}

IsSdo(m) == m # Nothing /\ m.type = "CoE" /\ m.cmd \in {"up", "seg up", "down", "seg down", "abort"}
IsUp(m) == IsSdo(m) /\ m.cmd = "up"
IsSegment(m) == IsSdo(m) /\ m.cmd = "seg up"

\* The answers of SDO in line r come from line q, in its order, and are followed by
\* what followed them.
Passes(q, r) ==
    \E from \in [DOMAIN r -> DOMAIN q] :
       /\ \A i \in DOMAIN r : IsSdo(r[i]) =>
             /\ r[i] = q[from[i]]
             /\ \A b \in DOMAIN q : b > from[i] => \E k \in DOMAIN r : k > i /\ r[k] = q[b]
       /\ \A i, j \in DOMAIN r : i < j => from[i] <= from[j]

LEMMA LineIs ==
    ASSUME NEW l \in Letters, NEW s \in Letters, NEW rs \in Seq(FromSlave)
    PROVE  /\ Len(rs) \in Nat
           /\ s = Nothing => /\ DOMAIN LineOf(l, s, rs) = 0..Len(rs)
                             /\ \A i \in 1..Len(rs) : LineOf(l, s, rs)[i] = rs[i]
           /\ s # Nothing => /\ DOMAIN LineOf(l, s, rs) = 0..(Len(rs) + 1)
                             /\ LineOf(l, s, rs)[1] = s
                             /\ \A i \in 2..(Len(rs) + 1) : LineOf(l, s, rs)[i] = rs[i - 1]
           /\ LineOf(l, s, rs)[0] = l
<1>1. Len(rs) \in Nat
      OBVIOUS
<1>2. CASE s = Nothing
      BY <1>1, <1>2 DEF LineOf
<1>3. CASE s # Nothing
  <2>1. <<s>> \in Seq(FromSlave) /\ Len(<<s>>) = 1 /\ <<s>>[1] = s
        BY <1>3 DEF Letters
  <2>2. /\ Len(<<s>> \o rs) = Len(rs) + 1 /\ (<<s>> \o rs)[1] = s
        /\ \A i \in 2..(Len(rs) + 1) : (<<s>> \o rs)[i] = rs[i - 1]
        BY <1>1, <2>1
  <2> QED
        BY <1>1, <1>3, <2>2 DEF LineOf
<1> QED
      BY <1>1, <1>2, <1>3

LEMMA LineStays ==
    ASSUME NEW q, NEW n \in Nat, DOMAIN q = 0..n
    PROVE  Passes(q, q)
<1> DEFINE from == [i \in DOMAIN q |-> i]
<1>1. from \in [DOMAIN q -> DOMAIN q]
      OBVIOUS
<1>2. \A i \in DOMAIN q : from[i] = i
      OBVIOUS
<1> HIDE DEF from
<1> QED
      BY <1>1, <1>2 DEF Passes

\* The mailbox is filled with the next answer.
LEMMA LineIsAnswered ==
    ASSUME NEW l \in Letters, NEW rs \in Seq(FromSlave), rs # <<>>
    PROVE  LineOf(l, Head(rs), Tail(rs)) = LineOf(l, Nothing, rs)
<1>1. Head(rs) \in FromSlave /\ Head(rs) # Nothing /\ Tail(rs) \in Seq(FromSlave)
      BY ConstantsOK
<1>2. <<Head(rs)>> \o Tail(rs) = rs
      OBVIOUS
<1> QED
      BY <1>1, <1>2 DEF LineOf

\* It is read.
LEMMA LineIsRead ==
    ASSUME NEW l \in Letters, NEW s \in Letters, NEW rs \in Seq(FromSlave), s # Nothing
    PROVE  Passes(LineOf(l, s, rs), LineOf(s, Nothing, rs))
<1> DEFINE q == LineOf(l, s, rs)
           r == LineOf(s, Nothing, rs)
           n == Len(rs)
<1>1. /\ n \in Nat /\ DOMAIN q = 0..(n + 1) /\ q[1] = s /\ (\A i \in 2..(n + 1) : q[i] = rs[i - 1])
      /\ DOMAIN r = 0..n /\ r[0] = s /\ \A i \in 1..n : r[i] = rs[i]
      BY LineIs DEF Letters
<1> HIDE DEF q, r, n
<1> DEFINE from == [i \in 0..n |-> i + 1]
<1>2. from \in [0..n -> 0..(n + 1)] /\ \A i \in 0..n : from[i] = i + 1
      BY <1>1
<1>3. \A i \in 0..n : r[i] = q[i + 1]
      BY <1>1
<1> HIDE DEF from
<1>4. ASSUME NEW i \in 0..n, NEW b \in 0..(n + 1), b > from[i]
      PROVE  \E k \in 0..n : k > i /\ r[k] = q[b]
  <2>1. b - 1 \in 0..n /\ b - 1 > i /\ r[b - 1] = q[b]
        BY <1>1, <1>2, <1>3, <1>4
  <2> QED
        BY <2>1
<1>5. \A i, j \in 0..n : i < j => from[i] <= from[j]
      BY <1>1, <1>2
<1>6. DOMAIN r = 0..n /\ DOMAIN q = 0..(n + 1) /\ \A i \in 0..n : r[i] = q[from[i]]
      BY <1>1, <1>2, <1>3
<1>7. from \in [DOMAIN r -> DOMAIN q]
      BY <1>2, <1>6
<1>8. \A i \in DOMAIN r : /\ r[i] = q[from[i]]
                           /\ \A b \in DOMAIN q : b > from[i] => \E k \in DOMAIN r : k > i /\ r[k] = q[b]
      BY <1>4, <1>6
<1>9. \A i, j \in DOMAIN r : i < j => from[i] <= from[j]
      BY <1>5, <1>6
<1>10. Passes(q, r)
      BY <1>7, <1>8, <1>9 DEF Passes
<1> QED
      BY <1>10 DEF q, r

\* One more letter is put in front of those that were not yet read: what was read last, or a notice.
LEMMA LineIsPreceded ==
    ASSUME NEW q, NEW r, NEW n \in Nat, DOMAIN q = 0..n, DOMAIN r = 0..(n + 1),
           r[0] = q[0], r[1] = q[0] \/ ~IsSdo(r[1]), \A i \in 2..(n + 1) : r[i] = q[i - 1]
    PROVE  Passes(q, r)
<1> DEFINE from == [i \in 0..(n + 1) |-> IF i <= 1 THEN 0 ELSE i - 1]
<1>1. from \in [0..(n + 1) -> 0..n] /\ from[0] = 0 /\ from[1] = 0 /\ \A i \in 2..(n + 1) : from[i] = i - 1
      OBVIOUS
<1> HIDE DEF from
<1>2. ASSUME NEW i \in 0..(n + 1), IsSdo(r[i]) PROVE r[i] = q[from[i]]
  <2>1. i = 0 \/ i = 1 \/ i \in 2..(n + 1)
        OBVIOUS
  <2> QED
        BY <1>1, <1>2, <2>1
<1>3. ASSUME NEW i \in 0..(n + 1), NEW b \in 0..n, b > from[i]
      PROVE  \E k \in 0..(n + 1) : k > i /\ r[k] = q[b]
  <2>1. b + 1 \in 2..(n + 1) /\ b + 1 > i
        BY <1>1, <1>3
  <2>2. r[b + 1] = q[b]
        BY <2>1
  <2> QED
        BY <2>1, <2>2
<1>4. ASSUME NEW i \in 0..(n + 1), NEW j \in 0..(n + 1), i < j PROVE from[i] <= from[j]
  <2>1. from[j] \in 0..n
        BY <1>1
  <2>2. i \in {0, 1} \/ (i \in 2..(n + 1) /\ j \in 2..(n + 1))
        BY <1>4
  <2> QED
        BY SMTT(30), <1>1, <1>4, <2>1, <2>2
<1> QED
      BY <1>1, <1>2, <1>3, <1>4 DEF Passes

LEMMA LineIsNoticed ==
    ASSUME NEW l \in Letters, NEW m \in Letters, NEW rs \in Seq(FromSlave), m # Nothing, ~IsSdo(m)
    PROVE  Passes(LineOf(l, Nothing, rs), LineOf(l, m, rs))
<1> DEFINE q == LineOf(l, Nothing, rs)
           r == LineOf(l, m, rs)
           n == Len(rs)
<1>1. /\ n \in Nat /\ DOMAIN q = 0..n /\ q[0] = l /\ (\A i \in 1..n : q[i] = rs[i])
      /\ DOMAIN r = 0..(n + 1) /\ r[0] = l /\ r[1] = m /\ \A i \in 2..(n + 1) : r[i] = rs[i - 1]
      BY LineIs DEF Letters
<1> HIDE DEF q, r, n
<1>2. \A i \in 2..(n + 1) : r[i] = q[i - 1]
      BY <1>1
<1>3. Passes(q, r)
      BY SMTT(30), <1>1, <1>2, LineIsPreceded
<1> QED
      BY <1>3 DEF q, r

LEMMA LineIsRepeated ==
    ASSUME NEW l \in Letters, NEW s \in Letters, NEW rs \in Seq(FromSlave)
    PROVE  Passes(LineOf(l, s, rs), LineOf(l, l, IF s = Nothing THEN rs ELSE <<s>> \o rs))
<1> DEFINE tail == IF s = Nothing THEN rs ELSE <<s>> \o rs
           q == LineOf(l, s, rs)
           r == LineOf(l, l, tail)
           n == Len(tail)
<1>1. tail \in Seq(FromSlave)
  <2>1. s # Nothing => <<s>> \in Seq(FromSlave)
        BY DEF Letters
  <2> QED
        BY <2>1
<1>2. n \in Nat
      BY <1>1
<1>3. DOMAIN q = 0..n /\ q[0] = l /\ \A i \in 1..n : q[i] = tail[i]
      BY <1>2 DEF LineOf
<1> HIDE DEF tail
<1>4. CASE l = Nothing
  <2>1. r = q
        BY <1>4 DEF LineOf, tail
  <2> HIDE DEF q, r, n
  <2> QED
        BY <1>2, <1>3, <2>1, LineStays DEF q, r, tail
<1>5. CASE l # Nothing
  <2>1. DOMAIN r = 0..(n + 1) /\ r[0] = l /\ r[1] = l /\ \A i \in 2..(n + 1) : r[i] = tail[i - 1]
        BY <1>1, <1>5, LineIs
  <2> HIDE DEF q, r, n
  <2>2. \A i \in 2..(n + 1) : r[i] = q[i - 1]
        BY <1>2, <1>3, <2>1
  <2>3. Passes(q, r)
        BY <1>2, <1>3, <2>1, <2>2, LineIsPreceded
  <2> QED
        BY <2>3 DEF q, r, tail
<1> QED
      BY <1>4, <1>5

LEMMA Joined ==
    ASSUME NEW S, NEW s \in Seq(S), NEW t \in Seq(S)
    PROVE  /\ s \o t \in Seq(S) /\ Len(s \o t) = Len(s) + Len(t) /\ Len(s) \in Nat /\ Len(t) \in Nat
           /\ \A i \in 1..Len(s) : (s \o t)[i] = s[i]
           /\ \A i \in 1..Len(t) : (s \o t)[Len(s) + i] = t[i]
<1> DEFINE u == s \o t
           m == Len(s)
           n == Len(t)
<1>1. m \in Nat /\ n \in Nat
      OBVIOUS
<1>2. u \in Seq(S) /\ Len(u) = m + n /\ \A i \in 1..(m + n) : u[i] = IF i <= m THEN s[i] ELSE t[i - m]
      BY ConcatProperties
<1> HIDE DEF u, m, n
<1>3. \A i \in 1..m : u[i] = s[i]
      BY <1>1, <1>2
<1>4. \A i \in 1..n : u[m + i] = t[i]
  <2> TAKE i \in 1..n
  <2>1. m + i \in 1..(m + n) /\ ~(m + i <= m) /\ (m + i) - m = i
        BY <1>1
  <2> QED
        BY <1>2, <2>1
<1> QED
      BY <1>1, <1>2, <1>3, <1>4 DEF u, m, n

\* Answers are put behind.
LEMMA LineIsLonger ==
    ASSUME NEW l \in Letters, NEW s \in Letters, NEW rs \in Seq(FromSlave), NEW ans \in Seq(FromSlave)
    PROVE  \E n \in Nat :
              /\ DOMAIN LineOf(l, s, rs) = 0..n /\ DOMAIN LineOf(l, s, rs \o ans) = 0..(n + Len(ans))
              /\ \A i \in 0..n : LineOf(l, s, rs \o ans)[i] = LineOf(l, s, rs)[i]
              /\ \A i \in 1..Len(ans) : LineOf(l, s, rs \o ans)[n + i] = ans[i]
<1> DEFINE q == LineOf(l, s, rs)
           r == LineOf(l, s, rs \o ans)
           m == Len(ans)
           k == Len(rs)
           both == rs \o ans
<1>1. /\ both \in Seq(FromSlave) /\ Len(both) = k + m
      /\ \A i \in 1..k : both[i] = rs[i]
      /\ \A i \in 1..m : both[k + i] = ans[i]
      /\ k \in Nat /\ m \in Nat
      BY Joined
<1> HIDE DEF both, m, k
<1>2. CASE s = Nothing
  <2>1. DOMAIN q = 0..k /\ q[0] = l /\ \A i \in 1..k : q[i] = rs[i]
        BY <1>2, LineIs DEF k
  <2>2. DOMAIN r = 0..(k + m) /\ r[0] = l /\ \A i \in 1..(k + m) : r[i] = both[i]
        BY <1>1, <1>2, LineIs
  <2> HIDE DEF q, r
  <2>3. \A i \in 0..k : r[i] = q[i]
        BY <1>1, <2>1, <2>2
  <2>4. \A i \in 1..m : r[k + i] = ans[i]
        BY <1>1, <2>2
  <2> QED
        BY <1>1, <2>1, <2>2, <2>3, <2>4 DEF q, r, m, both
<1>3. CASE s # Nothing
  <2> DEFINE n == k + 1
  <2>1. DOMAIN q = 0..n /\ q[0] = l /\ q[1] = s /\ \A i \in 2..n : q[i] = rs[i - 1]
        BY <1>3, LineIs DEF k
  <2>2. DOMAIN r = 0..(n + m) /\ r[0] = l /\ r[1] = s /\ \A i \in 2..(n + m) : r[i] = both[i - 1]
    <3>1. DOMAIN r = 0..(Len(both) + 1) /\ r[0] = l /\ r[1] = s /\ \A i \in 2..(Len(both) + 1) : r[i] = both[i - 1]
          BY <1>1, <1>3, LineIs DEF both
    <3>2. Len(both) + 1 = n + m
          BY <1>1
    <3> HIDE DEF n, r
    <3> QED
          BY <3>1, <3>2
  <2> HIDE DEF q, r
  <2>3. ASSUME NEW i \in 0..n PROVE r[i] = q[i]
    <3>1. i = 0 \/ i = 1 \/ (i \in 2..n /\ i \in 2..(n + m) /\ i - 1 \in 1..k)
          BY <1>1
    <3> QED
          BY <1>1, <2>1, <2>2, <3>1
  <2>4. ASSUME NEW i \in 1..m PROVE r[n + i] = ans[i]
    <3> DEFINE j == n + i
    <3>1. j \in 2..(n + m) /\ j - 1 = k + i
          BY <1>1
    <3> HIDE DEF j
    <3>2. r[j] = both[j - 1]
          BY <2>2, <3>1
    <3> QED
          BY <1>1, <3>1, <3>2 DEF j
  <2>5. n \in Nat
        BY <1>1
  <2> HIDE DEF n
  <2> QED
        BY <2>1, <2>2, <2>3, <2>4, <2>5 DEF q, r, m, both
<1> QED
      BY <1>2, <1>3

LEMMA LineIsJoined ==
    ASSUME NEW l \in Letters, NEW s \in Letters, NEW rs \in Seq(FromSlave), NEW ans \in Seq(FromSlave),
           \A i \in 1..Len(ans) : ~IsSdo(ans[i])
    PROVE  Passes(LineOf(l, s, rs), LineOf(l, s, rs \o ans))
<1> DEFINE q == LineOf(l, s, rs)
           r == LineOf(l, s, rs \o ans)
           m == Len(ans)
<1>1. m \in Nat
      BY Joined
<1>2. PICK n \in Nat : /\ DOMAIN q = 0..n /\ DOMAIN r = 0..(n + m)
                       /\ \A i \in 0..n : r[i] = q[i]
                       /\ \A i \in 1..m : r[n + i] = ans[i]
      BY ZenonT(60), LineIsLonger
<1> HIDE DEF q, r, m
<1>3. \A i \in 0..(n + m) : IsSdo(r[i]) => i \in 0..n
  <2> SUFFICES ASSUME NEW i \in 0..(n + m), i \notin 0..n PROVE ~IsSdo(r[i])
      OBVIOUS
  <2>1. i - n \in 1..m /\ n + (i - n) = i
        BY <1>1
  <2>2. r[i] = ans[i - n]
        BY <1>2, <2>1
  <2> QED
        BY <2>1, <2>2 DEF m
<1> DEFINE from == [i \in 0..(n + m) |-> IF i <= n THEN i ELSE n]
<1>4. from \in [0..(n + m) -> 0..n] /\ (\A i \in 0..n : from[i] = i) /\ \A i \in 0..(n + m) : i > n => from[i] = n
      BY <1>1
<1> HIDE DEF from
<1>5. \A i, j \in 0..(n + m) : i < j => from[i] <= from[j]
      BY <1>1, <1>4
<1>6. ASSUME NEW i \in 0..n, NEW b \in 0..n, b > from[i]
      PROVE  \E k \in 0..(n + m) : k > i /\ r[k] = q[b]
  <2>1. b \in 0..(n + m) /\ b > i /\ r[b] = q[b]
        BY <1>1, <1>2, <1>4, <1>6
  <2> QED
        BY <2>1
<1>7. Passes(q, r)
  <2>1. from \in [DOMAIN r -> DOMAIN q]
        BY <1>2, <1>4
  <2>2. \A i, j \in DOMAIN r : i < j => from[i] <= from[j]
        BY <1>2, <1>5
  <2>3. ASSUME NEW i \in DOMAIN r, IsSdo(r[i]) PROVE i \in 0..n /\ r[i] = q[from[i]]
        BY <1>2, <1>3, <1>4, <2>3
  <2>4. ASSUME NEW i \in DOMAIN r, IsSdo(r[i]), NEW b \in DOMAIN q, b > from[i]
        PROVE  \E k \in DOMAIN r : k > i /\ r[k] = q[b]
    <3>1. i \in 0..n /\ b \in 0..n
          BY <1>2, <2>3, <2>4
    <3>2. \E k \in 0..(n + m) : k > i /\ r[k] = q[b]
          BY <1>6, <2>4, <3>1, Zenon
    <3> QED
          BY <1>2, <3>2, Zenon
  <2> QED
        BY <2>1, <2>2, <2>3, <2>4 DEF Passes
<1> QED
      BY <1>7 DEF q, r

-----------------------------------------------------------------------------
(* The invariant of reading.                                                       *)

\* The slave's transfer of an object stands behind so many parts, or it is broken off.
Supplying(o, done, toggle) ==
    \/ xfer.way = "none"
    \/ /\ xfer.way = "up" /\ xfer.obj = o /\ xfer.of = Size[o] /\ xfer.val = val[o]
       /\ xfer.done = done /\ xfer.toggle = toggle

\* A read that found nothing of an earlier call when it asked, from its request until
\* the next call: it waits for the initial answer, or for segments.
Reads == coe.op = "up" /\ coe.clear /\ (coe.pc = "ready" => coe.seg)
Begins == Reads /\ coe.pc # "idle" /\ ~coe.seg
Segments == Reads /\ coe.pc # "idle" /\ coe.seg
Got == Len(coe.got)
IsInitial(m) == m.type = "CoE" /\ m.cmd = "up" /\ m.obj = coe.obj
IsRest(m) == m.type = "CoE" /\ m.cmd = "seg up"

CallSays ==
    /\ link.op = "put" => sm0 = Nothing
    /\ link.op \in Writing => coe.pc \in {"send", "transfer"}
    /\ coe.pc = "receive" /\ link.op = "done" /\ link.wkc = 1 => link.msg = last
    /\ coe.op = "up" /\ ~coe.seg => coe.toggle = FALSE

\* An initial answer says what the slave holds and transfers, or it is followed by what
\* was answered since.
LineSays ==
    \A i \in DOMAIN Line : IsUp(Line[i]) =>
       /\ Line[i].obj \in Objects /\ Line[i].of = Size[Line[i].obj]
       /\ \/ Line[i].val = val[Line[i].obj] /\ Supplying(Line[i].obj, 1, FALSE)
          \/ \E j \in DOMAIN Line : j > i /\ IsSdo(Line[j])

OwnSays ==
    Reads =>
       /\ sm0 # Nothing => IsInitial(sm0) \/ IsRest(sm0)
       /\ link.op \in Writing => IsInitial(link.msg) \/ IsRest(link.msg)

BeginsSays ==
    Begins =>
       /\ sm0 # Nothing => IsInitial(sm0)
       /\ link.op \in Writing => IsInitial(link.msg)
       /\ \A i, j \in DOMAIN Line : i < j /\ IsUp(Line[i]) => ~IsSegment(Line[j])
       /\ \A i \in DOMAIN Line : IsUp(Line[i]) /\ Line[i].obj = coe.obj =>
             Line[i].val = val[coe.obj] /\ Supplying(coe.obj, 1, FALSE)

GotSays ==
    Segments =>
       /\ coe.of = Size[coe.obj] /\ Got \in 1..coe.of
       /\ coe.got = [k \in 1..Got |-> <<val[coe.obj], k>>]

\* The segment that is waited for is the next one; one with the other toggle bit is the
\* one before it, and lies before it.
SegmentsSay ==
    Segments =>
       /\ link.op \in Writing => IsRest(link.msg) /\ link.msg.toggle = coe.toggle
       /\ \A i \in DOMAIN Line : IsSegment(Line[i]) =>
             /\ Line[i].val = val[coe.obj]
             /\ Line[i].part = IF Line[i].toggle = coe.toggle THEN Got + 1 ELSE Got
             /\ Line[i].toggle = coe.toggle => Supplying(coe.obj, Got + 1, ~coe.toggle)
       /\ \A i, j \in DOMAIN Line :
             i < j /\ IsSegment(Line[i]) /\ IsSegment(Line[j]) /\ Line[i].toggle = coe.toggle =>
                Line[j].toggle = coe.toggle
       /\ Supplying(coe.obj, Got, coe.toggle) \/ Supplying(coe.obj, Got + 1, ~coe.toggle)
       /\ sm0 # Nothing /\ IsInitial(sm0) =>
             /\ Got = 1 /\ coe.toggle = FALSE /\ Supplying(coe.obj, 1, FALSE)
             /\ \A i \in DOMAIN Line : ~IsSegment(Line[i])
       /\ sm0 # Nothing /\ IsRest(sm0) /\ sm0.toggle # coe.toggle => Supplying(coe.obj, Got, coe.toggle)

ReadSays ==
    Reads /\ coe.pc = "idle" /\ coe.ok =>
       /\ coe.obj \in Objects
       /\ coe.got = [k \in 1..Size[coe.obj] |-> <<val[coe.obj], k>>]

VerifySays ==
    /\ app.phase \in {"before", "after", "verified"} => coe.op = "up" /\ coe.obj = app.obj
    /\ app.phase = "verified" =>
          coe.pc = "idle" /\ coe.ok /\ coe.got = [k \in 1..Size[coe.obj] |-> <<app.val, k>>]

ReadInv ==
    /\ CallSays /\ LineSays /\ OwnSays /\ BeginsSays /\ GotSays /\ SegmentsSay /\ ReadSays /\ VerifySays

\* What is read, repeated, noticed or answered by another service does not change any of it.
LEMMA LinePassesOn ==
    ASSUME LineSays, Passes(Line, Line'), val' = val, xfer' = xfer \/ xfer'.way = "none"
    PROVE  LineSays'
<1> DEFINE q == Line
           r == Line'
           fresh(m) == m.val = val[m.obj] /\ Supplying(m.obj, 1, FALSE)
<1>1. \A i \in DOMAIN q : IsUp(q[i]) =>
         /\ q[i].obj \in Objects /\ q[i].of = Size[q[i].obj]
         /\ fresh(q[i]) \/ \E j \in DOMAIN q : j > i /\ IsSdo(q[j])
      BY DEF LineSays
<1>2. PICK from \in [DOMAIN r -> DOMAIN q] :
         \A i \in DOMAIN r : IsSdo(r[i]) =>
             /\ r[i] = q[from[i]]
             /\ \A b \in DOMAIN q : b > from[i] => \E k \in DOMAIN r : k > i /\ r[k] = q[b]
      BY DEF Passes
<1>3. (\A i \in DOMAIN r : IsUp(r[i]) =>
         /\ r[i].obj \in Objects /\ r[i].of = Size[r[i].obj]
         /\ fresh(r[i]) \/ \E j \in DOMAIN r : j > i /\ IsSdo(r[j])) => LineSays'
      BY DEF LineSays, Supplying
<1> HIDE DEF q, r, fresh
<1>4. ASSUME NEW i \in DOMAIN r, IsUp(r[i])
      PROVE  /\ r[i].obj \in Objects /\ r[i].of = Size[r[i].obj]
             /\ fresh(r[i]) \/ \E j \in DOMAIN r : j > i /\ IsSdo(r[j])
  <2>1. from[i] \in DOMAIN q /\ r[i] = q[from[i]] /\ IsUp(q[from[i]])
        BY <1>2, <1>4 DEF IsUp
  <2>2. CASE fresh(q[from[i]])
        BY <1>1, <2>1, <2>2
  <2>3. CASE \E j \in DOMAIN q : j > from[i] /\ IsSdo(q[j])
    <3>1. PICK j \in DOMAIN q : j > from[i] /\ IsSdo(q[j])
          BY <2>3
    <3>2. PICK k \in DOMAIN r : k > i /\ r[k] = q[j]
          BY <1>2, <1>4, <3>1 DEF IsUp
    <3> QED
          BY <1>1, <2>1, <3>1, <3>2
  <2> QED
        BY <1>1, <2>1, <2>2, <2>3
<1> QED
      BY <1>3, <1>4

LEMMA LinePlaces ==
    ASSUME BoxTypes
    PROVE  \E n \in Nat : DOMAIN Line = 0..n
<1>1. last \in Letters /\ sm1 \in Letters /\ replies \in Seq(FromSlave)
      BY DEF BoxTypes, Letters
<1>2. Len(replies) \in Nat /\ Len(replies) + 1 \in Nat
      BY <1>1
<1>3. DOMAIN Line = 0..Len(replies) \/ DOMAIN Line = 0..(Len(replies) + 1)
      BY <1>1, LineIs DEF Line
<1> QED
      BY <1>2, <1>3

LEMMA BeginsPassesOn ==
    ASSUME BoxTypes, BeginsSays, Begins, Passes(Line, Line'), UNCHANGED <<coe, val, xfer>>
    PROVE  /\ \A i, j \in DOMAIN Line' : i < j /\ IsUp(Line'[i]) => ~IsSegment(Line'[j])
           /\ \A i \in DOMAIN Line' : IsUp(Line'[i]) /\ Line'[i].obj = coe.obj =>
                 Line'[i].val = val[coe.obj] /\ Supplying(coe.obj, 1, FALSE)
<1> DEFINE q == Line
           r == Line'
<1>1. /\ \A i, j \in DOMAIN q : i < j /\ IsUp(q[i]) => ~IsSegment(q[j])
      /\ \A i \in DOMAIN q : IsUp(q[i]) /\ q[i].obj = coe.obj => q[i].val = val[coe.obj] /\ Supplying(coe.obj, 1, FALSE)
      BY DEF BeginsSays
<1>2. PICK from \in [DOMAIN r -> DOMAIN q] :
         /\ \A i \in DOMAIN r : IsSdo(r[i]) => r[i] = q[from[i]]
         /\ \A i, j \in DOMAIN r : i < j => from[i] <= from[j]
      BY DEF Passes
<1> HIDE DEF q, r
<1>3. ASSUME NEW i \in DOMAIN r, NEW j \in DOMAIN r, i < j, IsUp(r[i]) PROVE ~IsSegment(r[j])
  <2> SUFFICES ASSUME IsSegment(r[j]) PROVE FALSE
      OBVIOUS
  <2>1. r[i] = q[from[i]] /\ r[j] = q[from[j]] /\ from[i] <= from[j]
        BY <1>2, <1>3 DEF IsUp, IsSegment
  <2>2. r[i] # r[j]
        BY <1>3 DEF IsUp, IsSegment
  <2>3. from[i] \in Int /\ from[j] \in Int
        BY LinePlaces DEF q
  <2>4. from[i] < from[j]
        BY <2>1, <2>2, <2>3
  <2> QED
        BY <1>1, <1>3, <2>1, <2>4
<1>4. ASSUME NEW i \in DOMAIN r, IsUp(r[i]), r[i].obj = coe.obj
      PROVE  r[i].val = val[coe.obj] /\ Supplying(coe.obj, 1, FALSE)
  <2>1. from[i] \in DOMAIN q /\ r[i] = q[from[i]]
        BY <1>2, <1>4 DEF IsUp
  <2> QED
        BY <1>1, <1>4, <2>1
<1> QED
      BY <1>3, <1>4 DEF q, r

\* The segments on the line, by what they carry.
SegmentFits(m) ==
    /\ m.val = val[coe.obj]
    /\ m.part = IF m.toggle = coe.toggle THEN Got + 1 ELSE Got
    /\ m.toggle = coe.toggle => Supplying(coe.obj, Got + 1, ~coe.toggle)
SegmentsFit(q) ==
    /\ \A i \in DOMAIN q : IsSegment(q[i]) => SegmentFits(q[i])
    /\ \A i, j \in DOMAIN q :
          i < j /\ IsSegment(q[i]) /\ IsSegment(q[j]) /\ q[i].toggle = coe.toggle => q[j].toggle = coe.toggle
NoSegment(q) == \A i \in DOMAIN q : ~IsSegment(q[i])

LEMMA SegmentsPassOn ==
    ASSUME BoxTypes, Passes(Line, Line')
    PROVE  /\ SegmentsFit(Line) => SegmentsFit(Line')
           /\ NoSegment(Line) => NoSegment(Line')
<1> DEFINE q == Line
           r == Line'
<1>1. PICK from \in [DOMAIN r -> DOMAIN q] :
         /\ \A i \in DOMAIN r : IsSdo(r[i]) => r[i] = q[from[i]]
         /\ \A i, j \in DOMAIN r : i < j => from[i] <= from[j]
      BY DEF Passes
<1>2. \A i \in DOMAIN q : i \in Int
      BY LinePlaces
<1> HIDE DEF q, r
<1>3. ASSUME NEW i \in DOMAIN r, IsSegment(r[i])
      PROVE  from[i] \in DOMAIN q /\ r[i] = q[from[i]] /\ IsSegment(q[from[i]])
      BY <1>1, <1>3 DEF IsSegment
<1>4. NoSegment(q) => NoSegment(r)
      BY <1>3 DEF NoSegment
<1>5. ASSUME SegmentsFit(q) PROVE SegmentsFit(r)
  <2>1. ASSUME NEW i \in DOMAIN r, IsSegment(r[i]) PROVE SegmentFits(r[i])
        BY <1>3, <1>5, <2>1 DEF SegmentsFit
  <2>2. ASSUME NEW i \in DOMAIN r, NEW j \in DOMAIN r, i < j, IsSegment(r[i]), IsSegment(r[j]),
               r[i].toggle = coe.toggle
        PROVE  r[j].toggle = coe.toggle
    <3>1. from[i] \in DOMAIN q /\ r[i] = q[from[i]] /\ from[j] \in DOMAIN q /\ r[j] = q[from[j]]
          /\ IsSegment(q[from[i]]) /\ IsSegment(q[from[j]])
          BY <1>3, <2>2
    <3>2. from[i] = from[j] \/ from[i] < from[j]
          BY <1>1, <1>2, <2>2, <3>1
    <3>3. CASE from[i] = from[j]
          BY <2>2, <3>1, <3>3
    <3>4. CASE from[i] < from[j]
          BY <1>5, <2>2, <3>1, <3>4 DEF SegmentsFit
    <3> QED
          BY <3>2, <3>3, <3>4
  <2> QED
        BY <2>1, <2>2 DEF SegmentsFit
<1> QED
      BY <1>4, <1>5 DEF q, r

\* A step of the link layer, of the slave's mailbox or of another service of the slave.
Passing ==
    /\ UNCHANGED <<coe, app, val, xfer>>
    /\ Passes(Line, Line')
    /\ sm0' \in {sm0, Nothing} \/ (link.op \in Writing /\ sm0' = link.msg)
    /\ link'.op \in Writing => link.op \in Writing /\ link'.msg = link.msg
    /\ link'.op = "put" => sm0' = Nothing
    /\ coe.pc = "receive" /\ link'.op = "done" /\ link'.wkc = 1 => link'.msg = last'

LEMMA PassingKeeps ==
    ASSUME BoxTypes, ReadInv, Passing
    PROVE  ReadInv'
<1>1. /\ coe' = coe /\ app' = app /\ val' = val /\ xfer' = xfer
      /\ Reads' = Reads /\ Begins' = Begins /\ Segments' = Segments /\ Got' = Got
      BY DEF Passing, Reads, Begins, Segments, Got
<1>2. LineSays'
      BY <1>1, LinePassesOn DEF ReadInv, Passing
<1>3. CallSays' /\ OwnSays'
      BY <1>1 DEF ReadInv, Passing, CallSays, OwnSays, IsInitial, IsRest
<1>4. BeginsSays'
  <2> SUFFICES ASSUME Begins PROVE BeginsSays'
      BY <1>1 DEF BeginsSays
  <2>1. /\ \A i, j \in DOMAIN Line' : i < j /\ IsUp(Line'[i]) => ~IsSegment(Line'[j])
        /\ \A i \in DOMAIN Line' : IsUp(Line'[i]) /\ Line'[i].obj = coe.obj =>
              Line'[i].val = val[coe.obj] /\ Supplying(coe.obj, 1, FALSE)
        BY BeginsPassesOn DEF ReadInv, Passing
  <2>2. /\ sm0' # Nothing => IsInitial(sm0')
        /\ link'.op \in Writing => IsInitial(link'.msg)
        BY DEF ReadInv, Passing, BeginsSays
  <2> QED
        BY <1>1, <2>1, <2>2 DEF BeginsSays, IsInitial, Supplying
<1>5. GotSays' /\ ReadSays' /\ VerifySays'
      BY <1>1 DEF ReadInv, GotSays, ReadSays, VerifySays
<1>6. SegmentsSay'
  <2> SUFFICES ASSUME Segments PROVE SegmentsSay'
      BY <1>1 DEF SegmentsSay
  <2>1. SegmentsFit(Line)
        BY DEF ReadInv, SegmentsSay, SegmentsFit, SegmentFits
  <2>2. SegmentsFit(Line') /\ (NoSegment(Line) => NoSegment(Line'))
        BY <2>1, SegmentsPassOn DEF Passing
  <2>3. link'.op \in Writing => IsRest(link'.msg) /\ link'.msg.toggle = coe.toggle
        BY DEF ReadInv, Passing, SegmentsSay
  <2>4. Supplying(coe.obj, Got, coe.toggle) \/ Supplying(coe.obj, Got + 1, ~coe.toggle)
        BY DEF ReadInv, SegmentsSay
  <2>5. sm0' # Nothing /\ IsInitial(sm0') =>
           Got = 1 /\ coe.toggle = FALSE /\ Supplying(coe.obj, 1, FALSE) /\ NoSegment(Line')
        BY <2>2 DEF ReadInv, Passing, SegmentsSay, IsInitial, IsRest, NoSegment
  <2>6. sm0' # Nothing /\ IsRest(sm0') /\ sm0'.toggle # coe.toggle => Supplying(coe.obj, Got, coe.toggle)
        BY DEF ReadInv, Passing, SegmentsSay
  <2> QED
        BY <1>1, <2>2, <2>3, <2>4, <2>5, <2>6 DEF SegmentsSay, SegmentsFit, SegmentFits, NoSegment, Supplying,
           IsInitial, IsRest
<1> QED
      BY <1>2, <1>3, <1>4, <1>5, <1>6 DEF ReadInv

LEMMA BoxesAreTyped ==
    ASSUME BoxTypes
    PROVE  last \in Letters /\ sm1 \in Letters /\ replies \in Seq(FromSlave) /\ Passes(Line, Line)
<1>1. last \in Letters /\ sm1 \in Letters /\ replies \in Seq(FromSlave)
      BY DEF BoxTypes, Letters
<1> QED
      BY <1>1, LinePlaces, LineStays

\* The boxes as they were, or one answer less in them.
LEMMA LinkReads ==
    ASSUME BoxTypes, LinkStep
    PROVE  Passes(Line, Line')
<1>1. /\ replies' = replies
      /\ UNCHANGED <<sm1, last>> \/ (sm1 # Nothing /\ sm1' = Nothing /\ last' = sm1)
      BY DEF LinkStep, MbxEmptySeen, MbxEmptyEnds, MbxSend, MbxSendLost, MbxSendAgain, AwaitFull, AwaitEnds,
             FetchNotice, FetchAnswer, FetchLost, Toggle, ToggleAcked, AgainFull, RepeatExpires, slavebox
<1>2. CASE UNCHANGED <<sm1, last>>
  <2>1. Line' = Line
        BY <1>1, <1>2 DEF Line
  <2> QED
        BY <2>1, BoxesAreTyped
<1>3. CASE sm1 # Nothing /\ sm1' = Nothing /\ last' = sm1
  <2>1. Line' = LineOf(sm1, Nothing, replies)
        BY <1>1, <1>3 DEF Line
  <2> QED
        BY <1>3, <2>1, BoxesAreTyped, LineIsRead DEF Line
<1> QED
      BY <1>1, <1>2, <1>3

LEMMA LinkWrites ==
    ASSUME LinkTypes, CallSays, LinkStep
    PROVE  /\ sm0' \in {sm0, Nothing} \/ (link.op \in Writing /\ sm0' = link.msg)
           /\ link'.op \in Writing => link.op \in Writing /\ link'.msg = link.msg
           /\ link'.op = "put" => sm0' = Nothing
           /\ coe.pc = "receive" /\ link'.op = "done" /\ link'.wkc = 1 => link'.msg = last'
<1>1. /\ link \in LinkRecords /\ "put" \in LinkOps /\ "resend" \in LinkOps /\ "fetch" \in LinkOps
      /\ "toggle" \in LinkOps /\ "ack" \in LinkOps /\ "again" \in LinkOps /\ "done" \in LinkOps
      BY DEF LinkTypes, LinkOps
<1>2. ASSUME NEW op \in LinkOps, Goto(op) PROVE link'.op = op /\ link'.msg = link.msg
      BY <1>1, <1>2, LinkEdits DEF Goto
<1>3. ASSUME NEW op \in LinkOps, NEW bit, link' = [link EXCEPT !.op = op, !.bit = bit] PROVE link'.op = op
      BY <1>1, <1>3 DEF LinkRecords
<1>4. ASSUME NEW wkc, NEW m, Finish(wkc, m) PROVE link'.op = "done" /\ link'.wkc = wkc /\ link'.msg = m
  <2>1. link' = [link EXCEPT !.op = "done", !.wkc = wkc, !.msg = m]
        BY <1>4 DEF Finish, Done
  <2> QED
        BY <1>1, <2>1 DEF LinkRecords
<1>5. CASE MbxEmptySeen
  <2>1. link'.op = "put" /\ link'.msg = link.msg /\ link.op \in Writing /\ sm0' = sm0 /\ sm0 = Nothing
        BY <1>1, <1>2, <1>5 DEF MbxEmptySeen, slavebox, Writing
  <2> QED
        BY <2>1
<1>6. CASE MbxSendLost
  <2>1. /\ link'.op = "resend" /\ link'.msg = link.msg /\ link.op \in Writing
        /\ sm0' \in {Nothing, link.msg}
        BY <1>1, <1>2, <1>6 DEF MbxSendLost, Writing
  <2> QED
        BY <2>1
<1>7. CASE MbxSend \/ MbxSendAgain
  <2>1. /\ link'.op = "done" /\ link.op \in Writing
        /\ sm0' = sm0 \/ sm0' = link.msg
        BY <1>4, <1>7 DEF MbxSend, MbxSendAgain, Writing
  <2>2. coe.pc # "receive"
        BY <2>1 DEF CallSays
  <2> QED
        BY <2>1, <2>2 DEF Writing
<1>8. CASE FetchAnswer
  <2>1. link'.op = "done" /\ link'.msg = last' /\ sm0' = sm0
        BY <1>4, <1>8 DEF FetchAnswer
  <2> QED
        BY <2>1 DEF Writing
<1>9. CASE FetchNotice
  <2>1. /\ sm0' = sm0
        /\ (link'.op = "done" /\ link'.wkc = 0) \/ link'.op = "fetch"
        BY <1>1, <1>2, <1>4, <1>9 DEF FetchNotice
  <2> QED
        BY <2>1 DEF Writing
<1>10. CASE MbxEmptyEnds \/ AwaitEnds \/ RepeatExpires
  <2>1. sm0' = sm0 /\ link'.op = "done" /\ link'.wkc = 0
        BY <1>4, <1>10 DEF MbxEmptyEnds, AwaitEnds, RepeatExpires, slavebox
  <2> QED
        BY <2>1 DEF Writing
<1>11. CASE AwaitFull \/ AgainFull \/ Toggle
  <2>1. sm0' = sm0 /\ link'.op \in {"fetch", "ack"}
        BY <1>1, <1>3, <1>11 DEF AwaitFull, AgainFull, Toggle, slavebox
  <2> QED
        BY <2>1 DEF Writing
<1>12. CASE FetchLost \/ ToggleAcked
  <2>1. sm0' = sm0 /\ link'.op \in {"toggle", "again"}
        BY <1>1, <1>2, <1>12 DEF FetchLost, ToggleAcked, slavebox
  <2> QED
        BY <2>1 DEF Writing
<1> QED
      BY <1>5, <1>6, <1>7, <1>8, <1>9, <1>10, <1>11, <1>12 DEF LinkStep

LEMMA LinkPasses ==
    ASSUME Types, CallSays, LinkStep, UNCHANGED <<coe, app, val, xfer>>
    PROVE  Passing
BY LinkReads, LinkWrites DEF Passing, Types, MailTypes

\* Notices are of no service.
LEMMA NoticesAreNone ==
    ASSUME NEW m \in {[type |-> "CoE", cmd |-> "emergency"], [type |-> "error", cmd |-> "mailbox error"],
                      Fragment(1, 0, 1, <<>>, FALSE)}
    PROVE  ~IsSdo(m) /\ (m.type # "CoE" \/ m.cmd = "emergency")
<1>1. CASE m = [type |-> "CoE", cmd |-> "emergency"]
  <2>1. m.cmd = "emergency"
        BY <1>1
  <2> QED
        BY <2>1 DEF IsSdo
<1>2. CASE m = [type |-> "error", cmd |-> "mailbox error"]
  <2>1. m.type = "error"
        BY <1>2
  <2> QED
        BY <2>1 DEF IsSdo
<1>3. CASE m = Fragment(1, 0, 1, <<>>, FALSE)
  <2>1. m.type = "EoE"
        BY <1>3 DEF Fragment
  <2> QED
        BY <2>1 DEF IsSdo
<1> QED
      BY <1>1, <1>2, <1>3

LEMMA MailboxPasses ==
    ASSUME BoxTypes, SlaveMailbox
    PROVE  Passes(Line, Line')
<1>1. last \in Letters /\ sm1 \in Letters /\ replies \in Seq(FromSlave) /\ Passes(Line, Line)
      BY BoxesAreTyped
<1>2. CASE Answer
  <2>1. replies # <<>> /\ sm1 = Nothing /\ Line' = LineOf(last, Head(replies), Tail(replies))
        BY <1>2 DEF Answer, Line
  <2>2. Line' = Line
        BY <1>1, <2>1, LineIsAnswered DEF Line
  <2> QED
        BY <1>1, <2>2
<1>3. CASE Notice
  <2>1. PICK m \in FromSlave : sm1' = m /\ ~IsSdo(m)
        BY <1>3, NoticesAreTyped, NoticesAreNone DEF Notice
  <2>2. sm1 = Nothing /\ Line' = LineOf(last, m, replies) /\ m # Nothing /\ m \in Letters
        BY <1>3, <2>1, ConstantsOK DEF Notice, Line, Letters
  <2> QED
        BY <1>1, <2>1, <2>2, LineIsNoticed DEF Line
<1>4. CASE Repeat
  <2>1. CASE sm1 # Nothing /\ UNCHANGED <<sm1, replies>>
    <3>1. Line' = Line
          BY <1>4, <2>1 DEF Repeat, Line
    <3> QED
          BY <1>1, <3>1
  <2>2. CASE sm1' = last /\ replies' = IF sm1 = Nothing THEN replies ELSE <<sm1>> \o replies
    <3>1. Line' = LineOf(last, last, IF sm1 = Nothing THEN replies ELSE <<sm1>> \o replies)
          BY <1>4, <2>2 DEF Repeat, Line
    <3> QED
          BY <1>1, <3>1, LineIsRepeated DEF Line
  <2> QED
        BY <1>4, <2>1, <2>2 DEF Repeat
<1> QED
      BY <1>2, <1>3, <1>4 DEF SlaveMailbox

\* A step that leaves the call and the link alone, and adds nothing of SDO.
LEMMA QuietPasses ==
    ASSUME BoxTypes, CallSays, UNCHANGED <<coe, app, val, xfer, link, last>>, sm0' \in {sm0, Nothing},
           Passes(Line, Line')
    PROVE  Passing
<1>1. link' = link /\ last' = last /\ (link.op = "put" => sm0 = Nothing)
      BY DEF CallSays
<1>2. coe.pc = "receive" /\ link'.op = "done" /\ link'.wkc = 1 => link'.msg = last'
      BY DEF CallSays
<1> QED
      BY <1>1, <1>2 DEF Passing

LEMMA OthersAreNone ==
    ASSUME NEW rs \in Seq(Others)
    PROVE  \A i \in 1..Len(rs) : ~IsSdo(rs[i])
<1>1. \A m \in Others : m.type # "CoE"
      BY DEF Others, TransferAnswers, FragmentAnswers
<1>2. \A i \in 1..Len(rs) : rs[i] \in Others
      OBVIOUS
<1> QED
      BY <1>1, <1>2 DEF IsSdo

LEMMA ServingPasses ==
    ASSUME BoxTypes, CallSays, UNCHANGED <<coe, app, val, xfer, link, last, sm1>>, sm0' \in {sm0, Nothing},
           replies' = replies \/ \E rs \in Seq(Others) : replies' = replies \o rs
    PROVE  Passing
<1>1. last \in Letters /\ sm1 \in Letters /\ replies \in Seq(FromSlave) /\ Passes(Line, Line)
      BY BoxesAreTyped
<1>2. CASE replies' = replies
  <2>1. Line' = Line
        BY <1>2 DEF Line
  <2> QED
        BY <1>1, <2>1, QuietPasses
<1>3. CASE \E rs \in Seq(Others) : replies' = replies \o rs
  <2>1. PICK rs \in Seq(Others) : replies' = replies \o rs
        BY <1>3
  <2>2. Line' = LineOf(last, sm1, replies \o rs) /\ rs \in Seq(FromSlave)
        BY <2>1, OthersAnswer DEF Line
  <2>3. Passes(Line, Line')
        BY <1>1, <2>2, OthersAreNone, LineIsJoined DEF Line
  <2> QED
        BY <2>3, QuietPasses
<1> QED
      BY <1>2, <1>3

\* What the slave's other services do to the mailbox.
LEMMA OthersAdd ==
    ASSUME Types, Serve \/ ServeEthernet \/ Traffic
    PROVE  /\ UNCHANGED <<coe, app, val, xfer, link, last, sm1, lost, repreq, repack>> /\ sm0' \in {sm0, Nothing}
           /\ replies' = replies \/ \E rs \in Seq(Others) : replies' = replies \o rs
<1>1. UNCHANGED <<coe, app, val, xfer, link, last, sm1, lost, repreq, repack>> /\ sm0' \in {sm0, Nothing}
      BY DEF Serve, ServeEthernet, Traffic, slave
<1>2. replies' = replies \/ \E rs \in Seq(Others) : replies' = replies \o rs
  <2>1. CASE Serve
    <3>1. PICK m \in ToSlave : m = sm0
          BY <2>1 DEF Serve, Types, MailTypes, BoxTypes
    <3>2. m.type \in {"FoE", "SoE"} => m \in TransferRequests
          BY RequestKinds
    <3>3. \/ UNCHANGED <<replies, held, server, notices>>
          \/ m.type = "FoE" /\ FileServer(m)
          \/ m.type = "SoE" /\ ParameterServer(m)
          BY <2>1, <3>1 DEF Serve
    <3>4. Serves \/ replies' = replies
          BY <3>2, <3>3, FileServerServes, ParameterServerServes DEF Types
    <3> QED
          BY <3>4 DEF Serves
  <2>2. CASE ServeEthernet
    <3>1. PICK m \in ToSlave : m = sm0
          BY <2>2 DEF ServeEthernet, Types, MailTypes, BoxTypes
    <3>2. m \in TransferRequests \union FragmentRequests /\ m.type = "EoE" /\ EthernetServer(m)
          BY <2>2, <3>1, RequestKinds DEF ServeEthernet
    <3>3. Serves
          BY <3>2, EthernetServerServes DEF Types
    <3> QED
          BY <3>3 DEF Serves
  <2>3. CASE Traffic
    <3>1. PICK o \in Objects : Answers(Fragments(eth.given + 1, Units(eth.given + 1, Size[o])))
          BY <2>3 DEF Traffic
    <3>2. eth.given + 1 \in Nat /\ Size[o] \in Nat /\ capacity.read \in Nat \ {0}
          BY ConstantsOK DEF Types, EthTypes, ServerTypes
    <3>3. Fragments(eth.given + 1, Units(eth.given + 1, Size[o])) \in Seq(Others)
          BY <3>2, UnitsAreTyped, FragmentsAreTyped
    <3> QED
          BY <3>1, <3>3 DEF Answers
  <2> QED
        BY <2>1, <2>2, <2>3
<1> QED
      BY <1>1, <1>2

LEMMA OthersPass ==
    ASSUME Types, CallSays, Serve \/ ServeEthernet \/ Traffic
    PROVE  Passing
BY OthersAdd, ServingPasses DEF Types, MailTypes

-----------------------------------------------------------------------------
(* The slave's service takes a request.                                            *)

\* Supplying, behind the step.
WillSupply(o, done, toggle) ==
    \/ xfer'.way = "none"
    \/ /\ xfer'.way = "up" /\ xfer'.obj = o /\ xfer'.of = Size[o] /\ xfer'.val = val'[o]
       /\ xfer'.done = done /\ xfer'.toggle = toggle

\* A request for an object's first part, or a segment, as the slave answers it.
Uploaded(m) ==
    /\ IsUp(m) /\ m.obj \in Objects /\ m.of = Size[m.obj]
    /\ m.val = val'[m.obj] /\ WillSupply(m.obj, 1, FALSE)
RightSegment(m) ==
    /\ m.toggle = xfer.toggle /\ m.part = xfer.done + 1
    /\ \/ xfer'.way = "none"
       \/ /\ xfer'.way = "up" /\ xfer'.obj = xfer.obj /\ xfer'.of = xfer.of /\ xfer'.val = xfer.val
          /\ xfer'.done = xfer.done + 1 /\ xfer'.toggle = ~xfer.toggle
WrongSegment(m) == m.toggle = ~xfer.toggle /\ m.part = xfer.done /\ xfer'.way = "none"
Aborted(m) == m.type = "CoE" /\ m.cmd = "abort" /\ xfer'.way = "none"
Segmented(o, m) ==
    /\ IsSegment(m) /\ xfer.way = "up" /\ o.toggle = xfer.toggle /\ m.val = xfer.val
    /\ RightSegment(m) \/ WrongSegment(m)

\* One answer of SDO to a request of SDO.
Responds(o, m) ==
    /\ replies' = replies \o <<m>> /\ IsSdo(m)
    /\ o.cmd \in {"up", "seg up"} => val' = val
    /\ IsUp(m) => Uploaded(m)
    /\ o.cmd = "up" => (Uploaded(m) /\ m.obj = o.obj) \/ Aborted(m)
    /\ o.cmd = "seg up" => Segmented(o, m) \/ Aborted(m)

LEMMA SdoAnswer ==
    ASSUME NEW m \in CoeAnswers, m.cmd \in {"up", "seg up", "down", "seg down", "abort"}
    PROVE  IsSdo(m) /\ m \in FromSlave
<1>1. m.type = "CoE" /\ m \in FromSlave
      BY DEF CoeAnswers, FromSlave
<1>2. m # Nothing
      BY <1>1, ConstantsOK
<1> QED
      BY <1>1, <1>2 DEF IsSdo

LEMMA UploadResponds ==
    ASSUME SlaveTypes, NEW o \in CoeRequests, o.cmd = "up", Upload(o)
    PROVE  \E m \in FromSlave : Responds(o, m)
<1>1. o.obj \in Objects /\ val[o.obj] \in Values /\ Size[o.obj] \in Nat \ {0} /\ val[o.obj] \in Held
      BY ConstantsOK DEF SlaveTypes, CoeRequests, Held
<1> DEFINE a == [Msg("up", o.obj) EXCEPT !.part = 1, !.of = Size[o.obj], !.val = val[o.obj]]
<1>2. Msg("up", o.obj) \in CoeAnswers
      BY <1>1, MsgIsTyped DEF AnswerCmds, Somewhere
<1>3. a \in CoeAnswers
      BY <1>1, <1>2, AnswerEdits
<1>4. a.cmd = "up" /\ a.obj = o.obj /\ a.of = Size[o.obj] /\ a.val = val[o.obj]
      BY DEF Msg
<1>5. replies' = replies \o <<a>> /\ val' = val
      BY DEF Upload, Put
<1>6. xfer' = [way |-> "up", obj |-> o.obj, of |-> Size[o.obj], done |-> 1, toggle |-> FALSE, val |-> val[o.obj]]
      BY DEF Upload
<1> HIDE DEF a
<1>7. IsSdo(a) /\ a \in FromSlave
      BY <1>3, <1>4, SdoAnswer
<1>8. xfer'.way = "up" /\ xfer'.obj = o.obj /\ xfer'.of = Size[o.obj] /\ xfer'.done = 1 /\ xfer'.toggle = FALSE
      /\ xfer'.val = val[o.obj]
      BY <1>6
<1>9. PICK m \in FromSlave : m = a
      BY <1>7
<1>10. WillSupply(m.obj, 1, FALSE)
      BY <1>4, <1>5, <1>8, <1>9 DEF WillSupply
<1>11. IsUp(m) /\ m.obj \in Objects /\ m.of = Size[m.obj] /\ m.val = val'[m.obj]
      BY <1>1, <1>4, <1>5, <1>7, <1>9 DEF IsUp
<1>12. Uploaded(m)
      BY <1>10, <1>11 DEF Uploaded
<1>13. IsSdo(m) /\ m.obj = o.obj /\ replies' = replies \o <<m>>
      BY <1>4, <1>5, <1>7, <1>9
<1> QED
      BY <1>5, <1>12, <1>13 DEF Responds

LEMMA TransferParts ==
    ASSUME SlaveTypes
    PROVE  /\ xfer.done \in Nat /\ xfer.done + 1 \in Nat /\ xfer.val \in Held /\ xfer.toggle \in BOOLEAN
           /\ (xfer.done + 1 = xfer.of) \in BOOLEAN
           /\ NoTransfer.way = "none"
<1>1. xfer.done \in Nat /\ xfer.val \in Held /\ xfer.toggle \in BOOLEAN
      BY DEF SlaveTypes
<1>2. NoTransfer.way = "none"
      BY DEF NoTransfer
<1> QED
      BY <1>1, <1>2

LEMMA UploadsSegmentResponds ==
    ASSUME SlaveTypes, CountTypes, NEW o \in CoeRequests, o.cmd = "seg up", UploadsSegment(o)
    PROVE  \E m \in FromSlave : Responds(o, m)
<1> DEFINE next == [Msg("seg up", Nothing) EXCEPT !.part = xfer.done + 1, !.val = xfer.val,
                       !.toggle = xfer.toggle, !.last = xfer.done + 1 = xfer.of]
           ends == xfer.done + 1 = xfer.of
           early == [next EXCEPT !.last = TRUE]
           again == [next EXCEPT !.part = xfer.done, !.toggle = ~@, !.last = FALSE]
<1>1. /\ xfer.done \in Nat /\ xfer.done + 1 \in Nat /\ xfer.val \in Held /\ xfer.toggle \in BOOLEAN
      /\ ends \in BOOLEAN
      BY TransferParts
<1>2. Msg("seg up", Nothing) \in CoeAnswers
      BY MsgIsTyped DEF AnswerCmds, Somewhere
<1>3. next = [Msg("seg up", Nothing) EXCEPT !.part = xfer.done + 1, !.val = xfer.val,
                       !.toggle = xfer.toggle, !.last = ends]
      OBVIOUS
<1>4. next.cmd = "seg up" /\ next.part = xfer.done + 1 /\ next.val = xfer.val /\ next.toggle = xfer.toggle
      BY DEF Msg
<1> HIDE DEF ends
<1>5. next \in CoeAnswers
      BY ZenonT(60), <1>1, <1>2, <1>3, AnswerEdits
<1>6. \/ /\ Put(o, <<next>>)
         /\ xfer' = [xfer EXCEPT !.done = @ + 1, !.toggle = ~@]
      \/ /\ Put(o, <<early>>) \/ Put(o, <<again>>)
         /\ xfer' = NoTransfer
      BY DEF UploadsSegment
<1>7. val' = val /\ xfer.way = "up" /\ o.toggle = xfer.toggle
      BY DEF UploadsSegment
<1> HIDE DEF next
<1>8. early \in CoeAnswers /\ again \in CoeAnswers
      BY <1>1, <1>5, AnswerEdits
<1>9. early.cmd = "seg up" /\ early.part = xfer.done + 1 /\ early.val = xfer.val /\ early.toggle = xfer.toggle
      BY <1>4, <1>5 DEF CoeAnswers
<1>10. again.cmd = "seg up" /\ again.part = xfer.done /\ again.val = xfer.val /\ again.toggle = ~xfer.toggle
      BY <1>4, <1>5 DEF CoeAnswers
<1> HIDE DEF early, again
<1>11. /\ IsSegment(next) /\ next \in FromSlave /\ IsSegment(early) /\ early \in FromSlave
       /\ IsSegment(again) /\ again \in FromSlave
      BY <1>4, <1>5, <1>8, <1>9, <1>10, SdoAnswer DEF IsSegment
<1>12. ASSUME NEW m \in FromSlave, IsSegment(m), m.val = xfer.val, replies' = replies \o <<m>>,
              RightSegment(m) \/ WrongSegment(m)
       PROVE  Responds(o, m)
  <2>1. Segmented(o, m)
        BY <1>7, <1>12 DEF Segmented
  <2>2. IsSdo(m) /\ ~IsUp(m)
        BY <1>12 DEF IsSegment, IsUp
  <2>3. o.cmd # "up"
        OBVIOUS
  <2> QED
        BY <1>7, <1>12, <2>1, <2>2, <2>3, Zenon DEF Responds
<1>13. xfer' = NoTransfer => xfer'.way = "none"
      BY TransferParts
<1>14. CASE Put(o, <<next>>) /\ xfer' = [xfer EXCEPT !.done = @ + 1, !.toggle = ~@]
  <2>1. /\ xfer'.way = "up" /\ xfer'.obj = xfer.obj /\ xfer'.of = xfer.of /\ xfer'.val = xfer.val
        /\ xfer'.done = xfer.done + 1 /\ xfer'.toggle = ~xfer.toggle
        BY <1>7, <1>14 DEF SlaveTypes
  <2>2. RightSegment(next)
        BY <1>4, <2>1 DEF RightSegment
  <2> QED
        BY <1>4, <1>11, <1>12, <1>14, <2>2 DEF Put
<1>15. CASE Put(o, <<early>>) /\ xfer' = NoTransfer
  <2>1. RightSegment(early)
        BY <1>9, <1>13, <1>15 DEF RightSegment
  <2> QED
        BY <1>9, <1>11, <1>12, <1>15, <2>1 DEF Put
<1>16. CASE Put(o, <<again>>) /\ xfer' = NoTransfer
  <2>1. WrongSegment(again)
        BY <1>10, <1>13, <1>16 DEF WrongSegment
  <2> QED
        BY <1>10, <1>11, <1>12, <1>16, <2>1 DEF Put
<1> QED
      BY <1>6, <1>14, <1>15, <1>16

LEMMA DownloadsRespond ==
    ASSUME SlaveTypes, NEW o \in CoeRequests,
           (o.cmd = "down" /\ Download(o)) \/ (o.cmd = "seg down" /\ DownloadsSegment(o))
    PROVE  \E m \in FromSlave : Responds(o, m)
<1>1. ASSUME NEW m \in CoeAnswers, m.cmd \in {"down", "seg down"}, replies' = replies \o <<m>>
      PROVE  Responds(o, m) /\ m \in FromSlave
  <2>1. IsSdo(m) /\ m \in FromSlave /\ ~IsUp(m)
        BY <1>1, SdoAnswer DEF IsUp
  <2> QED
        BY <1>1, <2>1 DEF Responds
<1>2. CASE o.cmd = "down" /\ Download(o)
  <2>1. Msg("down", o.obj) \in CoeAnswers
        BY MsgIsTyped DEF AnswerCmds, Somewhere, CoeRequests
  <2>2. Msg("down", o.obj).cmd = "down" /\ replies' = replies \o <<Msg("down", o.obj)>>
        BY <1>2 DEF Msg, Download, Put
  <2> QED
        BY <1>1, <2>1, <2>2
<1>3. CASE o.cmd = "seg down" /\ DownloadsSegment(o)
  <2> DEFINE m == [Msg("seg down", Nothing) EXCEPT !.toggle = o.toggle]
  <2>1. o.toggle \in BOOLEAN
        BY DEF CoeRequests
  <2>2. m \in CoeAnswers
        BY <2>1, MsgIsTyped, AnswerEdits DEF AnswerCmds, Somewhere
  <2>3. m.cmd = "seg down" /\ replies' = replies \o <<m>>
        BY <1>3 DEF Msg, DownloadsSegment, Put
  <2> HIDE DEF m
  <2> QED
        BY <1>1, <2>2, <2>3
<1> QED
      BY <1>2, <1>3

\* What is no answer of SDO.
Tells ==
    /\ val' = val /\ (xfer' = xfer \/ xfer'.way = "none")
    /\ sm0.cmd \notin {"up", "seg up"} /\ sm0.type = "CoE"
    /\ \E rs \in Seq(FromSlave) :
          replies' = replies \o rs /\ \A i \in 1..Len(rs) : ~IsSdo(rs[i])

LEMMA RefusesResponds ==
    ASSUME NEW o \in CoeRequests, o = sm0, Refuses(o)
    PROVE  Tells \/ \E m \in FromSlave : Responds(o, m)
<1>1. val' = val /\ xfer'.way = "none"
      BY DEF Refuses, NoTransfer
<1>2. CASE o.cmd = "rxpdo"
  <2>1. replies' = replies \o <<>> /\ o.type = "CoE"
        BY <1>2 DEF Refuses, Put, CoeRequests
  <2>2. <<>> \in Seq(FromSlave) /\ \A i \in 1..Len(<<>>) : ~IsSdo(<<>>[i])
        BY EmptyIsTyped
  <2>3. o.cmd \notin {"up", "seg up"}
        BY <1>2
  <2> QED
        BY <1>1, <2>1, <2>2, <2>3 DEF Tells
<1>3. CASE o.cmd # "rxpdo"
  <2>1. Abort(o) \in CoeAnswers /\ Abort(o).cmd = "abort" /\ Abort(o).type = "CoE"
    <3>1. Msg("abort", o.obj) \in CoeAnswers
          BY MsgIsTyped DEF AnswerCmds, Somewhere, CoeRequests
    <3> QED
          BY <3>1 DEF Abort, Msg
  <2>2. replies' = replies \o <<Abort(o)>>
        BY <1>3 DEF Refuses, Put
  <2>3. IsSdo(Abort(o)) /\ Abort(o) \in FromSlave /\ ~IsUp(Abort(o))
        BY <2>1, SdoAnswer DEF IsUp
  <2>4. Responds(o, Abort(o))
        BY <1>1, <2>1, <2>2, <2>3 DEF Responds, Aborted
  <2> QED
        BY <2>3, <2>4
<1> QED
      BY <1>2, <1>3

LEMMA InformsTells ==
    ASSUME NEW o \in CoeRequests, o = sm0, Informs(o), o.cmd \in {"odlist", "od", "oe", "rxpdo", "txpdo"}
    PROVE  Tells
<1>1. val' = val /\ xfer' = xfer /\ o.type = "CoE" /\ o.cmd \notin {"up", "seg up"}
      BY DEF Informs, CoeRequests
<1>2. o.obj \in Somewhere /\ o.part \in Nat
      BY DEF CoeRequests, Somewhere
<1>3. \E rs \in Seq(FromSlave) : replies' = replies \o rs /\ \A i \in 1..Len(rs) : ~IsSdo(rs[i])
  <2>1. CASE o.cmd = "rxpdo"
    <3>1. replies' = replies \o <<>>
          BY <2>1 DEF Informs, Put
    <3>2. <<>> \in Seq(FromSlave) /\ \A i \in 1..Len(<<>>) : ~IsSdo(<<>>[i])
          BY EmptyIsTyped
    <3> QED
          BY <3>1, <3>2
  <2>2. CASE o.cmd \in {"od", "oe", "txpdo"}
    <3> DEFINE m == [Msg(o.cmd, o.obj) EXCEPT !.part = o.part]
    <3>1. m \in CoeAnswers
          BY <1>2, <2>2, MsgIsTyped, AnswerEdits DEF AnswerCmds
    <3>2. m.cmd = o.cmd
          BY DEF Msg
    <3>3. replies' = replies \o <<m>>
          BY <2>2 DEF Informs, Put
    <3> HIDE DEF m
    <3>4. ~IsSdo(m) /\ m \in FromSlave
          BY <2>2, <3>1, <3>2 DEF IsSdo, FromSlave
    <3>5. <<m>> \in Seq(FromSlave) /\ \A i \in 1..Len(<<m>>) : <<m>>[i] = m
          BY <3>4
    <3>6. \A i \in 1..Len(<<m>>) : ~IsSdo(<<m>>[i])
          BY <3>4, <3>5
    <3> QED
          BY <3>3, <3>5, <3>6
  <2>3. CASE o.cmd = "odlist"
    <3> DEFINE size == Size[o.obj]
               piece(k) == [Msg("odlist", Nothing) EXCEPT !.part = k, !.last = k = size]
               list == [k \in 1..size |-> piece(k)]
    <3>0. size \in Nat
          BY ConstantsOK DEF CoeRequests
    <3>1. Msg("odlist", Nothing) \in CoeAnswers
          BY MsgIsTyped DEF AnswerCmds, Somewhere
    <3>2. ASSUME NEW k \in 1..size PROVE piece(k) \in FromSlave /\ ~IsSdo(piece(k))
      <4> DEFINE ends == k = size
      <4>1. ends \in BOOLEAN /\ k \in Nat
            BY <3>0
      <4>2. piece(k) = [Msg("odlist", Nothing) EXCEPT !.part = k, !.last = ends]
            OBVIOUS
      <4>3. piece(k).cmd = "odlist"
            BY DEF Msg
      <4> HIDE DEF ends, piece
      <4>4. [Msg("odlist", Nothing) EXCEPT !.part = k, !.last = ends] \in CoeAnswers
            BY <3>1, <4>1, AnswerEdits
      <4> QED
            BY <4>2, <4>3, <4>4 DEF IsSdo, FromSlave
    <3>3. replies' = replies \o list
          BY <2>3 DEF Informs, Put
    <3> HIDE DEF piece, size
    <3>4. list \in Seq(FromSlave) /\ Len(list) = size /\ \A i \in 1..size : list[i] = piece(i)
          BY <3>0, <3>2
    <3> HIDE DEF list
    <3>5. \A i \in 1..Len(list) : ~IsSdo(list[i])
          BY <3>2, <3>4
    <3> QED
          BY <3>3, <3>4, <3>5
  <2> QED
        BY <2>1, <2>2, <2>3
<1> QED
      BY <1>1, <1>3 DEF Tells

\* Whatever the slave's service does with a request.
LEMMA TakeSays ==
    ASSUME Types, Take
    PROVE  \/ UNCHANGED <<replies, val, xfer>>
           \/ Tells
           \/ \E m \in FromSlave : Responds(sm0, m)
<1>1. PICK o \in CoeRequests : o = sm0
      BY RequestKinds DEF Take, Types, MailTypes, BoxTypes
<1>2. UNCHANGED <<replies, val, xfer>> \/ Execute(o)
      BY <1>1 DEF Take, slave
<1>3. CASE Execute(o)
      BY <1>1, <1>3, UploadResponds, UploadsSegmentResponds, DownloadsRespond, RefusesResponds, InformsTells
         DEF Execute, Types, MailTypes
<1> QED
      BY <1>1, <1>2, <1>3

LEMMA OneMore ==
    ASSUME BoxTypes, NEW m \in FromSlave, replies' = replies \o <<m>>, UNCHANGED <<sm1, last>>
    PROVE  \E n \in Nat :
              /\ DOMAIN Line = 0..n /\ DOMAIN Line' = 0..(n + 1)
              /\ \A i \in 0..n : Line'[i] = Line[i]
              /\ Line'[n + 1] = m
<1>1. <<m>> \in Seq(FromSlave) /\ Len(<<m>>) = 1 /\ 1 \in 1..1 /\ <<m>>[1] = m
      OBVIOUS
<1>2. Line' = LineOf(last, sm1, replies \o <<m>>)
      BY DEF Line
<1>3. last \in Letters /\ sm1 \in Letters /\ replies \in Seq(FromSlave)
      BY BoxesAreTyped
<1> DEFINE more == <<m>>
<1> HIDE DEF more
<1>4. \E n \in Nat :
         /\ DOMAIN LineOf(last, sm1, replies) = 0..n /\ DOMAIN LineOf(last, sm1, replies \o more) = 0..(n + Len(more))
         /\ \A i \in 0..n : LineOf(last, sm1, replies \o more)[i] = LineOf(last, sm1, replies)[i]
         /\ \A i \in 1..Len(more) : LineOf(last, sm1, replies \o more)[n + i] = more[i]
      BY SMTT(30), <1>1, <1>3, LineIsLonger DEF more
<1> DEFINE q == Line
           r == Line'
<1>5. q = LineOf(last, sm1, replies) /\ r = LineOf(last, sm1, replies \o more)
      BY <1>2 DEF Line, more
<1> HIDE DEF q, r
<1>6. Len(more) = 1 /\ more[1] = m
      BY <1>1 DEF more
<1>7. PICK n \in Nat :
         /\ DOMAIN q = 0..n /\ DOMAIN r = 0..(n + 1)
         /\ \A i \in 0..n : r[i] = q[i]
         /\ \A i \in 1..1 : r[n + i] = more[i]
      BY <1>4, <1>5, <1>6
<1>8. r[n + 1] = m
      BY <1>1, <1>6, <1>7
<1> QED
      BY <1>7, <1>8 DEF q, r

\* An answer of SDO says what the slave holds now, and makes those before it old.
LEMMA LineSaysMore ==
    ASSUME BoxTypes, LineSays, NEW m \in FromSlave, replies' = replies \o <<m>>, UNCHANGED <<sm1, last>>,
           IsSdo(m), IsUp(m) => Uploaded(m)
    PROVE  LineSays'
<1> DEFINE q == Line
           r == Line'
<1>1. PICK n \in Nat : /\ DOMAIN q = 0..n /\ DOMAIN r = 0..(n + 1)
                       /\ \A i \in 0..n : r[i] = q[i]
                       /\ r[n + 1] = m
      BY OneMore
<1>2. \A i \in DOMAIN q : IsUp(q[i]) => q[i].obj \in Objects /\ q[i].of = Size[q[i].obj]
      BY DEF LineSays
<1>3. (\A i \in DOMAIN r : IsUp(r[i]) =>
         /\ r[i].obj \in Objects /\ r[i].of = Size[r[i].obj]
         /\ \/ r[i].val = val'[r[i].obj] /\ WillSupply(r[i].obj, 1, FALSE)
            \/ \E j \in DOMAIN r : j > i /\ IsSdo(r[j])) => LineSays'
      BY DEF LineSays, Supplying, WillSupply
<1> HIDE DEF q, r
<1>4. ASSUME NEW i \in 0..(n + 1), IsUp(r[i])
      PROVE  /\ r[i].obj \in Objects /\ r[i].of = Size[r[i].obj]
             /\ \/ r[i].val = val'[r[i].obj] /\ WillSupply(r[i].obj, 1, FALSE)
                \/ \E j \in DOMAIN r : j > i /\ IsSdo(r[j])
  <2>1. CASE i \in 0..n
    <3>1. n + 1 \in DOMAIN r /\ n + 1 > i /\ IsSdo(r[n + 1])
          BY <1>1, <2>1
    <3>2. r[i].obj \in Objects /\ r[i].of = Size[r[i].obj]
          BY <1>1, <1>2, <1>4, <2>1
    <3> QED
          BY <3>1, <3>2
  <2>2. CASE i = n + 1
    <3>1. r[i] = m
          BY <1>1, <2>2
    <3> QED
          BY <1>4, <3>1 DEF Uploaded
  <2>3. i \in 0..n \/ i = n + 1
        BY <1>1
  <2> QED
        BY <2>1, <2>2, <2>3
<1> QED
      BY <1>1, <1>3, <1>4

LEMMA BeginsMore ==
    ASSUME BoxTypes, BeginsSays, Begins, NEW m \in FromSlave, replies' = replies \o <<m>>,
           UNCHANGED <<sm1, last, coe, val, link>>, sm0' = Nothing,
           (Uploaded(m) /\ m.obj = coe.obj) \/ Aborted(m)
    PROVE  BeginsSays'
<1> DEFINE q == Line
           r == Line'
<1>1. PICK n \in Nat : /\ DOMAIN q = 0..n /\ DOMAIN r = 0..(n + 1)
                       /\ \A i \in 0..n : r[i] = q[i]
                       /\ r[n + 1] = m
      BY OneMore
<1>2. /\ \A i, j \in DOMAIN q : i < j /\ IsUp(q[i]) => ~IsSegment(q[j])
      /\ \A i \in DOMAIN q : IsUp(q[i]) /\ q[i].obj = coe.obj => q[i].val = val[coe.obj]
      BY DEF BeginsSays
<1>3. WillSupply(coe.obj, 1, FALSE) /\ ~IsSegment(m) /\ (IsUp(m) => m.val = val[coe.obj])
  <2>1. CASE Uploaded(m) /\ m.obj = coe.obj
        BY <2>1 DEF Uploaded, WillSupply, IsSegment, IsUp
  <2>2. CASE Aborted(m)
        BY <2>2 DEF Aborted, WillSupply, IsSegment, IsUp
  <2> QED
        BY <2>1, <2>2
<1>4. (/\ \A i, j \in DOMAIN r : i < j /\ IsUp(r[i]) => ~IsSegment(r[j])
       /\ \A i \in DOMAIN r : IsUp(r[i]) /\ r[i].obj = coe.obj =>
             r[i].val = val[coe.obj] /\ WillSupply(coe.obj, 1, FALSE)) => BeginsSays'
      BY DEF BeginsSays, IsInitial, Supplying, WillSupply
<1> HIDE DEF q, r
<1>5. ASSUME NEW i \in DOMAIN r, NEW j \in DOMAIN r, i < j, IsUp(r[i]) PROVE ~IsSegment(r[j])
  <2>1. i \in 0..n /\ (j \in 0..n \/ j = n + 1)
        BY <1>1, <1>5
  <2> QED
        BY <1>1, <1>2, <1>3, <1>5, <2>1
<1>6. ASSUME NEW i \in DOMAIN r, IsUp(r[i]), r[i].obj = coe.obj PROVE r[i].val = val[coe.obj]
  <2>1. i \in 0..n \/ i = n + 1
        BY <1>1, <1>6
  <2> QED
        BY <1>1, <1>2, <1>3, <1>6, <2>1
<1> QED
      BY <1>3, <1>4, <1>5, <1>6

LEMMA SegmentsMore ==
    ASSUME BoxTypes, SegmentsSay, Segments, coe.toggle \in BOOLEAN, NEW m \in FromSlave,
           replies' = replies \o <<m>>, UNCHANGED <<sm1, last, coe, val, link>>, sm0' = Nothing,
           \/ WillSupply(coe.obj, Got, coe.toggle) \/ WillSupply(coe.obj, Got + 1, ~coe.toggle),
           NoSegment(Line) \/ WillSupply(coe.obj, Got + 1, ~coe.toggle)
              \/ \A i \in DOMAIN Line : IsSegment(Line[i]) => Line[i].toggle # coe.toggle,
           IsSegment(m) =>
              /\ m.val = val[coe.obj]
              /\ m.part = IF m.toggle = coe.toggle THEN Got + 1 ELSE Got
              /\ m.toggle = coe.toggle => WillSupply(coe.obj, Got + 1, ~coe.toggle)
              /\ m.toggle # coe.toggle => \A i \in DOMAIN Line : IsSegment(Line[i]) => Line[i].toggle # coe.toggle
    PROVE  SegmentsSay'
<1> DEFINE q == Line
           r == Line'
           t == coe.toggle
           right == WillSupply(coe.obj, Got + 1, ~coe.toggle)
<1>1. PICK n \in Nat : /\ DOMAIN q = 0..n /\ DOMAIN r = 0..(n + 1)
                       /\ \A i \in 0..n : r[i] = q[i]
                       /\ r[n + 1] = m
      BY OneMore
<1>2. /\ \A i \in DOMAIN q : IsSegment(q[i]) =>
            q[i].val = val[coe.obj] /\ q[i].part = IF q[i].toggle = t THEN Got + 1 ELSE Got
      /\ \A i, j \in DOMAIN q : i < j /\ IsSegment(q[i]) /\ IsSegment(q[j]) /\ q[i].toggle = t => q[j].toggle = t
      BY DEF SegmentsSay
<1>3. \A i \in DOMAIN q : IsSegment(q[i]) /\ q[i].toggle = t => right
      BY DEF NoSegment
<1>4. link.op \in Writing => IsRest(link.msg) /\ link.msg.toggle = t
      BY DEF SegmentsSay
<1>5. /\ IsSegment(m) => m.val = val[coe.obj] /\ m.part = (IF m.toggle = t THEN Got + 1 ELSE Got)
      /\ IsSegment(m) /\ m.toggle = t => right
      /\ IsSegment(m) /\ m.toggle # t => \A i \in DOMAIN q : IsSegment(q[i]) => q[i].toggle # t
      OBVIOUS
<1>6. (/\ \A i \in DOMAIN r : IsSegment(r[i]) =>
             /\ r[i].val = val[coe.obj] /\ r[i].part = IF r[i].toggle = t THEN Got + 1 ELSE Got
             /\ r[i].toggle = t => right
       /\ \A i, j \in DOMAIN r : i < j /\ IsSegment(r[i]) /\ IsSegment(r[j]) /\ r[i].toggle = t => r[j].toggle = t)
      => SegmentsSay'
  <2>1. coe' = coe /\ val' = val /\ link' = link /\ Got' = Got /\ Segments' = Segments
        BY DEF Got, Segments, Reads
  <2>2. WillSupply(coe.obj, Got, coe.toggle) \/ WillSupply(coe.obj, Got + 1, ~coe.toggle)
        OBVIOUS
  <2> QED
        BY ZenonT(60), <1>4, <2>1, <2>2 DEF SegmentsSay, IsInitial, IsRest, Supplying, WillSupply
<1> HIDE DEF q, r, t, right
<1>7. ASSUME NEW i \in DOMAIN r, IsSegment(r[i])
      PROVE  /\ r[i].val = val[coe.obj] /\ r[i].part = IF r[i].toggle = t THEN Got + 1 ELSE Got
             /\ r[i].toggle = t => right
  <2>1. i \in 0..n \/ i = n + 1
        BY <1>1, <1>7
  <2> QED
        BY <1>1, <1>2, <1>3, <1>5, <1>7, <2>1
<1>8. ASSUME NEW i \in DOMAIN r, NEW j \in DOMAIN r, i < j, IsSegment(r[i]), IsSegment(r[j]), r[i].toggle = t
      PROVE  r[j].toggle = t
  <2>1. i \in 0..n /\ (j \in 0..n \/ j = n + 1)
        BY <1>1, <1>8
  <2> QED
        BY <1>1, <1>2, <1>5, <1>8, <2>1
<1> QED
      BY <1>6, <1>7, <1>8

\* A request for a segment while segments are read: the segment that is asked for, or an
\* error; the segment before it is only sent when the one asked for never was.
LEMMA SegmentedKeeps ==
    ASSUME Types, SegmentsSay, Segments, NEW m \in FromSlave, replies' = replies \o <<m>>,
           UNCHANGED <<sm1, last, coe, val, link>>, sm0' = Nothing,
           sm0 # Nothing, IsRest(sm0), Segmented(sm0, m)
    PROVE  SegmentsSay'
<1> DEFINE t == coe.toggle
           o == coe.obj
<1>1. t \in BOOLEAN /\ xfer.toggle \in BOOLEAN /\ Got \in Nat
      BY DEF Types, CallTypes, CallRecords, SlaveTypes, Got
<1>2. xfer.way = "up" /\ sm0.toggle = xfer.toggle /\ m.val = xfer.val /\ IsSegment(m)
      BY DEF Segmented
<1>3. Supplying(o, Got, t) \/ Supplying(o, Got + 1, ~t)
      BY DEF SegmentsSay
<1>4. sm0.toggle # t => Supplying(o, Got, t)
      BY DEF SegmentsSay
<1>5. \A i \in DOMAIN Line : IsSegment(Line[i]) /\ Line[i].toggle = t => Supplying(o, Got + 1, ~t)
      BY DEF SegmentsSay
<1> HIDE DEF t, o
<1>6. xfer.toggle = t
      BY <1>1, <1>2, <1>3, <1>4 DEF Supplying
<1>7. ~Supplying(o, Got + 1, ~t)
      BY <1>1, <1>2, <1>6 DEF Supplying
<1>8. /\ xfer.obj = o /\ xfer.of = Size[o] /\ xfer.val = val[o] /\ xfer.done = Got
      BY <1>1, <1>2, <1>3, <1>7 DEF Supplying
<1>9. \A i \in DOMAIN Line : IsSegment(Line[i]) => Line[i].toggle # t
      BY <1>5, <1>7
<1>10. CASE RightSegment(m)
  <2>1. m.toggle = t /\ m.part = Got + 1 /\ m.val = val[o]
        BY <1>2, <1>6, <1>8, <1>10 DEF RightSegment
  <2>2. WillSupply(o, Got + 1, ~t)
        BY <1>6, <1>8, <1>10 DEF RightSegment, WillSupply
  <2> QED
        BY <1>1, <2>1, <2>2, SegmentsMore DEF t, o, Types, MailTypes
<1>11. CASE WrongSegment(m)
  <2>1. m.toggle # t /\ m.part = Got /\ m.val = val[o]
        BY <1>1, <1>2, <1>6, <1>8, <1>11 DEF WrongSegment
  <2>2. WillSupply(o, Got, t)
        BY <1>11 DEF WrongSegment, WillSupply
  <2> QED
        BY <1>1, <1>9, <2>1, <2>2, SegmentsMore DEF t, o, Types, MailTypes
<1> QED
      BY <1>10, <1>11 DEF Segmented

LEMMA RespondsKeeps ==
    ASSUME Types, ReadInv, NEW m \in FromSlave, Responds(sm0, m), sm0 # Nothing, sm0' = Nothing,
           UNCHANGED <<sm1, last, coe, app, link>>
    PROVE  ReadInv'
<1>1. /\ BoxTypes /\ coe.toggle \in BOOLEAN
      /\ Reads' = Reads /\ Begins' = Begins /\ Segments' = Segments /\ Got' = Got
      BY DEF Types, MailTypes, CallTypes, CallRecords, Reads, Begins, Segments, Got
<1>2. replies' = replies \o <<m>> /\ IsSdo(m) /\ (IsUp(m) => Uploaded(m))
      BY DEF Responds
<1>3. LineSays'
      BY <1>1, <1>2, LineSaysMore DEF ReadInv
<1>4. CallSays' /\ OwnSays' /\ VerifySays'
      BY <1>1 DEF ReadInv, CallSays, OwnSays, VerifySays, IsInitial, IsRest
<1>5. CASE ~Reads
      BY <1>1, <1>3, <1>4, <1>5 DEF ReadInv, BeginsSays, GotSays, SegmentsSay, ReadSays, Begins, Segments
<1>6. CASE Reads
  <2>1. IsInitial(sm0) \/ IsRest(sm0)
        BY <1>6 DEF ReadInv, OwnSays
  <2>2. val' = val
        BY <2>1 DEF Responds, IsInitial, IsRest
  <2>3. GotSays' /\ ReadSays'
        BY <1>1, <2>2 DEF ReadInv, GotSays, ReadSays
  <2>4. IsInitial(sm0) => (Uploaded(m) /\ m.obj = coe.obj) \/ Aborted(m)
        BY DEF Responds, IsInitial
  <2>5. IsRest(sm0) => Segmented(sm0, m) \/ Aborted(m)
        BY DEF Responds, IsRest
  <2>6. BeginsSays'
    <3> SUFFICES ASSUME Begins PROVE BeginsSays'
        BY <1>1 DEF BeginsSays
    <3>1. IsInitial(sm0)
          BY DEF ReadInv, BeginsSays
    <3> QED
          BY <1>1, <1>2, <2>2, <2>4, <3>1, BeginsMore DEF ReadInv
  <2>7. SegmentsSay'
    <3> SUFFICES ASSUME Segments PROVE SegmentsSay'
        BY <1>1 DEF SegmentsSay
    <3>1. CASE Aborted(m)
      <4>1. ~IsSegment(m) /\ WillSupply(coe.obj, Got, coe.toggle) /\ WillSupply(coe.obj, Got + 1, ~coe.toggle)
            BY <3>1 DEF Aborted, IsSegment, WillSupply
      <4> QED
            BY <1>1, <1>2, <2>2, <4>1, SegmentsMore DEF ReadInv
    <3>2. CASE IsRest(sm0) /\ Segmented(sm0, m)
          BY <1>2, <2>2, <3>2, SegmentedKeeps DEF ReadInv
    <3>3. CASE IsInitial(sm0) /\ Uploaded(m) /\ m.obj = coe.obj
      <4>1. Got = 1 /\ coe.toggle = FALSE /\ NoSegment(Line)
            BY <3>3 DEF ReadInv, SegmentsSay, NoSegment
      <4>2. WillSupply(coe.obj, Got, coe.toggle) /\ ~IsSegment(m)
            BY <3>3, <4>1 DEF Uploaded, IsUp, IsSegment
      <4> QED
            BY <1>1, <1>2, <2>2, <4>1, <4>2, SegmentsMore DEF ReadInv
    <3> QED
          BY <2>1, <2>4, <2>5, <3>1, <3>2, <3>3
  <2> QED
        BY <1>3, <1>4, <2>3, <2>6, <2>7 DEF ReadInv
<1> QED
      BY <1>5, <1>6

LEMMA TakeReads ==
    ASSUME Types, ReadInv, Take
    PROVE  ReadInv'
<1>1. UNCHANGED <<sm1, last, link, coe, app>> /\ sm0 # Nothing /\ sm0' = Nothing
      BY DEF Take
<1>2. last \in Letters /\ sm1 \in Letters /\ replies \in Seq(FromSlave) /\ Passes(Line, Line) /\ BoxTypes
      BY BoxesAreTyped DEF Types, MailTypes
<1>3. CASE UNCHANGED <<replies, val, xfer>>
  <2>1. Line' = Line
        BY <1>1, <1>3 DEF Line
  <2>2. Passing
        BY <1>1, <1>2, <1>3, <2>1, QuietPasses DEF ReadInv
  <2> QED
        BY <1>2, <2>2, PassingKeeps
<1>4. CASE Tells
  <2>1. PICK rs \in Seq(FromSlave) : replies' = replies \o rs /\ \A i \in 1..Len(rs) : ~IsSdo(rs[i])
        BY <1>4 DEF Tells
  <2>2. Line' = LineOf(last, sm1, replies \o rs)
        BY <1>1, <2>1 DEF Line
  <2>3. Passes(Line, Line')
        BY <1>2, <2>1, <2>2, LineIsJoined DEF Line
  <2>4. LineSays'
        BY <1>4, <2>3, LinePassesOn DEF ReadInv, Tells
  <2>5. ~Reads /\ ~Reads'
    <3>1. ~IsInitial(sm0) /\ ~IsRest(sm0)
          BY <1>4 DEF Tells, IsInitial, IsRest
    <3> QED
          BY <1>1, <3>1 DEF ReadInv, OwnSays, Reads
  <2>6. CallSays' /\ VerifySays'
        BY <1>1 DEF ReadInv, CallSays, VerifySays
  <2>7. OwnSays' /\ BeginsSays' /\ GotSays' /\ SegmentsSay' /\ ReadSays'
        BY <2>5 DEF OwnSays, BeginsSays, GotSays, SegmentsSay, ReadSays, Begins, Segments
  <2> QED
        BY <2>4, <2>6, <2>7 DEF ReadInv
<1>5. CASE \E m \in FromSlave : Responds(sm0, m)
      BY <1>1, <1>5, RespondsKeeps
<1> QED
      BY <1>3, <1>4, <1>5, TakeSays

-----------------------------------------------------------------------------
(* The steps of the calls leave the line alone.                                    *)

Aside == UNCHANGED <<slavebox, val, xfer>>

LEMMA AsideLine ==
    ASSUME Aside, LineSays
    PROVE  Line' = Line /\ LineSays'
<1>1. Line' = Line /\ val' = val /\ xfer' = xfer
      BY DEF Aside, Line, slavebox
<1> QED
      BY <1>1 DEF LineSays, Supplying

\* What says nothing when no read waits.
LEMMA NotReading ==
    ASSUME ReadInv, Aside, ~Reads', CallSays', VerifySays'
    PROVE  ReadInv'
<1>1. LineSays'
      BY AsideLine DEF ReadInv
<1>2. OwnSays' /\ BeginsSays' /\ GotSays' /\ SegmentsSay' /\ ReadSays'
      BY DEF OwnSays, BeginsSays, GotSays, SegmentsSay, ReadSays, Begins, Segments
<1> QED
      BY <1>1, <1>2 DEF ReadInv

LEMMA LinkSays ==
    ASSUME Hears \/ Rests \/ \E m \in ToSlave : link' = Sending(m)
    PROVE  /\ link'.op # "put" /\ ~(link'.op = "done" /\ link'.wkc = 1)
           /\ Hears \/ Rests => link'.op \notin Writing
<1>1. CASE Hears
  <2>1. link'.op = "await"
        BY <1>1 DEF Hears, Awaiting
  <2> QED
        BY <2>1 DEF Writing
<1>2. CASE Rests
  <2>1. link'.op = "done" /\ link'.wkc = 0
        BY <1>2, Resting DEF Rests
  <2> QED
        BY <2>1 DEF Writing
<1>3. CASE \E m \in ToSlave : link' = Sending(m)
  <2>1. link'.op = "empty"
        BY <1>3 DEF Sending
  <2> QED
        BY <1>1, <1>2, <2>1
<1> QED
      BY <1>1, <1>2, <1>3

\* A call begins: its request is still to be made.
LEMMA StartsReading ==
    ASSUME ReadInv, Aside, Hears \/ Rests, coe'.pc \in {"ready", "transfer"}, ~coe'.seg, ~coe'.toggle,
           coe'.op = "up" => coe'.pc = "ready", VerifySays'
    PROVE  ReadInv'
<1>1. link'.op # "put" /\ link'.op \notin Writing
      BY LinkSays
<1>2. CallSays'
      BY <1>1 DEF CallSays
<1>3. ~Reads'
      BY DEF Reads
<1> QED
      BY <1>2, <1>3, NotReading

\* The verified write looks at what its call returned.
LEMMA LooksReading ==
    ASSUME ReadInv, Aside, UNCHANGED <<coe, link>>, VerifySays'
    PROVE  ReadInv'
<1>1. /\ Line' = Line /\ LineSays' /\ sm0' = sm0 /\ last' = last /\ coe' = coe /\ link' = link
      /\ val' = val /\ xfer' = xfer
      BY AsideLine DEF ReadInv, Aside, slavebox
<1>2. Reads' = Reads /\ Begins' = Begins /\ Segments' = Segments /\ Got' = Got
      BY <1>1 DEF Reads, Begins, Segments, Got
<1>3. CallSays' /\ OwnSays' /\ GotSays' /\ ReadSays'
      BY <1>1, <1>2 DEF ReadInv, CallSays, OwnSays, GotSays, ReadSays, IsInitial, IsRest
<1>4. BeginsSays'
      BY <1>1, <1>2 DEF ReadInv, BeginsSays, Supplying, IsInitial
<1>5. SegmentsSay'
      BY ZenonT(60), <1>1, <1>2 DEF ReadInv, SegmentsSay, Supplying, IsInitial, IsRest
<1> QED
      BY <1>1, <1>3, <1>4, <1>5 DEF ReadInv

LEMMA BegunCall ==
    ASSUME NEW op, NEW obj, NEW v, NEW room
    PROVE  LET c == Call(op, obj, v, room)
               d == [c EXCEPT !.pc = "transfer"]
           IN  /\ c.op = op /\ c.obj = obj /\ c.pc = "ready" /\ ~c.seg /\ ~c.toggle
               /\ d.op = op /\ d.obj = obj /\ d.pc = "transfer" /\ ~d.seg /\ ~d.toggle
BY DEF Call

LEMMA BegunReads ==
    ASSUME NEW op, NEW obj, NEW v, NEW room, Begin(op, obj, v, room)
    PROVE  coe'.op = op /\ coe'.obj = obj /\ coe'.pc = "ready" /\ ~coe'.seg /\ ~coe'.toggle /\ Hears
<1>1. coe' = Call(op, obj, v, room) /\ link' = Awaiting(FALSE)
      BY DEF Begin
<1>2. Hears
      BY <1>1 DEF Hears
<1> QED
      BY <1>1, <1>2, BegunCall

LEMMA CallsBegin ==
    ASSUME Types, ReadInv, LibraryCall \/ TransferCall \/ EthernetCall
    PROVE  ReadInv'
<1>1. Aside /\ app' = NoApp
      BY DEF LibraryCall, TransferCall, EthernetCall, Outside, Aside, slave
<1>2. VerifySays'
      BY <1>1, NoAppTypes DEF VerifySays
<1>3. CASE LibraryCall
  <2>1. \E op, obj, v, room : Begin(op, obj, v, room)
        BY <1>3 DEF LibraryCall
  <2>2. coe'.pc = "ready" /\ ~coe'.seg /\ ~coe'.toggle /\ Hears
        BY <2>1, BegunReads
  <2> QED
        BY <1>1, <1>2, <2>2, StartsReading
<1>4. CASE TransferCall \/ EthernetCall
  <2>1. /\ Operation \in TransferOps \union EthernetOps
        /\ \E v, room : coe' = [Call(Operation, Object, v, room) EXCEPT !.pc = "transfer"]
        BY <1>4 DEF TransferCall, EthernetCall
  <2>2. coe'.pc = "transfer" /\ ~coe'.seg /\ ~coe'.toggle /\ coe'.op # "up"
    <3>1. coe'.pc = "transfer" /\ ~coe'.seg /\ ~coe'.toggle /\ coe'.op = Operation
          BY <2>1, BegunCall
    <3> QED
          BY <2>1, <3>1 DEF TransferOps, EthernetOps
  <2>3. Hears \/ Rests
    <3>1. CASE TransferCall
          BY <3>1 DEF TransferCall, Hears
    <3>2. CASE EthernetCall
      <4>1. link' = [Awaiting(FALSE) EXCEPT !.op = Done] \/ link' = Awaiting(TRUE) \/ link' = Awaiting(FALSE)
            BY <3>2 DEF EthernetCall
      <4> QED
            BY <4>1 DEF Hears, Rests
    <3> QED
          BY <1>4, <3>1, <3>2
  <2> QED
        BY <1>1, <1>2, <2>2, <2>3, StartsReading
<1> QED
      BY <1>3, <1>4

LEMMA WritesRead ==
    ASSUME Types, ReadInv, WriteStart \/ WriteCompared \/ WriteSent \/ WriteReadBack
    PROVE  ReadInv'
<1>1. Aside /\ coe.pc = "idle"
      BY DEF WriteStart, WriteCompared, WriteSent, WriteReadBack, Settled, Outside, Aside, slave
<1>2. ASSUME NEW op, NEW obj, NEW v, NEW room, Begin(op, obj, v, room), VerifySays'
      PROVE  ReadInv'
  <2>1. coe'.pc = "ready" /\ ~coe'.seg /\ ~coe'.toggle /\ Hears
        BY <1>2, BegunReads
  <2> QED
        BY <1>1, <1>2, <2>1, StartsReading
<1>3. app \in AppRecords
      BY DEF Types, AppTypes
<1>4. ASSUME NEW phase, app' = [app EXCEPT !.phase = phase]
      PROVE  app'.phase = phase /\ app'.obj = app.obj /\ app'.val = app.val
      BY <1>3, <1>4 DEF AppRecords
<1>5. CASE WriteStart
  <2>1. PICK v, e : app' = [NoApp EXCEPT !.phase = "before", !.obj = Object, !.val = v, !.expected = e]
        BY <1>5 DEF WriteStart
  <2>2. app'.phase = "before" /\ app'.obj = Object
        BY <2>1 DEF NoApp
  <2>3. Begin("up", Object, NoValue, Size[Object])
        BY <1>5 DEF WriteStart
  <2>4. coe'.op = "up" /\ coe'.obj = Object
        BY <2>3, BegunReads
  <2>5. VerifySays'
        BY <2>2, <2>4 DEF VerifySays
  <2> QED
        BY <1>2, <2>3, <2>5
<1>6. CASE WriteCompared
  <2>1. CASE Begin("down", app.obj, app.val, 0) /\ app' = [app EXCEPT !.phase = "write", !.calm = coe.clear]
    <3>1. app'.phase = "write"
          BY <1>3, <2>1 DEF AppRecords
    <3>2. VerifySays'
          BY <3>1 DEF VerifySays
    <3> QED
          BY <1>2, <2>1, <3>2
  <2>2. CASE app' = NoApp /\ UNCHANGED <<coe, link>>
    <3>1. VerifySays'
          BY <2>2, NoAppTypes DEF VerifySays
    <3> QED
          BY <1>1, <2>2, <3>1, LooksReading
  <2> QED
        BY <1>6, <2>1, <2>2 DEF WriteCompared
<1>7. CASE WriteSent
  <2>1. CASE Begin("up", app.obj, NoValue, Size[app.obj]) /\ app' = [app EXCEPT !.phase = "after"]
    <3>1. app'.phase = "after" /\ app'.obj = app.obj
          BY <1>4, <2>1
    <3>2. coe'.op = "up" /\ coe'.obj = app.obj
          BY <2>1, BegunReads
    <3>3. VerifySays'
          BY <3>1, <3>2 DEF VerifySays
    <3> QED
          BY <1>2, <2>1, <3>3
  <2>2. CASE app' = [app EXCEPT !.phase = "unknown"] /\ UNCHANGED <<coe, link>>
    <3>1. app'.phase = "unknown"
          BY <1>4, <2>2
    <3>2. VerifySays'
          BY <3>1 DEF VerifySays
    <3> QED
          BY <1>1, <2>2, <3>2, LooksReading
  <2> QED
        BY <1>7, <2>1, <2>2 DEF WriteSent
<1>8. CASE WriteReadBack
  <2>1. UNCHANGED <<coe, link>> /\ coe.op = "up" /\ coe.obj = app.obj
        BY <1>8 DEF WriteReadBack, ReadInv, VerifySays
  <2>2. CASE Read(app.val) /\ app' = [app EXCEPT !.phase = "verified"]
    <3>1. app'.phase = "verified" /\ app'.obj = app.obj /\ app'.val = app.val
          BY <1>4, <2>2
    <3>2. coe.ok /\ coe.got = [k \in 1..Size[coe.obj] |-> <<app.val, k>>]
          BY <2>2 DEF Read
    <3>3. VerifySays'
          BY <1>1, <2>1, <3>1, <3>2 DEF VerifySays
    <3> QED
          BY <1>1, <2>1, <3>3, LooksReading
  <2>3. CASE app' = [app EXCEPT !.phase = "unknown"]
    <3>1. app'.phase = "unknown"
          BY <1>4, <2>3
    <3>2. VerifySays'
          BY <3>1 DEF VerifySays
    <3> QED
          BY <1>1, <2>1, <3>2, LooksReading
  <2> QED
        BY <1>8, <2>2, <2>3 DEF WriteReadBack
<1> QED
      BY <1>5, <1>6, <1>7, <1>8

\* The calls of EcTransfer and EcEthernet.
TransferOnly ==
    \/ TransferStep /\ ~TransferCall
    \/ IpRequest \/ IpResponse \/ EthernetUnheard \/ SendFragment \/ FragmentSent
    \/ ReceiveFragment \/ TakeFragment

LEMMA TransferLinks ==
    ASSUME CallTypes, coe.pc = "transfer", TransferOnly
    PROVE  coe'.pc = "transfer" \/ Hears \/ Rests \/ (link' = link /\ link.op = "done")
<1>1. (\E ok : Leave(ok)) \/ (\E ok, got : Ends(ok, got)) => Rests
      BY DEF Leave, Ends, Rests
<1>2. (\E taken : Listen(taken)) \/ link' = Awaiting(TRUE) => Hears
      BY DEF Listen, Hears
<1>3. \A pc : At(pc) => link.op = "done"
      BY DEF At, Done
<1>4. CASE FoERequest \/ FoEAck \/ SoEReadRequest \/ SoEFragment \/ IpRequest \/ SendFragment
  <2>1. coe' = coe
        BY <1>4 DEF FoERequest, FoEAck, SoEReadRequest, SoEFragment, IpRequest, SendFragment
  <2> QED
        BY <2>1
<1>5. CASE FoEData
  <2>1. coe' = [coe EXCEPT !.got = coe.got \o link.msg.data] /\ coe \in CallRecords
        BY <1>5 DEF FoEData, CallTypes
  <2>2. coe'.pc = coe.pc
        BY <2>1 DEF CallRecords
  <2> QED
        BY <2>2
<1>6. CASE FoEBusy
      BY <1>6 DEF FoEBusy, Rests
<1>7. CASE FoESent \/ Asked
  <2>1. Listen(coe) \/ \E ok : Leave(ok)
        BY <1>7 DEF FoESent, Asked
  <2> QED
        BY <1>1, <1>2, <2>1
<1>8. CASE FoEUnheard \/ FoEWritten \/ FoEBad \/ SoEWriteResponse \/ SoEBad \/ EthernetUnheard
  <2>1. \E ok : Leave(ok)
        BY <1>8 DEF FoEUnheard, FoEWritten, FoEBad, SoEWriteResponse, SoEBad, EthernetUnheard
  <2> QED
        BY <1>1, <2>1
<1>9. CASE SoEReadResponse
  <2>1. (\E taken : Listen(taken)) \/ \E got : Ends(TRUE, got)
        BY <1>9 DEF SoEReadResponse
  <2> QED
        BY <1>1, <1>2, <2>1
<1>10. CASE SoEFragmentSent \/ SoEUnheard \/ SoEEmptied \/ FragmentSent
  <2>1. (link' = link /\ link.op = "done") \/ Listen(coe) \/ \E ok : Leave(ok)
        BY <1>3, <1>10 DEF SoEFragmentSent, SoEUnheard, SoEEmptied, FragmentSent
  <2> QED
        BY <1>1, <1>2, <2>1
<1>11. CASE SoEStaysFull
  <2>1. Listen(coe)
        BY <1>11 DEF SoEStaysFull
  <2> QED
        BY <1>2, <2>1
<1>12. CASE IpResponse \/ TakeFragment \/ ReceiveFragment
  <2>1. (\E got : Ends(TRUE, got)) \/ (\E ok : Leave(ok)) \/ link' = Awaiting(TRUE)
        BY <1>12 DEF IpResponse, TakeFragment, ReceiveFragment
  <2> QED
        BY <1>1, <1>2, <2>1
<1> QED
      BY <1>4, <1>5, <1>6, <1>7, <1>8, <1>9, <1>10, <1>11, <1>12 DEF TransferOnly, TransferStep

\* What every step of a call of EcTransfer or EcEthernet leaves true.
LEMMA TransferAside ==
    ASSUME Types, TransferOnly
    PROVE  /\ Proceeds /\ coe.pc = "transfer" /\ Aside /\ sm0' = sm0 /\ app' = app
           /\ coe.op \in TransferOps \union EthernetOps /\ coe.op # "up" /\ coe'.op = coe.op
<1>1. Proceeds /\ coe.pc = "transfer"
  <2>1. CASE SendFragment
        BY <2>1, SendFragmentProceeds DEF Types, SendFragment, At
  <2> QED
        BY <2>1, FoEProceeds, SoEProceeds, EthernetProceeds, ReceiveFragmentProceeds
           DEF TransferOnly, TransferStep, Types
<1>2. UNCHANGED <<slavebox, app, slave>>
      BY DEF TransferOnly, TransferStep, FoERequest, FoESent, FoEUnheard, FoEData, FoEAck, FoEWritten, FoEBusy,
         FoEBad, SoEReadRequest, Asked, SoEReadResponse, SoEFragment, SoEFragmentSent, SoEEmptied, SoEStaysFull,
         SoEUnheard, SoEWriteResponse, SoEBad, IpRequest, IpResponse, EthernetUnheard, SendFragment, FragmentSent,
         ReceiveFragment, TakeFragment, Quiet, Same2
<1>3. Aside /\ sm0' = sm0 /\ app' = app
      BY <1>2 DEF Aside, slave, slavebox
<1>4. coe.op \in TransferOps \union EthernetOps /\ coe.op # "up" /\ coe'.op = coe.op
  <2>1. coe.op \in TransferOps \union EthernetOps
        BY <1>1 DEF Types, CallTypes
  <2> QED
        BY <1>1, <2>1 DEF TransferOps, EthernetOps, Proceeds
<1> QED
      BY <1>1, <1>3, <1>4

LEMMA TransfersRead ==
    ASSUME Types, ReadInv, TransferOnly
    PROVE  ReadInv'
<1>1. Proceeds /\ coe.pc = "transfer"
      BY TransferAside
<1>2. Aside /\ sm0' = sm0 /\ app' = app
      BY TransferAside
<1>3. coe.op # "up" /\ coe'.op = coe.op
      BY TransferAside
<1>4. VerifySays'
      BY <1>2, <1>3 DEF ReadInv, VerifySays
<1>5. coe'.pc \in {"idle", "transfer"}
      BY <1>1 DEF Proceeds
<1>6. link'.op = "put" => sm0' = Nothing
  <2>1. CASE Keeps
        BY <1>2, <2>1 DEF Keeps, ReadInv, CallSays
  <2>2. CASE Hears \/ Rests \/ Writes
        BY <2>2, LinkSays DEF Writes
  <2> QED
        BY <1>1, <2>1, <2>2 DEF Proceeds
<1>7. link'.op \in Writing => coe'.pc = "transfer"
  <2>1. CASE Hears \/ Rests
        BY <2>1, LinkSays
  <2>2. CASE link' = link /\ link.op = "done"
        BY <2>2 DEF Writing
  <2> QED
        BY <1>1, <2>1, <2>2, TransferLinks DEF Types
<1>8. CallSays'
      BY <1>3, <1>5, <1>6, <1>7 DEF CallSays
<1>9. ~Reads'
      BY <1>3 DEF Reads
<1> QED
      BY <1>2, <1>4, <1>8, <1>9, NotReading

-----------------------------------------------------------------------------
(* The steps of the calls of EcCoe.                                                *)

LEMMA CoeLinks ==
    ASSUME CoeStep
    PROVE  Request \/ Hears \/ Rests
<1>1. (\E ok : Return(ok)) \/ (\E c : Continue(c)) \/ NextSegment => Rests
      BY DEF Return, Continue, NextSegment, Rests
<1>2. (\E ok : NextEntry(ok)) => Hears \/ Rests
      BY DEF NextEntry, Hears, Rests
<1>3. Fails => Hears \/ Rests
      BY <1>1, <1>2 DEF Fails
<1>4. link' = Awaiting(TRUE) => Hears
      BY DEF Hears
<1>5. CASE Sent \/ NotReceived \/ Unexpected \/ TransferExpires \/ Entry \/ TxPdoResponse
  <2>1. Fails \/ (\E ok : Return(ok)) \/ (\E ok : NextEntry(ok)) \/ link' = Awaiting(TRUE)
        BY <1>5 DEF Sent, NotReceived, Unexpected, TransferExpires, Entry, TxPdoResponse
  <2> QED
        BY <1>1, <1>2, <1>3, <1>4, <2>1
<1>6. CASE UploadResponse \/ UploadSegment \/ DownloadResponse \/ DownloadSegmentResponse \/ Description
  <2>1. (\E ok : Return(ok)) \/ (\E c : Continue(c)) \/ NextSegment \/ link' = Awaiting(TRUE) \/ Rests
        BY <1>6 DEF UploadResponse, UploadSegment, DownloadResponse, DownloadSegmentResponse, Description, Rests
  <2> QED
        BY <1>1, <1>4, <2>1
<1>7. CASE ListFragment
  <2>1. link' = Awaiting(TRUE) \/ link' = [Awaiting(FALSE) EXCEPT !.op = Done]
        BY <1>7 DEF ListFragment
  <2> QED
        BY <1>4, <2>1 DEF Rests
<1> QED
      BY <1>5, <1>6, <1>7 DEF CoeStep

\* What every step of a call of EcCoe leaves true.
LEMMA CoeAside ==
    ASSUME Types, ReadInv, CoeStep
    PROVE  /\ Aside /\ app' = app /\ sm0' = sm0 /\ last' = last /\ coe'.op = coe.op /\ coe'.obj = coe.obj
           /\ coe \in CallRecords /\ coe' \in CallRecords
           /\ coe.pc \in {"ready", "send", "receive"}
           /\ VerifySays' /\ LineSays' /\ Line' = Line
           /\ (coe'.op = "up" /\ ~coe'.seg => coe'.toggle = FALSE) => CallSays'
           /\ Request \/ Hears \/ Rests
<1>1. CoeCallStep /\ coe.pc \in {"ready", "send", "receive"}
      BY CoeStepAdvances DEF Types
<1>2. coe'.op = coe.op /\ coe'.obj = coe.obj /\ coe \in CallRecords /\ coe' \in CallRecords
      BY <1>1 DEF CoeCallStep, Advances, Types, CallTypes
<1>3. UNCHANGED <<slavebox, val, xfer, app>>
      BY DEF CoeStep, Request, Sent, NotReceived, Unexpected, UploadResponse, UploadSegment,
             TransferExpires, DownloadResponse, DownloadSegmentResponse, ListFragment, Description, Entry,
             TxPdoResponse, Same, slave
<1>4. Aside /\ app' = app /\ sm0' = sm0 /\ last' = last
      BY <1>3 DEF Aside, slavebox
<1>5. VerifySays'
      BY <1>1, <1>2, <1>4 DEF ReadInv, VerifySays
<1>6. LineSays' /\ Line' = Line
      BY <1>4, AsideLine DEF ReadInv
<1>7. (coe'.op = "up" /\ ~coe'.seg => coe'.toggle = FALSE) => CallSays'
  <2>1. CASE Request
    <3>1. \E m \in ToSlave : link' = Sending(m)
      <4>1. [RequestOf EXCEPT !.cnt = NextMbxCnt(mbxcnt), !.id = asked + 1] \in ToSlave
            BY <2>1, RequestIsTyped DEF ToSlave, Types, Request
      <4> QED
            BY <2>1, <4>1 DEF Request
    <3>2. coe'.pc = "send"
          BY <1>2, <2>1 DEF Request, CallRecords
    <3> QED
          BY <3>1, <3>2, LinkSays DEF CallSays
  <2>2. CASE Hears \/ Rests
        BY <2>2, LinkSays DEF CallSays
  <2> QED
        BY <2>1, <2>2, CoeLinks
<1> QED
      BY <1>1, <1>2, <1>4, <1>5, <1>6, <1>7, CoeLinks

\* A step of a read that ends it, or after which it waits as before.
LEMMA ReadEnds ==
    ASSUME Types, ReadInv, CoeStep, coe.op = "up", Hears \/ Rests, coe.pc = "ready" => coe.seg,
           coe'.pc = "idle", coe'.clear = coe.clear, ~coe'.seg => coe'.toggle = FALSE,
           Reads /\ coe'.ok => /\ coe.obj \in Objects
                               /\ coe'.got = [k \in 1..Size[coe.obj] |-> <<val[coe.obj], k>>]
    PROVE  ReadInv'
<1>1. /\ Aside /\ sm0' = sm0 /\ coe'.op = coe.op /\ coe'.obj = coe.obj /\ CallSays' /\ LineSays' /\ VerifySays'
      /\ val' = val
      BY CoeAside DEF Aside
<1>2. link'.op \notin Writing
      BY LinkSays
<1>3. Reads' => Reads
      BY <1>1 DEF Reads
<1>4. OwnSays'
      BY <1>1, <1>2, <1>3 DEF ReadInv, OwnSays, IsInitial, IsRest
<1>5. BeginsSays' /\ GotSays' /\ SegmentsSay'
      BY DEF BeginsSays, GotSays, SegmentsSay, Begins, Segments
<1>6. ReadSays'
      BY <1>1, <1>3 DEF ReadSays
<1> QED
      BY <1>1, <1>4, <1>5, <1>6 DEF ReadInv

LEMMA ReadFails ==
    ASSUME Types, ReadInv, CoeStep, coe.op = "up", coe.pc = "ready" => coe.seg, Return(FALSE)
    PROVE  ReadInv'
<1>1. coe' = [coe EXCEPT !.pc = "idle", !.ok = FALSE] /\ Rests
      BY DEF Return, Rests
<1>2. coe \in CallRecords
      BY CoeAside
<1>3. coe'.pc = "idle" /\ ~coe'.ok /\ coe'.clear = coe.clear /\ coe'.seg = coe.seg /\ coe'.toggle = coe.toggle
      BY <1>1, <1>2 DEF CallRecords
<1>4. ~coe'.seg => coe'.toggle = FALSE
      BY <1>3 DEF ReadInv, CallSays
<1> QED
      BY <1>1, <1>3, <1>4, ReadEnds

\* The message that is being written is one of the read that waits for segments.
LEMMA SegmentsStay ==
    ASSUME SegmentsSay, Line' = Line, UNCHANGED <<sm0, val, xfer>>, coe'.obj = coe.obj, coe'.toggle = coe.toggle,
           Got' = Got, Segments' => Segments,
           Segments' /\ link'.op \in Writing =>
              link'.msg.type = "CoE" /\ link'.msg.cmd = "seg up" /\ link'.msg.toggle = coe.toggle
    PROVE  SegmentsSay'
<1> SUFFICES ASSUME Segments' PROVE SegmentsSay'
    BY DEF SegmentsSay
<1>1. Segments /\ sm0' = sm0 /\ val' = val /\ xfer' = xfer
      OBVIOUS
<1>2. PICK o, t, g : o = coe.obj /\ t = coe.toggle /\ g = Got
      OBVIOUS
<1>3. coe'.obj = o /\ coe'.toggle = t /\ Got' = g
      BY <1>2
<1>4. \A done, toggle : Supplying(o, done, toggle) <=>
         \/ xfer'.way = "none"
         \/ /\ xfer'.way = "up" /\ xfer'.obj = o /\ xfer'.of = Size[o] /\ xfer'.val = val'[o]
            /\ xfer'.done = done /\ xfer'.toggle = toggle
      BY <1>1 DEF Supplying
<1>5. /\ \A i \in DOMAIN Line : IsSegment(Line[i]) =>
             /\ Line[i].val = val[o]
             /\ Line[i].part = IF Line[i].toggle = t THEN g + 1 ELSE g
             /\ Line[i].toggle = t => Supplying(o, g + 1, ~t)
      /\ \A i, j \in DOMAIN Line :
             i < j /\ IsSegment(Line[i]) /\ IsSegment(Line[j]) /\ Line[i].toggle = t => Line[j].toggle = t
      /\ Supplying(o, g, t) \/ Supplying(o, g + 1, ~t)
      BY <1>1, <1>2 DEF SegmentsSay
<1>6. /\ sm0 # Nothing /\ sm0.type = "CoE" /\ sm0.cmd = "up" /\ sm0.obj = o =>
             /\ g = 1 /\ t = FALSE /\ Supplying(o, 1, FALSE)
             /\ \A i \in DOMAIN Line : ~IsSegment(Line[i])
      /\ sm0 # Nothing /\ IsRest(sm0) /\ sm0.toggle # t => Supplying(o, g, t)
      BY <1>1, <1>2 DEF SegmentsSay, IsInitial
<1>7. link'.op \in Writing => link'.msg.type = "CoE" /\ link'.msg.cmd = "seg up" /\ link'.msg.toggle = t
      BY <1>2
<1>8. \A done, toggle : Supplying(o, done, toggle) => Supplying(o, done, toggle)'
      BY <1>4 DEF Supplying
<1>9. ASSUME NEW done, NEW toggle, Supplying(o, done, toggle)'
      PROVE  \/ xfer'.way = "none"
             \/ /\ xfer'.way = "up" /\ xfer'.obj = coe'.obj /\ xfer'.of = Size[coe'.obj]
                /\ xfer'.val = val'[coe'.obj] /\ xfer'.done = done /\ xfer'.toggle = toggle
      BY <1>3, <1>9 DEF Supplying
<1>10. (link.op \in Writing => IsRest(link.msg) /\ link.msg.toggle = coe.toggle)'
      BY <1>3, <1>7 DEF IsRest
<1>11. (\A i \in DOMAIN Line : IsSegment(Line[i]) =>
             /\ Line[i].val = val[coe.obj]
             /\ Line[i].part = IF Line[i].toggle = coe.toggle THEN Got + 1 ELSE Got
             /\ Line[i].toggle = coe.toggle => Supplying(coe.obj, Got + 1, ~coe.toggle))'
      BY ZenonT(60), <1>1, <1>3, <1>5, <1>8, <1>9 DEF Supplying
<1>12. (\A i, j \in DOMAIN Line :
             i < j /\ IsSegment(Line[i]) /\ IsSegment(Line[j]) /\ Line[i].toggle = coe.toggle =>
                Line[j].toggle = coe.toggle)'
      BY <1>3, <1>5
<1>13. (Supplying(coe.obj, Got, coe.toggle) \/ Supplying(coe.obj, Got + 1, ~coe.toggle))'
      BY <1>3, <1>5, <1>8, <1>9 DEF Supplying
<1>14. (sm0 # Nothing /\ IsInitial(sm0) =>
             /\ Got = 1 /\ coe.toggle = FALSE /\ Supplying(coe.obj, 1, FALSE)
             /\ \A i \in DOMAIN Line : ~IsSegment(Line[i]))'
      BY <1>1, <1>3, <1>6, <1>8, <1>9 DEF Supplying, IsInitial
<1>15. (sm0 # Nothing /\ IsRest(sm0) /\ sm0.toggle # coe.toggle => Supplying(coe.obj, Got, coe.toggle))'
      BY <1>1, <1>3, <1>6, <1>8, <1>9 DEF Supplying, IsRest
<1> QED
      BY <1>10, <1>11, <1>12, <1>13, <1>14, <1>15 DEF SegmentsSay

LEMMA ReadWaits ==
    ASSUME Types, ReadInv, CoeStep, coe.op = "up", coe.pc = "send",
           coe' = [coe EXCEPT !.pc = "receive"], link' = Awaiting(TRUE)
    PROVE  ReadInv'
<1>1. /\ Aside /\ sm0' = sm0 /\ LineSays' /\ VerifySays' /\ Line' = Line /\ coe \in CallRecords
      BY CoeAside
<1>2. val' = val /\ xfer' = xfer
      BY <1>1 DEF Aside
<1>3. /\ coe'.pc = "receive" /\ coe'.op = coe.op /\ coe'.obj = coe.obj /\ coe'.clear = coe.clear
      /\ coe'.seg = coe.seg /\ coe'.toggle = coe.toggle /\ coe'.got = coe.got /\ coe'.of = coe.of
      BY <1>1 DEF CallRecords
<1>4. link'.op \notin Writing
      BY LinkSays DEF Hears
<1>5. CallSays'
  <2>1. ~coe'.seg => coe'.toggle = FALSE
        BY <1>3 DEF ReadInv, CallSays
  <2> QED
        BY <2>1, CoeAside
<1>6. Reads' = Reads /\ Begins' = Begins /\ Segments' = Segments /\ Got' = Got
      BY <1>3 DEF Reads, Begins, Segments, Got
<1>7. OwnSays'
      BY <1>1, <1>3, <1>4, <1>6 DEF ReadInv, OwnSays, IsInitial, IsRest
<1>8. GotSays'
      BY <1>2, <1>3, <1>6 DEF ReadInv, GotSays
<1>9. ReadSays'
      BY <1>3 DEF ReadSays
<1>10. BeginsSays'
      BY ZenonT(60), <1>1, <1>2, <1>3, <1>4, <1>6 DEF ReadInv, BeginsSays, Supplying, IsInitial
<1>11. SegmentsSay'
      BY <1>1, <1>2, <1>3, <1>4, <1>6, SegmentsStay DEF ReadInv
<1> QED
      BY <1>1, <1>5, <1>7, <1>8, <1>9, <1>10, <1>11 DEF ReadInv

\* A read asks: for the object, then for each segment.
LEMMA AskedFor ==
    ASSUME CallTypes, MailTypes, coe.pc = "ready", coe.op = "up"
    PROVE  LET m == [RequestOf EXCEPT !.cnt = NextMbxCnt(mbxcnt), !.id = asked + 1]
           IN  /\ m.type = "CoE" /\ m.cmd = (IF coe.seg THEN "seg up" ELSE "up") /\ m.obj = coe.obj
               /\ m.toggle = coe.toggle
BY DEF RequestOf, SdoRequest, Msg

LEMMA ReadAsks ==
    ASSUME Types, ReadInv, Request, coe.op = "up"
    PROVE  ReadInv'
<1> DEFINE m == [RequestOf EXCEPT !.cnt = NextMbxCnt(mbxcnt), !.id = asked + 1]
<1>1. CoeStep /\ link' = Sending(m) /\ coe.pc = "ready"
      BY DEF CoeStep, Request
<1>2. /\ Aside /\ sm0' = sm0 /\ LineSays' /\ VerifySays' /\ Line' = Line /\ coe \in CallRecords /\ coe'.obj = coe.obj
      /\ coe'.op = coe.op
      BY <1>1, CoeAside
<1>3. val' = val /\ xfer' = xfer
      BY <1>2 DEF Aside
<1>4. /\ m.type = "CoE" /\ m.cmd = (IF coe.seg THEN "seg up" ELSE "up") /\ m.obj = coe.obj
      /\ m.toggle = coe.toggle
      BY <1>1, AskedFor DEF Types
<1>5. link'.op = "empty" /\ link'.msg = m
      BY <1>1 DEF Sending
<1>6. PICK part, clear : coe' = [coe EXCEPT !.pc = "send", !.part = part, !.clear = clear]
                         /\ clear = IF coe.seg THEN coe.clear ELSE Clear
      BY DEF Request
<1>7. /\ coe'.pc = "send" /\ coe'.clear = clear /\ coe'.seg = coe.seg /\ coe'.toggle = coe.toggle
      /\ coe'.got = coe.got /\ coe'.of = coe.of
      BY <1>2, <1>6 DEF CallRecords
<1> HIDE DEF m
<1>8. CallSays'
  <2>1. ~coe'.seg => coe'.toggle = FALSE
        BY <1>7 DEF ReadInv, CallSays
  <2> QED
        BY <1>1, <2>1, CoeAside
<1>9. ReadSays'
      BY <1>7 DEF ReadSays
<1>10. CASE ~coe.seg
  <2>1. link'.msg.type = "CoE" /\ link'.msg.cmd = "up" /\ link'.msg.obj = coe'.obj
        BY <1>2, <1>4, <1>5, <1>10
  <2>2. ~Segments'
        BY <1>7, <1>10 DEF Segments
  <2>3. Reads' => Clear
        BY <1>6, <1>7, <1>10 DEF Reads
  <2>4. OwnSays' /\ GotSays' /\ SegmentsSay'
    <3>1. Reads' => sm0' = Nothing
          BY <1>2, <2>3 DEF Clear
    <3> QED
          BY <2>1, <2>2, <3>1 DEF OwnSays, GotSays, SegmentsSay, IsInitial
  <2>5. BeginsSays'
    <3> SUFFICES ASSUME Begins' PROVE BeginsSays'
        BY DEF BeginsSays
    <3>1. Clear /\ sm0' = Nothing
          BY <1>2, <2>3 DEF Begins, Clear
    <3>3. DOMAIN Line = {0}
      <4>1. sm1 = Nothing /\ replies = <<>> /\ Len(<<>>) = 0
            BY <3>1 DEF Clear
      <4> QED
            BY <4>1 DEF Line, LineOf
    <3>2. \A i, j \in DOMAIN Line : ~(j > i)
          BY <3>3
    <3>4. \A i \in DOMAIN Line : IsUp(Line[i]) /\ Line[i].obj = coe.obj =>
             Line[i].val = val[coe.obj] /\ Supplying(coe.obj, 1, FALSE)
          BY <3>2 DEF ReadInv, LineSays
    <3>5. \A i, j \in DOMAIN Line' : ~(i < j)
          BY <1>2, <3>3
    <3>6. \A i \in DOMAIN Line' : IsUp(Line'[i]) /\ Line'[i].obj = coe'.obj =>
             Line'[i].val = val'[coe'.obj] /\ Supplying(coe.obj, 1, FALSE)'
          BY <1>2, <1>3, <3>4 DEF Supplying
    <3> QED
          BY <1>2, <2>1, <3>1, <3>5, <3>6 DEF BeginsSays, Supplying, IsInitial
  <2> QED
        BY <1>2, <1>8, <1>9, <2>4, <2>5 DEF ReadInv
<1>11. CASE coe.seg
  <2>1. Reads' = Reads /\ Segments' = Segments /\ Got' = Got /\ ~Begins'
        BY <1>1, <1>2, <1>6, <1>7, <1>11 DEF Reads, Segments, Begins, Got
  <2>2. link'.msg.type = "CoE" /\ link'.msg.cmd = "seg up" /\ link'.msg.toggle = coe'.toggle
        BY <1>4, <1>5, <1>7, <1>11
  <2>3. OwnSays' /\ GotSays' /\ BeginsSays'
        BY <1>2, <1>3, <1>7, <2>1, <2>2 DEF ReadInv, OwnSays, GotSays, BeginsSays, IsInitial, IsRest
  <2>4. SegmentsSay'
        BY <1>2, <1>3, <1>7, <2>1, <2>2, SegmentsStay DEF ReadInv
  <2> QED
        BY <1>2, <1>8, <1>9, <2>3, <2>4 DEF ReadInv
<1> QED
      BY <1>10, <1>11

\* What a call that listens was handed is in front of the line.
LEMMA Handed ==
    ASSUME Types, ReadInv, Received
    PROVE  /\ link.msg \in FromSlave /\ link.msg # Nothing
           /\ 0 \in DOMAIN Line /\ Line[0] = link.msg /\ \A j \in DOMAIN Line : j # 0 => j > 0
<1>1. coe.pc = "receive" /\ link.op = "done" /\ link.wkc > 0
      BY DEF Received, Done
<1>2. link.wkc = 1
      BY <1>1 DEF Types, LinkTypes, LinkRecords
<1>3. link.msg \in FromSlave /\ link.msg = last
      BY <1>1, <1>2 DEF Types, LinkTypes, Listening, ReadInv, CallSays
<1>4. Line[0] = last /\ \E n \in Nat : DOMAIN Line = 0..n
  <2>1. last \in Letters /\ sm1 \in Letters /\ replies \in Seq(FromSlave)
        BY BoxesAreTyped DEF Types, MailTypes
  <2> QED
        BY <2>1, LineIs DEF Line
<1> QED
      BY <1>3, <1>4, ConstantsOK

\* The initial answer is taken, and parts are missing.
LEMMA ReadContinues ==
    ASSUME Types, ReadInv, CoeStep, coe.op = "up", Rests, coe'.pc = "ready", coe'.seg, coe'.clear = coe.clear,
           Reads => OwnSays' /\ GotSays' /\ SegmentsSay', coe.pc = "receive"
    PROVE  ReadInv'
<1>1. Aside /\ LineSays' /\ VerifySays' /\ CallSays' /\ coe'.op = coe.op
      BY CoeAside
<1>2. Reads' => Reads
      BY <1>1 DEF Reads
<1>3. ReadSays' /\ BeginsSays'
      BY DEF ReadSays, BeginsSays, Begins
<1>4. OwnSays' /\ GotSays' /\ SegmentsSay'
      BY <1>2 DEF OwnSays, GotSays, SegmentsSay, Segments
<1> QED
      BY <1>1, <1>3, <1>4 DEF ReadInv

LEMMA ReadBegun ==
    ASSUME Types, ReadInv, UploadResponse
    PROVE  ReadInv'
<1> DEFINE m == link.msg
           got == <<<<m.val, 1>>>>
<1>1. /\ Received /\ coe.op = "up" /\ ~coe.seg /\ IsUploadResponse(m) /\ CoeStep /\ coe.pc = "receive"
      BY DEF UploadResponse, CoeStep, Received
<1>2. /\ Aside /\ sm0' = sm0 /\ Line' = Line /\ coe \in CallRecords /\ coe'.obj = coe.obj /\ coe.obj \in Objects
      /\ Size[coe.obj] \in Nat \ {0} /\ coe'.op = coe.op
      BY <1>1, CoeAside, ConstantsOK DEF Types, CallTypes
<1>3. val' = val /\ xfer' = xfer
      BY <1>2 DEF Aside
<1>4. m \in FromSlave /\ m # Nothing /\ 0 \in DOMAIN Line /\ Line[0] = m /\ \A j \in DOMAIN Line : j # 0 => j > 0
      BY <1>1, Handed
<1>5. IsUp(m) /\ m.obj = coe.obj
      BY <1>1, <1>4 DEF IsUploadResponse, IsUp, IsSdo
<1>6. m.of = Size[coe.obj]
      BY <1>4, <1>5 DEF ReadInv, LineSays
<1>7. coe.toggle = FALSE
      BY <1>1 DEF ReadInv, CallSays
<1>8. ASSUME Reads
      PROVE  /\ Begins /\ m.val = val[coe.obj] /\ Supplying(coe.obj, 1, FALSE)
             /\ \A j \in DOMAIN Line : ~IsSegment(Line[j])
  <2>1. Begins
        BY <1>1, <1>8 DEF Begins
  <2>2. m.val = val[coe.obj] /\ Supplying(coe.obj, 1, FALSE)
        BY <1>4, <1>5, <2>1 DEF ReadInv, BeginsSays
  <2>3. ~IsSegment(m)
        BY <1>5 DEF IsUp, IsSegment
  <2>4. \A j \in DOMAIN Line : ~IsSegment(Line[j])
        BY <1>4, <1>5, <2>1, <2>3 DEF ReadInv, BeginsSays
  <2> QED
        BY <2>1, <2>2, <2>4
<1> HIDE DEF m
<1>9. CASE Return(FALSE)
      BY <1>1, <1>9, ReadFails
<1>10. CASE /\ m.of = 1 /\ Rests
            /\ coe' = [[coe EXCEPT !.got = got, !.of = m.of] EXCEPT !.pc = "idle", !.ok = TRUE]
  <2>1. /\ coe'.pc = "idle" /\ coe'.clear = coe.clear /\ coe'.seg = coe.seg /\ coe'.toggle = coe.toggle
        /\ coe'.got = got
        BY <1>2, <1>10 DEF CallRecords
  <2>2. Reads => got = [k \in 1..Size[coe.obj] |-> <<val[coe.obj], k>>]
    <3>1. [k \in 1..1 |-> <<m.val, k>>] = got
          OBVIOUS
    <3> QED
          BY <1>6, <1>8, <1>10, <3>1
  <2> QED
        BY <1>1, <1>2, <1>7, <1>10, <2>1, <2>2, ReadEnds
<1>11. CASE /\ m.of # 1 /\ Rests
            /\ coe' = [[[coe EXCEPT !.got = got, !.of = m.of] EXCEPT !.seg = TRUE] EXCEPT !.pc = "ready"]
  <2>1. /\ coe'.pc = "ready" /\ coe'.clear = coe.clear /\ coe'.seg = TRUE /\ coe'.toggle = coe.toggle
        /\ coe'.got = got /\ coe'.of = m.of
        BY <1>2, <1>11 DEF CallRecords
  <2>2. Len(got) = 1 /\ Got' = 1
        BY <2>1 DEF Got
  <2>3. link'.op \notin Writing
        BY <1>11, LinkSays
  <2>4. ASSUME Reads PROVE OwnSays'
        BY <1>2, <2>3, <2>4 DEF ReadInv, OwnSays, IsInitial, IsRest
  <2>5. ASSUME Reads PROVE GotSays'
    <3>1. got = [k \in 1..1 |-> <<val[coe.obj], k>>]
          BY <1>8, <2>5
    <3>2. 1 \in 1..Size[coe.obj]
          BY <1>2
    <3> HIDE DEF got
    <3> QED
          BY <1>2, <1>3, <1>6, <2>1, <2>2, <3>1, <3>2 DEF GotSays
  <2>6. ASSUME Reads PROVE SegmentsSay'
    <3>1. /\ Supplying(coe.obj, 1, FALSE)
          /\ \A j \in DOMAIN Line' : ~IsSegment(Line'[j])
          BY <1>2, <1>8, <2>6
    <3>2. \/ xfer'.way = "none"
          \/ /\ xfer'.way = "up" /\ xfer'.obj = coe'.obj /\ xfer'.of = Size[coe'.obj] /\ xfer'.val = val'[coe'.obj]
             /\ xfer'.done = 1 /\ xfer'.toggle = FALSE
          BY <1>2, <1>3, <3>1 DEF Supplying
    <3>3. coe'.toggle = FALSE
          BY <1>7, <2>1
    <3> QED
          BY <2>2, <2>3, <3>1, <3>2, <3>3 DEF SegmentsSay, Supplying
  <2> QED
        BY <1>1, <1>11, <2>1, <2>4, <2>5, <2>6, ReadContinues
<1>12. Return(FALSE) \/
       (/\ m.of = 1 /\ Rests
        /\ coe' = [[coe EXCEPT !.got = got, !.of = m.of] EXCEPT !.pc = "idle", !.ok = TRUE]) \/
       (/\ m.of # 1 /\ Rests
        /\ coe' = [[[coe EXCEPT !.got = got, !.of = m.of] EXCEPT !.seg = TRUE] EXCEPT !.pc = "ready"])
      BY DEF UploadResponse, Continue, Rests, m
<1> QED
      BY <1>9, <1>10, <1>11, <1>12

\* A segment is taken: the read has one more part, and the next segment has the other
\* toggle bit.
LEMMA ReadGoesOn ==
    ASSUME Types, ReadInv, UploadSegment
    PROVE  ReadInv'
<1> DEFINE m == link.msg
           got == Append(coe.got, <<m.val, m.part>>)
           obj == coe.obj
<1>1. /\ Received /\ coe.op = "up" /\ coe.seg /\ IsUploadSegment(m) /\ CoeStep /\ coe.pc = "receive"
      BY DEF UploadSegment, CoeStep, Received
<1>2. /\ Aside /\ sm0' = sm0 /\ Line' = Line /\ coe \in CallRecords /\ coe'.obj = coe.obj /\ coe.obj \in Objects
      /\ Size[coe.obj] \in Nat \ {0} /\ coe'.op = coe.op
      BY <1>1, CoeAside, ConstantsOK DEF Types, CallTypes
<1>3. val' = val /\ xfer' = xfer /\ coe.toggle \in BOOLEAN
      BY <1>2 DEF Aside, CallRecords
<1>4. m \in FromSlave /\ m # Nothing /\ 0 \in DOMAIN Line /\ Line[0] = m /\ \A j \in DOMAIN Line : j # 0 => j > 0
      BY <1>1, Handed
<1>5. IsSegment(m) /\ m.toggle = coe.toggle /\ Len(coe.got) < coe.of
      BY <1>1, <1>4 DEF IsUploadSegment, IsSegment, IsSdo
<1>6. /\ Len(coe.got) \in Nat /\ Len(got) = Len(coe.got) + 1 /\ DOMAIN got = 1..(Len(coe.got) + 1)
      /\ (\A i \in 1..Len(coe.got) : got[i] = coe.got[i]) /\ got[Len(coe.got) + 1] = <<m.val, m.part>>
      /\ got = [i \in 1..(Len(coe.got) + 1) |-> got[i]]
  <2> DEFINE S == Parts \union {<<m.val, m.part>>}
  <2>1. coe.got \in Seq(S) /\ <<m.val, m.part>> \in S
    <3>1. coe.got \in Seq(Parts)
          BY <1>2 DEF CallRecords
    <3> QED
          BY <3>1
  <2> HIDE DEF S
  <2>2. got \in Seq(S) /\ Len(got) = Len(coe.got) + 1
        BY <2>1
  <2>3. got = [i \in 1..Len(got) |-> got[i]]
    <3> HIDE DEF got
    <3> QED
        BY <2>2
  <2> QED
        BY <2>1, <2>2, <2>3
<1>7. ASSUME Reads
      PROVE  /\ Segments /\ m.val = val[obj] /\ m.part = Got + 1 /\ Supplying(obj, Got + 1, ~coe.toggle)
             /\ coe.of = Size[obj] /\ Got \in 1..coe.of
             /\ coe.got = [k \in 1..Got |-> <<val[obj], k>>]
  <2>1. Segments
        BY <1>1, <1>7 DEF Segments
  <2>2. m.val = val[obj] /\ m.part = Got + 1 /\ Supplying(obj, Got + 1, ~coe.toggle)
        BY <1>4, <1>5, <2>1 DEF ReadInv, SegmentsSay
  <2> QED
        BY <2>1, <2>2 DEF ReadInv, GotSays
<1>8. ASSUME Reads PROVE got = [k \in 1..(Got + 1) |-> <<val[obj], k>>] /\ Got + 1 \in 1..coe.of
  <2>1. Len(coe.got) = Got
        BY DEF Got
  <2>2. ASSUME NEW k \in 1..(Got + 1) PROVE got[k] = <<val[obj], k>>
    <3>1. k \in 1..Got \/ k = Got + 1
          BY <1>6, <2>1
    <3>2. CASE k \in 1..Got
          BY <1>6, <1>7, <1>8, <2>1, <3>2
    <3>3. CASE k = Got + 1
          BY <1>6, <1>7, <1>8, <2>1, <3>3
    <3> QED
          BY <3>1, <3>2, <3>3
  <2>3. got = [k \in 1..(Got + 1) |-> got[k]]
        BY <1>6, <2>1
  <2>4. Got + 1 \in 1..coe.of
    <3>1. coe.of = Size[obj] /\ coe.of \in Nat /\ Got \in Nat /\ Got < coe.of
          BY <1>2, <1>5, <1>6, <1>7, <1>8, <2>1
    <3> QED
          BY <3>1
  <2> HIDE DEF got
  <2> QED
        BY <2>2, <2>3, <2>4
<1> HIDE DEF m, got, obj
<1>9. CASE /\ Rests
           /\ \E ok : /\ ok = (Len(got) = coe.of)
                      /\ coe' = [[coe EXCEPT !.got = got, !.toggle = ~@] EXCEPT !.pc = "idle", !.ok = ok]
  <2>1. PICK ok : /\ ok = (Len(got) = coe.of)
                  /\ coe' = [[coe EXCEPT !.got = got, !.toggle = ~@] EXCEPT !.pc = "idle", !.ok = ok]
        BY <1>9
  <2>2. coe'.pc = "idle" /\ coe'.clear = coe.clear /\ coe'.seg = coe.seg /\ coe'.got = got /\ coe'.ok = ok
        BY <1>2, <2>1 DEF CallRecords
  <2>3. ASSUME Reads, coe'.ok PROVE got = [k \in 1..Size[coe.obj] |-> <<val[coe.obj], k>>]
    <3>1. Len(got) = coe.of
          BY <2>1, <2>2, <2>3
    <3>2. Got + 1 = Size[obj]
          BY <1>6, <1>7, <2>3, <3>1 DEF Got
    <3> QED
          BY <1>8, <2>3, <3>2 DEF obj
  <2> QED
        BY <1>1, <1>2, <1>9, <2>2, <2>3, ReadEnds
<1>10. CASE /\ Rests
            /\ coe' = [[coe EXCEPT !.got = got, !.toggle = ~@] EXCEPT !.pc = "ready"]
  <2>1. /\ coe'.pc = "ready" /\ coe'.clear = coe.clear /\ coe'.seg /\ coe'.toggle = ~coe.toggle
        /\ coe'.got = got /\ coe'.of = coe.of
        BY <1>1, <1>2, <1>10 DEF CallRecords
  <2>2. Got' = Got + 1
        BY <1>6, <2>1 DEF Got
  <2>3. link'.op \notin Writing
        BY <1>10, LinkSays
  <2>4. ASSUME Reads PROVE OwnSays'
        BY <1>2, <2>3, <2>4 DEF ReadInv, OwnSays, IsInitial, IsRest
  <2>5. ASSUME Reads PROVE GotSays'
        BY <1>2, <1>3, <1>7, <1>8, <2>1, <2>2, <2>5 DEF GotSays, obj
  <2>6. ASSUME Reads PROVE SegmentsSay'
    <3>1. PICK t \in BOOLEAN : t = coe.toggle /\ coe'.toggle = ~t
          BY <1>3, <2>1
    <3>2. PICK g : g = Got /\ Got' = g + 1 /\ g \in Nat
          BY <1>6, <2>2 DEF Got
    <3>3. \/ xfer'.way = "none"
          \/ /\ xfer'.way = "up" /\ xfer'.obj = coe'.obj /\ xfer'.of = Size[coe'.obj] /\ xfer'.val = val'[coe'.obj]
             /\ xfer'.done = g + 1 /\ xfer'.toggle = ~t
          BY <1>2, <1>3, <1>7, <2>6, <3>1, <3>2 DEF Supplying, obj
    <3>4. (Supplying(coe.obj, Got, coe.toggle))'
          BY <3>1, <3>2, <3>3 DEF Supplying
    <3>5. \A i \in DOMAIN Line : IsSegment(Line[i]) =>
             Line[i].toggle = t /\ Line[i].val = val[coe.obj] /\ Line[i].part = g + 1
      <4>1. \A i \in DOMAIN Line : IsSegment(Line[i]) => Line[i].toggle = t
            BY <1>4, <1>5, <1>7, <2>6, <3>1 DEF ReadInv, SegmentsSay
      <4> QED
            BY <1>7, <2>6, <3>1, <3>2, <4>1 DEF ReadInv, SegmentsSay
    <3>6. ~(sm0 # Nothing /\ IsInitial(sm0))
          BY <1>4, <1>5, <1>7, <2>6 DEF ReadInv, SegmentsSay
    <3>7. ~(sm0' # Nothing /\ IsInitial(sm0)')
          BY <1>2, <3>6 DEF IsInitial
    <3>8. \A i \in DOMAIN Line' : IsSegment(Line'[i]) =>
             Line'[i].toggle # coe'.toggle /\ Line'[i].val = val'[coe'.obj] /\ Line'[i].part = Got'
          BY <1>2, <1>3, <3>1, <3>2, <3>5
    <3> QED
          BY <2>3, <3>4, <3>7, <3>8 DEF SegmentsSay
  <2> QED
        BY <1>1, <1>10, <2>1, <2>4, <2>5, <2>6, ReadContinues
<1>11. \/ /\ Rests
          /\ coe' = [[coe EXCEPT !.got = got, !.toggle = ~@] EXCEPT !.pc = "ready"]
       \/ /\ Rests
          /\ \E ok : /\ ok = (Len(got) = coe.of)
                     /\ coe' = [[coe EXCEPT !.got = got, !.toggle = ~@] EXCEPT !.pc = "idle", !.ok = ok]
  <2> DEFINE taken == [coe EXCEPT !.got = got, !.toggle = ~@]
  <2>1. taken.got = got /\ taken.of = coe.of
        BY <1>2 DEF CallRecords
  <2>2. Whole(taken) = (Len(got) = coe.of)
        BY <2>1 DEF Whole
  <2>3. \/ Continue(taken)
        \/ Rests /\ coe' = [taken EXCEPT !.pc = "idle", !.ok = Whole(taken)]
        BY DEF UploadSegment, Rests, m, got
  <2> HIDE DEF taken
  <2>4. \/ Rests /\ coe' = [taken EXCEPT !.pc = "ready"]
        \/ Rests /\ \E ok : ok = (Len(got) = coe.of) /\ coe' = [taken EXCEPT !.pc = "idle", !.ok = ok]
        BY <2>2, <2>3 DEF Continue, Rests
  <2> QED
        BY <2>4 DEF taken
<1> QED
      BY <1>9, <1>10, <1>11

LEMMA CoeReads ==
    ASSUME Types, ReadInv, CoeStep
    PROVE  ReadInv'
<1>1. coe'.op = coe.op /\ Aside /\ VerifySays'
      BY CoeAside
<1>2. CASE coe.op # "up"
  <2>1. ~Reads' /\ CallSays'
        BY <1>1, <1>2, CoeAside DEF Reads
  <2> QED
        BY <1>1, <2>1, NotReading
<1>3. CASE coe.op = "up"
  <2>1. Fails => Return(FALSE)
        BY <1>3 DEF Fails, GoesOn
  <2>2. CASE Request
        BY <1>3, <2>2, ReadAsks
  <2>3. CASE Sent
    <3>1. \/ Return(FALSE)
          \/ link' = Awaiting(TRUE) /\ coe' = [coe EXCEPT !.pc = "receive"]
          BY <1>3, <2>1, <2>3 DEF Sent
    <3>2. coe.pc = "send"
          BY <2>3 DEF Sent
    <3> QED
          BY <1>3, <3>1, <3>2, ReadFails, ReadWaits
  <2>4. CASE NotReceived \/ Unexpected \/ TransferExpires
    <3>1. Return(FALSE) /\ (coe.pc = "ready" => coe.seg)
          BY <1>3, <2>1, <2>4 DEF NotReceived, Unexpected, TransferExpires, Received
    <3> QED
          BY <1>3, <3>1, ReadFails
  <2>5. CASE UploadResponse
        BY <2>5, ReadBegun
  <2>6. CASE UploadSegment
        BY <2>6, ReadGoesOn
  <2>7. ~(DownloadResponse \/ DownloadSegmentResponse \/ ListFragment \/ Description \/ Entry \/ TxPdoResponse)
        BY <1>3 DEF DownloadResponse, DownloadSegmentResponse, ListFragment, Description, Entry, TxPdoResponse
  <2> QED
        BY <2>2, <2>3, <2>4, <2>5, <2>6, <2>7 DEF CoeStep
<1> QED
      BY <1>2, <1>3

LEMMA ReadInit == EthernetInit => ReadInv
<1> SUFFICES ASSUME EthernetInit PROVE ReadInv
    OBVIOUS
<1>1. /\ coe = [Call("up", Nothing, NoValue, 0) EXCEPT !.pc = "idle"] /\ app = NoApp
      /\ sm0 = Nothing /\ sm1 = Nothing /\ replies = <<>> /\ last = Nothing
      /\ link = [Awaiting(FALSE) EXCEPT !.op = Done]
      BY DEF EthernetInit, TransferInit, Init, MailboxInit
<1>2. coe.pc = "idle" /\ ~coe.ok /\ ~coe.seg /\ coe.toggle = FALSE
      BY <1>1 DEF Call
<1>3. link.op = "done" /\ link.wkc = 0
      BY <1>1, Resting
<1>4. CallSays
      BY <1>2, <1>3 DEF CallSays, Writing
<1>5. \A i \in DOMAIN Line : Line[i] = Nothing
  <2>1. Len(<<>>) = 0
        OBVIOUS
  <2>2. DOMAIN Line = {0} /\ Line[0] = Nothing
        BY <1>1, <2>1 DEF Line, LineOf
  <2> QED
        BY <2>2
<1>6. LineSays
      BY <1>5 DEF LineSays, IsUp, IsSdo
<1>7. OwnSays
      BY <1>1, <1>3 DEF OwnSays, Writing
<1>8. BeginsSays /\ GotSays /\ SegmentsSay /\ ReadSays
      BY <1>2 DEF BeginsSays, GotSays, SegmentsSay, ReadSays, Begins, Segments
<1>9. app.phase = "none"
      BY <1>1 DEF NoApp
<1>10. VerifySays
      BY <1>9 DEF VerifySays
<1> QED
      BY <1>4, <1>6, <1>7, <1>8, <1>10 DEF ReadInv

LEMMA ReadStep == Types /\ ReadInv /\ [EthernetNext]_evars => ReadInv'
<1> SUFFICES ASSUME Types, ReadInv, [EthernetNext]_evars PROVE ReadInv'
    OBVIOUS
<1>1. BoxTypes /\ CallSays
      BY DEF Types, MailTypes, ReadInv
<1>2. CASE UNCHANGED evars
  <2>1. Aside /\ UNCHANGED <<coe, link>> /\ app' = app
        BY <1>2 DEF evars, tvars, vars, mailbox, Aside
  <2>2. VerifySays'
        BY <2>1 DEF ReadInv, VerifySays
  <2> QED
        BY <2>1, <2>2, LooksReading
<1>3. CASE (LinkStep \/ SlaveMailbox) /\ UNCHANGED <<coe, app, slave, plan, failed, asked>>
  <2>1. UNCHANGED <<coe, app, val, xfer>>
        BY <1>3 DEF slave
  <2>2. CASE LinkStep
        BY <1>1, <2>1, <2>2, LinkPasses, PassingKeeps
  <2>3. CASE SlaveMailbox
    <3>1. Passes(Line, Line')
          BY <1>1, <2>3, MailboxPasses
    <3>2. sm0' = sm0 /\ link' = link /\ last' = last
          BY <2>3 DEF SlaveMailbox, Answer, Notice, Repeat
    <3>3. Passing
          BY <1>1, <2>1, <3>1, <3>2, QuietPasses
    <3> QED
          BY <1>1, <3>3, PassingKeeps
  <2> QED
        BY <1>3, <2>2, <2>3
<1>4. CASE Take
      BY <1>4, TakeReads
<1>5. CASE CoeStep
      BY <1>5, CoeReads
<1>6. CASE LibraryCall \/ TransferCall \/ EthernetCall
      BY <1>6, CallsBegin
<1>7. CASE WriteStart \/ WriteCompared \/ WriteSent \/ WriteReadBack
      BY <1>7, WritesRead
<1>8. CASE TransferOnly
      BY <1>8, TransfersRead
<1>9. CASE Serve \/ ServeEthernet \/ Traffic
      BY <1>1, <1>9, OthersPass, PassingKeeps
<1>10. TransferStep => TransferCall \/ TransferOnly
      BY DEF TransferOnly
<1>11. IpRequest \/ IpResponse \/ EthernetUnheard \/ SendFragment \/ FragmentSent \/ ReceiveFragment \/ TakeFragment
          => TransferOnly
      BY DEF TransferOnly
<1> QED
      BY <1>2, <1>3, <1>4, <1>5, <1>6, <1>7, <1>8, <1>9, <1>10, <1>11 DEF EthernetNext, TransferNext, Next

LEMMA ReadInvariant == EthernetSpec => [](Types /\ ReadInv)
<1>1. EthernetInit => Types /\ ReadInv
      BY TypesInit, ReadInit
<1>2. (Types /\ ReadInv) /\ [EthernetNext]_evars => (Types /\ ReadInv)'
      BY TypesStep, ReadStep
<1> QED
      BY <1>1, <1>2, PTL DEF EthernetSpec

LEMMA ReadIsWhole ==
    ASSUME Types, ReadInv, Finished("up"), coe.clear
    PROVE  /\ coe.obj \in Objects /\ val[coe.obj] \in Values
           /\ coe.got = [k \in 1..Size[coe.obj] |-> <<val[coe.obj], k>>]
<1>1. Reads /\ coe.pc = "idle" /\ coe.ok
      BY DEF Finished, Reads
<1> QED
      BY <1>1 DEF ReadInv, ReadSays, Types, SlaveTypes

\* A read that succeeds has one value of the object, each part in its place, whatever is
\* lost, repeated, refused or answered wrongly while it lasts; for objects of any size
\* (SDOread).
THEOREM UploadsWhole == EthernetSpec => []UploadWhole
<1>1. Types /\ ReadInv => UploadWhole
  <2> SUFFICES ASSUME Types, ReadInv, Finished("up"), coe.clear
               PROVE  \E v \in Values : coe.got = [k \in 1..Size[coe.obj] |-> <<v, k>>]
      BY DEF UploadWhole
  <2> QED
      BY ReadIsWhole
<1> QED
      BY <1>1, ReadInvariant, PTL

-----------------------------------------------------------------------------
(* The verified write. Nothing of an earlier call is under way when it first reads, *)
(* so every write that the slave takes while the value is written and read back is  *)
(* its own. An initial answer, however late, that tells the value was then made when *)
(* the slave had it, and the slave keeps it.                                         *)

\* What the initial answers of a line tell of an object.
Told(q, o) == {q[i].val : i \in {j \in DOMAIN q : IsUp(q[j]) /\ q[j].obj = o}}

\* What the write calls for, and what a read that goes on has.
CallFits ==
    /\ app.phase = "write" => coe.op = "down" /\ coe.obj = app.obj /\ coe.val = app.val
    /\ coe.op = "up" /\ coe.seg => coe.got # <<>>

\* A read is told what the slave holds, and the slave waits for no write behind one.
FreshSays ==
    Reads => /\ Told(Line, coe.obj) \subseteq {val[coe.obj]}
             /\ coe.pc = "idle" /\ coe.ok => xfer.way # "down"

\* A request that writes is one of the verified write; its value is applied.
Bears(m) == m.type = "CoE" /\ m.cmd = "down" => m.obj = app.obj /\ m.val = app.val
Applied == val[app.obj] = app.val
Written == app.phase \in {"write", "after", "verified"} /\ app.calm
WrittenSays ==
    Written =>
       /\ app.obj \in Objects
       /\ sm0 # Nothing => Bears(sm0)
       /\ link.op \in Writing => Bears(link.msg)
       /\ xfer.way = "down" => xfer.obj = app.obj /\ xfer.val = app.val
       /\ app.val \in Told(Line, app.obj) => Applied
       /\ app.phase = "after" /\ coe.got # <<>> /\ coe.got[1][1] = app.val => Applied
       /\ app.phase = "verified" => Applied

WriteInv == CallFits /\ FreshSays /\ WrittenSays

LEMMA ToldPasses ==
    ASSUME NEW q, NEW r, Passes(q, r), NEW o
    PROVE  Told(r, o) \subseteq Told(q, o)
<1>1. PICK from \in [DOMAIN r -> DOMAIN q] : \A i \in DOMAIN r : IsSdo(r[i]) => r[i] = q[from[i]]
      BY DEF Passes
<1>2. ASSUME NEW i \in DOMAIN r, IsUp(r[i]), r[i].obj = o
      PROVE  from[i] \in DOMAIN q /\ IsUp(q[from[i]]) /\ q[from[i]].obj = o /\ q[from[i]].val = r[i].val
      BY <1>1, <1>2 DEF IsUp
<1> QED
      BY <1>2 DEF Told

LEMMA ToldMore ==
    ASSUME BoxTypes, NEW m \in FromSlave, replies' = replies \o <<m>>, UNCHANGED <<sm1, last>>,
           IsUp(m) => m.val = val'[m.obj], NEW o
    PROVE  Told(Line', o) \subseteq Told(Line, o) \union {val'[o]}
<1> DEFINE q == Line
           r == Line'
<1>1. PICK n \in Nat : /\ DOMAIN q = 0..n /\ DOMAIN r = 0..(n + 1)
                       /\ \A i \in 0..n : r[i] = q[i]
                       /\ r[n + 1] = m
      BY OneMore
<1> HIDE DEF q, r
<1>2. ASSUME NEW i \in DOMAIN r, IsUp(r[i]), r[i].obj = o
      PROVE  r[i].val = val'[o] \/ (i \in DOMAIN q /\ r[i] = q[i])
  <2>1. CASE i = n + 1
        BY <1>1, <1>2, <2>1
  <2>2. CASE i # n + 1
        BY <1>1, <2>2
  <2> QED
        BY <2>1, <2>2
<1>3. Told(r, o) \subseteq Told(q, o) \union {val'[o]}
      BY <1>2 DEF Told
<1> QED
      BY <1>3 DEF q, r

\* What does not touch the calls, nor what the slave holds.
LEMMA PassingWrites ==
    ASSUME WriteInv, Passing
    PROVE  WriteInv'
<1>1. UNCHANGED <<coe, app, val, xfer>> /\ Reads' = Reads
      BY DEF Passing, Reads
<1>2. \A o : Told(Line', o) \subseteq Told(Line, o)
      BY ToldPasses DEF Passing
<1>3. CallFits' /\ FreshSays'
      BY <1>1, <1>2 DEF WriteInv, CallFits, FreshSays
<1>4. WrittenSays'
  <2> SUFFICES ASSUME Written PROVE WrittenSays'
      BY <1>1 DEF WrittenSays, Written
  <2>1. /\ app.obj \in Objects /\ (sm0 # Nothing => Bears(sm0)) /\ (link.op \in Writing => Bears(link.msg))
        /\ xfer.way = "down" => xfer.obj = app.obj /\ xfer.val = app.val
        /\ app.val \in Told(Line, app.obj) => Applied
        /\ app.phase = "after" /\ coe.got # <<>> /\ coe.got[1][1] = app.val => Applied
        /\ app.phase = "verified" => Applied
        BY DEF WriteInv, WrittenSays
  <2>2. (sm0' # Nothing => Bears(sm0')) /\ (link'.op \in Writing => Bears(link'.msg))
        BY <2>1 DEF Passing
  <2> QED
        BY <1>1, <1>2, <2>1, <2>2 DEF WrittenSays, Bears, Applied
<1> QED
      BY <1>3, <1>4 DEF WriteInv

\* What a request changes in the slave: a write of one message, or the last segment of
\* a write, gives an object its value; the first message of a longer write begins it.
LEMMA TakeWrites ==
    ASSUME Types, Take
    PROVE  /\ \A o \in Objects :
                 \/ val'[o] = val[o]
                 \/ sm0.cmd = "down" /\ o = sm0.obj /\ val'[o] = sm0.val
                 \/ sm0.cmd = "seg down" /\ xfer.way = "down" /\ o = xfer.obj /\ val'[o] = xfer.val
           /\ xfer'.way = "down" =>
                 \/ sm0.cmd = "down" /\ xfer'.obj = sm0.obj /\ xfer'.val = sm0.val
                 \/ xfer.way = "down" /\ xfer'.obj = xfer.obj /\ xfer'.val = xfer.val
<1>1. PICK m \in CoeRequests : m = sm0
      BY RequestKinds DEF Take, Types, MailTypes, BoxTypes
<1>2. UNCHANGED <<replies, val, xfer>> \/ Execute(m)
      BY <1>1 DEF Take, slave
<1>3. /\ val \in [Objects -> Values] /\ m.obj \in Objects
      /\ DOMAIN xfer = {"way", "obj", "of", "done", "toggle", "val"}
      BY DEF Types, SlaveTypes, CoeRequests
<1>4. NoTransfer.way = "none"
      BY DEF NoTransfer
<1>5. CASE UNCHANGED <<val, xfer>>
      BY <1>5
<1>6. CASE m.cmd = "up" /\ Upload(m)
  <2>1. val' = val /\ xfer'.way = "up"
        BY <1>6 DEF Upload
  <2> QED
        BY <2>1
<1>7. CASE m.cmd = "seg up" /\ UploadsSegment(m)
  <2>1. val' = val /\ xfer.way = "up" /\ (xfer' = NoTransfer \/ xfer' = [xfer EXCEPT !.done = @ + 1, !.toggle = ~@])
        BY <1>7 DEF UploadsSegment
  <2>2. xfer'.way # "down"
        BY <1>3, <1>4, <2>1
  <2> QED
        BY <2>1, <2>2
<1>8. CASE m.cmd = "down" /\ Download(m)
  <2>1. CASE val' = [val EXCEPT ![m.obj] = m.val] /\ UNCHANGED xfer
        BY <1>1, <1>3, <1>8, <2>1
  <2>2. CASE /\ val' = val
             /\ xfer' = [way |-> "down", obj |-> m.obj, of |-> m.of, done |-> 1, toggle |-> FALSE, val |-> m.val]
        BY <1>1, <1>8, <2>2
  <2> QED
        BY <1>8, <2>1, <2>2 DEF Download
<1>9. CASE m.cmd = "seg down" /\ DownloadsSegment(m)
  <2>1. xfer.way = "down"
        BY <1>9 DEF DownloadsSegment
  <2>2. CASE val' = [val EXCEPT ![xfer.obj] = xfer.val] /\ xfer' = NoTransfer
        BY <1>1, <1>3, <1>4, <1>9, <2>1, <2>2
  <2>3. CASE val' = val /\ xfer' = [xfer EXCEPT !.done = @ + 1, !.toggle = ~@]
    <3>1. xfer'.way = "down" /\ xfer'.obj = xfer.obj /\ xfer'.val = xfer.val
          BY <1>3, <2>1, <2>3
    <3> QED
          BY <2>1, <2>3, <3>1
  <2> QED
        BY <1>9, <2>2, <2>3 DEF DownloadsSegment
<1>10. CASE Informs(m)
      BY <1>5, <1>10 DEF Informs
<1>11. CASE Refuses(m)
  <2>1. val' = val /\ xfer'.way = "none"
        BY <1>4, <1>11 DEF Refuses
  <2> QED
        BY <2>1
<1> QED
      BY <1>2, <1>5, <1>6, <1>7, <1>8, <1>9, <1>10, <1>11 DEF Execute

\* What it answers, in the line.
LEMMA TakeTells ==
    ASSUME Types, Take, NEW o
    PROVE  Told(Line', o) \subseteq Told(Line, o) \union {val'[o]}
<1>1. UNCHANGED <<sm1, last, link, coe, app>>
      BY DEF Take
<1>2. last \in Letters /\ sm1 \in Letters /\ replies \in Seq(FromSlave) /\ BoxTypes
      BY BoxesAreTyped DEF Types, MailTypes
<1>3. CASE UNCHANGED replies
      BY <1>1, <1>3 DEF Line
<1>4. CASE Tells
  <2>1. PICK rs \in Seq(FromSlave) : replies' = replies \o rs /\ \A i \in 1..Len(rs) : ~IsSdo(rs[i])
        BY <1>4 DEF Tells
  <2>2. Line' = LineOf(last, sm1, replies \o rs)
        BY <1>1, <2>1 DEF Line
  <2>3. Passes(Line, Line')
        BY <1>2, <2>1, <2>2, LineIsJoined DEF Line
  <2> QED
        BY <2>3, ToldPasses
<1>5. CASE \E m \in FromSlave : Responds(sm0, m)
  <2>1. PICK m \in FromSlave : Responds(sm0, m)
        BY <1>5
  <2>2. replies' = replies \o <<m>> /\ (IsUp(m) => m.val = val'[m.obj])
        BY <2>1 DEF Responds, Uploaded
  <2> QED
        BY <1>1, <1>2, <2>2, ToldMore
<1> QED
      BY <1>3, <1>4, <1>5, TakeSays

LEMMA TakeKeepsWrites ==
    ASSUME Types, ReadInv, WriteInv, Take
    PROVE  WriteInv'
<1>1. UNCHANGED <<coe, app, link>> /\ Reads' = Reads /\ sm0 # Nothing /\ sm0' = Nothing
      BY DEF Take, Reads
<1>2. sm0.type = "CoE"
      BY DEF Take
<1>3. CallFits'
      BY <1>1 DEF WriteInv, CallFits
<1>4. FreshSays'
  <2> SUFFICES ASSUME Reads PROVE FreshSays'
      BY <1>1 DEF FreshSays
  <2>1. sm0.cmd \in {"up", "seg up"}
        BY <1>1 DEF ReadInv, OwnSays, IsInitial, IsRest
  <2>2. xfer'.way = "down" => xfer.way = "down"
        BY <2>1, TakeWrites
  <2>3. UNCHANGED val
    <3>1. val \in [Objects -> Values] /\ val' \in [Objects -> Values]
          BY TakeTypes DEF Types, SlaveTypes
    <3>2. \A o \in Objects : val'[o] = val[o]
          BY <2>1, TakeWrites
    <3> QED
          BY <3>1, <3>2
  <2> QED
        BY <1>1, <2>2, <2>3, TakeTells DEF WriteInv, FreshSays
<1>5. WrittenSays'
  <2> SUFFICES ASSUME Written PROVE WrittenSays'
      BY <1>1 DEF WrittenSays, Written
  <2>1. /\ app.obj \in Objects /\ Bears(sm0) /\ (link.op \in Writing => Bears(link.msg))
        /\ xfer.way = "down" => xfer.obj = app.obj /\ xfer.val = app.val
        /\ app.val \in Told(Line, app.obj) => Applied
        /\ app.phase = "after" /\ coe.got # <<>> /\ coe.got[1][1] = app.val => Applied
        /\ app.phase = "verified" => Applied
        BY <1>1 DEF WriteInv, WrittenSays
  <2>2. val'[app.obj] = val[app.obj] \/ val'[app.obj] = app.val
        BY <1>2, <2>1, TakeWrites DEF Bears
  <2>3. xfer'.way = "down" => xfer'.obj = app.obj /\ xfer'.val = app.val
        BY <1>2, <2>1, TakeWrites DEF Bears
  <2>4. Applied => Applied'
        BY <1>1, <2>2 DEF Applied
  <2>5. app.val \in Told(Line', app.obj) => Applied'
        BY <1>1, <2>1, <2>4, TakeTells DEF Applied
  <2>6. link'.op \in Writing => Bears(link'.msg)
        BY <1>1, <2>1
  <2> QED
        BY <1>1, <2>1, <2>3, <2>4, <2>5, <2>6 DEF WrittenSays, Bears
<1> QED
      BY <1>3, <1>4, <1>5 DEF WriteInv

\* A read takes what it is told: its first part is that of an initial answer for its
\* object, and when it ends well the slave waits for no write.
LEMMA ReadTakes ==
    ASSUME Types, ReadInv, CallFits, CoeStep, ~Request, coe.op = "up"
    PROVE  /\ coe'.clear = coe.clear /\ (coe.pc = "ready" => coe.seg)
           /\ coe'.seg => coe'.got # <<>>
           /\ coe'.got # <<>> =>
                 \/ coe.got # <<>> /\ coe'.got[1] = coe.got[1]
                 \/ coe'.got[1][1] \in Told(Line, coe.obj)
           /\ coe.clear /\ coe'.pc = "idle" /\ coe'.ok => xfer.way # "down"
<1>1. coe \in CallRecords /\ coe.got \in Seq(Parts) /\ (coe.seg => coe.got # <<>>)
      BY CoeAside DEF CallFits, CallRecords
<1>2. Fails => Return(FALSE)
      BY DEF Fails, GoesOn
<1>3. CASE Return(FALSE) /\ (coe.pc = "ready" => coe.seg)
  <2>1. coe' = [coe EXCEPT !.pc = "idle", !.ok = FALSE]
        BY <1>3 DEF Return
  <2>2. coe'.clear = coe.clear /\ coe'.seg = coe.seg /\ coe'.got = coe.got /\ ~coe'.ok
        BY <1>1, <2>1 DEF CallRecords
  <2> QED
        BY <1>1, <1>3, <2>2
<1>4. CASE coe' = [coe EXCEPT !.pc = "receive"] /\ coe.pc = "send"
  <2>1. coe'.clear = coe.clear /\ coe'.seg = coe.seg /\ coe'.got = coe.got /\ coe'.pc = "receive"
        BY <1>1, <1>4 DEF CallRecords
  <2> QED
        BY <1>1, <1>4, <2>1
<1>5. CASE UploadResponse
  <2> DEFINE m == link.msg
             got == <<<<m.val, 1>>>>
  <2>1. coe.pc = "receive" /\ ~coe.seg /\ m.type = "CoE" /\ m.cmd = "up" /\ m.obj = coe.obj
        BY <1>5 DEF UploadResponse, Received, IsUploadResponse
  <2>2. m # Nothing /\ 0 \in DOMAIN Line /\ Line[0] = m
        BY <1>5, Handed DEF UploadResponse
  <2>3. IsUp(m)
        BY <2>1, <2>2 DEF IsUp, IsSdo
  <2>4. m.val \in Told(Line, coe.obj)
        BY <2>1, <2>2, <2>3 DEF Told
  <2>5. coe.clear => xfer.way # "down"
    <3> SUFFICES ASSUME coe.clear PROVE xfer.way # "down"
        OBVIOUS
    <3>1. Begins
          BY <2>1 DEF Begins, Reads
    <3>2. Supplying(coe.obj, 1, FALSE)
          BY <2>1, <2>2, <2>3, <3>1 DEF ReadInv, BeginsSays
    <3> QED
          BY <3>2 DEF Supplying
  <2>6. PICK of : of = m.of
        OBVIOUS
  <2>7. \/ Return(FALSE)
        \/ coe' = [[coe EXCEPT !.got = got, !.of = of] EXCEPT !.pc = "idle", !.ok = TRUE]
        \/ coe' = [[[coe EXCEPT !.got = got, !.of = of] EXCEPT !.seg = TRUE] EXCEPT !.pc = "ready"]
        BY <1>5, <2>6 DEF UploadResponse, Continue
  <2>8. got # <<>> /\ got[1][1] = m.val
        OBVIOUS
  <2> HIDE DEF got, m
  <2>9. Return(FALSE) \/ (coe'.clear = coe.clear /\ coe'.got = got)
        BY <1>1, <2>7 DEF CallRecords
  <2> QED
        BY <1>3, <2>1, <2>4, <2>5, <2>8, <2>9
<1>6. CASE UploadSegment
  <2> DEFINE m == link.msg
             got == Append(coe.got, <<m.val, m.part>>)
  <2>1. coe.pc = "receive" /\ coe.seg
        BY <1>6 DEF UploadSegment, Received
  <2>2. coe.clear => xfer.way # "down"
    <3> SUFFICES ASSUME coe.clear PROVE xfer.way # "down"
        OBVIOUS
    <3>1. Segments
          BY <2>1 DEF Segments, Reads
    <3> QED
          BY <3>1 DEF ReadInv, SegmentsSay, Supplying
  <2>3. got # <<>> /\ got[1] = coe.got[1]
    <3>1. PICK e : e = <<m.val, m.part>>
          OBVIOUS
    <3>2. Len(coe.got) \in Nat \ {0}
          BY <1>1, <2>1, EmptySeq
    <3> QED
          BY <1>1, <3>1, <3>2
  <2>4. PICK taken : taken = [coe EXCEPT !.got = got, !.toggle = ~@]
        OBVIOUS
  <2>5. (\E ok : coe' = [taken EXCEPT !.pc = "idle", !.ok = ok]) \/ coe' = [taken EXCEPT !.pc = "ready"]
        BY <1>6, <2>4 DEF UploadSegment, Continue
  <2> HIDE DEF got
  <2>6. coe'.clear = coe.clear /\ coe'.got = got
        BY <1>1, <2>4, <2>5 DEF CallRecords
  <2> QED
        BY <1>1, <2>1, <2>2, <2>3, <2>6
<1>7. CASE Sent
  <2>1. Return(FALSE) \/ coe' = [coe EXCEPT !.pc = "receive"]
        BY <1>2, <1>7 DEF Sent
  <2> QED
        BY <1>3, <1>4, <1>7, <2>1 DEF Sent
<1>8. CASE NotReceived \/ Unexpected \/ TransferExpires
  <2>1. Return(FALSE) /\ (coe.pc = "ready" => coe.seg)
        BY <1>2, <1>8 DEF NotReceived, Unexpected, TransferExpires, Received
  <2> QED
        BY <1>3, <2>1
<1>9. ~(DownloadResponse \/ DownloadSegmentResponse \/ ListFragment \/ Description \/ Entry \/ TxPdoResponse)
      BY DEF DownloadResponse, DownloadSegmentResponse, ListFragment, Description, Entry, TxPdoResponse
<1> QED
      BY <1>5, <1>6, <1>7, <1>8, <1>9 DEF CoeStep

\* A request of the verified write.
LEMMA AskedBears ==
    ASSUME Types, ReadInv, WriteInv, Request, Written
    PROVE  Bears(link'.msg)
<1> DEFINE m == [RequestOf EXCEPT !.cnt = NextMbxCnt(mbxcnt), !.id = asked + 1]
<1>1. coe.pc = "ready" /\ link' = Sending(m)
      BY DEF Request
<1>2. link'.msg = m
      BY <1>1 DEF Sending
<1>3. m.cmd = "down" => coe.op = "down"
      BY DEF RequestOf, SdoRequest, InfoRequest, Msg
<1>4. coe.op = "down" => m.obj = coe.obj /\ m.val = coe.val
      BY DEF RequestOf, SdoRequest, Msg
<1>5. coe.op = "down" => app.phase = "write"
      BY <1>1 DEF ReadInv, VerifySays, Written
<1> HIDE DEF m
<1> QED
      BY <1>2, <1>3, <1>4, <1>5 DEF WriteInv, CallFits, Bears

LEMMA AskedStays ==
    ASSUME Types, Request
    PROVE  /\ coe'.pc = "send" /\ coe'.seg = coe.seg /\ coe'.got = coe.got
           /\ coe.seg => coe'.clear = coe.clear
<1>1. PICK part, clear : coe' = [coe EXCEPT !.pc = "send", !.part = part, !.clear = clear]
                         /\ clear = IF coe.seg THEN coe.clear ELSE Clear
      BY DEF Request
<1>2. coe \in CallRecords
      BY DEF Types, CallTypes
<1>3. coe'.pc = "send" /\ coe'.seg = coe.seg /\ coe'.got = coe.got /\ coe'.clear = clear
      BY <1>1, <1>2 DEF CallRecords
<1> QED
      BY <1>1, <1>3

\* A step of a call of EcCoe; a read that asks first has found nothing that tells else.
LEMMA CoeKeepsWrites ==
    ASSUME Types, ReadInv, WriteInv, CoeStep
    PROVE  WriteInv'
<1>1. /\ Aside /\ app' = app /\ sm0' = sm0 /\ coe'.op = coe.op /\ coe'.obj = coe.obj
      /\ coe.pc \in {"ready", "send", "receive"} /\ Line' = Line /\ (Request \/ Hears \/ Rests) /\ ReadInv'
      BY CoeAside, CoeReads
<1>2. UNCHANGED <<val, xfer>>
      BY <1>1 DEF Aside
<1>3. coe'.val = coe.val
      BY CoeStepAdvances DEF Types, CoeCallStep, Advances
<1>4. CASE Request
  <2>1. /\ coe'.pc = "send" /\ coe'.seg = coe.seg /\ coe'.got = coe.got
        /\ coe.seg => coe'.clear = coe.clear
        BY <1>4, AskedStays
  <2>2. CallFits'
        BY <1>1, <1>3, <2>1 DEF WriteInv, CallFits
  <2>3. FreshSays'
    <3> SUFFICES ASSUME Reads' PROVE Told(Line', coe'.obj) \subseteq {val'[coe'.obj]}
        BY <2>1 DEF FreshSays
    <3>1. CASE coe.seg
      <4>1. Reads
            BY <1>1, <2>1, <3>1 DEF Reads
      <4> QED
            BY <1>1, <1>2, <4>1 DEF WriteInv, FreshSays
    <3>2. CASE ~coe.seg
      <4>1. Begins'
            BY <2>1, <3>2 DEF Begins
      <4> QED
            BY <1>1, <4>1 DEF ReadInv, BeginsSays, Told
    <3> QED
        BY <3>1, <3>2
  <2>4. WrittenSays'
    <3> SUFFICES ASSUME Written PROVE WrittenSays'
        BY <1>1 DEF WrittenSays, Written
    <3>1. Bears(link'.msg)
          BY <1>4, AskedBears
    <3> QED
        BY <1>1, <1>2, <2>1, <3>1 DEF WriteInv, WrittenSays, Bears, Applied
  <2> QED
      BY <2>2, <2>3, <2>4 DEF WriteInv
<1>5. CASE ~Request
  <2>1. link'.op \notin Writing
        BY <1>1, <1>5, LinkSays
  <2>2. coe.op = "up" =>
           /\ coe'.clear = coe.clear /\ (coe.pc = "ready" => coe.seg)
           /\ coe'.seg => coe'.got # <<>>
           /\ coe'.got # <<>> =>
                 \/ coe.got # <<>> /\ coe'.got[1] = coe.got[1]
                 \/ coe'.got[1][1] \in Told(Line, coe.obj)
           /\ coe.clear /\ coe'.pc = "idle" /\ coe'.ok => xfer.way # "down"
        BY <1>5, ReadTakes DEF WriteInv
  <2>3. CallFits'
        BY <1>1, <1>3, <2>2 DEF WriteInv, CallFits
  <2>4. FreshSays'
    <3> SUFFICES ASSUME Reads' PROVE FreshSays'
        BY DEF FreshSays
    <3>1. Reads /\ coe.op = "up" /\ coe.clear
          BY <1>1, <2>2 DEF Reads
    <3> QED
        BY <1>1, <1>2, <2>2, <3>1 DEF WriteInv, FreshSays
  <2>5. WrittenSays'
    <3> SUFFICES ASSUME Written PROVE WrittenSays'
        BY <1>1 DEF WrittenSays, Written
    <3>1. /\ app.obj \in Objects /\ (sm0 # Nothing => Bears(sm0))
          /\ xfer.way = "down" => xfer.obj = app.obj /\ xfer.val = app.val
          /\ app.val \in Told(Line, app.obj) => Applied
          /\ app.phase = "after" /\ coe.got # <<>> /\ coe.got[1][1] = app.val => Applied
          /\ app.phase = "verified" => Applied
          BY DEF WriteInv, WrittenSays
    <3>2. app.phase = "after" => coe.op = "up" /\ coe.obj = app.obj
          BY DEF ReadInv, VerifySays
    <3>3. app.phase = "after" /\ coe'.got # <<>> /\ coe'.got[1][1] = app.val => Applied
          BY <2>2, <3>1, <3>2
    <3> QED
        BY <1>1, <1>2, <2>1, <3>1, <3>3 DEF WrittenSays, Bears, Applied
  <2> QED
      BY <2>3, <2>4, <2>5 DEF WriteInv
<1> QED
      BY <1>4, <1>5

LEMMA CallsKeepWrites ==
    ASSUME Types, WriteInv, LibraryCall \/ TransferCall \/ EthernetCall
    PROVE  WriteInv'
<1>1. app'.phase = "none"
      BY NoAppTypes DEF LibraryCall, TransferCall, EthernetCall
<1>2. coe'.pc \in {"ready", "transfer"} /\ ~coe'.seg /\ (coe'.op = "up" => coe'.pc = "ready")
  <2>1. CASE LibraryCall
    <3>1. \E op, obj, v, room : Begin(op, obj, v, room)
          BY <2>1 DEF LibraryCall
    <3> QED
          BY <3>1, BegunReads
  <2>2. CASE TransferCall \/ EthernetCall
    <3>1. /\ Operation \in TransferOps \union EthernetOps
          /\ \E v, room : coe' = [Call(Operation, Object, v, room) EXCEPT !.pc = "transfer"]
          BY <2>2 DEF TransferCall, EthernetCall
    <3>2. coe'.pc = "transfer" /\ ~coe'.seg /\ coe'.op = Operation
          BY <3>1, BegunCall
    <3> QED
          BY <3>1, <3>2 DEF TransferOps, EthernetOps
  <2> QED
      BY <2>1, <2>2
<1>3. ~Reads' /\ ~Written'
      BY <1>1, <1>2 DEF Reads, Written
<1> QED
      BY <1>1, <1>2, <1>3 DEF WriteInv, CallFits, FreshSays, WrittenSays

\* The verified write begins with nothing but what its first read leaves behind.
LEMMA WriteBegins ==
    ASSUME Types, ReadInv, WriteInv, app.phase = "before", coe.pc = "idle", coe.ok, Aside,
           Begin("down", app.obj, app.val, 0), app' = [app EXCEPT !.phase = "write", !.calm = coe.clear]
    PROVE  WriteInv'
<1>1. coe' = Call("down", app.obj, app.val, 0)
      BY DEF Begin
<1>2. coe'.op = "down" /\ coe'.obj = app.obj /\ coe'.val = app.val /\ Hears
      BY <1>1, BegunReads DEF Call
<1>3. app'.phase = "write" /\ app'.obj = app.obj /\ app'.val = app.val /\ app'.calm = coe.clear
      BY DEF Types, AppTypes, AppRecords
<1>4. CallFits' /\ FreshSays'
      BY <1>2, <1>3 DEF CallFits, FreshSays, Reads
<1>5. WrittenSays'
  <2> SUFFICES ASSUME coe.clear PROVE WrittenSays'
      BY <1>3 DEF WrittenSays, Written
  <2>1. coe.op = "up" /\ coe.obj = app.obj /\ app.obj \in Objects
        BY DEF ReadInv, VerifySays, Types, AppTypes
  <2>2. Reads
        BY <2>1 DEF Reads
  <2>3. Told(Line, app.obj) \subseteq {val[app.obj]} /\ xfer.way # "down"
        BY <2>1, <2>2 DEF WriteInv, FreshSays
  <2>4. sm0 # Nothing => ~(sm0.type = "CoE" /\ sm0.cmd = "down")
        BY <2>2 DEF ReadInv, OwnSays, IsInitial, IsRest
  <2>5. link'.op \notin Writing
        BY <1>2, LinkSays
  <2>6. Line' = Line /\ UNCHANGED <<sm0, val, xfer>>
        BY AsideLine DEF ReadInv, Aside, slavebox
  <2> QED
      BY <1>3, <2>1, <2>3, <2>4, <2>5, <2>6 DEF WrittenSays, Bears, Applied
<1> QED
      BY <1>4, <1>5 DEF WriteInv

\* It goes on: nothing changes but what it calls for and what it knows.
LEMMA WriteGoesOn ==
    ASSUME WriteInv, ReadInv, Aside, Hears \/ link' = link, CallFits', FreshSays',
           app'.obj = app.obj, app'.val = app.val, Written' => Written,
           app'.phase = "after" /\ coe'.got # <<>> => ~Written',
           app'.phase = "verified" /\ Written => Applied
    PROVE  WriteInv'
<1> SUFFICES ASSUME Written' PROVE WrittenSays'
    BY DEF WriteInv, WrittenSays
<1>1. Line' = Line /\ UNCHANGED <<sm0, val, xfer>>
      BY AsideLine DEF ReadInv, Aside, slavebox
<1>2. /\ app.obj \in Objects /\ (sm0 # Nothing => Bears(sm0)) /\ (link.op \in Writing => Bears(link.msg))
      /\ xfer.way = "down" => xfer.obj = app.obj /\ xfer.val = app.val
      /\ app.val \in Told(Line, app.obj) => Applied
      BY DEF WriteInv, WrittenSays
<1>3. link'.op \in Writing => Bears(link'.msg)
      BY <1>2, LinkSays
<1> QED
      BY <1>1, <1>2, <1>3 DEF WrittenSays, Bears, Applied

LEMMA WriteLooks ==
    ASSUME WriteInv, ReadInv, Aside, UNCHANGED <<coe, link>>, app'.phase # "write"
    PROVE  CallFits' /\ FreshSays' /\ (~Written' => WriteInv')
<1>1. Line' = Line /\ UNCHANGED <<val, xfer>>
      BY AsideLine DEF ReadInv, Aside
<1>2. Reads' = Reads
      BY DEF Reads
<1> QED
      BY <1>1, <1>2 DEF WriteInv, CallFits, FreshSays, WrittenSays

LEMMA WritesKeepWrites ==
    ASSUME Types, ReadInv, WriteInv, WriteStart \/ WriteCompared \/ WriteSent \/ WriteReadBack
    PROVE  WriteInv'
<1>1. Aside /\ coe.pc = "idle" /\ app \in AppRecords
      BY DEF WriteStart, WriteCompared, WriteSent, WriteReadBack, Settled, Outside, Aside, slave, Types, AppTypes
<1>2. ASSUME NEW phase, app' = [app EXCEPT !.phase = phase]
      PROVE  app'.phase = phase /\ app'.obj = app.obj /\ app'.val = app.val /\ app'.calm = app.calm
      BY <1>1, <1>2 DEF AppRecords
<1>3. ASSUME app' = [app EXCEPT !.phase = "unknown"], UNCHANGED <<coe, link>>
      PROVE  WriteInv'
  <2>1. app'.phase = "unknown"
        BY <1>2, <1>3
  <2> QED
      BY <1>1, <1>3, <2>1, WriteLooks DEF Written
<1>4. ASSUME NEW op, NEW obj, NEW v, NEW room, Begin(op, obj, v, room)
      PROVE  ~Reads' /\ ~coe'.seg /\ coe'.got = <<>> /\ Hears
  <2>1. coe'.pc = "ready" /\ ~coe'.seg /\ Hears
        BY <1>4, BegunReads
  <2>2. coe'.got = <<>>
        BY <1>4 DEF Begin, Call
  <2> QED
      BY <2>1, <2>2 DEF Reads
<1>5. CASE WriteStart
  <2>1. PICK v, e : app' = [NoApp EXCEPT !.phase = "before", !.obj = Object, !.val = v, !.expected = e]
        BY <1>5 DEF WriteStart
  <2>2. app'.phase = "before"
        BY <2>1 DEF NoApp
  <2>3. Begin("up", Object, NoValue, Size[Object])
        BY <1>5 DEF WriteStart
  <2>4. ~Reads' /\ ~coe'.seg
        BY <1>4, <2>3
  <2> QED
      BY <2>2, <2>4 DEF WriteInv, CallFits, FreshSays, WrittenSays, Written
<1>6. CASE WriteCompared
  <2>1. CASE /\ Read(app.expected) /\ Begin("down", app.obj, app.val, 0)
             /\ app' = [app EXCEPT !.phase = "write", !.calm = coe.clear]
    <3>1. coe.ok /\ app.phase = "before"
          BY <1>6, <2>1 DEF Read, WriteCompared
    <3> QED
        BY <1>1, <2>1, <3>1, WriteBegins
  <2>2. CASE app' = NoApp /\ UNCHANGED <<coe, link>>
    <3>1. app'.phase = "none"
          BY <2>2, NoAppTypes
    <3> QED
        BY <1>1, <2>2, <3>1, WriteLooks DEF Written
  <2> QED
      BY <1>6, <2>1, <2>2 DEF WriteCompared
<1>7. CASE WriteSent
  <2>1. CASE Begin("up", app.obj, NoValue, Size[app.obj]) /\ app' = [app EXCEPT !.phase = "after"]
    <3>1. app'.phase = "after" /\ app'.obj = app.obj /\ app'.val = app.val /\ app'.calm = app.calm
          BY <1>2, <2>1
    <3>2. ~Reads' /\ ~coe'.seg /\ coe'.got = <<>> /\ Hears
          BY <1>4, <2>1
    <3>3. CallFits' /\ FreshSays'
          BY <3>1, <3>2 DEF CallFits, FreshSays
    <3>4. app.phase = "write"
          BY <1>7 DEF WriteSent
    <3>5. Written' => Written
          BY <3>1, <3>4 DEF Written
    <3> QED
        BY <1>1, <3>1, <3>2, <3>3, <3>5, WriteGoesOn
  <2>2. CASE app' = [app EXCEPT !.phase = "unknown"] /\ UNCHANGED <<coe, link>>
        BY <1>3, <2>2
  <2> QED
      BY <1>7, <2>1, <2>2 DEF WriteSent
<1>8. CASE WriteReadBack
  <2>1. UNCHANGED <<coe, link>> /\ app.phase = "after" /\ coe.obj = app.obj /\ app.obj \in Objects
        BY <1>8 DEF WriteReadBack, ReadInv, VerifySays, Types, AppTypes
  <2>2. CASE Read(app.val) /\ app' = [app EXCEPT !.phase = "verified"]
    <3>1. app'.phase = "verified" /\ app'.obj = app.obj /\ app'.val = app.val /\ app'.calm = app.calm
          BY <1>2, <2>2
    <3>2. coe.got # <<>> /\ coe.got[1][1] = app.val
      <4>1. PICK n \in Nat \ {0} : n = Size[coe.obj]
            BY <2>1, ConstantsOK
      <4>2. coe.got = [k \in 1..n |-> <<app.val, k>>] /\ 1 \in 1..n
            BY <2>2, <4>1 DEF Read
      <4>3. coe.got[1] = <<app.val, 1>> /\ DOMAIN coe.got = 1..n
            BY <4>2
      <4> QED
          BY <4>2, <4>3
    <3>3. Written => Applied
          BY <2>1, <3>2 DEF WriteInv, WrittenSays
    <3>4. Written' => Written
          BY <2>1, <3>1 DEF Written
    <3>5. CallFits' /\ FreshSays'
          BY <1>1, <2>1, <3>1, WriteLooks
    <3> QED
        BY <1>1, <2>1, <3>1, <3>3, <3>4, <3>5, WriteGoesOn
  <2>3. CASE app' = [app EXCEPT !.phase = "unknown"]
        BY <1>3, <2>1, <2>3
  <2> QED
      BY <1>8, <2>2, <2>3 DEF WriteReadBack
<1> QED
      BY <1>5, <1>6, <1>7, <1>8

LEMMA TransfersKeepWrites ==
    ASSUME Types, ReadInv, WriteInv, TransferOnly
    PROVE  WriteInv'
<1>1. app' = app /\ coe'.op = coe.op /\ coe.op \in TransferOps \union EthernetOps /\ coe.pc = "transfer"
      BY TransferAside
<1>2. coe.op \notin {"up", "down"}
      BY <1>1 DEF TransferOps, EthernetOps
<1>3. app.phase \notin {"write", "after", "verified"}
      BY <1>1, <1>2 DEF WriteInv, CallFits, ReadInv, VerifySays
<1> QED
      BY <1>1, <1>2, <1>3 DEF WriteInv, CallFits, FreshSays, WrittenSays, Written, Reads

LEMMA WriteInit == EthernetInit => WriteInv
<1> SUFFICES ASSUME EthernetInit PROVE WriteInv
    OBVIOUS
<1>1. /\ coe = [Call("up", Nothing, NoValue, 0) EXCEPT !.pc = "idle"] /\ app = NoApp
      /\ sm1 = Nothing /\ replies = <<>> /\ last = Nothing
      BY DEF EthernetInit, TransferInit, Init, MailboxInit
<1>2. ~coe.ok /\ ~coe.seg /\ app.phase = "none"
      BY <1>1 DEF Call, NoApp
<1>3. DOMAIN Line = {0} /\ Line[0] = Nothing
  <2>1. Len(<<>>) = 0
        OBVIOUS
  <2> QED
        BY <1>1, <2>1 DEF Line, LineOf
<1>4. Told(Line, coe.obj) = {}
      BY <1>3 DEF Told, IsUp, IsSdo
<1> QED
      BY <1>2, <1>4 DEF WriteInv, CallFits, FreshSays, WrittenSays, Written

LEMMA WriteStep == Types /\ ReadInv /\ WriteInv /\ [EthernetNext]_evars => WriteInv'
<1> SUFFICES ASSUME Types, ReadInv, WriteInv, [EthernetNext]_evars PROVE WriteInv'
    OBVIOUS
<1>1. BoxTypes /\ CallSays
      BY DEF Types, MailTypes, ReadInv
<1>2. CASE UNCHANGED evars
  <2>1. UNCHANGED <<coe, link, app, val, xfer>> /\ UNCHANGED slavebox
        BY <1>2 DEF evars, tvars, vars, mailbox
  <2>2. Line' = Line /\ sm0' = sm0
        BY <2>1 DEF Line, slavebox
  <2> QED
        BY <2>1, <2>2 DEF WriteInv, CallFits, FreshSays, Reads, WrittenSays, Written, Bears, Applied
<1>3. CASE (LinkStep \/ SlaveMailbox) /\ UNCHANGED <<coe, app, slave, plan, failed, asked>>
  <2>1. UNCHANGED <<coe, app, val, xfer>>
        BY <1>3 DEF slave
  <2>2. CASE LinkStep
        BY <1>1, <2>1, <2>2, LinkPasses, PassingWrites
  <2>3. CASE SlaveMailbox
    <3>1. Passes(Line, Line')
          BY <1>1, <2>3, MailboxPasses
    <3>2. sm0' = sm0 /\ link' = link /\ last' = last
          BY <2>3 DEF SlaveMailbox, Answer, Notice, Repeat
    <3>3. Passing
          BY <1>1, <2>1, <3>1, <3>2, QuietPasses
    <3> QED
          BY <3>3, PassingWrites
  <2> QED
        BY <1>3, <2>2, <2>3
<1>4. CASE Take
      BY <1>4, TakeKeepsWrites
<1>5. CASE CoeStep
      BY <1>5, CoeKeepsWrites
<1>6. CASE LibraryCall \/ TransferCall \/ EthernetCall
      BY <1>6, CallsKeepWrites
<1>7. CASE WriteStart \/ WriteCompared \/ WriteSent \/ WriteReadBack
      BY <1>7, WritesKeepWrites
<1>8. CASE TransferOnly
      BY <1>8, TransfersKeepWrites
<1>9. CASE Serve \/ ServeEthernet \/ Traffic
      BY <1>1, <1>9, OthersPass, PassingWrites
<1>10. TransferStep => TransferCall \/ TransferOnly
      BY DEF TransferOnly
<1>11. IpRequest \/ IpResponse \/ EthernetUnheard \/ SendFragment \/ FragmentSent \/ ReceiveFragment \/ TakeFragment
          => TransferOnly
      BY DEF TransferOnly
<1> QED
      BY <1>2, <1>3, <1>4, <1>5, <1>6, <1>7, <1>8, <1>9, <1>10, <1>11 DEF EthernetNext, TransferNext, Next

\* A verified write that reports success has its value in the slave, though answers of
\* its own that are late, or given twice, pass for those it waits for: what any of them
\* tells of the object, the slave had when it made it, and the value written is the
\* last the slave was given; if nothing of an earlier call was under way when it first
\* read (sdo_write_verified of master.rs over SDOread and SDOwrite).
THEOREM VerifiedApplied == EthernetSpec => []VerifiedIsApplied
<1>1. EthernetInit => WriteInv
      BY WriteInit
<1>2. (Types /\ ReadInv) /\ WriteInv /\ [EthernetNext]_evars => WriteInv'
      BY WriteStep
<1>3. WriteInv => VerifiedIsApplied
      BY DEF WriteInv, WrittenSays, Written, Applied, VerifiedIsApplied
<1> QED
      BY <1>1, <1>2, <1>3, ReadInvariant, PTL DEF EthernetSpec

-----------------------------------------------------------------------------
(* What is read of the dictionary. No answer says which request it answers, only by *)
(* which service it was given, and the parts of a list say nothing of the one        *)
(* before. While nothing is lost the slave is asked to repeat only what no call takes *)
(* for an answer; so what lies in the mailbox, in order, answers the last request.   *)

\* What the mailbox gives, in order; what is asked; what no call takes for an answer.
Inbox == IF sm1 = Nothing THEN replies ELSE <<sm1>> \o replies
IsInfo(m, op) == m.type = "CoE" /\ m.cmd = op
IsQuestion(m) == IsInfo(m, coe.op) /\ m.obj = coe.obj
Silent(m) == m = Nothing \/ IsNotice(m)

\* A call that found nothing of an earlier one has asked, and nothing was lost.
Asking == coe.op \in {"odlist", "od"} /\ coe.clear /\ lost = 0 /\ coe.pc \in {"send", "receive"}
\* The slave has still to take its question.
Due == sm0 # Nothing \/ link.op \in Writing

\* The link layer hands it an answer of its service.
Handing == coe.pc = "receive" /\ link.op = "done" /\ link.wkc = 1 /\ IsInfo(link.msg, coe.op)

\* A part of a list of so many, and those of a queue behind the first n.
IsPart(m, k, size) == m.part = k /\ k \in 1..size /\ m.last = (k = size) /\ m.val = NoValue
InOrder(q, n, size) ==
    \A i \in DOMAIN q : IsInfo(q[i], "odlist") =>
       /\ q[i].part > n /\ IsPart(q[i], q[i].part, size)
       /\ q[i].part = n + 1 \/ \E j \in DOMAIN q : j < i /\ IsInfo(q[j], "odlist") /\ q[j].part = q[i].part - 1
       /\ \A j \in DOMAIN q : j < i /\ IsInfo(q[j], "odlist") => q[j].part < q[i].part
NoPart(q) == \A i \in DOMAIN q : ~IsInfo(q[i], "odlist")
Describes(q, obj) == \A i \in DOMAIN q : IsInfo(q[i], "od") => q[i].obj = obj

AskedSays == coe.op \in {"odlist", "od"} /\ coe.pc = "ready" => coe.got = <<>> /\ ~coe.seg

\* The only request under way is its own, and what the slave is asked to repeat is
\* nothing, or a notice.
LinkKnows ==
    Asking =>
       /\ sm0 # Nothing => IsQuestion(sm0)
       /\ link.op \in Writing => IsQuestion(link.msg) /\ sm0 = Nothing
       /\ link.op # "resend"
       /\ coe.pc = "send" => link.op \in Writing \union {"done"}
       /\ link.op = "ack" => link.bit = repreq
       /\ link.op = "toggle" \/ (link.op = "fetch" /\ sm1 = Nothing) => Silent(last)
       /\ repreq # repack => /\ Silent(last) /\ coe.pc = "receive"
                             /\ link.op = "ack" \/ (link.op = "done" /\ link.wkc = 0)

\* Every answer under way is to its question.
DescriptionKnown ==
    Asking /\ coe.op = "od" => Describes(Inbox, coe.obj) /\ (Handing => link.msg.obj = coe.obj)

\* As long as there is room the list goes on where the call stands; before the question
\* is taken there is none. Without room the list has all that it will.
Open == Len(coe.got) < ListRoom
Reached == Len(coe.got) + IF Handing THEN 1 ELSE 0
GotKnown ==
    /\ coe.got = [k \in 1..Len(coe.got) |-> <<NoValue, k>>]
    /\ ~Open => Len(coe.got) = ListRoom /\ ListRoom <= Size[coe.obj]
GoesInOrder ==
    /\ Due => ~Handing /\ coe.got = <<>> /\ NoPart(Inbox)
    /\ InOrder(Inbox, Reached, Size[coe.obj])
    /\ Handing => IsPart(link.msg, Reached, Size[coe.obj])
ListKnown == Asking /\ coe.op = "odlist" => GotKnown /\ (Open => GoesInOrder)

DictionaryInv == AskedSays /\ LinkKnows /\ DescriptionKnown /\ ListKnown /\ DictionaryIsOwn

LEMMA Preceded ==
    ASSUME NEW m \in FromSlave, NEW q \in Seq(FromSlave)
    PROVE  /\ DOMAIN (<<m>> \o q) = 1..(Len(q) + 1) /\ DOMAIN q = 1..Len(q) /\ Len(q) \in Nat
           /\ <<m>> \o q \in Seq(FromSlave)
           /\ (<<m>> \o q)[1] = m /\ \A i \in 1..Len(q) : (<<m>> \o q)[i + 1] = q[i]
<1>1. <<m>> \in Seq(FromSlave) /\ Len(<<m>>) = 1 /\ <<m>>[1] = m
      OBVIOUS
<1> QED
      BY <1>1, Joined

LEMMA PartPlaces ==
    ASSUME NEW q, NEW n \in Nat, NEW size \in Nat, InOrder(q, n, size), NEW i \in DOMAIN q, IsInfo(q[i], "odlist")
    PROVE  q[i].part \in Nat /\ q[i].part > n
BY DEF InOrder, IsPart

\* What is no part of the list changes nothing in front of the queue.
LEMMA OrderedBefore ==
    ASSUME NEW m \in FromSlave, NEW q \in Seq(FromSlave), NEW n \in Nat, NEW size, ~IsInfo(m, "odlist")
    PROVE  /\ InOrder(q, n, size) => InOrder(<<m>> \o q, n, size)
           /\ NoPart(q) => NoPart(<<m>> \o q)
<1> DEFINE r == <<m>> \o q
           l == Len(q)
<1>1. l \in Nat /\ DOMAIN q = 1..l /\ DOMAIN r = 1..(l + 1) /\ r[1] = m /\ \A i \in 1..l : r[i + 1] = q[i]
      BY Preceded
<1> HIDE DEF r, l
<1>2. ASSUME NEW i \in DOMAIN r, IsInfo(r[i], "odlist")
      PROVE  i - 1 \in 1..l /\ r[i] = q[i - 1]
  <2>1. i # 1
        BY <1>1, <1>2
  <2>2. i - 1 \in 1..l /\ (i - 1) + 1 = i
        BY <1>1, <2>1
  <2> QED
        BY <1>1, <2>2
<1>3. NoPart(q) => NoPart(r)
      BY <1>1, <1>2 DEF NoPart
<1>4. ASSUME InOrder(q, n, size) PROVE InOrder(r, n, size)
  <2> SUFFICES ASSUME NEW i \in DOMAIN r, IsInfo(r[i], "odlist")
               PROVE  /\ r[i].part > n /\ IsPart(r[i], r[i].part, size)
                      /\ \/ r[i].part = n + 1
                         \/ \E j \in DOMAIN r : j < i /\ IsInfo(r[j], "odlist") /\ r[j].part = r[i].part - 1
                      /\ \A j \in DOMAIN r : j < i /\ IsInfo(r[j], "odlist") => r[j].part < r[i].part
      BY DEF InOrder
  <2> DEFINE h == i - 1
  <2>1. h \in DOMAIN q /\ r[i] = q[h] /\ i = h + 1 /\ h \in Nat
        BY <1>1, <1>2
  <2> HIDE DEF h
  <2>2. /\ q[h].part > n /\ IsPart(q[h], q[h].part, size)
        /\ q[h].part = n + 1 \/ \E j \in DOMAIN q : j < h /\ IsInfo(q[j], "odlist") /\ q[j].part = q[h].part - 1
        /\ \A j \in DOMAIN q : j < h /\ IsInfo(q[j], "odlist") => q[j].part < q[h].part
        BY <1>4, <2>1 DEF InOrder
  <2>3. ASSUME NEW j \in DOMAIN q, j < h, IsInfo(q[j], "odlist"), q[j].part = q[h].part - 1
        PROVE  \E k \in DOMAIN r : k < i /\ IsInfo(r[k], "odlist") /\ r[k].part = r[i].part - 1
    <3>1. j + 1 \in DOMAIN r /\ j + 1 < i /\ r[j + 1] = q[j]
          BY <1>1, <2>1, <2>3
    <3> QED
          BY <2>1, <2>3, <3>1
  <2>4. ASSUME NEW j \in DOMAIN r, j < i, IsInfo(r[j], "odlist") PROVE r[j].part < r[i].part
    <3>1. j - 1 \in DOMAIN q /\ j - 1 < h /\ r[j] = q[j - 1]
          BY <1>1, <1>2, <2>1, <2>4
    <3> QED
          BY <2>1, <2>2, <2>4, <3>1
  <2> QED
        BY <2>1, <2>2, <2>3, <2>4
<1> QED
      BY <1>3, <1>4 DEF r

\* The first of a queue is taken.
LEMMA OrderedNext ==
    ASSUME NEW m \in FromSlave, NEW q \in Seq(FromSlave), NEW n \in Nat,
           NEW size \in Nat, InOrder(<<m>> \o q, n, size)
    PROVE  /\ ~IsInfo(m, "odlist") => InOrder(q, n, size)
           /\ IsInfo(m, "odlist") => IsPart(m, n + 1, size) /\ InOrder(q, n + 1, size)
<1> DEFINE r == <<m>> \o q
           l == Len(q)
<1>1. l \in Nat /\ DOMAIN q = 1..l /\ DOMAIN r = 1..(l + 1) /\ r[1] = m /\ \A i \in 1..l : r[i + 1] = q[i]
      BY Preceded
<1>2. InOrder(r, n, size)
      OBVIOUS
<1> HIDE DEF r, l
<1>3. ASSUME NEW i \in DOMAIN q, IsInfo(q[i], "odlist")
      PROVE  /\ q[i].part \in Nat /\ q[i].part > n /\ IsPart(q[i], q[i].part, size)
             /\ IsInfo(m, "odlist") => m.part < q[i].part
             /\ \/ q[i].part = n + 1
                \/ IsInfo(m, "odlist") /\ m.part = q[i].part - 1
                \/ \E j \in DOMAIN q : j < i /\ IsInfo(q[j], "odlist") /\ q[j].part = q[i].part - 1
             /\ \A j \in DOMAIN q : j < i /\ IsInfo(q[j], "odlist") => q[j].part < q[i].part
  <2>1. i + 1 \in DOMAIN r /\ r[i + 1] = q[i] /\ i \in Nat /\ 1 \in DOMAIN r /\ 1 < i + 1
        BY <1>1
  <2>2. /\ q[i].part > n /\ IsPart(q[i], q[i].part, size)
        /\ q[i].part = n + 1 \/ \E j \in DOMAIN r : j < i + 1 /\ IsInfo(r[j], "odlist") /\ r[j].part = q[i].part - 1
        /\ \A j \in DOMAIN r : j < i + 1 /\ IsInfo(r[j], "odlist") => r[j].part < q[i].part
        BY <1>2, <1>3, <2>1 DEF InOrder
  <2>3. q[i].part \in Nat
        BY <1>2, <1>3, <2>1, PartPlaces
  <2>4. ASSUME NEW j \in DOMAIN r, j < i + 1, IsInfo(r[j], "odlist"), r[j].part = q[i].part - 1
        PROVE  \/ IsInfo(m, "odlist") /\ m.part = q[i].part - 1
               \/ \E k \in DOMAIN q : k < i /\ IsInfo(q[k], "odlist") /\ q[k].part = q[i].part - 1
    <3>1. CASE j = 1
          BY <1>1, <2>4, <3>1
    <3>2. CASE j # 1
      <4>1. j - 1 \in DOMAIN q /\ j - 1 < i /\ (j - 1) + 1 = j
            BY <1>1, <2>1, <2>4, <3>2
      <4>2. r[j] = q[j - 1]
            BY <1>1, <4>1
      <4> QED
            BY <2>4, <4>1, <4>2
    <3> QED
          BY <3>1, <3>2
  <2>5. ASSUME NEW j \in DOMAIN q, j < i, IsInfo(q[j], "odlist") PROVE q[j].part < q[i].part
    <3>1. j + 1 \in DOMAIN r /\ j + 1 < i + 1 /\ r[j + 1] = q[j]
          BY <1>1, <2>1, <2>5
    <3> QED
          BY <2>2, <2>5, <3>1
  <2>6. IsInfo(m, "odlist") => m.part < q[i].part
        BY <1>1, <2>1, <2>2
  <2> QED
        BY <2>2, <2>3, <2>4, <2>5, <2>6
<1>4. ASSUME ~IsInfo(m, "odlist") PROVE InOrder(q, n, size)
      BY <1>3, <1>4 DEF InOrder
<1>5. ASSUME IsInfo(m, "odlist") PROVE IsPart(m, n + 1, size) /\ InOrder(q, n + 1, size)
  <2>1. 1 \in DOMAIN r /\ \A j \in DOMAIN r : ~(j < 1)
        BY <1>1
  <2>2. m.part = n + 1 /\ IsPart(m, m.part, size)
        BY <1>1, <1>2, <1>5, <2>1 DEF InOrder
  <2>3. ASSUME NEW i \in DOMAIN q, IsInfo(q[i], "odlist")
        PROVE  /\ q[i].part > n + 1 /\ IsPart(q[i], q[i].part, size)
               /\ \/ q[i].part = (n + 1) + 1
                  \/ \E j \in DOMAIN q : j < i /\ IsInfo(q[j], "odlist") /\ q[j].part = q[i].part - 1
               /\ \A j \in DOMAIN q : j < i /\ IsInfo(q[j], "odlist") => q[j].part < q[i].part
    <3>1. q[i].part \in Nat /\ q[i].part > n + 1
          BY <1>3, <1>5, <2>2, <2>3
    <3>2. m.part = q[i].part - 1 => q[i].part = (n + 1) + 1
          BY <2>2, <3>1
    <3>3. q[i].part # n + 1
          BY <3>1
    <3> QED
          BY <1>3, <1>5, <2>3, <3>1, <3>2, <3>3
  <2> QED
        BY <2>2, <2>3 DEF InOrder
<1> QED
      BY <1>4, <1>5

\* What comes behind.
LEMMA OrderedMore ==
    ASSUME NEW q \in Seq(FromSlave), NEW rs \in Seq(FromSlave), NEW n \in Nat, NEW size, NoPart(rs)
    PROVE  /\ InOrder(q, n, size) => InOrder(q \o rs, n, size)
           /\ NoPart(q) => NoPart(q \o rs)
<1> DEFINE r == q \o rs
           l == Len(q)
           k == Len(rs)
<1>1. /\ r \in Seq(FromSlave) /\ Len(r) = l + k /\ l \in Nat /\ k \in Nat
      /\ (\A i \in 1..l : r[i] = q[i]) /\ \A i \in 1..k : r[l + i] = rs[i]
      BY Joined
<1>2. DOMAIN r = 1..(l + k) /\ DOMAIN q = 1..l /\ DOMAIN rs = 1..k
      BY <1>1
<1> HIDE DEF r, l, k
<1>3. ASSUME NEW i \in DOMAIN r, IsInfo(r[i], "odlist") PROVE i \in DOMAIN q /\ r[i] = q[i]
  <2>1. CASE i \in 1..l
        BY <1>1, <1>2, <2>1
  <2>2. CASE i \notin 1..l
    <3>1. i - l \in 1..k /\ l + (i - l) = i
          BY <1>1, <1>2, <2>2
    <3>2. r[i] = rs[i - l]
          BY <1>1, <3>1
    <3> QED
          BY <1>2, <1>3, <3>1, <3>2 DEF NoPart
  <2> QED
        BY <2>1, <2>2
<1>4. \A i \in DOMAIN q : i \in DOMAIN r /\ r[i] = q[i]
      BY <1>1, <1>2
<1>5. NoPart(q) => NoPart(r)
      BY <1>3 DEF NoPart
<1>6. InOrder(q, n, size) => InOrder(r, n, size)
      BY <1>3, <1>4 DEF InOrder
<1> QED
      BY <1>5, <1>6 DEF r

\* The list, behind a queue without parts.
LEMMA OrderedAnswer ==
    ASSUME NEW q \in Seq(FromSlave), NEW rs \in Seq(FromSlave), NEW size \in Nat, NoPart(q),
           \A i \in DOMAIN rs : IsInfo(rs[i], "odlist") /\ IsPart(rs[i], i, size)
    PROVE  InOrder(q \o rs, 0, size)
<1> DEFINE r == q \o rs
           l == Len(q)
           k == Len(rs)
<1>1. /\ r \in Seq(FromSlave) /\ Len(r) = l + k /\ l \in Nat /\ k \in Nat
      /\ (\A i \in 1..l : r[i] = q[i]) /\ \A i \in 1..k : r[l + i] = rs[i]
      BY Joined
<1>2. DOMAIN r = 1..(l + k) /\ DOMAIN q = 1..l /\ DOMAIN rs = 1..k
      BY <1>1
<1> HIDE DEF r, l, k
<1>3. ASSUME NEW i \in DOMAIN r, IsInfo(r[i], "odlist")
      PROVE  i - l \in 1..k /\ r[i] = rs[i - l] /\ r[i].part = i - l /\ IsPart(r[i], r[i].part, size)
  <2>1. i \notin 1..l
        BY <1>1, <1>2, <1>3 DEF NoPart
  <2>2. i - l \in 1..k /\ l + (i - l) = i
        BY <1>1, <1>2, <2>1
  <2>3. r[i] = rs[i - l]
        BY <1>1, <2>2
  <2>4. IsPart(r[i], i - l, size)
        BY <1>2, <2>2, <2>3
  <2> QED
        BY <2>2, <2>3, <2>4 DEF IsPart
<1>4. ASSUME NEW i \in DOMAIN r, IsInfo(r[i], "odlist"), r[i].part # 1
      PROVE  \E j \in DOMAIN r : j < i /\ IsInfo(r[j], "odlist") /\ r[j].part = r[i].part - 1
  <2>0. i - l \in 1..k /\ i - l # 1 /\ r[i].part = i - l /\ i \in 1..(l + k)
        BY <1>2, <1>3, <1>4
  <2>1. i - 1 \in DOMAIN r /\ (i - 1) - l \in 1..k /\ i - 1 < i /\ l + ((i - 1) - l) = i - 1
        BY <1>1, <1>2, <2>0
  <2>2. r[i - 1] = rs[(i - 1) - l]
        BY <1>1, <2>1
  <2>3. IsInfo(r[i - 1], "odlist")
        BY <1>2, <2>1, <2>2
  <2>4. r[i - 1].part = (i - 1) - l /\ r[i].part = i - l
        BY <1>3, <1>4, <2>1, <2>3
  <2>5. r[i - 1].part = r[i].part - 1
        BY <1>1, <2>0, <2>4
  <2> QED
        BY <2>1, <2>3, <2>5
<1>5. ASSUME NEW i \in DOMAIN r, IsInfo(r[i], "odlist")
      PROVE  /\ r[i].part > 0 /\ IsPart(r[i], r[i].part, size)
             /\ \/ r[i].part = 0 + 1
                \/ \E j \in DOMAIN r : j < i /\ IsInfo(r[j], "odlist") /\ r[j].part = r[i].part - 1
             /\ \A j \in DOMAIN r : j < i /\ IsInfo(r[j], "odlist") => r[j].part < r[i].part
  <2>1. r[i].part > 0 /\ IsPart(r[i], r[i].part, size)
        BY <1>1, <1>3, <1>5
  <2>2. ASSUME NEW j \in DOMAIN r, j < i, IsInfo(r[j], "odlist") PROVE r[j].part < r[i].part
        BY <1>1, <1>2, <1>3, <1>5, <2>2
  <2> QED
        BY <1>4, <1>5, <2>1, <2>2
<1>6. InOrder(r, 0, size)
      BY <1>5 DEF InOrder
<1> QED
      BY <1>6 DEF r

LEMMA DescribesMore ==
    ASSUME NEW q \in Seq(FromSlave), NEW rs \in Seq(FromSlave), NEW obj, Describes(q, obj), Describes(rs, obj)
    PROVE  Describes(q \o rs, obj)
<1> DEFINE r == q \o rs
           l == Len(q)
           k == Len(rs)
<1>1. /\ r \in Seq(FromSlave) /\ Len(r) = l + k /\ l \in Nat /\ k \in Nat
      /\ (\A i \in 1..l : r[i] = q[i]) /\ \A i \in 1..k : r[l + i] = rs[i]
      BY Joined
<1>2. DOMAIN r = 1..(l + k) /\ DOMAIN q = 1..l /\ DOMAIN rs = 1..k
      BY <1>1
<1> HIDE DEF r, l, k
<1>3. ASSUME NEW i \in DOMAIN r, IsInfo(r[i], "od") PROVE r[i].obj = obj
  <2>1. CASE i \in 1..l
        BY <1>1, <1>2, <1>3, <2>1 DEF Describes
  <2>2. CASE i \notin 1..l
    <3>1. i - l \in 1..k /\ l + (i - l) = i
          BY <1>1, <1>2, <2>2
    <3>2. r[i] = rs[i - l]
          BY <1>1, <3>1
    <3> QED
          BY <1>2, <1>3, <3>1, <3>2 DEF Describes
  <2> QED
        BY <2>1, <2>2
<1> QED
      BY <1>3 DEF Describes, r

LEMMA DescribesNext ==
    ASSUME NEW m \in FromSlave, NEW q \in Seq(FromSlave), NEW obj
    PROVE  Describes(<<m>> \o q, obj) <=> (IsInfo(m, "od") => m.obj = obj) /\ Describes(q, obj)
<1> DEFINE r == <<m>> \o q
           l == Len(q)
<1>1. l \in Nat /\ DOMAIN q = 1..l /\ DOMAIN r = 1..(l + 1) /\ r[1] = m /\ \A i \in 1..l : r[i + 1] = q[i]
      BY Preceded
<1> HIDE DEF r, l
<1>2. ASSUME Describes(r, obj) PROVE (IsInfo(m, "od") => m.obj = obj) /\ Describes(q, obj)
  <2>1. 1 \in DOMAIN r /\ \A i \in DOMAIN q : i + 1 \in DOMAIN r /\ r[i + 1] = q[i]
        BY <1>1
  <2> QED
        BY <1>1, <1>2, <2>1 DEF Describes
<1>3. ASSUME IsInfo(m, "od") => m.obj = obj, Describes(q, obj) PROVE Describes(r, obj)
  <2>1. ASSUME NEW i \in DOMAIN r, IsInfo(r[i], "od") PROVE r[i].obj = obj
    <3>1. CASE i = 1
          BY <1>1, <1>3, <2>1, <3>1
    <3>2. CASE i # 1
      <4>1. i - 1 \in DOMAIN q /\ (i - 1) + 1 = i
            BY <1>1, <3>2
      <4>2. r[i] = q[i - 1]
            BY <1>1, <4>1
      <4> QED
            BY <1>3, <2>1, <4>1, <4>2 DEF Describes
    <3> QED
          BY <3>1, <3>2
  <2> QED
        BY <2>1 DEF Describes
<1> QED
      BY <1>2, <1>3 DEF r

\* The boxes as a queue.
LEMMA InboxIs ==
    ASSUME BoxTypes
    PROVE  /\ Inbox \in Seq(FromSlave)
           /\ sm1 # Nothing => sm1 \in FromSlave /\ Inbox = <<sm1>> \o replies
           /\ replies \in Seq(FromSlave)
           /\ sm1 = Nothing => Inbox = replies
<1>1. replies \in Seq(FromSlave) /\ (sm1 # Nothing => sm1 \in FromSlave)
      BY DEF BoxTypes
<1>2. sm1 # Nothing => <<sm1>> \o replies \in Seq(FromSlave)
      BY <1>1, Preceded
<1> QED
      BY <1>1, <1>2 DEF Inbox

\* A step of the link layer while nothing is lost: it moves on, or hands the first
\* message of the queue over or drops it.
MovesOn == Inbox' = Inbox /\ ~Handing'
TakesOne ==
    /\ sm1 # Nothing /\ Inbox' = replies
    /\ Handing' => link'.msg = sm1
    /\ \A op \in {"odlist", "od"} : IsInfo(sm1, op) /\ coe.op = op => Handing'

LEMMA LinkKeepsKnowing ==
    ASSUME Types, CallSays, LinkKnows, Asking, Asking', LinkStep, coe' = coe
    PROVE  LinkKnows' /\ (MovesOn \/ TakesOne) /\ (Due' => Due) /\ ~Handing
<1>1. /\ link \in LinkRecords /\ "put" \in LinkOps /\ "resend" \in LinkOps /\ "fetch" \in LinkOps
      /\ "toggle" \in LinkOps /\ "ack" \in LinkOps /\ "again" \in LinkOps /\ "done" \in LinkOps
      BY DEF Types, LinkTypes, LinkOps
<1>2. ASSUME NEW op \in LinkOps, Goto(op)
      PROVE  link'.op = op /\ link'.msg = link.msg /\ link'.bit = link.bit
  <2>1. link' = [link EXCEPT !.op = op]
        BY <1>2 DEF Goto
  <2> QED
        BY <1>1, <2>1 DEF LinkRecords
<1>3. ASSUME NEW op \in LinkOps, NEW bit, link' = [link EXCEPT !.op = op, !.bit = bit]
      PROVE  link'.op = op /\ link'.bit = bit
      BY <1>1, <1>3 DEF LinkRecords
<1>4. ASSUME NEW wkc, NEW m, Finish(wkc, m) PROVE link'.op = "done" /\ link'.wkc = wkc /\ link'.msg = m
  <2>1. link' = [link EXCEPT !.op = "done", !.wkc = wkc, !.msg = m]
        BY <1>4 DEF Finish, Done
  <2> QED
        BY <1>1, <2>1 DEF LinkRecords
<1>5. lost = 0 /\ lost' = 0 /\ ~MayLose
      BY DEF Asking, MayLose
<1>6. /\ sm0 # Nothing => IsQuestion(sm0)
      /\ link.op \in Writing => IsQuestion(link.msg) /\ sm0 = Nothing
      /\ link.op # "resend"
      /\ coe.pc = "send" => link.op \in Writing \union {"done"}
      /\ link.op = "ack" => link.bit = repreq
      /\ link.op = "toggle" \/ (link.op = "fetch" /\ sm1 = Nothing) => Silent(last)
      /\ repreq # repack => /\ Silent(last) /\ coe.pc = "receive"
                            /\ link.op = "ack" \/ (link.op = "done" /\ link.wkc = 0)
      BY DEF LinkKnows
<1>7. link.op # "done"
      BY DEF LinkStep, MbxEmptySeen, MbxEmptyEnds, MbxSend, MbxSendLost, MbxSendAgain, AwaitFull, AwaitEnds,
             FetchNotice, FetchAnswer, FetchLost, Toggle, ToggleAcked, AgainFull, RepeatExpires
<1>8. /\ coe.pc \in {"send", "receive"} /\ (link.op \in Writing => coe.pc = "send")
      /\ link.op \notin Writing => coe.pc = "receive"
      BY <1>6, <1>7 DEF Asking, CallSays
<1>9. ~Handing
      BY <1>7 DEF Handing
\* It writes.
<1>10. CASE MbxEmptySeen
  <2>1. link.op = "empty" /\ link'.op = "put" /\ link'.msg = link.msg /\ UNCHANGED slavebox
        BY <1>1, <1>2, <1>10 DEF MbxEmptySeen
  <2>2. LinkKnows'
        BY <1>6, <1>8, <2>1 DEF LinkKnows, Writing, IsQuestion, IsInfo, slavebox
  <2>3. MovesOn /\ (Due' => Due)
        BY <2>1 DEF MovesOn, Inbox, Handing, Due, Writing, slavebox
  <2> QED
        BY <1>9, <2>2, <2>3
<1>11. CASE MbxSend
  <2>1. /\ link.op = "put" /\ link'.op = "done" /\ link'.wkc = 1 /\ sm0' = link.msg
        /\ UNCHANGED <<sm1, replies, last, repreq, repack>>
        BY <1>4, <1>11 DEF MbxSend
  <2>2. coe.pc = "send" /\ IsQuestion(link.msg)
        BY <1>6, <1>8, <2>1 DEF Writing
  <2>3. LinkKnows'
        BY <1>6, <2>1, <2>2 DEF LinkKnows, Writing, IsQuestion, IsInfo
  <2>4. MovesOn /\ (Due' => Due)
        BY <2>1, <2>2 DEF MovesOn, Inbox, Handing, Due, Writing
  <2> QED
        BY <1>9, <2>3, <2>4
<1>12. CASE MbxEmptyEnds \/ MbxSendLost \/ MbxSendAgain
  <2>1. link.op = "empty" /\ sm0 # Nothing
        BY <1>5, <1>6, <1>12 DEF MbxEmptyEnds, MbxSendLost, MbxSendAgain
  <2> QED
        BY <1>6, <2>1 DEF Writing
\* It waits, and reads.
<1>13. CASE AwaitFull \/ AgainFull
  <2>1. /\ link.op \in {"await", "again"} /\ sm1 # Nothing /\ link'.op = "fetch" /\ UNCHANGED slavebox
        BY <1>1, <1>3, <1>13 DEF AwaitFull, AgainFull
  <2>2. LinkKnows'
        BY <1>6, <1>8, <2>1 DEF LinkKnows, Writing, IsQuestion, IsInfo, slavebox
  <2>3. MovesOn /\ (Due' => Due)
        BY <2>1 DEF MovesOn, Inbox, Handing, Due, Writing, slavebox
  <2> QED
        BY <1>9, <2>2, <2>3
<1>14. CASE AwaitEnds \/ RepeatExpires
  <2>1. /\ link.op \in {"await", "ack", "again"} /\ link'.op = "done" /\ link'.wkc = 0 /\ UNCHANGED slavebox
        BY <1>4, <1>14 DEF AwaitEnds, RepeatExpires
  <2>2. LinkKnows'
        BY <1>6, <1>8, <2>1 DEF LinkKnows, Writing, IsQuestion, IsInfo, slavebox
  <2>3. MovesOn /\ (Due' => Due)
        BY <2>1 DEF MovesOn, Inbox, Handing, Due, Writing, slavebox
  <2> QED
        BY <1>9, <2>2, <2>3
<1>15. CASE FetchNotice
  <2>1. /\ link.op = "fetch" /\ sm1 # Nothing /\ IsNotice(sm1) /\ sm1' = Nothing /\ last' = sm1
        /\ UNCHANGED <<sm0, replies, repreq, repack>>
        /\ link'.op = "fetch" \/ (link'.op = "done" /\ link'.wkc = 0)
        BY <1>1, <1>2, <1>4, <1>15 DEF FetchNotice
  <2>2. repreq = repack
        BY <1>6, <2>1
  <2>3. LinkKnows'
        BY <1>6, <1>8, <2>1, <2>2 DEF LinkKnows, Writing, IsQuestion, IsInfo, Silent
  <2>4. ~Handing' /\ Inbox' = replies /\ (Due' => Due)
        BY <2>1 DEF Inbox, Handing, Due, Writing
  <2>5. \A op \in {"odlist", "od"} : ~IsInfo(sm1, op)
        BY <2>1 DEF IsInfo, IsNotice
  <2> QED
        BY <1>9, <2>1, <2>3, <2>4, <2>5 DEF TakesOne
<1>16. CASE FetchAnswer
  <2>1. /\ link.op = "fetch" /\ sm1 # Nothing /\ sm1' = Nothing /\ last' = sm1
        /\ UNCHANGED <<sm0, replies, repreq, repack>>
        /\ link'.op = "done" /\ link'.wkc = 1 /\ link'.msg = sm1
        BY <1>4, <1>16 DEF FetchAnswer
  <2>2. repreq = repack
        BY <1>6, <2>1
  <2>3. LinkKnows'
        BY <1>6, <1>8, <2>1, <2>2 DEF LinkKnows, Writing, IsQuestion, IsInfo, Silent
  <2>4. Inbox' = replies /\ (Due' => Due)
        BY <2>1 DEF Inbox, Due, Writing
  <2>5. coe.pc = "receive"
        BY <1>8, <2>1 DEF Writing
  <2>6. TakesOne
        BY <2>1, <2>4, <2>5 DEF TakesOne, Handing, IsInfo
  <2> QED
        BY <1>9, <2>3, <2>4, <2>6
<1>17. CASE FetchLost
  <2>1. /\ link.op = "fetch" /\ sm1 = Nothing /\ link'.op = "toggle"
        /\ UNCHANGED <<sm0, sm1, last, replies, repreq, repack>>
        BY <1>1, <1>2, <1>5, <1>17 DEF FetchLost
  <2>2. LinkKnows'
        BY <1>6, <1>8, <2>1 DEF LinkKnows, Writing, IsQuestion, IsInfo, Silent
  <2>3. MovesOn /\ (Due' => Due)
        BY <2>1 DEF MovesOn, Inbox, Handing, Due, Writing
  <2> QED
        BY <1>9, <2>2, <2>3
\* It asks for it again.
<1>18. CASE Toggle
  <2>1. /\ link.op = "toggle" /\ link'.op = "ack" /\ link'.bit = ~link.bit /\ repreq' = ~link.bit
        /\ UNCHANGED <<sm0, sm1, last, replies, repack>>
        BY <1>1, <1>3, <1>5, <1>18 DEF Toggle
  <2>2. LinkKnows'
        BY <1>6, <1>8, <2>1 DEF LinkKnows, Writing, IsQuestion, IsInfo, Silent
  <2>3. MovesOn /\ (Due' => Due)
        BY <2>1 DEF MovesOn, Inbox, Handing, Due, Writing
  <2> QED
        BY <1>9, <2>2, <2>3
<1>19. CASE ToggleAcked
  <2>1. link.op = "ack" /\ repack = link.bit /\ link'.op = "again" /\ UNCHANGED slavebox
        BY <1>1, <1>2, <1>19 DEF ToggleAcked
  <2>2. repreq = repack
        BY <1>6, <2>1
  <2>3. LinkKnows'
        BY <1>6, <1>8, <2>1, <2>2 DEF LinkKnows, Writing, IsQuestion, IsInfo, slavebox
  <2>4. MovesOn /\ (Due' => Due)
        BY <2>1 DEF MovesOn, Inbox, Handing, Due, Writing, slavebox
  <2> QED
        BY <1>9, <2>3, <2>4
<1> QED
      BY <1>10, <1>11, <1>12, <1>13, <1>14, <1>15, <1>16, <1>17, <1>18, <1>19 DEF LinkStep

\* What is known of the answers, when the queue loses its first, or keeps all of them.
LEMMA QueueMovesOn ==
    ASSUME Types, DescriptionKnown, ListKnown, Asking, Asking', coe' = coe, MovesOn \/ TakesOne, Due' => Due, ~Handing
    PROVE  DescriptionKnown' /\ ListKnown'
<1>1. /\ replies \in Seq(FromSlave) /\ (sm1 # Nothing => sm1 \in FromSlave /\ Inbox = <<sm1>> \o replies)
      BY InboxIs DEF Types, MailTypes
<1>2. Len(coe.got) \in Nat /\ Reached = Len(coe.got)
  <2>1. coe.got \in Seq(Parts)
        BY DEF Types, CallTypes, CallRecords
  <2> QED
        BY <2>1 DEF Reached
<1>3. PICK n \in Nat : n = Len(coe.got)
      BY <1>2
<1>4. Reached' = IF Handing' THEN n + 1 ELSE n
  <2>1. Len(coe'.got) = n /\ n + 0 = n
        BY <1>3
  <2> QED
        BY <2>1 DEF Reached
<1>5. CASE coe.op = "od"
  <2>1. Describes(Inbox, coe.obj)
        BY <1>5 DEF DescriptionKnown
  <2>2. CASE MovesOn
        BY <1>5, <2>1, <2>2 DEF MovesOn, DescriptionKnown, ListKnown
  <2>3. CASE TakesOne
    <3>1. sm1 \in FromSlave /\ Inbox = <<sm1>> \o replies /\ Inbox' = replies /\ (Handing' => link'.msg = sm1)
          BY <1>1, <2>3 DEF TakesOne
    <3>2. (IsInfo(sm1, "od") => sm1.obj = coe.obj) /\ Describes(replies, coe.obj)
          BY <1>1, <2>1, <3>1, DescribesNext
    <3>3. Handing' => link'.msg.obj = coe.obj
          BY <1>5, <3>1, <3>2 DEF Handing
    <3> QED
          BY <1>5, <3>1, <3>2, <3>3 DEF DescriptionKnown, ListKnown
  <2> QED
        BY <2>2, <2>3
<1>6. CASE coe.op = "odlist"
  <2> PICK size \in Nat : size = Size[coe.obj]
      BY ConstantsOK DEF Types, CallTypes, Asking
  <2> SUFFICES ASSUME Open PROVE GoesInOrder'
      BY <1>6 DEF DescriptionKnown, ListKnown, GotKnown, Open
  <2>1. (Due => coe.got = <<>> /\ NoPart(Inbox)) /\ InOrder(Inbox, n, size)
        BY <1>2, <1>3, <1>6 DEF ListKnown, GoesInOrder
  <2>2. CASE MovesOn
    <3>1. Inbox' = Inbox /\ ~Handing' /\ Reached' = n
          BY <1>4, <2>2 DEF MovesOn
    <3> QED
          BY <2>1, <3>1 DEF GoesInOrder
  <2>3. CASE TakesOne
    <3>1. sm1 \in FromSlave /\ Inbox = <<sm1>> \o replies /\ Inbox' = replies
          BY <1>1, <2>3 DEF TakesOne
    <3>2. Handing' <=> IsInfo(sm1, "odlist")
          BY <1>6, <2>3 DEF TakesOne, Handing
    <3>3. Handing' => link'.msg = sm1 /\ IsPart(sm1, n + 1, size) /\ InOrder(replies, n + 1, size)
          BY <1>1, <2>1, <2>3, <3>1, <3>2, OrderedNext DEF TakesOne
    <3>4. ~Handing' => InOrder(replies, n, size)
          BY <1>1, <2>1, <3>1, <3>2, OrderedNext
    <3>5. Due' => ~Handing' /\ NoPart(replies)
      <4> SUFFICES ASSUME Due PROVE ~Handing' /\ NoPart(replies)
          OBVIOUS
      <4>1. NoPart(<<sm1>> \o replies)
            BY <2>1, <3>1
      <4>2. /\ DOMAIN (<<sm1>> \o replies) = 1..(Len(replies) + 1) /\ DOMAIN replies = 1..Len(replies)
            /\ Len(replies) \in Nat /\ (<<sm1>> \o replies)[1] = sm1
            /\ \A i \in 1..Len(replies) : (<<sm1>> \o replies)[i + 1] = replies[i]
            BY <1>1, <3>1, Preceded
      <4>3. 1 \in DOMAIN (<<sm1>> \o replies)
            BY <4>2
      <4>4. \A i \in DOMAIN replies : i + 1 \in DOMAIN (<<sm1>> \o replies)
            BY <4>2
      <4> QED
            BY <3>2, <4>1, <4>2, <4>3, <4>4 DEF NoPart
    <3>6. InOrder(Inbox', Reached', size)
          BY <1>4, <3>1, <3>3, <3>4
    <3>7. Handing' => IsPart(link'.msg, Reached', size)
          BY <1>4, <3>3
    <3> QED
          BY <2>1, <3>1, <3>5, <3>6, <3>7 DEF GoesInOrder
  <2> QED
        BY <2>2, <2>3
<1> QED
      BY <1>5, <1>6 DEF Asking

\* A finished call stays as it is.
LEMMA FinishedStays ==
    ASSUME DictionaryIsOwn, coe' = coe, lost' = 0 => lost = 0
    PROVE  DictionaryIsOwn'
BY DEF DictionaryIsOwn, Finished

LEMMA LossesGrow ==
    ASSUME Types, lost' = lost \/ lost' = lost + 1
    PROVE  lost' = 0 => lost = 0
BY DEF Types, MailTypes, CountTypes

LEMMA LinkInforms ==
    ASSUME Types, CallSays, DictionaryInv, LinkStep, coe' = coe
    PROVE  DictionaryInv'
<1>1. lost' = 0 => lost = 0
  <2>1. lost' = lost \/ lost' = lost + 1
        BY DEF LinkStep, MbxEmptySeen, MbxEmptyEnds, MbxSend, MbxSendLost, MbxSendAgain, AwaitFull, AwaitEnds,
               FetchNotice, FetchAnswer, FetchLost, Toggle, ToggleAcked, AgainFull, RepeatExpires, MayLose
  <2> QED
        BY <2>1, LossesGrow
<1>2. AskedSays' /\ DictionaryIsOwn'
      BY <1>1, FinishedStays DEF DictionaryInv, AskedSays
<1>3. CASE Asking'
  <2>1. Asking
        BY <1>1, <1>3 DEF Asking
  <2>2. LinkKnows' /\ (MovesOn \/ TakesOne) /\ (Due' => Due) /\ ~Handing
        BY <1>3, <2>1, LinkKeepsKnowing DEF DictionaryInv
  <2>3. DescriptionKnown' /\ ListKnown'
        BY <1>3, <2>1, <2>2, QueueMovesOn DEF DictionaryInv
  <2> QED
        BY <1>2, <2>2, <2>3 DEF DictionaryInv
<1>4. CASE ~Asking'
      BY <1>2, <1>4 DEF DictionaryInv, LinkKnows, DescriptionKnown, ListKnown
<1> QED
      BY <1>3, <1>4

\* A step that leaves the call and the link alone: the slave puts something that is no
\* answer of the dictionary in front of the queue, or something behind it.
InFront ==
    \/ Inbox' = Inbox
    \/ \E m \in FromSlave : Inbox' = <<m>> \o Inbox /\ ~IsInfo(m, "odlist") /\ ~IsInfo(m, "od")
Behind ==
    \E rs \in Seq(FromSlave) : Inbox' = Inbox \o rs /\ NoPart(rs) /\ \A obj : Describes(rs, obj)

LEMMA QueueIsPushed ==
    ASSUME Types, DescriptionKnown, ListKnown, Asking, coe' = coe, link' = link, InFront \/ Behind, Due' => Due
    PROVE  DescriptionKnown' /\ ListKnown'
<1>1. Inbox \in Seq(FromSlave)
      BY InboxIs DEF Types, MailTypes
<1>2. Handing' = Handing /\ Reached' = Reached
      BY DEF Handing, Reached
<1>3. Reached \in Nat
  <2>1. coe.got \in Seq(Parts)
        BY DEF Types, CallTypes, CallRecords
  <2>2. Len(coe.got) \in Nat
        BY <2>1
  <2>3. \A n \in Nat : n + 0 \in Nat /\ n + 1 \in Nat
        OBVIOUS
  <2> QED
        BY <2>2, <2>3 DEF Reached
<1>4. /\ Describes(Inbox, coe.obj) => Describes(Inbox', coe.obj)
      /\ \A size : InOrder(Inbox, Reached, size) => InOrder(Inbox', Reached, size)
      /\ NoPart(Inbox) => NoPart(Inbox')
  <2>1. CASE Inbox' = Inbox
        BY <2>1
  <2>2. CASE \E m \in FromSlave : Inbox' = <<m>> \o Inbox /\ ~IsInfo(m, "odlist") /\ ~IsInfo(m, "od")
    <3>1. PICK m \in FromSlave : Inbox' = <<m>> \o Inbox /\ ~IsInfo(m, "odlist") /\ ~IsInfo(m, "od")
          BY <2>2
    <3>2. Describes(Inbox, coe.obj) => Describes(Inbox', coe.obj)
          BY <1>1, <3>1, DescribesNext
    <3>3. \A size : InOrder(Inbox, Reached, size) => InOrder(Inbox', Reached, size)
          BY <1>1, <1>3, <3>1, OrderedBefore
    <3>4. NoPart(Inbox) => NoPart(Inbox')
          BY <1>1, <3>1, OrderedBefore
    <3> QED
          BY <3>2, <3>3, <3>4
  <2>3. CASE Behind
    <3>1. PICK rs \in Seq(FromSlave) : Inbox' = Inbox \o rs /\ NoPart(rs) /\ \A obj : Describes(rs, obj)
          BY <2>3 DEF Behind
    <3>2. Describes(Inbox, coe.obj) => Describes(Inbox', coe.obj)
          BY <1>1, <3>1, DescribesMore
    <3>3. \A size : InOrder(Inbox, Reached, size) => InOrder(Inbox', Reached, size)
          BY <1>1, <1>3, <3>1, OrderedMore
    <3>4. NoPart(Inbox) => NoPart(Inbox')
          BY <1>1, <3>1, OrderedMore
    <3> QED
          BY <3>2, <3>3, <3>4
  <2> QED
        BY <2>1, <2>2, <2>3 DEF InFront
<1>5. DescriptionKnown'
      BY <1>2, <1>4 DEF DescriptionKnown, Asking
<1>6. ListKnown'
  <2> SUFFICES ASSUME coe.op = "odlist", Open PROVE GoesInOrder'
      BY DEF ListKnown, GotKnown, Open
  <2>1. /\ Due' => ~Handing /\ coe.got = <<>> /\ NoPart(Inbox')
        /\ InOrder(Inbox', Reached, Size[coe.obj])
        /\ Handing => IsPart(link.msg, Reached, Size[coe.obj])
        BY <1>4 DEF ListKnown, GoesInOrder
  <2> QED
        BY <1>2, <2>1 DEF GoesInOrder
<1> QED
      BY <1>5, <1>6

\* The slave's side, when it leaves the call alone and answers no question.
LEMMA SlaveInforms ==
    ASSUME Types, DictionaryInv, coe' = coe, link' = link, lost' = lost,
           Asking => LinkKnows' /\ (InFront \/ Behind) /\ (Due' => Due)
    PROVE  DictionaryInv'
<1>1. AskedSays' /\ DictionaryIsOwn'
      BY FinishedStays DEF DictionaryInv, AskedSays
<1>2. Asking' = Asking
      BY DEF Asking
<1>3. CASE Asking
  <2>1. DescriptionKnown' /\ ListKnown'
        BY <1>3, QueueIsPushed DEF DictionaryInv
  <2> QED
        BY <1>1, <1>3, <2>1 DEF DictionaryInv
<1>4. CASE ~Asking
      BY <1>1, <1>2, <1>4 DEF DictionaryInv, LinkKnows, DescriptionKnown, ListKnown
<1> QED
      BY <1>3, <1>4

LEMMA MailboxInforms ==
    ASSUME Types, DictionaryInv, SlaveMailbox, coe' = coe
    PROVE  DictionaryInv'
<1>1. link' = link /\ lost' = lost /\ sm0' = sm0 /\ last' = last /\ repreq' = repreq
      BY DEF SlaveMailbox, Answer, Notice, Repeat
<1>2. Due' = Due
      BY <1>1 DEF Due
<1>3. /\ BoxTypes /\ Inbox \in Seq(FromSlave) /\ replies \in Seq(FromSlave)
      /\ sm1 = Nothing => Inbox = replies
      /\ sm1 # Nothing => Inbox = <<sm1>> \o replies
      BY InboxIs DEF Types, MailTypes
<1>4. ASSUME Asking PROVE LinkKnows' /\ InFront
  <2>1. /\ sm0 # Nothing => IsQuestion(sm0)
        /\ link.op \in Writing => IsQuestion(link.msg) /\ sm0 = Nothing
        /\ link.op # "resend"
        /\ coe.pc = "send" => link.op \in Writing \union {"done"}
        /\ link.op = "ack" => link.bit = repreq
        /\ link.op = "toggle" \/ (link.op = "fetch" /\ sm1 = Nothing) => Silent(last)
        /\ repreq # repack => /\ Silent(last) /\ coe.pc = "receive"
                              /\ link.op = "ack" \/ (link.op = "done" /\ link.wkc = 0)
        BY <1>4 DEF DictionaryInv, LinkKnows
  <2>2. CASE Answer
    <3>1. /\ replies # <<>> /\ sm1 = Nothing /\ sm1' = Head(replies) /\ replies' = Tail(replies) /\ repack' = repack
          BY <2>2 DEF Answer
    <3>2. /\ Head(replies) \in FromSlave /\ Tail(replies) \in Seq(FromSlave)
          /\ replies = <<Head(replies)>> \o Tail(replies)
          BY <1>3, <3>1
    <3>3. sm1' # Nothing
          BY <3>1, <3>2, ConstantsOK
    <3>4. Inbox' = Inbox
          BY <1>3, <3>1, <3>2, <3>3 DEF Inbox
    <3>5. LinkKnows'
          BY <1>1, <2>1, <3>1, <3>3 DEF LinkKnows, IsQuestion, IsInfo, Silent
    <3> QED
          BY <3>4, <3>5 DEF InFront
  <2>3. CASE Notice
    <3>1. sm1 = Nothing /\ replies' = replies /\ repack' = repack
          BY <2>3 DEF Notice
    <3>2. PICK m \in {[type |-> "CoE", cmd |-> "emergency"], [type |-> "error", cmd |-> "mailbox error"],
                      Fragment(1, 0, 1, <<>>, FALSE)} : sm1' = m
          BY <2>3 DEF Notice
    <3>3. m \in FromSlave /\ m # Nothing
          BY NoticesAreTyped, ConstantsOK
    <3>4. m.type # "CoE" \/ m.cmd = "emergency"
          BY NoticesAreNone
    <3>5. Inbox' = <<m>> \o Inbox
          BY <1>3, <3>1, <3>2, <3>3 DEF Inbox
    <3>6. LinkKnows'
          BY <1>1, <2>1, <3>1, <3>2, <3>3 DEF LinkKnows, IsQuestion, IsInfo, Silent
    <3> QED
          BY <3>3, <3>4, <3>5, <3>6 DEF InFront, IsInfo
  <2>4. CASE Repeat
    <3>1. /\ repreq # repack /\ repack' = repreq
          /\ UNCHANGED <<sm1, replies>> \/ (sm1' = last /\ replies' = Inbox)
          BY <2>4 DEF Repeat, Inbox
    <3>2. LinkKnows'
          BY <1>1, <2>1, <3>1 DEF LinkKnows, IsQuestion, IsInfo, Silent
    <3>3. CASE UNCHANGED <<sm1, replies>>
          BY <3>2, <3>3 DEF InFront, Inbox
    <3>4. CASE sm1' = last /\ replies' = Inbox
      <4>1. CASE last = Nothing
            BY <3>2, <3>4, <4>1 DEF InFront, Inbox
      <4>2. CASE last # Nothing
        <5>1. last \in FromSlave /\ IsNotice(last)
              BY <1>3, <2>1, <3>1, <4>2 DEF BoxTypes, Silent
        <5>2. Inbox' = <<last>> \o Inbox
              BY <3>4, <4>2 DEF Inbox
        <5>3. ~IsInfo(last, "odlist") /\ ~IsInfo(last, "od")
              BY <5>1 DEF IsNotice, IsInfo
        <5> QED
              BY <3>2, <5>1, <5>2, <5>3 DEF InFront
      <4> QED
            BY <4>1, <4>2
    <3> QED
          BY <3>1, <3>3, <3>4
  <2> QED
        BY <2>2, <2>3, <2>4 DEF SlaveMailbox
<1> QED
      BY <1>1, <1>2, <1>4, SlaveInforms

\* Answers that are put behind those not yet in the mailbox.
LEMMA InboxGrows ==
    ASSUME BoxTypes, sm1' = sm1, NEW rs \in Seq(FromSlave), replies' = replies \o rs
    PROVE  Inbox' = Inbox \o rs
<1>1. replies \in Seq(FromSlave) /\ (sm1 # Nothing => sm1 \in FromSlave)
      BY DEF BoxTypes
<1>2. CASE sm1 = Nothing
      BY <1>2 DEF Inbox
<1>3. CASE sm1 # Nothing
  <2>1. <<sm1>> \in Seq(FromSlave)
        BY <1>1, <1>3
  <2>2. (<<sm1>> \o replies) \o rs = <<sm1>> \o (replies \o rs)
        BY <1>1, <2>1, ConcatAssociative
  <2> QED
        BY <1>3, <2>2 DEF Inbox
<1> QED
      BY <1>2, <1>3

LEMMA OthersInform ==
    ASSUME Types, DictionaryInv, Serve \/ ServeEthernet \/ Traffic
    PROVE  DictionaryInv'
<1>1. /\ UNCHANGED <<coe, app, val, xfer, link, last, sm1, lost, repreq, repack>> /\ sm0' \in {sm0, Nothing}
      /\ replies' = replies \/ \E rs \in Seq(Others) : replies' = replies \o rs
      BY OthersAdd
<1>2. Due' => Due
      BY <1>1 DEF Due
<1>3. LinkKnows'
  <2> SUFFICES ASSUME Asking' PROVE LinkKnows'
      BY DEF LinkKnows
  <2>1. Asking
        BY <1>1 DEF Asking
  <2> QED
        BY <1>1, <2>1 DEF DictionaryInv, LinkKnows, IsQuestion, IsInfo, Silent
<1>4. InFront \/ Behind
  <2>1. CASE replies' = replies
        BY <1>1, <2>1 DEF InFront, Inbox
  <2>2. CASE \E rs \in Seq(Others) : replies' = replies \o rs
    <3>1. PICK rs \in Seq(Others) : replies' = replies \o rs
          BY <2>2
    <3>2. rs \in Seq(FromSlave)
          BY OthersAnswer
    <3>3. \A m \in Others : m.type # "CoE"
          BY DEF Others, TransferAnswers, FragmentAnswers
    <3>4. \A i \in DOMAIN rs : rs[i].type # "CoE"
          BY <3>3
    <3>5. NoPart(rs) /\ \A obj : Describes(rs, obj)
          BY <3>4 DEF NoPart, Describes, IsInfo
    <3>6. Inbox' = Inbox \o rs
          BY <1>1, <3>1, <3>2, InboxGrows DEF Types, MailTypes
    <3> QED
          BY <3>2, <3>5, <3>6 DEF Behind
  <2> QED
        BY <1>1, <2>1, <2>2
<1> QED
      BY <1>1, <1>2, <1>3, <1>4, SlaveInforms

\* The slave's service answers a question.
LEMMA InformsAnswers ==
    ASSUME NEW o \in CoeRequests, o = sm0, Informs(o), o.cmd \in {"odlist", "od"}
    PROVE  \E rs \in Seq(FromSlave) :
              /\ replies' = replies \o rs
              /\ o.cmd = "od" => Describes(rs, o.obj)
              /\ o.cmd = "odlist" => \A i \in DOMAIN rs : IsInfo(rs[i], "odlist") /\ IsPart(rs[i], i, Size[o.obj])
<1>1. o.obj \in Somewhere /\ o.part \in Nat
      BY DEF CoeRequests, Somewhere
<1>2. CASE o.cmd = "od"
  <2> DEFINE m == [Msg(o.cmd, o.obj) EXCEPT !.part = o.part]
  <2>1. m \in CoeAnswers
        BY <1>1, <1>2, MsgIsTyped, AnswerEdits DEF AnswerCmds
  <2>2. m.obj = o.obj
        BY DEF Msg
  <2>3. replies' = replies \o <<m>>
        BY <1>2 DEF Informs, Put
  <2> HIDE DEF m
  <2>4. m \in FromSlave
        BY <2>1 DEF FromSlave
  <2>5. <<m>> \in Seq(FromSlave) /\ DOMAIN <<m>> = {1} /\ <<m>>[1] = m
        BY <2>4
  <2>6. Describes(<<m>>, o.obj)
        BY <2>2, <2>5 DEF Describes
  <2> QED
        BY <1>2, <2>3, <2>5, <2>6
<1>3. CASE o.cmd = "odlist"
  <2> DEFINE size == Size[o.obj]
             piece(k) == [Msg("odlist", Nothing) EXCEPT !.part = k, !.last = k = size]
             list == [k \in 1..size |-> piece(k)]
  <2>0. size \in Nat
        BY ConstantsOK DEF CoeRequests
  <2>1. Msg("odlist", Nothing) \in CoeAnswers
        BY MsgIsTyped DEF AnswerCmds, Somewhere
  <2>2. ASSUME NEW k \in 1..size
        PROVE  piece(k) \in FromSlave /\ IsInfo(piece(k), "odlist") /\ IsPart(piece(k), k, size)
    <3> DEFINE ends == k = size
    <3>1. ends \in BOOLEAN /\ k \in Nat
          BY <2>0
    <3>2. piece(k) = [Msg("odlist", Nothing) EXCEPT !.part = k, !.last = ends]
          OBVIOUS
    <3>3. /\ piece(k).type = "CoE" /\ piece(k).cmd = "odlist" /\ piece(k).part = k
          /\ piece(k).last = ends /\ piece(k).val = NoValue
          BY DEF Msg
    <3>4. IsInfo(piece(k), "odlist") /\ IsPart(piece(k), k, size)
          BY <3>3 DEF IsInfo, IsPart
    <3> HIDE DEF ends, piece
    <3>5. [Msg("odlist", Nothing) EXCEPT !.part = k, !.last = ends] \in CoeAnswers
          BY <2>1, <3>1, AnswerEdits
    <3> QED
          BY <3>2, <3>4, <3>5 DEF FromSlave
  <2>3. replies' = replies \o list
        BY <1>3 DEF Informs, Put
  <2> HIDE DEF piece
  <2>4. list \in Seq(FromSlave) /\ DOMAIN list = 1..size /\ \A i \in 1..size : list[i] = piece(i)
        BY <2>0, <2>2
  <2> HIDE DEF list
  <2> QED
        BY <1>3, <2>2, <2>3, <2>4
<1> QED
      BY <1>2, <1>3

\* While a call waits the slave takes its question, and nothing else.
LEMMA TakeInforms ==
    ASSUME Types, DictionaryInv, Take
    PROVE  DictionaryInv'
<1>1. /\ UNCHANGED <<coe, link, lost, sm1, last, repreq, repack>> /\ sm0 # Nothing /\ sm0' = Nothing
      BY DEF Take
<1>2. PICK o \in CoeRequests : o = sm0
      BY RequestKinds DEF Take, Types, MailTypes, BoxTypes
<1>3. UNCHANGED replies \/ Execute(o)
      BY <1>2 DEF Take
<1>4. Asking' = Asking /\ (Due' => Due)
      BY <1>1 DEF Asking, Due
<1>5. LinkKnows'
  <2> SUFFICES ASSUME Asking PROVE LinkKnows'
      BY <1>4 DEF LinkKnows
  <2> QED
      BY <1>1 DEF DictionaryInv, LinkKnows, IsQuestion, IsInfo, Silent
<1>6. CASE ~Asking
      BY <1>1, <1>4, <1>5, <1>6, SlaveInforms
<1>7. CASE Asking /\ UNCHANGED replies
  <2>1. InFront
        BY <1>1, <1>7 DEF InFront, Inbox
  <2> QED
        BY <1>1, <1>4, <1>5, <2>1, SlaveInforms
<1>8. CASE Asking /\ Execute(o)
  <2>1. /\ o.type = "CoE" /\ o.cmd = coe.op /\ o.obj = coe.obj /\ coe.op \in {"odlist", "od"}
        /\ link.op \notin Writing
        BY <1>1, <1>2, <1>8 DEF DictionaryInv, LinkKnows, IsQuestion, IsInfo, Asking
  <2>2. Refuses(o) \/ Informs(o)
        BY <1>8, <2>1 DEF Execute
  <2>3. CASE Refuses(o)
    <3>1. Abort(o) \in CoeAnswers /\ Abort(o).cmd = "abort"
      <4>1. Msg("abort", o.obj) \in CoeAnswers
            BY MsgIsTyped DEF AnswerCmds, Somewhere, CoeRequests
      <4> QED
            BY <4>1 DEF Abort, Msg
    <3>2. replies' = replies \o <<Abort(o)>>
          BY <2>1, <2>3 DEF Refuses, Put
    <3>3. PICK m \in FromSlave : m = Abort(o)
          BY <3>1 DEF FromSlave
    <3>4. <<m>> \in Seq(FromSlave) /\ DOMAIN <<m>> = {1} /\ <<m>>[1] = m
          OBVIOUS
    <3>5. NoPart(<<m>>) /\ \A obj : Describes(<<m>>, obj)
          BY <3>1, <3>3, <3>4 DEF NoPart, Describes, IsInfo
    <3>6. Inbox' = Inbox \o <<m>>
          BY <1>1, <3>2, <3>3, <3>4, InboxGrows DEF Types, MailTypes
    <3>7. Behind
          BY <3>4, <3>5, <3>6 DEF Behind
    <3> QED
          BY <1>1, <1>4, <1>5, <3>7, SlaveInforms
  <2>4. CASE Informs(o)
    <3>1. PICK rs \in Seq(FromSlave) :
             /\ replies' = replies \o rs
             /\ o.cmd = "od" => Describes(rs, o.obj)
             /\ o.cmd = "odlist" => \A i \in DOMAIN rs : IsInfo(rs[i], "odlist") /\ IsPart(rs[i], i, Size[o.obj])
          BY <1>2, <2>1, <2>4, InformsAnswers
    <3>2. Inbox' = Inbox \o rs /\ Inbox \in Seq(FromSlave)
          BY <1>1, <3>1, InboxGrows, InboxIs DEF Types, MailTypes
    <3>3. Due /\ ~Due' /\ Handing' = Handing /\ coe' = coe
          BY <1>1, <2>1 DEF Due, Handing
    <3>4. DescriptionKnown'
      <4> SUFFICES ASSUME coe.op = "od" PROVE DescriptionKnown'
          BY <1>1 DEF DescriptionKnown
      <4>1. Describes(Inbox, coe.obj) /\ (Handing => link.msg.obj = coe.obj)
            BY <1>8 DEF DictionaryInv, DescriptionKnown
      <4>2. Describes(Inbox', coe.obj)
            BY <2>1, <3>1, <3>2, <4>1, DescribesMore
      <4> QED
            BY <1>1, <3>3, <4>1, <4>2 DEF DescriptionKnown
    <3>5. ListKnown'
      <4> SUFFICES ASSUME coe.op = "odlist", Open PROVE GoesInOrder'
          BY <1>1, <1>8 DEF DictionaryInv, ListKnown, GotKnown, Open
      <4>1. ~Handing /\ coe.got = <<>> /\ NoPart(Inbox)
            BY <1>8, <3>3 DEF DictionaryInv, ListKnown, GoesInOrder
      <4>2. Size[o.obj] \in Nat
            BY ConstantsOK DEF CoeRequests
      <4>3. InOrder(Inbox', 0, Size[o.obj])
            BY <2>1, <3>1, <3>2, <4>1, <4>2, OrderedAnswer
      <4>4. Reached' = 0
            BY <3>3, <4>1 DEF Reached
      <4> QED
            BY <2>1, <3>3, <4>1, <4>3, <4>4 DEF GoesInOrder
    <3>6. AskedSays' /\ DictionaryIsOwn'
          BY <1>1, FinishedStays DEF DictionaryInv, AskedSays
    <3> QED
          BY <1>5, <3>4, <3>5, <3>6 DEF DictionaryInv
  <2> QED
        BY <2>2, <2>3, <2>4
<1> QED
      BY <1>3, <1>6, <1>7, <1>8

\* A step of a call that asks nothing of the dictionary, or no longer, or not yet.
LEMMA NotAsking ==
    ASSUME ~Asking', AskedSays', DictionaryIsOwn'
    PROVE  DictionaryInv'
BY DEF DictionaryInv, LinkKnows, DescriptionKnown, ListKnown

LEMMA OthersAsk ==
    ASSUME coe'.op \notin {"odlist", "od"}
    PROVE  DictionaryInv'
<1>1. ~Asking' /\ AskedSays' /\ DictionaryIsOwn'
      BY DEF Asking, AskedSays, DictionaryIsOwn, Finished
<1> QED
      BY <1>1, NotAsking

LEMMA BeginsAsking ==
    ASSUME coe'.pc \in {"ready", "transfer"}, coe'.got = <<>>, ~coe'.seg
    PROVE  DictionaryInv'
<1>1. ~Asking' /\ AskedSays' /\ DictionaryIsOwn'
      BY DEF Asking, AskedSays, DictionaryIsOwn, Finished
<1> QED
      BY <1>1, NotAsking

LEMMA ReturnsNothing ==
    ASSUME Types, Return(FALSE)
    PROVE  DictionaryInv'
<1>1. coe' = [coe EXCEPT !.pc = "idle", !.ok = FALSE] /\ coe \in CallRecords
      BY DEF Return, Types, CallTypes
<1>2. coe'.pc = "idle" /\ ~coe'.ok
      BY <1>1 DEF CallRecords
<1>3. ~Asking' /\ AskedSays' /\ DictionaryIsOwn'
      BY <1>2 DEF Asking, AskedSays, DictionaryIsOwn, Finished
<1> QED
      BY <1>3, NotAsking

\* It asks: what it found in the mailbox is nothing, or it remembers otherwise.
LEMMA QuestionAsked ==
    ASSUME Types, DictionaryInv, Request, coe.op \in {"odlist", "od"},
           coe'.op = coe.op, coe'.obj = coe.obj
    PROVE  DictionaryInv'
<1>1. /\ coe.pc = "ready" /\ coe.got = <<>> /\ coe.seg = FALSE /\ coe \in CallRecords
      /\ coe.op # "down" /\ coe.op # "up"
      BY DEF DictionaryInv, AskedSays, Request, Types, CallTypes, CallRecords
<1>2. UNCHANGED slavebox /\ lost' = lost
      BY DEF Request
<1>3. /\ coe' = [coe EXCEPT !.pc = "send", !.part = coe.part, !.clear = Clear]
      BY <1>1 DEF Request
<1>4. coe'.pc = "send" /\ coe'.got = <<>> /\ coe'.clear = Clear
      BY <1>1, <1>3 DEF CallRecords
<1>5. PICK m : m = [RequestOf EXCEPT !.cnt = NextMbxCnt(mbxcnt), !.id = asked + 1]
      OBVIOUS
<1>6. m.type = "CoE" /\ m.cmd = coe.op /\ m.obj = coe.obj
  <2>1. RequestOf = [Msg(coe.op, coe.obj) EXCEPT !.part = coe.part]
        BY <1>1 DEF RequestOf, InfoRequest
  <2> QED
        BY <1>5, <2>1 DEF Msg
<1>7. link' = Sending(m)
      BY <1>5 DEF Request
<1>8. link'.op = "empty" /\ link'.msg = m
      BY <1>7 DEF Sending
<1>9. AskedSays' /\ DictionaryIsOwn' /\ ~Handing'
      BY <1>4 DEF AskedSays, DictionaryIsOwn, Finished, Handing
<1>10. CASE Clear
  <2>1. sm0' = Nothing /\ sm1' = Nothing /\ repreq' = repack' /\ Inbox' = <<>>
        BY <1>2, <1>10 DEF Clear, slavebox, Inbox
  <2>2. LinkKnows'
        BY <1>4, <1>6, <1>8, <2>1 DEF LinkKnows, Writing, IsQuestion, IsInfo
  <2>3. /\ NoPart(<<>>) /\ (\A size : InOrder(<<>>, 0, size)) /\ \A obj : Describes(<<>>, obj)
        /\ Len(<<>>) = 0 /\ <<>> = [k \in 1..0 |-> <<NoValue, k>>]
        BY DEF NoPart, InOrder, Describes
  <2>4. DescriptionKnown'
        BY <1>9, <2>1, <2>3 DEF DescriptionKnown
  <2>5. Reached' = 0
        BY <1>4, <1>9, <2>3 DEF Reached
  <2>6. ListKnown'
    <3>1. ListRoom \in Nat \ {0}
          BY CoeAssumption
    <3>2. GotKnown'
          BY <1>4, <2>3, <3>1 DEF GotKnown, Open
    <3>3. GoesInOrder'
          BY <1>4, <1>9, <2>1, <2>3, <2>5 DEF GoesInOrder
    <3> QED
          BY <3>2, <3>3 DEF ListKnown
  <2> QED
        BY <1>9, <2>2, <2>4, <2>6 DEF DictionaryInv
<1>11. CASE ~Clear
  <2>1. ~Asking'
        BY <1>4, <1>11 DEF Asking
  <2> QED
        BY <1>9, <2>1, NotAsking
<1> QED
      BY <1>10, <1>11

\* The question is sent: it waits.
LEMMA QuestionSent ==
    ASSUME Types, DictionaryInv, Sent, coe.op \in {"odlist", "od"}, coe' = [coe EXCEPT !.pc = "receive"],
           link' = Awaiting(TRUE)
    PROVE  DictionaryInv'
<1>1. coe.pc = "send" /\ coe \in CallRecords /\ link.op = "done"
      BY DEF Sent, Done, Types, CallTypes
<1>2. /\ coe'.pc = "receive" /\ coe'.op = coe.op /\ coe'.obj = coe.obj /\ coe'.got = coe.got
      /\ coe'.clear = coe.clear
      BY <1>1 DEF CallRecords
<1>3. UNCHANGED slavebox /\ lost' = lost /\ link'.op = "await"
      BY DEF Sent, Awaiting
<1>4. AskedSays' /\ DictionaryIsOwn' /\ ~Handing' /\ ~Handing
      BY <1>1, <1>2, <1>3 DEF AskedSays, DictionaryIsOwn, Finished, Handing
<1>5. CASE Asking
  <2>1. Inbox' = Inbox /\ (Due' => Due) /\ repreq = repack /\ (sm0 # Nothing => IsQuestion(sm0))
        BY <1>1, <1>3, <1>5 DEF DictionaryInv, LinkKnows, Inbox, slavebox, Due, Writing
  <2>2. LinkKnows'
        BY <1>2, <1>3, <2>1 DEF LinkKnows, Writing, IsQuestion, IsInfo, slavebox
  <2>3. DescriptionKnown'
        BY <1>2, <1>4, <1>5, <2>1 DEF DictionaryInv, DescriptionKnown
  <2>4. Reached' = Reached
        BY <1>2, <1>4 DEF Reached
  <2>5. ListKnown'
    <3> SUFFICES ASSUME coe.op = "odlist" PROVE ListKnown'
        BY <1>2 DEF ListKnown
    <3>1. GotKnown /\ (Open => GoesInOrder)
          BY <1>5 DEF DictionaryInv, ListKnown
    <3>2. GotKnown' /\ Open' = Open
          BY <1>2, <3>1 DEF GotKnown, Open
    <3>3. GoesInOrder => GoesInOrder'
          BY <1>2, <1>4, <2>1, <2>4 DEF GoesInOrder
    <3> QED
          BY <3>1, <3>2, <3>3 DEF ListKnown
  <2> QED
        BY <1>4, <2>2, <2>3, <2>5 DEF DictionaryInv
<1>6. CASE ~Asking
  <2>1. ~Asking'
        BY <1>1, <1>2, <1>3, <1>6 DEF Asking
  <2> QED
        BY <1>4, <2>1, NotAsking
<1> QED
      BY <1>5, <1>6

\* It is handed a description.
LEMMA DescriptionTaken ==
    ASSUME Types, DictionaryInv, Description
    PROVE  DictionaryInv'
<1>1. /\ coe.pc = "receive" /\ link.op = "done" /\ link.wkc > 0 /\ coe.op = "od"
      /\ link.msg.type = "CoE" /\ link.msg.cmd = "od" /\ lost' = lost
      /\ coe' = [coe EXCEPT !.pc = "idle", !.ok = TRUE, !.got = <<link.msg.obj>>]
      BY DEF Description, Received, Done, Same
<1>2. coe \in CallRecords /\ link.wkc = 1
      BY <1>1 DEF Types, CallTypes, LinkTypes, LinkRecords
<1>3. /\ coe'.pc = "idle" /\ coe'.op = "od" /\ coe'.obj = coe.obj /\ coe'.clear = coe.clear
      /\ coe'.got = <<link.msg.obj>>
      BY <1>1, <1>2 DEF CallRecords
<1>4. Handing
      BY <1>1, <1>2 DEF Handing, IsInfo
<1>5. lost' = 0 /\ coe'.clear => link.msg.obj = coe.obj
      BY <1>1, <1>3, <1>4 DEF DictionaryInv, DescriptionKnown, Asking
<1>6. DictionaryIsOwn'
      BY <1>3, <1>5 DEF DictionaryIsOwn, Finished
<1>7. ~Asking' /\ AskedSays'
      BY <1>3 DEF Asking, AskedSays
<1> QED
      BY <1>6, <1>7, NotAsking

\* A part is put behind those before it.
LEMMA OnePartMore ==
    ASSUME NEW q \in Seq(Parts), q = [k \in 1..Len(q) |-> <<NoValue, k>>]
    PROVE  LET r == Append(q, <<NoValue, Len(q) + 1>>)
           IN  Len(r) = Len(q) + 1 /\ r = [k \in 1..(Len(q) + 1) |-> <<NoValue, k>>]
<1> DEFINE n == Len(q)
           e == <<NoValue, Len(q) + 1>>
           r == Append(q, e)
<1>1. n \in Nat /\ e \in Unit
      BY DEF Unit, NoValue
<1>2. e \in Parts /\ e = <<NoValue, n + 1>>
      BY <1>1 DEF Parts
<1>3. q = [k \in 1..n |-> <<NoValue, k>>]
      OBVIOUS
<1> HIDE DEF e, n
<1>4. Len(r) = n + 1 /\ r[n + 1] = e /\ (\A k \in 1..n : r[k] = q[k]) /\ r = [k \in 1..(n + 1) |-> r[k]]
      BY <1>1, <1>2 DEF n
<1> HIDE DEF r
<1>5. ASSUME NEW k \in 1..(n + 1) PROVE r[k] = <<NoValue, k>>
  <2>1. CASE k = n + 1
        BY <1>2, <1>4, <2>1
  <2>2. CASE k # n + 1
    <3>1. k \in 1..n
          BY <1>1, <2>2
    <3>2. q[k] = <<NoValue, k>>
          BY <1>3, <3>1
    <3> QED
          BY <1>4, <3>1, <3>2
  <2> QED
        BY <2>1, <2>2
<1>6. r = [k \in 1..(n + 1) |-> <<NoValue, k>>]
      BY <1>4, <1>5
<1> QED
      BY <1>4, <1>6 DEF r, e, n

\* It is handed a part of the list: the next one, if there is room. The last one makes
\* the list whole, and without room the list may end where it stands.
LEMMA PartTaken ==
    ASSUME Types, DictionaryInv, ListFragment
    PROVE  DictionaryInv'
<1> DEFINE entries == IF Open THEN <<<<link.msg.val, link.msg.part>>>> ELSE <<>>
           got == coe.got \o entries
<1>1. /\ coe.pc = "receive" /\ link.op = "done" /\ link.wkc > 0 /\ coe.op = "odlist"
      /\ link.msg.type = "CoE" /\ link.msg.cmd = "odlist" /\ lost' = lost /\ UNCHANGED slavebox
      BY DEF ListFragment, Received, Done, Same
<1>2. coe \in CallRecords /\ coe.got \in Seq(Parts) /\ link.wkc = 1
      BY <1>1 DEF Types, CallTypes, LinkTypes, LinkRecords, CallRecords
<1>3. Handing
      BY <1>1, <1>2 DEF Handing, IsInfo
<1>4. /\ coe'.op = "odlist" /\ coe'.got = got /\ coe'.clear = coe.clear /\ coe'.obj = coe.obj
      /\ \/ coe'.pc = "receive" /\ ~link.msg.last /\ link' = Awaiting(TRUE)
         \/ coe'.pc = "idle" /\ (link.msg.last \/ Len(got) = ListRoom)
  <2>1. entries = IF Len(coe.got) < ListRoom THEN <<<<link.msg.val, link.msg.part>>>> ELSE <<>>
        BY DEF Open
  <2> HIDE DEF entries
  <2>2. PICK taken : taken = [coe EXCEPT !.got = got]
        OBVIOUS
  <2>3. taken.got = got /\ taken.op = "odlist" /\ taken.clear = coe.clear /\ taken.obj = coe.obj /\ taken.pc = "receive"
        BY <1>1, <1>2, <2>2 DEF CallRecords
  <2>4. \/ Follows(link.msg) /\ coe' = taken /\ link' = Awaiting(TRUE)
        \/ (~Follows(link.msg) \/ Len(taken.got) = ListRoom) /\ coe' = [taken EXCEPT !.pc = "idle", !.ok = TRUE]
        BY <2>1, <2>2 DEF ListFragment
  <2>5. CASE Follows(link.msg) /\ coe' = taken /\ link' = Awaiting(TRUE)
        BY <2>3, <2>5 DEF Follows
  <2>6. CASE (~Follows(link.msg) \/ Len(taken.got) = ListRoom) /\ coe' = [taken EXCEPT !.pc = "idle", !.ok = TRUE]
    <3>1. coe'.got = taken.got /\ coe'.op = taken.op /\ coe'.clear = taken.clear /\ coe'.obj = taken.obj /\ coe'.pc = "idle"
          BY <1>2, <2>2, <2>6 DEF CallRecords
    <3>2. link.msg.last \/ Len(got) = ListRoom
          BY <2>3, <2>6 DEF Follows
    <3> QED
          BY <2>3, <3>1, <3>2
  <2> QED
        BY <2>4, <2>5, <2>6
<1> HIDE DEF got
<1>5. AskedSays'
      BY <1>4 DEF AskedSays
<1>6. CASE Asking
  <2> PICK n \in Nat : n = Len(coe.got)
      BY <1>2
  <2> PICK size \in Nat : size = Size[coe.obj]
      BY <1>1, ConstantsOK DEF Types, CallTypes
  <2> PICK room \in Nat \ {0} : room = ListRoom
      BY CoeAssumption
  <2>1. Reached = n + 1
        BY <1>3 DEF Reached
  <2>2. coe.got = [k \in 1..n |-> <<NoValue, k>>] /\ (~Open => n = room /\ room <= size)
        BY <1>1, <1>6 DEF DictionaryInv, ListKnown, GotKnown
  <2>3. Open => n < room /\ ~Due /\ InOrder(Inbox, n + 1, size) /\ IsPart(link.msg, n + 1, size)
        BY <1>1, <1>3, <1>6, <2>1 DEF DictionaryInv, ListKnown, GoesInOrder, Open
  <2>4. Open => link.msg.part = n + 1 /\ link.msg.val = NoValue /\ n + 1 <= size /\ (link.msg.last => n + 1 = size)
    <3> SUFFICES ASSUME Open
                 PROVE  link.msg.part = n + 1 /\ link.msg.val = NoValue /\ n + 1 <= size
                        /\ (link.msg.last => n + 1 = size)
        OBVIOUS
    <3>1. /\ link.msg.part = n + 1 /\ n + 1 \in 1..size /\ link.msg.last = (n + 1 = size)
          /\ link.msg.val = NoValue
          BY <2>3 DEF IsPart
    <3>2. link.msg.last => n + 1 = size
          BY <3>1, Zenon
    <3> QED
          BY <3>1, <3>2
  <2>5. Open => Len(got) = n + 1 /\ got = [k \in 1..(n + 1) |-> <<NoValue, k>>]
    <3> SUFFICES ASSUME Open PROVE Len(got) = n + 1 /\ got = [k \in 1..(n + 1) |-> <<NoValue, k>>]
        OBVIOUS
    <3>1. got = Append(coe.got, <<NoValue, n + 1>>)
          BY <1>2, <2>4 DEF got
    <3> QED
          BY <1>2, <2>2, <3>1, OnePartMore
  <2>6. ~Open => got = coe.got
        BY <1>2 DEF got
  <2>7. PICK m \in Nat : /\ m = Len(got) /\ got = [k \in 1..m |-> <<NoValue, k>>] /\ m <= size /\ 1 <= m
                         /\ m <= room /\ (link.msg.last /\ Open => m = size) /\ (~Open => m = room)
    <3>1. CASE Open
          BY <2>3, <2>4, <2>5, <3>1
    <3>2. CASE ~Open
          BY <2>2, <2>6, <3>2
    <3> QED
          BY <3>1, <3>2
  <2>8. CASE coe'.pc = "idle" /\ (link.msg.last \/ Len(got) = ListRoom)
    <3>1. m \in 1..Size[coe'.obj] /\ (m = Size[coe'.obj] \/ m = ListRoom) /\ coe'.got = [k \in 1..m |-> <<NoValue, k>>]
          BY <1>4, <2>7, <2>8
    <3>2. ~Asking' /\ DictionaryIsOwn'
          BY <1>4, <2>8, <3>1 DEF Asking, DictionaryIsOwn, Finished
    <3> QED
          BY <1>5, <3>2, NotAsking
  <2>9. CASE coe'.pc = "receive" /\ ~link.msg.last /\ link' = Awaiting(TRUE)
    <3>1. coe'.pc = "receive" /\ link'.op = "await"
          BY <2>9 DEF Awaiting
    <3>2. ~Handing' /\ DictionaryIsOwn' /\ Inbox' = Inbox /\ (Due' => Due)
          BY <1>1, <3>1 DEF Handing, DictionaryIsOwn, Finished, Inbox, slavebox, Due, Writing
    <3>3. Reached' = m
      <4>1. Len(coe'.got) = m /\ m + 0 = m
            BY <1>4, <2>7
      <4> QED
            BY <3>2, <4>1 DEF Reached
    <3>4. repreq = repack /\ (sm0 # Nothing => IsQuestion(sm0))
          BY <1>1, <1>2, <1>6 DEF DictionaryInv, LinkKnows
    <3>5. LinkKnows'
          BY <1>1, <1>4, <3>1, <3>2, <3>4 DEF LinkKnows, Writing, IsQuestion, IsInfo, slavebox
    <3>6. DescriptionKnown'
          BY <1>4 DEF DescriptionKnown
    <3>7. GotKnown'
      <4>1. Len(coe'.got) = m /\ coe'.got = [k \in 1..m |-> <<NoValue, k>>] /\ Size[coe'.obj] = size
            BY <1>4, <2>7
      <4> QED
            BY <2>7, <4>1 DEF GotKnown, Open
    <3>8. Open' => GoesInOrder'
      <4> SUFFICES ASSUME Open' PROVE GoesInOrder'
          OBVIOUS
      <4>1. Len(coe'.got) = m /\ m < room
            BY <1>4, <2>7 DEF Open
      <4>2. Open
            BY <2>7, <4>1
      <4>3. m = n + 1
            BY <2>5, <2>7, <4>2
      <4> QED
            BY <1>4, <2>3, <3>2, <3>3, <4>2, <4>3 DEF GoesInOrder
    <3> QED
          BY <1>5, <3>2, <3>5, <3>6, <3>7, <3>8 DEF DictionaryInv, ListKnown
  <2> QED
        BY <1>4, <2>8, <2>9
<1>7. CASE ~Asking
  <2>1. ~Asking' /\ DictionaryIsOwn'
        BY <1>1, <1>4, <1>7 DEF Asking, DictionaryIsOwn, Finished
  <2> QED
        BY <1>5, <2>1, NotAsking
<1> QED
      BY <1>6, <1>7

LEMMA CoeInforms ==
    ASSUME Types, ReadInv, DictionaryInv, CoeStep
    PROVE  DictionaryInv'
<1>1. coe'.op = coe.op /\ coe'.obj = coe.obj
      BY CoeAside
<1>2. CASE coe.op \notin {"odlist", "od"}
      BY <1>1, <1>2, OthersAsk
<1>3. CASE coe.op \in {"odlist", "od"}
  <2>1. Fails => Return(FALSE)
        BY <1>3 DEF Fails, GoesOn
  <2>2. CASE Request
        BY <1>1, <1>3, <2>2, QuestionAsked
  <2>3. CASE Sent
    <3>1. Return(FALSE) \/ (link' = Awaiting(TRUE) /\ coe' = [coe EXCEPT !.pc = "receive"])
          BY <1>3, <2>1, <2>3 DEF Sent
    <3> QED
          BY <1>3, <2>3, <3>1, ReturnsNothing, QuestionSent
  <2>4. CASE NotReceived \/ Unexpected
    <3>1. Return(FALSE)
          BY <1>3, <2>1, <2>4 DEF NotReceived, Unexpected
    <3> QED
          BY <3>1, ReturnsNothing
  <2>5. CASE ListFragment
        BY <2>5, PartTaken
  <2>6. CASE Description
        BY <2>6, DescriptionTaken
  <2>7. ~(UploadResponse \/ UploadSegment \/ TransferExpires \/ DownloadResponse
          \/ DownloadSegmentResponse \/ Entry \/ TxPdoResponse)
        BY <1>3 DEF UploadResponse, UploadSegment, TransferExpires, DownloadResponse,
           DownloadSegmentResponse, Entry, TxPdoResponse
  <2> QED
        BY <2>2, <2>3, <2>4, <2>5, <2>6, <2>7 DEF CoeStep
<1> QED
      BY <1>2, <1>3

\* The other calls, and the beginning of each.
LEMMA CallsInform ==
    ASSUME Types, DictionaryInv,
           \/ LibraryCall \/ TransferCall \/ EthernetCall
           \/ WriteStart \/ WriteCompared \/ WriteSent \/ WriteReadBack
    PROVE  DictionaryInv'
<1>1. ASSUME NEW op, NEW obj, NEW v, NEW room, Begin(op, obj, v, room) PROVE DictionaryInv'
  <2>1. coe' = Call(op, obj, v, room)
        BY <1>1 DEF Begin
  <2>2. coe'.pc = "ready" /\ coe'.got = <<>> /\ ~coe'.seg
        BY <2>1 DEF Call
  <2> QED
        BY <2>2, BeginsAsking
<1>2. CASE \E op, obj, v, room : Begin(op, obj, v, room)
      BY <1>1, <1>2
<1>3. CASE \E op, obj, v, room : coe' = [Call(op, obj, v, room) EXCEPT !.pc = "transfer"]
  <2>1. coe'.pc = "transfer" /\ coe'.got = <<>> /\ ~coe'.seg
        BY <1>3 DEF Call
  <2> QED
        BY <2>1, BeginsAsking
<1>4. CASE UNCHANGED <<coe, link, slavebox, lost>>
  <2>1. Asking' = Asking /\ Inbox' = Inbox /\ Due' = Due /\ (LinkKnows => LinkKnows')
        BY <1>4 DEF Asking, Inbox, slavebox, Due, LinkKnows, IsQuestion, IsInfo
  <2> QED
        BY <1>4, <2>1, SlaveInforms DEF DictionaryInv, InFront
<1>5. CASE LibraryCall \/ WriteStart
  <2>1. \E op, obj, v, room : Begin(op, obj, v, room)
        BY <1>5 DEF LibraryCall, WriteStart
  <2> QED
        BY <1>2, <2>1
<1>6. CASE TransferCall \/ EthernetCall
  <2>1. \E v, room : coe' = [Call(Operation, Object, v, room) EXCEPT !.pc = "transfer"]
        BY <1>6 DEF TransferCall, EthernetCall
  <2> QED
        BY <1>3, <2>1
<1>7. CASE WriteCompared \/ WriteSent \/ WriteReadBack
  <2>1. (\E op, obj, v, room : Begin(op, obj, v, room)) \/ UNCHANGED <<coe, link, slavebox, lost>>
        BY <1>7 DEF WriteCompared, WriteSent, WriteReadBack, Outside
  <2> QED
        BY <1>2, <1>4, <2>1
<1> QED
      BY <1>5, <1>6, <1>7

LEMMA TransfersInform ==
    ASSUME Types, TransferOnly
    PROVE  DictionaryInv'
<1>1. Proceeds /\ coe.pc = "transfer"
  <2>1. CASE SendFragment
        BY <2>1, SendFragmentProceeds DEF Types, SendFragment, At
  <2> QED
        BY <2>1, FoEProceeds, SoEProceeds, EthernetProceeds, ReceiveFragmentProceeds
           DEF TransferOnly, TransferStep, Types
<1>2. coe'.op \in TransferOps \union EthernetOps
      BY <1>1 DEF Types, CallTypes, Proceeds
<1>3. coe'.op \notin {"odlist", "od"}
      BY <1>2 DEF TransferOps, EthernetOps
<1> QED
      BY <1>3, OthersAsk

LEMMA DictionaryInit == EthernetInit => DictionaryInv
<1> SUFFICES ASSUME EthernetInit PROVE DictionaryInv
    OBVIOUS
<1>1. coe = [Call("up", Nothing, NoValue, 0) EXCEPT !.pc = "idle"]
      BY DEF EthernetInit, TransferInit, Init
<1>2. coe.op = "up"
      BY <1>1 DEF Call
<1> QED
      BY <1>2 DEF DictionaryInv, AskedSays, LinkKnows, DescriptionKnown, ListKnown, DictionaryIsOwn, Finished, Asking

LEMMA DictionaryStep == Types /\ ReadInv /\ DictionaryInv /\ [EthernetNext]_evars => DictionaryInv'
<1> SUFFICES ASSUME Types, ReadInv, DictionaryInv, [EthernetNext]_evars PROVE DictionaryInv'
    OBVIOUS
<1>1. CASE UNCHANGED evars
  <2>1. UNCHANGED <<coe, link, slavebox, lost>>
        BY <1>1 DEF evars, tvars, vars, mailbox
  <2>2. Asking' = Asking /\ Inbox' = Inbox /\ Due' = Due /\ (LinkKnows => LinkKnows')
        BY <2>1 DEF Asking, Inbox, slavebox, Due, LinkKnows, IsQuestion, IsInfo
  <2> QED
        BY <2>1, <2>2, SlaveInforms DEF DictionaryInv, InFront
<1>2. CASE (LinkStep \/ SlaveMailbox) /\ UNCHANGED <<coe, app, slave, plan, failed, asked>>
      BY <1>2, LinkInforms, MailboxInforms DEF ReadInv
<1>3. CASE Take
      BY <1>3, TakeInforms
<1>4. CASE CoeStep
      BY <1>4, CoeInforms
<1>5. CASE \/ LibraryCall \/ TransferCall \/ EthernetCall
           \/ WriteStart \/ WriteCompared \/ WriteSent \/ WriteReadBack
      BY <1>5, CallsInform
<1>6. CASE TransferOnly
      BY <1>6, TransfersInform
<1>7. CASE Serve \/ ServeEthernet \/ Traffic
      BY <1>7, OthersInform
<1>8. TransferStep => TransferCall \/ TransferOnly
      BY DEF TransferOnly
<1>9. IpRequest \/ IpResponse \/ EthernetUnheard \/ SendFragment \/ FragmentSent \/ ReceiveFragment \/ TakeFragment
          => TransferOnly
      BY DEF TransferOnly
<1> QED
      BY <1>1, <1>2, <1>3, <1>4, <1>5, <1>6, <1>7, <1>8, <1>9 DEF EthernetNext, TransferNext, Next

\* While nothing was lost, the list of objects is read whole and in order, or its
\* beginning as far as the master has room for it (EC_MAXODLIST), and a description
\* is of the object that was asked about, though no answer says which
\* request it answers (ecx_readODlist and ecx_readODdescription): a call that finds
\* the mailbox empty is handed the answer to its own request first, and a message
\* sent again meanwhile is one that no call takes for an answer.
THEOREM DictionaryOwn == EthernetSpec => []DictionaryIsOwn
<1>1. EthernetInit => DictionaryInv
      BY DictionaryInit
<1>2. (Types /\ ReadInv) /\ DictionaryInv /\ [EthernetNext]_evars => DictionaryInv'
      BY DictionaryStep
<1>3. DictionaryInv => DictionaryIsOwn
      BY DEF DictionaryInv
<1> QED
      BY <1>1, <1>2, <1>3, ReadInvariant, PTL DEF EthernetSpec

=============================================================================
