---- MODULE EcClocks ----
(* The propagation delays of distributed clocks: ecx_configdc of ethercatdc.c, which *)
(* a user of the master may call between the other calls; the application does not  *)
(* yet. A frame that passes all devices has them latch their clocks at each port    *)
(* that it enters by. From these times the delay of each clock is reckoned, from the *)
(* port of the clock above it that its branch hangs on. The clocks' offsets from the *)
(* master's time, and the list of the slaves with a clock, are left out.            *)
EXTENDS EcStartup, FiniteSetsExt

CONSTANTS
    Wirings,    \* ring -> how devices are wired: number of children -> their ports, in
                \* the order of a frame; bound: in some rings clocks are not configured
    Way,        \* position -> the time that a frame takes on the way to the device
    Skews,      \* position -> what the device's clock shows when the frame is sent
    TopTime     \* the time behind the largest one of a signed register

ASSUME ClocksAssumption ==
    /\ TopTime \in Nat
    /\ \A r \in Rings : \A w \in Wirings[r], n \in 0..3 : Len(w[n]) = n /\ Range(w[n]) \subseteq 1..3

VARIABLE clock
cvars == <<vars, clock>>

Unread == [q \in 0..3 |-> 0]
NoClocks == [has |-> {}, wiring |-> <<>>, skew |-> <<>>, latched |-> FALSE, told |-> <<>>,
             of |-> <<>>, held |-> 0, hold |-> 0, missed |-> {}, called |-> FALSE]

\* A clock's register has 32 bits, which the master takes for a signed number; so has
\* a difference.
Signed(t) == ((t + TopTime) % (2 * TopTime)) - TopTime

-----------------------------------------------------------------------------
(* A frame in the ring.                                                            *)

Above(p) ==
    LET up[q \in 0..Len(ring.kinds)] == IF q = 0 THEN {} ELSE {q} \union up[ring.parent[q]]
    IN  up[p]
Children(p) == {q \in Ring : ring.parent[q] = p}

\* When the frame comes to a device, and when it is back there from the n-th branch.
Arrival(p) ==
    LET once(q) == IF q \in Above(p) THEN Way[q] ELSE 2 * Way[q]
    IN  MapThenSumSet(once, 1..p)
Back(p, n) ==
    LET twice(q) == 2 * Way[q]
        passed == {q \in Ring \ {p} : /\ p \in Above(q)
                                      /\ Cardinality({c \in Children(p) : c <= q}) <= n}
    IN  Arrival(p) + MapThenSumSet(twice, passed)

\* What the device has latched for a port; no frame comes in by an unused one.
PortTime(p, q) ==
    LET ports == clock.wiring[Links(p) - 1]
        back == {n \in DOMAIN ports : ports[n] = q} \union (IF q = 0 THEN {0} ELSE {})
    IN  IF ~clock.latched \/ back = {} THEN 0
        ELSE Signed(clock.skew[p] + Back(p, CHOOSE n \in back : TRUE))

-----------------------------------------------------------------------------
(* Ports. A slave's are known with its topology.                                   *)

Active(s) ==
    LET links == slavelist[s].topology
    IN  IF links = 0 THEN {} ELSE {0} \union Range(clock.wiring[links - 1])
FirstOf(order, ports) == order[CHOOSE i \in DOMAIN order :
                                  order[i] \in ports /\ \A k \in 1..(i - 1) : order[k] \notin ports]

\* The active port that a frame comes in by before it leaves by this one.
Previous == <<<<3, 0, 2>>, <<1, 3, 0>>, <<0, 2, 1>>>>
PrevPort(ports, q) ==
    LET order == IF q = 0 THEN <<2, 1, 3>> ELSE Previous[q]
    IN  IF q \notin 0..3 \/ ports \intersect Range(order) = {} THEN q ELSE FirstOf(order, ports)

\* Mutant: the branches of a device are taken in the order of the ports' numbers.
ParentPortByNumber(consumed) == IF consumed = {} THEN 0 ELSE FirstOf(<<1, 2, 3, 0>>, consumed)

\* The branches of a device are consumed in the order in which a frame takes them.
ParentPort(consumed) == IF consumed = {} THEN 0 ELSE FirstOf(<<3, 1, 2, 0>>, consumed)

\* The frame came in by the port with the lowest time. Without an active port the
\* code reads an array that nothing was put in: any port, or none.
EntryPorts(ports, time) ==
    LET order == <<0, 3, 1, 2>>
        lowest == {q \in ports : \A r \in ports : time[q] <= time[r]}
    IN  IF ports = {} THEN 0..4 ELSE {FirstOf(order, lowest)}

-----------------------------------------------------------------------------
(* The delay of a slave.                                                           *)

\* The clock above a slave, 0 when there is none, and the slave under it that leads here.
Over(s) ==
    LET up[k \in 1..s] ==
          LET p == slavelist[k].parent
          IN  IF p = 0 \/ p \in clock.has THEN [child |-> k, parent |-> p] ELSE up[p]
    IN  up[s]

Halved(t) == IF t < 0 THEN -((-t) \div 2) ELSE t \div 2
Size(t) == IF t < 0 THEN -t ELSE t

\* Half of what the branch takes behind the link, without what the slave's own branches
\* take, and what the branches of the parent before it take.
Delay(of, s, port) ==
    LET over == Over(s)
        parent == over.parent
        time(x, q) == IF q \in 0..3 THEN of[x].time[q] ELSE 0
        since(x, q) == Signed(time(x, PrevPort(Active(x), q)) - time(x, of[x].entry))
        branch == Signed(time(parent, port) - time(parent, PrevPort(Active(parent), port)))
        own == IF slavelist[s].topology > 1 THEN since(s, of[s].entry) ELSE 0
        behind == IF own > branch THEN -own ELSE own
        before == IF over.child - parent > 1 THEN since(parent, port) ELSE 0
    IN  Signed(Halved(Signed(branch - behind)) + Size(before) + of[parent].delay)

-----------------------------------------------------------------------------
(* ecx_configdc.                                                                   *)

\* The broadcast that has the times latched. Which slaves have a clock was read at the
\* start, by an exchange whose failure passes for none. The caller waits for PRE-OP.
ConfigDc ==
    \E o \in Outcomes, has \in SUBSET (1..Count), w \in Wirings[ring], skew \in Skews :
       /\ at.step = "idle" /\ connected /\ ~clock.called
       /\ Happens(o)
       /\ \A s \in 1..Count : slavelist[s].state = PRE_OP
       /\ at' = [Idle EXCEPT !.step = "clock", !.s = 1]
       /\ clock' = [NoClocks EXCEPT
                      !.has = has, !.wiring = w, !.skew = skew, !.latched = (o # "lost"),
                      !.told = [p \in Ring |-> 0], !.called = TRUE,
                      !.of = [s \in 1..Count |-> [time |-> Unread, consumed |-> {}, entry |-> 0, delay |-> 0]]]
       /\ UNCHANGED <<ring, dev, slavelist, cache, opened, connected, spoiled, connects, changes>>

\* The four times of a slave; one that is not answered is taken to be the last that was.
Times(s, answered) ==
    LET read[q \in -1..3] ==
          IF q = -1 THEN clock.held
          ELSE IF q \in answered THEN PortTime(CHOOSE p \in Answering(s) : TRUE, q)
          ELSE read[q - 1]
    IN  [q \in 0..3 |-> read[q]]

ToldDelay == 4
ClockSlave ==
    \E answered \in SUBSET (0..ToldDelay), entry \in 0..4 :
       LET s == at.s
           over == Over(s)
           parent == over.parent
           exchanges == 0..(IF parent > 0 THEN ToldDelay ELSE 3)
           time == Times(s, answered)
           found == [clock.of EXCEPT ![s] = [@ EXCEPT !.time = time, !.entry = entry,
                                                      !.consumed = Active(s) \ {entry}]]
           taken == ParentPort(found[parent].consumed)
           port == IF slavelist[parent].topology = 1 THEN found[parent].entry ELSE taken
           delay == Delay(found, s, port)
       IN  /\ at.step = "clock" /\ s \in clock.has
           /\ answered \subseteq exchanges
           /\ IF Answering(s) = {} THEN answered = {} /\ UNCHANGED faults
              ELSE /\ faults' = faults + Cardinality(exchanges \ answered)
                   /\ faults' <= ring.faults
           /\ entry \in EntryPorts(Active(s), time)
           /\ clock' = [clock EXCEPT
                !.of = IF parent = 0 THEN found
                       ELSE [found EXCEPT ![s].delay = delay, ![parent].consumed = @ \ {taken}],
                !.told = [p \in DOMAIN @ |-> IF ToldDelay \in answered /\ p \in Answering(s)
                                             THEN delay ELSE @[p]],
                !.held = IF parent = 0 THEN time[3] ELSE delay,
                !.hold = 0,
                !.missed = IF answered = exchanges THEN @ ELSE @ \union {s}]
           /\ at' = [at EXCEPT !.s = @ + 1]
           /\ UNCHANGED <<ring, dev, slavelist, cache, opened, connected, spoiled, connects, changes>>

\* A slave without a clock. At the end of a branch of such slaves the branch is
\* consumed, of the last device with more branches that the search came by.
PlainSlave ==
    LET s == at.s
        parent == slavelist[s].parent
        hold == IF parent > 0 /\ slavelist[parent].topology > 2 THEN parent ELSE clock.hold
        ends == hold # 0 /\ slavelist[s].topology = 1
        found == [clock.of EXCEPT ![s].time = Unread, ![s].consumed = Active(s)]
    IN  /\ at.step = "clock" /\ s \in (1..Count) \ clock.has
        /\ clock' = [clock EXCEPT
             !.of = IF ends THEN [found EXCEPT ![hold].consumed = @ \ {ParentPort(@)}] ELSE found,
             !.hold = IF ends THEN 0 ELSE hold]
        /\ at' = [at EXCEPT !.s = @ + 1]
        /\ UNCHANGED <<ring, dev, slavelist, cache, opened, connected, faults, spoiled, connects, changes>>

ConfigDcEnds ==
    /\ at.step = "clock" /\ at.s > Count
    /\ at' = Idle /\ clock' = [NoClocks EXCEPT !.called = TRUE]
    /\ UNCHANGED <<ring, dev, slavelist, cache, opened, connected, faults, spoiled, connects, changes>>

-----------------------------------------------------------------------------
ClocksInit == Init /\ clock = NoClocks
ClocksNext ==
    \/ Next /\ UNCHANGED clock
    \/ ConfigDc \/ ClockSlave \/ PlainSlave \/ ConfigDcEnds

ClocksSpec == ClocksInit /\ [][ClocksNext]_cvars

-----------------------------------------------------------------------------
\* No clock passes from the largest number to the smallest while the frame is behind it.
Steady(p) == \A q \in 0..3 : q \in Active(p) => PortTime(p, 0) <= PortTime(p, q)

\* In a ring in which every fork has a clock, each clock is told how much later than to
\* the first clock above it a frame comes to it, whatever slaves have none and by
\* whatever ports they are wired: a failed exchange, or a clock that turns over, spoils
\* no delay but its own and those of the clocks below.
DelaysAreTrue ==
    /\ at.step = "clock" /\ at.s > Count /\ clock.latched
    /\ \A p \in Ring : Links(p) > 2 => p \in clock.has
    => \A s \in clock.has :
          LET over == Above(s) \intersect clock.has
          IN  /\ over \intersect clock.missed = {} /\ (1..s) \intersect spoiled = {}
              /\ \A p \in over : Steady(p)
              => clock.told[s] = Arrival(s) - Arrival(Min(over))

\* The parent found for a slave is the device that it is connected to, and its clock's
\* delay that of a frame (ecx_config_init, ecx_configdc).
PlacesAreKnown == ParentIsTrees /\ DelaysAreTrue
====
