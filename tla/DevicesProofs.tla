---------------------------- MODULE DevicesProofs ----------------------------
(***************************************************************************)
(* The clock and its timers (ElapsedExact), the stages of the modules      *)
(* (ModulesOnce), the table of symbols (KsymsExact), the registry of       *)
(* serial devices (LinksAgree), the keyboard's port (KeyboardIdentified)   *)
(* and the kernel's output (ConsoleShowsText), for every value of the      *)
(* constants.                                                              *)
(***************************************************************************)
EXTENDS Devices, SequenceTheorems, WellFoundedInduction, TLAPS

\* Every set of natural numbers that has a member has a least one.
LEMMA LeastNatural ==
    ASSUME NEW T \in SUBSET Nat, T # {}
    PROVE  \E x \in T : \A y \in T : x <= y
<1>1. ASSUME NEW R, R = OpToRel(<, Nat)
      PROVE  IsWellFoundedOn(R, Nat) /\ \A x \in Nat, y \in Nat : y < x => <<y, x>> \in R
  <2>1. IsWellFoundedOn(R, Nat)
    BY <1>1, NatLessThanWellFounded, Zenon
  <2>2. \A x \in Nat, y \in Nat : y < x => <<y, x>> \in R
    BY <1>1, Zenon DEF OpToRel
  <2> QED BY <2>1, <2>2
<1>2. \E R : R = OpToRel(<, Nat)
  BY Zenon
<1>3. PICK R : IsWellFoundedOn(R, Nat) /\ \A x \in Nat, y \in Nat : y < x => <<y, x>> \in R
  BY <1>1, <1>2, Zenon
<1>4. PICK x \in T : \A y \in T : ~(<<y, x>> \in R)
  BY <1>3, WFMin
<1>5. \A y \in T : ~(y < x)
  BY <1>3, <1>4
<1> QED BY <1>5

LEMMA Elements ==
    ASSUME NEW S, NEW s \in Seq(S), NEW i \in 1 .. Len(s)
    PROVE  s[i] \in S
OBVIOUS

\* Division with remainder by a number that is not fixed.
LEMMA Division ==
    ASSUME NEW s \in Nat \ {0}, NEW n \in Nat
    PROVE  /\ n \div s \in Nat /\ n % s \in 0 .. s - 1
           /\ n = s * (n \div s) + (n % s)
OBVIOUS

LEMMA DivisionUnique ==
    ASSUME NEW s \in Nat \ {0}, NEW q \in Nat, NEW r \in 0 .. s - 1
    PROVE  (s * q + r) \div s = q /\ (s * q + r) % s = r
OBVIOUS

LEMMA CarryAdds ==
    ASSUME NEW s \in Nat \ {0}, NEW n \in Nat, NEW d \in Nat
    PROVE  /\ (n + d) \div s = n \div s + ((n % s) + d) \div s
           /\ (n + d) % s = ((n % s) + d) % s
<1> DEFINE q == n \div s
           r == n % s
           u == (r + d) \div s
           v == (r + d) % s
<1>1. q \in Nat /\ r \in 0 .. s - 1 /\ n = s * q + r
  BY Division
<1>2. r + d \in Nat
  BY <1>1
<1>3. u \in Nat /\ v \in 0 .. s - 1 /\ r + d = s * u + v
  BY <1>2, Division
<1> HIDE DEF q, r, u, v
<1>4. q + u \in Nat /\ n + d = s * (q + u) + v
  BY <1>1, <1>3
<1>5. (s * (q + u) + v) \div s = q + u /\ (s * (q + u) + v) % s = v
  BY <1>3, <1>4, DivisionUnique
<1> QED BY <1>4, <1>5 DEF q, r, u, v

-----------------------------------------------------------------------------
(* The clock and its timers (Timer).                                       *)

\* When a copy was made.
Making == [first : Nat, at : Nat, last : Nat]
InOrder(x) == x.first <= x.at \div Second /\ x.at \div Second <= x.last

\* The copy c, made at x, has the seconds of the clock between its first and
\* its last access, or the low half wrapped in between, and the nanoseconds
\* of its second.
CopyOf(c, x) ==
    /\ c.sec \in Nat /\ c.nsec = x.at % Second
    /\ InOrder(x)
    /\ HighStands(x) => x.first <= c.sec /\ c.sec <= x.last

\* What the parts that are read so far are parts of.
LowRead(c, x)  == \E t \in Nat : x.first <= t /\ t <= x.last /\ c.low = t % LowRange
HighRead(c, x) == \E t \in Nat : x.first <= t /\ t <= x.last /\ c.high = t \div LowRange
NsecRead(c, x) == InOrder(x) /\ c.nsec = x.at % Second

\* The clock shows what the interrupts have counted; the parts of a copy were
\* read between its first and its last access; and a timer's start is a copy
\* made when the timer was started.
TimerInv ==
    /\ counted \in Nat /\ ticks \in Nat
    /\ clock = [sec |-> counted \div Second, nsec |-> counted % Second]
    /\ copying \in {"none", "start", "elapsed"}
    /\ copying = "elapsed" => timer.now # "stub"
    /\ left \subseteq Accesses
    /\ copy = [low |-> copy.low, high |-> copy.high, nsec |-> copy.nsec]
    /\ made \in Making /\ made.first <= made.last /\ made.last <= counted \div Second
    /\ "low" \notin left => LowRead(copy, made)
    /\ "high" \notin left => HighRead(copy, made)
    /\ "nsec" \notin left => NsecRead(copy, made)
    /\ started \in Making /\ asked \in Making
    /\ timer = [now |-> timer.now, start |-> [sec |-> timer.start.sec, nsec |-> timer.start.nsec]]
    /\ CopyOf(timer.start, started)
    /\ timer.now = "stub" => timer.start = Zero /\ asked = started /\ started = Never
    /\ elapsed \in [sec : Int, nsec : 0 .. Second - 1]
    /\ ElapsedExact

\* Division keeps the order.
LEMMA DivisionMonotone ==
    ASSUME NEW l \in Nat \ {0}, NEW a \in Nat, NEW b \in Nat, a <= b
    PROVE  a \div l <= b \div l
<1> DEFINE qa == a \div l
           qb == b \div l
<1>1. qa \in Nat /\ a % l \in 0 .. l - 1 /\ a = l * qa + (a % l)
  BY Division
<1>2. qb \in Nat /\ b % l \in 0 .. l - 1 /\ b = l * qb + (b % l)
  BY Division
<1> HIDE DEF qa, qb
<1>3. ASSUME qb < qa PROVE FALSE
  <2>1. PICK k \in Nat : qa = qb + 1 + k
    <3>1. qa - qb - 1 \in Nat /\ qa = qb + 1 + (qa - qb - 1)
      BY ONLY <1>1, <1>2, <1>3
    <3> QED BY ONLY <3>1
  <2>2. l * qa = l * qb + l + l * k
    BY ONLY <1>1, <1>2, <2>1, l \in Nat \ {0}
  <2>3. l * k \in Nat /\ l * qb \in Nat
    BY ONLY <1>2, <2>1, l \in Nat \ {0}
  <2>4. PICK u \in Nat, v \in Nat, ra \in 0 .. l - 1, rb \in 0 .. l - 1 :
            u = l * qb /\ v = l * k /\ ra = a % l /\ rb = b % l
    BY ONLY <1>1, <1>2, <2>3
  <2>5. a = u + l + v + ra /\ b = u + rb
    BY ONLY <1>1, <1>2, <2>2, <2>4, l \in Nat \ {0}
  <2> QED BY ONLY <2>4, <2>5, l \in Nat \ {0}, a <= b
<1>4. qa <= qb
  BY <1>1, <1>2, <1>3
<1> QED BY <1>4 DEF qa, qb

\* A copy whose parts are all read.
LEMMA CopyMade ==
    ASSUME TimerInv, left = {}
    PROVE  CopyOf(Copy, made)
<1>1. LowRange \in Nat \ {0} /\ Second \in Nat \ {0}
  BY TimerAssumption
<1>2. /\ made.first \in Nat /\ made.last \in Nat
      /\ LowRead(copy, made) /\ HighRead(copy, made) /\ NsecRead(copy, made)
  BY DEF TimerInv, Making
<1>3. PICK t \in Nat : made.first <= t /\ t <= made.last /\ copy.low = t % LowRange
  BY <1>2 DEF LowRead
<1>4. PICK h \in Nat : made.first <= h /\ h <= made.last /\ copy.high = h \div LowRange
  BY <1>2 DEF HighRead
<1>5. /\ Copy.sec = copy.high * LowRange + copy.low /\ Copy.nsec = copy.nsec
  BY DEF Copy
<1>6. PICK q \in Nat, r \in 0 .. LowRange - 1 : q = t \div LowRange /\ r = t % LowRange /\ t = LowRange * q + r
  BY ONLY <1>1, <1>3, Division
<1>7. PICK g \in Nat : g = h \div LowRange
  BY ONLY <1>1, <1>4, Division
<1>8. Copy.sec = g * LowRange + r
  BY ONLY <1>3, <1>4, <1>5, <1>6, <1>7
<1>9. Copy.sec \in Nat
  BY ONLY <1>1, <1>6, <1>7, <1>8
<1>10. ASSUME HighStands(made)
       PROVE  made.first <= Copy.sec /\ Copy.sec <= made.last
  <2>1. PICK f \in Nat, e \in Nat : f = made.first /\ e = made.last
    BY ONLY <1>2
  <2>2. f \div LowRange <= q /\ q <= e \div LowRange
    BY ONLY <1>1, <1>3, <1>6, <2>1, DivisionMonotone
  <2>3. f \div LowRange <= g /\ g <= e \div LowRange
    BY ONLY <1>1, <1>4, <1>7, <2>1, DivisionMonotone
  <2>4. f \div LowRange = e \div LowRange /\ f \div LowRange \in Nat
    BY ONLY <1>1, <1>10, <2>1, Division DEF HighStands
  <2>5. g = q
    BY ONLY <1>6, <1>7, <2>2, <2>3, <2>4
  <2>6. Copy.sec = t
    BY ONLY <1>1, <1>6, <1>8, <2>5
  <2> QED BY ONLY <1>3, <2>6
<1> QED BY <1>2, <1>5, <1>9, <1>10 DEF CopyOf, NsecRead

\* timer_elapsed borrows a second where it has to.
LEMMA ElapsedBorrows ==
    ASSUME NEW n \in Nat, NEW x \in 0 .. Second - 1, NEW s \in Nat, NEW y \in 0 .. Second - 1
    PROVE  LET e == Elapsed([sec |-> n, nsec |-> x], [sec |-> s, nsec |-> y])
           IN  /\ e \in [sec : Int, nsec : 0 .. Second - 1]
               /\ e.sec * Second + e.nsec = (n * Second + x) - (s * Second + y)
<1>1. Second \in Nat \ {0}
  BY TimerAssumption
<1>2. CASE x - y < 0
  <2>1. Elapsed([sec |-> n, nsec |-> x], [sec |-> s, nsec |-> y]) = [sec |-> n - s - 1, nsec |-> Second + (x - y)]
    BY <1>2 DEF Elapsed
  <2>2. (n - s - 1) * Second + (Second + (x - y)) = (n * Second + x) - (s * Second + y)
    BY <1>1
  <2>3. Second + (x - y) \in 0 .. Second - 1
    BY <1>1, <1>2
  <2> QED BY <2>1, <2>2, <2>3
<1>3. CASE ~(x - y < 0)
  <2>1. Elapsed([sec |-> n, nsec |-> x], [sec |-> s, nsec |-> y]) = [sec |-> n - s, nsec |-> x - y]
    BY <1>3 DEF Elapsed
  <2>2. (n - s) * Second + (x - y) = (n * Second + x) - (s * Second + y)
    BY <1>1
  <2>3. x - y \in 0 .. Second - 1
    BY <1>1, <1>3
  <2> QED BY <2>1, <2>2, <2>3
<1> QED BY <1>2, <1>3

LEMMA TimerInitial == TimerInit => TimerInv
<1> SUFFICES ASSUME TimerInit PROVE TimerInv
  OBVIOUS
<1>1. Second \in Nat \ {0}
  BY TimerAssumption
<1>2. 0 \div Second = 0 /\ 0 % Second = 0
  BY <1>1
<1>3. 0 \div LowRange = 0 /\ 0 % LowRange = 0 /\ LowRange \in Nat \ {0}
  BY TimerAssumption
<1>4. Never \in Making /\ InOrder(Never) /\ Late(Never) = 0 /\ HighStands(Never)
  BY <1>1, <1>2 DEF Never, Making, InOrder, Late, HighStands
<1>5. CopyOf(Zero, Never)
  BY <1>2, <1>4 DEF CopyOf, Zero, Never
<1>6. LowRead(NoCopy, Never) /\ HighRead(NoCopy, Never) /\ NsecRead(NoCopy, Never)
  BY <1>2, <1>3, <1>4 DEF LowRead, HighRead, NsecRead, NoCopy, Never
<1>7. ElapsedExact
  <2>1. elapsed.nsec = 0 /\ Off = 0
    BY <1>1 DEF TimerInit, Zero, Never, Off
  <2> QED BY <1>1, <1>2, <1>4, <2>1 DEF TimerInit, ElapsedExact
<1> QED BY <1>1, <1>2, <1>4, <1>5, <1>6, <1>7 DEF TimerInit, TimerInv, Zero, Never, NoCopy

\* The interrupt adds to the clock what it counts, and carries.
LEMMA PitIsrKeeps == TimerInv /\ PitIsr => TimerInv'
<1> SUFFICES ASSUME TimerInv, PitIsr PROVE TimerInv'
  OBVIOUS
<1> USE DEF TimerInv
<1>1. Second \in Nat \ {0}
  BY TimerAssumption
<1>2. PICK e \in Rounding : /\ clock' = Carry([clock EXCEPT !.nsec = @ + TickNs + e])
                            /\ counted' = counted + TickNs + e
  BY DEF PitIsr
<1> DEFINE d == TickNs + e
           r == counted % Second
           q == counted \div Second
<1>3. d \in Nat /\ TickNs \in Nat /\ e \in Int
  BY TimerAssumption
<1>4. q \in Nat /\ r \in 0 .. Second - 1
  BY <1>1, Division
<1>5. /\ (counted + d) \div Second = q + (r + d) \div Second
      /\ (counted + d) % Second = (r + d) % Second
  BY <1>1, <1>3, CarryAdds
<1>6. r + d \in Nat /\ (r + d) \div Second \in Nat
  <2>1. r + d \in Nat
    BY <1>1, <1>3, <1>4
  <2> HIDE DEF r, d
  <2> QED BY <1>1, <2>1, Division
<1>7. clock = [sec |-> q, nsec |-> r]
  OBVIOUS
<1>8. clock' = [sec |-> q + (r + (TickNs + e)) \div Second, nsec |-> (r + (TickNs + e)) % Second] /\ counted' = counted + d
  <2>1. r + TickNs + e = r + d /\ counted + TickNs + e = counted + d
    BY <1>3, <1>4
  <2> HIDE DEF q, r, TimerInv
  <2>2. [clock EXCEPT !.nsec = @ + TickNs + e] = [sec |-> q, nsec |-> r + TickNs + e]
    BY <1>7
  <2>3. clock' = Carry([sec |-> q, nsec |-> r + d])
    BY <2>1, <2>2, <1>2
  <2> QED BY <2>3, <2>1, <1>2 DEF Carry
<1>9. counted' \in Nat /\ counted' \div Second \in Nat
  <2>1. counted' \in Nat
    BY <1>3, <1>8
  <2> QED BY <1>1, <2>1, Division
<1>10. clock' = [sec |-> counted' \div Second, nsec |-> counted' % Second]
  BY <1>5, <1>8
<1>11. q <= counted' \div Second
  BY <1>4, <1>5, <1>6, <1>8
<1>12. made.last <= counted' \div Second
  <2>1. made.last \in Nat /\ made.last <= q
    BY DEF Making
  <2> HIDE DEF q, TimerInv
  <2> QED BY <1>4, <1>9, <1>11, <2>1
<1>13. UNCHANGED <<pit, best, timer, copying, copy, left, elapsed, made, started, asked>> /\ ticks' \in Nat
  BY DEF PitIsr
<1> HIDE DEF q, r, d
<1> QED BY <1>9, <1>10, <1>12, <1>13 DEF ElapsedExact, Off

LEMMA BeginCopyKeeps ==
    ASSUME NEW caller \in {"start", "elapsed"}, TimerInv, BeginCopy(caller)
    PROVE  TimerInv'
<1>1. /\ copying' = caller /\ left' = Accesses
      /\ UNCHANGED <<clock, pit, best, timer, copy, elapsed, ticks, counted, made, started, asked>>
      /\ caller = "elapsed" => timer.now = "pit"
  BY DEF BeginCopy
<1>2. "low" \in Accesses /\ "high" \in Accesses /\ "nsec" \in Accesses
  BY DEF Accesses
<1>3. ElapsedExact' /\ Off' = Off
  BY <1>1 DEF TimerInv, ElapsedExact, Off
<1> QED BY <1>1, <1>2, <1>3 DEF TimerInv

\* One access: what has been read stays read, and the new part is read now.
LEMMA CopyPartKeeps ==
    ASSUME NEW p \in Accesses, TimerInv, CopyPart(p)
    PROVE  TimerInv'
<1>1. LowRange \in Nat \ {0} /\ Second \in Nat \ {0}
  BY TimerAssumption
<1>2. PICK n \in Nat : n = counted /\ counted \div Second \in Nat
  BY <1>1, Division DEF TimerInv
<1>3. PICK k \in Nat : k = n \div Second /\ clock = [sec |-> k, nsec |-> n % Second]
  BY <1>1, <1>2, Division DEF TimerInv
<1>4. /\ made.first \in Nat /\ made.at \in Nat /\ made.last \in Nat
      /\ made.first <= made.last /\ made.last <= k
      /\ made = [first |-> made.first, at |-> made.at, last |-> made.last]
  BY <1>2, <1>3 DEF TimerInv, Making
<1>5. PICK f \in Nat, a \in Nat :
        /\ f = IF left = Accesses THEN k ELSE made.first
        /\ a = IF p = "nsec" THEN n ELSE made.at
  BY ONLY <1>4
<1>6. /\ copying # "none" /\ p \in left
      /\ copy' = [copy EXCEPT ![p] = PartOf(clock)[p]]
      /\ left' = left \ {p}
      /\ made' = [first |-> f, at |-> a, last |-> k]
      /\ UNCHANGED <<clock, pit, best, timer, copying, elapsed, ticks, counted, started, asked>>
  BY <1>2, <1>3, <1>5 DEF CopyPart
<1>7. f <= k /\ (left # Accesses => f <= made.first)
  BY ONLY <1>4, <1>5
<1>8. /\ made' \in Making /\ made'.first <= made'.last /\ made'.last <= counted' \div Second
      /\ made'.first = f /\ made'.at = a /\ made'.last = k
  BY ONLY <1>2, <1>3, <1>6, <1>7 DEF Making
<1>9. /\ copy = [low |-> copy.low, high |-> copy.high, nsec |-> copy.nsec]
      /\ left \subseteq Accesses
      /\ "low" \notin left => LowRead(copy, made)
      /\ "high" \notin left => HighRead(copy, made)
      /\ "nsec" \notin left => NsecRead(copy, made)
  BY DEF TimerInv
<1>10. copy' = [low |-> copy'.low, high |-> copy'.high, nsec |-> copy'.nsec]
  BY <1>6, <1>9 DEF Accesses
<1>11. PartOf(clock) = [low |-> k % LowRange, high |-> k \div LowRange, nsec |-> n % Second]
  BY <1>3 DEF PartOf
<1>12. "low" \notin left' => LowRead(copy', made')
  <2>1. CASE p = "low"
    <3>1. copy'.low = k % LowRange
      BY <1>6, <1>9, <1>11, <2>1
    <3> QED BY <1>7, <1>8, <3>1 DEF LowRead
  <2>2. CASE p # "low" /\ "low" \notin left
    <3>1. copy'.low = copy.low /\ left # Accesses
      BY <1>6, <1>9, <2>2 DEF Accesses
    <3>2. PICK t \in Nat : made.first <= t /\ t <= made.last /\ copy.low = t % LowRange
      BY <1>9, <2>2 DEF LowRead
    <3>3. f <= t /\ t <= k
      BY ONLY <1>4, <1>5, <1>7, <3>1, <3>2
    <3> QED BY ONLY <1>8, <3>1, <3>2, <3>3 DEF LowRead
  <2> QED BY <1>6, <2>1, <2>2
<1>13. "high" \notin left' => HighRead(copy', made')
  <2>1. CASE p = "high"
    <3>1. copy'.high = k \div LowRange
      BY <1>6, <1>9, <1>11, <2>1
    <3> QED BY <1>7, <1>8, <3>1 DEF HighRead
  <2>2. CASE p # "high" /\ "high" \notin left
    <3>1. copy'.high = copy.high /\ left # Accesses
      BY <1>6, <1>9, <2>2 DEF Accesses
    <3>2. PICK t \in Nat : made.first <= t /\ t <= made.last /\ copy.high = t \div LowRange
      BY <1>9, <2>2 DEF HighRead
    <3>3. f <= t /\ t <= k
      BY ONLY <1>4, <1>5, <1>7, <3>1, <3>2
    <3> QED BY ONLY <1>8, <3>1, <3>2, <3>3 DEF HighRead
  <2> QED BY <1>6, <2>1, <2>2
<1>14. "nsec" \notin left' => NsecRead(copy', made')
  <2>1. CASE p = "nsec"
    <3>1. copy'.nsec = n % Second /\ a = n
      BY <1>5, <1>6, <1>9, <1>11, <2>1
    <3>2. a \div Second = k
      BY ONLY <1>3, <3>1
    <3> QED BY ONLY <1>2, <1>3, <1>7, <1>8, <3>1, <3>2 DEF NsecRead, InOrder
  <2>2. CASE p # "nsec" /\ "nsec" \notin left
    <3>1. copy'.nsec = copy.nsec /\ left # Accesses /\ a = made.at
      BY <1>5, <1>6, <1>9, <2>2 DEF Accesses
    <3>2. /\ made.first <= made.at \div Second /\ made.at \div Second <= made.last
          /\ copy.nsec = made.at % Second
      BY <1>9, <2>2 DEF NsecRead, InOrder
    <3>3. PICK d \in Nat : d = made.at \div Second
      BY ONLY <1>1, <1>4, Division
    <3>4. f <= d /\ d <= k
      BY ONLY <1>4, <1>5, <1>7, <3>1, <3>2, <3>3
    <3> QED BY ONLY <1>8, <3>1, <3>2, <3>3, <3>4 DEF NsecRead, InOrder
  <2> QED BY <1>6, <2>1, <2>2
<1>15. left' \subseteq Accesses
  BY <1>6, <1>9
<1>16. ElapsedExact'
  BY <1>6 DEF TimerInv, ElapsedExact, Off
<1>17. /\ counted' \in Nat /\ ticks' \in Nat
       /\ clock' = [sec |-> counted' \div Second, nsec |-> counted' % Second]
       /\ copying' \in {"none", "start", "elapsed"}
       /\ copying' = "elapsed" => timer'.now # "stub"
       /\ started' \in Making /\ asked' \in Making
       /\ timer' = [now |-> timer'.now, start |-> [sec |-> timer'.start.sec, nsec |-> timer'.start.nsec]]
       /\ CopyOf(timer'.start, started')
       /\ timer'.now = "stub" => timer'.start = Zero /\ asked' = started' /\ started' = Never
       /\ elapsed' \in [sec : Int, nsec : 0 .. Second - 1]
  BY <1>6 DEF TimerInv
<1> QED BY ONLY <1>8, <1>10, <1>12, <1>13, <1>14, <1>15, <1>16, <1>17 DEF TimerInv

\* When no copy is being made.
LEMMA NothingRead ==
    /\ LowRead(NoCopy, Never) /\ HighRead(NoCopy, Never) /\ NsecRead(NoCopy, Never)
    /\ Never \in Making /\ Never.first = 0 /\ Never.last = 0
    /\ NoCopy = [low |-> NoCopy.low, high |-> NoCopy.high, nsec |-> NoCopy.nsec]
<1>1. /\ 0 \div LowRange = 0 /\ 0 % LowRange = 0
      /\ 0 \div Second = 0 /\ 0 % Second = 0
  BY TimerAssumption
<1> QED BY <1>1 DEF LowRead, HighRead, NsecRead, InOrder, NoCopy, Never, Making

LEMMA StartTimerKeeps == TimerInv /\ StartTimer => TimerInv'
<1> SUFFICES ASSUME TimerInv, StartTimer PROVE TimerInv'
  OBVIOUS
<1>1. Second \in Nat \ {0} /\ 0 \in 0 .. Second - 1 /\ LowRange \in Nat \ {0}
  BY TimerAssumption
<1>2. /\ timer' = [now |-> "pit", start |-> Copy]
      /\ started' = made /\ asked' = made
      /\ elapsed' = Zero
      /\ copying' = "none" /\ copy' = NoCopy /\ made' = Never
      /\ UNCHANGED <<clock, pit, best, left, ticks, counted>>
      /\ left = {}
  BY DEF StartTimer
<1>3. CopyOf(Copy, made) /\ made \in Making /\ made.first <= made.last
  BY <1>2, CopyMade DEF TimerInv
<1>4. Copy = [sec |-> Copy.sec, nsec |-> Copy.nsec]
  BY DEF Copy
<1>5. timer'.start = Copy /\ timer'.now = "pit"
  BY <1>2
<1>6. timer' = [now |-> timer'.now, start |-> [sec |-> timer'.start.sec, nsec |-> timer'.start.nsec]]
  BY <1>2, <1>4
<1>7. elapsed'.sec = 0 /\ elapsed'.nsec = 0 /\ elapsed' \in [sec : Int, nsec : 0 .. Second - 1]
  BY <1>1, <1>2 DEF Zero
<1>8. ElapsedExact'
  <2>1. PICK m \in Nat : m = made.last - made.first
    BY <1>3 DEF Making
  <2>2. made.at \in Nat
    BY <1>3 DEF Making
  <2>3. Off' = 0
    BY <1>1, <1>2, <1>7, <2>2 DEF Off
  <2>4. Late(started)' = m /\ Late(asked)' = m
    BY <1>2, <2>1 DEF Late
  <2>5. 0 <= Second * (m + m) /\ 0 % Second = 0
    BY ONLY <1>1, <2>1
  <2> QED BY ONLY <1>7, <2>3, <2>4, <2>5, <1>1 DEF ElapsedExact
<1>9. made'.last <= counted' \div Second /\ made'.first <= made'.last
  <2>1. counted \in Nat
    BY DEF TimerInv
  <2>2. counted \div Second \in Nat
    BY ONLY <1>1, <2>1, Division
  <2> QED BY <1>2, <2>2, NothingRead
<1>10. CopyOf(timer'.start, started') /\ started' \in Making /\ asked' \in Making
  BY ONLY <1>2, <1>3, <1>5
<1>11. /\ LowRead(copy', made') /\ HighRead(copy', made') /\ NsecRead(copy', made')
       /\ made' \in Making
       /\ copy' = [low |-> copy'.low, high |-> copy'.high, nsec |-> copy'.nsec]
  BY ONLY <1>2, NothingRead
<1>12. /\ counted' \in Nat /\ ticks' \in Nat
       /\ clock' = [sec |-> counted' \div Second, nsec |-> counted' % Second]
       /\ left' \subseteq Accesses
  BY <1>2 DEF TimerInv
<1> QED BY ONLY <1>2, <1>5, <1>6, <1>7, <1>8, <1>9, <1>10, <1>11, <1>12 DEF TimerInv

\* What elapses between two copies is off by the difference of their seconds.
LEMMA CopiesApart ==
    ASSUME NEW n \in Nat, NEW s \in Nat, NEW x \in Making, NEW y \in Making,
           NEW z \in Int,
           InOrder(x), InOrder(y),
           HighStands(x) => x.first <= n /\ n <= x.last,
           HighStands(y) => y.first <= s /\ s <= y.last,
           z = (n * Second + (x.at % Second)) - (s * Second + (y.at % Second)) - (x.at - y.at)
    PROVE  /\ z % Second = 0
           /\ HighStands(y) /\ HighStands(x) => /\ z <= Second * (Late(y) + Late(x))
                                                /\ -z <= Second * (Late(y) + Late(x))
<1>1. Second \in Nat \ {0}
  BY TimerAssumption
<1>2. PICK a \in Nat, b \in Nat, xf \in Nat, xl \in Nat, yf \in Nat, yl \in Nat :
        /\ a = x.at /\ b = y.at /\ xf = x.first /\ xl = x.last /\ yf = y.first /\ yl = y.last
  BY DEF Making
<1>3. PICK qa \in Nat, ra \in 0 .. Second - 1 : qa = a \div Second /\ ra = a % Second /\ a = Second * qa + ra
  BY ONLY <1>1, <1>2, Division
<1>4. PICK qb \in Nat, rb \in 0 .. Second - 1 : qb = b \div Second /\ rb = b % Second /\ b = Second * qb + rb
  BY ONLY <1>1, <1>2, Division
<1>5. PICK k \in Int : k = (n - qa) - (s - qb)
  BY ONLY <1>3, <1>4, n \in Nat, s \in Nat
<1>6. z = (n * Second + ra) - (s * Second + rb) - (a - b)
  BY ONLY <1>2, <1>3, <1>4, z = (n * Second + (x.at % Second)) - (s * Second + (y.at % Second)) - (x.at - y.at)
<1>7. z = Second * k
  <2>1. z = (n * Second + ra) - (s * Second + rb) - ((Second * qa + ra) - (Second * qb + rb))
    BY ONLY <1>3, <1>4, <1>6
  <2> QED BY ONLY <1>1, <1>3, <1>4, <1>5, <2>1, n \in Nat, s \in Nat
<1>8. z % Second = 0
  BY ONLY <1>1, <1>5, <1>7
<1>9. ASSUME HighStands(y), HighStands(x)
      PROVE  z <= Second * (Late(y) + Late(x)) /\ -z <= Second * (Late(y) + Late(x))
  <2>1. xf <= n /\ n <= xl /\ yf <= s /\ s <= yl
    BY <1>2, <1>9
  <2>2. xf <= qa /\ qa <= xl /\ yf <= qb /\ qb <= yl
    BY <1>2, <1>3, <1>4 DEF InOrder
  <2>3. PICK m \in Nat : m = (yl - yf) + (xl - xf)
    BY ONLY <1>2, <2>1, n \in Nat, s \in Nat
  <2>4. Late(y) + Late(x) = m
    BY <1>2, <2>3 DEF Late
  <2>5. k <= m /\ -k <= m
    <3>1. xf \in Nat /\ xl \in Nat /\ yf \in Nat /\ yl \in Nat /\ qa \in Nat /\ qb \in Nat
      BY ONLY <1>2, <1>3, <1>4
    <3> QED BY ONLY <1>5, <2>1, <2>2, <2>3, <3>1, n \in Nat, s \in Nat
  <2>6. Second * k <= Second * m /\ -(Second * k) <= Second * m
    <3>1. Second * (m - k) \in Nat /\ Second * (m + k) \in Nat
      <4>1. m - k \in Nat /\ m + k \in Nat
        BY ONLY <1>5, <2>3, <2>5
      <4> QED BY ONLY <1>1, <4>1
    <3>2. Second * (m - k) = Second * m - Second * k /\ Second * (m + k) = Second * m + Second * k
      BY ONLY <1>1, <1>5, <2>3
    <3>3. Second * m \in Int /\ Second * k \in Int
      BY ONLY <1>1, <1>5, <2>3
    <3> QED BY ONLY <3>1, <3>2, <3>3
  <2> QED BY ONLY <1>7, <2>4, <2>6
<1> QED BY <1>8, <1>9

LEMMA TimerElapsedKeeps == TimerInv /\ TimerElapsed => TimerInv'
<1> SUFFICES ASSUME TimerInv, TimerElapsed PROVE TimerInv'
  OBVIOUS
<1>1. Second \in Nat \ {0}
  BY TimerAssumption
<1>2. /\ elapsed' = Elapsed(Copy, timer.start) /\ asked' = made
      /\ copying' = "none" /\ copy' = NoCopy /\ made' = Never
      /\ UNCHANGED <<clock, pit, best, timer, left, ticks, counted, started>>
      /\ left = {} /\ copying = "elapsed"
  BY DEF TimerElapsed
<1>3. CopyOf(Copy, made) /\ made \in Making
  BY <1>2, CopyMade DEF TimerInv
<1>4. Copy = [sec |-> Copy.sec, nsec |-> Copy.nsec]
  BY DEF Copy
<1>5. /\ timer.start = [sec |-> timer.start.sec, nsec |-> timer.start.nsec]
      /\ CopyOf(timer.start, started) /\ started \in Making
      /\ timer.now # "stub"
  BY <1>2 DEF TimerInv
<1>6. PICK n \in Nat, s \in Nat, x \in 0 .. Second - 1, y \in 0 .. Second - 1 :
        /\ n = Copy.sec /\ s = timer.start.sec /\ x = Copy.nsec /\ y = timer.start.nsec
        /\ x = made.at % Second /\ y = started.at % Second
  <2>1. made.at \in Nat /\ started.at \in Nat
    BY <1>3, <1>5 DEF Making
  <2>2. made.at % Second \in 0 .. Second - 1 /\ started.at % Second \in 0 .. Second - 1
    BY ONLY <1>1, <2>1, Division
  <2> QED BY <1>3, <1>5, <2>2 DEF CopyOf
<1>7. elapsed' = Elapsed([sec |-> n, nsec |-> x], [sec |-> s, nsec |-> y])
  BY ONLY <1>2, <1>4, <1>5, <1>6
<1>8. /\ elapsed' \in [sec : Int, nsec : 0 .. Second - 1]
      /\ elapsed'.sec * Second + elapsed'.nsec = (n * Second + x) - (s * Second + y)
  BY <1>7, ElapsedBorrows
<1>9. made.at \in Nat /\ started.at \in Nat
  BY <1>3, <1>5 DEF Making
<1>10. PICK z \in Int : z = (n * Second + x) - (s * Second + y) - (made.at - started.at)
  BY ONLY <1>1, <1>6, <1>9
<1>11. Off' = z
  BY ONLY <1>2, <1>8, <1>10 DEF Off
<1>12. z = (n * Second + (made.at % Second)) - (s * Second + (started.at % Second)) - (made.at - started.at)
  BY ONLY <1>6, <1>10
<1>13. /\ InOrder(made) /\ InOrder(started)
       /\ HighStands(made) => made.first <= n /\ n <= made.last
       /\ HighStands(started) => started.first <= s /\ s <= started.last
  BY ONLY <1>3, <1>5, <1>6 DEF CopyOf
<1>14. /\ z % Second = 0
       /\ HighStands(started) /\ HighStands(made) => /\ z <= Second * (Late(started) + Late(made))
                                                     /\ -z <= Second * (Late(started) + Late(made))
  BY ONLY <1>3, <1>5, <1>6, <1>10, <1>12, <1>13, CopiesApart
<1>15. ElapsedExact'
  <2>1. started' = started /\ asked' = made
    BY <1>2
  <2>2. /\ Late(started') = Late(started) /\ Late(asked') = Late(made)
        /\ HighStands(started') = HighStands(started) /\ HighStands(asked') = HighStands(made)
    BY ONLY <2>1
  <2>3. elapsed'.nsec \in 0 .. Second - 1
    BY ONLY <1>8
  <2> QED BY ONLY <1>11, <1>14, <2>2, <2>3 DEF ElapsedExact
<1>16. made'.last <= counted' \div Second /\ made'.first <= made'.last
  <2>1. counted \in Nat
    BY DEF TimerInv
  <2>2. counted \div Second \in Nat
    BY ONLY <1>1, <2>1, Division
  <2> QED BY <1>2, <2>2, NothingRead
<1>17. /\ LowRead(copy', made') /\ HighRead(copy', made') /\ NsecRead(copy', made')
       /\ made' \in Making
       /\ copy' = [low |-> copy'.low, high |-> copy'.high, nsec |-> copy'.nsec]
  BY ONLY <1>2, NothingRead
<1>18. /\ counted' \in Nat /\ ticks' \in Nat
       /\ clock' = [sec |-> counted' \div Second, nsec |-> counted' % Second]
       /\ left' \subseteq Accesses
       /\ started' \in Making
       /\ timer' = [now |-> timer'.now, start |-> [sec |-> timer'.start.sec, nsec |-> timer'.start.nsec]]
       /\ CopyOf(timer'.start, started')
  BY <1>2 DEF TimerInv
<1>19. timer'.now # "stub" /\ asked' \in Making /\ copying' = "none"
  BY ONLY <1>2, <1>3, <1>5
<1> QED BY ONLY <1>8, <1>15, <1>16, <1>17, <1>18, <1>19 DEF TimerInv

LEMMA DormantElapsedKeeps == TimerInv /\ DormantElapsed => TimerInv'
<1> SUFFICES ASSUME TimerInv, DormantElapsed PROVE TimerInv'
  OBVIOUS
<1>1. Second \in Nat \ {0}
  BY TimerAssumption
<1>2. /\ timer.start = Zero /\ asked = started /\ started = Never
      /\ elapsed' = Elapsed(Zero, timer.start)
      /\ UNCHANGED <<clock, pit, best, timer, copying, copy, left, ticks, counted, made, started, asked>>
  BY DEF DormantElapsed, TimerInv
<1>3. Elapsed(Zero, Zero) = Zero
  BY DEF Elapsed, Zero
<1>4. elapsed' = [sec |-> 0, nsec |-> 0]
  BY <1>2, <1>3 DEF Zero
<1>5. elapsed'.sec = 0 /\ elapsed'.nsec = 0 /\ elapsed' \in [sec : Int, nsec : 0 .. Second - 1]
  BY <1>1, <1>4
<1>6. ElapsedExact'
  <2>1. Off' = 0
    BY <1>1, <1>2, <1>5 DEF Off, Never
  <2>2. Late(started)' = 0 /\ Late(asked)' = 0
    BY <1>2 DEF Late, Never
  <2>3. 0 % Second = 0 /\ Second * (0 + 0) = 0
    BY <1>1
  <2> QED BY ONLY <1>1, <1>5, <2>1, <2>2, <2>3 DEF ElapsedExact
<1> QED BY <1>2, <1>5, <1>6 DEF TimerInv

LEMMA TimerKeeps == TimerInv /\ (TimerNext \/ UNCHANGED timerVars) => TimerInv'
<1> SUFFICES ASSUME TimerInv, TimerNext \/ UNCHANGED timerVars PROVE TimerInv'
  OBVIOUS
<1>1. CASE RegisterPit \/ UnregisterPit
  BY <1>1 DEF RegisterPit, UnregisterPit, TimerInv, ElapsedExact, Off
<1>2. CASE TimekeepInit
  BY <1>2 DEF TimekeepInit, TimerInv, ElapsedExact, Off
<1>3. CASE UNCHANGED timerVars
  BY <1>3 DEF timerVars, TimerInv, ElapsedExact, Off
<1> QED BY <1>1, <1>2, <1>3, PitIsrKeeps, BeginCopyKeeps, CopyPartKeeps, StartTimerKeeps, TimerElapsedKeeps,
            DormantElapsedKeeps DEF TimerNext

\* ElapsedExact for every length of the second, every tick and every rounding
\* of it, every half word and any number of interrupts: a timer is exact when
\* no second passed between the accesses of its copies of the clock, whatever
\* their order, and torn copies put it off by whole seconds, at most those
\* that passed unless the low half wrapped (pit_isr, pit_now, timer_elapsed).
THEOREM TimersStayExact == Spec => []ElapsedExact
<1>1. Init => TimerInv
  BY TimerInitial DEF Init
<1>2. TimerInv /\ [Next]_vars => TimerInv'
  <2> SUFFICES ASSUME TimerInv, [Next]_vars PROVE TimerInv'
    OBVIOUS
  <2>1. TimerNext \/ UNCHANGED timerVars
    BY DEF Next, vars
  <2> QED BY <2>1, TimerKeeps
<1>3. TimerInv => ElapsedExact
  BY DEF TimerInv
<1> QED BY <1>1, <1>2, <1>3, PTL DEF Spec

-----------------------------------------------------------------------------
(* The stages of the boot (Boot).                                          *)

Frames == Seq([mod : Index, asked : Nat])

\* Some initialised module of that name is referenced.
Provided(name) == \E j \in initialized : Modules[j].name = name /\ refcount[j] > 0

\* The module of a frame, and what it depends on.
ModOf(p)   == stack[p].mod
NeedsOf(p) == Modules[ModOf(p)].needs

\* A main that is running has what it asked for, and is not initialised.
Running(p) ==
    /\ ModOf(p) \in seen /\ ModOf(p) \notin initialized
    /\ stack[p].asked <= Len(NeedsOf(p))
    /\ \A k \in 1 .. stack[p].asked : Provided(NeedsOf(p)[k])

\* It waits for the one above it.
Waiting(p) ==
    /\ stack[p].asked < Len(NeedsOf(p))
    /\ Modules[ModOf(p + 1)].name = NeedsOf(p)[stack[p].asked + 1]

\* The mains that are running are not initialised, each waits for the one
\* above it, and what each has asked for is initialised; a module that was
\* reached has been tried.
StagesInv ==
    /\ stage \in 1 .. 4 /\ cursor \in Nat \ {0} /\ stack \in Frames
    /\ initialized \subseteq Index /\ initialized \subseteq seen /\ seen \subseteq Index
    /\ refcount \in [Index -> Nat] /\ successes \in [Index -> Nat]
    /\ \A p \in 1 .. Len(stack) : Running(p) /\ (p < Len(stack) => Waiting(p))
    /\ \A i \in Index : Modules[i].stage = stage /\ i < cursor => i \in seen
    /\ ModulesOnce

LEMMA ModuleTypes ==
    /\ Index = 1 .. Len(Modules) /\ Len(Modules) \in Nat
    /\ \A i \in Index : /\ Modules[i].stage \in 1 .. 3
                        /\ Modules[i].needs \in Seq(STRING)
                        /\ Len(Modules[i].needs) \in Nat
                        /\ DOMAIN Modules[i].needs = 1 .. Len(Modules[i].needs)
    /\ \A i, j \in Index : Modules[i].name = Modules[j].name => i = j
<1>1. Modules \in Seq([name : STRING, stage : 1 .. 3, needs : Seq(STRING)])
  BY BootAssumption
<1>2. Index = 1 .. Len(Modules) /\ Len(Modules) \in Nat
  BY <1>1 DEF Index
<1>3. \A i \in Index : Modules[i] \in [name : STRING, stage : 1 .. 3, needs : Seq(STRING)]
  BY <1>1, <1>2, Elements
<1>4. \A i \in Index : Modules[i].stage \in 1 .. 3 /\ Modules[i].needs \in Seq(STRING)
  BY <1>3
<1>5. \A i \in Index : Len(Modules[i].needs) \in Nat /\ DOMAIN Modules[i].needs = 1 .. Len(Modules[i].needs)
  BY <1>4
<1> QED BY <1>2, <1>4, <1>5, BootAssumption

LEMMA StagesInitial == BootInit => StagesInv
<1> SUFFICES ASSUME BootInit PROVE StagesInv
  OBVIOUS
<1>1. stack \in Frames /\ Len(stack) = 0
  BY DEF BootInit, Frames
<1>2. \A i \in Index : ~(Modules[i].stage < 1) /\ ~(i < 1)
  BY ModuleTypes
<1>3. ModulesOnce
  BY <1>2 DEF BootInit, ModulesOnce
<1> QED BY <1>1, <1>2, <1>3 DEF BootInit, StagesInv

\* mod_builtin_init_stage.
LEMMA LookAtModuleKeeps == StagesInv /\ LookAtModule => StagesInv'
<1> SUFFICES ASSUME StagesInv, LookAtModule PROVE StagesInv'
  OBVIOUS
<1>1. /\ stage \in 1 .. 3 /\ stack = <<>> /\ cursor \in Index
      /\ cursor' = cursor + 1
      /\ UNCHANGED <<stage, initialized, refcount, successes, table, answer>>
  BY DEF LookAtModule
<1>2. CASE Modules[cursor].stage = stage /\ MustInit(cursor)
  <2>1. stack' = <<[mod |-> cursor, asked |-> 0]>> /\ seen' = seen \cup {cursor} /\ cursor \notin initialized
    BY <1>1, <1>2 DEF LookAtModule, Call, MustInit
  <2>2. stack' \in Frames /\ Len(stack') = 1 /\ stack'[1].mod = cursor /\ stack'[1].asked = 0
    BY <1>1, <2>1 DEF Frames
  <2>3. Len(Modules[cursor].needs) \in Nat
    BY <1>1, ModuleTypes
  <2>4. \A i \in Index : Modules[i].stage = stage' /\ i < cursor' => i \in seen'
    BY <1>1, <2>1, ModuleTypes DEF StagesInv
  <2>5. ModulesOnce'
    BY <1>1, <2>1 DEF StagesInv, ModulesOnce
  <2> QED BY <1>1, <2>1, <2>2, <2>3, <2>4, <2>5 DEF StagesInv, Running, ModOf, NeedsOf
<1>3. CASE ~(Modules[cursor].stage = stage /\ MustInit(cursor))
  <2>1. stack' = stack /\ seen' = seen
    BY <1>3 DEF LookAtModule
  <2>2. \A i \in Index : Modules[i].stage = stage' /\ i < cursor' => i \in seen'
    BY <1>1, <1>3, <2>1, ModuleTypes DEF StagesInv, MustInit
  <2>3. ModulesOnce'
    BY <1>1, <2>1 DEF StagesInv, ModulesOnce
  <2>4. \A p \in 1 .. Len(stack') : FALSE
    BY <1>1, <2>1
  <2>5. /\ stage' \in 1 .. 4 /\ cursor' \in Nat \ {0} /\ stack' \in Frames
        /\ initialized' \subseteq Index /\ initialized' \subseteq seen' /\ seen' \subseteq Index
        /\ refcount' \in [Index -> Nat] /\ successes' \in [Index -> Nat]
    BY <1>1, <2>1 DEF StagesInv
  <2> QED BY ONLY <2>2, <2>3, <2>4, <2>5 DEF StagesInv
<1> QED BY <1>2, <1>3

LEMMA EndStageKeeps == StagesInv /\ EndStage => StagesInv'
<1> SUFFICES ASSUME StagesInv, EndStage PROVE StagesInv'
  OBVIOUS
<1>1. /\ stage \in 1 .. 3 /\ stack = <<>> /\ cursor \notin Index
      /\ stage' = stage + 1 /\ cursor' = 1
      /\ UNCHANGED <<stack, initialized, refcount, successes, seen, table, answer>>
  BY DEF EndStage
<1>2. \A i \in Index : i < cursor
  BY <1>1, ModuleTypes DEF StagesInv
<1>3. \A i \in Index : Modules[i].stage < stage' => i \in seen'
  <2>1. \A i \in Index : Modules[i].stage < stage' => Modules[i].stage < stage \/ Modules[i].stage = stage
    BY <1>1, ModuleTypes
  <2>2. \A i \in Index : Modules[i].stage = stage => i \in seen
    BY <1>2 DEF StagesInv
  <2>3. \A i \in Index : Modules[i].stage < stage => i \in seen
    BY DEF StagesInv, ModulesOnce
  <2> QED BY <1>1, <2>1, <2>2, <2>3
<1>4. ModulesOnce'
  BY <1>1, <1>3 DEF StagesInv, ModulesOnce
<1>5. \A i \in Index : ~(i < cursor')
  BY <1>1, ModuleTypes
<1>6. \A p \in 1 .. Len(stack') : FALSE
  BY <1>1
<1> QED BY <1>1, <1>4, <1>5, <1>6 DEF StagesInv

LEMMA FrameTypes ==
    ASSUME StagesInv
    PROVE  /\ Len(stack) \in Nat
           /\ \A p \in 1 .. Len(stack) :
                /\ stack[p] = [mod |-> ModOf(p), asked |-> stack[p].asked]
                /\ ModOf(p) \in Index /\ stack[p].asked \in Nat
                /\ Len(NeedsOf(p)) \in Nat
<1>1. stack \in Seq([mod : Index, asked : Nat])
  BY DEF StagesInv, Frames
<1>2. Len(stack) \in Nat
  BY <1>1
<1>3. ASSUME NEW p \in 1 .. Len(stack)
      PROVE  stack[p] \in [mod : Index, asked : Nat]
  BY <1>1, Elements
<1>4. ASSUME NEW p \in 1 .. Len(stack)
      PROVE  /\ stack[p] = [mod |-> ModOf(p), asked |-> stack[p].asked]
             /\ ModOf(p) \in Index /\ stack[p].asked \in Nat
  BY <1>3 DEF ModOf
<1> QED BY <1>2, <1>4, ModuleTypes DEF NeedsOf

\* mod_builtin_depends_on, of a module that is not initialised.
LEMMA AsksInitialises ==
    ASSUME StagesInv, DependsOn,
           NEW i \in Named(Needs[Top.asked + 1]), i \notin initialized,
           stack # <<>>, Top.asked < Len(Needs),
           stack' = Call(stack, i), seen' = seen \cup {i},
           UNCHANGED <<stage, cursor, initialized, refcount, successes>>
    PROVE  StagesInv'
<1>0. PICK n : n = Len(stack)
  OBVIOUS
<1> USE <1>0
<1>1. stack \in Frames /\ n \in Nat \ {0} /\ i \in Index
  <2>1. stack \in Seq([mod : Index, asked : Nat])
    BY DEF StagesInv, Frames
  <2> QED BY <2>1 DEF Named, Frames
<1>2. stack' = Append(stack, [mod |-> i, asked |-> 0])
  BY DEF Call
<1>3. stack' \in Frames /\ Len(stack') = n + 1
  BY <1>1, <1>2 DEF Frames
<1>4. (\A p \in 1 .. n : stack'[p] = stack[p]) /\ stack'[n + 1] = [mod |-> i, asked |-> 0]
  BY <1>1, <1>2 DEF Frames
<1>5. \A name : Provided(name)' <=> Provided(name)
  BY DEF Provided
<1>6. ASSUME NEW p \in 1 .. n PROVE Running(p)'
  <2>1. ModOf(p)' = ModOf(p) /\ NeedsOf(p)' = NeedsOf(p) /\ stack'[p].asked = stack[p].asked
    BY <1>4 DEF ModOf, NeedsOf
  <2>2. Running(p)
    BY DEF StagesInv
  <2> QED BY <1>5, <2>1, <2>2 DEF Running
<1>7. Running(n + 1)'
  <2>1. ModOf(n + 1)' = i /\ NeedsOf(n + 1)' = Modules[i].needs /\ stack'[n + 1].asked = 0
    BY <1>4 DEF ModOf, NeedsOf
  <2>2. Len(Modules[i].needs) \in Nat
    BY <1>1, ModuleTypes
  <2> QED BY <2>1, <2>2 DEF Running
<1>8. ASSUME NEW p \in 1 .. n, p # n PROVE Waiting(p)'
  <2>1. p \in 1 .. n /\ p + 1 \in 1 .. n /\ p < n
    BY <1>1, <1>8
  <2>2. ModOf(p)' = ModOf(p) /\ NeedsOf(p)' = NeedsOf(p) /\ stack'[p].asked = stack[p].asked /\ ModOf(p + 1)' = ModOf(p + 1)
    BY <1>4, <2>1 DEF ModOf, NeedsOf
  <2>3. Waiting(p)
    BY <2>1 DEF StagesInv
  <2> QED BY <2>2, <2>3 DEF Waiting
<1>9. Waiting(n)'
  <2>1. ModOf(n)' = ModOf(n) /\ NeedsOf(n)' = NeedsOf(n) /\ stack'[n].asked = stack[n].asked /\ ModOf(n + 1)' = i
    BY <1>1, <1>4 DEF ModOf, NeedsOf
  <2>2. Top = stack[n] /\ Needs = NeedsOf(n)
    BY DEF Top, Needs, NeedsOf, ModOf
  <2>3. Modules[i].name = NeedsOf(n)[stack[n].asked + 1]
    BY <2>2 DEF Named
  <2> QED BY <2>1, <2>2, <2>3 DEF Waiting
<1>10. \A p \in 1 .. Len(stack') : Running(p)' /\ (p < Len(stack') => Waiting(p)')
  <2> SUFFICES ASSUME NEW p \in 1 .. n + 1 PROVE Running(p)' /\ (p < n + 1 => Waiting(p)')
    BY <1>3
  <2>1. CASE p = n + 1
    BY <1>1, <1>7, <2>1
  <2>2. CASE p = n
    BY <1>1, <1>6, <1>9, <2>2
  <2>3. CASE p \in 1 .. n /\ p # n
    BY <1>6, <1>8, <2>3
  <2> QED BY <1>1, <2>1, <2>2, <2>3
<1>11. ModulesOnce'
  BY DEF StagesInv, ModulesOnce
<1>12. /\ stage' \in 1 .. 4 /\ cursor' \in Nat \ {0}
       /\ initialized' \subseteq Index /\ initialized' \subseteq seen' /\ seen' \subseteq Index
       /\ refcount' \in [Index -> Nat] /\ successes' \in [Index -> Nat]
       /\ \A j \in Index : Modules[j].stage = stage' /\ j < cursor' => j \in seen'
  BY <1>1 DEF StagesInv
<1> QED BY <1>3, <1>10, <1>11, <1>12 DEF StagesInv

\* mod_builtin_depends_on, of a module that is.
LEMMA AsksCounts ==
    ASSUME StagesInv, DependsOn,
           NEW i \in Named(Needs[Top.asked + 1]), i \in initialized,
           stack # <<>>, Top.asked < Len(Needs),
           refcount' = [refcount EXCEPT ![i] = @ + 1],
           stack' = [stack EXCEPT ![Len(stack)].asked = @ + 1],
           UNCHANGED <<stage, cursor, initialized, successes, seen>>
    PROVE  StagesInv'
<1>0. PICK n : n = Len(stack)
  OBVIOUS
<1> USE <1>0
<1>1. stack \in Frames /\ n \in Nat \ {0} /\ i \in Index
  <2>1. stack \in Seq([mod : Index, asked : Nat])
    BY DEF StagesInv, Frames
  <2> QED BY <2>1 DEF Named, Frames
<1>2. refcount' \in [Index -> Nat] /\ refcount'[i] > 0 /\ \A j \in Index : refcount'[j] >= refcount[j]
  BY <1>1 DEF StagesInv
<1>3. /\ stack[n].mod \in Index /\ stack[n].asked \in Nat
      /\ stack[n] = [mod |-> stack[n].mod, asked |-> stack[n].asked]
  <2>1. n \in 1 .. Len(stack)
    BY <1>1
  <2> QED BY <2>1, FrameTypes DEF ModOf
<1>4. stack' = [stack EXCEPT ![n] = [mod |-> stack[n].mod, asked |-> stack[n].asked + 1]]
  <2>1. [stack[n] EXCEPT !.asked = @ + 1] = [mod |-> stack[n].mod, asked |-> stack[n].asked + 1]
    BY <1>3
  <2>2. stack' = [stack EXCEPT ![n] = [stack[n] EXCEPT !.asked = @ + 1]]
    OBVIOUS
  <2> QED BY <2>1, <2>2
<1>5. stack' \in Frames /\ Len(stack') = n
  BY <1>1, <1>3, <1>4 DEF Frames
<1>6. (\A p \in 1 .. n : p # n => stack'[p] = stack[p])
      /\ stack'[n] = [mod |-> stack[n].mod, asked |-> stack[n].asked + 1]
  BY <1>1, <1>4 DEF Frames
<1>7. \A name : Provided(name) => Provided(name)'
  <2> SUFFICES ASSUME NEW name, Provided(name) PROVE Provided(name)'
    OBVIOUS
  <2>1. PICK j \in initialized : Modules[j].name = name /\ refcount[j] > 0
    BY DEF Provided
  <2>2. j \in Index /\ refcount[j] \in Nat /\ refcount'[j] \in Nat
    BY <1>2 DEF StagesInv
  <2>3. refcount'[j] > 0
    BY <1>2, <2>1, <2>2
  <2> QED BY <2>1, <2>3 DEF Provided
<1>8. \A p \in 1 .. n : ModOf(p)' = ModOf(p) /\ NeedsOf(p)' = NeedsOf(p)
  BY <1>6 DEF ModOf, NeedsOf
<1>9. ASSUME NEW p \in 1 .. n, p # n PROVE Running(p)' /\ Waiting(p)'
  <2>1. p \in 1 .. n /\ p + 1 \in 1 .. n /\ p < n
    BY <1>1, <1>9
  <2>2. Running(p) /\ Waiting(p)
    BY <2>1 DEF StagesInv
  <2>3. stack'[p] = stack[p]
    BY <1>6, <1>9
  <2>4. Running(p)'
    BY <1>7, <1>8, <2>2, <2>3 DEF Running
  <2>5. Waiting(p)'
    BY <1>8, <2>1, <2>2, <2>3 DEF Waiting
  <2> QED BY <2>4, <2>5
<1>10. Running(n)'
  <2>1. PICK w, a : w = NeedsOf(n) /\ a = stack[n].asked
    OBVIOUS
  <2>2. Top = stack[n] /\ Needs = w
    BY <2>1 DEF Top, Needs, NeedsOf, ModOf
  <2>3. Provided(w[a + 1])'
    BY <1>2, <2>1, <2>2 DEF Named, Provided
  <2>4. Running(n)
    BY <1>1 DEF StagesInv
  <2>5. ModOf(n)' = ModOf(n) /\ NeedsOf(n)' = w /\ stack'[n].asked = a + 1
    BY <1>1, <1>6, <1>8, <2>1
  <2>6. a \in Nat /\ a + 1 <= Len(w) /\ Len(w) \in Nat
    BY <1>1, <1>3, <2>1, <2>2, FrameTypes
  <2>7. \A k \in 1 .. a + 1 : Provided(w[k])'
    <3> SUFFICES ASSUME NEW k \in 1 .. a + 1 PROVE Provided(w[k])'
      OBVIOUS
    <3>1. CASE k = a + 1
      BY <2>3, <3>1
    <3>2. CASE k \in 1 .. a
      BY <1>7, <2>1, <2>4, <3>2 DEF Running
    <3> QED BY <2>6, <3>1, <3>2
  <2> QED BY <2>4, <2>5, <2>6, <2>7 DEF Running
<1>11. \A p \in 1 .. Len(stack') : Running(p)' /\ (p < Len(stack') => Waiting(p)')
  BY <1>1, <1>5, <1>9, <1>10
<1>12. ModulesOnce'
  <2>1. \A j \in initialized : \A k \in DOMAIN Modules[j].needs : Provided(Modules[j].needs[k])'
    BY <1>7 DEF StagesInv, ModulesOnce, Provided
  <2> QED BY <2>1 DEF StagesInv, ModulesOnce, Provided
<1>13. /\ stage' \in 1 .. 4 /\ cursor' \in Nat \ {0}
       /\ initialized' \subseteq Index /\ initialized' \subseteq seen' /\ seen' \subseteq Index
       /\ successes' \in [Index -> Nat]
       /\ \A j \in Index : Modules[j].stage = stage' /\ j < cursor' => j \in seen'
  BY <1>1 DEF StagesInv
<1> QED BY <1>2, <1>5, <1>11, <1>12, <1>13 DEF StagesInv

\* The main that ends runs nowhere below: what waits there for one of its
\* dependencies would not be initialised, and the main that ends has all of
\* them.  So no cycle of dependencies initialises a module twice.
LEMMA NotBelow ==
    ASSUME StagesInv, NEW n, n = Len(stack), stack # <<>>, Top.asked = Len(Needs),
           NEW q \in 1 .. n, q # n
    PROVE  ModOf(q) # ModOf(n)
<1> SUFFICES ASSUME ModOf(q) = ModOf(n) PROVE FALSE
  OBVIOUS
<1>1. n \in Nat \ {0} /\ q < n /\ q + 1 \in 1 .. n /\ n \in 1 .. n
  <2>1. stack \in Seq([mod : Index, asked : Nat])
    BY DEF StagesInv, Frames
  <2> QED BY <2>1
<1>2. Running(n) /\ Waiting(q) /\ Running(q + 1)
  BY <1>1 DEF StagesInv
<1>3. NeedsOf(q) = NeedsOf(n) /\ stack[n].asked = Len(NeedsOf(n))
  BY DEF NeedsOf, Top, Needs, ModOf
<1>4. stack[q].asked \in Nat /\ Len(NeedsOf(n)) \in Nat /\ ModOf(q + 1) \in Index
  BY <1>1, FrameTypes
<1>5. stack[q].asked + 1 \in 1 .. Len(NeedsOf(n))
  BY <1>2, <1>3, <1>4 DEF Waiting
<1>6. Provided(NeedsOf(q)[stack[q].asked + 1])
  BY <1>2, <1>3, <1>5 DEF Running
<1>7. PICK j \in initialized : Modules[j].name = NeedsOf(q)[stack[q].asked + 1]
  BY <1>6 DEF Provided
<1>8. j \in Index /\ Modules[j].name = Modules[ModOf(q + 1)].name
  BY <1>2, <1>7 DEF Waiting, StagesInv
<1>9. j = ModOf(q + 1)
  BY <1>4, <1>8, ModuleTypes
<1> QED BY <1>2, <1>7, <1>9 DEF Running

\* The end of mod_builtin_init, and of mod_builtin_depends_on below it.
LEMMA MainSucceedsKeeps == StagesInv /\ MainSucceeds => StagesInv'
<1> SUFFICES ASSUME StagesInv, MainSucceeds PROVE StagesInv'
  OBVIOUS
<1>0. PICK n, t : n = Len(stack) /\ t = ModOf(n)
  OBVIOUS
<1>1. stack \in Seq([mod : Index, asked : Nat]) /\ n \in Nat
  BY <1>0 DEF StagesInv, Frames
<1>2. stack # <<>> /\ Top.asked = Len(Needs)
  BY DEF MainSucceeds
<1>3. n \in Nat \ {0} /\ n \in 1 .. Len(stack)
  BY <1>0, <1>1, <1>2
<1>4. t \in Index /\ Top.mod = t /\ stack[n].asked = Len(NeedsOf(n)) /\ NeedsOf(n) = Modules[t].needs
  BY <1>0, <1>2, <1>3, FrameTypes DEF Top, Needs, NeedsOf, ModOf
<1>5. Running(n)
  BY <1>0, <1>3 DEF StagesInv
<1>6. t \in seen /\ t \notin initialized /\ \A k \in 1 .. Len(Modules[t].needs) : Provided(Modules[t].needs[k])
  BY <1>0, <1>4, <1>5 DEF Running
<1>7. \A q \in 1 .. n : q # n => ModOf(q) # t
  BY <1>0, <1>2, NotBelow
<1> DEFINE below == SubSeq(stack, 1, n - 1)
<1>8. /\ Front(stack) = below /\ Len(below) = n - 1 /\ below \in Seq([mod : Index, asked : Nat])
      /\ \A p \in 1 .. n - 1 : below[p] = stack[p]
  <2>1. Front(stack) = below
    BY <1>0 DEF Front
  <2>2. \A p \in 1 .. n - 1 : stack[p] \in [mod : Index, asked : Nat]
    <3> TAKE p \in 1 .. n - 1
    <3>1. p \in 1 .. Len(stack)
      BY <1>0, <1>1
    <3> QED BY <1>1, <3>1, Elements
  <2>3. below = [p \in 1 .. n - 1 |-> stack[p]] /\ Len(below) = n - 1
    BY <1>0, <1>1, <1>3
  <2>4. below \in Seq([mod : Index, asked : Nat])
    BY <1>3, <2>2, <2>3
  <2> QED BY <2>1, <2>3, <2>4
<1> HIDE DEF below
<1>9. /\ initialized' = initialized \cup {t}
      /\ successes' = [successes EXCEPT ![t] = @ + 1]
      /\ UNCHANGED <<stage, cursor, seen>>
  BY <1>4 DEF MainSucceeds
<1>10. \/ below = <<>> /\ stack' = below /\ refcount' = refcount
       \/ /\ below # <<>>
          /\ stack' = [below EXCEPT ![n - 1].asked = @ + 1]
          /\ refcount' = [refcount EXCEPT ![t] = @ + 1]
  BY <1>4, <1>8 DEF MainSucceeds
<1>11. refcount' \in [Index -> Nat] /\ \A j \in Index : refcount'[j] >= refcount[j]
  <2>1. refcount \in [Index -> Nat]
    BY DEF StagesInv
  <2>2. CASE refcount' = refcount
    BY <2>1, <2>2
  <2>3. CASE refcount' = [refcount EXCEPT ![t] = @ + 1]
    BY <1>4, <2>1, <2>3
  <2> QED BY <1>10, <2>2, <2>3
<1>12. \A name : Provided(name) => Provided(name)'
  <2> SUFFICES ASSUME NEW name, Provided(name) PROVE Provided(name)'
    OBVIOUS
  <2>1. PICK j \in initialized : Modules[j].name = name /\ refcount[j] > 0
    BY DEF Provided
  <2>2. j \in Index /\ refcount[j] \in Nat /\ refcount'[j] \in Nat
    BY <1>11 DEF StagesInv
  <2>3. refcount'[j] > 0
    BY <1>11, <2>1, <2>2
  <2> QED BY <1>9, <2>1, <2>3 DEF Provided
<1>13. ModulesOnce'
  <2>1. \A i \in Index : successes'[i] = IF i \in initialized' THEN 1 ELSE 0
    BY <1>4, <1>6, <1>9 DEF StagesInv, ModulesOnce
  <2>2. \A i \in initialized : \A k \in DOMAIN Modules[i].needs : Provided(Modules[i].needs[k])'
    <3>1. \A i \in initialized : \A k \in DOMAIN Modules[i].needs : Provided(Modules[i].needs[k])
      BY DEF StagesInv, ModulesOnce, Provided
    <3> QED BY <1>12, <3>1
  <2>3. \A k \in DOMAIN Modules[t].needs : Provided(Modules[t].needs[k])'
    BY <1>4, <1>6, <1>12, ModuleTypes
  <2>4. \A i \in initialized' : \A k \in DOMAIN Modules[i].needs : Provided(Modules[i].needs[k])'
    BY <1>9, <2>2, <2>3
  <2>5. \A i \in Index : Modules[i].stage < stage' => i \in seen'
    BY <1>9 DEF StagesInv, ModulesOnce
  <2> QED BY <2>1, <2>4, <2>5 DEF ModulesOnce, Provided
<1>14. /\ stage' \in 1 .. 4 /\ cursor' \in Nat \ {0}
       /\ initialized' \subseteq Index /\ initialized' \subseteq seen' /\ seen' \subseteq Index
       /\ successes' \in [Index -> Nat]
       /\ \A j \in Index : Modules[j].stage = stage' /\ j < cursor' => j \in seen'
  BY <1>4, <1>6, <1>9 DEF StagesInv
<1>15. /\ stack' \in Frames
       /\ \A p \in 1 .. Len(stack') : Running(p)' /\ (p < Len(stack') => Waiting(p)')
  <2>1. CASE below = <<>> /\ stack' = below
    BY <1>8, <2>1 DEF Frames
  <2>2. CASE /\ below # <<>>
             /\ stack' = [below EXCEPT ![n - 1].asked = @ + 1]
             /\ refcount' = [refcount EXCEPT ![t] = @ + 1]
    <3>0. PICK m : m = n - 1
      OBVIOUS
    <3>1. m \in Nat \ {0} /\ m \in 1 .. Len(below) /\ m < n /\ m \in 1 .. Len(stack) /\ m + 1 = n
      BY <1>0, <1>3, <1>8, <2>2, <3>0
    <3>2. /\ stack[m].mod \in Index /\ stack[m].asked \in Nat
          /\ stack[m] = [mod |-> stack[m].mod, asked |-> stack[m].asked]
      BY <3>1, FrameTypes DEF ModOf
    <3>3. stack' = [below EXCEPT ![m] = [mod |-> stack[m].mod, asked |-> stack[m].asked + 1]]
      <4>1. [below[m] EXCEPT !.asked = @ + 1] = [mod |-> stack[m].mod, asked |-> stack[m].asked + 1]
        BY <1>8, <3>0, <3>1, <3>2
      <4>2. stack' = [below EXCEPT ![m] = [below[m] EXCEPT !.asked = @ + 1]]
        BY <2>2, <3>0
      <4> QED BY <4>1, <4>2
    <3>4. /\ stack' \in Frames /\ Len(stack') = m
          /\ \A p \in 1 .. m : p # m => stack'[p] = stack[p]
          /\ stack'[m] = [mod |-> stack[m].mod, asked |-> stack[m].asked + 1]
      BY <1>8, <3>0, <3>1, <3>2, <3>3 DEF Frames
    <3>5. \A p \in 1 .. m : ModOf(p)' = ModOf(p) /\ NeedsOf(p)' = NeedsOf(p)
      BY <3>4 DEF ModOf, NeedsOf
    <3>6. \A p \in 1 .. m : ModOf(p) \notin initialized' /\ Running(p) /\ Waiting(p)
      <4> SUFFICES ASSUME NEW p \in 1 .. m PROVE ModOf(p) \notin initialized' /\ Running(p) /\ Waiting(p)
        OBVIOUS
      <4>1. p \in 1 .. Len(stack) /\ p \in 1 .. n /\ p # n /\ p < Len(stack)
        BY <1>0, <1>3, <3>1
      <4>2. Running(p) /\ Waiting(p)
        BY <4>1 DEF StagesInv
      <4> QED BY <1>7, <1>9, <4>1, <4>2 DEF Running
    <3>7. ASSUME NEW p \in 1 .. m, p # m PROVE Running(p)' /\ Waiting(p)'
      <4>1. stack'[p] = stack[p] /\ p + 1 \in 1 .. m
        BY <3>1, <3>4, <3>7
      <4>2. ModOf(p)' = ModOf(p) /\ NeedsOf(p)' = NeedsOf(p) /\ ModOf(p + 1)' = ModOf(p + 1)
        BY <3>5, <4>1
      <4>3. Running(p)'
        BY <1>9, <1>12, <3>6, <4>1, <4>2 DEF Running
      <4>4. Waiting(p)'
        BY <3>6, <4>1, <4>2 DEF Waiting
      <4> QED BY <4>3, <4>4
    <3>8. Running(m)'
      <4>1. PICK w, a : w = NeedsOf(m) /\ a = stack[m].asked
        OBVIOUS
      <4>2. a \in Nat /\ Len(w) \in Nat /\ a < Len(w) /\ Modules[t].name = w[a + 1]
        BY <1>0, <3>1, <3>2, <3>6, <4>1, FrameTypes DEF Waiting
      <4>3. refcount'[t] > 0 /\ t \in initialized'
        BY <1>4, <1>9, <2>2 DEF StagesInv
      <4>4. Provided(w[a + 1])'
        BY <4>2, <4>3 DEF Provided
      <4>5. \A k \in 1 .. a : Provided(w[k])'
        BY <1>12, <3>1, <3>6, <4>1 DEF Running
      <4>6. \A k \in 1 .. a + 1 : Provided(w[k])'
        <5> SUFFICES ASSUME NEW k \in 1 .. a + 1 PROVE Provided(w[k])'
          OBVIOUS
        <5>1. CASE k = a + 1
          BY <4>4, <5>1
        <5>2. CASE k \in 1 .. a
          BY <4>5, <5>2
        <5> QED BY <4>2, <5>1, <5>2
      <4>7. ModOf(m)' = ModOf(m) /\ NeedsOf(m)' = w /\ stack'[m].asked = a + 1 /\ m \in 1 .. m
        BY <3>1, <3>4, <3>5, <4>1
      <4>8. ModOf(m) \in seen' /\ ModOf(m) \notin initialized'
        BY <1>9, <3>6, <4>7 DEF Running
      <4>9. a + 1 <= Len(w)
        BY <4>2
      <4> QED BY <4>6, <4>7, <4>8, <4>9 DEF Running
    <3> QED BY <3>1, <3>4, <3>7, <3>8
  <2> QED BY <1>10, <2>1, <2>2
<1> QED BY <1>11, <1>13, <1>14, <1>15 DEF StagesInv

\* Where the stages do not move, nothing of this changes.
LEMMA StagesRest ==
    ASSUME StagesInv,
           UNCHANGED <<stage, cursor, stack, initialized, refcount, successes, seen>>
    PROVE  StagesInv'
<1>1. \A name : Provided(name)' <=> Provided(name)
  BY DEF Provided
<1>2. \A p : ModOf(p)' = ModOf(p) /\ NeedsOf(p)' = NeedsOf(p)
  BY DEF ModOf, NeedsOf
<1>3. \A p : (Running(p)' <=> Running(p)) /\ (Waiting(p)' <=> Waiting(p))
  BY <1>1, <1>2 DEF Running, Waiting
<1>4. ModulesOnce'
  BY DEF ModulesOnce, StagesInv
<1> QED BY <1>3, <1>4 DEF StagesInv

LEMMA MainFailsKeeps == StagesInv /\ MainFails => StagesInv'
<1> SUFFICES ASSUME StagesInv, MainFails PROVE StagesInv'
  OBVIOUS
<1>1. stack' = <<>> /\ UNCHANGED <<stage, cursor, initialized, refcount, successes, seen>>
  BY DEF MainFails
<1>2. stack' \in Frames /\ \A p \in 1 .. Len(stack') : FALSE
  BY <1>1 DEF Frames
<1>3. ModulesOnce'
  BY <1>1 DEF ModulesOnce, StagesInv
<1> QED BY <1>1, <1>2, <1>3 DEF StagesInv

LEMMA DependsOnKeeps == StagesInv /\ DependsOn => StagesInv'
<1> SUFFICES ASSUME StagesInv, DependsOn PROVE StagesInv'
  OBVIOUS
<1>1. PICK i \in Named(Needs[Top.asked + 1]) :
        IF MustInit(i)
        THEN /\ stack' = Call(stack, i) /\ seen' = seen \cup {i}
             /\ UNCHANGED refcount
        ELSE /\ refcount' = [refcount EXCEPT ![i] = @ + 1]
             /\ stack' = [stack EXCEPT ![Len(stack)].asked = @ + 1]
             /\ UNCHANGED seen
  BY DEF DependsOn
<1>2. stack # <<>> /\ Top.asked < Len(Needs) /\ UNCHANGED <<stage, cursor, initialized, successes>>
  BY DEF DependsOn
<1>3. CASE i \notin initialized
  BY <1>1, <1>2, <1>3, AsksInitialises DEF MustInit
<1>4. CASE i \in initialized
  BY <1>1, <1>2, <1>4, AsksCounts DEF MustInit
<1> QED BY <1>3, <1>4

LEMMA StagesKeep == StagesInv /\ (BootNext \/ UNCHANGED bootVars) => StagesInv'
<1> SUFFICES ASSUME StagesInv, BootNext \/ UNCHANGED bootVars PROVE StagesInv'
  OBVIOUS
<1>1. CASE KsymsLoad
  BY <1>1, StagesRest DEF KsymsLoad
<1>2. CASE \E addr \in Addresses : GetSymbolName(addr)
  BY <1>2, StagesRest DEF GetSymbolName
<1>3. CASE UNCHANGED bootVars
  BY <1>3, StagesRest DEF bootVars
<1> QED BY <1>1, <1>2, <1>3, LookAtModuleKeeps, EndStageKeeps, DependsOnKeeps, MainSucceedsKeeps,
            MainFailsKeeps DEF BootNext

\* ModulesOnce for any number of modules, in any stages, with any
\* dependencies, cyclic ones too: what is reached both by its stage and by a
\* module that depends on it is initialised once, and after what it needs
\* (mod_builtin_init, mod_builtin_depends_on).
THEOREM ModulesStartOnce == Spec => []ModulesOnce
<1>1. Init => StagesInv
  BY StagesInitial DEF Init
<1>2. StagesInv /\ [Next]_vars => StagesInv'
  <2> SUFFICES ASSUME StagesInv, [Next]_vars PROVE StagesInv'
    OBVIOUS
  <2>1. BootNext \/ UNCHANGED bootVars
    BY DEF Next, vars
  <2> QED BY <2>1, StagesKeep
<1>3. StagesInv => ModulesOnce
  BY DEF StagesInv
<1> QED BY <1>1, <1>2, <1>3, PTL DEF Spec

-----------------------------------------------------------------------------
(* The table of symbols (Boot).                                            *)

\* The windows of the binary search.
Windows == (0 .. Len(table) - 1) \X (0 .. Len(table) - 1)
Middle(w) == (w[1] + w[2]) \div 2

\* One step of it: the entry it ends with, if g says so for smaller windows.
ProbeStep(g, addr, w) ==
    CASE table[Middle(w) + 1] < addr /\ Middle(w) + 1 <= w[2] -> g[<<Middle(w) + 1, w[2]>>]
      [] table[Middle(w) + 1] > addr /\ w[1] <= Middle(w) - 1 -> g[<<w[1], Middle(w) - 1>>]
      [] OTHER -> Middle(w)

LEMMA TableTypes ==
    ASSUME table \in Tables
    PROVE  /\ Len(table) \in Nat \ {0} /\ DOMAIN table = 1 .. Len(table)
           /\ \A i \in 1 .. Len(table) : table[i] \in 0 .. WordSize - 1
           /\ \A i \in 1 .. Len(table) - 1 : table[i] <= table[i + 1]
           /\ WordSize \in Nat \ {0}
<1>1. table \in Seq(0 .. WordSize - 1) /\ table # <<>>
  BY BootAssumption
<1>2. Len(table) \in Nat \ {0} /\ DOMAIN table = 1 .. Len(table)
  BY <1>1
<1>3. \A i \in 1 .. Len(table) : table[i] \in 0 .. WordSize - 1
  BY <1>1, Elements
<1>4. \A i \in 1 .. Len(table) - 1 : table[i] <= table[i + 1]
  BY BootAssumption
<1> QED BY <1>2, <1>3, <1>4, BootAssumption

\* Neighbours in order, the table is sorted.
LEMMA TableSorted ==
    ASSUME table \in Tables
    PROVE  \A i, j \in 1 .. Len(table) : i <= j => table[i] <= table[j]
<1> DEFINE n == Len(table)
           S == {d \in Nat : \E i \in 1 .. n : i + d \in 1 .. n /\ ~(table[i] <= table[i + d])}
<1>1. n \in Nat \ {0} /\ \A i \in 1 .. n : table[i] \in Int
  BY TableTypes
<1>2. \A i \in 1 .. n - 1 : table[i] <= table[i + 1]
  BY TableTypes
<1>3. S = {}
  <2> SUFFICES ASSUME S # {} PROVE FALSE
    OBVIOUS
  <2>1. PICK d \in S : \A e \in S : d <= e
    BY LeastNatural
  <2>2. PICK i \in 1 .. n : i + d \in 1 .. n /\ ~(table[i] <= table[i + d])
    OBVIOUS
  <2>3. d \in Nat /\ d # 0
    BY <1>1, <2>2
  <2>4. d - 1 \in Nat /\ d - 1 \notin S
    <3>1. d - 1 \in Nat /\ ~(d <= d - 1)
      BY <2>3
    <3> HIDE DEF S
    <3> QED BY <2>1, <3>1
  <2>5. i + (d - 1) \in 1 .. n - 1 /\ i + (d - 1) \in 1 .. n /\ i + (d - 1) + 1 = i + d
    BY <1>1, <2>2, <2>3
  <2>6. table[i] <= table[i + (d - 1)]
    BY <2>4, <2>5
  <2>7. table[i + (d - 1)] <= table[i + d]
    BY <1>2, <2>5
  <2> HIDE DEF S, n
  <2>8. table[i] \in Int /\ table[i + d] \in Int /\ table[i + (d - 1)] \in Int
    BY <1>1, <2>2, <2>5
  <2> QED BY <2>2, <2>6, <2>7, <2>8
<1> SUFFICES ASSUME NEW i \in 1 .. n, NEW j \in 1 .. n, i <= j PROVE table[i] <= table[j]
  OBVIOUS
<1>4. j - i \in Nat /\ i + (j - i) = j
  BY <1>1
<1>5. j - i \notin S
  BY <1>3
<1> QED BY <1>4, <1>5

\* The windows get smaller.
LEMMA WindowsNarrow ==
    ASSUME table \in Tables, NEW w \in Windows
    PROVE  LET m == Middle(w) IN
           /\ w[1] \in Nat /\ w[2] \in Nat /\ w = <<w[1], w[2]>>
           /\ w[1] < Len(table) /\ w[2] < Len(table)
           /\ m \in Nat /\ m < Len(table)
           /\ w[1] <= w[2] => w[1] <= m /\ m <= w[2]
           /\ m + 1 <= w[2] => <<m + 1, w[2]>> \in Windows /\ w[2] - (m + 1) < w[2] - w[1]
           /\ w[1] <= m - 1 => <<w[1], m - 1>> \in Windows /\ (m - 1) - w[1] < w[2] - w[1]
<1> DEFINE n == Len(table)
<1>1. n \in Nat \ {0}
  BY TableTypes
<1>2. w = <<w[1], w[2]>> /\ w[1] \in 0 .. n - 1 /\ w[2] \in 0 .. n - 1
  BY DEF Windows
<1>3. PICK l, r : l = w[1] /\ r = w[2]
  OBVIOUS
<1>4. PICK m : m = (l + r) \div 2
  OBVIOUS
<1>5. m \in Int /\ 2 * m <= l + r /\ l + r < 2 * m + 2 /\ l \in 0 .. n - 1 /\ r \in 0 .. n - 1
  BY <1>1, <1>2, <1>3, <1>4
<1>6. m + 1 <= r => m + 1 \in 0 .. n - 1
  BY <1>1, <1>5
<1>7. l <= m - 1 => m - 1 \in 0 .. n - 1
  BY <1>1, <1>5
<1>8. Middle(w) = m
  BY <1>3, <1>4 DEF Middle
<1> HIDE DEF n
<1>9. /\ m \in Nat /\ m < n
      /\ l <= r => l <= m /\ m <= r
      /\ m + 1 <= r => r - (m + 1) < r - l
      /\ l <= m - 1 => (m - 1) - l < r - l
  BY <1>1, <1>5
<1>10. m + 1 <= r => <<m + 1, r>> \in Windows
  BY <1>5, <1>6 DEF Windows, n
<1>11. l <= m - 1 => <<l, m - 1>> \in Windows
  BY <1>5, <1>7 DEF Windows, n
<1> QED BY <1>1, <1>2, <1>3, <1>5, <1>8, <1>9, <1>10, <1>11 DEF n

LEMMA WindowTypes ==
    ASSUME table \in Tables, NEW w \in Windows
    PROVE  w[1] \in Nat /\ w[2] \in Nat /\ Middle(w) \in Nat
BY WindowsNarrow

\* The binary search is well defined: some function ends every window.
LEMMA ProbeExists ==
    ASSUME table \in Tables, NEW addr \in Int
    PROVE  \E g : g = [w \in Windows |-> ProbeStep(g, addr, w)]
<1> DEFINE n == Len(table)
           Size(w) == w[2] - w[1]
           Serves(g, k) == \A w \in Windows : Size(w) < k => g[w] = ProbeStep(g, addr, w)
           S == {k \in Nat : ~\E g \in [Windows -> Int] : Serves(g, k)}
<1>0. n \in Nat \ {0} /\ \A w \in Windows : Size(w) \in Int /\ Size(w) < n
  <2>1. n \in Nat \ {0}
    BY TableTypes
  <2>2. \A w \in Windows : w[1] \in Nat /\ w[2] \in Nat /\ w[2] < n
    BY WindowsNarrow
  <2> HIDE DEF n
  <2> QED BY <2>1, <2>2
<1>1. ASSUME NEW g \in [Windows -> Int], NEW w \in Windows
      PROVE  ProbeStep(g, addr, w) \in Int
  BY <1>1, WindowsNarrow DEF ProbeStep
<1>2. ASSUME NEW w \in Windows, Size(w) < 0, NEW g
      PROVE  ProbeStep(g, addr, w) = Middle(w)
  BY <1>2, WindowsNarrow DEF ProbeStep
<1>3. \E g \in [Windows -> Int] : Serves(g, 0)
  <2> DEFINE h == [w \in Windows |-> Middle(w)]
  <2>1. h \in [Windows -> Int]
    <3>1. \A w \in Windows : Middle(w) \in Int
      BY WindowTypes
    <3> QED BY <3>1
  <2>2. Serves(h, 0)
    BY <1>2
  <2> HIDE DEF h
  <2> QED BY <2>1, <2>2
<1>4. ASSUME NEW k \in Nat, NEW g \in [Windows -> Int], Serves(g, k)
      PROVE  \E h \in [Windows -> Int] : Serves(h, k + 1)
  <2> DEFINE h == [w \in Windows |-> ProbeStep(g, addr, w)]
  <2>1. h \in [Windows -> Int]
    BY <1>1
  <2>2. ASSUME NEW w \in Windows, Size(w) < k + 1
        PROVE  h[w] = ProbeStep(h, addr, w)
    <3> DEFINE m == Middle(w)
    <3>1. h[w] = ProbeStep(g, addr, w)
      OBVIOUS
    <3>2. \A v \in Windows : Size(v) < k => h[v] = g[v]
      BY <1>4
    <3>3. /\ m + 1 <= w[2] => <<m + 1, w[2]>> \in Windows /\ w[2] - (m + 1) < w[2] - w[1]
          /\ w[1] <= m - 1 => <<w[1], m - 1>> \in Windows /\ (m - 1) - w[1] < w[2] - w[1]
          /\ w[1] \in Int /\ w[2] \in Int /\ m \in Int
      BY WindowsNarrow
    <3>4. m + 1 <= w[2] => h[<<m + 1, w[2]>>] = g[<<m + 1, w[2]>>]
      BY <2>2, <3>2, <3>3
    <3>5. w[1] <= m - 1 => h[<<w[1], m - 1>>] = g[<<w[1], m - 1>>]
      BY <2>2, <3>2, <3>3
    <3> HIDE DEF h
    <3> QED BY <3>1, <3>4, <3>5 DEF ProbeStep
  <2>3. Serves(h, k + 1)
    BY <2>2
  <2> HIDE DEF h, Serves
  <2> QED BY <2>1, <2>3
<1>5. S = {}
  <2> SUFFICES ASSUME S # {} PROVE FALSE
    OBVIOUS
  <2> HIDE DEF Serves
  <2>1. PICK k \in S : \A j \in S : k <= j
    BY LeastNatural
  <2>2. k \in Nat /\ k # 0
    BY <1>3
  <2>3. k - 1 \in Nat /\ k - 1 \notin S /\ (k - 1) + 1 = k
    BY <2>1, <2>2
  <2>4. PICK g \in [Windows -> Int] : Serves(g, k - 1)
    BY <2>3
  <2>5. \E h \in [Windows -> Int] : Serves(h, k)
    BY <1>4, <2>3, <2>4
  <2> QED BY <2>5
<1>6. PICK g \in [Windows -> Int] : Serves(g, n)
  <2>1. n \notin S
    BY <1>5
  <2> HIDE DEF Serves
  <2> QED BY <1>0, <2>1
<1>7. \A w \in Windows : g[w] = ProbeStep(g, addr, w)
  BY <1>0, <1>6
<1>8. g = [w \in Windows |-> ProbeStep(g, addr, w)]
  BY <1>7
<1> QED BY <1>8

LEMMA LastProbedIs ==
    ASSUME table \in Tables, NEW addr \in Int
    PROVE  \E g : /\ g = [w \in Windows |-> ProbeStep(g, addr, w)]
                  /\ LastProbed(addr) = g[<<0, Len(table) - 1>>]
<1> DEFINE g == CHOOSE p : p = [w \in Windows |-> ProbeStep(p, addr, w)]
<1>1. g = [w \in Windows |-> ProbeStep(g, addr, w)]
  BY ProbeExists, Zenon
<1>2. LastProbed(addr) = g[<<0, Len(table) - 1>>]
  BY Zenon DEF LastProbed, ProbeStep, Windows, Middle
<1> HIDE DEF g
<1> QED BY <1>1, <1>2

\* What the entry the search ends with is to the address.
Found(addr, m) ==
    /\ m \in 0 .. Len(table) - 1
    /\ \/ table[m + 1] = addr
       \/ table[m + 1] < addr /\ \A i \in 0 .. Len(table) - 1 : i > m => table[i + 1] > addr
       \/ table[m + 1] > addr /\ \A i \in 0 .. Len(table) - 1 : i < m => table[i + 1] < addr

\* Outside of its window the search has nothing left to find.
Around(addr, w) ==
    \A i \in 0 .. Len(table) - 1 :
        (i < w[1] => table[i + 1] < addr) /\ (i > w[2] => table[i + 1] > addr)

LEMMA ProbeFinds ==
    ASSUME table \in Tables, NEW addr \in Int,
           NEW g, g = [w \in Windows |-> ProbeStep(g, addr, w)]
    PROVE  \A w \in Windows : w[1] <= w[2] /\ Around(addr, w) => Found(addr, g[w])
<1> DEFINE n == Len(table)
           Bad(w) == w[1] <= w[2] /\ Around(addr, w) /\ ~Found(addr, g[w])
           S == {k \in Nat : \E w \in Windows : w[2] - w[1] = k /\ Bad(w)}
<1>1. S = {}
  <2> SUFFICES ASSUME S # {} PROVE FALSE
    OBVIOUS
  <2> HIDE DEF Bad
  <2>1. PICK k \in S : \A j \in S : k <= j
    BY LeastNatural
  <2>2. PICK w \in Windows : w[2] - w[1] = k /\ Bad(w)
    OBVIOUS
  <2>3. PICK l, r, m : l = w[1] /\ r = w[2] /\ m = Middle(w)
    OBVIOUS
  <2>4. /\ l \in Nat /\ r \in Nat /\ m \in Nat /\ m < n /\ n \in Nat
        /\ w[1] = l /\ w[2] = r /\ l <= r /\ l <= m /\ m <= r
        /\ m + 1 <= r => <<m + 1, r>> \in Windows /\ r - (m + 1) < r - l
        /\ l <= m - 1 => <<l, m - 1>> \in Windows /\ (m - 1) - l < r - l
    BY <2>2, <2>3, WindowsNarrow, TableTypes DEF Bad
  <2>5. \A i \in 0 .. n - 1 : (i < l => table[i + 1] < addr) /\ (i > r => table[i + 1] > addr)
    BY <2>2, <2>3 DEF Bad, Around
  <2>6. ~Found(addr, g[w]) /\ g[w] = ProbeStep(g, addr, w)
    BY <2>2 DEF Bad
  <2>7. \A i \in 0 .. n - 1 : table[i + 1] \in Int
    BY TableTypes
  <2>8. \A i, j \in 0 .. n - 1 : i <= j => table[i + 1] <= table[j + 1]
    <3> TAKE i, j \in 0 .. n - 1
    <3>1. i + 1 \in 1 .. n /\ j + 1 \in 1 .. n
      BY <2>4
    <3> QED BY <3>1, <2>4, TableSorted
  <2>9. m \in 0 .. n - 1
    BY <2>4
  <2>10. \A v \in Windows : v[2] - v[1] \in Nat /\ v[2] - v[1] < r - l => ~Bad(v)
    <3> TAKE v \in Windows
    <3> SUFFICES ASSUME v[2] - v[1] \in Nat, v[2] - v[1] < r - l, Bad(v) PROVE FALSE
      OBVIOUS
    <3>1. v[2] - v[1] \in S
      OBVIOUS
    <3>2. k <= v[2] - v[1] /\ k = r - l
      BY <2>1, <2>2, <2>3, <3>1
    <3> HIDE DEF S
    <3> QED BY <2>4, <3>2
  <2> HIDE DEF S, n
  <2>11. CASE table[m + 1] < addr /\ m + 1 <= r
    <3> DEFINE v == <<m + 1, r>>
    <3>1. v \in Windows /\ v[1] = m + 1 /\ v[2] = r /\ r - (m + 1) \in Nat /\ r - (m + 1) < r - l
      BY <2>4, <2>11
    <3>2. \A i \in 0 .. n - 1 : i < m + 1 => table[i + 1] < addr
      <4> SUFFICES ASSUME NEW i \in 0 .. n - 1, i < m + 1 PROVE table[i + 1] < addr
        OBVIOUS
      <4>1. i <= m
        BY <2>4
      <4>2. table[i + 1] <= table[m + 1] /\ table[i + 1] \in Int /\ table[m + 1] \in Int
        BY <2>7, <2>8, <2>9, <4>1
      <4> QED BY <2>11, <4>2
    <3>3. Around(addr, v)
      BY <2>5, <3>1, <3>2 DEF Around, n
    <3>4. g[w] = g[v]
      <4>1. ~(table[m + 1] > addr)
        BY <2>7, <2>9, <2>11
      <4> QED BY <2>3, <2>6, <2>11, <4>1 DEF ProbeStep
    <3>5. ~Bad(v) /\ v[1] <= v[2]
      BY <2>10, <2>11, <3>1
    <3> QED BY <2>6, <3>3, <3>4, <3>5 DEF Bad
  <2>12. CASE table[m + 1] > addr /\ l <= m - 1
    <3> DEFINE v == <<l, m - 1>>
    <3>1. v \in Windows /\ v[1] = l /\ v[2] = m - 1 /\ (m - 1) - l \in Nat /\ (m - 1) - l < r - l
      BY <2>4, <2>12
    <3>2. \A i \in 0 .. n - 1 : i > m - 1 => table[i + 1] > addr
      <4> SUFFICES ASSUME NEW i \in 0 .. n - 1, i > m - 1 PROVE table[i + 1] > addr
        OBVIOUS
      <4>1. m <= i
        BY <2>4
      <4>2. table[m + 1] <= table[i + 1] /\ table[i + 1] \in Int /\ table[m + 1] \in Int
        BY <2>7, <2>8, <2>9, <4>1
      <4> QED BY <2>12, <4>2
    <3>3. Around(addr, v)
      BY <2>5, <3>1, <3>2 DEF Around, n
    <3>4. g[w] = g[v]
      <4>1. ~(table[m + 1] < addr)
        BY <2>7, <2>9, <2>12
      <4> QED BY <2>3, <2>6, <2>12, <4>1 DEF ProbeStep
    <3>5. ~Bad(v) /\ v[1] <= v[2]
      BY <2>10, <2>12, <3>1
    <3> QED BY <2>6, <3>3, <3>4, <3>5 DEF Bad
  <2>13. CASE /\ ~(table[m + 1] < addr /\ m + 1 <= r)
              /\ ~(table[m + 1] > addr /\ l <= m - 1)
    <3>1. g[w] = m
      BY <2>3, <2>6, <2>13 DEF ProbeStep
    <3>2. table[m + 1] \in Int
      BY <2>7, <2>9
    <3>3. \/ table[m + 1] = addr
          \/ table[m + 1] < addr /\ m = r
          \/ table[m + 1] > addr /\ m = l
      BY <2>4, <2>13, <3>2
    <3> QED BY <2>5, <2>6, <2>9, <3>1, <3>3 DEF Found, n
  <2> QED BY <2>11, <2>12, <2>13
<1>2. ASSUME NEW w \in Windows, w[1] <= w[2], Around(addr, w) PROVE Found(addr, g[w])
  <2>1. w[2] - w[1] \in Nat
    BY <1>2, WindowTypes
  <2> QED BY <1>1, <1>2, <2>1
<1> QED BY <1>2

LEMMA LastProbedFinds ==
    ASSUME table \in Tables, NEW addr \in Int
    PROVE  Found(addr, LastProbed(addr))
<1>1. PICK g : /\ g = [w \in Windows |-> ProbeStep(g, addr, w)]
               /\ LastProbed(addr) = g[<<0, Len(table) - 1>>]
  BY LastProbedIs
<1> DEFINE w == <<0, Len(table) - 1>>
<1>2. Len(table) \in Nat \ {0}
  BY TableTypes
<1>3. w \in Windows /\ w[1] <= w[2] /\ Around(addr, w)
  BY <1>2 DEF Windows, Around
<1> QED BY <1>1, <1>3, ProbeFinds

\* The step after the search: the entry it takes is the last whose address
\* is not above the one asked for, if there is one.
LEMMA SymbolOfExact ==
    ASSUME table \in Tables, NEW addr \in Int
    PROVE  LET sym   == SymbolOf(addr) + 1
               below == {i \in DOMAIN table : table[i] <= addr}
           IN  /\ sym \in 1 .. Len(table)
               /\ below = {} => sym = 1
               /\ below # {} => table[sym] = table[Max(below)] /\ table[sym] <= addr
<1> DEFINE n == Len(table)
           below == {i \in 1 .. n : table[i] <= addr}
<1>1. PICK m : m = LastProbed(addr)
  OBVIOUS
<1>2. /\ n \in Nat \ {0} /\ DOMAIN table = 1 .. n
      /\ \A i \in 1 .. n : table[i] \in Int
  BY TableTypes
<1>3. Found(addr, m)
  BY <1>1, LastProbedFinds
<1>4. m \in 0 .. n - 1 /\ m + 1 \in 1 .. n
  BY <1>2, <1>3 DEF Found
<1>5. \/ table[m + 1] = addr
      \/ table[m + 1] < addr /\ \A i \in 1 .. n : i > m + 1 => table[i] > addr
      \/ table[m + 1] > addr /\ \A i \in 1 .. n : i < m + 1 => table[i] < addr
  <2>1. \A i \in 1 .. n : i - 1 \in 0 .. n - 1 /\ (i - 1) + 1 = i
    BY <1>2
  <2>2. \A i \in 1 .. n : (i > m + 1 => i - 1 > m) /\ (i < m + 1 => i - 1 < m)
    BY <1>2, <1>4
  <2> QED BY <1>3, <2>1, <2>2 DEF Found
<1>6. \A i, j \in 1 .. n : i <= j => table[i] <= table[j]
  BY TableSorted
<1>7. SymbolOf(addr) = IF table[m + 1] > addr /\ m > 0 THEN m - 1 ELSE m
  BY <1>1 DEF SymbolOf
<1> HIDE DEF n
<1>8. PICK s : s = SymbolOf(addr) + 1
  OBVIOUS
<1>9. ASSUME s \in below, \A i \in below : table[i] <= table[s]
      PROVE  table[s] = table[Max(below)]
  <2>1. \E x \in below : \A y \in below : x >= y
    <3> DEFINE T == {d \in Nat : n - d \in below}
    <3>1. n - s \in T
      BY <1>2, <1>9
    <3>2. PICK d \in T : \A e \in T : d <= e
      BY <3>1, LeastNatural
    <3>3. \A y \in below : n - y \in T
      BY <1>2
    <3>4. \A y \in below : d <= n - y
      BY <3>2, <3>3
    <3>5. n - d \in below /\ d \in Nat
      BY <3>2
    <3> HIDE DEF T
    <3>6. \A y \in below : n - d >= y
      BY <1>2, <3>4, <3>5
    <3> QED BY <3>5, <3>6
  <2>2. Max(below) \in below /\ \A y \in below : Max(below) >= y
    BY <2>1, Zenon DEF Max
  <2>3. PICK x : x = Max(below)
    OBVIOUS
  <2>4. x \in 1 .. n /\ s \in 1 .. n /\ x >= s
    BY <1>9, <2>2, <2>3
  <2>5. table[s] <= table[x] /\ table[x] <= table[s] /\ table[s] \in Int /\ table[x] \in Int
    BY <1>2, <1>6, <1>9, <2>2, <2>3, <2>4
  <2> QED BY <2>3, <2>5
<1>10. CASE table[m + 1] > addr /\ m > 0
  <2>1. s = m /\ s \in 1 .. n
    BY <1>2, <1>4, <1>7, <1>8, <1>10
  <2>2. \A i \in 1 .. n : i < m + 1 => table[i] < addr
    BY <1>2, <1>4, <1>5, <1>10
  <2>3. table[s] < addr
    BY <1>2, <1>4, <2>1, <2>2
  <2>4. s \in below
    BY <1>2, <2>1, <2>3
  <2>5. \A i \in below : table[i] <= table[s]
    <3> SUFFICES ASSUME NEW i \in 1 .. n, table[i] <= addr PROVE table[i] <= table[s]
      OBVIOUS
    <3>1. ~(m + 1 <= i)
      BY <1>2, <1>4, <1>6, <1>10
    <3>2. i <= s
      BY <1>2, <1>4, <2>1, <3>1
    <3> QED BY <1>6, <2>1, <3>2
  <2> QED BY <1>2, <1>8, <1>9, <2>1, <2>4, <2>5 DEF n
<1>11. CASE table[m + 1] > addr /\ ~(m > 0)
  <2>1. m = 0 /\ s = 1 /\ s \in 1 .. n
    BY <1>2, <1>4, <1>7, <1>8, <1>11
  <2>2. below = {}
    <3> SUFFICES ASSUME NEW i \in 1 .. n, table[i] <= addr PROVE FALSE
      OBVIOUS
    <3>1. table[1] <= table[i] /\ table[1] \in Int /\ table[i] \in Int
      BY <1>2, <1>6
    <3> QED BY <1>11, <2>1, <3>1
  <2> QED BY <1>2, <1>8, <2>1, <2>2 DEF n
<1>12. CASE ~(table[m + 1] > addr)
  <2>1. s = m + 1 /\ s \in 1 .. n /\ table[s] <= addr
    BY <1>2, <1>4, <1>7, <1>8, <1>12
  <2>2. s \in below
    BY <2>1
  <2>3. \A i \in below : table[i] <= table[s]
    <3> SUFFICES ASSUME NEW i \in 1 .. n, table[i] <= addr PROVE table[i] <= table[s]
      OBVIOUS
    <3>1. CASE table[m + 1] = addr
      BY <2>1, <3>1
    <3>2. CASE table[m + 1] # addr
      <4>1. \A j \in 1 .. n : j > m + 1 => table[j] > addr
        BY <1>2, <1>4, <1>5, <1>12, <3>2
      <4>2. ~(i > m + 1)
        BY <1>2, <4>1
      <4>3. i <= s
        BY <1>2, <1>4, <2>1, <4>2
      <4> QED BY <1>6, <2>1, <4>3
    <3> QED BY <3>1, <3>2
  <2> QED BY <1>2, <1>8, <1>9, <2>1, <2>2, <2>3 DEF n
<1> QED BY <1>10, <1>11, <1>12

\* The table is one of those the build makes, and what was found was found in
\* it.
KsymsInv ==
    /\ table = <<>> \/ table \in Tables
    /\ table = <<>> => answer.sym = 0
    /\ KsymsExact

LEMMA GetSymbolNameKeeps ==
    ASSUME KsymsInv, NEW addr \in Addresses, GetSymbolName(addr)
    PROVE  KsymsInv'
<1>1. UNCHANGED table
  BY DEF GetSymbolName
<1>2. CASE table = <<>>
  <2>1. answer'.sym = 0
    BY <1>2 DEF GetSymbolName, NoAnswer
  <2> QED BY <1>1, <1>2, <2>1 DEF KsymsInv, KsymsExact
<1>3. CASE table # <<>>
  <2>1. table \in Tables
    BY <1>3 DEF KsymsInv
  <2>2. addr \in 0 .. WordSize - 1 /\ addr \in Int /\ WordSize \in Nat \ {0}
    <3>1. Addresses \subseteq 0 .. WordSize - 1 /\ WordSize \in Nat \ {0}
      BY BootAssumption
    <3> QED BY <3>1
  <2>3. PICK s, below : s = SymbolOf(addr) + 1 /\ below = {i \in DOMAIN table : table[i] <= addr}
    OBVIOUS
  <2>4. answer' = [addr |-> addr, sym |-> s, offset |-> (addr - table[s]) % WordSize]
    BY <1>3, <2>3 DEF GetSymbolName
  <2>5. /\ s \in 1 .. Len(table)
        /\ below = {} => s = 1
        /\ below # {} => table[s] = table[Max(below)] /\ table[s] <= addr
    BY <2>1, <2>2, <2>3, SymbolOfExact
  <2>6. below # {} => (addr - table[s]) % WordSize = addr - table[s]
    <3>1. table[s] \in 0 .. WordSize - 1
      BY <2>1, <2>5, TableTypes
    <3>2. table[s] <= addr => addr - table[s] \in 0 .. WordSize - 1
      BY <2>2, <3>1
    <3>3. \A x \in 0 .. WordSize - 1 : x % WordSize = x
      BY <2>2
    <3> QED BY <2>5, <3>2, <3>3
  <2>7. answer'.addr = addr /\ answer'.sym = s /\ answer'.offset = (addr - table[s]) % WordSize
    BY <2>4
  <2>8. KsymsExact'
    BY <1>1, <2>3, <2>5, <2>6, <2>7 DEF KsymsExact
  <2> QED BY <1>1, <1>3, <2>1, <2>8 DEF KsymsInv
<1> QED BY <1>2, <1>3

LEMMA KsymsKeep == KsymsInv /\ (BootNext \/ UNCHANGED bootVars) => KsymsInv'
<1> SUFFICES ASSUME KsymsInv, BootNext \/ UNCHANGED bootVars PROVE KsymsInv'
  OBVIOUS
<1>1. CASE UNCHANGED <<table, answer>>
  BY <1>1 DEF KsymsInv, KsymsExact
<1>2. CASE KsymsLoad
  <2>1. table = <<>> /\ table' \in Tables /\ UNCHANGED answer
    BY <1>2 DEF KsymsLoad
  <2>2. answer'.sym = 0 /\ table' # <<>>
    BY <2>1, BootAssumption DEF KsymsInv
  <2> QED BY <2>1, <2>2 DEF KsymsInv, KsymsExact
<1>3. CASE \E addr \in Addresses : GetSymbolName(addr)
  BY <1>3, GetSymbolNameKeeps
<1>4. CASE LookAtModule \/ EndStage \/ DependsOn \/ MainSucceeds \/ MainFails \/ UNCHANGED bootVars
  <2>1. UNCHANGED <<table, answer>>
    BY <1>4 DEF LookAtModule, EndStage, DependsOn, MainSucceeds, MainFails, bootVars
  <2> QED BY <1>1, <2>1
<1> QED BY <1>2, <1>3, <1>4 DEF BootNext

\* KsymsExact for every table in order and every address: the binary search
\* of ksyms_get_symbol_name, with the step after it, finds the symbol that
\* holds the address and the offset in it.
THEOREM SymbolsAreExact == Spec => []KsymsExact
<1>1. Init => KsymsInv
  BY DEF Init, BootInit, KsymsInv, KsymsExact, NoAnswer
<1>2. KsymsInv /\ [Next]_vars => KsymsInv'
  <2> SUFFICES ASSUME KsymsInv, [Next]_vars PROVE KsymsInv'
    OBVIOUS
  <2>1. BootNext \/ UNCHANGED bootVars
    BY DEF Next, vars
  <2> QED BY <2>1, KsymsKeep
<1>3. KsymsInv => KsymsExact
  BY DEF KsymsInv
<1> QED BY <1>1, <1>2, <1>3, PTL DEF Spec

-----------------------------------------------------------------------------
(* The registry of serial drivers and devices (Serialio).                  *)

Names == {s.name : s \in DriverSpecs \cup DeviceSpecs} \cup {Kbd.name}
Minors == {s.min : s \in DeviceSpecs} \cup {Kbd.min}
Drivers == [at : Address, name : Names, maj : Nat]
SerialDevices == [at : Address, name : Names, maj : Nat, min : Minors, driver : Address \cup {NoDriver}]

\* A driver or a device says by what it is matched.
Identified(x) == x.maj # NoMaj \/ x.name # NoName

\* Drivers have addresses, majors and names of their own.
DriversApart ==
    \A i, j \in DOMAIN drvs : i # j =>
        /\ drvs[i].at # drvs[j].at
        /\ drvs[i].maj = drvs[j].maj => drvs[i].maj = NoMaj
        /\ drvs[i].name = drvs[j].name => drvs[i].name = NoName

DevicesApart ==
    \A i, j \in DOMAIN devs : i # j =>
        /\ devs[i].at # devs[j].at
        /\ devs[i].min = devs[j].min /\ devs[i].maj = devs[j].maj => devs[i].maj = NoMaj
        /\ devs[i].min = devs[j].min /\ devs[i].name = devs[j].name => devs[i].name = NoName

\* What a driver holds is what is linked to it.
HeldIsLinked ==
    \A p : p \in held <=> \E i \in DOMAIN devs : /\ devs[i].driver # NoDriver
                                                /\ p = <<devs[i].driver, devs[i].at>>

\* A device is linked to a driver that is registered and matches it.
LinksRegistered ==
    \A i \in DOMAIN devs : devs[i].driver # NoDriver =>
        \E k \in DOMAIN drvs : drvs[k].at = devs[i].driver /\ CheckMatch(devs[i], drvs[k])

SerialInv ==
    /\ drvs \in Seq(Drivers) /\ devs \in Seq(SerialDevices)
    /\ \A i \in DOMAIN drvs : Identified(drvs[i])
    /\ \A i \in DOMAIN devs : Identified(devs[i])
    /\ DriversApart /\ DevicesApart /\ HeldIsLinked /\ LinksRegistered

\* Two drivers that match one device have a major or a name in common, which
\* serialio_new_drv_from refuses.
LEMMA OneMatches ==
    ASSUME NEW dev, NEW d, NEW e, dev.maj \in Nat, d.maj \in Nat, e.maj \in Nat,
           Identified(dev), CheckMatch(dev, d), CheckMatch(dev, e)
    PROVE  \/ d.maj # NoMaj /\ d.maj = e.maj
           \/ d.maj = NoMaj /\ e.maj = NoMaj /\ d.name # NoName /\ d.name = e.name
BY DEF Identified, CheckMatch

LEMMA SerialTypes ==
    ASSUME SerialInv
    PROVE  /\ DOMAIN drvs = 1 .. Len(drvs) /\ Len(drvs) \in Nat
           /\ DOMAIN devs = 1 .. Len(devs) /\ Len(devs) \in Nat
           /\ \A i \in DOMAIN drvs : drvs[i] \in Drivers
           /\ \A i \in DOMAIN devs : devs[i] \in SerialDevices
<1>1. drvs \in Seq(Drivers) /\ devs \in Seq(SerialDevices)
  BY DEF SerialInv
<1>2. /\ DOMAIN drvs = 1 .. Len(drvs) /\ Len(drvs) \in Nat
      /\ DOMAIN devs = 1 .. Len(devs) /\ Len(devs) \in Nat
  BY <1>1
<1> QED BY <1>1, <1>2, Elements

\* The invariant says what the property says.
LEMMA SerialInvImplies == SerialInv => LinksAgree
<1> SUFFICES ASSUME SerialInv PROVE LinksAgree
  OBVIOUS
<1>1. held = {<<d.driver, d.at>> : d \in {e \in ToSet(devs) : e.driver # NoDriver}}
  BY DEF SerialInv, HeldIsLinked, ToSet
<1>2. ASSUME NEW i \in DOMAIN devs, devs[i].driver # NoDriver
      PROVE  {d.at : d \in {e \in ToSet(drvs) : CheckMatch(devs[i], e)}} = {devs[i].driver}
  <2>1. PICK k \in DOMAIN drvs : drvs[k].at = devs[i].driver /\ CheckMatch(devs[i], drvs[k])
    BY <1>2 DEF SerialInv, LinksRegistered
  <2>2. ASSUME NEW j \in DOMAIN drvs, CheckMatch(devs[i], drvs[j]) PROVE j = k
    <3>1. /\ devs[i].maj \in Nat /\ drvs[j].maj \in Nat /\ drvs[k].maj \in Nat
          /\ Identified(devs[i])
      BY SerialTypes DEF SerialInv, Drivers, SerialDevices
    <3>2. \/ drvs[j].maj # NoMaj /\ drvs[j].maj = drvs[k].maj
          \/ drvs[j].maj = NoMaj /\ drvs[k].maj = NoMaj /\ drvs[j].name # NoName /\ drvs[j].name = drvs[k].name
      BY <2>1, <2>2, <3>1, OneMatches
    <3> QED BY <3>2 DEF SerialInv, DriversApart
  <2> QED BY <2>1, <2>2 DEF ToSet
<1>3. \A dev \in ToSet(devs) : dev.driver # NoDriver =>
        {d.at : d \in {e \in ToSet(drvs) : CheckMatch(dev, e)}} = {dev.driver}
  BY <1>2 DEF ToSet
<1>4. DevicesApart
  BY DEF SerialInv
<1> QED BY <1>1, <1>3, <1>4 DEF LinksAgree, DevicesApart

LEMMA SerialInitial == SerialioInit => SerialInv
<1> SUFFICES ASSUME SerialioInit PROVE SerialInv
  OBVIOUS
<1>1. drvs = <<>> /\ devs = <<>> /\ held = {} /\ DOMAIN drvs = {} /\ DOMAIN devs = {}
  BY DEF SerialioInit
<1> QED BY <1>1 DEF SerialInv, DriversApart, DevicesApart, HeldIsLinked, LinksRegistered

LEMMA FirstOfIn ==
    ASSUME NEW S \in SUBSET Nat, S # {}
    PROVE  FirstOf(S) \in S
<1>1. \E i \in S : \A j \in S : i <= j
  BY LeastNatural
<1> QED BY <1>1, Zenon DEF FirstOf

LEMMA FreeIsNew ==
    ASSUME SerialInv, NEW at \in Free
    PROVE  /\ at \in Address /\ at # NoDriver
           /\ \A i \in DOMAIN drvs : drvs[i].at # at
           /\ \A i \in DOMAIN devs : devs[i].at # at
<1>1. Address \subseteq Nat \ {NoDriver}
  BY SerialioAssumption
<1> QED BY <1>1 DEF Free, ToSet
\* serialio_new_drv_from.
LEMMA NewDrvKeeps ==
    ASSUME SerialInv, NEW spec, spec.name \in Names, spec.maj \in Nat,
           NEW accepts \in BOOLEAN, NewDrv(spec, accepts)
    PROVE  SerialInv'
<1>1. PICK at \in Free :
        LET drv == [at |-> at, name |-> spec.name, maj |-> spec.maj]
            fit == {i \in DOMAIN devs : devs[i].driver = NoDriver /\ CheckMatch(devs[i], drv)}
            i   == FirstOf(fit)
        IN  /\ ~DrvRefused(spec)
            /\ drvs' = Append(drvs, drv)
            /\ IF fit = {} THEN UNCHANGED <<devs, held, tried>>
               ELSE /\ tried' = tried \cup {devs[i].at}
                    /\ devs' = IF accepts THEN [devs EXCEPT ![i].driver = at] ELSE devs
                    /\ held' = IF accepts THEN held \cup {<<at, devs[i].at>>} ELSE held
  BY DEF NewDrv
<1>2. PICK drv, n, m, D : /\ drv = [at |-> at, name |-> spec.name, maj |-> spec.maj]
                          /\ n = Len(drvs) /\ m = Len(devs) /\ D = DOMAIN devs
  OBVIOUS
<1> DEFINE fit == {i \in D : devs[i].driver = NoDriver /\ CheckMatch(devs[i], drv)}
<1>3. /\ at \in Address /\ at # NoDriver
      /\ \A i \in DOMAIN drvs : drvs[i].at # at
  BY FreeIsNew
<1>4. /\ drvs \in Seq(Drivers) /\ DOMAIN drvs = 1 .. n /\ n \in Nat
      /\ D = 1 .. m /\ m \in Nat /\ DOMAIN devs = D
      /\ \A i \in 1 .. n : drvs[i] \in Drivers
      /\ \A i \in D : devs[i] \in SerialDevices
  BY <1>2, SerialTypes DEF SerialInv
<1>5. drv \in Drivers /\ drv.at = at /\ drv.name = spec.name /\ drv.maj = spec.maj
  BY <1>2, <1>3 DEF Drivers
<1>6. /\ drvs' = Append(drvs, drv)
      /\ ~DrvRefused(spec)
  BY <1>1, <1>2
<1>7. /\ drvs' \in Seq(Drivers) /\ DOMAIN drvs' = 1 .. n + 1
      /\ \A i \in 1 .. n : drvs'[i] = drvs[i]
      /\ drvs'[n + 1] = drv
  BY <1>2, <1>4, <1>5, <1>6
<1>8. /\ Identified(drv)
      /\ \A i \in 1 .. n : /\ drvs[i].maj = drv.maj => drv.maj = NoMaj
                           /\ drvs[i].name = drv.name => drv.name = NoName
  BY <1>4, <1>5, <1>6 DEF DrvRefused, Identified, ToSet
<1>9. (\A i \in DOMAIN drvs : Identified(drvs[i]))' /\ DriversApart'
  <2>1. \A i \in 1 .. n + 1 : i \in 1 .. n \/ i = n + 1
    BY <1>4
  <2>2. \A i \in DOMAIN drvs' : Identified(drvs'[i])
    BY <1>4, <1>7, <1>8, <2>1 DEF SerialInv
  <2>3. DriversApart'
    <3> SUFFICES ASSUME NEW i \in 1 .. n + 1, NEW j \in 1 .. n + 1, i # j
                 PROVE  /\ drvs'[i].at # drvs'[j].at
                        /\ drvs'[i].maj = drvs'[j].maj => drvs'[i].maj = NoMaj
                        /\ drvs'[i].name = drvs'[j].name => drvs'[i].name = NoName
      BY <1>7 DEF DriversApart
    <3>1. CASE i \in 1 .. n /\ j \in 1 .. n
      BY <1>4, <1>7, <3>1, ZenonT(30) DEF SerialInv, DriversApart
    <3>2. CASE i \in 1 .. n /\ j = n + 1
      BY <1>3, <1>4, <1>5, <1>7, <1>8, <3>2
    <3>3. CASE i = n + 1 /\ j \in 1 .. n
      BY <1>3, <1>4, <1>5, <1>7, <1>8, <3>3
    <3> QED BY <2>1, <3>1, <3>2, <3>3
  <2> QED BY <2>2, <2>3
<1>10. CASE UNCHANGED <<devs, held>>
  <2>1. LinksRegistered'
    BY <1>4, <1>7, <1>10 DEF SerialInv, LinksRegistered
  <2>2. DevicesApart' /\ HeldIsLinked' /\ devs' \in Seq(SerialDevices) /\ (\A i \in DOMAIN devs : Identified(devs[i]))'
    BY <1>10 DEF SerialInv, DevicesApart, HeldIsLinked
  <2> QED BY <1>7, <1>9, <2>1, <2>2 DEF SerialInv
<1>11. CASE ~UNCHANGED <<devs, held>>
  <2>1. PICK f : f = FirstOf(fit)
    OBVIOUS
  <2>2. /\ fit # {}
        /\ devs' = [devs EXCEPT ![f].driver = at]
        /\ held' = held \cup {<<at, devs[f].at>>}
    BY <1>1, <1>2, <1>11, <2>1
  <2>3. f \in D /\ devs[f].driver = NoDriver /\ CheckMatch(devs[f], drv)
    <3>1. fit \in SUBSET Nat
      BY <1>4
    <3>2. f \in fit
      BY <2>1, <2>2, <3>1, FirstOfIn
    <3> QED BY <3>2
  <2> DEFINE new == [at |-> devs[f].at, name |-> devs[f].name, maj |-> devs[f].maj,
                     min |-> devs[f].min, driver |-> at]
  <2>4. devs' = [devs EXCEPT ![f] = new] /\ new \in SerialDevices
    <3>1. devs[f] \in SerialDevices
      BY <1>4, <2>3
    <3>2. [devs[f] EXCEPT !.driver = at] = new
      BY <3>1 DEF SerialDevices
    <3>3. devs' = [devs EXCEPT ![f] = [devs[f] EXCEPT !.driver = at]]
      BY <2>2
    <3>4. new \in SerialDevices
      BY <1>3, <3>1 DEF SerialDevices
    <3> QED BY <3>2, <3>3, <3>4
  <2>5. /\ devs' \in Seq(SerialDevices) /\ DOMAIN devs' = D
        /\ devs'[f] = new /\ \A i \in D : i # f => devs'[i] = devs[i]
    <3> HIDE DEF new
    <3>1. devs \in Seq(SerialDevices)
      BY DEF SerialInv
    <3> QED BY <1>4, <2>3, <2>4, <3>1
  <2>6. \A i \in D : /\ devs'[i].at = devs[i].at /\ devs'[i].name = devs[i].name
                     /\ devs'[i].maj = devs[i].maj /\ devs'[i].min = devs[i].min
                     /\ i # f => devs'[i].driver = devs[i].driver
    BY <2>5
  <2>7. devs'[f].driver = at /\ devs'[f].at = devs[f].at
    BY <2>5
  <2> HIDE DEF new
  <2>8. DevicesApart' /\ (\A i \in DOMAIN devs : Identified(devs[i]))'
    BY <1>4, <2>5, <2>6, SMTT(30) DEF SerialInv, DevicesApart, Identified
  <2>9. HeldIsLinked'
    <3> SUFFICES ASSUME NEW p
                 PROVE  p \in held' <=> \E i \in D : devs'[i].driver # NoDriver /\ p = <<devs'[i].driver, devs'[i].at>>
      BY <2>5 DEF HeldIsLinked
    <3>1. p \in held <=> \E i \in D : devs[i].driver # NoDriver /\ p = <<devs[i].driver, devs[i].at>>
      BY <1>4 DEF SerialInv, HeldIsLinked
    <3>2. ASSUME p \in held'
          PROVE  \E i \in D : devs'[i].driver # NoDriver /\ p = <<devs'[i].driver, devs'[i].at>>
      <4>1. CASE p = <<at, devs[f].at>>
        BY <1>3, <2>3, <2>7, <4>1
      <4>2. CASE p \in held
        BY <2>3, <2>6, <3>1, <4>2
      <4> QED BY <2>2, <3>2, <4>1, <4>2
    <3>3. ASSUME NEW i \in D, devs'[i].driver # NoDriver, p = <<devs'[i].driver, devs'[i].at>>
          PROVE  p \in held'
      BY <2>2, <2>6, <2>7, <3>1, <3>3
    <3> QED BY <3>2, <3>3
  <2>10. LinksRegistered'
    <3> SUFFICES ASSUME NEW i \in D, devs'[i].driver # NoDriver
                 PROVE  \E k \in 1 .. n + 1 : drvs'[k].at = devs'[i].driver /\ CheckMatch(devs'[i], drvs'[k])
      BY <1>7, <2>5 DEF LinksRegistered
    <3>1. CASE i = f
      <4>1. n + 1 \in 1 .. n + 1 /\ drvs'[n + 1].at = devs'[i].driver
        BY <1>4, <1>5, <1>7, <2>7, <3>1
      <4>2. CheckMatch(devs'[i], drvs'[n + 1])
        BY <1>7, <2>3, <2>6, <3>1 DEF CheckMatch
      <4> QED BY <4>1, <4>2
    <3>2. CASE i # f
      <4>1. PICK k \in 1 .. n : drvs[k].at = devs[i].driver /\ CheckMatch(devs[i], drvs[k])
        BY <1>4, <2>6, <3>2 DEF SerialInv, LinksRegistered
      <4>2. k \in 1 .. n + 1 /\ drvs'[k] = drvs[k] /\ devs'[i] = devs[i]
        BY <1>4, <1>7, <2>5, <3>2, <4>1
      <4> QED BY <4>1, <4>2
    <3> QED BY <3>1, <3>2
  <2> QED BY <1>7, <1>9, <2>5, <2>8, <2>9, <2>10 DEF SerialInv
<1> QED BY <1>10, <1>11

\* serialio_new_dev.
LEMMA NewDevKeeps ==
    ASSUME SerialInv, NEW spec, spec.name \in Names, spec.maj \in Nat, spec.min \in Minors,
           NEW accepts \in BOOLEAN, NewDev(spec, accepts)
    PROVE  SerialInv'
<1>1. PICK at \in Free :
        LET dev == [at |-> at, name |-> spec.name, maj |-> spec.maj, min |-> spec.min,
                    driver |-> NoDriver]
            fit == {i \in DOMAIN drvs : CheckMatch(dev, drvs[i])}
            drv == drvs[FirstOf(fit)]
        IN  /\ ~DevRefused(spec)
            /\ UNCHANGED drvs
            /\ IF fit = {}
               THEN devs' = Append(devs, dev) /\ tried' = tried \ {at} /\ UNCHANGED held
               ELSE /\ tried' = tried \cup {at}
                    /\ devs' = Append(devs, IF accepts THEN [dev EXCEPT !.driver = drv.at] ELSE dev)
                    /\ held' = IF accepts THEN held \cup {<<drv.at, at>>} ELSE held
  BY DEF NewDev
<1>2. PICK dev, m, D : /\ dev = [at |-> at, name |-> spec.name, maj |-> spec.maj, min |-> spec.min,
                                driver |-> NoDriver]
                       /\ m = Len(devs) /\ D = DOMAIN drvs
  OBVIOUS
<1> DEFINE fit == {i \in D : CheckMatch(dev, drvs[i])}
<1>3. /\ at \in Address /\ at # NoDriver
      /\ \A i \in DOMAIN devs : devs[i].at # at
  BY FreeIsNew
<1>4. /\ devs \in Seq(SerialDevices) /\ DOMAIN devs = 1 .. m /\ m \in Nat
      /\ D = 1 .. Len(drvs) /\ D \in SUBSET Nat
      /\ \A i \in D : drvs[i] \in Drivers
      /\ \A i \in 1 .. m : devs[i] \in SerialDevices
  BY <1>2, SerialTypes DEF SerialInv
<1>5. drvs' = drvs /\ ~DevRefused(spec)
  BY <1>1
\* The new entry, linked or not.
<1>6. PICK new : /\ devs' = Append(devs, new) /\ new \in SerialDevices
                 /\ new.at = at /\ new.name = spec.name /\ new.maj = spec.maj /\ new.min = spec.min
                 /\ \/ new.driver = NoDriver /\ held' = held
                    \/ /\ held' = held \cup {<<new.driver, at>>} /\ new.driver # NoDriver
                       /\ \E k \in D : drvs[k].at = new.driver /\ CheckMatch(new, drvs[k])
  <2>1. dev \in SerialDevices
    BY <1>2, <1>3 DEF SerialDevices
  <2>2. CASE held' = held /\ devs' = Append(devs, dev)
    BY <1>2, <2>1, <2>2
  <2>3. CASE ~(held' = held /\ devs' = Append(devs, dev))
    <3>1. PICK f : f = FirstOf(fit)
      OBVIOUS
    <3>2. /\ fit # {}
          /\ devs' = Append(devs, [dev EXCEPT !.driver = drvs[f].at])
          /\ held' = held \cup {<<drvs[f].at, at>>}
      BY <1>1, <1>2, <2>3, <3>1
    <3>3. fit \in SUBSET Nat
      BY <1>4
    <3>4. f \in D /\ CheckMatch(dev, drvs[f])
      BY <3>1, <3>2, <3>3, FirstOfIn
    <3>5. drvs[f].at \in Address /\ drvs[f].at # NoDriver
      <4>1. Address \subseteq Nat \ {NoDriver}
        BY SerialioAssumption
      <4> QED BY <1>4, <3>4, <4>1 DEF Drivers
    <3> DEFINE e == [at |-> at, name |-> spec.name, maj |-> spec.maj, min |-> spec.min,
                     driver |-> drvs[f].at]
    <3>6. [dev EXCEPT !.driver = drvs[f].at] = e
      BY <1>2
    <3>7. e \in SerialDevices
      BY <1>3, <3>5 DEF SerialDevices
    <3>8. CheckMatch(e, drvs[f])
      BY <1>2, <3>4 DEF CheckMatch
    <3>9. /\ e.at = at /\ e.name = spec.name /\ e.maj = spec.maj /\ e.min = spec.min
          /\ e.driver = drvs[f].at
      OBVIOUS
    <3> HIDE DEF e
    <3> QED BY <3>2, <3>4, <3>5, <3>6, <3>7, <3>8, <3>9
  <2> QED BY <2>2, <2>3
<1>7. /\ devs' \in Seq(SerialDevices) /\ DOMAIN devs' = 1 .. m + 1
      /\ \A i \in 1 .. m : devs'[i] = devs[i]
      /\ devs'[m + 1] = new
  BY <1>2, <1>4, <1>6
<1>8. /\ Identified(new)
      /\ \A i \in 1 .. m : /\ devs[i].min = new.min /\ devs[i].maj = new.maj => new.maj = NoMaj
                           /\ devs[i].min = new.min /\ devs[i].name = new.name => new.name = NoName
  BY <1>4, <1>5, <1>6 DEF DevRefused, Identified, ToSet
<1>9. \A i \in 1 .. m + 1 : i \in 1 .. m \/ i = m + 1
  BY <1>4
<1>10. \A i \in DOMAIN devs' : Identified(devs'[i])
  BY <1>4, <1>7, <1>8, <1>9 DEF SerialInv
<1>11. DevicesApart'
  <2> SUFFICES ASSUME NEW i \in 1 .. m + 1, NEW j \in 1 .. m + 1, i # j
               PROVE  /\ devs'[i].at # devs'[j].at
                      /\ devs'[i].min = devs'[j].min /\ devs'[i].maj = devs'[j].maj => devs'[i].maj = NoMaj
                      /\ devs'[i].min = devs'[j].min /\ devs'[i].name = devs'[j].name => devs'[i].name = NoName
    BY <1>7 DEF DevicesApart
  <2>1. CASE i \in 1 .. m /\ j \in 1 .. m
    <3>1. devs'[i] = devs[i] /\ devs'[j] = devs[j] /\ i \in DOMAIN devs /\ j \in DOMAIN devs
      BY <1>4, <1>7, <2>1
    <3> QED BY <3>1 DEF SerialInv, DevicesApart
  <2>2. CASE i \in 1 .. m /\ j = m + 1
    <3>1. devs'[i] = devs[i] /\ devs'[j] = new
      BY <1>7, <2>2
    <3>2. devs[i].at # new.at
      BY <1>3, <1>4, <1>6, <2>2
    <3> QED BY <1>8, <2>2, <3>1, <3>2
  <2>3. CASE i = m + 1 /\ j \in 1 .. m
    BY <1>3, <1>4, <1>6, <1>7, <1>8, <2>3
  <2> QED BY <1>9, <2>1, <2>2, <2>3
<1>12. HeldIsLinked'
  <2> SUFFICES ASSUME NEW p
               PROVE  p \in held' <=> \E i \in 1 .. m + 1 : devs'[i].driver # NoDriver /\ p = <<devs'[i].driver, devs'[i].at>>
    BY <1>7 DEF HeldIsLinked
  <2>1. p \in held <=> \E i \in 1 .. m : devs[i].driver # NoDriver /\ p = <<devs[i].driver, devs[i].at>>
    BY <1>4 DEF SerialInv, HeldIsLinked
  <2>2. p \in held' <=> p \in held \/ (new.driver # NoDriver /\ p = <<new.driver, new.at>>)
    BY <1>6
  <2>3. \A i \in 1 .. m : i \in 1 .. m + 1
    BY <1>4
  <2>4. m + 1 \in 1 .. m + 1
    BY <1>4
  <2> QED BY <1>7, <1>9, <2>1, <2>2, <2>3, <2>4
<1>13. LinksRegistered'
  <2> SUFFICES ASSUME NEW i \in 1 .. m + 1, devs'[i].driver # NoDriver
               PROVE  \E k \in D : drvs[k].at = devs'[i].driver /\ CheckMatch(devs'[i], drvs[k])
    BY <1>2, <1>5, <1>7 DEF LinksRegistered
  <2>1. CASE i = m + 1
    BY <1>6, <1>7, <2>1
  <2>2. CASE i \in 1 .. m
    BY <1>2, <1>4, <1>7, <2>2 DEF SerialInv, LinksRegistered
  <2> QED BY <1>9, <2>1, <2>2
<1>14. DriversApart' /\ drvs' \in Seq(Drivers) /\ (\A i \in DOMAIN drvs : Identified(drvs[i]))'
  BY <1>5 DEF SerialInv, DriversApart
<1> QED BY <1>7, <1>10, <1>11, <1>12, <1>13, <1>14 DEF SerialInv

LEMMA Concatenated ==
    ASSUME NEW S, NEW a \in Seq(S), NEW b \in Seq(S)
    PROVE  a \o b \in Seq(S) /\ Len(a \o b) = Len(a) + Len(b)
OBVIOUS

\* Where an entry of a list was before the one at k was removed.
Before(k, i) == IF i < k THEN i ELSE i + 1

\* r is s without the entry at k.
Shifted(S, s, k, r) ==
    /\ r \in Seq(S) /\ DOMAIN r = 1 .. Len(s) - 1
    /\ \A i \in 1 .. Len(s) - 1 : /\ Before(k, i) \in 1 .. Len(s) /\ Before(k, i) # k
                                /\ r[i] = s[Before(k, i)]
    /\ \A j \in 1 .. Len(s) : j # k => \E i \in 1 .. Len(s) - 1 : Before(k, i) = j

LEMMA RemoveAtPlaces ==
    ASSUME NEW S, NEW s \in Seq(S), NEW k \in 1 .. Len(s), NEW r, r = RemoveAt(s, k)
    PROVE  Shifted(S, s, k, r)
<1> DEFINE n == Len(s)
           a == SubSeq(s, 1, k - 1)
           b == SubSeq(s, k + 1, n)
           From(i) == Before(k, i)
<1>1. n \in Nat /\ k \in Nat /\ 1 <= k /\ k <= n
  OBVIOUS
<1>2. \A i \in 1 .. n : s[i] \in S
  BY Elements
<1>3. a \in Seq(S) /\ Len(a) = k - 1 /\ \A i \in 1 .. k - 1 : a[i] = s[i]
  <2>1. a = [i \in 1 .. k - 1 |-> s[i]]
    BY <1>1
  <2>2. \A i \in 1 .. k - 1 : s[i] \in S
    BY <1>1, <1>2
  <2> QED BY <1>1, <2>1, <2>2
<1>4. b \in Seq(S) /\ Len(b) = n - k /\ \A i \in 1 .. n - k : b[i] = s[i + k]
  <2>1. b = [i \in 1 .. n - k |-> s[i + k]]
    BY <1>1
  <2>2. \A i \in 1 .. n - k : s[i + k] \in S
    BY <1>1, <1>2
  <2> HIDE DEF b
  <2> QED BY <1>1, <2>1, <2>2
<1>5. r = a \o b
  BY DEF RemoveAt
<1> HIDE DEF a, b
<1> USE DEF Before
<1>6. r \in Seq(S) /\ Len(r) = n - 1 /\ DOMAIN r = 1 .. n - 1
  <2>1. r \in Seq(S) /\ Len(r) = Len(a) + Len(b)
    BY <1>3, <1>4, <1>5, Concatenated
  <2>2. Len(r) = n - 1
    BY <1>1, <1>3, <1>4, <2>1
  <2> QED BY <2>1, <2>2
<1>7. ASSUME NEW i \in 1 .. n - 1 PROVE From(i) \in 1 .. n /\ From(i) # k /\ r[i] = s[From(i)]
  <2>1. CASE i < k
    <3>1. i \in 1 .. k - 1 /\ r[i] = a[i]
      BY <1>1, <1>3, <1>4, <1>5, <2>1
    <3> QED BY <1>1, <1>3, <2>1, <3>1
  <2>2. CASE ~(i < k)
    <3>1. i - (k - 1) \in 1 .. n - k /\ r[i] = b[i - (k - 1)] /\ (i - (k - 1)) + k = i + 1
      BY <1>1, <1>3, <1>4, <1>5, <2>2, SMTT(30)
    <3> QED BY <1>1, <1>4, <2>2, <3>1
  <2> QED BY <2>1, <2>2
<1>8. ASSUME NEW j \in 1 .. n, j # k PROVE \E i \in 1 .. n - 1 : From(i) = j
  <2>1. CASE j < k
    <3>1. j \in 1 .. n - 1 /\ From(j) = j
      BY <1>1, <2>1
    <3> QED BY <3>1
  <2>2. CASE ~(j < k)
    <3>1. j - 1 \in 1 .. n - 1 /\ From(j - 1) = j
      BY <1>1, <1>8, <2>2
    <3> QED BY <3>1
  <2> QED BY <2>1, <2>2
<1> QED BY <1>6, <1>7, <1>8 DEF Shifted

\* serialio_delete_dev_by_name.
LEMMA DeleteDevKeeps ==
    ASSUME SerialInv, NEW name, DeleteDev(name, TRUE)
    PROVE  SerialInv'
<1>1. PICK k, n : k = FirstOf({i \in DOMAIN devs : devs[i].name = name}) /\ n = Len(devs)
  OBVIOUS
<1>2. /\ {i \in DOMAIN devs : devs[i].name = name} # {}
      /\ devs' = RemoveAt(devs, k)
      /\ held' = held \ {<<devs[k].driver, devs[k].at>>}
      /\ drvs' = drvs
  BY <1>1 DEF DeleteDev
<1>3. devs \in Seq(SerialDevices) /\ DOMAIN devs = 1 .. n /\ n \in Nat
  BY <1>1, SerialTypes DEF SerialInv
<1>4. k \in 1 .. n
  <2>1. {i \in DOMAIN devs : devs[i].name = name} \in SUBSET Nat
    BY <1>3
  <2> QED BY <1>1, <1>2, <1>3, <2>1, FirstOfIn
<1> DEFINE From(i) == Before(k, i)
           D == 1 .. n - 1
<1>5. /\ devs' \in Seq(SerialDevices) /\ DOMAIN devs' = D
      /\ \A i \in D : From(i) \in 1 .. n /\ From(i) # k /\ devs'[i] = devs[From(i)]
      /\ \A j \in 1 .. n : j # k => \E i \in D : From(i) = j
  <2>1. k \in 1 .. Len(devs) /\ devs \in Seq(SerialDevices)
    BY <1>1, <1>3, <1>4
  <2>2. /\ devs' \in Seq(SerialDevices) /\ DOMAIN devs' = 1 .. Len(devs) - 1
        /\ \A i \in 1 .. Len(devs) - 1 : /\ From(i) \in 1 .. Len(devs) /\ From(i) # k
                                       /\ devs'[i] = devs[From(i)]
        /\ \A j \in 1 .. Len(devs) : j # k => \E i \in 1 .. Len(devs) - 1 : From(i) = j
    <3>1. Shifted(SerialDevices, devs, k, devs')
      BY <1>2, <2>1, RemoveAtPlaces
    <3> QED BY <3>1 DEF Shifted
  <2> QED BY <1>1, <2>2
<1>6. \A i, j \in D : i # j => From(i) # From(j)
  BY <1>3, <1>4 DEF Before
<1> HIDE DEF From, D
<1>7. DevicesApart' /\ (\A i \in DOMAIN devs : Identified(devs[i]))'
  BY <1>3, <1>5, <1>6, SMTT(30) DEF SerialInv, DevicesApart
<1>8. LinksRegistered'
  BY <1>2, <1>3, <1>5 DEF SerialInv, LinksRegistered
<1>9. HeldIsLinked'
  <2> SUFFICES ASSUME NEW p
               PROVE  p \in held' <=> \E i \in D : devs'[i].driver # NoDriver /\ p = <<devs'[i].driver, devs'[i].at>>
    BY <1>5 DEF HeldIsLinked
  <2>1. p \in held <=> \E i \in 1 .. n : devs[i].driver # NoDriver /\ p = <<devs[i].driver, devs[i].at>>
    BY <1>3 DEF SerialInv, HeldIsLinked
  <2>2. \A i \in 1 .. n : i # k => devs[i].at # devs[k].at
    BY <1>3, <1>4 DEF SerialInv, DevicesApart
  <2>3. ASSUME p \in held'
        PROVE  \E i \in D : devs'[i].driver # NoDriver /\ p = <<devs'[i].driver, devs'[i].at>>
    <3>1. PICK j \in 1 .. n : devs[j].driver # NoDriver /\ p = <<devs[j].driver, devs[j].at>>
      BY <1>2, <2>1, <2>3
    <3>2. j # k
      BY <1>2, <2>3, <3>1
    <3>3. PICK i \in D : From(i) = j
      BY <1>5, <3>2
    <3>4. devs'[i] = devs[j]
      BY <1>5, <3>3
    <3> QED BY <3>1, <3>3, <3>4
  <2>4. ASSUME NEW i \in D, devs'[i].driver # NoDriver, p = <<devs'[i].driver, devs'[i].at>>
        PROVE  p \in held'
    <3>1. PICK j : j = From(i)
      OBVIOUS
    <3>2. j \in 1 .. n /\ j # k /\ devs'[i] = devs[j]
      BY <1>5, <3>1
    <3>3. p \in held /\ p # <<devs[k].driver, devs[k].at>>
      BY <2>1, <2>2, <2>4, <3>2
    <3> QED BY <1>2, <3>3
  <2> QED BY <2>3, <2>4
<1>10. DriversApart' /\ drvs' \in Seq(Drivers) /\ (\A i \in DOMAIN drvs : Identified(drvs[i]))'
  BY <1>2 DEF SerialInv, DriversApart
<1> QED BY <1>5, <1>7, <1>8, <1>9, <1>10 DEF SerialInv

LEMMA DriverRemoved ==
    ASSUME drvs \in Seq(Drivers), NEW k, k \in 1 .. Len(drvs), drvs' = RemoveAt(drvs, k)
    PROVE  /\ drvs' \in Seq(Drivers) /\ DOMAIN drvs' = 1 .. Len(drvs) - 1
           /\ \A i \in 1 .. Len(drvs) - 1 : /\ Before(k, i) \in 1 .. Len(drvs) /\ Before(k, i) # k
                                            /\ drvs'[i] = drvs[Before(k, i)]
           /\ \A j \in 1 .. Len(drvs) : j # k => \E i \in 1 .. Len(drvs) - 1 : Before(k, i) = j
BY RemoveAtPlaces DEF Shifted

\* serialio_delete_drv, whether or not one of the devices is refused.
LEMMA DeleteDrvKeeps ==
    ASSUME SerialInv, NEW k \in DOMAIN drvs, NEW stop, DeleteDrv(k, stop)
    PROVE  SerialInv'
<1>1. PICK drv, linked, gone, D, n :
        /\ drv = drvs[k] /\ linked = {i \in DOMAIN devs : devs[i].driver = drv.at}
        /\ gone = {i \in linked : i < stop} /\ D = DOMAIN devs /\ n = Len(drvs)
  OBVIOUS
<1>2. /\ devs' = [i \in D |-> IF i \in gone THEN [devs[i] EXCEPT !.driver = NoDriver] ELSE devs[i]]
      /\ held' = held \ {<<drv.at, devs[i].at>> : i \in gone}
      /\ drvs' = IF gone = linked THEN RemoveAt(drvs, k) ELSE drvs
  BY <1>1 DEF DeleteDrv, Unlinked, LinkedTo
<1>3. /\ D = 1 .. Len(devs) /\ Len(devs) \in Nat /\ \A i \in D : devs[i] \in SerialDevices
      /\ drvs \in Seq(Drivers) /\ DOMAIN drvs = 1 .. n /\ n \in Nat
      /\ \A i \in 1 .. n : drvs[i] \in Drivers
  BY <1>1, SerialTypes DEF SerialInv
<1>4. gone \subseteq linked /\ linked \subseteq D /\ \A i \in D : i \in linked <=> devs[i].driver = drv.at
  BY <1>1
<1>5. drv.at # NoDriver /\ drv.at \in Address
  <2>1. Address \subseteq Nat \ {NoDriver}
    BY SerialioAssumption
  <2> QED BY <1>1, <1>3, <2>1 DEF Drivers
<1>6. \A i \in D : /\ devs'[i] \in SerialDevices
                   /\ devs'[i].at = devs[i].at /\ devs'[i].name = devs[i].name
                   /\ devs'[i].maj = devs[i].maj /\ devs'[i].min = devs[i].min
                   /\ devs'[i].driver = (IF i \in gone THEN NoDriver ELSE devs[i].driver)
  <2> SUFFICES ASSUME NEW i \in D
               PROVE  /\ devs'[i] \in SerialDevices
                      /\ devs'[i].at = devs[i].at /\ devs'[i].name = devs[i].name
                      /\ devs'[i].maj = devs[i].maj /\ devs'[i].min = devs[i].min
                      /\ devs'[i].driver = (IF i \in gone THEN NoDriver ELSE devs[i].driver)
    OBVIOUS
  <2>1. devs[i] \in SerialDevices
    BY <1>3
  <2>2. [devs[i] EXCEPT !.driver = NoDriver] =
            [at |-> devs[i].at, name |-> devs[i].name, maj |-> devs[i].maj, min |-> devs[i].min, driver |-> NoDriver]
    BY <2>1 DEF SerialDevices
  <2>3. devs'[i] = IF i \in gone THEN [at |-> devs[i].at, name |-> devs[i].name, maj |-> devs[i].maj,
                                       min |-> devs[i].min, driver |-> NoDriver]
                   ELSE devs[i]
    BY <1>2, <2>2
  <2> QED BY <2>1, <2>3 DEF SerialDevices
<1>7. DOMAIN devs' = D /\ devs' \in Seq(SerialDevices)
  <2>1. DOMAIN devs' = D
    BY <1>2
  <2>2. devs' \in [1 .. Len(devs) -> SerialDevices]
    BY <1>2, <1>3, <1>6
  <2> QED BY <1>3, <2>1, <2>2
<1>8. DevicesApart' /\ (\A i \in DOMAIN devs : Identified(devs[i]))'
  BY <1>1, <1>6, <1>7 DEF SerialInv, DevicesApart, Identified
<1>9. HeldIsLinked'
  <2> SUFFICES ASSUME NEW p
               PROVE  p \in held' <=> \E i \in D : devs'[i].driver # NoDriver /\ p = <<devs'[i].driver, devs'[i].at>>
    BY <1>7 DEF HeldIsLinked
  <2>1. p \in held <=> \E i \in D : devs[i].driver # NoDriver /\ p = <<devs[i].driver, devs[i].at>>
    BY <1>1 DEF SerialInv, HeldIsLinked
  <2>2. \A i, j \in D : i # j => devs[i].at # devs[j].at
    BY <1>1 DEF SerialInv, DevicesApart
  <2>3. ASSUME p \in held'
        PROVE  \E i \in D : devs'[i].driver # NoDriver /\ p = <<devs'[i].driver, devs'[i].at>>
    <3>1. PICK j \in D : devs[j].driver # NoDriver /\ p = <<devs[j].driver, devs[j].at>>
      BY <1>2, <2>1, <2>3
    <3>2. j \notin gone
      BY <1>2, <1>4, <2>3, <3>1
    <3> QED BY <1>6, <3>1, <3>2
  <2>4. ASSUME NEW i \in D, devs'[i].driver # NoDriver, p = <<devs'[i].driver, devs'[i].at>>
        PROVE  p \in held'
    <3>1. i \notin gone /\ p = <<devs[i].driver, devs[i].at>> /\ devs[i].driver # NoDriver
      BY <1>6, <2>4
    <3>2. p \in held
      BY <2>1, <3>1
    <3>3. \A j \in gone : p # <<drv.at, devs[j].at>>
      BY <1>4, <2>2, <3>1
    <3> QED BY <1>2, <3>2, <3>3
  <2> QED BY <2>3, <2>4
<1>10. \A i \in D : \A d : CheckMatch(devs'[i], d) <=> CheckMatch(devs[i], d)
  BY <1>6 DEF CheckMatch
<1>11. ASSUME NEW i \in D, devs'[i].driver # NoDriver
       PROVE  /\ i \notin gone /\ devs'[i].driver = devs[i].driver
              /\ \E j \in 1 .. n : drvs[j].at = devs[i].driver /\ CheckMatch(devs[i], drvs[j])
  <2>1. i \notin gone /\ devs'[i].driver = devs[i].driver
    BY <1>6, <1>11
  <2> QED BY <1>1, <1>3, <1>11, <2>1 DEF SerialInv, LinksRegistered
<1>12. CASE drvs' = drvs
  <2>1. LinksRegistered'
    <3> SUFFICES ASSUME NEW i \in D, devs'[i].driver # NoDriver
                 PROVE  \E j \in 1 .. n : drvs[j].at = devs'[i].driver /\ CheckMatch(devs'[i], drvs[j])
      BY <1>3, <1>7, <1>12 DEF LinksRegistered
    <3> QED BY <1>10, <1>11
  <2>2. DriversApart' /\ drvs' \in Seq(Drivers) /\ (\A i \in DOMAIN drvs : Identified(drvs[i]))'
    BY <1>12 DEF SerialInv, DriversApart
  <2> QED BY <1>7, <1>8, <1>9, <2>1, <2>2 DEF SerialInv
<1>13. CASE gone = linked /\ drvs' = RemoveAt(drvs, k)
  <2> DEFINE From(i) == Before(k, i)
             E == 1 .. n - 1
  <2>1. /\ drvs' \in Seq(Drivers) /\ DOMAIN drvs' = E
        /\ \A i \in E : From(i) \in 1 .. n /\ From(i) # k /\ drvs'[i] = drvs[From(i)]
        /\ \A j \in 1 .. n : j # k => \E i \in E : From(i) = j
    <3>1. drvs \in Seq(Drivers) /\ k \in 1 .. Len(drvs) /\ drvs' = RemoveAt(drvs, k)
      BY <1>1, <1>3, <1>13
    <3> QED BY <1>1, <3>1, DriverRemoved
  <2>2. \A i, j \in E : i # j => From(i) # From(j)
    BY <1>3 DEF Before
  <2> HIDE DEF From, E
  <2>3. DriversApart' /\ (\A i \in DOMAIN drvs : Identified(drvs[i]))'
    BY <1>3, <2>1, <2>2 DEF SerialInv, DriversApart
  <2>4. LinksRegistered'
    <3> SUFFICES ASSUME NEW i \in D, devs'[i].driver # NoDriver
                 PROVE  \E j \in E : drvs'[j].at = devs'[i].driver /\ CheckMatch(devs'[i], drvs'[j])
      BY <1>7, <2>1 DEF LinksRegistered
    <3>1. i \notin linked /\ devs'[i].driver = devs[i].driver
      BY <1>11, <1>13
    <3>2. PICK j \in 1 .. n : drvs[j].at = devs[i].driver /\ CheckMatch(devs[i], drvs[j])
      BY <1>11
    <3>3. j # k
      BY <1>1, <1>4, <3>1, <3>2
    <3>4. PICK h \in E : From(h) = j
      BY <2>1, <3>3
    <3>5. drvs'[h] = drvs[j]
      BY <2>1, <3>4
    <3> QED BY <1>10, <3>1, <3>2, <3>4, <3>5
  <2> QED BY <1>7, <1>8, <1>9, <2>1, <2>3, <2>4 DEF SerialInv
<1> QED BY <1>2, <1>12, <1>13

LEMMA SerialRests == SerialInv /\ UNCHANGED serialioVars => SerialInv'
BY DEF SerialInv, serialioVars, DriversApart, DevicesApart, HeldIsLinked, LinksRegistered

LEMMA SpecTypes ==
    /\ \A s \in DriverSpecs : s.name \in Names /\ s.maj \in Nat
    /\ \A s \in DeviceSpecs : s.name \in Names /\ s.maj \in Nat /\ s.min \in Minors
    /\ Kbd.name \in Names /\ Kbd.maj \in Nat /\ Kbd.min \in Minors
<1>1. \A s \in DriverSpecs \cup DeviceSpecs : s.maj \in Nat
  BY SerialioAssumption
<1> QED BY <1>1 DEF Names, Minors, Kbd, NoMaj

LEMMA SerialKeeps == SerialInv /\ (SerialioNext \/ Ps2Next \/ UNCHANGED serialioVars) => SerialInv'
<1> SUFFICES ASSUME SerialInv, SerialioNext \/ Ps2Next \/ UNCHANGED serialioVars PROVE SerialInv'
  OBVIOUS
<1>1. CASE SerialioNext
  <2>1. CASE \E spec \in DriverSpecs : NewDrvFails(spec) \/ \E accepts \in BOOLEAN : NewDrv(spec, accepts)
    BY <2>1, NewDrvKeeps, SerialRests, SpecTypes DEF NewDrvFails
  <2>2. CASE \E spec \in DeviceSpecs : NewDevFails(spec) \/ \E accepts \in BOOLEAN : NewDev(spec, accepts)
    BY <2>2, NewDevKeeps, SerialRests, SpecTypes DEF NewDevFails
  <2>3. CASE \E k \in DOMAIN drvs : \E stop \in LinkedTo(drvs[k]) \cup {Len(devs) + 1} : DeleteDrv(k, stop)
    BY <2>3, DeleteDrvKeeps
  <2>4. CASE \E spec \in DeviceSpecs : DeleteDevFails(spec.name) \/ DeleteDev(spec.name, TRUE)
    BY <2>4, DeleteDevKeeps, SerialRests DEF DeleteDevFails
  <2> QED BY <1>1, <2>1, <2>2, <2>3, <2>4 DEF SerialioNext
<1>2. CASE Ps2Next
  <2>1. CASE \E accepts \in BOOLEAN : NewDev(Kbd, accepts)
    BY <2>1, NewDevKeeps, SpecTypes
  <2>2. CASE \E accepts \in BOOLEAN : NewDrv([name |-> "ps2kbd", maj |-> NoMaj], accepts)
    <3>1. PICK spec : spec = [name |-> "ps2kbd", maj |-> NoMaj]
      OBVIOUS
    <3>2. spec.name \in Names /\ spec.maj \in Nat
      BY <3>1, SpecTypes DEF Kbd, NoMaj
    <3> QED BY <2>2, <3>1, <3>2, NewDrvKeeps
  <2>3. CASE UNCHANGED serialioVars
    BY <2>3, SerialRests
  <2> QED BY <1>2, <2>1, <2>2, <2>3 DEF Ps2Next, RegisterDevice, Ps2kbdMain, NoKeyboard
<1> QED BY <1>1, <1>2, SerialRests

\* LinksAgree for every set of drivers, devices and addresses: through
\* registrations, refusals, deletions that stop half way and addresses used
\* again, a device's driver is registered, holds it, and is the only one that
\* matches it (serialio_new_drv_from, serialio_new_dev, serialio_delete_drv,
\* serialio_delete_dev_by_name).
THEOREM LinksStayAgreed == Spec => []LinksAgree
<1>1. Init => SerialInv
  BY SerialInitial DEF Init
<1>2. SerialInv /\ [Next]_vars => SerialInv'
  <2> SUFFICES ASSUME SerialInv, [Next]_vars PROVE SerialInv'
    OBVIOUS
  <2>1. SerialioNext \/ Ps2Next \/ UNCHANGED serialioVars
    BY DEF Next, vars
  <2> QED BY <2>1, SerialKeeps
<1>3. SerialInv => LinksAgree
  BY SerialInvImplies
<1> QED BY <1>1, <1>2, <1>3, PTL DEF Spec

-----------------------------------------------------------------------------
HasKeyboard == \E d \in ToSet(devs) : d.name = Kbd.name

Sound == <<Ack, Passed>>

\* Between disabling scanning and the reset: its answer is in the device or in
\* the controller.
ResetAhead ==
    IF device.reset = <<>> THEN queue = <<>> /\ full = FALSE
    ELSE \/ queue = <<Ack>> /\ full = FALSE
         \/ queue = <<>> /\ full = TRUE /\ latch = Ack

\* While ps2io_reset_device waits.  Every byte is read before the next one
\* comes, so the result of the self test finds ack set.
Resetting ==
    \/ device.reset = <<>> /\ queue = <<>> /\ full = FALSE /\ ack = FALSE
    \/ \E r \in {Passed, Failed} :
        /\ device.reset = <<Ack, r>>
        /\ \/ queue = <<Ack, Ack, r>> /\ full = FALSE
           \/ queue = <<Ack, r>> /\ IF full THEN latch = Ack ELSE ack = TRUE
           \/ queue = <<r>> /\ IF full THEN latch = Ack ELSE ack = TRUE
           \/ queue = <<>> /\ full = TRUE /\ latch = r /\ ack = TRUE

\* While ps2io_identify_device waits: before the first acknowledgement, after
\* it, and behind the first and the second byte of the identity.
Asked == latch = Passed /\ ack = FALSE /\ ident = <<>> /\ queue \in {<<Ack>> \o (<<Ack>> \o device.id), <<Ack>>}
Acked == latch = Ack /\ ident = <<>> /\ queue \in {<<Ack>> \o device.id, device.id, <<>>}
Noted(a) == ident = <<>> \/ (ident = <<a>> /\ prev = a)
FirstByte ==
    \/ \E a : device.id = <<a>> /\ latch = a /\ queue = <<>> /\ Noted(a)
    \/ \E a, b : device.id = <<a, b>> /\ latch = a /\ queue = <<b>> /\ Noted(a)
SecondByte ==
    \E a, b : /\ device.id = <<a, b>> /\ latch = b /\ queue = <<>>
              /\ Noted(b) \/ ident = <<a>> \/ ident = <<a, b>>

Identifying == device.reset = Sound /\ (Asked \/ Acked \/ FirstByte \/ SecondByte)

\* The loop has ended by its timeout or with both bytes.
IdentityRead ==
    /\ device.reset = Sound
    /\ \/ failed = TRUE /\ (ident = <<>> \/ \E a : ident = <<a>>)
       \/ ident = device.id /\ \E a, b : ident = <<a, b>>

\* Where ps2io_main is, and what the device still has to send.
PortInv ==
    /\ device.id \in Ids
    /\ device.reset \in {<<Ack, Passed>>, <<Ack, Failed>>, <<>>}
    /\ full \in BOOLEAN /\ ack \in BOOLEAN /\ failed \in BOOLEAN
    /\ HasKeyboard => pc = "done" /\ device.id \in Keyboards /\ device.reset = Sound
    /\ \/ pc = "controller" /\ step \in 1 .. 9 /\ queue = <<>> /\ full = FALSE
       \/ pc = "reset" /\ ResetAhead
       \/ pc = "resetting" /\ Resetting
       \/ pc = "scanning off" /\ device.reset = Sound /\ queue = <<>> /\ full = FALSE /\ latch = Passed
       \/ pc = "identifying" /\ Identifying
       \/ pc = "identified" /\ IdentityRead
       \/ /\ pc = "done"
          /\ device.id \in Keyboards /\ device.reset = Sound => failed = TRUE \/ HasKeyboard

LEMMA PortInvImplies == PortInv => KeyboardIdentified
BY DEF PortInv, KeyboardIdentified, HasKeyboard, Sound

LEMMA PortInitial == Ps2Init /\ SerialioInit => PortInv
<1> SUFFICES ASSUME Ps2Init, SerialioInit PROVE PortInv
  OBVIOUS
<1>1. ~HasKeyboard
  BY DEF SerialioInit, HasKeyboard, ToSet
<1>2. device.id \in Ids /\ device.reset \in {<<Ack, Passed>>, <<Ack, Failed>>, <<>>}
  BY DEF Ps2Init
<1>3. /\ pc = "controller" /\ step \in 1 .. 9 /\ queue = <<>> /\ full = FALSE
      /\ ack = FALSE /\ failed = FALSE
  BY DEF Ps2Init
<1> QED BY <1>1, <1>2, <1>3 DEF PortInv

\* The bytes are told apart.
LEMMA BytesDiffer == Ack # Passed /\ Ack # Failed /\ Passed # Failed /\ Ack # NoData /\ Passed # NoData /\ Failed # NoData
BY DEF Ack, Passed, Failed, NoData

\* Sequences with the same entries are the same.
LEMMA SameSeq ==
    ASSUME NEW S, NEW s \in Seq(S), NEW t \in Seq(S), Len(s) = Len(t), \A i \in 1 .. Len(s) : s[i] = t[i]
    PROVE  s = t
OBVIOUS

LEMMA Joined ==
    ASSUME NEW x, NEW y, NEW z
    PROVE  <<x>> \o <<y, z>> = <<x, y, z>>
<1> DEFINE s == <<x>> \o <<y, z>>
           t == <<x, y, z>>
<1>1. s \in Seq({x, y, z}) /\ Len(s) = 3
  <2>1. <<x>> \in Seq({x, y, z}) /\ <<y, z>> \in Seq({x, y, z})
    OBVIOUS
  <2> QED BY <2>1
<1>2. s[1] = x /\ s[2] = y /\ s[3] = z
  OBVIOUS
<1>3. t \in Seq({x, y, z}) /\ Len(t) = 3 /\ t[1] = x /\ t[2] = y /\ t[3] = z
  OBVIOUS
<1> HIDE DEF s, t
<1>4. \A i \in 1 .. 3 : s[i] = t[i]
  <2>1. \A i \in 1 .. 3 : i = 1 \/ i = 2 \/ i = 3
    OBVIOUS
  <2> QED BY <1>2, <1>3, <2>1
<1>5. s = t
  BY <1>1, <1>3, <1>4, SameSeq
<1> QED BY <1>5 DEF s, t

LEMMA Paired ==
    ASSUME NEW x, NEW y
    PROVE  Append(<<x>>, y) = <<x, y>>
<1> DEFINE s == Append(<<x>>, y)
           t == <<x, y>>
<1>1. <<x>> \in Seq({x, y}) /\ Len(<<x>>) = 1 /\ <<x>>[1] = x
  OBVIOUS
<1>2. s \in Seq({x, y}) /\ Len(s) = 2 /\ s[1] = x /\ s[2] = y
  BY <1>1
<1>3. t \in Seq({x, y}) /\ Len(t) = 2 /\ t[1] = x /\ t[2] = y
  OBVIOUS
<1> HIDE DEF s, t
<1>4. \A i \in 1 .. 2 : s[i] = t[i]
  <2>1. \A i \in 1 .. 2 : i = 1 \/ i = 2
    OBVIOUS
  <2> QED BY <1>2, <1>3, <2>1
<1>5. s = t
  BY <1>2, <1>3, <1>4, SameSeq
<1> QED BY <1>5 DEF s, t

\* A byte in front of others is the next to be sent.
LEMMA NextByte ==
    ASSUME NEW S, NEW x \in S, NEW s \in Seq(S)
    PROVE  <<x>> \o s \in Seq(S) /\ <<x>> \o s # <<>> /\ Head(<<x>> \o s) = x /\ Tail(<<x>> \o s) = s
<1> DEFINE t == <<x>> \o s
           u == Tail(t)
<1>1. t \in Seq(S) /\ Len(t) = Len(s) + 1 /\ t[1] = x /\ \A i \in 1 .. Len(s) : t[i + 1] = s[i]
  OBVIOUS
<1> HIDE DEF t
<1>2. t # <<>> /\ Head(t) = x
  BY <1>1
<1>3. u \in Seq(S) /\ Len(u) = Len(s) /\ \A i \in 1 .. Len(s) : u[i] = s[i]
  BY <1>1, <1>2
<1> HIDE DEF u
<1>4. u = s
  BY <1>3, SameSeq
<1> QED BY <1>1, <1>2, <1>4 DEF t, u

LEMMA IdentityBytes ==
    ASSUME NEW id \in Ids
    PROVE  \E S : Ack \in S /\ id \in Seq(S)
<1>1. CASE id = <<>>
  <2>1. Ack \in {Ack} /\ id \in Seq({Ack})
    BY <1>1
  <2> QED BY <2>1, Zenon
<1>2. CASE id = <<id[1]>>
  <2>1. PICK a : id = <<a>>
    BY <1>2, Zenon
  <2>2. Ack \in {Ack, a} /\ id \in Seq({Ack, a})
    BY <2>1
  <2> QED BY <2>2, Zenon
<1>3. CASE id = <<id[1], id[2]>>
  <2>1. PICK a, b : id = <<a, b>>
    BY <1>3, Zenon
  <2>2. Ack \in {Ack, a, b} /\ id \in Seq({Ack, a, b})
    BY <2>1
  <2> QED BY <2>2, Zenon
<1> QED BY <1>1, <1>2, <1>3, Ps2ioAssumption

LEMMA SetUpSteps ==
    /\ Len(SetUp) = 9
    /\ SetUp[9].does = "disable scanning" /\ SetUp[9].checked = TRUE
    /\ \A s \in 1 .. 8 : SetUp[s].does # "disable scanning"
<1>1. Len(SetUp) = 9 /\ SetUp[9].does = "disable scanning" /\ SetUp[9].checked = TRUE
  BY DEF SetUp
<1>2. /\ SetUp[1].does # "disable scanning" /\ SetUp[2].does # "disable scanning"
      /\ SetUp[3].does # "disable scanning" /\ SetUp[4].does # "disable scanning"
      /\ SetUp[5].does # "disable scanning" /\ SetUp[6].does # "disable scanning"
      /\ SetUp[7].does # "disable scanning" /\ SetUp[8].does # "disable scanning"
  BY DEF SetUp
<1>3. \A s \in 1 .. 8 : s = 1 \/ s = 2 \/ s = 3 \/ s = 4 \/ s = 5 \/ s = 6 \/ s = 7 \/ s = 8
  OBVIOUS
<1> QED BY <1>1, <1>2, <1>3

\* What changes no list of devices leaves the keyboard where it was.
LEMMA SetUpKeeps ==
    ASSUME PortInv, SetUpStep \/ SetUpFails, UNCHANGED serialioVars
    PROVE  PortInv'
<1>1. HasKeyboard' = HasKeyboard
  BY DEF serialioVars, HasKeyboard
<1>2. pc = "controller" /\ step \in 1 .. 9 /\ queue = <<>> /\ full = FALSE /\ device' = device
  BY DEF PortInv, SetUpStep, SetUpFails
<1>3. ~HasKeyboard
  BY <1>2 DEF PortInv
<1>4. CASE SetUpStep /\ step # 9
  <2>0. SetUp[step].does # "disable scanning" /\ step # Len(SetUp)
    <3>1. step \in 1 .. 8
      BY <1>2, <1>4
    <3> QED BY <1>4, <3>1, SetUpSteps
  <2>1. pc' = "controller" /\ step' = step + 1 /\ queue' = <<>> /\ full' = FALSE
    BY <1>2, <1>4, <2>0 DEF SetUpStep
  <2>2. step' \in 1 .. 9
    BY <1>2, <1>4, <2>1
  <2> QED BY <1>1, <1>2, <1>3, <1>4, <2>1, <2>2 DEF SetUpStep, PortInv
<1>5. CASE SetUpStep /\ step = 9
  <2>1. pc' = "reset" /\ full' = FALSE /\ queue' = <<>> \o Answers(<<Ack>>)
    BY <1>2, <1>5, SetUpSteps DEF SetUpStep
  <2>2. ResetAhead'
    <3>1. CASE device.reset = <<>>
      BY <1>2, <2>1, <3>1 DEF Answers, ResetAhead
    <3>2. CASE device.reset # <<>>
      <4>1. <<>> \o <<Ack>> = <<Ack>>
        OBVIOUS
      <4> QED BY <1>2, <2>1, <3>2, <4>1 DEF Answers, ResetAhead
    <3> QED BY <3>1, <3>2
  <2> QED BY <1>1, <1>2, <1>3, <1>5, <2>1, <2>2 DEF SetUpStep, PortInv
<1>6. CASE SetUpFails /\ SetUp[step].checked
  <2>1. pc' = "done" /\ failed' = TRUE
    BY <1>6 DEF SetUpFails
  <2> QED BY <1>1, <1>2, <1>3, <1>6, <2>1 DEF SetUpFails, PortInv
<1>7. CASE SetUpFails /\ ~SetUp[step].checked
  <2>1. pc' = "controller" /\ step' = step + 1 /\ failed' = failed /\ step # 9
    BY <1>2, <1>7, SetUpSteps DEF SetUpFails
  <2>2. step' \in 1 .. 9
    BY <1>2, <2>1
  <2> QED BY <1>1, <1>2, <1>3, <1>7, <2>1, <2>2 DEF SetUpFails, PortInv
<1> QED BY <1>4, <1>5, <1>6, <1>7

\* The reset is sent.
LEMMA ResetKeeps ==
    ASSUME PortInv, Reset \/ CommandFails, UNCHANGED serialioVars
    PROVE  PortInv'
<1>1. HasKeyboard' = HasKeyboard
  BY DEF serialioVars, HasKeyboard
<1>2. pc # "done" /\ ~HasKeyboard
  BY DEF PortInv, Reset, CommandFails
<1>3. CASE CommandFails
  BY <1>1, <1>2, <1>3 DEF CommandFails, PortInv
<1>4. CASE Reset
  <2>1. ResetAhead
    BY <1>4 DEF PortInv, Reset
  <2>2. /\ queue' = queue \o device.reset /\ full' = full /\ latch' = latch /\ ack' = FALSE
        /\ device' = device /\ pc' = "resetting" /\ failed' = failed
    BY <1>4 DEF Reset
  <2>3. Resetting'
    <3>1. CASE device.reset = <<>>
      <4>1. queue = <<>> /\ <<>> \o <<>> = <<>>
        BY <2>1, <3>1 DEF ResetAhead
      <4> QED BY <2>1, <2>2, <3>1, <4>1 DEF ResetAhead, Resetting
    <3>2. CASE device.reset # <<>>
      <4>1. PICK r \in {Passed, Failed} : device.reset = <<Ack, r>>
        BY <3>2 DEF PortInv
      <4>2. CASE queue = <<Ack>> /\ full = FALSE
        <5>1. <<Ack>> \o <<Ack, r>> = <<Ack, Ack, r>>
          BY Joined
        <5> QED BY <2>2, <4>1, <4>2, <5>1 DEF Resetting
      <4>3. CASE queue = <<>> /\ full = TRUE /\ latch = Ack
        <5>1. <<>> \o <<Ack, r>> = <<Ack, r>>
          OBVIOUS
        <5> QED BY <2>2, <4>1, <4>3, <5>1 DEF Resetting
      <4> QED BY <2>1, <3>2, <4>2, <4>3 DEF ResetAhead
    <3> QED BY <3>1, <3>2
  <2> QED BY <1>1, <1>2, <2>2, <2>3 DEF PortInv
<1> QED BY <1>3, <1>4

\* One round of the loop of ps2io_reset_device.
LEMMA ResetPollKeeps ==
    ASSUME PortInv, ResetPoll, UNCHANGED serialioVars
    PROVE  PortInv'
<1>1. HasKeyboard' = HasKeyboard
  BY DEF serialioVars, HasKeyboard
<1>2. pc = "resetting" /\ ~HasKeyboard /\ Resetting
  BY DEF PortInv, ResetPoll
<1>3. PICK data : data = IF full THEN latch ELSE NoData
  OBVIOUS
<1>4. /\ full' = FALSE /\ ack' = (ack \/ data = Ack)
      /\ device' = device /\ queue' = queue /\ latch' = latch /\ failed' = failed
      /\ pc' = CASE ack /\ data = Failed -> "done"
                 [] ack /\ data = Passed -> "scanning off"
                 [] OTHER -> pc
  BY <1>3 DEF ResetPoll
<1>5. ack \in BOOLEAN /\ full \in BOOLEAN /\ failed \in BOOLEAN
  BY DEF PortInv
<1>6. ack' \in BOOLEAN
  BY <1>4, <1>5
<1>7. ASSUME data \in {Ack, NoData}, Resetting'
      PROVE  PortInv'
  <2>1. pc' = "resetting"
    BY <1>2, <1>4, <1>7, BytesDiffer
  <2> QED BY <1>1, <1>2, <1>4, <1>5, <1>6, <1>7, <2>1 DEF PortInv
<1>8. CASE device.reset = <<>> /\ queue = <<>> /\ full = FALSE /\ ack = FALSE
  <2>1. data = NoData /\ ack' = FALSE
    BY <1>3, <1>4, <1>8, BytesDiffer
  <2>2. Resetting'
    BY <1>4, <1>8, <2>1 DEF Resetting
  <2> QED BY <1>7, <2>1, <2>2
<1>9. ASSUME NEW r \in {Passed, Failed}, device.reset = <<Ack, r>>
      PROVE  /\ queue = <<Ack, Ack, r>> /\ full = FALSE => PortInv'
             /\ queue = <<Ack, r>> /\ (IF full THEN latch = Ack ELSE ack = TRUE) => PortInv'
             /\ queue = <<r>> /\ (IF full THEN latch = Ack ELSE ack = TRUE) => PortInv'
             /\ queue = <<>> /\ full = TRUE /\ latch = r /\ ack = TRUE => PortInv'
  <2>1. CASE queue = <<Ack, Ack, r>> /\ full = FALSE
    <3>1. data = NoData /\ Resetting'
      BY <1>3, <1>4, <1>9, <2>1 DEF Resetting
    <3> QED BY <1>7, <3>1
  <2>2. CASE queue = <<Ack, r>> /\ IF full THEN latch = Ack ELSE ack = TRUE
    <3>1. data \in {Ack, NoData} /\ ack' = TRUE
      BY <1>3, <1>4, <1>5, <2>2
    <3>2. Resetting'
      BY <1>4, <1>9, <2>2, <3>1 DEF Resetting
    <3> QED BY <1>7, <3>1, <3>2
  <2>3. CASE queue = <<r>> /\ IF full THEN latch = Ack ELSE ack = TRUE
    <3>1. data \in {Ack, NoData} /\ ack' = TRUE
      BY <1>3, <1>4, <1>5, <2>3
    <3>2. Resetting'
      BY <1>4, <1>9, <2>3, <3>1 DEF Resetting
    <3> QED BY <1>7, <3>1, <3>2
  <2>4. CASE queue = <<>> /\ full = TRUE /\ latch = r /\ ack = TRUE
    <3>1. CASE r = Failed
      <4>1. pc' = "done"
        BY <1>3, <1>4, <2>4, <3>1, BytesDiffer
      <4>2. device.reset # Sound
        <5>1. device.reset[2] = Failed /\ Sound[2] = Passed
          BY <1>9, <3>1 DEF Sound
        <5> QED BY <5>1, BytesDiffer
      <4> QED BY <1>1, <1>2, <1>4, <1>5, <1>6, <4>1, <4>2 DEF PortInv
    <3>2. CASE r = Passed
      <4>1. pc' = "scanning off" /\ device.reset = Sound /\ latch = Passed
        BY <1>3, <1>4, <1>9, <2>4, <3>2, BytesDiffer DEF Sound
      <4> QED BY <1>1, <1>2, <1>4, <1>5, <1>6, <2>4, <4>1 DEF PortInv
    <3> QED BY <3>1, <3>2
  <2> QED BY <2>1, <2>2, <2>3, <2>4
<1> QED BY <1>2, <1>8, <1>9 DEF Resetting

\* The identify command is sent, or not.
LEMMA IdentifyKeeps ==
    ASSUME PortInv, NEW written \in BOOLEAN, Identify(written), UNCHANGED serialioVars
    PROVE  PortInv'
<1>1. HasKeyboard' = HasKeyboard
  BY DEF serialioVars, HasKeyboard
<1>2. /\ pc = "scanning off" /\ ~HasKeyboard
      /\ device.reset = Sound /\ queue = <<>> /\ full = FALSE /\ latch = Passed
  BY DEF PortInv, Identify
<1>3. PICK S : Ack \in S /\ device.id \in Seq(S)
  BY IdentityBytes DEF PortInv
<1>4. \A bytes : Answers(bytes) = bytes
  <2>1. Sound # <<>>
    BY DEF Sound
  <2> QED BY <1>2, <2>1 DEF Answers
<1>5. queue' = (<<>> \o <<Ack>>) \o (IF written THEN <<Ack>> \o device.id ELSE <<>>)
  BY <1>2, <1>4 DEF Identify
<1>6. <<>> \o <<Ack>> = <<Ack>> /\ <<Ack>> \o <<>> = <<Ack>>
  OBVIOUS
<1>7. queue' = <<Ack>> \o (<<Ack>> \o device.id) \/ queue' = <<Ack>>
  BY <1>5, <1>6
<1>8. /\ full' = FALSE /\ pc' = "identifying" /\ ack' = FALSE /\ ident' = <<>> /\ latch' = Passed
      /\ device' = device /\ failed' = failed
  BY <1>2 DEF Identify
<1>9. Identifying'
  BY <1>2, <1>7, <1>8 DEF Identifying, Asked
<1> QED BY <1>1, <1>2, <1>8, <1>9 DEF PortInv

\* One round of the loop of ps2io_identify_device.
LEMMA IdentifyPollKeeps ==
    ASSUME PortInv, IdentifyPoll, UNCHANGED serialioVars
    PROVE  PortInv'
<1>1. HasKeyboard' = HasKeyboard
  BY DEF serialioVars, HasKeyboard
<1>2. pc = "identifying" /\ ~HasKeyboard /\ Identifying
  BY DEF PortInv, IdentifyPoll
<1>3. /\ full' = FALSE /\ device' = device /\ queue' = queue /\ latch' = latch /\ failed' = failed
  BY DEF IdentifyPoll
<1>4. ack \in BOOLEAN /\ failed \in BOOLEAN /\ ack' \in BOOLEAN
  BY DEF PortInv, IdentifyPoll
<1>5. ASSUME pc' = "identifying", Identifying'
      PROVE  PortInv'
  BY <1>1, <1>2, <1>3, <1>4, <1>5 DEF PortInv
<1>6. ASSUME Len(ident) < 2
      PROVE  /\ pc' = "identifying"
             /\ \/ ident' = ident /\ prev' = prev
                \/ ident' = ident /\ prev' = latch
                \/ ident' = Append(ident, latch) /\ prev' = latch /\ latch # prev
             /\ ack = FALSE /\ latch # Ack => ack' = FALSE /\ ident' = ident
             /\ latch = Ack => ident' = ident
  <2>1. ~(Len(ident) >= 2)
    BY <1>2, <1>6 DEF Identifying, Asked, Acked, FirstByte, SecondByte, Noted
  <2>2. CASE latch = Ack
    BY <1>2, <2>2 DEF IdentifyPoll
  <2>3. CASE latch # Ack
    BY <1>2, <1>4, <1>6, <2>1, <2>3 DEF IdentifyPoll, IsNew
  <2> QED BY <2>2, <2>3
<1>7. ASSUME ident = <<>> PROVE Len(ident) < 2 /\ Append(ident, latch) = <<latch>>
  BY <1>7
<1>8. ASSUME NEW a, ident = <<a>> PROVE Len(ident) < 2 /\ Append(ident, latch) = <<a, latch>>
  <2>1. Append(<<a>>, latch) = <<a, latch>>
    BY Paired
  <2> QED BY <1>8, <2>1
<1>9. CASE Asked
  <2>1. pc' = "identifying" /\ ack' = FALSE /\ ident' = <<>>
    BY <1>6, <1>7, <1>9, BytesDiffer DEF Asked
  <2>2. Asked'
    BY <1>3, <1>9, <2>1 DEF Asked
  <2> QED BY <1>2, <1>3, <1>5, <2>1, <2>2 DEF Identifying
<1>10. CASE Acked
  <2>1. pc' = "identifying" /\ ident' = <<>>
    BY <1>6, <1>7, <1>10 DEF Acked
  <2>2. Acked'
    BY <1>3, <1>10, <2>1 DEF Acked
  <2> QED BY <1>2, <1>3, <1>5, <2>1, <2>2 DEF Identifying
<1>11. ASSUME NEW a, latch = a, Noted(a)
       PROVE  pc' = "identifying" /\ Noted(a)'
  <2>1. CASE ident = <<>>
    BY <1>6, <1>7, <1>11, <2>1 DEF Noted
  <2>2. CASE ident = <<a>> /\ prev = a
    BY <1>6, <1>8, <1>11, <2>2 DEF Noted
  <2> QED BY <1>11, <2>1, <2>2 DEF Noted
<1>12. CASE FirstByte
  <2>1. CASE \E a : device.id = <<a>> /\ latch = a /\ queue = <<>> /\ Noted(a)
    <3>1. PICK a : device.id = <<a>> /\ latch = a /\ queue = <<>> /\ Noted(a)
      BY <2>1
    <3>2. pc' = "identifying" /\ Noted(a)'
      BY <1>11, <3>1
    <3>3. FirstByte'
      BY <1>3, <3>1, <3>2 DEF FirstByte
    <3> QED BY <1>2, <1>3, <1>5, <3>2, <3>3 DEF Identifying
  <2>2. CASE \E a, b : device.id = <<a, b>> /\ latch = a /\ queue = <<b>> /\ Noted(a)
    <3>1. PICK a, b : device.id = <<a, b>> /\ latch = a /\ queue = <<b>> /\ Noted(a)
      BY <2>2
    <3>2. pc' = "identifying" /\ Noted(a)'
      BY <1>11, <3>1
    <3>3. FirstByte'
      BY <1>3, <3>1, <3>2 DEF FirstByte
    <3> QED BY <1>2, <1>3, <1>5, <3>2, <3>3 DEF Identifying
  <2> QED BY <1>12, <2>1, <2>2 DEF FirstByte
<1>13. CASE SecondByte
  <2>1. PICK a, b : /\ device.id = <<a, b>> /\ latch = b /\ queue = <<>>
                    /\ Noted(b) \/ ident = <<a>> \/ ident = <<a, b>>
    BY <1>13 DEF SecondByte
  <2>2. CASE Noted(b)
    <3>1. pc' = "identifying" /\ Noted(b)'
      BY <1>11, <2>1, <2>2
    <3>2. SecondByte'
      BY <1>3, <2>1, <3>1 DEF SecondByte
    <3> QED BY <1>2, <1>3, <1>5, <3>1, <3>2 DEF Identifying
  <2>3. CASE ident = <<a>>
    <3>1. pc' = "identifying" /\ (ident' = <<a>> \/ ident' = <<a, b>>)
      BY <1>6, <1>8, <2>1, <2>3
    <3>2. SecondByte'
      BY <1>3, <2>1, <3>1 DEF SecondByte
    <3> QED BY <1>2, <1>3, <1>5, <3>1, <3>2 DEF Identifying
  <2>4. CASE ident = <<a, b>>
    <3>1. ident' = ident /\ pc' \in {"identifying", "identified"}
      <4>1. Len(ident) = 2 /\ ~(Len(ident) < 2)
        BY <2>4
      <4> QED BY <1>2, <4>1 DEF IdentifyPoll
    <3>2. CASE pc' = "identifying"
      <4>1. SecondByte'
        BY <1>3, <2>1, <2>4, <3>1 DEF SecondByte
      <4> QED BY <1>2, <1>3, <1>5, <3>2, <4>1 DEF Identifying
    <3>3. CASE pc' = "identified"
      <4>1. IdentityRead'
        BY <1>2, <1>3, <2>1, <2>4, <3>1 DEF IdentityRead, Identifying
      <4> QED BY <1>1, <1>2, <1>3, <1>4, <3>3, <4>1 DEF PortInv
    <3> QED BY <3>1, <3>2, <3>3
  <2> QED BY <2>1, <2>2, <2>3, <2>4
<1> QED BY <1>2, <1>9, <1>10, <1>12, <1>13 DEF Identifying

\* The device sends its next byte.
LEMMA DeviceSendsKeeps ==
    ASSUME PortInv, DeviceSends, UNCHANGED serialioVars
    PROVE  PortInv'
<1>1. HasKeyboard' = HasKeyboard
  BY DEF serialioVars, HasKeyboard
<1>2. /\ queue # <<>> /\ full = FALSE /\ full' = TRUE
      /\ latch' = Head(queue) /\ queue' = Tail(queue)
      /\ pc' = pc /\ device' = device /\ ack' = ack /\ ident' = ident /\ prev' = prev
      /\ step' = step /\ failed' = failed
  BY DEF DeviceSends, PortInv
<1>3. CASE pc = "reset"
  <2>1. ResetAhead
    BY <1>3 DEF PortInv
  <2>2. device.reset # <<>> /\ queue = <<Ack>>
    BY <1>2, <2>1 DEF ResetAhead
  <2>3. latch' = Ack /\ queue' = <<>>
    BY <1>2, <2>2
  <2>4. ResetAhead'
    BY <1>2, <2>2, <2>3 DEF ResetAhead
  <2> QED BY <1>1, <1>2, <1>3, <2>4 DEF PortInv
<1>4. CASE pc = "resetting"
  <2>1. PICK r \in {Passed, Failed} :
            /\ device.reset = <<Ack, r>>
            /\ \/ queue = <<Ack, Ack, r>>
               \/ queue = <<Ack, r>> /\ ack = TRUE
               \/ queue = <<r>> /\ ack = TRUE
    BY <1>2, <1>4 DEF PortInv, Resetting
  <2>2. CASE queue = <<Ack, Ack, r>>
    <3>1. latch' = Ack /\ queue' = <<Ack, r>>
      BY <1>2, <2>2
    <3> QED BY <1>2, <2>1, <3>1, <1>1, <1>4 DEF Resetting, PortInv
  <2>3. CASE queue = <<Ack, r>> /\ ack = TRUE
    <3>1. latch' = Ack /\ queue' = <<r>>
      BY <1>2, <2>3
    <3> QED BY <1>2, <2>1, <3>1, <1>1, <1>4 DEF Resetting, PortInv
  <2>4. CASE queue = <<r>> /\ ack = TRUE
    <3>1. latch' = r /\ queue' = <<>>
      BY <1>2, <2>4
    <3> QED BY <1>2, <2>1, <2>4, <3>1, <1>1, <1>4 DEF Resetting, PortInv
  <2> QED BY <2>1, <2>2, <2>3, <2>4
<1>5. CASE pc = "identifying"
  <2>1. Identifying
    BY <1>5 DEF PortInv
  <2>2. ASSUME Asked' \/ Acked' \/ FirstByte' \/ SecondByte'
        PROVE  PortInv'
    <3>1. Identifying'
      BY <1>2, <2>1, <2>2 DEF Identifying
    <3> QED BY <1>1, <1>2, <1>5, <3>1 DEF PortInv
  <2>3. PICK S : Ack \in S /\ device.id \in Seq(S)
    BY IdentityBytes DEF PortInv
  <2>4. /\ <<Ack>> \o device.id \in Seq(S) /\ Head(<<Ack>> \o device.id) = Ack
        /\ Tail(<<Ack>> \o device.id) = device.id
    BY <2>3, NextByte
  <2>5. /\ Head(<<Ack>> \o (<<Ack>> \o device.id)) = Ack
        /\ Tail(<<Ack>> \o (<<Ack>> \o device.id)) = <<Ack>> \o device.id
    BY <2>3, <2>4, NextByte
  <2>6. Head(<<Ack>>) = Ack /\ Tail(<<Ack>>) = <<>>
    OBVIOUS
  <2>7. CASE Asked
    <3>1. latch' = Ack /\ queue' \in {<<Ack>> \o device.id, <<>>}
      BY <1>2, <2>5, <2>6, <2>7 DEF Asked
    <3>2. Acked'
      BY <1>2, <2>7, <3>1 DEF Asked, Acked
    <3> QED BY <2>2, <3>2
  <2>8. CASE Acked /\ queue = <<Ack>> \o device.id
    <3>1. latch' = Ack /\ queue' = device.id
      BY <1>2, <2>4, <2>8
    <3>2. Acked'
      BY <1>2, <2>8, <3>1 DEF Acked
    <3> QED BY <2>2, <3>2
  <2>9. CASE Acked /\ queue = device.id
    <3>1. ident' = <<>>
      BY <1>2, <2>9 DEF Acked
    <3>2. device.id # <<>> /\ (device.id = <<device.id[1]>> \/ device.id = <<device.id[1], device.id[2]>>)
      BY <1>2, <2>9, Ps2ioAssumption DEF PortInv
    <3>3. PICK a, b : device.id = <<a>> \/ device.id = <<a, b>>
      BY <3>2, Zenon
    <3>4. CASE device.id = <<a>>
      <4>1. latch' = a /\ queue' = <<>>
        BY <1>2, <2>9, <3>4
      <4>2. FirstByte'
        BY <1>2, <3>1, <3>4, <4>1 DEF FirstByte, Noted
      <4> QED BY <2>2, <4>2
    <3>5. CASE device.id = <<a, b>>
      <4>1. latch' = a /\ queue' = <<b>>
        BY <1>2, <2>9, <3>5
      <4>2. FirstByte'
        BY <1>2, <3>1, <3>5, <4>1 DEF FirstByte, Noted
      <4> QED BY <2>2, <4>2
    <3> QED BY <3>3, <3>4, <3>5
  <2>10. CASE FirstByte
    <3>1. PICK a, b : device.id = <<a, b>> /\ latch = a /\ queue = <<b>> /\ Noted(a)
      BY <1>2, <2>10 DEF FirstByte
    <3>2. latch' = b /\ queue' = <<>>
      BY <1>2, <3>1
    <3>3. ident' = <<>> \/ ident' = <<a>>
      BY <1>2, <3>1 DEF Noted
    <3>4. SecondByte'
      BY <1>2, <3>1, <3>2, <3>3 DEF SecondByte, Noted
    <3> QED BY <2>2, <3>4
  <2>11. ~SecondByte
    BY <1>2 DEF SecondByte
  <2> QED BY <1>2, <2>1, <2>7, <2>8, <2>9, <2>10, <2>11 DEF Identifying, Acked
<1>6. CASE pc = "identified"
  <2>1. IdentityRead'
    BY <1>2, <1>6 DEF PortInv, IdentityRead
  <2> QED BY <1>1, <1>2, <1>6, <2>1 DEF PortInv
<1>7. CASE pc = "done"
  BY <1>1, <1>2, <1>7 DEF PortInv
<1> QED BY <1>2, <1>3, <1>4, <1>5, <1>6, <1>7 DEF PortInv

\* The clock, and the end of a loop by its timeout.
LEMMA WaitKeeps ==
    ASSUME PortInv, ClockTick \/ GiveUp, UNCHANGED serialioVars
    PROVE  PortInv'
<1>1. HasKeyboard' = HasKeyboard
  BY DEF serialioVars, HasKeyboard
<1>2. /\ device' = device /\ queue' = queue /\ latch' = latch /\ full' = full /\ ack' = ack
      /\ ident' = ident /\ prev' = prev /\ step' = step
      /\ pc = "resetting" \/ pc = "identifying"
  BY DEF ClockTick, GiveUp
<1>3. ~HasKeyboard
  BY <1>2 DEF PortInv
<1>4. CASE ClockTick
  <2>1. pc' = pc /\ failed' = failed
    BY <1>4 DEF ClockTick
  <2>2. Resetting' = Resetting /\ Identifying' = Identifying
    BY <1>2 DEF Resetting, Identifying, Asked, Acked, FirstByte, SecondByte, Noted
  <2> QED BY <1>1, <1>2, <2>1, <2>2 DEF PortInv
<1>5. CASE GiveUp /\ pc = "resetting"
  <2>1. pc' = "done" /\ failed' = TRUE
    BY <1>5 DEF GiveUp
  <2> QED BY <1>1, <1>2, <1>3, <2>1 DEF PortInv
<1>6. CASE GiveUp /\ pc = "identifying"
  <2>1. pc' = "identified" /\ failed' = TRUE
    BY <1>6 DEF GiveUp
  <2>2. Identifying
    BY <1>6 DEF PortInv
  <2>3. ident = <<>> \/ (\E a : ident = <<a>>) \/ (ident = device.id /\ \E a, b : ident = <<a, b>>)
    BY <2>2 DEF Identifying, Asked, Acked, FirstByte, SecondByte, Noted
  <2>4. IdentityRead'
    BY <1>2, <2>1, <2>2, <2>3 DEF Identifying, IdentityRead
  <2> QED BY <1>1, <1>2, <1>3, <2>1, <2>4 DEF PortInv
<1> QED BY <1>2, <1>4, <1>5, <1>6

\* Only two bytes that came are a keyboard's identity.
LEMMA KeyboardsIdentity ==
    ASSUME IdentityRead
    PROVE  /\ IdentData \in Keyboards => device.id \in Keyboards
           /\ device.id \in Keyboards /\ failed # TRUE => IdentData \in Keyboards
<1>1. ASSUME ident = <<>> \/ \E a : ident = <<a>>
      PROVE  IdentData \notin Keyboards
  <2>1. ~(Len(ident) > 1)
    <3>1. CASE ident = <<>>
      BY <3>1
    <3>2. ASSUME NEW a, ident = <<a>> PROVE ~(Len(ident) > 1)
      BY <3>2
    <3> QED BY <1>1, <3>1, <3>2
  <2>2. PICK x : IdentData = <<x, NoData>>
    BY <2>1 DEF IdentData
  <2>3. <<x, NoData>>[2] # <<"AB", "83">>[2] /\ <<x, NoData>>[2] # <<"AB", "C1">>[2]
    BY DEF NoData
  <2> QED BY <2>2, <2>3 DEF Keyboards
<1>2. ASSUME ident = device.id, NEW a, NEW b, ident = <<a, b>>
      PROVE  IdentData = device.id
  BY <1>2 DEF IdentData
<1> QED BY <1>1, <1>2 DEF IdentityRead

\* The end of ps2io_identify_device.
LEMMA RegisterKeeps ==
    ASSUME SerialInv, PortInv, NoKeyboard \/ \E accepts \in BOOLEAN : RegisterDevice(accepts)
    PROVE  PortInv'
<1>1. pc = "identified" /\ IdentityRead /\ pc' = "done" /\ device' = device /\ full' = full /\ ack' = ack
  BY DEF PortInv, NoKeyboard, RegisterDevice
<1>2. ~HasKeyboard /\ device.reset = Sound /\ failed \in BOOLEAN
  BY <1>1 DEF PortInv, IdentityRead
<1>3. CASE NoKeyboard
  <2>1. HasKeyboard' = HasKeyboard /\ failed' = (failed \/ IdentData \in Keyboards)
    BY <1>3 DEF NoKeyboard, serialioVars, HasKeyboard
  <2>2. failed' \in BOOLEAN /\ (device.id \in Keyboards => failed' = TRUE)
    BY <1>1, <1>2, <2>1, KeyboardsIdentity
  <2> QED BY <1>1, <1>2, <2>1, <2>2 DEF PortInv
<1>4. ASSUME NEW accepts \in BOOLEAN, RegisterDevice(accepts)
      PROVE  PortInv'
  <2>1. IdentData \in Keyboards /\ NewDev(Kbd, accepts) /\ failed' = failed
    BY <1>4 DEF RegisterDevice
  <2>2. device.id \in Keyboards
    BY <1>1, <2>1, KeyboardsIdentity
  <2>3. PICK d : devs' = Append(devs, d) /\ d.name = Kbd.name
    BY <2>1 DEF NewDev
  <2>4. devs'[Len(devs) + 1] = d /\ Len(devs) + 1 \in DOMAIN devs'
    BY <2>3 DEF SerialInv
  <2>5. HasKeyboard'
    BY <2>3, <2>4 DEF HasKeyboard, ToSet
  <2> QED BY <1>1, <1>2, <2>1, <2>2, <2>5 DEF PortInv
<1> QED BY <1>3, <1>4

\* The keyboard driver's module registers its driver: no device comes or goes.
LEMMA KbdMainKeeps ==
    ASSUME SerialInv, PortInv, NEW accepts \in BOOLEAN, Ps2kbdMain(accepts)
    PROVE  PortInv'
<1>1. \E i, at : devs' = devs \/ devs' = [devs EXCEPT ![i].driver = at]
  <2>1. PICK spec : NewDrv(spec, accepts)
    BY DEF Ps2kbdMain
  <2>2. PICK at \in Free :
            LET drv == [at |-> at, name |-> spec.name, maj |-> spec.maj]
                fit == {i \in DOMAIN devs : devs[i].driver = NoDriver /\ CheckMatch(devs[i], drv)}
                i   == FirstOf(fit)
            IN  devs' = devs \/ devs' = [devs EXCEPT ![i].driver = at]
    BY <2>1 DEF NewDrv
  <2> QED BY <2>2
<1>2. devs \in Seq(SerialDevices)
  BY DEF SerialInv
<1>3. DOMAIN devs' = DOMAIN devs /\ \A k \in DOMAIN devs : devs'[k].name = devs[k].name
  <2>1. PICK i, at : devs' = devs \/ devs' = [devs EXCEPT ![i].driver = at]
    BY <1>1
  <2>2. CASE devs' = devs
    BY <2>2
  <2>3. CASE devs' = [devs EXCEPT ![i].driver = at]
    <3>1. DOMAIN devs' = DOMAIN devs
      BY <2>3
    <3>2. ASSUME NEW k \in DOMAIN devs PROVE devs'[k].name = devs[k].name
      <4>1. devs[k] \in SerialDevices
        BY <1>2
      <4>2. devs'[k] = devs[k] \/ devs'[k] = [devs[k] EXCEPT !.driver = at]
        BY <2>3
      <4> QED BY <4>1, <4>2 DEF SerialDevices
    <3> QED BY <3>1, <3>2
  <2> QED BY <2>1, <2>2, <2>3
<1>4. HasKeyboard' <=> HasKeyboard
  BY <1>3 DEF HasKeyboard, ToSet
<1>5. /\ pc' = pc /\ step' = step /\ device' = device /\ queue' = queue /\ latch' = latch /\ full' = full
      /\ ack' = ack /\ ident' = ident /\ prev' = prev /\ failed' = failed
  BY DEF Ps2kbdMain, ps2Vars
<1>6. (ResetAhead' <=> ResetAhead) /\ (Resetting' <=> Resetting)
  BY ONLY <1>5 DEF ResetAhead, Resetting
<1>7. (Identifying' <=> Identifying) /\ (IdentityRead' <=> IdentityRead)
  BY ONLY <1>5 DEF Identifying, IdentityRead, Asked, Acked, FirstByte, SecondByte, Noted
<1> QED BY ONLY PortInv, <1>4, <1>5, <1>6, <1>7 DEF PortInv

LEMMA PortKeeps == SerialInv /\ PortInv /\ (Ps2Next \/ UNCHANGED <<serialioVars, ps2Vars>>) => PortInv'
<1> SUFFICES ASSUME SerialInv, PortInv, Ps2Next \/ UNCHANGED <<serialioVars, ps2Vars>>
             PROVE  PortInv'
  OBVIOUS
<1>1. CASE UNCHANGED <<serialioVars, ps2Vars>>
  <2>1. /\ pc' = pc /\ step' = step /\ device' = device /\ queue' = queue /\ latch' = latch /\ full' = full
        /\ ack' = ack /\ ident' = ident /\ prev' = prev /\ failed' = failed /\ devs' = devs
    BY <1>1 DEF serialioVars, ps2Vars
  <2>2. HasKeyboard' <=> HasKeyboard
    BY ONLY <2>1 DEF HasKeyboard
  <2>3. (ResetAhead' <=> ResetAhead) /\ (Resetting' <=> Resetting)
    BY ONLY <2>1 DEF ResetAhead, Resetting
  <2>4. (Identifying' <=> Identifying) /\ (IdentityRead' <=> IdentityRead)
    BY ONLY <2>1 DEF Identifying, IdentityRead, Asked, Acked, FirstByte, SecondByte, Noted
  <2> QED BY ONLY PortInv, <2>1, <2>2, <2>3, <2>4 DEF PortInv
<1>2. ASSUME Ps2Steps, UNCHANGED serialioVars PROVE PortInv'
  BY <1>2, SetUpKeeps, ResetKeeps, IdentifyKeeps DEF Ps2Steps
<1>3. ASSUME Ps2Polls, UNCHANGED serialioVars PROVE PortInv'
  BY <1>3, ResetPollKeeps, IdentifyPollKeeps, WaitKeeps DEF Ps2Polls
<1>4. ASSUME DeviceSends \/ ClockTick, UNCHANGED serialioVars PROVE PortInv'
  BY <1>4, DeviceSendsKeeps, WaitKeeps
<1>5. ASSUME NoKeyboard \/ \E accepts \in BOOLEAN : RegisterDevice(accepts) PROVE PortInv'
  BY <1>5, RegisterKeeps
<1>6. ASSUME NEW accepts \in BOOLEAN, Ps2kbdMain(accepts) PROVE PortInv'
  BY <1>6, KbdMainKeeps
<1> QED BY <1>1, <1>2, <1>3, <1>4, <1>5, <1>6 DEF Ps2Next

\* KeyboardIdentified on the PS/2 port, for every device that answers with at
\* most two bytes, however late: acknowledgements of earlier commands, bytes
\* read twice and timeouts never make ps2io_identify_device take a device for
\* a keyboard that is none, and without a failure it misses no keyboard.
THEOREM KeyboardsAreFound == Spec => [](part = "ps2io" => KeyboardIdentified)
<1> DEFINE I == SerialInv /\ (part = "ps2io" => PortInv)
<1>1. Init => I
  BY SerialInitial, PortInitial DEF Init
<1>2. I /\ [Next]_vars => I'
  <2> SUFFICES ASSUME I, [Next]_vars PROVE I'
    OBVIOUS
  <2>1. SerialioNext \/ Ps2Next \/ UNCHANGED serialioVars
    BY DEF Next, vars
  <2>2. SerialInv'
    BY <2>1, SerialKeeps
  <2>3. part' = part /\ (part = "ps2io" => Ps2Next \/ UNCHANGED <<serialioVars, ps2Vars>>)
    BY DEF Next, vars
  <2> QED BY <2>2, <2>3, PortKeeps
<1>3. I => (part = "ps2io" => KeyboardIdentified)
  BY PortInvImplies
<1> QED BY <1>1, <1>2, <1>3, PTL DEF Spec
-----------------------------------------------------------------------------
(* The kernel's output (Console).  What a terminal shows is a picture of   *)
(* the last lines of its text, and every character, newline and escape     *)
(* sequence keeps it one.                                                  *)

ParseStart(junk) == [mode |-> FALSE, wantFg |-> FALSE, nn |-> 0, fg |-> junk, len |-> 0]

\* The parser, step by step, exists.
ParsedEq(f, k, str, junk) ==
    f = [i \in 1 .. k |-> IF i = 1 THEN ParseStart(junk) ELSE ParseStep(str, f[i - 1], i)]

LEMMA ParsedExists ==
    ASSUME NEW str, NEW junk, NEW n \in Nat, n >= 1
    PROVE  \E f : ParsedEq(f, n, str, junk)
<1> DEFINE T == {k \in Nat : k >= 1 /\ ~\E f : ParsedEq(f, k, str, junk)}
<1>1. ASSUME T # {} PROVE FALSE
  <2>0. T \in SUBSET Nat
    OBVIOUS
  <2>1. PICK x \in T : \A y \in T : x <= y
    <3> HIDE DEF T
    <3> QED BY <1>1, <2>0, LeastNatural
  <2>2. x \in Nat /\ x >= 1 /\ ~\E f : ParsedEq(f, x, str, junk)
    OBVIOUS
  <2>3. CASE x = 1
    <3>1. PICK f : f = [i \in 1 .. 1 |-> ParseStart(junk)]
      OBVIOUS
    <3>2. ParsedEq(f, 1, str, junk)
      <4>1. \A i \in 1 .. 1 : i = 1
        OBVIOUS
      <4> QED BY ONLY <3>1, <4>1 DEF ParsedEq
    <3> QED BY <2>2, <2>3, <3>2
  <2>4. CASE x # 1
    <3>1. x - 1 \in Nat /\ x - 1 >= 1 /\ x - 1 \notin T
      BY <2>1, <2>2, <2>4
    <3>2. PICK f : ParsedEq(f, x - 1, str, junk)
      BY <3>1
    <3>3. PICK g : g = [i \in 1 .. x |-> IF i = 1 THEN ParseStart(junk) ELSE ParseStep(str, f[i - 1], i)]
      OBVIOUS
    <3>4. \A i \in 1 .. x - 1 : g[i] = f[i]
      <4>1. \A i \in 1 .. x - 1 : i \in 1 .. x
        BY ONLY <2>2
      <4>2. \A i \in 1 .. x - 1 : f[i] = IF i = 1 THEN ParseStart(junk) ELSE ParseStep(str, f[i - 1], i)
        BY ONLY <3>2 DEF ParsedEq
      <4> QED BY ONLY <3>3, <4>1, <4>2
    <3>5. \A i \in 1 .. x : i # 1 => i - 1 \in 1 .. x - 1
      BY ONLY <2>2
    <3>6. \A i \in 1 .. x : g[i] = IF i = 1 THEN ParseStart(junk) ELSE ParseStep(str, g[i - 1], i)
      BY ONLY <3>3, <3>4, <3>5
    <3>7. g = [i \in 1 .. x |-> g[i]]
      BY ONLY <3>3
    <3>8. ParsedEq(g, x, str, junk)
      BY ONLY <3>6, <3>7 DEF ParsedEq
    <3> QED BY <2>2, <3>8
  <2> QED BY <2>3, <2>4
<1> QED BY <1>1

\* So do the steps of a write,
WrittenEq(f, k, ts, buf, junk) ==
    f = [i \in 0 .. k |-> IF i = 0 THEN [ts |-> ts, skip |-> 0] ELSE WriteStep(buf, junk, f[i - 1], i)]

LEMMA WrittenExists ==
    ASSUME NEW ts, NEW buf, NEW junk, NEW n \in Nat, n >= 0
    PROVE  \E f : WrittenEq(f, n, ts, buf, junk)
<1> DEFINE T == {k \in Nat : k >= 0 /\ ~\E f : WrittenEq(f, k, ts, buf, junk)}
<1>1. ASSUME T # {} PROVE FALSE
  <2>0. T \in SUBSET Nat
    OBVIOUS
  <2>1. PICK x \in T : \A y \in T : x <= y
    <3> HIDE DEF T
    <3> QED BY <1>1, <2>0, LeastNatural
  <2>2. x \in Nat /\ x >= 0 /\ ~\E f : WrittenEq(f, x, ts, buf, junk)
    OBVIOUS
  <2>3. CASE x = 0
    <3>1. PICK f : f = [i \in 0 .. 0 |-> [ts |-> ts, skip |-> 0]]
      OBVIOUS
    <3>2. WrittenEq(f, 0, ts, buf, junk)
      <4>1. \A i \in 0 .. 0 : i = 0
        OBVIOUS
      <4> QED BY ONLY <3>1, <4>1 DEF WrittenEq
    <3> QED BY <2>2, <2>3, <3>2
  <2>4. CASE x # 0
    <3>1. x - 1 \in Nat /\ x - 1 >= 0 /\ x - 1 \notin T
      BY <2>1, <2>2, <2>4
    <3>2. PICK f : WrittenEq(f, x - 1, ts, buf, junk)
      BY <3>1
    <3>3. PICK g : g = [i \in 0 .. x |-> IF i = 0 THEN [ts |-> ts, skip |-> 0] ELSE WriteStep(buf, junk, f[i - 1], i)]
      OBVIOUS
    <3>4. \A i \in 0 .. x - 1 : g[i] = f[i]
      <4>1. \A i \in 0 .. x - 1 : i \in 0 .. x
        BY ONLY <2>2
      <4>2. \A i \in 0 .. x - 1 : f[i] = IF i = 0 THEN [ts |-> ts, skip |-> 0] ELSE WriteStep(buf, junk, f[i - 1], i)
        BY ONLY <3>2 DEF WrittenEq
      <4> QED BY ONLY <3>3, <4>1, <4>2
    <3>5. \A i \in 0 .. x : i # 0 => i - 1 \in 0 .. x - 1
      BY ONLY <2>2
    <3>6. \A i \in 0 .. x : g[i] = IF i = 0 THEN [ts |-> ts, skip |-> 0] ELSE WriteStep(buf, junk, g[i - 1], i)
      BY ONLY <3>3, <3>4, <3>5
    <3>7. g = [i \in 0 .. x |-> g[i]]
      BY ONLY <3>3
    <3>8. WrittenEq(g, x, ts, buf, junk)
      BY ONLY <3>6, <3>7 DEF WrittenEq
    <3> QED BY <2>2, <3>8
  <2> QED BY <2>3, <2>4
<1> QED BY <1>1

\* and the lines of a page.
LinesEq(f, k, s, txt) ==
    f = [i \in 0 .. k |-> IF i = 0 THEN << <<>> >> ELSE AddToLines(s, f[i - 1], txt[i])]

LEMMA LinesExists ==
    ASSUME NEW s, NEW txt, NEW n \in Nat, n >= 0
    PROVE  \E f : LinesEq(f, n, s, txt)
<1> DEFINE T == {k \in Nat : k >= 0 /\ ~\E f : LinesEq(f, k, s, txt)}
<1>1. ASSUME T # {} PROVE FALSE
  <2>0. T \in SUBSET Nat
    OBVIOUS
  <2>1. PICK x \in T : \A y \in T : x <= y
    <3> HIDE DEF T
    <3> QED BY <1>1, <2>0, LeastNatural
  <2>2. x \in Nat /\ x >= 0 /\ ~\E f : LinesEq(f, x, s, txt)
    OBVIOUS
  <2>3. CASE x = 0
    <3>1. PICK f : f = [i \in 0 .. 0 |-> << <<>> >>]
      OBVIOUS
    <3>2. LinesEq(f, 0, s, txt)
      <4>1. \A i \in 0 .. 0 : i = 0
        OBVIOUS
      <4> QED BY ONLY <3>1, <4>1 DEF LinesEq
    <3> QED BY <2>2, <2>3, <3>2
  <2>4. CASE x # 0
    <3>1. x - 1 \in Nat /\ x - 1 >= 0 /\ x - 1 \notin T
      BY <2>1, <2>2, <2>4
    <3>2. PICK f : LinesEq(f, x - 1, s, txt)
      BY <3>1
    <3>3. PICK g : g = [i \in 0 .. x |-> IF i = 0 THEN << <<>> >> ELSE AddToLines(s, f[i - 1], txt[i])]
      OBVIOUS
    <3>4. \A i \in 0 .. x - 1 : g[i] = f[i]
      <4>1. \A i \in 0 .. x - 1 : i \in 0 .. x
        BY ONLY <2>2
      <4>2. \A i \in 0 .. x - 1 : f[i] = IF i = 0 THEN << <<>> >> ELSE AddToLines(s, f[i - 1], txt[i])
        BY ONLY <3>2 DEF LinesEq
      <4> QED BY ONLY <3>3, <4>1, <4>2
    <3>5. \A i \in 0 .. x : i # 0 => i - 1 \in 0 .. x - 1
      BY ONLY <2>2
    <3>6. \A i \in 0 .. x : g[i] = IF i = 0 THEN << <<>> >> ELSE AddToLines(s, g[i - 1], txt[i])
      BY ONLY <3>3, <3>4, <3>5
    <3>7. g = [i \in 0 .. x |-> g[i]]
      BY ONLY <3>3
    <3>8. LinesEq(g, x, s, txt)
      BY ONLY <3>6, <3>7 DEF LinesEq
    <3> QED BY <2>2, <3>8
  <2> QED BY <2>3, <2>4
<1> QED BY <1>1

\* What the recursive functions of ParseAnsi, KstdioWrite and LinesOf satisfy.
LEMMA ParseRuns ==
    ASSUME NEW str, NEW junk, Len(str) \in Nat, Len(str) >= 1
    PROVE  \E f : /\ f[1] = ParseStart(junk)
                  /\ \A i \in 2 .. Len(str) : f[i] = ParseStep(str, f[i - 1], i)
                  /\ ParseAnsi(str, junk) = f[Len(str)]
<1> DEFINE f == CHOOSE g : ParsedEq(g, Len(str), str, junk)
<1>1. ParseAnsi(str, junk) = f[Len(str)]
  BY DEF ParseAnsi, ParsedEq, ParseStart
<1>2. ParsedEq(f, Len(str), str, junk)
  BY ParsedExists
<1> HIDE DEF f
<1>3. \A i \in 1 .. Len(str) : f[i] = IF i = 1 THEN ParseStart(junk) ELSE ParseStep(str, f[i - 1], i)
  BY ONLY <1>2 DEF ParsedEq
<1>4. 1 \in 1 .. Len(str) /\ \A i \in 2 .. Len(str) : i \in 1 .. Len(str) /\ i # 1
  OBVIOUS
<1>5. f[1] = ParseStart(junk) /\ \A i \in 2 .. Len(str) : f[i] = ParseStep(str, f[i - 1], i)
  BY ONLY <1>3, <1>4
<1> QED BY <1>1, <1>5

LEMMA WriteRuns ==
    ASSUME NEW ts, NEW buf, NEW junk, Len(buf) \in Nat
    PROVE  \E f : /\ f[0] = [ts |-> ts, skip |-> 0]
                  /\ \A i \in 1 .. Len(buf) : f[i] = WriteStep(buf, junk, f[i - 1], i)
                  /\ KstdioWrite(ts, buf, junk) = f[Len(buf)].ts
<1> DEFINE f == CHOOSE g : WrittenEq(g, Len(buf), ts, buf, junk)
<1>1. KstdioWrite(ts, buf, junk) = f[Len(buf)].ts
  BY DEF KstdioWrite, WrittenEq
<1>2. WrittenEq(f, Len(buf), ts, buf, junk)
  BY WrittenExists
<1> HIDE DEF f
<1>3. \A i \in 0 .. Len(buf) : f[i] = IF i = 0 THEN [ts |-> ts, skip |-> 0]
                                               ELSE WriteStep(buf, junk, f[i - 1], i)
  BY ONLY <1>2 DEF WrittenEq
<1>4. 0 \in 0 .. Len(buf) /\ \A i \in 1 .. Len(buf) : i \in 0 .. Len(buf) /\ i # 0
  OBVIOUS
<1>5. f[0] = [ts |-> ts, skip |-> 0] /\ \A i \in 1 .. Len(buf) : f[i] = WriteStep(buf, junk, f[i - 1], i)
  BY ONLY <1>3, <1>4
<1> QED BY <1>1, <1>5

LEMMA LinesRun ==
    ASSUME NEW s, NEW txt, Len(txt) \in Nat
    PROVE  \E f : /\ f[0] = << <<>> >>
                  /\ \A i \in 1 .. Len(txt) : f[i] = AddToLines(s, f[i - 1], txt[i])
                  /\ LinesOf(s, txt) = f[Len(txt)]
<1> DEFINE f == CHOOSE g : LinesEq(g, Len(txt), s, txt)
<1>1. LinesOf(s, txt) = f[Len(txt)]
  BY DEF LinesOf, LinesEq
<1>2. LinesEq(f, Len(txt), s, txt)
  BY LinesExists
<1> HIDE DEF f
<1>3. \A i \in 0 .. Len(txt) : f[i] = IF i = 0 THEN << <<>> >> ELSE AddToLines(s, f[i - 1], txt[i])
  BY ONLY <1>2 DEF LinesEq
<1>4. 0 \in 0 .. Len(txt) /\ \A i \in 1 .. Len(txt) : i \in 0 .. Len(txt) /\ i # 0
  OBVIOUS
<1>5. f[0] = << <<>> >> /\ \A i \in 1 .. Len(txt) : f[i] = AddToLines(s, f[i - 1], txt[i])
  BY ONLY <1>3, <1>4
<1> QED BY <1>1, <1>5

\* Adding to the text adds to its lines.
LEMMA LinesGrow ==
    ASSUME NEW S, NEW s, NEW txt \in Seq(S), NEW e \in S
    PROVE  LinesOf(s, Append(txt, e)) = AddToLines(s, LinesOf(s, txt), e)
<1>1. PICK n \in Nat : n = Len(txt)
  OBVIOUS
<1>2. PICK w : w = Append(txt, e)
  OBVIOUS
<1>3. Len(w) = n + 1 /\ w[n + 1] = e /\ \A i \in 1 .. n : w[i] = txt[i]
  BY <1>1, <1>2
<1>4. PICK f : /\ f[0] = << <<>> >>
               /\ \A i \in 1 .. Len(txt) : f[i] = AddToLines(s, f[i - 1], txt[i])
               /\ LinesOf(s, txt) = f[Len(txt)]
  BY <1>1, LinesRun
<1>5. PICK g : /\ g[0] = << <<>> >>
               /\ \A i \in 1 .. Len(w) : g[i] = AddToLines(s, g[i - 1], w[i])
               /\ LinesOf(s, w) = g[Len(w)]
  <2>1. Len(w) \in Nat
    BY <1>3
  <2> QED BY <2>1, LinesRun
<1> DEFINE T == {i \in Nat : i <= n /\ f[i] # g[i]}
<1>6. ASSUME T # {} PROVE FALSE
  <2>0. T \in SUBSET Nat
    OBVIOUS
  <2>1. PICK x \in T : \A y \in T : x <= y
    <3> HIDE DEF T
    <3> QED BY <1>6, <2>0, LeastNatural
  <2>2. x \in Nat /\ x <= n /\ f[x] # g[x]
    OBVIOUS
  <2>3. x # 0
    BY ONLY <1>4, <1>5, <2>2
  <2>4. x - 1 \in Nat /\ x - 1 \notin T /\ x - 1 <= n
    BY <2>1, <2>2, <2>3
  <2>5. f[x - 1] = g[x - 1]
    BY <2>4
  <2>6. x \in 1 .. Len(txt) /\ x \in 1 .. Len(w) /\ x \in 1 .. n
    BY ONLY <1>1, <1>3, <2>2, <2>3
  <2> QED BY ONLY <1>3, <1>4, <1>5, <2>2, <2>5, <2>6
<1>7. f[n] = g[n]
  BY <1>1, <1>6
<1>8. n + 1 \in 1 .. Len(w) /\ (n + 1) - 1 = n
  BY ONLY <1>1, <1>3
<1>9. g[n + 1] = AddToLines(s, g[n], e)
  BY ONLY <1>3, <1>5, <1>8
<1> QED BY ONLY <1>1, <1>2, <1>3, <1>4, <1>5, <1>7, <1>9

LEMMA NoLines ==
    ASSUME NEW s
    PROVE  LinesOf(s, <<>>) = << <<>> >>
<1>1. Len(<<>>) = 0
  OBVIOUS
<1> QED BY <1>1, LinesRun


-----------------------------------------------------------------------------
\* A page and its picture on a terminal: the rows show the last lines, the
\* cursor is at the end of the last one.
Entries == [c : STRING \cup {Newline, Space}, lvl : 0 .. 5]

TopOf(s, ls) == IF Len(ls) > Rows[s] THEN Len(ls) - Rows[s] ELSE 0

CellFits(s, cell, ls, k, c) ==
    IF k <= Len(ls) /\ c + 1 <= Len(ls[k]) THEN Shows(s, cell, ls[k][c + 1]) ELSE cell = Blank

Picture(s, K, r, c, ls) ==
    /\ ls \in Seq(Seq(Entries)) /\ Len(ls) >= 1
    /\ \A i \in 1 .. Len(ls) : Len(ls[i]) <= Columns[s]
    /\ DOMAIN K = 0 .. Rows[s] - 1 /\ \A a \in 0 .. Rows[s] - 1 : DOMAIN K[a] = 0 .. Columns[s] - 1
    /\ r = Len(ls) - TopOf(s, ls) - 1 /\ c = Len(ls[Len(ls)])
    /\ \A a \in 0 .. Rows[s] - 1, b \in 0 .. Columns[s] - 1 :
            CellFits(s, K[a][b], ls, TopOf(s, ls) + a + 1, b)

LEMMA Sizes ==
    ASSUME NEW s \in Terminals
    PROVE  Columns[s] \in Nat \ {0} /\ Rows[s] \in Nat \ {0}
BY ConsoleAssumption DEF Terminals

LEMMA CursorFits ==
    ASSUME NEW s \in Terminals, NEW K, NEW r, NEW c, NEW ls, Picture(s, K, r, c, ls)
    PROVE  r \in 0 .. Rows[s] - 1 /\ c \in 0 .. Columns[s] /\ Len(ls) \in Nat /\ TopOf(s, ls) \in Nat
<1>1. PICK n \in Nat : n = Len(ls)
  BY DEF Picture
<1>2. Len(ls[n]) \in Nat
  <2>1. ls[n] \in Seq(Entries)
    BY <1>1 DEF Picture
  <2> QED BY <2>1
<1>3. PICK R \in Nat \ {0} : R = Rows[s]
  BY Sizes
<1>4. n >= 1 /\ r = n - TopOf(s, ls) - 1 /\ c = Len(ls[n]) /\ Len(ls[n]) <= Columns[s]
  BY <1>1 DEF Picture
<1>5. TopOf(s, ls) = IF n > R THEN n - R ELSE 0
  BY <1>1, <1>3 DEF TopOf
<1>6. r \in 0 .. R - 1 /\ TopOf(s, ls) \in Nat
  BY ONLY <1>1, <1>3, <1>4, <1>5
<1>7. Columns[s] \in Nat
  BY Sizes
<1> QED BY ONLY <1>1, <1>2, <1>3, <1>4, <1>6, <1>7

\* The two newlines: the page grows by an empty line, and scrolls when it is
\* full.
MoreLines(s, ls, ms) ==
    /\ ms \in Seq(Seq(Entries)) /\ Len(ms) = Len(ls) + 1
    /\ \A i \in 1 .. Len(ls) : ms[i] = ls[i]
    /\ ms[Len(ls) + 1] = <<>>
    /\ \A i \in 1 .. Len(ms) : Len(ms[i]) <= Columns[s]

LEMMA AppendLine ==
    ASSUME NEW s \in Terminals, NEW K, NEW r, NEW c, NEW ls, Picture(s, K, r, c, ls)
    PROVE  MoreLines(s, ls, Append(ls, <<>>))
<1>0. PICK ms : ms = Append(ls, <<>>)
  OBVIOUS
<1>1. ls \in Seq(Seq(Entries)) /\ \A i \in 1 .. Len(ls) : Len(ls[i]) <= Columns[s]
  BY DEF Picture
<1>2. <<>> \in Seq(Entries) /\ Len(<<>>) = 0
  OBVIOUS
<1>3. /\ ms \in Seq(Seq(Entries)) /\ Len(ms) = Len(ls) + 1
      /\ \A i \in 1 .. Len(ls) : ms[i] = ls[i]
      /\ ms[Len(ls) + 1] = <<>>
  <2> HIDE DEF Entries
  <2> QED BY ONLY <1>0, <1>1, <1>2
<1>4. Len(ls) \in Nat
  BY CursorFits
<1>5. \A i \in 1 .. Len(ms) : i \in 1 .. Len(ls) \/ i = Len(ls) + 1
  BY ONLY <1>3, <1>4
<1>6. Columns[s] \in Nat
  BY Sizes
<1>7. \A i \in 1 .. Len(ms) : Len(ms[i]) <= Columns[s]
  <2>1. Len(ms[Len(ls) + 1]) <= Columns[s]
    BY ONLY <1>2, <1>3, <1>6
  <2>2. \A i \in 1 .. Len(ls) : Len(ms[i]) <= Columns[s]
    BY ONLY <1>1, <1>3
  <2> QED BY ONLY <1>5, <2>1, <2>2
<1> QED BY ONLY <1>0, <1>3, <1>7 DEF MoreLines

LEMMA PictureScrolls ==
    ASSUME NEW s \in Terminals, NEW K, NEW r, NEW c, NEW ls, Picture(s, K, r, c, ls), r + 1 >= Rows[s],
           NEW M, M = [a \in DOMAIN K |-> IF a + 1 \in DOMAIN K THEN K[a + 1] ELSE EmptyScreen(s)[a]]
    PROVE  Picture(s, M, r, 0, Append(ls, <<>>))
<1>1. PICK ms : ms = Append(ls, <<>>)
  OBVIOUS
<1>2. PICK n \in Nat : n = Len(ls)
  BY CursorFits
<1>3. PICK R \in Nat \ {0} : R = Rows[s]
  BY Sizes
<1>4. PICK C \in Nat \ {0} : C = Columns[s]
  BY Sizes
<1>5. /\ ms \in Seq(Seq(Entries)) /\ Len(ms) = n + 1
      /\ \A i \in 1 .. n : ms[i] = ls[i]
      /\ ms[n + 1] = <<>>
      /\ \A i \in 1 .. n + 1 : Len(ms[i]) <= C
  <2>1. MoreLines(s, ls, ms)
    BY <1>1, AppendLine, Zenon
  <2> QED BY ONLY <1>2, <1>4, <2>1 DEF MoreLines
<1>6. PICK t \in Nat : t = TopOf(s, ls)
  BY CursorFits
<1>7. t = (IF n > R THEN n - R ELSE 0) /\ r = n - t - 1 /\ n >= 1
  BY <1>2, <1>3, <1>6 DEF TopOf, Picture
<1>8. n >= R /\ t = n - R
  BY ONLY <1>2, <1>3, <1>6, <1>7, r + 1 >= Rows[s]
<1>9. TopOf(s, ms) = t + 1
  <2>1. n + 1 > R
    BY ONLY <1>2, <1>3, <1>8
  <2>2. (n + 1) - R = t + 1
    BY ONLY <1>2, <1>3, <1>8
  <2> QED BY ONLY <1>3, <1>5, <2>1, <2>2 DEF TopOf
<1>10. DOMAIN K = 0 .. R - 1 /\ \A a \in 0 .. R - 1 : DOMAIN K[a] = 0 .. C - 1
  BY <1>3, <1>4 DEF Picture
<1>11. \A a \in 0 .. R - 1 : EmptyScreen(s)[a] = [b \in 0 .. C - 1 |-> Blank]
  BY ONLY <1>3, <1>4 DEF EmptyScreen
<1>12. /\ DOMAIN M = 0 .. R - 1
       /\ \A a \in 0 .. R - 1 : a + 1 \in 0 .. R - 1 => M[a] = K[a + 1]
       /\ \A a \in 0 .. R - 1 : ~(a + 1 \in 0 .. R - 1) => M[a] = [b \in 0 .. C - 1 |-> Blank]
  BY ONLY <1>10, <1>11, M = [a \in DOMAIN K |-> IF a + 1 \in DOMAIN K THEN K[a + 1] ELSE EmptyScreen(s)[a]]
<1>13. \A a \in 0 .. R - 1 : DOMAIN M[a] = 0 .. C - 1
  BY ONLY <1>10, <1>12
<1>14. \A a \in 0 .. R - 1, b \in 0 .. C - 1 : CellFits(s, K[a][b], ls, t + a + 1, b)
  BY <1>3, <1>4, <1>6 DEF Picture
<1>15. ASSUME NEW a \in 0 .. R - 1, NEW b \in 0 .. C - 1
       PROVE  CellFits(s, M[a][b], ms, (t + 1) + a + 1, b)
  <2>1. CASE a + 1 \in 0 .. R - 1
    <3>1. CellFits(s, M[a][b], ls, t + (a + 1) + 1, b)
      BY ONLY <1>12, <1>14, <2>1, a \in 0 .. R - 1, b \in 0 .. C - 1
    <3>2. PICK k : k = t + (a + 1) + 1
      OBVIOUS
    <3>3. k \in 1 .. n /\ (t + 1) + a + 1 = k
      <4>1. \A x, y, z, i \in Int : x \in Nat /\ x = y - z /\ i \in 0 .. z - 1 /\ i + 1 \in 0 .. z - 1 =>
                x + (i + 1) + 1 \in 1 .. y /\ (x + 1) + i + 1 = x + (i + 1) + 1
        OBVIOUS
      <4>2. a \in Int
        BY ONLY a \in 0 .. R - 1, <1>3
      <4>3. n \in Int /\ R \in Int /\ t \in Nat /\ t \in Int /\ t = n - R
        BY ONLY <1>8, n \in Nat, R \in Nat \ {0}, t \in Nat
      <4> QED BY ONLY <2>1, <3>2, <4>1, <4>2, <4>3, a \in 0 .. R - 1
    <3>4. ms[k] = ls[k] /\ k <= Len(ls) /\ k <= Len(ms)
      BY ONLY <1>2, <1>5, <3>3
    <3> QED BY ONLY <3>1, <3>2, <3>3, <3>4 DEF CellFits
  <2>2. CASE ~(a + 1 \in 0 .. R - 1)
    <3>1. M[a][b] = Blank
      BY ONLY <1>12, <2>2, a \in 0 .. R - 1, b \in 0 .. C - 1
    <3>2. (t + 1) + a + 1 = n + 1
      <4>1. a \in Int /\ a = R - 1
        BY ONLY <1>3, <2>2, a \in 0 .. R - 1
      <4>2. \A x, y, z \in Int : x = y - z => (x + 1) + (z - 1) + 1 = y + 1
        OBVIOUS
      <4>3. n \in Int /\ R \in Int /\ t \in Int /\ t = n - R
        BY ONLY <1>8, n \in Nat, R \in Nat \ {0}, t \in Nat
      <4> QED BY ONLY <4>1, <4>2, <4>3
    <3>3. Len(<<>>) = 0 /\ ~(b + 1 <= 0)
      BY ONLY b \in 0 .. C - 1, <1>4
    <3> QED BY ONLY <1>5, <3>1, <3>2, <3>3 DEF CellFits
  <2> QED BY <2>1, <2>2
<1>16. r = Len(ms) - TopOf(s, ms) - 1 /\ 0 = Len(ms[Len(ms)]) /\ Len(ms) >= 1
  <2>1. Len(<<>>) = 0
    OBVIOUS
  <2> QED BY ONLY <1>2, <1>5, <1>6, <1>7, <1>9, <2>1
<1> QED BY ONLY <1>1, <1>3, <1>4, <1>5, <1>9, <1>12, <1>13, <1>15, <1>16 DEF Picture

LEMMA PictureGrows ==
    ASSUME NEW s \in Terminals, NEW K, NEW r, NEW c, NEW ls, Picture(s, K, r, c, ls), ~(r + 1 >= Rows[s])
    PROVE  Picture(s, K, r + 1, 0, Append(ls, <<>>))
<1>1. PICK ms : ms = Append(ls, <<>>)
  OBVIOUS
<1>2. PICK n \in Nat : n = Len(ls)
  BY CursorFits
<1>3. PICK R \in Nat \ {0} : R = Rows[s]
  BY Sizes
<1>4. PICK C \in Nat \ {0} : C = Columns[s]
  BY Sizes
<1>5. /\ ms \in Seq(Seq(Entries)) /\ Len(ms) = n + 1
      /\ \A i \in 1 .. n : ms[i] = ls[i]
      /\ ms[n + 1] = <<>>
      /\ \A i \in 1 .. n + 1 : Len(ms[i]) <= C
  <2>1. MoreLines(s, ls, ms)
    BY <1>1, AppendLine, Zenon
  <2> QED BY ONLY <1>2, <1>4, <2>1 DEF MoreLines
<1>6. PICK t \in Nat : t = TopOf(s, ls)
  BY CursorFits
<1>7. t = (IF n > R THEN n - R ELSE 0) /\ r = n - t - 1 /\ n >= 1
  BY <1>2, <1>3, <1>6 DEF TopOf, Picture
<1>8. n < R /\ t = 0
  BY ONLY <1>2, <1>3, <1>6, <1>7, ~(r + 1 >= Rows[s])
<1>9. TopOf(s, ms) = 0
  <2>1. ~(n + 1 > R)
    BY ONLY <1>2, <1>3, <1>8
  <2> QED BY ONLY <1>3, <1>5, <2>1 DEF TopOf
<1>10. DOMAIN K = 0 .. R - 1 /\ \A a \in 0 .. R - 1 : DOMAIN K[a] = 0 .. C - 1
  BY <1>3, <1>4 DEF Picture
<1>14. \A a \in 0 .. R - 1, b \in 0 .. C - 1 : CellFits(s, K[a][b], ls, t + a + 1, b)
  BY <1>3, <1>4, <1>6 DEF Picture
<1>15. ASSUME NEW a \in 0 .. R - 1, NEW b \in 0 .. C - 1
       PROVE  CellFits(s, K[a][b], ms, 0 + a + 1, b)
  <2>1. CellFits(s, K[a][b], ls, a + 1, b)
    <3>1. t + a + 1 = a + 1
      BY ONLY <1>3, <1>8, a \in 0 .. R - 1
    <3> QED BY ONLY <1>14, <3>1, a \in 0 .. R - 1, b \in 0 .. C - 1
  <2>2. 0 + a + 1 = a + 1 /\ a + 1 \in Nat
    BY ONLY a \in 0 .. R - 1, <1>3
  <2>3. CASE a + 1 \in 1 .. n
    <3>1. ms[a + 1] = ls[a + 1] /\ a + 1 <= Len(ls) /\ a + 1 <= Len(ms)
      BY ONLY <1>2, <1>5, <2>2, <2>3
    <3> QED BY ONLY <2>1, <2>2, <3>1 DEF CellFits
  <2>4. CASE ~(a + 1 \in 1 .. n)
    <3>1. ~(a + 1 <= Len(ls))
      BY ONLY <1>2, <2>2, <2>4, a \in 0 .. R - 1, <1>3
    <3>2. K[a][b] = Blank
      BY ONLY <2>1, <3>1 DEF CellFits
    <3>3. CASE a + 1 = n + 1
      <4>1. Len(<<>>) = 0 /\ ~(b + 1 <= 0)
        BY ONLY b \in 0 .. C - 1, <1>4
      <4> QED BY ONLY <1>5, <2>2, <3>2, <3>3, <4>1 DEF CellFits
    <3>4. CASE a + 1 # n + 1
      <4>1. ~(a + 1 <= Len(ms))
        <5>1. PICK x \in Nat : x = a + 1
          BY ONLY <2>2
        <5>2. x >= 1 /\ ~(x \in 1 .. n) /\ x # n + 1
          BY ONLY <2>4, <3>4, <5>1, a \in 0 .. R - 1, R \in Nat \ {0}
        <5>3. ~(x <= n + 1)
          BY ONLY <5>2, x \in Nat, n \in Nat
        <5> QED BY ONLY <1>5, <5>1, <5>3
      <4> QED BY ONLY <2>2, <3>2, <4>1 DEF CellFits
    <3> QED BY <3>3, <3>4
  <2> QED BY <2>3, <2>4
<1>16. r + 1 = Len(ms) - TopOf(s, ms) - 1 /\ 0 = Len(ms[Len(ms)]) /\ Len(ms) >= 1
  <2>1. Len(<<>>) = 0
    OBVIOUS
  <2> QED BY ONLY <1>2, <1>5, <1>6, <1>7, <1>8, <1>9, <2>1
<1> QED BY ONLY <1>1, <1>3, <1>4, <1>5, <1>9, <1>10, <1>15, <1>16 DEF Picture

\* A character goes to the end of the last line.
LEMMA PicturePuts ==
    ASSUME NEW s \in Terminals, NEW K, NEW r, NEW c, NEW ls, Picture(s, K, r, c, ls), c < Columns[s],
           NEW e \in Entries, NEW cell, Shows(s, cell, e),
           NEW M, M = [K EXCEPT ![r] = [K[r] EXCEPT ![c] = cell]],
           NEW ms, ms = [ls EXCEPT ![Len(ls)] = Append(ls[Len(ls)], e)]
    PROVE  Picture(s, M, r, c + 1, ms)
<1>2. PICK n \in Nat : n = Len(ls)
  BY CursorFits
<1>3. PICK R \in Nat \ {0} : R = Rows[s]
  BY Sizes
<1>4. PICK C \in Nat \ {0} : C = Columns[s]
  BY Sizes
<1>5. r \in 0 .. R - 1 /\ c \in 0 .. C - 1
  <2>1. r \in 0 .. R - 1 /\ c \in 0 .. C
    BY <1>3, <1>4, CursorFits
  <2> QED BY ONLY <1>4, <2>1, c < Columns[s]
<1>6. PICK t \in Nat : t = TopOf(s, ls)
  BY CursorFits
<1>7. t = (IF n > R THEN n - R ELSE 0) /\ r = n - t - 1 /\ n >= 1 /\ c = Len(ls[n])
  BY <1>2, <1>3, <1>6 DEF TopOf, Picture
<1>8. ls \in Seq(Seq(Entries)) /\ \A i \in 1 .. n : Len(ls[i]) <= C
  BY <1>2, <1>4 DEF Picture
<1>9. PICK line \in Seq(Entries) : line = ls[n]
  BY ONLY <1>2, <1>7, <1>8
<1>10. PICK more \in Seq(Entries) : more = Append(line, e)
  <2>1. Append(line, e) \in Seq(Entries)
    BY ONLY <1>9, e \in Entries
  <2> QED BY ONLY <2>1
<1>11. Len(more) = c + 1 /\ more[c + 1] = e /\ \A b \in 1 .. c : more[b] = line[b]
  BY ONLY <1>7, <1>9, <1>10, e \in Entries
<1>12. ms \in Seq(Seq(Entries)) /\ Len(ms) = n /\ ms[n] = more /\ \A i \in 1 .. n : i # n => ms[i] = ls[i]
  <2>1. ms = [ls EXCEPT ![n] = more]
    BY ONLY <1>2, <1>9, <1>10, ms = [ls EXCEPT ![Len(ls)] = Append(ls[Len(ls)], e)]
  <2>2. n \in 1 .. Len(ls)
    BY ONLY <1>2, <1>7
  <2> HIDE DEF Entries
  <2> QED BY ONLY <1>2, <1>8, <1>10, <2>1, <2>2
<1>13. \A i \in 1 .. n : Len(ms[i]) <= C
  <2>1. c + 1 <= C
    BY ONLY <1>4, <1>5
  <2> QED BY ONLY <1>8, <1>11, <1>12, <2>1
<1>14. TopOf(s, ms) = t
  BY ONLY <1>2, <1>6, <1>12 DEF TopOf
<1>15. DOMAIN K = 0 .. R - 1 /\ \A a \in 0 .. R - 1 : DOMAIN K[a] = 0 .. C - 1
  BY <1>3, <1>4 DEF Picture
<1>16. \A a \in 0 .. R - 1, b \in 0 .. C - 1 : CellFits(s, K[a][b], ls, t + a + 1, b)
  BY <1>3, <1>4, <1>6 DEF Picture
<1>17. PICK row : row = [K[r] EXCEPT ![c] = cell]
  OBVIOUS
<1>18. DOMAIN row = 0 .. C - 1 /\ row[c] = cell /\ \A b \in 0 .. C - 1 : b # c => row[b] = K[r][b]
  BY ONLY <1>5, <1>15, <1>17
<1>19. DOMAIN M = 0 .. R - 1 /\ M[r] = row /\ \A a \in 0 .. R - 1 : a # r => M[a] = K[a]
  BY ONLY <1>5, <1>15, <1>17, M = [K EXCEPT ![r] = [K[r] EXCEPT ![c] = cell]]
<1>20. \A a \in 0 .. R - 1 : DOMAIN M[a] = 0 .. C - 1
  BY ONLY <1>15, <1>18, <1>19
<1>21. ASSUME NEW a \in 0 .. R - 1, NEW b \in 0 .. C - 1
       PROVE  CellFits(s, M[a][b], ms, t + a + 1, b)
  <2>0. PICK k : k = t + a + 1
    OBVIOUS
  <2>1. CellFits(s, K[a][b], ls, k, b)
    BY ONLY <1>16, <2>0, a \in 0 .. R - 1, b \in 0 .. C - 1
  <2>2. k \in Nat /\ k >= 1 /\ (k = n <=> a = r)
    <3>1. a \in Nat /\ r \in Nat /\ r = n - t - 1
      BY ONLY <1>3, <1>5, <1>7, a \in 0 .. R - 1
    <3>2. k \in Nat /\ k >= 1
      BY ONLY <2>0, <3>1, t \in Nat
    <3>3. k = n <=> a = r
      BY ONLY <2>0, <3>1, t \in Nat, n \in Nat
    <3> QED BY ONLY <3>2, <3>3
  <2>3. CASE a # r
    <3>1. M[a][b] = K[a][b]
      BY ONLY <1>19, <2>3, a \in 0 .. R - 1
    <3>2. k <= Len(ls) <=> k <= Len(ms)
      BY ONLY <1>2, <1>12
    <3>3. k <= Len(ls) => ms[k] = ls[k]
      BY ONLY <1>2, <1>12, <2>2, <2>3
    <3> QED BY ONLY <2>0, <2>1, <3>1, <3>2, <3>3 DEF CellFits
  <2>4. CASE a = r
    <3>1. k = n /\ n <= Len(ms) /\ n <= Len(ls)
      BY ONLY <1>2, <1>12, <2>2, <2>4
    <3>2. M[a] = row
      BY ONLY <1>19, <2>4
    <3>3. CASE b = c
      <4>1. M[a][b] = cell /\ ms[k][b + 1] = e /\ b + 1 <= Len(ms[k])
        BY ONLY <1>5, <1>11, <1>12, <1>18, <3>1, <3>2, <3>3
      <4> QED BY ONLY <2>0, <3>1, <4>1, Shows(s, cell, e) DEF CellFits
    <3>4. CASE b # c
      <4>1. M[a][b] = K[a][b]
        BY ONLY <1>18, <2>4, <3>2, <3>4, b \in 0 .. C - 1
      <4>2. Len(ls[k]) = c /\ Len(ms[k]) = c + 1
        BY ONLY <1>7, <1>11, <1>12, <3>1
      <4>3. b + 1 <= Len(ls[k]) <=> b + 1 <= Len(ms[k])
        BY ONLY <1>4, <1>5, <3>4, <4>2, b \in 0 .. C - 1
      <4>4. b + 1 <= Len(ls[k]) => ms[k][b + 1] = ls[k][b + 1]
        <5>1. b + 1 <= Len(ls[k]) => b + 1 \in 1 .. c
          BY ONLY <1>5, <4>2, b \in 0 .. C - 1
        <5> QED BY ONLY <1>9, <1>11, <1>12, <3>1, <5>1
      <4> QED BY ONLY <2>0, <2>1, <3>1, <4>1, <4>3, <4>4 DEF CellFits
    <3> QED BY <3>3, <3>4
  <2> QED BY <2>3, <2>4
<1> QED BY ONLY <1>2, <1>3, <1>4, <1>6, <1>7, <1>11, <1>12, <1>13, <1>14, <1>19, <1>20, <1>21 DEF Picture


-----------------------------------------------------------------------------
\* A terminal that shows a page, with its cursor on the screen.
Shape(t) == DOMAIN t = {"cells", "row", "col", "fg"}

Drawn(s, t, ls) ==
    Shape(t) /\ Picture(s, t.cells, t.row, t.col, ls) /\ t.col < Columns[s]

\* The colour a character is drawn in.
Inked(fg, e) ==
    fg \in Junk \cup ToSet(LevelColour) /\ (e.lvl # 0 => fg = LevelColour[e.lvl])

\* The terminals that follow the log: a framebuffer some process has opened
\* does not.
Follows(s) == s \in Terminals /\ ~(s = "fb" /\ takeover)

LEMMA NewlineDraws ==
    ASSUME NEW s \in Terminals, NEW t, Shape(t), NEW ls, Picture(s, t.cells, t.row, t.col, ls),
           NEW u, u = IF s = "vga" THEN VgaNewline(t) ELSE FbNewline(t)
    PROVE  Drawn(s, u, Append(ls, <<>>)) /\ u.fg = t.fg
<1>1. PICK K : K = t.cells
  OBVIOUS
<1>2. PICK r : r = t.row
  OBVIOUS
<1>3. PICK c : c = t.col
  OBVIOUS
<1>4. Picture(s, K, r, c, ls)
  BY ONLY <1>1, <1>2, <1>3, Picture(s, t.cells, t.row, t.col, ls)
<1>5. 0 < Columns[s]
  <2>1. Columns[s] \in Nat \ {0}
    BY Sizes
  <2> QED BY ONLY <2>1
<1>6. CASE r + 1 >= Rows[s]
  <2>1. PICK M : M = [a \in DOMAIN K |-> IF a + 1 \in DOMAIN K THEN K[a + 1] ELSE EmptyScreen(s)[a]]
    OBVIOUS
  <2>2. u = [t EXCEPT !.cells = M, !.col = 0]
    <3>1. CASE s = "vga"
      <4>1. VgaScroll(K) = M
        BY ONLY <2>1, <3>1 DEF VgaScroll
      <4>2. VgaNewline(t) = [t EXCEPT !.cells = VgaScroll(t.cells), !.col = 0]
        BY ONLY <1>2, <1>6, <3>1, Shape(t) DEF VgaNewline, Shape
      <4> QED BY ONLY <1>1, <3>1, <4>1, <4>2, u = IF s = "vga" THEN VgaNewline(t) ELSE FbNewline(t)
    <3>2. CASE s = "fb"
      <4>1. FbScroll(K) = M
        BY ONLY <2>1, <3>2 DEF FbScroll
      <4>2. FbNewline(t) = [t EXCEPT !.cells = FbScroll(t.cells), !.col = 0]
        BY ONLY <1>2, <1>6, <3>2, Shape(t) DEF FbNewline, Shape
      <4>3. "vga" # "fb"
        OBVIOUS
      <4> QED BY ONLY <1>1, <3>2, <4>1, <4>2, <4>3, u = IF s = "vga" THEN VgaNewline(t) ELSE FbNewline(t)
    <3> QED BY <3>1, <3>2 DEF Terminals
  <2>3. Shape(u) /\ u.cells = M /\ u.row = r /\ u.fg = t.fg /\ u.col = 0
    BY ONLY <1>2, <2>2, Shape(t) DEF Shape
  <2>4. Picture(s, M, r, 0, Append(ls, <<>>))
    BY <1>4, <1>6, <2>1, PictureScrolls
  <2> QED BY ONLY <1>5, <2>3, <2>4 DEF Drawn
<1>7. CASE ~(r + 1 >= Rows[s])
  <2>2. u = [t EXCEPT !.row = @ + 1, !.col = 0]
    <3>1. CASE s = "vga"
      <4>1. VgaNewline(t) = [t EXCEPT !.row = @ + 1, !.col = 0]
        BY ONLY <1>2, <1>7, <3>1, Shape(t) DEF VgaNewline, Shape
      <4> QED BY ONLY <3>1, <4>1, u = IF s = "vga" THEN VgaNewline(t) ELSE FbNewline(t)
    <3>2. CASE s = "fb"
      <4>1. FbNewline(t) = [t EXCEPT !.row = @ + 1, !.col = 0]
        BY ONLY <1>2, <1>7, <3>2, Shape(t) DEF FbNewline, Shape
      <4>2. "vga" # "fb"
        OBVIOUS
      <4> QED BY ONLY <3>2, <4>1, <4>2, u = IF s = "vga" THEN VgaNewline(t) ELSE FbNewline(t)
    <3> QED BY <3>1, <3>2 DEF Terminals
  <2>3. Shape(u) /\ u.cells = K /\ u.row = r + 1 /\ u.fg = t.fg /\ u.col = 0
    BY ONLY <1>1, <1>2, <2>2, Shape(t) DEF Shape
  <2>4. Picture(s, K, r + 1, 0, Append(ls, <<>>))
    BY <1>4, <1>7, PictureGrows
  <2> QED BY ONLY <1>5, <2>3, <2>4 DEF Drawn
<1> QED BY <1>6, <1>7

\* A character is put on the last line, and a full line is ended.
LEMMA CharDraws ==
    ASSUME NEW s \in Terminals, NEW t, NEW ls, Drawn(s, t, ls), NEW e \in Entries, e.c # Newline, Inked(t.fg, e),
           NEW u, u = IF s = "vga" THEN VgaPrintChar(t, e.c) ELSE FbPrintChar(t, e.c)
    PROVE  Drawn(s, u, AddToPage(s, ls, e)) /\ u.fg = t.fg
<1>1. PICK K : K = t.cells
  OBVIOUS
<1>2. PICK r : r = t.row
  OBVIOUS
<1>3. PICK c : c = t.col
  OBVIOUS
<1>4. Picture(s, K, r, c, ls) /\ c < Columns[s] /\ Shape(t)
  BY ONLY <1>1, <1>2, <1>3, Drawn(s, t, ls) DEF Drawn
<1>5. PICK R \in Nat \ {0} : R = Rows[s]
  BY Sizes
<1>6. PICK C \in Nat \ {0} : C = Columns[s]
  BY Sizes
<1>7. r \in 0 .. R - 1 /\ c \in 0 .. C
  BY <1>4, <1>5, <1>6, CursorFits
<1>8. PICK cell : cell = IF s = "vga" THEN {<<e.c, VgaWhite>>} ELSE K[r][c] \cup (IF e.c = Space THEN {} ELSE {<<e.c, Pixel(t.fg)>>})
  OBVIOUS
<1>9. s = "vga" \/ (s = "fb" /\ s # "vga")
  BY DEF Terminals
<1>10. K[r][c] = Blank
  <2>1. PICK n : n = Len(ls)
    OBVIOUS
  <2>2. TopOf(s, ls) + r + 1 = n /\ Len(ls[n]) = c /\ c \in 0 .. C - 1
    <3>1. n \in Nat /\ TopOf(s, ls) \in Nat
      BY <1>4, <2>1, CursorFits
    <3>2. r = n - TopOf(s, ls) - 1 /\ c = Len(ls[n])
      BY ONLY <1>4, <2>1 DEF Picture
    <3> QED BY ONLY <1>4, <1>6, <1>7, <3>1, <3>2, C \in Nat \ {0}
  <2>3. CellFits(s, K[r][c], ls, n, c)
    BY ONLY <1>4, <1>5, <1>6, <1>7, <2>2 DEF Picture
  <2>4. ~(c + 1 <= c)
    BY ONLY <1>6, <2>2, C \in Nat \ {0}
  <2> QED BY ONLY <2>2, <2>3, <2>4 DEF CellFits
<1>11. Shows(s, cell, e)
  <2>1. CASE s = "vga"
    BY ONLY <1>8, <2>1 DEF Shows
  <2>2. CASE s = "fb" /\ s # "vga"
    <3>1. CASE e.c = Space
      BY ONLY <1>8, <1>10, <2>2, <3>1 DEF Shows, Blank
    <3>2. CASE e.c # Space
      <4>1. cell = {<<e.c, Pixel(t.fg)>>}
        BY ONLY <1>8, <1>10, <2>2, <3>2 DEF Blank
      <4>2. t.fg \in Junk \cup ToSet(LevelColour) /\ (e.lvl # 0 => t.fg = LevelColour[e.lvl])
        BY ONLY Inked(t.fg, e) DEF Inked
      <4> QED BY ONLY <2>2, <3>2, <4>1, <4>2, Zenon DEF Shows
    <3> QED BY <3>1, <3>2
  <2> QED BY <1>9, <2>1, <2>2
<1>12. PICK M : M = [K EXCEPT ![r] = [K[r] EXCEPT ![c] = cell]]
  OBVIOUS
<1>13. PICK ms : ms = [ls EXCEPT ![Len(ls)] = Append(ls[Len(ls)], e)]
  OBVIOUS
<1>14. Picture(s, M, r, c + 1, ms)
  BY <1>4, <1>11, <1>12, <1>13, PicturePuts
<1>15. PICK v : v = [t EXCEPT !.cells[t.row][t.col] = cell, !.col = @ + 1]
  OBVIOUS
<1>16. Shape(v) /\ v.cells = M /\ v.row = r /\ v.col = c + 1 /\ v.fg = t.fg
  BY ONLY <1>1, <1>2, <1>3, <1>4, <1>12, <1>15 DEF Shape
<1>17. Picture(s, v.cells, v.row, v.col, ms)
  BY ONLY <1>14, <1>16
<1>18. PICK n \in Nat : n = Len(ls)
  BY <1>4, CursorFits
<1>19. c = Len(ls[n]) /\ ls[n] \in Seq(Entries)
  <2>1. ls \in Seq(Seq(Entries)) /\ Len(ls) >= 1 /\ c = Len(ls[Len(ls)])
    BY ONLY <1>4 DEF Picture
  <2> QED BY ONLY <1>18, <2>1, n \in Nat
<1>20. AddToPage(s, ls, e) = IF c + 1 = C THEN Append(ms, <<>>) ELSE ms
  <2>1. Len(Append(ls[n], e)) = c + 1
    BY ONLY <1>19, e \in Entries
  <2>2. Last(ls) = ls[n]
    BY ONLY <1>18 DEF Last
  <2> QED BY ONLY <1>6, <1>13, <1>18, <2>1, <2>2, e.c # Newline DEF AddToPage
<1>21. c + 1 >= C <=> c + 1 = C
  BY ONLY <1>4, <1>6, <1>7, C \in Nat \ {0}
<1>22. c \in Int /\ r \in Int /\ ~(c >= C) /\ ~(r >= R)
  BY ONLY <1>4, <1>5, <1>6, <1>7, C \in Nat \ {0}, R \in Nat \ {0}
<1>23. u = IF c + 1 >= C THEN (IF s = "vga" THEN VgaNewline(v) ELSE FbNewline(v)) ELSE v
  <2>1. CASE s = "vga"
    <3>1. VgaPrintChar(t, e.c) = IF v.col >= C THEN VgaNewline(v) ELSE v
      <4>1. v = [t EXCEPT !.cells[t.row][t.col] = {<<e.c, VgaWhite>>}, !.col = @ + 1]
        BY ONLY <1>8, <1>15, <2>1
      <4> QED BY ONLY <1>2, <1>3, <1>5, <1>6, <1>22, <2>1, <4>1 DEF VgaPrintChar
    <3> QED BY ONLY <1>16, <2>1, <3>1, u = IF s = "vga" THEN VgaPrintChar(t, e.c) ELSE FbPrintChar(t, e.c)
  <2>2. CASE s = "fb" /\ s # "vga"
    <3>1. PICK glyph : glyph = IF e.c = Space THEN {} ELSE {<<e.c, Pixel(t.fg)>>}
      OBVIOUS
    <3>2. PICK w : w = [t EXCEPT !.cells[t.row][t.col] = @ \cup glyph]
      OBVIOUS
    <3>3. cell = t.cells[t.row][t.col] \cup glyph
      BY ONLY <1>1, <1>2, <1>3, <1>8, <2>2, <3>1
    <3>4. Shape(w) /\ w.cells = M /\ w.row = r /\ w.col = c /\ w.fg = t.fg
      BY ONLY <1>1, <1>2, <1>3, <1>4, <1>12, <3>2, <3>3 DEF Shape
    <3>5. FbPrintChar(t, e.c) = IF c + 1 >= C THEN FbNewline(w) ELSE [w EXCEPT !.col = @ + 1]
      BY ONLY <1>3, <1>6, <2>2, <3>1, <3>2 DEF FbPrintChar
    <3>6. [w EXCEPT !.col = @ + 1] = v
      BY ONLY <1>1, <1>2, <1>3, <1>4, <1>15, <3>2, <3>3, <3>4 DEF Shape
    <3>7. FbNewline(w) = FbNewline(v)
      <4>1. v = [w EXCEPT !.col = c + 1]
        BY ONLY <3>4, <3>6
      <4>2. [w EXCEPT !.cells = FbScroll(M), !.col = 0] = [v EXCEPT !.cells = FbScroll(M), !.col = 0]
        BY ONLY <3>4, <4>1 DEF Shape
      <4>3. [w EXCEPT !.row = r + 1, !.col = 0] = [v EXCEPT !.row = r + 1, !.col = 0]
        BY ONLY <3>4, <4>1 DEF Shape
      <4>4. FbNewline(w) = IF r + 1 >= Rows["fb"] THEN [w EXCEPT !.cells = FbScroll(M), !.col = 0]
                                               ELSE [w EXCEPT !.row = r + 1, !.col = 0]
        BY ONLY <3>4 DEF FbNewline, Shape
      <4>5. FbNewline(v) = IF r + 1 >= Rows["fb"] THEN [v EXCEPT !.cells = FbScroll(M), !.col = 0]
                                               ELSE [v EXCEPT !.row = r + 1, !.col = 0]
        BY ONLY <1>16 DEF FbNewline, Shape
      <4>6. PICK x : x = [v EXCEPT !.cells = FbScroll(M), !.col = 0]
        OBVIOUS
      <4>7. PICK y : y = [v EXCEPT !.row = r + 1, !.col = 0]
        OBVIOUS
      <4>8. FbNewline(w) = IF r + 1 >= Rows["fb"] THEN x ELSE y
        BY ONLY <4>2, <4>3, <4>4, <4>6, <4>7
      <4>9. FbNewline(v) = IF r + 1 >= Rows["fb"] THEN x ELSE y
        BY ONLY <4>5, <4>6, <4>7
      <4> QED BY ONLY <4>8, <4>9
    <3> QED BY ONLY <2>2, <3>5, <3>6, <3>7, u = IF s = "vga" THEN VgaPrintChar(t, e.c) ELSE FbPrintChar(t, e.c)
  <2> QED BY <1>9, <2>1, <2>2
<1>24. CASE c + 1 >= C
  <2>1. u = IF s = "vga" THEN VgaNewline(v) ELSE FbNewline(v)
    BY ONLY <1>23, <1>24
  <2>2. Drawn(s, u, Append(ms, <<>>)) /\ u.fg = v.fg
    <3>1. Shape(v)
      BY ONLY <1>16
    <3> QED BY ONLY <1>17, <2>1, <3>1, s \in Terminals, NewlineDraws, Zenon
  <2> QED BY ONLY <1>16, <1>20, <1>21, <1>24, <2>2
<1>25. CASE ~(c + 1 >= C)
  <2>1. u = v /\ AddToPage(s, ls, e) = ms
    BY ONLY <1>20, <1>21, <1>23, <1>25
  <2>2. v.col < Columns[s]
    BY ONLY <1>6, <1>16, <1>22, <1>25, C \in Nat \ {0}
  <2> QED BY ONLY <1>16, <1>17, <2>1, <2>2 DEF Drawn
<1> QED BY <1>24, <1>25


-----------------------------------------------------------------------------
\* The escape sequences are parsed to their end, and to their colours.
LEMMA DigitsAre ==
    /\ Digit["0"] = 0 /\ Digit["1"] = 1 /\ Digit["3"] = 3 /\ Digit["4"] = 4
    /\ Digit["6"] = 6 /\ Digit["7"] = 7 /\ Digit["9"] = 9
BY DEF Digit

State(mode, want, nn, fg, len) == [mode |-> mode, wantFg |-> want, nn |-> nn, fg |-> fg, len |-> len]


ColourChars(str, m, d) ==
    /\ Len(str) = 10
    /\ str[2] = "[" /\ str[3] = m /\ str[4] = ";" /\ str[5] = "3" /\ str[6] = d /\ str[7] = ";" /\ str[8] = "4" /\ str[9] = "9" /\ str[10] = "m"

LEMMA ColourParsed ==
    ASSUME NEW m \in {"0", "1"}, NEW d \in {"1", "3", "6", "7", "9"},
           NEW junk, NEW str, ColourChars(str, m, d)
    PROVE  ParseAnsi(str, junk).len = 9 /\ ParseAnsi(str, junk).fg = ColourOf(30 + Digit[d], junk)
<1>30. Len(str) = 10
  BY DEF ColourChars
<1>31. str[2] = "["
  BY DEF ColourChars
<1>32. str[3] = m
  BY DEF ColourChars
<1>33. str[4] = ";"
  BY DEF ColourChars
<1>34. str[5] = "3"
  BY DEF ColourChars
<1>35. str[6] = d
  BY DEF ColourChars
<1>36. str[7] = ";"
  BY DEF ColourChars
<1>37. str[8] = "4"
  BY DEF ColourChars
<1>38. str[9] = "9"
  BY DEF ColourChars
<1>39. str[10] = "m"
  BY DEF ColourChars
<1>1. PICK f : /\ f[1] = ParseStart(junk)
               /\ \A i \in 2 .. Len(str) : f[i] = ParseStep(str, f[i - 1], i)
               /\ ParseAnsi(str, junk) = f[Len(str)]
  <2>1. Len(str) \in Nat /\ Len(str) >= 1
    BY ONLY <1>30
  <2> QED BY <2>1, ParseRuns, Zenon
<1>2. f[1] = State(FALSE, FALSE, 0, junk, 0)
  BY ONLY <1>1 DEF ParseStart, State
<1>20. m # "[" /\ m # ";" /\ m # "m" /\ Digit[m] \in Nat
  <2>1. m = "0" \/ m = "1"
    OBVIOUS
  <2>2. m # "[" /\ m # ";" /\ m # "m"
    BY ONLY <2>1
  <2>3. Digit[m] \in Nat
    BY ONLY <2>1, DigitsAre
  <2> QED BY ONLY <2>2, <2>3
<1>21. d # "[" /\ d # ";" /\ d # "m" /\ Digit[d] \in Nat
  <2>1. d = "1" \/ d = "3" \/ d = "6" \/ d = "7" \/ d = "9"
    OBVIOUS
  <2>2. d # "[" /\ d # ";" /\ d # "m"
    BY ONLY <2>1
  <2>3. Digit[d] \in Nat
    BY ONLY <2>1, DigitsAre
  <2> QED BY ONLY <2>2, <2>3
<1>3. f[2] = State(TRUE, FALSE, 0, junk, 0)
  <2>1. f[2] = ParseStep(str, f[1], 2)
    <3>1. 2 \in 2 .. Len(str) /\ 2 - 1 = 1
      BY ONLY <1>30
    <3> QED BY ONLY <1>1, <3>1
  <2>2. ParseStep(str, State(FALSE, FALSE, 0, junk, 0), 2) = State(TRUE, FALSE, 0, junk, 0)
    BY ONLY <1>31 DEF ParseStep, State
  <2> QED BY ONLY <1>2, <2>1, <2>2
<1>4. f[3] = State(TRUE, FALSE, Digit[m], junk, 0)
  <2>1. f[3] = ParseStep(str, f[2], 3)
    <3>1. 3 \in 2 .. Len(str) /\ 3 - 1 = 2
      BY ONLY <1>30
    <3> QED BY ONLY <1>1, <3>1
  <2>2. ParseStep(str, State(TRUE, FALSE, 0, junk, 0), 3) = State(TRUE, FALSE, 0 * 10 + Digit[m], junk, 0)
    BY ONLY <1>32, <1>20 DEF ParseStep, State
  <2>3. 0 * 10 + Digit[m] = Digit[m]
    <3>1. \A x \in Nat : 0 * 10 + x = x
      BY ONLY TRUE
    <3> QED BY ONLY <1>20, <3>1
  <2> QED BY ONLY <1>3, <2>1, <2>2, <2>3
<1>5. f[4] = State(FALSE, TRUE, 0, junk, 0)
  <2>1. f[4] = ParseStep(str, f[3], 4)
    <3>1. 4 \in 2 .. Len(str) /\ 4 - 1 = 3
      BY ONLY <1>30
    <3> QED BY ONLY <1>1, <3>1
  <2>2. ParseStep(str, State(TRUE, FALSE, Digit[m], junk, 0), 4) = State(FALSE, TRUE, 0, junk, 0)
    BY ONLY <1>33, <1>20 DEF ParseStep, State
  <2> QED BY ONLY <1>4, <2>1, <2>2
<1>6. f[5] = State(FALSE, TRUE, 3, junk, 0)
  <2>1. f[5] = ParseStep(str, f[4], 5)
    <3>1. 5 \in 2 .. Len(str) /\ 5 - 1 = 4
      BY ONLY <1>30
    <3> QED BY ONLY <1>1, <3>1
  <2>2. ParseStep(str, State(FALSE, TRUE, 0, junk, 0), 5) = State(FALSE, TRUE, 0 * 10 + Digit["3"], junk, 0)
    BY ONLY <1>34 DEF ParseStep, State
  <2>3. 0 * 10 + Digit["3"] = 3
    BY ONLY DigitsAre
  <2> QED BY ONLY <1>5, <2>1, <2>2, <2>3
<1>7. f[6] = State(FALSE, TRUE, 30 + Digit[d], junk, 0)
  <2>1. f[6] = ParseStep(str, f[5], 6)
    <3>1. 6 \in 2 .. Len(str) /\ 6 - 1 = 5
      BY ONLY <1>30
    <3> QED BY ONLY <1>1, <3>1
  <2>2. ParseStep(str, State(FALSE, TRUE, 3, junk, 0), 6) = State(FALSE, TRUE, 3 * 10 + Digit[d], junk, 0)
    BY ONLY <1>35, <1>21 DEF ParseStep, State
  <2>3. 3 * 10 + Digit[d] = 30 + Digit[d]
    <3>1. \A x \in Nat : 3 * 10 + x = 30 + x
      BY ONLY TRUE
    <3> QED BY ONLY <1>21, <3>1
  <2> QED BY ONLY <1>6, <2>1, <2>2, <2>3
<1>8. f[7] = State(FALSE, FALSE, 0, ColourOf(30 + Digit[d], junk), 0)
  <2>1. f[7] = ParseStep(str, f[6], 7)
    <3>1. 7 \in 2 .. Len(str) /\ 7 - 1 = 6
      BY ONLY <1>30
    <3> QED BY ONLY <1>1, <3>1
  <2>2. ParseStep(str, State(FALSE, TRUE, 30 + Digit[d], junk, 0), 7) = State(FALSE, FALSE, 0, ColourOf(30 + Digit[d], junk), 0)
    BY ONLY <1>36, <1>21 DEF ParseStep, State
  <2> QED BY ONLY <1>7, <2>1, <2>2
<1>9. f[8] = State(FALSE, FALSE, 4, ColourOf(30 + Digit[d], junk), 0)
  <2>1. f[8] = ParseStep(str, f[7], 8)
    <3>1. 8 \in 2 .. Len(str) /\ 8 - 1 = 7
      BY ONLY <1>30
    <3> QED BY ONLY <1>1, <3>1
  <2>2. ParseStep(str, State(FALSE, FALSE, 0, ColourOf(30 + Digit[d], junk), 0), 8) = State(FALSE, FALSE, 0 * 10 + Digit["4"], ColourOf(30 + Digit[d], junk), 0)
    BY ONLY <1>37 DEF ParseStep, State
  <2>3. 0 * 10 + Digit["4"] = 4
    BY ONLY DigitsAre
  <2> QED BY ONLY <1>8, <2>1, <2>2, <2>3
<1>10. f[9] = State(FALSE, FALSE, 49, ColourOf(30 + Digit[d], junk), 0)
  <2>1. f[9] = ParseStep(str, f[8], 9)
    <3>1. 9 \in 2 .. Len(str) /\ 9 - 1 = 8
      BY ONLY <1>30
    <3> QED BY ONLY <1>1, <3>1
  <2>2. ParseStep(str, State(FALSE, FALSE, 4, ColourOf(30 + Digit[d], junk), 0), 9) = State(FALSE, FALSE, 4 * 10 + Digit["9"], ColourOf(30 + Digit[d], junk), 0)
    BY ONLY <1>38 DEF ParseStep, State
  <2>3. 4 * 10 + Digit["9"] = 49
    BY ONLY DigitsAre
  <2> QED BY ONLY <1>9, <2>1, <2>2, <2>3
<1>11. f[10] = State(FALSE, FALSE, 49, ColourOf(30 + Digit[d], junk), 9)
  <2>1. f[10] = ParseStep(str, f[9], 10)
    <3>1. 10 \in 2 .. Len(str) /\ 10 - 1 = 9
      BY ONLY <1>30
    <3> QED BY ONLY <1>1, <3>1
  <2>2. ParseStep(str, State(FALSE, FALSE, 49, ColourOf(30 + Digit[d], junk), 0), 10) = State(FALSE, FALSE, 49, ColourOf(30 + Digit[d], junk), 10 - 1)
    BY ONLY <1>39 DEF ParseStep, State
  <2>3. 10 - 1 = 9
    BY ONLY TRUE
  <2> QED BY ONLY <1>10, <2>1, <2>2, <2>3
<1> QED BY ONLY <1>1, <1>11, <1>30 DEF State

ClearChars(str) ==
    /\ Len(str) = 4
    /\ str[2] = "[" /\ str[3] = "0" /\ str[4] = "m"

LEMMA ClearParsed ==
    ASSUME NEW junk, NEW str, ClearChars(str)
    PROVE  ParseAnsi(str, junk).len = 3 /\ ParseAnsi(str, junk).fg = junk
<1>30. Len(str) = 4
  BY DEF ClearChars
<1>31. str[2] = "["
  BY DEF ClearChars
<1>32. str[3] = "0"
  BY DEF ClearChars
<1>33. str[4] = "m"
  BY DEF ClearChars
<1>1. PICK f : /\ f[1] = ParseStart(junk)
               /\ \A i \in 2 .. Len(str) : f[i] = ParseStep(str, f[i - 1], i)
               /\ ParseAnsi(str, junk) = f[Len(str)]
  <2>1. Len(str) \in Nat /\ Len(str) >= 1
    BY ONLY <1>30
  <2> QED BY <2>1, ParseRuns, Zenon
<1>2. f[1] = State(FALSE, FALSE, 0, junk, 0)
  BY ONLY <1>1 DEF ParseStart, State
<1>3. f[2] = State(TRUE, FALSE, 0, junk, 0)
  <2>1. f[2] = ParseStep(str, f[1], 2)
    <3>1. 2 \in 2 .. Len(str) /\ 2 - 1 = 1
      BY ONLY <1>30
    <3> QED BY ONLY <1>1, <3>1
  <2>2. ParseStep(str, State(FALSE, FALSE, 0, junk, 0), 2) = State(TRUE, FALSE, 0, junk, 0)
    BY ONLY <1>31 DEF ParseStep, State
  <2> QED BY ONLY <1>2, <2>1, <2>2
<1>4. f[3] = State(TRUE, FALSE, 0, junk, 0)
  <2>1. f[3] = ParseStep(str, f[2], 3)
    <3>1. 3 \in 2 .. Len(str) /\ 3 - 1 = 2
      BY ONLY <1>30
    <3> QED BY ONLY <1>1, <3>1
  <2>2. ParseStep(str, State(TRUE, FALSE, 0, junk, 0), 3) = State(TRUE, FALSE, 0 * 10 + Digit["0"], junk, 0)
    BY ONLY <1>32 DEF ParseStep, State
  <2>3. 0 * 10 + Digit["0"] = 0
    BY ONLY DigitsAre
  <2> QED BY ONLY <1>3, <2>1, <2>2, <2>3
<1>5. f[4] = State(TRUE, FALSE, 0, junk, 3)
  <2>1. f[4] = ParseStep(str, f[3], 4)
    <3>1. 4 \in 2 .. Len(str) /\ 4 - 1 = 3
      BY ONLY <1>30
    <3> QED BY ONLY <1>1, <3>1
  <2>2. ParseStep(str, State(TRUE, FALSE, 0, junk, 0), 4) = State(TRUE, FALSE, 0, junk, 4 - 1)
    BY ONLY <1>33 DEF ParseStep, State
  <2>3. 4 - 1 = 3
    BY ONLY TRUE
  <2> QED BY ONLY <1>4, <2>1, <2>2, <2>3
<1> QED BY ONLY <1>1, <1>5, <1>30 DEF State

\* A sequence that sets the colour to col and has nothing after it.
Colours(str, junk, col) ==
    /\ Len(str) \in Nat /\ Len(str) >= 1 /\ str[1] = Esc
    /\ ParseAnsi(SubSeq(str, 1, Len(str)), junk).len = Len(str) - 1
    /\ ParseAnsi(SubSeq(str, 1, Len(str)), junk).fg = col

LEMMA SequenceColours ==
    ASSUME NEW m \in {"0", "1"}, NEW d \in {"1", "3", "6", "7", "9"}, NEW junk
    PROVE  Colours(ColourSequence(m, d), junk, ColourOf(30 + Digit[d], junk))
<1>1. PICK str : str = ColourSequence(m, d)
  OBVIOUS
<1>2. Len(str) = 10 /\ str[1] = Esc
  BY ONLY <1>1 DEF ColourSequence
<1>3. /\ str[2] = "[" /\ str[3] = m /\ str[4] = ";" /\ str[5] = "3" /\ str[6] = d /\ str[7] = ";"
      /\ str[8] = "4" /\ str[9] = "9" /\ str[10] = "m"
  BY ONLY <1>1 DEF ColourSequence
<1>4. PICK sub : sub = SubSeq(str, 1, Len(str))
  OBVIOUS
<1>5. Len(sub) = 10 /\ \A i \in 1 .. 10 : sub[i] = str[i]
  BY ONLY <1>2, <1>4
<1>6. \A i \in {2, 3, 4, 5, 6, 7, 8, 9, 10} : i \in 1 .. 10
  BY ONLY TRUE
<1>7. /\ sub[2] = "[" /\ sub[3] = m /\ sub[4] = ";" /\ sub[5] = "3" /\ sub[6] = d /\ sub[7] = ";"
      /\ sub[8] = "4" /\ sub[9] = "9" /\ sub[10] = "m"
  BY ONLY <1>3, <1>5, <1>6
<1>8. ParseAnsi(sub, junk).len = 9 /\ ParseAnsi(sub, junk).fg = ColourOf(30 + Digit[d], junk)
  <2>1. ColourChars(sub, m, d)
    BY ONLY <1>5, <1>7 DEF ColourChars
  <2> QED BY ONLY <2>1, m \in {"0", "1"}, d \in {"1", "3", "6", "7", "9"}, ColourParsed
<1> QED BY ONLY <1>1, <1>2, <1>4, <1>8 DEF Colours

LEMMA ClearColours ==
    ASSUME NEW junk
    PROVE  Colours(ClearSequence, junk, junk)
<1>1. PICK str : str = ClearSequence
  OBVIOUS
<1>2. Len(str) = 4 /\ str[1] = Esc /\ str[2] = "[" /\ str[3] = "0" /\ str[4] = "m"
  BY ONLY <1>1 DEF ClearSequence
<1>3. PICK sub : sub = SubSeq(str, 1, Len(str))
  OBVIOUS
<1>4. Len(sub) = 4 /\ \A i \in 1 .. 4 : sub[i] = str[i]
  BY ONLY <1>2, <1>3
<1>5. sub[2] = "[" /\ sub[3] = "0" /\ sub[4] = "m"
  BY ONLY <1>2, <1>4
<1>6. ParseAnsi(sub, junk).len = 3 /\ ParseAnsi(sub, junk).fg = junk
  <2>1. ClearChars(sub)
    BY ONLY <1>4, <1>5 DEF ClearChars
  <2> QED BY ONLY <2>1, ClearParsed
<1> QED BY ONLY <1>1, <1>2, <1>3, <1>6 DEF Colours

LEMMA SequencesColour ==
    ASSUME NEW junk
    PROVE  /\ \A l \in 1 .. 5 : Colours(LevelSequence[l], junk, LevelColour[l])
           /\ Colours(TsSequence, junk, junk)
           /\ Colours(ClearSequence, junk, junk)
<1>1. /\ ColourOf(31, junk) = "red" /\ ColourOf(33, junk) = "yellow" /\ ColourOf(39, junk) = "white"
      /\ ColourOf(36, junk) = "cyan" /\ ColourOf(37, junk) = junk
  BY DEF ColourOf
<1>2. 30 + Digit["1"] = 31 /\ 30 + Digit["3"] = 33 /\ 30 + Digit["9"] = 39 /\ 30 + Digit["6"] = 36 /\ 30 + Digit["7"] = 37
  BY ONLY DigitsAre
<1>3. /\ LevelSequence[1] = ColourSequence("1", "1") /\ LevelSequence[2] = ColourSequence("0", "1")
      /\ LevelSequence[3] = ColourSequence("0", "3") /\ LevelSequence[4] = ColourSequence("0", "9")
      /\ LevelSequence[5] = ColourSequence("0", "6")
  BY DEF LevelSequence
<1>4. /\ LevelColour[1] = "red" /\ LevelColour[2] = "red" /\ LevelColour[3] = "yellow"
      /\ LevelColour[4] = "white" /\ LevelColour[5] = "cyan"
  BY DEF LevelColour
<1>5. Colours(ColourSequence("1", "1"), junk, ColourOf(30 + Digit["1"], junk))
  BY SequenceColours
<1>6. Colours(ColourSequence("0", "1"), junk, ColourOf(30 + Digit["1"], junk))
  BY SequenceColours
<1>7. Colours(ColourSequence("0", "3"), junk, ColourOf(30 + Digit["3"], junk))
  BY SequenceColours
<1>8. Colours(ColourSequence("0", "9"), junk, ColourOf(30 + Digit["9"], junk))
  BY SequenceColours
<1>9. Colours(ColourSequence("0", "6"), junk, ColourOf(30 + Digit["6"], junk))
  BY SequenceColours
<1>10. Colours(ColourSequence("0", "7"), junk, ColourOf(30 + Digit["7"], junk))
  BY SequenceColours
<1>11. Colours(TsSequence, junk, junk)
  BY ONLY <1>1, <1>2, <1>10 DEF TsSequence
<1>12. /\ Colours(LevelSequence[1], junk, LevelColour[1])
       /\ Colours(LevelSequence[2], junk, LevelColour[2])
       /\ Colours(LevelSequence[3], junk, LevelColour[3])
       /\ Colours(LevelSequence[4], junk, LevelColour[4])
       /\ Colours(LevelSequence[5], junk, LevelColour[5])
  BY ONLY <1>1, <1>2, <1>3, <1>4, <1>5, <1>6, <1>7, <1>8, <1>9
<1>13. \A l \in 1 .. 5 : l = 1 \/ l = 2 \/ l = 3 \/ l = 4 \/ l = 5
  BY ONLY TRUE
<1>14. Colours(ClearSequence, junk, junk)
  BY ClearColours
<1> QED BY ONLY <1>11, <1>12, <1>13, <1>14


-----------------------------------------------------------------------------
\* One step of a write, as one terminal sees it.
LEMMA ForEachIs ==
    ASSUME NEW s \in Terminals, NEW f, NEW g
    PROVE  ForEachTerminal(f, g)[s] = IF s \in ToSet(sinks) THEN g[s] ELSE f[s]
BY DEF ForEachTerminal

LEMMA OutputCharsIs ==
    ASSUME NEW s \in Terminals, NEW f, NEW c
    PROVE  OutputChars(f, c)[s] = IF s \in ToSet(sinks) THEN OutputChar(s, f[s], c) ELSE f[s]
<1>1. PICK g : g = [x \in Terminals |-> OutputChar(x, f[x], c)]
  OBVIOUS
<1>2. g[s] = OutputChar(s, f[s], c)
  BY ONLY <1>1, s \in Terminals
<1>3. OutputChars(f, c) = ForEachTerminal(f, g)
  BY ONLY <1>1 DEF OutputChars
<1> QED BY ONLY <1>2, <1>3, s \in Terminals, ForEachIs

Wrote(T, k) == [ts |-> T, skip |-> k]

LEMMA StepSkips ==
    ASSUME NEW buf, NEW junk, NEW T, NEW k, k > 0, NEW i
    PROVE  WriteStep(buf, junk, Wrote(T, k), i) = Wrote(T, k - 1)
BY DEF WriteStep, Wrote

Coloured(T, U, fg) ==
    \A s \in Terminals : U[s] = IF s \in ToSet(sinks) THEN [T[s] EXCEPT !.fg = fg] ELSE T[s]

LEMMA StepEscape ==
    ASSUME NEW buf, NEW junk, NEW T, NEW k, ~(k > 0), NEW i, buf[i] = Esc, NEW p, p = ParseAnsi(SubSeq(buf, i, Len(buf)), junk)
    PROVE  \E U : WriteStep(buf, junk, Wrote(T, k), i) = Wrote(U, p.len) /\ Coloured(T, U, p.fg)
<1>1. PICK g : g = [s \in Terminals |-> [T[s] EXCEPT !.fg = p.fg]]
  OBVIOUS
<1>2. PICK U : U = SetColours(T, p.fg)
  OBVIOUS
<1>3. WriteStep(buf, junk, Wrote(T, k), i) = Wrote(U, p.len)
  <2>1. PICK w : w = Wrote(T, k)
    OBVIOUS
  <2>2. w.skip = k /\ w.ts = T
    BY ONLY <2>1 DEF Wrote
  <2>3. WriteStep(buf, junk, w, i) = [ts |-> SetColours(w.ts, ParseAnsi(SubSeq(buf, i, Len(buf)), junk).fg),
                                      skip |-> ParseAnsi(SubSeq(buf, i, Len(buf)), junk).len]
    BY ONLY <2>2, ~(k > 0), buf[i] = Esc DEF WriteStep, Esc, Newline, Tab
  <2> QED BY ONLY <1>2, <2>1, <2>2, <2>3, p = ParseAnsi(SubSeq(buf, i, Len(buf)), junk) DEF Wrote
<1>4. \A s \in Terminals : g[s] = [T[s] EXCEPT !.fg = p.fg]
  BY ONLY <1>1
<1>5. \A s \in Terminals : U[s] = IF s \in ToSet(sinks) THEN g[s] ELSE T[s]
  <2>1. U = ForEachTerminal(T, g)
    BY ONLY <1>1, <1>2 DEF SetColours
  <2> QED BY ONLY <2>1, ForEachIs
<1>6. \A s \in Terminals : U[s] = IF s \in ToSet(sinks) THEN [T[s] EXCEPT !.fg = p.fg] ELSE T[s]
  BY ONLY <1>4, <1>5, Zenon
<1>7. Coloured(T, U, p.fg)
  BY ONLY <1>6, Zenon DEF Coloured
<1> QED BY ONLY <1>3, <1>7

LEMMA StepNewline ==
    ASSUME NEW buf, NEW junk, NEW T, NEW k, ~(k > 0), NEW i, buf[i] = Newline
    PROVE  \E U : /\ WriteStep(buf, junk, Wrote(T, k), i) = Wrote(U, k)
                  /\ \A s \in Terminals : U[s] = IF s \in ToSet(sinks) THEN SinkNewline(s, T[s]) ELSE T[s]
<1>1. PICK g : g = [s \in Terminals |-> SinkNewline(s, T[s])]
  OBVIOUS
<1>2. PICK U : U = Newlines(T)
  OBVIOUS
<1>3. WriteStep(buf, junk, Wrote(T, k), i) = Wrote(U, k)
  <2>1. Newline # Esc
    BY DEF Newline, Esc
  <2>2. WriteStep(buf, junk, Wrote(T, k), i) = Wrote(Newlines(T), k)
    BY ONLY <2>1, ~(k > 0), buf[i] = Newline DEF WriteStep, Wrote, Esc, Newline, Tab
  <2> QED BY ONLY <1>2, <2>2
<1>4. \A s \in Terminals : g[s] = SinkNewline(s, T[s])
  BY ONLY <1>1
<1>5. \A s \in Terminals : U[s] = IF s \in ToSet(sinks) THEN g[s] ELSE T[s]
  <2>1. U = ForEachTerminal(T, g)
    BY ONLY <1>1, <1>2 DEF Newlines
  <2> QED BY ONLY <2>1, ForEachIs
<1>6. \A s \in Terminals : U[s] = IF s \in ToSet(sinks) THEN SinkNewline(s, T[s]) ELSE T[s]
  BY ONLY <1>4, <1>5
<1> QED BY ONLY <1>3, <1>6

LEMMA StepTab ==
    ASSUME NEW buf, NEW junk, NEW T, NEW k, ~(k > 0), NEW i, buf[i] = Tab
    PROVE  WriteStep(buf, junk, Wrote(T, k), i)
                = Wrote(OutputChars(OutputChars(OutputChars(OutputChars(T, Space), Space), Space), Space), k)
<1>1. Tab # Esc /\ Tab # Newline
  BY DEF Tab, Newline, Esc
<1> QED BY ONLY <1>1, ~(k > 0), buf[i] = Tab DEF WriteStep, Wrote

LEMMA StepChar ==
    ASSUME NEW buf, NEW junk, NEW T, NEW k, ~(k > 0), NEW i, buf[i] # Esc, buf[i] # Newline, buf[i] # Tab
    PROVE  WriteStep(buf, junk, Wrote(T, k), i) = Wrote(OutputChars(T, buf[i]), k)
BY DEF WriteStep, Wrote

\* A terminal that follows the log shows a character of a message, a newline
\* or a tab by the lines it adds.
LEMMA NewlineFollows ==
    ASSUME NEW s, Follows(s), NEW t, NEW ls, Drawn(s, t, ls)
    PROVE  Drawn(s, SinkNewline(s, t), Append(ls, <<>>)) /\ SinkNewline(s, t).fg = t.fg
<1>1. s \in Terminals /\ (s = "vga" \/ (s = "fb" /\ s # "vga" /\ ~takeover))
  BY DEF Follows, Terminals
<1>2. PICK u : u = IF s = "vga" THEN VgaNewline(t) ELSE FbNewline(t)
  OBVIOUS
<1>3. SinkNewline(s, t) = u
  BY ONLY <1>1, <1>2 DEF SinkNewline
<1>4. Shape(t) /\ Picture(s, t.cells, t.row, t.col, ls)
  BY DEF Drawn
<1>5. Drawn(s, u, Append(ls, <<>>)) /\ u.fg = t.fg
  BY <1>1, <1>2, <1>4, NewlineDraws, Zenon
<1> QED BY ONLY <1>3, <1>5

LEMMA CharFollows ==
    ASSUME NEW s, Follows(s), NEW t, NEW ls, Drawn(s, t, ls), NEW e \in Entries, e.c # Newline, Inked(t.fg, e)
    PROVE  Drawn(s, OutputChar(s, t, e.c), AddToPage(s, ls, e)) /\ OutputChar(s, t, e.c).fg = t.fg
<1>1. s \in Terminals /\ (s = "vga" \/ (s = "fb" /\ s # "vga" /\ ~takeover))
  BY DEF Follows, Terminals
<1>2. PICK u : u = IF s = "vga" THEN VgaPrintChar(t, e.c) ELSE FbPrintChar(t, e.c)
  OBVIOUS
<1>3. OutputChar(s, t, e.c) = u
  BY ONLY <1>1, <1>2 DEF OutputChar
<1>4. Drawn(s, u, AddToPage(s, ls, e)) /\ u.fg = t.fg
  BY <1>1, <1>2, CharDraws
<1> QED BY ONLY <1>3, <1>4


\* One character of the text, seen by a terminal that follows.
TextShown(s, T, U, ls, e) ==
    Drawn(s, U[s], AddToLines(s, ls, e)) /\ U[s].fg = T[s].fg

CanShow(s, T, buf, i, ls, e) ==
    /\ s \in ToSet(sinks) /\ Follows(s) /\ e \in Entries /\ e.c = buf[i] /\ buf[i] # Esc
    /\ Drawn(s, T[s], ls) /\ (buf[i] # Newline => Inked(T[s].fg, e))

LEMMA TextStep ==
    ASSUME NEW s, NEW buf, NEW junk, NEW T, NEW ls, NEW i, NEW e, CanShow(s, T, buf, i, ls, e)
    PROVE  \E U : WriteStep(buf, junk, Wrote(T, 0), i) = Wrote(U, 0) /\ TextShown(s, T, U, ls, e)
<1> SUFFICES ASSUME s \in ToSet(sinks), Follows(s), e \in Entries, e.c = buf[i], buf[i] # Esc,
                    Drawn(s, T[s], ls), buf[i] # Newline => Inked(T[s].fg, e)
             PROVE  \E U : WriteStep(buf, junk, Wrote(T, 0), i) = Wrote(U, 0) /\ TextShown(s, T, U, ls, e)
  BY DEF CanShow
<1>0. s \in Terminals /\ ~(0 > 0)
  BY DEF Follows
<1>1. CASE buf[i] = Newline
  <2>1. PICK U : /\ WriteStep(buf, junk, Wrote(T, 0), i) = Wrote(U, 0)
                 /\ \A x \in Terminals : U[x] = IF x \in ToSet(sinks) THEN SinkNewline(x, T[x]) ELSE T[x]
    BY <1>0, <1>1, StepNewline
  <2>2. U[s] = SinkNewline(s, T[s])
    BY ONLY <1>0, <2>1, s \in ToSet(sinks)
  <2>3. Drawn(s, SinkNewline(s, T[s]), Append(ls, <<>>)) /\ SinkNewline(s, T[s]).fg = T[s].fg
    BY NewlineFollows
  <2>4. AddToLines(s, ls, e) = Append(ls, <<>>)
    <3>1. Newline # Tab
      BY DEF Newline, Tab
    <3>2. AddToPage(s, ls, e) = Append(ls, <<>>)
      BY ONLY <1>1, e.c = buf[i] DEF AddToPage
    <3> QED BY ONLY <1>1, <3>1, <3>2, e.c = buf[i] DEF AddToLines
  <2> QED BY ONLY <2>1, <2>2, <2>3, <2>4 DEF TextShown
<1>2. CASE buf[i] = Tab
  <2>0. buf[i] # Newline
    BY <1>2 DEF Newline, Tab
  <2>1. PICK b : b = [e EXCEPT !.c = Space]
    OBVIOUS
  <2>2. b \in Entries /\ b.c = Space /\ b.lvl = e.lvl
    BY ONLY <2>1, e \in Entries DEF Entries
  <2>3. b.c # Newline /\ (\A fg : Inked(fg, e) => Inked(fg, b))
    <3>1. Space # Newline
      BY Zenon DEF Space, Newline
    <3> QED BY ONLY <2>2, <3>1 DEF Inked
  <2>4. ASSUME NEW V, NEW ks, Drawn(s, V[s], ks), V[s].fg = T[s].fg
        PROVE  Drawn(s, OutputChars(V, Space)[s], AddToPage(s, ks, b)) /\ OutputChars(V, Space)[s].fg = T[s].fg
    <3>1. Inked(V[s].fg, b)
      BY <2>0, <2>3, <2>4
    <3>2. PICK t : t = V[s]
      OBVIOUS
    <3>3. Drawn(s, OutputChar(s, t, b.c), AddToPage(s, ks, b)) /\ OutputChar(s, t, b.c).fg = t.fg
      <4>1. Drawn(s, t, ks) /\ Inked(t.fg, b)
        BY ONLY <2>4, <3>1, <3>2
      <4> QED BY ONLY Follows(s), <4>1, <2>2, <2>3, CharFollows
    <3>4. OutputChars(V, Space)[s] = OutputChar(s, t, Space)
      BY ONLY <1>0, <3>2, s \in ToSet(sinks), OutputCharsIs
    <3> QED BY ONLY <2>2, <2>4, <3>2, <3>3, <3>4
  <2>5. PICK T1 : T1 = OutputChars(T, Space)
    OBVIOUS
  <2>6. PICK T2 : T2 = OutputChars(T1, Space)
    OBVIOUS
  <2>7. PICK T3 : T3 = OutputChars(T2, Space)
    OBVIOUS
  <2>8. PICK T4 : T4 = OutputChars(T3, Space)
    OBVIOUS
  <2>9. WriteStep(buf, junk, Wrote(T, 0), i) = Wrote(T4, 0)
    <3>1. WriteStep(buf, junk, Wrote(T, 0), i)
            = Wrote(OutputChars(OutputChars(OutputChars(OutputChars(T, Space), Space), Space), Space), 0)
      <4>1. PICK k : k = 0
        OBVIOUS
      <4>2. ~(k > 0)
        BY ONLY <4>1
      <4>3. WriteStep(buf, junk, Wrote(T, k), i)
              = Wrote(OutputChars(OutputChars(OutputChars(OutputChars(T, Space), Space), Space), Space), k)
        BY ONLY <1>2, <4>2, StepTab
      <4> QED BY ONLY <4>1, <4>3
    <3> QED BY ONLY <2>5, <2>6, <2>7, <2>8, <3>1
  <2>10. PICK l1 : l1 = AddToPage(s, ls, b)
    OBVIOUS
  <2>11. PICK l2 : l2 = AddToPage(s, l1, b)
    OBVIOUS
  <2>12. PICK l3 : l3 = AddToPage(s, l2, b)
    OBVIOUS
  <2>13. PICK l4 : l4 = AddToPage(s, l3, b)
    OBVIOUS
  <2>14. Drawn(s, T1[s], l1) /\ T1[s].fg = T[s].fg
    BY ONLY <2>4, <2>5, <2>10, Drawn(s, T[s], ls)
  <2>15. Drawn(s, T2[s], l2) /\ T2[s].fg = T[s].fg
    BY ONLY <2>4, <2>6, <2>11, <2>14
  <2>16. Drawn(s, T3[s], l3) /\ T3[s].fg = T[s].fg
    BY ONLY <2>4, <2>7, <2>12, <2>15
  <2>17. Drawn(s, T4[s], l4) /\ T4[s].fg = T[s].fg
    BY ONLY <2>4, <2>8, <2>13, <2>16
  <2>18. AddToLines(s, ls, e) = l4
    BY ONLY <1>2, <2>1, <2>10, <2>11, <2>12, <2>13, e.c = buf[i] DEF AddToLines
  <2> QED BY ONLY <2>9, <2>17, <2>18 DEF TextShown
<1>3. CASE buf[i] # Newline /\ buf[i] # Tab
  <2>1. PICK U : U = OutputChars(T, buf[i])
    OBVIOUS
  <2>2. WriteStep(buf, junk, Wrote(T, 0), i) = Wrote(U, 0)
    BY <1>0, <1>3, <2>1, StepChar
  <2>3. U[s] = OutputChar(s, T[s], buf[i])
    BY ONLY <1>0, <2>1, s \in ToSet(sinks), OutputCharsIs
  <2>4. PICK t : t = T[s]
    OBVIOUS
  <2>5. Drawn(s, OutputChar(s, t, e.c), AddToPage(s, ls, e)) /\ OutputChar(s, t, e.c).fg = t.fg
    <3>1. Drawn(s, t, ls) /\ Inked(t.fg, e) /\ e.c # Newline
      BY <1>3, <2>4
    <3> QED BY ONLY Follows(s), e \in Entries, <3>1, CharFollows
  <2>6. AddToLines(s, ls, e) = AddToPage(s, ls, e)
    BY ONLY <1>3, e.c = buf[i] DEF AddToLines
  <2> QED BY ONLY <2>2, <2>3, <2>4, <2>5, <2>6, e.c = buf[i] DEF TextShown
<1> QED BY <1>1, <1>2, <1>3


\* A piece of text, without escape sequences, and the entries it stands for.
SaidBy(said, buf) ==
    /\ said \in Seq(Entries) /\ Len(said) = Len(buf)
    /\ \A i \in 1 .. Len(buf) : said[i].c = buf[i] /\ buf[i] # Esc

LEMMA TextWritten ==
    ASSUME NEW s \in ToSet(sinks), Follows(s), NEW ts, NEW buf, NEW junk, NEW said, SaidBy(said, buf),
           NEW txt \in Seq(Entries), Drawn(s, ts[s], LinesOf(s, txt)),
           \A i \in 1 .. Len(buf) : buf[i] # Newline => Inked(ts[s].fg, said[i])
    PROVE  Drawn(s, KstdioWrite(ts, buf, junk)[s], LinesOf(s, txt \o said))
<1>0. PICK n \in Nat : n = Len(buf)
  BY DEF SaidBy
<1>1. said \in Seq(Entries) /\ Len(said) = n /\ \A i \in 1 .. n : said[i].c = buf[i] /\ buf[i] # Esc
  BY <1>0 DEF SaidBy
<1>2. PICK f : /\ f[0] = [ts |-> ts, skip |-> 0]
               /\ \A i \in 1 .. n : f[i] = WriteStep(buf, junk, f[i - 1], i)
               /\ KstdioWrite(ts, buf, junk) = f[n].ts
  <2>1. Len(buf) \in Nat
    BY ONLY <1>0, n \in Nat
  <2>2. PICK f : /\ f[0] = [ts |-> ts, skip |-> 0]
                 /\ \A i \in 1 .. Len(buf) : f[i] = WriteStep(buf, junk, f[i - 1], i)
                 /\ KstdioWrite(ts, buf, junk) = f[Len(buf)].ts
    BY ONLY <2>1, WriteRuns
  <2> QED BY ONLY <1>0, <2>2
<1> DEFINE Good(i) == \E T : /\ f[i] = Wrote(T, 0) /\ T[s].fg = ts[s].fg
                             /\ Drawn(s, T[s], LinesOf(s, txt \o SubSeq(said, 1, i)))
<1>3. Good(0)
  <2>1. txt \o SubSeq(said, 1, 0) = txt
    BY ONLY txt \in Seq(Entries), <1>1
  <2>2. f[0] = Wrote(ts, 0)
    BY ONLY <1>2 DEF Wrote
  <2> QED BY ONLY <2>1, <2>2, Drawn(s, ts[s], LinesOf(s, txt))
<1>4. ASSUME NEW j \in Nat, j + 1 <= n, Good(j) PROVE Good(j + 1)
  <2>1. PICK T : /\ f[j] = Wrote(T, 0) /\ T[s].fg = ts[s].fg
                 /\ Drawn(s, T[s], LinesOf(s, txt \o SubSeq(said, 1, j)))
    BY <1>4
  <2>2. j + 1 \in 1 .. n /\ (j + 1) - 1 = j
    BY ONLY <1>0, <1>4, n \in Nat, j \in Nat
  <2>3. f[j + 1] = WriteStep(buf, junk, Wrote(T, 0), j + 1)
    BY ONLY <1>2, <2>1, <2>2
  <2>4. PICK e \in Entries : e = said[j + 1]
    BY ONLY <1>1, <2>2
  <2>5. PICK before \in Seq(Entries) : before = txt \o SubSeq(said, 1, j)
    <3>1. txt \o SubSeq(said, 1, j) \in Seq(Entries)
      <4>1. SubSeq(said, 1, j) \in Seq(Entries)
        BY ONLY <1>1, <1>4, j \in Nat, n \in Nat
      <4> QED BY ONLY <4>1, txt \in Seq(Entries)
    <3> QED BY ONLY <3>1
  <2>6. e.c = buf[j + 1] /\ buf[j + 1] # Esc /\ (buf[j + 1] # Newline => Inked(T[s].fg, e))
    <3>1. j + 1 \in 1 .. Len(buf)
      BY ONLY <1>0, <2>2
    <3>2. buf[j + 1] # Newline => Inked(ts[s].fg, said[j + 1])
      BY <3>1
    <3> QED BY ONLY <1>1, <2>1, <2>2, <2>4, <3>2
  <2>7. PICK ls : ls = LinesOf(s, before)
    OBVIOUS
  <2>8. \E U : WriteStep(buf, junk, Wrote(T, 0), j + 1) = Wrote(U, 0) /\ TextShown(s, T, U, ls, e)
    <3>1. Drawn(s, T[s], ls)
      BY ONLY <2>1, <2>5, <2>7
    <3>2. PICK i : i = j + 1
      OBVIOUS
    <3>3. e.c = buf[i] /\ buf[i] # Esc /\ (buf[i] # Newline => Inked(T[s].fg, e))
      BY ONLY <2>6, <3>2
    <3>4. \E U : WriteStep(buf, junk, Wrote(T, 0), i) = Wrote(U, 0) /\ TextShown(s, T, U, ls, e)
      <4>1. CanShow(s, T, buf, i, ls, e)
        BY ONLY s \in ToSet(sinks), Follows(s), <3>1, <3>3, e \in Entries DEF CanShow
      <4> QED BY ONLY <4>1, TextStep
    <3> QED BY ONLY <3>2, <3>4
  <2>9. PICK U : WriteStep(buf, junk, Wrote(T, 0), j + 1) = Wrote(U, 0) /\ TextShown(s, T, U, ls, e)
    BY ONLY <2>8
  <2>10. LinesOf(s, Append(before, e)) = AddToLines(s, ls, e)
    BY ONLY <2>7, before \in Seq(Entries), e \in Entries, LinesGrow
  <2>11. txt \o SubSeq(said, 1, j + 1) = Append(before, e)
    <3>1. SubSeq(said, 1, j + 1) = Append(SubSeq(said, 1, j), e)
      BY ONLY <1>1, <2>2, <2>4, j \in Nat, n \in Nat
    <3>2. PICK a \in Seq(Entries) : a = SubSeq(said, 1, j)
      <4>1. SubSeq(said, 1, j) \in Seq(Entries)
        BY ONLY <1>1, <1>4, j \in Nat, n \in Nat
      <4> QED BY ONLY <4>1
    <3>3. txt \o Append(a, e) = Append(txt \o a, e)
      BY ONLY txt \in Seq(Entries), a \in Seq(Entries), e \in Entries
    <3> QED BY ONLY <2>5, <3>1, <3>2, <3>3
  <2>12. Drawn(s, U[s], LinesOf(s, txt \o SubSeq(said, 1, j + 1))) /\ U[s].fg = ts[s].fg
    BY ONLY <2>1, <2>9, <2>10, <2>11 DEF TextShown
  <2> QED BY ONLY <2>3, <2>9, <2>12
<1> HIDE DEF Good
<1> DEFINE B == {i \in Nat : i <= n /\ ~Good(i)}
<1>5. ASSUME B # {} PROVE FALSE
  <2>0. B \in SUBSET Nat
    OBVIOUS
  <2>1. PICK x \in B : \A y \in B : x <= y
    <3> HIDE DEF B
    <3> QED BY <1>5, <2>0, LeastNatural
  <2>2. x \in Nat /\ x <= n /\ ~Good(x)
    OBVIOUS
  <2>3. x # 0
    BY ONLY <1>3, <2>2
  <2>4. x - 1 \in Nat /\ x - 1 \notin B /\ x - 1 <= n /\ (x - 1) + 1 = x
    BY <2>1, <2>2, <2>3
  <2>5. Good(x - 1)
    BY <2>4
  <2> QED BY ONLY <1>4, <2>2, <2>4, <2>5
<1>6. Good(n)
  BY <1>0, <1>5
<1>7. SubSeq(said, 1, n) = said
  BY ONLY <1>1
<1>8. PICK T : f[n] = Wrote(T, 0) /\ Drawn(s, T[s], LinesOf(s, txt \o said))
  BY ONLY <1>6, <1>7 DEF Good
<1>9. f[n].ts = T
  BY ONLY <1>8 DEF Wrote
<1> QED BY ONLY <1>2, <1>8, <1>9

\* An escape sequence only changes the colour.
LEMMA ColourWritten ==
    ASSUME NEW s \in ToSet(sinks), s \in Terminals, NEW ts, NEW str, NEW junk, NEW col, Colours(str, junk, col)
    PROVE  KstdioWrite(ts, str, junk)[s] = [ts[s] EXCEPT !.fg = col]
<1>0. PICK n \in Nat : n = Len(str)
  BY DEF Colours
<1>1. PICK p : p = ParseAnsi(SubSeq(str, 1, Len(str)), junk)
  OBVIOUS
<1>2. n >= 1 /\ str[1] = Esc /\ p.len = n - 1 /\ p.fg = col
  BY <1>0, <1>1 DEF Colours
<1>3. PICK f : /\ f[0] = [ts |-> ts, skip |-> 0]
               /\ \A i \in 1 .. n : f[i] = WriteStep(str, junk, f[i - 1], i)
               /\ KstdioWrite(ts, str, junk) = f[n].ts
  <2>1. Len(str) \in Nat
    BY ONLY <1>0, n \in Nat
  <2>2. PICK f : /\ f[0] = [ts |-> ts, skip |-> 0]
                 /\ \A i \in 1 .. Len(str) : f[i] = WriteStep(str, junk, f[i - 1], i)
                 /\ KstdioWrite(ts, str, junk) = f[Len(str)].ts
    BY ONLY <2>1, WriteRuns
  <2> QED BY ONLY <1>0, <2>2
<1>4. PICK U : f[1] = Wrote(U, n - 1) /\ U[s] = [ts[s] EXCEPT !.fg = col]
  <2>1. ~(0 > 0)
    OBVIOUS
  <2>2. PICK U : WriteStep(str, junk, Wrote(ts, 0), 1) = Wrote(U, p.len) /\ Coloured(ts, U, p.fg)
    <3>1. PICK k : k = 0
      OBVIOUS
    <3>2. ~(k > 0)
      BY ONLY <3>1
    <3>3. PICK i : i = 1
      OBVIOUS
    <3>4. str[i] = Esc /\ p = ParseAnsi(SubSeq(str, i, Len(str)), junk)
      BY ONLY <1>1, <1>2, <3>3
    <3>5. \E U : WriteStep(str, junk, Wrote(ts, k), i) = Wrote(U, p.len) /\ Coloured(ts, U, p.fg)
      BY <3>2, <3>4, StepEscape
    <3> QED BY ONLY <3>1, <3>3, <3>5
  <2>3. f[1] = WriteStep(str, junk, Wrote(ts, 0), 1)
    <3>1. 1 \in 1 .. n /\ 1 - 1 = 0
      BY ONLY <1>2, n \in Nat
    <3> QED BY ONLY <1>3, <3>1 DEF Wrote
  <2>4. U[s] = [ts[s] EXCEPT !.fg = p.fg]
    BY ONLY <2>2, s \in Terminals, s \in ToSet(sinks) DEF Coloured
  <2> QED BY ONLY <1>2, <2>2, <2>3, <2>4
<1> DEFINE B == {i \in Nat : 1 <= i /\ i <= n /\ f[i] # Wrote(U, n - i)}
<1>5. ASSUME B # {} PROVE FALSE
  <2>0. B \in SUBSET Nat
    OBVIOUS
  <2>1. PICK x \in B : \A y \in B : x <= y
    <3> HIDE DEF B
    <3> QED BY <1>5, <2>0, LeastNatural
  <2>2. x \in Nat /\ 1 <= x /\ x <= n /\ f[x] # Wrote(U, n - x)
    OBVIOUS
  <2>3. x # 1
    BY ONLY <1>4, <2>2
  <2>4. x - 1 \in Nat /\ x - 1 \notin B /\ 1 <= x - 1 /\ x - 1 <= n
    BY <2>1, <2>2, <2>3
  <2>5. f[x - 1] = Wrote(U, n - (x - 1))
    BY <2>4
  <2>6. PICK k : k = n - (x - 1)
    OBVIOUS
  <2>7. k > 0 /\ k - 1 = n - x /\ x \in 1 .. n
    BY ONLY <2>2, <2>6, n \in Nat
  <2>8. WriteStep(str, junk, Wrote(U, k), x) = Wrote(U, k - 1)
    BY ONLY <2>7, StepSkips
  <2> QED BY ONLY <1>3, <2>2, <2>5, <2>6, <2>7, <2>8
<1>6. f[n] = Wrote(U, n - n)
  BY <1>2, <1>5
<1>7. f[n].ts = U
  BY ONLY <1>6 DEF Wrote
<1> QED BY ONLY <1>3, <1>4, <1>7


-----------------------------------------------------------------------------
\* A terminal that is not registered, or is a framebuffer some process has
\* opened, keeps its screen.
Still(s) == s \in Terminals /\ (s \notin ToSet(sinks) \/ (s = "fb" /\ takeover))

Same(t, u) == Shape(u) /\ u.cells = t.cells /\ u.row = t.row /\ u.col = t.col

LEMMA StillStep ==
    ASSUME NEW s, Still(s), NEW buf, NEW junk, NEW T, NEW k, NEW i, Shape(T[s])
    PROVE  \E U, m : WriteStep(buf, junk, Wrote(T, k), i) = Wrote(U, m) /\ Same(T[s], U[s])
<1>0. s \in Terminals
  BY DEF Still
<1>1. Same(T[s], T[s])
  BY DEF Same
<1>2. \A t, c : s \in ToSet(sinks) => OutputChar(s, t, c) = t /\ SinkNewline(s, t) = t
  <2>1. CASE s \in ToSet(sinks)
    <3>1. s = "fb" /\ takeover /\ s # "vga"
      BY <2>1 DEF Still
    <3> QED BY ONLY <3>1 DEF OutputChar, SinkNewline
  <2> QED BY <2>1
<1>3. \A V, c : OutputChars(V, c)[s] = V[s]
  <2>1. \A V, c : OutputChars(V, c)[s] = IF s \in ToSet(sinks) THEN OutputChar(s, V[s], c) ELSE V[s]
    BY ONLY <1>0, OutputCharsIs
  <2> QED BY ONLY <1>2, <2>1
<1>4. CASE k > 0
  <2>1. WriteStep(buf, junk, Wrote(T, k), i) = Wrote(T, k - 1)
    BY ONLY <1>4, StepSkips
  <2> QED BY ONLY <1>1, <2>1
<1>5. CASE ~(k > 0) /\ buf[i] = Esc
  <2>1. PICK p : p = ParseAnsi(SubSeq(buf, i, Len(buf)), junk)
    OBVIOUS
  <2>2. PICK U : WriteStep(buf, junk, Wrote(T, k), i) = Wrote(U, p.len) /\ Coloured(T, U, p.fg)
    BY <1>5, <2>1, StepEscape
  <2>3. U[s] = IF s \in ToSet(sinks) THEN [T[s] EXCEPT !.fg = p.fg] ELSE T[s]
    BY ONLY <1>0, <2>2 DEF Coloured
  <2>4. PICK t : t = T[s]
    OBVIOUS
  <2>5. PICK u : u = [t EXCEPT !.fg = p.fg]
    OBVIOUS
  <2>6. Same(t, u)
    BY ONLY <2>4, <2>5, Shape(T[s]) DEF Same, Shape
  <2>7. U[s] = u \/ U[s] = T[s]
    BY ONLY <2>3, <2>4, <2>5
  <2>8. Same(T[s], U[s])
    BY ONLY <1>1, <2>4, <2>6, <2>7
  <2> QED BY ONLY <2>2, <2>8
<1>6. CASE ~(k > 0) /\ buf[i] = Newline
  <2>1. PICK U : /\ WriteStep(buf, junk, Wrote(T, k), i) = Wrote(U, k)
                 /\ \A x \in Terminals : U[x] = IF x \in ToSet(sinks) THEN SinkNewline(x, T[x]) ELSE T[x]
    BY ONLY <1>6, StepNewline
  <2>2. U[s] = T[s]
    BY ONLY <1>0, <1>2, <2>1
  <2>3. Same(T[s], U[s])
    BY ONLY <1>1, <2>2
  <2> QED BY ONLY <2>1, <2>3
<1>7. CASE ~(k > 0) /\ buf[i] = Tab
  <2>1. PICK U : U = OutputChars(OutputChars(OutputChars(OutputChars(T, Space), Space), Space), Space)
    OBVIOUS
  <2>2. U[s] = T[s]
    BY ONLY <1>3, <2>1
  <2>3. WriteStep(buf, junk, Wrote(T, k), i) = Wrote(U, k)
    BY ONLY <1>7, <2>1, StepTab
  <2>4. Same(T[s], U[s])
    BY ONLY <1>1, <2>2
  <2> QED BY ONLY <2>3, <2>4
<1>8. CASE ~(k > 0) /\ buf[i] # Esc /\ buf[i] # Newline /\ buf[i] # Tab
  <2>1. PICK U : U = OutputChars(T, buf[i])
    OBVIOUS
  <2>2. U[s] = T[s]
    BY ONLY <1>3, <2>1
  <2>3. WriteStep(buf, junk, Wrote(T, k), i) = Wrote(U, k)
    BY ONLY <1>8, <2>1, StepChar
  <2>4. Same(T[s], U[s])
    BY ONLY <1>1, <2>2
  <2> QED BY ONLY <2>3, <2>4
<1> QED BY ONLY <1>4, <1>5, <1>6, <1>7, <1>8

LEMMA StillWritten ==
    ASSUME NEW s, Still(s), NEW ts, NEW buf, NEW junk, Len(buf) \in Nat, Shape(ts[s])
    PROVE  Same(ts[s], KstdioWrite(ts, buf, junk)[s])
<1>0. PICK n \in Nat : n = Len(buf)
  OBVIOUS
<1>1. PICK f : /\ f[0] = [ts |-> ts, skip |-> 0]
               /\ \A i \in 1 .. n : f[i] = WriteStep(buf, junk, f[i - 1], i)
               /\ KstdioWrite(ts, buf, junk) = f[n].ts
  <2>2. PICK f : /\ f[0] = [ts |-> ts, skip |-> 0]
                 /\ \A i \in 1 .. Len(buf) : f[i] = WriteStep(buf, junk, f[i - 1], i)
                 /\ KstdioWrite(ts, buf, junk) = f[Len(buf)].ts
    BY ONLY Len(buf) \in Nat, WriteRuns
  <2> QED BY ONLY <1>0, <2>2
<1> DEFINE Good(i) == \E T, k : f[i] = Wrote(T, k) /\ Same(ts[s], T[s])
<1>2. Good(0)
  <2>1. f[0] = Wrote(ts, 0)
    BY ONLY <1>1 DEF Wrote
  <2>2. Same(ts[s], ts[s])
    BY DEF Same
  <2> QED BY ONLY <2>1, <2>2
<1>3. ASSUME NEW j \in Nat, j + 1 <= n, Good(j) PROVE Good(j + 1)
  <2>1. PICK T, k : f[j] = Wrote(T, k) /\ Same(ts[s], T[s])
    BY <1>3
  <2>2. j + 1 \in 1 .. n /\ (j + 1) - 1 = j
    BY ONLY <1>3, n \in Nat, j \in Nat
  <2>3. PICK i : i = j + 1
    OBVIOUS
  <2>4. f[i] = WriteStep(buf, junk, Wrote(T, k), i)
    BY ONLY <1>1, <2>1, <2>2, <2>3
  <2>5. Shape(T[s])
    BY ONLY <2>1 DEF Same
  <2>6. PICK U, m : WriteStep(buf, junk, Wrote(T, k), i) = Wrote(U, m) /\ Same(T[s], U[s])
    BY <2>5, StillStep
  <2>7. Same(ts[s], U[s])
    BY ONLY <2>1, <2>6 DEF Same
  <2>8. f[j + 1] = Wrote(U, m)
    BY ONLY <2>3, <2>4, <2>6
  <2> QED BY ONLY <2>7, <2>8
<1> HIDE DEF Good
<1> DEFINE B == {i \in Nat : i <= n /\ ~Good(i)}
<1>4. ASSUME B # {} PROVE FALSE
  <2>0. B \in SUBSET Nat
    OBVIOUS
  <2>1. PICK x \in B : \A y \in B : x <= y
    <3> HIDE DEF B
    <3> QED BY <1>4, <2>0, LeastNatural
  <2>2. x \in Nat /\ x <= n /\ ~Good(x)
    OBVIOUS
  <2>3. x # 0
    BY ONLY <1>2, <2>2
  <2>4. x - 1 \in Nat /\ x - 1 \notin B /\ x - 1 <= n /\ (x - 1) + 1 = x
    BY <2>1, <2>2, <2>3
  <2>5. Good(x - 1)
    BY <2>4
  <2> QED BY ONLY <1>3, <2>2, <2>4, <2>5
<1>5. Good(n)
  BY <1>0, <1>4
<1>6. PICK T, k : f[n] = Wrote(T, k) /\ Same(ts[s], T[s])
  BY ONLY <1>5 DEF Good
<1>7. f[n].ts = T
  BY ONLY <1>6 DEF Wrote
<1> QED BY ONLY <1>1, <1>6, <1>7


-----------------------------------------------------------------------------
\* The pieces of a message.
LEMMA SaidIs ==
    ASSUME NEW buf, Len(buf) \in Nat, NEW lvl \in 0 .. 5,
           \A i \in 1 .. Len(buf) : buf[i] \in STRING \cup {Newline, Space} /\ buf[i] # Esc
    PROVE  SaidBy(Said(buf, lvl), buf) /\ \A i \in 1 .. Len(buf) : Said(buf, lvl)[i].lvl = lvl
<1>1. PICK n \in Nat : n = Len(buf)
  OBVIOUS
<1>2. PICK said : said = Said(buf, lvl)
  OBVIOUS
<1>3. said = [i \in 1 .. n |-> [c |-> buf[i], lvl |-> lvl]]
  BY ONLY <1>1, <1>2 DEF Said
<1>4. \A i \in 1 .. n : [c |-> buf[i], lvl |-> lvl] \in Entries
  BY <1>1 DEF Entries
<1>5. said \in Seq(Entries) /\ Len(said) = n
  <2>1. said \in [1 .. n -> Entries]
    BY ONLY <1>3, <1>4
  <2> HIDE DEF Entries
  <2> QED BY ONLY <2>1, n \in Nat
<1>6. \A i \in 1 .. n : said[i].c = buf[i] /\ said[i].lvl = lvl
  BY ONLY <1>3
<1>7. SaidBy(said, buf)
  BY <1>1, <1>5, <1>6 DEF SaidBy
<1> QED BY ONLY <1>1, <1>2, <1>6, <1>7

Plain(buf) ==
    /\ buf \in Seq(STRING) /\ Len(buf) \in Nat
    /\ \A i \in 1 .. Len(buf) : buf[i] \in STRING \cup {Newline, Space} /\ buf[i] # Esc

LEMMA PlainChars ==
    ASSUME NEW m, m \in Seq(STRING \ {"esc"})
    PROVE  Plain(m)
<1>1. PICK S : S = STRING \ {"esc"}
  OBVIOUS
<1>2. PICK n \in Nat : n = Len(m)
  BY ONLY m \in Seq(STRING \ {"esc"})
<1>3. \A i \in 1 .. n : m[i] \in S
  BY ONLY <1>1, <1>2, m \in Seq(STRING \ {"esc"})
<1>4. \A i \in 1 .. n : m[i] \in STRING /\ m[i] # Esc
  BY ONLY <1>1, <1>3 DEF Esc
<1>5. m \in Seq(STRING)
  <2>1. m = [i \in 1 .. n |-> m[i]]
    BY ONLY <1>2, m \in Seq(STRING \ {"esc"})
  <2> QED BY ONLY <1>4, <2>1, n \in Nat
<1> QED BY ONLY <1>2, <1>4, <1>5 DEF Plain

LEMMA MessageChars ==
    Timestamp \in Seq(STRING)
    /\ \A i \in 1 .. Len(Timestamp) : Timestamp[i] \in STRING \cup {Newline, Space} /\ Timestamp[i] # Esc
<1>1. Plain(Timestamp)
  BY ConsoleAssumption, PlainChars
<1> QED BY ONLY <1>1 DEF Plain

LEMMA CutChars ==
    ASSUME NEW m \in Messages
    PROVE  /\ Len(Kvprintf(m)) \in Nat
           /\ \A i \in 1 .. Len(Kvprintf(m)) :
                Kvprintf(m)[i] \in STRING \cup {Newline, Space} /\ Kvprintf(m)[i] # Esc
<1>1. PICK S : S = STRING \ {"esc"}
  OBVIOUS
<1>2. m \in MessagesOf(S)
  BY <1>1, ConsoleAssumption
<1>3. PICK b, x, a : b = m.before /\ x = m.item /\ a = m.after
  OBVIOUS
<1>4. b \in Seq(S) /\ x \in Seq(S) /\ a \in Seq(S)
  BY ONLY <1>2, <1>3 DEF MessagesOf
<1>5. PICK K \in Nat : K = KprintfMax - 1
  <2>1. KprintfMax \in Nat \ {0}
    BY ConsoleAssumption
  <2>2. KprintfMax - 1 \in Nat
    BY ONLY <2>1
  <2> QED BY ONLY <2>2
<1>6. ASSUME NEW s, s \in Seq(S) PROVE Beginning(s, K) \in Seq(S)
  <2>1. PICK n \in Nat : n = Len(s)
    BY ONLY <1>6
  <2>2. PICK j \in Nat : j = (IF n < K THEN n ELSE K) /\ j <= n
    BY ONLY n \in Nat, K \in Nat
  <2>3. SubSeq(s, 1, j) \in Seq(S)
    BY ONLY <1>6, <2>1, <2>2
  <2>4. Beginning(s, K) = SubSeq(s, 1, j)
    BY ONLY <2>1, <2>2 DEF Beginning
  <2> QED BY ONLY <2>3, <2>4
<1>7. (b \o x) \o a \in Seq(S)
  BY ONLY <1>4
<1>8. Kvprintf(m) = Beginning((b \o x) \o a, K) \/ Kvprintf(m) = b \o Beginning(x, K)
  BY ONLY <1>3, <1>5 DEF Kvprintf
<1>9. PICK y : y = Beginning(x, K) /\ y \in Seq(S)
  BY ONLY <1>4, <1>6
<1>10. b \o y \in Seq(S)
  BY ONLY <1>4, <1>9
<1>11. Kvprintf(m) \in Seq(STRING \ {"esc"})
  BY ONLY <1>1, <1>6, <1>7, <1>8, <1>9, <1>10
<1>12. Plain(Kvprintf(m))
  BY <1>11, PlainChars
<1> QED BY ONLY <1>12 DEF Plain

\* An escape sequence keeps what is drawn.
LEMMA ColourKeepsDrawn ==
    ASSUME NEW s \in ToSet(sinks), s \in Terminals, NEW ts, NEW str, NEW junk, NEW col, Colours(str, junk, col),
           NEW ls, Drawn(s, ts[s], ls)
    PROVE  Drawn(s, KstdioWrite(ts, str, junk)[s], ls) /\ KstdioWrite(ts, str, junk)[s].fg = col
<1>1. PICK t : t = ts[s]
  OBVIOUS
<1>2. PICK u : u = KstdioWrite(ts, str, junk)[s]
  OBVIOUS
<1>3. u = [t EXCEPT !.fg = col]
  BY <1>1, <1>2, ColourWritten
<1>4. Shape(t) /\ Picture(s, t.cells, t.row, t.col, ls) /\ t.col < Columns[s]
  BY <1>1 DEF Drawn
<1>5. Shape(u) /\ u.cells = t.cells /\ u.row = t.row /\ u.col = t.col /\ u.fg = col
  BY ONLY <1>3, <1>4 DEF Shape
<1>6. Drawn(s, u, ls)
  BY ONLY <1>4, <1>5 DEF Drawn
<1> QED BY ONLY <1>2, <1>5, <1>6

Listens(s) == s \in ToSet(sinks) /\ Follows(s)

LEMMA StampDraws ==
    ASSUME NEW s, Listens(s), NEW ts, NEW junk \in Junk, NEW txt \in Seq(Entries), Drawn(s, ts[s], LinesOf(s, txt))
    PROVE  Drawn(s, Stamped(ts, junk)[s], LinesOf(s, txt \o Said(Timestamp, 0)))
<1>0. s \in ToSet(sinks) /\ Follows(s) /\ s \in Terminals
  BY DEF Listens, Follows
<1>1. PICK T : T = KstdioWrite(ts, TsSequence, junk)
  OBVIOUS
<1>2. Drawn(s, T[s], LinesOf(s, txt)) /\ T[s].fg = junk
  <2>1. Colours(TsSequence, junk, junk)
    BY SequencesColour
  <2> QED BY <1>0, <1>1, <2>1, ColourKeepsDrawn
<1>3. SaidBy(Said(Timestamp, 0), Timestamp) /\ \A i \in 1 .. Len(Timestamp) : Said(Timestamp, 0)[i].lvl = 0
  <2>1. /\ Timestamp \in Seq(STRING)
        /\ \A i \in 1 .. Len(Timestamp) : Timestamp[i] \in STRING \cup {Newline, Space} /\ Timestamp[i] # Esc
    BY MessageChars
  <2>2. Len(Timestamp) \in Nat /\ 0 \in 0 .. 5
    BY ONLY <2>1
  <2> QED BY ONLY <2>1, <2>2, SaidIs
<1>4. \A i \in 1 .. Len(Timestamp) : Timestamp[i] # Newline => Inked(T[s].fg, Said(Timestamp, 0)[i])
  BY <1>2, <1>3 DEF Inked
<1>5. Drawn(s, KstdioWrite(T, Timestamp, junk)[s], LinesOf(s, txt \o Said(Timestamp, 0)))
  BY <1>0, <1>2, <1>3, <1>4, TextWritten
<1> QED BY ONLY <1>1, <1>5 DEF Stamped

LEMMA MessageDraws ==
    ASSUME NEW s, Listens(s), NEW ts, NEW junk, NEW txt \in Seq(Entries), Drawn(s, ts[s], LinesOf(s, txt)),
           NEW lvl \in LogLevels, NEW msg \in Messages, NEW dies \in BOOLEAN
    PROVE  Drawn(s, Logged(ts, lvl, msg, junk, dies)[s], LinesOf(s, txt \o Said(Kvprintf(msg), lvl)))
<1>0. s \in ToSet(sinks) /\ Follows(s) /\ s \in Terminals
  BY DEF Listens, Follows
<1>1. PICK T : T = KstdioWrite(ts, LevelSequence[lvl], junk)
  OBVIOUS
<1>2. lvl \in 1 .. 5 /\ lvl \in 0 .. 5
  BY ConsoleAssumption
<1>3. Drawn(s, T[s], LinesOf(s, txt)) /\ T[s].fg = LevelColour[lvl]
  <2>1. Colours(LevelSequence[lvl], junk, LevelColour[lvl])
    BY <1>2, SequencesColour
  <2> QED BY <1>0, <1>1, <2>1, ColourKeepsDrawn
<1>4. PICK buf : buf = Kvprintf(msg)
  OBVIOUS
<1>5. PICK said : said = Said(buf, lvl)
  OBVIOUS
<1>6. SaidBy(said, buf) /\ \A i \in 1 .. Len(buf) : said[i].lvl = lvl
  <2>1. /\ Len(buf) \in Nat
        /\ \A i \in 1 .. Len(buf) : buf[i] \in STRING \cup {Newline, Space} /\ buf[i] # Esc
    BY ONLY <1>4, msg \in Messages, CutChars
  <2> QED BY ONLY <1>2, <1>5, <2>1, SaidIs
<1>7. LevelColour[lvl] \in ToSet(LevelColour)
  <2>1. LevelColour = <<"red", "red", "yellow", "white", "cyan">>
    BY DEF LevelColour
  <2>2. DOMAIN LevelColour = 1 .. 5
    BY ONLY <2>1
  <2> QED BY ONLY <1>2, <2>2 DEF ToSet
<1>8. \A i \in 1 .. Len(buf) : buf[i] # Newline => Inked(T[s].fg, said[i])
  BY ONLY <1>3, <1>6, <1>7 DEF Inked
<1>9. PICK U : U = KstdioWrite(T, buf, junk)
  OBVIOUS
<1>10. Drawn(s, U[s], LinesOf(s, txt \o said))
  BY <1>0, <1>3, <1>6, <1>8, <1>9, TextWritten
<1>11. Drawn(s, KstdioWrite(U, ClearSequence, junk)[s], LinesOf(s, txt \o said))
  <2>1. Colours(ClearSequence, junk, junk)
    BY SequencesColour
  <2> QED BY <1>0, <1>10, <2>1, ColourKeepsDrawn
<1>12. Logged(ts, lvl, msg, junk, dies) = IF dies THEN U ELSE KstdioWrite(U, ClearSequence, junk)
  BY ONLY <1>1, <1>4, <1>9 DEF Logged
<1> QED BY ONLY <1>4, <1>5, <1>10, <1>11, <1>12

LEMMA EndDraws ==
    ASSUME NEW s, Listens(s), NEW ts, NEW junk, NEW txt \in Seq(Entries), Drawn(s, ts[s], LinesOf(s, txt))
    PROVE  Drawn(s, KstdioWrite(ts, <<Newline>>, junk)[s], LinesOf(s, txt \o Said(<<Newline>>, 0)))
<1>0. s \in ToSet(sinks) /\ Follows(s)
  BY DEF Listens
<1>1. PICK buf : buf = <<Newline>>
  OBVIOUS
<1>2. Len(buf) = 1 /\ buf[1] = Newline /\ Newline # Esc
  BY <1>1 DEF Newline, Esc
<1>3. \A i \in 1 .. Len(buf) : buf[i] = Newline
  BY ONLY <1>2
<1>4. SaidBy(Said(buf, 0), buf)
  <2>1. Len(buf) \in Nat /\ 0 \in 0 .. 5
    BY ONLY <1>2
  <2>2. \A i \in 1 .. Len(buf) : buf[i] \in STRING \cup {Newline, Space} /\ buf[i] # Esc
    BY ONLY <1>2, <1>3
  <2> QED BY ONLY <2>1, <2>2, SaidIs
<1>5. \A i \in 1 .. Len(buf) : buf[i] # Newline => Inked(ts[s].fg, Said(buf, 0)[i])
  BY ONLY <1>3
<1>6. Drawn(s, KstdioWrite(ts, buf, junk)[s], LinesOf(s, txt \o Said(buf, 0)))
  BY <1>0, <1>4, <1>5, TextWritten
<1> QED BY ONLY <1>1, <1>6


-----------------------------------------------------------------------------
\* Every write leaves both terminals there.
LEMMA TerminalsStay ==
    ASSUME NEW ts, DOMAIN ts = Terminals, NEW buf, NEW junk, Len(buf) \in Nat
    PROVE  DOMAIN KstdioWrite(ts, buf, junk) = Terminals
<1>0. PICK n \in Nat : n = Len(buf)
  OBVIOUS
<1>1. PICK f : /\ f[0] = [ts |-> ts, skip |-> 0]
               /\ \A i \in 1 .. n : f[i] = WriteStep(buf, junk, f[i - 1], i)
               /\ KstdioWrite(ts, buf, junk) = f[n].ts
  <2>2. PICK f : /\ f[0] = [ts |-> ts, skip |-> 0]
                 /\ \A i \in 1 .. Len(buf) : f[i] = WriteStep(buf, junk, f[i - 1], i)
                 /\ KstdioWrite(ts, buf, junk) = f[Len(buf)].ts
    BY ONLY Len(buf) \in Nat, WriteRuns
  <2> QED BY ONLY <1>0, <2>2
<1> DEFINE Good(i) == DOMAIN f[i].ts = Terminals /\ DOMAIN f[i] = {"ts", "skip"}
<1>2. Good(0)
  BY <1>1
<1>3. ASSUME NEW j \in Nat, j + 1 <= n, Good(j) PROVE Good(j + 1)
  <2>1. PICK w : w = f[j]
    OBVIOUS
  <2>2. DOMAIN w.ts = Terminals /\ DOMAIN w = {"ts", "skip"}
    BY <1>3, <2>1
  <2>3. PICK i : i = j + 1
    OBVIOUS
  <2>4. f[i] = WriteStep(buf, junk, w, i)
    <3>1. j + 1 \in 1 .. n /\ (j + 1) - 1 = j
      BY ONLY <1>3, n \in Nat, j \in Nat
    <3> QED BY ONLY <1>1, <2>1, <2>3, <3>1
  <2>5. /\ \A T, fg : DOMAIN SetColours(T, fg) = Terminals
        /\ \A T : DOMAIN Newlines(T) = Terminals
        /\ \A T, c : DOMAIN OutputChars(T, c) = Terminals
    BY DEF SetColours, Newlines, OutputChars, ForEachTerminal
  <2>6. PICK v : v = f[i]
    OBVIOUS
  <2>7. \/ v = [w EXCEPT !.skip = @ - 1]
        \/ \E p : v = [ts |-> SetColours(w.ts, p.fg), skip |-> p.len]
        \/ v = [w EXCEPT !.ts = Newlines(@)]
        \/ v = [w EXCEPT !.ts = OutputChars(OutputChars(OutputChars(OutputChars(@, Space), Space), Space), Space)]
        \/ v = [w EXCEPT !.ts = OutputChars(@, buf[i])]
    BY ONLY <2>4, <2>6 DEF WriteStep
  <2>8. DOMAIN v.ts = Terminals /\ DOMAIN v = {"ts", "skip"}
    <3>1. CASE v = [w EXCEPT !.skip = @ - 1]
      BY ONLY <2>2, <3>1
    <3>2. ASSUME NEW T, DOMAIN T = Terminals, v = [ts |-> T, skip |-> v.skip]
          PROVE  DOMAIN v.ts = Terminals /\ DOMAIN v = {"ts", "skip"}
      BY ONLY <3>2
    <3>3. CASE \E p : v = [ts |-> SetColours(w.ts, p.fg), skip |-> p.len]
      BY ONLY <2>5, <3>3
    <3>4. ASSUME NEW T, DOMAIN T = Terminals, v = [w EXCEPT !.ts = T]
          PROVE  DOMAIN v.ts = Terminals /\ DOMAIN v = {"ts", "skip"}
      BY ONLY <2>2, <3>4
    <3>5. CASE v = [w EXCEPT !.ts = Newlines(@)]
      BY ONLY <2>2, <2>5, <3>5
    <3>6. CASE v = [w EXCEPT !.ts = OutputChars(OutputChars(OutputChars(OutputChars(@, Space), Space), Space), Space)]
      BY ONLY <2>2, <2>5, <3>6
    <3>7. CASE v = [w EXCEPT !.ts = OutputChars(@, buf[i])]
      BY ONLY <2>2, <2>5, <3>7
    <3> QED BY <2>7, <3>1, <3>3, <3>5, <3>6, <3>7
  <2> QED BY ONLY <2>3, <2>6, <2>8
<1> HIDE DEF Good
<1> DEFINE B == {i \in Nat : i <= n /\ ~Good(i)}
<1>4. ASSUME B # {} PROVE FALSE
  <2>0. B \in SUBSET Nat
    OBVIOUS
  <2>1. PICK x \in B : \A y \in B : x <= y
    <3> HIDE DEF B
    <3> QED BY <1>4, <2>0, LeastNatural
  <2>2. x \in Nat /\ x <= n /\ ~Good(x)
    OBVIOUS
  <2>3. x # 0
    BY ONLY <1>2, <2>2
  <2>4. x - 1 \in Nat /\ x - 1 \notin B /\ x - 1 <= n /\ (x - 1) + 1 = x
    BY <2>1, <2>2, <2>3
  <2>5. Good(x - 1)
    BY <2>4
  <2> QED BY ONLY <1>3, <2>2, <2>4, <2>5
<1>5. Good(n)
  BY <1>0, <1>4
<1> QED BY <1>1, <1>5 DEF Good

-----------------------------------------------------------------------------
\* What holds of the console between its steps: a terminal whose module has
\* not started is blank, and one that is registered shows its text.
ConsoleInv ==
    /\ DOMAIN term = Terminals /\ \A s \in Terminals : Shape(term[s])
    /\ text \in [Terminals -> Seq(Entries)]
    /\ sinks \in Seq(Terminals \cup RawSinks) /\ ToSet(sinks) \subseteq mains
    /\ \A s \in Terminals \ mains : term[s].cells = EmptyScreen(s)
    /\ \A s \in Terminals \cap ToSet(sinks) : Drawn(s, term[s], LinesOf(s, text[s]))

LEMMA ConsoleInvImplies == ConsoleInv => ConsoleShowsText
<1> SUFFICES ASSUME ConsoleInv PROVE ConsoleShowsText
  OBVIOUS
<1>1. ASSUME NEW s \in Terminals \cap ToSet(sinks), NEW lines, lines = LinesOf(s, text[s]),
             NEW r \in 0 .. Rows[s] - 1, NEW c \in 0 .. Columns[s] - 1
      PROVE  IF TopOf(s, lines) + r + 1 <= Len(lines) /\ c + 1 <= Len(lines[TopOf(s, lines) + r + 1])
             THEN Shows(s, term[s].cells[r][c], lines[TopOf(s, lines) + r + 1][c + 1])
             ELSE term[s].cells[r][c] = Blank
  <2>1. Drawn(s, term[s], lines)
    BY <1>1 DEF ConsoleInv
  <2>2. CellFits(s, term[s].cells[r][c], lines, TopOf(s, lines) + r + 1, c)
    BY ONLY <2>1, r \in 0 .. Rows[s] - 1, c \in 0 .. Columns[s] - 1 DEF Drawn, Picture
  <2> QED BY ONLY <2>2 DEF CellFits
<1> QED BY <1>1 DEF ConsoleShowsText, TopOf

LEMMA BlankDrawn ==
    ASSUME NEW s \in Terminals, NEW t, Shape(t), t.cells = EmptyScreen(s), t.row = 0, t.col = 0
    PROVE  Drawn(s, t, LinesOf(s, <<>>))
<1>1. LinesOf(s, <<>>) = << <<>> >>
  BY NoLines
<1>2. PICK ls : ls = << <<>> >>
  OBVIOUS
<1>3. Len(ls) = 1 /\ ls[1] = <<>> /\ ls \in Seq(Seq(Entries)) /\ Len(<<>>) = 0
  <2> HIDE DEF Entries
  <2> QED BY ONLY <1>2
<1>4. PICK R \in Nat \ {0} : R = Rows[s]
  BY Sizes
<1>5. PICK C \in Nat \ {0} : C = Columns[s]
  BY Sizes
<1>6. TopOf(s, ls) = 0
  <2>1. ~(1 > R)
    BY ONLY R \in Nat \ {0}
  <2> QED BY ONLY <1>3, <1>4, <2>1 DEF TopOf
<1>7. PICK K : K = EmptyScreen(s)
  OBVIOUS
<1>8. K = [r \in 0 .. R - 1 |-> [c \in 0 .. C - 1 |-> Blank]]
  BY ONLY <1>4, <1>5, <1>7 DEF EmptyScreen
<1>9. DOMAIN K = 0 .. R - 1 /\ \A a \in 0 .. R - 1 : DOMAIN K[a] = 0 .. C - 1
  BY ONLY <1>8
<1>10. \A a \in 0 .. R - 1, b \in 0 .. C - 1 : K[a][b] = Blank
  BY ONLY <1>8
<1>11. ASSUME NEW a \in 0 .. R - 1, NEW b \in 0 .. C - 1
       PROVE  CellFits(s, K[a][b], ls, 0 + a + 1, b)
  <2>1. PICK k : k = 0 + a + 1
    OBVIOUS
  <2>2. ~(k <= Len(ls) /\ b + 1 <= Len(ls[k]))
    <3>1. CASE a = 0
      <4>1. k = 1 /\ ~(b + 1 <= 0)
        BY ONLY <2>1, <3>1, b \in 0 .. C - 1, C \in Nat \ {0}
      <4> QED BY ONLY <1>3, <4>1
    <3>2. CASE a # 0
      <4>1. ~(k <= 1)
        BY ONLY <2>1, <3>2, a \in 0 .. R - 1, R \in Nat \ {0}
      <4> QED BY ONLY <1>3, <4>1
    <3> QED BY <3>1, <3>2
  <2>3. PICK cell : cell = K[a][b]
    OBVIOUS
  <2>4. cell = Blank
    BY ONLY <1>10, <2>3, a \in 0 .. R - 1, b \in 0 .. C - 1
  <2>5. CellFits(s, cell, ls, k, b)
    BY ONLY <2>2, <2>4 DEF CellFits
  <2> QED BY ONLY <2>1, <2>3, <2>5
<1>12. 0 = Len(ls) - TopOf(s, ls) - 1 /\ 0 = Len(ls[Len(ls)]) /\ Len(ls) >= 1
  BY ONLY <1>3, <1>6
<1>13. \A i \in 1 .. Len(ls) : Len(ls[i]) <= C
  BY ONLY <1>3, C \in Nat \ {0}
<1>14. Picture(s, K, 0, 0, ls)
  BY ONLY <1>3, <1>4, <1>5, <1>6, <1>9, <1>11, <1>12, <1>13 DEF Picture
<1>15. 0 < Columns[s]
  BY ONLY <1>5, C \in Nat \ {0}
<1> QED BY <1>1, <1>2, <1>7, <1>14, <1>15 DEF Drawn

LEMMA ConsoleInitial == ConsoleInit => ConsoleInv
<1> SUFFICES ASSUME ConsoleInit PROVE ConsoleInv
  OBVIOUS
<1>1. /\ sinks = <<>> /\ mains = {}
      /\ term = [s \in Terminals |-> [cells |-> EmptyScreen(s), row |-> 0, col |-> 0, fg |-> "black"]]
      /\ text = [s \in Terminals |-> <<>>]
  BY DEF ConsoleInit
<1>2. \A s \in Terminals : term[s] = [cells |-> EmptyScreen(s), row |-> 0, col |-> 0, fg |-> "black"]
  BY ONLY <1>1
<1>3. ASSUME NEW s \in Terminals PROVE Shape(term[s]) /\ term[s].cells = EmptyScreen(s)
  <2>1. PICK t : t = term[s]
    OBVIOUS
  <2>2. PICK K : K = EmptyScreen(s)
    OBVIOUS
  <2>3. t = [cells |-> K, row |-> 0, col |-> 0, fg |-> "black"]
    BY ONLY <1>2, <2>1, <2>2, s \in Terminals
  <2>4. t.cells = K /\ Shape(t)
    BY ONLY <2>3 DEF Shape
  <2> QED BY ONLY <2>1, <2>2, <2>4
<1>4. ToSet(sinks) = {}
  BY ONLY <1>1 DEF ToSet
<1>5. text \in [Terminals -> Seq(Entries)] /\ sinks \in Seq(Terminals \cup RawSinks)
  BY ONLY <1>1
<1>6. DOMAIN term = Terminals
  BY ONLY <1>1
<1> QED BY ONLY <1>1, <1>3, <1>4, <1>5, <1>6 DEF ConsoleInv


-----------------------------------------------------------------------------
\* The steps of the console.
LEMMA SameKeepsDrawn ==
    ASSUME NEW s, NEW t, NEW u, Same(t, u), NEW ls, Drawn(s, t, ls)
    PROVE  Drawn(s, u, ls)
BY DEF Same, Drawn

LEMMA SameIsTransitive ==
    ASSUME NEW t, NEW u, NEW v, Same(t, u), Same(u, v)
    PROVE  Same(t, v)
BY DEF Same

\* The buffers klog writes are sequences.
LEMMA BuffersEnd ==
    ASSUME NEW lvl \in LogLevels, NEW msg \in Messages
    PROVE  /\ Len(TsSequence) \in Nat /\ Len(Timestamp) \in Nat
           /\ Len(LevelSequence[lvl]) \in Nat /\ Len(Kvprintf(msg)) \in Nat
           /\ Len(ClearSequence) \in Nat /\ Len(<<Newline>>) \in Nat
<1>1. PICK junk : junk = 0
  OBVIOUS
<1>2. lvl \in 1 .. 5
  BY ConsoleAssumption
<1>3. Len(TsSequence) \in Nat /\ Len(LevelSequence[lvl]) \in Nat /\ Len(ClearSequence) \in Nat
  <2>1. Colours(TsSequence, junk, junk) /\ Colours(LevelSequence[lvl], junk, LevelColour[lvl])
        /\ Colours(ClearSequence, junk, junk)
    BY <1>2, SequencesColour
  <2> QED BY ONLY <2>1 DEF Colours
<1>4. Len(Timestamp) \in Nat
  BY MessageChars
<1>5. Len(Kvprintf(msg)) \in Nat
  BY CutChars
<1>6. Len(<<Newline>>) \in Nat
  OBVIOUS
<1> QED BY ONLY <1>3, <1>4, <1>5, <1>6

LEMMA KlogStill ==
    ASSUME NEW s, Still(s), NEW ts, Shape(ts[s]), NEW junk, NEW lvl \in LogLevels, NEW msg \in Messages,
           NEW dies \in BOOLEAN
    PROVE  /\ Same(ts[s], Stamped(ts, junk)[s])
           /\ Same(ts[s], Logged(ts, lvl, msg, junk, dies)[s])
           /\ Same(ts[s], KstdioWrite(ts, <<Newline>>, junk)[s])
<1>1. /\ Len(TsSequence) \in Nat /\ Len(Timestamp) \in Nat
      /\ Len(LevelSequence[lvl]) \in Nat /\ Len(Kvprintf(msg)) \in Nat
      /\ Len(ClearSequence) \in Nat /\ Len(<<Newline>>) \in Nat
  BY BuffersEnd
<1>2. \A T, buf : Len(buf) \in Nat /\ Shape(T[s]) => Same(T[s], KstdioWrite(T, buf, junk)[s])
  BY StillWritten
<1>3. \A t, u : Same(t, u) => Shape(u)
  BY DEF Same
<1>4. \A t, u, v : Same(t, u) /\ Same(u, v) => Same(t, v)
  BY SameIsTransitive
<1>5. Same(ts[s], Stamped(ts, junk)[s])
  <2>1. PICK T : T = KstdioWrite(ts, TsSequence, junk)
    OBVIOUS
  <2>2. PICK U : U = KstdioWrite(T, Timestamp, junk)
    OBVIOUS
  <2>3. Same(ts[s], T[s])
    BY ONLY <1>1, <1>2, <2>1, Shape(ts[s])
  <2>4. Same(T[s], U[s])
    BY ONLY <1>1, <1>2, <1>3, <2>2, <2>3
  <2>5. Stamped(ts, junk) = U
    BY ONLY <2>1, <2>2 DEF Stamped
  <2> QED BY ONLY <1>4, <2>3, <2>4, <2>5
<1>6. Same(ts[s], Logged(ts, lvl, msg, junk, dies)[s])
  <2>1. PICK T : T = KstdioWrite(ts, LevelSequence[lvl], junk)
    OBVIOUS
  <2>2. PICK U : U = KstdioWrite(T, Kvprintf(msg), junk)
    OBVIOUS
  <2>3. PICK V : V = KstdioWrite(U, ClearSequence, junk)
    OBVIOUS
  <2>4. Same(ts[s], T[s])
    BY ONLY <1>1, <1>2, <2>1, Shape(ts[s])
  <2>5. Same(T[s], U[s])
    BY ONLY <1>1, <1>2, <1>3, <2>2, <2>4
  <2>6. Same(U[s], V[s])
    BY ONLY <1>1, <1>2, <1>3, <2>3, <2>5
  <2>7. Logged(ts, lvl, msg, junk, dies) = IF dies THEN U ELSE V
    BY ONLY <2>1, <2>2, <2>3 DEF Logged
  <2> QED BY ONLY <1>4, <2>4, <2>5, <2>6, <2>7
<1>7. Same(ts[s], KstdioWrite(ts, <<Newline>>, junk)[s])
  BY ONLY <1>1, <1>2, Shape(ts[s])
<1> QED BY ONLY <1>5, <1>6, <1>7

LEMMA KlogStays ==
    ASSUME NEW ts, DOMAIN ts = Terminals, NEW junk, NEW lvl \in LogLevels, NEW msg \in Messages,
           NEW dies \in BOOLEAN
    PROVE  /\ DOMAIN Stamped(ts, junk) = Terminals
           /\ DOMAIN Logged(ts, lvl, msg, junk, dies) = Terminals
           /\ DOMAIN KstdioWrite(ts, <<Newline>>, junk) = Terminals
<1>1. /\ Len(TsSequence) \in Nat /\ Len(Timestamp) \in Nat
      /\ Len(LevelSequence[lvl]) \in Nat /\ Len(Kvprintf(msg)) \in Nat
      /\ Len(ClearSequence) \in Nat /\ Len(<<Newline>>) \in Nat
  BY BuffersEnd
<1>2. \A T, buf : Len(buf) \in Nat /\ DOMAIN T = Terminals => DOMAIN KstdioWrite(T, buf, junk) = Terminals
  BY TerminalsStay
<1>3. DOMAIN Stamped(ts, junk) = Terminals
  BY ONLY <1>1, <1>2, DOMAIN ts = Terminals DEF Stamped
<1>4. DOMAIN Logged(ts, lvl, msg, junk, dies) = Terminals
  BY ONLY <1>1, <1>2, DOMAIN ts = Terminals DEF Logged
<1> QED BY ONLY <1>1, <1>2, <1>3, <1>4, DOMAIN ts = Terminals

\* What klog adds to the text.
LEMMA SaidTyped ==
    ASSUME NEW lvl \in LogLevels, NEW msg \in Messages
    PROVE  /\ Said(Timestamp, 0) \in Seq(Entries)
           /\ Said(Kvprintf(msg), lvl) \in Seq(Entries)
           /\ Said(<<Newline>>, 0) \in Seq(Entries)
<1>1. /\ Timestamp \in Seq(STRING)
      /\ \A i \in 1 .. Len(Timestamp) : Timestamp[i] \in STRING \cup {Newline, Space} /\ Timestamp[i] # Esc
  BY MessageChars
<1>2. Len(Timestamp) \in Nat /\ 0 \in 0 .. 5
  BY ONLY <1>1
<1>3. Said(Timestamp, 0) \in Seq(Entries)
  <2>1. SaidBy(Said(Timestamp, 0), Timestamp)
    BY ONLY <1>1, <1>2, SaidIs
  <2> QED BY ONLY <2>1 DEF SaidBy
<1>4. Said(Kvprintf(msg), lvl) \in Seq(Entries)
  <2>1. lvl \in 0 .. 5
    BY ConsoleAssumption
  <2>2. PICK buf : buf = Kvprintf(msg)
    OBVIOUS
  <2>3. /\ Len(buf) \in Nat
        /\ \A i \in 1 .. Len(buf) : buf[i] \in STRING \cup {Newline, Space} /\ buf[i] # Esc
    BY ONLY <2>2, msg \in Messages, CutChars
  <2>4. SaidBy(Said(buf, lvl), buf)
    BY ONLY <2>1, <2>3, SaidIs
  <2> QED BY ONLY <2>2, <2>4 DEF SaidBy
<1>5. Said(<<Newline>>, 0) \in Seq(Entries)
  <2>1. PICK buf : buf = <<Newline>>
    OBVIOUS
  <2>2. Len(buf) = 1 /\ buf[1] = Newline /\ Newline # Esc
    BY <2>1 DEF Newline, Esc
  <2>3. Len(buf) \in Nat /\ \A i \in 1 .. Len(buf) : buf[i] \in STRING \cup {Newline, Space} /\ buf[i] # Esc
    BY ONLY <2>2
  <2>4. SaidBy(Said(buf, 0), buf)
    BY ONLY <1>2, <2>3, SaidIs
  <2> QED BY ONLY <2>1, <2>4 DEF SaidBy
<1> QED BY ONLY <1>3, <1>4, <1>5


\* Gluing texts.
LEMMA Glued ==
    ASSUME NEW t \in Seq(Entries), NEW a \in Seq(Entries), NEW b \in Seq(Entries), NEW c \in Seq(Entries)
    PROVE  /\ t \o a \in Seq(Entries) /\ (t \o a) \o b \in Seq(Entries)
           /\ t \o ((a \o b) \o c) \in Seq(Entries)
           /\ t \o <<>> = t
<1>1. PICK S : S = Entries
  OBVIOUS
<1> QED BY ONLY <1>1, t \in Seq(Entries), a \in Seq(Entries), b \in Seq(Entries), c \in Seq(Entries)

\* z is y after x.
Glue(x, y, z) == x \in Seq(Entries) /\ y \in Seq(Entries) /\ z = x \o y

LEMMA GlueTypes ==
    ASSUME NEW x, NEW y, NEW z, Glue(x, y, z)
    PROVE  x \in Seq(Entries) /\ y \in Seq(Entries) /\ z \in Seq(Entries)
BY DEF Glue

LEMMA GlueAssociates ==
    ASSUME NEW x, NEW y, NEW z, NEW xy, NEW yz, NEW w, Glue(x, y, xy), Glue(y, z, yz), Glue(xy, z, w)
    PROVE  Glue(x, yz, w)
<1>1. x \in Seq(Entries) /\ y \in Seq(Entries) /\ z \in Seq(Entries) /\ xy = x \o y /\ yz = y \o z /\ w = xy \o z
  BY DEF Glue
<1>2. (x \o y) \o z = x \o (y \o z)
  BY ONLY <1>1, ConcatAssociative
<1>3. yz \in Seq(Entries)
  BY GlueTypes
<1>4. w = x \o yz
  BY ONLY <1>1, <1>2
<1> QED BY ONLY <1>1, <1>3, <1>4 DEF Glue

LEMMA GluedTogether ==
    ASSUME NEW t, NEW a, NEW b, NEW c, NEW ab, NEW abc, NEW ta, NEW tab, NEW tabc,
           Glue(a, b, ab), Glue(ab, c, abc), Glue(t, a, ta), Glue(ta, b, tab), Glue(tab, c, tabc)
    PROVE  Glue(t, abc, tabc)
<1>1. Glue(t, ab, tab)
  BY GlueAssociates
<1> QED BY <1>1, GlueAssociates

LEMMA KlogKeeps ==
    ASSUME ConsoleInv, NEW lvl \in LogLevels, NEW msg \in Messages, NEW newline \in BOOLEAN,
           NEW junk \in Junk, NEW dies \in BOOLEAN, Klog(lvl, msg, newline, junk, dies)
    PROVE  ConsoleInv'
<1>1. PICK shown : shown = (lvl <= level)
  OBVIOUS
<1>0. PICK ended : ended = (newline /\ ~dies)
  OBVIOUS
<1>2. PICK stamped : stamped = (shown /\ showTs)
  OBVIOUS
<1>3. PICK ts1 : ts1 = IF stamped THEN Stamped(term, junk) ELSE term
  OBVIOUS
<1>4. PICK ts2 : ts2 = IF shown THEN Logged(ts1, lvl, msg, junk, dies) ELSE ts1
  OBVIOUS
<1>5. PICK ts3 : ts3 = IF ended THEN KstdioWrite(ts2, <<Newline>>, junk) ELSE ts2
  OBVIOUS
<1>6. PICK a : a = IF stamped THEN Said(Timestamp, 0) ELSE <<>>
  OBVIOUS
<1>7. PICK b : b = IF shown THEN Said(Kvprintf(msg), lvl) ELSE <<>>
  OBVIOUS
<1>8. PICK c : c = IF ended THEN Said(<<Newline>>, 0) ELSE <<>>
  OBVIOUS
<1>9. /\ term' = ts3
      /\ text' = [s \in Terminals |-> IF s \in ToSet(sinks) /\ ~(s = "fb" /\ takeover)
                                      THEN text[s] \o ((a \o b) \o c) ELSE text[s]]
      /\ sinks' = sinks /\ mains' = mains
  BY ONLY <1>0, <1>1, <1>2, <1>3, <1>4, <1>5, <1>6, <1>7, <1>8, Klog(lvl, msg, newline, junk, dies) DEF Klog
<1>10. /\ DOMAIN term = Terminals /\ (\A s \in Terminals : Shape(term[s]))
       /\ text \in [Terminals -> Seq(Entries)]
       /\ sinks \in Seq(Terminals \cup RawSinks) /\ ToSet(sinks) \subseteq mains
       /\ \A s \in Terminals \ mains : term[s].cells = EmptyScreen(s)
       /\ \A s \in Terminals \cap ToSet(sinks) : Drawn(s, term[s], LinesOf(s, text[s]))
  BY DEF ConsoleInv
<1>11. a \in Seq(Entries) /\ b \in Seq(Entries) /\ c \in Seq(Entries)
  <2>1. <<>> \in Seq(Entries)
    OBVIOUS
  <2>2. /\ Said(Timestamp, 0) \in Seq(Entries) /\ Said(Kvprintf(msg), lvl) \in Seq(Entries)
        /\ Said(<<Newline>>, 0) \in Seq(Entries)
    BY SaidTyped
  <2> QED BY ONLY <1>6, <1>7, <1>8, <2>1, <2>2
<1>12. DOMAIN ts3 = Terminals
  <2>1. \A T : DOMAIN T = Terminals => /\ DOMAIN Stamped(T, junk) = Terminals
                                       /\ DOMAIN Logged(T, lvl, msg, junk, dies) = Terminals
                                       /\ DOMAIN KstdioWrite(T, <<Newline>>, junk) = Terminals
    <3>1. ASSUME NEW T, DOMAIN T = Terminals
          PROVE  /\ DOMAIN Stamped(T, junk) = Terminals
                 /\ DOMAIN Logged(T, lvl, msg, junk, dies) = Terminals
                 /\ DOMAIN KstdioWrite(T, <<Newline>>, junk) = Terminals
      BY ONLY <3>1, KlogStays
    <3> QED BY ONLY <3>1
  <2>2. DOMAIN ts1 = Terminals
    BY ONLY <1>3, <1>10, <2>1
  <2>3. DOMAIN ts2 = Terminals
    BY ONLY <1>4, <2>1, <2>2
  <2> QED BY ONLY <1>5, <2>1, <2>3
<1>13. text' \in [Terminals -> Seq(Entries)]
  <2>1. \A s \in Terminals : text[s] \in Seq(Entries)
    BY ONLY <1>10
  <2>2. \A s \in Terminals : text[s] \o ((a \o b) \o c) \in Seq(Entries)
    BY ONLY <1>11, <2>1, Glued
  <2> QED BY ONLY <1>9, <2>1, <2>2
<1>14. ASSUME NEW s, Still(s)
       PROVE  Same(term[s], ts3[s]) /\ text'[s] = text[s]
  <2>1. s \in Terminals /\ ~(s \in ToSet(sinks) /\ ~(s = "fb" /\ takeover))
    BY ONLY <1>14 DEF Still
  <2>2. text'[s] = text[s]
    BY ONLY <1>9, <2>1
  <2>3. \A T : Shape(T[s]) => /\ Same(T[s], Stamped(T, junk)[s])
                              /\ Same(T[s], Logged(T, lvl, msg, junk, dies)[s])
                              /\ Same(T[s], KstdioWrite(T, <<Newline>>, junk)[s])
    BY <1>14, KlogStill
  <2>4. \A t, u : Same(t, u) => Shape(u)
    BY DEF Same
  <2>5. \A t : Shape(t) => Same(t, t)
    BY DEF Same
  <2>6. Same(term[s], ts1[s])
    BY ONLY <1>3, <1>10, <2>1, <2>3, <2>5
  <2>7. Same(ts1[s], ts2[s])
    BY ONLY <1>4, <2>3, <2>4, <2>5, <2>6
  <2>8. Same(ts2[s], ts3[s])
    BY ONLY <1>5, <2>3, <2>4, <2>5, <2>7
  <2>9. \A t, u, v : Same(t, u) /\ Same(u, v) => Same(t, v)
    BY SameIsTransitive
  <2> QED BY ONLY <2>2, <2>6, <2>7, <2>8, <2>9
<1>15. ASSUME NEW s, Listens(s)
       PROVE  Drawn(s, ts3[s], LinesOf(s, text'[s]))
  <2>1. s \in Terminals /\ s \in ToSet(sinks) /\ ~(s = "fb" /\ takeover)
    BY ONLY <1>15 DEF Listens, Follows
  <2>2. PICK t \in Seq(Entries) : t = text[s]
    BY ONLY <1>10, <2>1
  <2>3. text'[s] = ((t \o a) \o b) \o c
    <3>1. text'[s] = t \o ((a \o b) \o c)
      BY ONLY <1>9, <2>1, <2>2
    <3>2. PICK ab, ta, tab, abc, tabc :
                ab = a \o b /\ abc = ab \o c /\ ta = t \o a /\ tab = ta \o b /\ tabc = tab \o c
      OBVIOUS
    <3>3. /\ a \in Seq(Entries) /\ b \in Seq(Entries) /\ c \in Seq(Entries) /\ t \in Seq(Entries)
          /\ ab \in Seq(Entries) /\ ta \in Seq(Entries) /\ tab \in Seq(Entries)
      <4>1. \A x, y \in Seq(Entries) : x \o y \in Seq(Entries)
        BY Glued
      <4> QED BY ONLY <1>11, <3>2, <4>1, t \in Seq(Entries)
    <3>4. Glue(a, b, ab) /\ Glue(ab, c, abc) /\ Glue(t, a, ta) /\ Glue(ta, b, tab) /\ Glue(tab, c, tabc)
      BY ONLY <3>2, <3>3 DEF Glue
    <3>5. Glue(t, abc, tabc)
      BY ONLY <3>4, GluedTogether
    <3>6. tabc = t \o abc
      BY ONLY <3>5 DEF Glue
    <3> QED BY ONLY <3>1, <3>2, <3>6
  <2>4. PICK t1 \in Seq(Entries) : t1 = t \o a
    BY ONLY <1>11, t \in Seq(Entries), Glued
  <2>5. PICK t2 \in Seq(Entries) : t2 = t1 \o b
    BY ONLY <1>11, t1 \in Seq(Entries), Glued
  <2>6. \A u \in Seq(Entries) : u \o <<>> = u
    BY ONLY <1>11, Glued
  <2>7. Drawn(s, term[s], LinesOf(s, t))
    BY ONLY <1>10, <2>1, <2>2
  <2>8. Drawn(s, ts1[s], LinesOf(s, t1))
    <3>1. CASE stamped
      <4>1. ts1 = Stamped(term, junk) /\ t1 = t \o Said(Timestamp, 0)
        BY ONLY <1>3, <1>6, <2>4, <3>1
      <4>2. Drawn(s, Stamped(term, junk)[s], LinesOf(s, t \o Said(Timestamp, 0)))
        BY <1>15, <2>7, StampDraws
      <4> QED BY ONLY <4>1, <4>2
    <3>2. CASE ~stamped
      <4>1. ts1 = term /\ a = <<>>
        BY ONLY <1>3, <1>6, <3>2
      <4>2. t1 = t
        BY ONLY <2>4, <2>6, <4>1, t \in Seq(Entries)
      <4> QED BY ONLY <2>7, <4>1, <4>2
    <3> QED BY <3>1, <3>2
  <2>9. Drawn(s, ts2[s], LinesOf(s, t2))
    <3>1. CASE shown
      <4>1. ts2 = Logged(ts1, lvl, msg, junk, dies) /\ t2 = t1 \o Said(Kvprintf(msg), lvl)
        BY ONLY <1>4, <1>7, <2>5, <3>1
      <4>2. Drawn(s, Logged(ts1, lvl, msg, junk, dies)[s], LinesOf(s, t1 \o Said(Kvprintf(msg), lvl)))
        BY <1>15, <2>8, MessageDraws
      <4> QED BY ONLY <4>1, <4>2
    <3>2. CASE ~shown
      <4>1. ts2 = ts1 /\ b = <<>>
        BY ONLY <1>4, <1>7, <3>2
      <4>2. t2 = t1
        BY ONLY <2>5, <2>6, <4>1, t1 \in Seq(Entries)
      <4> QED BY ONLY <2>8, <4>1, <4>2
    <3> QED BY <3>1, <3>2
  <2>10. Drawn(s, ts3[s], LinesOf(s, t2 \o c))
    <3>1. CASE ended
      <4>1. ts3 = KstdioWrite(ts2, <<Newline>>, junk) /\ c = Said(<<Newline>>, 0)
        BY ONLY <1>5, <1>8, <3>1
      <4>2. Drawn(s, KstdioWrite(ts2, <<Newline>>, junk)[s], LinesOf(s, t2 \o Said(<<Newline>>, 0)))
        BY <1>15, <2>9, EndDraws
      <4> QED BY ONLY <4>1, <4>2
    <3>2. CASE ~ended
      <4>1. ts3 = ts2 /\ c = <<>>
        BY ONLY <1>5, <1>8, <3>2
      <4>2. t2 \o c = t2
        BY ONLY <2>6, <4>1, t2 \in Seq(Entries)
      <4> QED BY ONLY <2>9, <4>1, <4>2
    <3> QED BY <3>1, <3>2
  <2> QED BY ONLY <2>3, <2>4, <2>5, <2>10
<1>16. \A s \in Terminals : Still(s) \/ Listens(s)
  BY DEF Still, Listens, Follows
<1>17. \A s \in Terminals : Shape(term'[s])
  BY <1>9, <1>14, <1>15, <1>16 DEF Same, Drawn
<1>18. \A s \in Terminals \ mains' : term'[s].cells = EmptyScreen(s)
  <2>1. \A s \in Terminals \ mains : Still(s)
    BY <1>10 DEF Still
  <2> QED BY <1>9, <1>10, <1>14, <2>1 DEF Same
<1>19. ASSUME NEW s \in Terminals \cap ToSet(sinks)
       PROVE  Drawn(s, term'[s], LinesOf(s, text'[s]))
  <2>1. CASE Still(s)
    <3>1. Same(term[s], term'[s]) /\ text'[s] = text[s]
      BY <1>9, <1>14, <2>1
    <3>2. Drawn(s, term[s], LinesOf(s, text[s]))
      BY <1>10
    <3> QED BY <3>1, <3>2, SameKeepsDrawn
  <2>2. CASE Listens(s)
    BY <1>9, <1>15, <2>2
  <2> QED BY <1>16, <2>1, <2>2
<1> QED BY <1>9, <1>10, <1>12, <1>13, <1>17, <1>18, <1>19 DEF ConsoleInv

\* What registering adds to the table of sinks.
LEMMA ElementsOf ==
    ASSUME NEW x \in Terminals \cup RawSinks, sinks \in Seq(Terminals \cup RawSinks)
    PROVE  Append(sinks, x) \in Seq(Terminals \cup RawSinks) /\ ToSet(Append(sinks, x)) = ToSet(sinks) \cup {x}
<1>1. PICK S : S = Terminals \cup RawSinks
  OBVIOUS
<1>2. PICK q \in Seq(S) : q = sinks
  BY <1>1
<1>3. PICK n \in Nat : n = Len(q)
  OBVIOUS
<1>4. PICK r : r = Append(q, x)
  OBVIOUS
<1>5. r \in Seq(S) /\ DOMAIN r = 1 .. n + 1 /\ r[n + 1] = x /\ (\A i \in 1 .. n : r[i] = q[i]) /\ DOMAIN q = 1 .. n
  BY <1>1, <1>3, <1>4
<1>6. \A i : i \in 1 .. n + 1 <=> i \in 1 .. n \/ i = n + 1
  BY ONLY n \in Nat
<1>7. ToSet(r) = ToSet(q) \cup {x}
  <2>1. \A y : y \in ToSet(r) <=> \E i \in 1 .. n + 1 : r[i] = y
    BY ONLY <1>5 DEF ToSet
  <2>2. \A y : y \in ToSet(q) <=> \E i \in 1 .. n : q[i] = y
    BY ONLY <1>5 DEF ToSet
  <2>3. \A y : y \in ToSet(r) <=> y \in ToSet(q) \/ y = x
    BY ONLY <1>5, <1>6, <2>1, <2>2
  <2> QED BY ONLY <2>3
<1> QED BY ONLY <1>1, <1>2, <1>4, <1>5, <1>7

LEMMA RegisterKeepsText ==
    ASSUME ConsoleInv, NEW s \in Terminals \cup RawSinks, RegisterSink(s)
    PROVE  ConsoleInv'
<1>1. /\ s \notin mains /\ sinks' = Append(sinks, s) /\ mains' = mains \cup {s}
      /\ IF s \in Terminals THEN /\ term' = [term EXCEPT ![s] = SinkInit(s)]
                                 /\ text' = [text EXCEPT ![s] = <<>>]
                            ELSE term' = term /\ text' = text
  BY DEF RegisterSink
<1>2. /\ DOMAIN term = Terminals /\ (\A x \in Terminals : Shape(term[x]))
      /\ text \in [Terminals -> Seq(Entries)]
      /\ sinks \in Seq(Terminals \cup RawSinks) /\ ToSet(sinks) \subseteq mains
      /\ \A x \in Terminals \ mains : term[x].cells = EmptyScreen(x)
      /\ \A x \in Terminals \cap ToSet(sinks) : Drawn(x, term[x], LinesOf(x, text[x]))
  BY DEF ConsoleInv
<1>3. sinks' \in Seq(Terminals \cup RawSinks) /\ ToSet(sinks') = ToSet(sinks) \cup {s}
  BY <1>1, <1>2, ElementsOf
<1>4. ToSet(sinks') \subseteq mains'
  BY ONLY <1>1, <1>2, <1>3
<1>5. CASE s \notin Terminals
  <2>1. term' = term /\ text' = text
    BY ONLY <1>1, <1>5
  <2>2. Terminals \cap ToSet(sinks') = Terminals \cap ToSet(sinks) /\ Terminals \ mains' = Terminals \ mains
    BY ONLY <1>1, <1>3, <1>5
  <2> QED BY <1>2, <1>3, <1>4, <2>1, <2>2 DEF ConsoleInv
<1>6. CASE s \in Terminals
  <2>1. PICK t : t = term[s]
    OBVIOUS
  <2>2. PICK u : u = SinkInit(s)
    OBVIOUS
  <2>3. Shape(t) /\ t.cells = EmptyScreen(s)
    BY ONLY <1>1, <1>2, <1>6, <2>1
  <2>4. PICK K : K = EmptyScreen(s)
    OBVIOUS
  <2>5. u = [t EXCEPT !.cells = K, !.row = 0, !.col = 0] \/ u = [t EXCEPT !.row = 0, !.col = 0, !.fg = "white"]
    BY ONLY <2>1, <2>2, <2>4 DEF SinkInit, VgaInit, FbInit
  <2>6. Shape(u) /\ u.cells = K /\ u.row = 0 /\ u.col = 0
    <3>1. CASE u = [t EXCEPT !.cells = K, !.row = 0, !.col = 0]
      BY ONLY <2>3, <2>4, <3>1 DEF Shape
    <3>2. CASE u = [t EXCEPT !.row = 0, !.col = 0, !.fg = "white"]
      BY ONLY <2>3, <2>4, <3>2 DEF Shape
    <3> QED BY ONLY <2>5, <3>1, <3>2
  <2>7. Drawn(s, u, LinesOf(s, <<>>))
    BY <1>6, <2>4, <2>6, BlankDrawn
  <2>8. term' = [term EXCEPT ![s] = u] /\ text' = [text EXCEPT ![s] = <<>>]
    BY ONLY <1>1, <1>6, <2>2
  <2>9. DOMAIN term' = Terminals /\ term'[s] = u /\ \A x \in Terminals : x # s => term'[x] = term[x]
    BY ONLY <1>2, <1>6, <2>8
  <2>10. text' \in [Terminals -> Seq(Entries)] /\ text'[s] = <<>> /\ \A x \in Terminals : x # s => text'[x] = text[x]
    <3>1. <<>> \in Seq(Entries)
      OBVIOUS
    <3> QED BY ONLY <1>2, <1>6, <2>8, <3>1
  <2>11. \A x \in Terminals : Shape(term'[x])
    BY ONLY <1>2, <2>6, <2>9
  <2>12. \A x \in Terminals \ mains' : term'[x].cells = EmptyScreen(x)
    BY ONLY <1>1, <1>2, <2>9
  <2>13. ASSUME NEW x \in Terminals \cap ToSet(sinks')
         PROVE  Drawn(x, term'[x], LinesOf(x, text'[x]))
    <3>1. CASE x = s
      BY ONLY <2>7, <2>9, <2>10, <3>1
    <3>2. CASE x # s
      <4>1. x \in Terminals \cap ToSet(sinks)
        BY ONLY <1>3, <3>2, x \in Terminals \cap ToSet(sinks')
      <4> QED BY ONLY <1>2, <2>9, <2>10, <3>2, <4>1
    <3> QED BY <3>1, <3>2
  <2> QED BY ONLY <1>3, <1>4, <2>9, <2>10, <2>11, <2>12, <2>13 DEF ConsoleInv
<1> QED BY <1>5, <1>6

LEMMA UnregisterKeepsText ==
    ASSUME ConsoleInv, NEW s, UnregisterSink(s)
    PROVE  ConsoleInv'
<1>1. PICK k \in DOMAIN sinks : sinks' = RemoveAt(sinks, k)
  BY DEF UnregisterSink
<1>2. PICK S : S = Terminals \cup RawSinks
  OBVIOUS
<1>3. sinks \in Seq(S)
  BY <1>2 DEF ConsoleInv
<1>4. PICK q \in Seq(S) : q = sinks
  BY <1>3
<1>5. PICK r : r = sinks'
  OBVIOUS
<1>6. Shifted(S, q, k, r)
  <2>1. k \in 1 .. Len(q)
    BY <1>4
  <2> QED BY <1>1, <1>4, <1>5, <2>1, RemoveAtPlaces
<1>7. r \in Seq(S) /\ \A i \in DOMAIN r : \E j \in 1 .. Len(q) : r[i] = q[j]
  BY ONLY <1>6 DEF Shifted
<1>8. ToSet(r) \subseteq ToSet(q)
  <2>1. DOMAIN q = 1 .. Len(q)
    BY ONLY q \in Seq(S)
  <2> QED BY ONLY <1>7, <2>1 DEF ToSet
<1>9. mains' = mains /\ term' = term /\ text' = text
  BY DEF UnregisterSink
<1>10. /\ DOMAIN term = Terminals /\ (\A x \in Terminals : Shape(term[x]))
       /\ text \in [Terminals -> Seq(Entries)]
       /\ ToSet(sinks) \subseteq mains
       /\ \A x \in Terminals \ mains : term[x].cells = EmptyScreen(x)
       /\ \A x \in Terminals \cap ToSet(sinks) : Drawn(x, term[x], LinesOf(x, text[x]))
  BY DEF ConsoleInv
<1>11. sinks' \in Seq(Terminals \cup RawSinks) /\ ToSet(sinks') \subseteq ToSet(sinks)
  BY ONLY <1>2, <1>4, <1>5, <1>7, <1>8
<1>12. ToSet(sinks') \subseteq mains'
  BY ONLY <1>9, <1>10, <1>11
<1>13. \A x \in Terminals \cap ToSet(sinks') : Drawn(x, term'[x], LinesOf(x, text'[x]))
  BY ONLY <1>9, <1>10, <1>11
<1> QED BY ONLY <1>9, <1>10, <1>11, <1>12, <1>13 DEF ConsoleInv

LEMMA ConsoleRests ==
    ASSUME ConsoleInv, UNCHANGED <<sinks, mains, term, text>>
    PROVE  ConsoleInv'
<1>1. sinks' = sinks /\ mains' = mains /\ term' = term /\ text' = text
  OBVIOUS
<1> QED BY ONLY <1>1, ConsoleInv DEF ConsoleInv

LEMMA ConsoleKeeps == ConsoleInv /\ (ConsoleNext \/ UNCHANGED consoleVars) => ConsoleInv'
<1> SUFFICES ASSUME ConsoleInv, ConsoleNext \/ UNCHANGED consoleVars PROVE ConsoleInv'
  OBVIOUS
<1>1. ASSUME NEW s \in Terminals \cup RawSinks, RegisterSink(s) PROVE ConsoleInv'
  BY <1>1, RegisterKeepsText
<1>2. ASSUME NEW s \in Terminals \cup RawSinks, TableFull(s) PROVE ConsoleInv'
  BY <1>2, ConsoleRests DEF TableFull, consoleVars
<1>3. ASSUME NEW s \in Terminals \cup RawSinks, UnregisterSink(s) PROVE ConsoleInv'
  BY <1>3, UnregisterKeepsText
<1>4. CASE SerialPortFails \/ NoFramebuffer \/ UNCHANGED consoleVars
  BY <1>4, ConsoleRests DEF SerialPortFails, NoFramebuffer, consoleVars
<1>5. CASE OpenFramebuffer
  BY <1>5, ConsoleRests DEF OpenFramebuffer
<1>6. CASE SetShowTs
  BY <1>6, ConsoleRests DEF SetShowTs
<1>7. ASSUME NEW lvl \in LogLevels, NEW msg \in Messages, NEW newline \in BOOLEAN, NEW junk \in Junk,
             NEW dies \in BOOLEAN, Klog(lvl, msg, newline, junk, dies)
      PROVE  ConsoleInv'
  BY <1>7, KlogKeeps
<1> QED BY <1>1, <1>2, <1>3, <1>4, <1>5, <1>6, <1>7 DEF ConsoleNext

\* A registered terminal shows the last lines of the text logged since it was
\* registered, each message in its level's colour, and nothing else, however
\* writes, registrations and the taking over of the framebuffer interleave
\* (kstdio_write, kstdio_parse_ansi_sequence, vgasink and fbsink).
THEOREM TerminalsShowText == Spec => []ConsoleShowsText
<1>1. Init => ConsoleInv
  BY ConsoleInitial DEF Init
<1>2. ConsoleInv /\ [Next]_vars => ConsoleInv'
  <2> SUFFICES ASSUME ConsoleInv, [Next]_vars PROVE ConsoleInv'
    OBVIOUS
  <2>1. ConsoleNext \/ UNCHANGED consoleVars
    BY DEF Next, vars
  <2> QED BY <2>1, ConsoleKeeps
<1>3. ConsoleInv => ConsoleShowsText
  BY ConsoleInvImplies
<1> QED BY <1>1, <1>2, <1>3, PTL DEF Spec
=============================================================================
