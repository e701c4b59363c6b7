----------------------------- MODULE TimerProofs -----------------------------
(***************************************************************************)
(* Theorems about the timer and the kernel's tick, for every rate, width   *)
(* and latch that TimerUnitAssumption and TimerTickAssumption allow and    *)
(* whatever time passes between two register accesses.  The theorem about  *)
(* the kernel's clock and the one about the boot loader's state what they  *)
(* need of the rates besides.                                              *)
(***************************************************************************)
EXTENDS TimerTick, TLAPS

(* What holds of the channel between two accesses.                         *)
GoodChannel(c, t) ==
  /\ c \in Channel
  /\ c.time <= t
  /\ "half" \notin c.ter
  /\ c.full # Never <=> Enabled(c, "full")
  /\ c.half = Never

TimerInv == TimerTypeOK /\ GoodChannel(ch, now)

-----------------------------------------------------------------------------
(* The operators of the timer unit.                                        *)

(* The product of two naturals is a natural, and grows with its factors.   *)
LEMMA Products ==
  \A a, b, d \in Nat : a * d \in Nat /\ (a <= b => a * d <= b * d)
<1>1. SUFFICES ASSUME NEW a \in Nat, NEW b \in Nat, NEW d \in Nat
               PROVE  a * d \in Nat /\ (a <= b => a * d <= b * d)
  OBVIOUS
<1>2. a * d \in Nat
  BY SMT
<1>3. a <= b => a * d <= b * d
  BY SMT
<1>4. QED
  BY <1>2, <1>3

(* Channels with the same registers, but for the counter and its time.     *)
SameRegisters(c, d) ==
  /\ d.tsr = c.tsr /\ d.ter = c.ter /\ d.tfr = c.tfr /\ d.tmr = c.tmr
  /\ d.tdfr = c.tdfr /\ d.tdhr = c.tdhr /\ d.step = c.step
  /\ d.full = c.full /\ d.half = c.half

(* Counts are naturals, and their length fits in the time that passed.     *)
LEMMA CountedBounded ==
  ASSUME NEW c \in Channel, NEW t \in Nat, c.time <= t
  PROVE  /\ Counted(c, t) \in Nat
         /\ Counted(c, t) * SyncStep <= t - c.time
<1> DEFINE gap == t - c.time
<1>1. gap \in Nat /\ SyncStep \in Nat \ {0}
  BY TimerUnitAssumption DEF Channel
<1>2. (gap \div SyncStep) \in Nat /\ (gap \div SyncStep) * SyncStep <= gap
  <2> HIDE DEF gap
  <2> QED BY <1>1, SMT
<1>3. QED
  BY <1>2 DEF Counted

(* time_sync keeps the type, moves the time of the last update to no later *)
(* than now, and changes nothing but the counter and that time.            *)
LEMMA SyncedOK ==
  ASSUME NEW c \in Channel, NEW t \in Nat, c.time <= t
  PROVE  LET s == Synced(c, t)
         IN  /\ s \in Channel /\ s.time <= t
             /\ SameRegisters(c, s)
<1>1. Counted(c, t) \in Nat
  BY CountedBounded
<1>2. 0 \in Register /\ Wrapped(c.tcnt + Counted(c, t)) \in Register
  BY <1>1, TimerUnitAssumption DEF Channel, Register, Wrapped
<1>3. CASE ~Enabled(c, "full")
  BY <1>3 DEF Synced, SameRegisters
<1>4. CASE Enabled(c, "full") /\ c.time = 0
  <2>1. Synced(c, t) = [c EXCEPT !.time = t, !.tcnt = 0]
    BY <1>4 DEF Synced
  <2>2. [c EXCEPT !.time = t, !.tcnt = 0] \in Channel
    BY <1>2 DEF Channel
  <2>3. QED
    BY <2>1, <2>2 DEF Channel, SameRegisters
<1>5. CASE Enabled(c, "full") /\ c.time # 0
  <2> DEFINE n == Wrapped(c.tcnt + Counted(c, t))
             u == IF Counted(c, t) = 0 THEN c.time ELSE t
  <2>1. Synced(c, t) = [c EXCEPT !.tcnt = n, !.time = u]
    BY <1>5 DEF Synced
  <2>2. n \in Register /\ u \in Nat /\ u <= t
    BY <1>2 DEF Channel
  <2> HIDE DEF n, u
  <2>3. [c EXCEPT !.tcnt = n, !.time = u] \in Channel
    BY <2>2 DEF Channel
  <2>4. QED
    BY <2>1, <2>2, <2>3 DEF Channel, SameRegisters
<1>6. QED
  BY <1>3, <1>4, <1>5

(* An expiry is a time.                                                    *)
LEMMA ExpiryOK ==
  ASSUME NEW c \in Channel, NEW t \in Nat, NEW n \in Register
  PROVE  Expiry(c, n, t) \in Nat
<1>1. (n - c.tcnt) % Word \in Nat
  BY TimerUnitAssumption DEF Channel, Register
<1>2. ((n - c.tcnt) % Word) * c.step \in Nat
  BY <1>1, Products DEF Channel
<1>3. QED
  BY <1>2 DEF Expiry

(* start_half never arms a timer.                                          *)
LEMMA StartHalfOff ==
  ASSUME NEW c \in Channel, NEW t, "half" \notin c.ter
  PROVE  StartHalf(c, t) = [c EXCEPT !.half = Never]
BY DEF StartHalf, Enabled

(* start_full arms the timer exactly if the channel runs.                  *)
LEMMA StartFullOK ==
  ASSUME NEW c \in Channel, NEW t \in Nat, c.time <= t, "half" \notin c.ter,
         c.half = Never
  PROVE  GoodChannel(StartFull(c, t), t)
<1> DEFINE s == Synced(c, t)
<1>1. CASE Enabled(c, "full")
  <2>1. /\ s \in Channel /\ s.time <= t
        /\ SameRegisters(c, s)
    BY SyncedOK
  <2>2. Expiry(s, s.tdfr, t) \in Nat
    BY <2>1, ExpiryOK DEF Channel
  <2>3. StartFull(c, t) = [s EXCEPT !.full = Expiry(s, s.tdfr, t)]
    BY <1>1 DEF StartFull
  <2> HIDE DEF s
  <2>4. QED
    <3>1. [s EXCEPT !.full = Expiry(s, s.tdfr, t)] \in Channel
      BY <2>1, <2>2 DEF Channel
    <3>2. Expiry(s, s.tdfr, t) # Never
      BY <2>2 DEF Never
    <3>3. QED
      BY <1>1, <2>1, <2>3, <3>1, <3>2
         DEF GoodChannel, Enabled, Channel, SameRegisters
<1>2. CASE ~Enabled(c, "full")
  <2>1. StartFull(c, t) = [c EXCEPT !.full = Never]
    BY <1>2 DEF StartFull
  <2>2. [c EXCEPT !.full = Never] \in Channel
    BY DEF Channel
  <2>3. QED
    BY <1>2, <2>1, <2>2 DEF GoodChannel, Enabled, Channel
<1>3. QED
  BY <1>1, <1>2

LEMMA StartBothOK ==
  ASSUME NEW c \in Channel, NEW t \in Nat, c.time <= t, "half" \notin c.ter
  PROVE  GoodChannel(StartBoth(c, t), t)
<1>1. StartHalf(c, t) = [c EXCEPT !.half = Never]
  BY StartHalfOff
<1>2. StartHalf(c, t) \in Channel
  BY <1>1 DEF Channel
<1>3. QED
  BY <1>1, <1>2, StartFullOK DEF StartBoth, Channel

-----------------------------------------------------------------------------
(* Every step keeps the type and the channel good.                         *)

(* The steps of the script are register writes.                            *)
LEMMA ScriptOK == \A i \in 1 .. SetupIrq - 1 : Script[i] \in Write
<1>1. /\ BootStep \in Nat /\ TickStep \in Nat
      /\ 0 \in Register /\ Latch \in Register /\ CntSpan - 1 \in Register
  BY TimerUnitAssumption, TimerTickAssumption DEF Register
<1>2. QED
  BY <1>1 DEF Script, Write, W, Bits, SetupIrq

LEMMA WrittenOK ==
  ASSUME TimerInv, NEW w \in Write
  PROVE  GoodChannel(Written(w), now)
<1>1. ch \in Channel /\ now \in Nat /\ ch.time <= now /\ "half" \notin ch.ter
      /\ ch.half = Never /\ (ch.full # Never <=> Enabled(ch, "full"))
  BY DEF TimerInv, TimerTypeOK, GoodChannel
<1>2. CASE w.reg = "TCSR"
  <2>1. Written(w) = StartBoth([ch EXCEPT !.step = w.to], now)
    BY <1>2 DEF Written, WriteTcsr
  <2>2. QED
    BY <1>1, <1>2, <2>1, StartBothOK DEF Write, Channel
<1>3. CASE w.reg = "TCNT"
  <2>1. Written(w) = StartBoth([ch EXCEPT !.tcnt = w.to, !.time = now], now)
    BY <1>3 DEF Written, WriteTcnt
  <2>2. w.to \in Register
    BY <1>3 DEF Write
  <2> DEFINE d == [ch EXCEPT !.tcnt = w.to, !.time = now]
  <2>3. d \in Channel /\ d.time <= now /\ "half" \notin d.ter
    <3>1. d \in Channel
      BY <1>1, <2>2 DEF Channel
    <3>2. d.time = now /\ d.ter = ch.ter
      BY <1>1 DEF Channel
    <3>3. QED
      BY <1>1, <3>1, <3>2
  <2> HIDE DEF d
  <2>4. GoodChannel(StartBoth(d, now), now)
    BY <1>1, <2>3, StartBothOK
  <2>5. QED
    BY <2>1, <2>4 DEF d
<1>4. CASE w.reg = "TDHR"
  <2> DEFINE d == [ch EXCEPT !.tdhr = w.to]
  <2>1. d \in Channel /\ "half" \notin d.ter
    BY <1>1, <1>4 DEF Write, Channel
  <2>2. Written(w) = StartHalf(d, now)
    BY <1>4 DEF Written, WriteTdhr
  <2>3. StartHalf(d, now) = [d EXCEPT !.half = Never]
    <3> HIDE DEF d
    <3> QED BY <2>1, StartHalfOff
  <2>4. [d EXCEPT !.half = Never] \in Channel
    <3> HIDE DEF d
    <3> QED BY <2>1 DEF Channel
  <2>5. QED
    BY <1>1, <2>1, <2>2, <2>3, <2>4 DEF GoodChannel, Enabled, Channel
<1>5. CASE w.reg = "TDFR"
  <2>1. Written(w) = StartFull([ch EXCEPT !.tdfr = w.to], now)
    BY <1>5 DEF Written, WriteTdfr
  <2>2. QED
    BY <1>1, <1>5, <2>1, StartFullOK DEF Write, Channel
<1>6. CASE w.reg \in {"TMSR", "TMCR"}
  <2>1. PICK m \in SUBSET Bits : Written(w) = [ch EXCEPT !.tmr = m]
    BY <1>1, <1>6 DEF Written, WriteTmsr, WriteTmcr, Write, Channel
  <2>2. [ch EXCEPT !.tmr = m] \in Channel
    BY <1>1 DEF Channel
  <2>3. QED
    BY <1>1, <2>1, <2>2 DEF GoodChannel, Enabled, Channel
<1>7. CASE w.reg = "TSCR"
  <2>1. Written(w) = StartBoth([ch EXCEPT !.tsr = @ \ w.to], now)
    BY <1>7 DEF Written, WriteTscr
  <2>2. QED
    BY <1>1, <1>7, <2>1, StartBothOK DEF Write, Channel
<1>8. CASE w.reg = "TESR"
  <2>1. Written(w) =
          StartBoth([ch EXCEPT !.ter = @ \union (w.to \intersect {"full"})], now)
    BY <1>8 DEF Written, WriteTesr
  <2>2. QED
    BY <1>1, <1>8, <2>1, StartBothOK DEF Write, Channel, Bits
<1>9. QED
  BY <1>2, <1>3, <1>4, <1>5, <1>6, <1>7, <1>8 DEF Write
LEMMA SyncedGood ==
  ASSUME NEW c, NEW t \in Nat, GoodChannel(c, t)
  PROVE  GoodChannel(Synced(c, t), t)
<1> DEFINE s == Synced(c, t)
<1>1. s \in Channel /\ s.time <= t /\ SameRegisters(c, s)
  BY SyncedOK DEF GoodChannel
<1> HIDE DEF s
<1>2. GoodChannel(s, t)
  BY <1>1 DEF GoodChannel, SameRegisters, Enabled
<1>3. QED
  BY <1>2 DEF s

(* The callback leaves the timer armed if the channel still runs.          *)
LEMMA MatchGood ==
  ASSUME NEW c, NEW t \in Nat, GoodChannel(c, t)
  PROVE  GoodChannel(FullMatch([c EXCEPT !.full = Never], t), t)
<1> DEFINE d == [c EXCEPT !.full = Never]
<1>1. d \in Channel /\ d.time <= t /\ "half" \notin d.ter /\ d.half = Never
      /\ d.full = Never
  BY DEF GoodChannel, Channel
<1>2. t + d.tdfr * d.step \in Nat
  BY <1>1, Products DEF Channel, Register
<1>3. 0 \in Register
  BY TimerUnitAssumption DEF Register
<1> HIDE DEF d
<1>4. GoodChannel(FullMatch(d, t), t)
  <2>1. CASE Enabled(d, "full")
    <3> DEFINE e == [d EXCEPT !.full = t + d.tdfr * d.step,
                              !.tfr = d.tfr \union {"full"}, !.tcnt = 0, !.time = t]
    <3>1. FullMatch(d, t) = e
      BY <2>1 DEF FullMatch
    <3>2. e \in Channel
      BY <1>1, <1>2, <1>3 DEF Channel, Bits
    <3>3. /\ e.full = t + d.tdfr * d.step /\ e.time = t
          /\ e.tsr = d.tsr /\ e.ter = d.ter /\ e.step = d.step
          /\ e.half = d.half
      BY <1>1 DEF Channel
    <3> HIDE DEF e
    <3>4. e.full # Never
      BY <1>2, <3>3 DEF Never
    <3>5. QED
      BY <1>1, <2>1, <3>1, <3>2, <3>3, <3>4 DEF GoodChannel, Enabled
  <2>2. CASE ~Enabled(d, "full")
    <3>1. FullMatch(d, t) = [d EXCEPT !.full = Never]
      BY <2>2 DEF FullMatch
    <3>2. [d EXCEPT !.full = Never] = d
      BY <1>1 DEF Channel
    <3>3. QED
      BY <1>1, <2>2, <3>1, <3>2 DEF GoodChannel
  <2>3. QED
    BY <2>1, <2>2
<1>5. QED
  BY <1>4 DEF d

-----------------------------------------------------------------------------
(* The first invariant: types, and a host timer armed when it should be.   *)

LEMMA TimerInvInit == Init => TimerInv
<1>1. ResetChannel \in Channel
  <2>1. CntSpan \div 2 \in Register /\ 0 \in Register /\ CntSpan - 1 \in Register
    BY TimerUnitAssumption DEF Register
  <2>2. QED
    BY <2>1 DEF ResetChannel, Channel
<1>2. GoodChannel(ResetChannel, 1)
  BY <1>1 DEF GoodChannel, ResetChannel, Enabled
<1>3. ASSUME Init
      PROVE  TimerTypeOK
  <2>1. /\ now \in Nat /\ jiffies \in Nat /\ cycle_last \in Nat /\ begun \in Nat
        /\ pc \in 1 .. Running /\ loader \in [lastdec : Register, timestamp : Nat]
    BY <1>3, TimerUnitAssumption DEF Init, Running, TimerZero, Register
  <2>2. ch \in Channel /\ {masked, pending} \subseteq BOOLEAN
    BY <1>1, <1>3 DEF Init
  <2>3. QED
    BY <1>3, <2>1, <2>2 DEF Init, TimerTypeOK
<1>4. QED
  BY <1>2, <1>3 DEF Init, TimerInv

LEMMA TimerInvNext == TimerInv /\ [Next]_vars => TimerInv'
<1> SUFFICES ASSUME TimerInv, [Next]_vars
             PROVE  TimerInv'
  OBVIOUS
<1>1. TimerTypeOK /\ now \in Nat /\ GoodChannel(ch, now)
  BY DEF TimerInv, TimerTypeOK
<1> USE DEF Running, SetupIrq
<1>2. CASE Pass
  <2>1. GoodChannel(ch, now + 1)
    BY <1>1 DEF GoodChannel, Channel
  <2>2. QED
    BY <1>1, <1>2, <2>1 DEF Pass, TimerInv, TimerTypeOK, kernelVars, bootVars
<1>3. CASE Match
  <2>1. GoodChannel(ch', now)
    BY <1>1, <1>3, MatchGood DEF Match
  <2>2. pending' \in BOOLEAN
    BY <1>1, <1>3 DEF Match, SetLine, TimerTypeOK
  <2>3. QED
    BY <1>1, <1>3, <2>1, <2>2
       DEF Match, TimerInv, TimerTypeOK, kernelVars, bootVars, GoodChannel
<1>4. CASE SetUp
  <2>1. Script[pc] \in Write
    BY <1>1, <1>4, ScriptOK DEF SetUp, TimerTypeOK
  <2>2. GoodChannel(ch', now)
    BY <1>4, <2>1, WrittenOK DEF SetUp
  <2>3. pending' \in BOOLEAN
    BY <1>1, <1>4 DEF SetUp, SetLine, TimerTypeOK
  <2>4. loader' \in [lastdec : Register, timestamp : Nat] /\ begun' \in Nat
    BY <1>1, <1>4, TimerUnitAssumption
       DEF SetUp, TimerTypeOK, TimerZero, Register
  <2>5. QED
    BY <1>1, <1>4, <2>2, <2>3, <2>4
       DEF SetUp, TimerInv, TimerTypeOK, kernelVars, GoodChannel
<1>5. CASE Unmask
  <2>1. GoodChannel(ch', now')
    BY <1>1, <1>5 DEF Unmask
  <2>2. {masked', pending'} \subseteq BOOLEAN
    BY <1>1, <1>5 DEF Unmask, TimerTypeOK
  <2>3. QED
    BY <1>1, <1>5, <2>1, <2>2 DEF Unmask, TimerInv, TimerTypeOK, kernelVars, bootVars
<1>6. CASE ReadCounter
  <2>1. GoodChannel(ch', now)
    BY <1>1, <1>6, SyncedGood DEF ReadCounter
  <2>2. QED
    BY <1>1, <1>6, <2>1
       DEF ReadCounter, TimerInv, TimerTypeOK, kernelVars, bootVars, GoodChannel
<1>7. CASE Interrupt
  BY <1>1, <1>7 DEF Interrupt, bootVars, TimerInv, TimerTypeOK
<1>8. CASE Ack
  <2>1. GoodChannel(ch', now)
    <3>1. [ch EXCEPT !.tfr = ch.tfr \ {"full"}] \in Channel
      BY <1>1 DEF GoodChannel, Channel
    <3>2. ch' = [ch EXCEPT !.tfr = ch.tfr \ {"full"}]
      BY <1>8 DEF Ack, WriteTfcr
    <3>3. QED
      BY <1>1, <3>1, <3>2 DEF GoodChannel, Enabled, Channel
  <2>2. QED
    BY <1>1, <1>8, <2>1 DEF Ack, bootVars, TimerInv, TimerTypeOK, GoodChannel
<1>9. CASE Tick
  BY <1>1, <1>9 DEF Tick, bootVars, TimerInv, TimerTypeOK
<1>10. CASE UpdateWallTime
  <2>1. GoodChannel(ch', now)
    BY <1>1, <1>10, SyncedGood DEF UpdateWallTime
  <2>2. cycle_last' \in Nat
    <3>1. Behind(ch') \in Nat
      BY <1>1, <2>1, TimerTickAssumption
         DEF Behind, Cycles, GoodChannel, Channel, Register, TimerTypeOK
    <3>2. Behind(ch') \div Latch \in Nat /\ Latch \in Nat
      BY <3>1, TimerTickAssumption, TimerUnitAssumption
    <3>3. QED
      BY <1>1, <1>10, <3>2, Products DEF UpdateWallTime, TimerTypeOK
  <2>3. QED
    BY <1>1, <1>10, <2>1, <2>2
       DEF UpdateWallTime, bootVars, TimerInv, TimerTypeOK, GoodChannel
<1>11. CASE ChangeClock
  <2>1. GoodChannel(ch', now)
    BY <1>1, <1>11, SyncedGood DEF ChangeClock
  <2>2. cycle_last' \in Nat
    <3>1. Cycles(ch') \in Nat
      BY <1>1, <2>1, Products, TimerTickAssumption, TimerUnitAssumption
         DEF Cycles, GoodChannel, Channel, Register, TimerTypeOK
    <3>2. QED
      BY <1>1, <1>11, <3>1 DEF ChangeClock, TimerTypeOK
  <2>3. QED
    BY <1>1, <1>11, <2>1, <2>2
       DEF ChangeClock, bootVars, TimerInv, TimerTypeOK, GoodChannel
<1>12. CASE End
  BY <1>1, <1>12 DEF End, bootVars, TimerInv, TimerTypeOK
<1>13. CASE GetTimer \/ ResetTimer
  <2>1. GoodChannel(ch', now)
    BY <1>1, <1>13, SyncedGood DEF GetTimer, ResetTimer
  <2>2. ch'.tcnt \in Register /\ loader \in [lastdec : Register, timestamp : Nat]
    BY <1>1, <2>1 DEF GoodChannel, Channel, TimerTypeOK
  <2>3. Elapsed(ch'.tcnt) \in Nat
    BY <2>2, TimerUnitAssumption DEF Elapsed, Register
  <2>4. loader' \in [lastdec : Register, timestamp : Nat] /\ begun' \in Nat
    BY <1>1, <1>13, <2>2, <2>3 DEF GetTimer, ResetTimer, TimerTypeOK
  <2>5. QED
    BY <1>1, <1>13, <2>1, <2>4
       DEF GetTimer, ResetTimer, TimerInv, TimerTypeOK, kernelVars, GoodChannel
<1>14. CASE UNCHANGED vars
  BY <1>1, <1>14 DEF vars, TimerInv, TimerTypeOK
<1>15. QED
  BY <1>2, <1>3, <1>4, <1>5, <1>6, <1>7, <1>8, <1>9, <1>10, <1>11, <1>12,
     <1>13, <1>14 DEF Next

(* Every register, counter and clock has its type.                         *)
THEOREM TimerTypeCorrect == Spec => []TimerTypeOK
<1>1. TimerInv => TimerTypeOK
  BY DEF TimerInv
<1>2. QED
  BY <1>1, TimerInvInit, TimerInvNext, PTL DEF Spec

(* The host timer is armed exactly while the channel runs.                 *)
THEOREM TimersAlwaysArmed == Spec => []TimersArmed
<1>1. TimerInv => TimersArmed
  BY DEF TimerInv, GoodChannel, TimersArmed
<1>2. QED
  BY <1>1, TimerInvInit, TimerInvNext, PTL DEF Spec
-----------------------------------------------------------------------------
(* The second invariant: no tick is early.                                 *)

Period == Latch * TickStep

(* The counter is not ahead of the time since b.                           *)
NotAhead(c, b) == b <= c.time /\ c.tcnt * SyncStep <= c.time - b

(* A tick that is pending, or acknowledged and not yet in jiffies.         *)
Owed == IF pending \/ cpu \in {"ack", "tick"} THEN 1 ELSE 0
Claimed == jiffies + Owed

(* What the script has set up when it reaches pc.                          *)
SetUpInv ==
  /\ begun <= now
  /\ pc > ZeroCounter - 1 => ch.step = TickStep
  /\ pc > ZeroCounter => NotAhead(ch, begun)
  /\ pc > ZeroCounter + 2 => ch.tdfr = Latch
  /\ pc < Running => masked /\ cpu = "thread" /\ jiffies = 0

TickInv ==
  /\ masked => ~pending
  /\ cpu # "thread" => masked
  /\ Claimed * Period <= now - begun
  /\ pc >= SetupIrq /\ ch.full # Never =>
       begun + Claimed * Period + Period <= ch.full

EarlyInv == TimerInv /\ SetUpInv /\ TickInv

LEMMA PeriodOK == Period \in Nat /\ Latch \in Register /\ Latch \in Nat
<1>1. Latch \in Nat /\ TickStep \in Nat /\ Latch \in Register
  BY TimerUnitAssumption, TimerTickAssumption DEF Register
<1>2. QED
  BY <1>1, Products DEF Period

(* Bringing the counter up to date keeps it behind the time.               *)
LEMMA SyncedNotAhead ==
  ASSUME NEW c \in Channel, NEW t \in Nat, c.time <= t, NEW b \in Nat,
         NotAhead(c, b)
  PROVE  NotAhead(Synced(c, t), b)
<1> DEFINE k == Counted(c, t)
<1>1. k \in Nat /\ k * SyncStep <= t - c.time
  BY CountedBounded
<1>2. /\ SyncStep \in Nat /\ c.tcnt \in Nat /\ c.time \in Nat /\ b <= c.time
      /\ c.tcnt * SyncStep <= c.time - b
  BY TimerUnitAssumption DEF Channel, Register, NotAhead
<1> HIDE DEF k
<1>3. k * SyncStep \in Nat /\ c.tcnt * SyncStep \in Nat
  BY <1>1, <1>2, Products
<1>4. (c.tcnt + k) * SyncStep <= t - b
  <2>1. (c.tcnt + k) * SyncStep = c.tcnt * SyncStep + k * SyncStep
    BY <1>1, <1>2
  <2>2. QED
    BY <1>1, <1>2, <1>3, <2>1
<1>5. CASE ~Enabled(c, "full")
  BY <1>5 DEF Synced
<1>6. CASE Enabled(c, "full") /\ c.time = 0
  <2>1. Synced(c, t).tcnt = 0 /\ Synced(c, t).time = t
    BY <1>6 DEF Synced, Channel
  <2>2. 0 * SyncStep = 0
    BY <1>2
  <2>3. QED
    BY <1>2, <2>1, <2>2 DEF NotAhead
<1>7. CASE Enabled(c, "full") /\ c.time # 0
  <2>1. /\ Synced(c, t).tcnt = Wrapped(c.tcnt + k)
        /\ Synced(c, t).time = IF k = 0 THEN c.time ELSE t
    BY <1>7 DEF Synced, Channel, k
  <2>2. CASE Wrapped(c.tcnt + k) = 0
    <3>1. 0 * SyncStep = 0
      BY <1>2
    <3>2. QED
      BY <1>2, <2>1, <2>2, <3>1 DEF NotAhead
  <2>3. CASE Wrapped(c.tcnt + k) # 0 /\ k = 0
    BY <1>2, <2>1, <2>3 DEF NotAhead, Wrapped
  <2>4. CASE Wrapped(c.tcnt + k) # 0 /\ k # 0
    BY <1>2, <1>4, <2>1, <2>4 DEF NotAhead, Wrapped
  <2>5. QED
    BY <2>2, <2>3, <2>4
<1>8. QED
  BY <1>5, <1>6, <1>7

(* What StartFull and StartBoth leave alone, and the counter they leave.   *)
LEMMA StartKeeps ==
  ASSUME NEW c \in Channel, NEW t \in Nat, c.time <= t, "half" \notin c.ter
  PROVE  /\ StartFull(c, t).step = c.step /\ StartFull(c, t).tdfr = c.tdfr
         /\ StartBoth(c, t).step = c.step /\ StartBoth(c, t).tdfr = c.tdfr
         /\ \A b \in Nat : NotAhead(c, b) => /\ NotAhead(StartFull(c, t), b)
                                             /\ NotAhead(StartBoth(c, t), b)
<1>1. ASSUME NEW d \in Channel, d.time <= t
      PROVE  /\ StartFull(d, t).step = d.step /\ StartFull(d, t).tdfr = d.tdfr
             /\ \A b \in Nat : NotAhead(d, b) => NotAhead(StartFull(d, t), b)
  <2> DEFINE s == Synced(d, t)
  <2>1. s \in Channel /\ SameRegisters(d, s)
    BY <1>1, SyncedOK
  <2>2. \A b \in Nat : NotAhead(d, b) => NotAhead(s, b)
    BY <1>1, SyncedNotAhead
  <2>3. CASE Enabled(d, "full")
    <3>1. StartFull(d, t) = [s EXCEPT !.full = Expiry(s, s.tdfr, t)]
      BY <2>3 DEF StartFull
    <3> HIDE DEF s
    <3>2. QED
      BY <2>1, <2>2, <3>1 DEF SameRegisters, NotAhead, Channel
  <2>4. CASE ~Enabled(d, "full")
    <3>1. StartFull(d, t) = [d EXCEPT !.full = Never]
      BY <2>4 DEF StartFull
    <3>2. QED
      BY <1>1, <3>1 DEF NotAhead, Channel
  <2>5. QED
    BY <2>3, <2>4
<1>2. StartHalf(c, t) = [c EXCEPT !.half = Never]
  BY StartHalfOff
<1> DEFINE h == StartHalf(c, t)
<1>3. /\ h \in Channel /\ h.time = c.time /\ h.tcnt = c.tcnt
      /\ h.step = c.step /\ h.tdfr = c.tdfr
  BY <1>2 DEF Channel
<1>4. \A b \in Nat : NotAhead(c, b) => NotAhead(h, b)
  BY <1>3 DEF NotAhead
<1>5. StartBoth(c, t) = StartFull(h, t)
  BY DEF StartBoth
<1> HIDE DEF h
<1>6. QED
  BY <1>1, <1>3, <1>4, <1>5

(* The match that enabling the channel sets is a whole period after b.     *)
LEMMA FirstMatch ==
  ASSUME NEW c \in Channel, NEW t \in Nat, c.time <= t, "half" \notin c.ter,
         NEW b \in Nat, NotAhead(c, b), c.tdfr = Latch, c.step = TickStep,
         StartBoth(c, t).full # Never
  PROVE  b + Period <= StartBoth(c, t).full
<1> DEFINE h == StartHalf(c, t)
           s == Synced(h, t)
           n == Latch - s.tcnt
<1>1. /\ h \in Channel /\ h.time = c.time /\ h.tcnt = c.tcnt
      /\ h.step = TickStep /\ h.tdfr = Latch
  BY StartHalfOff DEF Channel
<1>2. NotAhead(h, b)
  BY <1>1 DEF NotAhead
<1>3. StartBoth(c, t) = StartFull(h, t)
  BY DEF StartBoth
<1> HIDE DEF h
<1>4. s \in Channel /\ s.time <= t /\ SameRegisters(h, s) /\ NotAhead(s, b)
  BY <1>1, <1>2, SyncedOK, SyncedNotAhead
<1>5. StartFull(h, t).full = Expiry(s, s.tdfr, t)
  <2>1. CASE Enabled(h, "full")
    BY <1>4, <2>1 DEF StartFull, Channel
  <2>2. CASE ~Enabled(h, "full")
    <3>1. StartFull(h, t).full = Never
      BY <1>1, <2>2 DEF StartFull, Channel
    <3>2. QED
      BY <1>3, <3>1
  <2>3. QED
    BY <2>1, <2>2
<1> HIDE DEF s
<1>6. /\ s.tdfr = Latch /\ s.step = TickStep /\ s.tcnt \in Register
      /\ s.tcnt \in Nat /\ s.time \in Nat
  BY <1>1, <1>4 DEF SameRegisters, Channel, Register
<1>7. StartFull(h, t).full = t + (n % Word) * TickStep
  BY <1>5, <1>6 DEF Expiry
<1>8. /\ n \in Int /\ n % Word \in Nat /\ n <= n % Word
  <2>1. n \in Int /\ n < Word
    BY <1>6, PeriodOK, TimerUnitAssumption DEF Register
  <2>2. CASE n >= 0
    <3>1. n % Word = n
      BY <2>1, <2>2, TimerUnitAssumption
    <3>2. QED
      BY <2>1, <2>2, <3>1
  <2>3. CASE n < 0
    BY <2>1, <2>3, TimerUnitAssumption
  <2>4. QED
    BY <2>1, <2>2, <2>3
<1> HIDE DEF n
<1>9. Latch <= (n % Word) + s.tcnt
  BY <1>6, <1>8, PeriodOK DEF n
<1> DEFINE m == n % Word
<1>10. m \in Nat /\ Latch <= m + s.tcnt
  BY <1>8, <1>9
<1>11. StartFull(h, t).full = t + m * TickStep
  BY <1>7
<1> HIDE DEF m
<1>12. TickStep \in Nat
  BY TimerTickAssumption
<1>13. Period <= m * TickStep + s.tcnt * TickStep
  <2>1. m + s.tcnt \in Nat
    BY <1>6, <1>10
  <2>2. Latch * TickStep <= (m + s.tcnt) * TickStep
    BY <1>10, <1>12, <2>1, PeriodOK, Products
  <2>3. (m + s.tcnt) * TickStep = m * TickStep + s.tcnt * TickStep
    BY <1>6, <1>10, <1>12
  <2>4. QED
    BY <2>2, <2>3 DEF Period
<1>14. s.tcnt * TickStep \in Nat /\ m * TickStep \in Nat
  BY <1>6, <1>10, <1>12, Products
<1>15. s.tcnt * TickStep <= t - b
  <2>1. SyncStep \in Nat /\ TickStep <= SyncStep
    BY TimerUnitAssumption, TimerTickAssumption
  <2>2. TickStep * s.tcnt <= SyncStep * s.tcnt /\ SyncStep * s.tcnt \in Nat
    BY <1>6, <1>12, <2>1, Products
  <2>3. s.tcnt * SyncStep <= s.time - b
    BY <1>4 DEF NotAhead
  <2>4. QED
    BY <1>4, <1>6, <1>12, <2>1, <2>2, <2>3
<1>16. QED
  BY <1>3, <1>11, <1>13, <1>14, <1>15, PeriodOK
(* What one register write of the script changes.                          *)
LEMMA WrittenKeeps ==
  ASSUME TimerInv, NEW w \in Write
  PROVE  /\ Written(w).step = IF w.reg = "TCSR" THEN w.to ELSE ch.step
         /\ Written(w).tdfr = IF w.reg = "TDFR" THEN w.to ELSE ch.tdfr
         /\ w.reg # "TCNT" =>
              \A b \in Nat : NotAhead(ch, b) => NotAhead(Written(w), b)
         /\ w.reg = "TCNT" /\ w.to = 0 => NotAhead(Written(w), now)
<1>1. ch \in Channel /\ now \in Nat /\ ch.time <= now /\ "half" \notin ch.ter
  BY DEF TimerInv, TimerTypeOK, GoodChannel
<1>2. CASE w.reg \in {"TCSR", "TSCR", "TESR"}
  <2> DEFINE d == IF w.reg = "TCSR" THEN [ch EXCEPT !.step = w.to]
                  ELSE IF w.reg = "TSCR" THEN [ch EXCEPT !.tsr = @ \ w.to]
                  ELSE [ch EXCEPT !.ter = @ \union (w.to \intersect {"full"})]
  <2>1. Written(w) = StartBoth(d, now)
    BY <1>2 DEF Written, WriteTcsr, WriteTscr, WriteTesr
  <2>2. /\ d \in Channel /\ d.time = ch.time /\ "half" \notin d.ter
        /\ d.tcnt = ch.tcnt /\ d.tdfr = ch.tdfr
        /\ d.step = IF w.reg = "TCSR" THEN w.to ELSE ch.step
    <3>1. CASE w.reg = "TCSR"
      BY <1>1, <3>1 DEF Write, Channel
    <3>2. CASE w.reg = "TSCR"
      BY <1>1, <3>2 DEF Write, Channel
    <3>3. CASE w.reg = "TESR"
      BY <1>1, <3>3 DEF Write, Channel, Bits
    <3>4. QED
      BY <1>2, <3>1, <3>2, <3>3
  <2> HIDE DEF d
  <2>3. \A b \in Nat : NotAhead(ch, b) => NotAhead(d, b)
    BY <2>2 DEF NotAhead
  <2>4. /\ StartBoth(d, now).step = d.step /\ StartBoth(d, now).tdfr = d.tdfr
        /\ \A b \in Nat : NotAhead(d, b) => NotAhead(StartBoth(d, now), b)
    BY <1>1, <2>2, StartKeeps
  <2>5. QED
    BY <1>2, <2>1, <2>2, <2>3, <2>4
<1>3. CASE w.reg = "TCNT"
  <2> DEFINE d == [ch EXCEPT !.tcnt = w.to, !.time = now]
  <2>1. Written(w) = StartBoth(d, now)
    BY <1>3 DEF Written, WriteTcnt
  <2>2. w.to \in Register
    BY <1>3 DEF Write
  <2>3. /\ d.time = now /\ d.ter = ch.ter /\ d.tcnt = w.to
        /\ d.tdfr = ch.tdfr /\ d.step = ch.step
    BY <1>1 DEF Channel
  <2>4. d \in Channel
    BY <1>1, <2>2 DEF Channel
  <2> HIDE DEF d
  <2>5. w.to = 0 => NotAhead(d, now)
    <3>1. 0 * SyncStep = 0
      BY TimerUnitAssumption
    <3>2. QED
      BY <1>1, <2>3, <3>1 DEF NotAhead
  <2>6. /\ StartBoth(d, now).step = d.step /\ StartBoth(d, now).tdfr = d.tdfr
        /\ \A b \in Nat : NotAhead(d, b) => NotAhead(StartBoth(d, now), b)
    BY <1>1, <2>3, <2>4, StartKeeps
  <2>7. QED
    BY <1>1, <1>3, <2>1, <2>3, <2>5, <2>6
<1>4. CASE w.reg = "TDHR"
  <2> DEFINE d == [ch EXCEPT !.tdhr = w.to]
  <2>1. d \in Channel /\ "half" \notin d.ter /\ d.tcnt = ch.tcnt
        /\ d.time = ch.time /\ d.step = ch.step /\ d.tdfr = ch.tdfr
    BY <1>1, <1>4 DEF Write, Channel
  <2>2. Written(w) = StartHalf(d, now)
    BY <1>4 DEF Written, WriteTdhr
  <2> HIDE DEF d
  <2>3. StartHalf(d, now) = [d EXCEPT !.half = Never]
    BY <2>1, StartHalfOff
  <2>4. QED
    BY <1>4, <2>1, <2>2, <2>3 DEF NotAhead, Channel
<1>5. CASE w.reg = "TDFR"
  <2> DEFINE d == [ch EXCEPT !.tdfr = w.to]
  <2>1. /\ d \in Channel /\ "half" \notin d.ter /\ d.tcnt = ch.tcnt
        /\ d.time = ch.time /\ d.step = ch.step /\ d.tdfr = w.to
    BY <1>1, <1>5 DEF Write, Channel
  <2>2. Written(w) = StartFull(d, now)
    BY <1>5 DEF Written, WriteTdfr
  <2> HIDE DEF d
  <2>3. \A b \in Nat : NotAhead(ch, b) => NotAhead(d, b)
    BY <2>1 DEF NotAhead
  <2>4. /\ StartFull(d, now).step = d.step /\ StartFull(d, now).tdfr = d.tdfr
        /\ \A b \in Nat : NotAhead(d, b) => NotAhead(StartFull(d, now), b)
    BY <1>1, <2>1, StartKeeps
  <2>5. QED
    BY <1>5, <2>1, <2>2, <2>3, <2>4
<1>6. CASE w.reg \in {"TMSR", "TMCR"}
  <2>1. PICK m \in SUBSET Bits : Written(w) = [ch EXCEPT !.tmr = m]
    BY <1>1, <1>6 DEF Written, WriteTmsr, WriteTmcr, Write, Channel
  <2>2. QED
    BY <1>1, <1>6, <2>1 DEF NotAhead, Channel
<1>7. QED
  BY <1>2, <1>3, <1>4, <1>5, <1>6 DEF Write

LEMMA EarlyInvInit == Init => EarlyInv
<1> SUFFICES ASSUME Init
             PROVE  EarlyInv
  OBVIOUS
<1>1. TimerInv
  BY TimerInvInit
<1>2. SetUpInv
  BY DEF Init, SetUpInv, ZeroCounter, Running
<1>3. Claimed = 0 /\ 0 * Period = 0
  BY PeriodOK DEF Init, Claimed, Owed
<1>4. TickInv
  BY <1>3 DEF Init, TickInv, SetupIrq
<1>5. QED
  BY <1>1, <1>2, <1>4 DEF EarlyInv
(* One more tick claimed is one more period.                               *)
LEMMA OneMore ==
  ASSUME NEW k \in Nat
  PROVE  /\ k * Period \in Nat
         /\ (k + 1) * Period = k * Period + Period
BY PeriodOK, Products

LEMMA SetUpKeeps ==
  ASSUME EarlyInv, SetUp
  PROVE  SetUpInv' /\ TickInv'
<1> USE DEF Running, SetupIrq, ZeroCounter, ClearCounter
<1> DEFINE w == Script[pc]
<1>1. pc \in 1 .. 15 /\ pc' = pc + 1 /\ now' = now /\ now \in Nat
      /\ begun \in Nat /\ cpu' = cpu /\ jiffies' = jiffies /\ masked' = masked
  BY DEF EarlyInv, TimerInv, TimerTypeOK, SetUp, kernelVars, bootVars
<1>2. w \in Write
  BY <1>1, ScriptOK
<1>3. ch' = Written(w)
  BY DEF SetUp
<1>4. /\ w.reg = "TCSR" <=> pc \in {1, 8}
      /\ w.reg = "TCNT" <=> pc \in {2, 9}
      /\ w.reg = "TDFR" <=> pc \in {4, 11}
      /\ pc = 8 => w.to = TickStep
      /\ pc = 9 => w.to = 0
      /\ pc = 11 => w.to = Latch
      /\ pc = 15 => w = W("TESR", {"full"})
  BY <1>1 DEF Script, W
<1> HIDE DEF w
<1>5. /\ ch'.step = IF w.reg = "TCSR" THEN w.to ELSE ch.step
      /\ ch'.tdfr = IF w.reg = "TDFR" THEN w.to ELSE ch.tdfr
      /\ w.reg # "TCNT" =>
           \A b \in Nat : NotAhead(ch, b) => NotAhead(ch', b)
      /\ w.reg = "TCNT" /\ w.to = 0 => NotAhead(ch', now)
  BY <1>2, <1>3, WrittenKeeps DEF EarlyInv
<1>6. /\ begun' = IF pc \in {2, 9} THEN now ELSE begun
      /\ begun <= now
      /\ masked /\ cpu = "thread" /\ jiffies = 0 /\ ~pending
  BY <1>1 DEF EarlyInv, SetUpInv, TickInv, SetUp
<1>7. SetUpInv'
  <2>1. begun' <= now' /\ (pc' > 8 => ch'.step = TickStep)
    BY <1>1, <1>4, <1>5, <1>6 DEF EarlyInv, SetUpInv
  <2>2. pc' > 9 => NotAhead(ch', begun')
    BY <1>1, <1>4, <1>5, <1>6 DEF EarlyInv, SetUpInv
  <2>3. pc' > 11 => ch'.tdfr = Latch
    BY <1>1, <1>4, <1>5 DEF EarlyInv, SetUpInv
  <2>4. NotAhead(ch', begun') => NotAhead(ch, begun)'
    BY DEF NotAhead
  <2>5. QED
    BY <1>1, <1>6, <2>1, <2>2, <2>3, <2>4 DEF SetUpInv
<1>8. ~pending'
  BY <1>6 DEF SetUp, SetLine
<1>9. Claimed' = 0 /\ 0 * Period = 0 /\ Period \in Nat
  BY <1>1, <1>6, <1>8, PeriodOK DEF Claimed, Owed
<1>10. pc' >= 16 /\ ch'.full # Never => begun' + Period <= ch'.full
  <2> SUFFICES ASSUME pc = 15, ch'.full # Never
               PROVE  begun + Period <= ch'.full
    BY <1>1, <1>6
  <2> DEFINE c == [ch EXCEPT !.ter = @ \union ({"full"} \intersect {"full"})]
  <2>1. ch' = StartBoth(c, now)
    BY <1>3, <1>4 DEF Written, WriteTesr, W
  <2>2. /\ ch \in Channel /\ "half" \notin ch.ter /\ ch.time <= now
        /\ NotAhead(ch, begun) /\ ch.tdfr = Latch /\ ch.step = TickStep
    BY DEF EarlyInv, SetUpInv, TimerInv, GoodChannel
  <2>3. /\ c \in Channel /\ "half" \notin c.ter /\ c.time <= now
        /\ NotAhead(c, begun) /\ c.tdfr = Latch /\ c.step = TickStep
    BY <2>2 DEF Channel, Bits, NotAhead
  <2> HIDE DEF c
  <2>4. QED
    BY <1>1, <2>1, <2>3, FirstMatch
<1>11. QED
  BY <1>1, <1>6, <1>7, <1>8, <1>9, <1>10 DEF TickInv

LEMMA MatchKeeps ==
  ASSUME EarlyInv, Match
  PROVE  SetUpInv' /\ TickInv'
<1> USE DEF Running, SetupIrq, ZeroCounter
<1> DEFINE d == [ch EXCEPT !.full = Never]
           e == FullMatch(d, now)
<1>1. /\ pc' = pc /\ now' = now /\ begun' = begun /\ masked' = masked
      /\ cpu' = cpu /\ jiffies' = jiffies /\ ch' = e
      /\ ch.full # Never /\ ch.full <= now
  BY DEF Match, kernelVars, bootVars, Due
<1>2. /\ ch \in Channel /\ Enabled(ch, "full") /\ now \in Nat /\ begun \in Nat
      /\ jiffies \in Nat /\ pc \in 1 .. 17 /\ begun <= now
      /\ masked \in BOOLEAN /\ pending \in BOOLEAN
  BY <1>1 DEF EarlyInv, SetUpInv, TimerInv, TimerTypeOK, GoodChannel
<1>3. /\ d \in Channel /\ Enabled(d, "full") /\ d.step = ch.step
      /\ d.tdfr = ch.tdfr
  BY <1>2 DEF Channel, Enabled
<1> HIDE DEF d
<1>4. /\ e.step = ch.step /\ e.tdfr = ch.tdfr /\ e.tcnt = 0 /\ e.time = now
      /\ e.full = now + ch.tdfr * ch.step
  BY <1>3 DEF FullMatch, Channel
<1> HIDE DEF e
<1>5. NotAhead(e, begun)
  <2>1. 0 * SyncStep = 0
    BY TimerUnitAssumption
  <2>2. QED
    BY <1>2, <1>4, <2>1 DEF NotAhead
<1>6. SetUpInv'
  <2>1. NotAhead(ch, begun)'
    BY <1>1, <1>5 DEF NotAhead
  <2>2. QED
    BY <1>1, <1>4, <2>1 DEF EarlyInv, SetUpInv
<1>7. pending' = IF masked THEN (pending /\ ~Raises(ch')) ELSE (pending \/ Raises(ch'))
  BY <1>2 DEF Match, SetLine, EarlyInv, TickInv
<1>8. (masked => ~pending)' /\ (cpu # "thread" => masked)'
  BY <1>1, <1>2, <1>7 DEF EarlyInv, TickInv
<1>9. CASE pc < 16
  <2>1. Claimed' = 0 /\ 0 * Period = 0
    BY <1>1, <1>2, <1>8, <1>9, PeriodOK
       DEF Claimed, Owed, EarlyInv, SetUpInv
  <2>2. QED
    BY <1>1, <1>2, <1>6, <1>8, <1>9, <2>1 DEF TickInv
<1>10. CASE pc >= 16
  <2> DEFINE k == Claimed
  <2>1. k \in Nat /\ k * Period \in Nat /\ Period \in Nat
        /\ (k + 1) * Period = k * Period + Period
    <3>1. k \in Nat
      BY <1>2 DEF Claimed, Owed
    <3> HIDE DEF k
    <3>2. QED
      BY <3>1, OneMore, PeriodOK
  <2>2. begun + k * Period + Period <= ch.full
    BY <1>1, <1>10 DEF EarlyInv, TickInv
  <2>3. Claimed' \in {k, k + 1}
    BY <1>1, <1>2, <1>7 DEF Claimed, Owed, EarlyInv, TickInv
  <2>4. e.full = now + Period
    BY <1>4, <1>10, <1>2 DEF Period, EarlyInv, SetUpInv
  <2>5. ch.full \in Nat
    BY <1>1, <1>2 DEF Channel
  <2> HIDE DEF k
  <2> DEFINE q == Claimed' * Period
  <2>6. q \in {k * Period, k * Period + Period}
    BY <2>1, <2>3
  <2>7. q \in Nat
    <3> HIDE DEF q
    <3> QED BY <2>1, <2>6
  <2>8. q <= now - begun
    <3> HIDE DEF q
    <3> QED BY <1>1, <1>2, <2>1, <2>2, <2>5, <2>6
  <2>9. begun + Claimed' * Period + Period <= e.full
    BY <1>2, <2>1, <2>4, <2>7, <2>8
  <2>10. Period' = Period
    BY DEF Period
  <2>11. QED
    BY <1>1, <1>6, <1>8, <2>9, <2>10, <2>8 DEF TickInv
<1>11. QED
  BY <1>2, <1>9, <1>10
LEMMA HandlerKeeps ==
  ASSUME EarlyInv,
         ReadCounter \/ Interrupt \/ Ack \/ Tick \/ UpdateWallTime
           \/ ChangeClock \/ End
  PROVE  SetUpInv' /\ TickInv'
<1> USE DEF Running, SetupIrq, ZeroCounter
<1>1. /\ ch \in Channel /\ ch.time <= now /\ now \in Nat /\ begun \in Nat
      /\ jiffies \in Nat /\ pc \in 1 .. 17 /\ begun <= now
      /\ masked \in BOOLEAN /\ pending \in BOOLEAN
  BY DEF EarlyInv, SetUpInv, TimerInv, TimerTypeOK, GoodChannel
<1>2. pc' = pc /\ now' = now /\ begun' = begun
  BY DEF ReadCounter, Interrupt, Ack, Tick, UpdateWallTime, ChangeClock, End,
         bootVars
<1>3. ch' \in {ch, Synced(ch, now), WriteTfcr(ch, {"full"})}
  BY DEF ReadCounter, Interrupt, Ack, Tick, UpdateWallTime, ChangeClock, End
<1>4. /\ ch'.step = ch.step /\ ch'.tdfr = ch.tdfr /\ ch'.full = ch.full
      /\ NotAhead(ch, begun) => NotAhead(ch', begun)
  <2>1. CASE ch' = ch
    BY <2>1
  <2>2. CASE ch' = Synced(ch, now)
    BY <1>1, <2>2, SyncedOK, SyncedNotAhead DEF SameRegisters
  <2>3. CASE ch' = WriteTfcr(ch, {"full"})
    BY <1>1, <2>3 DEF WriteTfcr, Channel, NotAhead
  <2>4. QED
    BY <1>3, <2>1, <2>2, <2>3
<1>5. ASSUME pc < 17
      PROVE  masked' = masked /\ cpu' = cpu /\ jiffies' = jiffies
  <2>1. cpu = "thread" /\ pc # 17
    BY <1>1, <1>5 DEF EarlyInv, SetUpInv
  <2>2. ReadCounter
    BY <2>1 DEF Interrupt, Ack, Tick, UpdateWallTime, ChangeClock, End
  <2>3. QED
    BY <2>2 DEF ReadCounter, kernelVars, bootVars
<1>6. SetUpInv'
  <2>1. pc > 9 => NotAhead(ch, begun)'
    BY <1>2, <1>4 DEF EarlyInv, SetUpInv, NotAhead
  <2>2. QED
    BY <1>1, <1>2, <1>4, <1>5, <2>1 DEF EarlyInv, SetUpInv
<1>7. (masked => ~pending)' /\ (cpu # "thread" => masked)'
  BY <1>1 DEF ReadCounter, Interrupt, Ack, Tick, UpdateWallTime, ChangeClock,
              End, kernelVars, bootVars, EarlyInv, TickInv
<1>8. Claimed' = Claimed
  BY <1>1 DEF ReadCounter, Interrupt, Ack, Tick, UpdateWallTime, ChangeClock,
              End, kernelVars, bootVars, EarlyInv, TickInv, Claimed, Owed
<1>9. Period' = Period
  BY DEF Period
<1>10. QED
  BY <1>2, <1>4, <1>6, <1>7, <1>8, <1>9 DEF EarlyInv, TickInv

LEMMA EarlyInvNext == EarlyInv /\ [Next]_vars => EarlyInv'
<1> SUFFICES ASSUME EarlyInv, [Next]_vars
             PROVE  EarlyInv'
  OBVIOUS
<1>1. TimerInv'
  BY TimerInvNext DEF EarlyInv
<1>2. Period' = Period
  BY DEF Period
<1>3. now \in Nat /\ begun \in Nat /\ ch \in Channel /\ jiffies \in Nat
      /\ pc \in 1 .. 17
  BY DEF EarlyInv, TimerInv, TimerTypeOK, Running
<1>4. Claimed * Period \in Nat
  <2>1. Claimed \in Nat
    BY <1>3 DEF Claimed, Owed
  <2>2. QED
    BY <2>1, OneMore
<1>5. CASE Pass
  <2>1. /\ now' = now + 1 /\ ch' = ch /\ begun' = begun /\ pc' = pc
        /\ masked' = masked /\ pending' = pending /\ cpu' = cpu
        /\ jiffies' = jiffies
    BY <1>5 DEF Pass, kernelVars, bootVars
  <2>2. SetUpInv'
    <3>1. NotAhead(ch, begun) => NotAhead(ch, begun)'
      BY <2>1 DEF NotAhead
    <3>2. QED
      BY <1>3, <2>1, <3>1 DEF EarlyInv, SetUpInv
  <2>3. Claimed' = Claimed
    BY <2>1 DEF Claimed, Owed
  <2>4. TickInv'
    BY <1>2, <1>3, <1>4, <2>1, <2>3 DEF EarlyInv, TickInv
  <2>5. QED
    BY <1>1, <2>2, <2>4 DEF EarlyInv
<1>6. CASE Match
  BY <1>1, <1>6, MatchKeeps DEF EarlyInv
<1>7. CASE SetUp
  BY <1>1, <1>7, SetUpKeeps DEF EarlyInv
<1>8. CASE Unmask
  <2>1. /\ now' = now /\ ch' = ch /\ begun' = begun /\ pc = 16 /\ pc' = 17
        /\ masked' = FALSE /\ pending' = pending /\ cpu' = cpu
        /\ jiffies' = jiffies /\ cpu = "thread"
    BY <1>8 DEF Unmask, kernelVars, bootVars, EarlyInv, SetUpInv, SetupIrq, Running
  <2>2. SetUpInv'
    <3>1. NotAhead(ch, begun) => NotAhead(ch, begun)'
      BY <2>1 DEF NotAhead
    <3>2. QED
      BY <1>3, <2>1, <3>1 DEF EarlyInv, SetUpInv, ZeroCounter, Running
  <2>3. Claimed' = Claimed
    BY <2>1 DEF Claimed, Owed
  <2>4. TickInv'
    BY <1>2, <1>3, <2>1, <2>3 DEF EarlyInv, TickInv, SetupIrq
  <2>5. QED
    BY <1>1, <2>2, <2>4 DEF EarlyInv
<1>9. CASE ReadCounter \/ Interrupt \/ Ack \/ Tick \/ UpdateWallTime
             \/ ChangeClock \/ End
  BY <1>1, <1>9, HandlerKeeps DEF EarlyInv
<1>10. CASE GetTimer \/ ResetTimer
  <2>1. /\ pc = 8 /\ pc' = pc /\ now' = now /\ masked' = masked
        /\ pending' = pending /\ cpu' = cpu /\ jiffies' = jiffies
        /\ begun' \in {begun, now} /\ ch' = Synced(ch, now)
    BY <1>10 DEF GetTimer, ResetTimer, kernelVars, Handover
  <2>2. /\ jiffies = 0 /\ cpu = "thread" /\ ~pending /\ begun <= now
    BY <2>1 DEF EarlyInv, SetUpInv, TickInv, Running
  <2>3. Claimed' = 0 /\ 0 * Period = 0
    BY <2>1, <2>2, PeriodOK DEF Claimed, Owed
  <2>4. SetUpInv'
    BY <1>3, <2>1, <2>2 DEF EarlyInv, SetUpInv, ZeroCounter, Running
  <2>5. TickInv'
    BY <1>2, <1>3, <2>1, <2>2, <2>3 DEF EarlyInv, TickInv, SetupIrq
  <2>6. QED
    BY <1>1, <2>4, <2>5 DEF EarlyInv
<1>11. CASE UNCHANGED vars
  <2>1. NotAhead(ch, begun) => NotAhead(ch, begun)'
    BY <1>11 DEF NotAhead, vars
  <2>2. Claimed' = Claimed
    BY <1>11 DEF Claimed, Owed, vars
  <2>3. QED
    BY <1>1, <1>2, <1>11, <2>1, <2>2 DEF vars, EarlyInv, SetUpInv, TickInv
<1>12. QED
  BY <1>5, <1>6, <1>7, <1>8, <1>9, <1>10, <1>11 DEF Next

(* The kernel never counts a tick early.                                   *)
THEOREM TicksNeverEarly == Spec => []JiffiesNeverEarly
<1>1. EarlyInv => JiffiesNeverEarly
  <2> SUFFICES ASSUME EarlyInv
               PROVE  JiffiesNeverEarly
    OBVIOUS
  <2>1. jiffies \in Nat /\ Claimed \in Nat /\ jiffies <= Claimed
        /\ now \in Nat /\ begun \in Nat
    BY DEF EarlyInv, TimerInv, TimerTypeOK, Claimed, Owed
  <2>2. /\ jiffies * Period <= Claimed * Period
        /\ jiffies * Period \in Nat /\ Claimed * Period \in Nat
    BY <2>1, PeriodOK, Products
  <2>3. Claimed * Period <= now - begun
    BY DEF EarlyInv, TickInv
  <2>4. jiffies * Latch * TickStep = jiffies * Period
    BY <2>1, PeriodOK, TimerTickAssumption DEF Period
  <2>5. QED
    BY <2>1, <2>2, <2>3, <2>4 DEF JiffiesNeverEarly
<1>2. QED
  BY <1>1, EarlyInvInit, EarlyInvNext, PTL DEF Spec
-----------------------------------------------------------------------------
(* The third invariant: the clock's differences are true.                  *)

(* The host timer is late by less than what the slow counter leaves of a   *)
(* tick, and the mask of the clock source is wider than three ticks.       *)
ClockFits ==
  /\ Period + MaxLate < Latch * SyncStep
  /\ 3 * Latch <= Mask + 1

(* The first match of the kernel's timer has been seen.                    *)
Ticked == pending \/ cpu # "thread" \/ jiffies > 0

(* From then on the counter says how long ago the last match was.          *)
PaceInv ==
  /\ now > 0
  /\ cpu \in {"wall", "end"} => jiffies > 0
  /\ Ticked => /\ pc = Running
               /\ Period < ch.full
               /\ ch.full - Period + ch.tcnt * SyncStep <= ch.time
               /\ now <= ch.full + MaxLate

(* cycle_last is within a tick of jiffies, two while the handler is between *)
(* the two, and no later than the counter unless a match is outstanding.   *)
BaseInv == clock = "jz" =>
  /\ jiffies > 0
  /\ cpu # "wall" => /\ jiffies * Latch < cycle_last + Latch
                     /\ cycle_last < jiffies * Latch + Latch
  /\ cpu = "wall" => /\ jiffies * Latch < cycle_last + 2 * Latch
                     /\ cycle_last < jiffies * Latch
  /\ cpu \in {"thread", "end"} /\ "full" \notin ch.tfr =>
       cycle_last <= jiffies * Latch + ch.tcnt

ClockInv == EarlyInv /\ PaceInv /\ BaseInv

(* If less than a tick's counts have passed since z, bringing the counter  *)
(* up to date moves it on, to less than a tick, and never wraps it.        *)
LEMMA SyncedGrows ==
  ASSUME NEW c \in Channel, NEW t \in Nat, c.time <= t, NEW z \in Nat \ {0},
         z + c.tcnt * SyncStep <= c.time, t - z < Latch * SyncStep
  PROVE  /\ z + Synced(c, t).tcnt * SyncStep <= Synced(c, t).time
         /\ Synced(c, t).tcnt < Latch
         /\ c.tcnt <= Synced(c, t).tcnt
<1> DEFINE k == Counted(c, t)
<1>1. k \in Nat /\ k * SyncStep <= t - c.time
  BY CountedBounded
<1>2. /\ SyncStep \in Nat \ {0} /\ c.tcnt \in Nat /\ c.time \in Nat
      /\ Latch \in Nat /\ Latch < CntSpan /\ CntSpan \in Nat
  BY TimerUnitAssumption, TimerTickAssumption DEF Channel, Register
<1> HIDE DEF k
<1> DEFINE n == c.tcnt + k
<1>3. /\ n * SyncStep = c.tcnt * SyncStep + k * SyncStep
      /\ n \in Nat /\ n * SyncStep \in Nat
      /\ c.tcnt * SyncStep \in Nat /\ k * SyncStep \in Nat
  <2>1. n \in Nat
    BY <1>1, <1>2
  <2>2. (c.tcnt + k) * SyncStep = c.tcnt * SyncStep + k * SyncStep
    BY <1>1, <1>2
  <2>3. QED
    BY <1>1, <1>2, <2>1, <2>2, Products
<1>4. c.tcnt <= n
  BY <1>1, <1>2
<1> HIDE DEF n
<1>5. z + n * SyncStep <= t
  BY <1>1, <1>2, <1>3
<1>6. n < Latch
  <2> SUFFICES ASSUME Latch <= n
               PROVE  FALSE
    BY <1>2, <1>3
  <2>1. Latch * SyncStep <= n * SyncStep /\ Latch * SyncStep \in Nat
    BY <1>2, <1>3, Products
  <2>2. QED
    BY <1>3, <1>5, <2>1
<1>7. CASE ~Enabled(c, "full")
  BY <1>2, <1>3, <1>4, <1>6, <1>7 DEF Synced
<1>8. CASE Enabled(c, "full")
  <2>1. c.time # 0
    BY <1>2, <1>3
  <2>2. Wrapped(n) = n
    BY <1>2, <1>3, <1>6 DEF Wrapped
  <2>3. /\ Synced(c, t).tcnt = n
        /\ Synced(c, t).time = IF k = 0 THEN c.time ELSE t
    BY <1>8, <2>1, <2>2 DEF Synced, Channel, k, n
  <2>4. k = 0 => n = c.tcnt
    BY <1>2 DEF n
  <2>5. QED
    BY <1>2, <1>3, <1>4, <1>5, <1>6, <2>3, <2>4
<1>9. QED
  BY <1>7, <1>8

(* What the kernel's reads of the counter see once it has ticked.          *)
LEMMA SyncedPace ==
  ASSUME ClockFits, ClockInv, Ticked
  PROVE  LET s == Synced(ch, now)
         IN  /\ s.full = ch.full /\ s.tfr = ch.tfr /\ s.tcnt \in Nat
             /\ s.tcnt < Latch /\ ch.tcnt <= s.tcnt
             /\ ch.full - Period + s.tcnt * SyncStep <= s.time
<1> DEFINE s == Synced(ch, now)
           z == ch.full - Period
<1>1. /\ ch \in Channel /\ now \in Nat /\ ch.time <= now
  BY DEF ClockInv, EarlyInv, TimerInv, TimerTypeOK, GoodChannel
<1>2. /\ Period < ch.full /\ now <= ch.full + MaxLate
      /\ ch.full - Period + ch.tcnt * SyncStep <= ch.time
  BY DEF ClockInv, PaceInv
<1>3. Period \in Nat /\ MaxLate \in Nat /\ ch.full \in Nat \union {Never}
  BY <1>1, PeriodOK, TimerTickAssumption DEF Channel
<1>4. ch.full \in Nat /\ z \in Nat \ {0}
  BY <1>2, <1>3 DEF Never
<1>5. Latch * SyncStep \in Nat
  BY PeriodOK, TimerUnitAssumption, Products
<1>6. z + ch.tcnt * SyncStep <= ch.time /\ now - z < Latch * SyncStep
  BY <1>1, <1>2, <1>3, <1>4, <1>5 DEF ClockFits
<1>7. s \in Channel /\ SameRegisters(ch, s)
  BY <1>1, SyncedOK
<1> HIDE DEF z
<1>8. z + s.tcnt * SyncStep <= s.time /\ s.tcnt < Latch /\ ch.tcnt <= s.tcnt
  BY <1>1, <1>4, <1>6, SyncedGrows
<1>9. QED
  BY <1>7, <1>8 DEF SameRegisters, Channel, Register, z
LEMMA ClockInvInit == Init => PaceInv /\ BaseInv
BY DEF Init, PaceInv, BaseInv, Ticked

LEMMA PaceKeeps ==
  ASSUME ClockFits, ClockInv, [Next]_vars
  PROVE  PaceInv'
<1> USE DEF Running, SetupIrq
<1>1. /\ ch \in Channel /\ now \in Nat /\ jiffies \in Nat /\ pc \in 1 .. 17
      /\ masked \in BOOLEAN /\ pending \in BOOLEAN
      /\ ch.full # Never <=> Enabled(ch, "full")
      /\ pc < 17 => masked /\ cpu = "thread" /\ jiffies = 0 /\ ~pending
      /\ pc = 17 => ch.step = TickStep /\ ch.tdfr = Latch
  BY DEF ClockInv, EarlyInv, SetUpInv, TickInv, TimerInv, TimerTypeOK,
         GoodChannel, ZeroCounter
<1>2. Period \in Nat /\ MaxLate \in Nat /\ Period' = Period
  BY PeriodOK, TimerTickAssumption DEF Period
<1>3. CASE Pass
  <2>1. /\ now' = now + 1 /\ ch' = ch /\ pc' = pc /\ pending' = pending
        /\ cpu' = cpu /\ jiffies' = jiffies
    BY <1>3 DEF Pass, kernelVars, bootVars
  <2>2. Ticked => now + 1 <= ch.full + MaxLate
    <3>1. Ticked => ch.full \in Nat
      BY <1>1, <1>2 DEF ClockInv, PaceInv, Channel, Never
    <3>2. QED
      BY <1>1, <1>2, <1>3, <3>1 DEF Pass, Due, Never
  <2>3. QED
    BY <1>1, <1>2, <2>1, <2>2 DEF ClockInv, PaceInv, Ticked
<1>4. CASE Match
  <2> DEFINE d == [ch EXCEPT !.full = Never]
  <2>1. /\ pc' = pc /\ now' = now /\ cpu' = cpu /\ jiffies' = jiffies
        /\ ch' = FullMatch(d, now) /\ ch.full # Never
        /\ pending' => pending \/ ~masked
    BY <1>1, <1>4 DEF Match, kernelVars, bootVars, Due, SetLine
  <2>2. Enabled(d, "full") /\ d.step = ch.step /\ d.tdfr = ch.tdfr /\ d \in Channel
    BY <1>1, <2>1 DEF Channel, Enabled
  <2> HIDE DEF d
  <2>3. /\ ch'.full = now + ch.tdfr * ch.step
        /\ ch'.tcnt = 0 /\ ch'.time = now
    BY <2>1, <2>2 DEF FullMatch, Channel
  <2>4. Ticked' => pc = 17
    BY <1>1, <2>1 DEF ClockInv, PaceInv, Ticked
  <2>5. pc = 17 => ch'.full = now + Period
    BY <1>1, <2>3 DEF Period
  <2>6. 0 * SyncStep = 0
    BY TimerUnitAssumption
  <2>7. QED
    BY <1>1, <1>2, <2>1, <2>3, <2>4, <2>5, <2>6 DEF ClockInv, PaceInv
<1>5. CASE SetUp
  <2>1. pc < 16 /\ cpu' = cpu /\ jiffies' = jiffies /\ now' = now
    BY <1>5 DEF SetUp, kernelVars, bootVars
  <2>2. ~pending'
    BY <1>1, <1>5, <2>1 DEF SetUp, SetLine
  <2>3. QED
    BY <1>1, <2>1, <2>2 DEF ClockInv, PaceInv, Ticked
<1>6. CASE Unmask
  BY <1>1, <1>6 DEF Unmask, kernelVars, bootVars, ClockInv, PaceInv, Ticked
<1>7. CASE ReadCounter \/ Interrupt \/ Ack \/ Tick \/ UpdateWallTime
             \/ ChangeClock \/ End
  <2>1. pc' = pc /\ now' = now
    BY <1>7 DEF ReadCounter, Interrupt, Ack, Tick, UpdateWallTime, ChangeClock, End
  <2>2. ch' \in {ch, Synced(ch, now), WriteTfcr(ch, {"full"})}
    BY <1>7 DEF ReadCounter, Interrupt, Ack, Tick, UpdateWallTime, ChangeClock, End
  <2>3. Ticked' => Ticked
    BY <1>7 DEF ReadCounter, Interrupt, Ack, Tick, UpdateWallTime, ChangeClock,
                End, kernelVars, bootVars, Ticked, ClockInv, PaceInv
  <2>4. (cpu \in {"wall", "end"} => jiffies > 0)'
    BY <1>1, <1>7 DEF ReadCounter, Interrupt, Ack, Tick, UpdateWallTime,
                      ChangeClock, End, kernelVars, bootVars, ClockInv, PaceInv
  <2>5. Ticked => /\ ch'.full = ch.full
                  /\ ch.full - Period + ch'.tcnt * SyncStep <= ch'.time
    <3>1. CASE ch' = ch
      BY <3>1 DEF ClockInv, PaceInv
    <3>2. CASE ch' = Synced(ch, now)
      BY <3>2, SyncedPace
    <3>3. CASE ch' = WriteTfcr(ch, {"full"})
      BY <1>1, <3>3 DEF WriteTfcr, Channel, ClockInv, PaceInv
    <3>4. QED
      BY <2>2, <3>1, <3>2, <3>3
  <2>6. QED
    BY <1>2, <2>1, <2>3, <2>4, <2>5 DEF ClockInv, PaceInv
<1>8. CASE GetTimer \/ ResetTimer
  <2>1. pc # 17 /\ pc' = pc /\ pending' = pending /\ cpu' = cpu
        /\ jiffies' = jiffies /\ now' = now
    BY <1>8 DEF GetTimer, ResetTimer, kernelVars, Handover
  <2>2. QED
    BY <1>1, <2>1 DEF ClockInv, PaceInv, Ticked
<1>9. CASE UNCHANGED vars
  BY <1>2, <1>9 DEF vars, ClockInv, PaceInv, Ticked
<1>10. QED
  BY <1>3, <1>4, <1>5, <1>6, <1>7, <1>8, <1>9 DEF Next

(* Whole intervals of a length: the rest is less than one.                 *)
LEMMA WholeIntervals ==
  ASSUME NEW n \in Nat, NEW l \in Nat \ {0}
  PROVE  /\ l * (n \div l) \in Nat
         /\ l * (n \div l) <= n
         /\ n < l * (n \div l) + l
<1>1. n \div l \in Nat /\ n = l * (n \div l) + (n % l) /\ n % l \in 0 .. l - 1
  BY SMT
<1>2. l * (n \div l) \in Nat
  BY <1>1, Products
<1>3. QED
  BY <1>1, <1>2

LEMMA BaseKeeps ==
  ASSUME ClockFits, ClockInv, [Next]_vars
  PROVE  BaseInv'
<1> USE DEF Running, SetupIrq
<1> DEFINE J == jiffies * Latch
<1>1. /\ ch \in Channel /\ now \in Nat /\ jiffies \in Nat /\ cycle_last \in Nat
      /\ Latch \in Nat \ {0} /\ Mask \in Nat /\ J \in Nat /\ ch.tcnt \in Nat
  BY PeriodOK, TimerTickAssumption, Products
     DEF ClockInv, EarlyInv, TimerInv, TimerTypeOK, Channel, Register
<1>2. clock = "jz" => Ticked /\ pc = 17
  BY <1>1 DEF ClockInv, BaseInv, PaceInv, Ticked
<1>3. CASE Pass
  BY <1>3 DEF Pass, kernelVars, bootVars, ClockInv, BaseInv
<1>4. CASE Match
  <2> DEFINE d == [ch EXCEPT !.full = Never]
  <2>1. cpu' = cpu /\ jiffies' = jiffies /\ clock' = clock
        /\ cycle_last' = cycle_last /\ ch' = FullMatch(d, now) /\ ch.full # Never
    BY <1>4 DEF Match, kernelVars, bootVars, Due
  <2>2. Enabled(d, "full") /\ d \in Channel
    BY <1>1, <2>1 DEF Channel, Enabled, ClockInv, EarlyInv, TimerInv, GoodChannel
  <2> HIDE DEF d
  <2>3. "full" \in ch'.tfr
    BY <2>1, <2>2 DEF FullMatch, Channel
  <2>4. QED
    BY <2>1, <2>3 DEF ClockInv, BaseInv
<1>5. CASE SetUp \/ Unmask
  BY <1>2, <1>5 DEF SetUp, Unmask, kernelVars, bootVars, BaseInv
<1>6. CASE ReadCounter
  <2>1. cpu' = cpu /\ jiffies' = jiffies /\ clock' = clock
        /\ cycle_last' = cycle_last /\ ch' = Synced(ch, now)
    BY <1>6 DEF ReadCounter, kernelVars, bootVars
  <2>2. clock = "jz" => /\ ch'.tfr = ch.tfr /\ ch'.tcnt \in Nat
                        /\ ch.tcnt <= ch'.tcnt
    BY <1>2, <2>1, SyncedPace
  <2>3. QED
    BY <1>1, <2>1, <2>2 DEF ClockInv, BaseInv
<1>7. CASE Interrupt \/ Ack
  BY <1>7 DEF Interrupt, Ack, ClockInv, BaseInv
<1>8. CASE Tick
  <2>1. jiffies' = jiffies + 1 /\ cpu = "tick" /\ cpu' = "wall"
        /\ clock' = clock /\ cycle_last' = cycle_last
    BY <1>8 DEF Tick
  <2>2. jiffies' * Latch = J + Latch
    BY <1>1, <2>1
  <2>3. QED
    BY <1>1, <2>1, <2>2 DEF ClockInv, BaseInv
<1>9. CASE UpdateWallTime
  <2> DEFINE D == J + ch'.tcnt - cycle_last
  <2>1. /\ cpu = "wall" /\ clock = "jz" /\ cpu' = "end" /\ clock' = clock
        /\ jiffies' = jiffies /\ ch' = Synced(ch, now)
        /\ cycle_last' = cycle_last + Latch * (Behind(ch') \div Latch)
    BY <1>9 DEF UpdateWallTime
  <2>2. ch'.tcnt \in Nat /\ ch'.tcnt < Latch
    BY <1>2, <2>1, SyncedPace
  <2>3. jiffies > 0 /\ J < cycle_last + 2 * Latch /\ cycle_last < J
    BY <2>1 DEF ClockInv, BaseInv
  <2>4. D \in Nat /\ D <= Mask
    BY <1>1, <2>2, <2>3 DEF ClockFits
  <2>5. Behind(ch') = D
    <3>1. Cycles(ch') - cycle_last = D
      BY <1>1, <2>2 DEF Cycles
    <3> HIDE DEF D
    <3>2. Behind(ch') = D % (Mask + 1)
      BY <3>1 DEF Behind
    <3>3. QED
      BY <1>1, <2>4, <3>2
  <2> DEFINE a == Latch * (D \div Latch)
  <2>6. a \in Nat /\ a <= D /\ D < a + Latch
    <3> HIDE DEF D
    <3> QED BY <1>1, <2>4, WholeIntervals
  <2>7. cycle_last' = cycle_last + a
    BY <2>1, <2>5
  <2> HIDE DEF a
  <2>8. /\ J < cycle_last' + Latch /\ cycle_last' < J + Latch
        /\ cycle_last' <= J + ch'.tcnt
    BY <1>1, <2>2, <2>6, <2>7
  <2>9. QED
    BY <1>1, <2>1, <2>3, <2>8 DEF BaseInv
<1>10. CASE ChangeClock
  <2>1. cpu = "wall" /\ cpu' = "end" /\ jiffies' = jiffies /\ jiffies > 0
    BY <1>10 DEF ChangeClock, ClockInv, PaceInv
  <2>2. CASE clock' = "jiffies"
    BY <2>2 DEF BaseInv
  <2>3. CASE clock' # "jiffies"
    <3>1. ch' = Synced(ch, now) /\ cycle_last' = J + ch'.tcnt
      BY <1>10, <2>3 DEF ChangeClock, Cycles
    <3>2. ch'.tcnt \in Nat /\ ch'.tcnt < Latch
      BY <2>1, <3>1, SyncedPace DEF Ticked
    <3>3. QED
      BY <1>1, <2>1, <3>1, <3>2 DEF BaseInv
  <2>4. QED
    BY <2>2, <2>3
<1>11. CASE End
  BY <1>11 DEF End, ClockInv, BaseInv
<1>12. CASE GetTimer \/ ResetTimer
  BY <1>2, <1>12 DEF GetTimer, ResetTimer, kernelVars, Handover, BaseInv
<1>13. CASE UNCHANGED vars
  BY <1>13 DEF vars, ClockInv, BaseInv
<1>14. QED
  BY <1>3, <1>4, <1>5, <1>6, <1>7, <1>8, <1>9, <1>10, <1>11, <1>12, <1>13
     DEF Next

(* While no tick is outstanding a read of the clock is ahead of the last   *)
(* update of the wall time, by less than the mask of the clock source.     *)
THEOREM ClockDifferencesTrue == ASSUME ClockFits PROVE Spec => []ClockInRange
<1>1. Init => ClockInv
  BY EarlyInvInit, ClockInvInit DEF ClockInv
<1>2. ClockInv /\ [Next]_vars => ClockInv'
  BY ClockFits, EarlyInvNext, PaceKeeps, BaseKeeps DEF ClockInv
<1>3. ClockInv => ClockInRange
  <2> SUFFICES ASSUME ClockInv, clock = "jz", cpu = "thread", "full" \notin ch.tfr
               PROVE  Cycles(Synced(ch, now)) - cycle_last \in 0 .. Mask
    BY DEF ClockInRange
  <2> DEFINE n == Synced(ch, now).tcnt
             J == jiffies * Latch
  <2>1. jiffies \in Nat /\ cycle_last \in Nat /\ Latch \in Nat /\ Mask \in Nat
        /\ J \in Nat /\ ch.tcnt \in Nat
    BY PeriodOK, TimerTickAssumption, Products
       DEF ClockInv, EarlyInv, TimerInv, TimerTypeOK, GoodChannel, Channel, Register
  <2>2. /\ jiffies > 0 /\ J < cycle_last + Latch
        /\ cycle_last <= J + ch.tcnt
    BY DEF ClockInv, BaseInv
  <2>3. n \in Nat /\ n < Latch /\ ch.tcnt <= n
    BY <2>2, ClockFits, SyncedPace DEF Ticked
  <2>4. Cycles(Synced(ch, now)) = J + n
    BY DEF Cycles
  <2> HIDE DEF n, J
  <2>5. QED
    BY <2>1, <2>2, <2>3, <2>4, ClockFits DEF ClockFits
<1>4. QED
  BY <1>1, <1>2, <1>3, PTL DEF Spec
-----------------------------------------------------------------------------
(* The boot loader's timestamp.                                            *)

(* A turn of the counter at the rate of time_sync, and the time from one   *)
(* match to the next while the boot loader has the timer.                  *)
Turn == (CntSpan - 1) * SyncStep
BootTurn == (CntSpan - 1) * BootStep

(* The timestamp the next read would give were no time to pass.            *)
Seen == loader.timestamp + Elapsed(ch.tcnt)

(* The counts that the matches since begun may have added: a turn for each,*)
(* the first of which may have come at once.                               *)
Allowance ==
  LET since == ch.full - BootTurn - begun + Turn
  IN  IF since > 0 THEN since ELSE 0

LoaderInv ==
  /\ now > 0
  /\ pc \in 2 .. Handover => ch.step = BootStep
  /\ pc \in 5 .. Handover => ch.tdfr = CntSpan - 1
  /\ pc <= Handover => "full" \notin ch.tsr
  /\ pc \in 3 .. Handover - 1 => begun > 0 /\ NotAhead(ch, begun)
  /\ pc # Handover => loader = TimerZero
  /\ pc = Handover =>
       /\ "full" \in ch.ter /\ ch.time > 0
       /\ ch.full <= now + BootTurn
       /\ Seen * SyncStep <= ch.time - begun + SyncStep + Allowance

BootInv == EarlyInv /\ LoaderInv

LEMMA TurnsOK ==
  /\ Turn \in Nat /\ BootTurn \in Nat /\ Turn + SyncStep = CntSpan * SyncStep
  /\ SyncStep <= BootStep => Turn <= BootTurn
<1>1. /\ SyncStep \in Nat /\ BootStep \in Nat /\ CntSpan - 1 \in Nat
      /\ CntSpan \in Nat
  BY TimerUnitAssumption, TimerTickAssumption
<1> DEFINE d == CntSpan - 1
<1>2. d \in Nat /\ CntSpan = d + 1
  BY <1>1
<1> HIDE DEF d
<1>3. d * SyncStep \in Nat /\ d * BootStep \in Nat
  BY <1>1, <1>2, Products
<1>4. (d + 1) * SyncStep = d * SyncStep + SyncStep
  BY <1>1, <1>2
<1>5. SyncStep <= BootStep => d * SyncStep <= d * BootStep
  <2>1. SyncStep <= BootStep => SyncStep * d <= BootStep * d
    BY <1>1, <1>2, Products
  <2>2. QED
    BY <1>1, <1>2, <2>1
<1>6. Turn = d * SyncStep /\ BootTurn = d * BootStep
  BY DEF Turn, BootTurn, d
<1>7. QED
  BY <1>2, <1>3, <1>4, <1>5, <1>6

(* Counts since the last read are naturals, and each count of the counter  *)
(* is at most one of them, a wrap included.                                *)
LEMMA ElapsedOK ==
  ASSUME loader.lastdec \in Register, NEW n \in Register
  PROVE  /\ Elapsed(n) \in Nat
         /\ Elapsed(0) <= Elapsed(n) + (CntSpan - 1)
         /\ \A k \in Nat : Elapsed(Wrapped(n + k)) <= Elapsed(n) + k
<1>1. /\ loader.lastdec \in Nat /\ loader.lastdec <= CntSpan - 1
      /\ n \in Nat /\ n <= CntSpan - 1 /\ CntSpan \in Nat
  BY TimerUnitAssumption DEF Register
<1>2. QED
  BY <1>1 DEF Elapsed, Wrapped

(* Bringing the counter up to date adds no more counts than time passes,   *)
(* and leaves its time less than a count behind.                           *)
LEMMA SyncedSeen ==
  ASSUME ch \in Channel, now \in Nat, ch.time <= now, ch.time > 0,
         Enabled(ch, "full"), loader.lastdec \in Register
  PROVE  LET s == Synced(ch, now)
         IN  /\ s.tcnt \in Register /\ ch.time <= s.time
             /\ now < s.time + SyncStep
             /\ Elapsed(s.tcnt) * SyncStep + ch.time
                  <= Elapsed(ch.tcnt) * SyncStep + s.time
<1> DEFINE k == Counted(ch, now)
           s == Synced(ch, now)
           a == Elapsed(ch.tcnt)
           b == Elapsed(s.tcnt)
<1>1. k \in Nat /\ k * SyncStep <= now - ch.time
  BY CountedBounded
<1>2. ch.tcnt \in Register /\ ch.time \in Nat /\ SyncStep \in Nat \ {0}
  BY TimerUnitAssumption DEF Channel
<1>3. k = 0 => now < ch.time + SyncStep
  <2> DEFINE gap == now - ch.time
  <2>1. gap \in Nat
    BY <1>2
  <2>2. (gap \div SyncStep) = 0 => gap < SyncStep
    <3> HIDE DEF gap
    <3> QED BY <1>2, <2>1, SMT
  <2>3. QED
    BY <1>2, <2>2 DEF Counted
<1>4. /\ s.tcnt = Wrapped(ch.tcnt + k)
      /\ s.time = IF k = 0 THEN ch.time ELSE now
  BY <1>2 DEF Synced, Channel
<1>5. s.tcnt \in Register
  BY <1>1, <1>2, <1>4, TimerUnitAssumption DEF Wrapped, Register
<1>6. a \in Nat /\ b \in Nat /\ b <= a + k
  BY <1>1, <1>2, <1>4, <1>5, ElapsedOK
<1> HIDE DEF k, s, a, b
<1>7. b * SyncStep <= a * SyncStep + k * SyncStep /\ a * SyncStep \in Nat
      /\ b * SyncStep \in Nat /\ k * SyncStep \in Nat
  <2>1. b * SyncStep <= (a + k) * SyncStep
    BY <1>1, <1>2, <1>6, Products
  <2>2. (a + k) * SyncStep = a * SyncStep + k * SyncStep
    BY <1>1, <1>2, <1>6
  <2>3. QED
    BY <1>1, <1>2, <1>6, <2>1, <2>2, Products
<1>8. k = 0 => k * SyncStep = 0
  BY <1>2
<1>9. b * SyncStep + ch.time <= a * SyncStep + s.time
  BY <1>1, <1>2, <1>4, <1>7, <1>8
<1>10. QED
  BY <1>2, <1>3, <1>4, <1>5, <1>9 DEF s, a, b
(* Starting the timers leaves the stop and enable bits, and the first      *)
(* match is no more than a turn away.                                      *)
LEMMA StartBits ==
  ASSUME NEW c \in Channel, NEW t \in Nat, c.time <= t, "half" \notin c.ter
  PROVE  /\ StartFull(c, t).ter = c.ter /\ StartFull(c, t).tsr = c.tsr
         /\ StartBoth(c, t).ter = c.ter /\ StartBoth(c, t).tsr = c.tsr
         /\ c.tdfr = CntSpan - 1 /\ c.step = BootStep =>
              StartBoth(c, t).full <= t + BootTurn
<1>1. ASSUME NEW d \in Channel, d.time <= t
      PROVE  /\ StartFull(d, t).ter = d.ter /\ StartFull(d, t).tsr = d.tsr
             /\ d.tdfr = CntSpan - 1 /\ d.step = BootStep =>
                  StartFull(d, t).full <= t + BootTurn
  <2> DEFINE s == Synced(d, t)
             n == s.tdfr - s.tcnt
  <2>1. s \in Channel /\ SameRegisters(d, s)
    BY <1>1, SyncedOK
  <2>2. CASE ~Enabled(d, "full")
    <3>1. StartFull(d, t) = [d EXCEPT !.full = Never]
      BY <2>2 DEF StartFull
    <3>2. StartFull(d, t).full = Never
      BY <1>1, <3>1 DEF Channel
    <3>3. QED
      BY <1>1, <3>1, <3>2, TurnsOK DEF Channel, Never
  <2>3. CASE Enabled(d, "full")
    <3>1. StartFull(d, t) = [s EXCEPT !.full = Expiry(s, s.tdfr, t)]
      BY <2>3 DEF StartFull
    <3>2. StartFull(d, t).full = t + (n % Word) * s.step
      BY <2>1, <3>1 DEF Channel, Expiry
    <3>3. s.tcnt \in Register /\ s.tdfr = d.tdfr /\ s.step = d.step
      BY <2>1 DEF SameRegisters, Channel
    <3>4. ASSUME d.tdfr = CntSpan - 1, d.step = BootStep
          PROVE  StartFull(d, t).full <= t + BootTurn
      <4>1. n \in Nat /\ n <= CntSpan - 1 /\ n < Word /\ CntSpan - 1 \in Nat
        BY <3>3, <3>4, TimerUnitAssumption DEF Register
      <4>2. n % Word = n
        BY <4>1, TimerUnitAssumption
      <4> HIDE DEF n
      <4>3. n * BootStep <= BootTurn /\ n * BootStep \in Nat
        BY <4>1, Products, TimerTickAssumption DEF BootTurn
      <4>4. StartFull(d, t).full = t + n * BootStep
        BY <3>2, <3>3, <3>4, <4>2
      <4>5. QED
        BY <4>3, <4>4, TurnsOK
    <3> HIDE DEF s, n
    <3>5. QED
      BY <2>1, <3>1, <3>4 DEF SameRegisters, Channel
  <2>4. QED
    BY <2>2, <2>3
<1> DEFINE h == StartHalf(c, t)
<1>2. /\ h \in Channel /\ h.time = c.time /\ h.ter = c.ter /\ h.tsr = c.tsr
      /\ h.step = c.step /\ h.tdfr = c.tdfr
  BY StartHalfOff DEF Channel
<1>3. StartBoth(c, t) = StartFull(h, t)
  BY DEF StartBoth
<1> HIDE DEF h
<1>4. QED
  BY <1>1, <1>2, <1>3

LEMMA WrittenBits ==
  ASSUME TimerInv, NEW w \in Write
  PROVE  /\ Written(w).tsr \subseteq ch.tsr
         /\ w.reg = "TESR" =>
              /\ Written(w).ter = ch.ter \union (w.to \intersect {"full"})
              /\ ch.tdfr = CntSpan - 1 /\ ch.step = BootStep =>
                   Written(w).full <= now + BootTurn
<1>1. ch \in Channel /\ now \in Nat /\ ch.time <= now /\ "half" \notin ch.ter
  BY DEF TimerInv, TimerTypeOK, GoodChannel
<1>2. CASE w.reg \in {"TCSR", "TSCR", "TESR", "TCNT"}
  <2> DEFINE d == IF w.reg = "TCSR" THEN [ch EXCEPT !.step = w.to]
                  ELSE IF w.reg = "TSCR" THEN [ch EXCEPT !.tsr = @ \ w.to]
                  ELSE IF w.reg = "TCNT"
                    THEN [ch EXCEPT !.tcnt = w.to, !.time = now]
                  ELSE [ch EXCEPT !.ter = @ \union (w.to \intersect {"full"})]
  <2>1. Written(w) = StartBoth(d, now)
    BY <1>2 DEF Written, WriteTcsr, WriteTscr, WriteTesr, WriteTcnt
  <2>2. /\ d \in Channel /\ d.time <= now /\ "half" \notin d.ter
        /\ d.tsr \subseteq ch.tsr
        /\ w.reg = "TESR" => /\ d.ter = ch.ter \union (w.to \intersect {"full"})
                             /\ d.tdfr = ch.tdfr /\ d.step = ch.step
    <3>1. CASE w.reg = "TCSR"
      BY <1>1, <3>1 DEF Write, Channel
    <3>2. CASE w.reg = "TSCR"
      BY <1>1, <3>2 DEF Write, Channel
    <3>3. CASE w.reg = "TESR"
      BY <1>1, <3>3 DEF Write, Channel, Bits
    <3>4. CASE w.reg = "TCNT"
      <4>1. w.to \in Register
        BY <3>4 DEF Write
      <4>2. /\ d = [ch EXCEPT !.tcnt = w.to, !.time = now]
            /\ d.tsr = ch.tsr /\ d.time = now /\ d.ter = ch.ter
        BY <1>1, <3>4 DEF Channel
      <4>3. d \in Channel
        BY <1>1, <4>1, <4>2 DEF Channel
      <4>4. QED
        BY <1>1, <3>4, <4>2, <4>3
    <3>5. QED
      BY <1>2, <3>1, <3>2, <3>3, <3>4
  <2> HIDE DEF d
  <2>3. QED
    BY <1>1, <2>1, <2>2, StartBits
<1>3. CASE w.reg = "TDHR"
  <2> DEFINE d == [ch EXCEPT !.tdhr = w.to]
  <2>1. d \in Channel /\ "half" \notin d.ter /\ d.tsr = ch.tsr
        /\ d.time = ch.time
    BY <1>1, <1>3 DEF Write, Channel
  <2>2. Written(w) = StartHalf(d, now)
    BY <1>3 DEF Written, WriteTdhr
  <2> HIDE DEF d
  <2>3. StartHalf(d, now) = [d EXCEPT !.half = Never]
    BY <2>1, StartHalfOff
  <2>4. QED
    BY <1>3, <2>1, <2>2, <2>3 DEF Channel
<1>4. CASE w.reg = "TDFR"
  <2> DEFINE d == [ch EXCEPT !.tdfr = w.to]
  <2>1. /\ d \in Channel /\ "half" \notin d.ter /\ d.tsr = ch.tsr
        /\ d.time = ch.time
    BY <1>1, <1>4 DEF Write, Channel
  <2>2. Written(w) = StartFull(d, now)
    BY <1>4 DEF Written, WriteTdfr
  <2> HIDE DEF d
  <2>3. QED
    BY <1>1, <1>4, <2>1, <2>2, StartBits
<1>5. CASE w.reg \in {"TMSR", "TMCR"}
  <2>1. PICK m \in SUBSET Bits : Written(w) = [ch EXCEPT !.tmr = m]
    BY <1>1, <1>5 DEF Written, WriteTmsr, WriteTmcr, Write, Channel
  <2>2. QED
    BY <1>1, <1>5, <2>1 DEF Channel
<1>6. QED
  BY <1>2, <1>3, <1>4, <1>5 DEF Write

LEMMA BootInvInit == Init => LoaderInv
BY DEF Init, LoaderInv, Handover, ResetChannel

(* A match sets the counter to 0, which a read takes for one turn more,    *)
(* and comes a turn of the boot loader after the last.                     *)
LEMMA MatchSeen ==
  ASSUME SyncStep <= BootStep, BootInv, Match, pc = Handover
  PROVE  Seen' * SyncStep <= ch'.time - begun' + SyncStep + Allowance'
<1> DEFINE d == [ch EXCEPT !.full = Never]
<1>1. /\ pc' = pc /\ now' = now /\ begun' = begun /\ loader' = loader
      /\ ch' = FullMatch(d, now) /\ ch.full # Never /\ ch.full <= now
  BY DEF Match, kernelVars, bootVars, Due
<1>2. /\ ch \in Channel /\ Enabled(ch, "full") /\ now \in Nat /\ begun \in Nat
      /\ begun <= now /\ ch.time <= now /\ loader.lastdec \in Register
      /\ loader.timestamp \in Nat
  BY <1>1 DEF BootInv, EarlyInv, SetUpInv, TimerInv, TimerTypeOK, GoodChannel
<1>3. /\ d \in Channel /\ Enabled(d, "full") /\ d.step = BootStep
      /\ d.tdfr = CntSpan - 1
  BY <1>2 DEF Channel, Enabled, BootInv, LoaderInv, Handover
<1> HIDE DEF d
<1>4. ch'.tcnt = 0 /\ ch'.time = now /\ ch'.full = now + BootTurn
  BY <1>1, <1>3 DEF FullMatch, Channel, BootTurn
<1>5. /\ Turn \in Nat /\ BootTurn \in Nat /\ Turn <= BootTurn
      /\ SyncStep \in Nat /\ CntSpan - 1 \in Nat
      /\ ch.full \in Nat /\ ch.time \in Nat /\ ch.tcnt \in Register
  BY <1>1, <1>2, TurnsOK, TimerUnitAssumption DEF Channel
<1> DEFINE a == Elapsed(ch.tcnt)
           b == Elapsed(0)
           v == loader.timestamp
           u == CntSpan - 1
<1>6. a \in Nat /\ b \in Nat /\ b <= a + u /\ u \in Nat /\ v \in Nat
  <2>1. 0 \in Register
    BY TimerUnitAssumption DEF Register
  <2>2. QED
    BY <1>2, <1>5, <2>1, ElapsedOK
<1>7. Seen = v + a
  BY DEF Seen
<1>8. Seen' = v + b
  BY <1>1, <1>4 DEF Seen, Elapsed
<1>9. Turn = u * SyncStep
  BY DEF Turn
<1> HIDE DEF a, b, v, u
<1>10. /\ (v + b) * SyncStep <= (v + a) * SyncStep + Turn
       /\ (v + b) * SyncStep \in Nat /\ (v + a) * SyncStep \in Nat
  <2>1. v + b <= (v + a) + u /\ v + a \in Nat /\ v + b \in Nat
    BY <1>6
  <2>2. (v + b) * SyncStep <= ((v + a) + u) * SyncStep
    BY <1>5, <1>6, <2>1, Products
  <2>3. ((v + a) + u) * SyncStep = (v + a) * SyncStep + u * SyncStep
    BY <1>5, <1>6
  <2>4. QED
    BY <1>5, <1>6, <1>9, <2>1, <2>2, <2>3, Products
<1>11. Seen * SyncStep <= ch.time - begun + SyncStep + Allowance
  BY DEF BootInv, LoaderInv
<1>12. Allowance' = now - begun + Turn
  <2>1. Turn' = Turn /\ BootTurn' = BootTurn
    BY DEF Turn, BootTurn
  <2>2. QED
    BY <1>1, <1>2, <1>4, <1>5, <2>1 DEF Allowance
<1>13. Allowance + Turn <= Allowance' /\ Allowance \in Nat
  BY <1>1, <1>2, <1>5, <1>12 DEF Allowance
<1>14. QED
  BY <1>1, <1>2, <1>4, <1>5, <1>7, <1>8, <1>10, <1>11, <1>12, <1>13
LEMMA ReadsSeen ==
  ASSUME BootInv, GetTimer \/ ResetTimer
  PROVE  LoaderInv'
<1> USE DEF Handover
<1>1. /\ ch \in Channel /\ now \in Nat /\ ch.time <= now /\ ch.time > 0
      /\ Enabled(ch, "full") /\ now > 0 /\ begun \in Nat
      /\ loader.lastdec \in Register /\ loader.timestamp \in Nat
      /\ ch.step = BootStep /\ ch.tdfr = CntSpan - 1
      /\ "full" \notin ch.tsr /\ "full" \in ch.ter /\ pc = 8
  BY TimerTickAssumption
     DEF BootInv, EarlyInv, TimerInv, TimerTypeOK, GoodChannel, LoaderInv,
         GetTimer, ResetTimer, Enabled
<1> DEFINE s == Synced(ch, now)
<1>2. /\ ch' = s /\ now' = now /\ pc' = pc
  BY DEF GetTimer, ResetTimer
<1>3. /\ s.tcnt \in Register /\ ch.time <= s.time /\ now < s.time + SyncStep
      /\ Elapsed(s.tcnt) * SyncStep + ch.time
           <= Elapsed(ch.tcnt) * SyncStep + s.time
  BY <1>1, SyncedSeen
<1>4. s \in Channel /\ SameRegisters(ch, s) /\ s.time <= now
  BY <1>1, SyncedOK
<1> HIDE DEF s
<1>5. /\ ch'.step = ch.step /\ ch'.tdfr = ch.tdfr /\ ch'.tsr = ch.tsr
      /\ ch'.ter = ch.ter /\ ch'.full = ch.full /\ ch'.time > 0
      /\ s.time \in Nat /\ s.tcnt \in Nat /\ ch.time \in Nat
  BY <1>1, <1>2, <1>3, <1>4 DEF SameRegisters, Channel, Register
<1>6. Turn' = Turn /\ BootTurn' = BootTurn /\ Turn \in Nat /\ BootTurn \in Nat
      /\ SyncStep \in Nat
  BY TurnsOK, TimerUnitAssumption DEF Turn, BootTurn
<1>7. ch'.full <= now' + BootTurn'
  BY <1>1, <1>2, <1>5, <1>6 DEF BootInv, LoaderInv
<1>8. loader'.lastdec = s.tcnt
  BY <1>2 DEF GetTimer, ResetTimer
<1>9. Seen' = loader'.timestamp + 0
  BY <1>2, <1>5, <1>8 DEF Seen, Elapsed
<1>10. Allowance' \in Nat /\ Allowance \in Nat
  <2>1. begun' \in Nat /\ ch.full \in Nat \union {Never}
    BY <1>1 DEF GetTimer, ResetTimer, Channel
  <2>2. QED
    BY <1>1, <1>5, <1>6, <2>1 DEF Allowance, Never
<1>11. Seen' * SyncStep <= ch'.time - begun' + SyncStep + Allowance'
  <2>1. CASE GetTimer
    <3> DEFINE v == loader.timestamp
               a == Elapsed(ch.tcnt)
               b == Elapsed(s.tcnt)
    <3>1. a \in Nat /\ b \in Nat /\ v \in Nat
      BY <1>1, <1>3, ElapsedOK DEF Channel
    <3>2. Seen = v + a
      BY DEF Seen
    <3>3. Seen' = v + b
      BY <1>2, <1>9, <2>1, <3>1 DEF GetTimer
    <3>4. begun' = begun
      BY <2>1 DEF GetTimer
    <3>5. Allowance' = Allowance
      BY <1>5, <1>6, <3>4 DEF Allowance
    <3>6. Seen * SyncStep <= ch.time - begun + SyncStep + Allowance
      BY <1>1 DEF BootInv, LoaderInv
    <3>7. b * SyncStep + ch.time <= a * SyncStep + s.time
      BY <1>3
    <3> HIDE DEF v, a, b
    <3>8. /\ (v + a) * SyncStep = v * SyncStep + a * SyncStep
          /\ (v + b) * SyncStep = v * SyncStep + b * SyncStep
          /\ v * SyncStep \in Nat /\ a * SyncStep \in Nat /\ b * SyncStep \in Nat
      BY <1>6, <3>1, Products
    <3>9. QED
      BY <1>1, <1>2, <1>5, <1>6, <1>10, <3>2, <3>3, <3>4, <3>5, <3>6, <3>7, <3>8
  <2>2. CASE ResetTimer
    <3>1. Seen' = 0 /\ begun' = now /\ 0 * SyncStep = 0
      BY <1>6, <1>9, <2>2 DEF ResetTimer
    <3>2. QED
      BY <1>1, <1>2, <1>3, <1>5, <1>6, <1>10, <3>1
  <2>3. QED
    BY <2>1, <2>2
<1>12. QED
  BY <1>1, <1>2, <1>5, <1>7, <1>11 DEF LoaderInv

LEMMA SetUpSeen ==
  ASSUME BootInv, EarlyInv', SetUp
  PROVE  LoaderInv'
<1> USE DEF Running, SetupIrq, ZeroCounter, ClearCounter, Handover
<1> DEFINE w == Script[pc]
<1>1. /\ pc \in 1 .. 15 /\ pc' = pc + 1 /\ now' = now /\ now \in Nat /\ now > 0
      /\ begun \in Nat /\ begun' = IF pc \in {2, 9} THEN now ELSE begun
      /\ ch \in Channel /\ TimerInv
      /\ loader' = IF pc = 8 THEN TimerZero ELSE loader
  BY DEF BootInv, EarlyInv, LoaderInv, TimerInv, TimerTypeOK, SetUp
<1>2. w \in Write
  BY <1>1, ScriptOK
<1>3. ch' = Written(w)
  BY DEF SetUp
<1>4. /\ w.reg = "TCSR" <=> pc \in {1, 8}
      /\ w.reg = "TCNT" <=> pc \in {2, 9}
      /\ w.reg = "TDFR" <=> pc \in {4, 11}
      /\ pc = 1 => w.to = BootStep
      /\ pc = 2 => w.to = 0
      /\ pc = 4 => w.to = CntSpan - 1
      /\ pc = 7 => w.reg = "TESR" /\ w.to = {"full"}
  BY <1>1 DEF Script, W
<1> HIDE DEF w
<1>5. /\ ch'.step = IF w.reg = "TCSR" THEN w.to ELSE ch.step
      /\ ch'.tdfr = IF w.reg = "TDFR" THEN w.to ELSE ch.tdfr
      /\ w.reg # "TCNT" =>
           \A b \in Nat : NotAhead(ch, b) => NotAhead(ch', b)
      /\ w.reg = "TCNT" /\ w.to = 0 => NotAhead(ch', now)
  BY <1>1, <1>2, <1>3, WrittenKeeps
<1>6. /\ ch'.tsr \subseteq ch.tsr
      /\ w.reg = "TESR" =>
           /\ ch'.ter = ch.ter \union (w.to \intersect {"full"})
           /\ ch.tdfr = CntSpan - 1 /\ ch.step = BootStep =>
                ch'.full <= now + BootTurn
  BY <1>1, <1>2, <1>3, WrittenBits
<1>7. /\ pc' \in 2 .. 8 => ch'.step = BootStep
      /\ pc' \in 5 .. 8 => ch'.tdfr = CntSpan - 1
      /\ pc' <= 8 => "full" \notin ch'.tsr
  BY <1>1, <1>4, <1>5, <1>6 DEF BootInv, LoaderInv
<1>8. pc' \in 3 .. 8 => begun' > 0 /\ NotAhead(ch', begun')
  BY <1>1, <1>4, <1>5 DEF BootInv, LoaderInv
<1>9. NotAhead(ch', begun') => NotAhead(ch, begun)'
  BY DEF NotAhead
<1>10. loader' = TimerZero /\ TimerZero' = TimerZero
  BY <1>1 DEF BootInv, LoaderInv, TimerZero
<1>11. ASSUME pc' = 8
       PROVE  /\ "full" \in ch'.ter /\ ch'.time > 0
              /\ ch'.full <= now' + BootTurn'
              /\ Seen' * SyncStep <= ch'.time - begun' + SyncStep + Allowance'
  <2>1. pc = 7 /\ w.reg = "TESR" /\ w.to = {"full"}
    BY <1>1, <1>4, <1>11
  <2>2. ch.tdfr = CntSpan - 1 /\ ch.step = BootStep
    BY <2>1 DEF BootInv, LoaderInv
  <2>3. /\ Turn' = Turn /\ BootTurn' = BootTurn /\ Turn \in Nat
        /\ BootTurn \in Nat /\ SyncStep \in Nat
    BY TurnsOK, TimerUnitAssumption DEF Turn, BootTurn
  <2>4. "full" \in ch'.ter /\ ch'.full <= now' + BootTurn'
    BY <1>1, <1>6, <2>1, <2>2, <2>3
  <2>5. /\ ch' \in Channel /\ begun' \in Nat /\ begun' > 0
        /\ begun' <= ch'.time /\ ch'.tcnt * SyncStep <= ch'.time - begun'
    BY <1>1, <1>8, <1>11 DEF EarlyInv, TimerInv, TimerTypeOK, NotAhead
  <2>6. ch'.time \in Nat /\ ch'.tcnt \in Nat /\ ch'.full \in Nat \union {-1}
    BY <2>5 DEF Channel, Register, Never
  <2>7. Seen' = ch'.tcnt
    BY <1>10, <2>6 DEF Seen, Elapsed, TimerZero
  <2>8. Allowance' \in Nat
    BY <2>3, <2>5, <2>6 DEF Allowance
  <2>9. QED
    BY <2>3, <2>4, <2>5, <2>6, <2>7, <2>8
<1>12. QED
  BY <1>1, <1>7, <1>8, <1>9, <1>10, <1>11 DEF LoaderInv
LEMMA LoaderInvNext ==
  ASSUME SyncStep <= BootStep, BootInv, EarlyInv', [Next]_vars
  PROVE  LoaderInv'
<1> USE DEF Handover
<1>1. /\ ch \in Channel /\ now \in Nat /\ now > 0 /\ begun \in Nat
      /\ begun <= now /\ pc \in 1 .. 17
      /\ ch.full # Never <=> Enabled(ch, "full")
  BY DEF BootInv, EarlyInv, SetUpInv, LoaderInv, TimerInv, TimerTypeOK,
         GoodChannel, Running
<1>2. /\ Turn' = Turn /\ BootTurn' = BootTurn /\ TimerZero' = TimerZero
      /\ BootTurn \in Nat
  BY TurnsOK DEF Turn, BootTurn, TimerZero
<1>3. CASE Pass
  <2>1. /\ now' = now + 1 /\ ch' = ch /\ pc' = pc /\ loader' = loader
        /\ begun' = begun
    BY <1>3 DEF Pass, bootVars
  <2>2. /\ Seen' = Seen /\ Allowance' = Allowance
        /\ NotAhead(ch, begun)' <=> NotAhead(ch, begun)
    BY <1>2, <2>1 DEF Seen, Elapsed, Allowance, NotAhead
  <2>3. ch.full <= now + BootTurn => ch.full <= now + 1 + BootTurn
    BY <1>1, <1>2 DEF Channel, Never
  <2>4. QED
    BY <1>1, <1>2, <2>1, <2>2, <2>3 DEF BootInv, LoaderInv
<1>4. CASE Match
  <2> DEFINE d == [ch EXCEPT !.full = Never]
  <2>1. /\ pc' = pc /\ now' = now /\ begun' = begun /\ loader' = loader
        /\ ch' = FullMatch(d, now) /\ ch.full # Never
    BY <1>4 DEF Match, kernelVars, bootVars, Due
  <2>2. /\ Enabled(d, "full") /\ d \in Channel /\ d.step = ch.step
        /\ d.tdfr = ch.tdfr /\ d.tsr = ch.tsr /\ d.ter = ch.ter
    BY <1>1, <2>1 DEF Channel, Enabled
  <2> HIDE DEF d
  <2>3. /\ ch'.tcnt = 0 /\ ch'.time = now /\ ch'.step = ch.step
        /\ ch'.tdfr = ch.tdfr /\ ch'.tsr = ch.tsr /\ ch'.ter = ch.ter
        /\ ch'.full = now + ch.tdfr * ch.step
    BY <2>1, <2>2 DEF FullMatch, Channel
  <2>4. pc = 8 => ch'.full = now + BootTurn
    BY <2>3 DEF BootInv, LoaderInv, BootTurn
  <2>5. NotAhead(ch, begun)'
    <3>1. 0 * SyncStep = 0
      BY TimerUnitAssumption
    <3>2. QED
      BY <1>1, <2>1, <2>3, <3>1 DEF NotAhead
  <2>6. pc = 8 => Seen' * SyncStep <= ch'.time - begun' + SyncStep + Allowance'
    BY <1>4, MatchSeen
  <2>7. QED
    BY <1>1, <1>2, <2>1, <2>3, <2>4, <2>5, <2>6 DEF BootInv, LoaderInv
<1>5. CASE SetUp
  BY <1>5, SetUpSeen
<1>6. CASE GetTimer \/ ResetTimer
  BY <1>6, ReadsSeen
<1>7. CASE Unmask \/ ReadCounter \/ Interrupt \/ Ack \/ Tick
             \/ UpdateWallTime \/ ChangeClock \/ End
  <2>1. /\ pc \in {16, 17} /\ pc' \in {16, 17} /\ now' = now /\ loader' = loader
    <3>1. Interrupt \/ Ack \/ Tick \/ UpdateWallTime \/ ChangeClock \/ End
            => pc = 17
      BY <1>1 DEF Interrupt, Ack, Tick, UpdateWallTime, ChangeClock, End,
                  BootInv, EarlyInv, SetUpInv, Running
    <3>2. QED
      BY <1>7, <3>1
         DEF Unmask, ReadCounter, Interrupt, Ack, Tick, UpdateWallTime,
             ChangeClock, End, bootVars, SetupIrq, Running
  <2>2. QED
    BY <1>1, <1>2, <2>1 DEF BootInv, LoaderInv
<1>8. CASE UNCHANGED vars
  <2>1. Seen' = Seen /\ Allowance' = Allowance
    BY <1>2, <1>8 DEF vars, Seen, Elapsed, Allowance
  <2>2. NotAhead(ch, begun)' <=> NotAhead(ch, begun)
    BY <1>8 DEF vars, NotAhead
  <2>3. QED
    BY <1>2, <1>8, <2>1, <2>2 DEF vars, BootInv, LoaderInv
<1>9. QED
  BY <1>3, <1>4, <1>5, <1>6, <1>7, <1>8 DEF Next

(* The boot loader's timestamp is ahead of the time by at most as much     *)
(* again, and one turn of the counter.                                     *)
THEOREM TimestampBounded ==
  ASSUME SyncStep <= BootStep
  PROVE  Spec => []TimestampAtMostTwice
<1>1. Init => BootInv
  BY EarlyInvInit, BootInvInit DEF BootInv
<1>2. BootInv /\ [Next]_vars => BootInv'
  BY EarlyInvNext, LoaderInvNext DEF BootInv
<1>3. BootInv => TimestampAtMostTwice
  <2> SUFFICES ASSUME BootInv
               PROVE  loader.timestamp * SyncStep
                        <= 2 * (now - begun) + CntSpan * SyncStep
    BY DEF TimestampAtMostTwice
  <2>1. /\ ch \in Channel /\ now \in Nat /\ begun \in Nat /\ begun <= now
        /\ ch.time <= now /\ loader.timestamp \in Nat
        /\ loader.lastdec \in Register
    BY DEF BootInv, EarlyInv, SetUpInv, TimerInv, TimerTypeOK, GoodChannel
  <2>2. /\ Turn \in Nat /\ BootTurn \in Nat /\ SyncStep \in Nat
        /\ Turn + SyncStep = CntSpan * SyncStep
    BY TurnsOK, TimerUnitAssumption
  <2>3. CASE pc # Handover
    <3>1. loader.timestamp = 0 /\ 0 * SyncStep = 0
      BY <2>2, <2>3 DEF BootInv, LoaderInv, TimerZero
    <3>2. QED
      BY <2>1, <2>2, <3>1
  <2>4. CASE pc = Handover
    <3> DEFINE v == loader.timestamp
               a == Elapsed(ch.tcnt)
    <3>1. a \in Nat /\ v \in Nat
      BY <2>1, ElapsedOK DEF Channel
    <3>2. /\ (v + a) * SyncStep <= ch.time - begun + SyncStep + Allowance
          /\ ch.full <= now + BootTurn
      BY <2>4 DEF BootInv, LoaderInv, Seen
    <3> HIDE DEF a, v
    <3>3. v * SyncStep <= (v + a) * SyncStep /\ v * SyncStep \in Nat
          /\ (v + a) * SyncStep \in Nat
      BY <2>2, <3>1, Products
    <3>4. Allowance <= now - begun + Turn /\ Allowance \in Nat
      BY <2>1, <2>2, <3>2 DEF Allowance, Channel, Never
    <3>5. ch.time \in Nat
      BY <2>1 DEF Channel
    <3>6. v * SyncStep <= 2 * (now - begun) + CntSpan * SyncStep
      BY <2>1, <2>2, <3>2, <3>3, <3>4, <3>5
    <3>7. QED
      BY <3>6 DEF v
  <2>5. QED
    BY <2>3, <2>4
<1>4. QED
  BY <1>1, <1>2, <1>3, PTL DEF Spec
=============================================================================
