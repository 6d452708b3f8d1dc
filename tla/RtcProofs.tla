------------------------------ MODULE RtcProofs ------------------------------
(***************************************************************************)
(* GetTime and sleep for any time of day, either data mode and any number  *)
(* of seconds: a time is read exactly unless a minute ends in between, and *)
(* sleep waits for as many ticks of the clock as it is given seconds.      *)
(*                                                                         *)
(* What carries both is how far the clock can be from the last time read:  *)
(* one tick, since the next read of the seconds comes before a second one. *)
(***************************************************************************)
EXTENDS Rtc, SequenceTheorems, TLAPS

-----------------------------------------------------------------------------
(* The inductive invariant.                                                 *)

\* What the registers show at second s.
RegistersAt(s) ==
    <<Encoded(s % 60), Encoded((s \div 60) % 60), Encoded(s \div 3600), 4,
      Encoded(17), Encoded(10), Encoded(24), IF binary THEN 6 ELSE 2>>

\* The registers read so far are those of the moment GetTime began, all of
\* them unless a minute has ended since.
ReadSoFar ==
    /\ got # << >> => pc \in {"first", "poll"} /\ got[1] = RegistersAt(began)[1]
    /\ Len(got) = 8 => got[8] = RegistersAt(began)[8]
    /\ ~ ticked \/ began % 60 # 59 =>
        \A j \in 1 .. Len(got) : got[j] = RegistersAt(began)[j]

\* GetTime has begun, or has just returned.
Began == got # << >> \/ pc = "while"

OneTickOff ==
    /\ Began => t = IF ticked THEN (began + 1) % Period ELSE began
    /\ pc = "while" => CurrentTime.sec = began % 60

\* The second of the minute that sleep counts from.
Origin == IF pc = "first" THEN began % 60 ELSE oldtime.sec

\* As long as fewer ticks than seconds asked for have passed, the clock and the last
\* time read are where so many ticks put them.
Counted ==
    /\ pc = "idle" \/ (pc = "first" /\ got = << >>) => ticks = 0
    /\ pc = "poll" \/ Began =>
        (ticks < seconds => t % 60 = (Origin + ticks) % 60)
    /\ Began => (ticks < seconds /\ ~ ticked => began % 60 = (Origin + ticks) % 60)
    /\ Began => (ticks < seconds /\ ticked =>
                    ticks >= 1 /\ began % 60 = (Origin + ticks - 1) % 60)

RtcInv == TypeOK /\ ReadSoFar /\ OneTickOff /\ Counted /\ WaitsForTicks

-----------------------------------------------------------------------------
(* The calendar and the encodings.                                          *)

\* The day is some minutes long.
LEMMA PeriodBounds == Period \in Nat /\ Period > 0
<1>1. PICK m \in 1 .. 1440 : Period = 60 * m
  BY PeriodAssumption
<1> QED
  BY <1>1

\* The fields of a time of day.
LEMMA Fields ==
    ASSUME NEW s \in 0 .. (Period - 1)
    PROVE  s % 60 \in 0 .. 59 /\ (s \div 60) % 60 \in 0 .. 59 /\ s \div 3600 \in 0 .. 23
<1>1. PICK m \in 1 .. 1440 : Period = 60 * m
  BY PeriodAssumption
<1>2. s \in Nat
  BY <1>1
<1>3. s % 60 \in 0 .. 59
  BY <1>2
<1>4. (s \div 60) % 60 \in 0 .. 59
  BY <1>2
<1>5. s \div 60 \in 0 .. (m - 1)
  BY <1>1
<1>6. s \div 3600 = (s \div 60) \div 60
  BY <1>2
<1>7. (s \div 60) \div 60 \in 0 .. 23
  BY <1>5
<1> QED
  BY <1>3, <1>4, <1>6, <1>7

\* The next second: the day may start over.
LEMMA NextSecond ==
    ASSUME NEW s \in 0 .. (Period - 1)
    PROVE  /\ (s + 1) % Period \in 0 .. (Period - 1)
           /\ ((s + 1) % Period) % 60 = ((s % 60) + 1) % 60
           /\ s % 60 # 59 => /\ ((s + 1) % Period) \div 60 = s \div 60
                             /\ ((s + 1) % Period) \div 3600 = s \div 3600
<1>1. PICK m \in 1 .. 1440 : Period = 60 * m
  BY PeriodAssumption
<1>2. (s + 1) % Period = (IF s + 1 = Period THEN 0 ELSE s + 1)
  BY <1>1
<1>3. s + 1 = Period => s % 60 = 59
  <2>1. s + 1 = Period => s = 60 * (m - 1) + 59
    BY <1>1
  <2>2. (60 * (m - 1) + 59) % 60 = 59
    OBVIOUS
  <2> QED
    BY <2>1, <2>2
<1>4. CASE s + 1 = Period
  <2>1. s % 60 = 59 /\ (s + 1) % Period = 0
    BY <1>2, <1>3, <1>4
  <2>2. 0 % 60 = 0 /\ (59 + 1) % 60 = 0
    OBVIOUS
  <2> QED
    BY <2>1, <2>2, PeriodBounds
<1>5. CASE s + 1 # Period
  <2>1. s + 1 \in 0 .. (Period - 1) /\ (s + 1) % Period = s + 1
    BY <1>1, <1>2, <1>5
  <2>2. (s + 1) % 60 = ((s % 60) + 1) % 60
    OBVIOUS
  <2>3. s % 60 # 59 => (s + 1) \div 60 = s \div 60 /\ (s + 1) \div 3600 = s \div 3600
    BY <1>1
  <2> QED
    BY <2>1, <2>2, <2>3
<1> QED
  BY <1>4, <1>5

\* Counting seconds within the minute.
LEMMA SecondsWrap ==
    ASSUME NEW n \in Nat
    PROVE  n % 60 <= n /\ ((n % 60) + 1) % 60 = (n + 1) % 60
OBVIOUS

\* An encoded number is a byte, and BcdToBin undoes the encoding.
LEMMA Decoded ==
    ASSUME NEW v \in 0 .. 99
    PROVE  /\ Encoded(v) \in 0 .. 255
           /\ binary => Encoded(v) = v
           /\ ~ binary => BcdToBin(Encoded(v)) = v
BY DEF Encoded, BcdToBin

\* What the registers hold.
LEMMA RegistersTyped ==
    ASSUME NEW s \in 0 .. (Period - 1)
    PROVE  RegistersAt(s) \in [1 .. 8 -> Byte]
<1>1. /\ Encoded(s % 60) \in Byte /\ Encoded((s \div 60) % 60) \in Byte
      /\ Encoded(s \div 3600) \in Byte
      /\ Encoded(17) \in Byte /\ Encoded(10) \in Byte /\ Encoded(24) \in Byte
  <2>1. s % 60 \in 0 .. 99 /\ (s \div 60) % 60 \in 0 .. 99 /\ s \div 3600 \in 0 .. 99
    BY Fields
  <2>2. 17 \in 0 .. 99 /\ 10 \in 0 .. 99 /\ 24 \in 0 .. 99
    OBVIOUS
  <2>3. \A v \in 0 .. 99 : Encoded(v) \in Byte
    BY Decoded DEF Byte
  <2> QED
    BY <2>1, <2>2, <2>3
<1>2. (IF binary THEN 6 ELSE 2) \in Byte /\ 4 \in Byte
  BY DEF Byte
<1> HIDE DEF Byte
<1> QED
  BY <1>1, <1>2 DEF RegistersAt

\* The registers are those of the present second.
LEMMA RegistersNow == Registers = RegistersAt(t)
BY DEF Registers, RegistersAt, Clock

\* Within a minute only the seconds change.
LEMMA SameMinute ==
    ASSUME NEW s \in 0 .. (Period - 1), s % 60 # 59
    PROVE  \A j \in 2 .. 8 : RegistersAt((s + 1) % Period)[j] = RegistersAt(s)[j]
<1> DEFINE u == (s + 1) % Period
<1>1. u \div 60 = s \div 60 /\ u \div 3600 = s \div 3600
  BY NextSecond
<1> HIDE DEF u
<1>2. /\ RegistersAt(u)[2] = RegistersAt(s)[2] /\ RegistersAt(u)[3] = RegistersAt(s)[3]
      /\ RegistersAt(u)[4] = RegistersAt(s)[4] /\ RegistersAt(u)[5] = RegistersAt(s)[5]
      /\ RegistersAt(u)[6] = RegistersAt(s)[6] /\ RegistersAt(u)[7] = RegistersAt(s)[7]
      /\ RegistersAt(u)[8] = RegistersAt(s)[8]
  BY <1>1 DEF RegistersAt
<1>3. \A j \in 2 .. 8 : j = 2 \/ j = 3 \/ j = 4 \/ j = 5 \/ j = 6 \/ j = 7 \/ j = 8
  OBVIOUS
<1> QED
  BY <1>2, <1>3 DEF u

\* What GetTime makes of bytes is a time.
LEMMA TimeOfBytes ==
    ASSUME NEW r \in [1 .. 8 -> Byte]
    PROVE  TimeOf(r) \in Time
<1>1. \A v \in Byte : BcdToBin(v) \in Byte
  BY DEF BcdToBin, Byte
<1>2. /\ r[1] \in Byte /\ r[2] \in Byte /\ r[3] \in Byte /\ r[4] \in Byte /\ r[5] \in Byte
      /\ r[6] \in Byte /\ r[7] \in Byte
  OBVIOUS
<1>3. (r[4] - 1) % 256 \in Byte
  BY <1>2 DEF Byte
<1>4. \A v \in Byte : v + 2000 \in 2000 .. 2255
  BY DEF Byte
<1> HIDE DEF Byte
<1> QED
  BY <1>1, <1>2, <1>3, <1>4 DEF TimeOf, Time

\* The seconds come out decoded, in the data mode register B tells.
LEMMA SecondsOf ==
    ASSUME NEW s \in 0 .. (Period - 1), NEW r, binary \in BOOLEAN,
           r[1] = RegistersAt(s)[1], r[8] = RegistersAt(s)[8]
    PROVE  TimeOf(r).sec = s % 60
<1>1. r[1] = Encoded(s % 60) /\ r[8] = IF binary THEN 6 ELSE 2
  BY DEF RegistersAt
<1>2. IsBcd(r[8]) <=> ~ binary
  BY <1>1 DEF IsBcd
<1>3. s % 60 \in 0 .. 99
  BY Fields
<1> QED
  BY <1>1, <1>2, <1>3, Decoded DEF TimeOf

\* All eight registers of one second give that second.
LEMMA TimeOfRegisters ==
    ASSUME NEW s \in 0 .. (Period - 1), NEW r, binary \in BOOLEAN,
           \A j \in 1 .. 8 : r[j] = RegistersAt(s)[j]
    PROVE  TimeOf(r) = Clock(s)
<1>1. /\ r[1] = Encoded(s % 60) /\ r[2] = Encoded((s \div 60) % 60)
      /\ r[3] = Encoded(s \div 3600) /\ r[4] = 4 /\ r[5] = Encoded(17) /\ r[6] = Encoded(10)
      /\ r[7] = Encoded(24) /\ r[8] = IF binary THEN 6 ELSE 2
  BY DEF RegistersAt
<1>2. IsBcd(r[8]) <=> ~ binary
  BY <1>1 DEF IsBcd
<1> DEFINE bin(v) == IF IsBcd(r[8]) THEN BcdToBin(v) ELSE v
<1>3. \A v \in 0 .. 99 : bin(Encoded(v)) = v
  BY <1>2, Decoded
<1>4. s % 60 \in 0 .. 99 /\ (s \div 60) % 60 \in 0 .. 99 /\ s \div 3600 \in 0 .. 99
  BY Fields
<1>5. /\ bin(r[1]) = s % 60 /\ bin(r[2]) = (s \div 60) % 60 /\ bin(r[3]) = s \div 3600
      /\ bin(r[5]) = 17 /\ bin(r[6]) = 10 /\ bin(r[7]) = 24 /\ (r[4] - 1) % 256 = 3
  <2> HIDE DEF bin
  <2> QED
    BY <1>1, <1>3, <1>4
<1>6. TimeOf(r) = [sec |-> bin(r[1]), min |-> bin(r[2]), hour |-> bin(r[3]),
                   weekDay |-> (r[4] - 1) % 256, day |-> bin(r[5]), month |-> bin(r[6]),
                   year |-> bin(r[7]) + 2000]
  BY DEF TimeOf
<1> HIDE DEF bin
<1> QED
  BY <1>5, <1>6 DEF Clock

-----------------------------------------------------------------------------
(* The steps.                                                               *)

\* The data mode does not change, so neither does the meaning of a register.
LEMMA SameMode ==
    ASSUME binary' = binary
    PROVE  RegistersAt(began)' = RegistersAt(began')
BY DEF RegistersAt, Encoded

\* The types, for reference by number.
LEMMA Typed ==
    ASSUME RtcInv
    PROVE  /\ t \in 0 .. (Period - 1) /\ began \in 0 .. (Period - 1) /\ Period \in Nat
           /\ binary \in BOOLEAN /\ ticked \in BOOLEAN
           /\ got \in Seq(Byte) /\ Len(got) \in 0 .. 8
           /\ oldtime \in Time /\ CurrentTime \in Time
           /\ oldtime.sec \in 0 .. 255 /\ CurrentTime.sec \in 0 .. 255
           /\ seconds \in 0 .. 255 /\ ticks \in 0 .. seconds
           /\ began % 60 \in 0 .. 59 /\ t % 60 \in 0 .. 59
<1>1. TypeOK
  BY DEF RtcInv
<1>2. Period \in Nat
  BY PeriodBounds
<1>3. oldtime.sec \in 0 .. 255 /\ CurrentTime.sec \in 0 .. 255
  BY <1>1 DEF TypeOK, Time, Byte
<1>4. Len(got) \in 0 .. 8
  <2>1. got \in Seq(Byte) /\ Len(got) <= 8
    BY <1>1 DEF TypeOK
  <2> DEFINE n == Len(got)
  <2>2. n \in Nat /\ n <= 8
    BY <2>1, LenProperties
  <2> HIDE DEF n
  <2>3. n \in 0 .. 8
    BY <2>2
  <2> QED
    BY <2>3 DEF n
<1>5. t \in 0 .. (Period - 1) /\ began \in 0 .. (Period - 1)
  BY <1>1 DEF TypeOK
<1>6. began % 60 \in 0 .. 59 /\ t % 60 \in 0 .. 59
  BY <1>5, Fields
<1> QED
  BY <1>1, <1>2, <1>3, <1>4, <1>5, <1>6 DEF TypeOK, Byte

LEMMA InitInv == Init => RtcInv
<1> SUFFICES ASSUME Init PROVE RtcInv
  OBVIOUS
<1>1. t \in 0 .. (Period - 1) /\ began = t
  BY StartsAssumption DEF Init
<1>2. ticked \in BOOLEAN
  <2>1. ticked = FALSE
    BY DEF Init
  <2> QED
    BY <2>1, Zenon
<1>3. Clock(0) \in Time
  BY DEF Clock, Time, Byte
<1>4. TypeOK
  <2>1. got \in Seq(Byte) /\ Len(got) <= 8 /\ seconds \in Byte /\ ticks \in 0 .. seconds
    BY DEF Init, Byte
  <2>2. oldtime = Clock(0) /\ CurrentTime = Clock(0)
    BY DEF Init
  <2>3. binary \in BOOLEAN
    BY DEF Init
  <2>4. pc \in {"idle", "first", "poll", "while", "awake"}
    BY DEF Init
  <2>5. oldtime \in Time /\ CurrentTime \in Time /\ began \in 0 .. (Period - 1)
    BY <1>1, <1>3, <2>2
  <2> QED
    BY <1>1, <1>2, <2>1, <2>3, <2>4, <2>5 DEF TypeOK
<1>5. ReadSoFar /\ OneTickOff /\ Counted /\ WaitsForTicks
  BY DEF Init, ReadSoFar, OneTickOff, Counted, Began, WaitsForTicks
<1> QED
  BY <1>4, <1>5 DEF RtcInv

\* A tick: the only one since the seconds were read.
LEMMA TickKeeps == RtcInv /\ Tick => RtcInv'
<1> SUFFICES ASSUME RtcInv, Tick PROVE RtcInv'
  OBVIOUS
<1>1. /\ pc \in {"first", "poll", "while"} /\ ~ ticked /\ t' = (t + 1) % Period /\ ticked'
      /\ ticks' = (IF (pc = "first" /\ got = << >>) \/ ticks = seconds THEN ticks ELSE ticks + 1)
      /\ UNCHANGED <<binary, pc, got, oldtime, CurrentTime, seconds, began>>
  BY DEF Tick
<1>2. /\ t \in 0 .. (Period - 1) /\ began \in 0 .. (Period - 1)
      /\ oldtime.sec \in 0 .. 255 /\ seconds \in 0 .. 255 /\ ticks \in 0 .. seconds
      /\ began % 60 \in 0 .. 59 /\ t % 60 \in 0 .. 59
  BY Typed
<1>3. t' \in 0 .. (Period - 1) /\ t' % 60 = ((t % 60) + 1) % 60
  BY <1>1, <1>2, NextSecond
<1>4. ticks' \in 0 .. seconds
  BY <1>1, <1>2
<1>5. TypeOK'
  BY <1>1, <1>3, <1>4 DEF RtcInv, TypeOK, Tick
<1>6. ReadSoFar'
  BY <1>1, SameMode DEF RtcInv, ReadSoFar
<1>7. OneTickOff'
  BY <1>1 DEF RtcInv, OneTickOff, Began
<1>8. Counted'
  <2>1. Origin' = Origin /\ Origin \in 0 .. 255
    BY <1>1, <1>2 DEF Origin
  <2>2. pc = "idle" \/ (pc = "first" /\ got = << >>) => ticks' = 0
    BY <1>1 DEF RtcInv, Counted
  <2>3. ASSUME pc = "poll" \/ Began, ticks' < seconds
        PROVE  t' % 60 = (Origin + ticks') % 60
    <3>1. ticks' = ticks + 1 /\ t % 60 = (Origin + ticks) % 60
      BY <1>1, <1>2, <2>3 DEF RtcInv, Counted, Began
    <3>2. Origin + ticks \in Nat /\ Origin + ticks + 1 = Origin + ticks'
      BY <1>2, <2>1, <3>1
    <3>3. (((Origin + ticks) % 60) + 1) % 60 = (Origin + ticks + 1) % 60
      BY <3>2, SecondsWrap
    <3> QED
      BY <1>3, <3>1, <3>2, <3>3
  <2>4. ASSUME Began, ticks' < seconds
        PROVE  ticks' >= 1 /\ began % 60 = (Origin + ticks' - 1) % 60
    <3>1. ticks' = ticks + 1 /\ began % 60 = (Origin + ticks) % 60
      BY <1>1, <1>2, <2>4 DEF RtcInv, Counted, Began
    <3> QED
      BY <1>2, <2>1, <3>1
  <2> QED
    BY <1>1, <2>1, <2>2, <2>3, <2>4 DEF Counted, Began
<1>9. WaitsForTicks'
  BY <1>1 DEF WaitsForTicks
<1> QED
  BY <1>5, <1>6, <1>7, <1>8, <1>9 DEF RtcInv

LEMMA SleepKeeps ==
    ASSUME RtcInv, NEW n \in Naps, Sleep(n)
    PROVE  RtcInv'
<1>1. /\ pc = "idle" /\ pc' = "first" /\ seconds' = n
      /\ UNCHANGED <<t, binary, got, oldtime, CurrentTime, ticked, began, ticks>>
  BY DEF Sleep
<1>2. n \in 0 .. 255
  BY NapsAssumption
<1>3. got = << >> /\ ticks = 0
  BY <1>1 DEF RtcInv, ReadSoFar, Counted
<1>4. TypeOK'
  BY <1>1, <1>2, <1>3 DEF RtcInv, TypeOK, Byte
<1>5. ReadSoFar'
  BY <1>1, <1>3, SameMode DEF RtcInv, ReadSoFar
<1>6. OneTickOff' /\ Counted' /\ WaitsForTicks'
  BY <1>1, <1>3 DEF OneTickOff, Counted, Began, WaitsForTicks
<1> QED
  BY <1>4, <1>5, <1>6 DEF RtcInv

\* The first register is the seconds; GetTime's moment is when it is read.
LEMMA FirstReadKeeps == RtcInv /\ RtcRead /\ got = << >> => RtcInv'
<1> SUFFICES ASSUME RtcInv, RtcRead, got = << >> PROVE RtcInv'
  OBVIOUS
<1>1. /\ pc \in {"first", "poll"} /\ got' = Append(got, RegistersAt(t)[1])
      /\ began' = t /\ ticked' = FALSE
      /\ UNCHANGED <<t, binary, pc, oldtime, CurrentTime, seconds, ticks>>
  BY RegistersNow DEF RtcRead
<1>2. /\ t \in 0 .. (Period - 1) /\ t % 60 \in 0 .. 59
      /\ oldtime.sec \in 0 .. 255 /\ seconds \in 0 .. 255 /\ ticks \in 0 .. seconds
  BY Typed
<1>3. RegistersAt(t)[1] \in Byte
  BY <1>2, RegistersTyped
<1>4. got' \in Seq(Byte) /\ Len(got') = 1 /\ got'[1] = RegistersAt(t)[1] /\ got' # << >>
  <2> DEFINE reg == RegistersAt(t)[1]
  <2>1. got' = Append(<< >>, reg) /\ reg \in Byte
    BY <1>1, <1>3
  <2> HIDE DEF reg
  <2>2. got' \in Seq(Byte) /\ Len(got') = 1 /\ got'[1] = reg
    <3>1. << >> \in Seq(Byte) /\ Len(<< >>) = 0
      BY EmptySeq
    <3> QED
      BY <2>1, <3>1, AppendProperties
  <2>3. got' # << >>
    <3>1. << >> \in Seq(Byte) /\ Len(<< >>) = 0
      BY EmptySeq
    <3> QED
      BY <2>2, <3>1
  <2> QED
    BY <2>2, <2>3 DEF reg
<1>5. TypeOK'
  <2>1. got' \in Seq(Byte) /\ Len(got') <= 8
    BY <1>4
  <2>2. /\ t' \in 0 .. (Period - 1) /\ began' \in 0 .. (Period - 1)
        /\ binary' \in BOOLEAN /\ ticked' \in BOOLEAN
        /\ pc' \in {"idle", "first", "poll", "while", "awake"}
        /\ oldtime' \in Time /\ CurrentTime' \in Time
        /\ seconds' \in Byte /\ ticks' \in 0 .. seconds'
    BY <1>1, Zenon DEF RtcInv, TypeOK
  <2> QED
    BY <2>1, <2>2, Zenon DEF TypeOK
<1>6. ReadSoFar'
  <2>1. RegistersAt(began)' = RegistersAt(t)
    BY <1>1, SameMode
  <2>2. got'[1] = RegistersAt(t)[1] /\ \A j \in 1 .. Len(got') : j = 1
    BY <1>4
  <2> QED
    BY <1>1, <1>4, <2>1, <2>2 DEF ReadSoFar
<1>7. OneTickOff'
  BY <1>1, <1>4 DEF OneTickOff, Began
<1>8. Counted'
  <2>1. pc = "first" => ticks = 0 /\ Origin' = t % 60
    BY <1>1 DEF RtcInv, Counted, Origin
  <2>2. pc = "poll" => Origin' = oldtime.sec /\ Origin = oldtime.sec
    BY <1>1 DEF Origin
  <2>3. ticks < seconds => t % 60 = (Origin' + ticks) % 60
    <3>1. CASE pc = "first"
      BY <1>2, <2>1, <3>1
    <3>2. CASE pc = "poll"
      BY <2>2, <3>2 DEF RtcInv, Counted
    <3> QED
      BY <1>1, <3>1, <3>2
  <2> QED
    BY <1>1, <1>4, <2>3 DEF Counted, Began
<1>9. WaitsForTicks'
  BY <1>1 DEF WaitsForTicks
<1> QED
  BY <1>5, <1>6, <1>7, <1>8, <1>9 DEF RtcInv

\* The other registers: in the same minute the same as when GetTime began.
LEMMA LaterReadKeeps == RtcInv /\ RtcRead /\ got # << >> => RtcInv'
<1> SUFFICES ASSUME RtcInv, RtcRead, got # << >> PROVE RtcInv'
  OBVIOUS
<1> DEFINE k == Len(got) + 1
           reg == RegistersAt(t)[k]
<1>1. /\ pc \in {"first", "poll"} /\ Len(got) < 8 /\ got' = Append(got, reg)
      /\ UNCHANGED <<t, binary, pc, oldtime, CurrentTime, seconds, ticks, began, ticked>>
  BY RegistersNow DEF RtcRead
<1>2. /\ t \in 0 .. (Period - 1) /\ began \in 0 .. (Period - 1)
      /\ got \in Seq(Byte) /\ Len(got) \in 0 .. 8
  BY Typed
<1>3. k \in 2 .. 8
  <2>1. Len(got) # 0
    BY <1>2, EmptySeq
  <2> QED
    BY <1>1, <1>2, <2>1
<1>4. reg \in Byte
  <2>1. RegistersAt(t) \in [1 .. 8 -> Byte]
    BY <1>2, RegistersTyped
  <2> QED
    BY <1>3, <2>1
<1>5. ~ ticked \/ began % 60 # 59 => reg = RegistersAt(began)[k]
  <2>1. t = IF ticked THEN (began + 1) % Period ELSE began
    BY DEF RtcInv, OneTickOff, Began
  <2>2. CASE ~ ticked
    BY <2>1, <2>2
  <2>3. CASE ticked /\ began % 60 # 59
    BY <1>2, <1>3, <2>1, <2>3, SameMinute
  <2> QED
    BY <2>2, <2>3
<1>6. k = 8 => reg = RegistersAt(began)[8]
  BY DEF RegistersAt
<1> HIDE DEF reg
<1>7. /\ got' \in Seq(Byte) /\ Len(got') = k /\ got'[k] = reg
      /\ \A j \in 1 .. Len(got) : got'[j] = got[j]
  BY <1>1, <1>2, <1>4
<1>8. TypeOK'
  BY <1>1, <1>3, <1>7 DEF RtcInv, TypeOK
<1>9. ReadSoFar'
  <2>1. RegistersAt(began)' = RegistersAt(began)
    BY <1>1, SameMode
  <2>2. got[1] = RegistersAt(began)[1] /\ got'[1] = got[1]
    BY <1>2, <1>3, <1>7 DEF RtcInv, ReadSoFar
  <2>3. ASSUME ~ ticked \/ began % 60 # 59, NEW j \in 1 .. Len(got')
        PROVE  got'[j] = RegistersAt(began)[j]
    <3>1. CASE j = k
      BY <1>5, <1>7, <2>3, <3>1
    <3>2. CASE j # k
      <4>1. j \in 1 .. Len(got)
        BY <1>2, <1>7, <3>2
      <4> QED
        BY <1>7, <2>3, <4>1 DEF RtcInv, ReadSoFar
    <3> QED
      BY <3>1, <3>2
  <2>4. Len(got') = 8 => got'[8] = RegistersAt(began)[8]
    BY <1>6, <1>7
  <2> QED
    BY <1>1, <2>1, <2>2, <2>3, <2>4 DEF ReadSoFar
<1>10. got' # << >>
  BY <1>1, <1>2, <1>4
<1>11. OneTickOff' /\ Counted' /\ WaitsForTicks'
  BY <1>1, <1>10 DEF RtcInv, OneTickOff, Counted, Began, Origin, WaitsForTicks
<1> QED
  BY <1>8, <1>9, <1>11 DEF RtcInv

\* GetTime returns.
LEMMA GetTimeKeeps == RtcInv /\ GetTime => RtcInv'
<1> SUFFICES ASSUME RtcInv, GetTime PROVE RtcInv'
  OBVIOUS
<1>1. /\ Len(got) = 8 /\ CurrentTime' = TimeOf(got)
      /\ oldtime' = (IF pc = "first" THEN TimeOf(got) ELSE oldtime)
      /\ pc' = "while" /\ got' = << >>
      /\ UNCHANGED <<t, binary, seconds, ticked, began, ticks>>
  BY DEF GetTime
<1>2. /\ began \in 0 .. (Period - 1) /\ binary \in BOOLEAN /\ got \in Seq(Byte)
      /\ oldtime \in Time
  BY Typed
<1>3. got # << >>
  <2>1. Len(<< >>) = 0
    BY EmptySeq
  <2>2. got = << >> => Len(got) = 0
    BY <2>1, Zenon
  <2>3. Len(got) = 8
    BY <1>1
  <2> DEFINE n == Len(got)
  <2> HIDE DEF n
  <2>4. n = 8 => n # 0
    OBVIOUS
  <2> QED
    BY <2>2, <2>3, <2>4, Zenon DEF n
<1>4. pc \in {"first", "poll"} /\ got[1] = RegistersAt(began)[1] /\ got[8] = RegistersAt(began)[8]
  BY <1>1, <1>3 DEF RtcInv, ReadSoFar
<1>5. TimeOf(got).sec = began % 60
  BY <1>2, <1>4, SecondsOf
<1>6. TimeOf(got) \in Time
  <2>1. got \in [1 .. 8 -> Byte]
    BY <1>1, <1>2, LenProperties
  <2> QED
    BY <2>1, TimeOfBytes
<1>7. TypeOK'
  <2>1. oldtime' \in Time /\ CurrentTime' \in Time
    BY <1>1, <1>2, <1>6
  <2> QED
    BY <1>1, <2>1 DEF RtcInv, TypeOK
<1>8. ReadSoFar'
  BY <1>1 DEF ReadSoFar
<1>9. OneTickOff'
  BY <1>1, <1>3, <1>5 DEF RtcInv, OneTickOff, Began
<1>10. Counted'
  <2>1. Origin' = Origin
    BY <1>1, <1>4, <1>5 DEF Origin
  <2> QED
    BY <1>1, <1>3, <2>1 DEF RtcInv, Counted, Began
<1>11. WaitsForTicks'
  BY <1>1 DEF WaitsForTicks
<1> QED
  BY <1>7, <1>8, <1>9, <1>10, <1>11 DEF RtcInv

\* sleep looks at the time: it may stop only if enough seconds have passed.
LEMMA WhileKeeps == RtcInv /\ While => RtcInv'
<1> SUFFICES ASSUME RtcInv, While PROVE RtcInv'
  OBVIOUS
<1>1. /\ pc = "while"
      /\ pc' = (IF CurrentTime.sec < oldtime.sec + seconds THEN "poll" ELSE "awake")
      /\ UNCHANGED <<t, binary, got, oldtime, CurrentTime, seconds, ticked, began, ticks>>
  BY DEF While
<1>2. /\ oldtime.sec \in 0 .. 255 /\ seconds \in 0 .. 255 /\ ticks \in 0 .. seconds
      /\ began % 60 \in 0 .. 59 /\ ticked \in BOOLEAN
  BY Typed
<1>3. CurrentTime.sec = began % 60 /\ Origin = oldtime.sec /\ Began
  BY <1>1 DEF RtcInv, OneTickOff, Origin, Began
<1>4. ASSUME ticks < seconds PROVE began % 60 <= oldtime.sec + ticks
  <2>1. ~ ticked => began % 60 = (oldtime.sec + ticks) % 60
    BY <1>3, <1>4 DEF RtcInv, Counted
  <2>2. ticked => ticks >= 1 /\ began % 60 = (oldtime.sec + ticks - 1) % 60
    BY <1>3, <1>4 DEF RtcInv, Counted
  <2>3. CASE ~ ticked
    <3>1. oldtime.sec + ticks \in Nat
      BY <1>2
    <3>2. (oldtime.sec + ticks) % 60 <= oldtime.sec + ticks
      BY <3>1, SecondsWrap
    <3> QED
      BY <2>1, <2>3, <3>2
  <2>4. CASE ticked /\ ticks >= 1
    <3>1. oldtime.sec + ticks - 1 \in Nat
      BY <1>2, <2>4
    <3>2. (oldtime.sec + ticks - 1) % 60 <= oldtime.sec + ticks - 1
      BY <3>1, SecondsWrap
    <3> QED
      BY <1>2, <2>2, <2>4, <3>2
  <2> QED
    BY <1>2, <2>2, <2>3, <2>4
<1>5. pc' = "awake" => ticks >= seconds
  <2> SUFFICES ASSUME ticks < seconds PROVE pc' # "awake"
    BY <1>2
  <2>1. began % 60 <= oldtime.sec + ticks
    BY <1>4
  <2> DEFINE b == began % 60
             c == CurrentTime.sec
             o == oldtime.sec
  <2>2. b \in 0 .. 59 /\ c = b /\ o \in 0 .. 255 /\ b <= o + ticks
    BY <1>2, <1>3, <2>1
  <2> HIDE DEF b, c, o
  <2>3. c < o + seconds
    BY <1>2, <2>2
  <2> QED
    BY <1>1, <2>3 DEF c, o
<1>6. got = << >>
  BY <1>1 DEF RtcInv, ReadSoFar
<1>7. TypeOK'
  BY <1>1 DEF RtcInv, TypeOK
<1>8. ReadSoFar'
  BY <1>1, <1>6, SameMode DEF RtcInv, ReadSoFar
<1>9. OneTickOff'
  BY <1>1, <1>6 DEF OneTickOff, Began
<1>10. Counted'
  <2>1. Origin' = Origin
    BY <1>1 DEF Origin
  <2> QED
    BY <1>1, <1>3, <1>6, <2>1 DEF RtcInv, Counted, Began
<1>11. WaitsForTicks'
  BY <1>1, <1>5 DEF WaitsForTicks
<1> QED
  BY <1>7, <1>8, <1>9, <1>10, <1>11 DEF RtcInv

LEMMA StutterKeeps == RtcInv /\ UNCHANGED vars => RtcInv'
<1> SUFFICES ASSUME RtcInv, UNCHANGED vars PROVE RtcInv'
  OBVIOUS
<1>1. TypeOK'
  BY DEF RtcInv, TypeOK, vars
<1>2. ReadSoFar'
  BY SameMode DEF RtcInv, ReadSoFar, vars
<1>3. OneTickOff' /\ Counted' /\ WaitsForTicks'
  BY DEF RtcInv, OneTickOff, Counted, Began, Origin, WaitsForTicks, vars
<1> QED
  BY <1>1, <1>2, <1>3 DEF RtcInv

LEMMA StepInv == RtcInv /\ [Next]_vars => RtcInv'
<1> SUFFICES ASSUME RtcInv, [Next]_vars PROVE RtcInv'
  OBVIOUS
<1>1. CASE RtcRead
  BY <1>1, FirstReadKeeps, LaterReadKeeps
<1>2. CASE GetTime
  BY <1>2, GetTimeKeeps
<1>3. CASE While
  BY <1>3, WhileKeeps
<1>4. CASE Tick
  BY <1>4, TickKeeps
<1>5. CASE \E n \in Naps : Sleep(n)
  BY <1>5, SleepKeeps
<1>6. CASE UNCHANGED vars
  BY <1>6, StutterKeeps
<1> QED
  BY <1>1, <1>2, <1>3, <1>4, <1>5, <1>6 DEF Next, Running

-----------------------------------------------------------------------------
(* The theorems.                                                            *)

\* The invariant holds in every state (time.c).
THEOREM InvariantHolds == Spec => []RtcInv
BY InitInv, StepInv, PTL DEF Spec

\* Every variable has its type: GetTime's fields fit theirs (time.c:46-83).
THEOREM TypeCorrect == Spec => []TypeOK
<1>1. RtcInv => TypeOK
  BY DEF RtcInv
<1> QED
  BY <1>1, InvariantHolds, PTL

\* sleep never returns before the clock has ticked as often as it was given
\* seconds, whenever in the day it is called and however many it is asked for
\* (time.c:35-44).
THEOREM SleepsForTicks == Spec => []WaitsForTicks
<1>1. RtcInv => WaitsForTicks
  BY DEF RtcInv
<1> QED
  BY <1>1, InvariantHolds, PTL

\* GetTime is exact unless a minute ends between its reads (time.c:46-83).
THEOREM GetTimeIsExact == Spec => TimeIsExact
<1>1. RtcInv /\ [Next]_vars =>
        [GetTime /\ (~ ticked \/ began % 60 # 59) => CurrentTime' = Clock(began)]_vars
  <2> SUFFICES ASSUME RtcInv, GetTime, ~ ticked \/ began % 60 # 59
               PROVE  CurrentTime' = Clock(began)
    OBVIOUS
  <2>1. Len(got) = 8 /\ CurrentTime' = TimeOf(got)
    BY DEF GetTime
  <2>2. \A j \in 1 .. 8 : got[j] = RegistersAt(began)[j]
    BY <2>1 DEF RtcInv, ReadSoFar
  <2>3. began \in 0 .. (Period - 1) /\ binary \in BOOLEAN
    BY Typed
  <2>4. TimeOf(got) = Clock(began)
    BY <2>2, <2>3, TimeOfRegisters
  <2> QED
    BY <2>1, <2>4
<1> QED
  BY <1>1, InvariantHolds, PTL DEF Spec, TimeIsExact
=============================================================================
