--------------------------------- MODULE Rtc ---------------------------------
(***************************************************************************)
(* time.c: GetTime reads the CMOS clock register by register while the     *)
(* clock runs on; sleep polls GetTime and compares seconds.  The clock is  *)
(* external.  It ticks at most once from one read of its seconds to the    *)
(* next, which is sixteen port accesses later.                             *)
(***************************************************************************)
EXTENDS Integers, Sequences

CONSTANTS
    Period,       \* bound: the second of the day at which the clock starts over
    Starts,       \* the seconds of the day at which sleep is called
    Naps          \* what it is called with

ASSUME PeriodAssumption == Period \in {60 * m : m \in 1 .. 1440}
ASSUME StartsAssumption == Starts \subseteq 0 .. (Period - 1)
ASSUME NapsAssumption   == Naps \subseteq 0 .. 255

VARIABLES
    t,            \* the clock, in seconds since midnight
    binary,       \* register B's data mode: binary or BCD
    pc,           \* "idle", in the "first" GetTime or a later "poll", at the
                  \* "while", or "awake"
    got,          \* the registers GetTime has read, in its order
    oldtime, CurrentTime,
    seconds,      \* the argument of sleep
    ticked,       \* the clock has ticked since its seconds were last read
    began,        \* history: the clock when this GetTime began
    ticks         \* history: how often the clock has ticked since oldtime's
                  \* seconds were read, counted up to seconds

vars == <<t, binary, pc, got, oldtime, CurrentTime, seconds, ticked, began, ticks>>

-----------------------------------------------------------------------------
(* The clock (external): the time it shows and the registers that show it.  *)

Clock(s) ==
    [sec |-> s % 60, min |-> (s \div 60) % 60, hour |-> s \div 3600,
     weekDay |-> 3, day |-> 17, month |-> 10, year |-> 2024]

Encoded(v) == IF binary THEN v ELSE (v \div 10) * 16 + (v % 10)

\* The registers in the order of GetTime; the last one is register B.
Registers ==
    LET c == Clock(t)
    IN  <<Encoded(c.sec), Encoded(c.min), Encoded(c.hour), c.weekDay + 1,
          Encoded(c.day), Encoded(c.month), Encoded(c.year - 2000),
          IF binary THEN 6 ELSE 2>>

Tick ==
    /\ pc \in {"first", "poll", "while"} /\ ~ ticked
    /\ t' = (t + 1) % Period
    /\ ticked' = TRUE
    /\ ticks' = IF (pc = "first" /\ got = << >>) \/ ticks = seconds THEN ticks
                ELSE ticks + 1
    /\ UNCHANGED <<binary, pc, got, oldtime, CurrentTime, seconds, began>>

-----------------------------------------------------------------------------
(* The code.                                                                *)

\* Mutant of BcdToBin: no conversion.
BcdToBin_Identity(val) == val

BcdToBin(val) == ((val % 16) + (val \div 16) * 10) % 256

\* Mutant of IsBcd: the data mode read the wrong way round.
IsBcd_Inverted(regb) == (regb \div 4) % 2 = 1

\* ~regb & REGB_DM
IsBcd(regb) == (regb \div 4) % 2 = 0

\* Mutant of TimeOf: without the century.
TimeOf_NoCentury(r) ==
    LET bin(v) == IF IsBcd(r[8]) THEN BcdToBin(v) ELSE v
    IN  [sec |-> bin(r[1]), min |-> bin(r[2]), hour |-> bin(r[3]),
         weekDay |-> (r[4] - 1) % 256, day |-> bin(r[5]), month |-> bin(r[6]),
         year |-> bin(r[7])]

\* What GetTime returns for the registers r.
TimeOf(r) ==
    LET bin(v) == IF IsBcd(r[8]) THEN BcdToBin(v) ELSE v
    IN  [sec |-> bin(r[1]), min |-> bin(r[2]), hour |-> bin(r[3]),
         weekDay |-> (r[4] - 1) % 256, day |-> bin(r[5]), month |-> bin(r[6]),
         year |-> bin(r[7]) + 2000]

Sleep(n) ==
    /\ pc = "idle"
    /\ pc' = "first"
    /\ seconds' = n
    /\ UNCHANGED <<t, binary, got, oldtime, CurrentTime, ticked, began, ticks>>

RtcRead ==
    /\ pc \in {"first", "poll"} /\ Len(got) < 8
    /\ got' = Append(got, Registers[Len(got) + 1])
    /\ IF got = << >> THEN began' = t /\ ticked' = FALSE
                      ELSE UNCHANGED <<began, ticked>>
    /\ UNCHANGED <<t, binary, pc, oldtime, CurrentTime, seconds, ticks>>

GetTime ==
    /\ Len(got) = 8
    /\ CurrentTime' = TimeOf(got)
    /\ oldtime' = IF pc = "first" THEN TimeOf(got) ELSE oldtime
    /\ pc' = "while"
    /\ got' = << >>
    /\ UNCHANGED <<t, binary, seconds, ticked, began, ticks>>

\* Mutant of While: waits for a second beyond the one asked for.
While_Beyond ==
    /\ pc = "while"
    /\ pc' = IF CurrentTime.sec <= oldtime.sec + seconds THEN "poll" ELSE "awake"
    /\ UNCHANGED <<t, binary, got, oldtime, CurrentTime, seconds, ticked, began, ticks>>

\* while (CurrentTime.sec < oldtime.sec + seconds)
While ==
    /\ pc = "while"
    /\ pc' = IF CurrentTime.sec < oldtime.sec + seconds THEN "poll" ELSE "awake"
    /\ UNCHANGED <<t, binary, got, oldtime, CurrentTime, seconds, ticked, began, ticks>>

Init ==
    /\ t \in Starts
    /\ binary \in BOOLEAN
    /\ pc = "idle"
    /\ got = << >>
    /\ oldtime = Clock(0) /\ CurrentTime = Clock(0)
    /\ seconds = 0
    /\ ticked = FALSE
    /\ began = t
    /\ ticks = 0

Running == RtcRead \/ GetTime \/ While

Next == Running \/ Tick \/ \E n \in Naps : Sleep(n)

\* The processor runs and the clock ticks.
Spec == Init /\ [][Next]_vars /\ WF_vars(Running) /\ WF_vars(Tick)

-----------------------------------------------------------------------------
(* Properties.                                                              *)

Byte == 0 .. 255

Time == [sec : Byte, min : Byte, hour : Byte, weekDay : Byte, day : Byte,
         month : Byte, year : 2000 .. 2255]

\* Every variable has its type.
TypeOK ==
    /\ t \in 0 .. (Period - 1) /\ began \in 0 .. (Period - 1)
    /\ binary \in BOOLEAN /\ ticked \in BOOLEAN
    /\ pc \in {"idle", "first", "poll", "while", "awake"}
    /\ got \in Seq(Byte) /\ Len(got) <= 8
    /\ oldtime \in Time /\ CurrentTime \in Time
    /\ seconds \in Byte /\ ticks \in 0 .. seconds

\* sleep waits for as many ticks of the clock as it was given seconds, in either
\* data mode and wherever in the minute it is called.  The first of them may
\* come at once: a sleep is up to a second shorter than time.h:24 says
\* (time.c:35-44, 24-27).
WaitsForTicks == pc = "awake" => ticks >= seconds

\* GetTime returns the time at which it began, in either data mode, unless the
\* clock ticks from second 59 between its reads: the registers are read one
\* after the other without regard to an update, and a minute that ends between
\* them is seen with the old seconds (time.c:46-83).
TimeIsExact ==
    [][GetTime /\ (~ ticked \/ began % 60 # 59)
        => CurrentTime' = Clock(began)]_vars

\* sleep returns if it ends in the minute it is called in: no poll skips the
\* second it waits for (time.c:40-43).
EndsWithinTheMinute ==
    (pc = "poll" /\ oldtime.sec + seconds <= 59) ~> pc = "awake"

\* time.h:24: "sleeps for the given amount of seconds".  A sleep ends.
SleepReturns == (pc = "first") ~> (pc = "awake")
=============================================================================
