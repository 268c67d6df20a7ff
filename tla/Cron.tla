-------------------------------- MODULE Cron --------------------------------
(***************************************************************************)
(* Cron schedules (cron.go): the expression's fields parsed into sets, and *)
(* CronSchedule.Next, which advances an instant field by field, from       *)
(* months down to seconds, in the schedule's time zone.  One action is one *)
(* turn of one of its loops.                                               *)
(*                                                                         *)
(* The calendar's radices are constants, so that TLC can walk whole years: *)
(* the loops use only that a field wraps to its first value.  Instants are *)
(* whole seconds.  A zone has one change of its offset; time.Date, which   *)
(* is Go's, is external.                                                   *)
(***************************************************************************)
EXTENDS Integers, Sequences, FiniteSets

CONSTANTS
  SecondsPerMinute, MinutesPerHour, HoursPerDay,
  MonthLengths,     \* the days of each month, the same every year
  DaysPerWeek,
  YearLimit,        \* how many years ahead Next looks (5 in the code)
  CronSpecs,        \* the expressions parsed, a sequence of parts per field
  CronZones,        \* [before, after, at]: the offset changes at an instant
  CronStarts        \* the instants Next is asked about

VARIABLES
  cronPc,       \* where Next is, "idle" before it is called
  cronCall,     \* the call: [sched, zone, from, limit]
  cronT,        \* the local variable t, an instant
  cronReset     \* the local variable reset

cronVars == <<cronPc, cronCall, cronT, cronReset>>

ZeroTime == -1000000

-----------------------------------------------------------------------------
(* ParseCron.  A part is [star, start, end, step], step 0 when absent and  *)
(* end -1 when the part is no range.                                       *)

PartStart(p, lo) == IF p.star THEN lo ELSE p.start

PartEnd(p, hi) ==
  CASE p.star -> hi
    [] ~p.star /\ p.end >= 0 -> p.end
    [] ~p.star /\ p.end < 0 /\ p.step > 0 -> hi
    [] OTHER -> p.start

PartValid(p, lo, hi) ==
  /\ PartStart(p, lo) >= lo
  /\ PartEnd(p, hi) <= hi
  /\ PartStart(p, lo) <= PartEnd(p, hi)

PartBits(p, lo, hi) ==
  {i \in PartStart(p, lo) .. PartEnd(p, hi) :
     (i - PartStart(p, lo)) % (IF p.step = 0 THEN 1 ELSE p.step) = 0}

PartOf(expr) == {expr[i] : i \in DOMAIN expr}

FieldValid(expr, lo, hi) ==
  expr # <<>> /\ \A p \in PartOf(expr) : PartValid(p, lo, hi)

FieldBits(expr, lo, hi) == UNION {PartBits(p, lo, hi) : p \in PartOf(expr)}

FieldStar(expr) == \E p \in PartOf(expr) : p.star /\ p.step = 0

LastDay == LET n == Cardinality(DOMAIN MonthLengths)
           IN CHOOSE d \in {MonthLengths[m] : m \in 1 .. n} :
                \A m \in 1 .. n : MonthLengths[m] <= d

\* The fields' bounds: seconds, minutes, hours, day of month, month, weekday.
FieldLo == <<0, 0, 0, 1, 1, 0>>
FieldHi == <<SecondsPerMinute - 1, MinutesPerHour - 1, HoursPerDay - 1,
             LastDay, Len(MonthLengths), DaysPerWeek>>

Parses(spec) == \A f \in 1 .. 6 : FieldValid(spec[f], FieldLo[f], FieldHi[f])

\* The last value of the weekday's range is its first too: 7 is Sunday.
ParseCron(spec) ==
  LET bits(f) == FieldBits(spec[f], FieldLo[f], FieldHi[f])
  IN  [second |-> bits(1), minute |-> bits(2), hour |-> bits(3),
       dom |-> bits(4), month |-> bits(5),
       dow |-> {d % DaysPerWeek : d \in bits(6)},
       domStar |-> FieldStar(spec[4]), dowStar |-> FieldStar(spec[6])]

-----------------------------------------------------------------------------
(* Civil time, external: what time.Time's accessors and time.Date compute. *)

MinuteSecs == SecondsPerMinute
HourSecs   == MinutesPerHour * MinuteSecs
DaySecs    == HoursPerDay * HourSecs

MonthStart[m \in 1 .. Len(MonthLengths) + 1] ==
  IF m = 1 THEN 0 ELSE MonthStart[m - 1] + MonthLengths[m - 1]
YearDays == MonthStart[Len(MonthLengths) + 1]

OffsetAt(zone, u) == IF u < zone.at THEN zone.before ELSE zone.after
WallTime(zone, u)    == u + OffsetAt(zone, u)

SecondOf(l)  == l % SecondsPerMinute
MinuteOf(l)  == (l \div MinuteSecs) % MinutesPerHour
HourOf(l)    == (l \div HourSecs) % HoursPerDay
WeekdayOf(l) == (l \div DaySecs) % DaysPerWeek
YearOf(l)    == (l \div DaySecs) \div YearDays
YearDay(l)   == (l \div DaySecs) % YearDays
MonthOf(l)   == CHOOSE m \in 1 .. Len(MonthLengths) :
                  MonthStart[m] <= YearDay(l) /\ YearDay(l) < MonthStart[m + 1]
DayOf(l)     == YearDay(l) - MonthStart[MonthOf(l)] + 1

\* The local time of a date, whose month or day may be past its range.
Civil(year, month, day, ofDay) ==
  LET n == Len(MonthLengths)
      y == year + ((month - 1) \div n)
      m == ((month - 1) % n) + 1
  IN  (y * YearDays + MonthStart[m] + day - 1) * DaySecs + ofDay

\* time.Date: the offset in effect at the local time read as UTC, unless
\* that offset is not the one in effect at the instant it gives.
Date(zone, l) ==
  LET u == l - OffsetAt(zone, l)
  IN  IF (u < zone.at) = (l < zone.at) THEN u ELSE l - OffsetAt(zone, u)

\* Time.AddDate(0, months, days), which goes through time.Date.
AddDate(zone, u, months, days) ==
  LET l == WallTime(zone, u)
  IN  Date(zone, Civil(YearOf(l), MonthOf(l) + months, DayOf(l) + days,
                       l % DaySecs))

-----------------------------------------------------------------------------
L == WallTime(cronCall.zone, cronT)

dayMatches(sched, l) ==
  LET dom == DayOf(l) \in sched.dom
      dow == WeekdayOf(l) \in sched.dow
  IN  IF sched.domStar \/ sched.dowStar THEN dom /\ dow ELSE dom \/ dow

CronInit ==
  /\ cronPc = "idle"
  /\ cronCall = [sched |-> {}]
  /\ cronT = ZeroTime
  /\ cronReset = FALSE

\* Next is called: the next whole second is the first candidate.
CronNextCalled ==
  /\ cronPc = "idle"
  /\ \E sched \in {ParseCron(spec) : spec \in {s \in CronSpecs : Parses(s)}},
        zone \in CronZones, from \in CronStarts :
       /\ cronT' = from + 1
       /\ cronCall' = [sched |-> sched, zone |-> zone, from |-> from,
                       limit |-> YearOf(WallTime(zone, from + 1)) + YearLimit]
  /\ cronPc' = "wrap"
  /\ UNCHANGED cronReset

\* The label wrap: the lower fields are to start anew, and a year past the
\* limit ends the search with the zero time.
Wrap ==
  /\ cronPc = "wrap"
  /\ cronReset' = FALSE
  /\ IF YearOf(L) > cronCall.limit
       THEN cronPc' = "done" /\ cronT' = ZeroTime
       ELSE cronPc' = "month" /\ UNCHANGED cronT
  /\ UNCHANGED cronCall

\* The instant a loop starts moving from: its field's own start, once a pass.
Truncated(start) == IF cronReset THEN cronT ELSE start

\* The wall clock at the instant that a turn moves to.
Turned(t) == WallTime(cronCall.zone, t)

\* One turn of the loop at pc: t moves, and the search starts again from the
\* month when the field has wrapped.
Turns(pc, t, wraps) ==
  /\ cronPc = pc
  /\ cronReset' = TRUE
  /\ cronT' = t
  /\ cronPc' = IF wraps THEN "wrap" ELSE pc
  /\ UNCHANGED cronCall

MonthMoves ==
  /\ MonthOf(L) \notin cronCall.sched.month
  /\ LET zone  == cronCall.zone
         first == Date(zone, Civil(YearOf(L), MonthOf(L), 1, 0))
         t     == AddDate(zone, Truncated(first), 1, 0)
     IN  Turns("month", t, MonthOf(Turned(t)) = 1)

\* Past a change of the offset the wall clock may be off midnight, and the
\* day's start is taken again.
DayMoves ==
  /\ ~dayMatches(cronCall.sched, L)
  /\ LET zone  == cronCall.zone
         midnight(l) == Date(zone, Civil(YearOf(l), MonthOf(l), DayOf(l), 0))
         added == AddDate(zone, Truncated(midnight(L)), 0, 1)
         t     == IF HourOf(Turned(added)) # 0 THEN midnight(Turned(added)) ELSE added
     IN  Turns("day", t, DayOf(Turned(t)) = 1)

\* The mutant that truncates the hour with time.Date, which goes back to the
\* first of two repeated hours.
HourMovesByDate ==
  /\ HourOf(L) \notin cronCall.sched.hour
  /\ LET start == Date(cronCall.zone, L - (L % HourSecs))
         t     == Date(cronCall.zone, WallTime(cronCall.zone, Truncated(start)) + HourSecs)
     IN  Turns("hour", t, HourOf(Turned(t)) = 0)

HourMoves ==
  /\ HourOf(L) \notin cronCall.sched.hour
  /\ LET t == Truncated(cronT - (L % HourSecs)) + HourSecs
     IN  Turns("hour", t, HourOf(Turned(t)) = 0)

MinuteMoves ==
  /\ MinuteOf(L) \notin cronCall.sched.minute
  /\ LET t == Truncated(cronT - (L % MinuteSecs)) + MinuteSecs
     IN  Turns("minute", t, MinuteOf(Turned(t)) = 0)

SecondMoves ==
  /\ SecondOf(L) \notin cronCall.sched.second
  /\ LET t == cronT + 1
     IN  Turns("second", t, SecondOf(Turned(t)) = 0)

\* A field that fits hands over to the next lower one; seconds that fit end
\* the search.
Fits(pc, fits, then) ==
  /\ cronPc = pc
  /\ fits
  /\ cronPc' = then
  /\ UNCHANGED <<cronCall, cronT, cronReset>>

FieldFits ==
  \/ Fits("month", MonthOf(L) \in cronCall.sched.month, "day")
  \/ Fits("day", dayMatches(cronCall.sched, L), "hour")
  \/ Fits("hour", HourOf(L) \in cronCall.sched.hour, "minute")
  \/ Fits("minute", MinuteOf(L) \in cronCall.sched.minute, "second")
  \/ Fits("second", SecondOf(L) \in cronCall.sched.second, "done")

CronStep ==
  /\ cronPc \notin {"idle", "done"}
  /\ \/ Wrap \/ MonthMoves \/ DayMoves \/ HourMoves \/ MinuteMoves
     \/ SecondMoves \/ FieldFits

CronNext == CronNextCalled \/ CronStep

\* Next runs on until it returns.
CronFair == WF_cronVars(CronStep)

-----------------------------------------------------------------------------
(* The reference: the least instant after the call's that the expression's *)
(* fields match, in the years Next looks at.                               *)

SlotAt(u) ==
  LET l == WallTime(cronCall.zone, u)
      s == cronCall.sched
  IN  /\ YearOf(l) <= cronCall.limit
      /\ MonthOf(l) \in s.month
      /\ dayMatches(s, l)
      /\ HourOf(l) \in s.hour
      /\ MinuteOf(l) \in s.minute
      /\ SecondOf(l) \in s.second

IsFirstSlot(t) ==
  LET horizon == cronCall.from + (YearLimit + 1) * YearDays * DaySecs
      before  == IF t = ZeroTime THEN horizon ELSE t - 1
  IN  /\ t # ZeroTime => t > cronCall.from /\ SlotAt(t)
      /\ \A u \in cronCall.from + 1 .. before : ~SlotAt(u)

\* Every turn of the search moves on in time, so that it ends, and it ends
\* with the first slot strictly after the instant asked about: none is
\* skipped where an hour repeats, is missing or a field wraps, and none is
\* invented (Schedule.Next, cron.go).
CronFinds ==
  [][/\ cronPc # "idle" /\ cronPc' \in {cronPc, "wrap"} => cronT' > cronT
     /\ cronPc' = "done" => IsFirstSlot(cronT')]_cronVars

\* Next returns, "the first slot strictly after t, or the zero time" (Schedule,
\* cron.go).  Not so where the clocks skip midnight west of UTC: the day's
\* start is the day before, over and over.
NextReturns == cronPc # "idle" ~> cronPc = "done"
=============================================================================
