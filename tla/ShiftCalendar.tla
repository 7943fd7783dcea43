---------------------------- MODULE ShiftCalendar ----------------------------
(***************************************************************************)
(* ShiftScheduler: how a daily shift pattern becomes dated instances.       *)
(* Time is a natural number; instant d * Day + t is time of day t on date   *)
(* d.  A pattern is the sequence of shifts in the order shifts.yaml         *)
(* declares them, each with its times of day and those of its breaks.       *)
(***************************************************************************)
EXTENDS Integers, Sequences

CONSTANT Day    \* length of a day

ASSUME DayAssumption == Day \in Nat \ {0}

TimeOfDay == 0..(Day - 1)

ShiftSpec == [start : TimeOfDay, end : TimeOfDay, breaks : SUBSET TimeOfDay]

DateOf(t) == t \div Day

(* A shift that ends at or before its start runs into the following day.    *)
CrossesMidnight(spec) == spec.end <= spec.start

ShiftStart(date, spec) == date * Day + spec.start

ShiftEnd(date, spec) ==
  (IF CrossesMidnight(spec) THEN date + 1 ELSE date) * Day + spec.end

Covers(date, spec, t) == ShiftStart(date, spec) <= t /\ t < ShiftEnd(date, spec)

(* The dated shifts a search looks at, in its order: today's before         *)
(* yesterday's, the earlier declared first.                                 *)
Sooner(a, b) == a.date > b.date \/ (a.date = b.date /\ a.index <= b.index)

(* The dated shifts covering t, which are today's and yesterday's.          *)
Covering(pattern, t) ==
  {c \in [date : {DateOf(t), DateOf(t) - 1}, index : DOMAIN pattern] :
     Covers(c.date, pattern[c.index], t)}

(* shift_for, when some shift covers t.                                     *)
ShiftFor(pattern, t) ==
  CHOOSE c \in Covering(pattern, t) : \A d \in Covering(pattern, t) : Sooner(c, d)

(* The starts at or after t on yesterday, today and tomorrow.               *)
StartsFrom(pattern, t) ==
  {c \in [date : (DateOf(t) - 1)..(DateOf(t) + 1), index : DOMAIN pattern] :
     t <= ShiftStart(c.date, pattern[c.index])}

(* first_start_at_or_after: the earliest start, the first declared of those *)
(* at one instant.                                                          *)
FirstStartFrom(pattern, t) ==
  LET StartOf(c) == ShiftStart(c.date, pattern[c.index]) IN
    CHOOSE c \in StartsFrom(pattern, t) :
      \A d \in StartsFrom(pattern, t) :
        \/ StartOf(c) < StartOf(d)
        \/ StartOf(c) = StartOf(d) /\ c.index <= d.index

(* break_windows: the breaks of the shift that fall inside it, those before *)
(* its time of day on the next date.  Each lasts one unit, cut at the end.  *)
BreakStarts(date, spec) ==
  {t \in {(IF b < spec.start THEN date + 1 ELSE date) * Day + b : b \in spec.breaks} :
     t < ShiftEnd(date, spec)}
=============================================================================
