------------------------------ MODULE Calendar -------------------------------
(***************************************************************************)
(* The calendar widget (internal/design/calendar.go): which month it shows,*)
(* which days stand in its six weeks and where it can be tapped.  Dates    *)
(* are those of Go's time package, lengths are pixels; fonts, names of     *)
(* months and the SVG that is written are left out.                        *)
(***************************************************************************)
EXTENDS Integers, Sequences

(* int(n / d) of a float: towards zero. *)
Trunc(n, d) == IF n >= 0 THEN n \div d ELSE -((-n) \div d)
Larger(a, b) == IF a >= b THEN a ELSE b
-----------------------------------------------------------------------------
(* Dates: time.Time without the time of day. *)

Leap(y) == y % 4 = 0 /\ (y % 100 # 0 \/ y % 400 = 0)
DaysIn(y, m) ==
  IF m = 2 THEN IF Leap(y) THEN 29 ELSE 28
  ELSE IF m \in {4, 6, 9, 11} THEN 30 ELSE 31

(* The number of a date, 1 being Monday, 1 January of the year 1. *)
Number(date) ==
  LET y == date.year - 1
      before == <<0, 31, 59, 90, 120, 151, 181, 212, 243, 273, 304, 334>> IN
  365 * y + y \div 4 - y \div 100 + y \div 400 + before[date.month] + date.day
  + (IF date.month > 2 /\ Leap(date.year) THEN 1 ELSE 0)
Weekday(n) == n % 7                   \* Sunday is 0

MonthsFrom(date, k) ==
  LET i == 12 * date.year + date.month - 1 + k IN [year |-> i \div 12, month |-> (i % 12) + 1]

AddMonthsInYear(date, k) ==         \* mutant: the year is not carried
  LET to == MonthsFrom(date, k) IN
  [year |-> date.year, month |-> to.month, day |-> 1]

(* AddDate(0, k, 0): a day that the month lacks runs over into the next. *)
AddMonths(date, k) ==
  LET to    == MonthsFrom(date, k)
      extra == date.day - DaysIn(to.year, to.month)
      after == MonthsFrom(to, 1) IN
  IF extra <= 0 THEN [year |-> to.year, month |-> to.month, day |-> date.day]
  ELSE [year |-> after.year, month |-> after.month, day |-> extra]
-----------------------------------------------------------------------------
(* emitCalendar: the days. *)

Invalid(options, offset) ==
  \/ options.width <= 0 \/ options.height <= 0
  \/ options.weekStart \notin {"monday", "sunday"}
  \/ options.navigation /\ offset \notin -12..12

(* The month on display; without navigation it is always today's. *)
Shown(options, today, offset) ==
  IF options.navigation THEN AddMonths(today, offset) ELSE today

(* Days of the month before in the first week. *)
Skipped(options, first) ==
  IF options.weekStart = "sunday" THEN Weekday(first) ELSE (Weekday(first) + 6) % 7

(* The weekday over column "col": 0 is Monday in the tables of names. *)
Header(options, col) == IF options.weekStart = "sunday" THEN (col + 6) % 7 ELSE col

(* The cells that are drawn, each with the number of its day, whether it    *)
(* belongs to another month and whether it is today.                        *)
Cells(options, today, offset) ==
  LET month  == Shown(options, today, offset)
      first  == Number([month EXCEPT !.day = 1])
      last   == first + DaysIn(month.year, month.month) - 1
      start  == first - Skipped(options, first)
      drawn  == {c \in 0..41 : options.spillover \/ start + c \in first..last} IN
  [c \in drawn |-> [day |-> start + c, outside |-> start + c \notin first..last,
                    today |-> start + c = Number(today)]]
-----------------------------------------------------------------------------
(* emitCalendar: the regions, in the order in which they are numbered. *)

OfferedAlways(event, offset) == TRUE   \* mutant: arrows never end

(* No arrow leads more than twelve months away. *)
Offered(event, offset) ==
  /\ event = "previous" => offset > -12
  /\ event = "next" => offset < 12

(* The title and the arrows, with a margin of a twentieth of the height     *)
(* around the arrows and of a tenth above.                                  *)
NavigationRegions(options, offset) ==
  LET x == options.x   y == options.y
      w == options.width   h == options.height
      top    == Larger(0, 10 * y - h)               \* tenths
      bottom == 100 * y + 14 * h                    \* hundredths
      Region(event, left, width) ==
        IF Offered(event, offset)
        THEN << [event |-> event, id |-> options.id, x |-> left, width |-> width,
                 y |-> Trunc(top, 10), height |-> Trunc(bottom - 10 * top, 100)] >>
        ELSE <<>> IN
  IF ~options.navigation THEN <<>>
  ELSE Region("previous", Trunc(Larger(0, 20 * x - h), 20), Trunc(4 * w + h, 20))
         \o Region("today", Trunc(5 * x + w, 5), Trunc(3 * w, 5))
         \o Region("next", Trunc(5 * x + 4 * w, 5), Trunc(4 * w + h, 20))

(* Where the arrows are drawn. *)
Arrow(options, event) ==
  [x |-> Trunc(100 * options.x + (IF event = "previous" THEN 8 ELSE 92) * options.width, 100),
   y |-> Trunc(100 * options.y + 8 * options.height, 100)]
=============================================================================
