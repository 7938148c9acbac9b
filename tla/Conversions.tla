----------------------------- MODULE Conversions -----------------------------
(***************************************************************************)
(* The conversions on whose edges verdicts depend: temperatures to           *)
(* millidegrees Celsius, and times to calendar months.                       *)
(*                                                                         *)
(* A temperature is given as an integer of ten-thousandths of a degree, one   *)
(* digit finer than what is stored, so that rounding happens.  A time is a    *)
(* number of half days since 1970-01-01: the bounds of months are midnights.  *)
(***************************************************************************)
EXTENDS Integers

CONSTANTS
  Digits,      \* for each unit, the temperatures tried
  Years,       \* the years whose months are tried
  Offsets,     \* the distances from a month's bounds at which readings are tried
  MinMc, MaxMc \* PHYS_MIN_MC and PHYS_MAX_MC, temp.py

(* datetime.MAXYEAR *)
LastYear == 9999

ASSUME DigitsAssumption ==
  /\ DOMAIN Digits = {"C", "F", "K"} /\ \A u \in DOMAIN Digits : Digits[u] \subseteq Int
  /\ Years \subseteq 0..LastYear
  /\ Offsets \subseteq Int
  /\ MinMc \in Int /\ MaxMc \in Int /\ MinMc <= 0 /\ 0 <= MaxMc

VARIABLES query, answer

conversionVars == <<query, answer>>

-----------------------------------------------------------------------------
(* parse_temp_to_mc *)

(* The exact value in millidegrees Celsius is Above(u, v) / Below(u). *)
Above(u, v) ==
  CASE u = "C" -> v
    [] u = "F" -> (v - 320000) * 5
    [] u = "K" -> v - 2731500
Below(u) == IF u = "F" THEN 90 ELSE 10

(* Variant: halves go up, not away from zero. *)
RoundUp(n, d) == (2 * n + d) \div (2 * d)

(* ROUND_HALF_UP of Python's decimals: halves go away from zero. *)
Rounded(n, d) ==
  IF n >= 0 THEN (2 * n + d) \div (2 * d) ELSE - ((d - 2 * n) \div (2 * d))

Parse(u, v) ==
  LET mc == Rounded(Above(u, v), Below(u))
  IN  [ok |-> MinMc <= mc /\ mc <= MaxMc, mc |-> mc]

ParseTemp ==
  /\ query.op = "none"
  /\ \E u \in DOMAIN Digits : \E v \in Digits[u] :
       /\ query' = [op |-> "temp", unit |-> u, value |-> v]
       /\ answer' = Parse(u, v)

-----------------------------------------------------------------------------
(* datetime: the proleptic Gregorian calendar of the years 1 to 9999. *)

(* Days from 1970-01-01 to the first of month m of year y.  The year is       *)
(* counted from March, whose months before February are 153 days per five.    *)
FirstDay(y, m) ==
  LET yy == IF m <= 2 THEN y - 1 ELSE y
      mm == IF m <= 2 THEN m + 9 ELSE m - 3
  IN  365 * yy + yy \div 4 - yy \div 100 + yy \div 400 + (153 * mm + 2) \div 5 - 719468

Leap(y) == y % 4 = 0 /\ (y % 100 # 0 \/ y % 400 = 0)

MonthDays(y, m) ==
  CASE m \in {4, 6, 9, 11} -> 30
    [] m = 2 -> IF Leap(y) THEN 29 ELSE 28
    [] OTHER -> 31

(* The year a day falls in, and the month: found by counting days. *)
YearOf(day) ==
  LET guess == 1970 + day \div 366
  IN  CHOOSE y \in guess..(guess + day \div 130000 + 1) :
        LET gone == FirstDay(y, 1) IN gone <= day /\ day < gone + IF Leap(y) THEN 366 ELSE 365

Elapsed(y, m) ==
  LET f[k \in 1..13] == IF k = 1 THEN 0 ELSE f[k - 1] + MonthDays(y, k - 1) IN f[m]

MonthIn(y, dayOfYear) ==
  CHOOSE m \in 1..12 : Elapsed(y, m) <= dayOfYear /\ dayOfYear < Elapsed(y, m + 1)

-----------------------------------------------------------------------------
(* period_locked: the month of a time, or an exception past the year 9999. *)

NoMonth == <<0, 0>>

MonthOf(ts) ==
  LET day == ts \div 2
      y == YearOf(day)
  IN  IF day >= FirstDay(LastYear + 1, 1) THEN NoMonth ELSE <<y, MonthIn(y, day - FirstDay(y, 1))>>

(* Variant: the month after December is in the same year. *)
SameYear(y, m) == <<y, (m % 12) + 1>>

(* _month_bounds_ms *)
NextMonth(y, m) == IF m = 12 THEN <<y + 1, 1>> ELSE <<y, m + 1>>

Start(y, m) == 2 * FirstDay(y, m)
End(y, m) == LET n == NextMonth(y, m) IN 2 * FirstDay(n[1], n[2])

(* datetime raises on either bound. *)
Lockable(y, m) == y \in 1..LastYear /\ NextMonth(y, m)[1] \in 1..LastYear

(* The readings lock_period hashes: at or after the start, before the end. *)
InSnapshot(ts, y, m) == Start(y, m) <= ts /\ ts < End(y, m)

(* A month is locked and a reading comes in at a distance from its bounds. *)
LockMonth ==
  /\ query.op = "none"
  /\ \E y \in Years, m \in 1..12, off \in Offsets :
       \E bound \in {FirstDay(y, m), FirstDay(y, m) + MonthDays(y, m)} :
         LET ts == 2 * bound + off IN
         /\ ts > 0
         /\ query' = [op |-> "month", year |-> y, month |-> m, ts |-> ts]
         /\ answer' = [ok |-> Lockable(y, m), frozen |-> InSnapshot(ts, y, m), refused |-> MonthOf(ts)]

ConversionInit == query = [op |-> "none"] /\ answer = [ok |-> TRUE]

ConversionNext == ParseTemp \/ LockMonth

ConversionSpec == ConversionInit /\ [][ConversionNext]_conversionVars
-----------------------------------------------------------------------------
(* Properties. *)

Dist(x, y) == IF x >= y THEN x - y ELSE y - x

(* A temperature that is accepted is stored as the millidegree nearest to its *)
(* exact value, the one farther from zero when two are equally near; and it   *)
(* is accepted exactly if that lies in the physical range, in any unit.  So   *)
(* equal temperatures in different units are stored equal, and the order of   *)
(* temperatures is that of their readings and profile bounds.                *)
ParseExact ==
  query.op = "temp" =>
    LET n == Above(query.unit, query.value)
        d == Below(query.unit)
        Near(k) == /\ 2 * Dist(k * d, n) <= d
                   /\ 2 * Dist(k * d, n) = d => Dist(k, 0) * d > Dist(n, 0)
    IN  /\ Near(answer.mc)
        /\ answer.ok <=> (2 * MinMc - 1) * d < 2 * n /\ 2 * n < (2 * MaxMc + 1) * d

(* The lock of a month freezes the readings it has hashed: a time is in the   *)
(* snapshot of a month exactly if readings at that time are refused once the  *)
(* month is locked.  Every month can be locked but those of the year 0, which *)
(* the pattern of periods admits, and the last one before the year 10000.    *)
LockCoversSnapshot ==
  query.op = "month" =>
    /\ answer.ok => (answer.frozen <=> answer.refused = <<query.year, query.month>>)
    /\ answer.ok \/ query.year = 0 \/ <<query.year, query.month>> = <<LastYear, 12>>
=============================================================================
