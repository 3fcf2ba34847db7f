------------------------------ MODULE Calendar ------------------------------
(***************************************************************************)
(* The UTC timestamps of responses, log lines and timing samples: the      *)
(* functions utc_timestamp and timestamp with their private copies of      *)
(* civil_from_days in src/tpm.rs, src/logging.rs and src/metrics.rs.       *)
(*                                                                         *)
(* A time is given by its quotient and remainder by 86400, the days since  *)
(* the epoch and the second of the day; a clock that is set before the     *)
(* epoch reads as the epoch.  A formatted timestamp is the tuple of its    *)
(* fixed-width fields.                                                     *)
(***************************************************************************)
EXTENDS Integers, Sequences

CONSTANTS
    LastYear,           \* the year in which the clock stops (a bound)
    SecondsOfDay        \* seconds of a day at which the clock is read

VARIABLES
    days, sod,          \* the clock
    date                \* the date of the Gregorian calendar, counted day by day

vars == <<days, sod, date>>

-----------------------------------------------------------------------------
(* The code *)

\* Days of an era of 400 years that starts on 1 March, and the year of the era.
DayOfEra(d) == (d + 719468) % 146097

YearOfEra(doe) == (doe - doe \div 1460 + doe \div 36524 - doe \div 146096) \div 365
DayOfYear(doe) ==
    LET yoe == YearOfEra(doe) IN doe - (365 * yoe + yoe \div 4 - yoe \div 100)

\* Faulty variant: January and February stay in the year that began in March.
CivilMarchYear(d) ==
    LET doe == DayOfEra(d)
        doy == DayOfYear(doe)
        mp == (5 * doy + 2) \div 153
        month == IF mp < 10 THEN mp + 3 ELSE mp - 9
        year == YearOfEra(doe) + ((d + 719468) \div 146097) * 400
    IN  <<year, month, doy - (153 * mp + 2) \div 5 + 1>>

\* Days since the epoch to year, month and day.  \div rounds down, as the
\* code's division with its case for a negative day does.
civil_from_days(d) ==
    LET doe == DayOfEra(d)
        doy == DayOfYear(doe)
        mp == (5 * doy + 2) \div 153
        month == IF mp < 10 THEN mp + 3 ELSE mp - 9
        year == YearOfEra(doe) + ((d + 719468) \div 146097) * 400
    IN  <<IF month <= 2 THEN year + 1 ELSE year, month, doy - (153 * mp + 2) \div 5 + 1>>

\* Faulty variant: an hour has 60 seconds too few.
ClockShortHour(s) == <<s \div 3540, (s % 3540) \div 60, s % 60>>

\* The second of the day as hours, minutes and seconds.
clock_fields(s) == <<s \div 3600, (s % 3600) \div 60, s % 60>>

\* The stamp of a response.
utc_timestamp(d, s) == civil_from_days(d) \o clock_fields(s)

\* The stamp of a log line.
log_timestamp(d, s) == civil_from_days(d) \o clock_fields(s)

\* The stamp of a timing sample, for its record and for its file name.
timestamp(d, s) == [rfc3339 |-> civil_from_days(d) \o clock_fields(s),
                    compact |-> civil_from_days(d) \o clock_fields(s)]

-----------------------------------------------------------------------------
(* The calendar, day by day *)

Leap(y) == (y % 4 = 0 /\ y % 100 # 0) \/ y % 400 = 0
MonthLength(y, m) ==
    IF m = 2 THEN (IF Leap(y) THEN 29 ELSE 28)
    ELSE IF m \in {4, 6, 9, 11} THEN 30 ELSE 31

NextDate(d) ==
    IF d[3] < MonthLength(d[1], d[2]) THEN <<d[1], d[2], d[3] + 1>>
    ELSE IF d[2] < 12 THEN <<d[1], d[2] + 1, 1>>
    ELSE <<d[1] + 1, 1, 1>>

\* Leap years up to year y, and the days from the epoch to 1 January of y.
LeapYears(y) == y \div 4 - y \div 100 + y \div 400
NewYear(y) == 365 * (y - 1970) + LeapYears(y - 1) - LeapYears(1969)

\* The clock starts at a new year.
Init ==
    \E y \in 1970..LastYear :
        /\ days = NewYear(y)
        /\ sod = 0
        /\ date = <<y, 1, 1>>

\* The clock is read again later on the same day.
Later(s) ==
    /\ s > sod
    /\ \A t \in SecondsOfDay : t > sod => s <= t
    /\ sod' = s
    /\ UNCHANGED <<days, date>>

\* The clock is read again on the next day.
Midnight ==
    /\ date[1] <= LastYear
    /\ \A t \in SecondsOfDay : t <= sod
    /\ days' = days + 1
    /\ sod' = 0
    /\ date' = NextDate(date)

Next == Midnight \/ \E s \in SecondsOfDay : Later(s)

Spec == Init /\ [][Next]_vars

-----------------------------------------------------------------------------
(* Properties *)

\* The types of the clock, and of the unsigned intermediate results of
\* civil_from_days: a negative one would panic in a debug build.
TypeOK ==
    LET doe == DayOfEra(days)
    IN  /\ days \in 0..NewYear(LastYear + 1)
        /\ sod \in SecondsOfDay
        /\ doe \in Nat /\ doe <= 146096
        /\ YearOfEra(doe) \in 0..399
        /\ DayOfYear(doe) \in 0..365

\* Every timestamp is that of the Gregorian calendar and a 24 hour clock:
\* counting the days from the epoch with the months' lengths and the leap
\* years gives the same date, and the fields give back the second of the day.
Shows(stamp) ==
    /\ SubSeq(stamp, 1, 3) = date
    /\ stamp[4] \in 0..23 /\ stamp[5] \in 0..59 /\ stamp[6] \in 0..59
    /\ sod = 3600 * stamp[4] + 60 * stamp[5] + stamp[6]
StampCorrect ==
    /\ Shows(utc_timestamp(days, sod))
    /\ Shows(log_timestamp(days, sod))
    /\ Shows(timestamp(days, sod).rfc3339)

\* Of two tuples of fields, the first that differs is smaller.
Before(a, b) ==
    \E i \in 1..6 : a[i] < b[i] /\ \A j \in 1..(i - 1) : a[j] = b[j]

\* A later time has a later timestamp, also as text: log lines and the names
\* of sample files sort in the order of time.
StampsIncrease ==
    [][/\ Before(utc_timestamp(days, sod), utc_timestamp(days', sod'))
       /\ Before(log_timestamp(days, sod), log_timestamp(days', sod'))
       /\ Before(timestamp(days, sod).compact, timestamp(days', sod').compact)]_vars
=============================================================================
