------------------------ MODULE StatelessPartsProofs ------------------------
(* Proofs about the parts that StatelessParts composes: the timestamps,    *)
(* the challenges, the TDREPORT and the GPU script's output.  The timing   *)
(* record has a module of its own, TimingRecordProofs, which ends with the *)
(* types of all the parts together.                                        *)
EXTENDS StatelessParts, SequenceTheorems, FiniteSetTheorems, WellFoundedInduction, TLAPS

-----------------------------------------------------------------------------
(* Timestamps: civil_from_days is the Gregorian calendar.                  *)
(*                                                                         *)
(* Years are counted from March, as the code does: March is month 0 and    *)
(* January and February belong to the year before.  A year of an era of    *)
(* 400 years is 100 * c + 4 * q + r.                                       *)

MarchYear(y, m) == IF m <= 2 THEN y - 1 ELSE y
MarchMonth(m) == IF m <= 2 THEN m + 9 ELSE m - 3

\* The day of the year that starts in March, and the days before that year.
MarchDay(m, d) == (153 * MarchMonth(m) + 2) \div 5 + d - 1
DaysBefore(y) == 365 * y + Cal!LeapYears(y)

\* The digits of a year.
Digits(y, e, c, q, r) == y = 400 * e + 100 * c + 4 * q + r

\* A day of an era, and whether 29 February may be this day of the year.
EraDay(c, q, r, doy) == 36524 * c + 1461 * q + 365 * r + doy
DayFits(c, q, r, doy) == doy = 365 => r = 3 /\ (q # 24 \/ c = 3)

\* The code's formulas for the year of the era and for the month, on one day.
YearFound(c, q, r, doy) == Cal!YearOfEra(EraDay(c, q, r, doy)) = 100 * c + 4 * q + r
MonthFound(m, d) ==
    /\ (5 * MarchDay(m, d) + 2) \div 153 = MarchMonth(m)
    /\ MarchDay(m, d) \in 0..365
    /\ MarchDay(m, d) = 365 <=> m = 2 /\ d = 29

\* The same day by its era, and what civil_from_days computes on the way.
InEra(e, c, q, r, doy, z) == z + 719468 = 146097 * e + EraDay(c, q, r, doy)
DayFound(e, c, q, r, doy, z) ==
    /\ (z + 719468) \div 146097 = e
    /\ Cal!DayOfEra(z) \in Nat /\ Cal!DayOfEra(z) <= 146096
    /\ Cal!YearOfEra(Cal!DayOfEra(z)) = 100 * c + 4 * q + r
    /\ Cal!DayOfYear(Cal!DayOfEra(z)) = doy

\* The unsigned numbers that civil_from_days computes on day z.
EraTypes(z) ==
    /\ Cal!DayOfEra(z) \in Nat /\ Cal!DayOfEra(z) <= 146096
    /\ Cal!YearOfEra(Cal!DayOfEra(z)) \in 0..399
    /\ Cal!DayOfYear(Cal!DayOfEra(z)) \in 0..365

\* A date and a day since the epoch are the same day.
SameDay(y, m, d, z) == z + 719468 = DaysBefore(MarchYear(y, m)) + MarchDay(m, d)

\* The calendar's next date is the day after z; a new year starts with January.
NextDay(y, m, d, z) ==
    \E y1 \in {y, y + 1}, m1 \in 1..12 : \E d1 \in 1..Cal!MonthLength(y1, m1) :
        /\ Cal!NextDate(<<y, m, d>>) = <<y1, m1, d1>>
        /\ SameDay(y1, m1, d1, z + 1)
        /\ y1 = y + 1 => m1 = 1 /\ d1 = 1

\* The clock and the date count the same day.
DateInv ==
    \E y \in 1970..(LastYear + 1), m \in 1..12 : \E d \in 1..Cal!MonthLength(y, m) :
        /\ date = <<y, m, d>>
        /\ SameDay(y, m, d, days)
        /\ y = LastYear + 1 => m = 1 /\ d = 1

\* The digits of a year.
LEMMA YearDigits ==
    ASSUME NEW y \in Nat
    PROVE  \E e \in Nat, c \in 0..3, q \in 0..24, r \in 0..3 :
              y = 400 * e + 100 * c + 4 * q + r
<1> DEFINE e == y \div 400
           f == y % 400
           c == f \div 100
           g == f % 100
           q == g \div 4
           r == g % 4
<1>1. e \in Nat /\ f \in 0..399 /\ y = 400 * e + f
    OBVIOUS
<1> HIDE DEF e, f
<1>2. c \in 0..3 /\ g \in 0..99 /\ f = 100 * c + g
    BY <1>1
<1> HIDE DEF c, g
<1>3. q \in 0..24 /\ r \in 0..3 /\ g = 4 * q + r
    BY <1>2
<1> HIDE DEF q, r
<1> QED
    BY <1>1, <1>2, <1>3

\* The leap years up to a year, from its digits.
LEMMA LeapYearsOf ==
    ASSUME NEW e \in Nat, NEW c \in 0..3, NEW q \in 0..24, NEW r \in 0..3
    PROVE  Cal!LeapYears(400 * e + 100 * c + 4 * q + r) = 97 * e + 24 * c + q
<1> DEFINE y == 400 * e + 100 * c + 4 * q + r
<1>1. y \div 4 = 100 * e + 25 * c + q
    OBVIOUS
<1>2. y \div 100 = 4 * e + c
    OBVIOUS
<1>3. y \div 400 = e
    OBVIOUS
<1> QED
    BY <1>1, <1>2, <1>3 DEF Cal!LeapYears

\* The year of the era, from the day of the era: the corrections of the code's
\* formula are exact on every day.
LEMMA YearOfEraOf ==
    ASSUME NEW c \in 0..3, NEW q \in 0..24, NEW r \in 0..3, NEW doy \in 0..365,
           DayFits(c, q, r, doy)
    PROVE  YearFound(c, q, r, doy)
<1> DEFINE doe == 36524 * c + 1461 * q + 365 * r + doy
           rest == 24 * c + q + 365 * r + doy
           x == IF rest >= 1460 THEN 1 ELSE 0
<1>1. doe \div 36524 - doe \div 146096 = c
  <2> DEFINE in == 1461 * q + 365 * r + doy
  <2>1. in \in Nat /\ in <= 36524 /\ (in = 36524 => c = 3)
    BY DEF DayFits
  <2>2. doe = 36524 * c + in
    OBVIOUS
  <2> HIDE DEF doe, in
  <2>3. CASE in = 36524
    BY <2>1, <2>2, <2>3
  <2>4. CASE in \in Nat /\ in < 36524
    <3>1. doe \div 36524 = c
      BY ONLY <2>2, <2>4, c \in 0..3, SMTT(60)
    <3>2. doe \div 146096 = 0
      BY ONLY <2>2, <2>4, c \in 0..3, SMTT(60)
    <3> QED
      BY <3>1, <3>2
  <2> QED
    BY <2>1, <2>3, <2>4
<1>2. doe = 1460 * (25 * c + q) + rest /\ rest \in 0..1556
    OBVIOUS
<1>3. doe \div 1460 = 25 * c + q + x
  <2> HIDE DEF doe, rest
  <2> QED
    BY <1>2
<1>4. doe - doe \div 1460 + doe \div 36524 - doe \div 146096
        = 365 * (100 * c + 4 * q + r) + (doy - x)
  <2>1. doe - (25 * c + q + x) + c = 365 * (100 * c + 4 * q + r) + (doy - x)
    OBVIOUS
  <2>2. doe \div 1460 \in Int /\ doe \div 36524 \in Int /\ doe \div 146096 \in Int /\ doe \in Int
    OBVIOUS
  <2> HIDE DEF doe, x
  <2> QED
    BY <1>1, <1>3, <2>1, <2>2
<1>5. doy - x \in 0..364
    BY DEF DayFits
<1> HIDE DEF doe, x
<1> QED
    BY <1>4, <1>5, SMTT(60) DEF Cal!YearOfEra, YearFound, EraDay, doe

\* The day of the year gives back month and day.
LEMMA MonthOf ==
    ASSUME NEW m \in 1..12, NEW d \in 1..31, m \in {4, 6, 9, 11} => d <= 30, m = 2 => d <= 29
    PROVE  MonthFound(m, d)
<1>1. CASE m \in {1, 2, 3}
    BY <1>1 DEF MonthFound, MarchDay, MarchMonth
<1>2. CASE m \in {4, 5, 6}
    BY <1>2 DEF MonthFound, MarchDay, MarchMonth
<1>3. CASE m \in {7, 8, 9}
    BY <1>3 DEF MonthFound, MarchDay, MarchMonth
<1>4. CASE m \in {10, 11, 12}
    BY <1>4 DEF MonthFound, MarchDay, MarchMonth
<1> QED
    BY <1>1, <1>2, <1>3, <1>4

\* A year after one with these digits is a leap year.
LEMMA LeapOf ==
    ASSUME NEW e \in Nat, NEW c \in 0..3, NEW q \in 0..24, NEW r \in 0..3
    PROVE  Cal!Leap(400 * e + 100 * c + 4 * q + r + 1) <=> r = 3 /\ (q # 24 \/ c = 3)
<1> DEFINE y == 400 * e + 100 * c + 4 * q + r + 1
<1>1. y % 4 = 0 <=> r = 3
    OBVIOUS
<1>2. y % 100 = 0 <=> r = 3 /\ q = 24
    OBVIOUS
<1>3. y % 400 = 0 <=> r = 3 /\ q = 24 /\ c = 3
    OBVIOUS
<1> QED
    BY <1>1, <1>2, <1>3 DEF Cal!Leap

\* The digits of the year from March of a date, and its day of that year.
LEMMA DateDigits ==
    ASSUME NEW y \in Nat \ {0}, NEW m \in 1..12, NEW d \in 1..Cal!MonthLength(y, m)
    PROVE  /\ MonthFound(m, d)
           /\ \E e \in Nat, c \in 0..3, q \in 0..24, r \in 0..3 :
                 /\ Digits(MarchYear(y, m), e, c, q, r)
                 /\ DayFits(c, q, r, MarchDay(m, d))
<1>1. MarchYear(y, m) \in Nat
    BY DEF MarchYear
<1>2. PICK e \in Nat, c \in 0..3, q \in 0..24, r \in 0..3 :
        MarchYear(y, m) = 400 * e + 100 * c + 4 * q + r
  <2> DEFINE Y == MarchYear(y, m)
  <2>1. Y \in Nat
    BY <1>1
  <2> HIDE DEF Y
  <2>2. \E e \in Nat, c \in 0..3, q \in 0..24, r \in 0..3 :
           Y = 400 * e + 100 * c + 4 * q + r
    BY ONLY <2>1, YearDigits
  <2> QED
    BY <2>2 DEF Y
<1>3. /\ d \in 1..31 /\ (m \in {4, 6, 9, 11} => d <= 30) /\ (m = 2 => d <= 29)
      /\ m = 2 /\ d = 29 => Cal!Leap(y)
    BY DEF Cal!MonthLength
<1>4. MonthFound(m, d)
    BY <1>3, MonthOf
<1>5. DayFits(c, q, r, MarchDay(m, d))
  <2>1. m = 2 => y = 400 * e + 100 * c + 4 * q + r + 1
    BY <1>2 DEF MarchYear
  <2>2. MarchDay(m, d) = 365 => m = 2 /\ d = 29
    BY <1>4 DEF MonthFound
  <2> QED
    BY <1>3, <2>2, <2>1, LeapOf DEF DayFits
<1> QED
    BY <1>2, <1>4, <1>5 DEF Digits

\* The parts of civil_from_days on a day of an era with these digits.
LEMMA EraOf ==
    ASSUME NEW e \in Nat, NEW c \in 0..3, NEW q \in 0..24, NEW r \in 0..3, NEW doy \in 0..365,
           DayFits(c, q, r, doy), NEW z \in Int, InEra(e, c, q, r, doy, z)
    PROVE  DayFound(e, c, q, r, doy, z)
<1> DEFINE doe == EraDay(c, q, r, doy)
           yoe == 100 * c + 4 * q + r
<1>1. doe \in Nat /\ doe <= 146096
    BY SMT DEF EraDay
<1>2. Cal!YearOfEra(doe) = yoe
  <2>1. YearFound(c, q, r, doy)
    BY ONLY YearOfEraOf, c \in 0..3, q \in 0..24, r \in 0..3, doy \in 0..365,
            DayFits(c, q, r, doy), Zenon
  <2> QED
    BY <2>1, SMT DEF YearFound
<1>3. yoe \in 0..399 /\ yoe \div 4 = 25 * c + q /\ yoe \div 100 = c
    BY SMT
<1>4. doe - (365 * yoe + (25 * c + q) - c) = doy
    BY SMT DEF EraDay
<1> HIDE DEF doe, yoe
<1>6. (z + 719468) % 146097 = doe /\ (z + 719468) \div 146097 = e
    BY <1>1, SMT DEF doe, InEra
<1>7. Cal!DayOfEra(z) = doe
    BY <1>6, SMT DEF Cal!DayOfEra
<1>8. Cal!DayOfYear(doe) = doy
    BY <1>1, <1>2, <1>3, <1>4, SMT DEF Cal!DayOfYear
<1> QED
    BY <1>1, <1>2, <1>6, <1>7, <1>8, SMT DEF yoe, DayFound

\* The code's date of a day, given its year and day of the year from March.
LEMMA CivilOf ==
    ASSUME NEW y \in Nat \ {0}, NEW m \in 1..12, NEW d \in 1..Cal!MonthLength(y, m),
           NEW z \in Int, SameDay(y, m, d, z)
    PROVE  Cal!civil_from_days(z) = <<y, m, d>> /\ EraTypes(z)
<1> DEFINE Y == MarchYear(y, m)
           mp == MarchMonth(m)
           doy == MarchDay(m, d)
           month == IF mp < 10 THEN mp + 3 ELSE mp - 9
<1>1. z + 719468 = DaysBefore(Y) + doy
    BY SMT DEF SameDay
<1>2. d \in Nat /\ month = m /\ doy - (153 * mp + 2) \div 5 + 1 = d
    BY SMT DEF MarchDay, MarchMonth, Cal!MonthLength
<1>3. Y = IF m <= 2 THEN y - 1 ELSE y
    BY SMT DEF MarchYear
<1>4. (5 * doy + 2) \div 153 = mp /\ doy \in 0..365
  <2>1. MonthFound(m, d)
    BY ONLY DateDigits, y \in Nat \ {0}, m \in 1..12, d \in 1..Cal!MonthLength(y, m), Zenon
  <2> QED
    BY <2>1, SMT DEF MonthFound
<1>5. \E e \in Nat, c \in 0..3, q \in 0..24, r \in 0..3 :
        /\ Digits(Y, e, c, q, r)
        /\ DayFits(c, q, r, doy)
    BY ONLY DateDigits, y \in Nat \ {0}, m \in 1..12, d \in 1..Cal!MonthLength(y, m), Zenon
       DEF Y, doy
<1> HIDE DEF Y, mp, doy
<1>6. PICK e \in Nat, c \in 0..3, q \in 0..24, r \in 0..3 :
        /\ Y = 400 * e + 100 * c + 4 * q + r
        /\ DayFits(c, q, r, doy)
    BY ONLY <1>5, SMT DEF Digits
<1> DEFINE yoe == 100 * c + 4 * q + r
<1>7. InEra(e, c, q, r, doy, z)
  <2>1. Cal!LeapYears(Y) = 97 * e + 24 * c + q
    BY <1>6, LeapYearsOf, SMTT(60)
  <2> QED
    BY <1>1, <1>4, <1>6, <2>1, SMT DEF DaysBefore, EraDay, InEra
<1>8. DayFound(e, c, q, r, doy, z)
    BY <1>4, <1>6, <1>7, EraOf, Zenon
<1>9. yoe \in 0..399 /\ y = IF m <= 2 THEN yoe + e * 400 + 1 ELSE yoe + e * 400
    BY <1>3, <1>6, SMT
<1>10. Cal!YearOfEra(Cal!DayOfEra(z)) = yoe
    BY <1>8, SMT DEF DayFound
<1> HIDE DEF yoe, month
<1>11. Cal!civil_from_days(z) =
        <<IF month <= 2 THEN yoe + e * 400 + 1 ELSE yoe + e * 400, month,
          doy - (153 * mp + 2) \div 5 + 1>>
    BY <1>4, <1>8, <1>10, SMT DEF Cal!civil_from_days, month, DayFound
<1> QED
    BY <1>2, <1>4, <1>8, <1>9, <1>10, <1>11, SMT DEF DayFound, EraTypes

\* A year has 365 days, or 366 when the next February has 29: the leap years
\* up to a year and those up to the year before differ by this year.
LEMMA NextLeap ==
    ASSUME NEW y \in Nat \ {0}
    PROVE  /\ Cal!LeapYears(y - 1) \in Int
           /\ Cal!LeapYears(y) = Cal!LeapYears(y - 1) + (IF Cal!Leap(y) THEN 1 ELSE 0)
<1>1. PICK e \in Nat, c \in 0..3, q \in 0..24, r \in 0..3 :
        y - 1 = 400 * e + 100 * c + 4 * q + r
  <2> DEFINE Y == y - 1
  <2>1. Y \in Nat
    OBVIOUS
  <2> HIDE DEF Y
  <2>2. \E e \in Nat, c \in 0..3, q \in 0..24, r \in 0..3 :
           Y = 400 * e + 100 * c + 4 * q + r
    BY ONLY <2>1, YearDigits
  <2> QED
    BY <2>2 DEF Y
<1>2. Cal!LeapYears(y - 1) = 97 * e + 24 * c + q
    BY <1>1, LeapYearsOf
<1>3. Cal!Leap(y) <=> r = 3 /\ (q # 24 \/ c = 3)
  <2>1. y = 400 * e + 100 * c + 4 * q + r + 1
    BY <1>1
  <2> QED
    BY <2>1, LeapOf, SMTT(60)
<1>4. \A f \in Nat, g \in 0..3, h \in 0..24, i \in 0..3 :
        y = 400 * f + 100 * g + 4 * h + i => Cal!LeapYears(y) = 97 * f + 24 * g + h
    BY LeapYearsOf
<1>5. CASE r < 3
  <2>1. y = 400 * e + 100 * c + 4 * q + (r + 1) /\ r + 1 \in 0..3
    BY <1>1, <1>5
  <2>2. Cal!LeapYears(y) = 97 * e + 24 * c + q
    BY <1>4, <2>1
  <2> QED
    BY <1>2, <1>3, <1>5, <2>2
<1>6. CASE r = 3 /\ q < 24
  <2>1. y = 400 * e + 100 * c + 4 * (q + 1) + 0 /\ q + 1 \in 0..24 /\ 0 \in 0..3
    BY <1>1, <1>6
  <2>2. Cal!LeapYears(y) = 97 * e + 24 * c + (q + 1)
    BY <1>4, <2>1
  <2> QED
    BY <1>2, <1>3, <1>6, <2>2
<1>7. CASE r = 3 /\ q = 24 /\ c < 3
  <2>1. /\ y = 400 * e + 100 * (c + 1) + 4 * 0 + 0
        /\ c + 1 \in 0..3 /\ 0 \in 0..24 /\ 0 \in 0..3
    BY <1>1, <1>7
  <2>2. Cal!LeapYears(y) = 97 * e + 24 * (c + 1) + 0
    BY <1>4, <2>1
  <2> QED
    BY <1>2, <1>3, <1>7, <2>2
<1>8. CASE r = 3 /\ q = 24 /\ c = 3
  <2>1. /\ y = 400 * (e + 1) + 100 * 0 + 4 * 0 + 0
        /\ e + 1 \in Nat /\ 0 \in 0..3 /\ 0 \in 0..24
    BY <1>1, <1>8
  <2>2. Cal!LeapYears(y) = 97 * (e + 1) + 24 * 0 + 0
    BY <1>4, <2>1
  <2> QED
    BY <1>2, <1>3, <1>8, <2>2
<1> QED
    BY <1>2, <1>5, <1>6, <1>7, <1>8

\* A new year's day is counted right.
LEMMA NewYearDay ==
    ASSUME NEW y \in Nat \ {0}
    PROVE  Cal!NewYear(y) \in Int /\ SameDay(y, 1, 1, Cal!NewYear(y))
<1>1. Cal!LeapYears(1969) = 477
    BY DEF Cal!LeapYears
<1>2. Cal!LeapYears(y - 1) \in Int
    BY NextLeap
<1>3. MarchYear(y, 1) = y - 1 /\ MarchDay(1, 1) = 306
    BY DEF MarchYear, MarchDay, MarchMonth
<1> QED
    BY <1>1, <1>2, <1>3, SMT DEF Cal!NewYear, SameDay, DaysBefore

\* A day later, the calendar's next date is still the same day.
LEMMA Tomorrow ==
    ASSUME NEW y \in Nat \ {0}, NEW m \in 1..12, NEW d \in 1..Cal!MonthLength(y, m),
           NEW z \in Int, SameDay(y, m, d, z)
    PROVE  NextDay(y, m, d, z)
<1> DEFINE n == Cal!NextDate(<<y, m, d>>)
<1>1. Cal!MonthLength(y, m) \in 28..31 /\ d \in Nat
    BY DEF Cal!MonthLength
<1>2. CASE d < Cal!MonthLength(y, m)
  <2>1. n = <<y, m, d + 1>> /\ d + 1 \in 1..Cal!MonthLength(y, m)
    BY <1>1, <1>2 DEF Cal!NextDate
  <2>2. SameDay(y, m, d + 1, z + 1)
    <3>1. MarchDay(m, d + 1) = MarchDay(m, d) + 1 /\ MarchDay(m, d) \in Int
      BY <1>1 DEF MarchDay, MarchMonth
    <3>2. DaysBefore(MarchYear(y, m)) \in Int
      BY DEF DaysBefore, MarchYear, Cal!LeapYears
    <3> QED
      BY <3>1, <3>2, SMT DEF SameDay
  <2> QED
    BY <2>1, <2>2, SMT DEF NextDay
<1>3. CASE d = Cal!MonthLength(y, m) /\ m = 12
  <2>1. n = <<y + 1, 1, 1>> /\ d = 31 /\ Cal!MonthLength(y + 1, 1) = 31
    BY <1>1, <1>3 DEF Cal!NextDate, Cal!MonthLength
  <2>2. SameDay(y + 1, 1, 1, z + 1)
    <3>1. MarchYear(y + 1, 1) = y /\ MarchYear(y, 12) = y
      BY DEF MarchYear
    <3>2. MarchDay(1, 1) = 306 /\ MarchDay(12, 31) = 305
      BY DEF MarchDay, MarchMonth
    <3>3. DaysBefore(y) \in Int
      BY DEF DaysBefore, Cal!LeapYears
    <3> QED
      BY <1>3, <2>1, <3>1, <3>2, <3>3, SMT DEF SameDay
  <2> QED
    BY <2>1, <2>2, SMT DEF NextDay
<1>4. CASE d = Cal!MonthLength(y, m) /\ m = 2
  <2>1. n = <<y, 3, 1>> /\ d = (IF Cal!Leap(y) THEN 29 ELSE 28) /\ Cal!MonthLength(y, 3) = 31
    BY <1>1, <1>4 DEF Cal!NextDate, Cal!MonthLength
  <2>2. SameDay(y, 3, 1, z + 1)
    <3>1. MarchYear(y, 3) = y /\ MarchYear(y, 2) = y - 1
      BY DEF MarchYear
    <3>2. MarchDay(3, 1) = 0 /\ MarchDay(2, d) = 336 + d
      BY <1>1 DEF MarchDay, MarchMonth
    <3>3. DaysBefore(y) = DaysBefore(y - 1) + 365 + (IF Cal!Leap(y) THEN 1 ELSE 0)
      BY NextLeap, SMT DEF DaysBefore
    <3>4. DaysBefore(y - 1) \in Int
      BY NextLeap, SMT DEF DaysBefore
    <3> QED
      BY <1>4, <2>1, <3>1, <3>2, <3>3, <3>4, SMT DEF SameDay
  <2> QED
    BY <2>1, <2>2, SMT DEF NextDay
<1>5. CASE d = Cal!MonthLength(y, m) /\ m \notin {2, 12}
  <2>1. n = <<y, m + 1, 1>> /\ d = (IF m \in {4, 6, 9, 11} THEN 30 ELSE 31)
    BY <1>1, <1>5 DEF Cal!NextDate, Cal!MonthLength
  <2>2. m + 1 \in 1..12 /\ 1 \in 1..Cal!MonthLength(y, m + 1)
    BY <1>5 DEF Cal!MonthLength
  <2>3. SameDay(y, m + 1, 1, z + 1)
    <3>1. MarchYear(y, m + 1) = MarchYear(y, m)
      BY <1>5 DEF MarchYear
    <3>2. MarchDay(m + 1, 1) = MarchDay(m, d) + 1 /\ MarchDay(m, d) \in Int
      BY <1>5, <2>1 DEF MarchDay, MarchMonth
    <3>3. DaysBefore(MarchYear(y, m)) \in Int
      BY DEF DaysBefore, MarchYear, Cal!LeapYears
    <3> QED
      BY <3>1, <3>2, <3>3, SMT DEF SameDay
  <2> QED
    BY <2>1, <2>2, <2>3, SMT DEF NextDay
<1> QED
    BY <1>1, <1>2, <1>3, <1>4, <1>5, SMT

\* The seconds of a day, and the fields that count them.
OfDay(s) == s \in Nat /\ s <= 86399
TimeFound(s) ==
    /\ s \div 3600 \in 0..23 /\ (s % 3600) \div 60 \in 0..59 /\ s % 60 \in 0..59
    /\ s = 3600 * (s \div 3600) + 60 * ((s % 3600) \div 60) + (s % 60)

\* The fields of the time of day count its seconds.
LEMMA TimeOf ==
    ASSUME NEW s, OfDay(s)
    PROVE  TimeFound(s)
<1> DEFINE h == s \div 3600
           t == s % 3600
           u == t \div 60
           v == t % 60
<1>0. s \in Nat
    BY DEF OfDay
<1>1. h \in 0..23 /\ t \in 0..3599 /\ s = 3600 * h + t
    BY SMT DEF OfDay
<1> HIDE DEF h, t
<1>2. u \in 0..59 /\ v \in 0..59 /\ t = 60 * u + v
    BY <1>1, SMT
<1> HIDE DEF u, v
<1>3. s % 60 = v
    BY <1>0, <1>1, <1>2, SMT
<1> QED
    BY <1>0, <1>1, <1>2, <1>3, SMT DEF h, t, u, TimeFound

\* A stamp joins the date and the time of day, and the date can be read off it.
Joined(y, m, d, h, u, v) == <<y, m, d>> \o <<h, u, v>> = <<y, m, d, h, u, v>>
DateFirst(y, m, d, h, u, v) == SubSeq(<<y, m, d, h, u, v>>, 1, 3) = <<y, m, d>>

\* The date and the time of day, joined to a stamp.
LEMMA JoinTriples ==
    ASSUME NEW y \in Int, NEW m \in Int, NEW d \in Int,
           NEW h \in Int, NEW u \in Int, NEW v \in Int
    PROVE  Joined(y, m, d, h, u, v)
<1> DEFINE a == <<y, m, d>>
           b == <<h, u, v>>
           w == <<y, m, d, h, u, v>>
           x == a \o b
<1>1. /\ a \in Seq(Int) /\ b \in Seq(Int) /\ w \in Seq(Int)
      /\ Len(a) = 3 /\ Len(b) = 3 /\ Len(w) = 6
    BY SMT
<1>2. x \in Seq(Int) /\ Len(x) = 6
    BY <1>1, SMT
<1>3. /\ x[1] = w[1] /\ x[2] = w[2] /\ x[3] = w[3]
      /\ x[4] = w[4] /\ x[5] = w[5] /\ x[6] = w[6]
    BY <1>1, SMT
<1> HIDE DEF x, w
<1>4. Len(x) = Len(w) /\ \A i \in 1..Len(x) : x[i] = w[i]
    BY <1>1, <1>2, <1>3, SMT
<1>5. x = w
    BY <1>1, <1>2, <1>4, SeqEqual, Zenon
<1> QED
    BY <1>5 DEF x, w, Joined

\* The date of a stamp is its first three fields.
LEMMA FirstThree ==
    ASSUME NEW y \in Int, NEW m \in Int, NEW d \in Int,
           NEW h \in Int, NEW u \in Int, NEW v \in Int
    PROVE  DateFirst(y, m, d, h, u, v)
<1> DEFINE a == <<y, m, d>>
           w == <<y, m, d, h, u, v>>
           x == SubSeq(w, 1, 3)
<1>1. a \in Seq(Int) /\ w \in Seq(Int) /\ Len(a) = 3 /\ Len(w) = 6
    BY SMT
<1>2. x \in Seq(Int) /\ Len(x) = 3
    BY <1>1, SMT
<1>3. x[1] = a[1] /\ x[2] = a[2] /\ x[3] = a[3]
    BY <1>1, SMT
<1> HIDE DEF x, a
<1>4. Len(x) = Len(a) /\ \A i \in 1..Len(x) : x[i] = a[i]
    BY <1>1, <1>2, <1>3, SMT
<1>5. x = a
    BY <1>1, <1>2, <1>4, SeqEqual, Zenon
<1> QED
    BY <1>5 DEF x, a, DateFirst

\* The fields that the stamp of a date and a time of day must have.
StampFields(y, m, d, s) == <<y, m, d, s \div 3600, (s % 3600) \div 60, s % 60>>

\* All three copies of the code build the same stamp, that of the date.
LEMMA StampOf ==
    ASSUME NEW y \in Nat \ {0}, NEW m \in 1..12, NEW d \in 1..Cal!MonthLength(y, m),
           NEW z \in Int, SameDay(y, m, d, z), NEW s, OfDay(s)
    PROVE  /\ Cal!utc_timestamp(z, s) = StampFields(y, m, d, s)
           /\ Cal!log_timestamp(z, s) = StampFields(y, m, d, s)
           /\ Cal!timestamp(z, s) = [rfc3339 |-> StampFields(y, m, d, s),
                                     compact |-> StampFields(y, m, d, s)]
<1> DEFINE h == s \div 3600
           u == (s % 3600) \div 60
           v == s % 60
<1>1. Cal!civil_from_days(z) = <<y, m, d>>
    BY CivilOf, SMTT(60)
<1>2. Cal!clock_fields(s) = <<h, u, v>>
    BY DEF Cal!clock_fields
<1>3. StampFields(y, m, d, s) = <<y, m, d, h, u, v>>
    BY DEF StampFields
<1>4. h \in Int /\ u \in Int /\ v \in Int
  <2>1. TimeFound(s)
    BY TimeOf
  <2> QED
    BY <2>1 DEF TimeFound
<1>5. y \in Int /\ m \in Int /\ d \in Int
    BY DEF Cal!MonthLength
<1> HIDE DEF h, u, v
<1>6. <<y, m, d>> \o <<h, u, v>> = <<y, m, d, h, u, v>>
  <2>1. Joined(y, m, d, h, u, v)
    BY <1>4, <1>5, JoinTriples
  <2> QED
    BY <2>1, Zenon DEF Joined
<1>7. Cal!civil_from_days(z) \o Cal!clock_fields(s) = StampFields(y, m, d, s)
    BY ONLY <1>1, <1>2, <1>3, <1>6, Zenon
<1>8. /\ Cal!utc_timestamp(z, s) = StampFields(y, m, d, s)
      /\ Cal!log_timestamp(z, s) = StampFields(y, m, d, s)
    BY ONLY <1>7, Zenon DEF Cal!utc_timestamp, Cal!log_timestamp
<1>9. Cal!timestamp(z, s) = [rfc3339 |-> StampFields(y, m, d, s),
                             compact |-> StampFields(y, m, d, s)]
    BY ONLY <1>7, Zenon DEF Cal!timestamp
<1> QED
    BY <1>8, <1>9

\* What the readings of the clock keep.
ClockInv == days \in Int /\ sod \in SecondsOfDay /\ DateInv

\* The clock starts at a new year's day.
LEMMA InitClock == Cal!Init => ClockInv
<1> SUFFICES ASSUME Cal!Init PROVE ClockInv
    OBVIOUS
<1>1. PICK y \in 1970..LastYear : days = Cal!NewYear(y) /\ sod = 0 /\ date = <<y, 1, 1>>
    BY DEF Cal!Init
<1>2. LastYear \in Nat /\ 0 \in SecondsOfDay
    BY BoundsAssumption, SetsAssumption
<1>3. y \in Nat \ {0} /\ y \in 1970..(LastYear + 1) /\ 1 \in 1..Cal!MonthLength(y, 1)
    BY <1>2 DEF Cal!MonthLength
<1>4. days \in Int /\ SameDay(y, 1, 1, days)
    BY <1>1, <1>3, NewYearDay
<1> QED
    BY <1>1, <1>2, <1>3, <1>4 DEF ClockInv, DateInv

\* A later reading on the same day, and the first one on the next day, keep the
\* date and the days together.
LEMMA NextClock == ClockInv /\ Cal!Next => ClockInv'
<1> SUFFICES ASSUME ClockInv, Cal!Next PROVE ClockInv'
    OBVIOUS
<1>0. LastYear \in Nat /\ 0 \in SecondsOfDay
    BY BoundsAssumption, SetsAssumption
<1>1. PICK y \in 1970..(LastYear + 1), m \in 1..12 : \E d \in 1..Cal!MonthLength(y, m) :
        /\ date = <<y, m, d>>
        /\ SameDay(y, m, d, days)
        /\ y = LastYear + 1 => m = 1 /\ d = 1
    BY DEF ClockInv, DateInv
<1>2. PICK d \in 1..Cal!MonthLength(y, m) :
        /\ date = <<y, m, d>>
        /\ SameDay(y, m, d, days)
        /\ y = LastYear + 1 => m = 1 /\ d = 1
    BY <1>1
<1>3. ASSUME NEW s \in SecondsOfDay, Cal!Later(s) PROVE ClockInv'
    BY <1>2, <1>3 DEF ClockInv, DateInv, Cal!Later, SameDay
<1>4. CASE Cal!Midnight
  <2>1. days \in Int /\ y \in Nat \ {0} /\ y <= LastYear
    BY <1>0, <1>2, <1>4 DEF ClockInv, Cal!Midnight
  <2>2. PICK y1 \in {y, y + 1}, m1 \in 1..12 : \E d1 \in 1..Cal!MonthLength(y1, m1) :
          /\ Cal!NextDate(<<y, m, d>>) = <<y1, m1, d1>>
          /\ SameDay(y1, m1, d1, days + 1)
          /\ y1 = y + 1 => m1 = 1 /\ d1 = 1
    <3>1. NextDay(y, m, d, days)
      BY <1>2, <2>1, Tomorrow
    <3> QED
      BY <3>1 DEF NextDay
  <2>3. PICK d1 \in 1..Cal!MonthLength(y1, m1) :
          /\ Cal!NextDate(<<y, m, d>>) = <<y1, m1, d1>>
          /\ SameDay(y1, m1, d1, days + 1)
          /\ y1 = y + 1 => m1 = 1 /\ d1 = 1
    BY <2>2
  <2>4. days' = days + 1 /\ sod' = 0 /\ date' = <<y1, m1, d1>>
    BY <1>2, <1>4, <2>3 DEF Cal!Midnight
  <2>5. /\ y1 \in 1970..(LastYear + 1)
        /\ y1 = LastYear + 1 => m1 = 1 /\ d1 = 1
    BY <1>0, <2>1, <2>3
  <2>6. DateInv'
    BY <2>3, <2>4, <2>5 DEF DateInv, SameDay
  <2> QED
    BY <1>0, <2>1, <2>4, <2>6 DEF ClockInv
<1> QED
    BY <1>3, <1>4 DEF Cal!Next

\* A step of another part leaves the clock alone.
LEMMA NextKeepsClock == ClockInv /\ [Next]_vars => ClockInv'
<1> SUFFICES ASSUME ClockInv, [Next]_vars PROVE ClockInv'
    OBVIOUS
<1>1. CASE UNCHANGED clockVars
    BY <1>1 DEF ClockInv, DateInv, SameDay, clockVars
<1>2. CASE Cal!Next
    BY <1>2, NextClock
<1> QED
    BY <1>1, <1>2
    DEF Next, ParseGpu, DecodeChallenge, DecodeReport, ReadClock, RecordRequest, vars

\* The clock of the machine and the calendar count the same day, for ever.
THEOREM ClockInvariance == Spec => []ClockInv
<1>1. Init => ClockInv
    BY InitClock DEF Init
<1> QED
    BY <1>1, NextKeepsClock, PTL DEF Spec

\* The fields of a stamp show its date and its time of day.
LEMMA FieldsShow ==
    ASSUME NEW y \in Int, NEW m \in Int, NEW d \in Int, OfDay(sod), date = <<y, m, d>>
    PROVE  Cal!Shows(StampFields(y, m, d, sod))
<1> DEFINE h == sod \div 3600
           u == (sod % 3600) \div 60
           v == sod % 60
           stamp == <<y, m, d, h, u, v>>
<1>1. h \in 0..23 /\ u \in 0..59 /\ v \in 0..59 /\ sod = 3600 * h + 60 * u + v
  <2>1. TimeFound(sod)
    BY TimeOf
  <2> QED
    BY <2>1 DEF TimeFound
<1>2. StampFields(y, m, d, sod) = stamp
    BY DEF StampFields
<1> HIDE DEF h, u, v
<1>3. SubSeq(stamp, 1, 3) = date
  <2>1. h \in Int /\ u \in Int /\ v \in Int
    BY <1>1
  <2>2. DateFirst(y, m, d, h, u, v)
    BY <2>1, FirstThree
  <2> QED
    BY <2>2, Zenon DEF DateFirst
<1>4. stamp[4] = h /\ stamp[5] = u /\ stamp[6] = v
    OBVIOUS
<1> HIDE DEF stamp
<1> QED
    BY <1>1, <1>2, <1>3, <1>4 DEF Cal!Shows

\* The stamps of the present day and time, by every copy of the code.
StampsNow(y, m, d) ==
    /\ date = <<y, m, d>>
    /\ Cal!utc_timestamp(days, sod) = StampFields(y, m, d, sod)
    /\ Cal!log_timestamp(days, sod) = StampFields(y, m, d, sod)
    /\ Cal!timestamp(days, sod) = [rfc3339 |-> StampFields(y, m, d, sod),
                                   compact |-> StampFields(y, m, d, sod)]

\* The clock's invariant gives the date that the stamps show.
LEMMA ClockStamps ==
    ASSUME ClockInv
    PROVE  /\ OfDay(sod)
           /\ \E y \in Nat \ {0}, m \in 1..12 :
                 \E d \in 1..Cal!MonthLength(y, m) : StampsNow(y, m, d)
<1>1. PICK y \in 1970..(LastYear + 1), m \in 1..12 : \E d \in 1..Cal!MonthLength(y, m) :
        date = <<y, m, d>> /\ SameDay(y, m, d, days)
    BY DEF ClockInv, DateInv
<1>2. PICK d \in 1..Cal!MonthLength(y, m) : date = <<y, m, d>> /\ SameDay(y, m, d, days)
    BY <1>1
<1>3. y \in Nat \ {0} /\ days \in Int /\ OfDay(sod)
    BY BoundsAssumption, SetsAssumption DEF ClockInv, OfDay
<1>4. StampsNow(y, m, d)
    BY <1>2, <1>3, StampOf DEF StampsNow
<1> QED
    BY <1>3, <1>4

\* Every timestamp the server writes is the date of the Gregorian calendar and
\* the time of day: the formulas of civil_from_days are exact on every day from
\* the epoch on, in all three copies.
THEOREM StampsAreRight == Spec => []StampCorrect
<1>1. ClockInv => StampCorrect
  <2> SUFFICES ASSUME ClockInv PROVE StampCorrect
    OBVIOUS
  <2>1. OfDay(sod)
    BY ClockStamps
  <2>2. PICK y \in Nat \ {0}, m \in 1..12 :
          \E d \in 1..Cal!MonthLength(y, m) : StampsNow(y, m, d)
    BY ClockStamps
  <2>3. PICK d \in 1..Cal!MonthLength(y, m) : StampsNow(y, m, d)
    BY <2>2
  <2>4. y \in Int /\ m \in Int /\ d \in Int
    BY DEF Cal!MonthLength
  <2>5. Cal!Shows(StampFields(y, m, d, sod))
    BY <2>1, <2>3, <2>4, FieldsShow DEF StampsNow
  <2>6. Cal!timestamp(days, sod).rfc3339 = StampFields(y, m, d, sod)
    BY <2>3 DEF StampsNow
  <2> QED
    BY <2>3, <2>5, <2>6, Zenon DEF StampCorrect, Cal!StampCorrect, StampsNow
<1> QED
    BY <1>1, ClockInvariance, PTL

\* The time of day, read later, is a larger triple of fields.
LEMMA LaterFields ==
    ASSUME NEW s, NEW t, OfDay(s), OfDay(t), s < t
    PROVE  \/ s \div 3600 < t \div 3600
           \/ s \div 3600 = t \div 3600 /\ (s % 3600) \div 60 < (t % 3600) \div 60
           \/ /\ s \div 3600 = t \div 3600 /\ (s % 3600) \div 60 = (t % 3600) \div 60
              /\ s % 60 < t % 60
<1>1. TimeFound(s) /\ TimeFound(t)
    BY TimeOf
<1> DEFINE h == s \div 3600
           u == (s % 3600) \div 60
           v == s % 60
           i == t \div 3600
           j == (t % 3600) \div 60
           k == t % 60
<1>2. h \in 0..23 /\ u \in 0..59 /\ v \in 0..59 /\ s = 3600 * h + 60 * u + v
    BY <1>1 DEF TimeFound
<1>3. i \in 0..23 /\ j \in 0..59 /\ k \in 0..59 /\ t = 3600 * i + 60 * j + k
    BY <1>1 DEF TimeFound
<1> HIDE DEF h, u, v, i, j, k
<1>4. \/ h < i
      \/ h = i /\ u < j
      \/ h = i /\ u = j /\ v < k
    BY <1>2, <1>3
<1> QED
    BY <1>4 DEF h, u, v, i, j, k

\* Of two sextuples, the one that is smaller in the first field that differs
\* comes before the other.
LEMMA BeforeOf ==
    ASSUME NEW a1, NEW a2, NEW a3, NEW a4, NEW a5, NEW a6,
           NEW b1, NEW b2, NEW b3, NEW b4, NEW b5, NEW b6,
           \/ a1 < b1
           \/ a1 = b1 /\ a2 < b2
           \/ a1 = b1 /\ a2 = b2 /\ a3 < b3
           \/ a1 = b1 /\ a2 = b2 /\ a3 = b3 /\ a4 < b4
           \/ a1 = b1 /\ a2 = b2 /\ a3 = b3 /\ a4 = b4 /\ a5 < b5
           \/ a1 = b1 /\ a2 = b2 /\ a3 = b3 /\ a4 = b4 /\ a5 = b5 /\ a6 < b6
    PROVE  Cal!Before(<<a1, a2, a3, a4, a5, a6>>, <<b1, b2, b3, b4, b5, b6>>)
<1> DEFINE a == <<a1, a2, a3, a4, a5, a6>>
           b == <<b1, b2, b3, b4, b5, b6>>
<1>1. a[1] = a1 /\ a[2] = a2 /\ a[3] = a3 /\ a[4] = a4 /\ a[5] = a5 /\ a[6] = a6
    OBVIOUS
<1>2. b[1] = b1 /\ b[2] = b2 /\ b[3] = b3 /\ b[4] = b4 /\ b[5] = b5 /\ b[6] = b6
    OBVIOUS
<1> HIDE DEF a, b
<1>3. CASE a1 < b1
  <2>1. 1 \in 1..6 /\ a[1] < b[1] /\ \A j \in 1..(1 - 1) : a[j] = b[j]
    BY <1>1, <1>2, <1>3
  <2> QED
    BY <2>1 DEF Cal!Before, a, b
<1>4. CASE a1 = b1 /\ a2 < b2
  <2>1. 2 \in 1..6 /\ a[2] < b[2] /\ \A j \in 1..(2 - 1) : a[j] = b[j]
    BY <1>1, <1>2, <1>4
  <2> QED
    BY <2>1 DEF Cal!Before, a, b
<1>5. CASE a1 = b1 /\ a2 = b2 /\ a3 < b3
  <2>1. 3 \in 1..6 /\ a[3] < b[3] /\ \A j \in 1..(3 - 1) : a[j] = b[j]
    BY <1>1, <1>2, <1>5
  <2> QED
    BY <2>1 DEF Cal!Before, a, b
<1>6. CASE a1 = b1 /\ a2 = b2 /\ a3 = b3 /\ a4 < b4
  <2>1. 4 \in 1..6 /\ a[4] < b[4] /\ \A j \in 1..(4 - 1) : a[j] = b[j]
    BY <1>1, <1>2, <1>6
  <2> QED
    BY <2>1 DEF Cal!Before, a, b
<1>7. CASE a1 = b1 /\ a2 = b2 /\ a3 = b3 /\ a4 = b4 /\ a5 < b5
  <2>1. 5 \in 1..6 /\ a[5] < b[5] /\ \A j \in 1..(5 - 1) : a[j] = b[j]
    BY <1>1, <1>2, <1>7
  <2> QED
    BY <2>1 DEF Cal!Before, a, b
<1>8. CASE a1 = b1 /\ a2 = b2 /\ a3 = b3 /\ a4 = b4 /\ a5 = b5 /\ a6 < b6
  <2>1. 6 \in 1..6 /\ a[6] < b[6] /\ \A j \in 1..(6 - 1) : a[j] = b[j]
    BY <1>1, <1>2, <1>8
  <2> QED
    BY <2>1 DEF Cal!Before, a, b
<1> QED
    BY <1>3, <1>4, <1>5, <1>6, <1>7, <1>8

\* Stamps of one date sort by the time of day.
LEMMA SameDateSorts ==
    ASSUME NEW y, NEW m, NEW d, NEW s, NEW t, OfDay(s), OfDay(t), s < t
    PROVE  Cal!Before(StampFields(y, m, d, s), StampFields(y, m, d, t))
<1> DEFINE h == s \div 3600
           u == (s % 3600) \div 60
           v == s % 60
           i == t \div 3600
           j == (t % 3600) \div 60
           k == t % 60
<1>1. \/ h < i
      \/ h = i /\ u < j
      \/ h = i /\ u = j /\ v < k
    BY LaterFields
<1>2. /\ StampFields(y, m, d, s) = <<y, m, d, h, u, v>>
      /\ StampFields(y, m, d, t) = <<y, m, d, i, j, k>>
    BY DEF StampFields
<1> HIDE DEF h, u, v, i, j, k
<1>3. Cal!Before(<<y, m, d, h, u, v>>, <<y, m, d, i, j, k>>)
    BY ONLY <1>1, BeforeOf, Zenon
<1> QED
    BY <1>2, <1>3, Zenon

\* Stamps of different dates sort by the date.
LEMMA DatesSort ==
    ASSUME NEW y, NEW m, NEW d, NEW s, NEW y1, NEW m1, NEW d1, NEW t,
           \/ y < y1
           \/ y = y1 /\ m < m1
           \/ y = y1 /\ m = m1 /\ d < d1
    PROVE  Cal!Before(StampFields(y, m, d, s), StampFields(y1, m1, d1, t))
<1> DEFINE h == s \div 3600
           u == (s % 3600) \div 60
           v == s % 60
           i == t \div 3600
           j == (t % 3600) \div 60
           k == t % 60
<1>1. /\ StampFields(y, m, d, s) = <<y, m, d, h, u, v>>
      /\ StampFields(y1, m1, d1, t) = <<y1, m1, d1, i, j, k>>
    BY DEF StampFields
<1> HIDE DEF h, u, v, i, j, k
<1>2. Cal!Before(<<y, m, d, h, u, v>>, <<y1, m1, d1, i, j, k>>)
    BY BeforeOf, Zenon
<1> QED
    BY <1>1, <1>2, Zenon

\* The next date is a later one.
LEMMA NextDateLater ==
    ASSUME NEW y \in Int, NEW m \in Int, NEW d \in Int, NEW y1, NEW m1, NEW d1,
           Cal!NextDate(<<y, m, d>>) = <<y1, m1, d1>>
    PROVE  \/ y < y1
           \/ y = y1 /\ m < m1
           \/ y = y1 /\ m = m1 /\ d < d1
<1>1. \/ <<y1, m1, d1>> = <<y, m, d + 1>>
      \/ <<y1, m1, d1>> = <<y, m + 1, 1>>
      \/ <<y1, m1, d1>> = <<y + 1, 1, 1>>
    BY DEF Cal!NextDate
<1> QED
    BY <1>1

\* A reading of the clock is stamped later than the one before it.
LEMMA ReadingsSort ==
    ASSUME ClockInv, ClockInv', Cal!Next
    PROVE  /\ Cal!Before(Cal!utc_timestamp(days, sod), Cal!utc_timestamp(days', sod'))
           /\ Cal!Before(Cal!log_timestamp(days, sod), Cal!log_timestamp(days', sod'))
           /\ Cal!Before(Cal!timestamp(days, sod).compact, Cal!timestamp(days', sod').compact)
<1>1. OfDay(sod) /\ OfDay(sod') /\ days' \in Int
    BY SetsAssumption DEF ClockInv, OfDay
<1>2. PICK y \in Nat \ {0}, m \in 1..12 :
        \E d \in 1..Cal!MonthLength(y, m) : StampsNow(y, m, d)
    BY ClockStamps
<1>3. PICK d \in 1..Cal!MonthLength(y, m) : StampsNow(y, m, d)
    BY <1>2
<1>4. PICK y1 \in 1970..(LastYear + 1), m1 \in 1..12 : \E d1 \in 1..Cal!MonthLength(y1, m1) :
        date' = <<y1, m1, d1>> /\ SameDay(y1, m1, d1, days')
    BY DEF ClockInv, DateInv, SameDay
<1>5. PICK d1 \in 1..Cal!MonthLength(y1, m1) :
        date' = <<y1, m1, d1>> /\ SameDay(y1, m1, d1, days')
    BY <1>4
<1>6. PICK z, t : z = days' /\ t = sod'
    OBVIOUS
<1>7. y1 \in Nat \ {0}
    BY BoundsAssumption
<1> DEFINE old == StampFields(y, m, d, sod)
           new == StampFields(y1, m1, d1, t)
<1>8. /\ Cal!utc_timestamp(z, t) = new
      /\ Cal!log_timestamp(z, t) = new
      /\ Cal!timestamp(z, t) = [rfc3339 |-> new, compact |-> new]
  <2>1. z \in Int /\ OfDay(t) /\ SameDay(y1, m1, d1, z)
    BY <1>1, <1>5, <1>6
  <2> QED
    BY <1>5, <1>7, <2>1, StampOf, SMTT(60)
<1>9. Cal!Before(old, new)
  <2>1. ASSUME NEW s \in SecondsOfDay, Cal!Later(s) PROVE Cal!Before(old, new)
    <3>1. date' = date /\ sod < t
      BY <1>6, <2>1, <1>1 DEF Cal!Later, OfDay
    <3>2. y1 = y /\ m1 = m /\ d1 = d
      BY <1>3, <1>5, <3>1 DEF StampsNow
    <3> QED
      BY <1>1, <1>6, <3>1, <3>2, SameDateSorts
  <2>2. CASE Cal!Midnight
    <3>1. Cal!NextDate(<<y, m, d>>) = <<y1, m1, d1>>
      BY <1>3, <1>5, <2>2 DEF Cal!Midnight, StampsNow
    <3>2. y \in Int /\ m \in Int /\ d \in Int
      BY DEF Cal!MonthLength
    <3>3. \/ y < y1
          \/ y = y1 /\ m < m1
          \/ y = y1 /\ m = m1 /\ d < d1
      BY <3>1, <3>2, NextDateLater
    <3> QED
      BY <3>3, DatesSort
  <2> QED
    BY <2>1, <2>2 DEF Cal!Next
<1> HIDE DEF old, new
<1>10. /\ Cal!utc_timestamp(days, sod) = old
       /\ Cal!log_timestamp(days, sod) = old
       /\ Cal!timestamp(days, sod) = [rfc3339 |-> old, compact |-> old]
    BY <1>3 DEF StampsNow, old
<1>11. Cal!timestamp(days, sod).compact = old /\ Cal!timestamp(z, t).compact = new
    BY <1>8, <1>10
<1>12. /\ Cal!utc_timestamp(days, sod) = old /\ Cal!utc_timestamp(z, t) = new
       /\ Cal!log_timestamp(days, sod) = old /\ Cal!log_timestamp(z, t) = new
    BY <1>8, <1>10
<1>13. /\ Cal!Before(Cal!utc_timestamp(days, sod), Cal!utc_timestamp(z, t))
       /\ Cal!Before(Cal!log_timestamp(days, sod), Cal!log_timestamp(z, t))
       /\ Cal!Before(Cal!timestamp(days, sod).compact, Cal!timestamp(z, t).compact)
    BY ONLY <1>9, <1>11, <1>12
<1> QED
    BY ONLY <1>6, <1>13

\* Log lines and the names of sample files sort in the order of time: a later
\* reading of the clock has a later stamp, field by field.
THEOREM StampsSort == Spec => StampsIncrease
<1>1. ClockInv /\ ClockInv' /\ [Next]_vars =>
        [/\ Cal!Before(Cal!utc_timestamp(days, sod), Cal!utc_timestamp(days', sod'))
         /\ Cal!Before(Cal!log_timestamp(days, sod), Cal!log_timestamp(days', sod'))
         /\ Cal!Before(Cal!timestamp(days, sod).compact,
                       Cal!timestamp(days', sod').compact)]_(Cal!vars)
  <2> SUFFICES ASSUME ClockInv, ClockInv', [Next]_vars, ~UNCHANGED clockVars
               PROVE  /\ Cal!Before(Cal!utc_timestamp(days, sod), Cal!utc_timestamp(days', sod'))
                      /\ Cal!Before(Cal!log_timestamp(days, sod), Cal!log_timestamp(days', sod'))
                      /\ Cal!Before(Cal!timestamp(days, sod).compact,
                                    Cal!timestamp(days', sod').compact)
    BY Zenon DEF Cal!vars, clockVars
  <2>1. Cal!Next
    BY DEF Next, ParseGpu, DecodeChallenge, DecodeReport, ReadClock, RecordRequest,
           vars, clockVars
  <2> QED
    BY <2>1, ReadingsSort
<1> QED
    BY <1>1, ClockInvariance, PTL DEF Spec, StampsIncrease, Cal!StampsIncrease

-----------------------------------------------------------------------------
(* Least and greatest elements *)

\* A set of natural numbers has a least element.
LEMMA Least ==
    ASSUME NEW S, S \subseteq Nat, S # {}
    PROVE  \E x \in S : \A y \in S : x <= y
<1> DEFINE R == OpToRel(<, Nat)
<1>1. IsWellFoundedOn(R, Nat)
    BY NatLessThanWellFounded
<1>2. \A x, y \in Nat : x < y => <<x, y>> \in R
    BY DEF OpToRel
<1> HIDE DEF R
<1>3. PICK x \in S : \A y \in S : ~ (<<y, x>> \in R)
    BY <1>1, WFMin
<1>4. ASSUME NEW y \in S PROVE x <= y
  <2>1. ~ (y < x)
    BY <1>2, <1>3
  <2> QED
    BY <2>1
<1> QED
    BY <1>4

\* A bounded one has a greatest element.
LEMMA Greatest ==
    ASSUME NEW n \in Nat, NEW S, S \subseteq 1..n, S # {}
    PROVE  \E x \in S : \A y \in S : x >= y
<1> DEFINE T == {k \in Nat : n - k \in S}
<1>1. T \subseteq Nat /\ T # {}
  <2>1. PICK x \in S : TRUE
    OBVIOUS
  <2>2. n - x \in Nat /\ n - (n - x) = x
    BY <2>1
  <2> QED
    BY <2>2
<1>2. PICK k \in T : \A j \in T : k <= j
    BY <1>1, Least
<1>3. ASSUME NEW y \in S PROVE n - k >= y
  <2>1. n - y \in Nat /\ n - (n - y) = y
    OBVIOUS
  <2>2. k <= n - y
    BY <1>2, <2>1
  <2> QED
    BY <2>2
<1> QED
    BY <1>2, <1>3

-----------------------------------------------------------------------------
(* Challenges: what a text denotes *)

\* The text between f and l is what is left when the blanks around it go.
Span(t, f, l) ==
    /\ f \in 1..Len(t) /\ l \in f..Len(t)
    /\ t[f] # "blank" /\ t[l] # "blank"
    /\ \A i \in 1..Len(t) : i < f \/ i > l => t[i] = "blank"

\* What is left is the spelling of n bytes.
Spelled(t, f, n) ==
    /\ n \in Nat \ {0}
    /\ f \in 1..Len(t) /\ f + 2 * n - 1 <= Len(t)
    /\ \A i \in 1..Len(t) : i < f \/ i > f + 2 * n - 1 => t[i] = "blank"
    /\ \A i \in f..(f + 2 * n - 1) : t[i] \in Ch!Digits

Byte(c, d) == 16 * Ch!Nibble(c) + Ch!Nibble(d)
Decoded(t, f, n) == [k \in 1..n |-> Byte(t[f + 2 * k - 2], t[f + 2 * k - 1])]

\* Trim leaves the text between the first and the last character that is not
\* a blank.
LEMMA TrimSpan ==
    ASSUME NEW t \in Seq(Ch!Chars), NEW f, NEW l, Span(t, f, l)
    PROVE  Ch!Trim(t) = SubSeq(t, f, l)
<1> DEFINE solid == {i \in DOMAIN t : t[i] # "blank"}
<1>0. DOMAIN t = 1..Len(t) /\ Len(t) \in Nat
    BY LenProperties
<1>1. f \in solid /\ l \in solid
    BY <1>0 DEF Span
<1>2. \A i \in solid : i \in Int /\ f <= i /\ i <= l
    BY <1>0 DEF Span
<1> HIDE DEF solid
<1>3. (CHOOSE i \in solid : \A j \in solid : i <= j) = f
  <2>1. \A i \in solid : (\A j \in solid : i <= j) => i = f
    BY <1>1, <1>2
  <2>2. \A i \in solid : f <= i
    BY <1>2
  <2> QED
    BY <1>1, <2>1, <2>2
<1>4. (CHOOSE i \in solid : \A j \in solid : i >= j) = l
  <2>1. \A i \in solid : (\A j \in solid : i >= j) => i = l
    BY <1>1, <1>2
  <2>2. \A i \in solid : l >= i
    BY <1>1, <1>2
  <2> QED
    BY <1>1, <2>1, <2>2
<1>5. solid # {}
    BY <1>1
<1> QED
    BY <1>3, <1>4, <1>5, Zenon DEF Ch!Trim, solid

\* A text is blank or has a span.
LEMMA TrimCases ==
    ASSUME NEW t \in Seq(Ch!Chars)
    PROVE  \/ Ch!Trim(t) = <<>>
           \/ \E f, l \in Nat : Span(t, f, l)
<1> DEFINE solid == {i \in DOMAIN t : t[i] # "blank"}
<1>0. DOMAIN t = 1..Len(t) /\ Len(t) \in Nat
    BY LenProperties
<1>1. CASE solid = {}
    BY <1>1 DEF Ch!Trim
<1>2. CASE solid # {}
  <2>1. Len(t) \in Nat /\ solid \subseteq 1..Len(t) /\ solid \subseteq Nat
    BY <1>0
  <2> HIDE DEF solid
  <2>2. PICK f \in solid : \A i \in solid : f <= i
    BY <1>2, <2>1, Least
  <2>3. PICK l \in solid : \A i \in solid : l >= i
    BY <1>2, <2>1, Greatest
  <2>4. /\ f \in 1..Len(t) /\ l \in f..Len(t)
        /\ t[f] # "blank" /\ t[l] # "blank"
    BY <1>0, <2>1, <2>2, <2>3 DEF solid
  <2>5. ASSUME NEW i \in 1..Len(t), i < f \/ i > l, t[i] # "blank" PROVE FALSE
    <3>1. i \in solid
      BY <1>0, <2>5 DEF solid
    <3> QED
      BY <2>1, <2>2, <2>3, <2>5, <3>1
  <2>6. Span(t, f, l)
    BY <2>4, <2>5 DEF Span
  <2> QED
    BY <2>1, <2>6
<1> QED
    BY <1>1, <1>2

\* What is trimmed, character by character.
LEMMA TrimmedText ==
    ASSUME NEW t \in Seq(Ch!Chars), NEW f, NEW l, Span(t, f, l)
    PROVE  /\ Ch!Trim(t) \in Seq(Ch!Chars)
           /\ Len(Ch!Trim(t)) = l - f + 1
           /\ \A i \in 1..(l - f + 1) : Ch!Trim(t)[i] = t[f + i - 1]
<1>1. f \in Int /\ l \in Int /\ f <= l /\ \A i \in f..l : t[i] \in Ch!Chars
    BY LenProperties DEF Span
<1>2. Ch!Trim(t) = SubSeq(t, f, l)
    BY TrimSpan
<1>3. /\ SubSeq(t, f, l) \in Seq(Ch!Chars)
      /\ Len(SubSeq(t, f, l)) = l - f + 1
      /\ \A i \in 1..(l - f + 1) : SubSeq(t, f, l)[i] = t[f + i - 1]
    BY <1>1, SubSeqProperties
<1> QED
    BY <1>2, <1>3

\* The spelling of at least one byte is what is left of a text.
LEMMA SpelledSpan ==
    ASSUME NEW t \in Seq(Ch!Chars), NEW f, NEW n, Spelled(t, f, n)
    PROVE  Span(t, f, f + 2 * n - 1)
<1>1. \A i \in f..(f + 2 * n - 1) : t[i] # "blank"
    BY DEF Spelled, Ch!Digits
<1> QED
    BY <1>1 DEF Span, Spelled

\* A text of digits has as many bytes as characters.
LEMMA DigitsLen ==
    ASSUME NEW t \in Seq(Ch!Chars), \A i \in 1..Len(t) : t[i] \in Ch!Digits
    PROVE  Ch!StrLen(t) = Len(t)
<1>1. {i \in DOMAIN t : t[i] = "e_acute"} = {}
    BY LenProperties DEF Ch!Digits
<1>2. Ch!Cardinality({}) = 0
  <2>1. Ch!Cardinality({}) = Cardinality({})
    BY DEF Cardinality, Ch!Cardinality
  <2> QED
    BY <2>1, FS_EmptySet
<1>3. Ch!StrLen(t) = Len(t) + 0 /\ Len(t) \in Nat
    BY <1>1, <1>2, LenProperties DEF Ch!StrLen
<1> QED
    BY <1>3

\* hex::decode takes digits in pairs.
LEMMA DecodePairs ==
    ASSUME NEW n \in Nat, NEW t \in Seq(Ch!Chars), Len(t) = 2 * n,
           \A i \in 1..Len(t) : t[i] \in Ch!Digits
    PROVE  Ch!HexDecode(t) = Decoded(t, 1, n)
<1>1. Ch!StrLen(t) % 2 = 0 /\ Len(t) \div 2 = n
    BY DigitsLen
<1>2. ~ \E i \in DOMAIN t : t[i] \notin Ch!Digits
    BY LenProperties
<1>3. \A k \in 1..n : 2 * k - 1 = 1 + 2 * k - 2 /\ 2 * k = 1 + 2 * k - 1
    OBVIOUS
<1> QED
    BY <1>1, <1>2, <1>3 DEF Ch!HexDecode, Decoded, Byte

\* hex::decode gives None for anything else.
LEMMA DecodeOnly ==
    ASSUME NEW t \in Seq(Ch!Chars), Ch!HexDecode(t) # None
    PROVE  /\ \A i \in 1..Len(t) : t[i] \in Ch!Digits
           /\ \E n \in Nat : Len(t) = 2 * n
<1>1. /\ Ch!StrLen(t) % 2 = 0
      /\ \A i \in 1..Len(t) : t[i] \in Ch!Digits
    BY LenProperties DEF Ch!HexDecode
<1>2. Ch!StrLen(t) = Len(t) /\ Len(t) \in Nat
    BY <1>1, DigitsLen
<1>3. Len(t) = 2 * (Len(t) \div 2) /\ Len(t) \div 2 \in Nat
    BY <1>1, <1>2
<1> QED
    BY <1>1, <1>3

\* The bytes of a spelling.
LEMMA DecodedType ==
    ASSUME NEW t, NEW f \in Nat, NEW n \in Nat
    PROVE  /\ Decoded(t, f, n) \in [1..n -> Ch!SomeBytes]
           /\ Decoded(t, f, n) \in Seq(Nat)
           /\ Len(Decoded(t, f, n)) = n
<1>1. \A c, d : Byte(c, d) \in Ch!SomeBytes /\ Byte(c, d) \in Nat
    BY DEF Byte, Ch!Nibble, Ch!SomeBytes
<1> QED
    BY <1>1 DEF Decoded

\* The bytes of a trimmed spelling.
LEMMA TrimmedBytes ==
    ASSUME NEW t \in Seq(Ch!Chars), NEW f, NEW n, Spelled(t, f, n)
    PROVE  /\ Ch!Trim(t) # <<>> /\ Ch!StrLen(Ch!Trim(t)) % 2 = 0
           /\ Ch!HexDecode(Ch!Trim(t)) = Decoded(t, f, n)
<1> DEFINE u == Ch!Trim(t)
<1>1. n \in Nat \ {0} /\ f \in Nat
    BY DEF Spelled
<1> DEFINE l == f + 2 * n - 1
<1>0. Span(t, f, l) /\ l - f + 1 = 2 * n
    BY <1>1, SpelledSpan
<1>2. /\ u \in Seq(Ch!Chars) /\ Len(u) = 2 * n
      /\ \A i \in 1..(2 * n) : u[i] = t[f + i - 1]
  <2> HIDE DEF l
  <2> QED
    BY <1>0, TrimmedText
<1> HIDE DEF u
<1>3. ASSUME NEW i \in 1..Len(u) PROVE u[i] \in Ch!Digits
  <2>1. f + i - 1 \in f..(f + 2 * n - 1) /\ u[i] = t[f + i - 1]
    BY <1>1, <1>2
  <2> QED
    BY <2>1 DEF Spelled
<1>4. Ch!HexDecode(u) = Decoded(u, 1, n)
    BY <1>1, <1>2, <1>3, DecodePairs
<1>5. Ch!StrLen(u) % 2 = 0 /\ u # <<>>
  <2>1. Ch!StrLen(u) = 2 * n
    BY <1>2, <1>3, DigitsLen
  <2>2. (2 * n) % 2 = 0
    BY <1>1
  <2>3. u # <<>>
    BY <1>1, <1>2
  <2> QED
    BY <2>1, <2>2, <2>3
<1>6. ASSUME NEW k \in 1..n PROVE u[1 + 2 * k - 2] = t[f + 2 * k - 2] /\ u[1 + 2 * k - 1] = t[f + 2 * k - 1]
  <2>1. 1 + 2 * k - 2 \in 1..(2 * n) /\ 1 + 2 * k - 1 \in 1..(2 * n)
    BY <1>1
  <2>2. f + (1 + 2 * k - 2) - 1 = f + 2 * k - 2 /\ f + (1 + 2 * k - 1) - 1 = f + 2 * k - 1
    BY <1>1
  <2> QED
    BY <1>2, <2>1, <2>2
<1>7. Decoded(u, 1, n) = Decoded(t, f, n)
    BY <1>6 DEF Decoded
<1> QED
    BY <1>4, <1>5, <1>7 DEF u

\* normalize_nonce makes of a spelling the canonical text of its bytes.
LEMMA Normalized ==
    ASSUME NEW t \in Seq(Ch!Chars), NEW f, NEW n, Spelled(t, f, n), n <= Width
    PROVE  Ch!normalize_nonce(t) = Ch!HexEncode(Decoded(t, f, n))
<1> DEFINE b == Decoded(t, f, n)
<1>1. n \in Nat \ {0} /\ f \in Nat
    BY DEF Spelled
<1>2. b \in Seq(Nat) /\ Len(b) = n
    BY <1>1, DecodedType
<1>3. b # None
    BY <1>2, SetsAssumption
<1>4. b # <<>> /\ ~(Len(b) > Width)
    BY <1>1, <1>2, BoundsAssumption
<1> HIDE DEF b
<1> QED
    BY <1>3, <1>4, TrimmedBytes, Zenon DEF Ch!normalize_nonce, b

\* It rejects every other text.
LEMMA NormalizedOnly ==
    ASSUME NEW t \in Seq(Ch!Chars), Ch!normalize_nonce(t) # None
    PROVE  \E f \in Nat, n \in Nat : Spelled(t, f, n) /\ n <= Width
<1> DEFINE u == Ch!Trim(t)
           b == Ch!HexDecode(u)
<1>1. u # <<>> /\ b # None /\ ~(Len(b) > Width)
    BY DEF Ch!normalize_nonce
<1>2. PICK f, l \in Nat : Span(t, f, l)
    BY <1>1, TrimCases
<1>3. /\ u \in Seq(Ch!Chars) /\ Len(u) = l - f + 1
      /\ \A i \in 1..(l - f + 1) : u[i] = t[f + i - 1]
    BY <1>2, TrimmedText
<1> HIDE DEF u
<1>4. PICK n \in Nat : Len(u) = 2 * n
    BY <1>1, <1>3, DecodeOnly
<1>5. \A i \in 1..Len(u) : u[i] \in Ch!Digits
    BY <1>1, <1>3, DecodeOnly
<1>6. Len(b) = n
  <2>1. b = Decoded(u, 1, n)
    BY <1>3, <1>4, <1>5, DecodePairs
  <2> QED
    BY <2>1, DecodedType
<1>7. l = f + 2 * n - 1 /\ n # 0
    BY <1>2, <1>3, <1>4 DEF Span
<1>8. ASSUME NEW i \in f..(f + 2 * n - 1) PROVE t[i] \in Ch!Digits
  <2>1. i - f + 1 \in 1..(l - f + 1) /\ f + (i - f + 1) - 1 = i
    BY <1>7
  <2>2. u[i - f + 1] = t[i]
    BY <1>3, <2>1
  <2> QED
    BY <1>3, <1>5, <2>1, <2>2
<1>9. Spelled(t, f, n)
    BY <1>2, <1>7, <1>8 DEF Spelled, Span
<1> QED
    BY <1>1, <1>6, <1>9, BoundsAssumption

\* A byte that two digits can write, and its digits.
LEMMA ByteDigits ==
    ASSUME NEW x \in Ch!SomeBytes
    PROVE  /\ {x \div 16, x % 16} \subseteq {1, 10}
           /\ Ch!HexDigit(x \div 16) \in {"1", "a"} /\ Ch!HexDigit(x % 16) \in {"1", "a"}
           /\ Byte(Ch!HexDigit(x \div 16), Ch!HexDigit(x % 16)) = x
<1>1. PICK m \in {1, 10}, p \in {1, 10} : x = 16 * m + p
    BY DEF Ch!SomeBytes
<1>2. x \div 16 = m /\ x % 16 = p
    BY <1>1
<1>3. \A k \in {1, 10} : Ch!HexDigit(k) \in {"1", "a"} /\ Ch!Nibble(Ch!HexDigit(k)) = k
    BY DEF Ch!HexDigit, Ch!Nibble
<1> QED
    BY <1>1, <1>2, <1>3 DEF Byte

\* The canonical text of some bytes, two digits for each.
LEMMA EncodedText ==
    ASSUME NEW n \in Nat, NEW b \in [1..n -> Ch!SomeBytes]
    PROVE  /\ Ch!HexEncode(b) \in Seq({"1", "a"})
           /\ Ch!HexEncode(b) \in Seq(Ch!Chars)
           /\ Len(Ch!HexEncode(b)) = 2 * n
           /\ \A i \in 1..(2 * n) : Ch!HexEncode(b)[i] \in {"1", "a"}
           /\ \A k \in 1..n : /\ Ch!HexEncode(b)[2 * k - 1] = Ch!HexDigit(b[k] \div 16)
                             /\ Ch!HexEncode(b)[2 * k] = Ch!HexDigit(b[k] % 16)
<1> DEFINE e(i) == Ch!HexDigit(IF i % 2 = 1 THEN b[(i + 1) \div 2] \div 16
                               ELSE b[(i + 1) \div 2] % 16)
<1>1. Len(b) = n
    OBVIOUS
<1>2. Ch!HexEncode(b) = [i \in 1..(2 * n) |-> e(i)]
    BY <1>1 DEF Ch!HexEncode
<1>3. ASSUME NEW i \in 1..(2 * n) PROVE e(i) \in {"1", "a"}
  <2>1. (i + 1) \div 2 \in 1..n
    OBVIOUS
  <2>2. b[(i + 1) \div 2] \in Ch!SomeBytes
    BY <2>1
  <2> QED
    BY <2>2, ByteDigits
<1>4. ASSUME NEW k \in 1..n
      PROVE  e(2 * k - 1) = Ch!HexDigit(b[k] \div 16) /\ e(2 * k) = Ch!HexDigit(b[k] % 16)
  <2>1. /\ (2 * k - 1 + 1) \div 2 = k /\ (2 * k + 1) \div 2 = k
        /\ (2 * k - 1) % 2 = 1 /\ (2 * k) % 2 = 0
    OBVIOUS
  <2> QED
    BY <2>1
<1>5. \A k \in 1..n : 2 * k - 1 \in 1..(2 * n) /\ 2 * k \in 1..(2 * n)
    OBVIOUS
<1> HIDE DEF e
<1>6. /\ Ch!HexEncode(b) \in Seq({"1", "a"})
      /\ Len(Ch!HexEncode(b)) = 2 * n
    BY <1>2, <1>3
<1>7. Ch!HexEncode(b) \in Seq(Ch!Chars)
    BY <1>6, SeqMonotonic DEF Ch!Chars
<1>8. \A i \in 1..(2 * n) : Ch!HexEncode(b)[i] \in {"1", "a"}
    BY <1>2, <1>3
<1>9. \A k \in 1..n : /\ Ch!HexEncode(b)[2 * k - 1] = Ch!HexDigit(b[k] \div 16)
                     /\ Ch!HexEncode(b)[2 * k] = Ch!HexDigit(b[k] % 16)
    BY <1>2, <1>4, <1>5
<1> QED
    BY <1>6, <1>7, <1>8, <1>9

\* The canonical text spells its bytes from the first character on.
LEMMA EncodedSpells ==
    ASSUME NEW n \in Nat, NEW b \in [1..n -> Ch!SomeBytes]
    PROVE  /\ Decoded(Ch!HexEncode(b), 1, n) = b
           /\ \A i \in 1..Len(Ch!HexEncode(b)) : Ch!HexEncode(b)[i] \in Ch!Digits
           /\ n # 0 => Spelled(Ch!HexEncode(b), 1, n)
<1> DEFINE c == Ch!HexEncode(b)
<1>1. /\ Len(c) = 2 * n
      /\ \A i \in 1..(2 * n) : c[i] \in {"1", "a"}
      /\ \A k \in 1..n : /\ c[2 * k - 1] = Ch!HexDigit(b[k] \div 16)
                        /\ c[2 * k] = Ch!HexDigit(b[k] % 16)
    BY EncodedText
<1> HIDE DEF c
<1>2. ASSUME NEW k \in 1..n PROVE Byte(c[1 + 2 * k - 2], c[1 + 2 * k - 1]) = b[k]
  <2>1. 1 + 2 * k - 2 = 2 * k - 1 /\ 1 + 2 * k - 1 = 2 * k
    OBVIOUS
  <2>2. Byte(Ch!HexDigit(b[k] \div 16), Ch!HexDigit(b[k] % 16)) = b[k]
    BY ByteDigits
  <2> QED
    BY <1>1, <2>1, <2>2
<1>3. Decoded(c, 1, n) = b
    BY <1>2 DEF Decoded
<1>4. \A i \in 1..Len(c) : c[i] \in Ch!Digits
    BY <1>1 DEF Ch!Digits
<1>5. n # 0 => Spelled(c, 1, n)
    BY <1>1, <1>4 DEF Spelled
<1> QED
    BY <1>3, <1>4, <1>5 DEF c

\* A challenge that a caller can mean, by its length.
LEMMA ChallengeLen ==
    ASSUME NEW b \in Ch!Challenges
    PROVE  /\ Len(b) \in 1..Width /\ b \in [1..Len(b) -> Ch!SomeBytes]
           /\ Len(b) \in Nat \ {0} /\ Len(b) <= Width
<1>1. PICK n \in 1..Width : b \in [1..n -> Ch!SomeBytes]
    BY DEF Ch!Challenges
<1>2. Len(b) = n
    BY <1>1, BoundsAssumption
<1> QED
    BY <1>1, <1>2, BoundsAssumption

\* Passing the canonical text through normalize_nonce again, or reporting it
\* in lower case, changes nothing, and it decodes to its bytes.
LEMMA CanonicalStable ==
    ASSUME NEW b \in Ch!Challenges
    PROVE  /\ Ch!HexEncode(b) # None
           /\ Ch!HexEncode(b) \in Seq({"1", "a"})
           /\ Ch!normalize_nonce(Ch!HexEncode(b)) = Ch!HexEncode(b)
           /\ Ch!HexDecode(Ch!HexEncode(b)) = b
           /\ Ch!ToLower(Ch!HexEncode(b)) = Ch!HexEncode(b)
<1> DEFINE n == Len(b)
           c == Ch!HexEncode(b)
<1>1. n \in Nat \ {0} /\ n \in Nat /\ n <= Width /\ b \in [1..n -> Ch!SomeBytes]
    BY ChallengeLen
<1> HIDE DEF n
<1>2. c \in Seq({"1", "a"}) /\ c \in Seq(Ch!Chars) /\ Len(c) = 2 * n
    BY <1>1, EncodedText
<1>3. /\ Decoded(c, 1, n) = b /\ Spelled(c, 1, n)
      /\ \A i \in 1..Len(c) : c[i] \in Ch!Digits
    BY <1>1, EncodedSpells
<1> HIDE DEF c
<1>4. c # None
    BY <1>2, SetsAssumption
<1>5. Ch!normalize_nonce(c) = Ch!HexEncode(b)
    BY <1>1, <1>2, <1>3, Normalized
<1>6. Ch!HexDecode(c) = b
    BY <1>1, <1>2, <1>3, DecodePairs
<1>7. Ch!ToLower(c) = c
  <2>1. \A i \in DOMAIN c : Ch!Lower(c[i]) = c[i]
    BY <1>2, LenProperties DEF Ch!Lower
  <2> QED
    BY <1>2, <2>1 DEF Ch!ToLower
<1> QED
    BY <1>2, <1>4, <1>5, <1>6, <1>7 DEF c

\* A text writes a challenge if it spells its bytes.
LEMMA WritesSpelled ==
    ASSUME NEW t \in Seq(Ch!Chars), NEW b \in Ch!Challenges, Ch!Writes(t, b)
    PROVE  \E f \in Nat : Spelled(t, f, Len(b)) /\ Decoded(t, f, Len(b)) = b
<1> DEFINE n == Len(b)
<1>1. n \in Nat \ {0} /\ b \in [1..n -> Ch!SomeBytes]
    BY ChallengeLen
<1>2. DOMAIN t = 1..Len(t) /\ Len(t) \in Nat /\ DOMAIN b = 1..n
    BY <1>1, LenProperties
<1> HIDE DEF n
<1>3. PICK f \in 1..(Len(t) + 1) :
        /\ f + 2 * n - 1 <= Len(t)
        /\ \A i \in 1..Len(t) : (i < f \/ i > f + 2 * n - 1) => t[i] = "blank"
        /\ \A i \in f..(f + 2 * n - 1) : t[i] \in Ch!Digits
        /\ \A k \in 1..n : b[k] = Byte(t[f + 2 * k - 2], t[f + 2 * k - 1])
    BY <1>2 DEF Ch!Writes, Byte, n
<1>4. f \in 1..Len(t)
    BY <1>1, <1>2, <1>3
<1>5. Spelled(t, f, n)
    BY <1>1, <1>3, <1>4 DEF Spelled
<1>6. Decoded(t, f, n) = b
    BY <1>1, <1>3 DEF Decoded
<1> QED
    BY <1>5, <1>6 DEF n

\* And it spells bytes only if it writes them.
LEMMA SpelledWrites ==
    ASSUME NEW t \in Seq(Ch!Chars), NEW f, NEW n, Spelled(t, f, n), n <= Width
    PROVE  /\ Decoded(t, f, n) \in Ch!Challenges
           /\ Ch!Writes(t, Decoded(t, f, n))
<1> DEFINE b == Decoded(t, f, n)
<1>1. n \in Nat \ {0} /\ f \in Nat /\ n \in 1..Width
    BY BoundsAssumption DEF Spelled
<1>2. b \in [1..n -> Ch!SomeBytes] /\ Len(b) = n
    BY <1>1, DecodedType
<1>3. \A k \in 1..n : b[k] = Byte(t[f + 2 * k - 2], t[f + 2 * k - 1])
    BY DEF Decoded
<1> HIDE DEF b
<1>4. b \in Ch!Challenges
    BY <1>1, <1>2 DEF Ch!Challenges
<1>5. DOMAIN t = 1..Len(t) /\ Len(t) \in Nat /\ DOMAIN b = 1..n
    BY <1>2, LenProperties
<1>6. /\ f \in 1..(Len(t) + 1) /\ f + 2 * n - 1 <= Len(t)
      /\ \A i \in DOMAIN t : (i < f \/ i > f + 2 * n - 1) => t[i] = "blank"
      /\ \A i \in f..(f + 2 * n - 1) : t[i] \in Ch!Digits
    BY <1>5 DEF Spelled
<1>7. \A k \in DOMAIN b :
        b[k] = 16 * Ch!Nibble(t[f + 2 * k - 2]) + Ch!Nibble(t[f + 2 * k - 1])
    BY <1>3, <1>5 DEF Byte
<1>8. Ch!Writes(t, b)
    BY ONLY <1>2, <1>6, <1>7, Zenon DEF Ch!Writes
<1> QED
    BY <1>4, <1>8 DEF b

\* normalize_nonce accepts what writes a challenge and gives its canonical text.
LEMMA AcceptedText ==
    ASSUME NEW t \in Seq(Ch!Chars)
    PROVE  /\ Ch!normalize_nonce(t) # None => \E b \in Ch!Challenges : Ch!Writes(t, b)
           /\ \A b \in Ch!Challenges :
                Ch!Writes(t, b) => Ch!normalize_nonce(t) = Ch!HexEncode(b)
<1>1. ASSUME Ch!normalize_nonce(t) # None
      PROVE  \E b \in Ch!Challenges : Ch!Writes(t, b)
  <2>1. PICK f \in Nat, n \in Nat : Spelled(t, f, n) /\ n <= Width
    BY <1>1, NormalizedOnly
  <2> QED
    BY <2>1, SpelledWrites
<1>2. ASSUME NEW b \in Ch!Challenges, Ch!Writes(t, b)
      PROVE  Ch!normalize_nonce(t) = Ch!HexEncode(b)
  <2>1. PICK f \in Nat : Spelled(t, f, Len(b)) /\ Decoded(t, f, Len(b)) = b
    BY <1>2, WritesSpelled
  <2>2. Len(b) <= Width
    BY ChallengeLen
  <2> QED
    BY <2>1, <2>2, Normalized
<1> QED
    BY <1>1, <1>2

\* The lower-case text of a spelling, character by character.
LEMMA LoweredText ==
    ASSUME NEW t \in Seq(Ch!Chars), NEW f, NEW l, Span(t, f, l)
    PROVE  /\ DOMAIN Ch!ToLower(Ch!Trim(t)) = 1..(l - f + 1)
           /\ Ch!ToLower(Ch!Trim(t)) =
                [i \in 1..(l - f + 1) |-> Ch!Lower(t[f + i - 1])]
<1> DEFINE u == Ch!Trim(t)
<1>1. /\ u \in Seq(Ch!Chars) /\ Len(u) = l - f + 1
      /\ \A i \in 1..(l - f + 1) : u[i] = t[f + i - 1]
    BY TrimmedText
<1> HIDE DEF u
<1>2. DOMAIN u = 1..(l - f + 1)
    BY <1>1, LenProperties
<1>3. Ch!ToLower(u) = [i \in 1..(l - f + 1) |-> Ch!Lower(u[i])]
    BY <1>2 DEF Ch!ToLower
<1> QED
    BY <1>1, <1>3 DEF u

\* Two digits have the same value if they are the same in lower case.
LEMMA LowerNibble ==
    ASSUME NEW c, NEW d
    PROVE  /\ c \in Ch!Digits /\ d \in Ch!Digits /\ Ch!Nibble(c) = Ch!Nibble(d)
                => Ch!Lower(c) = Ch!Lower(d)
           /\ c \in Ch!Digits /\ Ch!Lower(c) = Ch!Lower(d)
                => d \in Ch!Digits /\ Ch!Nibble(c) = Ch!Nibble(d)
    BY DEF Ch!Digits, Ch!Nibble, Ch!Lower

\* Two spellings of the same bytes are the same text in lower case.
LEMMA SameText ==
    ASSUME NEW b \in Ch!Challenges, NEW s \in Seq(Ch!Chars), NEW t \in Seq(Ch!Chars),
           Ch!Writes(s, b), Ch!Writes(t, b)
    PROVE  Ch!ToLower(Ch!Trim(s)) = Ch!ToLower(Ch!Trim(t))
<1> DEFINE n == Len(b)
<1>1. n \in Nat \ {0}
    BY ChallengeLen
<1>2. PICK f \in Nat : Spelled(s, f, n) /\ Decoded(s, f, n) = b
    BY WritesSpelled
<1>3. PICK g \in Nat : Spelled(t, g, n) /\ Decoded(t, g, n) = b
    BY WritesSpelled
<1> HIDE DEF n
<1>4. ASSUME NEW k \in 1..n
      PROVE  /\ Ch!Lower(s[f + 2 * k - 2]) = Ch!Lower(t[g + 2 * k - 2])
             /\ Ch!Lower(s[f + 2 * k - 1]) = Ch!Lower(t[g + 2 * k - 1])
  <2>1. Byte(s[f + 2 * k - 2], s[f + 2 * k - 1]) = Byte(t[g + 2 * k - 2], t[g + 2 * k - 1])
    <3>1. /\ Decoded(s, f, n)[k] = Byte(s[f + 2 * k - 2], s[f + 2 * k - 1])
          /\ Decoded(t, g, n)[k] = Byte(t[g + 2 * k - 2], t[g + 2 * k - 1])
      BY DEF Decoded
    <3> QED
      BY <1>2, <1>3, <3>1
  <2>2. ASSUME NEW c1, NEW d1, NEW c2, NEW d2, Byte(c1, d1) = Byte(c2, d2)
        PROVE  Ch!Nibble(c1) = Ch!Nibble(c2) /\ Ch!Nibble(d1) = Ch!Nibble(d2)
    BY <2>2 DEF Byte, Ch!Nibble
  <2>3. /\ Ch!Nibble(s[f + 2 * k - 2]) = Ch!Nibble(t[g + 2 * k - 2])
        /\ Ch!Nibble(s[f + 2 * k - 1]) = Ch!Nibble(t[g + 2 * k - 1])
    BY <2>1, <2>2
  <2>4. /\ f + 2 * k - 2 \in f..(f + 2 * n - 1) /\ f + 2 * k - 1 \in f..(f + 2 * n - 1)
        /\ g + 2 * k - 2 \in g..(g + 2 * n - 1) /\ g + 2 * k - 1 \in g..(g + 2 * n - 1)
    BY <1>1
  <2>5. /\ s[f + 2 * k - 2] \in Ch!Digits /\ s[f + 2 * k - 1] \in Ch!Digits
        /\ t[g + 2 * k - 2] \in Ch!Digits /\ t[g + 2 * k - 1] \in Ch!Digits
    BY <1>2, <1>3, <2>4 DEF Spelled
  <2> QED
    BY <2>3, <2>5, LowerNibble
<1>5. ASSUME NEW i \in 1..(2 * n) PROVE Ch!Lower(s[f + i - 1]) = Ch!Lower(t[g + i - 1])
  <2> DEFINE k == (i + 1) \div 2
  <2>1. k \in 1..n /\ (i = 2 * k - 1 \/ i = 2 * k)
    BY <1>1
  <2> HIDE DEF k
  <2>2. CASE i = 2 * k - 1
    <3>1. f + i - 1 = f + 2 * k - 2 /\ g + i - 1 = g + 2 * k - 2
      BY <2>1, <2>2
    <3> QED
      BY <1>4, <2>1, <3>1
  <2>3. CASE i = 2 * k
    <3>1. f + i - 1 = f + 2 * k - 1 /\ g + i - 1 = g + 2 * k - 1
      BY <2>1, <2>3
    <3> QED
      BY <1>4, <2>1, <3>1
  <2> QED
    BY <2>1, <2>2, <2>3
<1>6. /\ Span(s, f, f + 2 * n - 1) /\ Span(t, g, g + 2 * n - 1)
      /\ (f + 2 * n - 1) - f + 1 = 2 * n /\ (g + 2 * n - 1) - g + 1 = 2 * n
    BY <1>1, <1>2, <1>3, SpelledSpan
<1>7. /\ Ch!ToLower(Ch!Trim(s)) = [i \in 1..(2 * n) |-> Ch!Lower(s[f + i - 1])]
      /\ Ch!ToLower(Ch!Trim(t)) = [i \in 1..(2 * n) |-> Ch!Lower(t[g + i - 1])]
  <2> DEFINE l == f + 2 * n - 1
             m == g + 2 * n - 1
  <2> HIDE DEF l, m
  <2>1. Span(s, f, l) /\ Span(t, g, m) /\ l - f + 1 = 2 * n /\ m - g + 1 = 2 * n
    BY <1>6 DEF l, m
  <2>2. Ch!ToLower(Ch!Trim(s)) = [i \in 1..(l - f + 1) |-> Ch!Lower(s[f + i - 1])]
    BY <2>1, LoweredText
  <2>3. Ch!ToLower(Ch!Trim(t)) = [i \in 1..(m - g + 1) |-> Ch!Lower(t[g + i - 1])]
    BY <2>1, LoweredText
  <2> QED
    BY <2>1, <2>2, <2>3
<1> QED
    BY <1>5, <1>7

\* A text that is the same in lower case as a spelling is one of the same bytes.
LEMMA SameBytes ==
    ASSUME NEW b \in Ch!Challenges, NEW s \in Seq(Ch!Chars), NEW t \in Seq(Ch!Chars),
           Ch!Writes(s, b), Ch!ToLower(Ch!Trim(s)) = Ch!ToLower(Ch!Trim(t))
    PROVE  Ch!Writes(t, b)
<1> DEFINE n == Len(b)
<1>1. n \in Nat \ {0} /\ n <= Width
    BY ChallengeLen
<1>2. PICK f \in Nat : Spelled(s, f, n) /\ Decoded(s, f, n) = b
    BY WritesSpelled
<1> HIDE DEF n
<1> DEFINE low == Ch!ToLower(Ch!Trim(t))
<1>3. low = [i \in 1..(2 * n) |-> Ch!Lower(s[f + i - 1])]
  <2> DEFINE l == f + 2 * n - 1
  <2>1. Span(s, f, l) /\ l - f + 1 = 2 * n
    BY <1>1, <1>2, SpelledSpan
  <2> HIDE DEF l
  <2> QED
    BY <2>1, LoweredText
<1>4. DOMAIN low = 1..(2 * n)
    BY <1>3
<1>5. Ch!Trim(t) # <<>>
  <2>1. SUFFICES ASSUME Ch!Trim(t) = <<>> PROVE FALSE
    OBVIOUS
  <2>2. DOMAIN low = DOMAIN <<>>
    BY <2>1 DEF Ch!ToLower
  <2>3. 1 \in 1..(2 * n)
    BY <1>1
  <2> QED
    BY <1>4, <2>2, <2>3
<1>6. PICK g, m \in Nat : Span(t, g, m)
    BY <1>5, TrimCases
<1>7. /\ 1..(2 * n) = 1..(m - g + 1)
      /\ low = [i \in 1..(m - g + 1) |-> Ch!Lower(t[g + i - 1])]
    BY <1>4, <1>6, LoweredText
<1>8. m - g + 1 = 2 * n /\ m = g + 2 * n - 1
  <2>1. m - g + 1 \in Nat /\ m - g + 1 >= 1
    BY <1>6 DEF Span
  <2>2. m - g + 1 \in 1..(2 * n) /\ 2 * n \in 1..(m - g + 1)
    BY <1>1, <1>7, <2>1
  <2> QED
    BY <1>1, <2>1, <2>2
<1>9. ASSUME NEW i \in 1..(2 * n)
      PROVE  /\ t[g + i - 1] \in Ch!Digits
             /\ Ch!Nibble(s[f + i - 1]) = Ch!Nibble(t[g + i - 1])
  <2>1. Ch!Lower(s[f + i - 1]) = Ch!Lower(t[g + i - 1])
    BY <1>3, <1>7
  <2>2. f + i - 1 \in f..(f + 2 * n - 1)
    BY <1>1
  <2>3. s[f + i - 1] \in Ch!Digits
    BY <1>2, <2>2 DEF Spelled
  <2> QED
    BY <2>1, <2>3, LowerNibble
<1>10. Spelled(t, g, n)
  <2>1. ASSUME NEW j \in g..(g + 2 * n - 1) PROVE t[j] \in Ch!Digits
    <3>1. j - g + 1 \in 1..(2 * n) /\ g + (j - g + 1) - 1 = j
      BY <1>1
    <3>2. t[g + (j - g + 1) - 1] \in Ch!Digits
      BY <1>9, <3>1
    <3> QED
      BY <3>1, <3>2
  <2> QED
    BY <1>1, <1>6, <1>8, <2>1 DEF Spelled, Span
<1>11. Decoded(t, g, n) = b
  <2>1. ASSUME NEW k \in 1..n
        PROVE  Byte(s[f + 2 * k - 2], s[f + 2 * k - 1]) = Byte(t[g + 2 * k - 2], t[g + 2 * k - 1])
    <3>1. /\ 2 * k - 1 \in 1..(2 * n) /\ 2 * k \in 1..(2 * n)
          /\ f + (2 * k - 1) - 1 = f + 2 * k - 2 /\ g + (2 * k - 1) - 1 = g + 2 * k - 2
      BY <1>1
    <3>2. Ch!Nibble(s[f + (2 * k - 1) - 1]) = Ch!Nibble(t[g + (2 * k - 1) - 1])
      BY <1>9, <3>1
    <3>3. Ch!Nibble(s[f + 2 * k - 1]) = Ch!Nibble(t[g + 2 * k - 1])
      BY <1>9, <3>1
    <3> QED
      BY <3>1, <3>2, <3>3 DEF Byte
  <2>2. Decoded(t, g, n) = Decoded(s, f, n)
    BY <2>1 DEF Decoded
  <2> QED
    BY <1>2, <2>2
<1> QED
    BY <1>1, <1>10, <1>11, SpelledWrites

-----------------------------------------------------------------------------
(* Challenges: the three routes *)

\* What the routes answer to the fields as they are.
QuoteAnswer ==
    IF Ch!Canonical = None THEN Ch!Rejected("quote") ELSE Ch!create_quote("quote", Ch!Canonical)
AllAnswer ==
    IF Ch!Canonical = None THEN Ch!Rejected("all")
    ELSE LET quote == Ch!create_quote("all", Ch!Canonical)
             padded == Ch!report_data_from(Ch!HexDecode(Ch!Canonical))
         IN  IF quote = Ch!Rejected("all") \/ padded = None THEN Ch!Rejected("all")
             ELSE [quote EXCEPT !.tdx = padded, !.tdx_text = Ch!Canonical]
RnAnswer ==
    LET decoded == IF nonce = None THEN None ELSE Ch!HexDecode(nonce)
        padded == IF decoded = None THEN None ELSE Ch!report_data_from(decoded)
    IN  IF padded = None THEN Ch!Rejected("rn")
        ELSE [Ch!Rejected("rn") EXCEPT !.status = "ok", !.tdx = padded]

\* The fields are texts, and the outcome is the answer to them.
FieldsOK ==
    /\ nonce \in Seq(Ch!Chars) \cup {None}
    /\ challenge \in Seq(Ch!Chars) \cup {None}
ChallengeInv ==
    /\ FieldsOK
    /\ \/ outcome = Ch!Pending
       \/ outcome = QuoteAnswer
       \/ outcome = AllAnswer
       \/ challenge = None /\ outcome = RnAnswer

\* What a caller means is what both TPM routes work with.
LEMMA MeantCanonical ==
    ASSUME FieldsOK, NEW b \in Ch!Meant
    PROVE  b \in Ch!Challenges /\ Ch!Canonical = Ch!HexEncode(b)
<1>1. /\ b \in Ch!Challenges
      /\ nonce # None \/ challenge # None
      /\ nonce # None => Ch!Writes(nonce, b)
      /\ challenge # None => Ch!Writes(challenge, b)
    BY DEF Ch!Meant
<1>2. nonce # None => Ch!normalize_nonce(nonce) = Ch!HexEncode(b)
    BY <1>1, AcceptedText DEF FieldsOK
<1>3. challenge # None => Ch!normalize_nonce(challenge) = Ch!HexEncode(b)
    BY <1>1, AcceptedText DEF FieldsOK
<1>4. nonce # None /\ challenge # None =>
        Ch!ToLower(Ch!Trim(nonce)) = Ch!ToLower(Ch!Trim(challenge))
    BY <1>1, SameText DEF FieldsOK
<1>5. Ch!resolved_nonce(nonce, challenge) = Ch!HexEncode(b)
    BY <1>1, <1>2, <1>3, <1>4, Zenon DEF Ch!resolved_nonce
<1>6. Ch!HexEncode(b) # None /\ Ch!normalize_nonce(Ch!HexEncode(b)) = Ch!HexEncode(b)
    BY <1>1, CanonicalStable
<1> QED
    BY <1>1, <1>5, <1>6, Zenon DEF Ch!Canonical

\* They work only with what a caller means.
LEMMA CanonicalMeant ==
    ASSUME FieldsOK, Ch!Canonical # None
    PROVE  \E b \in Ch!Challenges : b \in Ch!Meant
<1>1. Ch!resolved_nonce(nonce, challenge) # None
    BY Zenon DEF Ch!Canonical
<1>2. CASE nonce # None
  <2>1. Ch!normalize_nonce(nonce) # None
    BY <1>1, <1>2, Zenon DEF Ch!resolved_nonce
  <2>2. PICK b \in Ch!Challenges : Ch!Writes(nonce, b)
    BY <1>2, <2>1, AcceptedText DEF FieldsOK
  <2>3. ASSUME challenge # None PROVE Ch!Writes(challenge, b)
    <3>1. Ch!ToLower(Ch!Trim(nonce)) = Ch!ToLower(Ch!Trim(challenge))
      BY <1>1, <1>2, <2>3, Zenon DEF Ch!resolved_nonce
    <3> QED
      BY <1>2, <2>2, <2>3, <3>1, SameBytes DEF FieldsOK
  <2> QED
    BY <1>2, <2>2, <2>3 DEF Ch!Meant
<1>3. CASE nonce = None
  <2>1. challenge # None /\ Ch!normalize_nonce(challenge) # None
    BY <1>1, <1>3, Zenon DEF Ch!resolved_nonce
  <2>2. PICK b \in Ch!Challenges : Ch!Writes(challenge, b)
    BY <2>1, AcceptedText DEF FieldsOK
  <2> QED
    BY <1>3, <2>1, <2>2 DEF Ch!Meant
<1> QED
    BY <1>2, <1>3

\* Bytes that fit are padded to the width of REPORTDATA.
LEMMA Padded ==
    ASSUME NEW n \in Nat, n <= Width, NEW b \in [1..n -> Ch!SomeBytes]
    PROVE  /\ Ch!report_data_from(b) # None
           /\ Ch!report_data_from(b) \in [1..Width -> Ch!Bytes]
<1>1. Len(b) = n /\ Width \in Nat
    BY BoundsAssumption
<1>2. Ch!report_data_from(b) = [i \in 1..Width |-> IF i <= n THEN b[i] ELSE 0]
  <2>1. ~(Len(b) > Width)
    BY <1>1
  <2> QED
    BY ONLY <1>1, <2>1, Zenon DEF Ch!report_data_from
<1>3. Ch!SomeBytes \subseteq Ch!Bytes
    BY DEF Ch!SomeBytes, Ch!Bytes
<1>4. \A i \in 1..Width : (IF i <= n THEN b[i] ELSE 0) \in Ch!Bytes
  <2>1. 0 \in Ch!Bytes
    BY DEF Ch!Bytes
  <2> QED
    BY <1>3, <2>1
<1>5. Ch!report_data_from(b) \in [1..Width -> Ch!Bytes]
    BY <1>2, <1>4
<1>6. Ch!report_data_from(b) \in Seq(Nat)
  <2>1. Ch!Bytes \subseteq Nat
    BY DEF Ch!Bytes
  <2>2. Ch!report_data_from(b) \in [1..Width -> Nat]
    BY <1>5, <2>1
  <2> QED
    BY <1>1, <2>2
<1> QED
    BY <1>5, <1>6, SetsAssumption

\* The quote of a challenge.
LEMMA QuoteOfChallenge ==
    ASSUME NEW b \in Ch!Challenges, NEW r
    PROVE  Ch!create_quote(r, Ch!HexEncode(b)) =
             [route |-> r, status |-> "ok", text |-> Ch!HexEncode(b), size |-> Len(b),
              quoted |-> b, tdx |-> <<>>, tdx_text |-> <<>>]
<1> DEFINE c == Ch!HexEncode(b)
<1>1. /\ c # None /\ Ch!normalize_nonce(c) = c
      /\ Ch!HexDecode(c) = b /\ Ch!ToLower(c) = c
    BY CanonicalStable
<1> HIDE DEF c
<1>2. Ch!create_quote(r, c) =
        [Ch!Rejected(r) EXCEPT !.status = "ok", !.text = c, !.size = Len(b), !.quoted = b]
    BY <1>1 DEF Ch!create_quote
<1> QED
    BY <1>2 DEF c, Ch!Rejected

\* The answers of the TPM routes: a rejection, or the evidence for what the
\* caller means.
LEMMA TpmAnswers ==
    ASSUME FieldsOK
    PROVE  /\ Ch!Canonical = None => /\ QuoteAnswer = Ch!Rejected("quote")
                                     /\ AllAnswer = Ch!Rejected("all")
           /\ \A b \in Ch!Challenges : Ch!Canonical = Ch!HexEncode(b) =>
                /\ QuoteAnswer =
                    [route |-> "quote", status |-> "ok", text |-> Ch!HexEncode(b),
                     size |-> Len(b), quoted |-> b, tdx |-> <<>>, tdx_text |-> <<>>]
                /\ AllAnswer =
                    [route |-> "all", status |-> "ok", text |-> Ch!HexEncode(b),
                     size |-> Len(b), quoted |-> b, tdx |-> Ch!report_data_from(b),
                     tdx_text |-> Ch!HexEncode(b)]
<1>1. ASSUME Ch!Canonical = None
      PROVE  QuoteAnswer = Ch!Rejected("quote") /\ AllAnswer = Ch!Rejected("all")
    BY <1>1 DEF QuoteAnswer, AllAnswer
<1>2. ASSUME NEW b \in Ch!Challenges, Ch!Canonical = Ch!HexEncode(b)
      PROVE  /\ QuoteAnswer =
                  [route |-> "quote", status |-> "ok", text |-> Ch!HexEncode(b),
                   size |-> Len(b), quoted |-> b, tdx |-> <<>>, tdx_text |-> <<>>]
             /\ AllAnswer =
                  [route |-> "all", status |-> "ok", text |-> Ch!HexEncode(b),
                   size |-> Len(b), quoted |-> b, tdx |-> Ch!report_data_from(b),
                   tdx_text |-> Ch!HexEncode(b)]
  <2> DEFINE c == Ch!HexEncode(b)
             p == Ch!report_data_from(b)
             q == Ch!create_quote("all", c)
  <2>1. c # None /\ Ch!HexDecode(c) = b
    BY CanonicalStable
  <2>2. p # None
    <3>1. Len(b) \in Nat /\ Len(b) <= Width /\ b \in [1..Len(b) -> Ch!SomeBytes]
      BY ChallengeLen
    <3> QED
      BY <3>1, Padded
  <2>3. q = [route |-> "all", status |-> "ok", text |-> c, size |-> Len(b),
             quoted |-> b, tdx |-> <<>>, tdx_text |-> <<>>]
    BY QuoteOfChallenge
  <2>4. QuoteAnswer =
          [route |-> "quote", status |-> "ok", text |-> c, size |-> Len(b),
           quoted |-> b, tdx |-> <<>>, tdx_text |-> <<>>]
    <3> HIDE DEF c, p, q
    <3>1. QuoteAnswer = Ch!create_quote("quote", c)
      BY <1>2, <2>1 DEF QuoteAnswer, c
    <3>2. Ch!create_quote("quote", c) =
            [route |-> "quote", status |-> "ok", text |-> c, size |-> Len(b),
             quoted |-> b, tdx |-> <<>>, tdx_text |-> <<>>]
      BY QuoteOfChallenge DEF c
    <3> QED
      BY <3>1, <3>2
  <2>5. AllAnswer = [q EXCEPT !.tdx = p, !.tdx_text = c]
    <3>1. q # Ch!Rejected("all")
      <4>1. q.status = "ok" /\ Ch!Rejected("all").status = "bad_request"
        BY <2>3 DEF Ch!Rejected
      <4> QED
        BY <4>1
    <3> QED
      BY <1>2, <2>1, <2>2, <3>1, Zenon DEF AllAnswer
  <2> HIDE DEF c, p, q
  <2>6. AllAnswer = [route |-> "all", status |-> "ok", text |-> c, size |-> Len(b),
                     quoted |-> b, tdx |-> p, tdx_text |-> c]
    BY <2>3, <2>5
  <2> QED
    BY <2>4, <2>6 DEF c, p
<1> QED
    BY <1>1, <1>2, Zenon

\* The answer of the route without a quote: a rejection, or a report over the
\* bytes of a text of digits.
LEMMA RnAnswers ==
    ASSUME FieldsOK
    PROVE  \/ RnAnswer = Ch!Rejected("rn")
           \/ \E n \in Nat :
                /\ nonce \in Seq(Ch!Chars) /\ n <= Width /\ Len(nonce) = 2 * n
                /\ \A i \in 1..Len(nonce) : nonce[i] \in Ch!Digits
                /\ RnAnswer =
                    [Ch!Rejected("rn") EXCEPT
                        !.status = "ok", !.tdx = Ch!report_data_from(Decoded(nonce, 1, n))]
<1> DEFINE d == Ch!HexDecode(nonce)
           p == Ch!report_data_from(d)
<1>1. CASE nonce = None \/ d = None \/ p = None
    BY <1>1, Zenon DEF RnAnswer
<1>2. CASE nonce # None /\ d # None /\ p # None
  <2>1. nonce \in Seq(Ch!Chars)
    BY <1>2 DEF FieldsOK
  <2>2. PICK n \in Nat : Len(nonce) = 2 * n
    BY <1>2, <2>1, DecodeOnly
  <2>3. \A i \in 1..Len(nonce) : nonce[i] \in Ch!Digits
    BY <1>2, <2>1, DecodeOnly
  <2>4. d = Decoded(nonce, 1, n)
    BY <2>1, <2>2, <2>3, DecodePairs
  <2>5. Len(d) = n
    BY <2>4, DecodedType
  <2>6. RnAnswer = [Ch!Rejected("rn") EXCEPT !.status = "ok", !.tdx = p]
    BY <1>2, Zenon DEF RnAnswer
  <2> HIDE DEF d
  <2>7. ~(Len(d) > Width)
    BY <1>2, Zenon DEF Ch!report_data_from
  <2>8. n <= Width
    BY <2>5, <2>7, BoundsAssumption
  <2> QED
    BY <2>1, <2>2, <2>3, <2>4, <2>6, <2>8
<1> QED
    BY <1>1, <1>2

\* A text without blanks means the same to both routes.
LEMMA PlainText ==
    ASSUME NEW n \in Nat \ {0}, n <= Width, NEW t \in Seq(Ch!Chars), Len(t) = 2 * n,
           \A i \in 1..Len(t) : t[i] \in Ch!Digits
    PROVE  /\ Ch!normalize_nonce(t) # None
           /\ Ch!HexDecode(Ch!normalize_nonce(t)) = Decoded(t, 1, n)
<1>1. Spelled(t, 1, n)
    BY DEF Spelled
<1>2. Ch!normalize_nonce(t) = Ch!HexEncode(Decoded(t, 1, n))
    BY <1>1, Normalized
<1>3. Decoded(t, 1, n) \in Ch!Challenges
    BY <1>1, SpelledWrites
<1> QED
    BY <1>2, <1>3, CanonicalStable

\* An answer to the fields has the properties that are claimed of it.
LEMMA ChallengeAnswers ==
    ASSUME ChallengeInv
    PROVE  Ch!AcceptedIffMeant /\ Ch!BoundToOneChallenge /\ Ch!RoutesAgree /\ Ch!TypeOK
<1> USE DEF ChallengeInv
<1>0. /\ \A r : /\ Ch!Rejected(r).route = r /\ Ch!Rejected(r).status = "bad_request"
               /\ Ch!Rejected(r).size = 0 /\ Ch!Rejected(r).text = <<>>
      /\ Ch!Pending.route = "none" /\ Ch!Pending.status = "pending"
      /\ Ch!Pending.size = 0 /\ Ch!Pending.text = <<>>
    BY DEF Ch!Rejected, Ch!Pending
<1>00. 0 \in 0..Width /\ \A i \in DOMAIN <<>> : FALSE
    BY BoundsAssumption
<1>1. CASE outcome = Ch!Pending
    BY <1>0, <1>00, <1>1
       DEF Ch!AcceptedIffMeant, Ch!BoundToOneChallenge, Ch!RoutesAgree, Ch!TypeOK
<1>2. ASSUME NEW r \in {"quote", "all"}, Ch!Canonical = None, outcome = Ch!Rejected(r)
      PROVE  Ch!AcceptedIffMeant /\ Ch!BoundToOneChallenge /\ Ch!RoutesAgree /\ Ch!TypeOK
  <2>1. Ch!Meant = {}
    <3>1. SUFFICES ASSUME NEW b \in Ch!Meant PROVE FALSE
      OBVIOUS
    <3> QED
      BY <1>2, MeantCanonical, CanonicalStable
  <2>2. outcome.status = "bad_request" /\ outcome.route = r
    BY <1>0, <1>2
  <2> QED
    BY <1>0, <1>00, <1>2, <2>1, <2>2
       DEF Ch!AcceptedIffMeant, Ch!BoundToOneChallenge, Ch!RoutesAgree, Ch!TypeOK
<1>3. ASSUME NEW b \in Ch!Challenges, b \in Ch!Meant, NEW r, NEW p, NEW u,
             outcome = [route |-> r, status |-> "ok", text |-> Ch!HexEncode(b),
                        size |-> Len(b), quoted |-> b, tdx |-> p, tdx_text |-> u],
             \/ r = "quote"
             \/ r = "all" /\ p = Ch!report_data_from(b) /\ u = Ch!HexEncode(b)
      PROVE  Ch!AcceptedIffMeant /\ Ch!BoundToOneChallenge /\ Ch!RoutesAgree /\ Ch!TypeOK
  <2>1. /\ outcome.route = r /\ outcome.status = "ok" /\ outcome.text = Ch!HexEncode(b)
        /\ outcome.size = Len(b) /\ outcome.quoted = b /\ outcome.tdx = p
        /\ outcome.tdx_text = u
    BY <1>3
  <2>2. Ch!AcceptedIffMeant
    BY <1>3, <2>1 DEF Ch!AcceptedIffMeant
  <2>3. ASSUME NEW a \in Ch!Meant PROVE a = b
    <3>1. a \in Ch!Challenges /\ Ch!HexEncode(a) = Ch!HexEncode(b)
      BY <1>3, MeantCanonical
    <3> QED
      BY <3>1, CanonicalStable
  <2>4. Ch!BoundToOneChallenge
    BY <1>3, <2>1, <2>3 DEF Ch!BoundToOneChallenge
  <2>5. Ch!RoutesAgree
    BY <1>3, <2>1 DEF Ch!RoutesAgree
  <2>6. Ch!TypeOK
    <3>1. Len(b) \in 0..Width
      BY ChallengeLen, BoundsAssumption
    <3>2. Len(b) \in Nat /\ Len(b) <= Width /\ b \in [1..Len(b) -> Ch!SomeBytes]
      BY ChallengeLen
    <3>3. Ch!report_data_from(b) \in [1..Width -> Ch!Bytes]
      BY <3>2, Padded
    <3>4. \A i \in DOMAIN Ch!HexEncode(b) : Ch!HexEncode(b)[i] \in {"1", "a"}
      BY CanonicalStable, LenProperties
    <3> QED
      BY <1>3, <2>1, <3>1, <3>3, <3>4 DEF Ch!TypeOK
  <2> QED
    BY <2>2, <2>4, <2>5, <2>6
<1>4. CASE outcome = QuoteAnswer \/ outcome = AllAnswer
  <2>1. CASE Ch!Canonical = None
    BY <1>2, <1>4, <2>1, TpmAnswers
  <2>2. CASE Ch!Canonical # None
    <3>1. PICK b \in Ch!Challenges : b \in Ch!Meant
      BY <2>2, CanonicalMeant
    <3>2. Ch!Canonical = Ch!HexEncode(b)
      BY <3>1, MeantCanonical
    <3>3. \/ outcome = [route |-> "quote", status |-> "ok", text |-> Ch!HexEncode(b),
                        size |-> Len(b), quoted |-> b, tdx |-> <<>>, tdx_text |-> <<>>]
          \/ outcome = [route |-> "all", status |-> "ok", text |-> Ch!HexEncode(b),
                        size |-> Len(b), quoted |-> b, tdx |-> Ch!report_data_from(b),
                        tdx_text |-> Ch!HexEncode(b)]
      BY <1>4, <3>2, TpmAnswers
    <3> QED
      BY <1>3, <3>1, <3>3, Zenon
  <2> QED
    BY <2>1, <2>2
<1>5. CASE challenge = None /\ outcome = RnAnswer
  <2>1. CASE RnAnswer = Ch!Rejected("rn")
    BY <1>0, <1>00, <1>5, <2>1
       DEF Ch!AcceptedIffMeant, Ch!BoundToOneChallenge, Ch!RoutesAgree, Ch!TypeOK
  <2>2. ASSUME NEW n \in Nat, nonce \in Seq(Ch!Chars), n <= Width, Len(nonce) = 2 * n,
               \A i \in 1..Len(nonce) : nonce[i] \in Ch!Digits,
               RnAnswer =
                 [Ch!Rejected("rn") EXCEPT
                    !.status = "ok", !.tdx = Ch!report_data_from(Decoded(nonce, 1, n))]
        PROVE  Ch!AcceptedIffMeant /\ Ch!BoundToOneChallenge /\ Ch!RoutesAgree /\ Ch!TypeOK
    <3> DEFINE p == Ch!report_data_from(Decoded(nonce, 1, n))
    <3>1. /\ outcome.route = "rn" /\ outcome.status = "ok" /\ outcome.text = <<>>
          /\ outcome.size = 0 /\ outcome.tdx = p
      BY <1>5, <2>2 DEF Ch!Rejected
    <3>2. p \in [1..Width -> Ch!Bytes]
      BY <2>2, DecodedType, Padded
    <3>3. nonce # <<>> =>
            /\ Ch!normalize_nonce(nonce) # None
            /\ Ch!HexDecode(Ch!normalize_nonce(nonce)) = Decoded(nonce, 1, n)
      <4>1. nonce # <<>> => n # 0
        BY <2>2, EmptySeq
      <4> QED
        BY <2>2, <4>1, PlainText
    <3> QED
      BY <1>00, <3>1, <3>2, <3>3
         DEF Ch!AcceptedIffMeant, Ch!BoundToOneChallenge, Ch!RoutesAgree, Ch!TypeOK
  <2> QED
    BY <2>1, <2>2, RnAnswers
<1> QED
    BY <1>1, <1>4, <1>5

\* A step of this part, or of another one, leaves the outcome an answer to the
\* fields of the request.
THEOREM ChallengeInvariance == Spec => []ChallengeInv
<1>1. Init => ChallengeInv
  <2> SUFFICES ASSUME Init PROVE ChallengeInv
    OBVIOUS
  <2>1. Ch!Init
    BY DEF Init
  <2> QED
    BY <2>1, EmptySeq DEF Ch!Init, ChallengeInv, FieldsOK
<1>2. ChallengeInv /\ [Next]_vars => ChallengeInv'
  <2> SUFFICES ASSUME ChallengeInv, [Next]_vars PROVE ChallengeInv'
    OBVIOUS
  <2>1. ASSUME UNCHANGED <<nonce, challenge>>
        PROVE  /\ FieldsOK' /\ QuoteAnswer' = QuoteAnswer /\ AllAnswer' = AllAnswer
               /\ RnAnswer' = RnAnswer /\ Ch!Pending' = Ch!Pending
    BY <2>1 DEF ChallengeInv, FieldsOK, QuoteAnswer, AllAnswer, RnAnswer, Ch!Canonical
  <2>2. CASE UNCHANGED challengeVars
    BY <2>1, <2>2 DEF ChallengeInv, challengeVars
  <2>3. CASE Ch!Next
    <3>1. ASSUME NEW c \in Ch!Chars, Ch!TypeNonce(c) PROVE ChallengeInv'
      <4>1. nonce \in Seq(Ch!Chars)
        BY <3>1 DEF Ch!TypeNonce, ChallengeInv, FieldsOK
      <4>2. nonce' \in Seq(Ch!Chars)
        BY <3>1, <4>1 DEF Ch!TypeNonce
      <4> QED
        BY <3>1, <4>2 DEF Ch!TypeNonce, ChallengeInv, FieldsOK
    <3>2. ASSUME NEW c \in Ch!Chars, Ch!TypeChallenge(c) PROVE ChallengeInv'
      <4>1. challenge \in Seq(Ch!Chars)
        BY <3>2 DEF Ch!TypeChallenge, ChallengeInv, FieldsOK
      <4>2. challenge' \in Seq(Ch!Chars)
        BY <3>2, <4>1 DEF Ch!TypeChallenge
      <4> QED
        BY <3>2, <4>2 DEF Ch!TypeChallenge, ChallengeInv, FieldsOK
    <3>3. CASE Ch!QuoteTpm
      <4>1. outcome' = QuoteAnswer /\ UNCHANGED <<nonce, challenge>>
        BY <3>3, Zenon DEF Ch!QuoteTpm, QuoteAnswer
      <4> QED
        BY <2>1, <4>1 DEF ChallengeInv
    <3>4. CASE Ch!AttestationAll
      <4>1. outcome' = AllAnswer /\ UNCHANGED <<nonce, challenge>>
        BY <3>4, Zenon DEF Ch!AttestationAll, AllAnswer
      <4> QED
        BY <2>1, <4>1 DEF ChallengeInv
    <3>5. CASE Ch!AttestationWithRandomNumber
      <4>1. outcome' = RnAnswer /\ challenge = None /\ UNCHANGED <<nonce, challenge>>
        BY <3>5, Zenon DEF Ch!AttestationWithRandomNumber, RnAnswer
      <4> QED
        BY <2>1, <4>1 DEF ChallengeInv
    <3> QED
      BY <2>3, <3>1, <3>2, <3>3, <3>4, <3>5 DEF Ch!Next
  <2> QED
    BY <2>2, <2>3 DEF Next, ParseGpu, DecodeChallenge, DecodeReport, ReadClock, RecordRequest,
                      vars, challengeVars
<1> QED
    BY <1>1, <1>2, PTL DEF Spec

\* A request is accepted exactly when its fields denote one challenge.
THEOREM WhatIsMeantIsAccepted == Spec => []AcceptedIffMeant
    BY ChallengeInvariance, ChallengeAnswers, PTL DEF AcceptedIffMeant

\* Quote, TDX report and evidence carry the bytes that the caller meant.
THEOREM OneChallenge == Spec => []BoundToOneChallenge
    BY ChallengeInvariance, ChallengeAnswers, PTL DEF BoundToOneChallenge

\* The routes with and without a quote put the same bytes in the report.
THEOREM SameBytesOnEveryRoute == Spec => []RoutesAgree
    BY ChallengeInvariance, ChallengeAnswers, PTL DEF RoutesAgree

-----------------------------------------------------------------------------
(* TDREPORT: which field shows a byte *)

\* Two reports differ in byte i and in no other.
DifferIn(r, q, i) == \A j \in Nat : (j \in r.nonzero <=> j \in q.nonzero) <=> j # i

\* Where two decoded fields differ.
Different(old, new) == {k \in DOMAIN old : old[k] # new[k]}

\* Of two reports that differ in byte i, these are the decodings of the field
\* with bytes from .. from + len - 1: they differ if i is one of the bytes, and
\* then in one digit.
Shows(old, new, i, from, len) ==
    IF from <= i /\ i <= from + len - 1
    THEN old # new /\ Cardinality(Different(old, new)) = 1
    ELSE old = new

\* A field of which one digit differs shows the byte.
LEMMA OneDigit ==
    ASSUME NEW old, NEW new, NEW k, Different(old, new) = {k}
    PROVE  old # new /\ Cardinality(Different(old, new)) = 1
<1>1. Cardinality({k}) = 1
    BY FS_Singleton
<1>2. old # new
    BY DEF Different
<1> QED
    BY <1>1, <1>2

\* The byte shows in a slice at its place.
LEMMA SliceDiffers ==
    ASSUME NEW r, NEW q, NEW i \in Nat, DifferIn(r, q, i), NEW from \in Nat, NEW len \in Nat,
           NEW k \in 1..len
    PROVE  /\ Td!Slice(r, from, len)[k] \in {0, 1} /\ Td!Slice(q, from, len)[k] \in {0, 1}
           /\ Td!Slice(r, from, len)[k] # Td!Slice(q, from, len)[k] <=> from + k - 1 = i
<1>1. from + k - 1 \in Nat
    OBVIOUS
<1> QED
    BY <1>1 DEF Td!Slice, DifferIn

\* In a field written in hex the byte is the lower digit of its pair.
LEMMA HexShows ==
    ASSUME NEW r, NEW q, NEW i \in Nat, DifferIn(r, q, i), NEW from \in Nat, NEW len \in Nat
    PROVE  Shows(Td!read_hex(r, from, len), Td!read_hex(q, from, len), i, from, len)
<1> DEFINE s == Td!Slice(r, from, len)
           t == Td!Slice(q, from, len)
           old == Td!read_hex(r, from, len)
           new == Td!read_hex(q, from, len)
           digit(b, k) == IF k % 2 = 1 THEN b[(k + 1) \div 2] \div 16 ELSE b[(k + 1) \div 2] % 16
<1>1. old = [k \in 1..(2 * len) |-> digit(s, k)] /\ new = [k \in 1..(2 * len) |-> digit(t, k)]
  <2>1. Len(s) = len /\ Len(t) = len
    BY DEF Td!Slice
  <2> HIDE DEF s, t
  <2> QED
    BY <2>1 DEF Td!read_hex, Td!hex_encode, s, t
<1>2. ASSUME NEW k \in 1..(2 * len)
      PROVE  digit(s, k) # digit(t, k) <=> k % 2 = 0 /\ from + (k + 1) \div 2 - 1 = i
  <2>1. (k + 1) \div 2 \in 1..len /\ (k % 2 = 1 \/ k % 2 = 0)
    OBVIOUS
  <2> DEFINE j == (k + 1) \div 2
  <2>2. /\ s[j] \in {0, 1} /\ t[j] \in {0, 1}
        /\ s[j] # t[j] <=> from + j - 1 = i
    BY <2>1, SliceDiffers
  <2>3. \A x \in {0, 1} : x \div 16 = 0 /\ x % 16 = x
    OBVIOUS
  <2> HIDE DEF j, s, t
  <2> QED
    BY <2>1, <2>2, <2>3 DEF j
<1> HIDE DEF s, t, old, new, digit
<1>3. CASE from <= i /\ i <= from + len - 1
  <2> DEFINE m == 2 * (i - from + 1)
  <2>1. m \in 1..(2 * len) /\ m % 2 = 0 /\ from + (m + 1) \div 2 - 1 = i
    BY <1>3
  <2>2. \A k \in 1..(2 * len) : k % 2 = 0 /\ from + (k + 1) \div 2 - 1 = i => k = m
    OBVIOUS
  <2> HIDE DEF m
  <2>3. Different(old, new) = {m}
    BY <1>1, <1>2, <2>1, <2>2 DEF Different
  <2> QED
    BY <1>3, <2>3, OneDigit DEF Shows, old, new
<1>4. CASE ~(from <= i /\ i <= from + len - 1)
  <2>1. \A k \in 1..(2 * len) : ~(k % 2 = 0 /\ from + (k + 1) \div 2 - 1 = i)
    BY <1>4
  <2>2. old = new
    BY <1>1, <1>2, <2>1
  <2> QED
    BY <1>4, <2>2 DEF Shows, old, new
<1> QED
    BY <1>3, <1>4

\* In a number the bytes are read from the last to the first.
LEMMA NumberShows ==
    ASSUME NEW r, NEW q, NEW i \in Nat, DifferIn(r, q, i), NEW from \in Nat
    PROVE  Shows(Td!read_u64(r, from), Td!read_u64(q, from), i, from, 8)
<1> DEFINE s == Td!Slice(r, from, 8)
           t == Td!Slice(q, from, 8)
           old == Td!read_u64(r, from)
           new == Td!read_u64(q, from)
<1>1. old = [k \in 1..8 |-> s[(8 - k) + 1]] /\ new = [k \in 1..8 |-> t[(8 - k) + 1]]
  <2>1. Len(s) = 8 /\ Len(t) = 8
    BY DEF Td!Slice
  <2> HIDE DEF s, t
  <2> QED
    BY <2>1 DEF Td!read_u64, Td!Reverse, s, t
<1>2. ASSUME NEW k \in 1..8
      PROVE  s[(8 - k) + 1] # t[(8 - k) + 1] <=> from + 8 - k = i
  <2>1. (8 - k) + 1 \in 1..8 /\ from + ((8 - k) + 1) - 1 = from + 8 - k
    OBVIOUS
  <2> QED
    BY <2>1, SliceDiffers
<1> HIDE DEF s, t, old, new
<1>3. CASE from <= i /\ i <= from + 8 - 1
  <2> DEFINE m == from + 8 - i
  <2>1. m \in 1..8 /\ \A k \in 1..8 : from + 8 - k = i <=> k = m
    BY <1>3
  <2> HIDE DEF m
  <2>2. Different(old, new) = {m}
    BY <1>1, <1>2, <2>1 DEF Different
  <2> QED
    BY <1>3, <2>2, OneDigit DEF Shows, old, new
<1>4. CASE ~(from <= i /\ i <= from + 8 - 1)
  <2>1. \A k \in 1..8 : from + 8 - k # i
    BY <1>4
  <2>2. old = new
    BY <1>1, <1>2, <2>1
  <2> QED
    BY <1>4, <2>2 DEF Shows, old, new
<1> QED
    BY <1>3, <1>4

\* The field that shows byte i, in the order of the offsets.
Owner(i) ==
    IF i < 192 THEN <<"report_mac_struct", "report_data">>
    ELSE IF i < 256 THEN <<"report_mac_struct", "mac">>
    ELSE IF i < 264 THEN <<"tee_tcb_info", "valid">>
    ELSE IF i < 280 THEN <<"tee_tcb_info", "tee_tcb_svn">>
    ELSE IF i < 328 THEN <<"tee_tcb_info", "mrseam">>
    ELSE IF i < 376 THEN <<"tee_tcb_info", "mrsignerseam">>
    ELSE IF i < 384 THEN <<"tee_tcb_info", "seamattributes">>
    ELSE IF i < 392 THEN <<"tee_tcb_info", "tdattributes">>
    ELSE IF i < 400 THEN <<"tee_tcb_info", "xfd">>
    ELSE IF i < 520 THEN <<"tdinfo", "attributes">>
    ELSE IF i < 528 THEN <<"tdinfo", "xfam">>
    ELSE IF i < 576 THEN <<"tdinfo", "mrtd">>
    ELSE IF i < 624 THEN <<"tdinfo", "mrconfigid">>
    ELSE IF i < 672 THEN <<"tdinfo", "mrowner">>
    ELSE IF i < 720 THEN <<"tdinfo", "mrownerconfig">>
    ELSE IF i < 768 THEN <<"tdinfo", "rtmr0">>
    ELSE IF i < 816 THEN <<"tdinfo", "rtmr1">>
    ELSE IF i < 864 THEN <<"tdinfo", "rtmr2">>
    ELSE IF i < 912 THEN <<"tdinfo", "rtmr3">>
    ELSE <<"tdinfo", "servtd_hash">>

\* The fields of report_mac_struct, and their bytes.
MacStructNames ==
    {"report_data", "mac"}
MacStructShows(a, b, i) ==
    /\ Shows(a["report_data"], b["report_data"], i, 128, 64)
    /\ Shows(a["mac"], b["mac"], i, 224, 32)

\* ReportMacStruct reads each field at its offset.
LEMMA MacStructFields ==
    ASSUME NEW r, NEW q, NEW i \in Nat, DifferIn(r, q, i)
    PROVE  MacStructShows(Td!ReportMacStruct(r), Td!ReportMacStruct(q), i)
<1>1. \A from, len \in Nat :
        Shows(Td!read_hex(r, from, len), Td!read_hex(q, from, len), i, from, len)
    BY HexShows
<1>2. ASSUME NEW x
      PROVE  /\ Td!ReportMacStruct(x)["report_data"] = Td!read_hex(x, 128, 64)
             /\ Td!ReportMacStruct(x)["mac"] = Td!read_hex(x, 224, 32)
    BY DEF Td!ReportMacStruct, Td!TDREPORT_REPORTDATA_OFFSET,
           Td!REPORTDATA_LEN, Td!TDREPORT_MAC_OFFSET, Td!TDREPORT_MAC_LEN
<1> QED
    BY <1>1, <1>2 DEF MacStructShows

\* A field of report_mac_struct that shows the byte is its owner.
LEMMA MacStructOwner ==
    ASSUME NEW a, NEW b, NEW i \in Nat, MacStructShows(a, b, i), NEW f \in MacStructNames, a[f] # b[f]
    PROVE  /\ <<"report_mac_struct", f>> = Owner(i)
           /\ Cardinality(Different(a[f], b[f])) = 1
           /\ (128 <= i /\ i <= 191) \/ (224 <= i /\ i <= 255)
    BY DEF MacStructShows, MacStructNames, Shows, Owner

\* A byte of report_mac_struct shows in one of its fields.
LEMMA MacStructCovers ==
    ASSUME NEW a, NEW b, NEW i \in Nat, MacStructShows(a, b, i),
           (128 <= i /\ i <= 191) \/ (224 <= i /\ i <= 255)
    PROVE  \E f \in MacStructNames : a[f] # b[f]
    BY DEF MacStructShows, MacStructNames, Shows

\* The fields of tee_tcb_info, and their bytes.
TcbInfoNames ==
    {"valid", "tee_tcb_svn", "mrseam", "mrsignerseam", "seamattributes",
     "tdattributes", "xfd"}
TcbInfoShows(a, b, i) ==
    /\ Shows(a["valid"], b["valid"], i, 256, 8)
    /\ Shows(a["tee_tcb_svn"], b["tee_tcb_svn"], i, 264, 16)
    /\ Shows(a["mrseam"], b["mrseam"], i, 280, 48)
    /\ Shows(a["mrsignerseam"], b["mrsignerseam"], i, 328, 48)
    /\ Shows(a["seamattributes"], b["seamattributes"], i, 376, 8)
    /\ Shows(a["tdattributes"], b["tdattributes"], i, 384, 8)
    /\ Shows(a["xfd"], b["xfd"], i, 392, 8)

\* TeeTcbInfo reads each field at its offset.
LEMMA TcbInfoFields ==
    ASSUME NEW r, NEW q, NEW i \in Nat, DifferIn(r, q, i)
    PROVE  TcbInfoShows(Td!TeeTcbInfo(r), Td!TeeTcbInfo(q), i)
<1>1. \A from, len \in Nat :
        Shows(Td!read_hex(r, from, len), Td!read_hex(q, from, len), i, from, len)
    BY HexShows
<1>2. \A from \in Nat : Shows(Td!read_u64(r, from), Td!read_u64(q, from), i, from, 8)
    BY NumberShows
<1>3. ASSUME NEW x
      PROVE  /\ Td!TeeTcbInfo(x)["valid"] = Td!read_u64(x, 256)
             /\ Td!TeeTcbInfo(x)["tee_tcb_svn"] = Td!read_hex(x, 264, 16)
             /\ Td!TeeTcbInfo(x)["mrseam"] = Td!read_hex(x, 280, 48)
             /\ Td!TeeTcbInfo(x)["mrsignerseam"] = Td!read_hex(x, 328, 48)
             /\ Td!TeeTcbInfo(x)["seamattributes"] = Td!read_u64(x, 376)
             /\ Td!TeeTcbInfo(x)["tdattributes"] = Td!read_u64(x, 384)
             /\ Td!TeeTcbInfo(x)["xfd"] = Td!read_u64(x, 392)
    BY DEF Td!TeeTcbInfo, Td!TEE_TCB_INFO_OFFSET
<1> QED
    BY <1>1, <1>2, <1>3 DEF TcbInfoShows

\* A field of tee_tcb_info that shows the byte is its owner.
LEMMA TcbInfoOwner ==
    ASSUME NEW a, NEW b, NEW i \in Nat, TcbInfoShows(a, b, i), NEW f \in TcbInfoNames, a[f] # b[f]
    PROVE  /\ <<"tee_tcb_info", f>> = Owner(i)
           /\ Cardinality(Different(a[f], b[f])) = 1
           /\ 256 <= i /\ i <= 399
    BY DEF TcbInfoShows, TcbInfoNames, Shows, Owner

\* A byte of tee_tcb_info shows in one of its fields.
LEMMA TcbInfoCovers ==
    ASSUME NEW a, NEW b, NEW i \in Nat, TcbInfoShows(a, b, i),
           256 <= i /\ i <= 399
    PROVE  \E f \in TcbInfoNames : a[f] # b[f]
    BY DEF TcbInfoShows, TcbInfoNames, Shows

\* The fields of tdinfo, and their bytes.
TdInfoNames ==
    {"attributes", "xfam", "mrtd", "mrconfigid", "mrowner", "mrownerconfig",
     "rtmr0", "rtmr1", "rtmr2", "rtmr3", "servtd_hash"}
TdInfoShows(a, b, i) ==
    /\ Shows(a["attributes"], b["attributes"], i, 512, 8)
    /\ Shows(a["xfam"], b["xfam"], i, 520, 8)
    /\ Shows(a["mrtd"], b["mrtd"], i, 528, 48)
    /\ Shows(a["mrconfigid"], b["mrconfigid"], i, 576, 48)
    /\ Shows(a["mrowner"], b["mrowner"], i, 624, 48)
    /\ Shows(a["mrownerconfig"], b["mrownerconfig"], i, 672, 48)
    /\ Shows(a["rtmr0"], b["rtmr0"], i, 720, 48)
    /\ Shows(a["rtmr1"], b["rtmr1"], i, 768, 48)
    /\ Shows(a["rtmr2"], b["rtmr2"], i, 816, 48)
    /\ Shows(a["rtmr3"], b["rtmr3"], i, 864, 48)
    /\ Shows(a["servtd_hash"], b["servtd_hash"], i, 912, 48)

\* TdInfo reads each field at its offset.
LEMMA TdInfoFields ==
    ASSUME NEW r, NEW q, NEW i \in Nat, DifferIn(r, q, i)
    PROVE  TdInfoShows(Td!TdInfo(r), Td!TdInfo(q), i)
<1>1. \A from, len \in Nat :
        Shows(Td!read_hex(r, from, len), Td!read_hex(q, from, len), i, from, len)
    BY HexShows
<1>2. \A from \in Nat : Shows(Td!read_u64(r, from), Td!read_u64(q, from), i, from, 8)
    BY NumberShows
<1>3. ASSUME NEW x
      PROVE  /\ Td!TdInfo(x)["attributes"] = Td!read_u64(x, 512)
             /\ Td!TdInfo(x)["xfam"] = Td!read_u64(x, 520)
             /\ Td!TdInfo(x)["mrtd"] = Td!read_hex(x, 528, 48)
             /\ Td!TdInfo(x)["mrconfigid"] = Td!read_hex(x, 576, 48)
             /\ Td!TdInfo(x)["mrowner"] = Td!read_hex(x, 624, 48)
             /\ Td!TdInfo(x)["mrownerconfig"] = Td!read_hex(x, 672, 48)
             /\ Td!TdInfo(x)["rtmr0"] = Td!read_hex(x, 720, 48)
             /\ Td!TdInfo(x)["rtmr1"] = Td!read_hex(x, 768, 48)
             /\ Td!TdInfo(x)["rtmr2"] = Td!read_hex(x, 816, 48)
             /\ Td!TdInfo(x)["rtmr3"] = Td!read_hex(x, 864, 48)
             /\ Td!TdInfo(x)["servtd_hash"] = Td!read_hex(x, 912, 48)
    BY DEF Td!TdInfo, Td!TDINFO_OFFSET
<1> QED
    BY <1>1, <1>2, <1>3 DEF TdInfoShows

\* A field of tdinfo that shows the byte is its owner.
LEMMA TdInfoOwner ==
    ASSUME NEW a, NEW b, NEW i \in Nat, TdInfoShows(a, b, i), NEW f \in TdInfoNames, a[f] # b[f]
    PROVE  /\ <<"tdinfo", f>> = Owner(i)
           /\ Cardinality(Different(a[f], b[f])) = 1
           /\ 512 <= i /\ i <= 959
    BY DEF TdInfoShows, TdInfoNames, Shows, Owner

\* A byte of tdinfo shows in one of its fields.
LEMMA TdInfoCovers ==
    ASSUME NEW a, NEW b, NEW i \in Nat, TdInfoShows(a, b, i),
           512 <= i /\ i <= 959
    PROVE  \E f \in TdInfoNames : a[f] # b[f]
    BY DEF TdInfoShows, TdInfoNames, Shows

\* The fields in which two answers differ.
AffectedIn(a, b) ==
    {f \in UNION {{<<s, f>> : f \in DOMAIN a[s]} : s \in Td!Structs} :
        a[f[1]][f[2]] # b[f[1]][f[2]]}

\* The structure that the layout puts byte i in, as a set.
LayoutOf(i) ==
    CASE i \in 128..191 \cup 224..255 -> {"report_mac_struct"}
      [] i \in 256..399 -> {"tee_tcb_info"}
      [] i \in 512..959 -> {"tdinfo"}
      [] OTHER -> {}

\* A decoded report.
Decoding(r) ==
    [report_mac_struct |-> Td!ReportMacStruct(r),
     tee_tcb_info |-> Td!TeeTcbInfo(r),
     tdinfo |-> Td!TdInfo(r)]

\* The structures of a decoded report and their fields.
LEMMA DecodingFields ==
    ASSUME NEW r
    PROVE  /\ Decoding(r)["report_mac_struct"] = Td!ReportMacStruct(r)
           /\ Decoding(r)["tee_tcb_info"] = Td!TeeTcbInfo(r)
           /\ Decoding(r)["tdinfo"] = Td!TdInfo(r)
           /\ DOMAIN Td!ReportMacStruct(r) = MacStructNames
           /\ DOMAIN Td!TeeTcbInfo(r) = TcbInfoNames
           /\ DOMAIN Td!TdInfo(r) = TdInfoNames
<1>1. DOMAIN Td!ReportMacStruct(r) = MacStructNames
    BY DEF Td!ReportMacStruct, MacStructNames
<1>2. DOMAIN Td!TeeTcbInfo(r) = TcbInfoNames
    BY DEF Td!TeeTcbInfo, TcbInfoNames
<1>3. DOMAIN Td!TdInfo(r) = TdInfoNames
    BY DEF Td!TdInfo, TdInfoNames
<1> QED
    BY <1>1, <1>2, <1>3 DEF Decoding

\* Every field that shows the byte is its owner, in the structure it belongs to.
LEMMA AffectedOwner ==
    ASSUME NEW r, NEW q, NEW i \in Nat, DifferIn(r, q, i),
           NEW f \in AffectedIn(Decoding(r), Decoding(q))
    PROVE  /\ f = Owner(i)
           /\ Cardinality(Different(Decoding(r)[f[1]][f[2]], Decoding(q)[f[1]][f[2]])) = 1
           /\ f[1] \in LayoutOf(i)
<1>1. PICK s \in Td!Structs : \E g \in DOMAIN Decoding(r)[s] :
        f = <<s, g>> /\ Decoding(r)[s][g] # Decoding(q)[s][g]
    BY DEF AffectedIn
<1>2. PICK g \in DOMAIN Decoding(r)[s] :
        f = <<s, g>> /\ Decoding(r)[s][g] # Decoding(q)[s][g]
    BY <1>1
<1>3. f[1] = s /\ f[2] = g
    BY <1>2
<1>4. CASE s = "report_mac_struct"
  <2>1. /\ Decoding(r)[s] = Td!ReportMacStruct(r) /\ Decoding(q)[s] = Td!ReportMacStruct(q)
        /\ g \in MacStructNames
    BY <1>4, DecodingFields
  <2>2. /\ <<s, g>> = Owner(i)
        /\ Cardinality(Different(Td!ReportMacStruct(r)[g], Td!ReportMacStruct(q)[g])) = 1
        /\ (128 <= i /\ i <= 191) \/ (224 <= i /\ i <= 255)
    BY <1>2, <1>4, <2>1, MacStructFields, MacStructOwner
  <2>3. s \in LayoutOf(i)
    BY <1>4, <2>2 DEF LayoutOf
  <2> QED
    BY <1>2, <1>3, <2>1, <2>2, <2>3
<1>5. CASE s = "tee_tcb_info"
  <2>1. /\ Decoding(r)[s] = Td!TeeTcbInfo(r) /\ Decoding(q)[s] = Td!TeeTcbInfo(q)
        /\ g \in TcbInfoNames
    BY <1>5, DecodingFields
  <2>2. /\ <<s, g>> = Owner(i)
        /\ Cardinality(Different(Td!TeeTcbInfo(r)[g], Td!TeeTcbInfo(q)[g])) = 1
        /\ 256 <= i /\ i <= 399
    BY <1>2, <1>5, <2>1, TcbInfoFields, TcbInfoOwner
  <2>3. s \in LayoutOf(i)
    BY <1>5, <2>2 DEF LayoutOf
  <2> QED
    BY <1>2, <1>3, <2>1, <2>2, <2>3
<1>6. CASE s = "tdinfo"
  <2>1. /\ Decoding(r)[s] = Td!TdInfo(r) /\ Decoding(q)[s] = Td!TdInfo(q)
        /\ g \in TdInfoNames
    BY <1>6, DecodingFields
  <2>2. /\ <<s, g>> = Owner(i)
        /\ Cardinality(Different(Td!TdInfo(r)[g], Td!TdInfo(q)[g])) = 1
        /\ 512 <= i /\ i <= 959
    BY <1>2, <1>6, <2>1, TdInfoFields, TdInfoOwner
  <2>3. s \in LayoutOf(i)
    BY <1>6, <2>2 DEF LayoutOf
  <2> QED
    BY <1>2, <1>3, <2>1, <2>2, <2>3
<1> QED
    BY <1>4, <1>5, <1>6 DEF Td!Structs

\* Every structure that the layout puts the byte in shows it.
LEMMA LayoutCovered ==
    ASSUME NEW r, NEW q, NEW i \in Nat, DifferIn(r, q, i), NEW s \in LayoutOf(i)
    PROVE  \E f \in AffectedIn(Decoding(r), Decoding(q)) : f[1] = s
<1>1. \/ s = "report_mac_struct" /\ ((128 <= i /\ i <= 191) \/ (224 <= i /\ i <= 255))
      \/ s = "tee_tcb_info" /\ 256 <= i /\ i <= 399
      \/ s = "tdinfo" /\ 512 <= i /\ i <= 959
    BY DEF LayoutOf
<1>2. \E g \in DOMAIN Decoding(r)[s] : Decoding(r)[s][g] # Decoding(q)[s][g]
  <2>1. CASE s = "report_mac_struct"
    <3>1. \E g \in MacStructNames : Td!ReportMacStruct(r)[g] # Td!ReportMacStruct(q)[g]
      BY <1>1, <2>1, MacStructFields, MacStructCovers
    <3> QED
      BY <2>1, <3>1, DecodingFields
  <2>2. CASE s = "tee_tcb_info"
    <3>1. \E g \in TcbInfoNames : Td!TeeTcbInfo(r)[g] # Td!TeeTcbInfo(q)[g]
      BY <1>1, <2>2, TcbInfoFields, TcbInfoCovers
    <3> QED
      BY <2>2, <3>1, DecodingFields
  <2>3. CASE s = "tdinfo"
    <3>1. \E g \in TdInfoNames : Td!TdInfo(r)[g] # Td!TdInfo(q)[g]
      BY <1>1, <2>3, TdInfoFields, TdInfoCovers
    <3> QED
      BY <2>3, <3>1, DecodingFields
  <2> QED
    BY <1>1, <2>1, <2>2, <2>3
<1>3. PICK g \in DOMAIN Decoding(r)[s] : Decoding(r)[s][g] # Decoding(q)[s][g]
    BY <1>2
<1>4. s \in Td!Structs
    BY <1>1 DEF Td!Structs
<1>5. <<s, g>>[1] = s /\ <<s, g>>[2] = g
    OBVIOUS
<1>6. <<s, g>> \in AffectedIn(Decoding(r), Decoding(q))
    BY <1>3, <1>4, <1>5 DEF AffectedIn
<1> QED
    BY <1>5, <1>6

\* Two reports that differ in one byte.
LEMMA OneByteShows ==
    ASSUME NEW r, NEW q, NEW i \in Nat, DifferIn(r, q, i)
    PROVE  /\ Cardinality(AffectedIn(Decoding(r), Decoding(q))) <= 1
           /\ \A f \in AffectedIn(Decoding(r), Decoding(q)) :
                Cardinality(Different(Decoding(r)[f[1]][f[2]], Decoding(q)[f[1]][f[2]])) = 1
           /\ {f[1] : f \in AffectedIn(Decoding(r), Decoding(q))} = LayoutOf(i)
<1> DEFINE A == AffectedIn(Decoding(r), Decoding(q))
<1>1. \A f \in A : f = Owner(i) /\ f[1] \in LayoutOf(i)
    BY AffectedOwner
<1>2. \A f \in A : Cardinality(Different(Decoding(r)[f[1]][f[2]], Decoding(q)[f[1]][f[2]])) = 1
    BY AffectedOwner
<1>3. \A s \in LayoutOf(i) : \E f \in A : f[1] = s
    BY LayoutCovered
<1> HIDE DEF A
<1>4. Cardinality(A) <= 1
  <2>1. IsFiniteSet({Owner(i)}) /\ Cardinality({Owner(i)}) = 1
    BY FS_Singleton
  <2>2. A \in SUBSET {Owner(i)}
    BY <1>1
  <2> QED
    BY ONLY <2>1, <2>2, FS_Subset
<1>5. {f[1] : f \in A} = LayoutOf(i)
    BY <1>1, <1>3
<1> QED
    BY <1>2, <1>4, <1>5 DEF A

-----------------------------------------------------------------------------
(* TDREPORT: the handler *)

\* The answer is the decoding of the report that was sent last.
ReportInv ==
    /\ report # None => /\ report \in [len : Lengths, nonzero : SUBSET Nat]
                        /\ report.nonzero \subseteq 0..(report.len - 1)
    /\ answer = IF report = None THEN None ELSE Td!parse_tdreport(report)

\* Every report that is sent is one, and is answered by its decoding.
THEOREM ReportInvariance == Spec => []ReportInv
<1>1. Init => ReportInv
    BY DEF Init, Td!Init, ReportInv
<1>2. ReportInv /\ [Next]_vars => ReportInv'
  <2> SUFFICES ASSUME ReportInv, [Next]_vars PROVE ReportInv'
    OBVIOUS
  <2>1. CASE UNCHANGED reportVars
    BY <2>1 DEF ReportInv, reportVars
  <2>2. CASE Td!SendUndecodable
    BY <2>2 DEF ReportInv, Td!SendUndecodable, Td!parse_report
  <2>3. CASE Td!SendZeros
    BY <2>3 DEF ReportInv, Td!SendZeros, Td!parse_report
  <2>4. CASE Td!SendChanged
    <3>1. PICK i \in 0..(report.len - 1) :
            Td!parse_report([report EXCEPT !.nonzero = Td!SymDiff(report.nonzero, {i})])
      BY <2>4 DEF Td!SendChanged
    <3> DEFINE changed == Td!SymDiff(report.nonzero, {i})
    <3>2. /\ report \in [len : Lengths, nonzero : SUBSET Nat]
          /\ report.nonzero \subseteq 0..(report.len - 1)
      BY <2>4 DEF ReportInv, Td!SendChanged
    <3>3. changed \subseteq 0..(report.len - 1)
      BY <3>2 DEF Td!SymDiff
    <3> HIDE DEF changed
    <3>4. report.len \in Nat /\ changed \subseteq Nat
      <4>1. report.len \in Nat
        BY <3>2, SetsAssumption
      <4> QED
        BY <3>3, <4>1
    <3>5. report' = [report EXCEPT !.nonzero = changed]
      BY <3>1 DEF Td!parse_report, changed
    <3>6. report' \in [len : Lengths, nonzero : SUBSET Nat] /\ report'.nonzero = changed
          /\ report'.len = report.len
      BY <3>2, <3>4, <3>5
    <3>7. answer' = IF report' = None THEN None ELSE Td!parse_tdreport(report')
      BY <3>1 DEF Td!parse_report
    <3> QED
      BY <3>3, <3>6, <3>7 DEF ReportInv
  <2> QED
    BY <2>1, <2>2, <2>3, <2>4
       DEF Next, ParseGpu, DecodeChallenge, DecodeReport, ReadClock, RecordRequest, Td!Next,
           vars, reportVars
<1> QED
    BY <1>1, <1>2, PTL DEF Spec

\* Two answered reports of which one byte differs.
LEMMA ChangedByte ==
    ASSUME ReportInv, ReportInv', answer # None, answer' # None, Td!Cardinality(Td!Changed) = 1
    PROVE  \E r, q : \E i \in Nat :
             /\ answer = Decoding(r) /\ answer' = Decoding(q)
             /\ DifferIn(r, q, i) /\ Td!Changed = {i}
<1>1. /\ report # None /\ report.len = 1024
      /\ report # None => answer = Td!parse_tdreport(report)
      /\ report \in [len : Lengths, nonzero : SUBSET Nat]
      /\ report.nonzero \subseteq 0..(report.len - 1)
    BY DEF ReportInv, Td!parse_tdreport, Td!TDREPORT_LEN
<1>2. /\ report' # None /\ report'.len = 1024
      /\ report' # None => answer' = Td!parse_tdreport(report')
      /\ report' \in [len : Lengths, nonzero : SUBSET Nat]
      /\ report'.nonzero \subseteq 0..(report'.len - 1)
    BY DEF ReportInv, Td!parse_tdreport, Td!TDREPORT_LEN
<1>3. PICK r, q : r = report /\ q = report'
    OBVIOUS
<1>4. answer = Decoding(r) /\ answer' = Decoding(q)
    BY <1>1, <1>2, <1>3 DEF Decoding, Td!parse_tdreport, Td!TDREPORT_LEN
<1>5. Td!Changed = (r.nonzero \ q.nonzero) \cup (q.nonzero \ r.nonzero)
    BY <1>3 DEF Td!Changed, Td!SymDiff
<1>6. Td!Changed \in SUBSET (0..1023)
    BY <1>1, <1>2, <1>3, <1>5
<1>7. PICK C : C = Td!Changed
    OBVIOUS
<1>8. Cardinality(C) = 1
    BY <1>7 DEF Cardinality, Td!Cardinality
<1>9. PICK i : Td!Changed = {i}
  <2> DEFINE last == 1023
             D == 0..last
  <2>0. last \in Int
    OBVIOUS
  <2> HIDE DEF last
  <2>1. IsFiniteSet(D)
    BY <2>0, FS_Interval
  <2>2. C \in SUBSET D
    BY <1>6, <1>7 DEF last
  <2> HIDE DEF D
  <2>3. IsFiniteSet(C)
    BY ONLY <2>1, <2>2, FS_Subset
  <2>4. \E i : C = {i}
    BY <1>8, <2>3, FS_Singleton
  <2> QED
    BY <1>7, <2>4
<1>10. i \in Nat
    BY <1>6, <1>9
<1>11. DifferIn(r, q, i)
    BY <1>5, <1>9 DEF DifferIn
<1> QED
    BY <1>4, <1>9, <1>10, <1>11

\* Two reports that differ in one byte differ in at most one decoded field, and
\* there in one digit.
THEOREM BytesShowOnce == Spec => OneByteOneField
<1>1. ReportInv /\ ReportInv' =>
        (answer # None /\ answer' # None /\ Td!Cardinality(Td!Changed) = 1 =>
            /\ Td!Cardinality(Td!Affected) <= 1
            /\ \A f \in Td!Affected :
                LET old == answer[f[1]][f[2]]
                    new == answer'[f[1]][f[2]] IN
                Td!Cardinality({k \in DOMAIN old : old[k] # new[k]}) = 1)
  <2> SUFFICES ASSUME ReportInv, ReportInv', answer # None, answer' # None,
                      Td!Cardinality(Td!Changed) = 1
               PROVE  /\ Td!Cardinality(Td!Affected) <= 1
                      /\ \A f \in Td!Affected :
                          Td!Cardinality({k \in DOMAIN answer[f[1]][f[2]] :
                            answer[f[1]][f[2]][k] # answer'[f[1]][f[2]][k]}) = 1
    BY Zenon
  <2>1. PICK r, q : \E i \in Nat :
          answer = Decoding(r) /\ answer' = Decoding(q) /\ DifferIn(r, q, i)
    BY ChangedByte
  <2>2. PICK i \in Nat : answer = Decoding(r) /\ answer' = Decoding(q) /\ DifferIn(r, q, i)
    BY <2>1
  <2>3. Td!Affected = AffectedIn(Decoding(r), Decoding(q))
    <3>1. PICK a, b : a = answer /\ b = answer'
      OBVIOUS
    <3>2. Td!Affected = AffectedIn(a, b)
      BY <3>1 DEF Td!Affected, Td!FieldNames, AffectedIn
    <3> QED
      BY <2>2, <3>1, <3>2, Zenon
  <2>4. /\ Cardinality(AffectedIn(Decoding(r), Decoding(q))) <= 1
        /\ \A f \in AffectedIn(Decoding(r), Decoding(q)) :
             Cardinality(Different(Decoding(r)[f[1]][f[2]], Decoding(q)[f[1]][f[2]])) = 1
    BY <2>2, OneByteShows
  <2>5. \A S : Td!Cardinality(S) = Cardinality(S)
    BY DEF Cardinality, Td!Cardinality
  <2>6. Td!Cardinality(Td!Affected) <= 1
    BY <2>3, <2>4, <2>5
  <2>7. ASSUME NEW f \in Td!Affected
        PROVE  Td!Cardinality({k \in DOMAIN answer[f[1]][f[2]] :
                  answer[f[1]][f[2]][k] # answer'[f[1]][f[2]][k]}) = 1
    BY <2>2, <2>3, <2>4, <2>5, Zenon DEF Different
  <2> QED
    BY <2>6, <2>7
<1> QED
    BY <1>1, ReportInvariance, PTL DEF OneByteOneField, Td!OneByteOneField

\* A byte is decoded as part of the structure that the layout puts it in.
THEOREM BytesShowInPlace == Spec => LayoutRespected
<1>1. ReportInv /\ ReportInv' =>
        (answer # None /\ answer' # None /\ Td!Cardinality(Td!Changed) = 1 =>
            \A i \in Td!Changed :
                {f[1] : f \in Td!Affected} =
                    CASE i \in 128..191 \cup 224..255 -> {"report_mac_struct"}
                      [] i \in 256..399 -> {"tee_tcb_info"}
                      [] i \in 512..959 -> {"tdinfo"}
                      [] OTHER -> {})
  <2> SUFFICES ASSUME ReportInv, ReportInv', answer # None, answer' # None,
                      Td!Cardinality(Td!Changed) = 1, NEW j \in Td!Changed
               PROVE  {f[1] : f \in Td!Affected} = LayoutOf(j)
    BY Zenon DEF LayoutOf
  <2>1. PICK r, q : \E i \in Nat :
          /\ answer = Decoding(r) /\ answer' = Decoding(q)
          /\ DifferIn(r, q, i) /\ Td!Changed = {i}
    BY ChangedByte
  <2>2. PICK i \in Nat : /\ answer = Decoding(r) /\ answer' = Decoding(q)
                         /\ DifferIn(r, q, i) /\ Td!Changed = {i}
    BY <2>1
  <2>3. Td!Affected = AffectedIn(Decoding(r), Decoding(q))
    <3>1. PICK a, b : a = answer /\ b = answer'
      OBVIOUS
    <3>2. Td!Affected = AffectedIn(a, b)
      BY <3>1 DEF Td!Affected, Td!FieldNames, AffectedIn
    <3> QED
      BY <2>2, <3>1, <3>2, Zenon
  <2>4. {f[1] : f \in AffectedIn(Decoding(r), Decoding(q))} = LayoutOf(i)
    BY <2>2, OneByteShows
  <2>5. j = i
    BY <2>2
  <2> QED
    BY <2>3, <2>4, <2>5, Zenon
<1> QED
    BY <1>1, ReportInvariance, PTL DEF LayoutRespected, Td!LayoutRespected

-----------------------------------------------------------------------------
(* The types of the timestamps and of the TDREPORT *)

\* Later years begin later.
LEMMA YearsBegin ==
    ASSUME NEW x \in Nat, NEW y \in Nat, x <= y
    PROVE  /\ DaysBefore(x) \in Int /\ DaysBefore(y) \in Int
           /\ DaysBefore(x) <= DaysBefore(y)
<1>1. \A n \in Nat :
        /\ n \div 4 \in Nat /\ 4 * (n \div 4) <= n /\ n < 4 * (n \div 4) + 4
        /\ n \div 100 \in Nat /\ 100 * (n \div 100) <= n /\ n < 100 * (n \div 100) + 100
        /\ n \div 400 \in Nat /\ 400 * (n \div 400) <= n /\ n < 400 * (n \div 400) + 400
    OBVIOUS
<1>2. PICK a \in Nat, b \in Nat, c \in Nat :
        /\ a = x \div 4 /\ 4 * a <= x /\ x < 4 * a + 4
        /\ b = x \div 100 /\ 100 * b <= x /\ x < 100 * b + 100
        /\ c = x \div 400 /\ 400 * c <= x /\ x < 400 * c + 400
    BY <1>1
<1>3. PICK a1 \in Nat, b1 \in Nat, c1 \in Nat :
        /\ a1 = y \div 4 /\ 4 * a1 <= y /\ y < 4 * a1 + 4
        /\ b1 = y \div 100 /\ 100 * b1 <= y /\ y < 100 * b1 + 100
        /\ c1 = y \div 400 /\ 400 * c1 <= y /\ y < 400 * c1 + 400
    BY <1>1
<1>4. DaysBefore(x) = 365 * x + a - b + c /\ DaysBefore(y) = 365 * y + a1 - b1 + c1
    BY <1>2, <1>3 DEF DaysBefore, Cal!LeapYears
<1>5. x = y => a = a1 /\ b = b1 /\ c = c1
    BY <1>2, <1>3
<1> QED
    BY <1>2, <1>3, <1>4, <1>5

\* Day z is in a year that the days before it and its day place between the
\* epoch and the new year.
DayPlaced(z, new, p, d, last, m) ==
    /\ z + 719468 = p + m /\ new + 719468 = last + 306
    /\ 719162 <= p /\ p + 365 <= d /\ d <= last /\ 306 <= m /\ m <= 367

\* A day of a year between the first and the last one.
LEMMA DayBetween ==
    ASSUME NEW z \in Int, NEW new \in Int, NEW p \in Int, NEW d \in Int, NEW last \in Int,
           NEW m \in Int, DayPlaced(z, new, p, d, last, m)
    PROVE  z \in 0..new
<1>1. 0 <= z
    BY SMT DEF DayPlaced
<1>2. z <= new
    BY SMT DEF DayPlaced
<1> QED
    BY <1>1, <1>2, SMT

\* The days are counted from the epoch to the year in which the clock stops.
LEMMA DaysInRange ==
    ASSUME NEW y \in Nat, 1970 <= y, y <= LastYear + 1, NEW m \in 1..12,
           NEW d \in 1..Cal!MonthLength(y, m), NEW z \in Int, SameDay(y, m, d, z),
           y = LastYear + 1 => m = 1 /\ d = 1
    PROVE  z \in 0..Cal!NewYear(LastYear + 1)
<1>0. LastYear \in Nat
    BY BoundsAssumption
<1>1. d \in Nat /\ d <= 31 /\ d >= 1
    BY DEF Cal!MonthLength
<1>2. \A n \in Nat \ {0} : Cal!NewYear(n) \in Int /\ Cal!NewYear(n) + 719468 = DaysBefore(n - 1) + 306
  <2> SUFFICES ASSUME NEW n \in Nat \ {0}
               PROVE  Cal!NewYear(n) \in Int /\ Cal!NewYear(n) + 719468 = DaysBefore(n - 1) + 306
    OBVIOUS
  <2>1. MarchYear(n, 1) = n - 1 /\ MarchDay(1, 1) = 306
    BY DEF MarchYear, MarchDay, MarchMonth
  <2> QED
    BY <2>1, NewYearDay DEF SameDay
<1>3. DaysBefore(1969) = 719162
    BY DEF DaysBefore, Cal!LeapYears
<1>4. z + 719468 = DaysBefore(MarchYear(y, m)) + MarchDay(m, d)
    BY DEF SameDay
<1>5. Cal!NewYear(LastYear + 1) + 719468 = DaysBefore(LastYear) + 306
    BY <1>0, <1>2
<1>6. CASE m <= 2
  <2>0. MarchYear(y, m) = y - 1
    BY <1>6 DEF MarchYear
  <2>1. MarchDay(m, d) \in 306..367 /\ (m = 1 /\ d = 1 => MarchDay(m, d) = 306)
    BY <1>1, <1>6 DEF MarchDay, MarchMonth
  <2>2. DaysBefore(1969) <= DaysBefore(y - 1) /\ DaysBefore(y - 1) \in Int
    BY YearsBegin
  <2>3. CASE y = LastYear + 1
    BY <1>2, <1>3, <1>4, <1>5, <2>0, <2>1, <2>2, <2>3
  <2>4. CASE y # LastYear + 1
    <3>1. DaysBefore(y) <= DaysBefore(LastYear) /\ DaysBefore(LastYear) \in Int
      BY <1>0, <2>4, YearsBegin
    <3>2. DaysBefore(y - 1) + 365 <= DaysBefore(y)
      <4>1. y \in Nat \ {0}
        OBVIOUS
      <4>2. /\ Cal!LeapYears(y - 1) \in Int
            /\ Cal!LeapYears(y) = Cal!LeapYears(y - 1) + (IF Cal!Leap(y) THEN 1 ELSE 0)
        BY <4>1, NextLeap
      <4> QED
        BY <4>2, SMT DEF DaysBefore
    <3>3. Cal!NewYear(LastYear + 1) \in Int
      BY <1>0, <1>2
    <3> QED
      <4> DEFINE nw == Cal!NewYear(LastYear + 1)
                 p == DaysBefore(y - 1)
                 dd == DaysBefore(y)
                 l == DaysBefore(LastYear)
                 md == MarchDay(m, d)
      <4>1. /\ nw \in Int /\ p \in Int /\ dd \in Int /\ l \in Int /\ md \in Int
            /\ DayPlaced(z, nw, p, dd, l, md)
        <5>1. DaysBefore(MarchYear(y, m)) = DaysBefore(y - 1)
          BY ONLY <2>0, Zenon
        <5>2. md \in Int /\ 306 <= md /\ md <= 367
          BY <2>1
        <5>3. z + 719468 = p + md
          BY <1>4, <5>1
        <5>4. nw + 719468 = l + 306
          BY <1>5
        <5>5. 719162 <= p
          BY <1>3, <2>2
        <5> HIDE DEF nw, p, dd, l, md
        <5>6. nw \in Int /\ p \in Int /\ dd \in Int /\ l \in Int
          BY <2>2, <3>1, <3>3, YearsBegin DEF nw, p, dd, l
        <5> QED
          BY <3>1, <3>2, <5>2, <5>3, <5>4, <5>5, <5>6, SMT DEF DayPlaced, p, dd, l
      <4> HIDE DEF nw, p, dd, l, md
      <4>2. z \in 0..nw
        BY ONLY <4>1, z \in Int, DayBetween, Zenon
      <4> QED
        BY <4>2 DEF nw
  <2> QED
    BY <2>3, <2>4
<1>7. CASE m > 2
  <2>1. MarchYear(y, m) = y /\ MarchDay(m, d) \in 0..306
    BY <1>1, <1>7 DEF MarchYear, MarchDay, MarchMonth
  <2>2. y <= LastYear
    BY <1>0, <1>7
  <2>3. DaysBefore(y) <= DaysBefore(LastYear) /\ DaysBefore(y) \in Int /\ DaysBefore(LastYear) \in Int
    BY <1>0, <2>2, YearsBegin
  <2>4. DaysBefore(1970) <= DaysBefore(y)
    BY YearsBegin
  <2>5. DaysBefore(1970) = 719527
    BY DEF DaysBefore, Cal!LeapYears
  <2> QED
    BY <1>0, <1>2, <1>4, <1>5, <2>1, <2>3, <2>4, <2>5, SMT
<1> QED
    BY <1>6, <1>7

\* What the readings of the clock keep are the types of its variables, and of
\* the unsigned numbers that civil_from_days computes on the way.
LEMMA ClockTypes == ClockInv => Cal!TypeOK
<1> SUFFICES ASSUME ClockInv PROVE Cal!TypeOK
    OBVIOUS
<1>1. days \in Int /\ sod \in SecondsOfDay /\ LastYear \in Nat
    BY BoundsAssumption DEF ClockInv
<1>2. days \in 0..Cal!NewYear(LastYear + 1) /\ EraTypes(days)
  <2>1. PICK y \in 1970..(LastYear + 1), m \in 1..12 : \E d \in 1..Cal!MonthLength(y, m) :
          /\ SameDay(y, m, d, days)
          /\ y = LastYear + 1 => m = 1 /\ d = 1
    BY DEF ClockInv, DateInv
  <2>2. PICK d \in 1..Cal!MonthLength(y, m) :
          SameDay(y, m, d, days) /\ (y = LastYear + 1 => m = 1 /\ d = 1)
    BY <2>1
  <2>3. y \in Nat /\ 1970 <= y /\ y <= LastYear + 1
    BY <1>1
  <2>4. days \in 0..Cal!NewYear(LastYear + 1)
    BY <1>1, <2>2, <2>3, DaysInRange
  <2>5. y \in Nat \ {0} /\ days \in Int /\ SameDay(y, m, d, days)
    BY <1>1, <2>2
  <2>6. EraTypes(days)
    BY <2>5, CivilOf, SMTT(60)
  <2> QED
    BY <2>4, <2>6
<1> QED
    BY <1>1, <1>2, SMT DEF Cal!TypeOK, EraTypes

\* The bytes of a slice are numbers.
LEMMA SliceType ==
    ASSUME NEW r, NEW from, NEW len \in Nat
    PROVE  /\ Td!Slice(r, from, len) \in Seq(Nat) /\ Len(Td!Slice(r, from, len)) = len
           /\ \A k \in 1..len : Td!Slice(r, from, len)[k] \in {0, 1}
    BY DEF Td!Slice

\* A field written in hex is a sequence of digits.
LEMMA HexType ==
    ASSUME NEW r, NEW from, NEW len \in Nat
    PROVE  Td!read_hex(r, from, len) \in Seq(Nat)
<1> DEFINE s == Td!Slice(r, from, len)
<1>1. Len(s) = len /\ \A k \in 1..len : s[k] \in {0, 1}
    BY SliceType
<1>2. Td!read_hex(r, from, len) = Td!hex_encode(s)
    BY DEF Td!read_hex
<1> HIDE DEF s
<1>3. \A k \in 1..(2 * len) :
        (IF k % 2 = 1 THEN s[(k + 1) \div 2] \div 16 ELSE s[(k + 1) \div 2] % 16) \in Nat
  <2> SUFFICES ASSUME NEW k \in 1..(2 * len)
               PROVE  s[(k + 1) \div 2] \div 16 \in Nat /\ s[(k + 1) \div 2] % 16 \in Nat
    OBVIOUS
  <2>1. (k + 1) \div 2 \in 1..len
    OBVIOUS
  <2>2. \A x \in {0, 1} : x \div 16 \in Nat /\ x % 16 \in Nat
    OBVIOUS
  <2> QED
    BY <1>1, <2>1, <2>2
<1>4. Td!hex_encode(s) =
        [k \in 1..(2 * len) |->
            IF k % 2 = 1 THEN s[(k + 1) \div 2] \div 16 ELSE s[(k + 1) \div 2] % 16]
    BY <1>1 DEF Td!hex_encode
<1> QED
    BY <1>2, <1>3, <1>4

\* A number is a sequence of digits.
LEMMA NumberType ==
    ASSUME NEW r, NEW from
    PROVE  Td!read_u64(r, from) \in Seq(Nat)
<1> DEFINE s == Td!Slice(r, from, 8)
<1>1. Len(s) = 8 /\ \A k \in 1..8 : s[k] \in {0, 1}
    BY DEF Td!Slice
<1>2. Td!read_u64(r, from) = [k \in 1..8 |-> s[(8 - k) + 1]]
  <2>1. Len(s) = 8
    BY DEF Td!Slice
  <2> HIDE DEF s
  <2> QED
    BY <2>1 DEF Td!read_u64, Td!Reverse, s
<1> HIDE DEF s
<1>3. \A k \in 1..8 : s[(8 - k) + 1] \in Nat
    BY <1>1
<1> QED
    BY <1>2, <1>3

\* A report of the right length is decoded to records of digits.
LEMMA DecodedFields ==
    ASSUME NEW r, r.len = 1024
    PROVE  Td!parse_tdreport(r) \in Td!Decoded
<1> DEFINE Digit == Seq(Nat)
<1>1. \A from, len \in Nat : Td!read_hex(r, from, len) \in Digit
    BY HexType
<1>2. \A from \in Nat : Td!read_u64(r, from) \in Digit
    BY NumberType
<1> HIDE DEF Digit
<1>3. Td!ReportMacStruct(r) \in [report_data : Digit, mac : Digit]
    BY <1>1 DEF Td!ReportMacStruct, Td!TDREPORT_REPORTDATA_OFFSET, Td!REPORTDATA_LEN,
       Td!TDREPORT_MAC_OFFSET, Td!TDREPORT_MAC_LEN
<1>4. Td!TeeTcbInfo(r) \in
        [valid : Digit, tee_tcb_svn : Digit, mrseam : Digit, mrsignerseam : Digit,
         seamattributes : Digit, tdattributes : Digit, xfd : Digit]
    BY <1>1, <1>2 DEF Td!TeeTcbInfo, Td!TEE_TCB_INFO_OFFSET
<1>5. Td!TdInfo(r) \in
        [attributes : Digit, xfam : Digit, mrtd : Digit, mrconfigid : Digit,
         mrowner : Digit, mrownerconfig : Digit, rtmr0 : Digit, rtmr1 : Digit,
         rtmr2 : Digit, rtmr3 : Digit, servtd_hash : Digit]
    BY <1>1, <1>2 DEF Td!TdInfo, Td!TDINFO_OFFSET
<1> QED
    BY <1>3, <1>4, <1>5 DEF Td!parse_tdreport, Td!Decoded, Digit, Td!TDREPORT_LEN

\* The answer to a report has its types.
LEMMA ReportTypes == ReportInv => Td!TypeOK
<1> SUFFICES ASSUME ReportInv PROVE Td!TypeOK
    OBVIOUS
<1>1. CASE report = None
    BY <1>1 DEF ReportInv, Td!TypeOK
<1>2. CASE report # None
  <2>1. /\ report \in [len : Lengths, nonzero : SUBSET Nat]
        /\ report.nonzero \subseteq 0..(report.len - 1)
        /\ answer = Td!parse_tdreport(report)
    BY <1>2 DEF ReportInv
  <2>2. CASE report.len # 1024
    BY <1>2, <2>1, <2>2 DEF Td!TypeOK, Td!parse_tdreport, Td!TDREPORT_LEN
  <2>3. CASE report.len = 1024
    <3>1. answer \in Td!Decoded /\ answer # None
      BY <2>1, <2>3, DecodedFields, SetsAssumption
    <3>2. answer.report_mac_struct.report_data = Td!hex_encode(Td!tdreport_reportdata(report))
      BY <2>1, <2>3 DEF Td!parse_tdreport, Td!ReportMacStruct, Td!read_hex,
         Td!tdreport_reportdata, Td!TDREPORT_LEN
    <3> QED
      BY <1>2, <2>1, <2>3, <3>1, <3>2 DEF Td!TypeOK, Td!TDREPORT_LEN
  <2> QED
    BY <2>2, <2>3
<1> QED
    BY <1>1, <1>2

-----------------------------------------------------------------------------
(* Lines and their positions *)

\* What a line has besides its class.
LEMMA LineFields ==
    ASSUME NEW l \in Gpu!Lines
    PROVE  /\ l.kind \in {"blank", "device", "chain", "field"} \cup Gpu!Plain \cup Gpu!ChainLine
           /\ l.kind = "device" => l.index \in Indices \cup {None}
           /\ l.kind = "chain" => l.name \in Chains
           /\ l.kind \in Gpu!ChainLine => l.value \in Values
           /\ l.kind = "status" => l.ocsp \in Values \cup {None}
           /\ l.kind = "field" => l.name \in Fields /\ l.value \in Values
           /\ l.kind \in Gpu!Plain => l.says \in {"success", "denied", "other"}
<1>1. CASE l \in [kind : {"blank"}]
    BY <1>1 DEF Gpu!Plain, Gpu!ChainLine
<1>7. CASE l \in [kind : Gpu!Plain, says : {"success", "denied", "other"}]
    BY <1>7 DEF Gpu!Plain, Gpu!ChainLine
<1>2. CASE l \in [kind : {"device"}, index : Indices \cup {None}]
    BY <1>2 DEF Gpu!Plain, Gpu!ChainLine
<1>3. CASE l \in [kind : {"chain"}, name : Chains]
    BY <1>3 DEF Gpu!Plain, Gpu!ChainLine
<1>4. CASE l \in [kind : {"status"}, value : Values, ocsp : Values \cup {None},
                lost : Worded \cup {None}]
    BY <1>4 DEF Gpu!Plain, Gpu!ChainLine
<1>5. CASE l \in [kind : {"ocsp", "expires"}, value : Values]
    BY <1>5 DEF Gpu!Plain, Gpu!ChainLine
<1>6. CASE l \in [kind : {"field"}, name : Fields, value : Values]
    BY <1>6 DEF Gpu!Plain, Gpu!ChainLine
<1> QED
    BY <1>1, <1>2, <1>3, <1>4, <1>5, <1>6, <1>7 DEF Gpu!Lines

\* The greatest element of a set, or 0.
LEMMA LastIs ==
    ASSUME NEW S, S \subseteq Nat, NEW m \in S \cup {0}, \A x \in S : x <= m
    PROVE  Gpu!Last(S) = m
<1>1. m \in S \cup {0} /\ \A y \in S \cup {0} : m >= y
    BY SMT
<1>2. ASSUME NEW x \in S \cup {0}, \A y \in S \cup {0} : x >= y PROVE x = m
    BY <1>1, <1>2, SMT
<1> QED
    BY <1>1, <1>2 DEF Gpu!Last, Gpu!Max

\* It is one of them, and none is greater.
LEMMA LastOf ==
    ASSUME NEW n \in Nat, NEW S, S \subseteq 1..n
    PROVE  /\ Gpu!Last(S) \in S \cup {0}
           /\ \A x \in S : x <= Gpu!Last(S)
<1>1. PICK m \in S \cup {0} : \A x \in S : x <= m
  <2>1. CASE S = {}
    BY <2>1
  <2>2. CASE S # {}
    BY <2>2, Greatest
  <2> QED
    BY <2>1, <2>2
<1>2. Gpu!Last(S) = m
  <2>1. S \subseteq Nat
    OBVIOUS
  <2> QED
    BY <1>1, <2>1, LastIs
<1> QED
    BY <1>1, <1>2

\* The greatest element of a set that is not empty.
LEMMA MaxIs ==
    ASSUME NEW S, S \subseteq Nat, NEW m \in S, \A x \in S : x <= m
    PROVE  Gpu!Max(S) = m
<1>1. \A y \in S : m >= y
    OBVIOUS
<1>2. ASSUME NEW x \in S, \A y \in S : x >= y PROVE x = m
    BY <1>1, <1>2
<1> QED
    BY <1>1, <1>2 DEF Gpu!Max

\* The greatest of some of the first n numbers is one of them.
LEMMA MaxOf ==
    ASSUME NEW n \in Nat, NEW S, S \subseteq 1..n, S # {}
    PROVE  Gpu!Max(S) \in S /\ \A x \in S : x <= Gpu!Max(S)
<1>1. PICK m \in S : \A x \in S : x <= m
    BY Greatest
<1>2. Gpu!Max(S) = m
  <2>1. S \subseteq Nat
    OBVIOUS
  <2> QED
    BY <1>1, <2>1, MaxIs
<1> QED
    BY <1>1, <1>2

-----------------------------------------------------------------------------
(* One more line *)

\* The text u is t with line l after it.
Grown(t, l, u) == t \in Seq(Gpu!Lines) /\ l \in Gpu!Lines /\ u = Append(t, l)

\* A line more leaves the lines before it where they were.
LEMMA GrownText ==
    ASSUME NEW t, NEW l, NEW u, Grown(t, l, u)
    PROVE  /\ Len(t) \in Nat /\ Len(u) = Len(t) + 1
           /\ \A i \in 1..Len(t) : u[i] = t[i]
           /\ u[Len(t) + 1] = l
           /\ u \in Seq(Gpu!Lines)
    BY DEF Grown

\* The device header above a line.
LEMMA DeviceOfIs ==
    ASSUME NEW t, NEW n \in Nat
    PROVE  /\ Gpu!DeviceOf(t, n) \in 0..n
           /\ Gpu!DeviceOf(t, n) # 0 => Gpu!Kind(t, Gpu!DeviceOf(t, n)) = "device"
           /\ \A h \in 1..n : Gpu!Kind(t, h) = "device" => h <= Gpu!DeviceOf(t, n)
<1> DEFINE S == {h \in 1..n : Gpu!Kind(t, h) = "device"}
<1>1. Gpu!Last(S) \in S \cup {0} /\ \A x \in S : x <= Gpu!Last(S)
  <2>1. S \subseteq 1..n
    OBVIOUS
  <2> HIDE DEF S
  <2> QED
    BY <2>1, LastOf
<1> QED
    BY <1>1 DEF Gpu!DeviceOf

\* The chain header above a line, below its device header.
LEMMA ChainOfIs ==
    ASSUME NEW t, NEW n \in Nat
    PROVE  /\ Gpu!ChainOf(t, n) \in 0..n
           /\ Gpu!ChainOf(t, n) # 0 =>
                /\ Gpu!DeviceOf(t, n) <= Gpu!ChainOf(t, n)
                /\ Gpu!Kind(t, Gpu!ChainOf(t, n)) = "chain"
           /\ \A h \in Gpu!DeviceOf(t, n)..n :
                h > 0 /\ Gpu!Kind(t, h) = "chain" => h <= Gpu!ChainOf(t, n)
<1> DEFINE d == Gpu!DeviceOf(t, n)
           S == {h \in d..n : h > 0 /\ Gpu!Kind(t, h) = "chain"}
<1>1. d \in 0..n
    BY DeviceOfIs
<1>2. Gpu!Last(S) \in S \cup {0} /\ \A x \in S : x <= Gpu!Last(S)
  <2>1. S \subseteq 1..n
    BY <1>1
  <2> HIDE DEF S
  <2> QED
    BY <2>1, LastOf
<1>3. Gpu!ChainOf(t, n) = Gpu!Last(S)
    BY DEF Gpu!ChainOf
<1> HIDE DEF d
<1> QED
    BY <1>1, <1>2, <1>3 DEF d

\* The headers above the lines that were there stay the same.
LEMMA HeadersStay ==
    ASSUME NEW t, NEW l, NEW u, Grown(t, l, u), NEW i \in 0..Len(t)
    PROVE  /\ Gpu!DeviceOf(u, i) = Gpu!DeviceOf(t, i)
           /\ Gpu!ChainOf(u, i) = Gpu!ChainOf(t, i)
<1>1. \A h \in 1..i : Gpu!Kind(u, h) = Gpu!Kind(t, h)
    BY GrownText DEF Gpu!Kind
<1>2. {h \in 1..i : Gpu!Kind(u, h) = "device"} = {h \in 1..i : Gpu!Kind(t, h) = "device"}
    BY <1>1
<1>3. Gpu!DeviceOf(u, i) = Gpu!DeviceOf(t, i)
    BY <1>2 DEF Gpu!DeviceOf
<1>4. Gpu!DeviceOf(t, i) \in Nat /\ i \in Nat
    BY DeviceOfIs, GrownText
<1>5. {h \in Gpu!DeviceOf(t, i)..i : h > 0 /\ Gpu!Kind(u, h) = "chain"}
        = {h \in Gpu!DeviceOf(t, i)..i : h > 0 /\ Gpu!Kind(t, h) = "chain"}
    BY <1>1, <1>4
<1> QED
    BY <1>3, <1>5 DEF Gpu!ChainOf

\* Those above the new line.
LEMMA HeadersNew ==
    ASSUME NEW t, NEW l, NEW u, Grown(t, l, u), NEW n, n = Len(t)
    PROVE  /\ Gpu!DeviceOf(u, n + 1) = IF l.kind = "device" THEN n + 1 ELSE Gpu!DeviceOf(t, n)
           /\ Gpu!ChainOf(u, n + 1) = IF l.kind = "chain" THEN n + 1
                                      ELSE IF l.kind = "device" THEN 0 ELSE Gpu!ChainOf(t, n)
<1>1. n \in Nat /\ (\A h \in 1..n : Gpu!Kind(u, h) = Gpu!Kind(t, h)) /\ Gpu!Kind(u, n + 1) = l.kind
    BY GrownText DEF Gpu!Kind
<1> DEFINE d == Gpu!DeviceOf(t, n)
           c == Gpu!ChainOf(t, n)
           e == IF l.kind = "device" THEN n + 1 ELSE d
           D == {h \in 1..(n + 1) : Gpu!Kind(u, h) = "device"}
           C == {h \in e..(n + 1) : h > 0 /\ Gpu!Kind(u, h) = "chain"}
           b == IF l.kind = "chain" THEN n + 1 ELSE IF l.kind = "device" THEN 0 ELSE c
<1>2. /\ d \in 0..n /\ (d # 0 => Gpu!Kind(t, d) = "device")
      /\ \A h \in 1..n : Gpu!Kind(t, h) = "device" => h <= d
    BY <1>1, DeviceOfIs
<1>3. /\ c \in 0..n /\ (c # 0 => d <= c /\ Gpu!Kind(t, c) = "chain")
      /\ \A h \in d..n : h > 0 /\ Gpu!Kind(t, h) = "chain" => h <= c
    BY <1>1, ChainOfIs
<1>4. Gpu!DeviceOf(u, n + 1) = Gpu!Last(D)
    BY DEF Gpu!DeviceOf
<1> HIDE DEF d, c
<1>5. e \in D \cup {0} /\ \A x \in D : x <= e
  <2>1. CASE l.kind = "device"
    BY <1>1, <2>1
  <2>2. CASE l.kind # "device"
    <3>1. \A x \in D : x \in 1..n /\ Gpu!Kind(t, x) = "device"
      BY <1>1, <2>2
    <3> QED
      BY <1>1, <1>2, <2>2, <3>1
  <2> QED
    BY <2>1, <2>2
<1>6. Gpu!Last(D) = e
  <2>1. D \subseteq Nat
    BY <1>1
  <2> HIDE DEF D, e
  <2> QED
    BY <1>5, <2>1, LastIs
<1>7. Gpu!ChainOf(u, n + 1) = Gpu!Last(C)
    BY <1>4, <1>6 DEF Gpu!ChainOf
<1>8. b \in C \cup {0} /\ \A x \in C : x <= b
  <2>1. CASE l.kind = "chain"
    BY <1>1, <1>2, <2>1
  <2>2. CASE l.kind = "device"
    BY <1>1, <2>2
  <2>3. CASE l.kind \notin {"chain", "device"}
    <3>1. \A x \in C : x \in d..n /\ x > 0 /\ Gpu!Kind(t, x) = "chain"
      BY <1>1, <1>2, <2>3
    <3>2. b = c /\ e = d
      BY <2>3
    <3>3. c # 0 => c \in C
      BY <1>1, <1>2, <1>3, <3>2
    <3> QED
      BY <1>3, <3>1, <3>2, <3>3
  <2> QED
    BY <2>1, <2>2, <2>3
<1>9. Gpu!Last(C) = b
  <2>1. C \subseteq Nat
    BY <1>1, <1>2
  <2> HIDE DEF C, b
  <2> QED
    BY <1>8, <2>1, LastIs
<1> QED
    BY <1>4, <1>6, <1>7, <1>9 DEF d, c

-----------------------------------------------------------------------------
(* What the lines of a device say *)

\* Some lines of a text.
Among(S, t) == S \subseteq 1..Len(t)

\* The last of some lines, before and after the text has grown; with the new
\* line among them, that is the last.
LastLine(t, l, u, S) ==
    /\ S # {} => u[Gpu!Max(S)] = t[Gpu!Max(S)]
    /\ S \cup {Len(t) + 1} # {}
    /\ u[Gpu!Max(S \cup {Len(t) + 1})] = l

\* The new line is the last of any lines it is added to.
LEMMA NewIsLast ==
    ASSUME NEW t, NEW l, NEW u, Grown(t, l, u), NEW S, Among(S, t)
    PROVE  LastLine(t, l, u, S)
<1>1. Len(t) \in Nat
    BY GrownText
<1>2. S \subseteq 1..Len(t)
    BY DEF Among
<1>3. (\A i \in 1..Len(t) : u[i] = t[i]) /\ u[Len(t) + 1] = l
    BY GrownText
<1>4. S # {} => Gpu!Max(S) \in 1..Len(t)
    BY <1>1, <1>2, MaxOf
<1> DEFINE n == Len(t) + 1
           R == S \cup {n}
<1>5. R \subseteq Nat /\ n \in R /\ \A x \in R : x <= n
  <2>1. \A m \in Nat : S \subseteq 1..m =>
            S \cup {m + 1} \subseteq Nat /\ \A x \in S \cup {m + 1} : x <= m + 1
    OBVIOUS
  <2> QED
    BY <1>1, <1>2, <2>1
<1>6. Gpu!Max(R) = n
  <2> HIDE DEF n, R
  <2> QED
    BY <1>5, MaxIs
<1>7. S # {} => u[Gpu!Max(S)] = t[Gpu!Max(S)]
    BY <1>3, <1>4
<1>8. u[Gpu!Max(R)] = l
    BY <1>3, <1>6
<1> QED
    BY <1>5, <1>7, <1>8, Zenon DEF LastLine

\* The last value of a set of lines: that of the text before, or the new one.
LastValues(t, l, u, S) ==
    /\ Gpu!LastValue(u, S) = Gpu!LastValue(t, S)
    /\ Gpu!LastValue(u, S \cup {Len(t) + 1}) = l.value

\* The last value of some lines stays, and the new line's replaces it.
LEMMA ValueGrows ==
    ASSUME NEW t, NEW l, NEW u, Grown(t, l, u), NEW S, Among(S, t)
    PROVE  LastValues(t, l, u, S)
<1>1. LastLine(t, l, u, S)
    BY NewIsLast
<1> QED
    BY <1>1, Zenon DEF LastLine, LastValues, Gpu!LastValue

\* The lines of a chain that give its OCSP result, and what the last gives.
SaysOcsp(l) == l.kind = "ocsp" \/ (l.kind = "status" /\ l.ocsp # None)
OcspOf(l) == IF l.kind = "ocsp" THEN l.value ELSE l.ocsp
OcspLines(t, P) == {i \in P : SaysOcsp(t[i])}
OcspValue(t, S) == IF S = {} THEN None ELSE OcspOf(t[Gpu!Max(S)])
KindLines(t, P, kind) == {i \in P : Gpu!Kind(t, i) = kind}

\* What the lines of a chain say, with its lines named by their class.
LEMMA ChainSays ==
    ASSUME NEW t, NEW P
    PROVE  Gpu!RefChain(t, P) =
             [status |-> Gpu!LastValue(t, KindLines(t, P, "status")),
              ocsp |-> OcspValue(t, OcspLines(t, P)),
              expires |-> Gpu!LastValue(t, KindLines(t, P, "expires"))]
    BY DEF Gpu!RefChain, OcspLines, OcspValue, OcspOf, KindLines, Gpu!Kind, SaysOcsp

OcspValues(t, l, u, S) ==
    /\ OcspValue(u, S) = OcspValue(t, S)
    /\ OcspValue(u, S \cup {Len(t) + 1}) = OcspOf(l)

\* The last OCSP result of some lines stays, and the new line's replaces it.
LEMMA OcspGrows ==
    ASSUME NEW t, NEW l, NEW u, Grown(t, l, u), NEW S, Among(S, t)
    PROVE  OcspValues(t, l, u, S)
<1>1. LastLine(t, l, u, S)
    BY NewIsLast
<1> QED
    BY <1>1, Zenon DEF LastLine, OcspValues, OcspValue

\* The lines of a class among those of a chain, with the new line.
ClassGrown(t, l, u, P, kind) ==
    /\ Among(KindLines(t, P, kind), t)
    /\ KindLines(u, P, kind) = KindLines(t, P, kind)
    /\ KindLines(u, P \cup {Len(t) + 1}, kind)
         = IF l.kind = kind THEN KindLines(t, P, kind) \cup {Len(t) + 1} ELSE KindLines(t, P, kind)
OcspGrown(t, l, u, P) ==
    /\ Among(OcspLines(t, P), t)
    /\ OcspLines(u, P) = OcspLines(t, P)
    /\ OcspLines(u, P \cup {Len(t) + 1})
         = IF SaysOcsp(l) THEN OcspLines(t, P) \cup {Len(t) + 1} ELSE OcspLines(t, P)
\* A line joins the lines of its own class, and the OCSP lines if it gives a
\* result.
LEMMA LinesGrow ==
    ASSUME NEW t, NEW l, NEW u, Grown(t, l, u), NEW P, Among(P, t)
    PROVE  (\A kind : ClassGrown(t, l, u, P, kind)) /\ OcspGrown(t, l, u, P)
<1>1. /\ \A i \in P : u[i] = t[i] /\ Gpu!Kind(u, i) = Gpu!Kind(t, i)
      /\ u[Len(t) + 1] = l /\ Gpu!Kind(u, Len(t) + 1) = l.kind
    BY GrownText DEF Gpu!Kind, Among
<1>2. ASSUME NEW kind PROVE ClassGrown(t, l, u, P, kind)
  <2>1. /\ Among(KindLines(t, P, kind), t)
        /\ KindLines(u, P, kind) = KindLines(t, P, kind)
    BY <1>1 DEF KindLines, Among
  <2>2. KindLines(u, P \cup {Len(t) + 1}, kind)
          = IF l.kind = kind THEN KindLines(t, P, kind) \cup {Len(t) + 1} ELSE KindLines(t, P, kind)
    BY <1>1 DEF KindLines
  <2> QED
    BY <2>1, <2>2 DEF ClassGrown
<1>3. OcspGrown(t, l, u, P)
  <2>1. Among(OcspLines(t, P), t) /\ OcspLines(u, P) = OcspLines(t, P)
    BY <1>1 DEF OcspLines, Among
  <2>2. OcspLines(u, P \cup {Len(t) + 1})
          = IF SaysOcsp(l) THEN OcspLines(t, P) \cup {Len(t) + 1} ELSE OcspLines(t, P)
    BY <1>1 DEF OcspLines
  <2> QED
    BY <2>1, <2>2 DEF OcspGrown
<1> QED
    BY <1>2, <1>3

\* An entry after the line l of its chain.
Updated(e, l) ==
    [status |-> IF l.kind = "status" THEN l.value ELSE e.status,
     ocsp |-> IF SaysOcsp(l) THEN OcspOf(l) ELSE e.ocsp,
     expires |-> IF l.kind = "expires" THEN l.value ELSE e.expires]

ChainGrown(t, l, u, P) ==
    /\ Gpu!RefChain(u, P) = Gpu!RefChain(t, P)
    /\ Gpu!RefChain(u, P \cup {Len(t) + 1}) = Updated(Gpu!RefChain(t, P), l)

\* A line below a chain updates what the chain's lines say.
LEMMA ChainGrows ==
    ASSUME NEW t, NEW l, NEW u, Grown(t, l, u), NEW P, Among(P, t)
    PROVE  ChainGrown(t, l, u, P)
<1> DEFINE more == P \cup {Len(t) + 1}
           v(k) == Gpu!LastValue(t, KindLines(t, P, k))
           o == OcspValue(t, OcspLines(t, P))
<1>1. ASSUME NEW k
      PROVE  /\ Gpu!LastValue(u, KindLines(u, P, k)) = v(k)
             /\ Gpu!LastValue(u, KindLines(u, more, k)) = IF l.kind = k THEN l.value ELSE v(k)
  <2>1. ClassGrown(t, l, u, P, k)
    BY LinesGrow
  <2>2. LastValues(t, l, u, KindLines(t, P, k))
    BY <2>1, ValueGrows DEF ClassGrown
  <2> QED
    BY <2>1, <2>2, Zenon DEF ClassGrown, LastValues
<1>2. /\ OcspValue(u, OcspLines(u, P)) = o
      /\ OcspValue(u, OcspLines(u, more)) = IF SaysOcsp(l) THEN OcspOf(l) ELSE o
  <2>1. OcspGrown(t, l, u, P)
    BY LinesGrow
  <2>2. OcspValues(t, l, u, OcspLines(t, P))
    BY <2>1, OcspGrows DEF OcspGrown
  <2> QED
    BY <2>1, <2>2, Zenon DEF OcspGrown, OcspValues
<1>3. Gpu!RefChain(t, P) = [status |-> v("status"), ocsp |-> o, expires |-> v("expires")]
    BY ChainSays
<1>4. Gpu!RefChain(u, P) = [status |-> v("status"), ocsp |-> o, expires |-> v("expires")]
    BY <1>1, <1>2, ChainSays, Zenon
<1>5. Gpu!RefChain(u, more)
        = [status |-> IF l.kind = "status" THEN l.value ELSE v("status"),
           ocsp |-> IF SaysOcsp(l) THEN OcspOf(l) ELSE o,
           expires |-> IF l.kind = "expires" THEN l.value ELSE v("expires")]
    BY <1>1, <1>2, ChainSays, Zenon
<1>6. Gpu!RefChain(u, more) = Updated(Gpu!RefChain(t, P), l)
  <2> HIDE DEF v, o, more
  <2> QED
    BY <1>3, <1>5 DEF Updated
<1> QED
    BY <1>3, <1>4, <1>6, Zenon DEF ChainGrown

-----------------------------------------------------------------------------
(* The lines of a device, and those of its chains *)

Below(t, h) == {i \in 1..Len(t) : Gpu!DeviceOf(t, i) = h}
FieldLines(t, h, f) == {i \in Below(t, h) : Gpu!Kind(t, i) = "field" /\ t[i].name = f}
NamesIn(t, h) == {t[i].name : i \in {j \in Below(t, h) : Gpu!Kind(t, j) = "chain"}}
Stands(t, i, c) == Gpu!ChainOf(t, i) # 0 /\ t[Gpu!ChainOf(t, i)].name = c
PartOf(t, h, c) == {i \in Below(t, h) : Stands(t, i, c)}
FieldsOf(t, h) == [f \in Fields |-> Gpu!LastValue(t, FieldLines(t, h, f))]
ChainsOf(t, h) == [c \in NamesIn(t, h) |-> Gpu!RefChain(t, PartOf(t, h, c))]
IndexOf(t, h, k) == IF t[h].index = None THEN k - 1 ELSE t[h].index

\* What the reference reading says of a device, with its parts named.
LEMMA DeviceSays ==
    ASSUME NEW t, NEW h, NEW k
    PROVE  Gpu!RefDevice(t, h, k) =
             [index |-> IndexOf(t, h, k), fields |-> FieldsOf(t, h), cert_chains |-> ChainsOf(t, h)]
    BY DEF Gpu!RefDevice, Below, FieldLines, NamesIn, Stands, PartOf, FieldsOf, ChainsOf, IndexOf

\* Whether the new line is below header h.
NewBelow(t, l, h) == l.kind # "device" /\ Gpu!DeviceOf(t, Len(t)) = h

BelowGrown(t, l, u, h) ==
    /\ Among(Below(t, h), t)
    /\ Below(u, h) = IF NewBelow(t, l, h) THEN Below(t, h) \cup {Len(t) + 1} ELSE Below(t, h)

\* A line stands below the last header, unless it is a header itself.
LEMMA BelowGrows ==
    ASSUME NEW t, NEW l, NEW u, Grown(t, l, u), NEW h \in 1..Len(t)
    PROVE  BelowGrown(t, l, u, h)
<1> DEFINE n == Len(t)
<1>1. n \in Nat /\ Len(u) = n + 1
    BY GrownText
<1>2. \A i \in 1..n : Gpu!DeviceOf(u, i) = Gpu!DeviceOf(t, i)
    BY <1>1, HeadersStay
<1>3. Gpu!DeviceOf(u, n + 1) = h <=> NewBelow(t, l, h)
    BY <1>1, HeadersNew DEF NewBelow
<1>4. Among(Below(t, h), t)
    BY DEF Among, Below
<1> QED
    BY <1>1, <1>2, <1>3, <1>4 DEF Below, BelowGrown

\* The device-level fields after the new line.
FieldsGrown(t, l, u, h) ==
    FieldsOf(u, h) = [f \in Fields |-> IF NewBelow(t, l, h) /\ l.kind = "field" /\ l.name = f
                                       THEN l.value ELSE FieldsOf(t, h)[f]]

\* A device line sets its own field of the device it stands below.
LEMMA FieldsGrow ==
    ASSUME NEW t, NEW l, NEW u, Grown(t, l, u), NEW h \in 1..Len(t)
    PROVE  FieldsGrown(t, l, u, h)
<1> DEFINE n == Len(t)
           now(f) == NewBelow(t, l, h) /\ l.kind = "field" /\ l.name = f
<1>1. Among(Below(t, h), t) /\ BelowGrown(t, l, u, h)
    BY BelowGrows DEF BelowGrown
<1>2. /\ \A i \in Below(t, h) : u[i] = t[i] /\ Gpu!Kind(u, i) = Gpu!Kind(t, i)
      /\ u[n + 1] = l /\ Gpu!Kind(u, n + 1) = l.kind
    BY <1>1, GrownText DEF Gpu!Kind, Among
<1>3. ASSUME NEW f
      PROVE  /\ Among(FieldLines(t, h, f), t)
             /\ FieldLines(u, h, f) = IF now(f) THEN FieldLines(t, h, f) \cup {n + 1}
                                      ELSE FieldLines(t, h, f)
  <2>1. Among(FieldLines(t, h, f), t)
    BY <1>1 DEF FieldLines, Among
  <2>2. CASE NewBelow(t, l, h)
    <3>1. Below(u, h) = Below(t, h) \cup {n + 1}
      BY <1>1, <2>2 DEF BelowGrown
    <3> QED
      BY <1>2, <2>1, <2>2, <3>1 DEF FieldLines
  <2>3. CASE ~NewBelow(t, l, h)
    <3>1. Below(u, h) = Below(t, h)
      BY <1>1, <2>3 DEF BelowGrown
    <3> QED
      BY <1>2, <2>1, <2>3, <3>1 DEF FieldLines
  <2> QED
    BY <2>2, <2>3
<1>4. ASSUME NEW f
      PROVE  Gpu!LastValue(u, FieldLines(u, h, f))
               = IF now(f) THEN l.value ELSE Gpu!LastValue(t, FieldLines(t, h, f))
  <2>1. LastValues(t, l, u, FieldLines(t, h, f))
    BY <1>3, ValueGrows
  <2> QED
    BY <1>3, <2>1, Zenon DEF LastValues
<1>5. \A f \in Fields : FieldsOf(t, h)[f] = Gpu!LastValue(t, FieldLines(t, h, f))
    BY DEF FieldsOf
<1> HIDE DEF now
<1>6. FieldsOf(u, h) = [f \in Fields |-> IF now(f) THEN l.value ELSE FieldsOf(t, h)[f]]
    BY <1>4, <1>5 DEF FieldsOf
<1> QED
    BY <1>6 DEF FieldsGrown, now

\* The chain that the new line stands below, as far as it is one of device h.
NewStands(t, l, c) == IF l.kind = "chain" THEN l.name = c ELSE Stands(t, Len(t), c)
NewIn(t, l, h, c) == NewBelow(t, l, h) /\ NewStands(t, l, c)

PartGrown(t, l, u, h, c) ==
    /\ Among(PartOf(t, h, c), t)
    /\ PartOf(u, h, c) = IF NewIn(t, l, h, c) THEN PartOf(t, h, c) \cup {Len(t) + 1}
                         ELSE PartOf(t, h, c)

\* A line joins the lines of the chain it stands below.
LEMMA PartGrows ==
    ASSUME NEW t, NEW l, NEW u, Grown(t, l, u), NEW h \in 1..Len(t), NEW c
    PROVE  PartGrown(t, l, u, h, c)
<1> DEFINE n == Len(t)
<1>1. Among(Below(t, h), t) /\ BelowGrown(t, l, u, h)
    BY BelowGrows DEF BelowGrown
<1>2. n \in Nat /\ (\A i \in 1..n : u[i] = t[i]) /\ u[n + 1] = l
    BY GrownText
<1>3. ASSUME NEW i \in 1..n PROVE Stands(u, i, c) <=> Stands(t, i, c)
  <2>1. Gpu!ChainOf(u, i) = Gpu!ChainOf(t, i)
    BY <1>2, HeadersStay
  <2>2. Gpu!ChainOf(t, i) # 0 => Gpu!ChainOf(t, i) \in 1..n
    <3>1. i \in Nat
      BY <1>2
    <3>2. Gpu!ChainOf(t, i) \in 0..i
      BY <3>1, ChainOfIs
    <3> QED
      BY <1>2, <3>2
  <2> QED
    BY <1>2, <2>1, <2>2 DEF Stands
<1>4. NewBelow(t, l, h) => (Stands(u, n + 1, c) <=> NewStands(t, l, c))
  <2> SUFFICES ASSUME NewBelow(t, l, h) PROVE Stands(u, n + 1, c) <=> NewStands(t, l, c)
    OBVIOUS
  <2>1. Gpu!ChainOf(u, n + 1) = IF l.kind = "chain" THEN n + 1 ELSE Gpu!ChainOf(t, n)
    BY HeadersNew DEF NewBelow
  <2>2. CASE l.kind = "chain"
    BY <1>2, <2>1, <2>2 DEF Stands, NewStands
  <2>3. CASE l.kind # "chain"
    <3>1. Gpu!ChainOf(t, n) # 0 => Gpu!ChainOf(t, n) \in 1..n
      <4>1. Gpu!ChainOf(t, n) \in 0..n
        BY <1>2, ChainOfIs
      <4> QED
        BY <1>2, <4>1
    <3> QED
      BY <1>2, <2>1, <2>3, <3>1 DEF Stands, NewStands
  <2> QED
    BY <2>2, <2>3
<1>5. Among(PartOf(t, h, c), t)
    BY <1>1 DEF PartOf, Among
<1>6. \A i \in Below(t, h) : Stands(u, i, c) <=> Stands(t, i, c)
    BY <1>1, <1>3 DEF Among
<1>7. PartOf(u, h, c) = IF NewIn(t, l, h, c) THEN PartOf(t, h, c) \cup {n + 1} ELSE PartOf(t, h, c)
  <2>1. CASE NewBelow(t, l, h)
    <3>1. Below(u, h) = Below(t, h) \cup {n + 1}
      BY <1>1, <2>1 DEF BelowGrown
    <3>2. Stands(u, n + 1, c) <=> NewIn(t, l, h, c)
      BY <1>4, <2>1 DEF NewIn
    <3> HIDE DEF n
    <3> QED
      BY <1>6, <3>1, <3>2 DEF PartOf
  <2>2. CASE ~NewBelow(t, l, h)
    <3>1. Below(u, h) = Below(t, h) /\ ~NewIn(t, l, h, c)
      BY <1>1, <2>2 DEF BelowGrown, NewIn
    <3> QED
      BY <1>6, <3>1 DEF PartOf
  <2> QED
    BY <2>1, <2>2
<1> QED
    BY <1>5, <1>7 DEF PartGrown

\* The names of a device's chains after the new line.
NamesGrown(t, l, u, h) ==
    NamesIn(u, h) = IF NewBelow(t, l, h) /\ l.kind = "chain" THEN NamesIn(t, h) \cup {l.name}
                    ELSE NamesIn(t, h)

\* A chain header adds its name to the chains of its device.
LEMMA NamesGrow ==
    ASSUME NEW t, NEW l, NEW u, Grown(t, l, u), NEW h \in 1..Len(t)
    PROVE  NamesGrown(t, l, u, h)
<1> DEFINE n == Len(t)
<1>1. Among(Below(t, h), t) /\ BelowGrown(t, l, u, h)
    BY BelowGrows DEF BelowGrown
<1>2. /\ \A i \in Below(t, h) : u[i] = t[i] /\ Gpu!Kind(u, i) = Gpu!Kind(t, i)
      /\ u[n + 1] = l /\ Gpu!Kind(u, n + 1) = l.kind
    BY <1>1, GrownText DEF Gpu!Kind, Among
<1>3. CASE NewBelow(t, l, h)
  <2>1. Below(u, h) = Below(t, h) \cup {n + 1}
    BY <1>1, <1>3 DEF BelowGrown
  <2> HIDE DEF n
  <2>2. CASE l.kind = "chain"
    <3>1. NamesIn(u, h) = NamesIn(t, h) \cup {l.name}
      BY <1>2, <2>1, <2>2 DEF NamesIn
    <3> QED
      BY <1>3, <2>2, <3>1 DEF NamesGrown
  <2>3. CASE l.kind # "chain"
    <3>1. NamesIn(u, h) = NamesIn(t, h)
      BY <1>2, <2>1, <2>3 DEF NamesIn
    <3> QED
      BY <2>3, <3>1 DEF NamesGrown
  <2> QED
    BY <2>2, <2>3
<1>4. CASE ~NewBelow(t, l, h)
  <2>1. Below(u, h) = Below(t, h)
    BY <1>1, <1>4 DEF BelowGrown
  <2>2. NamesIn(u, h) = NamesIn(t, h)
    BY <1>2, <2>1 DEF NamesIn
  <2> QED
    BY <1>4, <2>2 DEF NamesGrown
<1> QED
    BY <1>3, <1>4

\* No line of a device stands below a chain that the device does not have.
LEMMA NoChainNoLines ==
    ASSUME NEW t, Len(t) \in Nat, NEW h \in 1..Len(t), NEW c, c \notin NamesIn(t, h)
    PROVE  PartOf(t, h, c) = {}
<1> SUFFICES ASSUME NEW i \in PartOf(t, h, c) PROVE c \in NamesIn(t, h)
    OBVIOUS
<1> DEFINE k == Gpu!ChainOf(t, i)
<1>1. i \in 1..Len(t) /\ Gpu!DeviceOf(t, i) = h /\ k # 0 /\ t[k].name = c /\ i \in Nat
    BY DEF PartOf, Below, Stands
<1>2. k \in 0..i /\ h <= k /\ Gpu!Kind(t, k) = "chain"
    BY <1>1, ChainOfIs
<1>3. Gpu!Kind(t, h) = "device" /\ \A g \in 1..i : Gpu!Kind(t, g) = "device" => g <= h
    BY <1>1, DeviceOfIs
<1> HIDE DEF k
<1>4. k \in 1..Len(t)
    BY <1>1, <1>2
<1>5. Gpu!DeviceOf(t, k) = h
  <2> DEFINE S == {g \in 1..k : Gpu!Kind(t, g) = "device"}
  <2>1. S \subseteq Nat /\ h \in S \cup {0} /\ \A x \in S : x <= h
    BY <1>1, <1>2, <1>3, <1>4
  <2> HIDE DEF S
  <2>2. Gpu!Last(S) = h
    BY <2>1, LastIs
  <2> QED
    BY <2>2 DEF S, Gpu!DeviceOf
<1> QED
    BY <1>1, <1>2, <1>4, <1>5 DEF NamesIn, Below

\* The entry of a chain, or the one that its header creates.
EntryOf(t, h, c) == IF c \in NamesIn(t, h) THEN ChainsOf(t, h)[c] ELSE Gpu!EmptyChain

\* A chain without a header is read as the entry its header would create.
LEMMA EntryIs ==
    ASSUME NEW t, Len(t) \in Nat, NEW h \in 1..Len(t), NEW c
    PROVE  Gpu!RefChain(t, PartOf(t, h, c)) = EntryOf(t, h, c)
<1>1. CASE c \in NamesIn(t, h)
    BY <1>1 DEF EntryOf, ChainsOf
<1>2. CASE c \notin NamesIn(t, h)
  <2>1. PartOf(t, h, c) = {}
    BY <1>2, NoChainNoLines
  <2>2. Gpu!RefChain(t, {}) = Gpu!EmptyChain
    <3>1. OcspLines(t, {}) = {} /\ \A k : KindLines(t, {}, k) = {}
      BY DEF OcspLines, KindLines
    <3>2. OcspValue(t, {}) = None /\ Gpu!LastValue(t, {}) = None
      BY DEF OcspValue, Gpu!LastValue
    <3> QED
      BY <3>1, <3>2, ChainSays, Zenon DEF Gpu!EmptyChain
  <2> QED
    BY <1>2, <2>1, <2>2 DEF EntryOf
<1> QED
    BY <1>1, <1>2

\* The chains of a device after the new line.
ChainsGrown(t, l, u, h) ==
    ChainsOf(u, h) = [c \in NamesIn(u, h) |->
        IF NewIn(t, l, h, c) THEN Updated(EntryOf(t, h, c), l) ELSE EntryOf(t, h, c)]

\* A line updates the chain it stands below and no other.
LEMMA ChainsGrow ==
    ASSUME NEW t, NEW l, NEW u, Grown(t, l, u), NEW h \in 1..Len(t)
    PROVE  ChainsGrown(t, l, u, h)
<1>1. Len(t) \in Nat
    BY GrownText
<1>2. ASSUME NEW c
      PROVE  Gpu!RefChain(u, PartOf(u, h, c))
               = IF NewIn(t, l, h, c) THEN Updated(EntryOf(t, h, c), l) ELSE EntryOf(t, h, c)
  <2>1. PartGrown(t, l, u, h, c)
    BY PartGrows
  <2>2. ChainGrown(t, l, u, PartOf(t, h, c))
    BY <2>1, ChainGrows DEF PartGrown
  <2>3. Gpu!RefChain(t, PartOf(t, h, c)) = EntryOf(t, h, c)
    BY <1>1, EntryIs
  <2> QED
    BY <2>1, <2>2, <2>3, Zenon DEF PartGrown, ChainGrown
<1> QED
    BY <1>2 DEF ChainsOf, ChainsGrown

-----------------------------------------------------------------------------
(* A device after one more line *)

\* An entry is a record of its three fields.
LEMMA EntryFields ==
    ASSUME NEW t, Len(t) \in Nat, NEW h \in 1..Len(t), NEW c, NEW l, NEW e, e = EntryOf(t, h, c)
    PROVE  /\ e = [status |-> e.status, ocsp |-> e.ocsp, expires |-> e.expires]
           /\ l.kind \notin Gpu!ChainLine => Updated(e, l) = e
<1>1. e = [status |-> e.status, ocsp |-> e.ocsp, expires |-> e.expires]
  <2>1. Gpu!RefChain(t, PartOf(t, h, c)) = e
    BY EntryIs
  <2> QED
    BY <2>1, ChainSays
<1> QED
    BY <1>1 DEF Updated, SaysOcsp, Gpu!ChainLine

\* A device keeps its index when the text grows.
LEMMA IndexStays ==
    ASSUME NEW t, NEW l, NEW u, Grown(t, l, u), NEW h \in 1..Len(t), NEW k
    PROVE  IndexOf(u, h, k) = IndexOf(t, h, k)
    BY GrownText DEF IndexOf

\* A line that is no key of the device, nor of a chain, leaves it as it is, as
\* does one of another device.
LEMMA DeviceStays ==
    ASSUME NEW t, NEW l, NEW u, Grown(t, l, u), NEW h \in 1..Len(t), NEW k,
           \/ ~NewBelow(t, l, h)
           \/ l.kind \notin {"field", "chain"} /\ (l.kind \in Gpu!ChainLine => Gpu!ChainOf(t, Len(t)) = 0)
    PROVE  Gpu!RefDevice(u, h, k) = Gpu!RefDevice(t, h, k)
<1>1. FieldsOf(u, h) = FieldsOf(t, h)
  <2>1. \A f : ~(NewBelow(t, l, h) /\ l.kind = "field" /\ l.name = f)
    OBVIOUS
  <2>2. FieldsOf(u, h) = [f \in Fields |-> FieldsOf(t, h)[f]]
    BY <2>1, FieldsGrow DEF FieldsGrown
  <2> QED
    BY <2>2 DEF FieldsOf
<1>2. NamesIn(u, h) = NamesIn(t, h)
  <2>1. ~(NewBelow(t, l, h) /\ l.kind = "chain")
    OBVIOUS
  <2> QED
    BY <2>1, NamesGrow DEF NamesGrown
<1>3. ASSUME NEW c \in NamesIn(t, h)
      PROVE  (IF NewIn(t, l, h, c) THEN Updated(EntryOf(t, h, c), l) ELSE EntryOf(t, h, c))
                = ChainsOf(t, h)[c]
  <2>1. EntryOf(t, h, c) = ChainsOf(t, h)[c]
    BY DEF EntryOf
  <2>2. NewIn(t, l, h, c) => l.kind \notin Gpu!ChainLine
    BY DEF NewIn, NewStands, Stands, Gpu!ChainLine
  <2>3. Len(t) \in Nat
    BY GrownText
  <2> QED
    BY <2>1, <2>2, <2>3, EntryFields
<1>4. ChainsOf(u, h) = ChainsOf(t, h)
  <2>1. ChainsOf(u, h) = [c \in NamesIn(t, h) |->
            IF NewIn(t, l, h, c) THEN Updated(EntryOf(t, h, c), l) ELSE EntryOf(t, h, c)]
    BY <1>2, ChainsGrow DEF ChainsGrown
  <2>2. ChainsOf(u, h) = [c \in NamesIn(t, h) |-> ChainsOf(t, h)[c]]
    BY <1>3, <2>1
  <2> QED
    BY <2>2 DEF ChainsOf
<1>5. IndexOf(u, h, k) = IndexOf(t, h, k)
    BY IndexStays
<1> QED
    BY <1>1, <1>4, <1>5, DeviceSays, Zenon

\* A known key of the device sets its field.
LEMMA DeviceFieldRead ==
    ASSUME NEW t, NEW l, NEW u, Grown(t, l, u), NEW h \in 1..Len(t), NEW k,
           NewBelow(t, l, h), l.kind = "field"
    PROVE  Gpu!RefDevice(u, h, k) = [Gpu!RefDevice(t, h, k) EXCEPT !.fields[l.name] = l.value]
<1>1. FieldsOf(u, h) = [FieldsOf(t, h) EXCEPT ![l.name] = l.value]
  <2>1. FieldsOf(u, h) = [f \in Fields |-> IF l.name = f THEN l.value ELSE FieldsOf(t, h)[f]]
    BY FieldsGrow DEF FieldsGrown
  <2> QED
    BY <2>1 DEF FieldsOf
<1>2. NamesIn(u, h) = NamesIn(t, h)
    BY NamesGrow DEF NamesGrown
<1>3. Len(t) \in Nat
    BY GrownText
<1>4. ChainsOf(u, h) = ChainsOf(t, h)
  <2>1. ChainsOf(u, h) = [c \in NamesIn(t, h) |->
            IF NewIn(t, l, h, c) THEN Updated(EntryOf(t, h, c), l) ELSE EntryOf(t, h, c)]
    BY <1>2, ChainsGrow DEF ChainsGrown
  <2>2. l.kind \notin Gpu!ChainLine
    BY DEF Gpu!ChainLine
  <2>3. \A c \in NamesIn(t, h) : Updated(EntryOf(t, h, c), l) = ChainsOf(t, h)[c]
                                 /\ EntryOf(t, h, c) = ChainsOf(t, h)[c]
    BY <1>3, <2>2, EntryFields DEF EntryOf
  <2>4. ChainsOf(u, h) = [c \in NamesIn(t, h) |-> ChainsOf(t, h)[c]]
    BY <2>1, <2>3
  <2> QED
    BY <2>4 DEF ChainsOf
<1>5. IndexOf(u, h, k) = IndexOf(t, h, k)
    BY IndexStays
<1> DEFINE i == IndexOf(t, h, k)
           F == FieldsOf(t, h)
           C == ChainsOf(t, h)
<1>6. /\ Gpu!RefDevice(t, h, k) = [index |-> i, fields |-> F, cert_chains |-> C]
      /\ Gpu!RefDevice(u, h, k) = [index |-> i, fields |-> [F EXCEPT ![l.name] = l.value],
                                   cert_chains |-> C]
    BY <1>1, <1>4, <1>5, DeviceSays, Zenon
<1> HIDE DEF i, F, C
<1> QED
    BY <1>6

\* A device after a chain header, and after a key of a chain.
WithHeader(d, n) ==
    [d EXCEPT !.cert_chains =
       [c \in DOMAIN @ \cup {n} |-> IF c \in DOMAIN @ THEN @[c] ELSE Gpu!EmptyChain]]
WithEntry(d, c, l) == [d EXCEPT !.cert_chains[c] = Updated(@, l)]

\* A chain header makes the entry of its chain, unless it is there.
LEMMA ChainHeaderRead ==
    ASSUME NEW t, NEW l, NEW u, Grown(t, l, u), NEW h \in 1..Len(t), NEW k,
           NewBelow(t, l, h), l.kind = "chain"
    PROVE  Gpu!RefDevice(u, h, k) = WithHeader(Gpu!RefDevice(t, h, k), l.name)
<1>1. FieldsOf(u, h) = FieldsOf(t, h)
  <2>1. FieldsOf(u, h) = [f \in Fields |-> FieldsOf(t, h)[f]]
    BY FieldsGrow DEF FieldsGrown
  <2> QED
    BY <2>1 DEF FieldsOf
<1>2. NamesIn(u, h) = NamesIn(t, h) \cup {l.name} /\ NamesIn(t, h) = DOMAIN ChainsOf(t, h)
    BY NamesGrow DEF NamesGrown, ChainsOf
<1>3. Len(t) \in Nat
    BY GrownText
<1> DEFINE i == IndexOf(t, h, k)
           F == FieldsOf(t, h)
           C == ChainsOf(t, h)
<1>4. ChainsOf(u, h) = [c \in DOMAIN C \cup {l.name} |->
                          IF c \in DOMAIN C THEN C[c] ELSE Gpu!EmptyChain]
  <2>1. ChainsOf(u, h) = [c \in NamesIn(u, h) |->
            IF NewIn(t, l, h, c) THEN Updated(EntryOf(t, h, c), l) ELSE EntryOf(t, h, c)]
    BY ChainsGrow DEF ChainsGrown
  <2>2. l.kind \notin Gpu!ChainLine
    BY DEF Gpu!ChainLine
  <2>3. \A c : Updated(EntryOf(t, h, c), l) = EntryOf(t, h, c)
    BY <1>3, <2>2, EntryFields
  <2>4. ChainsOf(u, h) = [c \in NamesIn(u, h) |-> EntryOf(t, h, c)]
    BY <2>1, <2>3
  <2> QED
    BY <1>2, <2>4 DEF EntryOf
<1>5. IndexOf(u, h, k) = IndexOf(t, h, k)
    BY IndexStays
<1>6. /\ Gpu!RefDevice(t, h, k) = [index |-> i, fields |-> F, cert_chains |-> C]
      /\ Gpu!RefDevice(u, h, k) = [index |-> i, fields |-> F, cert_chains |-> ChainsOf(u, h)]
    BY <1>1, <1>5, DeviceSays, Zenon
<1> HIDE DEF i, F, C
<1> QED
    BY <1>4, <1>6 DEF WithHeader

\* A key of a chain updates the entry of the chain that it stands below.
LEMMA ChainFieldRead ==
    ASSUME NEW t, NEW l, NEW u, Grown(t, l, u), NEW h \in 1..Len(t), NEW k, NEW c,
           NewBelow(t, l, h), l.kind \in Gpu!ChainLine, Stands(t, Len(t), c)
    PROVE  /\ c \in NamesIn(t, h)
           /\ Gpu!RefDevice(u, h, k) = WithEntry(Gpu!RefDevice(t, h, k), c, l)
<1>1. FieldsOf(u, h) = FieldsOf(t, h)
  <2>1. l.kind # "field"
    BY DEF Gpu!ChainLine
  <2>2. FieldsOf(u, h) = [f \in Fields |-> FieldsOf(t, h)[f]]
    BY <2>1, FieldsGrow DEF FieldsGrown
  <2> QED
    BY <2>2 DEF FieldsOf
<1>2. NamesIn(u, h) = NamesIn(t, h) /\ NamesIn(t, h) = DOMAIN ChainsOf(t, h) /\ l.kind # "chain"
    BY NamesGrow DEF NamesGrown, ChainsOf, Gpu!ChainLine
<1>3. Len(t) \in Nat
    BY GrownText
<1>4. c \in NamesIn(t, h)
  <2>1. Len(t) \in PartOf(t, h, c)
    <3>1. Len(t) \in 1..Len(t)
      BY <1>3
    <3> QED
      BY <3>1 DEF PartOf, Below, NewBelow
  <2> QED
    BY <1>3, <2>1, NoChainNoLines
<1> DEFINE i == IndexOf(t, h, k)
           F == FieldsOf(t, h)
           C == ChainsOf(t, h)
<1>5. ChainsOf(u, h) = [C EXCEPT ![c] = Updated(@, l)]
  <2>1. ChainsOf(u, h) = [d \in NamesIn(t, h) |->
            IF NewIn(t, l, h, d) THEN Updated(EntryOf(t, h, d), l) ELSE EntryOf(t, h, d)]
    BY <1>2, ChainsGrow DEF ChainsGrown
  <2>2. \A d : NewIn(t, l, h, d) <=> d = c
    BY <1>2 DEF NewIn, NewStands, Stands
  <2>3. ChainsOf(u, h) = [d \in DOMAIN C |-> IF d = c THEN Updated(C[d], l) ELSE C[d]]
    BY <1>2, <2>1, <2>2 DEF EntryOf
  <2> HIDE DEF C
  <2> QED
    BY <2>3
<1>6. IndexOf(u, h, k) = IndexOf(t, h, k)
    BY IndexStays
<1>7. /\ Gpu!RefDevice(t, h, k) = [index |-> i, fields |-> F, cert_chains |-> C]
      /\ Gpu!RefDevice(u, h, k) = [index |-> i, fields |-> F, cert_chains |-> ChainsOf(u, h)]
    BY <1>1, <1>6, DeviceSays, Zenon
<1> HIDE DEF i, F, C
<1> QED
    BY <1>4, <1>5, <1>7 DEF WithEntry

\* A device header starts a device with nothing but its index.
LEMMA DeviceHeaderRead ==
    ASSUME NEW t, NEW l, NEW u, Grown(t, l, u), l.kind = "device", NEW k
    PROVE  Gpu!RefDevice(u, Len(t) + 1, k) =
             Gpu!NewDevice(IF l.index = None THEN k - 1 ELSE l.index)
<1> DEFINE n == Len(t)
<1>1. n \in Nat /\ Len(u) = n + 1 /\ u[n + 1] = l
    BY GrownText
<1>2. Gpu!DeviceOf(u, n + 1) = n + 1
    BY HeadersNew
<1>3. \A i \in 1..n : Gpu!DeviceOf(u, i) # n + 1
  <2> TAKE i \in 1..n
  <2>1. i \in Nat
    BY <1>1
  <2>2. Gpu!DeviceOf(u, i) \in 0..i
    BY <2>1, DeviceOfIs
  <2> QED
    BY <1>1, <2>2
<1>4. Below(u, n + 1) = {n + 1}
    BY <1>1, <1>2, <1>3 DEF Below
<1>5. Gpu!Kind(u, n + 1) = "device"
    BY <1>1 DEF Gpu!Kind
<1>6. NamesIn(u, n + 1) = {} /\ \A f : FieldLines(u, n + 1, f) = {}
    BY <1>4, <1>5 DEF NamesIn, FieldLines
<1>7. FieldsOf(u, n + 1) = [f \in Fields |-> None]
    BY <1>6 DEF FieldsOf, Gpu!LastValue
<1>8. ChainsOf(u, n + 1) = <<>>
    BY <1>6 DEF ChainsOf
<1>9. IndexOf(u, n + 1, k) = IF l.index = None THEN k - 1 ELSE l.index
    BY <1>1 DEF IndexOf
<1> QED
    BY <1>7, <1>8, <1>9, DeviceSays, Zenon DEF Gpu!NewDevice

-----------------------------------------------------------------------------
(* The devices and their numbers *)

Headers(t) == {h \in 1..Len(t) : Gpu!Kind(t, h) = "device"}
UpTo(t, h) == {g \in Headers(t) : g <= h}
Rank(t, h) == Cardinality(UpTo(t, h))

\* A text has finitely many device headers.
LEMMA HeadersFinite ==
    ASSUME NEW t, Len(t) \in Nat, NEW h
    PROVE  /\ IsFiniteSet(Headers(t)) /\ IsFiniteSet(UpTo(t, h))
           /\ Cardinality(Headers(t)) \in Nat /\ Rank(t, h) \in Nat
<1>1. IsFiniteSet(1..Len(t))
  <2>1. \A m \in Nat : IsFiniteSet(1..m)
    BY FS_Interval
  <2> QED
    BY <2>1
<1>2. Headers(t) \subseteq 1..Len(t) /\ UpTo(t, h) \subseteq 1..Len(t)
    BY DEF Headers, UpTo
<1>3. IsFiniteSet(Headers(t)) /\ IsFiniteSet(UpTo(t, h))
    BY <1>1, <1>2, FS_Subset
<1> QED
    BY <1>3, FS_CardinalityType DEF Rank

\* No two headers have the same number.
LEMMA RanksDiffer ==
    ASSUME NEW t, Len(t) \in Nat, NEW h \in Headers(t), NEW g \in Headers(t), Rank(t, h) = Rank(t, g)
    PROVE  h = g
<1>1. ASSUME NEW a \in Headers(t), NEW b \in Headers(t), a < b, Rank(t, a) = Rank(t, b)
      PROVE  FALSE
  <2>1. a \in Nat /\ b \in Nat /\ \A x \in Headers(t) : x \in Nat
    BY DEF Headers
  <2>2. UpTo(t, a) \subseteq UpTo(t, b) /\ b \in UpTo(t, b) /\ b \notin UpTo(t, a)
    <3>1. ASSUME NEW x \in UpTo(t, a) PROVE x \in UpTo(t, b)
      <4>1. x \in Headers(t) /\ x <= a /\ x \in Nat
        BY <2>1 DEF UpTo
      <4>2. x <= b
        BY <1>1, <2>1, <4>1
      <4> QED
        BY <4>1, <4>2 DEF UpTo
    <3>2. b \in UpTo(t, b) /\ b \notin UpTo(t, a)
      <4>1. b <= b /\ ~(b <= a)
        BY <1>1, <2>1
      <4> QED
        BY <1>1, <4>1 DEF UpTo
    <3> QED
      BY <3>1, <3>2
  <2>3. IsFiniteSet(UpTo(t, b))
    BY HeadersFinite
  <2>4. UpTo(t, a) = UpTo(t, b)
    BY <1>1, <2>2, <2>3, FS_Subset DEF Rank
  <2> QED
    BY <2>2, <2>4
<1>2. h \in Nat /\ g \in Nat
    BY DEF Headers
<1>3. ~(h < g) /\ ~(g < h)
    BY <1>1
<1> QED
    BY <1>2, <1>3

HeadersGrown(t, l, u) ==
    /\ Headers(u) = IF l.kind = "device" THEN Headers(t) \cup {Len(t) + 1} ELSE Headers(t)
    /\ l.kind = "device" => /\ Cardinality(Headers(u)) = Cardinality(Headers(t)) + 1
                            /\ Rank(u, Len(t) + 1) = Cardinality(Headers(u))
RankStays(t, u, h) == Rank(u, h) = Rank(t, h)

\* A device header is the last one, and those before it keep their numbers.
LEMMA HeadersGrow ==
    ASSUME NEW t, NEW l, NEW u, Grown(t, l, u)
    PROVE  HeadersGrown(t, l, u) /\ \A h \in 1..Len(t) : RankStays(t, u, h)
<1> DEFINE n == Len(t)
<1>1. n \in Nat /\ Len(u) = n + 1
    BY GrownText
<1>2. (\A i \in 1..n : Gpu!Kind(u, i) = Gpu!Kind(t, i)) /\ Gpu!Kind(u, n + 1) = l.kind
    BY GrownText DEF Gpu!Kind
<1>3. Headers(u) = IF l.kind = "device" THEN Headers(t) \cup {n + 1} ELSE Headers(t)
    BY <1>1, <1>2 DEF Headers
<1>4. ASSUME NEW h \in 1..n PROVE RankStays(t, u, h)
  <2>1. UpTo(u, h) = UpTo(t, h)
    BY <1>1, <1>3 DEF UpTo
  <2> QED
    BY <2>1 DEF Rank, RankStays
<1>5. ASSUME l.kind = "device"
      PROVE  /\ Cardinality(Headers(u)) = Cardinality(Headers(t)) + 1
             /\ Rank(u, n + 1) = Cardinality(Headers(u))
  <2>1. n + 1 \notin Headers(t) /\ IsFiniteSet(Headers(t))
    BY <1>1, HeadersFinite DEF Headers
  <2>2. Cardinality(Headers(u)) = Cardinality(Headers(t)) + 1
    BY <1>3, <1>5, <2>1, FS_AddElement
  <2>3. UpTo(u, n + 1) = Headers(u)
    BY <1>1 DEF UpTo, Headers
  <2> QED
    BY <2>2, <2>3 DEF Rank
<1> QED
    BY <1>3, <1>4, <1>5 DEF HeadersGrown

\* The last header has the number of the headers, and comes last.
LEMMA LastHeader ==
    ASSUME NEW t, Len(t) \in Nat, NEW h, h = Gpu!DeviceOf(t, Len(t))
    PROVE  /\ h # 0 => h \in Headers(t) /\ Rank(t, h) = Cardinality(Headers(t))
           /\ h = 0 => Headers(t) = {}
<1>1. /\ h \in 0..Len(t)
      /\ h # 0 => Gpu!Kind(t, h) = "device"
      /\ \A g \in 1..Len(t) : Gpu!Kind(t, g) = "device" => g <= h
    BY DeviceOfIs
<1>2. h # 0 => h \in Headers(t) /\ UpTo(t, h) = Headers(t)
    BY <1>1 DEF Headers, UpTo
<1>3. h = 0 => Headers(t) = {}
    BY <1>1 DEF Headers
<1> QED
    BY <1>2, <1>3 DEF Rank

-----------------------------------------------------------------------------
(* The line that belongs nowhere *)

LooseNew(t, l) ==
    \/ l.kind \in Gpu!Plain
    \/ l.kind = "field" /\ Gpu!DeviceOf(t, Len(t)) = 0
    \/ /\ l.kind \in Gpu!ChainLine
       /\ Gpu!DeviceOf(t, Len(t)) = 0 \/ Gpu!ChainOf(t, Len(t)) = 0
LooseLines(t) == {i \in 1..Len(t) : Gpu!Loose(t, i)}

\* The summary line is the last line that belongs nowhere.
LEMMA SummarySays ==
    ASSUME NEW t
    PROVE  Gpu!RefSummary(t) = IF LooseLines(t) = {} THEN None ELSE t[Gpu!Max(LooseLines(t))]
    BY DEF Gpu!RefSummary, LooseLines

\* A line that belongs nowhere becomes the summary line.
LEMMA SummaryGrows ==
    ASSUME NEW t, NEW l, NEW u, Grown(t, l, u)
    PROVE  Gpu!RefSummary(u) = IF LooseNew(t, l) THEN l ELSE Gpu!RefSummary(t)
<1> DEFINE n == Len(t)
<1>1. n \in Nat /\ Len(u) = n + 1
    BY GrownText
<1>2. (\A i \in 1..n : Gpu!Kind(u, i) = Gpu!Kind(t, i)) /\ Gpu!Kind(u, n + 1) = l.kind
    BY GrownText DEF Gpu!Kind
<1>3. \A i \in 1..n : Gpu!Loose(u, i) <=> Gpu!Loose(t, i)
  <2> TAKE i \in 1..n
  <2>1. Gpu!DeviceOf(u, i) = Gpu!DeviceOf(t, i) /\ Gpu!ChainOf(u, i) = Gpu!ChainOf(t, i)
    BY <1>1, HeadersStay
  <2> QED
    BY <1>2, <2>1 DEF Gpu!Loose
<1>4. Gpu!Loose(u, n + 1) <=> LooseNew(t, l)
    BY <1>2, HeadersNew DEF Gpu!Loose, LooseNew, Gpu!ChainLine, Gpu!Plain
<1>5. LooseLines(u) = IF LooseNew(t, l) THEN LooseLines(t) \cup {n + 1} ELSE LooseLines(t)
    BY <1>1, <1>3, <1>4 DEF LooseLines
<1>6. Among(LooseLines(t), t)
    BY DEF Among, LooseLines
<1>7. LastLine(t, l, u, LooseLines(t))
    BY <1>6, NewIsLast
<1>8. CASE LooseNew(t, l)
    BY <1>5, <1>7, <1>8, SummarySays, Zenon DEF LastLine
<1>9. CASE ~LooseNew(t, l)
    BY <1>5, <1>7, <1>9, SummarySays, Zenon DEF LastLine
<1> QED
    BY <1>8, <1>9, Zenon

\* When the verdict comes last it is the summary line, and it has the word when
\* the script reports success.
LEMMA VerdictIsSummary ==
    ASSUME NEW t \in Seq(Gpu!Lines), Gpu!VerdictLast(t)
    PROVE  Gpu!Successful(Gpu!RefSummary(t)) = Gpu!ReportsSuccess(t)
<1> DEFINE bare == {i \in 1..Len(t) : Gpu!Kind(t, i) = "bare"}
           loose == LooseLines(t)
           last == t[Gpu!Max(loose)]
<1>0. Len(t) \in Nat /\ bare \subseteq loose
    BY DEF LooseLines, Gpu!Loose, Gpu!Plain
<1>1. Gpu!ReportsSuccess(t) = (bare # {} /\ t[Gpu!Max(bare)].says = "success")
    BY DEF Gpu!ReportsSuccess
<1>2. Gpu!RefSummary(t) = IF loose = {} THEN None ELSE last
    BY SummarySays
<1>3. CASE loose = {}
    BY <1>0, <1>1, <1>2, <1>3 DEF Gpu!Successful
<1>4. CASE loose # {}
  <2>1. PICK m \in loose : \A x \in loose : x <= m
    BY <1>0, <1>4, MaxOf DEF LooseLines
  <2>2. m \in 1..Len(t) /\ Gpu!Loose(t, m)
    BY DEF LooseLines
  \* After the last line that belongs nowhere there is none without a colon.
  <2>3. Gpu!Kind(t, m) = "bare" /\ t[m].says # "denied"
    <3>1. ASSUME NEW j \in (m + 1)..Len(t), Gpu!Kind(t, j) = "bare" PROVE FALSE
      <4>1. j \in bare
        BY <1>0, <2>2, <3>1
      <4> QED
        BY <1>0, <2>1, <2>2, <4>1
    <3> QED
      BY <2>2, <3>1 DEF Gpu!VerdictLast
  <2>4. loose \subseteq Nat /\ bare \subseteq Nat /\ m \in bare
    BY <1>0, <2>2, <2>3 DEF LooseLines
  <2>5. \A x \in bare : x <= m
    BY <1>0, <2>1
  <2> HIDE DEF bare, loose
  <2>6. Gpu!Max(loose) = m /\ Gpu!Max(bare) = m
    BY <2>1, <2>4, <2>5, MaxIs
  <2>7. t[m] \in Gpu!Lines /\ t[m].kind = "bare"
    BY <2>2, <2>3 DEF Gpu!Kind
  <2>8. t[m] # None /\ t[m].says \in {"success", "other"}
    <3>1. t[m].kind \in Gpu!Plain
      BY <2>7 DEF Gpu!Plain
    <3>2. t[m].says \in {"success", "denied", "other"}
      BY <2>7, <3>1, LineFields
    <3> QED
      BY <2>3, <2>7, <3>2, SetsAssumption
  <2>9. Gpu!HasWord(t[m]) <=> t[m].says = "success"
    BY <2>7, <2>8 DEF Gpu!HasWord, Gpu!Plain, Gpu!ChainLine
  <2> QED
    BY <1>1, <1>2, <1>4, <2>4, <2>6, <2>8, <2>9 DEF Gpu!Successful
<1> QED
    BY <1>3, <1>4

-----------------------------------------------------------------------------
(* The types of a device *)

\* A new device is well-typed.
LEMMA NewDeviceType ==
    ASSUME NEW i \in Nat
    PROVE  Gpu!NewDevice(i) \in Gpu!Device /\ Gpu!NewDevice(i) # None
<1> DEFINE m == <<>>
<1>1. m \in [{} -> Gpu!CertChain]
    OBVIOUS
<1>2. m \in UNION {[S -> Gpu!CertChain] : S \in SUBSET Chains}
    BY <1>1
<1>3. [f \in Fields |-> None] \in [Fields -> Gpu!OptValues]
    BY DEF Gpu!OptValues
<1> HIDE DEF m
<1>4. [index |-> i, fields |-> [f \in Fields |-> None], cert_chains |-> m] \in Gpu!Device
    BY <1>2, <1>3 DEF Gpu!Device
<1>5. Gpu!NewDevice(i) \in Gpu!Device
    BY <1>4 DEF Gpu!NewDevice, m
<1> QED
    BY <1>5, SetsAssumption

\* A device whose field is set is well-typed.
LEMMA FieldType ==
    ASSUME NEW d \in Gpu!Device, NEW f \in Fields, NEW v \in Values
    PROVE  [d EXCEPT !.fields[f] = v] \in Gpu!Device
<1>1. d.fields \in [Fields -> Gpu!OptValues] /\ v \in Gpu!OptValues
    BY DEF Gpu!Device, Gpu!OptValues
<1>2. [d.fields EXCEPT ![f] = v] \in [Fields -> Gpu!OptValues]
    BY <1>1
<1>3. [d EXCEPT !.fields = [d.fields EXCEPT ![f] = v]] \in Gpu!Device
    BY <1>2 DEF Gpu!Device
<1> QED
    BY <1>3

\* A map from some chains to entries.
LEMMA ChainsType ==
    ASSUME NEW S, S \subseteq Chains, NEW m \in [S -> Gpu!CertChain], NEW d \in Gpu!Device
    PROVE  [d EXCEPT !.cert_chains = m] \in Gpu!Device
<1>1. m \in UNION {[T -> Gpu!CertChain] : T \in SUBSET Chains}
    OBVIOUS
<1> QED
    BY <1>1 DEF Gpu!Device

\* The chains of a device are entries under the names of chains.
LEMMA ChainsDomain ==
    ASSUME NEW d \in Gpu!Device
    PROVE  /\ DOMAIN d.cert_chains \subseteq Chains
           /\ d.cert_chains \in [DOMAIN d.cert_chains -> Gpu!CertChain]
<1>1. d.cert_chains \in UNION {[S -> Gpu!CertChain] : S \in SUBSET Chains}
    BY DEF Gpu!Device
<1>2. PICK S \in SUBSET Chains : d.cert_chains \in [S -> Gpu!CertChain]
    BY <1>1
<1> QED
    BY <1>2

\* A device with one chain more is well-typed.
LEMMA HeaderType ==
    ASSUME NEW d \in Gpu!Device, NEW n \in Chains
    PROVE  WithHeader(d, n) \in Gpu!Device
<1> DEFINE C == d.cert_chains
           m == [c \in DOMAIN C \cup {n} |-> IF c \in DOMAIN C THEN C[c] ELSE Gpu!EmptyChain]
<1>1. DOMAIN C \subseteq Chains /\ C \in [DOMAIN C -> Gpu!CertChain]
    BY ChainsDomain
<1>2. Gpu!EmptyChain \in Gpu!CertChain
    BY DEF Gpu!EmptyChain, Gpu!CertChain, Gpu!OptValues
<1>3. DOMAIN C \cup {n} \subseteq Chains /\ m \in [DOMAIN C \cup {n} -> Gpu!CertChain]
    BY <1>1, <1>2
<1> HIDE DEF m
<1>4. [d EXCEPT !.cert_chains = m] \in Gpu!Device
    BY <1>3, ChainsType
<1> QED
    BY <1>4 DEF m, WithHeader

\* What the parser makes of an entry.
LEMMA UpdatedCode ==
    ASSUME NEW e \in Gpu!CertChain, NEW l \in Gpu!Lines, l.kind \in Gpu!ChainLine
    PROVE  Gpu!SetEntry(e, l) = Updated(e, l) /\ Updated(e, l) \in Gpu!CertChain
<1>1. l.value \in Values /\ (l.kind = "status" => l.ocsp \in Values \cup {None})
    BY LineFields
<1>2. l.kind \in {"status", "ocsp", "expires"}
    BY DEF Gpu!ChainLine
<1>3. Updated(e, l) \in Gpu!CertChain
    BY <1>1, <1>2 DEF Updated, SaysOcsp, OcspOf, Gpu!CertChain, Gpu!OptValues
<1>4. CASE l.kind = "status"
  <2>1. Gpu!SetEntry(e, l)
          = [e EXCEPT !.status = l.value, !.ocsp = IF l.ocsp = None THEN @ ELSE l.ocsp]
    BY <1>4 DEF Gpu!SetEntry
  <2> QED
    BY <1>3, <1>4, <2>1 DEF Updated, SaysOcsp, OcspOf, Gpu!CertChain
<1>5. CASE l.kind = "ocsp"
  <2>1. Gpu!SetEntry(e, l) = [e EXCEPT !.ocsp = l.value]
    BY <1>5 DEF Gpu!SetEntry
  <2> QED
    BY <1>3, <1>5, <2>1 DEF Updated, SaysOcsp, OcspOf, Gpu!CertChain
<1>6. CASE l.kind = "expires"
  <2>1. Gpu!SetEntry(e, l) = [e EXCEPT !.expires = l.value]
    BY <1>6 DEF Gpu!SetEntry
  <2> QED
    BY <1>3, <1>6, <2>1 DEF Updated, SaysOcsp, OcspOf, Gpu!CertChain
<1> QED
    BY <1>2, <1>4, <1>5, <1>6

\* A device whose chain is updated is well-typed.
LEMMA EntryType ==
    ASSUME NEW d \in Gpu!Device, NEW c \in DOMAIN d.cert_chains, NEW e \in Gpu!CertChain
    PROVE  [d EXCEPT !.cert_chains[c] = e] \in Gpu!Device
<1> DEFINE m == [d.cert_chains EXCEPT ![c] = e]
<1>1. DOMAIN d.cert_chains \subseteq Chains /\ m \in [DOMAIN d.cert_chains -> Gpu!CertChain]
    BY ChainsDomain
<1> HIDE DEF m
<1>2. [d EXCEPT !.cert_chains = m] \in Gpu!Device
    BY <1>1, ChainsType
<1> QED
    BY <1>2 DEF m

-----------------------------------------------------------------------------
(* What has been read, at any line *)

\* The devices before the last one.
Listed(t, devs) ==
    \A k \in 1..Len(devs) :
        \E h \in Headers(t) :
            h # Gpu!DeviceOf(t, Len(t)) /\ Rank(t, h) = k /\ devs[k] = Gpu!RefDevice(t, h, k)

\* The chain that a line now would stand below.
ChainNow(t) == IF Gpu!ChainOf(t, Len(t)) = 0 THEN None ELSE t[Gpu!ChainOf(t, Len(t))].name

\* The parser between two lines, after the lines t.
Between(t, devs, cur, chain) ==
    IF cur = None THEN Gpu!DeviceOf(t, Len(t)) = 0 /\ devs = <<>>
    ELSE /\ Gpu!DeviceOf(t, Len(t)) # 0
         /\ Cardinality(Headers(t)) = Len(devs) + 1
         /\ cur = Gpu!RefDevice(t, Gpu!DeviceOf(t, Len(t)), Len(devs) + 1)
         /\ Listed(t, devs)
         /\ chain = ChainNow(t)

\* The parser's module counts as this one does.
LEMMA CountedAlike == \A S : Gpu!Cardinality(S) = Cardinality(S)
    BY DEF Gpu!Cardinality, Cardinality

\* A sequence with one element more, place by place.
LEMMA AppendIs ==
    ASSUME NEW S, NEW q \in Seq(S), NEW e
    PROVE  Append(q, e) = [k \in 1..(Len(q) + 1) |-> IF k <= Len(q) THEN q[k] ELSE e]
<1> DEFINE r == Append(q, e)
<1>1. /\ r \in Seq(S \cup {e}) /\ Len(r) = Len(q) + 1 /\ r[Len(q) + 1] = e
      /\ \A k \in 1..Len(q) : r[k] = q[k]
  <2>1. q \in Seq(S \cup {e})
    OBVIOUS
  <2> QED
    BY <2>1, AppendProperties
<1>2. Len(q) \in Nat
    OBVIOUS
<1> HIDE DEF r
<1>3. \A k \in 1..(Len(q) + 1) : r[k] = IF k <= Len(q) THEN q[k] ELSE e
    BY <1>1, <1>2
<1>4. r = [k \in 1..(Len(q) + 1) |-> r[k]]
    BY <1>1
<1> QED
    BY <1>3, <1>4 DEF r

\* The devices and the current one are those that the lines describe.
LEMMA BetweenAnswers ==
    ASSUME NEW t \in Seq(Gpu!Lines), NEW devs \in Seq(Gpu!Device), NEW cur, NEW chain,
           Between(t, devs, cur, chain)
    PROVE  Gpu!RefDevices(t) = IF cur = None THEN devs ELSE Append(devs, cur)
<1> DEFINE n == Cardinality(Headers(t))
           at(k) == CHOOSE h \in Headers(t) : Gpu!Cardinality(UpTo(t, h)) = k
<1>1. Gpu!RefDevices(t) = [k \in 1..n |-> Gpu!RefDevice(t, at(k), k)]
  <2>1. Gpu!RefDevices(t)
          = [k \in 1..Gpu!Cardinality(Headers(t)) |-> Gpu!RefDevice(t, at(k), k)]
    BY Zenon DEF Gpu!RefDevices, Headers, UpTo
  <2>2. Gpu!Cardinality(Headers(t)) = n
    BY CountedAlike
  <2> HIDE DEF at
  <2> QED
    BY <2>1, <2>2
<1>2. Len(t) \in Nat
    OBVIOUS
<1>3. ASSUME NEW h \in Headers(t), NEW k, Rank(t, h) = k PROVE at(k) = h
  <2>1. at(k) \in Headers(t) /\ Rank(t, at(k)) = k
    BY <1>3, CountedAlike DEF Rank
  <2> HIDE DEF at
  <2> QED
    BY <1>2, <1>3, <2>1, RanksDiffer
<1>4. CASE cur = None
  <2>1. Headers(t) = {} /\ devs = <<>>
    BY <1>2, <1>4, LastHeader DEF Between
  <2>2. n = 0
    BY <2>1, FS_EmptySet
  <2>3. [k \in 1..0 |-> Gpu!RefDevice(t, at(k), k)] = <<>>
    OBVIOUS
  <2> QED
    BY <1>1, <1>4, <2>1, <2>2, <2>3
<1>5. CASE cur # None
  <2> DEFINE h == Gpu!DeviceOf(t, Len(t))
             m == Len(devs)
  <2>1. h # 0 /\ n = m + 1 /\ cur = Gpu!RefDevice(t, h, m + 1) /\ Listed(t, devs) /\ m \in Nat
    BY <1>5 DEF Between
  <2>2. at(m + 1) = h
    <3>1. h \in Headers(t) /\ Rank(t, h) = m + 1
      BY <1>2, <2>1, LastHeader
    <3> QED
      BY <1>3, <3>1
  <2>3. ASSUME NEW k \in 1..m PROVE devs[k] = Gpu!RefDevice(t, at(k), k)
    <3>1. PICK g \in Headers(t) : Rank(t, g) = k /\ devs[k] = Gpu!RefDevice(t, g, k)
      BY <2>1 DEF Listed
    <3>2. at(k) = g
      BY <1>3, <3>1
    <3> QED
      BY <3>1, <3>2
  <2> DEFINE r == Gpu!RefDevices(t)
  <2>4. r = [k \in 1..(m + 1) |-> Gpu!RefDevice(t, at(k), k)]
    BY <1>1, <2>1
  <2>5. r[m + 1] = cur /\ (\A k \in 1..m : r[k] = devs[k])
    <3> HIDE DEF at, m, h
    <3>1. m + 1 \in 1..(m + 1) /\ \A k \in 1..m : k \in 1..(m + 1)
      BY <2>1
    <3> QED
      BY <2>1, <2>2, <2>3, <2>4, <3>1
  <2>6. Append(devs, cur) = [k \in 1..(m + 1) |-> IF k <= m THEN devs[k] ELSE cur]
    BY AppendIs
  <2>7. r = [k \in 1..(m + 1) |-> r[k]]
    BY <2>4
  <2>8. \A k \in 1..(m + 1) : r[k] = IF k <= m THEN devs[k] ELSE cur
    <3> HIDE DEF r, m
    <3> QED
      BY <2>1, <2>5
  <2> HIDE DEF r, m
  <2>9. r = Append(devs, cur)
    BY <2>6, <2>7, <2>8
  <2> QED
    BY <1>5, <2>9 DEF r
<1> QED
    BY <1>4, <1>5

\* The devices before the last one stay the same, whatever is read.
LEMMA ListedGrows ==
    ASSUME NEW t, NEW l, NEW u, Grown(t, l, u), NEW devs, Listed(t, devs)
    PROVE  Listed(u, devs)
<1> DEFINE n == Len(t)
<1>1. n \in Nat /\ Len(u) = n + 1
    BY GrownText
<1>2. ASSUME NEW k \in 1..Len(devs)
      PROVE  \E h \in Headers(u) : h # Gpu!DeviceOf(u, n + 1) /\ Rank(u, h) = k
                                   /\ devs[k] = Gpu!RefDevice(u, h, k)
  <2>1. PICK h \in Headers(t) : h # Gpu!DeviceOf(t, n) /\ Rank(t, h) = k
                                /\ devs[k] = Gpu!RefDevice(t, h, k)
    BY DEF Listed
  <2>2. h \in 1..n /\ h \in Headers(u)
    <3>1. h \in 1..n
      BY <2>1 DEF Headers
    <3>2. Headers(t) \subseteq Headers(u)
      BY HeadersGrow DEF HeadersGrown
    <3> QED
      BY <2>1, <3>1, <3>2
  <2>3. h # Gpu!DeviceOf(u, n + 1)
    BY <1>1, <2>1, <2>2, HeadersNew
  <2>4. Rank(u, h) = k
    BY <2>1, <2>2, HeadersGrow DEF RankStays
  <2>5. ~NewBelow(t, l, h)
    BY <2>1 DEF NewBelow
  <2>6. Gpu!RefDevice(u, h, k) = Gpu!RefDevice(t, h, k)
    BY <2>2, <2>5, DeviceStays
  <2> QED
    BY <2>1, <2>2, <2>3, <2>4, <2>6
<1> QED
    BY <1>1, <1>2 DEF Listed

\* The devices with the last one, and the device that header l starts.
AllOf(all, devs, cur) == all = IF cur = None THEN devs ELSE Append(devs, cur)
StartedBy(new, l, all) == new = Gpu!NewDevice(IF l.index = None THEN Len(all) ELSE l.index)

\* A device header ends the device before it.
LEMMA DeviceStarts ==
    ASSUME NEW t, NEW l, NEW u, Grown(t, l, u), l.kind = "device",
           NEW devs \in Seq(Gpu!Device), NEW cur \in Gpu!Device \cup {None}, NEW chain,
           Between(t, devs, cur, chain),
           NEW all, AllOf(all, devs, cur), NEW new, StartedBy(new, l, all), new # None
    PROVE  Between(u, all, new, None)
<1> USE DEF AllOf, StartedBy
<1> DEFINE n == Len(t)
<1>1. n \in Nat /\ Len(u) = n + 1
    BY GrownText
<1>2. Gpu!DeviceOf(u, n + 1) = n + 1 /\ Gpu!ChainOf(u, n + 1) = 0
    BY HeadersNew
<1>3. Cardinality(Headers(t)) = Len(all) /\ Len(all) \in Nat
  <2>1. CASE cur = None
    <3>1. Gpu!DeviceOf(t, n) = 0 /\ all = <<>>
      BY <2>1 DEF Between
    <3>2. Headers(t) = {}
      BY <1>1, <3>1, LastHeader
    <3>3. Cardinality(Headers(t)) = 0
      BY <3>2, FS_EmptySet
    <3> QED
      BY <3>1, <3>3
  <2>2. CASE cur # None
    BY <2>2 DEF Between
  <2> QED
    BY <2>1, <2>2
<1>4. Cardinality(Headers(u)) = Len(all) + 1
    BY <1>3, HeadersGrow DEF HeadersGrown
<1>5. new = Gpu!RefDevice(u, n + 1, Len(all) + 1)
  <2>1. (Len(all) + 1) - 1 = Len(all)
    BY <1>3
  <2>2. Gpu!RefDevice(u, n + 1, Len(all) + 1) =
         Gpu!NewDevice(IF l.index = None THEN (Len(all) + 1) - 1 ELSE l.index)
    BY ZenonT(40), DeviceHeaderRead
  <2> QED
    BY <2>1, <2>2
<1>6. ASSUME NEW k \in 1..Len(all)
      PROVE  \E h \in Headers(u) : h # n + 1 /\ Rank(u, h) = k /\ all[k] = Gpu!RefDevice(u, h, k)
  <2>1. cur # None
    BY <1>3 DEF Between
  <2>2. Listed(t, devs) /\ Len(all) = Len(devs) + 1
    BY <2>1 DEF Between
  <2>3. PICK h \in Headers(t) : Rank(t, h) = k /\ all[k] = Gpu!RefDevice(t, h, k)
    <3>1. CASE k = Len(all)
      <4>1. all[k] = cur
        BY <2>1, <2>2, <3>1
      <4>2. Gpu!DeviceOf(t, n) \in Headers(t) /\ Rank(t, Gpu!DeviceOf(t, n)) = k
        BY <1>1, <1>3, <2>1, <3>1, LastHeader DEF Between
      <4> QED
        BY <2>1, <2>2, <3>1, <4>1, <4>2 DEF Between
    <3>2. CASE k # Len(all)
      <4>1. k \in 1..Len(devs)
        BY <1>3, <2>2, <3>2
      <4>2. all[k] = devs[k]
        BY <2>1, <4>1
      <4> QED
        BY <2>2, <4>1, <4>2 DEF Listed
    <3> QED
      BY <3>1, <3>2
  <2>4. h \in 1..n /\ h \in Headers(u) /\ h # n + 1
    <3>1. h \in 1..n
      BY <2>3 DEF Headers
    <3>2. Headers(t) \subseteq Headers(u)
      BY HeadersGrow DEF HeadersGrown
    <3> QED
      BY <1>1, <2>3, <3>1, <3>2
  <2>5. Rank(u, h) = k
    BY <2>3, <2>4, HeadersGrow DEF RankStays
  <2>6. ~NewBelow(t, l, h)
    BY DEF NewBelow
  <2>7. Gpu!RefDevice(u, h, k) = Gpu!RefDevice(t, h, k)
    BY <2>4, <2>6, DeviceStays
  <2> QED
    BY <2>3, <2>4, <2>5, <2>7
<1>7. Listed(u, all)
    BY <1>1, <1>2, <1>6 DEF Listed
<1>8. ChainNow(u) = None
    BY <1>1, <1>2 DEF ChainNow
<1> QED
    BY <1>1, <1>2, <1>4, <1>5, <1>7, <1>8 DEF Between

\* A line of the current device, or of none, that leaves the chain it is.
LEMMA DeviceGoesOn ==
    ASSUME NEW t, NEW l, NEW u, Grown(t, l, u), l.kind # "device",
           NEW devs, NEW cur, NEW chain, Between(t, devs, cur, chain),
           NEW next, cur = None <=> next = None,
           NEW beyond, cur # None =>
             /\ next = Gpu!RefDevice(u, Gpu!DeviceOf(t, Len(t)), Len(devs) + 1)
             /\ beyond = IF l.kind = "chain" THEN l.name ELSE chain
    PROVE  Between(u, devs, next, beyond)
<1> DEFINE n == Len(t)
           h == Gpu!DeviceOf(t, n)
<1>1. n \in Nat /\ Len(u) = n + 1 /\ (\A i \in 1..n : u[i] = t[i]) /\ u[n + 1] = l
    BY GrownText
<1>2. /\ Gpu!DeviceOf(u, n + 1) = h
      /\ Gpu!ChainOf(u, n + 1) = IF l.kind = "chain" THEN n + 1 ELSE Gpu!ChainOf(t, n)
    BY HeadersNew
<1>3. CASE cur = None
    BY <1>1, <1>2, <1>3 DEF Between
<1>4. CASE cur # None
  <2>1. /\ h # 0 /\ Cardinality(Headers(t)) = Len(devs) + 1 /\ Listed(t, devs)
        /\ chain = ChainNow(t)
    BY <1>4 DEF Between
  <2>2. Cardinality(Headers(u)) = Len(devs) + 1
    BY <2>1, HeadersGrow DEF HeadersGrown
  <2>3. Listed(u, devs)
    BY <2>1, ListedGrows
  <2>4. beyond = ChainNow(u)
    <3>1. CASE l.kind = "chain"
      BY <1>1, <1>2, <1>4, <3>1 DEF ChainNow
    <3>2. CASE l.kind # "chain"
      <4>1. Gpu!ChainOf(t, n) # 0 => Gpu!ChainOf(t, n) \in 1..n
        <5>1. Gpu!ChainOf(t, n) \in 0..n
          BY <1>1, ChainOfIs
        <5> QED
          BY <1>1, <5>1
      <4> QED
        BY <1>1, <1>2, <1>4, <2>1, <3>2, <4>1 DEF ChainNow
    <3> QED
      BY <3>1, <3>2
  <2>5. next # None /\ next = Gpu!RefDevice(u, h, Len(devs) + 1)
    BY <1>4
  <2> QED
    BY <1>1, <1>2, <2>1, <2>2, <2>3, <2>4, <2>5 DEF Between
<1> QED
    BY <1>3, <1>4

\* The entry that the parser finds is that of the chain a line stands below.
LEMMA EntryFound ==
    ASSUME NEW t \in Seq(Gpu!Lines), NEW devs, NEW cur, NEW chain, Between(t, devs, cur, chain),
           cur # None
    PROVE  /\ (chain # None /\ chain \in DOMAIN cur.cert_chains) <=> Gpu!ChainOf(t, Len(t)) # 0
           /\ Gpu!ChainOf(t, Len(t)) # 0 => Stands(t, Len(t), chain)
<1> DEFINE n == Len(t)
           h == Gpu!DeviceOf(t, n)
           c == Gpu!ChainOf(t, n)
<1>1. n \in Nat
    OBVIOUS
<1>2. h # 0 /\ cur = Gpu!RefDevice(t, h, Len(devs) + 1) /\ chain = ChainNow(t)
    BY DEF Between
<1>3. h \in 0..n /\ c \in 0..n /\ (c # 0 => Gpu!Kind(t, c) = "chain")
    BY <1>1, DeviceOfIs, ChainOfIs
<1>4. DOMAIN cur.cert_chains = NamesIn(t, h)
    BY <1>2, DeviceSays DEF ChainsOf
<1>5. CASE c = 0
    BY <1>2, <1>5 DEF ChainNow
<1>6. CASE c # 0
  <2>1. c \in 1..n /\ chain = t[c].name
    BY <1>1, <1>2, <1>3, <1>6 DEF ChainNow
  <2>2. t[c] \in Gpu!Lines /\ t[c].kind = "chain"
    BY <1>3, <1>6, <2>1 DEF Gpu!Kind
  <2>3. chain # None
    BY <2>1, <2>2, LineFields, SetsAssumption
  <2>4. Stands(t, n, chain)
    BY <1>6, <2>1 DEF Stands
  <2>5. n \in PartOf(t, h, chain)
    <3>1. n \in 1..n
      BY <1>1, <2>1
    <3> QED
      BY <2>4, <3>1 DEF PartOf, Below
  <2>6. h \in 1..n
    BY <1>1, <1>2, <1>3
  <2>7. chain \in NamesIn(t, h)
    BY <1>1, <2>5, <2>6, NoChainNoLines
  <2> QED
    BY <1>4, <1>6, <2>3, <2>4, <2>7
<1> QED
    BY <1>5, <1>6

-----------------------------------------------------------------------------
(* The parser *)

GpuTypes ==
    /\ script \in Gpu!Outcomes \cup {"not_run"}
    /\ text \in Seq(Gpu!Lines)
    /\ devices \in Seq(Gpu!Device)
    /\ current \in Gpu!Device \cup {None}
    /\ current_chain \in Chains \cup {None}
    /\ summary \in Gpu!Lines \cup {None}
    /\ reply \in Gpu!Replies
GpuInv ==
    /\ GpuTypes
    /\ reply.status = "ok" => script # "not_run"
    /\ reply.status # "ok" => Between(text, devices, current, current_chain)
    /\ summary = Gpu!RefSummary(text)
    /\ Gpu!ResultMatchesText

\* After the lines text, the line l.
GpuReads(l) ==
    /\ Gpu!Parsing
    /\ l \in Gpu!Lines
    /\ text' = Append(text, l)
    /\ UNCHANGED <<script, reply>>

\* What is kept when a line is read: the types, what follows from the text and
\* that nothing is answered yet.
LEMMA LineKeeps ==
    ASSUME GpuInv, NEW l, GpuReads(l),
           devices' \in Seq(Gpu!Device), current' \in Gpu!Device \cup {None},
           current_chain' \in Chains \cup {None},
           summary' = IF LooseNew(text, l) THEN l ELSE summary,
           Between(Append(text, l), devices', current', current_chain')
    PROVE  GpuInv'
<1> DEFINE u == Append(text, l)
<1>1. Grown(text, l, u)
    BY DEF GpuInv, GpuTypes, GpuReads, Grown
<1>2. Gpu!RefSummary(u) = IF LooseNew(text, l) THEN l ELSE Gpu!RefSummary(text)
    BY <1>1, SummaryGrows
<1>3. summary' = Gpu!RefSummary(u)
    BY <1>2 DEF GpuInv
<1>4. reply' = reply /\ script' = script /\ reply.status # "ok" /\ text' = u
    BY DEF GpuReads, Gpu!Parsing, Gpu!NoReply
<1>5. u \in Seq(Gpu!Lines) /\ summary' \in Gpu!Lines \cup {None}
    BY DEF GpuInv, GpuTypes, GpuReads
<1> HIDE DEF u
<1>6. GpuTypes'
    BY <1>4, <1>5 DEF GpuInv, GpuTypes
<1>7. (Gpu!ResultMatchesText)'
    BY <1>4 DEF Gpu!ResultMatchesText
<1>8. Between(text, devices, current, current_chain)' /\ (summary = Gpu!RefSummary(text))'
    BY <1>3, <1>4 DEF u
<1> QED
    BY <1>4, <1>6, <1>7, <1>8 DEF GpuInv

\* Before a script has run nothing has been read.
LEMMA GpuInit == Gpu!Init => GpuInv
<1> SUFFICES ASSUME Gpu!Init PROVE GpuInv
    OBVIOUS
<1>1. GpuTypes
    BY DEF Gpu!Init, GpuTypes, Gpu!NoReply, Gpu!Replies
<1>2. reply.status # "ok"
    BY DEF Gpu!Init, Gpu!NoReply
<1>3. Gpu!DeviceOf(<<>>, 0) = 0
  <2>1. 0 \in Nat
    OBVIOUS
  <2>2. Gpu!DeviceOf(<<>>, 0) \in 0..0
    BY <2>1, DeviceOfIs
  <2> QED
    BY <2>2
<1>4. Between(text, devices, current, current_chain)
    BY <1>3 DEF Between, Gpu!Init
<1>5. summary = Gpu!RefSummary(text)
  <2>1. LooseLines(<<>>) = {}
    BY DEF LooseLines
  <2> QED
    BY <2>1, SummarySays DEF Gpu!Init
<1> QED
    BY <1>1, <1>2, <1>4, <1>5 DEF GpuInv, Gpu!ResultMatchesText

\* What is known when line l is read.
LEMMA Reading ==
    ASSUME GpuInv, NEW l, GpuReads(l), NEW h, h = Gpu!DeviceOf(text, Len(text))
    PROVE  /\ Grown(text, l, Append(text, l))
           /\ Between(text, devices, current, current_chain)
           /\ current = None => h = 0
           /\ current # None =>
                /\ h \in 1..Len(text)
                /\ h # 0
                /\ current = Gpu!RefDevice(text, h, Len(devices) + 1)
                /\ l.kind # "device" => NewBelow(text, l, h)
                /\ current \in Gpu!Device
<1>1. Grown(text, l, Append(text, l))
    BY DEF GpuInv, GpuTypes, GpuReads, Grown
<1>2. Between(text, devices, current, current_chain)
    BY DEF GpuInv, GpuReads, Gpu!Parsing, Gpu!NoReply
<1>3. Len(text) \in Nat
    BY DEF GpuInv, GpuTypes
<1>4. h \in 0..Len(text)
    BY <1>3, DeviceOfIs
<1>5. current # None => h # 0 /\ current = Gpu!RefDevice(text, h, Len(devices) + 1)
    BY <1>2 DEF Between
<1>6. current = None => h = 0
    BY <1>2 DEF Between
<1>7. h # 0 => h \in 1..Len(text)
    BY <1>3, <1>4
<1>8. current # None => current \in Gpu!Device
    BY DEF GpuInv, GpuTypes
<1> QED
    BY <1>1, <1>2, <1>5, <1>6, <1>7, <1>8 DEF NewBelow

\* The current device goes on, changed by line l or not.
LEMMA CurrentGoesOn ==
    ASSUME GpuInv, NEW l, GpuReads(l), l.kind # "device",
           current = None => current' = None,
           current # None =>
             /\ current' \in Gpu!Device
             /\ current' = Gpu!RefDevice(Append(text, l), Gpu!DeviceOf(text, Len(text)),
                                         Len(devices) + 1),
           current_chain' = IF l.kind = "chain" THEN l.name ELSE current_chain,
           UNCHANGED devices,
           summary' = IF LooseNew(text, l) THEN l ELSE summary
    PROVE  GpuInv'
<1> DEFINE u == Append(text, l)
           h == Gpu!DeviceOf(text, Len(text))
<1>1. /\ Grown(text, l, u)
      /\ Between(text, devices, current, current_chain)
    BY Reading
<1>2. current' \in Gpu!Device \cup {None} /\ (current = None <=> current' = None)
    BY SetsAssumption
<1>3. PICK next : next = current'
    OBVIOUS
<1>4. PICK beyond : beyond = current_chain'
    OBVIOUS
<1> HIDE DEF u, h
<1>5. /\ current = None <=> next = None
      /\ current # None =>
           /\ next = Gpu!RefDevice(u, h, Len(devices) + 1)
           /\ beyond = IF l.kind = "chain" THEN l.name ELSE current_chain
    BY <1>2, <1>3, <1>4 DEF u, h
<1>6. Between(u, devices, next, beyond)
    BY <1>1, <1>5, DeviceGoesOn DEF h
<1>7. Between(u, devices', current', current_chain')
    BY <1>3, <1>4, <1>6
<1>8. devices' \in Seq(Gpu!Device) /\ current_chain' \in Chains \cup {None}
  <2>1. l.kind = "chain" => l.name \in Chains
    BY LineFields DEF GpuReads
  <2> QED
    BY <2>1 DEF GpuInv, GpuTypes
<1> QED
    BY <1>2, <1>7, <1>8, LineKeeps DEF u

\* A blank line changes nothing.
LEMMA GpuBlank ==
    ASSUME GpuInv, NEW l \in Gpu!Lines, Gpu!BlankLine(l)
    PROVE  GpuInv'
<1>1. GpuReads(l) /\ l.kind = "blank" /\ UNCHANGED Gpu!parserVars
    BY DEF Gpu!BlankLine, Gpu!Read, GpuReads
<1>2. ~LooseNew(text, l)
    BY <1>1 DEF LooseNew, Gpu!Plain, Gpu!ChainLine
<1> DEFINE h == Gpu!DeviceOf(text, Len(text))
           u == Append(text, l)
<1>3. current # None => /\ current \in Gpu!Device
                        /\ current = Gpu!RefDevice(u, h, Len(devices) + 1)
  <2> SUFFICES ASSUME current # None
               PROVE  current \in Gpu!Device /\ current = Gpu!RefDevice(u, h, Len(devices) + 1)
    OBVIOUS
  <2>1. /\ Grown(text, l, u) /\ h \in 1..Len(text) /\ current \in Gpu!Device
        /\ current = Gpu!RefDevice(text, h, Len(devices) + 1)
    BY <1>1, Reading
  <2>2. l.kind \notin {"field", "chain"} /\ l.kind \notin Gpu!ChainLine
    BY <1>1 DEF Gpu!ChainLine
  <2> HIDE DEF h, u
  <2>3. Gpu!RefDevice(u, h, Len(devices) + 1) = Gpu!RefDevice(text, h, Len(devices) + 1)
    BY <2>1, <2>2, DeviceStays
  <2> QED
    BY <2>1, <2>3
<1> QED
    BY <1>1, <1>2, <1>3, CurrentGoesOn DEF Gpu!parserVars

\* A device header keeps the invariant: the device before it is pushed.
LEMMA GpuDeviceHeader ==
    ASSUME GpuInv, NEW l \in Gpu!Lines, Gpu!DeviceHeader(l)
    PROVE  GpuInv'
<1> DEFINE all == IF current = None THEN devices ELSE Append(devices, current)
           new == Gpu!NewDevice(IF l.index = None THEN Len(all) ELSE l.index)
           u == Append(text, l)
<1>1. /\ GpuReads(l) /\ l.kind = "device" /\ devices' = all /\ current' = new
      /\ current_chain' = None /\ summary' = summary
    BY DEF Gpu!DeviceHeader, Gpu!Read, GpuReads, Gpu!Pushed
<1>2. ~LooseNew(text, l)
    BY <1>1 DEF LooseNew, Gpu!Plain, Gpu!ChainLine
<1>3. /\ devices \in Seq(Gpu!Device) /\ current \in Gpu!Device \cup {None}
      /\ all \in Seq(Gpu!Device) /\ Len(all) \in Nat
    BY DEF GpuInv, GpuTypes
<1>4. (IF l.index = None THEN Len(all) ELSE l.index) \in Nat
  <2>1. l.index \in Indices \cup {None}
    BY <1>1, LineFields
  <2> HIDE DEF all
  <2> QED
    BY <1>3, <2>1, SetsAssumption
<1>5. new \in Gpu!Device /\ new # None
  <2> HIDE DEF all
  <2> QED
    BY <1>4, NewDeviceType
<1>6. Grown(text, l, u) /\ Between(text, devices, current, current_chain)
    BY <1>1, Reading
<1>7. Between(u, all, new, None)
  <2>1. AllOf(all, devices, current) /\ StartedBy(new, l, all)
    BY DEF AllOf, StartedBy
  <2> HIDE DEF all, new, u
  <2> QED
    BY <1>1, <1>3, <1>5, <1>6, <2>1, DeviceStarts
<1> HIDE DEF all, new
<1> QED
    BY <1>1, <1>2, <1>3, <1>5, <1>7, LineKeeps DEF u

\* A chain header keeps it: the current device gets the entry.
LEMMA GpuChainHeader ==
    ASSUME GpuInv, NEW l \in Gpu!Lines, Gpu!ChainHeader(l)
    PROVE  GpuInv'
<1> DEFINE h == Gpu!DeviceOf(text, Len(text))
           u == Append(text, l)
           next == WithHeader(current, l.name)
<1>1. /\ GpuReads(l) /\ l.kind = "chain" /\ current_chain' = l.name
      /\ current' = IF current = None THEN None ELSE next
      /\ UNCHANGED <<devices, summary>>
    BY DEF Gpu!ChainHeader, Gpu!Read, GpuReads, WithHeader
<1>2. ~LooseNew(text, l)
    BY <1>1 DEF LooseNew, Gpu!Plain, Gpu!ChainLine
<1>3. ASSUME current # None
      PROVE  next \in Gpu!Device /\ next = Gpu!RefDevice(u, h, Len(devices) + 1)
  <2>1. /\ Grown(text, l, u) /\ h \in 1..Len(text) /\ NewBelow(text, l, h)
        /\ current = Gpu!RefDevice(text, h, Len(devices) + 1) /\ current \in Gpu!Device
    BY <1>1, <1>3, Reading
  <2>2. next \in Gpu!Device
    BY <1>1, <2>1, LineFields, HeaderType
  <2> HIDE DEF h, u
  <2>3. Gpu!RefDevice(u, h, Len(devices) + 1)
          = WithHeader(Gpu!RefDevice(text, h, Len(devices) + 1), l.name)
    BY <1>1, <2>1, ChainHeaderRead
  <2> QED
    BY <2>1, <2>2, <2>3
<1> HIDE DEF next
<1> QED
    BY <1>1, <1>2, <1>3, CurrentGoesOn

\* A key of a chain keeps it: the entry is updated, or the line is the summary.
LEMMA GpuChainField ==
    ASSUME GpuInv, NEW l \in Gpu!Lines, Gpu!ChainField(l)
    PROVE  GpuInv'
<1> DEFINE h == Gpu!DeviceOf(text, Len(text))
           u == Append(text, l)
           next == WithEntry(current, current_chain, l)
<1>1. /\ GpuReads(l) /\ l.kind \in Gpu!ChainLine /\ Gpu!HasEntry
      /\ current' = [current EXCEPT !.cert_chains[current_chain] = Gpu!SetEntry(@, l)]
      /\ UNCHANGED <<devices, current_chain, summary>>
    BY DEF Gpu!ChainField, Gpu!Read, GpuReads
<1>2. /\ current # None /\ current_chain # None
      /\ current_chain \in DOMAIN current.cert_chains
    BY <1>1 DEF Gpu!HasEntry
<1>3. l.kind \notin {"device", "chain", "field"} \cup Gpu!Plain
    BY <1>1 DEF Gpu!ChainLine, Gpu!Plain
<1>4. /\ Grown(text, l, u) /\ h \in 1..Len(text) /\ h # 0 /\ NewBelow(text, l, h)
      /\ Between(text, devices, current, current_chain)
      /\ current = Gpu!RefDevice(text, h, Len(devices) + 1) /\ current \in Gpu!Device
    BY <1>1, <1>2, <1>3, Reading
<1>5. Gpu!ChainOf(text, Len(text)) # 0 /\ Stands(text, Len(text), current_chain)
    BY <1>2, <1>4, EntryFound DEF GpuInv, GpuTypes
<1>6. ~LooseNew(text, l)
    BY <1>3, <1>4, <1>5 DEF LooseNew
<1>7. /\ current.cert_chains[current_chain] \in Gpu!CertChain
    BY <1>2, <1>4, ChainsDomain
<1>8. current' = next /\ next \in Gpu!Device
  <2>1. /\ Gpu!SetEntry(current.cert_chains[current_chain], l)
             = Updated(current.cert_chains[current_chain], l)
        /\ Updated(current.cert_chains[current_chain], l) \in Gpu!CertChain
    BY <1>1, <1>7, UpdatedCode
  <2>2. [current EXCEPT !.cert_chains[current_chain]
           = Updated(current.cert_chains[current_chain], l)] \in Gpu!Device
    BY <1>2, <1>4, <2>1, EntryType
  <2>3. next = [current EXCEPT !.cert_chains[current_chain]
                  = Updated(current.cert_chains[current_chain], l)]
    BY DEF WithEntry
  <2>4. current' = [current EXCEPT !.cert_chains[current_chain]
                      = Gpu!SetEntry(current.cert_chains[current_chain], l)]
    BY <1>1
  <2> QED
    BY <2>1, <2>2, <2>3, <2>4
<1>9. next = Gpu!RefDevice(u, h, Len(devices) + 1)
  <2> HIDE DEF h, u
  <2>1. Gpu!RefDevice(u, h, Len(devices) + 1)
          = WithEntry(Gpu!RefDevice(text, h, Len(devices) + 1), current_chain, l)
    BY <1>1, <1>4, <1>5, ChainFieldRead
  <2> QED
    BY <1>4, <2>1
<1> HIDE DEF next
<1> QED
    BY <1>1, <1>2, <1>3, <1>6, <1>8, <1>9, CurrentGoesOn

\* A key of a device keeps it: the field is set, or the line is the summary.
LEMMA GpuDeviceField ==
    ASSUME GpuInv, NEW l \in Gpu!Lines, Gpu!DeviceField(l)
    PROVE  GpuInv'
<1> DEFINE h == Gpu!DeviceOf(text, Len(text))
           u == Append(text, l)
           next == [current EXCEPT !.fields[l.name] = l.value]
<1>1. /\ GpuReads(l) /\ l.kind = "field" /\ current # None /\ current' = next
      /\ UNCHANGED <<devices, current_chain, summary>>
    BY DEF Gpu!DeviceField, Gpu!Read, GpuReads
<1>2. /\ Grown(text, l, u) /\ h \in 1..Len(text) /\ h # 0 /\ NewBelow(text, l, h)
      /\ current = Gpu!RefDevice(text, h, Len(devices) + 1) /\ current \in Gpu!Device
    BY <1>1, Reading
<1>3. ~LooseNew(text, l)
    BY <1>1, <1>2 DEF LooseNew, Gpu!Plain, Gpu!ChainLine
<1>4. next \in Gpu!Device
    BY <1>1, <1>2, LineFields, FieldType
<1>5. next = Gpu!RefDevice(u, h, Len(devices) + 1)
  <2> HIDE DEF h, u
  <2>1. Gpu!RefDevice(u, h, Len(devices) + 1)
          = [Gpu!RefDevice(text, h, Len(devices) + 1) EXCEPT !.fields[l.name] = l.value]
    BY <1>1, <1>2, DeviceFieldRead
  <2> QED
    BY <1>2, <2>1
<1> HIDE DEF next
<1> QED
    BY <1>1, <1>3, <1>4, <1>5, CurrentGoesOn

\* Any other line keeps it: it is the summary so far.
LEMMA GpuSummaryLine ==
    ASSUME GpuInv, NEW l \in Gpu!Lines, Gpu!SummaryLine(l)
    PROVE  GpuInv'
<1> DEFINE h == Gpu!DeviceOf(text, Len(text))
           u == Append(text, l)
<1>1. /\ GpuReads(l) /\ summary' = l /\ UNCHANGED <<devices, current, current_chain>>
      /\ \/ l.kind \in Gpu!Plain
         \/ l.kind \in Gpu!ChainLine /\ ~Gpu!HasEntry
         \/ l.kind = "field" /\ current = None
    BY DEF Gpu!SummaryLine, Gpu!Read, GpuReads
<1>2. /\ Grown(text, l, u) /\ Between(text, devices, current, current_chain)
      /\ current = None => h = 0
    BY <1>1, Reading
<1>3. ~Gpu!HasEntry => h = 0 \/ Gpu!ChainOf(text, Len(text)) = 0
    BY <1>2, EntryFound DEF Gpu!HasEntry, GpuInv, GpuTypes
<1>4. LooseNew(text, l)
    BY <1>1, <1>2, <1>3 DEF LooseNew
<1>5. l.kind \notin {"device", "chain"}
    BY <1>1 DEF Gpu!ChainLine, Gpu!Plain
<1>6. ASSUME current # None
      PROVE  current \in Gpu!Device /\ current = Gpu!RefDevice(u, h, Len(devices) + 1)
  <2>1. /\ h \in 1..Len(text) /\ h # 0 /\ current \in Gpu!Device
        /\ current = Gpu!RefDevice(text, h, Len(devices) + 1)
    BY <1>1, <1>6, Reading
  <2>2. l.kind \notin {"field", "chain"}
    BY <1>1, <1>6 DEF Gpu!ChainLine, Gpu!Plain
  <2>3. l.kind \in Gpu!ChainLine => Gpu!ChainOf(text, Len(text)) = 0
    BY <1>1, <1>3, <2>1 DEF Gpu!ChainLine, Gpu!Plain
  <2> HIDE DEF h, u
  <2>4. Gpu!RefDevice(u, h, Len(devices) + 1) = Gpu!RefDevice(text, h, Len(devices) + 1)
    BY <1>2, <2>1, <2>2, <2>3, DeviceStays
  <2> QED
    BY <2>1, <2>4
<1> QED
    BY <1>1, <1>4, <1>5, <1>6, CurrentGoesOn

\* The end of the text keeps it: the last device is pushed.
LEMMA GpuFinish ==
    ASSUME GpuInv, Gpu!Finish
    PROVE  GpuInv'
<1>1. /\ reply = Gpu!NoReply /\ script = "exit_zero" /\ current' = None
      /\ devices' = IF current = None THEN devices ELSE Append(devices, current)
      /\ reply' = [status |-> "ok", successful |-> Gpu!Successful(summary)]
      /\ UNCHANGED <<script, text, current_chain, summary>>
    BY DEF Gpu!Finish, Gpu!Parsing, Gpu!Pushed
<1>2. Between(text, devices, current, current_chain)
    BY <1>1 DEF GpuInv, Gpu!NoReply
<1>3. devices' = Gpu!RefDevices(text)
    BY <1>1, <1>2, BetweenAnswers DEF GpuInv, GpuTypes
<1>4. devices' \in Seq(Gpu!Device)
    BY <1>1 DEF GpuInv, GpuTypes
<1>5. GpuTypes'
    BY <1>1, <1>4 DEF GpuInv, GpuTypes, Gpu!Replies, Gpu!Successful
<1>6. (Gpu!ResultMatchesText)'
  <2>1. summary = Gpu!RefSummary(text) /\ text \in Seq(Gpu!Lines)
    BY DEF GpuInv, GpuTypes
  <2>2. Gpu!VerdictLast(text) => Gpu!Successful(summary) = Gpu!ReportsSuccess(text)
    BY <2>1, VerdictIsSummary
  <2> QED
    BY <1>1, <1>3, <2>1, <2>2 DEF Gpu!ResultMatchesText
<1>7. (summary = Gpu!RefSummary(text))' /\ reply'.status = "ok" /\ script' # "not_run"
    BY <1>1 DEF GpuInv
<1> QED
    BY <1>5, <1>6, <1>7 DEF GpuInv

\* The script's end keeps it: reading starts from nothing.
LEMMA GpuRunScript ==
    ASSUME GpuInv, NEW o \in Gpu!Outcomes, Gpu!RunScript(o)
    PROVE  GpuInv'
<1>1. /\ script = "not_run" /\ script' = o /\ UNCHANGED <<text, Gpu!parserVars>>
      /\ reply' = CASE o \in {"missing", "no_shell"} ->
                         [Gpu!NoReply EXCEPT !.status = "not_implemented"]
                    [] o \in {"spawn_error", "exit_nonzero"} ->
                         [Gpu!NoReply EXCEPT !.status = "internal"]
                    [] o = "exit_zero" -> Gpu!NoReply
    BY DEF Gpu!RunScript
<1>2. reply' \in Gpu!Replies /\ reply'.status # "ok"
  <2>1. CASE o \in {"missing", "no_shell"}
    BY <1>1, <2>1 DEF Gpu!Replies, Gpu!NoReply
  <2>2. CASE o \in {"spawn_error", "exit_nonzero"}
    BY <1>1, <2>2 DEF Gpu!Replies, Gpu!NoReply
  <2>3. CASE o = "exit_zero"
    BY <1>1, <2>3 DEF Gpu!Replies, Gpu!NoReply
  <2> QED
    BY <2>1, <2>2, <2>3 DEF Gpu!Outcomes
<1>3. Between(text, devices, current, current_chain) /\ summary = Gpu!RefSummary(text)
    BY <1>1 DEF GpuInv
<1>4. GpuTypes'
    BY <1>1, <1>2 DEF GpuInv, GpuTypes, Gpu!parserVars
<1>5. Between(text, devices, current, current_chain)' /\ (summary = Gpu!RefSummary(text))'
    BY <1>1, <1>3 DEF Gpu!parserVars
<1> QED
    BY <1>2, <1>4, <1>5 DEF GpuInv, Gpu!ResultMatchesText

\* The lines that the parser has read are always those that its state describes.
THEOREM GpuInvariance == Spec => []GpuInv
<1>1. Init => GpuInv
    BY GpuInit DEF Init
<1>2. GpuInv /\ [Next]_vars => GpuInv'
  <2> SUFFICES ASSUME GpuInv, [Next]_vars PROVE GpuInv'
    OBVIOUS
  <2>1. CASE UNCHANGED gpuVars
    BY <2>1 DEF GpuInv, GpuTypes, Gpu!ResultMatchesText, gpuVars
  <2>2. CASE Gpu!Next
    <3>1. ASSUME NEW o \in Gpu!Outcomes, Gpu!RunScript(o) PROVE GpuInv'
      BY <3>1, GpuRunScript
    <3>2. ASSUME NEW l \in Gpu!Lines, Gpu!ReadLine(l) PROVE GpuInv'
      BY <3>2, GpuBlank, GpuDeviceHeader, GpuChainHeader, GpuChainField, GpuDeviceField,
         GpuSummaryLine DEF Gpu!ReadLine
    <3>3. CASE Gpu!Finish
      BY <3>3, GpuFinish
    <3> QED
      BY <2>2, <3>1, <3>2, <3>3 DEF Gpu!Next
  <2> QED
    BY <2>1, <2>2 DEF Next, ParseGpu, DecodeChallenge, DecodeReport, ReadClock, RecordRequest,
       vars
<1> QED
    BY <1>1, <1>2, PTL DEF Spec

\* Reading line by line gives the result that the whole text describes: the
\* devices, their fields and chains, the summary, and the script's verdict when
\* it comes last.
THEOREM ResultIsTheText == Spec => []ResultMatchesText
<1>1. GpuInv => ResultMatchesText
    BY DEF GpuInv, ResultMatchesText
<1> QED
    BY <1>1, GpuInvariance, PTL
=============================================================================
