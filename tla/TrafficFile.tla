---------------------------- MODULE TrafficFile ----------------------------
(***************************************************************************)
(* The input of m2t3d/traffic_sim.cpp and what its functions make of it:   *)
(* the bytes of the lines, parseLine with its calendar, probeFile, the     *)
(* byte ranges of the producers, and the ranking of the totals.            *)
(*                                                                         *)
(* A file is its lines and whether a newline ends the last one.  A line    *)
(* has a length in bytes, and its text is a record (<<y, m, d, hour>>, its *)
(* light and cars), carriage returns only, or anything else.               *)
(***************************************************************************)
EXTENDS Integers, Sequences, FiniteSets, SequencesExt

CONSTANT TailBytes   \* the bytes at the end that probeFile reads

ASSUME TailAssumption == TailBytes \in Nat \ {0}

-----------------------------------------------------------------------------
(* The calendar; \div rounds down, / of the code towards zero              *)

DaysFromCivil(y, m, d) ==
    LET year == IF m <= 2 THEN y - 1 ELSE y
        era  == year \div 400
        yoe  == year - era * 400
        doy  == (153 * (m + (IF m > 2 THEN -3 ELSE 9)) + 2) \div 5 + d - 1
    IN  era * 146097 + yoe * 365 + yoe \div 4 - yoe \div 100 + doy - 719468

CivilFromDays(days) ==
    LET z   == days + 719468
        era == z \div 146097
        doe == z - era * 146097
        yoe == (doe - doe \div 1460 + doe \div 36524 - doe \div 146096) \div 365
        doy == doe - (365 * yoe + yoe \div 4 - yoe \div 100)
        mp  == (5 * doy + 2) \div 153
        m   == mp + (IF mp < 10 THEN 3 ELSE -9)
    IN  <<yoe + era * 400 + (IF m <= 2 THEN 1 ELSE 0), m, doy - (153 * mp + 2) \div 5 + 1>>

AbsHour(date) == DaysFromCivil(date[1], date[2], date[3]) * 24 + date[4]

\* The date and hour printed for an hour; before 1970 the remainder is negative.
HourLabel(absHour) ==
    LET day == IF absHour >= 0 THEN absHour \div 24 ELSE -((-absHour) \div 24)
    IN  Append(CivilFromDays(day), absHour - 24 * day)

-----------------------------------------------------------------------------
(* Lines and their bytes                                                   *)

Parses(line) ==
    /\ line.text = "record"
    /\ line.date[2] \in 1 .. 12 /\ line.date[3] \in 1 .. 31 /\ line.date[4] \in 0 .. 23

FirstByte(f, i) == MapThenSumSet(LAMBDA j : f.lines[j].len + 1, 1 .. i - 1)

FileSize(f) == FirstByte(f, Len(f.lines) + 1) - (IF f.ended THEN 0 ELSE 1)

\* A producer's range is [RangeStart(i), RangeStart(i + 1)).
RangeStart(f, i, producers) == (FileSize(f) * i) \div producers

-----------------------------------------------------------------------------
(* The files that mode gen writes                                          *)

\* appendUInt
Digits(v) == CHOOSE n \in 1 .. 20 : v < 10^n /\ (n > 1 => v >= 10^(n - 1))

RushWeight == <<30, 22, 18, 16, 20, 35, 60, 90, 100, 85, 70, 68,
                72, 70, 68, 75, 92, 100, 88, 70, 58, 48, 40, 34>>

BaseRate(light) == (18 + (light % 7) * 6) * (IF light % 89 = 0 THEN 3 ELSE 1)

\* The count of a light in an hour, from a number of the random generator.
CarCount(light, absHour, random) ==
    LET mean   == (BaseRate(light) * RushWeight[(absHour % 24) + 1]) \div 100
        spread == mean \div 3 + 4
    IN  Max({0, mean - spread + (random % (2 * spread + 1))})

\* runGenerate: by hour, five minutes and light, here with one number for all.
Generated(lights, hours, random) ==
    LET base == DaysFromCivil(2026, 8, 1) * 24
        LineOf(h, l) ==
            LET cars == CarCount(l, base + h, random)
            IN  [text |-> "record", light |-> l, cars |-> cars,
                 len |-> 20 + Max({4, Digits(l)}) + Digits(cars),
                 date |-> Append(CivilFromDays((base + h) \div 24), (base + h) % 24)]
    IN  [lines |-> [k \in 1 .. hours * 12 * lights |->
                        LineOf((k - 1) \div (12 * lights), (k - 1) % lights)],
         ended |-> TRUE]

-----------------------------------------------------------------------------
(* probeFile and the dimensions it gives                                   *)

LastText(f) == Max({i \in DOMAIN f.lines : f.lines[i].text # "blank"})

\* The first line and the last one with a text are records. A last line that
\* begins before the tail is cut, and what is left of it is no record.
Probed(f) ==
    /\ FileSize(f) > 0
    /\ Parses(f.lines[1])
    /\ Parses(f.lines[LastText(f)])
    /\ FileSize(f) - FirstByte(f, LastText(f)) <= TailBytes

BaseHour(f) == AbsHour(f.lines[1].date)

Lights(f, o) == IF o.lights # 0 THEN o.lights ELSE f.lines[LastText(f)].light + 1
Hours(f, o) == IF o.hours # 0 THEN o.hours
               ELSE AbsHour(f.lines[LastText(f)].date) - BaseHour(f) + 1

CellOf(f, line) == <<AbsHour(line.date) - BaseHour(f), line.light>>

\* The hours and lights that the totals have room for.
Cells(f, o) == (0 .. Hours(f, o) - 1) \X (0 .. Lights(f, o) - 1)

\* A line that the loops refuse: no record, or one outside the probed range.
\* They strip one carriage return, where the probe strips all.
LineRefused(f, o, line) ==
    IF line.text = "blank" THEN line.len > 1
    ELSE Parses(line) => CellOf(f, line) \notin Cells(f, o)

-----------------------------------------------------------------------------
(* rankAndReport                                                           *)

BusierFirst(a, b) == a.cars > b.cars \/ (a.cars = b.cars /\ a.light < b.light)

\* The lights of an hour that had cars, the first top of them in order.
TopLights(sums, hour, top) ==
    LET busy == {[light |-> c[2], cars |-> sums[c]] : c \in {x \in DOMAIN sums : x[1] = hour /\ sums[x] > 0}}
        Place(t) == Cardinality({u \in busy : BusierFirst(u, t)}) + 1
    IN  [k \in 1 .. Min({top, Cardinality(busy)}) |-> CHOOSE t \in busy : Place(t) = k]

\* The hours with cars, each under the date and hour it is printed with.
RankAndReport(f, sums, top) ==
    {[label |-> HourLabel(BaseHour(f) + h), lights |-> TopLights(sums, h, top)] :
        h \in {c[1] : c \in {x \in DOMAIN sums : sums[x] > 0}}}

-----------------------------------------------------------------------------
(* Which files the calendar and the probe are meant for                    *)

\* The days of the Gregorian calendar
Leap(y) == y % 4 = 0 /\ (y % 100 # 0 \/ y % 400 = 0)
DaysIn(y, m) == CASE m = 2 -> (IF Leap(y) THEN 29 ELSE 28) [] m \in {4, 6, 9, 11} -> 30 [] OTHER -> 31
IsDay(y, m, d) == y \in Int /\ m \in 1 .. 12 /\ d \in 1 .. DaysIn(y, m)

\* A day and an hour of it that is not before 1970
IsDate(date) ==
    Len(date) = 4 /\ IsDay(date[1], date[2], date[3]) /\ date[4] \in 0 .. 23 /\ AbsHour(date) >= 0

\* What a generator writes: records, hour by hour, that options o have room for.
Written(f, o) ==
    LET last == Len(f.lines)
        Hour(i) == AbsHour(f.lines[i].date)
    IN  /\ f.ended /\ f.lines # <<>> /\ f.lines[last].len < TailBytes
        /\ \A i \in DOMAIN f.lines :
              /\ f.lines[i].text = "record" /\ IsDate(f.lines[i].date)
              /\ Hour(1) <= Hour(i) /\ Hour(i) <= Hour(last)
              /\ f.lines[i].light < Lights(f, o)
        /\ o.hours = 0 \/ o.hours > Hour(last) - Hour(1)
=============================================================================
