----------------------------- MODULE SkewedFile -----------------------------
(***************************************************************************)
(* m3t3d/traffic_gen_skew.cpp: a traffic file whose keys are unevenly      *)
(* spread over the hours.  The options are lights, hours, the rollout and  *)
(* the incident's share as fractions <<n, d>>, and the incident hour.  The *)
(* fractions are exact here, where the code's doubles are not.             *)
(***************************************************************************)
EXTENDS TrafficFile, FiniteSets

\* parseArgs: an incident hour below 0 stands for the middle one.
IncidentHour(o) == IF o.incident < 0 THEN o.hours \div 2 ELSE o.incident

SkewAccepted(o) ==
    /\ o.lights > 0 /\ o.hours > 0
    /\ 0 < o.rollout[1] /\ o.rollout[1] <= o.rollout[2]
    /\ 0 <= o.share[1] /\ o.share[1] < o.share[2]
    /\ IncidentHour(o) < o.hours

SkewBase == DaysFromCivil(2026, 8, 1) * 24

\* std::lround and std::ceil of n / d
Rounded(n, d) == (2 * n + d) \div (2 * d)
Ceiling(n, d) == -((-n) \div d)

\* activeLightsPerHour: the installed share of the lights grows to all of them,
\* and the rush weight says how many of them report; at least one does.
ActiveLights(o, h) ==
    LET last      == IF o.hours > 1 THEN o.hours - 1 ELSE 1
        progress  == IF o.hours > 1 THEN h ELSE 1
        installed == o.rollout[1] * last + (o.rollout[2] - o.rollout[1]) * progress
        weight    == RushWeight[((SkewBase + h) % 24) + 1]
    IN  Max({1, Rounded(o.lights * installed * weight, 100 * o.rollout[2] * last)})

\* The lights of all hours but the incident's
OtherLights(o) == MapThenSumSet(LAMBDA h : ActiveLights(o, h), (0 .. o.hours - 1) \ {IncidentHour(o)})

\* incidentExtraLights
ExtraLights(o) ==
    LET rest == o.share[2] - o.share[1]
        more == o.share[1] * OtherLights(o) - rest * ActiveLights(o, IncidentHour(o))
    IN  IF o.share[1] > 0 /\ more > 0 THEN Ceiling(more, rest) ELSE 0

\* What --lights of traffic_sim has to be
MaxLights(o) == o.lights + ExtraLights(o)

\* The lights that report in an hour, the incident's temporary ones last.
Ids(o, h) ==
    [i \in 1 .. ActiveLights(o, h) |-> i - 1]
    \o [i \in 1 .. (IF h = IncidentHour(o) THEN ExtraLights(o) ELSE 0) |-> o.lights + i - 1]

\* main: by hour, five minutes and light, here with one random number for all.
Skewed(o, random) ==
    LET LineOf(h, l) ==
            LET cars == CarCount(l, SkewBase + h, random)
            IN  [text |-> "record", light |-> l, cars |-> cars, len |-> 20 + Max({4, Digits(l)}) + Digits(cars),
                 date |-> Append(CivilFromDays((SkewBase + h) \div 24), (SkewBase + h) % 24)]
        slot(h) == [i \in DOMAIN Ids(o, h) |-> LineOf(h, Ids(o, h)[i])]
    IN  [lines |-> FlattenSeq([k \in 1 .. 12 * o.hours |-> slot((k - 1) \div 12)]), ended |-> TRUE]

(* "one hour adds enough temporary counters that it holds --incident-share *)
(* of every key in the file": with them the incident hour has its share of *)
(* the pairs of an hour and a light, with one fewer it would not, and a    *)
(* temporary light is none that reports elsewhere.                         *)
IncidentHoldsShare(o) ==
    LET inHour == Len(Ids(o, IncidentHour(o)))
        enough(n) == n * o.share[2] >= o.share[1] * (n + OtherLights(o))
    IN  /\ enough(inHour)
        /\ ExtraLights(o) > 0 => ~enough(inHour - 1)
        /\ \A h \in 0 .. o.hours - 1 : Len(Ids(o, h)) = Cardinality(ToSet(Ids(o, h)))
        /\ \A h \in 0 .. o.hours - 1 : ActiveLights(o, h) <= o.lights
=============================================================================
