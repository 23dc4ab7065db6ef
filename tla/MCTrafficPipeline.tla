------------------------ MODULE MCTrafficPipeline ------------------------
(* Instances of TrafficPipeline for TLC: the files and options it runs on. *)
EXTENDS TrafficPipeline, SkewedFile, TLC

\* Two hours one after the other, at the end of February.
Before == <<2026, 2, 28, 23>>
After  == <<2026, 3, 1, 0>>

Line(text, len, date, light, cars) ==
    [text |-> text, len |-> len, date |-> date, light |-> light, cars |-> cars]

Short    == Line("record", 1, Before, 0, 2)
Long     == Line("record", 4, Before, 1, 1)
Late     == Line("record", 1, After, 1, 1)
LateFew  == Line("record", 1, After, 0, 1)
Empty    == Line("blank", 0, Before, 0, 0)
Return   == Line("blank", 1, Before, 0, 0)
Junk     == Line("junk", 1, Before, 0, 0)
TooLarge == Line("record", 1, Before, 2, 1)
NoMonth  == Line("record", 1, <<2026, 13, 1, 0>>, 0, 1)

Run(ls, ended, unreadable, broken, capacity, size, mode, progress) ==
    [file |-> [lines |-> ls, ended |-> ended], generated |-> FALSE, unreadable |-> unreadable, broken |-> broken,
     lights |-> 0, hours |-> 0, buffer |-> capacity, block |-> size, mode |-> mode, top |-> 1,
     progress |-> progress]

\* Files that begin and end with a record and have up to two lines between,
\* with or without a newline at the end.
Files ==
    LET Middle == UNION {[1 .. n -> {Short, Long, Empty, TooLarge}] : n \in 0 .. 2}
    IN  {<<Short>> \o m \o <<Late>> : m \in Middle} \union {<<Long>>}

SmallRuns ==
    {Run(f, e, {}, {}, 1, 1, m, FALSE) : f \in Files, e \in BOOLEAN, m \in {"seq", "atomic"}}

\* Files with a partial block, a range in which no line begins, ties in the
\* ranking; a capacity of 0, which the buffer raises to 1.
GoodRuns ==
    {Run(f, TRUE, {}, {}, 0, 2, "local", TRUE) :
        f \in {<<Short, Short, Long, Late, LateFew, Late>>, <<Short, Long, Return, LateFew, Late, Empty>>}}
    \union {[Run(<<Long, Short, Late, LateFew>>, FALSE, {}, {}, 2, 1, "shared", FALSE)
                EXCEPT !.top = 2, !.lights = 2]}

\* Runs that main gives up before it starts a thread, and files that do not open.
LostRuns ==
    {Run(f, TRUE, {}, {}, 1, 1, m, FALSE) :
        f \in {<<Empty, Late>>, <<Junk, Late>>, <<Short, NoMonth>>, <<Short, Line("record", 32, After, 1, 1)>>,
              <<Short, Late, Line("blank", 2, Before, 0, 0)>>},
        m \in {"seq", "atomic"}}
    \union {Run(<<Short, Late>>, TRUE, {}, b, 1, 1, m, TRUE) : b \in {{0}, {1}}, m \in {"seq", "shared"}}
    \union {Run(<<Short, Late>>, TRUE, {}, {}, 1, 0, "local", FALSE)}
    \union {[Run(<<Short, Late>>, TRUE, {}, {}, 1, 1, m, FALSE) EXCEPT !.hours = 1] : m \in {"seq", "local"}}

\* What mode gen writes, with the lowest counts and with others.
GeneratedRuns ==
    {[Run(<<>>, TRUE, {}, {}, 1, 4, "seq", FALSE) EXCEPT !.file = f, !.generated = TRUE, !.top = 2] :
        f \in {Generated(2, 3, 0), Generated(3, 1, 1000)}}

\* What traffic_gen_skew writes, with the incident in the first hour, so that
\* the last line has not the highest light, and in the last one.
Skew(lights, hours, rollout, share, incident) ==
    [lights |-> lights, hours |-> hours, rollout |-> rollout, share |-> share, incident |-> incident]

SkewedRuns ==
    {[Run(<<>>, TRUE, {}, {}, 1, 4, "seq", FALSE)
        EXCEPT !.file = Skewed(o, 7), !.lights = MaxLights(o), !.generated = TRUE] :
        o \in {Skew(4, 2, <<1, 1>>, <<2, 3>>, i) : i \in {-1, 0}} \union {Skew(9, 1, <<1, 2>>, <<1, 4>>, 0)}}

\* The claim of the generator for small networks and a day of hours
ASSUME SkewAssumption ==
    \A lights \in {1, 7, 20}, hours \in {1, 2, 10, 24}, rollout \in {<<1, 10>>, <<1, 1>>},
       share \in {<<0, 1>>, <<1, 4>>, <<9, 10>>}, incident \in {-1, 0, 9} :
        LET o == Skew(lights, hours, rollout, share, incident)
        IN  SkewAccepted(o) => IncidentHoldsShare(o)

CheckedRuns == SmallRuns \union GoodRuns \union LostRuns \union GeneratedRuns \union SkewedRuns

ASSUME RegularAssumption == \A r \in CheckedRuns : Regular(r)

\* A file whose second half cannot be read to its end.
FailingRuns == {Run(<<Short, Short, LateFew, LateFew>>, TRUE, {4}, {}, 1, 1, "atomic", FALSE)}
=============================================================================
