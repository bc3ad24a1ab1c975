---------------------------- MODULE MC_OutputPower ----------------------------
EXTENDS OutputPower

\* A night of black or off, a morning, and the timetable running out from either.
HourTimetables == {plan \in [0..MaxHour -> {"on", "off", "ran-out"}] :
                plan[0] # "ran-out" /\ \A h \in 1..MaxHour : plan[h] # plan[h - 1]}
===============================================================================
