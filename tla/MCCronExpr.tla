----------------------------- MODULE MCCronExpr -----------------------------
(* A minute of three seconds, an hour of two minutes, a day of two hours, a  *)
(* week of two days, a year of months of 4, 2 and 4 days, and one day more *)
(* in the second month of every third year.  As in the code's calendar a   *)
(* week is no longer than the shortest month, one month never has the      *)
(* last days, and a day of it comes in leap years only.                    *)
EXTENDS CronExpr

Year == <<4, 2, 4>>
Leap == <<4, 3, 4>>
MCDays == Year \o Leap \o Year

Any == <<Star>>
Texts(secs, mins, hours, mdays, mons, wdays) ==
    [sec : secs, min : mins, hour : hours, mday : mdays, mon : mons, wday : wdays]

\* The expression of add_cron, for every hour and minute.
Daily == Texts({<<Number(0)>>}, {<<Number(n)>> : n \in 0 .. 1},
               {<<Number(n)>> : n \in 0 .. 1}, {Any}, {Any}, {Any})
\* Days of the month or of the week, with lists, ranges and increments.
ByDay == Texts({<<Part(1, 2)>>, Any}, {<<StarBy(2)>>}, {<<Number(1)>>, Any},
               {Any}, {Any}, {Any, <<Number(2)>>, <<Part(1, 2)>>, <<Number(1)>>})
    \cup Texts({<<Number(0)>>, Any}, {<<Number(1)>>, Any}, {<<Number(0)>>},
               {<<Number(4)>>, <<Number(1), Number(3)>>, <<FromBy(2, 2)>>, <<Part(2, 3)>>},
               {Any}, {Any})
\* Days every month has, or that only some years have, of one month.
ByMonth == Texts({<<Number(1)>>}, {<<Number(1)>>}, {<<Number(0)>>},
                 {<<Number(1)>>, <<Number(3)>>, <<Number(4)>>},
                 {<<Number(2)>>, <<Number(1), Number(3)>>}, {Any})
MCText == Daily \cup ByDay \cup ByMonth
MCFrom == {t \in 0 .. 263 : t % 12 \in {0, 1, 10, 11}}
=============================================================================
