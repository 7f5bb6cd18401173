------------------------------ MODULE CronExpr ------------------------------
(***************************************************************************)
(* The expression library of the cron component (comp/cron/ccronexpr.cpp): *)
(* cron_parse_expr turns a text of six fields into sets of bits, cron_next *)
(* searches the calendar for the next instant that has all its bits.       *)
(*                                                                         *)
(* do_next calls itself whenever a field had to move, from four places; a  *)
(* call is a frame of `stack` here, so that its depth can be seen.  The    *)
(* calendar (lengths of minute, hour, day, week, months) is a parameter:   *)
(* every length of the code is a literal of the file.  Its months repeat   *)
(* after a number of years, as those of the real one do after 400.         *)
(*                                                                         *)
(* ExprInit, ExprNext, ExprSpec and exprVars are named so that CronProofs  *)
(* can extend this module together with CronSched.                         *)
(***************************************************************************)
EXTENDS Integers, Sequences, FiniteSets, FiniteSetsExt

CONSTANTS
    Sec, Min60, Hours,  \* CRON_MAX_SECONDS, CRON_MAX_MINUTES, CRON_MAX_HOURS
    Week,               \* CRON_DAYS_ARR_LEN
    Months,             \* CRON_MAX_MONTHS
    MaxDayOfMonth,      \* CRON_MAX_DAYS_OF_MONTH - 1
    Days,               \* the length of each month of the years that repeat
    MaxDays,            \* the 366 of find_next_day
    YearsDiff,          \* CRON_MAX_YEARS_DIFF
    Text,               \* the expressions: a sequence of parts for each field
    From                \* the instants to search from

ASSUME LengthAssumption ==
    /\ {Sec, Min60, Hours, Week, Months} \subseteq Nat \ {0}
    /\ {MaxDayOfMonth, MaxDays, YearsDiff} \subseteq Nat
ASSUME FromAssumption == From \subseteq Nat

VARIABLES
    text,   \* the expression as it was written
    expr,   \* the bits it was parsed into
    from,   \* the argument date of cron_next
    pc,     \* where the running do_next is
    cal,    \* the struct tm
    resets, \* its local array of lower orders
    stack,  \* the calls of do_next that wait for it
    dot,    \* its argument, the year the search began in
    again,  \* whether this is the second search
    result  \* what cron_next returned

exprVars == <<text, expr, from, pc, cal, resets, stack, dot, again, result>>
-----------------------------------------------------------------------------
(* Parsing.  A part is "*", a number, or a range, each with an optional    *)
(* increment: [lo, hi, by], where lo = hi for a number, by = 0 without an  *)
(* increment; "*" is Star.                                                 *)

Star == [lo |-> -1, hi |-> -1, by |-> 0]
StarBy(n) == [Star EXCEPT !.by = n]
Number(n) == [lo |-> n, hi |-> n, by |-> 0]
FromBy(n, d) == [lo |-> n, hi |-> n, by |-> d]
Part(a, b) == [lo |-> a, hi |-> b, by |-> 0]

\* The two ends of a part; an increment after a single number runs to the end.
get_range(p, min, max) ==
    LET star == p.lo = -1
    IN  [lo |-> IF star THEN min ELSE p.lo,
         hi |-> IF star \/ (p.by > 0 /\ p.lo = p.hi) THEN max - 1 ELSE p.hi]

Rejected(p, min, max) ==
    /\ p.lo # -1
    /\ \/ p.lo >= max \/ p.hi >= max
       \/ p.lo < min \/ p.hi < min
       \/ p.lo > p.hi

\* Every field has a part; only those of "*" have no lower end.
ASSUME TextAssumption ==
    \A tx \in Text : \A f \in {"sec", "min", "hour", "wday", "mday", "mon"} :
        /\ tx[f] # <<>>
        /\ tx[f] \in Seq([lo : Nat \cup {-1}, hi : Nat \cup {-1}, by : Nat])

\* The bits of the parts before the first one that is rejected.
set_number_hits(parts, min, max) ==
    {v \in min .. max - 1 :
        \E i \in DOMAIN parts :
            /\ \A j \in 1 .. i : ~Rejected(parts[j], min, max)
            /\ LET r == get_range(parts[i], min, max)
               IN  /\ v \in r.lo .. r.hi
                   /\ parts[i].by > 0 => (v - r.lo) % parts[i].by = 0}

Fields == <<"sec", "min", "hour", "wday", "mday", "mon">>
Lowest == [sec |-> 0, min |-> 0, hour |-> 0, wday |-> 0, mday |-> 1, mon |-> 1]
Above == [sec |-> Sec, min |-> Min60, hour |-> Hours, wday |-> Week + 1,
          mday |-> MaxDayOfMonth + 1, mon |-> Months + 1]

Bad(tx, i) == LET f == Fields[i]
              IN  \E j \in DOMAIN tx[f] : Rejected(tx[f][j], Lowest[f], Above[f])

\* The fields are parsed in the order of Fields up to the first error, and
\* whatever is set by then stays: the caller does not look at the error.  Day 7
\* becomes day 0, and month 1 becomes bit 0.
cron_parse_expr(tx) ==
    [f \in {Fields[i] : i \in 1 .. 6} |->
        LET i == CHOOSE n \in 1 .. 6 : Fields[n] = f
            hits == set_number_hits(tx[f], Lowest[f], Above[f])
        IN  IF \E j \in 1 .. i - 1 : Bad(tx, j) THEN {}
            ELSE CASE f = "mon" -> {b - 1 : b \in hits}
                   [] f = "wday" /\ ~Bad(tx, i) -> {b % Week : b \in hits}
                   [] OTHER -> hits]
-----------------------------------------------------------------------------
(* The calendar *)

\* The first day of every month of the years that repeat,
MonthStart[k \in 0 .. Len(Days)] == IF k = 0 THEN 0 ELSE MonthStart[k - 1] + Days[k]

\* and of every month, counted from the first year.
FirstDay(k) == (k \div Len(Days)) * MonthStart[Len(Days)] + MonthStart[k % Len(Days)]

\* A month has a week at least; the first and the last of a year are as long as a
\* month can be, and a search of MaxDays days sees a whole year.
ASSUME DaysAssumption ==
    /\ Days \in Seq(Week .. MaxDayOfMonth)
    /\ Len(Days) > 0 /\ Len(Days) % Months = 0
    /\ \A i \in 1 .. Len(Days) :
          (i % Months = 0 \/ (i - 1) % Months = 0) => Days[i] = MaxDayOfMonth
    /\ \A i \in 0 .. Len(Days) - 1 :
          i % Months = 0 => MonthStart[i + Months] - MonthStart[i] <= MaxDays

Broken == [year : Nat, mon : Nat, mday : Nat, hour : Nat, min : Nat, sec : Nat]
DayNumber == [c \in Broken |-> FirstDay(c.year * Months + c.mon) + c.mday - 1]
Instant == [c \in Broken |-> ((DayNumber[c] * Hours + c.hour) * Min60 + c.min) * Sec + c.sec]
Wday(c) == DayNumber[c] % Week

MonthOf(d) ==
    LET r == d % MonthStart[Len(Days)]
    IN  (d \div MonthStart[Len(Days)]) * Len(Days)
            + CHOOSE n \in 0 .. Len(Days) - 1 : MonthStart[n] <= r /\ r < MonthStart[n + 1]

Calendar ==
    [t \in Nat |->
        LET m == t \div Sec
            h == m \div Min60
            d == h \div Hours
            k == MonthOf(d)
        IN  [year |-> k \div Months, mon |-> k % Months, mday |-> d - FirstDay(k) + 1,
             hour |-> h % Hours, min |-> m % Min60, sec |-> t % Sec]]

\* mktime: fields beyond their range carry over.
mktime == [c \in Broken |-> Calendar[Instant[c]]]

add_to_field(c, f) == mktime[[c EXCEPT ![f] = @ + 1]]
set_field(c, f, v) == mktime[[c EXCEPT ![f] = v]]
reset_min(c, f) == set_field(c, f, IF f = "mday" THEN 1 ELSE 0)

\* Faulty: the lower fields keep what they were.
reset_all_min_none(c, fs) == c

\* Every field goes to its least value, which no later carry disturbs.
reset_all_min(c, fs) ==
    [f \in DOMAIN c |-> IF f \in fs THEN IF f = "mday" THEN 1 ELSE 0 ELSE c[f]]

\* find_next: the next bit from the field's value on, or the first one after
\* the next higher field has moved; the bit 0 if there is none at all.
find_next(f, nextField, lower) ==
    LET bits == expr[f]
        ahead == {b \in bits : b >= cal[f]}
        rolled == IF ahead = {} THEN reset_min(add_to_field(cal, nextField), f) ELSE cal
        value == IF ahead # {} THEN Min(ahead) ELSE IF bits # {} THEN Min(bits) ELSE 0
    IN  [value |-> value,
         cal |-> IF ahead # {} /\ value = cal[f] THEN cal
                 ELSE reset_all_min(set_field(rolled, f, value), lower)]

\* find_next_day: one day after another, at most MaxDays times.
find_next_day ==
    LET after == [n \in 0 .. MaxDays |-> mktime[[cal EXCEPT !.mday = @ + n]]]
        fits(n) == after[n].mday \in expr.mday /\ Wday(after[n]) \in expr.wday
        n == Min({i \in 0 .. MaxDays - 1 : fits(i)} \cup {MaxDays})
        end == IF n = 0 THEN cal ELSE reset_all_min(after[n], resets)
    IN  [value |-> end.mday, cal |-> end]
-----------------------------------------------------------------------------
(* cron_next and do_next *)

ExprInit ==
    /\ text \in Text /\ from \in From
    /\ expr = cron_parse_expr(text)
    /\ pc = "second" /\ cal = Calendar[from] /\ dot = Calendar[from].year
    /\ resets = {} /\ stack = <<>> /\ again = FALSE /\ result = -2

call == <<text, expr, from, dot, again, result>>

\* do_next calls itself, and its caller goes on at `next`.
Recurse(next) ==
    /\ stack' = <<[pc |-> next, resets |-> resets]>> \o stack
    /\ pc' = "second" /\ resets' = {}

Second ==
    /\ pc = "second"
    /\ LET n == find_next("sec", "min", {})
       IN  /\ cal' = n.cal
           /\ resets' = IF n.value = cal.sec THEN {"sec"} ELSE {}
    /\ pc' = "minute"
    /\ UNCHANGED <<stack, call>>

\* One field: when it need not move the search goes on with the next one.
Search(f, n, next) ==
    /\ cal' = n.cal
    /\ IF n.value = cal[f]
       THEN resets' = resets \cup {f} /\ pc' = next /\ UNCHANGED stack
       ELSE Recurse(next)
    /\ UNCHANGED call

Minute == pc = "minute" /\ Search("min", find_next("min", "hour", resets), "hour")
Hour == pc = "hour" /\ Search("hour", find_next("hour", "mday", resets), "day")
DayStep == pc = "day" /\ Search("mday", find_next_day, "month")

\* No instant within the next years: the search gives up.
TooFar(c) == c.year - dot > YearsDiff

Month ==
    /\ pc = "month"
    /\ LET n == find_next("mon", "year", resets)
       IN  /\ cal' = n.cal
           /\ \/ /\ n.value = cal.mon
                 /\ pc' = "return"
                 /\ UNCHANGED <<resets, stack, result>>
              \/ /\ n.value # cal.mon
                 /\ ~TooFar(n.cal)
                 /\ Recurse("return")
                 /\ UNCHANGED result
              \/ /\ n.value # cal.mon
                 /\ TooFar(n.cal)
                 /\ pc' = "done" /\ result' = -1
                 /\ UNCHANGED <<resets, stack>>
    /\ UNCHANGED <<text, expr, from, dot, again>>

Return ==
    /\ pc = "return" /\ stack # <<>>
    /\ pc' = Head(stack).pc /\ resets' = Head(stack).resets /\ stack' = Tail(stack)
    /\ UNCHANGED <<cal, call>>

\* cron_next: an instant that is the date itself is not after it.
Finish ==
    /\ pc = "return" /\ stack = <<>>
    /\ IF Instant[cal] = from /\ ~again
       THEN /\ cal' = add_to_field(cal, "sec")
            /\ dot' = add_to_field(cal, "sec").year
            /\ again' = TRUE /\ resets' = {} /\ pc' = "second"
            /\ UNCHANGED result
       ELSE /\ result' = Instant[cal] /\ pc' = "done"
            /\ UNCHANGED <<cal, dot, again, resets>>
    /\ UNCHANGED <<text, expr, from, stack>>

ExprNext == Second \/ Minute \/ Hour \/ DayStep \/ Month \/ Return \/ Finish
ExprSpec == ExprInit /\ [][ExprNext]_exprVars
-----------------------------------------------------------------------------
(* Properties *)

\* What the text means, part by part, with day Week as another name of day 0.
Means(f, v) ==
    \E i \in DOMAIN text[f] :
        LET p == text[f][i]
            lo == IF p.lo = -1 THEN Lowest[f] ELSE p.lo
        IN  \E w \in IF f = "wday" /\ v = 0 THEN {0, Week} ELSE {v} :
                /\ w >= lo
                /\ p.lo = -1 \/ (p.by > 0 /\ p.lo = p.hi) \/ w <= p.hi
                /\ p.by > 0 => (w - lo) % p.by = 0

Matches(t) ==
    LET c == Calendar[t]
    IN  /\ Means("sec", c.sec) /\ Means("min", c.min) /\ Means("hour", c.hour)
        /\ Means("mday", c.mday) /\ Means("mon", c.mon + 1) /\ Means("wday", Wday(c))

LastInstant(year) == FirstDay((year + 1) * Months) * Hours * Min60 * Sec - 1

\* The texts that cron_next can search: without an error, without a gap in the
\* seconds (a second that moves is not reset when the minute moves next), not for
\* days of the month and of the week together (a search that ends a month later
\* counts as one that has not moved), and for single months only with a single day
\* (mktime takes the 31st of a short month for the next month).
Regular ==
    /\ \A i \in 1 .. 6 : ~Bad(text, i)
    /\ \A a, b \in expr.sec : a .. b \subseteq expr.sec
    /\ expr.mday = 1 .. MaxDayOfMonth \/ expr.wday = 0 .. Week - 1
    /\ expr.mon = 0 .. Months - 1 \/ \E d \in expr.mday : expr.mday = {d}

\* ccronexpr.h:66, "Uses the specified expression to calculate the next 'fire'
\* date after the specified date": the instant found is after the date, matches
\* the text, and no instant between them does; without an instant there is none
\* for years (ccronexpr.cpp:399-487, 904-945).
FindsNext ==
    pc = "done" /\ Regular =>
        IF result = -1
        THEN \A t \in from + 1 .. LastInstant(Calendar[from].year + YearsDiff) : ~Matches(t)
        ELSE /\ result > from /\ Matches(result)
             /\ \A t \in from + 1 .. result - 1 : ~Matches(t)

\* What makes FindsNext inductive: the search began in the year dot, and from Start
\* to the date it has reached no instant fits; at each step the fields searched so
\* far fit, the lower ones will be reset when the next one moves (a second that has
\* moved is the first one), and after a call of do_next that found an instant
\* nothing moves any more.
Start == IF again THEN from + 1 ELSE from

DayFits(c) == c.mday \in expr.mday /\ Wday(c) \in expr.wday
Fits(c) ==
    /\ c.sec \in expr.sec /\ c.min \in expr.min /\ c.hour \in expr.hour
    /\ DayFits(c) /\ c.mon \in expr.mon

SecondFound ==
    /\ cal.sec \in expr.sec
    /\ "sec" \in resets \/ \A b \in expr.sec : cal.sec <= b

Reached ==
    /\ cal \in Broken /\ cal = Calendar[Instant[cal]] /\ dot = Calendar[Start].year
    /\ Instant[cal] >= Start
    /\ \A t \in Start .. Instant[cal] - 1 : ~Fits(Calendar[t])

Found ==
    /\ pc = "minute" => SecondFound /\ resets \subseteq {"sec"}
    /\ pc = "hour" => \/ Fits(cal)
                      \/ /\ SecondFound /\ cal.min \in expr.min
                         /\ resets \cup {"sec"} = {"sec", "min"}
    /\ pc = "day" => \/ Fits(cal)
                     \/ /\ SecondFound /\ cal.min \in expr.min /\ cal.hour \in expr.hour
                        /\ resets \cup {"sec"} = {"sec", "min", "hour"}
    /\ pc = "month" => \/ Fits(cal)
                       \/ /\ SecondFound /\ cal.min \in expr.min /\ cal.hour \in expr.hour
                          /\ DayFits(cal)
                          /\ resets \cup {"sec"} = {"sec", "min", "hour", "mday"}
    /\ pc = "return" => Fits(cal)
    /\ pc = "done" => \/ result = -1 /\ TooFar(cal)
                      \/ result = Instant[cal] /\ result > from /\ Fits(cal)

\* The fields that can be reset.
Lower == {"sec", "min", "hour", "mday"}

ExprInv ==
    /\ text \in Text /\ from \in From /\ again \in BOOLEAN
    /\ expr = cron_parse_expr(text)
    /\ stack \in Seq([pc : {"hour", "day", "month", "return"}, resets : SUBSET Lower])
    /\ resets \in SUBSET Lower
    /\ Regular => Reached /\ Found
=============================================================================
