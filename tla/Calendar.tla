------------------------------ MODULE Calendar ------------------------------
(***************************************************************************)
(* The calendar behind packages/cron/src/planner: the fields and tokens of *)
(* a cron expression, the filter of the calendars and the rrule planner    *)
(* with its cursor.  Day 0 is Monday, January 1st 2024, in UTC.  Of the    *)
(* time of a day only the hour is kept, of which a day has DayHours; the   *)
(* minutes and seconds are fields like it.                                 *)
(***************************************************************************)
EXTENDS Integers, Sequences, SequencesExt, FiniteSets, FiniteSetsExt

CONSTANTS
    MaxDay,     \* bound: the last day
    DayHours,
    Months,     \* the <<year, month>> whose day tokens are compared
    Rules,      \* rrule specifications
    Afters,     \* what next is called with
    SearchDays, \* limit: the days that one call looks at
    MaxNexts    \* bound on the calls of next

\* A rule without an end or a count has one that is never reached.
ASSUME CalendarAssumption ==
    /\ MaxDay \in Nat /\ DayHours \in Nat \ {0} /\ SearchDays \in Nat \ {0} /\ MaxNexts \in Nat
    /\ Afters \subseteq Nat
    /\ \A rule \in Rules : rule.start \in Nat /\ rule.endAt \in Nat /\ rule.maxRuns \in Nat

VARIABLE plan
\* kind: "tokens" of a month, or "rrule" with its spec; emitted and cursor, as
\* in the code; after: the argument of the last call, and answer, its result

NoMoment == -1   \* undefined
GaveUp == -2     \* "Unable to find next RRULE occurrence within iteration limit"

Leap(year) == (year % 4 = 0 /\ year % 100 # 0) \/ year % 400 = 0
DaysInMonth(year, month) ==
    CASE month = 2 -> IF Leap(year) THEN 29 ELSE 28
      [] month \in {4, 6, 9, 11} -> 30
      [] OTHER -> 31

Following(d) ==
    CASE d.day < DaysInMonth(d.year, d.month) -> [d EXCEPT !.day = @ + 1]
      [] d.day = DaysInMonth(d.year, d.month) /\ d.month < 12 ->
            [d EXCEPT !.day = 1, !.month = @ + 1]
      [] OTHER -> [year |-> d.year + 1, month |-> 1, day |-> 1]

Dates ==
    FoldLeft(LAMBDA ds, i : Append(ds, Following(Last(ds))),
             <<[year |-> 2024, month |-> 1, day |-> 1]>>, [i \in 1..MaxDay |-> i])

Day(m) == m \div DayHours
FieldsOf(m) ==
    LET d == Dates[Day(m) + 1]
    IN  [year |-> d.year, month |-> d.month, day |-> d.day, hour |-> m % DayHours,
         dow |-> (Day(m) + 1) % 7]

----------------------------------------------------------------------------
\* Tokens of a cron field: "*", a number, a range, the first and the last with
\* a step, a range of names, which is refused, and those of the two day fields.
Refused(tok, min, max) ==
    \/ tok.t = "names" \/ (tok.t \in {"star", "range"} /\ tok.step <= 0)
    \/ tok.t = "range" /\ (tok.b < tok.a \/ tok.a < min \/ tok.b > max)
    \/ tok.t = "one" /\ tok.a \notin min..max

Expand(tok, min, max) ==
    LET steps(a, b) == {n \in a..b : (n - a) % tok.step = 0}
    IN  CASE tok.t = "star" -> steps(min, max)
          [] tok.t = "range" -> steps(tok.a, tok.b)
          [] OTHER -> {tok.a}

\* Sunday is 0 and 7.
DowValues(tok) == {n % 7 : n \in Expand(tok, 0, 7)}

\* getUTCDay, of the dates there are.
DowTable ==
    [date \in ToSet(Dates) |-> SelectInSeq(Dates, LAMBDA d : d = date) % 7]
DowOf(date) == DowTable[date]
InMonth(date) == {[date EXCEPT !.day = n] : n \in 1..DaysInMonth(date.year, date.month)}

\* Mutant of NearestWeekday: a Sunday at the end of a month is left behind.
NearestWeekdayAhead(date) ==
    CASE DowOf(date) \in 1..5 -> date.day
      [] DowOf(date) = 6 -> IF date.day = 1 THEN 3 ELSE date.day - 1
      [] OTHER -> date.day + 1

\* 15W, and its clamp to the length of the month.
NearestWeekday(date) ==
    CASE DowOf(date) \in 1..5 -> date.day
      [] DowOf(date) = 6 -> IF date.day = 1 THEN 3 ELSE date.day - 1
      [] OTHER -> IF date.day = DaysInMonth(date.year, date.month)
                  THEN date.day - 2 ELSE date.day + 1

ComputeLastWeekday(date) ==
    LET last == DaysInMonth(date.year, date.month)
        dow == DowOf([date EXCEPT !.day = last])
    IN  CASE dow = 6 -> last - 1 [] dow = 0 -> last - 2 [] OTHER -> last

MatchesDayOfMonth(date, tok) ==
    LET last == DaysInMonth(date.year, date.month)
    IN  CASE tok.t = "L" -> date.day = Max({1, last - tok.a})
          [] tok.t = "LW" -> date.day = ComputeLastWeekday(date)
          [] tok.t = "W" -> date.day = NearestWeekday([date EXCEPT !.day = Min({tok.a, last})])
          [] OTHER -> date.day \in Expand(tok, 1, 31)

MatchesDayOfWeek(date, tok) ==
    CASE tok.t = "L" ->
            DowOf(date) = tok.a % 7 /\ date.day + 7 > DaysInMonth(date.year, date.month)
      [] tok.t = "#" -> DowOf(date) = tok.a % 7 /\ (date.day - 1) \div 7 + 1 = tok.b
      [] OTHER -> DowOf(date) \in DowValues(tok)

\* A day field: "*", "?" or tokens.  Two that are not "?" are alternatives, so
\* that a "*" in one makes the other one void.
MatchesDay(date, dom, dow) ==
    LET matches(field, Test(_)) == field.any \/ \E i \in DOMAIN field.tokens : Test(field.tokens[i])
        onDom == matches(dom, LAMBDA tok : MatchesDayOfMonth(date, tok))
        onDow == matches(dow, LAMBDA tok : MatchesDayOfWeek(date, tok))
    IN  CASE ~dom.ignore /\ ~dow.ignore -> onDom \/ onDow
          [] ~dom.ignore /\ dow.ignore -> onDom
          [] dom.ignore /\ ~dow.ignore -> onDow
          [] OTHER -> TRUE

\* Calendars: entries with 0 for "*"; an excluded day is out, whatever includes it.
EntryMatches(entry, f) ==
    /\ entry.year \in {0, f.year} /\ entry.month \in {0, f.month}
    /\ entry.day \in {0, f.day}
Allowed(f, calendars) ==
    LET named(kind) == UNION {calendars[i][kind] : i \in DOMAIN calendars}
        in(kind) == \E entry \in named(kind) : EntryMatches(entry, f)
    IN  ~in("exclude") /\ (named("include") = {} \/ in("include"))

----------------------------------------------------------------------------
\* rrule

MatchesSetPos(f, rule) ==
    LET last == DaysInMonth(f.year, f.month)
        before == Cardinality({d \in rule.byDay : d < f.dow})
    IN  CASE rule.freq = "MONTHLY" -> \E p \in rule.bySetPos :
                IF p > 0 THEN (f.day - 1) \div 7 + 1 = p
                ELSE -((last - f.day) \div 7 + 1) = p
          [] rule.freq = "WEEKLY" ->
                f.dow \in rule.byDay /\ \E p \in rule.bySetPos :
                    before = IF p > 0 THEN p - 1 ELSE Cardinality(rule.byDay) + p
          [] OTHER -> FALSE

MatchesSpec(f, rule) ==
    /\ rule.byMonth # {} => f.month \in rule.byMonth
    /\ rule.byMonthDay # {} => f.day \in rule.byMonthDay
    /\ rule.byDay # {} => f.dow \in rule.byDay
    /\ rule.bySetPos # {} => MatchesSetPos(f, rule)
    /\ rule.byHour # {} => f.hour \in rule.byHour

IsIntervalAlignedDay(day, rule) ==
    LET startDay == Day(rule.start)
        d == FieldsOf(day * DayHours)
        s == FieldsOf(rule.start)
    IN  /\ day >= startDay
        /\ CASE rule.freq = "DAILY" -> (day - startDay) % rule.interval = 0
             [] rule.freq = "WEEKLY" -> ((day - startDay) \div 7) % rule.interval = 0
             [] OTHER -> ((d.year - s.year) * 12 + d.month - s.month) % rule.interval = 0

\* The times of a day to look at: every hour if the rule names some, else the
\* hour of the start.
DayCandidates(day, rule) ==
    {day * DayHours + h :
        h \in IF rule.byHour # {} THEN 0..DayHours - 1 ELSE {rule.start % DayHours}}

Suits(m, rule) ==
    /\ m >= rule.start /\ m \notin rule.exdates
    /\ IsIntervalAlignedDay(Day(m), rule)
    /\ MatchesSpec(FieldsOf(m), rule) /\ Allowed(FieldsOf(m), rule.calendars)

\* Mutant of FirstDay: the search starts on the day after the cursor.
FirstDayAfter(p, after) ==
    IF p.cursor # NoMoment THEN Day(p.cursor) + 1 ELSE Day(Max({after + 1, p.rule.start}))

\* dayCursor: the search starts on the day of the cursor, once there is one.
FirstDay(p, after) ==
    IF p.cursor # NoMoment THEN Day(p.cursor) ELSE Day(Max({after + 1, p.rule.start}))

LastDay(p, after) == FirstDay(p, after) + SearchDays - 1

\* The search finds endAt passed: by a day, or by a candidate of one whose turn
\* it is, whether or not the rule allows it.
PastEnd(day, p, after) ==
    \/ day * DayHours > p.rule.endAt
    \/ /\ IsIntervalAlignedDay(day, p.rule)
       /\ \E m \in DayCandidates(day, p.rule) :
            m > after /\ m >= p.rule.start /\ m > p.rule.endAt

\* next: the first candidate that fits, if none is past endAt before it.
RRuleNext(p, after) ==
    LET days == FirstDay(p, after)..LastDay(p, after)
        found == {m \in UNION {DayCandidates(d, p.rule) : d \in days} : m > after /\ Suits(m, p.rule)}
    IN  CASE p.emitted >= p.rule.maxRuns -> NoMoment
          [] p.emitted < p.rule.maxRuns /\ found # {} ->
                IF Min(found) > p.rule.endAt THEN NoMoment ELSE Min(found)
          [] OTHER -> IF \E d \in days : PastEnd(d, p, after) THEN NoMoment ELSE GaveUp

CallNextRRule(after) ==
    /\ plan.kind = "rrule" /\ plan.calls < MaxNexts /\ after >= plan.after
    /\ LastDay(plan, after) <= MaxDay
    /\ LET m == RRuleNext(plan, after)
       IN  plan' = [plan EXCEPT
                !.calls = @ + 1, !.after = after, !.answer = m,
                !.cursor = IF m \in Nat THEN m ELSE @,
                !.emitted = IF m \in Nat THEN @ + 1 ELSE @]

PlanOf(kind, month, rule) ==
    [kind |-> kind, month |-> month, rule |-> rule, emitted |-> 0, cursor |-> NoMoment,
     after |-> NoMoment, answer |-> NoMoment, calls |-> 0]

CalendarInit ==
    \E month \in Months, rule \in Rules :
        \/ rule = (CHOOSE r \in Rules : TRUE) /\ plan = PlanOf("tokens", month, rule)
        \/ month = (CHOOSE m \in Months : TRUE) /\ plan = PlanOf("rrule", month, rule)

CalendarNext == \E after \in Afters : CallNextRRule(after)

CalendarSpec == CalendarInit /\ [][CalendarNext]_plan

----------------------------------------------------------------------------
\* next answers with the first moment after its argument that the rule and the
\* calendars allow, wherever the calls before left the cursor, as long as time
\* does not go back; there are never more answers than maxRuns.  It has none only
\* if there is none up to endAt, and throws only if there is none in the days it
\* looks at, which endAt does not cut short.
CursorIsSound ==
    LET p == plan
        last == LastDay(p, p.after)
        all == {m \in 0..(MaxDay + 1) * DayHours - 1 :
                    /\ m > p.after /\ m <= p.rule.endAt /\ Suits(m, p.rule)
                    /\ m \in DayCandidates(Day(m), p.rule)}
    IN  p.kind = "rrule" /\ p.calls > 0 =>
            /\ p.emitted <= p.rule.maxRuns
            /\ p.answer \in Nat => p.answer = Min(all)
            /\ p.answer = NoMoment => all = {} \/ p.emitted = p.rule.maxRuns
            /\ p.answer = GaveUp =>
                last * DayHours <= p.rule.endAt /\ \A m \in all : last < Day(m)

\* The day tokens mean, in every month, what Quartz says: nW the weekday (Monday
\* to Friday) of the month nearest to the n-th, LW the last one, nL the last and
\* n#k the k-th day n of the week in the month, L-n the day n days before the
\* last.  A token that is accepted names days that there are; of the two day
\* fields one decides where the other is "?", and two are alternatives.
TokensAreMeant ==
    LET any == [year |-> plan.month[1], month |-> plan.month[2], day |-> 1]
        days == InMonth(any)
        last == DaysInMonth(any.year, any.month)
        weekdays == {d \in days : DowOf(d) \in 1..5}
        on(tok, Test(_, _)) == {d \in days : Test(d, tok)}
        tok(t, a, b) == [t |-> t, a |-> a, b |-> b]
        gap(d, n) == IF d.day > n THEN d.day - n ELSE n - d.day
        sameDow(n) == {d \in days : DowOf(d) = n % 7}
    IN  plan.kind = "tokens" =>
            /\ \A n \in 1..31 :
                LET c == Min({n, last})
                    hit == on(tok("W", n, 0), MatchesDayOfMonth)
                IN  /\ Cardinality(hit) = 1 /\ hit \subseteq weekdays
                    /\ \A d \in hit : \A e \in weekdays : gap(d, c) <= gap(e, c)
            /\ on(tok("LW", 0, 0), MatchesDayOfMonth)
                    = {d \in weekdays : \A e \in weekdays : e.day <= d.day}
            /\ \A n \in 0..7 :
                /\ on(tok("L", n, 0), MatchesDayOfWeek)
                    = {d \in sameDow(n) : \A e \in sameDow(n) : e.day <= d.day}
                /\ \A k \in 1..5 : on(tok("#", n, k), MatchesDayOfWeek)
                    = {d \in sameDow(n) : Cardinality({e \in sameDow(n) : e.day <= d.day}) = k}
            /\ \A n \in 0..6 :
                on(tok("L", n, 0), MatchesDayOfMonth) = {d \in days : d.day = last - n}
            /\ \A a, b \in 0..8, step \in 0..3 :
                LET range == [t |-> "range", a |-> a, b |-> b, step |-> step]
                IN  ~Refused(range, 0, 7) =>
                        /\ on(range, MatchesDayOfWeek) # {}
                        /\ Expand(range, 0, 7) \subseteq 0..7
            /\ \A n \in 1..28, w \in 0..6 :
                LET field(t, a) == [ignore |-> FALSE, any |-> FALSE, tokens |-> <<tok(t, a, 0)>>]
                    open == [ignore |-> TRUE, any |-> TRUE, tokens |-> <<>>]
                    both == {d \in days : MatchesDay(d, field("one", n), field("one", w))}
                IN  /\ both = {d \in days : d.day = n} \cup sameDow(w)
                    /\ {d \in days : MatchesDay(d, open, field("one", w))} = sameDow(w)

\* Both: a planner knows its days, and its cursor loses none of them.
PlannerIsSound == TokensAreMeant /\ CursorIsSound
=============================================================================
