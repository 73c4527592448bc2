--------------------------------- MODULE Cron ---------------------------------
(***************************************************************************)
(* Cron schedules: what a written expression selects, how a time zone maps *)
(* local minutes to instants, and the search for the next occurrence.  The *)
(* calendar is a parameter: a small one has the same leap days, wrapping   *)
(* weeks, gaps and overlaps as the Gregorian one.  Time is counted in      *)
(* ticks (seconds) from the first of year 0.                               *)
(***************************************************************************)
EXTENDS Integers, Sequences, FiniteSets, FiniteSetsExt, SequencesExt

CONSTANTS
    MonthStarts,        \* days of a common year before each month, and all its days
    LeapEvery,          \* years divisible by it have a day more in month 2
    WeekLength,
    DayHours, HourMinutes, MinuteTicks,
    LastYear,           \* std::chrono::year::max(); year::min() is 0
    SearchYears,        \* the years a search looks at: 400
    MinOffset, MaxOffset,
    ZoneFiles,          \* the zone files a schedule may name
    Expressions,        \* the expressions it may have
    Bounds              \* the lower bounds a search may start from

ASSUME CalendarAssumption ==
    /\ LastYear \in Nat /\ SearchYears \in 1 .. LastYear
    /\ MinOffset <= 0 /\ 0 <= MaxOffset

VARIABLES
    schedule,           \* [zone, expression] as stored
    search              \* the call of next_after in progress or answered

cronVars == <<schedule, search>>

-----------------------------------------------------------------------------
(* The calendar of std::chrono.                                            *)

IsLeap(y) == y % LeapEvery = 0
Months == 1 .. Len(MonthStarts) - 1
DaysBefore(y, m) == MonthStarts[m] + (IF m > 2 /\ IsLeap(y) THEN 1 ELSE 0)
MonthDays(y, m) == DaysBefore(y, m + 1) - DaysBefore(y, m)
CommonYear == MonthStarts[Len(MonthStarts)]
YearStart(y) == y * CommonYear + (y + LeapEvery - 1) \div LeapEvery
DayNumber(y, m, d) == YearStart(y) + DaysBefore(y, m) + d - 1
Weekday(day) == day % WeekLength

HourTicks == HourMinutes * MinuteTicks
DayTicks == DayHours * HourTicks
InCalendar(t) == 0 <= t /\ t < YearStart(LastYear + 1) * DayTicks
YearAt(t) == CHOOSE y \in 0 .. LastYear :
                YearStart(y) <= t \div DayTicks /\ t \div DayTicks < YearStart(y + 1)

-----------------------------------------------------------------------------
(* Expressions.  A field is a sequence of members, a member a star, a value*)
(* or a range, with a step where a slash is written.  The name of a weekday*)
(* is written as its number plus NameBase.                                 *)

NameBase == 10

SteppedShort(first, last, step) ==
    LET run[v \in first .. last] == {v} \cup (IF step >= last - v THEN {} ELSE run[v + step])
    IN  run[first]

\* The loop of parse_linear_member, which leaves before the unsigned value could
\* overflow.
Stepped(first, last, step) ==
    LET run[v \in first .. last] == {v} \cup (IF step > last - v THEN {} ELSE run[v + step])
    IN  run[first]

\* What a member selects of lo .. hi; nothing if it is refused.
LinearMember(mb, lo, hi) ==
    CASE mb.step = 0 -> {}
      [] mb.kind = "star" -> Stepped(lo, hi, mb.step)
      [] mb.kind = "value" -> IF mb.slash \/ mb.first \notin lo .. hi THEN {} ELSE {mb.first}
      [] mb.kind = "range" ->
             IF {mb.first, mb.last} \subseteq lo .. hi /\ mb.first <= mb.last
                 THEN Stepped(mb.first, mb.last, mb.step) ELSE {}

LinearField(field, lo, hi) ==
    IF \E k \in DOMAIN field : LinearMember(field[k], lo, hi) = {} THEN {}
    ELSE UNION {LinearMember(field[k], lo, hi) : k \in DOMAIN field}

IsWeekday(w) == w \in 0 .. WeekLength \/ w - NameBase \in 0 .. WeekLength - 1
WeekdayValue(w) == IF w >= NameBase THEN w - NameBase ELSE w % WeekLength

\* Ranges go forward modulo the week; the step counts from the written start.
WeekdayMember(mb) ==
    CASE mb.step = 0 -> {}
      [] mb.kind = "star" -> IF mb.slash THEN {} ELSE 0 .. WeekLength - 1
      [] mb.kind = "value" ->
             IF mb.slash \/ ~IsWeekday(mb.first) THEN {} ELSE {WeekdayValue(mb.first)}
      [] mb.kind = "range" ->
             IF ~IsWeekday(mb.first) \/ ~IsWeekday(mb.last) THEN {}
             ELSE LET first == WeekdayValue(mb.first)
                      length == (WeekdayValue(mb.last) - first) % WeekLength
                  IN  {(first + k) % WeekLength : k \in {k \in 0 .. length : k % mb.step = 0}}

WrittenDays(mb) ==
    CASE mb.kind = "star" -> {} [] mb.kind = "value" -> {mb.first} [] mb.kind = "range" -> {mb.first, mb.last}

\* Sunday is 0 or the length of the week, but not both in one field.
WeekdayField(field) ==
    LET written == UNION {WrittenDays(field[k]) : k \in DOMAIN field} IN
    IF \/ \E k \in DOMAIN field : WeekdayMember(field[k]) = {}
       \/ {0, WeekLength} \subseteq written THEN {}
    ELSE UNION {WeekdayMember(field[k]) : k \in DOMAIN field}

Star == <<[kind |-> "star", slash |-> FALSE, step |-> 1]>>
Only(v) == <<[kind |-> "value", first |-> v, slash |-> FALSE, step |-> 1]>>

ExpandedAlias(e) ==
    CASE e.alias = "@hourly" -> <<Only(0), Star, Star, Star, Star>>
      [] e.alias = "@daily" -> <<Only(0), Only(0), Star, Star, Star>>
      [] e.alias = "@weekly" -> <<Only(0), Only(0), Star, Star, Only(NameBase)>>
      [] e.alias = "none" -> e.fields

LongestMonth == Max({MonthDays(0, m) : m \in Months})

\* parse_cron_expression: the five sets, or none.
ParsedExpression(e) ==
    LET f == ExpandedAlias(e) IN
    IF Len(f) # 5 THEN {}
    ELSE LET x == [minutes |-> LinearField(f[1], 0, HourMinutes - 1),
                   hours |-> LinearField(f[2], 0, DayHours - 1),
                   days |-> LinearField(f[3], 1, LongestMonth),
                   months |-> LinearField(f[4], 1, Len(MonthStarts) - 1),
                   weekdays |-> WeekdayField(f[5])]
         IN  IF \E k \in DOMAIN x : x[k] = {} THEN {} ELSE {x}

-----------------------------------------------------------------------------
(* Zone files.  A section lists its transitions, as times and type indices,*)
(* and the offsets of its types; sound stands for its counts, abbreviations*)
(* and leap seconds.  A footer has the offsets as POSIX writes them.       *)

InRange(o) == o \in MinOffset .. MaxOffset

SectionIsValid(s) ==
    /\ s.sound /\ s.types # << >>
    /\ \A k \in 2 .. Len(s.times) : s.times[k - 1] < s.times[k]
    /\ Len(s.kinds) = Len(s.times)
    /\ \A k \in DOMAIN s.kinds : s.kinds[k] \in DOMAIN s.types
    /\ \A k \in DOMAIN s.types : InRange(s.types[k])

\* POSIX counts west of Greenwich and gives summer time one hour by default.
DaylightOffset(f) == IF f.dst = "default" THEN -f.std + HourTicks ELSE -f.dstOffset

FooterIsValid(f) ==
    f.kind = "rule" => /\ InRange(-f.std)
                       /\ f.dst # "none" => InRange(DaylightOffset(f))

FutureRule(f) ==
    IF f.kind = "empty" THEN {}
    ELSE {[std |-> -f.std, daylight |-> f.dst # "none",
           dst |-> IF f.dst = "none" THEN 0 ELSE DaylightOffset(f), start |-> f.start, end |-> f.end]}

\* parse_timezone_data: the first section alone counts in version 1, and only
\* the second one later, but both must be valid.
ParsedZone(file) ==
    CASE ~SectionIsValid(file.first) -> {}
      [] file.version = 1 ->
             {[transitions |-> file.first, rule |-> {}]}
      [] file.version # 1 ->
             IF SectionIsValid(file.second) /\ FooterIsValid(file.footer)
                 THEN {[transitions |-> file.second, rule |-> FutureRule(file.footer)]}
                 ELSE {}

-----------------------------------------------------------------------------
(* Offsets.  Results are singletons, or empty where the code reports that  *)
(* the range is exhausted.                                                 *)

TypeBefore(z, k) == IF k = 1 THEN 1 ELSE z.transitions.kinds[k - 1]
OffsetOf(z, type) == z.transitions.types[type]
Explicit(z) == Len(z.transitions.times)

\* transition_local_date, as a day number.
RuleDay(y, r) ==
    CASE r.kind = "MonthWeekday" ->
             LET first == Weekday(DayNumber(y, r.month, 1))
                 d == 1 + ((r.weekday + WeekLength - first) % WeekLength) + WeekLength * (r.week - 1)
             IN  DayNumber(y, r.month, IF d > MonthDays(y, r.month) THEN d - WeekLength ELSE d)
      [] r.kind = "WithoutLeapDay" ->
             YearStart(y) + r.day - 1
                 + (IF IsLeap(y) /\ r.day > MonthStarts[3] THEN 1 ELSE 0)
      [] r.kind = "WithLeapDay" -> YearStart(y) + r.day

RuleInstant(y, r, before) == RuleDay(y, r) * DayTicks + r.time - before

\* The boundaries of some years.  The code sorts them by time and keeps the order
\* of those at the same time: the earlier year first, and the start.
FutureTransitions(r, years) ==
    {[at |-> RuleInstant(y, r.start, r.std), order |-> 2 * y,
      before |-> r.std, after |-> r.dst] : y \in years}
        \cup {[at |-> RuleInstant(y, r.end, r.dst), order |-> 2 * y + 1,
               before |-> r.dst, after |-> r.std] : y \in years}

Latest(ts) == CHOOSE t \in ts : \A s \in ts : s.at < t.at \/ (s.at = t.at /\ s.order <= t.order)

NearYears(y) == y - 2 .. y + 2
HasNearYears(t) == InCalendar(t) /\ NearYears(YearAt(t)) \subseteq 0 .. LastYear

AfterCutoff(z, t) == Explicit(z) = 0 \/ t.at > z.transitions.times[Explicit(z)]

\* future_offset_at: the last boundary that has passed decides.
FutureOffset(z, r, u) ==
    IF ~r.daylight THEN {r.std}
    ELSE IF ~HasNearYears(u) THEN {}
    ELSE LET passed == {t \in FutureTransitions(r, NearYears(YearAt(u))) :
                           AfterCutoff(z, t) /\ t.at <= u}
         IN  {IF passed # {} THEN Latest(passed).after
              ELSE IF Explicit(z) = 0 THEN r.std
              ELSE OffsetOf(z, z.transitions.kinds[Explicit(z)])}

OffsetAt(z, u) ==
    LET n == Explicit(z)
        last == SelectLastInSeq(z.transitions.times, LAMBDA t : t <= u) IN
    IF z.rule # {} /\ (n = 0 \/ u > z.transitions.times[n])
        THEN UNION {FutureOffset(z, r, u) : r \in z.rule}
        ELSE {OffsetOf(z, IF last = 0 THEN 1 ELSE z.transitions.kinds[last])}

CandidateOffsets(z) ==
    Range(z.transitions.types)
        \cup UNION {{r.std} \cup (IF r.daylight THEN {r.dst} ELSE {}) : r \in z.rule}

\* exact_utc_mappings: every instant that shows this local time.
Mappings(z, local) == {local - o : o \in {o \in CandidateOffsets(z) : o \in OffsetAt(z, local - o)}}
MappingFails(z, local) == \E o \in CandidateOffsets(z) : OffsetAt(z, local - o) = {}

GapContains(t, local) == t.before < t.after /\ local \in t.at + t.before .. t.at + t.after - 1

ExplicitTransitions(z) ==
    {[at |-> z.transitions.times[k], order |-> 0,
      before |-> OffsetOf(z, TypeBefore(z, k)),
      after |-> OffsetOf(z, z.transitions.kinds[k])] : k \in 1 .. Explicit(z)}

\* gap_shift: the increase of the gap that swallows a local time, if one does.
GapShift(z, local) ==
    LET near == {t \in ExplicitTransitions(z) : t.at \in local - MaxOffset .. local - MinOffset}
        later == UNION {IF r.daylight /\ HasNearYears(local)
                            THEN FutureTransitions(r, NearYears(YearAt(local))) ELSE {}
                        : r \in z.rule}
        gaps == {t \in near : GapContains(t, local)}
        laterGaps == {t \in later : AfterCutoff(z, t) /\ GapContains(t, local)}
    IN  {t.after - t.before : t \in IF gaps # {} THEN gaps ELSE laterGaps}

UtcShiftingDown(z, local) ==
    CASE MappingFails(z, local) -> [kind |-> "range"]
      [] Mappings(z, local) # {} -> [kind |-> "at", at |-> Max(Mappings(z, local))]
      [] OTHER -> [kind |-> "baddata"]

\* timezone_utc_time: the earliest instant of an overlap; a time in a gap is
\* moved on by the increase.
UtcTime(z, local) ==
    CASE MappingFails(z, local) -> [kind |-> "range"]
      [] Mappings(z, local) # {} -> [kind |-> "at", at |-> Min(Mappings(z, local))]
      [] OTHER ->
             LET shifts == GapShift(z, local) IN
             IF shifts = {} THEN [kind |-> "baddata"]
             ELSE LET moved == local + (CHOOSE s \in shifts : TRUE) IN
                  IF MappingFails(z, moved) THEN [kind |-> "range"]
                  ELSE IF Mappings(z, moved) = {} THEN [kind |-> "baddata"]
                  ELSE [kind |-> "at", at |-> Min(Mappings(z, moved))]

-----------------------------------------------------------------------------
(* The search.                                                             *)

\* next_local_occurrence visits the selected minutes in calendar order: days of
\* the month and weekdays must both match.
LocalMatches(x, y) ==
    LET days == {DayNumber(y, c[1], c[2]) : c \in {c \in x.months \X x.days : c[2] <= MonthDays(y, c[1])}}
    IN  {d * DayTicks + h * HourTicks + m * MinuteTicks :
            d \in {d \in days : Weekday(d) \in x.weekdays}, h \in x.hours, m \in x.minutes}

NextLocal(x, cursor) ==
    LET first == (cursor \div MinuteTicks + 1) * MinuteTicks IN
    IF ~InCalendar(cursor) \/ ~InCalendar(first) \/ YearAt(cursor) + SearchYears - 1 > LastYear
        THEN [kind |-> "range"]
        ELSE LET years == YearAt(first) .. YearAt(cursor) + SearchYears - 1
                 later(y) == {t \in LocalMatches(x, y) : t >= first}
             IN  IF \A y \in years : later(y) = {} THEN [kind |-> "none"]
                 ELSE [kind |-> "at",
                       at |-> Min(later(CHOOSE y \in years :
                                  later(y) # {} /\ \A k \in years : k < y => later(k) = {}))]

Answer(a) == search' = [search EXCEPT !.pc = "answered", !.answer = a]

\* SystemCronEngine::next_after up to its loop.
BeginSearch ==
    /\ search.pc = "asked"
    /\ UNCHANGED schedule
    /\ LET xs == ParsedExpression(schedule.expression)
           zs == ParsedZone(schedule.zone) IN
       IF xs = {} THEN Answer([kind |-> "invalid_expression"])
       ELSE IF zs = {} THEN Answer([kind |-> "invalid_timezone"])
       ELSE \E x \in xs, z \in zs :
              LET o == OffsetAt(z, search.from)
                  local == search.from + (CHOOSE d \in o : TRUE) IN
              IF o = {} \/ ~InCalendar(local) \/ YearAt(local) > LastYear - (SearchYears - 1)
                  THEN Answer([kind |-> "range"])
                  ELSE search' = [search EXCEPT !.pc = "searching", !.x = x, !.z = z,
                                      !.cursor = local, !.last = YearAt(local) + SearchYears - 1]

\* One turn of its loop: the next local match, if it is later in UTC too.
TryCandidate ==
    /\ search.pc = "searching"
    /\ UNCHANGED schedule
    /\ LET local == NextLocal(search.x, search.cursor) IN
       IF local.kind # "at" \/ YearAt(local.at) > search.last
           THEN Answer(IF local.kind # "at" THEN local ELSE [kind |-> "none"])
       ELSE LET utc == UtcTime(search.z, local.at) IN
            IF utc.kind # "at" \/ utc.at > search.from THEN Answer(utc)
            ELSE search' = [search EXCEPT !.cursor = local.at]

Asked(from) ==
    [pc |-> "asked", from |-> from, x |-> {}, z |-> {}, cursor |-> 0, last |-> 0,
     answer |-> [kind |-> "open"]]

\* next_cron_occurrences and the recurrence of a job: on from the answer.
AskAgain ==
    /\ search.pc = "answered" /\ search.answer.kind = "at"
    /\ search' = Asked(search.answer.at)
    /\ UNCHANGED schedule

CronInit ==
    /\ \E f \in ZoneFiles, e \in Expressions : schedule = [zone |-> f, expression |-> e]
    /\ \E from \in Bounds : search = Asked(from)

CronNext == BeginSearch \/ TryCandidate \/ AskAgain

CronSpec == CronInit /\ [][CronNext]_cronVars

-----------------------------------------------------------------------------
(* Reference: the same by definition, over the whole calendar.             *)

Progression(first, last, step) == {v \in first .. last : (v - first) % step = 0}

MemberMeans(mb, lo, hi) ==
    CASE mb.kind = "star" -> Progression(lo, hi, mb.step)
      [] mb.kind = "value" -> {mb.first}
      [] mb.kind = "range" -> Progression(mb.first, mb.last, mb.step)

\* Whether a local minute is one the expression is written for.
Means(e, t) ==
    LET f == ExpandedAlias(e)
        day == t \div DayTicks
        y == YearAt(t)
        m == CHOOSE k \in Months : day - YearStart(y) - DaysBefore(y, k) \in 0 .. MonthDays(y, k) - 1
        d == day - YearStart(y) - DaysBefore(y, m) + 1
        in(v, field, lo, hi) == \E k \in DOMAIN field : v \in MemberMeans(field[k], lo, hi)
    IN  /\ t % MinuteTicks = 0
        /\ in((t \div MinuteTicks) % HourMinutes, f[1], 0, HourMinutes - 1)
        /\ in((t \div HourTicks) % DayHours, f[2], 0, DayHours - 1)
        /\ in(d, f[3], 1, LongestMonth)
        /\ in(m, f[4], 1, Len(MonthStarts) - 1)
        /\ Weekday(day) \in WeekdayField(f[5])

\* All changes of a zone's clock, and the offset in force.
Boundaries(z) ==
    ExplicitTransitions(z)
        \cup UNION {{t \in FutureTransitions(r, 0 .. LastYear) : AfterCutoff(z, t)} :
                       r \in {r \in z.rule : r.daylight}}

InForce(z, changes, u) ==
    LET passed == {b \in changes : b.at <= u} IN
    IF passed # {} THEN Latest(passed).after
    ELSE IF Explicit(z) = 0 /\ z.rule # {} THEN (CHOOSE r \in z.rule : TRUE).std
    ELSE OffsetOf(z, 1)

\* When a local time happens: for the first time, or, if it never does, when it
\* would have without the change of the clock.
Happens(z, changes, t) ==
    LET shown == {u \in t - MaxOffset .. t - MinOffset : u + InForce(z, changes, u) = t}
    IN  IF shown # {} THEN Min(shown)
        ELSE t - (CHOOSE b \in changes : GapContains(b, t)).before

\* next_after gives the first occurrence after its lower bound: one the expression
\* is written for, at the instant its local time happens first, or would have.  It
\* passes over an occurrence only beside a gap: one inside a gap that the lower
\* bound is already past, and one that an earlier local time, moved out of a gap
\* shorter than the distance, comes after.  It gives up only if the searched years
\* have nothing, and never because a zone that was accepted cannot be mapped.
NextIsFirst ==
    LET a == search.answer
        changes == Boundaries(search.z)
        happens(t) == Happens(search.z, changes, t)
        inGap(t) == \E b \in changes : GapContains(b, t)
        meant(last) == {t \in search.from + MinOffset .. last : InCalendar(t) /\ Means(schedule.expression, t)}
    IN  /\ a.kind # "baddata"
        /\ a.kind = "at" =>
              LET near == meant(a.at + MaxOffset) IN
              /\ a.at > search.from
              /\ \E t \in near :
                    /\ happens(t) = a.at
                    /\ \A s \in near :
                          search.from < happens(s) /\ happens(s) < a.at =>
                              \/ inGap(s) /\ s <= search.from + InForce(search.z, changes, search.from)
                              \/ inGap(t) /\ t < s
        /\ a.kind = "none" =>
              \A t \in meant(YearStart(search.last + 1) * DayTicks - 1) : happens(t) <= search.from

=============================================================================
