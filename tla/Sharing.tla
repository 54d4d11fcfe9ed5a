------------------------------ MODULE Sharing ------------------------------
(***************************************************************************)
(* What others see of a user who shares data of some days and of some      *)
(* types of entities: the statistics for WakaTime clients (stats.go), the  *)
(* badges (badge_utils.go) and the yearly chart (activity.go), on every    *)
(* date of a calendar with a leap year and with changes of the clock.      *)
(* Badges and charts are cached, but what is permitted is worked out anew  *)
(* for each request, before the cache is asked; so the caches are left out.*)
(*                                                                         *)
(* A time is a number of hours on the wall clock of the user's time zone,  *)
(* since the first of January 2022.                                        *)
(***************************************************************************)
EXTENDS Integers

CONSTANTS
    FirstDate, LastDate,   \* bounds: days on which requests are made
    Hour,           \* the hour at which they are
    SpringForward, FallBack,   \* days that the clock is set forward or back, at two o'clock
    Entities,       \* types of entities that can be shared
    MaxDays,        \* bound: numbers of days that the user chooses to share
    Asked           \* bound: ranges that badges and statistics are compared on

VARIABLES
    date,           \* today
    days, shares    \* the user's ShareDataMaxDays, and types shared

vars == <<date, days, shares>>

Init == date = FirstDate /\ days = 0 /\ shares = {}

Tomorrow == date < LastDate /\ date' = date + 1 /\ UNCHANGED <<days, shares>>

\* actionUpdateSharing
UpdateSharing ==
    days' \in MaxDays /\ shares' \in SUBSET Entities /\ UNCHANGED date

----------------------------------------------------------------------------
\* Times

\* the first day of a month; January 2022 is month 0
LeapDays(m) == LET y == m \div 12 IN (y + 1) \div 4 + (IF y % 4 = 2 /\ m % 12 > 1 THEN 1 ELSE 0)
FirstOf(m)  ==
    365 * (m \div 12) + LeapDays(m) +
        <<0, 31, 59, 90, 120, 151, 181, 212, 243, 273, 304, 334>>[(m % 12) + 1]
MonthOf(d)  == CHOOSE m \in d \div 31 .. d \div 28 : FirstOf(m) <= d /\ d < FirstOf(m + 1)

Day          == 24
Now          == date * Day + Hour
BeginOfToday == date * Day
BeginOfWeek(t) == LET d == t \div Day IN (d - ((d + 5) % 7)) * Day

\* time.AddDate: a day that the month lacks is one of the next month
AddDays(t, n)   == t + n * Day
AddMonths(t, n) ==
    LET m == MonthOf(t \div Day) IN t + (FirstOf(m + n) - FirstOf(m)) * Day

\* time.Add(-24 * time.Hour), by which the clock shows another hour if it was changed
DayBefore(t) ==
    LET within(S) == \E d \in S : t - Day < d * Day + 2 /\ d * Day + 2 < t
    IN t - Day - (IF within(SpringForward) THEN 1 ELSE 0) + (IF within(FallBack) THEN 1 ELSE 0)

From(t)         == [from |-> t, to |-> Now]
Between(t1, t2) == [from |-> t1, to |-> t2]
OnDates(m1, d1, m2, d2) == Between((FirstOf(m1) + d1 - 1) * Day, (FirstOf(m2) + d2) * Day - 1)

Intervals == {"today", "yesterday", "last_day", "week", "last_week", "month", "last_month", "year",
    "last_7_days", "yesterdays_7_days", "last_14_days", "last_30_days", "last_6_months",
    "last_year", "all_time", "low_skies", "high_seas"}

ResolveIntervalTZ(k) ==
    LET month == FirstOf(MonthOf(date)) * Day
        week  == BeginOfWeek(Now)
    IN CASE k = "today"         -> From(BeginOfToday)
         [] k = "yesterday"     -> Between(DayBefore(BeginOfToday), BeginOfToday)
         [] k = "last_day"      -> From(DayBefore(Now))
         [] k = "week"          -> From(week)
         [] k = "last_week"     -> Between(AddDays(week, -7), week)
         [] k = "month"         -> From(month)
         [] k = "last_month"    -> Between(AddMonths(month, -1), month)
         [] k = "year"          -> From(FirstOf((MonthOf(date) \div 12) * 12) * Day)
         [] k = "last_7_days"   -> From(AddDays(Now, -7))
         [] k = "yesterdays_7_days" -> Between(AddDays(BeginOfToday, -8), AddDays(BeginOfToday, -1))
         [] k = "last_14_days"  -> From(AddDays(Now, -14))
         [] k = "last_30_days"  -> From(AddDays(Now, -30))
         [] k = "last_6_months" -> From(AddMonths(Now, -6))
         [] k = "last_year"     -> From(AddMonths(Now, -12))
         [] k = "all_time"      -> From(-1000 * Day)
         [] k = "low_skies"     -> OnDates(33, 3, 36, 12)
         [] k = "high_seas"     -> OnDates(33, 30, 36, 31)

\* mutant: six months are taken for six times thirty days
ResolveMaximumRangeBy30(n) ==
    CASE n < 0   -> {"all_time"}      [] n = 0  -> {}
      [] n \in 1 .. 6     -> {"last_day"}        [] n \in 7 .. 13    -> {"last_7_days"}
      [] n \in 14 .. 29   -> {"last_14_days"}    [] n \in 30 .. 179  -> {"last_30_days"}
      [] n \in 180 .. 365 -> {"last_6_months"}   [] OTHER            -> {"last_year"}

\* none, or the one range
ResolveMaximumRange(n) ==
    CASE n < 0   -> {"all_time"}      [] n = 0  -> {}
      [] n \in 1 .. 6     -> {"last_day"}        [] n \in 7 .. 13    -> {"last_7_days"}
      [] n \in 14 .. 29   -> {"last_14_days"}    [] n \in 30 .. 183  -> {"last_30_days"}
      [] n \in 184 .. 365 -> {"last_6_months"}   [] OTHER            -> {"last_year"}

----------------------------------------------------------------------------
\* Requests, of others than the user

TooBroad(i) == days >= 0 /\ i.from < AddDays(i.to, -days)

\* the widest range that is shared, or else one that is refused
DefaultRange ==
    IF days = 0 THEN "last_7_days" ELSE CHOOSE k \in ResolveMaximumRange(days) : TRUE

\* StatsHandler.Get, with the types of entities that the request filters by: the types listed
\* and what the total is of; refused if there is no answer.  Types that are not shared are
\* blanked afterwards, but for categories and, of a project, branches; labels are never
\* listed.  The total follows the filter whatever is shared.
Stats(k, filter) ==
    IF TooBroad(ResolveIntervalTZ(k)) THEN {}
    ELSE {[listed |-> (shares \ {"label"}) \union {"category"}
                          \union (IF filter = {"project"} THEN {"branch"} ELSE {}),
           total  |-> [range |-> k, of |-> filter]]}

\* GetBadgeParams: range and filter, by one type at most, which must be shared
BadgeParams(k, filter) ==
    IF TooBroad(ResolveIntervalTZ(k)) \/ ~ filter \subseteq shares THEN {} ELSE {<<k, filter>>}

\* BadgeHandler.Get, both of the API and for Shields: a total
Badge(k, filter) == {[range |-> p[1], of |-> p[2]] : p \in BadgeParams(k, filter)}

\* GetActivityChart, GetChart and getChartPastYear, whose weeks are whole
ChartServed == ResolveMaximumRange(days) \subseteq {"last_year", "all_time"} /\ days # 0
Chart       == From(BeginOfWeek(ResolveIntervalTZ("last_year").from))

Next == Tomorrow \/ UpdateSharing

Spec == Init /\ [][Next]_vars

----------------------------------------------------------------------------
\* Properties

ShortDay == DayBefore(Now) < Now - Day

TypeOK == date \in FirstDate .. LastDate /\ days \in MaxDays /\ shares \subseteq Entities

\* The routes agree on what is shared, on every date.  Who asks for statistics of no
\* special range gets them if anything is shared: the range made out of the number of days
\* is never longer than these days, but for 24 hours when the clock was set forward.  If
\* nothing is shared no range is served, whatever is filtered by.  A chart is only served
\* when statistics of its months are, and is less than a week longer.  A badge shows the
\* total that the statistics of its range have in all and, of an entity, whenever they list
\* its type unasked (other than by a filter of the request).
SharingAgrees ==
    /\ TypeOK
    /\ days # 0 => Stats(DefaultRange, {}) # {} \/ (DefaultRange = "last_day" /\ days = 1 /\ ShortDay)
    /\ days = 0 => \A k \in Intervals, e \in Entities :
                      Stats(k, {}) = {} /\ Stats(k, {e}) = {} /\ Badge(k, {}) = {}
    /\ ChartServed =>
          Stats("last_year", {}) # {} /\ AddDays(ResolveIntervalTZ("last_year").from, -7) < Chart.from
    /\ \A k \in {"yesterday", "last_year"} \union Asked :
          /\ Badge(k, {}) = {s.total : s \in Stats(k, {})}
          /\ \A e \in Entities \ {"label"} :
                Badge(k, {e}) # {} <=> \E s \in Stats(k, {}) : e \in s.listed
============================================================================
