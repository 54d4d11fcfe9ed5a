----------------------------- MODULE Retrieval ------------------------------
(***************************************************************************)
(* How coding time is worked out: heartbeats become durations (services/   *)
(* duration.go), durations a summary, persisted daily summaries and        *)
(* summaries of what they leave out are merged (services/summary.go), and  *)
(* aliases, labels and filters are applied (models/summary.go, filters.go, *)
(* services/alias.go, project_label.go).                                   *)
(*                                                                         *)
(* One user.  Time is in seconds, a day has Day of them; lengths are in    *)
(* half seconds, as the shortest one is 500 ms.  Of the types of items     *)
(* "language" stands for all that are persisted besides projects,          *)
(* "branch" for the two that are not.                                      *)
(***************************************************************************)
EXTENDS Integers, Sequences, FiniteSets, SequencesExt, FiniteSetsExt, Functions

CONSTANTS
    Times,     \* the times a heartbeat may have, an increasing sequence
    Day,       \* seconds of a day
    Timeout,   \* the user's heartbeats timeout, in seconds
    Kinds,     \* heartbeats apart from their time: [project, language, branch], "" if unknown
    MaxBeats,  \* bound: heartbeats of the user
    Settings   \* the user's settings: [aliases, labels, exclude]

VARIABLES
    beats,     \* the heartbeats: a partial function from Times to Kinds
    setting,   \* aliases (a sequence of [type, key, value, wildcard]), labels, exclude
    rows       \* persisted summaries

vars == <<beats, setting, rows>>

Types == <<"project", "language", "label", "branch">>    \* in the order of SummaryTypes()
Persisted == {"project", "language"}
Now    == Times[Len(Times)] + 1
Today  == (Now - 1) \div Day
None   == [x \in {} |-> 0]                                \* no items
Sum(f) == FoldFunction(LAMBDA a, b : a + b, 0, f)
MinOf(a, b) == IF a < b THEN a ELSE b

----------------------------------------------------------------------------
\* Filters: a sequence of keys per type, and the flag SelectFilteredOnly.

NoFilter        == [t \in ToSet(Types) |-> <<>>]
Filter(t, k, o) == [keys |-> [NoFilter EXCEPT ![t] = <<k>>], only |-> o]
Unfiltered      == [keys |-> NoFilter, only |-> FALSE]
FilterTypes     == <<"project", "language", "label", "branch">>
Exists(f, t)    == f.keys[t] # <<>> /\ Head(f.keys[t]) # ""
IsEmpty(f)      == \A t \in ToSet(Types) : ~ Exists(f, t)
One(f)          == SelectSeq(FilterTypes, LAMBDA t : Exists(f, t))[1]
IsProjectDetails(f)   == Exists(f, "project")
CountDistinctTypes(f) == Sum([t \in ToSet(Types) |-> Len(f.keys[t])])   \* it counts keys
MatchAny(keys, k)     == \E i \in DOMAIN keys : keys[i] = k \/ (keys[i] = "-" /\ k = "")
MatchDuration(f, d)   == \A t \in Persisted : f.keys[t] = <<>> \/ MatchAny(f.keys[t], d[t])

----------------------------------------------------------------------------
\* Durations

GetAllWithin(from, to) ==
    SelectSeq(Times, LAMBDA t : t \in DOMAIN beats /\ from <= t /\ t < to)

NewDuration(t) == [time |-> t, dur |-> 0, n |-> 1, project |-> beats[t].project,
                   language |-> beats[t].language, branch |-> beats[t].branch]

GroupHash(d) == <<d.project, d.language, d.branch>>

\* mutant: the gap between two days counts like any other
SameDayAlways(t, u) == TRUE

SameDay(t, u) == t \div Day = u \div Day

\* a heartbeat lengthens the latest duration, up to the timeout, and starts
\* the next one if it came late, is of another kind or of another day
Extend(list, t) ==
    IF list = <<>> THEN <<NewDuration(t)>>
    ELSE LET latest  == list[Len(list)]
             d       == NewDuration(t)
             sameDay == SameDay(t, latest.time)
             dur     == IF sameDay THEN MinOf(2 * (t - latest.time) - latest.dur, 2 * Timeout) ELSE 0
             longer  == [latest EXCEPT !.dur = @ + dur]
             front   == SubSeq(list, 1, Len(list) - 1)
         IN IF dur >= 2 * Timeout \/ GroupHash(latest) # GroupHash(d) \/ ~ sameDay
            THEN front \o <<longer, d>>
            ELSE Append(front, [longer EXCEPT !.n = @ + 1])

Durations(from, to, f) ==
    LET found == GetAllWithin(from, to)
        kept  == SelectSeq(FoldLeft(Extend, <<>>, found),
                     LAMBDA d : MatchDuration(f, d) /\ ~ (setting.exclude /\ d.project = ""))
        timed == [i \in DOMAIN kept |-> [kept[i] EXCEPT !.dur = IF @ = 0 THEN 1 ELSE @]]
    IN IF Len(found) = 1 /\ Len(timed) = 1
       THEN <<[timed[1] EXCEPT !.dur = 2 * Timeout]>>
       ELSE timed

----------------------------------------------------------------------------
\* Summaries: the items of each type are a function from keys to seconds.

GetKey(d, t) == IF d[t] = "" THEN "unknown" ELSE d[t]

AggregateBy(list, t) ==
    [k \in {GetKey(list[i], t) : i \in DOMAIN list} |->
        Sum([i \in {j \in DOMAIN list : GetKey(list[j], t) = k} |-> list[i].dur]) \div 2]

Summarize(from, to, f) ==
    LET list  == Durations(from, to, f)
        types == Persisted \union IF IsProjectDetails(f) THEN {"branch"} ELSE {}
    IN [from  |-> IF list = <<>> THEN from ELSE list[1].time,
        to    |-> IF list = <<>> THEN to ELSE list[Len(list)].time,
        items |-> [t \in ToSet(Types) |-> IF t \in types THEN AggregateBy(list, t) ELSE None],
        n     |-> Sum([i \in DOMAIN list |-> list[i].n])]

\* rows within the interval, by their beginning; a row without heartbeats has no items
GetByUserWithin(from, to) ==
    SetToSortSeq({r \in rows : r.from >= from /\ r.to <= to}, LAMBDA r, s : r.from < s.from)

BeginOfDay(t) == (t \div Day) * Day

\* what rows leave out of an interval: before, whole days between, after
GetMissingIntervals(from, to, list) ==
    IF list = <<>> THEN <<<<from, to>>>>
    ELSE LET dayMissing(b) == /\ b[1] # b[2] /\ b[1] < to
                              /\ BeginOfDay(b[1]) + Day < BeginOfDay(b[2])
         IN (IF from < list[1].from THEN <<<<from, list[1].from>>>> ELSE <<>>)
            \o SelectSeq([i \in 1 .. Len(list) - 1 |-> <<list[i].to, list[i + 1].from>>], dayMissing)
            \o (IF to > list[Len(list)].to THEN <<<<list[Len(list)].to, to>>>> ELSE <<>>)

MergeItems(a, b) ==
    [k \in DOMAIN a \union DOMAIN b |->
        (IF k \in DOMAIN a THEN a[k] ELSE 0) + (IF k \in DOMAIN b THEN b[k] ELSE 0)]

\* summaries by their beginning; one that begins when another did is dropped
MergeSummaries(list) ==
    LET first == SelectSeq([i \in DOMAIN list |-> i],
                     LAMBDA i : \A j \in 1 .. i - 1 : list[j].from # list[i].from)
        merge(s, i) == [from  |-> MinOf(s.from, list[i].from),
                        to    |-> IF list[i].to > s.to THEN list[i].to ELSE s.to,
                        items |-> [t \in ToSet(Types) |-> MergeItems(s.items[t], list[i].items[t])],
                        n     |-> s.n + list[i].n]
    IN FoldLeft(merge, [from |-> Now, to |-> 0, items |-> [t \in ToSet(Types) |-> None], n |-> 0], first)

\* only the items of a type, and of these the ones that pass the filter
KeepOnly(s, t, keys) ==
    [s EXCEPT !.items = [u \in ToSet(Types) |->
        IF u = t THEN RestrictDomain(s.items[u], LAMBDA k : MatchAny(keys, k)) ELSE None]]

SortByFrom(list) ==   \* sort.Sort is stable on lists this short
    SetToSortSeq({<<i, list[i]>> : i \in DOMAIN list},
        LAMBDA a, b : a[2].from < b[2].from \/ (a[2].from = b[2].from /\ a[1] < b[1]))

Retrieve(from, to, f) ==
    LET shortcut == CountDistinctTypes(f) = 1 /\ f.only
        stored   == IF IsEmpty(f) \/ shortcut THEN GetByUserWithin(from, to) ELSE <<>>
        missing  == GetMissingIntervals(from, to, stored)
        computed == [i \in DOMAIN missing |-> Summarize(missing[i][1], missing[i][2], f)]
        kept     == SelectSeq(computed, LAMBDA s : ~ (Len(missing) > 2 /\ s.from = s.to))
        sorted   == SortByFrom(stored \o kept)
        merged   == MergeSummaries([i \in DOMAIN sorted |-> sorted[i][2]])
    IN IF shortcut /\ ~ IsEmpty(f) THEN KeepOnly(merged, One(f), f.keys[One(f)]) ELSE merged

----------------------------------------------------------------------------
\* Aliases and labels

Matches(a, k) == IF a.wildcard THEN k \in a.value ELSE a.value = {k}

GetAliasOrDefault(t, k) ==
    LET found == SelectSeq(setting.aliases, LAMBDA a : a.type = t /\ Matches(a, k))
    IN IF found = <<>> THEN k ELSE found[1].key

\* a wildcard stands for the user's projects it matches, whatever the type
AliasReverse(t, k) ==
    LET projects == {beats[x].project : x \in DOMAIN beats}
        of(a) == SetToSeq(IF a.wildcard THEN a.value \intersect projects ELSE a.value)
    IN FlattenSeq([i \in DOMAIN setting.aliases |->
           IF setting.aliases[i].key = k /\ setting.aliases[i].type = t
           THEN of(setting.aliases[i]) ELSE <<>>])

ExpandKeys(keys, t) == FlattenSeq([i \in DOMAIN keys |-> <<keys[i]>> \o AliasReverse(t, keys[i])])

\* mutant: a key does not stand for the names it is an alias of
WithAliasesNone(f) == f

\* labels have no aliases
WithAliases(f) ==
    [f EXCEPT !.keys = [t \in ToSet(Types) |-> IF t = "label" THEN @[t] ELSE ExpandKeys(@[t], t)]]

\* a label's projects are added to the filtered projects
WithProjectLabels(f) ==
    IF ~ Exists(f, "label") THEN f
    ELSE [f EXCEPT !.keys.project = @ \o FlattenSeq([i \in DOMAIN f.keys.label |->
             SetToSeq({l.project : l \in {m \in setting.labels : m.label = f.keys.label[i]}})])]

WithResolvedAliases(s) ==
    [s EXCEPT !.items = [t \in ToSet(Types) |->
        [k \in {GetAliasOrDefault(t, x) : x \in DOMAIN @[t]} |->
            Sum([x \in {y \in DOMAIN @[t] : GetAliasOrDefault(t, y) = k} |-> @[t][x]])]]]

LabelItems(s) ==
    LET projects == s.items.project
        total(k) == Sum([p \in {l.project : l \in {m \in setting.labels : m.label = k}}
                            \intersect DOMAIN projects |-> projects[p]])
    IN [k \in {l.label : l \in {m \in setting.labels : m.project \in DOMAIN projects /\ total(m.label) > 0}}
           |-> total(k)]

TotalTimeBy(s, t) == Sum(s.items[t])

FillBy(s, fromType, toType) ==
    LET missing == TotalTimeBy(s, fromType) - TotalTimeBy(s, toType)
        key     == IF toType = "label" THEN "default" ELSE "unknown"
    IN IF missing <= 0 THEN s
       ELSE [s EXCEPT !.items[toType] =
                [k \in DOMAIN @ \union {key} |-> IF k = key THEN missing ELSE @[k]]]

FillMissing(s) ==
    LET present == SelectSeq(Types, LAMBDA t : TotalTimeBy(s, t) # 0)
        missing == SelectSeq(Types, LAMBDA t : s.items[t] = None)
    IN IF present = <<>> THEN s
       ELSE FoldLeft(LAMBDA u, t : FillBy(u, present[1], t), s, missing)

\* what is done to a summary, step by step
Presented(s, step) ==
    CASE step = "aliases" -> WithResolvedAliases(s)
      [] step = "labels"  -> [s EXCEPT !.items.label = LabelItems(s)]
      [] step = "default" -> FillBy(s, "project", "label")
      [] step = "missing" -> FillMissing(s)

\* the filters that the retriever gets (Summarize if all is to be worked out again, else
\* Retrieve)
Expanded(f) == WithProjectLabels(WithAliases(f))

\* what becomes of the summary it returns
Aliased(got, filters) ==
    LET filled == FoldLeft(Presented, got, <<"aliases", "labels", "default", "missing">>)
    IN [filled EXCEPT !.items.branch = IF IsProjectDetails(filters) THEN @ ELSE None]

AliasedSummarize(from, to, f) ==
    LET filters == Expanded(f) IN Aliased(Summarize(from, to, filters), filters)

----------------------------------------------------------------------------
\* The aggregation persists finished days, in any order as jobs may fail.

PersistedRow(s) == [s EXCEPT !.items = [t \in ToSet(Types) |-> IF t \in Persisted THEN @[t] ELSE None]]

DayOf(r) == r.from \div Day

Aggregate(d) ==
    /\ \A r \in rows : DayOf(r) # d
    /\ rows' = rows \union {PersistedRow(Summarize(d * Day, (d + 1) * Day, Unfiltered))}
    /\ UNCHANGED <<beats, setting>>

Init ==
    /\ \E at \in SUBSET ToSet(Times) : Cardinality(at) <= MaxBeats /\ beats \in [at -> Kinds]
    /\ setting \in Settings
    /\ rows = {}

Next == \E d \in 0 .. Today - 1 : Aggregate(d)

Spec == Init /\ [][Next]_vars

----------------------------------------------------------------------------
\* Properties

TypeOK ==
    /\ DOMAIN beats \subseteq ToSet(Times) /\ Cardinality(DOMAIN beats) <= MaxBeats
    /\ \A r \in rows : 0 <= r.from /\ r.from <= r.to /\ DOMAIN r.items = ToSet(Types)
    /\ Cardinality({DayOf(r) : r \in rows}) = Cardinality(rows)

TimeOf(s, t, k) == IF k \in DOMAIN s.items[t] THEN s.items[t][k] ELSE 0
Names           == {k.project : k \in Kinds} \ {""}
SingleDays(from, to, k) ==
    {d \in from \div Day .. (to - 1) \div Day :
        LET list == GetAllWithin(d * Day, (d + 1) * Day) IN Len(list) = 1 /\ beats[list[1]].project = k}

\* The time of a project over finished days with their rows is the one that
\* summarizing all heartbeats gives: at most a second less per row (each is cut to
\* whole seconds); at most the last duration more if that is the project's (the
\* interval after the last row begins where that duration does, and a heartbeat
\* alone in an interval counts as the timeout); and the timeout more for each day
\* whose only heartbeat is the project's.
RetrieveNearRecompute ==
    \A first, last \in 0 .. Today - 1 :
        (first <= last /\ \A d \in first .. last : \E r \in rows : DayOf(r) = d) =>
        LET from == first * Day
            to   == (last + 1) * Day
            raw  == Summarize(from, to, Unfiltered)
            all  == Durations(from, to, Unfiltered)
            end  == all[Len(all)]
            got  == Retrieve(from, to, Unfiltered)
            twice(k) == IF all = <<>> \/ end.project # k THEN 0
                        ELSE 1 + IF end.n = 1 THEN Timeout ELSE end.dur \div 2
            more(k)  == twice(k) + Cardinality(SingleDays(from, to, k)) * Timeout
        IN \A k \in Names :
              TimeOf(got, "project", k) - TimeOf(raw, "project", k) \in -Cardinality(rows) .. more(k)

\* Asking for one project, by its alias if it has one, gives it the time it has
\* among all projects.
ProjectFilterGivesItem ==
    \A all \in {AliasedSummarize(0, Now, Unfiltered)} :
       \A k \in {GetAliasOrDefault("project", x) : x \in Names} :
          TimeOf(AliasedSummarize(0, Now, Filter("project", k, FALSE)), "project", k)
              = TimeOf(all, "project", k)

\* services/duration.go:62-63 of a gap between two days: "this is relevant to prevent
\* the time difference between generating summaries from raw heartbeats and
\* aggregating pre-generated summaries".  So both give a project the same time, but
\* for the seconds lost by cutting (days of one heartbeat left aside).
RetrievedIsRecomputed ==
    (/\ \A d \in 0 .. Today - 1 : \E r \in rows : DayOf(r) = d
     /\ \A k \in Names \union {""} : SingleDays(0, Now, k) = {}) =>
        LET raw == Summarize(0, Now, Unfiltered)
            got == Retrieve(0, Now, Unfiltered)
        IN \A k \in Names :
              TimeOf(got, "project", k) - TimeOf(raw, "project", k) \in -(Cardinality(rows) + 1) .. 1
============================================================================
