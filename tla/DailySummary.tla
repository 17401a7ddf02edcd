---------------------------- MODULE DailySummary ----------------------------
(***************************************************************************)
(* The daily summary of files-agent telemetry:                             *)
(* lib/files-agent-daily-summary.ts and the cron of                        *)
(* app/api/files-agent/daily-summary/route.ts.                             *)
(*                                                                         *)
(* A cron request walks the companies page by page and delivers, to each,  *)
(* the counts of one day of Karachi.  Companies register and events arrive *)
(* at any time; a delivery is a transaction that may begin long before it  *)
(* gets the lock it needs.  Time is counted in ticks, the date of an       *)
(* instant is the number of its day.                                       *)
(*                                                                         *)
(* The lock against the telemetry wipe, and the wipe, are module           *)
(* FilesAgent's; here a delivery that is refused because telemetry is      *)
(* paused is one of those that fail.                                       *)
(***************************************************************************)
EXTENDS Integers, FiniteSets, Sequences, Functions

CONSTANTS
    Company,            \* ids, given in order but visible when committed
    Cron,               \* requests of the cron
    PageSize,
    DayLength, Offset,  \* ticks of a day; how far Karachi is ahead of UTC
    KeepDays,           \* FILES_AGENT_SUMMARY_RETENTION_DAYS, at least 1
    TopLimit,           \* TOP_PROJECT_LIMIT
    Event,              \* events devices may send, with company, user, device,
                        \* action, path, agent, count and instant captured
    Names,              \* texts shown for users, devices and paths, as their
                        \* rank in the collation
    Namings,            \* other texts the same telemetry could have carried, which
                        \* tell the same projects apart
    Inherited,          \* names every object inherits: constructor, toString, ...
    Proto,              \* __proto__
    Text,               \* a count that has become a string
    FirstInstant, MaxClock,
    Default             \* no date was asked for

ASSUME DailySummaryAssumption ==
    /\ Company \subseteq Nat \ {0}
    /\ IsFiniteSet(Company)
    /\ PageSize \in Nat \ {0}
    /\ DayLength \in Nat /\ Offset \in Nat /\ Offset < DayLength
    /\ KeepDays \in Nat \ {0}
    /\ TopLimit \in Nat
    /\ FirstInstant \in Nat /\ MaxClock \in Nat /\ FirstInstant <= MaxClock
    /\ \A e \in Event : e.at \in Nat /\ e.count \in Nat
    /\ \A x \in Inherited \cup {Proto} : x \notin Int
    /\ Proto \notin Inherited /\ Text \notin Nat
    /\ \A e \in Event : e.action \notin Inherited \cup {Proto}
    /\ \A e \in Event : Names.label[e.path] \in Int \cup Inherited \cup {Proto}
    /\ \A e \in Event, N \in Namings : N.label[e.path] \in Int
    /\ \A e \in Event, N \in Namings \cup {Names} : N.user[e.user] \in Int /\ N.device[e.device] \in Int
    /\ \A e, f \in Event, N \in Namings :
          N.label[e.path] = N.label[f.path] <=> Names.label[e.path] = Names.label[f.path]
    /\ Default \notin Int

VARIABLES
    clock,
    companies,          \* ids of the committed companies
    events,             \* files_agent_events
    rows,               \* files_agent_daily_summaries, by company and date
    phase,              \* where a cron request is
    date,               \* the date it was asked for
    cursor, rest, short,        \* last id taken, rest of the page, page was not full
    began,              \* instant its transaction began
    delivered, failed,  \* its counters
    existing,           \* companies there were when it started
    attempted           \* companies it has turned to

data == <<clock, companies, events, rows>>
walk == <<phase, date, cursor, rest, short, began, delivered, failed>>
history == <<existing, attempted>>
vars == <<data, walk, history>>

-----------------------------------------------------------------------------
(* Days.  current_date is the date in UTC, a summary's the date in Karachi. *)

CurrentDate(t) == t \div DayLength
LocalDateInKarachi(t) == (t + Offset) \div DayLength

Start(d) == d * DayLength - Offset
End(d) == Start(d) + DayLength
SelectedDate(d, t) == IF d = Default THEN LocalDateInKarachi(t - DayLength) ELSE d

-----------------------------------------------------------------------------
(* The summary *)

\* The events of a day.
InDay(e, d) == Start(d) <= e.at /\ e.at < End(d)

\* The sum of the values of f, and of the counts in a set of events or rows: as
\* many as there are units in them, each with the one it is a unit of.
Units(f) == UNION {{x} \X (1..f[x]) : x \in DOMAIN f}
Total(f) == Cardinality(Units(f))
Sum(S) == Total([e \in S |-> e.count])

\* The groups of the query: one row for each combination with a positive sum.
Key(e) == [user |-> e.user, device |-> e.device, action |-> e.action, path |-> e.path, agent |-> e.agent]
Groups(E, c, d) ==
    LET M == {e \in E : e.company = c /\ InDay(e, d)}
    IN  {[key |-> k, count |-> Sum({e \in M : Key(e) = k})] : k \in {Key(e) : e \in M}}
Rows(E, c, d) == {r \in Groups(E, c, d) : r.count > 0}

\* How many events the rows of each key have.
Tally(R, of) == [k \in {of[r] : r \in R} |-> Sum({r \in R : of[r] = k})]

\* The same as increment keeps it, in an object that starts as {}: under a name
\* the object inherits, a number is added to a function, which makes a string;
\* what is assigned to __proto__ is dropped.
CountBy(R, of) ==
    LET tally == Tally(R, of)
    IN  [k \in DOMAIN tally \ {Proto} |-> IF k \in Inherited THEN Text ELSE tally[k]]
PathsOf(R) == {r.key.path : r \in R}

\* Mutant: the paths of the company, whoever changed them.
PathsOfAnyone(R) == PathsOf(R)
AllPaths(R) == {<<r.key.user, r.key.path>> : r \in R}

\* displayUser and privacySafeProjectLabel: many addresses or paths may share
\* one text, which the summary then shows or counts by.
DisplayUser(N, u) == N.user[u]
ProjectLabel(N, p) == N.label[p]

\* Lists are sorted by counts and then by texts.  What shares a place has the
\* same count and the same text, and comes in the order of the query's rows,
\* which the query leaves open.
Before(counts, text, a, b) == counts[a] > counts[b] \/ (counts[a] = counts[b] /\ text[a] < text[b])
Place(counts, text, a) == Cardinality({b \in DOMAIN counts : Before(counts, text, b, a)}) + 1

\* The projects with most events.  A string is neither more nor less than a
\* count: where there is one, any order may come out of the sort.
Labels(counts) == [a \in DOMAIN counts |-> a]
Shown(counts) == {i \in 1..Cardinality(DOMAIN counts) : i <= TopLimit}
Sorted(counts) == [i \in Shown(counts) |-> CHOOSE a \in DOMAIN counts : Place(counts, Labels(counts), a) = i]
ListOf(counts, p) == [i \in Shown(counts) |-> [label |-> p[i], events |-> counts[p[i]]]]
Top(counts) == ListOf(counts, Sorted(counts))
Tops(counts) ==
    IF \A a \in DOMAIN counts : counts[a] \in Nat THEN {Top(counts)}
    ELSE {ListOf(counts, p) : p \in Injection(Shown(counts), DOMAIN counts)}

\* The lists of projects the users of a day may get.
ProjectCounts(R, u, N) ==
    LET Q == {r \in R : r.key.user = u}
    IN  CountBy(Q, [r \in Q |-> ProjectLabel(N, r.key.path)])
TopsOfUsers(R, N) ==
    LET users == {r.key.user : r \in R}
    IN  {t \in [users -> UNION {Tops(ProjectCounts(R, u, N)) : u \in users}] :
            \A u \in users : t[u] \in Tops(ProjectCounts(R, u, N))}

DeviceEntry(R, v, N) ==
    LET Q == {r \in R : r.key.device = v}
    IN  [label |-> N.device[v], events |-> Sum(Q), changedPaths |-> Cardinality(PathsOf(Q)),
         place |-> Place(Tally(R, [r \in R |-> r.key.device]), N.device, v)]

UserEntry(R, u, N, top) ==
    LET Q == {r \in R : r.key.user = u}
    IN  [user |-> DisplayUser(N, u),
         events |-> Sum(Q),
         changedPaths |-> Cardinality(PathsOf(Q)),
         actions |-> CountBy(Q, [r \in Q |-> r.key.action]),
         agents |-> CountBy(Q, [r \in Q |-> r.key.agent]),
         devices |-> [v \in {r.key.device : r \in Q} |-> DeviceEntry(Q, v, N)],
         topProjects |-> top,
         place |-> Place(Tally(R, [r \in R |-> r.key.user]), N.user, u)]

\* buildFilesAgentDailySummary.  The lists of users and devices are functions of
\* their ids here, and every entry has its place.
Build(R, N, tops) ==
    LET users == {r.key.user : r \in R}
    IN  [totals |-> [events |-> Sum(R), changedPaths |-> Cardinality(AllPaths(R)),
                     users |-> Cardinality(users),
                     devices |-> Cardinality({<<r.key.user, r.key.device>> : r \in R})],
         users |-> [u \in users |-> UserEntry(R, u, N, tops[u])]]

\* sanitizeFilesAgentDailySummary: ids and positions take the place of texts.
\* Mutant: the labels of projects are thought to be short enough.
SanitizeUserKeepsLabels(u, e) ==
    [e EXCEPT !.user = u,
              !.agents = IF DOMAIN @ = {} THEN @ ELSE [a \in {"files-agent"} |-> e.events],
              !.devices = [v \in DOMAIN @ |-> [@[v] EXCEPT !.label = v]]]
SanitizeUser(u, e) ==
    [e EXCEPT !.user = u,
              !.agents = IF DOMAIN @ = {} THEN @ ELSE [a \in {"files-agent"} |-> e.events],
              !.devices = [v \in DOMAIN @ |-> [@[v] EXCEPT !.label = v]],
              !.topProjects = [i \in DOMAIN @ |-> [@[i] EXCEPT !.label = i]]]
Sanitize(s) == [s EXCEPT !.users = [u \in DOMAIN @ |-> SanitizeUser(u, @[u])]]

\* isFilesAgentDailySummary, the part a count can fail.
IsSummary(s) ==
    /\ \A f \in DOMAIN s.totals : s.totals[f] \in Nat
    /\ \A u \in DOMAIN s.users :
        LET e == s.users[u]
        IN  /\ e.events \in Nat /\ e.changedPaths \in Nat
            /\ \A a \in DOMAIN e.actions : e.actions[a] \in Nat
            /\ \A a \in DOMAIN e.agents : e.agents[a] \in Nat
            /\ \A v \in DOMAIN e.devices : e.devices[v].events \in Nat /\ e.devices[v].changedPaths \in Nat
            /\ \A i \in DOMAIN e.topProjects : e.topProjects[i].events \in Nat

-----------------------------------------------------------------------------
(* The world around a cron *)

Init ==
    /\ clock = FirstInstant
    /\ companies \in SUBSET Company
    /\ events = {}
    /\ rows = <<>>
    /\ phase = [k \in Cron |-> "idle"]
    /\ date = [k \in Cron |-> Default]
    /\ cursor = [k \in Cron |-> 0]
    /\ rest = [k \in Cron |-> {}]
    /\ short = [k \in Cron |-> FALSE]
    /\ began = [k \in Cron |-> FirstInstant]
    /\ delivered = [k \in Cron |-> 0]
    /\ failed = [k \in Cron |-> 0]
    /\ existing = [k \in Cron |-> {}]
    /\ attempted = [k \in Cron |-> {}]

Tick ==
    /\ clock < MaxClock
    /\ clock' = clock + 1
    /\ UNCHANGED <<companies, events, rows, walk, history>>

RegisterCompany(c) ==
    /\ c \notin companies
    /\ companies' = companies \cup {c}
    /\ UNCHANGED <<clock, events, rows, walk, history>>

\* An event reaches the server when it was captured, or days later.
Ingest(e) ==
    /\ e \notin events
    /\ e.company \in companies
    /\ e.at <= clock
    /\ events' = events \cup {e}
    /\ UNCHANGED <<clock, companies, rows, walk, history>>

-----------------------------------------------------------------------------
(* The cron *)

StartCron(k, d) ==
    /\ phase[k] = "idle"
    /\ phase' = [phase EXCEPT ![k] = "page"]
    /\ date' = [date EXCEPT ![k] = d]
    /\ existing' = [existing EXCEPT ![k] = companies]
    /\ UNCHANGED <<data, cursor, rest, short, began, delivered, failed, attempted>>

\* The first PageSize companies beyond the cursor, in order of their ids.
Beyond(k) == {c \in companies : c > cursor[k]}
IsPage(P, B) ==
    /\ Cardinality(P) <= PageSize
    /\ P = B \/ Cardinality(P) = PageSize
    /\ \A p \in P, b \in B \ P : p < b

FetchPage(k) ==
    /\ phase[k] = "page"
    /\ \E P \in SUBSET Beyond(k) :
        /\ IsPage(P, Beyond(k))
        /\ rest' = [rest EXCEPT ![k] = P]
        /\ short' = [short EXCEPT ![k] = Cardinality(P) < PageSize]
        /\ phase' = [phase EXCEPT ![k] = IF P = {} THEN "done" ELSE "each"]
    /\ UNCHANGED <<data, date, cursor, began, delivered, failed, history>>

\* The next company of the page; its transaction begins, and waits for the lock.
NextTenant(k) ==
    /\ phase[k] = "each"
    /\ \E c \in rest[k] :
        /\ \A b \in rest[k] : c <= b
        /\ cursor' = [cursor EXCEPT ![k] = c]
        /\ rest' = [rest EXCEPT ![k] = @ \ {c}]
        /\ attempted' = [attempted EXCEPT ![k] = @ \cup {c}]
    /\ phase' = [phase EXCEPT ![k] = "deliver"]
    /\ began' = [began EXCEPT ![k] = clock]
    /\ UNCHANGED <<data, date, short, delivered, failed, existing>>

\* After a company: the page goes on, or the next one is fetched unless this
\* one was not full.  Mutant: a page that was just full is taken for the last.
AfterTenantStops(k) == IF rest[k] # {} THEN "each" ELSE "done"
AfterTenant(k) ==
    CASE rest[k] # {} -> "each"
      [] rest[k] = {} /\ short[k] -> "done"
      [] OTHER -> "page"

\* Rows the same transaction deletes, by the day on which it began.
\* Mutant: the days that are kept are counted from the latest date.
ExpiredEarly(r, k) == r[1] = cursor[k] /\ r[2] <= CurrentDate(began[k]) - KeepDays
Expired(r, k) == r[1] = cursor[k] /\ r[2] < CurrentDate(began[k]) - KeepDays

\* persistFilesAgentDailySummary.
StoredRow(k) == <<cursor[k], SelectedDate(date[k], clock)>>
Deliver(k) ==
    /\ phase[k] = "deliver"
    /\ LET row == StoredRow(k)
           R == Rows(events, row[1], row[2])
       IN  \E tops \in TopsOfUsers(R, Names) :
               rows' = [r \in {q \in DOMAIN rows \cup {row} : ~Expired(q, k)} |->
                            IF r = row THEN Sanitize(Build(R, Names, tops)) ELSE rows[r]]
    /\ delivered' = [delivered EXCEPT ![k] = @ + 1]
    /\ phase' = [phase EXCEPT ![k] = AfterTenant(k)]
    /\ UNCHANGED <<clock, companies, events, date, cursor, rest, short, began, failed, history>>

\* The transaction is rolled back: telemetry is paused, a bad date, an error.
Fail(k) ==
    /\ phase[k] = "deliver"
    /\ failed' = [failed EXCEPT ![k] = @ + 1]
    /\ phase' = [phase EXCEPT ![k] = AfterTenant(k)]
    /\ UNCHANGED <<data, date, cursor, rest, short, began, delivered, history>>

\* The request is cut off, by an error of the page query or by the platform.
Cut(k) ==
    /\ phase[k] \in {"page", "each", "deliver"}
    /\ phase' = [phase EXCEPT ![k] = "cut"]
    /\ UNCHANGED <<data, date, cursor, rest, short, began, delivered, failed, history>>

Next ==
    \/ Tick
    \/ \E c \in Company : RegisterCompany(c)
    \/ \E e \in Event : Ingest(e)
    \/ \E k \in Cron :
        \/ \E d \in {Default} \cup 0..CurrentDate(clock) : StartCron(k, d)
        \/ FetchPage(k) \/ NextTenant(k) \/ Deliver(k) \/ Fail(k) \/ Cut(k)

Spec == Init /\ [][Next]_vars
-----------------------------------------------------------------------------
(* Properties *)

TypeOK ==
    /\ clock \in FirstInstant..MaxClock
    /\ companies \subseteq Company
    /\ events \subseteq Event
    /\ DOMAIN rows \subseteq Company \X Int
    /\ phase \in [Cron -> {"idle", "page", "each", "deliver", "done", "cut"}]
    /\ cursor \in [Cron -> Company \cup {0}]
    /\ rest \in [Cron -> SUBSET companies]
    /\ delivered \in [Cron -> Nat] /\ failed \in [Cron -> Nat]

Field(f, name) == Total([x \in DOMAIN f |-> f[x][name]])

UserAddsUp(e) ==
    /\ Total(e.actions) = e.events
    /\ Field(e.devices, "events") = e.events
    /\ e.changedPaths <= Field(e.devices, "changedPaths")
    /\ \A v \in DOMAIN e.devices : e.devices[v].changedPaths <= e.changedPaths

LabelsAddUp(e) ==
    /\ Total(e.agents) = e.events
    /\ Field(e.topProjects, "events") <= e.events
    /\ Len(e.topProjects) < TopLimit => Field(e.topProjects, "events") = e.events
    /\ \A i, j \in DOMAIN e.topProjects :
        i < j => e.topProjects[i].events >= e.topProjects[j].events

AddsUp(s) ==
    /\ Field(s.users, "events") = s.totals.events
    /\ Field(s.users, "changedPaths") = s.totals.changedPaths
    /\ Cardinality(DOMAIN s.users) = s.totals.users
    /\ Total([u \in DOMAIN s.users |-> Cardinality(DOMAIN s.users[u].devices)]) = s.totals.devices
    /\ \A u \in DOMAIN s.users : UserAddsUp(s.users[u])

\* Every event falls into the day of one summary, so that the summaries of all
\* days hold every event once (karachiDayBounds).
EveryEventHasOneDay ==
    \A e \in events :
        {d \in 0..LocalDateInKarachi(MaxClock) : InDay(e, d)} = {LocalDateInKarachi(e.at)}

\* No event of the day has a project or an agent named like a property that
\* every object has.
PlainDay(row) ==
    \A e \in events :
        e.company = row[1] /\ InDay(e, row[2]) =>
            e.agent \notin Inherited \cup {Proto} /\ Names.label[e.path] \notin Inherited \cup {Proto}

\* The groupings of a stored summary by user, device and action give the same
\* totals, however users and devices share paths; on a day whose names are
\* plain it can also be read back, and its groupings by agent and project give
\* the same totals too, however the top projects are cut off (on another day
\* increment breaks the one or the other).  The summaries of all days hold every
\* event once (buildFilesAgentDailySummary, isFilesAgentDailySummary).
StoredSummariesAddUp ==
    /\ TypeOK
    /\ \A r \in DOMAIN rows :
        /\ AddsUp(rows[r])
        /\ PlainDay(r) => /\ IsSummary(rows[r])
                          /\ \A u \in DOMAIN rows[r].users : LabelsAddUp(rows[r].users[u])
    /\ EveryEventHasOneDay

\* What a delivery without a date covers is the latest day of Karachi that has
\* ended, even when its transaction began on another day, and its row survives
\* the retention of its own transaction, whose dates are those of UTC
\* (karachiDayBounds, persistFilesAgentDailySummary).
DefaultDelivery ==
    [][\A k \in Cron : delivered'[k] # delivered[k] /\ date[k] = Default =>
        /\ End(StoredRow(k)[2]) <= clock
        /\ clock < End(StoredRow(k)[2]) + DayLength
        /\ StoredRow(k) \in DOMAIN rows']_vars

\* Two lists with the same entries, each at the same place unless another entry
\* has as many events.
Unplaced(f) == [x \in DOMAIN f |-> [f[x] EXCEPT !.place = 0]]
PlacedAlike(f, g) ==
    \A x \in DOMAIN f : f[x].place = g[x].place \/ \E y \in DOMAIN f \ {x} : f[y].events = f[x].events
SameButForTies(s, t) ==
    LET content(users) == Unplaced([u \in DOMAIN users |-> [users[u] EXCEPT !.devices = Unplaced(@)]])
    IN  /\ s.totals = t.totals
        /\ content(s.users) = content(t.users)
        /\ PlacedAlike(s.users, t.users)
        /\ \A u \in DOMAIN s.users : PlacedAlike(s.users[u].devices, t.users[u].devices)

\* On a day whose names are plain, all that a stored summary owes to the texts
\* of the telemetry is the order of users, or of a user's devices, with equal
\* counts: had users, devices and projects had other plain names, which tell the
\* same projects apart, the row would have been the same but for the places of
\* such ties (sanitizeFilesAgentDailySummary, "removes all telemetry-derived
\* text", keeps the order that buildFilesAgentDailySummary sorted by texts).
DeliveryIsBlind ==
    [][\A k \in Cron, N \in Namings :
        delivered'[k] # delivered[k] /\ StoredRow(k) \in DOMAIN rows' /\ PlainDay(StoredRow(k)) =>
            LET row == StoredRow(k)
                R == Rows(events, row[1], row[2])
            IN  \A tops \in TopsOfUsers(R, N) :
                    SameButForTies(rows'[row], Sanitize(Build(R, N, tops)))]_vars

\* A cron that ends has turned to every company there was when it started,
\* once: whatever registers between its pages and whichever deliveries fail,
\* its counters are the number of companies it turned to (GET of the route).
EveryTenantOnce ==
    \A k \in Cron : phase[k] = "done" =>
        /\ existing[k] \subseteq attempted[k]
        /\ delivered[k] + failed[k] = Cardinality(attempted[k])
=============================================================================
