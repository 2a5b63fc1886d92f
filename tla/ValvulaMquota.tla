---------------------------- MODULE ValvulaMquota ----------------------------
(***************************************************************************)
(* mod-mquota (plugins/mod-mquota/mod-mquota.c): sending quotas per        *)
(* minute, per hour and per configured period of the day, for accounts and *)
(* for their domains.                                                      *)
(*                                                                         *)
(* A request is decided under hash_mutex and so is the event that runs     *)
(* each minute: each is one step.  Requests without a sasl user and users  *)
(* with an exception in the database change nothing and are left out.      *)
(***************************************************************************)
EXTENDS Naturals, Integers, Sequences, FiniteSets, FiniteSetsExt

CONSTANTS
    Users,              \* sasl users
    DomainOf,           \* the domain of each, NULL for a user with no "@"
    Keys,               \* "<sender>.<recipient>.<instance>" of the requests of RCPT stages
    MaxCount,           \* bound: recipient_count, which is 0 before the DATA stage
    Configs,            \* sequences of <limit> nodes
    NoMatch,            \* if-no-match: "first", "no-limit" or "reject"
    MinutesPerHour, HoursPerDay,
    MaxLag,             \* bound: how many minutes late an event may run
    NULL

Domains == {DomainOf[u] : u \in Users} \ {NULL}
Minutes == 0 .. MinutesPerHour * HoursPerDay - 1
Windows == {"minute", "hour", "global"}

\* start and end are minutes of the day; a limit below one is disabled.
Limit == [start : Minutes, end : Minutes, user : [Windows -> Int], domain : [Windows -> Int]]

ASSUME QuotaAssumption ==
    /\ IsFiniteSet(Users) /\ DomainOf \in [Users -> {DomainOf[u] : u \in Users}]
    /\ MaxCount \in Nat \ {0}
    /\ Configs \subseteq Seq(Limit) /\ Configs # {}
    /\ NoMatch \in {"first", "no-limit", "reject"}
    /\ MinutesPerHour \in Nat \ {0} /\ HoursPerDay \in Nat \ {0} /\ MaxLag \in Nat
    /\ NULL \notin Keys

VARIABLES
    limits,         \* __mod_mquota_limits
    clock,          \* the minute of the day of the last event, or of the start
    hour_track,
    current,        \* __mod_mquota_current_period, an index of limits, 0 for none
    usage,          \* the hashes of accounts, and the accounting of the current period
    domain_usage,   \* the same of domains
    tracking,       \* __mod_mquota_instance_tracking
    crashed,
    counted         \* history: the keys whose last request of this period was charged

vars == <<limits, clock, hour_track, current, usage, domain_usage, tracking, crashed,
          counted>>

TypeOK ==
    /\ limits \in Configs /\ clock \in Minutes
    /\ hour_track \in 0 .. MinutesPerHour - 1
    /\ current \in 0 .. Len(limits) /\ (current = 0 <=> crashed)
    /\ usage \in [Windows -> [Users -> Nat]]
    /\ domain_usage \in [Windows -> [Domains -> Nat]]
    /\ tracking \subseteq Keys /\ counted \subseteq Keys

-----------------------------------------------------------------------------
(* mod_mquota_get_current_period.                                           *)

HourOf(m) == m \div MinutesPerHour

\* "CrossesMidnight" periods go over midnight.
CrossesMidnight(l) ==
    \/ HourOf(l.start) > HourOf(l.end)
    \/ HourOf(l.start) = HourOf(l.end) /\ l.start < l.end

\* Faulty variant: no inverse periods.
AppliesInOneDay(l, now) == now <= l.end /\ l.start <= now

\* mod_mquota_time_is_before (a, b) is a <= b.
Applies(l, now) ==
    \/ now <= l.end /\ l.start <= now
    \/ CrossesMidnight(l) /\ (now <= l.end \/ l.start <= now)

\* The first that applies, or what if-no-match says.
CurrentPeriod(now) ==
    LET matching == {i \in 1..Len(limits) : Applies(limits[i], now)}
    IN  IF matching # {} THEN Min(matching)
        ELSE IF NoMatch = "first" /\ limits # <<>> THEN 1 ELSE 0

None(S) == [w \in Windows |-> [s \in S |-> 0]]

\* mquota_init fails when no period is found.
Init ==
    /\ limits \in Configs /\ clock \in Minutes
    /\ hour_track = 0
    /\ current = CurrentPeriod(clock) /\ current # 0
    /\ usage = None(Users) /\ domain_usage = None(Domains)
    /\ tracking = {} /\ crashed = FALSE
    /\ counted = {}

-----------------------------------------------------------------------------
(* mquota_process_request.                                                  *)

\* Faulty variant: the limit is still allowed once more when it has been reached.
ReachedStrict(limit, used) == \E w \in Windows : limit[w] > 0 /\ used[w] > limit[w]

\* __mod_mquota_check_reject, for the three windows.
Reached(limit, used) == \E w \in Windows : limit[w] > 0 /\ used[w] >= limit[w]

Used(hashes, s) == [w \in Windows |-> hashes[w][s]]
Charge(hashes, s, n) == [w \in Windows |-> [hashes[w] EXCEPT ![s] = @ + n]]

\* A second request with the same key is let through and its key forgotten.
SkipTracked(k) ==
    /\ k \in tracking
    /\ tracking' = tracking \ {k}
    /\ counted' = counted \ {k}
    /\ UNCHANGED <<usage, domain_usage>>

\* K is empty or the key that this request leaves in the tracking hash.
Decide(u, count, K) ==
    LET n == IF count = 0 THEN 1 ELSE count
        d == DomainOf[u]
    IN  /\ tracking' = tracking \cup K
        /\ IF Reached(limits[current].user, Used(usage, u))
           THEN counted' = counted \ K /\ UNCHANGED <<usage, domain_usage>>
           ELSE /\ usage' = Charge(usage, u, n)
                /\ counted' = counted \cup K
                /\ domain_usage' =
                       IF d = NULL \/ Reached(limits[current].domain, Used(domain_usage, d))
                       THEN domain_usage ELSE Charge(domain_usage, d, 1)

\* recipient_count is not 0, or the request has no sender, recipient or instance.
Request(u, count) ==
    /\ ~ crashed
    /\ Decide(u, count, {})
    /\ UNCHANGED <<limits, clock, hour_track, current, crashed>>

RequestOf(u, k) ==
    /\ ~ crashed
    /\ SkipTracked(k) \/ (k \notin tracking /\ Decide(u, 0, {k}))
    /\ UNCHANGED <<limits, clock, hour_track, current, crashed>>

-----------------------------------------------------------------------------
(* __mod_mquota_minute_handler, the event of each minute.                   *)

\* Faulty variant: an hour lasts one minute more.
HourEndsLate == hour_track = MinutesPerHour

HourEnds == hour_track + 1 = MinutesPerHour

\* Faulty variants: the hour is reset only when the minute is not; the period change
\* forgets the domains.
ResetMinuteNotHour(hashes, S, period_changes) ==
    [w \in Windows |->
        IF \/ w = "minute" /\ ~ HourEnds
           \/ w = "hour" /\ HourEnds
           \/ w = "global" /\ period_changes
        THEN [s \in S |-> 0] ELSE hashes[w]]
ResetButDomains(hashes, S, period_changes) ==
    [w \in Windows |->
        IF \/ w = "minute"
           \/ w = "hour" /\ HourEnds
           \/ w = "global" /\ period_changes /\ S = Users
        THEN [s \in S |-> 0] ELSE hashes[w]]

\* The hashes that start again from nothing.
Reset(hashes, S, period_changes) ==
    [w \in Windows |->
        IF \/ w = "minute"
           \/ w = "hour" /\ HourEnds
           \/ w = "global" /\ period_changes
        THEN [s \in S |-> 0] ELSE hashes[w]]

\* Faulty variant: the tracking starts again with each minute.
TrackedEachMinute(period_changes) == {}

\* The keys that stay in the tracking hash.
Tracked(period_changes) == IF period_changes THEN {} ELSE tracking

\* An event is due a minute after the last one was due: one that runs late is followed by
\* others in the same minute.  The new period is dereferenced even when there is none.
MinuteHandler(elapsed) ==
    LET now == (clock + elapsed) % (MinutesPerHour * HoursPerDay)
        new == CurrentPeriod(now)
        period_changes == new # current
    IN  /\ ~ crashed
        /\ clock' = now
        /\ hour_track' = IF HourEnds THEN 0 ELSE hour_track + 1
        /\ current' = new
        /\ usage' = Reset(usage, Users, period_changes)
        /\ domain_usage' = Reset(domain_usage, Domains, period_changes)
        /\ tracking' = Tracked(period_changes)
        /\ crashed' = (new = 0)
        /\ counted' = IF period_changes THEN {} ELSE counted
        /\ UNCHANGED limits

Next ==
    \/ \E u \in Users :
        \/ \E count \in 0..MaxCount : Request(u, count)
        \/ \E k \in Keys : RequestOf(u, k)
    \/ \E elapsed \in 0 .. 1 + MaxLag : MinuteHandler(elapsed)

Spec == Init /\ [][Next]_vars

-----------------------------------------------------------------------------
(* Properties.                                                              *)

\* The most a window can hold under a limit: the request that reaches it may have
\* MaxCount recipients.
Most(limit) == limit + MaxCount - 1

\* In its period no account goes over the global limit, nor a domain over its own.
GlobalLimitKept ==
    LET l == limits[current]
    IN  ~ crashed =>
        /\ l.user["global"] > 0 =>
              \A u \in Users : usage["global"][u] <= Most(l.user["global"])
        /\ l.domain["global"] > 0 =>
              \A d \in Domains : domain_usage["global"][d] <= l.domain["global"]

\* What was counted in this minute was counted in this hour and in this period too.
WindowsNest ==
    /\ \A u \in Users :
        usage["minute"][u] <= usage["hour"][u] /\ usage["minute"][u] <= usage["global"][u]
    /\ \A d \in Domains :
        /\ domain_usage["minute"][d] <= domain_usage["hour"][d]
        /\ domain_usage["minute"][d] <= domain_usage["global"][d]

\* An hour is no more than MinutesPerHour minutes, each with its own limit.
HourOfMinutes ==
    LET per_minute == {limits[i].user["minute"] : i \in 1..Len(limits)}
    IN  (\A m \in per_minute : m > 0) =>
            \A u \in Users : usage["hour"][u] <= MinutesPerHour * Most(Max(per_minute))

\* A domain is never charged for more than its accounts were: their windows are reset
\* together.
DomainWithinAccounts ==
    \A w \in Windows, d \in Domains :
        domain_usage[w][d] <= MapThenSumSet(LAMBDA u : usage[w][u],
                                            {u \in Users : DomainOf[u] = d})

\* "First it is found what period applies at this time by looking into from and to": the
\* current period covers the time of the day, around midnight too, unless none does.
Covers(l, now) ==
    IF l.start <= l.end THEN l.start <= now /\ now <= l.end
    ELSE l.start <= now \/ now <= l.end
PeriodCoversNow ==
    \/ crashed
    \/ Covers(limits[current], clock)
    \/ \A i \in 1..Len(limits) : ~ Covers(limits[i], clock)

\* "avoid counting twice (or more) same calls to same instance request": a recipient that
\* was charged is not charged by the next request for it in the same period.
RetryNotCharged == counted \subseteq tracking

\* "no-limit : if no period matches, then, apply no limit and let the user to send without
\* limit": the server goes on when a period ends and none begins.
ServedWithoutPeriod == ~ crashed
=============================================================================
