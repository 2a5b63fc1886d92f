------------------------- MODULE ValvulaMquotaProofs -------------------------
(***************************************************************************)
(* What ValvulaMquota promises for any accounts, periods, limits, length   *)
(* of an hour and of a day, and delay of its event: no account goes over a *)
(* limit by more than one request, windows nest, an hour holds no more     *)
(* than its minutes, a retry is not charged, and the period is that of the *)
(* time of the day.                                                        *)
(***************************************************************************)
EXTENDS ValvulaMquota, FiniteSetTheorems, WellFoundedInduction, TLAPS

LEMMA LeastNumber ==
  ASSUME NEW S \in SUBSET Nat, S # {}
  PROVE  \E n \in S : \A m \in S : n <= m
<1> DEFINE Less == {p \in Nat \X Nat : p[1] < p[2]}
<1>1. IsWellFoundedOn(Less, Nat)
  <2>1. Less = OpToRel(<, Nat)
    BY DEF OpToRel
  <2> QED
    BY <2>1, NatLessThanWellFounded
<1>2. \A n, m \in Nat : <<n, m>> \in Less <=> n < m
  OBVIOUS
<1> HIDE DEF Less
<1>3. PICK n \in S : \A m \in S : <<m, n>> \notin Less
  BY <1>1, WFMin
<1>4. ASSUME NEW m \in S PROVE n <= m
  <2>1. n \in Nat /\ m \in Nat /\ <<m, n>> \notin Less
    BY <1>3
  <2>2. ~ (m < n)
    BY <1>2, <2>1
  <2> QED
    BY <2>1, <2>2
<1> QED
  BY <1>4

-----------------------------------------------------------------------------
(* The period.                                                              *)

Matching(now) == {i \in 1..Len(limits) : Applies(limits[i], now)}

LEMMA FirstMatching ==
  ASSUME limits \in Seq(Limit), NEW now, Matching(now) # {}
  PROVE  CurrentPeriod(now) \in Matching(now)
<1>1. Matching(now) \in SUBSET Nat
  BY DEF Matching
<1>2. \E i \in Matching(now) : \A j \in Matching(now) : i <= j
  BY <1>1, LeastNumber
<1>3. Min(Matching(now)) \in Matching(now)
  BY <1>2 DEF Min
<1>4. CurrentPeriod(now) = Min(Matching(now))
  BY DEF CurrentPeriod, Matching
<1> QED
  BY <1>3, <1>4

LEMMA PeriodIsLimit ==
  ASSUME limits \in Seq(Limit), NEW now
  PROVE  CurrentPeriod(now) \in 0..Len(limits)
<1>1. Len(limits) \in Nat
  OBVIOUS
<1>2. CASE Matching(now) # {}
  BY <1>2, FirstMatching DEF Matching
<1>3. CASE Matching(now) = {}
  <2>1. limits # <<>> => Len(limits) >= 1
    OBVIOUS
  <2>2. CurrentPeriod(now) = IF NoMatch = "first" /\ limits # <<>> THEN 1 ELSE 0
    BY <1>3 DEF CurrentPeriod, Matching
  <2> QED
    BY <1>1, <2>1, <2>2
<1> QED
  BY <1>2, <1>3

-----------------------------------------------------------------------------
(* Types.                                                                   *)

\* TypeOK, the period of the time, and a period at least.
TypeInv ==
    /\ TypeOK /\ limits \in Seq(Limit) /\ Len(limits) >= 1
    /\ current = CurrentPeriod(clock)

LEMMA UserTypes ==
  ASSUME NEW u \in Users
  PROVE  DomainOf[u] \in Domains \cup {NULL}
  BY DEF Domains

LEMMA LimitTypes ==
  ASSUME TypeInv, ~ crashed
  PROVE  /\ current \in 1..Len(limits) /\ limits[current] \in Limit
         /\ limits[current].user \in [Windows -> Int] /\ limits[current].domain \in [Windows -> Int]
<1>1. current \in 1..Len(limits)
  BY DEF TypeInv, TypeOK
<1>2. limits[current] \in Limit
  BY <1>1 DEF TypeInv
<1> QED
  BY <1>1, <1>2 DEF Limit

LEMMA ChargeTypes ==
  ASSUME NEW S, NEW hashes \in [Windows -> [S -> Nat]], NEW s \in S, NEW n \in Nat
  PROVE  /\ Charge(hashes, s, n) \in [Windows -> [S -> Nat]]
         /\ \A w \in Windows, t \in S :
                Charge(hashes, s, n)[w][t] = IF t = s THEN hashes[w][t] + n ELSE hashes[w][t]
  BY DEF Charge

LEMMA ResetTypes ==
  ASSUME NEW S, NEW hashes \in [Windows -> [S -> Nat]], NEW p \in BOOLEAN
  PROVE  /\ Reset(hashes, S, p) \in [Windows -> [S -> Nat]]
         /\ \A w \in Windows, t \in S : Reset(hashes, S, p)[w][t] \in {0, hashes[w][t]}
         /\ \A t \in S : Reset(hashes, S, p)["minute"][t] = 0
         /\ HourEnds => \A t \in S : Reset(hashes, S, p)["hour"][t] = 0
         /\ p => \A t \in S : Reset(hashes, S, p)["global"][t] = 0
         /\ ~ p => Reset(hashes, S, p)["global"] = hashes["global"]
  BY DEF Reset, Windows

\* What a decision is: nothing, or a charge of the account, and perhaps its domain.
LEMMA Decision ==
  ASSUME TypeInv, ~ crashed, NEW u \in Users, NEW count \in 0..MaxCount, NEW K, Decide(u, count, K)
  PROVE  /\ \/ usage' = usage
            \/ \E n \in 1..MaxCount :
                   /\ ~ Reached(limits[current].user, Used(usage, u))
                   /\ usage' = Charge(usage, u, n)
         /\ \/ domain_usage' = domain_usage
            \/ \E d \in Domains :
                   /\ ~ Reached(limits[current].domain, Used(domain_usage, d))
                   /\ domain_usage' = Charge(domain_usage, d, 1)
<1> DEFINE n == IF count = 0 THEN 1 ELSE count
           d == DomainOf[u]
<1>1. n \in 1..MaxCount
  BY QuotaAssumption
<1>2. d \in Domains \cup {NULL}
  BY UserTypes
<1>3. CASE Reached(limits[current].user, Used(usage, u))
  BY <1>3 DEF Decide
<1>4. CASE ~ Reached(limits[current].user, Used(usage, u))
  <2>1. /\ usage' = Charge(usage, u, n)
        /\ domain_usage' = IF d = NULL \/ Reached(limits[current].domain, Used(domain_usage, d))
                           THEN domain_usage ELSE Charge(domain_usage, d, 1)
    BY <1>4 DEF Decide
  <2> QED
    BY <1>1, <1>2, <1>4, <2>1
<1> QED
  BY <1>3, <1>4

\* A request does no more than such a decision to the hashes.
LEMMA RequestStep ==
  ASSUME TypeInv, NEW u \in Users,
         (\E count \in 0..MaxCount : Request(u, count)) \/ (\E k \in Keys : RequestOf(u, k))
  PROVE  /\ ~ crashed /\ UNCHANGED <<limits, clock, hour_track, current, crashed>>
         /\ \/ usage' = usage
            \/ \E n \in 1..MaxCount :
                   /\ ~ Reached(limits[current].user, Used(usage, u))
                   /\ usage' = Charge(usage, u, n)
         /\ \/ domain_usage' = domain_usage
            \/ \E d \in Domains :
                   /\ ~ Reached(limits[current].domain, Used(domain_usage, d))
                   /\ domain_usage' = Charge(domain_usage, d, 1)
<1>1. CASE \E count \in 0..MaxCount : Request(u, count)
  BY <1>1, Decision DEF Request
<1>2. CASE \E k \in Keys : RequestOf(u, k)
  <2>1. 0 \in 0..MaxCount
    BY QuotaAssumption
  <2> QED
    BY <1>2, <2>1, Decision DEF RequestOf, SkipTracked
<1> QED
  BY <1>1, <1>2

LEMMA TrackingTypes ==
  ASSUME TypeInv, NEW u \in Users,
         (\E count \in 0..MaxCount : Request(u, count)) \/ (\E k \in Keys : RequestOf(u, k))
  PROVE  /\ tracking' \subseteq Keys /\ counted' \subseteq Keys
         /\ counted \subseteq tracking => counted' \subseteq tracking'
<1>1. ASSUME NEW count, NEW K \in SUBSET Keys, Decide(u, count, K)
      PROVE  /\ tracking' \subseteq Keys /\ counted' \subseteq Keys
             /\ counted \subseteq tracking => counted' \subseteq tracking'
  BY <1>1 DEF Decide, TypeInv, TypeOK
<1>2. CASE \E count \in 0..MaxCount : Request(u, count)
  BY <1>1, <1>2 DEF Request
<1>3. ASSUME NEW k \in Keys, RequestOf(u, k)
      PROVE  /\ tracking' \subseteq Keys /\ counted' \subseteq Keys
             /\ counted \subseteq tracking => counted' \subseteq tracking'
  BY <1>1, <1>3 DEF RequestOf, SkipTracked, TypeInv, TypeOK
<1> QED
  BY <1>2, <1>3

\* The same of the event of a minute.
LEMMA MinuteStep ==
  ASSUME TypeInv, NEW elapsed \in 0 .. 1 + MaxLag, MinuteHandler(elapsed)
  PROVE  /\ ~ crashed /\ limits' = limits /\ clock' \in Minutes
         /\ current' = CurrentPeriod(clock') /\ (crashed' <=> current' = 0)
         /\ hour_track' = IF HourEnds THEN 0 ELSE hour_track + 1
         /\ usage' = Reset(usage, Users, current' # current)
         /\ domain_usage' = Reset(domain_usage, Domains, current' # current)
         /\ tracking' = (IF current' # current THEN {} ELSE tracking)
         /\ counted' = (IF current' # current THEN {} ELSE counted)
<1> DEFINE day == MinutesPerHour * HoursPerDay
<1>1. day \in Nat \ {0}
  BY QuotaAssumption
<1> HIDE DEF day
<1>2. clock \in Nat /\ elapsed \in Nat
  BY QuotaAssumption DEF TypeInv, TypeOK, Minutes
<1>3. (clock + elapsed) % day \in 0 .. day - 1
  BY <1>1, <1>2
<1>4. clock' \in Minutes
  BY <1>3 DEF MinuteHandler, Minutes, day
<1> QED
  BY <1>4 DEF MinuteHandler, Tracked

LEMMA TypeInvInit == Init => TypeInv
<1> SUFFICES ASSUME Init PROVE TypeInv
  OBVIOUS
<1>1. limits \in Seq(Limit)
  BY QuotaAssumption DEF Init
<1>2. current \in 0..Len(limits) /\ current # 0 /\ Len(limits) \in Nat
  BY <1>1, PeriodIsLimit DEF Init
<1>3. usage \in [Windows -> [Users -> Nat]] /\ domain_usage \in [Windows -> [Domains -> Nat]]
  BY DEF Init, None
<1>4. hour_track \in 0 .. MinutesPerHour - 1
  BY QuotaAssumption DEF Init
<1> QED
  BY <1>1, <1>2, <1>3, <1>4 DEF Init, TypeInv, TypeOK

LEMMA TypeInvNext == TypeInv /\ [Next]_vars => TypeInv'
<1> SUFFICES ASSUME TypeInv, [Next]_vars PROVE TypeInv'
  OBVIOUS
<1>1. /\ usage \in [Windows -> [Users -> Nat]] /\ domain_usage \in [Windows -> [Domains -> Nat]]
      /\ limits \in Seq(Limit) /\ Len(limits) >= 1 /\ hour_track \in 0 .. MinutesPerHour - 1
      /\ MinutesPerHour \in Nat /\ MaxCount \in Nat
  BY QuotaAssumption DEF TypeInv, TypeOK
<1>2. ASSUME NEW u \in Users,
             (\E count \in 0..MaxCount : Request(u, count)) \/ (\E k \in Keys : RequestOf(u, k))
      PROVE  TypeInv'
  <2>1. usage' \in [Windows -> [Users -> Nat]]
    <3>1. CASE usage' = usage
      BY <1>1, <3>1
    <3>2. ASSUME NEW n \in 1..MaxCount, usage' = Charge(usage, u, n)
          PROVE  usage' \in [Windows -> [Users -> Nat]]
      BY <1>1, <3>2, ChargeTypes
    <3> QED
      BY <1>2, <3>1, <3>2, RequestStep
  <2>2. domain_usage' \in [Windows -> [Domains -> Nat]]
    <3>1. CASE domain_usage' = domain_usage
      BY <1>1, <3>1
    <3>2. ASSUME NEW d \in Domains, domain_usage' = Charge(domain_usage, d, 1)
          PROVE  domain_usage' \in [Windows -> [Domains -> Nat]]
      BY <1>1, <3>2, ChargeTypes
    <3> QED
      BY <1>2, <3>1, <3>2, RequestStep
  <2>3. UNCHANGED <<limits, clock, hour_track, current, crashed>>
    BY <1>2, RequestStep
  <2>4. tracking' \subseteq Keys /\ counted' \subseteq Keys
    BY <1>2, TrackingTypes
  <2>5. CurrentPeriod(clock)' = CurrentPeriod(clock)
    BY <2>3 DEF CurrentPeriod
  <2> QED
    BY <2>1, <2>2, <2>3, <2>4, <2>5 DEF TypeInv, TypeOK
<1>3. ASSUME NEW elapsed \in 0 .. 1 + MaxLag, MinuteHandler(elapsed)
      PROVE  TypeInv'
  <2>1. /\ limits' = limits /\ clock' \in Minutes
        /\ current' = CurrentPeriod(clock') /\ (crashed' <=> current' = 0)
        /\ tracking' \subseteq Keys /\ counted' \subseteq Keys
    BY <1>3, MinuteStep DEF TypeInv, TypeOK
  <2>2. usage' \in [Windows -> [Users -> Nat]] /\ domain_usage' \in [Windows -> [Domains -> Nat]]
    <3>1. Reset(usage, Users, current' # current) \in [Windows -> [Users -> Nat]]
      BY <1>1, ResetTypes
    <3>2. Reset(domain_usage, Domains, current' # current) \in [Windows -> [Domains -> Nat]]
      BY <1>1, ResetTypes
    <3> QED
      BY <1>3, <3>1, <3>2, MinuteStep
  <2>3. hour_track' \in 0 .. MinutesPerHour - 1
    BY <1>1, <1>3, MinuteStep, QuotaAssumption DEF HourEnds
  <2>4. current' \in 0..Len(limits')
    BY <1>1, <2>1, PeriodIsLimit
  <2>5. current' = CurrentPeriod(clock)'
    BY <2>1 DEF CurrentPeriod
  <2> QED
    BY <2>1, <2>2, <2>3, <2>4, <2>5 DEF TypeInv, TypeOK
<1>4. CASE UNCHANGED vars
  BY <1>4 DEF vars, TypeInv, TypeOK, CurrentPeriod
<1> QED
  BY <1>2, <1>3, <1>4 DEF Next

(* Every count stays a number, and the current period is a configured one  *)
(* until the server crashes for want of one (mod-mquota.c:229-290).        *)
THEOREM TypeCorrect == Spec => []TypeOK
<1>1. TypeInv => TypeOK
  BY DEF TypeInv
<1> QED
  BY <1>1, TypeInvInit, TypeInvNext, PTL DEF Spec


\* What is true of every state of a behaviour.
LEMMA TypeInvAlways == Spec => []TypeInv
  BY TypeInvInit, TypeInvNext, PTL DEF Spec

-----------------------------------------------------------------------------
(* The retries.                                                             *)

(* A recipient that was charged is remembered until its next request, or   *)
(* until the period ends (mod-mquota.c:780-812).                           *)
THEOREM RetriesAreNotCharged == Spec => []RetryNotCharged
<1>1. Init => RetryNotCharged
  BY DEF Init, RetryNotCharged
<1>2. TypeInv /\ RetryNotCharged /\ [Next]_vars => RetryNotCharged'
  <2> SUFFICES ASSUME TypeInv, counted \subseteq tracking, [Next]_vars
               PROVE  counted' \subseteq tracking'
    BY DEF RetryNotCharged
  <2>1. ASSUME NEW u \in Users,
               (\E count \in 0..MaxCount : Request(u, count)) \/ (\E k \in Keys : RequestOf(u, k))
        PROVE  counted' \subseteq tracking'
    BY <2>1, TrackingTypes
  <2>2. ASSUME NEW elapsed \in 0 .. 1 + MaxLag, MinuteHandler(elapsed)
        PROVE  counted' \subseteq tracking'
    BY <2>2, MinuteStep
  <2>3. CASE UNCHANGED vars
    BY <2>3 DEF vars
  <2> QED
    BY <2>1, <2>2, <2>3 DEF Next
<1> QED
  BY <1>1, <1>2, TypeInvAlways, PTL DEF Spec

-----------------------------------------------------------------------------
(* The limits.                                                              *)

\* What is charged was below each of its limits before.
LEMMA BelowLimits ==
  ASSUME NEW limit \in [Windows -> Int], NEW S, NEW hashes \in [Windows -> [S -> Nat]], NEW s \in S,
         ~ Reached(limit, Used(hashes, s)), NEW w \in Windows, limit[w] > 0
  PROVE  hashes[w][s] < limit[w]
<1>1. Used(hashes, s)[w] = hashes[w][s]
  BY DEF Used
<1>2. ~ (hashes[w][s] >= limit[w])
  BY <1>1 DEF Reached
<1>3. hashes[w][s] \in Nat /\ limit[w] \in Int
  OBVIOUS
<1> QED
  BY <1>2, <1>3

\* The hashes of a kind stay within the global limit, the last charge aside.
Within(hashes, S, limit, most) ==
    limit["global"] > 0 => \A s \in S : hashes["global"][s] <= limit["global"] + most - 1

LEMMA ChargeWithin ==
  ASSUME NEW limit \in [Windows -> Int], NEW S, NEW hashes \in [Windows -> [S -> Nat]], NEW s \in S,
         NEW most \in Nat, NEW n \in 1..most, ~ Reached(limit, Used(hashes, s)),
         Within(hashes, S, limit, most)
  PROVE  Within(Charge(hashes, s, n), S, limit, most)
<1> SUFFICES ASSUME limit["global"] > 0, NEW t \in S
             PROVE  Charge(hashes, s, n)["global"][t] <= limit["global"] + most - 1
  BY DEF Within
<1>1. "global" \in Windows /\ n \in Nat
  BY DEF Windows
<1>2. hashes["global"][t] \in Nat /\ limit["global"] \in Int
  BY <1>1
<1>3. CASE t = s
  <2>1. hashes["global"][t] < limit["global"]
    BY <1>1, <1>3, BelowLimits
  <2>2. Charge(hashes, s, n)["global"][t] = hashes["global"][t] + n
    BY <1>1, <1>3 DEF Charge
  <2> QED
    BY <1>2, <2>1, <2>2
<1>4. CASE t # s
  <2>1. Charge(hashes, s, n)["global"][t] = hashes["global"][t]
    BY <1>1, <1>4, ChargeTypes
  <2> QED
    BY <2>1 DEF Within
<1> QED
  BY <1>3, <1>4

\* A new period begins from nothing, and another minute of the same one changes no count.
LEMMA ResetWithin ==
  ASSUME NEW limit \in [Windows -> Int], NEW S, NEW hashes \in [Windows -> [S -> Nat]],
         NEW most \in Nat \ {0}, NEW p \in BOOLEAN, p \/ Within(hashes, S, limit, most)
  PROVE  Within(Reset(hashes, S, p), S, limit, most)
<1>1. "global" \in Windows
  BY DEF Windows
<1>2. limit["global"] \in Int
  BY <1>1
<1>3. CASE p
  <2>1. \A t \in S : Reset(hashes, S, p)["global"][t] = 0
    BY <1>1, <1>3 DEF Reset
  <2> QED
    BY <1>2, <2>1 DEF Within
<1>4. CASE ~ p
  <2>1. Reset(hashes, S, p)["global"] = hashes["global"]
    BY <1>1, <1>4 DEF Reset
  <2> QED
    BY <1>4, <2>1 DEF Within
<1> QED
  BY <1>3, <1>4

LimitsInv ==
    ~ crashed =>
        /\ Within(usage, Users, limits[current].user, MaxCount)
        /\ Within(domain_usage, Domains, limits[current].domain, 1)

LEMMA LimitsInvNext == TypeInv /\ TypeInv' /\ LimitsInv /\ [Next]_vars => LimitsInv'
<1> SUFFICES ASSUME TypeInv, TypeInv', LimitsInv, [Next]_vars PROVE LimitsInv'
  OBVIOUS
<1>1. /\ usage \in [Windows -> [Users -> Nat]] /\ domain_usage \in [Windows -> [Domains -> Nat]]
      /\ MaxCount \in Nat \ {0}
  BY QuotaAssumption DEF TypeInv, TypeOK
<1>2. ASSUME NEW u \in Users,
             (\E count \in 0..MaxCount : Request(u, count)) \/ (\E k \in Keys : RequestOf(u, k))
      PROVE  LimitsInv'
  <2>1. ~ crashed /\ UNCHANGED <<limits, current, crashed>>
    BY <1>2, RequestStep
  <2>2. limits[current].user \in [Windows -> Int] /\ limits[current].domain \in [Windows -> Int]
    BY <2>1, LimitTypes
  <2>3. Within(usage', Users, limits[current].user, MaxCount)
    <3>1. CASE usage' = usage
      BY <2>1, <3>1 DEF LimitsInv
    <3>2. ASSUME NEW n \in 1..MaxCount, ~ Reached(limits[current].user, Used(usage, u)),
                 usage' = Charge(usage, u, n)
          PROVE  Within(usage', Users, limits[current].user, MaxCount)
      <4>1. Within(Charge(usage, u, n), Users, limits[current].user, MaxCount)
        BY <1>1, <2>1, <2>2, <3>2, ChargeWithin DEF LimitsInv
      <4> QED
        BY <3>2, <4>1
    <3> QED
      BY <1>2, <3>1, <3>2, RequestStep
  <2>4. Within(domain_usage', Domains, limits[current].domain, 1)
    <3>1. CASE domain_usage' = domain_usage
      BY <2>1, <3>1 DEF LimitsInv
    <3>2. ASSUME NEW d \in Domains, ~ Reached(limits[current].domain, Used(domain_usage, d)),
                 domain_usage' = Charge(domain_usage, d, 1)
          PROVE  Within(domain_usage', Domains, limits[current].domain, 1)
      <4>1. 1 \in Nat /\ 1 \in 1..1
        OBVIOUS
      <4>2. Within(Charge(domain_usage, d, 1), Domains, limits[current].domain, 1)
        BY <1>1, <2>1, <2>2, <3>2, <4>1, ChargeWithin DEF LimitsInv
      <4> QED
        BY <3>2, <4>2
    <3> QED
      BY <1>2, <3>1, <3>2, RequestStep
  <2>5. Domains' = Domains
    BY DEF Domains
  <2> QED
    BY <2>1, <2>3, <2>4 DEF LimitsInv, Within
<1>3. ASSUME NEW elapsed \in 0 .. 1 + MaxLag, MinuteHandler(elapsed)
      PROVE  LimitsInv'
  <2> SUFFICES ASSUME ~ crashed'
               PROVE  /\ Within(usage', Users, limits'[current'].user, MaxCount)
                      /\ Within(domain_usage', Domains, limits'[current'].domain, 1)
    BY DEF LimitsInv, Within
  <2>1. /\ ~ crashed /\ limits' = limits
        /\ usage' = Reset(usage, Users, current' # current)
        /\ domain_usage' = Reset(domain_usage, Domains, current' # current)
    BY <1>3, MinuteStep
  <2>2. current' \in 1..Len(limits)
    BY <2>1 DEF TypeInv, TypeOK
  <2>3. limits[current'] \in Limit
    BY <2>2 DEF TypeInv
  <2>4. limits'[current'].user \in [Windows -> Int] /\ limits'[current'].domain \in [Windows -> Int]
    BY <2>1, <2>3 DEF Limit
  <2>5. /\ (current' # current) \/ Within(usage, Users, limits'[current'].user, MaxCount)
        /\ (current' # current) \/ Within(domain_usage, Domains, limits'[current'].domain, 1)
    BY <2>1 DEF LimitsInv
  <2>6. Within(Reset(usage, Users, current' # current), Users, limits'[current'].user, MaxCount)
    BY <1>1, <2>4, <2>5, ResetWithin
  <2>7. Within(Reset(domain_usage, Domains, current' # current), Domains,
               limits'[current'].domain, 1)
    <3>1. 1 \in Nat \ {0}
      OBVIOUS
    <3> QED
      BY <1>1, <2>4, <2>5, <3>1, ResetWithin
  <2> QED
    BY <2>1, <2>6, <2>7
<1>4. CASE UNCHANGED vars
  BY <1>4 DEF vars, LimitsInv, Within
<1> QED
  BY <1>2, <1>3, <1>4 DEF Next

(* In a period no account is charged once its limit is reached, so that it *)
(* goes over by one request at most; a domain, charged one at a time, does *)
(* not go over at all (mod-mquota.c:561-712, 811-823).                     *)
THEOREM LimitsAreKept == Spec => []GlobalLimitKept
<1>1. Init => LimitsInv
  <2> SUFFICES ASSUME Init PROVE LimitsInv
    OBVIOUS
  <2>1. TypeInv /\ ~ crashed
    BY TypeInvInit DEF Init
  <2>2. limits[current].user["global"] \in Int /\ limits[current].domain["global"] \in Int
    BY <2>1, LimitTypes DEF Windows
  <2>3. MaxCount \in Nat \ {0}
    BY QuotaAssumption
  <2>4. /\ \A u \in Users : usage["global"][u] = 0
        /\ \A d \in Domains : domain_usage["global"][d] = 0
    BY DEF Init, None, Windows
  <2> QED
    BY <2>2, <2>3, <2>4 DEF LimitsInv, Within
<1>2. TypeInv /\ LimitsInv => GlobalLimitKept
  <2> SUFFICES ASSUME TypeInv, LimitsInv, ~ crashed
               PROVE  /\ limits[current].user["global"] > 0 =>
                            \A u \in Users : usage["global"][u] <= Most(limits[current].user["global"])
                      /\ limits[current].domain["global"] > 0 =>
                            \A d \in Domains :
                                domain_usage["global"][d] <= limits[current].domain["global"]
    BY DEF GlobalLimitKept
  <2>1. limits[current].domain["global"] \in Int
    BY LimitTypes DEF Windows
  <2>2. limits[current].domain["global"] + 1 - 1 = limits[current].domain["global"]
    BY <2>1
  <2> QED
    BY <2>2 DEF LimitsInv, Within, Most
<1> QED
  BY <1>1, <1>2, TypeInvAlways, LimitsInvNext, PTL DEF Spec


-----------------------------------------------------------------------------
(* The windows.                                                             *)

\* The minute of each name is no more than its hour and than its period.
Nested(hashes, S) ==
    \A s \in S : hashes["minute"][s] <= hashes["hour"][s] /\ hashes["minute"][s] <= hashes["global"][s]

LEMMA ChargeNested ==
  ASSUME NEW S, NEW hashes \in [Windows -> [S -> Nat]], NEW s \in S, NEW n \in Nat,
         Nested(hashes, S)
  PROVE  Nested(Charge(hashes, s, n), S)
<1> SUFFICES ASSUME NEW t \in S
             PROVE  /\ Charge(hashes, s, n)["minute"][t] <= Charge(hashes, s, n)["hour"][t]
                    /\ Charge(hashes, s, n)["minute"][t] <= Charge(hashes, s, n)["global"][t]
  BY DEF Nested
<1>1. /\ hashes["minute"][t] \in Nat /\ hashes["hour"][t] \in Nat /\ hashes["global"][t] \in Nat
      /\ hashes["minute"][t] <= hashes["hour"][t] /\ hashes["minute"][t] <= hashes["global"][t]
  BY DEF Nested, Windows
<1>2. \A w \in Windows :
          Charge(hashes, s, n)[w][t] = IF t = s THEN hashes[w][t] + n ELSE hashes[w][t]
  BY DEF Charge
<1> QED
  BY <1>1, <1>2 DEF Windows

LEMMA ResetNested ==
  ASSUME NEW S, NEW hashes \in [Windows -> [S -> Nat]], NEW p \in BOOLEAN
  PROVE  Nested(Reset(hashes, S, p), S)
<1> SUFFICES ASSUME NEW t \in S
             PROVE  /\ Reset(hashes, S, p)["minute"][t] <= Reset(hashes, S, p)["hour"][t]
                    /\ Reset(hashes, S, p)["minute"][t] <= Reset(hashes, S, p)["global"][t]
  BY DEF Nested
<1>1. Reset(hashes, S, p)["minute"][t] = 0
  BY DEF Reset, Windows
<1>2. Reset(hashes, S, p)["hour"][t] \in Nat /\ Reset(hashes, S, p)["global"][t] \in Nat
  BY DEF Reset, Windows
<1> QED
  BY <1>1, <1>2

(* A charge counts in the three windows, and none is reset without the     *)
(* minute: what was sent in this minute was sent in this hour and in this  *)
(* period (mod-mquota.c:199-300, 650-680).                                 *)
THEOREM WindowsAreNested == Spec => []WindowsNest
<1> DEFINE Inv == Nested(usage, Users) /\ Nested(domain_usage, Domains)
<1>1. Init => Inv
  BY DEF Init, None, Nested, Windows
<1>2. TypeInv /\ Inv /\ [Next]_vars => Inv'
  <2> SUFFICES ASSUME TypeInv, Inv, [Next]_vars
               PROVE  Nested(usage', Users) /\ Nested(domain_usage', Domains)
    BY DEF Nested, Domains
  <2>1. usage \in [Windows -> [Users -> Nat]] /\ domain_usage \in [Windows -> [Domains -> Nat]]
    BY DEF TypeInv, TypeOK
  <2>2. MaxCount \in Nat
    BY QuotaAssumption
  <2>3. ASSUME NEW u \in Users,
               (\E count \in 0..MaxCount : Request(u, count)) \/ (\E k \in Keys : RequestOf(u, k))
        PROVE  Nested(usage', Users) /\ Nested(domain_usage', Domains)
    <3>1. \/ usage' = usage
          \/ \E n \in 1..MaxCount : usage' = Charge(usage, u, n)
      BY <2>3, RequestStep
    <3>2. \/ domain_usage' = domain_usage
          \/ \E d \in Domains : domain_usage' = Charge(domain_usage, d, 1)
      BY <2>3, RequestStep
    <3>3. Nested(usage', Users)
      <4>1. ASSUME NEW n \in 1..MaxCount PROVE Nested(Charge(usage, u, n), Users)
        BY <2>1, <2>2, ChargeNested
      <4> QED
        BY <3>1, <4>1
    <3>4. Nested(domain_usage', Domains)
      <4>1. ASSUME NEW d \in Domains PROVE Nested(Charge(domain_usage, d, 1), Domains)
        BY <2>1, ChargeNested
      <4> QED
        BY <3>2, <4>1
    <3> QED
      BY <3>3, <3>4
  <2>4. ASSUME NEW elapsed \in 0 .. 1 + MaxLag, MinuteHandler(elapsed)
        PROVE  Nested(usage', Users) /\ Nested(domain_usage', Domains)
    <3>1. /\ usage' = Reset(usage, Users, current' # current)
          /\ domain_usage' = Reset(domain_usage, Domains, current' # current)
      BY <2>4, MinuteStep
    <3>2. /\ Nested(Reset(usage, Users, current' # current), Users)
          /\ Nested(Reset(domain_usage, Domains, current' # current), Domains)
      BY <2>1, ResetNested
    <3> QED
      BY <3>1, <3>2
  <2>5. CASE UNCHANGED vars
    BY <2>5 DEF vars
  <2> QED
    BY <2>3, <2>4, <2>5 DEF Next
<1>3. Inv => WindowsNest
  BY DEF Nested, WindowsNest
<1> QED
  BY <1>1, <1>2, <1>3, TypeInvAlways, PTL DEF Spec

-----------------------------------------------------------------------------
(* The period of the time of the day.                                       *)

LEMMA Division ==
  ASSUME NEW n \in Nat, NEW h \in Nat \ {0}
  PROVE  n \div h \in Nat /\ n = h * (n \div h) + (n % h) /\ n % h \in 0 .. h - 1
<1>1. n % h \in 0 .. h - 1
  OBVIOUS
<1>2. n = h * (n \div h) + (n % h)
  OBVIOUS
<1>3. n \div h \in Nat
  OBVIOUS
<1> QED
  BY <1>1, <1>2, <1>3

\* A later hour of the day comes later in the day.
LEMMA HoursInOrder ==
  ASSUME NEW a \in Nat, NEW b \in Nat, a \div MinutesPerHour > b \div MinutesPerHour
  PROVE  a > b
<1>1. MinutesPerHour \in Nat \ {0}
  BY QuotaAssumption
<1> DEFINE h == MinutesPerHour
           p == a \div h
           q == b \div h
<1>2. /\ p \in Nat /\ q \in Nat
      /\ a = h * p + (a % h) /\ b = h * q + (b % h)
      /\ a % h \in 0 .. h - 1 /\ b % h \in 0 .. h - 1
  BY <1>1, Division
<1>3. p >= q + 1
  BY <1>2
<1>4. h * p >= h * (q + 1)
  <2> HIDE DEF p, q
  <2> QED
    BY <1>1, <1>2, <1>3
<1>5. h * (q + 1) = h * q + h
  <2> HIDE DEF q
  <2> QED
    BY <1>1, <1>2
<1> HIDE DEF p, q
<1> QED
  BY <1>1, <1>2, <1>4, <1>5

\* No period begins and ends in the same hour at different minutes.
LongPeriods ==
    \A c \in Configs : \A i \in DOMAIN c :
        HourOf(c[i].start) = HourOf(c[i].end) => c[i].start = c[i].end

LEMMA AppliesIsCovers ==
  ASSUME LongPeriods, TypeInv, NEW i \in 1..Len(limits), NEW now \in Nat
  PROVE  Applies(limits[i], now) <=> Covers(limits[i], now)
<1> DEFINE l == limits[i]
<1>1. l.start \in Nat /\ l.end \in Nat
  <2>1. l \in Limit
    BY DEF TypeInv
  <2>2. Minutes \subseteq Nat
    BY QuotaAssumption DEF Minutes
  <2> QED
    BY <2>1, <2>2 DEF Limit
<1>2. HourOf(l.start) = HourOf(l.end) => l.start = l.end
  BY DEF LongPeriods, TypeInv, TypeOK
<1>3. HourOf(l.start) \in Nat /\ HourOf(l.end) \in Nat
  BY <1>1, Division, QuotaAssumption DEF HourOf
<1>4. /\ HourOf(l.start) > HourOf(l.end) => l.start > l.end
      /\ HourOf(l.end) > HourOf(l.start) => l.end > l.start
  BY <1>1, HoursInOrder DEF HourOf
<1>5. CrossesMidnight(l) <=> l.start > l.end
  BY <1>1, <1>2, <1>3, <1>4 DEF CrossesMidnight
<1> QED
  BY <1>1, <1>5 DEF Applies, Covers

(* When no period begins and ends within one hour, the current period      *)
(* covers the time of the day if any does, around midnight too             *)
(* (mod-mquota.c:81-198).                                                  *)
THEOREM PeriodIsCurrent ==
  ASSUME LongPeriods
  PROVE  Spec => []PeriodCoversNow
<1>1. TypeInv => PeriodCoversNow
  <2> SUFFICES ASSUME TypeInv, ~ crashed, NEW j \in 1..Len(limits), Covers(limits[j], clock)
               PROVE  Covers(limits[current], clock)
    BY DEF PeriodCoversNow
  <2>1. clock \in Nat
    BY QuotaAssumption DEF TypeInv, TypeOK, Minutes
  <2>2. j \in Matching(clock)
    BY <2>1, AppliesIsCovers DEF Matching
  <2>3. current \in Matching(clock)
    BY <2>2, FirstMatching DEF TypeInv
  <2>4. current \in 1..Len(limits) /\ Applies(limits[current], clock)
    BY <2>3 DEF Matching
  <2> QED
    BY <2>1, <2>4, AppliesIsCovers
<1> QED
  BY <1>1, TypeInvAlways, PTL


-----------------------------------------------------------------------------
(* The hour.                                                                *)

\* Finitely many numbers have a greatest one.
LEMMA GreatestNumber ==
  ASSUME NEW n \in Nat \ {0}, NEW f \in [1..n -> Nat]
  PROVE  LET S == {f[i] : i \in 1..n} IN Max(S) \in S /\ \A m \in S : m <= Max(S)
<1> DEFINE S == {f[i] : i \in 1..n}
           Bounds(k) == {b \in Nat : \A i \in 1..k : f[i] <= b}
           Bad == {k \in 0..n : Bounds(k) = {}}
<1>1. Bad = {}
  <2> SUFFICES ASSUME Bad # {} PROVE FALSE
    OBVIOUS
  <2>1. Bad \in SUBSET Nat
    OBVIOUS
  <2>2. PICK k \in Bad : \A m \in Bad : k <= m
    BY <2>1, LeastNumber
  <2>3. 0 \in Bounds(0)
    OBVIOUS
  <2>4. k # 0
    BY <2>3
  <2>5. k - 1 \in 0..n /\ k - 1 \notin Bad /\ k \in 1..n
    <3>1. k \in 0..n
      OBVIOUS
    <3>2. k - 1 \in 0..n /\ k \in 1..n /\ ~ (k <= k - 1)
      BY <2>4, <3>1
    <3> HIDE DEF Bad
    <3> QED
      BY <2>2, <3>2
  <2>6. PICK b \in Nat : \A i \in 1 .. k - 1 : f[i] <= b
    BY <2>5
  <2>7. f[k] \in Nat /\ \A i \in 1..k : i = k \/ i \in 1 .. k - 1
    BY <2>5
  <2>8. \A i \in 1..k : f[i] \in Nat /\ f[i] <= b + f[k]
    <3> SUFFICES ASSUME NEW i \in 1..k PROVE f[i] \in Nat /\ f[i] <= b + f[k]
      OBVIOUS
    <3>1. i \in 1..n
      BY <2>5
    <3>2. f[i] \in Nat
      BY <3>1
    <3>3. i = k \/ f[i] <= b
      BY <2>6, <2>7
    <3> QED
      BY <2>7, <3>2, <3>3
  <2>9. b + f[k] \in Bounds(k)
    BY <2>6, <2>7, <2>8
  <2> QED
    BY <2>9
<1>2. n \in 0..n
  OBVIOUS
<1>3. Bounds(n) # {} /\ Bounds(n) \in SUBSET Nat
  BY <1>1, <1>2
<1>4. PICK b \in Bounds(n) : \A c \in Bounds(n) : b <= c
  BY <1>3, LeastNumber
<1>5. b \in S
  <2> SUFFICES ASSUME b \notin S PROVE FALSE
    OBVIOUS
  <2>1. \A i \in 1..n : f[i] \in Nat /\ f[i] < b
    BY <1>4
  <2>2. 1 \in 1..n
    OBVIOUS
  <2>3. b - 1 \in Nat
    BY <1>4, <2>1, <2>2
  <2>4. b - 1 \in Bounds(n)
    BY <1>4, <2>1, <2>3
  <2> QED
    BY <1>4, <2>4
<1>6. \A m \in S : m \in Nat /\ b >= m
  BY <1>4
<1>7. Max(S) \in S /\ \A m \in S : Max(S) >= m
  BY <1>5, <1>6 DEF Max
<1> QED
  BY <1>6, <1>7

PerMinute == {limits[i].user["minute"] : i \in 1..Len(limits)}
MinuteLimited == \A m \in PerMinute : m > 0
MinuteBound == Most(Max(PerMinute))

LEMMA MinuteBounds ==
  ASSUME TypeInv, MinuteLimited
  PROVE  /\ Max(PerMinute) \in Nat /\ MinuteBound \in Nat
         /\ \A i \in 1..Len(limits) : limits[i].user["minute"] <= Max(PerMinute)
<1> DEFINE n == Len(limits)
           f == [i \in 1..n |-> limits[i].user["minute"]]
<1>1. n \in Nat \ {0}
  BY DEF TypeInv
<1>2. ASSUME NEW i \in 1..n PROVE limits[i].user["minute"] \in Nat
  <2>1. limits[i] \in Limit
    BY DEF TypeInv
  <2>2. limits[i].user["minute"] \in Int
    BY <2>1 DEF Limit, Windows
  <2> QED
    <3>1. limits[i].user["minute"] \in PerMinute
      BY DEF PerMinute
    <3> QED
      BY <2>2, <3>1 DEF MinuteLimited
<1>3. f \in [1..n -> Nat]
  BY <1>2
<1>4. PerMinute = {f[i] : i \in 1..n}
  BY DEF PerMinute
<1> HIDE DEF f, n
<1>5. Max(PerMinute) \in PerMinute /\ \A m \in PerMinute : m <= Max(PerMinute)
  BY <1>1, <1>3, <1>4, GreatestNumber
<1>6. Max(PerMinute) \in Nat
  BY <1>2, <1>5 DEF PerMinute, n
<1>7. MinuteBound \in Nat
  BY <1>6, QuotaAssumption DEF MinuteBound, Most
<1> QED
  BY <1>5, <1>6, <1>7 DEF PerMinute

\* The minutes of the hour so far are full at most.
HourInv ==
    MinuteLimited => \A u \in Users :
        /\ usage["minute"][u] <= MinuteBound
        /\ usage["hour"][u] <= hour_track * MinuteBound + usage["minute"][u]

LEMMA HourInvNext == TypeInv /\ HourInv /\ [Next]_vars => HourInv'
<1> SUFFICES ASSUME TypeInv, HourInv, [Next]_vars PROVE HourInv'
  OBVIOUS
<1>0. limits' = limits
  <2>1. ASSUME NEW u \in Users,
               (\E count \in 0..MaxCount : Request(u, count)) \/ (\E k \in Keys : RequestOf(u, k))
        PROVE  limits' = limits
    BY <2>1, RequestStep
  <2>2. ASSUME NEW elapsed \in 0 .. 1 + MaxLag, MinuteHandler(elapsed)
        PROVE  limits' = limits
    BY <2>2, MinuteStep
  <2> QED
    BY <2>1, <2>2 DEF Next, vars
<1> SUFFICES ASSUME MinuteLimited, NEW v \in Users
             PROVE  /\ usage'["minute"][v] <= MinuteBound
                    /\ usage'["hour"][v] <= hour_track' * MinuteBound + usage'["minute"][v]
  BY <1>0 DEF HourInv, MinuteLimited, MinuteBound, PerMinute
<1> DEFINE B == MinuteBound
<1>1. /\ usage \in [Windows -> [Users -> Nat]] /\ hour_track \in Nat
      /\ B \in Nat /\ MaxCount \in Nat /\ {"minute", "hour"} \subseteq Windows
  <2>1. B \in Nat
    BY MinuteBounds
  <2>2. hour_track \in Nat /\ MaxCount \in Nat
    BY QuotaAssumption DEF TypeInv, TypeOK
  <2> QED
    BY <2>1, <2>2 DEF TypeInv, TypeOK, Windows
<1>2. /\ usage["minute"][v] \in Nat /\ usage["hour"][v] \in Nat
      /\ usage["minute"][v] <= B /\ usage["hour"][v] <= hour_track * B + usage["minute"][v]
  BY <1>1 DEF HourInv
<1>3. hour_track * B \in Nat /\ (hour_track + 1) * B = hour_track * B + B
  <2> HIDE DEF B
  <2> QED
    BY <1>1
<1>4. ASSUME NEW u \in Users, NEW n \in 1..MaxCount, ~ crashed,
             ~ Reached(limits[current].user, Used(usage, u)), usage' = Charge(usage, u, n),
             hour_track' = hour_track
      PROVE  /\ usage'["minute"][v] <= B
             /\ usage'["hour"][v] <= hour_track' * B + usage'["minute"][v]
  <2>1. \A w \in Windows :
            usage'[w][v] = IF v = u THEN usage[w][v] + n ELSE usage[w][v]
    BY <1>1, <1>4 DEF Charge
  <2>2. CASE v = u
    <3>1. limits[current].user["minute"] > 0 /\ limits[current].user \in [Windows -> Int]
      BY <1>4, LimitTypes DEF MinuteLimited, PerMinute
    <3>2. usage["minute"][v] < limits[current].user["minute"]
      BY <1>1, <1>4, <2>2, <3>1, BelowLimits
    <3>3. limits[current].user["minute"] <= Max(PerMinute) /\ Max(PerMinute) \in Nat
      BY <1>4, LimitTypes, MinuteBounds
    <3>4. limits[current].user["minute"] \in Int
      BY <1>1, <3>1
    <3>5. B = Max(PerMinute) + MaxCount - 1
      BY DEF MinuteBound, Most
    <3>6. usage["minute"][v] + n <= B
      <4> HIDE DEF B
      <4> QED
        BY <1>1, <1>2, <3>2, <3>3, <3>4, <3>5
    <3>7. usage'["minute"][v] = usage["minute"][v] + n /\ usage'["hour"][v] = usage["hour"][v] + n
      BY <1>1, <2>1, <2>2
    <3> HIDE DEF B
    <3> QED
      BY <1>1, <1>2, <1>3, <1>4, <3>6, <3>7
  <2>3. CASE v # u
    BY <1>1, <1>2, <1>4, <2>1, <2>3
  <2> QED
    BY <2>2, <2>3
<1>5. ASSUME NEW elapsed \in 0 .. 1 + MaxLag, MinuteHandler(elapsed)
      PROVE  /\ usage'["minute"][v] <= B
             /\ usage'["hour"][v] <= hour_track' * B + usage'["minute"][v]
  <2>1. /\ usage' = Reset(usage, Users, current' # current)
        /\ hour_track' = IF HourEnds THEN 0 ELSE hour_track + 1
    BY <1>5, MinuteStep
  <2>2. usage'["minute"][v] = 0
    BY <2>1 DEF Reset, Windows
  <2>3. CASE HourEnds
    <3>1. usage'["hour"][v] = 0
      BY <2>1, <2>3 DEF Reset, Windows
    <3> HIDE DEF B
    <3> QED
      BY <1>1, <2>1, <2>2, <2>3, <3>1
  <2>4. CASE ~ HourEnds
    <3>1. usage'["hour"][v] = usage["hour"][v]
      BY <2>1, <2>4 DEF Reset, Windows
    <3>2. hour_track' = hour_track + 1
      BY <2>1, <2>4
    <3> HIDE DEF B
    <3> QED
      BY <1>1, <1>2, <1>3, <2>2, <3>1, <3>2
  <2> QED
    BY <2>3, <2>4
<1>6. CASE usage' = usage /\ hour_track' = hour_track
  BY <1>2, <1>6
<1>7. ASSUME NEW u \in Users,
             (\E count \in 0..MaxCount : Request(u, count)) \/ (\E k \in Keys : RequestOf(u, k))
      PROVE  /\ usage'["minute"][v] <= B
             /\ usage'["hour"][v] <= hour_track' * B + usage'["minute"][v]
  <2>1. ~ crashed /\ hour_track' = hour_track
    BY <1>7, RequestStep
  <2>2. \/ usage' = usage
        \/ \E n \in 1..MaxCount :
               /\ ~ Reached(limits[current].user, Used(usage, u))
               /\ usage' = Charge(usage, u, n)
    BY <1>7, RequestStep
  <2> QED
    BY <1>4, <1>6, <2>1, <2>2
<1> QED
  BY <1>5, <1>6, <1>7 DEF Next, vars

LEMMA ProductsInOrder ==
  ASSUME NEW a \in Nat, NEW b \in Nat, NEW c \in Nat, a <= c
  PROVE  a * b <= c * b
<1>1. PICK d \in Nat : c = a + d
  <2>1. c - a \in Nat /\ c = a + (c - a)
    OBVIOUS
  <2> QED
    BY <2>1
<1>2. (a + d) * b = a * b + d * b /\ d * b \in Nat /\ a * b \in Nat
  OBVIOUS
<1> QED
  BY <1>1, <1>2

(* An hour is counted over as many minutes as an hour has, each with a     *)
(* limit of its own: it holds no more than all of them                     *)
(* (mod-mquota.c:218-246, 643-646).                                        *)
THEOREM HoursHoldTheirMinutes == Spec => []HourOfMinutes
<1>1. Init => HourInv
  <2> SUFFICES ASSUME Init, MinuteLimited, NEW u \in Users
               PROVE  /\ usage["minute"][u] <= MinuteBound
                      /\ usage["hour"][u] <= hour_track * MinuteBound + usage["minute"][u]
    BY DEF HourInv
  <2>1. usage["minute"][u] = 0 /\ usage["hour"][u] = 0 /\ hour_track = 0
    BY DEF Init, None, Windows
  <2>2. MinuteBound \in Nat
    BY TypeInvInit, MinuteBounds
  <2> QED
    BY <2>1, <2>2
<1>2. TypeInv /\ HourInv => HourOfMinutes
  <2> SUFFICES ASSUME TypeInv, HourInv, MinuteLimited, NEW u \in Users
               PROVE  usage["hour"][u] <= MinutesPerHour * MinuteBound
    BY DEF HourOfMinutes, MinuteLimited, MinuteBound, PerMinute
  <2>1. /\ MinuteBound \in Nat /\ hour_track \in Nat /\ MinutesPerHour \in Nat
        /\ hour_track + 1 <= MinutesPerHour
    BY MinuteBounds, QuotaAssumption DEF TypeInv, TypeOK
  <2>2. usage["minute"][u] \in Nat /\ usage["hour"][u] \in Nat
    BY DEF TypeInv, TypeOK, Windows
  <2>3. /\ usage["minute"][u] <= MinuteBound
        /\ usage["hour"][u] <= hour_track * MinuteBound + usage["minute"][u]
    BY DEF HourInv
  <2>4. (hour_track + 1) * MinuteBound <= MinutesPerHour * MinuteBound
    BY <2>1, ProductsInOrder
  <2>5. /\ (hour_track + 1) * MinuteBound = hour_track * MinuteBound + MinuteBound
        /\ hour_track * MinuteBound \in Nat /\ MinutesPerHour * MinuteBound \in Nat
    BY <2>1
  <2> QED
    BY <2>1, <2>2, <2>3, <2>4, <2>5
<1> QED
  BY <1>1, <1>2, TypeInvAlways, HourInvNext, PTL DEF Spec


-----------------------------------------------------------------------------
(* The accounts of a domain.                                                *)

\* A set of sets that is not empty has a member from which no element can be taken out
\* without leaving it.
LEMMA SmallestSet ==
  ASSUME NEW S, IsFiniteSet(S), NEW C \in SUBSET SUBSET S, C # {}
  PROVE  \E s \in C : \A x \in s : s \ {x} \notin C
<1>1. \A s \in SUBSET S : IsFiniteSet(s) /\ Cardinality(s) \in Nat
  BY FS_Subset, FS_CardinalityType
<1> DEFINE N == {Cardinality(s) : s \in C}
<1>2. N \in SUBSET Nat /\ N # {}
  BY <1>1
<1>3. PICK n \in N : \A m \in N : n <= m
  BY <1>2, LeastNumber
<1>4. PICK s \in C : Cardinality(s) = n
  BY <1>3
<1>5. ASSUME NEW x \in s, s \ {x} \in C
      PROVE  FALSE
  <2>1. Cardinality(s \ {x}) = Cardinality(s) - 1 /\ Cardinality(s) \in Nat
    BY <1>1, FS_RemoveElement
  <2>2. n <= Cardinality(s \ {x})
    BY <1>3, <1>5
  <2> QED
    BY <1>4, <2>1, <2>2
<1> QED
  BY <1>4, <1>5

\* The function that MapThenSumSet recurs through: g takes every subset of S to its sum of f.
Element(s) == CHOOSE x \in s : TRUE
IsSum(g, f, S) ==
    g = [s \in SUBSET S |->
            IF s = {} THEN 0 ELSE LET x == Element(s) IN f[x] + g[s \ {x}]]
SumOver(f, S) == CHOOSE g : IsSum(g, f, S)
SumOf(f, S) == SumOver(f, S)[S]

\* There is such a function: one that is right about the sets of up to n elements is made one
\* that is right about those of n + 1.
LEMMA SumExists ==
  ASSUME NEW D, NEW f \in [D -> Nat], NEW S \in SUBSET D, IsFiniteSet(S)
  PROVE  IsSum(SumOver(f, S), f, S)
<1> DEFINE Right(g, s) == g[s] = IF s = {} THEN 0 ELSE f[Element(s)] + g[s \ {Element(s)}]
           UpTo(n) == {g \in [SUBSET S -> Nat] : \A s \in SUBSET S : Cardinality(s) <= n => Right(g, s)}
           Bad == {n \in Nat : UpTo(n) = {}}
<1>1. \A s \in SUBSET S : IsFiniteSet(s) /\ Cardinality(s) \in Nat
  BY FS_Subset, FS_CardinalityType
<1>2. ASSUME NEW s \in SUBSET S, s # {}
      PROVE  /\ Element(s) \in s /\ f[Element(s)] \in Nat /\ s \ {Element(s)} \in SUBSET S
             /\ Cardinality(s \ {Element(s)}) = Cardinality(s) - 1
  <2>1. Element(s) \in s
    BY <1>2 DEF Element
  <2> QED
    BY <1>1, <2>1, FS_RemoveElement
<1>3. UpTo(0) # {}
  <2>1. \A s \in SUBSET S : Cardinality(s) <= 0 => s = {}
    BY <1>1, FS_EmptySet
  <2>2. [s \in SUBSET S |-> 0] \in UpTo(0)
    BY <2>1
  <2> QED
    BY <2>2
<1>4. ASSUME NEW n \in Nat, UpTo(n) # {}
      PROVE  UpTo(n + 1) # {}
  <2>1. PICK g \in [SUBSET S -> Nat] : \A s \in SUBSET S : Cardinality(s) <= n => Right(g, s)
    BY <1>4
  <2> DEFINE h == [s \in SUBSET S |->
                      IF s = {} THEN 0 ELSE IF Cardinality(s) <= n THEN g[s]
                      ELSE f[Element(s)] + g[s \ {Element(s)}]]
  <2>2. h \in [SUBSET S -> Nat]
    BY <1>2
  <2>3. ASSUME NEW s \in SUBSET S, Cardinality(s) <= n PROVE h[s] = g[s]
    BY <2>1, <2>3
  <2>4. ASSUME NEW s \in SUBSET S, Cardinality(s) <= n + 1, s # {}
        PROVE  h[s] = f[Element(s)] + h[s \ {Element(s)}]
    <3>1. h[s] = f[Element(s)] + g[s \ {Element(s)}]
      BY <2>1, <2>4
    <3>2. Cardinality(s \ {Element(s)}) <= n /\ s \ {Element(s)} \in SUBSET S
      BY <1>1, <1>2, <2>4
    <3>3. h[s \ {Element(s)}] = g[s \ {Element(s)}]
      BY <2>3, <3>2
    <3> QED
      BY <3>1, <3>3
  <2>5. \A s \in SUBSET S : Cardinality(s) <= n + 1 => Right(h, s)
    BY <2>4
  <2> HIDE DEF h
  <2>6. h \in UpTo(n + 1)
    BY <2>2, <2>5
  <2> QED
    BY <2>6
<1> HIDE DEF UpTo
<1>5. Bad = {}
  <2> SUFFICES ASSUME Bad # {} PROVE FALSE
    OBVIOUS
  <2>1. PICK n \in Bad : \A m \in Bad : n <= m
    BY LeastNumber
  <2>2. n \in Nat /\ n # 0
    BY <1>3
  <2>3. n - 1 \in Nat /\ UpTo(n - 1) # {}
    BY <2>1, <2>2
  <2>4. UpTo((n - 1) + 1) # {}
    BY <1>4, <2>3
  <2>5. (n - 1) + 1 = n
    BY <2>2
  <2> QED
    BY <2>4, <2>5
<1>6. PICK g : g \in UpTo(Cardinality(S))
  BY <1>1, <1>5
<1>7. \A s \in SUBSET S : Cardinality(s) <= Cardinality(S)
  BY FS_Subset
<1>8. g \in [SUBSET S -> Nat] /\ \A s \in SUBSET S : Right(g, s)
  BY <1>6, <1>7 DEF UpTo
<1>9. IsSum(g, f, S)
  BY <1>8 DEF IsSum
<1> QED
  BY <1>9 DEF SumOver

\* How such a function goes from set to set.
LEMMA SumStep ==
  ASSUME NEW S, NEW f, NEW g, IsSum(g, f, S)
  PROVE  /\ g[{}] = 0
         /\ \A s \in SUBSET S : s # {} => /\ Element(s) \in s /\ s \ {Element(s)} \in SUBSET S
                                          /\ g[s] = f[Element(s)] + g[s \ {Element(s)}]
<1>1. \A s \in SUBSET S : g[s] = IF s = {} THEN 0 ELSE f[Element(s)] + g[s \ {Element(s)}]
  BY DEF IsSum
<1>2. ASSUME NEW s, s # {} PROVE Element(s) \in s
  BY <1>2 DEF Element
<1> QED
  BY <1>1, <1>2

LEMMA SumType ==
  ASSUME NEW D, NEW f \in [D -> Nat], NEW S \in SUBSET D, IsFiniteSet(S), NEW g, IsSum(g, f, S)
  PROVE  \A s \in SUBSET S : g[s] \in Nat
<1> DEFINE C == {s \in SUBSET S : g[s] \notin Nat}
<1> SUFFICES ASSUME C # {} PROVE FALSE
  OBVIOUS
<1>1. PICK s \in C : \A x \in s : s \ {x} \notin C
  BY SmallestSet
<1>2. g[{}] = 0 /\ s \in SUBSET S /\ g[s] \notin Nat
  BY SumStep
<1>3. s # {}
  BY <1>2
<1>4. Element(s) \in s /\ s \ {Element(s)} \in SUBSET S /\ g[s] = f[Element(s)] + g[s \ {Element(s)}]
  BY <1>2, <1>3, SumStep
<1>5. g[s \ {Element(s)}] \in Nat /\ f[Element(s)] \in Nat
  BY <1>1, <1>4
<1> QED
  BY <1>2, <1>4, <1>5

\* The sum grows with one of its terms.
Grown(h, f, u, n) == \A v \in DOMAIN f : h[v] = IF v = u THEN f[v] + n ELSE f[v]

LEMMA SumCharged ==
  ASSUME NEW D, NEW f \in [D -> Nat], NEW h \in [D -> Nat], NEW u \in D, NEW n \in Nat,
         Grown(h, f, u, n),
         NEW S \in SUBSET D, IsFiniteSet(S)
  PROVE  SumOf(f, S) \in Nat /\ SumOf(h, S) = IF u \in S THEN SumOf(f, S) + n ELSE SumOf(f, S)
<1> DEFINE a == SumOver(f, S)
           b == SumOver(h, S)
           C == {s \in SUBSET S : ~ (b[s] = IF u \in s THEN a[s] + n ELSE a[s])}
<1>1. IsSum(a, f, S) /\ IsSum(b, h, S)
  BY SumExists
<1> HIDE DEF a, b
<1>2. \A s \in SUBSET S : a[s] \in Nat
  BY <1>1, SumType
<1>3. C = {}
  <2> SUFFICES ASSUME C # {} PROVE FALSE
    OBVIOUS
  <2>1. PICK s \in C : \A x \in s : s \ {x} \notin C
    BY SmallestSet
  <2>2. a[{}] = 0 /\ b[{}] = 0
    BY <1>1, SumStep
  <2>3. s # {} /\ s \in SUBSET S
    BY <2>2
  <2> DEFINE x == Element(s)
             r == s \ {x}
  <2>4. x \in s /\ r \in SUBSET S /\ a[s] = f[x] + a[r] /\ b[s] = h[x] + b[r]
    <3>1. x \in s /\ r \in SUBSET S /\ a[s] = f[x] + a[r]
      BY <1>1, <2>3, SumStep
    <3>2. b[s] = h[x] + b[r]
      BY <1>1, <2>3, SumStep
    <3> QED
      BY <3>1, <3>2
  <2>5. b[r] = IF u \in r THEN a[r] + n ELSE a[r]
    BY <2>1, <2>4
  <2>6. a[r] \in Nat /\ f[x] \in Nat /\ h[x] = IF x = u THEN f[x] + n ELSE f[x]
    BY <1>2, <2>4 DEF Grown
  <2>7. u \in s <=> x = u \/ u \in r
    BY <2>4
  <2>8. ~ (x = u /\ u \in r)
    OBVIOUS
  <2> HIDE DEF x, r
  <2>9. b[s] = IF u \in s THEN a[s] + n ELSE a[s]
    BY <2>4, <2>5, <2>6, <2>7, <2>8
  <2> QED
    BY <2>9
<1> QED
  BY <1>2, <1>3 DEF SumOf, a, b

LEMMA SumOfNone ==
  ASSUME NEW D, NEW f \in [D -> {0}], NEW S \in SUBSET D, IsFiniteSet(S)
  PROVE  SumOf(f, S) = 0
<1> DEFINE a == SumOver(f, S)
           C == {s \in SUBSET S : a[s] # 0}
<1>1. IsSum(a, f, S)
  <2>1. f \in [D -> Nat]
    OBVIOUS
  <2> QED
    BY <2>1, SumExists
<1> HIDE DEF a
<1>2. C = {}
  <2> SUFFICES ASSUME C # {} PROVE FALSE
    OBVIOUS
  <2>1. PICK s \in C : \A x \in s : s \ {x} \notin C
    BY SmallestSet
  <2>2. a[{}] = 0
    BY <1>1, SumStep
  <2>3. s # {} /\ s \in SUBSET S
    BY <2>2
  <2>4. /\ Element(s) \in s /\ s \ {Element(s)} \in SUBSET S
        /\ a[s] = f[Element(s)] + a[s \ {Element(s)}]
    BY <1>1, <2>3, SumStep
  <2>5. a[s \ {Element(s)}] = 0 /\ f[Element(s)] = 0
    BY <2>1, <2>4
  <2> QED
    BY <2>4, <2>5
<1> QED
  BY <1>2 DEF SumOf, a

AccountsOf(d) == {u \in Users : DomainOf[u] = d}

LEMMA SumOfAccounts ==
  /\ DomainWithinAccounts <=>
       \A w \in Windows, d \in Domains : domain_usage[w][d] <= SumOf(usage[w], AccountsOf(d))
  /\ DomainWithinAccounts' <=>
       \A w \in Windows, d \in Domains : domain_usage'[w][d] <= SumOf(usage'[w], AccountsOf(d))
  BY DEF DomainWithinAccounts, MapThenSumSet, MapThenFoldSet, SumOf, SumOver, IsSum, Element, AccountsOf

\* A domain is charged for no more than one of its accounts is charged for.
LEMMA ChargedTogether ==
  ASSUME TypeInv, NEW u \in Users,
         (\E count \in 0..MaxCount : Request(u, count)) \/ (\E k \in Keys : RequestOf(u, k))
  PROVE  \/ UNCHANGED <<usage, domain_usage>>
         \/ \E n \in 1..MaxCount :
                /\ usage' = Charge(usage, u, n)
                /\ \/ domain_usage' = domain_usage
                   \/ DomainOf[u] \in Domains /\ domain_usage' = Charge(domain_usage, DomainOf[u], 1)
<1> DEFINE Together == \/ UNCHANGED <<usage, domain_usage>>
                       \/ \E n \in 1..MaxCount :
                              /\ usage' = Charge(usage, u, n)
                              /\ \/ domain_usage' = domain_usage
                                 \/ /\ DomainOf[u] \in Domains
                                    /\ domain_usage' = Charge(domain_usage, DomainOf[u], 1)
<1>1. ASSUME NEW count \in 0..MaxCount, NEW K, Decide(u, count, K)
      PROVE  Together
  <2> DEFINE n == IF count = 0 THEN 1 ELSE count
  <2>1. n \in 1..MaxCount
    BY QuotaAssumption
  <2>2. DomainOf[u] \in Domains \cup {NULL}
    BY UserTypes
  <2> QED
    BY <1>1, <2>1, <2>2 DEF Decide
<1>2. 0 \in 0..MaxCount
  BY QuotaAssumption
<1> QED
  BY <1>1, <1>2 DEF Request, RequestOf, SkipTracked

(* A domain is never charged for more than its accounts together, in any   *)
(* window: its windows are reset when theirs are                           *)
(* (mod-mquota.c:218-302, 640-690).                                        *)
THEOREM DomainsStayWithinAccounts == Spec => []DomainWithinAccounts
<1> DEFINE Within1(w, d) == domain_usage[w][d] <= SumOf(usage[w], AccountsOf(d))
<1>1. \A d : AccountsOf(d) \in SUBSET Users /\ IsFiniteSet(AccountsOf(d))
  BY QuotaAssumption, FS_Subset DEF AccountsOf
<1>2. Init => DomainWithinAccounts
  <2> SUFFICES ASSUME Init, NEW w \in Windows, NEW d \in Domains PROVE Within1(w, d)
    BY SumOfAccounts
  <2>1. usage[w] \in [Users -> {0}] /\ domain_usage[w][d] = 0
    BY DEF Init, None
  <2>2. SumOf(usage[w], AccountsOf(d)) = 0
    BY <1>1, <2>1, SumOfNone
  <2> QED
    BY <2>1, <2>2
<1>3. TypeInv /\ DomainWithinAccounts /\ [Next]_vars => DomainWithinAccounts'
  <2> SUFFICES ASSUME TypeInv, DomainWithinAccounts, [Next]_vars, NEW w \in Windows, NEW d \in Domains
               PROVE  Within1(w, d)'
    BY SumOfAccounts DEF AccountsOf
  <2>1. /\ usage \in [Windows -> [Users -> Nat]] /\ domain_usage \in [Windows -> [Domains -> Nat]]
        /\ usage[w] \in [Users -> Nat] /\ domain_usage[w][d] \in Nat
    BY DEF TypeInv, TypeOK
  <2>2. Within1(w, d)
    BY SumOfAccounts
  <2> DEFINE a == SumOf(usage[w], AccountsOf(d))
  <2>3. ASSUME NEW u \in Users, NEW n \in 1..MaxCount, usage' = Charge(usage, u, n),
               \/ domain_usage' = domain_usage
               \/ DomainOf[u] \in Domains /\ domain_usage' = Charge(domain_usage, DomainOf[u], 1)
        PROVE  Within1(w, d)'
    <3>1. n \in Nat /\ n >= 1
      BY QuotaAssumption
    <3>2. usage'[w] \in [Users -> Nat] /\ Grown(usage'[w], usage[w], u, n)
      BY <2>1, <2>3, <3>1 DEF Charge, Grown
    <3>3. a \in Nat /\ SumOf(usage'[w], AccountsOf(d)) = IF u \in AccountsOf(d) THEN a + n ELSE a
      <4> DEFINE f == usage[w]
                 h == usage'[w]
                 A == AccountsOf(d)
      <4>1. /\ f \in [Users -> Nat] /\ h \in [Users -> Nat] /\ Grown(h, f, u, n)
            /\ u \in Users /\ n \in Nat /\ A \in SUBSET Users /\ IsFiniteSet(A)
        BY <1>1, <2>1, <3>1, <3>2
      <4> HIDE DEF f, h, A
      <4>2. SumOf(f, A) \in Nat /\ SumOf(h, A) = IF u \in A THEN SumOf(f, A) + n ELSE SumOf(f, A)
        BY ONLY <4>1, SumCharged
      <4> QED
        BY <4>2 DEF f, h, A
    <3>4. domain_usage'[w][d] = domain_usage[w][d]
            \/ (u \in AccountsOf(d) /\ domain_usage'[w][d] = domain_usage[w][d] + 1)
      BY <2>1, <2>3 DEF Charge, AccountsOf
    <3>5. AccountsOf(d)' = AccountsOf(d)
      BY DEF AccountsOf
    <3> HIDE DEF a
    <3>6. domain_usage'[w][d] <= SumOf(usage'[w], AccountsOf(d))
      <4>1. domain_usage[w][d] <= a
        BY <2>2 DEF a
      <4> QED
        BY <2>1, <3>1, <3>3, <3>4, <4>1
    <3> QED
      BY <3>6
  <2>4. ASSUME NEW elapsed \in 0 .. 1 + MaxLag, MinuteHandler(elapsed)
        PROVE  Within1(w, d)'
    <3>1. /\ usage' = Reset(usage, Users, current' # current)
          /\ domain_usage' = Reset(domain_usage, Domains, current' # current)
      BY <2>4, MinuteStep
    <3>2. \/ usage'[w] = usage[w] /\ domain_usage'[w] = domain_usage[w]
          \/ usage'[w] = [v \in Users |-> 0] /\ domain_usage'[w] = [e \in Domains |-> 0]
      BY <3>1 DEF Reset
    <3>3. CASE usage'[w] = usage[w] /\ domain_usage'[w] = domain_usage[w]
      BY <2>2, <3>3
    <3>4. CASE usage'[w] = [v \in Users |-> 0] /\ domain_usage'[w] = [e \in Domains |-> 0]
      <4>1. usage'[w] \in [Users -> {0}] /\ domain_usage'[w][d] = 0
        BY <3>4
      <4>2. SumOf(usage'[w], AccountsOf(d)) = 0
        BY <1>1, <4>1, SumOfNone
      <4> QED
        BY <4>1, <4>2
    <3> QED
      BY <3>2, <3>3, <3>4
  <2>5. CASE UNCHANGED <<usage, domain_usage>>
    BY <2>2, <2>5
  <2>6. ASSUME NEW u \in Users,
               (\E count \in 0..MaxCount : Request(u, count)) \/ (\E k \in Keys : RequestOf(u, k))
        PROVE  Within1(w, d)'
    BY <2>3, <2>5, <2>6, ChargedTogether
  <2> QED
    BY <2>4, <2>5, <2>6 DEF Next, vars
<1> QED
  BY <1>2, <1>3, TypeInvAlways, PTL DEF Spec

=============================================================================
