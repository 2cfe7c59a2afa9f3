--------------------------- MODULE ProviderClient ---------------------------
(***************************************************************************)
(* The request path of a routing provider (safety/routing): visitors'      *)
(* requests share one upstream call per key (ttlcache.py), which passes    *)
(* the per-client interval (service.py), the daily budget (budget.py) and  *)
(* the circuit breaker (breaker.py) before it is sent (providers.py).      *)
(*                                                                         *)
(* It all runs on one event loop: an action is what runs between two       *)
(* awaits.  Requests and tasks interleave at every await.                  *)
(***************************************************************************)
EXTENDS CircuitBreaker, Lru

CONSTANTS
  Requests,      \* browser tabs, each with at most one request out
  Clients, ClientOf,
  Keys,          \* what is asked: end points and departure bucket
  Tasks,         \* names for the producer tasks alive at once
  DailyLimit,    \* settings.transit_daily_budget
  DayLength,
  Interval,      \* TRANSIT_CLIENT_INTERVAL_S
  ThrottleSize,  \* clients the throttle remembers
  Ttl, CacheSize,
  CallLife,      \* how long a call can be out: routing_timeout_seconds
  Horizon, MaxRestarts,    \* bounds of the model
  NoTask, NoKey

ASSUME ClientAssumption ==
  /\ ClientOf \in [Requests -> Clients]
  /\ {DayLength, Interval, ThrottleSize, Ttl, CacheSize, CallLife} \subseteq Nat \ {0}
  /\ {DailyLimit, Horizon, MaxRestarts} \subseteq Nat
  \* A call outlives neither the breaker's cooldown nor the client's interval.
  /\ CallLife < Cooldown /\ CallLife < Interval
  /\ NoTask \notin Tasks /\ NoKey \notin Keys \cup Clients

VARIABLES
  now,
  breaker,
  budget,     \* [day, used]
  throttle,   \* Lru of [key |-> client, at]
  cache,      \* Lru of [key, expires]
  inflight,   \* key -> its producer task, or none
  task,       \* the producer tasks
  request,    \* request -> what it waits for
  plans,      \* client -> when its last call went out that has not failed
  lastSent,   \* when the last call went out
  sentToday,  \* calls sent since midnight by this process
  restarts

shared     == <<breaker, budget, throttle, cache>>
loop       == <<inflight, task, request>>
ghosts     == <<plans, lastSent, sentToday>>
clientVars == <<now, shared, loop, ghosts, restarts>>

FreeTask     == [st |-> "free", key |-> NoKey, client |-> NoKey, at |-> Never,
                 trial |-> FALSE, result |-> "none"]
BudgetDay(t) == t \div DayLength

Results == {"ok", "refused", "failed", "too_soon", "exhausted", "unavailable"}

\* The memory of a process that has just started.
NoFlights == [k \in Keys |-> NoTask]
NoTasks   == [t \in Tasks |-> FreeTask]
NoWaits   == [r \in Requests |-> NoTask]
NoPlans   == [c \in Clients |-> Never]

ClientInit ==
  /\ now = 0 /\ restarts = 0
  /\ breaker = Closed /\ budget = [day |-> BudgetDay(0), used |-> 0]
  /\ throttle = <<>> /\ cache = <<>>
  /\ inflight = NoFlights /\ task = NoTasks /\ request = NoWaits
  /\ plans = NoPlans /\ lastSent = Never /\ sentToday = 0
-----------------------------------------------------------------------------
(* DailyBudget.                                                            *)

Rolled(b)  == IF b.day = BudgetDay(now) THEN b ELSE [day |-> BudgetDay(now), used |-> 0]
\* Bug: a spent allowance is noticed one call late.
SpentLate(b) == Rolled(b).used > DailyLimit
Spent(b)   == Rolled(b).used >= DailyLimit
Taken(b)   == [Rolled(b) EXCEPT !.used = @ + 1]
Refunded(b) == [Rolled(b) EXCEPT !.used = IF @ = 0 THEN 0 ELSE @ - 1]

-----------------------------------------------------------------------------
(* A request: TTLCache.get_or_create.                                      *)

Live(k) == \E e \in EntryOf(cache, k) : now < e.expires

Hit(r, k) ==
  /\ request[r] = NoTask /\ Live(k)
  /\ cache' = Put(cache, The(cache, k), CacheSize)
  /\ UNCHANGED <<now, breaker, budget, throttle, inflight, task, request, ghosts,
                 restarts>>

\* A miss joins the key's producer, done or not, ...
Join(r, k) ==
  /\ request[r] = NoTask /\ ~Live(k)
  /\ inflight[k] # NoTask
  /\ cache' = Dropped(cache, k)
  /\ request' = [request EXCEPT ![r] = inflight[k]]
  /\ UNCHANGED <<now, breaker, budget, throttle, inflight, task, ghosts,
                 restarts>>

\* Bug: the producer is not registered for others to join.
LeadAlone(r, k) ==
  /\ request[r] = NoTask /\ ~Live(k)
  /\ inflight[k] = NoTask
  /\ cache' = Dropped(cache, k)
  /\ \E t \in Tasks :
       /\ task[t].st = "free"
       /\ task' = [task EXCEPT ![t] = [FreeTask EXCEPT !.st = "new", !.key = k,
                                                   !.client = ClientOf[r]]]
       /\ request' = [request EXCEPT ![r] = t]
  /\ UNCHANGED <<now, breaker, budget, throttle, inflight, ghosts, restarts>>

\* ... or starts one, which runs at the loop's next turn.
Lead(r, k) ==
  /\ request[r] = NoTask /\ ~Live(k)
  /\ inflight[k] = NoTask
  /\ cache' = Dropped(cache, k)
  /\ \E t \in Tasks :
       /\ task[t].st = "free"
       /\ task' = [task EXCEPT ![t] = [FreeTask EXCEPT !.st = "new", !.key = k,
                                                   !.client = ClientOf[r]]]
       /\ inflight' = [inflight EXCEPT ![k] = t]
       /\ request' = [request EXCEPT ![r] = t]
  /\ UNCHANGED <<now, breaker, budget, throttle, ghosts, restarts>>

\* The visitor goes away: only the wait is cancelled (asyncio.shield).
Leave(r) ==
  /\ request[r] # NoTask
  /\ request' = [request EXCEPT ![r] = NoTask]
  /\ UNCHANGED <<now, shared, inflight, task, ghosts, restarts>>

-----------------------------------------------------------------------------
(* The producer: TransitousClient.plan's fetch, around _Client._call.      *)

Ends(t, result) == task' = [task EXCEPT ![t] = [@ EXCEPT !.st = "done", !.result = result]]

Quiet == UNCHANGED <<now, cache, inflight, request, ghosts, restarts>>

Asked(c)  == \E e \in EntryOf(throttle, c) : now - e.at < Interval
Checked(c) == Put(throttle, [key |-> c, at |-> now], ThrottleSize)

\* Bug: before_call runs inside the try, so its refusal is forgotten too.
TooSoonForgets(t) ==
  /\ task[t].st = "new" /\ Asked(task[t].client)
  /\ Ends(t, "too_soon")
  /\ throttle' = Dropped(throttle, task[t].client)
  /\ UNCHANGED <<breaker, budget>> /\ Quiet

\* before_call raises: nothing is charged, nothing is recorded.
TooSoon(t) ==
  /\ task[t].st = "new" /\ Asked(task[t].client)
  /\ Ends(t, "too_soon")
  /\ UNCHANGED <<breaker, budget, throttle>> /\ Quiet

\* The breaker is open: checked before the budget is charged.
CircuitOpen(t) ==
  /\ task[t].st = "new" /\ ~Asked(task[t].client)
  /\ ~Available(breaker, now)
  /\ throttle' = Dropped(Checked(task[t].client), task[t].client)
  /\ Ends(t, "unavailable")
  /\ UNCHANGED <<breaker, budget>> /\ Quiet

\* Bug: the trial is claimed first, and a spent budget strands it.
ExhaustedAfterClaim(t) ==
  /\ task[t].st = "new" /\ ~Asked(task[t].client)
  /\ Allows(breaker, now) /\ Spent(budget)
  /\ budget' = Rolled(budget)
  /\ breaker' = Claimed(breaker)
  /\ throttle' = Dropped(Checked(task[t].client), task[t].client)
  /\ Ends(t, "exhausted") /\ Quiet

\* Charged before the trial is claimed.
Exhausted(t) ==
  /\ task[t].st = "new" /\ ~Asked(task[t].client)
  /\ Available(breaker, now) /\ Spent(budget)
  /\ budget' = Rolled(budget)
  /\ throttle' = Dropped(Checked(task[t].client), task[t].client)
  /\ Ends(t, "exhausted")
  /\ UNCHANGED breaker /\ Quiet

\* Someone else holds the half-open trial: the charge is refunded.
TrialTaken(t) ==
  /\ task[t].st = "new" /\ ~Asked(task[t].client)
  /\ Available(breaker, now) /\ ~Spent(budget)
  /\ ~Allows(breaker, now)
  /\ budget' = Refunded(Taken(budget))
  /\ throttle' = Dropped(Checked(task[t].client), task[t].client)
  /\ Ends(t, "unavailable")
  /\ UNCHANGED breaker /\ Quiet

Send(t) ==
  /\ task[t].st = "new" /\ ~Asked(task[t].client)
  /\ Available(breaker, now) /\ ~Spent(budget)
  /\ Allows(breaker, now)
  /\ throttle' = Checked(task[t].client)
  /\ budget' = Taken(budget)
  /\ breaker' = Claimed(breaker)
  /\ task' = [task EXCEPT ![t] = [@ EXCEPT !.st = "sent", !.at = now,
                                           !.trial = breaker.openedAt # Never]]
  /\ plans' = [plans EXCEPT ![task[t].client] = now]
  /\ lastSent' = now /\ sentToday' = sentToday + 1
  /\ UNCHANGED <<now, cache, inflight, request, restarts>>

\* A call that raises before it goes out, for a reason that says nothing about
\* the provider (an unusable base URL): the trial and the charge go back.
NeverSent(t) ==
  /\ task[t].st = "new" /\ ~Asked(task[t].client)
  /\ Available(breaker, now) /\ ~Spent(budget)
  /\ Allows(breaker, now)
  /\ throttle' = Dropped(Checked(task[t].client), task[t].client)
  /\ budget' = Refunded(Taken(budget))
  /\ breaker' = Released(Claimed(breaker))
  /\ Ends(t, "failed")
  /\ Quiet

\* 2xx with a readable body; a 4xx, which is a working provider; or a timeout,
\* a transport error, a 5xx, a 429, a 3xx or an unreadable body.
Reply(t, result) ==
  /\ task[t].st = "sent"
  /\ breaker' = IF result = "failed" THEN AfterFailure(breaker, now) ELSE AfterSuccess(breaker)
  /\ throttle' = IF result = "ok" THEN throttle ELSE Dropped(throttle, task[t].client)
  /\ plans' = IF result = "ok" THEN plans ELSE [plans EXCEPT ![task[t].client] = Never]
  /\ Ends(t, result)
  /\ UNCHANGED <<now, budget, cache, inflight, request, lastSent, sentToday, restarts>>

\* Bug: a producer that raised stays registered.
SettleAnswersOnly(t) ==
  /\ task[t].st = "done"
  /\ inflight' = [k \in Keys |-> IF inflight[k] = t /\ task[t].result = "ok"
                                 THEN NoTask ELSE inflight[k]]
  /\ cache' = IF task[t].result = "ok"
              THEN Put(cache, [key |-> task[t].key, expires |-> now + Ttl], CacheSize)
              ELSE cache
  /\ request' = [r \in Requests |-> IF request[r] = t THEN NoTask ELSE request[r]]
  /\ task' = [task EXCEPT ![t] = FreeTask]
  /\ UNCHANGED <<now, breaker, budget, throttle, ghosts, restarts>>

\* _settle, then the waiters wake: an answer is cached, an exception is not,
\* and everyone waiting gets the same of either.
Settle(t) ==
  /\ task[t].st = "done"
  /\ inflight' = [k \in Keys |-> IF inflight[k] = t THEN NoTask ELSE inflight[k]]
  /\ cache' = IF task[t].result = "ok"
              THEN Put(cache, [key |-> task[t].key, expires |-> now + Ttl], CacheSize)
              ELSE cache
  /\ request' = [r \in Requests |-> IF request[r] = t THEN NoTask ELSE request[r]]
  /\ task' = [task EXCEPT ![t] = FreeTask]
  /\ UNCHANGED <<now, breaker, budget, throttle, ghosts, restarts>>

-----------------------------------------------------------------------------
\* Time passes, but no call outlives its timeout.
Tick ==
  /\ now < Horizon
  /\ \A t \in Tasks : task[t].st = "sent" => now < task[t].at + CallLife
  /\ now' = now + 1
  /\ sentToday' = IF BudgetDay(now + 1) = BudgetDay(now) THEN sentToday ELSE 0
  /\ UNCHANGED <<shared, loop, plans, lastSent, restarts>>

\* A new process starts with nothing remembered.
Restart ==
  /\ restarts < MaxRestarts
  /\ restarts' = restarts + 1
  /\ breaker' = Closed /\ budget' = [day |-> BudgetDay(now), used |-> 0]
  /\ throttle' = <<>> /\ cache' = <<>>
  /\ inflight' = NoFlights /\ task' = NoTasks /\ request' = NoWaits
  /\ plans' = NoPlans /\ lastSent' = Never /\ sentToday' = 0
  /\ UNCHANGED now

Arrive == \E r \in Requests, k \in Keys : Hit(r, k) \/ Join(r, k) \/ Lead(r, k)

RunTask(t) ==
  \/ TooSoon(t) \/ CircuitOpen(t) \/ Exhausted(t) \/ TrialTaken(t)
  \/ Send(t) \/ NeverSent(t) \/ Settle(t)
  \/ \E result \in {"ok", "refused", "failed"} : Reply(t, result)

ClientNext ==
  \/ Arrive
  \/ \E r \in Requests : Leave(r)
  \/ \E t \in Tasks : RunTask(t)
  \/ Tick \/ Restart

\* The loop runs every ready task, and httpx's timeout ends every call.
ClientSpec     == ClientInit /\ [][ClientNext]_clientVars
FairClientSpec == ClientSpec /\ \A t \in Tasks : WF_clientVars(RunTask(t))
-----------------------------------------------------------------------------
(* Properties.                                                             *)

Producer ==
  [st : {"free", "new", "sent", "done"}, key : Keys \cup {NoKey},
   client : Clients \cup {NoKey}, at : Nat \cup {Never},
   trial : BOOLEAN, result : Results \cup {"none"}]

TypeOK ==
  /\ {now, restarts, sentToday} \subseteq Nat
  /\ breaker \in BreakerType
  /\ budget \in [day : Nat, used : Nat]
  /\ throttle \in LruOf([key : Clients, at : Nat], ThrottleSize)
  /\ cache \in LruOf([key : Keys, expires : Nat], CacheSize)
  /\ inflight \in [Keys -> Tasks \cup {NoTask}]
  /\ task \in [Tasks -> Producer]
  /\ request \in [Requests -> Tasks \cup {NoTask}]
  /\ plans \in [Clients -> Nat \cup {Never}]
  /\ lastSent \in Nat \cup {Never}

Trials == {t \in Tasks : task[t].st = "sent" /\ task[t].trial}

\* breaker.py: half open, "exactly one caller gets True until that trial
\* reports back", however many calls were out when the breaker opened.
OneTrial == \A t, u \in Trials : t = u

\* A claimed trial is always someone's: no path out of _call strands it, or a
\* half-open breaker would wait forever for a call nobody is making.
TrialIsOut == breaker.trialOut => Trials # {}

\* During an outage the provider is asked once per cooldown, not more: between
\* two calls while the breaker is open a whole cooldown passes.
OneCallPerCooldown ==
  [][\A t \in Tasks : (task[t].st = "new" /\ task'[t].st = "sent" /\ breaker.openedAt # Never)
        => lastSent = Never \/ now - lastSent >= Cooldown]_clientVars

\* The budget charges exactly the calls that went out today, and never lets
\* one more than the limit go: refunds neither leak nor mint allowance.
BudgetExact ==
  /\ budget.day = BudgetDay(now) => budget.used = sentToday
  /\ sentToday =< DailyLimit

\* Single flight: concurrent misses for one key make one upstream call.
OneCallPerKey ==
  \A t, u \in Tasks : (/\ {task[t].st, task[u].st} \subseteq {"new", "sent"}
                      /\ task[t].key = task[u].key) => t = u

\* One plan per client per interval, failed ones not counted: asking again too
\* early, from another tab or for another trip, never opens the door.
OnePlanPerInterval ==
  [][\A t \in Tasks : (task[t].st = "new" /\ task'[t].st = "sent")
        => LET last == plans[task[t].client]
           IN  last = Never \/ now - last >= Interval]_clientVars

\* Everyone who waits is answered: a producer that failed, or whose first
\* caller left, does not leave the others waiting.
EveryoneAnswered == \A r \in Requests : request[r] # NoTask ~> request[r] = NoTask

-----------------------------------------------------------------------------
(* The inductive invariant behind OneTrial, TrialIsOut, BudgetExact,       *)
(* OneCallPerKey and OneCallPerCooldown.                                   *)

Typed ==
  /\ {now, sentToday} \subseteq Nat
  /\ breaker \in BreakerType /\ budget \in [day : Int, used : Nat]
  /\ task \in [Tasks -> Producer] /\ inflight \in [Keys -> Tasks \cup {NoTask}]
  /\ lastSent \in Nat \cup {Never}

\* A call that is out is younger than its timeout.
CallsAreYoung ==
  \A t \in Tasks : task[t].st = "sent" =>
     task[t].at # Never /\ task[t].at =< now /\ now =< task[t].at + CallLife

\* A call from before the breaker opened is over before a trial can start, so
\* what it reports is never taken for the trial's.
TrialSound ==
  /\ breaker.openedAt # Never => breaker.openedAt =< now
  /\ \A t \in Tasks : (task[t].st = "sent" /\ ~task[t].trial /\ breaker.openedAt # Never)
       => task[t].at =< breaker.openedAt
  /\ \A t \in Trials : /\ breaker.openedAt # Never /\ breaker.trialOut
                        /\ breaker.openedAt + Cooldown =< task[t].at
  /\ OneTrial /\ TrialIsOut

LastSentSound ==
  lastSent # Never =>
    /\ lastSent =< now
    /\ breaker.openedAt # Never /\ ~breaker.trialOut => lastSent =< breaker.openedAt

BudgetSound ==
  /\ budget.day =< BudgetDay(now)
  /\ budget.day < BudgetDay(now) => sentToday = 0
  /\ BudgetExact

FlightSound ==
  \A t \in Tasks : task[t].st # "free" =>
     task[t].key \in Keys /\ inflight[task[t].key] = t

ClientInv == Typed /\ CallsAreYoung /\ TrialSound /\ LastSentSound /\ BudgetSound /\ FlightSound

\* Behind OnePlanPerInterval: the plan a client may not repeat yet is in the
\* throttle, at its own time or a later one.
ThrottleTyped ==
  /\ throttle \in Seq([key : Clients, at : Nat])
  /\ \A i, j \in 1..Len(throttle) : throttle[i].key = throttle[j].key => i = j
  /\ plans \in [Clients -> Nat \cup {Never}]
  /\ \A t \in Tasks : task[t].st # "free" => task[t].client \in Clients

Remembered(c) ==
  \/ plans[c] = Never \/ now - plans[c] >= Interval
  \/ \E e \in EntryOf(throttle, c) : plans[c] =< e.at

ThrottleSound == ThrottleTyped /\ \A c \in Clients : Remembered(c)
=============================================================================
