------------------------------ MODULE Gateway ------------------------------
(***************************************************************************)
(* What every HTTP request to FakeForce goes through before its handler:   *)
(* admission_middleware, which holds a slot of the request's pool until    *)
(* the response, and inside it chaos_middleware with the outage, the       *)
(* rolling rate limit, latency and injected failures; with the operations  *)
(* on the chaos knobs, which are requests too.                             *)
(*                                                                         *)
(* Abstractions.  A step runs between two awaits of the request's task.    *)
(* The handler behind the middleware is one step that returns or raises.   *)
(* Latencies and the 30 s hang are sleeps of any length, probabilities are *)
(* choices.  Time is counted in ticks, Second of them in a second.         *)
(***************************************************************************)
EXTENDS Integers, Sequences, FiniteSets, SequencesExt, Lists

CONSTANTS
    Requests,   \* requests of the clients
    Kinds,      \* pools of classify_operation
    Kind,       \* Kind[r]: the pool of r's path
    Op,         \* Op[r]: {"data"}, or what an operator may do to the knobs:
                \* "limit", "outage", "reset"
    Workers,    \* Workers[k]: slots of pool k
    Second,     \* ticks per second
    Window,     \* length of the rolling window in seconds (60)
    RateLimit,  \* DEFAULTS["rate_limit_per_min"]
    Limits,     \* values an operator may set it to
    LastTick    \* bound on the clock

ASSUME GatewayAssumption ==
    /\ IsFiniteSet(Requests) /\ Kind \in [Requests -> Kinds]
    /\ Op \in [Requests -> SUBSET {"data", "limit", "outage", "reset"}]
    /\ Workers \in [Kinds -> Nat \ {0}]
    /\ Second \in Nat \ {0} /\ Window \in Nat \ {0}
    /\ RateLimit \in Nat \ {0} /\ Limits \subseteq Nat
    /\ LastTick \in Nat

VARIABLES
    now,            \* time.time()
    value,          \* value of each asyncio.Semaphore
    waiters,        \* its queue: requests, granted a slot or not
    active, queued, \* counters of the AdmissionController
    limit, outage_until,
    request_times,  \* _request_times
    usage,          \* rows of api_usage_events (none is a day old)
    task,           \* state of each request's task
    wake,           \* when a client that was refused may come back
    refused,        \* 429s in a row with the same oldest request (history)
    admits          \* requests let through the limit since a reset (history)

pool == <<value, waiters, active, queued>>
knobs == <<limit, outage_until>>
vars == <<now, pool, knobs, request_times, usage, task, wake, refused, admits>>

Holding  == {"admitted", "sleeping", "handling"}  \* inside the slot
InPool(k) == {r \in Requests : Kind[r] = k}

Init ==
    /\ now = 0
    /\ value = Workers
    /\ waiters = [k \in Kinds |-> <<>>]
    /\ active = [k \in Kinds |-> 0] /\ queued = [k \in Kinds |-> 0]
    /\ limit = RateLimit /\ outage_until = 0
    /\ request_times = <<>> /\ usage = 0
    /\ task = [r \in Requests |-> "new"]
    /\ wake = [r \in Requests |-> 0]
    /\ refused = [r \in Requests |-> [oldest |-> 0, times |-> 0]]
    /\ admits = <<>>

-----------------------------------------------------------------------------
(* asyncio.Semaphore of Python 3.12.  The positions of the waiters of k    *)
(* that have no slot yet, without r, who leaves the queue.                 *)
Ungranted(k, r) ==
    {i \in DOMAIN waiters[k] : waiters[k][i] # r /\ task[waiters[k][i]] = "queued"}

(* The first n of these waiters.                                           *)
FirstWaiters(k, r, n) ==
    LET ungranted == Ungranted(k, r)
    IN  {waiters[k][i] : i \in {j \in ungranted : Cardinality({m \in ungranted : m <= j}) <= n}}

(* _wake_up_next, up to n times: of `free` slots each goes to the first    *)
(* waiter that has none yet, otherwise back to the value.  The task of r   *)
(* goes on in `state`.                                                     *)
WakeUpNext(r, state, free, n) ==
    LET woken == FirstWaiters(Kind[r], r, n)
    IN  /\ value' = [value EXCEPT ![Kind[r]] = free - Cardinality(woken)]
        /\ task' = [q \in Requests |-> IF q = r THEN state
                                       ELSE IF q \in woken THEN "granted" ELSE task[q]]

(* Mutant: a refusal or a cancellation leaves without release.             *)
LeaveOnSuccess(r, state) ==
    /\ active' = [active EXCEPT ![Kind[r]] = @ - 1]
    /\ IF state = "answered" THEN WakeUpNext(r, state, value[Kind[r]] + 1, 1)
       ELSE task' = [task EXCEPT ![r] = state] /\ UNCHANGED value
    /\ UNCHANGED <<waiters, queued>>

(* The end of `async with slot`, on every way out: release() wakes up one. *)
Leave(r, state) ==
    /\ active' = [active EXCEPT ![Kind[r]] = @ - 1]
    /\ WakeUpNext(r, state, value[Kind[r]] + 1, 1)
    /\ UNCHANGED <<waiters, queued>>

(* A request comes in: slot() takes a free slot at once, unless somebody   *)
(* is waiting already, or joins the queue.  A client that was refused      *)
(* comes back when Retry-After is over.                                    *)
Arrive(r) ==
    LET k == Kind[r]
    IN  /\ \/ task[r] = "new"
           \/ task[r] = "refused" /\ now >= wake[r]
        /\ IF value[k] > 0 /\ waiters[k] = <<>>
           THEN /\ value' = [value EXCEPT ![k] = @ - 1]
                /\ active' = [active EXCEPT ![k] = @ + 1]
                /\ task' = [task EXCEPT ![r] = "admitted"]
                /\ UNCHANGED <<waiters, queued>>
           ELSE /\ waiters' = [waiters EXCEPT ![k] = Append(@, r)]
                /\ queued' = [queued EXCEPT ![k] = @ + 1]
                /\ task' = [task EXCEPT ![r] = "queued"]
                /\ UNCHANGED <<value, active>>
        /\ UNCHANGED <<now, knobs, request_times, usage, wake, refused, admits>>

(* Mutant: the waiter leaves, and that is all.                             *)
DequeueQuietly(r, state, free) ==
    /\ waiters' = [waiters EXCEPT ![Kind[r]] = RemoveFirst(@, r)]
    /\ queued' = [queued EXCEPT ![Kind[r]] = @ - 1]
    /\ WakeUpNext(r, state, free, 0)

(* The waiter that leaves the queue wakes up those who came while slots    *)
(* were free but not theirs to take; `free` with the one it gives back.    *)
Dequeue(r, state, free) ==
    /\ waiters' = [waiters EXCEPT ![Kind[r]] = RemoveFirst(@, r)]
    /\ queued' = [queued EXCEPT ![Kind[r]] = @ - 1]
    /\ WakeUpNext(r, state, free, free)

(* The task that was granted a slot runs on.                               *)
Resume(r) ==
    /\ task[r] = "granted"
    /\ Dequeue(r, "admitted", value[Kind[r]])
    /\ active' = [active EXCEPT ![Kind[r]] = @ + 1]
    /\ UNCHANGED <<now, knobs, request_times, usage, wake, refused, admits>>

(* The task is cancelled, in the queue, with a slot it was granted but has *)
(* not taken (which the semaphore passes on), or inside the slot.          *)
Cancel(r) ==
    /\ \/ task[r] = "queued" /\ Dequeue(r, "cancelled", value[Kind[r]]) /\ UNCHANGED active
       \/ task[r] = "granted" /\ Dequeue(r, "cancelled", value[Kind[r]] + 1) /\ UNCHANGED active
       \/ task[r] \in Holding /\ Leave(r, "cancelled")
    /\ UNCHANGED <<now, knobs, request_times, usage, wake, refused, admits>>

-----------------------------------------------------------------------------
(* The 24 hours of the usage table are longer than any behaviour here.     *)
record_api_usage == usage' = usage + 1

(* chaos_middleware up to its first await.                                 *)
Data(r) == task[r] = "admitted" /\ "data" \in Op[r]

(* 503 while the outage lasts.                                             *)
Outage(r) ==
    /\ Data(r) /\ outage_until > now
    /\ Leave(r, "answered")
    /\ record_api_usage
    /\ UNCHANGED <<now, knobs, request_times, wake, refused, admits>>

(* Mutant: the window loses its last second.                               *)
RecentShort ==
    Kept(request_times, {i \in DOMAIN request_times : now - request_times[i] < (Window - 1) * Second})

(* [t for t in _request_times if now - t < 60].                            *)
Recent ==
    Kept(request_times, {i \in DOMAIN request_times : now - request_times[i] < Window * Second})

(* Mutant: int() without max(1, ...).                                      *)
retry_after_truncated(oldest) == (Window * Second - (now - oldest)) \div Second

(* max(1, int(60 - (now - oldest))), in seconds.                           *)
retry_after(oldest) ==
    LET left == (Window * Second - (now - oldest)) \div Second
    IN  IF left < 1 THEN 1 ELSE left

(* 429; the client waits for Retry-After and asks again.                   *)
Refuse(r) ==
    LET recent == Recent
        oldest == Min(ToSet(recent))
    IN  /\ Data(r) /\ outage_until <= now /\ Len(recent) >= limit /\ recent # <<>>
        /\ request_times' = recent
        /\ Leave(r, "refused")
        /\ record_api_usage
        /\ wake' = [wake EXCEPT ![r] = now + retry_after(oldest) * Second]
        /\ refused' = [refused EXCEPT ![r] =
               [oldest |-> oldest, times |-> IF @.oldest = oldest THEN @.times + 1 ELSE 1]]
        /\ UNCHANGED <<now, knobs, admits>>

(* An operator may set a limit of 0: min() of no requests raises, and the  *)
(* request ends with an error before its usage is recorded.                *)
RefuseFails(r) ==
    /\ Data(r) /\ outage_until <= now /\ Len(Recent) >= limit /\ Recent = <<>>
    /\ request_times' = Recent
    /\ Leave(r, "answered")
    /\ UNCHANGED <<now, knobs, usage, wake, refused, admits>>

Admit(r) ==
    LET recent == Recent
    IN  /\ Data(r) /\ outage_until <= now /\ Len(recent) < limit
        /\ request_times' = Append(recent, now)
        /\ task' = [task EXCEPT ![r] = "sleeping"]
        /\ record_api_usage
        /\ admits' = Append(admits, [at |-> now, limit |-> limit])
        /\ UNCHANGED <<now, pool, knobs, wake, refused>>

(* Latency and hang are over: an injected failure, or on to the handler.   *)
WakeUp(r) ==
    /\ task[r] = "sleeping"
    /\ \/ Leave(r, "answered")
       \/ task' = [task EXCEPT ![r] = "handling"] /\ UNCHANGED pool
    /\ UNCHANGED <<now, knobs, request_times, usage, wake, refused, admits>>

(* The handler returns or raises: the slot does not see the difference.    *)
Handle(r) ==
    /\ task[r] = "handling"
    /\ Leave(r, "answered")
    /\ UNCHANGED <<now, knobs, request_times, usage, wake, refused, admits>>

-----------------------------------------------------------------------------
(* POST /_chaos, /_chaos/outage and /_chaos/reset.                         *)
SetLimit(r) ==
    /\ task[r] = "admitted" /\ "limit" \in Op[r]
    /\ \E n \in Limits : limit' = n
    /\ Leave(r, "answered")
    /\ UNCHANGED <<now, outage_until, request_times, usage, wake, refused, admits>>

StartOutage(r) ==
    /\ task[r] = "admitted" /\ "outage" \in Op[r]
    /\ outage_until' = now + Second
    /\ Leave(r, "answered")
    /\ UNCHANGED <<now, limit, request_times, usage, wake, refused, admits>>

(* A plain function in a thread of its own; its three statements are one   *)
(* step here.                                                              *)
Reset(r) ==
    /\ task[r] = "admitted" /\ "reset" \in Op[r]
    /\ limit' = RateLimit /\ outage_until' = 0
    /\ request_times' = <<>> /\ admits' = <<>>
    /\ Leave(r, "answered")
    /\ UNCHANGED <<now, usage, wake, refused>>

Tick ==
    /\ now < LastTick
    /\ now' = now + 1
    /\ UNCHANGED <<pool, knobs, request_times, usage, task, wake, refused, admits>>

-----------------------------------------------------------------------------
Run(r) == \/ Resume(r) \/ Outage(r) \/ Refuse(r) \/ RefuseFails(r) \/ Admit(r)
          \/ WakeUp(r) \/ Handle(r) \/ SetLimit(r) \/ StartOutage(r) \/ Reset(r)

Next == Tick \/ \E r \in Requests : Arrive(r) \/ Run(r) \/ Cancel(r)

Spec == Init /\ [][Next]_vars

(* The event loop runs every task that is not waiting; sleeps and handlers *)
(* end.                                                                    *)
FairSpec == Spec /\ \A r \in Requests : WF_vars(Run(r))

-----------------------------------------------------------------------------
(* Slots are neither lost nor handed out twice, however requests end: of   *)
(* the slots of a pool each is free, held, or granted to a waiting task,   *)
(* nobody waits twice, and the counters that /_diagnostics reports are the *)
(* requests there are.  A slot is free while somebody waits for it only    *)
(* until a task that was granted one has run and wakes up the next.        *)
SlotsConserved ==
    \A k \in Kinds :
        LET held    == {r \in InPool(k) : task[r] \in Holding}
            granted == {r \in InPool(k) : task[r] = "granted"}
            waiting == {r \in InPool(k) : task[r] = "queued"}
        IN  /\ value[k] + Cardinality(held) + Cardinality(granted) = Workers[k]
            /\ value[k] > 0 /\ waiting # {} => granted # {}
            /\ active[k] = Cardinality(held)
            /\ IsInjective(waiters[k]) /\ queued[k] = Len(waiters[k])
            /\ ToSet(waiters[k]) = granted \cup waiting

(* No request is let through when as many as the limit were let through in *)
(* the Window seconds before it, counted from the requests themselves and  *)
(* not from _request_times, across changes of the limit.                   *)
RateLimited ==
    \A n \in DOMAIN admits :
        Cardinality({m \in 1..n : admits[n].at - admits[m].at < Window * Second})
            <= admits[n].limit

(* Retry-After can be short by less than a second, but not twice: a client *)
(* that waits for it is refused at most twice on account of the same       *)
(* oldest request of the window.                                           *)
RetryAfterConverges == \A r \in Requests : refused[r].times <= 2

(* A request that waits for a slot gets one, or is cancelled.              *)
QueuedGetsSlot ==
    \A r \in Requests : task[r] = "queued" ~> task[r] \in Holding \cup {"cancelled"}
=============================================================================
