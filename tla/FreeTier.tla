------------------------------ MODULE FreeTier ------------------------------
(***************************************************************************)
(* The free tier: how a user's calls of /llm/free/chat take slots of the   *)
(* network's hourly window and of the user's daily window                  *)
(* (apps/api/src/lib/freeTierLimiter.ts, routes/free.ts), and what becomes *)
(* of a slot when the model's provider fails.                              *)
(*                                                                         *)
(* Both windows are sorted sets in Redis, read and written by calls that   *)
(* any number of requests interleave, each of which may fail and is then   *)
(* an empty answer and not an error; when the count has no answer the slot *)
(* is taken from the API's memory instead.  Time is counted in a unit that  *)
(* a limiter call does not outlast: a call of Redis gives up after seconds.  *)
(* One user behind one address: others have windows of their own, or take  *)
(* slots of the address like this one.  Redis forgets a window that was    *)
(* not written for twice its length, when it has nothing left in it.       *)
(*                                                                         *)
(* Theorems about this module are in Billing_proofs, which extends Billing *)
(* as well: no two definitions of the two modules have the same name.      *)
(***************************************************************************)
EXTENDS Integers, FiniteSets

CONSTANTS
    Calls,      \* calls of the route that the API works on at a time
    Limit,      \* slots of each window: FREE_TIER_DAILY_LIMIT, FREE_TIER_IP_HOURLY_LIMIT
    Window,     \* FREE_TIER_WINDOW_SECONDS, FREE_TIER_IP_WINDOW_SECONDS
    MaxTime,    \* bound on the clock
    MaxFailures \* bound on calls of Redis that fail, and on restarts

Keys == {"ip", "user"}
Stores == {"redis", "memory"}

ASSUME CallAssumption == IsFiniteSet(Calls)
ASSUME LimitAssumption == Limit \in [Keys -> Nat \ {0}]
ASSUME WindowAssumption == Window \in [Keys -> Nat \ {0, 1}]
ASSUME TimeAssumption == {MaxTime, MaxFailures} \subseteq Nat

VARIABLES
    now,      \* the clock
    redis,    \* the entries of each window in Redis, <<score, member>>
    memory,   \* the same in the API's memory
    call,     \* what each call does next, and what it knows
    granted,  \* history: the entries of all slots granted, by window and by whom
    unadded,  \* history: slots of each window granted though Redis did not add them
    unpruned, \* history: the windows that were counted and could not be pruned
    restarts, \* history: how often the memory was lost
    failures

Entries == (0 .. now) \X Nat

freeTierVars == <<now, redis, memory, call, granted, unadded, unpruned, restarts, failures>>

Empty == [k \in Keys |-> {}]

(* Those later than a time; zremrangebyscore removes the others. *)
After(w, t) == {e \in w : e[1] > t}

(* A member has a random part, so it is another one each time. *)
NewEntry(w, t) == <<t, Cardinality({e \in w : e[1] = t}) + 1>>

(* from: the now of the limiter call; count: what zcard answered *)
NoCall == [at |-> "idle", key |-> "ip", from |-> 0, count |-> 0]

FreeTierInit ==
    /\ now = 0
    /\ redis = Empty
    /\ memory = Empty
    /\ call = [c \in Calls |-> NoCall]
    /\ granted = [s \in Stores |-> Empty]
    /\ unadded = [k \in Keys |-> 0]
    /\ unpruned = {}
    /\ restarts = 0
    /\ failures = 0

Fails == failures < MaxFailures /\ failures' = failures + 1

Goes(c, at) == call' = [call EXCEPT ![c].at = at]
Ends(c) == call' = [call EXCEPT ![c] = NoCall]

(* A limiter call begins; it computes everything from one reading of the clock. *)
Begins(c, k) == call' = [call EXCEPT ![c] = [NoCall EXCEPT !.at = "prune", !.key = k, !.from = now]]

(* A window grants the slot: after the network's comes the user's, with the *)
(* checks of the call in between; after the user's the provider is called.  *)
Grants(c, store, e) ==
    LET k == call[c].key IN
    /\ call' = [call EXCEPT ![c] = [NoCall EXCEPT !.at = IF k = "ip" THEN "checks" ELSE "upstream"]]
    /\ granted' = [granted EXCEPT ![store][k] = @ \cup {e}]

-----------------------------------------------------------------------------
(* redisCheckAndIncrement and redisIpCheck *)

Begin(c) ==
    /\ call[c].at = "idle"
    /\ Begins(c, "ip")
    /\ UNCHANGED <<now, redis, memory, granted, unadded, unpruned, restarts, failures>>

(* Variant: the start of the window is so long ago that nothing is removed. *)
PruneNothing(c) ==
    /\ call[c].at = "prune"
    /\ Goes(c, "count")
    /\ UNCHANGED <<now, redis, memory, granted, unadded, unpruned, restarts, failures>>

(* zremrangebyscore; whether it had an answer is not looked at. *)
Prune(c) ==
    LET k == call[c].key IN
    /\ call[c].at = "prune"
    /\ \/ /\ redis' = [redis EXCEPT ![k] = After(@, call[c].from - Window[k])]
          /\ UNCHANGED <<unpruned, failures>>
       \/ /\ Fails
          /\ unpruned' = unpruned \cup {k}
          /\ UNCHANGED redis
    /\ Goes(c, "count")
    /\ UNCHANGED <<now, memory, granted, unadded, restarts>>

(* Variant: the window takes one more than its limit. *)
FullAfter(k, count) == count > Limit[k]

(* The limit is reached. *)
Full(k, count) == count >= Limit[k]

(* zcard; the network's window decides on it, the user's reads the oldest first. *)
Count(c) ==
    LET k == call[c].key
        count == Cardinality(redis[k])
    IN
    /\ call[c].at = "count"
    /\ \/ /\ call' = [call EXCEPT ![c].count = count,
                                  ![c].at = IF k = "user" THEN "oldest"
                                            ELSE IF Full(k, count) THEN "refused" ELSE "add"]
          /\ UNCHANGED failures
       \/ Fails /\ Goes(c, "memory")
    /\ UNCHANGED <<now, redis, memory, granted, unadded, unpruned, restarts>>

(* zrange, for the time the user is told to wait; whether it had an answer *)
(* does not change the decision.                                           *)
ReadOldest(c) ==
    /\ call[c].at = "oldest"
    /\ Goes(c, IF Full(call[c].key, call[c].count) THEN "refused" ELSE "add")
    /\ UNCHANGED <<now, redis, memory, granted, unadded, unpruned, restarts, failures>>

(* zadd; its answer is not looked at. *)
Add(c) ==
    LET k == call[c].key
        e == NewEntry(granted["redis"][k], call[c].from)
    IN
    /\ call[c].at = "add"
    /\ \/ redis' = [redis EXCEPT ![k] = @ \cup {e}] /\ UNCHANGED <<unadded, failures>>
       \/ Fails /\ unadded' = [unadded EXCEPT ![k] = @ + 1] /\ UNCHANGED redis
    /\ Grants(c, "redis", e)
    /\ UNCHANGED <<now, memory, unpruned, restarts>>

(* memoryCheckAndIncrement and memoryIpCheck: in one step *)
TakeFromMemory(c) ==
    LET k == call[c].key
        left == After(memory[k], now - Window[k])
        e == NewEntry(granted["memory"][k], now)
    IN
    /\ call[c].at = "memory"
    /\ IF Full(k, Cardinality(left))
       THEN /\ memory' = [memory EXCEPT ![k] = left]
            /\ call' = [call EXCEPT ![c].at = "refused", ![c].from = now]
            /\ UNCHANGED granted
       ELSE /\ memory' = [memory EXCEPT ![k] = left \cup {e}]
            /\ Grants(c, "memory", e)
    /\ UNCHANGED <<now, redis, unadded, unpruned, restarts, failures>>

-----------------------------------------------------------------------------
(* The route *)

(* The call is signed in and valid: its user's window is next. *)
Pass(c) ==
    /\ call[c].at = "checks"
    /\ Begins(c, "user")
    /\ UNCHANGED <<now, redis, memory, granted, unadded, unpruned, restarts, failures>>

(* It is not; or the answer 429 goes out; or the provider has answered, in  *)
(* whatever way: the slots taken stay taken.                                *)
Answer(c) ==
    /\ call[c].at \in {"checks", "refused", "upstream"}
    /\ Ends(c)
    /\ UNCHANGED <<now, redis, memory, granted, unadded, unpruned, restarts, failures>>

(* /llm/free/usage and the check for anomalies: getUsage prunes the window, *)
(* and the one in memory when Redis does not answer.                        *)
ReadUsage ==
    /\ \/ /\ redis' = [redis EXCEPT !["user"] = After(@, now - Window["user"])]
          /\ UNCHANGED <<memory, failures>>
       \/ /\ Fails
          /\ memory' = [memory EXCEPT !["user"] = After(@, now - Window["user"])]
          /\ UNCHANGED redis
    /\ UNCHANGED <<now, call, granted, unadded, unpruned, restarts>>

Restart ==
    /\ Fails
    /\ memory' = Empty
    /\ call' = [c \in Calls |-> NoCall]
    /\ restarts' = restarts + 1
    /\ UNCHANGED <<now, redis, granted, unadded, unpruned>>

(* No limiter call lasts longer than the unit of time. *)
Tick ==
    /\ now < MaxTime
    /\ \A c \in Calls : call[c].at \in {"prune", "count", "oldest", "add", "memory"} =>
                           call[c].from = now
    /\ now' = now + 1
    /\ UNCHANGED <<redis, memory, call, granted, unadded, unpruned, restarts, failures>>

FreeTierNext ==
    \/ \E c \in Calls :
          \/ Begin(c) \/ Prune(c) \/ Count(c) \/ ReadOldest(c) \/ Add(c)
          \/ TakeFromMemory(c) \/ Pass(c) \/ Answer(c)
    \/ ReadUsage \/ Restart \/ Tick

FreeTierSpec == FreeTierInit /\ [][FreeTierNext]_freeTierVars

-----------------------------------------------------------------------------
(* Every variable has the type of the code's data, and no window, in Redis or  *)
(* in memory, holds an entry from the future.                                  *)
FreeTierTypeOK ==
    /\ now \in 0 .. MaxTime
    /\ redis \in [Keys -> SUBSET Entries]
    /\ memory \in [Keys -> SUBSET Entries]
    /\ call \in [Calls -> [at : {"idle", "prune", "count", "oldest", "add", "memory", "checks",
                                 "refused", "upstream"},
                           key : Keys, from : 0 .. now, count : Nat]]
    /\ granted \in [Stores -> [Keys -> SUBSET Entries]]
    /\ unadded \in [Keys -> 0 .. MaxFailures]
    /\ unpruned \subseteq Keys
    /\ restarts \in 0 .. MaxFailures
    /\ failures \in 0 .. MaxFailures

(* The slots a window grants within its length (checkAndIncrement): the count   *)
(* and the insertion are separate calls, so parallel requests may pass the      *)
(* limit together, but not by more than the other requests in progress and the  *)
(* insertions that failed; the memory, which Redis does not know of, adds at    *)
(* most a limit of its own for each time the API was started.                   *)
QuotaIsBounded ==
    \A k \in Keys :
       LET within(store) == Cardinality(After(granted[store][k], now - Window[k])) IN
       /\ within("redis") <= Limit[k] + (Cardinality(Calls) - 1) + unadded[k]
       /\ within("memory") <= Limit[k] * (1 + restarts)

(* A call is refused only when the limit was really used up within the window   *)
(* before it (checkAndIncrement, checkIpRateLimit), by slots of the same store, *)
(* unless the window could not be pruned.                                       *)
RefusedHasUsedUp ==
    \A c \in Calls : call[c].at = "refused" /\ call[c].key \notin unpruned =>
        \E store \in Stores :
            Cardinality(After(granted[store][call[c].key], call[c].from - Window[call[c].key]))
               >= Limit[call[c].key]
=============================================================================
