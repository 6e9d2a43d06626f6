---------------------------- MODULE RateLimiter ----------------------------
(***************************************************************************)
(* The sliding window of core/rate_limit.py for one key, as the login and  *)
(* registration routes of users/routers.py use it: a sorted set in Redis   *)
(* that a Lua script updates, and a deque in the memory of each worker for *)
(* when Redis is not configured or does not answer.                        *)
(*                                                                         *)
(* Time is counted in ticks.  A worker reads its clock, which may be ahead *)
(* of the true time, and sends the script; the script runs up to Lag ticks *)
(* later, and perhaps again, because the client library repeats a command  *)
(* whose answer is lost.  The reading has no effect of its own, so it is   *)
(* part of the step in which the script runs first.                        *)
(***************************************************************************)
EXTENDS Integers, Sequences, FiniteSets

CONSTANTS Attempts,       \* the calls of allow(key)
          Workers,
          Nobody,
          Limit,
          WindowSeconds,
          Second,         \* how many ticks a second has
          Spread,         \* how far the clock of a worker may be ahead of the true one
          Lag,            \* how long after the reading of the clock a script may run
          NFaults,        \* bound: how often Redis or a worker fails
          MaxTime         \* bound: when an instance ends

Window == WindowSeconds * Second

ASSUME LimitAssumption == Limit \in Nat \ {0}
ASSUME WindowAssumption == WindowSeconds \in Nat \ {0} /\ Second \in Nat \ {0}
ASSUME ClockAssumption == Spread \in Nat /\ Lag \in Nat /\ MaxTime \in Nat
ASSUME FaultsAssumption == NFaults \in Nat
ASSUME NobodyAssumption == Nobody \notin Workers

VARIABLES clock,
          configured, \* whether there is a Redis
          faults,     \* how many faults are left
          zset,       \* the sorted set in Redis
          expires,    \* when its key expires
          memory,     \* SlidingWindowLimiter of each worker
          try,        \* the attempts
          counted,    \* history: when Redis last recorded an attempt
          local       \* history: what the present process of a worker let pass itself

vars == <<clock, configured, faults, zset, expires, memory, try, counted, local>>

-----------------------------------------------------------------------------

Never == -1

\* now is what the worker read at the true time sent; at is the time of the verdict;
\* again: the verdict is that of a second execution of the script.
Try == [by : {"nobody", "redis", "memory"}, worker : Workers \cup {Nobody},
        sent : Nat, now : Nat, verdict : {"none", "pass", "refuse"}, retry : Nat,
        at : Nat, again : BOOLEAN]

Idle == [by |-> "nobody", worker |-> Nobody, sent |-> 0, now |-> 0, verdict |-> "none",
         retry |-> 0, at |-> 0, again |-> FALSE]

TypeOK == /\ clock \in Nat
          /\ configured \in BOOLEAN
          /\ faults \in 0 .. NFaults
          /\ zset \subseteq [score : Nat, member : Nat \X Attempts]
          /\ expires \in Nat
          /\ memory \in [Workers -> Seq(Nat)]
          /\ try \in [Attempts -> Try]
          /\ counted \in [Attempts -> Nat \cup {Never}]
          /\ local \in [Workers -> SUBSET Attempts]

Init == /\ clock = 0
        /\ configured \in BOOLEAN
        /\ faults = NFaults
        /\ zset = {}
        /\ expires = 0
        /\ memory = [w \in Workers |-> <<>>]
        /\ try = [a \in Attempts |-> Idle]
        /\ counted = [a \in Attempts |-> Never]
        /\ local = [w \in Workers |-> {}]

Fault == faults > 0 /\ faults' = faults - 1

-----------------------------------------------------------------------------
(***************************************************************************)
(* The window                                                              *)
(***************************************************************************)

\* Mutant of RetryAfter: rounded down.
RetryRoundedDown(oldest, now) ==
  LET wait == (oldest + Window - now) \div Second
  IN IF wait < 1 THEN 1 ELSE wait

\* Whole seconds until the oldest event has left the window.
RetryAfter(oldest, now) ==
  LET wait == (oldest + Window - now) \div Second + 1
  IN IF wait < 1 THEN 1 ELSE wait

\* What ZREMRANGEBYSCORE leaves of the set; a key that has expired is empty.
Trimmed(now) == IF clock < expires THEN {e \in zset : e.score > now - Window} ELSE {}

Oldest(kept) == CHOOSE s \in {e.score : e \in kept} : \A e \in kept : s <= e.score

\* Mutant of Member: the time without the uuid.
MemberByTime(a, now) == <<now, CHOOSE b \in Attempts : TRUE>>

\* The value under which an attempt is recorded: the time and a uuid.
Member(a, now) == <<now, a>>

\* Mutant of After: ZADD comes before the check.
AfterAlways(kept, a, now) == kept \cup {[score |-> now, member |-> Member(a, now)]}

\* The set after the script.
After(kept, a, now) == IF Cardinality(kept) >= Limit THEN kept
                       ELSE kept \cup {[score |-> now, member |-> Member(a, now)]}

\* RATE_LIMIT_SCRIPT, one step of Redis: the set, the key's time to live, and a record
\* of what was counted.
RunScript(a, now) ==
  LET full == Cardinality(Trimmed(now)) >= Limit
  IN /\ zset' = After(Trimmed(now), a, now)
     /\ expires' = IF full THEN expires ELSE clock + Window
     /\ counted' = IF full THEN counted ELSE [counted EXCEPT ![a] = clock]

\* What the script returns to _allow_redis.
Answer(t) ==
  LET kept == Trimmed(t.now)
      full == Cardinality(kept) >= Limit
  IN [t EXCEPT !.by = "redis", !.at = clock,
               !.verdict = IF full THEN "refuse" ELSE "pass",
               !.retry = IF full THEN RetryAfter(Oldest(kept), t.now) ELSE 0]

-----------------------------------------------------------------------------
(***************************************************************************)
(* RateLimiter.allow                                                       *)
(***************************************************************************)

\* _allow_redis: time.time() at some moment of the last Lag ticks, then the script.
AllowRedis(a) ==
  \E sent \in {t \in 0 .. clock : clock <= t + Lag}, ahead \in 0 .. Spread :
    /\ configured
    /\ try[a] = Idle
    /\ RunScript(a, sent + ahead)
    /\ try' = [try EXCEPT ![a] = Answer([Idle EXCEPT !.sent = sent, !.now = sent + ahead])]
    /\ UNCHANGED <<clock, configured, faults, memory, local>>

\* The same command is run once more: its answer was lost, or it was late and the worker
\* has turned to its memory; then nobody learns what it returns.
Repeat(a) ==
  /\ configured
  /\ Fault
  /\ try[a] # Idle
  /\ clock <= try[a].sent + Lag
  /\ RunScript(a, try[a].now)
  /\ try' = IF try[a].by = "memory" THEN try
            ELSE [try EXCEPT ![a] = [Answer(@) EXCEPT !.again = TRUE]]
  /\ UNCHANGED <<clock, configured, memory, local>>

\* The loop of SlidingWindowLimiter.allow ends after k calls of popleft.
Popped(events, k, threshold) ==
  /\ \A i \in 1 .. k : events[i] <= threshold
  /\ k < Len(events) => events[k + 1] > threshold

\* SlidingWindowLimiter.allow: at once where there is no Redis, after an exception of
\* eval where there is - whether or not the script has run.
Fallback(a) ==
  \E w \in Workers, ahead \in 0 .. Spread : \E k \in 0 .. Len(memory[w]) :
    LET kept == SubSeq(memory[w], k + 1, Len(memory[w]))
        full == Len(kept) >= Limit
    IN /\ \/ try[a] = Idle
          \/ try[a].by = "redis" /\ clock <= try[a].sent + Lag /\ ahead = 0
       /\ IF configured THEN Fault ELSE UNCHANGED faults /\ ahead = 0
       /\ Popped(memory[w], k, clock - Window)
       /\ memory' = [memory EXCEPT ![w] = IF full THEN kept ELSE Append(kept, clock)]
       /\ local' = [local EXCEPT ![w] = IF full THEN @ ELSE @ \cup {a}]
       /\ try' = [try EXCEPT ![a] =
                   [by |-> "memory", worker |-> w, at |-> clock, again |-> FALSE,
                    sent |-> IF @ = Idle THEN clock ELSE @.sent,
                    now |-> IF @ = Idle THEN clock + ahead ELSE @.now,
                    verdict |-> IF full THEN "refuse" ELSE "pass",
                    retry |-> IF full THEN RetryAfter(Head(kept), clock) ELSE 0]]
       /\ UNCHANGED <<clock, configured, zset, expires, counted>>

\* A worker is restarted and its memory is gone.
Restart(w) == /\ Fault
              /\ memory[w] # <<>>
              /\ memory' = [memory EXCEPT ![w] = <<>>]
              /\ local' = [local EXCEPT ![w] = {}]
              /\ UNCHANGED <<clock, configured, zset, expires, try, counted>>

Tick == /\ clock < MaxTime
        /\ \E a \in Attempts : try[a] # Idle
        /\ clock' = clock + 1
        /\ UNCHANGED <<configured, faults, zset, expires, memory, try, counted, local>>

Next == \/ \E a \in Attempts : AllowRedis(a) \/ Repeat(a) \/ Fallback(a)
        \/ \E w \in Workers : Restart(w)
        \/ Tick

Spec == Init /\ [][Next]_vars

-----------------------------------------------------------------------------
(***************************************************************************)
(* Properties                                                              *)
(***************************************************************************)

CountedSince(t) == {a \in Attempts : counted[a] # Never /\ counted[a] > t}
LocalSince(w, t) == {a \in local[w] : try[a].at > t}

\* All workers together let at most Limit attempts pass through Redis in a window, as
\* exactly as their clocks agree and their commands are on time; and a worker lets at
\* most Limit pass in a window while it counts in its own memory.
AtMostLimit ==
  /\ Cardinality(CountedSince(clock - (Window - Spread - Lag))) <= Limit
  /\ \A w \in Workers : Cardinality(LocalSince(w, clock - Window)) <= Limit

Refuses(a) == try'[a].verdict = "refuse" /\ try'[a] # try[a]

\* A refusal has a cause: Limit other attempts that were let pass within a window - what
\* was itself refused does not prolong the waiting of the next.  Only where the answer was
\* lost and the script ran again may the attempt be one of the Limit itself.
RefusalIsDue ==
  [][\A a \in Attempts : Refuses(a) =>
       IF try'[a].by = "redis"
       THEN Limit <= Cardinality({b \in CountedSince(clock - (Window + Spread + Lag)) :
                                    b # a \/ try'[a].again})
       ELSE Limit <= Cardinality(LocalSince(try'[a].worker, clock - Window))]_vars

\* Who waits as long as Retry-After says (and as the clocks may differ) is refused again
\* only if somebody else used the free place.
RetryIsEnough ==
  [][\A a, b \in Attempts :
       /\ Refuses(a)
       /\ try[b].verdict = "refuse" /\ try[b].by = try'[a].by
       => IF try[b].by = "redis"
          THEN try'[a].sent >= try[b].at + try[b].retry * Second + Spread
               => \E c \in Attempts : counted[c] >= try[b].at
          ELSE try'[a].worker = try[b].worker /\ clock >= try[b].at + try[b].retry * Second
               => LocalSince(try[b].worker, try[b].at - 1) # {}]_vars
=============================================================================
