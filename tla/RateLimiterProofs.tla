------------------------- MODULE RateLimiterProofs -------------------------
(***************************************************************************)
(* Proofs about the rate limiter, for every number of attempts and workers, *)
(* every limit, window and difference of the clocks: a window lets at most *)
(* Limit attempts pass, a refusal is due, and who waits as long as         *)
(* Retry-After says is refused only if somebody took the place.            *)
(***************************************************************************)
EXTENDS RateLimiter, FiniteSetTheorems, SequenceTheorems, WellFoundedInduction, TLAPS

-----------------------------------------------------------------------------
(***************************************************************************)
(* The inductive invariant                                                 *)
(***************************************************************************)

\* What is recorded of an attempt that was counted.
Entry(a) == [score |-> try[a].now, member |-> Member(a, try[a].now)]

CountedOnes == {a \in Attempts : counted[a] # Never}

\* The clocks are ahead by Spread at most, and whoever decides has a worker.
Read ==
  \A a \in Attempts : try[a] # Idle =>
    /\ try[a].sent <= clock /\ try[a].at <= clock
    /\ try[a].sent <= try[a].now /\ try[a].now <= try[a].sent + Spread
    /\ try[a].by \in {"redis", "memory"}
    /\ try[a].by = "memory" => try[a].worker \in Workers

\* An attempt is counted Lag after the reading at most, and stays in the set, under a
\* key that lives, until no script that may still run has a window with it.
Recorded ==
  \A a \in CountedOnes :
    /\ try[a] # Idle
    /\ try[a].sent <= counted[a] /\ counted[a] <= try[a].sent + Lag /\ counted[a] <= clock
    /\ counted[a] + Window <= expires
    /\ try[a].now > clock + Spread - Window => Entry(a) \in zset

\* The set holds attempts that were counted, one entry for each, and never too many.
Genuine == zset \subseteq {Entry(a) : a \in CountedOnes}

Small == /\ IsFiniteSet(CountedOnes)
         /\ IsFiniteSet(zset)
         /\ Cardinality(zset) <= Limit

\* What a worker let pass itself was decided there.
OwnDecisions ==
  \A w \in Workers : /\ IsFiniteSet(local[w])
                     /\ \A a \in local[w] : try[a].by = "memory" /\ try[a].worker = w

\* The deque of a worker ends with the attempts it let pass in the window, whatever
\* part of the window is looked at.
Remembered(w, t) ==
  LET n == Cardinality(LocalSince(w, t))
  IN /\ n <= Len(memory[w])
     /\ \A i \in 1 .. Len(memory[w]) : memory[w][i] > t <=> i > Len(memory[w]) - n

Deques ==
  \A w \in Workers : /\ Len(memory[w]) <= Limit
                     /\ \A i \in 1 .. Len(memory[w]) : memory[w][i] <= clock
                     /\ \A t \in (clock - Window) .. (clock - 1) : Remembered(w, t)

\* As long as nobody was counted since a refusal, there is a place, or the entry that
\* Retry-After was computed from is in the set.
RedisRefusals ==
  \A b \in Attempts :
    /\ try[b].verdict = "refuse" /\ try[b].by = "redis"
    /\ \A c \in Attempts : counted[c] < try[b].at
    => \/ Cardinality(zset) < Limit
       \/ \E e \in zset : e.score + Window < try[b].at + try[b].retry * Second + Spread

MemoryRefusals ==
  \A b \in Attempts :
    LET w == try[b].worker
    IN /\ try[b].verdict = "refuse" /\ try[b].by = "memory"
       /\ LocalSince(w, try[b].at - 1) = {}
       => \/ Len(memory[w]) < Limit
          \/ memory[w][1] + Window < try[b].at + try[b].retry * Second

IInv == /\ TypeOK
        /\ Read /\ Recorded /\ Genuine /\ Small
        /\ OwnDecisions /\ Deques
        /\ RedisRefusals /\ MemoryRefusals

-----------------------------------------------------------------------------
(***************************************************************************)
(* Lemmas on the constants and the operators                               *)
(***************************************************************************)

LEMMA Consts ==
  /\ Window \in Nat /\ Window > 0
  /\ Second \in Nat /\ Second > 0
  /\ Limit \in Nat /\ Limit > 0
  /\ Spread \in Nat /\ Lag \in Nat /\ NFaults \in Nat /\ MaxTime \in Nat
<1>1. WindowSeconds * Second \in Nat /\ WindowSeconds * Second > 0
  BY WindowAssumption
<1>2. QED
  BY <1>1, LimitAssumption, WindowAssumption, ClockAssumption, FaultsAssumption DEF Window

\* Who waits for Retry-After has waited until the oldest event has left the window.
LEMMA RetryAfterIs ==
  ASSUME NEW oldest \in Int, NEW now \in Int
  PROVE  /\ RetryAfter(oldest, now) \in Nat
         /\ oldest + Window < now + RetryAfter(oldest, now) * Second
<1> DEFINE x == oldest + Window - now
           wait == x \div Second + 1
<1>1. x \in Int /\ Second \in Nat \ {0}
  BY Consts
<1>2. wait \in Int /\ x < wait * Second
  <2> HIDE DEF x
  <2>1. QED
    BY <1>1
<1>3. RetryAfter(oldest, now) = IF wait < 1 THEN 1 ELSE wait
  BY DEF RetryAfter
<1> HIDE DEF wait
<1>4. CASE wait < 1
  <2>1. wait <= 0
    BY <1>2, <1>4
  <2>2. wait * Second <= 0
    BY <1>1, <1>2, <2>1
  <2>3. x < 1 * Second
    BY <1>1, <1>2, <2>2
  <2>4. QED
    BY <1>1, <1>3, <1>4, <2>3, Consts
<1>5. CASE ~ (wait < 1)
  <2>1. RetryAfter(oldest, now) = wait /\ wait \in Nat
    BY <1>2, <1>3, <1>5
  <2>2. wait * Second \in Int
    BY <1>1, <1>2
  <2>3. oldest + Window < now + wait * Second
    BY <1>1, <1>2, <2>2, Consts
  <2>4. QED
    BY <2>1, <2>3
<1>6. QED
  BY <1>4, <1>5

\* A set of numbers that is not empty has a least element.
LEMMA LeastOf ==
  ASSUME NEW S, S \subseteq Nat, S # {}
  PROVE  \E s \in S : \A u \in S : s <= u
<1>1. PICK s \in S : \A u \in S : ~ (<<u, s>> \in OpToRel(<, Nat))
  BY NatLessThanWellFounded, WFMin, Zenon
<1>2. \A u \in S : s \in Nat /\ u \in Nat => ~ (u < s)
  BY <1>1, Zenon DEF OpToRel
<1>3. QED
  BY <1>2

LEMMA OldestIs ==
  ASSUME NEW kept \in SUBSET zset, TypeOK, kept # {}
  PROVE  \E e \in kept : e.score = Oldest(kept)
<1> DEFINE S == {e.score : e \in kept}
<1>1. S \subseteq Nat /\ S # {}
  BY DEF TypeOK
<1>2. PICK s \in S : \A u \in S : s <= u
  BY <1>1, LeastOf
<1>3. \A e \in kept : s <= e.score
  BY <1>2
<1>4. Oldest(kept) \in S
  BY <1>3 DEF Oldest
<1>5. QED
  BY <1>4

LEMMA TrimmedIs ==
  ASSUME TypeOK, Small, NEW now
  PROVE  /\ Trimmed(now) \subseteq zset
         /\ IsFiniteSet(Trimmed(now))
         /\ Cardinality(Trimmed(now)) \in Nat
         /\ Cardinality(Trimmed(now)) >= Limit
              => Trimmed(now) = zset /\ zset # {} /\ Cardinality(zset) = Limit
<1>1. Trimmed(now) \in SUBSET zset
  BY DEF Trimmed
<1>2. /\ IsFiniteSet(Trimmed(now)) /\ Cardinality(Trimmed(now)) <= Cardinality(zset)
      /\ Cardinality(zset) = Cardinality(Trimmed(now)) => zset = Trimmed(now)
  BY <1>1, FS_Subset DEF Small
<1>3. Cardinality(Trimmed(now)) \in Nat /\ Cardinality(zset) \in Nat
  BY <1>2, FS_CardinalityType DEF Small
<1>4. ASSUME Cardinality(Trimmed(now)) >= Limit
      PROVE  Trimmed(now) = zset /\ zset # {} /\ Cardinality(zset) = Limit
  <2>1. Cardinality(zset) = Limit /\ Cardinality(Trimmed(now)) = Limit
    BY <1>2, <1>3, <1>4, Consts DEF Small
  <2>2. zset # {}
    BY <2>1, Consts, FS_EmptySet
  <2>3. QED
    BY <1>2, <2>1, <2>2
<1>5. QED
  BY <1>1, <1>2, <1>3, <1>4

\* What was counted lately is still in the set when the script runs.
LEMMA KeptEntry ==
  ASSUME TypeOK, Recorded, Read,
         NEW now \in Nat, now <= clock + Spread,
         NEW b \in CountedOnes, try[b].now > clock + Spread - Window
  PROVE  Entry(b) \in Trimmed(now)
<1>1. /\ b \in Attempts /\ try[b] \in Try /\ counted[b] \in Nat
      /\ clock \in Nat /\ expires \in Nat
      /\ try[b].now \in Nat /\ try[b].sent \in Nat
  BY DEF TypeOK, Try, CountedOnes
<1>2. /\ try[b].sent <= counted[b] /\ counted[b] + Window <= expires
      /\ try[b].now <= try[b].sent + Spread
      /\ Entry(b) \in zset
  BY <1>1 DEF Recorded, Read
<1>3. clock < expires
  BY <1>1, <1>2, Consts
<1>4. Entry(b).score = try[b].now
  BY DEF Entry
<1>5. Entry(b).score > now - Window
  BY <1>1, <1>4, Consts
<1>6. QED
  BY <1>2, <1>3, <1>5 DEF Trimmed

\* The uuid tells the entries of the attempts apart.
LEMMA EntryIs ==
  ASSUME NEW b
  PROVE  Entry(b).score = try[b].now /\ Entry(b).member[2] = b
BY DEF Entry, Member

-----------------------------------------------------------------------------
(***************************************************************************)
(* The initial states, and an execution of the script                      *)
(***************************************************************************)

LEMMA InitIInv == Init => IInv
<1> SUFFICES ASSUME Init PROVE IInv
  OBVIOUS
<1>1. \A w \in Workers : memory[w] = <<>> /\ local[w] = {}
  BY DEF Init
<1>2. \A a \in Attempts : try[a] = Idle /\ counted[a] = Never
  BY DEF Init
<1>3. Idle \in Try /\ Idle.by = "nobody"
  BY DEF Idle, Try
<1>4. TypeOK
  <2>1. memory \in [Workers -> Seq(Nat)]
    BY DEF Init
  <2>2. try \in [Attempts -> Try]
    BY <1>3 DEF Init
  <2>3. clock \in Nat /\ faults \in 0 .. NFaults /\ expires \in Nat
    BY Consts DEF Init
  <2>4. QED
    BY <2>1, <2>2, <2>3 DEF Init, TypeOK
<1>5. Read /\ CountedOnes = {}
  BY <1>2 DEF Read, CountedOnes
<1>6. Recorded /\ Genuine
  BY <1>5 DEF Recorded, Genuine, Init
<1>7. Small
  <2>1. IsFiniteSet(zset) /\ Cardinality(zset) = 0
    BY FS_EmptySet DEF Init
  <2>2. QED
    BY <1>5, <2>1, Consts, FS_EmptySet DEF Small
<1>8. OwnDecisions
  BY <1>1, FS_EmptySet DEF OwnDecisions
<1>9. Deques
  <2>1. ASSUME NEW w \in Workers, NEW t PROVE Remembered(w, t)
    <3>1. LocalSince(w, t) = {}
      BY <1>1 DEF LocalSince
    <3>2. Cardinality(LocalSince(w, t)) = 0 /\ Len(memory[w]) = 0
      BY <1>1, <3>1, FS_EmptySet
    <3>3. QED
      BY <3>2 DEF Remembered
  <2>2. QED
    BY <1>1, <2>1, Consts DEF Deques
<1>10. RedisRefusals /\ MemoryRefusals
  BY <1>2, <1>3 DEF RedisRefusals, MemoryRefusals
<1>11. QED
  BY <1>4, <1>5, <1>6, <1>7, <1>8, <1>9, <1>10 DEF IInv

\* One execution of the script for attempt a, read at sent as now, whether the first or
\* another; t is what is known of the attempt afterwards.
Executes(a, sent, now, t) ==
  /\ sent <= clock /\ clock <= sent + Lag
  /\ sent <= now /\ now <= sent + Spread
  /\ try[a] # Idle => try[a].sent = sent /\ try[a].now = now
  /\ RunScript(a, now)
  /\ try' = [try EXCEPT ![a] = t]
  /\ t \in Try /\ t.sent = sent /\ t.now = now
  /\ \/ t = try[a] /\ t.by = "memory"
     \/ /\ t.by = "redis" /\ t.at = clock
        /\ try[a].by # "memory"
        /\ try[a] = Idle \/ t.again
        /\ IF Cardinality(Trimmed(now)) >= Limit
           THEN t.verdict = "refuse" /\ t.retry = RetryAfter(Oldest(Trimmed(now)), now)
           ELSE t.verdict = "pass"
  /\ faults' \in 0 .. NFaults
  /\ UNCHANGED <<clock, configured, memory, local>>

\* What the script answers is of the type of the attempts.
LEMMA AnswerIs ==
  ASSUME TypeOK, Small, NEW t \in Try
  PROVE  /\ Answer(t) \in Try
         /\ Answer(t).by = "redis" /\ Answer(t).at = clock
         /\ Answer(t).sent = t.sent /\ Answer(t).now = t.now
         /\ Answer(t).again = t.again
         /\ IF Cardinality(Trimmed(t.now)) >= Limit
            THEN /\ Answer(t).verdict = "refuse"
                 /\ Answer(t).retry = RetryAfter(Oldest(Trimmed(t.now)), t.now)
            ELSE Answer(t).verdict = "pass"
<1>1. t.now \in Nat /\ clock \in Nat
  BY DEF Try, TypeOK
<1>2. PICK full \in BOOLEAN : full <=> Cardinality(Trimmed(t.now)) >= Limit
  <2>1. Cardinality(Trimmed(t.now)) >= Limit \/ ~ (Cardinality(Trimmed(t.now)) >= Limit)
    OBVIOUS
  <2>2. QED
    BY <2>1, Zenon
<1>3. PICK retry : retry = IF full THEN RetryAfter(Oldest(Trimmed(t.now)), t.now) ELSE 0
  OBVIOUS
<1>4. retry \in Nat
  <2>1. CASE full
    <3>1. Trimmed(t.now) \in SUBSET zset /\ Trimmed(t.now) # {}
      BY <1>1, <1>2, <2>1, TrimmedIs
    <3>2. PICK e \in Trimmed(t.now) : e.score = Oldest(Trimmed(t.now))
      BY <3>1, OldestIs
    <3>3. e.score \in Nat
      BY <3>1 DEF TypeOK
    <3>4. RetryAfter(e.score, t.now) \in Nat
      <4>1. PICK o \in Int : o = e.score
        BY <3>3
      <4>2. PICK n \in Int : n = t.now
        BY <1>1
      <4>3. RetryAfter(o, n) \in Nat
        BY RetryAfterIs
      <4>4. QED
        BY <4>1, <4>2, <4>3, Zenon
    <3>5. QED
      BY <1>3, <2>1, <3>2, <3>4
  <2>2. CASE ~ full
    BY <1>3, <2>2
  <2>3. QED
    BY <2>1, <2>2
<1>5. Answer(t) = [t EXCEPT !.by = "redis", !.at = clock,
                            !.verdict = IF full THEN "refuse" ELSE "pass",
                            !.retry = retry]
  BY <1>2, <1>3, Zenon DEF Answer
<1>6. QED
  BY <1>1, <1>2, <1>3, <1>4, <1>5 DEF Try

LEMMA AllowRedisExecutes ==
  ASSUME IInv, NEW a \in Attempts, AllowRedis(a)
  PROVE  \E sent, now \in Nat : \E t : Executes(a, sent, now, t)
<1>1. PICK sent \in {t \in 0 .. clock : clock <= t + Lag}, ahead \in 0 .. Spread :
        /\ try[a] = Idle
        /\ RunScript(a, sent + ahead)
        /\ try' = [try EXCEPT ![a] = Answer([Idle EXCEPT !.sent = sent, !.now = sent + ahead])]
        /\ UNCHANGED <<clock, configured, faults, memory, local>>
  BY DEF AllowRedis
<1>2. PICK now : now = sent + ahead
  OBVIOUS
<1>3. /\ sent \in Nat /\ now \in Nat /\ clock \in Nat
      /\ sent <= clock /\ clock <= sent + Lag /\ sent <= now /\ now <= sent + Spread
  BY <1>1, <1>2, Consts DEF IInv, TypeOK
<1>4. PICK u : u = [Idle EXCEPT !.sent = sent, !.now = now]
  OBVIOUS
<1>5. u \in Try /\ u.sent = sent /\ u.now = now
  BY <1>3, <1>4 DEF Idle, Try
<1>6. PICK t : t = Answer(u)
  OBVIOUS
<1>7. /\ t \in Try /\ t.by = "redis" /\ t.at = clock /\ t.sent = sent /\ t.now = now
      /\ IF Cardinality(Trimmed(now)) >= Limit
         THEN t.verdict = "refuse" /\ t.retry = RetryAfter(Oldest(Trimmed(now)), now)
         ELSE t.verdict = "pass"
  <2>1. TypeOK /\ Small
    BY DEF IInv
  <2>2. /\ Answer(u) \in Try
        /\ Answer(u).by = "redis" /\ Answer(u).at = clock
        /\ Answer(u).sent = u.sent /\ Answer(u).now = u.now
        /\ IF Cardinality(Trimmed(u.now)) >= Limit
           THEN /\ Answer(u).verdict = "refuse"
                /\ Answer(u).retry = RetryAfter(Oldest(Trimmed(u.now)), u.now)
           ELSE Answer(u).verdict = "pass"
    BY <1>5, <2>1, AnswerIs
  <2>3. QED
    BY <1>5, <1>6, <2>2
<1>8. try' = [try EXCEPT ![a] = t] /\ RunScript(a, now)
  BY <1>1, <1>2, <1>4, <1>6
<1>9. faults' \in 0 .. NFaults /\ try[a].by # "memory"
  BY <1>1 DEF IInv, TypeOK, Idle
<1>10. Executes(a, sent, now, t)
  BY <1>1, <1>3, <1>7, <1>8, <1>9 DEF Executes
<1>11. QED
  BY <1>3, <1>10

LEMMA RepeatExecutes ==
  ASSUME IInv, NEW a \in Attempts, Repeat(a)
  PROVE  \E sent, now \in Nat : \E t : Executes(a, sent, now, t)
<1>1. PICK sent : sent = try[a].sent
  OBVIOUS
<1>2. PICK now : now = try[a].now
  OBVIOUS
<1>3. try[a] \in Try /\ clock \in Nat /\ sent \in Nat /\ now \in Nat
  BY <1>1, <1>2 DEF IInv, TypeOK, Try
<1>4. /\ try[a] # Idle /\ clock <= sent + Lag /\ RunScript(a, now)
      /\ sent <= clock /\ sent <= now /\ now <= sent + Spread
      /\ try[a].by \in {"redis", "memory"}
      /\ UNCHANGED <<clock, configured, memory, local>>
  BY <1>1, <1>2 DEF Repeat, IInv, Read
<1>5. faults' \in 0 .. NFaults
  BY Consts DEF Repeat, Fault, IInv, TypeOK
<1>6. CASE try[a].by = "memory"
  <2>1. try' = [try EXCEPT ![a] = try[a]]
    BY <1>6 DEF Repeat, IInv, TypeOK
  <2>2. Executes(a, sent, now, try[a])
    BY <1>1, <1>2, <1>3, <1>4, <1>5, <1>6, <2>1 DEF Executes
  <2>3. QED
    BY <1>3, <2>2
<1>7. CASE try[a].by # "memory"
  <2>1. PICK u : u = Answer(try[a])
    OBVIOUS
  <2>2. PICK t : t = [u EXCEPT !.again = TRUE]
    OBVIOUS
  <2>3. /\ u \in Try /\ u.by = "redis" /\ u.at = clock /\ u.sent = sent /\ u.now = now
        /\ IF Cardinality(Trimmed(now)) >= Limit
           THEN u.verdict = "refuse" /\ u.retry = RetryAfter(Oldest(Trimmed(now)), now)
           ELSE u.verdict = "pass"
    <3>1. TypeOK /\ Small
      BY DEF IInv
    <3>2. PICK v \in Try : v = try[a]
      BY <1>3
    <3>3. /\ Answer(v) \in Try
          /\ Answer(v).by = "redis" /\ Answer(v).at = clock
          /\ Answer(v).sent = v.sent /\ Answer(v).now = v.now
          /\ IF Cardinality(Trimmed(v.now)) >= Limit
             THEN /\ Answer(v).verdict = "refuse"
                  /\ Answer(v).retry = RetryAfter(Oldest(Trimmed(v.now)), v.now)
             ELSE Answer(v).verdict = "pass"
      BY <3>1, AnswerIs
    <3>4. QED
      BY <1>1, <1>2, <2>1, <3>2, <3>3
  <2>4. /\ t \in Try /\ t.by = u.by /\ t.at = u.at /\ t.sent = u.sent /\ t.now = u.now
        /\ t.verdict = u.verdict /\ t.retry = u.retry /\ t.again = TRUE
    BY <2>2, <2>3 DEF Try
  <2>5. try' = [try EXCEPT ![a] = t]
    BY <1>7, <2>1, <2>2 DEF Repeat
  <2>6. Executes(a, sent, now, t)
    BY <1>1, <1>2, <1>3, <1>4, <1>5, <1>7, <2>3, <2>4, <2>5 DEF Executes
  <2>7. QED
    BY <1>3, <2>6
<1>8. QED
  BY <1>6, <1>7

\* A full window stays as it is; otherwise the attempt has its entry.
LEMMA ExecutedIs ==
  ASSUME IInv, NEW a \in Attempts, NEW sent \in Nat, NEW now \in Nat, NEW t,
         Executes(a, sent, now, t)
  PROVE  /\ try' \in [Attempts -> Try] /\ try'[a] = t
         /\ \A b \in Attempts : b # a => try'[b] = try[b]
         /\ \A b \in Attempts :
              try[b] # Idle => try'[b].sent = try[b].sent /\ try'[b].now = try[b].now
         /\ a \in CountedOnes => try[a].sent = sent /\ try[a].now = now
         /\ \/ /\ Cardinality(Trimmed(now)) >= Limit
               /\ zset' = zset /\ expires' = expires /\ counted' = counted
               /\ Trimmed(now) = zset /\ zset # {} /\ Cardinality(zset) = Limit
               /\ t.by = "redis" /\ t.at = clock
                    => \/ t = try[a]
                       \/ t.verdict = "refuse" /\ t.retry = RetryAfter(Oldest(zset), now)
            \/ /\ ~ (Cardinality(Trimmed(now)) >= Limit)
               /\ zset' = Trimmed(now) \cup {[score |-> now, member |-> <<now, a>>]}
               /\ expires' = clock + Window
               /\ counted' = [counted EXCEPT ![a] = clock]
               /\ t = try[a] \/ t.verdict = "pass"
<1>1. TypeOK /\ Small /\ Recorded
  BY DEF IInv
<1>2. /\ try' = [try EXCEPT ![a] = t] /\ t \in Try /\ t.sent = sent /\ t.now = now
      /\ try[a] # Idle => try[a].sent = sent /\ try[a].now = now
  BY DEF Executes
<1>3. /\ try' \in [Attempts -> Try] /\ try'[a] = t
      /\ \A b \in Attempts : b # a => try'[b] = try[b]
  BY <1>1, <1>2 DEF TypeOK
<1>4. \A b \in Attempts :
        try[b] # Idle => try'[b].sent = try[b].sent /\ try'[b].now = try[b].now
  BY <1>2, <1>3
<1>5. a \in CountedOnes => try[a].sent = sent /\ try[a].now = now
  BY <1>1, <1>2 DEF Recorded
<1>6. CASE Cardinality(Trimmed(now)) >= Limit
  <2>1. Trimmed(now) = zset /\ zset # {} /\ Cardinality(zset) = Limit
    BY <1>1, <1>6, TrimmedIs
  <2>2. zset' = Trimmed(now) /\ expires' = expires /\ counted' = counted
    BY <1>6 DEF Executes, RunScript, After
  <2>3. \/ t = try[a]
        \/ t.verdict = "refuse" /\ t.retry = RetryAfter(Oldest(Trimmed(now)), now)
    BY <1>6 DEF Executes
  <2>4. QED
    BY <1>3, <1>4, <1>5, <1>6, <2>1, <2>2, <2>3
<1>7. CASE ~ (Cardinality(Trimmed(now)) >= Limit)
  <2>1. /\ zset' = Trimmed(now) \cup {[score |-> now, member |-> <<now, a>>]}
        /\ expires' = clock + Window
        /\ counted' = [counted EXCEPT ![a] = clock]
    BY <1>7 DEF Executes, RunScript, After, Member
  <2>2. t = try[a] \/ t.verdict = "pass"
    BY <1>7 DEF Executes
  <2>3. QED
    BY <1>3, <1>4, <1>5, <1>7, <2>1, <2>2
<1>8. QED
  BY <1>6, <1>7

LEMMA ExecutesIInv ==
  ASSUME IInv, NEW a \in Attempts, NEW sent \in Nat, NEW now \in Nat, NEW t,
         Executes(a, sent, now, t)
  PROVE  IInv'
<1> DEFINE Full == Cardinality(Trimmed(now)) >= Limit
           E == [score |-> now, member |-> <<now, a>>]
<1>1. /\ TypeOK /\ Read /\ Recorded /\ Genuine /\ Small
      /\ OwnDecisions /\ Deques /\ RedisRefusals /\ MemoryRefusals
  BY DEF IInv
<1>2. /\ clock \in Nat /\ expires \in Nat
      /\ sent <= clock /\ clock <= sent + Lag
      /\ sent <= now /\ now <= sent + Spread /\ now <= clock + Spread
      /\ clock' = clock /\ configured' = configured /\ memory' = memory /\ local' = local
      /\ faults' \in 0 .. NFaults
      /\ t \in Try /\ t.sent = sent /\ t.now = now
  BY <1>1, Consts DEF Executes, TypeOK
<1>3. /\ try' \in [Attempts -> Try] /\ try'[a] = t
      /\ \A b \in Attempts : b # a => try'[b] = try[b]
      /\ \A b \in Attempts :
           try[b] # Idle => try'[b].sent = try[b].sent /\ try'[b].now = try[b].now
      /\ a \in CountedOnes => try[a].sent = sent /\ try[a].now = now
  BY ExecutedIs
<1>4. \/ t = try[a] /\ t.by = "memory"
      \/ t.by = "redis" /\ t.at = clock /\ try[a].by # "memory"
  BY DEF Executes
<1>5. ASSUME Full
      PROVE  /\ zset' = zset /\ expires' = expires /\ counted' = counted
             /\ Trimmed(now) = zset /\ zset # {}
             /\ t = try[a] \/ t.retry = RetryAfter(Oldest(zset), now)
  <2>1. (t.by = "redis" /\ t.at = clock) \/ t = try[a]
    BY <1>4
  <2>2. QED
    BY <1>5, <2>1, ExecutedIs
<1>6. ASSUME ~ Full
      PROVE  /\ zset' = Trimmed(now) \cup {E}
             /\ expires' = clock + Window
             /\ counted' = [counted EXCEPT ![a] = clock]
             /\ t = try[a] \/ t.verdict = "pass"
  BY <1>6, ExecutedIs
<1>7. E \in [score : Nat, member : Nat \X Attempts]
  OBVIOUS
<1>8. /\ Trimmed(now) \subseteq zset /\ IsFiniteSet(Trimmed(now))
      /\ Cardinality(Trimmed(now)) \in Nat
  BY <1>1, TrimmedIs
<1> HIDE DEF Full, E
<1>9. counted' \in [Attempts -> Nat \cup {Never}] /\ counted \in [Attempts -> Nat \cup {Never}]
  BY <1>1, <1>2, <1>5, <1>6 DEF TypeOK
<1>10. /\ CountedOnes \subseteq CountedOnes' /\ CountedOnes' \subseteq CountedOnes \cup {a}
       /\ \A b \in CountedOnes : b # a => counted'[b] = counted[b]
       /\ Full => CountedOnes' = CountedOnes
       /\ ~ Full => a \in CountedOnes' /\ counted'[a] = clock
  BY <1>2, <1>5, <1>6, <1>9 DEF CountedOnes, Never
<1>11. TypeOK'
  <2>1. zset' \subseteq [score : Nat, member : Nat \X Attempts]
    BY <1>1, <1>5, <1>6, <1>7, <1>8 DEF TypeOK
  <2>2. expires' \in Nat
    BY <1>2, <1>5, <1>6, Consts
  <2>3. QED
    BY <1>1, <1>2, <1>3, <1>9, <2>1, <2>2 DEF TypeOK
<1>12. t.by \in {"redis", "memory"} /\ t # Idle
  BY <1>4 DEF Idle
<1>13. Read'
  <2> SUFFICES ASSUME NEW b \in Attempts, try'[b] # Idle
               PROVE  /\ try'[b].sent <= clock /\ try'[b].at <= clock
                      /\ try'[b].sent <= try'[b].now /\ try'[b].now <= try'[b].sent + Spread
                      /\ try'[b].by \in {"redis", "memory"}
                      /\ try'[b].by = "memory" => try'[b].worker \in Workers
    BY <1>2 DEF Read
  <2>1. CASE try'[b] = try[b]
    BY <1>1, <2>1 DEF Read
  <2>2. CASE try'[b] # try[b]
    <3>1. b = a /\ t.by = "redis" /\ t.at = clock
      BY <1>3, <1>4, <2>2
    <3>2. QED
      BY <1>2, <1>3, <3>1
  <2>3. QED
    BY <2>1, <2>2
<1>14. \A b \in CountedOnes : Entry(b)' = Entry(b)
  <2>1. ASSUME NEW b \in CountedOnes PROVE try'[b].now = try[b].now
    BY <1>1, <1>3 DEF Recorded, CountedOnes
  <2>2. QED
    BY <2>1 DEF Entry, Member
<1>15. Entry(a)' = E
  BY <1>2, <1>3 DEF Entry, Member, E
<1>16. Recorded'
  <2> SUFFICES ASSUME NEW b \in CountedOnes'
               PROVE  /\ try'[b] # Idle
                      /\ try'[b].sent <= counted'[b] /\ counted'[b] <= try'[b].sent + Lag
                      /\ counted'[b] <= clock
                      /\ counted'[b] + Window <= expires'
                      /\ try'[b].now > clock + Spread - Window => Entry(b)' \in zset'
    BY <1>2 DEF Recorded
  <2>1. b \in Attempts /\ try'[b] # Idle
    BY <1>1, <1>3, <1>10, <1>12 DEF CountedOnes, Recorded
  <2>2. CASE b = a /\ ~ Full
    <3>1. counted'[b] = clock /\ expires' = clock + Window /\ try'[b].sent = sent
      BY <1>2, <1>3, <1>6, <1>10, <2>2
    <3>2. Entry(b)' \in zset'
      BY <1>6, <1>15, <2>2
    <3>3. QED
      BY <1>2, <2>1, <3>1, <3>2, Consts
  <2>3. CASE b # a \/ Full
    <3>1. b \in CountedOnes /\ counted'[b] = counted[b] /\ counted[b] \in Nat
      BY <1>5, <1>9, <1>10, <2>3 DEF CountedOnes
    <3>2. try'[b].sent = try[b].sent /\ try'[b].now = try[b].now
      BY <1>1, <1>3, <3>1 DEF Recorded, CountedOnes
    <3>3. /\ try[b].sent <= counted[b] /\ counted[b] <= try[b].sent + Lag
          /\ counted[b] <= clock /\ counted[b] + Window <= expires
          /\ try[b].now > clock + Spread - Window => Entry(b) \in zset
      BY <1>1, <3>1 DEF Recorded
    <3>4. counted[b] + Window <= expires'
      BY <1>2, <1>5, <1>6, <3>1, <3>3, Consts
    <3>5. ASSUME try[b].now > clock + Spread - Window PROVE Entry(b)' \in zset'
      <4>1. Entry(b) \in Trimmed(now)
        BY <1>1, <1>2, <3>1, <3>5, KeptEntry
      <4>2. QED
        BY <1>5, <1>6, <1>14, <3>1, <4>1
    <3>6. QED
      BY <2>1, <3>1, <3>2, <3>3, <3>4, <3>5
  <2>4. QED
    BY <2>2, <2>3
<1>17. Genuine'
  <2> SUFFICES ASSUME NEW e \in zset'
               PROVE  \E b \in CountedOnes' : e = Entry(b)'
    BY DEF Genuine
  <2>1. CASE e \in zset
    BY <1>1, <1>10, <1>14, <2>1 DEF Genuine
  <2>2. CASE e \notin zset
    <3>1. ~ Full /\ e = E
      BY <1>5, <1>6, <1>8, <2>2
    <3>2. QED
      BY <1>10, <1>15, <3>1
  <2>3. QED
    BY <2>1, <2>2
<1>18. Small'
  <2>1. IsFiniteSet(CountedOnes')
    <3>1. IsFiniteSet(CountedOnes \cup {a})
      BY <1>1, FS_AddElement DEF Small
    <3>2. CountedOnes' \in SUBSET (CountedOnes \cup {a})
      BY <1>10
    <3>3. QED
      BY <3>1, <3>2, FS_Subset
  <2>2. CASE Full
    BY <1>1, <1>5, <2>1, <2>2 DEF Small
  <2>3. CASE ~ Full
    <3>1. /\ IsFiniteSet(Trimmed(now) \cup {E})
          /\ Cardinality(Trimmed(now) \cup {E}) <= Cardinality(Trimmed(now)) + 1
      BY <1>8, FS_AddElement
    <3>2. Cardinality(Trimmed(now)) + 1 <= Limit
      BY <1>8, <2>3, Consts DEF Full
    <3>3. Cardinality(Trimmed(now) \cup {E}) \in Nat
      BY <3>1, FS_CardinalityType
    <3>4. IsFiniteSet(zset') /\ Cardinality(zset') <= Limit
      BY <1>6, <1>8, <2>3, <3>1, <3>2, <3>3, Consts
    <3>5. QED
      BY <2>1, <3>4 DEF Small
  <2>4. QED
    BY <2>2, <2>3
<1>19. ASSUME NEW b \in Attempts, try'[b] # try[b]
       PROVE  b = a /\ t.by = "redis" /\ t.at = clock /\ try[a].by # "memory"
  BY <1>3, <1>4, <1>19
<1>20. \A w \in Workers : \A b \in local[w] : b \in Attempts /\ try'[b] = try[b]
  BY <1>1, <1>19 DEF OwnDecisions, TypeOK
<1>21. OwnDecisions'
  BY <1>1, <1>2, <1>20 DEF OwnDecisions
<1>22. \A w \in Workers : \A u : LocalSince(w, u)' = LocalSince(w, u)
  BY <1>2, <1>20 DEF LocalSince
<1>23. Deques'
  <2>1. \A w \in Workers : \A u : Remembered(w, u)' <=> Remembered(w, u)
    BY <1>2, <1>22 DEF Remembered
  <2>2. QED
    BY <1>1, <1>2, <2>1 DEF Deques
<1>24. RedisRefusals'
  <2> SUFFICES ASSUME NEW b \in Attempts,
                      try'[b].verdict = "refuse", try'[b].by = "redis",
                      \A c \in Attempts : counted'[c] < try'[b].at
               PROVE  \/ Cardinality(zset') < Limit
                      \/ \E e \in zset' :
                           e.score + Window < try'[b].at + try'[b].retry * Second + Spread
    BY DEF RedisRefusals
  <2>1. CASE try'[b] = try[b] /\ Full
    BY <1>1, <1>5, <2>1 DEF RedisRefusals
  <2>2. CASE try'[b] = try[b] /\ ~ Full
    <3>1. try[b] # Idle
      BY <2>2 DEF Idle
    <3>2. try[b].at <= clock /\ try[b].at \in Nat
      BY <1>1, <3>1 DEF Read, TypeOK, Try
    <3>3. clock < try[b].at
      BY <1>10, <2>2
    <3>4. QED
      BY <1>2, <3>2, <3>3
  <2>3. CASE try'[b] # try[b]
    <3>1. b = a /\ t.at = clock /\ try'[b] = t /\ t # try[a]
      BY <1>3, <1>19, <2>3
    <3>2. Full
      BY <1>6, <3>1
    <3>3. t.retry = RetryAfter(Oldest(zset), now) /\ zset' = zset /\ zset # {}
      BY <1>5, <3>1, <3>2
    <3>4. PICK e \in zset : e.score = Oldest(zset)
      BY <1>1, <3>3, OldestIs
    <3>5. PICK o \in Nat : o = e.score
      BY <1>1 DEF TypeOK
    <3>6. PICK r : r = RetryAfter(o, now)
      OBVIOUS
    <3>7. r \in Nat /\ o + Window < now + r * Second
      BY <3>6, RetryAfterIs
    <3>8. r = try'[b].retry
      BY <3>1, <3>3, <3>4, <3>5, <3>6
    <3>9. o + Window < clock + r * Second + Spread
      <4>1. r * Second \in Int
        BY <3>7, Consts
      <4>2. QED
        BY <1>2, <3>7, <4>1, Consts
    <3>10. QED
      BY <3>1, <3>3, <3>5, <3>8, <3>9
  <2>4. QED
    BY <2>1, <2>2, <2>3
<1>25. MemoryRefusals'
  <2> SUFFICES ASSUME NEW b \in Attempts,
                      try'[b].verdict = "refuse", try'[b].by = "memory",
                      {c \in local[try'[b].worker] : try'[c].at > try'[b].at - 1} = {}
               PROVE  \/ Len(memory[try'[b].worker]) < Limit
                      \/ memory[try'[b].worker][1] + Window
                           < try'[b].at + try'[b].retry * Second
    BY <1>2 DEF MemoryRefusals, LocalSince
  <2>1. try'[b] = try[b]
    BY <1>3, <1>19
  <2>2. try[b] # Idle
    BY <2>1 DEF Idle
  <2>3. try[b].worker \in Workers
    BY <1>1, <2>1, <2>2 DEF Read
  <2>4. LocalSince(try[b].worker, try[b].at - 1) = {}
    BY <1>20, <2>1, <2>3 DEF LocalSince
  <2>5. QED
    BY <1>1, <2>1, <2>4 DEF MemoryRefusals
<1>26. QED
  BY <1>11, <1>13, <1>16, <1>17, <1>18, <1>21, <1>23, <1>24, <1>25 DEF IInv

\* What RefusalIsDue says of a step.
RefusalsAreDue ==
  \A a \in Attempts : Refuses(a) =>
    IF try'[a].by = "redis"
    THEN Limit <= Cardinality({b \in CountedSince(clock - (Window + Spread + Lag)) :
                                 b # a \/ try'[a].again})
    ELSE Limit <= Cardinality(LocalSince(try'[a].worker, clock - Window))

\* What RetryIsEnough says of a step.
RetriesAreEnough ==
  \A a, b \in Attempts :
    /\ Refuses(a)
    /\ try[b].verdict = "refuse" /\ try[b].by = try'[a].by
    => IF try[b].by = "redis"
       THEN try'[a].sent >= try[b].at + try[b].retry * Second + Spread
            => \E c \in Attempts : counted[c] >= try[b].at
       ELSE try'[a].worker = try[b].worker /\ clock >= try[b].at + try[b].retry * Second
            => LocalSince(try[b].worker, try[b].at - 1) # {}

\* Who is refused by the script was refused by a full window.
LEMMA RefusedByScript ==
  ASSUME IInv, NEW a \in Attempts, NEW sent \in Nat, NEW now \in Nat, NEW t,
         Executes(a, sent, now, t), NEW c \in Attempts, Refuses(c)
  PROVE  /\ c = a /\ try'[c] = t /\ t.by = "redis" /\ t.sent = sent
         /\ try[a] = Idle \/ t.again
         /\ Trimmed(now) = zset /\ Cardinality(zset) = Limit
<1>1. try'[a] = t /\ \A b \in Attempts : b # a => try'[b] = try[b]
  BY ExecutedIs
<1>2. c = a /\ t.verdict = "refuse" /\ t # try[a]
  BY <1>1 DEF Refuses
<1>3. t.by = "redis" /\ (try[a] = Idle \/ t.again) /\ t.sent = sent
  BY <1>2 DEF Executes
<1>4. Trimmed(now) = zset /\ Cardinality(zset) = Limit
  BY <1>2, ExecutedIs
<1>5. QED
  BY <1>1, <1>2, <1>3, <1>4

LEMMA ExecutesIsDue ==
  ASSUME IInv, NEW a \in Attempts, NEW sent \in Nat, NEW now \in Nat, NEW t,
         Executes(a, sent, now, t)
  PROVE  RefusalsAreDue
<1> SUFFICES ASSUME NEW c \in Attempts, Refuses(c)
             PROVE  IF try'[c].by = "redis"
                    THEN Limit <= Cardinality(
                           {b \in CountedSince(clock - (Window + Spread + Lag)) :
                              b # c \/ try'[c].again})
                    ELSE Limit <= Cardinality(LocalSince(try'[c].worker, clock - Window))
  BY DEF RefusalsAreDue
<1> DEFINE Others == {b \in CountedSince(clock - (Window + Spread + Lag)) :
                        b # c \/ try'[c].again}
           Attempt == [e \in zset |-> e.member[2]]
<1>1. /\ c = a /\ try'[c] = t /\ t.by = "redis"
      /\ try[a] = Idle \/ t.again
      /\ Trimmed(now) = zset /\ Cardinality(zset) = Limit
  BY RefusedByScript
<1>2. /\ TypeOK /\ Read /\ Recorded /\ Genuine /\ Small
      /\ clock \in Nat /\ clock <= sent + Lag /\ sent <= now
  BY DEF IInv, TypeOK, Executes
<1>3. ASSUME NEW e \in zset
      PROVE  \E b \in Others : e = Entry(b) /\ e.member[2] = b
  <2>1. PICK b \in CountedOnes : e = Entry(b)
    BY <1>2 DEF Genuine
  <2>2. e.score = try[b].now /\ e.member[2] = b
    BY <2>1, EntryIs
  <2>3. e.score > now - Window
    BY <1>1 DEF Trimmed
  <2>4. /\ b \in Attempts /\ try[b] # Idle /\ try[b] \in Try /\ counted[b] \in Nat
        /\ counted[b] # Never
        /\ try[b].sent <= counted[b] /\ try[b].now <= try[b].sent + Spread
    BY <1>2 DEF CountedOnes, Recorded, Read, TypeOK
  <2>5. try[b].sent \in Nat /\ try[b].now \in Nat
    BY <2>4 DEF Try
  <2>6. counted[b] > clock - (Window + Spread + Lag)
    BY <1>2, <2>2, <2>3, <2>4, <2>5, Consts
  <2>7. b # c \/ try'[c].again
    BY <1>1, <2>4
  <2>8. b \in Others
    BY <2>4, <2>6, <2>7 DEF CountedSince
  <2>9. QED
    BY <2>1, <2>2, <2>8
<1>4. IsFiniteSet(Others)
  <2>1. Others \in SUBSET CountedOnes
    BY DEF CountedSince, CountedOnes
  <2>2. QED
    BY <1>2, <2>1, FS_Subset DEF Small
<1>5. Limit <= Cardinality(Others)
  <2> HIDE DEF Others
  <2>1. Attempt \in Injection(zset, Others)
    <3>1. \A e \in zset : Attempt[e] \in Others /\ e = Entry(Attempt[e])
      BY <1>3
    <3>2. \A e, f \in zset : Attempt[e] = Attempt[f] => e = f
      BY <3>1
    <3>3. Attempt \in [zset -> Others]
      BY <3>1
    <3>4. QED
      <4> HIDE DEF Attempt
      <4>1. QED
        BY <3>2, <3>3 DEF Injection, IsInjective
  <2>2. Cardinality(zset) <= Cardinality(Others)
    <3> HIDE DEF Attempt
    <3>1. QED
      BY <1>4, <2>1, FS_Injection
  <2>3. QED
    BY <1>1, <2>2
<1>6. QED
  BY <1>1, <1>5

LEMMA ExecutesIsEnough ==
  ASSUME IInv, NEW a \in Attempts, NEW sent \in Nat, NEW now \in Nat, NEW t,
         Executes(a, sent, now, t)
  PROVE  RetriesAreEnough
<1> SUFFICES ASSUME NEW c \in Attempts, NEW b \in Attempts, Refuses(c),
                    try[b].verdict = "refuse", try[b].by = try'[c].by
             PROVE  /\ try[b].by = "redis"
                    /\ try'[c].sent >= try[b].at + try[b].retry * Second + Spread
                         => \E d \in Attempts : counted[d] >= try[b].at
  BY DEF RetriesAreEnough
<1>1. /\ c = a /\ try'[c] = t /\ t.by = "redis" /\ t.sent = sent
      /\ Trimmed(now) = zset /\ Cardinality(zset) = Limit
  BY RefusedByScript
<1>2. TypeOK /\ RedisRefusals /\ sent <= now
  BY DEF IInv, Executes
<1>3. try[b].by = "redis" /\ try'[c].sent = sent
  BY <1>1
<1>4. ASSUME sent >= try[b].at + try[b].retry * Second + Spread,
             \A d \in Attempts : ~ (counted[d] >= try[b].at)
      PROVE  FALSE
  <2>1. PICK at \in Nat, retry \in Nat : at = try[b].at /\ retry = try[b].retry
    BY <1>2 DEF TypeOK, Try
  <2>2. \A d \in Attempts : counted[d] \in Int
    BY <1>2 DEF TypeOK, Never
  <2>3. \A d \in Attempts : counted[d] < try[b].at
    BY <1>4, <2>1, <2>2
  <2>4. \/ Cardinality(zset) < Limit
        \/ \E e \in zset : e.score + Window < try[b].at + try[b].retry * Second + Spread
    BY <1>2, <1>3, <2>3 DEF RedisRefusals
  <2>5. PICK e \in zset : e.score + Window < try[b].at + try[b].retry * Second + Spread
    BY <1>1, <2>4, Consts
  <2>6. e.score > now - Window
    BY <1>1 DEF Trimmed
  <2>7. e.score \in Nat
    BY <1>2 DEF TypeOK
  <2>8. PICK wait \in Int : wait = retry * Second
    BY <2>1, Consts
  <2>9. /\ sent >= at + wait + Spread
        /\ e.score + Window < at + wait + Spread
    BY <1>4, <2>1, <2>5, <2>8
  <2>10. QED
    BY <1>2, <2>6, <2>7, <2>8, <2>9, Consts
<1>5. QED
  BY <1>3, <1>4

-----------------------------------------------------------------------------
(***************************************************************************)
(* A verdict from the memory of a worker                                   *)
(***************************************************************************)

\* The later a window begins, the fewer were let pass in it.
LEMMA SinceIs ==
  ASSUME TypeOK, OwnDecisions, NEW w \in Workers, NEW t \in Int
  PROVE  /\ IsFiniteSet(LocalSince(w, t)) /\ Cardinality(LocalSince(w, t)) \in Nat
         /\ \A u \in Int : u >= t =>
              Cardinality(LocalSince(w, u)) <= Cardinality(LocalSince(w, t))
<1>1. LocalSince(w, t) \in SUBSET local[w]
  BY DEF LocalSince
<1>2. IsFiniteSet(LocalSince(w, t)) /\ Cardinality(LocalSince(w, t)) \in Nat
  BY <1>1, FS_Subset, FS_CardinalityType DEF OwnDecisions
<1>3. ASSUME NEW u \in Int, u >= t
      PROVE  Cardinality(LocalSince(w, u)) <= Cardinality(LocalSince(w, t))
  <2>1. \A a \in local[w] : try[a].at \in Nat
    BY DEF TypeOK, Try
  <2>2. \A a \in local[w] : try[a].at > u => try[a].at > t
    BY <1>3, <2>1
  <2>3. LocalSince(w, u) \in SUBSET LocalSince(w, t)
    BY <2>2 DEF LocalSince
  <2>4. QED
    BY <1>2, <2>3, FS_Subset
<1>4. QED
  BY <1>2, <1>3

\* What the loop of popleft leaves is what the worker let pass in the window; full, it is
\* the deque as it was.
LEMMA PoppedIs ==
  ASSUME TypeOK, OwnDecisions, Deques, NEW w \in Workers, NEW k \in 0 .. Len(memory[w]),
         Popped(memory[w], k, clock - Window)
  PROVE  LET kept == SubSeq(memory[w], k + 1, Len(memory[w]))
         IN /\ kept \in Seq(Nat) /\ Len(kept) = Len(memory[w]) - k
            /\ \A i \in 1 .. Len(kept) : kept[i] = memory[w][i + k]
            /\ Len(memory[w]) \in Nat /\ Len(memory[w]) <= Limit
            /\ Cardinality(LocalSince(w, clock - Window)) = Len(kept)
            /\ Len(kept) >= Limit =>
                 /\ kept = memory[w] /\ k = 0
                 /\ Head(kept) = memory[w][1] /\ memory[w][1] \in Nat
                 /\ memory[w][1] > clock - Window
<1> DEFINE m == memory[w]
           kept == SubSeq(m, k + 1, Len(m))
           n == Cardinality(LocalSince(w, clock - Window))
<1>1. /\ m \in Seq(Nat) /\ Len(m) \in Nat /\ k \in Nat /\ k <= Len(m)
      /\ \A i \in 1 .. Len(m) : m[i] \in Nat
      /\ clock \in Nat
  BY DEF TypeOK
<1>2. /\ Len(m) <= Limit
      /\ n <= Len(m)
      /\ \A i \in 1 .. Len(m) : m[i] > clock - Window <=> i > Len(m) - n
  <2>1. clock - Window \in (clock - Window) .. (clock - 1)
    BY <1>1, Consts
  <2>2. QED
    BY <2>1 DEF Deques, Remembered
<1>3. /\ \A i \in 1 .. k : m[i] <= clock - Window
      /\ k < Len(m) => m[k + 1] > clock - Window
  BY DEF Popped
<1>4. kept \in Seq(Nat) /\ Len(kept) = Len(m) - k
      /\ \A i \in 1 .. Len(m) - k : kept[i] = m[k + 1 + i - 1]
  <2>1. \A i \in k + 1 .. Len(m) : m[i] \in Nat
    BY <1>1
  <2>2. /\ kept \in Seq(Nat)
        /\ Len(kept) = IF k + 1 <= Len(m) THEN Len(m) - (k + 1) + 1 ELSE 0
        /\ \A i \in 1 .. Len(m) - (k + 1) + 1 : kept[i] = m[(k + 1) + i - 1]
    <3> HIDE DEF m
    <3>1. QED
      BY <1>1, <2>1, SubSeqProperties
  <2> HIDE DEF m, kept
  <2>3. QED
    BY <1>1, <2>2
<1>5. n \in Nat
  BY <1>1, SinceIs, Consts
<1> HIDE DEF n
<1>6. n = Len(m) - k
  <2> HIDE DEF m
  <2>1. ASSUME k > 0 PROVE k <= Len(m) - n
    <3>1. k \in 1 .. Len(m) /\ m[k] <= clock - Window /\ m[k] \in Nat
      BY <1>1, <1>3, <2>1
    <3>2. ~ (m[k] > clock - Window)
      BY <1>1, <3>1, Consts
    <3>3. ~ (k > Len(m) - n)
      BY <1>2, <3>1, <3>2
    <3>4. QED
      BY <1>1, <1>5, <3>3
  <2>2. k < Len(m) => k + 1 > Len(m) - n
    <3>1. ASSUME k < Len(m) PROVE k + 1 \in 1 .. Len(m)
      BY <1>1, <3>1
    <3>2. QED
      BY <1>2, <1>3, <3>1
  <2>3. QED
    BY <1>1, <1>2, <1>5, <2>1, <2>2
<1>7. \A i \in 1 .. Len(kept) : kept[i] = m[i + k]
  <2> HIDE DEF m, kept
  <2>1. \A i \in 1 .. Len(kept) : k + 1 + i - 1 = i + k
    BY <1>1, <1>4
  <2>2. QED
    BY <1>4, <2>1
<1>8. ASSUME Len(kept) >= Limit
      PROVE  /\ kept = m /\ k = 0
             /\ Head(kept) = m[1] /\ m[1] \in Nat /\ m[1] > clock - Window
  <2> HIDE DEF m, kept
  <2>1. k = 0 /\ Len(m) > 0 /\ Len(kept) = Len(m)
    BY <1>1, <1>2, <1>4, <1>8, Consts
  <2>2. \A i \in 1 .. Len(kept) : kept[i] = m[i]
    BY <1>1, <1>7, <2>1
  <2>3. kept = m
    BY <1>1, <1>4, <2>1, <2>2, SeqEqual
  <2>4. m[1] \in Nat /\ m[1] > clock - Window
    BY <1>1, <1>3, <2>1
  <2>5. Head(m) = m[1]
    BY <1>1, <2>1
  <2>6. QED
    BY <2>1, <2>3, <2>4, <2>5
<1>9. Cardinality(LocalSince(w, clock - Window)) = Len(kept)
  BY <1>4, <1>6 DEF n
<1>10. QED
  <2> HIDE DEF kept
  <2>1. /\ kept \in Seq(Nat) /\ Len(kept) = Len(memory[w]) - k
        /\ \A i \in 1 .. Len(kept) : kept[i] = memory[w][i + k]
        /\ Len(memory[w]) \in Nat /\ Len(memory[w]) <= Limit
        /\ Len(kept) >= Limit =>
             /\ kept = memory[w] /\ k = 0
             /\ Head(kept) = memory[w][1] /\ memory[w][1] \in Nat
             /\ memory[w][1] > clock - Window
    BY <1>1, <1>2, <1>4, <1>7, <1>8
  <2>2. QED
    BY <1>9, <2>1 DEF kept

\* Worker w decides about attempt a, after k calls of popleft; kept is what they leave of
\* its deque, and t is what is known of the attempt afterwards.
Decides(a, w, k, kept, t) ==
  /\ Len(kept) = Len(memory[w]) - k
  /\ \A i \in 1 .. Len(kept) : kept[i] = memory[w][i + k]
  /\ Cardinality(LocalSince(w, clock - Window)) = Len(kept)
  /\ try[a].by # "memory"
  /\ try' = [try EXCEPT ![a] = t]
  /\ t.by = "memory" /\ t.worker = w /\ t.at = clock
  /\ t.sent <= clock /\ t.sent <= t.now /\ t.now <= t.sent + Spread
  /\ try[a] # Idle => t.sent = try[a].sent /\ t.now = try[a].now
  /\ \/ /\ Len(kept) >= Limit
        /\ k = 0 /\ memory[w][1] \in Nat /\ memory[w][1] > clock - Window
        /\ memory' = memory /\ local' = local
        /\ t.verdict = "refuse" /\ t.retry = RetryAfter(memory[w][1], clock)
     \/ /\ Len(kept) < Limit
        /\ memory' = [memory EXCEPT ![w] = Append(kept, clock)]
        /\ local' = [local EXCEPT ![w] = @ \cup {a}]
        /\ t.verdict = "pass"
  /\ faults' \in 0 .. NFaults
  /\ UNCHANGED <<clock, configured, zset, expires, counted>>

LEMMA FallbackDecides ==
  ASSUME IInv, NEW a \in Attempts, Fallback(a)
  PROVE  \E w \in Workers, k \in Nat, kept \in Seq(Nat), t \in Try : Decides(a, w, k, kept, t)
<1>1. /\ TypeOK /\ Read /\ OwnDecisions /\ Deques
      /\ clock \in Nat /\ try[a] \in Try
      /\ memory \in [Workers -> Seq(Nat)] /\ local \in [Workers -> SUBSET Attempts]
  BY DEF IInv, TypeOK
<1>2. PICK w, ahead, k :
        /\ w \in Workers /\ ahead \in 0 .. Spread /\ k \in 0 .. Len(memory[w])
        /\ LET kept == SubSeq(memory[w], k + 1, Len(memory[w]))
               full == Len(kept) >= Limit
           IN /\ \/ try[a] = Idle
                 \/ try[a].by = "redis" /\ clock <= try[a].sent + Lag /\ ahead = 0
              /\ IF configured THEN Fault ELSE UNCHANGED faults /\ ahead = 0
              /\ Popped(memory[w], k, clock - Window)
              /\ memory' = [memory EXCEPT ![w] = IF full THEN kept ELSE Append(kept, clock)]
              /\ local' = [local EXCEPT ![w] = IF full THEN @ ELSE @ \cup {a}]
              /\ try' = [try EXCEPT ![a] =
                          [by |-> "memory", worker |-> w, at |-> clock, again |-> FALSE,
                           sent |-> IF @ = Idle THEN clock ELSE @.sent,
                           now |-> IF @ = Idle THEN clock + ahead ELSE @.now,
                           verdict |-> IF full THEN "refuse" ELSE "pass",
                           retry |-> IF full THEN RetryAfter(Head(kept), clock) ELSE 0]]
              /\ UNCHANGED <<clock, configured, zset, expires, counted>>
  BY Zenon DEF Fallback
<1> DEFINE kept == SubSeq(memory[w], k + 1, Len(memory[w]))
           full == Len(kept) >= Limit
           t == [by |-> "memory", worker |-> w, at |-> clock, again |-> FALSE,
                 sent |-> IF try[a] = Idle THEN clock ELSE try[a].sent,
                 now |-> IF try[a] = Idle THEN clock + ahead ELSE try[a].now,
                 verdict |-> IF full THEN "refuse" ELSE "pass",
                 retry |-> IF full THEN RetryAfter(Head(kept), clock) ELSE 0]
<1>3. /\ try[a] = Idle \/ try[a].by = "redis"
      /\ IF configured THEN Fault ELSE UNCHANGED faults
      /\ Popped(memory[w], k, clock - Window)
      /\ memory' = [memory EXCEPT ![w] = IF full THEN kept ELSE Append(kept, clock)]
      /\ local' = [local EXCEPT ![w] = IF full THEN @ ELSE @ \cup {a}]
      /\ UNCHANGED <<clock, configured, zset, expires, counted>>
  BY <1>2
<1>4. try' = [try EXCEPT ![a] = t]
  BY <1>2
<1>5. /\ kept \in Seq(Nat) /\ Len(kept) = Len(memory[w]) - k
      /\ \A i \in 1 .. Len(kept) : kept[i] = memory[w][i + k]
      /\ Len(memory[w]) \in Nat /\ Len(memory[w]) <= Limit
      /\ Cardinality(LocalSince(w, clock - Window)) = Len(kept)
      /\ full =>
           /\ kept = memory[w] /\ k = 0
           /\ Head(kept) = memory[w][1] /\ memory[w][1] \in Nat
           /\ memory[w][1] > clock - Window
  BY <1>1, <1>2, <1>3, PoppedIs, Zenon
<1>6. faults' \in 0 .. NFaults
  BY <1>1, <1>3, Consts DEF Fault, TypeOK
<1>7. k \in Nat /\ w \in Workers /\ ahead \in Nat /\ ahead <= Spread
  BY <1>2, <1>5, Consts
<1>8. t.retry \in Nat /\ (full => t.retry = RetryAfter(memory[w][1], clock))
  <2>1. CASE full
    <3>1. PICK o \in Nat : o = memory[w][1]
      BY <1>5, <2>1
    <3>2. RetryAfter(o, clock) \in Nat
      <4>1. PICK n \in Int : n = clock
        BY <1>1
      <4>2. RetryAfter(o, n) \in Nat
        BY RetryAfterIs
      <4>3. QED
        BY <4>1, <4>2, Zenon
    <3>3. t.retry = RetryAfter(Head(kept), clock)
      BY <2>1
    <3>4. QED
      <4> HIDE DEF t
      <4>1. QED
        BY <1>5, <2>1, <3>1, <3>2, <3>3, Zenon
  <2>2. CASE ~ full
    BY <2>2
  <2>3. QED
    BY <2>1, <2>2
<1>9. /\ t.by = "memory" /\ t.worker = w /\ t.at = clock
       /\ t.verdict = IF full THEN "refuse" ELSE "pass"
  OBVIOUS
<1>10. /\ t.sent \in Nat /\ t.now \in Nat /\ t.sent <= clock
       /\ t.sent <= t.now /\ t.now <= t.sent + Spread
       /\ try[a] # Idle => t.sent = try[a].sent /\ t.now = try[a].now
  <2>1. CASE try[a] = Idle
    <3>1. t.sent = clock /\ t.now = clock + ahead
      BY <2>1
    <3>2. QED
      <4> HIDE DEF t
      <4>1. QED
        BY <1>1, <1>7, <2>1, <3>1, Consts
  <2>2. CASE try[a] # Idle
    <3>1. t.sent = try[a].sent /\ t.now = try[a].now
      BY <2>2
    <3>2. QED
      <4> HIDE DEF t
      <4>1. QED
        BY <1>1, <2>2, <3>1 DEF Read, Try
  <2>3. QED
    BY <2>1, <2>2
<1>11. t \in Try
  <2>1. DOMAIN t = {"by", "worker", "at", "again", "sent", "now", "verdict", "retry"}
    OBVIOUS
  <2>2. QED
    BY <1>1, <1>7, <1>8, <1>10 DEF Try
<1> HIDE DEF t, kept
<1>12. try[a].by # "memory"
  BY <1>3 DEF Idle
<1>13. \/ /\ full
          /\ k = 0 /\ memory[w][1] \in Nat /\ memory[w][1] > clock - Window
          /\ memory' = memory /\ local' = local
          /\ t.verdict = "refuse" /\ t.retry = RetryAfter(memory[w][1], clock)
       \/ /\ Len(kept) < Limit
          /\ memory' = [memory EXCEPT ![w] = Append(kept, clock)]
          /\ local' = [local EXCEPT ![w] = @ \cup {a}]
          /\ t.verdict = "pass"
  <2>1. CASE full
    <3>1. memory' = [memory EXCEPT ![w] = memory[w]] /\ local' = [local EXCEPT ![w] = @]
      BY <1>3, <1>5, <2>1
    <3>2. memory' = memory /\ local' = local
      BY <1>1, <3>1
    <3>3. QED
      BY <1>5, <1>8, <1>9, <2>1, <3>2
  <2>2. CASE ~ full
    <3>1. /\ memory' = [memory EXCEPT ![w] = Append(kept, clock)]
          /\ local' = [local EXCEPT ![w] = @ \cup {a}]
          /\ t.verdict = "pass"
      BY <1>3, <1>9, <2>2
    <3>2. Len(kept) < Limit
      BY <1>5, <2>2, Consts
    <3>3. QED
      BY <3>1, <3>2
  <2>3. QED
    BY <2>1, <2>2
<1>14. Decides(a, w, k, kept, t)
  BY <1>3, <1>4, <1>5, <1>6, <1>9, <1>10, <1>12, <1>13 DEF Decides
<1>15. QED
  BY <1>5, <1>7, <1>11, <1>14

\* A deque after popleft and append: what is in it is not later than the last, and the
\* part of it in a window grows by one.
LEMMA DequeIs ==
  ASSUME NEW m \in Seq(Nat), NEW kept \in Seq(Nat), NEW k \in Nat, NEW last \in Nat,
         Len(kept) = Len(m) - k,
         \A i \in 1 .. Len(kept) : kept[i] = m[i + k]
  PROVE  LET l == Append(kept, last)
         IN /\ l \in Seq(Nat) /\ Len(l) = Len(kept) + 1
            /\ (\A i \in 1 .. Len(m) : m[i] <= last) => \A i \in 1 .. Len(l) : l[i] <= last
            /\ \A u \in Int, n \in Nat :
                 /\ u < last /\ n <= Len(kept)
                 /\ \A i \in 1 .. Len(m) : m[i] > u <=> i > Len(m) - n
                 => \A i \in 1 .. Len(l) : l[i] > u <=> i > Len(l) - (n + 1)
<1> DEFINE l == Append(kept, last)
<1>1. /\ Len(m) \in Nat /\ Len(kept) \in Nat
      /\ l \in Seq(Nat) /\ Len(l) = Len(kept) + 1
      /\ l[Len(l)] = last
      /\ \A i \in 1 .. Len(kept) : l[i] = kept[i]
  OBVIOUS
<1> HIDE DEF l
<1>2. \A i \in 1 .. Len(kept) : i + k \in 1 .. Len(m) /\ l[i] = m[i + k]
  BY <1>1
<1>3. \A i \in 1 .. Len(l) : i \in 1 .. Len(kept) \/ i = Len(l)
  BY <1>1
<1>4. ASSUME \A i \in 1 .. Len(m) : m[i] <= last, NEW i \in 1 .. Len(l)
      PROVE  l[i] <= last
  <2>1. CASE i \in 1 .. Len(kept)
    BY <1>2, <1>4, <2>1
  <2>2. CASE i = Len(l)
    BY <1>1, <2>2
  <2>3. QED
    BY <1>3, <1>4, <2>1, <2>2
<1>5. ASSUME NEW u \in Int, NEW n \in Nat, u < last, n <= Len(kept),
             \A i \in 1 .. Len(m) : m[i] > u <=> i > Len(m) - n,
             NEW i \in 1 .. Len(l)
      PROVE  l[i] > u <=> i > Len(l) - (n + 1)
  <2>1. CASE i \in 1 .. Len(kept)
    <3>1. l[i] > u <=> i + k > Len(m) - n
      BY <1>2, <1>5, <2>1
    <3>2. PICK p \in Nat : p = Len(m)
      BY <1>1
    <3>3. Len(l) = p - k + 1
      BY <1>1, <3>2
    <3>4. i \in Nat
      BY <1>1, <2>1
    <3>5. i + k > p - n <=> i > (p - k + 1) - (n + 1)
      BY <3>4
    <3>6. QED
      BY <3>1, <3>2, <3>3, <3>5
  <2>2. CASE i = Len(l)
    BY <1>1, <1>5, <2>2
  <2>3. QED
    BY <1>3, <2>1, <2>2
<1>6. QED
  BY <1>1, <1>4, <1>5 DEF l

LEMMA DecidesIInv ==
  ASSUME IInv, NEW a \in Attempts, NEW w \in Workers, NEW k \in Nat,
         NEW kept \in Seq(Nat), NEW t \in Try, Decides(a, w, k, kept, t)
  PROVE  IInv'
<1> DEFINE Full == Len(kept) >= Limit
<1>1. /\ TypeOK /\ Read /\ Recorded /\ Genuine /\ Small
      /\ OwnDecisions /\ Deques /\ RedisRefusals /\ MemoryRefusals
  BY DEF IInv
<1>2. /\ clock \in Nat /\ expires \in Nat
      /\ memory \in [Workers -> Seq(Nat)] /\ local \in [Workers -> SUBSET Attempts]
      /\ try \in [Attempts -> Try] /\ try' = [try EXCEPT ![a] = t]
      /\ clock' = clock /\ configured' = configured /\ zset' = zset
      /\ expires' = expires /\ counted' = counted
      /\ faults' \in 0 .. NFaults
  BY <1>1 DEF Decides, TypeOK
<1>3. /\ t.by = "memory" /\ t.worker = w /\ t.at = clock
      /\ t.sent <= clock /\ t.sent <= t.now /\ t.now <= t.sent + Spread
      /\ try[a] # Idle => t.sent = try[a].sent /\ t.now = try[a].now
      /\ try[a].by # "memory"
      /\ Len(kept) \in Nat /\ Len(kept) = Len(memory[w]) - k
      /\ \A i \in 1 .. Len(kept) : kept[i] = memory[w][i + k]
      /\ Cardinality(LocalSince(w, clock - Window)) = Len(kept)
  BY DEF Decides
<1>4. ASSUME Full
      PROVE  /\ k = 0 /\ memory[w][1] \in Nat /\ memory[w][1] > clock - Window
             /\ memory' = memory /\ local' = local
             /\ t.verdict = "refuse" /\ t.retry = RetryAfter(memory[w][1], clock)
  BY <1>3, <1>4, Consts DEF Decides
<1>5. ASSUME ~ Full
      PROVE  /\ Len(kept) < Limit
             /\ memory' = [memory EXCEPT ![w] = Append(kept, clock)]
             /\ local' = [local EXCEPT ![w] = @ \cup {a}]
             /\ t.verdict = "pass"
  BY <1>5 DEF Decides
<1> HIDE DEF Full
<1>6. /\ try' \in [Attempts -> Try] /\ try'[a] = t
      /\ \A b \in Attempts : b # a => try'[b] = try[b]
      /\ \A b \in Attempts : try[b] # Idle =>
           /\ try'[b].sent = try[b].sent /\ try'[b].now = try[b].now /\ try'[b] # Idle
  <2>1. t # Idle
    BY <1>3 DEF Idle
  <2>2. QED
    BY <1>2, <1>3, <2>1
<1>7. \A v \in Workers : \A b \in local[v] : b \in Attempts /\ b # a /\ try'[b] = try[b]
  BY <1>1, <1>2, <1>3, <1>6 DEF OwnDecisions
<1>8. TypeOK'
  <2>1. memory' \in [Workers -> Seq(Nat)] /\ local' \in [Workers -> SUBSET Attempts]
    <3>1. Append(kept, clock) \in Seq(Nat)
      BY <1>2
    <3>2. QED
      BY <1>2, <1>4, <1>5, <3>1
  <2>2. QED
    BY <1>1, <1>2, <1>6, <2>1 DEF TypeOK
<1>9. Read'
  BY <1>1, <1>2, <1>3, <1>6 DEF Read
<1>10. CountedOnes' = CountedOnes
  BY <1>2 DEF CountedOnes
<1>11. \A b \in CountedOnes : /\ try'[b] # Idle
                              /\ try'[b].sent = try[b].sent /\ try'[b].now = try[b].now
                              /\ Entry(b)' = Entry(b)
  BY <1>1, <1>6 DEF Recorded, CountedOnes, Entry, Member
<1>12. Recorded'
  BY <1>1, <1>2, <1>10, <1>11 DEF Recorded
<1>13. Genuine' /\ Small'
  BY <1>1, <1>2, <1>10, <1>11 DEF Genuine, Small
<1>14. OwnDecisions'
  <2> SUFFICES ASSUME NEW v \in Workers
               PROVE  /\ IsFiniteSet(local'[v])
                      /\ \A b \in local'[v] : try'[b].by = "memory" /\ try'[b].worker = v
    BY DEF OwnDecisions
  <2>1. CASE local'[v] = local[v]
    BY <1>1, <1>7, <2>1 DEF OwnDecisions
  <2>2. CASE local'[v] # local[v]
    <3>1. v = w /\ local'[v] = local[v] \cup {a}
      BY <1>2, <1>4, <1>5, <2>2
    <3>2. IsFiniteSet(local'[v])
      BY <1>1, <3>1, FS_AddElement DEF OwnDecisions
    <3>3. QED
      BY <1>1, <1>3, <1>6, <1>7, <3>1, <3>2 DEF OwnDecisions
  <2>3. QED
    BY <2>1, <2>2
<1>15. ASSUME NEW v \in Workers, v # w \/ Full
       PROVE  /\ memory'[v] = memory[v]
              /\ \A u : LocalSince(v, u)' = LocalSince(v, u)
  <2>1. memory'[v] = memory[v] /\ local'[v] = local[v]
    BY <1>2, <1>4, <1>5, <1>15
  <2>2. QED
    BY <1>7, <2>1 DEF LocalSince
<1>16. ASSUME ~ Full
       PROVE  /\ memory'[w] = Append(kept, clock)
              /\ \A u \in Int : u < clock =>
                   LocalSince(w, u)' = LocalSince(w, u) \cup {a} /\ a \notin LocalSince(w, u)
  <2>1. memory'[w] = Append(kept, clock) /\ local'[w] = local[w] \cup {a}
    BY <1>2, <1>5, <1>16
  <2>2. ASSUME NEW u \in Int, u < clock
        PROVE  LocalSince(w, u)' = LocalSince(w, u) \cup {a} /\ a \notin LocalSince(w, u)
    <3>1. try'[a].at > u
      BY <1>2, <1>3, <1>6, <2>2
    <3>2. QED
      BY <1>7, <2>1, <3>1 DEF LocalSince
  <2>3. QED
    BY <2>1, <2>2
<1>17. Deques'
  <2> SUFFICES ASSUME NEW v \in Workers
               PROVE  /\ Len(memory'[v]) <= Limit
                      /\ \A i \in 1 .. Len(memory'[v]) : memory'[v][i] <= clock
                      /\ \A u \in (clock - Window) .. (clock - 1) : Remembered(v, u)'
    BY <1>2 DEF Deques
  <2>1. CASE v # w \/ Full
    <3>1. \A u : Remembered(v, u)' <=> Remembered(v, u)
      BY <1>15, <2>1 DEF Remembered
    <3>2. QED
      BY <1>1, <1>15, <2>1, <3>1 DEF Deques
  <2>2. CASE v = w /\ ~ Full
    <3>1. PICK m \in Seq(Nat) : m = memory[w]
      BY <1>2
    <3>2. PICK last \in Nat : last = clock
      BY <1>2
    <3>3. PICK l : l = Append(kept, last)
      OBVIOUS
    <3>4. /\ l \in Seq(Nat) /\ Len(l) = Len(kept) + 1
          /\ (\A i \in 1 .. Len(m) : m[i] <= last) => \A i \in 1 .. Len(l) : l[i] <= last
          /\ \A u \in Int, n \in Nat :
               /\ u < last /\ n <= Len(kept)
               /\ \A i \in 1 .. Len(m) : m[i] > u <=> i > Len(m) - n
               => \A i \in 1 .. Len(l) : l[i] > u <=> i > Len(l) - (n + 1)
      <4>1. Len(kept) = Len(m) - k /\ \A i \in 1 .. Len(kept) : kept[i] = m[i + k]
        BY <1>3, <3>1
      <4>2. QED
        <5>1. LET x == Append(kept, last)
              IN /\ x \in Seq(Nat) /\ Len(x) = Len(kept) + 1
                 /\ (\A i \in 1 .. Len(m) : m[i] <= last)
                      => \A i \in 1 .. Len(x) : x[i] <= last
                 /\ \A u \in Int, n \in Nat :
                      /\ u < last /\ n <= Len(kept)
                      /\ \A i \in 1 .. Len(m) : m[i] > u <=> i > Len(m) - n
                      => \A i \in 1 .. Len(x) : x[i] > u <=> i > Len(x) - (n + 1)
          BY <4>1, DequeIs, Zenon
        <5>2. QED
          BY <3>3, <5>1, Zenon
    <3>5. memory'[v] = l
      BY <1>16, <2>2, <3>2, <3>3
    <3>6. Len(memory'[v]) <= Limit
      BY <1>3, <1>5, <2>2, <3>4, <3>5, Consts
    <3>7. \A i \in 1 .. Len(memory'[v]) : memory'[v][i] <= clock
      BY <1>1, <3>1, <3>2, <3>4, <3>5 DEF Deques
    <3>8. ASSUME NEW u \in (clock - Window) .. (clock - 1)
          PROVE  Remembered(v, u)'
      <4>1. u \in Int /\ u < clock /\ u >= clock - Window /\ clock - Window \in Int
        BY <1>2, Consts
      <4>2. PICK n : n = Cardinality(LocalSince(w, u))
        OBVIOUS
      <4>3. /\ IsFiniteSet(LocalSince(w, u)) /\ n \in Nat
            /\ n <= Cardinality(LocalSince(w, clock - Window))
        BY <1>1, <4>1, <4>2, SinceIs
      <4>4. n <= Len(kept)
        BY <1>3, <4>3
      <4>5. \A i \in 1 .. Len(m) : m[i] > u <=> i > Len(m) - n
        BY <1>1, <3>1, <4>2 DEF Deques, Remembered
      <4>6. Cardinality(LocalSince(w, u)') = n + 1
        <5>1. LocalSince(w, u)' = LocalSince(w, u) \cup {a} /\ a \notin LocalSince(w, u)
          BY <1>16, <2>2, <4>1
        <5>2. QED
          BY <4>2, <4>3, <5>1, FS_AddElement
      <4>7. \A i \in 1 .. Len(l) : l[i] > u <=> i > Len(l) - (n + 1)
        BY <3>2, <3>4, <4>1, <4>3, <4>4, <4>5
      <4>8. n + 1 <= Len(l)
        BY <1>3, <3>4, <4>3, <4>4
      <4>9. QED
        BY <2>2, <3>5, <4>6, <4>7, <4>8 DEF Remembered
    <3>9. QED
      BY <3>6, <3>7, <3>8
  <2>3. QED
    BY <2>1, <2>2
<1>18. RedisRefusals'
  <2>1. \A b \in Attempts : try'[b].by = "redis" => try'[b] = try[b]
    BY <1>3, <1>6
  <2>2. QED
    BY <1>1, <1>2, <2>1 DEF RedisRefusals
<1>19. MemoryRefusals'
  <2> SUFFICES ASSUME NEW b \in Attempts,
                      try'[b].verdict = "refuse", try'[b].by = "memory",
                      {c \in local'[try'[b].worker] : try'[c].at > try'[b].at - 1} = {}
               PROVE  \/ Len(memory'[try'[b].worker]) < Limit
                      \/ memory'[try'[b].worker][1] + Window
                           < try'[b].at + try'[b].retry * Second
    BY DEF MemoryRefusals, LocalSince
  <2>1. CASE b = a
    <3>1. Full /\ try'[b] = t
      BY <1>5, <1>6, <2>1
    <3>2. PICK o \in Nat : o = memory[w][1]
      BY <1>4, <3>1
    <3>3. PICK n \in Nat : n = clock
      BY <1>2
    <3>4. PICK r : r = RetryAfter(o, n)
      OBVIOUS
    <3>5. r = t.retry /\ o + Window < n + r * Second
      <4>1. o + Window < n + RetryAfter(o, n) * Second
        BY RetryAfterIs
      <4>2. QED
        BY <1>4, <3>1, <3>2, <3>3, <3>4, <4>1
    <3>6. memory'[w][1] + Window < t.at + t.retry * Second
      BY <1>3, <1>4, <3>1, <3>2, <3>3, <3>5
    <3>7. QED
      BY <1>3, <3>1, <3>6
  <2>2. CASE b # a
    <3>1. try'[b] = try[b] /\ try[b] # Idle /\ try[b] \in Try
      BY <1>2, <1>6, <2>2 DEF Idle
    <3>2. try[b].worker \in Workers /\ try[b].at <= clock /\ try[b].at \in Nat
      BY <1>1, <3>1 DEF Read, Try
    <3>3. CASE try[b].worker = w /\ ~ Full
      <4>1. a \in local'[w] /\ try'[a].at = clock
        BY <1>2, <1>3, <1>5, <1>6, <3>3
      <4>2. clock > try[b].at - 1
        BY <1>2, <3>2
      <4>3. QED
        BY <3>1, <3>3, <4>1, <4>2
    <3>4. CASE try[b].worker # w \/ Full
      <4>1. PICK v \in Workers : v = try[b].worker
        BY <3>2
      <4>2. memory'[v] = memory[v] /\ local'[v] = local[v]
        BY <1>2, <1>4, <1>5, <3>4, <4>1
      <4>3. LocalSince(v, try[b].at - 1) = {}
        BY <1>7, <3>1, <4>1, <4>2 DEF LocalSince
      <4>4. QED
        BY <1>1, <3>1, <4>1, <4>2, <4>3 DEF MemoryRefusals
    <3>5. QED
      BY <3>3, <3>4
  <2>3. QED
    BY <2>1, <2>2
<1>20. QED
  BY <1>8, <1>9, <1>12, <1>13, <1>14, <1>17, <1>18, <1>19 DEF IInv

LEMMA DecidesIsDue ==
  ASSUME IInv, NEW a \in Attempts, NEW w \in Workers, NEW k \in Nat,
         NEW kept \in Seq(Nat), NEW t \in Try, Decides(a, w, k, kept, t)
  PROVE  RefusalsAreDue /\ RetriesAreEnough
<1>1. TypeOK /\ Deques /\ MemoryRefusals /\ clock \in Nat
  BY DEF IInv, TypeOK
<1>2. /\ try'[a] = t /\ \A b \in Attempts : b # a => try'[b] = try[b]
      /\ t.by = "memory" /\ t.worker = w
  BY <1>1 DEF Decides, TypeOK
<1>3. ASSUME NEW c \in Attempts, Refuses(c)
      PROVE  /\ c = a
             /\ Limit <= Cardinality(LocalSince(w, clock - Window))
             /\ Limit <= Len(memory[w]) /\ Len(memory[w]) \in Nat
             /\ memory[w][1] \in Nat /\ memory[w][1] > clock - Window
  <2>1. c = a /\ t.verdict = "refuse"
    BY <1>2, <1>3 DEF Refuses
  <2>2. /\ Len(kept) >= Limit /\ k = 0 /\ Len(kept) = Len(memory[w]) - k
        /\ memory[w][1] \in Nat /\ memory[w][1] > clock - Window
        /\ Cardinality(LocalSince(w, clock - Window)) = Len(kept)
    BY <2>1 DEF Decides
  <2>3. Len(kept) \in Nat /\ Len(memory[w]) \in Nat
    BY <1>1 DEF TypeOK
  <2>4. QED
    BY <2>1, <2>2, <2>3, Consts
<1>4. RefusalsAreDue
  BY <1>2, <1>3 DEF RefusalsAreDue
<1>5. RetriesAreEnough
  <2> SUFFICES ASSUME NEW c \in Attempts, NEW b \in Attempts, Refuses(c),
                      try[b].verdict = "refuse", try[b].by = try'[c].by
               PROVE  /\ try[b].by = "memory"
                      /\ try'[c].worker = try[b].worker
                         /\ clock >= try[b].at + try[b].retry * Second
                           => LocalSince(try[b].worker, try[b].at - 1) # {}
    BY DEF RetriesAreEnough
  <2>1. /\ c = a /\ Limit <= Len(memory[w]) /\ Len(memory[w]) \in Nat
        /\ memory[w][1] \in Nat /\ memory[w][1] > clock - Window
    BY <1>3
  <2>2. try[b].by = "memory" /\ try'[c].worker = w
    BY <1>2, <2>1
  <2>3. ASSUME try[b].worker = w, clock >= try[b].at + try[b].retry * Second,
               LocalSince(try[b].worker, try[b].at - 1) = {}
        PROVE  FALSE
    <3>1. \/ Len(memory[w]) < Limit
          \/ memory[w][1] + Window < try[b].at + try[b].retry * Second
      BY <1>1, <2>2, <2>3 DEF MemoryRefusals
    <3>2. PICK at \in Nat, retry \in Nat : at = try[b].at /\ retry = try[b].retry
      BY <1>1 DEF TypeOK, Try
    <3>3. PICK wait \in Int : wait = retry * Second
      BY <3>2, Consts
    <3>4. memory[w][1] + Window < at + wait /\ clock >= at + wait
      BY <2>1, <2>3, <3>1, <3>2, <3>3, Consts
    <3>5. QED
      BY <1>1, <2>1, <3>3, <3>4, Consts
  <2>4. QED
    BY <2>2, <2>3
<1>6. QED
  BY <1>4, <1>5

-----------------------------------------------------------------------------
(***************************************************************************)
(* The restart of a worker, and the passing of time                        *)
(***************************************************************************)

LEMMA RestartStep ==
  ASSUME IInv, NEW w \in Workers, Restart(w)
  PROVE  IInv'
<1>1. /\ TypeOK /\ Read /\ Recorded /\ Genuine /\ Small
      /\ OwnDecisions /\ Deques /\ RedisRefusals /\ MemoryRefusals
  BY DEF IInv
<1>2. /\ clock' = clock /\ configured' = configured /\ zset' = zset
      /\ expires' = expires /\ counted' = counted /\ try' = try
      /\ memory' = [memory EXCEPT ![w] = <<>>] /\ local' = [local EXCEPT ![w] = {}]
  BY DEF Restart
<1>3. /\ memory'[w] = <<>> /\ local'[w] = {}
      /\ \A v \in Workers : v # w => memory'[v] = memory[v] /\ local'[v] = local[v]
  BY <1>1, <1>2 DEF TypeOK
<1>4. TypeOK'
  <2>1. faults' \in 0 .. NFaults
    BY <1>1, Consts DEF Restart, Fault, TypeOK
  <2>2. memory' \in [Workers -> Seq(Nat)] /\ local' \in [Workers -> SUBSET Attempts]
    BY <1>1, <1>2 DEF TypeOK
  <2>3. QED
    BY <1>1, <1>2, <2>1, <2>2 DEF TypeOK
<1>5. Read' /\ Recorded' /\ Genuine' /\ Small'
  BY <1>1, <1>2 DEF Read, Recorded, Genuine, Small, CountedOnes, Entry, Member
<1>6. RedisRefusals'
  BY <1>1, <1>2 DEF RedisRefusals
<1>7. OwnDecisions'
  BY <1>1, <1>2, <1>3, FS_EmptySet DEF OwnDecisions
<1>8. \A v \in Workers : v # w => \A u : LocalSince(v, u)' = LocalSince(v, u)
  BY <1>2, <1>3 DEF LocalSince
<1>9. Len(memory'[w]) = 0
  BY <1>3
<1>10. Deques'
  <2> SUFFICES ASSUME NEW v \in Workers
               PROVE  /\ Len(memory'[v]) <= Limit
                      /\ \A i \in 1 .. Len(memory'[v]) : memory'[v][i] <= clock
                      /\ \A u \in (clock - Window) .. (clock - 1) : Remembered(v, u)'
    BY <1>2 DEF Deques
  <2>1. CASE v = w
    <3>1. ASSUME NEW u PROVE Remembered(v, u)'
      <4>1. LocalSince(v, u)' = {}
        BY <1>3, <2>1 DEF LocalSince
      <4>2. Cardinality(LocalSince(v, u)') = 0
        BY <4>1, FS_EmptySet
      <4>3. QED
        BY <1>9, <2>1, <4>2 DEF Remembered
    <3>2. QED
      BY <1>9, <2>1, <3>1, Consts
  <2>2. CASE v # w
    <3>1. \A u : Remembered(v, u)' <=> Remembered(v, u)
      BY <1>3, <1>8, <2>2 DEF Remembered
    <3>2. QED
      BY <1>1, <1>3, <2>2, <3>1 DEF Deques
  <2>3. QED
    BY <2>1, <2>2
<1>11. MemoryRefusals'
  <2> SUFFICES ASSUME NEW b \in Attempts,
                      try[b].verdict = "refuse", try[b].by = "memory",
                      {c \in local'[try[b].worker] : try[c].at > try[b].at - 1} = {}
               PROVE  \/ Len(memory'[try[b].worker]) < Limit
                      \/ memory'[try[b].worker][1] + Window < try[b].at + try[b].retry * Second
    BY <1>2 DEF MemoryRefusals, LocalSince
  <2>1. PICK v \in Workers : v = try[b].worker
    BY <1>1 DEF Read, Idle
  <2>2. CASE v = w
    BY <1>9, <2>1, <2>2, Consts
  <2>3. CASE v # w
    <3>1. LocalSince(v, try[b].at - 1) = {}
      BY <1>3, <2>1, <2>3 DEF LocalSince
    <3>2. QED
      BY <1>1, <1>3, <2>1, <2>3, <3>1 DEF MemoryRefusals
  <2>4. QED
    BY <2>2, <2>3
<1>12. QED
  BY <1>4, <1>5, <1>6, <1>7, <1>10, <1>11 DEF IInv

LEMMA TickStep ==
  ASSUME IInv, Tick
  PROVE  IInv'
<1>1. /\ TypeOK /\ Read /\ Recorded /\ Genuine /\ Small
      /\ OwnDecisions /\ Deques /\ RedisRefusals /\ MemoryRefusals
  BY DEF IInv
<1>2. /\ clock \in Nat /\ clock' = clock + 1
      /\ UNCHANGED <<configured, faults, zset, expires, memory, try, counted, local>>
  BY DEF Tick, IInv, TypeOK
<1>3. TypeOK'
  BY <1>1, <1>2 DEF TypeOK
<1>4. Read'
  <2>1. \A a \in Attempts : try[a].sent \in Nat /\ try[a].at \in Nat
    BY <1>1 DEF TypeOK, Try
  <2>2. QED
    BY <1>1, <1>2, <2>1 DEF Read
<1>5. Recorded'
  <2>1. CountedOnes' = CountedOnes /\ \A a \in Attempts : Entry(a)' = Entry(a)
    BY <1>2 DEF CountedOnes, Entry, Member
  <2>2. \A a \in CountedOnes : a \in Attempts /\ counted[a] \in Nat /\ try[a].now \in Nat
    BY <1>1 DEF CountedOnes, TypeOK, Try
  <2>3. ASSUME NEW a \in CountedOnes
        PROVE  /\ counted[a] <= clock + 1
               /\ try[a].now > clock + 1 + Spread - Window => Entry(a) \in zset
    BY <1>1, <1>2, <2>2, Consts DEF Recorded
  <2>4. QED
    BY <1>1, <1>2, <2>1, <2>2, <2>3 DEF Recorded
<1>6. Genuine' /\ Small'
  BY <1>1, <1>2 DEF Genuine, Small, CountedOnes, Entry, Member
<1>7. OwnDecisions'
  BY <1>1, <1>2 DEF OwnDecisions
<1>8. Deques'
  <2> SUFFICES ASSUME NEW w \in Workers
               PROVE  /\ Len(memory'[w]) <= Limit
                      /\ \A i \in 1 .. Len(memory'[w]) : memory'[w][i] <= clock'
                      /\ \A u \in (clock' - Window) .. (clock' - 1) : Remembered(w, u)'
    BY DEF Deques
  <2>1. /\ Len(memory[w]) <= Limit /\ Len(memory[w]) \in Nat
        /\ \A i \in 1 .. Len(memory[w]) : memory[w][i] <= clock /\ memory[w][i] \in Nat
    BY <1>1 DEF Deques, TypeOK
  <2>2. \A i \in 1 .. Len(memory[w]) : memory[w][i] <= clock + 1
    BY <1>2, <2>1
  <2>3. ASSUME NEW u \in (clock' - Window) .. (clock' - 1)
        PROVE  Remembered(w, u)
    <3>1. CASE u = clock
      <4>1. \A a \in local[w] : a \in Attempts /\ try[a] # Idle
        BY <1>1 DEF OwnDecisions, TypeOK, Idle
      <4>2. \A a \in local[w] : try[a].at <= clock /\ try[a].at \in Nat
        BY <1>1, <4>1 DEF Read, TypeOK, Try
      <4>3. LocalSince(w, u) = {}
        BY <1>2, <3>1, <4>2 DEF LocalSince
      <4>4. Cardinality(LocalSince(w, u)) = 0
        BY <4>3, FS_EmptySet
      <4>5. \A i \in 1 .. Len(memory[w]) :
              ~ (memory[w][i] > u) /\ ~ (i > Len(memory[w]) - 0)
        BY <1>2, <2>1, <3>1
      <4>6. QED
        BY <2>1, <4>4, <4>5 DEF Remembered
    <3>2. CASE u # clock
      <4>1. u \in (clock - Window) .. (clock - 1)
        BY <1>2, <3>2, Consts
      <4>2. QED
        BY <1>1, <4>1 DEF Deques
    <3>3. QED
      BY <3>1, <3>2
  <2>4. \A u : Remembered(w, u)' <=> Remembered(w, u)
    BY <1>2 DEF Remembered, LocalSince
  <2>5. QED
    BY <1>2, <2>1, <2>2, <2>3, <2>4
<1>9. RedisRefusals' /\ MemoryRefusals'
  BY <1>1, <1>2 DEF RedisRefusals, MemoryRefusals, LocalSince
<1>10. QED
  BY <1>3, <1>4, <1>5, <1>6, <1>7, <1>8, <1>9 DEF IInv

-----------------------------------------------------------------------------
(***************************************************************************)
(* The theorems                                                            *)
(***************************************************************************)

\* Every step that is not a restart or a tick is an execution of the script or a decision
\* of a worker.
LEMMA VerdictCases ==
  ASSUME IInv, Next
  PROVE  \/ \E a \in Attempts, sent \in Nat, now \in Nat : \E t : Executes(a, sent, now, t)
         \/ \E a \in Attempts, w \in Workers, k \in Nat, kept \in Seq(Nat), t \in Try :
              Decides(a, w, k, kept, t)
         \/ \E w \in Workers : Restart(w)
         \/ Tick
<1>1. CASE \E a \in Attempts : AllowRedis(a) \/ Repeat(a)
  <2>1. PICK a \in Attempts : AllowRedis(a) \/ Repeat(a)
    BY <1>1
  <2>2. \E sent, now \in Nat : \E t : Executes(a, sent, now, t)
    BY <2>1, AllowRedisExecutes, RepeatExecutes
  <2>3. QED
    BY <2>2
<1>2. CASE \E a \in Attempts : Fallback(a)
  <2>1. PICK a \in Attempts : Fallback(a)
    BY <1>2
  <2>2. \E w \in Workers, k \in Nat, kept \in Seq(Nat), t \in Try : Decides(a, w, k, kept, t)
    BY <2>1, FallbackDecides
  <2>3. QED
    BY <2>2
<1>3. QED
  BY <1>1, <1>2 DEF Next

LEMMA NextIInv == IInv /\ [Next]_vars => IInv'
<1> SUFFICES ASSUME IInv, [Next]_vars PROVE IInv'
  OBVIOUS
<1>1. CASE UNCHANGED vars
  <2>1. TypeOK'
    BY <1>1 DEF vars, IInv, TypeOK
  <2>2. CountedOnes' = CountedOnes /\ \A a \in Attempts : Entry(a)' = Entry(a)
    BY <1>1 DEF vars, CountedOnes, Entry, Member
  <2>3. Read' /\ Recorded' /\ Genuine' /\ Small'
    BY <1>1, <2>2 DEF vars, IInv, Read, Recorded, Genuine, Small, CountedOnes
  <2>4. OwnDecisions' /\ Deques'
    BY <1>1 DEF vars, IInv, OwnDecisions, Deques, Remembered, LocalSince
  <2>5. RedisRefusals' /\ MemoryRefusals'
    BY <1>1 DEF vars, IInv, RedisRefusals, MemoryRefusals, LocalSince
  <2>6. QED
    BY <2>1, <2>3, <2>4, <2>5 DEF IInv
<1>2. CASE Next
  <2>1. ASSUME NEW a \in Attempts, NEW sent \in Nat, NEW now \in Nat, NEW t,
               Executes(a, sent, now, t)
        PROVE  IInv'
    BY <2>1, ExecutesIInv
  <2>2. ASSUME NEW a \in Attempts, NEW w \in Workers, NEW k \in Nat,
               NEW kept \in Seq(Nat), NEW t \in Try, Decides(a, w, k, kept, t)
        PROVE  IInv'
    BY <2>2, DecidesIInv
  <2>3. ASSUME NEW w \in Workers, Restart(w) PROVE IInv'
    BY <2>3, RestartStep
  <2>4. CASE Tick
    BY <2>4, TickStep
  <2>5. QED
    BY <1>2, <2>1, <2>2, <2>3, <2>4, VerdictCases
<1>3. QED
  BY <1>1, <1>2

\* Only the script and the memory of a worker refuse.
LEMMA NextIsDue == IInv /\ [Next]_vars => [RefusalsAreDue /\ RetriesAreEnough]_vars
<1> SUFFICES ASSUME IInv, Next PROVE RefusalsAreDue /\ RetriesAreEnough
  OBVIOUS
<1>1. ASSUME NEW a \in Attempts, NEW sent \in Nat, NEW now \in Nat, NEW t,
             Executes(a, sent, now, t)
      PROVE  RefusalsAreDue /\ RetriesAreEnough
  BY <1>1, ExecutesIsDue, ExecutesIsEnough
<1>2. ASSUME NEW a \in Attempts, NEW w \in Workers, NEW k \in Nat,
             NEW kept \in Seq(Nat), NEW t \in Try, Decides(a, w, k, kept, t)
      PROVE  RefusalsAreDue /\ RetriesAreEnough
  BY <1>2, DecidesIsDue
<1>3. ASSUME try' = try PROVE RefusalsAreDue /\ RetriesAreEnough
  BY <1>3 DEF RefusalsAreDue, RetriesAreEnough, Refuses
<1>4. ASSUME (\E w \in Workers : Restart(w)) \/ Tick PROVE try' = try
  BY <1>4 DEF Restart, Tick
<1>5. QED
  BY <1>1, <1>2, <1>3, <1>4, VerdictCases

\* Both halves of the limit follow from the invariant: who was counted in the window has an
\* entry in the set, and what a worker let pass in the window is in its deque.
LEMMA LimitHolds == IInv => AtMostLimit
<1> SUFFICES ASSUME IInv PROVE AtMostLimit
  OBVIOUS
<1>1. /\ TypeOK /\ Read /\ Recorded /\ Small /\ OwnDecisions /\ Deques /\ clock \in Nat
  BY DEF IInv, TypeOK
<1>2. Cardinality(CountedSince(clock - (Window - Spread - Lag))) <= Limit
  <2> DEFINE S == CountedSince(clock - (Window - Spread - Lag))
             f == [a \in S |-> Entry(a)]
  <2>1. ASSUME NEW a \in S
        PROVE  Entry(a) \in zset
    <3>1. /\ a \in CountedOnes /\ a \in Attempts /\ counted[a] \in Nat
          /\ counted[a] > clock - (Window - Spread - Lag)
      BY <1>1 DEF CountedSince, CountedOnes, TypeOK
    <3>2. /\ try[a] # Idle /\ try[a].sent \in Nat /\ try[a].now \in Nat
          /\ counted[a] <= try[a].sent + Lag /\ try[a].sent <= try[a].now
      BY <1>1, <3>1 DEF Recorded, Read, TypeOK, Try
    <3>3. try[a].now > clock + Spread - Window
      BY <1>1, <3>1, <3>2, Consts
    <3>4. QED
      BY <1>1, <3>1, <3>3 DEF Recorded
  <2>2. \A a, b : Entry(a) = Entry(b) => a = b
    BY DEF Entry, Member
  <2> HIDE DEF S
  <2>3. /\ f \in [S -> zset]
        /\ \A a, b \in S : f[a] = f[b] => a = b
    BY <2>1, <2>2
  <2> HIDE DEF f
  <2>4. f \in Injection(S, zset)
    BY <2>3 DEF Injection, IsInjective
  <2>5. IsFiniteSet(S) /\ Cardinality(S) <= Cardinality(zset)
    BY <1>1, <2>4, FS_Injection DEF Small
  <2>6. Cardinality(S) \in Nat /\ Cardinality(zset) \in Nat /\ Cardinality(zset) <= Limit
    BY <1>1, <2>5, FS_CardinalityType DEF Small
  <2>7. Cardinality(S) <= Limit
    BY <2>5, <2>6, Consts
  <2>8. QED
    BY <2>7 DEF S
<1>3. ASSUME NEW w \in Workers
      PROVE  Cardinality(LocalSince(w, clock - Window)) <= Limit
  <2>1. clock - Window \in (clock - Window) .. (clock - 1) /\ clock - Window \in Int
    BY <1>1, Consts
  <2>2. Cardinality(LocalSince(w, clock - Window)) <= Len(memory[w]) /\ Len(memory[w]) <= Limit
    BY <1>1, <2>1 DEF Deques, Remembered
  <2>3. Cardinality(LocalSince(w, clock - Window)) \in Nat /\ Len(memory[w]) \in Nat
    BY <1>1, <2>1, SinceIs DEF TypeOK
  <2>4. QED
    BY <2>2, <2>3, Consts
<1>4. QED
  BY <1>2, <1>3 DEF AtMostLimit

\* Scripts may be late or run again, clocks differ, Redis fail and workers start anew: all
\* of the invariant holds in every reachable state.
THEOREM Invariance == Spec => []IInv
<1>1. Init => IInv
  BY InitIInv
<1>2. IInv /\ [Next]_vars => IInv'
  BY NextIInv
<1>3. QED
  BY <1>1, <1>2, PTL DEF Spec

\* The set, the deques, the attempts and the histories keep their types.
THEOREM TypeCorrect == Spec => []TypeOK
<1>1. IInv => TypeOK
  BY DEF IInv
<1>2. QED
  BY <1>1, Invariance, PTL

\* No window lets more than Limit attempts pass, for all workers together through Redis
\* and for each by its own memory.
THEOREM WindowIsLimited == Spec => []AtMostLimit
<1>1. QED
  BY LimitHolds, Invariance, PTL

\* Only a full window refuses.
THEOREM RefusalsHaveCause == Spec => RefusalIsDue
<1>1. IInv /\ [Next]_vars => [RefusalsAreDue]_vars
  BY NextIsDue
<1>2. Spec => [][RefusalsAreDue]_vars
  BY <1>1, Invariance, PTL DEF Spec
<1>3. QED
  BY <1>2, PTL DEF RefusalIsDue, RefusalsAreDue

\* Retry-After is long enough.
THEOREM WaitingIsEnough == Spec => RetryIsEnough
<1>1. IInv /\ [Next]_vars => [RetriesAreEnough]_vars
  BY NextIsDue
<1>2. Spec => [][RetriesAreEnough]_vars
  BY <1>1, Invariance, PTL DEF Spec
<1>3. QED
  BY <1>2 DEF RetryIsEnough, RetriesAreEnough
=============================================================================
