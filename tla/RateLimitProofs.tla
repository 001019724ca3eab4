-------------------------- MODULE RateLimitProofs ---------------------------
(* Theorems about RateLimit, for every value of its constants. *)
EXTENDS RateLimit, TLAPS

\* A counted hit is an entry, which started in the past and is not expired.
LEMMA CountedEntry ==
  ASSUME now \in Nat, NEW k \in Key, NEW table \in [Key -> Entry \cup {NoEntry}],
         table[k] # NoEntry => table[k].start <= now
  PROVE  /\ Counted(table, k) \in Entry
         /\ Counted(table, k) # NoEntry
         /\ Counted(table, k).start <= now
         /\ now - Counted(table, k).start < Window[k]
<1> DEFINE current == table[k] # NoEntry /\ now - table[k].start < Window[k]
           old == IF current THEN table[k] ELSE [start |-> now, count |-> 0]
<1>1. /\ old \in Entry /\ old.start <= now /\ now - old.start < Window[k]
  <2>1. CASE current
    BY <2>1 DEF Entry
  <2>2. CASE ~current
    <3>1. now - now < Window[k]
      BY WindowAssumption
    <3> QED BY <2>2, <3>1 DEF Entry
  <2> QED BY <2>1, <2>2
<1>2. Counted(table, k) = [old EXCEPT !.count = @ + 1]
  BY DEF Counted
<1> HIDE DEF old
<1>3. /\ Counted(table, k) \in Entry
      /\ Counted(table, k).start = old.start
  BY <1>1, <1>2 DEF Entry
<1> QED BY <1>1, <1>3, NoEntryAssumption

\* An answer says whether the count is within the limit.
LEMMA AnswerType ==
  ASSUME now \in Nat, NEW k \in Key, NEW e \in Entry, e.start <= now,
         now - e.start < Window[k]
  PROVE  /\ AnswerFor(k, e) \in Answer
         /\ AnswerFor(k, e).allowed <=> e.count <= Limit[k]
<1>1. /\ e.start \in Nat /\ e.count \in Nat
      /\ Window[k] \in Nat /\ Limit[k] \in Nat
  BY WindowAssumption, LimitAssumption DEF Entry
<1>2. Window[k] - (now - e.start) \in Nat
  BY <1>1
<1>3. (Window[k] - (now - e.start)) \div Second \in Nat
  BY <1>2, SecondAssumption
<1>4. RetryAfter(k, e) \in Nat
  BY <1>3 DEF RetryAfter, Larger
<1> QED BY <1>1, <1>4 DEF AnswerFor, Answer

\* A hit counts, prunes and answers.
LEMMA HitInv ==
  ASSUME Inv, NEW k \in Key, Hit(k)
  PROVE  Inv'
<1> DEFINE e == Counted(hits, k)
           table == [hits EXCEPT ![k] = e]
           n == Counted(real, k)
<1>1. /\ now' = now /\ now \in Nat
      /\ hits \in [Key -> Entry \cup {NoEntry}]
      /\ real \in [Key -> Entry \cup {NoEntry}]
      /\ answers \in [Key -> Answer]
  BY DEF Inv, TypeOK, Hit
<1>2. /\ n \in Entry /\ n # NoEntry /\ n.start <= now
      /\ now - n.start < Window[k]
  BY <1>1, CountedEntry DEF Inv, EntriesPast
<1>3. hits[k] # NoEntry => hits[k].start <= now
  BY DEF Inv, EntriesHeld
<1>4. /\ e \in Entry /\ e # NoEntry /\ e.start <= now
      /\ now - e.start < Window[k]
  BY <1>1, <1>3, CountedEntry
<1>5. /\ hits' \in {table, Pruned(table, Window[k])}
      /\ real' = [real EXCEPT ![k] = n]
      /\ answers' = [answers EXCEPT ![k] = AnswerFor(k, e)]
  BY DEF Hit
<1>6. AnswerFor(k, e) \in Answer /\ (AnswerFor(k, e).allowed <=> e.count <= Limit[k])
  BY <1>1, <1>4, AnswerType
<1>7. Shortest(k) => e = n
  <2>1. ASSUME hits[k] = NoEntry, real[k] # NoEntry, Expired(k) PROVE e = n
    <3>1. ~(now - real[k].start < Window[k])
      <4>1. real[k].start \in Nat /\ Window[k] \in Nat
        BY <1>1, <2>1, WindowAssumption DEF Entry
      <4> QED BY <1>1, <2>1, <4>1 DEF Expired
    <3> QED BY <2>1, <3>1 DEF Counted
  <2>2. ASSUME hits[k] = real[k] PROVE e = n
    BY <2>2 DEF Counted
  <2> QED BY <2>1, <2>2 DEF Inv, ShortestKept
<1> HIDE DEF e, n
<1>8. table \in [Key -> Entry \cup {NoEntry}] /\ table[k] = e
      /\ \A j \in Key \ {k} : table[j] = hits[j]
  BY <1>1, <1>4
<1> HIDE DEF table
<1>9. \A j \in Key : /\ hits'[j] \in {table[j], NoEntry}
                     /\ hits'[j] # table[j] => now - table[j].start >= Window[k]
  BY <1>1, <1>5 DEF Pruned
<1>10. hits' \in [Key -> Entry \cup {NoEntry}]
  BY <1>5, <1>8 DEF Pruned
<1>11. TypeOK'
  BY <1>1, <1>2, <1>5, <1>6, <1>10 DEF TypeOK
<1>12. EntriesPast' /\ EntriesHeld'
  BY <1>1, <1>2, <1>4, <1>5, <1>8, <1>9 DEF Inv, EntriesPast, EntriesHeld
<1>13. ShortestKept'
  <2> SUFFICES ASSUME NEW j \in Key, Shortest(j)
               PROVE  hits'[j] = real'[j] \/ (hits'[j] = NoEntry /\ Expired(j)')
    BY DEF ShortestKept, Shortest
  <2>1. table[j] = real'[j] \/ (table[j] = NoEntry /\ Expired(j)')
    BY <1>1, <1>5, <1>7, <1>8 DEF Inv, ShortestKept, Expired
  <2>2. CASE hits'[j] = table[j]
    BY <2>1, <2>2
  <2>3. CASE hits'[j] = NoEntry /\ table[j] # NoEntry
    <3>1. now - real'[j].start >= Window[k]
      BY <1>9, <2>1, <2>3
    <3>2. Window[j] <= Window[k] /\ Window[j] \in Nat /\ Window[k] \in Nat
      BY WindowAssumption DEF Shortest
    <3>3. real'[j].start \in Nat
      BY <1>8, <2>1, <2>3 DEF Entry
    <3>4. now - real'[j].start >= Window[j]
      BY <1>1, <3>1, <3>2, <3>3
    <3> QED BY <1>1, <2>3, <3>4 DEF Expired
  <2> QED BY <1>9, <2>2, <2>3
<1>14. ShortestLimitExact'
  <2> SUFFICES ASSUME NEW j \in Key, Shortest(j)
               PROVE  answers'[j].allowed <=> ~OverLimit(j)'
    BY DEF ShortestLimitExact, Shortest
  <2>1. CASE j = k
    <3>1. real'[k] = n /\ answers'[k] = AnswerFor(k, e)
      BY <1>1, <1>5
    <3>2. n.count \in Nat /\ Limit[k] \in Nat
      BY <1>2, LimitAssumption DEF Entry
    <3> QED BY <1>2, <1>6, <1>7, <2>1, <3>1, <3>2 DEF OverLimit
  <2>2. CASE j # k
    BY <1>1, <1>5, <2>2 DEF Inv, ShortestLimitExact, OverLimit
  <2> QED BY <2>1, <2>2
<1> QED BY <1>11, <1>12, <1>13, <1>14 DEF Inv

\* An empty table is exact.
LEMMA EmptyTable ==
  ASSUME TypeOK', NEW t \in Nat,
         hits' = [k \in Key |-> NoEntry], real' = [k \in Key |-> NoEntry],
         answers' = [k \in Key |-> [allowed |-> TRUE, retry |-> 0, at |-> t]]
  PROVE  Inv'
BY DEF Inv, EntriesPast, EntriesHeld, ShortestKept, Expired, ShortestLimitExact,
       OverLimit

\* The invariant holds initially.
LEMMA InitInv == Init => Inv
<1> SUFFICES ASSUME Init PROVE Inv
  OBVIOUS
<1>1. TypeOK
  BY DEF Init, TypeOK, Answer
<1> QED BY <1>1 DEF Init, Inv, EntriesPast, EntriesHeld, ShortestKept, Expired,
                    ShortestLimitExact, OverLimit

\* Every step keeps the invariant.
LEMMA NextInv == Inv /\ [Next]_vars => Inv'
<1> SUFFICES ASSUME Inv, [Next]_vars PROVE Inv'
  OBVIOUS
<1>1. CASE Restart
  <2>1. TypeOK'
    BY <1>1 DEF Restart, Inv, TypeOK, Answer
  <2> QED BY <1>1, <2>1, EmptyTable DEF Restart, Inv, TypeOK
<1>2. CASE Tick
  <2>1. TypeOK' /\ now' = now + 1 /\ now \in Nat
    BY <1>2 DEF Tick, Inv, TypeOK
  <2>2. \A k \in Key : /\ real[k] # NoEntry => real[k].start \in Nat
                       /\ hits[k] # NoEntry => hits[k].start \in Nat
    BY DEF Inv, TypeOK, Entry
  <2>3. EntriesPast' /\ EntriesHeld'
    BY <1>2, <2>1, <2>2 DEF Tick, Inv, EntriesPast, EntriesHeld
  <2>4. \A k \in Key : Expired(k) => Expired(k)'
    BY <1>2, <2>1, <2>2, WindowAssumption DEF Tick, Expired
  <2>5. ShortestKept' /\ ShortestLimitExact'
    BY <1>2, <2>4 DEF Tick, Inv, ShortestKept, Shortest, ShortestLimitExact, OverLimit
  <2> QED BY <2>1, <2>3, <2>5 DEF Inv
<1>3. ASSUME NEW k \in Key, Hit(k) PROVE Inv'
  BY <1>3, HitInv
<1>4. CASE UNCHANGED vars
  BY <1>4 DEF vars, Inv, TypeOK, EntriesPast, EntriesHeld, ShortestKept, Expired,
              Shortest, ShortestLimitExact, OverLimit
<1> QED BY <1>1, <1>2, <1>3, <1>4 DEF Next

\* The invariant holds in every reachable state.
THEOREM Invariance == Spec => []Inv
BY InitInv, NextInv, PTL DEF Spec

\* Pruning by any caller's window never loses a running count of a key with the
\* shortest window: those keys are limited exactly.
THEOREM ShortestIsExact == Spec => []ShortestLimitExact
<1>1. Inv => ShortestLimitExact
  BY DEF Inv
<1> QED BY <1>1, Invariance, PTL

-----------------------------------------------------------------------------
(* retry_after *)

\* One more than the truncated quotient is enough.
LEMMA TruncatedPlusOne ==
  ASSUME NEW x \in Nat, NEW d \in Nat \ {0}
  PROVE  x \div d \in Nat /\ x < (x \div d + 1) * d
BY SMTT(30)

\* A refusal names at least the rest of the entry's window.
LEMMA RefusalLongEnough ==
  ASSUME now \in Nat, NEW k \in Key, NEW e \in Entry, e.start <= now,
         now - e.start < Window[k], ~AnswerFor(k, e).allowed
  PROVE  now + AnswerFor(k, e).retry * Second >= e.start + Window[k]
<1> DEFINE x == Window[k] - (now - e.start)
           q == x \div Second
<1>1. e.start \in Nat /\ Window[k] \in Nat /\ Second \in Nat \ {0}
  BY WindowAssumption, SecondAssumption DEF Entry
<1>2. x \in Nat /\ now + x = e.start + Window[k]
  BY <1>1
<1> HIDE DEF x
<1>3. q \in Nat /\ x < (q + 1) * Second
  BY <1>1, <1>2, TruncatedPlusOne
<1> HIDE DEF q
<1>4. AnswerFor(k, e).retry = RetryAfter(k, e)
  BY DEF AnswerFor
<1>5. RetryAfter(k, e) = q + 1
  BY <1>3 DEF RetryAfter, Larger, q, x
<1>6. (q + 1) * Second \in Nat
  BY <1>1, <1>3
<1>7. now + (q + 1) * Second >= e.start + Window[k]
  BY <1>1, <1>2, <1>3, <1>6
<1> QED BY <1>4, <1>5, <1>7

\* Whoever waits the whole seconds it was told meets a new window, whatever
\* window and fraction of a second it was refused in.
THEOREM RetryIsEnough == Spec => []RetryEnough
<1>1. Init => RetryEnough
  BY DEF Init, RetryEnough
<1>2. Inv /\ RetryEnough /\ [Next]_vars => RetryEnough'
  <2> SUFFICES ASSUME Inv, RetryEnough, [Next]_vars, NEW j \in Key,
                      ~answers'[j].allowed, hits'[j] # NoEntry
               PROVE  answers'[j].at + answers'[j].retry * Second
                        >= hits'[j].start + Window[j]
    BY DEF RetryEnough
  <2>1. ASSUME NEW k \in Key, Hit(k)
        PROVE  answers'[j].at + answers'[j].retry * Second
                 >= hits'[j].start + Window[j]
    <3> DEFINE e == Counted(hits, k)
               table == [hits EXCEPT ![k] = e]
    <3>1. /\ now \in Nat /\ hits \in [Key -> Entry \cup {NoEntry}]
          /\ answers \in [Key -> Answer]
          /\ hits[k] # NoEntry => hits[k].start <= now
      BY DEF Inv, TypeOK, EntriesHeld
    <3>2. e \in Entry /\ e.start <= now /\ now - e.start < Window[k]
      BY <3>1, CountedEntry
    <3>3. /\ hits' \in {table, Pruned(table, Window[k])}
          /\ answers' = [answers EXCEPT ![k] = AnswerFor(k, e)]
      BY <2>1 DEF Hit
    <3> HIDE DEF e
    <3>4. hits'[j] = table[j]
      BY <3>3 DEF Pruned
    <3>5. CASE j = k
      <4>1. hits'[j] = e /\ answers'[j] = AnswerFor(k, e)
        BY <3>1, <3>3, <3>4, <3>5
      <4>2. AnswerFor(k, e).at = now
        BY DEF AnswerFor
      <4> QED BY <3>1, <3>2, <3>5, <4>1, <4>2, RefusalLongEnough
    <3>6. CASE j # k
      <4>1. hits'[j] = hits[j] /\ answers'[j] = answers[j]
        BY <3>1, <3>3, <3>4, <3>6
      <4> QED BY <4>1 DEF RetryEnough
    <3> QED BY <3>5, <3>6
  <2>2. CASE Restart
    BY <2>2 DEF Restart
  <2>3. CASE Tick \/ UNCHANGED vars
    BY <2>3 DEF Tick, vars, RetryEnough
  <2> QED BY <2>1, <2>2, <2>3 DEF Next
<1> QED BY <1>1, <1>2, Invariance, PTL DEF Spec
=============================================================================
