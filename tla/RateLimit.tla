----------------------------- MODULE RateLimit ------------------------------
(***************************************************************************)
(* The in-memory fixed-window limiter of the sign-in endpoints             *)
(* (utils/ratelimit.py): one table shared by keys of different windows     *)
(* ("reqlink:ip", "verify:ip": a minute; "reqlink:email": an hour), and    *)
(* pruned with the window of whichever call found it too large.            *)
(***************************************************************************)
EXTENDS Naturals, FiniteSets

CONSTANTS
    Key,      \* "reqlink:ip:...", "reqlink:email:...", "verify:ip:..."
    Window,   \* of each key, in ticks of the clock
    Limit,    \* of each key
    Capacity, \* 10 000 entries
    Second,   \* ticks in a second
    MaxTime,  \* bound on the clock
    MaxCount, \* bound on the hits of a key in a window
    NoEntry

ASSUME WindowAssumption == Window \in [Key -> Nat \ {0}]
ASSUME LimitAssumption == Limit \in [Key -> Nat]
ASSUME SecondAssumption == Second \in Nat \ {0}

Entry == [start: Nat, count: Nat]

ASSUME NoEntryAssumption == NoEntry \notin Entry

Answer == [allowed: BOOLEAN, retry: Nat, at: Nat]

VARIABLES
    now,    \* time.monotonic()
    hits,   \* _hits: the entry of each key, if it has one
    real,   \* history: the entry each key would have if none were pruned
    answers \* the last answer to each key

vars == <<now, hits, real, answers>>

Init ==
    /\ now = 0
    /\ hits = [k \in Key |-> NoEntry]
    /\ real = [k \in Key |-> NoEntry]
    /\ answers = [k \in Key |-> [allowed |-> TRUE, retry |-> 0, at |-> 0]]

-----------------------------------------------------------------------------

\* The entry of k after this hit: in its window, or in a new one.
Counted(table, k) ==
    LET current == table[k] # NoEntry /\ now - table[k].start < Window[k]
        old == IF current THEN table[k] ELSE [start |-> now, count |-> 0]
    IN  [old EXCEPT !.count = @ + 1]

\* Variant: any entry is dropped.
PrunedAll(table, window) == [k \in Key |-> NoEntry]

\* _prune: by the caller's window, whatever the entry's own.
Pruned(table, window) ==
    [k \in Key |-> IF table[k] # NoEntry /\ now - table[k].start >= window
                   THEN NoEntry ELSE table[k]]

Size(table) == Cardinality({k \in Key : table[k] # NoEntry})

Larger(m, n) == IF m > n THEN m ELSE n

\* Variant: without the second that makes up for the truncation.
RetryTruncated(k, e) == Larger(1, (Window[k] - (now - e.start)) \div Second)

\* retry_after, in whole seconds: int() truncates.
RetryAfter(k, e) == Larger(1, (Window[k] - (now - e.start)) \div Second + 1)

AnswerFor(k, e) ==
    IF e.count > Limit[k]
    THEN [allowed |-> FALSE, retry |-> RetryAfter(k, e), at |-> now]
    ELSE [allowed |-> TRUE, retry |-> 0, at |-> now]

Hit(k) ==
    LET e == Counted(hits, k)
        table == [hits EXCEPT ![k] = e]
    IN  /\ real[k] # NoEntry => real[k].count < MaxCount
        /\ hits' = IF Size(table) > Capacity THEN Pruned(table, Window[k]) ELSE table
        /\ real' = [real EXCEPT ![k] = Counted(real, k)]
        /\ answers' = [answers EXCEPT ![k] = AnswerFor(k, e)]
        /\ UNCHANGED now

\* The process restarts: its table is in memory only.
Restart ==
    /\ hits' = [k \in Key |-> NoEntry]
    /\ real' = [k \in Key |-> NoEntry]
    /\ answers' = [k \in Key |-> [allowed |-> TRUE, retry |-> 0, at |-> now]]
    /\ UNCHANGED now

Tick ==
    /\ now < MaxTime
    /\ now' = now + 1
    /\ UNCHANGED <<hits, real, answers>>

Next == Restart \/ Tick \/ \E k \in Key : Hit(k)

Spec == Init /\ [][Next]_vars

-----------------------------------------------------------------------------
(* Properties *)

TypeOK ==
    /\ now \in Nat
    /\ hits \in [Key -> Entry \cup {NoEntry}]
    /\ real \in [Key -> Entry \cup {NoEntry}]
    /\ answers \in [Key -> Answer]

Shortest(k) == \A j \in Key : Window[k] <= Window[j]

OverLimit(k) == real[k] # NoEntry /\ real[k].count > Limit[k]

\* The keys of the shortest window (those by IP address) are let past up to
\* their limit and refused beyond it, although every key's hits prune the table.
ShortestLimitExact ==
    \A k \in Key : Shortest(k) => (answers[k].allowed <=> ~OverLimit(k))

\* A refused client that waits retry_after seconds meets a new window: the
\* whole seconds it was told are never too few.
RetryEnough ==
    \A k \in Key :
        ~answers[k].allowed /\ hits[k] # NoEntry =>
            answers[k].at + answers[k].retry * Second >= hits[k].start + Window[k]

-----------------------------------------------------------------------------
(* What is inductive *)

Expired(k) == real[k] = NoEntry \/ now - real[k].start >= Window[k]

\* A key of the shortest window only loses an entry that had expired.
ShortestKept ==
    \A k \in Key : Shortest(k) =>
        hits[k] = real[k] \/ (hits[k] = NoEntry /\ Expired(k))

\* No entry starts in the future.
EntriesPast == \A k \in Key : real[k] # NoEntry => real[k].start <= now

EntriesHeld == \A k \in Key : hits[k] # NoEntry => hits[k].start <= now

Inv ==
    /\ TypeOK
    /\ EntriesPast
    /\ EntriesHeld
    /\ ShortestKept
    /\ ShortestLimitExact
=============================================================================
