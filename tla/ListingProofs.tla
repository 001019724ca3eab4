---------------------------- MODULE ListingProofs ----------------------------
(* Theorems about Listing, for every value of its constants: any finite set  *)
(* of applications, any number of clients and commits, any page size and any *)
(* weeks; and about the percentile of module Metrics.                        *)
EXTENDS Listing, Metrics, FiniteSetTheorems, SequenceTheorems, TLAPS

-----------------------------------------------------------------------------
(* Numbers *)

\* The offsets of two pages are a page apart.
LEMMA OffsetGrows ==
  ASSUME NEW page \in Nat, page >= 1
  PROVE  /\ Offset(page) \in Nat
         /\ Offset(page + 1) = Offset(page) + Limit
         /\ page = 1 => Offset(page) = 0
<1>1. PICK n \in Nat : page = n + 1
  BY SMT
<1>2. Offset(page) = n * Limit /\ Offset(page + 1) = (n + 1) * Limit
  BY <1>1 DEF Offset
<1>3. (n + 1) * Limit = n * Limit + Limit /\ n * Limit \in Nat
  BY LimitAssumption, SMT
<1> QED BY <1>1, <1>2, <1>3, LimitAssumption

\* The last page reaches the total.
LEMMA PagesReachTotal ==
  ASSUME NEW page \in Nat, page >= 1, NEW total \in Nat,
         ~(page < TotalPages(total))
  PROVE  total <= Offset(page) + Limit
<1>1. PICK l \in Nat \ {0} : l = Limit
  BY LimitAssumption
<1>2. PICK k \in Int : k = (total + l - 1) \div l
  BY <1>1, SMT
<1>3. total <= k * l
  BY <1>1, <1>2, SMTT(30)
<1>4. k <= page
  BY <1>1, <1>2 DEF TotalPages
<1>5. k * l <= page * l
  BY <1>1, <1>4, SMTT(30)
<1>6. Offset(page) + l = page * l
  BY <1>1, SMTT(30) DEF Offset
<1>7. k * l \in Int /\ page * l \in Int
  BY <1>1
<1> QED BY <1>1, <1>3, <1>5, <1>6, <1>7

\* Min of two numbers.
LEMMA MinOfTwo ==
  ASSUME NEW m \in Int, NEW n \in Int
  PROVE  Min({m, n}) = IF m <= n THEN m ELSE n
BY DEF Min

\* Days of the trend are in its weeks.
LEMMA TrendIsShort ==
  ASSUME NEW day \in Nat, day >= TrendSince
  PROVE  WeekOf(Today) - WeekOf(day) < Weeks
<1>1. PICK d \in Nat \ {0}, n \in Nat : d = WeekDays /\ n = Weeks - 1
  BY WeekAssumption, SMT
<1>2. Today <= day + n * d
  BY <1>1, DayAssumption, WeekAssumption, SMTT(30) DEF TrendSince
<1>3. PICK q \in Nat : q = day \div d
  BY <1>1, SMT
<1>4. day < (q + 1) * d
  BY <1>1, <1>3, SMTT(30)
<1>5. Today < (q + 1 + n) * d
  <2>1. (q + 1 + n) * d = (q + 1) * d + n * d
    BY <1>1, <1>3, SMTT(30)
  <2>2. (q + 1) * d \in Int /\ n * d \in Int
    BY <1>1, <1>3
  <2> QED BY <1>2, <1>4, <2>1, <2>2, DayAssumption
<1>6. Today \div d < q + 1 + n
  BY <1>1, <1>3, <1>5, DayAssumption, SMTT(30)
<1>7. Today \div d \in Int
  BY <1>1, DayAssumption, SMT
<1> QED BY <1>1, <1>3, <1>6, <1>7, WeekAssumption DEF WeekOf

-----------------------------------------------------------------------------
(* The order of a listing *)

\* What matches is a finite set.
LEMMA ListedFinite ==
  ASSUME NEW rows, NEW f
  PROVE  /\ Listed(rows, f) \subseteq App
         /\ IsFiniteSet(Listed(rows, f))
         /\ Cardinality(Listed(rows, f)) \in Nat
<1>1. Listed(rows, f) \in SUBSET App
  BY DEF Listed
<1> QED BY <1>1, AppAssumption, FS_Subset, FS_CardinalityType

\* So are the rows ahead of one.
LEMMA AheadFinite ==
  ASSUME NEW rows, NEW f, NEW a
  PROVE  /\ IsFiniteSet(Ahead(rows, f, a))
         /\ Cardinality(Ahead(rows, f, a)) \in Nat
<1>1. Ahead(rows, f, a) \in SUBSET Listed(rows, f)
  BY DEF Ahead
<1> QED BY <1>1, ListedFinite, FS_Subset, FS_CardinalityType

\* A sequence of all elements of a finite set, each once.
LEMMA SequenceOfSet ==
  ASSUME NEW S, IsFiniteSet(S), NEW s \in SetToSeqs(S)
  PROVE  /\ s \in Seq(S)
         /\ Len(s) = Cardinality(S)
         /\ Len(s) \in Nat
         /\ \A i \in 1..Len(s) : s[i] \in S
         /\ \A i, j \in 1..Len(s) : s[i] = s[j] => i = j
         /\ \A a \in S : \E i \in 1..Len(s) : s[i] = a
<1>1. Cardinality(S) \in Nat
  BY FS_CardinalityType
<1>2. /\ s \in [1..Cardinality(S) -> S]
      /\ \A i, j \in 1..Cardinality(S) : i # j => s[i] # s[j]
  BY DEF SetToSeqs
<1>3. s \in Seq(S) /\ Len(s) = Cardinality(S)
  BY <1>1, <1>2
<1>4. s \in Injection(1..Cardinality(S), S)
  BY <1>2 DEF Injection, IsInjective
<1>5. Cardinality(1..Cardinality(S)) = Cardinality(S)
  BY <1>1, FS_Interval
<1>6. s \in Surjection(1..Cardinality(S), S)
  BY <1>4, <1>5, FS_Injection
<1>7. \A a \in S : \E i \in 1..Len(s) : s[i] = a
  BY <1>6, <1>3 DEF Surjection
<1> QED BY <1>1, <1>2, <1>3, <1>7

\* The columns of a row.
LEMMA RowFields ==
  ASSUME NEW rows \in [App -> Row], NEW a \in App
  PROVE  rows[a].day \in Nat /\ rows[a].day \in Day /\ rows[a].source \in Source
<1>1. rows[a] \in Row
  OBVIOUS
<1>2. rows[a].day \in Day /\ rows[a].source \in Source
  BY <1>1 DEF Row
<1>3. Day \subseteq Nat
  BY DayAssumption
<1> QED BY <1>2, <1>3

\* Without ties, the place of a row says how many are ahead of it.
LEMMA PlaceIsOffset ==
  ASSUME NEW rows \in [App -> Row], NEW f,
         NEW s \in SetToSeqs(Listed(rows, f)),
         \A i, j \in 1..Len(s) : i < j => rows[s[i]].day >= rows[s[j]].day,
         \A a, b \in Listed(rows, f) : a # b => rows[a].day # rows[b].day,
         NEW i \in 1..Len(s)
  PROVE  Cardinality(Ahead(rows, f, s[i])) = i - 1
<1> DEFINE S == Listed(rows, f)
           A == Ahead(rows, f, s[i])
           front == [k \in 1..(i - 1) |-> s[k]]
<1>1. /\ IsFiniteSet(S) /\ S \subseteq App
      /\ Len(s) \in Nat
      /\ \A k \in 1..Len(s) : s[k] \in S
      /\ \A k, l \in 1..Len(s) : s[k] = s[l] => k = l
      /\ \A a \in S : \E k \in 1..Len(s) : s[k] = a
  <2>1. IsFiniteSet(S) /\ S \subseteq App
    BY ListedFinite
  <2>2. s \in SetToSeqs(S)
    OBVIOUS
  <2> HIDE DEF S
  <2> QED BY <2>1, <2>2, SequenceOfSet
<1>2. \A a \in App : rows[a].day \in Nat
  BY RowFields
<1>3. \A k, l \in 1..Len(s) : k < l => rows[s[k]].day > rows[s[l]].day
  <2> SUFFICES ASSUME NEW k \in 1..Len(s), NEW l \in 1..Len(s), k < l
               PROVE  rows[s[k]].day > rows[s[l]].day
    OBVIOUS
  <2>1. s[k] # s[l] /\ s[k] \in S /\ s[l] \in S
    <3>1. k # l
      BY <1>1
    <3> QED BY <1>1, <3>1
  <2>2. rows[s[k]].day # rows[s[l]].day /\ rows[s[k]].day >= rows[s[l]].day
    <3>1. rows[s[k]].day >= rows[s[l]].day
      OBVIOUS
    <3>2. rows[s[k]].day # rows[s[l]].day
      BY <2>1
    <3> QED BY <3>1, <3>2
  <2>3. rows[s[k]].day \in Nat /\ rows[s[l]].day \in Nat
    BY <1>1, <1>2, <2>1
  <2>4. PICK m \in Nat, n \in Nat : m = rows[s[k]].day /\ n = rows[s[l]].day
    BY <2>3
  <2>5. m > n
    <3>1. m >= n /\ m # n
      BY <2>2, <2>4
    <3> QED BY <3>1
  <2> QED BY <2>4, <2>5
<1>4. i \in Nat /\ i >= 1 /\ i <= Len(s)
  BY <1>1
<1>5. \A k \in 1..(i - 1) : k \in 1..Len(s) /\ s[k] \in A
  <2> SUFFICES ASSUME NEW k \in 1..(i - 1) PROVE k \in 1..Len(s) /\ s[k] \in A
    OBVIOUS
  <2>1. k \in 1..Len(s) /\ k < i
    BY <1>1, <1>4
  <2>2. s[k] \in S /\ rows[s[k]].day > rows[s[i]].day
    BY <1>1, <1>3, <2>1
  <2> QED BY <2>1, <2>2 DEF Ahead
<1>6. \A a \in A : \E k \in 1..(i - 1) : s[k] = a
  <2> SUFFICES ASSUME NEW a \in A PROVE \E k \in 1..(i - 1) : s[k] = a
    OBVIOUS
  <2>1. a \in S /\ rows[a].day > rows[s[i]].day
    BY DEF Ahead
  <2>2. PICK k \in 1..Len(s) : s[k] = a
    BY <1>1, <2>1
  <2>3. rows[s[k]].day \in Nat /\ rows[s[i]].day \in Nat
    BY <1>1, <1>2
  <2>4. PICK m \in Nat, n \in Nat : m = rows[s[k]].day /\ n = rows[s[i]].day
    BY <2>3
  <2>5. m > n
    BY <2>1, <2>2, <2>4
  <2>6. ASSUME k = i PROVE FALSE
    <3>1. m = n
      BY <2>4, <2>6
    <3> QED BY <2>5, <3>1
  <2>7. ASSUME i < k PROVE FALSE
    <3>1. n > m
      BY <1>3, <2>4, <2>7
    <3> QED BY <2>5, <3>1
  <2> QED BY <2>2, <2>6, <2>7, <1>1, <1>4
<1>7. front \in Bijection(1..(i - 1), A)
  <2>1. front \in [1..(i - 1) -> A]
    BY <1>5
  <2>2. \A k, l \in 1..(i - 1) : front[k] = front[l] => k = l
    BY <1>1, <1>5
  <2>3. \A a \in A : \E k \in 1..(i - 1) : front[k] = a
    BY <1>6
  <2> HIDE DEF front
  <2> QED BY <2>1, <2>2, <2>3 DEF Bijection, Injection, Surjection, IsInjective
<1>8. ExistsBijection(1..(i - 1), A)
  BY <1>7 DEF ExistsBijection
<1>9. i - 1 \in Nat
  BY <1>4
<1> QED BY <1>8, <1>9, FS_CountingElements

\* What a page shows of an order.
LEMMA PageContents ==
  ASSUME NEW S, NEW s \in Seq(S), NEW page \in Nat, page >= 1
  PROVE  /\ PageOf(s, page) \in Seq(S)
         /\ \A k \in 1..Len(PageOf(s, page)) :
              /\ Offset(page) + k \in 1..Len(s)
              /\ k <= Limit
              /\ PageOf(s, page)[k] = s[Offset(page) + k]
         /\ \A i \in 1..Len(s) :
              Offset(page) < i /\ i <= Offset(page) + Limit =>
                 i - Offset(page) \in 1..Len(PageOf(s, page))
<1> DEFINE m == Offset(page) + 1
           n == Min({Offset(page) + Limit, Len(s)})
<1>1. Offset(page) \in Nat /\ Limit \in Nat /\ Len(s) \in Nat
  <2>1. Len(s) \in Nat
    OBVIOUS
  <2> QED BY <2>1, OffsetGrows, LimitAssumption
<1>2. n = IF Offset(page) + Limit <= Len(s) THEN Offset(page) + Limit ELSE Len(s)
  BY <1>1, MinOfTwo
<1>3. m \in Int /\ n \in Int
  BY <1>1, <1>2
<1>4. \A i \in m..n : s[i] \in S
  BY <1>1, <1>2
<1>5. PageOf(s, page) = SubSeq(s, m, n)
  BY DEF PageOf
<1> HIDE DEF m, n
<1>6. /\ SubSeq(s, m, n) \in Seq(S)
      /\ Len(SubSeq(s, m, n)) = IF m <= n THEN n - m + 1 ELSE 0
      /\ \A k \in 1..n - m + 1 : SubSeq(s, m, n)[k] = s[m + k - 1]
  BY <1>3, <1>4, SubSeqProperties
<1> DEFINE P == PageOf(s, page)
<1>7. P \in Seq(S) /\ Len(P) = IF m <= n THEN n - m + 1 ELSE 0
  BY <1>5, <1>6
<1>8. \A k \in 1..n - m + 1 : P[k] = s[m + k - 1]
  BY <1>5, <1>6
<1> HIDE DEF P
<1>9. m = Offset(page) + 1
  BY DEF m
<1>10. ASSUME NEW k \in 1..Len(P)
       PROVE  Offset(page) + k \in 1..Len(s) /\ k <= Limit /\ P[k] = s[Offset(page) + k]
  <2>1. k \in 1..n - m + 1
    BY <1>3, <1>7
  <2>2. P[k] = s[m + k - 1]
    BY <1>8, <2>1
  <2>3. m + k - 1 = Offset(page) + k
    BY <1>1, <1>9, <2>1
  <2>4. Offset(page) + k \in 1..Len(s) /\ k <= Limit
    BY <1>1, <1>2, <1>3, <1>9, <2>1
  <2> QED BY <2>2, <2>3, <2>4
<1>11. ASSUME NEW i \in 1..Len(s), Offset(page) < i, i <= Offset(page) + Limit
       PROVE  i - Offset(page) \in 1..Len(P)
  BY <1>1, <1>2, <1>3, <1>7, <1>9, <1>11
<1> QED BY <1>7, <1>10, <1>11 DEF P

-----------------------------------------------------------------------------
(* Rounds *)

\* The fields of a round and of its history.
LEMMA RoundFields ==
  ASSUME NEW x \in Reader, NEW p \in Past
  PROVE  /\ x.pc \in Phase /\ x.kind \in Kind
         /\ x.page \in Nat /\ x.total \in Nat /\ x.seen \in Seq(App)
         /\ x.manual \in Nat /\ x.generated \in Nat
         /\ x.weekly \in [0..(Today \div WeekDays) -> Nat]
         /\ p.stayed \subseteq App /\ p.during \in Nat
         /\ p.came \in BOOLEAN /\ p.left \in BOOLEAN
         /\ p.late \in BOOLEAN /\ p.tied \in BOOLEAN
BY DEF Reader, Past

\* No history.
LEMMA NoPastFields ==
  /\ NoPast \in Past
  /\ NoPast.stayed = {} /\ NoPast.during = 0
  /\ NoPast.came = FALSE /\ NoPast.left = FALSE
  /\ NoPast.late = FALSE /\ NoPast.tied = FALSE
BY DEF NoPast, Past

\* A listing begins.
LEMMA RoundOpens ==
  ASSUME NEW rows, NEW x \in Reader, NEW y \in Reader, NEW p \in Past,
         RoundInv(x, p, rows), x.pc = "idle",
         y.pc = "counting", y.kind = "list", y.page = x.page, y.seen = x.seen
  PROVE  RoundInv(y, p, rows)
<1>1. x.page = 1 /\ x.seen = <<>> /\ p = NoPast
  BY DEF RoundInv, RoundShape
<1>2. ToSet(y.seen) = {} /\ Len(y.seen) = 0
  BY <1>1 DEF ToSet
<1>3. PagesSoFar(y, p, rows)
  BY <1>1, <1>2, NoPastFields DEF PagesSoFar, Began
<1> QED BY <1>1, <1>3, NoPastFields DEF RoundInv, RoundShape

\* A round ends without what was asked for.
LEMMA RoundFails ==
  ASSUME NEW rows, NEW x \in Reader, NEW y \in Reader, NEW p \in Past,
         RoundInv(x, p, rows), y.pc = "done", y.page = x.page,
         y.kind = "failed" \/ (y.kind = "refused" /\ x.pc = "idle")
  PROVE  RoundInv(y, p, rows)
BY DEF RoundInv, RoundShape

\* The headline of the statistics.
LEMMA HeadlineCounts ==
  ASSUME NEW rows, NEW x \in Reader, NEW y \in Reader, NEW p \in Past,
         RoundInv(x, p, rows), x.pc = "idle",
         y.pc = "breakdown", y.kind = "stats", y.page = x.page, y.seen = x.seen,
         y.total = Cardinality(Listed(rows, AnyFilter))
  PROVE  RoundInv(y, p, rows)
<1>1. x.page = 1 /\ x.seen = <<>> /\ p = NoPast
  BY DEF RoundInv, RoundShape
<1>2. PICK n \in Nat : n = Cardinality(Listed(rows, AnyFilter))
  BY ListedFinite
<1>3. y.total = n /\ p.during = 0
  BY <1>1, <1>2, NoPastFields
<1>4. n - n \in -0..0
  BY <1>2
<1>5. FiguresSoFar(y, p, rows)
  BY <1>2, <1>3, <1>4 DEF FiguresSoFar
<1> QED BY <1>1, <1>5 DEF RoundInv, RoundShape

\* The first count of a listing, and what its history starts from.
LEMMA FirstCount ==
  ASSUME NEW rows, NEW x \in Reader, NEW y \in Reader, NEW p \in Past, NEW q \in Past,
         RoundInv(x, p, rows), x.pc = "counting", x.page = 1,
         y.pc = "paging", y.kind = x.kind, y.page = x.page, y.seen = x.seen,
         y.filter = x.filter, y.total = Cardinality(Listed(rows, x.filter)),
         q.stayed = Listed(rows, x.filter)
  PROVE  RoundInv(y, q, rows)
<1>1. x.kind = "list" /\ x.seen = <<>>
  BY DEF RoundInv, RoundShape
<1>2. ToSet(y.seen) = {} /\ Len(y.seen) = 0
  BY <1>1 DEF ToSet
<1>3. Offset(y.page) = 0
  BY OffsetGrows, RoundFields
<1>4. ASSUME NEW a PROVE Cardinality(Ahead(rows, y.filter, a)) >= Offset(y.page)
  <2>1. PICK n \in Nat : n = Cardinality(Ahead(rows, y.filter, a))
    BY AheadFinite
  <2> QED BY <1>3, <2>1
<1>5. Cardinality(Listed(rows, y.filter)) <= y.total
  <2>1. PICK n \in Nat : n = Cardinality(Listed(rows, y.filter))
    BY ListedFinite
  <2> QED BY <2>1
<1>6. PagesSoFar(y, q, rows)
  BY <1>2, <1>4, <1>5 DEF PagesSoFar
<1> QED BY <1>1, <1>6 DEF RoundInv, RoundShape

\* The count of a later page.
LEMMA NextCount ==
  ASSUME NEW rows, NEW x \in Reader, NEW y \in Reader, NEW p \in Past, NEW q \in Past,
         RoundInv(x, p, rows), x.pc = "counting", x.page # 1,
         y.pc = "paging", y.kind = x.kind, y.page = x.page, y.seen = x.seen,
         y.filter = x.filter, y.total = Cardinality(Listed(rows, x.filter)),
         q.stayed = p.stayed, q.came = p.came, q.left = p.left, q.tied = p.tied
  PROVE  RoundInv(y, q, rows)
<1>1. x.kind = "list" /\ x.page >= 1 /\ PagesSoFar(x, p, rows)
  BY DEF RoundInv, RoundShape
<1>2. x.page > 1
  <2>1. PICK n \in Nat : n = x.page
    BY RoundFields
  <2>2. n >= 1 /\ n # 1
    BY <1>1, <2>1
  <2> QED BY <2>1, <2>2
<1>4. Cardinality(Listed(rows, y.filter)) <= y.total
  <2>1. PICK n \in Nat : n = Cardinality(Listed(rows, y.filter))
    BY ListedFinite
  <2> QED BY <2>1
<1>3. PagesSoFar(y, q, rows)
  BY <1>1, <1>2, <1>4 DEF PagesSoFar, Began
<1> QED BY <1>1, <1>3 DEF RoundInv, RoundShape

-----------------------------------------------------------------------------
(* A page of a listing *)

\* The rows seen after a page: those of before, then those of the page.
LEMMA SeenGrows ==
  ASSUME NEW seen \in Seq(App), NEW page \in Seq(App)
  PROVE  /\ ToSet(seen \o page) = ToSet(seen) \cup ToSet(page)
         /\ \A i \in 1..Len(seen \o page) :
              \/ i \in 1..Len(seen) /\ (seen \o page)[i] = seen[i]
              \/ i - Len(seen) \in 1..Len(page) /\ (seen \o page)[i] = page[i - Len(seen)]
<1> DEFINE all == seen \o page
<1>1. /\ all \in Seq(App) /\ Len(all) = Len(seen) + Len(page)
      /\ \A i \in 1..Len(seen) + Len(page) :
            all[i] = IF i <= Len(seen) THEN seen[i] ELSE page[i - Len(seen)]
  BY ConcatProperties
<1>2. Len(seen) \in Nat /\ Len(page) \in Nat
  OBVIOUS
<1> HIDE DEF all
<1>3. \A i \in 1..Len(all) :
         \/ i \in 1..Len(seen) /\ all[i] = seen[i]
         \/ i - Len(seen) \in 1..Len(page) /\ all[i] = page[i - Len(seen)]
  BY <1>1, <1>2
<1>4. ToSet(all) \subseteq ToSet(seen) \cup ToSet(page)
  BY <1>1, <1>2, <1>3 DEF ToSet
<1>5. ASSUME NEW i \in 1..Len(seen) PROVE seen[i] \in ToSet(all)
  <2>1. i \in 1..Len(all) /\ all[i] = seen[i]
    BY <1>1, <1>2
  <2> QED BY <1>1, <2>1 DEF ToSet
<1>6. ASSUME NEW i \in 1..Len(page) PROVE page[i] \in ToSet(all)
  <2>1. Len(seen) + i \in 1..Len(all) /\ all[Len(seen) + i] = page[i]
    BY <1>1, <1>2
  <2> QED BY <1>1, <2>1 DEF ToSet
<1>7. ToSet(seen) \cup ToSet(page) \subseteq ToSet(all)
  BY <1>2, <1>5, <1>6 DEF ToSet
<1> QED BY <1>3, <1>4, <1>7 DEF all

\* The page at its place in the order, after the pages before it.
LEMMA PageFetched ==
  ASSUME NEW rows \in [App -> Row], NEW f,
         NEW x \in Reader, NEW y \in Reader, NEW p \in Past, NEW q \in Past,
         RoundInv(x, p, rows), x.pc = "paging", x.filter = f,
         NEW s \in SetToSeqs(Listed(rows, f)),
         \A i, j \in 1..Len(s) : i < j => rows[s[i]].day >= rows[s[j]].day,
         y.kind = x.kind, y.filter = f, y.total = x.total,
         y.seen = x.seen \o PageOf(s, x.page),
         \/ y.pc = "counting" /\ y.page = x.page + 1
         \/ y.pc = "done" /\ y.page = x.page /\ ~(x.page < TotalPages(x.total)),
         q.stayed = p.stayed, q.came = p.came, q.left = p.left, q.late = p.late,
         p.tied => q.tied,
         ~q.tied => \A a, b \in Listed(rows, f) : a # b => rows[a].day # rows[b].day
  PROVE  RoundInv(y, q, rows)
<1> DEFINE S == Listed(rows, f)
           P == PageOf(s, x.page)
           shown == ToSet(x.seen)
           offset(a) == Cardinality(Ahead(rows, f, a))
           begin == Offset(x.page)
<1>1. /\ x.kind = "list" /\ x.page \in Nat /\ x.page >= 1
      /\ PagesSoFar(x, p, rows)
      /\ x.seen \in Seq(App) /\ y.seen \in Seq(App) /\ x.total \in Nat
  BY RoundFields DEF RoundInv, RoundShape
<1>2. Began(x)
  BY DEF Began
<1>3. /\ p.stayed \subseteq S
      /\ S \subseteq p.stayed \/ p.came \/ p.left
      /\ shown \subseteq p.stayed \/ p.came \/ p.left
      /\ ~p.left /\ ~p.tied => \A a \in p.stayed \ shown : offset(a) >= begin
      /\ ~p.came /\ ~p.tied => \A a \in p.stayed \cap shown : offset(a) < begin
      /\ ~p.came /\ ~p.tied =>
            \A i, j \in 1..Len(x.seen) :
               x.seen[i] \in p.stayed /\ x.seen[i] = x.seen[j] => i = j
      /\ ~p.late => Cardinality(S) <= x.total
  BY <1>1, <1>2 DEF PagesSoFar
<1>4. /\ IsFiniteSet(S) /\ S \subseteq App /\ Cardinality(S) \in Nat
  BY ListedFinite
<1>5. /\ s \in Seq(S)
      /\ Len(s) = Cardinality(S)
      /\ Len(s) \in Nat
      /\ \A i \in 1..Len(s) : s[i] \in S
      /\ \A i, j \in 1..Len(s) : s[i] = s[j] => i = j
      /\ \A a \in S : \E i \in 1..Len(s) : s[i] = a
  <2>1. s \in SetToSeqs(S)
    OBVIOUS
  <2> HIDE DEF S
  <2> QED BY <1>4, <2>1, SequenceOfSet
<1>6. /\ P \in Seq(S)
      /\ \A k \in 1..Len(P) : begin + k \in 1..Len(s) /\ k <= Limit /\ P[k] = s[begin + k]
      /\ \A i \in 1..Len(s) : begin < i /\ i <= begin + Limit => i - begin \in 1..Len(P)
  <2>1. s \in Seq(S) /\ x.page \in Nat /\ x.page >= 1
    BY <1>1, <1>5
  <2>2. PICK page \in Nat : page = x.page
    BY <2>1
  <2>3. page >= 1
    BY <2>1, <2>2
  <2> HIDE DEF S
  <2>4. /\ PageOf(s, page) \in Seq(S)
        /\ \A k \in 1..Len(PageOf(s, page)) :
              /\ Offset(page) + k \in 1..Len(s)
              /\ k <= Limit
              /\ PageOf(s, page)[k] = s[Offset(page) + k]
        /\ \A i \in 1..Len(s) :
              Offset(page) < i /\ i <= Offset(page) + Limit =>
                 i - Offset(page) \in 1..Len(PageOf(s, page))
    BY <2>1, <2>3, PageContents
  <2> QED BY <2>2, <2>4
<1>7. /\ begin \in Nat /\ Limit \in Nat
      /\ Offset(x.page + 1) = begin + Limit
  BY <1>1, OffsetGrows, LimitAssumption
<1>8. ~q.tied => \A i \in 1..Len(s) : offset(s[i]) = i - 1
  BY PlaceIsOffset
<1>9. P \in Seq(App) /\ Len(P) \in Nat /\ Len(x.seen) \in Nat /\ Len(y.seen) \in Nat
  <2>1. P \in Seq(App)
    BY <1>4, <1>6
  <2>2. \A t \in Seq(App) : Len(t) \in Nat
    OBVIOUS
  <2> QED BY <1>1, <2>1, <2>2, Zenon
<1>10. /\ ToSet(y.seen) = shown \cup ToSet(P)
       /\ \A i \in 1..Len(y.seen) :
            \/ i \in 1..Len(x.seen) /\ y.seen[i] = x.seen[i]
            \/ i - Len(x.seen) \in 1..Len(P) /\ y.seen[i] = P[i - Len(x.seen)]
  <2>1. y.seen = x.seen \o P /\ x.seen \in Seq(App) /\ P \in Seq(App)
    BY <1>1, <1>9
  <2> HIDE DEF P
  <2> QED BY <2>1, SeenGrows
<1> HIDE DEF S, P, shown, offset, begin
<1>11. ToSet(P) \subseteq S
  BY <1>6, <1>5 DEF ToSet
<1>12. ~q.tied /\ ~p.left => \A a \in p.stayed \ ToSet(y.seen) : offset(a) >= begin + Limit
  <2> SUFFICES ASSUME ~q.tied, ~p.left, NEW a \in p.stayed, a \notin ToSet(y.seen)
               PROVE  offset(a) >= begin + Limit
    OBVIOUS
  <2>1. PICK i \in 1..Len(s) : s[i] = a
    BY <1>3, <1>5
  <2>2. offset(a) = i - 1
    BY <1>8, <2>1
  <2>3. offset(a) >= begin
    BY <1>3, <1>10
  <2>4. i \in Nat /\ begin < i
    BY <1>5, <1>7, <2>2, <2>3
  <2>5. ASSUME i <= begin + Limit PROVE FALSE
    <3>1. i - begin \in 1..Len(P)
      BY <1>6, <2>4, <2>5
    <3>2. P[i - begin] = s[begin + (i - begin)]
      BY <1>6, <3>1
    <3>3. begin + (i - begin) = i
      BY <1>7, <2>4
    <3>4. a \in ToSet(P)
      <4>1. P[i - begin] = a
        BY <2>1, <3>2, <3>3
      <4> QED BY <1>9, <3>1, <4>1 DEF ToSet
    <3> QED BY <1>10, <3>4
  <2> QED BY <1>7, <2>2, <2>4, <2>5
<1>13. ~q.tied => \A k \in 1..Len(P) :
                     /\ offset(P[k]) >= begin /\ offset(P[k]) < begin + Limit
                     /\ offset(P[k]) = begin + k - 1
  <2> SUFFICES ASSUME ~q.tied, NEW k \in 1..Len(P)
               PROVE  /\ offset(P[k]) >= begin /\ offset(P[k]) < begin + Limit
                      /\ offset(P[k]) = begin + k - 1
    OBVIOUS
  <2>1. begin + k \in 1..Len(s) /\ k <= Limit /\ P[k] = s[begin + k]
    BY <1>6
  <2>2. offset(P[k]) = begin + k - 1
    <3>1. PICK m \in 1..Len(s) : m = begin + k
      BY <2>1
    <3>2. offset(s[m]) = m - 1
      BY <1>8
    <3>3. P[k] = s[m]
      BY <2>1, <3>1
    <3>4. offset(P[k]) = m - 1
      BY <3>2, <3>3, Zenon
    <3>5. m - 1 = begin + k - 1
      BY <3>1, <1>5, <1>7, <1>9
    <3> QED BY <3>4, <3>5, Zenon
  <2>3. k \in Nat /\ k >= 1
    BY <1>9
  <2>4. /\ begin + k - 1 >= begin /\ begin + k - 1 < begin + Limit
    BY <1>7, <2>1, <2>3
  <2> QED BY <2>2, <2>4
<1>14. ~q.tied /\ ~p.came => \A a \in p.stayed \cap ToSet(y.seen) : offset(a) < begin + Limit
  <2> SUFFICES ASSUME ~q.tied, ~p.came, NEW a \in p.stayed, a \in ToSet(y.seen)
               PROVE  offset(a) < begin + Limit
    OBVIOUS
  <2>1. CASE a \in shown
    <3>1. offset(a) < begin
      BY <1>3, <2>1
    <3>2. offset(a) \in Nat
      BY AheadFinite DEF offset
    <3> QED BY <1>7, <3>1, <3>2
  <2>2. CASE a \in ToSet(P)
    <3>1. PICK k \in 1..Len(P) : a = P[k]
      BY <1>9, <2>2 DEF ToSet
    <3> QED BY <1>13, <3>1
  <2> QED BY <1>10, <2>1, <2>2
<1>15. ~q.tied /\ ~p.came =>
          \A i, j \in 1..Len(y.seen) :
             y.seen[i] \in p.stayed /\ y.seen[i] = y.seen[j] => i = j
  <2>1. ASSUME ~q.tied, ~p.came, NEW i \in 1..Len(x.seen), NEW k \in 1..Len(P),
               x.seen[i] \in p.stayed, x.seen[i] = P[k]
        PROVE  FALSE
    <3>1. x.seen[i] \in shown
      BY <1>1 DEF ToSet, shown
    <3>2. offset(x.seen[i]) < begin
      BY <1>3, <2>1, <3>1
    <3>3. offset(P[k]) >= begin /\ offset(P[k]) \in Nat
      BY <1>13, <2>1, AheadFinite DEF offset
    <3> QED BY <1>7, <2>1, <3>2, <3>3
  <2>2. ASSUME NEW k \in 1..Len(P), NEW l \in 1..Len(P), P[k] = P[l]
        PROVE  k = l
    <3>1. /\ begin + k \in 1..Len(s) /\ P[k] = s[begin + k]
          /\ begin + l \in 1..Len(s) /\ P[l] = s[begin + l]
      BY <1>6
    <3>2. begin + k = begin + l
      BY <1>5, <2>2, <3>1
    <3> QED BY <1>7, <1>9, <3>2
  <2> SUFFICES ASSUME ~q.tied, ~p.came, NEW i \in 1..Len(y.seen), NEW j \in 1..Len(y.seen),
                      y.seen[i] \in p.stayed, y.seen[i] = y.seen[j]
               PROVE  i = j
    OBVIOUS
  <2>3. CASE i \in 1..Len(x.seen) /\ y.seen[i] = x.seen[i]
    <3>1. CASE j \in 1..Len(x.seen) /\ y.seen[j] = x.seen[j]
      BY <1>3, <2>3, <3>1
    <3>2. CASE j - Len(x.seen) \in 1..Len(P) /\ y.seen[j] = P[j - Len(x.seen)]
      BY <2>1, <2>3, <3>2
    <3> QED BY <1>10, <3>1, <3>2
  <2>4. CASE i - Len(x.seen) \in 1..Len(P) /\ y.seen[i] = P[i - Len(x.seen)]
    <3>1. CASE j \in 1..Len(x.seen) /\ y.seen[j] = x.seen[j]
      BY <2>1, <2>4, <3>1
    <3>2. CASE j - Len(x.seen) \in 1..Len(P) /\ y.seen[j] = P[j - Len(x.seen)]
      <4>1. i - Len(x.seen) = j - Len(x.seen)
        <5>1. PICK k \in 1..Len(P), l \in 1..Len(P) :
                k = i - Len(x.seen) /\ l = j - Len(x.seen)
          BY <2>4, <3>2
        <5>2. P[k] = P[l]
          BY <2>4, <3>2, <5>1
        <5>3. k = l
          BY <2>2, <5>2
        <5> QED BY <5>1, <5>3
      <4>3. i \in Nat /\ j \in Nat
        BY <1>9
      <4> QED BY <1>9, <4>1, <4>3
    <3> QED BY <1>10, <3>1, <3>2
  <2> QED BY <1>10, <2>3, <2>4
<1>16. ToSet(y.seen) \subseteq p.stayed \/ p.came \/ p.left
  BY <1>3, <1>10, <1>11
<1>17. CASE y.pc = "counting" /\ y.page = x.page + 1
  <2>1. y.page >= 1 /\ y.page # 1
    BY <1>1, <1>17
  <2>2. Offset(y.page) = begin + Limit
    BY <1>7, <1>17
  <2>3. PagesSoFar(y, q, rows)
    BY <1>3, <1>12, <1>14, <1>15, <1>16, <1>17, <2>2 DEF PagesSoFar, S, offset
  <2> QED BY <1>1, <1>17, <2>1, <2>3 DEF RoundInv, RoundShape
<1>18. CASE y.pc = "done" /\ y.page = x.page /\ ~(x.page < TotalPages(x.total))
  <2>1. x.total <= begin + Limit
    BY <1>1, <1>18, PagesReachTotal DEF begin
  <2>2. ~q.tied /\ ~p.left /\ ~p.late => p.stayed \subseteq ToSet(y.seen)
    <3> SUFFICES ASSUME ~q.tied, ~p.left, ~p.late, NEW a \in p.stayed,
                        a \notin ToSet(y.seen)
                 PROVE  FALSE
      OBVIOUS
    <3>1. offset(a) >= begin + Limit
      BY <1>12
    <3>2. PICK i \in 1..Len(s) : s[i] = a
      BY <1>3, <1>5
    <3>3. offset(a) = i - 1
      BY <1>8, <3>2
    <3>4. Len(s) <= x.total
      BY <1>3, <1>5
    <3> QED BY <1>1, <1>5, <1>7, <2>1, <3>1, <3>3, <3>4
  <2>3. ~q.tied => RowsShown(y, q)
    BY <1>15, <1>16, <2>2 DEF RowsShown
  <2> QED BY <1>1, <1>18, <2>3 DEF RoundInv, RoundShape
<1> QED BY <1>17, <1>18

-----------------------------------------------------------------------------
(* The figures *)

\* The breakdown by source divides what is counted.
LEMMA SourcesDivide ==
  ASSUME NEW rows \in [App -> Row], NEW S \in SUBSET App
  PROVE  /\ Cardinality({a \in S : rows[a].source = "manual"}) \in Nat
         /\ Cardinality({a \in S : rows[a].source = "resume_generator"}) \in Nat
         /\ Cardinality({a \in S : rows[a].source = "manual"})
            + Cardinality({a \in S : rows[a].source = "resume_generator"}) = Cardinality(S)
<1> DEFINE A == {a \in S : rows[a].source = "manual"}
           B == {a \in S : rows[a].source = "resume_generator"}
<1>1. IsFiniteSet(S)
  BY AppAssumption, FS_Subset
<1>2. IsFiniteSet(A) /\ IsFiniteSet(B)
  <2>1. A \in SUBSET S /\ B \in SUBSET S
    OBVIOUS
  <2> QED BY <1>1, <2>1, FS_Subset
<1>3. A \cup B = S
  <2>1. \A a \in S : rows[a].source \in Source
    BY RowFields
  <2> QED BY <2>1 DEF Source
<1>4. A \cap B = {}
  OBVIOUS
<1> HIDE DEF A, B
<1>5. Cardinality(A \cup B) = Cardinality(A) + Cardinality(B) - Cardinality(A \cap B)
  BY <1>2, FS_Union
<1>6. Cardinality(A \cap B) = 0
  BY <1>4, FS_EmptySet
<1>7. Cardinality(A) \in Nat /\ Cardinality(B) \in Nat
  BY <1>2, FS_CardinalityType
<1>8. Cardinality(A) + Cardinality(B) = Cardinality(S)
  BY <1>3, <1>5, <1>6, <1>7
<1> QED BY <1>7, <1>8 DEF A, B

\* The trend shows rows that are counted, each in one week.
LEMMA BarsAreRows ==
  ASSUME NEW S, IsFiniteSet(S), NEW W, NEW week \in [S -> W],
         NEW weekly \in [W -> Nat], NEW part \in [W -> SUBSET S],
         \A w \in W : \A a \in part[w] : week[a] = w,
         \A w \in W : weekly[w] = Cardinality(part[w])
  PROVE  /\ Cardinality(Bars(weekly)) \in Nat
         /\ Cardinality(Bars(weekly)) <= Cardinality(S)
<1> DEFINE B == Bars(weekly)
           row(w) == CHOOSE h : h \in Bijection(1..weekly[w], part[w])
           rowOf == [b \in B |-> row(b[1])[b[2]]]
<1>1. \A w \in W : row(w) \in Bijection(1..weekly[w], part[w])
  <2> SUFFICES ASSUME NEW w \in W PROVE row(w) \in Bijection(1..weekly[w], part[w])
    OBVIOUS
  <2>1. part[w] \in SUBSET S
    OBVIOUS
  <2>2. ExistsBijection(1..weekly[w], part[w])
    BY <2>1, FS_Subset, FS_CardinalityType
  <2> QED BY <2>2 DEF ExistsBijection
<1>2. \A b \in B : /\ b[1] \in W /\ b[2] \in 1..weekly[b[1]]
                   /\ b = <<b[1], b[2]>>
  BY DEF Bars
<1> HIDE DEF B, row
<1>3. \A b \in B : /\ row(b[1])[b[2]] \in part[b[1]]
                   /\ row(b[1])[b[2]] \in S
  <2> SUFFICES ASSUME NEW b \in B
               PROVE  row(b[1])[b[2]] \in part[b[1]] /\ row(b[1])[b[2]] \in S
    OBVIOUS
  <2>1. row(b[1]) \in [1..weekly[b[1]] -> part[b[1]]]
    BY <1>1, <1>2 DEF Bijection, Injection
  <2>2. row(b[1])[b[2]] \in part[b[1]]
    BY <1>2, <2>1
  <2>3. part[b[1]] \subseteq S
    BY <1>2
  <2> QED BY <2>2, <2>3
<1>4. rowOf \in Injection(B, S)
  <2>1. rowOf \in [B -> S]
    BY <1>3
  <2>2. ASSUME NEW b \in B, NEW d \in B, rowOf[b] = rowOf[d] PROVE b = d
    <3>1. row(b[1])[b[2]] = row(d[1])[d[2]]
      BY <2>2
    <3>2. b[1] = d[1]
      <4>1. week[row(b[1])[b[2]]] = b[1] /\ week[row(d[1])[d[2]]] = d[1]
        BY <1>2, <1>3
      <4> QED BY <3>1, <4>1
    <3>3. \A i, j \in 1..weekly[b[1]] : row(b[1])[i] = row(b[1])[j] => i = j
      BY <1>1, <1>2 DEF Bijection, Injection, IsInjective
    <3>4. b[2] = d[2]
      BY <1>2, <3>1, <3>2, <3>3
    <3> QED BY <1>2, <3>2, <3>4
  <2> HIDE DEF rowOf
  <2> QED BY <2>1, <2>2 DEF Injection, IsInjective
<1> HIDE DEF rowOf
<1>5. IsFiniteSet(B) /\ Cardinality(B) <= Cardinality(S)
  BY <1>4, FS_Injection
<1> QED BY <1>5, FS_CardinalityType DEF B

\* A breakdown that adds up to a count near the total.
LEMMA BreakdownNear ==
  ASSUME NEW rows, NEW x, NEW p,
         Cardinality(Listed(rows, AnyFilter)) - x.total \in -p.during..p.during,
         x.manual + x.generated = Cardinality(Listed(rows, AnyFilter))
  PROVE  FiguresSoFar(x, p, rows)
BY DEF FiguresSoFar

\* What it takes for figures to be near.
LEMMA NearIf ==
  ASSUME NEW x, NEW p,
         (x.manual + x.generated) - x.total \in -p.during..p.during,
         Cardinality(Bars(x.weekly)) <= x.total + p.during,
         \A w \in DOMAIN x.weekly : x.weekly[w] > 0 => WeekOf(Today) - w < Weeks
  PROVE  FiguresNear(x, p)
BY DEF FiguresNear

\* The second statement of the statistics.
LEMMA BreakdownCounts ==
  ASSUME NEW rows \in [App -> Row],
         NEW x \in Reader, NEW y \in Reader, NEW p \in Past,
         RoundInv(x, p, rows), x.pc = "breakdown",
         y.pc = "trend", y.kind = x.kind, y.page = x.page, y.seen = x.seen,
         y.total = x.total,
         y.manual = Cardinality({a \in Listed(rows, AnyFilter) : rows[a].source = "manual"}),
         y.generated = Cardinality({a \in Listed(rows, AnyFilter) :
                                      rows[a].source = "resume_generator"})
  PROVE  RoundInv(y, p, rows)
<1>1. x.kind = "stats" /\ FiguresSoFar(x, p, rows) /\ x.page = 1
  BY DEF RoundInv, RoundShape
<1>2. Listed(rows, AnyFilter) \in SUBSET App
  BY ListedFinite
<1>3. y.manual + y.generated = Cardinality(Listed(rows, AnyFilter))
  BY <1>2, SourcesDivide
<1>4. FiguresSoFar(y, p, rows)
  <2>1. Cardinality(Listed(rows, AnyFilter)) - x.total \in -p.during..p.during
    BY <1>1 DEF FiguresSoFar
  <2>2. Cardinality(Listed(rows, AnyFilter)) - y.total \in -p.during..p.during
    BY <2>1, Zenon
  <2> QED BY <1>3, <2>2, BreakdownNear
<1>5. x.seen = <<>>
  BY <1>1 DEF RoundInv, RoundShape
<1> QED BY <1>1, <1>4, <1>5 DEF RoundInv, RoundShape

\* The third, and the answer.
LEMMA TrendCounts ==
  ASSUME NEW rows \in [App -> Row],
         NEW x \in Reader, NEW y \in Reader, NEW p \in Past,
         RoundInv(x, p, rows), x.pc = "trend",
         y.pc = "done", y.kind = x.kind, y.page = x.page,
         y.total = x.total, y.manual = x.manual, y.generated = x.generated,
         y.weekly = [w \in 0..WeekOf(Today) |->
                       Cardinality({a \in Listed(rows, AnyFilter) :
                          rows[a].day >= TrendSince /\ WeekOf(rows[a].day) = w})]
  PROVE  RoundInv(y, p, rows)
<1> DEFINE S == Listed(rows, AnyFilter)
           shown(w) == {a \in S : rows[a].day >= TrendSince /\ WeekOf(rows[a].day) = w}
           W == 0..WeekOf(Today)
<1>1. x.kind = "stats" /\ FiguresSoFar(x, p, rows) /\ x.page = 1
  BY DEF RoundInv, RoundShape
<1>2. IsFiniteSet(S) /\ S \subseteq App /\ Cardinality(S) \in Nat
  BY ListedFinite
<1>3. \A w : Cardinality(shown(w)) \in Nat /\ IsFiniteSet(shown(w)) /\ shown(w) \subseteq S
  <2> SUFFICES ASSUME NEW w
               PROVE  /\ Cardinality(shown(w)) \in Nat /\ IsFiniteSet(shown(w))
                      /\ shown(w) \subseteq S
    OBVIOUS
  <2>1. shown(w) \in SUBSET S
    OBVIOUS
  <2> QED BY <1>2, <2>1, FS_Subset, FS_CardinalityType
<1>4. \A a \in S : WeekOf(rows[a].day) \in W
  <2> SUFFICES ASSUME NEW a \in S PROVE WeekOf(rows[a].day) \in W
    OBVIOUS
  <2>1. PICK d \in Day : d = rows[a].day
    BY <1>2, RowFields
  <2>2. PICK l \in Nat \ {0} : l = WeekDays
    BY WeekAssumption
  <2>3. d \in Nat /\ Today \in Nat /\ d <= Today
    BY DayAssumption
  <2>4. d \div l \in Nat /\ Today \div l \in Nat /\ d \div l <= Today \div l
    BY <2>2, <2>3, SMTT(30)
  <2>5. d \div l \in 0..(Today \div l)
    BY <2>4
  <2> QED BY <2>1, <2>2, <2>5 DEF WeekOf
<1>5. Cardinality(Bars(y.weekly)) \in Nat /\ Cardinality(Bars(y.weekly)) <= Cardinality(S)
  <2> DEFINE week == [a \in S |-> WeekOf(rows[a].day)]
             part == [w \in W |-> shown(w)]
             weekly == [w \in W |-> Cardinality(shown(w))]
  <2>1. week \in [S -> W]
    BY <1>4
  <2>2. part \in [W -> SUBSET S]
    BY <1>3
  <2>3. weekly \in [W -> Nat]
    BY <1>3
  <2>4. \A w \in W : \A a \in part[w] : week[a] = w
    OBVIOUS
  <2>5. \A w \in W : weekly[w] = Cardinality(part[w])
    OBVIOUS
  <2>6. y.weekly = weekly
    OBVIOUS
  <2> HIDE DEF week, part, weekly, S, W
  <2>7. Cardinality(Bars(weekly)) \in Nat /\ Cardinality(Bars(weekly)) <= Cardinality(S)
    <3>1. IsFiniteSet(S)
      BY <1>2
    <3> QED BY <3>1, <2>1, <2>2, <2>3, <2>4, <2>5, BarsAreRows, SMTT(60)
  <2> QED BY <2>6, <2>7
<1>6. ASSUME NEW w \in DOMAIN y.weekly, y.weekly[w] > 0
      PROVE  WeekOf(Today) - w < Weeks
  <2>1. y.weekly[w] = Cardinality(shown(w)) /\ Cardinality(shown(w)) \in Nat
    BY <1>3
  <2>2. shown(w) # {}
    <3>1. shown(w) = {} => Cardinality(shown(w)) = 0
      BY <1>3, FS_EmptySet
    <3> QED BY <1>6, <2>1, <3>1
  <2>3. PICK a \in S : rows[a].day >= TrendSince /\ WeekOf(rows[a].day) = w
    BY <2>2
  <2>4. rows[a].day \in Nat
    BY <1>2, RowFields
  <2> QED BY <2>3, <2>4, TrendIsShort
<1>7. /\ (x.manual + x.generated) - x.total \in -p.during..p.during
      /\ Cardinality(S) - x.total \in -p.during..p.during
  BY <1>1 DEF FiguresSoFar
<1>8. Cardinality(Bars(y.weekly)) <= x.total + p.during
  <2> HIDE DEF S
  <2>1. PICK b \in Nat, n \in Nat, t \in Nat, d \in Nat :
           /\ b = Cardinality(Bars(y.weekly)) /\ n = Cardinality(S)
           /\ t = x.total /\ d = p.during
    BY <1>2, <1>5, RoundFields
  <2>2. b <= n /\ n - t \in -d..d
    BY <1>5, <1>7, <2>1
  <2>3. b <= t + d
    BY <2>2
  <2> QED BY <2>1, <2>3
<1>9. FiguresNear(y, p)
  <2>1. (y.manual + y.generated) - y.total \in -p.during..p.during
    BY <1>7, Zenon
  <2>2. Cardinality(Bars(y.weekly)) <= y.total + p.during
    BY <1>8, Zenon
  <2>3. \A w \in DOMAIN y.weekly : y.weekly[w] > 0 => WeekOf(Today) - w < Weeks
    BY <1>6, Zenon
  <2> QED BY <2>1, <2>2, <2>3, NearIf, Zenon
<1> QED BY <1>1, <1>9 DEF RoundInv, RoundShape

-----------------------------------------------------------------------------
(* A commit seen by the rounds under way *)

\* The rows once a commit has turned row a into `row'.
After(rows, a, row) == [rows EXCEPT ![a] = row]

\* The listing after a commit: without what leaves it, with what enters it.
LEMMA ListedAfter ==
  ASSUME NEW rows \in [App -> Row], NEW a \in App, NEW row \in Row, NEW f,
         NEW after, after = After(rows, a, row)
  PROVE  /\ after \in [App -> Row]
         /\ after[a] = row
         /\ \A b \in App : b # a => after[b] = rows[b]
         /\ Listed(after, f) \ {a} = Listed(rows, f) \ {a}
         /\ a \in Listed(after, f) <=> Matches(row, f)
         /\ a \in Listed(rows, f) <=> Matches(rows[a], f)
<1>1. /\ after \in [App -> Row]
      /\ after[a] = row
      /\ \A b \in App : b # a => after[b] = rows[b]
  BY DEF After
<1>2. Listed(after, f) \ {a} = Listed(rows, f) \ {a}
  BY <1>1, Zenon DEF Listed
<1> QED BY <1>1, <1>2 DEF Listed

\* A commit by which no row enters only moves rows forward.
LEMMA NothingEntered ==
  ASSUME NEW rows \in [App -> Row], NEW a \in App, NEW row \in Row, NEW f,
         NEW after, after = After(rows, a, row),
         Matches(row, f) => Matches(rows[a], f) /\ row.day = rows[a].day
  PROVE  /\ Listed(after, f) \subseteq Listed(rows, f)
         /\ \A b \in Listed(after, f) :
               Cardinality(Ahead(after, f, b)) <= Cardinality(Ahead(rows, f, b))
<1>1. /\ after[a] = row
      /\ \A b \in App : b # a => after[b] = rows[b]
      /\ Listed(after, f) \ {a} = Listed(rows, f) \ {a}
      /\ a \in Listed(after, f) <=> Matches(row, f)
      /\ a \in Listed(rows, f) <=> Matches(rows[a], f)
  BY ListedAfter
<1>2. Listed(after, f) \subseteq Listed(rows, f)
  BY <1>1
<1>3. \A b \in Listed(after, f) : after[b].day = rows[b].day
  BY <1>1 DEF Listed
<1>4. ASSUME NEW b \in Listed(after, f)
      PROVE  Cardinality(Ahead(after, f, b)) <= Cardinality(Ahead(rows, f, b))
  <2>1. Ahead(after, f, b) \in SUBSET Ahead(rows, f, b)
    BY <1>2, <1>3 DEF Ahead
  <2> QED BY <2>1, AheadFinite, FS_Subset
<1> QED BY <1>2, <1>4

\* A commit by which no row leaves only moves rows back.
LEMMA NothingLeft ==
  ASSUME NEW rows \in [App -> Row], NEW a \in App, NEW row \in Row, NEW f,
         NEW after, after = After(rows, a, row),
         Matches(rows[a], f) => Matches(row, f) /\ row.day = rows[a].day
  PROVE  /\ Listed(rows, f) \subseteq Listed(after, f)
         /\ \A b \in Listed(rows, f) :
               Cardinality(Ahead(after, f, b)) >= Cardinality(Ahead(rows, f, b))
<1>1. /\ after[a] = row
      /\ \A b \in App : b # a => after[b] = rows[b]
      /\ Listed(after, f) \ {a} = Listed(rows, f) \ {a}
      /\ a \in Listed(after, f) <=> Matches(row, f)
      /\ a \in Listed(rows, f) <=> Matches(rows[a], f)
  BY ListedAfter
<1>2. Listed(rows, f) \subseteq Listed(after, f)
  BY <1>1
<1>3. \A b \in Listed(rows, f) : after[b].day = rows[b].day
  BY <1>1 DEF Listed
<1>4. ASSUME NEW b \in Listed(rows, f)
      PROVE  Cardinality(Ahead(after, f, b)) >= Cardinality(Ahead(rows, f, b))
  <2>1. Ahead(rows, f, b) \in SUBSET Ahead(after, f, b)
    BY <1>2, <1>3 DEF Ahead
  <2>2. PICK m \in Nat, n \in Nat :
          m = Cardinality(Ahead(rows, f, b)) /\ n = Cardinality(Ahead(after, f, b))
    BY AheadFinite
  <2>3. m <= n
    BY <2>1, <2>2, AheadFinite, FS_Subset
  <2> QED BY <2>2, <2>3
<1> QED BY <1>2, <1>4

\* A commit changes a count by one at most.
LEMMA CountMovesByOne ==
  ASSUME NEW rows \in [App -> Row], NEW a \in App, NEW row \in Row, NEW f,
         NEW after, after = After(rows, a, row)
  PROVE  /\ Cardinality(Listed(after, f)) <= Cardinality(Listed(rows, f)) + 1
         /\ Cardinality(Listed(rows, f)) <= Cardinality(Listed(after, f)) + 1
<1> DEFINE S == Listed(rows, f)
           T == Listed(after, f)
<1>1. S \ {a} = T \ {a}
  BY ListedAfter
<1>2. IsFiniteSet(S) /\ IsFiniteSet(T) /\ Cardinality(S) \in Nat /\ Cardinality(T) \in Nat
  BY ListedFinite
<1> HIDE DEF S, T
<1>3. Cardinality(S \ {a}) = IF a \in S THEN Cardinality(S) - 1 ELSE Cardinality(S)
  BY <1>2, FS_RemoveElement
<1>4. Cardinality(T \ {a}) = IF a \in T THEN Cardinality(T) - 1 ELSE Cardinality(T)
  BY <1>2, FS_RemoveElement
<1>5. PICK m \in Nat, n \in Nat : m = Cardinality(S) /\ n = Cardinality(T)
  BY <1>2
<1>6. (IF a \in S THEN m - 1 ELSE m) = (IF a \in T THEN n - 1 ELSE n)
  BY <1>1, <1>3, <1>4, <1>5
<1>7. n <= m + 1 /\ m <= n + 1
  BY <1>6
<1> QED BY <1>5, <1>7 DEF S, T

\* A listing under way.
LEMMA PagesSurviveCommit ==
  ASSUME NEW rows \in [App -> Row], NEW a \in App, NEW row \in Row,
         NEW after, after = After(rows, a, row),
         NEW x \in Reader, NEW p \in Past, NEW q \in Past,
         RoundInv(x, p, rows), x.pc \in {"counting", "paging"},
         ~q.came \/ ~q.late =>
            (Matches(row, x.filter) =>
                Matches(rows[a], x.filter) /\ row.day = rows[a].day),
         ~q.left \/ q.stayed # p.stayed \ {a} =>
            (Matches(rows[a], x.filter) =>
                Matches(row, x.filter) /\ row.day = rows[a].day),
         q.stayed = p.stayed \/ (q.stayed = p.stayed \ {a} /\ q.left),
         p.came => q.came, p.late => q.late, p.left => q.left, q.tied = p.tied
  PROVE  RoundInv(x, q, after)
<1> DEFINE f == x.filter
           shown == ToSet(x.seen)
           offset(b) == Cardinality(Ahead(rows, f, b))
           offset2(b) == Cardinality(Ahead(after, f, b))
           S == Listed(rows, f)
           T == Listed(after, f)
<1>1. RoundShape(x, p) /\ PagesSoFar(x, p, rows) /\ x.kind = "list"
  BY DEF RoundInv, RoundShape
<1>2. /\ p.stayed \subseteq S
      /\ Began(x) => S \subseteq p.stayed \/ p.came \/ p.left
      /\ shown \subseteq p.stayed \/ p.came \/ p.left
      /\ ~p.left /\ ~p.tied => \A b \in p.stayed \ shown : offset(b) >= Offset(x.page)
      /\ ~p.came /\ ~p.tied => \A b \in p.stayed \cap shown : offset(b) < Offset(x.page)
      /\ ~p.came /\ ~p.tied =>
            \A i, j \in 1..Len(x.seen) :
               x.seen[i] \in p.stayed /\ x.seen[i] = x.seen[j] => i = j
      /\ x.pc = "paging" /\ ~p.late => Cardinality(S) <= x.total
  BY <1>1 DEF PagesSoFar
<1>3. ~q.came \/ ~q.late => T \subseteq S /\ \A b \in T : offset2(b) <= offset(b)
  BY NothingEntered
<1>4. ~q.left \/ q.stayed # p.stayed \ {a} => S \subseteq T /\ \A b \in S : offset2(b) >= offset(b)
  BY NothingLeft
<1>5. S \ {a} = T \ {a}
  BY ListedAfter
<1>6. /\ \A b : offset(b) \in Nat /\ offset2(b) \in Nat
      /\ Cardinality(S) \in Nat /\ Cardinality(T) \in Nat /\ IsFiniteSet(S)
      /\ Offset(x.page) \in Nat /\ x.total \in Nat
  BY AheadFinite, ListedFinite, OffsetGrows, RoundFields, <1>1 DEF RoundShape
<1> HIDE DEF S, T, offset, offset2, shown, f
<1>7. q.stayed \subseteq T /\ q.stayed \subseteq p.stayed
  BY <1>2, <1>4, <1>5
<1>8. Began(x) => T \subseteq q.stayed \/ q.came \/ q.left
  BY <1>2, <1>3
<1>9. shown \subseteq q.stayed \/ q.came \/ q.left
  BY <1>2
<1>10. ~q.left /\ ~q.tied => \A b \in q.stayed \ shown : offset2(b) >= Offset(x.page)
  <2> SUFFICES ASSUME ~q.left, ~q.tied, NEW b \in q.stayed, b \notin shown
               PROVE  offset2(b) >= Offset(x.page)
    OBVIOUS
  <2>1. offset(b) >= Offset(x.page) /\ offset2(b) >= offset(b)
    BY <1>2, <1>4, <1>7
  <2> QED BY <1>6, <2>1
<1>11. ~q.came /\ ~q.tied => \A b \in q.stayed \cap shown : offset2(b) < Offset(x.page)
  <2> SUFFICES ASSUME ~q.came, ~q.tied, NEW b \in q.stayed, b \in shown
               PROVE  offset2(b) < Offset(x.page)
    OBVIOUS
  <2>1. offset(b) < Offset(x.page) /\ offset2(b) <= offset(b)
    BY <1>2, <1>3, <1>7
  <2> QED BY <1>6, <2>1
<1>12. ~q.came /\ ~q.tied =>
          \A i, j \in 1..Len(x.seen) :
             x.seen[i] \in q.stayed /\ x.seen[i] = x.seen[j] => i = j
  BY <1>2, <1>7
<1>13. x.pc = "paging" /\ ~q.late => Cardinality(T) <= x.total
  <2> SUFFICES ASSUME x.pc = "paging", ~q.late PROVE Cardinality(T) <= x.total
    OBVIOUS
  <2>1. Cardinality(S) <= x.total
    BY <1>2
  <2>2. Cardinality(T) <= Cardinality(S)
    BY <1>3, <1>6, FS_Subset
  <2> QED BY <1>6, <2>1, <2>2
<1>14. PagesSoFar(x, q, after)
  BY <1>7, <1>8, <1>9, <1>10, <1>11, <1>12, <1>13
     DEF PagesSoFar, S, T, offset, offset2, shown, f
<1>15. p.stayed = {} => q.stayed = {}
  BY <1>7
<1> QED BY <1>1, <1>14, <1>15 DEF RoundInv, RoundShape

\* Statistics under way.
LEMMA FiguresSurviveCommit ==
  ASSUME NEW rows \in [App -> Row], NEW a \in App, NEW row \in Row,
         NEW after, after = After(rows, a, row),
         NEW x \in Reader, NEW p \in Past, NEW q \in Past,
         RoundInv(x, p, rows), x.pc \in {"breakdown", "trend"},
         q.during = p.during + 1
  PROVE  RoundInv(x, q, after)
<1>1. RoundShape(x, p) /\ FiguresSoFar(x, p, rows) /\ x.kind = "stats"
  BY DEF RoundInv, RoundShape
<1>2. PICK m \in Nat, n \in Nat, t \in Nat, d \in Nat, b \in Nat :
         /\ m = Cardinality(Listed(rows, AnyFilter))
         /\ n = Cardinality(Listed(after, AnyFilter))
         /\ t = x.total /\ d = p.during /\ b = x.manual + x.generated
  <2>1. x.manual + x.generated \in Nat
    BY RoundFields
  <2> QED BY <2>1, ListedFinite, RoundFields
<1>3. n <= m + 1 /\ m <= n + 1
  BY <1>2, CountMovesByOne
<1>4. m - t \in -d..d /\ (x.pc = "trend" => b - t \in -d..d)
  BY <1>1, <1>2 DEF FiguresSoFar
<1>5. /\ n - t \in -(d + 1)..(d + 1)
      /\ x.pc = "trend" => b - t \in -(d + 1)..(d + 1)
  BY <1>3, <1>4
<1>6. FiguresSoFar(x, q, after)
  BY <1>2, <1>5 DEF FiguresSoFar
<1> QED BY <1>1, <1>6 DEF RoundInv, RoundShape

\* A round that has not begun or is over.
LEMMA OthersSurviveCommit ==
  ASSUME NEW rows, NEW after, NEW x, NEW p, RoundInv(x, p, rows),
         x.pc \in {"idle", "done"}
  PROVE  RoundInv(x, p, after)
BY DEF RoundInv

-----------------------------------------------------------------------------
(* The steps of Listing *)

\* Types of the state.
LEMMA StateTypes ==
  ASSUME ReadInv
  PROVE  /\ apps \in [App -> Row] /\ writes \in 0..MaxWrites
         /\ reader \in [Client -> Reader] /\ past \in [Client -> Past]
         /\ \A c \in Client : RoundInv(reader[c], past[c], apps)
BY DEF ReadInv, TypeOK

\* A step of one round.
LEMMA OneRound ==
  ASSUME ReadInv, NEW c \in Client, NEW y \in Reader, NEW q \in Past,
         reader' = [reader EXCEPT ![c] = y], past' = [past EXCEPT ![c] = q],
         UNCHANGED <<apps, writes>>,
         RoundInv(y, q, apps)
  PROVE  ReadInv'
<1>1. /\ reader' \in [Client -> Reader] /\ past' \in [Client -> Past]
      /\ apps' = apps /\ apps' \in [App -> Row] /\ writes' \in 0..MaxWrites
  BY StateTypes
<1>2. ASSUME NEW d \in Client PROVE RoundInv(reader'[d], past'[d], apps')
  <2>1. CASE d = c
    <3>1. reader'[d] = y /\ past'[d] = q
      BY <2>1, StateTypes
    <3> QED BY <1>1, <3>1
  <2>2. CASE d # c
    <3>1. reader'[d] = reader[d] /\ past'[d] = past[d]
      BY <2>2, StateTypes
    <3>2. RoundInv(reader[d], past[d], apps)
      BY StateTypes
    <3> QED BY <1>1, <3>1, <3>2
  <2> QED BY <2>1, <2>2
<1> QED BY <1>1, <1>2 DEF ReadInv, TypeOK

\* The history that stays is the same function.
LEMMA PastStays ==
  ASSUME ReadInv, NEW c \in Client
  PROVE  past = [past EXCEPT ![c] = past[c]]
BY StateTypes

\* The initial round.
LEMMA IdleRound ==
  /\ IdleReader \in Reader
  /\ IdleReader.pc = "idle" /\ IdleReader.kind = "none" /\ IdleReader.page = 1
  /\ IdleReader.seen = <<>>
<1>1. /\ <<>> \in Seq(App)
      /\ [w \in 0..(Today \div WeekDays) |-> 0] \in [0..(Today \div WeekDays) -> Nat]
  OBVIOUS
<1> QED BY <1>1, FilterAssumption DEF IdleReader, Reader, Phase, Kind

LEMMA InitReads == Init => ReadInv
<1> SUFFICES ASSUME Init PROVE ReadInv
  OBVIOUS
<1>1. NoApp \in Row
  <2>1. (CHOOSE d \in Day : TRUE) \in Day
    BY DayAssumption
  <2> QED BY <2>1 DEF NoApp, Row, Source
<1>2. apps \in [App -> Row]
  BY <1>1 DEF Init
<1>3. writes \in 0..MaxWrites
  BY MaxWritesAssumption DEF Init
<1>4. \A rows : RoundInv(IdleReader, NoPast, rows)
  BY IdleRound DEF RoundInv, RoundShape
<1> QED BY <1>2, <1>3, <1>4, IdleRound, NoPastFields DEF Init, ReadInv, TypeOK

LEMMA OpenListStep ==
  ASSUME ReadInv, NEW c \in Client, NEW f \in Filter, OpenList(c, f)
  PROVE  ReadInv'
<1> DEFINE y == [reader[c] EXCEPT !.pc = "counting", !.kind = "list", !.filter = f]
<1>1. reader[c] \in Reader /\ past[c] \in Past /\ RoundInv(reader[c], past[c], apps)
  BY StateTypes
<1>2. /\ y \in Reader /\ y.pc = "counting" /\ y.kind = "list"
      /\ y.page = reader[c].page /\ y.seen = reader[c].seen
  BY <1>1 DEF Reader, Phase, Kind
<1>3. /\ reader' = [reader EXCEPT ![c] = y] /\ reader[c].pc = "idle"
      /\ past' = [past EXCEPT ![c] = past[c]] /\ UNCHANGED <<apps, writes>>
  BY PastStays, StateTypes DEF OpenList
<1> HIDE DEF y
<1>4. RoundInv(y, past[c], apps)
  BY <1>1, <1>2, <1>3, RoundOpens
<1> QED BY <1>1, <1>2, <1>3, <1>4, OneRound

LEMMA RefuseListStep ==
  ASSUME ReadInv, NEW c \in Client, RefuseList(c)
  PROVE  ReadInv'
<1> DEFINE y == [reader[c] EXCEPT !.pc = "done", !.kind = "refused"]
<1>1. reader[c] \in Reader /\ past[c] \in Past /\ RoundInv(reader[c], past[c], apps)
  BY StateTypes
<1>2. y \in Reader /\ y.pc = "done" /\ y.kind = "refused" /\ y.page = reader[c].page
  BY <1>1 DEF Reader, Phase, Kind
<1>3. /\ reader' = [reader EXCEPT ![c] = y] /\ reader[c].pc = "idle"
      /\ past' = [past EXCEPT ![c] = past[c]] /\ UNCHANGED <<apps, writes>>
  BY PastStays, StateTypes DEF RefuseList
<1> HIDE DEF y
<1>4. RoundInv(y, past[c], apps)
  BY <1>1, <1>2, <1>3, RoundFails
<1> QED BY <1>1, <1>2, <1>3, <1>4, OneRound

LEMMA FailStep ==
  ASSUME ReadInv, NEW c \in Client, Fail(c)
  PROVE  ReadInv'
<1> DEFINE y == [reader[c] EXCEPT !.pc = "done", !.kind = "failed"]
<1>1. reader[c] \in Reader /\ past[c] \in Past /\ RoundInv(reader[c], past[c], apps)
  BY StateTypes
<1>2. y \in Reader /\ y.pc = "done" /\ y.kind = "failed" /\ y.page = reader[c].page
  BY <1>1 DEF Reader, Phase, Kind
<1>3. /\ reader' = [reader EXCEPT ![c] = y]
      /\ past' = [past EXCEPT ![c] = past[c]] /\ UNCHANGED <<apps, writes>>
  BY PastStays, StateTypes DEF Fail
<1> HIDE DEF y
<1>4. RoundInv(y, past[c], apps)
  BY <1>1, <1>2, <1>3, RoundFails
<1> QED BY <1>1, <1>2, <1>3, <1>4, OneRound

LEMMA HeadlineStep ==
  ASSUME ReadInv, NEW c \in Client, Headline(c)
  PROVE  ReadInv'
<1> DEFINE n == Cardinality(Listed(apps, AnyFilter))
           y == [reader[c] EXCEPT !.pc = "breakdown", !.kind = "stats", !.total = n]
<1>1. reader[c] \in Reader /\ past[c] \in Past /\ RoundInv(reader[c], past[c], apps)
  BY StateTypes
<1>2. n \in Nat
  BY ListedFinite
<1>3. /\ reader' = [reader EXCEPT ![c] = y] /\ reader[c].pc = "idle"
      /\ past' = [past EXCEPT ![c] = past[c]] /\ UNCHANGED <<apps, writes>>
  BY PastStays, StateTypes DEF Headline, Counted, Matching
<1> HIDE DEF n
<1>4. /\ y \in Reader /\ y.pc = "breakdown" /\ y.kind = "stats" /\ y.total = n
      /\ y.page = reader[c].page /\ y.seen = reader[c].seen
  BY <1>1, <1>2 DEF Reader, Phase, Kind
<1> HIDE DEF y
<1>5. RoundInv(y, past[c], apps)
  BY <1>1, <1>3, <1>4, HeadlineCounts DEF n
<1> QED BY <1>1, <1>3, <1>4, <1>5, OneRound

LEMMA CountRowsStep ==
  ASSUME ReadInv, NEW c \in Client, CountRows(c)
  PROVE  ReadInv'
<1> DEFINE x == reader[c]
           n == Cardinality(Listed(apps, x.filter))
           y == [x EXCEPT !.pc = "paging", !.total = n]
           q == IF x.page = 1 THEN [NoPast EXCEPT !.stayed = Listed(apps, x.filter)]
                ELSE [past[c] EXCEPT !.late = FALSE]
<1>1. x \in Reader /\ past[c] \in Past /\ RoundInv(x, past[c], apps)
  BY StateTypes
<1>2. n \in Nat /\ Listed(apps, x.filter) \subseteq App
  BY ListedFinite
<1>3. /\ reader' = [reader EXCEPT ![c] = y] /\ x.pc = "counting"
      /\ past' = [past EXCEPT ![c] = q] /\ UNCHANGED <<apps, writes>>
  BY StateTypes DEF CountRows, Matching
<1> HIDE DEF n
<1>4. /\ y \in Reader /\ y.pc = "paging" /\ y.kind = x.kind /\ y.total = n
      /\ y.page = x.page /\ y.seen = x.seen /\ y.filter = x.filter
  BY <1>1, <1>2 DEF Reader, Phase, Kind
<1> HIDE DEF y
<1>5. CASE x.page = 1
  <2>1. q \in Past /\ q.stayed = Listed(apps, x.filter)
    BY <1>2, <1>5, NoPastFields DEF Past
  <2> HIDE DEF q
  <2>2. RoundInv(y, q, apps)
    BY <1>1, <1>3, <1>4, <1>5, <2>1, FirstCount DEF n
  <2> QED BY <1>3, <1>4, <2>1, <2>2, OneRound
<1>6. CASE x.page # 1
  <2>1. /\ q \in Past /\ q.stayed = past[c].stayed /\ q.came = past[c].came
        /\ q.left = past[c].left /\ q.tied = past[c].tied
    BY <1>1, <1>6 DEF Past
  <2> HIDE DEF q
  <2>2. RoundInv(y, q, apps)
    BY <1>1, <1>3, <1>4, <1>6, <2>1, NextCount DEF n
  <2> QED BY <1>3, <1>4, <2>1, <2>2, OneRound
<1> QED BY <1>5, <1>6

LEMMA FetchPageStep ==
  ASSUME ReadInv, NEW c \in Client, FetchPage(c)
  PROVE  ReadInv'
<1> DEFINE x == reader[c]
           f == x.filter
           go == NextPage(c)
<1>1. x \in Reader /\ past[c] \in Past /\ RoundInv(x, past[c], apps)
  BY StateTypes
<1>2. PICK s \in Orders(f) :
         reader' = [reader EXCEPT ![c].pc = go.pc, ![c].page = go.page,
                                  ![c].seen = @ \o PageOf(s, x.page)]
  BY DEF FetchPage
<1>3. /\ s \in SetToSeqs(Listed(apps, f))
      /\ \A i, j \in 1..Len(s) : i < j => apps[s[i]].day >= apps[s[j]].day
  BY DEF Orders, Matching
<1> DEFINE tie == past[c].tied \/ Tied(f)
           seen == x.seen \o PageOf(s, x.page)
           y == [x EXCEPT !.pc = go.pc, !.page = go.page, !.seen = seen]
           q == [past[c] EXCEPT !.tied = tie]
<1>4. /\ reader' = [reader EXCEPT ![c] = y] /\ x.pc = "paging"
      /\ past' = [past EXCEPT ![c] = q] /\ UNCHANGED <<apps, writes>>
  BY <1>2, StateTypes DEF FetchPage
<1>5. x.page \in Nat /\ x.page >= 1
  BY <1>1, RoundFields DEF RoundInv, RoundShape
<1>6. \/ go.pc = "counting" /\ go.page = x.page + 1
      \/ go.pc = "done" /\ go.page = x.page /\ ~(x.page < TotalPages(x.total))
  BY DEF NextPage
<1>7. go.pc \in Phase /\ go.page \in Nat
  BY <1>5, <1>6 DEF Phase
<1>8. seen \in Seq(App)
  <2>1. s \in Seq(Listed(apps, f)) /\ Listed(apps, f) \subseteq App
    BY <1>3, ListedFinite, SequenceOfSet
  <2>2. s \in Seq(App)
    BY <2>1
  <2>3. PageOf(s, x.page) \in Seq(App)
    BY <1>5, <2>2, PageContents
  <2>4. x.seen \in Seq(App)
    BY <1>1, RoundFields
  <2> QED BY <2>3, <2>4, ConcatProperties
<1>9. tie \in BOOLEAN
  BY <1>1, RoundFields DEF Tied
<1>10. ~tie => \A a, b \in Listed(apps, f) : a # b => apps[a].day # apps[b].day
  BY DEF Tied, Matching
<1>11. past[c].tied => tie
  OBVIOUS
<1> HIDE DEF go, seen, tie
<1>12. /\ y \in Reader /\ y.pc = go.pc /\ y.page = go.page /\ y.seen = seen
       /\ y.kind = x.kind /\ y.filter = f /\ y.total = x.total
  BY <1>1, <1>7, <1>8 DEF Reader
<1>13. /\ q \in Past /\ q.tied = tie
       /\ q.stayed = past[c].stayed /\ q.came = past[c].came
       /\ q.left = past[c].left /\ q.late = past[c].late
  BY <1>1, <1>9 DEF Past
<1> HIDE DEF y, q
<1>14. apps \in [App -> Row]
  BY StateTypes
<1>15. RoundInv(y, q, apps)
  <2>1. y.seen = x.seen \o PageOf(s, x.page)
    BY <1>12 DEF seen
  <2>2. \/ y.pc = "counting" /\ y.page = x.page + 1
        \/ y.pc = "done" /\ y.page = x.page /\ ~(x.page < TotalPages(x.total))
    BY <1>6, <1>12
  <2>3. ~q.tied => \A a, b \in Listed(apps, f) : a # b => apps[a].day # apps[b].day
    BY <1>10, <1>13
  <2>4. past[c].tied => q.tied
    BY <1>11, <1>13
  <2> HIDE DEF x, f
  <2>5. x.filter = f
    BY DEF f
  <2> QED BY <1>1, <1>3, <1>4, <1>12, <1>13, <1>14, <2>1, <2>2, <2>3, <2>4, <2>5, PageFetched
<1> QED BY <1>4, <1>12, <1>13, <1>15, OneRound

LEMMA BreakdownStep ==
  ASSUME ReadInv, NEW c \in Client, Breakdown(c)
  PROVE  ReadInv'
<1> DEFINE x == reader[c]
           m == Cardinality({a \in Listed(apps, AnyFilter) : apps[a].source = "manual"})
           n == Cardinality({a \in Listed(apps, AnyFilter) :
                               apps[a].source = "resume_generator"})
           y == [x EXCEPT !.pc = "trend", !.manual = m, !.generated = n]
<1>1. x \in Reader /\ past[c] \in Past /\ RoundInv(x, past[c], apps) /\ apps \in [App -> Row]
  BY StateTypes
<1>2. m \in Nat /\ n \in Nat
  <2>1. Listed(apps, AnyFilter) \in SUBSET App
    BY ListedFinite
  <2> QED BY <1>1, <2>1, SourcesDivide
<1>3. /\ reader' = [reader EXCEPT ![c] = y] /\ x.pc = "breakdown"
      /\ past' = [past EXCEPT ![c] = past[c]] /\ UNCHANGED <<apps, writes>>
  BY PastStays, StateTypes DEF Breakdown, CountedFrom, Counted, Matching
<1> HIDE DEF m, n
<1>4. /\ y \in Reader /\ y.pc = "trend" /\ y.kind = x.kind /\ y.total = x.total
      /\ y.page = x.page /\ y.seen = x.seen /\ y.manual = m /\ y.generated = n
  BY <1>1, <1>2 DEF Reader, Phase, Kind
<1> HIDE DEF y
<1>5. RoundInv(y, past[c], apps)
  BY <1>1, <1>3, <1>4, BreakdownCounts DEF m, n
<1> QED BY <1>1, <1>3, <1>4, <1>5, OneRound

LEMMA TrendStep ==
  ASSUME ReadInv, NEW c \in Client, Trend(c)
  PROVE  ReadInv'
<1> DEFINE x == reader[c]
           shown(w) == {a \in Listed(apps, AnyFilter) :
                          apps[a].day >= TrendSince /\ WeekOf(apps[a].day) = w}
           weekly == [w \in 0..WeekOf(Today) |-> Cardinality(shown(w))]
           y == [x EXCEPT !.pc = "done", !.weekly = weekly]
<1>1. x \in Reader /\ past[c] \in Past /\ RoundInv(x, past[c], apps) /\ apps \in [App -> Row]
  BY StateTypes
<1>2. weekly \in [0..(Today \div WeekDays) -> Nat]
  <2>1. ASSUME NEW w PROVE Cardinality(shown(w)) \in Nat
    <3>1. shown(w) \in SUBSET Listed(apps, AnyFilter)
      OBVIOUS
    <3> QED BY <3>1, ListedFinite, FS_Subset, FS_CardinalityType
  <2> HIDE DEF shown
  <2> QED BY <2>1 DEF WeekOf
<1>3. /\ reader' = [reader EXCEPT ![c] = y] /\ x.pc = "trend"
      /\ past' = [past EXCEPT ![c] = past[c]] /\ UNCHANGED <<apps, writes>>
  BY PastStays, StateTypes DEF Trend, WeeklyTrend, Counted, Matching
<1> HIDE DEF weekly
<1>4. /\ y \in Reader /\ y.pc = "done" /\ y.kind = x.kind /\ y.total = x.total
      /\ y.page = x.page /\ y.manual = x.manual /\ y.generated = x.generated
      /\ y.weekly = weekly
  BY <1>1, <1>2 DEF Reader, Phase, Kind
<1> HIDE DEF y
<1>5. RoundInv(y, past[c], apps)
  BY <1>1, <1>3, <1>4, TrendCounts DEF weekly
<1> QED BY <1>1, <1>3, <1>4, <1>5, OneRound

LEMMA StoreStep ==
  ASSUME ReadInv, NEW a \in App, NEW row \in Row, Store(a, row)
  PROVE  ReadInv'
<1> DEFINE entered(c) == /\ Matches(row, reader[c].filter)
                         /\ Matches(apps[a], reader[c].filter) => row.day # apps[a].day
           gone(c) == /\ Matches(apps[a], reader[c].filter)
                      /\ Matches(row, reader[c].filter) => row.day # apps[a].day
           moved(c) == [past[c] EXCEPT
                          !.stayed = IF gone(c) THEN past[c].stayed \ {a} ELSE past[c].stayed,
                          !.came = past[c].came \/ entered(c),
                          !.late = past[c].late \/ entered(c),
                          !.left = past[c].left \/ gone(c)]
<1>1. /\ apps \in [App -> Row] /\ writes \in 0..MaxWrites
      /\ reader \in [Client -> Reader] /\ past \in [Client -> Past]
      /\ \A c \in Client : RoundInv(reader[c], past[c], apps)
  BY StateTypes
<1>2. /\ writes < MaxWrites /\ writes' = writes + 1
      /\ apps' = After(apps, a, row) /\ reader' = reader
  BY DEF Store, After
<1>3. \A c \in Client :
         past'[c] = IF reader[c].pc \in {"counting", "paging"} THEN moved(c)
                    ELSE IF reader[c].pc \in {"breakdown", "trend"}
                         THEN [past[c] EXCEPT !.during = past[c].during + 1]
                         ELSE past[c]
  BY DEF Store
<1>4. past' = [c \in Client |-> past'[c]]
  BY DEF Store
<1>5. \A c \in Client : entered(c) \in BOOLEAN /\ gone(c) \in BOOLEAN
  BY DEF Matches
<1> HIDE DEF entered, gone
<1>6. ASSUME NEW c \in Client
      PROVE  past'[c] \in Past /\ RoundInv(reader[c], past'[c], apps')
  <2>1. reader[c] \in Reader /\ past[c] \in Past /\ RoundInv(reader[c], past[c], apps)
    BY <1>1
  <2>2. CASE reader[c].pc \in {"counting", "paging"}
    <3> DEFINE q == moved(c)
    <3>1. past'[c] = q
      BY <1>3, <2>2
    <3>2. /\ q \in Past
          /\ q.stayed = IF gone(c) THEN past[c].stayed \ {a} ELSE past[c].stayed
          /\ q.came = (past[c].came \/ entered(c))
          /\ q.late = (past[c].late \/ entered(c))
          /\ q.left = (past[c].left \/ gone(c))
          /\ q.tied = past[c].tied
      BY <2>1, <1>5 DEF Past
    <3> HIDE DEF q
    <3>3. ~entered(c) => (Matches(row, reader[c].filter) =>
             Matches(apps[a], reader[c].filter) /\ row.day = apps[a].day)
      BY DEF entered
    <3>4. ~gone(c) => (Matches(apps[a], reader[c].filter) =>
             Matches(row, reader[c].filter) /\ row.day = apps[a].day)
      BY DEF gone
    <3>5. q \in Past /\ q.tied = past[c].tied /\ apps \in [App -> Row]
      BY <1>1, <3>2
    <3>6. ~q.came \/ ~q.late =>
             (Matches(row, reader[c].filter) =>
                 Matches(apps[a], reader[c].filter) /\ row.day = apps[a].day)
      BY <3>2, <3>3
    <3>7. ~q.left \/ q.stayed # past[c].stayed \ {a} =>
             (Matches(apps[a], reader[c].filter) =>
                 Matches(row, reader[c].filter) /\ row.day = apps[a].day)
      BY <3>2, <3>4
    <3>8. /\ q.stayed = past[c].stayed \/ (q.stayed = past[c].stayed \ {a} /\ q.left)
          /\ past[c].came => q.came
          /\ past[c].late => q.late
          /\ past[c].left => q.left
      BY <3>2
    <3>9. RoundInv(reader[c], q, After(apps, a, row))
      BY <2>1, <2>2, <3>5, <3>6, <3>7, <3>8, PagesSurviveCommit
    <3> QED BY <1>2, <3>1, <3>2, <3>9
  <2>3. CASE reader[c].pc \in {"breakdown", "trend"}
    <3> DEFINE q == [past[c] EXCEPT !.during = past[c].during + 1]
    <3>1. past'[c] = q
      BY <1>3, <2>3
    <3>2. q \in Past /\ q.during = past[c].during + 1
      BY <2>1 DEF Past
    <3> HIDE DEF q
    <3>3. RoundInv(reader[c], q, apps')
      BY <1>1, <1>2, <2>1, <2>3, <3>2, FiguresSurviveCommit
    <3> QED BY <3>1, <3>2, <3>3
  <2>4. CASE reader[c].pc \in {"idle", "done"}
    <3>1. past'[c] = past[c]
      BY <1>3, <2>4
    <3> QED BY <2>1, <2>4, <3>1, OthersSurviveCommit
  <2>5. reader[c].pc \in Phase
    BY <2>1 DEF Reader
  <2>6. \/ reader[c].pc \in {"counting", "paging"}
        \/ reader[c].pc \in {"breakdown", "trend"}
        \/ reader[c].pc \in {"idle", "done"}
    BY <2>5 DEF Phase
  <2> QED BY <2>2, <2>3, <2>4, <2>6
<1>7. apps' \in [App -> Row] /\ writes' \in 0..MaxWrites
  BY <1>1, <1>2, MaxWritesAssumption DEF After
<1>8. past' \in [Client -> Past]
  BY <1>4, <1>6
<1>9. reader' \in [Client -> Reader]
  BY <1>1, <1>2
<1>10. \A c \in Client : RoundInv(reader'[c], past'[c], apps')
  BY <1>2, <1>6
<1> QED BY <1>7, <1>8, <1>9, <1>10 DEF ReadInv, TypeOK

LEMMA WriterStep ==
  ASSUME ReadInv, Writer
  PROVE  ReadInv'
<1>1. PICK a \in App : \/ \E row \in Row : Insert(a, row)
                       \/ \E day \in Day, source \in Source : Change(a, day, source)
                       \/ SoftDelete(a)
  BY DEF Writer
<1>2. apps[a] \in Row
  BY StateTypes
<1>3. CASE \E row \in Row : Insert(a, row)
  BY <1>3, StoreStep DEF Insert
<1>4. ASSUME NEW day \in Day, NEW source \in Source, Change(a, day, source)
      PROVE  ReadInv'
  <2> DEFINE row == [apps[a] EXCEPT !.day = day, !.source = source]
  <2>1. row \in Row
    BY <1>2 DEF Row
  <2>2. Store(a, row)
    BY <1>4 DEF Change
  <2> HIDE DEF row
  <2> QED BY <2>1, <2>2, StoreStep
<1>5. CASE SoftDelete(a)
  <2> DEFINE row == [apps[a] EXCEPT !.deleted = TRUE]
  <2>1. row \in Row
    BY <1>2 DEF Row
  <2>2. Store(a, row)
    BY <1>5 DEF SoftDelete
  <2> HIDE DEF row
  <2> QED BY <2>1, <2>2, StoreStep
<1> QED BY <1>1, <1>3, <1>4, <1>5

LEMMA NextReads == ReadInv /\ [Next]_vars => ReadInv'
<1> SUFFICES ASSUME ReadInv, [Next]_vars PROVE ReadInv'
  OBVIOUS
<1>1. CASE UNCHANGED vars
  BY <1>1 DEF vars, ReadInv, TypeOK
<1>2. CASE Quiet
  BY <1>1, <1>2 DEF Quiet
<1>3. CASE Writer
  BY <1>3, WriterStep
<1>4. ASSUME NEW c \in Client, Start(c) PROVE ReadInv'
  BY <1>4, RefuseListStep, HeadlineStep, OpenListStep DEF Start
<1>5. ASSUME NEW c \in Client, Read(c) PROVE ReadInv'
  BY <1>5, CountRowsStep, FetchPageStep, BreakdownStep, TrendStep, FailStep DEF Read
<1> QED BY <1>1, <1>2, <1>3, <1>4, <1>5 DEF Next

-----------------------------------------------------------------------------
(* Theorems *)

\* The rounds of the clients, their histories and the rows keep to the invariant.
THEOREM ReadInvariance == Spec => []ReadInv
<1> QED BY InitReads, NextReads, PTL DEF Spec

\* Every variable has its type (services/application_service.py get_applications
\* and get_stats).
THEOREM TypeCorrect == Spec => []TypeOK
<1>1. ReadInv => TypeOK
  BY DEF ReadInv
<1> QED BY <1>1, ReadInvariance, PTL

\* A client that goes through the pages of GET /applications, ordered by
\* applied_date, latest first, is shown each row that stays in the listing, and
\* once, unless a commit of the kinds that PagesComplete names came between.
\* Nothing is said of a round in which two rows had the same date.
THEOREM PagesShowEveryRow == Spec => []PagesComplete
<1>1. ReadInv => PagesComplete
  BY DEF ReadInv, RoundInv, PagesComplete
<1> QED BY <1>1, ReadInvariance, PTL

\* Of GET /applications/stats, the breakdown by source differs from the total by
\* at most the commits between the statements, the weekly trend exceeds it by at
\* most as many, and no bar is older than its weeks.
THEOREM FiguresStayNear == Spec => []FiguresAgree
<1>1. ReadInv => FiguresAgree
  BY DEF ReadInv, RoundInv, FiguresAgree
<1> QED BY <1>1, ReadInvariance, PTL

-----------------------------------------------------------------------------
(* The 95th percentile *)

\* The place of the percentile by nearest rank is 95 n / 100, rounded up.
LEMMA NearestRankIsCeiling ==
  ASSUME NEW n \in Nat \ {0}
  PROVE  /\ NearestRank(n) \in 1..n
         /\ 100 * NearestRank(n) >= 95 * n
         /\ 100 * (NearestRank(n) - 1) < 95 * n
<1> DEFINE k == (95 * n + 99) \div 100
<1>1. /\ k \in 1..n /\ 100 * k >= 95 * n /\ 100 * (k - 1) < 95 * n
  BY SMTT(30)
<1> HIDE DEF k
<1>2. \E i \in 1..n : 100 * i >= 95 * n /\ 100 * (i - 1) < 95 * n
  BY <1>1
<1> QED BY <1>2 DEF NearestRank

\* However many samples a window holds, the p95 of GET /metrics is the percentile
\* by nearest rank or its neighbour below, and exact when 20 divides their number,
\* as in a full window: utils/metrics.py _latency_stats, which rounds down.
THEOREM PercentileIsNear == \A n \in Nat \ {0} : PercentileNear(n)
<1> SUFFICES ASSUME NEW n \in Nat \ {0} PROVE PercentileNear(n)
  OBVIOUS
<1>1. PICK k \in 1..n : /\ k = NearestRank(n)
                        /\ 100 * k >= 95 * n /\ 100 * (k - 1) < 95 * n
  BY NearestRankIsCeiling
<1>2. PICK d \in Int : d = (95 * n) \div 100 /\ 100 * d <= 95 * n /\ 95 * n < 100 * d + 100
  BY SMT
<1>3. Rank95(n) = IF d = 0 THEN 1 ELSE d
  BY <1>2 DEF Rank95
<1>4. k - d \in {0, 1} /\ (d = 0 => k = 1)
  BY <1>1, <1>2, SMTT(30)
<1>5. ASSUME n % 20 = 0 PROVE k = d
  <2>1. PICK m \in Nat : n = 20 * m
    BY <1>5, SMTT(30)
  <2>2. d = 19 * m /\ 100 * k >= 100 * (19 * m) /\ 100 * (k - 1) < 100 * (19 * m)
    BY <1>1, <1>2, <2>1, SMTT(30)
  <2> QED BY <2>1, <2>2, <1>1, SMTT(30)
<1> QED BY <1>1, <1>3, <1>4, <1>5, <1>2 DEF PercentileNear
=============================================================================
