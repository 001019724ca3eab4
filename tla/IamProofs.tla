------------------------------ MODULE IamProofs ------------------------------
(* Theorems about Iam, for every value of its constants: any number of       *)
(* requests, users, groups and roles, whatever the roles confer.             *)
EXTENDS Iam, SequenceTheorems, TLAPS

-----------------------------------------------------------------------------
(* Requests and their audit rows *)

\* A request in flight carries one audit row, which says what it was asked.
LEMMA RequestState ==
  ASSUME TypeOK, NEW r \in Req, Underway(tx[r]) => Len(tx[r].entry) = 1
  PROVE  /\ tx[r] \in Tx
         /\ tx[r].removes \subseteq Pair
         /\ AskOf(r) = AskBy(tx[r])
         /\ Underway(tx[r]) => /\ tx[r].entry[1] \in Entry
                               /\ AskBy(tx[r]) \in Ask
<1>1. tx[r] \in Tx /\ tx[r].removes \subseteq Pair /\ tx[r].entry \in Seq(Entry)
  BY DEF TypeOK, Tx
<1>2. Underway(tx[r]) => tx[r].entry[1] \in Entry
  BY <1>1
<1> QED BY <1>1, <1>2 DEF AskOf, AskBy, Entry

\* A grant is asked of a row, a deletion of a group, a creation of a name.
LEMMA AskedOf ==
  ASSUME NEW ask \in Ask
  PROVE  /\ ask.op \in {"grant", "revoke"} => ask.on \in Pair
         /\ ask.op = "create" => ask.on \in Name
         /\ ask.op = "delete" => ask.on \in Group
         /\ ask.op \in {"activate", "deactivate"} => ask.on \in User
BY DEF Ask

\* More rows entitle to more.
LEMMA EntitledGrows ==
  ASSUME NEW u, NEW permission, NEW A, NEW B, A \subseteq B,
         Entitled(u, permission, A)
  PROVE  Entitled(u, permission, B)
BY DEF Entitled

\* What resolution computes is what the rows entitle to.
LEMMA ResolvedIsEntitled ==
  ASSUME NEW u, NEW permission, NEW rows, permission \in PermissionsOf(u, rows)
  PROVE  Entitled(u, permission, rows)
BY DEF PermissionsOf, RolesOf, Entitled

\* The rows in force are seeded or granted by the log.
LEMMA InForceIsGranted ==
  ASSUME Inv
  PROVE  pairs \subseteq Seeded \cup Granted(audit)
BY DEF Inv, TypeOK, LogCoversGrants, Granted

-----------------------------------------------------------------------------
(* Steps that write nothing *)

\* A step that moves only the request r, to a state x that fits the tables and
\* claims no row that another inserts, and no group that another deletes or holds.
LEMMA LocalStep ==
  ASSUME Inv, NEW r \in Req, NEW x \in Tx,
         tx' = [tx EXCEPT ![r] = x], UNCHANGED tables, Fits(x),
         Inserts(x) =>
            \A s \in Req \ {r} : Inserts(tx[s]) => AskOf(s).on # AskBy(x).on,
         \A s \in Req \ {r}, g \in Group :
            /\ Holds(x, g) => ~Deletes(tx[s], g)
            /\ Deletes(x, g) => ~Holds(tx[s], g)
  PROVE  Inv'
<1>0. /\ tx'[r] = x
      /\ \A s \in Req \ {r} : tx'[s] = tx[s]
      /\ UNCHANGED <<pairs, groups, active, audit>>
  BY DEF Inv, TypeOK, tables
<1>1. TypeOK'
  BY <1>0 DEF Inv, TypeOK
<1>2. ASSUME NEW s \in Req PROVE Fits(tx[s])'
  <2>1. Fits(tx'[s])
    BY <1>0 DEF Inv
  <2>2. Tells(tx[s])'
    BY <2>1 DEF Fits, Tells, Underway, AskBy, Ends, InGroup
  <2>3. InsertsNew(tx[s])'
    BY <1>0, <2>1 DEF Fits, InsertsNew, Inserts, Holds, AskBy, GroupExists, InGroup
  <2>4. CascadeComplete(tx[s])'
    BY <1>0, <2>1 DEF Fits, CascadeComplete, Deleted, AskBy, CascadeTo, InGroup
  <2>5. ActsByLog(tx[s])'
    <3>1. Granted(audit)' = Granted(audit)
      BY <1>0 DEF Granted, Grants
    <3> QED BY <2>1, <3>1 DEF Fits, ActsByLog, Underway, AskBy
  <2> QED BY <2>2, <2>3, <2>4, <2>5 DEF Fits
<1>3. InsertersApart'
  BY <1>0 DEF Inv, InsertersApart, AskOf, AskBy, Inserts
<1>4. HoldersApart'
  <2> SUFFICES ASSUME NEW s \in Req, NEW u \in Req, NEW g \in Group,
                      Holds(tx'[s], g), Deletes(tx'[u], g)
               PROVE  FALSE
    BY DEF HoldersApart, Holds, Deletes, Deleted, AskBy
  <2>1. CASE s = r /\ u = r
    BY <1>0, <2>1 DEF Holds, Deletes, Deleted
  <2>2. CASE s = r /\ u # r
    BY <1>0, <2>2
  <2>3. CASE s # r /\ u = r
    BY <1>0, <2>3
  <2>4. CASE s # r /\ u # r
    BY <1>0, <2>4 DEF Inv, HoldersApart
  <2> QED BY <2>1, <2>2, <2>3, <2>4
<1>5. NoOrphans' /\ LogCoversGrants' /\ GrantsAlternate' /\ AuthorityFromLog'
  BY <1>0 DEF Inv, NoOrphans, GroupExists, LogCoversGrants, GrantsAlternate,
              AuthorityFromLog
<1> QED BY <1>1, <1>2, <1>3, <1>4, <1>5 DEF Inv

\* A request that ends without a commit.
LEMMA FinishStep ==
  ASSUME Inv, NEW r \in Req, NEW out \in Outcome, Finish(r, out), UNCHANGED tables
  PROVE  Inv'
<1> DEFINE x == [IdleTx EXCEPT !.pc = "done", !.out = out]
<1>1. IdleTx \in Tx /\ IdleTx.removes = {} /\ ~IdleTx.changes
  <2>1. <<>> \in Seq(Entry) /\ {} \in SUBSET Pair /\ "idle" \in Phase
        /\ "none" \in Outcome
    BY DEF Phase, Outcome
  <2> QED BY <2>1 DEF IdleTx, Tx
<1>2. x \in Tx /\ x.pc = "done" /\ x.removes = {} /\ ~x.changes
  BY <1>1 DEF Tx, Phase
<1>3. tx' = [tx EXCEPT ![r] = x]
  BY DEF Finish
<1> HIDE DEF x
<1>4. Fits(x)
  BY <1>2 DEF Fits, Tells, InsertsNew, CascadeComplete, ActsByLog, Underway,
              Inserts, Holds, Deleted
<1> QED BY <1>2, <1>3, <1>4, LocalStep DEF Inserts, Holds, Deletes, Deleted

\* The caller's permission rests on the rows in force, and so on the log.
LEMMA AuthorizeInv ==
  ASSUME Inv, NEW r \in Req, NEW actor \in User, NEW ask \in Ask,
         Authorize(r, actor, ask)
  PROVE  Inv'
<1> DEFINE e == [by |-> r, actor |-> actor, ask |-> ask]
           x == [tx[r] EXCEPT !.pc = "reading", !.entry = <<e>>]
<1>1. UNCHANGED tables
  BY DEF Authorize
<1>2. CASE Finish(r, "forbidden")
  BY <1>1, <1>2, FinishStep DEF Outcome
<1>3. CASE ~Finish(r, "forbidden")
  <2>1. /\ tx[r].pc = "idle" /\ tx' = [tx EXCEPT ![r] = x]
        /\ Required(ask) \in PermissionsOf(actor, pairs)
    BY <1>3 DEF Authorize
  <2>2. e \in Entry /\ <<e>> \in Seq(Entry) /\ Len(<<e>>) = 1 /\ <<e>>[1] = e
    BY DEF Entry
  <2>3. /\ tx[r] \in Tx /\ tx[r].removes = {} /\ ~tx[r].changes
    BY <2>1 DEF Inv, TypeOK, Fits, Tells
  <2>4. /\ x \in Tx /\ x.pc = "reading" /\ x.removes = {} /\ ~x.changes
        /\ x.entry = <<e>>
    BY <2>2, <2>3 DEF Tx, Phase
  <2>5. Entitled(actor, Required(ask), Seeded \cup Granted(audit))
    BY <2>1, ResolvedIsEntitled, InForceIsGranted, EntitledGrows
  <2>6. x.entry[1].actor = actor /\ AskBy(x) = ask
    BY <2>4 DEF AskBy
  <2> HIDE DEF x
  <2>7. Fits(x)
    BY <2>2, <2>4, <2>5, <2>6
       DEF Fits, Tells, InsertsNew, CascadeComplete, ActsByLog, Inserts, Holds,
           Deleted
  <2> QED BY <1>1, <2>1, <2>4, <2>7, LocalStep DEF Inserts, Holds, Deletes, Deleted
<1> QED BY <1>2, <1>3

-----------------------------------------------------------------------------
(* The SELECTs, and the statements that wait for locks *)

\* A request that goes on: what it was asked, and its right to, stay.
LEMMA ProceedStep ==
  ASSUME Inv, NEW r \in Req, Underway(tx[r]), NEW x \in Tx, Underway(x),
         x.entry = tx[r].entry, tx' = [tx EXCEPT ![r] = x], UNCHANGED tables,
         Len(x.entry) = 1 => Tells(x), InsertsNew(x), CascadeComplete(x),
         Inserts(x) =>
            \A s \in Req \ {r} : Inserts(tx[s]) => AskOf(s).on # AskOf(r).on,
         \A s \in Req \ {r}, g \in Group :
            /\ Holds(x, g) => ~Deletes(tx[s], g)
            /\ Deletes(x, g) => ~Holds(tx[s], g)
  PROVE  Inv'
<1>1. Tells(tx[r]) /\ ActsByLog(tx[r])
  BY DEF Inv, Fits
<1>2. Len(x.entry) = 1 /\ AskBy(x) = AskOf(r) /\ AskBy(x) = AskBy(tx[r])
  BY <1>1 DEF Tells, AskBy, AskOf
<1>3. ActsByLog(x)
  BY <1>1, <1>2 DEF ActsByLog
<1>4. Fits(x)
  BY <1>2, <1>3 DEF Fits
<1> QED BY <1>2, <1>4, LocalStep

\* The entry of a request under way.
LEMMA EntryState ==
  ASSUME Inv, NEW r \in Req, Underway(tx[r])
  PROVE  /\ tx[r] \in Tx /\ Len(tx[r].entry) = 1
         /\ tx[r].entry[1] \in Entry /\ AskOf(r) \in Ask
         /\ AskOf(r) = AskBy(tx[r]) /\ AskOf(r) = tx[r].entry[1].ask
BY RequestState DEF Inv, Fits, Tells, AskOf

LEMMA RefuseInv ==
  ASSUME Inv, NEW r \in Req, Refuse(r)
  PROVE  Inv'
BY FinishStep DEF Refuse, Outcome

\* A SELECT claims nothing.
LEMMA ReadInv ==
  ASSUME Inv, NEW r \in Req, Read(r) \/ ReadSame(r)
  PROVE  Inv'
<1>1. Underway(tx[r]) /\ tx[r].pc = "reading" /\ UNCHANGED tables
  BY DEF Read, ReadSame, Underway
<1>2. Tells(tx[r]) /\ tx[r] \in Tx /\ AskOf(r) = AskBy(tx[r])
  BY <1>1, EntryState DEF Inv, Fits
<1>3. CASE Read(r)
  <2> DEFINE x == [tx[r] EXCEPT !.pc = "writing"]
  <2>1. x \in Tx /\ x.pc = "writing" /\ x.entry = tx[r].entry
        /\ x.removes = {} /\ ~x.changes
    BY <1>1, <1>2 DEF Tx, Phase, Tells
  <2>2. tx' = [tx EXCEPT ![r] = x]
    BY <1>3 DEF Read
  <2> HIDE DEF x
  <2> QED BY <1>1, <2>1, <2>2, ProceedStep
          DEF Underway, Tells, InsertsNew, CascadeComplete, Inserts, Holds, Deletes,
              Deleted
<1>4. CASE ReadSame(r)
  <2> DEFINE x == [tx[r] EXCEPT !.pc = "flushed"]
  <2>1. x \in Tx /\ x.pc = "flushed" /\ x.entry = tx[r].entry
        /\ x.removes = {} /\ ~x.changes
    BY <1>1, <1>2 DEF Tx, Phase, Tells
  <2>2. tx' = [tx EXCEPT ![r] = x]
    BY <1>4 DEF ReadSame
  <2>3. AskBy(x).op \in {"activate", "deactivate"}
    BY <1>4, <2>1 DEF ReadSame, AskOf, AskBy
  <2> HIDE DEF x
  <2> QED BY <1>1, <2>1, <2>2, <2>3, ProceedStep
          DEF Underway, Tells, InsertsNew, CascadeComplete, Inserts, Holds, Deletes,
              Deleted
<1> QED BY <1>3, <1>4

\* The primary key admits one insertion of a row that is not there.
LEMMA InsertPairInv ==
  ASSUME Inv, NEW r \in Req, InsertPair(r)
  PROVE  Inv'
<1>1. /\ Underway(tx[r]) /\ tx[r].pc = "writing" /\ UNCHANGED tables
      /\ AskOf(r).op = "grant" /\ ~PairComing(AskOf(r).on)
  BY DEF InsertPair, Underway
<1>2. CASE Finish(r, "conflict")
  BY <1>1, <1>2, FinishStep DEF Outcome
<1>3. CASE ~Finish(r, "conflict")
  <2> DEFINE x == [tx[r] EXCEPT !.pc = "linking"]
  <2>1. AskOf(r).on \notin pairs /\ tx' = [tx EXCEPT ![r] = x]
    BY <1>3 DEF InsertPair
  <2>2. Tells(tx[r]) /\ tx[r] \in Tx
    BY <1>1, EntryState DEF Inv, Fits
  <2>3. x \in Tx /\ x.pc = "linking" /\ x.entry = tx[r].entry
        /\ x.removes = {} /\ ~x.changes
    BY <1>1, <2>2 DEF Tx, Phase, Tells
  <2>4. AskBy(x) = AskOf(r)
    BY <2>3 DEF AskBy, AskOf
  <2>5. \A s \in Req \ {r} : Inserts(tx[s]) => AskOf(s).on # AskOf(r).on
    BY <1>1 DEF PairComing, Inserts, Flushed, AskOf, AskBy
  <2> HIDE DEF x
  <2>6. Len(x.entry) = 1 => Tells(x)
    BY <1>1, <2>3, <2>4 DEF Tells
  <2>7. InsertsNew(x) /\ CascadeComplete(x) /\ Underway(x)
    BY <2>1, <2>3, <2>4 DEF InsertsNew, CascadeComplete, Holds, Deleted, Underway
  <2>8. \A g \in Group : ~Holds(x, g) /\ ~Deletes(x, g)
    BY <2>3 DEF Holds, Deletes, Deleted
  <2> QED BY <1>1, <2>1, <2>3, <2>5, <2>6, <2>7, <2>8, ProceedStep
<1> QED BY <1>2, <1>3

\* A statement that takes effect: the request keeps what it removes locked.
LEMMA WriteState ==
  ASSUME Inv, NEW r \in Req, NEW removed \in SUBSET Pair, Underway(tx[r]),
         tx[r].pc # "flushed", Write(r, removed)
  PROVE  \E x \in Tx :
            /\ tx' = [tx EXCEPT ![r] = x]
            /\ x.pc = "flushed" /\ x.entry = tx[r].entry /\ x.changes
            /\ x.removes = removed /\ AskBy(x) = AskOf(r) /\ Underway(x)
            /\ x.entry[1].ask = AskOf(r)
<1> DEFINE x == [tx[r] EXCEPT !.pc = "flushed", !.changes = TRUE, !.removes = removed]
<1>1. tx[r] \in Tx
  BY EntryState
<1>2. x \in Tx /\ x.pc = "flushed" /\ x.entry = tx[r].entry /\ x.changes
      /\ x.removes = removed
  BY <1>1 DEF Tx, Phase
<1>3. tx' = [tx EXCEPT ![r] = x]
  BY DEF Write
<1> HIDE DEF x
<1> QED BY <1>2, <1>3 DEF AskBy, AskOf, Underway

\* The foreign key's lock goes to a request whose group is there and stays.
LEMMA LinkPairInv ==
  ASSUME Inv, NEW r \in Req, LinkPair(r)
  PROVE  Inv'
<1>1. /\ Underway(tx[r]) /\ tx[r].pc = "linking" /\ UNCHANGED tables
      /\ \A g \in Group : InGroup(AskOf(r).on, g) => ~GroupGoing(g)
  BY DEF LinkPair, Underway
<1>2. CASE Finish(r, "conflict")
  BY <1>1, <1>2, FinishStep DEF Outcome
<1>3. CASE ~Finish(r, "conflict")
  <2>1. ~Missing(AskOf(r)) /\ Write(r, {})
    BY <1>3 DEF LinkPair
  <2>2. PICK x \in Tx :
            /\ tx' = [tx EXCEPT ![r] = x]
            /\ x.pc = "flushed" /\ x.entry = tx[r].entry /\ x.changes
            /\ x.removes = {} /\ AskBy(x) = AskOf(r) /\ Underway(x)
            /\ x.entry[1].ask = AskOf(r)
    BY <1>1, <2>1, WriteState
  <2>3. /\ AskOf(r).op = "grant" /\ AskOf(r).on \notin pairs /\ Inserts(tx[r])
    BY <1>1, EntryState DEF Inv, Fits, Tells, InsertsNew, Inserts
  <2>4. \A g \in Group : InGroup(AskOf(r).on, g) => GroupExists(g)
    BY <2>1, <2>3 DEF Missing
  <2>5. \A s \in Req \ {r} : Inserts(tx[s]) => AskOf(s).on # AskOf(r).on
    BY <2>3 DEF Inv, InsertersApart
  <2>6. ASSUME NEW s \in Req \ {r}, NEW g \in Group, Holds(x, g)
        PROVE  ~Deletes(tx[s], g)
    BY <1>1, <2>2, <2>6
       DEF Holds, Deletes, Deleted, GroupGoing, Flushed, AskOf, AskBy
  <2>7. InsertsNew(x) /\ CascadeComplete(x) /\ Tells(x)
    BY <2>2, <2>3, <2>4, EntryState, <1>1
       DEF InsertsNew, CascadeComplete, Tells, Inserts, Holds, Deleted
  <2>8. \A g \in Group : ~Deletes(x, g)
    BY <2>2, <2>3 DEF Deletes, Deleted
  <2> QED BY <1>1, <2>2, <2>5, <2>6, <2>7, <2>8, ProceedStep
<1> QED BY <1>2, <1>3

\* A statement that takes effect, and neither inserts nor deletes a group's rows.
LEMMA PlainWriteStep ==
  ASSUME Inv, NEW r \in Req, NEW removed \in SUBSET Pair, Underway(tx[r]),
         tx[r].pc # "flushed", Write(r, removed), UNCHANGED tables,
         AskOf(r).op \notin {"grant", "delete"},
         \A p \in removed : Ends(tx[r].entry[1], p)
  PROVE  Inv'
<1>1. PICK x \in Tx :
          /\ tx' = [tx EXCEPT ![r] = x]
          /\ x.pc = "flushed" /\ x.entry = tx[r].entry /\ x.changes
          /\ x.removes = removed /\ AskBy(x) = AskOf(r) /\ Underway(x)
          /\ x.entry[1].ask = AskOf(r)
  BY WriteState
<1>2. Len(x.entry) = 1 => Tells(x)
  BY <1>1 DEF Tells
<1>3. InsertsNew(x) /\ CascadeComplete(x) /\ ~Inserts(x)
  BY <1>1 DEF InsertsNew, CascadeComplete, Inserts, Holds, Deleted
<1>4. \A g \in Group : ~Holds(x, g) /\ ~Deletes(x, g)
  BY <1>1 DEF Holds, Deletes, Deleted
<1> QED BY <1>1, <1>2, <1>3, <1>4, ProceedStep

\* A revocation removes its row, or nothing.
LEMMA DeletePairInv ==
  ASSUME Inv, NEW r \in Req, DeletePair(r)
  PROVE  Inv'
<1>1. /\ Underway(tx[r]) /\ tx[r].pc = "writing" /\ AskOf(r).op = "revoke"
      /\ Write(r, {AskOf(r).on} \cap pairs) /\ UNCHANGED tables
  BY DEF DeletePair, Underway
<1>2. {AskOf(r).on} \cap pairs \in SUBSET Pair
  BY DEF Inv, TypeOK
<1>3. \A p \in {AskOf(r).on} \cap pairs : Ends(tx[r].entry[1], p)
  BY <1>1, EntryState DEF Ends
<1> QED BY <1>1, <1>2, <1>3, PlainWriteStep

LEMMA InsertGroupInv ==
  ASSUME Inv, NEW r \in Req, InsertGroup(r)
  PROVE  Inv'
<1>1. /\ Underway(tx[r]) /\ tx[r].pc = "writing" /\ AskOf(r).op = "create"
      /\ Finish(r, "conflict") \/ Write(r, {})
      /\ UNCHANGED tables
  BY DEF InsertGroup, Underway
<1>2. CASE Finish(r, "conflict")
  BY <1>1, <1>2, FinishStep DEF Outcome
<1>3. CASE Write(r, {})
  BY <1>1, <1>3, PlainWriteStep
<1> QED BY <1>1, <1>2, <1>3

LEMMA UpdateUserInv ==
  ASSUME Inv, NEW r \in Req, UpdateUser(r)
  PROVE  Inv'
<1>1. /\ Underway(tx[r]) /\ tx[r].pc = "writing" /\ UNCHANGED tables
      /\ AskOf(r).op \in {"activate", "deactivate"} /\ Write(r, {})
  BY DEF UpdateUser, Underway
<1> QED BY <1>1, PlainWriteStep

\* A deletion takes the group's row only when nobody's foreign key holds it.
LEMMA DeleteGroupInv ==
  ASSUME Inv, NEW r \in Req, DeleteGroup(r)
  PROVE  Inv'
<1> DEFINE pc == IF GroupExists(AskOf(r).on) THEN "cascading" ELSE "flushed"
           x == [tx[r] EXCEPT !.pc = pc]
<1>1. /\ Underway(tx[r]) /\ tx[r].pc = "writing" /\ UNCHANGED tables
      /\ AskOf(r).op = "delete" /\ ~GroupHeld(AskOf(r).on)
      /\ tx' = [tx EXCEPT ![r] = x]
  BY DEF DeleteGroup, Underway
<1>2. Tells(tx[r]) /\ tx[r] \in Tx
  BY <1>1, EntryState DEF Inv, Fits
<1>3. pc \in {"cascading", "flushed"}
  OBVIOUS
<1> HIDE DEF pc
<1>4. /\ x \in Tx /\ x.pc \in {"cascading", "flushed"} /\ x.entry = tx[r].entry
      /\ x.removes = {} /\ ~x.changes
  BY <1>1, <1>2, <1>3 DEF Tx, Phase, Tells
<1>5. AskBy(x) = AskOf(r)
  BY <1>4 DEF AskBy, AskOf
<1> HIDE DEF x
<1>6. Len(x.entry) = 1 => Tells(x)
  BY <1>1, <1>4, <1>5 DEF Tells
<1>7. InsertsNew(x) /\ CascadeComplete(x) /\ Underway(x) /\ ~Inserts(x)
  BY <1>4 DEF InsertsNew, CascadeComplete, Inserts, Holds, Deleted, Underway
<1>8. \A g \in Group : ~Holds(x, g)
  BY <1>4 DEF Holds
<1>9. ASSUME NEW s \in Req, NEW g \in Group, Deletes(x, g) PROVE ~Holds(tx[s], g)
  <2>1. g = AskOf(r).on
    BY <1>5, <1>9 DEF Deletes, Deleted
  <2> QED BY <1>1, <2>1 DEF GroupHeld, Flushed, Holds, AskOf, AskBy
<1> QED BY <1>1, <1>4, <1>6, <1>7, <1>8, <1>9, ProceedStep

\* The cascade takes every committed row of the group.
LEMMA CascadeInv ==
  ASSUME Inv, NEW r \in Req, Cascade(r)
  PROVE  Inv'
<1> DEFINE rows == CascadeTo(AskOf(r).on)
<1>1. /\ Underway(tx[r]) /\ tx[r].pc = "cascading" /\ UNCHANGED tables
      /\ Write(r, rows)
  BY DEF Cascade, Underway
<1>2. rows \in SUBSET Pair /\ \A p \in rows : InGroup(p, AskOf(r).on)
  BY DEF Inv, TypeOK, CascadeTo
<1>3. AskOf(r).op = "delete" /\ AskOf(r) = AskBy(tx[r])
  BY <1>1, EntryState DEF Inv, Fits, Tells
<1>4. PICK x \in Tx :
          /\ tx' = [tx EXCEPT ![r] = x]
          /\ x.pc = "flushed" /\ x.entry = tx[r].entry /\ x.changes
          /\ x.removes = rows /\ AskBy(x) = AskOf(r) /\ Underway(x)
          /\ x.entry[1].ask = AskOf(r)
  BY <1>1, <1>2, WriteState
<1>5. Len(x.entry) = 1 => Tells(x)
  BY <1>2, <1>3, <1>4 DEF Tells, Ends
<1>6. InsertsNew(x) /\ CascadeComplete(x) /\ ~Inserts(x)
  BY <1>3, <1>4 DEF InsertsNew, CascadeComplete, Inserts, Holds, Deleted
<1>7. \A g \in Group : ~Holds(x, g)
  BY <1>3, <1>4 DEF Holds
<1>8. ASSUME NEW s \in Req, NEW g \in Group, Deletes(x, g) PROVE ~Holds(tx[s], g)
  <2>1. Deletes(tx[r], g)
    BY <1>1, <1>3, <1>4, <1>8 DEF Deletes, Deleted
  <2> QED BY <2>1 DEF Inv, HoldersApart
<1> QED BY <1>1, <1>4, <1>5, <1>6, <1>7, <1>8, ProceedStep

-----------------------------------------------------------------------------
(* The commit *)

\* The log grows by the request's one entry.
LEMMA LogGrows ==
  ASSUME Inv, NEW r \in Req, Commit(r)
  PROVE  /\ Len(audit') = Len(audit) + 1 /\ Len(audit) \in Nat
         /\ \A i \in 1..Len(audit) : audit'[i] = audit[i]
         /\ audit'[Len(audit) + 1] = tx[r].entry[1]
         /\ audit' \in Seq(Entry)
<1>1. audit \in Seq(Entry) /\ tx[r].entry \in Seq(Entry) /\ Len(tx[r].entry) = 1
  BY EntryState DEF Inv, TypeOK, Tx, Commit, Underway
<1>2. audit' = audit \o tx[r].entry
  BY DEF Commit, Recorded
<1>3. /\ audit' \in Seq(Entry)
      /\ Len(audit') = Len(audit) + Len(tx[r].entry)
      /\ \A i \in 1..(Len(audit) + Len(tx[r].entry)) :
            audit'[i] = IF i <= Len(audit) THEN audit[i]
                        ELSE tx[r].entry[i - Len(audit)]
  BY <1>1, <1>2, ConcatProperties
<1>4. Len(audit) \in Nat
  BY <1>1
<1> QED BY <1>1, <1>3, <1>4

\* What a commit does to the tables, in terms of its entry in the log.
LEMMA CommitFacts ==
  ASSUME Inv, NEW r \in Req, Commit(r)
  PROVE  LET e == tx[r].entry[1]
         IN  /\ \A p \in pairs' :
                   p \in pairs \/ (p \in Pair /\ Grants(e, p) /\ Inserts(tx[r]))
             /\ \A p \in pairs : p \in pairs' \/ (Ends(e, p) /\ p \in tx[r].removes)
             /\ \A p \in Pair : Grants(e, p) => p \in pairs' /\ Inserts(tx[r])
             /\ \A p \in tx[r].removes : p \in pairs' => Grants(e, p)
             /\ \A g \in Group : groups'[g] = NoName
                                => groups[g] = NoName \/ Deleted(tx[r], g)
             /\ AskOf(r) = e.ask /\ AskBy(tx[r]) = e.ask
             /\ tx[r].pc = "flushed"
<1> DEFINE e == tx[r].entry[1]
<1>1. tx[r].pc = "flushed" /\ Underway(tx[r])
  BY DEF Commit, Underway
<1>2. AskOf(r) = e.ask /\ AskBy(tx[r]) = e.ask /\ e.ask \in Ask /\ Tells(tx[r])
  BY <1>1, EntryState DEF Inv, Fits
<1>3. /\ pairs' = (pairs \ tx[r].removes)
            \cup {p \in Pair : tx[r].changes /\ e.ask.op = "grant" /\ p = e.ask.on}
      /\ groups' = [g \in Group |->
            IF tx[r].changes /\ e.ask.op = "create" /\ g = r THEN e.ask.on
            ELSE IF tx[r].changes /\ e.ask.op = "delete" /\ g = e.ask.on THEN NoName
            ELSE groups[g]]
  BY <1>2 DEF Commit
<1>4. \A p \in pairs' :
         p \in pairs \/ (p \in Pair /\ Grants(e, p) /\ Inserts(tx[r]))
  BY <1>1, <1>2, <1>3 DEF Grants, Inserts
<1>5. \A p \in pairs : p \in pairs' \/ (Ends(e, p) /\ p \in tx[r].removes)
  BY <1>2, <1>3 DEF Tells
<1>6. \A p \in Pair : Grants(e, p) => p \in pairs' /\ Inserts(tx[r])
  BY <1>1, <1>2, <1>3 DEF Grants, Tells, Inserts
<1>7. \A p \in tx[r].removes : p \in pairs' => Grants(e, p)
  BY <1>3 DEF Grants
<1>8. ASSUME NEW g \in Group, groups'[g] = NoName
      PROVE  groups[g] = NoName \/ Deleted(tx[r], g)
  <2>1. e.ask.op = "create" => e.ask.on # NoName
    BY <1>2, AskedOf, GroupAssumption
  <2> QED BY <1>1, <1>2, <1>3, <1>8, <2>1 DEF Deleted
<1> QED BY <1>1, <1>2, <1>4, <1>5, <1>6, <1>7, <1>8

\* Columns keep their types.
LEMMA CommitTypes ==
  ASSUME Inv, NEW r \in Req, Commit(r)
  PROVE  TypeOK'
<1>1. tx[r].pc = "flushed" /\ Underway(tx[r])
  BY DEF Commit, Underway
<1>2. AskOf(r) \in Ask
  BY <1>1, EntryState
<1>3. pairs' \subseteq Pair /\ active' \subseteq User
  BY DEF Commit, Inv, TypeOK
<1>4. groups' \in [Group -> Name \cup {NoName}]
  BY <1>2, AskedOf DEF Commit, Inv, TypeOK
<1>5. tx' \in [Req -> Tx]
  <2>1. [IdleTx EXCEPT !.pc = "done", !.out = "ok"] \in Tx
    <3>1. IdleTx \in Tx
      <4>1. <<>> \in Seq(Entry) /\ {} \in SUBSET Pair /\ "idle" \in Phase
            /\ "none" \in Outcome
        BY DEF Phase, Outcome
      <4> QED BY <4>1 DEF IdleTx, Tx
    <3> QED BY <3>1 DEF Tx, Phase, Outcome
  <2> QED BY <2>1 DEF Commit, Finish, Inv, TypeOK
<1> QED BY <1>3, <1>4, <1>5, LogGrows DEF TypeOK

\* The requests that stay are as they were; r has ended.
LEMMA CommitLeaves ==
  ASSUME Inv, NEW r \in Req, Commit(r)
  PROVE  /\ \A s \in Req \ {r} : tx'[s] = tx[s]
         /\ ~Underway(tx'[r]) /\ tx'[r].removes = {} /\ ~tx'[r].changes
         /\ tx'[r].pc = "done"
<1>1. tx' = [tx EXCEPT ![r] = [IdleTx EXCEPT !.pc = "done", !.out = "ok"]]
  BY DEF Commit, Finish
<1> QED BY <1>1 DEF Inv, TypeOK, Underway, IdleTx

\* Requests under way still fit the tables: nobody inserted their row, deleted the
\* group they hold, or added to the group they delete.
LEMMA CommitFits ==
  ASSUME Inv, NEW r \in Req, Commit(r), NEW s \in Req
  PROVE  Fits(tx[s])'
<1> DEFINE e == tx[r].entry[1]
<1>1. CASE s = r
  BY <1>1, CommitLeaves
     DEF Fits, Tells, InsertsNew, CascadeComplete, ActsByLog, Underway, Inserts, Holds,
         Deleted
<1>2. CASE s # r
  <2>1. tx'[s] = tx[s] /\ Fits(tx[s])
    BY <1>2, CommitLeaves DEF Inv
  <2>2. Tells(tx[s])'
    BY <2>1 DEF Fits, Tells, Underway, AskBy, Ends, InGroup
  <2>3. Inserts(tx[s]) => AskBy(tx[s]).on \notin pairs'
    <3> SUFFICES ASSUME Inserts(tx[s]), AskBy(tx[s]).on \in pairs' PROVE FALSE
      OBVIOUS
    <3>1. AskBy(tx[s]).on \notin pairs
      BY <2>1 DEF Fits, InsertsNew
    <3>2. Grants(e, AskBy(tx[s]).on) /\ Inserts(tx[r])
      BY <3>1, CommitFacts
    <3>3. AskOf(r).on = AskOf(s).on
      BY <3>2, CommitFacts DEF Grants, AskOf, AskBy
    <3> QED BY <1>2, <3>2, <3>3 DEF Inv, InsertersApart
  <2>4. ASSUME NEW g \in Group, Holds(tx[s], g) PROVE groups'[g] # NoName
    <3>1. groups[g] # NoName
      BY <2>1, <2>4 DEF Fits, InsertsNew, GroupExists
    <3>2. ~Deleted(tx[r], g)
      BY <2>4 DEF Inv, HoldersApart, Deletes
    <3> QED BY <3>1, <3>2, CommitFacts
  <2>5. InsertsNew(tx[s])'
    BY <2>1, <2>3, <2>4 DEF InsertsNew, Inserts, Holds, AskBy, GroupExists, InGroup
  <2>6. ASSUME NEW g \in Group, Deleted(tx[s], g), NEW p \in pairs', InGroup(p, g)
        PROVE  p \in tx[s].removes
    <3>1. CASE p \in pairs
      BY <2>1, <2>6, <3>1 DEF Fits, CascadeComplete, CascadeTo
    <3>2. CASE p \notin pairs
      <4>1. Grants(e, p) /\ Inserts(tx[r])
        BY <3>2, CommitFacts
      <4>2. Holds(tx[r], g)
        BY <2>6, <4>1, CommitFacts DEF Grants, Inserts, Holds
      <4> QED BY <2>6, <4>2 DEF Inv, HoldersApart, Deletes
    <3> QED BY <3>1, <3>2
  <2>7. CascadeComplete(tx[s])'
    BY <2>1, <2>6 DEF CascadeComplete, Deleted, AskBy, CascadeTo, InGroup
  <2>8. ActsByLog(tx[s])'
    <3>1. Granted(audit) \subseteq Granted(audit)'
      BY LogGrows DEF Granted, Grants
    <3>2. Seeded \cup Granted(audit) \subseteq Seeded \cup Granted(audit)'
      BY <3>1
    <3>3. ActsByLog(tx[s])
      BY <2>1 DEF Fits
    <3> QED BY <2>1, <3>2, <3>3, EntitledGrows DEF ActsByLog, Underway, AskBy
  <2> QED BY <2>2, <2>5, <2>7, <2>8 DEF Fits
<1> QED BY <1>1, <1>2

\* A new row's group was there and is; a group that goes takes its rows along.
LEMMA CommitNoOrphans ==
  ASSUME Inv, NEW r \in Req, Commit(r)
  PROVE  NoOrphans'
<1> DEFINE e == tx[r].entry[1]
<1> SUFFICES ASSUME NEW p \in pairs', NEW g \in Group, InGroup(p, g), groups'[g] = NoName
             PROVE  FALSE
  BY DEF NoOrphans, GroupExists, InGroup
<1>1. CASE p \in pairs
  <2>1. groups[g] # NoName
    BY <1>1 DEF Inv, NoOrphans, GroupExists
  <2>2. Deleted(tx[r], g)
    BY <2>1, CommitFacts
  <2>3. p \in tx[r].removes
    BY <1>1, <2>2 DEF Inv, Fits, CascadeComplete, CascadeTo
  <2>4. Grants(e, p)
    BY <2>3, CommitFacts
  <2> QED BY <2>2, <2>4, CommitFacts DEF Grants, Deleted
<1>2. CASE p \notin pairs
  <2>1. Grants(e, p) /\ Inserts(tx[r])
    BY <1>2, CommitFacts
  <2>2. Holds(tx[r], g)
    BY <2>1, CommitFacts DEF Grants, Inserts, Holds
  <2>3. groups[g] # NoName
    BY <2>2 DEF Inv, Fits, InsertsNew, GroupExists
  <2>4. Deleted(tx[r], g)
    BY <2>3, CommitFacts
  <2> QED BY <2>1, <2>4, CommitFacts DEF Grants, Deleted
<1> QED BY <1>1, <1>2

\* A grant that is not taken back stays in force, and a row that comes into force
\* comes with its grant.
LEMMA CommitLog ==
  ASSUME Inv, NEW r \in Req, Commit(r)
  PROVE  LogCoversGrants'
<1> DEFINE e == tx[r].entry[1]
           n == Len(audit)
<1>1. /\ Len(audit') = n + 1 /\ n \in Nat
      /\ \A i \in 1..n : audit'[i] = audit[i]
      /\ audit'[n + 1] = e
  BY LogGrows
<1> HIDE DEF e, n
<1>2. ASSUME NEW p \in Pair, NEW i \in 1..Len(audit'), Grants(audit'[i], p),
             \A j \in (i + 1)..Len(audit') : ~Ends(audit'[j], p)
      PROVE  p \in pairs'
  <2>1. CASE i = n + 1
    BY <1>1, <1>2, <2>1, CommitFacts DEF e
  <2>2. CASE i # n + 1
    <3>1. i \in 1..n /\ Grants(audit[i], p)
      BY <1>1, <1>2, <2>2
    <3>2. \A j \in (i + 1)..n : ~Ends(audit[j], p)
      BY <1>1, <1>2, <3>1
    <3>3. ~Ends(e, p)
      BY <1>1, <1>2, <3>1
    <3>4. p \in pairs
      BY <3>1, <3>2 DEF Inv, LogCoversGrants, n
    <3> QED BY <3>3, <3>4, CommitFacts DEF e
  <2> QED BY <2>1, <2>2
<1>3. ASSUME NEW p \in Pair, p \in pairs', p \notin Seeded
      PROVE  \E i \in 1..Len(audit') : Grants(audit'[i], p)
  <2>1. CASE p \in pairs
    <3>1. PICK i \in 1..n : Grants(audit[i], p)
      BY <1>3, <2>1 DEF Inv, LogCoversGrants, n
    <3> QED BY <1>1, <3>1
  <2>2. CASE p \notin pairs
    BY <1>1, <1>3, <2>2, CommitFacts DEF e
  <2> QED BY <2>1, <2>2
<1> QED BY <1>2, <1>3 DEF LogCoversGrants, Grants, Ends, InGroup

\* The primary key: a grant commits only while its row is not in force, so that
\* the log has taken back every grant of it before.
LEMMA CommitAlternates ==
  ASSUME Inv, NEW r \in Req, Commit(r)
  PROVE  GrantsAlternate'
<1> DEFINE e == tx[r].entry[1]
           n == Len(audit)
<1>1. /\ Len(audit') = n + 1 /\ n \in Nat
      /\ \A i \in 1..n : audit'[i] = audit[i]
      /\ audit'[n + 1] = e
  BY LogGrows
<1> HIDE DEF e, n
<1> SUFFICES ASSUME NEW p \in Pair, NEW i \in 1..(n + 1), NEW j \in 1..(n + 1), i < j,
                    Grants(audit'[i], p), Grants(audit'[j], p)
             PROVE  \E k \in (i + 1)..(j - 1) : Ends(audit'[k], p)
  BY <1>1 DEF GrantsAlternate, Grants, Ends, InGroup
<1>2. i \in 1..n /\ Grants(audit[i], p)
  BY <1>1
<1>3. CASE j \in 1..n
  <2>1. PICK k \in (i + 1)..(j - 1) : Ends(audit[k], p)
    BY <1>1, <1>2, <1>3 DEF Inv, GrantsAlternate, n
  <2>2. k \in 1..n
    BY <1>1, <1>3
  <2> QED BY <1>1, <2>1, <2>2
<1>4. CASE j = n + 1
  <2>1. Grants(e, p)
    BY <1>1, <1>4
  <2>2. Inserts(tx[r]) /\ AskBy(tx[r]).on = p
    BY <2>1, CommitFacts DEF e, Grants
  <2>3. p \notin pairs
    BY <2>2 DEF Inv, Fits, InsertsNew
  <2>4. PICK k \in (i + 1)..n : Ends(audit[k], p)
    BY <1>2, <2>3 DEF Inv, LogCoversGrants, n
  <2>5. k \in 1..n /\ k \in (i + 1)..(j - 1)
    BY <1>1, <1>4
  <2> QED BY <1>1, <2>4, <2>5
<1> QED BY <1>1, <1>3, <1>4

\* Whoever acts could hold the permission by what the log had granted by then.
LEMMA CommitAuthority ==
  ASSUME Inv, NEW r \in Req, Commit(r)
  PROVE  AuthorityFromLog'
<1> DEFINE e == tx[r].entry[1]
           n == Len(audit)
           Before(log, i) == {p \in Pair : \E j \in 1..(i - 1) : Grants(log[j], p)}
           Holder(x, log, i) ==
              Entitled(x.actor, Required(x.ask), Seeded \cup Before(log, i))
<1>1. /\ Len(audit') = n + 1 /\ n \in Nat
      /\ \A i \in 1..n : audit'[i] = audit[i]
      /\ audit'[n + 1] = e
  BY LogGrows
<1>2. ASSUME NEW i \in 1..(n + 1) PROVE Holder(audit'[i], audit', i)
  <2>1. \A j \in 1..(i - 1) : audit'[j] = audit[j]
    BY <1>1
  <2>2. Before(audit', i) = Before(audit, i)
    BY <2>1
  <2>3. CASE i \in 1..n
    <3>1. Holder(audit[i], audit, i)
      BY <2>3 DEF Inv, AuthorityFromLog
    <3> QED BY <1>1, <2>2, <2>3, <3>1
  <2>4. CASE i = n + 1
    <3>1. Before(audit, i) = Granted(audit)
      BY <1>1, <2>4 DEF Granted
    <3>2. Entitled(e.actor, Required(e.ask), Seeded \cup Granted(audit))
      BY CommitFacts DEF Inv, Fits, ActsByLog, Underway
    <3> QED BY <1>1, <2>2, <2>4, <3>1, <3>2
  <2> QED BY <1>1, <2>3, <2>4
<1> QED BY <1>1, <1>2 DEF AuthorityFromLog, Grants, Entitled, Required

LEMMA CommitInv ==
  ASSUME Inv, NEW r \in Req, Commit(r)
  PROVE  Inv'
<1>1. InsertersApart'
  <2> SUFFICES ASSUME NEW s \in Req, NEW u \in Req, Inserts(tx'[s]), Inserts(tx'[u]),
                      AskBy(tx'[s]).on = AskBy(tx'[u]).on
               PROVE  s = u
    BY DEF InsertersApart, Inserts, AskBy, AskOf
  <2>1. s # r /\ u # r
    BY CommitLeaves DEF Inserts
  <2> QED BY <2>1, CommitLeaves DEF Inv, InsertersApart, AskBy, AskOf
<1>2. HoldersApart'
  <2> SUFFICES ASSUME NEW s \in Req, NEW u \in Req, NEW g \in Group,
                      Holds(tx'[s], g), Deletes(tx'[u], g)
               PROVE  FALSE
    BY DEF HoldersApart, Holds, Deletes, Deleted, AskBy
  <2>1. s # r /\ u # r
    BY CommitLeaves DEF Holds, Deletes, Deleted
  <2> QED BY <2>1, CommitLeaves DEF Inv, HoldersApart
<1> QED BY <1>1, <1>2, CommitTypes, CommitFits, CommitNoOrphans, CommitLog,
           CommitAlternates, CommitAuthority DEF Inv

-----------------------------------------------------------------------------
(* Theorems *)

LEMMA InitInv == Init => Inv
<1> SUFFICES ASSUME Init PROVE Inv
  OBVIOUS
<1>1. TypeOK
  <2>1. <<>> \in Seq(Entry) /\ {} \in SUBSET Pair /\ "idle" \in Phase
        /\ "none" \in Outcome
    BY DEF Phase, Outcome
  <2>2. IdleTx \in Tx
    BY <2>1 DEF IdleTx, Tx
  <2> QED BY <2>1, <2>2, SeededAssumption, SeedGroupsAssumption DEF Init, TypeOK
<1>2. \A r \in Req : /\ tx[r].pc = "idle" /\ tx[r].removes = {}
                     /\ ~tx[r].changes
  BY DEF Init, IdleTx
<1>3. \A r \in Req : Fits(tx[r])
  BY <1>2 DEF Fits, Tells, InsertsNew, CascadeComplete, ActsByLog, Underway,
              Inserts, Holds, Deleted
<1>4. InsertersApart /\ HoldersApart
  BY <1>2 DEF InsertersApart, HoldersApart, Inserts, Holds
<1>5. NoOrphans
  BY SeededAssumption DEF Init, NoOrphans, GroupExists
<1>6. LogCoversGrants /\ GrantsAlternate /\ AuthorityFromLog
  <2>1. Len(audit) = 0 /\ pairs = Seeded
    BY DEF Init
  <2> QED BY <2>1 DEF LogCoversGrants, GrantsAlternate, AuthorityFromLog
<1> QED BY <1>1, <1>3, <1>4, <1>5, <1>6 DEF Inv

LEMMA NextInv == Inv /\ [Next]_vars => Inv'
<1> SUFFICES ASSUME Inv, [Next]_vars PROVE Inv'
  OBVIOUS
<1>1. ASSUME UNCHANGED vars PROVE Inv'
  BY <1>1
     DEF vars, Inv, TypeOK, Fits, Tells, InsertsNew, CascadeComplete, ActsByLog,
         Underway, AskBy, AskOf, Inserts, Holds, Deletes, Deleted, Granted, CascadeTo,
         InsertersApart, HoldersApart, NoOrphans, GroupExists, LogCoversGrants,
         GrantsAlternate, AuthorityFromLog
<1>2. ASSUME NEW r \in Req, NEW actor \in User, NEW ask \in Ask,
             Authorize(r, actor, ask)
      PROVE  Inv'
  BY <1>2, AuthorizeInv
<1>3. ASSUME NEW r \in Req, Rollback(r) PROVE Inv'
  BY <1>3, FinishStep DEF Rollback, Outcome
<1>4. ASSUME NEW r \in Req, Step(r) PROVE Inv'
  <2>1. CASE Refuse(r)
    BY <2>1, RefuseInv
  <2>2. CASE ReadSame(r) \/ Read(r)
    BY <2>2, ReadInv
  <2>3. CASE InsertPair(r)
    BY <2>3, InsertPairInv
  <2>4. CASE LinkPair(r)
    BY <2>4, LinkPairInv
  <2>5. CASE DeletePair(r)
    BY <2>5, DeletePairInv
  <2>6. CASE InsertGroup(r)
    BY <2>6, InsertGroupInv
  <2>7. CASE DeleteGroup(r)
    BY <2>7, DeleteGroupInv
  <2>8. CASE Cascade(r)
    BY <2>8, CascadeInv
  <2>9. CASE UpdateUser(r)
    BY <2>9, UpdateUserInv
  <2>10. CASE Commit(r)
    BY <2>10, CommitInv
  <2> QED BY <1>4, <2>1, <2>2, <2>3, <2>4, <2>5, <2>6, <2>7, <2>8, <2>9, <2>10 DEF Step
<1> QED BY <1>1, <1>2, <1>3, <1>4 DEF Next, Quiet

LEMMA Invariance == Spec => []Inv
BY InitInv, NextInv, PTL DEF Spec

\* The link tables, the groups, the log and the requests keep their types.
THEOREM TypeCorrect == Spec => []TypeOK
<1>1. Inv => TypeOK
  BY DEF Inv
<1> QED BY <1>1, Invariance, PTL

\* However deletions of groups overlap additions to them, no member and no role of
\* a group that is gone is left (iam_service.delete_group, ON DELETE CASCADE).
THEOREM NothingIsOrphaned == Spec => []NoOrphans
<1>1. Inv => NoOrphans
  BY DEF Inv
<1> QED BY <1>1, Invariance, PTL

\* What the audit log grants and does not take back is in force, and what is in
\* force was seeded or granted (iam_service._audit).
THEOREM LogIsFaithful == Spec => []LogCoversGrants
<1>1. Inv => LogCoversGrants
  BY DEF Inv
<1> QED BY <1>1, Invariance, PTL

\* Racing assignments never log two grants of one row without its revocation
\* between them (iam_service.assign_role and its like).
THEOREM GrantsAreApart == Spec => []GrantsAlternate
<1>1. Inv => GrantsAlternate
  BY DEF Inv
<1> QED BY <1>1, Invariance, PTL

\* Nobody acts on a permission that neither the seed nor an earlier logged grant
\* could have given, though permissions are resolved long before the commit
\* (api/deps.py require_permission).
THEOREM AuthorityIsHandedDown == Spec => []AuthorityFromLog
<1>1. Inv => AuthorityFromLog
  BY DEF Inv
<1> QED BY <1>1, Invariance, PTL

-----------------------------------------------------------------------------
(* Nobody waits for ever *)

\* Whoever holds rows or groups that others wait for can itself go on: what is
\* flushed needs only its commit; a cascade waits for what is flushed alone,
\* because a row that is being inserted is not among the rows it deletes; an
\* INSERT's foreign key waits for deletions alone.
LEMMA SomeoneIsUnblocked == Inv => NoWaitingCircle
<1> SUFFICES ASSUME Inv, NEW r \in Req, tx[r].pc \notin {"idle", "done"}
             PROVE  \E s \in Req : Unblocked(s)
  BY DEF NoWaitingCircle
<1>1. CASE \E s \in Req : tx[s].pc \in {"reading", "flushed"}
  BY <1>1 DEF Unblocked
<1>2. CASE \A s \in Req : tx[s].pc \notin {"reading", "flushed"}
  <2>1. /\ \A p : ~PairGoing(p)
        /\ \A g : ~GroupHeld(g)
        /\ \A s \in Req : \A op : ~Flushed(s, op)
    BY <1>2 DEF PairGoing, GroupHeld, Flushed, Inv, Fits, Tells
  <2>2. ASSUME NEW s \in Req, tx[s].pc = "cascading" PROVE Unblocked(s)
    <3>1. \A p \in pairs : ~PairComing(p)
      <4> SUFFICES ASSUME NEW p \in pairs, NEW u \in Req,
                          tx[u].pc = "linking", AskOf(u).on = p
                   PROVE  FALSE
        BY <2>1 DEF PairComing
      <4> QED BY DEF Inv, Fits, InsertsNew, Inserts, AskOf, AskBy
    <3> QED BY <2>1, <2>2, <3>1 DEF Unblocked, CascadeTo
  <2>3. CASE \A s \in Req : tx[s].pc # "cascading"
    <3>1. \A g : ~GroupGoing(g)
      BY <2>1, <2>3 DEF GroupGoing
    <3>2. ASSUME NEW s \in Req, tx[s].pc = "linking" PROVE Unblocked(s)
      BY <3>1, <3>2 DEF Unblocked
    <3>3. CASE \A s \in Req : tx[s].pc # "linking"
      <4>1. \A p : ~PairComing(p)
        BY <2>1, <3>3 DEF PairComing
      <4>2. tx[r].pc = "writing"
        BY <1>2, <2>3, <3>3 DEF Inv, TypeOK, Tx, Phase
      <4>3. AskOf(r).op \in {"grant", "revoke", "create", "delete", "activate",
                             "deactivate"}
        BY <4>2, EntryState DEF Underway, Ask
      <4> QED BY <2>1, <3>1, <4>1, <4>2, <4>3 DEF Unblocked
    <3> QED BY <3>2, <3>3
  <2> QED BY <2>2, <2>3
<1> QED BY <1>1, <1>2

\* Waiting never closes a circle, for any number of grants, revocations and
\* deletions of any groups: one of the requests under way waits for nothing.
THEOREM NobodyIsStuck == Spec => []NoWaitingCircle
BY SomeoneIsUnblocked, Invariance, PTL

-----------------------------------------------------------------------------
(* The promise of Authority *)

\* An answer at the end of a request.
LEMMA AnswerStep ==
  ASSUME TypeOK, NEW r \in Req, NEW out, Finish(r, out), tx[r].out = "none"
  PROVE  Promise!Answer(r, out)
<1>1. /\ tx'[r].out = out /\ \A s \in Req \ {r} : tx'[s].out = tx[s].out
  BY DEF Finish, TypeOK, IdleTx
<1> DEFINE f == [q \in Req |-> tx[q].out]
           g == [q \in Req |-> tx'[q].out]
<1>2. \A q \in Req : g[q] = IF q = r THEN out ELSE f[q]
  BY <1>1
<1>3. f[r] = "none"
  OBVIOUS
<1>4. g = [f EXCEPT ![r] = out]
  BY <1>2
<1> QED BY <1>3, <1>4 DEF Promise!Answer

\* What the next state x of request r must satisfy for PromiseInv to survive.
Promises(r, x) ==
    /\ x.pc # "done" => x.out = "none" /\ groups[r] = NoName
    /\ Underway(x) => x.entry[1].by = r
    /\ Writes(x, "delete") /\ AskBy(x).on \in Req => tx[AskBy(x).on].pc = "done"
    /\ Writes(x, "create") /\ x.pc = "flushed" =>
          /\ x.changes /\ \A g \in Group : groups[g] # AskBy(x).on
          /\ \A s \in Req \ {r} : Flushed(s, "create") => AskOf(s).on # AskBy(x).on
    /\ Writes(x, "delete") /\ x.pc = "flushed" =>
          x.changes \/ ~GroupExists(AskBy(x).on)

\* A step that moves only the request r, and writes no table.
LEMMA LocalPromise ==
  ASSUME TypeOK, PromiseInv, NEW r \in Req, NEW x, tx[r].pc # "done",
         tx' = [tx EXCEPT ![r] = x], UNCHANGED tables, Promises(r, x)
  PROVE  PromiseInv'
<1>0. /\ tx'[r] = x /\ \A s \in Req \ {r} : tx'[s] = tx[s]
      /\ UNCHANGED <<pairs, groups, active, audit>>
  BY DEF TypeOK, tables
<1>1. PromiseShape(r)'
  BY <1>0 DEF PromiseShape, Promises, Underway, Writes, AskOf, AskBy, GroupExists
<1>2. ASSUME NEW s \in Req, s # r PROVE PromiseShape(s)'
  <2>1. PromiseShape(s) /\ tx'[s] = tx[s]
    BY <1>0, <1>2 DEF PromiseInv
  <2>2. \A u \in Req : tx[u].pc = "done" => tx'[u].pc = "done"
    BY <1>0
  <2> QED BY <1>0, <2>1, <2>2 DEF PromiseShape, Underway, Writes, AskOf, AskBy,
                                  GroupExists
<1>3. CreatorsApart'
  <2> SUFFICES ASSUME NEW s \in Req, NEW u \in Req, Flushed(s, "create")',
                      Flushed(u, "create")', AskOf(s)'.on = AskOf(u)'.on
               PROVE  s = u
    BY DEF CreatorsApart
  <2>1. CASE s # r /\ u # r
    BY <1>0, <2>1 DEF PromiseInv, CreatorsApart, Flushed, AskOf
  <2>2. CASE s = r /\ u # r
    BY <1>0, <2>2 DEF Promises, Flushed, Writes, AskOf, AskBy
  <2>3. CASE s # r /\ u = r
    BY <1>0, <2>3 DEF Promises, Flushed, Writes, AskOf, AskBy
  <2> QED BY <2>1, <2>2, <2>3
<1> QED BY <1>1, <1>2, <1>3 DEF PromiseInv

\* A step that gives no answer shows nothing.
LEMMA QuietStep ==
  ASSUME TypeOK, PromiseInv, NEW r \in Req, NEW x, tx[r].pc # "done",
         tx' = [tx EXCEPT ![r] = x], UNCHANGED tables, Promises(r, x), x.pc # "done"
  PROVE  PromiseInv' /\ UNCHANGED Promise!vars
<1>1. PromiseInv'
  BY LocalPromise
<1>2. tx[r].out = "none" /\ x.out = "none"
  BY DEF PromiseInv, PromiseShape, Promises
<1>3. \A s \in Req : tx'[s].out = tx[s].out
  BY <1>2 DEF TypeOK
<1>4. UNCHANGED Promise!vars
  BY <1>3 DEF Promise!vars, tables
<1> QED BY <1>1, <1>4

\* A request that ends without a commit.
LEMMA EndStep ==
  ASSUME TypeOK, PromiseInv, NEW r \in Req, NEW out, tx[r].pc # "done",
         Finish(r, out), UNCHANGED tables
  PROVE  PromiseInv' /\ Promise!Answer(r, out)
<1> DEFINE x == [IdleTx EXCEPT !.pc = "done", !.out = out]
<1>1. x.pc = "done" /\ tx' = [tx EXCEPT ![r] = x]
  BY DEF IdleTx, Finish
<1> HIDE DEF x
<1>2. Promises(r, x)
  BY <1>1 DEF Promises, Underway, Writes
<1>3. tx[r].out = "none"
  BY DEF PromiseInv, PromiseShape
<1> QED BY <1>1, <1>2, <1>3, LocalPromise, AnswerStep

\* An answer that says why nothing was done.
LEMMA DeclineStep ==
  ASSUME TypeOK, PromiseInv, NEW r \in Req, tx[r].pc # "done",
         NEW out \in {"forbidden", "notfound", "conflict", "failed"},
         Finish(r, out), UNCHANGED tables
  PROVE  PromiseInv' /\ Promise!Next
<1>1. PromiseInv' /\ Promise!Answer(r, out)
  BY EndStep
<1>2. Promise!Decline(r)
  BY <1>1 DEF Promise!Decline, tables
<1> QED BY <1>1, <1>2 DEF Promise!Next

\* Authorization notes the request in the entry that will be its audit row.
LEMMA AuthorizePromise ==
  ASSUME Inv, PromiseInv, NEW r \in Req, NEW actor \in User, NEW ask \in Ask,
         Authorize(r, actor, ask)
  PROVE  PromiseInv' /\ (Promise!Next \/ UNCHANGED Promise!vars)
<1> DEFINE e == [by |-> r, actor |-> actor, ask |-> ask]
           x == [tx[r] EXCEPT !.pc = "reading", !.entry = <<e>>]
<1>1. /\ TypeOK /\ UNCHANGED tables /\ tx[r].pc = "idle" /\ tx[r] \in Tx
      /\ tx[r].out = "none" /\ groups[r] = NoName
  BY DEF Authorize, Inv, TypeOK, PromiseInv, PromiseShape
<1>2. CASE Finish(r, "forbidden")
  BY <1>1, <1>2, DeclineStep
<1>3. CASE tx' = [tx EXCEPT ![r] = x]
  <2>1. x.pc = "reading" /\ x.out = "none" /\ x.entry[1] = e
    BY <1>1 DEF Tx
  <2>2. x.entry[1].by = r
    BY <2>1
  <2> HIDE DEF x
  <2>3. Promises(r, x)
    BY <1>1, <2>1, <2>2 DEF Promises, Writes
  <2> QED BY <1>1, <1>3, <2>1, <2>3, QuietStep
<1> QED BY <1>2, <1>3 DEF Authorize

\* A refusal says why: there is a group, or there is a row.
LEMMA RefusePromise ==
  ASSUME Inv, PromiseInv, NEW r \in Req, Refuse(r)
  PROVE  PromiseInv' /\ Promise!Next
<1>1. /\ TypeOK /\ UNCHANGED tables /\ tx[r].pc = "reading" /\ AskOf(r) \in Ask
  BY EntryState DEF Refuse, Inv, Underway
<1>2. CASE Finish(r, "notfound")
  BY <1>1, <1>2, DeclineStep
<1>3. CASE AskOf(r).on \in pairs /\ Finish(r, "ok")
  <2>1. PromiseInv' /\ Promise!Answer(r, "ok")
    BY <1>1, <1>3, EndStep
  <2>2. Promise!Keep(r)
    BY <1>1, <1>3, <2>1 DEF Promise!Keep, tables
  <2> QED BY <2>1, <2>2 DEF Promise!Next
<1>4. CASE /\ AskOf(r).op = "create" /\ Finish(r, "duplicate")
           /\ \E g \in Group : groups[g] = AskOf(r).on
  <2>1. PromiseInv' /\ Promise!Answer(r, "duplicate")
    BY <1>1, <1>4, EndStep
  <2>2. \E g \in Group : Promise!Exists(g)
    BY <1>1, <1>4, AskedOf, GroupAssumption DEF Promise!Exists
  <2>3. Promise!Decline(r)
    BY <1>1, <2>1, <2>2 DEF Promise!Decline, tables
  <2> QED BY <2>1, <2>3 DEF Promise!Next
<1> QED BY <1>2, <1>3, <1>4 DEF Refuse

\* A request that goes on with the entry it has.
LEMMA ProceedPromise ==
  ASSUME Inv, PromiseInv, NEW r \in Req, NEW x, Underway(tx[r]), Underway(x),
         x.entry = tx[r].entry, x.out = tx[r].out,
         tx' = [tx EXCEPT ![r] = x], UNCHANGED tables,
         Writes(x, "delete") /\ AskOf(r).on \in Req => tx[AskOf(r).on].pc = "done",
         Writes(x, "create") /\ x.pc = "flushed" =>
            /\ x.changes /\ \A g \in Group : groups[g] # AskOf(r).on
            /\ \A s \in Req \ {r} : Flushed(s, "create") => AskOf(s).on # AskOf(r).on,
         Writes(x, "delete") /\ x.pc = "flushed" =>
            x.changes \/ ~GroupExists(AskOf(r).on)
  PROVE  PromiseInv' /\ UNCHANGED Promise!vars
<1>1. /\ TypeOK /\ AskBy(x) = AskOf(r) /\ tx[r].pc # "done" /\ x.pc # "done"
      /\ tx[r].out = "none" /\ groups[r] = NoName /\ tx[r].entry[1].by = r
  BY DEF Inv, AskBy, AskOf, PromiseInv, PromiseShape, Underway
<1>2. Promises(r, x)
  BY <1>1 DEF Promises
<1> QED BY <1>1, <1>2, QuietStep

\* The group a deletion reads is there, so the request that made it is done.
LEMMA ReadPromise ==
  ASSUME Inv, PromiseInv, NEW r \in Req, Read(r) \/ ReadSame(r)
  PROVE  PromiseInv' /\ UNCHANGED Promise!vars
<1>1. /\ tx[r].pc = "reading" /\ Underway(tx[r]) /\ tx[r] \in Tx
      /\ AskOf(r) \in Ask /\ UNCHANGED tables
  BY EntryState DEF Read, ReadSame, Underway
<1>2. CASE Read(r)
  <2> DEFINE x == [tx[r] EXCEPT !.pc = "writing"]
  <2>1. x.pc = "writing" /\ x.entry = tx[r].entry /\ x.out = tx[r].out
    BY <1>1 DEF Tx
  <2>2. tx' = [tx EXCEPT ![r] = x]
    BY <1>2 DEF Read
  <2> HIDE DEF x
  <2>3. Writes(x, "delete") => AskOf(r).op = "delete"
    BY <2>1 DEF Writes, AskBy, AskOf
  <2>4. ASSUME Writes(x, "delete"), AskOf(r).on \in Req
        PROVE  tx[AskOf(r).on].pc = "done"
    <3>1. groups[AskOf(r).on] # NoName
      BY <1>2, <2>3, <2>4 DEF Read, Missing, GroupExists
    <3> QED BY <2>4, <3>1 DEF PromiseInv, PromiseShape
  <2> QED BY <1>1, <2>1, <2>2, <2>4, ProceedPromise DEF Underway
<1>3. CASE ReadSame(r)
  <2> DEFINE x == [tx[r] EXCEPT !.pc = "flushed"]
  <2>1. x.pc = "flushed" /\ x.entry = tx[r].entry /\ x.out = tx[r].out
    BY <1>1 DEF Tx
  <2>2. tx' = [tx EXCEPT ![r] = x]
    BY <1>3 DEF ReadSame
  <2> HIDE DEF x
  <2>3. ~Writes(x, "create") /\ ~Writes(x, "delete")
    BY <1>3, <2>1 DEF ReadSame, Writes, AskBy, AskOf
  <2> QED BY <1>1, <2>1, <2>2, <2>3, ProceedPromise DEF Underway
<1> QED BY <1>2, <1>3

\* A statement that writes takes the request to its commit.
LEMMA WritePromise ==
  ASSUME Inv, PromiseInv, NEW r \in Req, NEW removed, Underway(tx[r]),
         Write(r, removed), UNCHANGED tables,
         AskOf(r).op = "delete" => tx[r].pc = "cascading",
         AskOf(r).op = "create" =>
            /\ \A g \in Group : groups[g] # AskOf(r).on
            /\ \A s \in Req \ {r} : Flushed(s, "create") => AskOf(s).on # AskOf(r).on
  PROVE  PromiseInv' /\ UNCHANGED Promise!vars
<1> DEFINE x == [tx[r] EXCEPT !.pc = "flushed", !.changes = TRUE, !.removes = removed]
<1>1. tx[r] \in Tx
  BY EntryState
<1>2. /\ x.pc = "flushed" /\ x.entry = tx[r].entry /\ x.out = tx[r].out
      /\ x.changes
  BY <1>1 DEF Tx
<1>3. tx' = [tx EXCEPT ![r] = x]
  BY DEF Write
<1> HIDE DEF x
<1>4. /\ Writes(x, "create") => AskOf(r).op = "create"
      /\ Writes(x, "delete") => Writes(tx[r], "delete")
  BY <1>2 DEF Writes, AskBy, AskOf
<1>5. Writes(x, "delete") /\ AskOf(r).on \in Req => tx[AskOf(r).on].pc = "done"
  BY <1>4 DEF PromiseInv, PromiseShape
<1> QED BY <1>2, <1>3, <1>4, <1>5, ProceedPromise DEF Underway

\* The statements that write or wait show nothing; one that finds its row there,
\* or its group gone, ends the request.
LEMMA StatementPromise ==
  ASSUME Inv, PromiseInv, NEW r \in Req,
         \/ InsertPair(r) \/ LinkPair(r) \/ DeletePair(r) \/ InsertGroup(r)
         \/ DeleteGroup(r) \/ Cascade(r) \/ UpdateUser(r)
  PROVE  PromiseInv' /\ (Promise!Next \/ UNCHANGED Promise!vars)
<1>1. /\ TypeOK /\ UNCHANGED tables /\ Underway(tx[r])
      /\ tx[r].pc \in {"writing", "linking", "cascading"} /\ tx[r].pc # "done"
  BY DEF InsertPair, LinkPair, DeletePair, InsertGroup, DeleteGroup, Cascade,
         UpdateUser, Underway, Inv
<1>2. /\ tx[r] \in Tx /\ AskOf(r) \in Ask /\ AskOf(r) = AskBy(tx[r]) /\ Tells(tx[r])
  BY <1>1, EntryState DEF Inv, Fits
<1>3. CASE Finish(r, "conflict")
  BY <1>1, <1>3, DeclineStep
<1>4. CASE InsertPair(r) /\ ~Finish(r, "conflict")
  <2> DEFINE x == [tx[r] EXCEPT !.pc = "linking"]
  <2>1. x.pc = "linking" /\ x.entry = tx[r].entry /\ x.out = tx[r].out
    BY <1>2 DEF Tx
  <2>2. tx' = [tx EXCEPT ![r] = x]
    BY <1>4 DEF InsertPair
  <2> HIDE DEF x
  <2>3. ~Writes(x, "create") /\ ~Writes(x, "delete")
    BY <2>1 DEF Writes
  <2> QED BY <1>1, <2>1, <2>2, <2>3, ProceedPromise DEF Underway
<1>5. CASE LinkPair(r) /\ ~Finish(r, "conflict")
  <2>1. Write(r, {}) /\ AskOf(r).op = "grant"
    BY <1>2, <1>5 DEF LinkPair, Tells
  <2> QED BY <1>1, <2>1, WritePromise
<1>6. CASE DeletePair(r)
  BY <1>1, <1>6, WritePromise DEF DeletePair
<1>7. CASE InsertGroup(r) /\ ~Finish(r, "conflict")
  <2>1. /\ Write(r, {}) /\ AskOf(r).op = "create"
        /\ \A g \in Group : groups[g] # AskOf(r).on
        /\ \A s \in Req \ {r} : Flushed(s, "create") => AskOf(s).on # AskOf(r).on
    BY <1>7 DEF InsertGroup
  <2> QED BY <1>1, <2>1, WritePromise
<1>8. CASE DeleteGroup(r)
  <2> DEFINE pc == IF GroupExists(AskOf(r).on) THEN "cascading" ELSE "flushed"
             x == [tx[r] EXCEPT !.pc = pc]
  <2>1. x.pc = pc /\ x.entry = tx[r].entry /\ x.out = tx[r].out
    BY <1>2 DEF Tx
  <2>2. tx' = [tx EXCEPT ![r] = x] /\ AskOf(r).op = "delete" /\ tx[r].pc = "writing"
    BY <1>8 DEF DeleteGroup
  <2> HIDE DEF x
  <2>3. Writes(tx[r], "delete") /\ ~Writes(x, "create")
    BY <1>2, <2>1, <2>2 DEF Writes, AskBy, AskOf
  <2>4. AskOf(r).on \in Req => tx[AskOf(r).on].pc = "done"
    BY <2>3 DEF PromiseInv, PromiseShape
  <2>5. x.pc = "flushed" => ~GroupExists(AskOf(r).on)
    BY <2>1
  <2> QED BY <1>1, <2>1, <2>2, <2>3, <2>4, <2>5, ProceedPromise DEF Underway
<1>9. CASE Cascade(r)
  <2>1. tx[r].pc = "cascading" /\ AskOf(r).op = "delete"
        /\ Write(r, CascadeTo(AskOf(r).on))
    BY <1>2, <1>9 DEF Cascade, Tells
  <2> QED BY <1>1, <2>1, WritePromise
<1>10. CASE UpdateUser(r)
  BY <1>1, <1>10, WritePromise DEF UpdateUser
<1> QED BY <1>3, <1>4, <1>5, <1>6, <1>7, <1>8, <1>9, <1>10

\* A commit leaves the others' claims on names and groups as they are: the name it
\* gives is nobody's, and the group it makes is not one that a deletion has read.
LEMMA CommitPromiseInv ==
  ASSUME Inv, PromiseInv, NEW r \in Req, Commit(r)
  PROVE  PromiseInv'
<1> DEFINE ask == AskOf(r)
<1>0. /\ TypeOK /\ tx[r].pc = "flushed" /\ Underway(tx[r]) /\ tx'[r].pc = "done"
      /\ \A s \in Req \ {r} : tx'[s] = tx[s]
  BY CommitLeaves DEF Commit, Underway, Inv
<1>1. \A g \in Group :
         groups'[g] = IF tx[r].changes /\ ask.op = "create" /\ g = r THEN ask.on
                      ELSE IF tx[r].changes /\ ask.op = "delete" /\ g = ask.on
                           THEN NoName ELSE groups[g]
  BY DEF Commit
<1>2. Req \subseteq Group
  BY GroupAssumption
<1>3. PromiseShape(r)'
  BY <1>0 DEF PromiseShape, Underway, Writes
<1>4. ASSUME NEW s \in Req, s # r PROVE PromiseShape(s)'
  <2>1. PromiseShape(s) /\ tx'[s] = tx[s] /\ AskOf(s)' = AskOf(s)
    BY <1>0, <1>4 DEF PromiseInv, AskOf
  <2>2. (groups[s] # NoName => tx[s].pc = "done")'
    BY <1>1, <1>2, <1>4, <2>1 DEF PromiseShape
  <2>3. ASSUME Writes(tx[s], "delete"), AskOf(s).on \in Req
        PROVE  tx[AskOf(s).on].pc = "done" /\ tx'[AskOf(s).on].pc = "done"
    BY <1>0, <2>1, <2>3 DEF PromiseShape
  <2>4. ASSUME Writes(tx[s], "create"), tx[s].pc = "flushed"
        PROVE  tx[s].changes /\ \A g \in Group : groups'[g] # AskOf(s).on
    <3>1. tx[s].changes /\ \A g \in Group : groups[g] # AskOf(s).on
      BY <2>1, <2>4 DEF PromiseShape
    <3>2. Flushed(s, "create")
      BY <2>4, <3>1 DEF Flushed, Writes, AskOf, AskBy
    <3>3. AskOf(s).on \in Name /\ AskOf(s).on # NoName
      BY <2>4, <3>2, EntryState, AskedOf, GroupAssumption DEF Underway, Flushed
    <3>4. tx[r].changes /\ ask.op = "create" => ask.on # AskOf(s).on
      BY <1>0, <1>4, <3>2 DEF PromiseInv, CreatorsApart, Flushed
    <3> QED BY <1>1, <3>1, <3>3, <3>4
  <2>5. ASSUME Writes(tx[s], "delete"), tx[s].pc = "flushed", ~tx[s].changes
        PROVE  groups'[AskOf(s).on] = NoName
    <3>1. AskOf(s).op = "delete" /\ AskOf(s).on \in Group
      BY <2>5, EntryState, AskedOf DEF Writes, Underway, AskOf, AskBy
    <3>2. groups[AskOf(s).on] = NoName
      BY <2>1, <2>5 DEF PromiseShape, GroupExists
    <3>3. AskOf(s).on # r
      BY <1>0, <2>3, <2>5
    <3> QED BY <1>1, <3>1, <3>2, <3>3
  <2> QED BY <2>1, <2>2, <2>3, <2>4, <2>5
          DEF PromiseShape, Underway, Writes, AskOf, AskBy, GroupExists
<1>5. CreatorsApart'
  <2> SUFFICES ASSUME NEW s \in Req, NEW u \in Req, Flushed(s, "create")',
                      Flushed(u, "create")', AskOf(s)'.on = AskOf(u)'.on
               PROVE  s = u
    BY DEF CreatorsApart
  <2>1. s # r /\ u # r
    BY <1>0 DEF Flushed
  <2> QED BY <1>0, <2>1 DEF PromiseInv, CreatorsApart, Flushed, AskOf
<1> QED BY <1>3, <1>4, <1>5 DEF PromiseInv

\* A commit answers and records what its request was asked, by somebody whom the
\* log lets do it.
LEMMA CommitDoes ==
  ASSUME Inv, PromiseInv, NEW r \in Req, Commit(r),
         NEW op, op = AskOf(r).op, NEW on, on = AskOf(r).on
  PROVE  Promise!Does(r, op, on)
<1> DEFINE e == tx[r].entry[1]
<1>1. /\ TypeOK /\ tx[r].pc = "flushed" /\ Underway(tx[r]) /\ Finish(r, "ok")
      /\ audit' = audit \o tx[r].entry
  BY DEF Commit, Underway, Inv, Recorded
<1>2. /\ tx[r] \in Tx /\ Len(tx[r].entry) = 1 /\ e \in Entry /\ AskOf(r) = e.ask
      /\ e.by = r
  BY <1>1, EntryState DEF PromiseInv, PromiseShape
<1>3. tx[r].entry = <<e>>
  <2>1. tx[r].entry \in Seq(Entry)
    BY <1>2 DEF Tx
  <2> QED BY <1>2, <2>1
<1>4. e.actor \in User /\ e.ask \in Ask /\ e = [by |-> r, actor |-> e.actor, ask |-> e.ask]
  BY <1>2 DEF Entry
<1>5. e.ask = [op |-> e.ask.op, on |-> e.ask.on]
  BY <1>4 DEF Ask
<1>6. MayAct(e.actor, e.ask, audit)
  BY <1>1 DEF Inv, Fits, ActsByLog, AskBy, MayAct
<1>7. Promise!Answer(r, "ok")
  BY <1>1, AnswerStep DEF PromiseInv, PromiseShape
<1> HIDE DEF e
<1>8. /\ MayAct(e.actor, [op |-> op, on |-> on], audit)
      /\ audit' = audit \o <<[by |-> r, actor |-> e.actor,
                              ask |-> [op |-> op, on |-> on]]>>
  BY <1>1, <1>2, <1>3, <1>4, <1>5, <1>6
<1> QED BY <1>4, <1>7, <1>8 DEF Promise!Does

\* What the commit does to the tables is what was asked, as one step.
LEMMA CommitKeeps ==
  ASSUME Inv, PromiseInv, NEW r \in Req, Commit(r)
  PROVE  Promise!Next
<1> DEFINE x == tx[r]
<1>0. PICK on : on = AskOf(r).on
  OBVIOUS
<1>1. /\ TypeOK /\ x.pc = "flushed" /\ Underway(x) /\ NoOrphans
      /\ Tells(x) /\ InsertsNew(x) /\ CascadeComplete(x) /\ PromiseShape(r)
  BY DEF Commit, Underway, Inv, Fits, PromiseInv
<1>2. /\ AskOf(r) \in Ask /\ AskOf(r) = AskBy(x) /\ AskOf(r) = x.entry[1].ask
      /\ groups[r] = NoName /\ Req \subseteq Group
  BY <1>1, EntryState, GroupAssumption DEF PromiseShape
<1>3. /\ AskOf(r).op \in {"grant", "revoke", "create", "delete", "activate",
                          "deactivate"}
      /\ AskOf(r).op \in {"grant", "revoke"} => on \in Pair
      /\ AskOf(r).op = "create" => on \in Name
      /\ AskOf(r).op = "delete" => on \in Group
      /\ AskOf(r).op \in {"activate", "deactivate"} => on \in User
  BY <1>0, <1>2 DEF Ask
<1>4. /\ pairs' = (pairs \ x.removes)
            \cup {p \in Pair : x.changes /\ AskOf(r).op = "grant" /\ p = on}
      /\ groups' = [g \in Group |->
            IF x.changes /\ AskOf(r).op = "create" /\ g = r THEN on
            ELSE IF x.changes /\ AskOf(r).op = "delete" /\ g = on THEN NoName
            ELSE groups[g]]
      /\ active' = (active \ {u \in User : (x.changes /\ AskOf(r).op = "deactivate")
                                           /\ u = on})
            \cup {u \in User : (x.changes /\ AskOf(r).op = "activate") /\ u = on}
  BY <1>0 DEF Commit
<1>5. \A p \in x.removes :
         \/ AskOf(r).op = "revoke" /\ p = on
         \/ AskOf(r).op = "delete" /\ InGroup(p, on)
  BY <1>0, <1>1, <1>2 DEF Tells, Ends
<1>6. groups \in [Group -> Name \cup {NoName}]
  BY <1>1 DEF TypeOK
<1>7. AskOf(r).op \notin {"create", "delete"} => UNCHANGED groups
  BY <1>4, <1>6
<1>8. AskOf(r).op \notin {"activate", "deactivate"} => UNCHANGED active
  BY <1>4
<1>9. AskOf(r).op \notin {"grant", "revoke", "delete"} => UNCHANGED pairs
  BY <1>4, <1>5
<1>10. CASE AskOf(r).op = "grant"
  <2>1. x.changes /\ Inserts(x)
    BY <1>1, <1>2, <1>10 DEF Tells, Inserts
  <2>2. on \notin pairs
    BY <1>0, <1>1, <1>2, <2>1 DEF InsertsNew
  <2>3. \A g \in Group : InGroup(on, g) => groups[g] # NoName
    BY <1>0, <1>1, <1>2, <1>10, <2>1 DEF InsertsNew, Holds, GroupExists
  <2>4. pairs' = pairs \cup {on}
    BY <1>3, <1>4, <1>5, <1>10, <2>1
  <2>5. Promise!Does(r, "grant", on)
    BY <1>0, <1>10, CommitDoes
  <2>6. Promise!Grant(r, on)
    BY <1>7, <1>8, <1>10, <2>2, <2>3, <2>4, <2>5
       DEF Promise!Grant, Promise!Exists
  <2> QED BY <1>3, <1>10, <2>6 DEF Promise!Next
<1>11. CASE AskOf(r).op = "revoke"
  <2>1. pairs' \in {pairs, pairs \ {on}}
    BY <1>4, <1>5, <1>11
  <2>2. Promise!Does(r, "revoke", on)
    BY <1>0, <1>11, CommitDoes
  <2>3. Promise!Revoke(r, on)
    BY <1>7, <1>8, <1>11, <2>1, <2>2 DEF Promise!Revoke
  <2> QED BY <1>3, <1>11, <2>3 DEF Promise!Next
<1>12. CASE AskOf(r).op = "create"
  <2>1. Writes(x, "create")
    BY <1>1, <1>2, <1>12 DEF Writes
  <2>2. x.changes /\ \A g \in Group : groups[g] # on
    BY <1>0, <1>1, <2>1 DEF PromiseShape
  <2>3. groups' = [groups EXCEPT ![r] = on]
    BY <1>2, <1>4, <1>6, <1>12, <2>2
  <2>4. Promise!Does(r, "create", on)
    BY <1>0, <1>12, CommitDoes
  <2>5. Promise!Create(r, on)
    BY <1>2, <1>8, <1>9, <1>12, <2>2, <2>3, <2>4
       DEF Promise!Create, Promise!Exists
  <2> QED BY <1>3, <1>12, <2>5 DEF Promise!Next
<1>13. CASE AskOf(r).op = "delete"
  <2>1. Writes(x, "delete")
    BY <1>1, <1>2, <1>13 DEF Writes
  <2>2. x.changes \/ groups[on] = NoName
    BY <1>0, <1>1, <2>1 DEF PromiseShape, GroupExists
  <2>3. groups' = [groups EXCEPT ![on] = NoName]
    BY <1>3, <1>4, <1>6, <1>13, <2>2
  <2>4. \A p \in pairs : InGroup(p, on) => p \in x.removes
    <3>1. CASE x.changes
      BY <1>0, <1>1, <1>2, <1>3, <1>13, <3>1 DEF CascadeComplete, Deleted, CascadeTo
    <3>2. CASE ~x.changes
      BY <1>1, <1>3, <1>13, <2>2, <3>2 DEF NoOrphans, GroupExists
    <3> QED BY <3>1, <3>2
  <2>5. pairs' = {p \in pairs : ~InGroup(p, on)}
    BY <1>4, <1>5, <1>13, <2>4
  <2>6. Promise!Does(r, "delete", on)
    BY <1>0, <1>13, CommitDoes
  <2>7. Promise!Delete(r, on)
    BY <1>8, <1>13, <2>3, <2>5, <2>6 DEF Promise!Delete
  <2> QED BY <1>3, <1>13, <2>7 DEF Promise!Next
<1>14. CASE AskOf(r).op \in {"activate", "deactivate"}
  <2>1. /\ AskOf(r).op = "activate" => active' \in {active, active \cup {on}}
        /\ AskOf(r).op = "deactivate" => active' \in {active, active \ {on}}
    BY <1>3, <1>4, <1>14
  <2>2. /\ AskOf(r).op = "activate" => Promise!Does(r, "activate", on)
        /\ AskOf(r).op = "deactivate" => Promise!Does(r, "deactivate", on)
    BY <1>0, CommitDoes
  <2>3. Promise!SetActive(r, on)
    BY <1>7, <1>9, <1>14, <2>1, <2>2 DEF Promise!SetActive
  <2> QED BY <1>3, <1>14, <2>3 DEF Promise!Next
<1> QED BY <1>3, <1>10, <1>11, <1>12, <1>13, <1>14

\* The first state is Authority's.
LEMMA InitPromise == Init => PromiseInv /\ Promise!Init
<1> SUFFICES ASSUME Init PROVE PromiseInv /\ Promise!Init
  OBVIOUS
<1>1. \A r \in Req : tx[r].pc = "idle" /\ tx[r].out = "none"
  BY DEF Init, IdleTx
<1>2. \A r \in Req : groups[r] = NoName
  BY SeedGroupsAssumption DEF Init
<1>3. PromiseInv
  BY <1>1, <1>2 DEF PromiseInv, PromiseShape, CreatorsApart, Underway, Writes, Flushed
<1>4. Promise!Init
  BY <1>1 DEF Init, Promise!Init
<1> QED BY <1>3, <1>4

\* Every step is Authority's, or shows nothing.
LEMMA NextPromise ==
  ASSUME Inv, PromiseInv, [Next]_vars
  PROVE  PromiseInv' /\ [Promise!Next]_(Promise!vars)
<1>1. CASE UNCHANGED vars
  <2>1. PromiseInv'
    BY <1>1 DEF vars, PromiseInv, PromiseShape, CreatorsApart, Underway, Writes,
                Flushed, AskOf, AskBy, GroupExists
  <2>2. UNCHANGED Promise!vars
    BY <1>1 DEF vars, Promise!vars
  <2> QED BY <2>1, <2>2
<1>2. ASSUME NEW r \in Req, NEW actor \in User, NEW ask \in Ask,
             Authorize(r, actor, ask)
      PROVE  PromiseInv' /\ (Promise!Next \/ UNCHANGED Promise!vars)
  BY <1>2, AuthorizePromise
<1>3. ASSUME NEW r \in Req, Rollback(r) PROVE PromiseInv' /\ Promise!Next
  BY <1>3, DeclineStep DEF Rollback, Inv
<1>4. ASSUME NEW r \in Req, Step(r)
      PROVE  PromiseInv' /\ (Promise!Next \/ UNCHANGED Promise!vars)
  <2>1. CASE Refuse(r)
    BY <2>1, RefusePromise
  <2>2. CASE ReadSame(r) \/ Read(r)
    BY <2>2, ReadPromise
  <2>3. CASE \/ InsertPair(r) \/ LinkPair(r) \/ DeletePair(r) \/ InsertGroup(r)
             \/ DeleteGroup(r) \/ Cascade(r) \/ UpdateUser(r)
    BY <2>3, StatementPromise
  <2>4. CASE Commit(r)
    BY <2>4, CommitPromiseInv, CommitKeeps
  <2> QED BY <1>4, <2>1, <2>2, <2>3, <2>4 DEF Step
<1> QED BY <1>1, <1>2, <1>3, <1>4 DEF Next, Quiet

\* However requests overlap, each changes the link tables, the groups, the accounts
\* and the log as one step of Authority, by somebody the log let do it: the
\* administration routes implement the promise.
THEOREM AuthorityImplemented == Spec => AuthorityKept
BY InitPromise, NextPromise, Invariance, PTL DEF Spec, AuthorityKept, Promise!Spec
=============================================================================
