----------------------------- MODULE BaseResume ------------------------------
(***************************************************************************)
(* The base résumé of an owner: PUT and GET /base-resume                   *)
(* (services/base_resume_service.py).  The row is read, and then inserted, *)
(* or updated in the columns that differ from what was read; overlapping   *)
(* PUTs wait for each other only at that second statement.                 *)
(***************************************************************************)
EXTENDS Naturals, FiniteSets

CONSTANTS
    Put,       \* PUT requests
    Text,      \* values of raw_text
    Structure, \* values of structured_json that are not null
    Body,      \* the bodies that are sent
    NoStructure, NoBase

ASSUME NoStructureAssumption == NoStructure \notin Structure

\* The columns of base_resumes, and the body of a PUT.
Base == [raw_text: Text, structured_json: Structure \cup {NoStructure}]

ASSUME BodyAssumption == Body \subseteq Base
ASSUME NoBaseAssumption == NoBase \notin Base

PutPhase == {"idle", "writing", "inserted", "updated", "done"}

PutOutcome == {"none", "stored", "conflict", "failed"}

\* A PUT: its body, and the row as it read it.
PutTx == [pc: PutPhase, payload: Base \cup {NoBase}, read: Base \cup {NoBase},
          out: PutOutcome]

IdlePut == [pc |-> "idle", payload |-> NoBase, read |-> NoBase, out |-> "none"]

VARIABLES
    base, \* the committed row of the owner
    put,  \* the PUTs' transactions
    last  \* history: the body stored last, none if its PUT had read another row

baseVars == <<base, put, last>>

BaseInit ==
    /\ base = NoBase
    /\ put = [p \in Put |-> IdlePut]
    /\ last = NoBase

GotoPut(p, pc) == put' = [put EXCEPT ![p].pc = pc]

\* The transaction ends, and what its session knew is gone.
FinishPut(p, out) ==
    put' = [put EXCEPT ![p] = [IdlePut EXCEPT !.pc = "done", !.out = out]]

\* Those that hold a connection.
Putting == {p \in Put : put[p].pc \in PutPhase \ {"idle", "done"}}

-----------------------------------------------------------------------------

\* The request has its connection and its owner; get_for_owner.
PutRead(p, body) ==
    /\ put[p].pc = "idle"
    /\ put' = [put EXCEPT ![p].pc = "writing", ![p].payload = body, ![p].read = base]
    /\ UNCHANGED <<base, last>>

\* Another's INSERT or UPDATE that has not ended yet holds the owner's row.
RowHeld(p) ==
    \E q \in Put \ {p} :
        \/ put[q].pc = "inserted"
        \/ put[q].pc = "updated" /\ put[q].payload # put[q].read

\* No row was there: the INSERT, which the unique owner_id refuses if there is
\* one by now; nothing handles the IntegrityError.
PutInsert(p) ==
    /\ put[p].pc = "writing"
    /\ put[p].read = NoBase
    /\ ~RowHeld(p)
    /\ IF base = NoBase THEN GotoPut(p, "inserted") ELSE FinishPut(p, "conflict")
    /\ UNCHANGED <<base, last>>

\* A row was there: an UPDATE, unless every column is as it was read.
PutUpdate(p) ==
    /\ put[p].pc = "writing"
    /\ put[p].read # NoBase
    /\ put[p].payload # put[p].read => ~RowHeld(p)
    /\ GotoPut(p, "updated")
    /\ UNCHANGED <<base, last>>

\* Variant: a body without structured_json leaves the stored one.
WrittenKeeping(x, row) ==
    [row EXCEPT
        !.raw_text = IF x.payload.raw_text = x.read.raw_text THEN @ ELSE x.payload.raw_text,
        !.structured_json = IF x.payload.structured_json = NoStructure
                            THEN @ ELSE x.payload.structured_json]

\* The row after an UPDATE of the columns that differ from what x read.
Written(x, row) ==
    [c \in DOMAIN row |-> IF x.payload[c] = x.read[c] THEN row[c] ELSE x.payload[c]]

\* The commit, and the answer with the row as this session knows it.
PutCommit(p) ==
    /\ put[p].pc \in {"inserted", "updated"}
    /\ base' = IF put[p].pc = "inserted" THEN put[p].payload ELSE Written(put[p], base)
    /\ last' = IF put[p].read = base THEN put[p].payload ELSE NoBase
    /\ FinishPut(p, "stored")

\* A statement or the commit fails, or the process dies.
PutRollback(p) ==
    /\ p \in Putting
    /\ FinishPut(p, "failed")
    /\ UNCHANGED <<base, last>>

PutStep(p) == PutInsert(p) \/ PutUpdate(p) \/ PutCommit(p)

PutNext ==
    \E p \in Put :
        PutStep(p) \/ PutRollback(p) \/ \E body \in Body : PutRead(p, body)

BaseSpec == BaseInit /\ [][PutNext]_baseVars

-----------------------------------------------------------------------------
(* Properties *)

BaseTypeOK ==
    /\ base \in Base \cup {NoBase}
    /\ put \in [Put -> PutTx]
    /\ last \in Base \cup {NoBase}

\* The stored résumé is the one that was put last, as a whole, text and
\* structure of one body, unless another PUT had committed between its read and
\* its write.
ResumeWhole == last # NoBase => base = last
=============================================================================
