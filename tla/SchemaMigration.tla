-------------------------- MODULE SchemaMigration --------------------------
(***************************************************************************)
(* The online upgrade of the schema, from 0015 to 0020, while the          *)
(* application goes on writing.                                            *)
(*                                                                         *)
(* An upgrade runs in one transaction, except that an autocommit block of  *)
(* a step first commits whatever came before it: columns that are to be    *)
(* filled, or the revision of the step before.  So it can die with parts   *)
(* of a step in the database, and the next upgrade has to tell those from  *)
(* a schema that somebody else has made.  The locks of the lifecycle are   *)
(* on the connection that migrates: there is one upgrade at a time.        *)
(***************************************************************************)
EXTENDS Integers

CONSTANTS
  Messages, \* copies of one message of a provider, each in a thread of its own
  MaxMishaps \* bound: crashes and statements that fail

Oldest == 15
Newest == 20
Revisions == Oldest..Newest

\* Indexes that a step builds while the application writes, and what becomes of them.
Keys == {"message", "thread", "triple"}
States == {"none", "invalid", "valid", "attached"}
Phases == {"idle", "start", "fill", "message", "thread", "contract", "triple", "attach",
           "label", "apply", "commit"}

VARIABLES
  db,      \* what is committed of the schema
  work,    \* what the transaction of the upgrade sees of it
  upgrade,
  mail,    \* the rows of the messages: absent, without or with their connection
  sealed,  \* a calendar event has an encrypted field
  writer,  \* the application: it fills the new column or does not know of it
  mishaps

schemaVars == <<db, work, upgrade, mail, sealed, writer, mishaps>>

-----------------------------------------------------------------------------
\* key: the new indexes; grants: the revision whose inventory the access follows;
\* labelled: the migration has named the sealing of events.
Source == [revision |-> Oldest, grants |-> Oldest, columns |-> FALSE,
           key |-> [k \in Keys |-> "none"], required |-> FALSE, labelled |-> FALSE]

\* busy: tables that nobody else can write; crossed: this upgrade has come through 0019.
Resting == [at |-> "idle", target |-> Oldest, busy |-> {}, crossed |-> FALSE]

Init ==
  /\ db = Source /\ work = Source /\ upgrade = Resting
  /\ mail \in [Messages -> {"absent", "unset"}]
  /\ sealed \in BOOLEAN /\ writer = "old" /\ mishaps = 0

Unset == {m \in Messages : mail[m] = "unset"}
Copies == {m \in Messages : mail[m] # "absent"}

\* Two rows are of one message.
Twins(rows) == \E a, b \in rows : a # b

-----------------------------------------------------------------------------
(* The application                                                         *)

Others == UNCHANGED <<db, work, upgrade, mishaps>>

\* A new row.  The old constraint tells copies in different threads apart; the new one,
\* once its index is whole, does not, but it knows nothing of rows without a connection.
Arrive(m) ==
  /\ mail[m] = "absent" /\ "mail" \notin upgrade.busy
  /\ writer = "old" => ~db.required
  /\ writer = "dual" /\ db.key["message"] \in {"valid", "attached"} =>
       \A o \in Messages : mail[o] # "set"
  /\ mail' = [mail EXCEPT ![m] = IF writer = "old" THEN "unset" ELSE "set"]
  /\ Others /\ UNCHANGED <<sealed, writer>>

\* The operator repairs what no migration may decide.
Repair(m) ==
  /\ mail[m] # "absent" /\ Twins(Copies) /\ "mail" \notin upgrade.busy
  /\ mail' = [mail EXCEPT ![m] = "absent"]
  /\ Others /\ UNCHANGED <<sealed, writer>>

\* The application that fills the column needs it to be there.
Deploy ==
  /\ writer = "old" /\ db.revision >= 16 /\ writer' = "dual"
  /\ Others /\ UNCHANGED <<mail, sealed>>

Seal ==
  /\ "events" \notin upgrade.busy /\ db.revision < 19 /\ sealed' = ~sealed
  /\ Others /\ UNCHANGED <<mail, writer>>

-----------------------------------------------------------------------------
(* Admission                                                               *)

\* _verify_0016_resume_catalog: the columns are there or not.
Resumes16 == /\ ~db.required /\ \A k \in Keys : db.key[k] = "none"

\* _verify_0017_resume_catalog: the second index is begun when the first is whole.
Resumes17 ==
  /\ db.columns /\ ~db.required /\ db.key["triple"] = "none"
  /\ db.key["message"] # "attached" /\ db.key["thread"] # "attached"
  /\ db.key["thread"] # "none" => db.key["message"] = "valid"

\* _verify_0018_resume_catalog.
Resumes18 ==
  /\ db.columns /\ db.required /\ db.key["message"] = "attached" /\ db.key["thread"] = "attached"
  /\ db.key["triple"] # "attached"

\* verify_before_migrations: the access is that of the revision, and the catalog is one
\* that the next step starts from or may have left.
Admissible(target) ==
  /\ db.grants = db.revision
  /\ target > db.revision =>
       CASE db.revision = 15 -> Resumes16
         [] db.revision = 16 -> Resumes17
         [] db.revision = 17 -> Resumes18
         [] OTHER -> TRUE

Begin(target) ==
  /\ upgrade.at = "idle" /\ target > db.revision /\ Admissible(target)
  /\ work' = db
  /\ upgrade' = [Resting EXCEPT !.at = "start", !.target = target]
  /\ UNCHANGED <<db, mail, sealed, writer, mishaps>>

-----------------------------------------------------------------------------
(* The steps of an upgrade                                                 *)

Quiet == UNCHANGED <<sealed, writer, mishaps>>

At(revision, at) == upgrade.at = at /\ work.revision = revision - 1
Go(at) == upgrade' = [upgrade EXCEPT !.at = at]

\* An autocommit block commits what the transaction has done, and unlocks.
Autocommit(new, at) ==
  /\ db' = new /\ work' = new
  /\ upgrade' = [upgrade EXCEPT !.at = at, !.busy = {}]

\* 0016 adds its columns; 0017 has only to catch up.
Expand ==
  /\ At(16, "start") \/ At(17, "start")
  /\ Autocommit([work EXCEPT !.columns = TRUE], "fill") /\ UNCHANGED mail /\ Quiet

\* One batch; rows that somebody has locked are skipped.  An index that is whole from
\* an earlier upgrade refuses copies.
Fill ==
  /\ upgrade.at = "fill"
  /\ \E batch \in SUBSET Unset \ {{}} :
       /\ db.key["message"] = "valid" => ~Twins(batch \cup (Copies \ Unset))
       /\ mail' = [m \in Messages |-> IF m \in batch THEN "set" ELSE mail[m]]
  /\ UNCHANGED <<db, work, upgrade>> /\ Quiet

\* Variant: the index of the threads is built first.
ThreadFirst == <<"thread", "message", "contract">>

\* The indexes of 0017, and what follows them.
Order == <<"message", "thread", "contract">>

\* Nothing is left without a connection, and no two rows are one message.
Unambiguous == Unset = {} /\ ~Twins(Copies)

Checked ==
  /\ upgrade.at = "fill" /\ Unambiguous
  /\ Go(IF work.revision = 15 THEN "apply" ELSE Order[1])
  /\ UNCHANGED <<db, work, mail>> /\ Quiet

After(k) == IF k = "triple" THEN "attach" ELSE IF k = Order[1] THEN Order[2] ELSE Order[3]

\* An index that is whole is taken as it is.
Reuse(k) ==
  /\ upgrade.at = k /\ work.key[k] = "valid" /\ Go(After(k))
  /\ UNCHANGED <<db, work, mail>> /\ Quiet

\* Another one is dropped, outside of any transaction.
Drop(k) ==
  /\ upgrade.at = k /\ work.key[k] = "invalid"
  /\ Autocommit([work EXCEPT !.key[k] = "none"], k) /\ UNCHANGED mail /\ Quiet

\* CREATE UNIQUE INDEX CONCURRENTLY.
Build(k) ==
  /\ upgrade.at = k /\ work.key[k] = "none"
  /\ k = "message" => ~Twins(Copies \ Unset)
  /\ Autocommit([work EXCEPT !.key[k] = "valid"], After(k)) /\ UNCHANGED mail /\ Quiet

\* It stays behind when it fails, for two copies of a message or whatever else.
BuildFails(k) ==
  /\ upgrade.at = k /\ work.key[k] = "none"
  /\ \/ k = "message" /\ Twins(Copies \ Unset) /\ UNCHANGED mishaps
     \/ mishaps < MaxMishaps /\ mishaps' = mishaps + 1
  /\ db' = [work EXCEPT !.key[k] = "invalid"] /\ work' = db'
  /\ upgrade' = Resting /\ UNCHANGED <<mail, sealed, writer>>

\* Variant: the preflight is enough.
Preflighted == TRUE

\* _ensure_message_not_null looks again, now that nobody writes.
Complete == Unset = {}

\* Both constraints take their indexes, the table is locked, and the old one goes.
Contract ==
  /\ upgrade.at = "contract" /\ Complete
  /\ work' = [work EXCEPT !.key["message"] = "attached", !.key["thread"] = "attached",
                          !.required = TRUE]
  /\ upgrade' = [upgrade EXCEPT !.at = "apply", !.busy = @ \cup {"mail"}]
  /\ UNCHANGED <<db, mail>> /\ Quiet

\* 0018.
Prepare ==
  /\ At(18, "start") /\ Go("triple")
  /\ UNCHANGED <<db, work, mail>> /\ Quiet

Attach ==
  /\ upgrade.at = "attach"
  /\ work' = [work EXCEPT !.key["triple"] = "attached"]
  /\ upgrade' = [upgrade EXCEPT !.at = "apply", !.busy = @ \cup {"events"}]
  /\ UNCHANGED <<db, mail>> /\ Quiet

\* The guard of an ordinary upgrade through 0019: no event is sealed.
StrictEmpty == ~sealed

\* Before the first change.
GuardBefore ==
  /\ At(19, "start") /\ StrictEmpty /\ Go("label")
  /\ UNCHANGED <<db, work, mail>> /\ Quiet

Label ==
  /\ upgrade.at = "label"
  /\ work' = [work EXCEPT !.labelled = sealed]
  /\ upgrade' = [upgrade EXCEPT !.at = "apply", !.busy = @ \cup {"events"}, !.crossed = TRUE]
  /\ UNCHANGED <<db, mail>> /\ Quiet

\* 0020 is an index in the transaction.
History ==
  /\ At(20, "start") /\ Go("apply")
  /\ UNCHANGED <<db, work, mail>> /\ Quiet

\* apply_migration_grant_delta, with the row of the version.
Delta(revision) == revision

\* Variant: the guard has been asked before.
GuardedOnce(revision) == TRUE

\* An upgrade that has come through 0019 asks again at its target, when nothing else
\* can fail.
GuardsAgain(revision) == upgrade.crossed /\ revision = upgrade.target => StrictEmpty

\* on_version_apply.
Apply ==
  LET revision == work.revision + 1
  IN /\ upgrade.at = "apply"
     /\ work' = [work EXCEPT !.revision = revision, !.grants = Delta(revision)]
     /\ GuardsAgain(revision)
     /\ Go(IF revision = upgrade.target THEN "commit" ELSE "start")
     /\ UNCHANGED <<db, mail>> /\ Quiet

\* verify_after_migrations, and the commit.
Commit ==
  /\ upgrade.at = "commit" /\ work.revision = upgrade.target
  /\ db' = work /\ UNCHANGED work /\ upgrade' = Resting
  /\ UNCHANGED mail /\ Quiet

\* What is not committed goes: a check refuses, a statement fails, or the process dies.
Stop ==
  /\ upgrade.at # "idle"
  /\ \/ /\ \/ upgrade.at = "fill" /\ ~Unambiguous
           \/ upgrade.at = "contract" /\ ~Complete
           \/ At(19, "start") /\ ~StrictEmpty
           \/ upgrade.at = "apply" /\ ~GuardsAgain(work.revision + 1)
        /\ UNCHANGED mishaps
     \/ mishaps < MaxMishaps /\ mishaps' = mishaps + 1
  /\ work' = db /\ upgrade' = Resting
  /\ UNCHANGED <<db, mail, sealed, writer>>

-----------------------------------------------------------------------------
Next ==
  \/ \E m \in Messages : Arrive(m) \/ Repair(m)
  \/ Deploy \/ Seal
  \/ \E target \in Revisions : Begin(target)
  \/ Expand \/ Fill \/ Checked
  \/ \E k \in Keys : Reuse(k) \/ Drop(k) \/ Build(k) \/ BuildFails(k)
  \/ Contract \/ Prepare \/ Attach \/ GuardBefore \/ Label \/ History
  \/ Apply \/ Commit \/ Stop

Spec == Init /\ [][Next]_schemaVars

-----------------------------------------------------------------------------
(* Properties                                                              *)

Schema == [revision : Revisions, grants : Revisions, columns : BOOLEAN,
           key : [Keys -> States], required : BOOLEAN, labelled : BOOLEAN]

TypeOK ==
  /\ db \in Schema /\ work \in Schema
  /\ upgrade \in [at : Phases, target : Revisions, busy : SUBSET {"mail", "events"},
                  crossed : BOOLEAN]
  /\ mail \in [Messages -> {"absent", "unset", "set"}]
  /\ sealed \in BOOLEAN /\ writer \in {"old", "dual"} /\ mishaps \in Nat

\* Whatever a crash, a refusal or a failed index has left of an upgrade, the checks of
\* the next one know it for what it is, and its access is that of its revision: no
\* upgrade leaves a database that every later one refuses.
NextIsAdmitted == upgrade.at = "idle" => \A target \in Revisions : Admissible(target)

\* From 0017 on every message has its connection and is there once, although old
\* instances went on writing while 0016 and 0017 ran.
IdentityHolds == db.revision >= 17 => Unambiguous

\* An ordinary upgrade never names the sealing of an event, not even of one that came
\* after it had looked: that is left to the rollout, which can read it again.
NothingLabelled == ~db.labelled
=============================================================================
