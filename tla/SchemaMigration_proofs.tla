----------------------- MODULE SchemaMigration_proofs -----------------------
(***************************************************************************)
(* Proofs about the maintenance that leaves the database in service: the   *)
(* upgrade of the schema for any messages and any number of mishaps, the   *)
(* publication of backups for any hosts, runs, days and failures, and the  *)
(* rollout of 0019 for any calendars, commands and attempts.               *)
(*                                                                         *)
(* The invariant of the upgrade says of what is committed that its shape is*)
(* one that its revision may have, and of what an upgrade works on that it *)
(* becomes such a shape with whatever commits next.  That of the backups   *)
(* says for every phase of a run which of its files may be there, with its *)
(* lock and without, and that the files of a group on its host are in order*)
(* as long as none of them failed to be removed or put back.  That of the  *)
(* rollout says whom a command is about to mark or to release.             *)
(***************************************************************************)
EXTENDS MCMaintenance, TLAPS, FiniteSetTheorems, SequenceTheorems

-----------------------------------------------------------------------------
(* The invariant                                                           *)

\* What a schema of a revision may look like, amid the step that follows it, too.
ShapeAt(r, w) ==
  /\ r = 15 => /\ ~w.required /\ w.key["message"] = "none"
               /\ w.key["thread"] = "none" /\ w.key["triple"] = "none"
  /\ r = 16 => /\ w.columns /\ ~w.required /\ w.key["triple"] = "none"
               /\ w.key["message"] # "attached" /\ w.key["thread"] # "attached"
               /\ w.key["thread"] # "none" => w.key["message"] = "valid"
  /\ r = 17 => /\ w.columns /\ w.key["thread"] = "attached" /\ w.key["triple"] # "attached"
  /\ r >= 17 => w.required /\ w.key["message"] = "attached"

Whole(w) == w.key["message"] \in {"valid", "attached"}

Committed ==
  /\ db.grants = db.revision /\ ShapeAt(db.revision, db) /\ ~db.labelled

\* Where the steps of an upgrade are, and what they have come upon.
Working ==
  upgrade.at # "idle" =>
    /\ work.grants = work.revision
    /\ upgrade.at # "apply" => ShapeAt(work.revision, work)
    /\ upgrade.at = "apply" => work.revision < Newest /\ ShapeAt(work.revision + 1, work)
    /\ upgrade.at = "fill" => work.revision \in {15, 16} /\ work.columns /\ work = db
    /\ upgrade.at \in {"message", "thread", "contract"} => work.revision = 16
    /\ upgrade.at \in {"thread", "contract"} => work.key["message"] = "valid"
    /\ upgrade.at = "contract" => work.key["thread"] = "valid"
    /\ upgrade.at \in {"triple", "attach"} => work.revision = 17
    /\ upgrade.at = "label" => work.revision = 18

\* What the migration has labelled is still sealed when the guard looks again.
Labelled ==
  upgrade.at # "idle" /\ work.labelled =>
    /\ sealed /\ "events" \in upgrade.busy /\ upgrade.crossed
    /\ upgrade.at \in {"start", "apply"}
    /\ work.revision >= IF upgrade.at = "start" THEN 19 ELSE 18

\* No row without a connection once it is required, or about to be.
Filled ==
  /\ db.required => Unset = {}
  /\ upgrade.at # "idle" /\ work.required => Unset = {} /\ (db.required \/ "mail" \in upgrade.busy)

\* An index that is whole keeps copies out.
Unique ==
  /\ Whole(db) => ~Twins(Copies \ Unset)
  /\ upgrade.at # "idle" /\ Whole(work) => Whole(db)

IInv == TypeOK /\ Committed /\ Working /\ Labelled /\ Filled /\ Unique

-----------------------------------------------------------------------------
(* Types                                                                   *)

LEMMA InitType == Init => TypeOK
  BY DEF Init, TypeOK, Schema, Source, Resting, Revisions, Oldest, Newest, Keys, States, Phases

LEMMA AutocommitType ==
  ASSUME TypeOK, NEW new \in Schema, NEW at \in Phases, Autocommit(new, at)
  PROVE  /\ db' \in Schema /\ work' \in Schema
         /\ upgrade' \in [at : Phases, target : Revisions, busy : SUBSET {"mail", "events"},
                          crossed : BOOLEAN]
  BY DEF TypeOK, Autocommit

LEMMA NextType == TypeOK /\ Working /\ [Next]_schemaVars => TypeOK'
<1> SUFFICES ASSUME TypeOK, Working, [Next]_schemaVars PROVE TypeOK'
  OBVIOUS
<1> USE DEF TypeOK
<1>1. ASSUME NEW m \in Messages, Arrive(m) \/ Repair(m) PROVE TypeOK'
  BY <1>1 DEF Arrive, Repair, Others
<1>2. CASE Deploy \/ Seal
  BY <1>2 DEF Deploy, Seal, Others
<1>3. ASSUME NEW target \in Revisions, Begin(target) PROVE TypeOK'
  BY <1>3 DEF Begin, Resting, Phases, Revisions, Oldest
<1>4. CASE Expand
  <2>1. [work EXCEPT !.columns = TRUE] \in Schema
    BY DEF Schema
  <2> QED BY <1>4, <2>1, AutocommitType DEF Expand, Quiet, Phases
<1>5. CASE Fill
  BY <1>5 DEF Fill, Quiet
<1>6. CASE Checked
  BY <1>6 DEF Checked, Go, Quiet, Phases, Order
<1>7. ASSUME NEW k \in Keys, Reuse(k) \/ Drop(k) \/ Build(k) \/ BuildFails(k) PROVE TypeOK'
  <2>1. \A v \in States : [work EXCEPT !.key[k] = v] \in Schema
    BY DEF Schema
  <2>2. After(k) \in Phases /\ k \in Phases
    BY DEF After, Order, Phases, Keys
  <2>3. CASE Reuse(k)
    BY <2>2, <2>3 DEF Reuse, Go, Quiet
  <2>4. CASE Drop(k)
    BY <2>1, <2>2, <2>4, AutocommitType DEF Drop, Quiet, States
  <2>5. CASE Build(k)
    BY <2>1, <2>2, <2>5, AutocommitType DEF Build, Quiet, States
  <2>6. CASE BuildFails(k)
    BY <2>1, <2>6 DEF BuildFails, Resting, States, Phases, Revisions, Oldest, Newest
  <2> QED BY <1>7, <2>3, <2>4, <2>5, <2>6
<1>8. CASE Contract
  <2>1. work' \in Schema
    BY <1>8 DEF Contract, Schema, Keys, States
  <2> QED BY <1>8, <2>1 DEF Contract, Quiet, Phases
<1>9. CASE Attach
  <2>1. work' \in Schema
    BY <1>9 DEF Attach, Schema, Keys, States
  <2> QED BY <1>9, <2>1 DEF Attach, Quiet, Phases
<1>10. CASE Prepare \/ GuardBefore \/ History
  BY <1>10 DEF Prepare, GuardBefore, History, Go, Quiet, Phases
<1>11. CASE Label
  <2>1. work' \in Schema
    BY <1>11 DEF Label, Schema
  <2> QED BY <1>11, <2>1 DEF Label, Quiet, Phases
<1>12. CASE Apply
  <2>1. work.revision + 1 \in Revisions
    BY <1>12 DEF Apply, Working, Schema, Revisions, Oldest, Newest
  <2>2. work' \in Schema
    BY <1>12, <2>1 DEF Apply, Schema, Delta
  <2> QED BY <1>12, <2>2 DEF Apply, Go, Quiet, Phases
<1>13. CASE Commit \/ Stop
  <2>1. upgrade' = Resting /\ db' \in Schema /\ work' \in Schema /\ mishaps' \in Nat
    BY <1>13 DEF Commit, Stop, Quiet
  <2>2. mail' = mail /\ sealed' = sealed /\ writer' = writer
    BY <1>13 DEF Commit, Stop, Quiet
  <2>3. Resting \in [at : Phases, target : Revisions, busy : SUBSET {"mail", "events"},
                     crossed : BOOLEAN]
    BY DEF Resting, Phases, Revisions, Oldest, Newest
  <2> QED BY <2>1, <2>2, <2>3
<1>14. CASE UNCHANGED schemaVars
  BY <1>14 DEF schemaVars
<1> QED
  BY <1>1, <1>2, <1>3, <1>4, <1>5, <1>6, <1>7, <1>8, <1>9, <1>10, <1>11, <1>12, <1>13, <1>14
  DEF Next

-----------------------------------------------------------------------------
(* Shapes                                                                  *)

LEMMA InitShape == Init => Committed /\ Working
  BY DEF Init, Committed, Working, ShapeAt, Source, Resting, Oldest, Keys

\* The application changes nothing that a shape speaks of.
LEMMA OthersShape ==
  Committed /\ Working /\ UNCHANGED <<db, work, upgrade>> => Committed' /\ Working'
  BY DEF Committed, Working, ShapeAt

\* What stays of an upgrade that ends is what is committed.
LEMMA RestShape ==
  Committed /\ upgrade' = Resting /\ db' = db => Committed' /\ Working'
  BY DEF Committed, Working, ShapeAt, Resting

LEMMA NextShape ==
  TypeOK /\ Committed /\ Working /\ Labelled /\ [Next]_schemaVars => Committed' /\ Working'
<1> SUFFICES ASSUME TypeOK, Committed, Working, Labelled, [Next]_schemaVars
             PROVE  Committed' /\ Working'
  OBVIOUS
<1> USE DEF Go
<1>1. ASSUME NEW m \in Messages, Arrive(m) \/ Repair(m) PROVE Committed' /\ Working'
  BY <1>1, OthersShape DEF Arrive, Repair, Others
<1>2. CASE Deploy \/ Seal
  BY <1>2, OthersShape DEF Deploy, Seal, Others
<1>3. ASSUME NEW target \in Revisions, Begin(target) PROVE Committed' /\ Working'
  BY <1>3 DEF Begin, Resting, Committed, Working, ShapeAt
<1>4. CASE Expand
  <2> DEFINE new == [work EXCEPT !.columns = TRUE]
  <2>1. /\ new.revision = work.revision /\ new.grants = work.grants /\ new.key = work.key
        /\ new.required = work.required /\ new.labelled = work.labelled /\ new.columns
    BY DEF TypeOK, Schema
  <2>2. db' = new /\ work' = new /\ upgrade'.at = "fill"
    BY <1>4 DEF Expand, Autocommit, TypeOK
  <2>3. work.revision \in {15, 16} /\ upgrade.at = "start"
    BY <1>4 DEF Expand, At, TypeOK, Schema, Revisions, Oldest, Newest
  <2> HIDE DEF new
  <2>4. ShapeAt(work.revision, new) /\ new.grants = new.revision /\ ~new.labelled
    BY <2>1, <2>3 DEF Working, ShapeAt, Labelled
  <2> QED BY <2>1, <2>2, <2>3, <2>4 DEF Committed, Working, ShapeAt
<1>5. CASE Fill
  BY <1>5, OthersShape DEF Fill, Quiet
<1>6. CASE Checked
  BY <1>6 DEF Checked, Order, Committed, Working, ShapeAt, TypeOK, Newest
<1>7. ASSUME NEW k \in Keys, Reuse(k) \/ Drop(k) \/ Build(k) \/ BuildFails(k)
      PROVE  Committed' /\ Working'
  <2>1. upgrade.at = k /\ k \in {"message", "thread", "triple"} /\ work.key[k] # "attached"
    BY <1>7 DEF Reuse, Drop, Build, BuildFails, Keys
  <2>2. CASE Reuse(k)
    BY <2>1, <2>2 DEF Reuse, After, Order, Committed, Working, ShapeAt, TypeOK
  <2>3. ASSUME NEW v \in {"none", "invalid", "valid"},
               db' = [work EXCEPT !.key[k] = v], v # "valid" => work.key[k] # "valid"
        PROVE  /\ Committed' /\ ShapeAt(db'.revision, db') /\ db'.grants = db'.revision
               /\ db'.revision = work.revision /\ db'.key[k] = v
               /\ \A j \in Keys \ {k} : db'.key[j] = work.key[j]
    <3> DEFINE new == [work EXCEPT !.key[k] = v]
    <3>1. /\ new.revision = work.revision /\ new.grants = work.grants
          /\ new.required = work.required /\ new.labelled = work.labelled
          /\ new.columns = work.columns /\ new.key[k] = v
          /\ \A j \in Keys \ {k} : new.key[j] = work.key[j]
      BY DEF TypeOK, Schema
    <3> HIDE DEF new
    <3>2. ~work.labelled
      BY <2>1 DEF Labelled
    <3>3. ShapeAt(work.revision, new)
      BY <2>1, <2>3, <3>1 DEF Working, ShapeAt, Keys
    <3>4. new.grants = new.revision
      BY <2>1, <3>1 DEF Working
    <3>5. db' = new
      BY <2>3 DEF new
    <3> QED BY <3>1, <3>2, <3>3, <3>4, <3>5 DEF Committed
  <2>4. CASE Drop(k)
    <3>1. db' = [work EXCEPT !.key[k] = "none"] /\ work' = db' /\ upgrade'.at = k
      BY <2>4 DEF Drop, Autocommit, TypeOK
    <3>2. work.key[k] # "valid"
      BY <2>4 DEF Drop
    <3> QED BY <2>1, <2>3, <3>1, <3>2 DEF Working, Keys
  <2>5. CASE Build(k)
    <3>1. db' = [work EXCEPT !.key[k] = "valid"] /\ work' = db' /\ upgrade'.at = After(k)
      BY <2>5 DEF Build, Autocommit, TypeOK
    <3> QED BY <2>1, <2>3, <3>1 DEF Working, Keys, After, Order
  <2>6. CASE BuildFails(k)
    <3>1. db' = [work EXCEPT !.key[k] = "invalid"] /\ upgrade' = Resting
      BY <2>6 DEF BuildFails
    <3>2. work.key[k] # "valid"
      BY <2>6 DEF BuildFails
    <3> QED BY <2>1, <2>3, <3>1, <3>2 DEF Working, Resting
  <2> QED BY <1>7, <2>2, <2>4, <2>5, <2>6
<1>8. CASE Contract
  BY <1>8 DEF Contract, Committed, Working, ShapeAt, TypeOK, Schema, Keys, Newest
<1>9. CASE Attach
  BY <1>9 DEF Attach, Committed, Working, ShapeAt, TypeOK, Schema, Keys, Newest
<1>10. CASE Prepare \/ GuardBefore \/ History
  BY <1>10 DEF Prepare, GuardBefore, History, At, Committed, Working, ShapeAt, TypeOK,
     Schema, Revisions, Oldest, Newest
<1>11. CASE Label
  BY <1>11 DEF Label, Committed, Working, ShapeAt, TypeOK, Schema, Newest
<1>12. CASE Apply
  BY <1>12 DEF Apply, Delta, Committed, Working, ShapeAt, TypeOK, Schema, Revisions, Oldest,
     Newest
<1>13. CASE Commit
  BY <1>13 DEF Commit, Resting, Committed, Working, ShapeAt, Labelled
<1>14. CASE Stop
  BY <1>14, RestShape DEF Stop
<1>15. CASE UNCHANGED schemaVars
  BY <1>15, OthersShape DEF schemaVars
<1> QED
  BY <1>1, <1>2, <1>3, <1>4, <1>5, <1>6, <1>7, <1>8, <1>9, <1>10, <1>11, <1>12, <1>13, <1>14,
     <1>15
  DEF Next

-----------------------------------------------------------------------------
(* Labels                                                                  *)

LEMMA NextLabelled ==
  TypeOK /\ Committed /\ Working /\ Labelled /\ [Next]_schemaVars => Labelled'
<1> SUFFICES ASSUME TypeOK, Committed, Working, Labelled, [Next]_schemaVars PROVE Labelled'
  OBVIOUS
<1> USE DEF Go
<1>1. ASSUME NEW m \in Messages, Arrive(m) \/ Repair(m) PROVE Labelled'
  BY <1>1 DEF Arrive, Repair, Others, Labelled
<1>2. CASE Deploy \/ Seal
  BY <1>2 DEF Deploy, Seal, Others, Labelled
<1>3. ASSUME NEW target \in Revisions, Begin(target) PROVE Labelled'
  BY <1>3 DEF Begin, Committed, Labelled
<1>4. CASE Expand
  <2>1. ~work.labelled
    BY <1>4 DEF Expand, At, Labelled, TypeOK, Schema, Revisions, Oldest, Newest
  <2> QED BY <1>4, <2>1 DEF Expand, Autocommit, Labelled, TypeOK, Schema
<1>5. CASE Fill
  BY <1>5 DEF Fill, Quiet, Labelled
<1>6. CASE Checked
  BY <1>6 DEF Checked, Labelled
<1>7. ASSUME NEW k \in Keys, Reuse(k) \/ Drop(k) \/ Build(k) \/ BuildFails(k) PROVE Labelled'
  <2>1. ~work.labelled
    BY <1>7 DEF Reuse, Drop, Build, BuildFails, Keys, Labelled
  <2>2. work' = work \/ (\E v \in States : work' = [work EXCEPT !.key[k] = v])
    BY <1>7 DEF Reuse, Drop, Build, BuildFails, Autocommit, States
  <2> QED BY <2>1, <2>2 DEF Labelled, TypeOK, Schema
<1>8. CASE Contract \/ Attach
  <2>1. ~work.labelled
    BY <1>8 DEF Contract, Attach, Labelled
  <2> QED BY <1>8, <2>1 DEF Contract, Attach, Labelled, TypeOK, Schema
<1>9. CASE Prepare \/ GuardBefore \/ History
  BY <1>9 DEF Prepare, GuardBefore, History, At, Quiet, Labelled, Working, TypeOK, Schema,
     Revisions, Oldest, Newest
<1>10. CASE Label
  BY <1>10 DEF Label, Quiet, Labelled, Working, TypeOK, Schema
<1>11. CASE Apply
  BY <1>11 DEF Apply, Quiet, GuardsAgain, StrictEmpty, Labelled, TypeOK, Schema, Revisions,
     Oldest, Newest
<1>12. CASE Commit \/ Stop
  BY <1>12 DEF Commit, Stop, Resting, Labelled
<1>13. CASE UNCHANGED schemaVars
  BY <1>13 DEF schemaVars, Labelled
<1> QED
  BY <1>1, <1>2, <1>3, <1>4, <1>5, <1>6, <1>7, <1>8, <1>9, <1>10, <1>11, <1>12, <1>13 DEF Next

-----------------------------------------------------------------------------
(* The identity of the messages                                            *)

LEMMA RowsFilled ==
  ASSUME TypeOK, Filled, NEW m \in Messages, Arrive(m) \/ Repair(m)
  PROVE  Filled'
<1>1. UNCHANGED <<db, work, upgrade>>
  BY DEF Arrive, Repair, Others
<1>2. ASSUME db.required \/ (upgrade.at # "idle" /\ work.required) PROVE Unset' = {}
  <2>1. Unset = {} /\ (db.required \/ "mail" \in upgrade.busy)
    BY <1>2 DEF Filled
  <2>2. \E v \in {"absent", "set"} : mail' = [mail EXCEPT ![m] = v]
    BY <2>1 DEF Arrive, Repair, TypeOK
  <2> QED BY <2>1, <2>2 DEF Unset, TypeOK
<1> QED BY <1>1, <1>2 DEF Filled

LEMMA RowsUnique ==
  ASSUME TypeOK, Unique, NEW m \in Messages, Arrive(m) \/ Repair(m)
  PROVE  Unique'
<1>1. UNCHANGED <<db, work, upgrade>>
  BY DEF Arrive, Repair, Others
<1>2. ASSUME Whole(db) PROVE ~Twins(Copies \ Unset)'
  <2>1. ~Twins(Copies \ Unset)
    BY <1>2 DEF Unique
  <2>2. CASE mail' = [mail EXCEPT ![m] = "set"] /\ \A o \in Messages : mail[o] # "set"
    BY <2>2 DEF Twins, Copies, Unset, TypeOK
  <2>3. CASE \E v \in {"absent", "unset"} : mail' = [mail EXCEPT ![m] = v]
    BY <2>1, <2>3 DEF Twins, Copies, Unset, TypeOK
  <2> QED BY <1>2, <2>2, <2>3 DEF Arrive, Repair, Whole, TypeOK
<1> QED BY <1>1, <1>2 DEF Unique, Whole

LEMMA NextFilled ==
  TypeOK /\ Committed /\ Working /\ Filled /\ [Next]_schemaVars => Filled'
<1> SUFFICES ASSUME TypeOK, Committed, Working, Filled, [Next]_schemaVars PROVE Filled'
  OBVIOUS
<1> USE DEF Go
<1>1. ASSUME NEW m \in Messages, Arrive(m) \/ Repair(m) PROVE Filled'
  BY <1>1, RowsFilled
<1>2. CASE Deploy \/ Seal
  BY <1>2 DEF Deploy, Seal, Others, Filled, Unset
<1>3. ASSUME NEW target \in Revisions, Begin(target) PROVE Filled'
  BY <1>3 DEF Begin, Filled, Unset
<1>4. CASE Expand
  <2>1. ~work.required
    BY <1>4 DEF Expand, At, Working, ShapeAt, TypeOK, Schema, Revisions, Oldest, Newest
  <2> QED BY <1>4, <2>1 DEF Expand, Autocommit, Filled, TypeOK, Schema
<1>5. CASE Fill
  <2>1. Unset' \subseteq Unset
    BY <1>5 DEF Fill, Unset, TypeOK
  <2> QED BY <1>5, <2>1 DEF Fill, Filled
<1>6. CASE Checked
  BY <1>6 DEF Checked, Filled, Unset, TypeOK
<1>7. ASSUME NEW k \in Keys, Reuse(k) \/ Drop(k) \/ Build(k) \/ BuildFails(k) PROVE Filled'
  <2>1. CASE Reuse(k)
    BY <2>1 DEF Reuse, Filled, Unset, TypeOK, Keys
  <2>2. CASE Drop(k) \/ Build(k) \/ BuildFails(k)
    <3>1. db'.required = work.required /\ work' = db' /\ mail' = mail /\ upgrade.at # "idle"
      BY <2>2 DEF Drop, Build, BuildFails, Autocommit, TypeOK, Schema, Keys
    <3> QED BY <3>1 DEF Filled, Unset
  <2> QED BY <1>7, <2>1, <2>2
<1>8. CASE Contract
  BY <1>8 DEF Contract, Complete, Filled, Unset, TypeOK, Schema
<1>9. CASE Attach \/ Label
  <2>1. work'.required = work.required /\ db' = db /\ mail' = mail /\ upgrade.at # "idle"
    BY <1>9 DEF Attach, Label, TypeOK, Schema
  <2>2. upgrade'.busy = upgrade.busy \cup {"events"}
    BY <1>9 DEF Attach, Label, TypeOK
  <2> QED BY <2>1, <2>2 DEF Filled, Unset
<1>10. CASE Prepare \/ GuardBefore \/ History
  BY <1>10 DEF Prepare, GuardBefore, History, At, Filled, Unset, TypeOK
<1>11. CASE Apply
  BY <1>11 DEF Apply, Filled, Unset, TypeOK, Schema
<1>12. CASE Commit \/ Stop
  BY <1>12 DEF Commit, Stop, Resting, Filled, Unset
<1>13. CASE UNCHANGED schemaVars
  BY <1>13 DEF schemaVars, Filled, Unset
<1> QED
  BY <1>1, <1>2, <1>3, <1>4, <1>5, <1>6, <1>7, <1>8, <1>9, <1>10, <1>11, <1>12, <1>13 DEF Next

LEMMA NextUnique ==
  TypeOK /\ Committed /\ Working /\ Unique /\ [Next]_schemaVars => Unique'
<1> SUFFICES ASSUME TypeOK, Committed, Working, Unique, [Next]_schemaVars PROVE Unique'
  OBVIOUS
<1> USE DEF Go
<1>0. ASSUME mail' = mail, Whole(db') => Whole(db) \/ (upgrade.at # "idle" /\ Whole(work)),
             upgrade'.at # "idle" /\ Whole(work') => Whole(db')
      PROVE  Unique'
  BY <1>0 DEF Unique, Whole, Copies, Unset
<1>1. ASSUME NEW m \in Messages, Arrive(m) \/ Repair(m) PROVE Unique'
  BY <1>1, RowsUnique
<1>2. CASE Deploy \/ Seal
  BY <1>2 DEF Deploy, Seal, Others, Unique, Whole, Copies, Unset
<1>3. ASSUME NEW target \in Revisions, Begin(target) PROVE Unique'
  BY <1>0, <1>3 DEF Begin
<1>4. CASE Expand
  BY <1>0, <1>4 DEF Expand, At, Autocommit, Whole, TypeOK, Schema
<1>5. CASE Fill
  <2>1. PICK batch \in SUBSET Unset \ {{}} :
          /\ db.key["message"] = "valid" => ~Twins(batch \cup (Copies \ Unset))
          /\ mail' = [m \in Messages |-> IF m \in batch THEN "set" ELSE mail[m]]
    BY <1>5 DEF Fill
  <2>2. (Copies \ Unset)' = batch \cup (Copies \ Unset)
    BY <2>1 DEF Copies, Unset, TypeOK
  <2>3. db.key["message"] # "attached" \/ Unset = {}
    BY <1>5 DEF Fill, Working, Committed, ShapeAt, TypeOK, Schema, Unique, Whole
  <2> QED BY <1>5, <2>1, <2>2, <2>3 DEF Fill, Unique, Whole, Twins
<1>6. CASE Checked
  BY <1>0, <1>6 DEF Checked, Unique, TypeOK
<1>7. ASSUME NEW k \in Keys, Reuse(k) \/ Drop(k) \/ Build(k) \/ BuildFails(k) PROVE Unique'
  <2>1. CASE Reuse(k)
    BY <1>0, <2>1 DEF Reuse, Unique, Whole, TypeOK, Keys
  <2>2. CASE k # "message" /\ (Drop(k) \/ Build(k) \/ BuildFails(k))
    <3>1. work' = db' /\ mail' = mail /\ upgrade.at # "idle"
      BY <2>2 DEF Drop, Build, BuildFails, Autocommit, Keys
    <3>2. db'.key["message"] = work.key["message"]
      BY <2>2 DEF Drop, Build, BuildFails, Autocommit, TypeOK, Schema, Keys
    <3> QED BY <1>0, <3>1, <3>2 DEF Whole
  <2>3. CASE k = "message" /\ (Drop(k) \/ BuildFails(k))
    <3>1. work' = db' /\ mail' = mail /\ ~Whole(db')
      BY <2>3 DEF Drop, BuildFails, Autocommit, Whole, TypeOK, Schema, Keys
    <3> QED BY <1>0, <3>1
  <2>4. CASE k = "message" /\ Build(k)
    <3>1. work' = db' /\ mail' = mail /\ ~Twins(Copies \ Unset)
      BY <2>4 DEF Build, Autocommit
    <3> QED BY <3>1 DEF Unique, Copies, Unset
  <2> QED BY <1>7, <2>1, <2>2, <2>3, <2>4
<1>8. CASE Contract
  BY <1>0, <1>8 DEF Contract, Working, Unique, Whole, TypeOK, Schema, Keys
<1>9. CASE Attach \/ Label
  BY <1>0, <1>9 DEF Attach, Label, Unique, Whole, TypeOK, Schema, Keys
<1>10. CASE Prepare \/ GuardBefore \/ History
  BY <1>0, <1>10 DEF Prepare, GuardBefore, History, At, Unique, TypeOK
<1>11. CASE Apply
  BY <1>0, <1>11 DEF Apply, Unique, Whole, TypeOK, Schema
<1>12. CASE Commit \/ Stop
  BY <1>0, <1>12 DEF Commit, Stop, Resting
<1>13. CASE UNCHANGED schemaVars
  BY <1>13 DEF schemaVars, Unique, Whole, Copies, Unset
<1> QED
  BY <1>1, <1>2, <1>3, <1>4, <1>5, <1>6, <1>7, <1>8, <1>9, <1>10, <1>11, <1>12, <1>13
  DEF Next

-----------------------------------------------------------------------------
(* Theorems                                                                *)

LEMMA InitIInv == Init => IInv
<1> SUFFICES ASSUME Init PROVE IInv
  OBVIOUS
<1>1. TypeOK /\ Committed /\ Working
  BY InitType, InitShape
<1>2. Labelled /\ Filled /\ Unique
  BY DEF Init, Source, Resting, Labelled, Filled, Unique, Whole, Keys
<1> QED BY <1>1, <1>2 DEF IInv

LEMMA NextIInv == IInv /\ [Next]_schemaVars => IInv'
  BY NextType, NextShape, NextLabelled, NextFilled, NextUnique DEF IInv

LEMMA Invariance == Spec => []IInv
  BY InitIInv, NextIInv, PTL DEF Spec

\* Committed and working schema, the upgrade and the rows keep their types.
THEOREM TypeCorrect == Spec => []TypeOK
<1>1. IInv => TypeOK
  BY DEF IInv
<1> QED BY <1>1, Invariance, PTL

\* verify_before_migrations knows whatever an upgrade has left behind.
THEOREM NextIsAdmittedHolds == Spec => []NextIsAdmitted
<1>1. IInv => NextIsAdmitted
  BY DEF IInv, Committed, ShapeAt, NextIsAdmitted, Admissible, Resumes16, Resumes17, Resumes18,
     TypeOK, Keys
<1> QED BY <1>1, Invariance, PTL

\* From 0017 on every message is there once, with its connection.
THEOREM IdentityHoldsAlways == Spec => []IdentityHolds
<1>1. IInv => IdentityHolds
  <2> SUFFICES ASSUME IInv, db.revision >= 17 PROVE Unambiguous
    BY DEF IdentityHolds
  <2>1. db.required /\ Whole(db)
    BY DEF IInv, Committed, ShapeAt, Whole
  <2>2. Unset = {} /\ ~Twins(Copies \ Unset)
    BY <2>1 DEF IInv, Filled, Unique
  <2> QED BY <2>2 DEF Unambiguous, Twins
<1> QED BY <1>1, Invariance, PTL

\* The strict guard, asked twice, keeps every sealed event out of 0019.
THEOREM NothingLabelledHolds == Spec => []NothingLabelled
<1>1. IInv => NothingLabelled
  BY DEF IInv, Committed, NothingLabelled
<1> QED BY <1>1, Invariance, PTL

-----------------------------------------------------------------------------
(* Backups                                                                 *)

RunPhases == {"idle", "produce", "dump", "seal", "link", "copy", "check", "undo", "retain", "clean",
           "delete", "dead", "done", "failed", "end", "unlink", "discard", "withdraw"}

Records == [at : RunPhases, host : Hosts \cup {Nowhere}, sealed : BOOLEAN, created : Nat, wrote : Nat,
            sent : 0..3, cancelled : BOOLEAN, keeps : BOOLEAN, victim : Backup!Runs \cup {0},
            cleans : BOOLEAN, spoilt : BOOLEAN]

BackupTyped ==
  /\ day \in Nat /\ lock \in Backup!Runs \cup {0} /\ flock \in [Hosts -> Backup!Runs \cup {0}]
  /\ run \in [Backup!Runs -> Records]
  /\ local \in [Backup!Runs -> SUBSET Backup!Whole] /\ remote \in [Backup!Runs -> SUBSET Backup!Whole]

\* What publishing and taking back leave.
Begun == {{}, {"dump"}, {"dump", "checksum"}}
Shapes == Begun \cup {Backup!Whole, {"checksum"}}

\* Runs begin one after the other, and the lock is that of the last one if it is anybody's.
Ordered ==
  /\ \A r \in Backup!Runs : run[r].at = "idle" =>
       /\ ~run[r].cleans /\ local[r] = {} /\ remote[r] = {}
       /\ \A o \in Backup!Runs : o > r => run[o].at = "idle"
  /\ lock # 0 => Backup!Active(lock) /\ \A o \in Backup!Runs : o > lock => run[o].at = "idle"

\* A run that has lost its lock knows it when it is over.
Locking ==
  \A r \in Backup!Runs : Backup!Active(r) =>
    /\ run[r].host \in Hosts /\ flock[run[r].host] = r
    /\ run[r].spoilt \/ lock = r

\* What a run has sent, and what of its files is there.
SentOf(n) == {Backup!Members[i] : i \in 1..n}

Fits(r, k, held, here, there) ==
  /\ k.spoilt \/ there \in Shapes
  /\ k.at \in {"produce", "dump", "seal"} => here = {}
  /\ k.at \in {"produce", "dump", "seal", "link"} => there = {} /\ k.sent = 0
  /\ k.at = "link" => here \in Begun \cup {Backup!Whole}
  /\ k.at \in {"copy", "check", "retain", "clean", "delete"} => here = Backup!Whole
  /\ k.at = "copy" => k.sent < 3
  /\ k.at \in {"copy", "check"} /\ held = r => there = SentOf(k.sent)
  /\ k.at \in {"retain", "clean", "delete"} /\ held = r => there = Backup!Whole
  /\ k.at \in {"clean", "delete"} => k.cleans
  /\ k.at = "delete" => k.victim \in Backup!Runs \ {r}

Fitting == \A r \in Backup!Runs : Fits(r, run[r], lock, local[r], remote[r])

BackupInv == BackupTyped /\ Ordered /\ Locking /\ Fitting /\ Backup!NewestStays

LEMMA BackupParts ==
  BackupInv => BackupTyped /\ Ordered /\ Locking /\ Fitting /\ Backup!NewestStays
  BY DEF BackupInv

LEMMA RunOf ==
  ASSUME BackupInv, NEW r \in Backup!Runs
  PROVE  /\ run[r] \in Records /\ Fits(r, run[r], lock, local[r], remote[r])
         /\ local[r] \in SUBSET Backup!Whole /\ remote[r] \in SUBSET Backup!Whole /\ r \in Nat \ {0}
  BY BackupParts, BackupAssumption DEF BackupTyped, Fitting, Backup!Runs

\* What a phase does not concern.
Alike(k, old) ==
  /\ k.host = old.host /\ k.sent = old.sent /\ k.victim = old.victim
  /\ k.cleans = old.cleans /\ k.spoilt = old.spoilt

LEMMA GoMeans ==
  ASSUME BackupInv, NEW r \in Backup!Runs, NEW at \in RunPhases, Backup!Go(r, at)
  PROVE  \E k \in Records : run' = [run EXCEPT ![r] = k] /\ k.at = at /\ Alike(k, run[r])
<1> DEFINE old == run[r]
           k == [old EXCEPT !.at = at]
<1>1. run' = [run EXCEPT ![r] = k]
  BY DEF Backup!Go, Backup!Set
<1>2. old \in Records
  BY RunOf
<1>3. k \in Records /\ k.at = at /\ Alike(k, old)
  BY <1>2 DEF Records, Alike
<1> HIDE DEF k
<1> QED
  BY <1>1, <1>3

\* An instance counts with its own copy of the library's operator.
LEMMA BackupCounts ==
  ASSUME NEW S PROVE Backup!Cardinality(S) = Cardinality(S)
  BY DEF Backup!Cardinality, Cardinality

LEMMA RolloutCounts ==
  ASSUME NEW S PROVE Rollout!Cardinality(S) = Cardinality(S)
  BY DEF Rollout!Cardinality, Cardinality

LEMMA Figures ==
  /\ SentOf(0) = {} /\ SentOf(1) = {"dump"}
  /\ SentOf(2) = {"dump", "checksum"} /\ SentOf(3) = Backup!Whole
  /\ Cardinality({}) = 0 /\ Cardinality({"dump"}) = 1 /\ Cardinality({"dump", "checksum"}) = 2
<1>1. Cardinality({}) = 0 /\ IsFiniteSet({})
  BY FS_EmptySet
<1>2. Cardinality({"dump"}) = 1 /\ IsFiniteSet({"dump"})
  BY FS_Singleton
<1>3. Cardinality({"dump", "checksum"}) = 2
  <2>1. {"dump", "checksum"} = {"dump"} \cup {"checksum"} /\ "checksum" \notin {"dump"}
    OBVIOUS
  <2>2. Cardinality({"dump"} \cup {"checksum"}) = 2
    BY <1>2, <2>1, FS_AddElement
  <2> QED
    BY <2>1, <2>2
<1>4. SentOf(0) = {} /\ SentOf(1) = {"dump"}
  BY DEF SentOf, Backup!Members
<1>5. SentOf(2) = {"dump", "checksum"}
  BY DEF SentOf, Backup!Members
<1>6. SentOf(3) = Backup!Whole
  BY DEF SentOf, Backup!Members, Backup!Whole
<1> QED
  BY <1>1, <1>2, <1>3, <1>4, <1>5, <1>6

\* The next file of a group keeps it in order.
LEMMA FollowingFits ==
  ASSUME NEW there \in Begun
  PROVE  there \cup {Backup!Following(there)} \in (Begun \cup {Backup!Whole}) \ {{}}
<1>1. Backup!Following(there) = Backup!Members[Cardinality(there) + 1]
  BY BackupCounts DEF Backup!Following
<1>2. CASE there = {}
  <2>1. Backup!Following(there) = "dump"
    BY <1>1, <1>2, Figures DEF Backup!Members
  <2> QED
    BY <1>2, <2>1 DEF Begun
<1>3. CASE there = {"dump"}
  <2>1. Backup!Following(there) = "checksum"
    BY <1>1, <1>3, Figures DEF Backup!Members
  <2> QED
    BY <1>3, <2>1 DEF Begun
<1>4. CASE there = {"dump", "checksum"}
  <2>1. Backup!Following(there) = "manifest"
    BY <1>1, <1>4, Figures DEF Backup!Members
  <2> QED
    BY <1>4, <2>1 DEF Backup!Whole
<1> QED
  BY <1>2, <1>3, <1>4 DEF Begun

LEMMA SentFits ==
  ASSUME NEW n \in 0..2
  PROVE  /\ SentOf(n) \in Begun /\ SentOf(n) \cup {Backup!Members[n + 1]} = SentOf(n + 1)
         /\ SentOf(n + 1) \in Shapes /\ SentOf(n) # Backup!Whole
<1>1. CASE n = 0
  BY <1>1, Figures DEF Begun, Shapes, Backup!Whole, Backup!Members
<1>2. CASE n = 1
  BY <1>2, Figures DEF Begun, Shapes, Backup!Whole, Backup!Members
<1>3. CASE n = 2
  BY <1>3, Figures DEF Begun, Shapes, Backup!Whole, Backup!Members
<1> QED
  BY <1>1, <1>2, <1>3

LEMMA RemovedFits ==
  ASSUME NEW there \in Shapes PROVE Backup!Removed(there) \in Shapes
  BY DEF Shapes, Begun, Backup!Whole, Backup!Removed

LEMMA RemovedTyped ==
  ASSUME NEW there \in SUBSET Backup!Whole PROVE Backup!Removed(there) \in SUBSET Backup!Whole
  BY DEF Backup!Removed

Over == {"done", "failed", "dead"}

\* What a run that has published a group may do to the files of an earlier one.
Cleared(r, o) ==
  /\ lock = r /\ o < r /\ run[r].cleans /\ run[o].at # "idle"
  /\ local'[o] = local[o] \/ ~Backup!Active(o)
  /\ \/ remote'[o] = remote[o]
     \/ remote[o] # {} /\ (remote[o] \in Shapes => remote'[o] \in Shapes)

\* Locks go with the run.
Lets(r) ==
  /\ lock' = (IF lock = r THEN 0 ELSE lock) /\ flock' = [flock EXCEPT ![run[r].host] = 0]

\* A step of one run: it knows about its lock, or is over and leaves its locks.
LEMMA StepKept ==
  ASSUME BackupInv, NEW r \in Backup!Runs, Backup!Active(r), NEW k \in Records,
         NEW here \in SUBSET Backup!Whole,
         NEW there \in SUBSET Backup!Whole, day' \in Nat,
         run' = [run EXCEPT ![r] = k],
         local' \in [Backup!Runs -> SUBSET Backup!Whole], local'[r] = here,
         remote' \in [Backup!Runs -> SUBSET Backup!Whole], remote'[r] = there,
         \A o \in Backup!Runs \ {r} :
           (local'[o] = local[o] /\ remote'[o] = remote[o]) \/ Cleared(r, o),
         k.at # "idle", k.host = run[r].host, run[r].spoilt => k.spoilt, run[r].cleans => k.cleans,
         \/ UNCHANGED <<lock, flock>> /\ k.at \notin Over
         \/ Lets(r) /\ k.at \in Over
         \/ lock = r /\ lock' = 0 /\ UNCHANGED flock /\ k.at \notin Over /\ k.spoilt,
         Fits(r, k, lock', here, there), k.at = "done" => here = Backup!Whole /\ there = Backup!Whole
  PROVE  BackupInv'
<1>0. \/ UNCHANGED <<lock, flock>> /\ k.at \notin Over
      \/ /\ lock' = (IF lock = r THEN 0 ELSE lock)
         /\ flock' = [flock EXCEPT ![run[r].host] = 0]
         /\ k.at \in Over
      \/ lock = r /\ lock' = 0 /\ UNCHANGED flock /\ k.at \notin Over /\ k.spoilt
  BY DEF Lets
<1>1. /\ run \in [Backup!Runs -> Records] /\ local \in [Backup!Runs -> SUBSET Backup!Whole]
      /\ remote \in [Backup!Runs -> SUBSET Backup!Whole] /\ lock \in Backup!Runs \cup {0}
      /\ flock \in [Hosts -> Backup!Runs \cup {0}]
      /\ \A o \in Backup!Runs : o \in Nat \ {0}
  BY BackupParts, RunOf DEF BackupTyped
<1>2. /\ run' \in [Backup!Runs -> Records] /\ run'[r] = k
      /\ \A o \in Backup!Runs : o # r => run'[o] = run[o]
  BY <1>1
<1>3. \A o \in Backup!Runs \ {r} : (local'[o] = local[o] /\ remote'[o] = remote[o]) \/ Cleared(r, o)
  OBVIOUS
<1>4. /\ local' \in [Backup!Runs -> SUBSET Backup!Whole] /\ local'[r] = here
      /\ remote' \in [Backup!Runs -> SUBSET Backup!Whole] /\ remote'[r] = there
  OBVIOUS
<1>5. run[r].at # "idle" /\ run[r].at \notin Over
  BY DEF Backup!Active, Over
<1>6. lock' \in {lock, 0} /\ (lock = r => lock' = 0 \/ k.at \notin Over)
  BY <1>0
<1>7. flock' \in [Hosts -> Backup!Runs \cup {0}]
  BY <1>0, <1>1
<1>8. BackupTyped'
  BY <1>1, <1>2, <1>4, <1>6, <1>7 DEF BackupTyped
<1>9. Ordered'
  <2>1. \A o \in Backup!Runs : run'[o].at = "idle" <=> run[o].at = "idle"
    BY <1>2, <1>5
  <2>2. ASSUME NEW o \in Backup!Runs, run'[o].at = "idle"
        PROVE  /\ ~run'[o].cleans /\ local'[o] = {} /\ remote'[o] = {}
               /\ \A p \in Backup!Runs : p > o => run'[p].at = "idle"
    <3>1. o # r /\ run[o].at = "idle"
      BY <1>2, <1>5, <2>1, <2>2
    <3>2. /\ ~run[o].cleans /\ local[o] = {} /\ remote[o] = {}
          /\ \A p \in Backup!Runs : p > o => run[p].at = "idle"
      BY <3>1, BackupParts DEF Ordered
    <3>3. local'[o] = local[o] /\ remote'[o] = remote[o]
      BY <1>3, <3>1 DEF Cleared
    <3> QED
      BY <1>2, <2>1, <3>1, <3>2, <3>3
  <2>3. ASSUME lock' # 0
        PROVE  Backup!Active(lock)' /\ \A o \in Backup!Runs : o > lock' => run'[o].at = "idle"
    <3>1. lock' = lock /\ lock # 0 /\ lock \in Backup!Runs
      BY <1>1, <1>6, <2>3
    <3>2. Backup!Active(lock) /\ \A o \in Backup!Runs : o > lock => run[o].at = "idle"
      BY <3>1, BackupParts DEF Ordered
    <3>3. run'[lock].at \notin {"idle"} \cup Over
      BY <1>2, <1>5, <1>6, <3>1, <3>2, <2>3 DEF Backup!Active, Over
    <3> QED
      BY <2>1, <3>1, <3>2, <3>3 DEF Backup!Active, Over
  <2> QED
    BY <2>2, <2>3 DEF Ordered
<1>10. Locking'
  <2> SUFFICES ASSUME NEW o \in Backup!Runs, Backup!Active(o)'
      PROVE  /\ run'[o].host \in Hosts /\ flock'[run'[o].host] = o
             /\ run'[o].spoilt \/ lock' = o
    BY DEF Locking
  <2>1. run[r].host \in Hosts /\ flock[run[r].host] = r /\ (run[r].spoilt \/ lock = r)
    BY BackupParts DEF Locking
  <2>2. CASE o = r
    <3>1. k.at \notin Over
      BY <1>2, <2>2 DEF Backup!Active, Over
    <3> QED
      BY <1>0, <1>2, <2>1, <2>2, <3>1
  <2>3. CASE o # r
    <3>1. Backup!Active(o)
      BY <1>2, <2>3 DEF Backup!Active
    <3>2. run[o].host \in Hosts /\ flock[run[o].host] = o /\ (run[o].spoilt \/ lock = o)
      BY <3>1, BackupParts DEF Locking
    <3>3. run[o].host # run[r].host
      BY <2>1, <2>3, <3>2
    <3>4. flock'[run[o].host] = o
      BY <1>0, <1>1, <3>2, <3>3
    <3>5. lock = o => lock' = o
      BY <1>0, <2>3
    <3> QED
      BY <1>2, <2>3, <3>2, <3>4, <3>5
  <2> QED
    BY <2>2, <2>3
<1>11. Fitting'
  <2> SUFFICES ASSUME NEW o \in Backup!Runs PROVE Fits(o, run'[o], lock', local'[o], remote'[o])
    BY DEF Fitting, Fits
  <2>1. CASE o = r
    BY <1>2, <1>4, <2>1
  <2>2. CASE o # r
    <3>1. Fits(o, run[o], lock, local[o], remote[o])
      BY RunOf
    <3>2. lock' = o => lock = o
      BY <1>1, <1>6
    <3>3. Fits(o, run[o], lock', local[o], remote[o])
      BY <3>1, <3>2 DEF Fits
    <3>4. CASE local'[o] = local[o] /\ remote'[o] = remote[o]
      BY <1>2, <2>2, <3>3, <3>4
    <3>5. CASE Cleared(r, o)
      <4>1. lock' # o
        BY <1>1, <1>6, <2>2, <3>5 DEF Cleared
      <4>2. local'[o] = local[o] \/ run[o].at \in Over
        BY <3>5 DEF Cleared, Backup!Active, Over
      <4>3. \/ remote'[o] = remote[o]
            \/ remote[o] # {} /\ (remote[o] \in Shapes => remote'[o] \in Shapes)
        BY <3>5 DEF Cleared
      <4>4. Fits(o, run[o], lock', local'[o], remote[o])
        BY <3>3, <4>2 DEF Fits, Over
      <4>5. Fits(o, run[o], lock', local'[o], remote'[o])
        BY <4>1, <4>3, <4>4 DEF Fits
      <4> QED
        BY <1>2, <2>2, <4>5
    <3> QED
      BY <1>3, <2>2, <3>4, <3>5
  <2> QED
    BY <2>1, <2>2
<1>12. Backup!NewestStays'
  <2> SUFFICES ASSUME NEW o \in Backup!Runs, run'[o].at = "done",
                      \A p \in Backup!Runs : p > o => ~run'[p].cleans
      PROVE  local'[o] = Backup!Whole /\ remote'[o] = Backup!Whole
    BY DEF Backup!NewestStays
  <2>1. CASE o = r
    BY <1>2, <1>4, <2>1
  <2>2. CASE o # r
    <3>1. \A p \in Backup!Runs : run[p].cleans => run'[p].cleans
      BY <1>2
    <3>2. run[o].at = "done" /\ \A p \in Backup!Runs : p > o => ~run[p].cleans
      BY <1>2, <2>2, <3>1
    <3>3. ~Cleared(r, o)
      BY <1>1, <3>2 DEF Cleared
    <3>4. local[o] = Backup!Whole /\ remote[o] = Backup!Whole
      BY <3>2, BackupParts DEF Backup!NewestStays
    <3> QED
      BY <1>3, <2>2, <3>3, <3>4
  <2> QED
    BY <2>1, <2>2
<1> QED
  BY <1>8, <1>9, <1>10, <1>11, <1>12 DEF BackupInv

\* What every step keeps of its run while it goes on.
Onward(k, old) ==
  /\ k.at \notin {"idle"} \cup Over /\ k.host = old.host
  /\ (old.spoilt => k.spoilt) /\ (old.cleans => k.cleans)

\* A step of the local files.
LEMMA HereKept ==
  ASSUME BackupInv, NEW r \in Backup!Runs, Backup!Active(r), NEW k \in Records,
         NEW here \in SUBSET Backup!Whole,
         run' = [run EXCEPT ![r] = k], local' = [local EXCEPT ![r] = here],
         UNCHANGED <<day, lock, flock, remote>>,
         Onward(k, run[r]),
         Fits(r, k, lock, here, remote[r])
  PROVE  BackupInv'
<1>1. /\ day' \in Nat /\ remote[r] \in SUBSET Backup!Whole
      /\ local' \in [Backup!Runs -> SUBSET Backup!Whole] /\ local'[r] = here
      /\ remote' \in [Backup!Runs -> SUBSET Backup!Whole] /\ remote'[r] = remote[r]
      /\ \A o \in Backup!Runs \ {r} : local'[o] = local[o] /\ remote'[o] = remote[o]
  BY BackupParts DEF BackupTyped
<1>2. Fits(r, k, lock', here, remote[r])
  OBVIOUS
<1>3. /\ k.at # "idle" /\ k.at # "done" /\ k.host = run[r].host
      /\ run[r].spoilt => k.spoilt
      /\ run[r].cleans => k.cleans
  BY DEF Onward, Over
<1>4. UNCHANGED <<lock, flock>> /\ k.at \notin Over
  BY DEF Onward
<1> QED
  BY <1>1, <1>2, <1>3, <1>4, StepKept

\* A step that changes nothing but what the run knows of itself.
LEMMA PhaseKept ==
  ASSUME BackupInv, NEW r \in Backup!Runs, Backup!Active(r), NEW k \in Records,
         run' = [run EXCEPT ![r] = k], UNCHANGED <<day, lock, flock, local, remote>>,
         Onward(k, run[r]),
         Fits(r, k, lock, local[r], remote[r])
  PROVE  BackupInv'
<1>1. PICK here \in SUBSET Backup!Whole : here = local[r]
  BY RunOf
<1>2. local' = [local EXCEPT ![r] = here] /\ UNCHANGED <<day, lock, flock, remote>>
  BY <1>1, BackupParts DEF BackupTyped
<1>3. Fits(r, k, lock, here, remote[r])
  BY <1>1
<1> QED
  BY <1>2, <1>3, HereKept

\* A step of the remote files.
LEMMA ThereKept ==
  ASSUME BackupInv, NEW r \in Backup!Runs, Backup!Active(r), NEW k \in Records,
         NEW there \in SUBSET Backup!Whole,
         run' = [run EXCEPT ![r] = k], remote' = [remote EXCEPT ![r] = there],
         UNCHANGED <<day, lock, flock, local>>,
         Onward(k, run[r]),
         Fits(r, k, lock, local[r], there)
  PROVE  BackupInv'
<1>1. /\ day' \in Nat /\ local[r] \in SUBSET Backup!Whole
      /\ local' \in [Backup!Runs -> SUBSET Backup!Whole] /\ local'[r] = local[r]
      /\ remote' \in [Backup!Runs -> SUBSET Backup!Whole] /\ remote'[r] = there
      /\ \A o \in Backup!Runs \ {r} : local'[o] = local[o] /\ remote'[o] = remote[o]
  BY BackupParts DEF BackupTyped
<1>2. Fits(r, k, lock', local[r], there)
  OBVIOUS
<1>3. /\ k.at # "idle" /\ k.at # "done" /\ k.host = run[r].host
      /\ run[r].spoilt => k.spoilt
      /\ run[r].cleans => k.cleans
  BY DEF Onward, Over
<1>4. UNCHANGED <<lock, flock>> /\ k.at \notin Over
  BY DEF Onward
<1> QED
  BY <1>1, <1>2, <1>3, <1>4, StepKept

\* A step to another phase.
LEMMA GoKept ==
  ASSUME BackupInv, NEW r \in Backup!Runs, Backup!Active(r),
         NEW at \in RunPhases \ ({"idle"} \cup Over), Backup!Go(r, at),
         UNCHANGED <<day, lock, flock, local, remote>>,
         \A k \in Records : k.at = at /\ Alike(k, run[r]) => Fits(r, k, lock, local[r], remote[r])
  PROVE  BackupInv'
<1>1. PICK k \in Records : run' = [run EXCEPT ![r] = k] /\ k.at = at /\ Alike(k, run[r])
  BY GoMeans
<1>2. Fits(r, k, lock, local[r], remote[r])
  BY <1>1
<1>3. Onward(k, run[r])
  BY <1>1 DEF Alike, Onward
<1>4. run' = [run EXCEPT ![r] = k]
  BY <1>1
<1> QED
  BY <1>2, <1>3, <1>4, PhaseKept

-----------------------------------------------------------------------------
(* A run makes its group                                                   *)

LEMMA ProduceKept ==
  ASSUME BackupInv, NEW r \in Backup!Runs, Backup!Snapshot(r) \/ Backup!Dump(r) \/ Backup!Seal(r)
  PROVE  BackupInv'
<1> DEFINE old == run[r]
<1>1. /\ old \in Records /\ day \in Nat /\ Fits(r, old, lock, local[r], remote[r])
  BY RunOf, BackupParts DEF BackupTyped
<1>2. CASE Backup!Snapshot(r)
  <2> DEFINE k == [old EXCEPT !.at = "dump", !.created = day]
  <2>1. /\ old.at = "produce" /\ run' = [run EXCEPT ![r] = k]
        /\ UNCHANGED <<day, lock, flock, local, remote>>
    BY <1>2 DEF Backup!Snapshot, Backup!Kept, Backup!files
  <2>2. k \in Records
    BY <1>1 DEF Records, RunPhases
  <2>3. k.at = "dump" /\ Alike(k, old)
    BY <1>1 DEF Records, Alike
  <2> HIDE DEF k, old
  <2>4. Fits(r, k, lock, local[r], remote[r])
    BY <1>1, <2>1, <2>3 DEF Fits, Alike
  <2>5. Onward(k, run[r])
    BY <2>3 DEF Alike, Onward, Over, old
  <2>6. Backup!Active(r)
    BY <2>1 DEF Backup!Active, old
  <2> QED
    BY <2>1, <2>2, <2>4, <2>5, <2>6, PhaseKept
<1>3. CASE Backup!Dump(r)
  <2> DEFINE k == [old EXCEPT !.at = "seal", !.wrote = day]
  <2>1. /\ old.at = "dump" /\ run' = [run EXCEPT ![r] = k]
        /\ UNCHANGED <<day, lock, flock, local, remote>>
    BY <1>3 DEF Backup!Dump, Backup!Kept
  <2>2. k \in Records
    BY <1>1 DEF Records, RunPhases
  <2>3. k.at = "seal" /\ Alike(k, old)
    BY <1>1 DEF Records, Alike
  <2> HIDE DEF k, old
  <2>4. Fits(r, k, lock, local[r], remote[r])
    BY <1>1, <2>1, <2>3 DEF Fits, Alike
  <2>5. Onward(k, run[r])
    BY <2>3 DEF Alike, Onward, Over, old
  <2>6. Backup!Active(r)
    BY <2>1 DEF Backup!Active, old
  <2> QED
    BY <2>1, <2>2, <2>4, <2>5, <2>6, PhaseKept
<1>4. CASE Backup!Seal(r)
  <2>1. /\ run[r].at = "seal" /\ Backup!Go(r, "link") /\ UNCHANGED <<day, lock, flock, local, remote>>
    BY <1>4 DEF Backup!Seal, Backup!Kept
  <2>2. \A k \in Records : k.at = "link" /\ Alike(k, run[r]) => Fits(r, k, lock, local[r], remote[r])
    BY <1>1, <2>1 DEF Fits, Alike, Begun
  <2>3. Backup!Active(r) /\ "link" \in RunPhases \ ({"idle"} \cup Over)
    BY <2>1 DEF Backup!Active, RunPhases, Over
  <2> QED
    BY <2>1, <2>2, <2>3, GoKept
<1> QED
  BY <1>2, <1>3, <1>4

\* The files appear in their order, and remotely only where nobody has any.
LEMMA LinkKept ==
  ASSUME BackupInv, NEW r \in Backup!Runs, Backup!Link(r) PROVE BackupInv'
<1> DEFINE old == run[r]
           k == [old EXCEPT !.wrote = day]
           here == local[r] \cup {Backup!Following(local[r])}
<1>1. /\ old \in Records /\ day \in Nat /\ Fits(r, old, lock, local[r], remote[r])
      /\ local[r] \in SUBSET Backup!Whole
  BY RunOf, BackupParts DEF BackupTyped
<1>2. /\ old.at = "link" /\ local[r] # Backup!Whole /\ local' = [local EXCEPT ![r] = here]
      /\ run' = [run EXCEPT ![r] = k] /\ UNCHANGED <<day, lock, flock, remote>>
  BY DEF Backup!Link, Backup!Kept
<1>3. k \in Records /\ k.at = old.at /\ Alike(k, old)
  BY <1>1 DEF Records, Alike
<1>4. local[r] \in Begun
  BY <1>1, <1>2 DEF Fits
<1>5. here \in Begun \cup {Backup!Whole} /\ here \in SUBSET Backup!Whole /\ here \in Shapes
  BY <1>4, FollowingFits DEF Shapes, Begun, Backup!Whole
<1>6. Backup!Active(r)
  BY <1>2 DEF Backup!Active
<1> HIDE DEF k, here, old
<1>7. Fits(r, k, lock, here, remote[r])
  BY <1>1, <1>2, <1>3, <1>5 DEF Fits, Alike
<1>8. Onward(k, run[r])
  BY <1>2, <1>3 DEF Onward, Alike, Over, old
<1> QED
  BY <1>2, <1>3, <1>5, <1>6, <1>7, <1>8, HereKept

LEMMA CompareKept ==
  ASSUME BackupInv, NEW r \in Backup!Runs, Backup!Compare(r) PROVE BackupInv'
<1>1. /\ run[r].at = "link" /\ local[r] = Backup!Whole /\ Backup!Go(r, "copy")
      /\ UNCHANGED <<day, lock, flock, local, remote>>
  BY DEF Backup!Compare, Backup!Kept, Backup!files
<1>2. Fits(r, run[r], lock, local[r], remote[r])
  BY RunOf
<1>3. \A k \in Records : k.at = "copy" /\ Alike(k, run[r]) => Fits(r, k, lock, local[r], remote[r])
  BY <1>1, <1>2, Figures DEF Fits, Alike
<1>4. Backup!Active(r) /\ "copy" \in RunPhases \ ({"idle"} \cup Over)
  BY <1>1 DEF Backup!Active, RunPhases, Over
<1> QED
  BY <1>1, <1>3, <1>4, GoKept

\* While its lock is held, what is there is what the run has sent.
LEMMA CopyKept ==
  ASSUME BackupInv, NEW r \in Backup!Runs, Backup!Copy(r) PROVE BackupInv'
<1> DEFINE old == run[r]
           n == old.sent
           k == [old EXCEPT !.at = "check", !.sent = n + 1, !.wrote = day]
           there == remote[r] \cup {Backup!Members[n + 1]}
<1>1. /\ old \in Records /\ day \in Nat /\ Fits(r, old, lock, local[r], remote[r])
      /\ remote[r] \in SUBSET Backup!Whole
  BY RunOf, BackupParts DEF BackupTyped
<1>2. /\ old.at = "copy" /\ remote' = [remote EXCEPT ![r] = there]
      /\ run' = [run EXCEPT ![r] = k] /\ UNCHANGED <<day, lock, flock, local>>
  <2>1. run' = [run EXCEPT ![r] = k]
    BY DEF Backup!Copy
  <2> QED
    BY <2>1 DEF Backup!Copy, Backup!Kept
<1>3. n \in 0..2
  BY <1>1, <1>2 DEF Fits, Records
<1>4. /\ k \in Records
      /\ k.at = "check" /\ k.sent = n + 1 /\ k.host = old.host /\ k.cleans = old.cleans
      /\ k.spoilt = old.spoilt
  <2>1. n + 1 \in 0..3
    BY <1>3
  <2>2. k.sent = n + 1
    BY <1>1 DEF Records
  <2>3. k \in Records
    BY <1>1, <2>1, <2>2 DEF Records, RunPhases
  <2> QED
    BY <1>1, <2>2, <2>3 DEF Records
<1>5. k.at = "check" /\ k.sent = n + 1 /\ k.host = old.host /\ k.cleans = old.cleans /\ k.spoilt = old.spoilt
  BY <1>4
<1>6. there \in SUBSET Backup!Whole
  BY <1>1, <1>3 DEF Backup!Members, Backup!Whole
<1>7. Backup!Active(r)
  BY <1>2 DEF Backup!Active
<1>8. old.spoilt \/ lock = r
  BY <1>7, BackupParts DEF Locking
<1>9. lock = r => there = SentOf(n + 1) /\ there \in Shapes
  <2>1. lock = r => remote[r] = SentOf(n)
    BY <1>1, <1>2 DEF Fits
  <2>2. SentOf(n) \cup {Backup!Members[n + 1]} = SentOf(n + 1) /\ SentOf(n + 1) \in Shapes
    BY <1>3, SentFits
  <2> HIDE DEF n
  <2> QED
    BY <2>1, <2>2
<1> HIDE DEF k, there, old, n
<1>10. Fits(r, k, lock, local[r], there)
  BY <1>1, <1>2, <1>5, <1>8, <1>9 DEF Fits
<1>11. Onward(k, run[r])
  BY <1>5 DEF Onward, Over, old
<1> QED
  BY <1>2, <1>4, <1>6, <1>7, <1>10, <1>11, ThereKept

LEMMA CheckKept ==
  ASSUME BackupInv, NEW r \in Backup!Runs, Backup!Check(r) PROVE BackupInv'
<1>1. /\ run[r].at = "check" /\ remote[r] = Backup!Sent(r) /\ UNCHANGED <<day, lock, flock, local, remote>>
      /\ (Backup!AllSent(r) /\ Backup!Go(r, "retain")) \/ (~Backup!AllSent(r) /\ Backup!Go(r, "copy"))
  BY DEF Backup!Check, Backup!Kept, Backup!files
<1>2. Fits(r, run[r], lock, local[r], remote[r]) /\ run[r].sent \in 0..3
  BY RunOf DEF Records
<1>3. Backup!Sent(r) = SentOf(run[r].sent)
  BY DEF Backup!Sent, SentOf
<1>4. Backup!Active(r) /\ {"retain", "copy"} \subseteq RunPhases \ ({"idle"} \cup Over)
  BY <1>1 DEF Backup!Active, RunPhases, Over
<1>5. CASE Backup!AllSent(r)
  <2>1. Backup!Sent(r) = Backup!Whole /\ Backup!Go(r, "retain")
    BY <1>1, <1>5 DEF Backup!AllSent
  <2>2. \A k \in Records : k.at = "retain" /\ Alike(k, run[r]) => Fits(r, k, lock, local[r], remote[r])
    BY <1>1, <1>2, <2>1 DEF Fits, Alike
  <2> QED
    BY <1>1, <1>4, <2>1, <2>2, GoKept
<1>6. CASE ~Backup!AllSent(r)
  <2>1. Backup!Go(r, "copy") /\ run[r].sent < 3
    BY <1>1, <1>2, <1>3, <1>6, Figures DEF Backup!AllSent
  <2>2. \A k \in Records : k.at = "copy" /\ Alike(k, run[r]) => Fits(r, k, lock, local[r], remote[r])
    BY <1>1, <1>2, <1>3, <2>1 DEF Fits, Alike
  <2> QED
    BY <1>1, <1>4, <2>1, <2>2, GoKept
<1> QED
  BY <1>5, <1>6

\* What a failing copy has left is in order, too, unless the lock was lost.
LEMMA RemoteFailsKept ==
  ASSUME BackupInv, NEW r \in Backup!Runs, Backup!RemoteFails(r) PROVE BackupInv'
<1> DEFINE old == run[r]
           n == old.sent
           more == remote[r] \cup {Backup!Members[n + 1]}
<1>1. /\ old \in Records /\ Fits(r, old, lock, local[r], remote[r])
      /\ remote \in [Backup!Runs -> SUBSET Backup!Whole] /\ remote[r] \in SUBSET Backup!Whole
  BY RunOf, BackupParts DEF BackupTyped
<1>2. PICK keeps \in BOOLEAN : keeps = Backup!Keeps(r)
  BY <1>1 DEF Backup!Keeps, Records
<1> DEFINE k == [old EXCEPT !.at = "undo", !.keeps = keeps]
<1>3. run' = [run EXCEPT ![r] = k] /\ UNCHANGED <<day, lock, flock, local>>
  BY <1>2 DEF Backup!RemoteFails, Backup!Kept
<1>4. old.at \in {"link", "check", "copy"}
  BY DEF Backup!RemoteFails, Backup!Collides
<1>5. k \in Records /\ k.at = "undo" /\ Alike(k, old)
  BY <1>1 DEF Records, RunPhases, Alike
<1>6. Backup!Active(r)
  BY <1>4 DEF Backup!Active
<1>7. old.spoilt \/ lock = r
  BY <1>6, BackupParts DEF Locking
<1>8. \E there \in SUBSET Backup!Whole :
         remote' = [remote EXCEPT ![r] = there] /\ (old.spoilt \/ there \in Shapes)
  <2>1. CASE UNCHANGED remote
    <3>1. remote' = [remote EXCEPT ![r] = remote[r]]
      BY <1>1, <2>1
    <3> QED
      BY <1>1, <3>1 DEF Fits
  <2>2. CASE old.at = "copy" /\ remote' = [remote EXCEPT ![r] = more]
    <3>1. n \in 0..2
      BY <1>1, <2>2 DEF Fits, Records
    <3>2. more \in SUBSET Backup!Whole
      BY <1>1, <3>1 DEF Backup!Members, Backup!Whole
    <3>3. lock = r => more \in Shapes
      <4>1. lock = r => remote[r] = SentOf(n)
        BY <1>1, <2>2 DEF Fits
      <4>2. SentOf(n) \cup {Backup!Members[n + 1]} = SentOf(n + 1) /\ SentOf(n + 1) \in Shapes
        BY <3>1, SentFits
      <4> HIDE DEF n
      <4> QED
        BY <4>1, <4>2
    <3> HIDE DEF more
    <3> QED
      BY <1>7, <2>2, <3>2, <3>3
  <2> QED
    BY <2>1, <2>2 DEF Backup!RemoteFails
<1>9. PICK there \in SUBSET Backup!Whole :
         remote' = [remote EXCEPT ![r] = there] /\ (old.spoilt \/ there \in Shapes)
  BY <1>8
<1> HIDE DEF k, old, more, n
<1>10. Fits(r, k, lock, local[r], there)
  BY <1>1, <1>5, <1>9 DEF Fits, Alike
<1>11. Onward(k, run[r])
  BY <1>5 DEF Onward, Alike, Over, old
<1> QED
  BY <1>3, <1>5, <1>6, <1>9, <1>10, <1>11, ThereKept

-----------------------------------------------------------------------------
(* It clears away                                                          *)

LEMMA RetainKept ==
  ASSUME BackupInv, NEW r \in Backup!Runs, Backup!Retain(r) PROVE BackupInv'
<1>0. PICK e \in BOOLEAN : e = TRUE
  OBVIOUS
<1> DEFINE old == run[r]
           k == [old EXCEPT !.at = "clean", !.sent = 0, !.cleans = e]
<1>1. old \in Records /\ Fits(r, old, lock, local[r], remote[r])
  BY RunOf
<1>2. /\ old.at = "retain" /\ run' = [run EXCEPT ![r] = k]
      /\ UNCHANGED <<day, lock, flock, local, remote>>
  BY <1>0 DEF Backup!Retain, Backup!Kept, Backup!files
<1>3. k \in Records /\ k.at = "clean" /\ k.cleans = TRUE /\ k.host = old.host /\ k.spoilt = old.spoilt
  <2>1. k \in Records
    <3>1. "clean" \in RunPhases /\ 0 \in 0..3
      BY DEF RunPhases
    <3> QED
      BY <1>1, <3>1, Zenon DEF Records
  <2>2. k.at = "clean" /\ k.host = old.host /\ k.spoilt = old.spoilt
    BY <1>1 DEF Records
  <2>3. k.cleans = TRUE
    BY <1>0, <1>1 DEF Records
  <2> QED
    BY <2>1, <2>2, <2>3
<1>4. Backup!Active(r)
  BY <1>2 DEF Backup!Active
<1> HIDE DEF k, old
<1>5. Fits(r, k, lock, local[r], remote[r])
  BY <1>1, <1>2, <1>3 DEF Fits
<1>6. Onward(k, run[r])
  BY <1>3 DEF Onward, Over, old
<1> QED
  BY <1>2, <1>3, <1>4, <1>5, <1>6, PhaseKept

LEMMA PickKept ==
  ASSUME BackupInv, NEW r \in Backup!Runs, Backup!PickRemote(r) PROVE BackupInv'
<1> DEFINE old == run[r]
<1>1. old \in Records /\ Fits(r, old, lock, local[r], remote[r])
  BY RunOf
<1>2. PICK o \in Backup!Runs : /\ Backup!Expired(remote, r, o)
                        /\ run' = [run EXCEPT ![r] = [old EXCEPT !.at = "delete", !.victim = o]]
  BY DEF Backup!PickRemote
<1> DEFINE k == [old EXCEPT !.at = "delete", !.victim = o]
<1>3. /\ old.at = "clean" /\ run' = [run EXCEPT ![r] = k]
      /\ UNCHANGED <<day, lock, flock, local, remote>>
  BY <1>2 DEF Backup!PickRemote, Backup!Kept, Backup!files
<1>4. o \in Backup!Runs \ {r}
  BY <1>2 DEF Backup!Expired
<1>5. /\ k \in Records /\ k.at = "delete" /\ k.victim = o /\ k.cleans = old.cleans
      /\ k.host = old.host /\ k.spoilt = old.spoilt
  BY <1>1 DEF Records, RunPhases
<1>6. Backup!Active(r)
  BY <1>3 DEF Backup!Active
<1> HIDE DEF k, old
<1>7. Fits(r, k, lock, local[r], remote[r])
  BY <1>1, <1>3, <1>4, <1>5 DEF Fits
<1>8. Onward(k, run[r])
  BY <1>5 DEF Onward, Over, old
<1> QED
  BY <1>3, <1>5, <1>6, <1>7, <1>8, PhaseKept

\* Files of others belong to runs before the one that holds the lock.
LEMMA OthersAreEarlier ==
  ASSUME BackupInv, NEW r \in Backup!Runs, NEW o \in Backup!Runs \ {r}, lock = r,
         local[o] # {} \/ remote[o] # {}
  PROVE  o < r /\ run[o].at # "idle"
<1>1. r \in Nat \ {0} /\ o \in Nat \ {0}
  BY RunOf
<1>2. run[o].at # "idle"
  BY BackupParts DEF Ordered
<1>3. ~(o > r)
  BY <1>1, <1>2, BackupParts DEF Ordered
<1> QED
  BY <1>1, <1>2, <1>3

\* The directory is locked, so that nobody else is at work in it.
LEMMA ClearableMeans ==
  ASSUME BackupInv, NEW r \in Backup!Runs, Backup!Active(r), NEW o \in Backup!Clearable(r), lock = r
  PROVE  /\ o \in Backup!Runs \ {r} /\ local[o] # {} /\ ~Backup!Active(o) /\ o < r /\ run[o].at # "idle"
         /\ local[o] = Backup!Whole \/ "manifest" \notin local[o]
<1>1. o \in Backup!Runs \ {r} /\ run[o].host = run[r].host /\ Backup!Expired(local, r, o)
  BY DEF Backup!Clearable, Backup!Neighbours
<1>2. (local[o] = Backup!Whole \/ "manifest" \notin local[o]) /\ local[o] # {}
  BY <1>1 DEF Backup!Expired, Backup!Whole
<1>3. ~Backup!Active(o)
  BY <1>1, BackupParts DEF Locking
<1>4. o < r /\ run[o].at # "idle"
  BY <1>1, <1>2, OthersAreEarlier
<1> QED
  BY <1>1, <1>2, <1>3, <1>4

LEMMA CleanKept ==
  ASSUME BackupInv, NEW r \in Backup!Runs, Backup!CleanLocal(r) PROVE BackupInv'
<1>1. /\ run[r] \in Records /\ Fits(r, run[r], lock, local[r], remote[r])
      /\ local[r] \in SUBSET Backup!Whole /\ remote[r] \in SUBSET Backup!Whole
  BY RunOf
<1>2. /\ run[r].at = "clean" /\ lock = r /\ UNCHANGED <<day, lock, flock, run, remote>>
  BY DEF Backup!CleanLocal, Backup!Kept, Backup!Live
<1>3. Backup!Active(r)
  BY <1>2 DEF Backup!Active
<1>4. PICK k \in Records : k = run[r]
  BY <1>1
<1>5. run' = [run EXCEPT ![r] = k] /\ Onward(k, run[r]) /\ Fits(r, k, lock, local[r], remote[r])
  <2>1. run' = [run EXCEPT ![r] = k]
    BY <1>2, <1>4, BackupParts DEF BackupTyped
  <2>2. Onward(k, run[r])
    BY <1>2, <1>4 DEF Onward, Over
  <2> QED
    BY <1>1, <1>4, <2>1, <2>2
<1>6. CASE UNCHANGED local
  BY <1>2, <1>3, <1>5, <1>6, PhaseKept
<1>7. CASE \E o \in Backup!Clearable(r) : local' = [local EXCEPT ![o] = {}]
  <2>1. PICK o \in Backup!Clearable(r) : local' = [local EXCEPT ![o] = {}]
    BY <1>7
  <2>2. o \in Backup!Runs \ {r} /\ ~Backup!Active(o) /\ o < r /\ run[o].at # "idle"
    BY <1>2, <1>3, ClearableMeans
  <2>3. /\ day' \in Nat /\ local' \in [Backup!Runs -> SUBSET Backup!Whole] /\ local'[r] = local[r]
        /\ remote' \in [Backup!Runs -> SUBSET Backup!Whole] /\ remote'[r] = remote[r]
        /\ local'[o] = {} /\ \A p \in Backup!Runs \ {o} : local'[p] = local[p]
        /\ \A p \in Backup!Runs : remote'[p] = remote[p]
    BY <1>2, <2>1, <2>2, BackupParts DEF BackupTyped
  <2>4. run[r].cleans
    BY <1>1, <1>2 DEF Fits
  <2>5. Cleared(r, o)
    BY <1>2, <2>2, <2>3, <2>4 DEF Cleared, Shapes, Begun
  <2>6. \A p \in Backup!Runs \ {r} : (local'[p] = local[p] /\ remote'[p] = remote[p]) \/ Cleared(r, p)
    BY <2>3, <2>5
  <2>7. Fits(r, k, lock', local[r], remote[r])
    BY <1>2, <1>5
  <2>8. /\ k.at # "idle" /\ k.at # "done" /\ k.host = run[r].host
        /\ run[r].spoilt => k.spoilt
        /\ run[r].cleans => k.cleans
    BY <1>5 DEF Onward, Over
  <2>9. UNCHANGED <<lock, flock>> /\ k.at \notin Over
    BY <1>2, <1>5 DEF Onward
  <2>10. run' = [run EXCEPT ![r] = k]
    BY <1>5
  <2> QED
    BY <1>1, <1>3, <2>3, <2>6, <2>7, <2>8, <2>9, <2>10, StepKept
<1> QED
  BY <1>6, <1>7 DEF Backup!CleanLocal

LEMMA DeleteKept ==
  ASSUME BackupInv, NEW r \in Backup!Runs, Backup!DeleteRemote(r) PROVE BackupInv'
<1>1. /\ run[r] \in Records /\ Fits(r, run[r], lock, local[r], remote[r])
      /\ local[r] \in SUBSET Backup!Whole /\ remote[r] \in SUBSET Backup!Whole
  BY RunOf
<1>2. PICK o \in Backup!Runs \ {r} : o = run[r].victim
  BY <1>1 DEF Backup!DeleteRemote, Fits
<1>3. /\ run[r].at = "delete" /\ lock = r /\ remote[o] # {}
      /\ remote' = [remote EXCEPT ![o] = Backup!Removed(remote[o])]
      /\ UNCHANGED run \/ Backup!Go(r, "clean")
      /\ UNCHANGED <<day, lock, flock, local>>
  BY <1>2 DEF Backup!DeleteRemote, Backup!Kept, Backup!Live
<1>4. Backup!Active(r)
  BY <1>3 DEF Backup!Active
<1>5. o < r /\ run[o].at # "idle"
  BY <1>3, OthersAreEarlier
<1>6. \E k \in Records : /\ run' = [run EXCEPT ![r] = k] /\ k.at \in {"delete", "clean"}
                         /\ Alike(k, run[r])
  <2>1. CASE Backup!Go(r, "clean")
    <3>1. "clean" \in RunPhases
      BY DEF RunPhases
    <3>2. \E k \in Records : run' = [run EXCEPT ![r] = k] /\ k.at = "clean" /\ Alike(k, run[r])
      BY <2>1, <3>1, GoMeans
    <3> QED
      BY <3>2
  <2>2. CASE UNCHANGED run
    <3>1. run' = [run EXCEPT ![r] = run[r]]
      BY <2>2, BackupParts DEF BackupTyped
    <3>2. Alike(run[r], run[r])
      BY DEF Alike
    <3> QED
      BY <1>1, <1>3, <3>1, <3>2
  <2> QED
    BY <1>3, <2>1, <2>2
<1>7. PICK k \in Records : /\ run' = [run EXCEPT ![r] = k] /\ k.at \in {"delete", "clean"}
                           /\ Alike(k, run[r])
  BY <1>6
<1>8. /\ day' \in Nat /\ remote' \in [Backup!Runs -> SUBSET Backup!Whole] /\ remote'[r] = remote[r]
      /\ local' \in [Backup!Runs -> SUBSET Backup!Whole] /\ local'[r] = local[r]
      /\ remote'[o] = Backup!Removed(remote[o]) /\ \A p \in Backup!Runs \ {o} : remote'[p] = remote[p]
      /\ \A p \in Backup!Runs : local'[p] = local[p]
  <2>1. Backup!Removed(remote[o]) \in SUBSET Backup!Whole
    BY BackupParts, RemovedTyped DEF BackupTyped
  <2> QED
    BY <1>3, <2>1, BackupParts DEF BackupTyped
<1>9. run[r].cleans
  BY <1>1, <1>3 DEF Fits
<1>10. Cleared(r, o)
  BY <1>3, <1>5, <1>8, <1>9, RemovedFits DEF Cleared
<1>11. \A p \in Backup!Runs \ {r} : (local'[p] = local[p] /\ remote'[p] = remote[p]) \/ Cleared(r, p)
  BY <1>8, <1>10
<1>12. Fits(r, k, lock', local[r], remote[r])
  BY <1>1, <1>3, <1>7 DEF Fits, Alike
<1>13. /\ k.at # "idle" /\ k.at # "done" /\ k.host = run[r].host
       /\ run[r].spoilt => k.spoilt
       /\ run[r].cleans => k.cleans
  BY <1>7 DEF Alike
<1>14. UNCHANGED <<lock, flock>> /\ k.at \notin Over
  BY <1>3, <1>7 DEF Over
<1>15. run' = [run EXCEPT ![r] = k]
  BY <1>7
<1> QED
  BY <1>1, <1>4, <1>8, <1>11, <1>12, <1>13, <1>14, <1>15, StepKept

\* Whoever dies or fails while it captures a group touches a run that is over.
LEMMA CaptureKept ==
  ASSUME BackupInv, NEW r \in Backup!Runs, Backup!CleaningDies(r) \/ Backup!CleaningFails(r)
  PROVE  BackupInv'
<1>1. /\ run[r] \in Records /\ Fits(r, run[r], lock, local[r], remote[r])
      /\ local[r] \in SUBSET Backup!Whole /\ remote[r] \in SUBSET Backup!Whole
  BY RunOf
<1>2. /\ run[r].at = "clean" /\ lock = r /\ UNCHANGED <<day, remote>>
      /\ \/ Backup!Go(r, "dead") /\ Lets(r)
         \/ Backup!Go(r, "discard") /\ UNCHANGED <<lock, flock>>
  <2>1. CASE Backup!CleaningDies(r)
    BY <2>1 DEF Backup!CleaningDies, Backup!Live, Backup!Go, Backup!Set, Lets
  <2>2. CASE Backup!CleaningFails(r)
    BY <2>2 DEF Backup!CleaningFails, Backup!Live, Backup!Kept
  <2> QED
    BY <2>1, <2>2
<1>3. Backup!Active(r)
  BY <1>2 DEF Backup!Active
<1>4. \E o \in Backup!Clearable(r), left \in SUBSET Backup!Whole : local' = [local EXCEPT ![o] = left]
  <2>1. CASE Backup!CleaningDies(r)
    <3>1. PICK o \in Backup!Clearable(r) :
            \E left \in {Backup!Removed(local[o]), Backup!Removed(Backup!Removed(local[o])), {}} :
              local' = [local EXCEPT ![o] = left]
      BY <2>1 DEF Backup!CleaningDies
    <3>2. o \in Backup!Runs
      BY DEF Backup!Clearable, Backup!Neighbours
    <3>3. local[o] \in SUBSET Backup!Whole
      BY <3>2, RunOf
    <3>4. /\ Backup!Removed(local[o]) \in SUBSET Backup!Whole
          /\ Backup!Removed(Backup!Removed(local[o])) \in SUBSET Backup!Whole
      BY <3>3, RemovedTyped
    <3> QED
      BY <3>1, <3>4
  <2>2. CASE Backup!CleaningFails(r)
    <3>1. PICK o \in Backup!Clearable(r) :
            \E lost \in SUBSET local[o] : local' = [local EXCEPT ![o] = local[o] \ lost]
      BY <2>2 DEF Backup!CleaningFails
    <3>2. o \in Backup!Runs
      BY DEF Backup!Clearable, Backup!Neighbours
    <3>3. \A lost \in SUBSET local[o] : local[o] \ lost \in SUBSET Backup!Whole
      BY <3>2, RunOf
    <3> QED
      BY <3>1, <3>3
  <2> QED
    BY <2>1, <2>2
<1>5. PICK o \in Backup!Clearable(r), left \in SUBSET Backup!Whole :
        local' = [local EXCEPT ![o] = left]
  BY <1>4
<1>6. o \in Backup!Runs \ {r} /\ ~Backup!Active(o) /\ o < r /\ run[o].at # "idle"
  BY <1>2, <1>3, ClearableMeans
<1>7. /\ day' \in Nat /\ local' \in [Backup!Runs -> SUBSET Backup!Whole] /\ local'[r] = local[r]
      /\ remote' \in [Backup!Runs -> SUBSET Backup!Whole] /\ remote'[r] = remote[r]
      /\ \A p \in Backup!Runs \ {o} : local'[p] = local[p]
      /\ \A p \in Backup!Runs : remote'[p] = remote[p]
  BY <1>2, <1>5, <1>6, BackupParts DEF BackupTyped
<1>8. PICK k \in Records : /\ run' = [run EXCEPT ![r] = k] /\ Alike(k, run[r])
                           /\ \/ k.at = "dead" /\ Lets(r)
                              \/ k.at = "discard" /\ UNCHANGED <<lock, flock>>
  <2>1. "dead" \in RunPhases /\ "discard" \in RunPhases
    BY DEF RunPhases
  <2>2. CASE Backup!Go(r, "dead") /\ Lets(r)
    BY <2>1, <2>2, GoMeans
  <2>3. CASE Backup!Go(r, "discard") /\ UNCHANGED <<lock, flock>>
    BY <2>1, <2>3, GoMeans
  <2> QED
    BY <1>2, <2>2, <2>3
<1>9. run[r].cleans
  BY <1>1, <1>2 DEF Fits
<1>10. Cleared(r, o)
  BY <1>2, <1>6, <1>7, <1>9 DEF Cleared
<1>11. \A p \in Backup!Runs \ {r} : (local'[p] = local[p] /\ remote'[p] = remote[p]) \/ Cleared(r, p)
  BY <1>7, <1>10
<1>12. Fits(r, k, lock', local[r], remote[r])
  BY <1>1, <1>8 DEF Fits, Alike
<1>13. /\ k.at # "idle" /\ k.at # "done" /\ k.host = run[r].host
       /\ run[r].spoilt => k.spoilt
       /\ run[r].cleans => k.cleans
  BY <1>8 DEF Alike
<1>14. (UNCHANGED <<lock, flock>> /\ k.at \notin Over) \/ (Lets(r) /\ k.at \in Over)
  BY <1>8 DEF Over
<1>15. run' = [run EXCEPT ![r] = k]
  BY <1>8
<1> QED
  BY <1>1, <1>3, <1>7, <1>11, <1>12, <1>13, <1>14, <1>15, StepKept

-----------------------------------------------------------------------------
(* It ends                                                                 *)

\* Phases that ask nothing of the files but their shape.
Leaving == {"end", "unlink", "discard", "withdraw", "undo"}

LEMMA LeavingFits ==
  ASSUME NEW r, NEW old, NEW k, NEW held, NEW other, NEW here, NEW there,
         Fits(r, old, held, here, there), k.at \in Leaving \cup Over, old.spoilt => k.spoilt
  PROVE  Fits(r, k, other, here, there)
  BY DEF Fits, Leaving, Over

\* A run is over.
LEMMA OverKept ==
  ASSUME BackupInv, NEW r \in Backup!Runs, Backup!Active(r), NEW at \in Over, Backup!Go(r, at),
         Lets(r),
         UNCHANGED <<day, local, remote>>,
         at = "done" => local[r] = Backup!Whole /\ remote[r] = Backup!Whole
  PROVE  BackupInv'
<1>1. /\ run[r] \in Records /\ Fits(r, run[r], lock, local[r], remote[r])
      /\ local[r] \in SUBSET Backup!Whole /\ remote[r] \in SUBSET Backup!Whole
  BY RunOf
<1>2. at \in RunPhases
  BY DEF Over, RunPhases
<1>3. PICK k \in Records : run' = [run EXCEPT ![r] = k] /\ k.at = at /\ Alike(k, run[r])
  BY <1>2, GoMeans
<1>4. /\ day' \in Nat /\ local' \in [Backup!Runs -> SUBSET Backup!Whole] /\ local'[r] = local[r]
      /\ remote' \in [Backup!Runs -> SUBSET Backup!Whole] /\ remote'[r] = remote[r]
      /\ \A o \in Backup!Runs \ {r} : (local'[o] = local[o] /\ remote'[o] = remote[o]) \/ Cleared(r, o)
  BY BackupParts DEF BackupTyped
<1>5. Fits(r, k, lock', local[r], remote[r])
  BY <1>1, <1>3, LeavingFits DEF Alike
<1>6. /\ k.at # "idle" /\ k.host = run[r].host
      /\ run[r].spoilt => k.spoilt
      /\ run[r].cleans => k.cleans
  BY <1>3 DEF Alike, Over
<1>7. Lets(r) /\ k.at \in Over
  BY <1>3
<1>8. k.at = "done" => local[r] = Backup!Whole /\ remote[r] = Backup!Whole
  BY <1>3
<1>9. run' = [run EXCEPT ![r] = k]
  BY <1>3
<1> QED
  BY <1>1, <1>4, <1>5, <1>6, <1>7, <1>8, <1>9, StepKept

LEMMA EndKept ==
  ASSUME BackupInv, NEW r \in Backup!Runs, Backup!Succeed(r) \/ Backup!End(r) \/ Backup!Crash(r)
  PROVE  BackupInv'
<1>1. Fits(r, run[r], lock, local[r], remote[r])
  BY RunOf
<1>2. CASE Backup!Succeed(r)
  <2>1. /\ run[r].at = "clean" /\ lock = r /\ Backup!Go(r, "done") /\ UNCHANGED <<day, local, remote>>
        /\ Lets(r)
    BY <1>2 DEF Backup!Succeed, Backup!Ends, Backup!Go, Backup!Set, Backup!Fresh, Backup!Live, Lets
  <2>2. local[r] = Backup!Whole /\ remote[r] = Backup!Whole
    BY <1>1, <2>1 DEF Fits
  <2>3. Backup!Active(r) /\ "done" \in Over
    BY <2>1 DEF Backup!Active, Over
  <2> QED
    BY <2>1, <2>2, <2>3, OverKept
<1>3. CASE Backup!End(r)
  <2>1. /\ run[r].at = "end" /\ Backup!Go(r, "failed") /\ UNCHANGED <<day, local, remote>>
        /\ Lets(r)
    BY <1>3 DEF Backup!End, Backup!Ends, Backup!Go, Backup!Set, Backup!Live, Lets
  <2>2. Backup!Active(r) /\ "failed" \in Over
    BY <2>1 DEF Backup!Active, Over
  <2> QED
    BY <2>1, <2>2, OverKept
<1>4. CASE Backup!Crash(r)
  <2>1. /\ Backup!Active(r) /\ Backup!Go(r, "dead") /\ UNCHANGED <<day, local, remote>>
        /\ Lets(r)
    BY <1>4 DEF Backup!Crash, Backup!Live, Backup!files, Lets
  <2>2. "dead" \in Over
    BY DEF Over
  <2> QED
    BY <2>1, <2>2, OverKept
<1> QED
  BY <1>2, <1>3, <1>4

\* A run turns to what it has to take back.
LEMMA LeaveKept ==
  ASSUME BackupInv, NEW r \in Backup!Runs, Backup!Active(r), NEW at \in Leaving, Backup!Go(r, at),
         UNCHANGED <<day, lock, flock, local, remote>>
  PROVE  BackupInv'
<1>1. Fits(r, run[r], lock, local[r], remote[r])
  BY RunOf
<1>2. \A k \in Records : k.at = at /\ Alike(k, run[r]) => Fits(r, k, lock, local[r], remote[r])
  BY <1>1, LeavingFits DEF Alike
<1>3. at \in RunPhases \ ({"idle"} \cup Over)
  BY DEF Leaving, RunPhases, Over
<1> QED
  BY <1>2, <1>3, GoKept

LEMMA FailsKept ==
  ASSUME BackupInv, NEW r \in Backup!Runs, Backup!Fails(r) \/ Backup!Discard(r) PROVE BackupInv'
<1>1. /\ \E at \in Leaving : Backup!Go(r, at)
      /\ Backup!Active(r) /\ UNCHANGED <<day, lock, flock, local, remote>>
  <2>1. CASE Backup!Fails(r)
    BY <2>1 DEF Backup!Fails, Backup!Active, Backup!Kept, Backup!files, Leaving
  <2>2. CASE Backup!Discard(r)
    <3>1. Backup!Go(r, IF Backup!Live(r) THEN "withdraw" ELSE "end")
      BY <2>2 DEF Backup!Discard
    <3>2. Backup!Go(r, "withdraw") \/ Backup!Go(r, "end")
      BY <3>1
    <3> QED
      BY <2>2, <3>2 DEF Backup!Discard, Backup!Active, Backup!Kept, Backup!files, Leaving
  <2> QED
    BY <2>1, <2>2
<1>2. PICK at \in Leaving : Backup!Go(r, at)
  BY <1>1
<1> QED
  BY <1>1, <1>2, LeaveKept

LEMMA UndoKept ==
  ASSUME BackupInv, NEW r \in Backup!Runs, Backup!Undo(r) PROVE BackupInv'
<1>1. run[r] \in Records /\ Fits(r, run[r], lock, local[r], remote[r]) /\ remote[r] \in SUBSET Backup!Whole
  BY RunOf
<1>2. PICK k \in Records : k = run[r]
  BY <1>1
<1>3. PICK there \in SUBSET Backup!Whole : there = Backup!Removed(remote[r])
  BY <1>1, RemovedTyped
<1>4. /\ run[r].at \in {"undo", "withdraw"} /\ remote' = [remote EXCEPT ![r] = there]
      /\ UNCHANGED <<day, lock, flock, run, local>>
  BY <1>3 DEF Backup!Undo, Backup!Kept
<1>5. run' = [run EXCEPT ![r] = k]
  BY <1>2, <1>4, BackupParts DEF BackupTyped
<1>6. Backup!Active(r)
  BY <1>4 DEF Backup!Active
<1>7. Onward(k, run[r])
  BY <1>2, <1>4 DEF Onward, Over
<1>8. Fits(r, k, lock, local[r], there)
  <2>1. remote[r] \in Shapes => there \in Shapes
    BY <1>3, RemovedFits
  <2> QED
    BY <1>1, <1>2, <1>4, <2>1 DEF Fits
<1>9. UNCHANGED <<day, lock, flock, local>>
  BY <1>4
<1> QED
  BY <1>4, <1>5, <1>6, <1>7, <1>8, <1>9, ThereKept

LEMMA UndoneKept ==
  ASSUME BackupInv, NEW r \in Backup!Runs, Backup!Undone(r) PROVE BackupInv'
<1> DEFINE old == run[r]
<1>1. old \in Records /\ Fits(r, old, lock, local[r], remote[r])
  BY RunOf
<1>2. PICK at \in {"end", "unlink"} :
        at = IF old.at = "undo" /\ (old.keeps \/ ~Backup!Live(r)) THEN "end" ELSE "unlink"
  OBVIOUS
<1>3. PICK spoilt \in BOOLEAN : spoilt = (old.spoilt \/ remote[r] # {})
  BY <1>1 DEF Records
<1> DEFINE k == [old EXCEPT !.at = at, !.spoilt = spoilt]
<1>4. /\ old.at \in {"undo", "withdraw"} /\ run' = [run EXCEPT ![r] = k]
      /\ UNCHANGED <<day, lock, flock, local, remote>>
  <2>1. run' = [run EXCEPT ![r] = [old EXCEPT !.at = IF old.at = "undo" /\ (old.keeps \/ ~Backup!Live(r))
                                                     THEN "end" ELSE "unlink",
                                             !.spoilt = old.spoilt \/ remote[r] # {}]]
    BY DEF Backup!Undone
  <2>2. [old EXCEPT !.at = IF old.at = "undo" /\ (old.keeps \/ ~Backup!Live(r)) THEN "end" ELSE "unlink",
                    !.spoilt = old.spoilt \/ remote[r] # {}] = k
    BY <1>2, <1>3, Zenon
  <2>3. run' = [run EXCEPT ![r] = k]
    BY <2>1, <2>2, Zenon
  <2> QED
    BY <2>3 DEF Backup!Undone, Backup!Kept, Backup!files
<1>5. k \in Records /\ k.at = at /\ k.host = old.host /\ k.cleans = old.cleans
  BY <1>1 DEF Records, RunPhases
<1>6. k.spoilt = spoilt
  BY <1>1 DEF Records
<1>7. old.spoilt => k.spoilt
  BY <1>3, <1>6
<1>8. Backup!Active(r)
  BY <1>4 DEF Backup!Active
<1> HIDE DEF k, old
<1>9. Fits(r, k, lock, local[r], remote[r])
  BY <1>1, <1>5, <1>7, LeavingFits DEF Leaving
<1>10. Onward(k, run[r])
  BY <1>5, <1>7 DEF Onward, Over, old
<1> QED
  BY <1>4, <1>5, <1>8, <1>9, <1>10, PhaseKept

LEMMA UnlinkKept ==
  ASSUME BackupInv, NEW r \in Backup!Runs, Backup!Unlink(r) PROVE BackupInv'
<1> DEFINE left == local[r] \ astray[r]
           next == left \ Backup!Removed(left)
<1>1. run[r] \in Records /\ Fits(r, run[r], lock, local[r], remote[r]) /\ local[r] \in SUBSET Backup!Whole
  BY RunOf
<1>2. run[r].at = "unlink" /\ UNCHANGED <<day, lock, flock, remote>>
  BY DEF Backup!Unlink, Backup!Kept
<1>3. Backup!Active(r)
  BY <1>2 DEF Backup!Active
<1>4. \/ Backup!Go(r, "end") /\ UNCHANGED local
      \/ local' = [local EXCEPT ![r] = local[r] \ next] /\ UNCHANGED run
      \/ UNCHANGED <<run, local>>
  BY DEF Backup!Unlink
<1>5. CASE Backup!Go(r, "end") /\ UNCHANGED local
  <2>1. "end" \in Leaving /\ Backup!Go(r, "end") /\ UNCHANGED <<day, lock, flock, local, remote>>
    BY <1>2, <1>5 DEF Leaving
  <2> QED
    BY <1>3, <2>1, LeaveKept
<1>6. CASE local' = [local EXCEPT ![r] = local[r] \ next] /\ UNCHANGED run
  <2>1. PICK k \in Records : k = run[r]
    BY <1>1
  <2>2. PICK here \in SUBSET Backup!Whole : here = local[r] \ next
    BY <1>1
  <2>3. run' = [run EXCEPT ![r] = k]
    BY <1>6, <2>1, BackupParts DEF BackupTyped
  <2>4. local' = [local EXCEPT ![r] = here]
    BY <1>6, <2>2
  <2>5. Onward(k, run[r])
    BY <1>2, <2>1 DEF Onward, Over
  <2>6. Fits(r, k, lock, here, remote[r])
    BY <1>1, <1>2, <2>1 DEF Fits
  <2> QED
    BY <1>2, <1>3, <2>3, <2>4, <2>5, <2>6, HereKept
<1>7. CASE UNCHANGED <<run, local>>
  <2>1. PICK k \in Records : k = run[r]
    BY <1>1
  <2>2. run' = [run EXCEPT ![r] = k]
    BY <1>7, <2>1, BackupParts DEF BackupTyped
  <2>3. Onward(k, run[r]) /\ Fits(r, k, lock, local[r], remote[r])
    BY <1>1, <1>2, <2>1 DEF Onward, Over
  <2>4. UNCHANGED <<day, lock, flock, local, remote>>
    BY <1>2, <1>7
  <2> QED
    BY <1>3, <2>2, <2>3, <2>4, PhaseKept
<1> QED
  BY <1>4, <1>5, <1>6, <1>7

LEMMA CancelKept ==
  ASSUME BackupInv, NEW r \in Backup!Runs, Backup!Cancel(r) PROVE BackupInv'
<1>0. PICK e \in BOOLEAN : e = TRUE
  OBVIOUS
<1> DEFINE old == run[r]
           k == [old EXCEPT !.cancelled = e]
<1>1. old \in Records /\ Fits(r, old, lock, local[r], remote[r])
  BY RunOf
<1>2. /\ old.at \in {"seal", "link", "copy", "check", "retain", "clean"}
      /\ run' = [run EXCEPT ![r] = k] /\ UNCHANGED <<day, lock, flock, local, remote>>
  BY <1>0 DEF Backup!Cancel, Backup!Set, Backup!Kept, Backup!files
<1>3. k \in Records /\ k.at = old.at /\ Alike(k, old)
  BY <1>1 DEF Records, Alike
<1>4. Backup!Active(r)
  BY <1>2 DEF Backup!Active
<1> HIDE DEF k, old
<1>5. Fits(r, k, lock, local[r], remote[r])
  BY <1>1, <1>3 DEF Fits, Alike
<1>6. Onward(k, run[r])
  BY <1>2, <1>3 DEF Onward, Over, Alike, old
<1> QED
  BY <1>2, <1>3, <1>4, <1>5, <1>6, PhaseKept

LEMMA LoseLockKept ==
  ASSUME BackupInv, NEW r \in Backup!Runs, Backup!LoseLock(r) PROVE BackupInv'
<1> DEFINE old == run[r]
           k == [old EXCEPT !.spoilt = TRUE]
<1>1. /\ old \in Records /\ Fits(r, old, lock, local[r], remote[r])
      /\ local[r] \in SUBSET Backup!Whole /\ remote[r] \in SUBSET Backup!Whole
  BY RunOf
<1>2. /\ Backup!Active(r) /\ lock = r /\ lock' = 0 /\ run' = [run EXCEPT ![r] = k]
      /\ UNCHANGED <<day, flock, local, remote>>
  BY DEF Backup!LoseLock, Backup!Live, Backup!Set, Backup!files
<1>3. k \in Records /\ k.at = old.at /\ k.host = old.host /\ k.sent = old.sent
  BY <1>1 DEF Records
<1>4. k.victim = old.victim /\ k.cleans = old.cleans
  BY <1>1 DEF Records
<1>5. k.spoilt
  BY <1>1 DEF Records
<1>6. /\ day' \in Nat /\ local' \in [Backup!Runs -> SUBSET Backup!Whole] /\ local'[r] = local[r]
      /\ remote' \in [Backup!Runs -> SUBSET Backup!Whole] /\ remote'[r] = remote[r]
      /\ \A o \in Backup!Runs \ {r} : (local'[o] = local[o] /\ remote'[o] = remote[o]) \/ Cleared(r, o)
  BY <1>2, BackupParts DEF BackupTyped
<1>7. r # 0
  BY RunOf
<1>8. old.at \notin {"idle"} \cup Over
  BY <1>2 DEF Backup!Active, Over
<1> HIDE DEF k
<1>9. Fits(r, k, lock', local[r], remote[r])
  BY <1>1, <1>2, <1>3, <1>4, <1>5, <1>7 DEF Fits
<1>10. /\ k.at # "idle" /\ k.at # "done" /\ k.host = run[r].host
       /\ run[r].spoilt => k.spoilt
       /\ run[r].cleans => k.cleans
  BY <1>3, <1>4, <1>5, <1>8 DEF Over
<1>11. lock = r /\ lock' = 0 /\ UNCHANGED flock /\ k.at \notin Over /\ k.spoilt
  BY <1>2, <1>3, <1>5, <1>8
<1>12. run' = [run EXCEPT ![r] = k] /\ Backup!Active(r)
  BY <1>2
<1> QED
  BY <1>1, <1>3, <1>6, <1>9, <1>10, <1>11, <1>12, StepKept

-----------------------------------------------------------------------------
(* It begins                                                               *)

\* Whoever begins finds nobody at work in its directory, and no lock taken.
LEMMA BeginKept ==
  ASSUME BackupInv, NEW r \in Backup!Runs, NEW h \in Hosts, NEW seals \in BOOLEAN, Backup!Begin(r,
         h, seals)
  PROVE  BackupInv'
<1> DEFINE k == [Backup!Unborn EXCEPT !.at = "produce", !.host = h, !.sealed = seals, !.wrote = day]
<1>1. /\ run \in [Backup!Runs -> Records] /\ day \in Nat /\ flock \in [Hosts -> Backup!Runs \cup {0}]
      /\ local \in [Backup!Runs -> SUBSET Backup!Whole] /\ remote \in [Backup!Runs -> SUBSET Backup!Whole]
      /\ \A o \in Backup!Runs : o \in Nat \ {0}
  BY BackupParts, RunOf DEF BackupTyped
<1>2. /\ run[r].at = "idle" /\ (r > 1 => run[r - 1].at # "idle") /\ lock = 0 /\ flock[h] = 0
      /\ run' = [run EXCEPT ![r] = k] /\ lock' = r /\ flock' = [flock EXCEPT ![h] = r]
      /\ UNCHANGED <<day, local, remote>>
  BY DEF Backup!Begin
<1>3. /\ ~run[r].cleans /\ local[r] = {} /\ remote[r] = {}
      /\ \A o \in Backup!Runs : o > r => run[o].at = "idle"
  BY <1>2, BackupParts DEF Ordered
<1>4. k \in Records
  <2>1. Backup!Unborn \in Records
    <3>1. /\ "idle" \in RunPhases /\ Nowhere \in Hosts \cup {Nowhere} /\ FALSE \in BOOLEAN /\ 0 \in Nat
          /\ 0 \in 0..3 /\ 0 \in Backup!Runs \cup {0}
      BY DEF RunPhases
    <3> QED
      BY <3>1, Zenon DEF Backup!Unborn, Records
  <2>2. "produce" \in RunPhases
    BY DEF RunPhases
  <2> QED
    BY <1>1, <2>1, <2>2, Zenon DEF Records
<1>5. k.at = "produce" /\ k.host = h /\ k.sent = 0 /\ ~k.spoilt /\ ~k.cleans
  BY DEF Backup!Unborn
<1> HIDE DEF k
<1>6. \A o \in Backup!Runs : o < r => run[o].at # "idle"
  <2> SUFFICES ASSUME NEW o \in Backup!Runs, o < r, run[o].at = "idle" PROVE FALSE
    OBVIOUS
  <2>1. r - 1 \in Backup!Runs /\ r > 1 /\ r - 1 >= o
    BY BackupAssumption DEF Backup!Runs
  <2>2. run[r - 1].at # "idle"
    BY <1>2, <2>1
  <2>3. r - 1 > o \/ r - 1 = o
    BY <1>1, <2>1
  <2>4. r - 1 > o => run[r - 1].at = "idle"
    BY <2>1, BackupParts DEF Ordered
  <2> QED
    BY <2>2, <2>3, <2>4
<1>7. /\ run' \in [Backup!Runs -> Records] /\ run'[r] = k
      /\ \A o \in Backup!Runs : o # r => run'[o] = run[o]
  BY <1>1, <1>2, <1>4
<1>8. BackupTyped'
  BY <1>1, <1>2, <1>7 DEF BackupTyped
<1>9. Ordered'
  <2>1. ASSUME NEW o \in Backup!Runs, run'[o].at = "idle"
        PROVE  /\ ~run'[o].cleans /\ local'[o] = {} /\ remote'[o] = {}
               /\ \A p \in Backup!Runs : p > o => run'[p].at = "idle"
    <3>1. o # r /\ run'[o] = run[o]
      BY <1>5, <1>7, <2>1
    <3>2. /\ ~run[o].cleans /\ local[o] = {} /\ remote[o] = {}
          /\ \A p \in Backup!Runs : p > o => run[p].at = "idle"
      BY <2>1, <3>1, BackupParts DEF Ordered
    <3>3. o > r
      BY <1>1, <1>6, <2>1, <3>1
    <3>4. \A p \in Backup!Runs : p > o => p # r
      BY <1>1, <3>3
    <3> QED
      BY <1>2, <1>7, <3>1, <3>2, <3>4
  <2>2. Backup!Active(r)'
    BY <1>5, <1>7 DEF Backup!Active
  <2>3. \A o \in Backup!Runs : o > r => run'[o].at = "idle"
    BY <1>1, <1>3, <1>7
  <2> QED
    BY <1>2, <2>1, <2>2, <2>3 DEF Ordered
<1>10. Locking'
  <2> SUFFICES ASSUME NEW o \in Backup!Runs, Backup!Active(o)'
      PROVE  /\ run'[o].host \in Hosts /\ flock'[run'[o].host] = o
             /\ run'[o].spoilt \/ lock' = o
    BY DEF Locking
  <2>1. CASE o = r
    BY <1>1, <1>2, <1>5, <1>7, <2>1
  <2>2. CASE o # r
    <3>1. Backup!Active(o)
      BY <1>7, <2>2 DEF Backup!Active
    <3>2. run[o].host \in Hosts /\ flock[run[o].host] = o /\ (run[o].spoilt \/ lock = o)
      BY <3>1, BackupParts DEF Locking
    <3>3. run[o].host # h /\ lock # o
      BY <1>1, <1>2, <3>2
    <3> QED
      BY <1>1, <1>2, <1>7, <2>2, <3>2, <3>3
  <2> QED
    BY <2>1, <2>2
<1>11. Fitting'
  <2> SUFFICES ASSUME NEW o \in Backup!Runs PROVE Fits(o, run'[o], lock', local'[o], remote'[o])
    BY DEF Fitting, Fits
  <2>1. CASE o = r
    <3>1. Fits(r, k, lock', local[r], remote[r])
      BY <1>3, <1>5 DEF Fits, Shapes, Begun
    <3> QED
      BY <1>2, <1>7, <2>1, <3>1
  <2>2. CASE o # r
    <3>1. Fits(o, run[o], lock, local[o], remote[o])
      BY RunOf
    <3>2. Fits(o, run[o], lock', local[o], remote[o])
      BY <1>2, <2>2, <3>1 DEF Fits
    <3> QED
      BY <1>2, <1>7, <2>2, <3>2
  <2> QED
    BY <2>1, <2>2
<1>12. Backup!NewestStays'
  <2> SUFFICES ASSUME NEW o \in Backup!Runs, run'[o].at = "done",
                      \A p \in Backup!Runs : p > o => ~run'[p].cleans
      PROVE  local'[o] = Backup!Whole /\ remote'[o] = Backup!Whole
    BY DEF Backup!NewestStays
  <2>1. o # r /\ run[o].at = "done"
    BY <1>5, <1>7
  <2>2. \A p \in Backup!Runs : run[p].cleans => run'[p].cleans
    BY <1>3, <1>7
  <2>3. local[o] = Backup!Whole /\ remote[o] = Backup!Whole
    BY <2>1, <2>2, BackupParts DEF Backup!NewestStays
  <2> QED
    BY <1>2, <2>3
<1> QED
  BY <1>8, <1>9, <1>10, <1>11, <1>12 DEF BackupInv

LEMMA InitBackup == Backup!Init => BackupInv
<1> SUFFICES ASSUME Backup!Init PROVE BackupInv
  OBVIOUS
<1>1. Backup!Unborn \in Records
  <2>1. /\ "idle" \in RunPhases /\ Nowhere \in Hosts \cup {Nowhere} /\ FALSE \in BOOLEAN /\ 0 \in Nat
        /\ 0 \in 0..3 /\ 0 \in Backup!Runs \cup {0}
    BY DEF RunPhases
  <2> QED
    BY <2>1, Zenon DEF Backup!Unborn, Records
<1>2. \A r \in Backup!Runs : run[r] = Backup!Unborn /\ local[r] = {} /\ remote[r] = {}
  BY DEF Backup!Init
<1>3. Backup!Unborn.at = "idle" /\ ~Backup!Unborn.cleans
  BY DEF Backup!Unborn
<1>4. BackupTyped
  BY <1>1 DEF Backup!Init, BackupTyped
<1>5. Ordered
  BY <1>2, <1>3 DEF Ordered, Backup!Init
<1>6. Locking
  BY <1>2, <1>3 DEF Locking, Backup!Active
<1>7. Fitting
  BY <1>2, <1>3 DEF Fitting, Fits, Shapes, Begun
<1>8. Backup!NewestStays
  BY <1>2, <1>3 DEF Backup!NewestStays
<1> QED
  BY <1>4, <1>5, <1>6, <1>7, <1>8 DEF BackupInv

\* What does not concern the backups keeps what is known of them.
LEMMA BackupStays ==
  ASSUME BackupInv, day' \in Nat, UNCHANGED <<lock, flock, run, local, remote>>
  PROVE  BackupInv'
<1>1. BackupTyped' /\ Ordered'
  BY BackupParts DEF BackupTyped, Ordered, Backup!Active
<1>2. Locking'
  BY BackupParts DEF Locking, Backup!Active
<1>3. Fitting' /\ Backup!NewestStays'
  BY BackupParts DEF Fitting, Backup!NewestStays
<1> QED
  BY <1>1, <1>2, <1>3 DEF BackupInv

LEMMA NextBackup == BackupInv /\ Backup!Next => BackupInv'
<1> SUFFICES ASSUME BackupInv, Backup!Next PROVE BackupInv'
  OBVIOUS
<1>1. CASE Backup!NewDay
  <2>1. day' \in Nat
    BY <1>1, BackupParts DEF Backup!NewDay, BackupTyped
  <2> QED
    BY <1>1, <2>1, BackupStays DEF Backup!NewDay, Backup!files
<1>2. CASE \E r \in Backup!Runs, h \in Hosts, seals \in BOOLEAN : Backup!Begin(r, h, seals)
  BY <1>2, BeginKept
<1>3. CASE \E r \in Backup!Runs : Backup!Step(r)
  <2> SUFFICES ASSUME NEW r \in Backup!Runs, Backup!Step(r) PROVE BackupInv'
    BY <1>3
  <2> QED
    BY ProduceKept, LinkKept, CompareKept, CopyKept, CheckKept, RemoteFailsKept, RetainKept,
       CleanKept, CaptureKept, PickKept, DeleteKept, EndKept, FailsKept, UndoKept, UndoneKept,
       UnlinkKept, CancelKept, LoseLockKept
    DEF Backup!Step
<1> QED
  BY <1>1, <1>2, <1>3 DEF Backup!Next

\* As long as no file of a group failed to be removed or put back, what is there of it
\* on its host is in order.
Tidy ==
  /\ astray \in [Backup!Runs -> SUBSET Backup!Whole]
  /\ \A r \in Backup!Runs : astray[r] = {} => local[r] \in Shapes

LEMMA TidyStays == ASSUME Tidy, UNCHANGED <<local, astray>> PROVE Tidy'
  BY DEF Tidy

\* Files that were in order are in order still, unless one has failed.
LEMMA TidyStep ==
  ASSUME Tidy, BackupInv, NEW o \in Backup!Runs,
         NEW left \in SUBSET Backup!Whole, local' = [local EXCEPT ![o] = left],
         \/ UNCHANGED astray /\ (local[o] \in Shapes => left \in Shapes)
         \/ \E lost \in (SUBSET Backup!Whole) \ {{}} :
              astray' = [astray EXCEPT ![o] = astray[o] \cup lost]
  PROVE  Tidy'
<1>1. /\ astray \in [Backup!Runs -> SUBSET Backup!Whole]
      /\ \A r \in Backup!Runs : astray[r] = {} => local[r] \in Shapes
  BY DEF Tidy
<1>2. local'[o] = left /\ \A r \in Backup!Runs \ {o} : local'[r] = local[r]
  BY BackupParts DEF BackupTyped
<1>3. CASE UNCHANGED astray /\ (local[o] \in Shapes => left \in Shapes)
  BY <1>1, <1>2, <1>3 DEF Tidy
<1>4. CASE \E lost \in (SUBSET Backup!Whole) \ {{}} :
             astray' = [astray EXCEPT ![o] = astray[o] \cup lost]
  <2>1. PICK lost \in (SUBSET Backup!Whole) \ {{}} :
          astray' = [astray EXCEPT ![o] = astray[o] \cup lost]
    BY <1>4
  <2>2. astray' \in [Backup!Runs -> SUBSET Backup!Whole] /\ astray'[o] # {}
    BY <1>1, <2>1
  <2>3. \A r \in Backup!Runs \ {o} : astray'[r] = astray[r]
    BY <1>1, <2>1
  <2> QED
    BY <1>1, <1>2, <2>2, <2>3 DEF Tidy
<1> QED
  BY <1>3, <1>4

LEMMA CaptureTidy ==
  ASSUME Tidy, BackupInv, NEW r \in Backup!Runs,
         Backup!CleanLocal(r) \/ Backup!CleaningDies(r) \/ Backup!CleaningFails(r)
  PROVE  Tidy'
<1>1. \A o \in Backup!Clearable(r) : o \in Backup!Runs /\ local[o] \in SUBSET Backup!Whole
  BY RunOf DEF Backup!Clearable, Backup!Neighbours
<1>2. {} \in Shapes /\ {} \in SUBSET Backup!Whole
  BY DEF Shapes, Begun
<1>3. CASE Backup!CleanLocal(r)
  <2>1. CASE UNCHANGED local
    BY <1>3, <2>1, TidyStays DEF Backup!CleanLocal
  <2>2. CASE \E o \in Backup!Clearable(r) : local' = [local EXCEPT ![o] = {}]
    BY <1>1, <1>2, <1>3, <2>2, TidyStep DEF Backup!CleanLocal
  <2> QED
    BY <1>3, <2>1, <2>2 DEF Backup!CleanLocal
<1>4. CASE Backup!CleaningDies(r)
  <2>1. PICK o \in Backup!Clearable(r) :
          \E left \in {Backup!Removed(local[o]), Backup!Removed(Backup!Removed(local[o])), {}} :
            local' = [local EXCEPT ![o] = left]
    BY <1>4 DEF Backup!CleaningDies
  <2>2. PICK left \in {Backup!Removed(local[o]), Backup!Removed(Backup!Removed(local[o])), {}} :
          local' = [local EXCEPT ![o] = left]
    BY <2>1
  <2>3. left \in SUBSET Backup!Whole
    <3>1. /\ Backup!Removed(local[o]) \in SUBSET Backup!Whole
          /\ Backup!Removed(Backup!Removed(local[o])) \in SUBSET Backup!Whole
      BY <1>1, RemovedTyped
    <3> QED
      BY <1>2, <2>2, <3>1
  <2>4. local[o] \in Shapes => left \in Shapes
    <3>1. local[o] \in Shapes => /\ Backup!Removed(local[o]) \in Shapes
                                 /\ Backup!Removed(Backup!Removed(local[o])) \in Shapes
      BY RemovedFits
    <3> QED
      BY <1>2, <2>2, <3>1
  <2>5. UNCHANGED astray
    BY <1>4 DEF Backup!CleaningDies
  <2> QED
    BY <1>1, <2>2, <2>3, <2>4, <2>5, TidyStep
<1>5. CASE Backup!CleaningFails(r)
  <2>1. PICK o \in Backup!Clearable(r) :
          \E lost \in (SUBSET local[o]) \ {{}} :
            /\ local' = [local EXCEPT ![o] = local[o] \ lost]
            /\ astray' = [astray EXCEPT ![o] = astray[o] \cup lost]
    BY <1>5 DEF Backup!CleaningFails
  <2>2. PICK lost \in (SUBSET local[o]) \ {{}} :
          /\ local' = [local EXCEPT ![o] = local[o] \ lost]
          /\ astray' = [astray EXCEPT ![o] = astray[o] \cup lost]
    BY <2>1
  <2>3. PICK left \in SUBSET Backup!Whole : left = local[o] \ lost
    BY <1>1
  <2>4. lost \in (SUBSET Backup!Whole) \ {{}} /\ local' = [local EXCEPT ![o] = left]
    BY <1>1, <2>2, <2>3
  <2> QED
    BY <1>1, <2>2, <2>4, TidyStep
<1> QED
  BY <1>3, <1>4, <1>5

LEMMA LinkTidy ==
  ASSUME Tidy, BackupInv, NEW r \in Backup!Runs, Backup!Link(r) PROVE Tidy'
<1> DEFINE here == local[r] \cup {Backup!Following(local[r])}
<1>1. Fits(r, run[r], lock, local[r], remote[r])
  BY RunOf
<1>2. /\ run[r].at = "link" /\ local[r] # Backup!Whole /\ local' = [local EXCEPT ![r] = here]
      /\ UNCHANGED astray
  BY DEF Backup!Link
<1>3. local[r] \in Begun
  BY <1>1, <1>2 DEF Fits
<1>4. here \in SUBSET Backup!Whole /\ here \in Shapes
  BY <1>3, FollowingFits DEF Shapes, Begun, Backup!Whole
<1> HIDE DEF here
<1> QED
  BY <1>2, <1>4, TidyStep

\* Without a file that failed the marker is the first that goes.
LEMMA UnlinkTidy ==
  ASSUME Tidy, BackupInv, NEW r \in Backup!Runs, Backup!Unlink(r) PROVE Tidy'
<1> DEFINE left == local[r] \ astray[r]
           next == left \ Backup!Removed(left)
           here == local[r] \ next
<1>1. local[r] \in SUBSET Backup!Whole
  BY RunOf
<1>2. \/ UNCHANGED <<local, astray>>
      \/ local' = [local EXCEPT ![r] = here] /\ UNCHANGED astray
      \/ /\ left # {} /\ astray' = [astray EXCEPT ![r] = astray[r] \cup next]
         /\ UNCHANGED local
  BY DEF Backup!Unlink
<1>3. CASE UNCHANGED <<local, astray>>
  BY <1>3, TidyStays
<1>4. CASE local' = [local EXCEPT ![r] = here] /\ UNCHANGED astray
  <2>1. CASE astray[r] = {}
    <3>1. here = Backup!Removed(local[r])
      BY <2>1 DEF Backup!Removed
    <3>2. here \in SUBSET Backup!Whole
      BY <1>1
    <3>3. local[r] \in Shapes => here \in Shapes
      BY <3>1, RemovedFits
    <3> HIDE DEF here
    <3> QED
      BY <1>4, <3>2, <3>3, TidyStep
  <2>2. CASE astray[r] # {}
    BY <1>4, <2>2, BackupParts DEF Tidy, BackupTyped
  <2> QED
    BY <2>1, <2>2
<1>5. CASE /\ left # {} /\ astray' = [astray EXCEPT ![r] = astray[r] \cup next]
           /\ UNCHANGED local
  <2>1. next # {} /\ next \in SUBSET Backup!Whole
    BY <1>1, <1>5 DEF Backup!Removed, Backup!Whole
  <2>2. PICK same \in SUBSET Backup!Whole : same = local[r]
    BY <1>1
  <2>3. local' = [local EXCEPT ![r] = same]
    BY <1>5, <2>2, BackupParts DEF BackupTyped
  <2> HIDE DEF next
  <2> QED
    BY <1>5, <2>1, <2>3, TidyStep
<1> QED
  BY <1>2, <1>3, <1>4, <1>5

LEMMA NextTidy == Tidy /\ BackupInv /\ Backup!Next => Tidy'
<1> SUFFICES ASSUME Tidy, BackupInv, Backup!Next PROVE Tidy'
  OBVIOUS
<1>1. CASE Backup!NewDay
  BY <1>1, TidyStays DEF Backup!NewDay, Backup!files
<1>2. CASE \E r \in Backup!Runs, h \in Hosts, seals \in BOOLEAN : Backup!Begin(r, h, seals)
  BY <1>2, TidyStays DEF Backup!Begin
<1>3. CASE \E r \in Backup!Runs : Backup!Step(r)
  <2> SUFFICES ASSUME NEW r \in Backup!Runs, Backup!Step(r) PROVE Tidy'
    BY <1>3
  <2>1. CASE Backup!Link(r) \/ Backup!Unlink(r)
    BY <2>1, LinkTidy, UnlinkTidy
  <2>2. CASE Backup!CleanLocal(r) \/ Backup!CleaningDies(r) \/ Backup!CleaningFails(r)
    BY <2>2, CaptureTidy
  <2>3. CASE \/ Backup!Snapshot(r) \/ Backup!Dump(r) \/ Backup!Seal(r) \/ Backup!Compare(r)
             \/ Backup!Copy(r) \/ Backup!Check(r) \/ Backup!RemoteFails(r)
    <3>1. UNCHANGED <<local, astray>>
      BY <2>3 DEF Backup!Snapshot, Backup!Dump, Backup!Seal, Backup!Compare, Backup!Copy, Backup!Check,
                  Backup!RemoteFails, Backup!files
    <3> QED
      BY <3>1, TidyStays
  <2>4. CASE \/ Backup!Retain(r) \/ Backup!PickRemote(r) \/ Backup!DeleteRemote(r)
             \/ Backup!Succeed(r) \/ Backup!Fails(r) \/ Backup!Discard(r) \/ Backup!Undo(r)
    <3>1. UNCHANGED <<local, astray>>
      BY <2>4 DEF Backup!Retain, Backup!PickRemote, Backup!DeleteRemote, Backup!Succeed, Backup!Ends,
                  Backup!Fails, Backup!Discard, Backup!Undo, Backup!files
    <3> QED
      BY <3>1, TidyStays
  <2>5. CASE \/ Backup!Undone(r) \/ Backup!End(r) \/ Backup!Cancel(r) \/ Backup!Crash(r)
             \/ Backup!LoseLock(r)
    <3>1. UNCHANGED <<local, astray>>
      BY <2>5 DEF Backup!Undone, Backup!End, Backup!Ends, Backup!Cancel, Backup!Crash, Backup!LoseLock,
                  Backup!files
    <3> QED
      BY <3>1, TidyStays
  <2> QED
    BY <2>1, <2>2, <2>3, <2>4, <2>5 DEF Backup!Step
<1> QED
  BY <1>1, <1>2, <1>3 DEF Backup!Next

LEMMA BackupSafe == Tidy /\ BackupInv => Backup!MarkerIsWhole /\ Backup!NewestStays
<1> SUFFICES ASSUME Tidy, BackupInv PROVE Backup!MarkerIsWhole /\ Backup!NewestStays
  OBVIOUS
<1>1. \A there \in Shapes : "manifest" \in there => there = Backup!Whole
  BY DEF Shapes, Begun, Backup!Whole
<1>2. \A r \in Backup!Runs : /\ astray[r] = {} => local[r] \in Shapes
                            /\ (run[r].spoilt \/ remote[r] \in Shapes)
  BY BackupParts DEF Fitting, Fits, Tidy
<1>3. Backup!MarkerIsWhole
  BY <1>1, <1>2 DEF Backup!MarkerIsWhole
<1> QED
  BY <1>3, BackupParts

-----------------------------------------------------------------------------
(* The rollout                                                             *)

Ats == {"idle", "refresh", "probe", "publish", "rename", "leave", "label", "commit",
        "plan", "run", "step", "read", "store", "settle"}
Statuses == {"open", "running", "retry", "lapsed", "failed", "succeeded"}
Tasks == [status : Statuses, owner : Commands \cup {None}]

TablesTyped ==
  /\ head \in {18, 19}
  /\ fields \in [Pairs -> {"empty", "unnamed", "v1", "v2"}]
  /\ cursor \in [Pairs -> {"none", "live", "marked"}]
  /\ attempts \in [Pairs -> Seq(Tasks)]

\* Nothing depends on what an artifact is.
Kinds(arts) == [at : Ats, art : arts, todo : SUBSET Pairs, ordinal : [Pairs -> Nat],
                pair : Pairs \cup {None}]
Shaped(k) ==
  k \in Kinds({k.art}) /\ (k.at \in {"step", "read", "store", "settle"} => k.pair \in Pairs)

\* Whom a migration is about to mark, and whom a recovery has read again.
InForce(k) ==
  /\ k.at = "commit" /\ head = 18 => k.todo = {p \in Rollout!Affected : cursor[p] = "live"}
  /\ k.at = "settle" => head = 19 /\ k.pair \notin Rollout!Marked

CommandsWork ==
  /\ command = [c \in Commands |-> command[c]]
  /\ \A c \in Commands : Shaped(command[c]) /\ InForce(command[c])

\* Before 0019 nothing is named, marked or read again.
Before ==
  head = 18 => \A p \in Pairs : /\ fields[p] \in {"empty", "unnamed"}
                                /\ cursor[p] # "marked" /\ attempts[p] = <<>>

OneActive == \A p \in Pairs : \A i, j \in Rollout!ActiveAttempts(p) : i = j

NoneIsDone ==
  \A p \in Rollout!Marked : \A i \in DOMAIN attempts[p] : attempts[p][i].status # "succeeded"

RolloutInv ==
  TablesTyped /\ CommandsWork /\ Before /\ OneActive /\ NoneIsDone /\ Rollout!LegacyIsMarked

LEMMA RolloutParts ==
  RolloutInv => /\ TablesTyped /\ CommandsWork /\ Before /\ OneActive /\ NoneIsDone
                /\ Rollout!LegacyIsMarked
  BY DEF RolloutInv

LEMMA CommandOf ==
  ASSUME RolloutInv, NEW c \in Commands
  PROVE  Shaped(command[c]) /\ InForce(command[c])
  BY RolloutParts DEF CommandsWork

LEMMA IdleShaped == Shaped(Rollout!Idle) /\ Rollout!Idle.at = "idle" /\ InForce(Rollout!Idle)
  BY DEF Shaped, Kinds, Rollout!Idle, InForce, Ats

LEMMA InitRollout == Rollout!Init => RolloutInv
<1> SUFFICES ASSUME Rollout!Init PROVE RolloutInv
  OBVIOUS
<1>1. TablesTyped /\ Before
  BY DEF Rollout!Init, TablesTyped, Before
<1>2. CommandsWork
  <2>1. /\ command = [c \in Commands |-> Rollout!Idle]
        /\ \A c \in Commands : command[c] = Rollout!Idle
    BY DEF Rollout!Init
  <2>2. command = [c \in Commands |-> command[c]]
    BY <2>1
  <2> QED
    BY <2>1, <2>2, IdleShaped DEF CommandsWork
<1>3. OneActive /\ NoneIsDone
  <2>1. \A p \in Pairs : attempts[p] = <<>> /\ DOMAIN attempts[p] = {}
    BY DEF Rollout!Init
  <2> QED
    BY <2>1 DEF OneActive, NoneIsDone, Rollout!ActiveAttempts, Rollout!Marked
<1>4. Rollout!LegacyIsMarked
  BY DEF Rollout!Init, Rollout!LegacyIsMarked
<1> QED
  BY <1>1, <1>2, <1>3, <1>4 DEF RolloutInv

LEMMA OfItsKind ==
  ASSUME NEW arts, NEW k \in Kinds(arts), k.at \in {"step", "read", "store",
         "settle"} => k.pair \in Pairs
  PROVE  Shaped(k)
  BY DEF Shaped, Kinds

\* A command goes on.
LEMMA Gone ==
  ASSUME NEW k, Shaped(k), NEW at \in Ats, at \in {"step", "read", "store", "settle"} => k.pair \in Pairs
  PROVE  /\ Shaped([k EXCEPT !.at = at])
         /\ [k EXCEPT !.at = at].at = at /\ [k EXCEPT !.at = at].todo = k.todo
         /\ [k EXCEPT !.at = at].pair = k.pair
<1> DEFINE new == [k EXCEPT !.at = at]
<1>1. k \in Kinds({k.art})
  BY DEF Shaped
<1>2. new \in Kinds({k.art})
  BY <1>1 DEF Kinds
<1>3. new.at = at /\ new.todo = k.todo /\ new.pair = k.pair
  BY <1>1 DEF Kinds
<1> HIDE DEF new
<1>4. Shaped(new)
  BY <1>2, <1>3, OfItsKind
<1> QED
  BY <1>3, <1>4 DEF new

LEMMA TodoSet ==
  ASSUME NEW k, Shaped(k), NEW todo \in SUBSET Pairs
  PROVE  /\ Shaped([k EXCEPT !.todo = todo])
         /\ [k EXCEPT !.todo = todo].at = k.at /\ [k EXCEPT !.todo = todo].todo = todo
         /\ [k EXCEPT !.todo = todo].pair = k.pair
<1> DEFINE new == [k EXCEPT !.todo = todo]
<1>1. k \in Kinds({k.art})
  BY DEF Shaped
<1>2. new \in Kinds({k.art})
  BY <1>1 DEF Kinds
<1>3. new.at = k.at /\ new.todo = todo /\ new.pair = k.pair
  BY <1>1 DEF Kinds
<1> HIDE DEF new
<1>4. Shaped(new)
  BY <1>2, <1>3, OfItsKind DEF Shaped
<1> QED
  BY <1>3, <1>4 DEF new

\* A step of one command that leaves the tables alone.
LEMMA CommandMoves ==
  ASSUME RolloutInv, NEW c \in Commands, NEW k, Shaped(k), InForce(k),
         command' = [command EXCEPT ![c] = k], UNCHANGED <<head, fields, cursor, attempts>>
  PROVE  RolloutInv'
<1>1. TablesTyped' /\ Before' /\ OneActive' /\ NoneIsDone' /\ Rollout!LegacyIsMarked'
  BY RolloutParts
  DEF TablesTyped, Before, OneActive, NoneIsDone, Rollout!LegacyIsMarked, Rollout!ActiveAttempts,
      Rollout!Marked
<1>2. CommandsWork'
  <2>1. \A d \in Commands : command'[d] = IF d = c THEN k ELSE command[d]
    BY RolloutParts DEF CommandsWork
  <2>2. command' = [d \in Commands |-> command'[d]]
    BY RolloutParts DEF CommandsWork
  <2>3. ASSUME NEW d \in Commands PROVE Shaped(command'[d]) /\ InForce(command[d])'
    <3>1. Shaped(command'[d]) /\ InForce(command'[d])
      BY <2>1, CommandOf
    <3> QED
      BY <3>1 DEF InForce, Rollout!Affected, Rollout!Marked
  <2> QED
    BY <2>2, <2>3 DEF CommandsWork, Shaped
<1> QED
  BY <1>1, <1>2 DEF RolloutInv

LEMMA TablesStay ==
  ASSUME RolloutInv, UNCHANGED <<head, fields, cursor, attempts, command>> PROVE RolloutInv'
<1>1. TablesTyped' /\ Before' /\ OneActive' /\ NoneIsDone' /\ Rollout!LegacyIsMarked'
  BY RolloutParts
  DEF TablesTyped, Before, OneActive, NoneIsDone, Rollout!LegacyIsMarked, Rollout!ActiveAttempts,
      Rollout!Marked
<1>2. CommandsWork'
  BY RolloutParts DEF CommandsWork, Shaped, InForce, Rollout!Affected, Rollout!Marked
<1> QED
  BY <1>1, <1>2 DEF RolloutInv

LEMMA ExitKept ==
  ASSUME RolloutInv, NEW c \in Commands, Rollout!Exit(c), UNCHANGED <<head, fields, cursor, attempts>>
  PROVE  RolloutInv'
  BY IdleShaped, CommandMoves DEF Rollout!Exit

LEMMA MoveKept ==
  ASSUME RolloutInv, NEW c \in Commands, NEW at \in Ats, Rollout!Move(c, at),
         at \notin {"commit", "settle", "step", "read", "store"},
         UNCHANGED <<head, fields, cursor, attempts>>
  PROVE  RolloutInv'
<1>1. Shaped(command[c])
  BY CommandOf
<1>2. Shaped([command[c] EXCEPT !.at = at]) /\ [command[c] EXCEPT !.at = at].at = at
  BY <1>1, Gone
<1>3. InForce([command[c] EXCEPT !.at = at])
  BY <1>2 DEF InForce
<1>4. command' = [command EXCEPT ![c] = [command[c] EXCEPT !.at = at]]
  BY DEF Rollout!Move
<1> QED
  BY <1>2, <1>3, <1>4, CommandMoves

LEMMA StartKept ==
  ASSUME RolloutInv, NEW c \in Commands, NEW at \in Ats, NEW art, NEW todo \in SUBSET Pairs,
         Rollout!Starts(c, at, art, todo),
         at \notin {"commit", "settle", "step", "read", "store"},
         UNCHANGED <<head, fields, cursor, attempts>>
  PROVE  RolloutInv'
<1> DEFINE k == [Rollout!Idle EXCEPT !.at = at, !.art = art, !.todo = todo]
<1>1. Rollout!Idle \in Kinds({None, art})
  BY DEF Rollout!Idle, Kinds, Ats
<1>2. k \in Kinds({None, art})
  BY <1>1 DEF Kinds
<1>3. k.at = at
  BY <1>1 DEF Kinds
<1>4. command' = [command EXCEPT ![c] = k]
  BY DEF Rollout!Starts
<1> HIDE DEF k
<1>5. Shaped(k) /\ InForce(k)
  BY <1>2, <1>3, OfItsKind DEF InForce
<1> QED
  BY <1>4, <1>5, CommandMoves

\* Preflights change no table.
LEMMA PreflightsKept ==
  ASSUME RolloutInv, NEW c \in Commands, Rollout!Preflights(c) PROVE RolloutInv'
<1>1. CASE Rollout!Preflight(c)
  BY <1>1, StartKept DEF Rollout!Preflight, Rollout!Affected, Ats, Rollout!events
<1>2. CASE Rollout!Freeze(c)
  <2> DEFINE art == IF command[c].art # None THEN command[c].art ELSE Rollout!Artifact
             old == command[c]
             k == [old EXCEPT !.at = "probe", !.art = art]
  <2>1. command' = [command EXCEPT ![c] = k] /\ UNCHANGED <<head, fields, cursor, attempts>>
    BY <1>2 DEF Rollout!Freeze, Rollout!events
  <2> HIDE DEF art
  <2>2. old \in Kinds({old.art, art})
    BY CommandOf DEF Shaped, Kinds
  <2>3. k \in Kinds({old.art, art})
    BY <2>2 DEF Kinds, Ats
  <2>4. k.at = "probe"
    BY <2>2 DEF Kinds
  <2> HIDE DEF k, old
  <2>5. Shaped(k) /\ InForce(k)
    BY <2>3, <2>4, OfItsKind DEF InForce
  <2> QED
    BY <2>1, <2>5, CommandMoves
<1>3. ASSUME NEW p \in Pairs, Rollout!Probe(c, p) PROVE RolloutInv'
  <2> DEFINE todo == command[c].todo \ {p}
  <2>1. Shaped(command[c]) /\ command[c].at = "probe"
    BY <1>3, CommandOf DEF Rollout!Probe
  <2>2. todo \in SUBSET Pairs
    BY <2>1 DEF Shaped, Kinds
  <2> HIDE DEF todo
  <2>3. Shaped([command[c] EXCEPT !.todo = todo]) /\ InForce([command[c] EXCEPT !.todo = todo])
    BY <2>1, <2>2, TodoSet DEF InForce
  <2>4. command' = [command EXCEPT ![c] = [command[c] EXCEPT !.todo = todo]]
    BY <1>3 DEF Rollout!Probe, todo
  <2> QED
    BY <1>3, <2>3, <2>4, CommandMoves DEF Rollout!Probe, Rollout!events
<1>4. CASE Rollout!Stage(c) \/ Rollout!Missing(c)
  BY <1>4, MoveKept DEF Rollout!Stage, Rollout!Missing, Ats, Rollout!events
<1>5. CASE Rollout!Rename(c)
  BY <1>5, MoveKept DEF Rollout!Rename, Ats, Rollout!events
<1>6. CASE Rollout!Reuse(c) \/ Rollout!Leave(c)
  BY <1>6, ExitKept DEF Rollout!Reuse, Rollout!Leave, Rollout!events
<1>7. ASSUME NEW p \in Pairs, Rollout!Refresh(c, p) PROVE RolloutInv'
  BY <1>7, TablesStay DEF Rollout!Refresh, Rollout!events
<1> QED
  BY <1>1, <1>2, <1>3, <1>4, <1>5, <1>6, <1>7 DEF Rollout!Preflights

\* What is sealed in the old way has a cursor to mark, and gets its mark with its name.
LEMMA MigrationsKept ==
  ASSUME RolloutInv, NEW c \in Commands, Rollout!Migrations(c) PROVE RolloutInv'
<1>1. CASE Rollout!Migrate(c)
  BY <1>1, StartKept DEF Rollout!Migrate, Ats, Rollout!events
<1>2. CASE Rollout!Label(c)
  <2> DEFINE old == command[c]
             todo == {p \in Rollout!Affected : cursor[p] = "live"}
             k == [old EXCEPT !.at = "commit", !.todo = todo]
  <2>1. command' = [command EXCEPT ![c] = k] /\ UNCHANGED <<head, fields, cursor, attempts>>
    BY <1>2 DEF Rollout!Label, Rollout!events
  <2>2. old \in Kinds({old.art})
    BY CommandOf DEF Shaped
  <2>3. todo \in SUBSET Pairs
    BY DEF Rollout!Affected
  <2> HIDE DEF todo
  <2>4. k \in Kinds({old.art})
    BY <2>2, <2>3 DEF Kinds, Ats
  <2>5. k.at = "commit" /\ k.todo = todo
    BY <2>2, <2>3 DEF Kinds
  <2> HIDE DEF k, old
  <2>6. Shaped(k)
    BY <2>4, <2>5, OfItsKind
  <2>7. InForce(k)
    BY <2>5 DEF InForce, todo
  <2> QED
    BY <2>1, <2>6, <2>7, CommandMoves
<1>3. CASE Rollout!Commit(c)
  <2>1. /\ command[c].at = "commit" /\ head = 18 /\ Rollout!Recoverable /\ head' = 19
        /\ fields' = [p \in Pairs |-> IF p \in Rollout!Affected THEN "v1" ELSE fields[p]]
        /\ cursor' = [p \in Pairs |-> IF p \in command[c].todo THEN "marked" ELSE cursor[p]]
        /\ UNCHANGED attempts /\ command' = [command EXCEPT ![c] = Rollout!Idle]
    BY <1>3 DEF Rollout!Commit, Rollout!Verified, Rollout!Exit
  <2>2. command[c].todo = {p \in Rollout!Affected : cursor[p] = "live"}
    BY <2>1, CommandOf DEF InForce
  <2>3. \A p \in Pairs : /\ fields[p] \in {"empty", "unnamed"} /\ attempts[p] = <<>>
                         /\ cursor[p] \in {"none", "live"} /\ DOMAIN attempts[p] = {}
    BY <2>1, RolloutParts DEF Before, TablesTyped
  <2>4. \A p \in Pairs : /\ fields'[p] = IF fields[p] = "unnamed" THEN "v1" ELSE "empty"
                         /\ cursor'[p] = IF fields[p] = "unnamed" THEN "marked" ELSE cursor[p]
    BY <2>1, <2>2, <2>3 DEF Rollout!Affected, Rollout!Recoverable
  <2>5. TablesTyped'
    BY <2>1, <2>3, <2>4, RolloutParts DEF TablesTyped
  <2>6. Before' /\ Rollout!LegacyIsMarked'
    BY <2>1, <2>3, <2>4 DEF Before, Rollout!LegacyIsMarked
  <2>7. OneActive' /\ NoneIsDone'
    BY <2>1, <2>3 DEF OneActive, NoneIsDone, Rollout!ActiveAttempts, Rollout!Marked
  <2>8. CommandsWork'
    <3>1. \A d \in Commands : command'[d] = IF d = c THEN Rollout!Idle ELSE command[d]
      BY <2>1, RolloutParts DEF CommandsWork
    <3>2. command' = [d \in Commands |-> command'[d]]
      BY <2>1, RolloutParts DEF CommandsWork
    <3>3. ASSUME NEW d \in Commands PROVE Shaped(command'[d]) /\ InForce(command[d])'
      <4>1. Shaped(command'[d]) /\ command'[d].at # "settle"
        BY <2>1, <3>1, CommandOf, IdleShaped DEF InForce
      <4> QED
        BY <2>1, <4>1 DEF InForce
    <3> QED
      BY <3>2, <3>3 DEF CommandsWork, Shaped
  <2> QED
    BY <2>5, <2>6, <2>7, <2>8 DEF RolloutInv
<1> QED
  BY <1>1, <1>2, <1>3 DEF Rollout!Migrations

-----------------------------------------------------------------------------
(* Tasks of the recovery                                                   *)

LEMMA AttemptOf ==
  ASSUME RolloutInv, NEW p \in Pairs
  PROVE  /\ attempts[p] \in Seq(Tasks) /\ DOMAIN attempts[p] = 1..Len(attempts[p])
         /\ Len(attempts[p]) \in Nat
         /\ \A i \in DOMAIN attempts[p] : attempts[p][i] \in Tasks
  BY RolloutParts DEF TablesTyped

\* What becomes of a task when one is set: nothing, if there is no such task.
LEMMA SetMeans ==
  ASSUME RolloutInv, NEW p \in Pairs, NEW i \in Nat, NEW status \in Statuses,
         NEW owner \in Commands \cup {None}, Rollout!SetAttempt(p, i, status, owner)
  PROVE  /\ attempts' \in [Pairs -> Seq(Tasks)]
         /\ \A q \in Pairs :
              /\ DOMAIN attempts'[q] = DOMAIN attempts[q]
              /\ \A j \in DOMAIN attempts[q] :
                   attempts'[q][j] = IF q = p /\ j = i THEN [status |-> status, owner |-> owner]
                                     ELSE attempts[q][j]
<1> DEFINE task == [status |-> status, owner |-> owner]
           new == [attempts[p] EXCEPT ![i] = task]
<1>1. task \in Tasks
  BY DEF Tasks
<1>2. attempts[p] \in Seq(Tasks) /\ DOMAIN attempts[p] = 1..Len(attempts[p])
  BY AttemptOf
<1>3. attempts \in [Pairs -> Seq(Tasks)] /\ attempts' = [attempts EXCEPT ![p] = new]
  BY RolloutParts DEF Rollout!SetAttempt, TablesTyped
<1> HIDE DEF task
<1>4. /\ new \in Seq(Tasks) /\ DOMAIN new = DOMAIN attempts[p]
      /\ \A j \in DOMAIN attempts[p] : new[j] = IF j = i THEN task ELSE attempts[p][j]
  <2>1. CASE i \in 1..Len(attempts[p])
    <3>1. /\ new \in Seq(Tasks) /\ Len(new) = Len(attempts[p])
          /\ \A j \in 1..Len(attempts[p]) : new[j] = IF j = i THEN task ELSE attempts[p][j]
      BY <1>1, <1>2, <2>1, ExceptSeq
    <3>2. DOMAIN new = 1..Len(new)
      BY <3>1
    <3> QED
      BY <1>2, <3>1, <3>2
  <2>2. CASE i \notin 1..Len(attempts[p])
    <3>1. new = attempts[p]
      BY <1>2, <2>2
    <3> QED
      BY <1>2, <2>2, <3>1
  <2> QED
    BY <2>1, <2>2
<1> HIDE DEF new
<1>5. attempts' \in [Pairs -> Seq(Tasks)] /\ attempts'[p] = new
      /\ \A q \in Pairs : q # p => attempts'[q] = attempts[q]
  BY <1>3, <1>4
<1> QED
  BY <1>4, <1>5 DEF task

LEMMA NoneLeft ==
  ASSUME NEW s \in Seq(Tasks), DOMAIN s = {} PROVE s = <<>>
<1>1. DOMAIN s = 1..Len(s) /\ Len(s) \in Nat
  OBVIOUS
<1>2. Len(s) = 0
  BY <1>1
<1> QED
  BY <1>2, EmptySeq

\* A task that takes a status is still active only if it was, and has not succeeded
\* while its pair is marked.
LEMMA SetKept ==
  ASSUME RolloutInv, NEW p \in Pairs, NEW i \in Nat, NEW status \in Statuses,
         NEW owner \in Commands \cup {None}, Rollout!SetAttempt(p, i, status, owner),
         status \in Rollout!Active /\ i \in DOMAIN attempts[p] => attempts[p][i].status \in Rollout!Active,
         status = "succeeded" => p \notin Rollout!Marked,
         UNCHANGED <<head, fields, cursor>>
  PROVE  TablesTyped' /\ Before' /\ OneActive' /\ NoneIsDone' /\ Rollout!LegacyIsMarked'
<1>1. /\ attempts' \in [Pairs -> Seq(Tasks)]
      /\ \A q \in Pairs :
           /\ DOMAIN attempts'[q] = DOMAIN attempts[q]
           /\ \A j \in DOMAIN attempts[q] :
                attempts'[q][j].status = IF q = p /\ j = i THEN status ELSE attempts[q][j].status
  <2>1. /\ attempts' \in [Pairs -> Seq(Tasks)]
        /\ \A q \in Pairs :
             /\ DOMAIN attempts'[q] = DOMAIN attempts[q]
             /\ \A j \in DOMAIN attempts[q] :
                  attempts'[q][j] = IF q = p /\ j = i THEN [status |-> status, owner |-> owner]
                                    ELSE attempts[q][j]
    BY SetMeans
  <2>2. [status |-> status, owner |-> owner].status = status
    OBVIOUS
  <2> QED
    BY <2>1, <2>2
<1>2. TablesTyped'
  BY <1>1, RolloutParts DEF TablesTyped
<1>3. Before'
  <2> SUFFICES ASSUME head = 18, NEW q \in Pairs
      PROVE fields[q] \in {"empty", "unnamed"} /\ cursor[q] # "marked" /\ attempts'[q] = <<>>
    BY DEF Before
  <2>1. /\ fields[q] \in {"empty", "unnamed"} /\ cursor[q] # "marked" /\ attempts[q] = <<>>
    BY RolloutParts DEF Before
  <2>2. DOMAIN attempts'[q] = {} /\ attempts'[q] \in Seq(Tasks)
    BY <1>1, <2>1
  <2>3. attempts'[q] = <<>>
    BY <2>2, NoneLeft
  <2> QED
    BY <2>1, <2>3
<1>4. OneActive'
  <2>1. \A q \in Pairs : Rollout!ActiveAttempts(q)' \subseteq Rollout!ActiveAttempts(q)
    BY <1>1 DEF Rollout!ActiveAttempts
  <2> QED
    BY <2>1, RolloutParts DEF OneActive
<1>5. NoneIsDone'
  BY <1>1, RolloutParts DEF NoneIsDone, Rollout!Marked
<1>6. Rollout!LegacyIsMarked'
  BY RolloutParts DEF Rollout!LegacyIsMarked
<1> QED
  BY <1>2, <1>3, <1>4, <1>5, <1>6

\* The other commands do not notice.
LEMMA OthersWork ==
  ASSUME RolloutInv, NEW c \in Commands, NEW k, Shaped(k), InForce(k),
         command' = [command EXCEPT ![c] = k], UNCHANGED <<head, fields, cursor>>
  PROVE  CommandsWork'
<1>1. \A d \in Commands : command'[d] = IF d = c THEN k ELSE command[d]
  BY RolloutParts DEF CommandsWork
<1>2. command' = [d \in Commands |-> command'[d]]
  BY RolloutParts DEF CommandsWork
<1>3. ASSUME NEW d \in Commands PROVE Shaped(command'[d]) /\ InForce(command[d])'
  <2>1. Shaped(command'[d]) /\ InForce(command'[d])
    BY <1>1, CommandOf
  <2> QED
    BY <2>1 DEF InForce, Rollout!Affected, Rollout!Marked
<1> QED
  BY <1>2, <1>3 DEF CommandsWork, Shaped, Kinds

LEMMA LapseKept ==
  ASSUME RolloutInv, NEW p \in Pairs, NEW i \in Nat, Rollout!Lapse(p, i) PROVE RolloutInv'
<1>1. /\ i \in DOMAIN attempts[p] /\ attempts[p][i].status = "running"
      /\ Rollout!SetAttempt(p, i, "lapsed", attempts[p][i].owner)
      /\ UNCHANGED <<head, fields, cursor, command>>
  BY DEF Rollout!Lapse, Rollout!events
<1>2. attempts[p][i].owner \in Commands \cup {None}
  BY <1>1, AttemptOf DEF Tasks
<1>3. TablesTyped' /\ Before' /\ OneActive' /\ NoneIsDone' /\ Rollout!LegacyIsMarked'
  BY <1>1, <1>2, SetKept DEF Statuses, Rollout!Active
<1>4. CommandsWork'
  BY <1>1, RolloutParts DEF CommandsWork, Shaped, Kinds, InForce, Rollout!Affected, Rollout!Marked
<1> QED
  BY <1>3, <1>4 DEF RolloutInv

LEMMA TakeKept ==
  ASSUME RolloutInv, NEW c \in Commands, NEW p \in Pairs, Rollout!Take(c, p) PROVE RolloutInv'
<1> DEFINE i == command[c].ordinal[p]
           old == command[c]
           todo == old.todo \ {p}
           k == [old EXCEPT !.at = "step", !.todo = todo, !.pair = p]
<1>1. /\ attempts[p][i].status \in {"open", "retry", "lapsed"}
      /\ Rollout!SetAttempt(p, i, "running", c)
      /\ UNCHANGED <<head, fields, cursor>>
      /\ command' = [command EXCEPT ![c] = k]
  BY DEF Rollout!Take, Rollout!events
<1>2. old \in Kinds({old.art}) /\ i \in Nat /\ todo \in SUBSET Pairs
  BY CommandOf DEF Shaped, Kinds
<1>3. TablesTyped' /\ Before' /\ OneActive' /\ NoneIsDone' /\ Rollout!LegacyIsMarked'
  <2> HIDE DEF i
  <2> QED
    BY <1>1, <1>2, SetKept DEF Statuses, Rollout!Active
<1> HIDE DEF todo
<1>4. k \in Kinds({old.art})
  BY <1>2 DEF Kinds, Ats
<1>5. k.at = "step" /\ k.pair = p
  BY <1>2 DEF Kinds
<1> HIDE DEF k, old, i
<1>6. Shaped(k) /\ InForce(k)
  BY <1>4, <1>5, OfItsKind DEF InForce
<1>7. CommandsWork'
  BY <1>1, <1>6, OthersWork
<1> QED
  BY <1>3, <1>7 DEF RolloutInv

\* A task ends as its runner's phase allows.
LEMMA EndsKept ==
  ASSUME RolloutInv, NEW c \in Commands, NEW status \in {"failed", "retry", "succeeded"},
         Rollout!Ends(c, status), command[c].at \in {"step", "read", "store", "settle"},
         status = "succeeded" => command[c].pair \notin Rollout!Marked
  PROVE  RolloutInv'
<1> DEFINE old == command[c]
           p == old.pair
           i == old.ordinal[p]
           k == [old EXCEPT !.at = "run", !.pair = None]
<1>1. /\ IF Rollout!Mine(c) THEN Rollout!SetAttempt(p, i, status, None) ELSE UNCHANGED attempts
      /\ UNCHANGED <<head, fields, cursor>> /\ command' = [command EXCEPT ![c] = k]
  BY DEF Rollout!Ends, Rollout!events
<1>2. p \in Pairs /\ i \in Nat /\ old \in Kinds({old.art})
  BY CommandOf DEF Shaped, Kinds
<1>3. TablesTyped' /\ Before' /\ OneActive' /\ NoneIsDone' /\ Rollout!LegacyIsMarked'
  <2>1. CASE Rollout!Mine(c)
    <3>1. attempts[p][i].status = "running"
      BY <2>1 DEF Rollout!Mine, Rollout!Attempt
    <3>2. Rollout!SetAttempt(p, i, status, None) /\ UNCHANGED <<head, fields, cursor>>
      BY <1>1, <2>1
    <3>3. status \in Statuses
      BY DEF Statuses
    <3>4. status \in Rollout!Active /\ i \in DOMAIN attempts[p] => attempts[p][i].status \in Rollout!Active
      BY <3>1 DEF Rollout!Active
    <3> HIDE DEF p, i
    <3>5. status = "succeeded" => p \notin Rollout!Marked
      BY DEF p
    <3> QED
      BY <1>2, <3>2, <3>3, <3>4, <3>5, SetKept
  <2>2. CASE ~Rollout!Mine(c)
    BY <1>1, <2>2, RolloutParts
       DEF TablesTyped, Before, OneActive, NoneIsDone, Rollout!LegacyIsMarked,
           Rollout!ActiveAttempts, Rollout!Marked
  <2> QED
    BY <2>1, <2>2
<1> HIDE DEF p, i
<1>4. k \in Kinds({old.art})
  BY <1>2 DEF Kinds, Ats
<1>5. k.at = "run"
  BY <1>2 DEF Kinds
<1>6. command' = [command EXCEPT ![c] = k] /\ UNCHANGED <<head, fields, cursor>>
  BY <1>1
<1> HIDE DEF k, old
<1>7. Shaped(k) /\ InForce(k)
  BY <1>4, <1>5, OfItsKind DEF InForce
<1>8. CommandsWork'
  BY <1>6, <1>7, OthersWork
<1> QED
  BY <1>3, <1>8 DEF RolloutInv

\* A plan adds a task only to a pair that has no active one.
LEMMA PlanKept ==
  ASSUME RolloutInv, NEW c \in Commands, Rollout!Plan(c) PROVE RolloutInv'
<1> DEFINE open == [status |-> "open", owner |-> None]
           ordinal == [p \in Pairs |->
             IF p \notin Rollout!Marked THEN 0
             ELSE IF Rollout!ActiveAttempts(p) = {} THEN Len(attempts[p]) + 1
             ELSE CHOOSE i \in Rollout!ActiveAttempts(p) : TRUE]
           old == command[c]
           k == [old EXCEPT !.at = "run", !.todo = Rollout!Marked, !.ordinal = ordinal]
<1>1. /\ attempts' = [p \in Pairs |->
           IF p \in Rollout!Marked /\ Rollout!ActiveAttempts(p) = {} THEN Append(attempts[p], open)
           ELSE attempts[p]]
      /\ command' = [command EXCEPT ![c] = k]
      /\ UNCHANGED <<head, fields, cursor>> /\ head = 19
  BY DEF Rollout!Plan, Rollout!events, Rollout!Verified
<1>2. open \in Tasks /\ open.status = "open"
  BY DEF Tasks, Statuses
<1> HIDE DEF open
<1>3. ASSUME NEW p \in Pairs
      PROVE  /\ attempts'[p] \in Seq(Tasks)
             /\ \/ attempts'[p] = attempts[p]
                \/ /\ Rollout!ActiveAttempts(p) = {} /\ DOMAIN attempts[p] = 1..Len(attempts[p])
                   /\ DOMAIN attempts'[p] = 1..(Len(attempts[p]) + 1)
                   /\ \A i \in 1..Len(attempts[p]) : attempts'[p][i] = attempts[p][i]
                   /\ attempts'[p][Len(attempts[p]) + 1] = open
  <2>1. attempts[p] \in Seq(Tasks) /\ DOMAIN attempts[p] = 1..Len(attempts[p])
    BY AttemptOf
  <2>2. CASE p \in Rollout!Marked /\ Rollout!ActiveAttempts(p) = {}
    <3>1. attempts'[p] = Append(attempts[p], open)
      BY <1>1, <2>2
    <3>2. /\ attempts'[p] \in Seq(Tasks) /\ Len(attempts'[p]) = Len(attempts[p]) + 1
          /\ \A i \in 1..Len(attempts[p]) : attempts'[p][i] = attempts[p][i]
          /\ attempts'[p][Len(attempts[p]) + 1] = open
      BY <1>2, <2>1, <3>1, AppendProperties
    <3>3. DOMAIN attempts'[p] = 1..Len(attempts'[p])
      <4>1. PICK s \in Seq(Tasks) : s = attempts'[p]
        BY <3>2
      <4> QED
        BY <4>1
    <3> QED
      BY <2>1, <2>2, <3>2, <3>3
  <2>3. CASE ~(p \in Rollout!Marked /\ Rollout!ActiveAttempts(p) = {})
    <3>1. attempts'[p] = attempts[p]
      BY <1>1, <2>3
    <3> QED
      BY <2>1, <3>1
  <2> QED
    BY <2>2, <2>3
<1>4. TablesTyped'
  <2>1. attempts' = [p \in Pairs |-> attempts'[p]]
    BY <1>1
  <2> QED
    BY <1>1, <1>3, <2>1, RolloutParts DEF TablesTyped
<1>5. Before' /\ Rollout!LegacyIsMarked'
  BY <1>1, RolloutParts DEF Before, Rollout!LegacyIsMarked
<1>6. OneActive'
  <2> SUFFICES ASSUME NEW p \in Pairs, NEW i \in Rollout!ActiveAttempts(p)',
                      NEW j \in Rollout!ActiveAttempts(p)'
      PROVE i = j
    BY DEF OneActive
  <2>1. CASE attempts'[p] = attempts[p]
    BY <2>1, RolloutParts DEF OneActive, Rollout!ActiveAttempts
  <2>2. CASE /\ Rollout!ActiveAttempts(p) = {} /\ DOMAIN attempts[p] = 1..Len(attempts[p])
             /\ DOMAIN attempts'[p] = 1..(Len(attempts[p]) + 1)
             /\ \A n \in 1..Len(attempts[p]) : attempts'[p][n] = attempts[p][n]
             /\ attempts'[p][Len(attempts[p]) + 1] = open
    <3>1. Len(attempts[p]) \in Nat
      BY AttemptOf
    <3>2. ASSUME NEW n \in Rollout!ActiveAttempts(p)' PROVE n = Len(attempts[p]) + 1
      <4>1. n \in 1..(Len(attempts[p]) + 1) /\ attempts'[p][n].status \in Rollout!Active
        BY <2>2 DEF Rollout!ActiveAttempts
      <4>2. n \in 1..Len(attempts[p]) => n \in Rollout!ActiveAttempts(p)
        BY <2>2, <4>1 DEF Rollout!ActiveAttempts
      <4> QED
        BY <2>2, <3>1, <4>1, <4>2
    <3> QED
      BY <3>2
  <2> QED
    BY <1>3, <2>1, <2>2
<1>7. NoneIsDone'
  <2> SUFFICES ASSUME NEW p \in Rollout!Marked, NEW i \in DOMAIN attempts'[p]
      PROVE attempts'[p][i].status # "succeeded"
    BY <1>1 DEF NoneIsDone, Rollout!Marked
  <2>1. p \in Pairs
    BY DEF Rollout!Marked
  <2>2. Len(attempts[p]) \in Nat
    BY <2>1, AttemptOf
  <2>3. \A n \in DOMAIN attempts[p] : attempts[p][n].status # "succeeded"
    BY RolloutParts DEF NoneIsDone
  <2>4. CASE attempts'[p] = attempts[p]
    BY <2>3, <2>4
  <2>5. CASE /\ DOMAIN attempts[p] = 1..Len(attempts[p])
             /\ DOMAIN attempts'[p] = 1..(Len(attempts[p]) + 1)
             /\ \A n \in 1..Len(attempts[p]) : attempts'[p][n] = attempts[p][n]
             /\ attempts'[p][Len(attempts[p]) + 1] = open
    <3>1. i \in 1..Len(attempts[p]) \/ i = Len(attempts[p]) + 1
      BY <2>2, <2>5
    <3>2. CASE i \in 1..Len(attempts[p])
      BY <2>3, <2>5, <3>2
    <3>3. CASE i = Len(attempts[p]) + 1
      BY <1>2, <2>5, <3>3
    <3> QED
      BY <3>1, <3>2, <3>3
  <2> QED
    BY <1>3, <2>1, <2>4, <2>5
<1>8. old \in Kinds({old.art}) /\ Rollout!Marked \in SUBSET Pairs
  BY CommandOf DEF Shaped, Kinds, Rollout!Marked
<1>9. ordinal \in [Pairs -> Nat]
  <2>1. \A p \in Pairs : Len(attempts[p]) \in Nat /\ Rollout!ActiveAttempts(p) \subseteq Nat
    BY AttemptOf DEF Rollout!ActiveAttempts
  <2> QED
    BY <2>1
<1> HIDE DEF ordinal
<1>10. k \in Kinds({old.art})
  BY <1>8, <1>9 DEF Kinds, Ats
<1>11. k.at = "run"
  BY <1>8 DEF Kinds
<1> HIDE DEF k, old
<1>12. Shaped(k) /\ InForce(k)
  BY <1>10, <1>11, OfItsKind DEF InForce
<1>13. CommandsWork'
  BY <1>1, <1>12, OthersWork
<1> QED
  BY <1>4, <1>5, <1>6, <1>7, <1>13 DEF RolloutInv

LEMMA StoreKept ==
  ASSUME RolloutInv, NEW c \in Commands, Rollout!Store(c) PROVE RolloutInv'
<1> DEFINE old == command[c]
           k == [old EXCEPT !.at = "settle"]
<1>1. PICK sealing \in {"v2", "empty"} : fields' = [fields EXCEPT ![old.pair] = sealing]
  BY DEF Rollout!Store
<1>2. /\ old.at = "store" /\ head = 19 /\ cursor' = [cursor EXCEPT ![old.pair] = "live"]
      /\ command' = [command EXCEPT ![c] = k] /\ UNCHANGED <<head, attempts>>
  BY DEF Rollout!Store, Rollout!Verified, Rollout!Move
<1>3. Shaped(old) /\ old.pair \in Pairs
  BY <1>2, CommandOf DEF Shaped
<1>4. Shaped(k) /\ k.at = "settle" /\ k.pair = old.pair
  BY <1>3, Gone DEF Ats
<1> HIDE DEF k
<1>5. /\ \A p \in Pairs : /\ fields'[p] = IF p = old.pair THEN sealing ELSE fields[p]
                          /\ cursor'[p] = IF p = old.pair THEN "live" ELSE cursor[p]
      /\ fields' \in [Pairs -> {"empty", "unnamed", "v1", "v2"}]
      /\ cursor' \in [Pairs -> {"none", "live", "marked"}]
  BY <1>1, <1>2, <1>3, RolloutParts DEF TablesTyped
<1>6. TablesTyped' /\ Before'
  BY <1>2, <1>5, RolloutParts DEF TablesTyped, Before
<1>7. Rollout!LegacyIsMarked'
  BY <1>2, <1>5, RolloutParts DEF Rollout!LegacyIsMarked
<1>8. OneActive'
  BY <1>2, RolloutParts DEF OneActive, Rollout!ActiveAttempts
<1>9. Rollout!Marked' = Rollout!Marked \ {old.pair}
  BY <1>3, <1>5 DEF Rollout!Marked
<1>10. NoneIsDone'
  BY <1>2, <1>9, RolloutParts DEF NoneIsDone
<1>11. CommandsWork'
  <2>1. \A d \in Commands : command'[d] = IF d = c THEN k ELSE command[d]
    BY <1>2, RolloutParts DEF CommandsWork
  <2>2. command' = [d \in Commands |-> command'[d]]
    BY <1>2, RolloutParts DEF CommandsWork
  <2>3. ASSUME NEW d \in Commands PROVE Shaped(command'[d]) /\ InForce(command[d])'
    <3>1. CASE d = c
      <4>1. command'[d] = k
        BY <2>1, <3>1
      <4>2. command'[d].at = "settle" /\ command'[d].pair \notin Rollout!Marked'
        BY <1>4, <1>9, <4>1
      <4> QED
        BY <1>2, <1>4, <4>1, <4>2 DEF InForce
    <3>2. CASE d # c
      <4>1. command'[d] = command[d] /\ Shaped(command[d]) /\ InForce(command[d])
        BY <2>1, <3>2, CommandOf
      <4> QED
        BY <1>2, <1>9, <4>1 DEF InForce
    <3> QED
      BY <3>1, <3>2
  <2> QED
    BY <2>2, <2>3 DEF CommandsWork, Shaped, Kinds
<1> QED
  BY <1>6, <1>7, <1>8, <1>10, <1>11 DEF RolloutInv

LEMMA RecoveriesKept ==
  ASSUME RolloutInv, NEW c \in Commands, Rollout!Recoveries(c) PROVE RolloutInv'
<1>1. CASE Rollout!Recover(c)
  BY <1>1, StartKept DEF Rollout!Recover, Ats, Rollout!events
<1>2. CASE Rollout!Plan(c)
  BY <1>2, PlanKept
<1>3. CASE Rollout!Look(c) \/ Rollout!Read(c)
  <2>1. PICK at \in {"read", "store"} : Rollout!Move(c, at)
    BY <1>3 DEF Rollout!Look, Rollout!Read
  <2>2. command[c].at \in {"step", "read"} /\ UNCHANGED <<head, fields, cursor, attempts>>
    BY <1>3 DEF Rollout!Look, Rollout!Read, Rollout!events
  <2>3. Shaped(command[c]) /\ command[c].pair \in Pairs
    BY <2>2, CommandOf DEF Shaped
  <2>4. Shaped([command[c] EXCEPT !.at = at]) /\ [command[c] EXCEPT !.at = at].at = at
    <3>1. at \in Ats
      BY DEF Ats
    <3> QED
      BY <2>3, <3>1, Gone
  <2>5. InForce([command[c] EXCEPT !.at = at])
    BY <2>4 DEF InForce
  <2>6. command' = [command EXCEPT ![c] = [command[c] EXCEPT !.at = at]]
    BY <2>1 DEF Rollout!Move
  <2> QED
    BY <2>2, <2>4, <2>5, <2>6, CommandMoves
<1>4. CASE Rollout!Store(c)
  BY <1>4, StoreKept
<1>5. CASE Rollout!Settle(c)
  <2>1. command[c].at = "settle" /\ Rollout!Ends(c, "succeeded")
    BY <1>5 DEF Rollout!Settle
  <2>2. command[c].pair \notin Rollout!Marked
    BY <2>1, CommandOf DEF InForce
  <2> QED
    BY <2>1, <2>2, EndsKept
<1>6. CASE Rollout!StepEnds(c)
  <2>1. PICK status \in Rollout!Verdicts(c) : Rollout!Ends(c, status)
    BY <1>6 DEF Rollout!StepEnds
  <2>2. /\ command[c].at \in {"step", "read", "store"}
        /\ status \in {"failed", "retry", "succeeded"}
        /\ status = "succeeded" => command[c].pair \notin Rollout!Marked
    BY <1>6 DEF Rollout!StepEnds, Rollout!Verdicts
  <2> QED
    BY <2>1, <2>2, EndsKept
<1>7. ASSUME NEW p \in Pairs, Rollout!Take(c, p) PROVE RolloutInv'
  BY <1>7, TakeKept
<1>8. ASSUME NEW p \in Pairs, Rollout!Pass(c, p) PROVE RolloutInv'
  <2> DEFINE todo == command[c].todo \ {p}
  <2>1. Shaped(command[c]) /\ command[c].at = "run"
    BY <1>8, CommandOf DEF Rollout!Pass
  <2>2. todo \in SUBSET Pairs
    BY <2>1 DEF Shaped, Kinds
  <2> HIDE DEF todo
  <2>3. Shaped([command[c] EXCEPT !.todo = todo]) /\ InForce([command[c] EXCEPT !.todo = todo])
    BY <2>1, <2>2, TodoSet DEF InForce
  <2>4. command' = [command EXCEPT ![c] = [command[c] EXCEPT !.todo = todo]]
    BY <1>8 DEF Rollout!Pass, todo
  <2> QED
    BY <1>8, <2>3, <2>4, CommandMoves DEF Rollout!Pass, Rollout!events
<1> QED
  BY <1>1, <1>2, <1>3, <1>4, <1>5, <1>6, <1>7, <1>8 DEF Rollout!Recoveries

\* The application may write until the migration has locked the events.
LEMMA SynchroniseKept ==
  ASSUME RolloutInv, NEW p \in Pairs, Rollout!Synchronise(p) PROVE RolloutInv'
<1>1. PICK f \in {"empty", "unnamed"} : fields' = [fields EXCEPT ![p] = f]
  BY DEF Rollout!Synchronise
<1>2. /\ head = 18 /\ \A c \in Commands : command[c].at # "commit"
      /\ cursor' = [cursor EXCEPT ![p] = "live"] /\ UNCHANGED <<head, attempts, command>>
  BY DEF Rollout!Synchronise
<1>3. /\ \A q \in Pairs : /\ fields'[q] = IF q = p THEN f ELSE fields[q]
                          /\ cursor'[q] = IF q = p THEN "live" ELSE cursor[q]
      /\ fields' \in [Pairs -> {"empty", "unnamed", "v1", "v2"}]
      /\ cursor' \in [Pairs -> {"none", "live", "marked"}]
  BY <1>1, <1>2, RolloutParts DEF TablesTyped
<1>4. TablesTyped' /\ Before' /\ Rollout!LegacyIsMarked'
  BY <1>2, <1>3, RolloutParts DEF TablesTyped, Before, Rollout!LegacyIsMarked
<1>5. OneActive'
  BY <1>2, RolloutParts DEF OneActive, Rollout!ActiveAttempts
<1>6. NoneIsDone'
  BY <1>2, <1>3, RolloutParts DEF NoneIsDone, Rollout!Marked
<1>7. CommandsWork'
  <2>1. \A c \in Commands : command[c].at # "settle"
    BY <1>2, CommandOf DEF InForce
  <2> QED
    BY <1>2, <2>1, RolloutParts DEF CommandsWork, Shaped, Kinds, InForce
<1> QED
  BY <1>4, <1>5, <1>6, <1>7 DEF RolloutInv

LEMMA NextRollout == RolloutInv /\ [Rollout!Next]_rollout => RolloutInv'
<1> SUFFICES ASSUME RolloutInv, [Rollout!Next]_rollout PROVE RolloutInv'
  OBVIOUS
<1>1. CASE Rollout!Tick \/ \E c \in Commands : Rollout!LoseLease(c)
  BY <1>1, TablesStay DEF Rollout!Tick, Rollout!LoseLease, Rollout!events
<1>2. ASSUME NEW p \in Pairs, Rollout!Synchronise(p) PROVE RolloutInv'
  BY <1>2, SynchroniseKept
<1>3. ASSUME NEW p \in Pairs, NEW i \in 1..MaxAttempts, Rollout!Lapse(p, i) PROVE RolloutInv'
  <2>1. i \in DOMAIN attempts[p]
    BY <1>3 DEF Rollout!Lapse
  <2>2. i \in Nat
    BY <2>1, AttemptOf
  <2> QED
    BY <1>3, <2>2, LapseKept
<1>4. ASSUME NEW c \in Commands, Rollout!Crash(c) \/ Rollout!Finish(c) PROVE RolloutInv'
  BY <1>4, ExitKept DEF Rollout!Crash, Rollout!Finish, Rollout!events
<1>5. ASSUME NEW c \in Commands, Rollout!Preflights(c) \/ Rollout!Migrations(c) \/ Rollout!Recoveries(c)
      PROVE  RolloutInv'
  BY <1>5, PreflightsKept, MigrationsKept, RecoveriesKept
<1>6. CASE UNCHANGED rollout
  BY <1>6, TablesStay DEF rollout
<1> QED
  BY <1>1, <1>2, <1>3, <1>4, <1>5, <1>6 DEF Rollout!Next

\* Pairwise equal tasks are one at most.
LEMMA RolloutSafe == RolloutInv => Rollout!LegacyIsMarked /\ Rollout!NextPlanWorks
<1> SUFFICES ASSUME RolloutInv, NEW p \in Pairs
    PROVE  /\ Cardinality(Rollout!ActiveAttempts(p)) <= 1
           /\ p \in Rollout!Marked => \A i \in DOMAIN attempts[p] : attempts[p][i].status # "succeeded"
  BY RolloutParts, RolloutCounts DEF Rollout!NextPlanWorks
<1>1. \A i, j \in Rollout!ActiveAttempts(p) : i = j
  BY RolloutParts DEF OneActive
<1>2. Rollout!ActiveAttempts(p) = {} \/ \E i : Rollout!ActiveAttempts(p) = {i}
  BY <1>1
<1>3. Cardinality(Rollout!ActiveAttempts(p)) <= 1
  <2>1. CASE Rollout!ActiveAttempts(p) = {}
    <3>1. Cardinality(Rollout!ActiveAttempts(p)) = 0
      BY <2>1, FS_EmptySet, Zenon
    <3> QED
      BY <3>1
  <2>2. ASSUME NEW i, Rollout!ActiveAttempts(p) = {i} PROVE Cardinality(Rollout!ActiveAttempts(p)) <= 1
    <3>1. Cardinality(Rollout!ActiveAttempts(p)) = 1
      BY <2>2, FS_Singleton, Zenon
    <3> QED
      BY <3>1
  <2> QED
    BY <1>2, <2>1, <2>2
<1> QED
  BY <1>3, RolloutParts DEF NoneIsDone

-----------------------------------------------------------------------------
(* Maintenance as a whole                                                  *)

\* Each kind leaves alone what the others are about.
LEMMA RolloutInvariance == MCSpec => []RolloutInv
<1>1. MCInit => RolloutInv
  BY InitRollout DEF MCInit
<1>2. RolloutInv /\ [MCNext]_<<schemaVars, backup, rollout, kind>> => RolloutInv'
  <2> SUFFICES ASSUME RolloutInv, [MCNext]_<<schemaVars, backup, rollout, kind>> PROVE RolloutInv'
    OBVIOUS
  <2>1. CASE Rollout!Next
    BY <2>1, NextRollout
  <2>2. CASE UNCHANGED rollout
    BY <2>2, NextRollout
  <2> QED
    BY <2>1, <2>2 DEF MCNext
<1> QED
  BY <1>1, <1>2, PTL DEF MCSpec

LEMMA BackupInvariance == MCSpec => [](Tidy /\ BackupInv)
<1>1. MCInit => Tidy /\ BackupInv
  <2>1. Backup!Init => Tidy
    BY DEF Backup!Init, Tidy, Shapes, Begun
  <2> QED
    BY <2>1, InitBackup DEF MCInit
<1>2. Tidy /\ BackupInv /\ [MCNext]_<<schemaVars, backup, rollout, kind>> => (Tidy /\ BackupInv)'
  <2> SUFFICES ASSUME Tidy, BackupInv, [MCNext]_<<schemaVars, backup, rollout, kind>>
               PROVE  Tidy' /\ BackupInv'
    OBVIOUS
  <2>1. CASE Backup!Next
    BY <2>1, NextBackup, NextTidy
  <2>2. CASE UNCHANGED backup
    <3>1. day' \in Nat /\ UNCHANGED <<lock, flock, run, local, remote>>
      BY <2>2, BackupParts DEF backup, BackupTyped
    <3>2. UNCHANGED <<local, astray>>
      BY <2>2 DEF backup
    <3> QED
      BY <3>1, <3>2, BackupStays, TidyStays
  <2> QED
    BY <2>1, <2>2 DEF MCNext
<1> QED
  BY <1>1, <1>2, PTL DEF MCSpec

\* publish_backup_group and what clears away: marker last, and marker first.  Alone it is
\* on a host only where a file failed to be removed or put back.
THEOREM MarkerIsWholeHolds == MCSpec => []MarkerIsWhole
<1>1. Tidy /\ BackupInv => MarkerIsWhole
  BY BackupSafe DEF MarkerIsWhole
<1> QED
  BY <1>1, BackupInvariance, PTL

\* Retention and a run that fails take nothing from the newest group.
THEOREM NewestStaysHolds == MCSpec => []NewestStays
<1>1. Tidy /\ BackupInv => NewestStays
  BY BackupSafe DEF NewestStays
<1> QED
  BY <1>1, BackupInvariance, PTL

\* No event that 0019 found sealed is without a mark before it has been read again.
THEOREM LegacyIsMarkedHolds == MCSpec => []LegacyIsMarked
<1>1. RolloutInv => LegacyIsMarked
  BY RolloutSafe DEF LegacyIsMarked
<1> QED
  BY <1>1, RolloutInvariance, PTL

\* The compare-and-swap of mark and task leaves no succeeded task behind a mark, and never
\* two that are active.
THEOREM NextPlanWorksHolds == MCSpec => []NextPlanWorks
<1>1. RolloutInv => NextPlanWorks
  BY RolloutSafe DEF NextPlanWorks
<1> QED
  BY <1>1, RolloutInvariance, PTL

\* Whatever a behaviour of the composition maintains, its schema is migrated as an upgrade
\* migrates it, so that the theorems about upgrades hold of it.
THEOREM CompositionMigrates == MCSpec => Spec
<1>1. MCInit => Init
  BY DEF MCInit
<1>2. [MCNext]_<<schemaVars, backup, rollout, kind>> => [Next]_schemaVars
  BY Zenon DEF MCNext
<1> QED
  BY <1>1, <1>2, PTL DEF MCSpec, Spec
=============================================================================
