------------------------- MODULE BackupPublication -------------------------
(***************************************************************************)
(* The publication of backups: a group of three files, the dump, its       *)
(* checksum and the manifest that marks the group as whole, in a directory *)
(* of the host and in a remote place that all hosts share.                 *)
(*                                                                         *)
(* A run holds the locks of the database on one connection and the lock of *)
(* its directory.  It looks at them before a step and can lose those of    *)
(* the database behind its back.  Whatever fails is taken back, marker     *)
(* first; whoever dies leaves its files, for later runs to clear away once *)
(* they are old.  On a host taking back and clearing away can fail file by *)
(* file, and go on with the others.  Days stand for all time there is.     *)
(***************************************************************************)
EXTENDS Integers, FiniteSets

CONSTANTS
  Hosts, Nowhere,
  MaxRuns,    \* bound: runs, numbered as they begin
  Daily,      \* how many days keep a backup
  Weekly,     \* how many weeks before those keep one
  DaysPerWeek,
  MaxDay,     \* bound: days
  MaxFailures \* bound: failures, crashes, cancellations and lost connections

Runs == 1..MaxRuns

\* In the order of their publication.
Members == <<"dump", "checksum", "manifest">>
Whole == {"dump", "checksum", "manifest"}

VARIABLES
  day,
  lock,         \* management, target and backup lock, on one connection
  flock,        \* of the directory of a host
  run,
  staged,       \* files in the private directory of a run, which is one of them
  local,        \* files that a run has published on its host
  astray,       \* history: those that failed to be removed, or to be put back
  remote,       \* files that a run has published for all
  failures

files == <<staged, local, astray, remote>>
backupVars == <<day, lock, flock, run, files, failures>>

-----------------------------------------------------------------------------
\* keeps: the local group stays though the remote one has failed; wrote: the day of the last file;
\* spoilt: a lock was lost, or what should be taken back was not.
Unborn == [at |-> "idle", host |-> Nowhere, sealed |-> FALSE, created |-> 0, wrote |-> 0,
           sent |-> 0, cancelled |-> FALSE, keeps |-> FALSE, victim |-> 0,
           cleans |-> FALSE, spoilt |-> FALSE]

Init ==
  /\ day = 0 /\ lock = 0 /\ flock = [h \in Hosts |-> 0]
  /\ run = [r \in Runs |-> Unborn]
  /\ staged = [r \in Runs |-> {}] /\ local = [r \in Runs |-> {}] /\ astray = [r \in Runs |-> {}]
  /\ remote = [r \in Runs |-> {}]
  /\ failures = 0

Failure == failures < MaxFailures /\ failures' = failures + 1

NewDay ==
  /\ day < MaxDay /\ day' = day + 1
  /\ UNCHANGED <<lock, flock, run, files, failures>>

\* Ordinary runs are named by their time, sealed ones by the window they are for.
Name(r) == IF run[r].sealed THEN 0 ELSE r

Neighbours(r) == {o \in Runs \ {r} : run[o].host = run[r].host}

-----------------------------------------------------------------------------
(* A run                                                                   *)

Live(r) == lock = r

\* _fresh: with the locks the schema is what it was, as a migration takes them, too.
Fresh(r) == Live(r)

Set(r, field, value) == run' = [run EXCEPT ![r] = [@ EXCEPT ![field] = value]]

Go(r, at) == Set(r, "at", at)

Kept == UNCHANGED <<day, lock, flock>>

\* run_backup: both locks, and nothing there of this name.
Begin(r, h, sealed) ==
  /\ run[r].at = "idle" /\ (r > 1 => run[r - 1].at # "idle")
  /\ lock = 0 /\ flock[h] = 0
  /\ run' = [run EXCEPT ![r] = [Unborn EXCEPT !.at = "produce", !.host = h, !.sealed = sealed,
                                              !.wrote = day]]
  /\ \A o \in Runs \ {r} : run[o].host = h /\ sealed /\ run[o].sealed => local[o] = {}
  /\ lock' = r /\ flock' = [flock EXCEPT ![h] = r]
  /\ staged' = [staged EXCEPT ![r] = {"directory"}]
  /\ UNCHANGED <<day, local, astray, remote, failures>>

\* export_backup_snapshot: the dump will be of this day.
Snapshot(r) ==
  /\ run[r].at = "produce" /\ Live(r)
  /\ run' = [run EXCEPT ![r] = [@ EXCEPT !.at = "dump", !.created = day]]
  /\ Kept /\ UNCHANGED <<files, failures>>

\* pg_dump through that snapshot.
Dump(r) ==
  /\ run[r].at = "dump" /\ Live(r)
  /\ run' = [run EXCEPT ![r] = [@ EXCEPT !.at = "seal", !.wrote = day]]
  /\ staged' = [staged EXCEPT ![r] = @ \cup {"dump"}]
  /\ Kept /\ UNCHANGED <<local, astray, remote, failures>>

\* write_backup_group, and what is looked at before a name becomes public.
Seal(r) ==
  /\ run[r].at = "seal" /\ Fresh(r) /\ ~run[r].cancelled
  /\ staged' = [staged EXCEPT ![r] = @ \cup Whole]
  /\ Go(r, "link") /\ Kept /\ UNCHANGED <<local, astray, remote, failures>>

\* Variant: the marker comes first.
MarkerFirst(there) == Members[3 - Cardinality(there)]

\* The member that follows those that are there.
Following(there) == Members[Cardinality(there) + 1]

\* publish_backup_group: links that never replace a file, each of them by itself.
Link(r) ==
  /\ run[r].at = "link" /\ local[r] # Whole
  /\ \A o \in Neighbours(r) : Name(o) = Name(r) => Following(local[r]) \notin local[o]
  /\ local' = [local EXCEPT ![r] = @ \cup {Following(@)}]
  /\ run' = [run EXCEPT ![r].wrote = day]
  /\ Kept /\ UNCHANGED <<staged, astray, remote, failures>>

\* publish_remote_backup asks whether the name is taken.
Compare(r) ==
  /\ run[r].at = "link" /\ local[r] = Whole /\ Live(r) /\ ~run[r].cancelled
  /\ \A o \in Runs \ {r} : Name(o) = Name(r) => remote[o] = {}
  /\ Go(r, "copy") /\ Kept /\ UNCHANGED <<files, failures>>

Collides(r) ==
  /\ run[r].at = "link" /\ local[r] = Whole
  /\ \E o \in Runs \ {r} : Name(o) = Name(r) /\ remote[o] # {}

\* The members this run has sent so far.
Sent(r) == {Members[i] : i \in 1..run[r].sent}

\* The lock may be lost since it was looked at.
Copy(r) ==
  /\ run[r].at = "copy"
  /\ run' = [run EXCEPT ![r] = [@ EXCEPT !.at = "check", !.sent = run[r].sent + 1,
                                             !.wrote = day]]
  /\ remote' = [remote EXCEPT ![r] = @ \cup {Members[run[r].sent + 1]}]
  /\ Kept /\ UNCHANGED <<staged, local, astray, failures>>

\* Variant: dump and checksum are enough.
TwoSent(r) == run[r].sent >= 2

AllSent(r) == Sent(r) = Whole

\* The inventory is read after every copy.
Check(r) ==
  /\ run[r].at = "check" /\ remote[r] = Sent(r)
  /\ \/ AllSent(r) /\ Go(r, "retain")
     \/ ~AllSent(r) /\ Live(r) /\ Go(r, "copy")
  /\ Kept /\ UNCHANGED <<files, failures>>

\* An ordinary run keeps its local group, a sealed or a cancelled one does not.
Keeps(r) == ~run[r].sealed /\ ~run[r].cancelled

\* The remote part fails: a name that is taken, a lost lock, files of somebody else,
\* or a command whose answer is an error, whether or not it has copied.
RemoteFails(r) ==
  /\ run' = [run EXCEPT ![r] = [@ EXCEPT !.at = "undo", !.keeps = Keeps(r)]]
  /\ \/ Collides(r) /\ UNCHANGED <<remote, failures>>
     \/ /\ run[r].at = "link" /\ local[r] = Whole /\ ~Live(r)
        /\ UNCHANGED <<remote, failures>>
     \/ /\ run[r].at = "check" /\ (remote[r] # Sent(r) \/ (~AllSent(r) /\ ~Live(r)))
        /\ UNCHANGED <<remote, failures>>
     \/ /\ run[r].at = "copy" /\ Failure
        /\ remote' \in {remote, [remote EXCEPT ![r] = @ \cup {Members[run[r].sent + 1]}]}
  /\ Kept /\ UNCHANGED <<staged, local, astray>>

-----------------------------------------------------------------------------
(* Retention and leftovers                                                 *)

Latest(n, S) == {x \in S : Cardinality({y \in S : y > x}) < n}

Week(d) == d \div DaysPerWeek

\* retained_backup_names: the newest backup of each of the last days that have one,
\* and of each of the last weeks before them.
Retained(S) ==
  LET dayOf(g) == run[g].created
      days == Latest(Daily, {dayOf(g) : g \in S})
      before == {g \in S : dayOf(g) \notin days}
      weeks == Latest(Weekly, {Week(dayOf(g)) : g \in before})
  IN {g \in S \ before : dayOf(g) \in days /\ \A o \in S : dayOf(o) = dayOf(g) => o <= g}
     \cup {g \in before : /\ Week(dayOf(g)) \in weeks
                          /\ \A o \in before : Week(dayOf(o)) = Week(dayOf(g)) => o <= g}

Old(o) == run[o].wrote < day

Expired(place, r, o) ==
  /\ o # r
  /\ \/ /\ place[o] = Whole
        /\ o \notin Retained({g \in Runs : place[g] = Whole /\
                                (place = remote \/ g \notin Runs \ ({r} \cup Neighbours(r)))})
     \/ place[o] # {} /\ "manifest" \notin place[o] /\ Old(o)

\* On the host a sealed group that is not whole stays for somebody to look at.
Clearable(r) ==
  {o \in Neighbours(r) : Expired(local, r, o) /\ (local[o] = Whole \/ Name(o) # 0)}

\* The private directory of a run that is gone, unless its group is public.
Orphans(r) ==
  {o \in Neighbours(r) : staged[o] # {} /\ Old(o) /\ "manifest" \notin local[o]}

\* The group is there, remotely, too.
Retain(r) ==
  /\ run[r].at = "retain" /\ Fresh(r) /\ ~run[r].cancelled
  /\ run' = [run EXCEPT ![r] = [@ EXCEPT !.at = "clean", !.sent = 0, !.cleans = TRUE]]
  /\ Kept /\ UNCHANGED <<files, failures>>

\* cleanup_local_backups, one group or directory at a time, captured as a whole.
CleanLocal(r) ==
  /\ run[r].at = "clean" /\ Live(r)
  /\ \/ \E o \in Clearable(r) : local' = [local EXCEPT ![o] = {}] /\ UNCHANGED staged
     \/ /\ Clearable(r) = {}
        /\ \E o \in Orphans(r) : staged' = [staged EXCEPT ![o] = {}] /\ UNCHANGED local
  /\ Kept /\ UNCHANGED <<run, astray, remote, failures>>

\* The marker first.
Removed(there) ==
  there \ (IF "manifest" \in there THEN {"manifest"}
           ELSE IF "dump" \in there THEN {"dump"} ELSE {"checksum"})

\* Whoever dies while capturing a group has taken the marker first.
CleaningDies(r) ==
  /\ run[r].at = "clean" /\ Live(r) /\ Failure
  /\ \E o \in Clearable(r) :
       \E left \in {Removed(local[o]), Removed(Removed(local[o])), {}} :
         local' = [local EXCEPT ![o] = left]
  /\ run' = [run EXCEPT ![r].at = "dead"]
  /\ lock' = 0 /\ flock' = [flock EXCEPT ![run[r].host] = 0]
  /\ UNCHANGED <<day, staged, astray, remote>>

\* A failure on the way: what is not deleted yet is put back in any order, and whatever
\* of it cannot be put back stays away, the others come back.
CleaningFails(r) ==
  /\ run[r].at = "clean" /\ Live(r) /\ Failure
  /\ \E o \in Clearable(r) :
       \E lost \in (SUBSET local[o]) \ {{}} :
         /\ local' = [local EXCEPT ![o] = @ \ lost]
         /\ astray' = [astray EXCEPT ![o] = @ \cup lost]
  /\ Go(r, "discard") /\ Kept /\ UNCHANGED <<staged, remote>>

\* cleanup_remote_backups, one group at a time.
PickRemote(r) ==
  /\ run[r].at = "clean" /\ Live(r) /\ Clearable(r) \cup Orphans(r) = {}
  /\ \E o \in Runs : /\ Expired(remote, r, o)
                     /\ run' = [run EXCEPT ![r] = [@ EXCEPT !.at = "delete", !.victim = o]]
  /\ Kept /\ UNCHANGED <<files, failures>>

\* discard_remote_backup, file by file.
DeleteRemote(r) ==
  LET o == run[r].victim IN
  /\ run[r].at = "delete" /\ Live(r) /\ remote[o] # {}
  /\ remote' = [remote EXCEPT ![o] = Removed(@)]
  /\ IF remote'[o] = {} THEN Go(r, "clean") ELSE UNCHANGED run
  /\ Kept /\ UNCHANGED <<staged, local, astray, failures>>

-----------------------------------------------------------------------------
(* The end                                                                 *)

\* Locks and private directory go with the run.
Ends(r, at) ==
  /\ run' = [run EXCEPT ![r].at = at]
  /\ lock' = (IF Live(r) THEN 0 ELSE lock) /\ flock' = [flock EXCEPT ![run[r].host] = 0]
  /\ staged' = [staged EXCEPT ![r] = {}]
  /\ UNCHANGED <<day, local, astray, remote>>

Succeed(r) ==
  /\ run[r].at = "clean" /\ Fresh(r) /\ ~run[r].cancelled
  /\ Clearable(r) \cup Orphans(r) = {} /\ {o \in Runs : Expired(remote, r, o)} = {}
  /\ Ends(r, "done") /\ UNCHANGED failures

\* A lost lock, another schema, a failure, or the cancellation that had to wait.
Fails(r) ==
  /\ \/ (~Fresh(r) \/ run[r].cancelled) /\ UNCHANGED failures
     \/ Failure
  /\ \/ run[r].at \in {"produce", "dump", "seal"} /\ Go(r, "end")
     \/ run[r].at = "link" /\ failures' # failures /\ Go(r, "unlink")
     \/ /\ \/ run[r].at \in {"retain", "clean", "delete"}
           \/ run[r].at = "link" /\ local[r] = Whole /\ run[r].cancelled
        /\ Go(r, "discard")
  /\ Kept /\ UNCHANGED files

\* discard: nothing is taken back without the locks.
Discard(r) ==
  /\ run[r].at = "discard"
  /\ Go(r, IF Live(r) THEN "withdraw" ELSE "end")
  /\ Kept /\ UNCHANGED <<files, failures>>

\* The remote files of a run that fails.  What was not sent by it stays, and so does
\* everything without the locks.
Undo(r) ==
  /\ run[r].at \in {"undo", "withdraw"} /\ remote[r] # {} /\ Live(r)
  /\ remote' = [remote EXCEPT ![r] = Removed(@)]
  /\ Kept /\ UNCHANGED <<run, staged, local, astray, failures>>

\* A withdrawal goes on with the local files whatever became of the remote ones.
Undone(r) ==
  /\ run[r].at \in {"undo", "withdraw"}
  /\ \/ remote[r] = {} /\ UNCHANGED failures
     \/ ~Live(r) /\ UNCHANGED failures
     \/ remote[r] # {} /\ Failure
  /\ run' = [run EXCEPT ![r] =
       [@ EXCEPT !.at = IF run[r].at = "undo" /\ (run[r].keeps \/ ~Live(r)) THEN "end"
                         ELSE "unlink",
                 !.spoilt = run[r].spoilt \/ remote[r] # {}]]
  /\ Kept /\ UNCHANGED files

\* discard_backup_publication: a file that cannot be removed is passed over.
Unlink(r) ==
  LET left == local[r] \ astray[r]
      next == left \ Removed(left)
  IN /\ run[r].at = "unlink"
     /\ \/ left = {} /\ Go(r, "end") /\ UNCHANGED <<local, astray, failures>>
        \/ /\ left # {} /\ local' = [local EXCEPT ![r] = @ \ next]
           /\ UNCHANGED <<run, astray, failures>>
        \/ /\ left # {} /\ Failure /\ astray' = [astray EXCEPT ![r] = @ \cup next]
           /\ UNCHANGED <<run, local>>
     /\ Kept /\ UNCHANGED <<staged, remote>>

End(r) == run[r].at = "end" /\ Ends(r, "failed") /\ UNCHANGED failures

Active(r) == run[r].at \notin {"idle", "done", "failed", "dead"}

\* SIGTERM: what is on its way is waited for.
Cancel(r) ==
  /\ run[r].at \in {"seal", "link", "copy", "check", "retain", "clean"} /\ ~run[r].cancelled
  /\ Failure /\ Set(r, "cancelled", TRUE)
  /\ Kept /\ UNCHANGED files

Crash(r) ==
  /\ Active(r) /\ Failure
  /\ Go(r, "dead")
  /\ lock' = (IF Live(r) THEN 0 ELSE lock) /\ flock' = [flock EXCEPT ![run[r].host] = 0]
  /\ UNCHANGED <<day, files>>

\* The connection dies, and the run does not know.
LoseLock(r) ==
  /\ Active(r) /\ Live(r) /\ Failure
  /\ lock' = 0 /\ Set(r, "spoilt", TRUE)
  /\ UNCHANGED <<day, flock, files>>

-----------------------------------------------------------------------------
Step(r) ==
  \/ Snapshot(r) \/ Dump(r) \/ Seal(r) \/ Link(r) \/ Compare(r) \/ Copy(r) \/ Check(r)
  \/ RemoteFails(r) \/ Retain(r) \/ CleanLocal(r) \/ CleaningDies(r) \/ CleaningFails(r)
  \/ PickRemote(r) \/ DeleteRemote(r) \/ Succeed(r) \/ Fails(r) \/ Discard(r) \/ Undo(r) \/ Undone(r)
  \/ Unlink(r) \/ End(r) \/ Cancel(r) \/ Crash(r) \/ LoseLock(r)

Next ==
  \/ NewDay
  \/ \E r \in Runs : Step(r) \/ \E h \in Hosts, sealed \in BOOLEAN : Begin(r, h, sealed)

Spec == Init /\ [][Next]_backupVars

-----------------------------------------------------------------------------
(* Properties                                                              *)

TypeOK ==
  /\ day \in 0..MaxDay
  /\ lock \in Runs \cup {0} /\ flock \in [Hosts -> Runs \cup {0}]
  /\ local \in [Runs -> SUBSET Whole] /\ astray \in [Runs -> SUBSET Whole]
  /\ remote \in [Runs -> SUBSET Whole]
  /\ staged \in [Runs -> SUBSET (Whole \cup {"directory"})]
  /\ failures \in 0..MaxFailures

\* A manifest marks a whole group: wherever one is public, the other two files are
\* there, whoever died or was clearing away.  It may be alone on a host only where a
\* file failed to be removed or put back, and remotely only where a run sent files
\* whose lock it had lost or failed to take back what it had sent.
MarkerIsWhole ==
  \A r \in Runs :
    /\ "manifest" \in local[r] /\ astray[r] = {} => local[r] = Whole
    /\ "manifest" \in remote[r] /\ ~run[r].spoilt => remote[r] = Whole

\* After a run that succeeded its group is whole on its host and remotely, and stays so
\* until a later run has published a group of its own and clears away.
NewestStays ==
  \A r \in Runs : run[r].at = "done" /\ (\A o \in Runs : o > r => ~run[o].cleans) =>
    local[r] = Whole /\ remote[r] = Whole
=============================================================================
