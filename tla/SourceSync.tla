----------------------------- MODULE SourceSync -----------------------------
(***************************************************************************)
(* The synchronisation of one account: the folders of a mailbox, or the    *)
(* calendars of a directory, are read scope by scope, each from a cursor   *)
(* of its own, into the local rows.                                        *)
(*                                                                         *)
(* All reads of the provider happen outside transactions; what was read is *)
(* stored by one transaction that compares the cursor with the one that    *)
(* the read started from.  Every change at the provider has a number: the  *)
(* version of the changed object, the token of a page chain (everything up *)
(* to it has been told) and what the cursor holds.  The number 0 is a      *)
(* cursor that is empty.                                                   *)
(*                                                                         *)
(* A message can move between folders and takes a new version with it; an  *)
(* event stays in its calendar, whose visibility and role the directory    *)
(* records.  Gmail is read as one scope, and its history of additions and  *)
(* labels never tells that a message was deleted.  The reach of seven days *)
(* of a first read is not modelled.                                        *)
(***************************************************************************)
EXTENDS Integers, FiniteSets, FiniteSetsExt

CONSTANTS
  Objects,    \* messages or events
  Scopes,     \* folders or calendars
  Home,       \* the calendar of the events, the one scope of Gmail
  Shared,     \* bound: calendars that come, go, change their role and are read
  Sessions,   \* runs of the synchronisation
  None,
  MaxChange,  \* bound: changes at the provider
  MaxRevision \* bound: stored directories

ASSUME ConstantsAssumption ==
  /\ Home \in Scopes /\ Shared \subseteq Scopes
  /\ None \notin Scopes \cup {"none", "reader", "writer"}
  /\ MaxChange \in Nat \ {0} /\ MaxRevision \in Nat

VARIABLES
  kind,      \* "gmail", "outlook" or "calendar"
  full,      \* calendar: the provider only gives whole directories
  now,       \* the number of the last change at the provider
  at,        \* where each object is, None if deleted, and its version
  role,      \* calendar: what the account may do, and since when
  row,       \* EmailMessageModel, CalendarEventModel
  cursor,    \* SyncCursorModel of each scope
  dir,       \* ProviderCalendarModel
  directory, \* SyncCursorModel of the directory: its cursor and revision
  known,     \* history: the newest directory ever stored
  resynced,  \* history: scopes that lost their cursor
  ses

local == <<row, cursor, dir, directory, known, resynced>>
remote == <<now, at, role>>
vars == <<kind, full, remote, local, ses>>

-----------------------------------------------------------------------------
NoRow == [scope |-> None, version |-> 0, edit |-> FALSE]
Idle == [op |-> "none", scope |-> None, expected |-> 0, revision |-> 0,
         got |-> None, next |-> 0]
Roles == {"none", "reader", "writer"}

Init ==
  /\ kind \in {"gmail", "outlook", "calendar"}
  /\ full \in IF kind = "calendar" THEN BOOLEAN ELSE {FALSE}
  /\ now = 0
  /\ at = [o \in Objects |-> [scope |-> None, version |-> 0]]
  /\ role = [s \in Scopes |-> [is |-> IF kind = "calendar" /\ s \in Shared THEN "none" ELSE "reader", since |-> 0]]
  /\ row = [o \in Objects |-> NoRow]
  /\ cursor = [s \in Scopes |-> 0]
  /\ dir = [s \in Scopes |-> "none"]
  /\ directory = [cursor |-> 0, revision |-> 0]
  /\ known = 0 /\ resynced = {}
  /\ ses = [x \in Sessions |-> Idle]

-----------------------------------------------------------------------------
(* The provider and the connection                                         *)

\* An object appears, changes, moves or is deleted.
Change(o, s) ==
  /\ now < MaxChange
  /\ s = None => at[o].scope # None
  /\ kind # "outlook" => s \in {Home, None}
  /\ now' = now + 1 /\ at' = [at EXCEPT ![o] = [scope |-> s, version |-> now + 1]]
  /\ UNCHANGED <<kind, full, role, local, ses>>

\* A calendar is shared with the account, in some role, or no longer.
Share(s, r) ==
  /\ kind = "calendar" /\ now < MaxChange /\ r # role[s].is
  /\ now' = now + 1 /\ role' = [role EXCEPT ![s] = [is |-> r, since |-> now + 1]]
  /\ UNCHANGED <<kind, full, at, local, ses>>

-----------------------------------------------------------------------------
(* Sessions                                                                *)

Free(x) == ses[x].op = "none"
Keep(x, value) ==
  /\ ses' = [ses EXCEPT ![x] = value]
  /\ UNCHANGED <<kind, full, remote>>
Abort(x) == Keep(x, Idle) /\ UNCHANGED local

\* A run fails, is lost or loses its lease.  So does one whose user, connection
\* or capability a transaction does not find active any more.
Crash(x) == ~Free(x) /\ Abort(x)

\* get_state: the cursor of a scope that may be read.
LoadFolder(x, s) ==
  /\ Free(x) /\ kind # "calendar" /\ (kind = "gmail" => s = Home)
  /\ Keep(x, [Idle EXCEPT !.op = "loaded", !.scope = s, !.expected = cursor[s]])
  /\ UNCHANGED local

\* The directory has to list the calendar.
Syncable(s) == dir[s] # "none"
LoadCalendar(x, s) ==
  /\ Free(x) /\ kind = "calendar" /\ Syncable(s)
  /\ Keep(x, [Idle EXCEPT !.op = "loaded", !.scope = s, !.expected = cursor[s]])
  /\ UNCHANGED local

\* What is told of an object: the version that is in the scope now, that it is
\* gone from there (moved or deleted), or nothing.
Gone == -1
Silent == 0

\* messagesDeleted is never read of the history of Gmail.
TellsRemovals == kind # "gmail"

\* With an empty cursor a page chain lists the scope, otherwise what has changed
\* in it since.
Told(s, since) ==
  [o \in Objects |->
     IF at[o].version <= since THEN Silent
     ELSE IF at[o].scope = s THEN at[o].version
     ELSE IF since > 0 /\ TellsRemovals THEN Gone ELSE Silent]

\* The pages up to the last one, which brings the next cursor.
Fetched(x) ==
  /\ now > 0
  /\ Keep(x, [ses[x] EXCEPT !.op = "fetched", !.next = now,
                            !.got = Told(ses[x].scope, ses[x].expected)])
  /\ UNCHANGED local

ReadsFolder(x) == kind # "calendar" /\ ses[x].op = "loaded"
ReadsCalendar(x) == kind = "calendar" /\ ses[x].op = "loaded"

FetchFolder(x) == ReadsFolder(x) /\ Fetched(x)

\* A calendar that is not shared any more cannot be read.
FetchCalendar(x) ==
  ReadsCalendar(x) /\ role[ses[x].scope].is # "none" /\ Fetched(x)

\* The provider does not know the cursor any more; it is emptied if it still is
\* the one that was used, and the read starts again.
Cleared(x) ==
  LET s == ses[x].scope
  IN /\ ses[x].expected > 0
     /\ cursor[s] = ses[x].expected
     /\ cursor' = [cursor EXCEPT ![s] = 0] /\ resynced' = resynced \cup {s}
     /\ Keep(x, [ses[x] EXCEPT !.expected = 0])
     /\ UNCHANGED <<row, dir, directory, known>>

\* clear_cursor.
ExpireFolder(x) == ReadsFolder(x) /\ Cleared(x)
ExpireCalendar(x) == ReadsCalendar(x) /\ Syncable(ses[x].scope) /\ Cleared(x)

\* Variant: the cursor is written whatever it is.
UnmovedAlways(x) == cursor[ses[x].scope] \in 0..MaxChange

\* The compare-and-set of finish_sync.
Unmoved(x) == cursor[ses[x].scope] = ses[x].expected

-----------------------------------------------------------------------------
(* Mail                                                                    *)

\* _incoming_projection_is_newer.
Newer(o, version) == row[o].scope = None \/ version > row[o].version

\* A tombstone is for the row that still is in that folder.
Buried(o, s) == row[o].scope = s

\* upsert_message.
MessageRow(s, version) == [scope |-> s, version |-> version, edit |-> FALSE]

\* The rows of the pages and finish_sync, all or nothing.
CommitFolder(x) ==
  LET s == ses[x].scope
      got == ses[x].got
  IN /\ ses[x].op = "fetched" /\ kind # "calendar" /\ Unmoved(x)
     /\ row' = [o \in Objects |->
          CASE got[o] > 0 /\ Newer(o, got[o]) -> MessageRow(s, got[o])
            [] got[o] = Gone /\ Buried(o, s) -> NoRow
            [] OTHER -> row[o]]
     /\ cursor' = [cursor EXCEPT ![s] = ses[x].next]
     /\ Keep(x, Idle) /\ UNCHANGED <<dir, directory, known, resynced>>

-----------------------------------------------------------------------------
(* Calendar                                                                *)

\* upsert_event takes the role from the directory.
MayEdit(s) == dir[s] = "writer"
EventRow(s, version) == [scope |-> s, version |-> version, edit |-> MayEdit(s)]

\* A tombstone cancels the row of that calendar; the cancelled row, which nobody
\* may change, is no row here.
Removed(o, s) == row[o].scope = s

CommitCalendar(x) ==
  LET s == ses[x].scope
      got == ses[x].got
  IN /\ ses[x].op = "fetched" /\ kind = "calendar" /\ Syncable(s) /\ Unmoved(x)
     /\ row' = [o \in Objects |->
          CASE got[o] > 0 -> EventRow(s, got[o])
            [] got[o] = Gone /\ Removed(o, s) -> NoRow
            [] OTHER -> row[o]]
     /\ cursor' = [cursor EXCEPT ![s] = ses[x].next]
     /\ Keep(x, Idle) /\ UNCHANGED <<dir, directory, known, resynced>>

\* The directory and its revision, before it is read.
LoadDirectory(x) ==
  /\ Free(x) /\ kind = "calendar"
  /\ Keep(x, [Idle EXCEPT !.op = "directory", !.expected = directory.cursor,
                          !.revision = directory.revision])
  /\ UNCHANGED local

\* The whole list, or what has changed in it since.
FetchDirectory(x) ==
  /\ ses[x].op = "directory" /\ now > 0
  /\ LET whole == full \/ ses[x].expected = 0
     IN Keep(x, [ses[x] EXCEPT !.op = "listed", !.next = now,
          !.got = [s \in Scopes |->
             IF whole \/ role[s].since > ses[x].expected THEN role[s].is ELSE None]])
  /\ UNCHANGED local

ExpireDirectory(x) ==
  /\ ses[x].op = "directory" /\ ses[x].expected > 0
  /\ directory.cursor = ses[x].expected
  /\ directory' = [directory EXCEPT !.cursor = 0]
  /\ Keep(x, [ses[x] EXCEPT !.expected = 0])
  /\ UNCHANGED <<row, cursor, dir, known, resynced>>

\* Variant: without a token there is nothing to compare.
CursorUnmoved(x) == directory.cursor = ses[x].expected

\* Both the token and the revision are those of before the read.
DirectoryUnmoved(x) ==
  directory.cursor = ses[x].expected /\ directory.revision = ses[x].revision

\* What the directory is after the list: what it does not tell stays.
Listed(x) == [s \in Scopes |-> IF ses[x].got[s] = None THEN dir[s] ELSE ses[x].got[s]]

\* A lower role takes effect on the stored events at once, a higher one only
\* when they are read again.
Tightened(o, roles) == row[o].edit /\ roles[row[o].scope] = "writer"

\* Variant: every calendar keeps its cursor.
NeverReappeared(roles) == {s \in Scopes : dir[s] = "none" /\ roles[s] = "none"}

\* Calendars that the directory did not list and lists now.
Reappeared(roles) == {s \in Scopes : dir[s] = "none" /\ roles[s] # "none"}

\* mark_directory_success.
CommitDirectory(x) ==
  LET roles == Listed(x)
  IN /\ ses[x].op = "listed" /\ DirectoryUnmoved(x)
     /\ directory.revision < MaxRevision
     /\ dir' = roles
     /\ row' = [o \in Objects |->
          IF row[o].scope = None \/ roles[row[o].scope] = "none" THEN NoRow
          ELSE [row[o] EXCEPT !.edit = Tightened(o, roles)]]
     /\ cursor' = [s \in Scopes |-> IF s \in Reappeared(roles) THEN 0 ELSE cursor[s]]
     /\ directory' = [cursor |-> IF full THEN 0 ELSE ses[x].next,
                      revision |-> directory.revision + 1]
     /\ known' = Max({known, ses[x].next})
     /\ Keep(x, Idle) /\ UNCHANGED resynced

-----------------------------------------------------------------------------
Next ==
  \/ \E o \in Objects, s \in Scopes \cup {None} : Change(o, s)
  \/ \E s \in Shared, r \in Roles : Share(s, r)
  \/ \E x \in Sessions :
       \/ \E s \in Scopes : LoadFolder(x, s)
       \/ \E s \in Shared : LoadCalendar(x, s)
       \/ FetchFolder(x) \/ ExpireFolder(x) \/ CommitFolder(x)
       \/ FetchCalendar(x) \/ ExpireCalendar(x) \/ CommitCalendar(x)
       \/ LoadDirectory(x) \/ FetchDirectory(x) \/ ExpireDirectory(x) \/ CommitDirectory(x)
       \/ Crash(x)

Spec == Init /\ [][Next]_vars

-----------------------------------------------------------------------------
(* Properties                                                              *)

Visible(s) == kind = "calendar" => dir[s] # "none"

\* Nothing is lost: what the cursor of a scope has passed and has not changed
\* since is stored, in that scope and in that version, whatever runs, moves
\* between folders, expired cursors and vanishing calendars came in between.
PassedIsStored ==
  \A o \in Objects, s \in Scopes :
    Visible(s) /\ at[o].scope = s /\ at[o].version <= cursor[s]
      => row[o].scope = s /\ row[o].version = at[o].version

\* Nothing lingers: a row of Microsoft's mailboxes and of the calendars leaves with
\* the cursor that has passed its removal.  Only a scope that has lost its cursor
\* may keep what was removed meanwhile.  Of Gmail nothing of the kind is true: what
\* is deleted there is never read, and its row stays until retention takes it.
RemovedIsGone ==
  kind # "gmail" => \A o \in Objects, s \in Scopes \ resynced :
    at[o].scope # s /\ at[o].version <= cursor[s] => row[o].scope # s

\* The directory never goes back: what was changed before the newest stored
\* list is as the provider has it.
DirectoryIsNewest ==
  kind = "calendar" =>
    \A s \in Scopes : known > 0 /\ role[s].since <= known => dir[s] = role[s].is
=============================================================================
