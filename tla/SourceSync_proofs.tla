------------------------- MODULE SourceSync_proofs -------------------------
(***************************************************************************)
(* Proofs about SourceSync, for any objects, scopes and sessions and any   *)
(* number of changes.                                                      *)
(*                                                                         *)
(* What a run has fetched grows old while it holds it.  The invariant says *)
(* what stays true of it: of every object that has not changed since the   *)
(* fetch it tells exactly what it should, and of the others nothing that   *)
(* is newer than the provider.                                             *)
(***************************************************************************)
EXTENDS SourceSync, TLAPS

-----------------------------------------------------------------------------
(* The invariant                                                           *)

Places == [scope : Scopes \cup {None}, version : Nat]
Grants == [is : Roles, since : Nat]
Rows == [scope : Scopes \cup {None}, version : Nat, edit : BOOLEAN]
Tellings == [Objects -> Nat \cup {Gone}]
Lists == [Scopes -> Roles \cup {None}]
Runs == [op : {"none", "loaded", "fetched", "directory", "listed"}, scope : Scopes \cup {None},
         expected : Nat, revision : Nat, got : {None} \cup Tellings \cup Lists, next : Nat]

Typed ==
  /\ kind \in {"gmail", "outlook", "calendar"} /\ full \in BOOLEAN /\ now \in Nat
  /\ at \in [Objects -> Places] /\ role \in [Scopes -> Grants]
  /\ row \in [Objects -> Rows] /\ cursor \in [Scopes -> Nat]
  /\ dir \in [Scopes -> Roles] /\ directory \in [cursor : Nat, revision : Nat]
  /\ known \in Nat /\ resynced \subseteq Scopes
  /\ ses \in [Sessions -> Runs]

\* Nothing has a number that the provider has not given yet.
Numbered ==
  /\ \A o \in Objects : at[o].version <= now /\ (at[o].scope # None => at[o].version > 0)
  /\ \A s \in Scopes : role[s].since <= now /\ cursor[s] <= now
  /\ directory.cursor \in {0, known} /\ known <= now
  /\ kind = "calendar" => \A o \in Objects : at[o].scope \in {Home, None}

\* A row is at most as new as its object, and as new only if it is in the same place.
Behind ==
  \A o \in Objects : row[o].scope # None =>
    /\ row[o].version <= at[o].version
    /\ row[o].version = at[o].version => row[o].scope = at[o].scope

\* What a run has been told of a scope.
ToldTruly(k) ==
  /\ k.got \in Tellings /\ k.next > 0 /\ k.next <= now
  /\ \A o \in Objects :
       /\ k.got[o] <= at[o].version
       /\ k.got[o] > 0 => /\ k.got[o] = at[o].version => at[o].scope = k.scope
                          /\ kind = "calendar" => k.scope = Home
       /\ at[o].version <= k.next => k.got[o] = Told(k.scope, k.expected)[o]

\* What a run has been told of the directory.
ListedTruly(k) ==
  /\ k.got \in Lists /\ k.next > 0 /\ k.next <= now
  /\ k.revision = directory.revision => known <= k.next
  /\ \A s \in Scopes : role[s].since <= k.next =>
       k.got[s] = IF full \/ k.expected = 0 \/ role[s].since > k.expected THEN role[s].is ELSE None

Truthful ==
  \A x \in Sessions :
    /\ ses[x].op \in {"loaded", "fetched"} => ses[x].scope \in Scopes
    /\ ses[x].op \in {"directory", "listed"} =>
         kind = "calendar" /\ ses[x].revision <= directory.revision
    /\ ses[x].op = "fetched" => ToldTruly(ses[x])
    /\ ses[x].op = "listed" => ListedTruly(ses[x])

\* No row is left of a calendar that is not listed, or of a scope whose cursor was
\* always empty or is so since it was listed again.
Emptied ==
  \A s \in Scopes :
    (kind = "calendar" /\ dir[s] = "none") \/ (s \notin resynced /\ cursor[s] = 0) =>
      \A o \in Objects : row[o].scope # s

Kept ==
  /\ Typed /\ Numbered /\ Behind /\ Truthful /\ Emptied
  /\ PassedIsStored /\ RemovedIsGone /\ DirectoryIsNewest

-----------------------------------------------------------------------------
(* What the steps mean                                                     *)

LEMMA Parts == Kept => /\ Typed /\ Numbered /\ Behind /\ Truthful /\ Emptied
                       /\ PassedIsStored /\ RemovedIsGone /\ DirectoryIsNewest
  BY DEF Kept

LEMMA Constants ==
  /\ Home \in Scopes /\ Shared \subseteq Scopes /\ None \notin Scopes /\ None \notin Roles
  /\ MaxChange \in Nat /\ NoRow \in Rows /\ NoRow.scope = None /\ NoRow.version = 0
  /\ Idle \in Runs /\ Idle.op = "none"
  BY ConstantsAssumption DEF Roles, NoRow, Rows, Idle, Runs

LEMMA InitKept == Init => Kept
<1> SUFFICES ASSUME Init PROVE Kept
  OBVIOUS
<1>1. /\ [scope |-> None, version |-> 0] \in Places
      /\ \A r \in Roles : [is |-> r, since |-> 0] \in Grants
      /\ [cursor |-> 0, revision |-> 0] \in [cursor : Nat, revision : Nat]
  BY DEF Places, Grants
<1>2. \A s \in Scopes :
        (IF kind = "calendar" /\ s \in Shared THEN "none" ELSE "reader") \in Roles
  BY DEF Roles
<1>3. Typed
  <2>1. role \in [Scopes -> Grants]
    BY <1>1, <1>2 DEF Init
  <2>2. dir \in [Scopes -> Roles]
    BY DEF Init, Roles
  <2> QED
    BY <1>1, <2>1, <2>2, Constants DEF Init, Typed
<1>4. /\ \A o \in Objects : at[o].scope = None /\ at[o].version = 0 /\ row[o].scope = None
      /\ \A s \in Scopes : role[s].since = 0 /\ cursor[s] = 0
      /\ directory.cursor = 0 /\ known = 0 /\ now = 0
      /\ \A x \in Sessions : ses[x].op = "none"
  BY Constants DEF Init, Idle, NoRow
<1> QED
  BY <1>3, <1>4, Constants
     DEF Kept, Numbered, Behind, Truthful, Emptied, PassedIsStored, RemovedIsGone,
         DirectoryIsNewest

\* A step that leaves rows and cursors alone keeps what is said of them, unless the
\* provider changes.
LEMMA LocalKept ==
  ASSUME Kept, UNCHANGED <<kind, full, now, at, role, row, cursor, dir, directory, known, resynced>>
  PROVE  /\ Numbered' /\ Behind' /\ Emptied'
         /\ PassedIsStored' /\ RemovedIsGone' /\ DirectoryIsNewest'
<1>1. Numbered'
  BY Parts DEF Numbered
<1>2. Behind'
  BY Parts DEF Behind
<1>3. Emptied'
  BY Parts DEF Emptied
<1>4. PassedIsStored'
  BY Parts DEF PassedIsStored, Visible
<1>5. RemovedIsGone'
  BY Parts DEF RemovedIsGone
<1>6. DirectoryIsNewest'
  BY Parts DEF DirectoryIsNewest
<1> QED
  BY <1>1, <1>2, <1>3, <1>4, <1>5, <1>6

LEMMA ToldStays ==
  ASSUME NEW k \in Runs, ToldTruly(k), UNCHANGED <<kind, at, now>>
  PROVE  ToldTruly(k)'
  BY DEF ToldTruly, Told, TellsRemovals

LEMMA ListedStays ==
  ASSUME NEW k \in Runs, ListedTruly(k), UNCHANGED <<full, role, now>>,
         \/ directory'.revision = directory.revision /\ known' = known
         \/ k.revision # directory'.revision
  PROVE  ListedTruly(k)'
  BY DEF ListedTruly

\* A run's own step: what the other runs hold does not depend on it.
LEMMA TruthKept ==
  ASSUME Kept, NEW x \in Sessions, NEW k \in Runs, ses' = [ses EXCEPT ![x] = k],
         UNCHANGED <<kind, full, now, at, role>>,
         \/ directory'.revision = directory.revision /\ known' = known
         \/ directory'.revision = directory.revision + 1,
         k.op \in {"loaded", "fetched"} => k.scope \in Scopes,
         k.op \in {"directory", "listed"} =>
           kind = "calendar" /\ k.revision <= directory'.revision,
         k.op = "fetched" => ToldTruly(k)', k.op = "listed" => ListedTruly(k)'
  PROVE  Truthful' /\ ses' \in [Sessions -> Runs]
<1>1. /\ ses' \in [Sessions -> Runs] /\ ses'[x] = k
      /\ \A y \in Sessions : y # x => ses'[y] = ses[y]
  BY Parts DEF Typed
<1>2. directory.revision \in Nat
  BY Parts DEF Typed
<1>3. ASSUME NEW y \in Sessions, y # x
      PROVE  /\ ses'[y].op \in {"loaded", "fetched"} => ses'[y].scope \in Scopes
             /\ ses'[y].op \in {"directory", "listed"} =>
                  kind' = "calendar" /\ ses'[y].revision <= directory'.revision
             /\ ses'[y].op = "fetched" => ToldTruly(ses[y])'
             /\ ses'[y].op = "listed" => ListedTruly(ses[y])'
  <2>1. PICK r \in Runs : r = ses[y] /\ r = ses'[y]
    BY <1>1, <1>3, Parts DEF Typed
  <2>2. /\ r.op \in {"loaded", "fetched"} => r.scope \in Scopes
        /\ r.op \in {"directory", "listed"} => kind = "calendar" /\ r.revision <= directory.revision
        /\ r.op = "fetched" => ToldTruly(r)
        /\ r.op = "listed" => ListedTruly(r)
    BY <2>1, Parts DEF Truthful
  <2>3. r.op = "fetched" => ToldTruly(r)'
    BY <2>2, ToldStays
  <2>4. r.op = "listed" => ListedTruly(r)'
    <3>1. r.revision \in Nat
      BY DEF Runs
    <3> QED
      BY <1>2, <2>2, <3>1, ListedStays
  <2>5. r.op \in {"directory", "listed"} => kind' = "calendar" /\ r.revision <= directory'.revision
    <3>1. r.revision \in Nat
      BY DEF Runs
    <3> QED
      BY <1>2, <2>2, <3>1
  <2>6. /\ r.op = "fetched" => ToldTruly(ses[y])'
        /\ r.op = "listed" => ListedTruly(ses[y])'
    BY <2>1, <2>3, <2>4 DEF ToldTruly, ListedTruly
  <2> QED
    BY <2>1, <2>2, <2>5, <2>6
<1>4. /\ k.op = "fetched" => ToldTruly(ses[x])'
      /\ k.op = "listed" => ListedTruly(ses[x])'
  BY <1>1 DEF ToldTruly, ListedTruly
<1> QED
  BY <1>1, <1>3, <1>4 DEF Truthful

LEMMA RunsOf ==
  ASSUME Kept, NEW x \in Sessions
  PROVE  /\ ses[x] \in Runs /\ ses[x].expected \in Nat /\ ses[x].revision \in Nat
         /\ ses[x].next \in Nat /\ directory.revision \in Nat /\ directory.cursor \in Nat
         /\ now \in Nat /\ known \in Nat
  BY Parts DEF Typed, Runs

-----------------------------------------------------------------------------
(* Steps that read                                                         *)

\* A run's own step that stores nothing.
LEMMA OwnStepKept ==
  ASSUME Kept, NEW x \in Sessions, NEW k \in Runs, Keep(x, k), UNCHANGED local,
         k.op \in {"loaded", "fetched"} => k.scope \in Scopes,
         k.op \in {"directory", "listed"} =>
           kind = "calendar" /\ k.revision <= directory.revision,
         k.op = "fetched" => ToldTruly(k), k.op = "listed" => ListedTruly(k)
  PROVE  Kept'
<1>1. /\ UNCHANGED <<kind, full, now, at, role, row, cursor, dir, directory, known, resynced>>
      /\ ses' = [ses EXCEPT ![x] = k]
  BY DEF Keep, local, remote
<1>2. directory'.revision = directory.revision /\ known' = known
  BY <1>1
<1>3. k.op \in {"directory", "listed"} => kind = "calendar" /\ k.revision <= directory'.revision
  BY <1>1
<1>4. k.op = "fetched" => ToldTruly(k)'
  BY <1>1, ToldStays
<1>5. k.op = "listed" => ListedTruly(k)'
  BY <1>1, ListedStays
<1>6. Truthful' /\ ses' \in [Sessions -> Runs]
  BY <1>1, <1>2, <1>3, <1>4, <1>5, TruthKept
<1>7. Typed'
  BY <1>1, <1>6, Parts DEF Typed
<1>8. Numbered' /\ Behind' /\ Emptied' /\ PassedIsStored' /\ RemovedIsGone' /\ DirectoryIsNewest'
  BY <1>1, LocalKept
<1> QED
  BY <1>6, <1>7, <1>8 DEF Kept

LEMMA CrashKept ==
  ASSUME Kept, NEW x \in Sessions, Crash(x) PROVE Kept'
  BY Constants, OwnStepKept DEF Crash, Abort

LEMMA LoadKept ==
  ASSUME Kept, NEW x \in Sessions, NEW s \in Scopes, LoadFolder(x, s) \/ LoadCalendar(x, s)
  PROVE  Kept'
<1> DEFINE k == [Idle EXCEPT !.op = "loaded", !.scope = s, !.expected = cursor[s]]
<1>1. k \in Runs /\ k.op = "loaded" /\ k.scope = s
  BY Parts DEF Typed, Idle, Runs
<1>2. Keep(x, k) /\ UNCHANGED local
  BY DEF LoadFolder, LoadCalendar
<1> HIDE DEF k
<1> QED
  BY <1>1, <1>2, OwnStepKept

LEMMA LoadDirectoryKept ==
  ASSUME Kept, NEW x \in Sessions, LoadDirectory(x) PROVE Kept'
<1> DEFINE k == [Idle EXCEPT !.op = "directory", !.expected = directory.cursor,
                             !.revision = directory.revision]
<1>1. k \in Runs /\ k.op = "directory" /\ k.revision = directory.revision
  BY RunsOf DEF Idle, Runs
<1>2. Keep(x, k) /\ UNCHANGED local /\ kind = "calendar"
  BY DEF LoadDirectory
<1> HIDE DEF k
<1>3. k.revision <= directory.revision
  BY <1>1, RunsOf
<1> QED
  BY <1>1, <1>2, <1>3, OwnStepKept

\* The pages of a scope.
LEMMA FetchedKept ==
  ASSUME Kept, NEW x \in Sessions, FetchFolder(x) \/ FetchCalendar(x) PROVE Kept'
<1> DEFINE told == Told(ses[x].scope, ses[x].expected)
<1> DEFINE k == [ses[x] EXCEPT !.op = "fetched", !.next = now, !.got = told]
<1>1. Keep(x, k) /\ UNCHANGED local /\ ses[x].op = "loaded" /\ now > 0
  BY DEF FetchFolder, FetchCalendar, Fetched, ReadsFolder, ReadsCalendar
<1>2. ses[x].scope \in Scopes
  BY <1>1, Parts DEF Truthful
<1>3. told \in Tellings
  BY <1>2, RunsOf, Parts DEF Told, Tellings, Typed, Places, Gone, Silent
<1>4. /\ k \in Runs /\ k.op = "fetched" /\ k.next = now /\ k.got = told
      /\ k.scope = ses[x].scope /\ k.expected = ses[x].expected
  <2> HIDE DEF told
  <2> QED
    BY <1>3, RunsOf DEF Runs
<1>5. ASSUME NEW o \in Objects
      PROVE  /\ told[o] <= at[o].version
             /\ told[o] > 0 => /\ told[o] = at[o].version => at[o].scope = ses[x].scope
                               /\ kind = "calendar" => ses[x].scope = Home
  <2>1. at[o].version \in Nat /\ (kind = "calendar" => at[o].scope \in {Home, None})
    BY Parts DEF Typed, Places, Numbered
  <2>2. told[o] > 0 => told[o] = at[o].version /\ at[o].scope = ses[x].scope
    BY <2>1 DEF Told, Gone, Silent
  <2>3. told[o] <= at[o].version
    BY <2>1 DEF Told, Gone, Silent
  <2> QED
    BY <1>2, <2>1, <2>2, <2>3, Constants
<1>6. ToldTruly(k)
  <2>1. \A o \in Objects : k.got[o] = Told(k.scope, k.expected)[o]
    BY <1>4
  <2> HIDE DEF k, told
  <2> QED
    BY <1>1, <1>3, <1>4, <1>5, <2>1, RunsOf DEF ToldTruly
<1> HIDE DEF k, told
<1> QED
  BY <1>1, <1>2, <1>4, <1>6, OwnStepKept

LEMMA FetchDirectoryKept ==
  ASSUME Kept, NEW x \in Sessions, FetchDirectory(x) PROVE Kept'
<1> DEFINE whole == full \/ ses[x].expected = 0
           list == [s \in Scopes |->
                      IF whole \/ role[s].since > ses[x].expected THEN role[s].is ELSE None]
           k == [ses[x] EXCEPT !.op = "listed", !.next = now, !.got = list]
<1>1. Keep(x, k) /\ UNCHANGED local /\ ses[x].op = "directory" /\ now > 0
  BY DEF FetchDirectory
<1>2. list \in Lists
  <2>1. \A s \in Scopes : role[s].is \in Roles
    BY Parts DEF Typed, Grants
  <2> QED
    BY <2>1 DEF Lists
<1>3. /\ k \in Runs /\ k.op = "listed" /\ k.next = now /\ k.got = list
      /\ k.revision = ses[x].revision /\ k.expected = ses[x].expected
  <2> HIDE DEF list
  <2> QED
    BY <1>2, RunsOf DEF Runs
<1>4. kind = "calendar" /\ ses[x].revision <= directory.revision
  BY <1>1, Parts DEF Truthful
<1>5. known <= now
  BY Parts DEF Numbered
<1>6. \A s \in Scopes :
        k.got[s] = IF full \/ k.expected = 0 \/ role[s].since > k.expected THEN role[s].is ELSE None
  BY <1>3
<1> HIDE DEF k, list, whole
<1>7. ListedTruly(k)
  BY <1>1, <1>2, <1>3, <1>5, <1>6, RunsOf DEF ListedTruly
<1> QED
  BY <1>1, <1>3, <1>4, <1>7, OwnStepKept

-----------------------------------------------------------------------------
(* Steps of the provider                                                   *)

\* If what runs have been told stays true, the provider's step keeps it.
LEMMA TruthOutlives ==
  ASSUME Kept, UNCHANGED <<kind, directory, ses>>,
         \A k \in Runs : (ToldTruly(k) => ToldTruly(k)') /\ (ListedTruly(k) => ListedTruly(k)')
  PROVE  Truthful'
<1> SUFFICES ASSUME NEW x \in Sessions
    PROVE /\ ses'[x].op \in {"loaded", "fetched"} => ses'[x].scope \in Scopes
          /\ ses'[x].op \in {"directory", "listed"} =>
               kind' = "calendar" /\ ses'[x].revision <= directory'.revision
          /\ ses'[x].op = "fetched" => ToldTruly(ses[x])'
          /\ ses'[x].op = "listed" => ListedTruly(ses[x])'
  BY DEF Truthful
<1>1. PICK k \in Runs : k = ses[x] /\ k = ses'[x]
  BY RunsOf
<1>2. /\ k.op \in {"loaded", "fetched"} => k.scope \in Scopes
      /\ k.op \in {"directory", "listed"} => kind = "calendar" /\ k.revision <= directory.revision
      /\ k.op = "fetched" => ToldTruly(k)
      /\ k.op = "listed" => ListedTruly(k)
  BY <1>1, Parts DEF Truthful
<1>3. /\ k.op = "fetched" => ToldTruly(k)'
      /\ k.op = "listed" => ListedTruly(k)'
  BY <1>2
<1>4. /\ k.op = "fetched" => ToldTruly(ses[x])'
      /\ k.op = "listed" => ListedTruly(ses[x])'
  BY <1>1, <1>3 DEF ToldTruly, ListedTruly
<1> QED
  BY <1>1, <1>2, <1>4

\* What was told grows old, but it never tells more than there is.
LEMMA ChangeKept ==
  ASSUME Kept, NEW o \in Objects, NEW s \in Scopes \cup {None}, Change(o, s)
  PROVE  Kept'
<1> DEFINE place == [scope |-> s, version |-> now + 1]
<1>1. /\ at' = [at EXCEPT ![o] = place] /\ now' = now + 1
      /\ UNCHANGED <<kind, full, role, row, cursor, dir, directory, known, resynced, ses>>
      /\ kind = "calendar" => s \in {Home, None}
  BY DEF Change, local
<1>2. now \in Nat /\ place \in Places /\ place.version = now + 1 /\ place.scope = s
  BY Parts DEF Typed, Places
<1> HIDE DEF place
<1>3. /\ at' \in [Objects -> Places] /\ at'[o] = place
      /\ \A p \in Objects : p # o => at'[p] = at[p]
  BY <1>1, <1>2, Parts DEF Typed
<1>4. Typed'
  BY <1>1, <1>2, <1>3, Parts DEF Typed
<1>5. /\ \A p \in Objects : at[p].version \in Nat /\ at[p].version <= now /\ row[p].version \in Nat
      /\ \A t \in Scopes : cursor[t] \in Nat /\ cursor[t] <= now /\ role[t].since \in Nat
      /\ known \in Nat
  BY Parts DEF Typed, Numbered, Places, Rows, Grants
<1>6. Numbered'
  BY <1>1, <1>2, <1>3, <1>5, Parts DEF Numbered
<1>7. Behind'
  BY <1>1, <1>2, <1>3, <1>5, Parts DEF Behind
<1>8. Emptied'
  BY <1>1, Parts DEF Emptied
<1>9. PassedIsStored'
  BY <1>1, <1>2, <1>3, <1>5, Parts DEF PassedIsStored, Visible
<1>10. RemovedIsGone'
  BY <1>1, <1>2, <1>3, <1>5, Parts DEF RemovedIsGone
<1>11. DirectoryIsNewest'
  BY <1>1, Parts DEF DirectoryIsNewest
<1>12. ASSUME NEW k \in Runs, ToldTruly(k) PROVE ToldTruly(k)'
  <2>1. /\ k.got \in Tellings /\ k.next > 0 /\ k.next <= now
        /\ \A p \in Objects :
             /\ k.got[p] <= at[p].version
             /\ k.got[p] > 0 => /\ k.got[p] = at[p].version => at[p].scope = k.scope
                                /\ kind = "calendar" => k.scope = Home
             /\ at[p].version <= k.next => k.got[p] = Told(k.scope, k.expected)[p]
    BY <1>12 DEF ToldTruly
  <2>2. k.next \in Nat
    BY DEF Runs
  <2>3. \A p \in Objects : k.got[p] \in Int
    BY <2>1 DEF Tellings, Gone
  <2>4. k.next <= now'
    BY <1>1, <1>2, <2>1, <2>2
  <2>5. ASSUME NEW p \in Objects
        PROVE  /\ k.got[p] <= at'[p].version
               /\ k.got[p] > 0 => /\ k.got[p] = at'[p].version => at'[p].scope = k.scope
                                  /\ kind' = "calendar" => k.scope = Home
               /\ at'[p].version <= k.next => k.got[p] = Told(k.scope, k.expected)'[p]
    <3>1. CASE p = o
      BY <1>1, <1>2, <1>3, <1>5, <2>1, <2>2, <2>3, <3>1
    <3>2. CASE p # o
      <4>1. Told(k.scope, k.expected)'[p] = Told(k.scope, k.expected)[p]
        BY <1>1, <1>3, <3>2 DEF Told, TellsRemovals
      <4> QED
        BY <1>1, <1>3, <2>1, <3>2, <4>1
    <3> QED
      BY <3>1, <3>2
  <2> QED
    BY <2>1, <2>4, <2>5 DEF ToldTruly
<1>13. ASSUME NEW k \in Runs, ListedTruly(k) PROVE ListedTruly(k)'
  <2>1. k.next \in Nat
    BY DEF Runs
  <2> QED
    BY <1>1, <1>2, <1>13, <2>1 DEF ListedTruly
<1>14. Truthful'
  BY <1>1, <1>12, <1>13, TruthOutlives
<1> QED
  BY <1>4, <1>6, <1>7, <1>8, <1>9, <1>10, <1>11, <1>14 DEF Kept

LEMMA ShareKept ==
  ASSUME Kept, NEW s \in Shared, NEW r \in Roles, Share(s, r) PROVE Kept'
<1> DEFINE grant == [is |-> r, since |-> now + 1]
<1>1. /\ role' = [role EXCEPT ![s] = grant] /\ now' = now + 1
      /\ UNCHANGED <<kind, full, at, row, cursor, dir, directory, known, resynced, ses>>
  BY DEF Share, local
<1>2. now \in Nat /\ grant \in Grants /\ grant.since = now + 1 /\ s \in Scopes
  BY Constants, Parts DEF Typed, Grants
<1> HIDE DEF grant
<1>3. /\ role' \in [Scopes -> Grants] /\ role'[s] = grant
      /\ \A t \in Scopes : t # s => role'[t] = role[t]
  BY <1>1, <1>2, Parts DEF Typed
<1>4. Typed'
  BY <1>1, <1>2, <1>3, Parts DEF Typed
<1>5. /\ \A p \in Objects : at[p].version \in Nat /\ at[p].version <= now
      /\ \A t \in Scopes : cursor[t] \in Nat /\ cursor[t] <= now /\ role[t].since \in Nat
      /\ known \in Nat /\ known <= now
  BY Parts DEF Typed, Numbered, Places, Grants
<1>6. Numbered'
  BY <1>1, <1>2, <1>3, <1>5, Parts DEF Numbered
<1>7. Behind'
  BY <1>1, Parts DEF Behind
<1>8. Emptied'
  BY <1>1, Parts DEF Emptied
<1>9. PassedIsStored'
  BY <1>1, Parts DEF PassedIsStored, Visible
<1>10. RemovedIsGone'
  BY <1>1, Parts DEF RemovedIsGone
<1>11. DirectoryIsNewest'
  BY <1>1, <1>2, <1>3, <1>5, Parts DEF DirectoryIsNewest
<1>12. ASSUME NEW k \in Runs, ToldTruly(k) PROVE ToldTruly(k)'
  <2>1. k.next \in Nat
    BY DEF Runs
  <2>2. k.next <= now => k.next <= now'
    BY <1>1, <1>2, <2>1
  <2> QED
    BY <1>1, <1>12, <2>2 DEF ToldTruly, Told, TellsRemovals
<1>13. ASSUME NEW k \in Runs, ListedTruly(k) PROVE ListedTruly(k)'
  <2>1. k.next \in Nat
    BY DEF Runs
  <2>2. /\ k.got \in Lists /\ k.next > 0 /\ k.next <= now
        /\ k.revision = directory.revision => known <= k.next
        /\ \A t \in Scopes : role[t].since <= k.next =>
             k.got[t] = IF full \/ k.expected = 0 \/ role[t].since > k.expected
                        THEN role[t].is ELSE None
    BY <1>13 DEF ListedTruly
  <2>3. k.next <= now'
    BY <1>1, <1>2, <2>1, <2>2
  <2>4. ASSUME NEW t \in Scopes, role'[t].since <= k.next
        PROVE  k.got[t] = IF full' \/ k.expected = 0 \/ role'[t].since > k.expected
                          THEN role'[t].is ELSE None
    <3>1. t # s
      BY <1>2, <1>3, <2>1, <2>2, <2>4
    <3> QED
      BY <1>1, <1>3, <2>2, <2>4, <3>1
  <2> QED
    BY <1>1, <2>2, <2>3, <2>4 DEF ListedTruly
<1>14. Truthful'
  BY <1>1, <1>12, <1>13, TruthOutlives
<1> QED
  BY <1>4, <1>6, <1>7, <1>8, <1>9, <1>10, <1>11, <1>14 DEF Kept

-----------------------------------------------------------------------------
(* Lost cursors                                                            *)

\* An emptied cursor has passed nothing, and its scope may keep what it has.
LEMMA ClearedKept ==
  ASSUME Kept, NEW x \in Sessions, ExpireFolder(x) \/ ExpireCalendar(x) PROVE Kept'
<1> DEFINE s == ses[x].scope
           k == [ses[x] EXCEPT !.expected = 0]
<1>1. /\ ses[x].op = "loaded" /\ cursor' = [cursor EXCEPT ![s] = 0]
      /\ resynced' = resynced \cup {s} /\ ses' = [ses EXCEPT ![x] = k]
      /\ UNCHANGED <<kind, full, now, at, role, row, dir, directory, known>>
  BY DEF ExpireFolder, ExpireCalendar, ReadsFolder, ReadsCalendar, Cleared, Keep, remote
<1>2. s \in Scopes
  BY <1>1, Parts DEF Truthful
<1>3. k \in Runs /\ k.op = "loaded" /\ k.scope \in Scopes
  BY <1>1, <1>2, RunsOf DEF Runs
<1> HIDE DEF k, s
<1>4. directory'.revision = directory.revision /\ known' = known
  BY <1>1
<1>5. UNCHANGED <<kind, full, now, at, role>>
  BY <1>1
<1>6. Truthful' /\ ses' \in [Sessions -> Runs]
  BY <1>1, <1>3, <1>4, <1>5, TruthKept
<1>7. /\ cursor' \in [Scopes -> Nat] /\ cursor'[s] = 0
      /\ \A t \in Scopes : t # s => cursor'[t] = cursor[t]
  BY <1>1, <1>2, Parts DEF Typed
<1>8. Typed'
  BY <1>1, <1>2, <1>6, <1>7, Parts DEF Typed
<1>9. Numbered'
  BY <1>1, <1>7, Parts DEF Numbered, Typed
<1>10. Behind'
  BY <1>1, Parts DEF Behind
<1>11. Emptied'
  BY <1>1, <1>7, Parts DEF Emptied
<1>12. \A o \in Objects : at[o].scope = s => ~(at[o].version <= 0)
  BY <1>2, Constants, Parts DEF Numbered, Typed, Places
<1>13. PassedIsStored'
  BY <1>1, <1>7, <1>12, Parts DEF PassedIsStored, Visible
<1>14. RemovedIsGone'
  BY <1>1, <1>7, Parts DEF RemovedIsGone
<1>15. DirectoryIsNewest'
  BY <1>1, Parts DEF DirectoryIsNewest
<1> QED
  BY <1>6, <1>8, <1>9, <1>10, <1>11, <1>13, <1>14, <1>15 DEF Kept

LEMMA ExpireDirectoryKept ==
  ASSUME Kept, NEW x \in Sessions, ExpireDirectory(x) PROVE Kept'
<1> DEFINE k == [ses[x] EXCEPT !.expected = 0]
<1>1. /\ ses[x].op = "directory" /\ directory' = [directory EXCEPT !.cursor = 0]
      /\ ses' = [ses EXCEPT ![x] = k]
      /\ UNCHANGED <<kind, full, now, at, role, row, cursor, dir, known, resynced>>
  BY DEF ExpireDirectory, Keep, remote
<1>2. k \in Runs /\ k.op = "directory" /\ k.revision = ses[x].revision
  BY <1>1, RunsOf DEF Runs
<1>3. kind = "calendar" /\ ses[x].revision <= directory.revision
  BY <1>1, Parts DEF Truthful
<1>4. directory' \in [cursor : Nat, revision : Nat] /\ directory'.cursor = 0
      /\ directory'.revision = directory.revision
  BY <1>1, Parts DEF Typed
<1> HIDE DEF k
<1>5. directory'.revision = directory.revision /\ known' = known
  BY <1>1, <1>4
<1>6. kind = "calendar" /\ k.revision <= directory'.revision
  BY <1>2, <1>3, <1>4
<1>7. UNCHANGED <<kind, full, now, at, role>> /\ ses' = [ses EXCEPT ![x] = k]
  BY <1>1
<1>8. Truthful' /\ ses' \in [Sessions -> Runs]
  BY <1>2, <1>5, <1>6, <1>7, TruthKept
<1>9. UNCHANGED <<kind, full, now, at, role, row, cursor, dir, known, resynced>>
  BY <1>1
<1>10. Typed'
  BY <1>4, <1>8, <1>9, Parts DEF Typed
<1>11. Numbered'
  BY <1>4, <1>9, Parts DEF Numbered
<1>12. Behind' /\ Emptied'
  BY <1>9, Parts DEF Behind, Emptied
<1>13. PassedIsStored'
  BY <1>9, Parts DEF PassedIsStored, Visible
<1>14. RemovedIsGone' /\ DirectoryIsNewest'
  BY <1>9, Parts DEF RemovedIsGone, DirectoryIsNewest
<1> QED
  BY <1>8, <1>10, <1>11, <1>12, <1>13, <1>14 DEF Kept

-----------------------------------------------------------------------------
(* A scope is stored                                                       *)

\* What one object's row may become when scope s tells got of it.
Stores(old, new, s, got) ==
  \/ /\ got > 0 /\ new.scope = s /\ new.version = got
     /\ old.scope = None \/ got > old.version \/ kind = "calendar"
  \/ got > 0 /\ new = old /\ old.scope # None /\ got <= old.version
  \/ got = Gone /\ old.scope = s /\ new.scope = None
  \/ got = Gone /\ old.scope # s /\ new = old
  \/ got = Silent /\ new = old

LEMMA CommitMeans ==
  ASSUME Kept, NEW x \in Sessions, CommitFolder(x) \/ CommitCalendar(x)
  PROVE  /\ ses[x].op = "fetched" /\ Visible(ses[x].scope) /\ Unmoved(x)
         /\ cursor' = [cursor EXCEPT ![ses[x].scope] = ses[x].next]
         /\ Keep(x, Idle) /\ UNCHANGED <<dir, directory, known, resynced>>
         /\ row' \in [Objects -> Rows]
         /\ \A o \in Objects : Stores(row[o], row'[o], ses[x].scope, ses[x].got[o])
<1> DEFINE s == ses[x].scope
           got == ses[x].got
<1>1. /\ ses[x].op = "fetched" /\ Unmoved(x)
      /\ cursor' = [cursor EXCEPT ![s] = ses[x].next]
      /\ Keep(x, Idle) /\ UNCHANGED <<dir, directory, known, resynced>>
  BY DEF CommitFolder, CommitCalendar
<1>2. Visible(s)
  BY DEF CommitFolder, CommitCalendar, Syncable, Visible
<1>3. s \in Scopes /\ got \in Tellings
  BY <1>1, Parts DEF Truthful, ToldTruly
<1> HIDE DEF s, got
<1>4. \A o \in Objects : got[o] \in Nat \cup {Gone} /\ row[o] \in Rows /\ row[o].version \in Nat
  BY <1>3, Parts DEF Typed, Tellings, Rows
<1>5. CASE CommitFolder(x)
  <2>1. row' = [o \in Objects |->
          CASE got[o] > 0 /\ Newer(o, got[o]) -> MessageRow(s, got[o])
            [] got[o] = Gone /\ Buried(o, s) -> NoRow
            [] OTHER -> row[o]]
    BY <1>5 DEF CommitFolder, s, got
  <2>2. ASSUME NEW o \in Objects
        PROVE  row'[o] \in Rows /\ Stores(row[o], row'[o], s, got[o])
    <3>1. CASE got[o] > 0 /\ Newer(o, got[o])
      <4>1. row'[o] = MessageRow(s, got[o])
        BY <2>1, <3>1 DEF Gone
      <4>2. got[o] \in Nat
        BY <1>4, <3>1 DEF Gone
      <4>3. MessageRow(s, got[o]) \in Rows
        BY <1>3, <4>2 DEF MessageRow, Rows
      <4>4. MessageRow(s, got[o]).scope = s /\ MessageRow(s, got[o]).version = got[o]
        BY DEF MessageRow
      <4> QED
        BY <3>1, <4>1, <4>3, <4>4 DEF Stores, Newer
    <3>2. CASE got[o] = Gone /\ Buried(o, s)
      <4>1. row'[o] = NoRow
        BY <2>1, <3>2 DEF Gone
      <4> QED
        BY <3>2, <4>1, Constants DEF Stores, Buried
    <3>3. CASE ~(got[o] > 0 /\ Newer(o, got[o])) /\ ~(got[o] = Gone /\ Buried(o, s))
      <4>1. row'[o] = row[o]
        BY <2>1, <3>3
      <4> QED
        BY <1>4, <3>3, <4>1 DEF Stores, Newer, Buried, Gone, Silent
    <3> QED
      BY <3>1, <3>2, <3>3
  <2>3. row' \in [Objects -> Rows]
    BY <2>1, <2>2
  <2> QED
    BY <1>1, <1>2, <2>2, <2>3 DEF s, got
<1>6. CASE CommitCalendar(x)
  <2>1. row' = [o \in Objects |->
          CASE got[o] > 0 -> EventRow(s, got[o])
            [] got[o] = Gone /\ Removed(o, s) -> NoRow
            [] OTHER -> row[o]]
    BY <1>6 DEF CommitCalendar, s, got
  <2>2. ASSUME NEW o \in Objects
        PROVE  row'[o] \in Rows /\ Stores(row[o], row'[o], s, got[o])
    <3>1. CASE got[o] > 0
      <4>1. row'[o] = EventRow(s, got[o])
        BY <2>1, <3>1 DEF Gone
      <4>2. got[o] \in Nat
        BY <1>4, <3>1 DEF Gone
      <4>3. PICK e \in BOOLEAN : e = MayEdit(s)
        BY DEF MayEdit
      <4>4. EventRow(s, got[o]) \in Rows
        <5>1. EventRow(s, got[o]) = [scope |-> s, version |-> got[o], edit |-> e]
          BY <4>3 DEF EventRow
        <5> QED
          BY <1>3, <4>2, <5>1 DEF Rows
      <4>5. EventRow(s, got[o]).scope = s /\ EventRow(s, got[o]).version = got[o]
        BY DEF EventRow
      <4>6. kind = "calendar"
        BY <1>6 DEF CommitCalendar
      <4> QED
        BY <3>1, <4>1, <4>4, <4>5, <4>6 DEF Stores
    <3>2. CASE got[o] = Gone /\ Removed(o, s)
      <4>1. row'[o] = NoRow
        BY <2>1, <3>2 DEF Gone
      <4> QED
        BY <3>2, <4>1, Constants DEF Stores, Removed
    <3>3. CASE ~(got[o] > 0) /\ ~(got[o] = Gone /\ Removed(o, s))
      <4>1. row'[o] = row[o]
        BY <2>1, <3>3
      <4> QED
        BY <1>4, <3>3, <4>1 DEF Stores, Removed, Gone, Silent
    <3> QED
      BY <3>1, <3>2, <3>3
  <2>3. row' \in [Objects -> Rows]
    BY <2>1, <2>2
  <2> QED
    BY <1>1, <1>2, <2>2, <2>3 DEF s, got
<1> QED
  BY <1>5, <1>6

\* The rows of the pages make the cursor's step true; what they pass over was
\* passed before, or was never there.
LEMMA CommitKept ==
  ASSUME Kept, NEW x \in Sessions, CommitFolder(x) \/ CommitCalendar(x) PROVE Kept'
<1> DEFINE s == ses[x].scope
           got == ses[x].got
           next == ses[x].next
           since == ses[x].expected
<1>1. /\ ses[x].op = "fetched" /\ Visible(s) /\ cursor[s] = since
      /\ cursor' = [cursor EXCEPT ![s] = next]
      /\ ses' = [ses EXCEPT ![x] = Idle]
      /\ UNCHANGED <<kind, full, now, at, role, dir, directory, known, resynced>>
      /\ row' \in [Objects -> Rows]
      /\ \A o \in Objects : Stores(row[o], row'[o], s, got[o])
  BY CommitMeans DEF Keep, remote, Unmoved
<1>2. /\ s \in Scopes /\ got \in Tellings /\ next > 0 /\ next <= now
      /\ \A o \in Objects :
           /\ got[o] <= at[o].version
           /\ got[o] > 0 => /\ got[o] = at[o].version => at[o].scope = s
                            /\ kind = "calendar" => s = Home
           /\ at[o].version <= next => got[o] = Told(s, since)[o]
  BY <1>1, Parts DEF Truthful, ToldTruly
<1>3. next \in Nat /\ since \in Nat
  BY RunsOf
<1> HIDE DEF s, got, next, since
<1>4. UNCHANGED <<kind, full, now, at, role>> /\ directory'.revision = directory.revision /\ known' = known
  BY <1>1
<1>5. Truthful' /\ ses' \in [Sessions -> Runs]
  BY <1>1, <1>4, Constants, TruthKept
<1>6. /\ cursor' \in [Scopes -> Nat] /\ cursor'[s] = next
      /\ \A t \in Scopes : t # s => cursor'[t] = cursor[t]
  BY <1>1, <1>2, <1>3, Parts DEF Typed
<1>7. Typed'
  BY <1>1, <1>5, <1>6, Parts DEF Typed
<1>8. Numbered'
  BY <1>1, <1>2, <1>6, Parts DEF Numbered, Typed
<1>9. ASSUME NEW o \in Objects
      PROVE  /\ row[o] \in Rows /\ row'[o] \in Rows /\ at[o] \in Places
             /\ row[o].version \in Nat /\ row'[o].version \in Nat /\ at[o].version \in Nat
             /\ got[o] \in Int /\ Stores(row[o], row'[o], s, got[o])
             /\ row[o].scope # None => /\ row[o].version <= at[o].version
                                       /\ row[o].version = at[o].version => row[o].scope = at[o].scope
  <2>1. row[o] \in Rows /\ row'[o] \in Rows /\ at[o] \in Places
    BY <1>1, Parts DEF Typed
  <2>2. row[o].version \in Nat /\ row'[o].version \in Nat /\ at[o].version \in Nat
    BY <2>1 DEF Rows, Places
  <2>3. got[o] \in Int
    BY <1>2 DEF Tellings, Gone
  <2> QED
    BY <1>1, <2>1, <2>2, <2>3, Parts DEF Behind
<1>10. ASSUME NEW o \in Objects, NEW t \in Scopes, t # s, row'[o].scope = t
       PROVE  row'[o] = row[o]
  BY <1>9, <1>10, Constants DEF Stores
<1>11. Behind'
  <2> SUFFICES ASSUME NEW o \in Objects, row'[o].scope # None
      PROVE /\ row'[o].version <= at'[o].version
            /\ row'[o].version = at'[o].version => row'[o].scope = at'[o].scope
    BY DEF Behind
  <2> QED
    BY <1>1, <1>2, <1>9 DEF Stores
<1>12. Emptied'
  <2> SUFFICES ASSUME NEW t \in Scopes,
                      \/ kind' = "calendar" /\ dir'[t] = "none"
                      \/ t \notin resynced' /\ cursor'[t] = 0,
                      NEW o \in Objects, row'[o].scope = t
      PROVE FALSE
    BY DEF Emptied
  <2>1. t # s
    BY <1>1, <1>2, <1>3, <1>6 DEF Visible
  <2>2. row[o].scope = t
    BY <1>10, <2>1
  <2> QED
    BY <1>1, <1>6, <2>1, <2>2, Parts DEF Emptied
<1>13. PassedIsStored'
  <2> SUFFICES ASSUME NEW o \in Objects, NEW t \in Scopes, Visible(t)', at'[o].scope = t,
                      at'[o].version <= cursor'[t]
      PROVE row'[o].scope = t /\ row'[o].version = at'[o].version
    BY DEF PassedIsStored
  <2>1. at[o].scope = t /\ at[o].version <= cursor'[t] /\ Visible(t)
    BY <1>1 DEF Visible
  <2>2. CASE t = s
    <3>1. got[o] = Told(s, since)[o]
      BY <1>2, <1>6, <2>1, <2>2
    <3>2. CASE at[o].version <= since
      <4>1. got[o] = Silent
        BY <3>1, <3>2 DEF Told
      <4>2. row'[o] = row[o]
        BY <1>9, <4>1 DEF Stores, Silent, Gone
      <4>3. row[o].scope = t /\ row[o].version = at[o].version
        BY <1>1, <2>1, <2>2, <3>2, Parts DEF PassedIsStored
      <4> QED
        BY <1>1, <4>2, <4>3
    <3>3. CASE ~(at[o].version <= since)
      <4>1. got[o] = at[o].version /\ got[o] > 0
        BY <1>3, <1>9, <2>1, <2>2, <3>1, <3>3 DEF Told
      <4> QED
        BY <1>1, <1>9, <2>1, <2>2, <4>1 DEF Stores, Gone, Silent
    <3> QED
      BY <3>2, <3>3
  <2>3. CASE t # s
    <3>1. row[o].scope = t /\ row[o].version = at[o].version
      BY <1>6, <2>1, <2>3, Parts DEF PassedIsStored
    <3>2. got[o] > 0 /\ kind = "calendar" => FALSE
      BY <1>2, <2>1, <2>3, Constants, Parts DEF Numbered
    <3>3. row'[o] = row[o]
      BY <1>2, <1>9, <2>3, <3>1, <3>2, Constants DEF Stores, Gone
    <3> QED
      BY <1>1, <3>1, <3>3
  <2> QED
    BY <2>2, <2>3
<1>14. RemovedIsGone'
  <2> SUFFICES ASSUME kind' # "gmail", NEW o \in Objects, NEW t \in Scopes, t \notin resynced',
                      at'[o].scope # t, at'[o].version <= cursor'[t], row'[o].scope = t
      PROVE FALSE
    BY DEF RemovedIsGone
  <2>1. /\ at[o].scope # t /\ at[o].version <= cursor'[t] /\ t \notin resynced
        /\ kind # "gmail" /\ TellsRemovals
    BY <1>1 DEF TellsRemovals
  <2>2. CASE t = s
    <3>1. got[o] = Told(s, since)[o]
      BY <1>2, <1>6, <2>1, <2>2
    <3>2. CASE at[o].version <= since
      <4>1. got[o] = Silent
        BY <3>1, <3>2 DEF Told
      <4>2. row'[o] = row[o]
        BY <1>9, <4>1 DEF Stores, Silent, Gone
      <4> QED
        BY <1>1, <2>1, <2>2, <3>2, <4>2, Parts DEF RemovedIsGone
    <3>3. CASE ~(at[o].version <= since) /\ since > 0
      <4>1. got[o] = Gone
        BY <2>1, <2>2, <3>1, <3>3 DEF Told
      <4> QED
        BY <1>2, <1>9, <2>2, <4>1, Constants DEF Stores, Gone, Silent
    <3>4. CASE ~(at[o].version <= since) /\ since = 0
      <4>1. got[o] = Silent
        BY <2>1, <2>2, <3>1, <3>4 DEF Told
      <4>2. row'[o] = row[o]
        BY <1>9, <4>1 DEF Stores, Silent, Gone
      <4> QED
        BY <1>1, <1>2, <2>1, <2>2, <3>4, <4>2, Parts DEF Emptied
    <3> QED
      BY <1>3, <3>2, <3>3, <3>4
  <2>3. CASE t # s
    BY <1>6, <1>10, <2>1, <2>3, Parts DEF RemovedIsGone
  <2> QED
    BY <2>2, <2>3
<1>15. DirectoryIsNewest'
  BY <1>1, Parts DEF DirectoryIsNewest
<1> QED
  BY <1>5, <1>7, <1>8, <1>11, <1>12, <1>13, <1>14, <1>15 DEF Kept

-----------------------------------------------------------------------------
(* The directory is stored                                                 *)

LEMMA LaterOf ==
  ASSUME NEW m \in Nat, NEW n \in Nat, m <= n PROVE Max({m, n}) = n
  BY DEF Max

\* Only the list that was read from the newest directory is stored, so it is
\* newer than every other; calendars that come back are read from the start.
LEMMA CommitDirectoryKept ==
  ASSUME Kept, NEW x \in Sessions, CommitDirectory(x) PROVE Kept'
<1> DEFINE got == ses[x].got
           next == ses[x].next
           since == ses[x].expected
           roles == Listed(x)
<1>1. /\ ses[x].op = "listed" /\ directory.cursor = since /\ directory.revision = ses[x].revision
      /\ dir' = roles
      /\ row' = [o \in Objects |->
           IF row[o].scope = None \/ roles[row[o].scope] = "none" THEN NoRow
           ELSE [row[o] EXCEPT !.edit = Tightened(o, roles)]]
      /\ cursor' = [s \in Scopes |-> IF s \in Reappeared(roles) THEN 0 ELSE cursor[s]]
      /\ directory' = [cursor |-> IF full THEN 0 ELSE next, revision |-> directory.revision + 1]
      /\ known' = Max({known, next})
      /\ ses' = [ses EXCEPT ![x] = Idle]
      /\ UNCHANGED <<kind, full, now, at, role, resynced>>
  BY DEF CommitDirectory, DirectoryUnmoved, Keep, remote
<1>2. kind = "calendar" /\ ListedTruly(ses[x])
  BY <1>1, Parts DEF Truthful
<1>3. /\ got \in Lists /\ next > 0 /\ next <= now /\ known <= next
      /\ \A s \in Scopes : role[s].since <= next =>
           got[s] = IF full \/ since = 0 \/ role[s].since > since THEN role[s].is ELSE None
  BY <1>1, <1>2 DEF ListedTruly
<1>4. next \in Nat /\ since \in Nat /\ known \in Nat /\ directory.revision \in Nat
  BY RunsOf
<1>5. /\ roles \in [Scopes -> Roles]
      /\ \A s \in Scopes : roles[s] = IF got[s] = None THEN dir[s] ELSE got[s]
  BY <1>3, Parts DEF Listed, Lists, Typed
<1> HIDE DEF got, next, since, roles
<1>6. known' = next
  BY <1>1, <1>3, <1>4, LaterOf
<1>7. directory' \in [cursor : Nat, revision : Nat] /\ directory'.revision = directory.revision + 1
      /\ directory'.cursor \in {0, known'}
  <2>1. PICK c \in {0, next} : c = IF full THEN 0 ELSE next
    OBVIOUS
  <2>2. directory' = [cursor |-> c, revision |-> directory.revision + 1]
    BY <1>1, <2>1
  <2> QED
    BY <1>4, <1>6, <2>1, <2>2
<1>8. /\ cursor' \in [Scopes -> Nat]
      /\ \A s \in Scopes : IF s \in Reappeared(roles) THEN cursor'[s] = 0 ELSE cursor'[s] = cursor[s]
  BY <1>1, Parts DEF Typed
<1>9. ASSUME NEW o \in Objects
      PROVE  /\ row'[o] \in Rows
             /\ \/ row'[o].scope = None /\ (row[o].scope = None \/ roles[row[o].scope] = "none")
                \/ /\ row'[o].scope = row[o].scope /\ row'[o].version = row[o].version
                   /\ row[o].scope # None /\ roles[row[o].scope] # "none"
  <2>1. row[o] \in Rows
    BY Parts DEF Typed
  <2>2. CASE row[o].scope = None \/ roles[row[o].scope] = "none"
    <3>1. row'[o] = NoRow
      BY <1>1, <2>2
    <3> QED
      BY <2>2, <3>1, Constants
  <2>3. CASE ~(row[o].scope = None \/ roles[row[o].scope] = "none")
    <3>1. PICK e \in BOOLEAN : e = Tightened(o, roles)
      <4>1. row[o].edit \in BOOLEAN
        BY <2>1 DEF Rows
      <4> QED
        BY <4>1 DEF Tightened
    <3>2. row'[o] = [row[o] EXCEPT !.edit = e]
      BY <1>1, <2>3, <3>1
    <3>3. row'[o] \in Rows /\ row'[o].scope = row[o].scope /\ row'[o].version = row[o].version
      BY <2>1, <3>2 DEF Rows
    <3> QED
      BY <2>3, <3>3
  <2> QED
    BY <2>2, <2>3
<1>10. row' \in [Objects -> Rows]
  BY <1>1, <1>9
<1>11. UNCHANGED <<kind, full, now, at, role>> /\ directory'.revision = directory.revision + 1
  BY <1>1, <1>7
<1>12. Truthful' /\ ses' \in [Sessions -> Runs]
  BY <1>1, <1>11, Constants, TruthKept
<1>13. Typed'
  BY <1>1, <1>4, <1>5, <1>6, <1>7, <1>8, <1>10, <1>12, Parts DEF Typed
<1>14. Numbered'
  <2>1. \A s \in Scopes : cursor'[s] <= now
    BY <1>8, Parts DEF Numbered, Typed
  <2> QED
    BY <1>1, <1>3, <1>6, <1>7, <2>1, Parts DEF Numbered
<1>15. Behind'
  BY <1>1, <1>9, Parts DEF Behind
<1>16. Emptied'
  <2> SUFFICES ASSUME NEW s \in Scopes,
                      \/ kind' = "calendar" /\ dir'[s] = "none"
                      \/ s \notin resynced' /\ cursor'[s] = 0,
                      NEW o \in Objects, row'[o].scope = s
      PROVE FALSE
    BY DEF Emptied
  <2>1. row[o].scope = s /\ roles[s] # "none"
    BY <1>9, Constants
  <2>2. dir[s] = "none" \/ (s \notin resynced /\ cursor[s] = 0)
    BY <1>1, <1>8, <2>1 DEF Reappeared
  <2> QED
    BY <1>2, <2>1, <2>2, Parts DEF Emptied
<1>17. PassedIsStored'
  <2> SUFFICES ASSUME NEW o \in Objects, NEW s \in Scopes, Visible(s)', at'[o].scope = s,
                      at'[o].version <= cursor'[s]
      PROVE row'[o].scope = s /\ row'[o].version = at'[o].version
    BY DEF PassedIsStored
  <2>1. at[o].scope = s /\ at[o].version <= cursor'[s] /\ roles[s] # "none"
    BY <1>1, <1>2 DEF Visible
  <2>2. at[o].version \in Nat /\ at[o].version > 0
    BY <2>1, Constants, Parts DEF Numbered, Typed, Places
  <2>3. s \notin Reappeared(roles) /\ cursor'[s] = cursor[s]
    BY <1>8, <2>1, <2>2
  <2>4. Visible(s)
    BY <2>1, <2>3 DEF Visible, Reappeared
  <2>5. row[o].scope = s /\ row[o].version = at[o].version
    BY <2>1, <2>3, <2>4, Parts DEF PassedIsStored
  <2> QED
    BY <1>1, <1>9, <2>1, <2>5, Constants
<1>18. RemovedIsGone'
  <2> SUFFICES ASSUME kind' # "gmail", NEW o \in Objects, NEW s \in Scopes, s \notin resynced',
                      at'[o].scope # s, at'[o].version <= cursor'[s], row'[o].scope = s
      PROVE FALSE
    BY DEF RemovedIsGone
  <2>1. row[o].scope = s
    BY <1>9, Constants
  <2>2. at[o].version \in Nat /\ cursor[s] \in Nat /\ cursor'[s] \in Nat
    BY <1>8, Parts DEF Typed, Places
  <2>3. at[o].version <= cursor[s]
    BY <1>1, <1>8, <2>2
  <2> QED
    BY <1>1, <2>1, <2>3, Parts DEF RemovedIsGone
<1>19. DirectoryIsNewest'
  <2> SUFFICES ASSUME NEW s \in Scopes, known' > 0, role'[s].since <= known'
      PROVE dir'[s] = role'[s].is
    BY DEF DirectoryIsNewest
  <2>1. role[s].since <= next /\ role[s].since \in Nat /\ role[s].is \in Roles
    BY <1>1, <1>6, Parts DEF Typed, Grants
  <2>2. got[s] = IF full \/ since = 0 \/ role[s].since > since THEN role[s].is ELSE None
    BY <1>3, <2>1
  <2>3. CASE full \/ since = 0 \/ role[s].since > since
    BY <1>1, <1>5, <2>1, <2>2, <2>3, Constants
  <2>4. CASE ~(full \/ since = 0 \/ role[s].since > since)
    <3>1. roles[s] = dir[s]
      BY <1>5, <2>2, <2>4
    <3>2. since = known
      BY <1>1, <2>4, Parts DEF Numbered
    <3>3. known > 0 /\ role[s].since <= known
      BY <1>4, <2>1, <2>4, <3>2
    <3>4. dir[s] = role[s].is
      BY <1>2, <3>3, Parts DEF DirectoryIsNewest
    <3> QED
      BY <1>1, <3>1, <3>4
  <2> QED
    BY <2>3, <2>4
<1> QED
  BY <1>12, <1>13, <1>14, <1>15, <1>16, <1>17, <1>18, <1>19 DEF Kept

-----------------------------------------------------------------------------
(* The theorems                                                            *)

LEMMA NextKept == Kept /\ [Next]_vars => Kept'
<1> SUFFICES ASSUME Kept, [Next]_vars PROVE Kept'
  OBVIOUS
<1>1. ASSUME NEW o \in Objects, NEW s \in Scopes \cup {None}, Change(o, s) PROVE Kept'
  BY <1>1, ChangeKept
<1>2. ASSUME NEW s \in Shared, NEW r \in Roles, Share(s, r) PROVE Kept'
  BY <1>2, ShareKept
<1>3. ASSUME NEW x \in Sessions, NEW s \in Scopes, LoadFolder(x, s) \/ LoadCalendar(x, s)
      PROVE  Kept'
  BY <1>3, LoadKept
<1>4. ASSUME NEW x \in Sessions, FetchFolder(x) \/ FetchCalendar(x) PROVE Kept'
  BY <1>4, FetchedKept
<1>5. ASSUME NEW x \in Sessions, ExpireFolder(x) \/ ExpireCalendar(x) PROVE Kept'
  BY <1>5, ClearedKept
<1>6. ASSUME NEW x \in Sessions, CommitFolder(x) \/ CommitCalendar(x) PROVE Kept'
  BY <1>6, CommitKept
<1>7. ASSUME NEW x \in Sessions, LoadDirectory(x) PROVE Kept'
  BY <1>7, LoadDirectoryKept
<1>8. ASSUME NEW x \in Sessions, FetchDirectory(x) PROVE Kept'
  BY <1>8, FetchDirectoryKept
<1>9. ASSUME NEW x \in Sessions, ExpireDirectory(x) PROVE Kept'
  BY <1>9, ExpireDirectoryKept
<1>10. ASSUME NEW x \in Sessions, CommitDirectory(x) PROVE Kept'
  BY <1>10, CommitDirectoryKept
<1>11. ASSUME NEW x \in Sessions, Crash(x) PROVE Kept'
  BY <1>11, CrashKept
<1>12. CASE UNCHANGED vars
  <2>1. UNCHANGED <<kind, full, now, at, role, row, cursor, dir, directory, known, resynced, ses>>
    BY <1>12 DEF vars, local, remote
  <2>2. Numbered' /\ Behind' /\ Emptied' /\ PassedIsStored' /\ RemovedIsGone' /\ DirectoryIsNewest'
    BY <2>1, LocalKept
  <2>3. Typed'
    BY <2>1, Parts DEF Typed
  <2>4. Truthful'
    <3>1. \A k \in Runs : ToldTruly(k) => ToldTruly(k)'
      BY <2>1, ToldStays
    <3>2. \A k \in Runs : ListedTruly(k) => ListedTruly(k)'
      BY <2>1, ListedStays
    <3> QED
      BY <2>1, <3>1, <3>2, TruthOutlives
  <2> QED
    BY <2>2, <2>3, <2>4 DEF Kept
<1> QED
  BY <1>1, <1>2, <1>3, <1>4, <1>5, <1>6, <1>7, <1>8, <1>9, <1>10, <1>11, <1>12, Constants DEF Next

\* The variables keep their types.
THEOREM TypeCorrect == Spec => []Typed
<1>1. Kept => Typed
  BY Parts
<1> QED
  BY <1>1, InitKept, NextKept, PTL DEF Spec

\* Whatever runs, moves, lost cursors and vanishing calendars come in between, what
\* a cursor has passed is stored (finish_sync commits rows and cursor together).
THEOREM PassedIsStoredHolds == Spec => []PassedIsStored
<1>1. Kept => PassedIsStored
  BY Parts
<1> QED
  BY <1>1, InitKept, NextKept, PTL DEF Spec

\* A scope that never lost its cursor keeps no row whose removal the cursor has passed.
THEOREM RemovedIsGoneHolds == Spec => []RemovedIsGone
<1>1. Kept => RemovedIsGone
  BY Parts
<1> QED
  BY <1>1, InitKept, NextKept, PTL DEF Spec

\* A list that was read before the newest stored one never replaces it: the
\* revision is compared even where the provider gives no token.
THEOREM DirectoryIsNewestHolds == Spec => []DirectoryIsNewest
<1>1. Kept => DirectoryIsNewest
  BY Parts
<1> QED
  BY <1>1, InitKept, NextKept, PTL DEF Spec
=============================================================================
