------------------------- MODULE CalendarProposals -------------------------
(***************************************************************************)
(* The calendar proposals of one user: edits of a local proposal, the      *)
(* confirmations that a proposal made from a conversation needs, its       *)
(* submission, and the restoration of what an applied proposal changed.    *)
(*                                                                         *)
(* There is one event at the provider, which others edit too, and its      *)
(* cached copy, which a synchronisation refreshes and which an update and  *)
(* a restoration start from.  The version of the event (its ETag) counts   *)
(* its changes.  An edit, a suggestion of times and a confirmation read    *)
(* the proposal without a lock and save the whole next version by          *)
(* compare-and-set on its number; a restoration reads the event outside    *)
(* any transaction.  Both are two steps here.  A version never changes, so *)
(* its number stands for what was read of it.                              *)
(***************************************************************************)
EXTENDS Integers, FiniteSets

CONSTANTS
  Proposals,    \* proposal identifiers
  Created,      \* bound: those that requests create; the others are restorations
  Calendars,    \* writable calendars; the event lives in Home
  Home,
  Times,        \* start times
  Sessions,     \* requests and runs of workers in progress
  Keys,         \* idempotency keys of restorations
  None,
  MaxVersion,   \* bound: versions of a proposal
  MaxEtag       \* bound: versions of the event

ASSUME ConstantsAssumption ==
  /\ Home \in Calendars /\ Created \subseteq Proposals
  /\ None \notin Proposals \cup Calendars \cup Times \cup Sessions \cup Keys
              \cup {"create", "update", "restore"}
  /\ MaxVersion \in Nat \ {0} /\ MaxEtag \in Nat \ {0}

VARIABLES
  event,    \* the event at the provider
  cache,    \* CalendarEventModel of that event
  prop,     \* CalendarChangeProposalModel with its current desired snapshot
  seen,     \* history: the value each field had when the user confirmed it
  task,     \* the trusted task of a proposal, its approval and frozen command
  sent,     \* versions that were ever submitted
  restore,  \* tasks calendar.restore.prepare by key
  ses       \* what each session is doing

vars == <<event, cache, prop, seen, task, sent, restore, ses>>

-----------------------------------------------------------------------------
Statuses == {"absent", "editing", "awaiting_approval", "executing", "applied",
             "stale", "needs_attention", "cancelled"}
Fields == {"calendar", "time", "attendees", "notification_policy"}
Guests == {"some", "nobody"}
Policies == {"all", "none"}

\* What of an event's content the proposals are about.
Content(x) == [time |-> x.time, guests |-> x.guests]

Absent == [status |-> "absent", kind |-> None, explicit |-> FALSE, version |-> 0,
           target |-> None, time |-> None, guests |-> "nobody", policy |-> None,
           chosen |-> FALSE, confirmed |-> {}, slots |-> None,
           before |-> None, base |-> 0, key |-> None]
NoTask == [state |-> "none", version |-> 0, content |-> None, policy |-> None, base |-> 0]
NoRestore == [source |-> None, owner |-> None, result |-> None]
Idle == [op |-> "none", proposal |-> None, version |-> 0, key |-> None,
         cached |-> 0, got |-> None]
Unseen == [f \in Fields |-> None]

Init ==
  \E t \in Times :
    /\ event = [etag |-> 1, time |-> t, guests |-> "some"]
    /\ cache = event
    /\ prop = [p \in Proposals |-> Absent]
    /\ seen = [p \in Proposals |-> Unseen]
    /\ task = [p \in Proposals |-> NoTask]
    /\ sent = [p \in Proposals |-> {}]
    /\ restore = [k \in Keys |-> NoRestore]
    /\ ses = [s \in Sessions |-> Idle]

-----------------------------------------------------------------------------
(* The event and its copy                                                  *)

\* Somebody else edits the event at the provider.
EditElsewhere(t) ==
  /\ event.etag < MaxEtag /\ t # event.time
  /\ event' = [event EXCEPT !.etag = @ + 1, !.time = t]
  /\ UNCHANGED <<cache, prop, seen, task, sent, restore, ses>>

\* A synchronisation renews the copy.
Synchronise ==
  /\ cache # event
  /\ cache' = event
  /\ UNCHANGED <<event, prop, seen, task, sent, restore, ses>>

-----------------------------------------------------------------------------
(* Values                                                                  *)

\* Without a choice of the user the guests of a new event are invited, and
\* those of a changed one are told of changes of its time or its guests.
DefaultPolicy(kind, content, before) ==
  IF kind = "create" THEN IF content.guests = "some" THEN "all" ELSE "none"
  ELSE IF content # before THEN "all" ELSE "none"

Value(row, field) ==
  CASE field = "calendar" -> row.target
    [] field = "time" -> row.time
    [] field = "attendees" -> row.guests
    [] field = "notification_policy" -> row.policy

\* submission_ready.
Ready(row) ==
  /\ row.confirmed = Fields /\ row.policy # None /\ row.time # None
  /\ row.kind # "create" => row.before # None /\ Content(row) # row.before

-----------------------------------------------------------------------------
(* New proposals                                                           *)

Put(p, row, values) ==
  /\ prop[p].status = "absent"
  /\ prop' = [prop EXCEPT ![p] = row]
  /\ seen' = [seen EXCEPT ![p] = values]
  /\ UNCHANGED <<event, cache, task, sent, restore, ses>>

New(kind, explicit, target) ==
  [Absent EXCEPT !.status = "editing", !.kind = kind, !.explicit = explicit,
                 !.version = 1, !.target = target,
                 !.confirmed = IF explicit THEN {} ELSE Fields]

\* From a conversation: nothing but the default calendar.
CreateShell(p) ==
  Put(p, [New("create", TRUE, Home) EXCEPT !.guests = "nobody"], Unseen)

\* From a form with all the fields.
CreateEvent(p, c, t, g) ==
  Put(p, [New("create", FALSE, c) EXCEPT !.time = t, !.guests = g,
            !.policy = DefaultPolicy("create", [time |-> t, guests |-> g], None)], Unseen)

\* From the cached event, with its content and version as the snapshot before.
CreateUpdate(p, explicit, t) ==
  LET content == IF explicit THEN Content(cache) ELSE [Content(cache) EXCEPT !.time = t]
  IN Put(p, [New("update", explicit, Home) EXCEPT
               !.time = content.time, !.guests = content.guests,
               !.policy = DefaultPolicy("update", content, Content(cache)),
               !.before = Content(cache), !.base = cache.etag], Unseen)

-----------------------------------------------------------------------------
(* The next version                                                        *)

Free(s) == ses[s].op = "none"

Row(s) == prop[ses[s].proposal]

\* get_current, without a lock; what is done with it follows.
Load(s, p) ==
  /\ Free(s) /\ prop[p].status = "editing"
  /\ ses' = [ses EXCEPT ![s] = [Idle EXCEPT !.op = "loaded", !.proposal = p,
                                       !.version = prop[p].version]]
  /\ UNCHANGED <<event, cache, prop, seen, task, sent, restore>>

\* Variant: the row is found by its version alone.
SavesVersion(s) == prop[ses[s].proposal].version = ses[s].version

\* The compare-and-set of save_next_version.
Saves(s) ==
  LET p == ses[s].proposal
  IN prop[p].version = ses[s].version /\ prop[p].status = "editing"

SaveNextVersion(s, row, values) ==
  LET p == ses[s].proposal
  IN /\ \/ /\ Saves(s) /\ prop[p].version < MaxVersion
           /\ prop' = [prop EXCEPT ![p] =
                         [row EXCEPT !.version = @ + 1, !.status = prop[p].status]]
           /\ seen' = [seen EXCEPT ![p] = values]
        \/ ~Saves(s) /\ UNCHANGED <<prop, seen>>
     /\ ses' = [ses EXCEPT ![s] = Idle]
     /\ UNCHANGED <<event, cache, task, sent, restore>>

\* Variant: a new time leaves the confirmation of the old one.
OnlyGuestsAndPolicy(time, guests, policy) ==
  (IF guests # None THEN {"attendees", "notification_policy"} ELSE {})
  \cup (IF policy # None THEN {"notification_policy"} ELSE {})

\* _invalidated_confirmations; None is a field that the request leaves out.
Invalidated(time, guests, policy) ==
  (IF time # None THEN {"time"} ELSE {})
  \cup (IF guests # None THEN {"attendees", "notification_policy"} ELSE {})
  \cup (IF policy # None THEN {"notification_policy"} ELSE {})

\* _apply_user_changes, and edit, which forgets the times suggested before.
Edited(row, time, guests, policy) ==
  LET content == [time |-> IF time = None THEN row.time ELSE time,
                  guests |-> IF guests = None THEN row.guests ELSE guests]
      chosen == row.chosen \/ policy # None
      baseline == IF row.before = None THEN Content(row) ELSE row.before
  IN [row EXCEPT
        !.time = content.time, !.guests = content.guests, !.chosen = chosen,
        !.policy = IF policy # None THEN policy
                   ELSE IF chosen THEN row.policy
                   ELSE DefaultPolicy(row.kind, content, baseline),
        !.slots = IF time = None THEN row.slots ELSE None,
        !.confirmed = IF row.explicit THEN @ \ Invalidated(time, guests, policy)
                      ELSE Fields]

Edit(s, time, guests, policy) ==
  /\ ses[s].op = "loaded"
  /\ SaveNextVersion(s, Edited(Row(s), time, guests, policy), seen[ses[s].proposal])

\* Free times are computed for the length and the accounts of the proposal.
Suggest(s) ==
  /\ ses[s].op = "loaded" /\ Row(s).time # None
  /\ SaveNextVersion(s, [Row(s) EXCEPT !.slots = <<Row(s).time, Row(s).target>>],
                     seen[ses[s].proposal])

\* confirm one field; only a new event may go to another calendar.
Confirmed(row, field, c) ==
  [row EXCEPT !.confirmed = @ \cup {field},
              !.slots = IF c = row.target THEN @ ELSE None, !.target = c]

Confirm(s, field, c) ==
  LET row == Row(s)
      next == Confirmed(row, field, c)
  IN /\ ses[s].op = "loaded" /\ row.explicit
     /\ c # row.target => field = "calendar" /\ row.kind = "create"
     /\ field \in {"time", "notification_policy"} => Value(row, field) # None
     /\ SaveNextVersion(s, next,
          [seen[ses[s].proposal] EXCEPT ![field] = Value(next, field)])

\* The transition table lets every local and every submitted proposal go.
Cancel(p) ==
  /\ prop[p].status \in {"editing", "awaiting_approval", "stale"}
  /\ prop' = [prop EXCEPT ![p].status = "cancelled"]
  /\ UNCHANGED <<event, cache, seen, task, sent, restore, ses>>

-----------------------------------------------------------------------------
(* Submission and execution                                                *)

\* _validate_calendar_snapshot; a version is submitted once.
Submittable(p) ==
  /\ prop[p].status = "editing" /\ Ready(prop[p]) /\ prop[p].version \notin sent[p]
  /\ prop[p].kind # "create" => prop[p].base = cache.etag

Submit(p) ==
  /\ task[p].state = "none" /\ Submittable(p)
  /\ task' = [task EXCEPT ![p] =
                [state |-> "pending", version |-> prop[p].version,
                 content |-> Content(prop[p]), policy |-> prop[p].policy,
                 base |-> prop[p].base]]
  /\ sent' = [sent EXCEPT ![p] = @ \cup {prop[p].version}]
  /\ prop' = [prop EXCEPT ![p].status = "awaiting_approval"]
  /\ UNCHANGED <<event, cache, seen, restore, ses>>

Conclude(p, state, status) ==
  /\ task' = [task EXCEPT ![p] = IF state = "closed" THEN NoTask ELSE [@ EXCEPT !.state = state]]
  /\ prop' = [prop EXCEPT ![p].status = status]

\* Approval, and the claim before execution, ask for the proposal as it was
\* submitted; a rejection, an expiry or a withdrawal gives it back.
Approve(p) ==
  /\ task[p].state = "pending" /\ prop[p].status = "awaiting_approval"
  /\ Conclude(p, "approved", "awaiting_approval")
  /\ UNCHANGED <<event, cache, seen, sent, restore, ses>>
GiveBack(p) ==
  /\ task[p].state \in {"pending", "approved"}
  /\ prop[p].status = "awaiting_approval"
  /\ Conclude(p, "closed", "editing")
  /\ UNCHANGED <<event, cache, seen, sent, restore, ses>>
Claim(p) ==
  /\ task[p].state = "approved" /\ prop[p].status = "awaiting_approval"
  /\ Conclude(p, "claimed", "executing")
  /\ UNCHANGED <<event, cache, seen, sent, restore, ses>>

\* Variant: the request carries no version.
AcceptsAny(p) == task[p].base = task[p].base

\* The provider compares the version of the request with the event's.
Accepts(p) == task[p].base = event.etag

\* The write, the answer and what is made of it; an answer that is lost leaves
\* the proposal to the read-only reconciliation and the user.
Execute(p) ==
  /\ task[p].state = "claimed" /\ prop[p].status = "executing"
  /\ \/ /\ prop[p].kind = "create" \/ (Accepts(p) /\ event.etag < MaxEtag)
        /\ event' = IF prop[p].kind = "create" THEN event
                    ELSE [etag |-> event.etag + 1, time |-> task[p].content.time,
                          guests |-> task[p].content.guests]
        /\ \/ Conclude(p, "closed", "applied")
           \/ Conclude(p, "written", "needs_attention")
     \/ /\ prop[p].kind # "create" /\ ~Accepts(p)
        /\ Conclude(p, "closed", "stale") /\ UNCHANGED event
     \/ /\ \/ Conclude(p, "closed", "editing")
           \/ Conclude(p, "refused", "needs_attention")
        /\ UNCHANGED event
  /\ UNCHANGED <<cache, seen, sent, restore, ses>>

Reconcile(p) ==
  /\ prop[p].status = "needs_attention"
  /\ \/ task[p].state = "written" /\ Conclude(p, "closed", "applied")
     \/ task[p].state = "refused" /\ Conclude(p, "closed", "editing")
  /\ UNCHANGED <<event, cache, seen, sent, restore, ses>>

-----------------------------------------------------------------------------
(* Restoration                                                             *)

\* validate_calendar_restore_source_projection, get_eligible_restore_source.
Restorable(p) == prop[p].kind = "update" /\ prop[p].status = "applied"

EnqueueRestore(k, p) ==
  /\ restore[k].source = None /\ Restorable(p)
  /\ restore' = [restore EXCEPT ![k].source = p]
  /\ UNCHANGED <<event, cache, prop, seen, task, sent, ses>>

\* A delivery takes the lease over and plans the read with the version of the
\* cached event.
PlanRestore(s, k) ==
  /\ Free(s) /\ restore[k].source # None /\ restore[k].result = None
  /\ Restorable(restore[k].source)
  /\ restore' = [restore EXCEPT ![k].owner = s]
  /\ ses' = [ses EXCEPT ![s] = [Idle EXCEPT !.op = "plan", !.key = k, !.cached = cache.etag]]
  /\ UNCHANGED <<event, cache, prop, seen, task, sent>>

GetCurrentEvent(s) ==
  /\ ses[s].op = "plan"
  /\ ses' = [ses EXCEPT ![s].op = "restore", ![s].got = event]
  /\ UNCHANGED <<event, cache, prop, seen, task, sent, restore>>

\* Variant: the answer is stored whatever was stored meanwhile.
UnmovedAlways(s) == ses[s].cached \in 1..MaxEtag

\* The cached event is still the one that the read was planned with.
Unmoved(s) == cache.etag = ses[s].cached

\* create_restore for a key without a proposal: the old content, against the
\* current one, and only the notification left to confirm.
Restored(source, got, k) ==
  LET old == prop[source].before
  IN [New("restore", TRUE, Home) EXCEPT
        !.time = old.time, !.guests = old.guests,
        !.policy = DefaultPolicy("restore", old, Content(got)),
        !.confirmed = Fields \ {"notification_policy"},
        !.before = Content(got), !.base = got.etag, !.key = k]

\* The proposal, the cached event and the marker in one transaction of the
\* owner of the lease; otherwise nothing.
CommitRestore(s) ==
  LET k == ses[s].key
      source == restore[k].source
  IN /\ ses[s].op = "restore"
     /\ \/ /\ restore[k].owner = s /\ restore[k].result = None
           /\ Restorable(source) /\ Unmoved(s)
           /\ \E p \in Proposals :
                LET row == Restored(source, ses[s].got, k) IN
                /\ prop[p].status = "absent"
                /\ prop' = [prop EXCEPT ![p] = row]
                /\ seen' = [seen EXCEPT ![p] =
                     [f \in Fields |-> IF f \in row.confirmed THEN Value(row, f) ELSE None]]
                /\ restore' = [restore EXCEPT ![k].result = p, ![k].owner = None]
           /\ cache' = ses[s].got
        \/ /\ ~(restore[k].owner = s /\ restore[k].result = None /\ Unmoved(s))
           /\ UNCHANGED <<prop, seen, restore, cache>>
     /\ ses' = [ses EXCEPT ![s] = Idle]
     /\ UNCHANGED <<event, task, sent>>

\* A request or a worker is lost between two of its transactions.
Crash(s) ==
  /\ ~Free(s) /\ ses' = [ses EXCEPT ![s] = Idle]
  /\ UNCHANGED <<event, cache, prop, seen, task, sent, restore>>

-----------------------------------------------------------------------------
Create(p) ==
  \/ CreateShell(p)
  \/ \E c \in Calendars, t \in Times, g \in Guests : CreateEvent(p, c, t, g)
  \/ \E t \in Times, explicit \in BOOLEAN : CreateUpdate(p, explicit, t)

Change(s) ==
  \/ \E p \in Proposals : Load(s, p)
  \/ \E t \in Times : Edit(s, t, None, None)
  \/ \E g \in Guests, n \in Policies \cup {None} : Edit(s, None, g, n)
  \/ \E n \in Policies : Edit(s, None, None, n)
  \/ Suggest(s)
  \/ \E f \in Fields, c \in Calendars : Confirm(s, f, c)
  \/ \E k \in Keys : PlanRestore(s, k)
  \/ GetCurrentEvent(s) \/ CommitRestore(s) \/ Crash(s)

Next ==
  \/ \E t \in Times : EditElsewhere(t)
  \/ Synchronise
  \/ \E p \in Created : Create(p)
  \/ \E p \in Proposals : Cancel(p) \/ Submit(p) \/ Approve(p) \/ GiveBack(p)
                            \/ Claim(p) \/ Execute(p) \/ Reconcile(p)
  \/ \E k \in Keys, p \in Proposals : EnqueueRestore(k, p)
  \/ \E s \in Sessions : Change(s)

Spec == Init /\ [][Next]_vars

-----------------------------------------------------------------------------
(* Properties                                                              *)

\* What counts as confirmed is what the user was shown when confirming it, and
\* the suggested times are for the time and the calendar of the same version,
\* whatever edits, suggestions and confirmations overtake each other.
StillConfirmed(fields) ==
  \A p \in Proposals : \A f \in fields :
    prop[p].explicit /\ f \in prop[p].confirmed => seen[p][f] = Value(prop[p], f)
ConfirmedIsShown ==
  /\ StillConfirmed(Fields \ {"notification_policy"})
  /\ \A p \in Proposals : prop[p].slots # None =>
       prop[p].slots = <<prop[p].time, prop[p].target>>

\* "An ordinary save may invalidate confirmations but never confirms."
NothingConfirmedUnseen == StillConfirmed({"notification_policy"})

\* While a task waits or runs its proposal is the one that was frozen; only a
\* cancellation leaves the task behind.
FrozenIsCurrent ==
  \A p \in Proposals :
    LET x == task[p]
        y == prop[p]
    IN /\ x.state # "none" =>
            /\ y.version = x.version /\ Content(y) = x.content
            /\ y.policy = x.policy /\ y.base = x.base
            /\ y.status \in CASE x.state \in {"pending", "approved"} ->
                                     {"awaiting_approval", "cancelled"}
                              [] x.state = "claimed" -> {"executing"}
                              [] OTHER -> {"needs_attention"}
       /\ y.status \in {"awaiting_approval", "executing", "needs_attention"} =>
            x.state # "none"

\* An approved update or restoration replaces exactly the content that its
\* snapshot before shows to the approver, never an edit made elsewhere.
OverwritesOnlyShown ==
  [][\A p \in Proposals :
       task[p].state = "claimed" /\ event' # event /\ task'[p] # task[p]
         => Content(event) = prop[p].before]_vars

\* A restoration starts from the newest event that is known, and never puts an
\* older answer over a newer copy.
RestoreStartsFresh ==
  [][\A p \in Proposals :
       prop[p].status = "absent" /\ prop'[p].kind = "restore" =>
         /\ cache'.etag >= cache.etag /\ prop'[p].base = cache'.etag
         /\ prop'[p].before = Content(cache')
         /\ \A q \in Proposals : q # p => prop[q].key # prop'[p].key]_vars
=============================================================================
