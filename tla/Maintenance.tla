---------------------------- MODULE Maintenance ----------------------------
(***************************************************************************)
(* The maintenance job of the API replicas, and what it does to a tenant's *)
(* subscriptions and to its notifications, while platform staff activate,  *)
(* extend and suspend.                                                     *)
(*                                                                         *)
(* A replica whose timer fires takes the lease and works through its       *)
(* tasks.  The lease lasts 30 seconds whatever the tick takes, so a second *)
(* replica may begin before the first has ended.  Each task reads what is  *)
(* due and then writes row by row, by id alone.  Platform transactions are *)
(* serializable and appear as one step.                                    *)
(***************************************************************************)
EXTENDS Naturals, FiniteSets

CONSTANTS
    Replicas,
    Subs,          \* rows of Subscription, of one tenant
    Notes,         \* rows of Notification
    GraceDays,
    MaxAttempts,   \* attempts after which a notification is not read again
    MaxTime,       \* bound: days
    MaxActs,       \* bound: actions of platform staff
    MaxFaults      \* bound: crashes and ticks that fail

ASSUME MaintenanceAssumption ==
    /\ IsFiniteSet(Replicas)
    /\ GraceDays \in Nat /\ MaxAttempts \in Nat \ {0} /\ MaxTime \in Nat \ {0}
    /\ MaxActs \in Nat /\ MaxFaults \in Nat

VARIABLES
    now,
    sub,      \* [status, ends, grace] of a subscription; a grace of 0 is null
    tenant,   \* Tenant.status
    byStaff,  \* is the tenant suspended by platform staff?
    raced,    \* have staff ever acted while a task had rows in hand?
    note,     \* [status, attempts, due] of a notification
    lease,    \* is the lease held? it is never given back, it lapses
    at,       \* where a replica's tick stands
    today,    \* the day its task took at its start
    todo,     \* the rows its task has read and not handled
    acts,
    faults

jobVars == <<now, sub, tenant, byStaff, raced, note, lease, at, today, todo, acts, faults>>
rows == <<sub, tenant, byStaff, raced, note>>

Status == {"NONE", "ACTIVE", "PAST_DUE", "SUSPENDED", "CANCELLED"}
Rows == [status : Status, ends : 0..MaxTime + 1, grace : 0..MaxTime + GraceDays]

(* Replicas that overlap take the counter past the limit, each of them once. *)
MostAttempts == MaxAttempts + Cardinality(Replicas) - 1
Mail == [status : {"PENDING", "FAILED", "SENT"}, attempts : 0..MostAttempts, due : BOOLEAN]

JobTypeOK ==
    /\ now \in 1..MaxTime
    /\ sub \in [Subs -> Rows]
    /\ tenant \in {"ACTIVE", "SUSPENDED"}
    /\ byStaff \in BOOLEAN /\ raced \in BOOLEAN
    /\ note \in [Notes -> Mail]
    /\ lease \in BOOLEAN
    /\ at \in [Replicas -> {"idle", "tasks", "grace", "suspend", "sending"}]
    /\ today \in [Replicas -> 0..MaxTime]
    /\ todo \in [Replicas -> SUBSET ((Subs \X Rows) \cup (Notes \X Mail))]
    /\ acts \in 0..MaxActs /\ faults \in 0..MaxFaults

JobInit ==
    /\ now = 1
    /\ sub = [s \in Subs |-> [status |-> "NONE", ends |-> 0, grace |-> 0]]
    /\ tenant = "ACTIVE" /\ byStaff = FALSE /\ raced = FALSE
    /\ note = [n \in Notes |-> [status |-> "PENDING", attempts |-> 0, due |-> TRUE]]
    /\ lease = FALSE
    /\ at = [r \in Replicas |-> "idle"]
    /\ today = [r \in Replicas |-> 0]
    /\ todo = [r \in Replicas |-> {}]
    /\ acts = 0 /\ faults = 0

NextDay ==
    /\ now < MaxTime
    /\ now' = now + 1
    /\ UNCHANGED <<rows, lease, at, today, todo, acts, faults>>

-----------------------------------------------------------------------------
(* Platform staff. *)

Act == acts < MaxActs /\ acts' = acts + 1
Staff ==
    /\ Act
    /\ raced' = (raced \/ \E r \in Replicas : at[r] # "sending" /\ todo[r] # {})
    /\ UNCHANGED <<now, note, lease, at, today, todo, faults>>

(* A new subscription replaces the current ones. *)
Activate(s) ==
    /\ sub[s].status = "NONE"
    /\ sub' = [x \in Subs |->
                  IF x = s THEN [status |-> "ACTIVE", ends |-> now + 1, grace |-> 0]
                  ELSE IF sub[x].status \in {"ACTIVE", "PAST_DUE"}
                  THEN [sub[x] EXCEPT !.status = "CANCELLED"] ELSE sub[x]]
    /\ tenant' = "ACTIVE" /\ byStaff' = FALSE
    /\ Staff

ExtensionBase(end) == IF end > now THEN end ELSE now

Extend(s) ==
    /\ sub[s].status # "NONE" /\ ExtensionBase(sub[s].ends) <= MaxTime
    /\ sub' = [sub EXCEPT ![s] = [status |-> "ACTIVE", grace |-> 0,
                                  ends |-> ExtensionBase(sub[s].ends) + 1]]
    /\ tenant' = "ACTIVE" /\ byStaff' = FALSE
    /\ Staff

SetStatus(s, status) ==
    /\ sub[s].status # "NONE"
    /\ status = "ACTIVE" => sub[s].ends > now \/ sub[s].grace > now
    /\ sub' = [sub EXCEPT ![s].status = status]
    /\ tenant' = IF status = "SUSPENDED" THEN "SUSPENDED" ELSE "ACTIVE"
    /\ byStaff' = (status = "SUSPENDED")
    /\ Staff

-----------------------------------------------------------------------------
(* The job. *)

Move(r, place) == at' = [at EXCEPT ![r] = place]
Todo(r, set) == todo' = [todo EXCEPT ![r] = set]

LeaseLapses ==
    /\ lease
    /\ lease' = FALSE
    /\ UNCHANGED <<now, rows, at, today, todo, acts, faults>>

(* The timer fires: the lease, then the draws and the results, which are    *)
(* the matter of other modules; when they throw the tick is over.           *)
Tick(r) ==
    /\ at[r] = "idle" /\ ~lease
    /\ lease' = TRUE
    /\ Move(r, "tasks")
    /\ UNCHANGED <<now, rows, today, todo, acts, faults>>

(* subscriptions(): the ones whose period has ended. *)
ExpiredSubs == {s \in Subs : sub[s].status = "ACTIVE" /\ sub[s].ends <= now}

ReadExpired(r) ==
    /\ at[r] = "tasks"
    /\ today' = [today EXCEPT ![r] = now]
    /\ Todo(r, {<<s, sub[s]>> : s \in ExpiredSubs})
    /\ Move(r, "grace")
    /\ UNCHANGED <<now, rows, lease, acts, faults>>

(* The days of grace run from today, unless they have been granted before. *)
GraceEnd(row, day) == IF row.grace # 0 THEN row.grace ELSE day + GraceDays

StartGrace(r) ==
    /\ at[r] = "grace"
    /\ \E x \in todo[r] :
          /\ sub' = [sub EXCEPT ![x[1]].status = "PAST_DUE",
                                ![x[1]].grace = GraceEnd(x[2], today[r])]
          /\ Todo(r, todo[r] \ {x})
    /\ UNCHANGED <<now, tenant, byStaff, raced, note, lease, at, today, acts, faults>>

(* A mutant: all that are past due. *)
LapsedSubsEarly(day) == {s \in Subs : sub[s].status = "PAST_DUE"}

(* A mutant: the grace has to be over before the day. *)
LapsedSubsAfter(day) ==
    {s \in Subs : sub[s].status = "PAST_DUE" /\ sub[s].grace # 0 /\ sub[s].grace < day}

LapsedSubs(day) ==
    {s \in Subs : sub[s].status = "PAST_DUE" /\ sub[s].grace # 0 /\ sub[s].grace <= day}

ReadLapsed(r) ==
    /\ at[r] = "grace" /\ todo[r] = {}
    /\ Todo(r, {<<s, sub[s]>> : s \in LapsedSubs(today[r])})
    /\ Move(r, "suspend")
    /\ UNCHANGED <<now, rows, lease, today, acts, faults>>

Suspend(r) ==
    /\ at[r] = "suspend"
    /\ \E x \in todo[r] :
          /\ sub' = [sub EXCEPT ![x[1]].status = "SUSPENDED"]
          /\ Todo(r, todo[r] \ {x})
    /\ tenant' = "SUSPENDED"
    /\ UNCHANGED <<now, byStaff, raced, note, lease, at, today, acts, faults>>

(* notifications(): those due that have been tried fewer than MaxAttempts times. *)
DueNotes == {n \in Notes : note[n].status # "SENT" /\ note[n].due /\ note[n].attempts < MaxAttempts}

ReadNotes(r) ==
    /\ at[r] = "suspend" /\ todo[r] = {}
    /\ Todo(r, {<<n, note[n]>> : n \in DueNotes})
    /\ today' = [today EXCEPT ![r] = 0]
    /\ Move(r, "sending")
    /\ UNCHANGED <<now, rows, lease, acts, faults>>

(* A mutant: a failure is put off without being counted. *)
FailedUncounted(row) == [row EXCEPT !.status = "FAILED", !.due = FALSE]

(* What a failure writes follows from what was read. *)
Failed(row) == [status |-> "FAILED", attempts |-> row.attempts + 1, due |-> FALSE]

(* Sent outside a transaction, then noted.  The adapter accepts or not.  A  *)
(* success increments the counter of the row as it is, a failure writes one *)
(* more than was read.  Notifications of the channel IN_APP are left out.   *)
Deliver(r) ==
    /\ at[r] = "sending"
    /\ \E x \in todo[r] :
          /\ Todo(r, todo[r] \ {x})
          /\ note' = [note EXCEPT ![x[1]] = [status |-> "SENT", due |-> @.due, attempts |-> @.attempts + 1]]
             \/ note' = [note EXCEPT ![x[1]] = Failed(x[2])]
    /\ UNCHANGED <<now, sub, tenant, byStaff, raced, lease, at, today, acts, faults>>

EndTick(r) ==
    /\ at[r] = "sending" /\ todo[r] = {}
    /\ Move(r, "idle")
    /\ UNCHANGED <<now, rows, lease, today, todo, acts, faults>>

(* retryDelay has passed. *)
BecomeDue(n) ==
    /\ note[n].status = "FAILED" /\ ~note[n].due
    /\ note' = [note EXCEPT ![n].due = TRUE]
    /\ UNCHANGED <<now, sub, tenant, byStaff, raced, lease, at, today, todo, acts, faults>>

(* A task throws, or the replica restarts: what is left of the tick is not done. *)
BreakOff(r) ==
    /\ at[r] # "idle" /\ faults < MaxFaults
    /\ faults' = faults + 1
    /\ Move(r, "idle") /\ Todo(r, {})
    /\ today' = [today EXCEPT ![r] = 0]
    /\ UNCHANGED <<now, rows, lease, acts>>

Task(r) ==
    \/ ReadExpired(r) \/ StartGrace(r) \/ ReadLapsed(r) \/ Suspend(r)
    \/ ReadNotes(r) \/ Deliver(r) \/ EndTick(r)

JobNext ==
    \/ NextDay \/ LeaseLapses
    \/ \E s \in Subs : Activate(s) \/ Extend(s)
                       \/ \E t \in {"ACTIVE", "PAST_DUE", "SUSPENDED", "CANCELLED"} : SetStatus(s, t)
    \/ \E r \in Replicas : Tick(r) \/ Task(r) \/ BreakOff(r)
    \/ \E n \in Notes : BecomeDue(n)

(* Time passes, a lease lapses, timers fire again and again, and a task   *)
(* that is under way gets on.                                               *)
JobFairness ==
    /\ WF_jobVars(LeaseLapses)
    /\ WF_jobVars(\E r \in Replicas : Tick(r))
    /\ \A r \in Replicas : WF_jobVars(Task(r))
    /\ \A n \in Notes : WF_jobVars(BecomeDue(n))

JobSpec == JobInit /\ [][JobNext]_jobVars /\ JobFairness

-----------------------------------------------------------------------------
(* Without staff in its way, the job suspends a subscription only when its  *)
(* period ended GraceDays ago or more, whichever replica started its grace. *)
GraceIsGranted ==
    \A r \in Replicas : (at[r] = "suspend" /\ ~raced) =>
        \A x \in todo[r] : sub[x[1]].ends + GraceDays <= now

(* Whoever stays past due beyond the grace is suspended, whatever ticks break *)
(* off and however replicas overlap, unless its grace is moved once more.     *)
LapsedIsSuspended ==
    \A s \in Subs : LET Overdue == sub[s].status = "PAST_DUE" /\ sub[s].grace # 0 /\ sub[s].grace <= now
                    IN  Overdue ~> ~Overdue

(* Every notification is delivered or tried the full number of times. *)
NotesAreSettled ==
    \A n \in Notes : <>(note[n].status = "SENT" \/ note[n].attempts >= MaxAttempts)
=============================================================================
