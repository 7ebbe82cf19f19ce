----------------------------- MODULE OfflineSync -----------------------------
(***************************************************************************)
(* Ticket sales made on a phone that loses its connection: the outbox in   *)
(* the phone, the runs of the sync engine that send it in batches, and the *)
(* handlers of /sync/batch that answer them, one per request, with the     *)
(* sync jobs and the tickets they store.                                   *)
(*                                                                         *)
(* A request outlives the run that sent it: when the phone gives up, the   *)
(* handler goes on.  Each app entry point builds an engine of its own, so  *)
(* several runs can be under way in one phone.  A handler step is one      *)
(* statement or transaction; nothing holds them together.                  *)
(***************************************************************************)
EXTENDS Naturals, FiniteSets

CONSTANTS
    Mutations,   \* sales that reach the outbox, numbered in the order of created_at
    Requests,    \* bound: batches being sent or handled at one time
    BatchLimit,  \* rows the engine reads from the outbox at once
    MaxLosses,   \* bound: answers the phone does not get, and ends of its app
    MaxFaults    \* bound: handlers that crash and statements that fail

ASSUME MutationAssumption == Mutations \subseteq Nat
ASSUME LimitAssumption == BatchLimit \in Nat \ {0} /\ MaxLosses \in Nat /\ MaxFaults \in Nat

VARIABLES
    outbox,    \* outbox.status, "NONE" before the row exists
    due,       \* has next_attempt_at passed?
    receipts,  \* has a receipt been put in the print queue?
    online,    \* the direct sale whose answer never reached the phone
    payload,   \* is the queued sale on the draws the merchant asked for, or on another?
    open,      \* is betting open on the draws the merchant asked for?
    ticket,    \* the ticket stored under this idempotency key, likewise, or "none"
    job,       \* SyncJob.status, "NONE" before the row exists
    device,    \* Device.status
    waiting,   \* is a run still waiting for the answer of this request?
    step,      \* where the handler of the request stands
    rest,      \* mutations of the request not answered yet
    answer,    \* the results it will return, "NONE" for the others
    losses,
    faults

phoneVars  == <<outbox, payload, due, receipts, waiting>>
serverVars == <<online, open, ticket, job, device>>
vars == <<phoneVars, serverVars, step, rest, answer, losses, faults>>

JobStatus == {"RECEIVED", "APPLIED", "REJECTED"}
Owning == {"sell", "commit", "record", "reject"}
Handling == {"admit", "greet", "lookup", "create"} \cup Owning
Steps == {"idle", "replied", "refused", "answered", "printing"} \cup Handling

TypeOK ==
    /\ outbox \in [Mutations -> {"NONE", "PENDING", "RETRY", "APPLIED", "REJECTED"}]
    /\ due \in [Mutations -> BOOLEAN]
    /\ receipts \in [Mutations -> BOOLEAN]
    /\ online \in [Mutations -> {"none", "sent", "checked"}]
    /\ open \in [Mutations -> BOOLEAN]
    /\ payload \in [Mutations -> {"asked", "other"}]
    /\ ticket \in [Mutations -> {"none", "asked", "other"}]
    /\ job \in [Mutations -> {"NONE"} \cup JobStatus]
    /\ device \in {"ONLINE", "OFFLINE", "BLOCKED"}
    /\ waiting \in [Requests -> BOOLEAN]
    /\ step \in [Requests -> Steps]
    /\ rest \in [Requests -> SUBSET Mutations]
    /\ answer \in [Requests -> [Mutations -> {"NONE"} \cup JobStatus]]
    /\ losses \in 0..MaxLosses
    /\ faults \in 0..MaxFaults

NoAnswers == [m \in Mutations |-> "NONE"]

Init ==
    /\ outbox = [m \in Mutations |-> "NONE"]
    /\ due = [m \in Mutations |-> FALSE]
    /\ receipts = [m \in Mutations |-> FALSE]
    /\ online = [m \in Mutations |-> "none"]
    /\ open = [m \in Mutations |-> TRUE]
    /\ payload = [m \in Mutations |-> "asked"]
    /\ ticket = [m \in Mutations |-> "none"]
    /\ job = [m \in Mutations |-> "NONE"]
    /\ device = "OFFLINE"
    /\ waiting = [q \in Requests |-> FALSE]
    /\ step = [q \in Requests |-> "idle"]
    /\ rest = [q \in Requests |-> {}]
    /\ answer = [q \in Requests |-> NoAnswers]
    /\ losses = 0
    /\ faults = 0

-----------------------------------------------------------------------------
(***************************************************************************)
(* The phone.                                                              *)
(***************************************************************************)

\* sell() has posted the sale and got no answer: it puts it in the outbox under the same key.  The
\* request may have been lost on its way (\E arrived) or be on its way through the server.  The
\* queued sale has all the lines on the one draw selected now: not what was asked when there were
\* several draws, or when restoring the offline catalogue has just selected another.
Queue(m) ==
    /\ outbox[m] = "NONE"
    /\ \A n \in Mutations : n < m => outbox[n] # "NONE"
    /\ outbox' = [outbox EXCEPT ![m] = "PENDING"]
    /\ due' = [due EXCEPT ![m] = TRUE]
    /\ \E arrived \in BOOLEAN : online' = [online EXCEPT ![m] = IF arrived THEN "sent" ELSE "none"]
    /\ payload' \in {[payload EXCEPT ![m] = p] : p \in {"asked", "other"}}
    /\ UNCHANGED <<receipts, open, ticket, job, device, waiting, step, rest, answer, losses, faults>>

ReadyRowsPending == {m \in Mutations : outbox[m] = "PENDING"}  \* mutant: put-off rows are forgotten
ReadyRows == {m \in Mutations : outbox[m] \in {"PENDING", "RETRY"} /\ due[m]}

\* SELECT ... ORDER BY created_at LIMIT n
Batch == {m \in ReadyRows : Cardinality({n \in ReadyRows : n < m}) < BatchLimit}

Authorized == device \in {"ONLINE", "OFFLINE"}

\* prepareDevice has just found the device in service; the handler looks again.  The guard `_running` belongs
\* to the engine object, and each call of sync() builds a new one.
Run(q) ==
    /\ step[q] = "idle"
    /\ Authorized
    /\ Batch # {}
    /\ waiting' = [waiting EXCEPT ![q] = TRUE]
    /\ step' = [step EXCEPT ![q] = "admit"]
    /\ rest' = [rest EXCEPT ![q] = Batch]
    /\ answer' = [answer EXCEPT ![q] = NoAnswers]
    /\ UNCHANGED <<outbox, payload, due, receipts, serverVars, losses, faults>>

IsFirst(m, S) == m \in S /\ \A n \in S : m <= n
Answered(q) == {m \in Mutations : answer[q][m] # "NONE"}

\* A result RECEIVED leaves its row as it is.
RowAfter(m, status) == IF status \in {"APPLIED", "REJECTED"} THEN status ELSE outbox[m]

\* The answer arrives.
Receive(q) ==
    /\ step[q] = "replied"
    /\ step' = [step EXCEPT ![q] = "answered"]
    /\ UNCHANGED <<phoneVars, serverVars, rest, answer, losses, faults>>

\* The results are applied in the order of the batch; an APPLIED one is followed by a call for the
\* ticket to print, during which anything can happen.
TakeAnswer(q, m) ==
    /\ step[q] = "answered"
    /\ IsFirst(m, Answered(q))
    /\ outbox' = [outbox EXCEPT ![m] = RowAfter(m, answer[q][m])]
    /\ IF answer[q][m] = "APPLIED"
       THEN step' = [step EXCEPT ![q] = "printing"] /\ UNCHANGED answer
       ELSE answer' = [answer EXCEPT ![q][m] = "NONE"] /\ UNCHANGED step
    /\ UNCHANGED <<payload, due, receipts, waiting, serverVars, rest, losses, faults>>

\* The ticket is fetched and its receipt queued, or the row is marked for a manual print.
PrintAnswer(q, m) ==
    /\ step[q] = "printing"
    /\ IsFirst(m, Answered(q))
    /\ \E fetched \in BOOLEAN : receipts' = [receipts EXCEPT ![m] = @ \/ fetched]
    /\ answer' = [answer EXCEPT ![q][m] = "NONE"]
    /\ step' = [step EXCEPT ![q] = "answered"]
    /\ UNCHANGED <<outbox, payload, due, waiting, serverVars, rest, losses, faults>>

EndRun(q) ==
    /\ step[q] = "answered"
    /\ Answered(q) = {}
    /\ step' = [step EXCEPT ![q] = "idle"]
    /\ waiting' = [waiting EXCEPT ![q] = FALSE]
    /\ UNCHANGED <<outbox, payload, due, receipts, serverVars, rest, answer, losses, faults>>

\* The answer was an error or did not come: whatever is ready now is put off, sent or not.
RowsToRetrySent(q) == Answered(q)  \* mutant: the rows that were sent, whatever became of them
RowsToRetry(q) == Batch

PutOff(q) ==
    /\ waiting[q]
    /\ outbox' = [m \in Mutations |-> IF m \in RowsToRetry(q) THEN "RETRY" ELSE outbox[m]]
    /\ due' = [m \in Mutations |-> due[m] /\ m \notin RowsToRetry(q)]
    /\ waiting' = [waiting EXCEPT ![q] = FALSE]
    /\ UNCHANGED <<payload, receipts, serverVars, rest, answer, faults>>

TakeRefusal(q) ==
    /\ step[q] = "refused"
    /\ step' = [step EXCEPT ![q] = "idle"]
    /\ PutOff(q)
    /\ UNCHANGED losses

\* The connection drops or times out, and the handler goes on without a listener.
LoseAnswer(q) ==
    /\ losses < MaxLosses
    /\ losses' = losses + 1
    /\ step[q] \in Handling \cup {"replied"}
    /\ step' = [step EXCEPT ![q] = IF @ = "replied" THEN "idle" ELSE @]
    /\ PutOff(q)

\* The app ends, with every run in it.  Rows are durable.
EndApp ==
    /\ losses < MaxLosses
    /\ losses' = losses + 1
    /\ waiting' = [q \in Requests |-> FALSE]
    /\ step' = [q \in Requests |-> IF step[q] \in Handling THEN step[q] ELSE "idle"]
    /\ UNCHANGED <<outbox, payload, due, receipts, serverVars, rest, answer, faults>>

\* The backoff, of 256 seconds at most, is over.
BecomeDue(m) ==
    /\ outbox[m] = "RETRY" /\ ~due[m]
    /\ due' = [due EXCEPT ![m] = TRUE]
    /\ UNCHANGED <<outbox, payload, receipts, waiting, serverVars, step, rest, answer, losses, faults>>

-----------------------------------------------------------------------------
(***************************************************************************)
(* The handler of a batch.                                                 *)
(***************************************************************************)

\* What the phone sees of a handler that has ended, if a run still waits.
Ending(q, seen) == IF waiting[q] THEN seen ELSE "idle"

Fail(q) ==
    /\ step' = [step EXCEPT ![q] = Ending(q, "refused")]
    /\ rest' = [rest EXCEPT ![q] = {}]
    /\ answer' = [answer EXCEPT ![q] = NoAnswers]

Admit(q) ==
    /\ step[q] = "admit"
    /\ IF Authorized
       THEN step' = [step EXCEPT ![q] = "greet"] /\ UNCHANGED <<rest, answer>>
       ELSE Fail(q)
    /\ UNCHANGED <<phoneVars, serverVars, losses, faults>>

\* The device row is updated by its id alone, whatever its status has become.
Greet(q) ==
    /\ step[q] = "greet"
    /\ device' = "ONLINE"
    /\ step' = [step EXCEPT ![q] = "lookup"]
    /\ UNCHANGED <<phoneVars, online, open, ticket, job, rest, answer, losses, faults>>

Finish(q, m, status) ==
    /\ answer' = [answer EXCEPT ![q][m] = status]
    /\ rest' = [rest EXCEPT ![q] = @ \ {m}]
    /\ step' = [step EXCEPT ![q] = "lookup"]

\* prior.response, or prior.status while there is none
StoredRejecting(m) ==  \* mutant: an unfinished job is answered as a failed one
    IF job[m] = "RECEIVED" THEN "REJECTED" ELSE job[m]
Stored(m) == job[m]

LookUpResuming(q, m) ==  \* mutant: an unfinished job is taken over
    /\ step[q] = "lookup"
    /\ IsFirst(m, rest[q])
    /\ IF job[m] \in {"APPLIED", "REJECTED"}
       THEN Finish(q, m, Stored(m))
       ELSE step' = [step EXCEPT ![q] = IF job[m] = "NONE" THEN "create" ELSE "sell"] /\ UNCHANGED <<rest, answer>>
    /\ UNCHANGED <<phoneVars, serverVars, losses, faults>>
LookUp(q, m) ==
    /\ step[q] = "lookup"
    /\ IsFirst(m, rest[q])
    /\ IF job[m] = "NONE"
       THEN step' = [step EXCEPT ![q] = "create"] /\ UNCHANGED <<rest, answer>>
       ELSE Finish(q, m, Stored(m))
    /\ UNCHANGED <<phoneVars, serverVars, losses, faults>>

\* The unique key lets one handler create the job; another's whole batch fails.
CreateJob(q, m) ==
    /\ step[q] = "create"
    /\ IsFirst(m, rest[q])
    /\ IF job[m] = "NONE"
       THEN /\ job' = [job EXCEPT ![m] = "RECEIVED"]
            /\ step' = [step EXCEPT ![q] = "sell"]
            /\ UNCHANGED <<rest, answer>>
       ELSE Fail(q) /\ UNCHANGED job
    /\ UNCHANGED <<phoneVars, online, open, ticket, device, losses, faults>>

\* tickets.create before its transaction: an existing ticket is returned before anything is checked.
\* Whether another draw than the one asked for is open is anyone's guess.
Sold(m) == ticket[m] # "none"
SellSteps(m) ==
    IF Sold(m) THEN {"record"}
    ELSE (IF Authorized /\ (payload[m] = "other" \/ open[m]) THEN {"commit"} ELSE {})
         \cup (IF ~Authorized \/ payload[m] = "other" \/ ~open[m] THEN {"reject"} ELSE {})

Sell(q, m) ==
    /\ step[q] = "sell"
    /\ IsFirst(m, rest[q])
    /\ \E next \in SellSteps(m) : step' = [step EXCEPT ![q] = next]
    /\ UNCHANGED <<phoneVars, serverVars, rest, answer, losses, faults>>

CommitAnew(q, m) ==  \* mutant: the ticket that came meanwhile is not looked for
    /\ step[q] = "commit"
    /\ IsFirst(m, rest[q])
    /\ ticket' = [ticket EXCEPT ![m] = payload[m]]
    /\ step' = [step EXCEPT ![q] = "record"]
    /\ UNCHANGED <<phoneVars, online, open, job, device, rest, answer, losses, faults>>
Commit(q, m) ==
    /\ step[q] = "commit"
    /\ IsFirst(m, rest[q])
    /\ ticket' = [ticket EXCEPT ![m] = IF Sold(m) THEN @ ELSE payload[m]]
    /\ step' = [step EXCEPT ![q] = "record"]
    /\ UNCHANGED <<phoneVars, online, open, job, device, rest, answer, losses, faults>>

Record(q, m) ==
    /\ step[q] = "record"
    /\ IsFirst(m, rest[q])
    /\ job' = [job EXCEPT ![m] = "APPLIED"]
    /\ Finish(q, m, "APPLIED")
    /\ UNCHANGED <<phoneVars, online, open, ticket, device, losses, faults>>

Reject(q, m) ==
    /\ step[q] = "reject"
    /\ IsFirst(m, rest[q])
    /\ job' = [job EXCEPT ![m] = "REJECTED"]
    /\ Finish(q, m, "REJECTED")
    /\ UNCHANGED <<phoneVars, online, open, ticket, device, losses, faults>>

Reply(q) ==
    /\ step[q] = "lookup"
    /\ rest[q] = {}
    /\ step' = [step EXCEPT ![q] = Ending(q, "replied")]
    /\ UNCHANGED <<phoneVars, serverVars, rest, answer, losses, faults>>

\* A statement inside the try throws, the update that records the ticket included: the mutation is
\* rejected with the message of the error.
FailInTry(q) ==
    /\ faults < MaxFaults
    /\ faults' = faults + 1
    /\ step[q] \in {"sell", "commit", "record"}
    /\ step' = [step EXCEPT ![q] = "reject"]
    /\ UNCHANGED <<phoneVars, serverVars, rest, answer, losses>>

\* The process ends, or a statement outside the try throws.
Crash(q) ==
    /\ faults < MaxFaults
    /\ faults' = faults + 1
    /\ step[q] \in Handling
    /\ Fail(q)
    /\ UNCHANGED <<phoneVars, serverVars, losses>>

-----------------------------------------------------------------------------
(***************************************************************************)
(* The rest of the server: the direct sale that is still on its way, the   *)
(* draw, and the administrator of the device.                              *)
(***************************************************************************)

CheckOnline(m) ==
    /\ online[m] = "sent"
    /\ online' = [online EXCEPT ![m] = IF ~Sold(m) /\ open[m] /\ Authorized THEN "checked" ELSE "none"]
    /\ UNCHANGED <<phoneVars, open, ticket, job, device, step, rest, answer, losses, faults>>

CommitOnline(m) ==
    /\ online[m] = "checked"
    /\ ticket' = [ticket EXCEPT ![m] = IF Sold(m) THEN @ ELSE "asked"]
    /\ online' = [online EXCEPT ![m] = "none"]
    /\ UNCHANGED <<phoneVars, open, job, device, step, rest, answer, losses, faults>>

Close(m) ==
    /\ open[m]
    /\ open' = [open EXCEPT ![m] = FALSE]
    /\ UNCHANGED <<phoneVars, online, ticket, job, device, step, rest, answer, losses, faults>>

SetDevice(status) ==
    /\ device # status
    /\ device' = status
    /\ UNCHANGED <<phoneVars, online, open, ticket, job, step, rest, answer, losses, faults>>

-----------------------------------------------------------------------------
HandlerStep(q) ==
    \/ Admit(q)
    \/ Greet(q)
    \/ \E m \in Mutations : LookUp(q, m)
    \/ \E m \in Mutations : CreateJob(q, m)
    \/ \E m \in Mutations : Sell(q, m)
    \/ \E m \in Mutations : Commit(q, m)
    \/ \E m \in Mutations : Record(q, m)
    \/ \E m \in Mutations : Reject(q, m)
    \/ Reply(q)

EngineStep(q) ==
    \/ Receive(q)
    \/ \E m \in Mutations : TakeAnswer(q, m)
    \/ \E m \in Mutations : PrintAnswer(q, m)
    \/ EndRun(q)
    \/ TakeRefusal(q)

MutationStep(m) == Queue(m) \/ BecomeDue(m) \/ CheckOnline(m) \/ CommitOnline(m) \/ Close(m)

Next ==
    \/ \E q \in Requests : Run(q) \/ EngineStep(q) \/ HandlerStep(q)
    \/ \E q \in Requests : LoseAnswer(q) \/ FailInTry(q) \/ Crash(q)
    \/ \E m \in Mutations : MutationStep(m)
    \/ EndApp
    \/ \E status \in {"BLOCKED", "OFFLINE"} : SetDevice(status)

Spec == Init /\ [][Next]_vars

\* A handler and a run go on by themselves until they end.  A run starts when the connection comes
\* back, at the start of the app or at the push of a button: that one of these keeps happening is an
\* assumption on the phone's user.
FairSpec ==
    /\ Spec
    /\ \A q \in Requests : WF_vars(HandlerStep(q)) /\ WF_vars(EngineStep(q))
    /\ WF_vars(\E q \in Requests : Run(q))
    /\ \A m \in Mutations : WF_vars(BecomeDue(m))

-----------------------------------------------------------------------------
(***************************************************************************)
(* Properties.                                                             *)
(***************************************************************************)

\* What the phone tells the merchant is what the server has recorded, through lost answers, restarts
\* and overlapping runs: a sale shown as accepted has its ticket, one shown as refused has no other
\* outcome on record, and a receipt is printed for accepted sales only.
\* (sync_engine.dart: run; sync.service.ts: apply)
OutboxTellsTheTruth ==
    \A m \in Mutations :
        /\ outbox[m] \in {"APPLIED", "REJECTED"} => job[m] = outbox[m]
        /\ job[m] = "APPLIED" => Sold(m)
        /\ receipts[m] => outbox[m] = "APPLIED"

\* A mutation is being sold by one handler at most, the one that created its job, however many batches
\* carry it, and by none once the job has an outcome.
\* (sync.service.ts: apply, with the unique key of SyncJob)
Selling(q, m) == step[q] \in Owning /\ IsFirst(m, rest[q])
OneHandlerPerMutation ==
    \A m \in Mutations, q \in Requests :
        Selling(q, m) => job[m] = "RECEIVED" /\ \A r \in Requests : Selling(r, m) => r = q

\* The inductive invariant adds that an answer not yet dealt with is the outcome on record, that the sale to
\* record has its ticket, and that the row whose receipt is being fetched is an accepted one.
AnswersOnRecord ==
    \A q \in Requests, m \in Mutations : answer[q][m] \in {"APPLIED", "REJECTED"} => job[m] = answer[q][m]
SoldBeforeRecord ==
    \A q \in Requests, m \in Mutations : step[q] = "record" /\ IsFirst(m, rest[q]) => Sold(m)
PrintsAccepted ==
    \A q \in Requests, m \in Mutations : step[q] = "printing" /\ IsFirst(m, Answered(q)) => outbox[m] = "APPLIED"
SyncInv ==
    /\ TypeOK
    /\ OutboxTellsTheTruth
    /\ OneHandlerPerMutation
    /\ AnswersOnRecord
    /\ SoldBeforeRecord
    /\ PrintsAccepted

\* Once a mutation has an outcome, neither the server nor the phone ever changes it, whoever answers
\* or retries last.  (sync.service.ts: apply, reject; offline_store.dart: applied, rejected, retry)
FinalOutcome(m) ==
    /\ job[m] \in {"APPLIED", "REJECTED"} => job'[m] = job[m]
    /\ outbox[m] \in {"APPLIED", "REJECTED"} => outbox'[m] = outbox[m]
OutcomesAreFinal == [][\A m \in Mutations : FinalOutcome(m)]_vars

\* Every queued sale is decided, if the device does not stay blocked, through lost answers, restarts of
\* the app, refused statements and overlapping runs.  Only a handler that dies between the job it has
\* created and its outcome can leave a sale undecided, since every retry is answered with that job.
\* ("server validation still decides whether the ticket becomes valid", docs/architecture/background-jobs.md)
Abandoned(m) == job[m] = "RECEIVED" /\ \A q \in Requests : ~Selling(q, m)
QueuedIsDecided ==
    <>[](device # "BLOCKED") =>
        \A m \in Mutations :
            (outbox[m] # "NONE") ~> (outbox[m] \in {"APPLIED", "REJECTED"} \/ Abandoned(m))
=============================================================================
