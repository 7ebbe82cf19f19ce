-------------------------- MODULE OfflineSyncProofs --------------------------
(***************************************************************************)
(* What the outbox of the phone and the jobs of the server say of each     *)
(* other, for any number of sales and of overlapping batches.  SyncInv is  *)
(* inductive: one lemma for the types, one for the steps of the phone, one *)
(* for those of a handler and one for the rest of the server.  With it,    *)
(* each step is one of SalePromise or a stutter.                           *)
(***************************************************************************)
EXTENDS SaleRefinement, TLAPS

\* A set of mutations has one first member (the batch is ordered by created_at, offline_store.dart: ready).
LEMMA FirstIsUnique ==
    ASSUME NEW S \in SUBSET Mutations, NEW m, NEW n, IsFirst(m, S), IsFirst(n, S)
    PROVE  m = n
<1>1. m \in Nat /\ n \in Nat
  BY MutationAssumption DEF IsFirst
<1>2. m <= n /\ n <= m
  BY DEF IsFirst
<1> QED
  BY <1>1, <1>2

\* Each step of the phone keeps the types.
LEMMA PhoneTypes ==
    ASSUME TypeOK,
           \/ \E m \in Mutations : Queue(m) \/ BecomeDue(m)
           \/ \E q \in Requests : Run(q) \/ EngineStep(q) \/ LoseAnswer(q)
           \/ EndApp
    PROVE  TypeOK'
<1> USE LimitAssumption DEF TypeOK, phoneVars, serverVars, Steps, Handling, Owning, JobStatus
<1>1. ASSUME NEW m \in Mutations, Queue(m) PROVE TypeOK'
  BY <1>1 DEF Queue
<1>2. ASSUME NEW m \in Mutations, BecomeDue(m) PROVE TypeOK'
  BY <1>2 DEF BecomeDue
<1>3. ASSUME NEW q \in Requests, Run(q) PROVE TypeOK'
  BY <1>3 DEF Run, Batch, ReadyRows, NoAnswers
<1>4. ASSUME NEW q \in Requests, Receive(q) PROVE TypeOK'
  BY <1>4 DEF Receive
<1>5. ASSUME NEW q \in Requests, NEW m \in Mutations, TakeAnswer(q, m) PROVE TypeOK'
  <2>1. answer' \in [Requests -> [Mutations -> {"NONE"} \cup JobStatus]] /\ step' \in [Requests -> Steps]
    <3>1. CASE answer[q][m] = "APPLIED"
      BY <1>5, <3>1 DEF TakeAnswer
    <3>2. CASE answer[q][m] # "APPLIED"
      <4>1. answer' = [answer EXCEPT ![q][m] = "NONE"] /\ step' = step
        BY <1>5, <3>2 DEF TakeAnswer
      <4> QED
        BY <4>1
    <3> QED
      BY <3>1, <3>2
  <2>2. RowAfter(m, answer[q][m]) \in {"NONE", "PENDING", "RETRY", "APPLIED", "REJECTED"}
    BY DEF RowAfter
  <2> QED
    BY <1>5, <2>1, <2>2 DEF TakeAnswer
<1>6. ASSUME NEW q \in Requests, NEW m \in Mutations, PrintAnswer(q, m) PROVE TypeOK'
  BY <1>6 DEF PrintAnswer
<1>7. ASSUME NEW q \in Requests, EndRun(q) PROVE TypeOK'
  BY <1>7 DEF EndRun
<1>8. ASSUME NEW q \in Requests, TakeRefusal(q) PROVE TypeOK'
  BY <1>8 DEF TakeRefusal, PutOff
<1>9. ASSUME NEW q \in Requests, LoseAnswer(q) PROVE TypeOK'
  BY <1>9 DEF LoseAnswer, PutOff
<1>10. ASSUME EndApp PROVE TypeOK'
  BY <1>10 DEF EndApp
<1> QED
  BY <1>1, <1>2, <1>3, <1>4, <1>5, <1>6, <1>7, <1>8, <1>9, <1>10 DEF EngineStep

\* Each step of a handler keeps the types.
LEMMA HandlerTypes ==
    ASSUME TypeOK, NEW q \in Requests, HandlerStep(q) \/ FailInTry(q) \/ Crash(q)
    PROVE  TypeOK'
<1> USE LimitAssumption DEF TypeOK, phoneVars, serverVars, Steps, Handling, Owning, JobStatus, Finish
<1>1. ASSUME Fail(q) PROVE /\ step' \in [Requests -> Steps] /\ rest' \in [Requests -> SUBSET Mutations]
                           /\ answer' \in [Requests -> [Mutations -> {"NONE"} \cup JobStatus]]
  BY <1>1 DEF Fail, Ending, NoAnswers
<1>2. ASSUME Admit(q) PROVE TypeOK'
  BY <1>1, <1>2 DEF Admit
<1>3. ASSUME Greet(q) PROVE TypeOK'
  BY <1>3 DEF Greet
<1>4. ASSUME NEW m \in Mutations, LookUp(q, m) PROVE TypeOK'
  <2>1. CASE job[m] = "NONE"
    BY <1>4, <2>1 DEF LookUp
  <2>2. CASE job[m] # "NONE"
    <3>1. Finish(q, m, job[m]) /\ UNCHANGED <<phoneVars, serverVars, losses, faults>>
      BY <1>4, <2>2 DEF LookUp, Stored
    <3> QED
      BY <3>1
  <2> QED
    BY <2>1, <2>2
<1>5. ASSUME NEW m \in Mutations, CreateJob(q, m) PROVE TypeOK'
  BY <1>1, <1>5, ZenonT(60) DEF CreateJob
<1>6. ASSUME NEW m \in Mutations, Sell(q, m) PROVE TypeOK'
  BY <1>6 DEF Sell, SellSteps
<1>7. ASSUME NEW m \in Mutations, Commit(q, m) PROVE TypeOK'
  BY <1>7 DEF Commit
<1>8. ASSUME NEW m \in Mutations, Record(q, m) PROVE TypeOK'
  BY <1>8 DEF Record
<1>9. ASSUME NEW m \in Mutations, Reject(q, m) PROVE TypeOK'
  BY <1>9 DEF Reject
<1>10. ASSUME Reply(q) PROVE TypeOK'
  BY <1>10 DEF Reply, Ending
<1>11. ASSUME FailInTry(q) PROVE TypeOK'
  BY <1>11 DEF FailInTry
<1>12. ASSUME Crash(q) PROVE TypeOK'
  BY <1>1, <1>12 DEF Crash
<1> QED
  BY <1>2, <1>3, <1>4, <1>5, <1>6, <1>7, <1>8, <1>9, <1>10, <1>11, <1>12 DEF HandlerStep

\* Each step of the rest of the server keeps the types.
LEMMA OtherTypes ==
    ASSUME TypeOK,
           \/ \E m \in Mutations : CheckOnline(m) \/ CommitOnline(m) \/ Close(m)
           \/ \E status \in {"BLOCKED", "OFFLINE"} : SetDevice(status)
    PROVE  TypeOK'
<1> USE DEF TypeOK, phoneVars
<1>1. ASSUME NEW m \in Mutations, CheckOnline(m) PROVE TypeOK'
  BY <1>1 DEF CheckOnline
<1>2. ASSUME NEW m \in Mutations, CommitOnline(m) PROVE TypeOK'
  BY <1>2 DEF CommitOnline
<1>3. ASSUME NEW m \in Mutations, Close(m) PROVE TypeOK'
  BY <1>3 DEF Close
<1>4. ASSUME NEW status \in {"BLOCKED", "OFFLINE"}, SetDevice(status) PROVE TypeOK'
  BY <1>4 DEF SetDevice
<1> QED
  BY <1>1, <1>2, <1>3, <1>4

\* Every step keeps the types.
LEMMA NextTypes == TypeOK /\ [Next]_vars => TypeOK'
<1> SUFFICES ASSUME TypeOK, [Next]_vars PROVE TypeOK'
  OBVIOUS
<1>1. ASSUME NEW q \in Requests, HandlerStep(q) \/ FailInTry(q) \/ Crash(q) PROVE TypeOK'
  BY <1>1, HandlerTypes
<1>2. ASSUME NEW q \in Requests, Run(q) \/ EngineStep(q) \/ LoseAnswer(q) PROVE TypeOK'
  BY <1>2, PhoneTypes
<1>3. ASSUME NEW m \in Mutations, MutationStep(m) PROVE TypeOK'
  BY <1>3, PhoneTypes, OtherTypes DEF MutationStep
<1>4. ASSUME EndApp PROVE TypeOK'
  BY <1>4, PhoneTypes
<1>5. ASSUME NEW status \in {"BLOCKED", "OFFLINE"}, SetDevice(status) PROVE TypeOK'
  BY <1>5, OtherTypes
<1>6. CASE UNCHANGED vars
  BY <1>6 DEF vars, phoneVars, serverVars, TypeOK
<1> QED
  BY <1>1, <1>2, <1>3, <1>4, <1>5, <1>6 DEF Next

\* Steps that decide nothing, tell the phone of no outcome and take nothing to sell keep the invariant:
\* runs that begin, end or fail, handlers that begin, end or crash, and the direct sales.
LEMMA QuietStep ==
    ASSUME SyncInv, TypeOK', UNCHANGED <<job, receipts>>,
           \A m \in Mutations : Sold(m) => Sold(m)',
           \A m \in Mutations : outbox'[m] # outbox[m] => /\ outbox[m] \notin {"APPLIED", "REJECTED"}
                                                           /\ outbox'[m] \notin {"APPLIED", "REJECTED"},
           \A q \in Requests : /\ step'[q] \in Owning => step'[q] = step[q] /\ rest'[q] = rest[q]
                               /\ step'[q] = "printing" => step[q] = "printing" /\ answer'[q] = answer[q]
                               /\ answer'[q] \in {answer[q], NoAnswers}
    PROVE  SyncInv'
<1> USE DEF SyncInv
<1>1. OutboxTellsTheTruth'
  BY DEF OutboxTellsTheTruth
<1>2. OneHandlerPerMutation'
  BY DEF OneHandlerPerMutation, Selling, IsFirst
<1>3. AnswersOnRecord'
  BY DEF AnswersOnRecord, NoAnswers
<1>4. SoldBeforeRecord'
  <2> SUFFICES ASSUME NEW q \in Requests, NEW m \in Mutations, step'[q] = "record", IsFirst(m, rest'[q])
               PROVE  Sold(m)'
    BY DEF SoldBeforeRecord, IsFirst
  <2>1. step[q] = "record" /\ rest'[q] = rest[q]
    BY DEF Owning
  <2> QED
    BY <2>1 DEF SoldBeforeRecord
<1>5. PrintsAccepted'
  <2> SUFFICES ASSUME NEW q \in Requests, NEW m \in Mutations,
                      step'[q] = "printing", IsFirst(m, Answered(q))'
               PROVE  outbox'[m] = "APPLIED"
    BY DEF PrintsAccepted
  <2>1. step[q] = "printing" /\ IsFirst(m, Answered(q))
    BY DEF IsFirst, Answered
  <2> QED
    BY <2>1 DEF PrintsAccepted
<1> QED
  BY <1>1, <1>2, <1>3, <1>4, <1>5

\* The steps of the phone that deal with no answer, and those of the direct sales, are quiet.
LEMMA PhoneInv ==
    ASSUME SyncInv, TypeOK',
           \/ \E m \in Mutations : MutationStep(m)
           \/ \E q \in Requests : Run(q) \/ Receive(q) \/ EndRun(q) \/ TakeRefusal(q) \/ LoseAnswer(q)
           \/ EndApp
           \/ \E status \in {"BLOCKED", "OFFLINE"} : SetDevice(status)
    PROVE  SyncInv'
<1> USE DEF phoneVars, serverVars
<1>0. TypeOK
  BY DEF SyncInv
<1>1. ASSUME NEW m \in Mutations, Queue(m) PROVE SyncInv'
  BY <1>0, <1>1, QuietStep DEF Queue, TypeOK, Sold
<1>2. ASSUME NEW m \in Mutations, BecomeDue(m) \/ Close(m) \/ CheckOnline(m) PROVE SyncInv'
  BY <1>2, QuietStep DEF BecomeDue, Close, CheckOnline, Sold
<1>3. ASSUME NEW m \in Mutations, CommitOnline(m) PROVE SyncInv'
  BY <1>0, <1>3, QuietStep DEF CommitOnline, Sold, TypeOK
<1>4. ASSUME NEW status \in {"BLOCKED", "OFFLINE"}, SetDevice(status) PROVE SyncInv'
  BY <1>4, QuietStep DEF SetDevice, Sold
<1>5. ASSUME NEW q \in Requests, Run(q) PROVE SyncInv'
  BY <1>0, <1>5, QuietStep DEF Run, Sold, Owning, TypeOK
<1>6. ASSUME NEW q \in Requests, Receive(q) \/ EndRun(q) PROVE SyncInv'
  BY <1>0, <1>6, QuietStep DEF Receive, EndRun, Sold, Owning, TypeOK
<1>7. ASSUME NEW q \in Requests, PutOff(q) PROVE
        \A m \in Mutations : outbox'[m] # outbox[m] => /\ outbox[m] \notin {"APPLIED", "REJECTED"}
                                                      /\ outbox'[m] \notin {"APPLIED", "REJECTED"}
  BY <1>7 DEF PutOff, RowsToRetry, Batch, ReadyRows
<1>8. ASSUME NEW q \in Requests, TakeRefusal(q) PROVE SyncInv'
  <2>1. UNCHANGED <<job, ticket, receipts, rest, answer>>
    BY <1>8 DEF TakeRefusal, PutOff
  <2>2. \A r \in Requests : step'[r] \in Owning \cup {"printing"} => step'[r] = step[r]
    BY <1>0, <1>8 DEF TakeRefusal, Owning, TypeOK
  <2>3. PutOff(q)
    BY <1>8 DEF TakeRefusal
  <2> QED
    BY <1>7, <2>1, <2>2, <2>3, QuietStep DEF Sold
<1>9. ASSUME NEW q \in Requests, LoseAnswer(q) PROVE SyncInv'
  <2>1. UNCHANGED <<job, ticket, receipts, rest, answer>>
    BY <1>9 DEF LoseAnswer, PutOff
  <2>2. \A r \in Requests : step'[r] \in Owning \cup {"printing"} => step'[r] = step[r]
    BY <1>0, <1>9 DEF LoseAnswer, Owning, TypeOK
  <2>3. PutOff(q)
    BY <1>9 DEF LoseAnswer
  <2> QED
    BY <1>7, <2>1, <2>2, <2>3, QuietStep DEF Sold
<1>10. ASSUME EndApp PROVE SyncInv'
  BY <1>0, <1>10, QuietStep DEF EndApp, Sold, Owning, TypeOK
<1> QED
  BY <1>1, <1>2, <1>3, <1>4, <1>5, <1>6, <1>8, <1>9, <1>10 DEF MutationStep

\* A handler that is admitted, greets, replies or crashes is quiet.
LEMMA HandlerQuietInv ==
    ASSUME SyncInv, TypeOK', NEW q \in Requests, Admit(q) \/ Greet(q) \/ Reply(q) \/ Crash(q)
    PROVE  SyncInv'
<1> USE DEF phoneVars, serverVars
<1>0. TypeOK
  BY DEF SyncInv
<1>1. CASE Greet(q) \/ Reply(q)
  BY <1>0, <1>1, QuietStep DEF Greet, Reply, Ending, Sold, Owning, TypeOK
<1>2. ASSUME Fail(q), UNCHANGED <<phoneVars, serverVars>> PROVE SyncInv'
  BY <1>0, <1>2, QuietStep DEF Fail, Ending, Sold, Owning, TypeOK
<1>3. CASE Admit(q) /\ Authorized
  BY <1>0, <1>3, QuietStep DEF Admit, Sold, Owning, TypeOK
<1> QED
  BY <1>1, <1>2, <1>3 DEF Admit, Crash

\* A result is taken and its receipt fetched: the outcome the row gets is the one on record.
LEMMA AnswerInv ==
    ASSUME SyncInv, TypeOK', NEW q \in Requests, NEW n \in Mutations, TakeAnswer(q, n) \/ PrintAnswer(q, n)
    PROVE  SyncInv'
<1> USE DEF SyncInv, phoneVars, serverVars
<1>1. UNCHANGED <<job, ticket, rest>> /\ step' \in {[step EXCEPT ![q] = "printing"], [step EXCEPT ![q] = "answered"], step}
  BY DEF TakeAnswer, PrintAnswer
<1>2. answer' \in {[answer EXCEPT ![q][n] = "NONE"], answer}
  BY DEF TakeAnswer, PrintAnswer
<1>3. IsFirst(n, Answered(q)) /\ step[q] \in {"answered", "printing"}
  BY DEF TakeAnswer, PrintAnswer
<1>4. \A m \in Mutations : outbox'[m] \in {"APPLIED", "REJECTED"} => outbox'[m] = job[m]
  <2>1. CASE TakeAnswer(q, n)
    BY <2>1 DEF TakeAnswer, RowAfter, TypeOK, AnswersOnRecord, OutboxTellsTheTruth
  <2>2. CASE PrintAnswer(q, n)
    BY <2>2 DEF PrintAnswer, OutboxTellsTheTruth
  <2> QED
    BY <2>1, <2>2
<1>5. \A m \in Mutations : outbox[m] = "APPLIED" => outbox'[m] = "APPLIED"
  <2>1. CASE TakeAnswer(q, n)
    BY <2>1 DEF TakeAnswer, RowAfter, TypeOK, AnswersOnRecord, OutboxTellsTheTruth
  <2>2. CASE PrintAnswer(q, n)
    BY <2>2 DEF PrintAnswer
  <2> QED
    BY <2>1, <2>2
<1>6. \A m \in Mutations : receipts'[m] => outbox'[m] = "APPLIED"
  <2>1. CASE TakeAnswer(q, n)
    BY <1>5, <2>1 DEF TakeAnswer, OutboxTellsTheTruth
  <2>2. CASE PrintAnswer(q, n)
    BY <1>5, <2>2 DEF PrintAnswer, TypeOK, OutboxTellsTheTruth, PrintsAccepted
  <2> QED
    BY <2>1, <2>2
<1>7. OutboxTellsTheTruth'
  BY <1>1, <1>4, <1>6 DEF OutboxTellsTheTruth, Sold
<1>8. \A r \in Requests : step'[r] \in Owning => step'[r] = step[r]
  BY <1>1 DEF Owning, TypeOK
<1>9. OneHandlerPerMutation' /\ SoldBeforeRecord'
  BY <1>1, <1>8 DEF OneHandlerPerMutation, SoldBeforeRecord, Selling, IsFirst, Sold, Owning
<1>10. AnswersOnRecord'
  BY <1>1, <1>2 DEF AnswersOnRecord, TypeOK
<1>11. PrintsAccepted'
  <2> SUFFICES ASSUME NEW r \in Requests, NEW m \in Mutations,
                      step'[r] = "printing", IsFirst(m, Answered(r))'
               PROVE  outbox'[m] = "APPLIED"
    BY DEF PrintsAccepted
  <2>1. CASE r # q
    <3>1. step[r] = "printing" /\ IsFirst(m, Answered(r))
      BY <1>1, <1>2, <2>1 DEF IsFirst, Answered, TypeOK
    <3> QED
      BY <1>5, <3>1 DEF PrintsAccepted
  <2>2. CASE r = q
    <3>1. TakeAnswer(q, n) /\ answer[q][n] = "APPLIED" /\ answer' = answer
      BY <1>3, <2>2 DEF TakeAnswer, PrintAnswer, TypeOK
    <3>2. IsFirst(m, Answered(q))
      BY <2>2, <3>1 DEF IsFirst, Answered
    <3>3. m = n
      BY <1>3, <3>2, FirstIsUnique DEF Answered
    <3> QED
      BY <3>1, <3>3 DEF TakeAnswer, RowAfter, TypeOK
  <2> QED
    BY <2>1, <2>2
<1> QED
  BY <1>7, <1>9, <1>10, <1>11

\* A handler that only moves on within its mutation keeps the invariant, if a sale to record has its ticket.
LEMMA SellingStep ==
    ASSUME SyncInv, TypeOK', NEW q \in Requests, step[q] \in Owning,
           NEW next \in Owning, step' = [step EXCEPT ![q] = next],
           UNCHANGED <<outbox, receipts, job, rest, answer>>,
           \A m \in Mutations : Sold(m) => Sold(m)',
           \A m \in Mutations : next = "record" /\ IsFirst(m, rest[q]) => Sold(m)'
    PROVE  SyncInv'
<1> USE DEF SyncInv
<1>1. OutboxTellsTheTruth'
  BY DEF OutboxTellsTheTruth
<1>2. \A r \in Requests : step[r] \in Owning <=> step'[r] \in Owning
  BY DEF TypeOK
<1>3. OneHandlerPerMutation'
  BY <1>2 DEF OneHandlerPerMutation, Selling, IsFirst
<1>4. AnswersOnRecord'
  BY DEF AnswersOnRecord
<1>5. SoldBeforeRecord'
  <2> SUFFICES ASSUME NEW r \in Requests, NEW m \in Mutations, step'[r] = "record", IsFirst(m, rest[r])
               PROVE  Sold(m)'
    BY DEF SoldBeforeRecord, IsFirst
  <2>1. CASE r = q
    BY <2>1 DEF TypeOK
  <2>2. CASE r # q
    BY <2>2 DEF TypeOK, SoldBeforeRecord
  <2> QED
    BY <2>1, <2>2
<1>6. PrintsAccepted'
  BY DEF PrintsAccepted, IsFirst, Answered, Owning, TypeOK
<1> QED
  BY <1>1, <1>3, <1>4, <1>5, <1>6

\* Selling, committing and failing inside the try are such steps.
LEMMA SellInv ==
    ASSUME SyncInv, TypeOK', NEW q \in Requests,
           FailInTry(q) \/ \E m \in Mutations : Sell(q, m) \/ Commit(q, m)
    PROVE  SyncInv'
<1> USE DEF phoneVars, serverVars
<1>0. TypeOK
  BY DEF SyncInv
<1>1. CASE FailInTry(q)
  BY <1>1, SellingStep DEF FailInTry, Owning, Sold
<1>2. ASSUME NEW m \in Mutations, Sell(q, m) PROVE SyncInv'
  <2>1. PICK next \in SellSteps(m) : step' = [step EXCEPT ![q] = next]
    BY <1>2 DEF Sell
  <2>2. next \in Owning /\ (next = "record" => Sold(m))
    BY DEF SellSteps, Owning
  <2>3. \A n \in Mutations : IsFirst(n, rest[q]) => n = m
    BY <1>0, <1>2, FirstIsUnique DEF Sell, TypeOK
  <2> QED
    BY <1>2, <2>1, <2>2, <2>3, SellingStep DEF Sell, Owning, Sold
<1>3. ASSUME NEW m \in Mutations, Commit(q, m) PROVE SyncInv'
  <2>1. \A n \in Mutations : IsFirst(n, rest[q]) => n = m
    BY <1>0, <1>3, FirstIsUnique DEF Commit, TypeOK
  <2>2. Sold(m)' /\ \A n \in Mutations : Sold(n) => Sold(n)'
    BY <1>0, <1>3 DEF Commit, Sold, TypeOK
  <2> QED
    BY <1>3, <2>1, <2>2, SellingStep DEF Commit, Owning
<1> QED
  BY <1>1, <1>2, <1>3

\* A handler that answers a mutation with the outcome now on record, and works on no other yet, keeps the
\* invariant: nobody else was selling the mutation if the outcome is new, and nobody had answered it.
LEMMA AnswerStep ==
    ASSUME SyncInv, TypeOK', NEW q \in Requests, NEW n \in Mutations, NEW status \in {"NONE"} \cup JobStatus,
           step[q] \in Owning \cup {"lookup"}, IsFirst(n, rest[q]),
           Finish(q, n, status), job' = [job EXCEPT ![n] = status],
           status = job[n] \/ Selling(q, n),
           status = "APPLIED" => Sold(n),
           UNCHANGED <<outbox, receipts, ticket>>
    PROVE  SyncInv'
<1> USE DEF SyncInv
<1>1. status # job[n] => job[n] = "RECEIVED"
  BY DEF OneHandlerPerMutation
<1>2. OutboxTellsTheTruth'
  BY <1>1 DEF OutboxTellsTheTruth, Sold, TypeOK
<1>3. \A r \in Requests : step'[r] \in Owning => r # q /\ step'[r] = step[r] /\ rest'[r] = rest[r]
  BY DEF Finish, Owning, TypeOK
<1>4. OneHandlerPerMutation'
  <2> SUFFICES ASSUME NEW r \in Requests, NEW m \in Mutations, Selling(r, m)'
               PROVE  job'[m] = "RECEIVED" /\ \A p \in Requests : Selling(p, m)' => p = r
    BY DEF OneHandlerPerMutation
  <2>1. Selling(r, m) /\ r # q
    BY <1>3 DEF Selling, IsFirst
  <2>2. \A p \in Requests : Selling(p, m)' => p = r
    BY <1>3, <2>1 DEF OneHandlerPerMutation, Selling, IsFirst
  <2>3. job'[m] = job[m]
    BY <2>1 DEF OneHandlerPerMutation, TypeOK
  <2> QED
    BY <2>1, <2>2, <2>3 DEF OneHandlerPerMutation
<1>5. AnswersOnRecord'
  BY <1>1 DEF AnswersOnRecord, Finish, TypeOK
<1>6. SoldBeforeRecord'
  <2> SUFFICES ASSUME NEW r \in Requests, NEW m \in Mutations, step'[r] = "record", IsFirst(m, rest'[r])
               PROVE  Sold(m)
    BY DEF SoldBeforeRecord, IsFirst, Sold
  <2>1. step[r] = "record" /\ rest'[r] = rest[r]
    BY <1>3 DEF Owning
  <2> QED
    BY <2>1 DEF SoldBeforeRecord
<1>7. PrintsAccepted'
  BY DEF PrintsAccepted, IsFirst, Answered, Finish, TypeOK
<1> QED
  BY <1>2, <1>4, <1>5, <1>6, <1>7

\* Looking a mutation up answers it with what is on record; recording and rejecting decide it.
LEMMA DecideInv ==
    ASSUME SyncInv, TypeOK', NEW q \in Requests, NEW n \in Mutations,
           LookUp(q, n) \/ Record(q, n) \/ Reject(q, n)
    PROVE  SyncInv'
<1> USE DEF phoneVars, serverVars
<1>0. TypeOK /\ SoldBeforeRecord /\ OutboxTellsTheTruth
  BY DEF SyncInv
<1>1. CASE LookUp(q, n) /\ job[n] = "NONE"
  <2>1. UNCHANGED <<outbox, receipts, job, ticket, rest, answer>> /\ step' = [step EXCEPT ![q] = "create"]
    BY <1>1 DEF LookUp
  <2> QED
    BY <1>0, <2>1, QuietStep DEF Sold, Owning, TypeOK
<1>2. CASE LookUp(q, n) /\ job[n] # "NONE"
  <2>1. Finish(q, n, job[n]) /\ UNCHANGED <<outbox, receipts, job, ticket>> /\ IsFirst(n, rest[q]) /\ step[q] = "lookup"
    BY <1>2 DEF LookUp, Stored
  <2>2. job' = [job EXCEPT ![n] = job[n]] /\ job[n] \in {"NONE"} \cup JobStatus
    BY <1>0, <2>1 DEF TypeOK
  <2>3. job[n] = "APPLIED" => Sold(n)
    BY <1>0 DEF OutboxTellsTheTruth
  <2> QED
    BY <2>1, <2>2, <2>3, AnswerStep
<1>3. CASE Record(q, n)
  <2>1. Selling(q, n) /\ Sold(n)
    BY <1>0, <1>3 DEF Record, Selling, Owning, SoldBeforeRecord
  <2> QED
    BY <1>3, <2>1, AnswerStep DEF Record, Selling, JobStatus
<1>4. CASE Reject(q, n)
  <2>1. Selling(q, n)
    BY <1>4 DEF Reject, Selling, Owning
  <2> QED
    BY <1>4, <2>1, AnswerStep DEF Reject, Selling, JobStatus
<1> QED
  BY <1>1, <1>2, <1>3, <1>4

\* Creating the job makes its handler the only one to sell the mutation: no job was there, so no handler was.
LEMMA CreateInv ==
    ASSUME SyncInv, TypeOK', NEW q \in Requests, NEW n \in Mutations, CreateJob(q, n)
    PROVE  SyncInv'
<1> USE DEF SyncInv, phoneVars, serverVars
<1>1. CASE job[n] # "NONE"
  <2>1. Fail(q) /\ UNCHANGED <<phoneVars, serverVars>>
    BY <1>1 DEF CreateJob
  <2> QED
    BY <2>1, QuietStep DEF Fail, Ending, Sold, Owning, TypeOK
<1>2. CASE job[n] = "NONE"
  <2>1. /\ job' = [job EXCEPT ![n] = "RECEIVED"] /\ step' = [step EXCEPT ![q] = "sell"]
        /\ UNCHANGED <<outbox, receipts, ticket, rest, answer>> /\ IsFirst(n, rest[q])
    BY <1>2 DEF CreateJob
  <2>2. OutboxTellsTheTruth'
    BY <1>2, <2>1 DEF OutboxTellsTheTruth, Sold, TypeOK
  <2>3. \A r \in Requests, m \in Mutations : Selling(r, m)' <=> (r = q /\ m = n) \/ (r # q /\ Selling(r, m))
    <3> SUFFICES ASSUME NEW r \in Requests, NEW m \in Mutations
                 PROVE  Selling(r, m)' <=> (r = q /\ m = n) \/ (r # q /\ Selling(r, m))
      OBVIOUS
    <3>1. CASE r # q
      BY <2>1, <3>1 DEF Selling, IsFirst, TypeOK
    <3>2. CASE r = q
      <4>1. Selling(r, m)' <=> IsFirst(m, rest[q])
        BY <2>1, <3>2 DEF Selling, IsFirst, Owning, TypeOK
      <4>2. IsFirst(m, rest[q]) <=> m = n
        BY <2>1, FirstIsUnique DEF TypeOK
      <4> QED
        BY <3>2, <4>1, <4>2
    <3> QED
      BY <3>1, <3>2
  <2>4. OneHandlerPerMutation'
    <3>1. \A r \in Requests : ~Selling(r, n)
      BY <1>2 DEF OneHandlerPerMutation
    <3> QED
      BY <2>1, <2>3, <3>1 DEF OneHandlerPerMutation, TypeOK
  <2>5. AnswersOnRecord'
    BY <1>2, <2>1 DEF AnswersOnRecord, TypeOK
  <2>6. SoldBeforeRecord' /\ PrintsAccepted'
    BY <2>1 DEF SoldBeforeRecord, PrintsAccepted, IsFirst, Answered, Sold, TypeOK
  <2> QED
    BY <2>2, <2>4, <2>5, <2>6
<1> QED
  BY <1>1, <1>2

\* With nothing queued and nobody at work every part of the invariant holds.
LEMMA SyncInit == Init => SyncInv
<1> SUFFICES ASSUME Init PROVE SyncInv
  OBVIOUS
<1>1. TypeOK
  BY LimitAssumption DEF Init, TypeOK, NoAnswers, Steps
<1>2. OutboxTellsTheTruth
  BY DEF Init, OutboxTellsTheTruth
<1>3. OneHandlerPerMutation /\ SoldBeforeRecord /\ PrintsAccepted
  BY DEF Init, OneHandlerPerMutation, Selling, Owning, SoldBeforeRecord, PrintsAccepted
<1>4. AnswersOnRecord
  BY DEF Init, AnswersOnRecord, NoAnswers
<1> QED
  BY <1>1, <1>2, <1>3, <1>4 DEF SyncInv

\* Every step keeps the invariant.
LEMMA SyncNext == SyncInv /\ [Next]_vars => SyncInv'
<1> SUFFICES ASSUME SyncInv, [Next]_vars PROVE SyncInv'
  OBVIOUS
<1>0. TypeOK'
  BY NextTypes DEF SyncInv
<1>1. ASSUME NEW q \in Requests, HandlerStep(q) PROVE SyncInv'
  BY <1>0, <1>1, HandlerQuietInv, DecideInv, CreateInv, SellInv DEF HandlerStep
<1>2. ASSUME NEW q \in Requests, EngineStep(q) PROVE SyncInv'
  BY <1>0, <1>2, PhoneInv, AnswerInv DEF EngineStep
<1>3. ASSUME NEW q \in Requests, Run(q) \/ LoseAnswer(q) PROVE SyncInv'
  BY <1>0, <1>3, PhoneInv
<1>4. ASSUME NEW q \in Requests, FailInTry(q) \/ Crash(q) PROVE SyncInv'
  BY <1>0, <1>4, SellInv, HandlerQuietInv
<1>5. ASSUME NEW m \in Mutations, MutationStep(m) PROVE SyncInv'
  BY <1>0, <1>5, PhoneInv
<1>6. ASSUME EndApp \/ \E status \in {"BLOCKED", "OFFLINE"} : SetDevice(status) PROVE SyncInv'
  BY <1>0, <1>6, PhoneInv
<1>7. CASE UNCHANGED vars
  BY <1>0, <1>7, QuietStep DEF vars, phoneVars, serverVars, Sold
<1> QED
  BY <1>1, <1>2, <1>3, <1>4, <1>5, <1>6, <1>7 DEF Next

\* Every reachable state satisfies the invariant (sync_engine.dart: run; sync.service.ts: batch, apply).
THEOREM SyncInvariant == Spec => []SyncInv
BY SyncInit, SyncNext, PTL DEF Spec

\* Every variable keeps its type.
THEOREM SyncTypeCorrect == Spec => []TypeOK
<1>1. SyncInv => TypeOK
  BY DEF SyncInv
<1> QED
  BY <1>1, SyncInvariant, PTL

\* What the phone shows of a sale is what the server has on record (sync_engine.dart: run).
THEOREM OutboxAlwaysTellsTheTruth == Spec => []OutboxTellsTheTruth
<1>1. SyncInv => OutboxTellsTheTruth
  BY DEF SyncInv
<1> QED
  BY <1>1, SyncInvariant, PTL

\* However many batches carry a mutation, one handler sells it (sync.service.ts: apply).
THEOREM AlwaysOneHandlerPerMutation == Spec => []OneHandlerPerMutation
<1>1. SyncInv => OneHandlerPerMutation
  BY DEF SyncInv
<1> QED
  BY <1>1, SyncInvariant, PTL

\* An outcome, once recorded or shown, never changes (sync.service.ts: apply, reject; offline_store.dart).
THEOREM OutcomesAlwaysFinal == Spec => OutcomesAreFinal
<1>1. SyncInv /\ SyncInv' /\ [Next]_vars => [\A m \in Mutations : FinalOutcome(m)]_vars
  <2> SUFFICES ASSUME SyncInv, SyncInv', Next PROVE \A m \in Mutations : FinalOutcome(m)
    OBVIOUS
  <2> USE DEF phoneVars, serverVars
  <2>0. TypeOK /\ TypeOK' /\ OutboxTellsTheTruth /\ OutboxTellsTheTruth' /\ OneHandlerPerMutation
    BY DEF SyncInv
  <2>1. \A m \in Mutations : job[m] \in {"APPLIED", "REJECTED"} => job'[m] = job[m]
    <3> SUFFICES ASSUME job' # job
                 PROVE  \A m \in Mutations : job[m] \in {"APPLIED", "REJECTED"} => job'[m] = job[m]
      OBVIOUS
    <3>1. PICK q \in Requests, n \in Mutations : CreateJob(q, n) \/ Record(q, n) \/ Reject(q, n)
      BY DEF Next, HandlerStep, EngineStep, MutationStep, Queue, BecomeDue, CheckOnline, CommitOnline, Close,
             Run, Receive, TakeAnswer, PrintAnswer, EndRun, TakeRefusal, LoseAnswer, PutOff, FailInTry, Crash,
             EndApp, SetDevice, Admit, Greet, LookUp, Sell, Commit, Reply
    <3>2. job[n] \notin {"APPLIED", "REJECTED"}
      BY <2>0, <3>1 DEF CreateJob, Record, Reject, OneHandlerPerMutation, Selling, Owning
    <3> QED
      BY <2>0, <3>1, <3>2 DEF CreateJob, Record, Reject, TypeOK
  <2>2. \A m \in Mutations : outbox[m] \in {"APPLIED", "REJECTED"} => outbox'[m] \in {"APPLIED", "REJECTED"}
    <3>1. ASSUME NEW m \in Mutations, Queue(m)
          PROVE  \A n \in Mutations : outbox[n] \in {"APPLIED", "REJECTED"} => outbox'[n] = outbox[n]
      BY <2>0, <3>1 DEF Queue, TypeOK
    <3>2. ASSUME NEW q \in Requests, PutOff(q)
          PROVE  \A n \in Mutations : outbox[n] \in {"APPLIED", "REJECTED"} => outbox'[n] = outbox[n]
      BY <3>2 DEF PutOff, RowsToRetry, Batch, ReadyRows
    <3>3. ASSUME NEW q \in Requests, NEW m \in Mutations, TakeAnswer(q, m)
          PROVE  \A n \in Mutations : outbox[n] \in {"APPLIED", "REJECTED"} => outbox'[n] \in {"APPLIED", "REJECTED"}
      BY <2>0, <3>3 DEF TakeAnswer, RowAfter, TypeOK
    <3>4. \/ \E m \in Mutations : Queue(m)
          \/ \E q \in Requests : PutOff(q) \/ \E m \in Mutations : TakeAnswer(q, m)
          \/ UNCHANGED outbox
      BY DEF Next, HandlerStep, EngineStep, MutationStep, BecomeDue, CheckOnline, CommitOnline, Close,
             Run, Receive, PrintAnswer, EndRun, TakeRefusal, LoseAnswer, FailInTry, Crash,
             EndApp, SetDevice, Admit, Greet, LookUp, CreateJob, Sell, Commit, Record, Reject, Reply
    <3> QED
      BY <3>1, <3>2, <3>3, <3>4
  <2> QED
    BY <2>0, <2>1, <2>2 DEF FinalOutcome, OutboxTellsTheTruth
<1> QED
  BY <1>1, SyncInvariant, PTL DEF Spec, OutcomesAreFinal

-----------------------------------------------------------------------------
(* The refinement.                                                         *)

\* Nothing is known of a sale before it is in the outbox (new_ticket_screen.dart: sell).
HandedOver ==
    \A m \in Mutations : outbox[m] = "NONE" =>
        /\ ticket[m] = "none" /\ online[m] = "none" /\ job[m] = "NONE"
        /\ \A q \in Requests : m \notin rest[q]

\* A step that takes up nothing that is not in the outbox.
LEMMA HandedOverStep ==
    ASSUME HandedOver,
           \A m \in Mutations : outbox'[m] = "NONE" =>
               /\ outbox[m] = "NONE" /\ ticket'[m] = ticket[m] /\ job'[m] = job[m]
               /\ online'[m] \in {online[m], "none"}
               /\ \A q \in Requests : m \in rest'[q] => m \in rest[q]
    PROVE  HandedOver'
BY DEF HandedOver

LEMMA HandedOverNext == SyncInv /\ HandedOver /\ [Next]_vars => HandedOver'
<1> SUFFICES ASSUME SyncInv, HandedOver, [Next]_vars PROVE HandedOver'
  OBVIOUS
<1> USE DEF phoneVars, serverVars
<1>0. TypeOK
  BY DEF SyncInv
<1>1. ASSUME NEW q \in Requests, Fail(q) PROVE rest' = [rest EXCEPT ![q] = {}]
  BY <1>1 DEF Fail
<1>2. ASSUME NEW q \in Requests, NEW m \in Mutations, NEW status, Finish(q, m, status)
      PROVE  rest' = [rest EXCEPT ![q] = @ \ {m}]
  BY <1>2 DEF Finish
<1>3. ASSUME NEW q \in Requests, PutOff(q) PROVE \A m \in Mutations : outbox'[m] = "NONE" => outbox[m] = "NONE"
  BY <1>0, <1>3 DEF PutOff, TypeOK
<1>4. ASSUME NEW q \in Requests, Run(q) PROVE HandedOver'
  <2>1. \A m \in Mutations : m \in rest'[q] => outbox[m] # "NONE"
    BY <1>0, <1>4 DEF Run, Batch, ReadyRows, TypeOK
  <2>2. UNCHANGED <<outbox, ticket, job, online>> /\ \A r \in Requests : r # q => rest'[r] = rest[r]
    BY <1>0, <1>4 DEF Run, TypeOK
  <2> QED
    BY <2>1, <2>2, HandedOverStep
<1>5. ASSUME NEW q \in Requests, EngineStep(q) \/ LoseAnswer(q) PROVE HandedOver'
  <2>1. CASE Receive(q) \/ EndRun(q) \/ \E m \in Mutations : PrintAnswer(q, m)
    BY <2>1, HandedOverStep DEF Receive, EndRun, PrintAnswer
  <2>2. ASSUME NEW m \in Mutations, TakeAnswer(q, m) PROVE HandedOver'
    <3>1. \A n \in Mutations : outbox'[n] = "NONE" => outbox[n] = "NONE"
      BY <1>0, <2>2 DEF TakeAnswer, RowAfter, TypeOK
    <3> QED
      BY <2>2, <3>1, HandedOverStep DEF TakeAnswer
  <2>3. CASE TakeRefusal(q) \/ LoseAnswer(q)
    <3>1. PutOff(q)
      BY <2>3 DEF TakeRefusal, LoseAnswer
    <3>2. UNCHANGED <<ticket, job, online, rest>>
      BY <3>1 DEF PutOff
    <3> QED
      BY <1>3, <3>1, <3>2, HandedOverStep
  <2> QED
    BY <1>5, <2>1, <2>2, <2>3 DEF EngineStep
<1>6. ASSUME NEW q \in Requests, HandlerStep(q) \/ FailInTry(q) \/ Crash(q) PROVE HandedOver'
  <2>1. CASE Admit(q) \/ Crash(q)
    <3>1. UNCHANGED <<outbox, ticket, job, online>> /\ (rest' = rest \/ Fail(q))
      BY <2>1 DEF Admit, Crash
    <3>2. \A r \in Requests, m \in Mutations : m \in rest'[r] => m \in rest[r]
      BY <1>0, <1>1, <3>1 DEF TypeOK
    <3> QED
      BY <3>1, <3>2, HandedOverStep
  <2>2. CASE Greet(q) \/ Reply(q) \/ FailInTry(q) \/ \E m \in Mutations : Sell(q, m)
    BY <2>2, HandedOverStep DEF Greet, Reply, FailInTry, Sell
  <2>3. ASSUME NEW m \in Mutations, LookUp(q, m) PROVE HandedOver'
    <3>1. UNCHANGED <<outbox, ticket, job, online>> /\ (rest' = rest \/ Finish(q, m, Stored(m)))
      BY <2>3 DEF LookUp
    <3>2. \A r \in Requests, n \in Mutations : n \in rest'[r] => n \in rest[r]
      BY <1>0, <1>2, <3>1 DEF TypeOK
    <3> QED
      BY <3>1, <3>2, HandedOverStep
  <2>4. ASSUME NEW m \in Mutations, CreateJob(q, m) \/ Commit(q, m) \/ Record(q, m) \/ Reject(q, m) PROVE HandedOver'
    <3>1. m \in rest[q] /\ UNCHANGED <<outbox, online>>
      BY <2>4 DEF CreateJob, Commit, Record, Reject, IsFirst
    <3>2. outbox[m] # "NONE"
      BY <3>1 DEF HandedOver
    <3>3. \A n \in Mutations : n # m => ticket'[n] = ticket[n] /\ job'[n] = job[n]
      BY <1>0, <2>4 DEF CreateJob, Commit, Record, Reject, TypeOK
    <3>4. rest' = rest \/ Fail(q) \/ Finish(q, m, "APPLIED") \/ Finish(q, m, "REJECTED")
      BY <2>4 DEF CreateJob, Commit, Record, Reject
    <3>5. \A r \in Requests, n \in Mutations : n \in rest'[r] => n \in rest[r]
      BY <1>0, <1>1, <1>2, <3>4 DEF TypeOK
    <3> QED
      BY <3>1, <3>2, <3>3, <3>5, HandedOverStep
  <2> QED
    BY <1>6, <2>1, <2>2, <2>3, <2>4 DEF HandlerStep
<1>7. ASSUME NEW m \in Mutations, MutationStep(m) PROVE HandedOver'
  <2>1. CASE Queue(m)
    <3>1. outbox'[m] # "NONE" /\ UNCHANGED <<ticket, job, rest>>
          /\ \A n \in Mutations : n # m => outbox'[n] = outbox[n] /\ online'[n] = online[n]
      BY <1>0, <2>1 DEF Queue, TypeOK
    <3> QED
      BY <3>1, HandedOverStep
  <2>2. CASE BecomeDue(m) \/ Close(m)
    BY <2>2, HandedOverStep DEF BecomeDue, Close
  <2>3. CASE CheckOnline(m) \/ CommitOnline(m)
    <3>1. online[m] # "none" /\ UNCHANGED <<outbox, job, rest>>
          /\ \A n \in Mutations : n # m => ticket'[n] = ticket[n] /\ online'[n] = online[n]
      BY <1>0, <2>3 DEF CheckOnline, CommitOnline, TypeOK
    <3>2. outbox[m] # "NONE"
      BY <3>1 DEF HandedOver
    <3> QED
      BY <3>1, <3>2, HandedOverStep
  <2> QED
    BY <1>7, <2>1, <2>2, <2>3 DEF MutationStep
<1>8. ASSUME EndApp \/ \E status \in {"BLOCKED", "OFFLINE"} : SetDevice(status) PROVE HandedOver'
  BY <1>8, HandedOverStep DEF EndApp, SetDevice
<1>9. CASE UNCHANGED vars
  BY <1>9, HandedOverStep DEF vars
<1> QED
  BY <1>4, <1>5, <1>6, <1>7, <1>8, <1>9 DEF Next

LEMMA HandedOverInit == Init => HandedOver
BY DEF Init, HandedOver

LEMMA AlwaysHandedOver == Spec => []HandedOver
BY HandedOverInit, HandedOverNext, SyncInvariant, PTL DEF Spec

\* The promise looks at four variables of the system.
LEMMA InitKeepsSalePromise == Init => Promise!PromiseInit
<1> SUFFICES ASSUME Init PROVE Promise!PromiseInit
  OBVIOUS
<1>1. \A m \in Mutations : ToldOf[outbox[m]] = "nothing" /\ VerdictOf[job[m]] = "none"
  BY DEF Init, ToldOf, VerdictOf
<1> QED
  BY <1>1 DEF Promise!PromiseInit, Init

LEMMA StutterKeepsSalePromise ==
    ASSUME \A m \in Mutations : ToldOf[outbox[m]]' = ToldOf[outbox[m]], UNCHANGED <<job, ticket, receipts>>
    PROVE  UNCHANGED Promise!promiseVars
BY DEF Promise!promiseVars, ToldOf, VerdictOf

LEMMA QueueKeepsSalePromise ==
    ASSUME TypeOK, NEW m \in Mutations, Queue(m)
    PROVE  Promise!HandOver(m)
<1>1. ToldOf[outbox[m]] = "nothing"
  BY DEF Queue, ToldOf
<1>2. \A n \in Mutations : ToldOf[outbox[n]]' = IF n = m THEN "queued" ELSE ToldOf[outbox[n]]
  BY DEF Queue, TypeOK, ToldOf
<1>3. UNCHANGED <<job, ticket, receipts>>
  BY DEF Queue, serverVars
<1> QED
  BY <1>1, <1>2, <1>3 DEF Promise!HandOver, VerdictOf

LEMMA IssueKeepsSalePromise ==
    ASSUME TypeOK, HandedOver, NEW m \in Mutations, CommitOnline(m) \/ \E q \in Requests : Commit(q, m)
    PROVE  Promise!Issue(m) \/ UNCHANGED Promise!promiseVars
<1>1. UNCHANGED <<outbox, job, receipts>>
  BY DEF CommitOnline, Commit, phoneVars
<1>2. outbox[m] # "NONE"
  BY DEF CommitOnline, Commit, IsFirst, HandedOver
<1>3. ticket' = ticket \/ (ticket[m] = "none" /\ \E draws \in {"asked", "other"} : ticket' = [ticket EXCEPT ![m] = draws])
  BY DEF CommitOnline, Commit, Sold, TypeOK
<1>4. ToldOf[outbox[m]] # "nothing"
  BY <1>2 DEF ToldOf, TypeOK
<1>5. CASE ticket' = ticket
  BY <1>1, <1>5, StutterKeepsSalePromise
<1>6. CASE ticket[m] = "none" /\ \E draws \in {"asked", "other"} : ticket' = [ticket EXCEPT ![m] = draws]
  BY <1>1, <1>4, <1>6 DEF Promise!Issue, ToldOf, VerdictOf
<1> QED
  BY <1>3, <1>5, <1>6

LEMMA DecideKeepsSalePromise ==
    ASSUME SyncInv, HandedOver, NEW q \in Requests, NEW m \in Mutations, Record(q, m) \/ Reject(q, m)
    PROVE  Promise!Decide(m)
<1>0. TypeOK
  BY DEF SyncInv
<1>1. UNCHANGED <<outbox, ticket, receipts>>
  BY DEF Record, Reject, phoneVars
<1>2. Selling(q, m)
  BY DEF Record, Reject, Selling, Owning
<1>3. job[m] = "RECEIVED"
  BY <1>2 DEF SyncInv, OneHandlerPerMutation
<1>4. outbox[m] \in {"PENDING", "RETRY"}
  BY <1>0, <1>2, <1>3 DEF SyncInv, OutboxTellsTheTruth, HandedOver, Selling, IsFirst, TypeOK
<1>5. ToldOf[outbox[m]] = "queued" /\ VerdictOf[job[m]] = "none"
  BY <1>3, <1>4 DEF ToldOf, VerdictOf
<1>6. CASE Record(q, m)
  <2>1. ticket[m] # "none"
    BY <1>6 DEF Record, SyncInv, SoldBeforeRecord, Sold
  <2>2. \A n \in Mutations : VerdictOf[job[n]]' = IF n = m THEN "accepted" ELSE VerdictOf[job[n]]
    BY <1>0, <1>6 DEF Record, VerdictOf, TypeOK
  <2> QED
    BY <1>1, <1>5, <2>1, <2>2 DEF Promise!Decide, ToldOf
<1>7. CASE Reject(q, m)
  <2>1. \A n \in Mutations : VerdictOf[job[n]]' = IF n = m THEN "refused" ELSE VerdictOf[job[n]]
    BY <1>0, <1>7 DEF Reject, VerdictOf, TypeOK
  <2> QED
    BY <1>1, <1>5, <2>1 DEF Promise!Decide, ToldOf
<1> QED
  BY <1>6, <1>7

LEMMA CreateKeepsSalePromise ==
    ASSUME TypeOK, NEW q \in Requests, NEW m \in Mutations, CreateJob(q, m)
    PROVE  UNCHANGED Promise!promiseVars
<1>1. UNCHANGED <<outbox, ticket, receipts>>
  BY DEF CreateJob, phoneVars
<1>2. \A n \in Mutations : VerdictOf[job[n]]' = VerdictOf[job[n]]
  BY DEF CreateJob, VerdictOf, TypeOK
<1> QED
  BY <1>1, <1>2 DEF Promise!promiseVars, ToldOf

LEMMA AnswerKeepsSalePromise ==
    ASSUME SyncInv, HandedOver, NEW q \in Requests, NEW m \in Mutations, TakeAnswer(q, m) \/ PrintAnswer(q, m)
    PROVE  Promise!Tell(m) \/ Promise!HandReceipt(m) \/ UNCHANGED Promise!promiseVars
<1>0. TypeOK /\ OutboxTellsTheTruth /\ AnswersOnRecord
  BY DEF SyncInv
<1>1. CASE TakeAnswer(q, m)
  <2>1. UNCHANGED <<job, ticket, receipts>> /\ outbox' = [outbox EXCEPT ![m] = RowAfter(m, answer[q][m])]
    BY <1>1 DEF TakeAnswer, serverVars
  <2>2. CASE RowAfter(m, answer[q][m]) = outbox[m]
    <3>1. outbox' = outbox
      BY <1>0, <2>1, <2>2 DEF TypeOK
    <3> QED
      BY <2>1, <3>1, StutterKeepsSalePromise
  <2>3. CASE RowAfter(m, answer[q][m]) # outbox[m]
    <3>1. answer[q][m] \in {"APPLIED", "REJECTED"} /\ RowAfter(m, answer[q][m]) = job[m] /\ job[m] = answer[q][m]
      BY <1>0, <2>3 DEF RowAfter, AnswersOnRecord
    <3>2. outbox[m] \in {"PENDING", "RETRY"}
      BY <1>0, <2>3, <3>1 DEF OutboxTellsTheTruth, HandedOver, TypeOK
    <3>3. ToldOf[outbox[m]] = "queued" /\ VerdictOf[job[m]] # "none"
      BY <3>1, <3>2 DEF ToldOf, VerdictOf
    <3>4. \A n \in Mutations : ToldOf[outbox[n]]' = IF n = m THEN VerdictOf[job[m]] ELSE ToldOf[outbox[n]]
      BY <1>0, <2>1, <3>1 DEF ToldOf, VerdictOf, TypeOK
    <3> QED
      BY <2>1, <3>3, <3>4 DEF Promise!Tell, VerdictOf
  <2> QED
    BY <2>2, <2>3
<1>2. CASE PrintAnswer(q, m)
  <2>1. UNCHANGED <<outbox, job, ticket>> /\ \E fetched \in BOOLEAN : receipts' = [receipts EXCEPT ![m] = @ \/ fetched]
    BY <1>2 DEF PrintAnswer, serverVars
  <2>2. outbox[m] = "APPLIED"
    BY <1>2 DEF PrintAnswer, SyncInv, PrintsAccepted
  <2>3. receipts' = receipts \/ receipts' = [receipts EXCEPT ![m] = TRUE]
    <3>1. PICK fetched \in BOOLEAN : receipts' = [receipts EXCEPT ![m] = @ \/ fetched]
      BY <2>1
    <3>2. receipts \in [Mutations -> BOOLEAN]
      BY <1>0 DEF TypeOK
    <3>3. CASE fetched
      <4>1. (receipts[m] \/ fetched) = TRUE
        BY <3>3, Zenon
      <4> QED
        BY <3>1, <4>1, Zenon
    <3>4. CASE ~fetched
      <4>1. receipts[m] \in BOOLEAN
        BY <3>2, Zenon
      <4>2. (receipts[m] \/ fetched) = receipts[m]
        BY <3>4, <4>1, Zenon
      <4>3. receipts' = [receipts EXCEPT ![m] = receipts[m]]
        BY <3>1, <4>2, Zenon
      <4> QED
        BY <3>2, <4>3, SMT
    <3> QED
      BY <3>3, <3>4
  <2>4. ToldOf[outbox[m]] = "accepted"
    BY <2>2 DEF ToldOf
  <2>5. CASE receipts' = receipts
    BY <2>1, <2>5, StutterKeepsSalePromise
  <2>6. CASE receipts' = [receipts EXCEPT ![m] = TRUE]
    BY <2>1, <2>4, <2>6 DEF Promise!HandReceipt, ToldOf, VerdictOf
  <2> QED
    BY <2>3, <2>5, <2>6
<1> QED
  BY <1>1, <1>2

LEMMA NextKeepsSalePromise ==
    SyncInv /\ HandedOver /\ [Next]_vars => [Promise!PromiseNext]_(Promise!promiseVars)
<1> SUFFICES ASSUME SyncInv, HandedOver, [Next]_vars
             PROVE  Promise!PromiseNext \/ UNCHANGED Promise!promiseVars
  OBVIOUS
<1> USE DEF phoneVars, serverVars
<1>0. TypeOK
  BY DEF SyncInv
<1>1. ASSUME UNCHANGED <<outbox, job, ticket, receipts>> PROVE UNCHANGED Promise!promiseVars
  BY <1>1, StutterKeepsSalePromise
<1>2. ASSUME NEW q \in Requests, PutOff(q) PROVE UNCHANGED Promise!promiseVars
  <2>1. \A m \in Mutations : ToldOf[outbox[m]]' = ToldOf[outbox[m]]
    BY <1>0, <1>2 DEF PutOff, RowsToRetry, Batch, ReadyRows, ToldOf, TypeOK
  <2> QED
    BY <1>2, <2>1, StutterKeepsSalePromise DEF PutOff
<1>3. ASSUME NEW q \in Requests, EngineStep(q) \/ LoseAnswer(q) \/ Run(q)
      PROVE  Promise!PromiseNext \/ UNCHANGED Promise!promiseVars
  <2>1. CASE Run(q) \/ Receive(q) \/ EndRun(q)
    BY <1>1, <2>1 DEF Run, Receive, EndRun
  <2>2. CASE TakeRefusal(q) \/ LoseAnswer(q)
    BY <1>2, <2>2 DEF TakeRefusal, LoseAnswer
  <2>3. ASSUME NEW m \in Mutations, TakeAnswer(q, m) \/ PrintAnswer(q, m)
        PROVE  Promise!PromiseNext \/ UNCHANGED Promise!promiseVars
    BY <2>3, AnswerKeepsSalePromise DEF Promise!PromiseNext
  <2> QED
    BY <1>3, <2>1, <2>2, <2>3 DEF EngineStep
<1>4. ASSUME NEW q \in Requests, HandlerStep(q) \/ FailInTry(q) \/ Crash(q)
      PROVE  Promise!PromiseNext \/ UNCHANGED Promise!promiseVars
  <2>1. CASE Admit(q) \/ Greet(q) \/ Reply(q) \/ FailInTry(q) \/ Crash(q) \/ \E m \in Mutations : LookUp(q, m) \/ Sell(q, m)
    BY <1>1, <2>1 DEF Admit, Greet, Reply, FailInTry, Crash, LookUp, Sell
  <2>2. ASSUME NEW m \in Mutations, CreateJob(q, m) PROVE UNCHANGED Promise!promiseVars
    BY <1>0, <2>2, CreateKeepsSalePromise
  <2>3. ASSUME NEW m \in Mutations, Commit(q, m) PROVE Promise!PromiseNext \/ UNCHANGED Promise!promiseVars
    BY <1>0, <2>3, IssueKeepsSalePromise DEF Promise!PromiseNext
  <2>4. ASSUME NEW m \in Mutations, Record(q, m) \/ Reject(q, m) PROVE Promise!PromiseNext
    BY <2>4, DecideKeepsSalePromise DEF Promise!PromiseNext
  <2> QED
    BY <1>4, <2>1, <2>2, <2>3, <2>4 DEF HandlerStep
<1>5. ASSUME NEW m \in Mutations, MutationStep(m)
      PROVE  Promise!PromiseNext \/ UNCHANGED Promise!promiseVars
  <2>1. CASE Queue(m)
    BY <1>0, <2>1, QueueKeepsSalePromise DEF Promise!PromiseNext
  <2>2. CASE BecomeDue(m) \/ Close(m) \/ CheckOnline(m)
    BY <1>1, <2>2 DEF BecomeDue, Close, CheckOnline
  <2>3. CASE CommitOnline(m)
    BY <1>0, <2>3, IssueKeepsSalePromise DEF Promise!PromiseNext
  <2> QED
    BY <1>5, <2>1, <2>2, <2>3 DEF MutationStep
<1>6. CASE EndApp \/ \E status \in {"BLOCKED", "OFFLINE"} : SetDevice(status)
  BY <1>1, <1>6 DEF EndApp, SetDevice
<1>7. CASE UNCHANGED vars
  BY <1>1, <1>7 DEF vars
<1> QED
  BY <1>3, <1>4, <1>5, <1>6, <1>7 DEF Next

\* A sale handed over without a connection gets one ticket at most and one decision, and the merchant is told that
\* decision and no other (sync_engine.dart, sync.service.ts), for any number of sales and of overlapping batches.
THEOREM OfflineSaleKeepsPromise == Spec => KeepsSalePromise
  BY InitKeepsSalePromise, NextKeepsSalePromise, SyncInvariant, AlwaysHandedOver, PTL
     DEF Spec, KeepsSalePromise, Promise!PromiseSpec
=============================================================================
