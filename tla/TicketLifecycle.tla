--------------------------- MODULE TicketLifecycle ---------------------------
(***************************************************************************)
(* The money path of the lottery API: draws that open, close and get a     *)
(* result; tickets that are sold against them, cancelled, deleted,         *)
(* evaluated and paid; and the ledger entries each of these writes.        *)
(*                                                                         *)
(* One action is one PostgreSQL transaction of a handler (all of them but  *)
(* the draw job and the draw transition run SERIALIZABLE).  What a handler *)
(* reads before its transaction is an action of its own, and everything it *)
(* carries across that gap is a variable: checkedOpen for the draws a sale *)
(* found open, cancelling for the clock reading of a cancellation.  The    *)
(* transaction of a payout is two actions, its snapshot and its commit,    *)
(* with the rows it has read in between.                                   *)
(***************************************************************************)
EXTENDS Naturals

CONSTANTS
    Tickets,            \* one per tenant-scoped sale idempotency key
    Draws,
    Results,            \* winning numbers a draw can be given
    Keys,               \* payout idempotency keys
    Payers,             \* payout requests the API handles at the same time
    DrawsOf,            \* the draws the lines of a ticket are on
    Primary,            \* Ticket.drawId: the first draw of the request
    Prize(_, _),        \* what a ticket wins, given the result of each of its draws
    KeepsPotentialWin,  \* does presentTicketLines leave potentialWin on a line?
    NoResult,
    NoKey,
    MaxVersion,         \* bound: publication and corrections of one draw
    MaxStarts           \* bound: process starts that scan for unchecked tickets

\* The numbers that decide a ticket: the result of each draw it has lines on.
Outcomes(t) == [DrawsOf[t] -> Results]

ASSUME TicketAssumption ==
    /\ DrawsOf \in [Tickets -> SUBSET Draws]
    /\ Primary \in [Tickets -> Draws]
    /\ \A t \in Tickets : Primary[t] \in DrawsOf[t]
ASSUME PrizeAssumption == \A t \in Tickets : \A o \in Outcomes(t) : Prize(t, o) \in Nat
ASSUME SentinelAssumption == NoResult \notin Results /\ NoKey \notin Keys
ASSUME BoundAssumption == MaxVersion \in Nat \ {0} /\ MaxStarts \in Nat
ASSUME FlagAssumption == KeepsPotentialWin \in BOOLEAN

VARIABLES
    drawStatus,  \* Draw.status
    clock,       \* where the server clock stands in the draw's schedule
    result,      \* Draw.result, once published
    version,     \* Draw.publishedAt: a new value at each publication or edit
    status,      \* Ticket.status, "NONE" before the ticket exists
    winning,     \* WinningTicket.winningAmount, 0 without a row
    checked,     \* per draw, the newest version a RESULT_CHECKED event names
    deleted,     \* has the ticket a DELETED event?
    canceller,   \* tenantOverride of the CANCELLED event
    windowOpen,  \* is it less than ticket_cancellation_seconds since the sale?
    checkedOpen, \* sale in flight: the draws it has read and found open
    cancelling,  \* merchant cancellation in flight: its clock reading was in time
    posted,      \* kinds of the ticket's ledger transactions that are POSTED
    reversed,    \* ... that are REVERSED
    adjusted,    \* ... that have an ADJUSTMENT with their entries swapped
    paid,        \* Payout.amount, 0 without a row
    payKey,      \* Payout.idempotencyKey
    payment,     \* payouts in flight: where each is, and the ticket row it has read
    told,        \* tickets of the payouts that requests with a key were answered with
    toScan,      \* start-up scan: published draws not looked at yet
    todo,        \* start-up scan: <<draw, ticket>> pairs still to recalculate
    starts       \* process starts so far

drawVars  == <<drawStatus, clock, result, version>>
stateVars == <<status, winning, checked>>
flagVars  == <<deleted, canceller, windowOpen>>
payVars   == <<payment, told>>
callVars  == <<checkedOpen, cancelling, payVars>>
bookVars  == <<posted, reversed, adjusted, paid, payKey>>
scanVars  == <<toScan, todo, starts>>
vars == <<drawVars, stateVars, flagVars, callVars, bookVars, scanVars>>

DrawStatus == {"SCHEDULED", "OPEN", "CLOSED", "RESULT_PENDING", "RESULT_PUBLISHED", "CANCELLED"}
\* PENDING is a ticket that some but not all of its draws decided. VOID and EXPIRED are in the
\* schema's enumeration and no code writes them.
TicketStatus == {"NONE", "VALID", "PENDING", "WINNER", "LOSER", "PAID", "CANCELLED"}
Kinds == {"SALE", "COMMISSION"}

\* The clock against one draw: before opensAt, selling, past closesAt - cutoffSeconds, past closesAt.
Phases == {"early", "selling", "cutoff", "past"}
Later(p) == CASE p = "early" -> "selling" [] p = "selling" -> "cutoff" [] OTHER -> "past"

\* A payout in flight has looked its key up, or is inside its transaction with the row it has read.
Idle == [at |-> "idle"]
Row(t) == [status |-> status[t], winning |-> winning[t], checked |-> checked[t], deleted |-> deleted[t]]
Rows == [status : TicketStatus, winning : Nat, checked : [Draws -> 0..MaxVersion], deleted : BOOLEAN]
Payments ==
    {Idle} \cup [at : {"asked"}, ticket : Tickets, key : Keys]
           \cup [at : {"inside"}, ticket : Tickets, key : Keys, row : Rows]

TypeOK ==
    /\ drawStatus \in [Draws -> DrawStatus]
    /\ clock \in [Draws -> Phases]
    /\ result \in [Draws -> Results \cup {NoResult}]
    /\ version \in [Draws -> 0..MaxVersion]
    /\ status \in [Tickets -> TicketStatus]
    /\ winning \in [Tickets -> Nat]
    /\ checked \in [Tickets -> [Draws -> 0..MaxVersion]]
    /\ deleted \in [Tickets -> BOOLEAN]
    /\ canceller \in [Tickets -> {"NONE", "MERCHANT", "TENANT_OWNER"}]
    /\ windowOpen \in [Tickets -> BOOLEAN]
    /\ checkedOpen \in [Tickets -> SUBSET Draws]
    /\ cancelling \in [Tickets -> BOOLEAN]
    /\ posted \in [Tickets -> SUBSET {"SALE", "COMMISSION", "PAYOUT"}]
    /\ reversed \in [Tickets -> SUBSET Kinds]
    /\ adjusted \in [Tickets -> SUBSET Kinds]
    /\ paid \in [Tickets -> Nat]
    /\ payKey \in [Tickets -> Keys \cup {NoKey}]
    /\ payment \in [Payers -> Payments]
    /\ told \in [Keys -> SUBSET Tickets]
    /\ toScan \subseteq Draws
    /\ todo \subseteq Draws \X Tickets
    /\ starts \in 0..MaxStarts

Init ==
    /\ drawStatus = [d \in Draws |-> "SCHEDULED"]
    /\ clock = [d \in Draws |-> "early"]
    /\ result = [d \in Draws |-> NoResult]
    /\ version = [d \in Draws |-> 0]
    /\ status = [t \in Tickets |-> "NONE"]
    /\ winning = [t \in Tickets |-> 0]
    /\ checked = [t \in Tickets |-> [d \in Draws |-> 0]]
    /\ deleted = [t \in Tickets |-> FALSE]
    /\ canceller = [t \in Tickets |-> "NONE"]
    /\ windowOpen = [t \in Tickets |-> FALSE]
    /\ checkedOpen = [t \in Tickets |-> {}]
    /\ cancelling = [t \in Tickets |-> FALSE]
    /\ posted = [t \in Tickets |-> {}]
    /\ reversed = [t \in Tickets |-> {}]
    /\ adjusted = [t \in Tickets |-> {}]
    /\ paid = [t \in Tickets |-> 0]
    /\ payKey = [t \in Tickets |-> NoKey]
    /\ payment = [p \in Payers |-> Idle]
    /\ told = [k \in Keys |-> {}]
    /\ toScan = {}
    /\ todo = {}
    /\ starts = 0

-----------------------------------------------------------------------------
(***************************************************************************)
(* Draws: the clock, the maintenance job and the manual transitions.       *)
(***************************************************************************)

Tick(d) ==
    /\ clock[d] # "past"
    /\ clock' = [clock EXCEPT ![d] = Later(@)]
    /\ UNCHANGED <<drawStatus, result, version, stateVars, flagVars, callVars, bookVars, scanVars>>

\* One run of the job's two updateMany statements; they touch disjoint draws.
JobStatus(d) ==
    IF drawStatus[d] = "SCHEDULED" /\ clock[d] \in {"selling", "cutoff"} THEN "OPEN"
    ELSE IF drawStatus[d] = "OPEN" /\ clock[d] = "past" THEN "CLOSED"
    ELSE drawStatus[d]

DrawsJob ==
    /\ drawStatus' = [d \in Draws |-> JobStatus(d)]
    /\ drawStatus' # drawStatus
    /\ UNCHANGED <<clock, result, version, stateVars, flagVars, callVars, bookVars, scanVars>>

Transitions ==
    [SCHEDULED |-> {"OPEN", "CANCELLED"}, OPEN |-> {"CLOSED", "CANCELLED"},
     CLOSED |-> {"RESULT_PENDING", "CANCELLED"}, RESULT_PENDING |-> {"RESULT_PUBLISHED", "CANCELLED"},
     RESULT_PUBLISHED |-> {}, CANCELLED |-> {}]

\* A result sent along with the new status is overwritten by the publication that makes it count.
Transition(d, next) ==
    /\ next # "RESULT_PUBLISHED"
    /\ next \in Transitions[drawStatus[d]]
    /\ drawStatus' = [drawStatus EXCEPT ![d] = next]
    /\ UNCHANGED <<clock, result, version, stateVars, flagVars, callVars, bookVars, scanVars>>

-----------------------------------------------------------------------------
(***************************************************************************)
(* Sale.  Every draw of the request is read and checked, one at a time and *)
(* outside the transaction that later stores the ticket.                   *)
(***************************************************************************)

IsBettingOpen(d) == drawStatus[d] = "OPEN" /\ clock[d] \in {"early", "selling"}

CheckDraw(t, d) ==
    /\ status[t] = "NONE"
    /\ d \in DrawsOf[t] \ checkedOpen[t]
    /\ IsBettingOpen(d)
    /\ checkedOpen' = [checkedOpen EXCEPT ![t] = @ \cup {d}]
    /\ UNCHANGED <<drawVars, stateVars, flagVars, cancelling, payVars, bookVars, scanVars>>

\* A commission is posted with the sale when some active rule matches (\E rules).
Sell(t) ==
    /\ status[t] = "NONE"
    /\ checkedOpen[t] = DrawsOf[t]
    /\ status' = [status EXCEPT ![t] = "VALID"]
    /\ windowOpen' = [windowOpen EXCEPT ![t] = TRUE]
    /\ checkedOpen' = [checkedOpen EXCEPT ![t] = {}]
    /\ \E rules \in {{}, {"COMMISSION"}} : posted' = [posted EXCEPT ![t] = {"SALE"} \cup rules]
    /\ UNCHANGED <<drawVars, winning, checked, deleted, canceller, cancelling, payVars,
                   reversed, adjusted, paid, payKey, scanVars>>

\* ticket_cancellation_seconds have passed since createdAt.
WindowLapses(t) ==
    /\ windowOpen[t]
    /\ windowOpen' = [windowOpen EXCEPT ![t] = FALSE]
    /\ UNCHANGED <<drawVars, stateVars, deleted, canceller, callVars, bookVars, scanVars>>

\* A commission posted later by an operator for a ticket that was sold without one.  The
\* CommissionTransaction of a cancelled ticket is kept, so it still blocks a second one.
MayEarnCommissionAlways(t) == status[t] # "NONE"  \* mutant: cancelled tickets not excluded
MayEarnCommission(t) == status[t] \notin {"NONE", "CANCELLED"}

ApplyCommission(t) ==
    /\ "COMMISSION" \notin posted[t] \cup reversed[t]
    /\ MayEarnCommission(t)
    /\ posted' = [posted EXCEPT ![t] = @ \cup {"COMMISSION"}]
    /\ UNCHANGED <<drawVars, stateVars, flagVars, callVars, reversed, adjusted, paid, payKey, scanVars>>

-----------------------------------------------------------------------------
(***************************************************************************)
(* Cancellation and operational deletion.                                  *)
(***************************************************************************)

\* VALID, no payout, no winning record.
Untouched(t) == status[t] = "VALID" /\ paid[t] = 0 /\ winning[t] = 0

\* The deadline is min(closesAt of the primary draw, createdAt + window), and `now` is read
\* before the transaction starts.
BeginCancel(t) ==
    /\ status[t] = "VALID"
    /\ ~cancelling[t]
    /\ clock[Primary[t]] # "past"
    /\ windowOpen[t]
    /\ cancelling' = [cancelling EXCEPT ![t] = TRUE]
    /\ UNCHANGED <<drawVars, stateVars, flagVars, checkedOpen, payVars, bookVars, scanVars>>

\* What both cancellations do: every POSTED sale and commission transaction is marked REVERSED
\* and answered by an ADJUSTMENT with its entries swapped.
ReversibleCommission(t) == posted[t] \cap {"COMMISSION"}  \* mutant: the sale is not looked for
Reversible(t) == posted[t] \cap Kinds

Refund(t, who) ==
    /\ Untouched(t)
    /\ ~deleted[t]
    /\ status' = [status EXCEPT ![t] = "CANCELLED"]
    /\ canceller' = [canceller EXCEPT ![t] = who]
    /\ posted' = [posted EXCEPT ![t] = @ \ Reversible(t)]
    /\ reversed' = [reversed EXCEPT ![t] = @ \cup Reversible(t)]
    /\ adjusted' = [adjusted EXCEPT ![t] = @ \cup Reversible(t)]
    /\ UNCHANGED <<drawVars, winning, checked, deleted, windowOpen, checkedOpen, payVars,
                   paid, payKey, scanVars>>

MerchantCancel(t) ==
    /\ cancelling[t]
    /\ drawStatus[Primary[t]] = "OPEN"
    /\ Refund(t, "MERCHANT")
    /\ cancelling' = [cancelling EXCEPT ![t] = FALSE]

CancelRefused(t) ==
    /\ cancelling[t]
    /\ ~(drawStatus[Primary[t]] = "OPEN" /\ Untouched(t) /\ ~deleted[t])
    /\ cancelling' = [cancelling EXCEPT ![t] = FALSE]
    /\ UNCHANGED <<drawVars, stateVars, flagVars, checkedOpen, payVars, bookVars, scanVars>>

\* No draw status and no deadline for the tenant owner.
OwnerCancel(t) == Refund(t, "TENANT_OWNER") /\ UNCHANGED cancelling

\* A merchant may hide a ticket only while it is untouched and all its draws are open; other
\* staff with the permission always may.  The ticket and its journals stay.
MerchantMayDelete(t) ==
    Untouched(t) /\ \A d \in DrawsOf[t] : drawStatus[d] = "OPEN" /\ clock[d] # "past"

DeleteTicket(t, byMerchant) ==
    /\ status[t] # "NONE"
    /\ ~deleted[t]
    /\ byMerchant => MerchantMayDelete(t)
    /\ deleted' = [deleted EXCEPT ![t] = TRUE]
    /\ UNCHANGED <<drawVars, stateVars, canceller, windowOpen, callVars, bookVars, scanVars>>

-----------------------------------------------------------------------------
(***************************************************************************)
(* Results.  Publication and correction recalculate every ticket of the    *)
(* draw in the same transaction, from the results of all its draws.        *)
(***************************************************************************)

Decided(t, ds) == \A d \in DrawsOf[t] : ds[d] = "RESULT_PUBLISHED"
OutcomeOf(t, rs) == [d \in DrawsOf[t] |-> rs[d]]
Amount(t, ds, rs) == IF Decided(t, ds) THEN Prize(t, OutcomeOf(t, rs)) ELSE 0
VerdictOfDraw(t, ds, rs) ==  \* mutant: a draw status where a ticket status belongs
    IF ~Decided(t, ds) THEN "RESULT_PENDING" ELSE IF Amount(t, ds, rs) > 0 THEN "WINNER" ELSE "LOSER"
Verdict(t, ds, rs) ==
    IF ~Decided(t, ds) THEN "PENDING" ELSE IF Amount(t, ds, rs) > 0 THEN "WINNER" ELSE "LOSER"

\* The tickets a publication or a correction of draw d selects.
EvaluableUndecided(t) == status[t] \in {"VALID", "PENDING"}  \* mutant: decided tickets are skipped
Evaluable(t) == status[t] \in {"VALID", "PENDING", "WINNER", "LOSER"}
TicketsForDraw(d) == {t \in Tickets : d \in DrawsOf[t] /\ Evaluable(t)}

\* The RESULT_CHECKED event names every published draw of the ticket with its current version.
CheckedBy(t, ds, vs) ==
    [d \in Draws |-> IF d \in DrawsOf[t] /\ ds[d] = "RESULT_PUBLISHED" THEN vs[d] ELSE checked[t][d]]

\* Recalculate the tickets in S against draws with status ds, results rs and versions vs.
Recalculate(S, ds, rs, vs) ==
    /\ status' = [t \in Tickets |-> IF t \in S THEN Verdict(t, ds, rs) ELSE status[t]]
    /\ winning' = [t \in Tickets |-> IF t \in S THEN Amount(t, ds, rs) ELSE winning[t]]
    /\ checked' = [t \in Tickets |-> IF t \in S THEN CheckedBy(t, ds, vs) ELSE checked[t]]

Publishable(d) == drawStatus[d] \in {"CLOSED", "RESULT_PENDING"}

Publish(d, r) ==
    /\ Publishable(d)
    /\ version[d] < MaxVersion
    /\ drawStatus' = [drawStatus EXCEPT ![d] = "RESULT_PUBLISHED"]
    /\ result' = [result EXCEPT ![d] = r]
    /\ version' = [version EXCEPT ![d] = @ + 1]
    /\ Recalculate(TicketsForDraw(d), drawStatus', result', version')
    /\ UNCHANGED <<clock, flagVars, callVars, bookVars, scanVars>>

\* RESULT_LOCKED_AFTER_PAYOUT: a correction is refused once any ticket of the draw was paid.
UnlockedPrimary(d) == \A t \in Tickets : d = Primary[t] => paid[t] = 0  \* mutant: ticketDraws forgotten
UnlockedWinners(d) ==  \* mutant: counts winners, and a paid ticket is none any more
    \A t \in Tickets : d \in DrawsOf[t] => status[t] # "WINNER"
Unlocked(d) == \A t \in Tickets : d \in DrawsOf[t] => paid[t] = 0

EditResult(d, r) ==
    /\ drawStatus[d] = "RESULT_PUBLISHED"
    /\ Unlocked(d)
    /\ version[d] < MaxVersion
    /\ result' = [result EXCEPT ![d] = r]
    /\ version' = [version EXCEPT ![d] = @ + 1]
    /\ Recalculate(TicketsForDraw(d), drawStatus, result', version')
    /\ UNCHANGED <<drawStatus, clock, flagVars, callVars, bookVars, scanVars>>

-----------------------------------------------------------------------------
(***************************************************************************)
(* The scan at process start, which recalculates tickets that have no      *)
(* check of the current result of one of their draws.                      *)
(***************************************************************************)

CurrentCheck(t, d) == checked[t][d] = version[d]
NeedsRepair(t) == status[t] = "WINNER" /\ winning[t] = 0
Stale(t, d) ==
    /\ drawStatus[d] = "RESULT_PUBLISHED"
    /\ d \in DrawsOf[t]
    /\ Evaluable(t)
    /\ paid[t] = 0
    /\ ~CurrentCheck(t, d) \/ NeedsRepair(t)

\* The tickets of draw d the scan lists.
StalePairsDecided(d) == {d} \X {t \in Tickets : Stale(t, d) /\ status[t] # "VALID"}  \* mutant: VALID forgotten
StalePairs(d) == {d} \X {t \in Tickets : Stale(t, d)}

\* A start, or the retry a minute after a failed scan: the published draws are listed afresh.
StartScan ==
    /\ starts < MaxStarts
    /\ starts' = starts + 1
    /\ toScan' = {d \in Draws : drawStatus[d] = "RESULT_PUBLISHED"}
    /\ todo' = {}
    /\ UNCHANGED <<drawVars, stateVars, flagVars, callVars, bookVars>>

ScanDraw(d) ==
    /\ d \in toScan
    /\ todo = {}
    /\ toScan' = toScan \ {d}
    /\ todo' = StalePairs(d)
    /\ UNCHANGED <<drawVars, stateVars, flagVars, callVars, bookVars, starts>>

ReconcileTicket(d, t) ==
    /\ <<d, t>> \in todo
    /\ todo' = todo \ {<<d, t>>}
    /\ Recalculate({u \in {t} : Stale(u, d)}, drawStatus, result, version)
    /\ UNCHANGED <<drawVars, flagVars, callVars, bookVars, toScan, starts>>

-----------------------------------------------------------------------------
(***************************************************************************)
(* Payout.                                                                 *)
(***************************************************************************)

\* presentTicketLines calls the ticket a winner: every draw published and checked at its current
\* version, and the stored winning equal to the amounts of that check.
PresentedWinner(t) ==
    /\ Decided(t, drawStatus)
    /\ \A d \in DrawsOf[t] : CurrentCheck(t, d)
    /\ winning[t] > 0
    /\ winning[t] = Amount(t, drawStatus, result)

\* pay also wants a winning line whose potentialWin is positive, and reads that field from the
\* presented lines, which no longer have it.
LineGuard(t) == KeepsPotentialWin /\ winning[t] > 0

\* The payouts with a key, of which a handler returns the one it finds.
PaidWith(k) == {t \in Tickets : payKey[t] = k}

\* The handler looks the key up before its transaction.  The pages offer to pay a ticket that is, or
\* was when they loaded it, a winner without a payout.
PayRead(p, t, k) ==
    /\ payment[p] = Idle
    /\ status[t] \in {"WINNER", "PAID"}
    /\ IF PaidWith(k) = {}
       THEN payment' = [payment EXCEPT ![p] = [at |-> "asked", ticket |-> t, key |-> k]] /\ UNCHANGED told
       ELSE told' = [told EXCEPT ![k] = @ \cup PaidWith(k)] /\ UNCHANGED payment
    /\ UNCHANGED <<drawVars, stateVars, flagVars, checkedOpen, cancelling, bookVars, scanVars>>

\* What the transaction requires of the ticket it reads.
Payable(t) == ~deleted[t] /\ PresentedWinner(t) /\ LineGuard(t) /\ status[t] = "WINNER" /\ paid[t] = 0

\* The snapshot of the SERIALIZABLE transaction.  The statement that takes the advisory lock takes it
\* before it waits, so the second look at the key sees no payout that was committed during the wait,
\* and the lock keeps apart no two requests with one key.
PaySnapshot(p) ==
    /\ payment[p].at = "asked"
    /\ LET t == payment[p].ticket
           k == payment[p].key
       IN  \/ /\ PaidWith(k) = {}
              /\ Payable(t)
              /\ payment' = [payment EXCEPT ![p] = [at |-> "inside", ticket |-> t, key |-> k, row |-> Row(t)]]
              /\ UNCHANGED told
           \/ /\ PaidWith(k) # {}
              /\ payment' = [payment EXCEPT ![p] = Idle]
              /\ told' = [told EXCEPT ![k] = @ \cup PaidWith(k)]
    /\ UNCHANGED <<drawVars, stateVars, flagVars, checkedOpen, cancelling, bookVars, scanVars>>

\* At the commit the key must still be free.  A payout and its ledger transaction are unique by it,
\* and SERIALIZABLE fails a transaction that has read no payout with a key another has entered since.
NoIndexOnKey(k) == TRUE  \* mutant: nothing but the two lookups and the lock keeps a key apart
IndexAdmits(k) == PaidWith(k) = {}

\* The commit.  SERIALIZABLE lets it through while no transaction has changed the rows it read.
PayCommit(p) ==
    /\ payment[p].at = "inside"
    /\ LET t == payment[p].ticket
           k == payment[p].key
       IN  /\ Row(t) = payment[p].row
           /\ IndexAdmits(k)
           /\ status' = [status EXCEPT ![t] = "PAID"]
           /\ paid' = [paid EXCEPT ![t] = payment[p].row.winning]
           /\ payKey' = [payKey EXCEPT ![t] = k]
           /\ posted' = [posted EXCEPT ![t] = @ \cup {"PAYOUT"}]
           /\ told' = [told EXCEPT ![k] = @ \cup {t}]
    /\ payment' = [payment EXCEPT ![p] = Idle]
    /\ UNCHANGED <<drawVars, winning, checked, flagVars, checkedOpen, cancelling, reversed, adjusted, scanVars>>

\* Refused, a serialization failure, the unique index, or a process that stops: nothing is written.
PayFails(p) ==
    /\ payment[p] # Idle
    /\ payment' = [payment EXCEPT ![p] = Idle]
    /\ UNCHANGED <<drawVars, stateVars, flagVars, checkedOpen, cancelling, told, bookVars, scanVars>>

-----------------------------------------------------------------------------
DrawStep ==
    \/ DrawsJob
    \/ \E d \in Draws : Tick(d)
    \/ \E d \in Draws : \E next \in DrawStatus : Transition(d, next)
    \/ \E d \in Draws, r \in Results : Publish(d, r)
    \/ \E d \in Draws, r \in Results : EditResult(d, r)

TicketStep(t) ==
    \/ \E d \in Draws : CheckDraw(t, d)
    \/ Sell(t)
    \/ WindowLapses(t)
    \/ ApplyCommission(t)
    \/ BeginCancel(t)
    \/ MerchantCancel(t)
    \/ CancelRefused(t)
    \/ OwnerCancel(t)
    \/ \E byMerchant \in BOOLEAN : DeleteTicket(t, byMerchant)

PayStep ==
    \/ \E p \in Payers, t \in Tickets, k \in Keys : PayRead(p, t, k)
    \/ \E p \in Payers : PaySnapshot(p) \/ PayCommit(p) \/ PayFails(p)

ScanStep ==
    \/ StartScan
    \/ \E d \in Draws : ScanDraw(d)
    \/ \E d \in Draws, t \in Tickets : ReconcileTicket(d, t)

Next == DrawStep \/ (\E t \in Tickets : TicketStep(t)) \/ PayStep \/ ScanStep

Spec == Init /\ [][Next]_vars

\* The scan runs by itself once the process has started: nothing but a crash, which is another
\* StartScan, stops it.
ScanFairness ==
    /\ \A d \in Draws : WF_vars(ScanDraw(d))
    /\ \A d \in Draws, t \in Tickets : WF_vars(ReconcileTicket(d, t))

ScanSpec == Spec /\ ScanFairness

\* Every request ends.  A merchant keeps presenting a winning ticket that is still shown to him, and
\* of his attempts not every one fails.
Paying(p, t) == payment[p] # Idle /\ payment[p].ticket = t
PayFairness ==
    /\ \A p \in Payers : WF_vars(PaySnapshot(p) \/ PayCommit(p) \/ PayFails(p))
    /\ \A t \in Tickets :
          /\ WF_vars(\E p \in Payers, k \in Keys : PayRead(p, t, k))
          /\ SF_vars(\E p \in Payers : Paying(p, t) /\ PaySnapshot(p))
          /\ SF_vars(\E p \in Payers : Paying(p, t) /\ PayCommit(p))

FairSpec == Spec /\ ScanFairness /\ PayFairness

-----------------------------------------------------------------------------
(***************************************************************************)
(* Safety.                                                                 *)
(***************************************************************************)

\* A ticket that publication has reached says what the published results say, whatever order its
\* draws were published and corrected in: PENDING while some but not all draws are decided, then
\* WINNER with exactly the prize or LOSER without a winning row, and every check current.
\* (results.service.ts: publish, editPlatform, reconcileOneTicket, recalculateTicket)
SettledTicketsAgree ==
    \A t \in Tickets :
        /\ status[t] \in {"PENDING", "WINNER", "LOSER"} =>
               /\ status[t] = Verdict(t, drawStatus, result)
               /\ winning[t] = Amount(t, drawStatus, result)
               /\ \A d \in DrawsOf[t] : drawStatus[d] = "RESULT_PUBLISHED" => CurrentCheck(t, d)
        /\ status[t] \in {"NONE", "VALID", "CANCELLED"} => winning[t] = 0

\* What was paid is what the results still say: the payout equals the prize under the results that
\* are published now, not only under those published at the time.
\* (payouts.service.ts: pay; results.service.ts: editPlatform's RESULT_LOCKED_AFTER_PAYOUT)
PaidMatchesResults ==
    \A t \in Tickets :
        /\ status[t] = "PAID" <=> paid[t] > 0
        /\ status[t] = "PAID" => /\ Decided(t, drawStatus)
                                 /\ paid[t] = Amount(t, drawStatus, result)

\* The journals follow the status: a cancelled ticket has every sale and commission entry answered
\* once and nothing posted after it; any other ticket keeps its sale posted and unreversed; a
\* payout is booked for paid tickets and no others.
\* (tickets.service.ts: create, cancel; commission-processor.service.ts: apply; payouts.service.ts: pay)
BooksFollowStatus ==
    \A t \in Tickets :
        /\ adjusted[t] = reversed[t]
        /\ "PAYOUT" \in posted[t] <=> status[t] = "PAID"
        /\ "SALE" \in posted[t] <=> status[t] \notin {"NONE", "CANCELLED"}
        /\ status[t] \in {"NONE", "CANCELLED"} => posted[t] = {}
        /\ IF status[t] = "CANCELLED" THEN "SALE" \in reversed[t] ELSE reversed[t] = {}

\* Requests with one payout key, retried or at the same time and for whatever tickets, move money
\* once: at most one ticket is paid with the key, and each of their answers is that payout, which is
\* on the books.  (payouts.service.ts: pay, with its lookup outside, its advisory lock and its second
\* lookup; schema.prisma: Payout)
OnePayoutPerKey ==
    \A k \in Keys :
        /\ \A t, u \in PaidWith(k) : t = u
        /\ told[k] \subseteq PaidWith(k)
        /\ \A t \in PaidWith(k) : status[t] = "PAID" /\ paid[t] > 0

\* Money that has moved out stays as it was: after a payout neither the ticket, nor its payout, nor
\* the result of any of its draws changes, and a cancelled ticket never comes back.
\* (payouts.service.ts: pay; results.service.ts: publish, editPlatform; lottery-policy.ts: transitions)
StaysFinal(t) ==
    /\ status[t] = "PAID" =>
          /\ status'[t] = "PAID" /\ paid'[t] = paid[t] /\ payKey'[t] = payKey[t]
          /\ \A d \in DrawsOf[t] : result'[d] = result[d] /\ drawStatus'[d] = drawStatus[d]
    /\ status[t] = "CANCELLED" => status'[t] = "CANCELLED"

PaidIsFinal == [][\A t \in Tickets : StaysFinal(t)]_vars

\* A draw whose status says published has a result, and no other draw has ever had a version.
PublishedDraws ==
    \A d \in Draws :
        IF drawStatus[d] = "RESULT_PUBLISHED" THEN result[d] \in Results ELSE version[d] = 0

\* A payout inside its transaction has read a winner with a prize.
InsideIsWinner ==
    \A p \in Payers : payment[p].at = "inside" =>
        payment[p].row.status = "WINNER" /\ payment[p].row.winning > 0

\* The conjunction that every step preserves.
TicketInv ==
    /\ TypeOK
    /\ PublishedDraws
    /\ SettledTicketsAgree
    /\ PaidMatchesResults
    /\ BooksFollowStatus
    /\ OnePayoutPerKey
    /\ InsideIsWinner

(***************************************************************************)
(* Liveness, under FairSpec.                                               *)
(***************************************************************************)

\* A ticket on a draw the start-up scan has still to reach does not keep an outdated check, even
\* when a crash restarts the scan half-way.  (results.service.ts: reconcilePublishedTicketResults)
ScanReachesStale ==
    \A t \in Tickets, d \in Draws : (d \in toScan /\ Stale(t, d)) ~> ~Stale(t, d)

\* A winning ticket that stays visible does not stay unpaid while it is presented for payment.
\* ("A ticket must atomically move from `WINNER` to `PAID`", docs/architecture/ticket-payout-invariants.md)
WinnersGetPaid == \A t \in Tickets : ~ <>[](status[t] = "WINNER" /\ ~deleted[t])
=============================================================================
