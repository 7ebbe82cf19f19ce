------------------------------ MODULE Reports -------------------------------
(***************************************************************************)
(* The sales report of a tenant while tickets are sold, cancelled, deleted *)
(* and paid and merchants change office: services/api/src/reports/         *)
(* (reports.service.ts, report-draw-policy.ts) and the platform figures of *)
(* services/api/src/master/.                                               *)
(*                                                                         *)
(* The report is a dozen queries sent at once, each with its own copy of   *)
(* the condition that says what counts, each reading the database at its   *)
(* own moment.  A total is the set of tickets (or of lines) it adds up.    *)
(* Queries that run between two changes commute, so one step reads a set of*)
(* them; groupings by office and by game repeat the one by merchant.       *)
(***************************************************************************)
EXTENDS Integers, FiniteSets

CONSTANTS
    Tickets, Merchants, Offices,
    Contents,     \* what a ticket may hold: [primary, draws, lines], a line being [id, draw, free]
    HomeOffice,   \* the office of each merchant at first
    Days,         \* business days
    NoDraw,       \* a line without a draw of its own
    Nothing,      \* no value
    Requests,     \* bound: the requests made, [by, merchants, office, days]
    Batches       \* bound: the sets of queries that may be the first ones answered

ASSUME ReportsAssumption ==
    /\ HomeOffice \in [Merchants -> Offices]
    /\ \A c \in Contents : /\ \A l \in c.lines : l.draw \in c.draws \union {NoDraw}
                           /\ c.draws # {} => c.primary \in c.draws
    /\ Nothing \notin Requests \union Offices /\ \A m \in Merchants : Nothing # {m}
    /\ Days \subseteq Nat /\ 1 \in Days

VARIABLES
    today,
    office,     \* MerchantAccount.branchId
    ticket,     \* the ticket as sold: [merchant, office, day, content]
    status,     \* "VALID", "CANCELLED" or "PAID"
    deleted,    \* whether it has a DELETED event
    paidOn,     \* Payout.paidAt
    asked,      \* the request: [by, merchants, office, days]
    scope,      \* what ReportsService.scope made of it: [merchants, office]
    figs,       \* the answers so far
    touched,    \* tickets changed since the request
    moved       \* merchants that have changed office

storeVars == <<today, office, ticket, status, deleted, paidOn, moved>>
vars == <<storeVars, asked, scope, figs, touched>>

Statuses == {"VALID", "CANCELLED", "PAID"}
Queries == {"totals", "cancelled", "statuses", "merchants", "days", "payouts", "commissions", "draws", "mine", "platform",
            "platformReport"}
Sold == {t \in Tickets : ticket[t] # Nothing}
Complete == asked # Nothing /\ \A q \in Queries : figs[q] # Nothing
AllDraws == UNION {c.draws \union {c.primary} : c \in Contents}

-----------------------------------------------------------------------------
(* The conditions of the queries. *)

\* A scope that lets a merchant choose the merchants.
ScopeAsked(r) ==
    [merchants |-> r.merchants, office |-> IF r.by \in Merchants THEN office[r.by] ELSE r.office]

\* A merchant gets his own figures whatever he asks for, of the office he has now.
ScopeOf(r) ==
    IF r.by \in Merchants THEN [merchants |-> {r.by}, office |-> office[r.by]]
    ELSE [merchants |-> r.merchants, office |-> r.office]

Kept(t) == status[t] # "CANCELLED"
Visible(t) == ~deleted[t]
OfMerchants(m, s) == s.merchants # Nothing => m \in s.merchants
Within(t, s) ==
    /\ OfMerchants(ticket[t].merchant, s)
    /\ s.office # Nothing => ticket[t].office = s.office
InScope(t) == Within(t, scope)
Dated(t) == ticket[t].day \in asked.days
SaleWhere(t, s) == Within(t, s) /\ Dated(t) /\ Kept(t) /\ Visible(t)

\* The commission query without its condition on the state of the ticket.
CommissionWhereAll(t) ==
    LET m == ticket[t].merchant
    IN Dated(t) /\ Visible(t) /\ OfMerchants(m, scope) /\ (scope.office # Nothing => office[m] = scope.office)

\* A commission row follows its merchant to the office he has now.
CommissionWhere(t) ==
    LET m == ticket[t].merchant
    IN Dated(t) /\ Kept(t) /\ Visible(t) /\ OfMerchants(m, scope) /\ (scope.office # Nothing => office[m] = scope.office)

\* The raw query of salesByDay without its test for deleted tickets.
DayWhereAll(t) == InScope(t) /\ Dated(t) /\ Kept(t)

\* The raw query of salesByDay.
DayWhere(t) == InScope(t) /\ Dated(t) /\ Kept(t) /\ Visible(t)

\* groupTicketSalesByDraw: the lines of the ticket a draw is credited with.
DrawSales(t, d) ==
    LET c == ticket[t].content
        selected == IF c.draws # {} THEN c.draws ELSE {c.primary}
        own(l) == (IF l.draw = NoDraw THEN c.primary ELSE l.draw) = d
    IN IF d \notin selected THEN {}
       ELSE {<<t, l>> : l \in {k \in c.lines : own(k) /\ ~k.free}}

\* MerchantsService.dashboard: what the merchant m has sold and paid out on the present day.
MerchantDay(m) ==
    LET his == {t \in Sold : ticket[t].merchant = m}
    IN [day |-> today, sales |-> {t \in his : ticket[t].day = today /\ Kept(t)},
        payouts |-> {t \in his : paidOn[t] = today}]

\* platformTicketSalesWhere
PlatformWhere(t) == Kept(t) /\ Visible(t)

\* MasterService.dashboard and MasterService.reports, each with a query of its own.
PlatformDashboard == {t \in Sold : PlatformWhere(t)}
PlatformReport == {t \in Sold : PlatformWhere(t)}

\* What a ticket is worth, line by line: free lines are not paid for.
Stakes(t) == {<<t, l>> : l \in {k \in ticket[t].content.lines : ~k.free}}

Group(S, Key(_), K) == [k \in K |-> {t \in S : Key(t) = k}]

Answer(q) ==
    LET sale == {t \in Sold : SaleWhere(t, scope)}
    IN CASE q = "totals" -> sale
         [] q = "cancelled" -> {t \in Sold : InScope(t) /\ Dated(t) /\ ~Kept(t) /\ Visible(t)}
         [] q = "statuses" ->
              Group({t \in Sold : InScope(t) /\ Dated(t) /\ Visible(t)}, LAMBDA t : status[t], Statuses)
         [] q = "merchants" -> Group(sale, LAMBDA t : ticket[t].merchant, Merchants)
         [] q = "days" -> Group({t \in Sold : DayWhere(t)}, LAMBDA t : ticket[t].day, Days)
         [] q = "payouts" -> {t \in Sold : paidOn[t] \in asked.days /\ InScope(t) /\ Visible(t)}
         [] q = "commissions" -> {t \in Sold : CommissionWhere(t)}
         [] q = "draws" -> \* of its own request, with a scope read again
              [d \in AllDraws |-> UNION {DrawSales(t, d) : t \in {k \in Sold : SaleWhere(k, ScopeOf(asked))}}]
         [] q = "mine" -> \* the dashboard of the merchant who asks
              IF asked.by \in Merchants THEN MerchantDay(asked.by) ELSE [day |-> today, sales |-> {}, payouts |-> {}]
         [] q = "platform" -> PlatformDashboard
         [] q = "platformReport" -> PlatformReport

-----------------------------------------------------------------------------
Init ==
    /\ today = 1 /\ office = HomeOffice /\ moved = {}
    /\ ticket = [t \in Tickets |-> Nothing] /\ status = [t \in Tickets |-> "VALID"]
    /\ deleted = [t \in Tickets |-> FALSE] /\ paidOn = [t \in Tickets |-> 0]
    /\ asked = Nothing /\ scope = Nothing /\ figs = [q \in Queries |-> Nothing] /\ touched = {}

\* A change to the tickets of T, none when the report is complete.
Change(T) ==
    /\ ~Complete
    /\ touched' = IF asked = Nothing THEN {} ELSE touched \union T
    /\ UNCHANGED <<asked, scope, figs>>

Sell(t, m, c) ==
    /\ Change({t}) /\ ticket[t] = Nothing
    /\ ticket' = [ticket EXCEPT ![t] = [merchant |-> m, office |-> office[m], day |-> today, content |-> c]]
    /\ UNCHANGED <<today, office, status, deleted, paidOn, moved>>

Cancel(t) ==
    /\ Change({t}) /\ t \in Sold /\ status[t] = "VALID" /\ ~deleted[t]
    /\ status' = [status EXCEPT ![t] = "CANCELLED"]
    /\ UNCHANGED <<today, office, ticket, deleted, paidOn, moved>>

\* A merchant may delete no ticket that is cancelled or paid, but the tenant's staff may delete any.
DeleteTicket(t) ==
    /\ Change({t}) /\ t \in Sold /\ ~deleted[t]
    /\ deleted' = [deleted EXCEPT ![t] = TRUE]
    /\ UNCHANGED <<today, office, ticket, status, paidOn, moved>>

Pay(t) ==
    /\ Change({t}) /\ t \in Sold /\ status[t] = "VALID" /\ ~deleted[t]
    /\ status' = [status EXCEPT ![t] = "PAID"] /\ paidOn' = [paidOn EXCEPT ![t] = today]
    /\ UNCHANGED <<today, office, ticket, deleted, moved>>

MoveMerchant(m, b) ==
    /\ Change({}) /\ office[m] # b
    /\ office' = [office EXCEPT ![m] = b] /\ moved' = moved \union {m}
    /\ UNCHANGED <<today, ticket, status, deleted, paidOn>>

NextDay ==
    /\ Change({}) /\ today + 1 \in Days
    /\ today' = today + 1
    /\ UNCHANGED <<office, ticket, status, deleted, paidOn, moved>>

Matching(r) ==
    r.merchants # Nothing /\ r.office # Nothing => \A m \in r.merchants : office[m] = r.office

\* The request, and the scope read for the sales.
Ask(r) ==
    /\ asked = Nothing
    /\ r.by \in Merchants \/ Matching(r)
    /\ asked' = r /\ scope' = ScopeOf(r)
    /\ UNCHANGED <<storeVars, figs, touched>>

Read(S) ==
    /\ asked # Nothing /\ S # {} /\ \A q \in S : figs[q] = Nothing
    /\ figs' = [q \in Queries |-> IF q \in S THEN Answer(q) ELSE figs[q]]
    /\ UNCHANGED <<storeVars, asked, scope, touched>>

\* The queries are answered at two moments.
ReadAny ==
    LET left == {q \in Queries : figs[q] = Nothing}
    IN (left = Queries /\ \E S \in Batches : Read(S)) \/ (left # Queries /\ Read(left))

Next ==
    \/ \E t \in Tickets, m \in Merchants, c \in Contents : Sell(t, m, c)
    \/ \E t \in Tickets : Cancel(t) \/ DeleteTicket(t) \/ Pay(t)
    \/ \E m \in Merchants, b \in Offices : MoveMerchant(m, b)
    \/ NextDay
    \/ \E r \in Requests : Ask(r)
    \/ ReadAny

Spec == Init /\ [][Next]_vars

-----------------------------------------------------------------------------
TypeOK ==
    /\ today \in Days /\ office \in [Merchants -> Offices] /\ status \in [Tickets -> Statuses]
    /\ scope # Nothing => asked # Nothing

Merge(f) == UNION {f[k] : k \in DOMAIN f}
SameFor(T, A, B) == A \intersect T = B \intersect T

\* Whatever happens to other tickets and merchants while it is read, all figures of a report count the tickets
\* nobody touched in the same way: the tables by merchant, by day and, unless he who asks has changed office,
\* by draw add up to the total, the states to the total and what was cancelled, the platform counts every sale on
\* both its pages, and a merchant who stayed in his office finds on his dashboard the undeleted sales and the
\* payouts his report gives for that day.  (reports.service.ts: sales, draws, salesByDay; report-draw-policy.ts;
\* master.service.ts: dashboard, reports; merchants.service.ts: dashboard)
FiguresAgree ==
    Complete =>
        LET T == Sold \ touched
            sold == figs["totals"] \intersect T
        IN /\ SameFor(T, Merge(figs["merchants"]), sold) /\ SameFor(T, Merge(figs["days"]), sold)
           /\ SameFor(T, Merge(figs["statuses"]), sold \union figs["cancelled"])
           /\ asked.by \notin moved =>
                  {x \in Merge(figs["draws"]) : x[1] \in T} = UNION {Stakes(t) : t \in sold}
           /\ sold \subseteq figs["platform"] /\ SameFor(T, figs["platform"], figs["platformReport"])
           /\ LET mine == figs["mine"]
                  kept == {t \in T : Visible(t)}
              IN asked.by \in Merchants \ moved /\ mine.day \in asked.days =>
                     /\ SameFor({t \in kept : ticket[t].day = mine.day}, mine.sales, sold)
                     /\ SameFor({t \in kept : paidOn[t] = mine.day}, mine.payouts, figs["payouts"])

\* The commission deducted from the sales is of these sales: a ticket nobody touched, of a merchant who never
\* changed office, counts in both or in neither.  (reports.service.ts: commissionWhere)
CommissionIsOfTheSales ==
    Complete =>
        SameFor({t \in Sold \ touched : ticket[t].merchant \notin moved}, figs["commissions"], figs["totals"])

\* No figure of a merchant's report is about a ticket of another, whatever is asked and whatever changes while
\* it is read.  (reports.service.ts: scope)
MerchantSeesHisOwn ==
    Complete /\ asked.by \in Merchants =>
        \A t \in figs["totals"] \union figs["cancelled"] \union figs["payouts"] \union figs["commissions"]
                 \union Merge(figs["days"]) \union Merge(figs["statuses"])
                 \union figs["mine"].sales \union figs["mine"].payouts :
            ticket[t].merchant = asked.by
=============================================================================
