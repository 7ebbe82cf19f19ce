---------------------------- MODULE ReportsProofs -----------------------------
(***************************************************************************)
(* What is read from the system and put on paper: the figures of a report, *)
(* for any tickets, merchants, offices, contents, requests and orders of   *)
(* the queries (Reports); and the documents drawn by hand, for any number  *)
(* of tables, rows, words and parts (Documents, whose definitions begin    *)
(* with Doc).                                                              *)
(*                                                                         *)
(* ReportsInv is inductive.  Its core is Exact: of a ticket nobody touched *)
(* since the request, each answer says what its own condition still says,  *)
(* so that the conditions of two queries may be compared whenever the two  *)
(* were answered.                                                          *)
(*                                                                         *)
(* DocInvariant is inductive.  Its core is Ready: while a table of twelve  *)
(* rows or less is drawn there is room for the rows that are left; and, of *)
(* a receipt, that what is drawn so far is no higher than the sum of what  *)
(* was measured so far.  Sums and wrapped lines are recursive functions:   *)
(* what holds of each step holds of all by UpTo, induction up to a bound   *)
(* as a well-founded minimum.                                              *)
(***************************************************************************)
EXTENDS Reports, Documents, WellFoundedInduction, TLAPS

\* The tickets the report has to agree on.
Steady == Sold \ touched

\* A ticket's office is the one its merchant had; who has not moved is at home.
AtHome ==
    /\ \A m \in Merchants \ moved : office[m] = HomeOffice[m]
    /\ \A t \in Sold : /\ ticket[t].merchant \in Merchants /\ ticket[t].day \in Days /\ ticket[t].content \in Contents
                       /\ ticket[t].merchant \notin moved => ticket[t].office = HomeOffice[ticket[t].merchant]

\* The scope of a merchant is himself, and the one read for the draws is the same unless he has moved.
Scoped ==
    asked # Nothing =>
        /\ asked.by \in Merchants => scope.merchants = {asked.by}
        /\ asked.by \notin moved => scope = ScopeOf(asked)

\* The tickets an answer is about.
About(q, f) ==
    IF q \in {"merchants", "days", "statuses"} THEN Merge(f)
    ELSE IF q = "mine" THEN f.sales \union f.payouts ELSE f

\* The queries of one merchant's report, whose answers are of his tickets alone.
HisQueries == {"totals", "cancelled", "statuses", "days", "payouts", "commissions", "mine"}
HisOwn ==
    \A q \in HisQueries : figs[q] # Nothing /\ asked.by \in Merchants =>
        \A t \in About(q, figs[q]) : t \in Sold /\ ticket[t].merchant = asked.by

\* Which of the tickets nobody touched an answer has.
Counted(q, t) ==
    CASE q \in {"totals", "merchants"} -> SaleWhere(t, scope)
      [] q = "cancelled" -> InScope(t) /\ Dated(t) /\ ~Kept(t) /\ Visible(t)
      [] q = "statuses" -> InScope(t) /\ Dated(t) /\ Visible(t)
      [] q = "days" -> DayWhere(t)
      [] q = "payouts" -> paidOn[t] \in asked.days /\ InScope(t) /\ Visible(t)
      [] q = "commissions" -> CommissionWhere(t)
      [] OTHER -> PlatformWhere(t)

Counting == Queries \ {"draws", "mine"}
Exact(q, f) ==
    /\ q \in Counting \ {"commissions"} => \A t \in Steady : t \in About(q, f) <=> Counted(q, t)
    /\ q = "commissions" => \A t \in Steady : ticket[t].merchant \notin moved => (t \in f <=> CommissionWhere(t))
    /\ q = "draws" /\ asked.by \notin moved =>
          \A t \in Steady : {x \in Merge(f) : x[1] = t} = IF SaleWhere(t, scope) THEN Stakes(t) ELSE {}
    /\ q = "mine" /\ asked.by \in Merchants =>
          \A t \in Steady :
              /\ t \in f.sales <=> ticket[t].merchant = asked.by /\ ticket[t].day = f.day /\ Kept(t)
              /\ t \in f.payouts <=> ticket[t].merchant = asked.by /\ paidOn[t] = f.day

AllExact == \A q \in Queries : figs[q] # Nothing => Exact(q, figs[q])

\* The store is a table of every ticket, and an answer needs a request.
Tables ==
    /\ office \in [Merchants -> Offices] /\ status \in [Tickets -> Statuses]
    /\ DOMAIN ticket = Tickets /\ DOMAIN deleted = Tickets /\ DOMAIN paidOn = Tickets
    /\ today \in Days
    /\ asked = Nothing => scope = Nothing /\ \A q \in Queries : figs[q] = Nothing

ReportsInv == Tables /\ AtHome /\ Scoped /\ HisOwn /\ AllExact
-----------------------------------------------------------------------------
\* The lines of a ticket sold are divided among its draws (groupTicketSalesByDraw): each that is paid
\* for belongs to one of them.
LEMMA LinesHaveTheirDraw ==
    ASSUME NEW t \in Sold, ticket[t].content \in Contents
    PROVE  UNION {DrawSales(t, d) : d \in AllDraws} = Stakes(t)
<1> DEFINE c == ticket[t].content
           selected == IF c.draws # {} THEN c.draws ELSE {c.primary}
           own(l) == IF l.draw = NoDraw THEN c.primary ELSE l.draw
<1>1. \A l \in c.lines : own(l) \in selected
  BY ReportsAssumption
<1>2. selected \subseteq AllDraws
  <2>1. c.draws \union {c.primary} \subseteq AllDraws
    BY DEF AllDraws
  <2> QED
    BY <2>1
<1>3. ASSUME NEW x \in Stakes(t) PROVE \E d \in AllDraws : x \in DrawSales(t, d)
  <2>1. PICK l \in c.lines : x = <<t, l>> /\ ~l.free
    BY DEF Stakes
  <2>2. x \in DrawSales(t, own(l))
    BY <1>1, <2>1 DEF DrawSales
  <2> QED
    BY <1>1, <1>2, <2>2
<1>4. ASSUME NEW d \in AllDraws, NEW x \in DrawSales(t, d) PROVE x \in Stakes(t)
  <2>1. d \in selected
    BY DEF DrawSales
  <2>2. PICK l \in {k \in c.lines : own(k) = d /\ ~k.free} : x = <<t, l>>
    BY <2>1 DEF DrawSales
  <2> QED
    BY <2>2 DEF Stakes
<1> QED
  BY <1>3, <1>4

\* What DrawSales and Stakes have are lines of the ticket.
LEMMA LinesOfTicket ==
    ASSUME NEW t
    PROVE  /\ \A d : \A x \in DrawSales(t, d) : x[1] = t
           /\ \A x \in Stakes(t) : x[1] = t
<1>1. ASSUME NEW d, NEW x \in DrawSales(t, d) PROVE x[1] = t
  BY DEF DrawSales
<1>2. ASSUME NEW x \in Stakes(t) PROVE x[1] = t
  BY DEF Stakes
<1> QED
  BY <1>1, <1>2

\* Each query answers for all tickets what its own condition says (the queries of sales, draws,
\* salesByDay and of the dashboards), read at one moment.
LEMMA AnswerExact ==
    ASSUME Tables, AtHome, Scoped, asked # Nothing, NEW q \in Queries
    PROVE  Exact(q, Answer(q))
<1> DEFINE f == Answer(q)
<1>0. /\ \A t \in Steady : t \in Sold
      /\ \A t \in Sold : /\ ticket[t].merchant \in Merchants /\ ticket[t].day \in Days
                         /\ ticket[t].content \in Contents /\ status[t] \in Statuses
  BY DEF Steady, AtHome, Tables, Sold
<1>1. CASE q = "totals"
  <2>1. f = {t \in Sold : SaleWhere(t, scope)}
    BY <1>1 DEF Answer
  <2> QED
    BY <1>0, <1>1, <2>1 DEF Exact, About, Counted, Counting, Queries
<1>2. CASE q = "cancelled"
  <2>1. f = {t \in Sold : InScope(t) /\ Dated(t) /\ ~Kept(t) /\ Visible(t)}
    BY <1>2 DEF Answer
  <2> QED
    BY <1>0, <1>2, <2>1 DEF Exact, About, Counted, Counting, Queries
<1>3. CASE q = "statuses"
  <2>1. f = [k \in Statuses |-> {t \in {s \in Sold : InScope(s) /\ Dated(s) /\ Visible(s)} : status[t] = k}]
    BY <1>3 DEF Answer, Group
  <2>2. Merge(f) = {t \in Sold : InScope(t) /\ Dated(t) /\ Visible(t)}
    BY <1>0, <2>1 DEF Merge
  <2> QED
    BY <1>0, <1>3, <2>2 DEF Exact, About, Counted, Counting, Queries
<1>4. CASE q = "merchants"
  <2>1. f = [k \in Merchants |-> {t \in {s \in Sold : SaleWhere(s, scope)} : ticket[t].merchant = k}]
    BY <1>4 DEF Answer, Group
  <2>2. Merge(f) = {t \in Sold : SaleWhere(t, scope)}
    BY <1>0, <2>1 DEF Merge
  <2> QED
    BY <1>0, <1>4, <2>2 DEF Exact, About, Counted, Counting, Queries
<1>5. CASE q = "days"
  <2>1. f = [k \in Days |-> {t \in {s \in Sold : DayWhere(s)} : ticket[t].day = k}]
    BY <1>5 DEF Answer, Group
  <2>2. Merge(f) = {t \in Sold : DayWhere(t)}
    BY <1>0, <2>1 DEF Merge
  <2> QED
    BY <1>0, <1>5, <2>2 DEF Exact, About, Counted, Counting, Queries
<1>6. CASE q = "payouts"
  <2>1. f = {t \in Sold : paidOn[t] \in asked.days /\ InScope(t) /\ Visible(t)}
    BY <1>6 DEF Answer
  <2> QED
    BY <1>0, <1>6, <2>1 DEF Exact, About, Counted, Counting, Queries
<1>7. CASE q = "commissions"
  <2>1. f = {t \in Sold : CommissionWhere(t)}
    BY <1>7 DEF Answer
  <2> QED
    BY <1>0, <1>7, <2>1 DEF Exact, About, Counted, Counting, Queries
<1>8. CASE q = "draws"
  <2> DEFINE sale == {t \in Sold : SaleWhere(t, ScopeOf(asked))}
  <2>1. f = [d \in AllDraws |-> UNION {DrawSales(t, d) : t \in sale}]
    BY <1>8 DEF Answer
  <2>2. Merge(f) = UNION {UNION {DrawSales(t, d) : t \in sale} : d \in AllDraws}
    BY <2>1 DEF Merge
  <2>3. ASSUME asked.by \notin moved, NEW t \in Steady
        PROVE  {x \in Merge(f) : x[1] = t} = IF SaleWhere(t, scope) THEN Stakes(t) ELSE {}
    <3>1. scope = ScopeOf(asked)
      BY <2>3 DEF Scoped
    <3>2. t \in Sold /\ UNION {DrawSales(t, d) : d \in AllDraws} = Stakes(t)
      BY <1>0, LinesHaveTheirDraw
    <3>3. \A k, d : \A x \in DrawSales(k, d) : x[1] = k
      BY LinesOfTicket
    <3>4. {x \in Merge(f) : x[1] = t} = IF t \in sale THEN UNION {DrawSales(t, d) : d \in AllDraws} ELSE {}
      BY <2>2, <3>3
    <3> QED
      BY <3>1, <3>2, <3>4
  <2> QED
    BY <1>8, <2>3 DEF Exact, Counting
<1>9. CASE q = "mine"
  <2>1. asked.by \in Merchants => f = MerchantDay(asked.by)
    BY <1>9 DEF Answer
  <2>2. ASSUME asked.by \in Merchants, NEW t \in Steady
        PROVE  /\ t \in f.sales <=> ticket[t].merchant = asked.by /\ ticket[t].day = f.day /\ Kept(t)
               /\ t \in f.payouts <=> ticket[t].merchant = asked.by /\ paidOn[t] = f.day
    BY <1>0, <2>1, <2>2 DEF MerchantDay
  <2> QED
    BY <1>9, <2>2 DEF Exact, Counting
<1>10. CASE q \in {"platform", "platformReport"}
  <2>1. f = {t \in Sold : PlatformWhere(t)}
    BY <1>10 DEF Answer, PlatformDashboard, PlatformReport
  <2> QED
    BY <1>0, <1>10, <2>1 DEF Exact, About, Counted, Counting, Queries
<1> QED
  BY <1>1, <1>2, <1>3, <1>4, <1>5, <1>6, <1>7, <1>8, <1>9, <1>10 DEF Queries

\* The queries of a merchant's report are of his own tickets (ReportsService.scope).
LEMMA AnswerHisOwn ==
    ASSUME Tables, AtHome, Scoped, asked # Nothing, asked.by \in Merchants, NEW q \in HisQueries
    PROVE  \A t \in About(q, Answer(q)) : t \in Sold /\ ticket[t].merchant = asked.by
<1>1. \A t \in Sold : Within(t, scope) => ticket[t].merchant = asked.by
  BY ReportsAssumption DEF Scoped, Within, OfMerchants
<1>2. \A t \in Sold : CommissionWhere(t) => ticket[t].merchant = asked.by
  BY ReportsAssumption DEF Scoped, CommissionWhere, OfMerchants
<1>3. CASE q \in {"totals", "cancelled", "payouts", "commissions"}
  BY <1>1, <1>2, <1>3 DEF About, Answer, SaleWhere, InScope
<1>4. CASE q = "statuses"
  <2>1. Answer(q) = [k \in Statuses |-> {t \in {s \in Sold : InScope(s) /\ Dated(s) /\ Visible(s)} : status[t] = k}]
    BY <1>4 DEF Answer, Group
  <2> QED
    BY <1>1, <1>4, <2>1 DEF About, Merge, InScope
<1>5. CASE q = "days"
  <2>1. Answer(q) = [k \in Days |-> {t \in {s \in Sold : DayWhere(s)} : ticket[t].day = k}]
    BY <1>5 DEF Answer, Group
  <2> QED
    BY <1>1, <1>5, <2>1 DEF About, Merge, DayWhere, InScope
<1>6. CASE q = "mine"
  <2>1. Answer(q) = MerchantDay(asked.by)
    BY <1>6 DEF Answer
  <2> QED
    BY <1>6, <2>1 DEF About, MerchantDay
<1> QED
  BY <1>3, <1>4, <1>5, <1>6 DEF HisQueries

\* A change of the store that is noted in `touched` and `moved`.
Noted ==
    /\ UNCHANGED <<asked, scope, figs>>
    /\ asked # Nothing => touched \subseteq touched'
    /\ \A t \in Sold : t \in Sold' /\ ticket'[t] = ticket[t]
    /\ moved \subseteq moved' /\ \A m \in Merchants \ moved' : office'[m] = office[m]
    /\ asked # Nothing =>
          \A t \in Sold' \ touched' :
              t \in Sold /\ status'[t] = status[t] /\ deleted'[t] = deleted[t] /\ paidOn'[t] = paidOn[t]

\* Such a change leaves what the answers say of the tickets nobody touched.
LEMMA ChangeKeeps ==
    ASSUME Tables, AtHome, Scoped, HisOwn, AllExact, Noted
    PROVE  Scoped' /\ HisOwn' /\ AllExact'
<1>1. HisOwn'
  <2>1. figs' = figs /\ asked' = asked /\ \A t \in Sold : t \in Sold' /\ ticket'[t] = ticket[t]
    BY DEF Noted
  <2>2. SUFFICES ASSUME NEW q \in HisQueries, figs[q] # Nothing, asked.by \in Merchants,
                        NEW t \in About(q, figs[q])
                 PROVE  t \in Sold' /\ ticket'[t].merchant = asked.by
    BY <2>1 DEF HisOwn, About, Merge
  <2>3. t \in Sold /\ ticket[t].merchant = asked.by
    BY <2>2 DEF HisOwn
  <2> QED
    BY <2>1, <2>3
<1>2. Scoped'
  BY DEF Scoped, Noted, ScopeOf
<1>3. AllExact'
  <2>1. SUFFICES ASSUME NEW q \in Queries, figs[q] # Nothing PROVE Exact(q, figs[q])'
    BY DEF AllExact, Noted
  <2>2. asked # Nothing /\ Exact(q, figs[q]) /\ figs' = figs /\ asked' = asked /\ scope' = scope
    BY <2>1 DEF Tables, AllExact, Noted
  <2>3. \A t \in Steady' : /\ t \in Steady /\ ticket'[t] = ticket[t] /\ status'[t] = status[t]
                           /\ deleted'[t] = deleted[t] /\ paidOn'[t] = paidOn[t]
    BY <2>2 DEF Steady, Noted
  <2>4. ASSUME NEW t \in Steady'
        PROVE  /\ (SaleWhere(t, scope)' <=> SaleWhere(t, scope)) /\ (InScope(t)' <=> InScope(t))
               /\ (Dated(t)' <=> Dated(t)) /\ (Kept(t)' <=> Kept(t)) /\ (Visible(t)' <=> Visible(t))
               /\ (DayWhere(t)' <=> DayWhere(t)) /\ (PlatformWhere(t)' <=> PlatformWhere(t))
               /\ Stakes(t)' = Stakes(t)
    <3>1. ticket'[t] = ticket[t] /\ status'[t] = status[t] /\ deleted'[t] = deleted[t]
      BY <2>3, <2>4
    <3>2. (Dated(t)' <=> Dated(t)) /\ (Kept(t)' <=> Kept(t)) /\ (Visible(t)' <=> Visible(t))
      BY <2>2, <3>1 DEF Dated, Kept, Visible
    <3>3. InScope(t)' <=> InScope(t)
      BY <2>2, <3>1 DEF InScope, Within, OfMerchants
    <3>4. SaleWhere(t, scope)' <=> SaleWhere(t, scope)
      BY <3>2, <3>3 DEF SaleWhere, InScope
    <3>5. (DayWhere(t)' <=> DayWhere(t)) /\ (PlatformWhere(t)' <=> PlatformWhere(t))
      BY <3>2, <3>3 DEF DayWhere, PlatformWhere
    <3>6. Stakes(t)' = Stakes(t)
      BY <3>1 DEF Stakes
    <3> QED
      BY <3>2, <3>3, <3>4, <3>5, <3>6
  <2>5. ASSUME q \in Counting \ {"commissions"}, NEW t \in Steady'
        PROVE  (t \in About(q, figs[q]))' <=> Counted(q, t)'
    <3>1. t \in Steady /\ (t \in About(q, figs[q]) <=> Counted(q, t))
      BY <2>2, <2>3, <2>5 DEF Exact
    <3>2. paidOn'[t] = paidOn[t] /\ asked' = asked
      BY <2>2, <2>3, <2>5
    <3>3. Counted(q, t)' <=> Counted(q, t)
      BY <2>4, <2>5, <3>2 DEF Counted
    <3>4. About(q, figs[q])' = About(q, figs[q])
      BY <2>2 DEF About, Merge
    <3> QED
      BY <3>1, <3>3, <3>4
  <2>6. ASSUME q = "commissions", NEW t \in Steady', ticket'[t].merchant \notin moved'
        PROVE  (t \in figs[q] <=> CommissionWhere(t))'
    <3>1. ticket[t].merchant \in Merchants /\ ticket[t].merchant \notin moved
      BY <2>3, <2>6 DEF Noted, Steady, AtHome
    <3>2. office'[ticket[t].merchant] = office[ticket[t].merchant]
      BY <2>3, <2>6, <3>1 DEF Noted
    <3>3. t \in figs[q] <=> CommissionWhere(t)
      BY <2>2, <2>3, <2>6, <3>1 DEF Exact
    <3>4. CommissionWhere(t)' <=> CommissionWhere(t)
      <4>1. /\ ticket'[t] = ticket[t] /\ scope' = scope
            /\ (Dated(t)' <=> Dated(t)) /\ (Kept(t)' <=> Kept(t)) /\ (Visible(t)' <=> Visible(t))
        BY <2>2, <2>3, <2>4, <2>6
      <4> QED
        BY <3>2, <4>1 DEF CommissionWhere, OfMerchants
    <3> QED
      BY <2>2, <3>3, <3>4
  <2>7. ASSUME q = "draws", asked'.by \notin moved', NEW t \in Steady'
        PROVE  {x \in Merge(figs[q])' : x[1] = t} = IF SaleWhere(t, scope)' THEN Stakes(t)' ELSE {}
    <3>1. asked.by \notin moved /\ t \in Steady
      BY <2>2, <2>3, <2>7 DEF Noted
    <3>2. {x \in Merge(figs[q]) : x[1] = t} = IF SaleWhere(t, scope) THEN Stakes(t) ELSE {}
      BY <2>2, <2>7, <3>1 DEF Exact
    <3>3. Merge(figs[q])' = Merge(figs[q])
      BY <2>2 DEF Merge
    <3> QED
      BY <2>4, <3>2, <3>3
  <2>8. ASSUME q = "mine", asked'.by \in Merchants, NEW t \in Steady'
        PROVE  /\ (t \in figs[q].sales <=> ticket[t].merchant = asked.by /\ ticket[t].day = figs[q].day /\ Kept(t))'
               /\ (t \in figs[q].payouts <=> ticket[t].merchant = asked.by /\ paidOn[t] = figs[q].day)'
    <3>1. /\ t \in figs[q].sales <=> ticket[t].merchant = asked.by /\ ticket[t].day = figs[q].day /\ Kept(t)
          /\ t \in figs[q].payouts <=> ticket[t].merchant = asked.by /\ paidOn[t] = figs[q].day
      BY <2>2, <2>3, <2>8 DEF Exact
    <3>2. /\ ticket'[t] = ticket[t] /\ paidOn'[t] = paidOn[t] /\ figs' = figs /\ asked' = asked
          /\ (Kept(t)' <=> Kept(t))
      BY <2>2, <2>3, <2>4, <2>8
    <3> QED
      BY <3>1, <3>2
  <2> QED
    BY <2>5, <2>6, <2>7, <2>8 DEF Exact
<1> QED
  BY <1>1, <1>2, <1>3

\* The changes of the store, and the passing of the day.
LEMMA SellIsNoted ==
    ASSUME Tables, AtHome, NEW t \in Tickets, NEW m \in Merchants, NEW c \in Contents, Sell(t, m, c)
    PROVE  Noted /\ Tables' /\ AtHome'
<1> DEFINE new == [merchant |-> m, office |-> office[m], day |-> today, content |-> c]
<1>1. /\ ticket[t] = Nothing /\ ticket' = [ticket EXCEPT ![t] = new]
      /\ UNCHANGED <<today, office, status, deleted, paidOn, moved, asked, scope, figs>>
      /\ touched' = IF asked = Nothing THEN {} ELSE touched \union {t}
  BY DEF Sell, Change
<1>2. DOMAIN ticket' = Tickets /\ ticket'[t] = new /\ \A s \in Tickets \ {t} : ticket'[s] = ticket[s]
  BY <1>1 DEF Tables
<1>3. Noted
  BY <1>1, <1>2 DEF Noted, Sold
<1>4. Tables'
  BY <1>1, <1>2 DEF Tables
<1>5. AtHome'
  <2>1. \A k \in Merchants \ moved' : office'[k] = HomeOffice[k]
    BY <1>1 DEF AtHome
  <2>2. ASSUME NEW s \in Sold'
        PROVE  /\ ticket'[s].merchant \in Merchants /\ ticket'[s].day \in Days /\ ticket'[s].content \in Contents
               /\ ticket'[s].merchant \notin moved' => ticket'[s].office = HomeOffice[ticket'[s].merchant]
    <3>1. CASE s = t
      BY <1>1, <1>2, <2>1, <3>1 DEF Tables
    <3>2. CASE s # t
      BY <1>1, <1>2, <3>2 DEF AtHome, Sold
    <3> QED
      BY <3>1, <3>2
  <2> QED
    BY <2>1, <2>2 DEF AtHome
<1> QED
  BY <1>3, <1>4, <1>5

LEMMA StatusIsNoted ==
    ASSUME Tables, AtHome, NEW t \in Tickets, Cancel(t) \/ DeleteTicket(t) \/ Pay(t)
    PROVE  Noted /\ Tables' /\ AtHome'
<1>1. /\ t \in Sold /\ UNCHANGED <<today, office, ticket, moved, asked, scope, figs>>
      /\ touched' = IF asked = Nothing THEN {} ELSE touched \union {t}
  BY DEF Cancel, DeleteTicket, Pay, Change
<1>2. /\ DOMAIN deleted' = Tickets /\ DOMAIN paidOn' = Tickets
      /\ \A s \in Tickets \ {t} : deleted'[s] = deleted[s] /\ paidOn'[s] = paidOn[s]
  BY DEF Cancel, DeleteTicket, Pay, Tables
<1>3. status' \in [Tickets -> Statuses] /\ \A s \in Tickets \ {t} : status'[s] = status[s]
  BY DEF Cancel, DeleteTicket, Pay, Tables, Statuses
<1>4. Sold' = Sold
  BY <1>1 DEF Sold
<1>5. Noted
  <2>1. ASSUME asked # Nothing, NEW s \in Sold' \ touched'
        PROVE  s \in Sold /\ status'[s] = status[s] /\ deleted'[s] = deleted[s] /\ paidOn'[s] = paidOn[s]
    <3>1. s \in Tickets \ {t} /\ s \in Sold
      BY <1>1, <1>4, <2>1 DEF Sold
    <3> QED
      BY <1>2, <1>3, <3>1
  <2> QED
    BY <1>1, <1>4, <2>1 DEF Noted
<1>6. Tables'
  BY <1>1, <1>2, <1>3 DEF Tables
<1>7. AtHome'
  BY <1>1, <1>4 DEF AtHome
<1> QED
  BY <1>5, <1>6, <1>7

LEMMA MoveIsNoted ==
    ASSUME Tables, AtHome, NEW m \in Merchants, NEW b \in Offices, MoveMerchant(m, b)
    PROVE  Noted /\ Tables' /\ AtHome'
<1>1. /\ UNCHANGED <<today, ticket, status, deleted, paidOn, asked, scope, figs>>
      /\ touched' = IF asked = Nothing THEN {} ELSE touched
      /\ moved' = moved \union {m}
  BY DEF MoveMerchant, Change
<1>2. office' \in [Merchants -> Offices] /\ \A k \in Merchants \ moved' : office'[k] = office[k]
  BY <1>1 DEF MoveMerchant, Tables
<1>3. Sold' = Sold
  BY <1>1 DEF Sold
<1>4. Noted
  BY <1>1, <1>2, <1>3 DEF Noted
<1>5. Tables'
  BY <1>1, <1>2 DEF Tables
<1>6. AtHome'
  BY <1>1, <1>2, <1>3 DEF AtHome
<1> QED
  BY <1>4, <1>5, <1>6

LEMMA DayIsNoted ==
    ASSUME Tables, AtHome, NextDay
    PROVE  Noted /\ Tables' /\ AtHome'
<1>1. /\ UNCHANGED <<office, ticket, status, deleted, paidOn, moved, asked, scope, figs>> /\ today' \in Days
      /\ touched' = IF asked = Nothing THEN {} ELSE touched
  BY DEF NextDay, Change
<1>2. Sold' = Sold
  BY <1>1 DEF Sold
<1> QED
  BY <1>1, <1>2 DEF Noted, Tables, AtHome

\* A request finds no answers yet, and its scope is read as it is made (ReportsService.scope).
LEMMA AskKeeps ==
    ASSUME ReportsInv, NEW r \in Requests, Ask(r)
    PROVE  ReportsInv'
<1>1. /\ asked = Nothing /\ asked' = r /\ scope' = ScopeOf(r)
      /\ UNCHANGED <<today, office, ticket, status, deleted, paidOn, moved, figs, touched>>
      /\ r # Nothing
  BY ReportsAssumption DEF Ask, storeVars
<1>2. \A q \in Queries : figs'[q] = Nothing
  BY <1>1 DEF ReportsInv, Tables
<1>3. HisQueries \subseteq Queries
  BY DEF HisQueries, Queries
<1>4. HisOwn' /\ AllExact'
  BY <1>2, <1>3 DEF HisOwn, AllExact
<1>5. Tables'
  BY <1>1 DEF ReportsInv, Tables
<1>6. AtHome'
  BY <1>1 DEF ReportsInv, AtHome, Sold
<1>7. Scoped'
  BY <1>1 DEF Scoped, ScopeOf
<1> QED
  BY <1>4, <1>5, <1>6, <1>7 DEF ReportsInv

\* Each answer is right when it is read, and the earlier ones are still right.
LEMMA ReadKeeps ==
    ASSUME ReportsInv, NEW S, Read(S)
    PROVE  ReportsInv'
<1>1. /\ asked # Nothing /\ figs' = [q \in Queries |-> IF q \in S THEN Answer(q) ELSE figs[q]]
      /\ UNCHANGED <<today, office, ticket, status, deleted, paidOn, moved, asked, scope, touched>>
  BY DEF Read, storeVars
<1>2. Tables'
  BY <1>1 DEF ReportsInv, Tables
<1>3. AtHome'
  BY <1>1 DEF ReportsInv, AtHome, Sold
<1>4. Scoped'
  BY <1>1 DEF ReportsInv, Scoped, ScopeOf
<1>5. HisOwn'
  <2>1. ASSUME NEW q \in HisQueries, figs'[q] # Nothing, asked'.by \in Merchants
        PROVE  \A t \in About(q, figs'[q]) : t \in Sold /\ ticket[t].merchant = asked.by
    <3>1. q \in Queries
      BY DEF HisQueries, Queries
    <3>2. CASE q \in S
      BY <1>1, <2>1, <3>1, <3>2, AnswerHisOwn DEF ReportsInv
    <3>3. CASE q \notin S
      BY <1>1, <2>1, <3>1, <3>3 DEF ReportsInv, HisOwn
    <3> QED
      BY <3>2, <3>3
  <2>2. Sold' = Sold /\ ticket' = ticket /\ asked' = asked
    BY <1>1 DEF Sold
  <2>3. \A q : About(q, figs[q])' = About(q, figs'[q])
    BY DEF About, Merge
  <2> QED
    BY <2>1, <2>2, <2>3 DEF HisOwn
<1>6. AllExact'
  <2>1. ASSUME NEW q \in Queries, figs'[q] # Nothing
        PROVE  Exact(q, figs'[q])
    <3>1. CASE q \in S
      BY <1>1, <3>1, AnswerExact DEF ReportsInv
    <3>2. CASE q \notin S
      BY <1>1, <2>1, <3>2 DEF ReportsInv, AllExact
    <3> QED
      BY <3>1, <3>2
  <2>2. ASSUME NEW q \in Queries
        PROVE  Exact(q, figs[q])' <=> Exact(q, figs'[q])
    BY <1>1 DEF Exact, Steady, Sold, About, Merge, Counted, SaleWhere, InScope, Within, OfMerchants, Dated, Kept,
       Visible, DayWhere, CommissionWhere, PlatformWhere, Stakes
  <2> QED
    BY <2>1, <2>2 DEF AllExact
<1> QED
  BY <1>2, <1>3, <1>4, <1>5, <1>6 DEF ReportsInv

LEMMA Starts ==
    ASSUME Init
    PROVE  ReportsInv
<1>1. Sold = {}
  BY DEF Init, Sold
<1>2. \A q \in Queries : figs[q] = Nothing
  BY DEF Init
<1>3. HisQueries \subseteq Queries
  BY DEF HisQueries, Queries
<1>4. Tables
  BY <1>2, ReportsAssumption DEF Init, Tables, Statuses
<1>5. AtHome
  BY <1>1 DEF Init, AtHome
<1>6. Scoped
  BY DEF Init, Scoped
<1>7. HisOwn /\ AllExact
  BY <1>2, <1>3 DEF HisOwn, AllExact
<1> QED
  BY <1>4, <1>5, <1>6, <1>7 DEF ReportsInv

LEMMA StepKeeps ==
    ASSUME ReportsInv, [Next]_vars
    PROVE  ReportsInv'
<1>0. Tables /\ AtHome /\ Scoped /\ HisOwn /\ AllExact
  BY DEF ReportsInv
<1>1. ASSUME Noted /\ Tables' /\ AtHome' PROVE ReportsInv'
  BY <1>0, <1>1, ChangeKeeps DEF ReportsInv
<1>2. ASSUME NEW t \in Tickets, NEW m \in Merchants, NEW c \in Contents, Sell(t, m, c) PROVE ReportsInv'
  BY <1>0, <1>1, <1>2, SellIsNoted
<1>3. ASSUME NEW t \in Tickets, Cancel(t) \/ DeleteTicket(t) \/ Pay(t) PROVE ReportsInv'
  BY <1>0, <1>1, <1>3, StatusIsNoted
<1>4. ASSUME NEW m \in Merchants, NEW b \in Offices, MoveMerchant(m, b) PROVE ReportsInv'
  BY <1>0, <1>1, <1>4, MoveIsNoted
<1>5. ASSUME NextDay PROVE ReportsInv'
  BY <1>0, <1>1, <1>5, DayIsNoted
<1>6. ASSUME NEW r \in Requests, Ask(r) PROVE ReportsInv'
  BY <1>6, AskKeeps
<1>7. ASSUME ReadAny PROVE ReportsInv'
  <2>1. \E S : Read(S)
    BY <1>7 DEF ReadAny
  <2> QED
    BY <2>1, ReadKeeps
<1>8. ASSUME UNCHANGED vars PROVE ReportsInv'
  <2>1. Noted /\ Tables' /\ AtHome'
    BY <1>0, <1>8 DEF vars, storeVars, Noted, Tables, AtHome, Sold
  <2> QED
    BY <1>1, <2>1
<1> QED
  BY <1>2, <1>3, <1>4, <1>5, <1>6, <1>7, <1>8 DEF Next

\* The answers given so far say of every ticket nobody touched what their conditions say of it now, and the
\* answers of a merchant's report have only his tickets: in every behaviour.
THEOREM ReportsInvariant == Spec => []ReportsInv
<1>1. Init => ReportsInv
  BY Starts
<1>2. ReportsInv /\ [Next]_vars => ReportsInv'
  BY StepKeeps
<1> QED
  BY <1>1, <1>2, PTL DEF Spec

\* Every variable keeps its type, and only a request that was made has a scope (ReportsService.scope).
THEOREM ReportsTypes == Spec => []TypeOK
<1>1. ReportsInv => TypeOK
  BY DEF ReportsInv, Tables, TypeOK
<1> QED
  BY <1>1, ReportsInvariant, PTL

\* No figure of a merchant's report is about a ticket of another merchant (ReportsService.scope).
THEOREM HisFiguresAreHis == Spec => []MerchantSeesHisOwn
<1>1. ReportsInv => MerchantSeesHisOwn
  <2>1. SUFFICES ASSUME ReportsInv, Complete, asked.by \in Merchants
                 PROVE  \A q \in HisQueries : \A t \in About(q, figs[q]) : ticket[t].merchant = asked.by
    <3>1. /\ About("totals", figs["totals"]) = figs["totals"]
          /\ About("cancelled", figs["cancelled"]) = figs["cancelled"]
          /\ About("payouts", figs["payouts"]) = figs["payouts"]
          /\ About("commissions", figs["commissions"]) = figs["commissions"]
          /\ About("days", figs["days"]) = Merge(figs["days"])
          /\ About("statuses", figs["statuses"]) = Merge(figs["statuses"])
          /\ About("mine", figs["mine"]) = figs["mine"].sales \union figs["mine"].payouts
      BY DEF About
    <3> QED
      BY <2>1, <3>1 DEF MerchantSeesHisOwn, HisQueries
  <2> QED
    BY <2>1 DEF ReportsInv, HisOwn, Complete, HisQueries, Queries
<1> QED
  BY <1>1, ReportsInvariant, PTL

\* The commission deducted from the sales of a report is of these sales (commissionWhere), for merchants who stayed
\* in their office.
THEOREM CommissionFollowsSales == Spec => []CommissionIsOfTheSales
<1>1. ReportsInv => CommissionIsOfTheSales
  <2>1. SUFFICES ASSUME ReportsInv, Complete, NEW t \in Steady, ticket[t].merchant \notin moved
                 PROVE  t \in figs["commissions"] <=> t \in figs["totals"]
    BY DEF CommissionIsOfTheSales, SameFor, Steady
  <2>2. t \in figs["commissions"] <=> CommissionWhere(t)
    BY <2>1 DEF ReportsInv, AllExact, Exact, Complete, Queries
  <2>3. t \in figs["totals"] <=> SaleWhere(t, scope)
    BY <2>1 DEF ReportsInv, AllExact, Exact, Complete, Queries, About, Counted, Counting
  <2>4. office[ticket[t].merchant] = ticket[t].office
    BY <2>1 DEF ReportsInv, AtHome, Steady
  <2> QED
    BY <2>2, <2>3, <2>4 DEF CommissionWhere, SaleWhere, Within
<1> QED
  BY <1>1, ReportsInvariant, PTL

\* When all queries are answered, each has of a ticket nobody touched what its condition says.
LEMMA AllAnswered ==
    ASSUME ReportsInv, Complete, NEW t \in Steady
    PROVE  /\ (t \in figs["totals"] <=> SaleWhere(t, scope)) /\ (t \in Merge(figs["merchants"]) <=> SaleWhere(t, scope))
           /\ t \in Merge(figs["days"]) <=> DayWhere(t)
           /\ t \in Merge(figs["statuses"]) <=> InScope(t) /\ Dated(t) /\ Visible(t)
           /\ t \in figs["cancelled"] <=> InScope(t) /\ Dated(t) /\ ~Kept(t) /\ Visible(t)
           /\ t \in figs["payouts"] <=> paidOn[t] \in asked.days /\ InScope(t) /\ Visible(t)
           /\ (t \in figs["platform"] <=> PlatformWhere(t)) /\ (t \in figs["platformReport"] <=> PlatformWhere(t))
<1>1. \A q \in Counting \ {"commissions"} : t \in About(q, figs[q]) <=> Counted(q, t)
  BY DEF ReportsInv, AllExact, Exact, Complete, Counting
<1>2. {"totals", "merchants", "days", "statuses", "cancelled", "payouts", "platform", "platformReport"}
        \subseteq Counting \ {"commissions"}
  BY DEF Counting, Queries
<1> QED
  BY <1>1, <1>2 DEF About, Counted

\* Whatever happens to other tickets while a report is read, its figures count a ticket nobody touched in the same
\* way: each table adds up to the total (the queries of sales, draws, salesByDay and of the two dashboards).
THEOREM FiguresOfAReportAgree == Spec => []FiguresAgree
<1> DEFINE sold == figs["totals"] \intersect Steady
           mine == figs["mine"]
<1>1. ASSUME ReportsInv, Complete
      PROVE  /\ SameFor(Steady, Merge(figs["merchants"]), sold) /\ SameFor(Steady, Merge(figs["days"]), sold)
             /\ SameFor(Steady, Merge(figs["statuses"]), sold \union figs["cancelled"])
             /\ sold \subseteq figs["platform"] /\ SameFor(Steady, figs["platform"], figs["platformReport"])
  <2>1. \A t \in Steady : SaleWhere(t, scope) <=> DayWhere(t)
    BY DEF SaleWhere, DayWhere, InScope
  <2>2. \A t \in Steady : SaleWhere(t, scope) <=> InScope(t) /\ Dated(t) /\ Visible(t) /\ Kept(t)
    BY DEF SaleWhere, InScope
  <2>3. \A t \in Steady : SaleWhere(t, scope) => PlatformWhere(t)
    BY DEF SaleWhere, PlatformWhere
  <2> QED
    BY <1>1, <2>1, <2>2, <2>3, AllAnswered DEF SameFor
<1>2. ASSUME ReportsInv, Complete, asked.by \notin moved
      PROVE  {x \in Merge(figs["draws"]) : x[1] \in Steady} = UNION {Stakes(t) : t \in sold}
  <2>1. \A t \in Steady : {x \in Merge(figs["draws"]) : x[1] = t} = IF SaleWhere(t, scope) THEN Stakes(t) ELSE {}
    BY <1>2 DEF ReportsInv, AllExact, Exact, Complete, Queries
  <2>2. \A t \in Steady : t \in sold <=> SaleWhere(t, scope)
    BY <1>2, AllAnswered
  <2>3. \A t \in sold : t \in Steady
    OBVIOUS
  <2>4. ASSUME NEW x, x \in Merge(figs["draws"]), x[1] \in Steady
        PROVE  x \in UNION {Stakes(t) : t \in sold}
    <3>1. x \in IF SaleWhere(x[1], scope) THEN Stakes(x[1]) ELSE {}
      BY <2>1, <2>4
    <3> QED
      BY <2>2, <2>4, <3>1
  <2>5. ASSUME NEW t \in sold, NEW x \in Stakes(t)
        PROVE  x \in Merge(figs["draws"]) /\ x[1] \in Steady
    BY <2>1, <2>2, <2>3, <2>5, LinesOfTicket
  <2> QED
    BY <2>4, <2>5
<1>3. ASSUME ReportsInv, Complete, asked.by \in Merchants \ moved, mine.day \in asked.days
      PROVE  /\ SameFor({t \in {k \in Steady : Visible(k)} : ticket[t].day = mine.day}, mine.sales, sold)
             /\ SameFor({t \in {k \in Steady : Visible(k)} : paidOn[t] = mine.day}, mine.payouts, figs["payouts"])
  <2>1. scope.merchants = {asked.by} /\ scope.office = HomeOffice[asked.by]
    BY <1>3, ReportsAssumption DEF ReportsInv, Tables, AtHome, Scoped, ScopeOf, Complete
  <2>2. \A t \in Steady : /\ t \in mine.sales <=> ticket[t].merchant = asked.by /\ ticket[t].day = mine.day /\ Kept(t)
                          /\ t \in mine.payouts <=> ticket[t].merchant = asked.by /\ paidOn[t] = mine.day
    BY <1>3 DEF ReportsInv, AllExact, Exact, Complete, Queries
  <2>3. ASSUME NEW t \in Steady
        PROVE  InScope(t) <=> ticket[t].merchant = asked.by
    <3>1. scope.merchants # Nothing
      BY <1>3, <2>1, ReportsAssumption
    <3>2. ticket[t].merchant = asked.by => ticket[t].office = HomeOffice[asked.by]
      BY <1>3 DEF ReportsInv, AtHome, Steady
    <3> QED
      BY <2>1, <3>1, <3>2 DEF InScope, Within, OfMerchants
  <2>4. ASSUME NEW t \in Steady, Visible(t), ticket[t].day = mine.day
        PROVE  t \in mine.sales <=> t \in sold
    BY <1>3, <2>2, <2>3, <2>4, AllAnswered DEF SaleWhere, InScope, Dated
  <2>5. ASSUME NEW t \in Steady, Visible(t), paidOn[t] = mine.day
        PROVE  t \in mine.payouts <=> t \in figs["payouts"]
    BY <1>3, <2>2, <2>3, <2>5, AllAnswered
  <2> QED
    BY <2>4, <2>5 DEF SameFor
<1>4. ReportsInv => FiguresAgree
  BY <1>1, <1>2, <1>3 DEF FiguresAgree, Steady
<1> QED
  BY <1>4, ReportsInvariant, PTL

-----------------------------------------------------------------------------
(* The documents. *)

\* Induction up to a bound, for sets: the library's induction takes an operator, which its well-founded minimum does
\* not.
LEMMA UpTo ==
    ASSUME NEW N \in Nat, NEW T, 0 \in T, \A n \in 0..N - 1 : n \in T => n + 1 \in T
    PROVE  \A n \in 0..N : n \in T
<1> SUFFICES ASSUME ~ \A n \in 0..N : n \in T PROVE FALSE
  OBVIOUS
<1> DEFINE Missing == {n \in 0..N : n \notin T}
<1>1. Missing \subseteq Nat /\ Missing # {}
  OBVIOUS
<1>2. PICK x \in Missing : \A z \in Missing : ~ (<<z, x>> \in OpToRel(<, Nat))
  BY <1>1, NatLessThanWellFounded, WFMin, Zenon
<1>3. x # 0 /\ x - 1 \in 0..N - 1
  <2>1. x \in 0..N /\ x \notin T
    OBVIOUS
  <2>2. x # 0
    BY <2>1, Zenon
  <2> QED
    BY <2>1, <2>2
<1>4. x - 1 \in T
  <2> SUFFICES ASSUME x - 1 \notin T PROVE FALSE
    OBVIOUS
  <2>1. x - 1 \in Missing /\ x \in Nat /\ x - 1 \in Nat /\ x - 1 < x
    BY <1>3
  <2>2. <<x - 1, x>> \in OpToRel(<, Nat)
    BY <2>1 DEF OpToRel
  <2> QED
    BY <1>2, <2>1, <2>2
<1>5. x - 1 + 1 = x
  BY <1>3
<1> QED
  BY <1>3, <1>4, <1>5, <1>2

\* What f computes along s from s0: each value follows from the one before and the element between.
Folding(f, S, s0, next, s) ==
    /\ f \in [0..Len(s) -> S] /\ f[0] = s0
    /\ \A n \in 1..Len(s) : f[n] = next[<<f[n - 1], s[n]>>]

\* A function computed along a sequence exists.
LEMMA FoldExists ==
    ASSUME NEW S, NEW E, NEW s0 \in S, NEW next \in [S \X E -> S], NEW s \in Seq(E)
    PROVE  \E f : Folding(f, S, s0, next, s)
<1> DEFINE N == Len(s)
           Fold(f, k) == f = [n \in 0..k |-> IF n = 0 THEN s0 ELSE next[<<f[n - 1], s[n]>>]]
           T == {k \in 0..N : \E f \in [0..k -> S] : Fold(f, k)}
<1>1. N \in Nat /\ \A n \in 1..N : s[n] \in E
  OBVIOUS
<1>2. 0 \in T
  <2> DEFINE f == [n \in 0..0 |-> s0]
  <2>1. f \in [0..0 -> S]
    OBVIOUS
  <2>2. \A n \in 0..0 : n = 0
    OBVIOUS
  <2>3. Fold(f, 0)
    BY <2>2
  <2>4. \E h \in [0..0 -> S] : Fold(h, 0)
    <3> HIDE DEF Fold, f
    <3> QED
      BY <2>1, <2>3
  <2> QED
    <3> HIDE DEF Fold
    <3> QED
      BY <1>1, <2>4
<1>3. ASSUME NEW k \in 0..N - 1, k \in T PROVE k + 1 \in T
  <2>1. PICK f \in [0..k -> S] : Fold(f, k)
    BY <1>3
  <2> DEFINE g == [n \in 0..k + 1 |-> IF n = k + 1 THEN next[<<f[k], s[k + 1]>>] ELSE f[n]]
  <2>2. g \in [0..k + 1 -> S]
    BY <1>1
  <2>3. ASSUME NEW n \in 0..k + 1 PROVE g[n] = IF n = 0 THEN s0 ELSE next[<<g[n - 1], s[n]>>]
    <3>1. CASE n = k + 1
      <4>1. n # 0 /\ n - 1 = k /\ k \in 0..k + 1 /\ k # k + 1
        BY <3>1
      <4>2. g[k] = f[k] /\ g[n] = next[<<f[k], s[n]>>]
        BY <3>1, <4>1
      <4> QED
        BY <4>1, <4>2
    <3>2. CASE n # k + 1
      <4>1. n \in 0..k /\ g[n] = f[n]
        BY <3>2
      <4>2. n # 0 => g[n - 1] = f[n - 1]
        BY <4>1
      <4>3. f[n] = IF n = 0 THEN s0 ELSE next[<<f[n - 1], s[n]>>]
        BY <2>1, <4>1
      <4> QED
        BY <4>1, <4>2, <4>3
    <3> QED
      BY <3>1, <3>2
  <2>4. Fold(g, k + 1)
    BY <2>2, <2>3
  <2>5. \E h \in [0..k + 1 -> S] : Fold(h, k + 1)
    <3> HIDE DEF Fold, g
    <3> QED
      BY <2>2, <2>4
  <2>6. k + 1 \in 0..N
    BY <1>1
  <2> QED
    <3> HIDE DEF Fold
    <3> QED
      BY <2>5, <2>6
<1>4. N \in T
  <2> HIDE DEF T
  <2>1. \A n \in 0..N - 1 : n \in T => n + 1 \in T
    BY <1>3
  <2>2. N \in Nat
    BY <1>1
  <2> HIDE DEF N
  <2>3. \A n \in 0..N : n \in T
    BY <1>2, <2>1, <2>2, UpTo
  <2> QED
    BY <2>2, <2>3
<1>5. PICK f \in [0..N -> S] : Fold(f, N)
  BY <1>4
<1>6. f[0] = s0 /\ \A n \in 1..N : f[n] = next[<<f[n - 1], s[n]>>]
  BY <1>1, <1>5
<1>7. Folding(f, S, s0, next, s)
  BY <1>6 DEF Folding
<1> QED
  BY <1>7

\* The sum up to an element is the sum before it and the element.
LEMMA SumSteps ==
    ASSUME NEW s \in Seq(Nat)
    PROVE  /\ SumTo(s, 0) = 0
           /\ \A n \in 1..Len(s) : SumTo(s, n) = SumTo(s, n - 1) + s[n]
           /\ \A n \in 0..Len(s) : SumTo(s, n) \in Nat
<1> DEFINE N == Len(s)
           next == [p \in Nat \X Nat |-> p[1] + p[2]]
           sum == CHOOSE f : f = [n \in 0..N |-> IF n = 0 THEN 0 ELSE f[n - 1] + s[n]]
<1>1. N \in Nat /\ \A n \in 1..N : s[n] \in Nat
  OBVIOUS
<1>2. PICK f \in [0..N -> Nat] : f[0] = 0 /\ \A n \in 1..N : f[n] = next[<<f[n - 1], s[n]>>]
  <2>1. next \in [Nat \X Nat -> Nat]
    OBVIOUS
  <2>2. s \in Seq(Nat) /\ 0 \in Nat
    OBVIOUS
  <2> HIDE DEF next, sum
  <2>3. \E f : Folding(f, Nat, 0, next, s)
    BY <2>1, <2>2, FoldExists, Zenon
  <2> QED
    BY <2>3 DEF Folding
<1>3. f = [n \in 0..N |-> IF n = 0 THEN 0 ELSE f[n - 1] + s[n]]
  <2>1. ASSUME NEW n \in 1..N PROVE next[<<f[n - 1], s[n]>>] = f[n - 1] + s[n]
    <3>1. n - 1 \in 0..N /\ s[n] \in Nat
      BY <1>1
    <3>2. f[n - 1] \in Nat
      BY <3>1
    <3> QED
      BY <3>1, <3>2
  <2> HIDE DEF next
  <2>2. \A n \in 0..N : n # 0 => n \in 1..N
    BY <1>1
  <2>3. \A n \in 0..N : f[n] = IF n = 0 THEN 0 ELSE f[n - 1] + s[n]
    BY <1>2, <2>1, <2>2
  <2> QED
    BY <2>3
<1>4. sum = [n \in 0..N |-> IF n = 0 THEN 0 ELSE sum[n - 1] + s[n]]
  BY <1>3, Zenon
<1>5. \A k : SumTo(s, k) = sum[k]
  BY DEF SumTo
<1> HIDE DEF sum
<1>6. sum[0] = 0 /\ \A n \in 1..N : sum[n] = sum[n - 1] + s[n]
  BY <1>1, <1>4, SMTT(30)
<1> DEFINE T == {n \in 0..N : sum[n] \in Nat}
<1>7. ASSUME NEW n \in 0..N - 1, n \in T PROVE n + 1 \in T
  <2>1. n + 1 \in 1..N /\ n + 1 - 1 = n
    BY <1>1
  <2>2. sum[n + 1] = sum[n] + s[n + 1] /\ s[n + 1] \in Nat
    BY <1>1, <1>6, <2>1
  <2> QED
    BY <1>7, <2>1, <2>2
<1>9. 0 \in T
  BY <1>1, <1>6
<1>8. \A n \in 0..N : n \in T
  <2> HIDE DEF T, N
  <2> QED
    BY <1>1, <1>7, <1>9, UpTo
<1> QED
  BY <1>5, <1>6, <1>8

\* What comes first adds up to no more than all.
LEMMA SumGrows ==
    ASSUME NEW s \in Seq(Nat), NEW k \in 0..Len(s)
    PROVE  SumTo(s, k) <= Total(s)
<1> DEFINE N == Len(s)
           T == {n \in 0..N : k <= n => SumTo(s, k) <= SumTo(s, n)}
<1>1. N \in Nat /\ \A n \in 1..N : s[n] \in Nat
  OBVIOUS
<1>2. ASSUME NEW n \in 0..N - 1, n \in T PROVE n + 1 \in T
  <2>1. SumTo(s, n + 1) = SumTo(s, n) + s[n + 1]
    <3>1. n + 1 \in 1..N /\ n + 1 - 1 = n
      BY <1>1
    <3> QED
      BY <3>1, SumSteps
  <2>2. SumTo(s, n) \in Nat /\ SumTo(s, k) \in Nat /\ s[n + 1] \in Nat
    BY <1>1, SumSteps
  <2> QED
    BY <1>1, <1>2, <2>1, <2>2
<1>3. 0 \in T
  BY <1>1, SumSteps
<1>4. \A n \in 0..N : n \in T
  <2> HIDE DEF T, N
  <2> QED
    BY <1>1, <1>2, <1>3, UpTo
<1> QED
  BY <1>1, <1>4 DEF Total

\* Breaking a cell into lines: three at most.
LEMMA WrapStep ==
    ASSUME NEW w \in [lines : 0..3, cur : Nat], NEW word \in Nat
    PROVE  WrapWord(w, word) \in [lines : 0..3, cur : Nat]
<1> USE DEF WrapWord, Flushed, MaxLines, MaxChars
<1>1. CASE w.lines >= 3
  BY <1>1
<1>2. CASE w.lines < 3 /\ word > 25
  <2> DEFINE slices == (word - 1) \div 25
             room == 3 - Flushed(w)
             n == IF slices < room THEN slices ELSE room
  <2>1. slices \in Nat /\ 25 * slices <= word - 1
    BY <1>2
  <2>2. room \in 0..3 /\ Flushed(w) \in 0..3 /\ Flushed(w) + room = 3
    BY <1>2
  <2>3. n \in 0..room /\ n <= slices
    BY <2>1, <2>2
  <2>4. Flushed(w) + n \in 0..3 /\ word - n * 25 \in Nat
    BY <2>1, <2>2, <2>3
  <2>5. WrapWord(w, word) = [lines |-> Flushed(w) + n, cur |-> word - n * 25]
    BY <1>2
  <2> QED
    BY <2>4, <2>5
<1>3. CASE w.lines < 3 /\ ~ (word > 25)
  BY <1>3
<1> QED
  BY <1>1, <1>2, <1>3

\* A cell of the report has three lines at most, whatever is in it.
LEMMA CellLines ==
    ASSUME NEW text \in Text
    PROVE  Wrapped(text) \in 0..3
<1> DEFINE N == Len(text)
           S == [lines : 0..3, cur : Nat]
           next == [p \in S \X Nat |-> WrapWord(p[1], p[2])]
           words == CHOOSE f : f = [n \in 0..N |-> IF n = 0 THEN Empty ELSE WrapWord(f[n - 1], text[n])]
<1>1. N \in Nat /\ text \in Seq(Nat) /\ \A n \in 1..N : text[n] \in Nat
  BY DEF Text
<1>2. PICK f \in [0..N -> S] : f[0] = Empty /\ \A n \in 1..N : f[n] = next[<<f[n - 1], text[n]>>]
  <2>1. next \in [S \X Nat -> S]
    BY WrapStep
  <2>2. Empty \in S
    BY DEF Empty
  <2> HIDE DEF next, S, words
  <2>3. \E f : Folding(f, S, Empty, next, text)
    BY <1>1, <2>1, <2>2, FoldExists, Zenon
  <2> QED
    BY <2>3 DEF Folding
<1>3. f = [n \in 0..N |-> IF n = 0 THEN Empty ELSE WrapWord(f[n - 1], text[n])]
  <2>1. ASSUME NEW n \in 1..N PROVE next[<<f[n - 1], text[n]>>] = WrapWord(f[n - 1], text[n])
    <3>1. n - 1 \in 0..N /\ text[n] \in Nat
      BY <1>1
    <3>2. f[n - 1] \in S
      <4> HIDE DEF S
      <4> QED
        BY <3>1
    <3> HIDE DEF S
    <3> QED
      BY <3>1, <3>2
  <2> HIDE DEF next, S
  <2>2. \A n \in 0..N : n # 0 => n \in 1..N
    BY <1>1
  <2>3. \A n \in 0..N : f[n] = IF n = 0 THEN Empty ELSE WrapWord(f[n - 1], text[n])
    BY <1>2, <2>1, <2>2
  <2> QED
    BY <2>3
<1>4. words = [n \in 0..N |-> IF n = 0 THEN Empty ELSE WrapWord(words[n - 1], text[n])]
  BY <1>3, Zenon
<1>5. Wrapped(text) = IF words[N].lines < MaxLines THEN Flushed(words[N]) ELSE words[N].lines
  BY DEF Wrapped
<1> HIDE DEF words
<1>6. words[0] = Empty /\ \A n \in 1..N : words[n] = WrapWord(words[n - 1], text[n])
  BY <1>1, <1>4, SMTT(30)
<1> DEFINE T == {n \in 0..N : words[n] \in S}
<1>7. 0 \in T
  BY <1>1, <1>6 DEF Empty
<1>8. ASSUME NEW n \in 0..N - 1, n \in T PROVE n + 1 \in T
  <2>1. n + 1 \in 1..N /\ n + 1 - 1 = n
    BY <1>1
  <2>2. words[n + 1] = WrapWord(words[n], text[n + 1]) /\ text[n + 1] \in Nat
    BY <1>1, <1>6, <2>1
  <2>3. words[n] \in S
    BY <1>8
  <2>4. \A w \in S, word \in Nat : WrapWord(w, word) \in S
    BY WrapStep
  <2> HIDE DEF S
  <2>5. words[n + 1] \in S
    BY <2>2, <2>3, <2>4
  <2> QED
    BY <2>1, <2>5
<1>9. \A n \in 0..N : n \in T
  <2> HIDE DEF T, N
  <2> QED
    BY <1>1, <1>7, <1>8, UpTo
<1> QED
  BY <1>1, <1>5, <1>9 DEF Flushed, MaxLines

\* Breaking a text of the receipt into lines: there is one at least.
LEMMA ReceiptWrapStep ==
    ASSUME NEW w \in [lines : Nat, cur : Nat], NEW word \in Nat, NEW limit \in Nat \ {0}
    PROVE  WrapReceiptWord(limit, w, word) \in [lines : Nat, cur : Nat]
<1> USE DEF WrapReceiptWord, Flushed
<1>1. CASE word > limit
  <2> DEFINE n == (word + limit - 1) \div limit
  <2>1. n \in Nat
    <3> DEFINE m == word + limit - 1
    <3>1. m \in Nat
      BY <1>1
    <3> HIDE DEF m
    <3>2. m \div limit \in Nat
      BY <3>1
    <3> QED
      BY <3>2 DEF m
  <2>2. Flushed(w) \in Nat
    OBVIOUS
  <2>3. WrapReceiptWord(limit, w, word) = [lines |-> Flushed(w) + n, cur |-> 0]
    BY <1>1
  <2>4. Flushed(w) + n \in Nat
    <3> HIDE DEF n
    <3> QED
      BY <2>1, <2>2
  <2> QED
    BY <2>3, <2>4
<1>2. CASE ~ (word > limit)
  BY <1>2
<1> QED
  BY <1>1, <1>2

\* A text of the receipt has a line at least, whatever is in it.
LEMMA SomeLines ==
    ASSUME NEW text \in Text, NEW limit \in Nat \ {0}
    PROVE  LinesOf(text, limit) \in Nat \ {0}
<1> DEFINE N == Len(text)
           S == [lines : Nat, cur : Nat]
           next == [p \in S \X Nat |-> WrapReceiptWord(limit, p[1], p[2])]
           words == CHOOSE f : f = [n \in 0..N |-> IF n = 0 THEN Empty ELSE WrapReceiptWord(limit, f[n - 1], text[n])]
<1>1. N \in Nat /\ text \in Seq(Nat) /\ \A n \in 1..N : text[n] \in Nat
  BY DEF Text
<1>2. PICK f \in [0..N -> S] : f[0] = Empty /\ \A n \in 1..N : f[n] = next[<<f[n - 1], text[n]>>]
  <2>1. next \in [S \X Nat -> S]
    BY ReceiptWrapStep
  <2>2. Empty \in S
    BY DEF Empty
  <2> HIDE DEF next, S, words
  <2>3. \E f : Folding(f, S, Empty, next, text)
    BY <1>1, <2>1, <2>2, FoldExists, Zenon
  <2> QED
    BY <2>3 DEF Folding
<1>3. f = [n \in 0..N |-> IF n = 0 THEN Empty ELSE WrapReceiptWord(limit, f[n - 1], text[n])]
  <2>1. ASSUME NEW n \in 1..N PROVE next[<<f[n - 1], text[n]>>] = WrapReceiptWord(limit, f[n - 1], text[n])
    <3>1. n - 1 \in 0..N /\ text[n] \in Nat
      BY <1>1
    <3>2. f[n - 1] \in S
      <4> HIDE DEF S
      <4> QED
        BY <3>1
    <3> HIDE DEF S
    <3> QED
      BY <3>1, <3>2
  <2> HIDE DEF next, S
  <2>2. \A n \in 0..N : n # 0 => n \in 1..N
    BY <1>1
  <2>3. \A n \in 0..N : f[n] = IF n = 0 THEN Empty ELSE WrapReceiptWord(limit, f[n - 1], text[n])
    BY <1>2, <2>1, <2>2
  <2> QED
    BY <2>3
<1>4. words = [n \in 0..N |-> IF n = 0 THEN Empty ELSE WrapReceiptWord(limit, words[n - 1], text[n])]
  BY <1>3, Zenon
<1>5. LinesOf(text, limit) = Largest(1, Flushed(words[N]))
  BY DEF LinesOf
<1> HIDE DEF words
<1>6. words[0] = Empty /\ \A n \in 1..N : words[n] = WrapReceiptWord(limit, words[n - 1], text[n])
  <2> DEFINE value(n) == IF n = 0 THEN Empty ELSE WrapReceiptWord(limit, words[n - 1], text[n])
  <2>1. \A n \in 0..N : words[n] = value(n)
    <3> HIDE DEF value, N
    <3> QED
      BY <1>4 DEF value
  <2>2. \A n \in 1..N : n \in 0..N /\ n # 0
    BY <1>1
  <2>3. 0 \in 0..N
    BY <1>1
  <2> HIDE DEF N
  <2> QED
    BY <2>1, <2>2, <2>3
<1> DEFINE T == {n \in 0..N : words[n] \in S}
<1>7. 0 \in T
  BY <1>1, <1>6 DEF Empty
<1>8. ASSUME NEW n \in 0..N - 1, n \in T PROVE n + 1 \in T
  <2>1. n + 1 \in 1..N /\ n + 1 - 1 = n
    BY <1>1
  <2>2. words[n + 1] = WrapReceiptWord(limit, words[n], text[n + 1]) /\ text[n + 1] \in Nat
    BY <1>1, <1>6, <2>1
  <2>3. words[n] \in S
    BY <1>8
  <2>4. \A w \in S, word \in Nat : WrapReceiptWord(limit, w, word) \in S
    BY ReceiptWrapStep
  <2> HIDE DEF S
  <2>5. words[n + 1] \in S
    BY <2>2, <2>3, <2>4
  <2> QED
    BY <2>1, <2>5
<1>9. \A n \in 0..N : n \in T
  <2> HIDE DEF T, N
  <2> QED
    BY <1>1, <1>7, <1>8, UpTo
<1> QED
  BY <1>1, <1>5, <1>9 DEF Flushed, Largest

\* The height of a row: that of one line, of two or of three.
LEMMA HeightOfRow ==
    ASSUME NEW text \in Text
    PROVE  RowHeight(text) \in {26, 32, 42}
<1>1. Wrapped(text) \in 0..3
  BY CellLines
<1> QED
  BY <1>1 DEF RowHeight, Largest

\* What stands on a page of a report.
ReportItem == [kind : {"title", "header", "row"}, table : Nat, row : Nat, top : Int, bottom : Int]

\* Whole, of the tables it is given.
WholeIn(input, page) ==
    \A i \in DOMAIN page : page[i].kind = "row" /\ page[i].row > 1 /\ RowsOf(input[page[i].table]) <= 12 =>
        \E j \in DOMAIN page : page[j].kind = "row" /\ page[j].table = page[i].table /\ page[j].row = 1

\* A page that keeps what is promised of it, with nothing on it but what the report has.
GoodPage(input, page) ==
    /\ page \in Seq(ReportItem)
    /\ \A i \in DOMAIN page : page[i].table \in 1..Len(input)
    /\ Readable(page) /\ WholeIn(input, page)

GoodPages(input, ps) == ps \in Seq(Seq(ReportItem)) /\ ps # <<>> /\ \A p \in DOMAIN ps : GoodPage(input, ps[p])

\* The page being filled is ready for row r of table t: the header is on it, what is on it ends over the cursor, and a
\* table of twelve rows or less has room for the rows that are left and has its first row here.
Ready(input, t, r, page, z) ==
    /\ t \in 1..Len(input) /\ r \in 1..RowsOf(input[t])
    /\ page # <<>> /\ page[Len(page)].bottom >= z
    /\ \E j \in DOMAIN page : page[j].kind = "header" /\ page[j].table = t
    /\ RowsOf(input[t]) <= 12 =>
        /\ z - (RowsOf(input[t]) - r + 1) * RowHeight(input[t].text) >= Bottom
        /\ r > 1 => \E j \in DOMAIN page : page[j].kind = "row" /\ page[j].table = t /\ page[j].row = 1

ReportOK(input, a, ps, z) ==
    /\ a \in [table : Nat \ {0}, row : Nat] /\ z \in Int
    /\ GoodPages(input, ps)
    /\ a.row > 0 => Ready(input, a.table, a.row, ps[Len(ps)], z)

ReportInvariant == doc.kind = "report" => doc.input \in Reports /\ ReportOK(doc.input, at, pages, y)

\* The parts of a receipt and of its image.
TextBlocks == [kind : {"text"}, lines : Nat \ {0}, size : Nat, gap : Nat]
RowBlocks == [kind : {"row"}, row : [number : Text, extra : Text]]
Rules == [kind : {"rule"}, gap : Nat]
Parts == TextBlocks \union RowBlocks \union Rules \union [kind : {"heading", "logo", "qr"}]

\* What stands on a receipt.
Drawings == [kind : {"text", "row", "rule", "heading", "logo", "qr"}, top : Int, bottom : Int]

Measures(t) == [i \in 1..Len(Blocks(t)) |-> Measured(Blocks(t)[i])]

ReceiptInvariant ==
    doc.kind = "receipt" =>
        /\ doc.input \in Receipts /\ at.row \in 0..Len(Blocks(doc.input))
        /\ at \in [table : {0}, row : Nat] /\ y \in Int
        /\ y <= 6000 + SumTo(Measures(doc.input), at.row)
        /\ pages \in Seq(Seq(Drawings)) /\ Len(pages) = 1 /\ pages[1] \in Seq(Drawings)

\* The parts under the logo.
ImageParts ==
    [kind : {"text"}, lines : Nat \ {0}, size : 13..24, gap : Nat] \union RowBlocks
        \union [kind : {"rule"}, gap : 18..28] \union [kind : {"heading", "qr"}]

\* Under the last part there is room for the largest letters over the next baseline.
ImageInvariant ==
    doc.kind = "image" =>
        /\ doc.input \in Receipts /\ at.row \in 0..Len(ImageBlocks(doc.input))
        /\ at \in [table : {0}, row : Nat] /\ y \in Int
        /\ pages \in Seq(Seq(Drawings)) /\ Len(pages) = 1 /\ pages[1] \in Seq(Drawings) /\ Len(pages[1]) = at.row
        /\ at.row > 0 => pages[1][at.row].bottom + 1728 <= y
        /\ done => at.row > 0
        /\ \A i \in 2..Len(pages[1]) : pages[1][i].top >= pages[1][i - 1].bottom

\* A table and its rows, of whose heights there are three.
LEMMA TableOf ==
    ASSUME NEW input \in Reports, NEW t \in 1..Len(input)
    PROVE  /\ RowsOf(input[t]) \in Nat \ {0}
           /\ RowHeight(input[t].text) \in {26, 32, 42}
<1>1. input \in Seq([rows : Nat, text : Text])
  BY DocumentsAssumption
<1>2. input[t] \in [rows : Nat, text : Text]
  <2> DEFINE S == [rows : Nat, text : Text]
  <2>1. input \in Seq(S)
    BY <1>1
  <2> HIDE DEF S
  <2>2. input[t] \in S
    BY <2>1
  <2> QED
    BY <2>2 DEF S
<1>3. input[t].rows \in Nat /\ input[t].text \in Text
  BY <1>2
<1> QED
  BY <1>3, HeightOfRow DEF RowsOf, Largest

\* A page stays good when what comes next stands where it should.
LEMMA PageGrows ==
    ASSUME NEW input, NEW page, GoodPage(input, page), NEW item \in ReportItem, item.table \in 1..Len(input),
           item.kind = "row" =>
               /\ \E j \in DOMAIN page : page[j].kind = "header" /\ page[j].table = item.table
               /\ item.bottom >= Bottom /\ page # <<>> /\ item.top <= page[Len(page)].bottom
               /\ item.row > 1 /\ RowsOf(input[item.table]) <= 12 =>
                      \E j \in DOMAIN page : page[j].kind = "row" /\ page[j].table = item.table /\ page[j].row = 1
    PROVE  GoodPage(input, Append(page, item))
<1> DEFINE q == Append(page, item)
           N == Len(page)
<1>1. page \in Seq(ReportItem) /\ N \in Nat /\ DOMAIN page = 1..N
  BY DEF GoodPage
<1>2. q \in Seq(ReportItem) /\ DOMAIN q = 1..N + 1 /\ q[N + 1] = item /\ \A i \in 1..N : q[i] = page[i]
  BY <1>1
<1>3. N \in Nat /\ (page # <<>> => N \in 1..N)
  BY <1>1
<1> HIDE DEF q, N
<1>4. \A i \in DOMAIN q : q[i].table \in 1..Len(input)
  <2> TAKE i \in DOMAIN q
  <2>1. CASE i = N + 1
    BY <1>2, <2>1
  <2>2. CASE i # N + 1
    <3>1. i \in 1..N
      BY <1>2, <1>3, <2>2
    <3> QED
      BY <1>1, <1>2, <3>1 DEF GoodPage
  <2> QED
    BY <2>1, <2>2
<1>5. Readable(q)
  <2> SUFFICES ASSUME NEW i \in DOMAIN q, q[i].kind = "row"
               PROVE  /\ \E j \in 1..(i - 1) : q[j].kind = "header" /\ q[j].table = q[i].table
                      /\ q[i].bottom >= Bottom /\ q[i].top <= q[i - 1].bottom
    BY DEF Readable
  <2>1. CASE i = N + 1
    <3>1. i - 1 = N /\ q[i] = item
      BY <1>2, <1>3, <2>1
    <3>2. item.bottom >= Bottom /\ item.top <= page[N].bottom /\ q[N] = page[N]
      BY <1>2, <1>3, <3>1 DEF N
    <3>3. PICK j \in 1..N : page[j].kind = "header" /\ page[j].table = item.table
      BY <1>1, <3>1
    <3>4. q[j] = page[j]
      BY <1>2
    <3> QED
      BY <3>1, <3>2, <3>3, <3>4
  <2>2. CASE i # N + 1
    <3>1. i \in 1..N /\ q[i] = page[i]
      BY <1>2, <1>3, <2>2
    <3>2. /\ \E j \in 1..(i - 1) : page[j].kind = "header" /\ page[j].table = page[i].table
          /\ page[i].bottom >= Bottom /\ page[i].top <= page[i - 1].bottom
      BY <1>1, <3>1 DEF GoodPage, Readable
    <3>3. \A j \in 1..(i - 1) : q[j] = page[j]
      BY <1>2, <1>3, <3>1
    <3>4. i - 1 \in 1..(i - 1)
      BY <1>3, <3>1, <3>2
    <3>5. q[i - 1] = page[i - 1]
      BY <3>3, <3>4
    <3> QED
      BY <3>1, <3>2, <3>3, <3>5
  <2> QED
    BY <2>1, <2>2
<1>6. WholeIn(input, q)
  <2> SUFFICES ASSUME NEW i \in DOMAIN q, q[i].kind = "row", q[i].row > 1, RowsOf(input[q[i].table]) <= 12
               PROVE  \E j \in DOMAIN q : q[j].kind = "row" /\ q[j].table = q[i].table /\ q[j].row = 1
    BY DEF WholeIn
  <2>1. \A j \in DOMAIN page : j \in DOMAIN q /\ q[j] = page[j]
    BY <1>1, <1>2, <1>3
  <2>2. \E j \in DOMAIN page : page[j].kind = "row" /\ page[j].table = q[i].table /\ page[j].row = 1
    <3>1. CASE i = N + 1
      BY <1>2, <3>1
    <3>2. CASE i # N + 1
      <4>1. i \in DOMAIN page
        BY <1>1, <1>2, <1>3, <3>2
      <4> QED
        BY <2>1, <4>1 DEF GoodPage, WholeIn
    <3> QED
      BY <3>1, <3>2
  <2> QED
    BY <2>1, <2>2
<1> QED
  BY <1>2, <1>4, <1>5, <1>6 DEF GoodPage, q

\* The last page is filled further, or a page follows it.
LEMMA PagesGrow ==
    ASSUME NEW input, NEW ps, GoodPages(input, ps), NEW page, GoodPage(input, page)
    PROVE  /\ GoodPages(input, Append(ps, page)) /\ Append(ps, page)[Len(Append(ps, page))] = page
           /\ GoodPages(input, [ps EXCEPT ![Len(ps)] = page])
           /\ [ps EXCEPT ![Len(ps)] = page][Len([ps EXCEPT ![Len(ps)] = page])] = page
           /\ GoodPage(input, ps[Len(ps)])
<1> DEFINE N == Len(ps)
<1>1. ps \in Seq(Seq(ReportItem)) /\ ps # <<>> /\ page \in Seq(ReportItem)
  BY DEF GoodPages, GoodPage
<1>2. N \in Nat \ {0} /\ DOMAIN ps = 1..N
  <2> HIDE DEF ReportItem
  <2> QED
    BY <1>1
<1>3. ASSUME NEW qs, qs = Append(ps, page) \/ qs = [ps EXCEPT ![N] = page]
      PROVE  GoodPages(input, qs) /\ qs[Len(qs)] = page
  <2>1. qs \in Seq(Seq(ReportItem)) /\ qs # <<>> /\ qs[Len(qs)] = page
    <3>1. CASE qs = Append(ps, page)
      BY <1>1, <1>2, <3>1
    <3>2. CASE qs = [ps EXCEPT ![N] = page]
      BY <1>1, <1>2, <3>2
    <3> QED
      BY <1>3, <3>1, <3>2
  <2>2. ASSUME NEW p \in DOMAIN qs PROVE (p \in DOMAIN ps /\ qs[p] = ps[p]) \/ qs[p] = page
    <3>1. CASE qs = Append(ps, page)
      BY <1>1, <1>2, <3>1
    <3>2. CASE qs = [ps EXCEPT ![N] = page]
      BY <1>1, <1>2, <3>2
    <3> QED
      BY <1>3, <3>1, <3>2
  <2>3. \A p \in DOMAIN qs : GoodPage(input, qs[p])
    BY <2>2 DEF GoodPages
  <2> QED
    BY <2>1, <2>3 DEF GoodPages
<1>4. GoodPage(input, ps[N])
  BY <1>2, SMTT(30) DEF GoodPages
<1> QED
  BY <1>3, <1>4


\* A title and a header over table t, from the cursor z down.
Placed(kind, t, r, top, height) == [kind |-> kind, table |-> t, row |-> r, top |-> top, bottom |-> top - height]
Headed(page, t, r, z) ==
    Append(Append(page, Placed("title", t, r, z, TitleHeight)), Placed("header", t, r, z - TitleHeight, HeaderHeight))

\* A page with a title and a header more: they stand one under the other, and the cursor under them.
LEMMA HeadedIsGood ==
    ASSUME NEW input, NEW page, GoodPage(input, page), NEW t \in 1..Len(input), NEW r \in Nat, NEW z \in Int, t \in Nat
    PROVE  /\ GoodPage(input, Headed(page, t, r, z)) /\ Headed(page, t, r, z) # <<>>
           /\ Headed(page, t, r, z)[Len(Headed(page, t, r, z))].bottom = z - 51
           /\ \E j \in DOMAIN Headed(page, t, r, z) :
                 Headed(page, t, r, z)[j].kind = "header" /\ Headed(page, t, r, z)[j].table = t
<1> DEFINE a == Placed("title", t, r, z, TitleHeight)
           b == Placed("header", t, r, z - TitleHeight, HeaderHeight)
           p == Append(page, a)
           q == Append(p, b)
<1>1. a \in ReportItem /\ a.table = t /\ a.kind # "row"
  BY DEF Placed, ReportItem, TitleHeight
<1>2. b \in ReportItem /\ b.table = t /\ b.kind = "header" /\ b.bottom = z - 51
  BY DEF Placed, ReportItem, TitleHeight, HeaderHeight
<1>3. q = Headed(page, t, r, z)
  BY DEF Headed
<1> HIDE DEF a, b
<1>4. GoodPage(input, p)
  BY <1>1, PageGrows
<1> HIDE DEF p
<1>5. GoodPage(input, q)
  BY <1>2, <1>4, PageGrows
<1>6. p \in Seq(ReportItem)
  BY <1>4 DEF GoodPage
<1>7. q # <<>> /\ Len(q) \in DOMAIN q /\ q[Len(q)] = b
  BY <1>2, <1>6
<1> HIDE DEF q
<1> QED
  BY <1>2, <1>3, <1>5, <1>7

\* A row drawn where it should be, and what the next one finds.
LEMMA RowIsGood ==
    ASSUME NEW input \in Reports, NEW t \in 1..Len(input), NEW r \in 1..RowsOf(input[t]), NEW page, NEW z \in Int,
           GoodPage(input, page), Ready(input, t, r, page, z), z - RowHeight(input[t].text) >= Bottom
    PROVE  /\ GoodPage(input, Append(page, Placed("row", t, r, z, RowHeight(input[t].text))))
           /\ r < RowsOf(input[t]) =>
                  Ready(input, t, r + 1, Append(page, Placed("row", t, r, z, RowHeight(input[t].text))),
                        z - RowHeight(input[t].text))
<1> DEFINE h == RowHeight(input[t].text)
           n == RowsOf(input[t])
           item == Placed("row", t, r, z, h)
           q == Append(page, item)
<1>1. h \in {26, 32, 42} /\ n \in Nat \ {0} /\ t \in Nat
  BY TableOf
<1> HIDE DEF h, n
<1>2. item \in ReportItem /\ item.table = t /\ item.kind = "row" /\ item.row = r /\ item.top = z /\ item.bottom = z - h
  BY <1>1 DEF Placed, ReportItem, n
<1>3. page \in Seq(ReportItem) /\ DOMAIN page = 1..Len(page)
  BY DEF GoodPage
<1>4. q \in Seq(ReportItem) /\ q # <<>> /\ q[Len(q)] = item /\ Len(q) \in DOMAIN q
      /\ \A j \in DOMAIN page : j \in DOMAIN q /\ q[j] = page[j]
  <2> HIDE DEF item
  <2> QED
    BY <1>2, <1>3
<1>5. page # <<>> /\ page[Len(page)].bottom >= z
      /\ (\E j \in DOMAIN page : page[j].kind = "header" /\ page[j].table = t)
  BY DEF Ready
<1>6. n <= 12 /\ r > 1 => \E j \in DOMAIN page : page[j].kind = "row" /\ page[j].table = t /\ page[j].row = 1
  BY DEF Ready, n
<1>6a. page[Len(page)].bottom \in Int
  <2>1. page[Len(page)] \in ReportItem
    <3> HIDE DEF ReportItem
    <3> QED
      BY <1>3, <1>5
  <2> QED
    BY <2>1 DEF ReportItem
<1>7. GoodPage(input, q)
  <2> HIDE DEF item
  <2>1. item.top <= page[Len(page)].bottom
    BY <1>2, <1>5, <1>6a
  <2>2. item.bottom >= Bottom
    BY <1>2 DEF h
  <2>3. item.row > 1 /\ RowsOf(input[item.table]) <= 12 =>
             \E j \in DOMAIN page : page[j].kind = "row" /\ page[j].table = item.table /\ page[j].row = 1
    BY <1>2, <1>6 DEF n
  <2> QED
    BY <1>2, <1>5, <2>1, <2>2, <2>3, PageGrows
<1>8. ASSUME r < n PROVE Ready(input, t, r + 1, q, z - h)
  <2> HIDE DEF item, q
  <2>1. r + 1 \in 1..n
    BY <1>1, <1>8 DEF n
  <2>2. \E j \in DOMAIN q : q[j].kind = "header" /\ q[j].table = t
    BY <1>4, <1>5
  <2>3. q[Len(q)].bottom >= z - h
    BY <1>1, <1>2, <1>4
  <2>4. ASSUME n <= 12
        PROVE  /\ (z - h) - (n - (r + 1) + 1) * h >= Bottom
               /\ \E j \in DOMAIN q : q[j].kind = "row" /\ q[j].table = t /\ q[j].row = 1
    <3>1. z - (n - r + 1) * h >= Bottom
      BY <2>4 DEF Ready, h, n
    <3>2. (z - h) - (n - (r + 1) + 1) * h = z - (n - r + 1) * h
      <4> r \in Int /\ n \in Int
        BY <1>1 DEF n
      <4>1. CASE h = 26
        BY <4>1
      <4>2. CASE h = 32
        BY <4>2
      <4>3. CASE h = 42
        BY <4>3
      <4> QED
        BY <1>1, <4>1, <4>2, <4>3
    <3>3. \E j \in DOMAIN q : q[j].kind = "row" /\ q[j].table = t /\ q[j].row = 1
      <4>1. CASE r = 1
        BY <1>2, <1>4, <4>1
      <4>2. CASE r # 1
        <5>1. r > 1
          BY <1>1, <4>2 DEF n
        <5> QED
          BY <1>4, <1>6, <2>4, <5>1
      <4> QED
        BY <4>1, <4>2
    <3> QED
      BY <3>1, <3>2, <3>3
  <2> QED
    BY <1>4, <2>1, <2>2, <2>3, <2>4 DEF Ready, h, n
<1> QED
  BY <1>7, <1>8 DEF h, n


\* Nothing is wrong with a page nothing is on.
LEMMA EmptyPage ==
    ASSUME NEW input
    PROVE  GoodPage(input, <<>>)
<1>1. <<>> \in Seq(ReportItem) /\ DOMAIN <<>> = {}
  OBVIOUS
<1> QED
  BY <1>1, Zenon DEF GoodPage, Readable, WholeIn

\* The title and the header of a table on the page being filled, or on a new one.
LEMMA BlockIsGood ==
    ASSUME GoodPages(doc.input, pages), at.table \in 1..Len(doc.input), at \in [table : Nat \ {0}, row : Nat], y \in Int,
           NEW fresh \in BOOLEAN
    PROVE  LET block == Block(fresh)
               page == block.pages[Len(block.pages)]
           IN /\ block.top = (IF fresh THEN PageTop ELSE y) - 51
              /\ GoodPages(doc.input, block.pages) /\ page # <<>> /\ page[Len(page)].bottom = block.top
              /\ \E j \in DOMAIN page : page[j].kind = "header" /\ page[j].table = at.table
<1> DEFINE top == IF fresh THEN PageTop ELSE y
           t == at.table
           r == at.row
           old == IF fresh THEN <<>> ELSE pages[Len(pages)]
           page == Headed(old, t, r, top)
           a == Item("title", top, TitleHeight)
           b == Item("header", top - TitleHeight, HeaderHeight)
<1>1. t \in 1..Len(doc.input) /\ t \in Nat /\ r \in Nat /\ top \in Int
  BY DEF PageTop
<1>2. GoodPage(doc.input, old)
  <2>1. GoodPage(doc.input, <<>>)
    BY EmptyPage
  <2>2. pages # <<>> /\ pages \in Seq(Seq(ReportItem))
    BY DEF GoodPages
  <2>3. Len(pages) \in DOMAIN pages
    <3> HIDE DEF ReportItem
    <3> QED
      BY <2>2
  <2>4. GoodPage(doc.input, pages[Len(pages)])
    BY <2>3 DEF GoodPages
  <2> QED
    BY <2>1, <2>4
<1>3. Block(fresh).top = top - 51
  BY <1>1 DEF Block, TitleHeight, HeaderHeight
<1>4. Block(fresh).pages = IF fresh THEN Append(pages, page) ELSE [pages EXCEPT ![Len(pages)] = page]
  <2>1. a = Placed("title", t, r, top, TitleHeight) /\ b = Placed("header", t, r, top - TitleHeight, HeaderHeight)
    BY DEF Item, Placed
  <2>2. a \in ReportItem /\ b \in ReportItem
    BY <1>1, <2>1 DEF Placed, ReportItem, TitleHeight, HeaderHeight
  <2>3. old \in Seq(ReportItem)
    BY <1>2 DEF GoodPage
  <2>4. page = Append(Append(old, a), b)
    BY <2>1 DEF Headed
  <2>5. Block(fresh).pages = IF fresh THEN Append(pages, <<a, b>>) ELSE [pages EXCEPT ![Len(pages)] = @ \o <<a, b>>]
    BY DEF Block
  <2> HIDE DEF a, b, page
  <2>8. Append(Append(old, a), b) = old \o <<a, b>>
    <3> HIDE DEF old
    <3> QED
      BY <2>2, <2>3
  <2>6. CASE fresh
    <3>1. <<a, b>> \in Seq(ReportItem)
      BY <2>2
    <3>2. <<>> \o <<a, b>> = <<a, b>>
      BY <3>1
    <3> QED
      BY <2>4, <2>5, <2>6, <2>8, <3>2 DEF old
  <2>7. CASE ~ fresh
    <3>2. [pages EXCEPT ![Len(pages)] = @ \o <<a, b>>] = [pages EXCEPT ![Len(pages)] = pages[Len(pages)] \o <<a, b>>]
      OBVIOUS
    <3> QED
      BY <2>4, <2>5, <2>7, <2>8, <3>2 DEF old
  <2> QED
    BY <2>6, <2>7
<1> HIDE DEF old, top
<1>5. /\ GoodPage(doc.input, page) /\ page # <<>> /\ page[Len(page)].bottom = top - 51
      /\ \E j \in DOMAIN page : page[j].kind = "header" /\ page[j].table = t
  <2> HIDE DEF t, r
  <2>1. page = Headed(old, t, r, top)
    OBVIOUS
  <2> HIDE DEF page
  <2>2. GoodPage(doc.input, page)
    BY <1>1, <1>2, <2>1, HeadedIsGood
  <2>3. page # <<>>
    BY <1>1, <1>2, <2>1, HeadedIsGood
  <2>4. page[Len(page)].bottom = top - 51
    BY <1>1, <1>2, <2>1, HeadedIsGood
  <2>5. \E j \in DOMAIN page : page[j].kind = "header" /\ page[j].table = t
    BY <1>1, <1>2, <2>1, HeadedIsGood
  <2> QED
    BY <2>2, <2>3, <2>4, <2>5
<1> HIDE DEF page
<1>6. GoodPages(doc.input, Block(fresh).pages) /\ Block(fresh).pages[Len(Block(fresh).pages)] = page
  BY <1>4, <1>5, PagesGrow
<1> QED
  BY <1>3, <1>5, <1>6 DEF top

\* A table begins where its title, its header and, if it is short, all its rows have room.
LEMMA StartTableKeepsReport ==
    ReportInvariant /\ StartTable => ReportInvariant'
<1> SUFFICES ASSUME ReportInvariant, StartTable PROVE ReportInvariant'
  OBVIOUS
<1> DEFINE input == doc.input
           t == at.table
           fresh == KeptTogether(Table) \/ y < 112
           block == Block(fresh)
           page == block.pages[Len(block.pages)]
           n == RowsOf(input[t])
           h == RowHeight(input[t].text)
<1>1. /\ input \in Reports /\ at \in [table : Nat \ {0}, row : Nat] /\ y \in Int /\ GoodPages(input, pages)
      /\ at.row = 0 /\ t <= Len(input) /\ pages' = block.pages /\ y' = block.top
      /\ at' = [at EXCEPT !.row = 1] /\ doc' = doc
  BY DEF ReportInvariant, ReportOK, StartTable
<1>2. t \in 1..Len(input)
  <2>1. input \in Seq([rows : Nat, text : Text])
    BY <1>1, DocumentsAssumption
  <2>2. t \in Nat \ {0}
    BY <1>1
  <2>3. Len(input) \in Nat
    BY <2>1
  <2> QED
    BY <1>1, <2>2, <2>3
<1>3. n \in Nat \ {0} /\ h \in {26, 32, 42}
  BY <1>1, <1>2, TableOf
<1>4. fresh \in BOOLEAN
  BY DEF KeptTogether
<1> HIDE DEF n, h, fresh
<1>5. /\ block.top = (IF fresh THEN PageTop ELSE y) - 51
      /\ GoodPages(input, block.pages) /\ page # <<>> /\ page[Len(page)].bottom = block.top
      /\ \E j \in DOMAIN page : page[j].kind = "header" /\ page[j].table = t
  BY <1>1, <1>2, <1>4, BlockIsGood
<1> HIDE DEF block
<1>6. ASSUME n <= 12 PROVE block.top - n * h >= Bottom
  <2>1. n * h <= 504 /\ n * h \in Nat
    <3>1. CASE h = 26
      BY <1>3, <1>6, <3>1
    <3>2. CASE h = 32
      BY <1>3, <1>6, <3>2
    <3>3. CASE h = 42
      BY <1>3, <1>6, <3>3
    <3> QED
      BY <1>3, <3>1, <3>2, <3>3
  <2>2. CASE fresh
    BY <1>5, <2>1, <2>2 DEF PageTop, Bottom
  <2>3. CASE ~ fresh
    <3>1. y - (51 + n * h + 14) >= Bottom \/ y >= 642
      <4>1. Projected(Table) = 51 + n * h + 14
        <5>1. Projected(Table) = 22 + 29 + n * h + 14
          BY DEF Projected, TitleHeight, HeaderHeight, Gap, n, h, Table
        <5> QED
          BY <2>1, <5>1
      <4>2. ~ (y - Projected(Table) < Bottom /\ y < 642)
        BY <1>6, <2>3 DEF fresh, KeptTogether, n, Table
      <4> HIDE DEF Projected
      <4> QED
        BY <1>1, <2>1, <4>1, <4>2 DEF Bottom
    <3> QED
      BY <1>1, <1>5, <2>1, <2>3, <3>1 DEF Bottom
  <2> QED
    BY <2>2, <2>3
<1>7. block.top \in Int
  BY <1>1, <1>5 DEF PageTop
<1>8. Ready(input, t, 1, page, block.top)
  <2>1. page[Len(page)].bottom >= block.top
    BY <1>5, <1>7
  <2>2. n - 1 + 1 = n /\ 1 \in 1..n
    BY <1>3
  <2>3. ~ (1 > 1)
    OBVIOUS
  <2> HIDE DEF page
  <2> QED
    BY <1>2, <1>5, <1>6, <2>1, <2>2, <2>3 DEF Ready, n, h
<1>9. at' \in [table : Nat \ {0}, row : Nat] /\ at'.table = t /\ at'.row = 1
  BY <1>1
<1>10. ReportOK(input, at', pages', y')
  BY <1>1, <1>5, <1>7, <1>8, <1>9 DEF ReportOK
<1> QED
  BY <1>1, <1>10 DEF ReportInvariant

\* A row is drawn where there is room for it; a short table never needs another page.
LEMMA DrawRowKeepsReport ==
    ReportInvariant /\ DrawRow => ReportInvariant'
<1> SUFFICES ASSUME ReportInvariant, DrawRow PROVE ReportInvariant'
  OBVIOUS
<1> DEFINE input == doc.input
           t == at.table
           r == at.row
           n == RowsOf(input[t])
           h == RowHeight(input[t].text)
           breaks == RowBreaks(h)
           block == IF breaks THEN Block(TRUE) ELSE [top |-> y, pages |-> pages]
           page == block.pages[Len(block.pages)]
           q == Append(page, Placed("row", t, r, block.top, h))
           last == r = n
<1>1. /\ input \in Reports /\ at \in [table : Nat \ {0}, row : Nat] /\ y \in Int /\ GoodPages(input, pages)
      /\ r > 0 /\ Ready(input, t, r, pages[Len(pages)], y) /\ doc' = doc
  BY DEF ReportInvariant, ReportOK, DrawRow
<1>2. t \in 1..Len(input) /\ t \in Nat \ {0} /\ r \in 1..n /\ r \in Nat
  BY <1>1 DEF Ready
<1>3. n \in Nat \ {0} /\ h \in {26, 32, 42}
  BY <1>1, <1>2, TableOf
<1>4. /\ y' = block.top - h - (IF last THEN Gap ELSE 0)
      /\ at' = IF last THEN [table |-> t + 1, row |-> 0] ELSE [at EXCEPT !.row = @ + 1]
      /\ pages' = [block.pages EXCEPT ![Len(block.pages)] = Append(@, Item("row", block.top, h))]
  BY DEF DrawRow, Table
<1>5. pages' = [block.pages EXCEPT ![Len(block.pages)] = q]
  <2>1. Item("row", block.top, h) = Placed("row", t, r, block.top, h)
    BY DEF Item, Placed
  <2> HIDE DEF block, h
  <2> QED
    BY <1>4, <2>1
<1> HIDE DEF h, n
<1>6. breaks => ~ (n <= 12)
  <2> SUFFICES ASSUME n <= 12 PROVE y - h >= Bottom
    BY <1>1, <1>3 DEF RowBreaks, Bottom
  <2>1. y - (n - r + 1) * h >= Bottom
    BY <1>1 DEF Ready, n, h
  <2>2. (n - r + 1) * h >= h
    <3> DEFINE k == n - r
    <3>1. k \in Nat
      BY <1>2, <1>3
    <3> HIDE DEF k
    <3>2. (k + 1) * h >= h
      <4>1. CASE h = 26
        BY <3>1, <4>1
      <4>2. CASE h = 32
        BY <3>1, <4>2
      <4>3. CASE h = 42
        BY <3>1, <4>3
      <4> QED
        BY <1>3, <4>1, <4>2, <4>3
    <3> QED
      BY <3>2 DEF k
  <2>3. (n - r + 1) * h \in Int
    BY <1>2, <1>3
  <2> QED
    BY <1>1, <1>3, <2>1, <2>2, <2>3 DEF Bottom
<1>7. /\ GoodPages(input, block.pages) /\ GoodPage(input, page) /\ block.top \in Int
      /\ Ready(input, t, r, page, block.top) /\ block.top - h >= Bottom
  <2>1. CASE breaks
    <3>1. block = Block(TRUE)
      BY <2>1
    <3> HIDE DEF block
    <3>2. /\ block.top = PageTop - 51
          /\ GoodPages(input, block.pages) /\ page # <<>> /\ page[Len(page)].bottom = block.top
          /\ \E j \in DOMAIN page : page[j].kind = "header" /\ page[j].table = t
      BY <1>1, <1>2, <3>1, BlockIsGood
    <3>3. block.top = 687
      BY <3>2 DEF PageTop
    <3>4. page[Len(page)].bottom >= block.top /\ block.top - h >= Bottom
      BY <1>3, <3>2, <3>3 DEF Bottom
    <3>5. GoodPage(input, page)
      BY <3>2, PagesGrow, EmptyPage
    <3>6. ~ (RowsOf(input[t]) <= 12)
      BY <1>6, <2>1 DEF n
    <3>7. Ready(input, t, r, page, block.top)
      <4> HIDE DEF page
      <4> QED
        BY <1>2, <3>2, <3>4, <3>6 DEF Ready, n
    <3> QED
      BY <3>2, <3>3, <3>4, <3>5, <3>7
  <2>2. CASE ~ breaks
    <3>1. block.top = y /\ block.pages = pages
      BY <2>2
    <3>2. y - h >= Bottom
      BY <1>1, <1>3, <2>2 DEF RowBreaks, Bottom
    <3>3. GoodPage(input, pages[Len(pages)])
      BY <1>1, PagesGrow, EmptyPage
    <3> HIDE DEF block
    <3> QED
      BY <1>1, <3>1, <3>2, <3>3
  <2> QED
    BY <2>1, <2>2
<1> HIDE DEF block, page
<1>8. /\ GoodPage(input, q)
      /\ r < n => Ready(input, t, r + 1, q, block.top - h)
  BY <1>1, <1>2, <1>7, RowIsGood DEF n, h
<1> HIDE DEF q
<1>9. GoodPages(input, pages') /\ pages'[Len(pages')] = q
  BY <1>5, <1>7, <1>8, PagesGrow
<1>10. y' \in Int
  BY <1>3, <1>4, <1>7 DEF Gap
<1>11. CASE last
  <2>1. at' \in [table : Nat \ {0}, row : Nat] /\ at'.row = 0
    BY <1>2, <1>4, <1>11
  <2>2. ReportOK(input, at', pages', y')
    BY <1>9, <1>10, <2>1 DEF ReportOK
  <2> QED
    BY <1>1, <2>2 DEF ReportInvariant
<1>12. CASE ~ last
  <2>1. at' \in [table : Nat \ {0}, row : Nat] /\ at'.table = t /\ at'.row = r + 1
    BY <1>1, <1>2, <1>4, <1>12
  <2>2. r < n /\ y' = block.top - h
    BY <1>2, <1>3, <1>4, <1>7, <1>12
  <2>3. ReportOK(input, at', pages', y')
    BY <1>8, <1>9, <1>10, <2>1, <2>2 DEF ReportOK
  <2> QED
    BY <1>1, <2>3 DEF ReportInvariant
<1> QED
  BY <1>11, <1>12


\* What a receipt is made of.
LEMMA PiecesJoin ==
    ASSUME NEW S, NEW s \in Seq(S), NEW u \in Seq(S)
    PROVE  s \o u \in Seq(S)
  OBVIOUS

\* A part that may be left out.
LEMMA PieceMayMiss ==
    ASSUME NEW S, NEW c, NEW x \in S
    PROVE  If(c, <<x>>) \in Seq(S)
  BY DEF If

\* What is known of a ticket to print.
LEMMA ReceiptFields ==
    ASSUME NEW t \in Receipts
    PROVE  /\ t.logo \in BOOLEAN /\ t.won \in BOOLEAN /\ t.brand \in Text /\ t.draw \in Text /\ t.branch \in Text
           /\ t.rows \in Seq([number : Text, extra : Text])
  BY DocumentsAssumption

\* A text of the receipt, of any of the sizes in use.
LEMMA TextIsPart ==
    ASSUME NEW text \in Text, NEW size \in {70, 75, 80, 110, 120}, NEW gap \in Nat
    PROVE  TextBlock(text, size, gap) \in Parts
<1> DEFINE limit == Largest(12, 500000 \div (size * 210))
<1>1. limit \in Nat \ {0}
  <2>1. CASE size = 70
    BY <2>1 DEF Largest
  <2>2. CASE size = 75
    BY <2>2 DEF Largest
  <2>3. CASE size = 80
    BY <2>3 DEF Largest
  <2>4. CASE size = 110
    BY <2>4 DEF Largest
  <2>5. CASE size = 120
    BY <2>5 DEF Largest
  <2> QED
    BY <2>1, <2>2, <2>3, <2>4, <2>5
<1>2. TextBlock(text, size, gap) = [kind |-> "text", lines |-> LinesOf(text, limit), size |-> size, gap |-> gap]
  BY DEF TextBlock
<1> HIDE DEF limit
<1>3. LinesOf(text, limit) \in Nat \ {0}
  BY <1>1, SomeLines
<1> QED
  BY <1>2, <1>3 DEF Parts, TextBlocks

\* The rows of a ticket.
LEMMA RowsAreParts ==
    ASSUME NEW rows \in Seq([number : Text, extra : Text])
    PROVE  [i \in 1..Len(rows) |-> RowBlock(rows[i])] \in Seq(RowBlocks)
<1> DEFINE S == [number : Text, extra : Text]
           N == Len(rows)
<1>1. N \in Nat /\ \A i \in 1..N : rows[i] \in S
  <2>1. rows \in Seq(S)
    OBVIOUS
  <2> HIDE DEF S
  <2> QED
    BY <2>1
<1>2. \A i \in 1..N : RowBlock(rows[i]) \in RowBlocks
  <2> HIDE DEF S
  <2> QED
    BY <1>1 DEF RowBlock, RowBlocks, S
<1> HIDE DEF N
<1> QED
  BY <1>1, <1>2 DEF N

\* The fixed words of a receipt.
LEMMA WordsAreText ==
    /\ <<5, 12>> \in Text /\ <<3, 1, 3, 10, 5>> \in Text /\ <<6, 9>> \in Text /\ <<7, 6>> \in Text
    /\ <<3, 8, 9>> \in Text /\ <<8, 12>> \in Text /\ <<5, 5, 7, 3>> \in Text
    /\ \A text \in Text : <<6>> \o text \in Text /\ <<5>> \o text \in Text
<1>1. \A n \in Nat : \A text \in Seq(Nat) : <<n>> \o text \in Seq(Nat)
  OBVIOUS
<1> QED
  BY <1>1 DEF Text

\* Whatever is left out, a receipt is made of parts that are measured and drawn.
LEMMA BlocksAreParts ==
    ASSUME NEW t \in Receipts
    PROVE  Blocks(t) \in Seq(Parts)
<1> DEFINE a == If(t.logo, <<Simple("logo")>>)
           b == If(t.brand # <<>>, <<TextBlock(t.brand, 120, 1200)>>)
           c == <<TextBlock(<<5, 12>>, 80, 1200), TextBlock(<<6>> \o t.draw, 80, 1200)>>
           d == If(t.branch # <<>>, <<TextBlock(<<5>> \o t.branch, 75, 1200)>>)
           e == <<TextBlock(<<3, 1, 3, 10, 5>>, 75, 1200), Rule(1700), Simple("heading")>>
           f == [i \in 1..Len(t.rows) |-> RowBlock(t.rows[i])]
           g == <<Rule(2000), TextBlock(<<6, 9>>, 110, 1000), TextBlock(<<7, 6>>, 80, 1200)>>
           h == If(t.won, <<TextBlock(<<3, 8, 9>>, 80, 1200)>>)
           k == <<TextBlock(<<8, 12>>, 75, 1200), Simple("qr"), TextBlock(<<5, 5, 7, 3>>, 70, 0)>>
<1>0. /\ Simple("logo") \in Parts /\ Simple("heading") \in Parts /\ Simple("qr") \in Parts
      /\ Rule(1700) \in Parts /\ Rule(2000) \in Parts
  BY DEF Simple, Rule, Rules, Parts
<1>1. a \in Seq(Parts)
  BY <1>0, PieceMayMiss
<1>2. b \in Seq(Parts)
  <2>1. TextBlock(t.brand, 120, 1200) \in Parts
    BY ReceiptFields, TextIsPart
  <2> QED
    BY <2>1, PieceMayMiss
<1>3. c \in Seq(Parts)
  <2>1. TextBlock(<<5, 12>>, 80, 1200) \in Parts /\ TextBlock(<<6>> \o t.draw, 80, 1200) \in Parts
    BY ReceiptFields, WordsAreText, TextIsPart
  <2> QED
    BY <2>1
<1>4. d \in Seq(Parts)
  <2>1. TextBlock(<<5>> \o t.branch, 75, 1200) \in Parts
    BY ReceiptFields, WordsAreText, TextIsPart
  <2> QED
    BY <2>1, PieceMayMiss
<1>5. e \in Seq(Parts)
  <2>1. TextBlock(<<3, 1, 3, 10, 5>>, 75, 1200) \in Parts
    BY WordsAreText, TextIsPart
  <2> QED
    BY <1>0, <2>1
<1>6. f \in Seq(Parts)
  <2>1. f \in Seq(RowBlocks)
    BY ReceiptFields, RowsAreParts
  <2>2. RowBlocks \subseteq Parts
    BY DEF Parts
  <2> HIDE DEF f
  <2> QED
    BY <2>1, <2>2
<1>7. g \in Seq(Parts)
  <2>1. TextBlock(<<6, 9>>, 110, 1000) \in Parts /\ TextBlock(<<7, 6>>, 80, 1200) \in Parts
    BY WordsAreText, TextIsPart
  <2> QED
    BY <1>0, <2>1
<1>8. h \in Seq(Parts)
  <2>1. TextBlock(<<3, 8, 9>>, 80, 1200) \in Parts
    BY WordsAreText, TextIsPart
  <2> QED
    BY <2>1, PieceMayMiss
<1>9. k \in Seq(Parts)
  <2>1. TextBlock(<<8, 12>>, 75, 1200) \in Parts /\ TextBlock(<<5, 5, 7, 3>>, 70, 0) \in Parts
    BY WordsAreText, TextIsPart
  <2> QED
    BY <1>0, <2>1
<1>10. Blocks(t) = a \o b \o c \o d \o e \o f \o g \o h \o k
  BY DEF Blocks
<1> HIDE DEF a, b, c, d, e, f, g, h, k
<1>11. a \o b \o c \o d \in Seq(Parts)
  BY <1>1, <1>2, <1>3, <1>4, PiecesJoin
<1>12. a \o b \o c \o d \o e \o f \in Seq(Parts)
  BY <1>11, <1>5, <1>6, PiecesJoin
<1>13. a \o b \o c \o d \o e \o f \o g \o h \o k \in Seq(Parts)
  BY <1>12, <1>7, <1>8, <1>9, PiecesJoin
<1> QED
  BY <1>10, <1>13

\* No part is drawn higher than it was measured.
LEMMA PartFits ==
    ASSUME NEW b \in Parts
    PROVE  Measured(b) \in Nat /\ Drawn(b) \in Nat /\ Drawn(b) <= Measured(b)
<1>1. CASE b \in TextBlocks
  <2>1. b.kind = "text" /\ b.lines \in Nat /\ b.size \in Nat /\ b.gap \in Nat
    BY <1>1 DEF TextBlocks
  <2>2. TextHeight(b) \in Nat
    <3> DEFINE m == b.size * 45 + 1500
    <3>1. m \in Nat
      BY <2>1
    <3>2. TextHeight(b) = b.lines * m + b.gap
      BY DEF TextHeight
    <3> HIDE DEF m
    <3>3. b.lines * m \in Nat
      BY <2>1, <3>1
    <3> QED
      BY <2>1, <3>2, <3>3
  <2>3. Measured(b) = TextHeight(b) /\ Drawn(b) = TextHeight(b)
    BY <2>1 DEF Measured, Drawn
  <2> QED
    BY <2>2, <2>3
<1>2. CASE b \in RowBlocks
  <2>1. b.kind = "row" /\ b.row.number \in Text /\ b.row.extra \in Text
    BY <1>2 DEF RowBlocks
  <2>2. LinesOf(b.row.number, 20) \in Nat /\ LinesOf(b.row.extra, 38) \in Nat
    BY <2>1, SomeLines
  <2>3. NumberHeight(b.row) \in Nat
    BY <2>2 DEF NumberHeight, Largest
  <2> DEFINE m == NumberHeight(b.row) + (IF b.row.extra # <<>> THEN LinesOf(b.row.extra, 38) * 4200 ELSE 0)
  <2>4. m \in Nat
    BY <2>2, <2>3
  <2>5. Measured(b) = m /\ Drawn(b) = m
    BY <2>1 DEF Measured, Drawn
  <2> HIDE DEF m
  <2> QED
    BY <2>4, <2>5
<1>3. CASE b \in Rules
  <2>1. b.kind = "rule" /\ b.gap \in Nat
    BY <1>3 DEF Rules
  <2>2. Measured(b) = b.gap * 2 + 700 /\ Drawn(b) = b.gap * 2 + 700
    BY <2>1 DEF Measured, Drawn
  <2> QED
    BY <2>1, <2>2
<1>4. CASE b \in [kind : {"heading", "logo", "qr"}]
  <2>1. b.kind \in {"heading", "logo", "qr"}
    BY <1>4
  <2> QED
    BY <2>1 DEF Measured, Drawn
<1> QED
  BY <1>1, <1>2, <1>3, <1>4 DEF Parts

\* What is measured of a receipt adds up part by part.
LEMMA MeasuresAdd ==
    ASSUME NEW t \in Receipts
    PROVE  /\ Len(Blocks(t)) \in Nat /\ Len(Measures(t)) = Len(Blocks(t)) /\ Measures(t) \in Seq(Nat)
           /\ \A n \in 0..Len(Blocks(t)) - 1 :
                 SumTo(Measures(t), n + 1) = SumTo(Measures(t), n) + Measured(Blocks(t)[n + 1])
           /\ \A n \in 0..Len(Blocks(t)) : SumTo(Measures(t), n) \in Nat /\ SumTo(Measures(t), n) <= Total(Measures(t))
           /\ SumTo(Measures(t), 0) = 0
<1> DEFINE bs == Blocks(t)
           N == Len(bs)
           m == Measures(t)
<1>1. bs \in Seq(Parts)
  BY BlocksAreParts
<1> HIDE DEF bs
<1>2. N \in Nat /\ \A i \in 1..N : bs[i] \in Parts
  BY <1>1
<1>3. m = [i \in 1..N |-> Measured(bs[i])]
  BY DEF Measures, bs
<1>4. \A i \in 1..N : Measured(bs[i]) \in Nat
  BY <1>2, PartFits
<1> HIDE DEF N, m
<1>5. m \in Seq(Nat) /\ Len(m) = N /\ \A i \in 1..N : m[i] = Measured(bs[i])
  BY <1>2, <1>3, <1>4
<1>6. SumTo(m, 0) = 0 /\ \A n \in 0..N : SumTo(m, n) \in Nat /\ SumTo(m, n) <= Total(m)
  BY <1>5, SumSteps, SumGrows
<1>7. ASSUME NEW n \in 0..N - 1 PROVE SumTo(m, n + 1) = SumTo(m, n) + Measured(bs[n + 1])
  <2>1. n + 1 \in 1..N /\ n + 1 - 1 = n
    BY <1>2
  <2>2. SumTo(m, n + 1) = SumTo(m, n + 1 - 1) + m[n + 1]
    BY <1>5, <2>1, SumSteps
  <2> QED
    BY <1>5, <2>1, <2>2
<1> QED
  BY <1>2, <1>5, <1>6, <1>7 DEF bs, N, m

\* The one page of a receipt is drawn on.
LEMMA OnlyOne ==
    ASSUME NEW T, NEW ps \in Seq(T), Len(ps) = 1, NEW e \in T
    PROVE  [ps EXCEPT ![1] = e] \in Seq(T) /\ Len([ps EXCEPT ![1] = e]) = 1 /\ [ps EXCEPT ![1] = e][1] = e
<1>1. [ps EXCEPT ![1] = e] \in Seq(T)
  OBVIOUS
<1>2. Len([ps EXCEPT ![1] = e]) = 1
  OBVIOUS
<1>3. [ps EXCEPT ![1] = e][1] = e
  OBVIOUS
<1> QED
  BY <1>1, <1>2, <1>3

\* Drawing appends to that page.
LEMMA OnlyPage ==
    ASSUME NEW S, NEW ps \in Seq(Seq(S)), Len(ps) = 1, NEW item \in S
    PROVE  /\ ps[1] \in Seq(S)
           /\ [ps EXCEPT ![1] = Append(@, item)] \in Seq(Seq(S)) /\ Len([ps EXCEPT ![1] = Append(@, item)]) = 1
           /\ [ps EXCEPT ![1] = Append(@, item)][1] = Append(ps[1], item)
<1> DEFINE q == Append(ps[1], item)
           qs == [ps EXCEPT ![1] = Append(@, item)]
<1>1. ps[1] \in Seq(S)
  OBVIOUS
<1>2. q \in Seq(S)
  BY <1>1
<1>3. qs = [ps EXCEPT ![1] = q]
  OBVIOUS
<1> HIDE DEF q, qs
<1>4. qs \in Seq(Seq(S)) /\ Len(qs) = 1 /\ qs[1] = q
  <2>1. qs \in Seq(Seq(S))
    BY <1>2, <1>3, OnlyOne
  <2>2. Len(qs) = 1
    BY <1>2, <1>3, OnlyOne
  <2>3. qs[1] = q
    BY <1>2, <1>3, OnlyOne
  <2> QED
    BY <2>1, <2>2, <2>3
<1> QED
  BY <1>1, <1>4 DEF q, qs

\* No part of a receipt takes more of the page than was measured for it.
LEMMA DrawBlockKeepsReceipt ==
    ReceiptInvariant /\ DrawBlock => ReceiptInvariant'
<1> SUFFICES ASSUME ReceiptInvariant, DrawBlock PROVE ReceiptInvariant'
  OBVIOUS
<1> DEFINE t == doc.input
           n == at.row
           b == Blocks(t)[n + 1]
           item == [kind |-> b.kind, top |-> y, bottom |-> y + Drawn(b)]
<1>1. /\ t \in Receipts /\ n \in 0..Len(Blocks(t)) /\ at \in [table : {0}, row : Nat]
      /\ y \in Int /\ y <= 6000 + SumTo(Measures(t), n)
      /\ pages \in Seq(Seq(Drawings)) /\ Len(pages) = 1 /\ pages[1] \in Seq(Drawings)
  BY DEF ReceiptInvariant, DrawBlock
<1>2. /\ n < Len(Blocks(t)) /\ y' = y + Drawn(b) /\ at' = [at EXCEPT !.row = n + 1] /\ doc' = doc
      /\ pages' = [pages EXCEPT ![1] = Append(@, item)]
  BY DEF DrawBlock
<1>3. Len(Blocks(t)) \in Nat
  BY <1>1, MeasuresAdd
<1>4. n \in 0..Len(Blocks(t)) - 1 /\ n + 1 \in 1..Len(Blocks(t))
  BY <1>1, <1>2, <1>3
<1>5. b \in Parts
  BY <1>1, <1>4, BlocksAreParts
<1> HIDE DEF b
<1>6. Measured(b) \in Nat /\ Drawn(b) \in Nat /\ Drawn(b) <= Measured(b)
  BY <1>5, PartFits
<1>7. SumTo(Measures(t), n + 1) = SumTo(Measures(t), n) + Measured(b) /\ SumTo(Measures(t), n) \in Nat
  BY <1>1, <1>4, MeasuresAdd DEF b
<1>8. y' \in Int /\ y' <= 6000 + SumTo(Measures(t), n + 1)
  BY <1>1, <1>2, <1>6, <1>7, SMTT(30)
<1>9. b.kind \in {"text", "row", "rule", "heading", "logo", "qr"}
  BY <1>5 DEF Parts, TextBlocks, RowBlocks, Rules
<1>10. item \in Drawings
  BY <1>1, <1>6, <1>9 DEF Drawings
<1>11. pages' \in Seq(Seq(Drawings)) /\ Len(pages') = 1 /\ pages'[1] \in Seq(Drawings)
  <2> HIDE DEF item
  <2>1. pages \in Seq(Seq(Drawings)) /\ Len(pages) = 1
    BY <1>1
  <2>2. pages' \in Seq(Seq(Drawings)) /\ Len(pages') = 1
    BY <1>2, <1>10, <2>1, OnlyPage
  <2>3. pages'[1] \in Seq(Drawings)
    BY <1>10, <2>2, OnlyPage
  <2> QED
    BY <2>2, <2>3
<1>12. at'.row = n + 1 /\ at' \in [table : {0}, row : Nat]
  BY <1>1, <1>2, SMTT(30)
<1> QED
  BY <1>1, <1>2, <1>4, <1>8, <1>11, <1>12 DEF ReceiptInvariant


\* What the image of a receipt is made of.
LEMMA ImageTextIsPart ==
    ASSUME NEW text \in Text, NEW size \in {13, 14, 16, 17, 22, 24}, NEW gap \in Nat
    PROVE  ImageText(text, size, gap) \in ImageParts
<1> DEFINE limit == Largest(12, 43000 \div (size * 62))
<1>1. limit \in Nat \ {0}
  <2>1. CASE size = 13
    BY <2>1 DEF Largest
  <2>2. CASE size = 14
    BY <2>2 DEF Largest
  <2>3. CASE size = 16
    BY <2>3 DEF Largest
  <2>4. CASE size = 17
    BY <2>4 DEF Largest
  <2>5. CASE size = 22
    BY <2>5 DEF Largest
  <2>6. CASE size = 24
    BY <2>6 DEF Largest
  <2> QED
    BY <2>1, <2>2, <2>3, <2>4, <2>5, <2>6
<1>2. ImageText(text, size, gap) = [kind |-> "text", lines |-> LinesOf(text, limit), size |-> size, gap |-> gap]
  BY DEF ImageText
<1> HIDE DEF limit
<1>3. LinesOf(text, limit) \in Nat \ {0}
  BY <1>1, SomeLines
<1>4. size \in 13..24
  OBVIOUS
<1> QED
  BY <1>2, <1>3, <1>4 DEF ImageParts

\* The image of a receipt has its logo, if any, over all the other parts.
LEMMA ImageBlocksAreParts ==
    ASSUME NEW t \in Receipts
    PROVE  /\ Len(ImageBlocks(t)) \in Nat \ {0}
           /\ \A i \in 1..Len(ImageBlocks(t)) :
                 ImageBlocks(t)[i] \in ImageParts \/ (i = 1 /\ ImageBlocks(t)[i] = Simple("logo"))
<1> DEFINE a == If(t.logo, <<Simple("logo")>>)
           b == If(t.brand # <<>>, <<ImageText(t.brand, 24, 8)>>)
           c == <<ImageText(<<5, 12>>, 17, 5), ImageText(<<6>> \o t.draw, 16, 5)>>
           d == If(t.branch # <<>>, <<ImageText(<<5>> \o t.branch, 14, 3)>>)
           e == <<ImageText(<<3, 1, 3, 10, 5>>, 14, 5), Rule(22), Simple("heading")>>
           f == [i \in 1..Len(t.rows) |-> RowBlock(t.rows[i])]
           g == <<Rule(28), ImageText(<<6, 9>>, 22, 7), ImageText(<<7, 6>>, 16, 5)>>
           h == If(t.won, <<ImageText(<<3, 8, 9>>, 16, 5)>>)
           k == <<ImageText(<<8, 12>>, 14, 4), Simple("qr"), ImageText(<<5, 5, 7, 3>>, 13, 0)>>
           rest == b \o c \o d \o e \o f \o g \o h \o k
<1>0. Simple("heading") \in ImageParts /\ Simple("qr") \in ImageParts /\ Rule(22) \in ImageParts /\ Rule(28) \in ImageParts
  BY DEF Simple, Rule, ImageParts
<1>2. b \in Seq(ImageParts)
  <2>1. ImageText(t.brand, 24, 8) \in ImageParts
    BY ReceiptFields, ImageTextIsPart
  <2> QED
    BY <2>1, PieceMayMiss
<1>3. c \in Seq(ImageParts)
  <2>1. ImageText(<<5, 12>>, 17, 5) \in ImageParts /\ ImageText(<<6>> \o t.draw, 16, 5) \in ImageParts
    BY ReceiptFields, WordsAreText, ImageTextIsPart
  <2> QED
    BY <2>1
<1>4. d \in Seq(ImageParts)
  <2>1. ImageText(<<5>> \o t.branch, 14, 3) \in ImageParts
    BY ReceiptFields, WordsAreText, ImageTextIsPart
  <2> QED
    BY <2>1, PieceMayMiss
<1>5. e \in Seq(ImageParts)
  <2>1. ImageText(<<3, 1, 3, 10, 5>>, 14, 5) \in ImageParts
    BY WordsAreText, ImageTextIsPart
  <2> QED
    BY <1>0, <2>1
<1>6. f \in Seq(ImageParts)
  <2>1. f \in Seq(RowBlocks)
    BY ReceiptFields, RowsAreParts
  <2>2. RowBlocks \subseteq ImageParts
    BY DEF ImageParts
  <2> HIDE DEF f
  <2> QED
    BY <2>1, <2>2
<1>7. g \in Seq(ImageParts)
  <2>1. ImageText(<<6, 9>>, 22, 7) \in ImageParts /\ ImageText(<<7, 6>>, 16, 5) \in ImageParts
    BY WordsAreText, ImageTextIsPart
  <2> QED
    BY <1>0, <2>1
<1>8. h \in Seq(ImageParts)
  <2>1. ImageText(<<3, 8, 9>>, 16, 5) \in ImageParts
    BY WordsAreText, ImageTextIsPart
  <2> QED
    BY <2>1, PieceMayMiss
<1>9. k \in Seq(ImageParts) /\ Len(k) = 3
  <2>1. ImageText(<<8, 12>>, 14, 4) \in ImageParts /\ ImageText(<<5, 5, 7, 3>>, 13, 0) \in ImageParts
    BY WordsAreText, ImageTextIsPart
  <2> QED
    BY <1>0, <2>1
<1>10. ImageBlocks(t) = a \o rest
  BY DEF ImageBlocks
<1> HIDE DEF b, c, d, e, f, g, h, k
<1>11. b \o c \o d \o e \in Seq(ImageParts)
  BY <1>2, <1>3, <1>4, <1>5, PiecesJoin
<1>12. b \o c \o d \o e \o f \o g \o h \in Seq(ImageParts)
  BY <1>11, <1>6, <1>7, <1>8, PiecesJoin
<1>13. rest \in Seq(ImageParts) /\ Len(rest) \in Nat \ {0}
  <2> DEFINE p == b \o c \o d \o e \o f \o g \o h
  <2>1. p \in Seq(ImageParts)
    BY <1>12
  <2>2. rest = p \o k
    OBVIOUS
  <2> HIDE DEF p, rest
  <2> QED
    BY <1>9, <2>1, <2>2
<1> HIDE DEF rest, a
<1>14. CASE t.logo
  <2>1. a = <<Simple("logo")>>
    BY <1>14 DEF a, If
  <2> DEFINE x == Simple("logo")
  <2> HIDE DEF x
  <2>2. a = <<x>>
    BY <2>1 DEF x
  <2>3. Len(<<x>> \o rest) = Len(rest) + 1 /\ (<<x>> \o rest)[1] = x
        /\ \A i \in 2..Len(rest) + 1 : (<<x>> \o rest)[i] = rest[i - 1]
    BY <1>13
  <2>4. \A i \in 2..Len(rest) + 1 : i - 1 \in 1..Len(rest)
    BY <1>13
  <2>5. \A i \in 1..Len(rest) : rest[i] \in ImageParts
    <3> HIDE DEF ImageParts
    <3> QED
      BY <1>13
  <2>6. \A i \in 1..Len(rest) + 1 : i = 1 \/ i \in 2..Len(rest) + 1
    BY <1>13
  <2> DEFINE bs == ImageBlocks(t)
  <2>7. bs = <<x>> \o rest
    BY <1>10, <2>2
  <2> HIDE DEF bs
  <2>8. Len(bs) \in Nat \ {0}
    BY <1>13, <2>3, <2>7
  <2>9. ASSUME NEW i \in 1..Len(bs) PROVE bs[i] \in ImageParts \/ (i = 1 /\ bs[i] = x)
    <3>1. CASE i = 1
      BY <2>3, <2>7, <3>1
    <3>2. CASE i # 1
      <4>1. i \in 2..Len(rest) + 1
        BY <2>3, <2>6, <2>7, <3>2
      <4> QED
        BY <2>3, <2>4, <2>5, <2>7, <4>1
    <3> QED
      BY <3>1, <3>2
  <2> QED
    BY <2>8, <2>9 DEF x, bs
<1>15. CASE ~ t.logo
  <2>1. a = <<>>
    BY <1>15 DEF a, If
  <2>2. ImageBlocks(t) = rest
    BY <1>10, <1>13, <2>1
  <2>3. \A i \in 1..Len(rest) : rest[i] \in ImageParts
    <3> HIDE DEF ImageParts
    <3> QED
      BY <1>13
  <2> QED
    BY <1>13, <2>2, <2>3
<1> QED
  BY <1>14, <1>15

\* No part reaches higher than the largest letters over its baseline, and each leaves room for them under it.
LEMMA PartStands ==
    ASSUME NEW b \in ImageParts, NEW z \in Int
    PROVE  /\ Ink(b, z).top \in Int /\ Ink(b, z).bottom \in Int /\ After(b, z) \in Int
           /\ Ink(b, z).top >= z - 1728 /\ Ink(b, z).bottom + 1728 <= After(b, z)
<1>1. CASE b \in [kind : {"text"}, lines : Nat \ {0}, size : 13..24, gap : Nat]
  <2>1. b.kind = "text" /\ b.lines \in Nat \ {0} /\ b.size \in 13..24 /\ b.gap \in Nat
    BY <1>1
  <2> DEFINE n == b.lines
             P == b.size * 145 + 500
             m == (n - 1) * P
  <2>2. P \in Nat /\ P >= 22 * b.size + 1728
    BY <2>1
  <2>3. m \in Int /\ n * P = m + P
    <3>1. n \in Int
      BY <2>1
    <3> HIDE DEF n, P
    <3> QED
      BY <2>2, <3>1
  <2>4. Ink(b, z).top = z - 72 * b.size /\ Ink(b, z).bottom = z + m + 22 * b.size
    BY <2>1 DEF Ink, Baselines, Pitch
  <2>5. After(b, z) = z + n * P + b.gap * 100
    BY <2>1 DEF After, Pitch
  <2> HIDE DEF n, P, m
  <2>6. b.size \in Int /\ b.gap \in Int /\ b.gap >= 0 /\ b.size <= 24 /\ b.size >= 13
    BY <2>1
  <2> QED
    BY <2>2, <2>3, <2>4, <2>5, <2>6
<1>2. CASE b \in RowBlocks
  <2>1. b.kind = "row" /\ b.row.number \in Text
    BY <1>2 DEF RowBlocks
  <2>2. NumberLines(b) \in Nat \ {0}
    BY <2>1, SomeLines DEF NumberLines
  <2> DEFINE n == NumberLines(b)
             more == b.row.extra # <<>>
             lines == Baselines(b, z)
  <2>3. After(b, z) = z + 2800 + (n - 1) * 2200 + (IF more THEN 2100 ELSE 0)
    BY <2>1 DEF After
  <2>4. lines = IF more THEN [first |-> z, last |-> z + 2800 + (n - 1) * 2200, size |-> 16, end |-> 12]
                ELSE [first |-> z, last |-> IF n = 1 THEN z ELSE z + 2800 + (n - 2) * 2200, size |-> 16, end |-> 16]
    BY <2>1 DEF Baselines
  <2>5. Ink(b, z) = [top |-> lines.first - 72 * lines.size, bottom |-> lines.last + 22 * lines.end]
    BY <2>1 DEF Ink
  <2> HIDE DEF n, more, lines
  <2>6. Ink(b, z).top = lines.first - 72 * lines.size /\ Ink(b, z).bottom = lines.last + 22 * lines.end
    BY <2>5
  <2>7. n \in Nat \ {0}
    BY <2>2 DEF n
  <2>8. CASE more
    BY <2>3, <2>4, <2>6, <2>7, <2>8
  <2>9. CASE ~ more
    BY <2>3, <2>4, <2>6, <2>7, <2>9
  <2> QED
    BY <2>8, <2>9
<1>3. CASE b \in [kind : {"rule"}, gap : 18..28]
  <2>1. b.kind = "rule" /\ b.gap \in 18..28
    BY <1>3
  <2> QED
    BY <2>1 DEF Ink, After
<1>4. CASE b \in [kind : {"heading", "qr"}]
  <2>1. b.kind \in {"heading", "qr"}
    BY <1>4
  <2> QED
    BY <2>1 DEF Ink, After, Baselines
<1> QED
  BY <1>1, <1>2, <1>3, <1>4 DEF ImageParts

\* A part of the image begins under the one before it, and leaves room under it.
LEMMA DrawImageBlockKeepsImage ==
    ImageInvariant /\ DrawImageBlock => ImageInvariant'
<1>0. SUFFICES ASSUME ImageInvariant, DrawImageBlock PROVE ImageInvariant'
  OBVIOUS
<1> DEFINE t == doc.input
           n == at.row
           N == Len(ImageBlocks(t))
           b == ImageBlocks(t)[n + 1]
           page == pages[1]
           item == [kind |-> b.kind, top |-> Ink(b, y).top, bottom |-> Ink(b, y).bottom]
           q == Append(page, item)
<1>1. /\ t \in Receipts /\ n \in 0..N /\ at \in [table : {0}, row : Nat] /\ y \in Int
      /\ pages \in Seq(Seq(Drawings)) /\ Len(pages) = 1 /\ page \in Seq(Drawings) /\ Len(page) = n
      /\ n > 0 => page[n].bottom + 1728 <= y
      /\ \A i \in 2..n : page[i].top >= page[i - 1].bottom
  BY <1>0 DEF ImageInvariant, DrawImageBlock
<1>2. /\ n < N /\ y' = After(b, y) /\ at' = [at EXCEPT !.row = n + 1] /\ doc' = doc
      /\ pages' = [pages EXCEPT ![1] = Append(@, item)]
  BY <1>0 DEF DrawImageBlock
<1>3. N \in Nat /\ (b \in ImageParts \/ (n = 0 /\ b = Simple("logo")))
  <2>1. N \in Nat /\ \A i \in 1..N : ImageBlocks(t)[i] \in ImageParts \/ (i = 1 /\ ImageBlocks(t)[i] = Simple("logo"))
    BY <1>1, ImageBlocksAreParts
  <2>2. n + 1 \in 1..N /\ (n + 1 = 1 => n = 0)
    BY <1>1, <1>2, <2>1
  <2> QED
    BY <2>1, <2>2
<1> HIDE DEF b, N
<1>4. /\ item.top \in Int /\ item.bottom \in Int /\ y' \in Int
      /\ item.bottom + 1728 <= y' /\ (n > 0 => item.top >= y - 1728)
  <2>1. CASE b \in ImageParts
    BY <1>1, <1>2, <2>1, PartStands
  <2>2. CASE n = 0 /\ b = Simple("logo")
    <3>1. b.kind = "logo"
      BY <2>2 DEF Simple
    <3> QED
      BY <1>2, <2>2, <3>1 DEF Ink, After
  <2> QED
    BY <1>3, <2>1, <2>2
<1>5. b.kind \in {"text", "row", "rule", "heading", "logo", "qr"}
  BY <1>3 DEF ImageParts, RowBlocks, Simple
<1>6. item \in Drawings
  BY <1>4, <1>5 DEF Drawings
<1> HIDE DEF item
<1>7. pages' \in Seq(Seq(Drawings)) /\ Len(pages') = 1 /\ pages'[1] = q
  BY <1>1, <1>2, <1>6, OnlyPage
<1>8. q \in Seq(Drawings) /\ Len(q) = n + 1 /\ q[n + 1] = item /\ \A i \in 1..n : q[i] = page[i]
  BY <1>1, <1>6
<1> HIDE DEF q
<1>9. \A i \in 2..n + 1 : q[i].top >= q[i - 1].bottom
  <2> TAKE i \in 2..n + 1
  <2>1. CASE i = n + 1
    <3>1. n > 0 /\ n \in 1..n /\ n \in Nat /\ i - 1 = n
      BY <1>1, <2>1
    <3>2. q[n] = page[n] /\ q[i] = item
      BY <1>8, <2>1, <3>1
    <3>3. page[n].bottom \in Int
      <4>1. page[n] \in Drawings
        <5> HIDE DEF Drawings
        <5> QED
          BY <1>1, <3>1
      <4> QED
        BY <4>1 DEF Drawings
    <3> QED
      BY <1>1, <1>4, <3>1, <3>2, <3>3, SMTT(30)
  <2>2. CASE i # n + 1
    <3>1. i \in 2..n /\ i \in 1..n /\ i - 1 \in 1..n
      BY <1>1, <2>2
    <3>2. q[i] = page[i] /\ q[i - 1] = page[i - 1]
      BY <1>8, <3>1
    <3> QED
      BY <1>1, <3>1, <3>2
  <2> QED
    BY <2>1, <2>2
<1>10. at' \in [table : {0}, row : Nat] /\ at'.row = n + 1 /\ n + 1 \in 0..N /\ n + 1 > 0
  BY <1>1, <1>2, <1>3, SMTT(30)
<1>11. pages'[1][at'.row].bottom + 1728 <= y'
  BY <1>4, <1>7, <1>8, <1>10
<1>12. \A i \in 2..Len(pages'[1]) : pages'[1][i].top >= pages'[1][i - 1].bottom
  BY <1>7, <1>8, <1>9
<1>13. pages'[1] \in Seq(Drawings) /\ Len(pages'[1]) = at'.row
  BY <1>7, <1>8, <1>10
<1> HIDE DEF page
<1>14. doc'.input \in Receipts /\ at'.row \in 0..Len(ImageBlocks(doc'.input)) /\ y' \in Int /\ at'.row > 0
  BY <1>1, <1>2, <1>4, <1>10 DEF N
<1>15. at' \in [table : {0}, row : Nat]
  BY <1>10
<1>16. pages' \in Seq(Seq(Drawings)) /\ Len(pages') = 1
  BY <1>7
<1> HIDE DEF t, n
<1> QED
  BY <1>11, <1>12, <1>13, <1>14, <1>15, <1>16 DEF ImageInvariant


-----------------------------------------------------------------------------
\* Everything a document keeps to while it is drawn.
DocInvariant ==
    /\ doc \in [kind : {"report"}, input : Reports] \union [kind : {"receipt", "image"}, input : Receipts]
    /\ at \in [table : Nat, row : Nat] /\ y \in Int /\ done \in BOOLEAN
    /\ ReportInvariant /\ ReceiptInvariant /\ ImageInvariant

\* An empty document.
LEMMA DocInvariantInit ==
    DocInit => DocInvariant
<1> SUFFICES ASSUME DocInit PROVE DocInvariant
  OBVIOUS
<1>1. pages = <<<<>>>> /\ done = FALSE
  BY DEF DocInit
<1>2. CASE doc \in [kind : {"report"}, input : Reports] /\ y = FirstTop /\ at = [table |-> 1, row |-> 0]
  <2>1. doc.kind = "report" /\ doc.input \in Reports /\ y \in Int
    BY <1>2 DEF FirstTop
  <2>2. GoodPages(doc.input, <<<<>>>>)
    <3>1. GoodPage(doc.input, <<>>)
      BY EmptyPage
    <3>2. \A s \in Seq(ReportItem) : <<s>> \in Seq(Seq(ReportItem)) /\ <<s>> # <<>> /\ DOMAIN <<s>> = {1} /\ <<s>>[1] = s
      <4> HIDE DEF ReportItem
      <4> QED
        OBVIOUS
    <3>3. <<>> \in Seq(ReportItem)
      OBVIOUS
    <3> QED
      BY <3>1, <3>2, <3>3 DEF GoodPages
  <2>3. at \in [table : Nat \ {0}, row : Nat] /\ at.row = 0 /\ at \in [table : Nat, row : Nat]
    BY <1>2
  <2>4. ReportInvariant
    BY <1>1, <2>1, <2>2, <2>3 DEF ReportInvariant, ReportOK
  <2> QED
    BY <1>1, <1>2, <2>1, <2>3, <2>4 DEF DocInvariant, ReceiptInvariant, ImageInvariant
<1>3. CASE doc \in [kind : {"receipt"}, input : Receipts] /\ y = 6000 /\ at = [table |-> 0, row |-> 0]
  <2>1. doc.kind = "receipt" /\ doc.input \in Receipts
    BY <1>3
  <2>2. Len(Blocks(doc.input)) \in Nat /\ SumTo(Measures(doc.input), 0) = 0
    BY <2>1, MeasuresAdd
  <2>3. Len(pages) = 1 /\ pages[1] \in Seq(Drawings)
    BY <1>1
  <2>4. at \in [table : {0}, row : Nat] /\ at.row = 0 /\ at \in [table : Nat, row : Nat] /\ y \in Int
    BY <1>3
  <2>5. ReceiptInvariant
    BY <1>1, <1>3, <2>1, <2>2, <2>3, <2>4 DEF ReceiptInvariant
  <2> QED
    BY <1>1, <1>3, <2>1, <2>4, <2>5, ZenonT(60) DEF DocInvariant, ReportInvariant, ImageInvariant
<1>4. CASE doc \in [kind : {"image"}, input : Receipts] /\ y = 4000 /\ at = [table |-> 0, row |-> 0]
  <2>1. doc.kind = "image" /\ doc.input \in Receipts
    BY <1>4
  <2>2. Len(ImageBlocks(doc.input)) \in Nat
    BY <2>1, ImageBlocksAreParts
  <2>3. Len(pages) = 1 /\ pages[1] \in Seq(Drawings) /\ Len(pages[1]) = 0
    BY <1>1
  <2>4. at \in [table : {0}, row : Nat] /\ at.row = 0 /\ at \in [table : Nat, row : Nat] /\ y \in Int
    BY <1>4
  <2>5. ImageInvariant
    BY <1>1, <1>4, <2>1, <2>2, <2>3, <2>4 DEF ImageInvariant
  <2> QED
    BY <1>1, <1>4, <2>1, <2>4, <2>5 DEF DocInvariant, ReportInvariant, ReceiptInvariant
<1> QED
  BY <1>2, <1>3, <1>4 DEF DocInit

\* Each step draws one kind of document and leaves the others' claims empty.
LEMMA DocInvariantNext ==
    DocInvariant /\ [DocNext]_docVars => DocInvariant'
<1> SUFFICES ASSUME DocInvariant, [DocNext]_docVars PROVE DocInvariant'
  OBVIOUS
<1> DEFINE Kinds == [kind : {"report"}, input : Reports] \union [kind : {"receipt", "image"}, input : Receipts]
<1>1. /\ doc \in Kinds /\ at \in [table : Nat, row : Nat] /\ y \in Int /\ done \in BOOLEAN
      /\ ReportInvariant /\ ReceiptInvariant /\ ImageInvariant
  BY DEF DocInvariant
<1> HIDE DEF Kinds
<1>2. ASSUME StartTable \/ DrawRow PROVE DocInvariant'
  <2>1. doc.kind = "report" /\ doc' = doc /\ done' \in BOOLEAN
    BY <1>1, <1>2 DEF StartTable, DrawRow
  <2>2. ReportInvariant'
    BY <1>1, <1>2, StartTableKeepsReport, DrawRowKeepsReport
  <2>3. at' \in [table : Nat \ {0}, row : Nat] /\ y' \in Int
    BY <2>1, <2>2 DEF ReportInvariant, ReportOK
  <2>4. at' \in [table : Nat, row : Nat]
    BY <2>3
  <2> QED
    BY <1>1, <2>1, <2>2, <2>3, <2>4 DEF DocInvariant, ReceiptInvariant, ImageInvariant, Kinds
<1>3. ASSUME FinishReport PROVE DocInvariant'
  <2>1. doc.kind = "report" /\ done' = TRUE /\ doc' = doc /\ at' = at /\ pages' = pages /\ y' = y
    BY <1>3 DEF FinishReport
  <2>2. ReportInvariant'
    BY <1>1, <2>1 DEF ReportInvariant
  <2> QED
    BY <1>1, <2>1, <2>2 DEF DocInvariant, ReceiptInvariant, ImageInvariant, Kinds
<1>4. ASSUME DrawBlock PROVE DocInvariant'
  <2>1. doc.kind = "receipt" /\ doc' = doc /\ done' \in BOOLEAN
    BY <1>4 DEF DrawBlock
  <2>2. ReceiptInvariant'
    BY <1>1, <1>4, DrawBlockKeepsReceipt
  <2>3. at' \in [table : {0}, row : Nat] /\ y' \in Int
    BY <2>1, <2>2 DEF ReceiptInvariant
  <2>4. at' \in [table : Nat, row : Nat]
    BY <2>3
  <2> QED
    BY <1>1, <2>1, <2>2, <2>3, <2>4 DEF DocInvariant, ReportInvariant, ImageInvariant, Kinds
<1>5. ASSUME DrawImageBlock PROVE DocInvariant'
  <2>1. doc.kind = "image" /\ doc' = doc /\ done' \in BOOLEAN
    BY <1>5 DEF DrawImageBlock
  <2>2. ImageInvariant'
    BY <1>1, <1>5, DrawImageBlockKeepsImage
  <2>3. at' \in [table : {0}, row : Nat] /\ y' \in Int
    BY <2>1, <2>2 DEF ImageInvariant
  <2>4. at' \in [table : Nat, row : Nat]
    BY <2>3
  <2> QED
    BY <1>1, <2>1, <2>2, <2>3, <2>4 DEF DocInvariant, ReportInvariant, ReceiptInvariant, Kinds
<1>6. ASSUME UNCHANGED docVars PROVE DocInvariant'
  <2>1. doc' = doc /\ at' = at /\ pages' = pages /\ y' = y /\ done' = done
    BY <1>6 DEF docVars
  <2>2. ReportInvariant' /\ ReceiptInvariant' /\ ImageInvariant'
    BY <1>1, <2>1 DEF ReportInvariant, ReceiptInvariant, ImageInvariant
  <2> QED
    BY <1>1, <2>1, <2>2 DEF DocInvariant, Kinds
<1> QED
  BY <1>2, <1>3, <1>4, <1>5, <1>6 DEF DocNext

\* A document is drawn as DocInvariant says, whatever it is made of: however many tables, rows, words and parts.
THEOREM DocumentsAreDrawnSo ==
    DocSpec => []DocInvariant
<1>1. DocInit => DocInvariant
  BY DocInvariantInit
<1>2. DocInvariant /\ [DocNext]_docVars => DocInvariant'
  BY DocInvariantNext
<1> QED
  BY <1>1, <1>2, PTL DEF DocSpec

\* The variables of a document keep their types.  (pdf-report.ts, receipt-export.ts)
THEOREM DocumentsTypesHold ==
    DocSpec => []DocTypeOK
<1>1. DocInvariant => DocTypeOK
  <2> SUFFICES ASSUME DocInvariant PROVE DocTypeOK
    OBVIOUS
  <2>1. /\ doc \in [kind : {"report"}, input : Reports] \union [kind : {"receipt", "image"}, input : Receipts]
        /\ at \in [table : Nat, row : Nat] /\ y \in Int /\ done \in BOOLEAN
    BY DEF DocInvariant
  <2>2. doc.kind \in {"report", "receipt", "image"}
    BY <2>1
  <2>3. ASSUME NEW p \in DOMAIN pages, NEW i \in DOMAIN pages[p] PROVE pages[p][i].top \in Int /\ pages[p][i].bottom \in Int
    <3>1. CASE doc.kind = "report"
      <4>1. GoodPage(doc.input, pages[p])
        BY <3>1 DEF DocInvariant, ReportInvariant, ReportOK, GoodPages
      <4>2. pages[p] \in Seq(ReportItem)
        BY <4>1 DEF GoodPage
      <4>3. pages[p][i] \in ReportItem
        BY <4>2
      <4> QED
        BY <4>3 DEF ReportItem
    <3>2. CASE doc.kind # "report"
      <4>1. Len(pages) = 1 /\ pages \in Seq(Seq(Drawings)) /\ pages[1] \in Seq(Drawings)
        BY <2>2, <3>2 DEF DocInvariant, ReceiptInvariant, ImageInvariant
      <4>2. p = 1
        <5> HIDE DEF Drawings
        <5> QED
          BY <4>1
      <4>3. pages[p][i] \in Drawings
        BY <4>1, <4>2
      <4> QED
        BY <4>3 DEF Drawings
    <3> QED
      BY <3>1, <3>2
  <2> QED
    BY <2>1, <2>3, Zenon DEF DocTypeOK
<1> QED
  BY <1>1, DocumentsAreDrawnSo, PTL

\* On every page of every report no row runs into the footer or into what is above it, and every row stands under the
\* title and the header of its table.  (pdf-report.ts: table)
THEOREM RowsAreReadable ==
    DocSpec => []RowsReadUnderTheirHeader
<1>1. DocInvariant => RowsReadUnderTheirHeader
  BY DEF DocInvariant, ReportInvariant, ReportOK, GoodPages, GoodPage, RowsReadUnderTheirHeader
<1> QED
  BY <1>1, DocumentsAreDrawnSo, PTL

\* A table of twelve rows or less is on one page, wherever it starts and however its cells wrap.  (pdf-report.ts: table)
THEOREM ShortTablesStayWhole ==
    DocSpec => []ShortTablesAreWhole
<1>1. DocInvariant => ShortTablesAreWhole
  <2> SUFFICES ASSUME DocInvariant, doc.kind = "report", NEW p \in DOMAIN pages PROVE Whole(pages[p])
    BY DEF ShortTablesAreWhole
  <2>1. WholeIn(doc.input, pages[p])
    BY DEF DocInvariant, ReportInvariant, ReportOK, GoodPages, GoodPage
  <2> QED
    BY <2>1 DEF WholeIn, Whole
<1> QED
  BY <1>1, DocumentsAreDrawnSo, PTL

\* What is drawn on a receipt and its lower margin fit the page measured for it, and on its image nothing is printed
\* over what stands above it nor below the edge.  (receipt-export.ts: pdfBlocks, makeTicketPdf, ticketSvg)
THEOREM ReceiptsFit ==
    DocSpec => []ReceiptFits
<1>1. DocInvariant => ReceiptFits
  <2> SUFFICES ASSUME DocInvariant PROVE ReceiptFits
    OBVIOUS
  <2>1. ASSUME doc.kind = "receipt" PROVE y + 5000 <= ReceiptHeight(doc.input)
    <3> DEFINE m == Measures(doc.input)
    <3>1. /\ doc.input \in Receipts /\ at.row \in 0..Len(Blocks(doc.input)) /\ y \in Int
          /\ y <= 6000 + SumTo(m, at.row)
      BY <2>1 DEF DocInvariant, ReceiptInvariant
    <3>2. SumTo(m, at.row) \in Nat /\ SumTo(m, at.row) <= Total(m)
      BY <3>1, MeasuresAdd
    <3>3. Total(m) \in Nat
      <4>1. Len(m) = Len(Blocks(doc.input)) /\ Len(m) \in Nat
        BY <3>1, MeasuresAdd
      <4>2. Len(m) \in 0..Len(Blocks(doc.input))
        BY <4>1
      <4> QED
        BY <3>1, <4>2, MeasuresAdd DEF Total
    <3> HIDE DEF m
    <3>4. ReceiptHeight(doc.input) = Largest(65000, UpToMillimetre(6000 + Total(m) + 5000))
      BY DEF ReceiptHeight, Measures, m
    <3> QED
      BY <3>1, <3>2, <3>3, <3>4, SMTT(30) DEF Largest, UpToMillimetre
  <2>2. ASSUME doc.kind = "image", done PROVE pages[1][Len(pages[1])].bottom <= ImageHeight
    <3>1. /\ at.row > 0 /\ y \in Int /\ Len(pages[1]) = at.row /\ pages[1][at.row].bottom + 1728 <= y
          /\ pages[1] \in Seq(Drawings) /\ at.row \in Nat
      BY <2>2 DEF DocInvariant, ImageInvariant
    <3>2. pages[1][at.row] \in Drawings
      BY <3>1
    <3>3. pages[1][at.row].bottom \in Int
      BY <3>2 DEF Drawings
    <3> QED
      BY <3>1, <3>3, SMTT(30) DEF ImageHeight
  <2>3. ASSUME doc.kind = "image" PROVE \A i \in 2..Len(pages[1]) : pages[1][i].top >= pages[1][i - 1].bottom
    BY <2>3 DEF DocInvariant, ImageInvariant
  <2> QED
    BY <2>1, <2>2, <2>3 DEF ReceiptFits
<1> QED
  BY <1>1, DocumentsAreDrawnSo, PTL
=============================================================================
