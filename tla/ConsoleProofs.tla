---------------------------- MODULE ConsoleProofs -----------------------------
(***************************************************************************)
(* The tenant console for any users, menus, plans and filters, and any     *)
(* order of the answers.  ConsoleInv is inductive: a request for a list or *)
(* a report that is still under way is for what is chosen now, and a list  *)
(* or a report that waits for none shows it.                               *)
(***************************************************************************)
EXTENDS Console, TLAPS

\* The tickets' list: its requests are for the date chosen, and its rows too once it has them.
ListAgrees ==
  /\ \A q \in asked : q.kind = "dates" => q.of = list.chosen
  /\ ~list.busy => list.failed \/ list.rows = list.chosen

\* The report: its requests are for the period wanted, which is shown unless one of them is under way.
ReportAgrees ==
  /\ \A q \in asked : q.kind = "range" => q.of = report.wanted
  /\ report.applied /\ ~report.failed =>
        report.shown = report.wanted \/ \E q \in asked : q.kind = "range"

ConsoleInv == TypeOK /\ OnlyPermittedTabs /\ ListAgrees /\ ReportAgrees /\ BusyMeansRunning
-----------------------------------------------------------------------------
\* What Drop leaves of the requests under way: those of other kinds, and a late answer for a period's.
LEMMA DropLeaves ==
  ASSUME NEW as, NEW kinds
  PROVE  /\ \A q \in Drop(as, kinds) : (q \in as /\ q.kind \notin kinds) \/ q = Late
         /\ \A q \in as : q.kind \notin kinds => q \in Drop(as, kinds)
         /\ (\E q \in as : q.kind \in RunKinds) /\ kinds \subseteq ListKinds =>
                \E q \in Drop(as, kinds) : q.kind \in RunKinds
<1>1. \A q \in Drop(as, kinds) : (q \in as /\ q.kind \notin kinds) \/ q = Late
  BY DEF Drop
<1>2. \A q \in as : q.kind \notin kinds => q \in Drop(as, kinds)
  BY DEF Drop
<1>3. ASSUME NEW q \in as, q.kind \in RunKinds, kinds \subseteq ListKinds
      PROVE  \E x \in Drop(as, kinds) : x.kind \in RunKinds
  <2>1. CASE q.kind \notin kinds
    BY <1>2, <1>3, <2>1
  <2>2. CASE q.kind \in kinds
    <3>1. q.kind = "range"
      BY <1>3, <2>2 DEF ListKinds, RunKinds
    <3>2. Late \in Drop(as, kinds)
      BY <2>2, <3>1 DEF Drop
    <3> QED
      BY <3>2 DEF Late, RunKinds
  <2> QED
    BY <2>1, <2>2
<1> QED
  BY <1>1, <1>2, <1>3

\* The tab taken from an address is one that may be opened.
LEMMA AddressGivesATab ==
  ASSUME TypeOK, NEW u, NEW features, NEW search
  PROVE  TabFromSearch(search, AvailableTabs(u, features)) \in AvailableTabs(u, features)
<1>1. "dashboard" \in AvailableTabs(u, features)
  BY ConsoleAssumption DEF TypeOK, AvailableTabs, Nav
<1> QED
  BY <1>1 DEF TabFromSearch

\* No step leaves a user at a tab he may not open, but for the dashboard's button to the reports.
LEMMA TabKept ==
  ASSUME TypeOK, OnlyPermittedTabs, [Next]_vars
  PROVE  OnlyPermittedTabs'
<1>1. tabs' = tabs
  BY DEF Next, vars, Login, Logout, TokenRenewed, Reload, SilentRefresh, DeleteTicket, InvalidRange, WorldChanges,
     NavigateTab, PopState, SubmitForm, ChooseDate, LoadRange, Answered, AnswerLost, SessionLost, LoginAnswered,
     FeaturesAnswered, LoadAnswered, FormAnswered, DatesAnswered, RangeAnswered, LateAnswered
<1>2. \A u, f : AvailableTabs(u, f)' = AvailableTabs(u, f)
  BY <1>1 DEF AvailableTabs
<1>3. CASE UNCHANGED <<tab, user, known, address>>
  BY <1>2, <1>3 DEF OnlyPermittedTabs
<1>4. CASE user' = NoUser
  BY <1>4 DEF OnlyPermittedTabs
<1>5. \A u, f, s : TabFromSearch(s, AvailableTabs(u, f)) \in AvailableTabs(u, f)
  BY AddressGivesATab
<1>6. ASSUME NEW q \in asked, Answered(q) PROVE OnlyPermittedTabs'
  <2>1. CASE LoginAnswered(q)
    <3>1. tab' = TabFromSearch(address, AvailableTabs(q.of, known)) /\ user' = q.of /\ known' = known
      BY <2>1 DEF LoginAnswered, Opened
    <3> QED
      BY <1>2, <1>5, <3>1 DEF OnlyPermittedTabs
  <2>2. CASE FeaturesAnswered(q) /\ user # NoUser
    <3>1. tab' = TabFromSearch(address, AvailableTabs(user, known')) /\ user' = user
      BY <2>2 DEF FeaturesAnswered, ShowTab
    <3> QED
      BY <1>2, <1>5, <3>1 DEF OnlyPermittedTabs
  <2>3. CASE FeaturesAnswered(q) /\ user = NoUser
    BY <1>4, <2>3 DEF FeaturesAnswered
  <2>4. CASE LoadAnswered(q) \/ FormAnswered(q) \/ DatesAnswered(q) \/ RangeAnswered(q) \/ LateAnswered(q)
    BY <1>3, <2>4 DEF LoadAnswered, FormAnswered, DatesAnswered, RangeAnswered, LateAnswered
  <2> QED
    BY <1>6, <2>1, <2>2, <2>3, <2>4 DEF Answered
<1>7. CASE TokenRenewed
  <2>1. tab' = TabFromSearch(address, AvailableTabs(user, known)) /\ user' = user /\ known' = known
    BY <1>7 DEF TokenRenewed, Opened
  <2> QED
    BY <1>2, <1>5, <2>1 DEF OnlyPermittedTabs
<1>8. ASSUME NEW t \in tabs, NavigateTab(t) PROVE OnlyPermittedTabs'
  <2>1. tab' = t /\ address' = t /\ user' = user /\ known' = known
    BY <1>8 DEF NavigateTab, ShowTab
  <2>2. t \in AvailableTabs(user, known) \/ t = "reports"
    BY <1>8 DEF NavigateTab
  <2> QED
    BY <1>2, <2>1, <2>2 DEF OnlyPermittedTabs
<1>9. ASSUME NEW t \in tabs, PopState(t) PROVE OnlyPermittedTabs'
  <2>1. CASE user = NoUser
    BY <1>4, <1>9, <2>1 DEF PopState
  <2>2. CASE user # NoUser
    <3>1. tab' = TabFromSearch(t, AvailableTabs(user, known)) /\ user' = user /\ known' = known
      BY <1>9, <2>2 DEF PopState, ShowTab
    <3> QED
      BY <1>2, <1>5, <3>1 DEF OnlyPermittedTabs
  <2> QED
    BY <2>1, <2>2
<1>10. CASE Logout \/ \E q \in asked : SessionLost(q)
  BY <1>4, <1>10 DEF Logout, SessionLost, LoggedOut
<1>11. CASE \/ \E u \in Users : Login(u)
            \/ Reload \/ SilentRefresh \/ DeleteTicket \/ InvalidRange \/ WorldChanges \/ UNCHANGED vars
            \/ \E f \in Forms(tab) : SubmitForm(f)
            \/ \E f \in Filters : ChooseDate(f) \/ LoadRange(f)
            \/ \E q \in asked : AnswerLost(q)
  BY <1>3, <1>11 DEF Login, Reload, SilentRefresh, DeleteTicket, InvalidRange, WorldChanges, SubmitForm, ChooseDate,
     LoadRange, AnswerLost, vars
<1> QED
  BY <1>6, <1>7, <1>8, <1>9, <1>10, <1>11 DEF Next

\* What the lists, the report and the buttons that wait show, together.
Agree == ListAgrees /\ ReportAgrees /\ BusyMeansRunning

LEMMA NoneDropped ==
  ASSUME NEW as, NEW kinds, kinds \subseteq ListKinds
  PROVE  \A q \in Drop(as, kinds) : q.kind \notin kinds /\ (q.kind \in ListKinds => q \in as)
<1>1. Late.kind \notin ListKinds
  BY DEF Late, ListKinds
<1> QED
  BY <1>1, DropLeaves

\* The component of a tab that is mounted asks for the first date of its list.
LEMMA MountedAsks ==
  ASSUME NEW u, NEW t
  PROVE  /\ \A q \in Mounted(u, t) : q.kind \in {"load", "dates"} /\ (q.kind = "dates" => q.of = Default)
         /\ \E q \in Mounted(u, t) : q.kind \in RunKinds
<1>1. \A v, s : Load(v, s, FALSE).kind = "load"
  BY DEF Load
<1>2. \A v, f : Dates(v, f).kind = "dates" /\ Dates(v, f).of = f
  BY DEF Dates, ForFilter
<1>3. Load(u, t, FALSE) \in Mounted(u, t)
  BY DEF Mounted
<1>4. ASSUME NEW q \in Mounted(u, t)
      PROVE  q.kind \in {"load", "dates"} /\ (q.kind = "dates" => q.of = Default)
  <2>1. q = Load(u, t, FALSE) \/ q = Dates(u, Default)
    BY DEF Mounted
  <2> QED
    BY <1>1, <1>2, <2>1, ZenonT(60)
<1>5. "load" \in RunKinds
  BY DEF RunKinds
<1> QED
  BY <1>1, <1>3, <1>4, <1>5

LEMMA ShowTabAgrees ==
  ASSUME Agree, NEW u, NEW t, NEW as, as \subseteq asked, \A q \in asked \ as : q.kind = "features", ShowTab(u, t, as)
  PROVE  Agree'
<1>1. CASE t = tab
  <2>1. asked' = as /\ busy' = busy /\ list' = list /\ report' = report
    BY <1>1 DEF ShowTab
  <2>2. \A q \in asked : q.kind # "features" => q \in as
    OBVIOUS
  <2> QED
    BY <2>1, <2>2 DEF Agree, ListAgrees, ReportAgrees, BusyMeansRunning, Running, RunKinds
<1>2. CASE t # tab
  <2>1. /\ asked' = Drop(as, ListKinds) \cup Mounted(u, t)
        /\ list' = NewList /\ report' = NewReport
    BY <1>2 DEF ShowTab, Send
  <2>2. \A q \in asked' : q.kind # "range" /\ (q.kind = "dates" => q.of = Default)
    <3>1. \A q \in Drop(as, ListKinds) : q.kind \notin ListKinds
      BY NoneDropped
    <3> QED
      BY <2>1, <3>1, MountedAsks DEF ListKinds
  <2>3. \E q \in asked' : q.kind \in RunKinds
    BY <2>1, MountedAsks
  <2>4. list'.chosen = Default /\ list'.busy = TRUE /\ report'.applied = FALSE
    BY <2>1 DEF NewList, NewReport
  <2> QED
    BY <2>2, <2>3, <2>4 DEF Agree, ListAgrees, ReportAgrees, BusyMeansRunning, Running
<1> QED
  BY <1>1, <1>2

LEMMA OpenedAgrees ==
  ASSUME Agree, TypeOK, NEW u, NEW as, as \subseteq asked, \A q \in asked \ as : q.kind = "login", Opened(u, as)
  PROVE  Agree'
<1> DEFINE t == TabFromSearch(address, AvailableTabs(u, known))
           own == IF t # tab THEN Mounted(u, t)
                  ELSE IF t = "tickets" THEN {Dates(u, list.chosen)} ELSE {}
           qs == {FeaturesOf(u), Load(u, tab, FALSE)} \cup own
           kept == Drop(as, IF t = tab THEN {"dates"} ELSE ListKinds)
<1>1. /\ asked' = kept \cup qs /\ busy' = TRUE
      /\ list' = IF t = tab THEN [list EXCEPT !.busy = TRUE, !.failed = FALSE] ELSE NewList
      /\ report' = IF t = tab THEN report ELSE NewReport
  BY DEF Opened, Send
<1>2. /\ FeaturesOf(u).kind = "features" /\ Load(u, tab, FALSE).kind = "load"
      /\ \A f : Dates(u, f).kind = "dates" /\ Dates(u, f).of = f
  BY DEF FeaturesOf, Load, Dates, ForFilter
<1>3. BusyMeansRunning'
  BY <1>1, <1>2 DEF BusyMeansRunning, Running, RunKinds
<1>4. CASE t = tab
  <2>1. /\ list'.chosen = list.chosen /\ list'.busy = TRUE /\ report' = report
    BY <1>1, <1>4 DEF TypeOK
  <2>0. /\ asked' = Drop(as, {"dates"}) \cup qs
        /\ \A q \in Drop(as, {"dates"}) : q.kind # "dates" /\ (q.kind = "range" => q \in as)
    BY <1>1, <1>4, NoneDropped DEF ListKinds
  <2>2. \A q \in asked' : q.kind = "dates" => q.of = list.chosen
    BY <1>2, <1>4, <2>0
  <2>3. ASSUME NEW q \in asked', q.kind = "range" PROVE q \in asked
    BY <1>2, <1>4, <2>0, <2>3
  <2>4. ASSUME NEW q \in asked, q.kind = "range" PROVE q \in asked'
    BY <1>1, <1>4, <2>4, DropLeaves
  <2>5. ListAgrees'
    BY <2>1, <2>2 DEF ListAgrees
  <2>6. ReportAgrees'
    BY <2>1, <2>3, <2>4 DEF Agree, ReportAgrees
  <2> QED
    BY <1>3, <2>5, <2>6 DEF Agree
<1>5. CASE t # tab
  <2>1. list' = NewList /\ report' = NewReport
    BY <1>1, <1>5
  <2>2. \A q \in asked' : q.kind # "range" /\ (q.kind = "dates" => q.of = Default)
    <3>1. \A q \in Drop(as, ListKinds) : q.kind \notin ListKinds
      BY NoneDropped
    <3>2. asked' = Drop(as, ListKinds) \cup ({FeaturesOf(u), Load(u, tab, FALSE)} \cup Mounted(u, t))
      BY <1>1, <1>5
    <3> QED
      BY <1>2, <3>1, <3>2, MountedAsks DEF ListKinds
  <2>3. list'.chosen = Default /\ list'.busy = TRUE /\ report'.applied = FALSE
    BY <2>1 DEF NewList, NewReport
  <2> QED
    BY <1>3, <2>2, <2>3 DEF Agree, ListAgrees, ReportAgrees
<1> QED
  BY <1>4, <1>5

\* Signed out, nothing is asked for a list or a report.
LEMMA LoggedOutAgrees ==
  ASSUME Agree, NEW as, as \subseteq asked, LoggedOut(as),
         busy' => \E q \in as : q.kind \in RunKinds
  PROVE  Agree'
<1>1. asked' = Drop(as, ListKinds) /\ list' = NewList /\ report' = NewReport
  BY DEF LoggedOut
<1>2. \A q \in asked' : q.kind \notin ListKinds
  BY <1>1, NoneDropped
<1>3. list'.busy = TRUE /\ report'.applied = FALSE
  BY <1>1 DEF NewList, NewReport
<1>4. BusyMeansRunning'
  BY <1>1, DropLeaves DEF BusyMeansRunning, Running
<1> QED
  BY <1>2, <1>3, <1>4 DEF Agree, ListAgrees, ReportAgrees, ListKinds

\* A request of another kind is sent.
LEMMA SendAgrees ==
  ASSUME Agree, NEW q, q.kind \notin ListKinds, Send(asked, {q}), busy' = busy \/ q.kind \in RunKinds,
         UNCHANGED <<list, report>>
  PROVE  Agree'
BY DEF Agree, Send, ListKinds, ListAgrees, ReportAgrees, BusyMeansRunning, Running

\* An answer of another kind is taken.
LEMMA TakeAgrees ==
  ASSUME Agree, NEW q \in asked, q.kind \notin ListKinds, asked' = Rest(q), BusyAfter(q), UNCHANGED <<list, report>>
  PROVE  Agree'
BY DEF Agree, Rest, BusyAfter, ListKinds, ListAgrees, ReportAgrees, BusyMeansRunning, Running

\* The answers, in any order, and the requests of a date or a period.
LEMMA AnswerAgrees ==
  ASSUME TypeOK, Agree, NEW q \in asked, Answered(q)
  PROVE  Agree'
<1>1. CASE LoginAnswered(q)
  BY <1>1, OpenedAgrees DEF LoginAnswered, Rest
<1>2. CASE FeaturesAnswered(q)
  <2>1. CASE user = NoUser
    BY <1>2, <2>1, TakeAgrees DEF FeaturesAnswered, ListKinds, BusyAfter, RunKinds, Agree, BusyMeansRunning, TypeOK
  <2>2. CASE user # NoUser
    <3>1. ShowTab(user, TabFromSearch(address, AvailableTabs(user, known')), Rest(q))
      BY <1>2, <2>2 DEF FeaturesAnswered
    <3>2. Rest(q) \subseteq asked /\ \A x \in asked \ Rest(q) : x.kind = "features"
      BY <1>2 DEF FeaturesAnswered, Rest
    <3> QED
      BY <3>1, <3>2, ShowTabAgrees
  <2> QED
    BY <2>1, <2>2
<1>3. CASE LoadAnswered(q)
  <2> DEFINE again == q.of = "tickets" /\ tab = "tickets" /\ user # NoUser
             new == IF again THEN {Dates(user, list.chosen)} ELSE {}
             kinds == IF again THEN {"dates"} ELSE {}
  <2>1. q.kind \in {"load", "refresh"} /\ BusyAfter(q)
    BY <1>3 DEF LoadAnswered
  <2>2. CASE q.answer = Refused
    <3>1. asked' = Rest(q) /\ list' = list /\ report' = report
      BY <1>3, <2>2 DEF LoadAnswered
    <3> QED
      BY <2>1, <3>1, TakeAgrees DEF ListKinds
  <2>3. CASE q.answer # Refused
    <3>1. /\ asked' = Drop(Rest(q), kinds) \cup new
          /\ list' = IF again THEN [list EXCEPT !.busy = TRUE, !.failed = FALSE] ELSE list
          /\ report' = IF q.of = "reports" /\ ~report.applied THEN [report EXCEPT !.shown = Default] ELSE report
      BY <1>3, <2>3 DEF LoadAnswered, Send
    <3>2. kinds \subseteq ListKinds /\ "range" \notin kinds
      BY DEF ListKinds
    <3>3. \A x \in new : x.kind = "dates" /\ x.of = list.chosen
      BY DEF Dates, ForFilter
    <3>4. \A x \in Drop(Rest(q), kinds) : x.kind \notin kinds /\ (x.kind \in ListKinds => x \in asked)
      BY <3>2, NoneDropped DEF Rest
    <3>5. \A x \in asked : x.kind \notin kinds /\ x # q => x \in asked'
      BY <3>1, DropLeaves DEF Rest
    <3>6. ListAgrees'
      <4>1. \A x \in asked' : x.kind = "dates" => x.of = list.chosen
        BY <3>1, <3>3, <3>4 DEF Agree, ListAgrees, ListKinds
      <4>2. CASE again
        <5>1. list'.chosen = list.chosen /\ list'.busy = TRUE
          BY <3>1, <4>2 DEF TypeOK
        <5> QED
          BY <4>1, <5>1 DEF ListAgrees
      <4>3. CASE ~again
        <5>1. list' = list
          BY <3>1, <4>3
        <5> QED
          BY <4>1, <5>1 DEF Agree, ListAgrees
      <4> QED
        BY <4>2, <4>3
    <3>7. ReportAgrees'
      <4>1. \A x \in asked' : x.kind = "range" => x \in asked
        BY <3>1, <3>3, <3>4 DEF ListKinds
      <4>2. \A x \in asked : x.kind = "range" => x \in asked'
        BY <2>1, <3>2, <3>5
      <4>3. CASE q.of = "reports" /\ ~report.applied
        <5>1. report'.wanted = report.wanted /\ report'.applied = FALSE
          BY <3>1, <4>3 DEF TypeOK
        <5> QED
          BY <4>1, <5>1 DEF Agree, ReportAgrees
      <4>4. CASE ~(q.of = "reports" /\ ~report.applied)
        <5>1. report' = report
          BY <3>1, <4>4
        <5> QED
          BY <4>1, <4>2, <5>1 DEF Agree, ReportAgrees
      <4> QED
        BY <4>3, <4>4
    <3>8. BusyMeansRunning'
      <4>1. \A x \in asked : x.kind \in RunKinds /\ x # q => \E z \in asked' : z.kind \in RunKinds
        BY <3>2, <3>5 DEF RunKinds
      <4> QED
        BY <2>1, <4>1 DEF BusyAfter, Agree, BusyMeansRunning, Running
    <3> QED
      BY <3>6, <3>7, <3>8 DEF Agree
  <2> QED
    BY <2>2, <2>3
<1>4. CASE FormAnswered(q)
  <2> DEFINE l == Load(IF user = NoUser THEN q.by ELSE user, q.of, q.of = "tickets")
             X == IF q.answer = Refused THEN {} ELSE {l}
  <2>1. /\ asked' = Rest(q) \cup X /\ \A x \in X : x.kind \notin ListKinds
        /\ busy' => \E x \in X : x.kind \in RunKinds
    <3>1. l.kind = IF q.of = "tickets" THEN "refresh" ELSE "load"
      BY DEF Load
    <3>2. CASE q.answer = Refused
      BY <1>4, <3>2 DEF FormAnswered
    <3>3. CASE q.answer # Refused
      <4>1. asked' = Rest(q) \cup {l} /\ busy' = (q.of # "tickets")
        BY <1>4, <3>3 DEF FormAnswered, Send
      <4> HIDE DEF l
      <4> QED
        BY <3>1, <3>3, <4>1 DEF ListKinds, RunKinds
    <3> QED
      BY <3>2, <3>3
  <2> HIDE DEF X
  <2>2. q.kind = "form" /\ list' = list /\ report' = report
    BY <1>4 DEF FormAnswered
  <2> QED
    BY <2>1, <2>2 DEF Agree, ListAgrees, ReportAgrees, BusyMeansRunning, Running, Rest, ListKinds
<1>5. CASE DatesAnswered(q)
  <2>1. /\ q.kind = "dates" /\ asked' = Rest(q) /\ busy' = busy /\ report' = report
        /\ list' = IF q.answer = Refused THEN [list EXCEPT !.rows = None, !.busy = FALSE, !.failed = TRUE]
                   ELSE [list EXCEPT !.rows = q.of, !.busy = FALSE]
    BY <1>5 DEF DatesAnswered
  <2>2. list'.chosen = list.chosen /\ (list'.failed = TRUE \/ list'.rows = q.of)
    BY <2>1 DEF TypeOK
  <2>3. q.of = list.chosen
    BY <2>1 DEF Agree, ListAgrees
  <2>4. ListAgrees'
    BY <2>1, <2>2, <2>3 DEF Agree, ListAgrees, Rest
  <2>5. \A x \in asked : x.kind # "dates" => x \in asked'
    BY <2>1 DEF Rest
  <2> QED
    BY <2>1, <2>4, <2>5 DEF Agree, ReportAgrees, BusyMeansRunning, Running, Rest, RunKinds
<1>6. CASE RangeAnswered(q)
  <2>1. /\ q.kind = "range" /\ asked' = Rest(q) /\ busy' = FALSE /\ list' = list
        /\ report' = IF q.answer = Refused THEN [report EXCEPT !.failed = TRUE] ELSE [report EXCEPT !.shown = q.of]
    BY <1>6 DEF RangeAnswered
  <2>2. report'.wanted = report.wanted /\ (report'.failed = TRUE \/ report'.shown = q.of)
    BY <2>1 DEF TypeOK
  <2>3. q.of = report.wanted
    BY <2>1 DEF Agree, ReportAgrees
  <2>4. ReportAgrees'
    BY <2>1, <2>2, <2>3 DEF Agree, ReportAgrees, Rest
  <2> QED
    BY <2>1, <2>4 DEF Agree, ListAgrees, BusyMeansRunning, Rest
<1>7. CASE LateAnswered(q)
  BY <1>7, TakeAgrees DEF LateAnswered, Late, ListKinds
<1> QED
  BY <1>1, <1>2, <1>3, <1>4, <1>5, <1>6, <1>7 DEF Answered

LEMMA StepAgrees ==
  ASSUME TypeOK, Agree, [Next]_vars
  PROVE  Agree'
<1>1. ASSUME NEW u \in Users, Login(u) PROVE Agree'
  <2> DEFINE q == [kind |-> "login", of |-> u, answer |-> 0]
  <2>1. Send(asked, {q}) /\ UNCHANGED <<list, report>> /\ q.kind = "login"
    BY <1>1 DEF Login
  <2> QED
    BY <2>1, SendAgrees DEF ListKinds, RunKinds
<1>2. CASE Logout
  BY <1>2, LoggedOutAgrees DEF Logout, Agree, BusyMeansRunning, Running
<1>3. CASE TokenRenewed
  BY <1>3, OpenedAgrees DEF TokenRenewed
<1>4. CASE Reload \/ SilentRefresh
  <2>1. \A s : Load(user, tab, s).kind = IF s THEN "refresh" ELSE "load"
    BY DEF Load
  <2>2. CASE Reload
    <3>1. Send(asked, {Load(user, tab, FALSE)}) /\ UNCHANGED <<list, report>>
      BY <2>2 DEF Reload
    <3> QED
      BY <2>1, <3>1, SendAgrees DEF ListKinds, RunKinds
  <2>3. CASE SilentRefresh
    <3>1. Send(asked, {Load(user, tab, TRUE)}) /\ UNCHANGED <<busy, list, report>>
      BY <2>3 DEF SilentRefresh
    <3>2. Load(user, tab, TRUE).kind = "refresh"
      BY <2>1
    <3> HIDE DEF Load
    <3> QED
      BY <3>1, <3>2, SendAgrees DEF ListKinds
  <2> QED
    BY <1>4, <2>2, <2>3
<1>5. ASSUME DeleteTicket \/ \E f \in Forms(tab) : SubmitForm(f) PROVE Agree'
  <2>1. PICK t, needs : Send(asked, {Form(t, needs)}) /\ UNCHANGED <<list, report>>
    BY <1>5 DEF DeleteTicket, SubmitForm
  <2>2. Form(t, needs).kind = "form"
    BY DEF Form
  <2> QED
    BY <2>1, <2>2, SendAgrees DEF ListKinds, RunKinds
<1>6. CASE InvalidRange
  <2>1. /\ asked' = Drop(asked, {"range"}) /\ list' = list /\ busy' = busy
        /\ report' = [report EXCEPT !.applied = TRUE, !.failed = TRUE]
    BY <1>6 DEF InvalidRange
  <2>2. report'.failed = TRUE
    BY <2>1 DEF TypeOK
  <2>3. \A x \in asked' : x.kind # "range" /\ (x.kind = "dates" => x \in asked)
    BY <2>1, NoneDropped DEF ListKinds
  <2>4. (\E x \in asked : x.kind \in RunKinds) => \E x \in asked' : x.kind \in RunKinds
    BY <2>1, DropLeaves DEF ListKinds
  <2> QED
    BY <2>1, <2>2, <2>3, <2>4 DEF Agree, ListAgrees, ReportAgrees, BusyMeansRunning, Running
<1>7. CASE WorldChanges \/ UNCHANGED vars
  BY <1>7 DEF WorldChanges, vars, Agree, ListAgrees, ReportAgrees, BusyMeansRunning, Running
<1>8. ASSUME NEW t \in tabs, NavigateTab(t) \/ PopState(t) PROVE Agree'
  <2>1. CASE UNCHANGED <<asked, busy, list, report>>
    BY <2>1 DEF Agree, ListAgrees, ReportAgrees, BusyMeansRunning, Running
  <2>2. CASE \E s : ShowTab(user, s, asked)
    BY <2>2, ShowTabAgrees
  <2> QED
    BY <1>8, <2>1, <2>2 DEF NavigateTab, PopState
<1>9. ASSUME NEW f \in Filters, ChooseDate(f) PROVE Agree'
  <2>1. /\ asked' = Drop(asked, {"dates"}) \cup {Dates(user, f)} /\ busy' = busy /\ report' = report
        /\ list' = [list EXCEPT !.chosen = f, !.busy = TRUE, !.failed = FALSE]
    BY <1>9 DEF ChooseDate, Send
  <2>2. list'.chosen = f /\ list'.busy = TRUE
    BY <2>1 DEF TypeOK
  <2>3. Dates(user, f).kind = "dates" /\ Dates(user, f).of = f
    BY DEF Dates, ForFilter
  <2>4. \A x \in Drop(asked, {"dates"}) : x.kind # "dates" /\ (x.kind = "range" => x \in asked)
    BY NoneDropped DEF ListKinds
  <2>5. \A x \in asked : x.kind # "dates" => x \in asked'
    BY <2>1, DropLeaves
  <2>6. ListAgrees'
    BY <2>1, <2>2, <2>3, <2>4 DEF ListAgrees
  <2>7. ReportAgrees'
    BY <2>1, <2>3, <2>4, <2>5 DEF Agree, ReportAgrees
  <2> QED
    BY <2>1, <2>5, <2>6, <2>7 DEF Agree, BusyMeansRunning, Running, RunKinds
<1>10. ASSUME NEW f \in Filters, LoadRange(f) PROVE Agree'
  <2> DEFINE q == ForFilter("range", f, user, "reports.view")
  <2>1. /\ asked' = Drop(asked, {"range"}) \cup {q} /\ list' = list
        /\ report' = [report EXCEPT !.wanted = f, !.applied = TRUE, !.failed = FALSE]
    BY <1>10 DEF LoadRange, Send
  <2>2. report'.wanted = f
    BY <2>1 DEF TypeOK
  <2>3. q.kind = "range" /\ q.of = f
    BY DEF ForFilter
  <2>4. \A x \in Drop(asked, {"range"}) : x.kind # "range" /\ (x.kind = "dates" => x \in asked)
    BY NoneDropped DEF ListKinds
  <2>5. ListAgrees'
    BY <2>1, <2>3, <2>4 DEF Agree, ListAgrees
  <2>6. ReportAgrees'
    BY <2>1, <2>2, <2>3, <2>4 DEF ReportAgrees
  <2> QED
    BY <2>1, <2>3, <2>5, <2>6 DEF Agree, BusyMeansRunning, Running, RunKinds
<1>11. ASSUME NEW q \in asked, AnswerLost(q) PROVE Agree'
  <2> DEFINE x == [q EXCEPT !.answer = Refused]
  <2>1. asked' = Rest(q) \cup {x} /\ busy' = busy /\ list' = list /\ report' = report
    BY <1>11 DEF AnswerLost
  <2>2. x.kind = q.kind /\ x.of = q.of
    BY DEF TypeOK, Asked, Late
  <2> HIDE DEF x
  <2>3. Agree
    OBVIOUS
  <2> QED
    BY <2>1, <2>2, <2>3 DEF Agree, ListAgrees, ReportAgrees, BusyMeansRunning, Running, Rest
<1>12. ASSUME NEW q \in asked, SessionLost(q) PROVE Agree'
  <2>1. LoggedOut(Rest(q)) /\ BusyAfter(q)
    BY <1>12 DEF SessionLost
  <2>2. busy' => \E z \in Rest(q) : z.kind \in RunKinds
    BY <2>1 DEF BusyAfter, Rest, Agree, BusyMeansRunning, Running
  <2> QED
    BY <2>1, <2>2, LoggedOutAgrees DEF Rest
<1>13. ASSUME NEW q \in asked, Answered(q) PROVE Agree'
  BY <1>13, AnswerAgrees
<1> QED
  BY <1>1, <1>2, <1>3, <1>4, <1>5, <1>6, <1>7, <1>8, <1>9, <1>10, <1>11, <1>12, <1>13 DEF Next

\* The state without the parts that most steps leave alone is typed.
ListType == [chosen : Filters, rows : Filters \cup {None}, busy : BOOLEAN, failed : BOOLEAN]
ReportType == [wanted : Filters, shown : Filters, applied : BOOLEAN, failed : BOOLEAN]
ViewOK == tab \in tabs /\ asked \subseteq Asked /\ busy \in BOOLEAN /\ list \in ListType /\ report \in ReportType

\* The requests the console makes are requests, with the answers the service gives.
LEMMA RequestsTyped ==
  ASSUME TypeOK, NEW u
  PROVE  /\ \A t \in tabs : \A s : Load(u, t, s) \in Asked
         /\ \A f \in Filters : Dates(u, f) \in Asked /\ ForFilter("range", f, u, "reports.view") \in Asked
         /\ FeaturesOf(u) \in Asked
         /\ \A t \in tabs : Mounted(u, t) \subseteq Asked
         /\ \A t \in tabs : \A needs : user # NoUser => Form(t, needs) \in Asked
         /\ \A as \in SUBSET Asked : \A kinds : Drop(as, kinds) \subseteq Asked
<1>1. ASSUME NEW t \in tabs, NEW s PROVE Load(u, t, s) \in Asked
  <2>1. (IF MayLoad(u, t) THEN version ELSE Refused) \in 0..MaxVersion \cup {Refused}
    BY DEF TypeOK
  <2> QED
    BY <2>1 DEF Load, Asked
<1>2. ASSUME NEW f \in Filters PROVE Dates(u, f) \in Asked /\ ForFilter("range", f, u, "reports.view") \in Asked
  BY DEF Dates, ForFilter, Asked
<1>3. FeaturesOf(u) \in Asked
  BY DEF FeaturesOf, Asked
<1>4. ASSUME NEW t \in tabs PROVE Mounted(u, t) \subseteq Asked
  BY <1>1, <1>2, ConsoleAssumption DEF Mounted
<1>5. ASSUME NEW t \in tabs, NEW needs, user # NoUser PROVE Form(t, needs) \in Asked
  BY <1>5 DEF TypeOK, Form, Asked
<1>6. ASSUME NEW as \in SUBSET Asked, NEW kinds PROVE Drop(as, kinds) \subseteq Asked
  <2>1. Late \in Asked
    BY DEF Asked
  <2> QED
    BY <2>1 DEF Drop
<1> QED
  BY <1>1, <1>2, <1>3, <1>4, <1>5, <1>6

LEMMA NewOnesTyped == NewList \in ListType /\ NewReport \in ReportType
  BY ConsoleAssumption DEF NewList, NewReport, ListType, ReportType

\* The constants of a behaviour.
LEMMA TabsStay ==
  ASSUME TypeOK, [Next]_vars
  PROVE  tabs' = tabs /\ Asked' = Asked
<1>1. tabs' = tabs
  BY DEF Next, vars, Login, Logout, TokenRenewed, Reload, SilentRefresh, DeleteTicket, InvalidRange, WorldChanges,
     NavigateTab, PopState, SubmitForm, ChooseDate, LoadRange, Answered, AnswerLost, SessionLost, LoginAnswered,
     FeaturesAnswered, LoadAnswered, FormAnswered, DatesAnswered, RangeAnswered, LateAnswered
<1> QED
  BY <1>1 DEF Asked

LEMMA ShowTabTyped ==
  ASSUME TypeOK, NEW u, NEW t \in tabs, NEW as \in SUBSET Asked, ShowTab(u, t, as), tabs' = tabs, Asked' = Asked
  PROVE  ViewOK'
<1>1. CASE t = tab
  BY <1>1 DEF ShowTab, TypeOK, ViewOK, ListType, ReportType
<1>2. CASE t # tab
  <2>1. Drop(as, ListKinds) \subseteq Asked /\ Mounted(u, t) \subseteq Asked
    BY RequestsTyped
  <2> QED
    BY <1>2, <2>1, NewOnesTyped DEF ShowTab, Send, ViewOK
<1> QED
  BY <1>1, <1>2

LEMMA OpenedTyped ==
  ASSUME TypeOK, NEW u, NEW as \in SUBSET Asked, Opened(u, as), tabs' = tabs, Asked' = Asked
  PROVE  ViewOK'
<1> DEFINE t == TabFromSearch(address, AvailableTabs(u, known))
           own == IF t # tab THEN Mounted(u, t)
                  ELSE IF t = "tickets" THEN {Dates(u, list.chosen)} ELSE {}
           qs == {FeaturesOf(u), Load(u, tab, FALSE)} \cup own
           kept == Drop(as, IF t = tab THEN {"dates"} ELSE ListKinds)
<1>1. t \in tabs /\ tab \in tabs /\ list.chosen \in Filters
  <2>1. t \in AvailableTabs(u, known)
    BY AddressGivesATab
  <2> HIDE DEF t
  <2> QED
    BY <2>1 DEF AvailableTabs, TypeOK
<1>2. own \subseteq Asked
  BY <1>1, RequestsTyped
<1>3. qs \subseteq Asked
  BY <1>1, <1>2, RequestsTyped
<1>4. kept \subseteq Asked
  BY RequestsTyped
<1>5. [list EXCEPT !.busy = TRUE, !.failed = FALSE] \in ListType /\ report \in ReportType
  BY DEF TypeOK, ListType, ReportType
<1>6. /\ asked' = kept \cup qs /\ tab' = t /\ busy' = TRUE
      /\ list' = IF t = tab THEN [list EXCEPT !.busy = TRUE, !.failed = FALSE] ELSE NewList
      /\ report' = IF t = tab THEN report ELSE NewReport
  BY DEF Opened, Send
<1> HIDE DEF t, qs, kept
<1> QED
  BY <1>1, <1>3, <1>4, <1>5, <1>6, NewOnesTyped DEF ViewOK

\* What is signed in, where, what it knows and what was read.
RestOK ==
  /\ tabs \in Menus /\ address \in tabs /\ user \in Users \cup {NoUser} /\ known \in {{}, PlanFeatures}
  /\ data \in [tabs -> 0..MaxVersion \cup {Blank}] /\ version \in 0..MaxVersion /\ faults \in 0..MaxFaults

LEMMA TypeParts == TypeOK <=> ViewOK /\ RestOK
  BY DEF TypeOK, ViewOK, RestOK, ListType, ReportType

LEMMA TypePartsNext == TypeOK' <=> ViewOK' /\ RestOK'
  BY TypeParts, PTL

LEMMA LoggedOutTyped ==
  ASSUME TypeOK, NEW as \in SUBSET Asked, LoggedOut(as), tabs' = tabs, Asked' = Asked, busy' \in BOOLEAN,
         UNCHANGED <<address, version>>, faults' \in 0..MaxFaults
  PROVE  TypeOK'
<1>1. asked' = Drop(as, ListKinds) /\ tab' = "dashboard" /\ list' = NewList /\ report' = NewReport
  BY DEF LoggedOut
<1>2. user' = NoUser /\ known' = {} /\ data' = [t \in tabs |-> Blank]
  BY DEF LoggedOut
<1>3. "dashboard" \in tabs
  BY ConsoleAssumption DEF TypeOK
<1>4. asked' \subseteq Asked
  BY <1>1, RequestsTyped
<1>5. ViewOK'
  BY <1>1, <1>3, <1>4, NewOnesTyped DEF ViewOK
<1>6. RestOK'
  BY <1>2 DEF RestOK, TypeOK
<1> QED
  BY <1>5, <1>6, TypePartsNext

LEMMA AnswerTyped ==
  ASSUME TypeOK, NEW q \in asked, Answered(q), tabs' = tabs, Asked' = Asked
  PROVE  TypeOK'
<1>0. /\ q \in Asked /\ Rest(q) \in SUBSET Asked /\ q.kind \in {"load", "refresh", "form", "dates", "range",
                                                                "features", "login", "late"}
      /\ RestOK /\ ViewOK
  BY TypeParts DEF TypeOK, Rest, Asked, Late
<1>1. CASE LoginAnswered(q)
  <2>1. q.of \in Users
    BY <1>0, <1>1 DEF LoginAnswered, Asked, Late
  <2>2. Opened(q.of, Rest(q)) /\ user' = q.of /\ UNCHANGED <<tabs, known, address, data, version, faults>>
    BY <1>1 DEF LoginAnswered
  <2>3. ViewOK'
    BY <1>0, <2>2, OpenedTyped
  <2>4. RestOK'
    BY <1>0, <2>1, <2>2 DEF RestOK
  <2> QED
    BY <2>3, <2>4, TypePartsNext
<1>2. CASE FeaturesAnswered(q)
  <2>1. RestOK'
    BY <1>0, <1>2 DEF RestOK, FeaturesAnswered
  <2>2. CASE user = NoUser
    <3>1. ViewOK'
      BY <1>0, <1>2, <2>2 DEF FeaturesAnswered, ViewOK
    <3> QED
      BY <2>1, <3>1, TypePartsNext
  <2>3. CASE user # NoUser
    <3> DEFINE t == TabFromSearch(address, AvailableTabs(user, known'))
    <3>1. t \in AvailableTabs(user, known')
      BY AddressGivesATab
    <3>2. ShowTab(user, t, Rest(q))
      BY <1>2, <2>3 DEF FeaturesAnswered
    <3> HIDE DEF t
    <3>3. t \in tabs
      BY <3>1 DEF AvailableTabs
    <3>4. ViewOK'
      BY <1>0, <3>2, <3>3, ShowTabTyped
    <3> QED
      BY <2>1, <3>4, TypePartsNext
  <2> QED
    BY <2>2, <2>3
<1>3. CASE LoadAnswered(q)
  <2> DEFINE again == q.of = "tickets" /\ tab = "tickets" /\ user # NoUser
             new == IF again THEN {Dates(user, list.chosen)} ELSE {}
             kinds == IF again THEN {"dates"} ELSE {}
  <2>1. q.of \in tabs /\ q.answer \in 0..MaxVersion \cup {Refused}
    BY <1>0, <1>3 DEF LoadAnswered, Asked, Late
  <2>2. /\ busy' \in BOOLEAN /\ tab' = tab
        /\ UNCHANGED <<tabs, user, known, address, version, faults>>
        /\ report' = IF q.of = "reports" /\ q.answer # Refused /\ ~report.applied
                     THEN [report EXCEPT !.shown = Default] ELSE report
    BY <1>0, <1>3 DEF LoadAnswered, BusyAfter, ViewOK
  <2>3. report' \in ReportType
    BY <1>0, <2>2, ConsoleAssumption DEF ViewOK, ReportType
  <2>4. CASE q.answer = Refused
    <3>1. asked' = Rest(q) /\ list' = list /\ data' = data
      BY <1>3, <2>4 DEF LoadAnswered
    <3>2. ViewOK' /\ RestOK'
      BY <1>0, <2>2, <2>3, <3>1 DEF ViewOK, RestOK
    <3> QED
      BY <3>2, TypePartsNext
  <2>5. CASE q.answer # Refused
    <3>1. /\ asked' = Drop(Rest(q), kinds) \cup new
          /\ list' = IF again THEN [list EXCEPT !.busy = TRUE, !.failed = FALSE] ELSE list
          /\ data' = [data EXCEPT ![q.of] = q.answer]
      BY <1>3, <2>5 DEF LoadAnswered, Send
    <3>2. list.chosen \in Filters
      BY <1>0 DEF ViewOK, ListType
    <3>3. new \subseteq Asked
      BY <3>2, RequestsTyped
    <3>4. Drop(Rest(q), kinds) \subseteq Asked
      BY <1>0, RequestsTyped
    <3>5. list' \in ListType
      BY <1>0, <3>1 DEF ViewOK, ListType
    <3>6. data' \in [tabs -> 0..MaxVersion \cup {Blank}]
      BY <1>0, <2>1, <2>5, <3>1 DEF RestOK
    <3> HIDE DEF new, kinds
    <3>7. ViewOK'
      BY <1>0, <2>2, <2>3, <3>1, <3>3, <3>4, <3>5 DEF ViewOK
    <3>8. RestOK'
      BY <1>0, <2>2, <3>6 DEF RestOK
    <3> QED
      BY <3>7, <3>8, TypePartsNext
  <2> QED
    BY <2>4, <2>5
<1>4. CASE FormAnswered(q)
  <2> DEFINE l == Load(IF user = NoUser THEN q.by ELSE user, q.of, q.of = "tickets")
  <2>1. q.of \in tabs
    BY <1>0, <1>4 DEF FormAnswered, Asked, Late
  <2>2. l \in Asked
    BY <2>1, RequestsTyped
  <2>3. asked' \in {Rest(q), Rest(q) \cup {l}} /\ busy' \in BOOLEAN
    BY <1>4 DEF FormAnswered, Send
  <2> HIDE DEF l
  <2>4. asked' \subseteq Asked
    BY <1>0, <2>2, <2>3
  <2>5. UNCHANGED <<tabs, user, known, address, tab, data, version, list, report, faults>>
    BY <1>4 DEF FormAnswered
  <2>6. ViewOK' /\ RestOK'
    BY <1>0, <2>3, <2>4, <2>5 DEF ViewOK, RestOK
  <2> QED
    BY <2>6, TypePartsNext
<1>5. CASE DatesAnswered(q)
  <2>1. q.of \in Filters
    BY <1>0, <1>5 DEF DatesAnswered, Asked, Late
  <2>2. /\ list' = IF q.answer = Refused THEN [list EXCEPT !.rows = None, !.busy = FALSE, !.failed = TRUE]
                   ELSE [list EXCEPT !.rows = q.of, !.busy = FALSE]
        /\ asked' = Rest(q) /\ UNCHANGED <<tabs, user, known, address, tab, data, version, busy, report, faults>>
    BY <1>5 DEF DatesAnswered
  <2>3. list' \in ListType
    BY <1>0, <2>1, <2>2 DEF ViewOK, ListType
  <2>4. ViewOK' /\ RestOK'
    BY <1>0, <2>2, <2>3 DEF ViewOK, RestOK
  <2> QED
    BY <2>4, TypePartsNext
<1>6. CASE RangeAnswered(q)
  <2>1. q.of \in Filters
    BY <1>0, <1>6 DEF RangeAnswered, Asked, Late
  <2>2. /\ report' = IF q.answer = Refused THEN [report EXCEPT !.failed = TRUE] ELSE [report EXCEPT !.shown = q.of]
        /\ asked' = Rest(q) /\ busy' = FALSE
        /\ UNCHANGED <<tabs, user, known, address, tab, data, version, list, faults>>
    BY <1>6 DEF RangeAnswered
  <2>3. report' \in ReportType
    BY <1>0, <2>1, <2>2 DEF ViewOK, ReportType
  <2>4. ViewOK' /\ RestOK'
    BY <1>0, <2>2, <2>3 DEF ViewOK, RestOK
  <2> QED
    BY <2>4, TypePartsNext
<1>7. CASE LateAnswered(q)
  <2>1. ViewOK' /\ RestOK'
    BY <1>0, <1>7 DEF LateAnswered, BusyAfter, ViewOK, RestOK
  <2> QED
    BY <2>1, TypePartsNext
<1> QED
  BY <1>1, <1>2, <1>3, <1>4, <1>5, <1>6, <1>7 DEF Answered

LEMMA StepTyped ==
  ASSUME TypeOK, [Next]_vars
  PROVE  TypeOK'
<1>0. tabs' = tabs /\ Asked' = Asked /\ RestOK /\ ViewOK
  BY TabsStay, TypeParts
<1>1. ASSUME NEW u \in Users, Login(u) PROVE TypeOK'
  <2>1. [kind |-> "login", of |-> u, answer |-> 0] \in Asked
    BY DEF Asked
  <2>2. ViewOK' /\ RestOK'
    BY <1>0, <1>1, <2>1 DEF Login, Send, ViewOK, RestOK
  <2> QED
    BY <2>2, TypePartsNext
<1>2. CASE Logout
  <2>1. asked \in SUBSET Asked /\ busy' \in BOOLEAN /\ faults' \in 0..MaxFaults
    BY <1>0, <1>2 DEF Logout, ViewOK, RestOK
  <2> QED
    BY <1>0, <1>2, <2>1, LoggedOutTyped DEF Logout
<1>3. CASE TokenRenewed
  <2>1. faults' \in 0..MaxFaults
    BY <1>0, <1>3, ConsoleAssumption DEF TokenRenewed, RestOK
  <2>2. UNCHANGED <<tabs, user, known, address, data, version>> /\ Opened(user, asked)
    BY <1>3 DEF TokenRenewed
  <2>3. RestOK'
    BY <1>0, <2>1, <2>2 DEF RestOK
  <2>4. asked \in SUBSET Asked
    BY DEF TypeOK
  <2>5. ViewOK'
    BY <1>0, <2>2, <2>4, OpenedTyped
  <2> QED
    BY <2>3, <2>5, TypePartsNext
<1>4. CASE Reload \/ SilentRefresh
  <2>1. Load(user, tab, FALSE) \in Asked /\ Load(user, tab, TRUE) \in Asked
    BY <1>0, RequestsTyped DEF ViewOK
  <2>2. asked' \subseteq Asked
    <3>1. asked' = asked \cup {Load(user, tab, FALSE)} \/ asked' = asked \cup {Load(user, tab, TRUE)}
      BY <1>4 DEF Reload, SilentRefresh, Send
    <3> QED
      BY <1>0, <2>1, <3>1 DEF ViewOK
  <2>3. busy' \in BOOLEAN /\ UNCHANGED <<tabs, user, known, address, tab, data, version, list, report, faults>>
    BY <1>0, <1>4 DEF Reload, SilentRefresh, ViewOK
  <2>4. ViewOK' /\ RestOK'
    BY <1>0, <2>2, <2>3 DEF ViewOK, RestOK
  <2> QED
    BY <2>4, TypePartsNext
<1>5. ASSUME DeleteTicket \/ \E f \in Forms(tab) : SubmitForm(f) PROVE TypeOK'
  <2>1. PICK needs : Send(asked, {Form(tab, needs)}) /\ user # NoUser
    BY <1>5 DEF DeleteTicket, SubmitForm, Permissions
  <2>2. Form(tab, needs) \in Asked
    BY <1>0, <2>1, RequestsTyped DEF ViewOK
  <2>3. asked' \subseteq Asked
    BY <1>0, <2>1, <2>2 DEF Send, ViewOK
  <2>4. busy' = TRUE /\ UNCHANGED <<tabs, user, known, address, tab, data, list, report, faults>>
    BY <1>5 DEF DeleteTicket, SubmitForm
  <2>5. version' \in 0..MaxVersion
    <3>1. version' = version \/ (version < MaxVersion /\ version' = version + 1)
      BY <1>5 DEF DeleteTicket, SubmitForm
    <3> QED
      BY <1>0, <3>1, ConsoleAssumption DEF RestOK
  <2>6. ViewOK' /\ RestOK'
    BY <1>0, <2>3, <2>4, <2>5 DEF ViewOK, RestOK
  <2> QED
    BY <2>6, TypePartsNext
<1>6. CASE InvalidRange
  <2>1. asked' \subseteq Asked
    BY <1>0, <1>6, RequestsTyped DEF InvalidRange, ViewOK
  <2>2. report' \in ReportType
    BY <1>0, <1>6 DEF InvalidRange, ViewOK, ReportType
  <2>3. ViewOK' /\ RestOK'
    BY <1>0, <1>6, <2>1, <2>2 DEF InvalidRange, ViewOK, RestOK
  <2> QED
    BY <2>3, TypePartsNext
<1>7. CASE WorldChanges
  <2>1. version' \in 0..MaxVersion
    BY <1>0, <1>7, ConsoleAssumption DEF WorldChanges, RestOK
  <2>2. ViewOK' /\ RestOK'
    BY <1>0, <1>7, <2>1 DEF WorldChanges, ViewOK, RestOK
  <2> QED
    BY <2>2, TypePartsNext
<1>8. ASSUME NEW t \in tabs, NavigateTab(t) \/ PopState(t) PROVE TypeOK'
  <2>1. RestOK'
    BY <1>0, <1>8 DEF NavigateTab, PopState, RestOK
  <2>2. CASE UNCHANGED <<tab, asked, busy, list, report>>
    <3>1. ViewOK'
      BY <1>0, <2>2 DEF ViewOK
    <3> QED
      BY <2>1, <3>1, TypePartsNext
  <2>3. ASSUME NEW s \in tabs, ShowTab(user, s, asked) PROVE TypeOK'
    <3>1. ViewOK'
      BY <1>0, <2>3, ShowTabTyped DEF ViewOK
    <3> QED
      BY <2>1, <3>1, TypePartsNext
  <2>4. TabFromSearch(t, AvailableTabs(user, known)) \in tabs
    <3>1. TabFromSearch(t, AvailableTabs(user, known)) \in AvailableTabs(user, known)
      BY AddressGivesATab
    <3> QED
      BY <3>1 DEF AvailableTabs
  <2>5. CASE NavigateTab(t)
    BY <2>3, <2>5 DEF NavigateTab
  <2>6. CASE PopState(t)
    BY <2>2, <2>3, <2>4, <2>6 DEF PopState
  <2> QED
    BY <1>8, <2>5, <2>6
<1>9. ASSUME NEW f \in Filters, ChooseDate(f) PROVE TypeOK'
  <2>1. Dates(user, f) \in Asked /\ Drop(asked, {"dates"}) \subseteq Asked
    BY <1>0, RequestsTyped DEF ViewOK
  <2>2. asked' \subseteq Asked
    BY <1>9, <2>1 DEF ChooseDate, Send
  <2>3. list' \in ListType
    BY <1>0, <1>9 DEF ChooseDate, ViewOK, ListType
  <2>4. UNCHANGED <<tabs, user, known, address, tab, data, version, busy, report, faults>>
    BY <1>9 DEF ChooseDate
  <2>5. ViewOK' /\ RestOK'
    BY <1>0, <2>2, <2>3, <2>4 DEF ViewOK, RestOK
  <2> QED
    BY <2>5, TypePartsNext
<1>10. ASSUME NEW f \in Filters, LoadRange(f) PROVE TypeOK'
  <2>1. ForFilter("range", f, user, "reports.view") \in Asked /\ Drop(asked, {"range"}) \subseteq Asked
    BY <1>0, RequestsTyped DEF ViewOK
  <2>2. asked' \subseteq Asked
    BY <1>10, <2>1 DEF LoadRange, Send
  <2>3. report' \in ReportType
    BY <1>0, <1>10 DEF LoadRange, ViewOK, ReportType
  <2>4. busy' = TRUE /\ UNCHANGED <<tabs, user, known, address, tab, data, version, list, faults>>
    BY <1>10 DEF LoadRange
  <2>5. ViewOK' /\ RestOK'
    BY <1>0, <2>2, <2>3, <2>4 DEF ViewOK, RestOK
  <2> QED
    BY <2>5, TypePartsNext
<1>11. ASSUME NEW q \in asked, AnswerLost(q) PROVE TypeOK'
  <2> DEFINE x == [q EXCEPT !.answer = Refused]
  <2>1. x \in Asked
    <3>1. q \in Asked /\ q.kind \notin {"login", "late"}
      BY <1>0, <1>11 DEF ViewOK, AnswerLost
    <3>2. CASE q \in [kind : {"load", "refresh"}, of : tabs, answer : 0..MaxVersion \cup {Refused}]
      BY <3>2 DEF Asked
    <3>3. CASE q \in [kind : {"form"}, of : tabs, by : Users, answer : {0, Refused}]
      BY <3>3 DEF Asked
    <3>4. CASE q \in [kind : {"dates", "range"}, of : Filters, answer : {0, Refused}]
      BY <3>4 DEF Asked
    <3>5. CASE q \in [kind : {"features"}, of : {None}, answer : {0, Refused}]
      BY <3>5 DEF Asked
    <3> QED
      BY <3>1, <3>2, <3>3, <3>4, <3>5 DEF Asked, Late
  <2>2. asked' = Rest(q) \cup {x} /\ faults' \in 0..MaxFaults
    BY <1>0, <1>11, ConsoleAssumption DEF AnswerLost, RestOK
  <2> HIDE DEF x
  <2>3. UNCHANGED <<tabs, user, known, address, tab, data, version, busy, list, report>>
    BY <1>11 DEF AnswerLost
  <2>4. ViewOK' /\ RestOK'
    BY <1>0, <2>1, <2>2, <2>3 DEF ViewOK, RestOK, Rest
  <2> QED
    BY <2>4, TypePartsNext
<1>12. ASSUME NEW q \in asked, SessionLost(q) PROVE TypeOK'
  <2>1. Rest(q) \in SUBSET Asked /\ busy' \in BOOLEAN /\ faults' \in 0..MaxFaults
    BY <1>0, <1>12, ConsoleAssumption DEF SessionLost, BusyAfter, Rest, ViewOK, RestOK
  <2> QED
    BY <1>0, <1>12, <2>1, LoggedOutTyped DEF SessionLost
<1>13. ASSUME NEW q \in asked, Answered(q) PROVE TypeOK'
  BY <1>0, <1>13, AnswerTyped
<1>14. CASE UNCHANGED vars
  <2>1. ViewOK' /\ RestOK'
    BY <1>0, <1>14 DEF vars, ViewOK, RestOK
  <2> QED
    BY <2>1, TypePartsNext
<1> QED
  BY <1>1, <1>2, <1>3, <1>4, <1>5, <1>6, <1>7, <1>8, <1>9, <1>10, <1>11, <1>12, <1>13, <1>14 DEF Next

LEMMA ConsoleStarts == Init => ConsoleInv
<1> SUFFICES ASSUME Init PROVE ConsoleInv
  OBVIOUS
<1>1. TypeOK
  <2>1. "dashboard" \in tabs
    BY ConsoleAssumption DEF Init
  <2>2. ViewOK
    BY <2>1, NewOnesTyped DEF Init, ViewOK
  <2>3. RestOK
    BY ConsoleAssumption DEF Init, RestOK
  <2> QED
    BY <2>2, <2>3, TypeParts
<1>2. list.busy = TRUE /\ report.applied = FALSE
  BY DEF Init, NewList, NewReport
<1> QED
  BY <1>1, <1>2 DEF Init, ConsoleInv, OnlyPermittedTabs, ListAgrees, ReportAgrees, BusyMeansRunning

\* In every behaviour of the console the state is typed, the tab shown is permitted, and requests and what is shown
\* agree with what is chosen.
THEOREM ConsoleInvariant == Spec => []ConsoleInv
<1>1. ConsoleInv /\ [Next]_vars => ConsoleInv'
  BY StepTyped, StepAgrees, TabKept DEF ConsoleInv, Agree
<1> QED
  BY <1>1, ConsoleStarts, PTL DEF Spec

THEOREM ConsoleTypes == Spec => []TypeOK
<1>1. ConsoleInv => TypeOK
  BY DEF ConsoleInv
<1> QED
  BY <1>1, ConsoleInvariant, PTL

\* Whatever roles the tenant has made (roles.service.ts: create), the tab shown is one that the user's permissions and
\* the features known let him open, or the reports at the address he was sent to by the dashboard's button (page.tsx).
THEOREM TabsArePermitted == FairSpec => []OnlyPermittedTabs
<1>1. ConsoleInv => OnlyPermittedTabs
  BY DEF ConsoleInv
<1> QED
  BY <1>1, ConsoleInvariant, PTL DEF FairSpec

\* A list or a report that waits for nothing and has not failed shows the date or the period chosen last.
THEOREM ChosenIsShown == FairSpec => []ShownMatchesFilter
<1>1. ConsoleInv => ShownMatchesFilter
  BY DEF ConsoleInv, ListAgrees, ReportAgrees, ShownMatchesFilter
<1> QED
  BY <1>1, ConsoleInvariant, PTL DEF FairSpec

\* The buttons that wait for run() do so only while one of its requests is under way.
THEOREM ButtonsAreReleased == FairSpec => []BusyMeansRunning
<1>1. ConsoleInv => BusyMeansRunning
  BY DEF ConsoleInv
<1> QED
  BY <1>1, ConsoleInvariant, PTL DEF FairSpec
=============================================================================
