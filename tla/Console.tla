------------------------------ MODULE Console ------------------------------
(***************************************************************************)
(* The tenant console (apps/tenant-web): who is signed in, the tab shown,  *)
(* the requests under way and what is done with their answers.  A request  *)
(* is served when it is sent; the answers come back in any order, and a    *)
(* few of them (MaxFaults) as failures; equal requests are one.  What a    *)
(* tab shows is reduced to the version of the data it was read at.         *)
(***************************************************************************)
EXTENDS Naturals, FiniteSets

CONSTANTS Users, NoUser,     \* who may sign in, and the login page
          RolesOf,           \* the roles of each user
          CustomRoles,       \* the permissions of the tenant's own roles, any
          Menus,             \* sets of tabs; a behaviour has one of them
          PlanFeatures,      \* what the tenant's plan switches on
          Filters, Default,  \* dates or periods to choose; the first one
          MaxPending,        \* bound: requests under way when another step begins
          MaxVersion,        \* bound: changes of the tenant's data
          MaxFaults,         \* bound: failed answers and renewed tokens
          Blank, Refused, None

VARIABLES tabs, user, known, address, tab, data, version, asked, busy, list, report, faults

vars == <<tabs, user, known, address, tab, data, version, asked, busy, list, report, faults>>

-----------------------------------------------------------------------------
(* Who may see and do what, in the console and in the service.             *)

ManagedRoles ==
  [OWNER |-> {"users.view", "users.create", "merchants.view", "merchants.create",
              "branches.view", "branches.create", "tickets.view", "tickets.cancel",
              "reports.view", "printers.view", "printers.create",
              "printers.configure", "devices.view", "devices.register",
              "settings.view", "settings.edit", "finance.view", "audit.view"},
   DIRECTOR |-> {"users.view", "users.create", "merchants.view", "merchants.create",
                 "branches.view", "branches.create", "tickets.view", "tickets.cancel",
                 "reports.view", "printers.view", "printers.configure", "devices.view"},
   SUPERVISOR |-> {"merchants.view", "branches.view", "tickets.view", "tickets.cancel",
                   "reports.view", "printers.view", "devices.view"},
   FINANCE |-> {"finance.view", "reports.view", "tickets.view"}]

RolePermissions(r) == IF r \in DOMAIN ManagedRoles THEN ManagedRoles[r] ELSE CustomRoles[r]

ASSUME ConsoleAssumption ==
  /\ \A menu \in Menus : "dashboard" \in menu
  /\ RolesOf \in [Users -> SUBSET (DOMAIN ManagedRoles \cup DOMAIN CustomRoles)]
  /\ NoUser \notin Users
  /\ Default \in Filters
  /\ MaxPending \in Nat /\ MaxVersion \in Nat /\ MaxFaults \in Nat

Permissions(u) == IF u = NoUser THEN {} ELSE UNION {RolePermissions(r) : r \in RolesOf[u]}

\* <<permission, feature>> a tab's button asks for.
Nav == [dashboard |-> <<None, None>>, branding |-> <<"settings.view", None>>,
        tickets |-> <<"tickets.view", None>>, lottery |-> <<"tickets.view", None>>,
        lotterySchedules |-> <<"settings.view", None>>,
        manualResults |-> <<"settings.edit", None>>, results |-> <<"tickets.view", None>>,
        merchants |-> <<"merchants.view", None>>, branches |-> <<"branches.view", None>>,
        users |-> <<"users.view", None>>, finance |-> <<"finance.view", "finance">>,
        devices |-> <<"devices.view", "device_management">>,
        printers |-> <<"printers.view", None>>, reports |-> <<"reports.view", None>>,
        audit |-> <<"audit.view", "audit_logs">>]

\* The permissions the endpoints of a tab ask for; one refusal fails them all.
Endpoints == [dashboard |-> {"reports.view", "tickets.view", "branches.view", "merchants.view"},
              branding |-> {"settings.view", "branches.view"},
              tickets |-> {"tickets.view"}, lottery |-> {"tickets.view"},
              lotterySchedules |-> {"tickets.view"}, manualResults |-> {"tickets.view"},
              results |-> {"tickets.view"},
              merchants |-> {"merchants.view", "branches.view", "settings.view"},
              branches |-> {"branches.view", "settings.view"}, users |-> {"users.view"},
              finance |-> {"finance.view"},
              devices |-> {"devices.view", "branches.view", "merchants.view"},
              printers |-> {"printers.view", "branches.view"},
              reports |-> {"reports.view"}, audit |-> {"audit.view"}]

\* The forms of a tab: the permission and the feature that offer each, and the
\* permission its request needs.
FormOf(shown, feature, needs) == [shown |-> shown, feature |-> feature, needs |-> needs]

BranchForms == {FormOf("branches.create", None, "branches.create")}
MerchantForms == {FormOf("merchants.create", None, "merchants.create")}
UserForms == {FormOf("users.create", None, "users.create"),
              FormOf("users.create", "advanced_permissions", "users.create")}
DeviceForms == {FormOf(None, None, "devices.register")}
PrinterForm == FormOf(None, None, "printers.create")
TemplateForm == FormOf(None, None, "printers.configure")
SettingsForms == {FormOf(None, None, "settings.edit"), FormOf(None, "custom_domain", "settings.edit")}

Forms(t) ==
  CASE t = "branches" -> BranchForms [] t = "merchants" -> MerchantForms
    [] t = "users" -> UserForms [] t = "devices" -> DeviceForms
    [] t = "printers" -> {PrinterForm, TemplateForm} [] t = "branding" -> SettingsForms
    [] OTHER -> {}

AvailableTabs(u, features) ==
  {t \in tabs : /\ Nav[t][1] \in Permissions(u) \cup {None}
                /\ Nav[t][2] \in features \cup {None}}

TabFromSearch(search, available) == IF search \in available THEN search ELSE "dashboard"

MayLoad(u, t) == /\ Endpoints[t] \subseteq Permissions(u)
                 /\ Nav[t][2] \in PlanFeatures \cup {None}

-----------------------------------------------------------------------------
(* Requests.                                                               *)

Load(u, t, silent) ==
  [kind |-> IF silent THEN "refresh" ELSE "load", of |-> t,
   answer |-> IF MayLoad(u, t) THEN version ELSE Refused]

FeaturesOf(u) == [kind |-> "features", of |-> None,
                  answer |-> IF "settings.view" \in Permissions(u) THEN 0 ELSE Refused]

ForFilter(kind, f, u, permission) ==
  [kind |-> kind, of |-> f,
   answer |-> IF permission \in Permissions(u) THEN 0 ELSE Refused]

\* Answers nobody waits for any more: their component is gone, or a later
\* request of the same filter has taken their place.  A period's request was
\* made through run() all the same.
Late == [kind |-> "late", of |-> None, answer |-> 0]

\* Mutant: an answer is taken whichever request it belongs to.
DropNone(as, kinds) == as

Drop(as, kinds) ==
  {q \in as : q.kind \notin kinds}
    \cup (IF \E q \in as : q.kind = "range" /\ "range" \in kinds THEN {Late} ELSE {})

Send(as, qs) == asked' = as \cup qs

Calm == Cardinality(asked) =< MaxPending

\* What run() tells by its busy flag.
RunKinds == {"login", "load", "form", "range", "late"}
Running == \E q \in asked : q.kind \in RunKinds

-----------------------------------------------------------------------------
(* The lists with a filter of their own.                                   *)

NewList == [chosen |-> Default, rows |-> None, busy |-> TRUE, failed |-> FALSE]
NewReport == [wanted |-> Default, shown |-> Default, applied |-> FALSE, failed |-> FALSE]

Dates(u, f) == ForFilter("dates", f, u, "tickets.view")

\* The requests of tab t's component when it is mounted, and those of the one
\* it replaces.
Mounted(u, t) == {Load(u, t, FALSE)} \cup (IF t = "tickets" THEN {Dates(u, Default)} ELSE {})
ListKinds == {"dates", "range"}

\* The effects of a new tab, as: the requests they find under way.
ShowTab(u, t, as) ==
  /\ tab' = t
  /\ IF t = tab THEN /\ asked' = as
                     /\ UNCHANGED <<busy, list, report>>
     ELSE LET kept == Drop(as, ListKinds) IN
          /\ Send(kept, Mounted(u, t))
          /\ busy' = TRUE
          /\ list' = NewList
          /\ report' = NewReport

-----------------------------------------------------------------------------
(* Signing in and out.                                                     *)

\* The effects of a new token: the features are asked for, the tab shown is
\* loaded, its list too, and then the tab of the address, if it is another one.
Opened(u, as) ==
  LET t == TabFromSearch(address, AvailableTabs(u, known))
      own == IF t # tab THEN Mounted(u, t)
             ELSE IF t = "tickets" THEN {Dates(u, list.chosen)} ELSE {}
      qs == {FeaturesOf(u), Load(u, tab, FALSE)} \cup own
      kept == Drop(as, IF t = tab THEN {"dates"} ELSE ListKinds)
  IN  /\ Send(kept, qs)
      /\ tab' = t
      /\ busy' = TRUE
      /\ list' = IF t = tab THEN [list EXCEPT !.busy = TRUE, !.failed = FALSE] ELSE NewList
      /\ report' = IF t = tab THEN report ELSE NewReport

Login(u) ==
  /\ Calm
  /\ user = NoUser
  /\ ~busy
  /\ Send(asked, {[kind |-> "login", of |-> u, answer |-> 0]})
  /\ busy' = TRUE
  /\ UNCHANGED <<tabs, user, known, address, tab, data, version, list, report, faults>>

LoggedOut(as) ==
  /\ user' = NoUser
  /\ known' = {}
  /\ data' = [t \in tabs |-> Blank]
  /\ tab' = "dashboard"
  /\ asked' = Drop(as, ListKinds)
  /\ list' = NewList
  /\ report' = NewReport

Logout ==
  /\ user # NoUser
  /\ LoggedOut(asked)
  /\ UNCHANGED <<tabs, address, version, busy, faults>>

\* The token is renewed in a request, so the features and the tab are read again.
TokenRenewed ==
  /\ Calm
  /\ user # NoUser
  /\ faults < MaxFaults
  /\ faults' = faults + 1
  /\ Opened(user, asked)
  /\ UNCHANGED <<tabs, user, known, address, data, version>>

-----------------------------------------------------------------------------
(* What the user does.                                                     *)

\* A button of the navigation; the dashboard's own button to the reports asks
\* for no permission.
NavigateTab(t) ==
  /\ Calm
  /\ user # NoUser
  /\ \/ t \in AvailableTabs(user, known)
     \/ tab = "dashboard" /\ t = "reports"
  /\ t # tab
  /\ address' = t
  /\ ShowTab(user, t, asked)
  /\ UNCHANGED <<tabs, user, known, data, version, faults>>

\* Back and forward: the address is any of those visited, by any user.
PopState(t) ==
  /\ Calm
  /\ address' = t
  /\ IF user = NoUser
     THEN UNCHANGED <<tab, asked, busy, list, report>>
     ELSE ShowTab(user, TabFromSearch(t, AvailableTabs(user, known)), asked)
  /\ UNCHANGED <<tabs, user, known, data, version, faults>>

Reload ==
  /\ Calm
  /\ user # NoUser
  /\ ~busy
  /\ Send(asked, {Load(user, tab, FALSE)})
  /\ busy' = TRUE
  /\ UNCHANGED <<tabs, user, known, address, tab, data, version, list, report, faults>>

\* Mutant: the tickets, which have a list of their own, are left out as well.
RefreshesWithoutTickets(t) == t \notin {"reports", "tickets"}

\* Every 15 seconds, and when the window is shown again.
Refreshes(t) == t # "reports"

SilentRefresh ==
  /\ user # NoUser
  /\ Refreshes(tab)
  /\ Send(asked, {Load(user, tab, TRUE)})
  /\ UNCHANGED <<tabs, user, known, address, tab, data, version, busy, list, report, faults>>

Form(t, needs) == [kind |-> "form", of |-> t, by |-> user,
                   answer |-> IF needs \in Permissions(user) THEN 0 ELSE Refused]

Offered(f) == /\ f.shown \in Permissions(user) \cup {None}
              /\ f.feature \in known \cup {None}

SubmitForm(f) ==
  /\ Calm
  /\ user # NoUser
  /\ f \in Forms(tab)
  /\ Offered(f)
  /\ Send(asked, {Form(tab, f.needs)})
  /\ IF f.needs \in Permissions(user)
     THEN version < MaxVersion /\ version' = version + 1
     ELSE UNCHANGED version
  /\ busy' = TRUE
  /\ UNCHANGED <<tabs, user, known, address, tab, data, list, report, faults>>

\* A ticket of the list is deleted.
DeleteTicket ==
  /\ Calm
  /\ tab = "tickets"
  /\ "tickets.cancel" \in Permissions(user)
  /\ version < MaxVersion
  /\ version' = version + 1
  /\ Send(asked, {Form("tickets", "tickets.cancel")})
  /\ busy' = TRUE
  /\ UNCHANGED <<tabs, user, known, address, tab, data, list, report, faults>>

\* Another date or page of the tickets.
ChooseDate(f) ==
  /\ Calm
  /\ user # NoUser
  /\ tab = "tickets"
  /\ f # list.chosen
  /\ LET kept == Drop(asked, {"dates"}) IN
     Send(kept, {Dates(user, f)})
  /\ list' = [list EXCEPT !.chosen = f, !.busy = TRUE, !.failed = FALSE]
  /\ UNCHANGED <<tabs, user, known, address, tab, data, version, busy, report, faults>>

\* Another period of the reports.
LoadRange(f) ==
  /\ Calm
  /\ user # NoUser
  /\ tab = "reports"
  /\ LET kept == Drop(asked, {"range"}) IN
     Send(kept, {ForFilter("range", f, user, "reports.view")})
  /\ report' = [report EXCEPT !.wanted = f, !.applied = TRUE, !.failed = FALSE]
  /\ busy' = TRUE
  /\ UNCHANGED <<tabs, user, known, address, tab, data, version, list, faults>>

\* A period that ends before it starts.
InvalidRange ==
  /\ user # NoUser
  /\ tab = "reports"
  /\ asked' = Drop(asked, {"range"})
  /\ report' = [report EXCEPT !.applied = TRUE, !.failed = TRUE]
  /\ UNCHANGED <<tabs, user, known, address, tab, data, version, busy, list, faults>>

-----------------------------------------------------------------------------
(* The answers.                                                            *)

Rest(q) == asked \ {q}

\* Mutant: run() ends its busy state only when the request succeeds.
BusyAfterSuccess(q) == busy' = (busy /\ (q.kind \notin RunKinds \/ q.answer = Refused))

BusyAfter(q) == busy' = (busy /\ q.kind \notin RunKinds)

LoginAnswered(q) ==
  /\ q.kind = "login"
  /\ user' = q.of
  /\ Opened(q.of, Rest(q))
  /\ UNCHANGED <<tabs, known, address, data, version, faults>>

\* Mutant: the tab is not looked at again when the features change.
FeaturesAnsweredOnly(q) ==
  /\ q.kind = "features"
  /\ known' = IF q.answer = Refused THEN {} ELSE PlanFeatures
  /\ asked' = Rest(q)
  /\ UNCHANGED <<tabs, user, address, tab, data, version, busy, list, report, faults>>

FeaturesAnswered(q) ==
  /\ q.kind = "features"
  /\ known' = IF q.answer = Refused THEN {} ELSE PlanFeatures
  /\ IF user = NoUser
     THEN /\ asked' = Rest(q)
          /\ UNCHANGED <<tab, busy, list, report>>
     ELSE ShowTab(user, TabFromSearch(address, AvailableTabs(user, known')), Rest(q))
  /\ UNCHANGED <<tabs, user, address, data, version, faults>>

\* New rows of the tickets tab make its list ask for its date again, and new
\* reports are shown if no period has been asked for.
LoadAnswered(q) ==
  LET again == q.of = "tickets" /\ tab = "tickets" /\ user # NoUser
  IN /\ q.kind \in {"load", "refresh"}
     /\ BusyAfter(q)
     /\ IF q.answer = Refused
        THEN asked' = Rest(q) /\ UNCHANGED <<data, list>>
        ELSE /\ data' = [data EXCEPT ![q.of] = q.answer]
             /\ Send(Drop(Rest(q), IF again THEN {"dates"} ELSE {}),
                     IF again THEN {Dates(user, list.chosen)} ELSE {})
             /\ list' = IF again THEN [list EXCEPT !.busy = TRUE, !.failed = FALSE] ELSE list
     /\ report' = IF q.of = "reports" /\ q.answer # Refused /\ ~report.applied
                  THEN [report EXCEPT !.shown = Default] ELSE report
     /\ UNCHANGED <<tabs, user, known, address, tab, version, faults>>

\* A form that was accepted loads the tab it was sent from; a deleted ticket
\* does so silently.
FormAnswered(q) ==
  LET silent == q.of = "tickets"
  IN /\ q.kind = "form"
     /\ IF q.answer = Refused
        THEN asked' = Rest(q) /\ busy' = FALSE
        ELSE /\ Send(Rest(q), {Load(IF user = NoUser THEN q.by ELSE user, q.of, silent)})
             /\ busy' = ~silent
     /\ UNCHANGED <<tabs, user, known, address, tab, data, version, list, report, faults>>

DatesAnswered(q) ==
  /\ q.kind = "dates"
  /\ list' = IF q.answer = Refused
             THEN [list EXCEPT !.rows = None, !.busy = FALSE, !.failed = TRUE]
             ELSE [list EXCEPT !.rows = q.of, !.busy = FALSE]
  /\ asked' = Rest(q)
  /\ UNCHANGED <<tabs, user, known, address, tab, data, version, busy, report, faults>>

RangeAnswered(q) ==
  /\ q.kind = "range"
  /\ report' = IF q.answer = Refused THEN [report EXCEPT !.failed = TRUE]
                                     ELSE [report EXCEPT !.shown = q.of]
  /\ asked' = Rest(q)
  /\ busy' = FALSE
  /\ UNCHANGED <<tabs, user, known, address, tab, data, version, list, faults>>

LateAnswered(q) ==
  /\ q = Late
  /\ asked' = Rest(q)
  /\ BusyAfter(q)
  /\ UNCHANGED <<tabs, user, known, address, tab, data, version, list, report, faults>>

Answered(q) ==
  \/ LoginAnswered(q) \/ FeaturesAnswered(q) \/ LoadAnswered(q) \/ FormAnswered(q)
  \/ DatesAnswered(q) \/ RangeAnswered(q) \/ LateAnswered(q)

\* The connection fails, or the service does: the answer counts as refused.
AnswerLost(q) ==
  /\ q.kind \notin {"login", "late"}
  /\ q.answer # Refused
  /\ faults < MaxFaults
  /\ faults' = faults + 1
  /\ asked' = Rest(q) \cup {[q EXCEPT !.answer = Refused]}
  /\ UNCHANGED <<tabs, user, known, address, tab, data, version, busy, list, report>>

\* The session behind the request is over and cannot be renewed.
SessionLost(q) ==
  /\ q.kind # "login"
  /\ faults < MaxFaults
  /\ faults' = faults + 1
  /\ LoggedOut(Rest(q))
  /\ BusyAfter(q)
  /\ UNCHANGED <<tabs, address, version>>

\* Merchants sell, the service settles.
WorldChanges ==
  /\ version < MaxVersion
  /\ version' = version + 1
  /\ UNCHANGED <<tabs, user, known, address, tab, data, asked, busy, list, report, faults>>

-----------------------------------------------------------------------------
Init ==
  /\ tabs \in Menus
  /\ user = NoUser
  /\ known = {}
  /\ address \in tabs
  /\ tab = "dashboard"
  /\ data = [t \in tabs |-> Blank]
  /\ version = 0
  /\ asked = {}
  /\ busy = FALSE
  /\ list = NewList
  /\ report = NewReport
  /\ faults = 0

Next ==
  \/ \E u \in Users : Login(u)
  \/ Logout \/ TokenRenewed \/ Reload \/ SilentRefresh \/ DeleteTicket
  \/ InvalidRange \/ WorldChanges
  \/ \E t \in tabs : NavigateTab(t) \/ PopState(t)
  \/ \E f \in Forms(tab) : SubmitForm(f)
  \/ \E f \in Filters : ChooseDate(f) \/ LoadRange(f)
  \/ \E q \in asked : Answered(q) \/ AnswerLost(q) \/ SessionLost(q)

Spec == Init /\ [][Next]_vars

TabKinds == {"load", "refresh"}

AnsweredOf(kinds) == \E q \in asked : q.kind \in kinds /\ Answered(q)

FairSpec == /\ Spec
            /\ WF_vars(SilentRefresh)
            /\ WF_vars(AnsweredOf(TabKinds))
            /\ WF_vars(AnsweredOf(ListKinds))
            /\ WF_vars(AnsweredOf({"login", "features", "form", "late"}))

-----------------------------------------------------------------------------
(* Properties.                                                             *)

\* A request and the answer it was served with.
Asked ==
  [kind : {"load", "refresh"}, of : tabs, answer : 0..MaxVersion \cup {Refused}]
  \cup [kind : {"form"}, of : tabs, by : Users, answer : {0, Refused}]
  \cup [kind : {"dates", "range"}, of : Filters, answer : {0, Refused}]
  \cup [kind : {"features"}, of : {None}, answer : {0, Refused}]
  \cup [kind : {"login"}, of : Users, answer : {0}] \cup {Late}

TypeOK ==
  /\ tabs \in Menus /\ {address, tab} \subseteq tabs
  /\ user \in Users \cup {NoUser} /\ known \in {{}, PlanFeatures}
  /\ data \in [tabs -> 0..MaxVersion \cup {Blank}] /\ version \in 0..MaxVersion
  /\ asked \subseteq Asked /\ busy \in BOOLEAN /\ faults \in 0..MaxFaults
  /\ list \in [chosen : Filters, rows : Filters \cup {None}, busy : BOOLEAN, failed : BOOLEAN]
  /\ report \in [wanted : Filters, shown : Filters, applied : BOOLEAN, failed : BOOLEAN]

\* The tab shown is one the user may open with the features known, through
\* logins of others, histories of others and late answers.  The one exception
\* is where the dashboard's own button has led him: to the reports, as long as
\* the address names them.
OnlyPermittedTabs ==
  user # NoUser => \/ tab \in AvailableTabs(user, known)
                   \/ tab = "reports" /\ address = "reports"

\* A list or a report that is not waiting and has not failed shows the date or
\* the period chosen last, whatever the order of the answers and the reloads.
ShownMatchesFilter ==
  /\ tab = "tickets" /\ ~list.busy => list.failed \/ list.rows = list.chosen
  /\ tab = "reports" /\ report.applied /\ ~report.failed
       /\ (\A q \in asked : q.kind # "range")
       => report.shown = report.wanted

\* The buttons that wait for run() to end are released with its last request.
BusyMeansRunning == busy => Running

\* A tab that refreshes itself and whose endpoints the user may read shows the
\* data as they are, again and again: lost and overtaken answers are repaired.
ShownCatchesUp ==
  []<>(\/ user = NoUser \/ tab = "reports" \/ ~MayLoad(user, tab)
       \/ data[tab] = version)

=============================================================================
