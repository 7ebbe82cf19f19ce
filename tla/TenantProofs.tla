---------------------------- MODULE TenantProofs ----------------------------
(***************************************************************************)
(* What becomes of a tenant: the limits of its plan, the branches of its   *)
(* devices (Accounts), for any number of rows and of                       *)
(* requests handled at one time; and its subscriptions under the job of    *)
(* any number of replicas (Maintenance, whose definitions begin with Job). *)
(*                                                                         *)
(* AccountsInv is inductive.  Its core is Fresh: while no two handlers have *)
(* met, what the one under way saw is still so when it writes.             *)
(*                                                                         *)
(* JobInv is inductive.  Its core is GraceKept: until staff come in        *)
(* between, a row in hand has the period it was read with, and a grace in  *)
(* the table was granted in full.                                          *)
(***************************************************************************)
EXTENDS Accounts, Maintenance, FiniteSetTheorems, TLAPS

\* The branches about to be created.
Pending == {h \in Handlers : job[h].op = "branch"}

\* Every device that has a merchant has one that exists, and so has every request about to give it one.
MerchantsExist ==
    /\ \A d \in Devices : /\ device[d].merchant # Nobody => device[d].merchant \in Unarchived
                          /\ device[d].status = "none" => device[d].merchant = Nobody
    /\ \A h \in Handlers :
          /\ job[h].op \in {"device", "assign"} /\ job[h].merchant # Nobody => job[h].merchant \in Unarchived
          /\ job[h].op = "edit" => job[h].merchant \in Unarchived
          /\ job[h].op = "assign" => device[job[h].device].status # "none"

\* What the handler h is about to write fits what there is now.
Fresh(h) ==
    /\ job[h].op = "branch" => BranchRoom
    /\ job[h].op = "edit" => job[h].from = merchant[job[h].merchant].branch
    /\ job[h].op \in {"device", "assign"} /\ job[h].merchant # Nobody =>
          merchant[job[h].merchant].branch = job[h].branch

\* While no two have met, one handler at most is under way, and it is fresh.
OneAtATime ==
    ~overlapped =>
        /\ \A g, h \in Handlers : job[g] # Idle /\ job[h] # Idle => g = h
        /\ \A h \in Handlers : Fresh(h)

\* Every device is in the branch of its merchant.
Together ==
    ~overlapped => \A d \in Devices :
        device[d].merchant # Nobody => merchant[device[d].merchant].branch = device[d].branch

\* The branches there are and those under way.
BranchesCounted ==
    /\ ~overlapped => /\ Cardinality(branch) <= plan
                      /\ plan \in Single => Cardinality(branch) <= 1
    /\ overlapped => /\ Cardinality(branch) + Cardinality(Pending) <= plan + Cardinality(Handlers)
                     /\ plan \in Single => Cardinality(branch) + Cardinality(Pending) <= 1 + Cardinality(Handlers)

AccountsInv == TypeOK /\ MerchantsExist /\ OneAtATime /\ Together /\ BranchesCounted
-----------------------------------------------------------------------------
\* What a handler is about to write, by its kind (the look of each service method).
LEMMA JobParts ==
    ASSUME NEW j \in Jobs
    PROVE  /\ j.op = "merchant" => j.branch \in Branches
           /\ j.op = "edit" => j.merchant \in Merchants /\ j.from \in Places /\ j.branch \in Branches
           /\ j.op = "device" => j.branch \in Places /\ j.merchant \in Merchants \cup {Nobody}
           /\ j.op = "assign" => /\ j.device \in Devices /\ j.branch \in Branches
                                 /\ j.merchant \in Merchants \cup {Nobody}
           /\ j.op = "unblock" => j.device \in Devices
           /\ j.op = "unown" => j.owner \in Owners
           /\ j.op = "idle" <=> j = Idle
  BY DEF Jobs, Idle

\* Every step keeps the types.
LEMMA TypesKept ==
    ASSUME TypeOK, [Next]_vars
    PROVE  TypeOK'
<1> USE AccountsAssumption DEF TypeOK
<1>1. ASSUME NEW h \in Handlers, NEW j \in Jobs, Begin(h, j) PROVE TypeOK'
  BY <1>1 DEF Begin, MeetsOthers
<1>2. ASSUME NEW h \in Handlers, LookAtBranches(h) PROVE TypeOK'
  <2>1. [op |-> "branch"] \in Jobs
    BY DEF Jobs
  <2> QED
    BY <1>1, <1>2, <2>1 DEF LookAtBranches
<1>3. ASSUME NEW h \in Handlers, LookAtMerchants(h) PROVE TypeOK'
  <2>1. PICK b \in branch : Begin(h, [op |-> "merchant", branch |-> b])
    BY <1>3 DEF LookAtMerchants
  <2>2. [op |-> "merchant", branch |-> b] \in Jobs
    BY DEF Jobs
  <2> QED
    BY <1>1, <2>1, <2>2
<1>4. ASSUME NEW h \in Handlers, NEW m \in Merchants, LookAtMerchant(h, m) PROVE TypeOK'
  <2>1. PICK b \in branch : Begin(h, [op |-> "edit", merchant |-> m, from |-> merchant[m].branch, branch |-> b])
    BY <1>4 DEF LookAtMerchant
  <2>2. [op |-> "edit", merchant |-> m, from |-> merchant[m].branch, branch |-> b] \in Jobs
    BY DEF Jobs
  <2> QED
    BY <1>1, <2>1, <2>2
<1>5. ASSUME NEW h \in Handlers, LookForRegistration(h) \/ LookForEnrollment(h) PROVE TypeOK'
  <2>1. PICK b \in Places, m \in Merchants \cup {Nobody} : Begin(h, [op |-> "device", branch |-> b, merchant |-> m])
    BY <1>5 DEF LookForRegistration, LookForEnrollment, Active, Places
  <2>2. [op |-> "device", branch |-> b, merchant |-> m] \in Jobs
    BY DEF Jobs
  <2> QED
    BY <1>1, <2>1, <2>2
<1>6. ASSUME NEW h \in Handlers, NEW d \in Devices, LookAtDevice(h, d) PROVE TypeOK'
  <2>1. PICK b \in Branches, m \in Merchants \cup {Nobody} :
            Begin(h, [op |-> "assign", device |-> d, branch |-> b, merchant |-> m])
    BY <1>6 DEF LookAtDevice
  <2>2. [op |-> "assign", device |-> d, branch |-> b, merchant |-> m] \in Jobs
    BY DEF Jobs
  <2> QED
    BY <1>1, <2>1, <2>2
<1>7. ASSUME NEW h \in Handlers, NEW d \in Devices, LookAtBlocked(h, d) PROVE TypeOK'
  <2>1. [op |-> "unblock", device |-> d] \in Jobs
    BY DEF Jobs
  <2> QED
    BY <1>1, <1>7, <2>1 DEF LookAtBlocked
<1>8. ASSUME NEW h \in Handlers, NEW o \in Owners, LookAtOwners(h, o) PROVE TypeOK'
  <2>1. [op |-> "unown", owner |-> o] \in Jobs
    BY DEF Jobs
  <2> QED
    BY <1>1, <1>8, <2>1 DEF LookAtOwners
<1>9. ASSUME NEW h \in Handlers, End(h) PROVE job' \in [Handlers -> Jobs] /\ overlapped' \in BOOLEAN
  <2>1. Idle \in Jobs
    BY DEF Jobs
  <2> QED
    BY <1>9, <2>1 DEF End
<1>10. ASSUME NEW h \in Handlers, CreateBranch(h) PROVE TypeOK'
  BY <1>9, <1>10 DEF CreateBranch
<1>11. ASSUME NEW h \in Handlers, CreateMerchant(h) PROVE TypeOK'
  <2>1. job[h].branch \in Branches
    BY <1>11, JobParts DEF CreateMerchant
  <2>2. merchant' \in [Merchants -> [status : {"none", "ACTIVE", "DISABLED"}, branch : Places]]
    BY <1>11, <2>1 DEF CreateMerchant, Places
  <2> QED
    BY <1>9, <1>11, <2>2 DEF CreateMerchant
<1>12. ASSUME NEW h \in Handlers, UpdateMerchant(h) PROVE TypeOK'
  <2>1. job[h].branch \in Places /\ job[h].merchant \in Merchants
    BY <1>12, JobParts DEF UpdateMerchant, Places
  <2>2. Moved(job[h].merchant, job[h].from, job[h].branch) \in
            [Devices -> [status : {"none", "PENDING", "OFFLINE", "BLOCKED"}, branch : Places,
                         merchant : Merchants \cup {Nobody}]]
    BY <2>1 DEF Moved
  <2>3. merchant' \in [Merchants -> [status : {"none", "ACTIVE", "DISABLED"}, branch : Places]]
    BY <1>12, <2>1 DEF UpdateMerchant
  <2> QED
    BY <1>9, <1>12, <2>2, <2>3 DEF UpdateMerchant
<1>13. ASSUME NEW h \in Handlers, CreateDevice(h) PROVE TypeOK'
  <2>1. job[h].branch \in Places /\ job[h].merchant \in Merchants \cup {Nobody}
    BY <1>13, JobParts DEF CreateDevice
  <2> QED
    BY <1>9, <1>13, <2>1 DEF CreateDevice
<1>14. ASSUME NEW h \in Handlers, AssignDevice(h) PROVE TypeOK'
  <2>1. job[h].branch \in Places /\ job[h].merchant \in Merchants \cup {Nobody}
    BY <1>14, JobParts DEF AssignDevice, Places
  <2>2. device' = [device EXCEPT ![job[h].device].branch = job[h].branch, ![job[h].device].merchant = job[h].merchant]
    BY <1>14 DEF AssignDevice
  <2>3. device' \in [Devices -> [status : {"none", "PENDING", "OFFLINE", "BLOCKED"},
                                branch : Places, merchant : Merchants \cup {Nobody}]]
    BY <2>1, <2>2, ZenonT(60)
  <2>4. UNCHANGED <<plan, branch, merchant, owners>> /\ End(h)
    BY <1>14 DEF AssignDevice
  <2> QED
    BY <1>9, <2>3, <2>4
<1>15. ASSUME NEW h \in Handlers, UnblockDevice(h) PROVE TypeOK'
  BY <1>9, <1>15, ZenonT(60) DEF UnblockDevice
<1>16. ASSUME NEW h \in Handlers, RemoveOwner(h) PROVE TypeOK'
  BY <1>9, <1>16 DEF RemoveOwner
<1>17. ASSUME NEW d \in Devices, Block(d) \/ Approve(d) PROVE TypeOK'
  <2>1. overlapped' \in BOOLEAN
    BY <1>17 DEF Block, Approve, MeetsOthers
  <2>2. PICK s \in {"BLOCKED", "OFFLINE"} : device' = [device EXCEPT ![d].status = s]
    BY <1>17 DEF Block, Approve
  <2>3. device' \in [Devices -> [status : {"none", "PENDING", "OFFLINE", "BLOCKED"}, branch : Places,
                                 merchant : Merchants \cup {Nobody}]]
    BY <2>2
  <2> QED
    BY <1>17, <2>1, <2>3 DEF Block, Approve
<1>18. ASSUME NEW m \in Merchants, NEW s \in {"ACTIVE", "DISABLED"}, SetMerchant(m, s) PROVE TypeOK'
  BY <1>18 DEF SetMerchant, MeetsOthers
<1>19. ASSUME NEW p \in Plans, ChangePlan(p) PROVE TypeOK'
  BY <1>19 DEF ChangePlan, MeetsOthers
<1>20. CASE UNCHANGED vars
  BY <1>20 DEF vars
<1> QED
  BY <1>2, <1>3, <1>4, <1>5, <1>6, <1>7, <1>8, <1>10, <1>11, <1>12, <1>13, <1>14, <1>15, <1>16, <1>17,
     <1>18, <1>19, <1>20 DEF Next

\* Requests under way are counted, and there are not more of them than handlers.
LEMMA PendingBound ==
    /\ IsFiniteSet(Handlers) /\ Cardinality(Handlers) \in Nat
    /\ IsFiniteSet(Pending) /\ Cardinality(Pending) \in Nat /\ Cardinality(Pending) <= Cardinality(Handlers)
<1>1. IsFiniteSet(Handlers) /\ Pending \subseteq Handlers
  BY AccountsAssumption DEF Pending
<1> QED
  BY <1>1, FS_Subset, FS_CardinalityType

\* Branches are counted (branches.service.ts: limit).
LEMMA BranchCount ==
    ASSUME TypeOK
    PROVE  IsFiniteSet(branch) /\ Cardinality(branch) \in Nat /\ plan \in Nat
<1>1. IsFiniteSet(branch) /\ plan \in Nat
  BY AccountsAssumption, FS_Subset DEF TypeOK
<1> QED
  BY <1>1, FS_CardinalityType

\* A step that makes no branch and leaves the plan keeps the count, a look at the limit included.
LEMMA CountKept ==
    ASSUME TypeOK, TypeOK', BranchesCounted, overlapped => overlapped', plan' = plan, branch' = branch,
           Pending' \subseteq Pending \/ BranchRoom
    PROVE  BranchesCounted'
<1>1. /\ Cardinality(branch) \in Nat /\ plan \in Nat
      /\ Cardinality(Pending) \in Nat /\ Cardinality(Handlers) \in Nat /\ IsFiniteSet(Pending)
  BY BranchCount, PendingBound
<1>2. Cardinality(Pending') \in Nat /\ Cardinality(Pending') <= Cardinality(Handlers)
  <2>1. IsFiniteSet(Handlers) /\ Pending' \subseteq Handlers
    BY AccountsAssumption DEF Pending
  <2> QED
    BY <2>1, FS_Subset, FS_CardinalityType
<1>3. CASE ~overlapped
  BY <1>1, <1>2, <1>3 DEF BranchesCounted
<1>4. CASE overlapped /\ Pending' \subseteq Pending
  <2>1. Cardinality(Pending') <= Cardinality(Pending)
    BY <1>1, <1>4, FS_Subset
  <2> QED
    BY <1>1, <1>2, <1>4, <2>1 DEF BranchesCounted
<1>5. CASE overlapped /\ BranchRoom
  <2>1. /\ Cardinality(branch) < plan
        /\ plan \in Single => Cardinality(branch) = 0
    BY <1>5, FS_EmptySet DEF BranchRoom
  <2> QED
    BY <1>1, <1>2, <1>5, <2>1 DEF BranchesCounted
<1> QED
  BY <1>3, <1>4, <1>5

\* When nobody is under way unless two have met, there is nothing to be fresh.
LEMMA NobodyUnderWay ==
    ASSUME overlapped' \/ \A g \in Handlers : job'[g] = Idle
    PROVE  OneAtATime'
  BY DEF OneAtATime, Fresh, Idle

\* A handler that ends was the only one under way, unless two have met.
LEMMA EndsAlone ==
    ASSUME TypeOK, OneAtATime, NEW h \in Handlers, job[h] # Idle, End(h)
    PROVE  /\ overlapped' \/ \A g \in Handlers : job'[g] = Idle
           /\ overlapped' = overlapped
           /\ \A g \in Handlers : job'[g] = IF g = h THEN Idle ELSE job[g]
           /\ Pending' \subseteq Pending
<1>1. /\ overlapped' = overlapped
      /\ \A g \in Handlers : job'[g] = IF g = h THEN Idle ELSE job[g]
  BY DEF End, TypeOK
<1>2. Pending' \subseteq Pending
  BY <1>1 DEF Pending, Idle
<1> QED
  BY <1>1, <1>2 DEF OneAtATime

\* A step of one statement leaves nobody under way, or two have met.
LEMMA MeetsAlone ==
    ASSUME MeetsOthers, job' = job
    PROVE  /\ overlapped' \/ \A g \in Handlers : job'[g] = Idle
           /\ overlapped => overlapped'
           /\ Pending' = Pending
  BY DEF MeetsOthers, Pending

\* What exists goes on existing: merchants and devices are created, and never removed, by the steps.
LEMMA ExistKept ==
    ASSUME MerchantsExist, Unarchived \subseteq Unarchived',
           \A d \in Devices : device[d].status # "none" => device'[d].status # "none",
           \A g \in Handlers : job'[g] \in {Idle, job[g]},
           \A g \in Handlers : job[g].op = "assign" => job[g].device \in Devices,
           \A d \in Devices : /\ device'[d].merchant # Nobody => device'[d].merchant \in Unarchived'
                              /\ device'[d].status = "none" => device'[d].merchant = Nobody
    PROVE  MerchantsExist'
<1>1. ASSUME NEW g \in Handlers
      PROVE  /\ job'[g].op \in {"device", "assign"} /\ job'[g].merchant # Nobody => job'[g].merchant \in Unarchived'
             /\ job'[g].op = "edit" => job'[g].merchant \in Unarchived'
             /\ job'[g].op = "assign" => device'[job'[g].device].status # "none"
  <2>1. CASE job'[g] = Idle
    BY <2>1 DEF Idle
  <2>2. CASE job'[g] = job[g]
    BY <2>2 DEF MerchantsExist
  <2> QED
    BY <2>1, <2>2
<1> QED
  BY <1>1 DEF MerchantsExist

\* A handler that has looked and found what its request needs keeps the invariant.
LEMMA LookKeeps ==
    ASSUME AccountsInv, TypeOK', NEW h \in Handlers, NEW j, Begin(h, j), j # Idle,
           j.op \in {"device", "assign"} /\ j.merchant # Nobody =>
               j.merchant \in Unarchived /\ merchant[j.merchant].branch = j.branch,
           j.op = "edit" => j.merchant \in Unarchived /\ j.from = merchant[j.merchant].branch,
           j.op = "assign" => device[j.device].status # "none",
           j.op = "branch" => BranchRoom
    PROVE  AccountsInv'
<1> USE DEF AccountsInv
<1>1. /\ \A g \in Handlers : job'[g] = IF g = h THEN j ELSE job[g]
      /\ overlapped' = (overlapped \/ \E g \in Handlers : job[g] # Idle)
      /\ UNCHANGED <<plan, branch, merchant, device, owners>>
      /\ job[h] = Idle
  BY DEF Begin, MeetsOthers, TypeOK
<1>2. MerchantsExist'
  BY <1>1 DEF MerchantsExist, Unarchived
<1>3. OneAtATime'
  <2>1. SUFFICES ASSUME ~overlapped' PROVE /\ \A g, k \in Handlers : job'[g] # Idle /\ job'[k] # Idle => g = k
                                         /\ \A g \in Handlers : Fresh(g)'
    BY DEF OneAtATime
  <2>2. \A g \in Handlers : job[g] = Idle
    BY <1>1, <2>1
  <2>3. \A g \in Handlers : job'[g] = IF g = h THEN j ELSE Idle
    BY <1>1, <2>2
  <2>4. ASSUME NEW g \in Handlers, g # h PROVE Fresh(g)'
    BY <2>3, <2>4 DEF Fresh, Idle
  <2>5. Fresh(h)'
    BY <1>1 DEF Fresh, BranchRoom
  <2> QED
    BY <2>3, <2>4, <2>5
<1>4. BranchesCounted'
  <2>1. Pending' \subseteq Pending \/ BranchRoom
    BY <1>1 DEF Pending
  <2> QED
    BY <1>1, <2>1, CountKept
<1>5. Together'
  BY <1>1 DEF Together
<1> QED
  BY <1>2, <1>3, <1>4, <1>5

\* Each look finds what LookKeeps asks for (the LIMIT_REACHED, INVALID_BRANCH and LAST_TENANT_OWNER checks).
LEMMA LooksKeep ==
    ASSUME AccountsInv, TypeOK', NEW h \in Handlers,
           \/ LookAtBranches(h) \/ LookAtMerchants(h) \/ LookForRegistration(h) \/ LookForEnrollment(h)
           \/ \E m \in Merchants : LookAtMerchant(h, m)
           \/ \E d \in Devices : LookAtDevice(h, d) \/ LookAtBlocked(h, d)
           \/ \E o \in Owners : LookAtOwners(h, o)
    PROVE  AccountsInv'
<1>1. CASE LookAtBranches(h)
  <2> DEFINE j == [op |-> "branch"]
  <2>1. Begin(h, j) /\ BranchRoom /\ j # Idle
    BY <1>1 DEF LookAtBranches, Idle
  <2> QED
    BY <2>1, LookKeeps
<1>2. CASE LookAtMerchants(h)
  <2>1. PICK b \in branch : Begin(h, [op |-> "merchant", branch |-> b])
    BY <1>2 DEF LookAtMerchants
  <2> DEFINE j == [op |-> "merchant", branch |-> b]
  <2>2. j # Idle
    BY DEF Idle
  <2> QED
    BY <2>1, <2>2, LookKeeps
<1>3. ASSUME NEW m \in Merchants, LookAtMerchant(h, m) PROVE AccountsInv'
  <2>1. PICK b \in branch : Begin(h, [op |-> "edit", merchant |-> m, from |-> merchant[m].branch, branch |-> b])
    BY <1>3 DEF LookAtMerchant
  <2> DEFINE j == [op |-> "edit", merchant |-> m, from |-> merchant[m].branch, branch |-> b]
  <2>2. j # Idle /\ m \in Unarchived
    BY <1>3 DEF Idle, LookAtMerchant
  <2> QED
    BY <2>1, <2>2, LookKeeps
<1>4. CASE LookForRegistration(h) \/ LookForEnrollment(h)
  <2>1. PICK b, m : /\ Begin(h, [op |-> "device", branch |-> b, merchant |-> m])
                    /\ m # Nobody => m \in Unarchived /\ merchant[m].branch = b
    BY <1>4 DEF LookForRegistration, LookForEnrollment, MayAssign, Active, Unarchived
  <2> DEFINE j == [op |-> "device", branch |-> b, merchant |-> m]
  <2>2. j # Idle
    BY DEF Idle
  <2> QED
    BY <2>1, <2>2, LookKeeps
<1>5. ASSUME NEW d \in Devices, LookAtDevice(h, d) PROVE AccountsInv'
  <2>1. PICK b, m : /\ Begin(h, [op |-> "assign", device |-> d, branch |-> b, merchant |-> m])
                    /\ m # Nobody => m \in Unarchived /\ merchant[m].branch = b
    BY <1>5 DEF LookAtDevice, MayAssign, Active, Unarchived
  <2> DEFINE j == [op |-> "assign", device |-> d, branch |-> b, merchant |-> m]
  <2>2. j # Idle /\ device[d].status # "none"
    BY <1>5 DEF Idle, LookAtDevice
  <2> QED
    BY <2>1, <2>2, LookKeeps
<1>6. ASSUME NEW d \in Devices, LookAtBlocked(h, d) PROVE AccountsInv'
  <2> DEFINE j == [op |-> "unblock", device |-> d]
  <2>1. Begin(h, j) /\ j # Idle
    BY <1>6 DEF LookAtBlocked, Idle
  <2> QED
    BY <2>1, LookKeeps
<1>7. ASSUME NEW o \in Owners, LookAtOwners(h, o) PROVE AccountsInv'
  <2> DEFINE j == [op |-> "unown", owner |-> o]
  <2>1. Begin(h, j) /\ j # Idle
    BY <1>7 DEF LookAtOwners, Idle
  <2> QED
    BY <2>1, LookKeeps
<1> QED
  BY <1>1, <1>2, <1>3, <1>4, <1>5, <1>6, <1>7

\* A branch is created by a handler that has counted: one more branch, one request less.
LEMMA CreateBranchKeeps ==
    ASSUME AccountsInv, TypeOK', NEW h \in Handlers, CreateBranch(h)
    PROVE  AccountsInv'
<1> USE DEF AccountsInv
<1>1. /\ job[h] # Idle /\ h \in Pending /\ End(h)
      /\ UNCHANGED <<plan, merchant, device, owners>>
  BY DEF CreateBranch, Idle, Pending
<1>2. /\ overlapped' \/ \A g \in Handlers : job'[g] = Idle
      /\ overlapped' = overlapped
      /\ \A g \in Handlers : job'[g] = IF g = h THEN Idle ELSE job[g]
  BY <1>1, EndsAlone
<1>3. BranchesCounted'
  <2>1. /\ Cardinality(branch) \in Nat /\ IsFiniteSet(branch) /\ plan \in Nat
        /\ Cardinality(Pending) \in Nat /\ IsFiniteSet(Pending) /\ Cardinality(Handlers) \in Nat
    BY BranchCount, PendingBound
  <2>2. Cardinality(branch') = Cardinality(branch) + 1
    <3>1. PICK b \in Branches \ branch : branch' = branch \cup {b}
      BY DEF CreateBranch
    <3> QED
      BY <2>1, <3>1, FS_AddElement
  <2>3. Cardinality(Pending') = Cardinality(Pending) - 1
    <3>1. Pending' = Pending \ {h}
      BY <1>2 DEF Pending, Idle
    <3> QED
      BY <1>1, <2>1, <3>1, FS_RemoveElement
  <2>4. ~overlapped => /\ Cardinality(branch) < plan
                       /\ plan \in Single => Cardinality(branch) = 0
    BY <1>1, FS_EmptySet DEF OneAtATime, Fresh, Pending, BranchRoom
  <2> QED
    BY <1>1, <1>2, <2>1, <2>2, <2>3, <2>4 DEF BranchesCounted
<1>4. OneAtATime'
  BY <1>2, NobodyUnderWay
<1>5. MerchantsExist'
  <2>1. \A g \in Handlers : job'[g] \in {Idle, job[g]}
    BY <1>2
  <2> QED
    BY <1>1, <2>1, ExistKept, JobParts DEF TypeOK, Unarchived, MerchantsExist
<1>6. Together'
  BY <1>1, <1>2 DEF Together
<1> QED
  BY <1>3, <1>4, <1>5, <1>6

\* The other writes, of merchants, devices and owners: what they write goes with what there is.
LEMMA WritesKeep ==
    ASSUME AccountsInv, TypeOK', NEW h \in Handlers,
           \/ CreateMerchant(h) \/ UpdateMerchant(h) \/ CreateDevice(h)
           \/ AssignDevice(h) \/ UnblockDevice(h) \/ RemoveOwner(h)
    PROVE  AccountsInv'
<1> USE DEF AccountsInv
<1> DEFINE j == job[h]
<1>1. j # Idle /\ End(h) /\ UNCHANGED <<plan, branch>>
  BY DEF CreateMerchant, UpdateMerchant, CreateDevice, AssignDevice, UnblockDevice, RemoveOwner, Idle
<1>2. /\ overlapped' \/ \A g \in Handlers : job'[g] = Idle
      /\ overlapped' = overlapped
      /\ \A g \in Handlers : job'[g] \in {Idle, job[g]}
      /\ Pending' \subseteq Pending
  BY <1>1, EndsAlone
<1>3. OneAtATime' /\ BranchesCounted'
  BY <1>1, <1>2, NobodyUnderWay, CountKept
<1>4. \A g \in Handlers : job[g].op = "assign" => job[g].device \in Devices
  BY JobParts DEF TypeOK
<1>5. ~overlapped => Fresh(h)
  BY DEF OneAtATime
<1>6. CASE CreateMerchant(h)
  <2>1. PICK m \in Merchants \ Unarchived : merchant' = [merchant EXCEPT ![m] = [status |-> "ACTIVE", branch |-> j.branch]]
    BY <1>6 DEF CreateMerchant
  <2>2. UNCHANGED <<device, owners>>
    BY <1>6 DEF CreateMerchant
  <2>3. Unarchived \subseteq Unarchived'
    BY <2>1 DEF Unarchived, TypeOK
  <2>4. MerchantsExist'
    <3>1. \A d \in Devices : /\ device'[d].merchant # Nobody => device'[d].merchant \in Unarchived'
                             /\ device'[d].status = "none" => device'[d].merchant = Nobody
      BY <2>2, <2>3 DEF MerchantsExist
    <3> QED
      BY <1>2, <1>4, <2>2, <2>3, <3>1, ExistKept
  <2>5. Together'
    <3>1. \A n \in Unarchived : merchant'[n] = merchant[n]
      BY <2>1 DEF TypeOK, Unarchived
    <3> QED
      BY <1>2, <2>2, <3>1 DEF Together, MerchantsExist
  <2> QED
    BY <1>3, <2>4, <2>5
<1>7. CASE UpdateMerchant(h)
  <2>1. /\ merchant' = [merchant EXCEPT ![j.merchant].branch = j.branch]
        /\ device' = Moved(j.merchant, j.from, j.branch)
        /\ owners' = owners /\ j.op = "edit"
    BY <1>7 DEF UpdateMerchant
  <2>2. j.merchant \in Unarchived
    BY <2>1 DEF MerchantsExist
  <2>3. \A n \in Merchants : /\ merchant'[n].status = merchant[n].status
                            /\ merchant'[n].branch = IF n = j.merchant THEN j.branch ELSE merchant[n].branch
    BY <2>1 DEF TypeOK
  <2>4. Unarchived' = Unarchived
    BY <2>3 DEF Unarchived
  <2>5. \A d \in Devices : /\ device'[d].status = device[d].status
                           /\ device'[d].merchant = device[d].merchant
    BY <2>1 DEF Moved, TypeOK
  <2>6. MerchantsExist'
    <3>1. \A d \in Devices : /\ device'[d].merchant # Nobody => device'[d].merchant \in Unarchived'
                             /\ device'[d].status = "none" => device'[d].merchant = Nobody
      BY <2>4, <2>5 DEF MerchantsExist
    <3> QED
      BY <1>2, <1>4, <2>4, <2>5, <3>1, ExistKept
  <2>7. Together'
    <3>1. SUFFICES ASSUME ~overlapped, NEW d \in Devices, device[d].merchant # Nobody
                   PROVE  merchant'[device[d].merchant].branch = device'[d].branch
      BY <1>2, <2>5 DEF Together
    <3>2. /\ j.from = merchant[j.merchant].branch
          /\ merchant[device[d].merchant].branch = device[d].branch
          /\ device[d].merchant \in Merchants /\ device[d].status # "none"
      BY <1>5, <2>1, <3>1 DEF Fresh, Together, MerchantsExist, Unarchived
    <3>3. CASE j.from = j.branch \/ device[d].merchant # j.merchant
      BY <2>1, <2>3, <3>2, <3>3 DEF Moved, TypeOK
    <3>4. CASE j.from # j.branch /\ device[d].merchant = j.merchant
      BY <2>1, <2>3, <3>2, <3>4 DEF Moved, TypeOK
    <3> QED
      BY <3>3, <3>4
  <2> QED
    BY <1>3, <2>6, <2>7
<1>8. CASE CreateDevice(h)
  <2>1. PICK d \in Devices : /\ device[d].status = "none"
                             /\ device' = [device EXCEPT ![d] = [status |-> "PENDING", branch |-> j.branch,
                                                                 merchant |-> j.merchant]]
    BY <1>8 DEF CreateDevice
  <2>2. UNCHANGED <<merchant, owners>> /\ j.op = "device"
    BY <1>8 DEF CreateDevice
  <2>3. \A e \in Devices : device'[e] = IF e = d THEN [status |-> "PENDING", branch |-> j.branch, merchant |-> j.merchant]
                                        ELSE device[e]
    BY <2>1 DEF TypeOK
  <2>4. MerchantsExist'
    <3>1. Unarchived' = Unarchived
      BY <2>2 DEF Unarchived
    <3>2. \A e \in Devices : /\ device'[e].merchant # Nobody => device'[e].merchant \in Unarchived'
                             /\ device'[e].status = "none" => device'[e].merchant = Nobody
      BY <2>2, <2>3, <3>1 DEF MerchantsExist
    <3>3. \A e \in Devices : device[e].status # "none" => device'[e].status # "none"
      BY <2>3
    <3> QED
      BY <1>2, <1>4, <3>1, <3>2, <3>3, ExistKept
  <2>5. Together'
    BY <1>2, <1>5, <2>2, <2>3 DEF Together, Fresh
  <2> QED
    BY <1>3, <2>4, <2>5
<1>9. CASE AssignDevice(h)
  <2>1. /\ device' = [device EXCEPT ![j.device].branch = j.branch, ![j.device].merchant = j.merchant]
        /\ UNCHANGED <<merchant, owners>> /\ j.op = "assign"
    BY <1>9 DEF AssignDevice
  <2>2. \A e \in Devices :
            /\ device'[e].status = device[e].status
            /\ device'[e].branch = IF e = j.device THEN j.branch ELSE device[e].branch
            /\ device'[e].merchant = IF e = j.device THEN j.merchant ELSE device[e].merchant
    BY <1>4, <2>1 DEF TypeOK
  <2>3. MerchantsExist'
    <3>1. Unarchived' = Unarchived
      BY <2>1 DEF Unarchived
    <3>2. \A e \in Devices : /\ device'[e].merchant # Nobody => device'[e].merchant \in Unarchived'
                             /\ device'[e].status = "none" => device'[e].merchant = Nobody
      <4>1. /\ j.merchant # Nobody => j.merchant \in Unarchived
            /\ device[j.device].status # "none"
        BY <2>1 DEF MerchantsExist
      <4>2. ASSUME NEW e \in Devices, e = j.device
            PROVE  /\ device'[e].merchant = j.merchant
                   /\ device'[e].status # "none"
        BY <2>2, <4>1, <4>2
      <4>3. ASSUME NEW e \in Devices, e # j.device
            PROVE  device'[e].merchant = device[e].merchant /\ device'[e].status = device[e].status
        BY <2>2, <4>3
      <4> QED
        BY <3>1, <4>1, <4>2, <4>3 DEF MerchantsExist
    <3> QED
      BY <1>2, <1>4, <2>2, <3>1, <3>2, ExistKept
  <2>4. Together'
    <3>1. ~overlapped /\ j.merchant # Nobody => merchant[j.merchant].branch = j.branch
      BY <1>5, <2>1 DEF Fresh
    <3>2. ASSUME ~overlapped, NEW e \in Devices, device'[e].merchant # Nobody
          PROVE  merchant'[device'[e].merchant].branch = device'[e].branch
      <4>1. CASE e = j.device
        BY <2>1, <2>2, <3>1, <3>2, <4>1
      <4>2. CASE e # j.device
        <5>1. device'[e].merchant = device[e].merchant /\ device'[e].branch = device[e].branch
          BY <2>2, <4>2
        <5>2. merchant' = merchant
          BY <2>1
        <5> QED
          BY <3>2, <5>1, <5>2 DEF Together
      <4> QED
        BY <4>1, <4>2
    <3> QED
      BY <1>2, <3>2 DEF Together
  <2> QED
    BY <1>3, <2>3, <2>4
<1>10. CASE UnblockDevice(h)
  <2>1. /\ device' = [device EXCEPT ![j.device].status = "OFFLINE"]
        /\ UNCHANGED <<merchant, owners>> /\ j.op = "unblock"
    BY <1>10 DEF UnblockDevice
  <2>2. \A e \in Devices :
            /\ device'[e].status = IF e = j.device THEN "OFFLINE" ELSE device[e].status
            /\ device'[e].branch = device[e].branch
            /\ device'[e].merchant = device[e].merchant
    BY <2>1 DEF TypeOK
  <2>3. MerchantsExist'
    <3>1. Unarchived' = Unarchived
      BY <2>1 DEF Unarchived
    <3>2. \A e \in Devices : /\ device'[e].merchant # Nobody => device'[e].merchant \in Unarchived'
                             /\ device'[e].status = "none" => device'[e].merchant = Nobody
      BY <2>2, <3>1 DEF MerchantsExist
    <3> QED
      BY <1>2, <1>4, <2>2, <3>1, <3>2, ExistKept
  <2>4. Together'
    BY <1>2, <2>1, <2>2 DEF Together
  <2> QED
    BY <1>3, <2>3, <2>4
<1>11. CASE RemoveOwner(h)
  <2>1. owners' = owners \ {j.owner} /\ UNCHANGED <<merchant, device>> /\ j.op = "unown"
    BY <1>11 DEF RemoveOwner
  <2>2. MerchantsExist'
    <3>1. Unarchived' = Unarchived
      BY <2>1 DEF Unarchived
    <3>2. \A e \in Devices : /\ device'[e].merchant # Nobody => device'[e].merchant \in Unarchived'
                             /\ device'[e].status = "none" => device'[e].merchant = Nobody
      BY <2>1, <3>1 DEF MerchantsExist
    <3> QED
      BY <1>2, <1>4, <2>1, <3>1, <3>2, ExistKept
  <2>3. Together'
    BY <1>2, <2>1 DEF Together
  <2> QED
    BY <1>3, <2>2, <2>3
<1> QED
  BY <1>6, <1>7, <1>8, <1>9, <1>10, <1>11

\* The handlers of one statement or transaction (block, approve, disable, change of plan).
LEMMA StatementsKeep ==
    ASSUME AccountsInv, TypeOK',
           \/ \E d \in Devices : Block(d) \/ Approve(d)
           \/ \E m \in Merchants, s \in {"ACTIVE", "DISABLED"} : SetMerchant(m, s)
           \/ \E p \in Plans : ChangePlan(p)
    PROVE  AccountsInv'
<1> USE DEF AccountsInv
<1>1. MeetsOthers /\ UNCHANGED <<branch, owners, job>>
  BY DEF Block, Approve, SetMerchant, ChangePlan
<1>2. OneAtATime'
  BY <1>1, MeetsAlone, NobodyUnderWay
<1>3. overlapped => overlapped'
  BY <1>1, MeetsAlone
<1>5. /\ \A g \in Handlers : job'[g] \in {Idle, job[g]}
      /\ \A g \in Handlers : job[g].op = "assign" => job[g].device \in Devices
  BY <1>1, JobParts DEF TypeOK
<1>6. ASSUME NEW d \in Devices, Block(d) \/ Approve(d) PROVE AccountsInv'
  <2>1. PICK s \in {"BLOCKED", "OFFLINE"} : device' = [device EXCEPT ![d].status = s]
    BY <1>6 DEF Block, Approve
  <2>2. UNCHANGED <<plan, merchant>> /\ device[d].status # "none"
    BY <1>6 DEF Block, Approve
  <2>3. \A e \in Devices : /\ device'[e].status = IF e = d THEN s ELSE device[e].status
                           /\ device'[e].branch = device[e].branch
                           /\ device'[e].merchant = device[e].merchant
    BY <2>1 DEF TypeOK
  <2>4. MerchantsExist'
    <3>1. Unarchived' = Unarchived
      BY <2>2 DEF Unarchived
    <3>2. \A e \in Devices : /\ device'[e].merchant # Nobody => device'[e].merchant \in Unarchived'
                             /\ device'[e].status = "none" => device'[e].merchant = Nobody
      BY <2>3, <3>1 DEF MerchantsExist
    <3> QED
      BY <1>5, <2>3, <3>1, <3>2, ExistKept
  <2>5. Together'
    BY <1>3, <2>2, <2>3 DEF Together
  <2>6. BranchesCounted'
    BY <1>1, <1>3, <2>2, MeetsAlone, CountKept
  <2> QED
    BY <1>2, <2>4, <2>5, <2>6
<1>7. ASSUME NEW m \in Merchants, NEW s \in {"ACTIVE", "DISABLED"}, SetMerchant(m, s) PROVE AccountsInv'
  <2>1. /\ merchant' = [merchant EXCEPT ![m].status = s] /\ m \in Unarchived
        /\ UNCHANGED <<plan, device>>
    BY <1>7 DEF SetMerchant
  <2>2. \A n \in Merchants : /\ merchant'[n].status = IF n = m THEN s ELSE merchant[n].status
                            /\ merchant'[n].branch = merchant[n].branch
    BY <2>1 DEF TypeOK
  <2>3. Unarchived' = Unarchived
    BY <2>1, <2>2 DEF Unarchived
  <2>4. MerchantsExist'
    BY <1>1, <2>1, <2>3 DEF MerchantsExist
  <2>5. Together'
    BY <1>3, <2>1, <2>2 DEF Together, MerchantsExist, Unarchived
  <2>6. BranchesCounted'
    BY <1>1, <1>3, <2>1, MeetsAlone, CountKept
  <2> QED
    BY <1>2, <2>4, <2>5, <2>6
<1>8. ASSUME NEW p \in Plans, ChangePlan(p) PROVE AccountsInv'
  <2>1. plan' = p /\ Fits(p) /\ UNCHANGED <<merchant, device>>
    BY <1>8 DEF ChangePlan
  <2>2. MerchantsExist' /\ Together'
    BY <1>1, <1>3, <2>1 DEF MerchantsExist, Together, Unarchived
  <2>3. BranchesCounted'
    <3>1. /\ Cardinality(branch) \in Nat /\ p \in Nat
          /\ Cardinality(Pending) \in Nat /\ Cardinality(Handlers) \in Nat
          /\ Cardinality(Pending) <= Cardinality(Handlers)
      BY BranchCount, PendingBound, AccountsAssumption
    <3>2. Cardinality(branch) <= p /\ (p \in Single => Cardinality(branch) <= 1)
      BY <2>1, <3>1 DEF Fits
    <3>3. Pending' = Pending
      BY <1>1, MeetsAlone
    <3> QED
      BY <1>1, <2>1, <3>1, <3>2, <3>3 DEF BranchesCounted
  <2> QED
    BY <1>2, <2>2, <2>3
<1> QED
  BY <1>6, <1>7, <1>8

LEMMA InitHolds ==
    ASSUME Init
    PROVE  AccountsInv
<1> USE AccountsAssumption DEF Init
<1>1. TypeOK
  BY DEF TypeOK, Jobs, NoMerchant, NoDevice, Places
<1>2. \A h \in Handlers : job[h] = Idle
  OBVIOUS
<1>3. MerchantsExist
  BY <1>2 DEF MerchantsExist, NoDevice, Idle
<1>4. OneAtATime
  BY <1>2 DEF OneAtATime, Fresh, Idle
<1>5. Together
  BY DEF Together, NoDevice
<1>6. BranchesCounted
  BY <1>1, BranchCount, FS_EmptySet DEF BranchesCounted
<1> QED
  BY <1>1, <1>3, <1>4, <1>5, <1>6 DEF AccountsInv

-----------------------------------------------------------------------------
\* The invariant holds in every state: whatever requests are handled at one time, and however they interleave
\* between their looks and their writes.
THEOREM AccountsInvariant == Spec => []AccountsInv
<1>1. Init => AccountsInv
  BY InitHolds
<1>2. AccountsInv /\ [Next]_vars => AccountsInv'
  <2> SUFFICES ASSUME AccountsInv, [Next]_vars PROVE AccountsInv'
    OBVIOUS
  <2>1. TypeOK'
    BY TypesKept DEF AccountsInv
  <2>2. CASE UNCHANGED vars
    <3>1. UNCHANGED <<plan, branch, merchant, device, owners, job, overlapped>>
      BY <2>2 DEF vars
    <3>2. Unarchived' = Unarchived /\ Pending' = Pending
      BY <3>1 DEF Unarchived, Pending
    <3> QED
      BY <2>1, <3>1, <3>2 DEF AccountsInv, MerchantsExist, OneAtATime, Fresh, BranchRoom, Together,
         BranchesCounted
  <2>3. ASSUME NEW h \in Handlers,
               \/ LookAtBranches(h) \/ LookAtMerchants(h) \/ LookForRegistration(h) \/ LookForEnrollment(h)
               \/ \E m \in Merchants : LookAtMerchant(h, m)
               \/ \E d \in Devices : LookAtDevice(h, d) \/ LookAtBlocked(h, d)
               \/ \E o \in Owners : LookAtOwners(h, o)
        PROVE  AccountsInv'
    BY <2>1, <2>3, LooksKeep
  <2>4. ASSUME NEW h \in Handlers, CreateBranch(h) PROVE AccountsInv'
    BY <2>1, <2>4, CreateBranchKeeps
  <2>5. ASSUME NEW h \in Handlers,
               \/ CreateMerchant(h) \/ UpdateMerchant(h) \/ CreateDevice(h)
               \/ AssignDevice(h) \/ UnblockDevice(h) \/ RemoveOwner(h)
        PROVE  AccountsInv'
    BY <2>1, <2>5, WritesKeep
  <2>6. CASE \/ \E d \in Devices : Block(d) \/ Approve(d)
             \/ \E m \in Merchants, s \in {"ACTIVE", "DISABLED"} : SetMerchant(m, s)
             \/ \E p \in Plans : ChangePlan(p)
    BY <2>1, <2>6, StatementsKeep
  <2> QED
    BY <2>2, <2>3, <2>4, <2>5, <2>6 DEF Next
<1> QED
  BY <1>1, <1>2, PTL DEF Spec

\* Accounts, devices, owners and the requests under way are of their types (merchants, devices, users).
THEOREM TypeCorrect == Spec => []TypeOK
<1>1. AccountsInv => TypeOK
  BY DEF AccountsInv
<1> QED
  BY <1>1, AccountsInvariant, PTL

\* The branches exceed the plan at most by the requests handled at one time, through downgrades too
\* (branches.service.ts: limit; subscriptions.service.ts: assertLimits).
THEOREM LimitOfBranches == Spec => []BranchLimit
<1>1. AccountsInv => BranchLimit
  <2> SUFFICES ASSUME AccountsInv PROVE BranchLimit
    OBVIOUS
  <2>1. /\ Cardinality(branch) \in Nat /\ plan \in Nat
        /\ Cardinality(Pending) \in Nat /\ Cardinality(Handlers) \in Nat
    BY BranchCount, PendingBound DEF AccountsInv
  <2> QED
    BY <2>1 DEF AccountsInv, BranchesCounted, BranchLimit, Slack
<1> QED
  BY <1>1, AccountsInvariant, PTL

\* A device is in the branch of its merchant unless two requests overlapped (merchants.service.ts: update;
\* devices.service.ts: assignment).
THEOREM DevicesStayWithMerchants == Spec => []DevicesFollowMerchants
<1>1. AccountsInv => DevicesFollowMerchants
  BY DEF AccountsInv, Together, DevicesFollowMerchants
<1> QED
  BY <1>1, AccountsInvariant, PTL

-----------------------------------------------------------------------------
(* The maintenance job.                                                    *)

\* What a replica has in hand, by where its tick stands (jobs.service.ts: subscriptions, notifications).
RowsInHand ==
    \A r \in Replicas :
        /\ at[r] \in {"idle", "tasks"} => todo[r] = {}
        /\ at[r] \in {"grace", "suspend"} => todo[r] \subseteq Subs \X Rows
        /\ at[r] = "sending" => todo[r] \subseteq Notes \X {n \in Mail : n.attempts < MaxAttempts}
        /\ today[r] <= now

\* The grace of a row ends GraceDays after its period, or later.
Granted(ends, row) == row.grace # 0 => ends + GraceDays <= row.grace

\* Until staff have come in between: the grace in the table has been granted in full, and what a task is about to
\* write rests on the period the row still has.
GraceKept ==
    ~raced =>
        /\ \A s \in Subs : Granted(sub[s].ends, sub[s])
        /\ \A r \in Replicas : at[r] = "grace" =>
              \A x \in todo[r] : sub[x[1]].ends <= today[r] /\ Granted(sub[x[1]].ends, x[2])

\* The replicas that have a notification in hand.
Holding(n) == {r \in Replicas : at[r] = "sending" /\ \E x \in todo[r] : x[1] = n}

\* Each of them can still add one to its attempts.
TriesCounted ==
    /\ \A r \in Replicas : at[r] = "sending" => \A x, y \in todo[r] : x[1] = y[1] => x = y
    /\ \A n \in Notes : note[n].attempts + Cardinality(Holding(n)) <= MostAttempts

JobInv == JobTypeOK /\ RowsInHand /\ TriesCounted /\ GraceKept /\ GraceIsGranted
-----------------------------------------------------------------------------
LEMMA ReplicasCounted ==
    /\ Cardinality(Replicas) \in Nat /\ MostAttempts \in Nat
    /\ \A S \in SUBSET Replicas : IsFiniteSet(S) /\ Cardinality(S) \in Nat /\ Cardinality(S) <= Cardinality(Replicas)
    /\ \A S \in SUBSET Replicas : \A r \in Replicas \ S : Cardinality(S) <= Cardinality(Replicas) - 1
<1>1. IsFiniteSet(Replicas) /\ MaxAttempts \in Nat \ {0}
  BY MaintenanceAssumption
<1>2. Cardinality(Replicas) \in Nat
  BY <1>1, FS_CardinalityType
<1>3. ASSUME NEW S \in SUBSET Replicas
      PROVE  IsFiniteSet(S) /\ Cardinality(S) \in Nat /\ Cardinality(S) <= Cardinality(Replicas)
  BY <1>1, FS_Subset, FS_CardinalityType
<1>4. ASSUME NEW S \in SUBSET Replicas, NEW r \in Replicas \ S
      PROVE  Cardinality(S) <= Cardinality(Replicas) - 1
  <2>1. S \subseteq Replicas \ {r} /\ IsFiniteSet(Replicas \ {r})
    BY <1>1, <1>4, FS_Subset
  <2>2. Cardinality(Replicas \ {r}) = Cardinality(Replicas) - 1
    BY <1>1, <1>4, FS_RemoveElement
  <2> QED
    BY <2>1, <2>2, FS_Subset
<1> QED
  BY <1>1, <1>2, <1>3, <1>4 DEF MostAttempts

\* A step that counts nothing, and takes nothing in hand to send.
LEMMA NothingCounted ==
    ASSUME JobTypeOK, TriesCounted, \A n \in Notes : note'[n].attempts = note[n].attempts,
           \A r \in Replicas : at'[r] = "sending" => at[r] = "sending" /\ todo'[r] \subseteq todo[r]
    PROVE  TriesCounted'
<1>1. ASSUME NEW n \in Notes PROVE note'[n].attempts + Cardinality(Holding(n)') <= MostAttempts
  <2>1. Holding(n)' \subseteq Holding(n) /\ Holding(n) \subseteq Replicas
    BY DEF Holding
  <2>2. IsFiniteSet(Holding(n)) /\ Cardinality(Holding(n)) \in Nat /\ Cardinality(Holding(n)') \in Nat
    BY <2>1, ReplicasCounted
  <2>3. Cardinality(Holding(n)') <= Cardinality(Holding(n))
    BY <2>1, <2>2, FS_Subset
  <2>4. note[n].attempts \in Nat
    BY DEF JobTypeOK, Mail
  <2> QED
    BY <2>2, <2>3, <2>4, ReplicasCounted DEF TriesCounted
<1> QED
  BY <1>1 DEF TriesCounted, MostAttempts

LEMMA ReadCounted ==
    ASSUME JobTypeOK, TriesCounted, NEW r \in Replicas, ReadNotes(r)
    PROVE  TriesCounted'
<1> USE DEF JobTypeOK, rows, Move, Todo
<1>1. /\ at[r] # "sending" /\ note' = note /\ at'[r] = "sending"
      /\ todo'[r] = {<<n, note[n]>> : n \in DueNotes}
      /\ \A q \in Replicas \ {r} : at'[q] = at[q] /\ todo'[q] = todo[q]
  BY DEF ReadNotes
<1>2. ASSUME NEW n \in Notes PROVE note'[n].attempts + Cardinality(Holding(n)') <= MostAttempts
  <2>1. Holding(n) \subseteq Replicas /\ Holding(n)' \subseteq Replicas
    BY DEF Holding
  <2>2. note[n].attempts \in Nat
    BY DEF Mail
  <2>3. CASE n \in DueNotes
    <3>1. note[n].attempts <= MaxAttempts - 1
      BY <2>2, <2>3, MaintenanceAssumption DEF DueNotes
    <3>2. Cardinality(Holding(n)') \in Nat /\ Cardinality(Holding(n)') <= Cardinality(Replicas)
      BY <2>1, ReplicasCounted
    <3> QED
      BY <1>1, <2>2, <3>1, <3>2, ReplicasCounted, MaintenanceAssumption DEF MostAttempts
  <2>4. CASE n \notin DueNotes
    <3>1. Holding(n)' = Holding(n)
      BY <1>1, <2>4 DEF Holding
    <3> QED
      BY <1>1, <3>1 DEF TriesCounted
  <2> QED
    BY <2>3, <2>4
<1>3. ASSUME NEW q \in Replicas, at'[q] = "sending", NEW x \in todo'[q], NEW y \in todo'[q], x[1] = y[1]
      PROVE  x = y
  BY <1>1, <1>3 DEF TriesCounted
<1> QED
  BY <1>2, <1>3 DEF TriesCounted, MostAttempts

LEMMA DeliverCounted ==
    ASSUME JobTypeOK, RowsInHand, TriesCounted, NEW r \in Replicas, Deliver(r)
    PROVE  TriesCounted'
<1> USE DEF JobTypeOK, Todo
<1>1. PICK x \in todo[r] :
          /\ todo' = [todo EXCEPT ![r] = @ \ {x}]
          /\ \/ note' = [note EXCEPT ![x[1]] = [status |-> "SENT", due |-> @.due, attempts |-> @.attempts + 1]]
             \/ note' = [note EXCEPT ![x[1]] = Failed(x[2])]
  BY DEF Deliver
<1>2. at' = at /\ at[r] = "sending"
  BY DEF Deliver
<1>3. x[1] \in Notes /\ x[2].attempts \in Nat /\ x[2].attempts < MaxAttempts
  BY <1>2 DEF RowsInHand, Mail
<1>4. \A q \in Replicas : todo'[q] \subseteq todo[q]
  BY <1>1
<1>5. ASSUME NEW n \in Notes PROVE note'[n].attempts + Cardinality(Holding(n)') <= MostAttempts
  <2>1. Holding(n)' \subseteq Holding(n) /\ Holding(n) \subseteq Replicas /\ Holding(n)' \subseteq Replicas
    BY <1>2, <1>4 DEF Holding
  <2>2. note[n].attempts \in Nat /\ note[n].attempts + Cardinality(Holding(n)) <= MostAttempts
    BY DEF TriesCounted, Mail
  <2>3. IsFiniteSet(Holding(n)) /\ Cardinality(Holding(n)) \in Nat /\ Cardinality(Holding(n)') \in Nat
    BY <2>1, ReplicasCounted
  <2>4. CASE n = x[1]
    <3>1. r \in Holding(n)
      BY <1>2, <2>4 DEF Holding
    <3>2. \A y \in todo'[r] : y[1] # n
      BY <1>1, <1>2, <2>4 DEF TriesCounted
    <3>3. Holding(n)' \subseteq Holding(n) \ {r}
      BY <2>1, <3>2 DEF Holding
    <3>4. Cardinality(Holding(n) \ {r}) = Cardinality(Holding(n)) - 1 /\ IsFiniteSet(Holding(n) \ {r})
      BY <2>3, <3>1, FS_RemoveElement, FS_Subset
    <3>5. Cardinality(Holding(n)') <= Cardinality(Holding(n)) - 1
      BY <3>3, <3>4, FS_Subset
    <3>6. Cardinality(Holding(n)') <= Cardinality(Replicas) - 1
      BY <2>1, <3>3, ReplicasCounted
    <3>7. CASE note' = [note EXCEPT ![x[1]] = [status |-> "SENT", due |-> @.due, attempts |-> @.attempts + 1]]
      <4>1. note'[n].attempts = note[n].attempts + 1
        BY <2>4, <3>7
      <4> QED
        BY <2>2, <2>3, <3>5, <4>1, ReplicasCounted
    <3>8. CASE note' = [note EXCEPT ![x[1]] = Failed(x[2])]
      <4>1. note'[n].attempts = x[2].attempts + 1
        BY <2>4, <3>8 DEF Failed
      <4> QED
        BY <1>3, <2>3, <3>6, <4>1, ReplicasCounted, MaintenanceAssumption DEF MostAttempts
    <3> QED
      BY <1>1, <3>7, <3>8
  <2>5. CASE n # x[1]
    <3>1. note'[n] = note[n]
      BY <1>1, <2>5
    <3>2. Cardinality(Holding(n)') <= Cardinality(Holding(n))
      BY <2>1, <2>3, FS_Subset
    <3> QED
      BY <2>2, <2>3, <3>1, <3>2, ReplicasCounted
  <2> QED
    BY <2>4, <2>5
<1> QED
  BY <1>2, <1>4, <1>5 DEF TriesCounted, MostAttempts

LEMMA TriesStep ==
    ASSUME JobTypeOK, RowsInHand, TriesCounted, [JobNext]_jobVars
    PROVE  TriesCounted'
<1> USE DEF JobTypeOK, rows, Move, Todo
<1>1. CASE UNCHANGED jobVars
  BY <1>1, NothingCounted DEF jobVars
<1>2. CASE NextDay \/ LeaseLapses
  BY <1>2, NothingCounted DEF NextDay, LeaseLapses
<1>3. ASSUME NEW s \in Subs,
             Activate(s) \/ Extend(s) \/ \E t \in {"ACTIVE", "PAST_DUE", "SUSPENDED", "CANCELLED"} : SetStatus(s, t)
      PROVE  TriesCounted'
  <2>1. UNCHANGED <<note, at, todo>>
    BY <1>3 DEF Activate, Extend, SetStatus, Staff
  <2> QED
    BY <2>1, NothingCounted
<1>4. ASSUME NEW r \in Replicas, Tick(r) \/ BreakOff(r) \/ ReadExpired(r) \/ StartGrace(r) \/ ReadLapsed(r)
                                 \/ Suspend(r) \/ EndTick(r)
      PROVE  TriesCounted'
  <2>1. note' = note /\ (at'[r] = "sending" => at[r] = "sending" /\ todo'[r] \subseteq todo[r])
        /\ \A q \in Replicas \ {r} : at'[q] = at[q] /\ todo'[q] = todo[q]
    BY <1>4 DEF Tick, BreakOff, ReadExpired, StartGrace, ReadLapsed, Suspend, EndTick
  <2> QED
    BY <2>1, NothingCounted
<1>5. ASSUME NEW n \in Notes, BecomeDue(n) PROVE TriesCounted'
  <2>1. UNCHANGED <<at, todo>> /\ \A m \in Notes : note'[m].attempts = note[m].attempts
    BY <1>5 DEF BecomeDue, Mail
  <2> QED
    BY <2>1, NothingCounted
<1> QED
  BY <1>1, <1>2, <1>3, <1>4, <1>5, ReadCounted, DeliverCounted DEF JobNext, Task

\* What a tick writes to a row it has in hand has the type of a row.
LEMMA JobTypesKept ==
    ASSUME JobTypeOK, RowsInHand, TriesCounted, TriesCounted', [JobNext]_jobVars
    PROVE  JobTypeOK' /\ RowsInHand'
<1> USE MaintenanceAssumption DEF JobTypeOK, RowsInHand, rows, Move, Todo
<1>1. CASE UNCHANGED jobVars
  BY <1>1 DEF jobVars
<1>2. CASE NextDay
  <2>1. now' \in 1..MaxTime /\ now <= now' /\ \A r \in Replicas : today[r] <= now'
    BY <1>2 DEF NextDay
  <2> QED
    BY <1>2, <2>1 DEF NextDay
<1>11. CASE LeaseLapses
  BY <1>11 DEF LeaseLapses
<1>3. ASSUME NEW s \in Subs,
             Activate(s) \/ Extend(s) \/ \E t \in {"ACTIVE", "PAST_DUE", "SUSPENDED", "CANCELLED"} : SetStatus(s, t)
      PROVE  JobTypeOK' /\ RowsInHand'
  <2>1. UNCHANGED <<now, note, lease, at, today, todo, faults>>
    BY <1>3 DEF Activate, Extend, SetStatus, Staff
  <2>5. acts' \in 0..MaxActs
    BY <1>3 DEF Activate, Extend, SetStatus, Staff, Act
  <2>6. raced' \in BOOLEAN
    <3>1. raced' = (raced \/ \E r \in Replicas : at[r] # "sending" /\ todo[r] # {})
      BY <1>3, Zenon DEF Activate, Extend, SetStatus, Staff
    <3> QED
      BY <3>1, Zenon
  <2>7. byStaff' \in BOOLEAN
    <3>1. byStaff' = FALSE \/ \E t \in {"ACTIVE", "PAST_DUE", "SUSPENDED", "CANCELLED"} : byStaff' = (t = "SUSPENDED")
      BY <1>3, Zenon DEF Activate, Extend, SetStatus
    <3> QED
      BY <3>1, Zenon
  <2>8. tenant' \in {"ACTIVE", "SUSPENDED"}
    BY <1>3 DEF Activate, Extend, SetStatus
  <2>2. CASE Activate(s)
    <3>1. \A x \in Subs : sub'[x] \in Rows
      BY <2>2 DEF Activate, Rows, Status
    <3> QED
      BY <2>1, <2>5, <2>6, <2>7, <2>8, <2>2, <3>1 DEF Activate
  <2>3. CASE Extend(s)
    <3>1. ExtensionBase(sub[s].ends) + 1 \in 0..MaxTime + 1
      BY <2>3 DEF Extend, ExtensionBase, Rows
    <3>2. [status |-> "ACTIVE", grace |-> 0, ends |-> ExtensionBase(sub[s].ends) + 1] \in Rows
      BY <3>1 DEF Rows, Status
    <3> QED
      BY <2>1, <2>5, <2>6, <2>7, <2>8, <2>3, <3>2 DEF Extend
  <2>4. ASSUME NEW t \in {"ACTIVE", "PAST_DUE", "SUSPENDED", "CANCELLED"}, SetStatus(s, t) PROVE sub' \in [Subs -> Rows]
    BY <2>4 DEF SetStatus, Rows, Status
  <2> QED
    BY <1>3, <2>1, <2>2, <2>3, <2>4, <2>5, <2>6, <2>7, <2>8
<1>4. ASSUME NEW r \in Replicas, Tick(r) \/ BreakOff(r) \/ EndTick(r) PROVE JobTypeOK' /\ RowsInHand'
  <2>1. CASE Tick(r)
    BY <2>1 DEF Tick
  <2>2. CASE BreakOff(r)
    BY <2>2 DEF BreakOff
  <2>3. CASE EndTick(r)
    BY <2>3 DEF EndTick
  <2> QED
    BY <1>4, <2>1, <2>2, <2>3
<1>5. ASSUME NEW r \in Replicas, ReadExpired(r) \/ ReadLapsed(r) PROVE JobTypeOK' /\ RowsInHand'
  <2>1. {<<s, sub[s]>> : s \in ExpiredSubs} \subseteq Subs \X Rows
    BY DEF ExpiredSubs
  <2>2. {<<s, sub[s]>> : s \in LapsedSubs(today[r])} \subseteq Subs \X Rows
    BY DEF LapsedSubs
  <2>3. todo'[r] \subseteq Subs \X Rows /\ todo' = [todo EXCEPT ![r] = todo'[r]] /\ today'[r] \in 0..MaxTime
    BY <1>5, <2>1, <2>2 DEF ReadExpired, ReadLapsed
  <2> QED
    BY <1>5, <2>3 DEF ReadExpired, ReadLapsed
<1>6. ASSUME NEW r \in Replicas, StartGrace(r) PROVE JobTypeOK' /\ RowsInHand'
  <2>1. PICK x \in todo[r] :
            /\ sub' = [sub EXCEPT ![x[1]].status = "PAST_DUE", ![x[1]].grace = GraceEnd(x[2], today[r])]
            /\ todo' = [todo EXCEPT ![r] = @ \ {x}]
    BY <1>6 DEF StartGrace
  <2>2. x[1] \in Subs /\ x[2] \in Rows
    BY <1>6 DEF StartGrace
  <2>3. GraceEnd(x[2], today[r]) \in 0..MaxTime + GraceDays
    BY <2>2 DEF GraceEnd, Rows
  <2>4. sub' \in [Subs -> Rows]
    BY <2>1, <2>2, <2>3 DEF Rows, Status
  <2> QED
    BY <1>6, <2>1, <2>4 DEF StartGrace
<1>7. ASSUME NEW r \in Replicas, Suspend(r) PROVE JobTypeOK' /\ RowsInHand'
  <2>1. PICK x \in todo[r] : sub' = [sub EXCEPT ![x[1]].status = "SUSPENDED"] /\ todo' = [todo EXCEPT ![r] = @ \ {x}]
    BY <1>7 DEF Suspend
  <2>2. x[1] \in Subs
    BY <1>7 DEF Suspend
  <2>3. sub' \in [Subs -> Rows]
    BY <2>1, <2>2 DEF Rows, Status
  <2> QED
    BY <1>7, <2>1, <2>3 DEF Suspend
<1>8. ASSUME NEW r \in Replicas, ReadNotes(r) PROVE JobTypeOK' /\ RowsInHand'
  <2>1. {<<n, note[n]>> : n \in DueNotes} \subseteq Notes \X {n \in Mail : n.attempts < MaxAttempts}
    BY DEF DueNotes
  <2>2. {<<n, note[n]>> : n \in DueNotes} \subseteq Notes \X Mail
    BY <2>1
  <2> QED
    BY <1>8, <2>1, <2>2 DEF ReadNotes
<1>9. ASSUME NEW r \in Replicas, Deliver(r) PROVE JobTypeOK' /\ RowsInHand'
  <2>1. PICK x \in todo[r] :
            /\ todo' = [todo EXCEPT ![r] = @ \ {x}]
            /\ \/ note' = [note EXCEPT ![x[1]] = [status |-> "SENT", due |-> @.due, attempts |-> @.attempts + 1]]
               \/ note' = [note EXCEPT ![x[1]] = Failed(x[2])]
    BY <1>9 DEF Deliver
  <2>2. x[1] \in Notes /\ x[2] \in Mail /\ x[2].attempts \in Nat /\ \A m \in Notes : note[m].attempts \in Nat
    BY <1>9 DEF Deliver, Mail
  <2>3. note'[x[1]].attempts \in 0..MostAttempts
    <3>1. note'[x[1]].attempts \in Nat
      BY <2>1, <2>2 DEF Failed
    <3>2. Holding(x[1])' \subseteq Replicas
      BY DEF Holding
    <3>3. Cardinality(Holding(x[1])') \in Nat /\ MostAttempts \in Nat
      BY <3>2, ReplicasCounted
    <3>4. note'[x[1]].attempts + Cardinality(Holding(x[1])') <= MostAttempts
      BY <2>2 DEF TriesCounted, MostAttempts
    <3> QED
      BY <3>1, <3>3, <3>4
  <2>4. note'[x[1]] \in Mail
    <3>1. PICK s \in {"SENT", "FAILED"}, d \in BOOLEAN, k \in Nat :
              note'[x[1]] = [status |-> s, attempts |-> k, due |-> d]
      <4>1. CASE note' = [note EXCEPT ![x[1]] = [status |-> "SENT", due |-> @.due, attempts |-> @.attempts + 1]]
        <5>1. note'[x[1]] = [status |-> "SENT", attempts |-> note[x[1]].attempts + 1, due |-> note[x[1]].due]
          BY <2>2, <4>1
        <5>2. note[x[1]].due \in BOOLEAN /\ note[x[1]].attempts + 1 \in Nat
          BY <2>2 DEF Mail
        <5> QED
          BY <5>1, <5>2
      <4>2. CASE note' = [note EXCEPT ![x[1]] = Failed(x[2])]
        <5>1. note'[x[1]] = [status |-> "FAILED", attempts |-> x[2].attempts + 1, due |-> FALSE]
          BY <2>2, <4>2 DEF Failed
        <5>2. x[2].attempts + 1 \in Nat
          BY <2>2
        <5> QED
          BY <5>1, <5>2
      <4> QED
        BY <2>1, <4>1, <4>2
    <3>2. k \in 0..MostAttempts
      BY <2>3, <3>1
    <3> QED
      BY <3>1, <3>2 DEF Mail
  <2>5. note' \in [Notes -> Mail]
    BY <2>1, <2>2, <2>4
  <2> QED
    BY <1>9, <2>1, <2>5 DEF Deliver
<1>10. ASSUME NEW n \in Notes, BecomeDue(n) PROVE JobTypeOK' /\ RowsInHand'
  BY <1>10 DEF BecomeDue, Mail
<1> QED
  BY <1>1, <1>2, <1>3, <1>4, <1>5, <1>6, <1>7, <1>8, <1>9, <1>10, <1>11 DEF JobNext, Task

\* A step of staff that meets no rows in hand grants nothing in part: it clears the grace or moves neither end.
LEMMA StaffKeepGrace ==
    ASSUME JobInv, NEW s \in Subs,
           Activate(s) \/ Extend(s) \/ \E t \in {"ACTIVE", "PAST_DUE", "SUSPENDED", "CANCELLED"} : SetStatus(s, t)
    PROVE  GraceKept' /\ GraceIsGranted'
<1> USE DEF JobInv, JobTypeOK
<1> SUFFICES ASSUME ~raced' PROVE GraceKept' /\ GraceIsGranted'
  BY DEF GraceKept, GraceIsGranted
<1>1. ~raced /\ UNCHANGED <<at, todo, today>> /\ \A r \in Replicas : at[r] = "sending" \/ todo[r] = {}
  BY DEF Activate, Extend, SetStatus, Staff
<1>2. \A x \in Subs : sub'[x].grace = 0 \/ (sub'[x].grace = sub[x].grace /\ sub'[x].ends = sub[x].ends)
  BY DEF Activate, Extend, SetStatus, Rows
<1>3. \A x \in Subs : Granted(sub'[x].ends, sub'[x])
  BY <1>1, <1>2 DEF GraceKept, Granted
<1> QED
  BY <1>1, <1>3 DEF GraceKept, GraceIsGranted, Granted

\* A step of the job leaves every period as it is, and grants from the day it began.
LEMMA JobKeepsGrace ==
    ASSUME JobInv, NEW r \in Replicas, Task(r)
    PROVE  GraceKept' /\ GraceIsGranted'
<1> USE MaintenanceAssumption DEF JobInv, JobTypeOK, rows, Move, Todo
<1> SUFFICES ASSUME ~raced PROVE GraceKept' /\ GraceIsGranted'
  BY DEF GraceKept, GraceIsGranted, Task, ReadExpired, StartGrace, ReadLapsed, Suspend, ReadNotes, Deliver, EndTick
<1>0. \A s \in Subs : sub[s].ends \in Nat /\ sub[s].grace \in Nat
  BY DEF Rows
<1>1. CASE ReadExpired(r)
  <2>1. \A x \in todo'[r] : x[1] \in Subs /\ x[2] = sub[x[1]] /\ sub[x[1]].ends <= now
    BY <1>1 DEF ReadExpired, ExpiredSubs
  <2>2. today'[r] = now /\ sub' = sub /\ now' = now /\ at'[r] = "grace"
        /\ \A q \in Replicas : q # r => at'[q] = at[q] /\ todo'[q] = todo[q] /\ today'[q] = today[q]
    BY <1>1 DEF ReadExpired
  <2>3. \A x \in todo'[r] : Granted(sub[x[1]].ends, x[2])
    BY <2>1 DEF GraceKept
  <2> QED
    BY <2>1, <2>2, <2>3 DEF GraceKept, GraceIsGranted, Granted
<1>2. CASE StartGrace(r)
  <2>1. PICK x \in todo[r] :
            /\ sub' = [sub EXCEPT ![x[1]].status = "PAST_DUE", ![x[1]].grace = GraceEnd(x[2], today[r])]
            /\ todo' = [todo EXCEPT ![r] = @ \ {x}]
    BY <1>2 DEF StartGrace
  <2>2. x[1] \in Subs /\ x[2] \in Rows /\ today[r] \in Nat
    BY <1>2 DEF StartGrace, RowsInHand
  <2>3. sub[x[1]].ends <= today[r] /\ Granted(sub[x[1]].ends, x[2])
    BY <1>2 DEF StartGrace, GraceKept
  <2>4. sub[x[1]].ends + GraceDays <= GraceEnd(x[2], today[r])
    BY <1>0, <2>2, <2>3 DEF GraceEnd, Granted
  <2>5. \A s \in Subs : sub'[s].ends = sub[s].ends /\ Granted(sub'[s].ends, sub'[s])
    BY <1>0, <2>1, <2>2, <2>4 DEF GraceKept, Granted, Rows
  <2>6. UNCHANGED <<at, today, now, raced>> /\ \A q \in Replicas : todo'[q] \subseteq todo[q]
    BY <1>2, <2>1 DEF StartGrace
  <2>7. \A q \in Replicas : at[q] \in {"grace", "suspend"} => \A y \in todo[q] : y[1] \in Subs
    BY DEF RowsInHand
  <2> QED
    BY <2>5, <2>6, <2>7 DEF GraceKept, GraceIsGranted, Granted
<1>3. CASE ReadLapsed(r)
  <2>1. today[r] <= now /\ today[r] \in Nat /\ now \in Nat
    BY DEF RowsInHand
  <2>2. \A x \in todo'[r] : x[1] \in Subs /\ sub[x[1]].grace # 0 /\ sub[x[1]].grace <= today[r]
    BY <1>3 DEF ReadLapsed, LapsedSubs
  <2>3. \A x \in todo'[r] : sub[x[1]].ends + GraceDays <= now
    BY <1>0, <2>1, <2>2 DEF GraceKept, Granted
  <2>4. UNCHANGED <<sub, now, today, raced>> /\ at'[r] = "suspend"
        /\ \A q \in Replicas : q # r => at'[q] = at[q] /\ todo'[q] = todo[q]
    BY <1>3 DEF ReadLapsed
  <2> QED
    BY <2>3, <2>4 DEF GraceKept, GraceIsGranted
<1>4. CASE Suspend(r)
  <2>1. PICK x \in todo[r] : sub' = [sub EXCEPT ![x[1]].status = "SUSPENDED"] /\ todo' = [todo EXCEPT ![r] = @ \ {x}]
    BY <1>4 DEF Suspend
  <2>2. \A s \in Subs : sub'[s].ends = sub[s].ends /\ sub'[s].grace = sub[s].grace
    BY <2>1 DEF Rows
  <2>3. UNCHANGED <<at, today, now, raced>> /\ \A q \in Replicas : todo'[q] \subseteq todo[q]
    BY <1>4, <2>1 DEF Suspend
  <2>4. \A q \in Replicas : at[q] \in {"grace", "suspend"} => \A y \in todo[q] : y[1] \in Subs
    BY DEF RowsInHand
  <2> QED
    BY <2>2, <2>3, <2>4 DEF GraceKept, GraceIsGranted, Granted
<1>5. CASE ReadNotes(r) \/ Deliver(r) \/ EndTick(r)
  <2>1. /\ UNCHANGED <<sub, now, raced>> /\ at'[r] \in {"sending", "idle"}
        /\ \A q \in Replicas : q # r => at'[q] = at[q] /\ todo'[q] = todo[q] /\ today'[q] = today[q]
    BY <1>5 DEF ReadNotes, Deliver, EndTick
  <2> QED
    BY <2>1 DEF GraceKept, GraceIsGranted
<1> QED
  BY <1>1, <1>2, <1>3, <1>4, <1>5 DEF Task

LEMMA GraceStep ==
    ASSUME JobInv, [JobNext]_jobVars
    PROVE  GraceKept' /\ GraceIsGranted'
<1>1. CASE UNCHANGED jobVars
  BY <1>1 DEF JobInv, jobVars, GraceKept, GraceIsGranted
<1>2. CASE NextDay \/ LeaseLapses \/ \E n \in Notes : BecomeDue(n)
  <2>1. UNCHANGED <<sub, raced, at, today, todo>> /\ now' \in {now, now + 1} /\ now \in Nat
    BY <1>2, MaintenanceAssumption DEF NextDay, LeaseLapses, BecomeDue, rows, JobInv, JobTypeOK
  <2>2. \A q \in Replicas : at[q] = "suspend" => \A y \in todo[q] : sub[y[1]].ends + GraceDays \in Nat
    BY MaintenanceAssumption DEF JobInv, JobTypeOK, RowsInHand, Rows
  <2> QED
    BY <2>1, <2>2 DEF JobInv, GraceKept, GraceIsGranted
<1>3. ASSUME NEW r \in Replicas, Tick(r) \/ BreakOff(r) PROVE GraceKept' /\ GraceIsGranted'
  <2>1. /\ UNCHANGED <<sub, now, raced>> /\ at'[r] \in {"tasks", "idle"}
        /\ \A q \in Replicas : q # r => at'[q] = at[q] /\ todo'[q] = todo[q] /\ today'[q] = today[q]
    BY <1>3 DEF Tick, BreakOff, Move, Todo, rows, JobInv, JobTypeOK
  <2> QED
    BY <2>1 DEF JobInv, GraceKept, GraceIsGranted
<1> QED
  BY <1>1, <1>2, <1>3, StaffKeepGrace, JobKeepsGrace DEF JobNext

LEMMA JobStarts == JobInit => JobInv
<1> SUFFICES ASSUME JobInit PROVE JobInv
  OBVIOUS
<1> USE MaintenanceAssumption DEF JobInit
<1>1. [status |-> "NONE", ends |-> 0, grace |-> 0] \in Rows /\ [status |-> "PENDING", attempts |-> 0, due |-> TRUE] \in Mail
  BY ReplicasCounted DEF Rows, Status, Mail
<1>2. JobTypeOK
  <2>1. now \in 1..MaxTime /\ acts \in 0..MaxActs /\ faults \in 0..MaxFaults
    OBVIOUS
  <2>2. sub \in [Subs -> Rows] /\ note \in [Notes -> Mail]
    BY <1>1
  <2>3. today \in [Replicas -> 0..MaxTime]
    OBVIOUS
  <2>4. todo \in [Replicas -> SUBSET ((Subs \X Rows) \cup (Notes \X Mail))]
    <3>1. {} \in SUBSET ((Subs \X Rows) \cup (Notes \X Mail))
      BY Zenon
    <3> QED
      BY <3>1
  <2>5. at \in [Replicas -> {"idle", "tasks", "grace", "suspend", "sending"}]
    OBVIOUS
  <2>6. tenant \in {"ACTIVE", "SUSPENDED"} /\ byStaff \in BOOLEAN /\ raced \in BOOLEAN /\ lease \in BOOLEAN
    OBVIOUS
  <2> QED
    BY <2>1, <2>2, <2>3, <2>4, <2>5, <2>6 DEF JobTypeOK
<1>3. RowsInHand /\ GraceKept /\ GraceIsGranted
  BY DEF RowsInHand, GraceKept, Granted, GraceIsGranted
<1>4. TriesCounted
  <2>1. \A n \in Notes : note[n].attempts = 0 /\ Holding(n) = {}
    BY DEF Holding
  <2>2. Cardinality({}) = 0 /\ 0 <= MostAttempts
    BY FS_EmptySet, ReplicasCounted
  <2>3. ASSUME NEW n \in Notes
        PROVE  note[n].attempts + Cardinality(Holding(n)) <= MostAttempts
    <3> HIDE DEF JobInit
    <3>1. note[n].attempts = 0 /\ Cardinality(Holding(n)) = 0
      BY <2>1, <2>2, Zenon
    <3> QED
      BY <3>1, <2>2
  <2>4. \A r \in Replicas : at[r] # "sending"
    OBVIOUS
  <2> HIDE DEF JobInit
  <2> QED
    BY <2>3, <2>4 DEF TriesCounted
<1> QED
  BY <1>2, <1>3, <1>4 DEF JobInv

\* The maintenance job never leaves its inductive invariant, whoever interferes (jobs.service.ts).
THEOREM JobInvariant == JobSpec => []JobInv
<1>1. JobInv /\ [JobNext]_jobVars => JobInv'
  <2> SUFFICES ASSUME JobInv, [JobNext]_jobVars PROVE JobInv'
    OBVIOUS
  <2>1. TriesCounted'
    BY TriesStep DEF JobInv
  <2>2. JobTypeOK' /\ RowsInHand'
    BY <2>1, JobTypesKept DEF JobInv
  <2> QED
    BY <2>1, <2>2, GraceStep DEF JobInv
<1> QED
  BY <1>1, JobStarts, PTL DEF JobSpec

\* Rows, notifications and what a replica has in hand keep their types.  A notification may be tried more often than
\* MaxAttempts, for a success increments the row as it is (jobs.service.ts: notifications), but by no more than one
\* attempt for each other replica.
THEOREM JobTypeCorrect == JobSpec => []JobTypeOK
<1>1. JobInv => JobTypeOK
  BY DEF JobInv
<1> QED
  BY <1>1, JobInvariant, PTL

\* Unless staff come in between, a subscription is suspended only when its period ended GraceDays ago or more,
\* however many replicas overlap and whatever ticks break off (jobs.service.ts: subscriptions).
THEOREM GraceAlwaysGranted == JobSpec => []GraceIsGranted
<1>1. JobInv => GraceIsGranted
  BY DEF JobInv
<1> QED
  BY <1>1, JobInvariant, PTL
=============================================================================
