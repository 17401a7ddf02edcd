-------------------------- MODULE NodeInstall_proofs --------------------------
(***************************************************************************)
(* Proofs about NodeInstall and the accounts it rests on, for any emails,  *)
(* domains, requests, tokens, devices and machines, and for any rate and   *)
(* limit.                                                                  *)
(***************************************************************************)
EXTENDS NodeInstall, FiniteSetTheorems, TLAPS

(* The inductive invariant.  Accounts: the request between its two inserts is
   alone with its company, which has no founder yet; an administrator of the
   platform is of the company of its email, and a session is of an account
   approved since, whose claims only a restored administrator leaves behind. *)
FoundersAreEqual ==
    \A d \in Domain : \A e, f \in Founders(d) : e = f
FoundingIsExclusive ==
    \A p \in Process : op[p].pc = "insert_admin" =>
        /\ DomainOf[op[p].email] \in companies
        /\ Founders(DomainOf[op[p].email]) = {}
        /\ \A q \in Process : op[q].pc = "insert_admin" /\ q # p =>
              DomainOf[op[q].email] # DomainOf[op[p].email]
FoundersHaveCompanies ==
    \A d \in Domain : Founders(d) # {} => d \in companies
AdminsAreAtHome ==
    \A e \in Email : Exists(e) /\ users[e].type = "admin" => users[e].company = DomainOf[e]
Matches(b) ==
    /\ users[sessions[b].email].company = sessions[b].company
    /\ users[sessions[b].email].type = sessions[b].type
SessionsAreApproved ==
    \A b \in Browser : sessions[b] # NoSession =>
        /\ users[sessions[b].email].status = "approved"
        /\ Matches(b) \/ (users[sessions[b].email].type = "admin" /\ sessions[b].type # "admin")

(* Whoever mints or exchanges holds the row of the account, alone. *)
Holding == {p \in Process : op[p].pc \in {"mint", "exchange"}}
LocksAreHeld ==
    /\ \A p \in Holding : op[p].email \in locked
    /\ \A p, q \in Holding : p # q => op[p].email # op[q].email

(* What was counted under the lock is still so. *)
CountOK(p) ==
    /\ op[p].pc = "mint" =>
          /\ Exists(op[p].email)
          /\ ~op[p].full => Cardinality(Recent(Ctx(op[p].email))) < INSTALL_RATE
    /\ op[p].pc = "exchange" =>
          /\ tokens[op[p].token] # NoRow
          /\ tokens[op[p].token].state = "open"
          /\ tokens[op[p].token].ctx.email = op[p].email
          /\ ~op[p].full =>
                Cardinality(LiveDevices(tokens[op[p].token].ctx)) < DEVICE_LIMIT
CountsAreCurrent == \A p \in Process : CountOK(p)

MachinesHoldTheirOwn ==
    \A m \in Machine : holds[m] # NoDevice =>
        devices[holds[m]] # NoRow /\ devices[holds[m]].machine = m
OwnersAreEqual ==
    \A ctx \in Context, m \in Machine : \A c, d \in Owner(ctx, m) : c = d
RowsAreFinite ==
    \A ctx \in Context : IsFiniteSet(MintedBy(ctx)) /\ IsFiniteSet(DevicesOf(ctx))

AccountsInv ==
    /\ FoundersAreEqual
    /\ FoundingIsExclusive
    /\ FoundersHaveCompanies
    /\ PlatformIsApart
    /\ AdminsAreAtHome
    /\ SessionsAreApproved

InstallInv ==
    /\ LocksAreHeld
    /\ CountsAreCurrent
    /\ MachinesHoldTheirOwn
    /\ OwnersAreEqual
    /\ RowsAreFinite
    /\ MintRate
    /\ DeviceLimit
    /\ DevicesArePaidFor

IInv == TypeOK /\ AccountsInv /\ InstallInv

-----------------------------------------------------------------------------
(* What a step of an account does to each row. *)

Founded(e) ==
    \E p \in Process :
        /\ op[p].pc = "insert_admin" /\ op[p].email = e /\ op'[p] = Idle
        /\ ~Exists(e)
        /\ users'[e] = [company |-> DomainOf[e], role |-> "admin",
                        type |-> "client", status |-> "approved"]
Restored(e) ==
    /\ DomainOf[e] \in companies
    /\ users'[e] = [company |-> DomainOf[e], role |-> "admin",
                    type |-> "admin", status |-> "approved"]
SignedUp(e) ==
    /\ ~Exists(e)
    /\ \E type \in SignupTypes :
          users'[e] = [company |-> Platform, role |-> "employee",
                       type |-> type, status |-> "pending"]
Decided(e) ==
    /\ Exists(e)
    /\ \E status \in Status :
          /\ users'[e] = [users[e] EXCEPT !.status = status]
          /\ users[e].status = "approved" => status = "approved"
Written(e) ==
    /\ e \notin locked
    /\ companies' = companies
    /\ Founded(e) \/ Restored(e) \/ SignedUp(e) \/ Decided(e)

Entered(p) ==
    /\ op[p].pc = "insert_company"
    /\ DomainOf[op[p].email] \notin companies
    /\ companies' = companies \cup {DomainOf[op[p].email]}
    /\ users' = users
    /\ op' = [op EXCEPT ![p].pc = "insert_admin"]

LoggedIn(b, e) ==
    /\ users' = users
    /\ Exists(e) /\ users[e].status = "approved"
    /\ sessions'[b] = [email |-> e, company |-> users[e].company, type |-> users[e].type]

\* The row of an account is left alone or written by one of four statements,
\* which wait for its lock.
LEMMA AccountRows ==
    ASSUME TypeOK, AccountsNext
    PROVE  /\ users' \in [Email -> User \cup {NoUser}]
           /\ \A e \in Email : users'[e] = users[e] \/ Written(e)
<1> USE DEF AccountsNext
<1>t. /\ users \in [Email -> User \cup {NoUser}] /\ DomainOf \in [Email -> Domain]
      /\ op \in [Process -> {Idle} \cup Registering \cup Minting \cup Exchanging]
      /\ Platform \in Company /\ Domain \subseteq Company
      /\ SignupTypes \subseteq {"client", "engineer"}
    BY AccountsAssumption DEF TypeOK, AccountsTypeOK, Company
<1>1. ASSUME NEW p \in Process, InsertAdmin(p)
      PROVE  /\ users' \in [Email -> User \cup {NoUser}]
             /\ \A e \in Email : users'[e] = users[e] \/ Written(e)
    <2>1. op[p].email \in Email /\ op'[p] = Idle
        BY <1>t, <1>1 DEF InsertAdmin, Idle, Registering, Minting, Exchanging
    <2>2. CASE Exists(op[p].email)
        BY <1>t, <1>1, <2>2 DEF InsertAdmin
    <2>3. CASE ~Exists(op[p].email)
        <3> DEFINE e == op[p].email
                   user == [company |-> DomainOf[e], role |-> "admin",
                            type |-> "client", status |-> "approved"]
        <3>1. /\ e \notin locked /\ users' = [users EXCEPT ![e] = user] /\ companies' = companies
            BY <1>1, <2>3 DEF InsertAdmin, SetUser
        <3>2. user \in User
            BY <1>t, <2>1 DEF User, Roles, Types, Status
        <3>3. Founded(e)
            BY <1>t, <1>1, <2>1, <2>3, <3>1 DEF Founded, InsertAdmin
        <3> QED
            BY <1>t, <2>1, <3>1, <3>2, <3>3 DEF Written
    <2> QED
        BY <2>2, <2>3
<1>2. ASSUME NEW e \in Email, RestoreAdminAccess(e)
      PROVE  /\ users' \in [Email -> User \cup {NoUser}]
             /\ \A f \in Email : users'[f] = users[f] \/ Written(f)
    BY <1>t, <1>2 DEF RestoreAdminAccess, SetUser, User, Roles, Types, Status, Written, Restored
<1>3. ASSUME NEW e \in Email, NEW type \in SignupTypes, SignupAccount(e, type)
      PROVE  /\ users' \in [Email -> User \cup {NoUser}]
             /\ \A f \in Email : users'[f] = users[f] \/ Written(f)
    BY <1>t, <1>3 DEF SignupAccount, SetUser, User, Roles, Types, Status, Written, SignedUp
<1>4. ASSUME NEW e \in Email, NEW status \in Status, Exists(e),
             users[e].status = "approved" => status = "approved",
             SetUser(e, [users[e] EXCEPT !.status = status]), companies' = companies
      PROVE  /\ users' \in [Email -> User \cup {NoUser}]
             /\ \A f \in Email : users'[f] = users[f] \/ Written(f)
    <2>1. users[e] \in User
        BY <1>t, <1>4 DEF Exists
    <2>2. [users[e] EXCEPT !.status = status] \in User
        BY <2>1 DEF User
    <2> QED
        BY <1>t, <1>4, <2>2 DEF SetUser, Written, Decided
<1>5. ASSUME NEW e \in Email, ResetExistingUserPassword(e)
      PROVE  /\ users' \in [Email -> User \cup {NoUser}]
             /\ \A f \in Email : users'[f] = users[f] \/ Written(f)
    BY <1>4, <1>5 DEF ResetExistingUserPassword, Status
<1>6. ASSUME NEW b \in Browser, NEW e \in Email, ApproveEmployee(b, e)
      PROVE  /\ users' \in [Email -> User \cup {NoUser}]
             /\ \A f \in Email : users'[f] = users[f] \/ Written(f)
    BY <1>4, <1>6 DEF ApproveEmployee, Status
<1>7. ASSUME NEW b \in Browser, NEW e \in Email, NEW decision \in {"approved", "rejected"},
             ReviewAccount(b, e, decision)
      PROVE  /\ users' \in [Email -> User \cup {NoUser}]
             /\ \A f \in Email : users'[f] = users[f] \/ Written(f)
    BY <1>4, <1>7 DEF ReviewAccount, Status
<1>8. ASSUME UNCHANGED users
      PROVE  /\ users' \in [Email -> User \cup {NoUser}]
             /\ \A f \in Email : users'[f] = users[f] \/ Written(f)
    BY <1>t, <1>8
<1> QED
    BY <1>1, <1>2, <1>3, <1>5, <1>6, <1>7, <1>8
    DEF InsertCompany, RegistrationDies, Register, SessionEnds, LoginUser

\* Requests of accounts leave those of installations alone; one of them enters
\* a company that was not there.
LEMMA AccountRequests ==
    ASSUME TypeOK, AccountsNext
    PROVE  /\ op' \in [Process -> {Idle} \cup Registering \cup Minting \cup Exchanging]
           /\ companies \subseteq companies' /\ companies' \subseteq Domain
           /\ locked' = locked
           /\ \A p \in Process :
                 \/ op'[p] = op[p]
                 \/ /\ op[p].pc \notin {"mint", "exchange"}
                    /\ op'[p].pc \in {"idle", "insert_company"}
                 \/ Entered(p)
<1>t. /\ op \in [Process -> {Idle} \cup Registering \cup Minting \cup Exchanging]
      /\ companies \subseteq Domain /\ DomainOf \in [Email -> Domain]
    BY AccountsAssumption DEF TypeOK, AccountsTypeOK
<1> DEFINE Good == /\ op' \in [Process -> {Idle} \cup Registering \cup Minting \cup Exchanging]
                   /\ companies \subseteq companies' /\ companies' \subseteq Domain
                   /\ locked' = locked
                   /\ \A p \in Process :
                         \/ op'[p] = op[p]
                         \/ /\ op[p].pc \notin {"mint", "exchange"}
                            /\ op'[p].pc \in {"idle", "insert_company"}
                         \/ Entered(p)
<1>1. ASSUME NEW p \in Process, op[p].pc \in {"insert_company", "insert_admin"},
             op' = [op EXCEPT ![p] = Idle], companies' = companies, locked' = locked
      PROVE  Good
    BY <1>t, <1>1 DEF Idle
<1>2. ASSUME NEW p \in Process, InsertCompany(p)
      PROVE  Good
    <2>1. op[p] \in Registering
        BY <1>t, <1>2 DEF InsertCompany, Idle, Registering, Minting, Exchanging
    <2>2. [op[p] EXCEPT !.pc = "insert_admin"] \in Registering
        BY <2>1 DEF Registering
    <2>3. DomainOf[op[p].email] \in Domain
        BY <1>t, <2>1 DEF Registering
    <2>4. CASE DomainOf[op[p].email] \notin companies
        <3>1. Entered(p)
            BY <1>2, <2>4 DEF InsertCompany, Entered
        <3>2. op' = [op EXCEPT ![p].pc = "insert_admin"] /\ locked' = locked
              /\ companies' = companies \cup {DomainOf[op[p].email]}
            BY <1>2, <2>4 DEF InsertCompany
        <3> QED
            BY <1>t, <2>2, <2>3, <3>1, <3>2
    <2>5. CASE DomainOf[op[p].email] \in companies
        BY <1>1, <1>2, <2>5 DEF InsertCompany
    <2> QED
        BY <2>4, <2>5
<1>3. ASSUME NEW p \in Process, InsertAdmin(p) \/ RegistrationDies(p)
      PROVE  Good
    BY <1>1, <1>3 DEF InsertAdmin, RegistrationDies
<1>4. ASSUME NEW p \in Process, NEW e \in Email, Register(p, e)
      PROVE  Good
    <2>1. [pc |-> "insert_company", email |-> e] \in Registering
        BY DEF Registering
    <2> QED
        BY <1>t, <1>4, <2>1 DEF Register, Idle
<1>5. ASSUME UNCHANGED <<op, companies, locked>>
      PROVE  Good
    BY <1>t, <1>5
<1> QED
    BY <1>2, <1>3, <1>4, <1>5
    DEF AccountsNext, RestoreAdminAccess, ResetExistingUserPassword, SignupAccount,
        SessionEnds, LoginUser, ApproveEmployee, ReviewAccount, SetUser

\* A cookie jar keeps its session, loses it or gets one of an approved account.
LEMMA AccountSessions ==
    ASSUME TypeOK, AccountsNext
    PROVE  /\ sessions' \in [Browser -> Claims \cup {NoSession}]
           /\ \A b \in Browser :
                 \/ sessions'[b] = sessions[b]
                 \/ sessions'[b] = NoSession
                 \/ \E e \in Email : LoggedIn(b, e)
<1>t. sessions \in [Browser -> Claims \cup {NoSession}] /\ users \in [Email -> User \cup {NoUser}]
    BY DEF TypeOK, AccountsTypeOK
<1>1. ASSUME NEW b \in Browser, SessionEnds(b)
      PROVE  /\ sessions' \in [Browser -> Claims \cup {NoSession}]
             /\ \A c \in Browser : sessions'[c] = sessions[c] \/ sessions'[c] = NoSession
    BY <1>t, <1>1 DEF SessionEnds
<1>2. ASSUME NEW b \in Browser, NEW e \in Email, LoginUser(b, e)
      PROVE  /\ sessions' \in [Browser -> Claims \cup {NoSession}]
             /\ \A c \in Browser : sessions'[c] = sessions[c] \/ LoggedIn(c, e)
    <2>1. users[e] \in User
        BY <1>t, <1>2 DEF LoginUser, Exists
    <2>2. [email |-> e, company |-> users[e].company, type |-> users[e].type] \in Claims
        BY <2>1 DEF User, Claims
    <2> QED
        BY <1>t, <1>2, <2>2 DEF LoginUser, LoggedIn
<1>3. ASSUME UNCHANGED sessions
      PROVE  /\ sessions' \in [Browser -> Claims \cup {NoSession}]
             /\ \A c \in Browser : sessions'[c] = sessions[c]
    BY <1>t, <1>3
<1> QED
    BY <1>1, <1>2, <1>3
    DEF AccountsNext, InsertCompany, InsertAdmin, RegistrationDies, Register,
        RestoreAdminAccess, ResetExistingUserPassword, SignupAccount, ApproveEmployee, ReviewAccount

-----------------------------------------------------------------------------
(* The accounts agree after every step. *)

\* Who is a founder after a step was one or is the one whose registration ends.
LEMMA FoundersStep ==
    ASSUME TypeOK, AccountsNext, NEW d \in Domain, NEW e \in Founders(d)'
    PROVE  \/ e \in Founders(d)
           \/ /\ companies' = companies /\ DomainOf[e] = d
              /\ \E p \in Process : op[p].pc = "insert_admin" /\ op[p].email = e /\ op'[p] = Idle
<1>t. users \in [Email -> User \cup {NoUser}] /\ Platform \notin Domain
      /\ SignupTypes \subseteq {"client", "engineer"}
    BY AccountsAssumption DEF TypeOK, AccountsTypeOK
<1>1. /\ e \in Email /\ users'[e] # NoUser
      /\ users'[e].company = d /\ users'[e].role = "admin" /\ users'[e].type = "client"
    BY DEF Founders, Exists
<1>2. CASE users'[e] = users[e]
    BY <1>1, <1>2 DEF Founders, Exists
<1>3. CASE Written(e)
    <2>1. CASE Founded(e)
        BY <1>1, <1>3, <2>1 DEF Founded, Written
    <2>2. CASE Restored(e)
        BY <1>1, <2>2 DEF Restored
    <2>3. CASE SignedUp(e)
        BY <1>1, <2>3 DEF SignedUp
    <2>4. CASE Decided(e)
        <3>1. users[e] \in User
            BY <1>t, <1>1, <2>4 DEF Decided, Exists
        <3> QED
            BY <1>1, <2>4, <3>1 DEF Decided, User, Founders, Exists
    <2> QED
        BY <1>3, <2>1, <2>2, <2>3, <2>4 DEF Written
<1> QED
    BY <1>1, <1>2, <1>3, AccountRows

LEMMA FoundersPreserved ==
    ASSUME TypeOK, AccountsNext, FoundersAreEqual, FoundingIsExclusive, FoundersHaveCompanies
    PROVE  FoundersAreEqual' /\ FoundingIsExclusive' /\ FoundersHaveCompanies'
<1>t. /\ op \in [Process -> {Idle} \cup Registering \cup Minting \cup Exchanging]
      /\ companies \subseteq companies' /\ DomainOf \in [Email -> Domain]
    BY AccountsAssumption, AccountRequests DEF TypeOK, AccountsTypeOK
<1>1. ASSUME NEW p \in Process, op'[p].pc = "insert_admin"
      PROVE  op'[p] = op[p] \/ Entered(p)
    BY <1>1, AccountRequests
<1>2. \A p, q \in Process :
          op[p].pc = "insert_admin" /\ op[q].pc = "insert_admin"
          /\ DomainOf[op[p].email] = DomainOf[op[q].email] => p = q
    BY DEF FoundingIsExclusive
<1>3. FoundersAreEqual'
    <2> SUFFICES ASSUME NEW d \in Domain, NEW e \in Founders(d)', NEW f \in Founders(d)'
                 PROVE  e = f
        BY DEF FoundersAreEqual
    <2>1. CASE e \in Founders(d) /\ f \in Founders(d)
        BY <2>1 DEF FoundersAreEqual
    <2>2. CASE e \notin Founders(d)
        <3>1. PICK p \in Process : op[p].pc = "insert_admin" /\ op[p].email = e /\ DomainOf[e] = d
            BY <2>2, FoundersStep
        <3>2. f \notin Founders(d)
            BY <3>1 DEF FoundingIsExclusive
        <3>3. PICK q \in Process : op[q].pc = "insert_admin" /\ op[q].email = f /\ DomainOf[f] = d
            BY <3>2, FoundersStep
        <3> QED
            BY <1>2, <3>1, <3>3
    <2>3. CASE f \notin Founders(d)
        <3>1. PICK p \in Process : op[p].pc = "insert_admin" /\ op[p].email = f /\ DomainOf[f] = d
            BY <2>3, FoundersStep
        <3>2. e \notin Founders(d)
            BY <3>1 DEF FoundingIsExclusive
        <3> QED
            BY <2>2, <3>2
    <2> QED
        BY <2>1, <2>2, <2>3
<1>4. FoundingIsExclusive'
    <2> SUFFICES ASSUME NEW p \in Process, op'[p].pc = "insert_admin",
                        NEW d \in Domain, d = DomainOf[op'[p].email]
                 PROVE  /\ d \in companies'
                        /\ Founders(d)' = {}
                        /\ \A q \in Process : op'[q].pc = "insert_admin" /\ q # p =>
                              DomainOf[op'[q].email] # d
        <3>1. \A p \in Process : op'[p].pc = "insert_admin" => DomainOf[op'[p].email] \in Domain
            BY <1>t, AccountRequests DEF Idle, Registering, Minting, Exchanging
        <3> QED
            BY <3>1 DEF FoundingIsExclusive, Founders, Exists
    <2>1. CASE op'[p] = op[p]
        <3>1. d \in companies /\ Founders(d) = {}
            BY <2>1 DEF FoundingIsExclusive
        <3>2. ASSUME NEW e \in Founders(d)'
              PROVE  FALSE
            <4>1. PICK q \in Process : op[q].pc = "insert_admin" /\ op[q].email = e
                                      /\ DomainOf[e] = d /\ op'[q] = Idle
                BY <3>1, FoundersStep
            <4> QED
                BY <1>2, <2>1, <4>1 DEF Idle
        <3>3. ASSUME NEW q \in Process, op'[q].pc = "insert_admin", q # p
              PROVE  DomainOf[op'[q].email] # d
            <4>1. CASE op'[q] = op[q]
                BY <1>2, <2>1, <3>3, <4>1
            <4>2. CASE Entered(q)
                <5>1. op'[q].email = op[q].email
                    BY <1>t, <4>2 DEF Entered, Idle, Registering, Minting, Exchanging
                <5> QED
                    BY <3>1, <4>2, <5>1 DEF Entered
            <4> QED
                BY <1>1, <3>3, <4>1, <4>2
        <3> QED
            BY <1>t, <3>1, <3>2, <3>3
    <2>2. CASE Entered(p)
        <3>1. op'[p].email = op[p].email
            BY <1>t, <2>2 DEF Entered, Idle, Registering, Minting, Exchanging
        <3>2. d \notin companies /\ d \in companies' /\ users' = users
            BY <2>2, <3>1 DEF Entered
        <3>3. Founders(d)' = {}
            BY <3>2 DEF FoundersHaveCompanies, Founders, Exists
        <3>4. ASSUME NEW q \in Process, op'[q].pc = "insert_admin", q # p
              PROVE  DomainOf[op'[q].email] # d
            <4>1. op'[q] = op[q]
                BY <1>t, <2>2, <3>4 DEF Entered
            <4> QED
                BY <3>2, <3>4, <4>1 DEF FoundingIsExclusive
        <3> QED
            BY <3>2, <3>3, <3>4
    <2> QED
        BY <1>1, <2>1, <2>2
<1>5. FoundersHaveCompanies'
    <2> SUFFICES ASSUME NEW d \in Domain, NEW e \in Founders(d)'
                 PROVE  d \in companies'
        BY DEF FoundersHaveCompanies
    <2> QED
        BY <1>t, FoundersStep DEF FoundersHaveCompanies, FoundingIsExclusive
<1> QED
    BY <1>3, <1>4, <1>5

\* Where a row written says its account belongs.
LEMMA RowsPreserved ==
    ASSUME TypeOK, AccountsNext, FoundingIsExclusive, PlatformIsApart, AdminsAreAtHome
    PROVE  PlatformIsApart' /\ AdminsAreAtHome'
<1>t. /\ users \in [Email -> User \cup {NoUser}] /\ DomainOf \in [Email -> Domain]
      /\ Platform \notin Domain /\ SignupTypes \subseteq {"client", "engineer"}
      /\ companies \subseteq companies'
    BY AccountsAssumption, AccountRequests DEF TypeOK, AccountsTypeOK
<1> SUFFICES ASSUME NEW e \in Email, users'[e] # NoUser
             PROVE  /\ users'[e].role = "admin" => users'[e].company \in companies'
                    /\ users'[e].company = Platform => users'[e].role = "employee"
                    /\ users'[e].type = "admin" => users'[e].company = DomainOf[e]
    BY DEF PlatformIsApart, AdminsAreAtHome, Exists
<1>1. Exists(e) => /\ users[e] \in User
                   /\ users[e].role = "admin" => users[e].company \in companies
                   /\ users[e].company = Platform => users[e].role = "employee"
                   /\ users[e].type = "admin" => users[e].company = DomainOf[e]
    BY <1>t DEF PlatformIsApart, AdminsAreAtHome, Exists
<1>2. CASE users'[e] = users[e]
    BY <1>t, <1>1, <1>2 DEF Exists
<1>3. CASE Founded(e)
    BY <1>t, <1>3 DEF Founded, FoundingIsExclusive
<1>4. CASE Restored(e)
    BY <1>t, <1>4 DEF Restored
<1>5. CASE SignedUp(e)
    BY <1>t, <1>5 DEF SignedUp
<1>6. CASE Decided(e)
    BY <1>t, <1>1, <1>6 DEF Decided, User
<1> QED
    BY <1>2, <1>3, <1>4, <1>5, <1>6, AccountRows DEF Written

\* A session outlives a change of its account's type or company only when the
\* account was restored as an administrator.
LEMMA SessionsPreserved ==
    ASSUME TypeOK, AccountsNext, AdminsAreAtHome, SessionsAreApproved
    PROVE  SessionsAreApproved'
<1>t. /\ users \in [Email -> User \cup {NoUser}] /\ sessions \in [Browser -> Claims \cup {NoSession}]
      /\ DomainOf \in [Email -> Domain]
    BY AccountsAssumption DEF TypeOK, AccountsTypeOK
<1> SUFFICES ASSUME NEW b \in Browser, sessions'[b] # NoSession
             PROVE  /\ users'[sessions'[b].email].status = "approved"
                    /\ \/ Matches(b)'
                       \/ users'[sessions'[b].email].type = "admin" /\ sessions'[b].type # "admin"
    BY DEF SessionsAreApproved
<1>1. CASE \E e \in Email : LoggedIn(b, e)
    BY <1>1 DEF LoggedIn, Matches
<1>2. CASE sessions'[b] = sessions[b]
    <2> DEFINE e == sessions[b].email
    <2>1. e \in Email /\ users[e].status = "approved"
          /\ (Matches(b) \/ (users[e].type = "admin" /\ sessions[b].type # "admin"))
        BY <1>t, <1>2 DEF SessionsAreApproved, Claims
    <2>2. users[e] \in User /\ Exists(e)
        BY <1>t, <2>1 DEF NoUser, Exists
    <2>3. CASE users'[e] = users[e]
        BY <1>2, <2>1, <2>3 DEF Matches
    <2>4. CASE Restored(e)
        BY <1>2, <2>1, <2>2, <2>4 DEF Restored, Matches, AdminsAreAtHome
    <2>5. CASE Decided(e)
        BY <1>2, <2>1, <2>2, <2>5 DEF Decided, Matches, User
    <2> QED
        BY <2>1, <2>2, <2>3, <2>4, <2>5, AccountRows DEF Written, Founded, SignedUp
<1> QED
    BY <1>1, <1>2, AccountSessions

\* A step that leaves the accounts and the registrations alone.
LEMMA AccountsFrame ==
    ASSUME AccountsInv, UNCHANGED <<companies, users, sessions>>,
           \A p \in Process : op'[p].pc = "insert_admin" => op'[p] = op[p]
    PROVE  AccountsInv'
<1>1. FoundersAreEqual' /\ FoundersHaveCompanies' /\ PlatformIsApart' /\ AdminsAreAtHome'
    BY DEF AccountsInv, FoundersAreEqual, FoundersHaveCompanies, PlatformIsApart,
           AdminsAreAtHome, Founders, Exists
<1>2. FoundingIsExclusive'
    BY DEF AccountsInv, FoundingIsExclusive, Founders, Exists
<1>3. SessionsAreApproved'
    BY DEF AccountsInv, SessionsAreApproved, Matches
<1> QED
    BY <1>1, <1>2, <1>3 DEF AccountsInv

-----------------------------------------------------------------------------
(* The rows of tokens and devices, and what a step does to the sets of them
   that requests count. *)

Used(ctx) == {t \in MintedBy(ctx) : tokens[t].state = "used"}

TokenKept(t) ==
    \/ tokens'[t] = tokens[t]
    \/ /\ tokens[t] # NoRow /\ tokens'[t] \in TokenRow
       /\ tokens'[t].ctx = tokens[t].ctx
       /\ tokens'[t].recent => tokens[t].recent
       /\ tokens[t].state = "used" => tokens'[t].state = "used"
DeviceKept(d) ==
    \/ devices'[d] = devices[d]
    \/ /\ devices[d] # NoRow /\ devices'[d] \in DeviceRow
       /\ devices'[d].ctx = devices[d].ctx
       /\ devices'[d].machine = devices[d].machine
       /\ devices[d].revoked => devices'[d].revoked
       /\ devices[d].expired => devices'[d].expired

\* No context is that of a row which is not there.
LEMMA RowTypes ==
    ASSUME TypeOK
    PROVE  /\ \A ctx \in Context : ctx # NoUser
           /\ \A t \in Token : tokens[t] # NoRow => tokens[t] \in TokenRow
           /\ \A d \in Device : devices[d] # NoRow => devices[d] \in DeviceRow
           /\ \A ctx \in Context : \A t \in MintedBy(ctx) : tokens[t] \in TokenRow
           /\ \A ctx \in Context : \A d \in DevicesOf(ctx) : devices[d] \in DeviceRow
<1>1. \A ctx \in Context : ctx # NoUser
    BY DEF Context, NoUser
<1>2. tokens \in [Token -> TokenRow \cup {NoRow}] /\ devices \in [Device -> DeviceRow \cup {NoRow}]
    BY DEF TypeOK
<1> QED
    BY <1>1, <1>2 DEF MintedBy, DevicesOf, NoRow

LEMMA NoRowIsNone == NoRow \notin TokenRow /\ NoRow \notin DeviceRow
BY DEF NoRow, TokenRow, DeviceRow

LEMMA TokensKept ==
    ASSUME TypeOK, \A t \in Token : TokenKept(t), NEW ctx \in Context
    PROVE  /\ MintedBy(ctx)' = MintedBy(ctx)
           /\ Recent(ctx)' \subseteq Recent(ctx)
           /\ Used(ctx) \subseteq Used(ctx)'
<1>1. ctx # NoUser /\ \A t \in MintedBy(ctx) : tokens[t] \in TokenRow
    BY RowTypes
<1>2. MintedBy(ctx)' = MintedBy(ctx)
    BY <1>1 DEF MintedBy, TokenKept
<1> QED
    BY <1>1, <1>2 DEF Recent, Used, TokenKept, MintedBy

LEMMA DevicesKept ==
    ASSUME TypeOK, \A d \in Device : DeviceKept(d), NEW ctx \in Context
    PROVE  /\ DevicesOf(ctx)' = DevicesOf(ctx)
           /\ LiveDevices(ctx)' \subseteq LiveDevices(ctx)
           /\ \A m \in Machine : Owner(ctx, m)' \subseteq Owner(ctx, m)
<1>1. ctx # NoUser /\ \A d \in DevicesOf(ctx) : devices[d] \in DeviceRow
    BY RowTypes
<1>2. DevicesOf(ctx)' = DevicesOf(ctx)
    BY <1>1 DEF DevicesOf, DeviceKept
<1> QED
    BY <1>1, <1>2 DEF LiveDevices, Owner, DeviceKept, DevicesOf

\* The sets that requests count are finite, and count no more than their whole.
LEMMA Finite ==
    ASSUME RowsAreFinite, NEW ctx \in Context
    PROVE  /\ IsFiniteSet(MintedBy(ctx)) /\ IsFiniteSet(DevicesOf(ctx))
           /\ IsFiniteSet(Recent(ctx)) /\ Cardinality(Recent(ctx)) \in Nat
           /\ IsFiniteSet(Used(ctx)) /\ Cardinality(Used(ctx)) \in Nat
           /\ IsFiniteSet(LiveDevices(ctx)) /\ Cardinality(LiveDevices(ctx)) \in Nat
           /\ Cardinality(DevicesOf(ctx)) \in Nat
<1>1. IsFiniteSet(MintedBy(ctx)) /\ IsFiniteSet(DevicesOf(ctx))
    BY DEF RowsAreFinite
<1>2. Recent(ctx) \subseteq MintedBy(ctx) /\ Used(ctx) \subseteq MintedBy(ctx)
      /\ LiveDevices(ctx) \subseteq DevicesOf(ctx)
    BY DEF Recent, Used, LiveDevices
<1>3. IsFiniteSet(Recent(ctx)) /\ IsFiniteSet(Used(ctx)) /\ IsFiniteSet(LiveDevices(ctx))
    BY <1>1, <1>2, FS_Subset
<1> QED
    BY <1>1, <1>3, FS_CardinalityType

\* A step that mints nothing breaks no bound on tokens; one that enrols nothing
\* breaks none on devices.
LEMMA TokenBounds ==
    ASSUME TypeOK, RowsAreFinite, MintRate, \A t \in Token : TokenKept(t), NEW ctx \in Context
    PROVE  /\ IsFiniteSet(MintedBy(ctx)') /\ IsFiniteSet(Used(ctx)')
           /\ Cardinality(Recent(ctx)') <= Cardinality(Recent(ctx))
           /\ Cardinality(Recent(ctx)') \in Nat
           /\ Cardinality(Used(ctx)) <= Cardinality(Used(ctx)')
           /\ Cardinality(Used(ctx)') \in Nat
<1>1. IsFiniteSet(MintedBy(ctx)') /\ Used(ctx)' \subseteq MintedBy(ctx)'
    BY Finite, TokensKept DEF Used
<1>2. IsFiniteSet(Used(ctx)')
    BY <1>1, FS_Subset
<1>3. Used(ctx) \in SUBSET Used(ctx)' /\ Recent(ctx)' \in SUBSET Recent(ctx)
    BY TokensKept
<1>4. Cardinality(Used(ctx)) <= Cardinality(Used(ctx)') /\ Cardinality(Used(ctx)') \in Nat
    BY <1>2, <1>3, FS_Subset, FS_CardinalityType
<1>5. IsFiniteSet(Recent(ctx))
    BY Finite
<1>6. Cardinality(Recent(ctx)') <= Cardinality(Recent(ctx)) /\ Cardinality(Recent(ctx)') \in Nat
    BY <1>3, <1>5, FS_Subset, FS_CardinalityType
<1> QED
    BY <1>1, <1>2, <1>4, <1>6

LEMMA DeviceBounds ==
    ASSUME TypeOK, RowsAreFinite, \A d \in Device : DeviceKept(d), NEW ctx \in Context
    PROVE  /\ IsFiniteSet(DevicesOf(ctx)')
           /\ Cardinality(DevicesOf(ctx)') = Cardinality(DevicesOf(ctx))
           /\ Cardinality(LiveDevices(ctx)') <= Cardinality(LiveDevices(ctx))
           /\ Cardinality(LiveDevices(ctx)') \in Nat
<1>1. IsFiniteSet(DevicesOf(ctx)) /\ IsFiniteSet(LiveDevices(ctx))
    BY Finite
<1>2. DevicesOf(ctx)' = DevicesOf(ctx) /\ LiveDevices(ctx)' \in SUBSET LiveDevices(ctx)
    BY DevicesKept
<1> QED
    BY <1>1, <1>2, FS_Subset, FS_CardinalityType

\* What a request counted stays so while it holds the row of its account and
\* nothing is added to that account.
LEMMA CountKept ==
    ASSUME TypeOK, RowsAreFinite, NEW p \in Process, CountOK(p), op'[p] = op[p],
           p \in Holding => users'[op[p].email] = users[op[p].email],
           op[p].pc = "exchange" => tokens'[op[p].token] = tokens[op[p].token],
           p \in Holding => \A ctx \in Context : ctx.email = op[p].email =>
              Recent(ctx)' \subseteq Recent(ctx) /\ LiveDevices(ctx)' \subseteq LiveDevices(ctx)
    PROVE  CountOK(p)'
<1>t. /\ op[p] \in {Idle} \cup Registering \cup Minting \cup Exchanging
      /\ users \in [Email -> User \cup {NoUser}]
    BY DEF TypeOK, AccountsTypeOK
<1>1. CASE op[p].pc = "mint"
    <2>1. op[p] \in Minting /\ Exists(op[p].email)
        BY <1>t, <1>1 DEF CountOK, Idle, Registering, Minting, Exchanging
    <2>2. op[p].email \in Email /\ users[op[p].email] \in User
        BY <1>t, <2>1 DEF Minting, Exists
    <2>3. users'[op[p].email] = users[op[p].email]
        BY <1>1 DEF Holding
    <2> DEFINE c == Ctx(op[p].email)
    <2>c. c \in Context /\ c.email = op[p].email
        BY <2>2 DEF Ctx, Context, User
    <2>4. PICK ctx \in Context : ctx = c /\ ctx.email = op[p].email
        BY <2>c
    <2>5. Recent(Ctx(op[p].email))' = Recent(ctx)'
        BY <2>3, <2>4 DEF Ctx, Recent, MintedBy
    <2>6. /\ IsFiniteSet(Recent(ctx)) /\ Recent(ctx)' \subseteq Recent(ctx)
          /\ Cardinality(Recent(ctx)) \in Nat
        BY <1>1, <2>4, Finite DEF Holding
    <2>7. Cardinality(Recent(ctx)') <= Cardinality(Recent(ctx)) /\ Cardinality(Recent(ctx)') \in Nat
        BY <2>6, FS_Subset, FS_CardinalityType
    <2>8. ~op[p].full => Cardinality(Recent(Ctx(op[p].email))') < INSTALL_RATE
        BY <1>1, <2>4, <2>5, <2>6, <2>7, InstallAssumption DEF CountOK
    <2> QED
        BY <1>1, <2>1, <2>3, <2>8 DEF CountOK, Exists
<1>2. CASE op[p].pc = "exchange"
    <2>1. op[p] \in Exchanging /\ tokens[op[p].token] # NoRow
        BY <1>t, <1>2 DEF CountOK, Idle, Registering, Minting, Exchanging
    <2>2. tokens[op[p].token] \in TokenRow
        BY <2>1, RowTypes DEF Exchanging
    <2>3. PICK ctx \in Context : ctx = tokens[op[p].token].ctx /\ ctx.email = op[p].email
        BY <1>2, <2>2 DEF TokenRow, CountOK
    <2>4. LiveDevices(tokens[op[p].token].ctx)' = LiveDevices(ctx)'
        BY <1>2, <2>3 DEF LiveDevices, DevicesOf
    <2>5. /\ IsFiniteSet(LiveDevices(ctx)) /\ LiveDevices(ctx)' \subseteq LiveDevices(ctx)
          /\ Cardinality(LiveDevices(ctx)) \in Nat
        BY <1>2, <2>3, Finite DEF Holding
    <2>6. Cardinality(LiveDevices(ctx)') <= Cardinality(LiveDevices(ctx))
          /\ Cardinality(LiveDevices(ctx)') \in Nat
        BY <2>5, FS_Subset, FS_CardinalityType
    <2>7. ~op[p].full => Cardinality(LiveDevices(tokens[op[p].token].ctx)') < DEVICE_LIMIT
        BY <1>2, <2>3, <2>4, <2>5, <2>6, InstallAssumption DEF CountOK
    <2> QED
        BY <1>2, <2>7 DEF CountOK
<1>3. CASE op[p].pc \notin {"mint", "exchange"}
    BY <1>3 DEF CountOK
<1> QED
    BY <1>1, <1>2, <1>3

-----------------------------------------------------------------------------
(* Locks, and steps that add no row. *)

LEMMA LockTaken ==
    ASSUME TypeOK, LocksAreHeld, NEW p \in Process, op[p] = Idle, NEW e \in Email, e \notin locked,
           NEW o \in Minting \cup Exchanging, o.email = e,
           op' = [op EXCEPT ![p] = o], locked' = locked \cup {e}
    PROVE  LocksAreHeld' /\ op'[p] = o /\ \A q \in Process \ {p} : op'[q] = op[q]
<1>1. op'[p] = o /\ \A q \in Process \ {p} : op'[q] = op[q]
    BY DEF TypeOK
<1>2. p \notin Holding /\ Holding' = Holding \cup {p}
    BY <1>1 DEF Holding, Idle, Minting, Exchanging
<1> QED
    BY <1>1, <1>2 DEF LocksAreHeld, Holding

LEMMA LockGivenUp ==
    ASSUME TypeOK, LocksAreHeld, NEW p \in Holding, Unlock(p)
    PROVE  /\ LocksAreHeld' /\ op'[p] = Idle /\ \A q \in Process \ {p} : op'[q] = op[q]
           /\ CountOK(p)'
           /\ \A q \in Process \ {p} : q \in Holding => op[q].email # op[p].email
           /\ locked' \subseteq Email
           /\ op' \in [Process -> {Idle} \cup Registering \cup Minting \cup Exchanging]
<1>t. op \in [Process -> {Idle} \cup Registering \cup Minting \cup Exchanging] /\ locked \subseteq Email
    BY DEF TypeOK, AccountsTypeOK
<1>1. p \in Process /\ op'[p] = Idle /\ \A q \in Process \ {p} : op'[q] = op[q]
    BY <1>t DEF Unlock, Holding
<1>2. CountOK(p)'
    BY <1>1 DEF CountOK, Idle
<1>3. \A q \in Process \ {p} : q \in Holding => op[q].email # op[p].email
    BY <1>1 DEF LocksAreHeld
<1>4. Holding' = Holding \ {p}
    BY <1>1 DEF Holding, Idle
<1>5. LocksAreHeld'
    BY <1>1, <1>3, <1>4 DEF LocksAreHeld, Unlock, Holding
<1> QED
    BY <1>t, <1>1, <1>2, <1>3, <1>5 DEF Unlock

\* Bounds hold when no row is added.
LEMMA BoundsKept ==
    ASSUME TypeOK, InstallInv, \A t \in Token : TokenKept(t), \A d \in Device : DeviceKept(d)
    PROVE  RowsAreFinite' /\ MintRate' /\ DeviceLimit' /\ DevicesArePaidFor' /\ OwnersAreEqual'
<1> USE DEF InstallInv
<1>1. RowsAreFinite'
    BY TokenBounds, DeviceBounds DEF RowsAreFinite
<1>2. MintRate'
    <2> SUFFICES ASSUME NEW ctx \in Context
                 PROVE  Cardinality(Recent(ctx)') <= INSTALL_RATE
        BY DEF MintRate
    <2>1. Cardinality(Recent(ctx)') <= Cardinality(Recent(ctx)) /\ Cardinality(Recent(ctx)') \in Nat
        BY TokenBounds
    <2> QED
        BY <2>1, Finite, InstallAssumption DEF MintRate
<1>3. DeviceLimit'
    <2> SUFFICES ASSUME NEW ctx \in Context
                 PROVE  Cardinality(LiveDevices(ctx)') <= DEVICE_LIMIT
        BY DEF DeviceLimit
    <2>1. Cardinality(LiveDevices(ctx)') <= Cardinality(LiveDevices(ctx))
          /\ Cardinality(LiveDevices(ctx)') \in Nat
        BY DeviceBounds
    <2> QED
        BY <2>1, Finite, InstallAssumption DEF DeviceLimit
<1>4. DevicesArePaidFor'
    <2> SUFFICES ASSUME NEW ctx \in Context
                 PROVE  Cardinality(DevicesOf(ctx)') <= Cardinality(Used(ctx)')
        BY DEF DevicesArePaidFor, Used
    <2>1. Cardinality(DevicesOf(ctx)) <= Cardinality(Used(ctx))
        BY DEF DevicesArePaidFor, Used
    <2> QED
        BY <2>1, Finite, TokenBounds, DeviceBounds
<1>5. OwnersAreEqual'
    BY DevicesKept DEF OwnersAreEqual
<1> QED
    BY <1>1, <1>2, <1>3, <1>4, <1>5

-----------------------------------------------------------------------------
(* The invariant is preserved, one action at a time. *)

\* Accounts and installations meet at the lock of the account's row.
LEMMA AccountsPreserve ==
    ASSUME IInv, AccountsNext, UNCHANGED installVars
    PROVE  IInv'
<1> USE DEF IInv
<1>1. TypeOK'
    <2>1. /\ users' \in [Email -> User \cup {NoUser}]
          /\ sessions' \in [Browser -> Claims \cup {NoSession}]
        BY AccountRows, AccountSessions
    <2>2. /\ companies' \subseteq Domain /\ locked' = locked
          /\ op' \in [Process -> {Idle} \cup Registering \cup Minting \cup Exchanging]
        BY AccountRequests
    <2> QED
        BY <2>1, <2>2 DEF TypeOK, AccountsTypeOK, installVars
<1>2. AccountsInv'
    BY FoundersPreserved, RowsPreserved, SessionsPreserved DEF AccountsInv
<1>3. \A p \in Process : /\ p \in Holding' <=> p \in Holding
                         /\ p \in Holding => op'[p] = op[p]
    <2>1. ASSUME NEW p \in Process, Entered(p)
          PROVE  op'[p].pc = "insert_admin"
        BY <2>1 DEF TypeOK, Entered, Idle, Registering, Minting, Exchanging
    <2> QED
        BY <2>1, AccountRequests DEF Holding, Entered
<1>4. LocksAreHeld'
    BY <1>3, AccountRequests DEF InstallInv, LocksAreHeld, Holding
<1>5. (\A t \in Token : TokenKept(t)) /\ (\A d \in Device : DeviceKept(d))
    BY DEF TokenKept, DeviceKept, installVars
<1>6. CountsAreCurrent'
    <2> SUFFICES ASSUME NEW p \in Process
                 PROVE  CountOK(p)'
        BY DEF CountsAreCurrent
    <2>1. CASE p \in Holding
        <3>1. op[p].email \in Email /\ op[p].email \in locked
            BY <2>1 DEF InstallInv, LocksAreHeld, TypeOK, AccountsTypeOK
        <3>2. users'[op[p].email] = users[op[p].email]
            BY <3>1, AccountRows DEF Written
        <3>3. tokens' = tokens
            BY DEF installVars
        <3> QED
            BY <1>3, <1>5, <2>1, <3>2, <3>3, CountKept, TokensKept, DevicesKept
            DEF InstallInv, CountsAreCurrent
    <2>2. CASE p \notin Holding
        BY <1>3, <2>2 DEF CountOK, Holding
    <2> QED
        BY <2>1, <2>2
<1>7. MachinesHoldTheirOwn'
    BY DEF InstallInv, MachinesHoldTheirOwn, installVars
<1> QED
    BY <1>1, <1>2, <1>4, <1>5, <1>6, <1>7, BoundsKept DEF InstallInv

LEMMA MintPreserves ==
    ASSUME IInv, NEW p \in Process, NEW b \in Browser, Mint(p, b)
    PROVE  IInv'
<1> USE DEF IInv
<1> DEFINE e == sessions[b].email
           row == [pc |-> "mint", email |-> e, full |-> Cardinality(Recent(Ctx(e))) >= INSTALL_RATE]
<1>1. /\ op[p] = Idle /\ e \notin locked /\ locked' = locked \cup {e}
      /\ op' = [op EXCEPT ![p] = row]
      /\ UNCHANGED <<companies, users, sessions, tokens, devices, holds>>
      /\ sessions[b] # NoSession /\ users[e].status = "approved"
    BY DEF Mint, Current, installVars
<1>2. e \in Email /\ Exists(e) /\ Ctx(e) \in Context
    <2>1. sessions[b] \in Claims /\ users \in [Email -> User \cup {NoUser}]
        BY <1>1 DEF TypeOK, AccountsTypeOK
    <2>2. e \in Email
        BY <2>1 DEF Claims
    <2>3. users[e] \in User /\ users[e] # NoUser
        BY <1>1, <2>1, <2>2 DEF User, NoUser
    <2> QED
        BY <2>2, <2>3 DEF Exists, Ctx, Context, User
<1>r. row \in Minting
    BY <1>2 DEF Minting
<1>3. PICK o \in Minting : /\ o.pc = "mint" /\ o.email = e
                           /\ o.full <=> Cardinality(Recent(Ctx(e))) >= INSTALL_RATE
                           /\ op' = [op EXCEPT ![p] = o]
    BY <1>1, <1>r
<1>4. LocksAreHeld' /\ op'[p] = o /\ \A q \in Process \ {p} : op'[q] = op[q]
    BY <1>1, <1>2, <1>3, LockTaken DEF InstallInv
<1>5. TypeOK'
    <2>1. op' \in [Process -> {Idle} \cup Registering \cup Minting \cup Exchanging]
        BY <1>1, <1>3 DEF TypeOK
    <2> QED
        BY <1>1, <1>2, <2>1 DEF TypeOK, AccountsTypeOK
<1>6. AccountsInv'
    BY <1>1, <1>3, <1>4, AccountsFrame
<1>7. (\A t \in Token : TokenKept(t)) /\ (\A d \in Device : DeviceKept(d))
    BY <1>1 DEF TokenKept, DeviceKept
<1>8. CountsAreCurrent'
    <2>1. CountOK(p)'
        <3>1. Recent(Ctx(e))' = Recent(Ctx(e)) /\ Cardinality(Recent(Ctx(e))) \in Nat
            BY <1>1, <1>2, Finite DEF Recent, MintedBy, Ctx, InstallInv
        <3>2. ~o.full => Cardinality(Recent(Ctx(e))) < INSTALL_RATE
            BY <1>3, <3>1, InstallAssumption
        <3> QED
            BY <1>1, <1>2, <1>3, <1>4, <3>1, <3>2 DEF CountOK, Exists, Ctx
    <2>2. ASSUME NEW q \in Process \ {p}
          PROVE  CountOK(q)'
        BY <1>1, <1>4, <1>7, CountKept, TokensKept, DevicesKept DEF InstallInv, CountsAreCurrent
    <2> QED
        BY <2>1, <2>2 DEF CountsAreCurrent
<1>9. MachinesHoldTheirOwn'
    BY <1>1 DEF InstallInv, MachinesHoldTheirOwn
<1> QED
    BY <1>4, <1>5, <1>6, <1>7, <1>8, <1>9, BoundsKept DEF InstallInv

LEMMA RollsBackPreserves ==
    ASSUME IInv, NEW p \in Process, RollsBack(p)
    PROVE  IInv'
<1> USE DEF IInv
<1>1. p \in Holding /\ Unlock(p) /\ UNCHANGED <<companies, users, sessions, tokens, devices, holds>>
    BY DEF RollsBack, Holding, Unlock, installVars
<1>2. /\ LocksAreHeld' /\ op'[p] = Idle /\ \A q \in Process \ {p} : op'[q] = op[q]
      /\ CountOK(p)' /\ locked' \subseteq Email
      /\ op' \in [Process -> {Idle} \cup Registering \cup Minting \cup Exchanging]
    BY <1>1, LockGivenUp DEF InstallInv
<1>3. TypeOK'
    BY <1>1, <1>2 DEF TypeOK, AccountsTypeOK
<1>4. AccountsInv'
    BY <1>1, <1>2, AccountsFrame DEF Idle
<1>5. (\A t \in Token : TokenKept(t)) /\ (\A d \in Device : DeviceKept(d))
    BY <1>1 DEF TokenKept, DeviceKept
<1>6. ASSUME NEW q \in Process \ {p}
      PROVE  CountOK(q)'
    BY <1>1, <1>2, <1>5, CountKept, TokensKept, DevicesKept DEF InstallInv, CountsAreCurrent
<1>7. MachinesHoldTheirOwn'
    BY <1>1 DEF InstallInv, MachinesHoldTheirOwn
<1> QED
    BY <1>2, <1>3, <1>4, <1>5, <1>6, <1>7, BoundsKept DEF InstallInv, CountsAreCurrent

\* The one new token is within the rate that was counted under the lock.
LEMMA MintCommitsPreserves ==
    ASSUME IInv, NEW p \in Process, ~op[p].full, op[p].pc = "mint", Unlock(p),
           UNCHANGED <<devices, holds>>,
           NEW t \in Token, tokens[t] = NoRow,
           tokens' = [tokens EXCEPT ![t] =
              [ctx |-> Ctx(op[p].email), state |-> "open", recent |-> TRUE]]
    PROVE  IInv'
<1> USE DEF IInv
<1>1. p \in Holding /\ UNCHANGED <<companies, users, sessions>>
    BY DEF Holding, Unlock
<1>2. /\ LocksAreHeld' /\ op'[p] = Idle /\ \A q \in Process \ {p} : op'[q] = op[q]
      /\ CountOK(p)' /\ locked' \subseteq Email
      /\ \A q \in Process \ {p} : q \in Holding => op[q].email # op[p].email
      /\ op' \in [Process -> {Idle} \cup Registering \cup Minting \cup Exchanging]
    BY <1>1, LockGivenUp DEF InstallInv
<1>c. Ctx(op[p].email) \in Context /\ Ctx(op[p].email).email = op[p].email
      /\ Cardinality(Recent(Ctx(op[p].email))) < INSTALL_RATE
    <2>1. op[p] \in Minting /\ CountOK(p)
        BY DEF InstallInv, CountsAreCurrent, TypeOK, Idle, Registering, Minting, Exchanging
    <2>2. op[p].email \in Email /\ users[op[p].email] \in User
        BY <2>1 DEF Minting, CountOK, Exists, TypeOK, AccountsTypeOK
    <2> QED
        BY <2>1, <2>2 DEF CountOK, Ctx, Context, User
<1>3. PICK new \in Context : /\ new.email = op[p].email
                            /\ Cardinality(Recent(new)) < INSTALL_RATE
                            /\ tokens' = [tokens EXCEPT ![t] =
                                  [ctx |-> new, state |-> "open", recent |-> TRUE]]
    BY <1>c
<1>4. TypeOK'
    <2>1. [ctx |-> new, state |-> "open", recent |-> TRUE] \in TokenRow
        BY DEF TokenRow
    <2> QED
        BY <1>1, <1>2, <1>3, <2>1 DEF TypeOK, AccountsTypeOK
<1>5. AccountsInv'
    BY <1>1, <1>2, AccountsFrame DEF Idle
<1>6. \A d \in Device : DeviceKept(d)
    BY DEF DeviceKept
<1>7. ASSUME NEW ctx \in Context
      PROVE  /\ t \notin MintedBy(ctx) /\ Used(ctx)' = Used(ctx)
             /\ ctx = new => /\ MintedBy(ctx)' = MintedBy(ctx) \cup {t}
                             /\ Recent(ctx)' = Recent(ctx) \cup {t}
             /\ ctx # new => /\ MintedBy(ctx)' = MintedBy(ctx)
                             /\ Recent(ctx)' = Recent(ctx)
    <2>1. t \notin MintedBy(ctx)
        BY DEF MintedBy, NoRow, NoUser, Context
    <2>2. tokens'[t] = [ctx |-> new, state |-> "open", recent |-> TRUE]
          /\ \A u \in Token \ {t} : tokens'[u] = tokens[u]
        BY <1>3 DEF TypeOK
    <2>3. MintedBy(ctx)' = IF ctx = new THEN MintedBy(ctx) \cup {t} ELSE MintedBy(ctx)
        BY <2>1, <2>2 DEF MintedBy
    <2> QED
        BY <2>1, <2>2, <2>3 DEF Recent, Used, MintedBy
<1>8. RowsAreFinite' /\ MintRate' /\ DevicesArePaidFor'
    <2> SUFFICES ASSUME NEW ctx \in Context
                 PROVE  /\ IsFiniteSet(MintedBy(ctx)') /\ IsFiniteSet(DevicesOf(ctx)')
                        /\ Cardinality(Recent(ctx)') <= INSTALL_RATE
                        /\ Cardinality(DevicesOf(ctx)') <= Cardinality(Used(ctx)')
        BY DEF RowsAreFinite, MintRate, DevicesArePaidFor, Used
    <2>1. /\ IsFiniteSet(MintedBy(ctx)) /\ IsFiniteSet(DevicesOf(ctx)) /\ IsFiniteSet(Recent(ctx))
          /\ Cardinality(Recent(ctx)) \in Nat /\ Cardinality(Recent(ctx)) <= INSTALL_RATE
          /\ Cardinality(DevicesOf(ctx)) <= Cardinality(Used(ctx))
        BY Finite DEF InstallInv, MintRate, DevicesArePaidFor, Used
    <2>2. DevicesOf(ctx)' = DevicesOf(ctx)
        BY DEF DevicesOf
    <2>3. IsFiniteSet(MintedBy(ctx)')
        BY <1>7, <2>1, FS_AddElement
    <2>4. t \notin Recent(ctx)
        BY <1>7 DEF Recent
    <2>5. Cardinality(Recent(ctx) \cup {t}) = Cardinality(Recent(ctx)) + 1
        BY <2>1, <2>4, FS_AddElement
    <2>6. Cardinality(Recent(ctx)') <= INSTALL_RATE
        <3>1. CASE ctx = new
            BY <1>3, <1>7, <2>1, <2>5, <3>1, InstallAssumption
        <3>2. CASE ctx # new
            BY <1>7, <2>1, <3>2
        <3> QED
            BY <3>1, <3>2
    <2> QED
        BY <1>7, <2>1, <2>2, <2>3, <2>6
<1>9. DeviceLimit' /\ OwnersAreEqual' /\ MachinesHoldTheirOwn'
    BY DEF InstallInv, DeviceLimit, OwnersAreEqual, MachinesHoldTheirOwn, LiveDevices, Owner, DevicesOf
<1>10. ASSUME NEW q \in Process \ {p}
       PROVE  CountOK(q)'
    <2>1. op[q].pc = "exchange" => tokens'[op[q].token] = tokens[op[q].token]
        BY <1>3 DEF InstallInv, CountsAreCurrent, CountOK, TypeOK
    <2>2. q \in Holding => \A ctx \in Context : ctx.email = op[q].email =>
              Recent(ctx)' \subseteq Recent(ctx) /\ LiveDevices(ctx)' \subseteq LiveDevices(ctx)
        BY <1>2, <1>3, <1>6, <1>7, DevicesKept
    <2> QED
        BY <1>1, <1>2, <2>1, <2>2, CountKept DEF InstallInv, CountsAreCurrent
<1> QED
    BY <1>2, <1>4, <1>5, <1>8, <1>9, <1>10 DEF InstallInv, CountsAreCurrent

LEMMA ExchangePreserves ==
    ASSUME IInv, NEW p \in Process, NEW t \in Token, NEW m \in Machine, Exchange(p, t, m)
    PROVE  IInv'
<1> USE DEF IInv
<1>0. /\ tokens[t] \in TokenRow /\ tokens[t].ctx \in Context /\ tokens[t].ctx.email \in Email
    BY RowTypes DEF Exchange, Redeemable, TokenRow, Context
<1>1. PICK e \in Email, ctx \in Context :
          /\ ctx = tokens[t].ctx /\ e = ctx.email
          /\ op[p] = Idle /\ e \notin locked /\ locked' = locked \cup {e}
          /\ tokens[t] # NoRow /\ tokens[t].state = "open"
          /\ UNCHANGED <<companies, users, sessions, tokens, devices, holds>>
          /\ op' = [op EXCEPT ![p] =
                [pc |-> "exchange", email |-> e, token |-> t, machine |-> m,
                 full |-> Cardinality(LiveDevices(ctx)) >= DEVICE_LIMIT]]
    BY <1>0 DEF Exchange, Redeemable, installVars
<1>2. [pc |-> "exchange", email |-> e, token |-> t, machine |-> m,
       full |-> Cardinality(LiveDevices(ctx)) >= DEVICE_LIMIT] \in Exchanging
    BY DEF Exchanging
<1>3. PICK o \in Exchanging :
          /\ o.pc = "exchange" /\ o.email = e /\ o.token = t
          /\ o.full <=> Cardinality(LiveDevices(ctx)) >= DEVICE_LIMIT
          /\ op' = [op EXCEPT ![p] = o]
    BY <1>1, <1>2
<1>4. LocksAreHeld' /\ op'[p] = o /\ \A q \in Process \ {p} : op'[q] = op[q]
    BY <1>1, <1>3, LockTaken DEF InstallInv
<1>5. TypeOK'
    <2>1. op' \in [Process -> {Idle} \cup Registering \cup Minting \cup Exchanging]
        BY <1>3 DEF TypeOK
    <2> QED
        BY <1>1, <2>1 DEF TypeOK, AccountsTypeOK
<1>6. AccountsInv'
    BY <1>1, <1>3, <1>4, AccountsFrame
<1>7. (\A u \in Token : TokenKept(u)) /\ (\A d \in Device : DeviceKept(d))
    BY <1>1 DEF TokenKept, DeviceKept
<1>8. CountsAreCurrent'
    <2>1. CountOK(p)'
        <3>1. LiveDevices(ctx)' = LiveDevices(ctx) /\ Cardinality(LiveDevices(ctx)) \in Nat
            BY <1>1, Finite DEF LiveDevices, DevicesOf, InstallInv
        <3>2. ~o.full => Cardinality(LiveDevices(ctx)) < DEVICE_LIMIT
            BY <1>3, <3>1, InstallAssumption
        <3> QED
            BY <1>1, <1>3, <1>4, <3>1, <3>2 DEF CountOK
    <2>2. ASSUME NEW q \in Process \ {p}
          PROVE  CountOK(q)'
        BY <1>1, <1>4, <1>7, CountKept, TokensKept, DevicesKept DEF InstallInv, CountsAreCurrent
    <2> QED
        BY <2>1, <2>2 DEF CountsAreCurrent
<1>9. MachinesHoldTheirOwn'
    BY <1>1 DEF InstallInv, MachinesHoldTheirOwn
<1> QED
    BY <1>4, <1>5, <1>6, <1>7, <1>8, <1>9, BoundsKept DEF InstallInv

\* What an exchange knows of its token when it commits.
LEMMA Redeems ==
    ASSUME IInv, NEW p \in Process, op[p].pc = "exchange"
    PROVE  /\ op[p].token \in Token /\ op[p].machine \in Machine
           /\ tokens[op[p].token] \in TokenRow /\ tokens[op[p].token].state = "open"
           /\ tokens[op[p].token].ctx \in Context
           /\ tokens[op[p].token].ctx.email = op[p].email
           /\ ~op[p].full => Cardinality(LiveDevices(tokens[op[p].token].ctx)) < DEVICE_LIMIT
<1>1. op[p] \in Exchanging /\ CountOK(p)
    BY DEF IInv, InstallInv, CountsAreCurrent, TypeOK, Idle, Registering, Minting, Exchanging
<1>2. tokens[op[p].token] \in TokenRow
    BY <1>1, RowTypes DEF IInv, Exchanging, CountOK
<1> QED
    BY <1>1, <1>2 DEF Exchanging, CountOK, TokenRow

\* The token of an exchange is used up, and with it one more is of its account.
LEMMA TokenUsed ==
    ASSUME IInv, NEW p \in Process, op[p].pc = "exchange",
           tokens' = [tokens EXCEPT ![op[p].token].state = "used"], NEW ctx \in Context
    PROVE  /\ tokens' \in [Token -> TokenRow \cup {NoRow}]
           /\ \A t \in Token : TokenKept(t)
           /\ ctx = tokens[op[p].token].ctx =>
                 Cardinality(Used(ctx)') = Cardinality(Used(ctx)) + 1
<1> DEFINE u == op[p].token
<1>1. u \in Token /\ tokens[u] \in TokenRow /\ tokens[u].state = "open"
      /\ tokens \in [Token -> TokenRow \cup {NoRow}]
    BY Redeems DEF IInv, TypeOK
<1>2. [tokens[u] EXCEPT !.state = "used"] \in TokenRow
    BY <1>1 DEF TokenRow
<1>3. /\ tokens' \in [Token -> TokenRow \cup {NoRow}]
      /\ \A t \in Token : t # u => tokens'[t] = tokens[t]
      /\ tokens'[u] = [tokens[u] EXCEPT !.state = "used"]
    BY <1>1, <1>2
<1>4. \A t \in Token : TokenKept(t)
    BY <1>1, <1>2, <1>3 DEF TokenKept, TokenRow, NoRow
<1>5. ASSUME ctx = tokens[u].ctx
      PROVE  Cardinality(Used(ctx)') = Cardinality(Used(ctx)) + 1
    <2>1. MintedBy(ctx)' = MintedBy(ctx)
        BY <1>4, TokensKept DEF IInv
    <2>2. u \in MintedBy(ctx) /\ u \notin Used(ctx)
        BY <1>1, <1>5 DEF MintedBy, Used
    <2>3. tokens'[u].state = "used"
        BY <1>1, <1>3 DEF TokenRow
    <2>4. Used(ctx)' = Used(ctx) \cup {u}
        BY <1>3, <2>1, <2>2, <2>3 DEF Used, MintedBy
    <2>5. IsFiniteSet(Used(ctx))
        BY Finite DEF IInv, InstallInv
    <2> QED
        BY <2>2, <2>4, <2>5, FS_AddElement
<1> QED
    BY <1>3, <1>4, <1>5

\* A known machine keeps its device.
LEMMA KeepsDevicePreserves ==
    ASSUME IInv, NEW p \in Process, NEW arrives \in BOOLEAN, op[p].pc = "exchange", Unlock(p),
           KeepsDevice(p, arrives), tokens' = [tokens EXCEPT ![op[p].token].state = "used"]
    PROVE  IInv'
<1> USE DEF IInv
<1>1. p \in Holding /\ UNCHANGED <<companies, users, sessions, devices>>
    BY DEF Holding, Unlock, KeepsDevice
<1>2. /\ LocksAreHeld' /\ op'[p] = Idle /\ \A q \in Process \ {p} : op'[q] = op[q]
      /\ CountOK(p)' /\ locked' \subseteq Email
      /\ \A q \in Process \ {p} : q \in Holding => op[q].email # op[p].email
      /\ op' \in [Process -> {Idle} \cup Registering \cup Minting \cup Exchanging]
    BY <1>1, LockGivenUp DEF InstallInv
<1>3. tokens' \in [Token -> TokenRow \cup {NoRow}] /\ \A t \in Token : TokenKept(t)
    BY Redeems, TokenUsed
<1>4. PICK d \in Device : /\ devices[d] # NoRow /\ devices[d].machine = op[p].machine
                         /\ Answered(p, d, arrives)
    BY Redeems, RowTypes DEF KeepsDevice, Owner, DevicesOf, NoRow
<1>5. TypeOK'
    BY <1>1, <1>2, <1>3, <1>4, Redeems DEF TypeOK, AccountsTypeOK, Answered
<1>6. AccountsInv'
    BY <1>1, <1>2, AccountsFrame DEF Idle
<1>7. \A c \in Device : DeviceKept(c)
    BY <1>1 DEF DeviceKept
<1>8. MachinesHoldTheirOwn'
    BY <1>1, <1>4, Redeems DEF InstallInv, MachinesHoldTheirOwn, Answered, TypeOK
<1>9. ASSUME NEW q \in Process \ {p}
      PROVE  CountOK(q)'
    <2>1. op[q].pc = "exchange" => tokens'[op[q].token] = tokens[op[q].token]
        BY <1>2, Redeems DEF TypeOK, Holding
    <2> QED
        BY <1>1, <1>2, <1>3, <1>7, <2>1, CountKept, TokensKept, DevicesKept
        DEF InstallInv, CountsAreCurrent
<1> QED
    BY <1>2, <1>3, <1>5, <1>6, <1>7, <1>8, <1>9, BoundsKept DEF InstallInv, CountsAreCurrent

\* A new machine gets a device: within the limit that was counted under the
\* lock, paid for by the token, and its only one.
LEMMA NewDevicePreserves ==
    ASSUME IInv, NEW p \in Process, NEW arrives \in BOOLEAN, op[p].pc = "exchange", Unlock(p),
           ~op[p].full, NewDevice(p, arrives),
           tokens' = [tokens EXCEPT ![op[p].token].state = "used"]
    PROVE  IInv'
<1> USE DEF IInv
<1>1. p \in Holding /\ UNCHANGED <<companies, users, sessions>>
    BY DEF Holding, Unlock
<1>2. /\ LocksAreHeld' /\ op'[p] = Idle /\ \A q \in Process \ {p} : op'[q] = op[q]
      /\ CountOK(p)' /\ locked' \subseteq Email
      /\ \A q \in Process \ {p} : q \in Holding => op[q].email # op[p].email
      /\ op' \in [Process -> {Idle} \cup Registering \cup Minting \cup Exchanging]
    BY <1>1, LockGivenUp DEF InstallInv
<1>3. tokens' \in [Token -> TokenRow \cup {NoRow}] /\ \A t \in Token : TokenKept(t)
    BY Redeems, TokenUsed
<1>4. PICK new \in Context, m \in Machine :
          /\ new = tokens[op[p].token].ctx /\ new.email = op[p].email
          /\ m = op[p].machine /\ Owner(new, m) = {}
          /\ Cardinality(LiveDevices(new)) < DEVICE_LIMIT
    BY Redeems DEF NewDevice
<1>r. [ctx |-> new, machine |-> m, revoked |-> FALSE, expired |-> FALSE] \in DeviceRow
    BY DEF DeviceRow
<1>5. PICK d \in Device :
          /\ devices[d] = NoRow
          /\ devices' = [devices EXCEPT ![d] =
                [ctx |-> new, machine |-> m, revoked |-> FALSE, expired |-> FALSE]]
          /\ holds' = IF arrives THEN [holds EXCEPT ![m] = d] ELSE holds
    BY <1>4 DEF NewDevice, Answered
<1>6. /\ devices' \in [Device -> DeviceRow \cup {NoRow}]
      /\ devices'[d] = [ctx |-> new, machine |-> m, revoked |-> FALSE, expired |-> FALSE]
      /\ \A c \in Device : c # d => devices'[c] = devices[c]
    BY <1>r, <1>5 DEF TypeOK
<1>7. TypeOK'
    BY <1>1, <1>2, <1>3, <1>5, <1>6 DEF TypeOK, AccountsTypeOK
<1>8. AccountsInv'
    BY <1>1, <1>2, AccountsFrame DEF Idle
<1>9. ASSUME NEW ctx \in Context
      PROVE  /\ d \notin DevicesOf(ctx)
             /\ ctx = new => /\ DevicesOf(ctx)' = DevicesOf(ctx) \cup {d}
                             /\ LiveDevices(ctx)' = LiveDevices(ctx) \cup {d}
             /\ ctx # new => /\ DevicesOf(ctx)' = DevicesOf(ctx)
                             /\ LiveDevices(ctx)' = LiveDevices(ctx)
             /\ \A k \in Machine : Owner(ctx, k)' =
                   IF ctx = new /\ k = m THEN {d} ELSE Owner(ctx, k)
    <2>1. d \notin DevicesOf(ctx)
        BY <1>5 DEF DevicesOf, NoRow, NoUser, Context
    <2>2. DevicesOf(ctx)' = IF ctx = new THEN DevicesOf(ctx) \cup {d} ELSE DevicesOf(ctx)
        BY <1>6, <2>1 DEF DevicesOf
    <2>3. LiveDevices(ctx)' = IF ctx = new THEN LiveDevices(ctx) \cup {d} ELSE LiveDevices(ctx)
        BY <1>6, <2>1, <2>2 DEF LiveDevices, DevicesOf
    <2>4. \A k \in Machine : Owner(ctx, k)' =
              IF ctx = new /\ k = m THEN Owner(ctx, k) \cup {d} ELSE Owner(ctx, k)
        BY <1>6, <2>1, <2>2 DEF Owner, DevicesOf
    <2> QED
        BY <1>4, <2>1, <2>2, <2>3, <2>4
<1>10. RowsAreFinite' /\ MintRate' /\ DeviceLimit' /\ DevicesArePaidFor'
    <2> SUFFICES ASSUME NEW ctx \in Context
                 PROVE  /\ IsFiniteSet(MintedBy(ctx)') /\ IsFiniteSet(DevicesOf(ctx)')
                        /\ Cardinality(Recent(ctx)') <= INSTALL_RATE
                        /\ Cardinality(LiveDevices(ctx)') <= DEVICE_LIMIT
                        /\ Cardinality(DevicesOf(ctx)') <= Cardinality(Used(ctx)')
        BY DEF RowsAreFinite, MintRate, DeviceLimit, DevicesArePaidFor, Used
    <2>1. /\ IsFiniteSet(DevicesOf(ctx)) /\ IsFiniteSet(LiveDevices(ctx))
          /\ Cardinality(Recent(ctx)) \in Nat /\ Cardinality(LiveDevices(ctx)) \in Nat
          /\ Cardinality(DevicesOf(ctx)) \in Nat /\ Cardinality(Used(ctx)) \in Nat
        BY Finite DEF InstallInv
    <2>2. /\ Cardinality(Recent(ctx)) <= INSTALL_RATE /\ Cardinality(LiveDevices(ctx)) <= DEVICE_LIMIT
          /\ Cardinality(DevicesOf(ctx)) <= Cardinality(Used(ctx))
        BY DEF InstallInv, MintRate, DeviceLimit, DevicesArePaidFor, Used
    <2>3. /\ IsFiniteSet(MintedBy(ctx)') /\ Cardinality(Recent(ctx)') <= Cardinality(Recent(ctx))
          /\ Cardinality(Recent(ctx)') \in Nat /\ Cardinality(Used(ctx)') \in Nat
          /\ Cardinality(Used(ctx)) <= Cardinality(Used(ctx)')
        BY <1>3, TokenBounds DEF InstallInv
    <2>4. Cardinality(Recent(ctx)') <= INSTALL_RATE
        BY <2>1, <2>2, <2>3, InstallAssumption
    <2>5. CASE ctx = new
        <3>1. d \notin DevicesOf(ctx) /\ d \notin LiveDevices(ctx)
            BY <1>9 DEF LiveDevices
        <3>2. /\ IsFiniteSet(DevicesOf(ctx) \cup {d})
              /\ Cardinality(DevicesOf(ctx) \cup {d}) = Cardinality(DevicesOf(ctx)) + 1
              /\ Cardinality(LiveDevices(ctx) \cup {d}) = Cardinality(LiveDevices(ctx)) + 1
            BY <2>1, <3>1, FS_AddElement
        <3>3. Cardinality(Used(ctx)') = Cardinality(Used(ctx)) + 1
            BY <1>4, <2>5, TokenUsed
        <3>4. Cardinality(LiveDevices(ctx)') <= DEVICE_LIMIT
            <4>1. Cardinality(LiveDevices(ctx)) < DEVICE_LIMIT
                BY <1>4, <2>5
            <4>2. Cardinality(LiveDevices(ctx)) + 1 <= DEVICE_LIMIT
                BY <2>1, <4>1, InstallAssumption
            <4>3. LiveDevices(ctx)' = LiveDevices(ctx) \cup {d}
                BY <1>9, <2>5
            <4> QED
                BY <3>2, <4>2, <4>3
        <3>5. Cardinality(DevicesOf(ctx)') <= Cardinality(Used(ctx)')
            BY <1>9, <2>1, <2>2, <2>5, <3>2, <3>3
        <3> QED
            BY <1>9, <2>3, <2>4, <2>5, <3>2, <3>4, <3>5
    <2>6. CASE ctx # new
        BY <1>9, <2>1, <2>2, <2>3, <2>4, <2>6
    <2> QED
        BY <2>5, <2>6
<1>11. OwnersAreEqual'
    BY <1>9 DEF InstallInv, OwnersAreEqual
<1>12. MachinesHoldTheirOwn'
    <2> SUFFICES ASSUME NEW k \in Machine, holds'[k] # NoDevice
                 PROVE  devices'[holds'[k]] # NoRow /\ devices'[holds'[k]].machine = k
        BY DEF MachinesHoldTheirOwn
    <2>1. CASE holds'[k] = d /\ k = m
        <3>1. devices'[d].machine = m
            BY <1>6
        <3>2. devices'[d] # NoRow
            BY <1>6, <1>r, NoRowIsNone
        <3> QED
            BY <2>1, <3>1, <3>2
    <2>2. CASE holds'[k] = holds[k]
        BY <1>5, <1>6, <2>2 DEF InstallInv, MachinesHoldTheirOwn, TypeOK
    <2> QED
        BY <1>5, <2>1, <2>2 DEF TypeOK
<1>13. ASSUME NEW q \in Process \ {p}
       PROVE  CountOK(q)'
    <2>1. op[q].pc = "exchange" => tokens'[op[q].token] = tokens[op[q].token]
        BY <1>2, Redeems DEF TypeOK, Holding
    <2>2. q \in Holding => \A ctx \in Context : ctx.email = op[q].email =>
              Recent(ctx)' \subseteq Recent(ctx) /\ LiveDevices(ctx)' \subseteq LiveDevices(ctx)
        BY <1>2, <1>3, <1>4, <1>9, TokensKept
    <2> QED
        BY <1>1, <1>2, <2>1, <2>2, CountKept DEF InstallInv, CountsAreCurrent
<1> QED
    BY <1>2, <1>7, <1>8, <1>10, <1>11, <1>12, <1>13 DEF InstallInv, CountsAreCurrent

\* What happens to tokens and devices outside of requests takes rows away only
\* from what is counted.
LEMMA LaterPreserves ==
    ASSUME IInv, UNCHANGED accountVars, TypeOK',
           \A t \in Token : TokenKept(t), \A d \in Device : DeviceKept(d),
           \A p \in Process : op[p].pc = "exchange" => tokens'[op[p].token] = tokens[op[p].token],
           \A m \in Machine : holds'[m] \in {holds[m], NoDevice}
    PROVE  IInv'
<1> USE DEF IInv
<1>1. UNCHANGED <<companies, users, op, locked, sessions>>
    BY DEF accountVars
<1>2. AccountsInv'
    BY <1>1, AccountsFrame
<1>3. LocksAreHeld'
    BY <1>1 DEF InstallInv, LocksAreHeld, Holding
<1>4. CountsAreCurrent'
    BY <1>1, CountKept, TokensKept, DevicesKept DEF InstallInv, CountsAreCurrent
<1>5. MachinesHoldTheirOwn'
    <2> SUFFICES ASSUME NEW m \in Machine, holds'[m] # NoDevice
                 PROVE  devices'[holds'[m]] # NoRow /\ devices'[holds'[m]].machine = m
        BY DEF MachinesHoldTheirOwn
    <2>1. holds'[m] = holds[m] /\ holds[m] \in Device
        BY DEF TypeOK
    <2> QED
        BY <2>1, NoRowIsNone DEF InstallInv, MachinesHoldTheirOwn, DeviceKept
<1> QED
    BY <1>2, <1>3, <1>4, <1>5, BoundsKept DEF InstallInv

LEMMA AbortPreserves ==
    ASSUME IInv, NEW m \in Machine, Abort(m)
    PROVE  IInv'
<1> USE DEF IInv
<1>1. holds[m] \in Device /\ devices[holds[m]] \in DeviceRow
    BY RowTypes DEF Abort, Accepted, TypeOK
<1>2. [devices[holds[m]] EXCEPT !.revoked = TRUE] \in DeviceRow
    BY <1>1 DEF DeviceRow
<1>3. TypeOK'
    BY <1>1, <1>2 DEF Abort, TypeOK, AccountsTypeOK, accountVars
<1>4. \A d \in Device : DeviceKept(d)
    BY <1>1, <1>2, NoRowIsNone DEF Abort, TypeOK, DeviceKept, DeviceRow
<1> QED
    BY <1>3, <1>4, LaterPreserves DEF Abort, TokenKept, TypeOK

LEMMA LaterActionsPreserve ==
    ASSUME IInv, \/ \E m \in Machine : LosesCredential(m)
                 \/ \E t \in Token : TokenExpires(t) \/ TokenAges(t)
                 \/ \E d \in Device : DeviceExpires(d)
    PROVE  IInv'
<1> USE DEF IInv
<1>1. ASSUME NEW m \in Machine, LosesCredential(m)
      PROVE  IInv'
    <2>1. TypeOK'
        BY <1>1 DEF LosesCredential, TypeOK, AccountsTypeOK, accountVars
    <2> QED
        BY <1>1, <2>1, LaterPreserves DEF LosesCredential, TokenKept, DeviceKept, TypeOK
<1>2. ASSUME NEW t \in Token, TokenExpires(t)
      PROVE  IInv'
    <2>1. tokens[t] \in TokenRow /\ [tokens[t] EXCEPT !.state = "expired"] \in TokenRow
        BY <1>2, RowTypes DEF TokenExpires, TokenRow
    <2>2. TypeOK'
        BY <1>2, <2>1 DEF TokenExpires, TypeOK, AccountsTypeOK, accountVars
    <2>3. \A u \in Token : TokenKept(u)
        BY <1>2, <2>1, NoRowIsNone DEF TokenExpires, TypeOK, TokenKept, TokenRow
    <2>4. \A p \in Process : op[p].pc = "exchange" => tokens'[op[p].token] = tokens[op[p].token]
        BY <1>2, Redeems DEF TokenExpires, TypeOK
    <2> QED
        BY <1>2, <2>2, <2>3, <2>4, LaterPreserves DEF TokenExpires, DeviceKept
<1>3. ASSUME NEW t \in Token, TokenAges(t)
      PROVE  IInv'
    <2>1. tokens[t] \in TokenRow /\ [tokens[t] EXCEPT !.recent = FALSE] \in TokenRow
        BY <1>3, RowTypes DEF TokenAges, TokenRow
    <2>2. TypeOK'
        BY <1>3, <2>1 DEF TokenAges, TypeOK, AccountsTypeOK, accountVars
    <2>3. \A u \in Token : TokenKept(u)
        BY <1>3, <2>1, NoRowIsNone DEF TokenAges, TypeOK, TokenKept, TokenRow
    <2>4. \A p \in Process : op[p].pc = "exchange" => tokens'[op[p].token] = tokens[op[p].token]
        BY <1>3, Redeems DEF TokenAges, TypeOK
    <2> QED
        BY <1>3, <2>2, <2>3, <2>4, LaterPreserves DEF TokenAges, DeviceKept
<1>4. ASSUME NEW d \in Device, DeviceExpires(d)
      PROVE  IInv'
    <2>1. devices[d] \in DeviceRow /\ [devices[d] EXCEPT !.expired = TRUE] \in DeviceRow
        BY <1>4, RowTypes DEF DeviceExpires, DeviceRow
    <2>2. TypeOK'
        BY <1>4, <2>1 DEF DeviceExpires, TypeOK, AccountsTypeOK, accountVars
    <2>3. \A c \in Device : DeviceKept(c)
        BY <1>4, <2>1, NoRowIsNone DEF DeviceExpires, TypeOK, DeviceKept, DeviceRow
    <2> QED
        BY <1>4, <2>2, <2>3, LaterPreserves DEF DeviceExpires, TokenKept
<1> QED
    BY <1>1, <1>2, <1>3, <1>4

-----------------------------------------------------------------------------
(* The invariant holds. *)

LEMMA InitHolds == Init => IInv
<1> SUFFICES ASSUME Init
             PROVE  IInv
    OBVIOUS
<1>1. PICK L \in SUBSET Legacy :
          /\ companies = {DomainOf[e] : e \in L}
          /\ users = [e \in Email |->
                IF e \in L
                THEN [company |-> DomainOf[e], role |-> "employee",
                      type |-> "engineer", status |-> "pending"]
                ELSE NoUser]
    BY DEF Init, AccountsInit
<1>2. /\ op = [p \in Process |-> Idle] /\ locked = {} /\ sessions = [b \in Browser |-> NoSession]
      /\ tokens = [t \in Token |-> NoRow] /\ devices = [d \in Device |-> NoRow]
      /\ holds = [m \in Machine |-> NoDevice]
    BY DEF Init, AccountsInit
<1>3. \A e \in Email : DomainOf[e] \in Domain /\ DomainOf[e] # Platform /\ L \subseteq Email
    BY AccountsAssumption
<1>4. users \in [Email -> User \cup {NoUser}] /\ companies \subseteq Domain
    BY <1>1, <1>3, AccountsAssumption DEF User, Company, Roles, Types, Status
<1>5. TypeOK
    BY <1>2, <1>4 DEF TypeOK, AccountsTypeOK
<1>6. \A e \in Email : Exists(e) => /\ users[e].role = "employee" /\ users[e].type = "engineer"
                                   /\ users[e].company = DomainOf[e]
    BY <1>1 DEF Exists
<1>7. AccountsInv
    BY <1>2, <1>3, <1>6 DEF AccountsInv, FoundersAreEqual, FoundingIsExclusive, FoundersHaveCompanies,
       PlatformIsApart, AdminsAreAtHome, SessionsAreApproved, Founders, Idle
<1>8. \A ctx \in Context : MintedBy(ctx) = {} /\ DevicesOf(ctx) = {}
    BY <1>2 DEF MintedBy, DevicesOf, NoRow, NoUser, Context
<1>9. \A ctx \in Context : /\ Recent(ctx) = {} /\ LiveDevices(ctx) = {} /\ Used(ctx) = {}
                           /\ \A m \in Machine : Owner(ctx, m) = {}
    BY <1>8 DEF Recent, LiveDevices, Used, Owner
<1>10. RowsAreFinite /\ MintRate /\ DeviceLimit /\ DevicesArePaidFor /\ OwnersAreEqual
    BY <1>8, <1>9, FS_EmptySet, InstallAssumption
    DEF RowsAreFinite, MintRate, DeviceLimit, DevicesArePaidFor, Used, OwnersAreEqual
<1>11. LocksAreHeld /\ CountsAreCurrent /\ MachinesHoldTheirOwn
    BY <1>2 DEF LocksAreHeld, CountsAreCurrent, CountOK, MachinesHoldTheirOwn, Holding, Idle
<1> QED
    BY <1>5, <1>7, <1>10, <1>11 DEF IInv, InstallInv

LEMMA CommitsPreserve ==
    ASSUME IInv, NEW p \in Process,
           MintCommits(p) \/ \E arrives \in BOOLEAN : ExchangeCommits(p, arrives)
    PROVE  IInv'
<1>1. ASSUME MintCommits(p), op[p].full, UNCHANGED tokens
      PROVE  IInv'
    <2>1. RollsBack(p)
        BY <1>1 DEF MintCommits, RollsBack, installVars
    <2> QED
        BY <2>1, RollsBackPreserves
<1>2. ASSUME NEW t \in Token, MintCommits(p), ~op[p].full, tokens[t] = NoRow,
             tokens' = [tokens EXCEPT ![t] =
                [ctx |-> Ctx(op[p].email), state |-> "open", recent |-> TRUE]]
      PROVE  IInv'
    <2>1. op[p].pc = "mint" /\ Unlock(p) /\ UNCHANGED <<devices, holds>>
        BY <1>2 DEF MintCommits
    <2> QED
        BY <1>2, <2>1, MintCommitsPreserves
<1>3. ASSUME NEW arrives \in BOOLEAN, ExchangeCommits(p, arrives)
      PROVE  IInv'
    BY <1>3, KeepsDevicePreserves, NewDevicePreserves DEF ExchangeCommits
<1> QED
    BY <1>1, <1>2, <1>3 DEF MintCommits

LEMMA Step == IInv /\ [Next]_vars => IInv'
<1> SUFFICES ASSUME IInv, [Next]_vars
             PROVE  IInv'
    OBVIOUS
<1>1. CASE UNCHANGED vars
    <2>1. UNCHANGED <<companies, users, op, locked, sessions, tokens, devices, holds>>
        BY <1>1 DEF vars, accountVars, installVars
    <2>2. TypeOK'
        BY <2>1 DEF IInv, TypeOK, AccountsTypeOK
    <2> QED
        BY <2>1, <2>2, LaterPreserves DEF accountVars, TokenKept, DeviceKept
<1>2. CASE AccountsNext /\ UNCHANGED installVars
    BY <1>2, AccountsPreserve
<1>3. ASSUME NEW p \in Process, MintCommits(p) \/ \E arrives \in BOOLEAN : ExchangeCommits(p, arrives)
      PROVE  IInv'
    BY <1>3, CommitsPreserve
<1>4. ASSUME NEW p \in Process, RollsBack(p)
      PROVE  IInv'
    BY <1>4, RollsBackPreserves
<1>5. ASSUME NEW p \in Process, NEW b \in Browser, Mint(p, b)
      PROVE  IInv'
    BY <1>5, MintPreserves
<1>6. ASSUME NEW p \in Process, NEW t \in Token, NEW m \in Machine, Exchange(p, t, m)
      PROVE  IInv'
    BY <1>6, ExchangePreserves
<1>7. ASSUME NEW m \in Machine, Abort(m)
      PROVE  IInv'
    BY <1>7, AbortPreserves
<1>8. ASSUME \/ \E m \in Machine : LosesCredential(m)
             \/ \E t \in Token : TokenExpires(t) \/ TokenAges(t)
             \/ \E d \in Device : DeviceExpires(d)
      PROVE  IInv'
    BY <1>8, LaterActionsPreserve
<1> QED
    BY <1>1, <1>2, <1>3, <1>4, <1>5, <1>6, <1>7, <1>8 DEF Next

\* The accounts, tokens and devices are always as the invariant says.
THEOREM Safety == Spec => []IInv
BY InitHolds, Step, PTL DEF Spec

\* A set whose elements are all equal has one at most.
LEMMA AtMostOne ==
    ASSUME NEW S, \A x, y \in S : x = y
    PROVE  Cardinality(S) <= 1
<1>1. CASE S = {}
    BY <1>1, FS_EmptySet
<1>2. ASSUME NEW x \in S
      PROVE  Cardinality(S) <= 1
    <2>1. S = {x}
        OBVIOUS
    <2> QED
        BY <2>1, FS_Singleton
<1> QED
    BY <1>1, <1>2

\* A company has one founder at most, however registrations race, fail half way
\* or never come back, and platform and companies do not meet
\* (registerCompanyWithAdmin, restoreAdminAccess).
THEOREM Accounts == Spec => []AccountsAgree
<1>1. IInv => AccountsAgree
    <2> SUFFICES ASSUME IInv
                 PROVE  AccountsAgree
        OBVIOUS
    <2>1. OneFounder
        BY AtMostOne DEF OneFounder, IInv, AccountsInv, FoundersAreEqual
    <2> QED
        BY <2>1 DEF AccountsAgree, IInv, AccountsInv
<1> QED
    BY Safety, <1>1, PTL

\* Rates and limits hold however requests count at once and answers are lost,
\* each device is paid for by a token, and a machine is one device of an
\* account (mintNodeInstallation, exchangeNodeInstallation).
THEOREM Installations == Spec => []InstallationsAgree
<1>1. IInv => InstallationsAgree
    <2> SUFFICES ASSUME IInv
                 PROVE  InstallationsAgree
        OBVIOUS
    <2>1. OneDevicePerMachine
        BY AtMostOne DEF OneDevicePerMachine, IInv, InstallInv, OwnersAreEqual, Owner
    <2> QED
        BY <2>1 DEF InstallationsAgree, IInv, InstallInv
<1> QED
    BY Safety, <1>1, PTL

-----------------------------------------------------------------------------
(* What no step takes back. *)

\* Only the steps of accounts write accounts.
LEMMA InstallStep ==
    ASSUME IInv, [Next]_vars, ~(AccountsNext /\ UNCHANGED installVars)
    PROVE  /\ UNCHANGED <<companies, users, sessions>>
           /\ \A p \in Process : op'[p].pc = "insert_admin" => op'[p] = op[p]
<1>t. op \in [Process -> {Idle} \cup Registering \cup Minting \cup Exchanging]
    BY DEF IInv, TypeOK
<1>1. ASSUME NEW p \in Process, Unlock(p)
      PROVE  /\ UNCHANGED <<companies, users, sessions>>
             /\ \A q \in Process : op'[q].pc = "insert_admin" => op'[q] = op[q]
    BY <1>t, <1>1 DEF Unlock, Idle
<1>2. ASSUME NEW p \in Process, NEW b \in Browser, Mint(p, b)
      PROVE  /\ UNCHANGED <<companies, users, sessions>>
             /\ \A q \in Process : op'[q].pc = "insert_admin" => op'[q] = op[q]
    BY <1>t, <1>2 DEF Mint
<1>3. ASSUME NEW p \in Process, NEW t \in Token, NEW m \in Machine, Exchange(p, t, m)
      PROVE  /\ UNCHANGED <<companies, users, sessions>>
             /\ \A q \in Process : op'[q].pc = "insert_admin" => op'[q] = op[q]
    BY <1>t, <1>3 DEF Exchange
<1>4. ASSUME UNCHANGED accountVars
      PROVE  /\ UNCHANGED <<companies, users, sessions>>
             /\ \A q \in Process : op'[q].pc = "insert_admin" => op'[q] = op[q]
    BY <1>4 DEF accountVars
<1> QED
    BY <1>1, <1>2, <1>3, <1>4
    DEF Next, vars, MintCommits, ExchangeCommits, RollsBack, Abort, LosesCredential,
        TokenExpires, TokenAges, DeviceExpires

\* What was approved stays approved: only a row that is pending is rejected.
LEMMA ApprovedStays ==
    ASSUME IInv, [Next]_vars, NEW e \in Email, users[e].status = "approved"
    PROVE  users'[e].status = "approved"
<1>1. Exists(e) /\ users[e] \in User
    BY DEF IInv, TypeOK, AccountsTypeOK, Exists, NoUser
<1>2. CASE AccountsNext /\ UNCHANGED installVars
    <2>1. users'[e] = users[e] \/ Restored(e) \/ Decided(e)
        BY <1>1, <1>2, AccountRows DEF IInv, Written, Founded, SignedUp
    <2>2. CASE Decided(e)
        <3>1. users'[e] = [users[e] EXCEPT !.status = "approved"]
            BY <2>2 DEF Decided
        <3> QED
            BY <1>1, <3>1 DEF User
    <2> QED
        BY <2>1, <2>2 DEF Restored
<1> QED
    BY <1>2, InstallStep

\* A company without administrator gets one only with the setup key.
LEMMA AdminComesBySetup ==
    ASSUME IInv, [Next]_vars, NEW d \in Domain, Adminless(d), ~Adminless(d)'
    PROVE  \E e \in Email : (Exists(e) /\ users[e].company = d /\ users[e].type = "admin")'
<1>t. users \in [Email -> User \cup {NoUser}]
    BY DEF IInv, TypeOK, AccountsTypeOK
<1>1. AccountsNext /\ TypeOK
    BY InstallStep DEF Adminless, IInv, Exists
<1>2. d \in companies'
    BY <1>1, AccountRequests DEF Adminless
<1>3. ASSUME NEW p \in Process, op'[p].pc = "insert_admin", DomainOf[op'[p].email] = d
      PROVE  FALSE
    <2>1. CASE op'[p] = op[p]
        BY <1>3, <2>1 DEF Adminless
    <2>2. CASE Entered(p)
        <3>1. op'[p].email = op[p].email
            BY <1>1, <2>2 DEF TypeOK, Entered, Idle, Registering, Minting, Exchanging
        <3> QED
            BY <1>3, <2>2, <3>1 DEF Entered, Adminless
    <2> QED
        BY <1>1, <1>3, <2>1, <2>2, AccountRequests
<1>4. PICK e \in Email : users'[e] # NoUser /\ users'[e].company = d /\ users'[e].role = "admin"
    BY <1>2, <1>3 DEF Adminless, Exists
<1>5. users'[e] # users[e]
    BY <1>4 DEF Adminless, Exists
<1>6. CASE Restored(e)
    BY <1>4, <1>6 DEF Restored, Exists
<1>7. CASE Founded(e)
    BY <1>4, <1>7 DEF Founded, Adminless
<1>8. CASE SignedUp(e)
    BY <1>4, <1>8 DEF SignedUp
<1>9. CASE Decided(e)
    <2>1. users[e] \in User /\ Exists(e)
        BY <1>t, <1>9 DEF Decided, Exists
    <2> QED
        BY <1>4, <1>9, <2>1 DEF Decided, Adminless, User
<1> QED
    BY <1>1, <1>5, <1>6, <1>7, <1>8, <1>9, AccountRows DEF Written

\* A machine stays locked out when its owner, what is exchanged and what it
\* holds change in no way that matters to it.
LEMMA LockedOutStays ==
    ASSUME NEW ctx \in Context, NEW m \in Machine, LockedOut(ctx, m),
           UnderWay(ctx, m)' => UnderWay(ctx, m),
           Owner(ctx, m)' = Owner(ctx, m),
           Owner(ctx, m) \cap LiveDevices(ctx)' \subseteq LiveDevices(ctx),
           holds'[m] = holds[m] \/ holds'[m] \notin Owner(ctx, m)
    PROVE  LockedOut(ctx, m)'
<1>1. Owner(ctx, m)' # {} /\ ~UnderWay(ctx, m)'
    BY DEF LockedOut, Stranded
<1>2. holds'[m] \notin Owner(ctx, m)' \cap LiveDevices(ctx)'
    BY DEF LockedOut, Stranded
<1> QED
    BY <1>1, <1>2 DEF LockedOut, Stranded

\* An exchange of others does not bring the machine back: not of its account,
\* for then it would show what it owns; not of another, whose devices are not
\* those it owns here.
LEMMA ExchangesStrand ==
    ASSUME IInv, NEW ctx \in Context, NEW m \in Machine, LockedOut(ctx, m), NEW p \in Process,
           NEW arrives \in BOOLEAN, ExchangeCommits(p, arrives)
    PROVE  LockedOut(ctx, m)'
<1> USE DEF IInv
<1>1. /\ op[p].pc = "exchange" /\ op[p].machine \in Machine
      /\ tokens' = [tokens EXCEPT ![op[p].token].state = "used"]
      /\ tokens[op[p].token].ctx # ctx \/ op[p].machine # m
    BY Redeems DEF ExchangeCommits, LockedOut, UnderWay
<1>2. \A t \in Token : TokenKept(t)
    BY <1>1, TokenUsed
<1>3. op'[p] = Idle /\ \A q \in Process \ {p} : op'[q] = op[q]
    BY DEF ExchangeCommits, Unlock, TypeOK
<1>4. UnderWay(ctx, m)' => UnderWay(ctx, m)
    <2> SUFFICES ASSUME NEW q \in Process, op'[q].pc = "exchange", op'[q].machine = m,
                        tokens'[op'[q].token].ctx = ctx
                 PROVE  UnderWay(ctx, m)
        BY DEF UnderWay
    <2>1. op'[q] = op[q]
        BY <1>3 DEF Idle
    <2>2. tokens'[op[q].token].ctx = tokens[op[q].token].ctx
        BY <1>2, <2>1, Redeems DEF TokenKept
    <2> QED
        BY <2>1, <2>2 DEF UnderWay
<1>5. CASE KeepsDevice(p, arrives)
    <2>1. PICK d \in Owner(tokens[op[p].token].ctx, op[p].machine) :
              Answered(p, d, arrives) /\ devices' = devices
        BY <1>5 DEF KeepsDevice
    <2>2. Owner(ctx, m)' = Owner(ctx, m) /\ LiveDevices(ctx)' = LiveDevices(ctx)
        BY <2>1 DEF Owner, LiveDevices, DevicesOf
    <2>3. d \notin Owner(ctx, m)
        BY <1>1 DEF Owner, DevicesOf
    <2>4. holds'[m] = holds[m] \/ holds'[m] = d
        BY <1>1, <2>1 DEF Answered, TypeOK
    <2> QED
        BY <1>4, <2>2, <2>3, <2>4, LockedOutStays
<1>6. CASE NewDevice(p, arrives)
    <2>1. PICK d \in Device :
              /\ devices[d] = NoRow /\ Answered(p, d, arrives)
              /\ devices' = [devices EXCEPT ![d] =
                    [ctx |-> tokens[op[p].token].ctx, machine |-> op[p].machine,
                     revoked |-> FALSE, expired |-> FALSE]]
        BY <1>6 DEF NewDevice
    <2>2. d \notin DevicesOf(ctx)
        BY <2>1 DEF DevicesOf, NoRow, NoUser, Context
    <2>3. /\ devices'[d].ctx = tokens[op[p].token].ctx /\ devices'[d].machine = op[p].machine
          /\ \A c \in Device \ {d} : devices'[c] = devices[c]
        BY <2>1 DEF TypeOK
    <2>4. Owner(ctx, m)' = Owner(ctx, m)
        BY <1>1, <2>2, <2>3 DEF Owner, DevicesOf
    <2>5. Owner(ctx, m) \cap LiveDevices(ctx)' \subseteq LiveDevices(ctx)
        BY <2>2, <2>3 DEF Owner, LiveDevices, DevicesOf
    <2>6. holds'[m] = holds[m] \/ holds'[m] = d
        BY <1>1, <2>1 DEF Answered, TypeOK
    <2>7. d \notin Owner(ctx, m)
        BY <2>2 DEF Owner
    <2> QED
        BY <1>4, <2>4, <2>5, <2>6, <2>7, LockedOutStays
<1> QED
    BY <1>5, <1>6 DEF ExchangeCommits

\* Nobody gives up a device for the machine but itself, with its credential.
LEMMA AbortsStrand ==
    ASSUME IInv, NEW ctx \in Context, NEW m \in Machine, LockedOut(ctx, m), NEW k \in Machine, Abort(k)
    PROVE  LockedOut(ctx, m)'
<1> USE DEF IInv
<1> DEFINE d == holds[k]
<1>1. d \in Device /\ devices[d] \in DeviceRow /\ devices[d].machine = k /\ d \in LiveDevices(devices[d].ctx)
    BY RowTypes DEF Abort, Accepted, TypeOK, InstallInv, MachinesHoldTheirOwn
<1>2. d \notin Owner(ctx, m)
    BY <1>1 DEF Owner, DevicesOf, LockedOut, Stranded, LiveDevices
<1>3. /\ devices'[d].ctx = devices[d].ctx /\ devices'[d].machine = devices[d].machine
      /\ devices'[d].revoked /\ \A c \in Device \ {d} : devices'[c] = devices[c]
    BY <1>1 DEF Abort, TypeOK, DeviceRow
<1>4. Owner(ctx, m)' = Owner(ctx, m)
    BY <1>2, <1>3 DEF Owner, DevicesOf
<1>5. Owner(ctx, m) \cap LiveDevices(ctx)' \subseteq LiveDevices(ctx)
    BY <1>2, <1>3 DEF Owner, LiveDevices, DevicesOf
<1>6. holds'[m] = holds[m] \/ holds'[m] \notin Owner(ctx, m)
    BY InstallAssumption DEF Abort, TypeOK, Owner, DevicesOf
<1>7. UnderWay(ctx, m)' => UnderWay(ctx, m)
    BY DEF Abort, UnderWay, accountVars
<1> QED
    BY <1>4, <1>5, <1>6, <1>7, LockedOutStays

LEMMA StrandedStays ==
    ASSUME IInv, [Next]_vars, NEW ctx \in Context, NEW m \in Machine, LockedOut(ctx, m)
    PROVE  LockedOut(ctx, m)'
<1>t. op \in [Process -> {Idle} \cup Registering \cup Minting \cup Exchanging]
    BY DEF IInv, TypeOK
<1>1. ASSUME UNCHANGED <<devices, holds>>, UnderWay(ctx, m)' => UnderWay(ctx, m)
      PROVE  LockedOut(ctx, m)'
    BY <1>1, LockedOutStays DEF Owner, LiveDevices, DevicesOf
<1>2. CASE UNCHANGED vars
    BY <1>1, <1>2 DEF vars, accountVars, installVars, UnderWay
<1>3. CASE AccountsNext /\ UNCHANGED installVars
    <2>1. ASSUME NEW p \in Process, op'[p].pc = "exchange"
          PROVE  op'[p] = op[p]
        <3>1. ~Entered(p)
            BY <1>t, <2>1 DEF Entered, Idle, Registering, Minting, Exchanging
        <3> QED
            BY <1>3, <2>1, <3>1, AccountRequests DEF IInv
    <2>2. UnderWay(ctx, m)' => UnderWay(ctx, m)
        BY <1>3, <2>1 DEF UnderWay, installVars
    <2> QED
        BY <1>1, <1>3, <2>2 DEF installVars
<1>4. ASSUME NEW p \in Process, MintCommits(p)
      PROVE  LockedOut(ctx, m)'
    <2>1. \A q \in Process : op'[q].pc = "exchange" => op'[q] = op[q]
        BY <1>t, <1>4 DEF MintCommits, Unlock, Idle
    <2>2. \A q \in Process : op[q].pc = "exchange" => tokens'[op[q].token] = tokens[op[q].token]
        BY <1>4, Redeems, NoRowIsNone DEF MintCommits, IInv, TypeOK
    <2> QED
        BY <1>1, <1>4, <2>1, <2>2 DEF MintCommits, UnderWay
<1>5. ASSUME NEW p \in Process, RollsBack(p)
      PROVE  LockedOut(ctx, m)'
    <2>1. \A q \in Process : op'[q].pc = "exchange" => op'[q] = op[q]
        BY <1>t, <1>5 DEF RollsBack, Unlock, Idle
    <2> QED
        BY <1>1, <1>5, <2>1 DEF RollsBack, UnderWay, installVars
<1>6. ASSUME NEW p \in Process, NEW b \in Browser, Mint(p, b)
      PROVE  LockedOut(ctx, m)'
    <2>1. \A q \in Process : op'[q].pc = "exchange" => op'[q] = op[q]
        BY <1>t, <1>6 DEF Mint
    <2> QED
        BY <1>1, <1>6, <2>1 DEF Mint, UnderWay, installVars
<1>7. ASSUME NEW p \in Process, NEW t \in Token, NEW k \in Machine, Exchange(p, t, k)
      PROVE  LockedOut(ctx, m)'
    <2>1. \A q \in Process \ {p} : op'[q] = op[q]
        BY <1>t, <1>7 DEF Exchange
    <2>2. op'[p].machine = k /\ op'[p].token = t
        BY <1>t, <1>7 DEF Exchange
    <2>3. tokens[t].ctx # ctx \/ k # m
        BY <1>7 DEF Exchange, Shows, LockedOut, Stranded
    <2> QED
        BY <1>1, <1>7, <2>1, <2>2, <2>3 DEF Exchange, UnderWay, installVars
<1>8. ASSUME NEW p \in Process, NEW arrives \in BOOLEAN, ExchangeCommits(p, arrives)
      PROVE  LockedOut(ctx, m)'
    BY <1>8, ExchangesStrand
<1>9. ASSUME NEW k \in Machine, Abort(k)
      PROVE  LockedOut(ctx, m)'
    BY <1>9, AbortsStrand
<1>10. ASSUME NEW k \in Machine, LosesCredential(k)
       PROVE  LockedOut(ctx, m)'
    <2>1. holds'[m] = holds[m] \/ holds'[m] \notin Owner(ctx, m)
        BY <1>10, InstallAssumption DEF LosesCredential, IInv, TypeOK, Owner, DevicesOf
    <2> QED
        BY <1>10, <2>1, LockedOutStays DEF LosesCredential, accountVars, UnderWay,
           Owner, LiveDevices, DevicesOf
<1>11. ASSUME NEW t \in Token, TokenExpires(t) \/ TokenAges(t)
       PROVE  LockedOut(ctx, m)'
    <2>1. \A q \in Process : op[q].pc = "exchange" => tokens'[op[q].token] = tokens[op[q].token]
        BY <1>11, Redeems DEF TokenExpires, TokenAges, IInv, TypeOK
    <2> QED
        BY <1>1, <1>11, <2>1 DEF TokenExpires, TokenAges, accountVars, UnderWay
<1>12. ASSUME NEW d \in Device, DeviceExpires(d)
       PROVE  LockedOut(ctx, m)'
    <2>1. devices[d] \in DeviceRow
        BY <1>12, RowTypes DEF DeviceExpires, IInv
    <2>2. /\ devices'[d].ctx = devices[d].ctx /\ devices'[d].machine = devices[d].machine
          /\ devices'[d].revoked = devices[d].revoked /\ devices'[d].expired
          /\ \A c \in Device \ {d} : devices'[c] = devices[c]
        BY <1>12, <2>1 DEF DeviceExpires, IInv, TypeOK, DeviceRow
    <2>3. Owner(ctx, m)' = Owner(ctx, m)
        BY <2>2 DEF Owner, DevicesOf
    <2>4. Owner(ctx, m) \cap LiveDevices(ctx)' \subseteq LiveDevices(ctx)
        BY <2>2 DEF Owner, LiveDevices, DevicesOf
    <2> QED
        BY <1>12, <2>3, <2>4, LockedOutStays DEF DeviceExpires, accountVars, UnderWay
<1> QED
    BY <1>2, <1>3, <1>4, <1>5, <1>6, <1>7, <1>8, <1>9, <1>10, <1>11, <1>12 DEF Next

\* No later request of anybody takes back an approval, the loss of a company
\* whose registration failed half way, or that of a machine's place in an account.
THEOREM TakenBack == Spec => NothingIsTakenBack
<1> DEFINE Approved == \A e \in Email : users[e].status = "approved" => users'[e].status = "approved"
           Setup == \A d \in Domain : Adminless(d) /\ ~Adminless(d)' =>
                       \E e \in Email : (Exists(e) /\ users[e].company = d /\ users[e].type = "admin")'
           Strands == \A ctx \in Context, m \in Machine : LockedOut(ctx, m) => LockedOut(ctx, m)'
<1>1. IInv /\ [Next]_vars => Approved
    BY ApprovedStays
<1>2. IInv /\ [Next]_vars => Setup
    BY AdminComesBySetup
<1>3. IInv /\ [Next]_vars => Strands
    BY StrandedStays
<1>4. Spec => ApprovedForGood
    BY Safety, <1>1, PTL DEF Spec, ApprovedForGood
<1>5. Spec => AdminlessUntilSetup
    BY Safety, <1>2, PTL DEF Spec, AdminlessUntilSetup
<1>6. Spec => StrandedForGood
    BY Safety, <1>3, PTL DEF Spec, StrandedForGood
<1> QED
    BY <1>4, <1>5, <1>6 DEF NothingIsTakenBack

\* A session that its account no longer matches never works again
\* (currentSession, restoreAdminAccess).
THEOREM DeadSessions == Spec => DeadSessionsStayDead
<1> DEFINE A == \A b \in Browser : sessions[b] # NoSession /\ ~Current(b) /\ sessions'[b] = sessions[b]
                   => ~Current(b)'
<1>1. IInv /\ [Next]_vars => A
    <2> SUFFICES ASSUME IInv, [Next]_vars, NEW b \in Browser,
                        sessions[b] # NoSession, ~Current(b), sessions'[b] = sessions[b]
                 PROVE  ~Current(b)'
        OBVIOUS
    <2> DEFINE e == sessions[b].email
    <2>1. e \in Email /\ users[e].status = "approved" /\ ~Matches(b)
          /\ users[e].type = "admin" /\ sessions[b].type # "admin"
        BY DEF IInv, TypeOK, AccountsTypeOK, AccountsInv, SessionsAreApproved, Claims, Current, Matches
    <2>2. Exists(e) /\ users[e] \in User
        BY <2>1 DEF IInv, TypeOK, AccountsTypeOK, Exists, NoUser
    <2>3. users'[e].type = "admin"
        <3>1. CASE users'[e] = users[e] \/ Restored(e)
            BY <2>1, <3>1 DEF Restored
        <3>2. CASE Decided(e)
            BY <2>1, <2>2, <3>2 DEF Decided, User
        <3> QED
            BY <2>1, <2>2, <3>1, <3>2, AccountRows, InstallStep DEF IInv, Written, Founded, SignedUp
    <2> QED
        BY <2>1, <2>3 DEF Current
<1> QED
    BY Safety, <1>1, PTL DEF Spec, DeadSessionsStayDead

=============================================================================
