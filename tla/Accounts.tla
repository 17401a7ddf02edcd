------------------------------ MODULE Accounts ------------------------------
(***************************************************************************)
(* Accounts, their approval and their sessions: the account functions of   *)
(* lib/db.ts, reviewAccount of lib/projects.ts and lib/auth.ts.            *)
(*                                                                         *)
(* The registration of a company is three statements without a             *)
(* transaction; everything else here is decided by one statement and is    *)
(* one action.  Whoever logs in knows the password.                        *)
(***************************************************************************)
EXTENDS Naturals, FiniteSets

CONSTANTS
    Email,              \* an account is its email: app_users.email is unique
    Domain,             \* domains that may register as a company
    DomainOf,           \* the domain of each email
    Process,            \* requests under way at the server
    Browser,            \* cookie jars
    Legacy,             \* who may be an employee since the portal's first version
    SignupTypes         \* the account types people sign up as

Platform == "platform.local"    \* the company of everybody who signs up

ASSUME AccountsAssumption ==
    /\ DomainOf \in [Email -> Domain]
    /\ Platform \notin Domain
    /\ Legacy \subseteq Email
    /\ SignupTypes \subseteq {"client", "engineer"}

VARIABLES
    companies,          \* domains in the table companies
    users,              \* app_users
    op,                 \* what each request has got to
    locked,             \* rows of app_users locked by a transaction under way
    sessions            \* the token in each jar: the account as it was at login

accountVars == <<companies, users, op, locked, sessions>>

Company == Domain \cup {Platform}
Roles == {"admin", "employee"}
Types == {"admin", "client", "engineer"}
Status == {"pending", "approved", "rejected"}

User == [company : Company, role : Roles, type : Types, status : Status]
NoUser == [status |-> "none"]
Claims == [email : Email, company : Company, type : Types]
NoSession == [email |-> "none"]

\* The steps of registerCompanyWithAdmin, and the transactions of NodeInstall.
Idle == [pc |-> "idle"]
Registering == [pc : {"insert_company", "insert_admin"}, email : Email]

AccountsInit ==
    /\ \E L \in SUBSET Legacy :
          /\ companies = {DomainOf[e] : e \in L}
          /\ users = [e \in Email |->
                IF e \in L
                THEN [company |-> DomainOf[e], role |-> "employee",
                      type |-> "engineer", status |-> "pending"]
                ELSE NoUser]
    /\ op = [p \in Process |-> Idle]
    /\ locked = {}
    /\ sessions = [b \in Browser |-> NoSession]

Exists(e) == users[e] # NoUser

\* An update of a row waits for whoever locked it.
SetUser(e, user) ==
    /\ e \notin locked
    /\ users' = [users EXCEPT ![e] = user]

-----------------------------------------------------------------------------
(* registerCompanyWithAdmin *)

Register(p, e) ==
    /\ op[p] = Idle
    /\ DomainOf[e] \notin companies
    /\ op' = [op EXCEPT ![p] = [pc |-> "insert_company", email |-> e]]
    /\ UNCHANGED <<companies, users, locked, sessions>>

\* The domain is unique: the second of two that register at once gets an error.
\* Mutant: the insert takes a row that is there.
UpsertCompany(p) ==
    /\ op[p].pc = "insert_company"
    /\ companies' = companies \cup {DomainOf[op[p].email]}
    /\ op' = [op EXCEPT ![p].pc = "insert_admin"]
    /\ UNCHANGED <<users, locked, sessions>>

InsertCompany(p) ==
    /\ op[p].pc = "insert_company"
    /\ LET d == DomainOf[op[p].email] IN
          \/ /\ d \notin companies
             /\ companies' = companies \cup {d}
             /\ op' = [op EXCEPT ![p].pc = "insert_admin"]
          \/ /\ d \in companies
             /\ op' = [op EXCEPT ![p] = Idle]
             /\ UNCHANGED companies
    /\ UNCHANGED <<users, locked, sessions>>

\* The email is unique: an account that signed up before makes this an error.
InsertAdmin(p) ==
    /\ op[p].pc = "insert_admin"
    /\ LET e == op[p].email IN
          IF Exists(e) THEN UNCHANGED users
          ELSE SetUser(e, [company |-> DomainOf[e], role |-> "admin",
                           type |-> "client", status |-> "approved"])
    /\ op' = [op EXCEPT ![p] = Idle]
    /\ UNCHANGED <<companies, locked, sessions>>

\* The server or the database dies between two statements.
RegistrationDies(p) ==
    /\ op[p].pc \in {"insert_company", "insert_admin"}
    /\ op' = [op EXCEPT ![p] = Idle]
    /\ UNCHANGED <<companies, users, locked, sessions>>

-----------------------------------------------------------------------------
(* Sign-up and approval.  Mutant: an account that exists is signed up again. *)

SignupUpsert(e, type) ==
    /\ SetUser(e, [company |-> Platform, role |-> "employee", type |-> type, status |-> "pending"])
    /\ UNCHANGED <<companies, op, locked, sessions>>

SignupAccount(e, type) ==
    /\ ~Exists(e)
    /\ SetUser(e, [company |-> Platform, role |-> "employee", type |-> type, status |-> "pending"])
    /\ UNCHANGED <<companies, op, locked, sessions>>

\* currentSession: the claims of the token must still be those of the account.
\* The role is not among the claims; callers use that of the account.
Current(b) ==
    /\ sessions[b] # NoSession
    /\ LET c == sessions[b] IN
          /\ users[c.email].status = "approved"
          /\ users[c.email].company = c.company
          /\ users[c.email].type = c.type
SessionUser(b) == users[sessions[b].email]

\* reviewAccount, for a platform administrator.  Mutant: a decision
\* may be reviewed again.
ReviewAny(b, e, decision) ==
    /\ Current(b) /\ SessionUser(b).role = "admin" /\ SessionUser(b).type = "admin"
    /\ Exists(e) /\ users[e].type \in {"client", "engineer"}
    /\ SetUser(e, [users[e] EXCEPT !.status = decision])
    /\ UNCHANGED <<companies, op, locked, sessions>>

ReviewAccount(b, e, decision) ==
    /\ Current(b) /\ SessionUser(b).role = "admin" /\ SessionUser(b).type = "admin"
    /\ Exists(e) /\ users[e].type \in {"client", "engineer"}
    /\ users[e].status = "pending"
    /\ SetUser(e, [users[e] EXCEPT !.status = decision])
    /\ UNCHANGED <<companies, op, locked, sessions>>

\* approveEmployee, for the administrator of the employee's company: also after
\* a rejection.
ApproveEmployee(b, e) ==
    /\ Current(b) /\ SessionUser(b).role = "admin"
    /\ Exists(e) /\ users[e].role = "employee"
    /\ users[e].company = SessionUser(b).company
    /\ SetUser(e, [users[e] EXCEPT !.status = "approved"])
    /\ UNCHANGED <<companies, op, locked, sessions>>

-----------------------------------------------------------------------------
(* With the setup key. *)

RestoreAdminAccess(e) ==
    /\ DomainOf[e] \in companies
    /\ SetUser(e, [company |-> DomainOf[e], role |-> "admin", type |-> "admin", status |-> "approved"])
    /\ UNCHANGED <<companies, op, locked, sessions>>

ResetExistingUserPassword(e) ==
    /\ Exists(e) /\ users[e].role = "employee"
    /\ SetUser(e, [users[e] EXCEPT !.status = "approved"])
    /\ UNCHANGED <<companies, op, locked, sessions>>

-----------------------------------------------------------------------------
(* Sessions *)

LoginUser(b, e) ==
    /\ Exists(e) /\ users[e].status = "approved"
    /\ sessions' = [sessions EXCEPT ![b] =
          [email |-> e, company |-> users[e].company, type |-> users[e].type]]
    /\ UNCHANGED <<companies, users, op, locked>>

\* Log-out, or twelve hours.
SessionEnds(b) ==
    /\ sessions[b] # NoSession
    /\ sessions' = [sessions EXCEPT ![b] = NoSession]
    /\ UNCHANGED <<companies, users, op, locked>>

AccountsNext ==
    \/ \E p \in Process :
        \/ InsertCompany(p) \/ InsertAdmin(p) \/ RegistrationDies(p)
        \/ \E e \in Email : Register(p, e)
    \/ \E e \in Email :
        \/ RestoreAdminAccess(e) \/ ResetExistingUserPassword(e)
        \/ \E type \in SignupTypes : SignupAccount(e, type)
    \/ \E b \in Browser :
        \/ SessionEnds(b)
        \/ \E e \in Email :
              \/ LoginUser(b, e) \/ ApproveEmployee(b, e)
              \/ \E decision \in {"approved", "rejected"} : ReviewAccount(b, e, decision)

-----------------------------------------------------------------------------
(* Properties *)

AccountsTypeOK ==
    /\ companies \subseteq Domain
    /\ users \in [Email -> User \cup {NoUser}]
    /\ locked \subseteq Email
    /\ sessions \in [Browser -> Claims \cup {NoSession}]

\* What was approved stays approved: nothing in the code takes an approval back,
\* so whatever is checked at one moment of an account's approval holds later.
ApprovedForGood ==
    [][\A e \in Email : users[e].status = "approved" => users'[e].status = "approved"]_accountVars

\* A company has one founder at most, over registrations that race and fail.
Founders(d) == {e \in Email : Exists(e) /\ users[e].company = d /\ users[e].role = "admin"
                                        /\ users[e].type = "client"}
OneFounder == \A d \in Domain : Cardinality(Founders(d)) <= 1

\* A registration that fails half way leaves a company without administrator,
\* and none registers it again: only the setup key ever gives it one.
Adminless(d) ==
    /\ d \in companies
    /\ \A p \in Process : op[p].pc = "insert_admin" => DomainOf[op[p].email] # d
    /\ \A e \in Email : Exists(e) /\ users[e].company = d => users[e].role # "admin"
AdminlessUntilSetup ==
    [][\A d \in Domain : Adminless(d) /\ ~Adminless(d)' =>
          \E e \in Email : (Exists(e) /\ users[e].company = d /\ users[e].type = "admin")']_accountVars

\* A session that its account no longer matches never works again.
DeadSessionsStayDead ==
    [][\A b \in Browser : sessions[b] # NoSession /\ ~Current(b) /\ sessions'[b] = sessions[b]
          => ~Current(b)']_accountVars

\* The administration of the platform and that of a company do not meet: who
\* signed up is never within reach of a company's administrator.
PlatformIsApart ==
    \A e \in Email : Exists(e) =>
        /\ users[e].role = "admin" => users[e].company \in companies
        /\ users[e].company = Platform => users[e].role = "employee"

=============================================================================
