---------------------------- MODULE NodeInstall ----------------------------
(***************************************************************************)
(* Enrolment of the Node CLI: lib/tracemini-install.ts over the accounts   *)
(* of Accounts, and the machine's side as far as auth-transport.ts and the *)
(* commands it serves tell: a machine keeps the credential it got and      *)
(* shows it again; its installation identifier is always the same.         *)
(*                                                                         *)
(* Minting and exchanging lock the row of the account first and count in a *)
(* statement of their own: each is two actions, with the lock between.     *)
(* Answers to the machine get lost.                                        *)
(***************************************************************************)
EXTENDS Accounts

CONSTANTS
    Token,              \* rows of tracemini_node_installations
    Device,             \* rows of tracemini_node_devices
    Machine,
    INSTALL_RATE,       \* install tokens of an account in an hour
    DEVICE_LIMIT        \* live devices of an account

NoDevice == "none"

ASSUME InstallAssumption ==
    /\ NoDevice \notin Device
    /\ INSTALL_RATE \in Nat
    /\ DEVICE_LIMIT \in Nat

VARIABLES
    tokens,             \* [ctx, state, recent] of each install token
    devices,            \* [ctx, machine, revoked, expired] of each device
    holds               \* the device whose credential each machine has

installVars == <<tokens, devices, holds>>
vars == <<accountVars, installVars>>

NoRow == [ctx |-> NoUser]

\* The row of tracemini_node_contexts: an account in its company.
Context == [email : Email, company : Company]
Ctx(e) == [email |-> e, company |-> users[e].company]
TokenRow == [ctx : Context, state : {"open", "used", "expired"}, recent : BOOLEAN]
DeviceRow == [ctx : Context, machine : Machine, revoked : BOOLEAN, expired : BOOLEAN]

Minting == [pc : {"mint"}, email : Email, full : BOOLEAN]
Exchanging == [pc : {"exchange"}, email : Email, token : Token, machine : Machine, full : BOOLEAN]

MintedBy(ctx) == {t \in Token : tokens[t].ctx = ctx}
DevicesOf(ctx) == {d \in Device : devices[d].ctx = ctx}
Recent(ctx) == {t \in MintedBy(ctx) : tokens[t].recent}
LiveDevices(ctx) == {d \in DevicesOf(ctx) : ~devices[d].revoked /\ ~devices[d].expired}

\* The row that owns a machine's installation hash; expired or not.
Owner(ctx, m) == {d \in DevicesOf(ctx) : devices[d].machine = m /\ ~devices[d].revoked}

Init ==
    /\ AccountsInit
    /\ tokens = [t \in Token |-> NoRow]
    /\ devices = [d \in Device |-> NoRow]
    /\ holds = [m \in Machine |-> NoDevice]

-----------------------------------------------------------------------------
(* mintNodeInstallation *)

\* The account is locked, then its recent tokens are counted.  Mutant: the count
\* does not wait for the lock.
MintUnlocked(p, b) ==
    /\ op[p] = Idle /\ Current(b)
    /\ LET e == sessions[b].email IN
          op' = [op EXCEPT ![p] = [pc |-> "mint", email |-> e,
                                   full |-> Cardinality(Recent(Ctx(e))) >= INSTALL_RATE]]
    /\ UNCHANGED <<companies, users, locked, sessions, installVars>>

Mint(p, b) ==
    /\ op[p] = Idle /\ Current(b)
    /\ LET e == sessions[b].email IN
          /\ e \notin locked
          /\ locked' = locked \cup {e}
          /\ op' = [op EXCEPT ![p] = [pc |-> "mint", email |-> e,
                                      full |-> Cardinality(Recent(Ctx(e))) >= INSTALL_RATE]]
    /\ UNCHANGED <<companies, users, sessions, installVars>>

Unlock(p) ==
    /\ locked' = locked \ {op[p].email}
    /\ op' = [op EXCEPT ![p] = Idle]
    /\ UNCHANGED <<companies, users, sessions>>

MintCommits(p) ==
    /\ op[p].pc = "mint"
    /\ \/ op[p].full /\ UNCHANGED tokens
       \/ /\ ~op[p].full
          /\ \E t \in Token :
                /\ tokens[t] = NoRow
                /\ tokens' = [tokens EXCEPT ![t] =
                      [ctx |-> Ctx(op[p].email), state |-> "open", recent |-> TRUE]]
    /\ Unlock(p)
    /\ UNCHANGED <<devices, holds>>

\* Any transaction may fail, and rolls back.
RollsBack(p) ==
    /\ op[p].pc \in {"mint", "exchange"}
    /\ Unlock(p)
    /\ UNCHANGED installVars

-----------------------------------------------------------------------------
(* exchangeNodeInstallation *)

\* An open token of an approved account that is still of the token's company.
Redeemable(t) ==
    /\ tokens[t] # NoRow
    /\ tokens[t].state = "open"
    /\ users[tokens[t].ctx.email].status = "approved"
    /\ users[tokens[t].ctx.email].company = tokens[t].ctx.company

\* What the machine shows is the credential of the row that owns its hash, in force.
Shows(ctx, m) == holds[m] \in LiveDevices(ctx) \cap Owner(ctx, m)

\* The account and the token are locked, and the live devices counted if the
\* machine is new.
Exchange(p, t, m) ==
    /\ op[p] = Idle
    /\ Redeemable(t)
    /\ LET e == tokens[t].ctx.email
           ctx == tokens[t].ctx
       IN /\ e \notin locked
          /\ Owner(ctx, m) # {} => Shows(ctx, m)
          /\ locked' = locked \cup {e}
          /\ op' = [op EXCEPT ![p] =
                [pc |-> "exchange", email |-> e, token |-> t, machine |-> m,
                 full |-> Cardinality(LiveDevices(ctx)) >= DEVICE_LIMIT]]
    /\ UNCHANGED <<companies, users, sessions, installVars>>

\* A known machine keeps its row and its credential; a new one gets both.  The
\* answer may not arrive: then the machine holds what it held before.
Answered(p, d, arrives) ==
    holds' = IF arrives THEN [holds EXCEPT ![op[p].machine] = d] ELSE holds
KeepsDevice(p, arrives) ==
    \E d \in Owner(tokens[op[p].token].ctx, op[p].machine) :
        Answered(p, d, arrives) /\ UNCHANGED devices
NewDevice(p, arrives) ==
    /\ Owner(tokens[op[p].token].ctx, op[p].machine) = {}
    /\ \E d \in Device :
          /\ devices[d] = NoRow
          /\ devices' = [devices EXCEPT ![d] =
                [ctx |-> tokens[op[p].token].ctx, machine |-> op[p].machine,
                 revoked |-> FALSE, expired |-> FALSE]]
          /\ Answered(p, d, arrives)

ExchangeCommits(p, arrives) ==
    /\ op[p].pc = "exchange"
    /\ KeepsDevice(p, arrives) \/ (~op[p].full /\ NewDevice(p, arrives))
    /\ tokens' = [tokens EXCEPT ![op[p].token].state = "used"]
    /\ Unlock(p)

-----------------------------------------------------------------------------
(* The device afterwards *)

\* A device is accepted while it is live and its account approved and where it was.
Accepted(d) ==
    /\ devices[d] # NoRow
    /\ d \in LiveDevices(devices[d].ctx)
    /\ users[devices[d].ctx.email].status = "approved"
    /\ users[devices[d].ctx.email].company = devices[d].ctx.company

\* nodeDeviceStatus with abort: a setup that failed gives its device up.
Abort(m) ==
    /\ holds[m] # NoDevice
    /\ Accepted(holds[m])
    /\ devices[holds[m]].ctx.email \notin locked
    /\ devices' = [devices EXCEPT ![holds[m]].revoked = TRUE]
    /\ holds' = [holds EXCEPT ![m] = NoDevice]
    /\ UNCHANGED <<accountVars, tokens>>

\* The machine is set up anew, or rolls back a setup whose abort did not arrive.
LosesCredential(m) ==
    /\ holds[m] # NoDevice
    /\ holds' = [holds EXCEPT ![m] = NoDevice]
    /\ UNCHANGED <<accountVars, tokens, devices>>

\* Ten minutes, an hour, ninety days.
TokenExpires(t) ==
    /\ tokens[t] # NoRow /\ tokens[t].state = "open"
    /\ \A p \in Process : op[p].pc = "exchange" => op[p].token # t
    /\ tokens' = [tokens EXCEPT ![t].state = "expired"]
    /\ UNCHANGED <<accountVars, devices, holds>>
TokenAges(t) ==
    /\ tokens[t] # NoRow /\ tokens[t].state # "open" /\ tokens[t].recent
    /\ tokens' = [tokens EXCEPT ![t].recent = FALSE]
    /\ UNCHANGED <<accountVars, devices, holds>>
DeviceExpires(d) ==
    /\ devices[d] # NoRow /\ ~devices[d].expired
    /\ devices' = [devices EXCEPT ![d].expired = TRUE]
    /\ UNCHANGED <<accountVars, tokens, holds>>

Next ==
    \/ AccountsNext /\ UNCHANGED installVars
    \/ \E p \in Process :
        \/ MintCommits(p) \/ RollsBack(p)
        \/ \E b \in Browser : Mint(p, b)
        \/ \E t \in Token, m \in Machine : Exchange(p, t, m)
        \/ \E arrives \in BOOLEAN : ExchangeCommits(p, arrives)
    \/ \E m \in Machine : Abort(m) \/ LosesCredential(m)
    \/ \E t \in Token : TokenExpires(t) \/ TokenAges(t)
    \/ \E d \in Device : DeviceExpires(d)

Spec == Init /\ [][Next]_vars

-----------------------------------------------------------------------------
(* Properties *)

TypeOK ==
    /\ AccountsTypeOK
    /\ op \in [Process -> {Idle} \cup Registering \cup Minting \cup Exchanging]
    /\ tokens \in [Token -> TokenRow \cup {NoRow}]
    /\ devices \in [Device -> DeviceRow \cup {NoRow}]
    /\ holds \in [Machine -> Device \cup {NoDevice}]

\* An account mints no more tokens in an hour than the rate, and has no more
\* live devices than the limit, however many requests count at once.
MintRate == \A ctx \in Context : Cardinality(Recent(ctx)) <= INSTALL_RATE
DeviceLimit == \A ctx \in Context : Cardinality(LiveDevices(ctx)) <= DEVICE_LIMIT

\* A token is worth one exchange: an account has had no more devices than
\* tokens used up.
DevicesArePaidFor ==
    \A ctx \in Context :
        Cardinality(DevicesOf(ctx)) <= Cardinality({t \in MintedBy(ctx) : tokens[t].state = "used"})

\* A machine is one device of an account at a time: the unique index never has
\* to refuse an exchange.
OneDevicePerMachine ==
    \A ctx \in Context, m \in Machine :
        Cardinality({d \in DevicesOf(ctx) : devices[d].machine = m /\ ~devices[d].revoked}) <= 1

\* A machine that lost the answer or its credential, or whose device expired,
\* still owns its installation hash and is locked out of the account for good:
\* no token brings it back, and nothing revokes the row without the credential.
Stranded(ctx, m) == Owner(ctx, m) # {} /\ holds[m] \notin Owner(ctx, m) \cap LiveDevices(ctx)
UnderWay(ctx, m) ==
    \E p \in Process : op[p].pc = "exchange" /\ op[p].machine = m /\ tokens[op[p].token].ctx = ctx
LockedOut(ctx, m) == Stranded(ctx, m) /\ ~UnderWay(ctx, m)
StrandedForGood ==
    [][\A ctx \in Context, m \in Machine : LockedOut(ctx, m) => LockedOut(ctx, m)']_vars

\* What holds of accounts and companies, however registrations race, fail half
\* way or never come back (registerCompany, restoreAdminAccess).
AccountsAgree ==
    /\ TypeOK
    /\ OneFounder
    /\ PlatformIsApart

\* What holds of installation tokens and devices, however requests count at once
\* and answers are lost (mintNodeInstallation,
\* exchangeNodeInstallation).
InstallationsAgree ==
    /\ MintRate
    /\ DeviceLimit
    /\ DevicesArePaidFor
    /\ OneDevicePerMachine

\* What no later request of anybody takes back: an approval, the loss of a
\* company whose registration failed half way, and that of a machine's place
\* in an account.
NothingIsTakenBack ==
    /\ ApprovedForGood
    /\ AdminlessUntilSetup
    /\ StrandedForGood

=============================================================================
