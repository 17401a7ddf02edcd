SPECIFICATION Spec
CONSTANTS
    d1 = d1
    Email = {ann, ben}
    Domain = {d1}
    DomainOf <- MCDomainOf
    Process = {p1, p2}
    Browser = {b1}
    Legacy = {ann, ben}
    SignupTypes = {"engineer"}
    Token = {t1, t2}
    Device = {v1, v2}
    Machine = {m1, m2}
    INSTALL_RATE = 1
    DEVICE_LIMIT = 1
SYMMETRY Symmetry
INVARIANTS
    AccountsAgree
    InstallationsAgree
PROPERTIES
    NothingIsTakenBack
    DeadSessionsStayDead
