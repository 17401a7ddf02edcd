CONSTANTS
    c1 = c1
    e1 = e1
    g1 = g1
    g2 = g2
    l1 = l1
    plain = plain
    staffed = staffed
    Project = {x1, x2}
    Client = {c1}
    Engineer = {e1}
    Page = {g1, g2}
    OpenPages <- MCOpenPages
    LinkOf <- MCLinkOf
    AuthorOf <- MCAuthorOf
    Form = {plain, staffed}
    OwnerIn <- MCOwnerIn
    EngineersIn <- MCEngineersIn
    Key = {k1, k2}
    Link = {l1, l2}
    Process = {p1, p2}
    MaxEdits = 1
    MaxVersions = 2
SPECIFICATION Spec
SYMMETRY Symmetry
INVARIANTS
    CreatedOnceAndWhole
    MembersByConsent
PROPERTIES
    DecisionsAreFinal
