SPECIFICATION Spec
CONSTANTS
    None = None
    Owner = owner
    Root = root
    Invitees = {p1}
    Invitations = {i1, i2}
    Requests = {q1, q2}
CONSTRAINT Bound
INVARIANTS
    AnAdministratorRemainsUnlessDrifted
    OneOpenInvitation
    DeactivatedMembersAreOut
SYMMETRY Symmetry
CHECK_DEADLOCK FALSE
