SPECIFICATION AccountsSpec
CONSTANTS
    Requests = {r1, r2, r3}
    Emails = {ann}
    SsoOrgs = {acme}
    Plans = {free, pro}
    Allowed = {pro}
    MaxPlanChanges = 1
    None = None
SYMMETRY RequestSymmetry
INVARIANTS
    AccountsTypeOK
    SsoStaysInItsOrganization
    EmptyOrganizationsAreFailures
    RevokedStaysOut
CHECK_DEADLOCK FALSE
