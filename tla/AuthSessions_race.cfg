CONSTANTS
    Logins = {l1, l2}
    Codes = {c1}
    Tokens = {t1, t2}
    Flows = {f1}
    Requests = {r1, r2}
    Clients = {drive, money}
    Verifiers = {v1}
    Emails = {alice, bob}
    Envs <- TwoOwners
    Null = Null
    SessionTtl = 1
    HandoffTtl = 1
    LoginTtl = 1
    MaxTime = 1
    alice = alice
    bob = bob
SPECIFICATION Spec
SYMMETRY Symmetric
CHECK_DEADLOCK FALSE
INVARIANT TypeOK
INVARIANT CascadeHolds
INVARIANT OneSessionPerCode
INVARIANT OneLoginPerFlow
INVARIANT SessionMatchesHandoff
PROPERTY ImplementsSingleSignOn
 
