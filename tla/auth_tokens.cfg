SPECIFICATION MCSpec
CONSTANTS
    Users = {ann, bob}
    Emails = {e1, e2}
    Tokens = {t1, t2, t3, t4}
    Slots = {s1, s2}
    NoUser = noUser
    NoEmail = noEmail
    NoToken = noToken
SYMMETRY AuthSymmetry
INVARIANTS
    AuthTypeOK
    OneAccountPerEmail
    ReferralsAcyclic
    RotationBounded
PROPERTIES
    RevokedIsUseless
    LogoutEndsSessions
    IssuedToActive
