SPECIFICATION Spec
CONSTANTS
    r1 = r1
    r2 = r2
    host = host
    ann = ann
    bob = bob
    cho = cho
    pam = pam
    noUser = noUser
    Rooms = {r1}
    Users = {host, ann, bob, cho, pam}
    Participants = {ann, bob, cho}
    Planners = {pam}
    Moderated = {host, pam}
    HostOf <- OneRoomHost
    ReferredBy <- OneRoomReferrals
    NoUser = noUser
    Capacities <- OneRoomCapacities
    Profiles <- OneRoomProfiles
    MaxReferralBonuses = 1
SYMMETRY Applicants
INVARIANTS
    TypeOK
    ViableQuorumKept
    BonusOncePerPromotedRoom
PROPERTIES
    KeepsPromise
    SettledStaysSettled
