SPECIFICATION PaymentsSpec
CONSTANTS
    r1 = r1
    r2 = r2
    host = host
    ann = ann
    bob = bob
    cho = cho
    pam = pam
    noUser = noUser
    s1 = s1
    s2 = s2
    Rooms = {r1, r2}
    Users = {host, ann, bob, cho}
    Participants = {ann, bob, cho}
    Planners = {}
    Moderated = {}
    HostOf <- EveryRoomHosted
    ReferredBy <- HostReferred
    NoUser = noUser
    Capacities <- OneCapacity
    Profiles <- Couple
    MaxReferralBonuses = 1
    Slots = {s1, s2}
    Operations = {"pay"}
INVARIANTS
    AwardsAreFlagged
    CapOverrunBounded
PROPERTIES
    RequestsFinish
CHECK_DEADLOCK FALSE
