SPECIFICATION ApprovedSpec
CONSTANTS
    r1 = r1
    r2 = r2
    host = host
    ann = ann
    bob = bob
    cho = cho
    pam = pam
    noUser = noUser
    s1 = s1
    s2 = s2
    Rooms = {r1}
    Users = {host, ann, bob}
    Participants = {ann, bob}
    Planners = {}
    Moderated = {}
    HostOf <- EveryRoomHosted
    ReferredBy <- Nobody
    NoUser = noUser
    Capacities <- OneCapacity
    Profiles <- Couple
    MaxReferralBonuses = 1
    Slots = {s1, s2}
    Operations = {"pay"}
SYMMETRY SlotSymmetry
INVARIANTS
    PromotionNotLost
CHECK_DEADLOCK FALSE
