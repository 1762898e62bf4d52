SPECIFICATION FreshSpec
CONSTANTS
    r1 = r1
    r2 = r2
    host = host
    ann = ann
    bob = bob
    cho = cho
    pam = pam
    noUser = noUser
    s1 = s1
    s2 = s2
    Rooms = {r1}
    Users = {host, ann, bob, pam}
    Participants = {ann, bob}
    Planners = {pam}
    Moderated = {host}
    HostOf <- EveryRoomHosted
    ReferredBy <- Nobody
    NoUser = noUser
    Capacities <- OneCapacity
    Profiles <- Couple
    MaxReferralBonuses = 1
    Slots = {s1, s2}
    Operations = {"create", "apply", "approve", "cancel", "pay", "publish", "update", "assign", "confirm", "profile", "moderate"}
SYMMETRY SlotSymmetry
INVARIANTS
    RequestTypeOK
    AssignedHasPlanner
    RewardedOnce
PROPERTIES
    RegressOnlyIfStale
    SettledUnlessStale
CHECK_DEADLOCK FALSE
