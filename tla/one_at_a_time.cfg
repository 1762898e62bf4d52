SPECIFICATION SubmittedSpec
CONSTANTS
    r1 = r1
    r2 = r2
    host = host
    ann = ann
    bob = bob
    cho = cho
    pam = pam
    noUser = noUser
    s1 = s1
    s2 = s2
    Rooms = {r1, r2}
    Users = {host, ann, bob}
    Participants = {ann, bob}
    Planners = {}
    Moderated = {}
    HostOf <- EveryRoomHosted
    ReferredBy <- HostReferred
    NoUser = noUser
    Capacities <- OneCapacity
    Profiles <- Couple
    MaxReferralBonuses = 1
    Slots = {s1}
    Operations = {"cancel", "approve", "reject", "waitlist", "pay", "update", "assign", "confirm"}
INVARIANTS
    ReferralSettledByFirstPayment
    ReferrerBonusesCapped
    ReferralPaidOnceToBoth
PROPERTIES
    SerialWhenAlone
CHECK_DEADLOCK FALSE
