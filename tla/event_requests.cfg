SPECIFICATION MCEventSpec
CONSTANTS
    r1 = r1
    ann = ann
    bob = bob
    cho = cho
    dan = dan
    pam = pam
    noUser = noUser
    i1 = i1
    s1 = s1
    s2 = s2
    Rooms = {r1}
    Users = {ann, bob, cho, dan, pam}
    Participants = {ann, bob}
    Planners = {pam}
    Moderated = {}
    HostOf <- EventHost
    ReferredBy <- EventReferrals
    NoUser = noUser
    Capacities <- EventCapacities
    Profiles <- EventProfiles
    MaxReferralBonuses = 1
    ChoiceLists <- EventChoiceLists
    Reports = {i1}
    Complaints <- EventComplaints
    Slots = {s1, s2}
    MaxItems = 2
SYMMETRY SlotSymmetry
ACTION_CONSTRAINT QuietAdmin
INVARIANTS
    EventRequestTypeOK
    RoomFollowsSession
PROPERTIES
    StartedOnceEndedOnce
    UndisturbedIsSerial
    MatchesStrayOnlyIfRaced
