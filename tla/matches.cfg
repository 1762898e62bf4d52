SPECIFICATION RunningRoomSpec
CONSTANTS
    r1 = r1
    host = host
    ann = ann
    bob = bob
    cho = cho
    pam = pam
    noUser = noUser
    Rooms = {r1}
    Users = {host, ann, bob, cho, pam}
    Participants = {ann, bob, cho}
    Planners = {pam}
    Moderated = {}
    HostOf <- MatchHost
    ReferredBy <- MatchReferrals
    NoUser = noUser
    Capacities <- MatchCapacities
    Profiles <- MatchProfiles
    MaxReferralBonuses = 1
    ChoiceLists <- OneChoiceEach
INVARIANTS
    MatchTypeOK
    MatchIffMutual
    MatchedAtTheEvent
PROPERTIES
    ProposedToTheInterested
