SPECIFICATION ConfirmedRoomSpec
CONSTANTS
    r1 = r1
    host = host
    ann = ann
    bob = bob
    cho = cho
    dan = dan
    eve = eve
    fay = fay
    pam = pam
    noUser = noUser
    Rooms = {r1}
    Users = {host, ann, bob, cho, dan, eve, fay, pam}
    Participants = {ann, bob, cho, dan, eve, fay}
    Planners = {pam}
    Moderated = {}
    HostOf <- DayHost
    ReferredBy <- DayReferrals
    NoUser = noUser
    Capacities <- DayCapacities
    Profiles <- DayProfiles
    MaxReferralBonuses = 1
INVARIANTS
    DayTypeOK
    RoundsInOrder
    SeatedHavePaid
    SeatingIsFair
PROPERTIES
    DayKeepsPromise
