# Rolling: verification of the matching backend

The backend (FastAPI, async SQLAlchemy, PostgreSQL) runs small dating events: a
host opens a *room*, guests apply and pay, the room becomes VIABLE once half of
each gender has paid, an admin assigns a planner, the planner confirms, checks
the guests in and runs a rotation in which everybody meets everybody; during and
after it the guests choose each other, and mutual interests become matches.
Awards (credits) go to hosts and referrers on the way.

This directory holds TLA+ modules of that core, TLC configurations for small
instances, and proofs for all instances. Paths are relative to the repository.

## 1. The system

### How requests run

One uvicorn worker serves requests on one event loop. A request has a session,
and so a transaction, of its own (`app/api/deps.py`, `app/core/database.py:27-33`:
`autoflush=False`, `expire_on_commit=False`). PostgreSQL runs it at READ
COMMITTED; nothing is selected FOR UPDATE, so a row is locked only by writing it.
The endpoint commits once at its end; an error anywhere before leaves nothing.
An UPDATE carries only the columns that differ from what was loaded and has no
condition on them. Two things make this hard: requests interleave at every
`await`, and what a handler has added but not flushed is invisible to its own
later queries.

### Components

| Component | State | Operations | Talks to | What makes it correct |
| --- | --- | --- | --- | --- |
| Rooms and hosting (`host_service`) | status, capacities, deadline | create, update, publish, promotion to VIABLE | applications (counts them), credits (rewards) | documented state machine; quorum behind every promotion |
| Applications (`application_service`, `host_service`) | status per guest and room | apply, cancel, approve, reject, waitlist, mark paid | rooms, profiles, credits | settled applications stay settled; payment, promotion and awards are one |
| Planner work (`admin_service`, `planner_service`) | planner of a room, its status | assign, confirm | rooms | a room assigned or confirmed has a planner |
| Credits (`credit_service`) | awards, referral flag, expiry | VIABLE bonus, referral pair, wallet | users | once per room, once per friend, never over the cap |
| Profiles (`profile_service`) | gender, completeness | upsert | read by nearly everything | others survive edits at any moment |
| Accounts (`admin_service`, `deps`) | user and planner status | block, approve, suspend | guards of every request | blocked people act no more |
| Check-in (`checkin_service`) | status per guest | open, confirm, no-show | rooms, applications | only paid guests are checked in |
| Rotation (`rotation_service`) | session, rounds, seats | start, next, end | rooms, check-ins, profiles | fair seating; room, session and rounds agree |
| Choices and matches (`choice_service`) | choices, matches, proposals | submit, propose | rooms, check-ins, profiles | match if and only if mutual |
| Feedback (`feedback_service`), reports (`report_service`, `admin_service`) | a row per submission, a report's status | submit; file, resolve, dismiss | rooms, check-ins, applications | once per guest and room; a closed report stays closed |
| Auth tokens (`auth_service`) | accounts, refresh tokens | register, login, refresh, logout | users | one account for an email; a token is used once; a logout ends every login |
| Rate limiter (`core/middleware`) | time stamps per client and path | dispatch | in front of everything | never more than the limit in a window |
| Browsing, audit log, payments table, configuration | - | reads, appends, set-up | - | - |

Hard behaviour, and so the subject of the properties: stale rows written back,
counts that miss uncommitted rows, transactions that wait for each other's rows,
failure between two statements, endpoints called in any order over a room's long
life, facts checked at one time and relied on at another. `PROJECT.json` lists
each such hazard at its line.

## 2. The modules

```
RollingTypes ── RoomLifecycle ──┬── RoomRequests                  (requests in flight)
                     │          └── EventDay ── MatchChoices ── Aftermath ── EventRequests
              refines RoomPromise       └── uses RoundRobin              (requests in flight)

RollingTypes ── AuthTokens                                        (accounts and tokens)
RateLimiter                                                       (in front of everything)
```

Each of the two big serial modules, `RoomLifecycle` and the chain that ends in
`Aftermath`, has one action per endpoint; `RoomRequests` and `EventRequests` run
the same endpoints statement by statement, several at a time, over the variables
of the serial ones. The serial specification is the abstract one: `SerialWhenAlone`
and `UndisturbedIsSerial` state in which sense the detailed one implements it.

| Module | Models | State and actions against the code |
| --- | --- | --- |
| `RollingTypes` | the status enums and the status sets that guard state changes | sets keep the source's names where it has one (`HOST_PUBLISH_FROM`, ...); the others are the tuples inside the handlers |
| `RoomPromise` | abstract: phases in order, a roster that only grows, the reward in the promoting step | no code of its own |
| `RoomLifecycle` | one action per endpoint, each endpoint alone | `status`, `capacity`, `deadlinePassed`, `planner`: columns of `rooms`; `application[r][u]`: `room_applications.status`; `profile`; `userStatus`, `plannerStatus`; `credits`, `bonusEmitted`: table `credits` and `users.referral_bonus_emitted` |
| `RoomRequests` | the same operations as transactions in flight | RoomLifecycle's variables are the committed database; a slot loads and checks a row in one step and writes it in a later one; marking an application paid, which writes three rows and inserts up to three, goes statement by statement; `Fail` anywhere |
| `EventDay` | check-in, rotation, beside every action of `RoomLifecycle` | `checkin`, `session`, `rounds`, `seats`: the four tables of the same names |
| `RoundRobin` | the pure seating function | rounds and tables counted from 1 |
| `MatchChoices` | choices, matches, proposals, beside all of `EventDay` | `choice[r][u][v]`, `match[r][{u, v}]`, `proposers` (a set: that a guest proposes twice leaves no trace); one request may choose for many guests, and twice for one |
| `Aftermath` | feedback and reports, beside all of `MatchChoices` | `feedback[r][u]`: the number of rows of table `feedback`; `report[i]`: a row of `reports` |
| `EventRequests` | the operations of `EventDay`, `MatchChoices` and `Aftermath` as transactions in flight | `task`: the request; `view`: what it has read and the objects it has changed; `touched`: history; an operation is `Load...`, the reads that follow, and `Store...` |
| `RateLimiter` | `RateLimitMiddleware` | `bucket[k]`: the deque of one client and path; `admitted`, `promised`: history; `Restart` empties the memory |
| `AuthTokens` | registration, login, refresh, logout, as transactions in flight | `account`: `users.status`, `email`, `referred_by_user_id`; `token`: `refresh_tokens`; `access`: who holds an unexpired access token, which no table records; a refresh is `LoadToken`, `LoadUser`, `Rotate`, a logout `LoadLogout`, `ListTokens`, `RevokeListed` |
| `MC...` | instances for TLC | initial states that the endpoints reach, small sets |
| `...Proofs` | theorems and proofs | section 5 |

Abstractions, the same everywhere. Rooms and users are model values; a room
"none" or an application "none" is a row that does not exist. Names, notes,
places, prices and times are left out; of the deadline only whether it has
passed remains, and an edit may move it either way. A time-out of the passing
kind is an action of its own (`DeadlinePasses`). Each credit carries a `grant`
that says which payment inserted it, so that two equal rows count as two. The
awarded amounts and expiry dates are constants and are left out. A planner, a host
or a guest acts only while active, and a planner while approved, as the
dependencies of the endpoints demand.

What `RoomRequests` adds. An operation that writes one row is a load and a store
(`LoadApplication`/`StoreApplication`, `LoadRoom...`/`StoreRoom`); a store
writes the columns in which `wanted` differs from `loaded`, on whatever the row
has become by then, and waits while another transaction holds it. A payment is
`LoadPayment`, `WriteApplication`, `ReadRoom`, `CountConfirmed`, `WriteRoom`,
`IssueBonus`, `ReadUser`, `FindPair`, `IssuePair`, `WriteUser`, `Commit`; its
counts see what is committed and what it has itself flushed. With one slot
`SerialWhenAlone` shows these steps to be those of `RoomLifecycle`: the two
modules say the same of a request that runs alone. Operations that decide
nothing from what they read (create, profile, moderation) stay atomic.

What `EventRequests` adds. Its handlers write in one flush at their end, so the
write and the commit are one step, and a request whose insertion meets a unique
constraint has no step but `Fail`. What is read before the first statement that
can tell the difference is one step with it: an opening of the check-in is
`LoadOpenCheckin`, `ListCheckins`, `StoreOpenings`; a start `LoadStart`,
`ReadAttendance`, `StoreSession`; an advance or an end `LoadSession`,
`ListRounds`, `StoreAdvance` or `StoreEnd`; a list of choices goes through its
entries with `ReadChoice`, `ReadReverse`, `ReadMatch` and ends in
`StoreChoices`. An object in `own` and `res` has a value that was read and one
that it has now; a row added and not flushed is not found by the next query,
which is how a list that names a guest twice goes wrong. `touched[s]` becomes
true when anything the request in slot s decides on (`Footprint`) changes between
its first read and its commit; a request with `touched[s]` false must commit what the serial
action does (`UndisturbedIsSerial`). The operations of `RoomLifecycle` run
beside it as atomic steps (`Background`).

`RateLimiter` is one step per request, for there is no `await` between reading
the clock and appending to the deque. Its clock ticks in fractions of a second (`Second` ticks
are one), Retry-After is in whole seconds. It starts anew with the process and
is for one process, as the code's comment says (`middleware.py:51-52`).

`AuthTokens` stands apart: rooms take accounts as given (`ReferredBy`, `userStatus`),
and what they assume of them, that nobody refers himself, is `ReferralsAcyclic`
there. Its history variable `touched` remembers for each request in flight which
of what it has read has changed since (`Changed`): the status of its user, that the token it
refreshes is unrevoked, or, for a logout past its listing, that no token of the
user is new. It is cleared when the request ends, so what a request may be
excused from is its own race and no earlier one. `from` in a token's row, history
too, says which token it replaced. A refresh updates one row and inserts
another, a logout updates rows of one user: the write and the commit are one
step, since a request that waits for a row finds it committed or untouched.

Operators named `...Variant`, and the four wrong status sets of `RollingTypes`,
are plausible mistakes that some property must catch; no specification uses them.

## 3. The runs

Each run asks one question. All bounds are in the `.cfg` files.

| Run | Question | Instance |
| --- | --- | --- |
| `room_lifecycle` | does a room keep its quorum, its one reward, its settled applications and `RoomPromise` through all endpoints in any order? | one room, capacities 1+1 or 3+1 (thresholds 1 and 2 for men), three guests with every pair of genders and completeness, a planner and a host who may be blocked |
| `one_at_a_time` | do the statements of a payment add up to the serial operation, and do awards, flag and cap agree? | one slot, two rooms, two friends of one host, cap 1: the second friend meets the cap |
| `requests` | with two requests of every kind in flight: has an assigned room its planner, is a host rewarded once, and do a room's status move back, and a settled application change, only by a write that is stale? | two slots, one room from creation to confirmation, two guests |
| `payments` | no award without its flag, a cap overrun by at most the other requests in flight, a friend paid for at most once per request in flight, nobody waiting forever | two slots, three guests, two rooms, payments only |
| `event_day` | do room, session and rounds agree, are only paid guests seated, and fairly? | six guests (one, two or three pairs present), one of them still paying, one editing the profile |
| `matches` | is a match live exactly while both are interested, of people who were there, and proposed on only then? | three guests, one late; single choices for any set of guests |
| `event_requests` | with two requests of an event in flight: do room and session agree, does an event start and end once, is a request that nothing disturbed serial, and a match without mutual interest (or the reverse) always the work of a race or of a list that names a guest twice? | two slots, one room, two active guests; three starting moments, see below |
| `rate_limiter` | does no window admit more than its rule, and is who waits for Retry-After admitted? | limits 2 and 1, windows of 4 and 3 ticks, seconds of 2, 10 ticks, restarts |
| `auth_tokens` | is an email one account's, a referral never circular, a token rotated at most once per request in flight, reuse refused, a logout complete, a blocked account left without new tokens? | two slots; two accounts register in a race, then one uses four tokens |
| `promotion_lost` *(violated)* | is a room with its quorum promoted once nothing is in flight? | two payments |
| `refresh_reused` *(violated)* | is a refresh token rotated once? | as `auth_tokens` |
| `feedback_twice` *(violated)* | is there one feedback per guest and room? | as `event_requests` |

Why the bounds suffice. The promotion compares two counts with thresholds, and
two guests are the fewest that reach them, three the fewest that leave one over
to cancel, to change gender or to pay late. Interference is between two requests: every handler
compares its own load with what others write, so two slots show every pair of
an earlier and a later writer; three payments in `payments` add a third that
meets what two have left. The cap is a parameter, 1 here and 5 in the code
(`credit_service.py:30`); it is reached by the first award, and the second is
the boundary case. Three rounds are the fewest in which a round has both a
predecessor and a successor. For matches a pair and a third person show that
one pair's choices leave another's match alone; "maybe" and "not_interested"
differ nowhere in the code, so one of them is enough. Four tokens are the fewest that show
a token with one successor too many for two slots. For the rate limiter ten
ticks hold two windows and the moments just before, at and after an expiry, and a
second of two ticks is the shortest whose fractions Retry-After loses. What the bounds leave open is what
the theorems are for.

The initial states of `MCRoomRequests`, `MCEventDay` and `MCMatchChoices` are
states that the endpoints reach (published rooms with applications, a confirmed
room, a started rotation), chosen so that the search is spent on what follows.
In `event_day` all guests but one are blocked after paying, which only bounds
their profile edits; in `matches` an edited profile is always a woman's, and
the pairs of opposite gender change with it.

`MCEventRequests` starts at three moments of one event, each with the accounts
active whose requests belong to it, so that the search is spent on their
interleavings: the planner opens the check-in, checks in and leads through up to
two rounds (`PlannersHour`); two guests who met choose and propose after the end,
with lists of up to two entries (`MaxItems`), twice for one guest included
(`ChoicesHour`); the guests give feedback and report, and the admin closes the
reports (`FeedbackHour`). Requests of different hours read different rows: a
choice looks at a status and at check-ins that the planner's hour changes, which
`touched` covers and the atomic step of a planner's request in `matches` shows.
In this instance no profile is edited, and no admin approves or suspends a planner
who is blocked anyway (`QuietAdmin`). Reports are of a guest of the room,
of nobody, and of no room (`EventComplaints`).

In `MCAuthTokens` registrations race before the first sign-in; then one account
uses the tokens, for no action of one account reads another's.

Deadlock. The runs of `RoomRequests` say `CHECK_DEADLOCK FALSE`: a room that is
confirmed, or a set of applications that are all paid, leaves nothing to ask
for, and the system rightly stops. All others check it.

Fairness, used by `payments` alone for `RequestsFinish`. Weak fairness of the
steps that wait for nobody: the event loop resumes every coroutine whose query
has returned. Strong fairness of the steps that need a row lock: PostgreSQL hands
a lock to its waiters in the order of their arrival, so a waiter whose row is
free again and again gets it. Nothing is assumed of people: that a room is ever
published, paid for or confirmed, or an event ended, no code enforces.

## 4. What the runs found

Three places where the code does something else than the repository says; each is
a `violation` run with the shortest trace.

* `promotion_lost`: two payments that complete the quorum together each count
  without the other (README, room state machine). The room stays PUBLISHED until
  the next payment, and there may be none.
* `refresh_reused`: two refreshes with one token both find it unrevoked and both
  answer a new pair, where the README promises 401 on reuse. `RotationBounded`
  and `RevokedIsUseless` say how far it goes: as many pairs as requests were in
  flight, and once the token is revoked only by those that had loaded it before.
* `feedback_twice`: the README gives a guest one feedback per room; the handler
  looks for an earlier one and inserts, and the table has no unique constraint
  that would stop the second of two submissions in flight. `EventRequestTypeOK`
  bounds it by the requests in flight.

Seen while modelling, and bounded by a property that holds instead of a run of
its own:

* A payment and a cancellation of one application: `cancel_my_application`
  writes over a confirmation committed since it loaded the row, and the
  promotion and the awards of that payment stay. `SettledUnlessStale`: nothing
  else changes a settled application.
* One friend's payments in two rooms: the flag `referral_bonus_emitted`
  (`models/user.py:39`, "to prevent duplicate awards") and the look for an
  earlier pair are reads without a lock, and both award. `CapOverrunBounded`: at
  most one pair per request in flight.
* With `autoflush` off, the second entry for a guest in one list of choices does
  not find the match that the first has added, and cannot take it back: the
  match stays mutual. Two guests who choose each other at once, neither seeing
  the other's choice, get no match; a withdrawal that races a proposal leaves
  the status of whichever writes later. `MatchesStrayOnlyIfRaced`: nothing else
  parts matches from choices.
* Two advances in flight advance by one round; an advance that overlaps the end
  leaves an active round in the completed session. `RoomFollowsSession` and
  `StartedOnceEndedOnce`: the room still follows its session, and the session stays completed.
* A report may be resolved and dismissed at once, and the later write decides.

Also: a room's status moves back
when a request writes what it decided on an older row: a second `publish` over
VIABLE, an assignment over CONFIRMED, a promotion over ASSIGNED. `RegressOnlyIfStale`
shows that nothing else moves it back, and `RewardedOnce`, in the same run, that
the host is still rewarded once. `mark_application_paid` does not look at the
room's status, so guests join after the planner "locks the roster"
(`planner_service.py:73`). An unknown referral code is refused with 409 where a
comment (`auth_service.py:73`) says that registration goes on. A login or
refresh that overlaps a logout keeps its token; blocking an account revokes none.

Observed and modelled: an edit of
capacities or genders can complete a quorum without a promotion, for
`maybe_promote_to_viable` runs on payment only, while the README gives the
quorum itself as the trigger (`src/README.md:203`); the next payment repairs it.
And contradicted by no document: per gender a promoted room may
fall below its threshold, because a confirmed guest may edit the gender, while
the sum stays (`ViableQuorumKept`); a guest marked absent after the start keeps the
seats; a CONFIRMED room whose planner is suspended cannot be given to another.

## 5. What is proved

With TLAPS, for every value of the constants that `RoomConstants` (finitely many
users; guests, planners and moderated people among them; hosts and referrers
are users, nobody refers himself; capacities from 1 to 20) and, for matches,
`ChoiceConstants` (a list has one or two entries for a guest) admit. Rooms may be infinitely many.
`RequestConstants` adds that there are finitely many slots, at least one;
`LimiterConstants` that limits, windows and seconds are positive.

| Theorem | Statement | Argument |
| --- | --- | --- |
| `RoomLifecycleProofs!TypeCorrect` | `Spec => []TypeOK` | by action |
| `ApplicationsSettle` | `Spec => SettledStaysSettled` | the status sets of the guards |
| `QuorumKept` | `Spec => []ViableQuorumKept` | the roster only grows; after promotion capacities cannot be edited; at promotion the two genders' counts are of disjoint parts of the roster |
| `BonusOnce` | `Spec => []BonusOncePerPromotedRoom` | `BonusInv`: bonus rows exist exactly for promoted rooms and are unique, without counting; cardinality 0 or 1 follows |
| `ReferralSettled` | `Spec => []ReferralSettledByFirstPayment` | confirmations come from payments only, and every payment settles the flag, cap reached or not |
| `ReferralPaidOnce` | `Spec => []ReferralPaidOnceToBoth` | `ReferralInv`: both rows or none, each with the flag up, each unique |
| `ReferralsCapped` | `Spec => []ReferrerBonusesCapped` | needs `credits` finite; one payment adds one referrer row at most |
| `ImplementsPromise` | `Spec => KeepsPromise` (refinement of `RoomPromise`) | `EarlyInv`: a room not yet published has no application, so payments find a phase that admits; `BonusInv` for the reward |
| `EventDayProofs!RoundRobinIsFair` | every man meets every woman once, no one sits twice in a round | for fixed i, and for fixed k, `(i + k) mod n` is a bijection |
| `DayTypeCorrect` | `DaySpec => []DayTypeOK` | by action; seats from `RoundRobinIsFair`'s lemmas |
| `RoundsKeepOrder` | `DaySpec => []RoundsInOrder` | `OrderInv` adds that sessions are only absent, running or completed; the other actions neither start nor end an event |
| `GuestsHavePaid` | `DaySpec => []SeatedHavePaid` | `PaidInv` adds that who has a check-in is confirmed; confirmation is never taken back |
| `SeatsAreFair` | `DaySpec => []SeatingIsFair` | `RoundRobinIsFair`, for those present at the start |
| `DayImplementsPromise` | `DaySpec => DayKeepsPromise` | with `OrderInv`, so that an end finds the room in progress |
| `MatchChoicesProofs!MatchTypeCorrect` | types of choices and matches | any lists |
| `MatchesAreMutual` | `MatchSpec => []MatchIffMutual` | if no list names a guest twice (`NobodyTwiceInAList`): `MatchInv` adds that of the statuses only absent, none, mutual and after_proposed occur |
| `OnlyTheInterestedAreAsked` | `MatchSpec => ProposedToTheInterested` | same assumption, from `MatchInv` |
| `MatchesAreOfTheEvent` | `MatchSpec => []MatchedAtTheEvent` | any lists: `MetAtTheEvent` is inductive since a begun event stays begun and a check-in is never taken away; who has one has paid, by `PaidInv` |
| `RoomRequestsProofs!RequestTypeCorrect` | `RequestSpec => []RequestTypeOK` | `SlotsInv`: what a slot has loaded, wants and has written fits the statement it runs next |
| `SettledMovesOnlyIfStale` | `RequestSpec => SettledUnlessStale` | `SlotsInv`: a loaded row was not settled when it was loaded |
| `RegressesOnlyIfStale` | `RequestSpec => RegressOnlyIfStale` | `SlotsInv`: a wanted status ranks no lower than the loaded one |
| `AwardsFlagged` | `RequestSpec => []AwardsAreFlagged` | `FlaggedInv` for the committed awards; `SlotsInv`: a payment that commits a referrer's award commits its flag with it |
| `PlannerAssigned` | `RequestSpec => []AssignedHasPlanner` | `PlannerInv`: a room loaded with a planner still has one when the row is written back, for none is ever unassigned |
| `RewardsOnce` | `RequestSpec => []RewardedOnce` | `LockInv`: at most one transaction holds a room's row, and a payment past `WriteRoom` does; `RewardInv`: so its look for an earlier bonus sees all there are |
| `CapOverrun` | `RequestSpec => []CapOverrunBounded` | `CreditsInv`, `OverrunInv`: a referrer's committed credits, and the slots that hold another uncommitted, are together no more than the cap and the slots less one; likewise for one friend's pairs and the slots that have found none. A commit moves one unit from the one to the other |
| `AloneIsSerial` | `RequestSpec => SerialWhenAlone`, one slot, no apply, profile or moderate | `AloneInv`: what the only request has loaded is still in the database, and the writes a payment holds uncommitted are, at each of its statements, the part done so far of what the serial payment owes (`Due`, `PayHand`) |
| `EventRequestsProofs!RoomAndSessionAgree` | `EventSpec => []RoomFollowsSession` | `StoryInv`: a request that advances or ends a session loaded one that had started, and an advance writes no status |
| `EventsHappenOnce` | `EventSpec => StartedOnceEndedOnce` | `StoryInv`; only an insertion, which finds no session, writes seats |
| `EventRequestTypeCorrect` | `EventSpec => []EventRequestTypeOK` | `RequestsInv`: what a slot has read, wants and adds fits its task; the feedback rows of a guest, and the submissions past their check, are together no more than the slots |
| `MatchesStrayByRaces` | `EventSpec => MatchesStrayOnlyIfRaced` | `SeenInv`: what an undisturbed request has read is still in the database, so it writes what the serial action would |
| `SeatedGuestsPaid`, `SeatsStayFair`, `MatchesComeFromTheEvent` | `EventSpec => []SeatedHavePaid`, `[]SeatingIsFair`, `[]MatchedAtTheEvent` | `GuestsInv`: the attendance, the roster, the chooser and the guests chosen that a request has in hand are of people who have arrived, have paid, or have a check-in of an event that has begun; no step of anybody takes such a thing back (`GuestsStay`), so a late write of them is still right |
| `EventsKeepPromise` | `EventSpec => DayKeepsPromise` (refinement of `RoomPromise`) | `PhaseInv`: whoever is about to start an event that has no session found its room confirmed, and it still is, since only the statements on sessions move a room on from there; with `StoryInv` for the end |
| `EventSerialProofs!UndisturbedRequestsAreSerial` | `EventSpec => UndisturbedIsSerial`, any number of slots, lists of any length | `HandInv`: what an undisturbed request has in hand is what its footprint says it should be; for a list of choices, by the number of entries dealt with (`Positions`, `ChosenFor`) |
| `RateLimiterProofs!LimitKept` | `LimiterSpec => []NeverMoreThanLimit` | the deque is a suffix of the admitted times, these are in order, and what was dropped is older than a window |
| `RetryAfterIsHonest` | `LimiterSpec => []RetryIsHonest` | a promise lies beyond the expiry of the oldest entry of the full deque, and nothing is appended while it stands |
| `AuthTokensProofs!AuthTypeCorrect` | `AuthSpec => []AuthTypeOK` | `TaskInv` adds whose token, and whose tokens, a request holds |
| `EmailsAreUnique` | `AuthSpec => []OneAccountPerEmail` | the insertion checks the email again, as the constraint does |
| `NoReferralCycles` | `AuthSpec => []ReferralsAcyclic` | `ReferrerInv`: referrers, also those of registrations in flight, are registered; a new account refers to nobody in the group yet and nobody to it |
| `RotationsAreBounded` | `AuthSpec => []RotationBounded` | `RotationInv`: a token with a successor is revoked, and its successors and the requests that still hold it are together no more than the slots |
| `RevokedStaysUseless` | `AuthSpec => RevokedIsUseless` | `ReadInv`: what a request has read still holds unless `touched` says that it changed, since nothing takes a revocation back; a step issues at most one token |
| `LogoutsEndSessions` | `AuthSpec => LogoutEndsSessions` | `ReadInv`: every unrevoked token of the user is listed or was issued since, in whatever chain it is |
| `TokensGoToActive` | `AuthSpec => IssuedToActive` | `ReadInv`: the account whose status a request has read is still active, or its status has changed since |

The assumption `NobodyTwiceInAList` is one that clients meet and no code checks:
a list that names a guest twice breaks the invariant, as section 4 says;
`MatchesStrayOnlyIfRaced` is the statement without it, proved as well. The theorems on
`EventRequests` assume, beside those of the serial chain, `AftermathConstants`
(who may complain of whom, in which room) and `EventConstants` (finitely many
slots, lists of a bounded length).

The invariants of the serial event are theorems over `EventSpec` as well, and no
run repeats them there: the runs `event_day` and `matches` check them on the
serial actions, and that requests in flight keep them is proved.

The invariants of `RoomRequestsProofs` are per slot, with the slot's values as
parameters, so that a step of one slot is shown to leave the others' alone once
(`SlotStep`) and each action is then looked at in its own slot. `RewardedOnce`
needs the locks, and `CapOverrunBounded` needs none: two payments that count at
once are allowed, and what is counted is how many can. That `Since` drops exactly the
expired entries of the deque rests on the least element of a set of positions,
from the well-foundedness of `<` on the numbers.

For `AuthTokens` the assumptions are `AuthConstants`: finitely many slots, and
sentinels that are no user, email or token.

The two theorems on serial behaviour are the step-by-step half of a refinement.
`AloneIsSerial` assumes `OneSlot` and `QuietOperations`: an application looks at the
deadline of the room before it inserts, and the deadline may pass in between even
when no other request runs; profile edits and moderation are requests of
others, which `RoomRequests` keeps as atomic steps beside the one in the slot.
`Init` being part of `RequestSpec`, one slot implements `Spec`, so what
is proved over `RoomLifecycle` holds of the statements too. `UndisturbedRequestsAreSerial`
assumes nothing of that kind: requests run together, and whoever is not
`touched` commits the serial result.

Only model-checked: `RequestsFinish`, as liveness under fairness is beyond the
prover, and the disagreements of section 4, which are counterexamples. No
definition is RECURSIVE.

## 6. What is not modelled

* The wallet (`list_my_credits`, `credit_summary`): expiry is written when the
  owner looks, no other code reads it, and no code spends or voids a credit; the
  estimate of a discount has no caller outside `credit_summary`, which has none. For
  this the component Credits is "partly".
* Of authentication: passwords, signatures, hashing and the alphabet of referral
  codes are taken to work; roles are not told apart.
* Which client address a request claims; several workers, for which the rate
  limiter is not meant; the removal of deques, which the code never does.
* `visible_at` of a match: a 24 hour filter of a listing that decides no state.
* The check-in code: shown and generated, compared by no code.
* Browsing, dashboards, current-round views: reads.
* `payments` table: no service writes it. Audit log: appended, read by nothing.
* Configuration, logging, seeding, migrations, health: set-up and I/O.
* Profile edits while a request of the event is in flight are atomic steps of
  `EventRequests` and covered by its theorems; the instance checked has none (`EventProfiles`).
* Reading and writing the room, the session and the rounds of one event: rows
  that one statement reads after another, with nothing between that decides on
  them, are read in one step.

## 7. Plan

Done, the most important behaviour first: `RoomLifecycle` with `RoomPromise`;
`RoomRequests`; `RoundRobin`, `EventDay`; `MatchChoices`; `AuthTokens`;
`Aftermath`, `EventRequests`; `RateLimiter`; proofs over each. Next:

1. What becomes of the quorum under races: a promotion is lost only if two
   payments overlap, and a promoted room loses it only by an edit, as theorems
   of `RequestSpec`.
2. An abstract account (sessions that are opened, rotated and closed) that
   `AuthTokens` implements but for requests that are `touched`.
3. The wallet and the embargo of matches, should any code come to decide on them.

Runs are to stay a dozen: new ones replace or absorb those whose question they include.
