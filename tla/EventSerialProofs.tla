------------------------- MODULE EventSerialProofs -------------------------
(***************************************************************************)
(* A request of the event that nothing disturbed is serial: for any number *)
(* of requests in flight, of rooms and of guests, and for lists of choices *)
(* of any length.                                                          *)
(***************************************************************************)
EXTENDS EventRequestsProofs

-----------------------------------------------------------------------------
(* What a request has in hand while nothing has changed under it.  p, k    *)
(* and w are what pc, task and view have for its slot and f its footprint: *)
(* the request has found what f still says, so that what it has in hand    *)
(* stays true for as long as its footprint stays as it is.                 *)

OpenHand(p, k, w, f) ==
    /\ k.op = "open" /\ f[1] = TRUE /\ f[2] = "confirmed" /\ f[3] # {}
    /\ p = "list_checkins" => w.roster = f[3]
    /\ p = "store_openings" =>
          /\ w.missing = {u \in f[3] : f[4][u] = "none"}
          /\ w.unopened = {u \in f[3] : f[4][u] = "not_open"}

CheckinHand(k, f) ==
    k.op \in {"confirm", "miss"} /\ f[1] = TRUE /\ f[2] \in CheckinFrom[k.op]

StartHand(p, k, w, f) ==
    /\ k.op = "start" /\ f[1] = TRUE /\ f[2] = "confirmed" /\ f[3] = NoSession
    /\ p = "store_session" =>
          /\ w.males = f[4] /\ w.females = f[5]
          /\ f[4] # {} /\ f[5] # {} /\ Cardinality(f[4]) = Cardinality(f[5])

RoundsHand(p, k, w, f) ==
    /\ k.op \in {"next", "end"} /\ f[1] = TRUE
    /\ IF k.op = "next" THEN f[2].status = "running"
                        ELSE f[2].status \notin {"none", "completed"}
    /\ w.current = f[2].current
    /\ p # "list_rounds" => w.rows = f[3]
    /\ p = "store_advance" => k.op = "next" /\ w.current < Len(f[3])
    /\ p = "store_end" => k.op = "end"

ProposalHand(k, w, f) ==
    /\ k.op = "propose" /\ f[1] = TRUE
    /\ f[2] = w.loaded /\ w.loaded \in {"mutual", "after_proposed"}

ClosingHand(k, w, f) ==
    /\ k.op = "close" /\ f[1].status \in OPEN_REPORT_STATUSES
    /\ w.to \in CLOSED_REPORT_STATUSES

-----------------------------------------------------------------------------
(* The choices in hand, guest by guest: g is what the footprint has of the *)
(* guest, the chooser's row, the guest's row, the match and whether the    *)
(* guest may be chosen.  n items of the list have been passed.             *)

(* Whether choosing c makes the request look at the match, if it had prev. *)
LooksAt(g, prev, c) ==
    IF c = "interested" THEN g[2] = "interested" ELSE prev = "interested"

(* What becomes of the match as an object of the session.                  *)
ResAfter(res, g, prev, c) ==
    LET object == IF res.now \in {"unread", "absent"}
                  THEN [was |-> g[3], now |-> g[3]] ELSE res
    IN  IF ~LooksAt(g, prev, c) \/ Added(res) THEN res
        ELSE [was |-> object.was,
              now |-> Rematch(object.now, "interested", "interested", c)]

Passed(items, x, n) == {j \in Positions(items, x) : j <= n}

OwnAs(g, c) == [was |-> g[1], now |-> c]

OnceHand(items, i, g, own, res) ==
    /\ own = OwnAs(g, items[i].what)
    /\ res = ResAfter(Unread, g, g[1], items[i].what)

TwiceHand(items, i, j, g, own, res) ==
    LET first == ResAfter(Unread, g, g[1], items[i].what)
    IN  /\ g[1] # "absent"
        /\ own = OwnAs(g, items[j].what)
        /\ LooksAt(g, items[i].what, items[j].what) /\ Added(first)
              => items[j].what # "interested"
        /\ res = ResAfter(first, g, items[i].what, items[j].what)

GuestHand(items, x, n, g, own, res) ==
    \/ Passed(items, x, n) = {} /\ own = Unread /\ res = Unread
    \/ \E i \in DOMAIN items :
          Passed(items, x, n) = {i} /\ OnceHand(items, i, g, own, res)
    \/ \E i, j \in DOMAIN items :
          /\ i < j /\ Passed(items, x, n) = {i, j}
          /\ TwiceHand(items, i, j, g, own, res)

(* What the request had for x before item n + 1: prev, in the choice's row *)
(* or as the object of an earlier item, and res.                           *)
Before(items, x, n, g, prev, res) ==
    \/ Passed(items, x, n) = {} /\ prev = g[1] /\ res = Unread
    \/ \E i \in DOMAIN items :
          /\ Passed(items, x, n) = {i} /\ g[1] # "absent"
          /\ prev = items[i].what
          /\ res = ResAfter(Unread, g, g[1], items[i].what)

(* Item n + 1 has been chosen, its match not yet looked at.                *)
ItemHand(p, items, x, n, g, own, res) ==
    \E prev \in ChoiceType \cup {"absent"} :
        /\ Before(items, x, n, g, prev, res)
        /\ own = OwnAs(g, items[n + 1].what)
        /\ p = "read_reverse" => items[n + 1].what = "interested"
        /\ p = "read_match" => LooksAt(g, prev, items[n + 1].what)

Guest(g) ==
    /\ g[1] \in ChoiceType \cup {"absent"} /\ g[2] \in ChoiceType \cup {"absent"}
    /\ g[3] \in Statuses /\ g[4] = TRUE

ItemsPassed(p, k, w) == IF p = "store_choices" THEN Len(k.items) ELSE w.at - 1

InItem(p, k, w, x) == p \in {"read_reverse", "read_match"} /\ x = k.items[w.at].to

GuestsHand(p, k, w, G) ==
    \A x \in Named(k.items) :
        /\ Guest(G[x])
        /\ IF InItem(p, k, w, x)
           THEN ItemHand(p, k.items, x, w.at - 1, G[x], w.own[x], w.res[x])
           ELSE GuestHand(k.items, x, ItemsPassed(p, k, w), G[x], w.own[x], w.res[x])

MayList(items) ==
    /\ items # <<>>
    /\ \A x \in Named(items) : \E cs \in ChoiceLists : ChosenFor(items, x, cs)

ChoiceHand(p, k, w, f) ==
    /\ k.op = "choose" /\ f[1] = TRUE /\ f[2] \in CHOICE_OPEN_STATUSES /\ f[3] = TRUE
    /\ MayList(k.items) /\ GuestsHand(p, k, w, f[4])

InHand(p, k, w, f) ==
    /\ p \in {"list_checkins", "store_openings"} => OpenHand(p, k, w, f)
    /\ p = "store_checkin" => CheckinHand(k, f)
    /\ p \in {"read_attendance", "store_session"} => StartHand(p, k, w, f)
    /\ p \in {"list_rounds", "store_advance", "store_end"} => RoundsHand(p, k, w, f)
    /\ p \in Choosing => ChoiceHand(p, k, w, f)
    /\ p = "store_proposal" => ProposalHand(k, w, f)
    /\ p = "store_feedback" => k.op = "feedback" /\ f[1] = TRUE
    /\ p = "store_report" => k.op = "report" /\ f[1] = TRUE
    /\ p = "store_closing" => ClosingHand(k, w, f)

HandInv ==
    \A s \in Slots :
        /\ ~touched[s] => InHand(pc[s], task[s], view[s], Footprint(s))
        /\ pc[s] \in Choosing => profile[task[s].user] # NoProfile

-----------------------------------------------------------------------------
(* A list of choices, one item at a time.                                  *)

(* What one more item does to a guest's share of the list.                 *)
LEMMA PassedOn ==
    ASSUME NEW items, NEW x, NEW n \in Nat,
           DOMAIN items \subseteq Nat, n + 1 \in DOMAIN items
    PROVE  Passed(items, x, n + 1) =
              IF items[n + 1].to = x THEN Passed(items, x, n) \cup {n + 1}
              ELSE Passed(items, x, n)
<1>1. \A j \in DOMAIN items : j <= n + 1 <=> j <= n \/ j = n + 1
  OBVIOUS
<1> QED
  BY <1>1 DEF Passed, Positions

(* Before an item for a guest at most one item for the guest is passed.    *)
LEMMA NoThird ==
    ASSUME NEW items, MayList(items), NEW x, NEW n \in Nat,
           DOMAIN items \subseteq Nat, n + 1 \in DOMAIN items, items[n + 1].to = x,
           NEW i \in DOMAIN items, NEW j \in DOMAIN items, i < j,
           Passed(items, x, n) = {i, j}
    PROVE  FALSE
<1>1. x \in Named(items)
  BY DEF Named
<1>2. PICK cs \in ChoiceLists : ChosenFor(items, x, cs)
  BY <1>1 DEF MayList
<1>3. PICK a \in DOMAIN items, b \in DOMAIN items : Positions(items, x) = {a, b}
  BY <1>2 DEF ChosenFor
<1>4. {i, j} \subseteq {a, b} /\ n + 1 \in {a, b} /\ i <= n /\ j <= n
  BY <1>3 DEF Passed, Positions
<1>5. i # j /\ n + 1 # i /\ n + 1 # j
  BY <1>4
<1> QED
  BY <1>4, <1>5

IsList(items) ==
    /\ DOMAIN items \subseteq Nat \ {0}
    /\ \A j \in DOMAIN items : items[j].what \in ChoiceType

LEMMA ItemIsDone ==
    ASSUME NEW items, IsList(items), NEW n \in Nat, n + 1 \in DOMAIN items,
           NEW x, items[n + 1].to = x, NEW g, NEW prev, NEW res,
           Before(items, x, n, g, prev, res),
           LooksAt(g, prev, items[n + 1].what) /\ Added(res)
              => items[n + 1].what # "interested"
    PROVE  GuestHand(items, x, n + 1, g, OwnAs(g, items[n + 1].what),
                     ResAfter(res, g, prev, items[n + 1].what))
<1>1. Passed(items, x, n + 1) = Passed(items, x, n) \cup {n + 1}
  BY PassedOn DEF IsList
<1>2. CASE Passed(items, x, n) = {} /\ prev = g[1] /\ res = Unread
  BY <1>1, <1>2 DEF GuestHand, OnceHand
<1>3. ASSUME NEW i \in DOMAIN items,
             Passed(items, x, n) = {i}, g[1] # "absent", prev = items[i].what,
             res = ResAfter(Unread, g, g[1], items[i].what)
      PROVE  GuestHand(items, x, n + 1, g, OwnAs(g, items[n + 1].what),
                       ResAfter(res, g, prev, items[n + 1].what))
  <2>1. i < n + 1
    BY <1>3 DEF Passed, IsList
  <2>2. Passed(items, x, n + 1) = {i, n + 1}
    BY <1>1, <1>3
  <2>3. TwiceHand(items, i, n + 1, g, OwnAs(g, items[n + 1].what),
                  ResAfter(res, g, prev, items[n + 1].what))
    BY <1>3 DEF TwiceHand
  <2> QED
    BY <2>1, <2>2, <2>3 DEF GuestHand
<1> QED
  BY <1>2, <1>3 DEF Before

(* The statement that reads the choice.                                    *)
ItemRead(items, x, n, g, object, res) ==
    \E prev \in ChoiceType \cup {"absent"} :
        object = OwnAs(g, prev) /\ Before(items, x, n, g, prev, res)

LEMMA ItemChosen ==
    ASSUME NEW items, IsList(items), MayList(items), NEW n \in Nat,
           n + 1 \in DOMAIN items,
           NEW x, items[n + 1].to = x, NEW g, Guest(g), NEW own, NEW res,
           GuestHand(items, x, n, g, own, res), ~Added(own),
           NEW object,
           own = Unread => object = OwnAs(g, g[1]), own # Unread => object = own
    PROVE  ItemRead(items, x, n, g, object, res)
<1> DEFINE Good == \E prev \in ChoiceType \cup {"absent"} :
                      object = OwnAs(g, prev) /\ Before(items, x, n, g, prev, res)
<1>1. CASE Passed(items, x, n) = {} /\ own = Unread /\ res = Unread
  <2>1. /\ g[1] \in ChoiceType \cup {"absent"} /\ object = OwnAs(g, g[1])
        /\ Before(items, x, n, g, g[1], res)
    BY <1>1 DEF Guest, Before
  <2> QED
    BY <2>1 DEF ItemRead
<1>2. ASSUME NEW i \in DOMAIN items,
             Passed(items, x, n) = {i}, OnceHand(items, i, g, own, res)
      PROVE  Good
  <2>1. /\ own = [was |-> g[1], now |-> items[i].what]
        /\ items[i].what \in ChoiceType
        /\ g[1] \in ChoiceType \cup {"absent"}
    BY <1>2 DEF OnceHand, OwnAs, IsList, Guest
  <2>2. object = own
    <3>1. own # Unread
      BY <2>1 DEF Unread, ChoiceType
    <3> QED
      BY <3>1
  <2>3. g[1] # "absent"
    BY <2>1 DEF Added, ChoiceType
  <2>4. Before(items, x, n, g, items[i].what, res)
    BY <1>2, <2>3 DEF Before, OnceHand
  <2> QED
    BY <2>1, <2>2, <2>4 DEF OwnAs
<1>3. ASSUME NEW i \in DOMAIN items, NEW j \in DOMAIN items,
             i < j, Passed(items, x, n) = {i, j}
      PROVE  FALSE
  BY <1>3, NoThird DEF IsList
<1> QED
  BY <1>1, <1>2, <1>3 DEF GuestHand, ItemRead

ElsewhereSame(k, w, v) ==
    \A y \in Named(k.items) \ {k.items[w.at].to} :
        v.own[y] = w.own[y] /\ v.res[y] = w.res[y]

LEMMA ListShape ==
    ASSUME NEW k, NEW w, ListFits(k, w)
    PROVE  /\ w.at \in 1..Len(k.items) /\ Len(k.items) \in Nat
           /\ DOMAIN k.items = 1..Len(k.items) /\ w.at \in DOMAIN k.items
           /\ w.at - 1 \in Nat /\ (w.at - 1) + 1 = w.at
           /\ k.items[w.at].to \in Named(k.items)
           /\ IsList(k.items)
<1> DEFINE I == [to : Users \ {k.user}, what : ChoiceType]
<1>1. k.items \in Seq(I) /\ w.at \in 1..Len(k.items)
  BY DEF ListFits
<1>2. \A j \in DOMAIN k.items : k.items[j] \in I
  <2> HIDE DEF I
  <2> QED
    BY <1>1
<1>3. \A j \in DOMAIN k.items : k.items[j].what \in ChoiceType
  BY <1>2
<1> HIDE DEF I
<1>4. /\ Len(k.items) \in Nat /\ DOMAIN k.items = 1..Len(k.items)
      /\ w.at \in DOMAIN k.items /\ w.at \in Nat \ {0}
  BY <1>1
<1>5. w.at - 1 \in Nat /\ (w.at - 1) + 1 = w.at
  BY <1>4
<1> QED
  BY <1>1, <1>3, <1>4, <1>5 DEF IsList, Named

LEMMA HandPassesItem ==
    ASSUME NEW p \in AtItem, NEW k, NEW w, NEW v, NEW G, ListFits(k, w),
           GuestsHand(p, k, w, G), ElsewhereSame(k, w, v),
           v.at = IF w.at < Len(k.items) THEN w.at + 1 ELSE w.at,
           GuestHand(k.items, k.items[w.at].to, w.at, G[k.items[w.at].to],
                     v.own[k.items[w.at].to], v.res[k.items[w.at].to])
    PROVE  GuestsHand(IF w.at < Len(k.items) THEN "read_choice" ELSE "store_choices",
                      k, v, G)
<1> DEFINE q == IF w.at < Len(k.items) THEN "read_choice" ELSE "store_choices"
           x == k.items[w.at].to
           n == w.at - 1
<1>1. /\ w.at \in 1..Len(k.items) /\ Len(k.items) \in Nat
      /\ n \in Nat /\ n + 1 = w.at /\ n + 1 \in DOMAIN k.items
      /\ DOMAIN k.items \subseteq Nat
  BY ListShape DEF IsList
<1>2. ItemsPassed(q, k, v) = w.at
  BY <1>1 DEF ItemsPassed
<1>3. \A y : ~InItem(q, k, v, y)
  BY DEF InItem
<1>4. ItemsPassed(p, k, w) = n
  BY DEF ItemsPassed, AtItem
<1>5. ASSUME NEW y \in Named(k.items)
      PROVE  Guest(G[y]) /\ GuestHand(k.items, y, w.at, G[y], v.own[y], v.res[y])
  <2>1. CASE y = x
    BY <2>1 DEF GuestsHand
  <2>2. CASE y # x
    <3>1. ~InItem(p, k, w, y)
      BY <2>2 DEF InItem
    <3>2. Guest(G[y]) /\ GuestHand(k.items, y, n, G[y], w.own[y], w.res[y])
      BY <1>4, <3>1 DEF GuestsHand
    <3>3. Passed(k.items, y, w.at) = Passed(k.items, y, n)
      <4>1. k.items[n + 1].to # y
        BY <1>1, <2>2
      <4> HIDE DEF n
      <4>2. Passed(k.items, y, n + 1) = Passed(k.items, y, n)
        BY <1>1, <4>1, PassedOn
      <4> QED
        BY <1>1, <4>2
    <3>4. v.own[y] = w.own[y] /\ v.res[y] = w.res[y]
      BY <2>2 DEF ElsewhereSame
    <3> QED
      BY <3>2, <3>3, <3>4 DEF GuestHand
  <2> QED
    BY <2>1, <2>2
<1> HIDE DEF q
<1>6. GuestsHand(q, k, v, G)
  BY <1>2, <1>3, <1>5 DEF GuestsHand
<1> QED
  BY <1>6 DEF q

LEMMA HandStaysAtItem ==
    ASSUME NEW p \in AtItem, NEW q \in {"read_reverse", "read_match"},
           NEW k, NEW w, NEW v, NEW G, ListFits(k, w),
           GuestsHand(p, k, w, G), ElsewhereSame(k, w, v), v.at = w.at,
           ItemHand(q, k.items, k.items[w.at].to, w.at - 1, G[k.items[w.at].to],
                    v.own[k.items[w.at].to], v.res[k.items[w.at].to])
    PROVE  GuestsHand(q, k, v, G)
<1> DEFINE x == k.items[w.at].to
<1>1. ItemsPassed(p, k, w) = w.at - 1 /\ ItemsPassed(q, k, v) = w.at - 1
  BY DEF ItemsPassed, AtItem
<1>2. \A y : InItem(q, k, v, y) <=> y = x
  BY DEF InItem
<1>3. ASSUME NEW y \in Named(k.items), y # x
      PROVE  GuestHand(k.items, y, ItemsPassed(q, k, v), G[y], v.own[y], v.res[y])
  <2>1. ~InItem(p, k, w, y)
    BY <1>3 DEF InItem
  <2>2. GuestHand(k.items, y, w.at - 1, G[y], w.own[y], w.res[y])
    BY <1>1, <2>1 DEF GuestsHand
  <2>3. v.own[y] = w.own[y] /\ v.res[y] = w.res[y]
    BY <1>3 DEF ElsewhereSame
  <2> QED
    BY <1>1, <2>2, <2>3
<1>4. \A y \in Named(k.items) : Guest(G[y])
  BY DEF GuestsHand
<1>5. ItemHand(q, k.items, x, v.at - 1, G[x], v.own[x], v.res[x])
  OBVIOUS
<1> HIDE DEF x
<1> QED
  BY <1>2, <1>3, <1>4, <1>5 DEF GuestsHand

LEMMA ObjectPut ==
    ASSUME NEW k, NEW w, ListFits(k, w), NEW o
    PROVE  LET x == k.items[w.at].to
               a == PutOwn(k, w, o)
               b == PutRes(k, w, o)
           IN  /\ a.own[x] = o /\ a.res = w.res /\ a.at = w.at
               /\ ElsewhereSame(k, w, a)
               /\ b.res[x] = o /\ b.own = w.own /\ b.at = w.at
               /\ ElsewhereSame(k, w, b)
<1> DEFINE x == k.items[w.at].to
           a == PutOwn(k, w, o)
           b == PutRes(k, w, o)
<1>1. /\ w \in [own : [Named(k.items) -> AnyObject(ChoiceType)],
                res : [Named(k.items) -> AnyObject(Statuses)],
                at : 1..Len(k.items)]
      /\ x \in Named(k.items)
  BY ListGoesOn DEF ListFits
<1>2. a = [w EXCEPT !.own[x] = o] /\ b = [w EXCEPT !.res[x] = o]
  BY DEF PutOwn, PutRes
<1> HIDE DEF a, b, x
<1>3. /\ a.own[x] = o /\ a.res = w.res /\ a.at = w.at
      /\ b.res[x] = o /\ b.own = w.own /\ b.at = w.at
  BY <1>1, <1>2
<1>4. \A y \in Named(k.items) \ {x} : a.own[y] = w.own[y] /\ b.res[y] = w.res[y]
  BY <1>1, <1>2
<1>5. ElsewhereSame(k, w, a) /\ ElsewhereSame(k, w, b)
  BY <1>3, <1>4 DEF ElsewhereSame, x
<1> QED
  BY <1>3, <1>5 DEF a, b, x

-----------------------------------------------------------------------------
(* What the footprint of a request says.                                   *)

LEMMA ChoiceFootprint ==
    ASSUME NEW s, task[s].op = "choose"
    PROVE  /\ (Footprint(s)[1] = TRUE) <=> Active(task[s].user)
           /\ Footprint(s)[2] = status[task[s].room]
           /\ (Footprint(s)[3] = TRUE) <=> Attended(task[s].room, task[s].user)
           /\ DOMAIN Footprint(s)[4] = Named(task[s].items)
<1> DEFINE r == task[s].room
           u == task[s].user
           seen == [v \in Named(task[s].items) |-> <<choice[r][u][v], choice[r][v][u],
                      match[r][{u, v}], v \in ValidTargets(r, u)>>]
           active == Active(u)
           attended == Attended(r, u)
<1>1. Footprint(s) = <<active, status[r], attended, seen>>
  BY DEF Footprint
<1>2. DOMAIN seen = Named(task[s].items)
  OBVIOUS
<1> HIDE DEF seen, active, attended
<1>3. /\ Footprint(s)[1] = active /\ Footprint(s)[2] = status[r]
      /\ Footprint(s)[3] = attended /\ Footprint(s)[4] = seen
  BY <1>1
<1> QED
  BY <1>2, <1>3 DEF active, attended

LEMMA GuestFootprint ==
    ASSUME NEW s, task[s].op = "choose", NEW x \in Named(task[s].items)
    PROVE  /\ Footprint(s)[4][x][1] = choice[task[s].room][task[s].user][x]
           /\ Footprint(s)[4][x][2] = choice[task[s].room][x][task[s].user]
           /\ Footprint(s)[4][x][3] = match[task[s].room][{task[s].user, x}]
           /\ (Footprint(s)[4][x][4] = TRUE)
                 <=> x \in ValidTargets(task[s].room, task[s].user)
<1> DEFINE r == task[s].room
           u == task[s].user
           seen == [v \in Named(task[s].items) |-> <<choice[r][u][v], choice[r][v][u],
                      match[r][{u, v}], v \in ValidTargets(r, u)>>]
           all == <<Active(u), status[r], Attended(r, u), seen>>
           valid == x \in ValidTargets(r, u)
           a == choice[r][u][x]
           b == choice[r][x][u]
           m == match[r][{u, x}]
<1>1. Footprint(s) = all
  BY DEF Footprint
<1>2. seen[x] = <<a, b, m, valid>>
  OBVIOUS
<1> HIDE DEF seen
<1>3. all[4] = seen
  OBVIOUS
<1> HIDE DEF all
<1>4. Footprint(s)[4] = seen
  BY <1>1, <1>3
<1> HIDE DEF valid, a, b, m
<1>5. /\ Footprint(s)[4][x][1] = a /\ Footprint(s)[4][x][2] = b
      /\ Footprint(s)[4][x][3] = m /\ Footprint(s)[4][x][4] = valid
  BY <1>2, <1>4
<1> QED
  BY <1>5 DEF valid, a, b, m

(* What the components of a footprint are, by operation.                   *)
FootprintSays(s) ==
    LET f == Footprint(s)
        k == task[s]
        r == k.room
        u == k.user
        x == k.other
    IN  /\ k.op \in {"open", "confirm", "miss", "start", "next", "end"} =>
              ((f[1] = TRUE) <=> PlannerActs(r, u))
        /\ k.op = "open" =>
              f[2] = status[r] /\ f[3] = ConfirmedIn(application[r]) /\ f[4] = checkin[r]
        /\ k.op \in {"confirm", "miss"} => f[2] = checkin[r][x]
        /\ k.op = "start" =>
              /\ f[2] = status[r] /\ f[3] = session[r]
              /\ f[4] = CheckedInOf(r, "male") /\ f[5] = CheckedInOf(r, "female")
        /\ k.op \in {"next", "end"} => f[2] = session[r] /\ f[3] = rounds[r]
        /\ k.op = "choose" =>
              /\ (f[1] = TRUE) <=> Active(u)
              /\ f[2] = status[r]
              /\ (f[3] = TRUE) <=> Attended(r, u)
              /\ \A v \in Named(k.items) :
                    /\ f[4][v][1] = choice[r][u][v] /\ f[4][v][2] = choice[r][v][u]
                    /\ f[4][v][3] = match[r][{u, v}]
                    /\ (f[4][v][4] = TRUE) <=> v \in ValidTargets(r, u)
        /\ k.op = "propose" => ((f[1] = TRUE) <=> Active(u)) /\ f[2] = match[r][{u, x}]
        /\ k.op = "feedback" => ((f[1] = TRUE) <=> MayGiveFeedback(r, u))
        /\ k.op = "report" => ((f[1] = TRUE) <=> MayReport(view[s].complaint))
        /\ k.op = "close" => f[1] = report[x]

LEMMA FootprintKnown == ASSUME NEW s PROVE FootprintSays(s)
<1> DEFINE k == task[s]
           f == Footprint(s)
           acts == PlannerActs(k.room, k.user)
           active == Active(k.user)
           feeds == MayGiveFeedback(k.room, k.user)
           reports == MayReport(view[s].complaint)
<1>1. k.op = "open" =>
         f = <<acts, status[k.room], ConfirmedIn(application[k.room]), checkin[k.room]>>
  BY DEF Footprint
<1>2. k.op \in {"confirm", "miss"} => f = <<acts, checkin[k.room][k.other]>>
  BY DEF Footprint
<1>3. k.op = "start" =>
         f = <<acts, status[k.room], session[k.room],
               CheckedInOf(k.room, "male"), CheckedInOf(k.room, "female")>>
  BY DEF Footprint
<1>4. k.op \in {"next", "end"} => f = <<acts, session[k.room], rounds[k.room]>>
  BY DEF Footprint
<1>5. k.op = "propose" => f = <<active, match[k.room][{k.user, k.other}]>>
  BY DEF Footprint
<1>6. k.op = "feedback" => f = <<feeds>>
  BY DEF Footprint
<1>7. k.op = "report" => f = <<reports>>
  BY DEF Footprint
<1>8. k.op = "close" => f = <<report[k.other]>>
  BY DEF Footprint
<1> HIDE DEF f, acts, active, feeds, reports
<1>9. /\ k.op \in {"open", "confirm", "miss", "start", "next", "end"} => f[1] = acts
      /\ k.op = "open" => /\ f[2] = status[k.room] /\ f[4] = checkin[k.room]
                          /\ f[3] = ConfirmedIn(application[k.room])
      /\ k.op \in {"confirm", "miss"} => f[2] = checkin[k.room][k.other]
  BY <1>1, <1>2, <1>3, <1>4
<1>10. /\ k.op = "start" => /\ f[2] = status[k.room] /\ f[3] = session[k.room]
                            /\ f[4] = CheckedInOf(k.room, "male")
                            /\ f[5] = CheckedInOf(k.room, "female")
       /\ k.op \in {"next", "end"} =>
             f[2] = session[k.room] /\ f[3] = rounds[k.room]
  BY <1>3, <1>4
<1>11. /\ k.op = "propose" =>
             f[1] = active /\ f[2] = match[k.room][{k.user, k.other}]
       /\ k.op = "feedback" => f[1] = feeds
       /\ k.op = "report" => f[1] = reports
       /\ k.op = "close" => f[1] = report[k.other]
  BY <1>5, <1>6, <1>7, <1>8
<1>12. k.op = "choose" =>
          /\ (f[1] = TRUE) <=> active
          /\ f[2] = status[k.room]
          /\ (f[3] = TRUE) <=> Attended(k.room, k.user)
          /\ \A v \in Named(k.items) :
                /\ f[4][v][1] = choice[k.room][k.user][v]
                /\ f[4][v][2] = choice[k.room][v][k.user]
                /\ f[4][v][3] = match[k.room][{k.user, v}]
                /\ (f[4][v][4] = TRUE) <=> v \in ValidTargets(k.room, k.user)
  BY ChoiceFootprint, GuestFootprint DEF f, active
<1> QED
  BY <1>9, <1>10, <1>11, <1>12 DEF FootprintSays, f, acts, active, feeds, reports

LEMMA FootprintNext == ASSUME NEW s PROVE FootprintSays(s) /\ FootprintSays(s)'
<1>1. FootprintSays(s)
  BY FootprintKnown
<1> QED
  BY <1>1, PTL

LEMMA ListFitsIn ==
    ASSUME RequestsInv, NEW s \in Slots, pc[s] \in Choosing
    PROVE  ListFits(task[s], view[s])
BY DEF RequestsInv, Fits

LEMMA ChoosingHand ==
    ASSUME SlotMaps, RequestsInv, NEW s \in Slots,
           ReadChoice(s) \/ ReadReverse(s) \/ ReadMatch(s),
           ChoiceHand(pc[s], task[s], view[s], Footprint(s))
    PROVE  ChoiceHand(pc'[s], task[s], view'[s], Footprint(s)) /\ pc'[s] \in Choosing
<1> DEFINE k == task[s]
           w == view[s]
           f == Footprint(s)
           G == f[4]
           x == k.items[w.at].to
           c == k.items[w.at].what
           n == w.at - 1
           next == IF w.at < Len(k.items) THEN "read_choice" ELSE "store_choices"
           Good == ChoiceHand(pc'[s], k, view'[s], f) /\ pc'[s] \in Choosing
<1> SUFFICES Good
  OBVIOUS
<1>1. pc[s] \in AtItem
  BY DEF ReadChoice, ReadReverse, ReadMatch, AtItem
<1>2. ListFits(k, w)
  BY <1>1, ListFitsIn DEF AtItem, Choosing
<1>3. /\ GuestsHand(pc[s], k, w, G) /\ MayList(k.items) /\ k.op = "choose"
  BY DEF ChoiceHand
<1>4. /\ n \in Nat /\ n + 1 = w.at /\ n + 1 \in DOMAIN k.items
      /\ x \in Named(k.items) /\ IsList(k.items)
  BY <1>2, ListShape
<1>5. Item(s) = k.items[w.at] /\ AfterItem(s) = next
  BY DEF Item, AfterItem
<1>6. /\ G[x][1] = choice[k.room][k.user][x] /\ G[x][2] = choice[k.room][x][k.user]
      /\ G[x][3] = match[k.room][{k.user, x}]
  <2>1. task[s].op = "choose" /\ x \in Named(task[s].items)
    BY <1>3, <1>4
  <2> HIDE DEF x
  <2> QED
    BY <2>1, GuestFootprint
<1>7. Guest(G[x])
  BY <1>3, <1>4 DEF GuestsHand
<1>8. ASSUME NEW v, NEW q \in Choosing, pc'[s] = q, view'[s] = v, GuestsHand(q, k, v, G)
      PROVE  Good
  BY <1>8 DEF ChoiceHand
<1> HIDE DEF Good, f, G, next
(* The item is done, with the objects of v.                                *)
<1>9. ASSUME NEW v, Proceed(s, NextItem(s, v), AfterItem(s)), ListFits(k, v),
             v.at = w.at, ElsewhereSame(k, w, v),
             GuestHand(k.items, x, n + 1, G[x], v.own[x], v.res[x])
      PROVE  Good
  <2> DEFINE u == NextItem(s, v)
  <2>1. /\ u.own = v.own /\ u.res = v.res
        /\ u.at = IF w.at < Len(k.items) THEN w.at + 1 ELSE w.at
    BY <1>9, NextItemShape
  <2>2. pc'[s] = next /\ view'[s] = u
    <3> DEFINE where == AfterItem(s)
    <3>1. Proceed(s, u, where) /\ where = next
      BY <1>5, <1>9
    <3> HIDE DEF u, where
    <3> QED
      BY <3>1, ProceedShape
  <2> HIDE DEF u
  <2>3. ElsewhereSame(k, w, u)
    BY <1>9, <2>1 DEF ElsewhereSame
  <2>4. GuestHand(k.items, x, w.at, G[x], u.own[x], u.res[x])
    BY <1>4, <1>9, <2>1
  <2>5. GuestsHand(next, k, u, G)
    BY <1>1, <1>2, <1>3, <2>1, <2>3, <2>4, HandPassesItem DEF next
  <2>6. next \in Choosing
    BY DEF next, Choosing
  <2> QED
    BY <1>8, <2>2, <2>5, <2>6
(* It goes on to another statement.                                        *)
<1>10. ASSUME NEW v, NEW q \in {"read_reverse", "read_match"}, Proceed(s, v, q),
              v.at = w.at, ElsewhereSame(k, w, v),
              ItemHand(q, k.items, x, n, G[x], v.own[x], v.res[x])
       PROVE  Good
  <2>1. GuestsHand(q, k, v, G)
    BY <1>1, <1>2, <1>3, <1>10, HandStaysAtItem
  <2>2. pc'[s] = q /\ view'[s] = v /\ q \in Choosing
    BY <1>10, ProceedShape DEF Choosing
  <2> QED
    BY <1>8, <2>1, <2>2
<1>11. ASSUME NEW p \in {"read_reverse", "read_match"}, pc[s] = p
       PROVE  ItemHand(p, k.items, x, n, G[x], w.own[x], w.res[x])
  <2>1. InItem(p, k, w, x)
    BY DEF InItem
  <2> QED
    BY <1>3, <1>4, <1>11, <2>1 DEF GuestsHand
<1>12. ElsewhereSame(k, w, w)
  BY DEF ElsewhereSame
<1>13. CASE ReadChoice(s)
  <2> DEFINE own == w.own[x]
             row == choice[k.room][k.user][x]
             object == IF own = Unread THEN [was |-> row, now |-> row] ELSE own
             new == [object EXCEPT !.now = c]
             seen == PutOwn(k, w, new)
  <2>1. /\ pc[s] = "read_choice" /\ ~Added(own)
        /\ \/ c = "interested" /\ Proceed(s, seen, "read_reverse")
           \/ /\ c # "interested" /\ object.now = "interested"
              /\ Proceed(s, seen, "read_match")
           \/ /\ "interested" \notin {c, object.now}
              /\ Proceed(s, NextItem(s, seen), AfterItem(s))
    BY <1>13 DEF ReadChoice, Item, PutOwn
  <2>2. GuestHand(k.items, x, n, G[x], own, w.res[x])
    <3>1. ~InItem(pc[s], k, w, x) /\ ItemsPassed(pc[s], k, w) = n
      BY <2>1 DEF InItem, ItemsPassed
    <3> QED
      BY <1>3, <1>4, <3>1 DEF GuestsHand
  <2>3. PICK prev \in ChoiceType \cup {"absent"} :
           object = OwnAs(G[x], prev) /\ Before(k.items, x, n, G[x], prev, w.res[x])
    <3>1. k.items[n + 1].to = x
      BY <1>4
    <3>2. object = IF own = Unread THEN [was |-> G[x][1], now |-> G[x][1]] ELSE own
      BY <1>6
    <3> DEFINE items == k.items
               g == G[x]
               res == w.res[x]
    <3>4. /\ n \in Nat /\ n + 1 \in DOMAIN items /\ IsList(items) /\ Guest(g)
          /\ GuestHand(items, x, n, g, own, res) /\ items[n + 1].to = x
          /\ ~Added(own) /\ MayList(items)
          /\ own = Unread => object = OwnAs(g, g[1])
          /\ own # Unread => object = own
      BY <1>3, <1>4, <1>7, <2>1, <2>2, <3>1, <3>2 DEF OwnAs
    <3> HIDE DEF items, g, res, x, n, own, object
    <3>5. ItemRead(items, x, n, g, object, res)
      BY <3>4, ItemChosen
    <3> QED
      BY <3>5 DEF items, g, res, ItemRead
  <2>10. new = OwnAs(G[x], c) /\ object.now = prev
    <3>1. object = [was |-> G[x][1], now |-> prev]
      BY <2>3 DEF OwnAs
    <3> HIDE DEF object, x, c
    <3> QED
      BY <3>1 DEF OwnAs
  <2> HIDE DEF own, object, new
  <2>4. /\ seen.own[x] = new /\ seen.res = w.res /\ seen.at = w.at
        /\ ElsewhereSame(k, w, seen)
    BY <1>2, ObjectPut
  <2>5. ListFits(k, seen)
    <3>1. new \in AnyObject(ChoiceType)
      <4>1. c \in ChoiceType /\ G[x][1] \in ChoiceType \cup {"absent"}
        BY <1>2, <1>7, ListGoesOn DEF Guest
      <4> QED
        BY <2>10, <4>1 DEF AnyObject, OwnAs
    <3> QED
      BY <1>2, <3>1, ListGoesOn DEF PutOwn
  <2> HIDE DEF seen
  <2>6. ASSUME NEW q, q = "read_reverse" => c = "interested",
               q = "read_match" => LooksAt(G[x], prev, c)
        PROVE  ItemHand(q, k.items, x, n, G[x], seen.own[x], seen.res[x])
    <3>1. k.items[n + 1].what = c
      BY <1>4
    <3> HIDE DEF x, c, n
    <3> QED
      BY <2>3, <2>4, <2>6, <2>10, <3>1 DEF ItemHand
  <2>7. CASE c = "interested" /\ Proceed(s, seen, "read_reverse")
    BY <1>10, <2>4, <2>6, <2>7
  <2>8. CASE c # "interested" /\ prev = "interested" /\ Proceed(s, seen, "read_match")
    <3>1. LooksAt(G[x], prev, c)
      BY <2>8 DEF LooksAt
    <3> QED
      BY <1>10, <2>4, <2>6, <2>8, <3>1
  <2>9. CASE /\ "interested" \notin {c, prev}
             /\ Proceed(s, NextItem(s, seen), AfterItem(s))
    <3>1. ~LooksAt(G[x], prev, c)
      BY <2>9 DEF LooksAt
    <3>2. k.items[n + 1].to = x /\ k.items[n + 1].what = c
      BY <1>4
    <3>3. ResAfter(w.res[x], G[x], prev, c) = w.res[x]
      BY <3>1 DEF ResAfter
    <3>4. GuestHand(k.items, x, n + 1, G[x], seen.own[x], seen.res[x])
      <4> HIDE DEF x, c, n
      <4> QED
        BY <1>4, <2>3, <2>4, <2>10, <3>1, <3>2, <3>3, ItemIsDone
    <3> QED
      BY <1>9, <2>4, <2>5, <2>9, <3>4
  <2> QED
    BY <2>1, <2>7, <2>8, <2>9, <2>10
<1>14. CASE ReadReverse(s)
  <2>1. /\ pc[s] = "read_reverse"
        /\ IF G[x][2] = "interested"
           THEN Proceed(s, w, "read_match")
           ELSE Proceed(s, NextItem(s, w), AfterItem(s))
    <3>1. Item(s).to = x /\ choice[k.room][x][k.user] = G[x][2]
      BY <1>5, <1>6
    <3> QED
      BY <1>5, <1>14, <3>1 DEF ReadReverse
  <2>2. PICK prev \in ChoiceType \cup {"absent"} :
           /\ Before(k.items, x, n, G[x], prev, w.res[x])
           /\ w.own[x] = OwnAs(G[x], k.items[n + 1].what)
           /\ k.items[n + 1].what = "interested"
    BY <1>11, <2>1 DEF ItemHand
  <2>3. CASE G[x][2] = "interested"
    <3>1. LooksAt(G[x], prev, k.items[n + 1].what)
      BY <2>2, <2>3 DEF LooksAt
    <3>2. ItemHand("read_match", k.items, x, n, G[x], w.own[x], w.res[x])
      BY <2>2, <3>1 DEF ItemHand
    <3> QED
      BY <1>10, <1>12, <2>1, <2>3, <3>2
  <2>4. CASE G[x][2] # "interested"
    <3>1. ~LooksAt(G[x], prev, k.items[n + 1].what)
      BY <2>2, <2>4 DEF LooksAt
    <3>2. ResAfter(w.res[x], G[x], prev, k.items[n + 1].what) = w.res[x]
      BY <3>1 DEF ResAfter
    <3>3. GuestHand(k.items, x, n + 1, G[x], w.own[x], w.res[x])
      <4>1. k.items[n + 1].to = x
        BY <1>4
      <4> HIDE DEF x, n
      <4> QED
        BY <1>4, <2>2, <3>1, <3>2, <4>1, ItemIsDone
    <3> QED
      BY <1>2, <1>9, <1>12, <2>1, <2>4, <3>3
  <2> QED
    BY <2>3, <2>4
<1>15. CASE ReadMatch(s)
  <2> DEFINE res == w.res[x]
             row == match[k.room][{k.user, x}]
             object == IF res.now \in {"unread", "absent"}
                       THEN [was |-> row, now |-> row] ELSE res
             after == IF Added(res) THEN res
                      ELSE [object EXCEPT !.now =
                               Rematch(@, "interested", "interested", c)]
             new == PutRes(k, w, after)
  <2>1. /\ Proceed(s, NextItem(s, new), AfterItem(s)) /\ pc[s] = "read_match"
        /\ Added(res) => c # "interested"
    BY <1>15 DEF ReadMatch, Item, PutRes
  <2>2. PICK prev \in ChoiceType \cup {"absent"} :
           /\ Before(k.items, x, n, G[x], prev, w.res[x])
           /\ w.own[x] = OwnAs(G[x], k.items[n + 1].what)
           /\ LooksAt(G[x], prev, k.items[n + 1].what)
    BY <1>11, <2>1 DEF ItemHand
  <2>3. k.items[n + 1].to = x /\ k.items[n + 1].what = c
    BY <1>4
  <2>4. res \in AnyObject(Statuses) /\ row \in Statuses
    BY <1>2, <1>4, <1>6, <1>7 DEF ListFits, Guest
  <2>5. /\ after = ResAfter(res, G[x], prev, c)
        /\ after \in AnyObject(Statuses)
    <3>1. /\ object \in [was : Statuses, now : Statuses]
          /\ res \in {Unread} \cup [was : Statuses, now : Statuses]
      <4> HIDE DEF res, row
      <4> QED
        BY <2>4 DEF AnyObject, Unread, Statuses
    <3>2. after = IF Added(res) THEN res
                  ELSE [was |-> object.was,
                        now |-> Rematch(object.now, "interested", "interested", c)]
      <4>1. \A o \in [was : Statuses, now : Statuses] :
               [o EXCEPT !.now = Rematch(@, "interested", "interested", c)] =
                  [was |-> o.was, now |-> Rematch(o.now, "interested", "interested", c)]
        OBVIOUS
      <4> HIDE DEF object, res, c
      <4> QED
        BY <3>1, <4>1
    <3>3. Rematch(object.now, "interested", "interested", c) \in Statuses
      <4>1. object.now \in Statuses
        BY <3>1
      <4> HIDE DEF object
      <4> QED
        BY <4>1, RematchTyped
    <3>4. LooksAt(G[x], prev, c)
      BY <2>2, <2>3
    <3>5. after = ResAfter(res, G[x], prev, c)
      BY <1>6, <3>2, <3>4 DEF ResAfter
    <3>6. after \in AnyObject(Statuses)
      <4> HIDE DEF object, after, res
      <4> QED
        BY <3>1, <3>2, <3>3 DEF AnyObject
    <3> QED
      BY <3>5, <3>6
  <2> HIDE DEF after, res
  <2>6. /\ new.res[x] = after /\ new.own = w.own /\ new.at = w.at
        /\ ElsewhereSame(k, w, new)
    BY <1>2, ObjectPut
  <2>7. ListFits(k, new)
    BY <1>2, <2>5, ListGoesOn DEF PutRes
  <2> HIDE DEF new
  <2>8. GuestHand(k.items, x, n + 1, G[x], new.own[x], new.res[x])
    <3>1. w.res[x] = res
      BY DEF res
    <3> HIDE DEF x, c, n
    <3> QED
      BY <1>4, <2>1, <2>2, <2>3, <2>5, <2>6, <3>1, ItemIsDone
  <2> QED
    BY <1>9, <2>1, <2>6, <2>7, <2>8
<1> QED
  BY <1>13, <1>14, <1>15

(* Any statement that reads.                                               *)
LEMMA ReadingHand ==
    ASSUME SlotMaps, RequestsInv, NEW s \in Slots, Reading(s),
           InHand(pc[s], task[s], view[s], Footprint(s))
    PROVE  InHand(pc'[s], task[s], view'[s], Footprint(s))
<1> DEFINE k == task[s]
           w == view[s]
           f == Footprint(s)
           Good == InHand(pc'[s], k, view'[s], f)
<1> SUFFICES Good
  OBVIOUS
<1>1. FootprintSays(s)
  BY FootprintNext
<1>2. CASE ListCheckins(s)
  <2> DEFINE v == [missing |-> {u \in w.roster : checkin[k.room][u] = "none"},
                   unopened |-> {u \in w.roster : checkin[k.room][u] = "not_open"}]
  <2>1. pc[s] = "list_checkins" /\ Proceed(s, v, "store_openings")
    BY <1>2 DEF ListCheckins
  <2>2. OpenHand("list_checkins", k, w, f)
    BY <2>1 DEF InHand
  <2>3. /\ k.op = "open" /\ f[1] = TRUE /\ f[2] = "confirmed" /\ f[3] # {}
        /\ w.roster = f[3] /\ f[4] = checkin[k.room]
    BY <1>1, <2>2 DEF OpenHand, FootprintSays
  <2>4. /\ v.missing = {u \in f[3] : f[4][u] = "none"}
        /\ v.unopened = {u \in f[3] : f[4][u] = "not_open"}
    <3> HIDE DEF f
    <3> QED
      BY <2>3
  <2>5. pc'[s] = "store_openings" /\ view'[s] = v
    BY <2>1, ProceedShape
  <2> HIDE DEF f, v
  <2>6. OpenHand("store_openings", k, v, f)
    BY <2>3, <2>4 DEF OpenHand
  <2> QED
    BY <2>5, <2>6 DEF InHand, Choosing
<1>3. CASE ReadAttendance(s)
  <2> DEFINE males == CheckedInOf(k.room, "male")
             females == CheckedInOf(k.room, "female")
             v == [males |-> males, females |-> females]
  <2>1. /\ pc[s] = "read_attendance" /\ males # {} /\ females # {}
        /\ Cardinality(males) = Cardinality(females)
        /\ Proceed(s, v, "store_session")
    BY <1>3 DEF ReadAttendance
  <2>2. StartHand("read_attendance", k, w, f)
    BY <2>1 DEF InHand
  <2>3. f[4] = males /\ f[5] = females /\ v.males = males /\ v.females = females
    BY <1>1, <2>2 DEF StartHand, FootprintSays
  <2>4. pc'[s] = "store_session" /\ view'[s] = v
    BY <2>1, ProceedShape
  <2> HIDE DEF f, v, males, females
  <2>5. StartHand("store_session", k, v, f)
    BY <2>1, <2>2, <2>3 DEF StartHand
  <2> QED
    BY <2>4, <2>5 DEF InHand, Choosing
<1>4. CASE ListRounds(s)
  <2> DEFINE rows == rounds[k.room]
             v == [current |-> w.current, rows |-> rows]
             where == IF k.op = "next" THEN "store_advance" ELSE "store_end"
  <2>1. /\ pc[s] = "list_rounds"
        /\ k.op = "next" => w.current < Len(rows)
        /\ Proceed(s, v, where)
    BY <1>4 DEF ListRounds
  <2>2. RoundsHand("list_rounds", k, w, f)
    BY <2>1 DEF InHand
  <2>3. f[3] = rows /\ v.current = w.current /\ v.rows = rows
    BY <1>1, <2>2 DEF RoundsHand, FootprintSays
  <2>4. pc'[s] = where /\ view'[s] = v
    BY <2>1, ProceedShape
  <2> HIDE DEF f, v, rows
  <2>5. RoundsHand(where, k, v, f)
    BY <2>1, <2>2, <2>3 DEF RoundsHand
  <2> QED
    BY <2>4, <2>5 DEF InHand, Choosing
<1>5. CASE ReadChoice(s) \/ ReadReverse(s) \/ ReadMatch(s)
  <2>1. pc[s] \in Choosing
    BY <1>5 DEF ReadChoice, ReadReverse, ReadMatch, Choosing
  <2>2. ChoiceHand(pc'[s], k, view'[s], f) /\ pc'[s] \in Choosing
    BY <1>5, <2>1, ChoosingHand DEF InHand
  <2> HIDE DEF f
  <2> QED
    BY <2>2 DEF InHand, Choosing
<1> QED
  BY <1>2, <1>3, <1>4, <1>5 DEF Reading

-----------------------------------------------------------------------------
(* A request that arrives has found what its footprint says.               *)

Found(k, w, f) ==
    LET r == k.room
        u == k.user
        x == k.other
    IN  /\ k.op \in {"open", "confirm", "miss", "start", "next", "end"} =>
              (PlannerActs(r, u) => f[1] = TRUE)
        /\ k.op = "open" => f[2] = status[r] /\ f[3] = ConfirmedIn(application[r])
        /\ k.op \in {"confirm", "miss"} => f[2] = checkin[r][x]
        /\ k.op = "start" => f[2] = status[r] /\ f[3] = session[r]
        /\ k.op \in {"next", "end"} => f[2] = session[r] /\ f[3] = rounds[r]
        /\ k.op = "choose" =>
              /\ Active(u) => f[1] = TRUE
              /\ f[2] = status[r]
              /\ Attended(r, u) => f[3] = TRUE
              /\ \A v \in Named(k.items) :
                    /\ f[4][v][1] = choice[r][u][v] /\ f[4][v][2] = choice[r][v][u]
                    /\ f[4][v][3] = match[r][{u, v}]
                    /\ v \in ValidTargets(r, u) => f[4][v][4] = TRUE
        /\ k.op = "propose" => (Active(u) => f[1] = TRUE) /\ f[2] = match[r][{u, x}]
        /\ k.op = "feedback" => (MayGiveFeedback(r, u) => f[1] = TRUE)
        /\ k.op = "report" => (MayReport(w.complaint) => f[1] = TRUE)
        /\ k.op = "close" => f[1] = report[x]

LEMMA ArriveFootprint ==
    ASSUME NEW s, NEW k, NEW w, task'[s] = k, view'[s] = w, UNCHANGED allAftermathVars
    PROVE  Found(k, w, Footprint(s)')
<1> DEFINE f == Footprint(s)'
           r == k.room
           u == k.user
           x == k.other
<1>1. FootprintSays(s)'
  BY FootprintNext
<1>2. UNCHANGED <<status, planner, application, profile, userStatus, plannerStatus,
                  checkin, session, rounds, choice, match, feedback, report>>
  BY DEF allAftermathVars, aftermathVars, allMatchVars, matchVars, allDayVars, dayVars,
         vars, roomVars, accountVars
<1>3. k.op \in {"open", "confirm", "miss", "start", "next", "end"} =>
         (PlannerActs(r, u) => f[1] = TRUE)
  BY <1>1, <1>2 DEF FootprintSays, PlannerActs, Active
<1>4. /\ k.op = "open" => f[2] = status[r] /\ f[3] = ConfirmedIn(application[r])
      /\ k.op \in {"confirm", "miss"} => f[2] = checkin[r][x]
      /\ k.op = "start" => f[2] = status[r] /\ f[3] = session[r]
      /\ k.op \in {"next", "end"} => f[2] = session[r] /\ f[3] = rounds[r]
  BY <1>1, <1>2 DEF FootprintSays, ConfirmedIn
<1>5. k.op = "choose" => (Active(u) => f[1] = TRUE) /\ f[2] = status[r]
                         /\ (Attended(r, u) => f[3] = TRUE)
  BY <1>1, <1>2 DEF FootprintSays, Active, Attended
<1>6. ASSUME k.op = "choose", NEW v \in Named(k.items)
      PROVE  /\ f[4][v][1] = choice[r][u][v] /\ f[4][v][2] = choice[r][v][u]
             /\ f[4][v][3] = match[r][{u, v}]
             /\ v \in ValidTargets(r, u) => f[4][v][4] = TRUE
  BY <1>1, <1>2, <1>6 DEF FootprintSays, ValidTargets, Attended
<1>7. /\ k.op = "propose" => (Active(u) => f[1] = TRUE) /\ f[2] = match[r][{u, x}]
      /\ k.op = "close" => f[1] = report[x]
  BY <1>1, <1>2 DEF FootprintSays, Active
<1>8. k.op = "feedback" => (MayGiveFeedback(r, u) => f[1] = TRUE)
  BY <1>1, <1>2 DEF FootprintSays, MayGiveFeedback, Active, Attended
<1>9. k.op = "report" => (MayReport(w.complaint) => f[1] = TRUE)
  BY <1>1, <1>2
     DEF FootprintSays, MayReport, Active, RelatedTo, PartOf, Attended
<1> QED
  BY <1>3, <1>4, <1>5, <1>6, <1>7, <1>8, <1>9 DEF Found

LEMMA ListArrives ==
    ASSUME EventConstantsOK, RequestsInv, NEW r \in Rooms, NEW u \in Participants,
           NEW items \in ItemLists(ValidTargets(r, u))
    PROVE  /\ MayList(items) /\ IsList(items) /\ Named(items) \subseteq ValidTargets(r, u)
           /\ \A v \in Named(items) :
                 /\ choice[r][u][v] \in ChoiceType \cup {"absent"}
                 /\ choice[r][v][u] \in ChoiceType \cup {"absent"}
                 /\ match[r][{u, v}] \in Statuses
<1> DEFINE S == [to : ValidTargets(r, u), what : ChoiceType]
<1>1. items \in BoundedSeq(S, MaxItems) /\ MayList(items)
  BY DEF ItemLists, MayList
<1>2. PICK m \in 0..MaxItems : items \in [1..m -> S]
  BY <1>1 DEF BoundedSeq, SeqOf
<1>3. \A j \in DOMAIN items : j \in Nat \ {0} /\ items[j] \in S
  <2> HIDE DEF S
  <2> QED
    BY <1>2 DEF EventConstantsOK, EventConstants
<1>4. IsList(items) /\ Named(items) \subseteq ValidTargets(r, u)
  BY <1>3 DEF IsList, Named
<1>5. ASSUME NEW v \in Named(items)
      PROVE  /\ choice[r][u][v] \in ChoiceType \cup {"absent"}
             /\ choice[r][v][u] \in ChoiceType \cup {"absent"}
             /\ match[r][{u, v}] \in Statuses
  <2>1. v \in Users \ {u} /\ u \in Users
    BY <1>4, <1>5 DEF ValidTargets, EventConstantsOK, RoomConstants
  <2>2. choice \in [Rooms -> [Users -> [Users -> ChoiceType \cup {"absent"}]]]
    BY DEF RequestsInv, RowsTyped, MatchTypeOK
  <2>3. match[r][{u, v}] \in Statuses
    BY <2>1, PairIn DEF RequestsInv, RowsTyped, MatchStatusInv
  <2> QED
    BY <2>1, <2>2, <2>3
<1> QED
  BY <1>1, <1>4, <1>5

LEMMA ArriveHand ==
    ASSUME EventConstantsOK, SlotMaps, RequestsInv, NEW s \in Slots, Arrive(s)
    PROVE  /\ InHand(pc'[s], task'[s], view'[s], Footprint(s)')
           /\ pc'[s] \in Choosing => profile[task'[s].user] # NoProfile
<1> DEFINE f == Footprint(s)'
           Good == /\ InHand(pc'[s], task'[s], view'[s], f)
                   /\ pc'[s] \in Choosing => profile[task'[s].user] # NoProfile
<1>1. ASSUME NEW k, NEW w, NEW where, Begin(s, k, w, where)
      PROVE  Found(k, w, f) /\ pc'[s] = where /\ task'[s] = k /\ view'[s] = w
  BY <1>1, BeginShape, ArriveFootprint
<1>2. ASSUME NEW k, NEW w, NEW where, Begin(s, k, w, where), InHand(where, k, w, f),
             where \notin Choosing
      PROVE  Good
  BY <1>1, <1>2
<1> HIDE DEF f
<1>3. ASSUME NEW r \in Rooms, NEW p \in Planners, LoadOpenCheckin(s, r, p) PROVE Good
  <2> DEFINE k == Ask("open", r, p, NoUser)
             w == [roster |-> ConfirmedIn(application[r])]
  <2>1. /\ Begin(s, k, w, "list_checkins") /\ PlannerActs(r, p)
        /\ status[r] = "confirmed" /\ ConfirmedIn(application[r]) # {}
    BY <1>3 DEF LoadOpenCheckin
  <2>2. Found(k, w, f)
    BY <1>1, <2>1
  <2>3. k.op = "open" /\ k.room = r /\ k.user = p
    BY DEF Ask
  <2>4. w.roster = ConfirmedIn(application[r])
    OBVIOUS
  <2> HIDE DEF k, w
  <2>5. OpenHand("list_checkins", k, w, f)
    BY <2>1, <2>2, <2>3, <2>4 DEF Found, OpenHand
  <2> QED
    BY <1>2, <2>1, <2>5 DEF InHand, Choosing
<1>4. ASSUME NEW r \in Rooms, NEW p \in Planners, NEW u \in Participants,
             NEW op \in DOMAIN CheckinFrom, LoadCheckin(s, op, r, u, p)
      PROVE  Good
  <2> DEFINE k == Ask(op, r, p, u)
  <2>1. /\ Begin(s, k, NoView, "store_checkin") /\ PlannerActs(r, p)
        /\ checkin[r][u] \in CheckinFrom[op]
    BY <1>4 DEF LoadCheckin
  <2>2. Found(k, NoView, f)
    BY <1>1, <2>1
  <2>3. k.op = op /\ k.room = r /\ k.user = p /\ k.other = u /\ op \in {"confirm", "miss"}
    BY DEF Ask, CheckinFrom
  <2> HIDE DEF k
  <2>4. CheckinHand(k, f)
    BY <2>1, <2>2, <2>3 DEF Found, CheckinHand
  <2> QED
    BY <1>2, <2>1, <2>4 DEF InHand, Choosing
<1>5. ASSUME NEW r \in Rooms, NEW p \in Planners, LoadStart(s, r, p) PROVE Good
  <2> DEFINE k == Ask("start", r, p, NoUser)
  <2>1. /\ Begin(s, k, NoView, "read_attendance") /\ PlannerActs(r, p)
        /\ status[r] = "confirmed" /\ session[r] = NoSession
    BY <1>5 DEF LoadStart
  <2>2. Found(k, NoView, f)
    BY <1>1, <2>1
  <2>3. k.op = "start" /\ k.room = r /\ k.user = p
    BY DEF Ask
  <2> HIDE DEF k
  <2>4. StartHand("read_attendance", k, NoView, f)
    BY <2>1, <2>2, <2>3 DEF Found, StartHand
  <2> QED
    BY <1>2, <2>1, <2>4 DEF InHand, Choosing
<1>6. ASSUME NEW r \in Rooms, NEW p \in Planners, NEW op \in {"next", "end"},
             LoadSession(s, op, r, p)
      PROVE  Good
  <2> DEFINE k == Ask(op, r, p, NoUser)
             w == [current |-> session[r].current]
  <2>1. /\ Begin(s, k, w, "list_rounds") /\ PlannerActs(r, p)
        /\ IF op = "next" THEN session[r].status = "running"
                          ELSE session[r].status \notin {"none", "completed"}
    BY <1>6 DEF LoadSession
  <2>2. Found(k, w, f)
    BY <1>1, <2>1
  <2>3. k.op = op /\ k.room = r /\ k.user = p /\ w.current = session[r].current
    BY DEF Ask
  <2> HIDE DEF k, w
  <2>4. RoundsHand("list_rounds", k, w, f)
    BY <2>1, <2>2, <2>3 DEF Found, RoundsHand
  <2> QED
    BY <1>2, <2>1, <2>4 DEF InHand, Choosing
<1>7. ASSUME NEW r \in Rooms, NEW u \in Participants, LoadChoices(s, r, u) PROVE Good
  <2> DEFINE ask(items) == [op |-> "choose", room |-> r, user |-> u, other |-> NoUser,
                            items |-> items]
             seen(items) == [own |-> [v \in Named(items) |-> Unread],
                             res |-> [v \in Named(items) |-> Unread], at |-> 1]
  <2>1. /\ Active(u) /\ status[r] \in CHOICE_OPEN_STATUSES
        /\ profile[u] # NoProfile /\ Attended(r, u)
    BY <1>7 DEF LoadChoices
  <2>2. PICK items \in ItemLists(ValidTargets(r, u)) :
           Begin(s, ask(items), seen(items), "read_choice")
    BY <1>7 DEF LoadChoices
  <2> DEFINE k == ask(items)
             w == seen(items)
             G == f[4]
  <2>3. Found(k, w, f) /\ pc'[s] = "read_choice" /\ task'[s] = k /\ view'[s] = w
    BY <1>1, <2>2
  <2>4. /\ k.op = "choose" /\ k.room = r /\ k.user = u /\ k.items = items
        /\ w.at = 1 /\ \A v \in Named(items) : w.own[v] = Unread /\ w.res[v] = Unread
    OBVIOUS
  <2>5. /\ MayList(items) /\ IsList(items) /\ Named(items) \subseteq ValidTargets(r, u)
        /\ \A v \in Named(items) :
              /\ choice[r][u][v] \in ChoiceType \cup {"absent"}
              /\ choice[r][v][u] \in ChoiceType \cup {"absent"}
              /\ match[r][{u, v}] \in Statuses
    BY ListArrives
  <2> HIDE DEF k, w
  <2>6. f[1] = TRUE /\ f[2] = status[r] /\ f[3] = TRUE
    BY <2>1, <2>3, <2>4 DEF Found
  <2>7. \A v \in Named(items) :
           /\ G[v][1] = choice[r][u][v] /\ G[v][2] = choice[r][v][u]
           /\ G[v][3] = match[r][{u, v}] /\ G[v][4] = TRUE
    BY <2>3, <2>4, <2>5 DEF Found
  <2>8. \A v \in Named(items) : Guest(G[v])
    BY <2>5, <2>7 DEF Guest
  <2>9. GuestsHand("read_choice", k, w, G)
    <3>1. \A v : Passed(items, v, 0) = {}
      BY <2>5 DEF Passed, Positions, IsList
    <3>2. ItemsPassed("read_choice", k, w) = 0 /\ \A v : ~InItem("read_choice", k, w, v)
      BY <2>4 DEF ItemsPassed, InItem
    <3> QED
      BY <2>4, <2>8, <3>1, <3>2 DEF GuestsHand, GuestHand
  <2>10. ChoiceHand("read_choice", k, w, f)
    BY <2>1, <2>4, <2>5, <2>6, <2>9 DEF ChoiceHand
  <2> QED
    BY <2>1, <2>3, <2>4, <2>10 DEF InHand, Choosing
<1>8. ASSUME NEW r \in Rooms, NEW u \in Participants, NEW v, LoadMatch(s, r, u, v)
      PROVE  Good
  <2> DEFINE k == Ask("propose", r, u, v)
             w == [loaded |-> match[r][{u, v}]]
  <2>1. /\ Begin(s, k, w, "store_proposal") /\ Active(u)
        /\ match[r][{u, v}] \in {"mutual", "after_proposed"}
    BY <1>8 DEF LoadMatch
  <2>2. Found(k, w, f)
    BY <1>1, <2>1
  <2>3. /\ k.op = "propose" /\ k.room = r /\ k.user = u /\ k.other = v
        /\ w.loaded = match[r][{u, v}]
    BY DEF Ask
  <2> HIDE DEF k, w
  <2>4. ProposalHand(k, w, f)
    BY <2>1, <2>2, <2>3 DEF Found, ProposalHand
  <2> QED
    BY <1>2, <2>1, <2>4 DEF InHand, Choosing
<1>9. ASSUME NEW r \in Rooms, NEW u \in Participants, LoadFeedback(s, r, u) PROVE Good
  <2> DEFINE k == Ask("feedback", r, u, NoUser)
  <2>1. Begin(s, k, NoView, "store_feedback") /\ MayGiveFeedback(r, u)
    BY <1>9 DEF LoadFeedback
  <2>2. Found(k, NoView, f)
    BY <1>1, <2>1
  <2>3. k.op = "feedback" /\ k.room = r /\ k.user = u
    BY DEF Ask
  <2> HIDE DEF k
  <2>4. k.op = "feedback" /\ f[1] = TRUE
    BY <2>1, <2>2, <2>3 DEF Found
  <2> QED
    BY <1>2, <2>1, <2>4 DEF InHand, Choosing
<1>10. ASSUME NEW c \in Complaints, LoadReport(s, c) PROVE Good
  <2> DEFINE k == Ask("report", c.room, c.by, c.about)
             w == [complaint |-> c]
  <2>1. Begin(s, k, w, "store_report") /\ MayReport(c)
    BY <1>10 DEF LoadReport
  <2>2. Found(k, w, f)
    BY <1>1, <2>1
  <2>3. k.op = "report" /\ w.complaint = c
    BY DEF Ask
  <2> HIDE DEF k, w
  <2>4. k.op = "report" /\ f[1] = TRUE
    BY <2>1, <2>2, <2>3 DEF Found
  <2> QED
    BY <1>2, <2>1, <2>4 DEF InHand, Choosing
<1>11. ASSUME NEW i \in Reports, NEW to \in CLOSED_REPORT_STATUSES, LoadClosing(s, i, to)
       PROVE  Good
  <2> DEFINE k == Ask("close", "none", NoUser, i)
             w == [to |-> to]
  <2>1. Begin(s, k, w, "store_closing") /\ report[i].status \in OPEN_REPORT_STATUSES
    BY <1>11 DEF LoadClosing
  <2>2. Found(k, w, f)
    BY <1>1, <2>1
  <2>3. k.op = "close" /\ k.other = i /\ w.to = to
    BY DEF Ask
  <2> HIDE DEF k, w
  <2>4. ClosingHand(k, w, f)
    BY <2>1, <2>2, <2>3 DEF Found, ClosingHand
  <2> QED
    BY <1>2, <2>1, <2>4 DEF InHand, Choosing
<1> HIDE DEF Good
<1>12. Good
  BY <1>3, <1>4, <1>5, <1>6, <1>7, <1>8, <1>9, <1>10, <1>11 DEF Arrive
<1> QED
  BY <1>12 DEF Good, f

-----------------------------------------------------------------------------
(* What a list stores.                                                     *)

(* The object of a match with status m stands for now.                     *)
Carries(res, m, now) ==
    /\ now = "absent" => m = "absent"
    /\ \/ res = Unread /\ now = m
       \/ res = [was |-> m, now |-> now]

LEMMA CarriedIsStored ==
    ASSUME NEW res, NEW m, NEW now, Carries(res, m, now)
    PROVE  Stored(res, m) = now
BY DEF Carries, Stored, Unread

(* The match is looked at whenever the choice makes something of it.       *)
LEMMA LooksIfMatters ==
    ASSUME NEW g, NEW prev, NEW c, NEW m
    PROVE  /\ LooksAt(g, prev, c) =>
                 Rematch(m, "interested", "interested", c) = Rematch(m, prev, g[2], c)
           /\ ~LooksAt(g, prev, c) => Rematch(m, prev, g[2], c) = m
BY DEF LooksAt, Rematch

LEMMA ResCarries ==
    ASSUME NEW g, g[3] \in Statuses, NEW res, NEW now \in Statuses,
           Carries(res, g[3], now), ~Added(res), NEW prev, NEW c
    PROVE  Carries(ResAfter(res, g, prev, c), g[3], Rematch(now, prev, g[2], c))
<1> DEFINE then == Rematch(now, prev, g[2], c)
<1>1. then = "absent" => g[3] = "absent"
  BY DEF Carries, Rematch
<1>2. CASE ~LooksAt(g, prev, c)
  BY <1>2, LooksIfMatters DEF ResAfter, Carries
<1>3. CASE LooksAt(g, prev, c)
  <2> DEFINE object == IF res.now \in {"unread", "absent"}
                       THEN [was |-> g[3], now |-> g[3]] ELSE res
  <2>1. object = [was |-> g[3], now |-> now]
    <3>1. CASE res = Unread /\ now = g[3]
      BY <3>1 DEF Unread
    <3>2. CASE res = [was |-> g[3], now |-> now]
      <4>1. res.now = now /\ now # "unread" /\ (now = "absent" => g[3] = now)
        BY <3>2 DEF Carries, Statuses
      <4> QED
        BY <3>2, <4>1
    <3> QED
      BY <3>1, <3>2 DEF Carries
  <2>2. ResAfter(res, g, prev, c) =
           [was |-> object.was, now |-> Rematch(object.now, "interested", "interested", c)]
    BY <1>3 DEF ResAfter
  <2> HIDE DEF object
  <2>3. object.was = g[3] /\ object.now = now
    BY <2>1
  <2>4. ResAfter(res, g, prev, c) = [was |-> g[3], now |-> then]
    BY <1>3, <2>2, <2>3, LooksIfMatters
  <2> DEFINE after == ResAfter(res, g, prev, c)
  <2>5. after = [was |-> g[3], now |-> then] /\ (then = "absent" => g[3] = "absent")
    BY <1>1, <2>4
  <2> HIDE DEF then, after
  <2>6. Carries(after, g[3], then)
    BY <2>5 DEF Carries
  <2> QED
    BY <2>6 DEF then, after
<1> QED
  BY <1>2, <1>3

(* What is stored for one guest is what the serial operation makes of the  *)
(* choices for the guest, in their order.                                  *)
LEMMA GuestStored ==
    ASSUME NEW items, IsList(items), NEW x \in Named(items), NEW n,
           Passed(items, x, n) = Positions(items, x), NEW g, Guest(g), NEW own, NEW res,
           GuestHand(items, x, n, g, own, res), NEW cs, ChosenFor(items, x, cs)
    PROVE  /\ Storable(g[3], g[1], g[2], cs)
           /\ Stored(own, g[1]) = cs[Len(cs)]
           /\ Stored(res, g[3]) = MatchAfter(g[3], g[1], g[2], cs)
<1> DEFINE Good == /\ Storable(g[3], g[1], g[2], cs)
                   /\ Stored(own, g[1]) = cs[Len(cs)]
                   /\ Stored(res, g[3]) = MatchAfter(g[3], g[1], g[2], cs)
<1>1. Positions(items, x) # {}
  BY DEF Named, Positions
<1>2. PICK a \in DOMAIN items, b \in DOMAIN items :
         /\ a <= b /\ Positions(items, x) = {a, b}
         /\ cs = IF a = b THEN <<items[a].what>> ELSE <<items[a].what, items[b].what>>
  BY DEF ChosenFor
<1>3. \A c : Stored(OwnAs(g, c), g[1]) = c
  BY DEF Stored, OwnAs
<1>4. g[3] \in Statuses /\ Carries(Unread, g[3], g[3]) /\ ~Added(Unread)
  BY DEF Guest, Carries, Added, Unread
<1>5. ASSUME NEW i \in DOMAIN items, Passed(items, x, n) = {i},
             OnceHand(items, i, g, own, res)
      PROVE  Good
  <2> DEFINE c == items[i].what
  <2>1. a = i /\ b = i
    BY <1>2, <1>5
  <2>2. cs = <<c>> /\ Len(cs) = 1 /\ Head(cs) = c /\ cs[1] = c
    BY <1>2, <2>1
  <2>3. Carries(res, g[3], Rematch(g[3], g[1], g[2], c))
    BY <1>4, <1>5, ResCarries DEF OnceHand
  <2>4. Stored(res, g[3]) = Rematch(g[3], g[1], g[2], c)
    BY <2>3, CarriedIsStored
  <2>5. Stored(own, g[1]) = c
    BY <1>3, <1>5 DEF OnceHand
  <2> HIDE DEF c
  <2> QED
    BY <2>2, <2>4, <2>5 DEF Storable, MatchAfter
<1>6. ASSUME NEW i \in DOMAIN items, NEW j \in DOMAIN items, i < j,
             Passed(items, x, n) = {i, j}, TwiceHand(items, i, j, g, own, res)
      PROVE  Good
  <2> DEFINE c == items[i].what
             d == items[j].what
             m == Rematch(g[3], g[1], g[2], c)
             first == ResAfter(Unread, g, g[1], c)
  <2>1. a = i /\ b = j /\ i # j
    <3>1. i \in Nat /\ j \in Nat /\ a \in Nat /\ b \in Nat
      BY DEF IsList
    <3>2. {a, b} = {i, j}
      BY <1>2, <1>6
    <3> QED
      BY <1>2, <1>6, <3>1, <3>2
  <2>2. cs = <<c, d>> /\ Len(cs) = 2 /\ Head(cs) = c /\ cs[1] = c /\ cs[2] = d
    BY <1>2, <2>1
  <2>3. /\ g[1] # "absent" /\ own = OwnAs(g, d) /\ res = ResAfter(first, g, c, d)
        /\ LooksAt(g, c, d) /\ Added(first) => d # "interested"
    BY <1>6 DEF TwiceHand
  <2>4. Carries(first, g[3], m) /\ m \in Statuses
    BY <1>4, ResCarries, RematchTyped
  <2>5. Stored(own, g[1]) = d
    BY <1>3, <2>3
  <2>6. Added(first) <=> g[3] = "absent" /\ m # "absent"
    BY <2>4 DEF Carries, Added, Unread
  <2>7. ~(g[3] = "absent" /\ g[2] = "interested" /\ cs = <<"interested", "interested">>)
    <3>1. ASSUME g[3] = "absent", g[2] = "interested", c = "interested", d = "interested"
          PROVE  FALSE
      <4>1. m = "mutual"
        BY <3>1 DEF Rematch
      <4> QED
        BY <2>3, <2>6, <3>1, <4>1 DEF LooksAt
    <3> QED
      BY <2>2, <3>1
  <2> HIDE DEF c, d, m, first
  <2>8. CASE Added(first)
    <3>1. res = first
      BY <2>3, <2>8 DEF ResAfter
    <3>2. Stored(res, g[3]) = m
      BY <2>4, <3>1, CarriedIsStored
    <3>3. MatchAfter(g[3], g[1], g[2], cs) = m
      BY <2>2, <2>6, <2>8 DEF MatchAfter, m
    <3> QED
      BY <2>2, <2>3, <2>5, <2>7, <3>2, <3>3 DEF Storable
  <2>9. CASE ~Added(first)
    <3>1. Carries(res, g[3], Rematch(m, c, g[2], d))
      BY <1>4, <2>3, <2>4, <2>9, ResCarries
    <3>2. Stored(res, g[3]) = Rematch(m, c, g[2], d)
      BY <3>1, CarriedIsStored
    <3>3. MatchAfter(g[3], g[1], g[2], cs) = Rematch(m, c, g[2], d)
      BY <2>2, <2>6, <2>9 DEF MatchAfter, m
    <3> QED
      BY <2>2, <2>3, <2>5, <2>7, <3>2, <3>3 DEF Storable
  <2> QED
    BY <2>8, <2>9
<1> HIDE DEF Good
<1>7. Good
  BY <1>1, <1>5, <1>6 DEF GuestHand
<1> QED
  BY <1>7 DEF Good

LEMMA ChoicesSerial ==
    ASSUME SlotMaps, RequestsInv, NEW s \in Slots, StoreChoices(s),
           ChoiceHand("store_choices", task[s], view[s], Footprint(s)),
           profile[task[s].user] # NoProfile
    PROVE  SubmitChoices(task[s].room, task[s].user)
<1> DEFINE k == task[s]
           w == view[s]
           r == k.room
           u == k.user
           N == Named(k.items)
           chosen(v) == CHOOSE cs \in ChoiceLists : ChosenFor(k.items, v, cs)
           list == [v \in N |-> chosen(v)]
           G == Footprint(s)[4]
<1>1. ListFits(k, w)
  BY ListFitsIn DEF StoreChoices, Choosing
<1>2. /\ r \in Rooms /\ u \in Users /\ IsList(k.items)
      /\ k.items[w.at].to \in N
      /\ DOMAIN w.own = N /\ DOMAIN w.res = N
  BY <1>1, ListShape DEF ListFits
<1>3. /\ k.op = "choose" /\ MayList(k.items) /\ GuestsHand("store_choices", k, w, G)
      /\ Active(u) /\ status[r] \in CHOICE_OPEN_STATUSES /\ Attended(r, u)
  BY FootprintKnown DEF ChoiceHand, FootprintSays
<1>4. ASSUME NEW v \in N
      PROVE  /\ G[v][1] = choice[r][u][v] /\ G[v][2] = choice[r][v][u]
             /\ G[v][3] = match[r][{u, v}]
             /\ (G[v][4] = TRUE) <=> v \in ValidTargets(r, u)
  BY <1>3, <1>4, GuestFootprint
<1>5. ASSUME NEW v \in N
      PROVE  /\ v \in ValidTargets(r, u) /\ chosen(v) \in ChoiceLists
             /\ Storable(match[r][{u, v}], choice[r][u][v], choice[r][v][u], chosen(v))
             /\ Stored(w.own[v], choice[r][u][v]) = chosen(v)[Len(chosen(v))]
             /\ Stored(w.res[v], match[r][{u, v}]) =
                   MatchAfter(match[r][{u, v}], choice[r][u][v], choice[r][v][u], chosen(v))
  <2> DEFINE cs == chosen(v)
             g == G[v]
  <2>1. cs \in ChoiceLists /\ ChosenFor(k.items, v, cs)
    BY <1>3 DEF MayList
  <2>2. /\ Guest(g)
        /\ GuestHand(k.items, v, Len(k.items), g, w.own[v], w.res[v])
    BY <1>3 DEF GuestsHand, InItem, ItemsPassed
  <2>3. Passed(k.items, v, Len(k.items)) = Positions(k.items, v)
    <3>1. \A j \in DOMAIN k.items : j <= Len(k.items)
      BY <1>1, ListShape
    <3> QED
      BY <3>1 DEF Passed, Positions
  <2>4. v \in ValidTargets(r, u)
    BY <1>4, <2>2 DEF Guest
  <2> HIDE DEF cs, g
  <2>5. /\ Storable(g[3], g[1], g[2], cs)
        /\ Stored(w.own[v], g[1]) = cs[Len(cs)]
        /\ Stored(w.res[v], g[3]) = MatchAfter(g[3], g[1], g[2], cs)
    BY <1>2, <2>1, <2>2, <2>3, GuestStored
  <2> QED
    BY <1>4, <2>1, <2>4, <2>5 DEF cs, g
<1>6. /\ choice' = [choice EXCEPT ![r][u] = [v \in Users |->
                      IF v \in DOMAIN w.own THEN Stored(w.own[v], @[v]) ELSE @[v]]]
      /\ match' = [match EXCEPT ![r] = [pair \in Pairs |->
            IF \E v \in DOMAIN w.res : pair = {u, v}
            THEN Stored(w.res[CHOOSE v \in DOMAIN w.res : pair = {u, v}], @[pair])
            ELSE @[pair]]]
      /\ UNCHANGED <<allDayVars, proposers, aftermathVars>>
  BY DEF StoreChoices
<1> HIDE DEF N, chosen
<1>7. /\ N \in (SUBSET ValidTargets(r, u)) \ {{}} /\ list \in [N -> ChoiceLists]
      /\ \A v \in N : list[v] = chosen(v)
  BY <1>2, <1>5
<1> HIDE DEF list
<1>8. choice' = [choice EXCEPT ![r][u] = [v \in Users |->
                   IF v \in N THEN list[v][Len(list[v])] ELSE @[v]]]
  <2>1. [v \in Users |-> IF v \in DOMAIN w.own
                         THEN Stored(w.own[v], choice[r][u][v]) ELSE choice[r][u][v]] =
        [v \in Users |-> IF v \in N THEN list[v][Len(list[v])] ELSE choice[r][u][v]]
    BY <1>2, <1>5, <1>7
  <2> QED
    BY <1>6, <2>1
<1>9. match' = [match EXCEPT ![r] = [pair \in Pairs |->
                  IF \E v \in N : pair = {u, v}
                  THEN LET v == CHOOSE v \in N : pair = {u, v}
                       IN  MatchAfter(@[pair], choice[r][u][v], choice[r][v][u], list[v])
                  ELSE @[pair]]]
  <2> DEFINE who(pair) == CHOOSE v \in N : pair = {u, v}
             stored(pair) == IF \E v \in N : pair = {u, v}
                             THEN Stored(w.res[who(pair)], match[r][pair])
                             ELSE match[r][pair]
             after(pair) == IF \E v \in N : pair = {u, v}
                            THEN MatchAfter(match[r][pair], choice[r][u][who(pair)],
                                            choice[r][who(pair)][u], list[who(pair)])
                            ELSE match[r][pair]
  <2>1. match' = [match EXCEPT ![r] = [pair \in Pairs |-> stored(pair)]]
    BY <1>2, <1>6
  <2>2. ASSUME NEW pair \in Pairs PROVE stored(pair) = after(pair)
    <3>1. CASE \E v \in N : pair = {u, v}
      <4> DEFINE x == who(pair)
      <4>1. x \in N /\ pair = {u, x}
        BY <3>1
      <4> HIDE DEF x
      <4>2. Stored(w.res[x], match[r][pair]) =
               MatchAfter(match[r][pair], choice[r][u][x], choice[r][x][u], list[x])
        BY <1>5, <1>7, <4>1
      <4> QED
        BY <3>1, <4>2 DEF x
    <3>2. CASE ~\E v \in N : pair = {u, v}
      BY <3>2
    <3> QED
      BY <3>1, <3>2
  <2> HIDE DEF stored, after
  <2>3. [pair \in Pairs |-> stored(pair)] = [pair \in Pairs |-> after(pair)]
    BY <2>2
  <2>4. match' = [match EXCEPT ![r] = [pair \in Pairs |-> after(pair)]]
    BY <2>1, <2>3
  <2> QED
    BY <2>4 DEF after
<1>10. \A v \in N :
          Storable(match[r][{u, v}], choice[r][u][v], choice[r][v][u], list[v])
  BY <1>5, <1>7
<1> HIDE DEF r, u
<1>11. \E T \in (SUBSET ValidTargets(r, u)) \ {{}} : \E ask \in [T -> ChoiceLists] :
          /\ \A v \in T :
                Storable(match[r][{u, v}], choice[r][u][v], choice[r][v][u], ask[v])
          /\ choice' = [choice EXCEPT ![r][u] = [v \in Users |->
                IF v \in T THEN ask[v][Len(ask[v])] ELSE @[v]]]
          /\ match' = [match EXCEPT ![r] = [pair \in Pairs |->
                IF \E v \in T : pair = {u, v}
                THEN LET v == CHOOSE v \in T : pair = {u, v}
                     IN  MatchAfter(@[pair], choice[r][u][v], choice[r][v][u], ask[v])
                ELSE @[pair]]]
  <2> USE <1>7
  <2> WITNESS N \in (SUBSET ValidTargets(r, u)) \ {{}}
  <2> WITNESS list \in [N -> ChoiceLists]
  <2> QED
    BY <1>8, <1>9, <1>10
<1>12. profile[u] # NoProfile /\ UNCHANGED <<allDayVars, proposers>>
  BY <1>6 DEF u
<1>13. SubmitChoices(r, u)
  BY <1>3, <1>11, <1>12 DEF SubmitChoices
<1> QED
  BY <1>13 DEF r, u

-----------------------------------------------------------------------------
(* What the other requests store.                                          *)

LEMMA OpeningsSerial ==
    ASSUME NEW s, StoreOpenings(s),
           OpenHand("store_openings", task[s], view[s], Footprint(s))
    PROVE  /\ OpenCheckin(task[s].room, task[s].user)
           /\ UNCHANGED <<matchVars, aftermathVars>>
<1> DEFINE k == task[s]
           r == k.room
           w == view[s]
           here == ConfirmedIn(application[r])
           listed(u) == u \in w.missing \cup w.unopened
<1>1. /\ PlannerActs(r, k.user) /\ status[r] = "confirmed" /\ here # {}
      /\ w.missing = {u \in here : checkin[r][u] = "none"}
      /\ w.unopened = {u \in here : checkin[r][u] = "not_open"}
  <2> DEFINE f == Footprint(s)
  <2>1. /\ k.op = "open" /\ f[1] = TRUE /\ f[2] = "confirmed" /\ f[3] # {}
        /\ w.missing = {u \in f[3] : f[4][u] = "none"}
        /\ w.unopened = {u \in f[3] : f[4][u] = "not_open"}
    BY DEF OpenHand
  <2>2. /\ PlannerActs(r, k.user) /\ f[2] = status[r] /\ f[3] = here
        /\ f[4] = checkin[r]
    BY <2>1, FootprintKnown DEF FootprintSays
  <2> HIDE DEF f
  <2> QED
    BY <2>1, <2>2
<1>2. /\ checkin' = [checkin EXCEPT ![r] = [u \in Users |->
                       IF listed(u) THEN "open" ELSE checkin[r][u]]]
      /\ UNCHANGED <<vars, session, rounds, seats, matchVars, aftermathVars>>
  BY DEF StoreOpenings
<1>3. \A u \in Users :
         listed(u) <=> u \in here /\ checkin[r][u] \in {"none", "not_open"}
  BY <1>1
<1> HIDE DEF listed, here
<1>4. [u \in Users |-> IF listed(u) THEN "open" ELSE checkin[r][u]] =
      [u \in Users |-> IF u \in here /\ checkin[r][u] \in {"none", "not_open"}
                       THEN "open" ELSE checkin[r][u]]
  BY <1>3
<1>5. checkin' = [checkin EXCEPT ![r] = [u \in Users |->
                    IF u \in here /\ checkin[r][u] \in {"none", "not_open"}
                    THEN "open" ELSE checkin[r][u]]]
  BY <1>2, <1>4
<1> QED
  BY <1>1, <1>2, <1>5 DEF OpenCheckin, here

LEMMA CheckinSerial ==
    ASSUME NEW s, StoreCheckin(s), CheckinHand(task[s], Footprint(s))
    PROVE  LET k == task[s]
           IN  /\ \/ k.op = "confirm" /\ ConfirmCheckinById(k.room, k.other, k.user)
                  \/ k.op = "miss" /\ MarkNoShow(k.room, k.other, k.user)
               /\ UNCHANGED <<matchVars, aftermathVars>>
<1> DEFINE k == task[s]
<1>1. /\ k.op \in {"confirm", "miss"} /\ PlannerActs(k.room, k.user)
      /\ checkin[k.room][k.other] \in CheckinFrom[k.op]
  BY FootprintKnown DEF CheckinHand, FootprintSays
<1>2. /\ checkin' = [checkin EXCEPT ![k.room][k.other] = CheckinTo[k.op]]
      /\ UNCHANGED <<vars, session, rounds, seats, matchVars, aftermathVars>>
  BY DEF StoreCheckin
<1> HIDE DEF k
<1>a. /\ CheckinFrom["confirm"] = {"open", "no_show"} /\ CheckinTo["confirm"] = "checked_in"
      /\ CheckinFrom["miss"] = {"open", "checked_in"} /\ CheckinTo["miss"] = "no_show"
  BY DEF CheckinFrom, CheckinTo
<1>3. CASE k.op = "confirm"
  <2>1. /\ checkin[k.room][k.other] \in {"open", "no_show"}
        /\ checkin' = [checkin EXCEPT ![k.room][k.other] = "checked_in"]
    BY <1>1, <1>2, <1>3, <1>a
  <2>2. ConfirmCheckinById(k.room, k.other, k.user)
    BY <1>1, <1>2, <2>1 DEF ConfirmCheckinById, SetCheckin
  <2> QED
    BY <1>2, <1>3, <2>2 DEF k
<1>4. CASE k.op = "miss"
  <2>1. /\ checkin[k.room][k.other] \in {"open", "checked_in"}
        /\ checkin' = [checkin EXCEPT ![k.room][k.other] = "no_show"]
    BY <1>1, <1>2, <1>4, <1>a
  <2>2. MarkNoShow(k.room, k.other, k.user)
    BY <1>1, <1>2, <2>1 DEF MarkNoShow, SetCheckin
  <2> QED
    BY <1>2, <1>4, <2>2 DEF k
<1> QED
  BY <1>1, <1>2, <1>3, <1>4 DEF k

LEMMA SessionSerial ==
    ASSUME NEW s, StoreSession(s),
           StartHand("store_session", task[s], view[s], Footprint(s))
    PROVE  /\ StartSession(task[s].room, task[s].user)
           /\ UNCHANGED <<matchVars, aftermathVars>>
<1> DEFINE r == task[s].room
           males == CheckedInOf(r, "male")
           females == CheckedInOf(r, "female")
           p == task[s].user
<1>1. /\ PlannerActs(r, p) /\ status[r] = "confirmed" /\ session[r] = NoSession
      /\ view[s].males = males /\ view[s].females = females
      /\ males # {} /\ females # {} /\ Cardinality(males) = Cardinality(females)
  BY FootprintKnown DEF StartHand, FootprintSays
<1>2. /\ SeatGuests(s)
      /\ UNCHANGED <<capacity, deadlinePassed, planner, application, accountVars,
                     creditVars, checkin, matchVars, aftermathVars>>
  BY DEF StoreSession
<1> HIDE DEF males, females
<1>3. /\ session' = [session EXCEPT ![r] = [status |-> "running", current |-> 1]]
      /\ rounds' = [rounds EXCEPT ![r] =
            [k \in 1..Cardinality(males) |-> IF k = 1 THEN "active" ELSE "pending"]]
      /\ seats' = [seats EXCEPT ![r] = RoundRobinPairs(SetToSeq(males), SetToSeq(females))]
      /\ status' = [status EXCEPT ![r] = "in_progress"]
  BY <1>1, <1>2 DEF SeatGuests
<1> HIDE DEF r, p
<1>4. StartSession(r, p)
  BY <1>1, <1>2, <1>3 DEF StartSession, males, females
<1> QED
  BY <1>2, <1>4 DEF r, p

(* The rounds as they were read are the rounds as they are: what is written *)
(* by column is what is wanted.                                            *)
LEMMA RoundsAsWanted ==
    ASSUME NEW s, NEW wanted, DOMAIN wanted = DOMAIN view[s].rows
    PROVE  RoundsWritten(s, view[s].rows, wanted) =
              [k \in DOMAIN view[s].rows |-> wanted[k]]
BY DEF RoundsWritten

LEMMA AdvanceSerial ==
    ASSUME StoryInv, NEW s \in Slots, StoreAdvance(s),
           RoundsHand("store_advance", task[s], view[s], Footprint(s))
    PROVE  /\ task[s].op = "next" /\ NextRound(task[s].room, task[s].user)
           /\ UNCHANGED <<matchVars, aftermathVars>>
<1> DEFINE r == task[s].room
           p == task[s].user
           rows == rounds[r]
           now == session[r].current
           wanted == [rows EXCEPT ![now] = "completed", ![now + 1] = "active"]
<1>1. /\ task[s].op = "next" /\ PlannerActs(r, p) /\ session[r].status = "running"
      /\ view[s].current = now /\ view[s].rows = rows /\ now < Len(rows)
  <2> DEFINE f == Footprint(s)
  <2>1. /\ task[s].op = "next" /\ f[1] = TRUE /\ f[2].status = "running"
        /\ view[s].current = f[2].current /\ view[s].rows = f[3]
        /\ view[s].current < Len(f[3])
    BY DEF RoundsHand
  <2>2. PlannerActs(r, p) /\ f[2] = session[r] /\ f[3] = rows
    BY <2>1, FootprintKnown DEF FootprintSays
  <2> HIDE DEF f, rows
  <2> QED
    BY <2>1, <2>2
<1>2. /\ rounds' = [rounds EXCEPT ![r] = RoundsWritten(s, rows, wanted)]
      /\ session' = [session EXCEPT ![r].current = now + 1]
      /\ UNCHANGED <<vars, checkin, seats, matchVars, aftermathVars>>
  BY <1>1 DEF StoreAdvance
<1>3. RoundsWritten(s, rows, wanted) = wanted
  <2>1. DOMAIN wanted = DOMAIN rows /\ wanted = [k \in DOMAIN rows |-> wanted[k]]
    OBVIOUS
  <2>2. view[s].rows = rows
    BY <1>1
  <2> HIDE DEF wanted, rows
  <2>3. RoundsWritten(s, view[s].rows, wanted) = [k \in DOMAIN rows |-> wanted[k]]
    BY <2>1, <2>2, RoundsAsWanted
  <2> QED
    BY <2>1, <2>2, <2>3
<1>4. rounds' = [rounds EXCEPT ![r] =
                   [@ EXCEPT ![now] = "completed", ![now + 1] = "active"]]
  BY <1>2, <1>3
<1> HIDE DEF r, p
<1>5. NextRound(r, p)
  BY <1>1, <1>2, <1>4 DEF NextRound
<1> QED
  BY <1>1, <1>2, <1>5 DEF r, p

LEMMA EndSerial ==
    ASSUME NEW s, StoreEnd(s),
           RoundsHand("store_end", task[s], view[s], Footprint(s))
    PROVE  /\ task[s].op = "end" /\ EndSession(task[s].room, task[s].user)
           /\ UNCHANGED <<matchVars, aftermathVars>>
<1> DEFINE r == task[s].room
           p == task[s].user
           rows == rounds[r]
           wanted == [k \in DOMAIN rows |-> "completed"]
<1>1. /\ task[s].op = "end" /\ PlannerActs(r, p)
      /\ session[r].status \notin {"none", "completed"} /\ view[s].rows = rows
  BY FootprintKnown DEF RoundsHand, FootprintSays
<1>2. /\ rounds' = [rounds EXCEPT ![r] = RoundsWritten(s, rows, wanted)]
      /\ session' = [session EXCEPT ![r].status = "completed"]
      /\ status' = [status EXCEPT ![r] = "completed"]
      /\ UNCHANGED <<capacity, deadlinePassed, planner, application, accountVars,
                     creditVars, checkin, seats, matchVars, aftermathVars>>
  BY <1>1 DEF StoreEnd
<1>3. RoundsWritten(s, rows, wanted) = wanted
  <2>1. DOMAIN wanted = DOMAIN rows /\ wanted = [k \in DOMAIN rows |-> wanted[k]]
    OBVIOUS
  <2>2. view[s].rows = rows
    BY <1>1
  <2> HIDE DEF wanted, rows
  <2>3. RoundsWritten(s, view[s].rows, wanted) = [k \in DOMAIN rows |-> wanted[k]]
    BY <2>1, <2>2, RoundsAsWanted
  <2> QED
    BY <2>1, <2>2, <2>3
<1>4. rounds' = [rounds EXCEPT ![r] = [k \in DOMAIN @ |-> "completed"]]
  BY <1>2, <1>3
<1> HIDE DEF r, p
<1>5. EndSession(r, p)
  BY <1>1, <1>2, <1>4 DEF EndSession
<1> QED
  BY <1>1, <1>2, <1>5 DEF r, p

LEMMA ProposalSerial ==
    ASSUME NEW s, StoreProposal(s), ProposalHand(task[s], view[s], Footprint(s))
    PROVE  /\ task[s].op = "propose"
           /\ ProposeAfterDate(task[s].room, task[s].user, task[s].other)
           /\ UNCHANGED aftermathVars
<1> DEFINE r == task[s].room
           u == task[s].user
           x == task[s].other
           m == match[r][{u, x}]
<1>1. /\ task[s].op = "propose" /\ Active(u) /\ m \in {"mutual", "after_proposed"}
      /\ view[s].loaded = m
  BY FootprintKnown DEF ProposalHand, FootprintSays
<1>2. /\ proposers' = [proposers EXCEPT ![r][{u, x}] = @ \cup {u}]
      /\ match' = [match EXCEPT ![r][{u, x}] =
                     IF m = "mutual" THEN "after_proposed" ELSE m]
      /\ UNCHANGED <<allDayVars, choice, aftermathVars>>
  BY <1>1 DEF StoreProposal
<1>3. match' = [match EXCEPT ![r][{u, x}] = "after_proposed"]
  BY <1>1, <1>2
<1> HIDE DEF r, u, x
<1>4. ProposeAfterDate(r, u, x)
  BY <1>1, <1>2, <1>3 DEF ProposeAfterDate, m
<1> QED
  BY <1>1, <1>2, <1>4 DEF r, u, x

LEMMA AftermathSerial ==
    ASSUME NEW s, StoreFeedback(s) \/ StoreReport(s) \/ StoreClosing(s),
           InHand(pc[s], task[s], view[s], Footprint(s))
    PROVE  LET k == task[s]
           IN  \/ k.op = "feedback" /\ SubmitFeedback(k.room, k.user)
               \/ k.op = "report" /\ \E i \in Reports : SubmitReport(i, view[s].complaint)
               \/ k.op = "close" /\ SetReportStatus(k.other, view[s].to)
<1>1. FootprintSays(s)
  BY FootprintNext
<1>2. CASE StoreFeedback(s)
  <2>1. task[s].op = "feedback" /\ Footprint(s)[1] = TRUE
    BY <1>2 DEF StoreFeedback, InHand
  <2>2. MayGiveFeedback(task[s].room, task[s].user)
    BY <1>1, <2>1 DEF FootprintSays
  <2> QED
    BY <1>2, <2>1, <2>2 DEF StoreFeedback, SubmitFeedback
<1>3. CASE StoreReport(s)
  <2>1. task[s].op = "report" /\ Footprint(s)[1] = TRUE
    BY <1>3 DEF StoreReport, InHand
  <2>2. MayReport(view[s].complaint)
    BY <1>1, <2>1 DEF FootprintSays
  <2> QED
    BY <1>3, <2>1, <2>2 DEF StoreReport, SubmitReport
<1>4. CASE StoreClosing(s)
  <2>1. ClosingHand(task[s], view[s], Footprint(s))
    BY <1>4 DEF StoreClosing, InHand
  <2>2. /\ task[s].op = "close" /\ view[s].to \in CLOSED_REPORT_STATUSES
        /\ report[task[s].other].status \in OPEN_REPORT_STATUSES
    BY <1>1, <2>1 DEF ClosingHand, FootprintSays
  <2> QED
    BY <1>4, <2>2 DEF StoreClosing, SetReportStatus
<1> QED
  BY <1>2, <1>3, <1>4

LEMMA StoringSerial ==
    ASSUME StoryInv, RequestsInv, NEW s \in Slots, Storing(s),
           InHand(pc[s], task[s], view[s], Footprint(s)),
           pc[s] \in Choosing => profile[task[s].user] # NoProfile
    PROVE  Serially(s)
<1>1. CASE StoreOpenings(s)
  <2>1. OpenHand("store_openings", task[s], view[s], Footprint(s))
    BY <1>1 DEF StoreOpenings, InHand
  <2>2. task[s].op = "open"
    BY <2>1 DEF OpenHand
  <2> QED
    BY <1>1, <2>1, <2>2, OpeningsSerial DEF Serially
<1>2. CASE StoreCheckin(s)
  <2>1. CheckinHand(task[s], Footprint(s))
    BY <1>2 DEF StoreCheckin, InHand
  <2> QED
    BY <1>2, <2>1, CheckinSerial DEF Serially
<1>3. CASE StoreSession(s)
  <2>1. StartHand("store_session", task[s], view[s], Footprint(s))
    BY <1>3 DEF StoreSession, InHand
  <2>2. task[s].op = "start"
    BY <2>1 DEF StartHand
  <2> QED
    BY <1>3, <2>1, <2>2, SessionSerial DEF Serially
<1>4. CASE StoreAdvance(s)
  <2>1. RoundsHand("store_advance", task[s], view[s], Footprint(s))
    BY <1>4 DEF StoreAdvance, InHand
  <2> QED
    BY <1>4, <2>1, AdvanceSerial DEF Serially
<1>5. CASE StoreEnd(s)
  <2>1. RoundsHand("store_end", task[s], view[s], Footprint(s))
    BY <1>5 DEF StoreEnd, InHand
  <2> QED
    BY <1>5, <2>1, EndSerial DEF Serially
<1>6. CASE StoreChoices(s)
  <2>1. /\ ChoiceHand("store_choices", task[s], view[s], Footprint(s))
        /\ profile[task[s].user] # NoProfile
    BY <1>6 DEF StoreChoices, InHand, Choosing
  <2>2. task[s].op = "choose" /\ SlotMaps
    BY <2>1 DEF ChoiceHand, StoryInv
  <2>3. UNCHANGED aftermathVars
    BY <1>6 DEF StoreChoices
  <2> QED
    BY <1>6, <2>1, <2>2, <2>3, ChoicesSerial DEF Serially
<1>7. CASE StoreProposal(s)
  <2>1. ProposalHand(task[s], view[s], Footprint(s))
    BY <1>7 DEF StoreProposal, InHand
  <2> QED
    BY <1>7, <2>1, ProposalSerial DEF Serially
<1>8. CASE StoreFeedback(s) \/ StoreReport(s) \/ StoreClosing(s)
  BY <1>8, AftermathSerial DEF Serially
<1> QED
  BY <1>1, <1>2, <1>3, <1>4, <1>5, <1>6, <1>7, <1>8 DEF Storing

-----------------------------------------------------------------------------
(* Any step.                                                               *)

(* Who has a profile keeps one.                                            *)
LEMMA ProfileKept ==
    ASSUME RoomConstants, StoryInv, EventNext, NEW u \in Users, profile[u] # NoProfile
    PROVE  profile'[u] # NoProfile
<1>1. CASE UNCHANGED profile
  BY <1>1
<1>2. profile \in [Users -> Profiles \cup {NoProfile}]
  BY DEF StoryInv, TypeOK
<1>3. CASE Next
  <2>1. CASE RoomNext
    BY <1>1, <2>1 DEF RoomNext, RoomStep, CreateRoom, UpdateRoom, PublishRoom,
       DeadlinePasses, ApplicationStep, ApplyToRoom, CancelMyApplication,
       ApproveApplication, RejectApplication, WaitlistApplication, SetApplication,
       MarkApplicationPaid, PlannerStep, AssignPlannerToRoom, ConfirmRoom, accountVars
  <2>2. ASSUME NEW x \in Participants, UpsertMyProfile(x) PROVE profile'[u] # NoProfile
    <3>1. PICK p \in Profiles : profile' = [profile EXCEPT ![x] = p]
      BY <2>2 DEF UpsertMyProfile
    <3>2. p # NoProfile
      BY <3>1 DEF RoomConstants, NoProfile, Gender
    <3> QED
      BY <1>2, <3>1, <3>2
  <2>3. ASSUME NEW x, SetUserStatus(x) \/ SetPlannerStatus(x) PROVE profile'[u] # NoProfile
    BY <1>1, <2>3 DEF SetUserStatus, SetPlannerStatus
  <2> QED
    BY <1>3, <2>1, <2>2, <2>3 DEF Next, AccountStep
<1>4. UNCHANGED allAftermathVars \/ Quiet => UNCHANGED profile
  BY DEF allAftermathVars, allMatchVars, allDayVars, Quiet, vars, accountVars
<1>5. ASSUME NEW s \in Slots, Arrive(s) \/ Reading(s) \/ Fail(s) PROVE UNCHANGED profile
  BY <1>4, <1>5, ArriveUnderway, ReadingUnderway DEF Fail
<1>6. ASSUME NEW s \in Slots, Storing(s) PROVE UNCHANGED profile
  <2>1. CASE StoreSession(s) \/ StoreAdvance(s) \/ StoreEnd(s)
    BY <2>1 DEF StoreSession, StoreAdvance, StoreEnd, vars, accountVars
  <2> QED
    BY <1>4, <1>6, <2>1, StoringKinds
<1> QED
  BY <1>1, <1>3, <1>5, <1>6 DEF EventNext, Background

LEMMA HandStays ==
    ASSUME HandInv, Remember, NEW t \in Slots, ~touched'[t],
           pc'[t] = pc[t], task'[t] = task[t], view'[t] = view[t]
    PROVE  InHand(pc'[t], task'[t], view'[t], Footprint(t)')
<1>1. CASE pc[t] = "idle"
  BY <1>1 DEF InHand, Choosing
<1>2. CASE pc[t] # "idle"
  <2>1. Busy(t) /\ Busy(t)'
    BY <1>2 DEF Busy
  <2>2. ~touched[t] /\ Footprint(t)' = Footprint(t)
    BY <2>1, Zenon DEF Remember
  <2> QED
    BY <2>2 DEF HandInv
<1> QED
  BY <1>1, <1>2

(* A request that reads keeps what it has in hand.                         *)
LEMMA ReadingStays ==
    ASSUME StoryInv, RequestsInv, HandInv, Remember, NEW s \in Slots, Reading(s),
           ~touched'[s]
    PROVE  InHand(pc'[s], task'[s], view'[s], Footprint(s)')
<1>1. task'[s] = task[s] /\ SlotMaps
  BY ReadingKeeps DEF StoryInv
<1>2. CASE pc'[s] = "idle"
  BY <1>2 DEF InHand, Choosing
<1>3. CASE pc'[s] # "idle"
  <2>1. Busy(s) /\ Busy(s)'
    BY <1>3, ReadingBusy DEF Busy
  <2>2. ~touched[s] /\ Footprint(s)' = Footprint(s)
    BY <2>1, Zenon DEF Remember
  <2>3. InHand(pc[s], task[s], view[s], Footprint(s))
    BY <2>2 DEF HandInv
  <2>4. InHand(pc'[s], task[s], view'[s], Footprint(s))
    BY <1>1, <2>3, ReadingHand
  <2> QED
    BY <1>1, <2>2, <2>4
<1> QED
  BY <1>2, <1>3

LEMMA ReadingFrom ==
    ASSUME SlotMaps, NEW s \in Slots, Reading(s), pc'[s] \in Choosing
    PROVE  pc[s] \in Choosing
<1>1. ASSUME NEW v, NEW where, Proceed(s, v, where), where \notin Choosing PROVE FALSE
  BY <1>1, ProceedShape
<1>2. ~ListCheckins(s) /\ ~ReadAttendance(s)
  BY <1>1 DEF ListCheckins, ReadAttendance, Choosing
<1>3. ~ListRounds(s)
  BY <1>1 DEF ListRounds, Choosing
<1> QED
  BY <1>2, <1>3 DEF Reading, ReadChoice, ReadReverse, ReadMatch, Choosing

LEMMA HandStep ==
    ASSUME EventConstantsOK, StoryInv, RequestsInv, HandInv, [EventNext]_allEventVars
    PROVE  HandInv'
<1> DEFINE Hand(t) == ~touched'[t] => InHand(pc'[t], task'[t], view'[t], Footprint(t)')
           Known(t) == pc'[t] \in Choosing => profile'[task'[t].user] # NoProfile
<1>1. CASE UNCHANGED allEventVars
  <2>1. \A t \in Slots : Footprint(t)' = Footprint(t)
    BY <1>1 DEF Footprint, allEventVars, allAftermathVars, aftermathVars, allMatchVars,
       matchVars, allDayVars, dayVars, vars, roomVars, accountVars, eventRequestVars,
       PlannerActs, Active, ConfirmedIn, CheckedInOf, Attended, ValidTargets,
       MayGiveFeedback, MayReport, RelatedTo, PartOf
  <2>2. UNCHANGED <<pc, task, view, touched, profile>>
    BY <1>1 DEF allEventVars, allAftermathVars, allMatchVars, allDayVars, vars,
       accountVars, eventRequestVars
  <2> QED
    BY <2>1, <2>2 DEF HandInv
<1>2. CASE EventNext
  <2>1. Remember /\ SlotMaps
    BY <1>2 DEF EventNext, StoryInv
  <2>2. ASSUME NEW t \in Slots, pc'[t] = pc[t], task'[t] = task[t], view'[t] = view[t]
        PROVE  Hand(t) /\ Known(t)
    <3>1. Hand(t)
      BY <2>1, <2>2, HandStays
    <3>2. ASSUME pc[t] \in Choosing PROVE profile'[task[t].user] # NoProfile
      <4>1. task[t].user \in Users /\ profile[task[t].user] # NoProfile
        BY <3>2, ListFitsIn DEF HandInv, ListFits
      <4> QED
        BY <1>2, <4>1, ProfileKept DEF EventConstantsOK
    <3> QED
      BY <2>2, <3>1, <3>2
  <2>3. ASSUME NEW s \in Slots, Others(s), Hand(s), Known(s) PROVE HandInv'
    <3>1. ASSUME NEW t \in Slots PROVE Hand(t) /\ Known(t)
      <4>1. CASE t = s
        BY <2>3, <4>1
      <4>2. CASE t # s
        <5>1. pc'[t] = pc[t] /\ task'[t] = task[t] /\ view'[t] = view[t]
          BY <2>3, <4>2 DEF Others
        <5> HIDE DEF Hand, Known
        <5> QED
          BY <2>2, <5>1
      <4> QED
        BY <4>1, <4>2
    <3> QED
      BY <3>1 DEF HandInv
  <2>4. ASSUME NEW s \in Slots, Arrive(s) PROVE HandInv'
    <3>1. Others(s) /\ UNCHANGED profile
      BY <2>4, ArriveUnderway
         DEF allAftermathVars, allMatchVars, allDayVars, vars, accountVars
    <3>2. Hand(s) /\ Known(s)
      BY <2>1, <2>4, <3>1, ArriveHand
    <3> HIDE DEF Hand, Known
    <3> QED
      BY <2>3, <3>1, <3>2
  <2>5. ASSUME NEW s \in Slots, Reading(s) PROVE HandInv'
    <3>1. Others(s) /\ UNCHANGED profile
      BY <2>5, ReadingUnderway
         DEF allAftermathVars, allMatchVars, allDayVars, vars, accountVars
    <3>2. Hand(s)
      BY <2>1, <2>5, ReadingStays
    <3>3. ASSUME pc'[s] \in Choosing PROVE profile[task[s].user] # NoProfile
      <4>1. pc[s] \in Choosing
        BY <2>1, <2>5, <3>3, ReadingFrom
      <4> QED
        BY <4>1 DEF HandInv
    <3>4. Known(s)
      BY <2>1, <2>5, <3>1, <3>3, ReadingKeeps
    <3> HIDE DEF Hand, Known
    <3> QED
      BY <2>3, <3>1, <3>2, <3>4
  <2>6. ASSUME NEW s \in Slots, Finish(s) PROVE HandInv'
    <3>1. Others(s) /\ pc'[s] = "idle"
      BY <2>1, <2>6, FinishShape DEF Others
    <3>2. Hand(s) /\ Known(s)
      BY <3>1 DEF InHand, Choosing
    <3> HIDE DEF Hand, Known
    <3> QED
      BY <2>3, <3>1, <3>2
  <2>7. ASSUME NEW s \in Slots, Storing(s) \/ Fail(s) PROVE HandInv'
    BY <2>6, <2>7, StoringKinds DEF Fail
  <2>8. CASE Background
    <3>1. \A t \in Slots : Hand(t) /\ Known(t)
      <4> HIDE DEF Hand, Known
      <4> QED
        BY <2>2, <2>8 DEF Background
    <3> QED
      BY <3>1 DEF HandInv
  <2> QED
    BY <1>2, <2>4, <2>5, <2>7, <2>8 DEF EventNext
<1> QED
  BY <1>1, <1>2

(* The step with which an undisturbed request ends.                        *)
LEMMA SerialStep ==
    ASSUME StoryInv, RequestsInv, HandInv, EventNext, NEW s \in Slots,
           Busy(s), ~Busy(s)', ~touched[s]
    PROVE  Serially(s) \/ UNCHANGED allAftermathVars
<1>1. pc[s] # "idle" /\ pc'[s] = "idle"
  BY DEF Busy
<1>2. ASSUME NEW t \in Slots, Arrive(t) \/ Reading(t) \/ Fail(t)
      PROVE  UNCHANGED allAftermathVars
  BY <1>2, ArriveUnderway, ReadingUnderway DEF Fail
<1>3. ASSUME NEW t \in Slots, Storing(t) PROVE Serially(s)
  <2>1. s = t
    BY <1>1, <1>3, StoringKinds, FinishShape DEF StoryInv
  <2>2. /\ InHand(pc[s], task[s], view[s], Footprint(s))
        /\ pc[s] \in Choosing => profile[task[s].user] # NoProfile
    BY DEF HandInv
  <2> QED
    BY <1>3, <2>1, <2>2, StoringSerial
<1>4. ~Background
  BY <1>1 DEF Background
<1> QED
  BY <1>2, <1>3, <1>4 DEF EventNext

(* Whatever else is in flight: a request of the event under which nothing  *)
(* it decides on has changed commits what the serial operation does, or    *)
(* nothing.                                                                *)
THEOREM UndisturbedRequestsAreSerial ==
    ASSUME RoomConstants, AftermathConstants, EventConstants
    PROVE  EventSpec => UndisturbedIsSerial
<1>1. EventConstantsOK
  BY DEF EventConstantsOK
<1>2. MatchInit /\ AftermathInit /\ EventRequestInit => RequestsInv
  BY <1>1, InitRequests
<1>3. EventRequestInit => HandInv
  BY DEF EventRequestInit, HandInv, InHand, Choosing
<1>4. StoryInv /\ RequestsInv /\ HandInv /\ [EventNext]_allEventVars
         => RequestsInv' /\ HandInv'
  BY <1>1, RequestsStep, HandStep
<1>5. StoryInv /\ RequestsInv /\ HandInv /\ [EventNext]_allEventVars
         => [\A s \in Slots : Busy(s) /\ ~Busy(s)' /\ ~touched[s] =>
                Serially(s) \/ UNCHANGED allAftermathVars]_allEventVars
  BY SerialStep
<1> QED
  BY <1>2, <1>3, <1>4, <1>5, StoryAlways, PTL DEF EventSpec, UndisturbedIsSerial
=============================================================================
