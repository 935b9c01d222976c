------------------------------- MODULE Resolve -------------------------------
(***************************************************************************)
(* Lazy resolution: a recruit is replayed minute by minute, by whatever    *)
(* request looks next.  What the dice hold for a minute belongs to that    *)
(* minute (they are seeded on the recruit and the tick), so they are       *)
(* thrown when it passes and wait in `pending' for the request.            *)
(*                                                                         *)
(* `eager' is the same recruit as a reader of every minute would find it:  *)
(* the reference against which the replay of a span is checked.  `filed'   *)
(* is history, the minute its last permit application was made, if no      *)
(* recess has come between.                                                *)
(*                                                                         *)
(* Case files and rulings are seen through the vigour their clauses add up *)
(* to; a creature through the share of the maximum it takes.               *)
(***************************************************************************)
EXTENDS Integers, SequencesExt

CONSTANTS
  Rolls, AllOrders,                    \* what a minute may hold, what may be ordered
  Ladders,                             \* site |-> the floor each permit authorises
  MaxDepth, StartingHp, HpPerGrade, XpPerGrade, StartingGrade,
  StartingGold, FullSupplies, LowSupplies, SupplyPrice, DrainTicks, Slots,
  Processing, ExpediteFee, Stipend, Premium,
  RestPct, PullBackPct, HungerPct, VigourPct,
  BlowPct, GrievousPct,                \* the most a blow takes of the maximum
  Granted, GradeCap,                   \* the Dispensation, an assignment's freeze
  MaxCatchup,
  NoTick, MaxTick, MaxPromotions       \* bounds

VARIABLES now, orders, recruit, eager, pending, filed

vars == <<now, orders, recruit, eager, pending, filed>>

(* What one minute may hold: a ruling handed down and a file found, by the *)
(* vigour they add; a blow before its cap (0 when nobody is met), whether  *)
(* it is grievous, the experience of it, hunger if there is nothing to     *)
(* eat, and what is found.                                                 *)
Roll == [ruling: Int, file: Int, hit: Nat, grievous: BOOLEAN, xp: Nat,
         hunger: BOOLEAN, item: STRING, value: Nat, coin: Nat]

Orders == [site: DOMAIN Ladders, target: 1..MaxDepth, retreat: 10..45,
           policy: {"resupply", "hoard", "insure"}]

ASSUME ResolveAssumption ==
  /\ Rolls \subseteq Roll /\ AllOrders \subseteq Orders /\ AllOrders # {}
  /\ \A site \in DOMAIN Ladders :
       LET ladder == Ladders[site]
       IN  /\ ladder \in Seq(1..MaxDepth)
           /\ Last(ladder) = MaxDepth
           /\ \A i, j \in DOMAIN ladder : i < j => ladder[i] <= ladder[j]
  /\ {MaxDepth, StartingHp, StartingGrade, XpPerGrade, Processing, DrainTicks, SupplyPrice, MaxCatchup}
       \subseteq Nat \ {0}
  /\ {HpPerGrade, RestPct, PullBackPct, HungerPct, VigourPct, BlowPct, GrievousPct, Granted, GradeCap,
      ExpediteFee, MaxTick, MaxPromotions} \subseteq Nat
  /\ NoTick \notin Int

-----------------------------------------------------------------------------
(* Arithmetic *)

Rounded(n, d) == (2 * n + d) \div (2 * d)
Percent(n, pct) == Rounded(n * pct, 100)
AtLeast1(n) == Max({1, n})

(* maxHpForLevel: grade buys nothing past the deepest floor.               *)
HpAt(level) == StartingHp + (Min({level, MaxDepth}) - 1) * HpPerGrade

(* statsOf: vigour is capped as a share of the recruit's own maximum.      *)
Vigour(r) ==
  LET cap == Percent(HpAt(r.level), VigourPct)
  IN  Max({-cap, Min({cap, r.clauses})})

PermitLimit(r, o) ==
  LET ladder == Ladders[o.site]
  IN  IF r.permit <= Len(ladder) THEN ladder[r.permit] ELSE MaxDepth

(* authorisedDepth: the Dispensation is added to what would stop them.     *)
Authorised(r, o) == Min({o.target, PermitLimit(r, o), r.level, MaxDepth}) + Granted

Estate(r) == r.gold + FoldLeft(LAMBDA sum, i : sum + i.quantity * i.value, 0, r.stock)

(* pensionAward without Service Credit: service at the rate of a floor,    *)
(* and a tenth of the estate; Insure adds a quarter.                       *)
Award(service, floor, estate, insured) ==
  LET award == Rounded(service * (300 + 165 * floor) + 40 * estate, 400)
  IN  IF insured THEN Rounded(5 * award, 4) ELSE award

-----------------------------------------------------------------------------
(* One span.  A span state is the recruit, the minute reached, and what    *)
(* resolve() keeps for itself: the stat block and the deepest floor.       *)

(* syncVitals: the maximum is grade plus vigour, and nobody is above it.   *)
Sync(s) ==
  LET max == AtLeast1(HpAt(s.r.level) + s.vigour)
  IN  [s EXCEPT !.r.maxHp = max, !.r.hp = Min({@, max})]

(* The stat block after the files, or the grade, changed.                  *)
Carried(s) == Sync([s EXCEPT !.vigour = Vigour(s.r)])

Opened(r, from) == Carried([r |-> r, tick |-> from, vigour |-> 0, deepest |-> r.depth])

(* Forms due this minute are ruled before anything else happens in it.     *)
Ruled(s, roll) ==
  IF roll.ruling = 0 THEN s ELSE Carried([s EXCEPT !.r.clauses = @ + roll.ruling])

Paid(s) == [s EXCEPT !.r.gold = @ + Stipend]

(* Permits clear on their own schedule, wherever the recruit is.           *)
Approved(s) ==
  IF s.r.applied # NoTick /\ s.tick - s.r.applied >= Processing
  THEN [s EXCEPT !.r.permit = @ + 1, !.r.applied = NoTick]
  ELSE s

(* A share of the maximum, rounded up.                                     *)
Threshold(maxHp, pct) == (maxHp * pct + 99) \div 100

RetreatHp(s, o) == Threshold(s.r.maxHp, o.retreat)

Retreats(s, o) == s.r.hp <= RetreatHp(s, o) /\ s.r.depth > 0

(* At the surface and hurt.                                                *)
Rests(s) == s.r.depth = 0 /\ s.r.hp < s.r.maxHp

Healed(s, pct) == [s EXCEPT !.r.hp = Min({s.r.maxHp, @ + Percent(s.r.maxHp, pct)})]

PulledBack(s) == Healed([s EXCEPT !.r.depth = @ - 1], PullBackPct)

(* The cheapest stack, the first of them on a tie.                         *)
Cheapest(stock) ==
  CHOOSE i \in DOMAIN stock :
    \A j \in DOMAIN stock : stock[i].value < stock[j].value \/ (stock[i].value = stock[j].value /\ i <= j)

(* Stacks sold, cheapest first, until the purse covers what is needed.     *)
SoldFor(gold, stock, needed) ==
  LET after[k \in 0..Len(stock)] ==
        IF k = 0 THEN [gold |-> gold, stock |-> stock]
        ELSE LET p == after[k - 1]
                 i == Cheapest(p.stock)
             IN  IF p.gold >= needed THEN p
                 ELSE [gold  |-> p.gold + p.stock[i].quantity * p.stock[i].value,
                       stock |-> RemoveAt(p.stock, i)]
  IN  after[Len(stock)]

(* Depot 3 sells what the purse affords, and buys stock to help it.        *)
Resupplied(r) ==
  LET wanted == FullSupplies - r.supplies
      sold   == SoldFor(r.gold, r.stock, wanted * SupplyPrice)
      bought == Min({sold.gold \div SupplyPrice, wanted})
  IN  [r EXCEPT !.supplies = @ + bought, !.gold = sold.gold - bought * SupplyPrice,
                !.stock = sold.stock]

Rested(s, o) ==
  LET h == Healed(s, RestPct)
  IN  IF o.policy = "resupply" /\ s.r.supplies < LowSupplies
      THEN [h EXCEPT !.r = Resupplied(@)] ELSE h

(* The permit is what stops the descent: work here, and apply for more.    *)
Stalled(s, o) == s.r.depth >= PermitLimit(s.r, o) /\ o.target > PermitLimit(s.r, o)

Applied(s, o) ==
  IF Stalled(s, o) /\ s.r.applied = NoTick THEN [s EXCEPT !.r.applied = s.tick] ELSE s

(* Mutation: the grade and the order read without the permit.              *)
DescendedUnstalled(s, o) ==
  IF s.r.depth < Min({o.target, s.r.level}) + Granted
  THEN [s EXCEPT !.r.depth = @ + 1, !.deepest = Max({@, s.r.depth + 1})]
  ELSE s

Descended(s, o) ==
  IF ~Stalled(s, o) /\ s.r.depth < Authorised(s.r, o)
  THEN [s EXCEPT !.r.depth = @ + 1, !.deepest = Max({@, s.r.depth + 1})]
  ELSE s

(* Supplies burn, an empty pack costs health, Insure costs its premium.    *)
Fed(s) ==
  IF s.tick % DrainTicks = 0 THEN [s EXCEPT !.r.supplies = Max({0, @ - 1})] ELSE s

Bite(maxHp) == AtLeast1(Percent(maxHp, HungerPct))

Hungry(s, roll) ==
  IF s.r.supplies = 0 /\ roll.hunger THEN [s EXCEPT !.r.hp = @ - Bite(s.r.maxHp)] ELSE s

Insured(s, o) ==
  IF o.policy = "insure" /\ s.r.gold >= Premium THEN [s EXCEPT !.r.gold = @ - Premium] ELSE s

-----------------------------------------------------------------------------
(* Encounters *)

(* What grades and files may add up to.                                    *)
Maxima ==
  UNION {LET cap == Percent(HpAt(g), VigourPct) IN {AtLeast1(HpAt(g) + v) : v \in -cap..cap} :
           g \in Min({StartingGrade, MaxDepth})..MaxDepth}

(* The percentages are small beside the least maximum (35 of 40, with 4%   *)
(* and 35%): neither hunger nor a capped blow after it takes all there is, *)
(* nor more than the retreat order that is to cover it keeps back.         *)
ASSUME SharesAssumption ==
  \A m \in Maxima :
    LET taken == Bite(m) + AtLeast1(Percent(m, BlowPct))
    IN  /\ Bite(m) <= Threshold(m, 10)
        /\ taken < m /\ taken <= Threshold(m, BlowPct + HungerPct)

(* Mutation: the hazard of the site multiplied in after the cap.           *)
BlowCappedFirst(r, roll) ==
  AtLeast1(2 * Min({roll.hit, Percent(r.maxHp, IF roll.grievous THEN GrievousPct ELSE BlowPct)}))

(* encounterDamage: whatever the floor, the site and the grade made of it, *)
(* a blow is capped as a share of the recruit's own maximum.               *)
Blow(r, roll) ==
  AtLeast1(Min({roll.hit, Percent(r.maxHp, IF roll.grievous THEN GrievousPct ELSE BlowPct)}))

Struck(s, roll) ==
  [s EXCEPT !.r.hp = @ - Blow(s.r, roll), !.r.xp = @ + roll.xp]

(* Mutation: a blow that takes exactly all there is survived.              *)
KilledPastZero(s) == s.r.hp < 0

Killed(s) == s.r.hp <= 0

(* The award is fixed with the death, on the deepest floor of the span.    *)
Dead(s, o) ==
  [s EXCEPT !.r.hp = 0, !.r.alive = FALSE, !.r.last = s.tick,
            !.r.award = Award(s.tick - s.r.born, s.deepest, Estate(s.r), o.policy = "insure")]

(* A stack is re-appraised, a new one takes a slot, and with no slot left  *)
(* the item is liquidated; a hoarder holds out for a better price.         *)
Stowed(r, item, value, o) ==
  LET held == {i \in DOMAIN r.stock : r.stock[i].item = item}
      again(i) == [i EXCEPT !.quantity = @ + 1,
                            !.value = Rounded(i.value * i.quantity + value, i.quantity + 1)]
  IN  IF held # {}
      THEN [r EXCEPT !.stock = [i \in DOMAIN @ |-> IF i \in held THEN again(@[i]) ELSE @[i]]]
      ELSE IF Len(r.stock) >= Slots
      THEN [r EXCEPT !.gold = @ + IF o.policy = "hoard" THEN Percent(value, 115) ELSE value]
      ELSE [r EXCEPT !.stock = Append(@, [item |-> item, quantity |-> 1, value |-> value])]

(* A find is a case file or a stack, never both.                           *)
Found(s, roll, o) ==
  IF roll.file # 0 THEN Carried([s EXCEPT !.r.clauses = @ + roll.file])
  ELSE IF roll.value > 0 THEN [s EXCEPT !.r = Stowed(@, roll.item, roll.value, o)]
  ELSE s

(* xpForLevel.                                                             *)
GradeCost(level) == XpPerGrade * level * level

(* Experience spent grade by grade.                                        *)
Graded(level, xp, standing) ==
  LET after[k \in 0..MaxPromotions] ==
        IF k = 0 THEN [level |-> level, xp |-> xp, standing |-> standing]
        ELSE LET p    == after[k - 1]
                 cost == GradeCost(p.level)
             IN  IF p.level < GradeCap /\ p.xp >= cost
                 THEN [level |-> p.level + 1, xp |-> p.xp - cost, standing |-> p.standing + 2]
                 ELSE p
  IN  after[MaxPromotions]

(* applyLevelUps: a promotion heals.                                       *)
LevelledUp(r) ==
  LET g == Graded(r.level, r.xp, r.standing)
  IN  IF g.level = r.level THEN r
      ELSE [r EXCEPT !.level = g.level, !.xp = g.xp, !.standing = g.standing,
                     !.maxHp = HpAt(g.level), !.hp = HpAt(g.level)]

(* Mutation: the stat block of the old grade put back after a promotion.   *)
PromotedOnOldStats(s) ==
  LET r == LevelledUp(s.r)
  IN  IF r.level = s.r.level THEN s ELSE Sync([s EXCEPT !.r = r])

Promoted(s) ==
  LET r == LevelledUp(s.r)
  IN  IF r.level = s.r.level THEN s ELSE Carried([s EXCEPT !.r = r])

(* Delving: the order of resolve()'s steps 3 to 5.                         *)
Delved(s, roll, o) ==
  LET there == Insured(Hungry(Fed(Descended(Applied(s, o), o)), roll), o)
      after == Struck(there, roll)
  IN  IF roll.hit = 0 THEN [there EXCEPT !.r.gold = @ + roll.coin]
      ELSE IF Killed(after) THEN Dead(after, o)
      ELSE Promoted(Found(after, roll, o))

(* One minute.  Withdrawing wins over everything, then resting.            *)
Minute(s, roll, o) ==
  LET begun == Approved(Paid(Ruled([s EXCEPT !.tick = @ + 1], roll)))
  IN  IF ~s.r.alive THEN s
      ELSE IF Retreats(begun, o) THEN PulledBack(begun)
      ELSE IF Rests(begun) THEN Rested(begun, o)
      ELSE Delved(begun, roll, o)

(* What of a span is replayed: all of it, or the end when it is too long.  *)
Replayed(rolls) == SubSeq(rolls, Max({1, Len(rolls) - MaxCatchup + 1}), Len(rolls))

(* The minutes of a span, one after another.                               *)
Played(r, rolls, o, from) ==
  LET after[k \in 0..Len(rolls)] ==
        IF k = 0 THEN Opened(r, from) ELSE Minute(after[k - 1], rolls[k], o)
  IN  after[Len(rolls)]

(* resolve(): the minutes up to `to', played by these rolls.               *)
Resolved(r, rolls, o, to) ==
  LET span == Replayed(rolls)
      end  == Played(r, span, o, to - Len(span)).r
  IN  IF rolls = <<>> \/ ~r.alive THEN r
      ELSE IF end.alive THEN [end EXCEPT !.last = to] ELSE end

-----------------------------------------------------------------------------
(* Requests *)

(* newRecruit, at the grade the officer's purchases start it on.           *)
NewRecruit ==
  [alive |-> TRUE, level |-> StartingGrade, xp |-> 0, standing |-> 0,
   hp |-> HpAt(StartingGrade), maxHp |-> HpAt(StartingGrade), depth |-> 0,
   permit |-> 1, applied |-> NoTick, expedited |-> NoTick,
   gold |-> StartingGold, supplies |-> FullSupplies, stock |-> <<>>, clauses |-> 0,
   born |-> 0, last |-> 0, award |-> 0]

Init ==
  /\ now = 0
  /\ orders \in AllOrders
  /\ recruit = NewRecruit
  /\ eager = NewRecruit
  /\ pending = <<>>
  /\ filed = NoTick

(* A minute passes.  Nothing runs; what it holds is settled all the same.  *)
Tick(roll) ==
  /\ now < MaxTick
  /\ recruit.alive
  /\ now' = now + 1
  /\ pending' = Append(pending, roll)
  /\ eager' = Resolved(eager, <<roll>>, orders, now')
  /\ filed' = IF eager'.applied \notin {eager.applied, NoTick} THEN now' ELSE filed
  /\ UNCHANGED <<orders, recruit>>

CaughtUp == Resolved(recruit, pending, orders, now)

(* What a long absence skips is skipped for good: the reference follows.   *)
Recess == Len(pending) > MaxCatchup
Reference(caughtUp) == IF Recess THEN caughtUp ELSE eager

(* Any request: the span it finds is resolved and saved.                   *)
CatchUp ==
  /\ recruit' = CaughtUp
  /\ eager' = Reference(CaughtUp)
  /\ pending' = <<>>
  /\ filed' = IF Recess THEN NoTick ELSE filed

Read ==
  /\ pending # <<>>
  /\ CatchUp
  /\ UNCHANGED <<now, orders>>

(* Mutation: the orders saved over a span still to be resolved.            *)
UpdateOrdersFirst(o) ==
  /\ orders' = o
  /\ UNCHANGED <<now, recruit, eager, pending, filed>>

(* Form SO-1: resolved first, so that it changes no tick already lived.    *)
UpdateOrders(o) ==
  /\ CatchUp
  /\ orders' = o
  /\ UNCHANGED now

(* pendingPermitOf: the minute an application is shown to clear in.        *)
ReadyTick(r) == r.applied + Processing

(* Mutation: the marker of the once-per-application rule not kept.         *)
ExpeditedUnmarked(r) ==
  [r EXCEPT !.gold = @ - ExpediteFee * r.permit * r.permit,
            !.applied = @ - AtLeast1(Processing - (r.last - @)) \div 2]

(* Halves what is left of the wait, by dating the application earlier.     *)
Expedited(r) ==
  LET remaining == AtLeast1(Processing - (r.last - r.applied))
      applied   == r.applied - remaining \div 2
  IN  [r EXCEPT !.gold = @ - ExpediteFee * r.permit * r.permit,
                !.applied = applied, !.expedited = applied]

(* Form 4-E: once per application, for gold, on the resolved recruit.  It  *)
(* does not ask whether the recruit is alive.                              *)
ExpeditePermit ==
  /\ CaughtUp.applied # NoTick
  /\ CaughtUp.expedited # CaughtUp.applied
  /\ CaughtUp.gold >= ExpediteFee * CaughtUp.permit * CaughtUp.permit
  /\ recruit' = Expedited(CaughtUp)
  /\ eager' = Expedited(Reference(CaughtUp))
  /\ pending' = <<>>
  /\ filed' = IF Recess THEN NoTick ELSE filed
  /\ UNCHANGED <<now, orders>>

Next ==
  \/ \E roll \in Rolls : Tick(roll)
  \/ Read
  \/ \E o \in AllOrders : UpdateOrders(o)
  \/ ExpeditePermit

Spec == Init /\ [][Next]_vars

-----------------------------------------------------------------------------
(* Properties *)

Unassessed(r) == [r EXCEPT !.award = 0]

(* resolve.test.ts:47, a span cut anywhere, with orders and forms in       *)
(* between, leaves the recruit it would have left in one pass, or minute   *)
(* by minute: nothing resolve() keeps for itself outlives a request.       *)
CutsDoNotMatter == pending = <<>> => Unassessed(recruit) = Unassessed(eager)

(* A recruit serves on its feet and inside its maximum; hunger alone does  *)
(* not kill.  Who is lost is lost underground, in the minute on record,    *)
(* and under a retreat order above what hunger and a capped blow take      *)
(* together only a grievous one does it (tuning.ts:365), however rulings   *)
(* and grades moved the maximum.                                           *)
LostOnlyBelow ==
  /\ \A r \in {recruit, eager} :
       /\ r.alive => r.hp \in 1..r.maxHp
       /\ ~r.alive => r.hp = 0 /\ r.depth > 0 /\ r.born < r.last
  /\ ~eager.alive /\ pending # <<>> /\ eager.last = now
       /\ orders.retreat >= BlowPct + HungerPct
       => Last(pending).grievous

(* The steps of the recruit, and those of the reference that are minutes:  *)
(* at a request it only follows the recruit, over a recess.                *)
Steps ==
  {<<recruit, recruit'>>} \cup IF pending' = <<>> THEN {} ELSE {<<eager, eager'>>}

(* A recruit is never sent below what permit, grade and order authorise,   *)
(* however the orders and the site have changed since.                     *)
NeverSentBeyond ==
  [][\A step \in Steps :
       step[2].depth > step[1].depth => step[2].depth <= Authorised(step[2], orders)]_vars

(* A permit takes its time: one expediting halves the wait, and there is   *)
(* only one to an application.  What a request shows of the wait is ahead: *)
(* an application that was due has been granted by the minutes it played.  *)
PermitsTakeTheirTime ==
  [][/\ pending' # <<>> /\ eager'.permit > eager.permit /\ filed # NoTick =>
          now' - filed >= Processing - Processing \div 2
     /\ pending' = <<>> /\ recruit'.alive /\ recruit'.applied # NoTick =>
          ReadyTick(recruit') > now']_vars
=============================================================================
