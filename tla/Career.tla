------------------------------- MODULE Career -------------------------------
(***************************************************************************)
(* One officer's account, one committed transaction per step.              *)
(*                                                                         *)
(* `recruits' is the characters table of the account in insertion order,   *)
(* `deaths' the deaths table, `pension', `transfer', `office' and          *)
(* `registry' the rows of the same names, `assignment' the assignments     *)
(* row.  `clock' is the current tick.  `banked' and `surrendered' are      *)
(* history: which death records were added to the pension, and how much    *)
(* pension Form T-1 has taken back.                                        *)
(*                                                                         *)
(* A handler that throws rolls its transaction back, so a refusal is a     *)
(* guard here.  What a span of ticks does to a recruit is left open within *)
(* the limits the resolver keeps; Form 4-E, filings and the cabinet are    *)
(* seen only through the gold they move.                                   *)
(***************************************************************************)
EXTENDS Ladders, Sequences

CONSTANTS
  MaxTick, MaxRecruits,                  \* bounds of the model
  MaxGold, MaxStock, MaxDepth, MaxPermit,
  StartingGold, MinService, PensionPerCommendation,
  ServiceRate, DepthFactor, EstateRate,  \* pensionAward's rates, in hundredths
  Credit,                                \* Service Credit by tier, in hundredths
  Rungs, Requisitions, Commendations,    \* the catalogues
  Posts,                                 \* the posts of the registry
  Licences, Wage, Fee,                   \* Tier III licences; hire and form prices
  Assignments, SoleCharge, NoAssignment, Reward

ASSUME CareerAssumption ==
  /\ {MaxTick, MaxRecruits, MaxGold, MaxStock, MaxDepth, MaxPermit} \subseteq Nat
  /\ {StartingGold, MinService, ServiceRate, DepthFactor, EstateRate} \subseteq Nat
  /\ {Licences, Wage, Fee, Reward} \subseteq Nat
  /\ PensionPerCommendation \in Nat \ {0}
  /\ Credit \in [0..TopTier -> Nat]
  /\ Rungs \subseteq Entry /\ Requisitions \subseteq Entry /\ Commendations \subseteq Entry
  /\ SoleCharge \subseteq Assignments /\ NoAssignment \notin Assignments

VARIABLES clock, recruits, deaths, pension, transfer, office, registry, assignment,
          banked, surrendered

vars == <<clock, recruits, deaths, pension, transfer, office, registry, assignment,
          banked, surrendered>>

Recruit == [num: Nat, permit: Nat, alive: BOOLEAN, born: Nat, last: Nat,
            gold: Nat, stock: Nat, depth: Nat]
Death == [who: Nat, award: Nat, handled: Nat, cause: {"killed", "separated", "transferred"}]
Pension == [total: Nat, spent: Nat, unlocks: SUBSET Rungs]
Transfer == [total: Nat, spent: Nat, unlocks: SUBSET Commendations, careers: Nat]
Assignment == [active: Assignments \cup {NoAssignment}, completed: SUBSET Assignments]

(* Mutation: the latest recruit taken for the living one.                  *)
NewestRow == {Len(recruits)}

(* The living recruit, by position: the row `WHERE account_id = $1 AND alive'. *)
Active == {i \in DOMAIN recruits : recruits[i].alive}

(* `ORDER BY recruit_num DESC LIMIT 1' over a table.                        *)
LatestIn(table) ==
  {i \in DOMAIN table : \A j \in DOMAIN table : table[j].num <= table[i].num}

(* `ORDER BY at DESC LIMIT 1'.                                              *)
LatestDeath == deaths[Len(deaths)]

-----------------------------------------------------------------------------
(* Succession *)

(* A fresh recruit: an empty desk, a full cabinet, a birth at this tick.   *)
NewRecruit(num, permit, tick) ==
  [num |-> num, permit |-> permit, alive |-> TRUE, born |-> tick, last |-> tick,
   gold |-> StartingGold, stock |-> MaxStock, depth |-> 0]

(* A successor's permit is one tier below the predecessor's, never below D-1. *)
InheritedPermit(tier) == IF tier > 1 THEN tier - 1 ELSE 1

(* A posting's permit is what Transferred Dispensation bought.             *)
StartingPermit(owned) == <<1, 2, 4, 6>>[1 + OwnedTier(owned, "intake")]

Successor(previous, tick) ==
  NewRecruit(previous.num + 1, InheritedPermit(previous.permit), tick)

Posting(owned, tick) == NewRecruit(1, StartingPermit(owned), tick)

-----------------------------------------------------------------------------
(* What a span of ticks may do *)

Estate(r) == r.gold + r.stock

(* pensionAward: service at a rate set by depth, plus a share of the estate, *)
(* scaled by Service Credit and rounded.                                   *)
Award(unlocks, service, depth, estate) ==
  LET credit == Credit[OwnedTier(unlocks, "service")]
      base   == service * ServiceRate * (100 + depth * DepthFactor) + estate * EstateRate * 100
  IN  (base * credit + 500000) \div 1000000

(* The insured bonus, a quarter, rounded to nearest.                       *)
Insured(award) == (5 * award + 2) \div 4

(* Mutation: the record filed and the recruit left serving.                *)
LeftOpen(rec) == rec

(* A career closed, by a death or by its own form.                         *)
Closed(rec) == [rec EXCEPT !.alive = FALSE]

(* A recruit as a span leaves it.                                          *)
AfterSpan(r, tick, permit, gold, stock, depth) ==
  [r EXCEPT !.last = tick, !.permit = permit, !.gold = gold, !.stock = stock, !.depth = depth]

(* The recruit after a span it survives, wages, forms and shares included. *)
Survivors(r) ==
  {AfterSpan(r, clock, p, g, s, d) :
     p \in r.permit..MaxPermit, g \in 0..MaxGold, s \in 0..MaxStock, d \in 0..MaxDepth}

(* The recruit after a span it does not survive: it stops at the tick it   *)
(* died in, below ground.                                                  *)
Casualties(r) ==
  {Closed(AfterSpan(r, t, p, g, s, d)) :
     t \in (r.last + 1)..clock, p \in r.permit..MaxPermit,
     g \in 0..MaxGold, s \in 0..MaxStock, d \in 1..MaxDepth}

(* What the pension office assesses for a casualty.  Death pays on the     *)
(* deepest floor of the span, at least the one it happened on; a Special   *)
(* Assignment may suspend the unlocks it is scaled by.                     *)
Assessed(c) ==
  LET held  == {pension.unlocks} \cup (IF assignment.active = NoAssignment THEN {} ELSE {{}})
      plain == {Award(unlocks, c.last - c.born, floor, Estate(c)) :
                  unlocks \in held, floor \in c.depth..MaxDepth}
  IN  plain \cup {Insured(a) : a \in plain}

(* resolve(): nothing when no tick has passed; otherwise the span, with    *)
(* the award and the gold on the casualty when it was the last one.  A     *)
(* regional share may still reach the purse after the death is assessed.   *)
CatchUp(r) ==
  IF clock <= r.last \/ ~r.alive
  THEN {[rec |-> r, award |-> 0, handled |-> 0]}
  ELSE {[rec |-> s, award |-> 0, handled |-> 0] : s \in Survivors(r)}
       \cup UNION {{[rec |-> [c EXCEPT !.gold = g], award |-> a, handled |-> c.gold] :
                       a \in Assessed(c), g \in c.gold..MaxGold} : c \in Casualties(r)}

(* One rung redeemed: paid out of the total, kept in the spent.            *)
Redeemed(p, e) ==
  [total |-> p.total - e.cost, spent |-> p.spent + e.cost, unlocks |-> p.unlocks \cup {e}]

(* runStaff, seen from the pension: an appointed Junior Officer whose      *)
(* recruit lived through the span may redeem the cheapest rung the ladder  *)
(* allows next; the reserve and the payroll may keep it from doing so.     *)
Redemptions(r, o) ==
  {pension} \cup
  {Redeemed(pension, e) :
     e \in IF "officer" \in registry /\ o.rec.alive /\ o.rec.last > r.last
           THEN CheapestOf(Affordable(Rungs, pension.unlocks, Licences, pension.total))
           ELSE {}}

(* applyAssignment: a death closes a Sole Charge file; a target reached    *)
(* closes any other and pays its Commendations.                            *)
Failed(o) == IF o.rec.alive THEN {} ELSE SoleCharge

Assessments(o) ==
  {[assignment |-> assignment, transfer |-> transfer]} \cup
  {[assignment |-> [assignment EXCEPT !.active = NoAssignment], transfer |-> transfer] :
     x \in {assignment.active} \cap Failed(o)}
  \cup
  {[assignment |-> [active |-> NoAssignment, completed |-> assignment.completed \cup {x}],
    transfer |-> [transfer EXCEPT !.total = @ + Reward]] :
     x \in ({assignment.active} \cap Assignments) \ Failed(o)}

(* Mutation: a write path that resolves a death and does not record it.    *)
Unrecorded(i, o) == deaths

(* The death record a fatal span leaves.                                   *)
Recorded(i, o) ==
  IF o.rec.alive THEN deaths
  ELSE Append(deaths, [who |-> i, award |-> o.award, handled |-> o.handled, cause |-> "killed"])

(* Everything one resolution of recruit i may leave, as loadState writes it. *)
Lived(i) ==
  UNION {{[rec |-> o.rec, deaths |-> Recorded(i, o), pension |-> p,
           assignment |-> w.assignment, transfer |-> w.transfer] :
             p \in Redemptions(recruits[i], o), w \in Assessments(o)} :
         o \in CatchUp(recruits[i])}

(* The same for the writes: loadStateInside returns early on a zero-tick span. *)
Inside(i) ==
  IF clock > recruits[i].last THEN Lived(i)
  ELSE {[rec |-> recruits[i], deaths |-> deaths, pension |-> pension,
         assignment |-> assignment, transfer |-> transfer]}

-----------------------------------------------------------------------------
(* The handlers *)

Init ==
  /\ clock = 0
  /\ recruits = <<NewRecruit(1, 1, 0)>>
  /\ deaths = <<>>
  /\ pension = [total |-> 0, spent |-> 0, unlocks |-> {}]
  /\ transfer = [total |-> 0, spent |-> 0, unlocks |-> {}, careers |-> 0]
  /\ office = {}
  /\ registry = {}
  /\ assignment = [active |-> NoAssignment, completed |-> {}]
  /\ banked = {}
  /\ surrendered = 0

(* World time.                                                             *)
Tick ==
  /\ clock < MaxTick
  /\ clock' = clock + 1
  /\ UNCHANGED <<recruits, deaths, pension, transfer, office, registry, assignment,
                 banked, surrendered>>

(* The commit of a handler that changed nothing but recruit i, after the   *)
(* resolution s it began with.                                             *)
Save(i, s, rec) ==
  /\ recruits' = [recruits EXCEPT ![i] = rec]
  /\ deaths' = s.deaths
  /\ pension' = s.pension
  /\ assignment' = s.assignment
  /\ transfer' = s.transfer
  /\ UNCHANGED <<clock, banked, surrendered>>

Charged(rec, cost) == [rec EXCEPT !.gold = @ - cost]

(* GET /v1/state.  A dead recruit still has a screen.                      *)
LoadState ==
  \/ /\ Active = {}
     /\ UNCHANGED vars
  \/ \E i \in Active : \E s \in Lived(i) :
       /\ Save(i, s, s.rec)
       /\ UNCHANGED <<office, registry>>

(* Standing orders, countersignatures and the developer's clock change     *)
(* nothing here but what the resolution they begin with does.              *)
ResolveOnly ==
  \E i \in Active : \E s \in Inside(i) :
    /\ Save(i, s, s.rec)
    /\ UNCHANGED <<office, registry>>

(* Form 4-E: whatever the resolution returned pays, dead or alive.         *)
ExpeditePermit ==
  \E i \in Active : \E s \in Inside(i) :
    /\ s.rec.gold >= Fee
    /\ Save(i, s, Charged(s.rec, Fee))
    /\ UNCHANGED <<office, registry>>

(* Forms 12-C and 19: a living recruit's purse only.                       *)
FileForm ==
  \E i \in Active : \E s \in Inside(i) :
    /\ s.rec.alive
    /\ s.rec.gold >= Fee
    /\ Save(i, s, Charged(s.rec, Fee))
    /\ UNCHANGED <<office, registry>>

(* Appointment to a vacant post.                                           *)
HireStaff ==
  \E i \in Active : \E s \in Inside(i), role \in Posts \ registry :
    /\ s.rec.gold >= Wage
    /\ registry' = registry \cup {role}
    /\ Save(i, s, Charged(s.rec, Wage))
    /\ UNCHANGED office

(* A sale from the cabinet, one stack or many: stock out, the market's     *)
(* price in.                                                               *)
SellItem ==
  \E i \in Active : \E s \in Inside(i) : \E n \in 1..s.rec.stock, g \in 0..MaxGold :
    /\ g >= s.rec.gold
    /\ Save(i, s, [s.rec EXCEPT !.stock = @ - n, !.gold = g])
    /\ UNCHANGED <<office, registry>>

PurchaseRequisition ==
  \E i \in Active : \E s \in Inside(i), e \in Requisitions :
    /\ NextOnLadder(office, e)
    /\ s.rec.gold >= e.cost
    /\ office' = office \cup {e}
    /\ Save(i, s, Charged(s.rec, e.cost))
    /\ UNCHANGED registry

(* Prestige spend: no resolution, and no recruit needed.                   *)
PurchaseUnlock ==
  \E e \in Affordable(Rungs, pension.unlocks, Licences, pension.total) :
    /\ pension' = Redeemed(pension, e)
    /\ UNCHANGED <<clock, recruits, deaths, transfer, office, registry, assignment,
                   banked, surrendered>>

PurchaseCommendation ==
  \E e \in Commendations :
    /\ NextOnLadder(transfer.unlocks, e)
    /\ transfer.total >= e.cost
    /\ transfer' = [transfer EXCEPT !.total = @ - e.cost, !.spent = @ + e.cost,
                                    !.unlocks = @ \cup {e}]
    /\ UNCHANGED <<clock, recruits, deaths, pension, office, registry, assignment,
                   banked, surrendered>>

(* claimInside: bank an award, take delivery of the successor.  The        *)
(* predecessor is the latest recruit of the table as it then stands.       *)
ClaimInside(table, ledger, award) ==
  /\ Len(table) < MaxRecruits
  /\ \E j \in LatestIn(table) : recruits' = Append(table, Successor(table[j], clock))
  /\ pension' = [ledger EXCEPT !.total = @ + award]

(* Mutation: the first death on file paid, and not the last.               *)
ClaimPensionOldest ==
  /\ Active = {}
  /\ deaths # <<>>
  /\ ClaimInside(recruits, pension, deaths[1].award)
  /\ banked' = banked \cup {Len(deaths)}
  /\ UNCHANGED <<clock, deaths, transfer, office, registry, assignment, surrendered>>

(* FILE FOR PENSION & CONTINUE.                                            *)
ClaimPension ==
  /\ Active = {}
  /\ deaths # <<>>
  /\ ClaimInside(recruits, pension, LatestDeath.award)
  /\ banked' = banked \cup {Len(deaths)}
  /\ UNCHANGED <<clock, deaths, transfer, office, registry, assignment, surrendered>>

(* Form R-1: pays on where the recruit stands, and banks at once.          *)
RetireRecruit ==
  \E i \in Active : \E s \in Inside(i) :
    LET service == s.rec.last - s.rec.born
        award   == Award(s.pension.unlocks, service, s.rec.depth, Estate(s.rec))
    IN  /\ s.rec.alive
        /\ service >= MinService
        /\ deaths' = Append(s.deaths, [who |-> i, award |-> award, handled |-> s.rec.gold,
                                       cause |-> "separated"])
        /\ ClaimInside([recruits EXCEPT ![i] = Closed(s.rec)], s.pension, award)
        /\ banked' = banked \cup {Len(deaths')}
        /\ assignment' = s.assignment
        /\ transfer' = s.transfer
        /\ UNCHANGED <<clock, office, registry, surrendered>>

(* Mutation: the award rounded up.                                         *)
CommendationAwardRoundedUp(total) ==
  (total + PensionPerCommendation - 1) \div PensionPerCommendation

(* commendationAward: one per so much pension ever banked.                 *)
CommendationAward(total) == total \div PensionPerCommendation

(* Mutation: the rungs go, and what was spent on them stays on the meter.  *)
SurrenderedKeepingSpent(p) == [total |-> 0, spent |-> p.spent, unlocks |-> {}]

(* The pension goes to zero, including what was already spent.             *)
Surrendered(p) == [total |-> 0, spent |-> 0, unlocks |-> {}]

(* Mutation: the posting opened at the tick read before the resolution.    *)
PostingTickUnresolved(before, after) == before.last

(* The tick a new posting starts at: the last one its predecessor served.  *)
PostingTick(before, after) == after.last

(* Form T-1: Commendations for the pension, the recruit and the rungs.     *)
FileTransfer ==
  \E i \in Active : \E s \in Inside(i) :
    LET surrender == s.pension.total + s.pension.spent
        award     == CommendationAward(surrender)
    IN  /\ award >= 1
        /\ Len(recruits) < MaxRecruits
        /\ transfer' = [s.transfer EXCEPT !.total = @ + award, !.careers = @ + 1]
        /\ pension' = Surrendered(s.pension)
        /\ recruits' = Append([recruits EXCEPT ![i] = Closed(s.rec)],
                              Posting(s.transfer.unlocks, PostingTick(recruits[i], s.rec)))
        /\ deaths' = Append(s.deaths, [who |-> i, award |-> 0, handled |-> s.rec.gold,
                                       cause |-> "transferred"])
        /\ assignment' = s.assignment
        /\ surrendered' = surrendered + surrender
        /\ UNCHANGED <<clock, office, registry, banked>>

AcceptAssignment ==
  \E i \in Active : \E s \in Inside(i), x \in Assignments :
    /\ s.assignment.active = NoAssignment
    /\ x \notin s.assignment.completed
    /\ recruits' = [recruits EXCEPT ![i] = s.rec]
    /\ deaths' = s.deaths
    /\ pension' = s.pension
    /\ transfer' = s.transfer
    /\ assignment' = [s.assignment EXCEPT !.active = x]
    /\ UNCHANGED <<clock, office, registry, banked, surrendered>>

(* Handing one back: no resolution, and no recruit needed.                 *)
AbandonAssignment ==
  /\ assignment.active # NoAssignment
  /\ assignment' = [assignment EXCEPT !.active = NoAssignment]
  /\ UNCHANGED <<clock, recruits, deaths, pension, transfer, office, registry,
                 banked, surrendered>>

Next ==
  \/ Tick \/ LoadState \/ ResolveOnly
  \/ ExpeditePermit \/ FileForm \/ HireStaff \/ SellItem \/ PurchaseRequisition
  \/ PurchaseUnlock \/ PurchaseCommendation
  \/ ClaimPension \/ RetireRecruit \/ FileTransfer
  \/ AcceptAssignment \/ AbandonAssignment

(* The officer files for the pension eventually: the overlay offers nothing *)
(* else to do.                                                             *)
Spec == Init /\ [][Next]_vars /\ WF_vars(ClaimPension)

-----------------------------------------------------------------------------
(* Safety *)

TypeOK ==
  /\ clock \in Nat
  /\ recruits \in Seq(Recruit)
  /\ deaths \in Seq(Death)
  /\ pension \in Pension
  /\ transfer \in Transfer
  /\ office \subseteq Requisitions
  /\ registry \subseteq Posts
  /\ assignment \in Assignment
  /\ banked \subseteq Nat
  /\ surrendered \in Nat

(* At most one recruit lives, and it is the one taken delivery of last: no *)
(* order of deaths, claims, retirements and transfers revives an older one *)
(* or issues a second (the index characters_one_alive_per_account is never *)
(* what stops a handler).                                                  *)
OnlyNewestServes == Active \subseteq {Len(recruits)}

(* With nobody serving, the award the overlay offers is the newest         *)
(* recruit's own: its death was recorded by whichever request met it, it   *)
(* is the latest on file, and it has not been paid before.                 *)
PendingIsTheirs ==
  Active = {} =>
    /\ deaths # <<>>
    /\ LatestDeath.who = Len(recruits)
    /\ LatestDeath.cause = "killed"
    /\ Len(deaths) \notin banked

(* Careers follow one another: a recruit serves from its birth on, and no  *)
(* tick is served by two of an account's recruits, even across a Form T-1  *)
(* whose posting starts at the tick the last one was resolved to.          *)
CareersDoNotOverlap ==
  /\ \A i \in DOMAIN recruits : recruits[i].born <= recruits[i].last /\ recruits[i].last <= clock
  /\ \A i, j \in DOMAIN recruits : i < j => recruits[i].last <= recruits[j].born

Awarded == MapThenSumSet(LAMBDA k : deaths[k].award, banked)

(* Every point of pension is an award that was banked once: what is held,  *)
(* spent on rungs and surrendered to Form T-1 is the sum of those awards,  *)
(* whoever redeems and in whatever order.  Commendations come from closed  *)
(* assignments and surrendered pension only, at PensionPerCommendation     *)
(* each: no service is paid for twice, however many transfers are filed.   *)
AwardsAccounted ==
  LET paidFor == transfer.total + transfer.spent - Reward * Cardinality(assignment.completed)
  IN  /\ pension.total + pension.spent + surrendered = Awarded
      /\ paidFor * PensionPerCommendation <= surrendered

(* A rung is never held without the ones below it, and no more Tier III    *)
(* rungs than there are licences, whether the officer or the Junior        *)
(* Officer bought them.                                                    *)
LaddersClimbedInOrder ==
  /\ \A owned \in {pension.unlocks, office, transfer.unlocks} : \A e \in owned :
       \A t \in 1..(e.tier - 1) : \E x \in owned : x.track = e.track /\ x.tier = t
  /\ LicencesSpent(pension.unlocks) <= Licences

-----------------------------------------------------------------------------
(* What a step may never do *)

(* A closed career stays closed: no purchase, sale, form or resolution     *)
(* changes a recruit once a committed transaction has left it dead.        *)
DeadAreClosed ==
  [][\A i \in DOMAIN recruits : ~recruits[i].alive => recruits'[i] = recruits[i]]_vars

(* The account keeps the promise of Entitlement: an award that falls due   *)
(* at a death is paid exactly once and in full, and nothing but filing for *)
(* it, retiring, spending and transferring moves the pension.              *)
Promise == INSTANCE Entitlement WITH
  serving <- Active # {},
  due     <- IF Active = {} THEN LatestDeath.award ELSE 0,
  held    <- pension.total,
  used    <- pension.spent

KeepsThePromise == Promise!Spec

-----------------------------------------------------------------------------
(* Liveness *)

(* Death is not the end: an account with nobody serving takes delivery of  *)
(* a successor, given an officer who keeps filing for the pension.         *)
DeathIsNotTheEnd == (Active = {} /\ Len(recruits) < MaxRecruits) ~> (Active # {})

-----------------------------------------------------------------------------
(* What the comments of the code say, and the code does not keep *)

(* service.ts, fileTransfer: the award of a transfer includes everything   *)
(* the officer earned up to the moment they filed.  A death met by that    *)
(* resolution has been paid for, or is still owed.                         *)
NoAwardLost ==
  \A k \in DOMAIN deaths :
    deaths[k].cause = "killed" => k \in banked \/ (k = Len(deaths) /\ Active = {})
=============================================================================
