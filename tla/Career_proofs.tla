---------------------------- MODULE Career_proofs ----------------------------
(***************************************************************************)
(* Theorems about Career, and about the views derived from it, for every   *)
(* value of the constants.                                                 *)
(*                                                                         *)
(* The argument: every handler but three only saves the recruit its own    *)
(* resolution returned, so what a resolution may leave (Lived) is          *)
(* described once, and a commit of it (Save) is shown once to preserve the *)
(* invariant.  The claim, the retirement and the transfer, which close one *)
(* recruit and append another, are proved one by one.                      *)
(*                                                                         *)
(* What the ledgers owe the careers is proved after it: the ladders are    *)
(* climbed in order, the pension is the sum of the awards banked, and what *)
(* a screen offers or advises the handlers accept.                         *)
(***************************************************************************)
EXTENDS Views, SequenceTheorems, FiniteSetTheorems, WellFoundedInduction, TLAPS

-----------------------------------------------------------------------------
(* Ladders, awards and fresh recruits *)

(* What CareerAssumption says of each constant.                            *)
LEMMA Constants ==
  /\ MaxTick \in Nat /\ MaxRecruits \in Nat
  /\ MaxGold \in Nat /\ MaxStock \in Nat /\ MaxDepth \in Nat /\ MaxPermit \in Nat
  /\ StartingGold \in Nat /\ MinService \in Nat
  /\ ServiceRate \in Nat /\ DepthFactor \in Nat /\ EstateRate \in Nat
  /\ Licences \in Nat /\ Wage \in Nat /\ Fee \in Nat /\ Reward \in Nat
  /\ PensionPerCommendation \in Nat /\ PensionPerCommendation > 0
  /\ Credit \in [0..3 -> Nat]
  /\ Rungs \subseteq Entry /\ Requisitions \subseteq Entry /\ Commendations \subseteq Entry
  /\ NoAssignment \notin Assignments
BY CareerAssumption DEF TopTier

(* A held tier is one of 0, 1, 2 and 3.                                    *)
LEMMA OwnedTierRange ==
  ASSUME NEW owned, owned \subseteq Entry, NEW track
  PROVE  OwnedTier(owned, track) \in 0..3
<1> DEFINE T == {0} \cup {e.tier : e \in {x \in owned : x.track = track}}
<1>1. T \subseteq 0..3 /\ 0 \in T
  BY DEF Entry, TopTier
<1> HIDE DEF T
<1>2. \E x \in T : \A y \in T : x >= y
  <2>1. CASE 3 \in T BY <1>1, <2>1
  <2>2. CASE 3 \notin T /\ 2 \in T
    <3>1. \A y \in T : 2 >= y BY <1>1, <2>2
    <3> QED BY <2>2, <3>1
  <2>3. CASE 3 \notin T /\ 2 \notin T /\ 1 \in T
    <3>1. \A y \in T : 1 >= y BY <1>1, <2>3
    <3> QED BY <2>3, <3>1
  <2>4. CASE 3 \notin T /\ 2 \notin T /\ 1 \notin T
    <3>1. \A y \in T : 0 >= y BY <1>1, <2>4
    <3> QED BY <1>1, <3>1
  <2> QED BY <2>1, <2>2, <2>3, <2>4
<1>3. Max(T) \in T
  BY <1>2 DEF Max
<1> QED BY <1>1, <1>3 DEF OwnedTier, T

(* An award is a natural number.                                           *)
LEMMA AwardType ==
  ASSUME NEW unlocks, unlocks \subseteq Rungs, NEW service \in Nat, NEW depth \in Nat,
         NEW estate \in Nat
  PROVE  Award(unlocks, service, depth, estate) \in Nat
<1> DEFINE credit == Credit[OwnedTier(unlocks, "service")]
           base   == service * ServiceRate * (100 + depth * DepthFactor) + estate * EstateRate * 100
<1>1. credit \in Nat
  BY Constants, OwnedTierRange
<1>2. \A m, n \in Nat : m * n \in Nat
  BY SMT
<1>3. base \in Nat
  <2> DEFINE worked == service * ServiceRate
             factor == 100 + depth * DepthFactor
             left   == estate * EstateRate
  <2>1. worked \in Nat /\ left \in Nat
    BY <1>2, Constants
  <2>4. depth * DepthFactor \in Nat
    BY <1>2, Constants
  <2>5. factor \in Nat
    BY <2>4
  <2> HIDE DEF worked, factor, left
  <2>2. worked * factor \in Nat
    BY <1>2, <2>1, <2>5
  <2>3. worked * factor + left * 100 \in Nat
    BY <2>1, <2>2
  <2> QED BY <2>3 DEF worked, factor, left
<1> HIDE DEF credit, base
<1>4. base * credit \in Nat
  BY <1>1, <1>2, <1>3
<1>5. (base * credit + 500000) \div 1000000 \in Nat
  BY <1>4
<1> QED BY <1>5 DEF Award, credit, base

LEMMA InsuredType ==
  ASSUME NEW award \in Nat
  PROVE  Insured(award) \in Nat
BY DEF Insured

LEMMA NewRecruitType ==
  ASSUME NEW num \in Nat, NEW permit \in Nat, NEW tick \in Nat
  PROVE  /\ NewRecruit(num, permit, tick) \in Recruit
         /\ NewRecruit(num, permit, tick).alive
         /\ NewRecruit(num, permit, tick).born = tick
         /\ NewRecruit(num, permit, tick).last = tick
BY Constants DEF NewRecruit, Recruit

(* A redemption moves pension from the total to the spent.                 *)
LEMMA RedeemedType ==
  ASSUME NEW p \in Pension,
         NEW e \in Affordable(Rungs, p.unlocks, Licences, p.total)
  PROVE  /\ Redeemed(p, e) \in Pension
         /\ Redeemed(p, e).spent \in p.spent..(p.spent + p.total)
         /\ Redeemed(p, e).total + Redeemed(p, e).spent = p.total + p.spent
<1>1. /\ p = [total |-> p.total, spent |-> p.spent, unlocks |-> p.unlocks]
     /\ p.total \in Nat /\ p.spent \in Nat /\ p.unlocks \in SUBSET Rungs
  BY DEF Pension
<1>2. e \in Rungs /\ e.cost <= p.total
  BY DEF Affordable
<1>3. e.cost \in Nat
  BY <1>2, Constants DEF Entry
<1>4. p.total - e.cost \in Nat /\ p.spent + e.cost \in Nat
  BY <1>1, <1>2, <1>3
<1>5. p.unlocks \cup {e} \in SUBSET Rungs
  BY <1>1, <1>2
<1>6. Redeemed(p, e) \in Pension
  BY <1>4, <1>5 DEF Redeemed, Pension
<1>7. Redeemed(p, e).spent = p.spent + e.cost /\ Redeemed(p, e).total = p.total - e.cost
  BY DEF Redeemed
<1> QED BY <1>1, <1>2, <1>3, <1>6, <1>7

-----------------------------------------------------------------------------
(* What a resolution may leave *)

(* The recruit a span leaves: the same person, resolved no further than    *)
(* the clock and no less than before; what was assessed is a natural.      *)
LEMMA CatchUpType ==
  ASSUME clock \in Nat, pension \in Pension, NEW r \in Recruit, r.alive,
         r.born <= r.last, r.last <= clock,
         NEW o \in CatchUp(r)
  PROVE  /\ o.rec \in Recruit
         /\ o.rec.born = r.born
         /\ r.last <= o.rec.last /\ o.rec.last <= clock
         /\ o.award \in Nat /\ o.handled \in Nat
<1>1. CASE clock <= r.last
  <2>1. o = [rec |-> r, award |-> 0, handled |-> 0]
    BY <1>1 DEF CatchUp
  <2> QED BY <2>1 DEF Recruit
<1>2. CASE clock > r.last /\ o \in {[rec |-> s, award |-> 0, handled |-> 0] : s \in Survivors(r)}
  <2>1. PICK s \in Survivors(r) : o = [rec |-> s, award |-> 0, handled |-> 0]
    BY <1>2
  <2>2. PICK p \in r.permit..MaxPermit, g \in 0..MaxGold, k \in 0..MaxStock, d \in 0..MaxDepth :
          s = AfterSpan(r, clock, p, g, k, d)
    BY DEF Survivors
  <2>3. p \in Nat /\ g \in Nat /\ k \in Nat /\ d \in Nat
    BY Constants DEF Recruit
  <2>4. s \in Recruit /\ s.born = r.born /\ s.last = clock
    BY <2>2, <2>3 DEF AfterSpan, Recruit
  <2> QED BY <1>2, <2>1, <2>4
<1>3. CASE /\ clock > r.last
           /\ o \in UNION {{[rec |-> [c EXCEPT !.gold = g], award |-> a, handled |-> c.gold] :
                       a \in Assessed(c), g \in c.gold..MaxGold} : c \in Casualties(r)}
  <2>1. PICK c \in Casualties(r) : \E a \in Assessed(c), g \in c.gold..MaxGold :
          o = [rec |-> [c EXCEPT !.gold = g], award |-> a, handled |-> c.gold]
    BY <1>3
  <2>2. PICK a \in Assessed(c), g \in c.gold..MaxGold :
          o = [rec |-> [c EXCEPT !.gold = g], award |-> a, handled |-> c.gold]
    BY <2>1
  <2>3. PICK t \in (r.last + 1)..clock, p \in r.permit..MaxPermit,
             h \in 0..MaxGold, k \in 0..MaxStock, d \in 1..MaxDepth :
          c = Closed(AfterSpan(r, t, p, h, k, d))
    BY DEF Casualties
  <2>4. t \in Nat /\ p \in Nat /\ h \in Nat /\ k \in Nat /\ d \in Nat /\ r.last \in Nat
    BY Constants DEF Recruit
  <2>5. /\ c \in Recruit /\ c.born = r.born /\ c.last = t /\ c.gold = h
        /\ c.depth = d /\ c.stock = k
    BY <2>3, <2>4 DEF AfterSpan, Closed, Recruit
  <2>6. g \in Nat /\ c.last - c.born \in Nat /\ Estate(c) \in Nat
    BY <2>4, <2>5, Constants DEF Estate, Recruit
  <2>7. a \in Nat
    <3> DEFINE held  == {pension.unlocks} \cup
                          (IF assignment.active = NoAssignment THEN {} ELSE {{}})
               plain == {Award(unlocks, c.last - c.born, floor, Estate(c)) :
                           unlocks \in held, floor \in c.depth..MaxDepth}
    <3>1. a \in plain \cup {Insured(x) : x \in plain}
      BY DEF Assessed
    <3>2. \A x \in plain : x \in Nat
      <4> SUFFICES ASSUME NEW unlocks \in held, NEW floor \in c.depth..MaxDepth
                   PROVE  Award(unlocks, c.last - c.born, floor, Estate(c)) \in Nat
        OBVIOUS
      <4>1. unlocks \subseteq Rungs /\ floor \in Nat
        BY <2>4, <2>5, Constants DEF Pension
      <4> QED BY <2>6, <4>1, AwardType
    <3> HIDE DEF held, plain
    <3>3. PICK x \in plain : a = x \/ a = Insured(x)
      BY <3>1
    <3> QED BY <3>2, <3>3, InsuredType
  <2>8. [c EXCEPT !.gold = g] \in Recruit
    BY <2>5, <2>6 DEF Recruit
  <2>9. [c EXCEPT !.gold = g].born = r.born /\ [c EXCEPT !.gold = g].last = t
    BY <2>5, <2>6 DEF Recruit
  <2>10. o.rec = [c EXCEPT !.gold = g] /\ o.award = a /\ o.handled = h
    BY <2>2, <2>5
  <2>11. r.last <= t /\ t <= clock
    BY <2>4
  <2> QED BY <2>4, <2>7, <2>8, <2>9, <2>10, <2>11
<1>4. r.last \in Nat
  BY DEF Recruit
<1> QED BY <1>1, <1>2, <1>3, <1>4 DEF CatchUp

-----------------------------------------------------------------------------
(* The inductive invariant *)

IInv ==
  /\ TypeOK
  /\ Len(recruits) >= 1
  /\ OnlyNewestServes
  /\ PendingIsTheirs
  /\ CareersDoNotOverlap
  /\ banked \subseteq 1..Len(deaths)

(* What one resolution of recruit i may leave: the recruit resolved, the   *)
(* death on file when there is one, and pension only moved.                *)
Resolution(i, s) ==
  /\ s.rec \in Recruit
  /\ s.rec.born = recruits[i].born
  /\ recruits[i].last <= s.rec.last /\ s.rec.last <= clock
  /\ s.pension \in Pension
  /\ s.pension.spent \in pension.spent..(pension.spent + pension.total)
  /\ s.pension.total + s.pension.spent = pension.total + pension.spent
  /\ s.assignment \in Assignment
  /\ s.transfer \in Transfer
  /\ s.rec.alive => s.deaths = deaths
  /\ ~s.rec.alive =>
       /\ s.pension = pension
       /\ \E d \in Death : d.who = i /\ d.cause = "killed" /\ s.deaths = Append(deaths, d)

LEMMA ResolutionOfNothing ==
  ASSUME IInv, NEW i \in Active
  PROVE  Resolution(i, [rec |-> recruits[i], deaths |-> deaths, pension |-> pension,
                        assignment |-> assignment, transfer |-> transfer])
<1>1. i \in DOMAIN recruits /\ recruits[i] \in Recruit /\ recruits[i].alive
  BY DEF Active, IInv, TypeOK
<1>2. recruits[i].last \in Nat /\ recruits[i].last <= clock
  BY <1>1 DEF IInv, CareersDoNotOverlap, Recruit
<1>3. pension.total \in Nat /\ pension.spent \in Nat
  BY DEF IInv, TypeOK, Pension
<1> QED BY <1>1, <1>2, <1>3 DEF Resolution, IInv, TypeOK

LEMMA AssessmentsType ==
  ASSUME TypeOK, NEW o, NEW w \in Assessments(o)
  PROVE  w.assignment \in Assignment /\ w.transfer \in Transfer
<1>1. assignment \in Assignment /\ transfer \in Transfer
  BY DEF TypeOK
<1>2. CASE w = [assignment |-> assignment, transfer |-> transfer]
  BY <1>1, <1>2
<1>3. CASE w = [assignment |-> [assignment EXCEPT !.active = NoAssignment], transfer |-> transfer]
  BY <1>1, <1>3 DEF Assignment
<1>4. ASSUME NEW x \in Assignments,
             w = [assignment |-> [active |-> NoAssignment,
                                  completed |-> assignment.completed \cup {x}],
                  transfer |-> [transfer EXCEPT !.total = @ + Reward]]
      PROVE  w.assignment \in Assignment /\ w.transfer \in Transfer
  <2>1. assignment.completed \cup {x} \in SUBSET Assignments
    BY <1>1 DEF Assignment
  <2>2. transfer.total + Reward \in Nat
    BY <1>1, Constants DEF Transfer
  <2>3. [transfer EXCEPT !.total = @ + Reward] \in Transfer
    BY <1>1, <2>2 DEF Transfer
  <2> QED BY <1>4, <2>1, <2>3 DEF Assignment
<1> QED BY <1>2, <1>3, <1>4 DEF Assessments

LEMMA LivedIsResolution ==
  ASSUME IInv, NEW i \in Active, NEW s \in Lived(i)
  PROVE  Resolution(i, s)
<1>1. i \in DOMAIN recruits /\ recruits[i] \in Recruit /\ recruits[i].alive
  BY DEF Active, IInv, TypeOK
<1>2. /\ recruits[i].born <= recruits[i].last /\ recruits[i].last <= clock
      /\ clock \in Nat /\ pension \in Pension
  BY <1>1 DEF IInv, CareersDoNotOverlap, TypeOK
<1>3. PICK o \in CatchUp(recruits[i]) :
        \E p \in Redemptions(recruits[i], o), w \in Assessments(o) :
          s = [rec |-> o.rec, deaths |-> Recorded(i, o), pension |-> p,
               assignment |-> w.assignment, transfer |-> w.transfer]
  BY DEF Lived
<1>4. PICK p \in Redemptions(recruits[i], o), w \in Assessments(o) :
          s = [rec |-> o.rec, deaths |-> Recorded(i, o), pension |-> p,
               assignment |-> w.assignment, transfer |-> w.transfer]
  BY <1>3
<1>5. /\ o.rec \in Recruit /\ o.rec.born = recruits[i].born
      /\ recruits[i].last <= o.rec.last /\ o.rec.last <= clock
      /\ o.award \in Nat /\ o.handled \in Nat
  BY <1>1, <1>2, CatchUpType
<1>6. /\ p \in Pension
      /\ p.spent \in pension.spent..(pension.spent + pension.total)
      /\ p.total + p.spent = pension.total + pension.spent
      /\ ~o.rec.alive => p = pension
  <2>1. CASE p = pension
    <3>1. pension.total \in Nat /\ pension.spent \in Nat
      BY <1>2 DEF Pension
    <3> QED BY <1>2, <2>1, <3>1
  <2>2. CASE p # pension
    <3>1. PICK e \in CheapestOf(Affordable(Rungs, pension.unlocks, Licences, pension.total)) :
            p = Redeemed(pension, e) /\ o.rec.alive
      BY <2>2 DEF Redemptions
    <3>2. e \in Affordable(Rungs, pension.unlocks, Licences, pension.total)
      BY DEF CheapestOf
    <3> QED BY <1>2, <3>1, <3>2, RedeemedType
  <2> QED BY <2>1, <2>2
<1>7. w.assignment \in Assignment /\ w.transfer \in Transfer
  BY AssessmentsType DEF IInv
<1>8. ~o.rec.alive => \E d \in Death : /\ d.who = i /\ d.cause = "killed"
                                     /\ Recorded(i, o) = Append(deaths, d)
  <2> SUFFICES ASSUME ~o.rec.alive
               PROVE  \E d \in Death : /\ d.who = i /\ d.cause = "killed"
                                      /\ Recorded(i, o) = Append(deaths, d)
    OBVIOUS
  <2> DEFINE d == [who |-> i, award |-> o.award, handled |-> o.handled, cause |-> "killed"]
  <2>1. i \in Nat
    BY <1>1 DEF IInv, TypeOK
  <2>2. d \in Death
    BY <1>5, <2>1 DEF Death
  <2>3. Recorded(i, o) = Append(deaths, d)
    BY DEF Recorded
  <2> QED BY <2>2, <2>3
<1>9. o.rec.alive => Recorded(i, o) = deaths
  BY DEF Recorded
<1>10. /\ s.rec = o.rec /\ s.deaths = Recorded(i, o) /\ s.pension = p
       /\ s.assignment = w.assignment /\ s.transfer = w.transfer
  BY <1>4
<1> QED BY <1>5, <1>6, <1>7, <1>8, <1>9, <1>10 DEF Resolution

(* The writes resolve as the read does, or not at all.                     *)
LEMMA InsideIsResolution ==
  ASSUME IInv, NEW i \in Active, NEW s \in Inside(i)
  PROVE  Resolution(i, s)
BY LivedIsResolution, ResolutionOfNothing DEF Inside

(* The only recruit that can serve is the last of the table.               *)
LEMMA ActiveIsNewest ==
  ASSUME IInv, NEW i \in Active
  PROVE  /\ i = Len(recruits) /\ i \in 1..Len(recruits) /\ Len(recruits) \in Nat
         /\ recruits \in Seq(Recruit) /\ DOMAIN recruits = 1..Len(recruits)
         /\ deaths \in Seq(Death) /\ clock \in Nat
BY DEF IInv, OnlyNewestServes, TypeOK, Active

-----------------------------------------------------------------------------
(* Commits preserve the invariant *)

(* Every handler but the three that close a career: it saves the recruit   *)
(* its resolution returned, with another purse and another cabinet.        *)
LEMMA SaveKeepsIInv ==
  ASSUME IInv, NEW i \in Active, NEW s, Resolution(i, s), NEW rec \in Recruit,
         rec.alive = s.rec.alive, rec.born = s.rec.born, rec.last = s.rec.last,
         recruits' = [recruits EXCEPT ![i] = rec],
         deaths' = s.deaths, pension' = s.pension,
         transfer' \in Transfer, assignment' \in Assignment,
         office' \subseteq Requisitions, registry' \subseteq Posts,
         UNCHANGED <<clock, banked, surrendered>>
  PROVE  IInv'
<1>1. /\ i = Len(recruits) /\ i \in 1..Len(recruits) /\ Len(recruits) \in Nat
      /\ recruits \in Seq(Recruit) /\ DOMAIN recruits = 1..Len(recruits)
      /\ deaths \in Seq(Death) /\ clock \in Nat
  BY ActiveIsNewest
<1>2. /\ recruits' \in Seq(Recruit) /\ Len(recruits') = Len(recruits)
      /\ DOMAIN recruits' = 1..Len(recruits)
      /\ \A j \in 1..Len(recruits) : recruits'[j] = IF j = i THEN rec ELSE recruits[j]
  BY <1>1, ExceptSeq
<1>3. /\ rec.born = recruits[i].born /\ recruits[i].last <= rec.last /\ rec.last <= clock
      /\ recruits[i].born \in Nat /\ recruits[i].last \in Nat /\ rec.last \in Nat
  <2>1. recruits[i] \in Recruit
    BY <1>1, ElementOfSeq
  <2>2. rec.last \in Nat /\ recruits[i].last \in Nat /\ recruits[i].born \in Nat
    BY <2>1 DEF Recruit
  <2> QED BY <2>2 DEF Resolution
<1>4. \A j \in 1..Len(recruits) : recruits[j].alive <=> j = i
  <2>1. \A j \in 1..Len(recruits) : recruits[j].alive => j = i
    BY <1>1 DEF IInv, OnlyNewestServes, Active
  <2> QED BY <2>1 DEF Active
<1>5. CareersDoNotOverlap'
  <2>1. \A j \in 1..Len(recruits) :
          recruits'[j].born <= recruits'[j].last /\ recruits'[j].last <= clock
    BY <1>1, <1>2, <1>3 DEF IInv, CareersDoNotOverlap
  <2>2. \A j, k \in 1..Len(recruits) : j < k => recruits'[j].last <= recruits'[k].born
    BY <1>1, <1>2, <1>3 DEF IInv, CareersDoNotOverlap
  <2> QED BY <1>2, <2>1, <2>2 DEF CareersDoNotOverlap
<1>6. OnlyNewestServes'
  BY <1>1, <1>2, <1>4 DEF OnlyNewestServes, Active
<1>7. deaths' \in Seq(Death) /\ Len(deaths) <= Len(deaths') /\ Len(deaths) \in Nat
  <2>1. CASE rec.alive
    BY <1>1, <2>1 DEF Resolution
  <2>2. CASE ~rec.alive
    <3>1. PICK d \in Death : deaths' = Append(deaths, d)
      BY <2>2 DEF Resolution
    <3> QED BY <1>1, <3>1, AppendProperties
  <2> QED BY <2>1, <2>2
<1>8. PendingIsTheirs'
  <2>1. CASE rec.alive
    <3>1. i \in Active'
      BY <1>1, <1>2, <2>1 DEF Active
    <3> QED BY <3>1 DEF PendingIsTheirs
  <2>2. CASE ~rec.alive
    <3>1. PICK d \in Death : d.who = i /\ d.cause = "killed" /\ deaths' = Append(deaths, d)
      BY <2>2 DEF Resolution
    <3>2. /\ deaths' # <<>> /\ Len(deaths') = Len(deaths) + 1
          /\ deaths'[Len(deaths) + 1] = d /\ Len(deaths) \in Nat
      BY <1>1, <3>1, AppendProperties
    <3>3. Len(deaths') \notin banked'
      BY <3>2 DEF IInv
    <3> QED BY <1>1, <1>2, <3>1, <3>2, <3>3 DEF PendingIsTheirs, LatestDeath
  <2> QED BY <2>1, <2>2
<1>9. TypeOK'
  BY <1>1, <1>2, <1>7 DEF IInv, TypeOK, Resolution
<1>10. banked' \subseteq 1..Len(deaths')
  BY <1>7 DEF IInv
<1> QED BY <1>1, <1>2, <1>5, <1>6, <1>8, <1>9, <1>10 DEF IInv

(* Taking delivery: the table holds nobody alive, and the new recruit is   *)
(* born no earlier than any of them was resolved to.                       *)
LEMMA DeliveryKeepsIInv ==
  ASSUME IInv, NEW table \in Seq(Recruit), NEW new \in Recruit,
         Len(table) >= 1,
         \A j \in 1..Len(table) : ~table[j].alive,
         \A j \in 1..Len(table) : table[j].born <= table[j].last /\ table[j].last <= new.born,
         \A j, k \in 1..Len(table) : j < k => table[j].last <= table[k].born,
         new.alive, new.born = new.last, new.last <= clock,
         recruits' = Append(table, new),
         deaths' \in Seq(Death), Len(deaths) <= Len(deaths'),
         pension' \in Pension, transfer' \in Transfer, assignment' \in Assignment,
         banked' \subseteq 1..Len(deaths'), surrendered' \in Nat,
         UNCHANGED <<clock, office, registry>>
  PROVE  IInv'
<1>1. /\ recruits' \in Seq(Recruit) /\ Len(recruits') = Len(table) + 1
      /\ \A j \in 1..Len(table) : recruits'[j] = table[j]
      /\ recruits'[Len(table) + 1] = new
  BY AppendProperties
<1>2. Len(table) \in Nat /\ DOMAIN recruits' = 1..(Len(table) + 1)
  BY <1>1
<1>3. \A j \in 1..Len(table) : table[j].last \in Nat
  <2>1. \A j \in 1..Len(table) : table[j] \in Recruit
    BY ElementOfSeq
  <2> QED BY <2>1 DEF Recruit
<1>4. new.born \in Nat /\ new.last \in Nat /\ clock \in Nat
  BY DEF Recruit, IInv, TypeOK
<1>5. OnlyNewestServes' /\ Len(recruits') \in Active'
  BY <1>1, <1>2 DEF OnlyNewestServes, Active
<1>6. PendingIsTheirs'
  BY <1>5 DEF PendingIsTheirs
<1>7. CareersDoNotOverlap'
  <2>1. \A j \in 1..(Len(table) + 1) :
          recruits'[j].born <= recruits'[j].last /\ recruits'[j].last <= clock
    <3> SUFFICES ASSUME NEW j \in 1..(Len(table) + 1)
                 PROVE  recruits'[j].born <= recruits'[j].last /\ recruits'[j].last <= clock
      OBVIOUS
    <3>1. CASE j = Len(table) + 1 BY <1>1, <1>4, <3>1
    <3>2. CASE j \in 1..Len(table) BY <1>1, <1>3, <1>4, <3>2
    <3> QED BY <1>2, <3>1, <3>2
  <2>2. \A j, k \in 1..(Len(table) + 1) : j < k => recruits'[j].last <= recruits'[k].born
    <3> SUFFICES ASSUME NEW j \in 1..(Len(table) + 1), NEW k \in 1..(Len(table) + 1), j < k
                 PROVE  recruits'[j].last <= recruits'[k].born
      OBVIOUS
    <3>1. j \in 1..Len(table) BY <1>2
    <3>2. CASE k = Len(table) + 1 BY <1>1, <3>1, <3>2
    <3>3. CASE k \in 1..Len(table) BY <1>1, <3>1, <3>3
    <3> QED BY <1>2, <3>2, <3>3
  <2> QED BY <1>2, <2>1, <2>2 DEF CareersDoNotOverlap
<1>8. TypeOK'
  <2>1. banked' \subseteq Nat
    BY DEF TypeOK
  <2> QED BY <1>1, <2>1 DEF IInv, TypeOK
<1> QED BY <1>1, <1>2, <1>5, <1>6, <1>7, <1>8 DEF IInv

(* The table a closing form leaves, before the next recruit is appended.   *)
LEMMA ClosedTable ==
  ASSUME IInv, NEW i \in Active, NEW s, Resolution(i, s),
         NEW table, table = [recruits EXCEPT ![i] = Closed(s.rec)]
  PROVE  /\ table \in Seq(Recruit) /\ Len(table) = Len(recruits) /\ Len(table) >= 1
         /\ \A j \in 1..Len(table) : ~table[j].alive
         /\ \A j \in 1..Len(table) : table[j].born <= table[j].last /\ table[j].last <= s.rec.last
         /\ \A j, k \in 1..Len(table) : j < k => table[j].last <= table[k].born
         /\ s.rec.last \in Nat /\ s.rec.last <= clock
         /\ s.deaths \in Seq(Death) /\ Len(deaths) <= Len(s.deaths)
<1>1. /\ i = Len(recruits) /\ i \in 1..Len(recruits) /\ Len(recruits) \in Nat
      /\ recruits \in Seq(Recruit) /\ DOMAIN recruits = 1..Len(recruits)
      /\ deaths \in Seq(Death) /\ clock \in Nat
  BY ActiveIsNewest
<1>2. /\ Closed(s.rec) \in Recruit /\ ~Closed(s.rec).alive
      /\ Closed(s.rec).born = s.rec.born /\ Closed(s.rec).last = s.rec.last
  BY DEF Closed, Resolution, Recruit
<1>3. /\ table \in Seq(Recruit) /\ Len(table) = Len(recruits)
      /\ \A j \in 1..Len(recruits) : table[j] = IF j = i THEN Closed(s.rec) ELSE recruits[j]
  BY <1>1, <1>2, ExceptSeq
<1>4. \A j \in 1..Len(recruits) : recruits[j].born \in Nat /\ recruits[j].last \in Nat
  <2>1. \A j \in 1..Len(recruits) : recruits[j] \in Recruit
    BY <1>1, ElementOfSeq
  <2> QED BY <2>1 DEF Recruit
<1>5. /\ s.rec.born = recruits[i].born /\ recruits[i].last <= s.rec.last
      /\ s.rec.last <= clock /\ s.rec.last \in Nat
  BY DEF Resolution, Recruit
<1>6. \A j \in 1..Len(recruits) : recruits[j].born <= recruits[j].last
  BY <1>1 DEF IInv, CareersDoNotOverlap
<1>7. \A j, k \in 1..Len(recruits) : j < k => recruits[j].last <= recruits[k].born
  BY <1>1 DEF IInv, CareersDoNotOverlap
<1>8. \A j \in 1..Len(recruits) : recruits[j].alive => j = i
  BY <1>1 DEF IInv, OnlyNewestServes, Active
<1>9. \A j \in 1..Len(table) : ~table[j].alive
  BY <1>2, <1>3, <1>8
<1>10. \A j \in 1..Len(table) : table[j].born <= table[j].last /\ table[j].last <= s.rec.last
  <2> SUFFICES ASSUME NEW j \in 1..Len(recruits)
               PROVE  table[j].born <= table[j].last /\ table[j].last <= s.rec.last
    BY <1>3
  <2>1. CASE j = i
    BY <1>1, <1>2, <1>3, <1>4, <1>5, <1>6, <2>1
  <2>2. CASE j # i
    <3>1. j < i /\ table[j] = recruits[j]
      BY <1>1, <1>3, <2>2
    <3>2. recruits[j].last <= recruits[i].born /\ recruits[i].born <= recruits[i].last
      BY <1>1, <1>6, <1>7, <3>1
    <3> QED BY <1>1, <1>4, <1>5, <1>6, <3>1, <3>2
  <2> QED BY <2>1, <2>2
<1>11. \A j, k \in 1..Len(table) : j < k => table[j].last <= table[k].born
  <2> SUFFICES ASSUME NEW j \in 1..Len(recruits), NEW k \in 1..Len(recruits), j < k
               PROVE  table[j].last <= table[k].born
    BY <1>3
  <2>1. j # i
    BY <1>1
  <2>2. recruits[j].last <= recruits[k].born
    BY <1>7
  <2> QED BY <1>2, <1>3, <1>5, <2>1, <2>2
<1>12. s.deaths \in Seq(Death) /\ Len(deaths) <= Len(s.deaths)
  <2>1. CASE s.rec.alive
    BY <1>1, <2>1 DEF Resolution
  <2>2. CASE ~s.rec.alive
    <3>1. PICK d \in Death : s.deaths = Append(deaths, d)
      BY <2>2 DEF Resolution
    <3> QED BY <1>1, <3>1, AppendProperties
  <2> QED BY <2>1, <2>2
<1> QED BY <1>1, <1>3, <1>5, <1>9, <1>10, <1>11, <1>12

LEMMA SuccessorType ==
  ASSUME NEW previous \in Recruit, NEW tick \in Nat
  PROVE  /\ Successor(previous, tick) \in Recruit
         /\ Successor(previous, tick).alive
         /\ Successor(previous, tick).born = tick /\ Successor(previous, tick).last = tick
<1>1. previous.num + 1 \in Nat /\ InheritedPermit(previous.permit) \in Nat
  BY DEF Recruit, InheritedPermit
<1> QED BY <1>1, NewRecruitType DEF Successor

LEMMA PostingType ==
  ASSUME NEW owned \in SUBSET Commendations, NEW tick \in Nat
  PROVE  /\ Posting(owned, tick) \in Recruit
         /\ Posting(owned, tick).alive
         /\ Posting(owned, tick).born = tick /\ Posting(owned, tick).last = tick
<1>1. OwnedTier(owned, "intake") \in 0..3
  BY OwnedTierRange, Constants
<1>2. StartingPermit(owned) \in Nat
  BY <1>1 DEF StartingPermit
<1> QED BY <1>2, NewRecruitType DEF Posting

-----------------------------------------------------------------------------
(* The steps *)

LEMMA InitIInv == Init => IInv
<1> SUFFICES ASSUME Init PROVE IInv
  OBVIOUS
<1>1. /\ NewRecruit(1, 1, 0) \in Recruit /\ NewRecruit(1, 1, 0).alive
      /\ NewRecruit(1, 1, 0).born = 0 /\ NewRecruit(1, 1, 0).last = 0
  BY NewRecruitType
<1>2. /\ recruits \in Seq(Recruit) /\ Len(recruits) = 1 /\ DOMAIN recruits = {1}
      /\ recruits[1] = NewRecruit(1, 1, 0)
  BY <1>1 DEF Init
<1>3. Active = {1}
  BY <1>1, <1>2 DEF Active
<1>4. TypeOK
  BY <1>2 DEF Init, TypeOK, Pension, Transfer, Assignment
<1>5. CareersDoNotOverlap
  BY <1>1, <1>2 DEF Init, CareersDoNotOverlap
<1> QED BY <1>2, <1>3, <1>4, <1>5 DEF Init, IInv, OnlyNewestServes, PendingIsTheirs

(* The handlers of the ledgers, and the clock, leave both tables alone.     *)
LEMMA TablesUntouchedKeepsIInv ==
  ASSUME IInv, UNCHANGED <<recruits, deaths, banked, surrendered>>,
         clock' \in Nat, clock <= clock',
         pension' \in Pension, transfer' \in Transfer, assignment' \in Assignment,
         office' \subseteq Requisitions, registry' \subseteq Posts
  PROVE  IInv'
<1>1. TypeOK'
  BY DEF IInv, TypeOK
<1>2. CareersDoNotOverlap'
  <2>1. \A j \in DOMAIN recruits : recruits[j].last \in Nat /\ clock \in Nat
    <3>1. \A j \in DOMAIN recruits : recruits[j] \in Recruit
      BY DEF IInv, TypeOK
    <3> QED BY <3>1 DEF IInv, TypeOK, Recruit
  <2> QED BY <2>1 DEF IInv, CareersDoNotOverlap
<1> QED BY <1>1, <1>2 DEF IInv, OnlyNewestServes, PendingIsTheirs, LatestDeath, Active

(* The claim appends a successor to a table in which nobody lives.          *)
LEMMA ClaimPensionKeepsIInv ==
  ASSUME IInv, ClaimPension
  PROVE  IInv'
<1>0. TypeOK /\ Len(recruits) >= 1 /\ CareersDoNotOverlap /\ banked \subseteq 1..Len(deaths)
  BY DEF IInv
<1>1. /\ Active = {} /\ deaths # <<>> /\ deaths' = deaths
      /\ pension' = [pension EXCEPT !.total = @ + LatestDeath.award]
      /\ banked' = banked \cup {Len(deaths)}
      /\ UNCHANGED <<clock, transfer, office, registry, assignment, surrendered>>
  BY DEF ClaimPension, ClaimInside
<1>2. PICK j \in LatestIn(recruits) : recruits' = Append(recruits, Successor(recruits[j], clock))
  BY DEF ClaimPension, ClaimInside
<1>3. /\ recruits \in Seq(Recruit) /\ Len(recruits) \in Nat /\ DOMAIN recruits = 1..Len(recruits)
      /\ deaths \in Seq(Death) /\ Len(deaths) \in 1..Len(deaths) /\ clock \in Nat
  BY <1>0, <1>1 DEF TypeOK
<1>4. recruits[j] \in Recruit
  BY <1>3, ElementOfSeq DEF LatestIn
<1>5. /\ Successor(recruits[j], clock) \in Recruit
      /\ Successor(recruits[j], clock).alive
      /\ Successor(recruits[j], clock).born = clock
      /\ Successor(recruits[j], clock).last = clock
  BY <1>3, <1>4, SuccessorType
<1>6. LatestDeath.award \in Nat
  <2>1. deaths[Len(deaths)] \in Death
    BY <1>3, ElementOfSeq
  <2> QED BY <2>1 DEF LatestDeath, Death
<1>7. pension' \in Pension
  <2>1. pension \in Pension
    BY <1>0 DEF TypeOK
  <2>2. pension.total + LatestDeath.award \in Nat
    BY <1>6, <2>1 DEF Pension
  <2> QED BY <1>1, <2>1, <2>2 DEF Pension
<1>8. \A k \in 1..Len(recruits) : ~recruits[k].alive
  BY <1>1, <1>3 DEF Active
<1>9. banked' \subseteq 1..Len(deaths')
  BY <1>0, <1>1, <1>3
<1>10. /\ \A k \in 1..Len(recruits) : recruits[k].born <= recruits[k].last /\ recruits[k].last <= clock
       /\ \A k, m \in 1..Len(recruits) : k < m => recruits[k].last <= recruits[m].born
  BY <1>0, <1>3 DEF CareersDoNotOverlap
<1>11. transfer' \in Transfer /\ assignment' \in Assignment /\ surrendered' \in Nat
  BY <1>0, <1>1 DEF TypeOK
<1>12. clock <= clock /\ Len(deaths) <= Len(deaths') /\ deaths' \in Seq(Death)
  BY <1>1, <1>3
<1> DEFINE new == Successor(recruits[j], clock)
<1>13. new \in Recruit /\ new.alive /\ new.born = clock /\ new.last = clock
  BY <1>5
<1>14. recruits' = Append(recruits, new)
  BY <1>2
<1> HIDE DEF new
<1> QED
  BY <1>0, <1>1, <1>3, <1>7, <1>8, <1>9, <1>10, <1>11, <1>12, <1>13, <1>14, DeliveryKeepsIInv

(* The retirement closes the recruit, and delivers at the clock.            *)
LEMMA RetireRecruitKeepsIInv ==
  ASSUME IInv, RetireRecruit
  PROVE  IInv'
<1>0. TypeOK /\ Len(recruits) >= 1 /\ CareersDoNotOverlap /\ banked \subseteq 1..Len(deaths)
  BY DEF IInv
<1>1. PICK i, s :
      /\ i \in Active /\ s \in Inside(i)
      /\ LET service == s.rec.last - s.rec.born
            award   == Award(s.pension.unlocks, service, s.rec.depth, Estate(s.rec))
        IN  /\ s.rec.alive
            /\ service >= MinService
            /\ deaths' = Append(s.deaths, [who |-> i, award |-> award, handled |-> s.rec.gold,
                                           cause |-> "separated"])
            /\ ClaimInside([recruits EXCEPT ![i] = Closed(s.rec)], s.pension, award)
            /\ banked' = banked \cup {Len(deaths')}
            /\ assignment' = s.assignment
            /\ transfer' = s.transfer
            /\ UNCHANGED <<clock, office, registry, surrendered>>
  BY DEF RetireRecruit
<1> DEFINE table == [recruits EXCEPT ![i] = Closed(s.rec)]
           award == Award(s.pension.unlocks, s.rec.last - s.rec.born, s.rec.depth, Estate(s.rec))
           record == [who |-> i, award |-> award, handled |-> s.rec.gold, cause |-> "separated"]
<1>2. Resolution(i, s)
  BY <1>1, InsideIsResolution
<1>3. /\ deaths' = Append(s.deaths, record)
      /\ \E j \in LatestIn(table) : recruits' = Append(table, Successor(table[j], clock))
      /\ pension' = [s.pension EXCEPT !.total = @ + award]
      /\ banked' = banked \cup {Len(deaths')}
      /\ assignment' = s.assignment /\ transfer' = s.transfer
      /\ UNCHANGED <<clock, office, registry, surrendered>>
  BY <1>1 DEF ClaimInside
<1>4. award \in Nat
  <2>1. s.rec.last - s.rec.born \in Nat
    <3>1. s.rec.last \in Nat /\ s.rec.born \in Nat
      BY <1>2 DEF Resolution, Recruit
    <3>2. s.rec.last - s.rec.born >= MinService
      BY <1>1
    <3> HIDE DEF table, award, record
    <3> QED BY <3>1, <3>2, Constants
  <2>2. s.rec.depth \in Nat /\ Estate(s.rec) \in Nat /\ s.pension.unlocks \subseteq Rungs
    BY <1>2 DEF Resolution, Recruit, Estate, Pension
  <2> QED BY <2>1, <2>2, AwardType
<1>5. record \in Death
  <2>1. i \in Nat
    BY <1>1, ActiveIsNewest
  <2>2. s.rec.gold \in Nat
    BY <1>2 DEF Resolution, Recruit
  <2> HIDE DEF award
  <2> QED BY <1>4, <2>1, <2>2 DEF Death
<1> HIDE DEF award, record
<1>6. /\ table \in Seq(Recruit) /\ Len(table) = Len(recruits) /\ Len(table) >= 1
      /\ \A j \in 1..Len(table) : ~table[j].alive
      /\ \A j \in 1..Len(table) : table[j].born <= table[j].last /\ table[j].last <= s.rec.last
      /\ \A j, k \in 1..Len(table) : j < k => table[j].last <= table[k].born
      /\ s.rec.last \in Nat /\ s.rec.last <= clock
      /\ s.deaths \in Seq(Death) /\ Len(deaths) <= Len(s.deaths)
  BY <1>1, <1>2, ClosedTable
<1>7. PICK j \in LatestIn(table) : recruits' = Append(table, Successor(table[j], clock))
  BY <1>3
<1> HIDE DEF table
<1>8. table[j] \in Recruit
  BY <1>6, ElementOfSeq DEF LatestIn
<1>9. clock \in Nat
  BY <1>0 DEF TypeOK
<1> DEFINE new == Successor(table[j], clock)
<1>10. new \in Recruit /\ new.alive /\ new.born = clock /\ new.last = clock
  BY <1>8, <1>9, SuccessorType
<1>16. recruits' = Append(table, new)
  BY <1>7
<1> HIDE DEF new
<1>11. \A k \in 1..Len(table) : table[k].born <= table[k].last /\ table[k].last <= clock
  <2>1. \A k \in 1..Len(table) : table[k] \in Recruit
    BY <1>6, ElementOfSeq
  <2>2. \A k \in 1..Len(table) : table[k].last \in Nat
    BY <2>1 DEF Recruit
  <2> QED BY <1>6, <1>9, <2>2
<1>12. /\ deaths' \in Seq(Death) /\ Len(deaths') = Len(s.deaths) + 1 /\ Len(deaths') \in Nat
       /\ Len(deaths) <= Len(deaths') /\ Len(deaths) \in Nat
  <2>1. deaths \in Seq(Death)
    BY <1>0 DEF TypeOK
  <2> QED BY <1>3, <1>5, <1>6, <2>1, AppendProperties
<1>13. banked' \subseteq 1..Len(deaths')
  BY <1>0, <1>3, <1>12
<1>14. pension' \in Pension /\ transfer' \in Transfer /\ assignment' \in Assignment
  <2>1. s.pension \in Pension /\ s.transfer \in Transfer /\ s.assignment \in Assignment
    BY <1>2 DEF Resolution
  <2>2. s.pension.total + award \in Nat
    BY <1>4, <2>1 DEF Pension
  <2>3. pension' \in Pension
    BY <1>3, <2>1, <2>2 DEF Pension
  <2> QED BY <1>3, <2>1, <2>3
<1>15. surrendered' \in Nat /\ UNCHANGED <<clock, office, registry>>
  BY <1>0, <1>3 DEF TypeOK
<1>17. /\ new.last <= clock /\ new.born = new.last
       /\ \A k \in 1..Len(table) : table[k].born <= table[k].last /\ table[k].last <= new.born
  BY <1>9, <1>10, <1>11
<1> QED
  BY <1>6, <1>9, <1>10, <1>12, <1>13, <1>14, <1>15, <1>16, <1>17, DeliveryKeepsIInv

(* The transfer closes the recruit, and delivers at its last tick.          *)
LEMMA FileTransferKeepsIInv ==
  ASSUME IInv, FileTransfer
  PROVE  IInv'
<1>0. TypeOK /\ Len(recruits) >= 1 /\ CareersDoNotOverlap /\ banked \subseteq 1..Len(deaths)
  BY DEF IInv
<1>1. PICK i, s :
      /\ i \in Active /\ s \in Inside(i)
      /\ LET surrender == s.pension.total + s.pension.spent
            award     == CommendationAward(surrender)
        IN  /\ transfer' = [s.transfer EXCEPT !.total = @ + award, !.careers = @ + 1]
            /\ pension' = Surrendered(s.pension)
            /\ recruits' = Append([recruits EXCEPT ![i] = Closed(s.rec)],
                                  Posting(s.transfer.unlocks, PostingTick(recruits[i], s.rec)))
            /\ deaths' = Append(s.deaths, [who |-> i, award |-> 0, handled |-> s.rec.gold,
                                           cause |-> "transferred"])
            /\ assignment' = s.assignment
            /\ surrendered' = surrendered + surrender
            /\ UNCHANGED <<clock, office, registry, banked>>
  BY DEF FileTransfer
<1> DEFINE table  == [recruits EXCEPT ![i] = Closed(s.rec)]
           surrender == s.pension.total + s.pension.spent
           award  == CommendationAward(surrender)
           record == [who |-> i, award |-> 0, handled |-> s.rec.gold, cause |-> "transferred"]
           new    == Posting(s.transfer.unlocks, s.rec.last)
<1>2. Resolution(i, s)
  BY <1>1, InsideIsResolution
<1>3. /\ transfer' = [s.transfer EXCEPT !.total = @ + award, !.careers = @ + 1]
      /\ pension' = Surrendered(s.pension)
      /\ recruits' = Append(table, new)
      /\ deaths' = Append(s.deaths, record)
      /\ assignment' = s.assignment
      /\ surrendered' = surrendered + surrender
      /\ UNCHANGED <<clock, office, registry, banked>>
  BY <1>1 DEF PostingTick
<1>4. record \in Death
  <2>1. i \in Nat
    BY <1>1, ActiveIsNewest
  <2>2. s.rec.gold \in Nat
    BY <1>2 DEF Resolution, Recruit
  <2> QED BY <2>1, <2>2 DEF Death
<1>5. surrender \in Nat
  BY <1>2 DEF Resolution, Pension
<1> HIDE DEF record, surrender
<1>6. award \in Nat
  BY <1>5, Constants DEF CommendationAward
<1> HIDE DEF award
<1>7. transfer' \in Transfer
  <2>1. s.transfer \in Transfer
    BY <1>2 DEF Resolution
  <2>2. s.transfer.total + award \in Nat /\ s.transfer.careers + 1 \in Nat
    BY <1>6, <2>1 DEF Transfer
  <2> QED BY <1>3, <2>1, <2>2 DEF Transfer
<1>8. /\ table \in Seq(Recruit) /\ Len(table) = Len(recruits) /\ Len(table) >= 1
      /\ \A j \in 1..Len(table) : ~table[j].alive
      /\ \A j \in 1..Len(table) : table[j].born <= table[j].last /\ table[j].last <= s.rec.last
      /\ \A j, k \in 1..Len(table) : j < k => table[j].last <= table[k].born
      /\ s.rec.last \in Nat /\ s.rec.last <= clock
      /\ s.deaths \in Seq(Death) /\ Len(deaths) <= Len(s.deaths)
  BY <1>1, <1>2, ClosedTable
<1>9. new \in Recruit /\ new.alive /\ new.born = s.rec.last /\ new.last = s.rec.last
  <2>1. s.transfer.unlocks \in SUBSET Commendations
    BY <1>2 DEF Resolution, Transfer
  <2> QED BY <1>8, <2>1, PostingType
<1> HIDE DEF table, new
<1>10. /\ deaths' \in Seq(Death) /\ Len(deaths') = Len(s.deaths) + 1
       /\ Len(deaths) <= Len(deaths') /\ Len(deaths) \in Nat /\ Len(s.deaths) \in Nat
  <2>1. deaths \in Seq(Death)
    BY <1>0 DEF TypeOK
  <2> QED BY <1>3, <1>4, <1>8, <2>1, AppendProperties
<1>11. banked' \subseteq 1..Len(deaths')
  BY <1>0, <1>3, <1>10
<1>12. pension' \in Pension
  BY <1>3 DEF Surrendered, Pension
<1>13. assignment' \in Assignment /\ surrendered' \in Nat
  BY <1>0, <1>2, <1>3, <1>5 DEF Resolution, TypeOK
<1>14. /\ new.last <= clock /\ new.born = new.last
       /\ \A j \in 1..Len(table) : table[j].born <= table[j].last /\ table[j].last <= new.born
  BY <1>8, <1>9
<1> QED
  BY <1>3, <1>7, <1>8, <1>9, <1>10, <1>11, <1>12, <1>13, <1>14, DeliveryKeepsIInv

(* The handlers that save the recruit their own resolution returned.       *)
Saving ==
  \/ LoadState \/ ResolveOnly \/ ExpeditePermit \/ FileForm \/ HireStaff \/ SellItem
  \/ PurchaseRequisition \/ AcceptAssignment

(* What they all commit.                                                   *)
Committed ==
  \E i, s, rec :
    /\ i \in Active /\ Resolution(i, s)
    /\ rec \in Recruit
    /\ rec.alive = s.rec.alive /\ rec.born = s.rec.born /\ rec.last = s.rec.last
    /\ recruits' = [recruits EXCEPT ![i] = rec]
    /\ deaths' = s.deaths /\ pension' = s.pension
    /\ transfer' \in Transfer /\ assignment' \in Assignment
    /\ office' \subseteq Requisitions /\ registry' \subseteq Posts
    /\ UNCHANGED <<clock, banked, surrendered>>

LEMMA SavingCommits ==
  ASSUME IInv, Saving
  PROVE  Committed \/ UNCHANGED vars
<1>0. TypeOK
  BY DEF IInv
<1>1. ASSUME NEW i \in Active, NEW s, Resolution(i, s), NEW rec \in Recruit,
             rec.alive = s.rec.alive, rec.born = s.rec.born, rec.last = s.rec.last,
             Save(i, s, rec), office' \subseteq Requisitions, registry' \subseteq Posts
      PROVE  Committed
  BY <1>1 DEF Save, Resolution, Committed
<1>2. ASSUME NEW i \in Active, NEW s, Resolution(i, s), NEW cost \in Nat, s.rec.gold >= cost,
             Save(i, s, Charged(s.rec, cost)),
             office' \subseteq Requisitions, registry' \subseteq Posts
      PROVE  Committed
  <2>1. s.rec.gold - cost \in Nat
    BY <1>2 DEF Resolution, Recruit
  <2>2. /\ Charged(s.rec, cost) \in Recruit
        /\ Charged(s.rec, cost).alive = s.rec.alive
        /\ Charged(s.rec, cost).born = s.rec.born
        /\ Charged(s.rec, cost).last = s.rec.last
    BY <1>2, <2>1 DEF Charged, Resolution, Recruit
  <2> QED BY <1>1, <1>2, <2>2
<1>3. CASE LoadState
  <2>1. CASE \E i \in Active : \E s \in Lived(i) :
               Save(i, s, s.rec) /\ UNCHANGED <<office, registry>>
    <3>1. PICK i, s : /\ i \in Active /\ s \in Lived(i)
                      /\ Save(i, s, s.rec) /\ UNCHANGED <<office, registry>>
      BY <2>1
    <3>2. Resolution(i, s)
      BY <3>1, LivedIsResolution
    <3> QED BY <1>0, <1>1, <3>1, <3>2 DEF Resolution, TypeOK
  <2> QED BY <1>3, <2>1 DEF LoadState
<1>4. CASE ResolveOnly
  <2>1. PICK i, s : /\ i \in Active /\ s \in Inside(i)
                    /\ Save(i, s, s.rec) /\ UNCHANGED <<office, registry>>
    BY <1>4 DEF ResolveOnly
  <2>2. Resolution(i, s)
    BY <2>1, InsideIsResolution
  <2> QED BY <1>0, <1>1, <2>1, <2>2 DEF Resolution, TypeOK
<1>5. CASE ExpeditePermit \/ FileForm
  <2>1. PICK i, s : /\ i \in Active /\ s \in Inside(i) /\ s.rec.gold >= Fee
                    /\ Save(i, s, Charged(s.rec, Fee)) /\ UNCHANGED <<office, registry>>
    BY <1>5 DEF ExpeditePermit, FileForm
  <2>2. Resolution(i, s)
    BY <2>1, InsideIsResolution
  <2> QED BY <1>0, <1>2, <2>1, <2>2, Constants DEF TypeOK
<1>6. CASE HireStaff
  <2>1. PICK i, s, role :
          /\ i \in Active /\ s \in Inside(i) /\ role \in Posts \ registry
          /\ s.rec.gold >= Wage /\ registry' = registry \cup {role}
          /\ Save(i, s, Charged(s.rec, Wage)) /\ UNCHANGED office
    BY <1>6 DEF HireStaff
  <2>2. Resolution(i, s)
    BY <2>1, InsideIsResolution
  <2>3. registry' \subseteq Posts /\ office' \subseteq Requisitions
    BY <1>0, <2>1 DEF TypeOK
  <2> QED BY <1>2, <2>1, <2>2, <2>3, Constants
<1>7. CASE SellItem
  <2>1. PICK i, s, n, g :
          /\ i \in Active /\ s \in Inside(i) /\ n \in 1..s.rec.stock /\ g \in 0..MaxGold
          /\ Save(i, s, [s.rec EXCEPT !.stock = @ - n, !.gold = g])
          /\ UNCHANGED <<office, registry>>
    BY <1>7 DEF SellItem
  <2> DEFINE sold == [s.rec EXCEPT !.stock = @ - n, !.gold = g]
  <2>2. Resolution(i, s)
    BY <2>1, InsideIsResolution
  <2>3. g \in Nat /\ s.rec.stock - n \in Nat
    <3>1. s.rec.stock \in Nat
      BY <2>2 DEF Resolution, Recruit
    <3> QED BY <2>1, <3>1, Constants
  <2>4. sold \in Recruit /\ sold.alive = s.rec.alive /\ sold.born = s.rec.born
        /\ sold.last = s.rec.last
    BY <2>2, <2>3 DEF Resolution, Recruit
  <2> QED BY <1>0, <1>1, <2>1, <2>2, <2>4 DEF TypeOK
<1>8. CASE PurchaseRequisition
  <2>1. PICK i, s, e :
          /\ i \in Active /\ s \in Inside(i) /\ e \in Requisitions
          /\ s.rec.gold >= e.cost /\ office' = office \cup {e}
          /\ Save(i, s, Charged(s.rec, e.cost)) /\ UNCHANGED registry
    BY <1>8 DEF PurchaseRequisition
  <2>2. e.cost \in Nat
    BY <2>1, Constants DEF Entry
  <2>3. registry' \subseteq Posts /\ office' \subseteq Requisitions
    BY <1>0, <2>1 DEF TypeOK
  <2>4. Resolution(i, s)
    BY <2>1, InsideIsResolution
  <2> QED BY <1>2, <2>1, <2>2, <2>3, <2>4
<1>9. CASE AcceptAssignment
  <2>1. PICK i, s, x :
          /\ i \in Active /\ s \in Inside(i) /\ x \in Assignments
          /\ recruits' = [recruits EXCEPT ![i] = s.rec]
          /\ deaths' = s.deaths /\ pension' = s.pension /\ transfer' = s.transfer
          /\ assignment' = [s.assignment EXCEPT !.active = x]
          /\ UNCHANGED <<clock, office, registry, banked, surrendered>>
    BY <1>9 DEF AcceptAssignment
  <2>2. Resolution(i, s)
    BY <2>1, InsideIsResolution
  <2>3. assignment' \in Assignment
    BY <2>1, <2>2 DEF Resolution, Assignment
  <2>4. /\ s.rec \in Recruit /\ transfer' \in Transfer
        /\ office' \subseteq Requisitions /\ registry' \subseteq Posts
    BY <1>0, <2>1, <2>2 DEF Resolution, TypeOK
  <2> QED BY <2>1, <2>2, <2>3, <2>4 DEF Committed
<1> QED BY <1>3, <1>4, <1>5, <1>6, <1>7, <1>8, <1>9 DEF Saving

LEMMA StepIInv == IInv /\ [Next]_vars => IInv'
<1> SUFFICES ASSUME IInv, [Next]_vars PROVE IInv'
  OBVIOUS
<1>0. /\ TypeOK /\ OnlyNewestServes /\ PendingIsTheirs /\ CareersDoNotOverlap
      /\ Len(recruits) >= 1 /\ banked \subseteq 1..Len(deaths)
  BY DEF IInv
<1>1. CASE Committed
  BY <1>1, SaveKeepsIInv DEF Committed
<1>2. CASE UNCHANGED vars
  BY <1>0, <1>2, TablesUntouchedKeepsIInv DEF vars, TypeOK
<1>3. CASE Saving
  BY <1>1, <1>2, <1>3, SavingCommits
<1>4. CASE Tick
  BY <1>0, <1>4, TablesUntouchedKeepsIInv DEF Tick, TypeOK
<1>5. CASE PurchaseUnlock
  <2>1. pension' \in Pension
    BY <1>0, <1>5, RedeemedType DEF PurchaseUnlock, TypeOK
  <2> QED BY <1>0, <1>5, <2>1, TablesUntouchedKeepsIInv DEF PurchaseUnlock, TypeOK
<1>6. CASE PurchaseCommendation
  <2>1. PICK e \in Commendations :
          /\ transfer.total >= e.cost
          /\ transfer' = [transfer EXCEPT !.total = @ - e.cost, !.spent = @ + e.cost,
                                          !.unlocks = @ \cup {e}]
    BY <1>6 DEF PurchaseCommendation
  <2>2. e.cost \in Nat /\ transfer \in Transfer
    BY <1>0, Constants DEF Entry, TypeOK
  <2>3. /\ transfer.total - e.cost \in Nat /\ transfer.spent + e.cost \in Nat
        /\ transfer.unlocks \cup {e} \in SUBSET Commendations
    BY <2>1, <2>2 DEF Transfer
  <2>4. transfer' \in Transfer
    BY <2>1, <2>2, <2>3 DEF Transfer
  <2> QED BY <1>0, <1>6, <2>4, TablesUntouchedKeepsIInv DEF PurchaseCommendation, TypeOK
<1>7. CASE ClaimPension
  BY <1>7, ClaimPensionKeepsIInv
<1>8. CASE RetireRecruit
  BY <1>8, RetireRecruitKeepsIInv
<1>9. CASE FileTransfer
  BY <1>9, FileTransferKeepsIInv
<1>10. CASE AbandonAssignment
  <2>1. assignment' \in Assignment
    BY <1>0, <1>10 DEF AbandonAssignment, TypeOK, Assignment
  <2> QED BY <1>0, <1>10, <2>1, TablesUntouchedKeepsIInv DEF AbandonAssignment, TypeOK
<1> QED
  BY <1>2, <1>3, <1>4, <1>5, <1>6, <1>7, <1>8, <1>9, <1>10 DEF Next, Saving

-----------------------------------------------------------------------------
(* The theorems *)

(* The invariant holds of every reachable state.                           *)
LEMMA Invariant == Spec => []IInv
BY InitIInv, StepIInv, PTL DEF Spec

(* The tables and ledgers keep their types: no purse, no ledger and no     *)
(* award of any handler goes below zero.                                   *)
THEOREM TypeCorrect == Spec => []TypeOK
<1>1. IInv => TypeOK
  BY DEF IInv
<1> QED BY <1>1, Invariant, PTL

(* At most one recruit serves, and it is the newest.                       *)
THEOREM OneServes == Spec => []OnlyNewestServes
<1>1. IInv => OnlyNewestServes
  BY DEF IInv
<1> QED BY <1>1, Invariant, PTL

(* The award on offer is the newest recruit's own, and has not been paid.  *)
THEOREM PendingSafe == Spec => []PendingIsTheirs
<1>1. IInv => PendingIsTheirs
  BY DEF IInv
<1> QED BY <1>1, Invariant, PTL

(* No tick is served twice, transfers included.                            *)
THEOREM Chronology == Spec => []CareersDoNotOverlap
<1>1. IInv => CareersDoNotOverlap
  BY DEF IInv
<1> QED BY <1>1, Invariant, PTL

(* No committed transaction changes a recruit an earlier one left dead.    *)
THEOREM ClosedStayClosed == Spec => DeadAreClosed
<1> DEFINE Kept == \A i \in DOMAIN recruits : ~recruits[i].alive => recruits'[i] = recruits[i]
<1>1. IInv /\ [Next]_vars => [Kept]_vars
  <2> SUFFICES ASSUME IInv, Next PROVE Kept
    BY DEF vars
  <2>0. recruits \in Seq(Recruit) /\ Len(recruits) \in Nat /\ DOMAIN recruits = 1..Len(recruits)
    BY DEF IInv, TypeOK
  <2>1. ASSUME NEW i \in Active, NEW rec, NEW table, table = [recruits EXCEPT ![i] = rec]
        PROVE  \A j \in DOMAIN recruits : ~recruits[j].alive => table[j] = recruits[j]
    BY <2>1 DEF Active
  <2>2. CASE Saving
    BY <2>1, <2>2, SavingCommits DEF Committed, vars
  <2>3. CASE ClaimPension
    <3>1. PICK j \in LatestIn(recruits) : recruits' = Append(recruits, Successor(recruits[j], clock))
      BY <2>3 DEF ClaimPension, ClaimInside
    <3> QED BY <2>0, <3>1
  <2>4. ASSUME NEW i \in Active, NEW s, NEW new, Resolution(i, s),
               recruits' = Append([recruits EXCEPT ![i] = Closed(s.rec)], new)
        PROVE  Kept
    <3> DEFINE table == [recruits EXCEPT ![i] = Closed(s.rec)]
    <3>1. table \in Seq(Recruit) /\ Len(table) = Len(recruits)
      BY <2>4, ClosedTable
    <3>2. \A j \in DOMAIN recruits : ~recruits[j].alive => table[j] = recruits[j]
      BY <2>1
    <3> HIDE DEF table
    <3>3. recruits' = Append(table, new)
      BY <2>4 DEF table
    <3> QED BY <2>0, <3>1, <3>2, <3>3
  <2>5. CASE RetireRecruit
    <3>1. PICK i, s :
            /\ i \in Active /\ s \in Inside(i)
            /\ \E j : recruits' = Append([recruits EXCEPT ![i] = Closed(s.rec)],
                        Successor([recruits EXCEPT ![i] = Closed(s.rec)][j], clock))
      BY <2>5 DEF RetireRecruit, ClaimInside
    <3> QED BY <2>4, <3>1, InsideIsResolution
  <2>6. CASE FileTransfer
    <3>1. PICK i, s :
            /\ i \in Active /\ s \in Inside(i)
            /\ recruits' = Append([recruits EXCEPT ![i] = Closed(s.rec)],
                                  Posting(s.transfer.unlocks, PostingTick(recruits[i], s.rec)))
      BY <2>6 DEF FileTransfer
    <3> QED BY <2>4, <3>1, InsideIsResolution
  <2>7. CASE Tick \/ PurchaseUnlock \/ PurchaseCommendation \/ AbandonAssignment
    BY <2>7 DEF Tick, PurchaseUnlock, PurchaseCommendation, AbandonAssignment
  <2> QED BY <2>2, <2>3, <2>5, <2>6, <2>7 DEF Next, Saving
<1> QED BY <1>1, Invariant, PTL DEF Spec, DeadAreClosed

(* A retirement is banked on top of whatever the visit left, and delivers  *)
(* a recruit that serves.                                                  *)
LEMMA RetirementPays ==
  ASSUME IInv, RetireRecruit
  PROVE  /\ Active # {} /\ Active' # {}
         /\ pension'.spent \in pension.spent..(pension.spent + pension.total)
         /\ pension'.total + pension'.spent >= pension.total + pension.spent
<1>1. PICK i, s :
      /\ i \in Active /\ s \in Inside(i)
      /\ LET service == s.rec.last - s.rec.born
            award   == Award(s.pension.unlocks, service, s.rec.depth, Estate(s.rec))
        IN  /\ service >= MinService
            /\ ClaimInside([recruits EXCEPT ![i] = Closed(s.rec)], s.pension, award)
  BY DEF RetireRecruit
<1> DEFINE table == [recruits EXCEPT ![i] = Closed(s.rec)]
           award == Award(s.pension.unlocks, s.rec.last - s.rec.born, s.rec.depth, Estate(s.rec))
<1>2. Resolution(i, s)
  BY <1>1, InsideIsResolution
<1>3. /\ \E j \in LatestIn(table) : recruits' = Append(table, Successor(table[j], clock))
      /\ pension' = [s.pension EXCEPT !.total = @ + award]
      /\ s.rec.last - s.rec.born >= MinService
  BY <1>1 DEF ClaimInside
<1>4. award \in Nat
  <2> HIDE DEF table, award
  <2>1. s.rec.last - s.rec.born \in Nat
    <3>1. s.rec.last \in Nat /\ s.rec.born \in Nat
      BY <1>2 DEF Resolution, Recruit
    <3>2. s.rec.last - s.rec.born >= MinService
      BY <1>3
    <3> QED BY <3>1, <3>2, Constants
  <2>2. s.rec.depth \in Nat /\ Estate(s.rec) \in Nat /\ s.pension.unlocks \subseteq Rungs
    BY <1>2 DEF Resolution, Recruit, Estate, Pension
  <2> QED BY <2>1, <2>2, AwardType DEF award
<1> HIDE DEF award
<1>5. table \in Seq(Recruit) /\ clock \in Nat
  BY <1>1, <1>2, ClosedTable DEF IInv, TypeOK
<1>6. PICK j \in LatestIn(table) : recruits' = Append(table, Successor(table[j], clock))
  BY <1>3
<1> HIDE DEF table
<1>7. Successor(table[j], clock) \in Recruit /\ Successor(table[j], clock).alive
  <2>1. table[j] \in Recruit
    BY <1>5, ElementOfSeq DEF LatestIn
  <2> QED BY <1>5, <2>1, SuccessorType
<1> DEFINE new == Successor(table[j], clock)
<1>8. new.alive /\ recruits' = Append(table, new)
  BY <1>6, <1>7
<1> HIDE DEF new
<1>9. Len(table) + 1 \in Active'
  <2>1. Len(recruits') = Len(table) + 1 /\ recruits'[Len(table) + 1] = new /\ Len(table) \in Nat
    BY <1>5, <1>8
  <2>2. DOMAIN recruits' = 1..(Len(table) + 1)
    BY <1>5, <1>8
  <2> QED BY <1>8, <2>1, <2>2 DEF Active
<1>10. /\ pension'.spent = s.pension.spent /\ pension'.total = s.pension.total + award
       /\ s.pension.total \in Nat /\ s.pension.spent \in Nat
  BY <1>2, <1>3 DEF Resolution, Pension
<1>11. pension.total \in Nat /\ pension.spent \in Nat
  BY DEF IInv, TypeOK, Pension
<1> QED BY <1>1, <1>2, <1>4, <1>9, <1>10, <1>11 DEF Resolution

(* The account implements Entitlement: what falls due at a death is banked *)
(* once and in full, whichever request met the death.                      *)
THEOREM Implements == Spec => KeepsThePromise
<1>1. Init => Promise!Init
  <2> SUFFICES ASSUME Init PROVE Promise!Init
    OBVIOUS
  <2>1. 1 \in Active
    BY DEF Init, Active, NewRecruit
  <2> QED BY <2>1 DEF Init, Promise!Init
<1>2. IInv /\ [Next]_vars => [Promise!Next]_Promise!vars
  <2> SUFFICES ASSUME IInv, [Next]_vars PROVE [Promise!Next]_Promise!vars
    OBVIOUS
  <2>0. IInv' /\ pension \in Pension /\ pension.total \in Nat /\ pension.spent \in Nat
    BY StepIInv DEF IInv, TypeOK, Pension
  <2>1. ASSUME UNCHANGED <<recruits, deaths, pension>>
        PROVE  UNCHANGED Promise!vars
    BY <2>1 DEF Promise!vars, Active, LatestDeath
  <2>2. CASE Committed
    <3>1. PICK i, s, rec :
            /\ i \in Active /\ Resolution(i, s)
            /\ rec \in Recruit /\ rec.alive = s.rec.alive
            /\ recruits' = [recruits EXCEPT ![i] = rec]
            /\ deaths' = s.deaths /\ pension' = s.pension
      BY <2>2 DEF Committed
    <3>2. Active # {}
      BY <3>1
    <3>3. \A j \in Active' : j = i
      BY <2>0, <3>1, ActiveIsNewest DEF IInv, OnlyNewestServes
    <3>4. i \in Active' <=> s.rec.alive
      BY <3>1 DEF Active
    <3>5. CASE s.rec.alive
      <4>1. Active' # {}
        BY <3>4, <3>5
      <4>2. Promise!Spend
        BY <3>1, <3>2, <4>1 DEF Resolution, Promise!Spend
      <4> QED BY <4>2 DEF Promise!Next
    <3>6. CASE ~s.rec.alive
      <4>1. Active' = {}
        BY <3>3, <3>4, <3>6
      <4>2. LatestDeath.award' \in Nat /\ pension' = pension
        <5>1. PICK d \in Death : deaths' = Append(deaths, d)
          BY <3>1, <3>6 DEF Resolution
        <5>2. deaths \in Seq(Death)
          BY DEF IInv, TypeOK
        <5>3. deaths'[Len(deaths')] = d
          BY <5>1, <5>2, AppendProperties
        <5> QED BY <3>1, <3>6, <5>3 DEF LatestDeath, Death, Resolution
      <4>3. Promise!Assess
        BY <3>2, <4>1, <4>2 DEF Promise!Assess
      <4> QED BY <4>3 DEF Promise!Next
    <3> QED BY <3>5, <3>6
  <2>3. CASE Saving
    BY <2>1, <2>2, <2>3, SavingCommits DEF vars
  <2>4. CASE PurchaseUnlock
    <3>1. PICK e \in Affordable(Rungs, pension.unlocks, Licences, pension.total) :
            pension' = Redeemed(pension, e)
      BY <2>4 DEF PurchaseUnlock
    <3>2. /\ pension'.spent \in pension.spent..(pension.spent + pension.total)
          /\ pension'.total + pension'.spent = pension.total + pension.spent
      BY <2>0, <3>1, RedeemedType
    <3>3. Promise!Spend
      BY <2>0, <2>4, <3>2 DEF PurchaseUnlock, Active, LatestDeath, Promise!Spend
    <3> QED BY <3>3 DEF Promise!Next
  <2>5. ASSUME NEW table \in Seq(Recruit), NEW new, recruits' = Append(table, new), new.alive
        PROVE  Active' # {}
    <3>1. Len(recruits') = Len(table) + 1 /\ recruits'[Len(table) + 1] = new /\ Len(table) \in Nat
      BY <2>5
    <3>2. Len(table) + 1 \in Active'
      BY <2>5, <3>1 DEF Active
    <3> QED BY <3>2
  <2>6. CASE ClaimPension
    <3>1. PICK j \in LatestIn(recruits) :
            recruits' = Append(recruits, Successor(recruits[j], clock))
      BY <2>6 DEF ClaimPension, ClaimInside
    <3>2. recruits \in Seq(Recruit) /\ clock \in Nat
      BY DEF IInv, TypeOK
    <3>3. Active' # {}
      <4>1. recruits[j] \in Recruit
        BY <3>2, ElementOfSeq DEF LatestIn
      <4> QED BY <2>5, <3>1, <3>2, <4>1, SuccessorType
    <3>4. /\ Active = {}
          /\ pension'.total = pension.total + LatestDeath.award
          /\ pension'.spent = pension.spent
      BY <2>0, <2>6 DEF ClaimPension, ClaimInside, Pension
    <3>5. Promise!Bank
      BY <3>3, <3>4 DEF Promise!Bank
    <3> QED BY <3>5 DEF Promise!Next
  <2>7. CASE RetireRecruit
    <3>1. /\ Active # {} /\ Active' # {}
          /\ pension'.spent \in pension.spent..(pension.spent + pension.total)
          /\ pension'.total + pension'.spent >= pension.total + pension.spent
      BY <2>7, RetirementPays
    <3>2. Promise!Retire
      BY <3>1 DEF Promise!Retire
    <3> QED BY <3>2 DEF Promise!Next
  <2>8. CASE FileTransfer
    <3>1. PICK i, s :
            /\ i \in Active /\ s \in Inside(i)
            /\ pension' = Surrendered(s.pension)
            /\ recruits' = Append([recruits EXCEPT ![i] = Closed(s.rec)],
                                  Posting(s.transfer.unlocks, PostingTick(recruits[i], s.rec)))
      BY <2>8 DEF FileTransfer
    <3>2. Resolution(i, s)
      BY <3>1, InsideIsResolution
    <3> DEFINE table == [recruits EXCEPT ![i] = Closed(s.rec)]
               new   == Posting(s.transfer.unlocks, PostingTick(recruits[i], s.rec))
    <3>3. table \in Seq(Recruit) /\ s.rec.last \in Nat
      BY <3>1, <3>2, ClosedTable
    <3>4. new.alive
      <4>1. s.transfer.unlocks \in SUBSET Commendations
        BY <3>2 DEF Resolution, Transfer
      <4> QED BY <3>3, <4>1, PostingType DEF PostingTick
    <3>5. recruits' = Append(table, new)
      BY <3>1
    <3> HIDE DEF table, new
    <3>6. Active' # {}
      BY <2>5, <3>3, <3>4, <3>5
    <3>7. Promise!Surrender
      BY <3>1, <3>6 DEF Promise!Surrender, Surrendered
    <3> QED BY <3>7 DEF Promise!Next
  <2>9. CASE Tick \/ PurchaseCommendation \/ AbandonAssignment \/ UNCHANGED vars
    BY <2>1, <2>9 DEF Tick, PurchaseCommendation, AbandonAssignment, vars
  <2> QED BY <2>3, <2>4, <2>6, <2>7, <2>8, <2>9 DEF Next, Saving
<1> QED BY <1>1, <1>2, Invariant, PTL DEF Spec, KeepsThePromise, Promise!Spec

-----------------------------------------------------------------------------
(* Sums over a finite set *)

(* A sum by the definition of the fold: one member, and the rest.          *)
First(s) == CHOOSE x \in s : TRUE

Sums(f, d, S) ==
  f = [s \in SUBSET S |-> IF s = {} THEN 0 ELSE d[First(s)].award + f[s \ {First(s)}]]

SumOf(d, S) == MapThenSumSet(LAMBDA k : d[k].award, S)

Alike(d, e, U) == \A k \in U : d[k].award = e[k].award

Counted(d, S) == \A k \in S : d[k].award \in Nat

Additive(f, d, S) ==
  \A V \in SUBSET S : f[V] \in Nat /\ \A x \in V : f[V] = d[x].award + f[V \ {x}]

(* Inclusion is well-founded on the subsets of a finite set.               *)
LEMMA MinimalSet ==
  ASSUME NEW S, IsFiniteSet(S), NEW B \in SUBSET SUBSET S, B # {}
  PROVE  \E V \in B : \A W \in B : W \subseteq V => W = V
<1>1. B \subseteq FiniteSubsetsOf(S)
  BY FS_Subset DEF FiniteSubsetsOf
<1>2. PICK V \in B : \A W \in B : <<W, V>> \notin StrictSubsetOrdering(S)
  BY <1>1, FS_StrictSubsetOrderingWellFounded, WFMin
<1>3. ASSUME NEW W \in B, W \subseteq V, W # V PROVE FALSE
  BY <1>2, <1>3 DEF StrictSubsetOrdering
<1> QED BY <1>3

LEMMA FirstIsIn ==
  ASSUME NEW s, s # {}
  PROVE  First(s) \in s
BY DEF First

LEMMA SumStep ==
  ASSUME NEW S, NEW d, NEW f, Sums(f, d, S), NEW s, s \subseteq S
  PROVE  /\ s = {} => f[s] = 0
         /\ s # {} => f[s] = d[First(s)].award + f[s \ {First(s)}]
<1> DEFINE h(r) == IF r = {} THEN 0 ELSE d[First(r)].award + f[r \ {First(r)}]
<1>1. f = [r \in SUBSET S |-> h(r)]
  BY DEF Sums
<1>2. s \in SUBSET S
  OBVIOUS
<1> HIDE DEF h
<1>3. f[s] = h(s)
  BY <1>1, <1>2
<1> QED BY <1>3 DEF h

(* Two sums agree where what they sum does.                                *)
LEMMA SumsAgree ==
  ASSUME NEW S, NEW T, NEW U, IsFiniteSet(U), U \subseteq S, U \subseteq T,
         NEW d, NEW e, Alike(d, e, U),
         NEW f, Sums(f, d, S), NEW g, Sums(g, e, T)
  PROVE  f[U] = g[U]
<1> DEFINE B == {V \in SUBSET U : f[V] # g[V]}
<1>1. SUFFICES ASSUME B # {} PROVE FALSE
  OBVIOUS
<1>0. B \in SUBSET SUBSET U
  OBVIOUS
<1>2. PICK V \in B : \A W \in B : W \subseteq V => W = V
  <2> HIDE DEF B
  <2> QED BY <1>0, <1>1, MinimalSet
<1>3. V \subseteq S /\ V \subseteq T /\ V \subseteq U /\ f[V] # g[V]
  BY <1>2
<1>6. (V = {} => f[V] = 0) /\ (V # {} => f[V] = d[First(V)].award + f[V \ {First(V)}])
  <2>1. Sums(f, d, S) /\ V \subseteq S
    BY <1>3
  <2> QED BY <2>1, SumStep
<1>7. (V = {} => g[V] = 0) /\ (V # {} => g[V] = e[First(V)].award + g[V \ {First(V)}])
  <2>1. Sums(g, e, T) /\ V \subseteq T
    BY <1>3
  <2> QED BY <2>1, SumStep
<1>4. CASE V = {}
  BY <1>3, <1>4, <1>6, <1>7
<1>5. CASE V # {}
  <2> DEFINE c == First(V)
             W == V \ {c}
  <2>1. c \in V
    BY <1>5, FirstIsIn
  <2> HIDE DEF c
  <2>2. f[V] = d[c].award + f[W] /\ g[V] = e[c].award + g[W]
    BY <1>6, <1>7, <1>5 DEF c
  <2>3. W \in SUBSET U /\ W \subseteq V /\ W # V
    BY <1>3, <2>1
  <2>4. f[W] = g[W]
    BY <1>2, <2>3
  <2>5. d[c].award = e[c].award
    BY <1>3, <2>1 DEF Alike
  <2> HIDE DEF W
  <2> QED BY <1>3, <2>2, <2>4, <2>5
<1> QED BY <1>4, <1>5

LEMMA SumsExist ==
  ASSUME NEW S, IsFiniteSet(S), NEW d
  PROVE  \E f : Sums(f, d, S)
<1> DEFINE B == {V \in SUBSET S : ~\E f : Sums(f, d, V)}
<1>1. SUFFICES ASSUME B # {} PROVE FALSE
  OBVIOUS
<1>0. B \in SUBSET SUBSET S
  OBVIOUS
<1>2. PICK V \in B : \A W \in B : W \subseteq V => W = V
  <2> HIDE DEF B
  <2> QED BY <1>0, <1>1, MinimalSet
<1> DEFINE G(W) == CHOOSE f : Sums(f, d, W)
           h == [s \in SUBSET V |-> IF s = {} THEN 0
                                    ELSE d[First(s)].award + G(s \ {First(s)})[s \ {First(s)}]]
<1>3. \A W \in SUBSET V : W # V => Sums(G(W), d, W)
  BY <1>2
<1> HIDE DEF G
<1>4. ASSUME NEW s \in SUBSET V, s # {}
      PROVE  h[s] = d[First(s)].award + h[s \ {First(s)}]
  <2> DEFINE r == s \ {First(s)}
  <2>1. First(s) \in s
    BY <1>4, FirstIsIn
  <2>2. r \in SUBSET V /\ r # V
    BY <2>1
  <2>3. h[s] = d[First(s)].award + G(r)[r]
    BY <1>4
  <2>4. Sums(G(r), d, r)
    BY <1>3, <2>2
  <2> HIDE DEF r
  <2>5. CASE r = {}
    <3>1. G(r)[r] = 0
      BY <2>4, <2>5 DEF Sums
    <3>2. h[r] = 0
      BY <2>2, <2>5
    <3> QED BY <2>3, <3>1, <3>2 DEF r
  <2>6. CASE r # {}
    <3> DEFINE q == r \ {First(r)}
    <3>1. First(r) \in r
      BY <2>6, FirstIsIn
    <3>2. q \in SUBSET V /\ q # V /\ q \subseteq r
      BY <2>2, <3>1
    <3>3. Sums(G(q), d, q)
      BY <1>3, <3>2
    <3>4. h[r] = d[First(r)].award + G(q)[q]
      BY <2>2, <2>6
    <3>5. G(r)[r] = d[First(r)].award + G(r)[q]
      BY <2>4, <2>6 DEF Sums
    <3>6. IsFiniteSet(q)
      <4>1. q \subseteq S
        BY <1>2, <3>2
      <4> QED BY <4>1, FS_Subset
    <3> HIDE DEF q
    <3>7. G(r)[q] = G(q)[q]
      <4>2. Alike(d, d, q)
        BY DEF Alike
      <4>1. Sums(G(r), d, r) /\ q \subseteq r /\ Sums(G(q), d, q) /\ q \subseteq q
        BY <2>4, <3>2, <3>3
      <4> HIDE DEF r
      <4> QED BY <4>1, <4>2, <3>6, SumsAgree
    <3> QED BY <2>3, <3>4, <3>5, <3>7 DEF r
  <2> QED BY <2>5, <2>6
<1>5. h[{}] = 0 /\ {} \in SUBSET V
  OBVIOUS
<1>6. Sums(h, d, V)
  <2>1. ASSUME NEW s \in SUBSET V
        PROVE  h[s] = IF s = {} THEN 0 ELSE d[First(s)].award + h[s \ {First(s)}]
    BY <1>4, <1>5
  <2>2. h = [s \in SUBSET V |-> h[s]]
    OBVIOUS
  <2> HIDE DEF h
  <2> QED BY <2>1, <2>2 DEF Sums
<1> QED BY <1>2, <1>6

(* Any member may be taken out first.                                      *)
LEMMA SumsAdd ==
  ASSUME NEW S, IsFiniteSet(S), NEW d, Counted(d, S), NEW f, Sums(f, d, S)
  PROVE  Additive(f, d, S)
<1> DEFINE Adds(V) == f[V] \in Nat /\ \A x \in V : f[V] = d[x].award + f[V \ {x}]
           B == {V \in SUBSET S : ~Adds(V)}
<1>1. SUFFICES ASSUME B # {} PROVE FALSE
  BY DEF Additive
<1>0. B \in SUBSET SUBSET S
  OBVIOUS
<1>2. PICK V \in B : \A W \in B : W \subseteq V => W = V
  <2> HIDE DEF B
  <2> QED BY <1>0, <1>1, MinimalSet
<1>3. V \in SUBSET S /\ ~Adds(V) /\ \A W \in SUBSET S : W \subseteq V /\ W # V => Adds(W)
  BY <1>2
<1>4. CASE V = {}
  BY <1>3, <1>4 DEF Sums
<1>5. CASE V # {}
  <2> DEFINE c == First(V)
  <2>1. c \in V
    BY <1>5, FirstIsIn
  <2> HIDE DEF c
  <2>2. f[V] = d[c].award + f[V \ {c}]
    BY <1>3, <1>5 DEF Sums, c
  <2>3. \A x \in V : Adds(V \ {x})
    BY <1>3
  <2>4. f[V] \in Nat
    BY <1>3, <2>1, <2>2, <2>3 DEF Counted
  <2>5. ASSUME NEW x \in V, x # c PROVE f[V] = d[x].award + f[V \ {x}]
    <3>1. (V \ {c}) \ {x} = (V \ {x}) \ {c}
      OBVIOUS
    <3>2. f[V \ {c}] = d[x].award + f[(V \ {c}) \ {x}] /\ f[V \ {c}] \in Nat
      BY <2>1, <2>3, <2>5
    <3>3. f[V \ {x}] = d[c].award + f[(V \ {x}) \ {c}] /\ f[V \ {x}] \in Nat
      BY <2>1, <2>3, <2>5
    <3>4. Adds((V \ {c}) \ {x})
      <4>1. (V \ {c}) \ {x} # V /\ (V \ {c}) \ {x} \in SUBSET S
        BY <1>3, <2>1
      <4> QED BY <1>3, <4>1
    <3>5. d[x].award \in Nat /\ d[c].award \in Nat /\ f[(V \ {c}) \ {x}] \in Nat
      BY <1>3, <2>1, <3>4 DEF Counted
    <3>6. f[V \ {c}] = d[x].award + f[(V \ {c}) \ {x}] /\ f[V \ {x}] = d[c].award + f[(V \ {c}) \ {x}]
      BY <3>1, <3>2, <3>3
    <3> DEFINE fV == f[V]
               fc == f[V \ {c}]
               fx == f[V \ {x}]
               fr == f[(V \ {c}) \ {x}]
               ac == d[c].award
               ax == d[x].award
    <3>7. fV = ac + fc /\ fc = ax + fr /\ fx = ac + fr /\ ac \in Nat /\ ax \in Nat /\ fr \in Nat
      BY <2>2, <3>6, <3>5
    <3> HIDE DEF fV, fc, fx, fr, ac, ax
    <3>8. fV = ax + fx
      BY <3>7
    <3> QED BY <3>8 DEF fV, ax, fx
  <2> QED BY <1>3, <2>2, <2>4, <2>5
<1> QED BY <1>4, <1>5

LEMMA SumIs ==
  ASSUME NEW S, IsFiniteSet(S), NEW d
  PROVE  \E f : Sums(f, d, S) /\ SumOf(d, S) = f[S]
<1> DEFINE g == CHOOSE f : f = [s \in SUBSET S |-> IF s = {} THEN 0
                                  ELSE d[First(s)].award + f[s \ {First(s)}]]
<1>3. \E f : Sums(f, d, S)
  BY SumsExist
<1>1. Sums(g, d, S)
  BY <1>3 DEF Sums
<1>2. SumOf(d, S) = g[S]
  BY DEF SumOf, MapThenSumSet, MapThenFoldSet, First
<1> QED BY <1>1, <1>2

(* What the sums of the account need.                                      *)
LEMMA SumOfEmpty == ASSUME NEW d PROVE SumOf(d, {}) = 0
<1>1. PICK f : Sums(f, d, {}) /\ SumOf(d, {}) = f[{}]
  BY SumIs, FS_EmptySet
<1> QED BY <1>1 DEF Sums

LEMMA SumOfAgrees ==
  ASSUME NEW S, IsFiniteSet(S), NEW d, NEW e, Alike(d, e, S)
  PROVE  SumOf(d, S) = SumOf(e, S)
<1>1. PICK f : Sums(f, d, S) /\ SumOf(d, S) = f[S]
  BY SumIs
<1>2. PICK g : Sums(g, e, S) /\ SumOf(e, S) = g[S]
  BY SumIs
<1> QED BY <1>1, <1>2, SumsAgree

LEMMA SumOfAdds ==
  ASSUME NEW S, IsFiniteSet(S), NEW x, x \notin S, NEW d,
         Counted(d, S \cup {x})
  PROVE  SumOf(d, S) \in Nat /\ SumOf(d, S \cup {x}) = SumOf(d, S) + d[x].award
<1>1. IsFiniteSet(S \cup {x})
  BY FS_AddElement
<1>2. PICK f : Sums(f, d, S) /\ SumOf(d, S) = f[S]
  BY SumIs
<1>3. PICK g : Sums(g, d, S \cup {x}) /\ SumOf(d, S \cup {x}) = g[S \cup {x}]
  BY <1>1, SumIs
<1>4. g[S] = f[S]
  <2>1. S \subseteq S \cup {x} /\ S \subseteq S /\ Alike(d, d, S)
    BY DEF Alike
  <2> QED BY <1>2, <1>3, <2>1, SumsAgree
<1> DEFINE T == S \cup {x}
<1>6. T \ {x} = S /\ d[x].award \in Nat /\ x \in T /\ T \in SUBSET T /\ S \in SUBSET T
  BY DEF Counted
<1>7. Counted(d, T)
  OBVIOUS
<1> HIDE DEF T
<1>5. Additive(g, d, T)
  BY <1>1, <1>3, <1>7, SumsAdd DEF T
<1>8. g[S] \in Nat
  BY <1>5, <1>6 DEF Additive
<1>9. g[T] = d[x].award + g[S]
  BY <1>5, <1>6 DEF Additive
<1> QED BY <1>2, <1>3, <1>4, <1>6, <1>8, <1>9 DEF T
-----------------------------------------------------------------------------
(* Ladders *)

(* No rung is held without the ones below it.                              *)
Climbed(owned) ==
  \A e \in owned : \A t \in 1..(e.tier - 1) : \E x \in owned : x.track = e.track /\ x.tier = t

(* The owned tier of a track is the greatest tier held on it.              *)
LEMMA OwnedTierIs ==
  ASSUME NEW owned, owned \subseteq Entry, NEW track
  PROVE  /\ OwnedTier(owned, track) \in 0..3
         /\ OwnedTier(owned, track) # 0 =>
              \E x \in owned : x.track = track /\ x.tier = OwnedTier(owned, track)
         /\ \A x \in owned : x.track = track => x.tier <= OwnedTier(owned, track)
<1> DEFINE T == {0} \cup {e.tier : e \in {x \in owned : x.track = track}}
<1>1. T \subseteq 0..3 /\ 0 \in T
  BY DEF Entry, TopTier
<1>4. \A n \in T : n # 0 => \E x \in owned : x.track = track /\ x.tier = n
  OBVIOUS
<1>5. \A x \in owned : x.track = track => x.tier \in T
  OBVIOUS
<1> HIDE DEF T
<1>2. \E x \in T : \A y \in T : x >= y
  <2>1. CASE 3 \in T BY <1>1, <2>1
  <2>2. CASE 3 \notin T /\ 2 \in T
    <3>1. \A y \in T : 2 >= y BY <1>1, <2>2
    <3> QED BY <2>2, <3>1
  <2>3. CASE 3 \notin T /\ 2 \notin T /\ 1 \in T
    <3>1. \A y \in T : 1 >= y BY <1>1, <2>3
    <3> QED BY <2>3, <3>1
  <2>4. CASE 3 \notin T /\ 2 \notin T /\ 1 \notin T
    <3>1. \A y \in T : 0 >= y BY <1>1, <2>4
    <3> QED BY <1>1, <3>1
  <2> QED BY <2>1, <2>2, <2>3, <2>4
<1>3. Max(T) \in T /\ \A y \in T : Max(T) >= y
  BY <1>2 DEF Max
<1>6. OwnedTier(owned, track) = Max(T)
  BY DEF OwnedTier, T
<1>7. \A x \in owned : x.track = track => x.tier <= Max(T)
  BY <1>1, <1>3, <1>5
<1> QED BY <1>1, <1>3, <1>4, <1>6, <1>7

(* The rung the purchases accept keeps the ladder climbed.                 *)
LEMMA NextKeepsClimbed ==
  ASSUME NEW owned, owned \subseteq Entry, Climbed(owned),
         NEW e \in Entry, NextOnLadder(owned, e)
  PROVE  Climbed(owned \cup {e})
<1> DEFINE m == OwnedTier(owned, e.track)
<1>1. /\ m \in 0..3
      /\ m # 0 => \E x \in owned : x.track = e.track /\ x.tier = m
  BY OwnedTierIs
<1>2. m = e.tier - 1
  BY DEF NextOnLadder
<1> HIDE DEF m
<1>3. ASSUME NEW t \in 1..(e.tier - 1)
      PROVE  \E x \in owned : x.track = e.track /\ x.tier = t
  <2>1. PICK x \in owned : x.track = e.track /\ x.tier = m
    BY <1>1, <1>2
  <2>2. CASE t = m
    BY <2>1, <2>2
  <2>3. CASE t # m
    <3>1. t \in 1..(x.tier - 1)
      BY <1>1, <1>2, <2>1, <2>3
    <3>2. PICK y \in owned : y.track = x.track /\ y.tier = t
      BY <3>1 DEF Climbed
    <3> QED BY <2>1, <3>2
  <2> QED BY <2>2, <2>3
<1>4. \A f \in owned : \A t \in 1..(f.tier - 1) : \E x \in owned : x.track = f.track /\ x.tier = t
  BY DEF Climbed
<1> QED BY <1>3, <1>4 DEF Climbed

(* Tracks held at the top tier are finitely many when rungs are.           *)
LEMMA LicencesFinite ==
  ASSUME NEW owned, IsFiniteSet(owned)
  PROVE  /\ IsFiniteSet({e.track : e \in {x \in owned : x.tier = TopTier}})
         /\ LicencesSpent(owned) \in Nat
<1> DEFINE top == {x \in owned : x.tier = TopTier}
           H   == {e.track : e \in top}
<1>1. IsFiniteSet(top)
  <2>1. top \subseteq owned
    OBVIOUS
  <2> HIDE DEF top
  <2> QED BY <2>1, FS_Subset
<1> HIDE DEF top
<1>2. IsFiniteSet(H)
  <2> DEFINE f == [e \in top |-> e.track]
  <2>1. f \in Surjection(top, H)
    BY DEF Surjection
  <2> HIDE DEF f, H
  <2> QED BY <1>1, <2>1, FS_Surjection
<1>3. LicencesSpent(owned) = Cardinality(H)
  BY DEF LicencesSpent, H, top
<1> HIDE DEF H
<1>4. Cardinality(H) \in Nat
  BY <1>2, FS_CardinalityType
<1> QED BY <1>2, <1>3, <1>4 DEF H, top

(* A rung the licence rule lets through spends no more than there are.     *)
LEMMA NextKeepsLicences ==
  ASSUME NEW owned, owned \subseteq Entry, IsFiniteSet(owned), NEW e \in Entry,
         LicencesSpent(owned) <= Licences, ~LicenceBlocked(Licences, owned, e)
  PROVE  LicencesSpent(owned \cup {e}) <= Licences
<1> DEFINE Held(o) == {f.track : f \in {x \in o : x.tier = TopTier}}
           before == Held(owned)
           after  == Held(owned \cup {e})
<1>1. IsFiniteSet(before) /\ LicencesSpent(owned) \in Nat
  BY LicencesFinite
<1>2. LicencesSpent(owned) = Cardinality(before) /\ LicencesSpent(owned \cup {e}) = Cardinality(after)
  BY DEF LicencesSpent
<1>3. CASE e.tier # TopTier \/ e.track \in before
  <2>1. after = before
    BY <1>3
  <2> QED BY <1>2, <2>1
<1>4. CASE e.tier = TopTier /\ e.track \notin before
  <2>1. after = before \cup {e.track}
    BY <1>4
  <2>2. \A f \in owned : ~(f.tier = TopTier /\ f.track = e.track)
    BY <1>4
  <2>3. e.tier >= TopTier
    BY <1>4 DEF TopTier
  <2>4. ~(LicencesSpent(owned) >= Licences)
    BY <2>2, <2>3 DEF LicenceBlocked
  <2> HIDE DEF before, after
  <2>5. Cardinality(after) = Cardinality(before) + 1
    BY <1>1, <1>4, <2>1, FS_AddElement
  <2> QED BY <1>1, <1>2, <2>4, <2>5, Constants
<1> QED BY <1>3, <1>4

(* What the pension's rungs keep.                                          *)
RungsOK(p) ==
  IsFiniteSet(p.unlocks) /\ Climbed(p.unlocks) /\ LicencesSpent(p.unlocks) <= Licences

LEMMA RedeemedKeepsRungs ==
  ASSUME NEW p \in Pension, RungsOK(p),
         NEW e \in Affordable(Rungs, p.unlocks, Licences, p.total)
  PROVE  RungsOK(Redeemed(p, e))
<1>1. p.unlocks \subseteq Entry
  BY Constants DEF Pension
<1>2. e \in Entry /\ NextOnLadder(p.unlocks, e) /\ ~LicenceBlocked(Licences, p.unlocks, e)
  BY Constants DEF Affordable
<1>3. Redeemed(p, e).unlocks = p.unlocks \cup {e}
  BY DEF Redeemed
<1>4. IsFiniteSet(p.unlocks) /\ Climbed(p.unlocks) /\ LicencesSpent(p.unlocks) <= Licences
  BY DEF RungsOK
<1> DEFINE owned == p.unlocks
<1> HIDE DEF owned
<1>5. IsFiniteSet(owned \cup {e})
  BY <1>4, FS_AddElement DEF owned
<1>6. Climbed(owned \cup {e})
  BY <1>1, <1>2, <1>4, NextKeepsClimbed DEF owned
<1>7. LicencesSpent(owned \cup {e}) <= Licences
  BY <1>1, <1>2, <1>4, NextKeepsLicences DEF owned
<1> QED BY <1>3, <1>5, <1>6, <1>7 DEF RungsOK, owned

LEMMA NoRungs ==
  ASSUME NEW p, p.unlocks = {}
  PROVE  RungsOK(p)
<1>1. IsFiniteSet({}) /\ Cardinality({}) = 0
  BY FS_EmptySet
<1>2. LicencesSpent({}) = 0
  <2>1. {e.track : e \in {x \in {} : x.tier = TopTier}} = {}
    OBVIOUS
  <2> QED BY <1>1, <2>1 DEF LicencesSpent
<1>3. Climbed({})
  BY DEF Climbed
<1> QED BY <1>1, <1>2, <1>3, Constants DEF RungsOK

-----------------------------------------------------------------------------
(* What a resolution leaves of the ledgers *)

(* The board's accounts: no Commendation but for a file closed, once, and  *)
(* for pension surrendered.                                                *)
BoughtWithPension(t, a) == t.total + t.spent - Reward * Cardinality(a.completed)

BoardOK(t, a, given) ==
  /\ IsFiniteSet(a.completed)
  /\ a.active \notin a.completed
  /\ BoughtWithPension(t, a) * PensionPerCommendation <= given

LEMMA NoFileIsCompleted ==
  ASSUME NEW a \in Assignment
  PROVE  NoAssignment \notin a.completed
BY Constants DEF Assignment

(* What applyAssignment does to the board keeps its accounts.              *)
LEMMA AssessmentsKeepBoard ==
  ASSUME IInv, BoardOK(transfer, assignment, surrendered), NEW o, NEW w \in Assessments(o)
  PROVE  BoardOK(w.transfer, w.assignment, surrendered) /\ w.transfer.unlocks = transfer.unlocks
<1>1. assignment \in Assignment /\ transfer \in Transfer
  BY DEF IInv, TypeOK
<1>2. /\ IsFiniteSet(assignment.completed) /\ assignment.active \notin assignment.completed
      /\ BoughtWithPension(transfer, assignment) * PensionPerCommendation <= surrendered
  BY DEF BoardOK
<1>3. CASE w = [assignment |-> assignment, transfer |-> transfer]
  BY <1>3
<1>4. CASE w = [assignment |-> [assignment EXCEPT !.active = NoAssignment], transfer |-> transfer]
  <2>1. /\ w.transfer = transfer
        /\ w.assignment.completed = assignment.completed
        /\ w.assignment.active = NoAssignment
    BY <1>1, <1>4 DEF Assignment
  <2>2. NoAssignment \notin assignment.completed
    BY <1>1, NoFileIsCompleted
  <2>3. BoughtWithPension(w.transfer, w.assignment) = BoughtWithPension(transfer, assignment)
    BY <2>1 DEF BoughtWithPension
  <2> QED BY <1>2, <2>1, <2>2, <2>3 DEF BoardOK
<1>5. ASSUME NEW x \in Assignments, x = assignment.active,
             w = [assignment |-> [active |-> NoAssignment,
                                  completed |-> assignment.completed \cup {x}],
                  transfer |-> [transfer EXCEPT !.total = @ + Reward]]
      PROVE  BoardOK(w.transfer, w.assignment, surrendered) /\ w.transfer.unlocks = transfer.unlocks
  <2> DEFINE files == assignment.completed
             n     == Cardinality(files)
  <2>1. x \notin files /\ IsFiniteSet(files) /\ NoAssignment \notin files \cup {x}
    BY <1>1, <1>2, <1>5, NoFileIsCompleted, Constants
  <2> HIDE DEF files
  <2>2. IsFiniteSet(files \cup {x}) /\ Cardinality(files \cup {x}) = n + 1
    BY <2>1, FS_AddElement
  <2>3. n \in Nat
    BY <2>1, FS_CardinalityType
  <2>4. /\ w.transfer.total = transfer.total + Reward /\ w.transfer.spent = transfer.spent
        /\ w.transfer.unlocks = transfer.unlocks
        /\ w.assignment.completed = files \cup {x} /\ w.assignment.active = NoAssignment
    BY <1>1, <1>5 DEF Transfer, files
  <2>5. transfer.total \in Nat /\ transfer.spent \in Nat /\ Reward \in Nat
    BY <1>1, Constants DEF Transfer
  <2>8. /\ IsFiniteSet(w.assignment.completed) /\ w.assignment.active \notin w.assignment.completed
        /\ Cardinality(w.assignment.completed) = n + 1
    BY <2>1, <2>2, <2>4
  <2>9. Cardinality(assignment.completed) = n
    BY DEF files
  <2>6. BoughtWithPension(w.transfer, w.assignment) = BoughtWithPension(transfer, assignment)
    <3> HIDE DEF n
    <3>1. Reward * (n + 1) = Reward * n + Reward /\ Reward * n \in Nat
      BY <2>3, <2>5
    <3> QED BY <2>4, <2>5, <2>8, <2>9, <3>1 DEF BoughtWithPension
  <2> QED BY <1>2, <2>4, <2>6, <2>8 DEF BoardOK
<1> QED BY <1>3, <1>4, <1>5 DEF Assessments

(* The ledgers as they stand at the commit of every handler.               *)
LedgerInv ==
  /\ RungsOK(pension)
  /\ Climbed(office)
  /\ Climbed(transfer.unlocks)
  /\ BoardOK(transfer, assignment, surrendered)
  /\ pension.total + pension.spent + surrendered = SumOf(deaths, banked)

(* A resolution leaves them standing, with the awards banked still on file. *)
Standing(s) ==
  /\ RungsOK(s.pension)
  /\ s.transfer.unlocks = transfer.unlocks
  /\ BoardOK(s.transfer, s.assignment, surrendered)
  /\ s.pension.total + s.pension.spent = pension.total + pension.spent
  /\ SumOf(s.deaths, banked) = SumOf(deaths, banked)

LEMMA BankedFinite ==
  ASSUME IInv
  PROVE  IsFiniteSet(banked) /\ banked \subseteq DOMAIN deaths
<1>1. banked \subseteq 1..Len(deaths) /\ deaths \in Seq(Death) /\ Len(deaths) \in Nat
  BY DEF IInv, TypeOK
<1>2. IsFiniteSet(1..Len(deaths))
  BY <1>1, FS_Interval
<1>3. DOMAIN deaths = 1..Len(deaths) /\ banked \in SUBSET (1..Len(deaths))
  BY <1>1
<1> DEFINE D == 1..Len(deaths)
<1> HIDE DEF D
<1>4. IsFiniteSet(banked)
  BY <1>2, <1>3, FS_Subset DEF D
<1> QED BY <1>3, <1>4

(* A record added to the file changes none of those already banked.        *)
LEMMA FilingKeepsSum ==
  ASSUME IInv, NEW more, more = deaths \/ \E d \in Death : more = Append(deaths, d)
  PROVE  SumOf(more, banked) = SumOf(deaths, banked)
<1>1. IsFiniteSet(banked) /\ banked \subseteq 1..Len(deaths) /\ deaths \in Seq(Death)
  BY BankedFinite DEF IInv, TypeOK
<1>2. Alike(more, deaths, banked)
  BY <1>1 DEF Alike
<1> QED BY <1>1, <1>2, SumOfAgrees

LEMMA LivedStands ==
  ASSUME IInv, LedgerInv, NEW i \in Active, NEW s \in Lived(i)
  PROVE  Standing(s)
<1>1. Resolution(i, s)
  BY LivedIsResolution
<1>7. PICK o \in CatchUp(recruits[i]) :
        \E p \in Redemptions(recruits[i], o), w \in Assessments(o) :
          s.pension = p /\ s.assignment = w.assignment /\ s.transfer = w.transfer
  BY DEF Lived
<1>2. PICK p \in Redemptions(recruits[i], o), w \in Assessments(o) :
        s.pension = p /\ s.assignment = w.assignment /\ s.transfer = w.transfer
  BY <1>7
<1>3. RungsOK(s.pension)
  <2>1. pension \in Pension /\ RungsOK(pension)
    BY DEF IInv, TypeOK, LedgerInv
  <2>2. CASE p = pension
    BY <1>2, <2>1, <2>2
  <2>3. CASE p # pension
    <3>1. PICK e \in CheapestOf(Affordable(Rungs, pension.unlocks, Licences, pension.total)) :
            p = Redeemed(pension, e)
      BY <2>3 DEF Redemptions
    <3>2. e \in Affordable(Rungs, pension.unlocks, Licences, pension.total)
      BY DEF CheapestOf
    <3> QED BY <1>2, <2>1, <3>1, <3>2, RedeemedKeepsRungs
  <2> QED BY <2>2, <2>3
<1>4. BoardOK(s.transfer, s.assignment, surrendered) /\ s.transfer.unlocks = transfer.unlocks
  BY <1>2, AssessmentsKeepBoard DEF LedgerInv
<1>5. s.deaths = deaths \/ \E d \in Death : s.deaths = Append(deaths, d)
  BY <1>1 DEF Resolution
<1>6. SumOf(s.deaths, banked) = SumOf(deaths, banked)
  BY <1>5, FilingKeepsSum
<1> QED BY <1>1, <1>3, <1>4, <1>6 DEF Resolution, Standing

LEMMA InsideStands ==
  ASSUME IInv, LedgerInv, NEW i \in Active, NEW s \in Inside(i)
  PROVE  Standing(s)
<1>1. CASE s \in Lived(i)
  BY <1>1, LivedStands
<1>2. CASE s = [rec |-> recruits[i], deaths |-> deaths, pension |-> pension,
                assignment |-> assignment, transfer |-> transfer]
  BY <1>2 DEF LedgerInv, Standing
<1> QED BY <1>1, <1>2 DEF Inside

-----------------------------------------------------------------------------
(* The steps *)

LEMMA InitLedgers == Init => LedgerInv
<1> SUFFICES ASSUME Init PROVE LedgerInv
  OBVIOUS
<1>1. RungsOK(pension)
  BY NoRungs DEF Init
<1>2. Climbed(office) /\ Climbed(transfer.unlocks)
  BY DEF Init, Climbed
<1>3. IsFiniteSet({}) /\ Cardinality({}) = 0
  BY FS_EmptySet
<1>4. BoardOK(transfer, assignment, surrendered)
  <2>1. /\ transfer.total = 0 /\ transfer.spent = 0 /\ assignment.completed = {} /\ surrendered = 0
    BY DEF Init
  <2>2. Reward * 0 = 0 /\ 0 * PensionPerCommendation = 0
    BY Constants
  <2>3. BoughtWithPension(transfer, assignment) = 0
    BY <1>3, <2>1, <2>2 DEF BoughtWithPension
  <2> QED BY <1>3, <2>1, <2>2, <2>3 DEF BoardOK
<1>5. SumOf(deaths, {}) = 0
  BY SumOfEmpty
<1>6. pension.total + pension.spent + surrendered = SumOf(deaths, banked)
  BY <1>5 DEF Init
<1> QED BY <1>1, <1>2, <1>4, <1>6 DEF LedgerInv

(* The handlers that save what their resolution left.                       *)
LEMMA SavedLedgers ==
  ASSUME IInv, LedgerInv, NEW s, Standing(s),
         deaths' = s.deaths, pension' = s.pension, transfer' = s.transfer,
         \/ assignment' = s.assignment
         \/ \E x \in Assignments : /\ x \notin s.assignment.completed
                                   /\ assignment' = [s.assignment EXCEPT !.active = x]
                                   /\ s.assignment \in Assignment,
         Climbed(office'), UNCHANGED <<banked, surrendered>>
  PROVE  LedgerInv'
<1>1. BoardOK(transfer', assignment', surrendered')
  <2>1. CASE assignment' = s.assignment
    BY <2>1 DEF Standing
  <2>2. CASE \E x \in Assignments : /\ x \notin s.assignment.completed
                                    /\ assignment' = [s.assignment EXCEPT !.active = x]
                                    /\ s.assignment \in Assignment
    <3>1. assignment'.completed = s.assignment.completed
      BY <2>2 DEF Assignment
    <3>2. assignment'.active \notin s.assignment.completed
      BY <2>2 DEF Assignment
    <3>3. BoughtWithPension(transfer', assignment') = BoughtWithPension(s.transfer, s.assignment)
      BY <3>1 DEF BoughtWithPension
    <3> QED BY <3>1, <3>2, <3>3 DEF Standing, BoardOK
  <2> QED BY <2>1, <2>2
<1>2. Climbed(transfer'.unlocks) /\ RungsOK(pension')
  BY DEF Standing, LedgerInv
<1>3. pension'.total + pension'.spent + surrendered' = SumOf(deaths', banked')
  BY DEF Standing, LedgerInv
<1> QED BY <1>1, <1>2, <1>3 DEF LedgerInv

LEMMA SavingKeepsLedgers ==
  ASSUME IInv, LedgerInv, Saving
  PROVE  LedgerInv'
<1>0. Climbed(office)
  BY DEF LedgerInv
<1>1. CASE LoadState
  <2>1. CASE UNCHANGED vars
    BY <2>1 DEF vars, LedgerInv, RungsOK, BoardOK
  <2>2. CASE \E i \in Active : \E s \in Lived(i) : Save(i, s, s.rec) /\ UNCHANGED <<office, registry>>
    <3>1. PICK i, s : /\ i \in Active /\ s \in Lived(i)
                      /\ Save(i, s, s.rec) /\ UNCHANGED <<office, registry>>
      BY <2>2
    <3>2. Standing(s)
      BY <3>1, LivedStands
    <3> QED BY <1>0, <3>1, <3>2, SavedLedgers DEF Save
  <2> QED BY <1>1, <2>1, <2>2 DEF LoadState
<1>2. ASSUME NEW i \in Active, NEW s \in Inside(i), NEW rec, Save(i, s, rec), Climbed(office')
      PROVE  LedgerInv'
  <2>1. Standing(s)
    BY InsideStands
  <2> QED BY <1>2, <2>1, SavedLedgers DEF Save
<1>3. CASE ResolveOnly
  BY <1>0, <1>2, <1>3 DEF ResolveOnly
<1>4. CASE ExpeditePermit
  BY <1>0, <1>2, <1>4 DEF ExpeditePermit
<1>5. CASE FileForm
  BY <1>0, <1>2, <1>5 DEF FileForm
<1>6. CASE HireStaff
  BY <1>0, <1>2, <1>6 DEF HireStaff
<1>7. CASE SellItem
  BY <1>0, <1>2, <1>7 DEF SellItem
<1>8. CASE PurchaseRequisition
  <2>1. PICK i, s, e :
          /\ i \in Active /\ s \in Inside(i) /\ e \in Requisitions
          /\ NextOnLadder(office, e) /\ office' = office \cup {e}
          /\ Save(i, s, Charged(s.rec, e.cost))
    BY <1>8 DEF PurchaseRequisition
  <2>2. office \subseteq Entry /\ e \in Entry
    BY <2>1, Constants DEF IInv, TypeOK
  <2>3. Climbed(office')
    BY <1>0, <2>1, <2>2, NextKeepsClimbed
  <2> QED BY <1>2, <2>1, <2>3
<1>9. CASE AcceptAssignment
  <2>1. PICK i, s, x :
          /\ i \in Active /\ s \in Inside(i) /\ x \in Assignments
          /\ x \notin s.assignment.completed
          /\ deaths' = s.deaths /\ pension' = s.pension /\ transfer' = s.transfer
          /\ assignment' = [s.assignment EXCEPT !.active = x]
          /\ UNCHANGED <<clock, office, registry, banked, surrendered>>
    BY <1>9 DEF AcceptAssignment
  <2>2. Standing(s) /\ Resolution(i, s)
    BY <2>1, InsideStands, InsideIsResolution
  <2>3. s.assignment \in Assignment
    BY <2>2 DEF Resolution
  <2> QED BY <1>0, <2>1, <2>2, <2>3, SavedLedgers
<1> QED BY <1>1, <1>3, <1>4, <1>5, <1>6, <1>7, <1>8, <1>9 DEF Saving

(* An award added to the pension is the one added to those banked.          *)
LEMMA BankingKeepsSum ==
  ASSUME IInv, NEW file \in Seq(Death), NEW n \in 1..Len(file),
         banked \subseteq 1..Len(file), n \notin banked
  PROVE  SumOf(file, banked \cup {n}) = SumOf(file, banked) + file[n].award
         /\ SumOf(file, banked) \in Nat
<1>1. IsFiniteSet(banked)
  BY BankedFinite
<1>2. Counted(file, banked \cup {n})
  <2>1. \A k \in 1..Len(file) : file[k] \in Death
    BY ElementOfSeq
  <2>2. \A k \in 1..Len(file) : file[k].award \in Nat
    BY <2>1 DEF Death
  <2> QED BY <2>2 DEF Counted
<1> QED BY <1>1, <1>2, SumOfAdds

LEMMA ClaimKeepsLedgers ==
  ASSUME IInv, LedgerInv, ClaimPension
  PROVE  LedgerInv'
<1>1. /\ Active = {} /\ deaths # <<>> /\ deaths' = deaths
      /\ pension' = [pension EXCEPT !.total = @ + LatestDeath.award]
      /\ banked' = banked \cup {Len(deaths)}
      /\ UNCHANGED <<clock, transfer, office, registry, assignment, surrendered>>
  BY DEF ClaimPension, ClaimInside
<1>2. /\ deaths \in Seq(Death) /\ Len(deaths) \in 1..Len(deaths) /\ banked \subseteq 1..Len(deaths)
      /\ Len(deaths) \notin banked /\ pension \in Pension /\ surrendered \in Nat
  BY <1>1 DEF IInv, TypeOK, PendingIsTheirs
<1>3. SumOf(deaths, banked') = SumOf(deaths, banked) + LatestDeath.award
  BY <1>1, <1>2, BankingKeepsSum DEF LatestDeath
<1>4. /\ pension'.total = pension.total + LatestDeath.award /\ pension'.spent = pension.spent
      /\ pension'.unlocks = pension.unlocks /\ pension.total \in Nat /\ pension.spent \in Nat
  BY <1>1, <1>2 DEF Pension
<1>5. LatestDeath.award \in Nat
  <2>1. deaths[Len(deaths)] \in Death
    BY <1>2, ElementOfSeq
  <2> QED BY <2>1 DEF LatestDeath, Death
<1> DEFINE award == LatestDeath.award
           before == SumOf(deaths, banked)
<1>6. pension.total + pension.spent + surrendered = before
  BY DEF LedgerInv
<1>7. pension'.total + pension'.spent + surrendered' = SumOf(deaths', banked')
  <2>1. pension'.total = pension.total + award /\ award \in Nat
    BY <1>4, <1>5
  <2>2. SumOf(deaths', banked') = before + award
    BY <1>1, <1>3
  <2> HIDE DEF award, before
  <2> QED BY <1>1, <1>2, <1>4, <1>6, <2>1, <2>2
<1>8. RungsOK(pension')
  BY <1>4 DEF LedgerInv, RungsOK
<1> QED BY <1>1, <1>7, <1>8 DEF LedgerInv, BoardOK

(* The retirement banks the record it files.                                *)
LEMMA RetireKeepsLedgers ==
  ASSUME IInv, LedgerInv, RetireRecruit
  PROVE  LedgerInv'
<1>1. PICK i, s :
      /\ i \in Active /\ s \in Inside(i)
      /\ LET service == s.rec.last - s.rec.born
            award   == Award(s.pension.unlocks, service, s.rec.depth, Estate(s.rec))
        IN  /\ s.rec.alive
            /\ service >= MinService
            /\ deaths' = Append(s.deaths, [who |-> i, award |-> award, handled |-> s.rec.gold,
                                           cause |-> "separated"])
            /\ ClaimInside([recruits EXCEPT ![i] = Closed(s.rec)], s.pension, award)
            /\ banked' = banked \cup {Len(deaths')}
            /\ assignment' = s.assignment
            /\ transfer' = s.transfer
            /\ UNCHANGED <<clock, office, registry, surrendered>>
  BY DEF RetireRecruit
<1> DEFINE award == Award(s.pension.unlocks, s.rec.last - s.rec.born, s.rec.depth, Estate(s.rec))
           record == [who |-> i, award |-> award, handled |-> s.rec.gold, cause |-> "separated"]
<1>2. Resolution(i, s) /\ Standing(s)
  BY <1>1, InsideIsResolution, InsideStands
<1>3. /\ deaths' = Append(s.deaths, record)
      /\ pension' = [s.pension EXCEPT !.total = @ + award]
      /\ banked' = banked \cup {Len(deaths')}
      /\ assignment' = s.assignment /\ transfer' = s.transfer
      /\ UNCHANGED <<clock, office, registry, surrendered>>
      /\ s.rec.alive /\ s.rec.last - s.rec.born >= MinService
  BY <1>1 DEF ClaimInside
<1>4. award \in Nat
  <2>1. s.rec.last - s.rec.born \in Nat
    <3>1. s.rec.last \in Nat /\ s.rec.born \in Nat
      BY <1>2 DEF Resolution, Recruit
    <3>2. s.rec.last - s.rec.born >= MinService
      BY <1>3
    <3> HIDE DEF award, record
    <3> QED BY <3>1, <3>2, Constants
  <2>2. s.rec.depth \in Nat /\ Estate(s.rec) \in Nat /\ s.pension.unlocks \subseteq Rungs
    BY <1>2 DEF Resolution, Recruit, Estate, Pension
  <2> QED BY <2>1, <2>2, AwardType
<1>5. record \in Death /\ record.award = award
  <2>1. i \in Nat
    BY <1>1, ActiveIsNewest
  <2>2. s.rec.gold \in Nat
    BY <1>2 DEF Resolution, Recruit
  <2> HIDE DEF award
  <2> QED BY <1>4, <2>1, <2>2 DEF Death
<1> HIDE DEF award, record
<1>6. /\ deaths \in Seq(Death) /\ s.deaths = deaths /\ banked \subseteq 1..Len(deaths)
      /\ Len(deaths) \in Nat /\ surrendered \in Nat
  BY <1>2, <1>3 DEF Resolution, IInv, TypeOK
<1> DEFINE file == deaths'
           n    == Len(deaths) + 1
<1>7. /\ file \in Seq(Death) /\ Len(file) = n /\ file[n] = record
      /\ n \in 1..Len(file) /\ banked \subseteq 1..Len(file) /\ n \notin banked
  BY <1>3, <1>5, <1>6
<1>8. SumOf(file, banked) = SumOf(deaths, banked)
  BY <1>3, <1>5, <1>6, FilingKeepsSum
<1> HIDE DEF file
<1>9. SumOf(file, banked \cup {n}) = SumOf(file, banked) + file[n].award
  BY <1>7, BankingKeepsSum
<1>10. banked' = banked \cup {n} /\ SumOf(deaths', banked') = SumOf(deaths, banked) + award
  BY <1>3, <1>5, <1>7, <1>8, <1>9 DEF file
<1>11. /\ pension'.total = s.pension.total + award /\ pension'.spent = s.pension.spent
       /\ pension'.unlocks = s.pension.unlocks
       /\ s.pension.total \in Nat /\ s.pension.spent \in Nat
  BY <1>2, <1>3 DEF Resolution, Pension
<1> DEFINE before == SumOf(deaths, banked)
<1>12. s.pension.total + s.pension.spent + surrendered = before
  BY <1>2 DEF LedgerInv, Standing
<1>13. pension'.total + pension'.spent + surrendered' = SumOf(deaths', banked')
  <2>1. SumOf(deaths', banked') = before + award /\ surrendered' = surrendered
    BY <1>3, <1>10
  <2> HIDE DEF before, n
  <2> QED BY <1>4, <1>6, <1>11, <1>12, <2>1
<1>14. RungsOK(pension')
  BY <1>2, <1>11 DEF Standing, RungsOK
<1>15. BoardOK(transfer', assignment', surrendered') /\ Climbed(transfer'.unlocks) /\ Climbed(office')
  BY <1>2, <1>3 DEF Standing, LedgerInv
<1> QED BY <1>13, <1>14, <1>15 DEF LedgerInv

(* A quotient pays for no more than what was divided.                       *)
LEMMA QuotientFits ==
  ASSUME NEW n \in Nat, NEW d \in Nat \ {0}
  PROVE  (n \div d) \in Nat /\ (n \div d) * d <= n
<1>1. n = d * (n \div d) + (n % d) /\ n % d \in 0..(d - 1) /\ (n \div d) \in Nat
  OBVIOUS
<1>2. (n \div d) * d = d * (n \div d)
  BY <1>1
<1> QED BY <1>1, <1>2

(* The transfer takes the pension back, and pays no more than its price.    *)
LEMMA TransferKeepsLedgers ==
  ASSUME IInv, LedgerInv, FileTransfer
  PROVE  LedgerInv'
<1>1. PICK i, s :
      /\ i \in Active /\ s \in Inside(i)
      /\ LET surrender == s.pension.total + s.pension.spent
            award     == CommendationAward(surrender)
        IN  /\ transfer' = [s.transfer EXCEPT !.total = @ + award, !.careers = @ + 1]
            /\ pension' = Surrendered(s.pension)
            /\ deaths' = Append(s.deaths, [who |-> i, award |-> 0, handled |-> s.rec.gold,
                                           cause |-> "transferred"])
            /\ assignment' = s.assignment
            /\ surrendered' = surrendered + surrender
            /\ UNCHANGED <<clock, office, registry, banked>>
  BY DEF FileTransfer
<1> DEFINE given  == s.pension.total + s.pension.spent
           award  == CommendationAward(given)
           record == [who |-> i, award |-> 0, handled |-> s.rec.gold, cause |-> "transferred"]
<1>2. Resolution(i, s) /\ Standing(s)
  BY <1>1, InsideIsResolution, InsideStands
<1>3. /\ transfer' = [s.transfer EXCEPT !.total = @ + award, !.careers = @ + 1]
      /\ pension' = Surrendered(s.pension)
      /\ deaths' = Append(s.deaths, record)
      /\ assignment' = s.assignment
      /\ surrendered' = surrendered + given
      /\ UNCHANGED <<clock, office, registry, banked>>
  BY <1>1
<1>4. record \in Death
  <2>1. i \in Nat
    BY <1>1, ActiveIsNewest
  <2>2. s.rec.gold \in Nat
    BY <1>2 DEF Resolution, Recruit
  <2> QED BY <2>1, <2>2 DEF Death
<1> HIDE DEF record
<1>12. PensionPerCommendation \in Nat \ {0}
  BY Constants
<1>5. given \in Nat /\ s.transfer.total \in Nat /\ s.transfer.spent \in Nat /\ surrendered \in Nat
  BY <1>2 DEF Resolution, Pension, Transfer, IInv, TypeOK
<1> HIDE DEF given
<1>6. award \in Nat /\ award * PensionPerCommendation <= given
  BY <1>5, <1>12, QuotientFits DEF CommendationAward
<1> HIDE DEF award
<1>7. RungsOK(pension')
  <2>1. pension'.unlocks = {}
    BY <1>3 DEF Surrendered
  <2> QED BY <2>1, NoRungs
<1>8. /\ transfer'.total = s.transfer.total + award /\ transfer'.spent = s.transfer.spent
      /\ transfer'.unlocks = s.transfer.unlocks
  BY <1>2, <1>3 DEF Resolution, Transfer
<1>9. BoardOK(transfer', assignment', surrendered')
  <2> DEFINE closed == Cardinality(s.assignment.completed)
             rate == PensionPerCommendation
             paid == BoughtWithPension(s.transfer, s.assignment)
  <2>1. /\ IsFiniteSet(s.assignment.completed)
        /\ s.assignment.active \notin s.assignment.completed
        /\ paid * rate <= surrendered
    BY <1>2 DEF Standing, BoardOK
  <2>2. closed \in Nat
    BY <2>1, FS_CardinalityType
  <2>3. Reward * closed \in Nat /\ rate \in Nat
    <3> HIDE DEF closed
    <3> QED BY <2>2, Constants
  <2>11. assignment' = s.assignment
    BY <1>3
  <2>4. BoughtWithPension(transfer', assignment') = paid + award /\ paid \in Int
    <3> DEFINE files == Reward * closed
    <3>1. files \in Nat
      BY <2>3
    <3>2. /\ BoughtWithPension(transfer', assignment') = transfer'.total + transfer'.spent - files
          /\ paid = s.transfer.total + s.transfer.spent - files
      BY <2>11 DEF BoughtWithPension
    <3> HIDE DEF files, paid
    <3> QED BY <1>5, <1>6, <1>8, <3>1, <3>2
  <2> HIDE DEF closed, rate, paid
  <2>6. (paid + award) * rate = paid * rate + award * rate
    BY <1>6, <2>3, <2>4
  <2>7. paid * rate \in Int /\ award * rate \in Int
    BY <1>6, <2>3, <2>4
  <2>8. award * rate <= given
    BY <1>6 DEF rate
  <2>9. (paid + award) * rate <= surrendered + given
    <3> DEFINE a == paid * rate
               b == award * rate
    <3>1. a \in Int /\ b \in Int /\ a <= surrendered /\ b <= given
      BY <2>1, <2>7, <2>8
    <3>3. (paid + award) * rate = a + b
      BY <2>6
    <3> HIDE DEF a, b
    <3>2. a + b <= surrendered + given
      BY <1>5, <3>1
    <3> QED BY <3>2, <3>3
  <2>10. BoughtWithPension(transfer', assignment') * rate <= surrendered'
    BY <1>3, <2>4, <2>9
  <2> QED BY <2>1, <2>10, <2>11 DEF BoardOK, rate
<1>10. pension'.total + pension'.spent + surrendered' = SumOf(deaths', banked')
  <2> DEFINE before == SumOf(deaths, banked)
  <2>1. SumOf(s.deaths, banked) = before
    BY <1>2 DEF Standing
  <2>2. SumOf(deaths', banked) = before
    <3>1. s.deaths \in Seq(Death)
      BY <1>1, <1>2, ClosedTable
    <3>2. IsFiniteSet(banked) /\ banked \subseteq 1..Len(s.deaths)
      <4>1. Len(deaths) <= Len(s.deaths) /\ Len(deaths) \in Nat
        <5>1. Len(deaths) <= Len(s.deaths)
          BY <1>1, <1>2, ClosedTable
        <5>2. deaths \in Seq(Death)
          BY DEF IInv, TypeOK
        <5> QED BY <5>1, <5>2
      <4>2. banked \subseteq 1..Len(deaths)
        BY DEF IInv
      <4> QED BY <3>1, <4>1, <4>2, BankedFinite
    <3>3. Alike(deaths', s.deaths, banked)
      BY <1>3, <1>4, <3>1, <3>2 DEF Alike
    <3> QED BY <2>1, <3>2, <3>3, SumOfAgrees
  <2>3. given + surrendered = before
    BY <1>2 DEF Standing, LedgerInv, given
  <2>4. pension'.total = 0 /\ pension'.spent = 0 /\ banked' = banked
    BY <1>3 DEF Surrendered
  <2> HIDE DEF before
  <2> QED BY <1>3, <1>5, <2>2, <2>3, <2>4
<1>11. Climbed(transfer'.unlocks) /\ Climbed(office')
  BY <1>2, <1>3, <1>8 DEF Standing, LedgerInv
<1> QED BY <1>7, <1>9, <1>10, <1>11 DEF LedgerInv

(* Spending moves nothing between the sources of Commendations.             *)
LEMMA SameMoney ==
  ASSUME NEW t \in Transfer, NEW u \in Transfer, NEW a, IsFiniteSet(a.completed),
         t.total + t.spent = u.total + u.spent
  PROVE  BoughtWithPension(t, a) = BoughtWithPension(u, a)
<1>1. /\ t.total \in Nat /\ t.spent \in Nat /\ u.total \in Nat /\ u.spent \in Nat
  BY DEF Transfer
<1>2. Cardinality(a.completed) \in Nat /\ Reward \in Nat
  BY FS_CardinalityType, Constants
<1> QED BY <1>1, <1>2 DEF BoughtWithPension

LEMMA StepLedgers == IInv /\ LedgerInv /\ [Next]_vars => LedgerInv'
<1> SUFFICES ASSUME IInv, LedgerInv, [Next]_vars PROVE LedgerInv'
  OBVIOUS
<1>0. /\ RungsOK(pension) /\ Climbed(office) /\ Climbed(transfer.unlocks)
      /\ BoardOK(transfer, assignment, surrendered)
      /\ pension.total + pension.spent + surrendered = SumOf(deaths, banked)
  BY DEF LedgerInv
<1>1. CASE UNCHANGED <<deaths, pension, transfer, office, assignment, banked, surrendered>>
  BY <1>0, <1>1 DEF LedgerInv
<1>2. CASE Saving
  BY <1>2, SavingKeepsLedgers
<1>3. CASE PurchaseUnlock
  <2>1. PICK e \in Affordable(Rungs, pension.unlocks, Licences, pension.total) :
          pension' = Redeemed(pension, e)
    BY <1>3 DEF PurchaseUnlock
  <2>2. pension \in Pension
    BY DEF IInv, TypeOK
  <2>3. RungsOK(pension') /\ pension'.total + pension'.spent = pension.total + pension.spent
    BY <1>0, <2>1, <2>2, RedeemedKeepsRungs, RedeemedType
  <2> QED BY <1>0, <1>3, <2>3 DEF PurchaseUnlock, LedgerInv
<1>4. CASE PurchaseCommendation
  <2>1. PICK e \in Commendations :
          /\ NextOnLadder(transfer.unlocks, e)
          /\ transfer' = [transfer EXCEPT !.total = @ - e.cost, !.spent = @ + e.cost,
                                          !.unlocks = @ \cup {e}]
    BY <1>4 DEF PurchaseCommendation
  <2>2. /\ transfer \in Transfer /\ e \in Entry /\ e.cost \in Nat
        /\ transfer.total \in Nat /\ transfer.spent \in Nat
    BY Constants DEF IInv, TypeOK, Transfer, Entry
  <2>3. transfer.unlocks \subseteq Entry
    BY <2>2, Constants DEF Transfer
  <2>4. /\ transfer'.unlocks = transfer.unlocks \cup {e}
        /\ transfer'.total + transfer'.spent = transfer.total + transfer.spent
    BY <2>1, <2>2 DEF Transfer
  <2>5. Climbed(transfer'.unlocks)
    BY <1>0, <2>1, <2>2, <2>3, <2>4, NextKeepsClimbed
  <2>7. BoughtWithPension(transfer', assignment) = BoughtWithPension(transfer, assignment)
    <3>1. transfer' \in Transfer /\ IsFiniteSet(assignment.completed)
      BY <1>0, StepIInv DEF IInv, TypeOK, BoardOK
    <3> QED BY <2>2, <2>4, <3>1, SameMoney
  <2>6. BoardOK(transfer', assignment, surrendered)
    BY <1>0, <2>7 DEF BoardOK
  <2> QED BY <1>0, <1>4, <2>5, <2>6 DEF PurchaseCommendation, LedgerInv
<1>5. CASE AbandonAssignment
  <2>1. assignment \in Assignment
    BY DEF IInv, TypeOK
  <2>2. assignment'.completed = assignment.completed /\ assignment'.active = NoAssignment
    BY <1>5, <2>1 DEF AbandonAssignment, Assignment
  <2>4. BoughtWithPension(transfer, assignment') = BoughtWithPension(transfer, assignment)
    BY <2>2 DEF BoughtWithPension
  <2>3. BoardOK(transfer, assignment', surrendered)
    BY <1>0, <2>1, <2>2, <2>4, NoFileIsCompleted DEF BoardOK
  <2> QED BY <1>0, <1>5, <2>3 DEF AbandonAssignment, LedgerInv
<1>6. CASE Tick \/ UNCHANGED vars
  BY <1>1, <1>6 DEF Tick, vars
<1> QED
  BY <1>2, <1>3, <1>4, <1>5, <1>6, ClaimKeepsLedgers, RetireKeepsLedgers, TransferKeepsLedgers
  DEF Next, Saving

LEMMA Ledgers == Spec => [](IInv /\ LedgerInv)
<1>1. Init => IInv /\ LedgerInv
  BY InitIInv, InitLedgers
<1>2. (IInv /\ LedgerInv) /\ [Next]_vars => (IInv /\ LedgerInv)'
  BY StepIInv, StepLedgers
<1> QED BY <1>1, <1>2, PTL DEF Spec

-----------------------------------------------------------------------------
(* Offers and advice *)

(* Of a ladder, the lowest rung not held is the one the handlers accept.   *)
LEMMA LowestIsNext ==
  ASSUME NEW catalogue, catalogue \subseteq Entry, IsLadder(catalogue),
         NEW owned, owned \subseteq catalogue, Climbed(owned), NEW e \in catalogue
  PROVE  NextOnLadder(owned, e) <=>
           /\ e \notin owned
           /\ \A f \in catalogue \ owned : f.track = e.track => e.tier <= f.tier
<1> DEFINE m == OwnedTier(owned, e.track)
<1>1. /\ m \in 0..3
      /\ m # 0 => \E x \in owned : x.track = e.track /\ x.tier = m
      /\ \A x \in owned : x.track = e.track => x.tier <= m
  BY OwnedTierIs
<1>2. NextOnLadder(owned, e) <=> e \notin owned /\ m = e.tier - 1
  BY DEF NextOnLadder
<1> HIDE DEF m
<1>3. \A f \in catalogue : f.tier \in 1..3
  BY DEF Entry, TopTier
<1>4. \A f, g \in catalogue : f.track = g.track /\ f.tier = g.tier => f = g
  BY <1>3 DEF IsLadder
<1>5. \A t \in 1..m : \E x \in owned : x.track = e.track /\ x.tier = t
  <2> SUFFICES ASSUME NEW t \in 1..m PROVE \E x \in owned : x.track = e.track /\ x.tier = t
    OBVIOUS
  <2>1. PICK x \in owned : x.track = e.track /\ x.tier = m
    BY <1>1
  <2>2. CASE t = m
    BY <2>1, <2>2
  <2>3. CASE t # m
    <3>1. t \in 1..(x.tier - 1)
      BY <1>1, <2>1, <2>3
    <3> QED BY <2>1, <3>1 DEF Climbed
  <2> QED BY <2>2, <2>3
<1>6. \A f \in catalogue : f.track = e.track => (f \in owned <=> f.tier <= m)
  <2> SUFFICES ASSUME NEW f \in catalogue, f.track = e.track, f.tier <= m PROVE f \in owned
    BY <1>1
  <2>1. f.tier \in 1..m
    BY <1>1, <1>3
  <2>2. PICK x \in owned : x.track = e.track /\ x.tier = f.tier
    BY <1>5, <2>1
  <2> QED BY <1>4, <2>2
<1>7. ASSUME NextOnLadder(owned, e)
      PROVE  \A f \in catalogue \ owned : f.track = e.track => e.tier <= f.tier
  BY <1>1, <1>2, <1>3, <1>6, <1>7
<1>8. ASSUME e \notin owned,
             \A f \in catalogue \ owned : f.track = e.track => e.tier <= f.tier
      PROVE  m = e.tier - 1
  <2>1. e.tier > m /\ e.tier \in 1..3
    BY <1>1, <1>3, <1>6, <1>8
  <2>2. CASE m + 1 = e.tier
    BY <1>1, <2>1, <2>2
  <2>3. CASE m + 1 # e.tier
    <3>1. m + 1 \in 1..(e.tier - 1)
      BY <1>1, <2>1, <2>3
    <3>2. PICK f \in catalogue : f.track = e.track /\ f.tier = m + 1
      BY <3>1 DEF IsLadder
    <3>3. f \notin owned
      BY <1>1, <1>6, <3>2
    <3>4. e.tier <= f.tier
      BY <1>8, <3>2, <3>3
    <3> QED BY <1>1, <2>1, <3>1, <3>2, <3>4
  <2> QED BY <2>2, <2>3
<1> QED BY <1>2, <1>7, <1>8

(* Of a ladder, the first of the cheapest rungs not held is one of those.  *)
LEMMA CheapestIsNext ==
  ASSUME NEW catalogue, catalogue \subseteq Entry, IsLadder(catalogue),
         NEW owned, owned \subseteq catalogue, Climbed(owned),
         NEW e \in CheapestUnbought(catalogue, owned)
  PROVE  e \in catalogue /\ NextOnLadder(owned, e)
<1>1. /\ e \in catalogue \ owned
      /\ \A f \in catalogue \ owned : e.cost <= f.cost
      /\ \A f \in CheapestOf(catalogue \ owned) : f.track = e.track => e.tier <= f.tier
  BY DEF CheapestUnbought, FirstCheapest, CheapestOf
<1>2. \A f \in catalogue : f.tier \in Nat /\ f.cost \in Nat
  BY DEF Entry
<1>3. ASSUME NEW f \in catalogue \ owned, f.track = e.track, ~(e.tier <= f.tier) PROVE FALSE
  <2>1. f.cost <= e.cost
    BY <1>1, <1>2, <1>3 DEF IsLadder
  <2>2. \A g \in catalogue \ owned : f.cost <= g.cost
    BY <1>1, <1>2, <2>1
  <2>3. f \in CheapestOf(catalogue \ owned)
    BY <2>2 DEF CheapestOf
  <2> QED BY <1>1, <1>3, <2>3
<1>4. /\ e \notin owned
      /\ \A f \in catalogue \ owned : f.track = e.track => e.tier <= f.tier
  BY <1>1, <1>3
<1> QED BY <1>1, <1>4, LowestIsNext

(* The offers of a ladder are the rungs the handlers would accept.         *)
LEMMA OffersAreNext ==
  ASSUME NEW catalogue, catalogue \subseteq Entry, IsLadder(catalogue),
         NEW owned, owned \subseteq catalogue, Climbed(owned)
  PROVE  OnOffer(catalogue, owned) = {e \in catalogue : NextOnLadder(owned, e)}
<1>1. \A e \in catalogue : NextOnLadder(owned, e) <=> e \in OnOffer(catalogue, owned)
  <2> SUFFICES ASSUME NEW e \in catalogue
               PROVE  NextOnLadder(owned, e) <=> e \in OnOffer(catalogue, owned)
    OBVIOUS
  <2> QED BY LowestIsNext DEF OnOffer
<1>2. OnOffer(catalogue, owned) \subseteq catalogue
  BY DEF OnOffer
<1> QED BY <1>1, <1>2

(* The three ladders of an account.                                        *)
LEMMA AccountLadders ==
  ASSUME IInv, LedgerInv
  PROVE  /\ Rungs \subseteq Entry /\ IsLadder(Rungs)
         /\ pension.unlocks \subseteq Rungs /\ Climbed(pension.unlocks)
         /\ Requisitions \subseteq Entry /\ IsLadder(Requisitions)
         /\ office \subseteq Requisitions /\ Climbed(office)
         /\ Commendations \subseteq Entry /\ IsLadder(Commendations)
         /\ transfer.unlocks \subseteq Commendations /\ Climbed(transfer.unlocks)
<1>1. IsLadder(Rungs) /\ IsLadder(Requisitions) /\ IsLadder(Commendations)
  BY ViewsAssumption
<1>2. pension \in Pension /\ transfer \in Transfer /\ office \subseteq Requisitions
  BY DEF IInv, TypeOK
<1>3. pension.unlocks \subseteq Rungs /\ transfer.unlocks \subseteq Commendations
  BY <1>2 DEF Pension, Transfer
<1> QED BY <1>1, <1>2, <1>3, Constants DEF LedgerInv, RungsOK

LEMMA OffersHold ==
  ASSUME IInv, LedgerInv
  PROVE  OffersAreHonoured
<1>1. OnOffer(Rungs, pension.unlocks) = {e \in Rungs : NextOnLadder(pension.unlocks, e)}
  BY AccountLadders, OffersAreNext
<1>2. OnOffer(Requisitions, office) = {e \in Requisitions : NextOnLadder(office, e)}
  BY AccountLadders, OffersAreNext
<1>3. OnOffer(Commendations, transfer.unlocks) =
        {e \in Commendations : NextOnLadder(transfer.unlocks, e)}
  BY AccountLadders, OffersAreNext
<1>4. UnlockOffers = Affordable(Rungs, pension.unlocks, Licences, pension.total)
  BY <1>1 DEF UnlockOffers, Affordable, UnlockBlocked
<1>5. \A r \in Shown :
        LadderOffers(Requisitions, office, r.gold) =
          {e \in Requisitions : NextOnLadder(office, e) /\ r.gold >= e.cost}
  BY <1>2 DEF LadderOffers
<1>6. LadderOffers(Commendations, transfer.unlocks, transfer.total) =
        {e \in Commendations : NextOnLadder(transfer.unlocks, e) /\ transfer.total >= e.cost}
  BY <1>3 DEF LadderOffers
<1> QED BY <1>4, <1>5, <1>6 DEF OffersAreHonoured

(* A screen advised is one the officer is cleared for.                     *)
Taken(a, screens) ==
  /\ a.screen \in screens
  /\ a.kind = "redeem" =>
       \/ a.entry \in Affordable(Rungs, pension.unlocks, Licences, pension.total)
       \/ LicenceBlocked(Licences, pension.unlocks, a.entry)
  /\ a.kind = "requisition" => NextOnLadder(office, a.entry)

LEMMA RedeemTaken ==
  ASSUME IInv, LedgerInv, NEW screens, "ledger" \in screens,
         NEW e \in CheapestUnbought(Rungs, pension.unlocks), pension.total >= e.cost
  PROVE  Taken(Advice("redeem", "ledger", e), screens)
<1>1. e \in Rungs /\ NextOnLadder(pension.unlocks, e)
  BY AccountLadders, CheapestIsNext
<1>2. \/ e \in Affordable(Rungs, pension.unlocks, Licences, pension.total)
      \/ LicenceBlocked(Licences, pension.unlocks, e)
  BY <1>1 DEF Affordable
<1> QED BY <1>2 DEF Taken, Advice

LEMMA RequisitionTaken ==
  ASSUME IInv, LedgerInv, NEW screens, "ledger" \in screens,
         NEW e \in CheapestUnbought(Requisitions, office)
  PROVE  Taken(Advice("requisition", "ledger", e), screens)
<1>1. NextOnLadder(office, e)
  BY AccountLadders, CheapestIsNext
<1> QED BY <1>1 DEF Taken, Advice

LEMMA OtherTaken ==
  ASSUME NEW screens, NEW screen \in screens, NEW e,
         NEW kind \in {"file", "sell", "pay", "expedite"}
  PROVE  Taken(Advice(kind, screen, e), screens)
BY DEF Taken, Advice

LEMMA TutorialTaken ==
  ASSUME IInv, LedgerInv, NEW filed, NEW screens, "orders" \in screens,
         NEW a \in TutorialStep(filed, screens)
  PROVE  Taken(a, screens)
<1>1. CASE a \in File
  BY <1>1, OtherTaken DEF File
<1>2. ASSUME "ledger" \in screens, NEW e, a = Advice("sell", "ledger", e)
      PROVE  Taken(a, screens)
  BY <1>2, OtherTaken
<1>3. ASSUME "ledger" \in screens, pension.unlocks = {},
             NEW e \in FirstCheapest(Rungs), pension.total >= e.cost,
             a = Advice("redeem", "ledger", e)
      PROVE  Taken(a, screens)
  <2>1. Rungs \ {} = Rungs
    OBVIOUS
  <2>2. e \in CheapestUnbought(Rungs, pension.unlocks)
    BY <1>3, <2>1 DEF CheapestUnbought
  <2> QED BY <1>3, <2>2, RedeemTaken
<1> QED BY <1>1, <1>2, <1>3 DEF TutorialStep, Else, When

LEMMA SituationTaken ==
  ASSUME IInv, LedgerInv, NEW filed, NEW unpaid, NEW mayExpedite, NEW gold, NEW screens,
         "orders" \in screens, "terminal" \in screens,
         NEW a \in Situation(filed, unpaid, mayExpedite, gold, screens)
  PROVE  Taken(a, screens)
<1>1. CASE a \in File
  BY <1>1, OtherTaken DEF File
<1>2. CASE "ledger" \in screens /\ a = Advice("pay", "ledger", NoEntry)
  BY <1>2, OtherTaken
<1>3. ASSUME "ledger" \in screens, NEW e \in CheapestUnbought(Rungs, pension.unlocks),
             pension.total >= e.cost, a = Advice("redeem", "ledger", e)
      PROVE  Taken(a, screens)
  BY <1>3, RedeemTaken
<1>4. ASSUME "ledger" \in screens, NEW e \in CheapestUnbought(Requisitions, office),
             a = Advice("requisition", "ledger", e)
      PROVE  Taken(a, screens)
  BY <1>4, RequisitionTaken
<1>5. CASE a = Advice("expedite", "terminal", NoEntry)
  BY <1>5, OtherTaken
<1> QED BY <1>1, <1>2, <1>3, <1>4, <1>5 DEF Situation, Else, When

LEMMA AdviceHolds ==
  ASSUME IInv, LedgerInv
  PROVE  AdviceCanBeTaken
<1> SUFFICES ASSUME NEW filed \in BOOLEAN, NEW unpaid \in BOOLEAN, NEW mayExpedite \in BOOLEAN,
                    NEW level \in Levels, NEW r \in Shown, NEW screens,
                    screens = Cleared(r, level, pension),
                    NEW a \in Guidance(filed, unpaid, mayExpedite, r.gold, screens)
             PROVE  Taken(a, screens)
  BY DEF AdviceCanBeTaken, Taken
<1>1. "orders" \in screens /\ "terminal" \in screens
  BY DEF Cleared
<1>2. \/ a \in TutorialStep(filed, screens)
      \/ a \in Situation(filed, unpaid, mayExpedite, r.gold, screens)
  BY DEF Guidance, Else, When
<1> QED BY <1>1, <1>2, TutorialTaken, SituationTaken

-----------------------------------------------------------------------------
(* Screens *)

LEMMA ProductGrows ==
  ASSUME NEW a \in Nat, NEW b \in Nat, NEW c \in Nat, a >= b
  PROVE  a * c >= b * c
<1> DEFINE d == a - b
<1>1. d \in Nat /\ a = b + d
  OBVIOUS
<1> HIDE DEF d
<1>2. d * c \in Nat /\ b * c \in Nat
  BY <1>1
<1>3. (b + d) * c = b * c + d * c
  BY <1>1
<1> QED BY <1>1, <1>2, <1>3

(* A tick of service is worth a point of pension.                          *)
LEMMA AwardPays ==
  ASSUME NEW unlocks, unlocks \subseteq Rungs, NEW service \in Nat, service >= 1,
         NEW depth \in Nat, NEW estate \in Nat
  PROVE  Award(unlocks, service, depth, estate) >= 1
<1> DEFINE credit == Credit[OwnedTier(unlocks, "service")]
           worked == service * ServiceRate
           factor == 100 + depth * DepthFactor
           left   == estate * EstateRate
           base   == worked * factor + left * 100
<1>1. OwnedTier(unlocks, "service") \in 0..3
  BY Constants, OwnedTierRange
<1>2. credit \in Nat /\ ServiceRate * 100 * credit >= 500000
  BY <1>1, Constants, ViewsAssumption DEF TopTier
<1>3. \A m, n \in Nat : m * n \in Nat
  BY SMT
<1>4. /\ worked \in Nat /\ left \in Nat /\ factor \in Nat /\ factor >= 100
      /\ worked >= ServiceRate
  <2>1. depth * DepthFactor \in Nat /\ worked \in Nat /\ left \in Nat
    BY <1>3, Constants
  <2>2. worked >= 1 * ServiceRate
    BY ProductGrows, Constants
  <2>3. 1 * ServiceRate = ServiceRate
    BY Constants
  <2> DEFINE deeper == depth * DepthFactor
  <2>4. factor = 100 + deeper /\ deeper \in Nat
    BY <2>1
  <2> HIDE DEF deeper, worked, left, factor
  <2> QED BY <2>1, <2>2, <2>3, <2>4
<1> HIDE DEF credit, worked, factor, left
<1>5. base \in Nat /\ base >= ServiceRate * 100
  <2>1. worked * factor \in Nat /\ worked * factor >= ServiceRate * factor
    BY <1>3, <1>4, ProductGrows, Constants
  <2>2. factor * ServiceRate >= 100 * ServiceRate
    BY <1>4, ProductGrows, Constants
  <2>3. /\ ServiceRate * factor = factor * ServiceRate
        /\ ServiceRate * 100 = 100 * ServiceRate
        /\ ServiceRate * factor \in Nat
    BY <1>3, <1>4, Constants
  <2> DEFINE x == worked * factor
             y == ServiceRate * factor
             z == ServiceRate * 100
             w == left * 100
  <2>4. x \in Nat /\ x >= y /\ y >= z /\ z \in Nat /\ y \in Nat /\ w \in Nat
    BY <1>3, <1>4, <2>1, <2>2, <2>3, Constants
  <2>5. base = x + w
    OBVIOUS
  <2> HIDE DEF x, y, w, base
  <2>6. base \in Nat /\ base >= z
    BY <2>4, <2>5
  <2> QED BY <2>6 DEF z
<1> HIDE DEF base
<1>6. base * credit \in Nat /\ base * credit >= 500000
  <2>1. ServiceRate * 100 \in Nat
    BY Constants
  <2>2. base * credit >= ServiceRate * 100 * credit
    BY <1>2, <1>5, <2>1, ProductGrows
  <2>3. base * credit \in Nat /\ ServiceRate * 100 * credit \in Nat
    BY <1>2, <1>3, <1>5, <2>1
  <2> DEFINE x == base * credit
             y == ServiceRate * 100 * credit
  <2>4. x \in Nat /\ y \in Nat /\ x >= y /\ y >= 500000
    BY <1>2, <2>2, <2>3
  <2> HIDE DEF x, y
  <2>5. x \in Nat /\ x >= 500000
    BY <2>4
  <2> QED BY <2>5 DEF x
<1>7. Award(unlocks, service, depth, estate) = (base * credit + 500000) \div 1000000
  BY DEF Award, credit, base, worked, factor, left
<1>8. \A x \in Nat : x >= 500000 => (x + 500000) \div 1000000 >= 1
  BY SMT
<1> QED BY <1>6, <1>7, <1>8

(* A span changes neither the number of a recruit nor, but upwards, its    *)
(* permit; the one it does not survive has served a tick, and is paid.     *)
LEMMA CatchUpPays ==
  ASSUME clock \in Nat, pension \in Pension, NEW r \in Recruit, r.alive,
         r.born <= r.last, r.last <= clock,
         NEW o \in CatchUp(r)
  PROVE  /\ o.rec.num = r.num /\ o.rec.permit >= r.permit
         /\ ~o.rec.alive => o.award >= 1
<1>0. r.permit \in Nat /\ r.last \in Nat /\ r.born \in Nat
  BY DEF Recruit
<1>1. CASE clock <= r.last
  <2>1. o = [rec |-> r, award |-> 0, handled |-> 0]
    BY <1>1 DEF CatchUp
  <2> QED BY <1>0, <2>1
<1>2. CASE clock > r.last /\ o \in {[rec |-> s, award |-> 0, handled |-> 0] : s \in Survivors(r)}
  <2>1. PICK s \in Survivors(r) : o = [rec |-> s, award |-> 0, handled |-> 0]
    BY <1>2
  <2>2. PICK p \in r.permit..MaxPermit, g \in 0..MaxGold, k \in 0..MaxStock, d \in 0..MaxDepth :
          s = AfterSpan(r, clock, p, g, k, d)
    BY DEF Survivors
  <2>3. p \in Nat /\ p >= r.permit
    BY <1>0, Constants
  <2>4. s.num = r.num /\ s.permit = p /\ s.alive
    BY <2>2 DEF AfterSpan, Recruit
  <2> QED BY <2>1, <2>3, <2>4
<1>3. CASE /\ clock > r.last
           /\ o \in UNION {{[rec |-> [c EXCEPT !.gold = g], award |-> a, handled |-> c.gold] :
                       a \in Assessed(c), g \in c.gold..MaxGold} : c \in Casualties(r)}
  <2>1. PICK c \in Casualties(r) : \E a \in Assessed(c), g \in c.gold..MaxGold :
          o = [rec |-> [c EXCEPT !.gold = g], award |-> a, handled |-> c.gold]
    BY <1>3
  <2>2. PICK a \in Assessed(c), g \in c.gold..MaxGold :
          o = [rec |-> [c EXCEPT !.gold = g], award |-> a, handled |-> c.gold]
    BY <2>1
  <2>3. PICK t \in (r.last + 1)..clock, p \in r.permit..MaxPermit,
             h \in 0..MaxGold, k \in 0..MaxStock, d \in 1..MaxDepth :
          c = Closed(AfterSpan(r, t, p, h, k, d))
    BY DEF Casualties
  <2>4. t \in Nat /\ t >= r.last + 1 /\ p \in Nat /\ p >= r.permit /\ h \in Nat /\ k \in Nat /\ d \in Nat
    BY <1>0, Constants
  <2>5. /\ c \in Recruit /\ c.num = r.num /\ c.permit = p /\ c.born = r.born /\ c.last = t
        /\ c.depth = d
    BY <2>3, <2>4 DEF AfterSpan, Closed, Recruit
  <2>6. c.last - c.born \in Nat /\ c.last - c.born >= 1 /\ Estate(c) \in Nat
    BY <1>0, <2>4, <2>5, Constants DEF Estate, Recruit
  <2>7. a >= 1
    <3> DEFINE held  == {pension.unlocks} \cup
                          (IF assignment.active = NoAssignment THEN {} ELSE {{}})
               plain == {Award(unlocks, c.last - c.born, floor, Estate(c)) :
                           unlocks \in held, floor \in c.depth..MaxDepth}
    <3>1. a \in plain \cup {Insured(x) : x \in plain}
      BY DEF Assessed
    <3>2. \A x \in plain : x \in Nat /\ x >= 1
      <4> SUFFICES ASSUME NEW unlocks \in held, NEW floor \in c.depth..MaxDepth
                   PROVE  /\ Award(unlocks, c.last - c.born, floor, Estate(c)) \in Nat
                          /\ Award(unlocks, c.last - c.born, floor, Estate(c)) >= 1
        OBVIOUS
      <4>1. unlocks \subseteq Rungs /\ floor \in Nat
        BY <2>4, <2>5, Constants DEF Pension
      <4> QED BY <2>6, <4>1, AwardType, AwardPays
    <3> HIDE DEF held, plain
    <3>3. PICK x \in plain : a = x \/ a = Insured(x)
      BY <3>1
    <3> QED BY <3>2, <3>3 DEF Insured
  <2>8. o.rec.num = c.num /\ o.rec.permit = c.permit /\ o.award = a
    BY <2>2, <2>5 DEF Recruit
  <2> QED BY <2>4, <2>5, <2>7, <2>8
<1> QED BY <1>0, <1>1, <1>2, <1>3 DEF CatchUp

(* What a resolution carries over to the screens.                          *)
Carried(i, s) ==
  /\ s.rec.num = recruits[i].num /\ s.rec.permit >= recruits[i].permit
  /\ s.transfer.careers = transfer.careers
  /\ ~s.rec.alive => s.deaths[Len(s.deaths)].award >= 1

LEMMA LivedCarries ==
  ASSUME IInv, NEW i \in Active, NEW s \in Lived(i)
  PROVE  Carried(i, s)
<1>1. i \in DOMAIN recruits /\ recruits[i] \in Recruit /\ recruits[i].alive
  BY DEF Active, IInv, TypeOK
<1>2. /\ recruits[i].born <= recruits[i].last /\ recruits[i].last <= clock
      /\ clock \in Nat /\ pension \in Pension /\ transfer \in Transfer /\ deaths \in Seq(Death)
  BY <1>1 DEF IInv, CareersDoNotOverlap, TypeOK
<1>3. PICK o \in CatchUp(recruits[i]) :
        \E p \in Redemptions(recruits[i], o), w \in Assessments(o) :
          s = [rec |-> o.rec, deaths |-> Recorded(i, o), pension |-> p,
               assignment |-> w.assignment, transfer |-> w.transfer]
  BY DEF Lived
<1>4. PICK p \in Redemptions(recruits[i], o), w \in Assessments(o) :
          s = [rec |-> o.rec, deaths |-> Recorded(i, o), pension |-> p,
               assignment |-> w.assignment, transfer |-> w.transfer]
  BY <1>3
<1>5. /\ o.rec.num = recruits[i].num /\ o.rec.permit >= recruits[i].permit
      /\ ~o.rec.alive => o.award >= 1
  BY <1>1, <1>2, CatchUpPays
<1>6. w.transfer.careers = transfer.careers
  BY <1>2 DEF Assessments, Transfer
<1>7. ASSUME ~o.rec.alive PROVE s.deaths[Len(s.deaths)].award = o.award
  <2> DEFINE d == [who |-> i, award |-> o.award, handled |-> o.handled, cause |-> "killed"]
  <2>1. s.deaths = Append(deaths, d) /\ d.award = o.award
    BY <1>4, <1>7 DEF Recorded
  <2> HIDE DEF d
  <2>2. s.deaths[Len(s.deaths)] = d
    BY <1>2, <2>1
  <2> QED BY <2>1, <2>2
<1> QED BY <1>4, <1>5, <1>6, <1>7 DEF Carried

LEMMA InsideCarries ==
  ASSUME IInv, NEW i \in Active, NEW s \in Inside(i)
  PROVE  Carried(i, s)
<1>1. CASE s \in Lived(i)
  BY <1>1, LivedCarries
<1>2. CASE s = [rec |-> recruits[i], deaths |-> deaths, pension |-> pension,
                assignment |-> assignment, transfer |-> transfer]
  <2>1. recruits[i].alive /\ recruits[i] \in Recruit
    BY DEF Active, IInv, TypeOK
  <2>2. recruits[i].permit >= recruits[i].permit
    BY <2>1 DEF Recruit
  <2> QED BY <1>2, <2>1, <2>2 DEF Carried
<1> QED BY <1>1, <1>2 DEF Inside

(* Until a Form T-1 recruits are numbered in order, and an award due at a  *)
(* death is never nothing.                                                 *)
ScreensInv ==
  /\ transfer.careers = 0 => \A k \in 1..Len(recruits) : recruits[k].num = k
  /\ Active = {} => LatestDeath.award >= 1

(* What the handlers that save one recruit commit, seen from the screens.  *)
Shows(i, rec) ==
  /\ i \in Active /\ rec \in Recruit
  /\ rec.num = recruits[i].num /\ rec.permit >= recruits[i].permit
  /\ recruits' = [recruits EXCEPT ![i] = rec]
  /\ transfer'.careers = transfer.careers
  /\ pension'.total + pension'.spent = pension.total + pension.spent
  /\ ~rec.alive => LatestDeath'.award >= 1

LEMMA SavingShows ==
  ASSUME IInv, Saving
  PROVE  (\E i, rec : Shows(i, rec)) \/ UNCHANGED vars
<1>1. ASSUME NEW i \in Active, NEW s, Resolution(i, s), Carried(i, s), NEW rec \in Recruit,
             rec.alive = s.rec.alive, rec.num = s.rec.num, rec.permit = s.rec.permit,
             recruits' = [recruits EXCEPT ![i] = rec], deaths' = s.deaths,
             pension' = s.pension, transfer' = s.transfer
      PROVE  Shows(i, rec)
  BY <1>1 DEF Carried, Resolution, Shows, LatestDeath
<1>2. ASSUME NEW i \in Active, NEW s, s \in Lived(i) \/ s \in Inside(i)
      PROVE  Resolution(i, s) /\ Carried(i, s) /\ s.rec \in Recruit
  BY <1>2, LivedIsResolution, InsideIsResolution, LivedCarries, InsideCarries DEF Resolution
<1>3. ASSUME NEW i \in Active, NEW s \in Inside(i), NEW cost \in Nat, s.rec.gold >= cost,
             Save(i, s, Charged(s.rec, cost))
      PROVE  \E rec : Shows(i, rec)
  <2>1. s.rec \in Recruit
    BY <1>2
  <2>2. s.rec.gold - cost \in Nat
    BY <1>3, <2>1 DEF Recruit
  <2>3. /\ Charged(s.rec, cost) \in Recruit
        /\ Charged(s.rec, cost).alive = s.rec.alive
        /\ Charged(s.rec, cost).num = s.rec.num
        /\ Charged(s.rec, cost).permit = s.rec.permit
    BY <2>1, <2>2 DEF Charged, Recruit
  <2>4. Shows(i, Charged(s.rec, cost))
    BY <1>1, <1>2, <1>3, <2>3 DEF Save
  <2> QED BY <2>4
<1>4. CASE LoadState \/ ResolveOnly
  <2>1. UNCHANGED vars \/ \E i \in Active : \E s : (s \in Lived(i) \/ s \in Inside(i)) /\ Save(i, s, s.rec)
    BY <1>4 DEF LoadState, ResolveOnly
  <2>2. ASSUME NEW i \in Active, NEW s, s \in Lived(i) \/ s \in Inside(i), Save(i, s, s.rec)
        PROVE  Shows(i, s.rec)
    BY <1>1, <1>2, <2>2 DEF Save
  <2> QED BY <2>1, <2>2
<1>5. CASE ExpeditePermit \/ FileForm
  <2>1. PICK i, s : /\ i \in Active /\ s \in Inside(i) /\ s.rec.gold >= Fee
                    /\ Save(i, s, Charged(s.rec, Fee))
    BY <1>5 DEF ExpeditePermit, FileForm
  <2> QED BY <1>3, <2>1, Constants
<1>6. CASE HireStaff
  <2>1. PICK i, s : /\ i \in Active /\ s \in Inside(i) /\ s.rec.gold >= Wage
                    /\ Save(i, s, Charged(s.rec, Wage))
    BY <1>6 DEF HireStaff
  <2> QED BY <1>3, <2>1, Constants
<1>7. CASE SellItem
  <2>1. PICK i, s, n, g :
          /\ i \in Active /\ s \in Inside(i) /\ n \in 1..s.rec.stock /\ g \in 0..MaxGold
          /\ Save(i, s, [s.rec EXCEPT !.stock = @ - n, !.gold = g])
    BY <1>7 DEF SellItem
  <2> DEFINE sold == [s.rec EXCEPT !.stock = @ - n, !.gold = g]
  <2>2. Resolution(i, s) /\ Carried(i, s) /\ s.rec \in Recruit
    BY <1>2, <2>1
  <2>3. g \in Nat /\ s.rec.stock - n \in Nat
    <3>1. s.rec.stock \in Nat
      BY <2>2 DEF Recruit
    <3> QED BY <2>1, <3>1, Constants
  <2>4. /\ sold \in Recruit /\ sold.alive = s.rec.alive /\ sold.num = s.rec.num
        /\ sold.permit = s.rec.permit
    BY <2>2, <2>3 DEF Recruit
  <2>5. /\ recruits' = [recruits EXCEPT ![i] = sold] /\ deaths' = s.deaths
        /\ pension' = s.pension /\ transfer' = s.transfer
    BY <2>1 DEF Save
  <2> HIDE DEF sold
  <2>6. Shows(i, sold)
    BY <1>1, <2>1, <2>2, <2>4, <2>5
  <2> QED BY <2>6
<1>8. CASE PurchaseRequisition
  <2>1. PICK i, s, e :
          /\ i \in Active /\ s \in Inside(i) /\ e \in Requisitions /\ s.rec.gold >= e.cost
          /\ Save(i, s, Charged(s.rec, e.cost))
    BY <1>8 DEF PurchaseRequisition
  <2>2. e.cost \in Nat
    BY <2>1, Constants DEF Entry
  <2> QED BY <1>3, <2>1, <2>2
<1>9. CASE AcceptAssignment
  <2>1. PICK i, s :
          /\ i \in Active /\ s \in Inside(i)
          /\ recruits' = [recruits EXCEPT ![i] = s.rec]
          /\ deaths' = s.deaths /\ pension' = s.pension /\ transfer' = s.transfer
    BY <1>9 DEF AcceptAssignment
  <2>2. Shows(i, s.rec)
    BY <1>1, <1>2, <2>1
  <2> QED BY <2>2
<1> QED BY <1>4, <1>5, <1>6, <1>7, <1>8, <1>9 DEF Saving

(* In a table numbered in order the latest recruit is the last.             *)
LEMMA LatestIsLast ==
  ASSUME NEW table \in Seq(Recruit), Len(table) >= 1,
         \A k \in 1..Len(table) : table[k].num = k
  PROVE  LatestIn(table) = {Len(table)}
<1> DEFINE n == Len(table)
<1>1. DOMAIN table = 1..n /\ n \in 1..n /\ n \in Nat
  OBVIOUS
<1>2. \A k \in 1..n : table[k].num = k
  OBVIOUS
<1> HIDE DEF n
<1>3. LatestIn(table) = {k \in 1..n : \A m \in 1..n : table[m].num <= table[k].num}
  BY <1>1 DEF LatestIn
<1>4. \A k \in 1..n : (\A m \in 1..n : table[m].num <= table[k].num) <=> k = n
  <2> SUFFICES ASSUME NEW k \in 1..n
               PROVE  (\A m \in 1..n : table[m].num <= table[k].num) <=> k = n
    OBVIOUS
  <2>1. ASSUME k = n PROVE \A m \in 1..n : table[m].num <= table[k].num
    BY <1>1, <1>2, <2>1
  <2>2. ASSUME \A m \in 1..n : table[m].num <= table[k].num PROVE k = n
    <3>1. table[n].num <= table[k].num
      BY <1>1, <2>2
    <3> QED BY <1>1, <1>2, <3>1
  <2> QED BY <2>1, <2>2
<1>5. {k \in 1..n : \A m \in 1..n : table[m].num <= table[k].num} = {n}
  BY <1>1, <1>4
<1> QED BY <1>3, <1>5 DEF n

(* The recruit on the screens is then the newest.                           *)
LEMMA ShownIsNewest ==
  ASSUME IInv, ScreensInv, transfer.careers = 0
  PROVE  Shown = {recruits[Len(recruits)]} /\ recruits[Len(recruits)].num = Len(recruits)
<1>1. /\ recruits \in Seq(Recruit) /\ Len(recruits) >= 1 /\ Active \subseteq {Len(recruits)}
      /\ Len(recruits) \in 1..Len(recruits)
  BY DEF IInv, TypeOK, OnlyNewestServes
<1>2. LatestIn(recruits) = {Len(recruits)}
  BY <1>1, LatestIsLast DEF ScreensInv
<1>3. Active # {} => Active = {Len(recruits)}
  BY <1>1
<1> QED BY <1>1, <1>2, <1>3 DEF Shown, ScreensInv

(* A recruit appended after a table numbered in order is numbered next.     *)
LEMMA DeliveredNumbers ==
  ASSUME NEW table \in Seq(Recruit), Len(table) >= 1, clock \in Nat,
         \A k \in 1..Len(table) : table[k].num = k,
         NEW j \in LatestIn(table), recruits' = Append(table, Successor(table[j], clock))
  PROVE  /\ \A k \in 1..Len(recruits') : recruits'[k].num = k
         /\ Len(recruits') = Len(table) + 1
         /\ recruits'[Len(recruits')].num = Len(table) + 1
<1>1. j = Len(table) /\ Len(table) \in 1..Len(table)
  BY LatestIsLast
<1> DEFINE new == Successor(table[j], clock)
<1>2. new.num = Len(table) + 1
  BY <1>1 DEF Successor, NewRecruit
<1>3. recruits' = Append(table, new)
  OBVIOUS
<1> HIDE DEF new
<1>4. /\ Len(recruits') = Len(table) + 1 /\ recruits'[Len(table) + 1] = new
      /\ \A k \in 1..Len(table) : recruits'[k] = table[k]
  BY <1>3
<1> QED BY <1>2, <1>4

LEMMA ClosedNumbers ==
  ASSUME IInv, ScreensInv, transfer.careers = 0, NEW i \in Active, NEW s,
         Resolution(i, s), Carried(i, s),
         NEW table, table = [recruits EXCEPT ![i] = Closed(s.rec)]
  PROVE  \A k \in 1..Len(table) : table[k].num = k
<1>1. /\ i = Len(recruits) /\ i \in 1..Len(recruits) /\ recruits \in Seq(Recruit)
  BY ActiveIsNewest
<1>2. Closed(s.rec).num = recruits[i].num
  BY DEF Closed, Carried, Resolution, Recruit
<1>3. Len(table) = Len(recruits)
  BY ClosedTable
<1>4. \A k \in 1..Len(recruits) : table[k] = IF k = i THEN Closed(s.rec) ELSE recruits[k]
  BY <1>1
<1> QED BY <1>2, <1>3, <1>4 DEF ScreensInv

LEMMA InitScreens == Init => ScreensInv
<1> SUFFICES ASSUME Init PROVE ScreensInv
  OBVIOUS
<1>1. Len(recruits) = 1 /\ recruits[1] = NewRecruit(1, 1, 0)
  BY DEF Init
<1>2. recruits[1].num = 1 /\ recruits[1].alive
  BY <1>1 DEF NewRecruit
<1>3. 1 \in Active
  BY <1>1, <1>2 DEF Active, Init
<1> QED BY <1>1, <1>2, <1>3 DEF ScreensInv

(* Whoever takes delivery, somebody serves.                                 *)
LEMMA DeliveryServes ==
  ASSUME NEW table \in Seq(Recruit), NEW new, recruits' = Append(table, new), new.alive
  PROVE  Active' # {}
<1>1. Len(recruits') = Len(table) + 1 /\ recruits'[Len(table) + 1] = new /\ Len(table) \in Nat
  OBVIOUS
<1>2. DOMAIN recruits' = 1..(Len(table) + 1)
  OBVIOUS
<1>3. Len(table) + 1 \in Active'
  BY <1>1, <1>2 DEF Active
<1> QED BY <1>3

LEMMA ClaimDelivers ==
  ASSUME IInv, ClaimPension
  PROVE  /\ Active = {} /\ Active' # {}
         /\ pension'.total = pension.total + LatestDeath.award /\ pension'.spent = pension.spent
         /\ transfer' = transfer
         /\ \E j \in LatestIn(recruits) :
              recruits' = Append(recruits, Successor(recruits[j], clock))
<1>1. PICK j \in LatestIn(recruits) : recruits' = Append(recruits, Successor(recruits[j], clock))
  BY DEF ClaimPension, ClaimInside
<1>2. recruits \in Seq(Recruit) /\ clock \in Nat /\ pension \in Pension
  BY DEF IInv, TypeOK
<1>3. Active' # {}
  <2>1. recruits[j] \in Recruit
    BY <1>2, ElementOfSeq DEF LatestIn
  <2> QED BY <1>1, <1>2, <2>1, SuccessorType, DeliveryServes
<1>4. /\ pension'.total = pension.total + LatestDeath.award /\ pension'.spent = pension.spent
      /\ transfer' = transfer /\ Active = {}
  BY <1>2 DEF ClaimPension, ClaimInside, Pension
<1> QED BY <1>1, <1>3, <1>4

(* A retirement pays as many ticks of service as there are, and delivers.   *)
LEMMA RetireDelivers ==
  ASSUME IInv, RetireRecruit
  PROVE  \E i, s, j :
           LET table == [recruits EXCEPT ![i] = Closed(s.rec)]
           IN  /\ i \in Active
               /\ Resolution(i, s) /\ Carried(i, s)
               /\ j \in LatestIn(table)
               /\ recruits' = Append(table, Successor(table[j], clock))
               /\ transfer' = s.transfer
               /\ recruits[i].last > recruits[i].born =>
                    pension'.total + pension'.spent >= 1
<1>1. PICK i, s :
      /\ i \in Active /\ s \in Inside(i)
      /\ LET service == s.rec.last - s.rec.born
            award   == Award(s.pension.unlocks, service, s.rec.depth, Estate(s.rec))
        IN  /\ service >= MinService
            /\ ClaimInside([recruits EXCEPT ![i] = Closed(s.rec)], s.pension, award)
            /\ transfer' = s.transfer
  BY DEF RetireRecruit
<1> DEFINE table == [recruits EXCEPT ![i] = Closed(s.rec)]
           service == s.rec.last - s.rec.born
           award == Award(s.pension.unlocks, service, s.rec.depth, Estate(s.rec))
<1>2. Resolution(i, s) /\ Carried(i, s)
  BY <1>1, InsideIsResolution, InsideCarries
<1>3. /\ \E j \in LatestIn(table) : recruits' = Append(table, Successor(table[j], clock))
      /\ pension' = [s.pension EXCEPT !.total = @ + award]
      /\ transfer' = s.transfer
  BY <1>1 DEF ClaimInside
<1>4. PICK j \in LatestIn(table) : recruits' = Append(table, Successor(table[j], clock))
  BY <1>3
<1>5. ASSUME recruits[i].last > recruits[i].born
      PROVE  pension'.total + pension'.spent >= 1
  <2>1. /\ recruits[i].last \in Nat /\ recruits[i].born \in Nat /\ s.rec.last \in Nat
        /\ recruits[i].last <= s.rec.last /\ s.rec.born = recruits[i].born
    <3>1. recruits[i] \in Recruit /\ s.rec \in Recruit
      BY <1>1, <1>2, ActiveIsNewest, ElementOfSeq DEF Resolution
    <3> QED BY <1>2, <3>1 DEF Resolution, Recruit
  <2>2. service \in Nat /\ service >= 1
    BY <1>5, <2>1
  <2>3. s.rec.depth \in Nat /\ Estate(s.rec) \in Nat /\ s.pension.unlocks \subseteq Rungs
    BY <1>2 DEF Resolution, Recruit, Estate, Pension
  <2> HIDE DEF service
  <2>4. award \in Nat /\ award >= 1
    BY <2>2, <2>3, AwardPays, AwardType
  <2> HIDE DEF award
  <2>5. /\ pension'.total = s.pension.total + award /\ pension'.spent = s.pension.spent
        /\ s.pension.total \in Nat /\ s.pension.spent \in Nat
    BY <1>2, <1>3 DEF Resolution, Pension
  <2> QED BY <2>4, <2>5
<1> QED BY <1>1, <1>2, <1>3, <1>4, <1>5

LEMMA StepScreens == IInv /\ ScreensInv /\ [Next]_vars => ScreensInv'
<1> SUFFICES ASSUME IInv, ScreensInv, [Next]_vars PROVE ScreensInv'
  OBVIOUS
<1>0. /\ recruits \in Seq(Recruit) /\ Len(recruits) >= 1 /\ deaths \in Seq(Death) /\ clock \in Nat
      /\ DOMAIN recruits = 1..Len(recruits)
  BY DEF IInv, TypeOK
<1>1. ASSUME UNCHANGED <<recruits, deaths>>, transfer'.careers = transfer.careers
      PROVE  ScreensInv'
  BY <1>1 DEF ScreensInv, Active, LatestDeath
<1>2. ASSUME NEW i, NEW rec, Shows(i, rec) PROVE ScreensInv'
  <2>1. i \in Active /\ i \in 1..Len(recruits)
    BY <1>0, <1>2 DEF Shows, Active
  <2>2. /\ Len(recruits') = Len(recruits) /\ DOMAIN recruits' = 1..Len(recruits)
        /\ \A k \in 1..Len(recruits) : recruits'[k] = IF k = i THEN rec ELSE recruits[k]
    BY <1>0, <1>2, <2>1 DEF Shows
  <2>3. \A k \in 1..Len(recruits) : recruits'[k].num = recruits[k].num
    BY <1>2, <2>2 DEF Shows
  <2>4. rec.alive => i \in Active'
    BY <2>1, <2>2 DEF Active
  <2> QED BY <1>2, <2>2, <2>3, <2>4 DEF ScreensInv, Shows
<1>3. CASE Saving
  BY <1>1, <1>2, <1>3, SavingShows DEF vars
<1>4. CASE ClaimPension
  <2>1. PICK j \in LatestIn(recruits) : recruits' = Append(recruits, Successor(recruits[j], clock))
    BY <1>4, ClaimDelivers
  <2>2. ASSUME transfer.careers = 0 PROVE \A k \in 1..Len(recruits') : recruits'[k].num = k
    BY <1>0, <2>1, <2>2, DeliveredNumbers DEF ScreensInv
  <2> QED BY <1>4, <2>2, ClaimDelivers DEF ScreensInv
<1>5. CASE RetireRecruit
  <2>1. PICK i, s, j :
          LET table == [recruits EXCEPT ![i] = Closed(s.rec)]
          IN  /\ i \in Active
              /\ Resolution(i, s) /\ Carried(i, s)
              /\ j \in LatestIn(table)
              /\ recruits' = Append(table, Successor(table[j], clock))
              /\ transfer' = s.transfer
    BY <1>5, RetireDelivers
  <2> DEFINE table == [recruits EXCEPT ![i] = Closed(s.rec)]
  <2>2. table \in Seq(Recruit) /\ Len(table) >= 1
    BY <2>1, ClosedTable
  <2>3. transfer'.careers = transfer.careers
    BY <2>1 DEF Carried
  <2>4. Active' # {}
    BY <1>5, RetirementPays
  <2>5. ASSUME transfer.careers = 0 PROVE \A k \in 1..Len(recruits') : recruits'[k].num = k
    <3>1. \A k \in 1..Len(table) : table[k].num = k
      BY <2>1, <2>5, ClosedNumbers
    <3>2. j \in LatestIn(table) /\ recruits' = Append(table, Successor(table[j], clock))
      BY <2>1
    <3> HIDE DEF table
    <3> QED BY <1>0, <2>2, <3>1, <3>2, DeliveredNumbers
  <2> QED BY <2>3, <2>4, <2>5 DEF ScreensInv
<1>6. CASE FileTransfer
  <2>1. PICK i, s :
          /\ i \in Active /\ s \in Inside(i)
          /\ transfer' = [s.transfer EXCEPT !.total = @ + CommendationAward(s.pension.total + s.pension.spent),
                                            !.careers = @ + 1]
          /\ recruits' = Append([recruits EXCEPT ![i] = Closed(s.rec)],
                                Posting(s.transfer.unlocks, PostingTick(recruits[i], s.rec)))
    BY <1>6 DEF FileTransfer
  <2>2. Resolution(i, s)
    BY <2>1, InsideIsResolution
  <2>3. s.transfer \in Transfer
    BY <2>2 DEF Resolution
  <2>4. transfer'.careers # 0
    BY <2>1, <2>3 DEF Transfer
  <2>5. Active' # {}
    <3> DEFINE table == [recruits EXCEPT ![i] = Closed(s.rec)]
               new   == Posting(s.transfer.unlocks, PostingTick(recruits[i], s.rec))
    <3>1. table \in Seq(Recruit) /\ s.rec.last \in Nat
      BY <2>1, <2>2, ClosedTable
    <3>2. new.alive
      BY <2>3, <3>1, PostingType DEF PostingTick, Transfer
    <3>3. recruits' = Append(table, new)
      BY <2>1
    <3> HIDE DEF table, new
    <3> QED BY <3>1, <3>2, <3>3, DeliveryServes
  <2> QED BY <2>4, <2>5 DEF ScreensInv
<1>7. CASE PurchaseCommendation
  <2>1. transfer'.careers = transfer.careers
    BY <1>7 DEF PurchaseCommendation, IInv, TypeOK, Transfer
  <2> QED BY <1>1, <1>7, <2>1 DEF PurchaseCommendation
<1>8. CASE Tick \/ PurchaseUnlock \/ AbandonAssignment \/ UNCHANGED vars
  BY <1>1, <1>8 DEF Tick, PurchaseUnlock, AbandonAssignment, vars
<1> QED BY <1>3, <1>4, <1>5, <1>6, <1>7, <1>8 DEF Next, Saving

(* The successor's screens, at level 1: what pension opened stays open, and *)
(* the number opens the rest.                                              *)
LEMMA SuccessorsScreens ==
  ASSUME NEW r, NEW s, NEW level \in Levels, NEW p \in Pension, NEW q \in Pension, s.num > 1,
         (level # 1 \/ p.total + p.spent > 0) => q.total + q.spent > 0
  PROVE  Cleared(r, level, p) \subseteq Cleared(s, 1, q)
BY DEF Cleared, Levels, Pension

(* The same recruit's screens, later: its permit and its pension only grow. *)
LEMMA SameScreens ==
  ASSUME NEW r \in Recruit, NEW s \in Recruit, NEW level, NEW p \in Pension, NEW q \in Pension,
         s.num = r.num, s.permit >= r.permit, q.total + q.spent >= p.total + p.spent
  PROVE  Cleared(r, level, p) \subseteq Cleared(s, level, q)
<1>1. /\ r.permit >= 2 => s.permit >= 2
      /\ r.permit >= 3 => s.permit >= 3
      /\ p.total + p.spent > 0 => q.total + q.spent > 0
  BY DEF Recruit, Pension
<1> QED BY <1>1 DEF Cleared

KeepsScreens ==
  \A r \in Shown, s \in Shown', level \in Levels :
    (level = 1 \/ r.last > r.born) =>
      Cleared(r, level, pension) \subseteq Cleared(s, IF s.num = r.num THEN level ELSE 1, pension')

LEMMA StepKeepsScreens ==
  ASSUME IInv, ScreensInv, [Next]_vars, transfer'.careers = 0
  PROVE  KeepsScreens
<1>0. IInv' /\ ScreensInv'
  BY StepIInv, StepScreens
<1>1. /\ recruits \in Seq(Recruit) /\ Len(recruits) >= 1 /\ Len(recruits) \in 1..Len(recruits)
      /\ pension \in Pension /\ pension' \in Pension /\ clock \in Nat
      /\ recruits' \in Seq(Recruit) /\ Len(recruits') >= 1 /\ Len(recruits') \in 1..Len(recruits')
      /\ transfer \in Transfer
  BY <1>0 DEF IInv, TypeOK
<1> DEFINE r == recruits[Len(recruits)]
           s == recruits'[Len(recruits')]
<1>2. r \in Recruit /\ s \in Recruit
  BY <1>1, ElementOfSeq
<1>3. Shown' = {s} /\ s.num = Len(recruits')
  <2>1. /\ Active' \subseteq {Len(recruits')}
        /\ \A k \in 1..Len(recruits') : recruits'[k].num = k
    BY <1>0 DEF IInv, OnlyNewestServes, ScreensInv
  <2>2. LatestIn(recruits') = {Len(recruits')}
    BY <1>1, <2>1, LatestIsLast
  <2>3. Shown' = {recruits'[k] : k \in IF Active' # {} THEN Active' ELSE LatestIn(recruits')}
    BY DEF Shown, LatestIn
  <2>4. Active' # {} => Active' = {Len(recruits')}
    BY <2>1
  <2> QED BY <1>1, <2>1, <2>2, <2>3, <2>4
<1>4. ASSUME transfer.careers = 0 PROVE Shown = {r} /\ r.num = Len(recruits)
  BY <1>4, ShownIsNewest
<1>5. ASSUME transfer.careers = 0, s.num = r.num, s.permit >= r.permit,
             pension'.total + pension'.spent >= pension.total + pension.spent
      PROVE  KeepsScreens
  <2>1. \A level \in Levels : Cleared(r, level, pension) \subseteq Cleared(s, level, pension')
    BY <1>1, <1>2, <1>5, SameScreens
  <2> HIDE DEF r, s
  <2> QED BY <1>3, <1>4, <1>5, <2>1 DEF KeepsScreens
<1>6. ASSUME transfer.careers = 0, Len(recruits') = Len(recruits) + 1,
             (r.last > r.born \/ pension.total + pension.spent > 0)
                => pension'.total + pension'.spent > 0
      PROVE  KeepsScreens
  <2>1. s.num > 1 /\ s.num # r.num
    BY <1>1, <1>3, <1>4, <1>6
  <2>2. ASSUME NEW level \in Levels, level = 1 \/ r.last > r.born
        PROVE  Cleared(r, level, pension) \subseteq Cleared(s, 1, pension')
    <3>1. (level # 1 \/ pension.total + pension.spent > 0) => pension'.total + pension'.spent > 0
      BY <1>6, <2>2
    <3> HIDE DEF r, s
    <3> QED BY <1>1, <2>1, <3>1, SuccessorsScreens
  <2> HIDE DEF r, s
  <2> QED BY <1>3, <1>4, <1>6, <2>1, <2>2 DEF KeepsScreens
<1>7. ASSUME UNCHANGED recruits, transfer'.careers = transfer.careers,
             pension'.total + pension'.spent = pension.total + pension.spent
      PROVE  KeepsScreens
  <2>1. s = r /\ r.permit >= r.permit
    BY <1>2, <1>7 DEF Recruit
  <2>2. pension'.total + pension'.spent >= pension.total + pension.spent
    BY <1>1, <1>7 DEF Pension
  <2> HIDE DEF r, s
  <2> QED BY <1>5, <1>7, <2>1, <2>2
<1>8. ASSUME NEW i, NEW rec, Shows(i, rec) PROVE KeepsScreens
  <2>1. i = Len(recruits)
    BY <1>8, ActiveIsNewest DEF Shows
  <2>2. s = rec /\ rec.num = r.num /\ rec.permit >= r.permit
    BY <1>1, <1>8, <2>1 DEF Shows
  <2>3. pension'.total + pension'.spent >= pension.total + pension.spent
    BY <1>1, <1>8 DEF Shows, Pension
  <2>4. transfer.careers = 0
    BY <1>8 DEF Shows
  <2> HIDE DEF r, s
  <2> QED BY <1>5, <2>2, <2>3, <2>4
<1>9. CASE Saving
  BY <1>7, <1>8, <1>9, SavingShows DEF vars
<1>10. CASE ClaimPension
  <2>1. /\ Active = {}
        /\ pension'.total = pension.total + LatestDeath.award /\ pension'.spent = pension.spent
        /\ transfer' = transfer
    BY <1>10, ClaimDelivers
  <2>2. PICK j \in LatestIn(recruits) : recruits' = Append(recruits, Successor(recruits[j], clock))
    BY <1>10, ClaimDelivers
  <2>3. transfer.careers = 0 /\ Len(recruits') = Len(recruits) + 1
    <3>1. recruits' = Append(recruits, Successor(recruits[j], clock))
      BY <2>2
    <3>2. \A new : Len(Append(recruits, new)) = Len(recruits) + 1
      BY <1>1
    <3> QED BY <2>1, <3>1, <3>2
  <2>4. LatestDeath.award >= 1 /\ LatestDeath.award \in Nat
    <3>1. deaths \in Seq(Death) /\ deaths # <<>>
      BY <2>1 DEF IInv, TypeOK, PendingIsTheirs
    <3>2. LatestDeath \in Death
      BY <3>1, ElementOfSeq DEF LatestDeath
    <3> QED BY <2>1, <3>2 DEF ScreensInv, Death
  <2>5. pension'.total + pension'.spent > 0
    <3>1. pension.total \in Nat /\ pension.spent \in Nat
      BY <1>1 DEF Pension
    <3> QED BY <2>1, <2>4, <3>1
  <2> QED BY <1>6, <2>3, <2>5
<1>11. CASE RetireRecruit
  <2>1. PICK i, s0, j :
          LET table == [recruits EXCEPT ![i] = Closed(s0.rec)]
          IN  /\ i \in Active
              /\ Resolution(i, s0) /\ Carried(i, s0)
              /\ j \in LatestIn(table)
              /\ recruits' = Append(table, Successor(table[j], clock))
              /\ transfer' = s0.transfer
              /\ recruits[i].last > recruits[i].born => pension'.total + pension'.spent >= 1
    BY <1>11, RetireDelivers
  <2> DEFINE table == [recruits EXCEPT ![i] = Closed(s0.rec)]
  <2>2. i = Len(recruits)
    BY <2>1, ActiveIsNewest
  <2>3. table \in Seq(Recruit) /\ Len(table) = Len(recruits)
    BY <2>1, ClosedTable
  <2>4. transfer.careers = 0
    BY <2>1 DEF Carried
  <2>5. recruits' = Append(table, Successor(table[j], clock))
    BY <2>1
  <2>6. Len(recruits') = Len(recruits) + 1
    <3> HIDE DEF table
    <3>1. \A new : Len(Append(table, new)) = Len(table) + 1
      BY <2>3
    <3> QED BY <2>3, <2>5, <3>1
  <2>7. pension'.total + pension'.spent >= pension.total + pension.spent
    BY <1>11, RetirementPays
  <2>8. (r.last > r.born \/ pension.total + pension.spent > 0)
          => pension'.total + pension'.spent > 0
    <3>1. /\ pension.total + pension.spent \in Nat /\ pension'.total + pension'.spent \in Nat
      BY <1>1 DEF Pension
    <3> DEFINE x == pension.total + pension.spent
               y == pension'.total + pension'.spent
    <3>2. x \in Nat /\ y \in Nat /\ y >= x
      BY <2>7, <3>1
    <3>3. r.last > r.born => y >= 1
      BY <2>1, <2>2
    <3> HIDE DEF x, y, r
    <3>4. (r.last > r.born \/ x > 0) => y > 0
      BY <3>2, <3>3
    <3> QED BY <3>4 DEF x, y
  <2> HIDE DEF r, s
  <2> QED BY <1>6, <2>4, <2>6, <2>8
<1>12. CASE FileTransfer
  <2>1. PICK i, t :
          /\ i \in Active /\ t \in Inside(i)
          /\ transfer' = [t.transfer EXCEPT !.total = @ + CommendationAward(t.pension.total + t.pension.spent),
                                            !.careers = @ + 1]
    BY <1>12 DEF FileTransfer
  <2>2. t.transfer \in Transfer
    BY <2>1, InsideIsResolution DEF Resolution
  <2>3. transfer'.careers # 0
    BY <2>1, <2>2 DEF Transfer
  <2> QED BY <2>3
<1>13. CASE PurchaseUnlock
  <2>1. PICK e \in Affordable(Rungs, pension.unlocks, Licences, pension.total) :
          pension' = Redeemed(pension, e)
    BY <1>13 DEF PurchaseUnlock
  <2>2. pension'.total + pension'.spent = pension.total + pension.spent
    BY <1>1, <2>1, RedeemedType
  <2> QED BY <1>7, <1>13, <2>2 DEF PurchaseUnlock
<1>14. CASE PurchaseCommendation
  <2>1. transfer'.careers = transfer.careers
    BY <1>1, <1>14 DEF PurchaseCommendation, Transfer
  <2> QED BY <1>7, <1>14, <2>1 DEF PurchaseCommendation
<1>15. CASE Tick \/ AbandonAssignment \/ UNCHANGED vars
  BY <1>7, <1>15 DEF Tick, AbandonAssignment, vars
<1> QED BY <1>9, <1>10, <1>11, <1>12, <1>13, <1>14, <1>15 DEF Next, Saving

-----------------------------------------------------------------------------
(* The theorems *)

(* No rung without the ones below it, on any of the three ladders, and no  *)
(* more Tier III rungs than there are licences, whether the officer or the *)
(* Junior Officer bought them.                                             *)
THEOREM RungByRung == Spec => []LaddersClimbedInOrder
<1>1. LedgerInv => LaddersClimbedInOrder
  BY DEF LedgerInv, LaddersClimbedInOrder, RungsOK, Climbed
<1> QED BY <1>1, Ledgers, PTL

(* Every point of pension is an award that was banked once, and every      *)
(* Commendation is a file closed or pension surrendered.                   *)
THEOREM EveryAwardOnce == Spec => []AwardsAccounted
<1>1. Awarded = SumOf(deaths, banked)
  BY DEF Awarded, SumOf
<1>2. LedgerInv => AwardsAccounted
  BY <1>1 DEF LedgerInv, BoardOK, BoughtWithPension, AwardsAccounted
<1> QED BY <1>1, <1>2, Ledgers, PTL

(* What a screen offers as affordable the handler would accept, on all     *)
(* three ladders.                                                          *)
THEOREM Offers == Spec => []OffersAreHonoured
BY Ledgers, OffersHold, PTL

(* The advice on the Terminal names a cleared screen and a rung that can   *)
(* be bought, but for the licence rule guidance does not know.             *)
THEOREM Advised == Spec => []AdviceCanBeTaken
BY Ledgers, AdviceHolds, PTL

(* A screen never disappears after a funeral: until a Form T-1, whatever   *)
(* level a recruit had served its way to, its successor opens as much.     *)
THEOREM FuneralsCloseNothing == Spec => ScreensSurviveFunerals
<1>1. Spec => [](IInv /\ ScreensInv)
  <2>1. Init => IInv /\ ScreensInv
    BY InitIInv, InitScreens
  <2>2. (IInv /\ ScreensInv) /\ [Next]_vars => (IInv /\ ScreensInv)'
    BY StepIInv, StepScreens
  <2> QED BY <2>1, <2>2, PTL DEF Spec
<1> DEFINE Survive == transfer'.careers = 0 => KeepsScreens
<1>2. (IInv /\ ScreensInv) /\ [Next]_vars => [Survive]_vars
  BY StepKeepsScreens
<1>3. Spec => [][Survive]_vars
  BY <1>1, <1>2, PTL DEF Spec
<1> QED BY <1>3 DEF ScreensSurviveFunerals, KeepsScreens
=============================================================================
