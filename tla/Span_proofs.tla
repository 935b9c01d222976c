----------------------------- MODULE Span_proofs -----------------------------
(***************************************************************************)
(* Theorems about what a request finds when it looks: about Resolve, for   *)
(* any dice, orders, ladders and tuning that keep the two assumptions; and *)
(* about Assignments, for any catalogue, any spans and any succession of   *)
(* careers.                                                                *)
(*                                                                         *)
(* The replay.  A minute keeps a recruit sound (MinuteIs): inside the      *)
(* maximum its grade and files add up to, on its feet or lost underground, *)
(* sent no deeper than it is authorised.  What a span keeps for itself,    *)
(* the stat block and the deepest floor, is either what a request opening  *)
(* a span there would make of the recruit (OpenedAlike), or read by        *)
(* nothing but the award (MinuteAlike).  So the span that waits, played    *)
(* from the recruit as it was saved, is always at what the reader of every *)
(* minute holds (KeepsPace), which is why a request may come at any time.  *)
(*                                                                         *)
(* The assignments.  What is true of the work since the acceptance while   *)
(* an assignment is on the board (UnderItsRules) is what its payment is    *)
(* then held to; that an assignment on the board has never been completed  *)
(* (Unfinished) is why it is paid for once; and that no acceptance is      *)
(* later than the minute the recruit is resolved to (TimelyFor) is why        *)
(* nothing earlier is counted.                                             *)
(***************************************************************************)
EXTENDS Resolve, Assignments, SequenceTheorems, FiniteSetTheorems, WellFoundedInduction, TLAPS

-----------------------------------------------------------------------------
(* Recruits and spans *)

RecruitFields ==
  {"alive", "level", "xp", "standing", "hp", "maxHp", "depth", "permit", "applied", "expedited",
   "gold", "supplies", "stock", "clauses", "born", "last", "award"}

SpanFields == {"r", "tick", "vigour", "deepest"}

Shaped(r, fields) == r = [x \in fields |-> r[x]]

Ticks == Int \cup {NoTick}

RecruitOK(r) ==
  /\ Shaped(r, RecruitFields)
  /\ r.alive \in BOOLEAN
  /\ r.level \in Nat /\ r.level >= StartingGrade
  /\ r.xp \in Int /\ r.standing \in Int
  /\ r.hp \in Int /\ r.maxHp \in Int
  /\ r.depth \in Nat
  /\ r.permit \in Nat \ {0}
  /\ r.applied \in Ticks /\ r.expedited \in Ticks
  /\ r.clauses \in Int /\ r.born \in Int /\ r.last \in Int

StateOK(s) ==
  /\ Shaped(s, SpanFields) /\ RecruitOK(s.r)
  /\ s.tick \in Int /\ s.vigour \in Int

(* What grade and files add up to.                                         *)
Maximum(r) == AtLeast1(HpAt(r.level) + Vigour(r))

(* A recruit at work, at any moment of a minute.                           *)
Able(s) ==
  /\ StateOK(s) /\ s.r.alive
  /\ s.vigour = Vigour(s.r) /\ s.r.maxHp = Maximum(s.r) /\ s.r.hp <= s.r.maxHp

(* At the end of a minute.                                                 *)
Sound(s) ==
  /\ StateOK(s)
  /\ s.r.alive => Able(s) /\ s.r.hp >= 1
  /\ ~s.r.alive => s.r.hp = 0 /\ s.r.depth > 0 /\ s.r.last = s.tick /\ s.r.born < s.tick

-----------------------------------------------------------------------------
(* Arithmetic *)

LEMMA Constants ==
  /\ MaxDepth \in Nat \ {0} /\ StartingHp \in Nat \ {0} /\ StartingGrade \in Nat \ {0}
  /\ XpPerGrade \in Nat \ {0} /\ Processing \in Nat \ {0} /\ DrainTicks \in Nat \ {0}
  /\ SupplyPrice \in Nat \ {0} /\ MaxCatchup \in Nat \ {0}
  /\ HpPerGrade \in Nat /\ RestPct \in Nat /\ PullBackPct \in Nat /\ HungerPct \in Nat
  /\ VigourPct \in Nat /\ BlowPct \in Nat /\ GrievousPct \in Nat /\ Granted \in Nat
  /\ GradeCap \in Nat /\ ExpediteFee \in Nat /\ MaxTick \in Nat /\ MaxPromotions \in Nat
  /\ NoTick \notin Int
BY ResolveAssumption

LEMMA MinOf == \A a, b \in Int : Min({a, b}) = IF a <= b THEN a ELSE b
<1> SUFFICES ASSUME NEW a \in Int, NEW b \in Int PROVE Min({a, b}) = IF a <= b THEN a ELSE b
  OBVIOUS
<1> DEFINE m == IF a <= b THEN a ELSE b
<1>1. m \in {a, b} /\ \A y \in {a, b} : m <= y
  OBVIOUS
<1>2. \A x \in {a, b} : (\A y \in {a, b} : x <= y) => x = m
  OBVIOUS
<1> QED BY <1>1, <1>2 DEF Min

LEMMA MaxOf == \A a, b \in Int : Max({a, b}) = IF a >= b THEN a ELSE b
<1> SUFFICES ASSUME NEW a \in Int, NEW b \in Int PROVE Max({a, b}) = IF a >= b THEN a ELSE b
  OBVIOUS
<1> DEFINE m == IF a >= b THEN a ELSE b
<1>1. m \in {a, b} /\ \A y \in {a, b} : m >= y
  OBVIOUS
<1>2. \A x \in {a, b} : (\A y \in {a, b} : x >= y) => x = m
  OBVIOUS
<1> QED BY <1>1, <1>2 DEF Max

LEMMA Products == \A m, n \in Int : m * n \in Int /\ (m >= 0 /\ n >= 0 => m * n >= 0)
BY SMT

LEMMA PercentIs ==
  \A n \in Int, pct \in Nat : Percent(n, pct) \in Int /\ (n >= 0 => Percent(n, pct) >= 0)
<1> SUFFICES ASSUME NEW n \in Int, NEW pct \in Nat
             PROVE  Percent(n, pct) \in Int /\ (n >= 0 => Percent(n, pct) >= 0)
  OBVIOUS
<1> DEFINE p == n * pct
<1>1. p \in Int /\ (n >= 0 => p >= 0)
  BY Products
<1>2. Percent(n, pct) = (2 * p + 100) \div 200
  BY DEF Percent, Rounded
<1> HIDE DEF p
<1> QED BY <1>1, <1>2

LEMMA AtLeast1Is == \A n \in Int : AtLeast1(n) = IF n <= 1 THEN 1 ELSE n
BY MaxOf DEF AtLeast1

LEMMA HpAtIs == \A g \in Nat \ {0} : HpAt(g) \in Nat \ {0}
<1> SUFFICES ASSUME NEW g \in Nat \ {0} PROVE HpAt(g) \in Nat \ {0}
  OBVIOUS
<1> DEFINE k == Min({g, MaxDepth}) - 1
<1>1. k \in Nat
  BY Constants, MinOf
<1>2. HpAt(g) = StartingHp + k * HpPerGrade
  BY DEF HpAt
<1> HIDE DEF k
<1>3. k * HpPerGrade \in Nat
  BY <1>1, Constants, Products
<1> QED BY <1>2, <1>3, Constants

LEMMA VigourIs ==
  ASSUME NEW r, r.level \in Nat \ {0}, r.clauses \in Int
  PROVE  LET cap == Percent(HpAt(r.level), VigourPct)
         IN  cap \in Nat /\ Vigour(r) \in -cap..cap
<1> DEFINE hp  == HpAt(r.level)
           cap == Percent(hp, VigourPct)
<1>1. hp \in Nat \ {0}
  BY HpAtIs
<1>2. Vigour(r) = Max({-cap, Min({cap, r.clauses})})
  BY DEF Vigour
<1> HIDE DEF hp
<1>3. cap \in Int /\ (hp >= 0 => cap >= 0)
  <2>1. hp \in Int /\ VigourPct \in Nat
    BY <1>1, Constants
  <2> QED BY <2>1, PercentIs, Zenon
<1> HIDE DEF cap
<1>4. cap \in Nat
  BY <1>1, <1>3
<1>5. Vigour(r) \in -cap..cap
  BY <1>2, <1>4, MinOf, MaxOf
<1> QED BY <1>4, <1>5 DEF cap, hp

LEMMA MaximumIs ==
  ASSUME NEW r, RecruitOK(r)
  PROVE  Vigour(r) \in Int /\ Maximum(r) \in Nat \ {0}
<1>1. r.level \in Nat \ {0} /\ r.clauses \in Int
  BY Constants DEF RecruitOK
<1>2. Vigour(r) \in Int
  BY <1>1, VigourIs
<1>3. HpAt(r.level) + Vigour(r) \in Int
  BY <1>1, <1>2, HpAtIs
<1> QED BY <1>2, <1>3, AtLeast1Is DEF Maximum

-----------------------------------------------------------------------------
(* What each part of a minute leaves *)

(* Neither the minute, nor what limits the descent, nor the history.       *)
Kept(s, t) ==
  /\ t.tick = s.tick /\ t.r.alive = s.r.alive
  /\ t.r.level = s.r.level /\ t.r.depth = s.r.depth /\ t.r.permit = s.r.permit
  /\ t.r.applied = s.r.applied /\ t.r.expedited = s.r.expedited
  /\ t.r.born = s.r.born /\ t.r.last = s.r.last

LEMMA CarriedIs ==
  ASSUME NEW s, StateOK(s), s.r.alive
  PROVE  /\ Able(Carried(s)) /\ Kept(s, Carried(s))
         /\ s.r.hp >= 1 => Carried(s).r.hp >= 1
<1> DEFINE v == Vigour(s.r)
           m == AtLeast1(HpAt(s.r.level) + v)
<1>1. v \in Int /\ m \in Nat \ {0}
  BY MaximumIs DEF StateOK, Maximum
<1> DEFINE hp == Min({s.r.hp, m})
           t == [s EXCEPT !.vigour = v, !.r = [s.r EXCEPT !.maxHp = m, !.hp = hp]]
<1>2. Carried(s) = t
  BY DEF Carried, Sync, StateOK, Shaped, SpanFields
<1>3. hp \in Int /\ hp <= m /\ (s.r.hp >= 1 => hp >= 1)
  <2> HIDE DEF m
  <2> QED BY <1>1, MinOf DEF StateOK, RecruitOK
<1> HIDE DEF v, m, hp
<1>4. /\ Shaped(t, SpanFields) /\ Shaped(t.r, RecruitFields)
      /\ t.vigour = v /\ t.r.maxHp = m /\ t.r.hp = hp /\ t.tick = s.tick
      /\ \A x \in RecruitFields \ {"maxHp", "hp"} : t.r[x] = s.r[x]
  BY DEF StateOK, RecruitOK, Shaped, SpanFields, RecruitFields
<1> HIDE DEF t
<1>5. Kept(s, t) /\ t.r.xp = s.r.xp /\ t.r.standing = s.r.standing /\ t.r.clauses = s.r.clauses
  BY <1>4 DEF Kept, RecruitFields
<1>6. Vigour(t.r) = v /\ Maximum(t.r) = m
  BY <1>5 DEF Kept, v, m, Vigour, Maximum
<1>7. StateOK(t)
  BY <1>1, <1>3, <1>4, <1>5 DEF StateOK, RecruitOK, Kept
<1>8. Able(t)
  BY <1>3, <1>4, <1>5, <1>6, <1>7 DEF Able, Kept
<1> QED BY <1>2, <1>3, <1>4, <1>5, <1>8

Same(r, q, but) == \A x \in RecruitFields \ but : q[x] = r[x]

(* What most of a minute touches, beside the coin, the supplies and stock. *)
Volatile == {"gold", "supplies", "stock", "hp", "xp", "depth", "permit", "applied"}

LEMMA AbleIs ==
  ASSUME NEW s, Able(s)
  PROVE  /\ s.r.maxHp \in Nat \ {0} /\ s.r.hp \in Int /\ s.r.hp <= s.r.maxHp /\ s.r.xp \in Int
         /\ s.r.depth \in Nat /\ s.r.permit \in Nat \ {0} /\ s.r.applied \in Ticks /\ s.r.clauses \in Int
         /\ s.r.level \in Nat \ {0} /\ s.tick \in Int
<1>1. RecruitOK(s.r) /\ s.r.maxHp = Maximum(s.r) /\ s.r.hp <= s.r.maxHp /\ s.tick \in Int
  BY DEF Able, StateOK
<1>2. Maximum(s.r) \in Nat \ {0}
  BY <1>1, MaximumIs
<1> QED BY <1>1, <1>2, Constants DEF RecruitOK

LEMMA StaysAble ==
  ASSUME NEW s, Able(s), NEW t, Shaped(t, SpanFields), Shaped(t.r, RecruitFields),
         t.tick = s.tick, t.vigour = s.vigour, Same(s.r, t.r, Volatile),
         t.r.hp \in Int, t.r.hp <= s.r.maxHp, t.r.xp \in Int,
         t.r.depth \in Nat, t.r.permit \in Nat \ {0}, t.r.applied \in Ticks
  PROVE  /\ Able(t) /\ t.r.maxHp = s.r.maxHp
         /\ t.r.level = s.r.level /\ t.r.expedited = s.r.expedited
         /\ t.r.born = s.r.born /\ t.r.last = s.r.last
         /\ t.r.depth = s.r.depth /\ t.r.permit = s.r.permit /\ t.r.applied = s.r.applied => Kept(s, t)
<1>1. /\ t.r.alive = s.r.alive /\ t.r.level = s.r.level /\ t.r.standing = s.r.standing
      /\ t.r.maxHp = s.r.maxHp /\ t.r.expedited = s.r.expedited /\ t.r.clauses = s.r.clauses
      /\ t.r.born = s.r.born /\ t.r.last = s.r.last
  BY DEF Same, RecruitFields, Volatile
<1>2. StateOK(t)
  BY <1>1 DEF Able, StateOK, RecruitOK
<1>3. Vigour(t.r) = Vigour(s.r) /\ Maximum(t.r) = Maximum(s.r)
  BY <1>1 DEF Vigour, Maximum
<1>4. Able(t)
  BY <1>1, <1>2, <1>3 DEF Able
<1> QED BY <1>1, <1>4 DEF Kept

(* Coin, supplies and stock are nobody's condition.                        *)
LEMMA PurseIs ==
  ASSUME NEW s, Able(s), NEW t, Shaped(t, SpanFields), Shaped(t.r, RecruitFields),
         t.tick = s.tick, t.vigour = s.vigour, Same(s.r, t.r, {"gold", "supplies", "stock"})
  PROVE  Able(t) /\ Kept(s, t) /\ t.r.hp = s.r.hp /\ t.r.maxHp = s.r.maxHp
<1>1. /\ t.r.hp = s.r.hp /\ t.r.xp = s.r.xp /\ t.r.depth = s.r.depth /\ t.r.permit = s.r.permit
      /\ t.r.applied = s.r.applied /\ Same(s.r, t.r, Volatile)
  BY DEF Same, RecruitFields, Volatile
<1> QED BY <1>1, AbleIs, StaysAble

LEMMA TickIs ==
  ASSUME NEW s, Able(s)
  PROVE  LET t == [s EXCEPT !.tick = @ + 1]
         IN  Able(t) /\ t.tick = s.tick + 1 /\ t.r = s.r
<1> DEFINE t == [s EXCEPT !.tick = @ + 1]
<1>1. Shaped(t, SpanFields) /\ t.r = s.r /\ t.tick = s.tick + 1 /\ t.vigour = s.vigour
  BY DEF Able, StateOK, Shaped, SpanFields
<1> HIDE DEF t
<1>2. Able(t)
  BY <1>1 DEF Able, StateOK
<1> QED BY <1>1, <1>2 DEF t

(* The stat block is carried again after the files changed.                *)
LEMMA RefiledIs ==
  ASSUME NEW s, Able(s), NEW t, Shaped(t, SpanFields), Shaped(t.r, RecruitFields),
         t.tick = s.tick, t.vigour = s.vigour, Same(s.r, t.r, {"clauses"}), t.r.clauses \in Int
  PROVE  /\ Able(Carried(t)) /\ Kept(s, Carried(t))
         /\ s.r.hp >= 1 => Carried(t).r.hp >= 1
<1>1. /\ t.r.alive = s.r.alive /\ t.r.level = s.r.level /\ t.r.xp = s.r.xp /\ t.r.standing = s.r.standing
      /\ t.r.hp = s.r.hp /\ t.r.maxHp = s.r.maxHp /\ t.r.depth = s.r.depth /\ t.r.permit = s.r.permit
      /\ t.r.applied = s.r.applied /\ t.r.expedited = s.r.expedited
      /\ t.r.born = s.r.born /\ t.r.last = s.r.last
  BY DEF Same, RecruitFields
<1>2. StateOK(t) /\ t.r.alive /\ Kept(s, t)
  BY <1>1 DEF Able, StateOK, RecruitOK, Kept
<1>3. Able(Carried(t)) /\ Kept(t, Carried(t)) /\ (t.r.hp >= 1 => Carried(t).r.hp >= 1)
  BY <1>2, CarriedIs
<1> QED BY <1>1, <1>2, <1>3 DEF Kept

LEMMA RuledIs ==
  ASSUME NEW s, Able(s), s.r.hp >= 1, NEW roll \in Roll
  PROVE  Able(Ruled(s, roll)) /\ Kept(s, Ruled(s, roll)) /\ Ruled(s, roll).r.hp >= 1
<1>1. CASE roll.ruling = 0
  BY <1>1 DEF Ruled, Kept
<1>2. CASE roll.ruling # 0
  <2> DEFINE t == [s EXCEPT !.r.clauses = @ + roll.ruling]
  <2>1. /\ Shaped(t, SpanFields) /\ Shaped(t.r, RecruitFields)
        /\ t.tick = s.tick /\ t.vigour = s.vigour /\ Same(s.r, t.r, {"clauses"})
        /\ t.r.clauses = s.r.clauses + roll.ruling
    BY DEF Same, Able, StateOK, RecruitOK, Shaped, SpanFields, RecruitFields
  <2>2. Ruled(s, roll) = Carried(t)
    BY <1>2 DEF Ruled
  <2> HIDE DEF t
  <2>3. t.r.clauses \in Int
    BY <2>1, AbleIs DEF Roll
  <2> QED BY <2>1, <2>2, <2>3, RefiledIs
<1> QED BY <1>1, <1>2

LEMMA PaidIs ==
  ASSUME NEW s, Able(s)
  PROVE  Able(Paid(s)) /\ Kept(s, Paid(s)) /\ Paid(s).r.hp = s.r.hp
<1>1. /\ Shaped(Paid(s), SpanFields) /\ Shaped(Paid(s).r, RecruitFields)
      /\ Paid(s).tick = s.tick /\ Paid(s).vigour = s.vigour
      /\ Same(s.r, Paid(s).r, {"gold", "supplies", "stock"})
  BY DEF Paid, Same, Able, StateOK, RecruitOK, Shaped, SpanFields, RecruitFields
<1> QED BY <1>1, PurseIs

(* A permit due, and only one that is due.                                 *)
Due(s) == s.r.applied # NoTick /\ s.tick - s.r.applied >= Processing

LEMMA ApprovedIs ==
  ASSUME NEW s, Able(s)
  PROVE  LET t == Approved(s)
         IN  /\ Able(t) /\ t.r.hp = s.r.hp /\ t.tick = s.tick
             /\ t.r.level = s.r.level /\ t.r.depth = s.r.depth /\ t.r.expedited = s.r.expedited
             /\ t.r.born = s.r.born /\ t.r.last = s.r.last
             /\ IF Due(s) THEN t.r.permit = s.r.permit + 1 /\ t.r.applied = NoTick
                ELSE t.r.permit = s.r.permit /\ t.r.applied = s.r.applied
<1> DEFINE t == [s EXCEPT !.r.permit = @ + 1, !.r.applied = NoTick]
<1>1. /\ Shaped(t, SpanFields) /\ Shaped(t.r, RecruitFields)
      /\ t.tick = s.tick /\ t.vigour = s.vigour /\ Same(s.r, t.r, {"permit", "applied"})
      /\ t.r.permit = s.r.permit + 1 /\ t.r.applied = NoTick
  BY DEF Same, Able, StateOK, RecruitOK, Shaped, SpanFields, RecruitFields
<1>2. Approved(s) = IF Due(s) THEN t ELSE s
  BY DEF Approved, Due
<1> HIDE DEF t
<1>3. t.r.hp = s.r.hp /\ t.r.xp = s.r.xp /\ t.r.depth = s.r.depth /\ Same(s.r, t.r, Volatile)
  BY <1>1 DEF Same, RecruitFields, Volatile
<1>4. t.r.permit \in Nat \ {0} /\ t.r.applied \in Ticks
  BY <1>1, AbleIs DEF Ticks
<1>5. Able(t) /\ t.r.level = s.r.level /\ t.r.expedited = s.r.expedited
      /\ t.r.born = s.r.born /\ t.r.last = s.r.last
  BY <1>1, <1>3, <1>4, AbleIs, StaysAble
<1> QED BY <1>1, <1>2, <1>3, <1>5

(* A change of health alone, not above the maximum.                        *)
LEMMA HealthIs ==
  ASSUME NEW s, Able(s), NEW hp \in Int, hp <= s.r.maxHp
  PROVE  LET t == [s EXCEPT !.r.hp = hp]
         IN  Able(t) /\ Kept(s, t) /\ t.r.hp = hp
<1> DEFINE t == [s EXCEPT !.r.hp = hp]
<1>1. /\ Shaped(t, SpanFields) /\ Shaped(t.r, RecruitFields)
      /\ t.tick = s.tick /\ t.vigour = s.vigour /\ Same(s.r, t.r, {"hp"}) /\ t.r.hp = hp
  BY DEF Same, Able, StateOK, RecruitOK, Shaped, SpanFields, RecruitFields
<1> HIDE DEF t
<1>2. /\ t.r.xp = s.r.xp /\ t.r.depth = s.r.depth /\ t.r.permit = s.r.permit
      /\ t.r.applied = s.r.applied /\ Same(s.r, t.r, Volatile)
  BY <1>1 DEF Same, RecruitFields, Volatile
<1>3. Able(t) /\ Kept(s, t)
  BY <1>1, <1>2, AbleIs, StaysAble
<1> QED BY <1>1, <1>3 DEF t

LEMMA HealedIs ==
  ASSUME NEW s, Able(s), NEW pct \in Nat
  PROVE  /\ Able(Healed(s, pct)) /\ Kept(s, Healed(s, pct)) /\ Healed(s, pct).r.hp >= s.r.hp
<1> DEFINE share == Percent(s.r.maxHp, pct)
           hp == Min({s.r.maxHp, s.r.hp + share})
<1>1. s.r.maxHp \in Int /\ s.r.maxHp >= 0 /\ s.r.hp \in Int /\ s.r.hp <= s.r.maxHp
  BY AbleIs
<1>2. share \in Int /\ share >= 0
  BY <1>1, PercentIs, Zenon
<1>3. Healed(s, pct) = [s EXCEPT !.r.hp = hp]
  BY DEF Healed
<1> HIDE DEF share
<1> DEFINE most == s.r.maxHp
           healed == s.r.hp + share
<1>4. healed \in Int /\ healed >= s.r.hp /\ most \in Int /\ s.r.hp <= most
  BY <1>1, <1>2
<1>5. hp = Min({most, healed})
  OBVIOUS
<1> HIDE DEF hp, most, healed
<1>6. hp = IF most <= healed THEN most ELSE healed
  BY <1>4, <1>5, MinOf, Zenon
<1>7. hp \in Int /\ hp <= most /\ hp >= s.r.hp
  BY <1>4, <1>6
<1>8. hp \in Int /\ hp <= s.r.maxHp /\ hp >= s.r.hp
  BY <1>7 DEF most
<1> QED BY <1>3, <1>8, HealthIs

LEMMA PulledBackIs ==
  ASSUME NEW s, Able(s), s.r.depth > 0
  PROVE  LET t == PulledBack(s)
         IN  /\ Able(t) /\ t.r.hp >= s.r.hp /\ t.tick = s.tick
             /\ t.r.level = s.r.level /\ t.r.depth = s.r.depth - 1 /\ t.r.permit = s.r.permit
             /\ t.r.applied = s.r.applied /\ t.r.expedited = s.r.expedited
             /\ t.r.born = s.r.born /\ t.r.last = s.r.last
<1> DEFINE t == [s EXCEPT !.r.depth = @ - 1]
<1>1. /\ Shaped(t, SpanFields) /\ Shaped(t.r, RecruitFields)
      /\ t.tick = s.tick /\ t.vigour = s.vigour /\ Same(s.r, t.r, {"depth"}) /\ t.r.depth = s.r.depth - 1
  BY DEF Same, Able, StateOK, RecruitOK, Shaped, SpanFields, RecruitFields
<1>2. PulledBack(s) = Healed(t, PullBackPct)
  BY DEF PulledBack
<1> HIDE DEF t
<1>3. /\ t.r.xp = s.r.xp /\ t.r.hp = s.r.hp /\ t.r.permit = s.r.permit
      /\ t.r.applied = s.r.applied /\ Same(s.r, t.r, Volatile)
  BY <1>1 DEF Same, RecruitFields, Volatile
<1>4. t.r.depth \in Nat
  BY <1>1, AbleIs
<1>5. Able(t) /\ t.r.level = s.r.level /\ t.r.expedited = s.r.expedited
      /\ t.r.born = s.r.born /\ t.r.last = s.r.last
  BY <1>1, <1>3, <1>4, AbleIs, StaysAble
<1>6. Able(Healed(t, PullBackPct)) /\ Kept(t, Healed(t, PullBackPct)) /\ Healed(t, PullBackPct).r.hp >= t.r.hp
  BY <1>5, HealedIs, Constants
<1> QED BY <1>1, <1>2, <1>3, <1>5, <1>6 DEF Kept

LEMMA RestedIs ==
  ASSUME NEW s, Able(s), NEW o
  PROVE  Able(Rested(s, o)) /\ Kept(s, Rested(s, o)) /\ Rested(s, o).r.hp >= s.r.hp
<1> DEFINE h == Healed(s, RestPct)
           t == [h EXCEPT !.r = Resupplied(@)]
<1>1. Able(h) /\ Kept(s, h) /\ h.r.hp >= s.r.hp
  BY HealedIs, Constants
<1>2. Rested(s, o) = t \/ Rested(s, o) = h
  BY DEF Rested
<1> HIDE DEF h
<1>3. /\ Shaped(t, SpanFields) /\ Shaped(t.r, RecruitFields)
      /\ t.tick = h.tick /\ t.vigour = h.vigour /\ Same(h.r, t.r, {"gold", "supplies", "stock"})
  BY <1>1 DEF Resupplied, Same, Able, StateOK, RecruitOK, Shaped, SpanFields, RecruitFields
<1> HIDE DEF t
<1>4. Able(t) /\ Kept(h, t) /\ t.r.hp = h.r.hp
  BY <1>1, <1>3, PurseIs
<1> QED BY <1>1, <1>2, <1>4 DEF Kept

-----------------------------------------------------------------------------
(* The descent *)

LEMMA LimitIs ==
  ASSUME NEW r, NEW q, NEW o \in Orders,
         r.permit \in Nat \ {0}, q.permit \in Nat \ {0}, r.permit <= q.permit
  PROVE  /\ PermitLimit(r, o) \in 1..MaxDepth /\ PermitLimit(q, o) \in 1..MaxDepth
         /\ PermitLimit(r, o) <= PermitLimit(q, o)
<1> DEFINE ladder == Ladders[o.site]
<1>1. /\ ladder \in Seq(1..MaxDepth)
      /\ \A i, j \in DOMAIN ladder : i < j => ladder[i] <= ladder[j]
  BY ResolveAssumption DEF Orders
<1>2. Len(ladder) \in Nat /\ DOMAIN ladder = 1..Len(ladder) /\ \A i \in 1..Len(ladder) : ladder[i] \in 1..MaxDepth
  BY <1>1, LenProperties, ElementOfSeq
<1>3. /\ PermitLimit(r, o) = IF r.permit <= Len(ladder) THEN ladder[r.permit] ELSE MaxDepth
      /\ PermitLimit(q, o) = IF q.permit <= Len(ladder) THEN ladder[q.permit] ELSE MaxDepth
  BY DEF PermitLimit
<1> HIDE DEF ladder
<1>4. PermitLimit(r, o) \in 1..MaxDepth /\ PermitLimit(q, o) \in 1..MaxDepth
  BY <1>2, <1>3, Constants
<1>5. PermitLimit(r, o) <= PermitLimit(q, o)
  <2>1. CASE q.permit <= Len(ladder)
    <3>1. r.permit \in 1..Len(ladder) /\ q.permit \in 1..Len(ladder)
      BY <1>2, <2>1
    <3>2. r.permit < q.permit => ladder[r.permit] <= ladder[q.permit]
      BY <1>1, <1>2, <3>1
    <3>3. ladder[r.permit] \in Int
      BY <1>2, <3>1
    <3>4. CASE r.permit = q.permit
      BY <1>3, <1>4, <3>4
    <3>5. CASE r.permit # q.permit
      BY <1>3, <2>1, <3>1, <3>2, <3>5
    <3> QED BY <3>4, <3>5
  <2>2. CASE ~(q.permit <= Len(ladder))
    BY <1>3, <1>4, <2>2
  <2> QED BY <2>1, <2>2
<1> QED BY <1>4, <1>5

LEMMA LeastOfFour ==
  ASSUME NEW a \in Int, NEW b \in Int, NEW c \in Int, NEW d \in Int
  PROVE  /\ Min({a, b, c, d}) \in {a, b, c, d}
         /\ Min({a, b, c, d}) <= a /\ Min({a, b, c, d}) <= b /\ Min({a, b, c, d}) <= c /\ Min({a, b, c, d}) <= d
<1> DEFINE S == {a, b, c, d}
<1>1. \E x \in S : \A y \in S : x <= y
  OBVIOUS
<1>2. Min(S) \in S /\ \A y \in S : Min(S) <= y
  BY <1>1 DEF Min
<1> QED BY <1>2

(* Permit and grade only widen what is authorised.                         *)
LEMMA AuthorisedIs ==
  ASSUME NEW r, NEW q, NEW o \in Orders,
         r.permit \in Nat \ {0}, q.permit \in Nat \ {0}, r.permit <= q.permit,
         r.level \in Nat \ {0}, q.level \in Nat \ {0}, r.level <= q.level
  PROVE  /\ Authorised(r, o) \in Nat \ {0} /\ Authorised(q, o) \in Nat \ {0}
         /\ Authorised(r, o) <= Authorised(q, o)
<1> DEFINE a == PermitLimit(r, o)
           b == PermitLimit(q, o)
           m == Min({o.target, a, r.level, MaxDepth})
           n == Min({o.target, b, q.level, MaxDepth})
<1>1. a \in Nat \ {0} /\ b \in Nat \ {0} /\ a <= b
  BY LimitIs, Constants
<1>2. o.target \in Nat \ {0} /\ MaxDepth \in Nat \ {0} /\ Granted \in Nat
  BY Constants DEF Orders
<1>3. Authorised(r, o) = m + Granted /\ Authorised(q, o) = n + Granted
  BY DEF Authorised
<1> HIDE DEF a, b
<1>4. o.target \in Int /\ a \in Int /\ b \in Int /\ r.level \in Int /\ q.level \in Int /\ MaxDepth \in Int
  BY <1>1, <1>2
<1>5. /\ m \in {o.target, a, r.level, MaxDepth} /\ m <= o.target /\ m <= a /\ m <= r.level /\ m <= MaxDepth
      /\ n \in {o.target, b, q.level, MaxDepth}
  BY <1>4, LeastOfFour, Zenon
<1> HIDE DEF m, n
<1>6. m \in Nat \ {0} /\ n \in Nat \ {0} /\ m <= n
  BY <1>1, <1>2, <1>5
<1> QED BY <1>2, <1>3, <1>6

LEMMA AppliedIs ==
  ASSUME NEW s, Able(s), NEW o
  PROVE  LET t == Applied(s, o)
         IN  /\ Able(t) /\ t.r.hp = s.r.hp /\ t.r.maxHp = s.r.maxHp /\ t.tick = s.tick
             /\ t.r.level = s.r.level /\ t.r.depth = s.r.depth /\ t.r.permit = s.r.permit
             /\ t.r.expedited = s.r.expedited /\ t.r.born = s.r.born /\ t.r.last = s.r.last
             /\ \/ t.r.applied = s.r.applied
                \/ s.r.applied = NoTick /\ t.r.applied = s.tick
<1> DEFINE t == [s EXCEPT !.r.applied = s.tick]
<1>1. /\ Shaped(t, SpanFields) /\ Shaped(t.r, RecruitFields)
      /\ t.tick = s.tick /\ t.vigour = s.vigour /\ Same(s.r, t.r, {"applied"}) /\ t.r.applied = s.tick
  BY DEF Same, Able, StateOK, RecruitOK, Shaped, SpanFields, RecruitFields
<1>2. Applied(s, o) = s \/ (s.r.applied = NoTick /\ Applied(s, o) = t)
  BY DEF Applied
<1> HIDE DEF t
<1>3. /\ t.r.xp = s.r.xp /\ t.r.hp = s.r.hp /\ t.r.permit = s.r.permit /\ t.r.depth = s.r.depth
      /\ Same(s.r, t.r, Volatile)
  BY <1>1 DEF Same, RecruitFields, Volatile
<1>4. t.r.applied \in Ticks
  BY <1>1, AbleIs DEF Ticks
<1>5. Able(t) /\ t.r.maxHp = s.r.maxHp /\ t.r.level = s.r.level /\ t.r.expedited = s.r.expedited
      /\ t.r.born = s.r.born /\ t.r.last = s.r.last
  BY <1>1, <1>3, <1>4, AbleIs, StaysAble
<1> QED BY <1>1, <1>2, <1>3, <1>5

(* From the surface a recruit goes down: it is authorised to work a floor, *)
(* and not stalled above the first.                                        *)
LEMMA DescendedIs ==
  ASSUME NEW s, Able(s), NEW o \in Orders
  PROVE  LET t == Descended(s, o)
         IN  /\ Able(t) /\ t.r.hp = s.r.hp /\ t.r.maxHp = s.r.maxHp /\ t.tick = s.tick
             /\ t.r.level = s.r.level /\ t.r.permit = s.r.permit /\ t.r.applied = s.r.applied
             /\ t.r.expedited = s.r.expedited /\ t.r.born = s.r.born /\ t.r.last = s.r.last
             /\ t.r.depth > 0
             /\ t.r.depth = s.r.depth \/ t.r.depth <= Authorised(s.r, o)
<1> DEFINE t == [s EXCEPT !.r.depth = @ + 1, !.deepest = Max({@, s.r.depth + 1})]
           goes == ~Stalled(s, o) /\ s.r.depth < Authorised(s.r, o)
<1>1. /\ Shaped(t, SpanFields) /\ Shaped(t.r, RecruitFields)
      /\ t.tick = s.tick /\ t.vigour = s.vigour /\ Same(s.r, t.r, {"depth"}) /\ t.r.depth = s.r.depth + 1
  BY DEF Same, Able, StateOK, RecruitOK, Shaped, SpanFields, RecruitFields
<1>2. Descended(s, o) = IF goes THEN t ELSE s
  BY DEF Descended
<1>3. Authorised(s.r, o) \in Nat \ {0} /\ PermitLimit(s.r, o) \in Nat \ {0}
  BY AbleIs, AuthorisedIs, LimitIs, Constants
<1>4. s.r.depth = 0 => goes
  BY <1>3 DEF Stalled
<1> HIDE DEF t
<1>5. /\ t.r.xp = s.r.xp /\ t.r.hp = s.r.hp /\ t.r.permit = s.r.permit /\ t.r.applied = s.r.applied
      /\ Same(s.r, t.r, Volatile)
  BY <1>1 DEF Same, RecruitFields, Volatile
<1>6. t.r.depth \in Nat
  BY <1>1, AbleIs
<1>7. Able(t) /\ t.r.maxHp = s.r.maxHp /\ t.r.level = s.r.level /\ t.r.expedited = s.r.expedited
      /\ t.r.born = s.r.born /\ t.r.last = s.r.last
  BY <1>1, <1>5, <1>6, AbleIs, StaysAble
<1>8. s.r.depth \in Nat
  BY AbleIs
<1>9. CASE goes
  <2>1. t.r.depth > 0 /\ t.r.depth <= Authorised(s.r, o)
    BY <1>1, <1>3, <1>8, <1>9
  <2> QED BY <1>1, <1>2, <1>5, <1>7, <1>9, <2>1
<1>10. CASE ~goes
  BY <1>2, <1>4, <1>8, <1>10
<1> QED BY <1>9, <1>10

(* Nothing there is to eat costs no more than the retreat order keeps back *)
(* and leaves a recruit who is whole on its feet.                          *)
LEMMA ThresholdIs ==
  ASSUME NEW m \in Nat, NEW p \in Nat, NEW q \in Nat, p <= q
  PROVE  Threshold(m, p) \in Int /\ Threshold(m, q) \in Int /\ Threshold(m, p) <= Threshold(m, q)
<1> DEFINE a == m * p
           b == m * (q - p)
<1>1. a \in Int /\ b \in Int /\ b >= 0
  BY Products
<1>2. m * q = a + b
  BY SMT
<1>3. Threshold(m, p) = (a + 99) \div 100 /\ Threshold(m, q) = (a + b + 99) \div 100
  BY <1>2 DEF Threshold
<1> HIDE DEF a, b
<1> QED BY <1>1, <1>3

LEMMA ShareIs ==
  ASSUME NEW m \in Nat \ {0}, NEW pct \in Nat
  PROVE  AtLeast1(Percent(m, pct)) \in Nat \ {0}
<1>1. m \in Int
  OBVIOUS
<1>2. Percent(m, pct) \in Int
  BY <1>1, PercentIs, Zenon
<1> HIDE DEF Percent
<1> QED BY <1>2, AtLeast1Is

(* The maximum is one of those the shares were measured against.           *)
LEMMA MeasuredIs ==
  ASSUME NEW s, Able(s)
  PROVE  s.r.maxHp \in Maxima
<1> DEFINE g == Min({s.r.level, MaxDepth})
           cap == Percent(HpAt(s.r.level), VigourPct)
           v == Vigour(s.r)
<1>1. s.r.level \in Nat \ {0} /\ StartingGrade <= s.r.level /\ s.r.clauses \in Int
  BY AbleIs DEF Able, StateOK, RecruitOK
<1>2. g \in Min({StartingGrade, MaxDepth})..MaxDepth /\ Min({g, MaxDepth}) = g
  <2>1. StartingGrade \in Int /\ MaxDepth \in Int /\ s.r.level \in Int
    BY <1>1, Constants
  <2> QED BY <1>1, <2>1, MinOf
<1>3. HpAt(g) = HpAt(s.r.level)
  BY <1>2 DEF HpAt
<1>4. v \in -cap..cap
  BY <1>1, VigourIs
<1>5. s.r.maxHp = AtLeast1(HpAt(g) + v)
  BY <1>3 DEF Able, Maximum
<1> DEFINE those == LET c == Percent(HpAt(g), VigourPct) IN {AtLeast1(HpAt(g) + w) : w \in -c..c}
<1>6. s.r.maxHp \in those
  BY <1>3, <1>4, <1>5
<1>7. those \in {LET c == Percent(HpAt(h), VigourPct) IN {AtLeast1(HpAt(h) + w) : w \in -c..c} :
                   h \in Min({StartingGrade, MaxDepth})..MaxDepth}
  BY <1>2
<1> HIDE DEF those, g, v, cap
<1> QED BY <1>6, <1>7 DEF Maxima

LEMMA SharesAre ==
  ASSUME NEW s, Able(s)
  PROVE  LET m == s.r.maxHp
             b == AtLeast1(Percent(m, BlowPct))
         IN  /\ Bite(m) \in Nat \ {0} /\ b \in Nat \ {0} /\ Bite(m) <= Threshold(m, 10)
             /\ Bite(m) + b < m /\ Bite(m) + b <= Threshold(m, BlowPct + HungerPct)
<1>1. Bite(s.r.maxHp) \in Nat \ {0} /\ AtLeast1(Percent(s.r.maxHp, BlowPct)) \in Nat \ {0}
  BY AbleIs, ShareIs, Constants DEF Bite
<1> QED BY <1>1, MeasuredIs, SharesAssumption

-----------------------------------------------------------------------------
(* The rest of the minute *)

LEMMA FedIs ==
  ASSUME NEW s, Able(s)
  PROVE  Able(Fed(s)) /\ Kept(s, Fed(s)) /\ Fed(s).r.hp = s.r.hp /\ Fed(s).r.maxHp = s.r.maxHp
<1> DEFINE t == [s EXCEPT !.r.supplies = Max({0, @ - 1})]
<1>1. /\ Shaped(t, SpanFields) /\ Shaped(t.r, RecruitFields)
      /\ t.tick = s.tick /\ t.vigour = s.vigour
      /\ Same(s.r, t.r, {"gold", "supplies", "stock"})
  BY DEF Same, Able, StateOK, RecruitOK, Shaped, SpanFields, RecruitFields
<1>2. Fed(s) = t \/ Fed(s) = s
  BY DEF Fed
<1> HIDE DEF t
<1>3. Able(t) /\ Kept(s, t) /\ t.r.hp = s.r.hp /\ t.r.maxHp = s.r.maxHp
  BY <1>1, PurseIs
<1> QED BY <1>2, <1>3 DEF Kept

LEMMA InsuredIs ==
  ASSUME NEW s, Able(s), NEW o
  PROVE  Able(Insured(s, o)) /\ Kept(s, Insured(s, o)) /\ Insured(s, o).r.hp = s.r.hp /\ Insured(s, o).r.maxHp = s.r.maxHp
<1> DEFINE t == [s EXCEPT !.r.gold = @ - Premium]
<1>1. /\ Shaped(t, SpanFields) /\ Shaped(t.r, RecruitFields)
      /\ t.tick = s.tick /\ t.vigour = s.vigour
      /\ Same(s.r, t.r, {"gold", "supplies", "stock"})
  BY DEF Same, Able, StateOK, RecruitOK, Shaped, SpanFields, RecruitFields
<1>2. Insured(s, o) = t \/ Insured(s, o) = s
  BY DEF Insured
<1> HIDE DEF t
<1>3. Able(t) /\ Kept(s, t) /\ t.r.hp = s.r.hp /\ t.r.maxHp = s.r.maxHp
  BY <1>1, PurseIs
<1> QED BY <1>2, <1>3 DEF Kept

LEMMA FoundCoinIs ==
  ASSUME NEW s, Able(s), NEW coin
  PROVE  LET t == [s EXCEPT !.r.gold = @ + coin]
         IN  Able(t) /\ Kept(s, t) /\ t.r.hp = s.r.hp
<1> DEFINE t == [s EXCEPT !.r.gold = @ + coin]
<1>1. /\ Shaped(t, SpanFields) /\ Shaped(t.r, RecruitFields)
      /\ t.tick = s.tick /\ t.vigour = s.vigour
      /\ Same(s.r, t.r, {"gold", "supplies", "stock"})
  BY DEF Same, Able, StateOK, RecruitOK, Shaped, SpanFields, RecruitFields
<1> HIDE DEF t
<1>2. Able(t) /\ Kept(s, t) /\ t.r.hp = s.r.hp
  BY <1>1, PurseIs
<1> QED BY <1>2 DEF t

LEMMA HungryIs ==
  ASSUME NEW s, Able(s), NEW roll
  PROVE  LET t == Hungry(s, roll)
         IN  /\ Able(t) /\ Kept(s, t) /\ t.r.maxHp = s.r.maxHp
             /\ t.r.hp <= s.r.hp /\ t.r.hp >= s.r.hp - Bite(s.r.maxHp)
<1> DEFINE hp == s.r.hp - Bite(s.r.maxHp)
           t == [s EXCEPT !.r.hp = hp]
<1>1. Bite(s.r.maxHp) \in Nat \ {0} /\ s.r.hp \in Int /\ s.r.hp <= s.r.maxHp /\ s.r.maxHp \in Int
  BY AbleIs, SharesAre
<1>2. Hungry(s, roll) = IF s.r.supplies = 0 /\ roll.hunger THEN t ELSE s
  BY DEF Hungry
<1>3. hp \in Int /\ hp <= s.r.maxHp /\ hp <= s.r.hp
  BY <1>1
<1>4. t.r.maxHp = s.r.maxHp
  BY DEF Able, StateOK, RecruitOK, Shaped, SpanFields, RecruitFields
<1> HIDE DEF hp
<1>5. Able(t) /\ Kept(s, t) /\ t.r.hp = hp
  BY <1>3, HealthIs
<1> HIDE DEF t
<1>6. Kept(s, s)
  BY DEF Kept
<1> QED BY <1>1, <1>2, <1>3, <1>4, <1>5, <1>6 DEF hp

(* A blow is at least a point and at most its share of the maximum.        *)
LEMMA BlowIs ==
  ASSUME NEW s, Able(s), NEW roll \in Roll
  PROVE  /\ Blow(s.r, roll) \in Nat \ {0}
         /\ ~roll.grievous => Blow(s.r, roll) <= AtLeast1(Percent(s.r.maxHp, BlowPct))
<1> DEFINE cap == Percent(s.r.maxHp, IF roll.grievous THEN GrievousPct ELSE BlowPct)
<1>1. s.r.maxHp \in Int /\ GrievousPct \in Nat /\ BlowPct \in Nat
  BY AbleIs, Constants
<1>2. cap \in Int /\ Percent(s.r.maxHp, BlowPct) \in Int
  BY <1>1, PercentIs, Zenon
<1>3. ~roll.grievous => cap = Percent(s.r.maxHp, BlowPct)
  OBVIOUS
<1>4. Blow(s.r, roll) = AtLeast1(Min({roll.hit, cap}))
  BY DEF Blow
<1>5. roll.hit \in Int
  BY DEF Roll
<1> HIDE DEF cap, Percent
<1>6. Min({roll.hit, cap}) \in Int /\ Min({roll.hit, cap}) <= cap
  BY <1>2, <1>5, MinOf
<1> QED BY <1>2, <1>3, <1>4, <1>6, AtLeast1Is

LEMMA StruckIs ==
  ASSUME NEW s, Able(s), NEW roll \in Roll
  PROVE  LET t == Struck(s, roll)
         IN  Able(t) /\ Kept(s, t) /\ t.r.hp = s.r.hp - Blow(s.r, roll)
<1> DEFINE hp == s.r.hp - Blow(s.r, roll)
           t == [s EXCEPT !.r.hp = hp, !.r.xp = @ + roll.xp]
<1>1. hp \in Int /\ hp <= s.r.maxHp
  BY AbleIs, BlowIs
<1>2. Struck(s, roll) = t
  BY DEF Struck
<1> HIDE DEF hp
<1>3. /\ Shaped(t, SpanFields) /\ Shaped(t.r, RecruitFields)
      /\ t.tick = s.tick /\ t.vigour = s.vigour /\ Same(s.r, t.r, {"hp", "xp"}) /\ t.r.hp = hp
      /\ t.r.xp = s.r.xp + roll.xp
  BY DEF Same, Able, StateOK, RecruitOK, Shaped, SpanFields, RecruitFields
<1> HIDE DEF t
<1>4. /\ t.r.depth = s.r.depth /\ t.r.permit = s.r.permit
      /\ t.r.applied = s.r.applied /\ Same(s.r, t.r, Volatile)
  BY <1>3 DEF Same, RecruitFields, Volatile
<1>5. t.r.xp \in Int
  BY <1>3, AbleIs DEF Roll
<1>6. Able(t) /\ Kept(s, t)
  BY <1>1, <1>3, <1>4, <1>5, AbleIs, StaysAble
<1> QED BY <1>2, <1>3, <1>6 DEF hp

LEMMA FoundIs ==
  ASSUME NEW s, Able(s), s.r.hp >= 1, NEW roll \in Roll, NEW o
  PROVE  Able(Found(s, roll, o)) /\ Kept(s, Found(s, roll, o)) /\ Found(s, roll, o).r.hp >= 1
<1>1. CASE roll.file # 0
  <2> DEFINE t == [s EXCEPT !.r.clauses = @ + roll.file]
  <2>1. /\ Shaped(t, SpanFields) /\ Shaped(t.r, RecruitFields)
        /\ t.tick = s.tick /\ t.vigour = s.vigour /\ Same(s.r, t.r, {"clauses"})
        /\ t.r.clauses = s.r.clauses + roll.file
    BY DEF Same, Able, StateOK, RecruitOK, Shaped, SpanFields, RecruitFields
  <2>2. Found(s, roll, o) = Carried(t)
    BY <1>1 DEF Found
  <2> HIDE DEF t
  <2>3. t.r.clauses \in Int
    BY <2>1, AbleIs DEF Roll
  <2> QED BY <2>1, <2>2, <2>3, RefiledIs
<1>2. CASE roll.file = 0 /\ roll.value > 0
  <2> DEFINE t == [s EXCEPT !.r = Stowed(@, roll.item, roll.value, o)]
  <2>1. /\ Shaped(t, SpanFields) /\ Shaped(t.r, RecruitFields)
        /\ t.tick = s.tick /\ t.vigour = s.vigour
        /\ Same(s.r, t.r, {"gold", "supplies", "stock"})
    BY DEF Stowed, Same, Able, StateOK, RecruitOK, Shaped, SpanFields, RecruitFields
  <2>2. Found(s, roll, o) = t
    BY <1>2 DEF Found
  <2> HIDE DEF t
  <2>3. Able(t) /\ Kept(s, t) /\ t.r.hp = s.r.hp
    BY <2>1, PurseIs
  <2> QED BY <2>2, <2>3
<1>3. CASE roll.file = 0 /\ ~(roll.value > 0)
  BY <1>3 DEF Found, Kept
<1> QED BY <1>1, <1>2, <1>3

(* The least of a set of numbers, the first step at which something fails. *)
LEMMA LeastExists == \A T \in SUBSET Nat : T # {} => \E x \in T : \A y \in T : x <= y
<1> SUFFICES ASSUME NEW T \in SUBSET Nat, T # {} PROVE \E x \in T : \A y \in T : x <= y
  OBVIOUS
<1> DEFINE intervals == {0..n : n \in T}
<1>1. intervals \subseteq FiniteSubsetsOf(Nat) /\ intervals # {}
  <2> SUFFICES ASSUME NEW n \in T PROVE 0..n \in FiniteSubsetsOf(Nat)
    OBVIOUS
  <2>1. IsFiniteSet(0..n)
    BY FS_Interval
  <2>2. 0..n \subseteq Nat
    OBVIOUS
  <2> QED BY <2>1, <2>2 DEF FiniteSubsetsOf
<1>2. \E U \in intervals : \A V \in intervals : <<V, U>> \notin StrictSubsetOrdering(Nat)
  <2> HIDE DEF intervals
  <2> QED BY <1>1, FS_StrictSubsetOrderingWellFounded, WFMin
<1>3. PICK m \in T : \A y \in T : <<0..y, 0..m>> \notin StrictSubsetOrdering(Nat)
  BY <1>2
<1>4. ASSUME NEW y \in T, y < m PROVE FALSE
  <2>1. 0..y \subseteq 0..m /\ m \in 0..m /\ m \notin 0..y
    BY <1>4
  <2>2. 0..y \subseteq Nat /\ 0..m \subseteq Nat
    OBVIOUS
  <2>3. <<0..y, 0..m>> \in StrictSubsetOrdering(Nat)
    BY <2>1, <2>2 DEF StrictSubsetOrdering
  <2> QED BY <1>3, <2>3
<1> QED BY <1>4

(* The promotions, one after another.                                      *)
Promotion(p) ==
  IF p.level < GradeCap /\ p.xp >= GradeCost(p.level)
  THEN [level |-> p.level + 1, xp |-> p.xp - GradeCost(p.level), standing |-> p.standing + 2]
  ELSE p

Grades(x, start, n) ==
  x = [i \in 0..n |-> IF i = 0 THEN start ELSE Promotion(x[i - 1])]

LEMMA GradesExist ==
  ASSUME NEW start, NEW n \in Nat
  PROVE  \E x : Grades(x, start, n)
<1> DEFINE Reached(k) == \E x : Grades(x, start, k)
           Lost == {k \in Nat : ~Reached(k)}
<1>1. Reached(0)
  <2> DEFINE x == [i \in 0..0 |-> start]
  <2>1. x = [i \in 0..0 |-> IF i = 0 THEN start ELSE Promotion(x[i - 1])]
    OBVIOUS
  <2>2. Grades(x, start, 0)
    BY <2>1 DEF Grades
  <2> QED BY <2>2
<1>2. ASSUME NEW k \in Nat, Reached(k) PROVE Reached(k + 1)
  <2>1. PICK x : Grades(x, start, k)
    BY <1>2
  <2> DEFINE y == [i \in 0..(k + 1) |-> IF i <= k THEN x[i] ELSE Promotion(x[k])]
  <2>2. \A i \in 0..(k + 1) : y[i] = IF i = 0 THEN start ELSE Promotion(y[i - 1])
    <3> SUFFICES ASSUME NEW i \in 0..(k + 1)
                 PROVE  y[i] = IF i = 0 THEN start ELSE Promotion(y[i - 1])
      OBVIOUS
    <3>1. CASE i <= k
      <4>1. i \in 0..k /\ y[i] = x[i]
        BY <3>1
      <4>2. x[i] = IF i = 0 THEN start ELSE Promotion(x[i - 1])
        BY <2>1, <4>1 DEF Grades
      <4>3. i # 0 => y[i - 1] = x[i - 1]
        BY <4>1
      <4> HIDE DEF y
      <4> QED BY <4>1, <4>2, <4>3
    <3>2. CASE i = k + 1
      <4>1. y[i] = Promotion(x[k]) /\ y[i - 1] = x[k] /\ i # 0
        BY <3>2
      <4> QED BY <3>2, <4>1
    <3> QED BY <3>1, <3>2
  <2>3. y = [i \in 0..(k + 1) |-> y[i]]
    OBVIOUS
  <2> HIDE DEF y
  <2>4. y = [i \in 0..(k + 1) |-> IF i = 0 THEN start ELSE Promotion(y[i - 1])]
    BY <2>2, <2>3
  <2> QED BY <2>4 DEF Grades
<1> HIDE DEF Reached
<1>3. ASSUME Lost # {} PROVE FALSE
  <2>1. PICK k \in Lost : \A j \in Lost : k <= j
    BY <1>3, LeastExists
  <2>2. k \in Nat /\ ~Reached(k) /\ k # 0
    BY <1>1, <2>1
  <2>3. k - 1 \in Nat /\ k - 1 \notin Lost /\ (k - 1) + 1 = k
    BY <2>1, <2>2
  <2>4. Reached(k - 1)
    BY <2>3
  <2> QED BY <1>2, <2>2, <2>3, <2>4
<1>4. Reached(n)
  BY <1>3
<1> QED BY <1>4 DEF Reached

Grading(level) == {p \in [level: Nat \ {0}, xp: Int, standing: Int] : p.level >= level}

LEMMA PromotionIs ==
  ASSUME NEW level \in Nat \ {0}, NEW p \in Grading(level)
  PROVE  Promotion(p) \in Grading(level)
<1> DEFINE cost == GradeCost(p.level)
<1>1. p.level \in Nat \ {0} /\ p.xp \in Int /\ p.standing \in Int /\ p.level >= level
  BY DEF Grading
<1>2. cost \in Int
  <2> DEFINE once == XpPerGrade * p.level
  <2>1. once \in Int
    BY <1>1, Constants, Products
  <2>2. cost = once * p.level
    BY DEF GradeCost
  <2> HIDE DEF once
  <2> QED BY <1>1, <2>1, <2>2, Products
<1>3. Promotion(p) = p \/ Promotion(p) = [level |-> p.level + 1, xp |-> p.xp - cost, standing |-> p.standing + 2]
  BY DEF Promotion
<1> HIDE DEF cost
<1>4. [level |-> p.level + 1, xp |-> p.xp - cost, standing |-> p.standing + 2] \in Grading(level)
  BY <1>1, <1>2 DEF Grading
<1> QED BY <1>3, <1>4

LEMMA GradedIs ==
  ASSUME NEW level \in Nat \ {0}, NEW xp \in Int, NEW standing \in Int
  PROVE  Graded(level, xp, standing) \in Grading(level)
<1> DEFINE start == [level |-> level, xp |-> xp, standing |-> standing]
           n == MaxPromotions
           x == CHOOSE x : Grades(x, start, n)
<1>1. Graded(level, xp, standing) = x[n]
  BY DEF Graded, Grades, Promotion
<1>2. n \in Nat
  BY Constants
<1> HIDE DEF n
<1>3. Grades(x, start, n)
  BY <1>2, GradesExist
<1> HIDE DEF x
<1>4. x[0] = start
  BY <1>2, <1>3 DEF Grades
<1>5. start \in Grading(level)
  BY DEF Grading
<1>6. ASSUME NEW k \in 1..n PROVE x[k] = Promotion(x[k - 1])
  BY <1>2, <1>3 DEF Grades
<1> DEFINE Broken == {k \in 0..n : x[k] \notin Grading(level)}
<1>7. ASSUME Broken # {} PROVE FALSE
  <2>1. Broken \in SUBSET Nat
    OBVIOUS
  <2>2. PICK k \in Broken : \A j \in Broken : k <= j
    BY <1>7, <2>1, LeastExists
  <2>3. k \in 1..n /\ x[k] \notin Grading(level)
    BY <1>4, <1>5, <2>2
  <2>4. k - 1 \in 0..n /\ k - 1 \notin Broken
    BY <1>2, <2>2, <2>3
  <2>5. x[k - 1] \in Grading(level)
    BY <2>4
  <2>6. Promotion(x[k - 1]) \in Grading(level)
    BY <2>5, PromotionIs
  <2> QED BY <1>6, <2>3, <2>6
<1> QED BY <1>1, <1>2, <1>7

(* Promoted or not, a recruit on its feet stays on them, no lower in grade. *)
LEMMA PromotedIs ==
  ASSUME NEW s, Able(s), s.r.hp >= 1
  PROVE  LET t == Promoted(s)
         IN  /\ Able(t) /\ t.r.hp >= 1 /\ t.tick = s.tick
             /\ t.r.level >= s.r.level /\ t.r.depth = s.r.depth /\ t.r.permit = s.r.permit
             /\ t.r.applied = s.r.applied /\ t.r.expedited = s.r.expedited
             /\ t.r.born = s.r.born /\ t.r.last = s.r.last
<1> DEFINE g == Graded(s.r.level, s.r.xp, s.r.standing)
           hp == HpAt(g.level)
           r == [s.r EXCEPT !.level = g.level, !.xp = g.xp, !.standing = g.standing,
                            !.maxHp = hp, !.hp = hp]
           t == [s EXCEPT !.r = r]
<1>1. s.r.level \in Nat \ {0} /\ s.r.xp \in Int /\ s.r.standing \in Int
  BY AbleIs DEF Able, StateOK, RecruitOK
<1>2. g \in Grading(s.r.level)
  BY <1>1, GradedIs
<1>3. Promoted(s) = s \/ Promoted(s) = Carried(t)
  BY DEF Promoted, LevelledUp
<1> HIDE DEF g
<1>4. g.level \in Nat \ {0} /\ g.level >= s.r.level /\ g.xp \in Int /\ g.standing \in Int
  BY <1>2 DEF Grading
<1>5. hp \in Nat \ {0}
  BY <1>4, HpAtIs
<1> HIDE DEF hp
<1>6. /\ Shaped(t, SpanFields) /\ Shaped(t.r, RecruitFields)
      /\ t.tick = s.tick /\ t.vigour = s.vigour
      /\ Same(s.r, t.r, {"level", "xp", "standing", "maxHp", "hp"})
      /\ t.r.level = g.level /\ t.r.xp = g.xp /\ t.r.standing = g.standing /\ t.r.maxHp = hp /\ t.r.hp = hp
  BY DEF Same, Able, StateOK, RecruitOK, Shaped, SpanFields, RecruitFields
<1> HIDE DEF t
<1>7. /\ t.r.alive = s.r.alive /\ t.r.depth = s.r.depth /\ t.r.permit = s.r.permit
      /\ t.r.applied = s.r.applied /\ t.r.expedited = s.r.expedited /\ t.r.clauses = s.r.clauses
      /\ t.r.born = s.r.born /\ t.r.last = s.r.last
  BY <1>6 DEF Same, RecruitFields
<1>8. t.r.level >= StartingGrade
  BY <1>1, <1>4, <1>6, Constants DEF Able, StateOK, RecruitOK
<1>9. StateOK(t) /\ t.r.alive
  BY <1>4, <1>5, <1>6, <1>7, <1>8 DEF Able, StateOK, RecruitOK
<1>10. Able(Carried(t)) /\ Kept(t, Carried(t)) /\ Carried(t).r.hp >= 1
  BY <1>5, <1>6, <1>9, CarriedIs
<1> QED BY <1>1, <1>3, <1>4, <1>6, <1>7, <1>10 DEF Kept

LEMMA DeadIs ==
  ASSUME NEW s, Able(s), s.r.depth > 0, s.r.born < s.tick, NEW o
  PROVE  LET t == Dead(s, o)
         IN  /\ Sound(t) /\ ~t.r.alive /\ t.tick = s.tick
             /\ t.r.level = s.r.level /\ t.r.depth = s.r.depth /\ t.r.permit = s.r.permit
             /\ t.r.applied = s.r.applied /\ t.r.expedited = s.r.expedited /\ t.r.born = s.r.born
<1> DEFINE t == Dead(s, o)
<1>1. /\ Shaped(t, SpanFields) /\ Shaped(t.r, RecruitFields)
      /\ t.tick = s.tick /\ t.vigour = s.vigour /\ Same(s.r, t.r, {"hp", "alive", "last", "award"})
      /\ t.r.hp = 0 /\ t.r.alive = FALSE /\ t.r.last = s.tick
  BY DEF Dead, Same, Able, StateOK, RecruitOK, Shaped, SpanFields, RecruitFields
<1> HIDE DEF t
<1>2. /\ t.r.level = s.r.level /\ t.r.xp = s.r.xp /\ t.r.standing = s.r.standing
      /\ t.r.maxHp = s.r.maxHp /\ t.r.depth = s.r.depth /\ t.r.permit = s.r.permit
      /\ t.r.applied = s.r.applied /\ t.r.expedited = s.r.expedited
      /\ t.r.clauses = s.r.clauses /\ t.r.born = s.r.born
  BY <1>1 DEF Same, RecruitFields
<1>3. RecruitOK(s.r) /\ s.tick \in Int /\ s.vigour \in Int
  BY DEF Able, StateOK
<1>4. RecruitOK(t.r)
  <2>1. t.r.alive \in BOOLEAN
    BY <1>1, Zenon
  <2>2. t.r.hp \in Int /\ t.r.last \in Int
    BY <1>1, <1>3
  <2> QED BY <1>1, <1>2, <1>3, <2>1, <2>2 DEF RecruitOK
<1>5. Sound(t)
  BY <1>1, <1>2, <1>3, <1>4 DEF Sound, StateOK
<1> QED BY <1>1, <1>2, <1>5 DEF t

(* What the rest of a minute may do, the files and permits once settled.   *)
Worked(s, t, o) ==
  /\ Sound(t) /\ t.tick = s.tick
  /\ t.r.level >= s.r.level /\ t.r.permit = s.r.permit
  /\ t.r.expedited = s.r.expedited /\ t.r.born = s.r.born
  /\ t.r.alive => t.r.last = s.r.last
  /\ t.r.depth > s.r.depth => t.r.depth <= Authorised(t.r, o)
  /\ t.r.applied = s.r.applied \/ (s.r.applied = NoTick /\ t.r.applied = s.tick)

(* Who goes on is fit for it: hunger leaves them on their feet, and under  *)
(* an order that keeps back what hunger and a blow may take, only a        *)
(* grievous blow is the end of them.                                       *)
LEMMA DelvedIs ==
  ASSUME NEW s, Able(s), NEW roll \in Roll, NEW o \in Orders,
         ~Retreats(s, o), ~Rests(s), s.r.born < s.tick
  PROVE  LET t == Delved(s, roll, o)
         IN  /\ Worked(s, t, o)
             /\ ~t.r.alive /\ o.retreat >= BlowPct + HungerPct => roll.grievous
<1> DEFINE a == Applied(s, o)
           d == Descended(a, o)
           f == Fed(d)
           h == Hungry(f, roll)
           there == Insured(h, o)
           after == Struck(there, roll)
           coin == [there EXCEPT !.r.gold = @ + roll.coin]
           dead == Dead(after, o)
           found == Found(after, roll, o)
           up == Promoted(found)
           m == s.r.maxHp
           b == AtLeast1(Percent(m, BlowPct))
           blow == Blow(there.r, roll)
<1>1. Delved(s, roll, o) =
        IF roll.hit = 0 THEN coin ELSE IF Killed(after) THEN dead ELSE up
  BY DEF Delved
<1>2. /\ Able(a) /\ a.r.hp = s.r.hp /\ a.r.maxHp = m /\ a.tick = s.tick
      /\ a.r.level = s.r.level /\ a.r.depth = s.r.depth /\ a.r.permit = s.r.permit
      /\ a.r.expedited = s.r.expedited /\ a.r.born = s.r.born /\ a.r.last = s.r.last
      /\ a.r.applied = s.r.applied \/ (s.r.applied = NoTick /\ a.r.applied = s.tick)
  BY AppliedIs
<1> HIDE DEF a
<1>3. /\ Able(d) /\ d.r.hp = a.r.hp /\ d.r.maxHp = a.r.maxHp /\ d.tick = a.tick
      /\ d.r.level = a.r.level /\ d.r.permit = a.r.permit /\ d.r.applied = a.r.applied
      /\ d.r.expedited = a.r.expedited /\ d.r.born = a.r.born /\ d.r.last = a.r.last
      /\ d.r.depth > 0
      /\ d.r.depth = a.r.depth \/ d.r.depth <= Authorised(a.r, o)
  BY <1>2, DescendedIs
<1> HIDE DEF d
<1>4. Able(f) /\ Kept(d, f) /\ f.r.hp = d.r.hp /\ f.r.maxHp = d.r.maxHp
  BY <1>3, FedIs
<1> HIDE DEF f
<1>5. /\ Able(h) /\ Kept(f, h) /\ h.r.maxHp = f.r.maxHp
      /\ h.r.hp <= f.r.hp /\ h.r.hp >= f.r.hp - Bite(f.r.maxHp)
  BY <1>4, HungryIs
<1> HIDE DEF h
<1>6. Able(there) /\ Kept(h, there) /\ there.r.hp = h.r.hp /\ there.r.maxHp = h.r.maxHp
  BY <1>5, InsuredIs
<1> HIDE DEF there
<1>7. Able(after) /\ Kept(there, after) /\ after.r.hp = there.r.hp - blow
  BY <1>6, StruckIs
<1>8. there.r.hp >= s.r.hp - Bite(m) /\ there.r.maxHp = m
  BY <1>2, <1>3, <1>4, <1>5, <1>6
<1>9. /\ blow \in Nat \ {0} /\ (~roll.grievous => blow <= b)
      /\ there.r.hp \in Int /\ s.r.hp \in Int /\ s.r.hp <= m /\ m \in Nat \ {0} /\ s.r.depth \in Nat
  BY <1>6, <1>8, BlowIs, AbleIs
<1>10. /\ Bite(m) \in Nat \ {0} /\ b \in Nat \ {0} /\ Bite(m) <= Threshold(m, 10)
       /\ Bite(m) + b < m /\ Bite(m) + b <= Threshold(m, BlowPct + HungerPct)
  BY SharesAre
<1>11. s.r.depth > 0 => s.r.hp > Threshold(m, o.retreat)
  <2>1. s.r.hp \in Int /\ Threshold(m, o.retreat) \in Int
    <3>1. m \in Nat /\ o.retreat \in Nat /\ o.retreat <= o.retreat
      BY <1>9 DEF Orders
    <3> QED BY <1>9, <3>1, ThresholdIs
  <2> QED BY <2>1 DEF Retreats, RetreatHp
<1>12. s.r.depth = 0 => s.r.hp = m
  BY <1>9 DEF Rests
<1>13. /\ Threshold(m, 10) <= Threshold(m, o.retreat)
       /\ o.retreat >= BlowPct + HungerPct => Threshold(m, BlowPct + HungerPct) <= Threshold(m, o.retreat)
       /\ Threshold(m, 10) \in Int /\ Threshold(m, o.retreat) \in Int /\ Threshold(m, BlowPct + HungerPct) \in Int
  <2>1. m \in Nat /\ o.retreat \in Nat /\ 10 <= o.retreat /\ BlowPct + HungerPct \in Nat
    BY <1>9, Constants DEF Orders
  <2> QED BY <2>1, ThresholdIs
<1> HIDE DEF after, m, b, blow
<1>14. there.r.hp >= 1
  BY <1>8, <1>9, <1>10, <1>11, <1>12, <1>13
<1>15. ASSUME o.retreat >= BlowPct + HungerPct, ~roll.grievous
       PROVE  after.r.hp >= 1
  BY <1>7, <1>8, <1>9, <1>10, <1>11, <1>12, <1>13, <1>15
<1>16. /\ there.tick = s.tick /\ there.r.level = s.r.level /\ there.r.permit = s.r.permit
       /\ there.r.applied = a.r.applied /\ there.r.depth = d.r.depth
       /\ there.r.expedited = s.r.expedited /\ there.r.born = s.r.born /\ there.r.last = s.r.last
       /\ there.r.alive
  BY <1>2, <1>3, <1>4, <1>5, <1>6 DEF Kept, Able
<1>17. there.r.depth > s.r.depth => there.r.depth <= Authorised(a.r, o)
  BY <1>2, <1>3, <1>9, <1>16
<1>18. ASSUME NEW t, t.r.depth = there.r.depth, t.r.permit = s.r.permit,
              t.r.level \in Nat \ {0}, t.r.level >= s.r.level
       PROVE  t.r.depth > s.r.depth => t.r.depth <= Authorised(t.r, o)
  <2>1. a.r.permit \in Nat \ {0} /\ a.r.level \in Nat \ {0} /\ a.r.permit = t.r.permit /\ a.r.level <= t.r.level
    BY <1>2, <1>18, AbleIs
  <2>2. Authorised(a.r, o) \in Nat \ {0} /\ Authorised(t.r, o) \in Nat \ {0}
        /\ Authorised(a.r, o) <= Authorised(t.r, o)
    BY <1>18, <2>1, AuthorisedIs
  <2>3. t.r.depth \in Nat
    BY <1>6, <1>18, AbleIs
  <2> QED BY <1>17, <1>18, <2>2, <2>3
<1>19. CASE roll.hit = 0
  <2>1. Able(coin) /\ Kept(there, coin) /\ coin.r.hp = there.r.hp
    BY <1>6, FoundCoinIs
  <2>2. Delved(s, roll, o) = coin
    BY <1>1, <1>19
  <2> HIDE DEF coin
  <2>3. Sound(coin) /\ coin.r.alive
    BY <1>14, <2>1 DEF Sound, Able
  <2>4. coin.r.level = s.r.level /\ coin.r.level \in Nat \ {0} /\ coin.r.permit = s.r.permit
    BY <1>16, <2>1, AbleIs DEF Kept
  <2>5. coin.r.depth > s.r.depth => coin.r.depth <= Authorised(coin.r, o)
    BY <1>18, <2>1, <2>4 DEF Kept
  <2>6. Worked(s, coin, o)
    BY <1>2, <1>16, <2>1, <2>3, <2>4, <2>5 DEF Worked, Kept
  <2> QED BY <2>2, <2>3, <2>6
<1>20. CASE roll.hit # 0 /\ Killed(after)
  <2>1. after.r.depth > 0 /\ after.r.born < after.tick
    BY <1>3, <1>7, <1>16 DEF Kept
  <2>2. /\ Sound(dead) /\ ~dead.r.alive /\ dead.tick = after.tick
        /\ dead.r.level = after.r.level /\ dead.r.depth = after.r.depth /\ dead.r.permit = after.r.permit
        /\ dead.r.applied = after.r.applied /\ dead.r.expedited = after.r.expedited
        /\ dead.r.born = after.r.born
    BY <1>7, <2>1, DeadIs
  <2>3. Delved(s, roll, o) = dead
    BY <1>1, <1>20
  <2> HIDE DEF dead
  <2>4. dead.r.level = s.r.level /\ dead.r.level \in Nat \ {0} /\ dead.r.permit = s.r.permit
    BY <1>7, <1>16, <2>2, AbleIs DEF Kept
  <2>5. dead.r.depth > s.r.depth => dead.r.depth <= Authorised(dead.r, o)
    BY <1>7, <1>18, <2>2, <2>4 DEF Kept
  <2>6. Worked(s, dead, o)
    BY <1>2, <1>7, <1>16, <2>2, <2>4, <2>5 DEF Worked, Kept
  <2>7. o.retreat >= BlowPct + HungerPct => roll.grievous
    BY <1>7, <1>15, <1>20, AbleIs DEF Killed
  <2> QED BY <2>3, <2>6, <2>7
<1>21. CASE roll.hit # 0 /\ ~Killed(after)
  <2>1. after.r.hp >= 1
    BY <1>7, <1>21, AbleIs DEF Killed
  <2>2. Able(found) /\ Kept(after, found) /\ found.r.hp >= 1
    BY <1>7, <2>1, FoundIs
  <2> HIDE DEF found
  <2>3. /\ Able(up) /\ up.r.hp >= 1 /\ up.tick = found.tick
        /\ up.r.level >= found.r.level /\ up.r.depth = found.r.depth /\ up.r.permit = found.r.permit
        /\ up.r.applied = found.r.applied /\ up.r.expedited = found.r.expedited
        /\ up.r.born = found.r.born /\ up.r.last = found.r.last
    BY <2>2, PromotedIs
  <2>4. Delved(s, roll, o) = up
    BY <1>1, <1>21
  <2> HIDE DEF up
  <2>5. Sound(up) /\ up.r.alive
    BY <2>3 DEF Sound, Able
  <2>6. up.r.level >= s.r.level /\ up.r.level \in Nat \ {0} /\ up.r.permit = s.r.permit
    BY <1>7, <1>16, <2>2, <2>3, AbleIs DEF Kept
  <2>7. up.r.depth > s.r.depth => up.r.depth <= Authorised(up.r, o)
    BY <1>7, <1>18, <2>2, <2>3, <2>6 DEF Kept
  <2>8. Worked(s, up, o)
    BY <1>2, <1>7, <1>16, <2>2, <2>3, <2>5, <2>6, <2>7 DEF Worked, Kept
  <2> QED BY <2>4, <2>5, <2>8
<1> QED BY <1>19, <1>20, <1>21

(* What a minute may do to a recruit.                                      *)
Passed(s, t, o) ==
  /\ Sound(t) /\ t.tick = s.tick + 1
  /\ t.r.level >= s.r.level /\ t.r.permit >= s.r.permit
  /\ t.r.expedited = s.r.expedited /\ t.r.born = s.r.born
  /\ t.r.alive => t.r.last = s.r.last
  /\ t.r.depth > s.r.depth => t.r.depth <= Authorised(t.r, o)
  /\ t.r.permit > s.r.permit => s.r.applied # NoTick /\ t.tick - s.r.applied >= Processing
  /\ t.r.applied \in {NoTick, s.r.applied, t.tick}
  /\ t.r.applied # NoTick => t.tick - t.r.applied < Processing

LEMMA MinuteIs ==
  ASSUME NEW s, Sound(s), s.r.alive, s.r.born <= s.tick, NEW roll \in Roll, NEW o \in Orders
  PROVE  LET t == Minute(s, roll, o)
         IN  /\ Passed(s, t, o)
             /\ ~t.r.alive /\ o.retreat >= BlowPct + HungerPct => roll.grievous
<1> DEFINE a == [s EXCEPT !.tick = @ + 1]
           b == Ruled(a, roll)
           c == Paid(b)
           d == Approved(c)
           t == Minute(s, roll, o)
<1>1. t = IF Retreats(d, o) THEN PulledBack(d)
          ELSE IF Rests(d) THEN Rested(d, o) ELSE Delved(d, roll, o)
  BY DEF Minute
<1>2. Able(s) /\ s.r.hp >= 1
  BY DEF Sound
<1>3. Able(a) /\ a.tick = s.tick + 1 /\ a.r = s.r
  BY <1>2, TickIs
<1> HIDE DEF a
<1>4. Able(b) /\ Kept(a, b) /\ b.r.hp >= 1
  BY <1>2, <1>3, RuledIs
<1> HIDE DEF b
<1>5. Able(c) /\ Kept(b, c) /\ c.r.hp = b.r.hp
  BY <1>4, PaidIs
<1> HIDE DEF c
<1>6. /\ Able(d) /\ d.r.hp = c.r.hp /\ d.tick = c.tick
      /\ d.r.level = c.r.level /\ d.r.depth = c.r.depth /\ d.r.expedited = c.r.expedited
      /\ d.r.born = c.r.born /\ d.r.last = c.r.last
      /\ IF Due(c) THEN d.r.permit = c.r.permit + 1 /\ d.r.applied = NoTick
         ELSE d.r.permit = c.r.permit /\ d.r.applied = c.r.applied
  BY <1>5, ApprovedIs
<1> HIDE DEF d
<1>7. /\ s.tick \in Int /\ s.r.level \in Nat \ {0} /\ s.r.permit \in Nat \ {0} /\ s.r.depth \in Nat
      /\ s.r.applied \in Ticks
  BY <1>2, AbleIs
<1>8. /\ d.r.hp >= 1 /\ d.tick = s.tick + 1
      /\ d.r.level = s.r.level /\ d.r.depth = s.r.depth /\ d.r.expedited = s.r.expedited
      /\ d.r.born = s.r.born /\ d.r.last = s.r.last /\ c.r.permit = s.r.permit /\ c.r.applied = s.r.applied
      /\ c.tick = s.tick + 1
  BY <1>3, <1>4, <1>5, <1>6 DEF Kept
<1>9. /\ d.r.permit \in Nat \ {0} /\ d.r.permit >= s.r.permit
      /\ d.r.permit > s.r.permit => s.r.applied # NoTick /\ d.tick - s.r.applied >= Processing
  BY <1>6, <1>7, <1>8 DEF Due
<1>10. d.r.applied = NoTick \/ d.r.applied = s.r.applied
  BY <1>6, <1>8
<1>11. d.r.applied # NoTick => d.r.applied \in Int /\ d.tick - d.r.applied < Processing
  BY <1>6, <1>7, <1>8, Constants DEF Due, Ticks
<1>12. ASSUME NEW q, Able(q), q.r.hp >= d.r.hp, q.tick = d.tick, q.r.level = d.r.level,
              q.r.depth <= d.r.depth, q.r.permit = d.r.permit, q.r.applied = d.r.applied,
              q.r.expedited = d.r.expedited, q.r.born = d.r.born, q.r.last = d.r.last
       PROVE  Passed(s, q, o) /\ q.r.alive
  <2>1. q.r.hp \in Int /\ d.r.hp \in Int /\ q.r.depth \in Nat /\ d.r.depth \in Nat
    BY <1>6, <1>12, AbleIs
  <2>2. q.r.alive /\ Sound(q)
    BY <1>8, <1>12, <2>1 DEF Sound, Able
  <2>3. ~(q.r.depth > s.r.depth)
    BY <1>8, <1>12, <2>1
  <2> QED BY <1>7, <1>8, <1>9, <1>10, <1>11, <1>12, <2>2, <2>3 DEF Passed
<1>13. CASE Retreats(d, o)
  <2> DEFINE q == PulledBack(d)
  <2>1. /\ Able(q) /\ q.r.hp >= d.r.hp /\ q.tick = d.tick
        /\ q.r.level = d.r.level /\ q.r.depth = d.r.depth - 1 /\ q.r.permit = d.r.permit
        /\ q.r.applied = d.r.applied /\ q.r.expedited = d.r.expedited
        /\ q.r.born = d.r.born /\ q.r.last = d.r.last
    BY <1>6, <1>13, PulledBackIs DEF Retreats
  <2>2. t = q
    BY <1>1, <1>13
  <2> HIDE DEF q
  <2>3. q.r.depth <= d.r.depth
    BY <1>7, <1>8, <2>1
  <2>4. Passed(s, q, o) /\ q.r.alive
    BY <1>12, <2>1, <2>3
  <2> QED BY <2>2, <2>4
<1>14. CASE ~Retreats(d, o) /\ Rests(d)
  <2> DEFINE q == Rested(d, o)
  <2>1. Able(q) /\ Kept(d, q) /\ q.r.hp >= d.r.hp
    BY <1>6, RestedIs
  <2>2. t = q
    BY <1>1, <1>14
  <2> HIDE DEF q
  <2>3. q.r.depth <= d.r.depth
    BY <1>7, <1>8, <2>1 DEF Kept
  <2>4. Passed(s, q, o) /\ q.r.alive
    BY <1>12, <2>1, <2>3 DEF Kept
  <2> QED BY <2>2, <2>4
<1>15. CASE ~Retreats(d, o) /\ ~Rests(d)
  <2> DEFINE q == Delved(d, roll, o)
  <2>1. d.r.born < d.tick
    BY <1>2, <1>7, <1>8 DEF Able, StateOK, RecruitOK
  <2>2. Worked(d, q, o) /\ (~q.r.alive /\ o.retreat >= BlowPct + HungerPct => roll.grievous)
    BY <1>6, <1>15, <2>1, DelvedIs
  <2>3. t = q
    BY <1>1, <1>15
  <2> HIDE DEF q
  <2>4. /\ Sound(q) /\ q.tick = s.tick + 1 /\ q.r.level >= s.r.level /\ q.r.permit = d.r.permit
        /\ q.r.expedited = s.r.expedited /\ q.r.born = s.r.born /\ (q.r.alive => q.r.last = s.r.last)
        /\ q.r.depth > s.r.depth => q.r.depth <= Authorised(q.r, o)
        /\ q.r.applied = d.r.applied \/ (d.r.applied = NoTick /\ q.r.applied = d.tick)
    BY <1>8, <2>2 DEF Worked
  <2>5. q.r.applied \in {NoTick, s.r.applied, q.tick}
    BY <1>8, <1>10, <2>4
  <2>6. q.r.applied # NoTick => q.tick - q.r.applied < Processing
    BY <1>7, <1>8, <1>11, <2>4, Constants
  <2>7. Passed(s, q, o)
    BY <1>8, <1>9, <2>4, <2>5, <2>6 DEF Passed
  <2> QED BY <2>2, <2>3, <2>7
<1> QED BY <1>13, <1>14, <1>15

-----------------------------------------------------------------------------
(* What a span keeps for itself *)

(* The same but for the deepest floor of the span, the minute last saved   *)
(* and the award: what the rest of a minute does not read.                 *)
Alike(s, t) ==
  /\ Shaped(s, SpanFields) /\ Shaped(s.r, RecruitFields)
  /\ Shaped(t, SpanFields) /\ Shaped(t.r, RecruitFields)
  /\ t.tick = s.tick /\ t.vigour = s.vigour
  /\ Same(s.r, t.r, {"last", "award"})

LEMMA AlikeIs ==
  ASSUME NEW s, NEW t, Alike(s, t)
  PROVE  /\ t.r.alive = s.r.alive /\ t.r.level = s.r.level /\ t.r.xp = s.r.xp
         /\ t.r.standing = s.r.standing /\ t.r.hp = s.r.hp /\ t.r.maxHp = s.r.maxHp
         /\ t.r.depth = s.r.depth /\ t.r.permit = s.r.permit /\ t.r.applied = s.r.applied
         /\ t.r.expedited = s.r.expedited /\ t.r.gold = s.r.gold /\ t.r.supplies = s.r.supplies
         /\ t.r.stock = s.r.stock /\ t.r.clauses = s.r.clauses /\ t.r.born = s.r.born
BY DEF Alike, Same, RecruitFields

LEMMA AlikeWith ==
  ASSUME NEW s, NEW t, Alike(s, t), NEW p, NEW q, NEW but,
         Shaped(p, SpanFields), Shaped(p.r, RecruitFields), Same(s.r, p.r, but),
         Shaped(q, SpanFields), Shaped(q.r, RecruitFields), Same(t.r, q.r, but),
         q.tick = p.tick, q.vigour = p.vigour, \A x \in but : q.r[x] = p.r[x]
  PROVE  Alike(p, q)
<1>1. ASSUME NEW x \in RecruitFields \ {"last", "award"} PROVE q.r[x] = p.r[x]
  <2>1. t.r[x] = s.r[x]
    BY DEF Alike, Same
  <2>2. x \notin but => p.r[x] = s.r[x] /\ q.r[x] = t.r[x]
    BY DEF Same
  <2> QED BY <2>1, <2>2
<1> QED BY <1>1 DEF Alike, Same

LEMMA CarriedAlike ==
  ASSUME NEW s, NEW t, Alike(s, t)
  PROVE  Alike(Carried(s), Carried(t))
<1> DEFINE v == Vigour(s.r)
           m == AtLeast1(HpAt(s.r.level) + v)
           hp == Min({s.r.hp, m})
<1>1. Vigour(t.r) = v
  BY AlikeIs DEF Vigour
<1> DEFINE p == [s EXCEPT !.vigour = v, !.r = [s.r EXCEPT !.maxHp = m, !.hp = hp]]
           q == [t EXCEPT !.vigour = v, !.r = [t.r EXCEPT !.maxHp = m, !.hp = hp]]
<1>2. Carried(s) = p
  BY DEF Carried, Sync, Alike, Shaped, SpanFields
<1>3. Carried(t) = q
  BY <1>1, AlikeIs DEF Carried, Sync, Alike, Shaped, SpanFields
<1> HIDE DEF v, m, hp
<1>4. /\ Shaped(p, SpanFields) /\ Shaped(p.r, RecruitFields) /\ Same(s.r, p.r, {"maxHp", "hp"})
      /\ p.tick = s.tick /\ p.vigour = v /\ p.r.maxHp = m /\ p.r.hp = hp
  BY DEF Alike, Same, Shaped, SpanFields, RecruitFields
<1>5. /\ Shaped(q, SpanFields) /\ Shaped(q.r, RecruitFields) /\ Same(t.r, q.r, {"maxHp", "hp"})
      /\ q.tick = t.tick /\ q.vigour = v /\ q.r.maxHp = m /\ q.r.hp = hp
  BY DEF Alike, Same, Shaped, SpanFields, RecruitFields
<1> HIDE DEF p, q
<1>6. q.tick = p.tick /\ q.vigour = p.vigour /\ \A x \in {"maxHp", "hp"} : q.r[x] = p.r[x]
  BY <1>4, <1>5 DEF Alike
<1> QED BY <1>2, <1>3, <1>4, <1>5, <1>6, AlikeWith

LEMMA RuledAlike ==
  ASSUME NEW s, NEW t, Alike(s, t), NEW roll
  PROVE  Alike(Ruled(s, roll), Ruled(t, roll))
<1> DEFINE p == [s EXCEPT !.r.clauses = @ + roll.ruling]
           q == [t EXCEPT !.r.clauses = @ + roll.ruling]
<1>1. Alike(p, q)
  BY AlikeIs DEF Alike, Same, Shaped, SpanFields, RecruitFields
<1>2. Ruled(s, roll) = (IF roll.ruling = 0 THEN s ELSE Carried(p))
      /\ Ruled(t, roll) = (IF roll.ruling = 0 THEN t ELSE Carried(q))
  BY DEF Ruled
<1> HIDE DEF p, q
<1> QED BY <1>1, <1>2, CarriedAlike

LEMMA PaidAlike ==
  ASSUME NEW s, NEW t, Alike(s, t)
  PROVE  Alike(Paid(s), Paid(t))
BY AlikeIs DEF Paid, Alike, Same, Shaped, SpanFields, RecruitFields

LEMMA ApprovedAlike ==
  ASSUME NEW s, NEW t, Alike(s, t)
  PROVE  Alike(Approved(s), Approved(t))
<1> DEFINE p == [s EXCEPT !.r.permit = @ + 1, !.r.applied = NoTick]
           q == [t EXCEPT !.r.permit = @ + 1, !.r.applied = NoTick]
<1>1. Approved(s) = (IF Due(s) THEN p ELSE s) /\ Approved(t) = (IF Due(t) THEN q ELSE t)
  BY DEF Approved, Due
<1>2. Due(s) <=> Due(t)
  BY AlikeIs DEF Due, Alike
<1>3. /\ Shaped(p, SpanFields) /\ Shaped(p.r, RecruitFields) /\ Same(s.r, p.r, {"permit", "applied"})
      /\ p.tick = s.tick /\ p.vigour = s.vigour /\ p.r.permit = s.r.permit + 1 /\ p.r.applied = NoTick
  BY DEF Alike, Same, Shaped, SpanFields, RecruitFields
<1>4. /\ Shaped(q, SpanFields) /\ Shaped(q.r, RecruitFields) /\ Same(t.r, q.r, {"permit", "applied"})
      /\ q.tick = t.tick /\ q.vigour = t.vigour /\ q.r.permit = t.r.permit + 1 /\ q.r.applied = NoTick
  BY DEF Alike, Same, Shaped, SpanFields, RecruitFields
<1> HIDE DEF p, q
<1>5. q.tick = p.tick /\ q.vigour = p.vigour /\ \A x \in {"permit", "applied"} : q.r[x] = p.r[x]
  BY <1>3, <1>4, AlikeIs DEF Alike
<1>6. Alike(p, q)
  BY <1>3, <1>4, <1>5, AlikeWith
<1> QED BY <1>1, <1>2, <1>6

LEMMA HealedAlike ==
  ASSUME NEW s, NEW t, Alike(s, t), NEW pct
  PROVE  Alike(Healed(s, pct), Healed(t, pct))
<1> DEFINE hp == Min({s.r.maxHp, s.r.hp + Percent(s.r.maxHp, pct)})
<1> DEFINE p == [s EXCEPT !.r.hp = hp]
           q == [t EXCEPT !.r.hp = hp]
<1>1. Healed(s, pct) = p /\ Healed(t, pct) = q
  BY AlikeIs DEF Healed
<1> HIDE DEF hp
<1>2. /\ Shaped(p, SpanFields) /\ Shaped(p.r, RecruitFields) /\ Same(s.r, p.r, {"hp"})
      /\ p.tick = s.tick /\ p.vigour = s.vigour /\ p.r.hp = hp
  BY DEF Alike, Same, Shaped, SpanFields, RecruitFields
<1>3. /\ Shaped(q, SpanFields) /\ Shaped(q.r, RecruitFields) /\ Same(t.r, q.r, {"hp"})
      /\ q.tick = t.tick /\ q.vigour = t.vigour /\ q.r.hp = hp
  BY DEF Alike, Same, Shaped, SpanFields, RecruitFields
<1> HIDE DEF p, q
<1>4. q.tick = p.tick /\ q.vigour = p.vigour /\ \A x \in {"hp"} : q.r[x] = p.r[x]
  BY <1>2, <1>3, AlikeIs DEF Alike
<1> QED BY <1>1, <1>2, <1>3, <1>4, AlikeWith

LEMMA PulledBackAlike ==
  ASSUME NEW s, NEW t, Alike(s, t)
  PROVE  Alike(PulledBack(s), PulledBack(t))
<1> DEFINE p == [s EXCEPT !.r.depth = @ - 1]
           q == [t EXCEPT !.r.depth = @ - 1]
<1>1. Alike(p, q)
  BY AlikeIs DEF Alike, Same, Shaped, SpanFields, RecruitFields
<1>2. PulledBack(s) = Healed(p, PullBackPct) /\ PulledBack(t) = Healed(q, PullBackPct)
  BY DEF PulledBack
<1> HIDE DEF p, q
<1> QED BY <1>1, <1>2, HealedAlike

LEMMA RestedAlike ==
  ASSUME NEW s, NEW t, Alike(s, t), NEW o
  PROVE  Alike(Rested(s, o), Rested(t, o))
<1> DEFINE h == Healed(s, RestPct)
           k == Healed(t, RestPct)
           p == [h EXCEPT !.r = Resupplied(@)]
           q == [k EXCEPT !.r = Resupplied(@)]
           low == o.policy = "resupply" /\ s.r.supplies < LowSupplies
<1>1. Alike(h, k)
  BY HealedAlike
<1>2. Rested(s, o) = (IF low THEN p ELSE h) /\ Rested(t, o) = (IF low THEN q ELSE k)
  BY AlikeIs DEF Rested
<1> HIDE DEF h, k
<1> DEFINE wanted == FullSupplies - h.r.supplies
           sold   == SoldFor(h.r.gold, h.r.stock, wanted * SupplyPrice)
           bought == Min({sold.gold \div SupplyPrice, wanted})
           supplies == h.r.supplies + bought
           gold == sold.gold - bought * SupplyPrice
           stock == sold.stock
<1>3. Resupplied(h.r) = [h.r EXCEPT !.supplies = supplies, !.gold = gold, !.stock = stock]
  BY DEF Resupplied
<1>4. Resupplied(k.r) = [k.r EXCEPT !.supplies = supplies, !.gold = gold, !.stock = stock]
  <2>1. k.r.supplies = h.r.supplies /\ k.r.gold = h.r.gold /\ k.r.stock = h.r.stock
    BY <1>1, AlikeIs
  <2> QED BY <2>1 DEF Resupplied
<1> HIDE DEF supplies, gold, stock, sold, bought
<1>5. /\ Shaped(p, SpanFields) /\ Shaped(p.r, RecruitFields) /\ Same(h.r, p.r, {"supplies", "gold", "stock"})
      /\ p.tick = h.tick /\ p.vigour = h.vigour
      /\ p.r.supplies = supplies /\ p.r.gold = gold /\ p.r.stock = stock
  BY <1>1, <1>3 DEF Alike, Same, Shaped, SpanFields, RecruitFields
<1>6. /\ Shaped(q, SpanFields) /\ Shaped(q.r, RecruitFields) /\ Same(k.r, q.r, {"supplies", "gold", "stock"})
      /\ q.tick = k.tick /\ q.vigour = k.vigour
      /\ q.r.supplies = supplies /\ q.r.gold = gold /\ q.r.stock = stock
  BY <1>1, <1>4 DEF Alike, Same, Shaped, SpanFields, RecruitFields
<1> HIDE DEF p, q
<1>7. q.tick = p.tick /\ q.vigour = p.vigour /\ \A x \in {"supplies", "gold", "stock"} : q.r[x] = p.r[x]
  BY <1>1, <1>5, <1>6 DEF Alike
<1>8. Alike(p, q)
  BY <1>1, <1>5, <1>6, <1>7, AlikeWith
<1> QED BY <1>1, <1>2, <1>8

LEMMA AppliedAlike ==
  ASSUME NEW s, NEW t, Alike(s, t), NEW o
  PROVE  Alike(Applied(s, o), Applied(t, o))
<1> DEFINE p == [s EXCEPT !.r.applied = s.tick]
           q == [t EXCEPT !.r.applied = t.tick]
           so(x) == Stalled(x, o) /\ x.r.applied = NoTick
<1>1. Alike(p, q)
  BY AlikeIs DEF Alike, Same, Shaped, SpanFields, RecruitFields
<1>2. Applied(s, o) = (IF so(s) THEN p ELSE s) /\ Applied(t, o) = (IF so(t) THEN q ELSE t)
  BY DEF Applied
<1>3. so(s) <=> so(t)
  BY AlikeIs DEF Stalled, PermitLimit
<1> HIDE DEF p, q, so
<1> QED BY <1>1, <1>2, <1>3

LEMMA DescendedAlike ==
  ASSUME NEW s, NEW t, Alike(s, t), NEW o
  PROVE  Alike(Descended(s, o), Descended(t, o))
<1> DEFINE p == [s EXCEPT !.r.depth = @ + 1, !.deepest = Max({@, s.r.depth + 1})]
           q == [t EXCEPT !.r.depth = @ + 1, !.deepest = Max({@, t.r.depth + 1})]
           so(x) == ~Stalled(x, o) /\ x.r.depth < Authorised(x.r, o)
<1>2. Descended(s, o) = (IF so(s) THEN p ELSE s) /\ Descended(t, o) = (IF so(t) THEN q ELSE t)
  BY DEF Descended
<1>3. so(s) <=> so(t)
  BY AlikeIs DEF Stalled, PermitLimit, Authorised
<1> HIDE DEF so
<1>4. /\ Shaped(p, SpanFields) /\ Shaped(p.r, RecruitFields) /\ Same(s.r, p.r, {"depth"})
      /\ p.tick = s.tick /\ p.vigour = s.vigour /\ p.r.depth = s.r.depth + 1
  BY DEF Alike, Same, Shaped, SpanFields, RecruitFields
<1>5. /\ Shaped(q, SpanFields) /\ Shaped(q.r, RecruitFields) /\ Same(t.r, q.r, {"depth"})
      /\ q.tick = t.tick /\ q.vigour = t.vigour /\ q.r.depth = t.r.depth + 1
  BY DEF Alike, Same, Shaped, SpanFields, RecruitFields
<1> HIDE DEF p, q
<1>6. q.tick = p.tick /\ q.vigour = p.vigour /\ \A x \in {"depth"} : q.r[x] = p.r[x]
  BY <1>4, <1>5, AlikeIs DEF Alike
<1>7. Alike(p, q)
  BY <1>4, <1>5, <1>6, AlikeWith
<1> QED BY <1>2, <1>3, <1>7

LEMMA FedAlike ==
  ASSUME NEW s, NEW t, Alike(s, t)
  PROVE  Alike(Fed(s), Fed(t))
<1> DEFINE p == [s EXCEPT !.r.supplies = Max({0, @ - 1})]
           q == [t EXCEPT !.r.supplies = Max({0, @ - 1})]
<1>1. Alike(p, q)
  BY AlikeIs DEF Alike, Same, Shaped, SpanFields, RecruitFields
<1>2. s.tick = t.tick
  BY DEF Alike
<1> HIDE DEF p, q
<1> QED BY <1>1, <1>2 DEF Fed, p, q

LEMMA InsuredAlike ==
  ASSUME NEW s, NEW t, Alike(s, t), NEW o
  PROVE  Alike(Insured(s, o), Insured(t, o))
<1> DEFINE p == [s EXCEPT !.r.gold = @ - Premium]
           q == [t EXCEPT !.r.gold = @ - Premium]
           so == o.policy = "insure" /\ s.r.gold >= Premium
<1>1. Alike(p, q)
  BY AlikeIs DEF Alike, Same, Shaped, SpanFields, RecruitFields
<1>2. Insured(s, o) = (IF so THEN p ELSE s) /\ Insured(t, o) = (IF so THEN q ELSE t)
  BY AlikeIs DEF Insured
<1> HIDE DEF p, q, so
<1> QED BY <1>1, <1>2

LEMMA HungryAlike ==
  ASSUME NEW s, NEW t, Alike(s, t), NEW roll
  PROVE  Alike(Hungry(s, roll), Hungry(t, roll))
<1> DEFINE hp == s.r.hp - Bite(s.r.maxHp)
           p == [s EXCEPT !.r.hp = hp]
           q == [t EXCEPT !.r.hp = hp]
           so == s.r.supplies = 0 /\ roll.hunger
<1>1. Hungry(s, roll) = (IF so THEN p ELSE s) /\ Hungry(t, roll) = (IF so THEN q ELSE t)
  BY AlikeIs DEF Hungry
<1> HIDE DEF hp, so
<1>2. Alike(p, q)
  BY DEF Alike, Same, Shaped, SpanFields, RecruitFields
<1> HIDE DEF p, q
<1> QED BY <1>1, <1>2

LEMMA StruckAlike ==
  ASSUME NEW s, NEW t, Alike(s, t), NEW roll
  PROVE  Alike(Struck(s, roll), Struck(t, roll))
<1> DEFINE hp == s.r.hp - Blow(s.r, roll)
           xp == s.r.xp + roll.xp
<1>1. Blow(t.r, roll) = Blow(s.r, roll)
  BY AlikeIs DEF Blow
<1> DEFINE p == [s EXCEPT !.r.hp = hp, !.r.xp = xp]
           q == [t EXCEPT !.r.hp = hp, !.r.xp = xp]
<1>2. Struck(s, roll) = p
  BY DEF Struck
<1>3. Struck(t, roll) = q
  <2>1. t.r.hp = s.r.hp /\ t.r.xp = s.r.xp
    BY AlikeIs
  <2> QED BY <1>1, <2>1 DEF Struck
<1> HIDE DEF hp, xp
<1>4. /\ Shaped(p, SpanFields) /\ Shaped(p.r, RecruitFields) /\ Same(s.r, p.r, {"hp", "xp"})
      /\ p.tick = s.tick /\ p.vigour = s.vigour /\ p.r.hp = hp /\ p.r.xp = xp
  BY DEF Alike, Same, Shaped, SpanFields, RecruitFields
<1>5. /\ Shaped(q, SpanFields) /\ Shaped(q.r, RecruitFields) /\ Same(t.r, q.r, {"hp", "xp"})
      /\ q.tick = t.tick /\ q.vigour = t.vigour /\ q.r.hp = hp /\ q.r.xp = xp
  BY DEF Alike, Same, Shaped, SpanFields, RecruitFields
<1> HIDE DEF p, q
<1>6. q.tick = p.tick /\ q.vigour = p.vigour /\ \A x \in {"hp", "xp"} : q.r[x] = p.r[x]
  BY <1>4, <1>5, AlikeIs DEF Alike
<1> QED BY <1>2, <1>3, <1>4, <1>5, <1>6, AlikeWith

LEMMA DeadAlike ==
  ASSUME NEW s, NEW t, Alike(s, t), NEW o
  PROVE  Alike(Dead(s, o), Dead(t, o)) /\ Dead(t, o).r.last = Dead(s, o).r.last
<1> DEFINE Lost(x, due) ==
             [x EXCEPT !.r.hp = 0, !.r.alive = FALSE, !.r.last = x.tick, !.r.award = due]
           a == Award(s.tick - s.r.born, s.deepest, Estate(s.r), o.policy = "insure")
           b == Award(t.tick - t.r.born, t.deepest, Estate(t.r), o.policy = "insure")
<1>1. Dead(s, o) = Lost(s, a) /\ Dead(t, o) = Lost(t, b)
  BY DEF Dead
<1> HIDE DEF a, b
<1>2. Alike(Lost(s, a), Lost(t, b)) /\ Lost(t, b).r.last = Lost(s, a).r.last
  BY DEF Alike, Same, Shaped, SpanFields, RecruitFields
<1> QED BY <1>1, <1>2

LEMMA StowedAlike ==
  ASSUME NEW s, NEW t, Alike(s, t), NEW item, NEW value, NEW o
  PROVE  LET p == [s EXCEPT !.r = Stowed(@, item, value, o)]
             q == [t EXCEPT !.r = Stowed(@, item, value, o)]
         IN  Alike(p, q)
<1> DEFINE p == [s EXCEPT !.r = Stowed(@, item, value, o)]
           q == [t EXCEPT !.r = Stowed(@, item, value, o)]
           held == {i \in DOMAIN s.r.stock : s.r.stock[i].item = item}
           again(i) == [i EXCEPT !.quantity = @ + 1,
                                 !.value = Rounded(i.value * i.quantity + value, i.quantity + 1)]
           higher == [i \in DOMAIN s.r.stock |-> IF i \in held THEN again(s.r.stock[i]) ELSE s.r.stock[i]]
           longer == Append(s.r.stock, [item |-> item, quantity |-> 1, value |-> value])
           richer == s.r.gold + IF o.policy = "hoard" THEN Percent(value, 115) ELSE value
           full == Len(s.r.stock) >= Slots
           stock == IF held # {} THEN higher ELSE IF full THEN s.r.stock ELSE longer
           gold == IF held # {} \/ ~full THEN s.r.gold ELSE richer
<1>1. Stowed(s.r, item, value, o) = [s.r EXCEPT !.gold = gold, !.stock = stock]
  <2>1. Stowed(s.r, item, value, o) =
          IF held # {} THEN [s.r EXCEPT !.stock = higher]
          ELSE IF full THEN [s.r EXCEPT !.gold = richer] ELSE [s.r EXCEPT !.stock = longer]
    BY DEF Stowed
  <2> HIDE DEF held, higher, longer, richer, full
  <2> QED BY <2>1 DEF Alike, Shaped, RecruitFields
<1>2. Stowed(t.r, item, value, o) = [t.r EXCEPT !.gold = gold, !.stock = stock]
  <2>1. t.r.stock = s.r.stock /\ t.r.gold = s.r.gold
    BY AlikeIs
  <2>2. Stowed(t.r, item, value, o) =
          IF held # {} THEN [t.r EXCEPT !.stock = higher]
          ELSE IF full THEN [t.r EXCEPT !.gold = richer] ELSE [t.r EXCEPT !.stock = longer]
    BY <2>1 DEF Stowed
  <2> HIDE DEF held, higher, longer, richer, full
  <2> QED BY <2>1, <2>2 DEF Alike, Shaped, RecruitFields
<1> HIDE DEF stock, gold
<1>3. /\ Shaped(p, SpanFields) /\ Shaped(p.r, RecruitFields) /\ Same(s.r, p.r, {"gold", "stock"})
      /\ p.tick = s.tick /\ p.vigour = s.vigour /\ p.r.gold = gold /\ p.r.stock = stock
  BY <1>1 DEF Alike, Same, Shaped, SpanFields, RecruitFields
<1>4. /\ Shaped(q, SpanFields) /\ Shaped(q.r, RecruitFields) /\ Same(t.r, q.r, {"gold", "stock"})
      /\ q.tick = t.tick /\ q.vigour = t.vigour /\ q.r.gold = gold /\ q.r.stock = stock
  BY <1>2 DEF Alike, Same, Shaped, SpanFields, RecruitFields
<1> HIDE DEF p, q
<1>5. q.tick = p.tick /\ q.vigour = p.vigour /\ \A x \in {"gold", "stock"} : q.r[x] = p.r[x]
  BY <1>3, <1>4 DEF Alike
<1>6. Alike(p, q)
  BY <1>3, <1>4, <1>5, AlikeWith
<1> QED BY <1>6 DEF p, q

LEMMA FoundAlike ==
  ASSUME NEW s, NEW t, Alike(s, t), NEW roll, NEW o
  PROVE  Alike(Found(s, roll, o), Found(t, roll, o))
<1> DEFINE p == [s EXCEPT !.r.clauses = @ + roll.file]
           q == [t EXCEPT !.r.clauses = @ + roll.file]
           i == [s EXCEPT !.r = Stowed(@, roll.item, roll.value, o)]
           j == [t EXCEPT !.r = Stowed(@, roll.item, roll.value, o)]
<1>1. Alike(p, q)
  BY AlikeIs DEF Alike, Same, Shaped, SpanFields, RecruitFields
<1>2. Alike(i, j)
  BY StowedAlike
<1>3. Found(s, roll, o) = (IF roll.file # 0 THEN Carried(p) ELSE IF roll.value > 0 THEN i ELSE s)
      /\ Found(t, roll, o) = (IF roll.file # 0 THEN Carried(q) ELSE IF roll.value > 0 THEN j ELSE t)
  BY DEF Found
<1> HIDE DEF p, q, i, j
<1>4. Alike(Carried(p), Carried(q))
  BY <1>1, CarriedAlike
<1> QED BY <1>2, <1>3, <1>4

LEMMA PromotedAlike ==
  ASSUME NEW s, NEW t, Alike(s, t)
  PROVE  Alike(Promoted(s), Promoted(t))
<1> DEFINE g == Graded(s.r.level, s.r.xp, s.r.standing)
           hp == HpAt(g.level)
           Up(x) == [x EXCEPT !.r = [x.r EXCEPT !.level = g.level, !.xp = g.xp, !.standing = g.standing,
                                                !.maxHp = hp, !.hp = hp]]
           p == Up(s)
           q == Up(t)
<1>1. LevelledUp(s.r) = (IF g.level = s.r.level THEN s.r
                         ELSE [s.r EXCEPT !.level = g.level, !.xp = g.xp, !.standing = g.standing,
                                          !.maxHp = hp, !.hp = hp])
  BY DEF LevelledUp
<1>2. LevelledUp(t.r) = (IF g.level = s.r.level THEN t.r
                         ELSE [t.r EXCEPT !.level = g.level, !.xp = g.xp, !.standing = g.standing,
                                          !.maxHp = hp, !.hp = hp])
  <2>1. t.r.level = s.r.level /\ t.r.xp = s.r.xp /\ t.r.standing = s.r.standing
    BY AlikeIs
  <2> QED BY <2>1 DEF LevelledUp
<1> HIDE DEF g, hp
<1>3. /\ Shaped(p, SpanFields) /\ Shaped(p.r, RecruitFields)
      /\ Same(s.r, p.r, {"level", "xp", "standing", "maxHp", "hp"})
      /\ p.tick = s.tick /\ p.vigour = s.vigour
      /\ p.r.level = g.level /\ p.r.xp = g.xp /\ p.r.standing = g.standing /\ p.r.maxHp = hp /\ p.r.hp = hp
  BY DEF Alike, Same, Shaped, SpanFields, RecruitFields
<1>4. /\ Shaped(q, SpanFields) /\ Shaped(q.r, RecruitFields)
      /\ Same(t.r, q.r, {"level", "xp", "standing", "maxHp", "hp"})
      /\ q.tick = t.tick /\ q.vigour = t.vigour
      /\ q.r.level = g.level /\ q.r.xp = g.xp /\ q.r.standing = g.standing /\ q.r.maxHp = hp /\ q.r.hp = hp
  BY DEF Alike, Same, Shaped, SpanFields, RecruitFields
<1>5. g.level = s.r.level \/ (g.level # s.r.level /\ LevelledUp(s.r) = p.r /\ LevelledUp(t.r) = q.r)
  BY <1>1, <1>2 DEF Alike, Shaped, SpanFields
<1>6. Promoted(s) = (IF g.level = s.r.level THEN s ELSE Carried(p))
      /\ Promoted(t) = (IF g.level = s.r.level THEN t ELSE Carried(q))
  <2>1. CASE g.level = s.r.level
    BY <1>1, <1>2, <2>1 DEF Promoted
  <2>2. CASE g.level # s.r.level
    <3>1. t.r.level = s.r.level
      BY AlikeIs
    <3>2. LevelledUp(s.r).level # s.r.level /\ LevelledUp(t.r).level # t.r.level
      BY <1>3, <1>4, <1>5, <2>2, <3>1
    <3>3. p = [s EXCEPT !.r = LevelledUp(s.r)] /\ q = [t EXCEPT !.r = LevelledUp(t.r)]
      BY <1>1, <1>2, <2>2
    <3> HIDE DEF p, q
    <3> QED BY <2>2, <3>2, <3>3 DEF Promoted
  <2> QED BY <2>1, <2>2
<1> HIDE DEF p, q
<1>7. q.tick = p.tick /\ q.vigour = p.vigour
      /\ \A x \in {"level", "xp", "standing", "maxHp", "hp"} : q.r[x] = p.r[x]
  BY <1>3, <1>4 DEF Alike
<1>8. Alike(p, q)
  BY <1>3, <1>4, <1>7, AlikeWith
<1> QED BY <1>6, <1>8, CarriedAlike

LEMMA DelvedAlike ==
  ASSUME NEW s, NEW t, Alike(s, t), NEW roll, NEW o
  PROVE  Alike(Delved(s, roll, o), Delved(t, roll, o))
<1> DEFINE There(x) == Insured(Hungry(Fed(Descended(Applied(x, o), o)), roll), o)
           p == There(s)
           q == There(t)
           i == Struck(p, roll)
           j == Struck(q, roll)
<1>1. Alike(p, q)
  <2>1. Alike(Applied(s, o), Applied(t, o))
    BY AppliedAlike
  <2>2. Alike(Descended(Applied(s, o), o), Descended(Applied(t, o), o))
    BY <2>1, DescendedAlike
  <2>3. Alike(Fed(Descended(Applied(s, o), o)), Fed(Descended(Applied(t, o), o)))
    BY <2>2, FedAlike
  <2>4. Alike(Hungry(Fed(Descended(Applied(s, o), o)), roll), Hungry(Fed(Descended(Applied(t, o), o)), roll))
    BY <2>3, HungryAlike
  <2> QED BY <2>4, InsuredAlike
<1>2. Delved(s, roll, o) = (IF roll.hit = 0 THEN [p EXCEPT !.r.gold = @ + roll.coin]
                            ELSE IF Killed(i) THEN Dead(i, o) ELSE Promoted(Found(i, roll, o)))
  BY DEF Delved
<1>3. Delved(t, roll, o) = (IF roll.hit = 0 THEN [q EXCEPT !.r.gold = @ + roll.coin]
                            ELSE IF Killed(j) THEN Dead(j, o) ELSE Promoted(Found(j, roll, o)))
  BY DEF Delved
<1> HIDE DEF p, q
<1>4. Alike(i, j)
  BY <1>1, StruckAlike
<1> HIDE DEF i, j
<1>5. Killed(i) <=> Killed(j)
  BY <1>4, AlikeIs DEF Killed
<1> DEFINE c == [p EXCEPT !.r.gold = @ + roll.coin]
           d == [q EXCEPT !.r.gold = @ + roll.coin]
<1>6. Alike(c, d)
  BY <1>1, AlikeIs DEF Alike, Same, Shaped, SpanFields, RecruitFields
<1> HIDE DEF c, d
<1>7. Alike(Dead(i, o), Dead(j, o))
  BY <1>4, DeadAlike
<1>8. Alike(Found(i, roll, o), Found(j, roll, o))
  BY <1>4, FoundAlike
<1>9. Alike(Promoted(Found(i, roll, o)), Promoted(Found(j, roll, o)))
  BY <1>8, PromotedAlike
<1> QED BY <1>2, <1>3, <1>5, <1>6, <1>7, <1>9 DEF c, d

(* A minute makes the same of what is alike.                               *)
LEMMA MinuteAlike ==
  ASSUME NEW s, NEW t, Alike(s, t), NEW roll, NEW o
  PROVE  Alike(Minute(s, roll, o), Minute(t, roll, o))
<1> DEFINE a == [s EXCEPT !.tick = @ + 1]
           b == [t EXCEPT !.tick = @ + 1]
           p == Approved(Paid(Ruled(a, roll)))
           q == Approved(Paid(Ruled(b, roll)))
<1>1. Alike(a, b)
  BY DEF Alike, Same, Shaped, SpanFields, RecruitFields
<1>2. Alike(p, q)
  <2> HIDE DEF a, b
  <2>1. Alike(Ruled(a, roll), Ruled(b, roll))
    BY <1>1, RuledAlike
  <2>2. Alike(Paid(Ruled(a, roll)), Paid(Ruled(b, roll)))
    BY <2>1, PaidAlike
  <2> QED BY <2>2, ApprovedAlike
<1>3. Minute(s, roll, o) = (IF ~s.r.alive THEN s ELSE IF Retreats(p, o) THEN PulledBack(p)
                            ELSE IF Rests(p) THEN Rested(p, o) ELSE Delved(p, roll, o))
  BY DEF Minute
<1>4. Minute(t, roll, o) = (IF ~t.r.alive THEN t ELSE IF Retreats(q, o) THEN PulledBack(q)
                            ELSE IF Rests(q) THEN Rested(q, o) ELSE Delved(q, roll, o))
  BY DEF Minute
<1> HIDE DEF p, q
<1>5. (Retreats(p, o) <=> Retreats(q, o)) /\ (Rests(p) <=> Rests(q))
  BY <1>2, AlikeIs DEF Retreats, RetreatHp, Rests
<1>6. Alike(PulledBack(p), PulledBack(q)) /\ Alike(Rested(p, o), Rested(q, o))
      /\ Alike(Delved(p, roll, o), Delved(q, roll, o))
  BY <1>2, PulledBackAlike, RestedAlike, DelvedAlike
<1>7. s.r.alive = t.r.alive
  BY AlikeIs
<1> QED BY <1>3, <1>4, <1>5, <1>6, <1>7

(* A recruit opened again, at the minute it was left, is as it was.        *)
Fit(r) ==
  /\ RecruitOK(r) /\ r.born = 0
  /\ r.alive => r.maxHp = Maximum(r) /\ r.hp \in 1..r.maxHp
  /\ ~r.alive => r.hp = 0 /\ r.depth > 0 /\ r.born < r.last
  /\ r.applied # NoTick => r.applied <= r.last /\ (r.alive => r.last - r.applied < Processing)

LEMMA OpenedIs ==
  ASSUME NEW r, Fit(r), r.alive, NEW from \in Int
  PROVE  LET s == Opened(r, from)
         IN  Sound(s) /\ s.r = r /\ s.tick = from
<1> DEFINE v == Vigour(r)
           m == Maximum(r)
           hp == Min({r.hp, m})
           s == [r |-> [r EXCEPT !.maxHp = m, !.hp = hp], tick |-> from, vigour |-> v, deepest |-> r.depth]
<1>1. Opened(r, from) = s
  <2> DEFINE z == [r |-> r, tick |-> from, vigour |-> 0, deepest |-> r.depth]
  <2>1. z.r = r /\ z.tick = from /\ z.deepest = r.depth /\ Shaped(z, SpanFields)
    BY DEF Shaped, SpanFields
  <2>2. Opened(r, from) = Carried(z)
    BY DEF Opened
  <2> HIDE DEF z
  <2>3. Carried(z) = [z EXCEPT !.vigour = v, !.r = [r EXCEPT !.maxHp = m, !.hp = hp]]
    BY <2>1 DEF Carried, Sync, Maximum, Shaped, SpanFields
  <2> HIDE DEF v, m, hp
  <2> QED BY <2>1, <2>2, <2>3 DEF Shaped, SpanFields
<1>2. v \in Int /\ m \in Nat \ {0} /\ r.hp \in Int /\ r.hp <= m /\ r.hp >= 1 /\ r.maxHp = m
  <2>1. v \in Int /\ m \in Nat \ {0}
    BY MaximumIs DEF Fit
  <2>2. r.maxHp = m /\ r.hp \in 1..m
    BY DEF Fit
  <2> HIDE DEF v, m
  <2> QED BY <2>1, <2>2
<1> HIDE DEF v, m
<1>3. hp = r.hp
  BY <1>2, MinOf
<1> HIDE DEF hp
<1>4. s.r = r /\ s.tick = from /\ s.vigour = v /\ Shaped(s, SpanFields)
  BY <1>2, <1>3 DEF Fit, RecruitOK, Shaped, RecruitFields, SpanFields
<1> HIDE DEF s
<1>5. StateOK(s)
  BY <1>2, <1>4 DEF StateOK, Fit
<1>6. Sound(s)
  BY <1>2, <1>4, <1>5 DEF Sound, Able, v, m
<1> QED BY <1>1, <1>4, <1>6

LEMMA OpenedAlike ==
  ASSUME NEW s, Sound(s), s.r.alive, NEW r, Fit(r), r.alive, Same(s.r, r, {"last", "award"})
  PROVE  Alike(s, Opened(r, s.tick))
<1> DEFINE t == Opened(r, s.tick)
<1>1. s.tick \in Int /\ Able(s)
  BY DEF Sound, Able, StateOK
<1>2. Sound(t) /\ t.r = r /\ t.tick = s.tick
  BY <1>1, OpenedIs
<1> HIDE DEF t
<1>3. Able(t)
  BY <1>2 DEF Sound
<1>4. t.r.level = s.r.level /\ t.r.clauses = s.r.clauses
  BY <1>2 DEF Same, RecruitFields
<1>5. t.vigour = s.vigour
  BY <1>1, <1>3, <1>4 DEF Able, Vigour
<1> QED BY <1>1, <1>2, <1>3, <1>5 DEF Alike, Able, StateOK, RecruitOK, t

-----------------------------------------------------------------------------
(* The invariant *)

(* What the requests before will have made of the recruit, when the next   *)
(* one replays the whole span, is what the reference made of it.           *)
KeepsPace ==
  recruit.alive /\ Len(pending) <= MaxCatchup =>
    LET s == Played(recruit, pending, orders, now - Len(pending))
    IN  /\ Sound(s) /\ Same(s.r, eager, {"last", "award"})
        /\ s.r.alive => s.tick = now
        /\ ~s.r.alive => s.r.last = eager.last

(* How far an application can have been dated back.                        *)
DatedBack ==
  eager.applied # NoTick /\ filed # NoTick =>
    /\ eager.applied >= filed - Processing \div 2
    /\ eager.expedited # eager.applied => eager.applied >= filed

LostFairly ==
  ~eager.alive /\ pending # <<>> /\ eager.last = now /\ orders.retreat >= BlowPct + HungerPct =>
    Last(pending).grievous

Shift ==
  /\ now \in Nat /\ orders \in AllOrders /\ pending \in Seq(Rolls) /\ filed \in Ticks
  /\ Fit(recruit) /\ Fit(eager)
  /\ recruit.alive => recruit.last = now - Len(pending) /\ recruit.last >= 0
  /\ eager.alive => eager.last = now
  /\ recruit.last <= now /\ eager.last <= now
  /\ ~recruit.alive => pending = <<>> /\ Unassessed(recruit) = Unassessed(eager)
  /\ KeepsPace /\ DatedBack /\ LostFairly

-----------------------------------------------------------------------------
(* The minutes of a span *)

(* The states of a span, minute by minute.                                 *)
Course(x, r, rolls, o, from, n) ==
  x = [k \in 0..n |-> IF k = 0 THEN Opened(r, from) ELSE Minute(x[k - 1], rolls[k], o)]

LEMMA CourseExists ==
  ASSUME NEW r, NEW rolls, NEW o, NEW from, NEW n \in Nat
  PROVE  \E x : Course(x, r, rolls, o, from, n)
<1> DEFINE Reached(k) == \E x : Course(x, r, rolls, o, from, k)
           Lost == {k \in Nat : ~Reached(k)}
           start == Opened(r, from)
<1> HIDE DEF start
<1>1. Reached(0)
  <2> DEFINE x == [i \in 0..0 |-> start]
  <2>1. x = [i \in 0..0 |-> IF i = 0 THEN start ELSE Minute(x[i - 1], rolls[i], o)]
    OBVIOUS
  <2>2. Course(x, r, rolls, o, from, 0)
    BY <2>1 DEF Course, start
  <2> QED BY <2>2
<1>2. ASSUME NEW k \in Nat, Reached(k) PROVE Reached(k + 1)
  <2>1. PICK x : Course(x, r, rolls, o, from, k)
    BY <1>2
  <2> DEFINE y == [i \in 0..(k + 1) |-> IF i <= k THEN x[i] ELSE Minute(x[k], rolls[k + 1], o)]
  <2>2. \A i \in 0..(k + 1) : y[i] = IF i = 0 THEN start ELSE Minute(y[i - 1], rolls[i], o)
    <3> SUFFICES ASSUME NEW i \in 0..(k + 1)
                 PROVE  y[i] = IF i = 0 THEN start ELSE Minute(y[i - 1], rolls[i], o)
      OBVIOUS
    <3>1. CASE i <= k
      <4>1. i \in 0..k /\ y[i] = x[i]
        BY <3>1
      <4>2. x[i] = IF i = 0 THEN start ELSE Minute(x[i - 1], rolls[i], o)
        BY <2>1, <4>1 DEF Course, start
      <4>3. i # 0 => y[i - 1] = x[i - 1]
        BY <4>1
      <4> HIDE DEF y
      <4> QED BY <4>1, <4>2, <4>3
    <3>2. CASE i = k + 1
      <4>1. y[i] = Minute(x[k], rolls[k + 1], o) /\ y[i - 1] = x[k] /\ i # 0
        BY <3>2
      <4> QED BY <3>2, <4>1
    <3> QED BY <3>1, <3>2
  <2>3. y = [i \in 0..(k + 1) |-> y[i]]
    OBVIOUS
  <2> HIDE DEF y
  <2>4. y = [i \in 0..(k + 1) |-> IF i = 0 THEN start ELSE Minute(y[i - 1], rolls[i], o)]
    BY <2>2, <2>3
  <2> QED BY <2>4 DEF Course, start
<1> HIDE DEF Reached
<1>3. ASSUME Lost # {} PROVE FALSE
  <2>1. PICK k \in Lost : \A j \in Lost : k <= j
    BY <1>3, LeastExists
  <2>2. k \in Nat /\ ~Reached(k) /\ k # 0
    BY <1>1, <2>1
  <2>3. k - 1 \in Nat /\ k - 1 \notin Lost /\ (k - 1) + 1 = k
    BY <2>1, <2>2
  <2>4. Reached(k - 1)
    BY <2>3
  <2> QED BY <1>2, <2>2, <2>3, <2>4
<1>4. Reached(n)
  BY <1>3
<1> QED BY <1>4 DEF Reached

LEMMA CourseSteps ==
  ASSUME NEW r, NEW rolls, NEW o, NEW from, NEW n \in Nat, NEW x, Course(x, r, rolls, o, from, n)
  PROVE  /\ x[0] = Opened(r, from)
         /\ \A k \in 1..n : x[k] = Minute(x[k - 1], rolls[k], o)
<1> DEFINE start == Opened(r, from)
<1>1. x = [k \in 0..n |-> IF k = 0 THEN start ELSE Minute(x[k - 1], rolls[k], o)]
  BY DEF Course
<1> HIDE DEF start
<1>2. x[0] = start
  BY <1>1
<1>3. ASSUME NEW k \in 1..n PROVE x[k] = Minute(x[k - 1], rolls[k], o)
  BY <1>1
<1> QED BY <1>2, <1>3 DEF start

Begins(longer, rolls, n) == \A k \in 1..n : longer[k] = rolls[k]

(* Spans that begin alike go alike.                                        *)
LEMMA CourseUnique ==
  ASSUME NEW r, NEW rolls, NEW longer, NEW o, NEW from, NEW n \in Nat, NEW m \in Nat, n <= m,
         Begins(longer, rolls, n),
         NEW x, Course(x, r, rolls, o, from, n), NEW y, Course(y, r, longer, o, from, m)
  PROVE  \A k \in 0..n : y[k] = x[k]
<1> DEFINE Broken == {k \in 0..n : y[k] # x[k]}
<1>1. /\ x[0] = Opened(r, from) /\ \A k \in 1..n : x[k] = Minute(x[k - 1], rolls[k], o)
      /\ y[0] = Opened(r, from) /\ \A k \in 1..m : y[k] = Minute(y[k - 1], longer[k], o)
  BY CourseSteps
<1>2. ASSUME Broken # {} PROVE FALSE
  <2>1. Broken \in SUBSET Nat
    OBVIOUS
  <2>2. PICK k \in Broken : \A j \in Broken : k <= j
    BY <1>2, <2>1, LeastExists
  <2>3. k \in 1..n /\ k \in 1..m /\ y[k] # x[k]
    BY <1>1, <2>2
  <2>4. k - 1 \in 0..n /\ k - 1 \notin Broken
    BY <2>2, <2>3
  <2>5. y[k - 1] = x[k - 1]
    BY <2>4
  <2> HIDE DEF Broken
  <2>6. x[k] = Minute(x[k - 1], rolls[k], o) /\ y[k] = Minute(y[k - 1], longer[k], o)
    BY <1>1, <2>3
  <2>7. longer[k] = rolls[k]
    BY <2>3 DEF Begins
  <2> QED BY <2>3, <2>5, <2>6, <2>7
<1> QED BY <1>2

LEMMA PlayedIs ==
  ASSUME NEW r, NEW rolls, Len(rolls) \in Nat, NEW o, NEW from
  PROVE  \E x : Course(x, r, rolls, o, from, Len(rolls)) /\ Played(r, rolls, o, from) = x[Len(rolls)]
<1> DEFINE n == Len(rolls)
           x == CHOOSE x : Course(x, r, rolls, o, from, n)
<1>1. Played(r, rolls, o, from) = x[n]
  BY DEF Played, Course
<1>2. Course(x, r, rolls, o, from, n)
  BY CourseExists
<1> HIDE DEF x
<1> QED BY <1>1, <1>2

(* A span of no minutes, and one of a minute more.                         *)
LEMMA PlayedNone ==
  ASSUME NEW r, NEW o, NEW from
  PROVE  Played(r, <<>>, o, from) = Opened(r, from)
<1> DEFINE none == <<>>
<1>1. Len(none) = 0 /\ Len(none) \in Nat
  OBVIOUS
<1> HIDE DEF none
<1>2. PICK x : Course(x, r, none, o, from, Len(none)) /\ Played(r, none, o, from) = x[Len(none)]
  BY <1>1, PlayedIs
<1>3. x[0] = Opened(r, from)
  <2>1. Course(x, r, none, o, from, 0) /\ 0 \in Nat
    BY <1>1, <1>2
  <2> QED BY <2>1, CourseSteps
<1>4. Played(r, none, o, from) = Opened(r, from)
  BY <1>1, <1>2, <1>3
<1> QED BY <1>4 DEF none

LEMMA PlayedOneMore ==
  ASSUME NEW rolls \in Seq(Roll), NEW roll \in Roll, NEW r, NEW o, NEW from
  PROVE  Played(r, Append(rolls, roll), o, from) = Minute(Played(r, rolls, o, from), roll, o)
<1> DEFINE n == Len(rolls)
           longer == Append(rolls, roll)
<1>1. /\ n \in Nat /\ Len(longer) = n + 1 /\ longer[n + 1] = roll
      /\ \A k \in 1..n : longer[k] = rolls[k]
  BY LenProperties, AppendProperties
<1> HIDE DEF n, longer
<1>2. PICK x : Course(x, r, rolls, o, from, n) /\ Played(r, rolls, o, from) = x[n]
  BY <1>1, PlayedIs DEF n
<1>3. PICK y : Course(y, r, longer, o, from, n + 1) /\ Played(r, longer, o, from) = y[n + 1]
  <2>1. Len(longer) \in Nat
    BY <1>1
  <2> QED BY <1>1, <2>1, PlayedIs
<1>4. y[n] = x[n]
  <2>1. n + 1 \in Nat /\ n <= n + 1 /\ n \in 0..n
    BY <1>1
  <2> DEFINE m == n + 1
  <2>2. /\ m \in Nat /\ n \in Nat /\ n <= m /\ Begins(longer, rolls, n)
        /\ Course(x, r, rolls, o, from, n) /\ Course(y, r, longer, o, from, m)
    BY <1>1, <1>2, <1>3, <2>1 DEF Begins
  <2> HIDE DEF m
  <2>3. \A k \in 0..n : y[k] = x[k]
    BY <2>2, CourseUnique
  <2> QED BY <2>1, <2>3
<1>5. y[n + 1] = Minute(y[n], longer[n + 1], o)
  <2>1. n + 1 \in Nat /\ n + 1 \in 1..(n + 1) /\ (n + 1) - 1 = n
    BY <1>1
  <2>2. \A k \in 1..(n + 1) : y[k] = Minute(y[k - 1], longer[k], o)
    BY <1>3, <2>1, CourseSteps
  <2>3. y[n + 1] = Minute(y[(n + 1) - 1], longer[n + 1], o)
    BY <2>1, <2>2
  <2> QED BY <2>1, <2>3
<1> QED BY <1>1, <1>2, <1>3, <1>4, <1>5 DEF longer

-----------------------------------------------------------------------------
(* What a span may do to a recruit, after n minutes of it.                 *)
Spent(r, s, o, from, n) ==
  /\ Sound(s) /\ s.r.born = 0 /\ s.r.expedited = r.expedited
  /\ s.r.level >= r.level /\ s.r.permit >= r.permit
  /\ s.tick >= from /\ s.tick <= from + n
  /\ s.r.alive => s.tick = from + n /\ s.r.last = r.last
  /\ s.r.depth > r.depth => s.r.depth <= Authorised(s.r, o)
  /\ s.r.applied # NoTick => s.r.applied <= s.tick /\ (n > 0 /\ s.r.alive => s.tick - s.r.applied < Processing)

LEMMA SpentStart ==
  ASSUME NEW r, Fit(r), r.alive, NEW from \in Nat, r.last <= from, NEW o
  PROVE  Spent(r, Opened(r, from), o, from, 0)
<1> DEFINE s == Opened(r, from)
<1>1. Sound(s) /\ s.r = r /\ s.tick = from
  BY OpenedIs
<1> HIDE DEF s
<1>2. /\ r.born = 0 /\ r.level \in Nat /\ r.permit \in Nat /\ r.depth \in Nat /\ r.last \in Int
      /\ r.applied # NoTick => r.applied \in Int /\ r.applied <= r.last
  BY DEF Fit, RecruitOK, Ticks
<1> QED BY <1>1, <1>2 DEF Spent, s

LEMMA SpentStep ==
  ASSUME NEW r, Fit(r), NEW s, NEW o \in Orders, NEW from \in Nat, NEW n \in Nat,
         Spent(r, s, o, from, n), NEW roll \in Roll
  PROVE  Spent(r, Minute(s, roll, o), o, from, n + 1)
<1> DEFINE t == Minute(s, roll, o)
<1>1. /\ RecruitOK(s.r) /\ s.tick \in Int
      /\ r.level \in Nat /\ r.permit \in Nat \ {0} /\ r.depth \in Nat
      /\ r.applied # NoTick => r.applied \in Int
  BY DEF Spent, Sound, StateOK, Fit, RecruitOK, Ticks
<1>2. /\ s.r.level \in Nat \ {0} /\ s.r.permit \in Nat \ {0} /\ s.r.depth \in Nat
      /\ s.r.applied # NoTick => s.r.applied \in Int
  BY <1>1, Constants DEF RecruitOK, Ticks
<1>3. CASE ~s.r.alive
  <2>1. t = s
    BY <1>3 DEF Minute
  <2>2. /\ Sound(s) /\ s.r.born = 0 /\ s.r.expedited = r.expedited
        /\ s.r.level >= r.level /\ s.r.permit >= r.permit
        /\ s.tick >= from /\ s.tick <= from + n
        /\ s.r.depth > r.depth => s.r.depth <= Authorised(s.r, o)
        /\ s.r.applied # NoTick => s.r.applied <= s.tick
    BY DEF Spent
  <2>3. s.tick <= from + (n + 1)
    BY <1>1, <2>2
  <2>4. Spent(r, s, o, from, n + 1)
    BY <1>3, <2>2, <2>3, Zenon DEF Spent
  <2> QED BY <2>1, <2>4
<1>4. CASE s.r.alive
  <2>1. s.r.born <= s.tick
    BY <1>1, <1>4 DEF Spent
  <2>2. Passed(s, t, o)
    BY <1>4, <2>1, MinuteIs DEF Spent
  <2> HIDE DEF t
  <2>3. RecruitOK(t.r) /\ t.tick \in Int
    BY <2>2 DEF Passed, Sound, StateOK
  <2>4. /\ t.r.level \in Nat \ {0} /\ t.r.permit \in Nat \ {0} /\ t.r.depth \in Nat
        /\ t.r.applied # NoTick => t.r.applied \in Int
    BY <2>3, Constants DEF RecruitOK, Ticks
  <2>5. t.r.level >= r.level /\ t.r.permit >= r.permit /\ t.tick = s.tick + 1
        /\ t.r.born = 0 /\ t.r.expedited = r.expedited /\ (t.r.alive => t.r.last = r.last)
        /\ t.tick = from + (n + 1)
    BY <1>1, <1>2, <1>4, <2>2, <2>4 DEF Passed, Spent
  <2>6. t.r.applied # NoTick =>
          t.r.applied <= t.tick /\ (n + 1 > 0 /\ t.r.alive => t.tick - t.r.applied < Processing)
    BY <1>1, <1>2, <2>2, <2>4, <2>5 DEF Passed, Spent
  <2>7. t.r.depth > r.depth => t.r.depth <= Authorised(t.r, o)
    <3>1. Authorised(s.r, o) \in Nat \ {0} /\ Authorised(t.r, o) \in Nat \ {0}
          /\ Authorised(s.r, o) <= Authorised(t.r, o)
      BY <1>2, <2>2, <2>4, AuthorisedIs DEF Passed
    <3>2. t.r.depth > s.r.depth => t.r.depth <= Authorised(t.r, o)
      BY <2>2 DEF Passed
    <3>3. s.r.depth > r.depth => s.r.depth <= Authorised(s.r, o)
      BY DEF Spent
    <3> QED BY <1>1, <1>2, <2>4, <3>1, <3>2, <3>3
  <2>8. Sound(t)
    BY <2>2 DEF Passed
  <2>9. t.tick >= from /\ t.tick <= from + (n + 1)
    BY <2>5
  <2>10. t.r.alive => t.tick = from + (n + 1) /\ t.r.last = r.last
    BY <2>5
  <2> QED BY <2>5, <2>6, <2>7, <2>8, <2>9, <2>10, Zenon DEF Spent, t
<1> QED BY <1>3, <1>4

LEMMA SpanIs ==
  ASSUME NEW r, Fit(r), r.alive, NEW rolls \in Seq(Roll), NEW o \in Orders,
         NEW from \in Nat, r.last <= from
  PROVE  Spent(r, Played(r, rolls, o, from), o, from, Len(rolls))
<1> DEFINE n == Len(rolls)
<1>1. n \in Nat /\ \A k \in 1..n : rolls[k] \in Roll
  BY LenProperties, ElementOfSeq
<1> HIDE DEF n
<1>2. PICK x : Course(x, r, rolls, o, from, n) /\ Played(r, rolls, o, from) = x[n]
  BY <1>1, PlayedIs DEF n
<1>3. x[0] = Opened(r, from) /\ \A k \in 1..n : x[k] = Minute(x[k - 1], rolls[k], o)
  <2>1. Course(x, r, rolls, o, from, n) /\ n \in Nat
    BY <1>1, <1>2
  <2> QED BY <2>1, CourseSteps
<1> DEFINE Broken == {k \in 0..n : ~Spent(r, x[k], o, from, k)}
<1>4. ASSUME Broken # {} PROVE FALSE
  <2>1. Broken \in SUBSET Nat
    OBVIOUS
  <2>2. PICK k \in Broken : \A j \in Broken : k <= j
    BY <1>4, <2>1, LeastExists
  <2>3. k \in 0..n /\ ~Spent(r, x[k], o, from, k)
    BY <2>2
  <2>4. k # 0
    BY <1>3, <2>3, SpentStart
  <2>5. k - 1 \in 0..n /\ k - 1 \notin Broken /\ k \in 1..n
    BY <1>1, <2>2, <2>3, <2>4
  <2> DEFINE j == k - 1
  <2>6. Spent(r, x[j], o, from, j)
    BY <2>5
  <2>7. j \in Nat /\ j + 1 = k /\ rolls[k] \in Roll /\ x[k] = Minute(x[j], rolls[k], o)
    BY <1>1, <1>3, <2>5
  <2> HIDE DEF j, Broken
  <2>8. Spent(r, Minute(x[j], rolls[k], o), o, from, j + 1)
    BY <2>6, <2>7, SpentStep
  <2> QED BY <2>3, <2>7, <2>8
<1>5. Spent(r, x[n], o, from, n)
  <2>1. n \in 0..n /\ n \notin Broken
    BY <1>1, <1>4
  <2> QED BY <2>1
<1> QED BY <1>2, <1>5 DEF n

LEMMA ReplayedIs ==
  ASSUME NEW rolls \in Seq(Roll), rolls # <<>>
  PROVE  LET span == Replayed(rolls)
         IN  /\ span \in Seq(Roll) /\ Len(span) \in Nat \ {0} /\ Len(span) <= Len(rolls)
             /\ Len(rolls) <= MaxCatchup => span = rolls
<1> DEFINE n == Len(rolls)
           m == Max({1, n - MaxCatchup + 1})
<1>1. n \in Nat \ {0} /\ \A i \in 1..n : rolls[i] \in Roll
  BY EmptySeq, ElementOfSeq
<1>2. Replayed(rolls) = SubSeq(rolls, m, n)
  BY DEF Replayed
<1> HIDE DEF n
<1>3. m \in 1..n /\ (n <= MaxCatchup => m = 1)
  BY <1>1, Constants, MaxOf
<1> HIDE DEF m
<1>4. m \in Int /\ n \in Int /\ \A i \in m..n : rolls[i] \in Roll
  BY <1>1, <1>3
<1>5. SubSeq(rolls, m, n) \in Seq(Roll) /\ Len(SubSeq(rolls, m, n)) = IF m <= n THEN n - m + 1 ELSE 0
  BY <1>4, SubSeqProperties
<1>6. n <= MaxCatchup => SubSeq(rolls, m, n) = rolls
  BY <1>3, SubSeqFull DEF n
<1>7. Len(SubSeq(rolls, m, n)) \in Nat \ {0} /\ Len(SubSeq(rolls, m, n)) <= n
  BY <1>1, <1>3, <1>5
<1> QED BY <1>2, <1>5, <1>6, <1>7 DEF n

-----------------------------------------------------------------------------
(* What resolve() returns *)

Saved(end, to) == IF end.alive THEN [end EXCEPT !.last = to] ELSE end

LEMMA SavedIs ==
  ASSUME NEW r, RecruitOK(r), NEW to \in Int
  PROVE  LET q == Saved(r, to)
         IN  /\ Same(r, q, {"last"}) /\ RecruitOK(q) /\ Maximum(q) = Maximum(r)
             /\ IF r.alive THEN q.last = to ELSE q = r
<1> DEFINE p == [r EXCEPT !.last = to]
<1>1. Shaped(p, RecruitFields) /\ Same(r, p, {"last"}) /\ p.last = to
  BY DEF Same, RecruitOK, Shaped, RecruitFields
<1>2. Saved(r, to) = IF r.alive THEN p ELSE r
  BY DEF Saved
<1> HIDE DEF p
<1>3. /\ p.alive = r.alive /\ p.level = r.level /\ p.xp = r.xp /\ p.standing = r.standing
      /\ p.hp = r.hp /\ p.maxHp = r.maxHp /\ p.depth = r.depth /\ p.permit = r.permit
      /\ p.applied = r.applied /\ p.expedited = r.expedited /\ p.clauses = r.clauses /\ p.born = r.born
  BY <1>1 DEF Same, RecruitFields
<1>4. RecruitOK(p)
  BY <1>1, <1>3 DEF RecruitOK
<1>5. Maximum(p) = Maximum(r)
  BY <1>3 DEF Maximum, Vigour
<1>6. Same(r, r, {"last"})
  BY DEF Same
<1> QED BY <1>1, <1>2, <1>4, <1>5, <1>6

LEMMA SavedFit ==
  ASSUME NEW r, Fit(r), NEW o, NEW from \in Nat, NEW n \in Nat \ {0}, NEW s, Spent(r, s, o, from, n)
  PROVE  LET q == Saved(s.r, from + n)
         IN  /\ Fit(q) /\ q.last <= from + n /\ (q.alive => q.last = from + n)
             /\ q.level >= r.level /\ q.permit >= r.permit /\ q.expedited = r.expedited
             /\ q.depth > r.depth => q.depth <= Authorised(q, o)
<1> DEFINE to == from + n
           q == Saved(s.r, to)
<1>1. RecruitOK(s.r) /\ s.tick \in Int /\ to \in Int /\ Sound(s) /\ n > 0
  BY DEF Spent, Sound, StateOK
<1>2. /\ Same(s.r, q, {"last"}) /\ RecruitOK(q) /\ Maximum(q) = Maximum(s.r)
      /\ IF s.r.alive THEN q.last = to ELSE q = s.r
  BY <1>1, SavedIs
<1> HIDE DEF q
<1>3. /\ q.alive = s.r.alive /\ q.level = s.r.level /\ q.hp = s.r.hp /\ q.maxHp = s.r.maxHp
      /\ q.depth = s.r.depth /\ q.permit = s.r.permit /\ q.applied = s.r.applied
      /\ q.expedited = s.r.expedited /\ q.born = s.r.born
  BY <1>2 DEF Same, RecruitFields
<1>4. Authorised(q, o) = Authorised(s.r, o)
  BY <1>3 DEF Authorised, PermitLimit
<1>5. q.applied # NoTick => q.applied \in Int
  BY <1>2 DEF RecruitOK, Ticks
<1>6. /\ s.r.born = 0 /\ s.r.expedited = r.expedited /\ s.r.level >= r.level /\ s.r.permit >= r.permit
      /\ s.tick <= to /\ (s.r.alive => s.tick = to)
      /\ (s.r.depth > r.depth => s.r.depth <= Authorised(s.r, o))
      /\ (s.r.applied # NoTick => s.r.applied <= s.tick /\ (s.r.alive => s.tick - s.r.applied < Processing))
  BY <1>1 DEF Spent
<1> HIDE DEF to
<1>7. CASE s.r.alive
  <2>1. Able(s) /\ s.r.hp >= 1
    BY <1>1, <1>7 DEF Sound
  <2>2. q.maxHp = Maximum(q) /\ q.hp \in 1..q.maxHp
    BY <1>2, <1>3, <2>1, AbleIs DEF Able
  <2>3. q.last = to /\ q.last = s.tick /\ q.alive
    BY <1>2, <1>3, <1>6, <1>7
  <2>4. Fit(q)
    BY <1>2, <1>3, <1>6, <2>2, <2>3 DEF Fit
  <2> QED BY <1>1, <1>3, <1>4, <1>6, <2>3, <2>4 DEF to, q
<1>8. CASE ~s.r.alive
  <2>1. s.r.hp = 0 /\ s.r.depth > 0 /\ s.r.last = s.tick /\ s.r.born < s.tick
    BY <1>1, <1>8 DEF Sound
  <2>2. q.last = s.tick /\ ~q.alive
    BY <1>2, <1>3, <1>8, <2>1
  <2>3. Fit(q)
    BY <1>2, <1>3, <1>6, <2>1, <2>2 DEF Fit
  <2> QED BY <1>1, <1>3, <1>4, <1>6, <2>2, <2>3 DEF to, q
<1> QED BY <1>7, <1>8

(* A request finds a fit recruit, and leaves one.                          *)
LEMMA ResolvedIs ==
  ASSUME NEW r, Fit(r), r.alive, NEW rolls \in Seq(Roll), rolls # <<>>, NEW o \in Orders,
         NEW to \in Nat, r.last >= 0, r.last + Len(rolls) <= to
  PROVE  LET q == Resolved(r, rolls, o, to)
         IN  /\ Fit(q) /\ q.last <= to /\ (q.alive => q.last = to)
             /\ q.level >= r.level /\ q.permit >= r.permit /\ q.expedited = r.expedited
             /\ q.depth > r.depth => q.depth <= Authorised(q, o)
             /\ Len(rolls) <= MaxCatchup => q = Saved(Played(r, rolls, o, to - Len(rolls)).r, to)
<1> DEFINE span == Replayed(rolls)
           n == Len(span)
           from == to - n
           s == Played(r, span, o, from)
<1>1. span \in Seq(Roll) /\ n \in Nat \ {0} /\ n <= Len(rolls) /\ (Len(rolls) <= MaxCatchup => span = rolls)
  BY ReplayedIs
<1>2. Resolved(r, rolls, o, to) = Saved(s.r, to)
  BY DEF Resolved, Saved
<1> HIDE DEF span
<1>3. r.last \in Int /\ Len(rolls) \in Nat
  BY LenProperties DEF Fit, RecruitOK
<1>4. from \in Nat /\ r.last <= from /\ from + n = to
  BY <1>1, <1>3
<1> HIDE DEF from
<1>5. Spent(r, s, o, from, n)
  BY <1>1, <1>4, SpanIs
<1> HIDE DEF s
<1>6. LET q == Saved(s.r, from + n)
      IN  /\ Fit(q) /\ q.last <= from + n /\ (q.alive => q.last = from + n)
          /\ q.level >= r.level /\ q.permit >= r.permit /\ q.expedited = r.expedited
          /\ q.depth > r.depth => q.depth <= Authorised(q, o)
  <2> HIDE DEF n
  <2> QED BY <1>1, <1>4, <1>5, SavedFit
<1>7. Len(rolls) <= MaxCatchup => s = Played(r, rolls, o, to - Len(rolls))
  BY <1>1 DEF s, from
<1> QED BY <1>2, <1>4, <1>6, <1>7

LEMMA OneMinute ==
  ASSUME NEW r, NEW roll \in Roll, NEW o, NEW from
  PROVE  Played(r, <<roll>>, o, from) = Minute(Opened(r, from), roll, o)
<1>1. PICK none : none = <<>>
  OBVIOUS
<1>2. none \in Seq(Roll)
  BY <1>1, EmptySeq
<1>3. Played(r, none, o, from) = Opened(r, from)
  BY <1>1, PlayedNone
<1>4. Played(r, Append(none, roll), o, from) = Minute(Played(r, none, o, from), roll, o)
  BY <1>2, PlayedOneMore
<1>5. Append(none, roll) = <<roll>>
  BY <1>1
<1> QED BY <1>3, <1>4, <1>5

(* The reader of every minute.                                             *)
LEMMA OneMinuteIs ==
  ASSUME NEW r, Fit(r), r.alive, NEW roll \in Roll, NEW o \in Orders, NEW at \in Nat, r.last = at
  PROVE  LET s == Opened(r, at)
             t == Minute(s, roll, o)
             q == Resolved(r, <<roll>>, o, at + 1)
         IN  /\ q = Saved(t.r, at + 1) /\ Passed(s, t, o) /\ s.r = r /\ s.tick = at
             /\ Fit(q) /\ q.last <= at + 1 /\ (q.alive => q.last = at + 1)
             /\ q.expedited = r.expedited
             /\ q.depth > r.depth => q.depth <= Authorised(q, o)
             /\ ~q.alive /\ o.retreat >= BlowPct + HungerPct => roll.grievous
<1> DEFINE s == Opened(r, at)
           t == Minute(s, roll, o)
           one == <<roll>>
           q == Resolved(r, one, o, at + 1)
<1>1. Sound(s) /\ s.r = r /\ s.tick = at
  BY OpenedIs
<1>2. t = Played(r, one, o, at)
  BY OneMinute
<1>3. one \in Seq(Roll) /\ one # <<>> /\ Len(one) = 1 /\ 1 <= MaxCatchup
  BY Constants
<1>4. /\ Fit(q) /\ q.last <= at + 1 /\ (q.alive => q.last = at + 1) /\ q.expedited = r.expedited
      /\ (q.depth > r.depth => q.depth <= Authorised(q, o))
      /\ q = Saved(Played(r, one, o, at).r, at + 1)
  <2> DEFINE to == at + 1
             len == Len(one)
  <2>1. to \in Nat /\ r.last >= 0 /\ r.last + len <= to /\ len <= MaxCatchup /\ to - len = at
    BY <1>3
  <2> HIDE DEF to, one, len
  <2>2. LET p == Resolved(r, one, o, to)
        IN  /\ Fit(p) /\ p.last <= to /\ (p.alive => p.last = to)
            /\ p.level >= r.level /\ p.permit >= r.permit /\ p.expedited = r.expedited
            /\ p.depth > r.depth => p.depth <= Authorised(p, o)
            /\ len <= MaxCatchup => p = Saved(Played(r, one, o, to - len).r, to)
    BY <1>3, <2>1, ResolvedIs DEF len
  <2> QED BY <2>1, <2>2 DEF to
<1>5. s.r.born <= s.tick /\ s.r.alive
  BY <1>1 DEF Fit
<1> HIDE DEF s, q
<1>6. Passed(s, t, o) /\ (~t.r.alive /\ o.retreat >= BlowPct + HungerPct => roll.grievous)
  BY <1>1, <1>5, MinuteIs
<1> HIDE DEF t
<1>7. q.alive = t.r.alive
  <2>1. RecruitOK(t.r) /\ at + 1 \in Int
    BY <1>6 DEF Passed, Sound, StateOK
  <2>2. Same(t.r, Saved(t.r, at + 1), {"last"})
    BY <2>1, SavedIs
  <2>3. Saved(t.r, at + 1).alive = t.r.alive
    BY <2>2 DEF Same, RecruitFields
  <2> QED BY <1>2, <1>4, <2>3
<1> QED BY <1>1, <1>2, <1>4, <1>6, <1>7 DEF s, t, q

LEMMA UnassessedIs ==
  ASSUME NEW r, NEW q, Shaped(r, RecruitFields), Shaped(q, RecruitFields), Same(r, q, {"award"})
  PROVE  Unassessed(r) = Unassessed(q)
<1>1. Unassessed(r) = [x \in RecruitFields |-> IF x = "award" THEN 0 ELSE r[x]]
  BY DEF Unassessed, Shaped, RecruitFields
<1>2. Unassessed(q) = [x \in RecruitFields |-> IF x = "award" THEN 0 ELSE q[x]]
  BY DEF Unassessed, Shaped, RecruitFields
<1> QED BY <1>1, <1>2 DEF Same

LEMMA AssessedIs ==
  ASSUME NEW r, NEW q, Shaped(r, RecruitFields), Shaped(q, RecruitFields), Unassessed(r) = Unassessed(q)
  PROVE  Same(r, q, {"award"})
<1>1. ASSUME NEW r0, Shaped(r0, RecruitFields), NEW x \in RecruitFields \ {"award"}
      PROVE  Unassessed(r0)[x] = r0[x]
  BY <1>1 DEF Unassessed, Shaped, RecruitFields
<1> QED BY <1>1 DEF Same

(* An expedited application is dated back by half of what it had to wait.  *)
LEMMA ExpeditedIs ==
  ASSUME NEW r, Fit(r), r.applied # NoTick
  PROVE  LET q == Expedited(r)
         IN  /\ Fit(q) /\ Same(r, q, {"gold", "applied", "expedited"})
             /\ q.applied \in Int /\ q.applied >= r.applied - Processing \div 2
             /\ q.expedited = q.applied
<1> DEFINE left == Processing - (r.last - r.applied)
           remaining == AtLeast1(left)
           applied == r.applied - remaining \div 2
           q == Expedited(r)
<1>1. /\ Shaped(q, RecruitFields) /\ Same(r, q, {"gold", "applied", "expedited"})
      /\ q.applied = applied /\ q.expedited = applied
  BY DEF Expedited, Same, Fit, RecruitOK, Shaped, RecruitFields
<1> HIDE DEF q
<1>2. r.applied \in Int /\ r.last \in Int /\ r.applied <= r.last /\ (r.alive => r.last - r.applied < Processing)
  BY DEF Fit, RecruitOK, Ticks
<1>3. remaining \in Nat \ {0} /\ remaining <= Processing /\ (r.alive => remaining = left)
  <2>1. left \in Int /\ left <= Processing /\ (r.alive => left >= 1)
    BY <1>2, Constants
  <2> HIDE DEF left
  <2> QED BY <2>1, AtLeast1Is, Constants
<1> HIDE DEF remaining
<1>4. /\ applied \in Int /\ applied >= r.applied - Processing \div 2 /\ applied <= r.last
      /\ r.alive => r.last - applied < Processing
  BY <1>2, <1>3, Constants
<1> HIDE DEF applied
<1>5. /\ q.alive = r.alive /\ q.level = r.level /\ q.xp = r.xp /\ q.standing = r.standing
      /\ q.hp = r.hp /\ q.maxHp = r.maxHp /\ q.depth = r.depth /\ q.permit = r.permit
      /\ q.clauses = r.clauses /\ q.born = r.born /\ q.last = r.last
  BY <1>1 DEF Same, RecruitFields
<1>6. Maximum(q) = Maximum(r)
  BY <1>5 DEF Maximum, Vigour
<1>7. RecruitOK(q)
  BY <1>1, <1>4, <1>5 DEF Fit, RecruitOK, Ticks
<1>8. Fit(q)
  BY <1>1, <1>4, <1>5, <1>6, <1>7 DEF Fit
<1> QED BY <1>1, <1>4, <1>8 DEF q

LEMMA ExpeditedSame ==
  ASSUME NEW r, NEW q, Shaped(r, RecruitFields), Shaped(q, RecruitFields), Same(r, q, {"award"})
  PROVE  Same(Expedited(r), Expedited(q), {"award"})
<1> DEFINE gold == r.gold - ExpediteFee * r.permit * r.permit
           applied == r.applied - AtLeast1(Processing - (r.last - r.applied)) \div 2
           Dated(x) == [x EXCEPT !.gold = gold, !.applied = applied, !.expedited = applied]
<1>1. q.gold = r.gold /\ q.permit = r.permit /\ q.applied = r.applied /\ q.last = r.last
  BY DEF Same, RecruitFields
<1>2. Expedited(r) = Dated(r)
  BY DEF Expedited
<1>3. Expedited(q) = Dated(q)
  BY <1>1 DEF Expedited
<1> HIDE DEF gold, applied
<1>4. Same(Dated(r), Dated(q), {"award"})
  BY DEF Same, Shaped, RecruitFields
<1> HIDE DEF Dated
<1> QED BY <1>2, <1>3, <1>4

-----------------------------------------------------------------------------
(* Requests *)

(* What a request makes of the recruit.                                    *)
LEMMA CaughtUpIs ==
  ASSUME Shift
  PROVE  /\ Fit(CaughtUp) /\ CaughtUp.last <= now /\ (CaughtUp.alive => CaughtUp.last = now)
         /\ CaughtUp.depth > recruit.depth => CaughtUp.depth <= Authorised(CaughtUp, orders)
         /\ ~Recess => Same(CaughtUp, eager, {"award"})
         /\ pending = <<>> => CaughtUp = recruit
<1> DEFINE c == CaughtUp
           n == Len(pending)
           s == Played(recruit, pending, orders, now - n)
<1>1. /\ now \in Nat /\ orders \in Orders /\ pending \in Seq(Roll) /\ n \in Nat
      /\ pending \in Seq(Rolls)
      /\ Fit(recruit) /\ Fit(eager) /\ RecruitOK(recruit) /\ RecruitOK(eager)
  <2>1. pending \in Seq(Rolls) /\ Rolls \subseteq Roll /\ AllOrders \subseteq Orders /\ orders \in AllOrders
    BY ResolveAssumption DEF Shift
  <2>2. pending \in Seq(Roll)
    BY <2>1
  <2> QED BY <2>1, <2>2, LenProperties DEF Shift, Fit
<1>2. ASSUME recruit.alive
      PROVE  /\ recruit.last = now - n /\ recruit.last >= 0
             /\ ~Recess => /\ Sound(s) /\ Same(s.r, eager, {"last", "award"})
                           /\ s.r.alive => s.tick = now
                           /\ ~s.r.alive => s.r.last = eager.last
  BY <1>1, <1>2, Constants DEF Shift, KeepsPace, Recess
<1>3. (eager.alive => eager.last = now) /\ recruit.last <= now
  BY DEF Shift
<1>4. CASE ~recruit.alive
  <2>1. c = recruit
    BY <1>4 DEF CaughtUp, Resolved
  <2>2. Unassessed(recruit) = Unassessed(eager)
    BY <1>4 DEF Shift
  <2>3. Same(recruit, eager, {"award"})
    BY <1>1, <2>2, AssessedIs DEF RecruitOK
  <2>4. ~(recruit.depth > recruit.depth)
    BY <1>1 DEF RecruitOK
  <2> QED BY <1>1, <1>3, <1>4, <2>1, <2>3, <2>4
<1>5. CASE recruit.alive /\ pending = <<>>
  <2>1. c = recruit
    BY <1>5 DEF CaughtUp, Resolved
  <2>2. n = 0 /\ ~Recess
    BY <1>5, Constants DEF Recess
  <2>3. recruit.last = now
    BY <1>1, <1>2, <1>5, <2>2
  <2>4. s = Opened(recruit, now)
    BY <1>1, <1>5, <2>2, PlayedNone
  <2>5. s.r = recruit
    BY <1>1, <1>5, <2>4, OpenedIs
  <2>6. Same(recruit, eager, {"last", "award"})
    BY <1>2, <1>5, <2>2, <2>5
  <2>7. eager.alive
    BY <1>5, <2>6 DEF Same, RecruitFields
  <2>8. Same(recruit, eager, {"award"})
    BY <1>3, <2>3, <2>6, <2>7 DEF Same
  <2>9. ~(recruit.depth > recruit.depth)
    BY <1>1 DEF RecruitOK
  <2> QED BY <1>1, <1>3, <2>1, <2>3, <2>8, <2>9
<1>6. CASE recruit.alive /\ pending # <<>>
  <2>1. recruit.last + n <= now /\ recruit.last >= 0
    <3>1. recruit.last = now - n /\ recruit.last >= 0
      BY <1>2, <1>6
    <3> QED BY <1>1, <3>1
  <2>2. /\ Fit(c) /\ c.last <= now /\ (c.alive => c.last = now)
        /\ c.depth > recruit.depth => c.depth <= Authorised(c, orders)
        /\ n <= MaxCatchup => c = Saved(s.r, now)
    BY <1>1, <1>6, <2>1, ResolvedIs DEF CaughtUp
  <2> HIDE DEF s
  <2>3. ASSUME ~Recess PROVE Same(c, eager, {"award"})
    <3>1. /\ c = Saved(s.r, now) /\ Sound(s) /\ Same(s.r, eager, {"last", "award"})
          /\ (~s.r.alive => s.r.last = eager.last)
      BY <1>1, <1>2, <1>6, <2>2, <2>3, Constants DEF Recess
    <3>2. RecruitOK(s.r) /\ now \in Int
      BY <1>1, <3>1 DEF Sound, StateOK
    <3>3. Same(s.r, c, {"last"}) /\ IF s.r.alive THEN c.last = now ELSE c = s.r
      BY <3>1, <3>2, SavedIs
    <3>4. eager.alive = s.r.alive
      BY <3>1 DEF Same, RecruitFields
    <3>5. c.last = eager.last
      BY <1>3, <3>1, <3>3, <3>4
    <3> HIDE DEF c
    <3> QED BY <3>1, <3>3, <3>5 DEF Same
  <2> QED BY <1>6, <2>2, <2>3
<1> QED BY <1>4, <1>5, <1>6

LEMMA RequestKeeps ==
  ASSUME Shift, NEW f, NEW g, recruit' = f, eager' = g, pending' = <<>>, now' = now,
         orders' \in AllOrders, filed' \in Ticks, Fit(f), Fit(g), Same(f, g, {"award"}),
         f.last <= now, f.alive => f.last = now, DatedBack'
  PROVE  Shift'
<1>1. now \in Nat
  BY DEF Shift
<1>2. g.last = f.last /\ g.alive = f.alive /\ Same(f, g, {"last", "award"})
  BY DEF Same, RecruitFields
<1>3. Unassessed(f) = Unassessed(g)
  BY UnassessedIs DEF Fit, RecruitOK
<1>4. pending' \in Seq(Rolls) /\ Len(pending') = 0
  BY EmptySeq
<1>5. KeepsPace'
  <2> SUFFICES ASSUME f.alive
               PROVE  LET s == Played(f, pending', orders', now' - Len(pending'))
                      IN  /\ Sound(s) /\ Same(s.r, g, {"last", "award"})
                          /\ s.r.alive => s.tick = now'
                          /\ ~s.r.alive => s.r.last = g.last
    BY DEF KeepsPace
  <2>1. now' - Len(pending') = now /\ now \in Int
    BY <1>1, <1>4
  <2>2. Played(f, pending', orders', now) = Opened(f, now)
    BY PlayedNone
  <2>3. Sound(Opened(f, now)) /\ Opened(f, now).r = f /\ Opened(f, now).tick = now
    BY <2>1, OpenedIs
  <2> QED BY <1>2, <2>1, <2>2, <2>3
<1>6. LostFairly'
  BY DEF LostFairly
<1>7. recruit'.alive => recruit'.last = now' - Len(pending') /\ recruit'.last >= 0
  BY <1>1, <1>4
<1> QED BY <1>1, <1>2, <1>3, <1>4, <1>5, <1>6, <1>7 DEF Shift

LEMMA CatchUpKeeps ==
  ASSUME Shift, CatchUp, now' = now, orders' \in AllOrders
  PROVE  Shift'
<1> DEFINE f == CaughtUp
           g == Reference(CaughtUp)
<1>1. /\ Fit(f) /\ f.last <= now /\ (f.alive => f.last = now)
      /\ ~Recess => Same(f, eager, {"award"})
  BY CaughtUpIs
<1>2. recruit' = f /\ eager' = g /\ pending' = <<>> /\ filed' = IF Recess THEN NoTick ELSE filed
  BY DEF CatchUp
<1>3. g = IF Recess THEN f ELSE eager
  BY DEF Reference
<1>4. Same(f, f, {"award"})
  BY DEF Same
<1> HIDE DEF f, g
<1>5. Fit(g) /\ Same(f, g, {"award"}) /\ filed' \in Ticks
  BY <1>1, <1>2, <1>3, <1>4 DEF Shift, Ticks
<1>6. DatedBack'
  BY <1>2, <1>3 DEF DatedBack, Shift
<1> QED BY <1>1, <1>2, <1>5, <1>6, RequestKeeps

LEMMA ExpediteKeeps ==
  ASSUME Shift, ExpeditePermit
  PROVE  Shift'
<1> DEFINE c == CaughtUp
           e == Reference(CaughtUp)
           f == Expedited(c)
           g == Expedited(e)
<1>1. /\ Fit(c) /\ c.last <= now /\ (c.alive => c.last = now)
      /\ ~Recess => Same(c, eager, {"award"})
  BY CaughtUpIs
<1>2. /\ c.applied # NoTick /\ c.expedited # c.applied
      /\ recruit' = f /\ eager' = g /\ pending' = <<>> /\ filed' = IF Recess THEN NoTick ELSE filed
      /\ now' = now /\ orders' = orders
  BY DEF ExpeditePermit
<1>3. e = IF Recess THEN c ELSE eager
  BY DEF Reference
<1>4. Same(c, c, {"award"})
  BY DEF Same
<1> HIDE DEF c, e
<1>5. Fit(e) /\ Same(c, e, {"award"})
  BY <1>1, <1>3, <1>4 DEF Shift
<1>6. e.applied = c.applied /\ e.expedited = c.expedited
  BY <1>5 DEF Same, RecruitFields
<1>7. Fit(f) /\ Same(c, f, {"gold", "applied", "expedited"})
  BY <1>1, <1>2, ExpeditedIs
<1>8. /\ Fit(g) /\ g.applied \in Int /\ g.applied >= e.applied - Processing \div 2 /\ g.expedited = g.applied
  BY <1>2, <1>5, <1>6, ExpeditedIs
<1>9. Same(f, g, {"award"})
  BY <1>1, <1>5, ExpeditedSame DEF Fit, RecruitOK
<1>10. f.last = c.last /\ f.alive = c.alive
  BY <1>7 DEF Same, RecruitFields
<1> HIDE DEF f, g
<1>11. filed' \in Ticks /\ orders' \in AllOrders
  BY <1>2 DEF Shift, Ticks
<1>12. DatedBack'
  <2> SUFFICES ASSUME ~Recess, filed # NoTick
               PROVE  g.applied >= filed - Processing \div 2
    BY <1>2, <1>8 DEF DatedBack
  <2>1. e = eager /\ filed \in Int
    BY <1>3 DEF Shift, Ticks
  <2>2. e.applied >= filed /\ e.applied \in Int
    BY <1>2, <1>5, <1>6, <2>1 DEF Shift, DatedBack, Fit, RecruitOK, Ticks
  <2>3. Processing \div 2 \in Int
    BY Constants
  <2> QED BY <1>8, <2>1, <2>2, <2>3
<1> QED BY <1>1, <1>2, <1>7, <1>8, <1>9, <1>10, <1>11, <1>12, RequestKeeps

-----------------------------------------------------------------------------
(* Minutes *)

(* What a minute makes of the reference.                                   *)
LEMMA EagerIs ==
  ASSUME Shift, NEW roll \in Rolls, Tick(roll)
  PROVE  /\ Fit(eager') /\ eager'.last <= now + 1 /\ (eager'.alive => eager'.last = now + 1)
         /\ eager'.expedited = eager.expedited
         /\ eager'.applied \in {NoTick, eager.applied, now + 1}
         /\ eager'.depth > eager.depth => eager'.depth <= Authorised(eager', orders)
         /\ eager'.permit > eager.permit => eager.applied # NoTick /\ (now + 1) - eager.applied >= Processing
         /\ IF eager.alive
            THEN LET t == Minute(Opened(eager, now), roll, orders)
                 IN  /\ Sound(t) /\ t.tick = now + 1 /\ eager' = Saved(t.r, now + 1)
                     /\ ~eager'.alive /\ orders.retreat >= BlowPct + HungerPct => roll.grievous
            ELSE eager' = eager
<1>1. /\ now \in Nat /\ orders \in Orders /\ roll \in Roll
      /\ Fit(eager) /\ eager.last <= now /\ (eager.alive => eager.last = now)
  BY ResolveAssumption DEF Shift
<1>2. eager' = Resolved(eager, <<roll>>, orders, now + 1)
  BY DEF Tick
<1>3. CASE eager.alive
  <2> DEFINE s == Opened(eager, now)
             t == Minute(s, roll, orders)
  <2>1. /\ eager' = Saved(t.r, now + 1) /\ Passed(s, t, orders) /\ s.r = eager /\ s.tick = now
        /\ Fit(eager') /\ eager'.last <= now + 1 /\ (eager'.alive => eager'.last = now + 1)
        /\ eager'.expedited = eager.expedited
        /\ eager'.depth > eager.depth => eager'.depth <= Authorised(eager', orders)
        /\ ~eager'.alive /\ orders.retreat >= BlowPct + HungerPct => roll.grievous
    BY <1>1, <1>2, <1>3, OneMinuteIs
  <2> HIDE DEF s
  <2>2. /\ Sound(t) /\ t.tick = now + 1
        /\ t.r.applied \in {NoTick, eager.applied, now + 1}
        /\ t.r.permit > eager.permit => eager.applied # NoTick /\ (now + 1) - eager.applied >= Processing
    <3> HIDE DEF t
    <3>1. /\ Sound(t) /\ t.tick = s.tick + 1 /\ t.r.applied \in {NoTick, s.r.applied, t.tick}
          /\ t.r.permit > s.r.permit => s.r.applied # NoTick /\ t.tick - s.r.applied >= Processing
      BY <2>1 DEF Passed
    <3>2. s.r = eager /\ s.tick = now
      BY <2>1
    <3>3. t.tick = now + 1
      BY <3>1, <3>2
    <3>4. t.r.applied \in {NoTick, eager.applied, now + 1}
      BY <3>1, <3>2, <3>3
    <3>5. t.r.permit > eager.permit => eager.applied # NoTick /\ (now + 1) - eager.applied >= Processing
      BY <3>1, <3>2, <3>3
    <3> QED BY <3>1, <3>3, <3>4, <3>5
  <2>3. eager'.applied = t.r.applied /\ eager'.permit = t.r.permit
    <3>1. RecruitOK(t.r) /\ now + 1 \in Int
      BY <1>1, <2>2 DEF Sound, StateOK
    <3>2. Same(t.r, Saved(t.r, now + 1), {"last"})
      BY <3>1, SavedIs
    <3> QED BY <2>1, <3>2 DEF Same, RecruitFields
  <2> HIDE DEF t
  <2> QED BY <1>3, <2>1, <2>2, <2>3 DEF s, t
<1>4. CASE ~eager.alive
  <2>1. eager' = eager
    BY <1>2, <1>4 DEF Resolved
  <2>2. ~(eager.depth > eager.depth) /\ ~(eager.permit > eager.permit) /\ eager.last <= now + 1
    BY <1>1 DEF Fit, RecruitOK
  <2> QED BY <1>1, <1>4, <2>1, <2>2
<1> QED BY <1>3, <1>4

LEMMA TickKeepsPace ==
  ASSUME Shift, NEW roll \in Rolls, Tick(roll)
  PROVE  KeepsPace'
<1> DEFINE n == Len(pending)
           from == now - n
           s == Played(recruit, pending, orders, from)
           z == Minute(s, roll, orders)
<1>1. /\ now \in Nat /\ orders \in Orders /\ roll \in Roll /\ pending \in Seq(Roll) /\ n \in Nat
      /\ Fit(eager) /\ eager.last <= now
  <2>1. Rolls \subseteq Roll /\ AllOrders \subseteq Orders /\ pending \in Seq(Rolls)
    BY ResolveAssumption DEF Shift
  <2>2. pending \in Seq(Roll)
    BY <2>1
  <2> QED BY <2>1, <2>2, LenProperties DEF Shift
<1>2. now' = now + 1 /\ pending' = Append(pending, roll) /\ recruit' = recruit /\ orders' = orders
      /\ recruit.alive
  BY DEF Tick
<1>3. Len(pending') = n + 1 /\ now' - Len(pending') = from
  <2>1. Len(pending') = n + 1
    BY <1>1, <1>2, AppendProperties
  <2> QED BY <1>1, <1>2, <2>1
<1>4. Played(recruit, pending', orders, from) = z
  BY <1>1, <1>2, PlayedOneMore
<1> HIDE DEF from
<1> SUFFICES ASSUME n + 1 <= MaxCatchup
             PROVE  /\ Sound(z) /\ Same(z.r, eager', {"last", "award"})
                    /\ z.r.alive => z.tick = now + 1
                    /\ ~z.r.alive => z.r.last = eager'.last
  BY <1>2, <1>3, <1>4 DEF KeepsPace
<1>5. /\ Sound(s) /\ Same(s.r, eager, {"last", "award"})
      /\ (s.r.alive => s.tick = now) /\ (~s.r.alive => s.r.last = eager.last)
  BY <1>1, <1>2, Constants DEF Shift, KeepsPace, from
<1> HIDE DEF s
<1>6. s.r.alive = eager.alive /\ s.r.born = eager.born
  BY <1>5 DEF Same, RecruitFields
<1>7. CASE eager.alive
  <2> DEFINE t == Minute(Opened(eager, now), roll, orders)
  <2>1. Sound(t) /\ t.tick = now + 1 /\ eager' = Saved(t.r, now + 1)
    BY <1>7, EagerIs
  <2>2. Alike(s, Opened(eager, now))
    BY <1>1, <1>5, <1>6, <1>7, OpenedAlike
  <2>3. Alike(z, t)
    BY <2>2, MinuteAlike
  <2>4. s.r.born <= s.tick
    BY <1>1, <1>5, <1>6, <1>7 DEF Fit
  <2>5. Passed(s, z, orders)
    BY <1>1, <1>5, <1>6, <1>7, <2>4, MinuteIs
  <2> HIDE DEF z, t
  <2>6. Sound(z) /\ z.tick = now + 1
    BY <1>5, <1>6, <1>7, <2>5 DEF Passed
  <2>7. RecruitOK(t.r) /\ now + 1 \in Int
    BY <1>1, <2>1 DEF Sound, StateOK
  <2>8. Same(t.r, eager', {"last"}) /\ IF t.r.alive THEN eager'.last = now + 1 ELSE eager' = t.r
    BY <2>1, <2>7, SavedIs
  <2>9. Same(z.r, t.r, {"last", "award"}) /\ t.r.alive = z.r.alive
    BY <2>3, AlikeIs DEF Alike
  <2>10. Same(z.r, eager', {"last", "award"})
    BY <2>8, <2>9 DEF Same
  <2>11. ~z.r.alive => z.r.last = eager'.last
    BY <2>1, <2>6, <2>8, <2>9 DEF Sound
  <2> QED BY <2>6, <2>10, <2>11
<1>8. CASE ~eager.alive
  <2>1. eager' = eager
    BY <1>8, EagerIs
  <2>2. z = s
    BY <1>6, <1>8 DEF Minute
  <2> QED BY <1>5, <1>6, <1>8, <2>1, <2>2
<1> QED BY <1>7, <1>8

LEMMA TickKeeps ==
  ASSUME Shift, NEW roll \in Rolls, Tick(roll)
  PROVE  Shift'
<1>1. /\ now' = now + 1 /\ pending' = Append(pending, roll) /\ recruit' = recruit /\ orders' = orders
      /\ recruit.alive
      /\ filed' = IF eager'.applied \notin {eager.applied, NoTick} THEN now + 1 ELSE filed
  BY DEF Tick
<1>2. /\ now \in Nat /\ orders \in AllOrders /\ pending \in Seq(Rolls) /\ filed \in Ticks
      /\ Fit(recruit) /\ Fit(eager) /\ recruit.last = now - Len(pending) /\ recruit.last >= 0
      /\ recruit.last <= now /\ eager.last <= now
  BY <1>1 DEF Shift
<1>3. /\ Fit(eager') /\ eager'.last <= now + 1 /\ (eager'.alive => eager'.last = now + 1)
      /\ eager'.expedited = eager.expedited
      /\ eager'.applied \in {NoTick, eager.applied, now + 1}
      /\ ~eager.alive => eager' = eager
      /\ eager.alive /\ ~eager'.alive /\ orders.retreat >= BlowPct + HungerPct => roll.grievous
  BY EagerIs
<1>4. /\ pending' \in Seq(Rolls) /\ Len(pending') = Len(pending) + 1 /\ Last(pending') = roll
  <2>1. /\ pending' \in Seq(Rolls) /\ Len(pending') = Len(pending) + 1
        /\ pending'[Len(pending) + 1] = roll
    BY <1>1, <1>2, AppendProperties
  <2> QED BY <2>1 DEF Last
<1>5. now + 1 \in Int /\ filed' \in Ticks
  BY <1>1, <1>2 DEF Ticks
<1>6. DatedBack'
  <2> SUFFICES ASSUME eager'.applied # NoTick, filed' # NoTick
               PROVE  /\ eager'.applied >= filed' - Processing \div 2
                      /\ eager'.expedited # eager'.applied => eager'.applied >= filed'
    BY DEF DatedBack
  <2>1. Processing \div 2 \in Int /\ Processing \div 2 >= 0
    BY Constants
  <2>2. CASE eager'.applied = eager.applied
    <3>1. filed' = filed
      BY <1>1, <2>2
    <3> QED BY <1>3, <2>2, <3>1 DEF Shift, DatedBack
  <2>3. CASE eager'.applied # eager.applied
    <3>1. filed' = now + 1 /\ eager'.applied = now + 1
      BY <1>1, <1>3, <2>3
    <3> QED BY <1>5, <2>1, <3>1
  <2> QED BY <2>2, <2>3
<1>7. LostFairly'
  <2> SUFFICES ASSUME ~eager'.alive, eager'.last = now', orders'.retreat >= BlowPct + HungerPct
               PROVE  roll.grievous
    BY <1>4 DEF LostFairly
  <2>1. eager.last \in Int
    BY <1>2 DEF Fit, RecruitOK
  <2>2. eager.alive
    BY <1>1, <1>2, <1>3, <2>1
  <2> QED BY <1>1, <1>3, <2>2
<1>8. KeepsPace'
  BY TickKeepsPace
<1>9. now' \in Nat /\ recruit'.last = now' - Len(pending') /\ recruit'.last >= 0 /\ recruit'.last <= now'
  <2>1. Len(pending) \in Nat /\ recruit.last \in Int
    BY <1>2, LenProperties DEF Fit, RecruitOK
  <2> QED BY <1>1, <1>2, <1>4, <2>1
<1> QED BY <1>1, <1>2, <1>3, <1>4, <1>5, <1>6, <1>7, <1>8, <1>9 DEF Shift

-----------------------------------------------------------------------------
(* The theorems *)

LEMMA InitShift == Init => Shift
<1> SUFFICES ASSUME Init PROVE Shift
  OBVIOUS
<1> DEFINE r == NewRecruit
           g == StartingGrade
<1>1. /\ now = 0 /\ orders \in AllOrders /\ recruit = r /\ eager = r /\ pending = <<>> /\ filed = NoTick
  BY DEF Init
<1>2. /\ Shaped(r, RecruitFields) /\ r.alive = TRUE /\ r.level = g /\ r.xp = 0 /\ r.standing = 0
      /\ r.hp = HpAt(g) /\ r.maxHp = HpAt(g) /\ r.depth = 0 /\ r.permit = 1 /\ r.applied = NoTick
      /\ r.expedited = NoTick /\ r.clauses = 0 /\ r.born = 0 /\ r.last = 0
  BY DEF NewRecruit, Shaped, RecruitFields
<1> HIDE DEF r
<1>3. g \in Nat \ {0} /\ HpAt(g) \in Nat \ {0}
  BY Constants, HpAtIs
<1>4. RecruitOK(r)
  <2>1. r.alive \in BOOLEAN
    BY <1>2, Zenon
  <2> QED BY <1>2, <1>3, <2>1 DEF RecruitOK, Ticks
<1>5. Maximum(r) = HpAt(g)
  <2> DEFINE cap == Percent(HpAt(g), VigourPct)
  <2>1. cap \in Nat
    <3>1. r.level \in Nat \ {0} /\ r.clauses \in Int
      BY <1>2, <1>3
    <3>2. Percent(HpAt(r.level), VigourPct) \in Nat
      BY <3>1, VigourIs
    <3> QED BY <1>2, <3>2
  <2>2. Vigour(r) = Max({-cap, Min({cap, 0})})
    BY <1>2 DEF Vigour
  <2> HIDE DEF cap
  <2>3. Vigour(r) = 0
    BY <2>1, <2>2, MinOf, MaxOf
  <2> QED BY <1>2, <1>3, <2>3, AtLeast1Is DEF Maximum
<1>6. Fit(r)
  BY <1>2, <1>3, <1>4, <1>5 DEF Fit
<1>7. pending \in Seq(Rolls) /\ Len(pending) = 0 /\ filed \in Ticks
  BY <1>1, EmptySeq DEF Ticks
<1>8. KeepsPace
  <2>1. now = 0 /\ Len(pending) = 0
    BY <1>1, <1>7
  <2>2. Played(r, pending, orders, 0) = Opened(r, 0)
    BY <1>1, PlayedNone
  <2>3. Sound(Opened(r, 0)) /\ Opened(r, 0).r = r /\ Opened(r, 0).tick = 0
    BY <1>2, <1>6, OpenedIs
  <2>4. Same(r, r, {"last", "award"})
    BY DEF Same
  <2>5. now - Len(pending) = 0
    BY <2>1
  <2> QED BY <1>1, <1>2, <2>1, <2>2, <2>3, <2>4, <2>5 DEF KeepsPace
<1>9. DatedBack /\ LostFairly
  BY <1>1 DEF DatedBack, LostFairly
<1>10. /\ recruit.alive => recruit.last = now - Len(pending) /\ recruit.last >= 0
       /\ recruit.last <= now /\ now \in Nat
  <2>1. now = 0 /\ Len(pending) = 0 /\ recruit.last = 0
    BY <1>1, <1>2, <1>7
  <2> QED BY <2>1
<1>11. recruit.alive
  BY <1>1, <1>2
<1> QED BY <1>1, <1>6, <1>7, <1>8, <1>9, <1>10, <1>11 DEF Shift

LEMMA NextShift == ASSUME Shift, [Next]_vars PROVE Shift'
<1>1. ASSUME NEW roll \in Rolls, Tick(roll) PROVE Shift'
  BY <1>1, TickKeeps
<1>2. CASE Read
  <2>1. CatchUp /\ now' = now /\ orders' \in AllOrders
    BY <1>2 DEF Read, Shift
  <2> QED BY <2>1, CatchUpKeeps
<1>3. ASSUME NEW o \in AllOrders, UpdateOrders(o) PROVE Shift'
  <2>1. CatchUp /\ now' = now /\ orders' \in AllOrders
    BY <1>3 DEF UpdateOrders
  <2> QED BY <2>1, CatchUpKeeps
<1>4. CASE ExpeditePermit
  BY <1>4, ExpediteKeeps
<1>5. CASE UNCHANGED vars
  BY <1>5 DEF vars, Shift, KeepsPace, DatedBack, LostFairly
<1> QED BY <1>1, <1>2, <1>3, <1>4, <1>5 DEF Next

(* What holds of a recruit and of its reference throughout: a span replayed *)
(* at once, where it will be, is as far as the reader of every minute is.  *)
THEOREM ShiftStands == Spec => []Shift
<1>1. Init => Shift
  BY InitShift
<1>2. Shift /\ [Next]_vars => Shift'
  BY NextShift
<1> QED BY <1>1, <1>2, PTL DEF Spec

(* Wherever the requests cut a span, and whatever orders and forms they     *)
(* bring (resolve.test.ts:47), the recruit they leave is the one a reader  *)
(* of every minute would have found, but for the size of the award.        *)
THEOREM CutAnywhere == Spec => []CutsDoNotMatter
<1>1. Shift => CutsDoNotMatter
  <2> SUFFICES ASSUME Shift, pending = <<>> PROVE Unassessed(recruit) = Unassessed(eager)
    BY DEF CutsDoNotMatter
  <2>1. ~Recess
    <3>1. Len(pending) = 0
      OBVIOUS
    <3> QED BY <3>1, Constants DEF Recess
  <2>2. Same(recruit, eager, {"award"})
    BY <2>1, CaughtUpIs
  <2> QED BY <2>2, UnassessedIs DEF Shift, Fit, RecruitOK
<1> QED BY <1>1, ShiftStands, PTL

(* A recruit at work is on its feet and inside its maximum, and is lost     *)
(* only underground: nobody starves at the surface, and an order that      *)
(* keeps back what hunger and a capped blow take leaves only the grievous  *)
(* blow to lose them by, whatever rulings and grades do to the maximum.    *)
THEOREM NoneButTheGrievous == Spec => []LostOnlyBelow
<1>1. Shift => LostOnlyBelow
  <2> SUFFICES ASSUME Shift PROVE LostOnlyBelow
    OBVIOUS
  <2>1. LostFairly /\ \A r \in {recruit, eager} : Fit(r)
    BY DEF Shift
  <2> QED BY <2>1 DEF LostOnlyBelow, LostFairly, Fit
<1> QED BY <1>1, ShiftStands, PTL

(* However orders and sites change, a recruit goes down only as far as      *)
(* permit, grade and order allow: no minute of a span and no request sends *)
(* it beyond.                                                              *)
THEOREM SentAsAuthorised == Spec => NeverSentBeyond
<1> DEFINE Step ==
             \A step \in Steps :
               step[2].depth > step[1].depth => step[2].depth <= Authorised(step[2], orders)
<1>1. Shift /\ [Next]_vars => [Step]_vars
  <2> SUFFICES ASSUME Shift, Next PROVE Step
    OBVIOUS
  <2>1. ~(recruit.depth > recruit.depth) /\ CaughtUp.depth \in Int
    BY CaughtUpIs DEF Shift, Fit, RecruitOK
  <2>2. ASSUME NEW roll \in Rolls, Tick(roll) PROVE Step
    <3>1. recruit' = recruit
      BY <2>2 DEF Tick
    <3>2. eager'.depth > eager.depth => eager'.depth <= Authorised(eager', orders)
      BY <2>2, EagerIs
    <3> QED BY <2>1, <3>1, <3>2 DEF Steps
  <2>3. ASSUME CatchUp PROVE Step
    <3>1. recruit' = CaughtUp /\ pending' = <<>>
      BY <2>3 DEF CatchUp
    <3>2. CaughtUp.depth > recruit.depth => CaughtUp.depth <= Authorised(CaughtUp, orders)
      BY CaughtUpIs
    <3> QED BY <3>1, <3>2 DEF Steps
  <2>4. CASE ExpeditePermit
    <3>1. recruit' = Expedited(CaughtUp) /\ pending' = <<>> /\ CaughtUp.applied # NoTick
      BY <2>4 DEF ExpeditePermit
    <3>2. Fit(CaughtUp)
          /\ (CaughtUp.depth > recruit.depth => CaughtUp.depth <= Authorised(CaughtUp, orders))
      BY CaughtUpIs
    <3>3. Same(CaughtUp, recruit', {"gold", "applied", "expedited"})
      BY <3>1, <3>2, ExpeditedIs
    <3>4. /\ recruit'.depth = CaughtUp.depth /\ recruit'.level = CaughtUp.level
          /\ recruit'.permit = CaughtUp.permit
      BY <3>3 DEF Same, RecruitFields
    <3>5. Authorised(recruit', orders) = Authorised(CaughtUp, orders)
      BY <3>4 DEF Authorised, PermitLimit
    <3> QED BY <3>1, <3>2, <3>4, <3>5 DEF Steps
  <2> HIDE DEF Step
  <2> QED BY <2>2, <2>3, <2>4 DEF Next, Read, UpdateOrders
<1> QED BY <1>1, ShiftStands, PTL DEF Spec, NeverSentBeyond

(* No permit clears before half of its time, expedited as it may be, and    *)
(* what a request shows of a wait is still to come.                        *)
THEOREM HalfTheWait == Spec => PermitsTakeTheirTime
<1> DEFINE Step ==
             /\ pending' # <<>> /\ eager'.permit > eager.permit /\ filed # NoTick =>
                  now' - filed >= Processing - Processing \div 2
             /\ pending' = <<>> /\ recruit'.alive /\ recruit'.applied # NoTick =>
                  ReadyTick(recruit') > now'
<1>1. Shift /\ Shift' /\ [Next]_vars => [Step]_vars
  <2> SUFFICES ASSUME Shift, Shift', Next PROVE Step
    OBVIOUS
  <2>1. ASSUME pending' = <<>>, recruit'.alive, recruit'.applied # NoTick
        PROVE  ReadyTick(recruit') > now'
    <3>1. /\ now' \in Nat /\ recruit'.last = now' - Len(pending')
          /\ Fit(recruit')
      BY <2>1 DEF Shift
    <3>2. Len(pending') = 0
      BY <2>1
    <3>3. recruit'.applied \in Int /\ recruit'.last - recruit'.applied < Processing
      BY <2>1, <3>1 DEF Fit, RecruitOK, Ticks
    <3>4. now' \in Nat /\ recruit'.last = now' - 0
      BY <3>1, <3>2
    <3> QED BY <3>3, <3>4, Constants DEF ReadyTick
  <2>2. ASSUME pending' # <<>>, eager'.permit > eager.permit, filed # NoTick
        PROVE  now' - filed >= Processing - Processing \div 2
    <3>1. PICK roll \in Rolls : Tick(roll)
      BY <2>2 DEF Next, Read, UpdateOrders, CatchUp, ExpeditePermit
    <3>2. eager.applied # NoTick /\ (now + 1) - eager.applied >= Processing
      BY <2>2, <3>1, EagerIs
    <3>3. /\ now' = now + 1 /\ now \in Nat /\ filed \in Int /\ eager.applied \in Int
          /\ eager.applied >= filed - Processing \div 2
      BY <2>2, <3>1, <3>2 DEF Tick, Shift, DatedBack, Fit, RecruitOK, Ticks
    <3>4. Processing \in Int /\ Processing \div 2 \in Int
      BY Constants
    <3> QED BY <3>2, <3>3, <3>4
  <2> QED BY <2>1, <2>2
<1> QED BY <1>1, ShiftStands, PTL DEF Spec, PermitsTakeTheirTime

-----------------------------------------------------------------------------
(* The board and its counters *)

Officer == [alive: BOOLEAN, depth: Nat, level: Nat, born: Nat, resolved: Nat]

Board == [active: Ids \cup {NoAssignment}, progress: Int, startedTick: Nat, completed: SUBSET Ids]

Work == [count: Int, grade: Nat, early: Int, lost: Nat]

Payment == [id: Ids \cup {NoAssignment}, work: Work]

TypeOK ==
  /\ minute \in Nat
  /\ officer \in Officer
  /\ board \in Board /\ abandoning \in Board
  /\ worked \in Work
  /\ paid \in [Ids -> 0..2]
  /\ award \in Payment
  /\ crossed \in BOOLEAN

(* The counters of a span under a freeze at cap.                           *)
Counters(cap) ==
  [depth: Nat, level: Nat, deepest: Nat, floors: Nat, files: Nat, entered: Nat, grade: 0..cap]

LEMMA CatalogueIs ==
  /\ Catalogue \in [Ids -> [metric: Metrics, target: Nat, single: BOOLEAN, cap: Nat]]
  /\ \A id \in Ids : Catalogue[id] \in [metric: Metrics, target: Nat, single: BOOLEAN, cap: Nat]
  /\ NoAssignment \notin Ids
  /\ NoCap \in Nat /\ IntakeFloor \in Nat /\ MaxFloor \in Nat
  /\ Intakes \subseteq Nat
BY AssignmentsAssumption

-----------------------------------------------------------------------------
(* Spans *)

LEMMA LivedType ==
  ASSUME NEW cap \in Nat, NEW x \in Counters(cap), NEW m
  PROVE  Lived(x, m, cap) \in Counters(cap)
<1> DEFINE down == "descend" \in m /\ x.depth < MaxFloor
           up   == "promote" \in m /\ x.level < cap /\ x.level < MaxGrade
           d    == IF down THEN x.depth + 1
                   ELSE IF "retreat" \in m /\ x.depth > 0 THEN x.depth - 1 ELSE x.depth
<1>1. /\ x.depth \in Nat /\ x.level \in Nat /\ x.deepest \in Nat /\ x.floors \in Nat
      /\ x.files \in Nat /\ x.entered \in Nat /\ x.grade \in 0..cap
  BY DEF Counters
<1>2. d \in Nat
  BY <1>1
<1>3. up => x.level + 1 \in 0..cap
  BY <1>1
<1>4. Lived(x, m, cap) =
        [depth   |-> d,
         level   |-> IF up THEN x.level + 1 ELSE x.level,
         deepest |-> IF d > x.deepest THEN d ELSE x.deepest,
         floors  |-> IF down THEN x.floors + 1 ELSE x.floors,
         files   |-> IF "find" \in m THEN x.files + 1 ELSE x.files,
         entered |-> IF down /\ d > x.entered THEN d ELSE x.entered,
         grade   |-> IF up THEN x.level + 1 ELSE x.grade]
  BY DEF Lived
<1> HIDE DEF d, up, down
<1> QED BY <1>1, <1>2, <1>3, <1>4 DEF Counters

(* What the counters were after every minute, as far as n.                 *)
Record(x, start, minutes, n, cap) ==
  x = [i \in 0..n |-> IF i = 0 THEN start ELSE Lived(x[i - 1], minutes[i], cap)]

LEMMA RecordExists ==
  ASSUME NEW start, NEW minutes, NEW cap, NEW n \in Nat
  PROVE  \E x : Record(x, start, minutes, n, cap)
<1> DEFINE Reached(k) == \E x : Record(x, start, minutes, k, cap)
           Lost == {k \in Nat : ~Reached(k)}
<1>1. Reached(0)
  <2> DEFINE x == [i \in 0..0 |-> start]
  <2>1. x = [i \in 0..0 |-> IF i = 0 THEN start ELSE Lived(x[i - 1], minutes[i], cap)]
    OBVIOUS
  <2>2. Record(x, start, minutes, 0, cap)
    BY <2>1 DEF Record
  <2> QED BY <2>2
<1>2. ASSUME NEW k \in Nat, Reached(k) PROVE Reached(k + 1)
  <2>1. PICK x : Record(x, start, minutes, k, cap)
    BY <1>2
  <2> DEFINE y == [i \in 0..(k + 1) |-> IF i <= k THEN x[i] ELSE Lived(x[k], minutes[k + 1], cap)]
  <2>2. \A i \in 0..(k + 1) : y[i] = IF i = 0 THEN start ELSE Lived(y[i - 1], minutes[i], cap)
    <3> SUFFICES ASSUME NEW i \in 0..(k + 1)
                 PROVE  y[i] = IF i = 0 THEN start ELSE Lived(y[i - 1], minutes[i], cap)
      OBVIOUS
    <3>1. CASE i <= k
      <4>1. i \in 0..k /\ y[i] = x[i]
        BY <3>1
      <4>2. x[i] = IF i = 0 THEN start ELSE Lived(x[i - 1], minutes[i], cap)
        BY <2>1, <4>1 DEF Record
      <4>3. i # 0 => y[i - 1] = x[i - 1]
        BY <4>1
      <4> HIDE DEF y
      <4> QED BY <4>1, <4>2, <4>3
    <3>2. CASE i = k + 1
      <4>1. y[i] = Lived(x[k], minutes[k + 1], cap) /\ y[i - 1] = x[k] /\ i # 0
        BY <3>2
      <4> QED BY <3>2, <4>1
    <3> QED BY <3>1, <3>2
  <2>3. y = [i \in 0..(k + 1) |-> y[i]]
    OBVIOUS
  <2> HIDE DEF y
  <2>4. y = [i \in 0..(k + 1) |-> IF i = 0 THEN start ELSE Lived(y[i - 1], minutes[i], cap)]
    BY <2>2, <2>3
  <2> QED BY <2>4 DEF Record
<1> HIDE DEF Reached
<1>3. ASSUME Lost # {} PROVE FALSE
  <2>1. PICK k \in Lost : \A j \in Lost : k <= j
    BY <1>3, LeastExists
  <2>2. k \in Nat /\ ~Reached(k) /\ k # 0
    BY <1>1, <2>1
  <2>3. k - 1 \in Nat /\ k - 1 \notin Lost /\ (k - 1) + 1 = k
    BY <2>1, <2>2
  <2>4. Reached(k - 1)
    BY <2>3
  <2> QED BY <1>2, <2>2, <2>3, <2>4
<1>4. Reached(n)
  BY <1>3
<1> QED BY <1>4 DEF Reached

LEMMA CountersAfterType ==
  ASSUME NEW cap \in Nat, NEW start \in Counters(cap), NEW minutes, NEW n \in Nat
  PROVE  CountersAfter(start, minutes, n, cap) \in Counters(cap)
<1> DEFINE x == CHOOSE x : Record(x, start, minutes, n, cap)
<1>1. CountersAfter(start, minutes, n, cap) = x[n]
  BY DEF CountersAfter, Record
<1>2. Record(x, start, minutes, n, cap)
  BY RecordExists
<1> HIDE DEF x
<1>3. x[0] = start
  BY <1>2 DEF Record
<1>4. ASSUME NEW k \in 1..n PROVE x[k] = Lived(x[k - 1], minutes[k], cap)
  BY <1>2 DEF Record
<1> DEFINE Broken == {k \in 0..n : x[k] \notin Counters(cap)}
<1>5. ASSUME Broken # {} PROVE FALSE
  <2>1. Broken \in SUBSET Nat
    OBVIOUS
  <2>2. PICK k \in Broken : \A j \in Broken : k <= j
    BY <1>5, <2>1, LeastExists
  <2>3. k \in 1..n /\ x[k] \notin Counters(cap)
    BY <1>3, <2>2
  <2>4. k - 1 \in 0..n /\ k - 1 \notin Broken
    BY <2>2, <2>3
  <2>5. x[k - 1] \in Counters(cap)
    BY <2>4
  <2>6. Lived(x[k - 1], minutes[k], cap) \in Counters(cap)
    BY <2>5, LivedType
  <2> QED BY <1>4, <2>3, <2>6
<1> QED BY <1>1, <1>5

(* A span of an officer, under the freeze the board imposes.               *)
Span(cap) ==
  [ends: Counters(cap), died: BOOLEAN, length: Nat]

LEMMA SpanType ==
  ASSUME NEW cap \in Nat, NEW r \in Officer, minute \in Nat, r.resolved <= minute,
         NEW span \in Spans(r, cap)
  PROVE  span \in Span(cap) /\ span.length <= minute - r.resolved
<1> DEFINE length == minute - r.resolved
           start == [depth |-> r.depth, level |-> r.level, deepest |-> r.depth,
                     floors |-> 0, files |-> 0, entered |-> 0, grade |-> 0]
           Ended(minutes, n, died) ==
             [ends |-> CountersAfter(start, minutes, n, cap), died |-> died, length |-> n]
<1>1. length \in Nat
  BY DEF Officer
<1>2. start \in Counters(cap)
  BY DEF Officer, Counters
<1>3. span \in {Ended(minutes, length, FALSE) : minutes \in [1..length -> Minutes]}
        \cup UNION {{Ended(minutes, n, TRUE) :
                       minutes \in {f \in [1..n -> Minutes] : f[n] \subseteq {"descend"}}} :
                    n \in 1..length}
  BY DEF Spans
<1> HIDE DEF length, start
<1>4. \E minutes : \E n \in 0..length : \E died \in BOOLEAN : span = Ended(minutes, n, died)
  <2>1. CASE span \in {Ended(minutes, length, FALSE) : minutes \in [1..length -> Minutes]}
    <3>1. PICK minutes \in [1..length -> Minutes] : span = Ended(minutes, length, FALSE)
      BY <2>1
    <3>2. length \in 0..length
      BY <1>1
    <3> HIDE DEF Ended
    <3> QED BY <3>1, <3>2
  <2>2. CASE span \in UNION {{Ended(minutes, n, TRUE) :
                       minutes \in {f \in [1..n -> Minutes] : f[n] \subseteq {"descend"}}} :
                    n \in 1..length}
    <3>1. PICK n \in 1..length :
            span \in {Ended(minutes, n, TRUE) :
                       minutes \in {f \in [1..n -> Minutes] : f[n] \subseteq {"descend"}}}
      BY <2>2
    <3>2. PICK minutes \in {f \in [1..n -> Minutes] : f[n] \subseteq {"descend"}} :
            span = Ended(minutes, n, TRUE)
      BY <3>1
    <3>3. n \in 0..length
      BY <1>1, <3>1
    <3> HIDE DEF Ended
    <3> QED BY <3>2, <3>3
  <2> QED BY <1>3, <2>1, <2>2
<1>5. PICK minutes : \E n \in 0..length : \E died \in BOOLEAN : span = Ended(minutes, n, died)
  BY <1>4
<1>6. PICK n \in 0..length : \E died \in BOOLEAN : span = Ended(minutes, n, died)
  BY <1>5
<1>7. PICK died \in BOOLEAN : span = Ended(minutes, n, died)
  BY <1>6
<1>8. n \in Nat /\ n <= length
  BY <1>1
<1>9. CountersAfter(start, minutes, n, cap) \in Counters(cap)
  BY <1>2, <1>8, CountersAfterType
<1> QED BY <1>7, <1>8, <1>9 DEF Span, length

-----------------------------------------------------------------------------
(* The invariant *)

(* Nobody is resolved past the minute, nor was an assignment on the board  *)
(* accepted past what its officer is resolved to.                          *)
TimelyFor(r, b) ==
  /\ r.born <= r.resolved /\ r.resolved <= minute
  /\ b.active # NoAssignment => b.startedTick <= r.resolved

(* What the assignment on the board has been worked under so far.          *)
UnderItsRules(b, w) ==
  b.active # NoAssignment =>
    LET spec == Catalogue[b.active]
    IN  /\ spec.single => w.lost = 0
        /\ w.grade <= spec.cap
        /\ spec.metric \in {"floors", "files"} => w.count = b.progress
        /\ w.early = 0

Books(b, p) == ~crossed => \A id \in Ids : p[id] = IF id \in b.completed THEN 1 ELSE 0

Honest(a) ==
  a.id # NoAssignment =>
    LET spec == Catalogue[a.id]
    IN  /\ spec.single => a.work.lost = 0
        /\ a.work.grade <= spec.cap
        /\ spec.metric \notin {"depth", "grade"} => a.work.count >= spec.target
        /\ a.work.early = 0

Unfinished(b) == b.active \notin b.completed

BoardInv ==
  /\ TypeOK
  /\ TimelyFor(officer, board)
  /\ Unfinished(board)
  /\ UnderItsRules(board, worked)
  /\ Books(board, paid)
  /\ Honest(award)

(* What a handler may commit.                                              *)
Standing(x) ==
  /\ x.recruit \in Officer /\ x.board \in Board /\ x.worked \in Work
  /\ x.paid \in [Ids -> 0..2] /\ x.award \in Payment
  /\ TimelyFor(x.recruit, x.board)
  /\ Unfinished(x.board)
  /\ UnderItsRules(x.board, x.worked)
  /\ Books(x.board, x.paid)
  /\ Honest(x.award)

LEMMA CapType == ASSUME BoardInv PROVE CapOf(board.active) \in Nat
BY CatalogueIs DEF BoardInv, TypeOK, Board, CapOf

LEMMA NoWorkStands ==
  NoWork \in Work /\ NoAward \in Payment /\ Honest(NoAward) /\ Empty \in Board
  /\ NotReading \in Board
BY DEF NoWork, Work, NoAward, Payment, Honest, Empty, NotReading, Board

-----------------------------------------------------------------------------
(* An assessment *)

(* Who is assessed, as the resolution left them.                           *)
LEMMA AfterType ==
  ASSUME BoardInv, NEW span \in Spans(officer, CapOf(board.active))
  PROVE  /\ span \in Span(CapOf(board.active))
         /\ After(officer, span) \in Officer
         /\ After(officer, span).born = officer.born
         /\ After(officer, span).resolved = officer.resolved + span.length
         /\ TimelyFor(After(officer, span), board)
<1>1. officer \in Officer /\ minute \in Nat /\ officer.resolved <= minute
  BY DEF BoardInv, TypeOK, TimelyFor
<1>2. span \in Span(CapOf(board.active)) /\ span.length <= minute - officer.resolved
  BY <1>1, CapType, SpanType
<1>3. /\ span.length \in Nat /\ span.ends.depth \in Nat /\ span.ends.level \in Nat
      /\ span.died \in BOOLEAN
  BY <1>2 DEF Span, Counters
<1>4. /\ officer.resolved \in Nat /\ officer.born \in Nat
      /\ board.startedTick \in Nat /\ officer.born <= officer.resolved
      /\ board.active # NoAssignment => board.startedTick <= officer.resolved
  BY DEF BoardInv, TypeOK, Officer, Board, TimelyFor
<1>5. /\ officer.resolved + span.length \in Nat
      /\ officer.resolved + span.length <= minute
      /\ officer.resolved + span.length >= officer.resolved
  BY <1>1, <1>2, <1>3, <1>4
<1>6. /\ After(officer, span) \in Officer
      /\ After(officer, span).born = officer.born
      /\ After(officer, span).resolved = officer.resolved + span.length
  BY <1>1, <1>3, <1>5 DEF After, Officer
<1>7. TimelyFor(After(officer, span), board)
  BY <1>1, <1>4, <1>5, <1>6 DEF TimelyFor
<1> QED BY <1>2, <1>6, <1>7

(* Progress and the history of it, while an assignment is on the board.    *)
LEMMA ProgressFacts ==
  ASSUME BoardInv, board.active # NoAssignment,
         NEW span \in Spans(officer, CapOf(board.active))
  PROVE  LET r == After(officer, span)
             w == Done(board, span)
             p == Progress(board, r, span.ends)
             spec == Catalogue[board.active]
         IN  /\ p \in Int /\ w \in Work
             /\ w.early = 0 /\ w.grade <= spec.cap
             /\ spec.metric \in {"floors", "files"} => w.count = p
             /\ spec.metric = "service" => (p >= spec.target => w.count >= spec.target)
             /\ spec.single /\ ~span.died => w.lost = 0
<1> DEFINE r == After(officer, span)
           w == Done(board, span)
           p == Progress(board, r, span.ends)
           spec == Catalogue[board.active]
<1>1. /\ board.active \in Ids /\ board.progress \in Int /\ board.startedTick \in Nat
      /\ worked.count \in Int /\ worked.grade \in Nat /\ worked.early \in Int /\ worked.lost \in Nat
      /\ officer.born \in Nat /\ officer.resolved \in Nat
  BY DEF BoardInv, TypeOK, Board, Work, Officer
<1>2. /\ spec.metric \in Metrics /\ spec.target \in Nat /\ spec.single \in BOOLEAN /\ spec.cap \in Nat
  BY <1>1, CatalogueIs
<1>3. /\ r \in Officer /\ r.born = officer.born /\ r.resolved = officer.resolved + span.length
      /\ r.level \in Nat
      /\ span \in Span(CapOf(board.active))
  BY AfterType DEF Officer
<1>4. CapOf(board.active) = spec.cap
  BY DEF CapOf
<1>5. /\ span.length \in Nat /\ span.died \in BOOLEAN
      /\ span.ends.deepest \in Nat /\ span.ends.floors \in Nat /\ span.ends.files \in Nat
      /\ span.ends.entered \in Nat /\ span.ends.grade \in Nat /\ span.ends.grade <= spec.cap
  BY <1>2, <1>3, <1>4 DEF Span, Counters
<1>6. /\ officer.born <= officer.resolved /\ board.startedTick <= officer.resolved
      /\ spec.single => worked.lost = 0
      /\ worked.grade <= spec.cap
      /\ spec.metric \in {"floors", "files"} => worked.count = board.progress
      /\ worked.early = 0
  BY DEF BoardInv, TimelyFor, UnderItsRules
<1> DEFINE since == Later(board.startedTick, officer.born)
<1>7. since \in Int /\ since <= officer.resolved
  BY <1>1, <1>6 DEF Later
<1> HIDE DEF r, spec, since
<1>8. p = CASE spec.metric = "depth"   -> Later(board.progress, span.ends.deepest)
            [] spec.metric = "grade"   -> Later(board.progress, r.level)
            [] spec.metric = "service" -> Later(0, r.resolved - since)
            [] spec.metric = "floors"  -> board.progress + span.ends.floors
            [] spec.metric = "files"   -> board.progress + span.ends.files
  BY <1>3 DEF Progress, spec, since
<1>9. w = [count |-> Counted(board, span),
           grade |-> Later(worked.grade, span.ends.grade),
           early |-> worked.early + Later(0, board.startedTick - officer.resolved),
           lost  |-> worked.lost + (IF span.died THEN 1 ELSE 0)]
  BY DEF Done
<1>10. Counted(board, span) =
        CASE spec.metric = "depth"   -> Later(worked.count, span.ends.entered)
          [] spec.metric = "grade"   -> Later(worked.count, span.ends.grade)
          [] spec.metric = "service" -> officer.resolved + span.length - since
          [] OTHER                   -> worked.count + span.ends[spec.metric]
  BY DEF Counted, spec, since
<1> HIDE DEF p, w
<1>11. /\ Later(board.progress, span.ends.deepest) \in Int
       /\ Later(board.progress, r.level) \in Int
       /\ Later(worked.count, span.ends.entered) \in Int
       /\ Later(worked.count, span.ends.grade) \in Int
       /\ r.resolved - since \in Int
       /\ Later(0, r.resolved - since) \in Int
       /\ Later(0, r.resolved - since) = r.resolved - since
       /\ r.resolved - since = officer.resolved + span.length - since
  <2>1. r.resolved - since \in Int /\ r.resolved - since >= 0
        /\ r.resolved - since = officer.resolved + span.length - since
    BY <1>1, <1>3, <1>5, <1>7
  <2> QED BY <1>1, <1>3, <1>5, <2>1 DEF Later
<1>12. p \in Int
  BY <1>1, <1>2, <1>5, <1>8, <1>11 DEF Metrics
<1>13. Counted(board, span) \in Int
  BY <1>1, <1>2, <1>5, <1>10, <1>11 DEF Metrics
<1>14. /\ Later(worked.grade, span.ends.grade) \in Nat
       /\ Later(worked.grade, span.ends.grade) <= spec.cap
       /\ worked.early + Later(0, board.startedTick - officer.resolved) = 0
  BY <1>1, <1>2, <1>5, <1>6 DEF Later
<1>15. worked.lost + (IF span.died THEN 1 ELSE 0) \in Nat
  BY <1>1
<1>16. /\ w \in Work /\ w.early = 0 /\ w.grade <= spec.cap /\ w.count = Counted(board, span)
       /\ w.lost = worked.lost + (IF span.died THEN 1 ELSE 0)
  BY <1>9, <1>13, <1>14, <1>15 DEF Work
<1>17. spec.metric \in {"floors", "files"} => w.count = p
  BY <1>6, <1>8, <1>10, <1>16
<1>18. spec.metric = "service" => w.count = p
  BY <1>8, <1>10, <1>11, <1>16
<1>19. spec.single /\ ~span.died => w.lost = 0
  BY <1>1, <1>6, <1>16
<1> QED BY <1>12, <1>16, <1>17, <1>18, <1>19 DEF r, w, p, spec

(* A board with nothing on it.                                              *)
LEMMA ReturnedType ==
  ASSUME NEW b \in Board
  PROVE  /\ Returned(b) \in Board
         /\ Returned(b).active = NoAssignment
         /\ Returned(b).completed = b.completed
<1>1. \E a \in Ids \cup {NoAssignment}, k \in Int, n \in Nat :
        Returned(b) = [b EXCEPT !.active = a, !.progress = k, !.startedTick = n] /\ a = NoAssignment
  <2>1. NoAssignment \in Ids \cup {NoAssignment} /\ 0 \in Int /\ 0 \in Nat
    OBVIOUS
  <2> WITNESS NoAssignment \in Ids \cup {NoAssignment}, 0 \in Int, 0 \in Nat
  <2> QED BY DEF Returned
<1>2. PICK a \in Ids \cup {NoAssignment}, k \in Int, n \in Nat :
        Returned(b) = [b EXCEPT !.active = a, !.progress = k, !.startedTick = n] /\ a = NoAssignment
  BY <1>1
<1> DEFINE c == Returned(b)
<1>3. c = [b EXCEPT !.active = a, !.progress = k, !.startedTick = n]
  BY <1>2
<1> HIDE DEF c
<1>4. c \in Board /\ c.active = a /\ c.completed = b.completed
  BY <1>3 DEF Board
<1> QED BY <1>2, <1>4 DEF c

LEMMA CompletedType ==
  ASSUME NEW b \in Board, NEW id \in Ids
  PROVE  LET done == [Returned(b) EXCEPT !.completed = @ \cup {id}]
         IN  /\ done \in Board
             /\ done.active = NoAssignment
             /\ done.completed = b.completed \cup {id}
<1> DEFINE a == Returned(b)
<1>1. a \in Board /\ a.active = NoAssignment /\ a.completed = b.completed
  BY ReturnedType
<1> HIDE DEF a
<1>2. [a EXCEPT !.completed = @ \cup {id}] \in Board
  BY <1>1 DEF Board
<1>3. /\ [a EXCEPT !.completed = @ \cup {id}].active = a.active
      /\ [a EXCEPT !.completed = @ \cup {id}].completed = a.completed \cup {id}
  BY <1>1 DEF Board
<1> QED BY <1>1, <1>2, <1>3 DEF a

(* What the assessment of a span leaves, paid for or not.                   *)
LEMMA ResolvedStands ==
  ASSUME BoardInv, NEW span \in Spans(officer, CapOf(board.active))
  PROVE  Standing(AfterResolve(span))
<1> DEFINE r == After(officer, span)
           b == Assessed(board, r, span)
           w == Done(board, span)
           x == AfterResolve(span)
<1>1. /\ board \in Board /\ worked \in Work /\ paid \in [Ids -> 0..2]
      /\ board.active \in Ids \cup {NoAssignment} /\ board.completed \subseteq Ids
      /\ board.progress \in Int /\ board.startedTick \in Nat
      /\ Unfinished(board) /\ Books(board, paid)
  BY DEF BoardInv, TypeOK, Board
<1>2. r \in Officer /\ TimelyFor(r, board)
  BY AfterType
<1>3. NoAssignment \notin Ids
  BY CatalogueIs
<1>4. x.recruit = r /\ x.board = b
  BY DEF AfterResolve
<1>5. CASE ~Pays(board, r, span)
  <2>1. x.paid = paid /\ x.award = NoAward
        /\ x.worked = IF b.active = NoAssignment THEN NoWork ELSE w
    BY <1>5 DEF AfterResolve
  <2>2. CASE board.active = NoAssignment \/ Closes(board, span)
    <3>1. (b = board /\ board.active = NoAssignment) \/ b = Returned(board)
      BY <2>2 DEF Assessed
    <3> HIDE DEF b
    <3>2. b \in Board /\ b.active = NoAssignment /\ b.completed = board.completed
      BY <1>1, <3>1, ReturnedType
    <3> HIDE DEF x, b, r
    <3>3. TimelyFor(r, b) /\ Unfinished(b) /\ UnderItsRules(b, NoWork) /\ Books(b, paid)
      BY <1>1, <1>2, <1>3, <3>2 DEF TimelyFor, Unfinished, UnderItsRules, Books
    <3>4. Standing(x)
      BY <1>1, <1>2, <1>4, <2>1, <3>2, <3>3, NoWorkStands DEF Standing
    <3> QED BY <3>4 DEF x
  <2>3. CASE board.active # NoAssignment /\ ~Closes(board, span)
    <3>1. ~Completes(board, r, span)
      BY <1>5, <2>3 DEF Pays
    <3> DEFINE p == Progress(board, r, span.ends)
    <3>2. b = [board EXCEPT !.progress = p]
      BY <2>3, <3>1 DEF Assessed
    <3>3. /\ p \in Int /\ w \in Work /\ w.early = 0 /\ w.grade <= Catalogue[board.active].cap
          /\ Catalogue[board.active].metric \in {"floors", "files"} => w.count = p
          /\ Catalogue[board.active].single /\ ~span.died => w.lost = 0
      BY <2>3, ProgressFacts
    <3> HIDE DEF p, w, b, x, r
    <3>4. /\ b \in Board /\ b.active = board.active /\ b.completed = board.completed
          /\ b.progress = p /\ b.startedTick = board.startedTick
      BY <1>1, <3>2, <3>3 DEF Board
    <3>5. Catalogue[board.active].single => ~span.died
      BY <2>3 DEF Closes
    <3>6. TimelyFor(r, b) /\ Unfinished(b) /\ Books(b, paid)
      BY <1>1, <1>2, <3>4 DEF TimelyFor, Unfinished, Books
    <3>7. UnderItsRules(b, w)
      BY <3>3, <3>4, <3>5 DEF UnderItsRules
    <3>8. Standing(x)
      BY <1>1, <1>2, <1>4, <2>1, <2>3, <3>3, <3>4, <3>6, <3>7, NoWorkStands DEF Standing
    <3> QED BY <3>8 DEF x
  <2> QED BY <2>2, <2>3
<1>6. CASE Pays(board, r, span)
  <2> DEFINE id == board.active
             p == Progress(board, r, span.ends)
             q == [paid EXCEPT ![id] = IF @ < 2 THEN @ + 1 ELSE 2]
  <2>1. id # NoAssignment /\ ~Closes(board, span) /\ p >= Catalogue[id].target
    BY <1>6 DEF Pays, Completes
  <2>2. Completes(board, r, span)
    BY <1>6 DEF Pays
  <2>3. b = [Returned(board) EXCEPT !.completed = @ \cup {id}]
    BY <2>1, <2>2 DEF Assessed
  <2>4. b \in Board /\ b.active = NoAssignment /\ b.completed = board.completed \cup {id}
    BY <1>1, <2>1, <2>3, CompletedType
  <2>5. x.paid = q /\ x.award = [id |-> id, work |-> w] /\ x.worked = NoWork
    BY <1>6, <2>4 DEF AfterResolve
  <2>6. /\ p \in Int /\ w \in Work /\ w.early = 0 /\ w.grade <= Catalogue[id].cap
        /\ Catalogue[id].metric \in {"floors", "files"} => w.count = p
        /\ Catalogue[id].metric = "service" => (p >= Catalogue[id].target => w.count >= Catalogue[id].target)
        /\ Catalogue[id].single /\ ~span.died => w.lost = 0
    BY <2>1, ProgressFacts
  <2>7. Catalogue[id].single => ~span.died
    BY <2>1 DEF Closes
  <2>8. Catalogue[id].metric \in Metrics /\ id \in Ids
    BY <1>1, <2>1, CatalogueIs
  <2> HIDE DEF p, w, b, x, r
  <2>9. Honest([id |-> id, work |-> w]) /\ [id |-> id, work |-> w] \in Payment
    BY <2>1, <2>6, <2>7, <2>8 DEF Honest, Payment, Metrics
  <2>10. q \in [Ids -> 0..2]
    <3>1. paid[id] \in 0..2
      BY <1>1, <2>8
    <3>2. (IF paid[id] < 2 THEN paid[id] + 1 ELSE 2) \in 0..2
      BY <3>1
    <3> HIDE DEF id
    <3> QED BY <1>1, <3>2
  <2>11. Books(b, q)
    <3> SUFFICES ASSUME ~crossed, NEW other \in Ids
                 PROVE  q[other] = IF other \in b.completed THEN 1 ELSE 0
      BY DEF Books
    <3>1. paid[other] = IF other \in board.completed THEN 1 ELSE 0
      BY <1>1 DEF Books
    <3>2. id \notin board.completed
      BY <1>1 DEF Unfinished
    <3> QED BY <1>1, <2>4, <2>8, <3>1, <3>2
  <2>12. TimelyFor(r, b) /\ Unfinished(b) /\ UnderItsRules(b, NoWork)
    BY <1>1, <1>2, <1>3, <2>4, <2>8 DEF TimelyFor, Unfinished, UnderItsRules
  <2>13. Standing(x)
    BY <1>2, <1>4, <2>4, <2>5, <2>9, <2>10, <2>11, <2>12, NoWorkStands DEF Standing
  <2> QED BY <2>13 DEF x
<1> QED BY <1>5, <1>6

LEMMA InsideStands ==
  ASSUME BoardInv, NEW span \in Spans(officer, CapOf(board.active))
  PROVE  Standing(Inside(span))
<1>1. CASE span.length # 0
  BY <1>1, ResolvedStands DEF Inside
<1>2. CASE span.length = 0
  <2>1. Inside(span) = [recruit |-> officer, board |-> board, paid |-> paid,
                        award |-> NoAward, worked |-> worked]
    BY <1>2 DEF Inside
  <2> QED BY <2>1, NoWorkStands DEF Standing, BoardInv, TypeOK
<1> QED BY <1>1, <1>2

(* A fresh acceptance has no work behind it, and was made by now.           *)
LEMMA AcceptedStands ==
  ASSUME BoardInv, NEW span \in Spans(officer, CapOf(board.active)), NEW id \in Ids,
         Open(Inside(span).board, id)
  PROVE  Standing(Accepted(id, span))
<1> DEFINE x == Inside(span)
           b == [active |-> id, progress |-> 0, startedTick |-> x.recruit.resolved,
                 completed |-> x.board.completed]
<1>1. Standing(x)
  BY InsideStands
<1>2. /\ x.recruit \in Officer /\ x.board \in Board /\ x.paid \in [Ids -> 0..2] /\ x.award \in Payment
      /\ TimelyFor(x.recruit, x.board) /\ Books(x.board, x.paid) /\ Honest(x.award)
  BY <1>1 DEF Standing
<1>3. x.recruit.resolved \in Nat /\ x.board.completed \subseteq Ids /\ id \notin x.board.completed
  BY <1>2 DEF Officer, Board, Open
<1>4. /\ Accepted(id, span).recruit = x.recruit /\ Accepted(id, span).paid = x.paid
      /\ Accepted(id, span).award = x.award
      /\ Accepted(id, span).board = b /\ Accepted(id, span).worked = NoWork
  <2>1. x.recruit = x.recruit /\ x = [recruit |-> x.recruit, board |-> x.board, paid |-> x.paid,
                                      award |-> x.award, worked |-> x.worked]
    BY DEF Inside, AfterResolve
  <2> HIDE DEF x
  <2>2. Accepted(id, span) = [x EXCEPT !.board = b, !.worked = NoWork]
    BY DEF Accepted, x
  <2> HIDE DEF b
  <2> QED BY <2>1, <2>2
<1> HIDE DEF x
<1>5. b \in Board
  BY <1>3 DEF Board
<1>6. TimelyFor(x.recruit, b)
  BY <1>2, <1>3 DEF TimelyFor
<1>7. Unfinished(b) /\ Books(b, x.paid)
  BY <1>2, <1>3 DEF Unfinished, Books
<1>8. Catalogue[id].cap \in Nat
  BY CatalogueIs
<1>9. UnderItsRules(b, NoWork)
  BY <1>8 DEF UnderItsRules, NoWork
<1> QED BY <1>2, <1>4, <1>5, <1>6, <1>7, <1>9, NoWorkStands DEF Standing

-----------------------------------------------------------------------------
(* The steps *)

LEMMA CommitKeepsInv ==
  ASSUME BoardInv, NEW x, Standing(x), Commit(x)
  PROVE  BoardInv'
<1>1. /\ officer' = x.recruit /\ board' = x.board /\ paid' = x.paid /\ award' = x.award
      /\ worked' = x.worked /\ UNCHANGED <<minute, abandoning, crossed>>
  BY DEF Commit
<1>2. TypeOK'
  BY <1>1 DEF BoardInv, TypeOK, Standing
<1>3. /\ TimelyFor(officer, board)' /\ Unfinished(board)' /\ UnderItsRules(board, worked)'
      /\ Books(board, paid)' /\ Honest(award)'
  BY <1>1 DEF Standing, TimelyFor, Unfinished, UnderItsRules, Books, Honest
<1> QED BY <1>2, <1>3 DEF BoardInv

(* A successor begins now, on whatever is on the board.                     *)
LEMMA SuccessorBegins ==
  ASSUME minute \in Nat, NEW level \in Nat, NEW depth \in Nat, NEW r \in Officer, NEW b \in Board,
         TimelyFor(r, b), NEW next \in Successors(level, depth)
  PROVE  next \in Officer /\ TimelyFor(next, b)
<1>1. Inherited(level, depth) \in Nat
  <2> DEFINE pct == 55 + 4 * depth
             share == IF pct < 100 THEN pct ELSE 100
             part == level * share
  <2>1. share \in Nat
    OBVIOUS
  <2>2. \A m, n \in Nat : m * n \in Nat
    BY SMT
  <2>3. part \in Nat
    BY <2>1, <2>2
  <2>4. Inherited(level, depth) = Later(1, part \div 100)
    BY DEF Inherited
  <2> HIDE DEF part
  <2>5. part \div 100 \in Nat
    BY <2>3
  <2> QED BY <2>4, <2>5 DEF Later
<1>2. PICK intake \in Intakes :
        next = [alive |-> TRUE, depth |-> 0, level |-> Later(Inherited(level, depth), intake),
                born |-> minute, resolved |-> minute]
  BY DEF Successors
<1>3. Later(Inherited(level, depth), intake) \in Nat
  BY <1>1, CatalogueIs DEF Later
<1>4. next \in Officer /\ next.born = minute /\ next.resolved = minute
  BY <1>2, <1>3 DEF Officer
<1>5. /\ b.startedTick \in Nat /\ r.resolved \in Nat /\ r.resolved <= minute
      /\ b.active # NoAssignment => b.startedTick <= r.resolved
  BY DEF Board, Officer, TimelyFor
<1>6. minute <= minute /\ (b.active # NoAssignment => b.startedTick <= minute)
  BY <1>5
<1> QED BY <1>4, <1>6 DEF TimelyFor

(* A resolution that hands over to another recruit.                         *)
LEMMA HandingOver ==
  ASSUME NEW x, Standing(x), NEW next \in Officer, TimelyFor(next, x.board),
         x = [recruit |-> x.recruit, board |-> x.board, paid |-> x.paid,
              award |-> x.award, worked |-> x.worked]
  PROVE  Standing([x EXCEPT !.recruit = next])
<1> DEFINE y == [x EXCEPT !.recruit = next]
<1>1. /\ y.recruit = next /\ y.board = x.board /\ y.paid = x.paid /\ y.award = x.award
      /\ y.worked = x.worked
  OBVIOUS
<1> HIDE DEF y
<1>2. Standing(y)
  BY <1>1 DEF Standing
<1> QED BY <1>2 DEF y

LEMMA InsideIsRecord ==
  ASSUME NEW span
  PROVE  LET x == Inside(span)
         IN  x = [recruit |-> x.recruit, board |-> x.board, paid |-> x.paid,
                  award |-> x.award, worked |-> x.worked]
BY DEF Inside, AfterResolve

LEMMA BoardInitInv == BoardInit => BoardInv
<1> SUFFICES ASSUME BoardInit PROVE BoardInv
  OBVIOUS
<1>1. /\ minute = 0
      /\ officer = [alive |-> TRUE, depth |-> 0, level |-> 1, born |-> 0, resolved |-> 0]
      /\ board = Empty /\ abandoning = NotReading /\ worked = NoWork
      /\ paid = [id \in Ids |-> 0] /\ award = NoAward /\ crossed = FALSE
  BY DEF BoardInit
<1>2. officer \in Officer /\ paid \in [Ids -> 0..2]
  BY <1>1 DEF Officer
<1>3. TypeOK
  BY <1>1, <1>2, NoWorkStands DEF TypeOK
<1>4. board.active = NoAssignment /\ board.completed = {} /\ officer.born = 0 /\ officer.resolved = 0
  BY <1>1 DEF Empty
<1>5. TimelyFor(officer, board) /\ Unfinished(board) /\ UnderItsRules(board, worked)
  BY <1>1, <1>4 DEF TimelyFor, Unfinished, UnderItsRules
<1>6. Books(board, paid)
  BY <1>1, <1>4 DEF Books
<1> QED BY <1>1, <1>3, <1>5, <1>6, NoWorkStands DEF BoardInv

LEMMA BoardNextInv == ASSUME BoardInv, [BoardNext]_boardVars PROVE BoardInv'
<1> USE DEF BoardInv
<1>1. CASE LoadState
  <2>1. PICK span \in Spans(officer, CapOf(board.active)) : Commit(AfterResolve(span))
    BY <1>1 DEF LoadState
  <2> QED BY <2>1, ResolvedStands, CommitKeepsInv
<1>2. CASE ResolveOnly
  <2>1. PICK span \in Spans(officer, CapOf(board.active)) : Commit(Inside(span))
    BY <1>2 DEF ResolveOnly
  <2> QED BY <2>1, InsideStands, CommitKeepsInv
<1>3. CASE \E id \in Ids : AcceptAssignment(id)
  <2>1. PICK id \in Ids : AcceptAssignment(id)
    BY <1>3
  <2>2. PICK span \in Spans(officer, CapOf(board.active)) :
          Open(Inside(span).board, id) /\ Commit(Accepted(id, span))
    BY <2>1 DEF AcceptAssignment
  <2> QED BY <2>2, AcceptedStands, CommitKeepsInv
<1>4. CASE ClaimPension
  <2>1. PICK depth \in officer.depth..MaxFloor : officer' \in Successors(officer.level, depth)
    BY <1>4 DEF ClaimPension
  <2>2. UNCHANGED <<minute, board, abandoning, worked, paid, award, crossed>>
    BY <1>4 DEF ClaimPension
  <2>3. /\ officer \in Officer /\ officer.level \in Nat /\ officer.depth \in Nat /\ board \in Board
        /\ minute \in Nat /\ TimelyFor(officer, board)
    BY DEF TypeOK, Officer
  <2>4. depth \in Nat
    BY <2>1, <2>3, CatalogueIs
  <2>5. officer' \in Officer /\ TimelyFor(officer', board)
    BY <2>1, <2>3, <2>4, SuccessorBegins
  <2> QED BY <2>2, <2>5 DEF TypeOK, TimelyFor, Unfinished, UnderItsRules, Books, Honest
<1>5. CASE RetireRecruit
  <2>1. PICK span \in Spans(officer, CapOf(board.active)) :
          LET x == Inside(span)
          IN  \E next \in Successors(x.recruit.level, x.recruit.depth) : Commit([x EXCEPT !.recruit = next])
    BY <1>5 DEF RetireRecruit
  <2> DEFINE x == Inside(span)
  <2>2. PICK next \in Successors(x.recruit.level, x.recruit.depth) : Commit([x EXCEPT !.recruit = next])
    BY <2>1
  <2>3. Standing(x)
    BY InsideStands
  <2>4. x = [recruit |-> x.recruit, board |-> x.board, paid |-> x.paid,
             award |-> x.award, worked |-> x.worked]
    BY InsideIsRecord
  <2> HIDE DEF x
  <2>5. /\ x.recruit \in Officer /\ x.recruit.level \in Nat /\ x.recruit.depth \in Nat
        /\ x.board \in Board /\ TimelyFor(x.recruit, x.board) /\ minute \in Nat
    BY <2>3 DEF Standing, Officer, TypeOK
  <2>6. next \in Officer /\ TimelyFor(next, x.board)
    BY <2>2, <2>5, SuccessorBegins
  <2>7. Standing([x EXCEPT !.recruit = next])
    BY <2>3, <2>4, <2>6, HandingOver
  <2> QED BY <2>2, <2>7, CommitKeepsInv
<1>6. CASE FileTransfer
  <2>1. PICK span \in Spans(officer, CapOf(board.active)) :
          LET x == Inside(span)
          IN  Commit([x EXCEPT !.recruit = [alive |-> TRUE, depth |-> 0, level |-> IntakeFloor,
                                            born |-> @.resolved, resolved |-> @.resolved]])
    BY <1>6 DEF FileTransfer
  <2> DEFINE x == Inside(span)
             next == [alive |-> TRUE, depth |-> 0, level |-> IntakeFloor,
                      born |-> x.recruit.resolved, resolved |-> x.recruit.resolved]
  <2>2. Standing(x)
    BY InsideStands
  <2>3. x = [recruit |-> x.recruit, board |-> x.board, paid |-> x.paid,
             award |-> x.award, worked |-> x.worked]
    BY InsideIsRecord
  <2>4. Commit([x EXCEPT !.recruit = next])
    BY <2>1, <2>3
  <2> HIDE DEF x
  <2>5. /\ x.recruit \in Officer /\ x.recruit.resolved \in Nat /\ TimelyFor(x.recruit, x.board)
    BY <2>2 DEF Standing, Officer
  <2>6. next \in Officer /\ TimelyFor(next, x.board)
    <3>1. /\ next.born = x.recruit.resolved /\ next.resolved = x.recruit.resolved
          /\ next \in Officer
      BY <2>5, CatalogueIs DEF Officer
    <3>2. x.recruit.resolved <= x.recruit.resolved
      BY <2>5
    <3> QED BY <2>5, <3>1, <3>2 DEF TimelyFor
  <2> HIDE DEF next
  <2>7. Standing([x EXCEPT !.recruit = next])
    BY <2>2, <2>3, <2>6, HandingOver
  <2> QED BY <2>4, <2>7, CommitKeepsInv
<1>7. CASE AbandonRead
  BY <1>7 DEF AbandonRead, TypeOK, TimelyFor, Unfinished, UnderItsRules, Books, Honest
<1>8. CASE AbandonWrite
  <2>1. /\ board' = Returned(abandoning) /\ crossed' = (crossed \/ abandoning # board)
        /\ abandoning' = NotReading /\ UNCHANGED <<minute, officer, worked, paid, award>>
    BY <1>8 DEF AbandonWrite
  <2>2. abandoning \in Board
    BY DEF TypeOK
  <2>3. board' \in Board /\ board'.active = NoAssignment /\ board'.completed = abandoning.completed
        /\ board'.completed \subseteq Ids
    BY <2>1, <2>2, ReturnedType DEF Board
  <2>4. TypeOK'
    BY <2>1, <2>3, NoWorkStands DEF TypeOK
  <2>5. TimelyFor(officer, board)' /\ Unfinished(board)' /\ UnderItsRules(board, worked)'
    BY <2>1, <2>3, CatalogueIs DEF TimelyFor, Unfinished, UnderItsRules
  <2>6. Books(board, paid)'
    <3>1. ~crossed' => ~crossed /\ abandoning = board
      BY <2>1
    <3> QED BY <2>1, <2>3, <3>1 DEF Books
  <2>7. Honest(award)'
    BY <2>1 DEF Honest
  <2> QED BY <2>4, <2>5, <2>6, <2>7
<1>9. CASE MinutePasses
  <2>1. /\ minute' = minute + 1
        /\ UNCHANGED <<officer, board, abandoning, worked, paid, award, crossed>>
    BY <1>9 DEF MinutePasses
  <2>2. TypeOK'
    BY <2>1 DEF TypeOK
  <2>3. TimelyFor(officer, board)'
    <3>1. minute \in Nat /\ officer.resolved \in Nat /\ officer.resolved <= minute
      BY DEF TypeOK, Officer, TimelyFor
    <3>2. officer.resolved <= minute + 1
      BY <3>1
    <3> QED BY <2>1, <3>2 DEF TimelyFor
  <2> QED BY <2>1, <2>2, <2>3 DEF Unfinished, UnderItsRules, Books, Honest
<1>10. CASE UNCHANGED boardVars
  BY <1>10 DEF boardVars, TypeOK, TimelyFor, Unfinished, UnderItsRules, Books, Honest
<1> QED BY <1>1, <1>2, <1>3, <1>4, <1>5, <1>6, <1>7, <1>8, <1>9, <1>10 DEF BoardNext

-----------------------------------------------------------------------------
(* The theorems *)

(* However the board is resolved, accepted on, handed back and inherited,  *)
(* the invariant stands.                                                   *)
THEOREM BoardStands == BoardSpec => []BoardInv
<1>1. BoardInv /\ [BoardNext]_boardVars => BoardInv'
  BY BoardNextInv
<1> QED BY <1>1, BoardInitInv, PTL DEF BoardSpec

(* assignments.ts:40, each completes once, and what is on the board as     *)
(* completed is what was paid for, unless an assignment was handed back on *)
(* a board that had moved on.                                              *)
THEOREM OncePerAssignment == BoardSpec => []EachCompletesOnce
<1>1. BoardInv => EachCompletesOnce
  BY DEF BoardInv, Books, EachCompletesOnce
<1> QED BY <1>1, BoardStands, PTL

(* What is paid was worked under the rules of its assignment: with nobody  *)
(* lost under Sole Charge, no promotion past a freeze, and nothing counted *)
(* from before the acceptance.                                             *)
THEOREM PaidAsAgreed == BoardSpec => []PaidUnderItsRules
<1>1. BoardInv => PaidUnderItsRules
  BY DEF BoardInv, Honest, PaidUnderItsRules
<1> QED BY <1>1, BoardStands, PTL
=============================================================================
