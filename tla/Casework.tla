------------------------------ MODULE Casework -------------------------------
(***************************************************************************)
(* One recruit's drawer of case files and the forms before the panel.      *)
(*                                                                         *)
(* A catch-up is one transaction in the code and a walk through phases     *)
(* here: a tick begins, the forms due are ruled one by one, the encounter  *)
(* follows, and after the last tick the department is paid and the         *)
(* Archivist sits at the desk.  Only in "open" can the officer act.  What  *)
(* a roll, an encounter and the rest of the game do to gold is left open.  *)
(*                                                                         *)
(* `find' numbers the finds, and the drawer is the set of its files: the   *)
(* code appends a find, keeps the place of a file that is amended and      *)
(* never sorts, so that its order is the order of the finds.  The code     *)
(* knows a file by its case number, which is drawn at random and may be    *)
(* drawn twice.  The file a form was filed for (`of'), and whether a form  *)
(* filed for another has been ruled on a file (`mistaken'), are history.   *)
(* `regard' is the recruit's standing.                                     *)
(***************************************************************************)
EXTENDS Integers, SequencesExt

CONSTANTS
  Refs,               \* case numbers, in their order
  Clauses, Riders,    \* ALL_CLAUSES, and those of them that are riders
  MinGrade,           \* the lowest grade each clause may be on
  ClauseSlots,        \* SLOTS_BY_GRADE
  DrawerSlots,              \* CASE_FILE_SLOTS
  Policies, Worth,    \* equipment policies, and what a clause counts under each
  FormTicks, FormGold, FormStanding,   \* FORM_CATALOGUE, by form
  Upkeep,             \* of all posts, gold a minute
  Patronage, Audience,      \* the tiers held of two Commendations
  ArchivistTier,      \* what the post is filled at
  PerGrade,           \* STANDING_PER_GRADE
  SkippedTicks,             \* ticks a long absence leaves out
  MaxDrawerTick, MaxGold, MaxStanding, MaxFinds   \* bounds

ASSUME CaseworkAssumption ==
  /\ Refs \subseteq Nat /\ Riders \subseteq Clauses
  /\ ClauseSlots \in Seq(Nat \ {0})
  /\ \A c \in Clauses : MinGrade[c] \in DOMAIN ClauseSlots
  /\ \A f \in {"12-C", "19"} : FormTicks[f] \in Nat \ {0}
  /\ Upkeep \in Nat \ {0} /\ ArchivistTier \in 1..3
  /\ {Patronage, Audience} \subseteq 0..3 /\ SkippedTicks \in Nat

Forms == {"12-C", "19"}
Grades == DOMAIN ClauseSlots
Indices == UNION {1..ClauseSlots[g] : g \in Grades}

VARIABLES phase, tick, span, alive, drawer, filings, gold, regard, left, finds

drawerVars == <<phase, tick, span, alive, drawer, filings, gold, regard, left, finds>>

File == [ref: Refs, grade: Grades, clauses: Seq(Clauses), kept: BOOLEAN, find: Nat \ {0},
         mistaken: BOOLEAN]

None == "none"   \* what Form 12-C brings

Filing == [form: Forms, ref: Refs, index: Nat \ {0}, was: Clauses, brings: Clauses \cup {None}, due: Nat,
           donor: Nat, of: Nat]

DrawerInit ==
  /\ phase = "open" /\ tick = 0 /\ span = 0 /\ alive = TRUE
  /\ drawer = {} /\ filings = {}
  /\ gold = 0 /\ regard = 0 /\ left = 0 /\ finds = 0

AtLeastOne(n) == IF n < 1 THEN 1 ELSE n

-----------------------------------------------------------------------------
(* Files *)

Kind(c) == c \in Riders

Blanks(ref, grade, n) ==
  [ref: {ref}, grade: {grade}, clauses: [1..n -> Clauses], kept: {FALSE}, find: {finds + 1}, mistaken: {FALSE}]

(* rollCaseFile: an endorsement first, no clause twice, none above the     *)
(* grade.                                                                  *)
FilesRolled(ref) ==
  {f \in UNION {Blanks(ref, g, n) : g \in Grades, n \in Indices} :
     /\ Len(f.clauses) <= ClauseSlots[f.grade]
     /\ ~Kind(f.clauses[1])
     /\ \A i \in DOMAIN f.clauses : MinGrade[f.clauses[i]] <= f.grade
     /\ \A i, j \in DOMAIN f.clauses : f.clauses[i] = f.clauses[j] => i = j}

(* caseFileWorth, short of the ceilings of a stat.                         *)
WorthOf(f, policy) == FoldSeq(LAMBDA c, sum : sum + Worth[policy][c], 0, f.clauses)

(* files.findIndex: the first of that number, if there is one.             *)
Named(ref) == {f \in drawer : f.ref = ref /\ \A g \in drawer : g.ref = ref => f.find <= g.find}

(* Mutation: the quartermaster may let go of anything.                     *)
CandidatesAll == drawer

(* The files the quartermaster may let go of.                              *)
Candidates == {f \in drawer : ~f.kept}

(* The weakest of them; of equals the lowest number.                       *)
Weakest(policy) ==
  {f \in Candidates : \A g \in Candidates :
     LET a == WorthOf(f, policy)
         b == WorthOf(g, policy)
     IN  \/ a < b
         \/ a = b /\ f.ref < g.ref
         \/ a = b /\ f.ref = g.ref /\ f.find <= g.find}

(* file(): a drawer that is full gives up its weakest for something        *)
(* better.                                                                 *)
Full == Cardinality(drawer) >= DrawerSlots

Displaced(f, policy) ==
  {w \in Weakest(policy) : policy # "officer" /\ WorthOf(f, policy) > WorthOf(w, policy)}

Filed(f, policy) ==
  LET displaced == Displaced(f, policy)
  IN  IF ~Full THEN {drawer \cup {f}}
      ELSE IF displaced = {} THEN {drawer}
      ELSE {(drawer \ {w}) \cup {f} : w \in displaced}

-----------------------------------------------------------------------------
(* Rulings *)

(* candidates(): of the same kind, of the grade, and not on file.          *)
Alternatives(f, was) ==
  {c \in Clauses \ {was} : Kind(c) = Kind(was) /\ MinGrade[c] <= f.grade /\ \A i \in DOMAIN f.clauses : f.clauses[i] # c}

Endorsed(f, c, index) == \E i \in DOMAIN f.clauses \ {index} : f.clauses[i] = c

(* Mutation: what was true at filing is not looked at again.               *)
PlacedUnchecked(q, f) ==
  IF q.form = "19" THEN {q.brings} ELSE {q.was} \cup Alternatives(f, q.was)

(* What the clause contested may be after the ruling.  A dismissal leaves  *)
(* it, and so does a requisition of what the file has by now.              *)
Placed(q, f) ==
  IF q.form = "19" THEN IF Endorsed(f, q.brings, q.index) THEN {q.was} ELSE {q.brings}
  ELSE {q.was} \cup Alternatives(f, q.was)

(* The file, unless it was displaced or the clause is not before the panel *)
(* any longer.                                                             *)
Before(q) == {f \in Named(q.ref) : q.index \in DOMAIN f.clauses /\ f.clauses[q.index] = q.was}

Amended(f, q, c) ==
  (drawer \ {f}) \cup {[f EXCEPT !.clauses[q.index] = c, !.mistaken = @ \/ f.find # q.of]}

(* Mutation: in the order they were filed, longest processing first.       *)
SoonestLast(q) == \A r \in filings : r.due <= q.due

(* Sorted by due time; ids are random, so equals come in any order.        *)
Soonest(q) == \A r \in filings : q.due <= r.due

-----------------------------------------------------------------------------
(* A catch-up *)

(* A minute is simulated next.  Only a span's first may follow minutes     *)
(* that a long absence leaves out.                                         *)
BeginTick(skipped) ==
  /\ alive
  /\ phase = "open" \/ (phase = "desk" /\ skipped = 0)
  /\ tick + skipped < MaxDrawerTick
  /\ tick' = tick + skipped + 1
  /\ span' = span + 1
  /\ phase' = "ruling"
  /\ UNCHANGED <<alive, drawer, filings, gold, regard, left, finds>>

(* concludeFiling, of the next in line if it is due.                       *)
Conclude(q) ==
  /\ phase = "ruling"
  /\ q \in filings /\ Soonest(q) /\ q.due <= tick
  /\ filings' = filings \ {q}
  /\ \/ Before(q) = {} /\ UNCHANGED drawer
     \/ \E f \in Before(q) : \E c \in Placed(q, f) : drawer' = Amended(f, q, c)
  /\ UNCHANGED <<phase, tick, span, alive, gold, regard, left, finds>>

(* The walk stops at the first that is not due.                            *)
AllRuled ==
  /\ phase = "ruling"
  /\ \A q \in filings : Soonest(q) => q.due > tick
  /\ phase' = "encounter"
  /\ UNCHANGED <<tick, span, alive, drawer, filings, gold, regard, left, finds>>

(* What a minute may earn, and what it and the department may take.        *)
GoldAfter == {0, gold, MaxGold}

(* The rest of the minute: perhaps a case file, perhaps a promotion.       *)
Survive(policy) ==
  /\ phase = "encounter"
  /\ \/ UNCHANGED <<drawer, finds>>
     \/ /\ finds < MaxFinds
        /\ \E ref \in Refs : \E f \in FilesRolled(ref) : drawer' \in Filed(f, policy)
        /\ finds' = finds + 1
  /\ \E levels \in 0..1 :
       /\ regard + levels * PerGrade <= MaxStanding
       /\ regard' = regard + levels * PerGrade
  /\ gold' \in GoldAfter
  /\ phase' = "desk"
  /\ UNCHANGED <<tick, span, alive, filings, left>>

(* The death is recorded with everything the recruit held.                 *)
Die ==
  /\ phase = "encounter"
  /\ alive' = FALSE
  /\ phase' = "open" /\ span' = 0
  /\ UNCHANGED <<tick, drawer, filings, gold, regard, left, finds>>

(* claimPension, fileTransfer, retireRecruit: the drawer and the forms go  *)
(* with the recruit.                                                       *)
Succeed ==
  /\ phase = "open"
  /\ alive' = TRUE
  /\ drawer' = {} /\ filings' = {} /\ regard' = 0
  /\ gold' \in {0, MaxGold}
  /\ UNCHANGED <<phase, tick, span, left, finds>>

(* payrollShare: what Departmental Patronage leaves the officer to pay.    *)
WageShare == <<100, 80, 55, 30>>[Patronage + 1]

(* payrollPerTick: rounded up, never free.                                 *)
PayrollPerTick == AtLeastOne((Upkeep * WageShare + 99) \div 100)

(* The Archivist by tier: forms a visit, percent of the gold paid, and     *)
(* standing saved on each form.                                            *)
Throughput == <<1, 2, 2>>[ArchivistTier]
Share == <<100, 70, 45>>[ArchivistTier]
Relief == IF ArchivistTier >= 3 THEN 1 ELSE 0

(* No post is filled, or an assignment stands the department down.         *)
EndOfSpan ==
  /\ phase = "desk"
  /\ phase' = "open" /\ span' = 0
  /\ UNCHANGED <<tick, alive, drawer, filings, gold, regard, left, finds>>

(* The wages of the whole span, or what there is of them and no work.      *)
(* What the Filing Clerk sells comes to the purse before the Archivist     *)
(* draws on it.                                                            *)
Payroll ==
  LET owed == PayrollPerTick * span
  IN  /\ phase = "desk"
      /\ \/ /\ gold < owed
            /\ gold' = 0
            /\ phase' = "open"
            /\ UNCHANGED left
         \/ /\ gold >= owed
            /\ gold' \in {gold - owed, MaxGold}
            /\ phase' = "visit"
            /\ left' = Throughput
      /\ span' = 0
      /\ UNCHANGED <<tick, alive, drawer, filings, regard, finds>>

(* There is no Archivist, or no more forms in one.                         *)
EndOfVisit ==
  /\ phase = "visit"
  /\ phase' = "open"
  /\ left' = 0
  /\ UNCHANGED <<tick, span, alive, drawer, filings, gold, regard, finds>>

-----------------------------------------------------------------------------
(* Filing *)

(* Mutation: any clause may be contested again.                            *)
ContestedNever(ref, index) == FALSE

(* One form per clause.                                                    *)
Contested(ref, index) == \E q \in filings : q.ref = ref /\ q.index = index

Busy(ref) == \E q \in filings : q.ref = ref

(* caseFiles.filter: every file of that number.                            *)
Without(donor) == {f \in drawer : f.ref # donor}

(* formGoldCost: by the grade of the file, and never free.                 *)
GoldCost(form, grade) == FormGold[form] * AtLeastOne(grade)

(* arbitrationStanding: Right of Audience, for the officer's own forms.    *)
ArbitrationStanding(form) ==
  IF FormStanding[form] > Audience THEN FormStanding[form] - Audience ELSE 0

(* The wait an officer is shown, and never less than none.                 *)
Wait(q) == IF q.due > tick THEN q.due - tick ELSE 0

(* Gate and debit of a form's gold and regard.                             *)
Charged(fee, dues) ==
  /\ gold >= fee /\ regard >= dues
  /\ gold' = gold - fee
  /\ regard' = regard - dues

Arbitration(f, index) ==
  [form |-> "12-C", ref |-> f.ref, index |-> index, was |-> f.clauses[index], brings |-> None,
   due |-> tick + FormTicks["12-C"], donor |-> 0, of |-> f.find]

Requisition(f, index, donor, at) ==
  [form |-> "19", ref |-> f.ref, index |-> index, was |-> f.clauses[index], brings |-> donor.clauses[at],
   due |-> tick + FormTicks["19"], donor |-> donor.find, of |-> f.find]

FileArbitration(ref, index) ==
  /\ phase = "open" /\ alive
  /\ \E f \in Named(ref) :
       /\ index \in DOMAIN f.clauses
       /\ Charged(GoldCost("12-C", f.grade), ArbitrationStanding("12-C"))
       /\ filings' = filings \cup {Arbitration(f, index)}
  /\ ~Contested(ref, index)
  /\ UNCHANGED <<phase, tick, span, alive, drawer, left, finds>>

FileRequisition(ref, index, from, at) ==
  /\ phase = "open" /\ alive
  /\ from # ref
  /\ ~Contested(ref, index) /\ ~Busy(from)
  /\ \E f \in Named(ref), donor \in Named(from) :
       /\ index \in DOMAIN f.clauses /\ at \in DOMAIN donor.clauses
       /\ ~Endorsed(f, donor.clauses[at], index)
       /\ MinGrade[donor.clauses[at]] <= f.grade
       /\ Charged(GoldCost("19", f.grade), ArbitrationStanding("19"))
       /\ filings' = filings \cup {Requisition(f, index, donor, at)}
  /\ drawer' = Without(from)
  /\ UNCHANGED <<phase, tick, span, alive, left, finds>>

(* Form 5-E, free and at once: every file of that number.                  *)
Countersign(ref, keep) ==
  /\ phase = "open" /\ alive
  /\ \E f \in Named(ref) : f.kept # keep
  /\ drawer' = {IF f.ref = ref THEN [f EXCEPT !.kept = keep] ELSE f : f \in drawer}
  /\ UNCHANGED <<phase, tick, span, alive, filings, gold, regard, left, finds>>

(* firstContestable: the first rider in the drawer that is on a file of    *)
(* the grade and not before the panel.                                     *)
Contestable(fromGrade) ==
  {x \in drawer \X Indices :
     /\ x[1].grade >= fromGrade /\ x[2] \in DOMAIN x[1].clauses
     /\ Kind(x[1].clauses[x[2]]) /\ ~Contested(x[1].ref, x[2])}

Foremost(pairs) ==
  {x \in pairs : \A y \in pairs : x[1].find < y[1].find \/ (x[1].find = y[1].find /\ x[2] <= y[2])}

(* One form of the Archivist's visit.                                      *)
ArchivistFiles(fromGrade) ==
  /\ phase = "visit" /\ left > 0
  /\ \E x \in Foremost(Contestable(fromGrade)) :
       /\ Charged((GoldCost("12-C", x[1].grade) * Share + 50) \div 100, AtLeastOne(FormStanding["12-C"] - Relief))
       /\ filings' = filings \cup {Arbitration(x[1], x[2])}
  /\ left' = left - 1
  /\ UNCHANGED <<phase, tick, span, alive, drawer, finds>>

-----------------------------------------------------------------------------
Idle == phase = "open" /\ tick = MaxDrawerTick /\ UNCHANGED drawerVars

Officer ==
  \/ Succeed
  \/ \E ref \in Refs :
       \/ \E keep \in BOOLEAN : Countersign(ref, keep)
       \/ \E i \in Indices : FileArbitration(ref, i)
       \/ \E i, j \in Indices, from \in Refs : FileRequisition(ref, i, from, j)

Visit ==
  \/ \E skipped \in {0, SkippedTicks} : BeginTick(skipped)
  \/ \E q \in filings : Conclude(q)
  \/ AllRuled \/ Die \/ EndOfSpan \/ Payroll \/ EndOfVisit
  \/ \E policy \in Policies : Survive(policy)
  \/ \E g \in Grades : ArchivistFiles(g)

DrawerNext == Officer \/ Visit \/ Idle

DrawerSpec == DrawerInit /\ [][DrawerNext]_drawerVars
-----------------------------------------------------------------------------
(* Properties *)

(* service.ts 667: a clause may not appear twice on one file, nor sit      *)
(* above its grade, whatever rulings and transfers met on it meanwhile.    *)
(* The grade is looked at when a transfer is filed and not when it is      *)
(* concluded: it is kept as long as a form meets the file it was filed     *)
(* for, and case numbers are all that tells the files apart.               *)
WellFormedFiles ==
  \A f \in drawer :
    /\ \A j, k \in DOMAIN f.clauses : f.clauses[j] = f.clauses[k] => j = k
    /\ ~f.mistaken => \A j \in DOMAIN f.clauses : MinGrade[f.clauses[j]] <= f.grade

(* service.ts 667, as it stands.                                           *)
NeverAboveGrade == \A f \in drawer : \A j \in DOMAIN f.clauses : MinGrade[f.clauses[j]] <= f.grade

(* A form that is due has been ruled on before its recruit meets anything  *)
(* or its officer sees it, across absences of any length and forms that    *)
(* overtake each other.  What one form holds no other has: there is one    *)
(* form to a clause, whoever files it, and the file that a requisition     *)
(* consumes brings clauses to no other, and is not in the drawer as well.  *)
FilingsInOrder ==
  /\ alive /\ phase # "ruling" => \A q \in filings : Wait(q) > 0
  /\ \A q, r \in filings :
       /\ q.ref = r.ref /\ q.index = r.index => q = r
       /\ q.form = "19" =>
            /\ r.donor = q.donor => r = q
            /\ \A f \in drawer : f.find # q.donor

Gone(f) == \A g \in drawer' : g.find # f.find

(* A file the panel is looking at is consumed by no form; a countersigned  *)
(* one is displaced by no find, even a better one (items.ts 211), and goes *)
(* by its officer's hand or with its recruit.                              *)
FilesGoRightly ==
  [][\A f \in drawer : Gone(f) =>
       /\ f.kept => phase = "open"
       /\ (\E q \in filings : q.ref = f.ref) => phase = "encounter" \/ filings' = {}]_drawerVars
=============================================================================
