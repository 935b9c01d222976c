----------------------------- MODULE Assignments -----------------------------
(***************************************************************************)
(* Special Assignments of one account, over the careers that work them:    *)
(* accepted, assessed after every span that is resolved, completed and     *)
(* paid in Commendations, failed with the recruit, or handed back.         *)
(*                                                                         *)
(* Whatever resolves holds the recruit's row from its first read to its    *)
(* commit, so it is one step; abandonAssignment reads the board before it  *)
(* asks for that row, so it is two.  What a minute brings is left open     *)
(* within what the resolver does with it.                                  *)
(*                                                                         *)
(* `worked', `paid', `award' and `crossed' are history: what was done      *)
(* since the last acceptance, what was paid for, the award of the last     *)
(* step, and whether an assignment was handed back on a board that had     *)
(* moved on.                                                               *)
(***************************************************************************)
EXTENDS Integers

CONSTANTS
  Catalogue,              \* ASSIGNMENT_CATALOGUE: metric, target, single, cap
  NoAssignment,
  NoCap,                  \* a grade no cap reaches
  MinService,             \* RETIREMENT_MIN_SERVICE_TICKS
  IntakeFloor, Intakes,   \* the grade Commendations start recruits on; those rungs may
  MaxFloor,
  MaxGrade, LastMinute, MaxSpan  \* bounds

Ids == DOMAIN Catalogue

Metrics == {"depth", "grade", "service", "floors", "files"}

ASSUME AssignmentsAssumption ==
  /\ Catalogue \in [Ids -> [metric: Metrics, target: Nat, single: BOOLEAN, cap: Nat]]
  /\ NoAssignment \notin Ids
  /\ NoCap \in Nat /\ IntakeFloor \in Nat /\ MaxFloor \in Nat
  /\ Intakes \subseteq Nat

VARIABLES minute, officer, board, abandoning, worked, paid, award, crossed

boardVars == <<minute, officer, board, abandoning, worked, paid, award, crossed>>

Empty == [active |-> NoAssignment, progress |-> 0, startedTick |-> 0, completed |-> {}]
NotReading == [Empty EXCEPT !.progress = -1]
NoWork == [count |-> 0, grade |-> 0, early |-> 0, lost |-> 0]
NoAward == [id |-> NoAssignment, work |-> NoWork]

(* A grade freeze is the only restriction the board depends on that is not *)
(* the loss of the recruit.                                                *)
CapOf(id) == IF id = NoAssignment THEN NoCap ELSE Catalogue[id].cap

-----------------------------------------------------------------------------
(* A span, minute by minute *)

(* A retreat is all there is to its minute.  A find is counted for nothing *)
(* but an assignment of finds, and left out where the catalogue has none.  *)
Counts(event) == event = "find" => \E id \in Ids : Catalogue[id].metric = "files"

Minutes == {{"retreat"}} \cup SUBSET {event \in {"descend", "find", "promote"} : Counts(event)}

Lived(x, m, cap) ==
  LET down == "descend" \in m /\ x.depth < MaxFloor
      up   == "promote" \in m /\ x.level < cap /\ x.level < MaxGrade
      d    == IF down THEN x.depth + 1
              ELSE IF "retreat" \in m /\ x.depth > 0 THEN x.depth - 1 ELSE x.depth
  IN  [depth   |-> d,
       level   |-> IF up THEN x.level + 1 ELSE x.level,
       deepest |-> IF d > x.deepest THEN d ELSE x.deepest,
       floors  |-> IF down THEN x.floors + 1 ELSE x.floors,
       files   |-> IF "find" \in m THEN x.files + 1 ELSE x.files,
       entered |-> IF down /\ d > x.entered THEN d ELSE x.entered,
       grade   |-> IF up THEN x.level + 1 ELSE x.grade]

(* The counters at the end of n minutes, begun at start.                   *)
CountersAfter(start, minutes, n, cap) ==
  LET x[i \in 0..n] == IF i = 0 THEN start ELSE Lived(x[i - 1], minutes[i], cap)
  IN  x[n]

(* The counters start at the floor the recruit stands on.  A recruit that  *)
(* dies does so after its last descent.                                    *)
Spans(r, cap) ==
  LET length == minute - r.resolved
      start == [depth |-> r.depth, level |-> r.level, deepest |-> r.depth,
                floors |-> 0, files |-> 0, entered |-> 0, grade |-> 0]
      Span(minutes, n, died) ==
        [ends |-> CountersAfter(start, minutes, n, cap), died |-> died, length |-> n]
  IN  {Span(minutes, length, FALSE) : minutes \in [1..length -> Minutes]}
      \cup UNION {{Span(minutes, n, TRUE) :
                     minutes \in {f \in [1..n -> Minutes] : f[n] \subseteq {"descend"}}} :
                  n \in 1..length}

After(r, span) ==
  [r EXCEPT !.depth = span.ends.depth, !.level = span.ends.level,
            !.alive = ~span.died, !.resolved = @ + span.length]

-----------------------------------------------------------------------------
(* applyAssignment *)

Later(a, b) == IF a > b THEN a ELSE b

(* Two watermarks, the life of the recruit since acceptance, two sums.     *)
Progress(b, r, ends) ==
  LET metric == Catalogue[b.active].metric
  IN  CASE metric = "depth"   -> Later(b.progress, ends.deepest)
        [] metric = "grade"   -> Later(b.progress, r.level)
        [] metric = "service" -> Later(0, r.resolved - Later(b.startedTick, r.born))
        [] metric = "floors"  -> b.progress + ends.floors
        [] metric = "files"   -> b.progress + ends.files

(* Mutation: the file of a lost recruit kept open.                         *)
ClosesNever(b, span) == FALSE

(* A death under Sole Charge, whatever was reached before it.              *)
Closes(b, span) == span.died /\ Catalogue[b.active].single

Completes(b, r, span) ==
  ~Closes(b, span) /\ Progress(b, r, span.ends) >= Catalogue[b.active].target

Returned(b) == [b EXCEPT !.active = NoAssignment, !.progress = 0, !.startedTick = 0]

Assessed(b, r, span) ==
  IF b.active = NoAssignment THEN b
  ELSE IF Closes(b, span) THEN Returned(b)
  ELSE IF Completes(b, r, span) THEN [Returned(b) EXCEPT !.completed = @ \cup {b.active}]
  ELSE [b EXCEPT !.progress = Progress(b, r, span.ends)]

(* The history: what the metric asks for as far as it was done under the   *)
(* assignment, the floors entered and the grades reached in it.            *)
Counted(b, span) ==
  LET metric == Catalogue[b.active].metric
  IN  CASE metric = "depth"   -> Later(worked.count, span.ends.entered)
        [] metric = "grade"   -> Later(worked.count, span.ends.grade)
        [] metric = "service" -> officer.resolved + span.length - Later(b.startedTick, officer.born)
        [] OTHER              -> worked.count + span.ends[metric]

Done(b, span) ==
  IF b.active = NoAssignment THEN NoWork
  ELSE [count |-> Counted(b, span),
        grade |-> Later(worked.grade, span.ends.grade),
        early |-> worked.early + Later(0, b.startedTick - officer.resolved),
        lost  |-> worked.lost + (IF span.died THEN 1 ELSE 0)]

Pays(b, r, span) == b.active # NoAssignment /\ Completes(b, r, span)

-----------------------------------------------------------------------------
(* The handlers *)

(* What a handler that resolves first leaves, for each span it may find;   *)
(* paid twice is too often already.                                        *)
AfterResolve(span) ==
  LET r == After(officer, span)
      b == Assessed(board, r, span)
  IN  [recruit |-> r, board |-> b,
       paid    |-> IF Pays(board, r, span) THEN [paid EXCEPT ![board.active] = IF @ < 2 THEN @ + 1 ELSE 2] ELSE paid,
       award   |-> IF Pays(board, r, span)
                   THEN [id |-> board.active, work |-> Done(board, span)] ELSE NoAward,
       worked  |-> IF b.active = NoAssignment THEN NoWork ELSE Done(board, span)]

(* A span of no minutes is assessed by a read, and by nothing else.        *)
Inside(span) ==
  IF span.length = 0
  THEN [recruit |-> officer, board |-> board, paid |-> paid, award |-> NoAward, worked |-> worked]
  ELSE AfterResolve(span)

Commit(x) ==
  /\ officer' = x.recruit /\ board' = x.board
  /\ paid' = x.paid /\ award' = x.award /\ worked' = x.worked
  /\ UNCHANGED <<minute, abandoning, crossed>>

LoadState ==
  /\ officer.alive
  /\ \E span \in Spans(officer, CapOf(board.active)) : Commit(AfterResolve(span))

(* Form SO-1 and every other write that resolves and leaves the board be.  *)
ResolveOnly ==
  /\ officer.alive
  /\ \E span \in Spans(officer, CapOf(board.active)) : Commit(Inside(span))

(* Mutation: the span already lived resolved after the acceptance.         *)
AcceptedUnresolved(id, span) ==
  [recruit |-> officer, paid |-> paid, award |-> NoAward, worked |-> NoWork,
   board |-> [active |-> id, progress |-> 0, startedTick |-> minute, completed |-> board.completed]]

(* Mutation: a closed assignment taken again.                              *)
OpenToAll(b, id) == b.active = NoAssignment

(* One at a time, each until it is completed.                              *)
Open(b, id) == b.active = NoAssignment /\ id \notin b.completed

(* The board once the span is resolved: one it completes makes room.       *)
Accepted(id, span) ==
  LET x == Inside(span)
  IN  [x EXCEPT !.board = [active |-> id, progress |-> 0, startedTick |-> x.recruit.resolved,
                           completed |-> x.board.completed],
                !.worked = NoWork]

AcceptAssignment(id) ==
  /\ officer.alive
  /\ \E span \in Spans(officer, CapOf(board.active)) :
       /\ Open(Inside(span).board, id)
       /\ Commit(Accepted(id, span))

(* abandonAssignment: nothing is resolved, and the board it writes is the  *)
(* one it read.                                                            *)
AbandonRead ==
  /\ abandoning = NotReading /\ board.active # NoAssignment
  /\ abandoning' = board
  /\ UNCHANGED <<minute, officer, board, worked, paid, award, crossed>>

AbandonWrite ==
  /\ abandoning # NotReading
  /\ board' = Returned(abandoning)
  /\ crossed' = (crossed \/ abandoning # board)
  /\ abandoning' = NotReading
  /\ UNCHANGED <<minute, officer, worked, paid, award>>

(* inheritedLevel: a share of the grade, larger the deeper it served.      *)
Inherited(level, depth) ==
  LET pct == 55 + 4 * depth
  IN  Later(1, (level * (IF pct < 100 THEN pct ELSE 100)) \div 100)

(* A successor, at the grade it inherits or the one every recruit starts   *)
(* on.                                                                     *)
Successors(level, depth) ==
  {[alive |-> TRUE, depth |-> 0, level |-> Later(Inherited(level, depth), intake),
    born |-> minute, resolved |-> minute] : intake \in Intakes}

(* The floor on record of a death is the deepest of its span.              *)
ClaimPension ==
  /\ ~officer.alive
  /\ \E depth \in officer.depth..MaxFloor : officer' \in Successors(officer.level, depth)
  /\ UNCHANGED <<minute, board, abandoning, worked, paid, award, crossed>>

(* Form R-1, after MinService: the successor in the same transaction, and  *)
(* the board stays.                                                        *)
RetireRecruit ==
  /\ officer.alive
  /\ \E span \in Spans(officer, CapOf(board.active)) :
       LET x == Inside(span)
       IN  /\ x.recruit.alive
           /\ x.recruit.resolved - x.recruit.born >= MinService
           /\ \E next \in Successors(x.recruit.level, x.recruit.depth) : Commit([x EXCEPT !.recruit = next])

(* Form T-1, survived or not: a posting that inherits no grade and has no  *)
(* rungs, at the tick its predecessor was resolved to.                     *)
FileTransfer ==
  /\ officer.alive
  /\ \E span \in Spans(officer, CapOf(board.active)) :
       LET x == Inside(span)
       IN  Commit([x EXCEPT !.recruit = [alive |-> TRUE, depth |-> 0, level |-> IntakeFloor,
                                         born |-> @.resolved, resolved |-> @.resolved]])

MinutePasses ==
  /\ minute < LastMinute
  /\ officer.alive => minute - officer.resolved < MaxSpan
  /\ minute' = minute + 1
  /\ UNCHANGED <<officer, board, abandoning, worked, paid, award, crossed>>

BoardInit ==
  /\ minute = 0
  /\ officer = [alive |-> TRUE, depth |-> 0, level |-> 1, born |-> 0, resolved |-> 0]
  /\ board = Empty
  /\ abandoning = NotReading
  /\ worked = NoWork
  /\ paid = [id \in Ids |-> 0]
  /\ award = NoAward
  /\ crossed = FALSE

BoardNext ==
  \/ LoadState \/ ResolveOnly \/ ClaimPension \/ RetireRecruit \/ FileTransfer
  \/ AbandonRead \/ AbandonWrite \/ MinutePasses
  \/ \E id \in Ids : AcceptAssignment(id)

BoardSpec == BoardInit /\ [][BoardNext]_boardVars

-----------------------------------------------------------------------------
(* Properties *)

(* assignments.ts:40, each completes once: what was paid for is on the     *)
(* board as completed, and paid for once, unless an assignment was handed  *)
(* back on a board that had moved on meanwhile.                            *)
EachCompletesOnce ==
  ~crossed => \A id \in Ids : paid[id] = IF id \in board.completed THEN 1 ELSE 0

(* An assignment is paid for under its own rules: nobody was lost under    *)
(* Sole Charge nor promoted past a freeze, floors and files were all done  *)
(* since it was accepted, and service is the recruit's own, since then.    *)
PaidUnderItsRules ==
  award.id # NoAssignment =>
    LET spec == Catalogue[award.id]
    IN  /\ spec.single => award.work.lost = 0
        /\ award.work.grade <= spec.cap
        /\ spec.metric \notin {"depth", "grade"} => award.work.count >= spec.target
        /\ award.work.early = 0

(* service.ts:2085, the span already lived does not count toward an        *)
(* assignment accepted after the fact: nor do the floor and the grade it   *)
(* brought the recruit to.                                                 *)
NothingEarlierCounts ==
  award.id # NoAssignment => award.work.count >= Catalogue[award.id].target
=============================================================================
