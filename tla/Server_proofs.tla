---------------------------- MODULE Server_proofs ----------------------------
(***************************************************************************)
(* Theorems about Server, for any servers, deploys, builds and clocks.     *)
(*                                                                         *)
(* A boot reads once what it has to apply, and applies it in order; others *)
(* may record the same files before it does.  What it has read and has not *)
(* yet met stays, with what is recorded by then, all that its build asks   *)
(* for: so the next file never leaves a gap, and when none is left the     *)
(* schema is its own.                                                      *)
(***************************************************************************)
EXTENDS Server, FiniteSetTheorems, WellFoundedInduction, TLAPS

TimesOK ==
  /\ now \in Nat /\ due \in Nat \cup {NoWorld}
  /\ skew \in [Processes -> Nat] /\ offset \in [Processes -> Nat] /\ mark \in [Processes -> Nat]

BootsOK ==
  /\ stage \in [Processes -> Stages]
  /\ pending \in [Processes -> SUBSET Versions]
  /\ applied \subseteq Versions

(* No recorded file comes after one that is not.                           *)
NoGaps == \A v \in applied : 1..v \subseteq applied

(* A boot between its reading and its last file.                           *)
NothingForgotten ==
  \A p \in Processes : stage[p] = "applying" =>
    /\ pending[p] \subseteq 1..Build[p]
    /\ 1..Build[p] \subseteq applied \cup pending[p]

Serves(p) == stage[p] \in {"serving", "locking", "beating"}

ReadyToServe ==
  \A p \in Processes :
    /\ stage[p] = "seeding" \/ Serves(p) => 1..Build[p] \subseteq applied
    /\ Serves(p) => due \in Nat

ServerInv == TimesOK /\ BootsOK /\ NoGaps /\ NothingForgotten /\ ReadyToServe

-----------------------------------------------------------------------------
(* Constants, and the first of a set of versions *)

LEMMA Constants ==
  /\ Heartbeat \in Nat /\ LastMigration \in Nat
  /\ Build \in [Processes -> Versions] /\ Skews \subseteq Nat /\ Advances \subseteq Nat
BY ServerAssumption

(* A set of naturals has a least element: the intervals up to its members  *)
(* are well-founded by inclusion.                                          *)
LEMMA LeastExists == \A T \in SUBSET Nat : T # {} => \E x \in T : \A y \in T : x <= y
<1> SUFFICES ASSUME NEW T \in SUBSET Nat, T # {} PROVE \E x \in T : \A y \in T : x <= y
  OBVIOUS
<1> DEFINE intervals == {0..n : n \in T}
<1>1. intervals \subseteq FiniteSubsetsOf(Nat) /\ intervals # {}
  <2> SUFFICES ASSUME NEW n \in T PROVE 0..n \in FiniteSubsetsOf(Nat)
    OBVIOUS
  <2>1. IsFiniteSet(0..n)
    BY FS_Interval
  <2>2. 0..n \subseteq Nat
    OBVIOUS
  <2> QED BY <2>1, <2>2 DEF FiniteSubsetsOf
<1>2. \E U \in intervals : \A V \in intervals : <<V, U>> \notin StrictSubsetOrdering(Nat)
  <2> HIDE DEF intervals
  <2> QED BY <1>1, FS_StrictSubsetOrderingWellFounded, WFMin
<1>3. PICK m \in T : \A y \in T : <<0..y, 0..m>> \notin StrictSubsetOrdering(Nat)
  BY <1>2
<1>4. ASSUME NEW y \in T, y < m PROVE FALSE
  <2>1. 0..y \subseteq 0..m /\ m \in 0..m /\ m \notin 0..y
    BY <1>4
  <2>2. 0..y \subseteq Nat /\ 0..m \subseteq Nat
    OBVIOUS
  <2>3. <<0..y, 0..m>> \in StrictSubsetOrdering(Nat)
    BY <2>1, <2>2 DEF StrictSubsetOrdering
  <2> QED BY <1>3, <2>3
<1> QED BY <1>4

LEMMA FirstIsLeast ==
  ASSUME NEW S \in SUBSET Versions, S # {}
  PROVE  First(S) \in S /\ \A w \in S : First(S) <= w
<1>1. S \in SUBSET Nat
  BY Constants DEF Versions
<1>2. \E v \in S : \A w \in S : v <= w
  BY <1>1, LeastExists
<1> QED BY <1>2 DEF First

LEMMA InitServerInv == Init => ServerInv
<1> SUFFICES ASSUME Init PROVE ServerInv
  OBVIOUS
<1>1. TimesOK
  BY Constants DEF Init, TimesOK, NoWorld
<1>2. BootsOK
  BY DEF Init, BootsOK, Stages
<1>3. NoGaps /\ NothingForgotten /\ ReadyToServe
  BY DEF Init, NoGaps, NothingForgotten, ReadyToServe, Serves
<1> QED BY <1>1, <1>2, <1>3 DEF ServerInv

-----------------------------------------------------------------------------
(* One step of one process *)

(* A step that takes p nowhere it had to be ready for, and leaves the rest *)
(* of the processes, the schema and the world row as they were.            *)
StepsBack(p) ==
  /\ stage' \in [Processes -> Stages] /\ pending' \in [Processes -> SUBSET Versions]
  /\ stage'[p] \in {"down", "waiting", "migrating", "refused", "alone", "over"}
  /\ \A q \in Processes \ {p} : stage'[q] = stage[q] /\ pending'[q] = pending[q]
  /\ UNCHANGED <<applied, due>>

LEMMA StepsBackKeepsInv ==
  ASSUME ServerInv, NEW p \in Processes, StepsBack(p), TimesOK'
  PROVE  ServerInv'
<1>1. BootsOK /\ NoGaps /\ NothingForgotten /\ ReadyToServe
  BY DEF ServerInv
<1>2. /\ stage'[p] \in {"down", "waiting", "migrating", "refused", "alone", "over"}
      /\ \A q \in Processes \ {p} : stage'[q] = stage[q] /\ pending'[q] = pending[q]
      /\ applied' = applied /\ due' = due
  BY DEF StepsBack
<1>3. BootsOK' /\ NoGaps'
  BY <1>1, <1>2 DEF StepsBack, BootsOK, NoGaps
<1>4. NothingForgotten'
  BY <1>1, <1>2 DEF NothingForgotten
<1>5. ReadyToServe'
  BY <1>1, <1>2 DEF ReadyToServe, Serves
<1> QED BY <1>3, <1>4, <1>5 DEF ServerInv

LEMMA EndedStepsBack ==
  ASSUME ServerInv, NEW p \in Processes, Ended(p, "down"), UNCHANGED <<now, applied, due>>
  PROVE  StepsBack(p) /\ TimesOK'
<1>1. TimesOK /\ BootsOK
  BY DEF ServerInv
<1>2. /\ stage' = [stage EXCEPT ![p] = "down"] /\ pending' = [pending EXCEPT ![p] = {}]
      /\ offset' = [offset EXCEPT ![p] = 0] /\ mark' = [mark EXCEPT ![p] = 0] /\ skew' = skew
  BY DEF Ended, At
<1>3. StepsBack(p)
  BY <1>1, <1>2 DEF BootsOK, StepsBack, Stages
<1>4. TimesOK'
  BY <1>1, <1>2 DEF TimesOK
<1> QED BY <1>3, <1>4

(* A step that only moves p on, between stages equally ready.              *)
LEMMA MovingOnKeepsInv ==
  ASSUME ServerInv, NEW p \in Processes, NEW s \in Stages, At(p, s), TimesOK',
         UNCHANGED <<applied, pending>>, due' \in Nat \/ due' = due,
         s # "applying",
         s = "seeding" => 1..Build[p] \subseteq applied,
         s \in {"serving", "locking", "beating"} => 1..Build[p] \subseteq applied /\ due' \in Nat
  PROVE  ServerInv'
<1>1. BootsOK /\ NoGaps /\ NothingForgotten /\ ReadyToServe
  BY DEF ServerInv
<1>2. /\ stage' = [stage EXCEPT ![p] = s] /\ stage'[p] = s
      /\ \A q \in Processes \ {p} : stage'[q] = stage[q]
  BY <1>1 DEF At, BootsOK
<1>3. BootsOK' /\ NoGaps'
  BY <1>1, <1>2 DEF BootsOK, NoGaps
<1>4. NothingForgotten'
  BY <1>1, <1>2 DEF NothingForgotten
<1>5. ReadyToServe'
  BY <1>1, <1>2 DEF ReadyToServe, Serves
<1> QED BY <1>3, <1>4, <1>5 DEF ServerInv

LEMMA BootKeepsInv ==
  ASSUME ServerInv, NEW p \in Processes, Boot(p)
  PROVE  ServerInv'
<1>1. TimesOK /\ BootsOK /\ NoGaps /\ NothingForgotten /\ ReadyToServe
  BY DEF ServerInv
<1>2. CASE Start(p)
  <2>1. UNCHANGED <<now, due, skew, offset, mark, applied, pending>>
    BY <1>2 DEF Start
  <2>2. PICK s \in {"waiting", "refused", "alone"} : At(p, s)
    BY <1>2 DEF Start
  <2>3. StepsBack(p)
    BY <1>1, <2>1, <2>2 DEF At, StepsBack, BootsOK, Stages
  <2>4. TimesOK'
    BY <1>1, <2>1 DEF TimesOK
  <2> QED BY <2>3, <2>4, StepsBackKeepsInv
<1>3. CASE Await(p)
  <2>1. CASE Ended(p, "down")
    BY <1>3, <2>1, EndedStepsBack, StepsBackKeepsInv DEF Await
  <2>2. CASE ~Ended(p, "down")
    <3>1. UNCHANGED <<now, due, skew, offset, mark, applied, pending>>
      BY <1>3, <2>2 DEF Await
    <3>2. TimesOK'
      BY <1>1, <3>1 DEF TimesOK
    <3>3. CASE At(p, "migrating")
      <4>1. StepsBack(p)
        BY <1>1, <3>1, <3>3 DEF At, StepsBack, BootsOK, Stages
      <4> QED BY <3>2, <4>1, StepsBackKeepsInv
    <3>4. CASE stage' = stage
      BY <1>1, <3>1, <3>2, <3>4 DEF ServerInv, BootsOK, NoGaps, NothingForgotten, ReadyToServe, Serves
    <3> QED BY <1>3, <2>2, <3>3, <3>4 DEF Await
  <2> QED BY <2>1, <2>2
<1>4. CASE ReadPending(p)
  <2>1. CASE Ended(p, "down")
    BY <1>4, <2>1, EndedStepsBack, StepsBackKeepsInv DEF ReadPending
  <2>2. CASE At(p, "seeding") /\ MayServe(p) /\ UNCHANGED <<pending, skew, offset, mark>>
    <3>1. UNCHANGED <<now, due, applied>>
      BY <1>4 DEF ReadPending
    <3>2. TimesOK'
      BY <1>1, <2>2, <3>1 DEF TimesOK
    <3>3. 1..Build[p] \subseteq applied
      BY <2>2 DEF MayServe, Outstanding
    <3> QED BY <2>2, <3>1, <3>2, <3>3, MovingOnKeepsInv DEF Stages
  <2>3. CASE /\ At(p, "applying") /\ pending' = [pending EXCEPT ![p] = Outstanding(p)]
             /\ UNCHANGED <<skew, offset, mark>>
    <3>1. applied' = applied /\ due' = due /\ now' = now
      BY <1>4 DEF ReadPending
    <3>2. TimesOK'
      BY <1>1, <2>3, <3>1 DEF TimesOK
    <3>3. Outstanding(p) \in SUBSET Versions
      BY Constants DEF Outstanding, Versions
    <3>4. /\ stage' \in [Processes -> Stages] /\ pending' \in [Processes -> SUBSET Versions]
          /\ stage'[p] = "applying" /\ pending'[p] = Outstanding(p)
          /\ \A q \in Processes \ {p} : stage'[q] = stage[q] /\ pending'[q] = pending[q]
      BY <1>1, <2>3, <3>3 DEF At, BootsOK, Stages
    <3>5. BootsOK' /\ NoGaps'
      BY <1>1, <3>1, <3>4 DEF BootsOK, NoGaps
    <3>6. NothingForgotten'
      BY <1>1, <3>1, <3>4 DEF NothingForgotten, Outstanding
    <3>7. ReadyToServe'
      BY <1>1, <3>1, <3>4 DEF ReadyToServe, Serves
    <3> QED BY <3>2, <3>5, <3>6, <3>7 DEF ServerInv
  <2> QED BY <1>4, <2>1, <2>2, <2>3 DEF ReadPending
<1>5. CASE Apply(p)
  <2> DEFINE v == First(pending[p])
  <2>1. stage[p] = "applying" /\ pending[p] # {} /\ pending[p] \in SUBSET Versions
    BY <1>1, <1>5 DEF Apply, BootsOK
  <2>2. CASE Ended(p, "down") /\ applied' = applied
    BY <1>5, <2>2, EndedStepsBack, StepsBackKeepsInv DEF Apply
  <2>3. CASE applied' = applied \cup {v} /\ pending' = [pending EXCEPT ![p] = @ \ {v}] /\ v \notin applied
             /\ UNCHANGED <<stage, skew, offset, mark>>
    <3>1. now' = now /\ due' = due
      BY <1>5 DEF Apply
    <3>2. v \in pending[p] /\ \A w \in pending[p] : v <= w
      BY <2>1, FirstIsLeast
    <3>3. /\ stage' = stage /\ pending' \in [Processes -> SUBSET Versions]
          /\ pending'[p] = pending[p] \ {v}
          /\ \A q \in Processes \ {p} : pending'[q] = pending[q]
      BY <1>1, <2>3 DEF BootsOK
    <3>4. TimesOK'
      BY <1>1, <2>3, <3>1 DEF TimesOK
    <3>5. BootsOK'
      BY <1>1, <2>1, <2>3, <3>2, <3>3 DEF BootsOK
    <3>6. NoGaps'
      <4>1. 1..v \subseteq applied \cup {v}
        <5> SUFFICES ASSUME NEW w \in 1..v, w # v PROVE w \in applied
          OBVIOUS
        <5>1. v \in 1..Build[p] /\ Build[p] \in Nat
          BY <1>1, <2>1, <3>2, Constants DEF NothingForgotten, Versions
        <5>2. w \in 1..Build[p] /\ ~(v <= w)
          BY <5>1
        <5> QED BY <1>1, <2>1, <3>2, <5>2 DEF NothingForgotten
      <4> HIDE DEF v
      <4> QED BY <1>1, <2>3, <4>1 DEF NoGaps
    <3>7. NothingForgotten'
      <4> HIDE DEF v
      <4> SUFFICES ASSUME NEW q \in Processes, stage[q] = "applying"
                   PROVE  /\ pending'[q] \subseteq 1..Build[q]
                          /\ 1..Build[q] \subseteq applied' \cup pending'[q]
        BY <3>3 DEF NothingForgotten
      <4>1. pending[q] \subseteq 1..Build[q] /\ 1..Build[q] \subseteq applied \cup pending[q]
        BY <1>1 DEF NothingForgotten
      <4>2. pending'[q] = pending[q] \/ pending'[q] = pending[q] \ {v}
        BY <3>3
      <4> QED BY <2>3, <4>1, <4>2
    <3>8. ReadyToServe'
      <4> HIDE DEF v
      <4> QED BY <1>1, <2>3, <3>1, <3>3 DEF ReadyToServe, Serves
    <3> QED BY <3>4, <3>5, <3>6, <3>7, <3>8 DEF ServerInv
  <2> QED BY <1>5, <2>2, <2>3 DEF Apply
<1>6. CASE Migrated(p)
  <2>1. UNCHANGED <<now, due, skew, offset, mark, applied, pending>>
    BY <1>6 DEF Migrated
  <2>2. TimesOK'
    BY <1>1, <2>1 DEF TimesOK
  <2>3. 1..Build[p] \subseteq applied
    BY <1>1, <1>6 DEF Migrated, NothingForgotten
  <2>4. PICK s \in {"over", "seeding"} : At(p, s)
    BY <1>6 DEF Migrated
  <2> QED BY <2>1, <2>2, <2>3, <2>4, MovingOnKeepsInv DEF Stages
<1>7. CASE Seed(p)
  <2>1. UNCHANGED <<now, skew, offset, mark, applied, pending>> /\ At(p, "serving")
    BY <1>7 DEF Seed
  <2>2. due' \in Nat
    BY <1>1, <1>7, Constants DEF Seed, TimesOK
  <2>3. TimesOK'
    BY <1>1, <2>1, <2>2 DEF TimesOK
  <2>4. 1..Build[p] \subseteq applied
    BY <1>1, <1>7 DEF Seed, ReadyToServe
  <2> QED BY <2>1, <2>2, <2>3, <2>4, MovingOnKeepsInv DEF Stages
<1> QED BY <1>2, <1>3, <1>4, <1>5, <1>6, <1>7 DEF Boot

LEMMA ServiceKeepsInv ==
  ASSUME ServerInv, NEW p \in Processes,
         Timer(p) \/ Look(p) \/ Beat(p) \/ Shutdown(p) \/ Crash(p) \/ \E t \in Advances : Advance(p, t)
  PROVE  ServerInv'
<1>1. TimesOK /\ BootsOK /\ NoGaps /\ NothingForgotten /\ ReadyToServe
  BY DEF ServerInv
<1>2. CASE Timer(p)
  <2>1. /\ UNCHANGED <<now, due, skew, offset, applied, pending>> /\ At(p, "locking")
        /\ mark' = [mark EXCEPT ![p] = WorldNow(p)] /\ stage[p] = "serving"
    BY <1>2 DEF Timer
  <2>2. TimesOK'
    BY <1>1, <2>1 DEF TimesOK, WorldNow
  <2>3. 1..Build[p] \subseteq applied /\ due \in Nat
    BY <1>1, <2>1 DEF ReadyToServe, Serves
  <2> QED BY <2>1, <2>2, <2>3, MovingOnKeepsInv DEF Stages
<1>3. CASE Look(p)
  <2>1. UNCHANGED <<now, due, skew, offset, applied, pending>> /\ stage[p] = "locking"
    BY <1>3 DEF Look
  <2>2. mark' \in [Processes -> Nat]
    BY <1>1, <1>3 DEF Look, TimesOK
  <2>3. TimesOK'
    BY <1>1, <2>1, <2>2 DEF TimesOK
  <2>4. 1..Build[p] \subseteq applied /\ due \in Nat
    BY <1>1, <2>1 DEF ReadyToServe, Serves
  <2>5. PICK s \in {"beating", "serving"} : At(p, s)
    BY <1>3 DEF Look
  <2> QED BY <2>1, <2>3, <2>4, <2>5, MovingOnKeepsInv DEF Stages
<1>4. CASE Beat(p)
  <2>1. /\ UNCHANGED <<now, skew, offset, applied, pending>> /\ At(p, "serving")
        /\ mark' = [mark EXCEPT ![p] = 0] /\ stage[p] = "beating" /\ due' = mark[p] + Heartbeat
    BY <1>4 DEF Beat
  <2>2. due' \in Nat
    BY <1>1, <2>1, Constants DEF TimesOK
  <2>3. TimesOK'
    BY <1>1, <2>1, <2>2 DEF TimesOK
  <2>4. 1..Build[p] \subseteq applied
    BY <1>1, <2>1 DEF ReadyToServe, Serves
  <2> QED BY <2>1, <2>2, <2>3, <2>4, MovingOnKeepsInv DEF Stages
<1>5. CASE Shutdown(p)
  BY <1>5, EndedStepsBack, StepsBackKeepsInv DEF Shutdown
<1>6. CASE Crash(p)
  BY <1>6, EndedStepsBack, StepsBackKeepsInv DEF Crash
<1>7. ASSUME NEW t \in Advances, Advance(p, t) PROVE ServerInv'
  <2>1. UNCHANGED <<now, due, skew, mark, applied, pending, stage>> /\ offset' = [offset EXCEPT ![p] = @ + t]
    BY <1>7 DEF Advance
  <2>2. TimesOK'
    BY <1>1, <2>1, Constants DEF TimesOK
  <2> QED BY <1>1, <2>1, <2>2 DEF ServerInv, BootsOK, NoGaps, NothingForgotten, ReadyToServe, Serves
<1> QED BY <1>2, <1>3, <1>4, <1>5, <1>6, <1>7

LEMMA OutageKeepsInv ==
  ASSUME ServerInv, DatabaseGoes
  PROVE  ServerInv'
<1>1. TimesOK /\ BootsOK /\ NoGaps /\ NothingForgotten /\ ReadyToServe
  BY DEF ServerInv
<1>2. /\ UNCHANGED <<now, applied, due, skew, offset>>
      /\ stage' = [p \in Processes |-> IF stage[p] \in {"migrating", "applying", "seeding"} THEN "down"
                                       ELSE IF stage[p] \in {"locking", "beating"} THEN "serving" ELSE stage[p]]
      /\ pending' = [p \in Processes |-> IF stage[p] = "applying" THEN {} ELSE pending[p]]
      /\ mark' = [p \in Processes |-> 0]
  BY DEF DatabaseGoes
<1>3. TimesOK'
  BY <1>1, <1>2 DEF TimesOK
<1>4. \A p \in Processes : stage'[p] = stage[p] \/ stage'[p] = "down" \/ (stage'[p] = "serving" /\ Serves(p))
  BY <1>2 DEF Serves
<1>5. \A p \in Processes : stage'[p] # "applying" /\ stage'[p] # "seeding"
  BY <1>1, <1>2 DEF BootsOK
<1>6. BootsOK'
  BY <1>1, <1>2 DEF BootsOK, Stages
<1>7. NoGaps' /\ NothingForgotten'
  BY <1>1, <1>2, <1>5 DEF NoGaps, NothingForgotten
<1>8. ReadyToServe'
  BY <1>1, <1>2, <1>4, <1>5 DEF ReadyToServe, Serves
<1> QED BY <1>3, <1>6, <1>7, <1>8 DEF ServerInv

LEMMA NextServerInv == ServerInv /\ [Next]_vars => ServerInv'
<1> SUFFICES ASSUME ServerInv, [Next]_vars PROVE ServerInv'
  OBVIOUS
<1>1. CASE UNCHANGED <<applied, due, processes>> /\ now' \in Nat
  <2>1. UNCHANGED <<applied, due, stage, pending, skew, offset, mark>>
    BY <1>1 DEF processes
  <2> QED BY <1>1, <2>1 DEF ServerInv, TimesOK, BootsOK, NoGaps, NothingForgotten, ReadyToServe, Serves
<1>2. CASE Clock \/ DatabaseReturns \/ Idle \/ UNCHANGED vars
  <2>1. now' \in Nat
    BY <1>2 DEF Clock, DatabaseReturns, Idle, vars, ServerInv, TimesOK
  <2> QED BY <1>1, <1>2, <2>1 DEF Clock, DatabaseReturns, Idle, vars
<1> QED BY <1>2, OutageKeepsInv, BootKeepsInv, ServiceKeepsInv DEF Next

-----------------------------------------------------------------------------
(* Theorems *)

(* A server that answers has its own schema and a world row under it, and  *)
(* nobody's record skips a file (migrate.ts, index.ts): for any builds, any *)
(* number of boots, whatever order they apply in and wherever they die.    *)
THEOREM OwnSchema == Spec => []ServesItsOwnSchema
<1>1. Init => ServerInv
  BY InitServerInv
<1>2. ServerInv /\ [Next]_vars => ServerInv'
  BY NextServerInv
<1>3. ServerInv => ServesItsOwnSchema
  BY DEF ServerInv, ReadyToServe, NoGaps, Serves, ServesItsOwnSchema, NoWorld
<1> QED BY <1>1, <1>2, <1>3, PTL DEF Spec
=============================================================================
