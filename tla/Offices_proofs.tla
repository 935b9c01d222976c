---------------------------- MODULE Offices_proofs ----------------------------
(***************************************************************************)
(* The regional effort, for any number of officers, any rotation and any   *)
(* amounts of work: everyone's work is settled once, and the bar is the    *)
(* work done for its cycle.  Both rest on the lock (Held): what an open    *)
(* transaction has read of the world row is what the row still is, because *)
(* nobody else is between that read and a commit.                          *)
(*                                                                         *)
(* The panel, for any drawer, any clauses and grades, any case numbers and *)
(* any times of processing: files stay legal, forms are ruled on in time   *)
(* and no file is taken that may not be.  These rest on what a form        *)
(* remembers (FormsRemember, FitToCarry): which find it was filed for,     *)
(* which it consumed, and that the one could carry what it got of the      *)
(* other.                                                                  *)
(*                                                                         *)
(* The adapters, for any devices, accounts, tokens, limits and times: a    *)
(* phone has one account and the account one recruit (RowsInv), and        *)
(* memory answers as Postgres could.  The latter rests on Same: memory's   *)
(* arrays hold the rows of the tables, in the order of their ids where a   *)
(* query sorts by id, and a death is no later than the start of whoever    *)
(* serves, so that the one which pays a claim came alone.                  *)
(***************************************************************************)
EXTENDS Guild, Casework, Storage, SequenceTheorems, FiniteSetTheorems, WellFoundedInduction, TLAPS

Held ==
  \A t, u \in Transactions :
    /\ seen[t] # Unread => seen[t] = world
    /\ seen[t] # Unread /\ seen[u] # Unread => t = u

(* Nothing is settled of a cycle the standing has not left.                *)
Ahead ==
  \A o \in Officers, c \in Cycles : c >= standing[o].cycle => settled[o][c] = 0

(* No work is on record for a cycle still to come.                         *)
NotYet == \A c \in Cycles : c > world.cycle => advanced[c] = 0

IInv == TypeOK /\ Held /\ Ahead /\ WorkSettledOnce /\ NotYet /\ BarIsTheWork /\ ObjectivesWereMet

-----------------------------------------------------------------------------
(* Arithmetic *)

LEMMA Quotient == \A m \in Nat, n \in Nat \ {0} : m \div n \in Nat
BY SMT

LEMMA Product == \A m, n \in Nat : m * n \in Nat
BY SMT

LEMMA Remainder == \A m \in Nat, n \in Nat \ {0} : m % n \in 0..(n - 1)
BY SMT

LEMMA CyclesNat == Cycles \subseteq Nat
BY GuildAssumption DEF Cycles

(* Every cycle has an objective, and its target is positive.               *)
LEMMA TargetPositive == \A c \in Nat : TargetOf(c) \in Nat \ {0}
  <1> SUFFICES ASSUME NEW c \in Nat PROVE TargetOf(c) \in Nat \ {0}
    OBVIOUS
  <1>1. Len(Targets) \in Nat \ {0} /\ Targets \in [1..Len(Targets) -> Nat \ {0}]
    BY GuildAssumption
  <1>2. c % Len(Targets) \in 0..(Len(Targets) - 1)
    BY <1>1, Remainder
  <1>3. 1 + (c % Len(Targets)) \in 1..Len(Targets)
    BY <1>1, <1>2
  <1> QED  BY <1>1, <1>3 DEF TargetOf

LEMMA ContributionNat == \A raw \in Nat : \A site : ContributionOf(raw, site) \in Nat
BY Quotient DEF ContributionOf

LEMMA ShareNat ==
  ASSUME NEW n \in Nat, NEW target \in Nat \ {0} PROVE GuildShare(n, target) \in Nat
  <1>1. Purse \in Nat /\ MinimumShare \in Nat
    BY GuildAssumption
  <1>2. 2 * n * Purse \in Nat
    BY <1>1, Product
  <1>3. (2 * n * Purse + target) \div (2 * target) \in Nat
    BY <1>2, Quotient
  <1> QED  BY <1>1, <1>3 DEF GuildShare

-----------------------------------------------------------------------------
(* What applyGuild does to a standing and to the bar *)

LEMMA DueNat ==
  ASSUME NEW s \in Standing, NEW w \in World PROVE Due(s, w) \in Nat
BY ShareNat, TargetPositive DEF Due, Standing, World, Cycles

(* Settling brings a standing up to the world, and empties it if it was    *)
(* behind.                                                                 *)
LEMMA SettledStanding ==
  ASSUME NEW s \in Standing, NEW w \in World, s.cycle <= w.cycle
  PROVE  /\ Settled(s, w) \in Standing
         /\ Settled(s, w).cycle = w.cycle
         /\ s.cycle < w.cycle => Settled(s, w).contribution = 0
         /\ s.cycle = w.cycle => Settled(s, w) = s
  <1>1. Due(s, w) \in Nat
    BY DueNat
  <1>2. s.cycle \in Nat /\ w.cycle \in Cycles /\ w.cycle \in Nat /\ s.paid \in Nat
    BY GuildAssumption DEF Standing, World, Cycles
  <1>3. CASE s.cycle < w.cycle
    BY <1>1, <1>2, <1>3 DEF Settled, Standing
  <1>4. CASE s.cycle = w.cycle
    BY <1>2, <1>4 DEF Settled
  <1> QED  BY <1>2, <1>3, <1>4

LEMMA CreditedStanding ==
  ASSUME NEW s \in Standing, world \in World, s.cycle = world.cycle, NEW n \in Nat
  PROVE  Credited(s, n) = [s EXCEPT !.contribution = s.contribution + n]
  <1>1. CASE n = 0
    BY <1>1 DEF Credited, Standing
  <1>2. CASE n # 0
    BY <1>2 DEF Credited, Standing
  <1> QED  BY <1>1, <1>2

(* The add moves the bar by the amount, or to the next objective.          *)
LEMMA AddedWorld ==
  ASSUME world \in World, NEW n \in Nat, world.cycle < MaxCycle
  PROVE  /\ Added(world, n) \in World
         /\ Added(world, n).cycle >= world.cycle
         /\ world.progress + n < world.target =>
              Added(world, n) = [world EXCEPT !.progress = world.progress + n]
         /\ world.progress + n >= world.target =>
              Added(world, n) =
                [cycle |-> world.cycle + 1, progress |-> 0, target |-> TargetOf(world.cycle + 1)]
  <1>1. /\ world.cycle \in Cycles /\ world.cycle \in Nat /\ world.progress \in Nat
        /\ world.target \in Nat /\ MaxCycle \in Nat
    BY GuildAssumption DEF World, Cycles
  <1>2. TargetOf(world.cycle + 1) \in Nat
    BY <1>1, TargetPositive
  <1>3. CASE world.progress + n >= world.target
    <2>1. Added(world, n) =
            [cycle |-> world.cycle + 1, progress |-> 0, target |-> TargetOf(world.cycle + 1)]
      BY <1>3 DEF Added, Completes, NextTarget
    <2>2. world.cycle + 1 \in Cycles
      BY <1>1 DEF Cycles
    <2> QED  BY <1>1, <1>2, <1>3, <2>1, <2>2 DEF World
  <1>4. CASE world.progress + n < world.target
    <2>1. Added(world, n) = [world EXCEPT !.progress = world.progress + n]
      BY <1>1, <1>4 DEF Added, Completes
    <2> QED  BY <1>1, <1>4, <2>1 DEF World
  <1> QED  BY <1>1, <1>3, <1>4

-----------------------------------------------------------------------------
(* The strengthening holds at the start.                                   *)
LEMMA IInit == Init => IInv
  <1> SUFFICES ASSUME Init PROVE IInv
    OBVIOUS
  <1>1. 0 \in Cycles /\ MaxCycle \in Nat
    BY GuildAssumption DEF Cycles
  <1>2. TargetOf(0) \in Nat /\ TargetOf(0) > 0
    BY TargetPositive
  <1>3. world \in World /\ world.cycle = 0 /\ world.progress = 0 /\ world.target = TargetOf(0)
    BY <1>1, <1>2 DEF Init, World
  <1>4. TypeOK
    BY <1>1, <1>3 DEF Init, TypeOK, Standing, Cycles
  <1>5. Held /\ Ahead /\ WorkSettledOnce
    BY DEF Init, Held, Ahead, WorkSettledOnce
  <1>6. NotYet /\ BarIsTheWork /\ ObjectivesWereMet
    BY <1>1, <1>2, <1>3 DEF Init, NotYet, BarIsTheWork, ObjectivesWereMet, Cycles
  <1> QED  BY <1>4, <1>5, <1>6 DEF IInv

(* What an officer's transaction commits, row by row.                      *)
LEMMA Applied ==
  ASSUME IInv, NEW o \in Officers, NEW n \in Nat,
         seen[o] # Unread, Apply(o, n)
  PROVE  /\ seen[o] = world
         /\ Settled(standing[o], world) \in Standing
         /\ standing' = [standing EXCEPT ![o] =
              [Settled(standing[o], world) EXCEPT
                 !.contribution = Settled(standing[o], world).contribution + n]]
         /\ standing'[o].cycle = world.cycle
         /\ \A p \in Officers : p # o => standing'[p] = standing[p]
  <1>1. seen[o] = world
    BY DEF IInv, Held, Transactions
  <1>2. standing[o] \in Standing /\ world \in World /\ standing[o].cycle <= world.cycle
    BY DEF IInv, TypeOK
  <1>3. Settled(standing[o], world) \in Standing /\ Settled(standing[o], world).cycle = world.cycle
    BY <1>2, SettledStanding
  <1>4. Credited(Settled(standing[o], world), n) =
          [Settled(standing[o], world) EXCEPT
             !.contribution = Settled(standing[o], world).contribution + n]
    BY <1>2, <1>3, CreditedStanding
  <1>5. standing' = [standing EXCEPT ![o] = Credited(Settled(standing[o], seen[o]), n)]
    BY DEF Apply
  <1>6. standing' = [standing EXCEPT ![o] =
          [Settled(standing[o], world) EXCEPT
             !.contribution = Settled(standing[o], world).contribution + n]]
    BY <1>1, <1>4, <1>5
  <1>7. standing \in [Officers -> Standing]
    BY DEF IInv, TypeOK
  <1>8. standing'[o].cycle = world.cycle
    <2>1. standing'[o] = [Settled(standing[o], world) EXCEPT
             !.contribution = Settled(standing[o], world).contribution + n]
      BY <1>6, <1>7
    <2> QED  BY <1>3, <2>1 DEF Standing
  <1>9. \A p \in Officers : p # o => standing'[p] = standing[p]
    BY <1>6, <1>7
  <1> QED  BY <1>1, <1>3, <1>6, <1>8, <1>9

(* The world row, as the add leaves it.                                    *)
LEMMA AppliedWorld ==
  ASSUME IInv, NEW o \in Officers, NEW n \in Nat, Apply(o, n)
  PROVE  /\ world' \in World /\ world'.cycle >= world.cycle
         /\ \/ world' = world /\ n = 0
            \/ /\ world' = [world EXCEPT !.progress = world.progress + n]
               /\ world.progress + n < world.target
            \/ /\ world' = [cycle |-> world.cycle + 1, progress |-> 0,
                            target |-> TargetOf(world.cycle + 1)]
               /\ world.progress + n >= world.target
  <1>1. world \in World /\ world.cycle \in Nat /\ world.progress \in Nat /\ world.target \in Nat
    BY GuildAssumption DEF IInv, TypeOK, World, Cycles
  <1>2. CASE n = 0
    BY <1>1, <1>2 DEF Apply
  <1>3. CASE n # 0
    <2>1. world.cycle < MaxCycle /\ world' = Added(world, n)
      BY <1>3 DEF Apply
    <2> QED  BY <1>1, <2>1, AddedWorld
  <1> QED  BY <1>2, <1>3

LEMMA AppliedType ==
  ASSUME IInv, NEW o \in Officers, NEW n \in Nat,
         seen[o] # Unread, Apply(o, n), purse' \in [Officers -> Nat]
  PROVE  TypeOK'
  <1>1. world' \in World /\ world'.cycle >= world.cycle
    BY AppliedWorld
  <1>2. Settled(standing[o], world) \in Standing
    BY Applied
  <1>3. standing \in [Officers -> Standing] /\ world \in World /\ world.cycle \in Cycles
    BY DEF IInv, TypeOK, World
  <1>4. standing' \in [Officers -> Standing]
    <2>1. [Settled(standing[o], world) EXCEPT
              !.contribution = Settled(standing[o], world).contribution + n] \in Standing
      BY <1>2 DEF Standing
    <2> QED  BY <1>3, <2>1, Applied
  <1>5. \A p \in Officers : standing'[p].cycle <= world'.cycle
    <2>1. world.cycle \in Nat /\ world'.cycle \in Nat
      BY <1>1, <1>3, GuildAssumption DEF World, Cycles
    <2>2. \A p \in Officers : standing[p].cycle <= world.cycle /\ standing[p].cycle \in Nat
      BY <1>3, GuildAssumption DEF IInv, TypeOK, Standing, Cycles
    <2> QED  BY <1>1, <2>1, <2>2, Applied
  <1>6. counted' \in [Officers -> [Cycles -> Nat]]
    <2>1. counted \in [Officers -> [Cycles -> Nat]]
      BY DEF IInv, TypeOK
    <2>2. counted[o][world.cycle] + n \in Nat
      BY <1>3, <2>1
    <2> QED  BY <1>3, <2>1, <2>2 DEF Apply
  <1>7. settled' \in [Officers -> [Cycles -> Nat]]
    <2>1. settled \in [Officers -> [Cycles -> Nat]]
      BY DEF IInv, TypeOK
    <2>2. standing[o].cycle \in Cycles /\ standing[o].contribution \in Nat
      BY <1>3 DEF Standing
    <2>3. settled[o][standing[o].cycle] + standing[o].contribution \in Nat
      BY <2>1, <2>2
    <2> QED  BY <2>1, <2>2, <2>3 DEF Apply
  <1>8. advanced' \in [Cycles -> Nat]
    <2>1. advanced \in [Cycles -> Nat] /\ advanced[world.cycle] + n \in Nat
      BY <1>3 DEF IInv, TypeOK
    <2> QED  BY <1>3, <2>1 DEF Apply
  <1>9. seen' \in [Transactions -> World \cup {Unread}]
    BY DEF Apply, IInv, TypeOK
  <1> QED  BY <1>1, <1>4, <1>5, <1>6, <1>7, <1>8, <1>9 DEF TypeOK

(* The work of the transaction is on the standing, and what was on it from *)
(* a cycle gone by is settled.                                             *)
LEMMA AppliedPaid ==
  ASSUME IInv, NEW o \in Officers, NEW n \in Nat,
         seen[o] # Unread, Apply(o, n)
  PROVE  Ahead' /\ WorkSettledOnce'
  <1> DEFINE s == standing[o]
             settle == s.cycle < world.cycle
  <1>1. seen[o] = world
    BY Applied
  <1>2. /\ s \in Standing /\ world \in World /\ s.cycle <= world.cycle
        /\ s.cycle \in Cycles /\ world.cycle \in Cycles /\ Cycles \subseteq Nat
        /\ s.contribution \in Nat /\ s.cycle \in Nat /\ world.cycle \in Nat
    <2>1. s \in Standing /\ world \in World /\ s.cycle <= world.cycle
      BY DEF IInv, TypeOK
    <2>2. s.cycle \in Cycles /\ world.cycle \in Cycles /\ s.contribution \in Nat
      BY <2>1 DEF Standing, World
    <2>3. Cycles \subseteq Nat
      BY CyclesNat
    <2> QED  BY <2>1, <2>2, <2>3
  <1>3. /\ settled \in [Officers -> [Cycles -> Nat]]
        /\ counted \in [Officers -> [Cycles -> Nat]]
        /\ standing \in [Officers -> Standing]
    BY DEF IInv, TypeOK
  <1>4. settled' = IF settle THEN [settled EXCEPT ![o][s.cycle] = settled[o][s.cycle] + s.contribution]
                   ELSE settled
    BY <1>1 DEF Apply
  <1>5. counted' = [counted EXCEPT ![o][world.cycle] = counted[o][world.cycle] + n]
    BY DEF Apply
  <1>6. /\ standing'[o].cycle = world.cycle
        /\ standing'[o].contribution = IF settle THEN n ELSE s.contribution + n
    <2>1. standing'[o] = [Settled(s, world) EXCEPT !.contribution = Settled(s, world).contribution + n]
      BY <1>3, Applied
    <2>2. Settled(s, world) \in Standing
      BY Applied
    <2>3. standing'[o].contribution = Settled(s, world).contribution + n
      BY <2>1, <2>2 DEF Standing
    <2>4. settle => Settled(s, world).contribution = 0
      BY <1>2, SettledStanding
    <2>5. ~settle => Settled(s, world) = s
      BY <1>2 DEF Settled
    <2>6. standing'[o].cycle = world.cycle
      BY Applied
    <2> QED  BY <2>3, <2>4, <2>5, <2>6
  <1>7. \A p \in Officers : p # o =>
          standing'[p] = standing[p] /\ settled'[p] = settled[p] /\ counted'[p] = counted[p]
    BY <1>3, <1>4, <1>5, Applied
  <1>8. \A c \in Cycles :
          /\ settled'[o][c] = IF settle /\ c = s.cycle THEN settled[o][c] + s.contribution
                              ELSE settled[o][c]
          /\ counted'[o][c] = IF c = world.cycle THEN counted[o][c] + n ELSE counted[o][c]
    BY <1>2, <1>3, <1>4, <1>5
  <1>9. \A c \in Cycles :
          /\ counted[o][c] = settled[o][c] + (IF s.cycle = c THEN s.contribution ELSE 0)
          /\ c >= s.cycle => settled[o][c] = 0
          /\ settled[o][c] \in Nat /\ counted[o][c] \in Nat
    BY <1>3 DEF IInv, WorkSettledOnce, Ahead
  <1> HIDE DEF s, settle
  <1>10. ASSUME NEW c \in Cycles
         PROVE  /\ c >= standing'[o].cycle => settled'[o][c] = 0
                /\ counted'[o][c] = settled'[o][c]
                     + (IF standing'[o].cycle = c THEN standing'[o].contribution ELSE 0)
    <2>1. c \in Nat /\ s.cycle \in Nat /\ world.cycle \in Nat
      BY <1>2
    <2>2. CASE settle
      <3>1. s.cycle < world.cycle
        BY <2>2 DEF settle
      <3> QED  BY <1>2, <1>6, <1>8, <1>9, <2>1, <2>2, <3>1
    <2>3. CASE ~settle
      <3>1. s.cycle = world.cycle
        BY <1>2, <2>1, <2>3 DEF settle
      <3> QED  BY <1>2, <1>6, <1>8, <1>9, <2>1, <2>3, <3>1
    <2> QED  BY <2>2, <2>3
  <1>11. Ahead'
    BY <1>7, <1>10 DEF Ahead, IInv
  <1>12. WorkSettledOnce'
    BY <1>7, <1>10 DEF WorkSettledOnce, IInv
  <1> QED  BY <1>11, <1>12

(* The bar moves by the work, and rolls only when its target is met.       *)
LEMMA AppliedBar ==
  ASSUME IInv, NEW o \in Officers, NEW n \in Nat, Apply(o, n)
  PROVE  NotYet' /\ BarIsTheWork' /\ ObjectivesWereMet'
  <1>1. /\ world \in World /\ world.cycle \in Cycles /\ world.cycle \in Nat
        /\ \A c \in Cycles : c \in Nat
        /\ world.progress \in Nat /\ world.target \in Nat
        /\ advanced \in [Cycles -> Nat]
    BY CyclesNat DEF IInv, TypeOK, World
  <1>2. \A c \in Cycles : advanced'[c] = IF c = world.cycle THEN advanced[c] + n ELSE advanced[c]
    BY <1>1 DEF Apply
  <1>3. /\ world.progress = advanced[world.cycle] /\ world.progress < world.target
        /\ world.target = TargetOf(world.cycle)
        /\ \A c \in Cycles : c < world.cycle => advanced[c] >= TargetOf(c)
        /\ \A c \in Cycles : c > world.cycle => advanced[c] = 0
    BY DEF IInv, BarIsTheWork, ObjectivesWereMet, NotYet
  <1>4. CASE world' = world /\ n = 0
    <2>1. \A c \in Cycles : advanced'[c] = advanced[c]
      BY <1>1, <1>2, <1>4
    <2> QED  BY <1>1, <1>3, <1>4, <2>1 DEF NotYet, BarIsTheWork, ObjectivesWereMet
  <1>5. CASE world' = [world EXCEPT !.progress = world.progress + n]
             /\ world.progress + n < world.target
    <2>1. /\ world'.cycle = world.cycle /\ world'.progress = world.progress + n
          /\ world'.target = world.target
      BY <1>1, <1>5 DEF World
    <2> QED  BY <1>1, <1>2, <1>3, <1>5, <2>1 DEF NotYet, BarIsTheWork, ObjectivesWereMet
  <1>6. CASE world' = [cycle |-> world.cycle + 1, progress |-> 0,
                       target |-> TargetOf(world.cycle + 1)]
             /\ world.progress + n >= world.target
    <2>1. /\ world'.cycle = world.cycle + 1 /\ world'.progress = 0
          /\ world'.target = TargetOf(world.cycle + 1)
      BY <1>6
    <2>2. world'.cycle \in Cycles
      BY AppliedWorld DEF World
    <2>3. TargetOf(world.cycle + 1) \in Nat \ {0}
      BY <1>1, TargetPositive
    <2>4. advanced'[world.cycle] >= TargetOf(world.cycle)
      BY <1>1, <1>2, <1>3, <1>6
    <2>5. \A c \in Cycles : c > world.cycle => advanced'[c] = 0
      BY <1>1, <1>2, <1>3
    <2>6. NotYet'
      BY <1>1, <2>1, <2>5 DEF NotYet
    <2>7. BarIsTheWork'
      <3>1. advanced'[world'.cycle] = 0
        BY <1>1, <2>1, <2>2, <2>5
      <3> QED  BY <2>1, <2>3, <3>1 DEF BarIsTheWork
    <2>8. ObjectivesWereMet'
      <3>1. \A c \in Cycles : c < world'.cycle => advanced'[c] >= TargetOf(c)
        <4> SUFFICES ASSUME NEW c \in Cycles, c < world'.cycle PROVE advanced'[c] >= TargetOf(c)
          OBVIOUS
        <4>1. c = world.cycle \/ c < world.cycle
          BY <1>1, <2>1
        <4> QED  BY <1>1, <1>2, <1>3, <2>4, <4>1
      <3> QED  BY <2>1, <3>1 DEF ObjectivesWereMet
    <2> QED  BY <2>6, <2>7, <2>8
  <1> QED  BY <1>4, <1>5, <1>6, AppliedWorld

(* A commit of an officer's transaction leaves everything as it should be. *)
LEMMA AppliedAll ==
  ASSUME IInv, NEW o \in Officers, NEW n \in Nat,
         seen[o] # Unread, Apply(o, n), purse' \in [Officers -> Nat]
  PROVE  IInv'
  <1>1. Held'
    <2>1. o \in Transactions /\ seen \in [Transactions -> World \cup {Unread}]
      BY DEF Transactions, IInv, TypeOK
    <2>2. \A t \in Transactions : seen[t] # Unread => t = o
      BY <2>1 DEF IInv, Held
    <2>3. seen' = [seen EXCEPT ![o] = Unread]
      BY DEF Apply
    <2>4. \A t \in Transactions : seen'[t] = Unread
      BY <2>1, <2>2, <2>3
    <2> QED  BY <2>4 DEF Held
  <1>2. TypeOK' /\ Ahead' /\ WorkSettledOnce' /\ NotYet' /\ BarIsTheWork' /\ ObjectivesWereMet'
    BY AppliedType, AppliedPaid, AppliedBar
  <1> QED  BY <1>1, <1>2 DEF IInv

LEMMA PurseNat ==
  ASSUME IInv, NEW o \in Officers, seen[o] # Unread,
         purse' = [purse EXCEPT ![o] = @ + Due(standing[o], seen[o])]
  PROVE  purse' \in [Officers -> Nat]
  <1>1. seen[o] = world
    BY DEF IInv, Held, Transactions
  <1>2. purse \in [Officers -> Nat] /\ Due(standing[o], seen[o]) \in Nat
    BY <1>1, DueNat DEF IInv, TypeOK
  <1> QED  BY <1>2

(* The other steps touch only what a transaction has read.                 *)
LEMMA Untouched ==
  ASSUME IInv, UNCHANGED <<world, standing, purse, counted, settled, advanced>>,
         seen' \in [Transactions -> World \cup {Unread}], Held'
  PROVE  IInv'
BY DEF IInv, TypeOK, Ahead, WorkSettledOnce, NotYet, BarIsTheWork, ObjectivesWereMet

LEMMA Inductive == Spec => []IInv
  <1>1. IInv /\ [Next]_vars => IInv'
    <2> SUFFICES ASSUME IInv, [Next]_vars PROVE IInv'
      OBVIOUS
    <2>0. /\ seen \in [Transactions -> World \cup {Unread}] /\ world \in World
          /\ MaxWork \in Nat /\ Unread \notin World
      BY GuildAssumption, UnreadAssumption DEF IInv, TypeOK
    <2>1. ASSUME NEW t \in Transactions, ReadWorld(t) PROVE IInv'
      <3>1. \A u \in Transactions : seen'[u] = IF u = t THEN world ELSE Unread
        BY <2>0, <2>1 DEF ReadWorld, Unlocked
      <3>2. Held'
        BY <2>1, <3>1 DEF Held, ReadWorld
      <3>3. seen' \in [Transactions -> World \cup {Unread}]
        BY <2>0, <2>1 DEF ReadWorld
      <3> QED  BY <2>1, <3>2, <3>3, Untouched DEF ReadWorld
    <2>2. ASSUME NEW t \in Transactions, RollBack(t) PROVE IInv'
      <3>1. \A u \in Transactions : seen'[u] = IF u = t THEN Unread ELSE seen[u]
        BY <2>0, <2>2 DEF RollBack
      <3>2. Held'
        BY <2>2, <3>1 DEF Held, RollBack, IInv
      <3>3. seen' \in [Transactions -> World \cup {Unread}]
        BY <2>0, <2>2 DEF RollBack
      <3> QED  BY <2>2, <3>2, <3>3, Untouched DEF RollBack
    <2>3. ASSUME NEW o \in Officers, ResolveOnRead(o) PROVE IInv'
      <3>1. PICK n \in Nat : Apply(o, n)
        BY <2>0, <2>3, ContributionNat DEF ResolveOnRead
      <3>2. seen[o] # Unread /\ purse' \in [Officers -> Nat]
        BY <2>3, PurseNat DEF ResolveOnRead
      <3> QED  BY <3>1, <3>2, AppliedAll
    <2>4. ASSUME NEW o \in Officers, ResolveOnWrite(o) PROVE IInv'
      <3>1. PICK n \in Nat : Apply(o, n)
        BY <2>0, <2>4, ContributionNat DEF ResolveOnWrite
      <3>2. seen[o] # Unread /\ purse' \in [Officers -> Nat]
        BY <2>4, PurseNat DEF ResolveOnWrite
      <3> QED  BY <3>1, <3>2, AppliedAll
    <2>5. ASSUME NEW o \in Officers, ReadNothingNew(o) PROVE IInv'
      <3>1. Apply(o, 0) /\ seen[o] # Unread /\ purse' = purse
        BY <2>5 DEF ReadNothingNew
      <3>2. purse' \in [Officers -> Nat]
        BY <3>1 DEF IInv, TypeOK
      <3> QED  BY <3>1, <3>2, AppliedAll
    <2>6. CASE Beat
      <3>1. Heartbeat \in Transactions /\ seen[Heartbeat] = world
        BY <2>6 DEF Beat, IInv, Held, Transactions
      <3>2. world' = world
        BY <2>6, <3>1 DEF Beat, Beaten
      <3>3. \A u \in Transactions : seen'[u] = IF u = Heartbeat THEN Unread ELSE seen[u]
        BY <2>0, <2>6 DEF Beat
      <3>4. Held'
        BY <3>2, <3>3 DEF Held, IInv
      <3>5. seen' \in [Transactions -> World \cup {Unread}]
        BY <2>0, <2>6 DEF Beat
      <3> QED  BY <2>6, <3>2, <3>4, <3>5, Untouched DEF Beat
    <2>7. CASE UNCHANGED vars
      <3>1. Held'
        BY <2>7 DEF vars, Held, IInv
      <3> QED  BY <2>0, <2>7, <3>1, Untouched DEF vars
    <2> QED  BY <2>1, <2>2, <2>3, <2>4, <2>5, <2>6, <2>7 DEF Next
  <1> QED  BY IInit, <1>1, PTL DEF Spec

(* The rows stay well formed, and no standing gets ahead of the world.     *)
THEOREM TypeCorrect == Spec => []TypeOK
  <1>1. IInv => TypeOK
    BY DEF IInv
  <1> QED  BY Inductive, <1>1, PTL

(* All the work of every officer is settled once, or still to be settled.  *)
THEOREM AllWorkSettled == Spec => []WorkSettledOnce
  <1>1. IInv => WorkSettledOnce
    BY DEF IInv
  <1> QED  BY Inductive, <1>1, PTL

(* No contribution is lost, to another officer's or to the heartbeat.      *)
THEOREM NothingLost == Spec => []BarIsTheWork
  <1>1. IInv => BarIsTheWork
    BY DEF IInv
  <1> QED  BY Inductive, <1>1, PTL

(* No cycle is left behind before its objective is met.                    *)
THEOREM MetBeforeMoving == Spec => []ObjectivesWereMet
  <1>1. IInv => ObjectivesWereMet
    BY DEF IInv
  <1> QED  BY Inductive, <1>1, PTL

(* An objective is paid once, and not while it is open.                    *)
THEOREM PaidOnce == Spec => PaidOnceWhenClosed
  <1>1. IInv /\ [Next]_vars =>
          [\A o \in Officers, c \in Cycles :
             settled'[o][c] # settled[o][c] => settled[o][c] = 0 /\ c < world.cycle]_vars
    <2> SUFFICES ASSUME IInv, Next, NEW o \in Officers, NEW c \in Cycles,
                        settled'[o][c] # settled[o][c]
                 PROVE  settled[o][c] = 0 /\ c < world.cycle
      OBVIOUS
    <2>1. \E p \in Officers : ResolveOnRead(p) \/ ResolveOnWrite(p) \/ ReadNothingNew(p)
      BY DEF Next, ReadWorld, RollBack, Beat
    <2>2. PICK p \in Officers : seen[p] # Unread /\ \E n : Apply(p, n)
      BY <2>1 DEF ResolveOnRead, ResolveOnWrite, ReadNothingNew
    <2>3. PICK n : Apply(p, n)
      BY <2>2
    <2>4. seen[p] = world /\ settled \in [Officers -> [Cycles -> Nat]]
      BY <2>2 DEF IInv, Held, Transactions, TypeOK
    <2>5. standing[p].cycle \in Cycles
      BY DEF IInv, TypeOK, Standing
    <2>6. o = p /\ c = standing[p].cycle /\ standing[p].cycle < world.cycle
      BY <2>3, <2>4, <2>5 DEF Apply
    <2>7. settled[o][c] = 0
      <3>1. c >= standing[o].cycle
        BY <2>6, CyclesNat
      <3> QED  BY <3>1 DEF IInv, Ahead
    <2> QED  BY <2>6, <2>7
  <1> QED  BY Inductive, <1>1, PTL DEF Spec, PaidOnceWhenClosed

-----------------------------------------------------------------------------
(***************************************************************************)
(* The panel                                                               *)
(***************************************************************************)

(* What the drawer and the forms hold.                                     *)
DrawerType ==
  /\ phase \in {"open", "ruling", "encounter", "desk", "visit"}
  /\ tick \in Nat /\ finds \in Nat /\ alive \in BOOLEAN
  /\ phase # "open" => alive
  /\ drawer \subseteq File /\ filings \subseteq Filing

(* A find has one number, and it was given.                                *)
FindsNumbered ==
  \A f \in drawer : f.find <= finds /\ \A g \in drawer : g.find = f.find => g = f

(* A form remembers finds that were made; only a transfer consumes one.    *)
FormsRemember ==
  \A q \in filings :
    /\ q.of <= finds /\ q.donor <= finds
    /\ IF q.form = "19" THEN q.donor > 0 /\ q.brings \in Clauses ELSE q.donor = 0

(* What a transfer brings may be on the file it was filed for.             *)
FitToCarry ==
  \A q \in filings, f \in drawer :
    q.form = "19" /\ f.find = q.of => MinGrade[q.brings] <= f.grade

PanelInv ==
  DrawerType /\ FindsNumbered /\ FormsRemember /\ FitToCarry /\ WellFormedFiles /\ FilingsInOrder

-----------------------------------------------------------------------------
(* Of a set of moments there is a first.                                   *)
LEMMA FirstMoment == \A T \in SUBSET Nat : T # {} => \E x \in T : \A y \in T : x <= y
<1> SUFFICES ASSUME NEW T \in SUBSET Nat, T # {} PROVE \E x \in T : \A y \in T : x <= y
  OBVIOUS
<1> DEFINE upTo == {0..n : n \in T}
<1>1. upTo \subseteq FiniteSubsetsOf(Nat) /\ upTo # {}
  <2> SUFFICES ASSUME NEW n \in T PROVE 0..n \in FiniteSubsetsOf(Nat)
    OBVIOUS
  <2>1. IsFiniteSet(0..n)
    BY FS_Interval
  <2> QED BY <2>1 DEF FiniteSubsetsOf
<1>2. \E U \in upTo : \A V \in upTo : <<V, U>> \notin StrictSubsetOrdering(Nat)
  <2> HIDE DEF upTo
  <2> QED BY <1>1, FS_StrictSubsetOrderingWellFounded, WFMin
<1>3. PICK m \in T : \A y \in T : <<0..y, 0..m>> \notin StrictSubsetOrdering(Nat)
  BY <1>2
<1>4. ASSUME NEW y \in T, y < m PROVE FALSE
  <2>1. 0..y \subseteq 0..m /\ m \in 0..m /\ m \notin 0..y
    BY <1>4
  <2>2. 0..y \subseteq Nat /\ 0..m \subseteq Nat
    OBVIOUS
  <2>3. <<0..y, 0..m>> \in StrictSubsetOrdering(Nat)
    BY <2>1, <2>2 DEF StrictSubsetOrdering
  <2> QED BY <1>3, <2>3
<1> QED BY <1>4

(* So there is a form the panel rules on next, while there is any.         *)
LEMMA NextInLine ==
  ASSUME filings \subseteq Filing, filings # {}
  PROVE  \E q \in filings : Soonest(q)
<1> DEFINE dues == {q.due : q \in filings}
<1>1. dues \subseteq Nat /\ dues # {}
  BY DEF Filing
<1>2. PICK d \in dues : \A e \in dues : d <= e
  BY <1>1, FirstMoment
<1> QED BY <1>2 DEF Soonest

(* A form waits for its panel while it is not due.                         *)
LEMMA Waiting == \A q \in Filing : tick \in Nat => (Wait(q) > 0 <=> q.due > tick)
BY DEF Wait, Filing

(* When the walk stops, nothing is overdue.                                *)
LEMMA NothingOverdue ==
  ASSUME PanelInv, AllRuled
  PROVE  \A q \in filings : q.due > tick
<1> SUFFICES ASSUME NEW q \in filings PROVE q.due > tick
  OBVIOUS
<1>1. PICK s \in filings : Soonest(s)
  BY NextInLine DEF PanelInv, DrawerType
<1>2. s.due > tick /\ s.due <= q.due
  BY <1>1 DEF AllRuled, Soonest
<1> QED BY <1>2 DEF PanelInv, DrawerType, Filing

-----------------------------------------------------------------------------
(* Steps that leave the drawer and the forms alone *)

LEMMA Unmoved ==
  ASSUME PanelInv, UNCHANGED <<drawer, filings, finds>>,
         tick' \in Nat, alive' \in BOOLEAN,
         phase' \in {"open", "ruling", "encounter", "desk", "visit"},
         phase' # "open" => alive',
         alive' /\ phase' # "ruling" => \A q \in filings : q.due > tick'
  PROVE  PanelInv'
<1>1. DrawerType' /\ FindsNumbered' /\ FormsRemember' /\ FitToCarry' /\ WellFormedFiles'
  BY DEF PanelInv, DrawerType, FindsNumbered, FormsRemember, FitToCarry, WellFormedFiles
<1>2. FilingsInOrder'
  <2>1. ASSUME alive', phase' # "ruling", NEW q \in filings PROVE Wait(q)' > 0
    BY <2>1 DEF PanelInv, DrawerType, Filing, Wait
  <2> QED BY <2>1 DEF PanelInv, FilingsInOrder
<1> QED BY <1>1, <1>2 DEF PanelInv

(* Where nothing was overdue and no time passes, nothing is.               *)
LEMMA StillInTime ==
  ASSUME PanelInv, alive, phase # "ruling"
  PROVE  \A q \in filings : q.due > tick
BY Waiting DEF PanelInv, FilingsInOrder, DrawerType

LEMMA QuietSteps ==
  ASSUME PanelInv,
         \/ \E skipped \in {0, SkippedTicks} : BeginTick(skipped)
         \/ AllRuled \/ Die \/ EndOfSpan \/ Payroll \/ EndOfVisit
  PROVE  PanelInv'
<1>1. CASE \E skipped \in {0, SkippedTicks} : BeginTick(skipped)
  <2> PICK skipped \in {0, SkippedTicks} : BeginTick(skipped)
    BY <1>1
  <2>1. tick + skipped + 1 \in Nat
    BY CaseworkAssumption DEF PanelInv, DrawerType
  <2> QED BY <2>1, Unmoved DEF BeginTick, PanelInv, DrawerType
<1>2. CASE AllRuled
  BY <1>2, NothingOverdue, Unmoved DEF AllRuled, PanelInv, DrawerType
<1>3. CASE Die
  BY <1>3, Unmoved DEF Die, PanelInv, DrawerType
<1>4. CASE EndOfSpan \/ Payroll \/ EndOfVisit
  <2>1. /\ phase \in {"desk", "visit"} /\ phase' \in {"open", "visit"}
        /\ UNCHANGED <<tick, alive, drawer, filings, finds>>
    BY <1>4 DEF EndOfSpan, Payroll, EndOfVisit
  <2>2. alive => \A q \in filings : q.due > tick
    BY <2>1, StillInTime
  <2> QED BY <2>1, <2>2, Unmoved DEF PanelInv, DrawerType
<1> QED BY <1>1, <1>2, <1>3, <1>4

LEMMA Succession == ASSUME PanelInv, Succeed PROVE PanelInv'
BY DEF Succeed, PanelInv, DrawerType, FindsNumbered, FormsRemember, FitToCarry, WellFormedFiles,
       FilingsInOrder

-----------------------------------------------------------------------------
(* Forms *)

(* What a form says of the file it is filed for.                           *)
LEMMA ClauseOf ==
  ASSUME PanelInv, NEW f \in drawer, NEW i \in DOMAIN f.clauses
  PROVE  i \in Nat \ {0} /\ f.clauses[i] \in Clauses
<1>1. f.clauses \in Seq(Clauses)
  BY DEF PanelInv, DrawerType, File
<1> QED BY <1>1

LEMMA ArbitrationFiled ==
  ASSUME PanelInv, NEW f \in drawer, NEW i \in DOMAIN f.clauses, ~Contested(f.ref, i),
         alive, phase # "ruling",
         filings' = filings \cup {Arbitration(f, i)},
         UNCHANGED <<phase, tick, alive, drawer, finds>>
  PROVE  PanelInv'
<1> DEFINE form == Arbitration(f, i)
<1>1. /\ form \in Filing /\ form.form = "12-C" /\ form.ref = f.ref /\ form.index = i
      /\ form.of = f.find /\ form.donor = 0 /\ form.due > tick
  <2>1. f \in File /\ tick \in Nat
    BY DEF PanelInv, DrawerType
  <2>2. tick + FormTicks["12-C"] \in Nat /\ tick + FormTicks["12-C"] > tick
    BY <2>1, CaseworkAssumption
  <2> QED BY <2>1, <2>2, ClauseOf DEF Arbitration, Filing, Forms, File
<1> HIDE DEF form
<1>2. filings' = filings \cup {form}
  BY DEF form
<1>3. f.find <= finds /\ f.find \in Nat /\ finds \in Nat
  BY DEF PanelInv, FindsNumbered, DrawerType, File
<1>4. DrawerType' /\ FindsNumbered' /\ WellFormedFiles'
  BY <1>1, <1>2 DEF PanelInv, DrawerType, FindsNumbered, WellFormedFiles
<1>5. FormsRemember' /\ FitToCarry'
  <2>1. FormsRemember'
    BY <1>1, <1>2, <1>3 DEF PanelInv, FormsRemember
  <2>2. FitToCarry'
    BY <1>1, <1>2 DEF PanelInv, FitToCarry
  <2> QED BY <2>1, <2>2
<1>6. FilingsInOrder'
  <2>1. ASSUME NEW q \in filings' PROVE Wait(q)' > 0
    <3>1. q.due > tick /\ q \in Filing
      BY <1>1, <1>2, StillInTime DEF PanelInv, DrawerType
    <3> QED BY <3>1 DEF Wait, PanelInv, DrawerType, Filing
  <2>2. ASSUME NEW q \in filings', NEW r \in filings', q.ref = r.ref, q.index = r.index PROVE q = r
    BY <1>1, <1>2, <2>2 DEF Contested, PanelInv, FilingsInOrder
  <2>3. ASSUME NEW q \in filings', NEW r \in filings', q.form = "19", r.donor = q.donor PROVE r = q
    <3>1. q \in filings /\ q.donor > 0
      BY <1>1, <1>2, <2>3 DEF PanelInv, FormsRemember
    <3>2. r \in filings
      BY <1>1, <1>2, <2>3, <3>1
    <3> QED BY <2>3, <3>1, <3>2 DEF PanelInv, FilingsInOrder
  <2>4. ASSUME NEW q \in filings', q.form = "19", NEW g \in drawer' PROVE g.find # q.donor
    BY <1>1, <1>2, <2>4 DEF PanelInv, FilingsInOrder
  <2> QED BY <2>1, <2>2, <2>3, <2>4 DEF FilingsInOrder
<1> QED BY <1>4, <1>5, <1>6 DEF PanelInv

LEMMA RequisitionFiled ==
  ASSUME PanelInv, NEW ref, NEW i, NEW from, NEW at, FileRequisition(ref, i, from, at)
  PROVE  PanelInv'
<1>1. PICK f \in Named(ref), donor \in Named(from) :
        /\ i \in DOMAIN f.clauses /\ at \in DOMAIN donor.clauses
        /\ MinGrade[donor.clauses[at]] <= f.grade
        /\ filings' = filings \cup {Requisition(f, i, donor, at)}
  BY DEF FileRequisition
<1>2. f \in drawer /\ donor \in drawer /\ f.ref = ref /\ donor.ref = from /\ from # ref
  BY <1>1 DEF Named, FileRequisition
<1> DEFINE form == Requisition(f, i, donor, at)
<1>3. /\ form \in Filing /\ form.form = "19" /\ form.ref = f.ref /\ form.index = i
      /\ form.of = f.find /\ form.donor = donor.find /\ form.due > tick
      /\ form.brings = donor.clauses[at] /\ form.brings \in Clauses
  <2>1. f \in File /\ donor \in File /\ tick \in Nat
    BY <1>2 DEF PanelInv, DrawerType
  <2>2. tick + FormTicks["19"] \in Nat /\ tick + FormTicks["19"] > tick
    BY <2>1, CaseworkAssumption
  <2> QED BY <1>1, <1>2, <2>1, <2>2, ClauseOf DEF Requisition, Filing, Forms, File
<1>4. filings' = filings \cup {form} /\ MinGrade[form.brings] <= f.grade
  BY <1>1, <1>3 DEF form
<1> HIDE DEF form
<1>5. /\ drawer' = {g \in drawer : g.ref # from} /\ ~Contested(f.ref, i)
      /\ alive /\ phase = "open" /\ UNCHANGED <<phase, tick, alive, finds>>
  BY <1>2 DEF FileRequisition, Without
<1>6. drawer' \subseteq drawer /\ donor \notin drawer'
  BY <1>2, <1>5
<1>7. DrawerType' /\ FindsNumbered' /\ WellFormedFiles'
  BY <1>3, <1>4, <1>5, <1>6 DEF PanelInv, DrawerType, FindsNumbered, WellFormedFiles
<1>8. FormsRemember'
  <2>1. f.find <= finds /\ donor.find <= finds
    BY <1>2 DEF PanelInv, FindsNumbered
  <2>2. donor.find > 0
    BY <1>2 DEF PanelInv, DrawerType, File
  <2> QED BY <1>3, <1>4, <1>5, <2>1, <2>2 DEF PanelInv, FormsRemember
<1>9. FitToCarry'
  <2> SUFFICES ASSUME NEW q \in filings', NEW g \in drawer', q.form = "19", g.find = q.of
               PROVE  MinGrade[q.brings] <= g.grade
    BY DEF FitToCarry
  <2>1. CASE q = form
    <3>1. g = f
      BY <1>2, <1>3, <1>6, <2>1 DEF PanelInv, FindsNumbered
    <3> QED BY <1>4, <2>1, <3>1
  <2>2. CASE q \in filings
    BY <1>6, <2>2 DEF PanelInv, FitToCarry
  <2> QED BY <1>4, <2>1, <2>2
<1>10. FilingsInOrder'
  <2>1. ASSUME NEW q \in filings' PROVE Wait(q)' > 0
    <3>1. q.due > tick /\ q \in Filing
      BY <1>3, <1>4, <1>5, StillInTime DEF PanelInv, DrawerType
    <3> QED BY <1>5, <3>1 DEF Wait, PanelInv, DrawerType, Filing
  <2>2. ASSUME NEW q \in filings', NEW r \in filings', q.ref = r.ref, q.index = r.index PROVE q = r
    BY <1>3, <1>4, <1>5, <2>2 DEF Contested, PanelInv, FilingsInOrder
  <2>3. ASSUME NEW q \in filings, q.form = "19" PROVE q.donor # donor.find
    BY <1>2, <2>3 DEF PanelInv, FilingsInOrder
  <2>4. ASSUME NEW q \in filings PROVE q.donor # donor.find
    BY <1>2, <2>3 DEF PanelInv, FormsRemember, DrawerType, File
  <2>5. ASSUME NEW q \in filings', NEW r \in filings', q.form = "19", r.donor = q.donor PROVE r = q
    BY <1>3, <1>4, <2>4, <2>5 DEF PanelInv, FilingsInOrder
  <2>6. ASSUME NEW q \in filings', q.form = "19", NEW g \in drawer' PROVE g.find # q.donor
    <3>1. g \in drawer /\ g # donor
      BY <1>6
    <3>2. CASE q = form
      BY <1>2, <1>3, <3>1, <3>2 DEF PanelInv, FindsNumbered
    <3>3. CASE q \in filings
      BY <2>6, <3>1, <3>3 DEF PanelInv, FilingsInOrder
    <3> QED BY <1>4, <3>2, <3>3
  <2> QED BY <2>1, <2>2, <2>5, <2>6 DEF FilingsInOrder
<1> QED BY <1>7, <1>8, <1>9, <1>10 DEF PanelInv

-----------------------------------------------------------------------------
(* The drawer *)

(* A countersignature changes no number, grade or clause.                  *)
LEMMA Countersigned ==
  ASSUME PanelInv, NEW ref, NEW keep \in BOOLEAN, Countersign(ref, keep)
  PROVE  PanelInv'
<1> DEFINE Signed(f) == IF f.ref = ref THEN [f EXCEPT !.kept = keep] ELSE f
<1>1. /\ drawer' = {Signed(f) : f \in drawer}
      /\ phase = "open" /\ alive /\ UNCHANGED <<phase, tick, alive, filings, finds>>
  BY DEF Countersign
<1>2. \A f \in drawer : /\ Signed(f) \in File /\ Signed(f).find = f.find /\ Signed(f).grade = f.grade
                        /\ Signed(f).clauses = f.clauses /\ Signed(f).mistaken = f.mistaken
  BY DEF PanelInv, DrawerType, File
<1> HIDE DEF Signed
<1>3. \A g \in drawer' : \E f \in drawer : g = Signed(f)
  BY <1>1
<1>4. DrawerType'
  BY <1>1, <1>2, <1>3 DEF PanelInv, DrawerType
<1>5. FindsNumbered'
  BY <1>1, <1>2, <1>3 DEF PanelInv, FindsNumbered
<1>6. FormsRemember' /\ FitToCarry'
  BY <1>1, <1>2, <1>3 DEF PanelInv, FormsRemember, FitToCarry
<1>7. WellFormedFiles'
  BY <1>2, <1>3 DEF PanelInv, WellFormedFiles
<1>8. FilingsInOrder'
  <2>1. ASSUME NEW q \in filings PROVE Wait(q)' > 0
    BY <1>1, StillInTime DEF Wait, PanelInv, DrawerType, Filing
  <2> QED BY <1>1, <1>2, <1>3, <2>1 DEF PanelInv, FilingsInOrder
<1> QED BY <1>4, <1>5, <1>6, <1>7, <1>8 DEF PanelInv

(* What a ruling may put on a file is on it already, or may be.            *)
LEMMA RuledWell ==
  ASSUME PanelInv, NEW q \in filings, NEW f \in Before(q), NEW c \in Placed(q, f)
  PROVE  LET g == [f EXCEPT !.clauses[q.index] = c, !.mistaken = @ \/ f.find # q.of]
         IN  /\ g \in File /\ g.find = f.find /\ g.grade = f.grade
             /\ \A j, k \in DOMAIN g.clauses : g.clauses[j] = g.clauses[k] => j = k
             /\ ~g.mistaken => \A j \in DOMAIN g.clauses : MinGrade[g.clauses[j]] <= g.grade
<1> DEFINE g == [f EXCEPT !.clauses[q.index] = c, !.mistaken = @ \/ f.find # q.of]
<1>1. f \in drawer /\ f \in File /\ q \in Filing /\ q.index \in DOMAIN f.clauses /\ f.clauses[q.index] = q.was
  BY DEF Before, Named, PanelInv, DrawerType
<1>2. c \in Clauses
  BY <1>1 DEF Placed, Alternatives, PanelInv, FormsRemember, Filing
<1>3. /\ g.clauses = [f.clauses EXCEPT ![q.index] = c] /\ g.find = f.find /\ g.grade = f.grade
      /\ g.mistaken = (f.mistaken \/ f.find # q.of)
      /\ g.ref = f.ref /\ g.kept = f.kept
  BY <1>1 DEF File
<1> HIDE DEF g
<1>4. f.clauses \in Seq(Clauses) /\ g.clauses \in Seq(Clauses) /\ DOMAIN g.clauses = DOMAIN f.clauses
  BY <1>1, <1>2, <1>3 DEF File
<1>5. g \in File
  BY <1>1, <1>3, <1>4 DEF File, g
<1>6. c = q.was \/ \A j \in DOMAIN f.clauses \ {q.index} : f.clauses[j] # c
  BY DEF Placed, Alternatives, Endorsed
<1>7. /\ \A j, k \in DOMAIN f.clauses : f.clauses[j] = f.clauses[k] => j = k
      /\ ~f.mistaken => \A j \in DOMAIN f.clauses : MinGrade[f.clauses[j]] <= f.grade
  BY <1>1 DEF PanelInv, WellFormedFiles
<1>8. ASSUME NEW j \in DOMAIN g.clauses, NEW k \in DOMAIN g.clauses, g.clauses[j] = g.clauses[k] PROVE j = k
  BY <1>1, <1>3, <1>4, <1>6, <1>7, <1>8
<1>9. ASSUME ~g.mistaken PROVE MinGrade[c] <= g.grade
  <2>1. ~f.mistaken /\ f.find = q.of
    BY <1>3, <1>9
  <2>2. MinGrade[q.was] <= f.grade
    BY <1>1, <1>7, <2>1
  <2>3. q.form = "19" => MinGrade[q.brings] <= f.grade
    BY <1>1, <2>1 DEF PanelInv, FitToCarry
  <2>4. MinGrade[c] <= f.grade
    BY <2>2, <2>3 DEF Placed, Alternatives
  <2> QED BY <1>3, <2>4
<1>10. ASSUME ~g.mistaken, NEW j \in DOMAIN g.clauses PROVE MinGrade[g.clauses[j]] <= g.grade
  BY <1>3, <1>4, <1>7, <1>9, <1>10
<1> QED BY <1>3, <1>5, <1>8, <1>10 DEF g

LEMMA Concluded ==
  ASSUME PanelInv, NEW q \in filings, Conclude(q)
  PROVE  PanelInv'
<1>1. phase = "ruling" /\ filings' = filings \ {q} /\ UNCHANGED <<phase, tick, alive, finds>>
  BY DEF Conclude
<1>2. CASE UNCHANGED drawer
  BY <1>1, <1>2 DEF PanelInv, DrawerType, FindsNumbered, FormsRemember, FitToCarry, WellFormedFiles,
                    FilingsInOrder
<1>3. CASE \E f \in Before(q) : \E c \in Placed(q, f) : drawer' = Amended(f, q, c)
  <2>1. PICK f \in Before(q) : \E c \in Placed(q, f) : drawer' = Amended(f, q, c)
    BY <1>3
  <2>2. PICK c \in Placed(q, f) : drawer' = Amended(f, q, c)
    BY <2>1
  <2> DEFINE g == [f EXCEPT !.clauses[q.index] = c, !.mistaken = @ \/ f.find # q.of]
  <2>3. /\ g \in File /\ g.find = f.find /\ g.grade = f.grade
        /\ \A j, k \in DOMAIN g.clauses : g.clauses[j] = g.clauses[k] => j = k
        /\ ~g.mistaken => \A j \in DOMAIN g.clauses : MinGrade[g.clauses[j]] <= g.grade
    BY RuledWell
  <2>4. drawer' = (drawer \ {f}) \cup {g} /\ f \in drawer
    BY <2>2 DEF Amended, Before, Named
  <2> HIDE DEF g
  <2>5. DrawerType' /\ WellFormedFiles'
    BY <1>1, <2>3, <2>4 DEF PanelInv, DrawerType, WellFormedFiles
  <2>6. FindsNumbered'
    BY <1>1, <2>3, <2>4 DEF PanelInv, FindsNumbered
  <2>7. FormsRemember' /\ FitToCarry'
    BY <1>1, <2>3, <2>4 DEF PanelInv, FormsRemember, FitToCarry
  <2>8. FilingsInOrder'
    BY <1>1, <2>3, <2>4 DEF PanelInv, FilingsInOrder
  <2> QED BY <2>5, <2>6, <2>7, <2>8 DEF PanelInv
<1> QED BY <1>2, <1>3 DEF Conclude

(* A find is a legal file of a new number.                                 *)
LEMMA RolledWell ==
  ASSUME PanelInv, NEW ref \in Refs, NEW f \in FilesRolled(ref)
  PROVE  /\ f \in File /\ f.find = finds + 1
         /\ \A j, k \in DOMAIN f.clauses : f.clauses[j] = f.clauses[k] => j = k
         /\ \A j \in DOMAIN f.clauses : MinGrade[f.clauses[j]] <= f.grade
<1>1. PICK g \in Grades, n \in Indices : f \in Blanks(ref, g, n)
  BY DEF FilesRolled
<1>2. n \in Nat
  <2>1. PICK h \in Grades : n \in 1..ClauseSlots[h]
    BY DEF Indices
  <2> QED BY <2>1, CaseworkAssumption DEF Grades
<1>3. f.clauses \in Seq(Clauses)
  BY <1>1, <1>2 DEF Blanks
<1>4. finds + 1 \in Nat \ {0}
  BY DEF PanelInv, DrawerType
<1>5. f \in File /\ f.find = finds + 1
  BY <1>1, <1>3, <1>4 DEF File, Blanks
<1> QED BY <1>5 DEF FilesRolled

(* The drawer after a find holds nothing but what it held, and the find.   *)
LEMMA FiledAfter ==
  ASSUME NEW f, NEW policy, drawer' \in Filed(f, policy)
  PROVE  /\ drawer' \subseteq drawer \cup {f}
         /\ \A g \in drawer : g.kept => g \in drawer'
BY DEF Filed, Displaced, Weakest, Candidates

LEMMA Survived ==
  ASSUME PanelInv, NEW policy, Survive(policy)
  PROVE  PanelInv'
<1>1. /\ phase = "encounter" /\ phase' = "desk" /\ UNCHANGED <<tick, alive, filings>>
  BY DEF Survive
<1>2. alive => \A q \in filings : q.due > tick
  BY <1>1, StillInTime
<1>3. CASE UNCHANGED <<drawer, finds>>
  BY <1>1, <1>2, <1>3, Unmoved DEF PanelInv, DrawerType
<1>4. CASE finds' = finds + 1 /\ \E ref \in Refs : \E f \in FilesRolled(ref) : drawer' \in Filed(f, policy)
  <2>1. PICK ref \in Refs : \E f \in FilesRolled(ref) : drawer' \in Filed(f, policy)
    BY <1>4
  <2>2. PICK f \in FilesRolled(ref) : drawer' \in Filed(f, policy)
    BY <2>1
  <2>3. /\ f \in File /\ f.find = finds + 1
        /\ \A j, k \in DOMAIN f.clauses : f.clauses[j] = f.clauses[k] => j = k
        /\ \A j \in DOMAIN f.clauses : MinGrade[f.clauses[j]] <= f.grade
    BY RolledWell
  <2>4. drawer' \subseteq drawer \cup {f} /\ finds' = finds + 1 /\ finds \in Nat
    BY <1>4, <2>2, FiledAfter DEF PanelInv, DrawerType
  <2>5. \A g \in drawer : g.find \in Nat /\ g.find <= finds
    BY DEF PanelInv, DrawerType, FindsNumbered, File
  <2>6. \A q \in filings : q.of \in Nat /\ q.donor \in Nat /\ q.of <= finds /\ q.donor <= finds
    BY DEF PanelInv, DrawerType, FormsRemember, Filing
  <2>7. DrawerType' /\ WellFormedFiles'
    BY <1>1, <2>3, <2>4 DEF PanelInv, DrawerType, WellFormedFiles
  <2>8. FindsNumbered'
    BY <2>3, <2>4, <2>5 DEF PanelInv, FindsNumbered
  <2>9. FormsRemember'
    BY <1>1, <2>4, <2>6 DEF PanelInv, FormsRemember
  <2>10. FitToCarry'
    BY <1>1, <2>3, <2>4, <2>6 DEF PanelInv, FitToCarry
  <2>11. FilingsInOrder'
    <3>1. ASSUME alive, NEW q \in filings PROVE Wait(q)' > 0
      BY <1>1, <1>2, <3>1 DEF Wait, PanelInv, DrawerType, Filing
    <3>2. ASSUME NEW q \in filings, q.form = "19", NEW g \in drawer' PROVE g.find # q.donor
      BY <2>3, <2>4, <2>6, <3>2 DEF PanelInv, FilingsInOrder
    <3> QED BY <1>1, <3>1, <3>2 DEF PanelInv, FilingsInOrder
  <2> QED BY <2>7, <2>8, <2>9, <2>10, <2>11 DEF PanelInv
<1> QED BY <1>3, <1>4 DEF Survive

-----------------------------------------------------------------------------
LEMMA PanelBegins == DrawerInit => PanelInv
BY DEF DrawerInit, PanelInv, DrawerType, FindsNumbered, FormsRemember, FitToCarry, WellFormedFiles,
       FilingsInOrder

LEMMA PanelInductive == DrawerSpec => []PanelInv
<1>1. PanelInv /\ [DrawerNext]_drawerVars => PanelInv'
  <2> SUFFICES ASSUME PanelInv, [DrawerNext]_drawerVars PROVE PanelInv'
    OBVIOUS
  <2>1. CASE Succeed
    BY <2>1, Succession
  <2>2. ASSUME NEW ref \in Refs, NEW keep \in BOOLEAN, Countersign(ref, keep) PROVE PanelInv'
    BY <2>2, Countersigned
  <2>3. ASSUME NEW ref \in Refs, NEW i \in Indices, FileArbitration(ref, i) PROVE PanelInv'
    <3>1. PICK f \in Named(ref) : i \in DOMAIN f.clauses /\ filings' = filings \cup {Arbitration(f, i)}
      BY <2>3 DEF FileArbitration
    <3>2. f \in drawer /\ ~Contested(f.ref, i)
      BY <2>3, <3>1 DEF Named, FileArbitration
    <3> QED BY <2>3, <3>1, <3>2, ArbitrationFiled DEF FileArbitration
  <2>4. ASSUME NEW ref \in Refs, NEW i \in Indices, NEW from \in Refs, NEW j \in Indices,
               FileRequisition(ref, i, from, j) PROVE PanelInv'
    BY <2>4, RequisitionFiled
  <2>5. ASSUME NEW q \in filings, Conclude(q) PROVE PanelInv'
    BY <2>5, Concluded
  <2>6. ASSUME NEW policy \in Policies, Survive(policy) PROVE PanelInv'
    BY <2>6, Survived
  <2>7. ASSUME NEW g \in Grades, ArchivistFiles(g) PROVE PanelInv'
    <3>1. PICK x \in Foremost(Contestable(g)) : filings' = filings \cup {Arbitration(x[1], x[2])}
      BY <2>7 DEF ArchivistFiles
    <3>2. x[1] \in drawer /\ x[2] \in DOMAIN x[1].clauses /\ ~Contested(x[1].ref, x[2])
      BY <3>1 DEF Foremost, Contestable
    <3>3. alive
      BY <2>7 DEF ArchivistFiles, PanelInv, DrawerType
    <3> QED BY <2>7, <3>1, <3>2, <3>3, ArbitrationFiled DEF ArchivistFiles
  <2>8. CASE UNCHANGED drawerVars
    BY <2>8 DEF drawerVars, PanelInv, DrawerType, FindsNumbered, FormsRemember, FitToCarry,
                WellFormedFiles, FilingsInOrder, Wait
  <2> QED BY <2>1, <2>2, <2>3, <2>4, <2>5, <2>6, <2>7, <2>8, QuietSteps
          DEF DrawerNext, Officer, Visit, Idle
<1> QED BY <1>1, PanelBegins, PTL DEF DrawerSpec

-----------------------------------------------------------------------------
(* No ruling, transfer or find leaves a clause twice on a file, or one     *)
(* above its grade on a file that only its own forms have met.             *)
THEOREM FilesAreLegal == DrawerSpec => []WellFormedFiles
<1>1. PanelInv => WellFormedFiles
  BY DEF PanelInv
<1> QED BY PanelInductive, <1>1, PTL

(* Nothing is overdue when anyone can see it, and no form stands on what   *)
(* another one holds or has consumed.                                      *)
THEOREM RuledInTime == DrawerSpec => []FilingsInOrder
<1>1. PanelInv => FilingsInOrder
  BY DEF PanelInv
<1> QED BY PanelInductive, <1>1, PTL

(* A file goes by what may take it, and by nothing else.                   *)
THEOREM TakenRightly == DrawerSpec => FilesGoRightly
<1>1. ASSUME PanelInv, [DrawerNext]_drawerVars, NEW f \in drawer, Gone(f)
      PROVE  /\ f.kept => phase = "open"
             /\ (\E q \in filings : q.ref = f.ref) => phase = "encounter" \/ filings' = {}
  <2>1. f \notin drawer' /\ drawer' # drawer
    BY <1>1 DEF Gone
  <2>2. CASE Succeed
    BY <2>2 DEF Succeed
  <2>3. ASSUME NEW ref \in Refs, NEW keep \in BOOLEAN, Countersign(ref, keep) PROVE FALSE
    <3>1. (IF f.ref = ref THEN [f EXCEPT !.kept = keep] ELSE f) \in drawer'
      BY <2>3 DEF Countersign
    <3>2. (IF f.ref = ref THEN [f EXCEPT !.kept = keep] ELSE f).find = f.find
      BY <1>1 DEF PanelInv, DrawerType, File
    <3> QED BY <1>1, <3>1, <3>2 DEF Gone
  <2>4. ASSUME NEW ref \in Refs, NEW i \in Indices, NEW from \in Refs, NEW j \in Indices,
               FileRequisition(ref, i, from, j)
        PROVE  phase = "open" /\ \A q \in filings : q.ref # f.ref
    <3>1. phase = "open" /\ ~Busy(from) /\ f.ref = from
      BY <2>1, <2>4 DEF FileRequisition, Without
    <3> QED BY <3>1 DEF Busy
  <2>5. ASSUME NEW q \in filings, Conclude(q) PROVE FALSE
    <3>1. PICK g \in Before(q) : \E c \in Placed(q, g) : drawer' = Amended(g, q, c)
      BY <2>1, <2>5 DEF Conclude
    <3>2. PICK c \in Placed(q, g) : drawer' = Amended(g, q, c)
      BY <3>1
    <3>3. f = g
      BY <2>1, <3>2 DEF Amended
    <3>4. [g EXCEPT !.clauses[q.index] = c, !.mistaken = @ \/ g.find # q.of] \in drawer'
      BY <3>2 DEF Amended
    <3>5. [g EXCEPT !.clauses[q.index] = c, !.mistaken = @ \/ g.find # q.of].find = g.find
      BY <1>1, <3>3 DEF PanelInv, DrawerType, File
    <3> QED BY <1>1, <3>3, <3>4, <3>5 DEF Gone
  <2>6. ASSUME NEW policy \in Policies, Survive(policy)
        PROVE  phase = "encounter" /\ ~f.kept
    <3>1. PICK ref \in Refs : \E g \in FilesRolled(ref) : drawer' \in Filed(g, policy)
      BY <2>1, <2>6 DEF Survive
    <3>2. PICK g \in FilesRolled(ref) : drawer' \in Filed(g, policy)
      BY <3>1
    <3>3. f.kept => f \in drawer'
      BY <3>2, FiledAfter
    <3>4. f.kept \in BOOLEAN
      BY <1>1 DEF PanelInv, DrawerType, File
    <3> QED BY <2>1, <2>6, <3>3, <3>4 DEF Survive
  <2>7. drawer' # drawer =>
          \/ Succeed
          \/ \E ref \in Refs, keep \in BOOLEAN : Countersign(ref, keep)
          \/ \E ref \in Refs, i, j \in Indices, from \in Refs : FileRequisition(ref, i, from, j)
          \/ \E q \in filings : Conclude(q)
          \/ \E policy \in Policies : Survive(policy)
    BY <1>1 DEF DrawerNext, Officer, Visit, Idle, drawerVars, FileArbitration, BeginTick, AllRuled, Die,
                EndOfSpan, Payroll, EndOfVisit, ArchivistFiles
  <2> QED BY <2>1, <2>2, <2>3, <2>4, <2>5, <2>6, <2>7
<1>2. PanelInv /\ [DrawerNext]_drawerVars =>
        [\A f \in drawer : Gone(f) =>
           /\ f.kept => phase = "open"
           /\ (\E q \in filings : q.ref = f.ref) => phase = "encounter" \/ filings' = {}]_drawerVars
  BY <1>1
<1> QED BY PanelInductive, <1>2, PTL DEF DrawerSpec, FilesGoRightly

-----------------------------------------------------------------------------
(* Storage *)

Tables == {"accounts", "characters", "deaths", "ledgers", "journal", "tavern", "serial", "tokens", "sends", "keys", "world"}

(* A row is one of a table's columns, whatever it holds of them.           *)
Row(r, columns) == r = [x \in columns |-> r[x]]

AccountColumns == {"id", "device", "seen"}
RecruitColumns == {"id", "account", "num", "alive", "born"}

RowsShaped ==
  /\ Row(postgres, Tables)
  /\ \A a \in postgres.accounts : Row(a, AccountColumns)
  /\ \A c \in postgres.characters : Row(c, RecruitColumns)

(* Accounts are numbered as they are opened.                               *)
AccountsNumbered ==
  area = "careers" =>
    /\ IsFiniteSet(postgres.accounts)
    /\ \A a \in postgres.accounts : a.id \in 1..Cardinality(postgres.accounts)

DevicesDiffer ==
  \A a, b \in postgres.accounts : a.device = b.device => a = b

(* Nobody is recruited to an account still to be opened, nor by another    *)
(* area.                                                                   *)
RecruitsOnFile ==
  /\ area # "careers" => postgres.characters = {}
  /\ \A c \in postgres.characters : c.account \in 1..Cardinality(postgres.accounts)

OneInService ==
  \A c, d \in postgres.characters : c.alive /\ d.alive /\ c.account = d.account => c = d

SigningHere == \A q \in Requests : signing[q] # NotSigning => area = "careers"

RowsInv ==
  /\ RowsShaped
  /\ signing \in [Requests -> [device : Devices \cup {"none"}, looked : BOOLEAN]]
  /\ AccountsNumbered /\ DevicesDiffer /\ RecruitsOnFile /\ OneInService /\ SigningHere

-----------------------------------------------------------------------------
LEMMA Queued ==
  ASSUME NEW S, IsFiniteSet(S)
  PROVE  /\ Cardinality(S) \in Nat
         /\ SetToSeq(S) \in [1..Cardinality(S) -> S]
         /\ \A i, j \in 1..Cardinality(S) : SetToSeq(S)[i] = SetToSeq(S)[j] => i = j
<1>1. Cardinality(S) \in Nat /\ \E f \in [1..Cardinality(S) -> S] : IsInjective(f)
  BY FS_CardinalityType DEF ExistsBijection, Bijection, Injection
<1>2. SetToSeq(S) \in [1..Cardinality(S) -> S] /\ IsInjective(SetToSeq(S))
  BY <1>1 DEF SetToSeq
<1> QED BY <1>1, <1>2 DEF IsInjective

LEMMA InitRows == StorageInit => RowsInv
<1> SUFFICES ASSUME StorageInit PROVE RowsInv
  OBVIOUS
<1> DEFINE accounts == IF area = "careers" THEN <<>> ELSE Numbered
<1>1. /\ Row(postgres, Tables)
      /\ postgres.accounts = ToSet(accounts) /\ postgres.characters = {}
  BY DEF StorageInit, Tables, Row
<1>2. signing = [q \in Requests |-> NotSigning]
  BY DEF StorageInit
<1>3. signing \in [Requests -> [device : Devices \cup {"none"}, looked : BOOLEAN]] /\ SigningHere
  BY <1>2 DEF NotSigning, SigningHere
<1>4. CASE area = "careers"
  <2>1. postgres.accounts = {}
    BY <1>1, <1>4 DEF ToSet
  <2> QED BY <1>1, <1>3, <1>4, <2>1, FS_EmptySet
          DEF RowsInv, RowsShaped, AccountsNumbered, DevicesDiffer, RecruitsOnFile, OneInService
<1>5. CASE area # "careers"
  <2> DEFINE order == SetToSeq(Devices)
  <2>1. order \in [1..Cardinality(Devices) -> Devices] /\ \A i, j \in DOMAIN order : order[i] = order[j] => i = j
    BY Queued, StorageAssumption DEF StorageAssumption
  <2>2. postgres.accounts = {[id |-> i, device |-> order[i], seen |-> 0] : i \in DOMAIN order}
    BY <1>1, <1>5 DEF ToSet, Numbered
  <2> HIDE DEF order
  <2>3. DevicesDiffer
    BY <2>1, <2>2 DEF DevicesDiffer
  <2>4. RowsShaped
    BY <1>1, <2>2 DEF RowsShaped, Row, AccountColumns
  <2> QED BY <1>1, <1>3, <1>5, <2>3, <2>4 DEF RowsInv, AccountsNumbered, RecruitsOnFile, OneInService
<1> QED BY <1>4, <1>5

(* What the other areas write leaves careers and devices alone.            *)
LEMMA ElsewhereKeeps ==
  ASSUME RowsInv, Row(postgres', Tables),
         area' = area, signing' \in [Requests -> [device : Devices \cup {"none"}, looked : BOOLEAN]], SigningHere',
         postgres'.accounts = postgres.accounts, postgres'.characters = postgres.characters
  PROVE  RowsInv'
BY DEF RowsInv, RowsShaped, AccountsNumbered, DevicesDiffer, RecruitsOnFile, OneInService

Writes(p, q) ==
  Row(q, Tables) /\ q.accounts = p.accounts /\ q.characters = p.characters

(* Every call of another area writes other tables.                         *)
LEMMA OtherTables ==
  ASSUME RowsInv, UNCHANGED <<area, signing>>, Writes(postgres, postgres')
  PROVE  RowsInv'
BY ElsewhereKeeps DEF Writes, RowsInv, SigningHere

LEMMA AreasKeepRows ==
  ASSUME RowsInv,
         \/ \E a \in Accounts :
              \/ SendTavernMessage(a)
              \/ CompleteIdempotent(a) \/ ReleaseIdempotent(a)
              \/ \E l \in Ledgers, v \in Settings : SaveLedger(l, a, v)
              \/ \E t \in Tokens : SavePushToken(a, t)
              \/ \E e \in Events : ClaimPushSend(a, e)
              \/ \E c \in Calls : BeginIdempotent(a, c)
         \/ \E d \in Devices, t \in 0..now : AppendJournal(d, <<t>>) \/ AppendJournal(d, <<t, now>>)
         \/ BurnSerial
         \/ \E ts \in SUBSET Tokens : DeletePushTokens(ts)
         \/ ExpireIdempotency
         \/ \E amount \in 0..Target : AddGuildProgress(amount)
         \/ SaveWorld
  PROVE  RowsInv'
<1>1. Row(postgres, Tables)
  BY DEF RowsInv, RowsShaped
<1>2. UNCHANGED <<area, signing>>
  BY DEF Working, SendTavernMessage, CompleteIdempotent, ReleaseIdempotent, SaveLedger, SavePushToken, ClaimPushSend,
         BeginIdempotent, AppendJournal, BurnSerial, DeletePushTokens, ExpireIdempotency, AddGuildProgress, SaveWorld
<1> SUFFICES Writes(postgres, postgres')
  BY <1>2, OtherTables
<1>3. Writes(postgres, postgres)
  BY <1>1 DEF Writes
<1>4. ASSUME NEW a \in Accounts PROVE
  /\ SendTavernMessage(a) => Writes(postgres, postgres')
  /\ CompleteIdempotent(a) => Writes(postgres, postgres')
  /\ ReleaseIdempotent(a) => Writes(postgres, postgres')
  /\ (\E l \in Ledgers, v \in Settings : SaveLedger(l, a, v)) => Writes(postgres, postgres')
  /\ (\E t \in Tokens : SavePushToken(a, t)) => Writes(postgres, postgres')
  /\ (\E e \in Events : ClaimPushSend(a, e)) => Writes(postgres, postgres')
  /\ (\E c \in Calls : BeginIdempotent(a, c)) => Writes(postgres, postgres')
  <2>1. SendTavernMessage(a) => Writes(postgres, postgres')
    BY <1>1, <1>3 DEF SendTavernMessage, PostgresAppend, Writes, Tables, Row
  <2>2. CompleteIdempotent(a) => Writes(postgres, postgres')
    BY <1>1 DEF CompleteIdempotent, Writes, Tables, Row
  <2>3. ReleaseIdempotent(a) => Writes(postgres, postgres')
    BY <1>1 DEF ReleaseIdempotent, Writes, Tables, Row
  <2>4. (\E l \in Ledgers, v \in Settings : SaveLedger(l, a, v)) => Writes(postgres, postgres')
    BY <1>1 DEF SaveLedger, PostgresStore, Writes, Tables, Row
  <2>5. (\E t \in Tokens : SavePushToken(a, t)) => Writes(postgres, postgres')
    BY <1>1 DEF SavePushToken, PostgresRegister, Writes, Tables, Row
  <2>6. (\E e \in Events : ClaimPushSend(a, e)) => Writes(postgres, postgres')
    BY <1>1, <1>3 DEF ClaimPushSend, Writes, Tables, Row
  <2>7. (\E c \in Calls : BeginIdempotent(a, c)) => Writes(postgres, postgres')
    BY <1>1 DEF BeginIdempotent, PostgresBegin, Writes, Tables, Row
  <2> QED BY <2>1, <2>2, <2>3, <2>4, <2>5, <2>6, <2>7
<1>5. ASSUME NEW d \in Devices, NEW ts, AppendJournal(d, ts) PROVE Writes(postgres, postgres')
  BY <1>1, <1>5 DEF AppendJournal, PostgresWrites, Writes, Tables, Row
<1>6. BurnSerial => Writes(postgres, postgres')
  BY <1>1 DEF BurnSerial, Writes, Tables, Row
<1>7. (\E ts \in SUBSET Tokens : DeletePushTokens(ts)) => Writes(postgres, postgres')
  BY <1>1 DEF DeletePushTokens, PostgresForget, Writes, Tables, Row
<1>8. ExpireIdempotency => Writes(postgres, postgres')
  BY <1>1 DEF ExpireIdempotency, Writes, Tables, Row
<1>9. (\E amount \in 0..Target : AddGuildProgress(amount)) => Writes(postgres, postgres')
  BY <1>1 DEF AddGuildProgress, Writes, Tables, Row
<1>10. SaveWorld => Writes(postgres, postgres')
  BY <1>1 DEF SaveWorld, Writes, Tables, Row
<1> QED BY <1>4, <1>5, <1>6, <1>7, <1>8, <1>9, <1>10

(* accounts.last_seen_at, in the area where nobody is recruited.           *)
LEMMA SeenKeepsRows ==
  ASSUME RowsInv, NEW a \in Accounts, TouchAccountSeen(a) \/ MarkAway(a)
  PROVE  RowsInv'
<1>1. PICK at : postgres' = PostgresSeen(postgres, a, at)
  BY DEF TouchAccountSeen, MarkAway
<1>2. area = "push" /\ UNCHANGED <<area, signing>>
  BY DEF TouchAccountSeen, MarkAway, Working
<1>3. /\ Row(postgres', Tables) /\ postgres'.characters = postgres.characters
      /\ postgres'.accounts = {IF b.id = a THEN [b EXCEPT !.seen = at] ELSE b : b \in postgres.accounts}
  BY <1>1 DEF PostgresSeen, RowsInv, RowsShaped, Row, Tables
<1>4. postgres.characters = {}
  BY <1>2 DEF RowsInv, RecruitsOnFile
<1>5. DevicesDiffer'
  <2> SUFFICES ASSUME NEW b \in postgres'.accounts, NEW c \in postgres'.accounts, b.device = c.device
               PROVE  b = c
    BY DEF DevicesDiffer
  <2> DEFINE Seen(x) == IF x.id = a THEN [x EXCEPT !.seen = at] ELSE x
  <2>1. PICK x \in postgres.accounts : b = Seen(x)
    BY <1>3
  <2>2. PICK y \in postgres.accounts : c = Seen(y)
    BY <1>3
  <2>3. b.device = x.device /\ c.device = y.device
    BY <2>1, <2>2 DEF RowsInv, RowsShaped, Row, AccountColumns
  <2>4. x = y
    BY <2>3 DEF RowsInv, DevicesDiffer
  <2> QED BY <2>1, <2>2, <2>4
<1>6. RowsShaped'
  <2>1. ASSUME NEW b \in postgres'.accounts PROVE Row(b, AccountColumns)
    <3>1. PICK x \in postgres.accounts : b = IF x.id = a THEN [x EXCEPT !.seen = at] ELSE x
      BY <1>3
    <3>2. Row(x, AccountColumns)
      BY DEF RowsInv, RowsShaped
    <3> QED BY <3>1, <3>2 DEF Row, AccountColumns
  <2> QED BY <1>3, <1>4, <2>1 DEF RowsShaped
<1> QED BY <1>2, <1>3, <1>4, <1>5, <1>6
        DEF RowsInv, AccountsNumbered, RecruitsOnFile, OneInService, SigningHere

(* What the handlers of a career do to the recruits of one account: they   *)
(* end `c', and may add one to serve when nobody else does.                *)
LEMMA CareersKeepRows ==
  ASSUME RowsInv, UNCHANGED <<area, signing>>, area = "careers",
         Row(postgres', Tables), postgres'.accounts = postgres.accounts,
         NEW old, old \subseteq postgres'.characters, \A x \in old : Row(x, RecruitColumns),
         NEW new, Row(new, RecruitColumns), postgres'.characters \subseteq old \cup {new},
         new \notin old => new.account \in 1..Cardinality(postgres.accounts)
                           /\ \A x \in old : x.alive => x.account # new.account,
         \A x \in old : x.account \in 1..Cardinality(postgres.accounts),
         \A x, y \in old : x.alive /\ y.alive /\ x.account = y.account => x = y
  PROVE  RowsInv'
<1>1. RecruitsOnFile'
  BY DEF RecruitsOnFile
<1>2. OneInService'
  BY DEF OneInService
<1>3. RowsShaped'
  BY DEF RowsInv, RowsShaped
<1> QED BY <1>1, <1>2, <1>3 DEF RowsInv, AccountsNumbered, DevicesDiffer, SigningHere

(* Saved as dead, a recruit leaves its account without one in service.     *)
Replaced(rows, c) == {IF x.id = c.id THEN c ELSE x : x \in rows}

Others(c) == Replaced(postgres.characters, [c EXCEPT !.alive = FALSE])

LEMMA SavedAsDead ==
  ASSUME RowsInv, NEW c \in postgres.characters, c.alive
  PROVE  /\ Row([c EXCEPT !.alive = FALSE], RecruitColumns)
         /\ \A x \in Others(c) : Row(x, RecruitColumns)
         /\ \A x \in Others(c) : x.account \in 1..Cardinality(postgres.accounts)
         /\ \A x, y \in Others(c) : x.alive /\ y.alive /\ x.account = y.account => x = y
         /\ \A x \in Others(c) : x.alive => x.account # c.account
<1> DEFINE dead == [c EXCEPT !.alive = FALSE]
<1>1. dead.id = c.id /\ dead.account = c.account /\ ~dead.alive /\ Row(dead, RecruitColumns)
  <2>1. Row(c, RecruitColumns)
    BY DEF RowsInv, RowsShaped
  <2> QED BY <2>1 DEF Row, RecruitColumns
<1> HIDE DEF dead
<1>2. ASSUME NEW x \in Others(c)
      PROVE  x = dead \/ (x \in postgres.characters /\ x.id # c.id)
  BY <1>1 DEF Others, Replaced, dead
<1> QED BY <1>1, <1>2 DEF RowsInv, RowsShaped, RecruitsOnFile, OneInService, dead

(* The writes a handler puts together.                                     *)
LEMMA RowWrites ==
  ASSUME NEW p, Row(p, Tables)
  PROVE  /\ \A c : /\ Row(PostgresInsert(p, c), Tables) /\ PostgresInsert(p, c).accounts = p.accounts
                   /\ PostgresInsert(p, c).characters = p.characters \cup {c}
         /\ \A c : /\ Row(PostgresSave(p, c), Tables) /\ PostgresSave(p, c).accounts = p.accounts
                   /\ PostgresSave(p, c).characters = Replaced(p.characters, c)
         /\ \A d : Writes(p, PostgresRecord(p, d))
         /\ \A l, a, v, mark : Writes(p, PostgresStore(p, l, a, v, mark))
         /\ \A a : /\ Row(PostgresOpen(p, a), Tables) /\ PostgresOpen(p, a).characters = p.characters
                   /\ PostgresOpen(p, a).accounts = p.accounts \cup {a}
<1>1. ASSUME NEW c
      PROVE  /\ Row(PostgresInsert(p, c), Tables) /\ PostgresInsert(p, c).accounts = p.accounts
             /\ PostgresInsert(p, c).characters = p.characters \cup {c}
  BY DEF PostgresInsert, Row, Tables
<1>2. ASSUME NEW c
      PROVE  /\ Row(PostgresSave(p, c), Tables) /\ PostgresSave(p, c).accounts = p.accounts
             /\ PostgresSave(p, c).characters = Replaced(p.characters, c)
  BY DEF PostgresSave, Replaced, Row, Tables
<1>3. ASSUME NEW d PROVE Writes(p, PostgresRecord(p, d))
  BY DEF PostgresRecord, Writes, Row, Tables
<1>4. ASSUME NEW l, NEW a, NEW v, NEW mark PROVE Writes(p, PostgresStore(p, l, a, v, mark))
  BY DEF PostgresStore, Writes, Row, Tables
<1>5. ASSUME NEW a
      PROVE  /\ Row(PostgresOpen(p, a), Tables) /\ PostgresOpen(p, a).characters = p.characters
             /\ PostgresOpen(p, a).accounts = p.accounts \cup {a}
  BY DEF PostgresOpen, Row, Tables
<1> QED BY <1>1, <1>2, <1>3, <1>4, <1>5

LEMMA RecruitIs ==
  ASSUME NEW account, NEW num
  PROVE  Row(Recruit(account, num), RecruitColumns) /\ Recruit(account, num).account = account
BY DEF Recruit, Row, RecruitColumns

LEMMA CareersWork ==
  ASSUME RowsInv,
         \/ \E c \in postgres.characters :
              c.alive /\ (RecordDeath(c) \/ Retire(c) \/ \E killed \in BOOLEAN : Transfer(c, killed))
         \/ \E a \in Accounts : Claim(a)
  PROVE  RowsInv'
<1>1. Row(postgres, Tables) /\ \A x \in postgres.characters : Row(x, RecruitColumns)
  BY DEF RowsInv, RowsShaped
<1>2. area = "careers" /\ UNCHANGED <<area, signing>>
  BY DEF RecordDeath, Retire, Transfer, Claim, Working
<1>3. ASSUME NEW c \in postgres.characters, c.alive,
             RecordDeath(c) \/ Retire(c) \/ \E killed \in BOOLEAN : Transfer(c, killed)
      PROVE  RowsInv'
  <2> DEFINE dead  == [c EXCEPT !.alive = FALSE]
             saved == PostgresSave(postgres, dead)
  <2>1. dead.id = c.id
    BY <1>1 DEF Row, RecruitColumns
  <2>2. Row(saved, Tables) /\ saved.accounts = postgres.accounts /\ saved.characters = Others(c)
    <3>1. Others(c) = Replaced(postgres.characters, dead)
      BY DEF Others
    <3> HIDE DEF dead
    <3> QED BY <1>1, <3>1, RowWrites
  <2>3. \E p : /\ Writes(saved, p)
               /\ (postgres' = p) \/ (\E num : postgres' = PostgresInsert(p, Recruit(c.account, num)))
    <3> HIDE DEF saved
    <3>1. \A d : Writes(saved, PostgresRecord(saved, d))
      BY <2>2, RowWrites
    <3>2. \A d, e : Writes(saved, PostgresRecord(PostgresRecord(saved, d), e))
      <4> SUFFICES ASSUME NEW d, NEW e PROVE Writes(saved, PostgresRecord(PostgresRecord(saved, d), e))
        OBVIOUS
      <4>1. Writes(PostgresRecord(saved, d), PostgresRecord(PostgresRecord(saved, d), e))
        BY <3>1, RowWrites DEF Writes
      <4> QED BY <3>1, <4>1 DEF Writes
    <3>3. CASE RecordDeath(c)
      <4>1. PICK award \in Awards : postgres' = PostgresRecord(saved, Death(c.account, award, 1))
        BY <3>3 DEF RecordDeath, saved
      <4> QED BY <3>1, <4>1
    <3>4. CASE Retire(c)
      <4>1. PICK award \in Awards :
              postgres' = PostgresInsert(PostgresRecord(saved, Death(c.account, award, 1)), Recruit(c.account, c.num + 1))
        BY <3>4 DEF Retire, saved
      <4>2. Writes(saved, PostgresRecord(saved, Death(c.account, award, 1)))
        BY <3>1
      <4> QED BY <4>1, <4>2
    <3>5. ASSUME NEW killed \in BOOLEAN, Transfer(c, killed)
          PROVE  \E p : Writes(saved, p) /\ postgres' = PostgresInsert(p, Recruit(c.account, 1))
      <4>1. PICK award \in Awards :
              postgres' = PostgresInsert(PostgresRecord(IF killed THEN PostgresRecord(saved, Death(c.account, award, 1))
                                                        ELSE saved, Death(c.account, award, IF killed THEN 2 ELSE 1)), Recruit(c.account, 1))
        BY <3>5 DEF Transfer, saved
      <4> QED BY <3>1, <3>2, <4>1
    <3> QED BY <1>3, <3>3, <3>4, <3>5
  <2> HIDE DEF dead, saved
  <2>4. /\ \A x \in Others(c) : Row(x, RecruitColumns) /\ x.account \in 1..Cardinality(postgres.accounts)
        /\ \A x, y \in Others(c) : x.alive /\ y.alive /\ x.account = y.account => x = y
        /\ \A x \in Others(c) : x.alive => x.account # c.account
        /\ [c EXCEPT !.alive = FALSE] \in Others(c)
    <3>1. [c EXCEPT !.alive = FALSE] \in Others(c)
      BY <2>1 DEF Others, Replaced, dead
    <3> QED BY <1>3, <3>1, SavedAsDead
  <2>5. PICK p : /\ Writes(saved, p)
                 /\ (postgres' = p) \/ (\E num : postgres' = PostgresInsert(p, Recruit(c.account, num)))
    BY <2>3
  <2>6. PICK new : /\ Row(new, RecruitColumns) /\ (new.account = c.account \/ new \in Others(c))
                   /\ Row(postgres', Tables) /\ postgres'.accounts = postgres.accounts
                   /\ postgres'.characters = Others(c) \cup {new}
    <3>1. Row(p, Tables) /\ p.accounts = postgres.accounts /\ p.characters = Others(c)
      BY <2>2, <2>5 DEF Writes
    <3>2. CASE postgres' = p
      <4> DEFINE gone == [c EXCEPT !.alive = FALSE]
      <4>1. gone \in Others(c) /\ Row(gone, RecruitColumns)
        BY <2>4
      <4> HIDE DEF gone
      <4> QED BY <3>1, <3>2, <4>1
    <3>3. ASSUME NEW num, postgres' = PostgresInsert(p, Recruit(c.account, num))
          PROVE  /\ Row(postgres', Tables) /\ postgres'.accounts = postgres.accounts
                 /\ postgres'.characters = Others(c) \cup {Recruit(c.account, num)}
                 /\ Row(Recruit(c.account, num), RecruitColumns) /\ Recruit(c.account, num).account = c.account
      BY <3>1, <3>3, RowWrites, RecruitIs
    <3> QED BY <2>5, <3>2, <3>3
  <2>7. c.account \in 1..Cardinality(postgres.accounts)
    BY <1>3 DEF RowsInv, RecruitsOnFile
  <2>8. new \notin Others(c) => /\ new.account \in 1..Cardinality(postgres.accounts)
                                /\ \A x \in Others(c) : x.alive => x.account # new.account
    BY <2>4, <2>6, <2>7
  <2>9. Others(c) \subseteq postgres'.characters /\ postgres'.characters \subseteq Others(c) \cup {new}
    BY <2>6
  <2> QED BY <1>2, <2>4, <2>6, <2>8, <2>9, CareersKeepRows
<1>4. ASSUME NEW a \in Accounts, Claim(a) PROVE RowsInv'
  <2>1. PICK previous \in PostgresLatest(a) : postgres' = PostgresInsert(postgres, Recruit(a, previous.num + 1))
    BY <1>4 DEF Claim
  <2> DEFINE new == Recruit(a, previous.num + 1)
  <2>2. Row(new, RecruitColumns) /\ new.account = a
    BY RecruitIs
  <2> HIDE DEF new
  <2>3. /\ Row(postgres', Tables) /\ postgres'.accounts = postgres.accounts
        /\ postgres'.characters = postgres.characters \cup {new}
    BY <1>1, <2>1, RowWrites DEF new
  <2>4. a \in 1..Cardinality(postgres.accounts)
    BY <1>2 DEF RowsInv, AccountsNumbered, Accounts
  <2>5. \A x \in postgres.characters : x.alive => x.account # a
    BY <1>4 DEF Claim, PostgresActive
  <2>6. /\ \A x \in postgres.characters : x.account \in 1..Cardinality(postgres.accounts)
        /\ \A x, y \in postgres.characters : x.alive /\ y.alive /\ x.account = y.account => x = y
    BY DEF RowsInv, RecruitsOnFile, OneInService
  <2>7. postgres.characters \subseteq postgres'.characters /\ postgres'.characters \subseteq postgres.characters \cup {new}
    BY <2>3
  <2> QED BY <1>1, <1>2, <2>2, <2>3, <2>4, <2>5, <2>6, <2>7, CareersKeepRows
<1> QED BY <1>3, <1>4

LEMMA SigningKeepsRows ==
  ASSUME RowsInv, NEW q \in Requests, CreateAccount(q) \/ \E d \in Devices : Look(q, d)
  PROVE  RowsInv'
<1>1. Row(postgres, Tables) /\ area' = area
  BY DEF RowsInv, RowsShaped, CreateAccount, Look
<1>2. ASSUME UNCHANGED <<area, postgres>>, signing' \in [Requests -> [device : Devices \cup {"none"}, looked : BOOLEAN]],
             SigningHere'
      PROVE  RowsInv'
  BY <1>1, <1>2, ElsewhereKeeps DEF RowsInv
<1>3. ASSUME NEW d \in Devices, Look(q, d) PROVE RowsInv'
  <2>1. UNCHANGED <<area, postgres>> /\ area = "careers"
    BY <1>3 DEF Look
  <2>2. signing' \in [Requests -> [device : Devices \cup {"none"}, looked : BOOLEAN]]
    BY <1>3 DEF Look, RowsInv
  <2> QED BY <1>2, <2>1, <2>2 DEF SigningHere
<1>4. CASE CreateAccount(q)
  <2> DEFINE device  == signing[q].device
             account == [id |-> Cardinality(postgres.accounts) + 1, device |-> device, seen |-> now]
  <2>1. signing' = [signing EXCEPT ![q] = NotSigning] /\ signing[q] # NotSigning
    BY <1>4 DEF CreateAccount
  <2>2. signing' \in [Requests -> [device : Devices \cup {"none"}, looked : BOOLEAN]] /\ SigningHere'
    BY <1>1, <2>1 DEF RowsInv, SigningHere, NotSigning
  <2>3. area = "careers"
    BY <2>1 DEF RowsInv, SigningHere
  <2>4. CASE postgres' = postgres
    BY <1>1, <1>2, <2>2, <2>4
  <2>5. CASE ~Taken(device) /\ Opened(memory, postgres, account)
    <3> DEFINE n   == Cardinality(postgres.accounts)
               new == Recruit(n + 1, 1)
               p   == PostgresOpen(postgres, account)
               r   == PostgresStore(PostgresStore(p, "pension", n + 1, Default, FALSE), "orders", n + 1, Default, FALSE)
    <3>1. IsFiniteSet(postgres.accounts) /\ n \in Nat /\ \A a \in postgres.accounts : a.id \in 1..n
      BY <2>3, FS_CardinalityType DEF RowsInv, AccountsNumbered
    <3>2. account.id = n + 1 /\ account.device = device /\ Row(account, AccountColumns)
      BY DEF Row, AccountColumns
    <3>3. postgres' = PostgresInsert(r, new)
      BY <2>5 DEF Opened
    <3>4. \A a \in postgres.accounts : a.device # device
      BY <2>5 DEF Taken, PostgresAccount
    <3>5. account \notin postgres.accounts
      BY <3>1, <3>2
    <3> HIDE DEF account, device, n
    <3>6. Row(p, Tables) /\ p.characters = postgres.characters /\ p.accounts = postgres.accounts \cup {account}
      BY <1>1, RowWrites
    <3> HIDE DEF p
    <3>7. Row(r, Tables) /\ r.characters = postgres.characters /\ r.accounts = postgres.accounts \cup {account}
      <4> DEFINE pension == PostgresStore(p, "pension", n + 1, Default, FALSE)
      <4>1. Writes(p, pension)
        BY <3>6, RowWrites
      <4> HIDE DEF pension
      <4>2. Writes(pension, PostgresStore(pension, "orders", n + 1, Default, FALSE))
        <5>1. Row(pension, Tables)
          BY <4>1 DEF Writes
        <5> QED BY <5>1, RowWrites
      <4> QED BY <3>6, <4>1, <4>2 DEF Writes, pension
    <3>8. Row(new, RecruitColumns) /\ new.account = n + 1
      BY RecruitIs
    <3> HIDE DEF r, new
    <3>9. /\ Row(postgres', Tables) /\ postgres'.accounts = postgres.accounts \cup {account}
          /\ postgres'.characters = postgres.characters \cup {new}
      BY <3>3, <3>7, RowWrites
    <3>10. IsFiniteSet(postgres'.accounts) /\ Cardinality(postgres'.accounts) = n + 1
      <4>1. /\ IsFiniteSet(postgres.accounts \cup {account})
            /\ Cardinality(postgres.accounts \cup {account}) = Cardinality(postgres.accounts) + 1
        BY <3>1, <3>5, FS_AddElement
      <4> QED BY <3>9, <4>1 DEF n
    <3>11. AccountsNumbered'
      <4>1. \A a \in postgres'.accounts : a.id \in 1..(n + 1)
        BY <3>1, <3>2, <3>9
      <4> QED BY <3>10, <4>1 DEF AccountsNumbered
    <3>12. DevicesDiffer'
      BY <3>2, <3>4, <3>9 DEF RowsInv, DevicesDiffer
    <3>13. \A c \in postgres.characters : c.account \in 1..n
      BY DEF RowsInv, RecruitsOnFile, n
    <3>14. RecruitsOnFile'
      BY <1>1, <2>3, <3>1, <3>8, <3>9, <3>10, <3>13 DEF RecruitsOnFile
    <3>15. OneInService'
      BY <3>1, <3>8, <3>9, <3>13 DEF RowsInv, OneInService
    <3>16. RowsShaped'
      BY <3>2, <3>8, <3>9 DEF RowsInv, RowsShaped
    <3> QED BY <2>2, <3>11, <3>12, <3>14, <3>15, <3>16 DEF RowsInv
  <2> QED BY <1>4, <2>4, <2>5 DEF CreateAccount
<1> QED BY <1>3, <1>4

LEMMA NextRows == RowsInv /\ [StorageNext]_storageVars => RowsInv'
<1> SUFFICES ASSUME RowsInv, [StorageNext]_storageVars PROVE RowsInv'
  OBVIOUS
<1>1. CASE MinutePasses \/ Over \/ UNCHANGED storageVars
  <2>1. UNCHANGED <<area, postgres, signing>>
    BY <1>1 DEF MinutePasses, Over, storageVars
  <2> QED BY <2>1 DEF RowsInv, RowsShaped, AccountsNumbered, DevicesDiffer, RecruitsOnFile, OneInService, SigningHere
<1>2. ASSUME NEW a \in Accounts,
             \/ Claim(a) \/ TouchAccountSeen(a) \/ MarkAway(a) \/ SendTavernMessage(a)
             \/ CompleteIdempotent(a) \/ ReleaseIdempotent(a)
             \/ \E l \in Ledgers, v \in Settings : SaveLedger(l, a, v)
             \/ \E t \in Tokens : SavePushToken(a, t)
             \/ \E e \in Events : ClaimPushSend(a, e)
             \/ \E c \in Calls : BeginIdempotent(a, c)
      PROVE  RowsInv'
  <2>1. CASE Claim(a)
    BY <2>1, CareersWork
  <2>2. CASE TouchAccountSeen(a) \/ MarkAway(a)
    BY <2>2, SeenKeepsRows
  <2> QED BY <1>2, <2>1, <2>2, AreasKeepRows
<1> QED BY <1>1, <1>2, CareersWork, SigningKeepsRows, AreasKeepRows DEF StorageNext

LEMMA AtMostOne ==
  ASSUME NEW S, \A x, y \in S : x = y
  PROVE  Cardinality(S) <= 1
<1>1. CASE S = {}
  BY <1>1, FS_EmptySet
<1>2. CASE S # {}
  <2>1. PICK x \in S : TRUE
    BY <1>2
  <2>2. S = {x}
    BY <2>1
  <2> QED BY <2>2, FS_Singleton
<1> QED BY <1>1, <1>2

(* A phone has one account and an account one recruit in service, however  *)
(* many sign-ins of it find nothing at once (service.ts): of any number of *)
(* phones and sign-ins, through deaths, claims, retirements and transfers. *)
THEOREM OneAccountOneRecruit == StorageSpec => []OneAccountPerDevice
<1>1. StorageInit => RowsInv
  BY InitRows
<1>2. RowsInv /\ [StorageNext]_storageVars => RowsInv'
  BY NextRows
<1>3. RowsInv => OneAccountPerDevice
  <2> SUFFICES ASSUME RowsInv PROVE OneAccountPerDevice
    OBVIOUS
  <2>1. ASSUME NEW d \in Devices PROVE Cardinality(PostgresAccount(d)) <= 1
    <3>1. \A x, y \in PostgresAccount(d) : x = y
      BY DEF PostgresAccount, RowsInv, DevicesDiffer
    <3> QED BY <3>1, AtMostOne
  <2>2. ASSUME NEW a \in Accounts PROVE Cardinality(PostgresActive(a)) <= 1
    <3>1. \A x, y \in PostgresActive(a) : x = y
      BY DEF PostgresActive, RowsInv, OneInService
    <3> QED BY <3>1, AtMostOne
  <2> QED BY <2>1, <2>2 DEF OneAccountPerDevice
<1> QED BY <1>1, <1>2, <1>3, PTL DEF StorageSpec

-----------------------------------------------------------------------------
(* Sets in an order *)

Strict(S, before) ==
  /\ \A x \in S : <<x, x>> \notin before
  /\ \A x, y, z \in S : <<x, y>> \in before /\ <<y, z>> \in before => <<x, z>> \in before
  /\ \A x, y \in S : x # y => <<x, y>> \in before \/ <<y, x>> \in before

(* How many come before one.                                               *)
Rank(S, before, x) == Cardinality({y \in S : <<y, x>> \in before})

LEMMA RankGrows ==
  ASSUME NEW S, IsFiniteSet(S), NEW before, Strict(S, before)
  PROVE  /\ \A x \in S : Rank(S, before, x) \in 0..(Cardinality(S) - 1)
         /\ \A x, y \in S : <<x, y>> \in before => Rank(S, before, x) < Rank(S, before, y)
         /\ \A x, y \in S : Rank(S, before, x) = Rank(S, before, y) => x = y
<1> DEFINE Lower(x) == {y \in S : <<y, x>> \in before}
<1>1. \A x \in S : IsFiniteSet(Lower(x)) /\ Cardinality(Lower(x)) \in Nat
  <2> SUFFICES ASSUME NEW x \in S PROVE IsFiniteSet(Lower(x)) /\ Cardinality(Lower(x)) \in Nat
    OBVIOUS
  <2>1. Lower(x) \in SUBSET S
    OBVIOUS
  <2> HIDE DEF Lower
  <2> QED BY <2>1, FS_Subset, FS_CardinalityType
<1>2. Cardinality(S) \in Nat
  BY FS_CardinalityType
<1>3. \A x \in S : Cardinality(Lower(x)) < Cardinality(S)
  <2> SUFFICES ASSUME NEW x \in S PROVE Cardinality(Lower(x)) < Cardinality(S)
    OBVIOUS
  <2>1. Lower(x) \in SUBSET S /\ x \notin Lower(x)
    BY DEF Strict
  <2> HIDE DEF Lower
  <2>2. Cardinality(Lower(x)) <= Cardinality(S) /\ Cardinality(S) # Cardinality(Lower(x))
    BY <2>1, FS_Subset
  <2> QED BY <1>1, <1>2, <2>2
<1>4. \A x, y \in S : <<x, y>> \in before => Cardinality(Lower(x)) < Cardinality(Lower(y))
  <2> SUFFICES ASSUME NEW x \in S, NEW y \in S, <<x, y>> \in before
               PROVE  Cardinality(Lower(x)) < Cardinality(Lower(y))
    OBVIOUS
  <2>1. Lower(x) \in SUBSET Lower(y) /\ x \notin Lower(x) /\ x \in Lower(y)
    BY DEF Strict
  <2>2. IsFiniteSet(Lower(y)) /\ Cardinality(Lower(x)) \in Nat /\ Cardinality(Lower(y)) \in Nat
    BY <1>1
  <2> HIDE DEF Lower
  <2>3. Cardinality(Lower(x)) <= Cardinality(Lower(y)) /\ Cardinality(Lower(y)) # Cardinality(Lower(x))
    BY <2>1, <2>2, FS_Subset
  <2> QED BY <2>2, <2>3
<1>5. \A x \in S : Rank(S, before, x) = Cardinality(Lower(x))
  BY DEF Rank
<1> HIDE DEF Lower
<1>6. \A x, y \in S : Rank(S, before, x) = Rank(S, before, y) => x = y
  <2> SUFFICES ASSUME NEW x \in S, NEW y \in S, Rank(S, before, x) = Rank(S, before, y), x # y PROVE FALSE
    OBVIOUS
  <2>1. <<x, y>> \in before \/ <<y, x>> \in before
    BY DEF Strict
  <2> QED BY <1>1, <1>4, <1>5, <2>1
<1> QED BY <1>1, <1>2, <1>3, <1>4, <1>5, <1>6

LEMMA SortedIs ==
  ASSUME NEW S, IsFiniteSet(S), NEW before, Strict(S, before)
  PROVE  /\ Cardinality(S) \in Nat
         /\ Sorted(S, before) \in [1..Cardinality(S) -> S]
         /\ Sorted(S, before) \in Seq(S) /\ Len(Sorted(S, before)) = Cardinality(S)
         /\ \A k \in 1..Cardinality(S) : Rank(S, before, Sorted(S, before)[k]) = k - 1
         /\ \A i, j \in 1..Cardinality(S) : i < j => <<Sorted(S, before)[i], Sorted(S, before)[j]>> \in before
         /\ \A x \in S : \E i \in 1..Cardinality(S) : Sorted(S, before)[i] = x
<1> DEFINE n == Cardinality(S)
           rank == [x \in S |-> Rank(S, before, x)]
           s == Sorted(S, before)
<1>1. n \in Nat
  BY FS_CardinalityType
<1>2. /\ \A x \in S : Rank(S, before, x) \in 0..(n - 1)
      /\ \A x, y \in S : <<x, y>> \in before => Rank(S, before, x) < Rank(S, before, y)
      /\ \A x, y \in S : Rank(S, before, x) = Rank(S, before, y) => x = y
  BY RankGrows
<1>3. IsFiniteSet(0..(n - 1)) /\ Cardinality(0..(n - 1)) = n
  BY <1>1, FS_Interval
<1>4. rank \in Injection(S, 0..(n - 1))
  BY <1>2 DEF Injection, IsInjective
<1>5. rank \in Surjection(S, 0..(n - 1))
  <2> HIDE DEF rank
  <2> QED BY <1>3, <1>4, FS_Injection
<1>6. \A k \in 1..n : \E x \in S : Rank(S, before, x) = k - 1
  <2> SUFFICES ASSUME NEW k \in 1..n PROVE \E x \in S : Rank(S, before, x) = k - 1
    OBVIOUS
  <2>1. k - 1 \in 0..(n - 1)
    BY <1>1
  <2>2. \A i \in 0..(n - 1) : \E x \in S : rank[x] = i
    BY <1>5 DEF Surjection
  <2>3. PICK x \in S : rank[x] = k - 1
    BY <2>1, <2>2
  <2> QED BY <2>3
<1>7. s = [k \in 1..n |-> CHOOSE x \in S : Rank(S, before, x) = k - 1]
  BY DEF Sorted, Rank
<1> HIDE DEF s, n, rank
<1>8. \A k \in 1..n : s[k] \in S /\ Rank(S, before, s[k]) = k - 1
  BY <1>6, <1>7
<1>9. s \in [1..n -> S]
  BY <1>7, <1>8
<1>10. s \in Seq(S) /\ Len(s) = n
  <2>1. s \in Seq(S)
    BY <1>1, <1>9, SeqDef
  <2> QED BY <1>1, <1>9, <2>1, LenProperties
<1>11. \A i, j \in 1..n : i < j => <<s[i], s[j]>> \in before
  <2> SUFFICES ASSUME NEW i \in 1..n, NEW j \in 1..n, i < j PROVE <<s[i], s[j]>> \in before
    OBVIOUS
  <2>1. s[i] \in S /\ s[j] \in S /\ Rank(S, before, s[i]) < Rank(S, before, s[j])
    BY <1>1, <1>8
  <2>2. s[i] # s[j] /\ ~(Rank(S, before, s[j]) < Rank(S, before, s[i]))
    BY <1>2, <2>1
  <2> QED BY <1>2, <2>1, <2>2 DEF Strict
<1>12. \A x \in S : \E i \in 1..n : s[i] = x
  <2> SUFFICES ASSUME NEW x \in S PROVE \E i \in 1..n : s[i] = x
    OBVIOUS
  <2> DEFINE i == Rank(S, before, x) + 1
  <2>1. i \in 1..n /\ Rank(S, before, x) = i - 1
    BY <1>1, <1>2
  <2> HIDE DEF i
  <2>2. s[i] \in S /\ Rank(S, before, s[i]) = Rank(S, before, x)
    BY <1>8, <2>1
  <2> QED BY <1>2, <2>1, <2>2
<1> QED BY <1>1, <1>8, <1>9, <1>10, <1>11, <1>12 DEF s, n

LEMMA SortedOnto ==
  ASSUME NEW S, IsFiniteSet(S), NEW before, Strict(S, before)
  PROVE  \A x \in S : \E i \in 1..Cardinality(S) : Sorted(S, before)[i] = x
BY SortedIs

(* Only one list of the members is in the order.                           *)
LEMMA SortedOnly ==
  ASSUME NEW n \in Nat, NEW t, t = [k \in 1..n |-> t[k]], NEW S, S = {t[k] : k \in 1..n},
         NEW before, Strict(S, before), \A i, j \in 1..n : i < j => <<t[i], t[j]>> \in before
  PROVE  IsFiniteSet(S) /\ Cardinality(S) = n /\ Sorted(S, before) = t
<1>1. \A k \in 1..n : t[k] \in S
  OBVIOUS
<1>2. \A i, j \in 1..n : t[i] = t[j] => i = j
  <2> SUFFICES ASSUME NEW i \in 1..n, NEW j \in 1..n, t[i] = t[j], i < j PROVE FALSE
    OBVIOUS
  <2>1. <<t[i], t[i]>> \in before
    OBVIOUS
  <2> QED BY <1>1, <2>1 DEF Strict
<1>3. \A m \in 0..n : IsFiniteSet({t[k] : k \in 1..m}) /\ Cardinality({t[k] : k \in 1..m}) = m
  <2> SUFFICES ASSUME NEW m \in 0..n
               PROVE  IsFiniteSet({t[k] : k \in 1..m}) /\ Cardinality({t[k] : k \in 1..m}) = m
    OBVIOUS
  <2> DEFINE T == {t[k] : k \in 1..m}
             f == [k \in 1..m |-> t[k]]
  <2>1. f \in Bijection(1..m, T)
    <3>1. f \in [1..m -> T] /\ \A x \in T : \E k \in 1..m : f[k] = x
      OBVIOUS
    <3>2. \A i, j \in 1..m : f[i] = f[j] => i = j
      BY <1>2
    <3> HIDE DEF f, T
    <3>3. DOMAIN f = 1..m
      BY <3>1
    <3> QED BY <3>1, <3>2, <3>3 DEF Bijection, Injection, Surjection, IsInjective
  <2> HIDE DEF f, T
  <2>2. ExistsBijection(1..m, T)
    BY <2>1 DEF ExistsBijection
  <2> QED BY <2>2, FS_CountingElements, FS_NatBijection DEF T
<1>4. IsFiniteSet(S) /\ Cardinality(S) = n
  <2>1. n \in 0..n
    OBVIOUS
  <2> QED BY <1>3, <2>1
<1>5. \A k \in 1..n : Rank(S, before, t[k]) = k - 1
  <2> SUFFICES ASSUME NEW k \in 1..n PROVE Rank(S, before, t[k]) = k - 1
    OBVIOUS
  <2>1. {y \in S : <<y, t[k]>> \in before} = {t[j] : j \in 1..(k - 1)}
    <3>1. ASSUME NEW y \in S, <<y, t[k]>> \in before PROVE y \in {t[j] : j \in 1..(k - 1)}
      <4>1. PICK j \in 1..n : y = t[j]
        OBVIOUS
      <4>2. j # k
        BY <1>1, <3>1, <4>1 DEF Strict
      <4>3. ~(k < j)
        <5>1. SUFFICES ASSUME k < j PROVE FALSE
          OBVIOUS
        <5>2. <<t[k], t[j]>> \in before /\ <<t[j], t[k]>> \in before
          BY <3>1, <4>1, <5>1
        <5> QED BY <1>1, <5>2 DEF Strict
      <4> QED BY <4>1, <4>2, <4>3
    <3>2. ASSUME NEW j \in 1..(k - 1) PROVE t[j] \in S /\ <<t[j], t[k]>> \in before
      <4>1. j \in 1..n /\ j < k
        OBVIOUS
      <4> QED BY <1>1, <4>1
    <3> QED BY <3>1, <3>2
  <2>2. k - 1 \in 0..n
    OBVIOUS
  <2> QED BY <1>3, <2>1, <2>2 DEF Rank
<1>6. /\ Sorted(S, before) \in [1..n -> S]
      /\ \A k \in 1..n : Rank(S, before, Sorted(S, before)[k]) = k - 1
  BY <1>4, SortedIs
<1>7. \A k \in 1..n : Sorted(S, before)[k] = t[k]
  <2> SUFFICES ASSUME NEW k \in 1..n PROVE Sorted(S, before)[k] = t[k]
    OBVIOUS
  <2>1. Sorted(S, before)[k] \in S /\ t[k] \in S
    BY <1>1, <1>6
  <2>2. Rank(S, before, Sorted(S, before)[k]) = Rank(S, before, t[k])
    BY <1>5, <1>6
  <2> QED BY <1>4, <2>1, <2>2, RankGrows
<1>8. Sorted(S, before) = t
  BY <1>6, <1>7
<1> QED BY <1>4, <1>8

(* A list of n.                                                            *)
List(f, n) == n \in Nat /\ f = [k \in 1..n |-> f[k]]

LEMMA ListIs ==
  ASSUME NEW f, NEW n, List(f, n)
  PROVE  /\ DOMAIN f = 1..n /\ Len(f) = n
         /\ \A S : (\A k \in 1..n : f[k] \in S) => f \in Seq(S)
<1>1. n \in Nat /\ f = [k \in 1..n |-> f[k]] /\ DOMAIN f = 1..n
  BY DEF List
<1>2. ASSUME NEW S, \A k \in 1..n : f[k] \in S PROVE f \in Seq(S) /\ Len(f) = n
  <2>1. f \in [1..n -> S]
    BY <1>1, <1>2
  <2>2. f \in Seq(S)
    BY <1>1, <2>1, SeqDef
  <2> QED BY <1>1, <2>1, <2>2, LenProperties
<1>3. Len(f) = n
  <2>1. \A k \in 1..n : f[k] \in {f[i] : i \in 1..n}
    OBVIOUS
  <2> QED BY <1>2, <2>1
<1> QED BY <1>1, <1>2, <1>3

LEMMA SeqIsList ==
  ASSUME NEW S, NEW f \in Seq(S)
  PROVE  List(f, Len(f)) /\ \A k \in 1..Len(f) : f[k] \in S
<1>1. Len(f) \in Nat /\ f \in [1..Len(f) -> S]
  BY LenProperties
<1> QED BY <1>1 DEF List

(* The last of them.                                                       *)
LEMMA LastOfIs ==
  ASSUME NEW f, NEW n, List(f, n), NEW limit \in Nat
  PROVE  LastOf(f, limit) =
           IF n > limit THEN [k \in 1..limit |-> f[k + (n - limit)]] ELSE f
<1> DEFINE S == {f[k] : k \in 1..n}
           first == (IF n > limit THEN n - limit ELSE 0) + 1
           l == SubSeq(f, first, n)
<1>1. n \in Nat /\ Len(f) = n /\ f = [k \in 1..n |-> f[k]]
  BY ListIs DEF List
<1>2. first \in Int /\ first >= 1 /\ \A i \in first..n : f[i] \in S
  BY <1>1
<1>3. LastOf(f, limit) = l
  BY <1>1 DEF LastOf
<1>4. /\ l \in Seq(S) /\ Len(l) = IF first <= n THEN n - first + 1 ELSE 0
      /\ \A i \in 1..(n - first + 1) : l[i] = f[first + i - 1]
  <2> HIDE DEF first, S, l
  <2>1. SubSeq(f, first, n) \in Seq(S) /\ Len(SubSeq(f, first, n)) = (IF first <= n THEN n - first + 1 ELSE 0)
        /\ \A i \in 1..(n - first + 1) : SubSeq(f, first, n)[i] = f[first + i - 1]
    <3>1. n \in Int /\ first \in Int /\ \A i \in first..n : f[i] \in S
      BY <1>1, <1>2
    <3>2. SubSeq(f, first, n) \in Seq(S)
      BY <3>1, SubSeqProperties
    <3>3. Len(SubSeq(f, first, n)) = IF first <= n THEN n - first + 1 ELSE 0
      BY <3>1, SubSeqProperties
    <3>4. \A i \in 1..(n - first + 1) : SubSeq(f, first, n)[i] = f[first + i - 1]
      BY <3>1, SubSeqProperties
    <3> QED BY <3>2, <3>3, <3>4
  <2> QED BY <2>1 DEF l
<1>5. List(l, Len(l))
  <2> HIDE DEF l, S
  <2> QED BY <1>4, SeqIsList
<1>6. CASE n > limit
  <2>1. Len(l) = limit /\ \A i \in 1..limit : l[i] = f[i + (n - limit)]
    <3>1. first = (n - limit) + 1
      BY <1>6
    <3> HIDE DEF l, first
    <3>2. first <= n <=> limit >= 1
      BY <1>1, <1>6, <3>1
    <3>3. (n - first) + 1 = limit
      BY <1>1, <1>6, <3>1
    <3>4. Len(l) = limit
      BY <1>1, <1>4, <3>2, <3>3
    <3>5. ASSUME NEW i \in 1..limit PROVE l[i] = f[i + (n - limit)]
      <4>1. i \in 1..((n - first) + 1) /\ first + (i - 1) = i + (n - limit)
        BY <1>1, <3>1, <3>3
      <4> QED BY <1>4, <4>1
    <3> QED BY <3>4, <3>5
  <2>2. l = [k \in 1..limit |-> l[k]]
    BY <1>5, <2>1 DEF List
  <2> HIDE DEF l
  <2> QED BY <1>3, <1>6, <2>1, <2>2
<1>7. CASE ~(n > limit)
  <2>1. Len(l) = n /\ \A i \in 1..n : l[i] = f[i]
    <3>1. first = 1
      BY <1>7
    <3> HIDE DEF l, first
    <3>2. Len(l) = n
      BY <1>1, <1>4, <3>1
    <3>3. ASSUME NEW i \in 1..n PROVE l[i] = f[i]
      <4>1. i \in 1..((n - first) + 1) /\ first + (i - 1) = i
        BY <1>1, <3>1
      <4> QED BY <1>4, <4>1
    <3> QED BY <3>2, <3>3
  <2>2. l = [k \in 1..n |-> l[k]]
    BY <1>5, <2>1 DEF List
  <2> HIDE DEF l
  <2>3. l = f
    BY <1>1, <2>1, <2>2
  <2> QED BY <1>3, <1>7, <2>3
<1> QED BY <1>6, <1>7

-----------------------------------------------------------------------------
(* Places of an array, and rows in the order of their ids *)

Ascending(H) == Sorted(H, {p \in H \X H : p[1] < p[2]})

LEMMA AscendingIs ==
  ASSUME NEW H, IsFiniteSet(H), H \subseteq Int
  PROVE  /\ Cardinality(H) \in Nat /\ List(Ascending(H), Cardinality(H))
         /\ \A k \in 1..Cardinality(H) : Ascending(H)[k] \in H
         /\ \A i, j \in 1..Cardinality(H) : i < j => Ascending(H)[i] < Ascending(H)[j]
         /\ \A x \in H : \E i \in 1..Cardinality(H) : Ascending(H)[i] = x
<1> DEFINE before == {p \in H \X H : p[1] < p[2]}
<1>1. \A x, y \in H : <<x, y>> \in before <=> x < y
  OBVIOUS
<1>2. Strict(H, before)
  <2> HIDE DEF before
  <2> QED BY <1>1 DEF Strict
<1>3. Ascending(H) = Sorted(H, before)
  BY DEF Ascending
<1> DEFINE s == Sorted(H, before)
           n == Cardinality(H)
<1> HIDE DEF before
<1>4. /\ n \in Nat /\ s \in [1..n -> H] /\ \A i, j \in 1..n : i < j => <<s[i], s[j]>> \in before
      /\ \A x \in H : \E i \in 1..n : s[i] = x
  <2>1. /\ Cardinality(H) \in Nat /\ Sorted(H, before) \in [1..Cardinality(H) -> H]
        /\ \A i, j \in 1..Cardinality(H) : i < j => <<Sorted(H, before)[i], Sorted(H, before)[j]>> \in before
        /\ \A x \in H : \E i \in 1..Cardinality(H) : Sorted(H, before)[i] = x
    <3> HIDE DEF s, n
    <3>1. Cardinality(H) \in Nat /\ Sorted(H, before) \in [1..Cardinality(H) -> H]
      BY <1>2, SortedIs
    <3>2. \A i, j \in 1..Cardinality(H) : i < j => <<Sorted(H, before)[i], Sorted(H, before)[j]>> \in before
      BY <1>2, SortedIs
    <3>3. \A x \in H : \E i \in 1..Cardinality(H) : Sorted(H, before)[i] = x
      <4>1. IsFiniteSet(H) /\ Strict(H, before)
        BY <1>2
      <4> QED BY <4>1, SortedOnto
    <3> QED BY <3>1, <3>2, <3>3
  <2> QED BY <2>1
<1> HIDE DEF s, n
<1>5. /\ \A k \in 1..n : s[k] \in H
      /\ \A i, j \in 1..n : i < j => s[i] < s[j]
  BY <1>1, <1>4
<1>6. List(s, n)
  BY <1>4 DEF List
<1> QED BY <1>3, <1>4, <1>5, <1>6 DEF s, n

Picked(e, a, n) == [k \in 1..n |-> e[a[k]]]

Rows(q, H) == {q[i] : i \in H}

LEMMA FilteredIs ==
  ASSUME NEW e, NEW H, IsFiniteSet(H), H \subseteq Int
  PROVE  Filtered(e, H) = Picked(e, Ascending(H), Cardinality(H))
<1>1. DOMAIN Ascending(H) = 1..Cardinality(H)
  BY AscendingIs, ListIs
<1> QED BY <1>1 DEF Filtered, Ascending, Picked

(* A list in the order of ids of its own.                                  *)
Increasing(q, n) ==
  /\ \A i \in 1..n : q[i].id \in Int
  /\ \A i, j \in 1..n : i < j => q[i].id < q[j].id

LEMMA ByIdIs ==
  ASSUME NEW q, NEW n, List(q, n), Increasing(q, n)
  PROVE  /\ IsFiniteSet({q[i] : i \in 1..n}) /\ Cardinality({q[i] : i \in 1..n}) = n
         /\ ById({q[i] : i \in 1..n}) = q
<1> DEFINE S == {q[i] : i \in 1..n}
           before == {p \in S \X S : p[1].id < p[2].id}
<1>1. \A x, y \in S : <<x, y>> \in before <=> x.id < y.id
  OBVIOUS
<1>2. \A i \in 1..n : q[i] \in S
  OBVIOUS
<1>3. Strict(S, before)
  <2>1. \A x \in S : x.id \in Int
    BY DEF Increasing
  <2>2. \A x, y \in S : x # y => x.id < y.id \/ y.id < x.id
    BY DEF Increasing, List
  <2> HIDE DEF before, S
  <2> QED BY <1>1, <2>1, <2>2 DEF Strict
<1>4. \A i, j \in 1..n : i < j => <<q[i], q[j]>> \in before
  BY <1>1, <1>2 DEF Increasing
<1>5. ById(S) = Sorted(S, before)
  BY DEF ById
<1>6. S = {q[i] : i \in 1..n} /\ n \in Nat /\ q = [i \in 1..n |-> q[i]]
  BY DEF List
<1> HIDE DEF before, S
<1>7. IsFiniteSet(S) /\ Cardinality(S) = n /\ Sorted(S, before) = q
  BY <1>3, <1>4, <1>6, SortedOnly
<1> QED BY <1>5, <1>6, <1>7

(* Some of its rows are in the order of their places.                      *)
LEMMA SomeById ==
  ASSUME NEW q, NEW n, List(q, n), Increasing(q, n), NEW H, H \subseteq 1..n
  PROVE  /\ IsFiniteSet(H)
         /\ ById(Rows(q, H)) = Picked(q, Ascending(H), Cardinality(H))
<1>1. n \in Nat /\ IsFiniteSet(1..n)
  BY FS_Interval DEF List
<1>2. IsFiniteSet(H) /\ H \subseteq Int
  <2>1. H \in SUBSET (1..n) /\ H \subseteq Int
    BY <1>1
  <2> QED BY <1>1, <2>1, FS_Subset, Zenon
<1> DEFINE m == Cardinality(H)
           a == Ascending(H)
           t == [k \in 1..m |-> q[a[k]]]
<1>3. /\ m \in Nat /\ \A k \in 1..m : a[k] \in H
      /\ \A i, j \in 1..m : i < j => a[i] < a[j]
      /\ \A x \in H : \E i \in 1..m : a[i] = x
  BY <1>2, AscendingIs
<1> HIDE DEF m, a
<1>4. List(t, m)
  BY <1>3 DEF List
<1>5. Increasing(t, m)
  BY <1>3 DEF Increasing
<1>6. {t[k] : k \in 1..m} = {q[i] : i \in H}
  <2>1. ASSUME NEW k \in 1..m PROVE t[k] \in {q[i] : i \in H}
    BY <1>3
  <2>2. ASSUME NEW i \in H PROVE q[i] \in {t[k] : k \in 1..m}
    BY <1>3
  <2> QED BY <2>1, <2>2
<1> HIDE DEF t
<1>7. ById({t[k] : k \in 1..m}) = t
  BY <1>4, <1>5, ByIdIs
<1> QED BY <1>2, <1>6, <1>7 DEF t, m, a, Picked, Rows

-----------------------------------------------------------------------------
(* An array and the rows beside it, numbered apart but in the same order *)

Parallel(e, q, rows, n, m, p) ==
  /\ List(e, n) /\ List(q, n) /\ rows = {q[i] : i \in 1..n}
  /\ Increasing(e, n) /\ Increasing(q, n)
  /\ m \in Int /\ p \in Int
  /\ \A i \in 1..n : e[i].id <= m /\ q[i].id <= p

LEMMA ParallelGrows ==
  ASSUME NEW e, NEW q, NEW rows, NEW n, NEW m, NEW p, Parallel(e, q, rows, n, m, p),
         NEW k, NEW d, NEW f, List(d, k), List(f, k),
         \A i \in 1..k : d[i].id = m + i /\ f[i].id = p + i
  PROVE  /\ Parallel(e \o d, q \o f, rows \cup {f[i] : i \in 1..k}, n + k, m + k, p + k)
         /\ \A i \in 1..(n + k) : /\ (e \o d)[i] = IF i <= n THEN e[i] ELSE d[i - n]
                                  /\ (q \o f)[i] = IF i <= n THEN q[i] ELSE f[i - n]
<1>1. n \in Nat /\ k \in Nat /\ m \in Int /\ p \in Int
  BY DEF Parallel, List
<1>2. ASSUME NEW x, NEW y, List(x, n), List(y, k)
      PROVE  List(x \o y, n + k) /\ \A i \in 1..(n + k) : (x \o y)[i] = IF i <= n THEN x[i] ELSE y[i - n]
  <2> DEFINE S == {x[i] : i \in 1..n} \cup {y[i] : i \in 1..k}
             z == x \o y
  <2>1. x \in Seq(S) /\ y \in Seq(S) /\ Len(x) = n /\ Len(y) = k
    <3>1. (\A i \in 1..n : x[i] \in S) /\ (\A i \in 1..k : y[i] \in S)
      OBVIOUS
    <3> HIDE DEF S
    <3> QED BY <1>2, <3>1, ListIs
  <2> HIDE DEF S
  <2>2. /\ x \o y \in Seq(S) /\ Len(x \o y) = n + k
        /\ \A i \in 1..(n + k) : (x \o y)[i] = IF i <= n THEN x[i] ELSE y[i - n]
    BY <2>1, ConcatProperties
  <2>3. List(z, Len(z))
    <3>1. z \in Seq(S)
      BY <2>2
    <3> HIDE DEF z
    <3> QED BY <3>1, SeqIsList
  <2> QED BY <2>2, <2>3
<1> DEFINE e2 == e \o d
           q2 == q \o f
<1>3. List(e2, n + k) /\ \A i \in 1..(n + k) : e2[i] = IF i <= n THEN e[i] ELSE d[i - n]
  BY <1>2 DEF Parallel
<1>4. List(q2, n + k) /\ \A i \in 1..(n + k) : q2[i] = IF i <= n THEN q[i] ELSE f[i - n]
  BY <1>2 DEF Parallel
<1> HIDE DEF e2, q2
<1>5. Increasing(e2, n + k) /\ \A i \in 1..(n + k) : e2[i].id <= m + k
  BY <1>1, <1>3 DEF Parallel, Increasing
<1>6. Increasing(q2, n + k) /\ \A i \in 1..(n + k) : q2[i].id <= p + k
  BY <1>1, <1>4 DEF Parallel, Increasing
<1>7. rows \cup {f[i] : i \in 1..k} = {q2[i] : i \in 1..(n + k)}
  <2>1. ASSUME NEW i \in 1..n PROVE q[i] \in {q2[j] : j \in 1..(n + k)}
    <3>1. i \in 1..(n + k) /\ q2[i] = q[i]
      BY <1>1, <1>4
    <3> QED BY <3>1
  <2>2. ASSUME NEW i \in 1..k PROVE f[i] \in {q2[j] : j \in 1..(n + k)}
    <3>1. n + i \in 1..(n + k) /\ q2[n + i] = f[i]
      BY <1>1, <1>4
    <3> QED BY <3>1
  <2>3. ASSUME NEW j \in 1..(n + k) PROVE q2[j] \in rows \cup {f[i] : i \in 1..k}
    <3>1. CASE j <= n
      BY <1>1, <1>4, <3>1 DEF Parallel
    <3>2. CASE ~(j <= n)
      <4>1. j - n \in 1..k /\ q2[j] = f[j - n]
        BY <1>1, <1>4, <3>2
      <4> QED BY <4>1
    <3> QED BY <3>1, <3>2
  <2>4. rows = {q[i] : i \in 1..n}
    BY DEF Parallel
  <2> QED BY <2>1, <2>2, <2>3, <2>4
<1>8. m + k \in Int /\ p + k \in Int
  BY <1>1
<1>9. Parallel(e2, q2, rows \cup {f[i] : i \in 1..k}, n + k, m + k, p + k)
  BY <1>3, <1>4, <1>5, <1>6, <1>7, <1>8 DEF Parallel
<1> QED BY <1>3, <1>4, <1>9 DEF e2, q2

LEMMA PartOf ==
  ASSUME NEW f, NEW n, List(f, n), NEW m \in 0..n
  PROVE  SubSeq(f, 1, m) = [k \in 1..m |-> f[k]]
<1> DEFINE S == {f[k] : k \in 1..n}
           l == SubSeq(f, 1, m)
<1>1. n \in Nat /\ m \in Int /\ 1 \in Int /\ \A i \in 1..m : f[i] \in S
  BY DEF List
<1> HIDE DEF S
<1>2. SubSeq(f, 1, m) \in Seq(S)
  BY <1>1, SubSeqProperties
<1>3. Len(SubSeq(f, 1, m)) = IF 1 <= m THEN m - 1 + 1 ELSE 0
  BY <1>1, SubSeqProperties
<1>4. \A i \in 1..(m - 1 + 1) : SubSeq(f, 1, m)[i] = f[1 + i - 1]
  BY <1>1, SubSeqProperties
<1>5. List(l, Len(l))
  BY <1>2, SeqIsList
<1> HIDE DEF l
<1>6. Len(l) = m
  BY <1>1, <1>3 DEF l
<1>7. \A i \in 1..m : l[i] = f[i]
  <2> SUFFICES ASSUME NEW i \in 1..m PROVE l[i] = f[i]
    OBVIOUS
  <2>1. i \in 1..(m - 1 + 1) /\ 1 + i - 1 = i
    BY <1>1
  <2> QED BY <1>4, <2>1 DEF l
<1>8. l = [k \in 1..m |-> f[k]]
  BY <1>5, <1>6, <1>7 DEF List
<1> QED BY <1>8 DEF l

LEMMA TailOf ==
  ASSUME NEW f, NEW n, List(f, n), n > 0
  PROVE  Tail(f) = [k \in 1..(n - 1) |-> f[k + 1]]
<1> DEFINE S == {f[k] : k \in 1..n}
           l == Tail(f)
<1>1. n \in Nat /\ Len(f) = n /\ f \in Seq(S)
  <2>1. \A k \in 1..n : f[k] \in S
    OBVIOUS
  <2> HIDE DEF S
  <2> QED BY <2>1, ListIs DEF List
<1> HIDE DEF S
<1>2. f # <<>>
  BY <1>1
<1>3. Tail(f) \in Seq(S) /\ Len(Tail(f)) = n - 1 /\ \A i \in 1..Len(Tail(f)) : Tail(f)[i] = f[i + 1]
  BY <1>1, <1>2, HeadTailProperties
<1>4. List(l, Len(l))
  BY <1>3, SeqIsList
<1> HIDE DEF l
<1>5. l = [k \in 1..(n - 1) |-> f[k + 1]]
  BY <1>3, <1>4 DEF List, l
<1> QED BY <1>5 DEF l

LEMMA SuffixIs ==
  ASSUME NEW s, NEW a, List(s, a), NEW t, NEW b, List(t, b), a <= b,
         \A k \in 1..a : s[k] = t[k + (b - a)]
  PROVE  IsSuffix(s, t)
<1>1. a \in Nat /\ b \in Nat /\ Len(s) = a /\ Len(t) = b
  BY ListIs DEF List
<1> DEFINE u == Reverse(s)
           v == Reverse(t)
<1>2. u = [k \in 1..a |-> s[(a - k) + 1]] /\ v = [k \in 1..b |-> t[(b - k) + 1]]
  BY <1>1 DEF Reverse
<1>3. List(u, a) /\ List(v, b)
  BY <1>1, <1>2 DEF List
<1> HIDE DEF u, v
<1>4. Len(u) = a /\ Len(v) = b
  BY <1>3, ListIs
<1>5. SubSeq(u, 1, a) = [k \in 1..a |-> u[k]]
  <2>1. a \in 0..a
    BY <1>1
  <2> QED BY <1>3, <2>1, PartOf
<1>6. SubSeq(v, 1, a) = [k \in 1..a |-> v[k]]
  <2>1. a \in 0..b
    BY <1>1
  <2> QED BY <1>3, <2>1, PartOf
<1>7. \A k \in 1..a : u[k] = v[k]
  <2> SUFFICES ASSUME NEW k \in 1..a PROVE u[k] = v[k]
    OBVIOUS
  <2> DEFINE i == (a - k) + 1
  <2>1. i \in 1..a /\ i + (b - a) = (b - k) + 1 /\ k \in 1..b
    BY <1>1
  <2> QED BY <1>2, <2>1
<1>8. SubSeq(u, 1, a) = SubSeq(v, 1, a)
  BY <1>5, <1>6, <1>7
<1>9. Len(u) <= Len(v) /\ SubSeq(u, 1, Len(u)) = SubSeq(v, 1, Len(u))
  BY <1>4, <1>8
<1> QED BY <1>9 DEF IsSuffix, IsPrefix, u, v

-----------------------------------------------------------------------------
(* The same places, filtered out of the one and selected from the other,   *)
(* and cut to the last of them.                                            *)

Number(H, limit) == IF Cardinality(H) > limit THEN limit ELSE Cardinality(H)

LastPlaces(H, limit) ==
  [k \in 1..Number(H, limit) |-> Ascending(H)[k + (Cardinality(H) - Number(H, limit))]]

LEMMA LastPlacesIs ==
  ASSUME NEW H, IsFiniteSet(H), H \subseteq Int, NEW limit \in Nat
  PROVE  /\ Cardinality(H) \in Nat /\ Number(H, limit) \in Nat
         /\ \A k \in 1..Number(H, limit) : LastPlaces(H, limit)[k] \in H
         /\ \A k \in 1..Number(H, limit) :
              LastPlaces(H, limit)[k] = Ascending(H)[k + (Cardinality(H) - Number(H, limit))]
<1> DEFINE m == Cardinality(H)
           r == Number(H, limit)
<1>1. m \in Nat /\ \A k \in 1..m : Ascending(H)[k] \in H
  BY AscendingIs
<1> HIDE DEF m
<1>2. r \in 0..m
  BY <1>1 DEF Number, m
<1> HIDE DEF r
<1>3. \A k \in 1..r : k + (m - r) \in 1..m
  BY <1>1, <1>2
<1>4. LastPlaces(H, limit) = [k \in 1..r |-> Ascending(H)[k + (m - r)]]
  BY DEF LastPlaces, m, r
<1> QED BY <1>1, <1>2, <1>3, <1>4 DEF m, r

LEMMA LastFiltered ==
  ASSUME NEW e, NEW H, IsFiniteSet(H), H \subseteq Int, NEW limit \in Nat
  PROVE  LastOf(Filtered(e, H), limit) = Picked(e, LastPlaces(H, limit), Number(H, limit))
<1> DEFINE m == Cardinality(H)
           a == Ascending(H)
           f == [k \in 1..m |-> e[a[k]]]
           r == Number(H, limit)
<1>1. m \in Nat /\ f = Filtered(e, H)
  <2>1. Cardinality(H) \in Nat
    BY AscendingIs
  <2>2. Filtered(e, H) = Picked(e, Ascending(H), Cardinality(H))
    BY FilteredIs
  <2> QED BY <2>1, <2>2 DEF Picked
<1>2. List(f, m)
  BY <1>1 DEF List
<1>3. LastOf(f, limit) = IF m > limit THEN [k \in 1..limit |-> f[k + (m - limit)]] ELSE f
  <2> HIDE DEF f, m
  <2> QED BY <1>2, LastOfIs
<1>4. r = IF m > limit THEN limit ELSE m
  BY DEF Number
<1>5. LastPlaces(H, limit) = [k \in 1..r |-> a[k + (m - r)]]
  BY DEF LastPlaces
<1> HIDE DEF m, a, r
<1>6. CASE m > limit
  <2>1. r = limit /\ \A k \in 1..limit : k + (m - limit) \in 1..m
    BY <1>1, <1>4, <1>6
  <2>2. LastOf(f, limit) = [k \in 1..limit |-> e[a[k + (m - limit)]]]
    BY <1>3, <1>6, <2>1
  <2> QED BY <1>1, <1>5, <2>1, <2>2 DEF r, Picked
<1>7. CASE ~(m > limit)
  <2>1. r = m /\ \A k \in 1..m : k + (m - m) = k
    BY <1>1, <1>4, <1>7
  <2>2. LastOf(f, limit) = [k \in 1..m |-> e[a[k]]]
    BY <1>3, <1>7
  <2> QED BY <1>1, <1>5, <2>1, <2>2 DEF r, Picked
<1> QED BY <1>6, <1>7

LEMMA PlacesFinite ==
  ASSUME NEW n \in Nat, NEW H, H \subseteq 1..n
  PROVE  IsFiniteSet(H) /\ H \subseteq Int
<1>1. IsFiniteSet(1..n)
  BY FS_Interval
<1>2. H \in SUBSET (1..n)
  OBVIOUS
<1>3. IsFiniteSet(H)
  BY <1>1, <1>2, FS_Subset, Zenon
<1> QED BY <1>3

LEMMA LastSelected ==
  ASSUME NEW q, NEW n, List(q, n), Increasing(q, n), NEW H, H \subseteq 1..n, NEW limit \in Nat
  PROVE  LastRows(Rows(q, H), limit) = Picked(q, LastPlaces(H, limit), Number(H, limit))
<1>1. IsFiniteSet(H) /\ H \subseteq Int
  BY PlacesFinite DEF List
<1>2. ById(Rows(q, H)) = Picked(q, Ascending(H), Cardinality(H))
  BY SomeById
<1>3. Filtered(q, H) = Picked(q, Ascending(H), Cardinality(H))
  BY <1>1, FilteredIs
<1>4. LastRows(Rows(q, H), limit) = LastOf(Filtered(q, H), limit)
  BY <1>2, <1>3 DEF LastRows
<1>5. LastOf(Filtered(q, H), limit) = Picked(q, LastPlaces(H, limit), Number(H, limit))
  BY <1>1, LastFiltered
<1> QED BY <1>4, <1>5

-----------------------------------------------------------------------------
(* The journal *)
(* Memory's lines, in the order they came, are the rows in the order of    *)
(* their ids, though the serials of Postgres have gaps.                    *)

JournalSame ==
  LET e == memory.journal
      q == ById(postgres.journal)
  IN  /\ Parallel(e, q, postgres.journal, Len(e), memory.serial, postgres.serial)
      /\ \A i \in 1..Len(e) : e[i].who = q[i].who /\ e[i].tick = q[i].tick

LEMMA JournalReads ==
  ASSUME JournalSame, NEW who
  PROVE  JournalsAgree(who)
<1> DEFINE e == memory.journal
           q == ById(postgres.journal)
           n == Len(e)
           R == postgres.journal
<1>1. /\ List(e, n) /\ List(q, n) /\ Increasing(e, n) /\ Increasing(q, n) /\ R = {q[i] : i \in 1..n}
      /\ \A i \in 1..n : e[i].who = q[i].who /\ e[i].tick = q[i].tick
  BY DEF JournalSame, Parallel
<1>2. DOMAIN e = 1..n /\ DOMAIN q = 1..n /\ n \in Nat /\ Limit \in Nat /\ Limit + 1 \in Nat
  <2>1. Limit \in Nat
    BY StorageAssumption DEF StorageAssumption
  <2> QED BY <1>1, <2>1, ListIs DEF List
<1>3. ASSUME NEW since PROVE Ticks(MemorySince(who, since)) = Ticks(PostgresSince(who, since))
  <2> DEFINE H == {i \in 1..n : e[i].who = who /\ e[i].tick > since}
             a == LastPlaces(H, Limit)
             r == Number(H, Limit)
  <2>1. MemorySince(who, since) = LastOf(Filtered(e, H), Limit)
    BY <1>2 DEF MemorySince
  <2>2. PostgresSince(who, since) = LastRows({q[i] : i \in H}, Limit)
    <3>1. {x \in R : x.who = who /\ x.tick > since} = {q[i] : i \in H}
      <4> HIDE DEF e, q, n, R
      <4> QED BY <1>1
    <3> QED BY <3>1 DEF PostgresSince
  <2> HIDE DEF e, q, n, R
  <2>3. H \subseteq 1..n /\ \A i \in H : e[i].tick = q[i].tick
    BY <1>1
  <2> HIDE DEF H
  <2>4. /\ LastOf(Filtered(e, H), Limit) = [k \in 1..r |-> e[a[k]]]
        /\ LastRows({q[i] : i \in H}, Limit) = [k \in 1..r |-> q[a[k]]]
        /\ \A k \in 1..r : a[k] \in H
    <3>1. IsFiniteSet(H) /\ H \subseteq Int
      BY <1>2, <2>3, PlacesFinite
    <3>2. LastOf(Filtered(e, H), Limit) = Picked(e, LastPlaces(H, Limit), Number(H, Limit))
      BY <1>2, <3>1, LastFiltered
    <3>3. LastRows(Rows(q, H), Limit) = Picked(q, LastPlaces(H, Limit), Number(H, Limit))
      BY <1>1, <1>2, <2>3, LastSelected
    <3>4. \A k \in 1..Number(H, Limit) : LastPlaces(H, Limit)[k] \in H
      BY <1>2, <3>1, LastPlacesIs
    <3> QED BY <3>2, <3>3, <3>4 DEF Picked, Rows
  <2> HIDE DEF a, r
  <2>5. Ticks(LastOf(Filtered(e, H), Limit)) = [k \in 1..r |-> e[a[k]].tick]
    BY <2>4 DEF Ticks
  <2>6. Ticks(LastRows({q[i] : i \in H}, Limit)) = [k \in 1..r |-> q[a[k]].tick]
    BY <2>4 DEF Ticks
  <2>7. \A k \in 1..r : e[a[k]].tick = q[a[k]].tick
    BY <2>3, <2>4
  <2>8. Ticks(LastOf(Filtered(e, H), Limit)) = Ticks(LastRows({q[i] : i \in H}, Limit))
    BY <2>5, <2>6, <2>7
  <2> QED BY <2>1, <2>2, <2>8
<1>4. ASSUME NEW i \in DOMAIN InOrder
      PROVE  LET m == Page(MemoryBefore(who, e[i].id))
                 p == Page(PostgresBefore(who, InOrder[i].id))
                 earlier == Filtered(InOrder, {j \in 1..(i - 1) : InOrder[j].who = who})
             IN  /\ m = p
                 /\ m.hasMore <=> Len(m.entries) < Len(earlier)
                 /\ IsSuffix(m.entries, Ticks(earlier))
  <2> DEFINE H == {j \in 1..(i - 1) : q[j].who = who}
             b == Limit + 1
             a == LastPlaces(H, b)
             r == Number(H, b)
             c == Cardinality(H)
             f == [k \in 1..r |-> e[a[k]]]
             g == [k \in 1..r |-> q[a[k]]]
             earlier == Filtered(q, H)
  <2>1. i \in 1..n /\ InOrder = q
    BY <1>2, <1>4 DEF InOrder
  <2>2. H = {j \in 1..n : e[j].who = who /\ e[j].id < e[i].id}
    <3> HIDE DEF e, q, n, R
    <3> QED BY <1>1, <1>2, <2>1 DEF Increasing
  <2>3. MemoryBefore(who, e[i].id) = LastOf(Filtered(e, H), b)
    BY <1>2, <2>2 DEF MemoryBefore
  <2>4. PostgresBefore(who, q[i].id) = LastRows({q[j] : j \in H}, b)
    <3>1. {x \in R : x.who = who /\ x.id < q[i].id} = {q[j] : j \in H}
      <4> HIDE DEF e, q, n, R
      <4> QED BY <1>1, <1>2, <2>1 DEF Increasing
    <3> QED BY <3>1 DEF PostgresBefore
  <2> HIDE DEF e, q, n, R
  <2>5. H \subseteq 1..n /\ \A j \in H : e[j].tick = q[j].tick
    BY <1>1, <2>1, <1>2
  <2> HIDE DEF H
  <2>6. /\ LastOf(Filtered(e, H), b) = f
        /\ LastRows({q[j] : j \in H}, b) = g
        /\ \A k \in 1..r : a[k] \in H
        /\ \A k \in 1..r : a[k] = Ascending(H)[k + (c - r)]
        /\ c \in Nat /\ r \in Nat /\ earlier = [k \in 1..c |-> q[Ascending(H)[k]]]
    <3> HIDE DEF b
    <3>0. b \in Nat
      BY <1>2 DEF b
    <3>1. IsFiniteSet(H) /\ H \subseteq Int
      BY <1>2, <2>5, PlacesFinite
    <3>2. LastOf(Filtered(e, H), b) = Picked(e, LastPlaces(H, b), Number(H, b))
      BY <3>0, <3>1, LastFiltered
    <3>3. LastRows(Rows(q, H), b) = Picked(q, LastPlaces(H, b), Number(H, b))
      BY <1>1, <3>0, <2>5, LastSelected
    <3>4. \A k \in 1..Number(H, b) : LastPlaces(H, b)[k] \in H
      BY <3>0, <3>1, LastPlacesIs
    <3>5. \A k \in 1..Number(H, b) :
            LastPlaces(H, b)[k] = Ascending(H)[k + (Cardinality(H) - Number(H, b))]
      BY <3>0, <3>1, LastPlacesIs
    <3>6. Cardinality(H) \in Nat /\ Number(H, b) \in Nat
      BY <3>0, <3>1, LastPlacesIs
    <3>7. Filtered(q, H) = Picked(q, Ascending(H), Cardinality(H))
      BY <3>1, FilteredIs
    <3> QED BY <3>2, <3>3, <3>4, <3>5, <3>6, <3>7 DEF Picked, Rows
  <2>7. r = IF c > b THEN b ELSE c
    BY DEF Number
  <2> HIDE DEF a, r, c
  <2> DEFINE shown == IF r > Limit THEN Tail(f) ELSE f
             drawn == IF r > Limit THEN Tail(g) ELSE g
             s == IF r > Limit THEN Limit ELSE r
             d == r - s
  <2>8. List(f, r) /\ List(g, r)
    BY <2>6 DEF List
  <2>9. shown = [k \in 1..s |-> f[k + d]] /\ drawn = [k \in 1..s |-> g[k + d]]
    <3>1. CASE r > Limit
      <4>1. r = Limit + 1 /\ d = 1 /\ s = r - 1 /\ r > 0
        <5>1. c \in Nat /\ r \in Nat /\ Limit \in Nat
          BY <1>2, <2>6
        <5>2. s = Limit
          BY <3>1
        <5> HIDE DEF f, g, s
        <5>3. r = Limit + 1
          BY <2>7, <3>1, <5>1
        <5> QED BY <5>1, <5>2, <5>3
      <4> HIDE DEF f, g
      <4>2. Tail(f) = [k \in 1..(r - 1) |-> f[k + 1]] /\ Tail(g) = [k \in 1..(r - 1) |-> g[k + 1]]
        BY <2>8, <4>1, TailOf
      <4> QED BY <3>1, <4>1, <4>2
    <3>2. CASE ~(r > Limit)
      <4>1. d = 0 /\ s = r /\ \A k \in 1..r : k + d = k
        BY <2>6, <3>2
      <4> QED BY <3>2, <4>1
    <3> QED BY <3>1, <3>2
  <2>10. s \in Nat /\ d \in Nat /\ s <= c /\ r <= c /\ d + s = r /\ (r > Limit <=> s < c)
         /\ \A k \in 1..s : k + d \in 1..r /\ (k + d) + (c - r) = k + (c - s) /\ k + (c - s) \in 1..c
    BY <1>2, <2>6, <2>7
  <2>11. \A k \in 1..s : /\ f[k + d] = e[a[k + d]] /\ g[k + d] = q[a[k + d]]
                         /\ a[k + d] \in H /\ a[k + d] = Ascending(H)[k + (c - s)]
    BY <2>6, <2>10
  <2> HIDE DEF s, d, f, g
  <2>12. Ticks(shown) = [k \in 1..s |-> f[k + d].tick] /\ Ticks(drawn) = [k \in 1..s |-> g[k + d].tick]
    <3> HIDE DEF shown, drawn
    <3> QED BY <2>9 DEF Ticks
  <2>13. Ticks(shown) = Ticks(drawn)
    <3>1. \A k \in 1..s : f[k + d].tick = g[k + d].tick
      BY <2>5, <2>11
    <3> HIDE DEF shown, drawn
    <3> QED BY <2>12, <3>1
  <2>14. Len(f) = r /\ Len(g) = r
    BY <2>8, ListIs
  <2>15. /\ Page(f) = [entries |-> Ticks(shown), hasMore |-> r > Limit]
         /\ Page(g) = [entries |-> Ticks(drawn), hasMore |-> r > Limit]
    BY <2>14 DEF Page
  <2> DEFINE t == Ticks(shown)
             u == Ticks(earlier)
  <2>16. List(t, s) /\ Len(t) = s
    <3>1. List(t, s)
      BY <2>10, <2>12 DEF List
    <3> HIDE DEF t
    <3> QED BY <3>1, ListIs
  <2>17. /\ u = [k \in 1..c |-> q[Ascending(H)[k]].tick]
         /\ List(u, c) /\ Len(earlier) = c
    <3>1. List(earlier, c)
      BY <2>6 DEF List
    <3>2. u = [k \in 1..c |-> q[Ascending(H)[k]].tick]
      <4> HIDE DEF earlier
      <4> QED BY <2>6 DEF Ticks
    <3> HIDE DEF u, earlier
    <3> QED BY <2>6, <3>1, <3>2, ListIs DEF List
  <2>18. \A k \in 1..s : t[k] = u[k + (c - s)]
    <3> HIDE DEF t, u
    <3> SUFFICES ASSUME NEW k \in 1..s PROVE t[k] = u[k + (c - s)]
      OBVIOUS
    <3>1. t[k] = f[k + d].tick
      BY <2>12 DEF t
    <3>2. k + (c - s) \in 1..c /\ u[k + (c - s)] = q[Ascending(H)[k + (c - s)]].tick
      BY <2>10, <2>17
    <3>3. f[k + d].tick = q[Ascending(H)[k + (c - s)]].tick
      BY <2>5, <2>11
    <3> QED BY <3>1, <3>2, <3>3
  <2>19. IsSuffix(t, u)
    <3> HIDE DEF t, u, earlier
    <3>1. s <= c /\ List(t, s) /\ List(u, c)
      BY <2>10, <2>16, <2>17
    <3> QED BY <2>18, <3>1, SuffixIs
  <2> HIDE DEF t, u, shown, drawn, earlier
  <2>20. /\ Page(f) = Page(g)
         /\ Page(f).hasMore <=> Len(Page(f).entries) < Len(earlier)
         /\ Page(f).entries = t /\ u = Ticks(earlier)
    <3>1. t = Ticks(shown) /\ t = Ticks(drawn) /\ u = Ticks(earlier)
      BY <2>13 DEF t, u
    <3>2. /\ Page(f) = [entries |-> t, hasMore |-> r > Limit]
          /\ Page(g) = [entries |-> t, hasMore |-> r > Limit]
      BY <2>15, <3>1
    <3> DEFINE more == r > Limit
    <3>3. /\ Page(f) = [entries |-> t, hasMore |-> more]
          /\ Page(g) = [entries |-> t, hasMore |-> more]
      BY <3>2
    <3>4. more <=> Len(t) < Len(earlier)
      BY <2>10, <2>16, <2>17
    <3> HIDE DEF more
    <3>5. Page(f).entries = t /\ Page(f).hasMore = more /\ Page(f) = Page(g)
      BY <3>3
    <3>6. Page(f).hasMore <=> Len(t) < Len(earlier)
      BY <3>4, <3>5, Zenon
    <3> QED BY <3>1, <3>5, <3>6, Zenon
  <2>21. /\ MemoryBefore(who, e[i].id) = f /\ PostgresBefore(who, q[i].id) = g
         /\ Filtered(InOrder, {j \in 1..(i - 1) : InOrder[j].who = who}) = earlier
    BY <2>1, <2>3, <2>4, <2>6 DEF earlier, H
  <2> QED BY <2>1, <2>19, <2>20, <2>21
<1> QED BY <1>3, <1>4 DEF JournalsAgree

-----------------------------------------------------------------------------
(* The tavern *)

TavernSame ==
  LET e == memory.tavern
      q == ById(postgres.tavern)
  IN  /\ Parallel(e, q, postgres.tavern, Len(e), memory.serial, postgres.serial)
      /\ \A i \in 1..Len(e) : e[i].author = q[i].author /\ e[i].id > 0 /\ q[i].id > 0
      /\ memory.serial >= 0 /\ postgres.serial >= 0

Authors(messages) == [i \in DOMAIN messages |-> messages[i].author]

LEMMA TavernFrom ==
  ASSUME TavernSame, NEW x, NEW y,
         \A j \in 1..Len(memory.tavern) : memory.tavern[j].id > x <=> ById(postgres.tavern)[j].id > y
  PROVE  Authors(MemoryTavern(x)) = Authors(PostgresTavern(y))
<1> DEFINE e == memory.tavern
           q == ById(postgres.tavern)
           n == Len(e)
           R == postgres.tavern
           H == {i \in 1..n : e[i].id > x}
           a == LastPlaces(H, Limit)
           r == Number(H, Limit)
<1>1. /\ List(e, n) /\ List(q, n) /\ Increasing(e, n) /\ Increasing(q, n) /\ R = {q[i] : i \in 1..n}
      /\ \A i \in 1..n : e[i].author = q[i].author
  BY DEF TavernSame, Parallel
<1>2. DOMAIN e = 1..n /\ n \in Nat /\ Limit \in Nat
  <2>1. Limit \in Nat
    BY StorageAssumption DEF StorageAssumption
  <2> QED BY <1>1, <2>1, ListIs DEF List
<1>3. MemoryTavern(x) = LastOf(Filtered(e, H), Limit)
  BY <1>2 DEF MemoryTavern
<1>4. PostgresTavern(y) = LastRows(Rows(q, H), Limit)
  <2>0. \A j \in 1..n : e[j].id > x <=> q[j].id > y
    OBVIOUS
  <2>1. {m \in R : m.id > y} = Rows(q, H)
    <3> HIDE DEF e, q, n, R
    <3> QED BY <1>1, <2>0 DEF Rows
  <2> QED BY <2>1 DEF PostgresTavern
<1> HIDE DEF e, q, n, R
<1>5. H \subseteq 1..n
  OBVIOUS
<1> HIDE DEF H
<1>6. IsFiniteSet(H) /\ H \subseteq Int
  BY <1>2, <1>5, PlacesFinite
<1>7. LastOf(Filtered(e, H), Limit) = Picked(e, LastPlaces(H, Limit), Number(H, Limit))
  BY <1>2, <1>6, LastFiltered
<1>8. LastRows(Rows(q, H), Limit) = Picked(q, LastPlaces(H, Limit), Number(H, Limit))
  BY <1>1, <1>2, <1>5, LastSelected
<1>9. \A k \in 1..Number(H, Limit) : LastPlaces(H, Limit)[k] \in H
  BY <1>2, <1>6, LastPlacesIs
<1> HIDE DEF a, r
<1>10. Authors(Picked(e, a, r)) = [k \in 1..r |-> e[a[k]].author]
  BY DEF Authors, Picked
<1>11. Authors(Picked(q, a, r)) = [k \in 1..r |-> q[a[k]].author]
  BY DEF Authors, Picked
<1>12. \A k \in 1..r : e[a[k]].author = q[a[k]].author
  BY <1>1, <1>5, <1>9 DEF a, r
<1>13. Authors(Picked(e, a, r)) = Authors(Picked(q, a, r))
  BY <1>10, <1>11, <1>12
<1> QED BY <1>3, <1>4, <1>7, <1>8, <1>13 DEF a, r

LEMMA TavernReads ==
  ASSUME TavernSame
  PROVE  TavernsAgree
<1> DEFINE e == memory.tavern
           q == ById(postgres.tavern)
           n == Len(e)
<1>1. /\ List(e, n) /\ List(q, n) /\ Increasing(e, n) /\ Increasing(q, n)
      /\ \A i \in 1..n : e[i].id > 0 /\ q[i].id > 0
  BY DEF TavernSame, Parallel
<1>2. DOMAIN q = 1..n /\ n \in Nat
  BY <1>1, ListIs DEF List
<1>3. Authors(MemoryTavern(0)) = Authors(PostgresTavern(0))
  <2>1. \A j \in 1..n : e[j].id > 0 <=> q[j].id > 0
    BY <1>1
  <2> QED BY <2>1, TavernFrom
<1>4. ASSUME NEW i \in DOMAIN q
      PROVE  Authors(MemoryTavern(e[i].id)) = Authors(PostgresTavern(q[i].id))
  <2>1. \A j \in 1..n : e[j].id > e[i].id <=> q[j].id > q[i].id
    <3> HIDE DEF e, q, n
    <3> QED BY <1>1, <1>2, <1>4 DEF Increasing
  <2> QED BY <2>1, TavernFrom
<1> QED BY <1>3, <1>4 DEF TavernsAgree, Authors

-----------------------------------------------------------------------------
(* Memory keeps the rows of Postgres *)
(* What is the same in both, table by table: that is more than what is     *)
(* read from them, and a write that keeps it needs nothing of the reads.   *)

Stores == Tables \cup {"filed"}

Numbers(entries) == \A i \in DOMAIN entries : entries[i].id = i

(* The array holds the rows.                                               *)
Holds(entries, rows) == entries \in Seq(rows) /\ rows = ToSet(entries)

AccountsSame ==
  /\ Holds(memory.accounts, postgres.accounts)
  /\ Numbers(memory.accounts)
  /\ \A a \in postgres.accounts : a.seen \in Int

RecruitsSame ==
  /\ Holds(memory.characters, postgres.characters)
  /\ Numbers(memory.characters)
  /\ \A c \in postgres.characters : c.num \in Nat /\ c.born \in Nat /\ c.born <= now

(* Deaths are newest first in memory, and were numbered as they came.      *)
DeathsSame ==
  LET n == Len(memory.deaths) IN
  /\ Holds(memory.deaths, postgres.deaths)
  /\ \A i \in DOMAIN memory.deaths :
       /\ memory.deaths[i].id = n + 1 - i
       /\ memory.deaths[i].at \in Nat /\ memory.deaths[i].at <= now
       /\ memory.deaths[i].account \in 1..Cardinality(postgres.accounts)
  /\ \A i, j \in DOMAIN memory.deaths : i < j => memory.deaths[i].at >= memory.deaths[j].at

(* Nobody in service has an older colleague's death ahead.                 *)
DeathsBefore ==
  \A c \in postgres.characters, d \in postgres.deaths : c.alive /\ d.account = c.account => d.at <= c.born

(* Where nobody serves, the last death came alone.                         *)
LastAlone ==
  \A d, e \in postgres.deaths :
    d.account = e.account /\ d.at = e.at /\ (\A f \in postgres.deaths : f.account = d.account => f.at <= d.at) /\ d # e
      => PostgresActive(d.account) # {}

(* A row for each entry of the map; what is filed is a set of its own.     *)
LedgersSame ==
  \A l \in Ledgers, a \in Nat :
    LET rows == {r \in postgres.ledgers : r.ledger = l /\ r.account = a}
    IN  IF <<l, a>> \in DOMAIN memory.ledgers
        THEN \E f \in BOOLEAN :
               /\ rows = {[ledger |-> l, account |-> a, value |-> memory.ledgers[<<l, a>>], filed |-> f]}
               /\ l = "orders" => (f <=> a \in memory.filed)
        ELSE rows = {} /\ (l = "orders" => a \notin memory.filed)

TokensSame ==
  /\ postgres.tokens = {[token |-> t, account |-> memory.tokens[t]] : t \in DOMAIN memory.tokens}

SendsSame ==
  /\ area = "push" => DOMAIN memory.sends = Accounts
  /\ \A a \in DOMAIN memory.sends :
       /\ IsFiniteSet(DOMAIN memory.sends[a])
       /\ {s \in postgres.sends : s.account = a} =
            {[account |-> a, event |-> e, at |-> memory.sends[a][e]] : e \in DOMAIN memory.sends[a]}

KeyColumns == {"account", "call", "done", "at"}

(* One account's key.                                                      *)
KeyHeld(held, a, rows) ==
  \/ held = <<>> /\ \A k \in rows : k.account # a
  \/ \E k \in rows : /\ held = <<k>> /\ \A j \in rows : j.account = a => j = k
                     /\ Row(k, KeyColumns) /\ k.account = a

KeysSame ==
  /\ area = "keys" => DOMAIN memory.keys = Accounts
  /\ \A k \in postgres.keys : k.account \in DOMAIN memory.keys
  /\ \A a \in DOMAIN memory.keys : KeyHeld(memory.keys[a], a, postgres.keys)

WorldSame ==
  /\ memory.world = postgres.world
  /\ Row(memory.world, {"beat", "cycle", "progress", "target"})
  /\ memory.world.cycle \in Nat /\ memory.world.progress \in Nat /\ memory.world.target \in Nat

(* With RowsInv, the inductive invariant.                                  *)
Same ==
  /\ Row(memory, Stores) /\ now \in Nat
  /\ AccountsSame /\ RecruitsSame /\ DeathsSame /\ DeathsBefore /\ LastAlone
  /\ LedgersSame /\ JournalSame /\ TavernSame /\ TokensSame /\ SendsSame /\ KeysSame /\ WorldSame
  /\ CallsAgree

-----------------------------------------------------------------------------
(* Arrays and rows *)

LEMMA HeldIs ==
  ASSUME NEW e, NEW R, Holds(e, R)
  PROVE  /\ Len(e) \in Nat /\ DOMAIN e = 1..Len(e)
         /\ \A i \in DOMAIN e : e[i] \in R
         /\ \A r \in R : \E i \in DOMAIN e : r = e[i]
<1>1. e \in Seq(R) /\ R = {e[i] : i \in DOMAIN e}
  BY DEF Holds, ToSet
<1>2. Len(e) \in Nat /\ DOMAIN e = 1..Len(e)
  BY <1>1, LenProperties
<1> QED BY <1>1, <1>2

(* As many rows as entries, when no two are the same.                      *)
LEMMA HeldCount ==
  ASSUME NEW e, NEW R, Holds(e, R), \A i, j \in DOMAIN e : e[i] = e[j] => i = j
  PROVE  IsFiniteSet(R) /\ Cardinality(R) = Len(e)
<1> DEFINE n == Len(e)
<1>1. n \in Nat /\ DOMAIN e = 1..n /\ e \in [1..n -> R] /\ \A r \in R : \E i \in 1..n : r = e[i]
  BY HeldIs, LenProperties DEF Holds
<1>2. e \in Bijection(1..n, R)
  BY <1>1 DEF Bijection, Injection, Surjection, IsInjective
<1> HIDE DEF n
<1>3. ExistsBijection(1..n, R)
  BY <1>2 DEF ExistsBijection
<1> QED BY <1>1, <1>3, FS_CountingElements, FS_NatBijection DEF n

LEMMA HeldAppend ==
  ASSUME NEW e, NEW R, Holds(e, R), NEW x
  PROVE  /\ Holds(Append(e, x), R \cup {x})
         /\ Len(Append(e, x)) = Len(e) + 1
         /\ \A i \in DOMAIN Append(e, x) : Append(e, x)[i] = IF i = Len(e) + 1 THEN x ELSE e[i]
<1> DEFINE f == Append(e, x)
<1>1. e \in Seq(R \cup {x}) /\ Len(e) \in Nat /\ DOMAIN e = 1..Len(e)
  BY HeldIs, SeqMonotonic DEF Holds
<1>2. f \in Seq(R \cup {x}) /\ Len(f) = Len(e) + 1 /\ DOMAIN f = 1..(Len(e) + 1)
      /\ \A i \in 1..(Len(e) + 1) : f[i] = IF i = Len(e) + 1 THEN x ELSE e[i]
  BY <1>1
<1> HIDE DEF f
<1>3. R \cup {x} = {f[i] : i \in DOMAIN f}
  <2>1. ASSUME NEW r \in R \cup {x} PROVE \E i \in DOMAIN f : r = f[i]
    <3>1. CASE r = x
      BY <1>1, <1>2, <3>1
    <3>2. CASE r \in R
      <4>1. PICK i \in DOMAIN e : r = e[i]
        BY <3>2, HeldIs
      <4> QED BY <1>1, <1>2, <4>1
    <3> QED BY <3>1, <3>2
  <2>2. ASSUME NEW i \in DOMAIN f PROVE f[i] \in R \cup {x}
    BY <1>1, <1>2, HeldIs
  <2> QED BY <2>1, <2>2
<1> QED BY <1>2, <1>3 DEF Holds, ToSet, f

LEMMA HeldFront ==
  ASSUME NEW e, NEW R, Holds(e, R), NEW x
  PROVE  /\ Holds(<<x>> \o e, R \cup {x})
         /\ Len(<<x>> \o e) = Len(e) + 1
         /\ \A i \in DOMAIN (<<x>> \o e) : (<<x>> \o e)[i] = IF i = 1 THEN x ELSE e[i - 1]
<1> DEFINE f == <<x>> \o e
<1>1. e \in Seq(R \cup {x}) /\ Len(e) \in Nat /\ DOMAIN e = 1..Len(e)
  BY HeldIs, SeqMonotonic DEF Holds
<1>2. <<x>> \in Seq(R \cup {x}) /\ Len(<<x>>) = 1 /\ <<x>>[1] = x
  OBVIOUS
<1>3. f \in Seq(R \cup {x}) /\ Len(f) = Len(e) + 1 /\ DOMAIN f = 1..(Len(e) + 1)
      /\ \A i \in 1..(Len(e) + 1) : f[i] = IF i = 1 THEN x ELSE e[i - 1]
  <2>1. f \in Seq(R \cup {x}) /\ Len(f) = 1 + Len(e)
        /\ \A i \in 1..(1 + Len(e)) : f[i] = IF i <= 1 THEN <<x>>[i] ELSE e[i - 1]
    BY <1>1, <1>2, ConcatProperties
  <2>2. DOMAIN f = 1..Len(f)
    BY <2>1, LenProperties
  <2> HIDE DEF f
  <2> QED BY <1>1, <1>2, <2>1, <2>2
<1> HIDE DEF f
<1>4. R \cup {x} = {f[i] : i \in DOMAIN f}
  <2>1. ASSUME NEW r \in R \cup {x} PROVE \E i \in DOMAIN f : r = f[i]
    <3>1. CASE r = x
      BY <1>1, <1>3, <3>1
    <3>2. CASE r \in R
      <4>1. PICK i \in DOMAIN e : r = e[i]
        BY <3>2, HeldIs
      <4>2. i + 1 \in DOMAIN f /\ f[i + 1] = e[i]
        BY <1>1, <1>3, <4>1
      <4> QED BY <4>1, <4>2
    <3> QED BY <3>1, <3>2
  <2>2. ASSUME NEW i \in DOMAIN f PROVE f[i] \in R \cup {x}
    <3>1. CASE i = 1
      BY <1>1, <1>3, <3>1
    <3>2. CASE i # 1
      <4>1. i - 1 \in DOMAIN e /\ f[i] = e[i - 1]
        BY <1>1, <1>3, <3>2
      <4> QED BY <4>1, HeldIs
    <3> QED BY <3>1, <3>2
  <2> QED BY <2>1, <2>2
<1> QED BY <1>3, <1>4 DEF Holds, ToSet, f

(* An array that is written entry by entry.                                *)
LEMMA HeldMap ==
  ASSUME NEW n \in Nat, NEW e, e = [i \in 1..n |-> e[i]]
  PROVE  Holds(e, {e[i] : i \in 1..n}) /\ Len(e) = n
<1>1. e \in [1..n -> {e[i] : i \in 1..n}] /\ DOMAIN e = 1..n
  OBVIOUS
<1>2. e \in Seq({e[i] : i \in 1..n})
  BY <1>1, SeqDef
<1>3. Len(e) = n
  BY <1>1, <1>2, LenProperties
<1> QED BY <1>1, <1>2, <1>3 DEF Holds, ToSet

(* The first entry of a set there is.                                      *)
Firsts(e, T) == LET hits == {i \in DOMAIN e : e[i] \in T} IN {e[i] : i \in {j \in hits : \A k \in hits : j <= k}}

LEMMA FirstOf ==
  ASSUME NEW e, NEW R, Holds(e, R), NEW T, T \subseteq R
  PROVE  /\ T = {} => Firsts(e, T) = {}
         /\ T # {} => \E i \in DOMAIN e :
                        e[i] \in T /\ Firsts(e, T) = {e[i]} /\ \A j \in DOMAIN e : e[j] \in T => i <= j
<1> DEFINE hits == {i \in DOMAIN e : e[i] \in T}
<1>1. Len(e) \in Nat /\ DOMAIN e = 1..Len(e) /\ \A r \in R : \E i \in DOMAIN e : r = e[i]
  BY HeldIs
<1>2. CASE T = {}
  BY <1>2 DEF Firsts
<1>3. CASE T # {}
  <2>1. hits # {} /\ hits \in SUBSET Nat
    BY <1>1, <1>3
  <2>2. \A i \in hits : i \in DOMAIN e /\ e[i] \in T
    OBVIOUS
  <2>3. \A i \in DOMAIN e : e[i] \in T => i \in hits
    OBVIOUS
  <2>4. Firsts(e, T) = {e[i] : i \in {j \in hits : \A k \in hits : j <= k}}
    BY DEF Firsts
  <2> HIDE DEF hits
  <2>5. PICK i \in hits : \A j \in hits : i <= j
    BY <2>1, FirstMoment
  <2>6. {j \in hits : \A k \in hits : j <= k} = {i}
    <3>1. \A j \in hits : j \in Nat
      BY <2>1
    <3> QED BY <2>5, <3>1
  <2>7. Firsts(e, T) = {e[i]}
    BY <2>4, <2>6
  <2> QED BY <1>3, <2>2, <2>3, <2>5, <2>7
<1> QED BY <1>2, <1>3

(* It is an answer that the query could give.                              *)
LEMMA FirstAnswers ==
  ASSUME NEW e, NEW R, Holds(e, R), NEW T, T \subseteq R
  PROVE  Answers(Firsts(e, T), T)
<1>1. T = {} => Firsts(e, T) = {}
  BY FirstOf
<1>2. T # {} => Firsts(e, T) # {} /\ Firsts(e, T) \subseteq T
  BY FirstOf
<1> QED BY <1>1, <1>2 DEF Answers

LEMMA LesserOf ==
  ASSUME NEW a \in Int, NEW b \in Int
  PROVE  Min({a, b}) = IF a <= b THEN a ELSE b
<1> DEFINE m == IF a <= b THEN a ELSE b
<1>1. m \in {a, b} /\ \A y \in {a, b} : m <= y
  OBVIOUS
<1>2. \A x \in {a, b} : (\A y \in {a, b} : x <= y) => x = m
  OBVIOUS
<1> HIDE DEF m
<1>3. Min({a, b}) = m
  BY <1>1, <1>2 DEF Min
<1> QED BY <1>3 DEF m

(* The longest away first, and of those the first to be opened.            *)
LongerAway(all, away) ==
  {p \in away \X away : \/ all[p[1]].seen < all[p[2]].seen
                        \/ all[p[1]].seen = all[p[2]].seen /\ p[1] < p[2]}

(* What is picked when nothing but the order of the places is open.        *)
LEMMA CandidatesRead ==
  ASSUME AccountsSame, now \in Int, \A a \in Accounts : MemoryTokens(a) = PostgresTokens(a)
  PROVE  PostgresMayPick(MemoryCandidates)
<1> DEFINE all  == memory.accounts
           R    == postgres.accounts
           n    == Len(all)
           H    == {i \in DOMAIN all : MemoryTokens(all[i].id) # {} /\ all[i].seen < now - Away}
           A    == {a \in R : PostgresTokens(a.id) # {} /\ a.seen < now - Away}
           before == LongerAway(all, H)
           s    == Sorted(H, before)
           m    == Cardinality(H)
           list == MemoryCandidates
<1>1. /\ n \in Nat /\ DOMAIN all = 1..n /\ \A i \in 1..n : all[i] \in R /\ all[i].id = i /\ all[i].seen \in Int
      /\ \A r \in R : \E i \in 1..n : r = all[i]
  BY HeldIs DEF AccountsSame, Numbers
<1>2. Limit \in Nat /\ Away \in Nat
  BY StorageAssumption DEF StorageAssumption
<1>3. \A i \in H : all[i] \in A
  BY <1>1 DEF Accounts
<1>4. \A a \in A : \E i \in H : a = all[i]
  BY <1>1 DEF Accounts
<1>5. H \subseteq 1..n
  BY <1>1
<1>6. list = [k \in 1..Min({Limit, Len(s)}) |-> all[s[k]]]
  BY DEF MemoryCandidates, LongerAway
<1>7. \A x, y \in H : <<x, y>> \in before <=>
        all[x].seen < all[y].seen \/ (all[x].seen = all[y].seen /\ x < y)
  BY DEF LongerAway
<1> HIDE DEF H, A, all, before, R, n
<1>8. Strict(H, before)
  <2>1. \A x \in H : x \in Int /\ all[x].seen \in Int
    BY <1>1, <1>5
  <2> QED BY <1>7, <2>1 DEF Strict
<1>9. IsFiniteSet(H) /\ H \subseteq Int
  BY <1>1, <1>5, PlacesFinite
<1>10. m \in Nat /\ s \in [1..m -> H]
  <2> HIDE DEF s, m
  <2>1. Cardinality(H) \in Nat /\ Sorted(H, before) \in [1..Cardinality(H) -> H]
    BY <1>8, <1>9, SortedIs
  <2> QED BY <2>1 DEF s, m
<1>11. \A i, j \in 1..m : i < j => <<s[i], s[j]>> \in before
  BY <1>8, <1>9, SortedIs
<1>12. \A x \in H : \E i \in 1..m : s[i] = x
  <2> HIDE DEF s, m
  <2>1. ASSUME NEW x \in H PROVE \E i \in 1..Cardinality(H) : Sorted(H, before)[i] = x
    BY <1>8, <1>9, SortedOnto
  <2> QED BY <2>1 DEF s, m
<1> HIDE DEF m, s
<1>13. Len(s) = m
  <2>1. List(s, m)
    BY <1>10 DEF List
  <2> QED BY <2>1, ListIs
<1> DEFINE l == IF Limit <= m THEN Limit ELSE m
<1>14. list = [k \in 1..l |-> all[s[k]]] /\ l \in 0..m
  <2>1. Min({Limit, Len(s)}) = l
    BY <1>2, <1>10, <1>13, LesserOf
  <2> QED BY <1>2, <1>6, <1>10, <2>1
<1> HIDE DEF l, list
<1>15. \A i, j \in 1..m : all[s[i]] = all[s[j]] => i = j
  <2> SUFFICES ASSUME NEW i \in 1..m, NEW j \in 1..m, all[s[i]] = all[s[j]] PROVE i = j
    OBVIOUS
  <2>1. s[i] = s[j]
    BY <1>1, <1>5, <1>10
  <2>2. i < j \/ j < i \/ i = j
    BY <1>10
  <2>3. <<s[i], s[i]>> \notin before
    BY <1>8, <1>10 DEF Strict
  <2> QED BY <1>11, <2>1, <2>2, <2>3
<1>16. Cardinality(A) = m /\ IsFiniteSet(A)
  <2> DEFINE t == [k \in 1..m |-> all[s[k]]]
  <2>1. t \in [1..m -> A]
    BY <1>3, <1>10
  <2>2. \A a \in A : \E k \in 1..m : t[k] = a
    BY <1>4, <1>12
  <2>3. \A i, j \in 1..m : t[i] = t[j] => i = j
    BY <1>15
  <2> HIDE DEF t
  <2>4. t \in Bijection(1..m, A)
    BY <2>1, <2>2, <2>3 DEF Bijection, Injection, Surjection, IsInjective
  <2>5. ExistsBijection(1..m, A)
    BY <2>4 DEF ExistsBijection
  <2> QED BY <1>10, <2>5, FS_CountingElements, FS_NatBijection
<1>17. List(list, l) /\ DOMAIN list = 1..l
  BY <1>10, <1>14 DEF List
<1>18. Len(list) = Min({Limit, Cardinality(A)})
  <2>1. Len(list) = l
    BY <1>17, ListIs
  <2>2. Min({Limit, m}) = l
    BY <1>2, <1>10, LesserOf DEF l
  <2> QED BY <1>16, <2>1, <2>2
<1>19. IsInjective(list)
  BY <1>10, <1>14, <1>15, <1>17 DEF IsInjective
<1>20. ToSet(list) \subseteq A
  BY <1>3, <1>10, <1>14, <1>17 DEF ToSet
<1>21. \A i, j \in 1..m : i < j => all[s[i]].seen <= all[s[j]].seen
  <2> SUFFICES ASSUME NEW i \in 1..m, NEW j \in 1..m, i < j PROVE all[s[i]].seen <= all[s[j]].seen
    OBVIOUS
  <2>1. s[i] \in H /\ s[j] \in H /\ <<s[i], s[j]>> \in before
    BY <1>10, <1>11
  <2>2. all[s[i]].seen \in Int /\ all[s[j]].seen \in Int
    BY <1>1, <1>5, <2>1
  <2> QED BY <1>7, <2>1, <2>2
<1>22. \A i, j \in DOMAIN list : i < j => list[i].seen <= list[j].seen
  BY <1>10, <1>14, <1>17, <1>21
<1>23. ASSUME NEW a \in A \ ToSet(list), NEW b \in ToSet(list) PROVE a.seen >= b.seen
  <2>1. PICK i \in 1..l : b = all[s[i]]
    BY <1>14, <1>17 DEF ToSet
  <2>2. PICK j \in 1..m : a = all[s[j]]
    BY <1>4, <1>12
  <2>3. j \notin 1..l
    BY <1>14, <1>17, <1>23, <2>2 DEF ToSet
  <2>4. i \in 1..m /\ i < j
    BY <1>10, <1>14, <2>3
  <2>5. all[s[i]].seen <= all[s[j]].seen
    BY <1>21, <2>4
  <2>6. all[s[i]].seen \in Int /\ all[s[j]].seen \in Int
    BY <1>1, <1>5, <1>10, <2>4
  <2> QED BY <2>1, <2>2, <2>5, <2>6
<1> QED BY <1>18, <1>19, <1>20, <1>22, <1>23 DEF PostgresMayPick, A, R, list

-----------------------------------------------------------------------------
(* What a row at a time is read as *)

LEMMA AccountIds ==
  ASSUME AccountsSame
  PROVE  /\ Len(memory.accounts) \in Nat /\ Accounts = 1..Len(memory.accounts)
         /\ IsFiniteSet(postgres.accounts) /\ Cardinality(postgres.accounts) = Len(memory.accounts)
         /\ \A a \in Accounts : memory.accounts[a] \in postgres.accounts /\ memory.accounts[a].id = a
         /\ \A x \in postgres.accounts : x.id \in Accounts /\ x = memory.accounts[x.id]
<1> DEFINE e == memory.accounts
           R == postgres.accounts
           n == Len(e)
<1>1. /\ n \in Nat /\ DOMAIN e = 1..n /\ \A i \in 1..n : e[i] \in R /\ e[i].id = i
      /\ \A r \in R : \E i \in 1..n : r = e[i]
  BY HeldIs DEF AccountsSame, Numbers
<1>2. Holds(e, R)
  BY DEF AccountsSame
<1>3. Accounts = {r.id : r \in R}
  BY DEF Accounts
<1> HIDE DEF e, R, n
<1>4. IsFiniteSet(R) /\ Cardinality(R) = Len(e)
  <2>1. \A i, j \in DOMAIN e : e[i] = e[j] => i = j
    BY <1>1
  <2> QED BY <1>2, <2>1, HeldCount
<1>5. Accounts = 1..n
  <2>1. \A i \in 1..n : i \in {r.id : r \in R}
    BY <1>1
  <2>2. \A r \in R : r.id \in 1..n
    BY <1>1
  <2> QED BY <1>3, <2>1, <2>2
<1> QED BY <1>1, <1>4, <1>5 DEF e, R, n

LEMMA RecruitsCounted ==
  ASSUME NEW e, NEW R, Holds(e, R), Numbers(e)
  PROVE  IsFiniteSet(R) /\ Cardinality(R) = Len(e)
<1>1. \A i, j \in DOMAIN e : e[i] = e[j] => i = j
  BY DEF Numbers
<1> QED BY <1>1, HeldCount

LEMMA MemoryFinds ==
  ASSUME Same, NEW a
  PROVE  /\ MemoryActive(a) = Firsts(memory.characters, PostgresActive(a))
         /\ MemoryLatest(a) = Firsts(memory.characters, PostgresLatest(a))
         /\ MemoryLatestDeath(a) = Firsts(memory.deaths, {d \in postgres.deaths : d.account = a})
         /\ \A d : MemoryAccount(d) = Firsts(memory.accounts, PostgresAccount(d))
<1> DEFINE e == memory.characters
           R == postgres.characters
           deaths == memory.deaths
           accounts == memory.accounts
<1>1. /\ \A i \in DOMAIN e : e[i] \in R
      /\ \A r \in R : \E i \in DOMAIN e : r = e[i]
  BY HeldIs DEF Same, RecruitsSame
<1>2. \A i \in DOMAIN deaths : deaths[i] \in postgres.deaths
  BY HeldIs DEF Same, DeathsSame
<1>3. \A i \in DOMAIN accounts : accounts[i] \in postgres.accounts
  BY HeldIs DEF Same, AccountsSame
<1>4. MemoryActive(a) = Firsts(e, PostgresActive(a))
  <2>1. {i \in DOMAIN e : e[i].account = a /\ e[i].alive} = {i \in DOMAIN e : e[i] \in PostgresActive(a)}
    BY <1>1 DEF PostgresActive
  <2> QED BY <2>1 DEF MemoryActive, FirstWith, Firsts
<1>5. MemoryLatest(a) = Firsts(e, PostgresLatest(a))
  <2>1. \A c \in R : (\A i \in DOMAIN e : e[i].account = a => e[i].num <= c.num)
                       <=> \A s \in {x \in R : x.account = a} : s.num <= c.num
    <3> HIDE DEF e, R
    <3> QED BY <1>1
  <2>2. {i \in DOMAIN e : e[i].account = a /\ \A j \in DOMAIN e : e[j].account = a => e[j].num <= e[i].num}
          = {i \in DOMAIN e : e[i] \in PostgresLatest(a)}
    BY <1>1, <2>1 DEF PostgresLatest, Greatest
  <2> QED BY <2>2 DEF MemoryLatest, FirstWith, Firsts
<1>6. MemoryLatestDeath(a) = Firsts(deaths, {d \in postgres.deaths : d.account = a})
  <2>1. {i \in DOMAIN deaths : deaths[i].account = a}
          = {i \in DOMAIN deaths : deaths[i] \in {d \in postgres.deaths : d.account = a}}
    BY <1>2
  <2> QED BY <2>1 DEF MemoryLatestDeath, FirstWith, Firsts
<1>7. ASSUME NEW d PROVE MemoryAccount(d) = Firsts(accounts, PostgresAccount(d))
  <2>1. {i \in DOMAIN accounts : accounts[i].device = d}
          = {i \in DOMAIN accounts : accounts[i] \in PostgresAccount(d)}
    BY <1>3 DEF PostgresAccount
  <2> QED BY <2>1 DEF MemoryAccount, FirstWith, Firsts
<1> QED BY <1>4, <1>5, <1>6, <1>7

(* The first of the deaths that memory finds is among the last.            *)
LEMMA LatestDeaths ==
  ASSUME Same, NEW a
  PROVE  /\ Answers(MemoryLatestDeath(a), PostgresLatestDeath(a))
         /\ PostgresActive(a) = {} => MemoryLatestDeath(a) = PostgresLatestDeath(a)
<1> DEFINE e == memory.deaths
           R == postgres.deaths
           T == {d \in R : d.account = a}
<1>1. /\ Len(e) \in Nat /\ DOMAIN e = 1..Len(e) /\ \A i \in DOMAIN e : e[i] \in R
      /\ \A r \in R : \E i \in DOMAIN e : r = e[i]
  BY HeldIs DEF Same, DeathsSame
<1>2. /\ \A i \in DOMAIN e : e[i].at \in Nat
      /\ \A i, j \in DOMAIN e : i < j => e[i].at >= e[j].at
  BY DEF Same, DeathsSame
<1>3. MemoryLatestDeath(a) = Firsts(e, T)
  BY MemoryFinds
<1>4. PostgresLatestDeath(a) = {r \in T : \A s \in T : s.at <= r.at}
  BY DEF PostgresLatestDeath, Greatest
<1>5. Holds(e, R) /\ T \subseteq R
  BY DEF Same, DeathsSame
<1>6. \A d, f \in T : d.at = f.at /\ (\A g \in T : g.at <= d.at) /\ PostgresActive(a) = {} => d = f
  BY DEF Same, LastAlone
<1> HIDE DEF e, R
<1>7. CASE T = {}
  <2>1. Firsts(e, T) = {}
    BY <1>5, <1>7, FirstOf
  <2> QED BY <1>3, <1>4, <1>7, <2>1 DEF Answers
<1>8. CASE T # {}
  <2>0. \A j \in DOMAIN e : e[j] \in T <=> e[j].account = a
    BY <1>1
  <2>00. \A d \in T : d \in R
    OBVIOUS
  <2> HIDE DEF T
  <2>1. PICK i \in DOMAIN e : e[i] \in T /\ Firsts(e, T) = {e[i]} /\ \A j \in DOMAIN e : e[j] \in T => i <= j
    BY <1>5, <1>8, FirstOf
  <2>2. ASSUME NEW s \in T PROVE s.at <= e[i].at
    <3>1. PICK j \in DOMAIN e : s = e[j]
      BY <1>1, <2>00
    <3>2. i = j \/ i < j
      BY <1>1, <2>1, <3>1
    <3> QED BY <1>2, <3>1, <3>2
  <2>3. e[i] \in PostgresLatestDeath(a)
    BY <1>4, <2>1, <2>2
  <2>4. Answers(MemoryLatestDeath(a), PostgresLatestDeath(a))
    BY <1>3, <2>1, <2>3 DEF Answers
  <2>5. ASSUME PostgresActive(a) = {}, NEW r \in PostgresLatestDeath(a) PROVE r = e[i]
    <3>1. r \in T /\ (\A s \in T : s.at <= r.at) /\ e[i].at <= r.at /\ r.at <= e[i].at
      BY <1>4, <2>1, <2>2, <2>5
    <3>2. r.at = e[i].at
      <4>1. \A s \in T : s.at \in Nat
        BY <1>1, <1>2, <2>00
      <4> QED BY <2>1, <3>1, <4>1
    <3> QED BY <1>6, <2>1, <2>5, <3>1, <3>2
  <2> QED BY <1>3, <2>1, <2>3, <2>4, <2>5
<1> QED BY <1>7, <1>8

LEMMA DeathsListed ==
  ASSUME Same
  PROVE  PostgresMayList(SubSeq(memory.deaths, 1, Min({Limit, Len(memory.deaths)})), Limit)
<1> DEFINE e == memory.deaths
           R == postgres.deaths
           n == Len(e)
           m == IF Limit <= n THEN Limit ELSE n
           l == [k \in 1..m |-> e[k]]
<1>1. /\ n \in Nat /\ DOMAIN e = 1..n /\ \A i \in 1..n : e[i] \in R
      /\ \A r \in R : \E i \in 1..n : r = e[i]
  BY HeldIs DEF Same, DeathsSame
<1>2. /\ \A i \in 1..n : e[i].at \in Nat /\ e[i].id = n + 1 - i
      /\ \A i, j \in 1..n : i < j => e[i].at >= e[j].at
  BY <1>1 DEF Same, DeathsSame
<1>3. Holds(e, R)
  BY DEF Same, DeathsSame
<1>4. Limit \in Nat
  BY StorageAssumption DEF StorageAssumption
<1> HIDE DEF e, R, n
<1>5. \A i, j \in 1..n : e[i] = e[j] => i = j
  <2> SUFFICES ASSUME NEW i \in 1..n, NEW j \in 1..n, e[i] = e[j] PROVE i = j
    OBVIOUS
  <2>1. n + 1 - i = n + 1 - j
    <3>1. e[i].id = n + 1 - i /\ e[j].id = n + 1 - j
      BY <1>2
    <3> QED BY <3>1
  <2> QED BY <1>1, <2>1
<1>6. Cardinality(R) = Len(e) /\ Len(e) = n
  <2>1. \A i, j \in DOMAIN e : e[i] = e[j] => i = j
    BY <1>1, <1>5
  <2> QED BY <1>3, <2>1, HeldCount DEF n
<1>7. Min({Limit, n}) = m /\ m \in 0..n
  BY <1>1, <1>4, LesserOf
<1> HIDE DEF m
<1>8. SubSeq(e, 1, m) = l
  <2>1. List(e, n)
    BY <1>3, SeqIsList DEF Holds, n
  <2> QED BY <1>7, <2>1, PartOf
<1>9. List(l, m) /\ DOMAIN l = 1..m
  BY <1>1, <1>7 DEF List
<1>10. \A k \in 1..m : k \in 1..n /\ l[k] = e[k]
  BY <1>1, <1>7
<1> HIDE DEF l
<1>11. Len(l) = m
  BY <1>9, ListIs
<1>12. IsInjective(l)
  BY <1>5, <1>9, <1>10 DEF IsInjective
<1>13. ToSet(l) \subseteq R
  BY <1>1, <1>9, <1>10 DEF ToSet
<1>14. \A i, j \in DOMAIN l : i < j => l[i].at >= l[j].at
  BY <1>2, <1>9, <1>10
<1>15. ASSUME NEW d \in R \ ToSet(l), NEW f \in ToSet(l) PROVE d.at <= f.at
  <2>1. PICK i \in 1..m : f = e[i]
    BY <1>9, <1>10 DEF ToSet
  <2>2. PICK j \in 1..n : d = e[j]
    BY <1>1
  <2>3. j \notin 1..m
    BY <1>9, <1>10, <1>15, <2>2 DEF ToSet
  <2>4. i \in 1..n /\ i < j
    BY <1>1, <1>7, <1>10, <2>3
  <2> QED BY <1>2, <2>1, <2>2, <2>4
<1>16. PostgresMayList(l, Limit)
  BY <1>6, <1>7, <1>11, <1>12, <1>13, <1>14, <1>15 DEF PostgresMayList, R
<1>17. SubSeq(memory.deaths, 1, Min({Limit, Len(memory.deaths)})) = l
  BY <1>7, <1>8 DEF e, n
<1> QED BY <1>16, <1>17

LEMMA TokensRead ==
  ASSUME Same, NEW a
  PROVE  MemoryTokens(a) = PostgresTokens(a)
<1> DEFINE tokens == memory.tokens
           R == postgres.tokens
<1>1. R = {[token |-> t, account |-> tokens[t]] : t \in DOMAIN tokens}
  BY DEF Same, TokensSame
<1>2. MemoryTokens(a) = {t \in DOMAIN tokens : tokens[t] = a}
  BY DEF MemoryTokens
<1>3. PostgresTokens(a) = {r.token : r \in {s \in R : s.account = a}}
  BY DEF PostgresTokens
<1> HIDE DEF tokens, R
<1>4. ASSUME NEW t \in MemoryTokens(a) PROVE t \in PostgresTokens(a)
  <2> DEFINE r == [token |-> t, account |-> tokens[t]]
  <2>1. r \in R /\ r.account = a /\ r.token = t
    BY <1>1, <1>2, <1>4
  <2> HIDE DEF r
  <2> QED BY <1>3, <2>1
<1>5. ASSUME NEW t \in PostgresTokens(a) PROVE t \in MemoryTokens(a)
  <2>1. PICK r \in R : r.account = a /\ r.token = t
    BY <1>3, <1>5
  <2>2. PICK u \in DOMAIN tokens : r = [token |-> u, account |-> tokens[u]]
    BY <1>1, <2>1
  <2> QED BY <1>2, <2>1, <2>2
<1> QED BY <1>4, <1>5

LEMMA LedgersRead ==
  ASSUME Same, NEW a \in Nat
  PROVE  /\ \A l \in Ledgers : {MemoryLedger(l, a)} = PostgresLedger(l, a)
         /\ MemoryHasFiled(a) <=> PostgresHasFiled(a)
<1> DEFINE rows(l) == {r \in postgres.ledgers : r.ledger = l /\ r.account = a}
<1>1. ASSUME NEW l \in Ledgers
      PROVE  IF <<l, a>> \in DOMAIN memory.ledgers
             THEN \E f \in BOOLEAN :
                    /\ rows(l) = {[ledger |-> l, account |-> a, value |-> memory.ledgers[<<l, a>>], filed |-> f]}
                    /\ l = "orders" => (f <=> a \in memory.filed)
             ELSE rows(l) = {} /\ (l = "orders" => a \notin memory.filed)
  BY DEF Same, LedgersSame
<1>2. ASSUME NEW l \in Ledgers PROVE {MemoryLedger(l, a)} = PostgresLedger(l, a)
  <2>1. PostgresLedger(l, a) = IF rows(l) = {} THEN {Default} ELSE {r.value : r \in rows(l)}
    BY DEF PostgresLedger
  <2> HIDE DEF rows
  <2>2. CASE <<l, a>> \in DOMAIN memory.ledgers
    <3>1. PICK f \in BOOLEAN :
            rows(l) = {[ledger |-> l, account |-> a, value |-> memory.ledgers[<<l, a>>], filed |-> f]}
      BY <1>1, <2>2
    <3> QED BY <2>1, <2>2, <3>1 DEF MemoryLedger
  <2>3. CASE <<l, a>> \notin DOMAIN memory.ledgers
    BY <1>1, <2>1, <2>3 DEF MemoryLedger
  <2> QED BY <2>2, <2>3
<1>3. MemoryHasFiled(a) <=> PostgresHasFiled(a)
  <2>1. "orders" \in Ledgers
    BY StorageAssumption DEF StorageAssumption
  <2>2. PostgresHasFiled(a) <=> \E r \in rows("orders") : r.filed
    BY DEF PostgresHasFiled
  <2> HIDE DEF rows
  <2>3. CASE <<"orders", a>> \in DOMAIN memory.ledgers
    <3>1. PICK f \in BOOLEAN :
            /\ rows("orders") = {[ledger |-> "orders", account |-> a, value |-> memory.ledgers[<<"orders", a>>], filed |-> f]}
            /\ f <=> a \in memory.filed
      BY <1>1, <2>1, <2>3
    <3> DEFINE row == [ledger |-> "orders", account |-> a, value |-> memory.ledgers[<<"orders", a>>], filed |-> f]
    <3>2. row.filed = f /\ rows("orders") = {row}
      BY <3>1
    <3> HIDE DEF row
    <3>3. (\E r \in rows("orders") : r.filed) <=> f
      BY <3>2, Zenon
    <3> QED BY <2>2, <3>1, <3>3 DEF MemoryHasFiled
  <2>4. CASE <<"orders", a>> \notin DOMAIN memory.ledgers
    BY <1>1, <2>1, <2>2, <2>4 DEF MemoryHasFiled
  <2> QED BY <2>3, <2>4
<1> QED BY <1>2, <1>3

LEMMA RowsRead ==
  ASSUME RowsInv, Same
  PROVE  RowsAgree
<1>1. \A a \in Accounts : a \in Nat
  BY AccountIds DEF Same
<1>2. ASSUME NEW a
      PROVE  /\ Answers(MemoryActive(a), PostgresActive(a))
             /\ Answers(MemoryLatest(a), PostgresLatest(a))
  <2>1. Holds(memory.characters, postgres.characters)
    BY DEF Same, RecruitsSame
  <2>2. PostgresActive(a) \subseteq postgres.characters /\ PostgresLatest(a) \subseteq postgres.characters
    BY DEF PostgresActive, PostgresLatest, Greatest
  <2>3. Answers(Firsts(memory.characters, PostgresActive(a)), PostgresActive(a))
    BY <2>1, <2>2, FirstAnswers
  <2>4. Answers(Firsts(memory.characters, PostgresLatest(a)), PostgresLatest(a))
    BY <2>1, <2>2, FirstAnswers
  <2> QED BY <2>3, <2>4, MemoryFinds
<1>3. memory.world = postgres.world
  BY DEF Same, WorldSame
<1> QED BY <1>1, <1>2, <1>3, LatestDeaths, DeathsListed, TokensRead, LedgersRead DEF RowsAgree

LEMMA ListsRead ==
  ASSUME RowsInv, Same
  PROVE  ListsAgree
<1>1. ASSUME NEW d \in Devices PROVE JournalsAgree(d)
  BY JournalReads DEF Same
<1>2. TavernsAgree
  BY TavernReads DEF Same
<1>3. PostgresMayPick(MemoryCandidates)
  <2>1. \A a \in Accounts : MemoryTokens(a) = PostgresTokens(a)
    BY TokensRead
  <2> QED BY <2>1, CandidatesRead DEF Same
<1> QED BY <1>1, <1>2, <1>3 DEF ListsAgree

-----------------------------------------------------------------------------
(* What is not written stays the same in both *)

Leaves(r, s, written, columns) ==
  Row(s, columns) /\ \A x \in columns \ written : s[x] = r[x]

Waits == UNCHANGED area /\ now' \in Nat /\ now <= now'

LEMMA Kept ==
  ASSUME Same, NEW W, Waits, Leaves(memory, memory', W, Stores), Leaves(postgres, postgres', W, Tables)
  PROVE  /\ Row(memory', Stores) /\ now' \in Nat
         /\ "accounts" \notin W => AccountsSame'
         /\ "characters" \notin W => RecruitsSame'
         /\ "deaths" \notin W /\ "accounts" \notin W => DeathsSame'
         /\ "deaths" \notin W /\ "characters" \notin W => DeathsBefore' /\ LastAlone'
         /\ "ledgers" \notin W /\ "filed" \notin W => LedgersSame'
         /\ "journal" \notin W /\ "serial" \notin W => JournalSame'
         /\ "tavern" \notin W /\ "serial" \notin W => TavernSame'
         /\ "tokens" \notin W => TokensSame'
         /\ "sends" \notin W /\ "accounts" \notin W => SendsSame'
         /\ "keys" \notin W /\ "accounts" \notin W => KeysSame'
         /\ "world" \notin W => WorldSame'
<1>1. \A x \in Tables \ W : memory'[x] = memory[x] /\ postgres'[x] = postgres[x]
  BY DEF Leaves, Stores
<1>2. "filed" \notin W => memory'.filed = memory.filed
  BY DEF Leaves, Stores
<1>3. /\ "accounts" \notin W => memory'.accounts = memory.accounts /\ postgres'.accounts = postgres.accounts
      /\ "characters" \notin W => memory'.characters = memory.characters /\ postgres'.characters = postgres.characters
      /\ "deaths" \notin W => memory'.deaths = memory.deaths /\ postgres'.deaths = postgres.deaths
      /\ "ledgers" \notin W => memory'.ledgers = memory.ledgers /\ postgres'.ledgers = postgres.ledgers
      /\ "journal" \notin W => memory'.journal = memory.journal /\ postgres'.journal = postgres.journal
      /\ "tavern" \notin W => memory'.tavern = memory.tavern /\ postgres'.tavern = postgres.tavern
      /\ "serial" \notin W => memory'.serial = memory.serial /\ postgres'.serial = postgres.serial
      /\ "tokens" \notin W => memory'.tokens = memory.tokens /\ postgres'.tokens = postgres.tokens
      /\ "sends" \notin W => memory'.sends = memory.sends /\ postgres'.sends = postgres.sends
      /\ "keys" \notin W => memory'.keys = memory.keys /\ postgres'.keys = postgres.keys
      /\ "world" \notin W => memory'.world = memory.world /\ postgres'.world = postgres.world
  BY <1>1 DEF Tables
<1>4. now \in Nat /\ now' \in Nat /\ now <= now' /\ area' = area
  BY DEF Same, Waits
<1>5. Row(memory', Stores)
  BY DEF Leaves
<1>6. "accounts" \notin W => AccountsSame'
  BY <1>3 DEF Same, AccountsSame
<1>7. "characters" \notin W => RecruitsSame'
  BY <1>3, <1>4 DEF Same, RecruitsSame
<1>8. "deaths" \notin W /\ "accounts" \notin W => DeathsSame'
  BY <1>3, <1>4 DEF Same, DeathsSame
<1>9. "deaths" \notin W /\ "characters" \notin W => DeathsBefore' /\ LastAlone'
  BY <1>3 DEF Same, DeathsBefore, LastAlone, PostgresActive
<1>10. "ledgers" \notin W /\ "filed" \notin W => LedgersSame'
  BY <1>2, <1>3 DEF Same, LedgersSame
<1>11. "journal" \notin W /\ "serial" \notin W => JournalSame'
  BY <1>3 DEF Same, JournalSame
<1>12. "tavern" \notin W /\ "serial" \notin W => TavernSame'
  BY <1>3 DEF Same, TavernSame
<1>13. "tokens" \notin W => TokensSame'
  BY <1>3 DEF Same, TokensSame
<1>14. "sends" \notin W /\ "accounts" \notin W => SendsSame'
  BY <1>3, <1>4 DEF Same, SendsSame, Accounts
<1>15. "keys" \notin W /\ "accounts" \notin W => KeysSame'
  BY <1>3, <1>4 DEF Same, KeysSame, Accounts
<1>16. "world" \notin W => WorldSame'
  BY <1>3 DEF Same, WorldSame
<1> QED BY <1>4, <1>5, <1>6, <1>7, <1>8, <1>9, <1>10, <1>11, <1>12, <1>13, <1>14, <1>15, <1>16

LEMMA QuietSame ==
  ASSUME Same, RowsInv, MinutePasses \/ Over \/ UNCHANGED storageVars
  PROVE  Same'
<1>1. UNCHANGED <<area, memory, postgres>> /\ now' \in Nat /\ now <= now'
  BY DEF Same, MinutePasses, Over, storageVars
<1>2. CallsAgree'
  BY DEF Same, CallsAgree, MinutePasses, Over, storageVars, Silent
<1>3. Leaves(memory, memory', {}, Stores) /\ Leaves(postgres, postgres', {}, Tables)
  BY <1>1 DEF Leaves, Same, RowsInv, RowsShaped
<1> QED BY <1>1, <1>2, <1>3, Kept DEF Same, Waits

-----------------------------------------------------------------------------
(* The world *)

LEMMA WorldKeeps ==
  ASSUME Same, RowsInv, SaveWorld \/ \E amount \in 0..Target : AddGuildProgress(amount)
  PROVE  Same'
<1> DEFINE w == memory.world
<1>1. /\ w = postgres.world /\ Row(w, {"beat", "cycle", "progress", "target"})
      /\ w.cycle \in Nat /\ w.progress \in Nat /\ w.target \in Nat
  BY DEF Same, WorldSame
<1>2. Target \in Nat
  BY StorageAssumption DEF StorageAssumption
<1>3. Waits
  <2>1. now \in Nat
    BY DEF Same
  <2>2. UNCHANGED <<area, now>>
    BY DEF SaveWorld, AddGuildProgress, Working
  <2> QED BY <2>1, <2>2 DEF Waits
<1>4. /\ Leaves(memory, memory', {"world"}, Stores) /\ Leaves(postgres, postgres', {"world"}, Tables)
      /\ WorldSame' /\ CallsAgree'
  <2>1. CASE SaveWorld
    <3>1. memory'.world = [w EXCEPT !.beat = @ + 1] /\ postgres'.world = [w EXCEPT !.beat = @ + 1]
      BY <1>1, <2>1 DEF SaveWorld, Same, RowsInv, RowsShaped, Row, Stores, Tables
    <3>2. Leaves(memory, memory', {"world"}, Stores) /\ Leaves(postgres, postgres', {"world"}, Tables)
      BY <2>1 DEF SaveWorld, Same, RowsInv, RowsShaped, Row, Stores, Tables, Leaves
    <3> HIDE DEF w
    <3>3. WorldSame'
      BY <1>1, <3>1 DEF WorldSame, Row
    <3> QED BY <2>1, <3>2, <3>3 DEF SaveWorld, Silent, CallsAgree
  <2>2. ASSUME NEW amount \in 0..Target, AddGuildProgress(amount)
        PROVE  /\ Leaves(memory, memory', {"world"}, Stores) /\ Leaves(postgres, postgres', {"world"}, Tables)
               /\ WorldSame' /\ CallsAgree'
    <3> DEFINE m == MemoryProgress(w, amount)
               p == PostgresProgress(w, amount)
    <3>1. memory' = [memory EXCEPT !.world = m.world] /\ postgres' = [postgres EXCEPT !.world = p.world]
          /\ Told({m.answer}, {p.answer})
      BY <1>1, <2>2 DEF AddGuildProgress
    <3> HIDE DEF w
    <3>2. m = p /\ Row(m.world, {"beat", "cycle", "progress", "target"})
          /\ m.world.cycle \in Nat /\ m.world.progress \in Nat /\ m.world.target \in Nat
      <4>1. amount \in Nat /\ \A c \in Nat : ObjectiveOf(c) \in Nat
        BY <1>2 DEF ObjectiveOf
      <4> DEFINE meets == w.progress + amount >= w.target
                 new   == [w EXCEPT !.progress = IF meets THEN 0 ELSE @ + amount,
                                    !.cycle    = IF meets THEN @ + 1 ELSE @,
                                    !.target   = IF meets THEN ObjectiveOf(w.cycle + 1) ELSE @]
                 rolled == new.cycle > w.cycle
      <4>2. p = [world  |-> new,
                 answer |-> [cycle |-> IF rolled THEN new.cycle - 1 ELSE new.cycle, completed |-> rolled]]
        BY DEF PostgresProgress
      <4>3. new.cycle = IF meets THEN w.cycle + 1 ELSE w.cycle
        BY <1>1 DEF Row
      <4>4. Row(new, {"beat", "cycle", "progress", "target"})
            /\ new.cycle \in Nat /\ new.progress \in Nat /\ new.target \in Nat
        <5>1. new.progress = (IF meets THEN 0 ELSE w.progress + amount)
              /\ new.target = (IF meets THEN ObjectiveOf(w.cycle + 1) ELSE w.target)
          BY <1>1 DEF Row
        <5>2. Row(new, {"beat", "cycle", "progress", "target"})
          BY <1>1 DEF Row
        <5> HIDE DEF new, meets
        <5> QED BY <1>1, <4>1, <4>3, <5>1, <5>2
      <4>5. CASE w.progress + amount < w.target
        <5>1. ~meets
          BY <1>1, <4>1, <4>5
        <5>2. m = [world |-> new, answer |-> [cycle |-> w.cycle, completed |-> FALSE]]
          <6>1. new = [w EXCEPT !.progress = @ + amount]
            BY <1>1, <5>1 DEF Row
          <6> HIDE DEF new
          <6> QED BY <4>5, <6>1 DEF MemoryProgress
        <5> HIDE DEF new, meets
        <5>3. ~rolled
          BY <1>1, <4>3, <5>1
        <5>4. rolled = FALSE
          <6>1. rolled \in BOOLEAN
            OBVIOUS
          <6> HIDE DEF rolled
          <6> QED BY <5>3, <6>1
        <5>5. new.cycle = w.cycle
          BY <4>3, <5>1
        <5> HIDE DEF rolled, m, p
        <5>6. m = p
          BY <4>2, <5>2, <5>4, <5>5
        <5>7. m.world = new
          BY <5>2
        <5> QED BY <4>4, <5>6, <5>7
      <4>6. CASE ~(w.progress + amount < w.target)
        <5>1. meets
          BY <1>1, <4>1, <4>6
        <5>2. m = [world |-> new, answer |-> [cycle |-> w.cycle, completed |-> TRUE]]
          <6>1. new = [w EXCEPT !.cycle = @ + 1, !.progress = 0, !.target = ObjectiveOf(w.cycle + 1)]
            BY <1>1, <5>1 DEF Row
          <6> HIDE DEF new
          <6> QED BY <4>6, <6>1 DEF MemoryProgress
        <5> HIDE DEF new, meets
        <5>3. rolled
          BY <1>1, <4>3, <5>1
        <5>4. rolled = TRUE
          <6>1. rolled \in BOOLEAN
            OBVIOUS
          <6> HIDE DEF rolled
          <6> QED BY <5>3, <6>1
        <5>5. new.cycle - 1 = w.cycle
          BY <1>1, <4>3, <5>1
        <5> HIDE DEF rolled, m, p
        <5>6. m = p
          BY <4>2, <5>2, <5>4, <5>5
        <5>7. m.world = new
          BY <5>2
        <5> QED BY <4>4, <5>6, <5>7
      <4> QED BY <4>5, <4>6
    <3> HIDE DEF m, p
    <3>3. memory'.world = m.world /\ postgres'.world = p.world
      BY <3>1 DEF Same, RowsInv, RowsShaped, Row, Stores, Tables
    <3>4. Leaves(memory, memory', {"world"}, Stores) /\ Leaves(postgres, postgres', {"world"}, Tables)
      BY <3>1 DEF Same, RowsInv, RowsShaped, Row, Stores, Tables, Leaves
    <3> QED BY <3>1, <3>2, <3>3, <3>4 DEF Told, CallsAgree, WorldSame
  <2> QED BY <2>1, <2>2
<1> QED BY <1>3, <1>4, Kept DEF Same

-----------------------------------------------------------------------------
(* Tokens *)

LEMMA SameSize ==
  ASSUME NEW S, IsFiniteSet(S), NEW T, NEW f, f \in [S -> T],
         \A x, y \in S : f[x] = f[y] => x = y, \A t \in T : \E x \in S : f[x] = t
  PROVE  Cardinality(S) = Cardinality(T)
<1>1. f \in Bijection(S, T)
  BY DEF Bijection, Injection, Surjection, IsInjective
<1>2. ExistsBijection(S, T)
  BY <1>1 DEF ExistsBijection
<1> QED BY <1>2, FS_Bijection

LEMMA TokensKeep ==
  ASSUME Same, RowsInv,
         \/ \E a \in Accounts, t \in Tokens : SavePushToken(a, t)
         \/ \E ts \in SUBSET Tokens : DeletePushTokens(ts)
  PROVE  Same'
<1> DEFINE tokens == memory.tokens
           R == postgres.tokens
<1>1. R = {[token |-> t, account |-> tokens[t]] : t \in DOMAIN tokens}
  BY DEF Same, TokensSame
<1>2. Waits /\ CallsAgree'
  <2>1. now \in Nat
    BY DEF Same
  <2>2. UNCHANGED <<area, now>> /\ Silent
    BY DEF SavePushToken, DeletePushTokens, Working
  <2> QED BY <2>1, <2>2 DEF Waits, Silent, CallsAgree
<1>3. /\ Leaves(memory, memory', {"tokens"}, Stores) /\ Leaves(postgres, postgres', {"tokens"}, Tables)
      /\ TokensSame'
  <2>1. ASSUME NEW a \in Accounts, NEW t \in Tokens, SavePushToken(a, t)
        PROVE  /\ Leaves(memory, memory', {"tokens"}, Stores) /\ Leaves(postgres, postgres', {"tokens"}, Tables)
               /\ TokensSame'
    <3> DEFINE news == [x \in DOMAIN tokens \cup {t} |-> IF x = t THEN a ELSE tokens[x]]
               rows == {r \in R : ~(r.token = t)} \cup {[token |-> t, account |-> a]}
    <3>1. memory' = [memory EXCEPT !.tokens = news] /\ postgres' = [postgres EXCEPT !.tokens = rows]
      BY <2>1 DEF SavePushToken, MemoryRegister, PostgresRegister, Upsert
    <3>2. rows = {[token |-> x, account |-> news[x]] : x \in DOMAIN news}
      <4> HIDE DEF tokens, R
      <4>1. ASSUME NEW r \in rows PROVE \E x \in DOMAIN news : r = [token |-> x, account |-> news[x]]
        <5>1. CASE r = [token |-> t, account |-> a]
          BY <5>1
        <5>2. CASE r \in R /\ r.token # t
          <6>1. PICK x \in DOMAIN tokens : r = [token |-> x, account |-> tokens[x]]
            BY <1>1, <5>2
          <6>2. x # t
            BY <5>2, <6>1
          <6> QED BY <6>1, <6>2
        <5> QED BY <4>1, <5>1, <5>2
      <4>2. ASSUME NEW x \in DOMAIN news PROVE [token |-> x, account |-> news[x]] \in rows
        <5>1. CASE x = t
          BY <5>1
        <5>2. CASE x # t
          <6>1. news[x] = tokens[x] /\ x \in DOMAIN tokens
            BY <4>2, <5>2
          <6>2. [token |-> x, account |-> tokens[x]] \in R
            BY <1>1, <6>1
          <6> QED BY <5>2, <6>1, <6>2
        <5> QED BY <5>1, <5>2
      <4> HIDE DEF rows, news
      <4> QED BY <4>1, <4>2
    <3> HIDE DEF news, rows, tokens, R
    <3>3. memory'.tokens = news /\ postgres'.tokens = rows
      BY <3>1 DEF Same, RowsInv, RowsShaped, Row, Stores, Tables
    <3>4. Leaves(memory, memory', {"tokens"}, Stores) /\ Leaves(postgres, postgres', {"tokens"}, Tables)
      BY <3>1 DEF Same, RowsInv, RowsShaped, Row, Stores, Tables, Leaves
    <3> QED BY <3>2, <3>3, <3>4 DEF TokensSame
  <2>2. ASSUME NEW ts, DeletePushTokens(ts)
        PROVE  /\ Leaves(memory, memory', {"tokens"}, Stores) /\ Leaves(postgres, postgres', {"tokens"}, Tables)
               /\ TokensSame'
    <3> DEFINE news == [x \in DOMAIN tokens \ ts |-> tokens[x]]
               rows == {r \in R : r.token \notin ts}
    <3>1. memory' = [memory EXCEPT !.tokens = news] /\ postgres' = [postgres EXCEPT !.tokens = rows]
      BY <2>2 DEF DeletePushTokens, MemoryForget, PostgresForget
    <3>2. rows = {[token |-> x, account |-> news[x]] : x \in DOMAIN news}
      <4> HIDE DEF tokens, R
      <4>1. ASSUME NEW r \in rows PROVE \E x \in DOMAIN news : r = [token |-> x, account |-> news[x]]
        <5>1. PICK x \in DOMAIN tokens : r = [token |-> x, account |-> tokens[x]]
          BY <1>1, <4>1
        <5>2. x \notin ts
          BY <4>1, <5>1
        <5> QED BY <5>1, <5>2
      <4>2. ASSUME NEW x \in DOMAIN news PROVE [token |-> x, account |-> news[x]] \in rows
        <5>1. [token |-> x, account |-> tokens[x]] \in R /\ news[x] = tokens[x] /\ x \notin ts
          BY <1>1, <4>2
        <5> QED BY <5>1
      <4> HIDE DEF rows, news
      <4> QED BY <4>1, <4>2
    <3> HIDE DEF news, rows, tokens, R
    <3>3. memory'.tokens = news /\ postgres'.tokens = rows
      BY <3>1 DEF Same, RowsInv, RowsShaped, Row, Stores, Tables
    <3>4. Leaves(memory, memory', {"tokens"}, Stores) /\ Leaves(postgres, postgres', {"tokens"}, Tables)
      BY <3>1 DEF Same, RowsInv, RowsShaped, Row, Stores, Tables, Leaves
    <3> QED BY <3>2, <3>3, <3>4 DEF TokensSame
  <2> QED BY <2>1, <2>2
<1> QED BY <1>2, <1>3, Kept DEF Same

-----------------------------------------------------------------------------
(* Sends *)

LEMMA MayClaimSame ==
  ASSUME Same, NEW a \in DOMAIN memory.sends, NEW event
  PROVE  MemoryMayClaim(a, event) <=> PostgresMayClaim(a, event)
<1> DEFINE sent == memory.sends[a]
           mine == {s \in postgres.sends : s.account = a}
           S == {e \in DOMAIN sent : sent[e] > now - Day}
           T == {s \in mine : s.at > now - Day}
           f == [e \in S |-> [account |-> a, event |-> e, at |-> sent[e]]]
<1>1. /\ IsFiniteSet(DOMAIN sent)
      /\ mine = {[account |-> a, event |-> e, at |-> sent[e]] : e \in DOMAIN sent}
  BY DEF Same, SendsSame
<1> HIDE DEF sent, mine
<1>2. event \notin DOMAIN sent <=> \A s \in mine : s.event # event
  <2>1. ASSUME NEW s \in mine, event \notin DOMAIN sent PROVE s.event # event
    <3>1. PICK e \in DOMAIN sent : s = [account |-> a, event |-> e, at |-> sent[e]]
      BY <1>1
    <3> QED BY <2>1, <3>1
  <2>2. ASSUME event \in DOMAIN sent PROVE ~\A s \in mine : s.event # event
    <3>1. [account |-> a, event |-> event, at |-> sent[event]] \in mine
      BY <1>1, <2>2
    <3> QED BY <3>1
  <2> QED BY <2>1, <2>2
<1>3. Cardinality(S) = Cardinality(T)
  <2>1. IsFiniteSet(S)
    <3>1. S \in SUBSET DOMAIN sent
      OBVIOUS
    <3> HIDE DEF S
    <3> QED BY <1>1, <3>1, FS_Subset, Zenon
  <2>2. f \in [S -> T]
    BY <1>1
  <2>3. \A x, y \in S : f[x] = f[y] => x = y
    OBVIOUS
  <2>4. ASSUME NEW t \in T PROVE \E x \in S : f[x] = t
    <3>1. PICK e \in DOMAIN sent : t = [account |-> a, event |-> e, at |-> sent[e]]
      BY <1>1
    <3>2. e \in S
      BY <3>1
    <3> QED BY <3>1, <3>2
  <2> HIDE DEF S, T, f
  <2> QED BY <2>1, <2>2, <2>3, <2>4, SameSize
<1>4. MemoryMayClaim(a, event) <=> event \notin DOMAIN sent /\ Cardinality(S) < Cap
  BY DEF MemoryMayClaim, sent
<1>5. PostgresMayClaim(a, event) <=> (\A s \in mine : s.event # event) /\ Cardinality(T) < Cap
  BY DEF PostgresMayClaim, mine
<1> HIDE DEF S, T
<1> QED BY <1>2, <1>3, <1>4, <1>5

LEMMA ClaimsKeep ==
  ASSUME Same, RowsInv, NEW a \in Accounts, NEW event \in Events, ClaimPushSend(a, event)
  PROVE  Same'
<1> DEFINE sends == memory.sends
           R == postgres.sends
           new == [account |-> a, event |-> event, at |-> now]
           mine == [e \in DOMAIN sends[a] \cup {event} |-> IF e = event THEN now ELSE sends[a][e]]
<1>1. Waits /\ area = "push"
  <2>1. now \in Nat
    BY DEF Same
  <2>2. UNCHANGED <<area, now>> /\ area = "push"
    BY DEF ClaimPushSend, Working
  <2> QED BY <2>1, <2>2 DEF Waits
<1>2. a \in DOMAIN sends /\ DOMAIN sends = Accounts
  BY <1>1 DEF Same, SendsSame
<1>3. MemoryMayClaim(a, event) <=> PostgresMayClaim(a, event)
  BY <1>2, MayClaimSame
<1>4. CallsAgree'
  <2> DEFINE m == MemoryMayClaim(a, event)
             p == PostgresMayClaim(a, event)
  <2>1. told' = [memory |-> {m}, postgres |-> {p}]
    BY DEF ClaimPushSend, Told
  <2>2. m \in BOOLEAN /\ p \in BOOLEAN
    BY DEF MemoryMayClaim, PostgresMayClaim
  <2>3. m = p
    <3> HIDE DEF m, p
    <3>1. m <=> p
      BY <1>3 DEF m, p
    <3> QED BY <2>2, <3>1
  <2> HIDE DEF m, p
  <2> QED BY <2>1, <2>3 DEF CallsAgree
<1>5. /\ Leaves(memory, memory', {"sends"}, Stores) /\ Leaves(postgres, postgres', {"sends"}, Tables)
      /\ SendsSame'
  <2>1. CASE ~MemoryMayClaim(a, event)
    <3>1. memory' = memory /\ postgres' = postgres
      BY <1>3, <2>1 DEF ClaimPushSend
    <3>2. SendsSame'
      BY <1>1, <3>1 DEF Same, SendsSame, Accounts, Waits
    <3> QED BY <3>1, <3>2 DEF Leaves, Same, RowsInv, RowsShaped
  <2>2. CASE MemoryMayClaim(a, event)
    <3>1. memory' = [memory EXCEPT !.sends = [sends EXCEPT ![a] = mine]]
      BY <2>2 DEF ClaimPushSend
    <3>2. postgres' = [postgres EXCEPT !.sends = R \cup {new}]
      BY <1>3, <2>2 DEF ClaimPushSend
    <3>3. memory'.sends = [sends EXCEPT ![a] = mine] /\ postgres'.sends = R \cup {new}
          /\ postgres'.accounts = postgres.accounts
      BY <3>1, <3>2 DEF Same, RowsInv, RowsShaped, Row, Stores, Tables
    <3>4. Leaves(memory, memory', {"sends"}, Stores) /\ Leaves(postgres, postgres', {"sends"}, Tables)
      BY <3>1, <3>2 DEF Same, RowsInv, RowsShaped, Row, Stores, Tables, Leaves
    <3>5. event \notin DOMAIN sends[a]
      BY <2>2 DEF MemoryMayClaim
    <3>6. Accounts' = Accounts
      BY <3>3 DEF Accounts
    <3>7. \A b \in DOMAIN sends :
            /\ IsFiniteSet(DOMAIN sends[b])
            /\ {s \in R : s.account = b} = {[account |-> b, event |-> e, at |-> sends[b][e]] : e \in DOMAIN sends[b]}
      BY DEF Same, SendsSame
    <3> DEFINE sends2 == [sends EXCEPT ![a] = mine]
               R2 == R \cup {new}
    <3>8. ASSUME NEW b \in DOMAIN sends
          PROVE  /\ IsFiniteSet(DOMAIN sends2[b])
                 /\ {s \in R2 : s.account = b} = {[account |-> b, event |-> e, at |-> sends2[b][e]] : e \in DOMAIN sends2[b]}
      <4> HIDE DEF sends, R
      <4>1. CASE b # a
        <5>1. sends2[b] = sends[b]
          BY <4>1
        <5>2. {s \in R2 : s.account = b} = {s \in R : s.account = b}
          BY <4>1
        <5> HIDE DEF mine, sends2, R2, new
        <5> QED BY <3>7, <5>1, <5>2
      <4>2. CASE b = a
        <5>1. sends2[b] = mine /\ DOMAIN mine = DOMAIN sends[a] \cup {event}
          BY <4>2
        <5>2. IsFiniteSet(DOMAIN sends[a] \cup {event})
          BY <1>2, <3>7, FS_AddElement
        <5>3. {s \in R2 : s.account = b} = {s \in R : s.account = a} \cup {new}
          BY <4>2
        <5>4. {[account |-> b, event |-> e, at |-> mine[e]] : e \in DOMAIN mine}
                = {[account |-> a, event |-> e, at |-> sends[a][e]] : e \in DOMAIN sends[a]} \cup {new}
          BY <3>5, <4>2
        <5> HIDE DEF mine, sends2, R2, new
        <5> QED BY <1>2, <3>7, <5>1, <5>2, <5>3, <5>4
      <4> QED BY <4>1, <4>2
    <3>9. DOMAIN sends2 = DOMAIN sends
      OBVIOUS
    <3> HIDE DEF sends, R, sends2, R2
    <3>10. memory'.sends = sends2 /\ postgres'.sends = R2
      BY <3>3 DEF sends2, R2
    <3>11. SendsSame'
      BY <1>1, <1>2, <3>6, <3>8, <3>9, <3>10 DEF SendsSame, Waits
    <3> QED BY <3>4, <3>11
  <2> QED BY <2>1, <2>2
<1> QED BY <1>1, <1>4, <1>5, Kept DEF Same

-----------------------------------------------------------------------------
(* Rows written in their places *)

LEMMA HeldInPlace ==
  ASSUME NEW e, NEW R, Holds(e, R), NEW e2, NEW R2, e2 = [i \in DOMAIN e |-> e2[i]],
         \A i \in DOMAIN e : e2[i] \in R2, \A r \in R2 : \E i \in DOMAIN e : r = e2[i]
  PROVE  Holds(e2, R2) /\ Len(e2) = Len(e) /\ DOMAIN e2 = DOMAIN e
<1> DEFINE n == Len(e)
<1>1. n \in Nat /\ DOMAIN e = 1..n
  BY HeldIs
<1> HIDE DEF n
<1>2. R2 = {e2[i] : i \in 1..n}
  BY <1>1
<1>3. Holds(e2, {e2[i] : i \in 1..n}) /\ Len(e2) = n
  BY <1>1, HeldMap
<1> QED BY <1>1, <1>2, <1>3 DEF n

LEMMA HeldIds ==
  ASSUME NEW e, NEW R, Holds(e, R), Numbers(e)
  PROVE  /\ IsFiniteSet(R) /\ Cardinality(R) = Len(e) /\ Len(e) \in Nat
         /\ {r.id : r \in R} = 1..Len(e)
<1>1. /\ Len(e) \in Nat /\ DOMAIN e = 1..Len(e) /\ \A i \in DOMAIN e : e[i] \in R /\ e[i].id = i
      /\ \A r \in R : \E i \in DOMAIN e : r = e[i]
  BY HeldIs DEF Numbers
<1>2. {r.id : r \in R} = 1..Len(e)
  <2>1. \A i \in 1..Len(e) : i \in {r.id : r \in R}
    BY <1>1
  <2>2. \A r \in R : r.id \in 1..Len(e)
    BY <1>1
  <2> QED BY <2>1, <2>2
<1> QED BY <1>1, <1>2, RecruitsCounted

LEMMA SeenKeeps ==
  ASSUME Same, RowsInv, NEW a \in Accounts, TouchAccountSeen(a) \/ MarkAway(a)
  PROVE  Same'
<1>1. Waits /\ CallsAgree'
  <2>1. now \in Nat
    BY DEF Same
  <2>2. UNCHANGED <<area, now>> /\ Silent
    BY DEF TouchAccountSeen, MarkAway, Working
  <2> QED BY <2>1, <2>2 DEF Waits, Silent, CallsAgree
<1>2. PICK at \in Int : memory' = MemorySeen(memory, a, at) /\ postgres' = PostgresSeen(postgres, a, at)
  <2>1. now \in Int /\ now - Away - 1 \in Int
    BY StorageAssumption DEF Same, StorageAssumption
  <2> QED BY <2>1 DEF TouchAccountSeen, MarkAway
<1> DEFINE e == memory.accounts
           R == postgres.accounts
           e2 == [e EXCEPT ![a] = [e[a] EXCEPT !.seen = at]]
           R2 == {IF r.id = a THEN [r EXCEPT !.seen = at] ELSE r : r \in R}
<1>3. memory' = [memory EXCEPT !.accounts = e2] /\ postgres' = [postgres EXCEPT !.accounts = R2]
  BY <1>2 DEF MemorySeen, PostgresSeen
<1>4. memory'.accounts = e2 /\ postgres'.accounts = R2
  BY <1>3 DEF Same, RowsInv, RowsShaped, Row, Stores, Tables
<1>5. Leaves(memory, memory', {"accounts"}, Stores) /\ Leaves(postgres, postgres', {"accounts"}, Tables)
  BY <1>3 DEF Same, RowsInv, RowsShaped, Row, Stores, Tables, Leaves
<1>6. /\ Len(e) \in Nat /\ DOMAIN e = 1..Len(e) /\ \A i \in DOMAIN e : e[i] \in R /\ e[i].id = i
      /\ \A r \in R : \E i \in DOMAIN e : r = e[i]
      /\ a \in DOMAIN e /\ Holds(e, R) /\ Numbers(e)
  BY HeldIs, AccountIds DEF Same, AccountsSame, Numbers
<1>7. \A r \in R : r.seen \in Int /\ Row(r, AccountColumns)
  BY DEF Same, AccountsSame, RowsInv, RowsShaped
<1>8. DOMAIN e2 = DOMAIN e /\ \A i \in DOMAIN e : e2[i] = IF i = a THEN [e[i] EXCEPT !.seen = at] ELSE e[i]
  OBVIOUS
<1>9. \A r \in R : /\ [r EXCEPT !.seen = at].seen = at
                   /\ [r EXCEPT !.seen = at].id = r.id
  BY <1>7 DEF Row, AccountColumns
<1>10. Holds(e2, R2) /\ Len(e2) = Len(e)
  <2>1. e2 = [i \in DOMAIN e |-> e2[i]]
    OBVIOUS
  <2>2. ASSUME NEW i \in DOMAIN e PROVE e2[i] \in R2
    <3>1. e2[i] = IF e[i].id = a THEN [e[i] EXCEPT !.seen = at] ELSE e[i]
      BY <1>6, <1>8
    <3> HIDE DEF e2, e
    <3> QED BY <1>6, <3>1
  <2>3. ASSUME NEW r \in R2 PROVE \E i \in DOMAIN e : r = e2[i]
    <3>1. PICK q \in R : r = IF q.id = a THEN [q EXCEPT !.seen = at] ELSE q
      BY <2>3
    <3>2. PICK i \in DOMAIN e : q = e[i]
      BY <1>6
    <3> HIDE DEF e2, e
    <3> QED BY <1>6, <1>8, <3>1, <3>2
  <2> HIDE DEF e, R, e2, R2
  <2> QED BY <1>6, <2>1, <2>2, <2>3, HeldInPlace
<1>11. Numbers(e2)
  <2> HIDE DEF e2, e, R
  <2> QED BY <1>6, <1>8, <1>9 DEF Numbers
<1>12. \A r \in R2 : r.seen \in Int
  <2> SUFFICES ASSUME NEW q \in R PROVE (IF q.id = a THEN [q EXCEPT !.seen = at] ELSE q).seen \in Int
    OBVIOUS
  <2> HIDE DEF R, e, e2
  <2> QED BY <1>2, <1>7, <1>9
<1> HIDE DEF e, R, e2, R2
<1>13. AccountsSame'
  BY <1>4, <1>10, <1>11, <1>12 DEF AccountsSame
<1>14. Cardinality(R2) = Cardinality(R) /\ {r.id : r \in R2} = {r.id : r \in R}
  <2>1. Cardinality(R2) = Len(e2) /\ {r.id : r \in R2} = 1..Len(e2)
    BY <1>10, <1>11, HeldIds
  <2>2. Cardinality(R) = Len(e) /\ {r.id : r \in R} = 1..Len(e)
    BY <1>6, HeldIds
  <2> QED BY <1>10, <2>1, <2>2
<1>15. Accounts' = Accounts /\ Cardinality(postgres.accounts)' = Cardinality(postgres.accounts)
  BY <1>4, <1>14 DEF Accounts, R
<1>16. \A x \in Tables \ {"accounts"} : memory'[x] = memory[x] /\ postgres'[x] = postgres[x]
  BY <1>5 DEF Leaves, Stores
<1>17. area' = area /\ now \in Nat /\ now' \in Nat /\ now <= now'
  BY <1>1 DEF Waits, Same
<1>18. SendsSame'
  <2>1. memory'.sends = memory.sends /\ postgres'.sends = postgres.sends
    BY <1>16 DEF Tables
  <2> QED BY <1>15, <1>17, <2>1 DEF Same, SendsSame
<1>19. KeysSame'
  <2>1. memory'.keys = memory.keys /\ postgres'.keys = postgres.keys
    BY <1>16 DEF Tables
  <2> QED BY <1>15, <1>17, <2>1 DEF Same, KeysSame
<1>20. DeathsSame'
  <2>1. memory'.deaths = memory.deaths /\ postgres'.deaths = postgres.deaths
    BY <1>16 DEF Tables
  <2> QED BY <1>15, <1>17, <2>1 DEF Same, DeathsSame
<1> QED BY <1>1, <1>5, <1>13, <1>18, <1>19, <1>20, Kept DEF Same

-----------------------------------------------------------------------------
(* Idempotency keys *)

LEMMA KeysKept ==
  ASSUME Same, Waits, Leaves(memory, memory', {"keys"}, Stores), Leaves(postgres, postgres', {"keys"}, Tables),
         KeysSame', CallsAgree'
  PROVE  Same'
BY Kept DEF Same

LEMMA KeysWritten ==
  ASSUME Same, RowsInv, UNCHANGED <<area, now>>, NEW held, NEW rows,
         memory' = [memory EXCEPT !.keys = held], postgres' = [postgres EXCEPT !.keys = rows],
         DOMAIN held = DOMAIN memory.keys, \A k \in rows : k.account \in DOMAIN held,
         \A a \in DOMAIN held : KeyHeld(held[a], a, rows), CallsAgree'
  PROVE  Same'
<1>1. memory'.keys = held /\ postgres'.keys = rows /\ postgres'.accounts = postgres.accounts
  BY DEF Same, RowsInv, RowsShaped, Row, Stores, Tables
<1>2. Leaves(memory, memory', {"keys"}, Stores) /\ Leaves(postgres, postgres', {"keys"}, Tables)
  BY DEF Same, RowsInv, RowsShaped, Row, Stores, Tables, Leaves
<1>3. Waits
  <2>1. now \in Nat
    BY DEF Same
  <2> QED BY <2>1 DEF Waits
<1>4. area = "keys" => DOMAIN held = Accounts
  BY DEF Same, KeysSame
<1>5. KeysSame'
  BY <1>1, <1>4 DEF KeysSame, Accounts
<1> QED BY <1>2, <1>3, <1>5, KeysKept

LEMMA KeysOf ==
  ASSUME Same, area = "keys"
  PROVE  /\ DOMAIN memory.keys = Accounts /\ \A k \in postgres.keys : k.account \in Accounts
         /\ \A a \in Accounts : KeyHeld(memory.keys[a], a, postgres.keys)
BY DEF Same, KeysSame

(* Where the key of one account is written, those of the others are held.  *)
LEMMA OthersHeld ==
  ASSUME NEW held, NEW a, NEW b, b # a, NEW rows, KeyHeld(held, b, rows),
         NEW after, \A k \in rows : k.account # a => k \in after,
         \A k \in after : k.account # a => k \in rows
  PROVE  KeyHeld(held, b, after)
<1>1. CASE held = <<>> /\ \A k \in rows : k.account # b
  BY <1>1 DEF KeyHeld
<1>2. ASSUME NEW k \in rows, held = <<k>>, \A j \in rows : j.account = b => j = k, Row(k, KeyColumns), k.account = b
      PROVE  KeyHeld(held, b, after)
  <2>1. k \in after /\ \A j \in after : j.account = b => j = k
    BY <1>2
  <2> QED BY <1>2, <2>1 DEF KeyHeld
<1> QED BY <1>1, <1>2 DEF KeyHeld

LEMMA ReleaseKeeps ==
  ASSUME Same, RowsInv, NEW a \in Accounts, ReleaseIdempotent(a)
  PROVE  Same'
<1> DEFINE keys == memory.keys
           R == postgres.keys
           held == [keys EXCEPT ![a] = <<>>]
           rows == {k \in R : k.account # a}
<1>1. UNCHANGED <<area, now>> /\ area = "keys" /\ CallsAgree'
  BY DEF ReleaseIdempotent, Working, Silent, CallsAgree
<1>2. memory' = [memory EXCEPT !.keys = held] /\ postgres' = [postgres EXCEPT !.keys = rows]
  BY DEF ReleaseIdempotent
<1>3. DOMAIN keys = Accounts /\ (\A k \in R : k.account \in Accounts) /\ \A b \in Accounts : KeyHeld(keys[b], b, R)
  BY <1>1, KeysOf
<1>4. DOMAIN held = DOMAIN keys /\ \A k \in rows : k.account \in DOMAIN held
  BY <1>3
<1>5. ASSUME NEW b \in DOMAIN held PROVE KeyHeld(held[b], b, rows)
  <2> HIDE DEF keys, R
  <2>1. CASE b = a
    BY <1>3, <1>5, <2>1 DEF KeyHeld
  <2>2. CASE b # a
    <3>1. held[b] = keys[b] /\ KeyHeld(keys[b], b, R)
      BY <1>3, <1>4, <2>2
    <3>2. (\A k \in R : k.account # a => k \in rows) /\ \A k \in rows : k.account # a => k \in R
      OBVIOUS
    <3> HIDE DEF held, rows
    <3> QED BY <2>2, <3>1, <3>2, OthersHeld
  <2> QED BY <2>1, <2>2
<1> HIDE DEF held, rows
<1> QED BY <1>1, <1>2, <1>4, <1>5, KeysWritten

LEMMA CompleteKeeps ==
  ASSUME Same, RowsInv, NEW a \in Accounts, CompleteIdempotent(a)
  PROVE  Same'
<1> DEFINE keys == memory.keys
           R == postgres.keys
           Done(k) == [k EXCEPT !.done = TRUE]
           held == IF keys[a] = <<>> THEN keys ELSE [keys EXCEPT ![a] = <<Done(keys[a][1])>>]
           rows == {IF k.account = a THEN Done(k) ELSE k : k \in R}
<1>1. UNCHANGED <<area, now>> /\ area = "keys" /\ CallsAgree'
  BY DEF CompleteIdempotent, Working, Silent, CallsAgree
<1>2. DOMAIN keys = Accounts /\ (\A k \in R : k.account \in Accounts) /\ \A b \in Accounts : KeyHeld(keys[b], b, R)
  BY <1>1, KeysOf
<1>3. postgres' = [postgres EXCEPT !.keys = rows]
  BY DEF CompleteIdempotent
<1>4. memory' = [memory EXCEPT !.keys = held]
  <2>1. CASE keys[a] = <<>>
    <3>1. memory' = memory
      BY <2>1 DEF CompleteIdempotent
    <3> QED BY <2>1, <3>1 DEF Same, Row, Stores
  <2>2. CASE keys[a] # <<>>
    <3>1. memory' = [memory EXCEPT !.keys = [keys EXCEPT ![a] = [keys[a] EXCEPT ![1] = Done(keys[a][1])]]]
      BY <2>2 DEF CompleteIdempotent
    <3>2. PICK k \in R : keys[a] = <<k>>
      BY <1>2, <2>2 DEF KeyHeld
    <3>3. keys[a][1] = k /\ [<<k>> EXCEPT ![1] = Done(k)] = <<Done(k)>>
      <4> HIDE DEF keys, Done
      <4> QED BY <3>2
    <3>4. [keys[a] EXCEPT ![1] = Done(keys[a][1])] = <<Done(keys[a][1])>>
      <4> HIDE DEF keys, Done
      <4> QED BY <3>2, <3>3
    <3> QED BY <2>2, <3>1, <3>4
  <2> QED BY <2>1, <2>2
<1>5. \A k : Row(k, KeyColumns) => Row(Done(k), KeyColumns) /\ Done(k).account = k.account
  BY DEF Row, KeyColumns
<1>6. \A k \in R : Row(k, KeyColumns)
  <2> SUFFICES ASSUME NEW k \in R PROVE Row(k, KeyColumns)
    OBVIOUS
  <2>1. KeyHeld(keys[k.account], k.account, R)
    BY <1>2
  <2> HIDE DEF keys, R
  <2> QED BY <2>1 DEF KeyHeld
<1>7. \A k \in rows : \E q \in R : k.account = q.account /\ k = IF q.account = a THEN Done(q) ELSE q
  <2> HIDE DEF keys, R
  <2> SUFFICES ASSUME NEW q \in R PROVE (IF q.account = a THEN Done(q) ELSE q).account = q.account
    OBVIOUS
  <2> HIDE DEF Done
  <2> QED BY <1>5, <1>6
<1>8. DOMAIN held = DOMAIN keys /\ \A k \in rows : k.account \in DOMAIN held
  <2>1. DOMAIN held = DOMAIN keys
    OBVIOUS
  <2> HIDE DEF rows, held
  <2> QED BY <1>2, <1>7, <2>1
<1>9. ASSUME NEW b \in DOMAIN held PROVE KeyHeld(held[b], b, rows)
  <2> HIDE DEF keys, R
  <2>1. CASE b # a
    <3>1. held[b] = keys[b] /\ KeyHeld(keys[b], b, R)
      BY <1>2, <1>8, <2>1
    <3>2. \A k \in R : k.account # a => k \in rows
      OBVIOUS
    <3>3. \A k \in rows : k.account # a => k \in R
      BY <1>7
    <3> HIDE DEF held, rows
    <3> QED BY <2>1, <3>1, <3>2, <3>3, OthersHeld
  <2>2. CASE b = a /\ keys[a] = <<>>
    <3>1. held[b] = <<>> /\ \A k \in R : k.account # a
      BY <1>2, <2>2 DEF KeyHeld
    <3>2. \A k \in rows : k.account # a
      BY <1>7, <3>1
    <3> HIDE DEF held, rows
    <3> QED BY <2>2, <3>1, <3>2 DEF KeyHeld
  <2>3. CASE b = a /\ keys[a] # <<>>
    <3>1. PICK k \in R : keys[a] = <<k>> /\ (\A j \in R : j.account = a => j = k) /\ Row(k, KeyColumns) /\ k.account = a
      BY <1>2, <2>3 DEF KeyHeld
    <3>2. held[b] = <<Done(k)>>
      <4> HIDE DEF Done
      <4>1. keys[a][1] = k /\ a \in DOMAIN keys
        BY <1>2, <3>1
      <4>2. held = [keys EXCEPT ![a] = <<Done(k)>>]
        BY <2>3, <4>1
      <4> QED BY <2>3, <4>1, <4>2
    <3>3. Done(k) \in rows
      BY <3>1
    <3>4. Row(Done(k), KeyColumns) /\ Done(k).account = a
      BY <1>5, <3>1
    <3>5. \A j \in rows : j.account = a => j = Done(k)
      <4> HIDE DEF rows, held, Done
      <4> QED BY <1>7, <3>1
    <3> HIDE DEF held, rows, Done
    <3> QED BY <2>3, <3>2, <3>3, <3>4, <3>5 DEF KeyHeld
  <2> QED BY <2>1, <2>2, <2>3
<1> HIDE DEF held, rows
<1> QED BY <1>1, <1>3, <1>4, <1>8, <1>9, KeysWritten

LEMMA BeginKeeps ==
  ASSUME Same, RowsInv, NEW a \in Accounts, NEW call \in Calls, BeginIdempotent(a, call)
  PROVE  Same'
<1> DEFINE keys == memory.keys
           R == postgres.keys
           new == Reservation(a, call)
           mine == {k \in R : k.account = a}
<1>1. UNCHANGED <<area, now>> /\ area = "keys"
  BY DEF BeginIdempotent, Working
<1>2. DOMAIN keys = Accounts /\ (\A k \in R : k.account \in Accounts) /\ \A b \in Accounts : KeyHeld(keys[b], b, R)
  BY <1>1, KeysOf
<1>3. /\ memory' = MemoryBegin(memory, a, call) /\ postgres' = PostgresBegin(postgres, a, call)
      /\ Told({[verdict |-> IF keys[a] = <<>> THEN "fresh" ELSE Verdict(keys[a][1], call)]},
              IF mine = {} THEN {[verdict |-> "fresh"]} ELSE {[verdict |-> Verdict(k, call)] : k \in mine})
  BY DEF BeginIdempotent
<1>4. CASE keys[a] = <<>> /\ \A k \in R : k.account # a
  <2> DEFINE held == [keys EXCEPT ![a] = <<new>>]
             rows == R \cup {new}
  <2>1. memory' = [memory EXCEPT !.keys = held]
    BY <1>3, <1>4 DEF MemoryBegin
  <2>2. postgres' = [postgres EXCEPT !.keys = rows]
    BY <1>3, <1>4 DEF PostgresBegin
  <2>3. mine = {}
    BY <1>4
  <2>4. CallsAgree'
    BY <1>3, <1>4, <2>3 DEF Told, CallsAgree
  <2>5. Row(new, KeyColumns) /\ new.account = a
    BY DEF Reservation, Row, KeyColumns
  <2> HIDE DEF new, keys, R, mine
  <2>6. DOMAIN held = DOMAIN keys /\ \A k \in rows : k.account \in DOMAIN held
    BY <1>2, <2>5
  <2>7. ASSUME NEW b \in DOMAIN held PROVE KeyHeld(held[b], b, rows)
    <3>1. CASE b = a
      <4>1. held[b] = <<new>> /\ new \in rows /\ \A j \in rows : j.account = a => j = new
        BY <1>2, <1>4, <3>1
      <4> QED BY <2>5, <3>1, <4>1 DEF KeyHeld
    <3>2. CASE b # a
      <4>1. held[b] = keys[b] /\ KeyHeld(keys[b], b, R)
        BY <1>2, <2>6, <3>2
      <4>2. (\A k \in R : k.account # a => k \in rows) /\ \A k \in rows : k.account # a => k \in R
        BY <2>5
      <4> HIDE DEF held, rows
      <4> QED BY <3>2, <4>1, <4>2, OthersHeld
    <3> QED BY <3>1, <3>2
  <2> HIDE DEF held, rows
  <2> QED BY <1>1, <2>1, <2>2, <2>4, <2>6, <2>7, KeysWritten DEF keys
<1>5. ASSUME NEW k \in R, keys[a] = <<k>>, \A j \in R : j.account = a => j = k, Row(k, KeyColumns), k.account = a
      PROVE  Same'
  <2> DEFINE q == Reclaimed(k, call)
             held == [keys EXCEPT ![a] = <<q>>]
             rows == {IF j.account = a THEN Reclaimed(j, call) ELSE j : j \in R}
  <2>1. memory' = [memory EXCEPT !.keys = held]
    <3>1. keys[a] # <<>> /\ keys[a][1] = k
      BY <1>5
    <3> QED BY <1>3, <3>1 DEF MemoryBegin
  <2>2. postgres' = [postgres EXCEPT !.keys = rows]
    BY <1>3, <1>5 DEF PostgresBegin
  <2>3. mine = {k}
    BY <1>5
  <2>4. CallsAgree'
    <3>1. keys[a] # <<>> /\ keys[a][1] = k
      BY <1>5
    <3> HIDE DEF mine, keys
    <3>2. told' = [memory |-> {[verdict |-> Verdict(k, call)]}, postgres |-> {[verdict |-> Verdict(k, call)]}]
      BY <1>3, <2>3, <3>1 DEF Told
    <3> QED BY <3>2 DEF CallsAgree
  <2>5. Row(q, KeyColumns) /\ q.account = a
    BY <1>5 DEF Reclaimed, Row, KeyColumns
  <2>6. \A j \in rows : j = q \/ (j \in R /\ j.account # a)
    BY <1>5
  <2>7. q \in rows /\ \A j \in R : j.account # a => j \in rows
    BY <1>5
  <2> HIDE DEF q, keys, R, mine, rows
  <2>8. DOMAIN held = DOMAIN keys /\ \A j \in rows : j.account \in DOMAIN held
    BY <1>2, <2>5, <2>6
  <2>9. ASSUME NEW b \in DOMAIN held PROVE KeyHeld(held[b], b, rows)
    <3>1. CASE b = a
      <4>1. held[b] = <<q>> /\ \A j \in rows : j.account = a => j = q
        BY <1>2, <2>6, <3>1
      <4> QED BY <2>5, <2>7, <3>1, <4>1 DEF KeyHeld
    <3>2. CASE b # a
      <4>1. held[b] = keys[b] /\ KeyHeld(keys[b], b, R)
        BY <1>2, <2>8, <3>2
      <4>2. (\A j \in R : j.account # a => j \in rows) /\ \A j \in rows : j.account # a => j \in R
        BY <2>5, <2>6, <2>7
      <4> HIDE DEF held
      <4> QED BY <3>2, <4>1, <4>2, OthersHeld
    <3> QED BY <3>1, <3>2
  <2> HIDE DEF held
  <2> QED BY <1>1, <2>1, <2>2, <2>4, <2>8, <2>9, KeysWritten DEF keys
<1>6. KeyHeld(keys[a], a, R)
  BY <1>2
<1> HIDE DEF keys, R
<1> QED BY <1>4, <1>5, <1>6 DEF KeyHeld

LEMMA ExpireKeeps ==
  ASSUME Same, RowsInv, ExpireIdempotency
  PROVE  Same'
<1> DEFINE keys == memory.keys
           R == postgres.keys
           old == {a \in DOMAIN keys : keys[a] # <<>> /\ keys[a][1].at < now - Retention}
           expired == {k \in R : k.at < now - Retention}
           held == [a \in DOMAIN keys |-> IF a \in old THEN <<>> ELSE keys[a]]
           rows == R \ expired
<1>1. UNCHANGED <<area, now>> /\ area = "keys"
  BY DEF ExpireIdempotency, Working
<1>2. DOMAIN keys = Accounts /\ (\A k \in R : k.account \in Accounts) /\ \A b \in Accounts : KeyHeld(keys[b], b, R)
  BY <1>1, KeysOf
<1>3. /\ memory' = [memory EXCEPT !.keys = held] /\ postgres' = [postgres EXCEPT !.keys = rows]
      /\ Told({[expired |-> Cardinality(old)]}, {[expired |-> Cardinality(expired)]})
  BY DEF ExpireIdempotency
<1>4. \A k \in R : keys[k.account] = <<k>> /\ Row(k, KeyColumns)
  <2> SUFFICES ASSUME NEW k \in R PROVE keys[k.account] = <<k>> /\ Row(k, KeyColumns)
    OBVIOUS
  <2>1. KeyHeld(keys[k.account], k.account, R)
    BY <1>2
  <2> HIDE DEF keys, R
  <2> QED BY <2>1 DEF KeyHeld
<1>5. \A a \in Accounts : keys[a] # <<>> => \E k \in R : keys[a] = <<k>> /\ k.account = a
  <2> HIDE DEF keys, R
  <2> QED BY <1>2 DEF KeyHeld
<1>6. IsFiniteSet(Accounts)
  BY AccountIds, FS_Interval DEF Same
<1> HIDE DEF keys, R
<1>7. \A k \in R : k \in expired <=> k.account \in old
  <2> SUFFICES ASSUME NEW k \in R PROVE k.at < now - Retention <=> k.account \in old
    OBVIOUS
  <2>1. keys[k.account] # <<>> /\ keys[k.account][1] = k /\ k.account \in DOMAIN keys
    BY <1>2, <1>4
  <2> QED BY <2>1
<1>8. Cardinality(old) = Cardinality(expired)
  <2> DEFINE f == [a \in old |-> keys[a][1]]
  <2>1. IsFiniteSet(old)
    <3>1. old \in SUBSET Accounts
      BY <1>2
    <3> HIDE DEF old
    <3> QED BY <1>6, <3>1, FS_Subset, Zenon
  <2>2. ASSUME NEW a \in old PROVE f[a] \in expired /\ f[a].account = a
    <3>1. PICK k \in R : keys[a] = <<k>> /\ k.account = a
      BY <1>2, <1>5
    <3>2. f[a] = k
      BY <3>1
    <3> QED BY <1>7, <3>1, <3>2
  <2>3. f \in [old -> expired]
    BY <2>2
  <2>4. \A x, y \in old : f[x] = f[y] => x = y
    <3> HIDE DEF f, old, expired
    <3> QED BY <2>2
  <2>5. ASSUME NEW t \in expired PROVE \E x \in old : f[x] = t
    <3>1. t.account \in old /\ keys[t.account] = <<t>>
      BY <1>4, <1>7
    <3>2. f[t.account] = t
      BY <3>1
    <3> QED BY <3>1, <3>2
  <2> HIDE DEF f, old, expired
  <2> QED BY <2>1, <2>3, <2>4, <2>5, SameSize
<1>9. CallsAgree'
  <2> HIDE DEF old, expired
  <2> QED BY <1>3, <1>8 DEF Told, CallsAgree
<1>10. DOMAIN held = DOMAIN keys /\ \A k \in rows : k.account \in DOMAIN held
  BY <1>2
<1>11. ASSUME NEW b \in DOMAIN held PROVE KeyHeld(held[b], b, rows)
  <2>0. b \in Accounts /\ held[b] = IF b \in old THEN <<>> ELSE keys[b]
    BY <1>2, <1>11
  <2>00. \A k \in R : k \in rows <=> k.account \notin old
    BY <1>7
  <2>000. \A k \in rows : k \in R
    OBVIOUS
  <2> HIDE DEF held, rows, old, expired
  <2>1. CASE b \in old
    BY <2>0, <2>00, <2>000, <2>1 DEF KeyHeld
  <2>2. CASE b \notin old
    <3>1. KeyHeld(keys[b], b, R) /\ held[b] = keys[b]
      BY <1>2, <2>0, <2>2
    <3>2. CASE held[b] = <<>> /\ \A k \in R : k.account # b
      BY <2>000, <3>2 DEF KeyHeld
    <3>3. ASSUME NEW k \in R, held[b] = <<k>>, \A j \in R : j.account = b => j = k, Row(k, KeyColumns), k.account = b
          PROVE  KeyHeld(held[b], b, rows)
      <4>1. k \in rows /\ \A j \in rows : j.account = b => j = k
        BY <2>2, <2>00, <2>000, <3>3
      <4> QED BY <3>3, <4>1 DEF KeyHeld
    <3> QED BY <3>1, <3>2, <3>3 DEF KeyHeld
  <2> QED BY <2>1, <2>2
<1> HIDE DEF held, rows
<1> QED BY <1>1, <1>3, <1>9, <1>10, <1>11, KeysWritten DEF keys

-----------------------------------------------------------------------------
(* Lines and messages, numbered apart *)

LEMMA ParallelWaits ==
  ASSUME NEW e, NEW q, NEW rows, NEW n, NEW m, NEW p, Parallel(e, q, rows, n, m, p),
         NEW m2 \in Int, NEW p2 \in Int, m <= m2, p <= p2
  PROVE  Parallel(e, q, rows, n, m2, p2)
BY DEF Parallel, Increasing

LEMMA ParallelOrdered ==
  ASSUME NEW e, NEW q, NEW rows, NEW n, NEW m, NEW p, Parallel(e, q, rows, n, m, p)
  PROVE  ById(rows) = q /\ Len(e) = n /\ n \in Nat
<1>1. rows = {q[i] : i \in 1..n} /\ List(q, n) /\ Increasing(q, n) /\ List(e, n)
  BY DEF Parallel
<1>2. ById({q[i] : i \in 1..n}) = q
  BY <1>1, ByIdIs
<1> QED BY <1>1, <1>2, ListIs DEF List

LEMMA ParallelJoins ==
  ASSUME NEW e, NEW q, NEW rows, NEW n, NEW m, NEW p, Parallel(e, q, rows, n, m, p),
         NEW k, NEW d, NEW f, List(d, k), List(f, k),
         \A i \in 1..k : d[i].id = m + i, \A i \in 1..k : f[i].id = p + i
  PROVE  Parallel(e \o d, q \o f, rows \cup Rows(f, 1..k), n + k, m + k, p + k)
<1>1. \A i \in 1..k : d[i].id = m + i /\ f[i].id = p + i
  OBVIOUS
<1>2. Parallel(e \o d, q \o f, rows \cup {f[i] : i \in 1..k}, n + k, m + k, p + k)
  BY <1>1, ParallelGrows
<1> QED BY <1>2 DEF Rows

Spot(x, n, y, i) == IF i <= n THEN x[i] ELSE y[i - n]

LEMMA Joined ==
  ASSUME NEW x, NEW n, List(x, n), NEW y, NEW k, List(y, k), NEW i \in 1..(n + k)
  PROVE  (x \o y)[i] = Spot(x, n, y, i)
<1> DEFINE S == {x[j] : j \in 1..n} \cup {y[j] : j \in 1..k}
<1>1. x \in Seq(S) /\ y \in Seq(S) /\ Len(x) = n /\ Len(y) = k
  <2>1. (\A j \in 1..n : x[j] \in S) /\ (\A j \in 1..k : y[j] \in S)
    OBVIOUS
  <2> HIDE DEF S
  <2> QED BY <2>1, ListIs
<1> HIDE DEF S
<1> QED BY <1>1, ConcatProperties DEF Spot

LEMMA JournalKept ==
  ASSUME Same, Waits, Leaves(memory, memory', {"journal", "serial"}, Stores),
         Leaves(postgres, postgres', {"journal", "serial"}, Tables),
         JournalSame', TavernSame', CallsAgree'
  PROVE  Same'
BY Kept DEF Same

LEMMA TavernKept ==
  ASSUME Same, Waits, Leaves(memory, memory', {"tavern", "serial"}, Stores),
         Leaves(postgres, postgres', {"tavern", "serial"}, Tables),
         JournalSame', TavernSame', CallsAgree'
  PROVE  Same'
BY Kept DEF Same

LEMMA SerialsRise ==
  ASSUME Same, NEW j \in Int, NEW k \in Int, memory.serial <= j, postgres.serial <= k,
         memory'.serial = j, postgres'.serial = k
  PROVE  /\ memory'.journal = memory.journal /\ postgres'.journal = postgres.journal => JournalSame'
         /\ memory'.tavern = memory.tavern /\ postgres'.tavern = postgres.tavern => TavernSame'
<1>1. ASSUME memory'.journal = memory.journal, postgres'.journal = postgres.journal PROVE JournalSame'
  <2>1. Parallel(memory.journal, ById(postgres.journal), postgres.journal, Len(memory.journal), j, k)
    BY ParallelWaits DEF Same, JournalSame
  <2> QED BY <1>1, <2>1 DEF Same, JournalSame
<1>2. ASSUME memory'.tavern = memory.tavern, postgres'.tavern = postgres.tavern PROVE TavernSame'
  <2>1. Parallel(memory.tavern, ById(postgres.tavern), postgres.tavern, Len(memory.tavern), j, k)
    BY ParallelWaits DEF Same, TavernSame
  <2>2. j >= 0 /\ k >= 0
    BY DEF Same, TavernSame, Parallel
  <2> QED BY <1>2, <2>1, <2>2 DEF Same, TavernSame
<1> QED BY <1>1, <1>2

LEMMA SerialsAre ==
  ASSUME Same
  PROVE  memory.serial \in Int /\ postgres.serial \in Int
BY DEF Same, JournalSame, Parallel

LEMMA BurnKeeps ==
  ASSUME Same, RowsInv, BurnSerial
  PROVE  Same'
<1>1. Waits /\ CallsAgree'
  <2>1. now \in Nat
    BY DEF Same
  <2>2. UNCHANGED <<area, now>> /\ Silent
    BY DEF BurnSerial, Working
  <2> QED BY <2>1, <2>2 DEF Waits, Silent, CallsAgree
<1>2. memory' = memory /\ postgres' = [postgres EXCEPT !.serial = @ + 1]
  BY DEF BurnSerial
<1>3. memory'.serial = memory.serial /\ postgres'.serial = postgres.serial + 1
      /\ postgres'.journal = postgres.journal /\ postgres'.tavern = postgres.tavern
  BY <1>2 DEF RowsInv, RowsShaped, Row, Tables
<1>4. Leaves(memory, memory', {"journal", "serial"}, Stores) /\ Leaves(postgres, postgres', {"journal", "serial"}, Tables)
  BY <1>2 DEF Same, RowsInv, RowsShaped, Row, Stores, Tables, Leaves
<1>5. JournalSame' /\ TavernSame'
  <2>1. memory.serial \in Int /\ postgres.serial + 1 \in Int /\ memory.serial <= memory.serial
        /\ postgres.serial <= postgres.serial + 1
    BY SerialsAre
  <2>2. memory'.journal = memory.journal /\ memory'.tavern = memory.tavern
    BY <1>2
  <2> QED BY <1>3, <2>1, <2>2, SerialsRise
<1> QED BY <1>1, <1>4, <1>5, JournalKept

LEMMA JournalKeeps ==
  ASSUME Same, RowsInv, NEW who, NEW ticks, NEW k, List(ticks, k), AppendJournal(who, ticks)
  PROVE  Same'
<1> DEFINE e == memory.journal
           R == postgres.journal
           q == ById(R)
           n == Len(e)
           m == memory.serial
           p == postgres.serial
           d == [i \in 1..k |-> Line(m + i, who, ticks[i])]
           f == [i \in 1..k |-> Line(p + i, who, ticks[i])]
           rows == R \cup Rows(f, 1..k)
<1>1. Waits /\ CallsAgree'
  <2>1. now \in Nat
    BY DEF Same
  <2>2. UNCHANGED <<area, now>> /\ Silent
    BY DEF AppendJournal, Working
  <2> QED BY <2>1, <2>2 DEF Waits, Silent, CallsAgree
<1>2. DOMAIN ticks = 1..k /\ Len(ticks) = k /\ k \in Nat
  BY ListIs DEF List
<1>3. /\ memory' = [memory EXCEPT !.journal = e \o d, !.serial = m + k]
      /\ postgres' = [postgres EXCEPT !.journal = rows, !.serial = p + k]
  <2>1. memory' = [memory EXCEPT !.journal = e \o d, !.serial = m + k]
    BY <1>2 DEF AppendJournal, MemoryWrites
  <2>2. {Line(p + i, who, ticks[i]) : i \in DOMAIN ticks} = Rows(f, 1..k)
    BY <1>2 DEF Rows
  <2>3. postgres' = [postgres EXCEPT !.journal = rows, !.serial = p + k]
    BY <1>2, <2>2 DEF AppendJournal, PostgresWrites
  <2> QED BY <2>1, <2>3
<1>4. /\ Parallel(e, q, R, n, m, p) /\ \A i \in 1..n : e[i].who = q[i].who /\ e[i].tick = q[i].tick
  BY DEF Same, JournalSame
<1>5. m \in Int /\ p \in Int
  BY SerialsAre
<1>6. List(d, k) /\ List(f, k) /\ \A i \in 1..k : d[i].id = m + i /\ f[i].id = p + i
                                                 /\ d[i].who = f[i].who /\ d[i].tick = f[i].tick
  BY <1>2 DEF List, Line
<1> HIDE DEF d, f, e, q, R, n, m, p
<1>7. /\ Parallel(e \o d, q \o f, rows, n + k, m + k, p + k)
      /\ List(e, n) /\ List(q, n)
  <2>1. Parallel(e \o d, q \o f, R \cup Rows(f, 1..k), n + k, m + k, p + k)
    BY <1>4, <1>6, ParallelJoins
  <2> QED BY <1>4, <2>1 DEF Parallel
<1>8. n \in Nat
  BY <1>4, ParallelOrdered
<1> DEFINE e2 == e \o d
           q2 == q \o f
<1>9. \A i \in 1..(n + k) : e2[i].who = q2[i].who /\ e2[i].tick = q2[i].tick
  <2> SUFFICES ASSUME NEW i \in 1..(n + k) PROVE e2[i].who = q2[i].who /\ e2[i].tick = q2[i].tick
    OBVIOUS
  <2>0. /\ e2[i] = (IF i <= n THEN e[i] ELSE d[i - n])
        /\ q2[i] = (IF i <= n THEN q[i] ELSE f[i - n])
    <3>0. i \in 1..(n + k)
      OBVIOUS
    <3>1. (e \o d)[i] = Spot(e, n, d, i)
      <4> HIDE DEF e2, q2
      <4>1. List(e, n) /\ List(d, k)
        BY <1>6, <1>7
      <4> QED BY <3>0, <4>1, Joined
    <3>2. (q \o f)[i] = Spot(q, n, f, i)
      <4> HIDE DEF e2, q2
      <4>1. List(q, n) /\ List(f, k)
        BY <1>6, <1>7
      <4> QED BY <3>0, <4>1, Joined
    <3> QED BY <3>1, <3>2 DEF Spot
  <2> HIDE DEF e2, q2
  <2>1. CASE i <= n
    <3>1. i \in 1..n
      BY <1>2, <1>8, <2>1
    <3> QED BY <1>4, <2>0, <2>1, <3>1
  <2>2. CASE ~(i <= n)
    <3>1. i - n \in 1..k
      BY <1>2, <1>8, <2>2
    <3> QED BY <1>6, <2>0, <2>2, <3>1
  <2> QED BY <2>1, <2>2
<1> HIDE DEF e2, q2, rows
<1>10. Parallel(e2, q2, rows, n + k, m + k, p + k)
  BY <1>7 DEF e2, q2
<1>11. ById(rows) = q2 /\ Len(e2) = n + k
  BY <1>10, ParallelOrdered
<1>12. /\ memory'.journal = e2 /\ memory'.serial = m + k /\ memory'.tavern = memory.tavern
       /\ postgres'.journal = rows /\ postgres'.serial = p + k /\ postgres'.tavern = postgres.tavern
  BY <1>3 DEF Same, RowsInv, RowsShaped, Row, Stores, Tables, e2
<1>13. Leaves(memory, memory', {"journal", "serial"}, Stores) /\ Leaves(postgres, postgres', {"journal", "serial"}, Tables)
  BY <1>3 DEF Same, RowsInv, RowsShaped, Row, Stores, Tables, Leaves
<1>14. JournalSame'
  BY <1>9, <1>10, <1>11, <1>12 DEF JournalSame
<1>15. TavernSame'
  <2>1. m + k \in Int /\ p + k \in Int /\ m <= m + k /\ p <= p + k
    BY <1>2, <1>5
  <2> QED BY <1>12, <2>1, SerialsRise DEF m, p
<1> QED BY <1>1, <1>13, <1>14, <1>15, JournalKept

LEMMA TavernKeeps ==
  ASSUME Same, RowsInv, NEW a \in Accounts, SendTavernMessage(a)
  PROVE  Same'
<1> DEFINE e == memory.tavern
           R == postgres.tavern
           q == ById(R)
           n == Len(e)
           m == memory.serial
           p == postgres.serial
           d == <<[id |-> m + 1, author |-> a]>>
           f == <<[id |-> p + 1, author |-> a]>>
           rows == R \cup Rows(f, 1..1)
<1>1. Waits /\ CallsAgree'
  <2>1. now \in Nat
    BY DEF Same
  <2>2. UNCHANGED <<area, now>> /\ Silent
    BY DEF SendTavernMessage, Working
  <2> QED BY <2>1, <2>2 DEF Waits, Silent, CallsAgree
<1>2. MemoryKnows(a) /\ PostgresKnows(a)
  <2>1. memory.accounts[a] \in postgres.accounts /\ memory.accounts[a].id = a /\ a \in 1..Len(memory.accounts)
    BY AccountIds DEF Same
  <2>2. DOMAIN memory.accounts = 1..Len(memory.accounts)
    BY HeldIs DEF Same, AccountsSame
  <2> QED BY <2>1, <2>2 DEF MemoryKnows, PostgresKnows
<1>3. /\ Parallel(e, q, R, n, m, p)
      /\ \A i \in 1..n : e[i].author = q[i].author /\ e[i].id > 0 /\ q[i].id > 0
  BY DEF Same, TavernSame
<1>4. m \in Int /\ p \in Int
  BY SerialsAre
<1>5. m >= 0 /\ p >= 0
  BY DEF Same, TavernSame
<1>6. List(d, 1) /\ List(f, 1) /\ d[1].id = m + 1 /\ f[1].id = p + 1 /\ d[1].author = f[1].author
  BY DEF List
<1>7. Append(e, [id |-> m + 1, author |-> a]) = e \o d
  <2> DEFINE new == [id |-> m + 1, author |-> a]
             S == {e[i] : i \in 1..n} \cup {new}
  <2>1. List(e, n)
    BY <1>3 DEF Parallel
  <2>2. e \in Seq(S)
    <3>1. \A i \in 1..n : e[i] \in S
      OBVIOUS
    <3> HIDE DEF S, e, n
    <3> QED BY <2>1, <3>1, ListIs
  <2>3. new \in S
    OBVIOUS
  <2> HIDE DEF S, new, e
  <2>4. Append(e, new) = e \o <<new>>
    BY <2>2, <2>3, AppendIsConcat
  <2> QED BY <2>4 DEF new
<1>8. /\ memory' = [memory EXCEPT !.tavern = e \o d, !.serial = m + 1]
      /\ postgres' = [postgres EXCEPT !.tavern = rows, !.serial = p + 1]
  <2>1. memory' = [memory EXCEPT !.tavern = e \o d, !.serial = m + 1]
    BY <1>2, <1>7 DEF SendTavernMessage, MemoryAppend
  <2>2. {[id |-> p + 1, author |-> a]} = Rows(f, 1..1)
    BY DEF Rows
  <2>3. postgres' = [postgres EXCEPT !.tavern = rows, !.serial = p + 1]
    BY <1>2, <2>2 DEF SendTavernMessage, PostgresAppend
  <2> QED BY <2>1, <2>3
<1> HIDE DEF d, f, e, q, R, n, m, p
<1>9. /\ Parallel(e \o d, q \o f, rows, n + 1, m + 1, p + 1)
      /\ List(e, n) /\ List(q, n)
  <2>1. (\A i \in 1..1 : d[i].id = m + i) /\ (\A i \in 1..1 : f[i].id = p + i)
    BY <1>6
  <2>2. Parallel(e \o d, q \o f, R \cup Rows(f, 1..1), n + 1, m + 1, p + 1)
    BY <1>3, <1>6, <2>1, ParallelJoins
  <2> QED BY <1>3, <2>2 DEF Parallel
<1>10. n \in Nat
  BY <1>3, ParallelOrdered
<1> DEFINE e2 == e \o d
           q2 == q \o f
<1>11. \A i \in 1..(n + 1) : e2[i].author = q2[i].author /\ e2[i].id > 0 /\ q2[i].id > 0
  <2> SUFFICES ASSUME NEW i \in 1..(n + 1) PROVE e2[i].author = q2[i].author /\ e2[i].id > 0 /\ q2[i].id > 0
    OBVIOUS
  <2>0. /\ e2[i] = (IF i <= n THEN e[i] ELSE d[i - n])
        /\ q2[i] = (IF i <= n THEN q[i] ELSE f[i - n])
    <3>0. i \in 1..(n + 1)
      OBVIOUS
    <3>1. (e \o d)[i] = Spot(e, n, d, i)
      <4> HIDE DEF e2, q2
      <4>1. List(e, n) /\ List(d, 1)
        BY <1>6, <1>9
      <4> QED BY <3>0, <4>1, Joined
    <3>2. (q \o f)[i] = Spot(q, n, f, i)
      <4> HIDE DEF e2, q2
      <4>1. List(q, n) /\ List(f, 1)
        BY <1>6, <1>9
      <4> QED BY <3>0, <4>1, Joined
    <3> QED BY <3>1, <3>2 DEF Spot
  <2> HIDE DEF e2, q2
  <2>1. CASE i <= n
    <3>1. i \in 1..n
      BY <1>10, <2>1
    <3> QED BY <1>3, <2>0, <2>1, <3>1
  <2>2. CASE ~(i <= n)
    <3>1. i - n = 1
      BY <1>10, <2>2
    <3>2. e2[i] = d[1] /\ q2[i] = f[1]
      BY <2>0, <2>2, <3>1
    <3> QED BY <1>4, <1>5, <1>6, <3>2
  <2> QED BY <2>1, <2>2
<1> HIDE DEF e2, q2, rows
<1>12. Parallel(e2, q2, rows, n + 1, m + 1, p + 1)
  BY <1>9 DEF e2, q2
<1>13. ById(rows) = q2 /\ Len(e2) = n + 1
  BY <1>12, ParallelOrdered
<1>14. /\ memory'.tavern = e2 /\ memory'.serial = m + 1 /\ memory'.journal = memory.journal
       /\ postgres'.tavern = rows /\ postgres'.serial = p + 1 /\ postgres'.journal = postgres.journal
  BY <1>8 DEF Same, RowsInv, RowsShaped, Row, Stores, Tables, e2
<1>15. Leaves(memory, memory', {"tavern", "serial"}, Stores) /\ Leaves(postgres, postgres', {"tavern", "serial"}, Tables)
  BY <1>8 DEF Same, RowsInv, RowsShaped, Row, Stores, Tables, Leaves
<1>16. TavernSame'
  <2>1. m + 1 >= 0 /\ p + 1 >= 0
    BY <1>4, <1>5
  <2> QED BY <1>11, <1>12, <1>13, <1>14, <2>1 DEF TavernSame
<1>17. JournalSame'
  <2>1. m + 1 \in Int /\ p + 1 \in Int /\ m <= m + 1 /\ p <= p + 1
    BY <1>4
  <2> QED BY <1>14, <2>1, SerialsRise DEF m, p
<1> QED BY <1>1, <1>15, <1>16, <1>17, TavernKept

-----------------------------------------------------------------------------
(* Ledgers *)

LedgerRows(rows, l, a) == {r \in rows : r.ledger = l /\ r.account = a}

LedgerRow(l, a, v, f) == [ledger |-> l, account |-> a, value |-> v, filed |-> f]

(* One ledger of one account in both.                                      *)
LedgerAlike(ledgers, filed, rows, l, a) ==
  \/ <<l, a>> \in DOMAIN ledgers
     /\ \E f \in BOOLEAN : LedgerRows(rows, l, a) = {LedgerRow(l, a, ledgers[<<l, a>>], f)}
                           /\ (l = "orders" => (f <=> a \in filed))
  \/ <<l, a>> \notin DOMAIN ledgers
     /\ LedgerRows(rows, l, a) = {} /\ (l = "orders" => a \notin filed)

LedgersAlike(ledgers, filed, rows) == \A l \in Ledgers, a \in Nat : LedgerAlike(ledgers, filed, rows, l, a)

LEMMA LedgersSameIs == LedgersSame <=> LedgersAlike(memory.ledgers, memory.filed, postgres.ledgers)
BY DEF LedgersSame, LedgersAlike, LedgerAlike, LedgerRows, LedgerRow

LEMMA StoreAlike ==
  ASSUME NEW ledgers, NEW filed, NEW rows, LedgersAlike(ledgers, filed, rows),
         NEW k, NEW b \in Nat, NEW v, NEW mark \in BOOLEAN, mark => k = "orders",
         NEW ledgers2, NEW filed2, NEW rows2, NEW g \in BOOLEAN,
         DOMAIN ledgers2 = DOMAIN ledgers \cup {<<k, b>>},
         ledgers2[<<k, b>>] = v, \A x \in DOMAIN ledgers : x # <<k, b>> => ledgers2[x] = ledgers[x],
         \A x : x \in filed2 <=> x \in filed \/ (mark /\ x = b),
         g <=> mark \/ \E r \in LedgerRows(rows, k, b) : r.filed,
         \A r : r \in rows2 <=> (r \in rows /\ ~(r.ledger = k /\ r.account = b)) \/ r = LedgerRow(k, b, v, g)
  PROVE  LedgersAlike(ledgers2, filed2, rows2)
<1>0. LedgerRow(k, b, v, g).ledger = k /\ LedgerRow(k, b, v, g).account = b
  BY DEF LedgerRow
<1>1. ASSUME k \in Ledgers PROVE LedgerAlike(ledgers2, filed2, rows2, k, b)
  <2>1. <<k, b>> \in DOMAIN ledgers2 /\ ledgers2[<<k, b>>] = v
    OBVIOUS
  <2>2. LedgerRows(rows2, k, b) = {LedgerRow(k, b, v, g)}
    <3> HIDE DEF LedgerRow
    <3> QED BY <1>0 DEF LedgerRows
  <2>3. ASSUME k = "orders" PROVE g <=> b \in filed2
    <3>1. (\E r \in LedgerRows(rows, k, b) : r.filed) <=> b \in filed
      <4>1. LedgerAlike(ledgers, filed, rows, k, b)
        BY <1>1 DEF LedgersAlike
      <4>2. CASE LedgerRows(rows, k, b) = {}
        <5>1. b \notin filed
          BY <2>3, <4>1, <4>2 DEF LedgerAlike
        <5> QED BY <4>2, <5>1
      <4>3. ASSUME NEW w, NEW f \in BOOLEAN, LedgerRows(rows, k, b) = {LedgerRow(k, b, w, f)}, f <=> b \in filed
            PROVE  (\E r \in LedgerRows(rows, k, b) : r.filed) <=> b \in filed
        <5>1. LedgerRow(k, b, w, f).filed = f
          BY DEF LedgerRow
        <5> QED BY <4>3, <5>1, Zenon
      <4> QED BY <2>3, <4>1, <4>2, <4>3 DEF LedgerAlike
    <3>2. CASE mark
      BY <3>2
    <3>3. CASE ~mark
      BY <3>1, <3>3
    <3> QED BY <3>2, <3>3
  <2> QED BY <2>1, <2>2, <2>3 DEF LedgerAlike
<1>2. ASSUME NEW l \in Ledgers, NEW a \in Nat, <<l, a>> # <<k, b>> PROVE LedgerAlike(ledgers2, filed2, rows2, l, a)
  <2>0. l # k \/ a # b
    BY <1>2
  <2>1. LedgerAlike(ledgers, filed, rows, l, a)
    BY DEF LedgersAlike
  <2>2. LedgerRows(rows2, l, a) = LedgerRows(rows, l, a)
    <3>1. \A r \in rows2 : r.ledger = l /\ r.account = a => r \in rows
      BY <1>0, <2>0
    <3>2. \A r \in rows : r.ledger = l /\ r.account = a => r \in rows2
      BY <2>0
    <3> QED BY <3>1, <3>2 DEF LedgerRows
  <2>3. <<l, a>> \in DOMAIN ledgers2 <=> <<l, a>> \in DOMAIN ledgers
    BY <1>2
  <2>4. <<l, a>> \in DOMAIN ledgers => ledgers2[<<l, a>>] = ledgers[<<l, a>>]
    BY <1>2
  <2>5. l = "orders" => (a \in filed2 <=> a \in filed)
    BY <2>0
  <2> QED BY <2>1, <2>2, <2>3, <2>4, <2>5 DEF LedgerAlike
<1> QED BY <1>1, <1>2 DEF LedgersAlike

LEMMA StoreKeeps ==
  ASSUME NEW m, NEW p, Row(m, Stores), Row(p, Tables), LedgersAlike(m.ledgers, m.filed, p.ledgers),
         NEW k, NEW b \in Nat, NEW v, NEW mark \in BOOLEAN, mark => k = "orders",
         NEW m2, m2 = MemoryStore(m, k, b, v, mark), NEW p2, p2 = PostgresStore(p, k, b, v, mark)
  PROVE  /\ Leaves(m, m2, {"ledgers", "filed"}, Stores) /\ Leaves(p, p2, {"ledgers", "filed"}, Tables)
         /\ LedgersAlike(m2.ledgers, m2.filed, p2.ledgers)
<1> DEFINE g == mark \/ \E r \in p.ledgers : (r.ledger = k /\ r.account = b) /\ r.filed
           ledgers2 == [x \in DOMAIN m.ledgers \cup {<<k, b>>} |-> IF x = <<k, b>> THEN v ELSE m.ledgers[x]]
           filed2 == IF mark THEN m.filed \cup {b} ELSE m.filed
           rows2 == {r \in p.ledgers : ~(r.ledger = k /\ r.account = b)} \cup {LedgerRow(k, b, v, g)}
<1>1. m2 = [m EXCEPT !.ledgers = ledgers2, !.filed = filed2]
  BY DEF MemoryStore
<1>2. p2 = [p EXCEPT !.ledgers = rows2]
  BY DEF PostgresStore, Upsert, LedgerRow
<1>3. g \in BOOLEAN /\ (g <=> mark \/ \E r \in LedgerRows(p.ledgers, k, b) : r.filed)
  BY DEF LedgerRows
<1> HIDE DEF g
<1>4. LedgersAlike(ledgers2, filed2, rows2)
  <2>1. /\ DOMAIN ledgers2 = DOMAIN m.ledgers \cup {<<k, b>>}
        /\ ledgers2[<<k, b>>] = v /\ \A x \in DOMAIN m.ledgers : x # <<k, b>> => ledgers2[x] = m.ledgers[x]
        /\ \A x : x \in filed2 <=> x \in m.filed \/ (mark /\ x = b)
        /\ \A r : r \in rows2 <=> (r \in p.ledgers /\ ~(r.ledger = k /\ r.account = b)) \/ r = LedgerRow(k, b, v, g)
    OBVIOUS
  <2> HIDE DEF ledgers2, filed2, rows2
  <2> QED BY <1>3, <2>1, StoreAlike
<1> HIDE DEF ledgers2, filed2, rows2
<1>5. m2.ledgers = ledgers2 /\ m2.filed = filed2 /\ p2.ledgers = rows2
  BY <1>1, <1>2 DEF Row, Stores, Tables
<1>6. Leaves(m, m2, {"ledgers", "filed"}, Stores)
  BY <1>1 DEF Row, Stores, Tables, Leaves
<1>7. Leaves(p, p2, {"ledgers", "filed"}, Tables)
  BY <1>2 DEF Row, Tables, Leaves
<1> QED BY <1>4, <1>5, <1>6, <1>7

LEMMA LedgersKept ==
  ASSUME Same, Waits, CallsAgree', LedgersSame',
         Leaves(memory, memory', {"ledgers", "filed"}, Stores), Leaves(postgres, postgres', {"ledgers", "filed"}, Tables)
  PROVE  Same'
BY Kept DEF Same

LEMMA LedgersKeep ==
  ASSUME Same, RowsInv, NEW a \in Accounts, NEW l \in Ledgers, NEW v, SaveLedger(l, a, v)
  PROVE  Same'
<1>1. Waits /\ CallsAgree'
  <2>1. now \in Nat
    BY DEF Same
  <2>2. UNCHANGED <<area, now>> /\ Silent
    BY DEF SaveLedger, Working
  <2> QED BY <2>1, <2>2 DEF Waits, Silent, CallsAgree
<1>2. PICK mark \in BOOLEAN : /\ mark => l = "orders"
                              /\ memory' = MemoryStore(memory, l, a, v, mark)
                              /\ postgres' = PostgresStore(postgres, l, a, v, mark)
  BY DEF SaveLedger
<1>3. Row(memory, Stores) /\ Row(postgres, Tables) /\ a \in Nat
      /\ LedgersAlike(memory.ledgers, memory.filed, postgres.ledgers)
  BY AccountIds, LedgersSameIs DEF Same, RowsInv, RowsShaped
<1>4. /\ Leaves(memory, memory', {"ledgers", "filed"}, Stores) /\ Leaves(postgres, postgres', {"ledgers", "filed"}, Tables)
      /\ LedgersAlike(memory'.ledgers, memory'.filed, postgres'.ledgers)
  BY <1>2, <1>3, StoreKeeps
<1>5. LedgersSame'
  BY <1>4 DEF LedgersSame, LedgersAlike, LedgerAlike, LedgerRows, LedgerRow
<1> QED BY <1>1, <1>4, <1>5, LedgersKept

-----------------------------------------------------------------------------
(* Recruits and deaths, in an array and in a table *)

RecruitsHeld(e, R, t) ==
  /\ Holds(e, R) /\ Numbers(e)
  /\ \A c \in R : c.num \in Nat /\ c.born \in Nat /\ c.born <= t

DeathsHeld(e, R, accounts, t) ==
  /\ Holds(e, R)
  /\ \A i \in DOMAIN e : /\ e[i].id = Len(e) + 1 - i
                         /\ e[i].at \in Nat /\ e[i].at <= t /\ e[i].account \in 1..accounts
  /\ \A i, j \in DOMAIN e : i < j => e[i].at >= e[j].at

SavedById(e, x) == [i \in DOMAIN e |-> IF e[i].id = x.id THEN x ELSE e[i]]

LEMMA SavedIs ==
  ASSUME NEW e, NEW x, \E i \in DOMAIN e : e[i].id = x.id
  PROVE  SetEntry(e, x, LAMBDA y : y.id = x.id) = SavedById(e, x)
BY DEF SetEntry, SavedById

LEMMA SaveHeld ==
  ASSUME NEW e, NEW R, NEW t, RecruitsHeld(e, R, t), NEW c \in R, NEW x,
         x.id = c.id, x.num = c.num, x.born = c.born
  PROVE  RecruitsHeld(SavedById(e, x), Replaced(R, x), t) /\ Len(SavedById(e, x)) = Len(e)
<1> DEFINE e2 == SavedById(e, x)
           R2 == Replaced(R, x)
<1>1. /\ Len(e) \in Nat /\ DOMAIN e = 1..Len(e) /\ \A i \in DOMAIN e : e[i] \in R /\ e[i].id = i
      /\ \A r \in R : \E i \in DOMAIN e : r = e[i]
      /\ Holds(e, R)
  BY HeldIs DEF RecruitsHeld, Numbers
<1>2. /\ e2 = [i \in DOMAIN e |-> e2[i]]
      /\ \A i \in DOMAIN e : e2[i] = IF e[i].id = x.id THEN x ELSE e[i]
  BY DEF SavedById
<1>3. \A r \in R2 : \E q \in R : r = IF q.id = x.id THEN x ELSE q
  BY DEF Replaced
<1>4. \A q \in R : (IF q.id = x.id THEN x ELSE q) \in R2
  BY DEF Replaced
<1> HIDE DEF e2, R2
<1>5. \A i \in DOMAIN e : e2[i] \in R2
  BY <1>1, <1>2, <1>4
<1>6. \A r \in R2 : \E i \in DOMAIN e : r = e2[i]
  BY <1>1, <1>2, <1>3
<1>7. Holds(e2, R2) /\ Len(e2) = Len(e) /\ DOMAIN e2 = DOMAIN e
  BY <1>1, <1>2, <1>5, <1>6, HeldInPlace
<1>8. Numbers(e2)
  BY <1>1, <1>2, <1>7 DEF Numbers
<1>9. \A r \in R2 : r.num \in Nat /\ r.born \in Nat /\ r.born <= t
  BY <1>3 DEF RecruitsHeld
<1> QED BY <1>7, <1>8, <1>9 DEF RecruitsHeld, e2, R2

LEMMA InsertHeld ==
  ASSUME NEW e, NEW R, NEW t, RecruitsHeld(e, R, t), NEW x,
         x.id = Len(e) + 1, x.num \in Nat, x.born \in Nat, x.born <= t
  PROVE  RecruitsHeld(Append(e, x), R \cup {x}, t)
<1>1. Holds(e, R)
  BY DEF RecruitsHeld
<1> DEFINE f == Append(e, x)
           R2 == R \cup {x}
<1>2. Holds(f, R2) /\ Len(f) = Len(e) + 1 /\ \A i \in DOMAIN f : f[i] = IF i = Len(e) + 1 THEN x ELSE e[i]
  BY <1>1, HeldAppend
<1> HIDE DEF f
<1>3. Len(e) \in Nat /\ DOMAIN e = 1..Len(e) /\ DOMAIN f = 1..Len(f)
  BY <1>1, <1>2, HeldIs
<1>4. Numbers(f)
  BY <1>2, <1>3 DEF Numbers, RecruitsHeld
<1>5. \A r \in R2 : r.num \in Nat /\ r.born \in Nat /\ r.born <= t
  BY DEF RecruitsHeld
<1> QED BY <1>2, <1>4, <1>5 DEF RecruitsHeld, f

LEMMA DeathsCounted ==
  ASSUME NEW e, NEW R, NEW n, NEW t, DeathsHeld(e, R, n, t)
  PROVE  Cardinality(R) = Len(e) /\ Len(e) \in Nat
<1>1. Holds(e, R) /\ Len(e) \in Nat /\ DOMAIN e = 1..Len(e)
  BY HeldIs DEF DeathsHeld
<1>2. \A i, j \in DOMAIN e : e[i] = e[j] => i = j
  <2> SUFFICES ASSUME NEW i \in DOMAIN e, NEW j \in DOMAIN e, e[i] = e[j] PROVE i = j
    OBVIOUS
  <2>1. e[i].id = Len(e) + 1 - i /\ e[j].id = Len(e) + 1 - j
    BY DEF DeathsHeld
  <2> QED BY <1>1, <2>1
<1> QED BY <1>1, <1>2, HeldCount

LEMMA RecordHeld ==
  ASSUME NEW e, NEW R, NEW n, NEW t \in Nat, DeathsHeld(e, R, n, t), NEW d,
         d.id = Len(e) + 1, d.at = t, d.account \in 1..n
  PROVE  DeathsHeld(<<d>> \o e, R \cup {d}, n, t) /\ Len(<<d>> \o e) = Len(e) + 1
<1> DEFINE f == <<d>> \o e
           R2 == R \cup {d}
<1>1. Holds(e, R) /\ Len(e) \in Nat /\ DOMAIN e = 1..Len(e)
  BY HeldIs DEF DeathsHeld
<1>2. Holds(f, R2) /\ Len(f) = Len(e) + 1 /\ \A i \in DOMAIN f : f[i] = IF i = 1 THEN d ELSE e[i - 1]
  BY <1>1, HeldFront
<1> HIDE DEF f, R2
<1>3. DOMAIN f = 1..Len(f)
  BY <1>2, HeldIs
<1>4. ASSUME NEW i \in DOMAIN f
      PROVE  f[i].id = Len(f) + 1 - i /\ f[i].at \in Nat /\ f[i].at <= t /\ f[i].account \in 1..n
  <2>1. CASE i = 1
    BY <1>1, <1>2, <2>1
  <2>2. CASE i # 1
    <3>1. i - 1 \in DOMAIN e /\ f[i] = e[i - 1]
      BY <1>1, <1>2, <1>3, <2>2
    <3>2. e[i - 1].id = Len(e) + 1 - (i - 1) /\ e[i - 1].at \in Nat /\ e[i - 1].at <= t /\ e[i - 1].account \in 1..n
      BY <3>1 DEF DeathsHeld
    <3>3. Len(f) + 1 - i = Len(e) + 1 - (i - 1)
      BY <1>1, <1>2, <1>3
    <3> QED BY <3>1, <3>2, <3>3
  <2> QED BY <2>1, <2>2
<1>5. ASSUME NEW i \in DOMAIN f, NEW j \in DOMAIN f, i < j PROVE f[i].at >= f[j].at
  <2>1. j - 1 \in DOMAIN e /\ f[j] = e[j - 1]
    BY <1>1, <1>2, <1>3, <1>5
  <2>2. CASE i = 1
    BY <1>2, <1>4, <2>2
  <2>3. CASE i # 1
    <3>1. i - 1 \in DOMAIN e /\ f[i] = e[i - 1] /\ i - 1 < j - 1
      BY <1>1, <1>2, <1>3, <1>5, <2>3
    <3> QED BY <2>1, <3>1 DEF DeathsHeld
  <2> QED BY <2>2, <2>3
<1> QED BY <1>2, <1>4, <1>5 DEF DeathsHeld, f, R2

-----------------------------------------------------------------------------
(* The writes of a career, in both *)

Written == {"characters", "deaths"}

Pair(m, p, n, t) ==
  /\ Row(m, Stores) /\ Row(p, Tables)
  /\ RecruitsHeld(m.characters, p.characters, t) /\ DeathsHeld(m.deaths, p.deaths, n, t)

Both(m, p, m2, p2) == Leaves(m, m2, Written, Stores) /\ Leaves(p, p2, Written, Tables)

LEMMA BothThen ==
  ASSUME NEW m, NEW p, NEW m1, NEW p1, NEW m2, NEW p2, Both(m, p, m1, p1), Both(m1, p1, m2, p2)
  PROVE  Both(m, p, m2, p2)
BY DEF Both, Leaves

LEMMA PairSaves ==
  ASSUME NEW m, NEW p, NEW n, NEW t, Pair(m, p, n, t), NEW c \in p.characters, NEW x,
         x.id = c.id, x.num = c.num, x.born = c.born,
         NEW m2, m2 = MemorySave(m, x), NEW p2, p2 = PostgresSave(p, x)
  PROVE  /\ Pair(m2, p2, n, t) /\ Both(m, p, m2, p2)
         /\ p2.characters = Replaced(p.characters, x) /\ p2.deaths = p.deaths
         /\ Len(m2.characters) = Len(m.characters) /\ Len(m2.deaths) = Len(m.deaths)
<1> DEFINE e2 == SetEntry(m.characters, x, LAMBDA y : y.id = x.id)
           R2 == Replaced(p.characters, x)
<1>1. m2 = [m EXCEPT !.characters = e2] /\ p2 = [p EXCEPT !.characters = R2]
  BY DEF MemorySave, PostgresSave, Replaced
<1>2. e2 = SavedById(m.characters, x)
  <2>1. PICK i \in DOMAIN m.characters : c = m.characters[i]
    BY HeldIs DEF Pair, RecruitsHeld
  <2>2. \E j \in DOMAIN m.characters : m.characters[j].id = x.id
    BY <2>1
  <2> QED BY <2>2, SavedIs
<1> HIDE DEF e2, R2
<1>3. RecruitsHeld(e2, R2, t) /\ Len(e2) = Len(m.characters)
  BY <1>2, SaveHeld DEF Pair, R2
<1>4. m2.characters = e2 /\ p2.characters = R2 /\ m2.deaths = m.deaths /\ p2.deaths = p.deaths
  BY <1>1 DEF Pair, Row, Stores, Tables
<1>5. Both(m, p, m2, p2)
  BY <1>1 DEF Pair, Row, Stores, Tables, Leaves, Both, Written
<1> QED BY <1>3, <1>4, <1>5 DEF Pair, Both, Leaves, R2

LEMMA PairInserts ==
  ASSUME NEW m, NEW p, NEW n, NEW t, Pair(m, p, n, t), NEW x,
         x.id = Len(m.characters) + 1, x.num \in Nat, x.born \in Nat, x.born <= t,
         NEW m2, m2 = MemoryInsert(m, x), NEW p2, p2 = PostgresInsert(p, x)
  PROVE  /\ Pair(m2, p2, n, t) /\ Both(m, p, m2, p2)
         /\ p2.characters = p.characters \cup {x} /\ p2.deaths = p.deaths /\ m2.deaths = m.deaths
<1> DEFINE e2 == Append(m.characters, x)
           R2 == p.characters \cup {x}
<1>1. m2 = [m EXCEPT !.characters = e2] /\ p2 = [p EXCEPT !.characters = R2]
  BY DEF MemoryInsert, PostgresInsert
<1>2. RecruitsHeld(e2, R2, t)
  <2>1. RecruitsHeld(m.characters, p.characters, t)
    BY DEF Pair
  <2> QED BY <2>1, InsertHeld
<1> HIDE DEF e2, R2
<1>4. m2.characters = e2 /\ p2.characters = R2 /\ m2.deaths = m.deaths /\ p2.deaths = p.deaths
  BY <1>1 DEF Pair, Row, Stores, Tables
<1>5. Both(m, p, m2, p2)
  BY <1>1 DEF Pair, Row, Stores, Tables, Leaves, Both, Written
<1> QED BY <1>2, <1>4, <1>5 DEF Pair, Both, Leaves, R2

LEMMA PairRecords ==
  ASSUME NEW m, NEW p, NEW n, NEW t \in Nat, Pair(m, p, n, t), NEW d,
         d.id = Len(m.deaths) + 1, d.at = t, d.account \in 1..n,
         NEW m2, m2 = MemoryRecord(m, d), NEW p2, p2 = PostgresRecord(p, d)
  PROVE  /\ Pair(m2, p2, n, t) /\ Both(m, p, m2, p2)
         /\ p2.characters = p.characters /\ p2.deaths = p.deaths \cup {d}
         /\ Len(m2.deaths) = Len(m.deaths) + 1 /\ Len(m2.characters) = Len(m.characters)
<1> DEFINE e2 == <<d>> \o m.deaths
           R2 == p.deaths \cup {d}
<1>1. m2 = [m EXCEPT !.deaths = e2] /\ p2 = [p EXCEPT !.deaths = R2]
  BY DEF MemoryRecord, PostgresRecord
<1>2. DeathsHeld(e2, R2, n, t) /\ Len(e2) = Len(m.deaths) + 1
  <2>1. DeathsHeld(m.deaths, p.deaths, n, t)
    BY DEF Pair
  <2> QED BY <2>1, RecordHeld
<1> HIDE DEF e2, R2
<1>4. m2.deaths = e2 /\ p2.deaths = R2 /\ m2.characters = m.characters /\ p2.characters = p.characters
  BY <1>1 DEF Pair, Row, Stores, Tables
<1>5. Both(m, p, m2, p2)
  BY <1>1 DEF Pair, Row, Stores, Tables, Leaves, Both, Written
<1> QED BY <1>2, <1>4, <1>5 DEF Pair, Both, Leaves, R2

LEMMA PairIs ==
  ASSUME Same, RowsInv
  PROVE  /\ Pair(memory, postgres, Cardinality(postgres.accounts), now) /\ now \in Nat
         /\ Cardinality(postgres.characters) = Len(memory.characters)
         /\ Cardinality(postgres.deaths) = Len(memory.deaths) /\ Len(memory.deaths) \in Nat
<1>1. Pair(memory, postgres, Cardinality(postgres.accounts), now) /\ now \in Nat
  BY DEF Same, RowsInv, RowsShaped, RecruitsSame, DeathsSame, Pair, RecruitsHeld, DeathsHeld
<1>2. Cardinality(postgres.characters) = Len(memory.characters)
  BY RecruitsCounted DEF Same, RecruitsSame
<1> QED BY <1>1, <1>2, DeathsCounted DEF Pair

LEMMA CareersKept ==
  ASSUME Same, Waits, UNCHANGED now, CallsAgree', DeathsBefore', LastAlone',
         Both(memory, postgres, memory', postgres'),
         Pair(memory', postgres', Cardinality(postgres.accounts), now)
  PROVE  Same'
<1>1. postgres'.accounts = postgres.accounts
  BY DEF Both, Leaves, Written, Tables
<1>2. RecruitsSame'
  BY DEF Pair, RecruitsHeld, RecruitsSame
<1>3. DeathsSame'
  BY <1>1 DEF Pair, DeathsHeld, DeathsSame
<1>4. Leaves(memory, memory', Written, Stores) /\ Leaves(postgres, postgres', Written, Tables)
  BY DEF Both
<1> QED BY <1>2, <1>3, <1>4, Kept DEF Same, Written

-----------------------------------------------------------------------------
(* Somebody begins, somebody ends *)

LEMMA BeginsWell ==
  ASSUME Same, RowsInv, UNCHANGED now, NEW x, x.alive, x.born = now,
         postgres'.characters = postgres.characters \cup {x}, postgres'.deaths = postgres.deaths
  PROVE  DeathsBefore' /\ LastAlone'
<1>1. \A d \in postgres.deaths : d.at <= now
  <2>1. \A d \in postgres.deaths : \E i \in DOMAIN memory.deaths : d = memory.deaths[i]
    BY HeldIs DEF Same, DeathsSame
  <2> QED BY <2>1 DEF Same, DeathsSame
<1>2. DeathsBefore'
  <2> SUFFICES ASSUME NEW c \in postgres.characters \cup {x}, NEW d \in postgres.deaths, c.alive, d.account = c.account
               PROVE  d.at <= c.born
    BY DEF DeathsBefore
  <2>1. CASE c = x
    BY <1>1, <2>1
  <2>2. CASE c \in postgres.characters
    BY <2>2 DEF Same, DeathsBefore
  <2> QED BY <2>1, <2>2
<1>3. \A a : PostgresActive(a) \subseteq PostgresActive(a)'
  BY DEF PostgresActive
<1>4. LastAlone'
  BY <1>3 DEF LastAlone, Same
<1> QED BY <1>2, <1>4

LEMMA EndsWell ==
  ASSUME Same, RowsInv, UNCHANGED now, NEW c \in postgres.characters, c.alive, NEW nd,
         \A x \in postgres'.characters : x.alive =>
           (x \in postgres.characters /\ x.account # c.account) \/ (x.account = c.account /\ x.born = now),
         \A x \in postgres.characters : x.alive /\ x.account # c.account => x \in postgres'.characters,
         \A d \in postgres'.deaths : d \in postgres.deaths \/ (d.account = c.account /\ d.at = now),
         postgres.deaths \subseteq postgres'.deaths,
         \/ \E x \in postgres'.characters : x.alive /\ x.account = c.account
         \/ /\ CanEnd(c) /\ nd \in postgres'.deaths /\ nd.account = c.account /\ nd.at = now
            /\ \A d \in postgres'.deaths : d \in postgres.deaths \/ d = nd
  PROVE  DeathsBefore' /\ LastAlone'
<1>0. now \in Nat /\ \A x \in postgres.characters : x.born \in Nat /\ x.born <= now
  BY DEF Same, RecruitsSame
<1>1. \A d \in postgres.deaths : d.at \in Nat /\ d.at <= now
  <2>1. \A d \in postgres.deaths : \E i \in DOMAIN memory.deaths : d = memory.deaths[i]
    BY HeldIs DEF Same, DeathsSame
  <2> QED BY <2>1 DEF Same, DeathsSame
<1>2. DeathsBefore'
  <2> SUFFICES ASSUME NEW x \in postgres'.characters, NEW d \in postgres'.deaths, x.alive, d.account = x.account
               PROVE  d.at <= x.born
    BY DEF DeathsBefore
  <2>1. CASE x.account = c.account /\ x.born = now
    BY <1>0, <1>1, <2>1
  <2>2. CASE x \in postgres.characters /\ x.account # c.account
    <3>1. d \in postgres.deaths
      BY <2>2
    <3> QED BY <2>2, <3>1 DEF Same, DeathsBefore
  <2> QED BY <2>1, <2>2
<1>3. LastAlone'
  <2> SUFFICES ASSUME NEW d \in postgres'.deaths, NEW e \in postgres'.deaths,
                      d.account = e.account, d.at = e.at, d # e,
                      \A f \in postgres'.deaths : f.account = d.account => f.at <= d.at
               PROVE  PostgresActive(d.account)' # {}
    BY DEF LastAlone
  <2>1. CASE d.account # c.account
    <3>1. d \in postgres.deaths /\ e \in postgres.deaths
      BY <2>1
    <3>2. PostgresActive(d.account) # {}
      BY <3>1 DEF Same, LastAlone
    <3> QED BY <2>1, <3>2 DEF PostgresActive
  <2>2. CASE d.account = c.account /\ \E x \in postgres'.characters : x.alive /\ x.account = c.account
    BY <2>2 DEF PostgresActive
  <2>3. CASE /\ d.account = c.account /\ CanEnd(c) /\ nd \in postgres'.deaths /\ nd.account = c.account /\ nd.at = now
              /\ \A g \in postgres'.deaths : g \in postgres.deaths \/ g = nd
    <3>1. \A g \in postgres.deaths : g.account = c.account => g.at <= c.born
      BY DEF Same, DeathsBefore
    <3>2. c.born < now
      BY <2>3 DEF CanEnd
    <3>3. \A g \in postgres.deaths : g.account = c.account => g.at < now
      BY <1>0, <1>1, <3>1, <3>2
    <3>4. now <= d.at
      BY <2>3
    <3>5. d = nd /\ e = nd
      <4>1. d \notin postgres.deaths
        BY <1>0, <1>1, <2>3, <3>3, <3>4
      <4>2. e \notin postgres.deaths
        <5>1. e.account = c.account /\ now <= e.at
          BY <2>3, <3>4
        <5> QED BY <1>0, <1>1, <3>3, <5>1
      <4> QED BY <2>3, <4>1, <4>2
    <3> QED BY <3>5
  <2> QED BY <2>1, <2>2, <2>3
<1> QED BY <1>2, <1>3

-----------------------------------------------------------------------------
(* Careers end *)

Closed(c) == [c EXCEPT !.alive = FALSE]

LEMMA ClosedIs ==
  ASSUME Same, RowsInv, NEW c \in postgres.characters, c.alive
  PROVE  /\ Closed(c).id = c.id /\ Closed(c).num = c.num /\ Closed(c).born = c.born
         /\ c.account \in 1..Cardinality(postgres.accounts)
         /\ \A x \in Replaced(postgres.characters, Closed(c)) :
              x.alive => x \in postgres.characters /\ x.account # c.account
         /\ \A x \in postgres.characters :
              x.alive /\ x.account # c.account => x \in Replaced(postgres.characters, Closed(c))
<1>1. Row(c, RecruitColumns) /\ c.account \in 1..Cardinality(postgres.accounts)
  BY DEF RowsInv, RowsShaped, RecruitsOnFile
<1>2. /\ Closed(c).id = c.id /\ Closed(c).num = c.num /\ Closed(c).born = c.born
      /\ Closed(c).account = c.account /\ ~Closed(c).alive
  BY <1>1 DEF Closed, Row, RecruitColumns
<1>3. \A x \in postgres.characters : x.id = c.id => x = c
  <2>1. \A x \in postgres.characters : \E i \in DOMAIN memory.characters : x = memory.characters[i] /\ x.id = i
    BY HeldIs DEF Same, RecruitsSame, Numbers
  <2> QED BY <2>1
<1>4. ASSUME NEW x \in Replaced(postgres.characters, Closed(c)), x.alive
      PROVE  x \in postgres.characters /\ x.account # c.account
  <2>1. x \in postgres.characters /\ x.id # c.id
    BY <1>2, <1>4 DEF Replaced
  <2> QED BY <1>4, <2>1 DEF RowsInv, OneInService
<1>5. ASSUME NEW x \in postgres.characters, x.account # c.account
      PROVE  x \in Replaced(postgres.characters, Closed(c))
  <2>1. x.id # Closed(c).id
    BY <1>2, <1>3, <1>5
  <2> QED BY <2>1 DEF Replaced
<1> QED BY <1>1, <1>2, <1>4, <1>5

LEMMA DeathIs ==
  ASSUME Same, RowsInv, NEW c \in postgres.characters, NEW award, NEW n
  PROVE  /\ Death(c.account, award, n).id = Len(memory.deaths) + n
         /\ Death(c.account, award, n).at = now /\ Death(c.account, award, n).account = c.account
  BY PairIs DEF Death

LEMMA NextIs ==
  ASSUME Same, RowsInv, NEW a, NEW num
  PROVE  LET x == Recruit(a, num) IN
         /\ x.id = Len(memory.characters) + 1 /\ x.num = num /\ x.born = now /\ x.alive /\ x.account = a
<1>1. Cardinality(postgres.characters) = Len(memory.characters)
  BY PairIs
<1> QED BY <1>1 DEF Recruit, NewId

LEMMA QuietCareers ==
  ASSUME Same, area' = area /\ now' = now /\ Silent
  PROVE  Waits /\ UNCHANGED now /\ CallsAgree'
<1>1. now \in Nat
  BY DEF Same
<1> QED BY <1>1 DEF Waits, CallsAgree, Silent

LEMMA RecordDeathKeeps ==
  ASSUME Same, RowsInv, NEW c \in postgres.characters, c.alive, RecordDeath(c)
  PROVE  Same'
<1> DEFINE n == Cardinality(postgres.accounts)
           x == Closed(c)
           m1 == MemorySave(memory, x)
           p1 == PostgresSave(postgres, x)
<1>1. CanEnd(c) /\ area' = area /\ now' = now /\ Silent
  BY DEF RecordDeath, Working
<1>2. PICK award \in Awards :
        /\ memory' = MemoryRecord(m1, Death(c.account, award, 1))
        /\ postgres' = PostgresRecord(p1, Death(c.account, award, 1))
  BY DEF RecordDeath, Closed
<1>3. Pair(memory, postgres, n, now) /\ now \in Nat
  BY PairIs
<1>4. /\ Pair(m1, p1, n, now) /\ Both(memory, postgres, m1, p1)
      /\ p1.characters = Replaced(postgres.characters, x) /\ p1.deaths = postgres.deaths
      /\ Len(m1.deaths) = Len(memory.deaths)
  <2>1. x.id = c.id /\ x.num = c.num /\ x.born = c.born
    BY ClosedIs
  <2> HIDE DEF n, x
  <2> QED BY <1>3, <2>1, PairSaves
<1> DEFINE d == Death(c.account, award, 1)
<1>5. d.id = Len(memory.deaths) + 1 /\ d.at = now /\ d.account = c.account /\ c.account \in 1..n
  BY DeathIs, ClosedIs
<1>6. memory' = MemoryRecord(m1, d) /\ postgres' = PostgresRecord(p1, d)
  BY <1>2
<1> HIDE DEF n, m1, p1, d
<1>7. /\ Pair(memory', postgres', n, now) /\ Both(m1, p1, memory', postgres')
      /\ postgres'.characters = p1.characters /\ postgres'.deaths = p1.deaths \cup {d}
  BY <1>3, <1>4, <1>5, <1>6, PairRecords
<1>8. Both(memory, postgres, memory', postgres')
  BY <1>4, <1>7, BothThen
<1>9. DeathsBefore' /\ LastAlone'
  <2>1. \A y \in postgres'.characters : y.alive => y \in postgres.characters /\ y.account # c.account
    BY <1>4, <1>7, ClosedIs
  <2>2. \A y \in postgres.characters : y.alive /\ y.account # c.account => y \in postgres'.characters
    BY <1>4, <1>7, ClosedIs
  <2>3. postgres'.deaths = postgres.deaths \cup {d}
    BY <1>4, <1>7
  <2> HIDE DEF x
  <2> QED BY <1>1, <1>5, <2>1, <2>2, <2>3, EndsWell
<1>10. Waits /\ UNCHANGED now /\ CallsAgree'
  BY <1>1, QuietCareers
<1> QED BY <1>7, <1>8, <1>9, <1>10, CareersKept DEF n

LEMMA RetireKeeps ==
  ASSUME Same, RowsInv, NEW c \in postgres.characters, c.alive, Retire(c)
  PROVE  Same'
<1> DEFINE n == Cardinality(postgres.accounts)
           x == Closed(c)
           next == Recruit(c.account, c.num + 1)
           m1 == MemorySave(memory, x)
           p1 == PostgresSave(postgres, x)
<1>1. area' = area /\ now' = now /\ Silent
  BY DEF Retire, Working
<1>2. PICK award \in Awards :
        /\ memory' = MemoryInsert(MemoryRecord(m1, Death(c.account, award, 1)), next)
        /\ postgres' = PostgresInsert(PostgresRecord(p1, Death(c.account, award, 1)), next)
  BY DEF Retire, Closed
<1>3. Pair(memory, postgres, n, now) /\ now \in Nat
  BY PairIs
<1>4. /\ Pair(m1, p1, n, now) /\ Both(memory, postgres, m1, p1)
      /\ p1.characters = Replaced(postgres.characters, x) /\ p1.deaths = postgres.deaths
      /\ Len(m1.deaths) = Len(memory.deaths) /\ Len(m1.characters) = Len(memory.characters)
  <2>1. x.id = c.id /\ x.num = c.num /\ x.born = c.born
    BY ClosedIs
  <2> HIDE DEF n, x
  <2> QED BY <1>3, <2>1, PairSaves
<1> DEFINE d == Death(c.account, award, 1)
           m2 == MemoryRecord(m1, d)
           p2 == PostgresRecord(p1, d)
<1>5. d.id = Len(memory.deaths) + 1 /\ d.at = now /\ d.account = c.account /\ c.account \in 1..n
  BY DeathIs, ClosedIs
<1>6. memory' = MemoryInsert(m2, next) /\ postgres' = PostgresInsert(p2, next)
  BY <1>2
<1>7. /\ next.id = Len(memory.characters) + 1 /\ next.num \in Nat /\ next.born = now
      /\ next.alive /\ next.account = c.account
  <2>1. c.num + 1 \in Nat
    BY DEF Same, RecruitsSame
  <2> QED BY <2>1, NextIs
<1>8. /\ Pair(m2, p2, n, now) /\ Both(m1, p1, m2, p2)
      /\ p2.characters = p1.characters /\ p2.deaths = p1.deaths \cup {d} /\ Len(m2.characters) = Len(m1.characters)
  <2> HIDE DEF n, m1, p1, d
  <2> QED BY <1>3, <1>4, <1>5, PairRecords
<1> HIDE DEF n, m1, p1, d, m2, p2, next
<1>9. /\ Pair(memory', postgres', n, now) /\ Both(m2, p2, memory', postgres')
      /\ postgres'.characters = p2.characters \cup {next} /\ postgres'.deaths = p2.deaths
  <2>1. next.id = Len(m2.characters) + 1 /\ next.born \in Nat /\ next.born <= now
    BY <1>3, <1>4, <1>7, <1>8
  <2> QED BY <1>6, <1>7, <1>8, <2>1, PairInserts
<1>10. Both(memory, postgres, memory', postgres')
  BY <1>4, <1>8, <1>9, BothThen
<1>11. DeathsBefore' /\ LastAlone'
  <2>0. postgres'.characters = Replaced(postgres.characters, x) \cup {next}
    BY <1>4, <1>8, <1>9
  <2>1. \A y \in postgres'.characters :
          y.alive => (y \in postgres.characters /\ y.account # c.account) \/ (y.account = c.account /\ y.born = now)
    BY <1>7, <2>0, ClosedIs
  <2>2. \A y \in postgres.characters : y.alive /\ y.account # c.account => y \in postgres'.characters
    BY <2>0, ClosedIs
  <2>3. postgres'.deaths = postgres.deaths \cup {d}
    BY <1>4, <1>8, <1>9
  <2>4. \E y \in postgres'.characters : y.alive /\ y.account = c.account
    BY <1>7, <2>0
  <2> HIDE DEF x
  <2> QED BY <1>1, <1>5, <2>1, <2>2, <2>3, <2>4, EndsWell
<1>12. Waits /\ UNCHANGED now /\ CallsAgree'
  BY <1>1, QuietCareers
<1> QED BY <1>9, <1>10, <1>11, <1>12, CareersKept DEF n

LEMMA TransferKeeps ==
  ASSUME Same, RowsInv, NEW c \in postgres.characters, c.alive, NEW killed \in BOOLEAN, Transfer(c, killed)
  PROVE  Same'
<1> DEFINE n == Cardinality(postgres.accounts)
           x == Closed(c)
           next == Recruit(c.account, 1)
           m1 == MemorySave(memory, x)
           p1 == PostgresSave(postgres, x)
<1>1. area' = area /\ now' = now /\ Silent
  BY DEF Transfer, Working
<1>2. PICK award \in Awards :
        LET killing  == Death(c.account, award, 1)
            filed == Death(c.account, award, IF killed THEN 2 ELSE 1)
        IN  /\ memory' = MemoryInsert(MemoryRecord(IF killed THEN MemoryRecord(m1, killing) ELSE m1, filed), next)
            /\ postgres' = PostgresInsert(PostgresRecord(IF killed THEN PostgresRecord(p1, killing) ELSE p1, filed), next)
  BY DEF Transfer, Closed
<1>3. Pair(memory, postgres, n, now) /\ now \in Nat
  BY PairIs
<1>4. /\ Pair(m1, p1, n, now) /\ Both(memory, postgres, m1, p1)
      /\ p1.characters = Replaced(postgres.characters, x) /\ p1.deaths = postgres.deaths
      /\ Len(m1.deaths) = Len(memory.deaths) /\ Len(m1.characters) = Len(memory.characters)
  <2>1. x.id = c.id /\ x.num = c.num /\ x.born = c.born
    BY ClosedIs
  <2> HIDE DEF n, x
  <2> QED BY <1>3, <2>1, PairSaves
<1> DEFINE killing == Death(c.account, award, 1)
           k == IF killed THEN 2 ELSE 1
           filed == Death(c.account, award, k)
           m2 == IF killed THEN MemoryRecord(m1, killing) ELSE m1
           p2 == IF killed THEN PostgresRecord(p1, killing) ELSE p1
           m3 == MemoryRecord(m2, filed)
           p3 == PostgresRecord(p2, filed)
<1>5. /\ killing.id = Len(memory.deaths) + 1 /\ killing.at = now /\ killing.account = c.account /\ c.account \in 1..n
      /\ filed.id = Len(memory.deaths) + k /\ filed.at = now /\ filed.account = c.account
  <2>1. killing.id = Len(memory.deaths) + 1 /\ killing.at = now /\ killing.account = c.account /\ c.account \in 1..n
    BY DeathIs, ClosedIs
  <2>2. filed.id = Len(memory.deaths) + k /\ filed.at = now /\ filed.account = c.account
    <3> HIDE DEF k, x, next, m1, p1, killing, n
    <3> QED BY DeathIs
  <2> QED BY <2>1, <2>2
<1>6. memory' = MemoryInsert(m3, next) /\ postgres' = PostgresInsert(p3, next)
  BY <1>2
<1>7. /\ next.id = Len(memory.characters) + 1 /\ next.num \in Nat /\ next.born = now
      /\ next.alive /\ next.account = c.account
  BY NextIs
<1> HIDE DEF n, m1, p1, killing, filed
<1>8. /\ Pair(m2, p2, n, now) /\ Both(memory, postgres, m2, p2)
      /\ p2.characters = p1.characters /\ p2.deaths \subseteq p1.deaths \cup {killing} /\ p1.deaths \subseteq p2.deaths
      /\ Len(m2.characters) = Len(m1.characters) /\ filed.id = Len(m2.deaths) + 1
  <2>1. CASE killed
    <3>1. m2 = MemoryRecord(m1, killing) /\ p2 = PostgresRecord(p1, killing) /\ k = 2
      BY <2>1
    <3> HIDE DEF m2, p2, k
    <3>2. /\ Pair(m2, p2, n, now) /\ Both(m1, p1, m2, p2)
          /\ p2.characters = p1.characters /\ p2.deaths = p1.deaths \cup {killing}
          /\ Len(m2.deaths) = Len(m1.deaths) + 1 /\ Len(m2.characters) = Len(m1.characters)
      <4>1. killing.id = Len(m1.deaths) + 1 /\ killing.at = now /\ killing.account \in 1..n
        BY <1>4, <1>5
      <4>2. Pair(m1, p1, n, now) /\ now \in Nat
        BY <1>3, <1>4
      <4> HIDE DEF x
      <4> QED BY <3>1, <4>1, <4>2, PairRecords
    <3>3. Both(memory, postgres, m2, p2)
      BY <1>4, <3>2, BothThen
    <3>4. Len(memory.deaths) \in Nat
      BY PairIs
    <3>5. filed.id = Len(m2.deaths) + 1
      BY <1>4, <1>5, <3>1, <3>2, <3>4
    <3> QED BY <3>2, <3>3, <3>5
  <2>2. CASE ~killed
    <3>1. m2 = m1 /\ p2 = p1 /\ k = 1
      BY <2>2
    <3> HIDE DEF m2, p2, k
    <3> QED BY <1>4, <1>5, <3>1
  <2> QED BY <2>1, <2>2
<1> HIDE DEF m2, p2, k
<1>9. /\ Pair(m3, p3, n, now) /\ Both(m2, p2, m3, p3)
      /\ p3.characters = p2.characters /\ p3.deaths = p2.deaths \cup {filed} /\ Len(m3.characters) = Len(m2.characters)
  BY <1>3, <1>5, <1>8, PairRecords
<1> HIDE DEF m3, p3, next
<1>10. /\ Pair(memory', postgres', n, now) /\ Both(m3, p3, memory', postgres')
       /\ postgres'.characters = p3.characters \cup {next} /\ postgres'.deaths = p3.deaths
  <2>1. next.id = Len(m3.characters) + 1 /\ next.born \in Nat /\ next.born <= now
    BY <1>3, <1>4, <1>7, <1>8, <1>9
  <2> QED BY <1>6, <1>7, <1>9, <2>1, PairInserts
<1>11. Both(memory, postgres, memory', postgres')
  BY <1>8, <1>9, <1>10, BothThen
<1>12. DeathsBefore' /\ LastAlone'
  <2>0. postgres'.characters = Replaced(postgres.characters, x) \cup {next}
    BY <1>4, <1>8, <1>9, <1>10
  <2>1. \A y \in postgres'.characters :
          y.alive => (y \in postgres.characters /\ y.account # c.account) \/ (y.account = c.account /\ y.born = now)
    BY <1>7, <2>0, ClosedIs
  <2>2. \A y \in postgres.characters : y.alive /\ y.account # c.account => y \in postgres'.characters
    BY <2>0, ClosedIs
  <2>3. /\ \A d \in postgres'.deaths : d \in postgres.deaths \/ d = killing \/ d = filed
        /\ postgres.deaths \subseteq postgres'.deaths
    BY <1>4, <1>8, <1>9, <1>10
  <2>4. \E y \in postgres'.characters : y.alive /\ y.account = c.account
    BY <1>7, <2>0
  <2> HIDE DEF x
  <2> QED BY <1>1, <1>5, <2>1, <2>2, <2>3, <2>4, EndsWell
<1>13. Waits /\ UNCHANGED now /\ CallsAgree'
  BY <1>1, QuietCareers
<1> QED BY <1>10, <1>11, <1>12, <1>13, CareersKept DEF n

-----------------------------------------------------------------------------
(* Careers begin *)

LEMMA ClaimKeeps ==
  ASSUME Same, RowsInv, NEW a, Claim(a)
  PROVE  Same'
<1> DEFINE n == Cardinality(postgres.accounts)
<1>1. PostgresActive(a) = {} /\ area' = area /\ now' = now
      /\ Told(MemoryLatestDeath(a), PostgresLatestDeath(a))
  BY DEF Claim, Working
<1>2. PICK previous \in PostgresLatest(a) :
        /\ memory' = MemoryInsert(memory, Recruit(a, previous.num + 1))
        /\ postgres' = PostgresInsert(postgres, Recruit(a, previous.num + 1))
  BY DEF Claim
<1> DEFINE x == Recruit(a, previous.num + 1)
<1>3. Pair(memory, postgres, n, now) /\ now \in Nat
  BY PairIs
<1>4. x.id = Len(memory.characters) + 1 /\ x.num \in Nat /\ x.born = now /\ x.alive
  <2>1. previous.num + 1 \in Nat
    BY DEF PostgresLatest, Greatest, Same, RecruitsSame
  <2> QED BY <2>1, NextIs
<1> HIDE DEF n, x
<1>5. /\ Pair(memory', postgres', n, now) /\ Both(memory, postgres, memory', postgres')
      /\ postgres'.characters = postgres.characters \cup {x} /\ postgres'.deaths = postgres.deaths
  <2>1. x.born \in Nat /\ x.born <= now
    BY <1>3, <1>4
  <2> QED BY <1>2, <1>3, <1>4, <2>1, PairInserts DEF x
<1>6. DeathsBefore' /\ LastAlone'
  BY <1>1, <1>4, <1>5, BeginsWell
<1>7. CallsAgree'
  <2>1. MemoryLatestDeath(a) = PostgresLatestDeath(a)
    BY <1>1, LatestDeaths
  <2> QED BY <1>1, <2>1 DEF Told, CallsAgree
<1>8. Waits /\ UNCHANGED now
  BY <1>1, <1>3 DEF Waits
<1> QED BY <1>5, <1>6, <1>7, <1>8, CareersKept DEF n

(* Nothing is written.                                                     *)
LEMMA LooksKeep ==
  ASSUME Same, RowsInv, UNCHANGED <<area, now, memory, postgres>>, CallsAgree'
  PROVE  Same'
<1>1. Waits
  BY DEF Same, Waits
<1>2. Leaves(memory, memory', {}, Stores) /\ Leaves(postgres, postgres', {}, Tables)
  BY DEF Leaves, Same, RowsInv, RowsShaped
<1> QED BY <1>1, <1>2, Kept DEF Same

LEMMA LookKeeps ==
  ASSUME Same, RowsInv, NEW q, NEW d, Look(q, d)
  PROVE  Same'
<1>1. MemoryAccount(d) = PostgresAccount(d)
  <2> DEFINE T == PostgresAccount(d)
             e == memory.accounts
  <2>1. MemoryAccount(d) = Firsts(e, T)
    BY MemoryFinds
  <2>2. Holds(e, postgres.accounts) /\ T \subseteq postgres.accounts
    BY DEF Same, AccountsSame, PostgresAccount
  <2>3. \A x, y \in T : x = y
    BY DEF PostgresAccount, RowsInv, DevicesDiffer
  <2> HIDE DEF e, T
  <2>4. CASE T = {}
    <3>1. Firsts(e, T) = {}
      BY <2>2, <2>4, FirstOf
    <3> QED BY <2>1, <2>4, <3>1 DEF T
  <2>5. CASE T # {}
    <3>1. PICK i \in DOMAIN e : e[i] \in T /\ Firsts(e, T) = {e[i]}
      BY <2>2, <2>5, FirstOf
    <3>2. T = {e[i]}
      BY <2>3, <3>1
    <3> QED BY <2>1, <3>1, <3>2 DEF T
  <2> QED BY <2>4, <2>5
<1>2. UNCHANGED <<area, now, memory, postgres>> /\ CallsAgree'
  BY <1>1 DEF Look, Told, CallsAgree
<1> QED BY <1>2, LooksKeep

OpenWritten == {"accounts", "characters", "ledgers", "filed"}

LEMMA OpenKept ==
  ASSUME Same, Waits, CallsAgree', area = "careers",
         Leaves(memory, memory', OpenWritten, Stores), Leaves(postgres, postgres', OpenWritten, Tables),
         AccountsSame', RecruitsSame', DeathsSame', DeathsBefore', LastAlone', LedgersSame'
  PROVE  Same'
<1>1. memory'.sends = memory.sends /\ postgres'.sends = postgres.sends
      /\ memory'.keys = memory.keys /\ postgres'.keys = postgres.keys /\ area' = "careers"
  BY DEF Leaves, OpenWritten, Stores, Tables, Waits
<1>2. SendsSame'
  BY <1>1 DEF SendsSame, Same
<1>3. KeysSame'
  BY <1>1 DEF KeysSame, Same
<1> QED BY <1>2, <1>3, Kept DEF Same, OpenWritten

(* The account, its pension and orders, and its first recruit.             *)
LEMMA OpenedKeeps ==
  ASSUME Same, RowsInv, Waits, UNCHANGED now, CallsAgree', area = "careers", NEW account,
         account.id = Cardinality(postgres.accounts) + 1, account.seen = now,
         Opened(memory, postgres, account)
  PROVE  Same'
<1> DEFINE b == account.id
           c == Recruit(b, 1)
           m1 == MemoryOpen(memory, account)
           p1 == PostgresOpen(postgres, account)
           m2 == MemoryStore(m1, "pension", b, Default, FALSE)
           p2 == PostgresStore(p1, "pension", b, Default, FALSE)
           m3 == MemoryStore(m2, "orders", b, Default, FALSE)
           p3 == PostgresStore(p2, "orders", b, Default, FALSE)
           e2 == Append(memory.accounts, account)
           R2 == postgres.accounts \cup {account}
<1>1. memory' = MemoryInsert(m3, c) /\ postgres' = PostgresInsert(p3, c)
  BY DEF Opened
<1>2. Row(memory, Stores) /\ Row(postgres, Tables) /\ now \in Nat
      /\ LedgersAlike(memory.ledgers, memory.filed, postgres.ledgers)
  BY LedgersSameIs DEF Same, RowsInv, RowsShaped
<1>3. /\ m1.accounts = e2 /\ p1.accounts = R2
      /\ Leaves(memory, m1, {"accounts"}, Stores) /\ Leaves(postgres, p1, {"accounts"}, Tables)
      /\ LedgersAlike(m1.ledgers, m1.filed, p1.ledgers)
  <2>1. m1 = [memory EXCEPT !.accounts = e2] /\ p1 = [postgres EXCEPT !.accounts = R2]
    BY DEF MemoryOpen, PostgresOpen
  <2> HIDE DEF m1, p1, e2, R2
  <2>2. m1.accounts = e2 /\ p1.accounts = R2
    BY <1>2, <2>1 DEF Row, Stores, Tables
  <2>3. Leaves(memory, m1, {"accounts"}, Stores) /\ Leaves(postgres, p1, {"accounts"}, Tables)
    BY <1>2, <2>1 DEF Row, Stores, Tables, Leaves
  <2>4. m1.ledgers = memory.ledgers /\ m1.filed = memory.filed /\ p1.ledgers = postgres.ledgers
    BY <2>3 DEF Leaves, Stores, Tables
  <2> QED BY <1>2, <2>2, <2>3, <2>4
<1>4. /\ Holds(memory.accounts, postgres.accounts) /\ Numbers(memory.accounts)
      /\ Cardinality(postgres.accounts) = Len(memory.accounts) /\ Len(memory.accounts) \in Nat /\ b \in Nat
  BY AccountIds DEF Same, AccountsSame
<1>5. /\ Holds(e2, R2) /\ Numbers(e2) /\ (\A a \in R2 : a.seen \in Int)
      /\ Cardinality(R2) = Cardinality(postgres.accounts) + 1
  <2>1. Holds(e2, R2) /\ Len(e2) = Len(memory.accounts) + 1
        /\ \A i \in DOMAIN e2 : e2[i] = IF i = Len(memory.accounts) + 1 THEN account ELSE memory.accounts[i]
    BY <1>4, HeldAppend
  <2>2. DOMAIN memory.accounts = 1..Len(memory.accounts)
    BY <1>4, HeldIs
  <2> HIDE DEF e2
  <2>3. DOMAIN e2 = 1..Len(e2)
    BY <2>1, HeldIs
  <2>4. Numbers(e2)
    BY <1>4, <2>1, <2>2, <2>3 DEF Numbers
  <2>5. Cardinality(R2) = Len(e2)
    <3> HIDE DEF R2
    <3> QED BY <2>1, <2>4, HeldIds
  <2>6. \A a \in R2 : a.seen \in Int
    BY <1>2 DEF Same, AccountsSame
  <2> QED BY <1>4, <2>1, <2>4, <2>5, <2>6
<1> HIDE DEF m1, p1, e2, R2
<1>6. /\ Leaves(m1, m2, {"ledgers", "filed"}, Stores) /\ Leaves(p1, p2, {"ledgers", "filed"}, Tables)
      /\ LedgersAlike(m2.ledgers, m2.filed, p2.ledgers)
  <2> HIDE DEF m2, p2, b
  <2>1. m2 = MemoryStore(m1, "pension", b, Default, FALSE) /\ p2 = PostgresStore(p1, "pension", b, Default, FALSE)
    BY DEF m2, p2
  <2>2. Row(m1, Stores) /\ Row(p1, Tables)
    BY <1>3 DEF Leaves
  <2> QED BY <1>3, <1>4, <2>1, <2>2, StoreKeeps
<1> HIDE DEF m2, p2
<1>7. /\ Leaves(m2, m3, {"ledgers", "filed"}, Stores) /\ Leaves(p2, p3, {"ledgers", "filed"}, Tables)
      /\ LedgersAlike(m3.ledgers, m3.filed, p3.ledgers)
  <2> HIDE DEF m3, p3, b
  <2>1. m3 = MemoryStore(m2, "orders", b, Default, FALSE) /\ p3 = PostgresStore(p2, "orders", b, Default, FALSE)
    BY DEF m3, p3
  <2>2. Row(m2, Stores) /\ Row(p2, Tables)
    BY <1>6 DEF Leaves
  <2> QED BY <1>4, <1>6, <2>1, <2>2, StoreKeeps
<1> HIDE DEF m3, p3
<1>8. /\ m3.characters = memory.characters /\ p3.characters = postgres.characters
      /\ m3.deaths = memory.deaths /\ p3.deaths = postgres.deaths
      /\ m3.accounts = e2 /\ p3.accounts = R2
  BY <1>3, <1>6, <1>7 DEF Leaves, Stores, Tables
<1>9. Pair(m3, p3, Cardinality(postgres.accounts), now)
  <2>1. Row(m3, Stores) /\ Row(p3, Tables)
    BY <1>7 DEF Leaves
  <2> QED BY <1>8, <2>1, PairIs DEF Pair
<1>10. c.id = Len(memory.characters) + 1 /\ c.num = 1 /\ c.born = now /\ c.alive
  BY NextIs
<1> HIDE DEF b, c
<1>11. /\ Pair(memory', postgres', Cardinality(postgres.accounts), now) /\ Both(m3, p3, memory', postgres')
       /\ postgres'.characters = postgres.characters \cup {c} /\ postgres'.deaths = postgres.deaths
       /\ memory'.deaths = memory.deaths
  <2>1. c.id = Len(m3.characters) + 1 /\ c.num \in Nat /\ c.born \in Nat /\ c.born <= now
    BY <1>2, <1>8, <1>10
  <2> DEFINE n == Cardinality(postgres.accounts)
  <2> HIDE DEF n
  <2>2. Pair(m3, p3, n, now)
    BY <1>9 DEF n
  <2>3. /\ Pair(memory', postgres', n, now) /\ Both(m3, p3, memory', postgres')
        /\ postgres'.characters = p3.characters \cup {c} /\ postgres'.deaths = p3.deaths /\ memory'.deaths = m3.deaths
    BY <1>1, <2>1, <2>2, PairInserts
  <2> QED BY <1>8, <2>3 DEF n
<1>12. DeathsBefore' /\ LastAlone'
  BY <1>10, <1>11, BeginsWell
<1>13. /\ Leaves(memory, memory', OpenWritten, Stores) /\ Leaves(postgres, postgres', OpenWritten, Tables)
       /\ memory'.accounts = e2 /\ postgres'.accounts = R2
       /\ memory'.ledgers = m3.ledgers /\ memory'.filed = m3.filed /\ postgres'.ledgers = p3.ledgers
  <2>1. \A x \in Stores \ Written : memory'[x] = m3[x]
    BY <1>11 DEF Both, Leaves
  <2>2. \A x \in Tables \ Written : postgres'[x] = p3[x]
    BY <1>11 DEF Both, Leaves
  <2>3. \A x \in Stores \ OpenWritten : m3[x] = memory[x]
    BY <1>3, <1>6, <1>7 DEF Leaves, OpenWritten
  <2>4. \A x \in Tables \ OpenWritten : p3[x] = postgres[x]
    BY <1>3, <1>6, <1>7 DEF Leaves, OpenWritten
  <2>5. memory'.deaths = memory.deaths
    BY <1>8, <1>11
  <2> QED BY <1>8, <1>11, <2>1, <2>2, <2>3, <2>4, <2>5 DEF Both, Leaves, OpenWritten, Written, Stores, Tables
<1>14. AccountsSame'
  BY <1>5, <1>13 DEF AccountsSame
<1>15. RecruitsSame'
  BY <1>11 DEF Pair, RecruitsHeld, RecruitsSame
<1>16. DeathsSame'
  <2> QED BY <1>4, <1>5, <1>11, <1>13 DEF Pair, DeathsHeld, DeathsSame
<1>17. LedgersSame'
  <2>1. LedgersAlike(memory'.ledgers, memory'.filed, postgres'.ledgers)
    BY <1>7, <1>13
  <2> QED BY <2>1 DEF LedgersSame, LedgersAlike, LedgerAlike, LedgerRows, LedgerRow
<1> QED BY <1>12, <1>13, <1>14, <1>15, <1>16, <1>17, OpenKept

LEMMA CreateKeeps ==
  ASSUME Same, RowsInv, NEW q \in Requests, CreateAccount(q)
  PROVE  Same'
<1> DEFINE device  == signing[q].device
           account == [id |-> Cardinality(postgres.accounts) + 1, device |-> device, seen |-> now]
<1>1. signing[q] # NotSigning /\ Silent /\ area' = area /\ now' = now
  BY DEF CreateAccount
<1>2. area = "careers"
  BY <1>1 DEF RowsInv, SigningHere
<1>3. Waits /\ UNCHANGED now /\ CallsAgree'
  BY <1>1, QuietCareers
<1>4. UNCHANGED <<memory, postgres>> \/ Opened(memory, postgres, account)
  BY DEF CreateAccount
<1>5. CASE UNCHANGED <<memory, postgres>>
  BY <1>1, <1>3, <1>5, LooksKeep
<1>6. CASE Opened(memory, postgres, account)
  <2>1. account.id = Cardinality(postgres.accounts) + 1 /\ account.seen = now
    OBVIOUS
  <2> HIDE DEF account
  <2> QED BY <1>2, <1>3, <1>6, <2>1, OpenedKeeps
<1> QED BY <1>4, <1>5, <1>6

-----------------------------------------------------------------------------
(* The first state *)

LEMMA Empty ==
  /\ List(<<>>, 0) /\ Increasing(<<>>, 0) /\ ById({}) = <<>> /\ Len(<<>>) = 0
  /\ Holds(<<>>, {}) /\ Numbers(<<>>) /\ DOMAIN <<>> = {}
<1>1. List(<<>>, 0) /\ Increasing(<<>>, 0)
  BY DEF List, Increasing
<1>2. {<<>>[i] : i \in 1..0} = {}
  OBVIOUS
<1>3. ById({<<>>[i] : i \in 1..0}) = <<>>
  BY <1>1, ByIdIs
<1>4. <<>> \in Seq({}) /\ {} = ToSet(<<>>) /\ DOMAIN <<>> = {}
  BY DEF ToSet
<1> QED BY <1>1, <1>2, <1>3, <1>4 DEF Holds, Numbers

LEMMA NumberedHeld ==
  /\ Holds(Numbered, ToSet(Numbered)) /\ Numbers(Numbered)
  /\ \A a \in ToSet(Numbered) : a.seen = 0
  /\ {a.id : a \in ToSet(Numbered)} = DOMAIN Numbered
<1> DEFINE order == SetToSeq(Devices)
           n == Cardinality(Devices)
           e == [i \in DOMAIN order |-> [id |-> i, device |-> order[i], seen |-> 0]]
<1>1. n \in Nat /\ DOMAIN order = 1..n
  BY Queued, StorageAssumption DEF StorageAssumption
<1>2. Numbered = e
  BY DEF Numbered
<1> HIDE DEF order, n
<1>3. DOMAIN e = 1..n /\ e = [i \in 1..n |-> e[i]] /\ \A i \in 1..n : e[i].id = i /\ e[i].seen = 0
  BY <1>1
<1> HIDE DEF e
<1>4. ToSet(e) = {e[i] : i \in 1..n}
  BY <1>3 DEF ToSet
<1>5. Holds(e, ToSet(e)) /\ Len(e) = n
  BY <1>1, <1>3, <1>4, HeldMap
<1>6. Numbers(e)
  BY <1>3 DEF Numbers
<1>7. {a.id : a \in ToSet(e)} = DOMAIN e
  <2>1. {a.id : a \in ToSet(e)} = 1..Len(e)
    BY <1>5, <1>6, HeldIds
  <2> QED BY <1>3, <1>5, <2>1
<1>8. \A a \in ToSet(e) : a.seen = 0
  BY <1>3, <1>4
<1> QED BY <1>2, <1>5, <1>6, <1>7, <1>8

LEMMA InitSame == StorageInit => Same
<1> SUFFICES ASSUME StorageInit PROVE Same
  OBVIOUS
<1> DEFINE accounts == IF area = "careers" THEN <<>> ELSE Numbered
           first    == [beat |-> 0, cycle |-> 0, progress |-> 0, target |-> ObjectiveOf(0)]
           none     == [i \in {} |-> 0]
<1>1. /\ Row(memory, Stores) /\ now = 0 /\ CallsAgree
      /\ memory.characters = <<>> /\ postgres.characters = {} /\ memory.deaths = <<>> /\ postgres.deaths = {}
      /\ memory.ledgers = none /\ memory.filed = {} /\ postgres.ledgers = {}
      /\ memory.journal = <<>> /\ postgres.journal = {} /\ memory.tavern = <<>> /\ postgres.tavern = {}
      /\ memory.serial = 0 /\ postgres.serial = 0
      /\ memory.tokens = none /\ postgres.tokens = {} /\ postgres.sends = {} /\ postgres.keys = {}
      /\ memory.world = first /\ postgres.world = first
  BY DEF StorageInit, Row, Stores, Tables, CallsAgree
<1>2. /\ memory.accounts = accounts /\ postgres.accounts = ToSet(accounts)
      /\ memory.sends = [i \in DOMAIN accounts |-> none] /\ memory.keys = [i \in DOMAIN accounts |-> <<>>]
  BY DEF StorageInit
<1>3. DOMAIN none = {}
  OBVIOUS
<1>4. /\ Holds(accounts, ToSet(accounts)) /\ Numbers(accounts) /\ \A a \in ToSet(accounts) : a.seen = 0
      /\ area # "careers" => {a.id : a \in ToSet(accounts)} = DOMAIN accounts
  <2>1. CASE area = "careers"
    <3>1. accounts = <<>>
      BY <2>1
    <3> HIDE DEF accounts
    <3>2. ToSet(<<>>) = {}
      BY DEF ToSet
    <3> QED BY <2>1, <3>1, <3>2, Empty
  <2>2. CASE area # "careers"
    <3>1. accounts = Numbered
      BY <2>2
    <3> HIDE DEF accounts
    <3> QED BY <3>1, NumberedHeld
  <2> QED BY <2>1, <2>2
<1> HIDE DEF accounts, none
<1>5. AccountsSame
  BY <1>2, <1>4 DEF AccountsSame
<1>6. RecruitsSame
  BY <1>1, Empty DEF RecruitsSame
<1>7. DeathsSame
  BY <1>1, Empty DEF DeathsSame
<1>8. DeathsBefore /\ LastAlone
  BY <1>1 DEF DeathsBefore, LastAlone
<1>9. LedgersSame
  BY <1>1, <1>3 DEF LedgersSame
<1>10. Parallel(<<>>, ById({}), {}, 0, 0, 0)
  BY Empty DEF Parallel
<1>11. JournalSame
  BY <1>1, <1>10, Empty DEF JournalSame
<1>12. TavernSame
  BY <1>1, <1>10, Empty DEF TavernSame
<1>13. TokensSame
  BY <1>1, <1>3 DEF TokensSame
<1>14. SendsSame
  <2>1. area = "push" => DOMAIN memory.sends = Accounts
    BY <1>2, <1>4 DEF Accounts
  <2>2. \A a \in DOMAIN memory.sends : memory.sends[a] = none
    BY <1>2
  <2> QED BY <1>1, <1>3, <2>1, <2>2, FS_EmptySet DEF SendsSame
<1>15. KeysSame
  <2>1. area = "keys" => DOMAIN memory.keys = Accounts
    BY <1>2, <1>4 DEF Accounts
  <2>2. \A a \in DOMAIN memory.keys : memory.keys[a] = <<>>
    BY <1>2
  <2> QED BY <1>1, <2>1, <2>2 DEF KeysSame, KeyHeld
<1>16. WorldSame
  <2>1. ObjectiveOf(0) \in Nat
    BY StorageAssumption DEF StorageAssumption, ObjectiveOf
  <2>2. Row(first, {"beat", "cycle", "progress", "target"})
        /\ first.cycle \in Nat /\ first.progress \in Nat /\ first.target \in Nat
    BY <2>1 DEF Row
  <2> HIDE DEF first
  <2> QED BY <1>1, <2>2 DEF WorldSame
<1> QED BY <1>1, <1>5, <1>6, <1>7, <1>8, <1>9, <1>11, <1>12, <1>13, <1>14, <1>15, <1>16 DEF Same

-----------------------------------------------------------------------------
(* Every step *)

LEMMA NextSame == RowsInv /\ Same /\ [StorageNext]_storageVars => Same'
<1> SUFFICES ASSUME RowsInv, Same, [StorageNext]_storageVars PROVE Same'
  OBVIOUS
<1>1. ASSUME MinutePasses \/ Over \/ UNCHANGED storageVars PROVE Same'
  BY <1>1, QuietSame
<1>2. ASSUME NEW q \in Requests, CreateAccount(q) \/ \E d \in Devices : Look(q, d) PROVE Same'
  BY <1>2, CreateKeeps, LookKeeps
<1>3. ASSUME NEW c \in postgres.characters, c.alive,
             RecordDeath(c) \/ Retire(c) \/ \E killed \in BOOLEAN : Transfer(c, killed)
      PROVE  Same'
  BY <1>3, RecordDeathKeeps, RetireKeeps, TransferKeeps
<1>4. ASSUME NEW a \in Accounts PROVE
        /\ Claim(a) => Same'
        /\ TouchAccountSeen(a) \/ MarkAway(a) => Same'
        /\ SendTavernMessage(a) => Same'
        /\ CompleteIdempotent(a) => Same'
        /\ ReleaseIdempotent(a) => Same'
        /\ (\E l \in Ledgers, v \in Settings : SaveLedger(l, a, v)) => Same'
        /\ (\E t \in Tokens : SavePushToken(a, t)) => Same'
        /\ (\E e \in Events : ClaimPushSend(a, e)) => Same'
        /\ (\E c \in Calls : BeginIdempotent(a, c)) => Same'
  <2>1. Claim(a) => Same'
    BY ClaimKeeps
  <2>2. TouchAccountSeen(a) \/ MarkAway(a) => Same'
    BY SeenKeeps
  <2>3. SendTavernMessage(a) => Same'
    BY TavernKeeps
  <2>4. CompleteIdempotent(a) => Same'
    BY CompleteKeeps
  <2>5. ReleaseIdempotent(a) => Same'
    BY ReleaseKeeps
  <2>6. (\E l \in Ledgers, v \in Settings : SaveLedger(l, a, v)) => Same'
    BY LedgersKeep
  <2>7. (\E t \in Tokens : SavePushToken(a, t)) => Same'
    BY TokensKeep
  <2>8. (\E e \in Events : ClaimPushSend(a, e)) => Same'
    BY ClaimsKeep
  <2>9. (\E c \in Calls : BeginIdempotent(a, c)) => Same'
    BY BeginKeeps
  <2> QED BY <2>1, <2>2, <2>3, <2>4, <2>5, <2>6, <2>7, <2>8, <2>9
<1>5. ASSUME NEW d \in Devices, NEW t \in 0..now, AppendJournal(d, <<t>>) \/ AppendJournal(d, <<t, now>>)
      PROVE  Same'
  <2>1. List(<<t>>, 1) /\ List(<<t, now>>, 2)
    BY DEF List
  <2> QED BY <1>5, <2>1, JournalKeeps
<1>6. BurnSerial => Same'
  BY BurnKeeps
<1>7. (\E ts \in SUBSET Tokens : DeletePushTokens(ts)) => Same'
  BY TokensKeep
<1>8. ExpireIdempotency => Same'
  BY ExpireKeeps
<1>9. SaveWorld \/ (\E amount \in 0..Target : AddGuildProgress(amount)) => Same'
  BY WorldKeeps
<1> QED BY <1>1, <1>2, <1>3, <1>4, <1>5, <1>6, <1>7, <1>8, <1>9 DEF StorageNext

(* What the tests show of memory holds of Postgres as far as the two       *)
(* answer alike (test/adapters.ts): of any number of devices, accounts,    *)
(* requests and tokens, any limits and times, and whatever calls came      *)
(* before, a read of memory is an answer that Postgres could give, and     *)
(* every call answers the same in both.                                    *)
THEOREM AdaptersAlwaysAgree == StorageSpec => []AdaptersAgree
<1>1. RowsInv /\ Same => AdaptersAgree
  BY RowsRead, ListsRead DEF AdaptersAgree, Same
<1>2. StorageInit => RowsInv /\ Same
  BY InitRows, InitSame
<1>3. RowsInv /\ Same /\ [StorageNext]_storageVars => RowsInv' /\ Same'
  BY NextRows, NextSame
<1> QED BY <1>1, <1>2, <1>3, PTL DEF StorageSpec

=============================================================================
