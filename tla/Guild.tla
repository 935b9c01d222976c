-------------------------------- MODULE Guild --------------------------------
(***************************************************************************)
(* The regional effort: one world row that every officer's resolution and  *)
(* the world heartbeat write, and each account's own standing.             *)
(*                                                                         *)
(* A transaction reads the world row FOR UPDATE, so from that read to its  *)
(* commit nobody else does; `seen' is what an open transaction has read.   *)
(* A transaction that throws or is cut off rolls back.  What a span does   *)
(* underground is an amount; the purse is the gold that shares put in it.  *)
(*                                                                         *)
(* `counted', `settled' and `advanced' are history, by cycle: what an      *)
(* officer's work moved the bar by, what was settled of it, and what moved *)
(* the bar in all.                                                         *)
(***************************************************************************)
EXTENDS Integers, Sequences

CONSTANTS
  Officers, Heartbeat,    \* the transactions that read the world row
  Unread,
  Targets, Purse,         \* the rotation: what each objective asks for and pays
  MinimumShare,           \* GUILD_MINIMUM_SHARE
  Restrictions,           \* sites a Special Assignment may impose, or NoSite
  NoSite,
  MaxCycle, MaxWork       \* bounds

Sites == {"holdings", "annexe"}

ASSUME GuildAssumption ==
  /\ Heartbeat \notin Officers
  /\ Targets \in Seq(Nat \ {0}) /\ Targets # <<>>
  /\ {Purse, MinimumShare, MaxCycle, MaxWork} \subseteq Nat
  /\ NoSite \notin Sites /\ Restrictions \subseteq Sites \cup {NoSite}

VARIABLES world, standing, purse, seen, counted, settled, advanced

vars == <<world, standing, purse, seen, counted, settled, advanced>>

Cycles == 0..MaxCycle

World == [cycle: Cycles, progress: Nat, target: Nat]
Standing == [cycle: Cycles, contribution: Nat, paid: Nat]

ASSUME UnreadAssumption == Unread \notin World

Transactions == Officers \cup {Heartbeat}

-----------------------------------------------------------------------------
(* The rotation and its arithmetic *)

(* objectiveForCycle, and the CASE over the same catalogue in SQL.         *)
TargetOf(cycle) == Targets[1 + (cycle % Len(Targets))]

NextTarget(cycle) == TargetOf(cycle + 1)

(* The Annexe counts for half as much again, rounded to nearest.           *)
ContributionOf(raw, site) == IF site = "annexe" THEN (3 * raw + 1) \div 2 ELSE raw

(* Rounded, with a floor under everyone who turned up at all.              *)
GuildShare(contribution, target) ==
  LET proportional == (2 * contribution * Purse + target) \div (2 * target)
  IN  IF contribution = 0 THEN 0
      ELSE IF proportional > MinimumShare THEN proportional ELSE MinimumShare

(* The add reaches the target.                                             *)
Completes(w, amount) == w.progress + amount >= w.target

(* addGuildProgress: the add, the completion test and the roll in one      *)
(* UPDATE.  What is over the target is not carried into the next cycle.    *)
Added(w, amount) ==
  IF Completes(w, amount)
  THEN [cycle |-> w.cycle + 1, progress |-> 0, target |-> NextTarget(w.cycle)]
  ELSE [w EXCEPT !.progress = @ + amount]

-----------------------------------------------------------------------------
(* applyGuild, on the standing of one account *)

(* What is due when the world, as read, has moved on from the standing.    *)
Due(s, w) == IF s.cycle < w.cycle THEN GuildShare(s.contribution, TargetOf(s.cycle)) ELSE 0

(* Mutation: the share paid and the contribution left on the row.          *)
SettledTwice(s, w) ==
  IF s.cycle < w.cycle
  THEN [s EXCEPT !.paid = @ + Due(s, w)]
  ELSE s

Settled(s, w) ==
  IF s.cycle < w.cycle
  THEN [cycle |-> w.cycle, contribution |-> 0, paid |-> s.paid + Due(s, w)]
  ELSE s

(* Mutation: the cycle the UPDATE returns, rolled or not.                  *)
CreditedAhead(s, amount) ==
  IF amount = 0 THEN s
  ELSE [s EXCEPT !.cycle = Added(world, amount).cycle,
                 !.contribution = IF s.cycle = Added(world, amount).cycle THEN @ + amount ELSE amount]

(* Work counts toward the cycle it moved, completed by it or not.          *)
Credited(s, amount) ==
  IF amount = 0 THEN s
  ELSE [s EXCEPT !.cycle = world.cycle,
                 !.contribution = IF s.cycle = world.cycle THEN @ + amount ELSE amount]

Init ==
  /\ world = [cycle |-> 0, progress |-> 0, target |-> TargetOf(0)]
  /\ standing = [o \in Officers |-> [cycle |-> 0, contribution |-> 0, paid |-> 0]]
  /\ purse = [o \in Officers |-> 0]
  /\ seen = [t \in Transactions |-> Unread]
  /\ counted = [o \in Officers |-> [c \in Cycles |-> 0]]
  /\ settled = counted
  /\ advanced = [c \in Cycles |-> 0]

-----------------------------------------------------------------------------
(* Transactions *)

(* The world row is not held by another transaction.                       *)
Unlocked == \A t \in Transactions : seen[t] = Unread

(* getWorld, FOR UPDATE.  A second request of the same account waits for   *)
(* the row of its recruit.                                                 *)
ReadWorld(t) ==
  /\ seen[t] = Unread
  /\ Unlocked
  /\ seen' = [seen EXCEPT ![t] = world]
  /\ UNCHANGED <<world, standing, purse, counted, settled, advanced>>

(* applyGuild as the transaction that resolved a span commits it: settle,  *)
(* add, credit.  The history follows.                                      *)
Apply(o, amount) ==
  LET s == standing[o]
      w == seen[o]
  IN  /\ amount = 0 \/ world.cycle < MaxCycle
      /\ world' = IF amount = 0 THEN world ELSE Added(world, amount)
      /\ standing' = [standing EXCEPT ![o] = Credited(Settled(s, w), amount)]
      /\ settled' = IF s.cycle < w.cycle
                    THEN [settled EXCEPT ![o][s.cycle] = @ + s.contribution] ELSE settled
      /\ counted' = [counted EXCEPT ![o][world.cycle] = @ + amount]
      /\ advanced' = [advanced EXCEPT ![world.cycle] = @ + amount]
      /\ seen' = [seen EXCEPT ![o] = Unread]

(* A span resolved by GET /v1/state: the site is the one it was served at. *)
ResolveOnRead(o) ==
  /\ seen[o] # Unread
  /\ \E raw \in 0..MaxWork, orders \in Sites, restriction \in Restrictions :
       LET site == IF restriction = NoSite THEN orders ELSE restriction
       IN  Apply(o, ContributionOf(raw, site))
  /\ purse' = [purse EXCEPT ![o] = @ + Due(standing[o], seen[o])]

(* A span resolved on the way into a write: the site is the one in the     *)
(* standing orders, whatever the assignment imposed.                       *)
ResolveOnWrite(o) ==
  /\ seen[o] # Unread
  /\ \E raw \in 0..MaxWork, orders \in Sites : Apply(o, ContributionOf(raw, orders))
  /\ purse' = [purse EXCEPT ![o] = @ + Due(standing[o], seen[o])]

(* GET /v1/state with no tick to resolve: applyGuild settles all the same, *)
(* and the recruit with the share in its purse is not saved.               *)
ReadNothingNew(o) ==
  /\ seen[o] # Unread
  /\ Apply(o, 0)
  /\ UNCHANGED purse

(* Mutation: the heartbeat starting the bar over with the market.          *)
BeatenAfresh(w) == [w EXCEPT !.progress = 0]

(* advanceWorld leaves the guild columns as it read them.                  *)
Beaten(w) == w

(* The heartbeat writes the whole row back.                                *)
Beat ==
  /\ seen[Heartbeat] # Unread
  /\ world' = Beaten(seen[Heartbeat])
  /\ seen' = [seen EXCEPT ![Heartbeat] = Unread]
  /\ UNCHANGED <<standing, purse, counted, settled, advanced>>

(* The transaction is refused, or dies: nothing it did stays.              *)
RollBack(t) ==
  /\ seen[t] # Unread
  /\ seen' = [seen EXCEPT ![t] = Unread]
  /\ UNCHANGED <<world, standing, purse, counted, settled, advanced>>

Next ==
  \/ \E t \in Transactions : ReadWorld(t) \/ RollBack(t)
  \/ \E o \in Officers : ResolveOnRead(o) \/ ResolveOnWrite(o) \/ ReadNothingNew(o)
  \/ Beat

Spec == Init /\ [][Next]_vars

-----------------------------------------------------------------------------
(* Properties *)

(* The rows are well formed; in particular no transaction finds the rows   *)
(* further along than the rotation has gone.                               *)
TypeOK ==
  /\ world \in World
  /\ standing \in [Officers -> Standing]
  /\ purse \in [Officers -> Nat]
  /\ seen \in [Transactions -> World \cup {Unread}]
  /\ counted \in [Officers -> [Cycles -> Nat]]
  /\ settled \in [Officers -> [Cycles -> Nat]]
  /\ advanced \in [Cycles -> Nat]
  /\ \A o \in Officers : standing[o].cycle <= world.cycle

(* applyGuild, service.ts:1931-1960: all the work an officer's spans did   *)
(* for a cycle is settled, once, or still on the standing, though others   *)
(* roll the cycle meanwhile.  Whether the gold arrives is the next.        *)
WorkSettledOnce ==
  \A o \in Officers, c \in Cycles :
    counted[o][c] = settled[o][c] + (IF standing[o].cycle = c THEN standing[o].contribution ELSE 0)

(* What a standing says was paid is in the purse: "everyone who            *)
(* contributed to it is paid -- lazily, on their next read" (guild.ts:18), *)
(* "the share reaches the purse and the journal on the next read"          *)
(* (guild.test.ts:162).  A read of no tick says so and saves no purse.     *)
SharesReachThePurse == \A o \in Officers : purse[o] = standing[o].paid

(* postgres.ts:370, no contribution is lost when two officers resolve      *)
(* together, nor to a heartbeat: the bar is the work of its cycle.         *)
BarIsTheWork ==
  world.progress = advanced[world.cycle] /\ world.progress < world.target

(* An objective is met before the cycle moves on, and the bar is measured  *)
(* against the objective shares are paid on (postgres.ts:376).             *)
ObjectivesWereMet ==
  /\ \A c \in Cycles : c < world.cycle => advanced[c] >= TargetOf(c)
  /\ world.target = TargetOf(world.cycle)

(* No objective is paid for a second time, nor one still open: what is     *)
(* settled of a cycle does not change once it is paid, and is paid only    *)
(* when the cycle is behind.                                               *)
PaidOnceWhenClosed ==
  [][\A o \in Officers, c \in Cycles :
       settled'[o][c] # settled[o][c] => settled[o][c] = 0 /\ c < world.cycle]_vars
=============================================================================
