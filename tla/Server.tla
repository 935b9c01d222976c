------------------------------- MODULE Server --------------------------------
(***************************************************************************)
(* The processes around the one database: what index.ts and migrate.ts do  *)
(* from start to exit, and the world heartbeat they run in between.        *)
(*                                                                         *)
(* A process may die at any point; the platform starts it again.  Time is  *)
(* counted in half seconds.  A process reads a clock of its own, ahead of  *)
(* time by a skew of its host and by what /v1/dev/advance has added; the   *)
(* second is kept in the process and goes with it.                         *)
(***************************************************************************)
EXTENDS Integers, Sequences, FiniteSets

CONSTANTS
  Servers, Deploys,     \* processes of index.ts, runs of migrate.ts
  Env, Hosts,           \* what a process may be started with; which goes with which
  NoProcess,
  LastMigration,        \* the newest file of migrations/
  Build,                \* the newest file each process was built with
  Heartbeat,            \* HEARTBEAT_SECONDS, in half seconds
  Attempts,             \* how often awaitDatabase asks
  Skews, Advances,      \* what clocks may be ahead by
  MaxNow, MaxStops, MaxOutages   \* bounds

Processes == Servers \cup Deploys
Versions == 1..LastMigration

(* Half an interval is a number of half seconds, and so is an interval.    *)
ASSUME ServerAssumption ==
  /\ Servers \cap Deploys = {} /\ NoProcess \notin Processes
  /\ {LastMigration, Heartbeat, Attempts, MaxNow, MaxStops, MaxOutages} \subseteq Nat
  /\ Heartbeat % 2 = 0 /\ Heartbeat > 0 /\ Attempts > 0
  /\ Build \in [Processes -> Versions]
  /\ Skews \subseteq Nat /\ Advances \subseteq Nat
  /\ Env \subseteq [production: BOOLEAN, secret: {"default", "short", "long"}, database: BOOLEAN,
                    origins: BOOLEAN, autoMigrate: {"unset", "true", "false"}, devTools: BOOLEAN]
  /\ Hosts \subseteq [Processes -> Env]

NoWorld == -1    \* the world row is not there yet

VARIABLES now, database, applied, due, env, stage, asked, pending, skew, offset,
          mark, holder, stops, outages

processes == <<env, stage, asked, pending, skew, offset, mark, holder>>
vars == <<now, database, applied, due, processes, stops, outages>>

Stages == {"down", "waiting", "migrating", "applying", "seeding", "serving", "locking", "beating", "over", "alone", "refused"}

Init ==
  /\ now = 0
  /\ database = "up"
  /\ applied = {}
  /\ due = NoWorld
  /\ env \in Hosts
  /\ stage = [p \in Processes |-> "down"]
  /\ asked = [p \in Processes |-> 0]
  /\ pending = [p \in Processes |-> {}]
  /\ skew \in [Processes -> Skews]
  /\ offset = [p \in Processes |-> 0]
  /\ mark = [p \in Processes |-> 0]
  /\ holder = NoProcess
  /\ stops = 0
  /\ outages = 0

-----------------------------------------------------------------------------
(* Configuration *)

AutoMigrate(e) == IF e.autoMigrate = "unset" THEN ~e.production ELSE e.autoMigrate = "true"

DevTools(e) == e.devTools /\ ~e.production

(* loadConfig throws for a production host with the default key, and       *)
(* assertProductionSafe for a short one, for no database and for no        *)
(* origins.                                                                *)
Accepted(e) == e.production => e.secret = "long" /\ e.database /\ e.origins

-----------------------------------------------------------------------------
(* From start to service *)

At(p, s) == stage' = [stage EXCEPT ![p] = s]

(* Everything in memory is gone, an open transaction is rolled back.       *)
Ended(p, s) ==
  /\ At(p, s)
  /\ asked' = [asked EXCEPT ![p] = 0]
  /\ pending' = [pending EXCEPT ![p] = {}]
  /\ offset' = [offset EXCEPT ![p] = 0]
  /\ mark' = [mark EXCEPT ![p] = 0]
  /\ holder' = IF holder = p THEN NoProcess ELSE holder
  /\ UNCHANGED <<env, skew>>

(* A configuration that is not accepted never will be.  Without a database *)
(* a deploy has nothing to do, and a server serves what it has in memory.  *)
Start(p) ==
  /\ stage[p] = "down"
  /\ \/ /\ Accepted(env[p]) /\ env[p].database
        /\ At(p, "waiting")
     \/ /\ Accepted(env[p]) /\ ~env[p].database
        /\ At(p, IF p \in Deploys THEN "refused" ELSE "alone")
     \/ /\ ~Accepted(env[p])
        /\ At(p, "refused")
  /\ UNCHANGED <<now, database, applied, due, env, asked, pending, skew, offset, mark, holder, stops, outages>>

(* awaitDatabase: the last refusal is thrown.  A deploy does not wait.     *)
Await(p) ==
  /\ stage[p] = "waiting"
  /\ \/ /\ database = "up"
        /\ At(p, "migrating")
        /\ asked' = [asked EXCEPT ![p] = 0]
        /\ UNCHANGED <<env, pending, skew, offset, mark, holder>>
     \/ /\ database = "down" /\ p \in Servers /\ asked[p] + 1 < Attempts
        /\ asked' = [asked EXCEPT ![p] = @ + 1]
        /\ UNCHANGED <<env, stage, pending, skew, offset, mark, holder>>
     \/ /\ database = "down" /\ (p \in Servers => asked[p] + 1 >= Attempts)
        /\ Ended(p, "down")
  /\ UNCHANGED <<now, database, applied, due, stops, outages>>

(* Mutation: asked of the files only, whatever has been recorded.          *)
OutstandingAlways(p) == 1..Build[p]

(* pendingMigrations: the files of this build that are not recorded.       *)
Outstanding(p) == (1..Build[p]) \ applied

(* Mutation: a schema that is behind is served all the same.               *)
MayServeAnyway(p) == TRUE

(* Without autoMigrate a server refuses a schema that is behind.           *)
MayServe(p) == Outstanding(p) = {}

Migrates(p) == p \in Deploys \/ AutoMigrate(env[p])

(* The list is read once, before the first file and under no lock.         *)
ReadPending(p) ==
  /\ stage[p] = "migrating" /\ database = "up"
  /\ \/ /\ Migrates(p)
        /\ pending' = [pending EXCEPT ![p] = Outstanding(p)]
        /\ At(p, "applying")
        /\ UNCHANGED <<env, asked, skew, offset, mark, holder>>
     \/ /\ ~Migrates(p) /\ MayServe(p)
        /\ At(p, "seeding")
        /\ UNCHANGED <<env, asked, pending, skew, offset, mark, holder>>
     \/ /\ ~Migrates(p) /\ ~MayServe(p)
        /\ Ended(p, "down")
  /\ UNCHANGED <<now, database, applied, due, stops, outages>>

(* Mutation: filename order lost.                                          *)
FirstNewest(versions) == CHOOSE v \in versions : \A w \in versions : w <= v

First(versions) == CHOOSE v \in versions : \A w \in versions : v <= w

(* One file and its record in one transaction.  A file another process has *)
(* recorded meanwhile fails on the key, is rolled back, and ends the boot. *)
Apply(p) ==
  LET v == First(pending[p])
  IN  /\ stage[p] = "applying" /\ database = "up" /\ pending[p] # {}
      /\ \/ /\ v \notin applied
            /\ applied' = applied \cup {v}
            /\ pending' = [pending EXCEPT ![p] = @ \ {v}]
            /\ UNCHANGED <<env, stage, asked, skew, offset, mark, holder>>
         \/ /\ v \in applied
            /\ Ended(p, "down")
            /\ UNCHANGED applied
      /\ UNCHANGED <<now, database, due, stops, outages>>

(* A deploy is done; a server goes on to the world row.                    *)
Migrated(p) ==
  /\ stage[p] = "applying" /\ pending[p] = {}
  /\ At(p, IF p \in Deploys THEN "over" ELSE "seeding")
  /\ UNCHANGED <<now, database, applied, due, env, asked, pending, skew, offset, mark, holder, stops, outages>>

(* INSERT ... ON CONFLICT DO NOTHING, on the host's clock and not the      *)
(* world's; then the timers start and the port opens.                      *)
Seed(p) ==
  /\ stage[p] = "seeding" /\ database = "up"
  /\ due' = IF due = NoWorld THEN now + skew[p] + Heartbeat ELSE due
  /\ At(p, "serving")
  /\ UNCHANGED <<now, database, applied, env, asked, pending, skew, offset, mark, holder, stops, outages>>

-----------------------------------------------------------------------------
(* The world heartbeat *)

(* clock.ts                                                                *)
WorldNow(p) == now + skew[p] + offset[p]

(* Mutation: the gap that cannot be is taken for one that is not yet due.  *)
BeatIsDuePatiently(d, t) == d - t <= 0

(* Mutation: the sign of the comparison: only what is far off is due.      *)
BeatIsDueOnlyAhead(d, t) == d - t > Heartbeat

(* beatOnce: due, or further off than anything legitimate.                 *)
BeatIsDue(d, t) == d - t > Heartbeat \/ d - t <= 0

Free == holder = NoProcess

(* The timer: the time of the beat is taken before anything is waited for. *)
Timer(p) ==
  /\ stage[p] = "serving" /\ database = "up"
  /\ mark' = [mark EXCEPT ![p] = WorldNow(p)]
  /\ At(p, "locking")
  /\ UNCHANGED <<now, database, applied, due, env, asked, pending, skew, offset, holder, stops, outages>>

(* The row is read under its lock; a beat not due commits nothing.         *)
Look(p) ==
  /\ stage[p] = "locking" /\ database = "up"
  /\ Free
  /\ \/ /\ BeatIsDue(due, mark[p])
        /\ holder' = p
        /\ At(p, "beating")
        /\ UNCHANGED mark
     \/ /\ ~BeatIsDue(due, mark[p])
        /\ At(p, "serving")
        /\ mark' = [mark EXCEPT ![p] = 0]
        /\ UNCHANGED holder
  /\ UNCHANGED <<now, database, applied, due, env, asked, pending, skew, offset, stops, outages>>

(* advanceWorld and the commit.                                            *)
Beat(p) ==
  /\ stage[p] = "beating" /\ database = "up"
  /\ due' = mark[p] + Heartbeat
  /\ mark' = [mark EXCEPT ![p] = 0]
  /\ holder' = NoProcess
  /\ At(p, "serving")
  /\ UNCHANGED <<now, database, applied, env, asked, pending, skew, offset, stops, outages>>

(* /v1/dev/advance and /v1/dev/away, where the routes exist.               *)
Advance(p, t) ==
  /\ stage[p] \in {"serving", "locking", "beating"}
  /\ DevTools(env[p])
  /\ offset[p] = 0    \* bound: one fast-forward in a process's life
  /\ offset' = [offset EXCEPT ![p] = @ + t]
  /\ UNCHANGED <<now, database, applied, due, env, stage, asked, pending, skew, mark, holder, stops, outages>>

-----------------------------------------------------------------------------
(* What stops a process, and what the rest of the world does *)

(* SIGTERM: the timers are cleared, open work drains, the pool is closed.  *)
Shutdown(p) ==
  /\ stage[p] = "serving" /\ stops < MaxStops
  /\ stops' = stops + 1
  /\ Ended(p, "down")
  /\ UNCHANGED <<now, database, applied, due, outages>>

(* A throw outside a request, or the host: at any point.                   *)
Crash(p) ==
  /\ stage[p] \notin {"down", "over", "alone", "refused"} /\ stops < MaxStops
  /\ stops' = stops + 1
  /\ Ended(p, "down")
  /\ UNCHANGED <<now, database, applied, due, outages>>

(* Boots fail with the database; so does the beat in hand, which the next  *)
(* timer repeats.                                                          *)
DatabaseGoes ==
  /\ database = "up" /\ outages < MaxOutages
  /\ database' = "down"
  /\ outages' = outages + 1
  /\ stage' = [p \in Processes |-> IF stage[p] \in {"migrating", "applying", "seeding"} THEN "down"
                                   ELSE IF stage[p] \in {"locking", "beating"} THEN "serving" ELSE stage[p]]
  /\ pending' = [p \in Processes |-> IF stage[p] = "applying" THEN {} ELSE pending[p]]
  /\ mark' = [p \in Processes |-> 0]
  /\ holder' = NoProcess
  /\ UNCHANGED <<now, applied, due, env, asked, skew, offset, stops>>

DatabaseReturns ==
  /\ database = "down"
  /\ database' = "up"
  /\ UNCHANGED <<now, applied, due, processes, stops, outages>>

Clock ==
  /\ now < MaxNow
  /\ now' = now + 1
  /\ UNCHANGED <<database, applied, due, processes, stops, outages>>

Idle == now = MaxNow /\ UNCHANGED vars

Boot(p) == Start(p) \/ Await(p) \/ ReadPending(p) \/ Apply(p) \/ Migrated(p) \/ Seed(p)

Next ==
  \/ Clock \/ DatabaseGoes \/ DatabaseReturns \/ Idle
  \/ \E p \in Processes :
       Boot(p) \/ Timer(p) \/ Look(p) \/ Beat(p) \/ Shutdown(p) \/ Crash(p)
       \/ \E t \in Advances : Advance(p, t)

(* The platform starts what is down and a boot goes on; the timer fires    *)
(* five times an interval; an outage ends.                                 *)
Spec ==
  /\ Init /\ [][Next]_vars
  /\ WF_vars(DatabaseReturns)
  /\ \A p \in Processes : WF_vars(Boot(p)) /\ WF_vars(Timer(p) \/ Look(p) \/ Beat(p))

-----------------------------------------------------------------------------
(* /ready *)

(* Math.round(x / 2): half seconds to seconds, halves up.                  *)
Seconds(x) == (x + 1) \div 2

AtLeastZero(x) == IF x < 0 THEN 0 ELSE x

OverdueSeconds(d, t) == AtLeastZero(Seconds(t - d))

AheadSeconds(d, t) == AtLeastZero(Seconds(d - t - Heartbeat))

StaleWorld(d, t) == OverdueSeconds(d, t) > 3 * (Heartbeat \div 2) \/ AheadSeconds(d, t) > 0

-----------------------------------------------------------------------------
(* Properties *)

(* A server that answers has every file of its build applied, and a world  *)
(* row to answer from; and whoever migrates, and whichever of them dies or *)
(* loses a race in the middle, no recorded file comes after one skipped.   *)
ServesItsOwnSchema ==
  /\ \A p \in Processes :
       stage[p] \in {"serving", "locking", "beating"} => 1..Build[p] \subseteq applied /\ due # NoWorld
  /\ \A v \in applied : 1..v \subseteq applied

(* A boot that loses a race for a file, or finds no database, is only a    *)
(* delay: with the schema brought up by anyone, every server that is       *)
(* configured serves.                                                      *)
EveryServerServes ==
  \A p \in Servers :
    stage[p] = "down" /\ Accepted(env[p]) /\ env[p].database ~> stage[p] = "serving"

(* The shared world does not stop, nor fall behind: what /ready of a       *)
(* process calls stale, a due time out of reach that a clock ahead of this *)
(* one left included, does not outlast the timer of that process.          *)
Alarmed(p) == stage[p] \in {"serving", "locking", "beating"} /\ StaleWorld(due, WorldNow(p))

WorldIsRepaired == \A p \in Servers : Alarmed(p) ~> ~Alarmed(p)
=============================================================================
