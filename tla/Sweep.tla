-------------------------------- MODULE Sweep --------------------------------
(***************************************************************************)
(* The death sweep and its push notifications, beside the officers whose   *)
(* recruits it replays.                                                    *)
(*                                                                         *)
(* A sweeper is one pass of sweepOnce: nothing in startHeartbeat or in two *)
(* instances keeps passes apart.  A pass holds no lock and no transaction, *)
(* so each of its statements, and each answer of FCM, is a step.  An       *)
(* officer's request is one transaction and one step.                      *)
(*                                                                         *)
(* A recruit's fate is a function of its number, the tick, the orders, and *)
(* whether its file holds what the peek leaves out (case files, filings,   *)
(* commendations, an assignment's restriction): Fatal lists the ticks that *)
(* kill.  `rung' is history.                                               *)
(***************************************************************************)
EXTENDS Integers, Sequences, FiniteSets

CONSTANTS
  Accounts, NoAccount,
  Broken,              \* accounts whose replay throws
  Tokens,              \* devices, each with its registration token
  Sweepers,            \* passes that may overlap
  Orders,              \* standing orders, as far as they decide a fate
  Files, Bare,         \* what a file may hold beside; what the peek assumes it holds
  Fatal,
  Away, Limit,         \* AWAY_SECONDS and SWEEP_LIMIT
  Cap, Day,            \* PUSH_DAILY_CAP and the interval it counts over
  MaxTime, MaxRecruits \* bounds

Times == 0..MaxTime
Recruits == 1..MaxRecruits

ASSUME SweepAssumption ==
  /\ {Away, Limit, Cap, Day, MaxTime, MaxRecruits} \subseteq Nat
  /\ Bare \in Files
  /\ NoAccount \notin Accounts /\ Broken \subseteq Accounts
  /\ Fatal \subseteq [num: Recruits, tick: Times, orders: Orders, file: Files]

VARIABLES now, seen, recruit, orders, file, holder, installed, sends,
          at, queue, copy, rest, stale, rung

officers == <<seen, recruit, orders, file>>
devices == <<holder, installed>>
sweeps == <<at, queue, copy, rest, stale>>
vars == <<now, officers, devices, sends, sweeps, rung>>

Record == [num: Recruits, alive: BOOLEAN, resolved: Times]
Claim == [account: Accounts, num: Recruits, at: Times]   \* push_sends: `death:' and the recruit
NoRecord == [num |-> 0, alive |-> FALSE, resolved |-> 0]
Copy == Record \cup {NoRecord}

Steps == {"idle", "reading", "peeking", "counting", "claiming", "listing", "sending", "pruning", "dead"}

Init ==
  /\ now = 0
  /\ seen = [a \in Accounts |-> 0]
  /\ recruit = [a \in Accounts |-> [num |-> 1, alive |-> TRUE, resolved |-> 0]]
  /\ orders \in {[a \in Accounts |-> o] : o \in Orders}
  /\ file = [a \in Accounts |-> Bare]
  /\ holder \in [Tokens -> Accounts]
  /\ installed = Tokens
  /\ sends = {}
  /\ at = [s \in Sweepers |-> "idle"]
  /\ queue = [s \in Sweepers |-> <<>>]
  /\ copy = [s \in Sweepers |-> NoRecord]
  /\ rest = [s \in Sweepers |-> {}]
  /\ stale = [s \in Sweepers |-> {}]
  /\ rung = [s \in Tokens \X Accounts \X Recruits |-> 0]

-----------------------------------------------------------------------------
(* Fates *)

Deadly(n, t, o, f) == [num |-> n, tick |-> t, orders |-> o, file |-> f] \in Fatal

(* The ticks of the span that kill; the first of them is the death.        *)
Deaths(r, o, f) == {t \in (r.resolved + 1)..now : Deadly(r.num, t, o, f)}

(* resolve(), as far as life goes.                                         *)
Resolved(r, o, f) ==
  LET d == Deaths(r, o, f)
  IN  IF ~r.alive THEN r
      ELSE IF d = {} THEN [r EXCEPT !.resolved = now]
      ELSE [r EXCEPT !.alive = FALSE, !.resolved = CHOOSE t \in d : \A u \in d : t <= u]

-----------------------------------------------------------------------------
(* The officers and their devices *)

(* loadState: catches up, and marks the officer present.                   *)
Read(a) ==
  /\ a \notin Broken
  /\ recruit' = [recruit EXCEPT ![a] = Resolved(@, orders[a], file[a])]
  /\ seen' = [seen EXCEPT ![a] = now]
  /\ UNCHANGED <<now, orders, file, devices, sends, sweeps, rung>>

(* A write catches up first, then changes what the next ticks meet.        *)
Act(a, o, f) ==
  /\ a \notin Broken
  /\ recruit' = [recruit EXCEPT ![a] = Resolved(@, orders[a], file[a])]
  /\ orders' = [orders EXCEPT ![a] = o]
  /\ file' = [file EXCEPT ![a] = f]
  /\ UNCHANGED <<now, seen, devices, sends, sweeps, rung>>

(* The pension is claimed and a replacement assigned.                      *)
Succeed(a) ==
  /\ ~recruit[a].alive
  /\ recruit[a].num < MaxRecruits
  /\ recruit' = [recruit EXCEPT ![a] = [num |-> @.num + 1, alive |-> TRUE, resolved |-> now]]
  /\ file' = [file EXCEPT ![a] = Bare]
  /\ UNCHANGED <<now, seen, orders, devices, sends, sweeps, rung>>

(* A token moves to whoever registers it last.                             *)
Register(a, t) ==
  /\ t \in installed
  /\ holder' = [holder EXCEPT ![t] = a]
  /\ UNCHANGED <<now, officers, installed, sends, sweeps, rung>>

Unregister(t) ==
  /\ t \in installed
  /\ holder' = [holder EXCEPT ![t] = NoAccount]
  /\ UNCHANGED <<now, officers, installed, sends, sweeps, rung>>

(* The app is removed: its token is never good again.                      *)
Uninstall(t) ==
  /\ installed' = installed \ {t}
  /\ UNCHANGED <<now, officers, holder, sends, sweeps, rung>>

-----------------------------------------------------------------------------
(* What a pass asks the database *)

Held(a) == {t \in Tokens : holder[t] = a}

IsAway(a) == now - seen[a] > Away /\ Held(a) # {}

(* listSweepCandidates: oldest first, ties in any order, up to the limit.  *)
Candidates ==
  LET away == {a \in Accounts : IsAway(a)}
      n == IF Cardinality(away) < Limit THEN Cardinality(away) ELSE Limit
  IN  {q \in UNION {[1..n -> away]} :
         /\ \A i, j \in 1..n : i < j => q[i] # q[j] /\ seen[q[i]] <= seen[q[j]]
         /\ \A a \in away : (\E i \in 1..n : q[i] = a) \/ \A i \in 1..n : seen[q[i]] <= seen[a]}

Recent(a) == {c \in sends : c.account = a /\ c.at > now - Day}

(* Mutation: no primary key.                                               *)
ClaimedNever(a, n) == FALSE

Claimed(a, n) == \E c \in sends : c.account = a /\ c.num = n

-----------------------------------------------------------------------------
(* A pass, statement by statement *)

Subject(s) == Head(queue[s])

(* Mutation: an error ends the pass for everyone behind it.                *)
AfterErrorNobody(q) == <<>>

AfterError(q) == Tail(q)

(* The rest of the queue `q' is next; what was learnt of the last is left. *)
GoOn(s, q) ==
  /\ queue' = [queue EXCEPT ![s] = q]
  /\ at' = [at EXCEPT ![s] = IF q = <<>> THEN "idle" ELSE "reading"]
  /\ copy' = [copy EXCEPT ![s] = NoRecord]
  /\ rest' = [rest EXCEPT ![s] = {}]
  /\ stale' = [stale EXCEPT ![s] = {}]

(* The sweep timer fires, whether or not the last pass is over.            *)
Begin(s) ==
  /\ at[s] = "idle"
  /\ \E q \in Candidates : GoOn(s, q)
  /\ UNCHANGED <<now, officers, devices, sends, rung>>

Fail(s) ==
  /\ at[s] = "reading"
  /\ Subject(s) \in Broken
  /\ GoOn(s, AfterError(queue[s]))
  /\ UNCHANGED <<now, officers, devices, sends, rung>>

(* getLatestCharacter, with no lock; the dead are skipped.                 *)
ReadRecruit(s) ==
  /\ at[s] = "reading"
  /\ Subject(s) \notin Broken
  /\ IF recruit[Subject(s)].alive
     THEN /\ copy' = [copy EXCEPT ![s] = recruit[Subject(s)]]
          /\ at' = [at EXCEPT ![s] = "peeking"]
          /\ UNCHANGED <<queue, rest, stale>>
     ELSE GoOn(s, Tail(queue[s]))
  /\ UNCHANGED <<now, officers, devices, sends, rung>>

(* getOrders, as they are by now, and the replay without the rest of the   *)
(* file.                                                                   *)
Peek(s) ==
  /\ at[s] = "peeking"
  /\ IF Deaths(copy[s], orders[Subject(s)], Bare) # {}
     THEN /\ at' = [at EXCEPT ![s] = "counting"]
          /\ UNCHANGED <<queue, copy, rest, stale>>
     ELSE GoOn(s, Tail(queue[s]))
  /\ UNCHANGED <<now, officers, devices, sends, rung>>

(* claimPushSend is one statement; its count is of the claims committed    *)
(* before it began.                                                        *)
Count(s) ==
  /\ at[s] = "counting"
  /\ IF Cardinality(Recent(Subject(s))) < Cap
     THEN /\ at' = [at EXCEPT ![s] = "claiming"]
          /\ UNCHANGED <<queue, copy, rest, stale>>
     ELSE GoOn(s, Tail(queue[s]))
  /\ UNCHANGED <<now, officers, devices, sends, rung>>

(* The insert: one of the passes that want this recruit's row gets it.     *)
Insert(s) ==
  LET a == Subject(s)
      n == copy[s].num
  IN  /\ at[s] = "claiming"
      /\ IF Claimed(a, n)
         THEN GoOn(s, Tail(queue[s])) /\ UNCHANGED sends
         ELSE /\ sends' = sends \cup {[account |-> a, num |-> n, at |-> now]}
              /\ at' = [at EXCEPT ![s] = "listing"]
              /\ UNCHANGED <<queue, copy, rest, stale>>
      /\ UNCHANGED <<now, officers, devices, rung>>

ListTokens(s) ==
  /\ at[s] = "listing"
  /\ IF Held(Subject(s)) = {}
     THEN GoOn(s, Tail(queue[s]))
     ELSE /\ rest' = [rest EXCEPT ![s] = Held(Subject(s))]
          /\ at' = [at EXCEPT ![s] = "sending"]
          /\ UNCHANGED <<queue, copy, stale>>
  /\ UNCHANGED <<now, officers, devices, sends, rung>>

(* The answers that condemn a token: 404, and 403 besides.                 *)
Condemned(t, answer) == answer \in {"gone", "denied"}

(* What FCM may answer: `gone' of a removed app only, a refusal of ours or *)
(* theirs of any.                                                          *)
Answers(t) == IF t \in installed THEN {"ok", "denied", "unavailable"} ELSE {"gone", "unavailable"}

(* One token after the other; after the last, only stale ones keep the     *)
(* pass at this account.                                                   *)
SendOne(s, t, answer) ==
  LET left == rest[s] \ {t}
      bad == stale[s] \cup (IF Condemned(t, answer) THEN {t} ELSE {})
  IN  /\ at[s] = "sending"
      /\ t \in rest[s] /\ answer \in Answers(t)
      /\ IF left = {} /\ bad = {}
         THEN GoOn(s, Tail(queue[s]))
         ELSE /\ rest' = [rest EXCEPT ![s] = left]
              /\ stale' = [stale EXCEPT ![s] = bad]
              /\ at' = [at EXCEPT ![s] = IF left = {} THEN "pruning" ELSE "sending"]
              /\ UNCHANGED <<queue, copy>>
      /\ rung' = IF answer = "ok"
                 THEN [rung EXCEPT ![<<t, Subject(s), copy[s].num>>] = IF @ < 2 THEN @ + 1 ELSE 2]
                 ELSE rung
      /\ UNCHANGED <<now, officers, devices, sends>>

(* fetch throws, for the access token or for a message: what has been      *)
(* learnt of the other tokens goes with it.                                *)
SendThrows(s) ==
  /\ at[s] = "sending"
  /\ GoOn(s, AfterError(queue[s]))
  /\ UNCHANGED <<now, officers, devices, sends, rung>>

(* deletePushTokens, whoever holds them by now.                            *)
Prune(s) ==
  /\ at[s] = "pruning"
  /\ holder' = [t \in Tokens |-> IF t \in stale[s] THEN NoAccount ELSE holder[t]]
  /\ GoOn(s, Tail(queue[s]))
  /\ UNCHANGED <<now, officers, installed, sends, rung>>

(* The process dies under its sweep.  The platform keeps one running.      *)
Crash(s) ==
  /\ \E r \in Sweepers \ {s} : at[r] # "dead"
  /\ at[s] # "dead"
  /\ at' = [at EXCEPT ![s] = "dead"]
  /\ queue' = [queue EXCEPT ![s] = <<>>]
  /\ copy' = [copy EXCEPT ![s] = NoRecord]
  /\ rest' = [rest EXCEPT ![s] = {}]
  /\ stale' = [stale EXCEPT ![s] = {}]
  /\ UNCHANGED <<now, officers, devices, sends, rung>>

Pass(s) ==
  \/ Begin(s) \/ Fail(s) \/ ReadRecruit(s) \/ Peek(s) \/ Count(s) \/ Insert(s)
  \/ ListTokens(s) \/ SendThrows(s) \/ Prune(s)
  \/ \E t \in Tokens, answer \in {"ok", "denied", "gone", "unavailable"} : SendOne(s, t, answer)

Clock ==
  /\ now < MaxTime
  /\ now' = now + 1
  /\ UNCHANGED <<officers, devices, sends, sweeps, rung>>

Next ==
  \/ Clock
  \/ \E a \in Accounts :
       \/ Read(a) \/ Succeed(a)
       \/ \E o \in Orders, f \in Files : Act(a, o, f)
       \/ \E t \in Tokens : Register(a, t)
  \/ \E t \in Tokens : Unregister(t) \/ Uninstall(t)
  \/ \E s \in Sweepers : Pass(s) \/ Crash(s)

(* The timer of each sweep fires for as long as its process lives, and a   *)
(* pass goes on to its end.                                                *)
Spec == Init /\ [][Next]_vars /\ \A s \in Sweepers : WF_vars(Pass(s))
-----------------------------------------------------------------------------
(* Properties *)

(* No device is rung twice for one death, however passes overlap, die, are *)
(* repeated or find the token moved between accounts.                      *)
RungOnce == \A x \in DOMAIN rung : rung[x] <= 1

(* A death waiting to be announced: the peek finds it, there is a device   *)
(* to ring and room under the cap, and no pass has claimed it.             *)
Waiting(a) ==
  /\ a \notin Broken /\ IsAway(a)
  /\ recruit[a].alive /\ Deaths(recruit[a], orders[a], Bare) # {}
  /\ ~Claimed(a, recruit[a].num) /\ Cardinality(Recent(a)) < Cap

(* An account that fails does not keep the ones behind it waiting: with no *)
(* more candidates than the limit, no death waits for ever.                *)
NobodyWaitsForEver == \A a \in Accounts : Waiting(a) ~> ~Waiting(a)
=============================================================================
