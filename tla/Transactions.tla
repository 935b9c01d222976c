---------------------------- MODULE Transactions ----------------------------
(***************************************************************************)
(* Several requests of one account at once, statement by statement.        *)
(*                                                                         *)
(* `Career` takes a handler for one step.  What makes that so is in        *)
(* postgres.ts: a transaction at READ COMMITTED, a row lock on the recruit *)
(* who serves (FOR UPDATE), the row locks that writes take, and the unique *)
(* index of one recruit alive per account.  Here a handler is the sequence *)
(* of its statements.  A read sees what is committed, or what its own      *)
(* transaction wrote; a write waits for the transaction that wrote the row *)
(* and then writes what the handler computed, from whatever it had read.   *)
(*                                                                         *)
(* Left out: touchAccountSeen, which only loadState does and so can only   *)
(* keep two reads apart; and the world row.  loadState takes that one FOR  *)
(* UPDATE after it has asked for the recruit, and may wait for rows of the *)
(* account while it holds it.  That adds no cycle: whoever else of the     *)
(* account takes the world row holds the recruit by then, so that the two  *)
(* meet at the recruit first, and a read that found nobody serving waits   *)
(* for no row after it.                                                    *)
(***************************************************************************)
EXTENDS Naturals, FiniteSets, Sequences, TLC

CONSTANTS
    Requests,        \* concurrent requests of the account
    Mixes,           \* what the requests may ask for together
    MaxTick,         \* bound: the last tick of the world's clock
    StartingGold,    \* gold of a recruit on the day of issue
    StartingPension, \* pension held at the start
    Price,           \* of a requisition or an appointment
    RungCost,        \* of a pension rung
    PerCommendation, \* pension banked that is worth a Commendation
    Award,           \* what a career is assessed at
    MinService       \* minutes before Form R-1 may be filed

Nobody == 0

(* Where a handler's statements lead, by their names, from its first.  A   *)
(* statement that only journals, or reads what no other statement here     *)
(* writes, is left out.  The statements of a resolution are the same in    *)
(* every handler; what follows its save is the handler's own.              *)
Inside == [ find |-> "hold", hold |-> "consult", payroll |-> "redeem",
            redeem |-> "assignment", again |-> "retake", tally |-> "reward" ]

FormT1ReadEarly ==
    [ begin |-> "record", record |-> "find", save |-> "again", retake |-> "pension",
      pension |-> "enter", enter |-> "surrender", surrender |-> "separate",
      separate |-> "insert", insert |-> "commit" ]

FormT1 ==
    [ begin |-> "find", save |-> "again", retake |-> "pension", pension |-> "record",
      record |-> "enter", enter |-> "surrender", surrender |-> "separate",
      separate |-> "insert", insert |-> "commit" ]

Follows ==
    [ state        |-> [begin |-> "find", save |-> "commit"],
      desk         |-> [begin |-> "office", office |-> "find", save |-> "again",
                        retake |-> "pay", pay |-> "commit"],
      hire         |-> [begin |-> "find", save |-> "again", retake |-> "posts",
                        posts |-> "appoint", appoint |-> "commit"],
      policy       |-> [begin |-> "posts", posts |-> "amend", amend |-> "find",
                        hold |-> "commit"],
      rung         |-> [begin |-> "pension", pension |-> "buy", buy |-> "commit"],
      claim        |-> [begin |-> "find", hold |-> "death", death |-> "pension",
                        pension |-> "bank", bank |-> "insert", insert |-> "commit"],
      retire       |-> [begin |-> "find", save |-> "close", close |-> "pension",
                        pension |-> "bank", bank |-> "insert", insert |-> "commit"],
      transfer     |-> FormT1,
      abandon      |-> [begin |-> "file", file |-> "handback", handback |-> "find",
                        hold |-> "commit"],
      commendation |-> [begin |-> "record", record |-> "spend", spend |-> "find",
                        hold |-> "commit"],
      absent       |-> [begin |-> "done"] ]

Kinds == DOMAIN Follows

After(k, s) == IF s \in DOMAIN Follows[k] THEN Follows[k][s] ELSE Inside[s]

(* Past a resolution that finds nobody, or nothing to do. *)
Beyond(k) == After(k, "save")

(* The row a statement writes. *)
WritesTo ==
    [ payroll |-> "registries", redeem |-> "pensions", progress |-> "assignments",
      finish |-> "assignments", reward |-> "transfers", pay |-> "offices",
      appoint |-> "registries", amend |-> "registries", buy |-> "pensions",
      bank |-> "pensions", enter |-> "transfers", surrender |-> "pensions",
      handback |-> "assignments", spend |-> "transfers" ]

Shared == {"pensions", "offices", "registries", "assignments", "transfers"}

Tables == Shared \cup {"characters", "deaths"}

ASSUME TransactionsAssumption ==
    /\ Nobody \notin Requests
    /\ Mixes \subseteq [Requests -> Kinds]
    /\ {MaxTick, StartingGold, StartingPension, Price, RungCost, PerCommendation,
        Award, MinService} \subseteq Nat
    /\ Award > 0 /\ PerCommendation > 0

VARIABLES
    tick,     \* the world's clock
    kind,     \* what each request asks for
    db,       \* the account's rows, as committed
    author,   \* history: the request whose version of a row is committed
    tx,       \* what each open transaction knows and has written
    served,   \* history: minutes resolved, by recruit
    paid,     \* history: purchases charged, by recruit
    banked,   \* history: how often each death was paid
    crossed   \* history: versions of a row overwritten unread

vars == <<tick, kind, db, author, tx, served, paid, banked, crossed>>

-----------------------------------------------------------------------------
(* Transactions. *)

Idle == [ at |-> "done", draft |-> <<>>,
          copy |-> <<>>, basis |-> <<>>, over |-> {},
          target |-> 0, file |-> 0, to |-> 0, minutes |-> 0, death |-> 0 ]

Begun(k) == [Idle EXCEPT !.at = After(k, "begin")]

Put(f, r, v) == [x \in DOMAIN f \cup {r} |-> IF x = r THEN v ELSE f[x]]

(* A transaction sees what it wrote, and else what is committed. *)
Seen(t, r) == IF r \in DOMAIN tx[t].draft THEN tx[t].draft[r] ELSE db[r]

At(t, s) == tx[t].at = s

(* FOR UPDATE: the row is another transaction's until that one ends. *)
HeldByNone(t, u) == FALSE

HeldFrom(t, u) == tx[t].target # 0 /\ tx[u].file = tx[t].target

(* Whom a statement waits for: the holder of the recruit, the writer of    *)
(* the row, and for an insert whoever has a recruit of the account in an   *)
(* uncommitted version, since the index cannot be judged before they end.  *)
Waits(t, u) ==
    LET s == tx[t].at
    IN  \/ s \in {"hold", "retake"} /\ HeldFrom(t, u)
        \/ s = "insert" /\ "characters" \in DOMAIN tx[u].draft
        \/ s \in DOMAIN WritesTo /\ WritesTo[s] \in DOMAIN tx[u].draft

Blockers(t) == {u \in Requests \ {t} : Waits(t, u)}

Does(t, s) == At(t, s) /\ Blockers(t) = {}

Keeps == UNCHANGED <<tick, kind, db, author, served, paid, banked, crossed>>

(* The handler reads rows into variables of its own. *)
Reads(x, t, R) ==
    [x EXCEPT !.copy = [r \in DOMAIN x.copy \cup R |->
                            IF r \in R THEN Seen(t, r) ELSE x.copy[r]],
              !.basis = [r \in DOMAIN x.basis \cup R |->
                            IF r \in R THEN author[r] ELSE x.basis[r]]]

(* It writes what it computed.  The version it replaces is one it read,    *)
(* one it wrote, or one that crossed it.                                   *)
Writes(x, t, r, v) ==
    [x EXCEPT !.draft = Put(x.draft, r, v),
              !.over = IF r \in DOMAIN x.draft \/ x.basis[r] = author[r] THEN x.over
                       ELSE x.over \cup {[row |-> r, by |-> kind[t],
                                          over |-> kind[author[r]],
                                          late |-> FALSE]}]

Then(t, s) == [tx[t] EXCEPT !.at = s]

Onward(t) == Then(t, After(kind[t], tx[t].at))

Moves(t, x) == tx' = [tx EXCEPT ![t] = x] /\ Keeps

-----------------------------------------------------------------------------
(* Resolving: loadStateInside, and loadState where it differs. *)

Serving(rows) == {i \in DOMAIN rows : rows[i].alive}

TheServing == LET rows == db.characters
              IN  IF Serving(rows) = {} THEN 0 ELSE CHOOSE i \in Serving(rows) : TRUE

(* SELECT ... AND alive FOR UPDATE first finds a row, *)
Find(t) ==
    /\ Does(t, "find")
    /\ Moves(t, [Onward(t) EXCEPT !.target = TheServing, !.to = tick])

(* then waits for it and asks again whether it is alive.  A resolution of  *)
(* nobody's is over.                                                       *)
Hold(t) ==
    LET i == tx[t].target
        file == IF i # 0 /\ db.characters[i].alive THEN i ELSE 0
        next == After(kind[t], tx[t].at)
    IN  /\ Does(t, "hold") \/ Does(t, "retake")
        /\ Moves(t, [tx[t] EXCEPT
                        !.file = file,
                        !.at = IF file = 0 /\ next = "consult" THEN Beyond(kind[t])
                               ELSE next])

Ticks(t) ==
    LET last == db.characters[tx[t].file].last
    IN  IF tx[t].to > last THEN tx[t].to - last ELSE 0

(* A read took the time when it began, a write takes it now.  When no tick *)
(* has passed a write is done, a read still looks at the assignment.       *)
Consult(t) ==
    LET to == IF kind[t] = "state" THEN tx[t].to ELSE tick
        next == IF to > db.characters[tx[t].file].last THEN "registry"
                ELSE IF kind[t] = "state" THEN "assignment"
                ELSE Beyond(kind[t])
    IN  /\ Does(t, "consult")
        /\ Moves(t, Reads([Then(t, next) EXCEPT !.to = to], t, {"pensions"}))

(* applyStaff: nothing, wages and work, or also a rung bought with pension. *)
Registry(t) ==
    /\ Does(t, "registry")
    /\ \E next \in {"payroll", "assignment"} :
          /\ next = "payroll" => db.registries > 0
          /\ Moves(t, Reads(Then(t, next), t, {"registries"}))

Payroll(t) ==
    /\ Does(t, "payroll")
    /\ \E next \in {"redeem", "assignment"} :
          /\ next = "redeem" => tx[t].copy.pensions.total >= RungCost
          /\ Moves(t, Writes(Then(t, next), t, "registries", tx[t].copy.registries))

Redeemed(pension) == [total |-> pension.total - RungCost,
                      spent |-> pension.spent + RungCost]

Redeem(t) ==
    /\ Does(t, "redeem")
    /\ Moves(t, Writes(Onward(t), t, "pensions", Redeemed(tx[t].copy.pensions)))

(* applyAssignment: no progress, some, a file closed by a death, or one    *)
(* completed and rewarded.  Then the save, if a tick has passed.           *)
Settled(t) == IF Ticks(t) > 0 THEN "save" ELSE Beyond(kind[t])

Assignment(t) ==
    /\ Does(t, "assignment")
    /\ \E next \in {"progress", "finish", Settled(t)} :
          /\ next # Settled(t) => db.assignments
          /\ Moves(t, Reads(Then(t, next), t, {"assignments"}))

Progress(t) ==
    /\ Does(t, "progress")
    /\ Moves(t, Writes(Then(t, Settled(t)), t, "assignments", TRUE))

Finish(t) ==
    /\ Does(t, "finish")
    /\ \E next \in {"tally", Settled(t)} :
          Moves(t, Writes(Then(t, next), t, "assignments", FALSE))

Reward(t) ==
    /\ Does(t, "reward")
    /\ Moves(t, Writes(Then(t, Settled(t)), t, "transfers", tx[t].copy.transfers + 1))

Recorded(deaths, i, award) == Append(deaths, [of |-> i, award |-> award])

(* The span: a gold piece a minute, and perhaps a death. *)
Save(t) ==
    LET n == Ticks(t)
        i == tx[t].file
        rows == Seen(t, "characters")
    IN  /\ Does(t, "save")
        /\ \E alive \in BOOLEAN :
              LET row == [rows[i] EXCEPT !.gold = @ + n, !.last = tx[t].to,
                                         !.alive = alive]
                  wrote == Put(tx[t].draft, "characters", [rows EXCEPT ![i] = row])
              IN  Moves(t, [Onward(t) EXCEPT
                      !.minutes = n,
                      !.draft = IF alive THEN wrote
                                ELSE Put(wrote, "deaths",
                                         Recorded(Seen(t, "deaths"), i, Award))])

-----------------------------------------------------------------------------
(* The handlers' own statements. *)

(* Reads a handler does outside the resolution. *)
LooksAt == [ office |-> "offices", posts |-> "registries", pension |-> "pensions",
             file |-> "assignments", record |-> "transfers", tally |-> "transfers" ]

Look(t) ==
    \E s \in DOMAIN LooksAt :
        /\ Does(t, s)
        /\ s = "office" => ~db.offices
        /\ Moves(t, Reads(Onward(t), t, {LooksAt[s]}))

(* `loadStateInside(tx) ?? getActiveCharacterForUpdate(tx)` *)
Again(t) ==
    /\ Does(t, "again")
    /\ Moves(t, IF tx[t].file # 0 THEN Then(t, After(kind[t], "retake"))
                ELSE [Onward(t) EXCEPT !.target = TheServing])

Afford(t) ==
    /\ tx[t].file # 0
    /\ Seen(t, "characters")[tx[t].file].gold >= Price

Charged(t) == [Seen(t, "characters") EXCEPT ![tx[t].file].gold = @ - Price]

(* purchaseRequisition and hireStaff save the recruit, then the row. *)
Pay(t) ==
    \E s \in {"pay", "appoint"} :
        LET x == [Onward(t) EXCEPT !.draft = Put(@, "characters", Charged(t))]
        IN  /\ Does(t, s)
            /\ Afford(t)
            /\ Moves(t, IF s = "pay" THEN Writes(x, t, "offices", TRUE)
                        ELSE Writes(x, t, "registries", tx[t].copy.registries + 1))

Amend(t) ==
    /\ Does(t, "amend")
    /\ tx[t].copy.registries > 0
    /\ Moves(t, Writes(Onward(t), t, "registries", tx[t].copy.registries))

Buy(t) ==
    /\ Does(t, "buy")
    /\ tx[t].copy.pensions.total >= RungCost
    /\ Moves(t, Writes(Onward(t), t, "pensions", Redeemed(tx[t].copy.pensions)))

Handback(t) ==
    /\ Does(t, "handback")
    /\ tx[t].copy.assignments
    /\ Moves(t, Writes(Onward(t), t, "assignments", FALSE))

Spend(t) ==
    /\ Does(t, "spend")
    /\ tx[t].copy.transfers > 0
    /\ Moves(t, Writes(Onward(t), t, "transfers", tx[t].copy.transfers - 1))

(* A claim wants nobody serving and a death on file. *)
Death(t) ==
    /\ Does(t, "death")
    /\ tx[t].file = 0 /\ db.deaths # <<>>
    /\ Moves(t, [Onward(t) EXCEPT !.death = Len(db.deaths)])

Closed(t, award) ==
    LET i == tx[t].file
        deaths == Recorded(Seen(t, "deaths"), i, award)
    IN  [Onward(t) EXCEPT
            !.draft = Put(Put(@, "characters",
                              [Seen(t, "characters") EXCEPT ![i].alive = FALSE]),
                          "deaths", deaths),
            !.death = Len(deaths)]

FitToRetireDead(t) ==
    /\ tx[t].file # 0
    /\ LET row == Seen(t, "characters")[tx[t].file]
       IN  row.last - row.born >= MinService

FitToRetire(t) ==
    /\ tx[t].file # 0
    /\ LET row == Seen(t, "characters")[tx[t].file]
       IN  row.alive /\ row.last - row.born >= MinService

Close(t) ==
    /\ Does(t, "close")
    /\ FitToRetire(t)
    /\ Moves(t, Closed(t, Award))

Bank(t) ==
    /\ Does(t, "bank")
    /\ LET pension == tx[t].copy.pensions
           award == Seen(t, "deaths")[tx[t].death].award
       IN  Moves(t, Writes(Onward(t), t, "pensions",
                           [pension EXCEPT !.total = @ + award]))

Entitled(t) ==
    /\ tx[t].file # 0
    /\ tx[t].copy.pensions.total + tx[t].copy.pensions.spent >= PerCommendation

Enter(t) ==
    /\ Does(t, "enter")
    /\ Entitled(t)
    /\ LET p == tx[t].copy.pensions
       IN  Moves(t, Writes(Onward(t), t, "transfers",
               tx[t].copy.transfers + (p.total + p.spent) \div PerCommendation))

Surrender(t) ==
    /\ Does(t, "surrender")
    /\ Moves(t, Writes(Onward(t), t, "pensions", [total |-> 0, spent |-> 0]))

Separate(t) ==
    /\ Does(t, "separate")
    /\ Moves(t, Closed(t, 0))

(* The unique index refuses a second recruit alive. *)
NoDuplicate(t) == FALSE

Duplicate(t) == Serving(Seen(t, "characters")) # {}

Insert(t) ==
    LET rows == Seen(t, "characters")
        born == IF kind[t] = "transfer" THEN rows[tx[t].file].last ELSE tick
    IN  /\ Does(t, "insert")
        /\ ~Duplicate(t)
        /\ Moves(t, [Onward(t) EXCEPT
                !.draft = Put(@, "characters",
                              Append(rows, [born |-> born, last |-> born,
                                            alive |-> TRUE, gold |-> StartingGold]))])

-----------------------------------------------------------------------------
(* Ends. *)

Counted(counts, n, i, k) ==
    [j \in 1..n |-> (IF j \in DOMAIN counts THEN counts[j] ELSE 0)
                      + IF j = i THEN k ELSE 0]

(* A claim that banks a death which is no longer the last. *)
Late(t) == kind[t] = "claim" /\ tx[t].death < Len(db.deaths)

Commit(t) ==
    LET x == tx[t]
    IN  /\ Does(t, "commit")
        /\ db' = [r \in Tables |-> Seen(t, r)]
        /\ author' = [r \in Shared |-> IF r \in DOMAIN x.draft THEN t ELSE author[r]]
        /\ served' = Counted(served, Len(db'.characters), x.file, x.minutes)
        /\ paid' = Counted(paid, Len(db'.characters), x.file,
                           IF kind[t] \in {"desk", "hire"} THEN 1 ELSE 0)
        /\ banked' = Counted(banked, Len(db'.deaths), x.death,
                             IF kind[t] \in {"claim", "retire"} THEN 1 ELSE 0)
        /\ crossed' = crossed \cup {[c EXCEPT !.late = Late(t)] : c \in x.over}
        /\ tx' = [tx EXCEPT ![t] = Idle]
        /\ UNCHANGED <<tick, kind>>

RollBackUnreleased(t) == Moves(t, Then(t, "done"))

RollBack(t) == Moves(t, Idle)

(* What makes a handler throw. *)
Refused(t) ==
    \/ At(t, "office") /\ db.offices
    \/ (At(t, "pay") \/ At(t, "appoint")) /\ ~Afford(t)
    \/ At(t, "amend") /\ tx[t].copy.registries = 0
    \/ At(t, "buy") /\ tx[t].copy.pensions.total < RungCost
    \/ At(t, "handback") /\ ~tx[t].copy.assignments
    \/ At(t, "spend") /\ tx[t].copy.transfers = 0
    \/ At(t, "death") /\ (tx[t].file # 0 \/ db.deaths = <<>>)
    \/ At(t, "close") /\ ~FitToRetire(t)
    \/ At(t, "enter") /\ ~Entitled(t)
    \/ Does(t, "insert") /\ Duplicate(t)

Refuse(t) == Refused(t) /\ RollBack(t)

(* The connection or the process may go at any time. *)
Fail(t) == tx[t].at \notin {"done", After(kind[t], "begin")} /\ RollBack(t)

(* PostgreSQL ends one of the transactions of a cycle of waiters. *)
Deadlocked(t) ==
    \E S \in SUBSET Requests :
        /\ t \in S
        /\ \A u \in S : Blockers(u) \cap S # {}
        /\ \A u \in S : \E w \in S : u \in Blockers(w)

Victim(t) == Blockers(t) # {} /\ Deadlocked(t) /\ RollBack(t)

Tick == tick < MaxTick /\ tick' = tick + 1
        /\ UNCHANGED <<kind, db, author, tx, served, paid, banked, crossed>>

AllDone == (\A t \in Requests : At(t, "done")) /\ UNCHANGED vars

Statement(t) ==
    \/ Find(t) \/ Hold(t) \/ Consult(t) \/ Registry(t) \/ Payroll(t) \/ Redeem(t)
    \/ Assignment(t) \/ Progress(t) \/ Finish(t) \/ Reward(t) \/ Save(t)
    \/ Look(t) \/ Again(t) \/ Pay(t) \/ Amend(t) \/ Buy(t) \/ Handback(t) \/ Spend(t)
    \/ Death(t) \/ Close(t) \/ Bank(t) \/ Enter(t) \/ Surrender(t) \/ Separate(t)
    \/ Insert(t) \/ Commit(t) \/ Refuse(t) \/ Victim(t)

Next == (\E t \in Requests : Statement(t) \/ Fail(t)) \/ Tick \/ AllDone

(* Somebody serves, or has died and not been filed for. *)
Init ==
    /\ tick = 0
    /\ kind \in Mixes
    /\ \E alive \in BOOLEAN :
          /\ db = [characters |-> <<[born |-> 0, last |-> 0, alive |-> alive,
                                     gold |-> StartingGold]>>,
                   deaths |-> IF alive THEN <<>> ELSE Recorded(<<>>, 1, Award),
                   pensions |-> [total |-> StartingPension, spent |-> 0],
                   offices |-> FALSE, registries |-> 1, assignments |-> TRUE,
                   transfers |-> 1]
          /\ banked = IF alive THEN <<>> ELSE <<0>>
    /\ author = [r \in Shared |-> Nobody]
    /\ tx = [t \in Requests |-> Begun(kind[t])]
    /\ served = <<0>> /\ paid = <<0>> /\ crossed = {}

(* While some statement can run, one does, and a deadlock is broken.  A    *)
(* request has finitely many, so none needs fairness of its own.           *)
Spec == Init /\ [][Next]_vars /\ WF_vars(\E t \in Requests : Statement(t))

-----------------------------------------------------------------------------
(* Properties. *)

(* However the requests of an account interleave, every minute is resolved *)
(* once and every charge stands: a recruit's gold is what was issued, plus *)
(* its minutes, less what was bought, and the next recruit's minutes begin *)
(* where the last one's ended or later ("the row locks taken inside are    *)
(* what stop double-resolution").                                          *)
MinutesServedOnce ==
    \A i \in DOMAIN db.characters :
        LET row == db.characters[i]
        IN  /\ served[i] = row.last - row.born
            /\ row.gold + Price * paid[i] = StartingGold + served[i]
            /\ row.gold >= 0
            /\ i > 1 => row.born >= db.characters[i - 1].last

(* A recruit is lost to one request only: one award is assessed for it,    *)
(* unless a transfer separated it, which assesses none.  The award of the  *)
(* death on the overlay is never banked twice, by a second press or by a   *)
(* second device.  (An older one can be: a claim that read the death, and  *)
(* was held up through its successor's whole career.)                      *)
LostOnce ==
    /\ \A i \in DOMAIN db.characters :
         LET files == {k \in DOMAIN db.deaths : db.deaths[k].of = i}
         IN  /\ Cardinality({k \in files : db.deaths[k].award > 0}) <= 1
             /\ (files = {}) <=> db.characters[i].alive
    /\ \A k \in DOMAIN banked : banked[k] > 1 => k < Len(banked)

(* A version of a row is overwritten unread only where a handler reads or  *)
(* writes it without the recruit's lock: the pension by purchaseUnlock,    *)
(* the office by two requisitions, the registry, the assignment and the    *)
(* Commendations by the handlers that take the lock after writing; or by   *)
(* a claim held up while another's recruit came and died, which banks a    *)
(* death that is no longer on the overlay.  All others are one step to     *)
(* one another.                                                            *)
Unguarded == [ pensions |-> {"rung"}, offices |-> {"desk"},
               registries |-> {"policy"}, assignments |-> {"abandon"},
               transfers |-> {"commendation"} ]

OnlyUnguardedCross ==
    \A c \in crossed : c.late \/ {c.by, c.over} \cap Unguarded[c.row] # {}

(* Every request is answered: handlers that take the recruit and a row in  *)
(* opposite orders deadlock, and the deadlock ends one and frees the rest. *)
EveryoneIsServed == \A t \in Requests : <>(tx[t].at = "done")
=============================================================================
