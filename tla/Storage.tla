------------------------------- MODULE Storage -------------------------------
(***************************************************************************)
(* The storage port and its two adapters: MemoryRepository, on Maps and    *)
(* arrays in the order they were written, and PostgresRepository, on       *)
(* tables of rows in no order but the one a query asks for.  Every call    *)
(* the program makes is made of both.                                      *)
(*                                                                         *)
(* A query that leaves the order open has a set of possible answers.       *)
(* Transactions are single steps, apart from the one that opens an         *)
(* account, which has no row to lock; those that fail are left out, since  *)
(* memory has no rollback, except for the serials Postgres burns on them.  *)
(* Each behaviour works in one area of the schema: the areas share no row  *)
(* but the accounts.                                                       *)
(***************************************************************************)
EXTENDS Integers, SequencesExt

CONSTANTS
  Areas,                  \* parts of the schema to work in
  Devices, Requests,      \* phones, and sign-ins under way at once
  Awards,                 \* what death records hold
  Ledgers, Settings,      \* tables of one row per account, what they hold
  Default,                \* what an account without a row is given
  Tokens, Events,         \* FCM tokens; event keys of pushes
  Calls,                  \* requests an idempotency key is used for
  Target,                 \* what an objective asks for
  Limit, Cap, Away, Day, Stale, Retention,
  MaxTime, MaxRows        \* bounds

ASSUME StorageAssumption ==
  /\ Areas \subseteq {"careers", "ledgers", "journal", "tavern", "push", "keys", "world"}
  /\ {Limit, Target} \subseteq Nat \ {0}
  /\ {Cap, Away, Day, Stale, Retention, MaxTime, MaxRows} \subseteq Nat
  /\ "orders" \in Ledgers /\ Default \in Settings
  /\ IsFiniteSet(Devices)

VARIABLES area, now, memory, postgres, signing, told

storageVars == <<area, now, memory, postgres, signing, told>>

NotSigning == [device |-> "none", looked |-> FALSE]

(* The rows a query may put first when it sorts by a measure, descending.  *)
Greatest(rows, Measure(_)) ==
  {r \in rows : \A s \in rows : Measure(s) <= Measure(r)}

(* The first entry of an array that passes, as a set of at most one.       *)
FirstWith(entries, Test(_)) ==
  LET hits == {i \in DOMAIN entries : Test(entries[i])}
  IN  {entries[i] : i \in {j \in hits : \A k \in hits : j <= k}}

(* Array.slice(-limit).                                                    *)
LastOf(entries, limit) ==
  SubSeq(entries, (IF Len(entries) > limit THEN Len(entries) - limit ELSE 0) + 1, Len(entries))

(* A finite set in an order: the k-th has k - 1 before it.                 *)
Sorted(S, before) ==
  [k \in 1..Cardinality(S) |-> CHOOSE x \in S : Cardinality({y \in S : <<y, x>> \in before}) = k - 1]

(* Array.filter: the entries at the places that pass.                      *)
Filtered(entries, places) ==
  LET order == Sorted(places, {p \in places \X places : p[1] < p[2]})
  IN  [k \in DOMAIN order |-> entries[order[k]]]

(* ORDER BY id; and ORDER BY id DESC LIMIT, turned round.                  *)
ById(rows) == Sorted(rows, {p \in rows \X rows : p[1].id < p[2].id})
LastRows(rows, limit) == LastOf(ById(rows), limit)

(* Map.set: an entry already there keeps its place.                        *)
SetEntry(entries, entry, Same(_)) ==
  IF \E i \in DOMAIN entries : Same(entries[i])
  THEN [i \in DOMAIN entries |-> IF Same(entries[i]) THEN entry ELSE entries[i]]
  ELSE Append(entries, entry)

(* INSERT ... ON CONFLICT DO UPDATE.                                       *)
Upsert(rows, row, Same(_)) == {r \in rows : ~Same(r)} \cup {row}

(* What both adapters answered to the last call that has an answer.        *)
Told(m, p) == told' = [memory |-> m, postgres |-> p]

Silent == told' = [memory |-> {}, postgres |-> {}]

-----------------------------------------------------------------------------
(* Accounts, recruits, deaths *)

MemoryAccount(device) == FirstWith(memory.accounts, LAMBDA a : a.device = device)
PostgresAccount(device) == {a \in postgres.accounts : a.device = device}

MemoryActive(account) ==
  FirstWith(memory.characters, LAMBDA c : c.account = account /\ c.alive)
PostgresActive(account) ==
  {c \in postgres.characters : c.account = account /\ c.alive}

(* The first of the highest number; ORDER BY recruit_num DESC LIMIT 1.     *)
MemoryLatest(account) ==
  FirstWith(memory.characters, LAMBDA c :
    /\ c.account = account
    /\ \A i \in DOMAIN memory.characters :
         memory.characters[i].account = account => memory.characters[i].num <= c.num)
PostgresLatest(account) ==
  Greatest({c \in postgres.characters : c.account = account}, LAMBDA c : c.num)

(* Deaths are unshifted in memory, and sorted by `at' in Postgres.         *)
MemoryLatestDeath(account) == FirstWith(memory.deaths, LAMBDA d : d.account = account)
PostgresLatestDeath(account) ==
  Greatest({d \in postgres.deaths : d.account = account}, LAMBDA d : d.at)

(* A list ORDER BY at DESC LIMIT may be.                                   *)
PostgresMayList(list, limit) ==
  LET listed == ToSet(list)
  IN  /\ IsInjective(list) /\ listed \subseteq postgres.deaths
      /\ Len(list) = Min({limit, Cardinality(postgres.deaths)})
      /\ \A i, j \in DOMAIN list : i < j => list[i].at >= list[j].at
      /\ \A d \in postgres.deaths \ listed : \A e \in listed : d.at <= e.at

(* Each ledger is a table, or a Map, of one row per account; an account    *)
(* without one is given the default.                                       *)
MemoryLedger(ledger, account) ==
  IF <<ledger, account>> \in DOMAIN memory.ledgers
  THEN memory.ledgers[<<ledger, account>>] ELSE Default
PostgresLedger(ledger, account) ==
  LET rows == {r \in postgres.ledgers : r.ledger = ledger /\ r.account = account}
  IN  IF rows = {} THEN {Default} ELSE {r.value : r \in rows}

MemoryHasFiled(account) == account \in memory.filed
PostgresHasFiled(account) ==
  \E r \in postgres.ledgers : r.ledger = "orders" /\ r.account = account /\ r.filed

MemoryInsert(m, c) == [m EXCEPT !.characters = Append(@, c)]
PostgresInsert(p, c) == [p EXCEPT !.characters = @ \cup {c}]

(* saveCharacter: by id.                                                   *)
MemorySave(m, c) ==
  [m EXCEPT !.characters = SetEntry(@, c, LAMBDA x : x.id = c.id)]
PostgresSave(p, c) ==
  [p EXCEPT !.characters = {IF x.id = c.id THEN c ELSE x : x \in @}]

(* Mutation: the record pushed, as the journal's lines are.                *)
MemoryRecordPushed(m, d) == [m EXCEPT !.deaths = Append(@, d)]

MemoryRecord(m, d) == [m EXCEPT !.deaths = <<d>> \o @]

PostgresRecord(p, d) == [p EXCEPT !.deaths = @ \cup {d}]

(* The set of accounts that filed is apart from the orders in memory, and  *)
(* a column of theirs in Postgres: once filed, always filed.               *)
MemoryStore(m, ledger, account, value, mark) ==
  [m EXCEPT !.ledgers = [k \in DOMAIN @ \cup {<<ledger, account>>} |->
                           IF k = <<ledger, account>> THEN value ELSE @[k]],
            !.filed = IF mark THEN @ \cup {account} ELSE @]
PostgresStore(p, ledger, account, value, mark) ==
  LET Same(r) == r.ledger = ledger /\ r.account = account
      filed == mark \/ \E r \in p.ledgers : Same(r) /\ r.filed
  IN  [p EXCEPT !.ledgers =
         Upsert(@, [ledger |-> ledger, account |-> account, value |-> value, filed |-> filed], Same)]

NewId == Cardinality(postgres.characters) + 1

Recruit(account, num) ==
  [id |-> NewId, account |-> account, num |-> num, alive |-> TRUE, born |-> now]

Death(account, award, n) ==
  [id |-> Cardinality(postgres.deaths) + n, account |-> account, award |-> award, at |-> now]

-----------------------------------------------------------------------------
(* Opening an account *)

(* authenticateDevice begins: nothing to lock when nothing is found.       *)
Look(q, device) ==
  /\ area = "careers"
  /\ signing[q] = NotSigning
  /\ signing' = IF PostgresAccount(device) = {}
                THEN [signing EXCEPT ![q] = [device |-> device, looked |-> TRUE]]
                ELSE signing
  /\ Told(MemoryAccount(device), PostgresAccount(device))
  /\ UNCHANGED <<area, now, memory, postgres>>

(* Mutation: device_id without its UNIQUE.                                 *)
NeverTaken(device) == FALSE

(* accounts.device_id is UNIQUE.                                           *)
Taken(device) == PostgresAccount(device) # {}

MemoryOpen(m, account) == [m EXCEPT !.accounts = Append(@, account)]
PostgresOpen(p, account) == [p EXCEPT !.accounts = @ \cup {account}]

(* The account, its pension and orders, and its first recruit.             *)
Opened(m, p, account) ==
  LET c == Recruit(account.id, 1)
      Both(Store(_, _, _, _, _), db) ==
        Store(Store(db, "pension", account.id, Default, FALSE), "orders", account.id, Default, FALSE)
  IN  /\ memory' = MemoryInsert(Both(MemoryStore, MemoryOpen(m, account)), c)
      /\ postgres' = PostgresInsert(Both(PostgresStore, PostgresOpen(p, account)), c)

(* The rest of authenticateDevice.  A second sign-in of the device waits   *)
(* for the first to commit and is then refused by the index, and answered  *)
(* with an error; memory, which runs one transaction at a time, finds the  *)
(* account.                                                                *)
CreateAccount(q) ==
  LET device  == signing[q].device
      account == [id |-> Cardinality(postgres.accounts) + 1, device |-> device, seen |-> now]
  IN  /\ signing[q] # NotSigning
      /\ signing' = [signing EXCEPT ![q] = NotSigning]
      /\ Silent
      /\ IF Taken(device)
         THEN UNCHANGED <<memory, postgres>>
         ELSE /\ account.id <= MaxRows
              /\ Opened(memory, postgres, account)
      /\ UNCHANGED <<area, now>>

(* Careers: each handler's writes, committed together.                     *)
Working(where) == area = where /\ UNCHANGED <<area, now, signing>>

RoomForDeaths(n) == Cardinality(postgres.deaths) + n <= MaxRows

(* A recruit is resolved, and so can die, from the minute after its first. *)
CanEnd(c) == c.born < now

(* A span that kills: the recruit saved, the death recorded.               *)
RecordDeath(c) ==
  /\ Working("careers")
  /\ CanEnd(c) /\ RoomForDeaths(1)
  /\ \E award \in Awards :
       LET dead == [c EXCEPT !.alive = FALSE]
           d    == Death(c.account, award, 1)
       IN  /\ memory' = MemoryRecord(MemorySave(memory, dead), d)
           /\ postgres' = PostgresRecord(PostgresSave(postgres, dead), d)
  /\ Silent

(* claimPension: the successor of the latest.                              *)
Claim(account) ==
  /\ Working("careers")
  /\ PostgresActive(account) = {}
  /\ PostgresLatestDeath(account) # {}
  /\ \E previous \in PostgresLatest(account) :
       LET c == Recruit(account, previous.num + 1)
       IN  memory' = MemoryInsert(memory, c) /\ postgres' = PostgresInsert(postgres, c)
  /\ Told(MemoryLatestDeath(account), PostgresLatestDeath(account))

(* retireRecruit: closed, recorded and succeeded in one transaction.       *)
Retire(c) ==
  /\ Working("careers")
  /\ CanEnd(c) /\ RoomForDeaths(1)
  /\ \E award \in Awards :
       LET dead == [c EXCEPT !.alive = FALSE]
           d    == Death(c.account, award, 1)
           next == Recruit(c.account, c.num + 1)
       IN  /\ memory' = MemoryInsert(MemoryRecord(MemorySave(memory, dead), d), next)
           /\ postgres' = PostgresInsert(PostgresRecord(PostgresSave(postgres, dead), d), next)
  /\ Silent

(* transferOut: a new posting numbered from 1, after the record of the     *)
(* span's death, if it killed, and that of the transfer.                   *)
Transfer(c, killed) ==
  /\ Working("careers")
  /\ killed => CanEnd(c)
  /\ RoomForDeaths(2)
  /\ \E award \in Awards :
       LET dead    == [c EXCEPT !.alive = FALSE]
           span    == Death(c.account, award, 1)
           filed   == Death(c.account, award, IF killed THEN 2 ELSE 1)
           posting == Recruit(c.account, 1)
           m == MemorySave(memory, dead)
           p == PostgresSave(postgres, dead)
       IN  /\ memory' = MemoryInsert(MemoryRecord(IF killed THEN MemoryRecord(m, span) ELSE m, filed), posting)
           /\ postgres' = PostgresInsert(PostgresRecord(IF killed THEN PostgresRecord(p, span) ELSE p, filed), posting)
  /\ Silent

-----------------------------------------------------------------------------
(* Ledgers *)

Accounts == {a.id : a \in postgres.accounts}

(* save...: the orders are marked as filed by PUT /v1/orders alone.        *)
SaveLedger(ledger, account, value) ==
  /\ Working("ledgers")
  /\ \E mark \in IF ledger = "orders" THEN BOOLEAN ELSE {FALSE} :
       /\ memory' = MemoryStore(memory, ledger, account, value, mark)
       /\ postgres' = PostgresStore(postgres, ledger, account, value, mark)
  /\ Silent

-----------------------------------------------------------------------------
(* The journal *)

Line(serial, who, tick) == [id |-> serial, who |-> who, tick |-> tick]

MemoryWrites(m, who, ticks) ==
  [m EXCEPT !.journal = @ \o [i \in DOMAIN ticks |-> Line(m.serial + i, who, ticks[i])],
            !.serial = @ + Len(ticks)]
PostgresWrites(p, who, ticks) ==
  [p EXCEPT !.journal = @ \cup {Line(p.serial + i, who, ticks[i]) : i \in DOMAIN ticks},
            !.serial = @ + Len(ticks)]

(* appendJournal: a catch-up may write a tick older than the last.         *)
AppendJournal(who, ticks) ==
  /\ Working("journal")
  /\ Len(memory.journal) + Len(ticks) <= MaxRows
  /\ memory' = MemoryWrites(memory, who, ticks)
  /\ postgres' = PostgresWrites(postgres, who, ticks)
  /\ Silent

(* A transaction rolls back after it wrote: the serials are gone.          *)
BurnSerial ==
  /\ Working("journal") \/ Working("tavern")
  /\ postgres.serial = memory.serial
  /\ postgres' = [postgres EXCEPT !.serial = @ + 1]
  /\ Silent
  /\ UNCHANGED memory

(* listJournal: the lines since a tick, oldest first, cut to the last.     *)
MemorySince(who, since) ==
  LET lines == memory.journal
  IN  LastOf(Filtered(lines, {i \in DOMAIN lines : lines[i].who = who /\ lines[i].tick > since}), Limit)
PostgresSince(who, since) ==
  LastRows({e \in postgres.journal : e.who = who /\ e.tick > since}, Limit)

(* listJournalBefore: the lines before one, and one more than a page.      *)
MemoryBefore(who, id) ==
  LET lines == memory.journal
  IN  LastOf(Filtered(lines, {i \in DOMAIN lines : lines[i].who = who /\ lines[i].id < id}), Limit + 1)
PostgresBefore(who, id) ==
  LastRows({e \in postgres.journal : e.who = who /\ e.id < id}, Limit + 1)

Ticks(lines) == [i \in DOMAIN lines |-> lines[i].tick]

(* getJournalPage: one line more than a page is asked for, and dropped.    *)
Page(lines) ==
  [entries |-> Ticks(IF Len(lines) > Limit THEN Tail(lines) ELSE lines), hasMore |-> Len(lines) > Limit]

(* The rows of Postgres in the order of their ids: memory's array.         *)
InOrder == ById(postgres.journal)

(* listJournal since a tick; a page before a line, by the id that the same *)
(* adapter gave it, which holds the last of what is before it.             *)
JournalsAgree(who) ==
  /\ \A since \in -1..MaxTime :
       Ticks(MemorySince(who, since)) = Ticks(PostgresSince(who, since))
  /\ \A i \in DOMAIN InOrder :
       LET m == Page(MemoryBefore(who, memory.journal[i].id))
           p == Page(PostgresBefore(who, InOrder[i].id))
           earlier == Filtered(InOrder, {j \in 1..(i - 1) : InOrder[j].who = who})
       IN  /\ m = p
           /\ m.hasMore <=> Len(m.entries) < Len(earlier)
           /\ IsSuffix(m.entries, Ticks(earlier))

-----------------------------------------------------------------------------
(* The tavern *)

MemoryKnows(account) == \E i \in DOMAIN memory.accounts : memory.accounts[i].id = account
PostgresKnows(account) == \E a \in postgres.accounts : a.id = account

(* appendTavern                                                            *)
MemoryAppend(m, account) ==
  [m EXCEPT !.tavern = Append(@, [id |-> m.serial + 1, author |-> account]), !.serial = @ + 1]
PostgresAppend(p, account) ==
  [p EXCEPT !.tavern = @ \cup {[id |-> p.serial + 1, author |-> account]}, !.serial = @ + 1]

(* sendTavernMessage: of an account that is there.                         *)
SendTavernMessage(account) ==
  /\ Working("tavern")
  /\ Len(memory.tavern) < MaxRows
  /\ memory' = IF MemoryKnows(account) THEN MemoryAppend(memory, account) ELSE memory
  /\ postgres' = IF PostgresKnows(account) THEN PostgresAppend(postgres, account) ELSE postgres
  /\ Silent

(* listTavern: after an id, cut to the last `Limit', oldest first.         *)
MemoryTavern(since) ==
  LastOf(Filtered(memory.tavern, {i \in DOMAIN memory.tavern : memory.tavern[i].id > since}), Limit)
PostgresTavern(since) == LastRows({m \in postgres.tavern : m.id > since}, Limit)

(* getTavern: who said it, from the first message, or after one by the id  *)
(* that the same adapter gave it.                                          *)
TavernsAgree ==
  LET Authors(messages) == [i \in DOMAIN messages |-> messages[i].author]
      said == ById(postgres.tavern)
  IN  /\ Authors(MemoryTavern(0)) = Authors(PostgresTavern(0))
      /\ \A i \in DOMAIN said :
           Authors(MemoryTavern(memory.tavern[i].id)) = Authors(PostgresTavern(said[i].id))

-----------------------------------------------------------------------------
(* Push *)

(* savePushToken: the token moves to the account that brings it.           *)
MemoryRegister(m, account, token) ==
  [m EXCEPT !.tokens = [t \in DOMAIN @ \cup {token} |-> IF t = token THEN account ELSE @[t]]]
PostgresRegister(p, account, token) ==
  [p EXCEPT !.tokens = Upsert(@, [token |-> token, account |-> account], LAMBDA r : r.token = token)]

SavePushToken(account, token) ==
  /\ Working("push")
  /\ memory' = MemoryRegister(memory, account, token)
  /\ postgres' = PostgresRegister(postgres, account, token)
  /\ Silent

(* deletePushTokens                                                        *)
MemoryForget(m, tokens) == [m EXCEPT !.tokens = [t \in DOMAIN @ \ tokens |-> @[t]]]
PostgresForget(p, tokens) == [p EXCEPT !.tokens = {r \in @ : r.token \notin tokens}]

(* A device unregisters, whoever it is filed under, or a send finds tokens *)
(* stale.                                                                  *)
DeletePushTokens(tokens) ==
  /\ Working("push")
  /\ memory' = MemoryForget(memory, tokens)
  /\ postgres' = PostgresForget(postgres, tokens)
  /\ Silent

(* UPDATE accounts SET last_seen_at.                                       *)
MemorySeen(m, account, at) == [m EXCEPT !.accounts[account].seen = at]
PostgresSeen(p, account, at) ==
  [p EXCEPT !.accounts = {IF a.id = account THEN [a EXCEPT !.seen = at] ELSE a : a \in @}]

TouchAccountSeen(account) ==
  /\ Working("push")
  /\ memory' = MemorySeen(memory, account, now)
  /\ postgres' = PostgresSeen(postgres, account, now)
  /\ Silent

(* devMakeAway: longer than the sweep waits for.                           *)
MarkAway(account) ==
  /\ Working("push")
  /\ memory' = MemorySeen(memory, account, now - Away - 1)
  /\ postgres' = PostgresSeen(postgres, account, now - Away - 1)
  /\ Silent

(* claimPushSend: the event key not there yet, and fewer than the cap in a *)
(* day.                                                                    *)
MemoryMayClaim(account, event) ==
  LET sent == memory.sends[account]
  IN  event \notin DOMAIN sent /\ Cardinality({e \in DOMAIN sent : sent[e] > now - Day}) < Cap
PostgresMayClaim(account, event) ==
  LET mine == {s \in postgres.sends : s.account = account}
  IN  (\A s \in mine : s.event # event) /\ Cardinality({s \in mine : s.at > now - Day}) < Cap

ClaimPushSend(account, event) ==
  /\ Working("push")
  /\ memory' = IF MemoryMayClaim(account, event)
               THEN [memory EXCEPT !.sends[account] =
                       [e \in DOMAIN @ \cup {event} |-> IF e = event THEN now ELSE @[e]]]
               ELSE memory
  /\ postgres' = IF PostgresMayClaim(account, event)
                 THEN [postgres EXCEPT !.sends =
                         @ \cup {[account |-> account, event |-> event, at |-> now]}]
                 ELSE postgres
  /\ Told({MemoryMayClaim(account, event)}, {PostgresMayClaim(account, event)})

MemoryTokens(account) == {t \in DOMAIN memory.tokens : memory.tokens[t] = account}
PostgresTokens(account) == {r.token : r \in {s \in postgres.tokens : s.account = account}}

(* listSweepCandidates: away for longer than `Away', with a token, the     *)
(* longest away first; sort() is stable.                                   *)
MemoryCandidates ==
  LET all    == memory.accounts
      away   == {i \in DOMAIN all : MemoryTokens(all[i].id) # {} /\ all[i].seen < now - Away}
      sorted == Sorted(away, {p \in away \X away :
                  \/ all[p[1]].seen < all[p[2]].seen
                  \/ all[p[1]].seen = all[p[2]].seen /\ p[1] < p[2]})
  IN  [k \in 1..Min({Limit, Len(sorted)}) |-> all[sorted[k]]]

PostgresMayPick(list) ==
  LET away == {a \in postgres.accounts : PostgresTokens(a.id) # {} /\ a.seen < now - Away}
  IN  /\ IsInjective(list) /\ ToSet(list) \subseteq away
      /\ Len(list) = Min({Limit, Cardinality(away)})
      /\ \A i, j \in DOMAIN list : i < j => list[i].seen <= list[j].seen
      /\ \A a \in away \ ToSet(list), b \in ToSet(list) : a.seen >= b.seen

-----------------------------------------------------------------------------
(* Idempotency keys: one key of each account *)

(* What beginIdempotent says of a row.                                     *)
Verdict(row, call) ==
  CASE row.call # call -> "conflict"
    [] row.call = call /\ row.done -> "replay"
    [] row.call = call /\ ~row.done /\ now - row.at > Stale -> "fresh"
    [] OTHER -> "in_flight"

Reservation(account, call) == [account |-> account, call |-> call, done |-> FALSE, at |-> now]

(* A row that is fresh to a call is reclaimed by it.                       *)
Reclaimed(row, call) == IF Verdict(row, call) = "fresh" THEN [row EXCEPT !.at = now] ELSE row

MemoryBegin(m, account, call) ==
  [m EXCEPT !.keys[account] =
     IF @ = <<>> THEN <<Reservation(account, call)>> ELSE <<Reclaimed(@[1], call)>>]
PostgresBegin(p, account, call) ==
  IF \A k \in p.keys : k.account # account
  THEN [p EXCEPT !.keys = @ \cup {Reservation(account, call)}]
  ELSE [p EXCEPT !.keys = {IF k.account = account THEN Reclaimed(k, call) ELSE k : k \in @}]

BeginIdempotent(account, call) ==
  LET held == memory.keys[account]
      mine == {k \in postgres.keys : k.account = account}
  IN  /\ Working("keys")
      /\ memory' = MemoryBegin(memory, account, call)
      /\ postgres' = PostgresBegin(postgres, account, call)
      /\ Told({[verdict |-> IF held = <<>> THEN "fresh" ELSE Verdict(held[1], call)]},
              IF mine = {} THEN {[verdict |-> "fresh"]} ELSE {[verdict |-> Verdict(k, call)] : k \in mine})

(* completeIdempotent: of a reservation that may be gone.                  *)
CompleteIdempotent(account) ==
  /\ Working("keys")
  /\ memory' = IF memory.keys[account] = <<>> THEN memory
               ELSE [memory EXCEPT !.keys[account][1].done = TRUE]
  /\ postgres' = [postgres EXCEPT !.keys =
       {IF k.account = account THEN [k EXCEPT !.done = TRUE] ELSE k : k \in @}]
  /\ Silent

ReleaseIdempotent(account) ==
  /\ Working("keys")
  /\ memory' = [memory EXCEPT !.keys[account] = <<>>]
  /\ postgres' = [postgres EXCEPT !.keys = {k \in @ : k.account # account}]
  /\ Silent

ExpireIdempotency ==
  LET old == {a \in DOMAIN memory.keys :
               memory.keys[a] # <<>> /\ memory.keys[a][1].at < now - Retention}
      expired == {k \in postgres.keys : k.at < now - Retention}
  IN  /\ Working("keys")
      /\ memory' = [memory EXCEPT !.keys = [a \in DOMAIN @ |-> IF a \in old THEN <<>> ELSE @[a]]]
      /\ postgres' = [postgres EXCEPT !.keys = @ \ expired]
      /\ Told({[expired |-> Cardinality(old)]}, {[expired |-> Cardinality(expired)]})

-----------------------------------------------------------------------------
(* The world *)

(* objectiveForCycle; the CASE in SQL is looked up by guild_cycle + 1.     *)
ObjectiveOf(cycle) == Target + (cycle % 2)

(* addGuildProgress in memory, an early return at a time.                  *)
MemoryProgress(w, amount) ==
  IF w.progress + amount < w.target
  THEN [world  |-> [w EXCEPT !.progress = @ + amount],
        answer |-> [cycle |-> w.cycle, completed |-> FALSE]]
  ELSE [world  |-> [w EXCEPT !.cycle = @ + 1, !.progress = 0, !.target = ObjectiveOf(w.cycle + 1)],
        answer |-> [cycle |-> w.cycle, completed |-> TRUE]]

(* In Postgres: columns from the old row, RETURNING from the new one.      *)
PostgresProgress(w, amount) ==
  LET meets == w.progress + amount >= w.target
      new   == [w EXCEPT !.progress = IF meets THEN 0 ELSE @ + amount,
                         !.cycle    = IF meets THEN @ + 1 ELSE @,
                         !.target   = IF meets THEN ObjectiveOf(w.cycle + 1) ELSE @]
      rolled == new.cycle > w.cycle
  IN  [world  |-> new,
       answer |-> [cycle |-> IF rolled THEN new.cycle - 1 ELSE new.cycle, completed |-> rolled]]

AddGuildProgress(amount) ==
  LET m == MemoryProgress(memory.world, amount)
      p == PostgresProgress(postgres.world, amount)
  IN  /\ Working("world")
      /\ postgres.world.cycle < MaxRows
      /\ memory' = [memory EXCEPT !.world = m.world]
      /\ postgres' = [postgres EXCEPT !.world = p.world]
      /\ Told({m.answer}, {p.answer})

(* The heartbeat: getWorld, then saveWorld of the whole row.               *)
SaveWorld ==
  /\ Working("world")
  /\ postgres.world.beat < MaxRows
  /\ memory' = [memory EXCEPT !.world.beat = @ + 1]
  /\ postgres' = [postgres EXCEPT !.world.beat = @ + 1]
  /\ Silent

-----------------------------------------------------------------------------
MinutePasses ==
  /\ now < MaxTime
  /\ now' = now + 1
  /\ Silent
  /\ UNCHANGED <<area, memory, postgres, signing>>

Numbered == LET order == SetToSeq(Devices) IN
  [i \in DOMAIN order |-> [id |-> i, device |-> order[i], seen |-> 0]]

(* The areas other than careers begin with every account open.             *)
StorageInit ==
  /\ area \in Areas
  /\ now = 0
  /\ signing = [q \in Requests |-> NotSigning]
  /\ LET accounts == IF area = "careers" THEN <<>> ELSE Numbered
         world    == [beat |-> 0, cycle |-> 0, progress |-> 0, target |-> ObjectiveOf(0)]
         none     == [i \in {} |-> 0]
     IN  /\ memory = [accounts |-> accounts, characters |-> <<>>, deaths |-> <<>>,
                      ledgers |-> none, filed |-> {}, journal |-> <<>>, tavern |-> <<>>, serial |-> 0,
                      tokens |-> none, sends |-> [i \in DOMAIN accounts |-> none],
                      keys |-> [i \in DOMAIN accounts |-> <<>>], world |-> world]
         /\ postgres = [accounts |-> ToSet(accounts), characters |-> {}, deaths |-> {},
                        ledgers |-> {}, journal |-> {}, tavern |-> {}, serial |-> 0,
                        tokens |-> {}, sends |-> {}, keys |-> {}, world |-> world]
  /\ told = [memory |-> {}, postgres |-> {}]

(* The clock has reached its bound.                                        *)
Over == now = MaxTime /\ UNCHANGED storageVars

StorageNext ==
  \/ MinutePasses
  \/ \E q \in Requests : CreateAccount(q) \/ \E d \in Devices : Look(q, d)
  \/ \E c \in postgres.characters :
       /\ c.alive
       /\ RecordDeath(c) \/ Retire(c) \/ \E killed \in BOOLEAN : Transfer(c, killed)
  \/ \E a \in Accounts :
       \/ Claim(a) \/ TouchAccountSeen(a) \/ MarkAway(a) \/ SendTavernMessage(a)
       \/ CompleteIdempotent(a) \/ ReleaseIdempotent(a)
       \/ \E l \in Ledgers, v \in Settings : SaveLedger(l, a, v)
       \/ \E t \in Tokens : SavePushToken(a, t)
       \/ \E e \in Events : ClaimPushSend(a, e)
       \/ \E c \in Calls : BeginIdempotent(a, c)
  \/ \E d \in Devices, t \in 0..now : AppendJournal(d, <<t>>) \/ AppendJournal(d, <<t, now>>)
  \/ BurnSerial
  \/ \E ts \in SUBSET Tokens : DeletePushTokens(ts)
  \/ ExpireIdempotency
  \/ \E amount \in 0..Target : AddGuildProgress(amount)
  \/ SaveWorld
  \/ Over

StorageSpec == StorageInit /\ [][StorageNext]_storageVars

-----------------------------------------------------------------------------
(* Properties *)

(* One answer of memory, for a query that Postgres may answer with any of  *)
(* `possible'.                                                             *)
Answers(one, possible) == IF possible = {} THEN one = {} ELSE one # {} /\ one \subseteq possible

(* What is looked up a row at a time, and the deaths newest first.         *)
RowsAgree ==
  /\ \A a \in Accounts :
       /\ Answers(MemoryActive(a), PostgresActive(a))
       /\ Answers(MemoryLatest(a), PostgresLatest(a))
       /\ Answers(MemoryLatestDeath(a), PostgresLatestDeath(a))
       /\ PostgresActive(a) = {} => MemoryLatestDeath(a) = PostgresLatestDeath(a)
       /\ \A l \in Ledgers : {MemoryLedger(l, a)} = PostgresLedger(l, a)
       /\ MemoryHasFiled(a) <=> PostgresHasFiled(a)
       /\ MemoryTokens(a) = PostgresTokens(a)
  /\ PostgresMayList(SubSeq(memory.deaths, 1, Min({Limit, Len(memory.deaths)})), Limit)
  /\ memory.world = postgres.world

(* What is filtered, sorted and cut.                                       *)
ListsAgree ==
  /\ \A d \in Devices : JournalsAgree(d)
  /\ TavernsAgree
  /\ PostgresMayPick(MemoryCandidates)

CallsAgree == told.memory = told.postgres

(* The tests run on MemoryRepository, and on PostgresRepository only where *)
(* there is a database (test/adapters.ts): what they show holds of it as   *)
(* far as the two answer alike.  Whatever was written, a read gets from    *)
(* memory an answer that Postgres could give, and the record that pays a   *)
(* claim is the one both would find.                                       *)
AdaptersAgree == CallsAgree /\ RowsAgree /\ ListsAgree

(* A phone has one account and an account one recruit in service: two      *)
(* sign-ins of a device both find nothing, and have nothing to lock, when  *)
(* neither has committed (service.ts:139).                                 *)
OneAccountPerDevice ==
  /\ \A d \in Devices : Cardinality(PostgresAccount(d)) <= 1
  /\ \A a \in Accounts : Cardinality(PostgresActive(a)) <= 1
=============================================================================
