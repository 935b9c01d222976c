------------------------- MODULE Transactions_proofs -------------------------
(***************************************************************************)
(* Theorems about Transactions, for any requests of an account together.   *)
(*                                                                         *)
(* The lock of the recruit who serves has one holder, and only its holder, *)
(* or a claim while nobody serves, has an uncommitted version of a         *)
(* recruit.  So what a handler computed from the rows it read is still     *)
(* true of them when it commits, and a commit leaves the others' rows as   *)
(* they read them.                                                         *)
(***************************************************************************)
EXTENDS Transactions, FiniteSetTheorems, TLAPS

Fields == {"at", "draft", "copy", "basis", "over", "target", "file", "to",
           "minutes", "death"}

RowSet == [born : Nat, last : Nat, alive : BOOLEAN, gold : Nat]

DeathSet == [of : Nat, award : Nat]

(* Recruits one after another, the dead with their files and the last      *)
(* perhaps without, and one award for each.                                *)
Filed(rows, deaths, until) ==
  /\ rows \in Seq(RowSet) /\ deaths \in Seq(DeathSet)
  /\ \A i \in DOMAIN rows :
       /\ rows[i].last <= until
       /\ i < Len(rows) => ~rows[i].alive
       /\ i > 1 => rows[i].born >= rows[i - 1].last
       /\ rows[i].alive <=> \A k \in DOMAIN deaths : deaths[k].of # i
  /\ \A k \in DOMAIN deaths : deaths[k].of \in DOMAIN rows
  /\ \A k, l \in DOMAIN deaths :
       deaths[k].of = deaths[l].of /\ deaths[k].award > 0 /\ deaths[l].award > 0 => k = l

Anyone(rows) == \E i \in DOMAIN rows : rows[i].alive

(* What is committed, and its histories.                                   *)
Committed ==
  LET rows == db.characters
      deaths == db.deaths
  IN  /\ Filed(rows, deaths, tick)
      /\ served \in [DOMAIN rows -> Nat] /\ paid \in [DOMAIN rows -> Nat]
      /\ \A i \in DOMAIN rows :
           /\ rows[i].last = rows[i].born + served[i]
           /\ rows[i].gold + Price * paid[i] = StartingGold + served[i]
      /\ banked \in [DOMAIN deaths -> Nat]
      /\ \A k \in DOMAIN deaths : banked[k] > 1 => k < Len(deaths)
      /\ ~Anyone(rows) /\ deaths # <<>> => banked[Len(deaths)] = 0

-----------------------------------------------------------------------------
(* One transaction *)

Resolving == {"state", "desk", "hire", "retire", "transfer"}

(* The statements a handler has.                                           *)
Has(k, s) ==
  \/ s = "done"
  \/ s = "office" /\ k = "desk"
  \/ s \in {"find", "hold"} /\ k \in Kinds \ {"rung", "absent"}
  \/ s \in {"consult", "registry", "payroll", "redeem", "assignment", "progress",
            "finish", "tally", "reward", "save"} /\ k \in Resolving
  \/ s \in {"again", "retake"} /\ k \in {"desk", "hire", "transfer"}
  \/ s = "pay" /\ k = "desk"
  \/ s = "posts" /\ k \in {"hire", "policy"}
  \/ s = "appoint" /\ k = "hire"
  \/ s = "amend" /\ k = "policy"
  \/ s = "pension" /\ k \in {"rung", "claim", "retire", "transfer"}
  \/ s = "buy" /\ k = "rung"
  \/ s = "death" /\ k = "claim"
  \/ s = "close" /\ k = "retire"
  \/ s = "bank" /\ k \in {"claim", "retire"}
  \/ s \in {"enter", "surrender", "separate"} /\ k = "transfer"
  \/ s = "record" /\ k \in {"transfer", "commendation"}
  \/ s \in {"file", "handback"} /\ k = "abandon"
  \/ s = "spend" /\ k = "commendation"
  \/ s = "insert" /\ k \in {"claim", "retire", "transfer"}
  \/ s = "commit" /\ k \in Kinds \ {"absent"}

(* Before it has asked for the recruit.                                    *)
Unheld(k, s) ==
  \/ s \in {"done", "office", "find", "hold", "retake", "amend", "buy", "file",
            "handback", "spend"}
  \/ s = "posts" /\ k = "policy"
  \/ s = "pension" /\ k = "rung"
  \/ s = "record" /\ k = "commendation"

(* With the recruit, before the span is saved.                             *)
Computing == {"consult", "registry", "payroll", "redeem", "assignment", "progress",
              "finish", "tally", "reward", "save"}

Drafted(x) == "characters" \in DOMAIN x.draft

DeathsOf(x, deaths) == IF "deaths" \in DOMAIN x.draft THEN x.draft["deaths"] ELSE deaths

Charge(x, k) == IF k \in {"desk", "hire"} /\ x.at = "commit" THEN Price ELSE 0

Where(x, k) ==
  /\ DOMAIN x = Fields
  /\ Has(k, x.at)

(* What an uncommitted version adds to the committed one.                  *)
Adds(x, k, rows, deaths) ==
  LET mine == x.draft["characters"]
  IN  /\ Len(mine) = Len(rows) \/ Len(mine) = Len(rows) + 1
      /\ x.at # "commit" => Len(mine) = Len(rows)
      /\ x.at = "commit" /\ k \in {"claim", "retire", "transfer"} =>
           Len(mine) = Len(rows) + 1
      /\ \A i \in DOMAIN rows : i # x.file => mine[i] = rows[i]
      /\ x.file # 0 =>
           /\ mine[x.file].born = rows[x.file].born
           /\ mine[x.file].last = rows[x.file].last + x.minutes
           /\ mine[x.file].gold + Charge(x, k) = rows[x.file].gold + x.minutes
      /\ x.file = 0 =>
           /\ k = "claim" /\ x.at = "commit" /\ ~Anyone(rows)
           /\ x.minutes = 0 /\ Len(mine) = Len(rows) + 1
      /\ Len(mine) = Len(rows) + 1 =>
           /\ mine[Len(mine)].born = mine[Len(mine)].last
           /\ mine[Len(mine)].gold = StartingGold
           /\ mine[Len(mine)].alive
      /\ Len(DeathsOf(x, deaths)) >= Len(deaths)
      /\ \A i \in DOMAIN deaths : DeathsOf(x, deaths)[i] = deaths[i]

Holding(x, k, rows, deaths, until) ==
  /\ x.target \in {0} \cup DOMAIN rows
  /\ x.file \in {0} \cup DOMAIN rows
  /\ x.minutes \in Nat /\ x.to \in Nat /\ x.to <= until
  /\ x.file # 0 => rows[x.file].alive
  /\ Drafted(x) => Filed(x.draft["characters"], DeathsOf(x, deaths), until)
                   /\ Adds(x, k, rows, deaths)
  /\ ~Drafted(x) =>
       /\ "deaths" \notin DOMAIN x.draft /\ x.minutes = 0
       /\ x.at = "commit" => k \notin {"desk", "hire", "claim", "retire", "transfer"}
  /\ Unheld(k, x.at) => x.file = 0 /\ ~Drafted(x)
  /\ x.at \in Computing => x.file # 0 /\ ~Drafted(x)
  /\ x.at = "save" => x.to > rows[x.file].last
  /\ x.at \in {"surrender", "separate"} => x.file # 0
  /\ k \in {"retire", "transfer"} /\ x.at = "insert" => Drafted(x)
  /\ k = "retire" /\ x.at \in {"pension", "bank", "insert", "commit"} =>
       /\ "deaths" \in DOMAIN x.draft
       /\ x.death = Len(x.draft["deaths"]) /\ x.death > Len(deaths)
  /\ k = "claim" /\ x.at \in {"pension", "bank", "insert", "commit"} =>
       x.file = 0 /\ x.death \in 1..Len(deaths)
  /\ k = "claim" /\ x.at # "commit" => ~Drafted(x)

(* One holder, and one uncommitted version of the recruits.                *)
Alone ==
  \A t, u \in Requests : t # u =>
    /\ tx[t].file = 0 \/ tx[u].file = 0
    /\ ~Drafted(tx[t]) \/ ~Drafted(tx[u])

-----------------------------------------------------------------------------
(* What it has read *)

(* What a statement writes has been read by then.                          *)
HasRead(x, k) ==
  LET read == DOMAIN x.basis
  IN  /\ x.at \in {"registry", "payroll", "redeem"} => "pensions" \in read
      /\ x.at = "payroll" => "registries" \in read
      /\ x.at \in {"progress", "finish"} => "assignments" \in read
      /\ x.at = "reward" => "transfers" \in read
      /\ x.at = "appoint" => "registries" \in read
      /\ x.at \in {"bank", "enter", "surrender"} => "pensions" \in read
      /\ x.at = "record" /\ k = "transfer" => "pensions" \in read
      /\ x.at = "enter" => "transfers" \in read

(* A claim that others have gone past.                                     *)
Overtaken(x, rows, deaths) == Anyone(rows) \/ x.death < Len(deaths)

Guarded(k, r) == k \notin Unguarded[r]

Fresh(x, k, rows, deaths, wrote, by) ==
  \A r \in DOMAIN x.basis : Guarded(k, r) =>
    \/ x.basis[r] = wrote[r] \/ ~Guarded(by[wrote[r]], r)
    \/ x.file = 0 /\ (k = "claim" => Overtaken(x, rows, deaths))

Copies(x, k, rows, deaths, wrote, by) ==
  /\ DOMAIN x.basis \subseteq Shared
  /\ DOMAIN x.draft \subseteq Tables
  /\ HasRead(x, k)
  /\ Fresh(x, k, rows, deaths, wrote, by)
  /\ (Unheld(k, x.at) \/ (x.at = "again" /\ x.file = 0)) =>
       \A r \in DOMAIN x.basis : ~Guarded(k, r)
  /\ \A r \in DOMAIN x.draft \cap Shared : Guarded(k, r) => x.file # 0 \/ k = "claim"
  /\ k = "claim" /\ x.at \in {"done", "find", "hold", "death"} =>
       DOMAIN x.basis = {} /\ x.over = {}
  /\ \A c \in x.over :
       /\ DOMAIN c = {"row", "by", "over", "late"}
       /\ \/ {c.by, c.over} \cap Unguarded[c.row] # {}
          \/ k = "claim" /\ Overtaken(x, rows, deaths)

TxOK(t) ==
  /\ Where(tx[t], kind[t])
  /\ Holding(tx[t], kind[t], db.characters, db.deaths, tick)

Reading(t) == Copies(tx[t], kind[t], db.characters, db.deaths, author, kind)

LockInv ==
  /\ tick \in Nat /\ kind \in [Requests -> Kinds] /\ DOMAIN tx = Requests
  /\ Committed
  /\ \A t \in Requests : TxOK(t)
  /\ Alone

CrossInv == OnlyUnguardedCross /\ \A t \in Requests : Reading(t)

TransInv == LockInv /\ CrossInv

-----------------------------------------------------------------------------
(* Constants, the order of statements, and what a statement changes *)

LEMMA Constants ==
  /\ MaxTick \in Nat /\ StartingGold \in Nat /\ Price \in Nat
  /\ Award \in Nat /\ Award > 0 /\ MinService \in Nat
  /\ Nobody \notin Requests /\ Mixes \subseteq [Requests -> Kinds]
BY TransactionsAssumption

LEMMA KindsAre ==
  Kinds = {"state", "desk", "hire", "policy", "rung", "claim", "retire", "transfer",
           "abandon", "commendation", "absent"}
BY DEF Kinds, Follows

(* Where each handler's statements lead.                                   *)
LEMMA Edges ==
  /\ \A k \in Kinds :
       /\ After(k, "payroll") = "redeem" /\ After(k, "redeem") = "assignment"
       /\ After(k, "tally") = "reward" /\ After(k, "again") = "retake"
  /\ \A k \in Resolving : After(k, "find") = "hold" /\ After(k, "hold") = "consult"
  /\ After("state", "begin") = "find" /\ After("state", "save") = "commit"
  /\ After("desk", "begin") = "office" /\ After("desk", "office") = "find"
  /\ After("desk", "save") = "again" /\ After("desk", "retake") = "pay"
  /\ After("desk", "pay") = "commit"
  /\ After("hire", "begin") = "find" /\ After("hire", "save") = "again"
  /\ After("hire", "retake") = "posts" /\ After("hire", "posts") = "appoint"
  /\ After("hire", "appoint") = "commit"
  /\ After("policy", "begin") = "posts" /\ After("policy", "posts") = "amend"
  /\ After("policy", "amend") = "find" /\ After("policy", "find") = "hold"
  /\ After("policy", "hold") = "commit"
  /\ After("rung", "begin") = "pension" /\ After("rung", "pension") = "buy"
  /\ After("rung", "buy") = "commit"
  /\ After("claim", "begin") = "find" /\ After("claim", "find") = "hold"
  /\ After("claim", "hold") = "death" /\ After("claim", "death") = "pension"
  /\ After("claim", "pension") = "bank" /\ After("claim", "bank") = "insert"
  /\ After("claim", "insert") = "commit"
  /\ After("retire", "begin") = "find" /\ After("retire", "save") = "close"
  /\ After("retire", "close") = "pension" /\ After("retire", "pension") = "bank"
  /\ After("retire", "bank") = "insert" /\ After("retire", "insert") = "commit"
  /\ After("transfer", "begin") = "find" /\ After("transfer", "save") = "again"
  /\ After("transfer", "retake") = "pension"
  /\ After("transfer", "pension") = "record"
  /\ After("transfer", "record") = "enter"
  /\ After("transfer", "enter") = "surrender"
  /\ After("transfer", "surrender") = "separate"
  /\ After("transfer", "separate") = "insert"
  /\ After("transfer", "insert") = "commit"
  /\ After("abandon", "begin") = "file" /\ After("abandon", "file") = "handback"
  /\ After("abandon", "handback") = "find" /\ After("abandon", "find") = "hold"
  /\ After("abandon", "hold") = "commit"
  /\ After("commendation", "begin") = "record"
  /\ After("commendation", "record") = "spend"
  /\ After("commendation", "spend") = "find"
  /\ After("commendation", "find") = "hold"
  /\ After("commendation", "hold") = "commit"
  /\ After("absent", "begin") = "done"
<1>1. \A k \in Kinds : /\ After(k, "payroll") = "redeem"
                       /\ After(k, "redeem") = "assignment"
                       /\ After(k, "tally") = "reward" /\ After(k, "again") = "retake"
  BY KindsAre DEF After, Follows, Inside, FormT1
<1>2. \A k \in Resolving : After(k, "find") = "hold" /\ After(k, "hold") = "consult"
  BY DEF After, Follows, Inside, FormT1, Resolving
<1>3. /\ After("state", "begin") = "find" /\ After("state", "save") = "commit"
  BY DEF After, Follows, Inside, FormT1
<1>4. /\ After("desk", "begin") = "office" /\ After("desk", "office") = "find"
      /\ After("desk", "save") = "again" /\ After("desk", "retake") = "pay"
      /\ After("desk", "pay") = "commit"
  BY DEF After, Follows, Inside, FormT1
<1>5. /\ After("hire", "begin") = "find" /\ After("hire", "save") = "again"
      /\ After("hire", "retake") = "posts" /\ After("hire", "posts") = "appoint"
      /\ After("hire", "appoint") = "commit"
  BY DEF After, Follows, Inside, FormT1
<1>6. /\ After("policy", "begin") = "posts" /\ After("policy", "posts") = "amend"
      /\ After("policy", "amend") = "find" /\ After("policy", "find") = "hold"
      /\ After("policy", "hold") = "commit"
  BY DEF After, Follows, Inside, FormT1
<1>7. /\ After("rung", "begin") = "pension" /\ After("rung", "pension") = "buy"
      /\ After("rung", "buy") = "commit"
  BY DEF After, Follows, Inside, FormT1
<1>8. /\ After("claim", "begin") = "find" /\ After("claim", "find") = "hold"
      /\ After("claim", "hold") = "death" /\ After("claim", "death") = "pension"
      /\ After("claim", "pension") = "bank" /\ After("claim", "bank") = "insert"
      /\ After("claim", "insert") = "commit"
  BY DEF After, Follows, Inside, FormT1
<1>9. /\ After("retire", "begin") = "find" /\ After("retire", "save") = "close"
      /\ After("retire", "close") = "pension" /\ After("retire", "pension") = "bank"
      /\ After("retire", "bank") = "insert" /\ After("retire", "insert") = "commit"
  BY DEF After, Follows, Inside, FormT1
<1>10. /\ After("transfer", "begin") = "find" /\ After("transfer", "save") = "again"
       /\ After("transfer", "retake") = "pension"
       /\ After("transfer", "pension") = "record"
       /\ After("transfer", "record") = "enter"
       /\ After("transfer", "enter") = "surrender"
       /\ After("transfer", "surrender") = "separate"
       /\ After("transfer", "separate") = "insert"
       /\ After("transfer", "insert") = "commit"
  BY DEF After, Follows, Inside, FormT1
<1>11. /\ After("abandon", "begin") = "file"
       /\ After("abandon", "file") = "handback"
       /\ After("abandon", "handback") = "find" /\ After("abandon", "find") = "hold"
       /\ After("abandon", "hold") = "commit"
  BY DEF After, Follows, Inside, FormT1
<1>12. /\ After("commendation", "begin") = "record"
       /\ After("commendation", "record") = "spend"
       /\ After("commendation", "spend") = "find"
       /\ After("commendation", "find") = "hold"
       /\ After("commendation", "hold") = "commit"
  BY DEF After, Follows, Inside, FormT1
<1>13. /\ After("absent", "begin") = "done"
  BY DEF After, Follows, Inside, FormT1
<1> QED BY <1>1, <1>2, <1>3, <1>4, <1>5, <1>6, <1>7,
          <1>8, <1>9, <1>10, <1>11, <1>12, <1>13

(* Where a handler goes on after a resolution.                             *)
LEMMA BeyondIs ==
  ASSUME NEW k \in Resolving
  PROVE  /\ k \in Kinds
         /\ Beyond(k) \in {"commit", "again", "close"}
         /\ Beyond(k) = "commit" => k = "state"
         /\ Beyond(k) = "again" => k \in {"desk", "hire", "transfer"}
         /\ Beyond(k) = "close" => k = "retire"
BY Edges, KindsAre DEF Resolving, Beyond

LEMMA ReadsFields ==
  ASSUME NEW x, DOMAIN x = Fields, NEW t, NEW R, NEW y, y = Reads(x, t, R)
  PROVE  /\ DOMAIN y = Fields
         /\ y.at = x.at /\ y.draft = x.draft /\ y.over = x.over /\ y.target = x.target
         /\ y.file = x.file /\ y.to = x.to /\ y.minutes = x.minutes /\ y.death = x.death
         /\ DOMAIN y.basis = DOMAIN x.basis \cup R
         /\ \A r \in DOMAIN y.basis : y.basis[r] = IF r \in R THEN author[r] ELSE x.basis[r]
BY DEF Reads, Fields

LEMMA WritesFields ==
  ASSUME NEW x, DOMAIN x = Fields, NEW t, NEW r, NEW v, NEW y, y = Writes(x, t, r, v)
  PROVE  /\ DOMAIN y = Fields
         /\ y.at = x.at /\ y.basis = x.basis /\ y.target = x.target
         /\ y.file = x.file /\ y.to = x.to /\ y.minutes = x.minutes /\ y.death = x.death
         /\ DOMAIN y.draft = DOMAIN x.draft \cup {r}
         /\ \A s \in DOMAIN x.draft : s # r => y.draft[s] = x.draft[s]
         /\ y.over \subseteq x.over
              \cup {[row |-> r, by |-> kind[t], over |-> kind[author[r]], late |-> FALSE]}
         /\ y.over # x.over => r \notin DOMAIN x.draft /\ x.basis[r] # author[r]
BY DEF Writes, Fields, Put

LEMMA ThenFields ==
  ASSUME NEW t, DOMAIN tx[t] = Fields, NEW s, NEW y, y = Then(t, s)
  PROVE  /\ DOMAIN y = Fields
         /\ y.at = s /\ y.draft = tx[t].draft /\ y.basis = tx[t].basis
         /\ y.over = tx[t].over /\ y.target = tx[t].target /\ y.file = tx[t].file
         /\ y.to = tx[t].to /\ y.minutes = tx[t].minutes /\ y.death = tx[t].death
BY DEF Then, Fields

-----------------------------------------------------------------------------
(* A step of one transaction *)

(* What a request may become without a commit.                             *)
Good(t, y) ==
  /\ Where(y, kind[t])
  /\ Holding(y, kind[t], db.characters, db.deaths, tick)
  /\ Copies(y, kind[t], db.characters, db.deaths, author, kind)
  /\ \A u \in Requests \ {t} :
       /\ y.file = 0 \/ tx[u].file = 0
       /\ ~Drafted(y) \/ ~Drafted(tx[u])

LEMMA Moved ==
  ASSUME TransInv, NEW t \in Requests, NEW y, Moves(t, y), Good(t, y)
  PROVE  TransInv'
<1>1. /\ tick' = tick /\ kind' = kind /\ db' = db /\ author' = author
      /\ served' = served /\ paid' = paid /\ banked' = banked /\ crossed' = crossed
      /\ DOMAIN tx = Requests /\ tx' = [tx EXCEPT ![t] = y]
  BY DEF Moves, Keeps, TransInv, LockInv
<1>2. DOMAIN tx' = Requests /\ tx'[t] = y /\ \A u \in Requests \ {t} : tx'[u] = tx[u]
  BY <1>1
<1>3. Committed' /\ OnlyUnguardedCross'
  BY <1>1 DEF TransInv, LockInv, CrossInv, Committed, OnlyUnguardedCross
<1>4. ASSUME NEW u \in Requests PROVE TxOK(u)' /\ Reading(u)'
  <2>1. TxOK(u) /\ Reading(u)
    BY DEF TransInv, LockInv, CrossInv
  <2>2. CASE u = t
    BY <1>1, <1>2, <2>2 DEF Good, TxOK, Reading
  <2>3. CASE u # t
    BY <1>1, <1>2, <2>1, <2>3 DEF TxOK, Reading
  <2> QED BY <2>2, <2>3
<1>5. Alone'
  BY <1>2 DEF TransInv, LockInv, Alone, Good
<1> QED BY <1>1, <1>2, <1>3, <1>4, <1>5 DEF TransInv, LockInv, CrossInv

(* What every step of t may use.                                           *)
LEMMA Facts ==
  ASSUME TransInv, NEW t \in Requests
  PROVE  /\ kind[t] \in Kinds
         /\ Where(tx[t], kind[t])
         /\ Holding(tx[t], kind[t], db.characters, db.deaths, tick)
         /\ Copies(tx[t], kind[t], db.characters, db.deaths, author, kind)
         /\ Filed(db.characters, db.deaths, tick)
         /\ tick \in Nat
         /\ \A u \in Requests \ {t} :
              /\ tx[t].file = 0 \/ tx[u].file = 0
              /\ ~Drafted(tx[t]) \/ ~Drafted(tx[u])
BY DEF TransInv, LockInv, CrossInv, TxOK, Reading, Committed, Alone

(* A request that leaves the recruits alone, and what it holds of them.    *)
Quiet(x, y) ==
  /\ DOMAIN y = Fields
  /\ y.file = x.file /\ y.minutes = x.minutes /\ y.death = x.death
  /\ DOMAIN x.draft \subseteq DOMAIN y.draft
  /\ DOMAIN y.draft \subseteq DOMAIN x.draft \cup Shared
  /\ \A r \in {"characters", "deaths"} \cap DOMAIN x.draft : y.draft[r] = x.draft[r]
  /\ x.at # "commit"
  /\ y.at = "commit" => ~Drafted(x)

LEMMA QuietDraft ==
  ASSUME NEW x, NEW y, NEW k, NEW rows, NEW deaths, NEW until,
         Holding(x, k, rows, deaths, until), Quiet(x, y)
  PROVE  /\ Drafted(y) <=> Drafted(x)
         /\ "deaths" \in DOMAIN y.draft <=> "deaths" \in DOMAIN x.draft
         /\ "deaths" \in DOMAIN x.draft => y.draft["deaths"] = x.draft["deaths"]
         /\ Drafted(y) => Filed(y.draft["characters"], DeathsOf(y, deaths), until)
                          /\ Adds(y, k, rows, deaths)
<1>1. Drafted(y) <=> Drafted(x)
  BY DEF Quiet, Shared, Drafted
<1>2. /\ "deaths" \in DOMAIN y.draft <=> "deaths" \in DOMAIN x.draft
      /\ "deaths" \in DOMAIN x.draft => y.draft["deaths"] = x.draft["deaths"]
      /\ DeathsOf(y, deaths) = DeathsOf(x, deaths)
  BY DEF Quiet, Shared, DeathsOf
<1>3. ASSUME Drafted(y)
      PROVE  Filed(y.draft["characters"], DeathsOf(y, deaths), until)
             /\ Adds(y, k, rows, deaths)
  <2>1. /\ Drafted(x) /\ y.draft["characters"] = x.draft["characters"]
        /\ x.at # "commit" /\ y.at # "commit"
        /\ y.file = x.file /\ y.minutes = x.minutes
    BY <1>1, <1>3 DEF Quiet, Drafted
  <2>2. Filed(x.draft["characters"], DeathsOf(x, deaths), until) /\ Adds(x, k, rows, deaths)
    BY <2>1 DEF Holding
  <2>3. Charge(y, k) = Charge(x, k)
    BY <2>1 DEF Charge
  <2>4. Adds(y, k, rows, deaths)
    BY <1>2, <2>1, <2>2, <2>3 DEF Adds
  <2> QED BY <1>2, <2>1, <2>2, <2>4
<1> QED BY <1>1, <1>2, <1>3

LEMMA QuietMoved ==
  ASSUME TransInv, NEW t \in Requests, NEW y, Moves(t, y), Quiet(tx[t], y),
         Where(y, kind[t]),
         Holding(y, kind[t], db.characters, db.deaths, tick),
         Copies(y, kind[t], db.characters, db.deaths, author, kind)
  PROVE  TransInv'
<1>1. y.file = tx[t].file /\ (Drafted(y) <=> Drafted(tx[t]))
  BY Facts, QuietDraft DEF Quiet
<1>2. Good(t, y)
  BY <1>1, Facts DEF Good
<1> QED BY <1>2, Moved

(* What the holder has read stays fresh as long as it only reads.          *)
LEMMA ReadsCopies ==
  ASSUME NEW x, NEW y, NEW k, NEW rows, NEW deaths, NEW R \in SUBSET Shared,
         Copies(x, k, rows, deaths, author, kind),
         y.draft = x.draft, y.over = x.over, y.file = x.file, y.death = x.death,
         DOMAIN y.basis = DOMAIN x.basis \cup R,
         \A r \in DOMAIN y.basis :
           y.basis[r] = IF r \in R THEN author[r] ELSE x.basis[r],
         HasRead(y, k),
         Unheld(k, y.at) \/ (y.at = "again" /\ y.file = 0) =>
           \A r \in DOMAIN y.basis : ~Guarded(k, r),
         k = "claim" => y.at \notin {"done", "find", "hold", "death"}
  PROVE  Copies(y, k, rows, deaths, author, kind)
<1>1. Fresh(y, k, rows, deaths, author, kind)
  BY DEF Copies, Fresh, Overtaken
<1>2. \A c \in y.over :
       /\ DOMAIN c = {"row", "by", "over", "late"}
       /\ \/ {c.by, c.over} \cap Unguarded[c.row] # {}
          \/ k = "claim" /\ Overtaken(y, rows, deaths)
  BY DEF Copies, Overtaken
<1> QED BY <1>1, <1>2 DEF Copies

(* What it overwrites unread was written by someone without the lock.      *)
LEMMA WritesCopies ==
  ASSUME NEW x, NEW y, NEW k, NEW rows, NEW deaths, NEW r \in Shared,
         Copies(x, k, rows, deaths, author, kind),
         y.basis = x.basis, y.file = x.file, y.death = x.death,
         DOMAIN y.draft = DOMAIN x.draft \cup {r},
         y.over \subseteq x.over
           \cup {[row |-> r, by |-> k, over |-> kind[author[r]], late |-> FALSE]},
         y.over # x.over => x.basis[r] # author[r],
         Guarded(k, r) => r \in DOMAIN x.basis /\ (x.file # 0 \/ k = "claim"),
         HasRead(y, k),
         Unheld(k, y.at) \/ (y.at = "again" /\ y.file = 0) =>
           \A s \in DOMAIN x.basis : ~Guarded(k, s),
         k = "claim" => y.at \notin {"done", "find", "hold", "death"}
  PROVE  Copies(y, k, rows, deaths, author, kind)
<1>1. Fresh(y, k, rows, deaths, author, kind)
  BY DEF Copies, Fresh, Overtaken
<1>2. ASSUME NEW c \in y.over
      PROVE  /\ DOMAIN c = {"row", "by", "over", "late"}
             /\ \/ {c.by, c.over} \cap Unguarded[c.row] # {}
                \/ k = "claim" /\ Overtaken(y, rows, deaths)
  <2>1. CASE c \in x.over
    BY <2>1 DEF Copies, Overtaken
  <2>2. CASE c \notin x.over
    <3>1. c = [row |-> r, by |-> k, over |-> kind[author[r]], late |-> FALSE]
      BY <2>2
    <3>2. x.basis[r] # author[r]
      BY <2>2
    <3>3. \/ ~Guarded(k, r) \/ ~Guarded(kind[author[r]], r)
          \/ k = "claim" /\ Overtaken(x, rows, deaths)
      BY <3>2 DEF Copies, Fresh
    <3> QED BY <3>1, <3>3 DEF Guarded, Overtaken
  <2> QED BY <2>1, <2>2
<1>3. DOMAIN y.draft \subseteq Tables /\ DOMAIN y.basis \subseteq Shared
  BY DEF Copies, Tables
<1>4. \A s \in DOMAIN y.draft \cap Shared : Guarded(k, s) => y.file # 0 \/ k = "claim"
  BY DEF Copies
<1> QED BY <1>1, <1>2, <1>3, <1>4 DEF Copies

-----------------------------------------------------------------------------
(* The statements of a resolution *)

LEMMA ServingIsOne == TheServing \in {0} \cup DOMAIN db.characters
BY DEF TheServing, Serving

LEMMA FindKeeps ==
  ASSUME TransInv, NEW t \in Requests, Find(t)
  PROVE  TransInv'
<1> DEFINE x == tx[t]
           k == kind[t]
           y == [Onward(t) EXCEPT !.target = TheServing, !.to = tick]
<1>1. Moves(t, y) /\ x.at = "find"
  BY DEF Find, Does, At
<1>2. /\ k \in Kinds /\ Where(x, k) /\ tick \in Nat
      /\ Holding(x, k, db.characters, db.deaths, tick)
      /\ Copies(x, k, db.characters, db.deaths, author, kind)
  BY Facts
<1>3. After(k, "find") = "hold" /\ Has(k, "hold")
  BY <1>1, <1>2, Edges, KindsAre DEF Where, Has, Resolving
<1>4. /\ DOMAIN y = Fields
      /\ y.at = "hold" /\ y.draft = x.draft /\ y.basis = x.basis /\ y.over = x.over
      /\ y.target = TheServing /\ y.file = x.file /\ y.to = tick
      /\ y.minutes = x.minutes /\ y.death = x.death
  BY <1>1, <1>2, <1>3 DEF Onward, Then, Where, Fields
<1> HIDE DEF y
<1>5. Where(y, k) /\ Quiet(x, y)
  BY <1>1, <1>3, <1>4 DEF Where, Quiet
<1>6. Unheld(k, "find") /\ Unheld(k, "hold")
  BY DEF Unheld
<1>7. x.file = 0 /\ ~Drafted(x)
  BY <1>1, <1>2, <1>6 DEF Holding
<1>8. Holding(y, k, db.characters, db.deaths, tick)
  BY <1>2, <1>4, <1>7, ServingIsOne DEF Holding, Drafted, Computing
<1>9. Copies(y, k, db.characters, db.deaths, author, kind)
  BY <1>1, <1>2, <1>4, <1>6 DEF Copies, Fresh, Overtaken, HasRead
<1> QED BY <1>1, <1>5, <1>8, <1>9, QuietMoved

LEMMA HoldKeeps ==
  ASSUME TransInv, NEW t \in Requests, Hold(t)
  PROVE  TransInv'
<1> DEFINE x == tx[t]
           k == kind[t]
           rows == db.characters
           i == x.target
           file == IF i # 0 /\ rows[i].alive THEN i ELSE 0
           next == After(k, x.at)
           at == IF file = 0 /\ next = "consult" THEN Beyond(k) ELSE next
           y == [x EXCEPT !.file = file, !.at = at]
<1>1. /\ Moves(t, y) /\ x.at \in {"hold", "retake"}
      /\ \A u \in Requests \ {t} : ~HeldFrom(t, u)
  BY DEF Hold, Does, At, Blockers, Waits
<1>2. /\ k \in Kinds /\ Where(x, k)
      /\ Holding(x, k, rows, db.deaths, tick)
      /\ Copies(x, k, rows, db.deaths, author, kind)
      /\ Filed(rows, db.deaths, tick)
  BY Facts
<1>3. /\ k \in Resolving /\ x.at = "hold" => next = "consult"
      /\ k \in {"policy", "abandon", "commendation"} => x.at = "hold" /\ next = "commit"
      /\ k = "claim" => x.at = "hold" /\ next = "death"
      /\ x.at = "retake" => /\ k \in {"desk", "hire", "transfer"}
                            /\ k = "desk" => next = "pay"
                            /\ k = "hire" => next = "posts"
                            /\ k = "transfer" => next = "pension"
      /\ k \notin {"rung", "absent"}
  BY <1>1, <1>2, Edges, KindsAre DEF Where, Has, Resolving
<1>4. /\ Has(k, at)
      /\ at \in {"consult", "death", "pay", "posts", "pension", "commit", "again", "close"}
      /\ at = "consult" => file # 0
      /\ at = "commit" => k \in {"policy", "abandon", "commendation", "state"}
      /\ at = "again" => file = 0
      /\ at = "pension" => k = "transfer"
      /\ at = "posts" => k = "hire"
      /\ k = "claim" => at = "death"
  <2> HIDE DEF file, next
  <2>1. CASE x.at = "retake"
    BY <1>2, <1>3, <2>1, KindsAre DEF Has
  <2>2. CASE x.at = "hold" /\ k \notin Resolving
    BY <1>2, <1>3, <2>2, KindsAre DEF Has, Resolving
  <2>3. CASE x.at = "hold" /\ k \in Resolving /\ file = 0
    BY <1>3, <2>3, BeyondIs DEF Has, Resolving
  <2>4. CASE x.at = "hold" /\ k \in Resolving /\ file # 0
    BY <1>3, <2>4 DEF Has, Resolving
  <2> QED BY <1>1, <2>1, <2>2, <2>3, <2>4
<1> HIDE DEF at, next
<1>5. /\ DOMAIN y = Fields
      /\ y.at = at /\ y.draft = x.draft /\ y.basis = x.basis /\ y.over = x.over
      /\ y.target = x.target /\ y.file = file /\ y.to = x.to
      /\ y.minutes = x.minutes /\ y.death = x.death
  BY <1>2 DEF Where, Fields
<1>6. file \in {0} \cup DOMAIN rows /\ (file # 0 => file = i /\ rows[file].alive)
  BY <1>2 DEF Holding
<1> HIDE DEF y, file
<1>7. Unheld(k, x.at) /\ ~Unheld(k, at)
  BY <1>1, <1>4 DEF Unheld
<1>8. x.file = 0 /\ ~Drafted(x)
  BY <1>2, <1>7 DEF Holding
<1>9. Where(y, k)
  BY <1>4, <1>5 DEF Where
<1>10. Holding(y, k, rows, db.deaths, tick)
  BY <1>2, <1>4, <1>5, <1>6, <1>7, <1>8 DEF Holding, Drafted, Computing
<1>11. Copies(y, k, rows, db.deaths, author, kind)
  <2>1. \A r \in DOMAIN x.basis : ~Guarded(k, r)
    BY <1>2, <1>7 DEF Copies
  <2>2. HasRead(y, k)
    BY <1>4, <1>5 DEF HasRead
  <2>3. Fresh(y, k, rows, db.deaths, author, kind)
    BY <1>5, <2>1 DEF Fresh
  <2>4. Overtaken(y, rows, db.deaths) <=> Overtaken(x, rows, db.deaths)
    BY <1>5 DEF Overtaken
  <2>5. \A r \in DOMAIN x.draft \cap Shared : Guarded(k, r) => k = "claim"
    BY <1>2, <1>8 DEF Copies
  <2>6. k = "claim" => DOMAIN x.basis = {} /\ x.over = {}
    BY <1>2, <1>3 DEF Copies
  <2> QED BY <1>2, <1>5, <1>7, <2>1, <2>2, <2>3, <2>4, <2>5, <2>6 DEF Copies
<1>12. ASSUME NEW u \in Requests \ {t}
       PROVE  (y.file = 0 \/ tx[u].file = 0) /\ (~Drafted(y) \/ ~Drafted(tx[u]))
  <2>1. Holding(tx[u], kind[u], rows, db.deaths, tick)
    BY Facts
  <2>2. ASSUME file # 0, tx[u].file # 0 PROVE FALSE
    <3>1. tx[u].file \in DOMAIN rows /\ rows[tx[u].file].alive
      BY <2>1, <2>2 DEF Holding
    <3>2. rows \in Seq(RowSet) /\ \A j \in DOMAIN rows : j < Len(rows) => ~rows[j].alive
      BY <1>2 DEF Filed
    <3>3. file = tx[u].file
      BY <1>6, <2>2, <3>1, <3>2
    <3>4. HeldFrom(t, u)
      BY <1>6, <2>2, <3>3 DEF HeldFrom
    <3> QED BY <1>1, <3>4
  <2> QED BY <1>5, <1>8, <2>2 DEF Drafted
<1>13. Good(t, y)
  BY <1>9, <1>10, <1>11, <1>12 DEF Good
<1> QED BY <1>1, <1>13, Moved

(* Where a resolution may be after one of its statements.                  *)
Onwards(s, k) ==
  /\ s \in Computing \cup {"commit", "again", "close"}
  /\ s = "commit" => k = "state"
  /\ s = "again" => k \in {"desk", "hire", "transfer"}
  /\ s = "close" => k = "retire"

LEMMA InsideIs ==
  ASSUME TransInv, NEW t \in Requests, tx[t].at \in Computing
  PROVE  /\ kind[t] \in Resolving
         /\ tx[t].file \in DOMAIN db.characters
         /\ db.characters[tx[t].file] \in RowSet /\ db.characters[tx[t].file].alive
         /\ ~Drafted(tx[t]) /\ "deaths" \notin DOMAIN tx[t].draft
         /\ tx[t].to \in Nat /\ tx[t].to <= tick /\ tick \in Nat
         /\ DOMAIN tx[t] = Fields
         /\ Onwards(Beyond(kind[t]), kind[t])
<1>1. /\ Where(tx[t], kind[t])
      /\ Holding(tx[t], kind[t], db.characters, db.deaths, tick)
      /\ Filed(db.characters, db.deaths, tick) /\ tick \in Nat
  BY Facts
<1>2. kind[t] \in Resolving
  BY <1>1 DEF Where, Has, Computing
<1>3. /\ tx[t].file \in DOMAIN db.characters /\ db.characters[tx[t].file].alive
      /\ ~Drafted(tx[t]) /\ "deaths" \notin DOMAIN tx[t].draft
      /\ tx[t].to \in Nat /\ tx[t].to <= tick
  BY <1>1 DEF Holding
<1>4. db.characters[tx[t].file] \in RowSet
  BY <1>1, <1>3 DEF Filed
<1>5. Onwards(Beyond(kind[t]), kind[t])
  BY <1>2, BeyondIs DEF Onwards
<1> QED BY <1>1, <1>2, <1>3, <1>4, <1>5 DEF Where

LEMMA SettledIs ==
  ASSUME TransInv, NEW t \in Requests, tx[t].at \in Computing
  PROVE  /\ Onwards(Settled(t), kind[t])
         /\ Settled(t) = "save" => tx[t].to > db.characters[tx[t].file].last
         /\ Settled(t) \in {"save", "commit", "again", "close"}
<1>1. db.characters[tx[t].file].last \in Nat /\ tx[t].to \in Nat
  BY InsideIs DEF RowSet
<1>2. Ticks(t) > 0 => tx[t].to > db.characters[tx[t].file].last
  BY <1>1 DEF Ticks
<1>3. Onwards(Beyond(kind[t]), kind[t]) /\ Beyond(kind[t]) \in {"commit", "again", "close"}
  BY InsideIs, BeyondIs
<1> QED BY <1>2, <1>3 DEF Settled, Onwards, Computing

LEMMA InsideMoved ==
  ASSUME TransInv, NEW t \in Requests, NEW y, Moves(t, y), tx[t].at \in Computing,
         DOMAIN y = Fields, y.target = tx[t].target, y.file = tx[t].file,
         y.minutes = tx[t].minutes, y.death = tx[t].death,
         y.to \in Nat, y.to <= tick,
         DOMAIN tx[t].draft \subseteq DOMAIN y.draft,
         DOMAIN y.draft \subseteq DOMAIN tx[t].draft \cup Shared,
         Onwards(y.at, kind[t]),
         y.at = "save" => y.to > db.characters[tx[t].file].last,
         Copies(y, kind[t], db.characters, db.deaths, author, kind)
  PROVE  TransInv'
<1> DEFINE x == tx[t]
           k == kind[t]
<1>1. /\ Where(x, k) /\ Holding(x, k, db.characters, db.deaths, tick)
      /\ k \in Resolving /\ x.file # 0 /\ ~Drafted(x) /\ "deaths" \notin DOMAIN x.draft
  BY Facts, InsideIs DEF Holding
<1>2. Where(y, k)
  BY <1>1 DEF Where, Has, Onwards, Computing, Resolving, Kinds, Follows
<1>3. Quiet(x, y)
  BY <1>1 DEF Quiet, Drafted, Computing
<1>4. ~Drafted(y) /\ "deaths" \notin DOMAIN y.draft
  BY <1>1, <1>3, QuietDraft
<1>5. ~Unheld(k, y.at)
  BY <1>1 DEF Unheld, Onwards, Computing, Resolving
<1>6. Holding(y, k, db.characters, db.deaths, tick)
  BY <1>1, <1>4, <1>5 DEF Holding, Onwards, Computing, Resolving
<1> QED BY <1>2, <1>3, <1>6, QuietMoved

(* What such a statement reads.                                            *)
LEMMA InsideReads ==
  ASSUME TransInv, NEW t \in Requests, tx[t].at \in Computing,
         NEW x, NEW R \in SUBSET Shared, NEW y, y = Reads(x, t, R),
         DOMAIN x = Fields, x.draft = tx[t].draft, x.basis = tx[t].basis,
         x.over = tx[t].over, x.target = tx[t].target, x.file = tx[t].file,
         x.minutes = tx[t].minutes, x.death = tx[t].death,
         x.to \in Nat, x.to <= tick,
         Onwards(x.at, kind[t]),
         x.at = "save" => x.to > db.characters[tx[t].file].last,
         HasRead(y, kind[t]), Moves(t, y)
  PROVE  TransInv'
<1>1. /\ Copies(tx[t], kind[t], db.characters, db.deaths, author, kind)
      /\ kind[t] \in Resolving /\ tx[t].file # 0
  BY Facts, InsideIs DEF Holding
<1>2. /\ DOMAIN y = Fields
      /\ y.at = x.at /\ y.draft = x.draft /\ y.over = x.over /\ y.target = x.target
      /\ y.file = x.file /\ y.to = x.to /\ y.minutes = x.minutes /\ y.death = x.death
      /\ DOMAIN y.basis = DOMAIN x.basis \cup R
      /\ \A r \in DOMAIN y.basis : y.basis[r] = IF r \in R THEN author[r] ELSE x.basis[r]
  BY ReadsFields
<1>3. ~Unheld(kind[t], y.at) /\ kind[t] # "claim"
  BY <1>1, <1>2 DEF Unheld, Onwards, Computing, Resolving
<1>4. Copies(y, kind[t], db.characters, db.deaths, author, kind)
  BY <1>1, <1>2, <1>3, ReadsCopies
<1> QED BY <1>2, <1>4, InsideMoved

(* And what it writes.                                                     *)
LEMMA InsideWrites ==
  ASSUME TransInv, NEW t \in Requests, tx[t].at \in Computing,
         NEW s, NEW r \in Shared, NEW v,
         NEW y, y = Writes(Then(t, s), t, r, v), Moves(t, y),
         r \in DOMAIN tx[t].basis,
         Onwards(s, kind[t]),
         s = "save" => tx[t].to > db.characters[tx[t].file].last,
         HasRead(y, kind[t])
  PROVE  TransInv'
<1> DEFINE x == Then(t, s)
<1>1. /\ Copies(tx[t], kind[t], db.characters, db.deaths, author, kind)
      /\ kind[t] \in Resolving /\ tx[t].file # 0 /\ DOMAIN tx[t] = Fields
      /\ tx[t].to \in Nat /\ tx[t].to <= tick
  BY Facts, InsideIs DEF Holding
<1>2. /\ DOMAIN x = Fields
      /\ x.at = s /\ x.draft = tx[t].draft /\ x.basis = tx[t].basis
      /\ x.over = tx[t].over /\ x.target = tx[t].target /\ x.file = tx[t].file
      /\ x.to = tx[t].to /\ x.minutes = tx[t].minutes /\ x.death = tx[t].death
  BY <1>1, ThenFields
<1> HIDE DEF x
<1>3. /\ DOMAIN y = Fields
      /\ y.at = x.at /\ y.basis = x.basis /\ y.target = x.target
      /\ y.file = x.file /\ y.to = x.to /\ y.minutes = x.minutes /\ y.death = x.death
      /\ DOMAIN y.draft = DOMAIN x.draft \cup {r}
      /\ y.over \subseteq x.over
           \cup {[row |-> r, by |-> kind[t], over |-> kind[author[r]], late |-> FALSE]}
      /\ y.over # x.over => r \notin DOMAIN x.draft /\ x.basis[r] # author[r]
  BY <1>2, WritesFields DEF x
<1>4. ~Unheld(kind[t], y.at) /\ kind[t] # "claim"
  BY <1>1, <1>2, <1>3 DEF Unheld, Onwards, Computing, Resolving
<1>5. Copies(y, kind[t], db.characters, db.deaths, author, kind)
  BY <1>1, <1>2, <1>3, <1>4, WritesCopies
<1> QED BY <1>1, <1>2, <1>3, <1>5, InsideMoved

LEMMA ConsultKeeps ==
  ASSUME TransInv, NEW t \in Requests, Consult(t)
  PROVE  TransInv'
<1> DEFINE k == kind[t]
           to == IF k = "state" THEN tx[t].to ELSE tick
           next == IF to > db.characters[tx[t].file].last THEN "registry"
                   ELSE IF k = "state" THEN "assignment" ELSE Beyond(k)
           x == [Then(t, next) EXCEPT !.to = to]
           y == Reads(x, t, {"pensions"})
<1>1. Moves(t, y) /\ tx[t].at = "consult" /\ tx[t].at \in Computing
  BY DEF Consult, Does, At, Computing
<1>2. /\ DOMAIN tx[t] = Fields /\ to \in Nat /\ to <= tick
      /\ Onwards(next, k) /\ next # "save" /\ next \notin {"payroll", "redeem", "progress", "finish", "reward"}
      /\ next \in {"registry", "assignment", "commit", "again", "close"}
  BY <1>1, InsideIs, BeyondIs DEF Onwards, Computing
<1> HIDE DEF to, next
<1>3. /\ DOMAIN x = Fields /\ x.at = next /\ x.to = to
      /\ x.draft = tx[t].draft /\ x.basis = tx[t].basis /\ x.over = tx[t].over
      /\ x.target = tx[t].target /\ x.file = tx[t].file
      /\ x.minutes = tx[t].minutes /\ x.death = tx[t].death
  BY <1>2 DEF Then, Fields
<1> HIDE DEF x
<1>4. y.at = next /\ "pensions" \in DOMAIN y.basis
  BY <1>3, ReadsFields
<1>5. HasRead(y, k)
  BY <1>2, <1>4 DEF HasRead
<1>6. {"pensions"} \in SUBSET Shared
  BY DEF Shared
<1> HIDE DEF y
<1> QED BY <1>1, <1>2, <1>3, <1>5, <1>6, InsideReads DEF y

LEMMA RegistryKeeps ==
  ASSUME TransInv, NEW t \in Requests, Registry(t)
  PROVE  TransInv'
<1>1. PICK next \in {"payroll", "assignment"} :
         Moves(t, Reads(Then(t, next), t, {"registries"}))
  BY DEF Registry
<1> DEFINE x == Then(t, next)
           y == Reads(x, t, {"registries"})
<1>2. tx[t].at = "registry" /\ tx[t].at \in Computing
  BY DEF Registry, Does, At, Computing
<1>3. DOMAIN tx[t] = Fields /\ tx[t].to \in Nat /\ tx[t].to <= tick
  BY <1>2, InsideIs
<1>4. /\ DOMAIN x = Fields /\ x.at = next /\ x.to = tx[t].to
      /\ x.draft = tx[t].draft /\ x.basis = tx[t].basis /\ x.over = tx[t].over
      /\ x.target = tx[t].target /\ x.file = tx[t].file
      /\ x.minutes = tx[t].minutes /\ x.death = tx[t].death
  BY <1>3, ThenFields
<1> HIDE DEF x
<1>5. y.at = next /\ DOMAIN y.basis = DOMAIN tx[t].basis \cup {"registries"}
  BY <1>4, ReadsFields
<1>6. "pensions" \in DOMAIN tx[t].basis
  BY <1>2, Facts DEF Copies, HasRead
<1>7. HasRead(y, kind[t])
  BY <1>5, <1>6 DEF HasRead
<1>8. {"registries"} \in SUBSET Shared /\ Onwards(next, kind[t])
  BY DEF Shared, Onwards, Computing
<1> HIDE DEF y
<1> QED BY <1>1, <1>2, <1>3, <1>4, <1>7, <1>8, InsideReads DEF x, y

LEMMA AssignmentKeeps ==
  ASSUME TransInv, NEW t \in Requests, Assignment(t)
  PROVE  TransInv'
<1>1. PICK next \in {"progress", "finish", Settled(t)} :
         Moves(t, Reads(Then(t, next), t, {"assignments"}))
  BY DEF Assignment
<1> DEFINE x == Then(t, next)
           y == Reads(x, t, {"assignments"})
<1>2. tx[t].at = "assignment" /\ tx[t].at \in Computing
  BY DEF Assignment, Does, At, Computing
<1>3. DOMAIN tx[t] = Fields /\ tx[t].to \in Nat /\ tx[t].to <= tick
  BY <1>2, InsideIs
<1>4. /\ DOMAIN x = Fields /\ x.at = next /\ x.to = tx[t].to
      /\ x.draft = tx[t].draft /\ x.basis = tx[t].basis /\ x.over = tx[t].over
      /\ x.target = tx[t].target /\ x.file = tx[t].file
      /\ x.minutes = tx[t].minutes /\ x.death = tx[t].death
  BY <1>3, ThenFields
<1> HIDE DEF x
<1>5. y.at = next /\ DOMAIN y.basis = DOMAIN tx[t].basis \cup {"assignments"}
  BY <1>4, ReadsFields
<1>6. /\ Onwards(next, kind[t])
      /\ next = "save" => tx[t].to > db.characters[tx[t].file].last
      /\ next \in {"progress", "finish", "save", "commit", "again", "close"}
  BY <1>2, SettledIs DEF Onwards, Computing
<1>7. HasRead(y, kind[t])
  BY <1>5, <1>6 DEF HasRead
<1>8. {"assignments"} \in SUBSET Shared
  BY DEF Shared
<1> HIDE DEF y
<1> QED BY <1>1, <1>2, <1>3, <1>4, <1>6, <1>7, <1>8, InsideReads DEF x, y

LEMMA InsideWrote ==
  ASSUME TransInv, NEW t \in Requests, NEW s, NEW r \in Shared, NEW v,
         Moves(t, Writes(Then(t, s), t, r, v)),
         \/ tx[t].at = "payroll" /\ r = "registries" /\ s \in {"redeem", "assignment"}
         \/ tx[t].at = "redeem" /\ r = "pensions" /\ s = "assignment"
         \/ tx[t].at = "progress" /\ r = "assignments" /\ s = Settled(t)
         \/ tx[t].at = "finish" /\ r = "assignments" /\ s \in {"tally", Settled(t)}
         \/ tx[t].at = "reward" /\ r = "transfers" /\ s = Settled(t)
  PROVE  TransInv'
<1> DEFINE y == Writes(Then(t, s), t, r, v)
<1>1. tx[t].at \in Computing
  BY DEF Computing
<1>2. DOMAIN tx[t] = Fields
  BY <1>1, InsideIs
<1>3. HasRead(tx[t], kind[t])
  BY Facts DEF Copies
<1>4. r \in DOMAIN tx[t].basis
  BY <1>3 DEF HasRead
<1>5. /\ Onwards(s, kind[t])
      /\ s = "save" => tx[t].to > db.characters[tx[t].file].last
      /\ s \in {"redeem", "assignment", "tally", "save", "commit", "again", "close"}
      /\ s = "redeem" => tx[t].at = "payroll"
  BY <1>1, SettledIs DEF Onwards, Computing
<1>6. y.at = s /\ y.basis = tx[t].basis
  BY <1>2, ThenFields, WritesFields
<1>7. HasRead(y, kind[t])
  BY <1>3, <1>5, <1>6 DEF HasRead
<1> HIDE DEF y
<1> QED BY <1>1, <1>4, <1>5, <1>7, InsideWrites DEF y

(* The five statements of a resolution that write a row.                   *)
LEMMA ResolutionWrites ==
  ASSUME TransInv, NEW t \in Requests,
         Payroll(t) \/ Redeem(t) \/ Progress(t) \/ Finish(t) \/ Reward(t)
  PROVE  TransInv'
<1>1. {"registries", "pensions", "assignments", "transfers"} \subseteq Shared
  BY DEF Shared
<1>2. CASE Payroll(t)
  <2>1. PICK s \in {"redeem", "assignment"} :
          Moves(t, Writes(Then(t, s), t, "registries", tx[t].copy.registries))
    BY <1>2 DEF Payroll
  <2>2. tx[t].at = "payroll"
    BY <1>2 DEF Payroll, Does, At
  <2> QED BY <1>1, <2>1, <2>2, InsideWrote
<1>3. CASE Redeem(t)
  <2>1. tx[t].at = "redeem" /\ kind[t] \in Kinds
    BY <1>3, Facts DEF Redeem, Does, At
  <2>2. Onward(t) = Then(t, "assignment")
    BY <2>1, Edges DEF Onward
  <2>3. Moves(t, Writes(Then(t, "assignment"), t, "pensions", Redeemed(tx[t].copy.pensions)))
    BY <1>3, <2>2 DEF Redeem
  <2> QED BY <1>1, <2>1, <2>3, InsideWrote
<1>4. CASE Progress(t)
  BY <1>1, <1>4, InsideWrote DEF Progress, Does, At
<1>5. CASE Finish(t)
  <2>1. PICK s \in {"tally", Settled(t)} :
          Moves(t, Writes(Then(t, s), t, "assignments", FALSE))
    BY <1>5 DEF Finish
  <2>2. tx[t].at = "finish"
    BY <1>5 DEF Finish, Does, At
  <2> QED BY <1>1, <2>1, <2>2, InsideWrote
<1>6. CASE Reward(t)
  BY <1>1, <1>6, InsideWrote DEF Reward, Does, At
<1> QED BY <1>2, <1>3, <1>4, <1>5, <1>6

-----------------------------------------------------------------------------
(* The statements around a resolution that leave the recruits alone *)

(* Where such a statement is and leads, and what that takes.               *)
Passes(x, k, s) ==
  \/ x.at = "office" /\ k = "desk" /\ s = "find"
  \/ x.at = "posts" /\ k = "hire" /\ s = "appoint"
  \/ x.at = "posts" /\ k = "policy" /\ s = "amend"
  \/ x.at = "pension" /\ k = "rung" /\ s = "buy"
  \/ x.at = "pension" /\ k \in {"claim", "retire"} /\ s = "bank"
  \/ x.at = "pension" /\ k = "transfer" /\ s = "record"
  \/ x.at = "file" /\ k = "abandon" /\ s = "handback"
  \/ x.at = "record" /\ k = "transfer" /\ s = "enter"
  \/ x.at = "record" /\ k = "commendation" /\ s = "spend"
  \/ x.at = "tally" /\ k \in Resolving /\ s = "reward"
  \/ x.at = "amend" /\ k = "policy" /\ s = "find"
  \/ x.at = "buy" /\ k = "rung" /\ s = "commit"
  \/ x.at = "handback" /\ k = "abandon" /\ s = "find"
  \/ x.at = "spend" /\ k = "commendation" /\ s = "find"
  \/ x.at = "bank" /\ k = "claim" /\ s = "insert"
  \/ x.at = "bank" /\ k = "retire" /\ s = "insert"
  \/ x.at = "enter" /\ k = "transfer" /\ s = "surrender" /\ x.file # 0
  \/ x.at = "surrender" /\ k = "transfer" /\ s = "separate"

LEMMA OutsideMoved ==
  ASSUME TransInv, NEW t \in Requests, NEW y, Moves(t, y),
         DOMAIN y = Fields, y.target = tx[t].target, y.file = tx[t].file,
         y.minutes = tx[t].minutes, y.death = tx[t].death, y.to = tx[t].to,
         DOMAIN tx[t].draft \subseteq DOMAIN y.draft,
         DOMAIN y.draft \subseteq DOMAIN tx[t].draft \cup Shared,
         \A r \in DOMAIN tx[t].draft \ Shared : y.draft[r] = tx[t].draft[r],
         Passes(tx[t], kind[t], y.at),
         Copies(y, kind[t], db.characters, db.deaths, author, kind)
  PROVE  TransInv'
<1> DEFINE x == tx[t]
           k == kind[t]
<1>1. Where(x, k) /\ Holding(x, k, db.characters, db.deaths, tick) /\ k \in Kinds
  BY Facts
<1>2. Where(y, k)
  BY <1>1, KindsAre DEF Where, Has, Passes, Resolving
<1>3. y.at = "commit" => ~Drafted(x)
  BY <1>1 DEF Passes, Holding, Unheld
<1>4. Quiet(x, y)
  BY <1>3 DEF Quiet, Passes, Shared
<1>5. /\ Drafted(y) <=> Drafted(x)
      /\ "deaths" \in DOMAIN y.draft <=> "deaths" \in DOMAIN x.draft
      /\ "deaths" \in DOMAIN x.draft => y.draft["deaths"] = x.draft["deaths"]
      /\ Drafted(y) => Filed(y.draft["characters"], DeathsOf(y, db.deaths), tick)
                       /\ Adds(y, k, db.characters, db.deaths)
  BY <1>1, <1>4, QuietDraft
<1>6. /\ Unheld(k, y.at) => Unheld(k, x.at)
      /\ y.at \in Computing => x.at \in Computing
      /\ y.at # "save"
      /\ y.at \in {"surrender", "separate"} => x.file # 0
      /\ y.at = "commit" => k = "rung"
      /\ y.at = "insert" => k \in {"claim", "retire"} /\ x.at = "bank"
      /\ k \in {"claim", "retire"} /\ y.at \in {"pension", "bank", "insert", "commit"} =>
           x.at \in {"pension", "bank", "insert"}
      /\ k = "claim" => x.at # "commit"
  BY <1>1 DEF Passes, Unheld, Computing, Holding, Resolving
<1>7. k = "retire" /\ x.at = "bank" => Drafted(x)
  BY <1>1 DEF Holding
<1>8. Holding(y, k, db.characters, db.deaths, tick)
  BY <1>1, <1>5, <1>6, <1>7 DEF Holding
<1> QED BY <1>2, <1>4, <1>8, QuietMoved

LEMMA LookKeeps ==
  ASSUME TransInv, NEW t \in Requests, Look(t)
  PROVE  TransInv'
<1>1. PICK s \in DOMAIN LooksAt :
         tx[t].at = s /\ Moves(t, Reads(Onward(t), t, {LooksAt[s]}))
  BY DEF Look, Does, At
<1> DEFINE x == Onward(t)
           k == kind[t]
           R == {LooksAt[s]}
           y == Reads(x, t, R)
<1>2. /\ k \in Kinds /\ DOMAIN tx[t] = Fields /\ Has(k, tx[t].at)
      /\ Copies(tx[t], k, db.characters, db.deaths, author, kind)
      /\ Holding(tx[t], k, db.characters, db.deaths, tick)
  BY Facts DEF Where
<1>3. s \in {"office", "posts", "pension", "file", "record", "tally"}
  BY DEF LooksAt
<1>4. Passes(tx[t], k, After(k, s))
  BY <1>1, <1>2, <1>3, Edges DEF Has, Passes
<1>5. R \in SUBSET Shared
  BY <1>3 DEF LooksAt, Shared
<1>6. /\ DOMAIN x = Fields
      /\ x.at = After(k, s) /\ x.draft = tx[t].draft /\ x.basis = tx[t].basis
      /\ x.over = tx[t].over /\ x.target = tx[t].target /\ x.file = tx[t].file
      /\ x.to = tx[t].to /\ x.minutes = tx[t].minutes /\ x.death = tx[t].death
  BY <1>1, <1>2, ThenFields DEF Onward
<1> HIDE DEF x, R
<1>7. /\ DOMAIN y = Fields
      /\ y.at = x.at /\ y.draft = x.draft /\ y.over = x.over /\ y.target = x.target
      /\ y.file = x.file /\ y.to = x.to /\ y.minutes = x.minutes /\ y.death = x.death
      /\ DOMAIN y.basis = DOMAIN x.basis \cup R
      /\ \A r \in DOMAIN y.basis : y.basis[r] = IF r \in R THEN author[r] ELSE x.basis[r]
  BY <1>6, ReadsFields
<1> HIDE DEF y
<1>8. HasRead(y, k)
  BY <1>1, <1>2, <1>4, <1>6, <1>7 DEF Passes, HasRead, Copies, R, LooksAt
<1>9. \A r \in R : Unheld(k, tx[t].at) => ~Guarded(k, r)
  BY <1>1, <1>3, <1>4 DEF R, LooksAt, Unheld, Passes, Guarded, Unguarded, Resolving
<1>10. (Unheld(k, y.at) => Unheld(k, tx[t].at)) /\ y.at # "again"
  BY <1>4, <1>6, <1>7 DEF Unheld, Passes
<1>11. Unheld(k, y.at) \/ (y.at = "again" /\ y.file = 0) =>
         \A r \in DOMAIN y.basis : ~Guarded(k, r)
  BY <1>2, <1>6, <1>7, <1>9, <1>10 DEF Copies
<1>12. k = "claim" => y.at \notin {"done", "find", "hold", "death"}
  BY <1>4, <1>6, <1>7 DEF Passes, Resolving
<1>13. Copies(y, k, db.characters, db.deaths, author, kind)
  BY <1>2, <1>5, <1>6, <1>7, <1>8, <1>11, <1>12, ReadsCopies
<1> QED BY <1>1, <1>4, <1>6, <1>7, <1>13, OutsideMoved DEF x, y, R

LEMMA OutsideWrote ==
  ASSUME TransInv, NEW t \in Requests, NEW r \in Shared, NEW v,
         Moves(t, Writes(Onward(t), t, r, v)),
         tx[t].at \in {"amend", "buy", "handback", "spend", "bank", "enter", "surrender"},
         r = WritesTo[tx[t].at],
         tx[t].at = "enter" => tx[t].file # 0
  PROVE  TransInv'
<1> DEFINE x == Onward(t)
           k == kind[t]
           y == Writes(x, t, r, v)
<1>1. /\ k \in Kinds /\ DOMAIN tx[t] = Fields /\ Has(k, tx[t].at)
      /\ Copies(tx[t], k, db.characters, db.deaths, author, kind)
      /\ Holding(tx[t], k, db.characters, db.deaths, tick)
  BY Facts DEF Where
<1>2. Passes(tx[t], k, After(k, tx[t].at))
  BY <1>1, Edges DEF Has, Passes
<1>3. /\ DOMAIN x = Fields
      /\ x.at = After(k, tx[t].at) /\ x.draft = tx[t].draft /\ x.basis = tx[t].basis
      /\ x.over = tx[t].over /\ x.target = tx[t].target /\ x.file = tx[t].file
      /\ x.to = tx[t].to /\ x.minutes = tx[t].minutes /\ x.death = tx[t].death
  BY <1>1, ThenFields DEF Onward
<1> HIDE DEF x
<1>4. /\ DOMAIN y = Fields
      /\ y.at = x.at /\ y.basis = x.basis /\ y.target = x.target
      /\ y.file = x.file /\ y.to = x.to /\ y.minutes = x.minutes /\ y.death = x.death
      /\ DOMAIN y.draft = DOMAIN x.draft \cup {r}
      /\ \A s \in DOMAIN x.draft : s # r => y.draft[s] = x.draft[s]
      /\ y.over \subseteq x.over
           \cup {[row |-> r, by |-> k, over |-> kind[author[r]], late |-> FALSE]}
      /\ y.over # x.over => r \notin DOMAIN x.draft /\ x.basis[r] # author[r]
  BY <1>3, WritesFields
<1> HIDE DEF y
<1>5. HasRead(y, k)
  BY <1>1, <1>2, <1>3, <1>4 DEF Passes, HasRead, Copies
<1>6. CASE tx[t].at \in {"amend", "buy", "handback", "spend"}
  <2>1. ~Guarded(k, r)
    BY <1>2, <1>6 DEF Passes, WritesTo, Guarded, Unguarded, Resolving
  <2>2. \A q \in DOMAIN tx[t].basis : ~Guarded(k, q)
    BY <1>1, <1>6 DEF Copies, Unheld
  <2>3. k # "claim"
    BY <1>2, <1>6 DEF Passes
  <2>4. Copies(y, k, db.characters, db.deaths, author, kind)
    BY <1>1, <1>3, <1>4, <1>5, <2>1, <2>2, <2>3, WritesCopies
  <2> QED BY <1>2, <1>3, <1>4, <2>4, OutsideMoved DEF x, y
<1>7. CASE tx[t].at \in {"bank", "enter", "surrender"}
  <2>1. r \in DOMAIN tx[t].basis
    BY <1>1, <1>7 DEF Copies, HasRead, WritesTo
  <2>2. tx[t].file # 0 \/ k = "claim"
    BY <1>1, <1>2, <1>7 DEF Holding, Passes, Adds
  <2>3. ~Unheld(k, y.at) /\ y.at \in {"insert", "surrender", "separate"}
    BY <1>2, <1>3, <1>4, <1>7 DEF Passes, Unheld
  <2>4. Copies(y, k, db.characters, db.deaths, author, kind)
    BY <1>1, <1>3, <1>4, <1>5, <2>1, <2>2, <2>3, WritesCopies
  <2> QED BY <1>2, <1>3, <1>4, <2>4, OutsideMoved DEF x, y
<1> QED BY <1>6, <1>7

LEMMA OutsideWrites ==
  ASSUME TransInv, NEW t \in Requests,
         Amend(t) \/ Buy(t) \/ Handback(t) \/ Spend(t) \/ Bank(t) \/ Enter(t) \/ Surrender(t)
  PROVE  TransInv'
<1>1. /\ WritesTo["amend"] = "registries" /\ WritesTo["buy"] = "pensions"
      /\ WritesTo["handback"] = "assignments" /\ WritesTo["spend"] = "transfers"
      /\ WritesTo["bank"] = "pensions" /\ WritesTo["enter"] = "transfers"
      /\ WritesTo["surrender"] = "pensions"
      /\ {"registries", "pensions", "assignments", "transfers"} \subseteq Shared
  BY DEF WritesTo, Shared
<1>2. CASE Amend(t)
  BY <1>1, <1>2, OutsideWrote DEF Amend, Does, At
<1>3. CASE Buy(t)
  BY <1>1, <1>3, OutsideWrote DEF Buy, Does, At
<1>4. CASE Handback(t)
  BY <1>1, <1>4, OutsideWrote DEF Handback, Does, At
<1>5. CASE Spend(t)
  BY <1>1, <1>5, OutsideWrote DEF Spend, Does, At
<1>6. CASE Bank(t)
  BY <1>1, <1>6, OutsideWrote DEF Bank, Does, At
<1>7. CASE Enter(t)
  BY <1>1, <1>7, OutsideWrote DEF Enter, Entitled, Does, At
<1>8. CASE Surrender(t)
  BY <1>1, <1>8, OutsideWrote DEF Surrender, Does, At
<1> QED BY <1>2, <1>3, <1>4, <1>5, <1>6, <1>7, <1>8

-----------------------------------------------------------------------------
(* Recruits who change, close and join *)

LEMMA FiledChange ==
  ASSUME NEW rows, NEW deaths, NEW until \in Nat, Filed(rows, deaths, until),
         NEW i \in DOMAIN rows, i = Len(rows), NEW row \in RowSet,
         row.born = rows[i].born, row.last <= until, row.alive = rows[i].alive
  PROVE  Filed([rows EXCEPT ![i] = row], deaths, until)
<1> DEFINE new == [rows EXCEPT ![i] = row]
<1>1. rows \in Seq(RowSet) /\ DOMAIN rows = 1..Len(rows) /\ Len(rows) \in Nat
  BY DEF Filed
<1>2. /\ new \in Seq(RowSet) /\ Len(new) = Len(rows) /\ DOMAIN new = DOMAIN rows
      /\ new[i] = row /\ \A j \in DOMAIN rows : j # i => new[j] = rows[j]
  BY <1>1
<1> HIDE DEF new
<1>3. ASSUME NEW j \in DOMAIN new
      PROVE  /\ new[j].last <= until
             /\ j < Len(new) => ~new[j].alive
             /\ j > 1 => new[j].born >= new[j - 1].last
             /\ new[j].alive <=> \A k \in DOMAIN deaths : deaths[k].of # j
  <2>1. j \in 1..Len(rows) /\ (j > 1 => j - 1 \in DOMAIN rows /\ j - 1 # i)
    BY <1>1, <1>2
  <2>2. CASE j = i
    BY <1>2, <2>1, <2>2 DEF Filed
  <2>3. CASE j # i
    BY <1>2, <2>1, <2>3 DEF Filed
  <2> QED BY <2>2, <2>3
<1>4. Filed(new, deaths, until)
  BY <1>2, <1>3 DEF Filed
<1> QED BY <1>4 DEF new

LEMMA FiledCloses ==
  ASSUME NEW rows, NEW deaths, NEW until \in Nat, Filed(rows, deaths, until),
         NEW i \in DOMAIN rows, i = Len(rows), NEW row \in RowSet,
         row.born = rows[i].born, row.last <= until, ~row.alive,
         NEW award \in Nat, rows[i].alive \/ award = 0
  PROVE  Filed([rows EXCEPT ![i] = row], Recorded(deaths, i, award), until)
<1> DEFINE new == [rows EXCEPT ![i] = row]
           file == [of |-> i, award |-> award]
           files == Append(deaths, file)
<1>1. /\ rows \in Seq(RowSet) /\ DOMAIN rows = 1..Len(rows) /\ Len(rows) \in Nat
      /\ deaths \in Seq(DeathSet) /\ DOMAIN deaths = 1..Len(deaths) /\ Len(deaths) \in Nat
  BY DEF Filed
<1>2. /\ new \in Seq(RowSet) /\ Len(new) = Len(rows) /\ DOMAIN new = DOMAIN rows
      /\ new[i] = row /\ \A j \in DOMAIN rows : j # i => new[j] = rows[j]
  BY <1>1
<1>3. /\ file \in DeathSet /\ file.of = i /\ file.award = award
      /\ files \in Seq(DeathSet) /\ DOMAIN files = 1..(Len(deaths) + 1)
      /\ files[Len(deaths) + 1] = file
      /\ \A k \in DOMAIN deaths : files[k] = deaths[k]
  BY <1>1 DEF DeathSet
<1> HIDE DEF new, file, files
<1>4. DOMAIN files = DOMAIN deaths \cup {Len(deaths) + 1} /\ Len(deaths) + 1 \notin DOMAIN deaths
  BY <1>1, <1>3
<1>5. ASSUME NEW j \in DOMAIN new
      PROVE  /\ new[j].last <= until
             /\ j < Len(new) => ~new[j].alive
             /\ j > 1 => new[j].born >= new[j - 1].last
             /\ new[j].alive <=> \A k \in DOMAIN files : files[k].of # j
  <2>1. j \in 1..Len(rows) /\ (j > 1 => j - 1 \in DOMAIN rows /\ j - 1 # i)
    BY <1>1, <1>2
  <2>2. CASE j = i
    BY <1>2, <1>3, <1>4, <2>1, <2>2 DEF Filed
  <2>3. CASE j # i
    <3>1. (\A k \in DOMAIN files : files[k].of # j) <=> (\A k \in DOMAIN deaths : deaths[k].of # j)
      BY <1>3, <1>4, <2>3
    <3> QED BY <1>2, <2>1, <2>3, <3>1 DEF Filed
  <2> QED BY <2>2, <2>3
<1>6. \A k \in DOMAIN files : files[k].of \in DOMAIN new
  BY <1>2, <1>3, <1>4 DEF Filed
<1>7. ASSUME NEW k \in DOMAIN files, NEW l \in DOMAIN files,
             files[k].of = files[l].of, files[k].award > 0, files[l].award > 0
      PROVE  k = l
  <2>1. \A m \in DOMAIN deaths : award = 0 \/ deaths[m].of # i
    BY DEF Filed
  <2>2. CASE k \in DOMAIN deaths /\ l \in DOMAIN deaths
    BY <1>3, <1>7, <2>2 DEF Filed
  <2>3. CASE k \notin DOMAIN deaths \/ l \notin DOMAIN deaths
    BY <1>3, <1>4, <1>7, <2>1, <2>3
  <2> QED BY <2>2, <2>3
<1>8. Filed(new, files, until)
  BY <1>2, <1>3, <1>5, <1>6, <1>7 DEF Filed
<1> QED BY <1>8 DEF new, files, file, Recorded

LEMMA FiledJoins ==
  ASSUME NEW rows, NEW deaths, NEW until \in Nat, Filed(rows, deaths, until),
         ~Anyone(rows), NEW row \in RowSet, row.alive, row.last <= until,
         \A i \in DOMAIN rows : i = Len(rows) => row.born >= rows[i].last
  PROVE  Filed(Append(rows, row), deaths, until)
<1> DEFINE new == Append(rows, row)
<1>1. rows \in Seq(RowSet) /\ DOMAIN rows = 1..Len(rows) /\ Len(rows) \in Nat
  BY DEF Filed
<1>2. /\ new \in Seq(RowSet) /\ Len(new) = Len(rows) + 1 /\ DOMAIN new = 1..(Len(rows) + 1)
      /\ new[Len(rows) + 1] = row /\ \A j \in DOMAIN rows : new[j] = rows[j]
  BY <1>1
<1> HIDE DEF new
<1>3. ASSUME NEW j \in DOMAIN new
      PROVE  /\ new[j].last <= until
             /\ j < Len(new) => ~new[j].alive
             /\ j > 1 => new[j].born >= new[j - 1].last
             /\ new[j].alive <=> \A k \in DOMAIN deaths : deaths[k].of # j
  <2>1. CASE j = Len(rows) + 1
    <3>1. j > 1 => j - 1 \in DOMAIN rows /\ j - 1 = Len(rows)
      BY <1>1, <2>1
    <3>2. j \notin DOMAIN rows
      BY <1>1, <2>1
    <3>3. \A k \in DOMAIN deaths : deaths[k].of # j
      BY <3>2 DEF Filed
    <3> QED BY <1>1, <1>2, <2>1, <3>1, <3>3
  <2>2. CASE j # Len(rows) + 1
    <3>1. j \in DOMAIN rows /\ (j > 1 => j - 1 \in DOMAIN rows)
      BY <1>1, <1>2, <2>2
    <3> QED BY <1>2, <3>1 DEF Filed, Anyone
  <2> QED BY <2>1, <2>2
<1>4. \A k \in DOMAIN deaths : deaths[k].of \in DOMAIN new
  BY <1>1, <1>2 DEF Filed
<1>5. Filed(new, deaths, until)
  BY <1>2, <1>3, <1>4 DEF Filed
<1> QED BY <1>5 DEF new

(* What the holder sees of the recruits.                                   *)
LEMMA HolderSees ==
  ASSUME TransInv, NEW t \in Requests, tx[t].file # 0, tx[t].at # "commit",
         NEW rows, rows = Seen(t, "characters"), NEW deaths, deaths = Seen(t, "deaths")
  PROVE  LET f == tx[t].file IN
         /\ Filed(rows, deaths, tick)
         /\ deaths = DeathsOf(tx[t], db.deaths)
         /\ Len(rows) = Len(db.characters) /\ DOMAIN rows = DOMAIN db.characters
         /\ f = Len(rows) /\ f \in DOMAIN rows
         /\ \A i \in DOMAIN rows : i # f => rows[i] = db.characters[i]
         /\ rows[f] \in RowSet /\ db.characters[f] \in RowSet /\ db.characters[f].alive
         /\ rows[f].born = db.characters[f].born
         /\ rows[f].last = db.characters[f].last + tx[t].minutes
         /\ rows[f].gold = db.characters[f].gold + tx[t].minutes
         /\ Len(deaths) >= Len(db.deaths)
         /\ \A i \in DOMAIN db.deaths : deaths[i] = db.deaths[i]
         /\ deaths \in Seq(DeathSet) /\ db.deaths \in Seq(DeathSet)
         /\ \A u \in Requests \ {t} : tx[u].file = 0 /\ ~Drafted(tx[u])
<1> DEFINE x == tx[t]
           C == db.characters
           f == x.file
<1>1. /\ Holding(x, kind[t], C, db.deaths, tick) /\ Filed(C, db.deaths, tick)
      /\ tick \in Nat
  BY Facts
<1>2. f \in DOMAIN C /\ C[f].alive /\ x.minutes \in Nat
  BY <1>1 DEF Holding
<1>3. /\ C \in Seq(RowSet) /\ DOMAIN C = 1..Len(C) /\ Len(C) \in Nat /\ f = Len(C)
      /\ C[f] \in RowSet /\ db.deaths \in Seq(DeathSet)
  BY <1>1, <1>2 DEF Filed
<1>4. ASSUME NEW u \in Requests \ {t} PROVE tx[u].file = 0 /\ ~Drafted(tx[u])
  <2>1. tx[u].file = 0 /\ Holding(tx[u], kind[u], C, db.deaths, tick)
    BY Facts
  <2>2. Drafted(tx[u]) => ~Anyone(C)
    BY <2>1 DEF Holding, Adds
  <2> QED BY <1>2, <2>1, <2>2 DEF Anyone
<1>5. CASE Drafted(x)
  <2>1. rows = x.draft["characters"] /\ deaths = DeathsOf(x, db.deaths)
    BY <1>5 DEF Seen, Drafted, DeathsOf
  <2>2. Filed(rows, deaths, tick) /\ Adds(x, kind[t], C, db.deaths)
    BY <1>1, <1>5, <2>1 DEF Holding
  <2>3. rows \in Seq(RowSet) /\ deaths \in Seq(DeathSet)
    BY <2>2 DEF Filed
  <2>4. Len(rows) = Len(C) /\ DOMAIN rows = DOMAIN C
    BY <1>3, <2>1, <2>2, <2>3 DEF Adds
  <2>5. rows[f] \in RowSet
    BY <1>2, <2>3, <2>4
  <2>6. Charge(x, kind[t]) = 0
    BY DEF Charge
  <2>7. /\ rows[f].born = C[f].born /\ rows[f].last = C[f].last + x.minutes
        /\ rows[f].gold + Charge(x, kind[t]) = C[f].gold + x.minutes
        /\ \A i \in DOMAIN C : i # f => rows[i] = C[i]
        /\ Len(deaths) >= Len(db.deaths)
        /\ \A i \in DOMAIN db.deaths : deaths[i] = db.deaths[i]
    BY <2>1, <2>2 DEF Adds
  <2>8. rows[f].gold = C[f].gold + x.minutes
    BY <2>5, <2>6, <2>7 DEF RowSet
  <2> QED BY <1>2, <1>3, <1>4, <2>1, <2>2, <2>3, <2>4, <2>5, <2>7, <2>8
<1>6. CASE ~Drafted(x)
  <2>1. rows = C /\ deaths = db.deaths /\ deaths = DeathsOf(x, db.deaths) /\ x.minutes = 0
    BY <1>1, <1>6 DEF Seen, Drafted, DeathsOf, Holding
  <2>2. C[f].last + x.minutes = C[f].last /\ C[f].gold + x.minutes = C[f].gold
    BY <1>3, <2>1 DEF RowSet
  <2> QED BY <1>1, <1>2, <1>3, <1>4, <2>1, <2>2
<1> QED BY <1>5, <1>6

(* Drafting recruits and deaths reads nothing.                             *)
LEMMA DraftsCopies ==
  ASSUME NEW x, NEW y, NEW k, NEW rows, NEW deaths,
         Copies(x, k, rows, deaths, author, kind),
         y.basis = x.basis, y.over = x.over, y.file = x.file,
         k # "claim" \/ y.death = x.death,
         DOMAIN y.draft \subseteq DOMAIN x.draft \cup {"characters", "deaths"},
         HasRead(y, k), ~Unheld(k, y.at), y.at = "again" => y.file # 0,
         k = "claim" => y.at \notin {"done", "find", "hold", "death"}
  PROVE  Copies(y, k, rows, deaths, author, kind)
<1>1. Fresh(y, k, rows, deaths, author, kind)
  BY DEF Copies, Fresh, Overtaken
<1>2. \A c \in y.over :
       /\ DOMAIN c = {"row", "by", "over", "late"}
       /\ \/ {c.by, c.over} \cap Unguarded[c.row] # {}
          \/ k = "claim" /\ Overtaken(y, rows, deaths)
  BY DEF Copies, Overtaken
<1>3. DOMAIN y.draft \subseteq Tables /\ DOMAIN y.draft \cap Shared \subseteq DOMAIN x.draft
  BY DEF Copies, Tables, Shared
<1> QED BY <1>1, <1>2, <1>3 DEF Copies

-----------------------------------------------------------------------------
(* The statements that change, close or insert a recruit *)

LEMMA AgainKeeps ==
  ASSUME TransInv, NEW t \in Requests, Again(t)
  PROVE  TransInv'
<1> DEFINE x == tx[t]
           k == kind[t]
           y == IF x.file # 0 THEN Then(t, After(k, "retake"))
                ELSE [Onward(t) EXCEPT !.target = TheServing]
<1>1. Moves(t, y) /\ x.at = "again"
  BY DEF Again, Does, At
<1>2. /\ k \in Kinds /\ Where(x, k)
      /\ Holding(x, k, db.characters, db.deaths, tick)
      /\ Copies(x, k, db.characters, db.deaths, author, kind)
  BY Facts
<1>3. /\ k \in {"desk", "hire", "transfer"}
      /\ k = "desk" => After(k, "retake") = "pay"
      /\ k = "hire" => After(k, "retake") = "posts"
      /\ k = "transfer" => After(k, "retake") = "pension"
      /\ After(k, "again") = "retake"
  BY <1>1, <1>2, Edges DEF Where, Has
<1>4. /\ DOMAIN y = Fields
      /\ y.at = IF x.file # 0 THEN After(k, "retake") ELSE "retake"
      /\ y.draft = x.draft /\ y.basis = x.basis /\ y.over = x.over
      /\ y.target = IF x.file # 0 THEN x.target ELSE TheServing
      /\ y.file = x.file /\ y.to = x.to /\ y.minutes = x.minutes /\ y.death = x.death
  BY <1>1, <1>2, <1>3 DEF Onward, Then, Where, Fields
<1> HIDE DEF y
<1>5. Where(y, k) /\ Quiet(x, y)
  BY <1>1, <1>3, <1>4 DEF Where, Quiet, Has
<1>6. x.file = 0 => ~Drafted(x)
  BY <1>1, <1>2 DEF Holding, Adds
<1>7. Unheld(k, y.at) => x.file = 0
  BY <1>3, <1>4 DEF Unheld
<1>8. /\ Drafted(y) <=> Drafted(x)
      /\ Drafted(y) => Filed(y.draft["characters"], DeathsOf(y, db.deaths), tick)
                       /\ Adds(y, k, db.characters, db.deaths)
  BY <1>2, <1>5, QuietDraft
<1>9. Holding(y, k, db.characters, db.deaths, tick)
  BY <1>2, <1>3, <1>4, <1>6, <1>7, <1>8, ServingIsOne DEF Holding, Computing
<1>10. Copies(y, k, db.characters, db.deaths, author, kind)
  <2>1. Fresh(y, k, db.characters, db.deaths, author, kind)
    BY <1>2, <1>4 DEF Copies, Fresh, Overtaken
  <2>2. HasRead(y, k) /\ y.at # "again"
    BY <1>3, <1>4 DEF HasRead
  <2>3. x.file = 0 => \A r \in DOMAIN x.basis : ~Guarded(k, r)
    BY <1>1, <1>2 DEF Copies
  <2> QED BY <1>2, <1>3, <1>4, <1>7, <2>1, <2>2, <2>3 DEF Copies, Overtaken
<1> QED BY <1>1, <1>5, <1>9, <1>10, QuietMoved

LEMMA DeathKeeps ==
  ASSUME TransInv, NEW t \in Requests, Death(t)
  PROVE  TransInv'
<1> DEFINE x == tx[t]
           k == kind[t]
           y == [Onward(t) EXCEPT !.death = Len(db.deaths)]
<1>1. Moves(t, y) /\ x.at = "death" /\ x.file = 0 /\ db.deaths # <<>>
  BY DEF Death, Does, At
<1>2. /\ k \in Kinds /\ Where(x, k)
      /\ Holding(x, k, db.characters, db.deaths, tick)
      /\ Copies(x, k, db.characters, db.deaths, author, kind)
      /\ Filed(db.characters, db.deaths, tick)
  BY Facts
<1>3. k = "claim" /\ After(k, "death") = "pension"
  BY <1>1, <1>2, Edges DEF Where, Has
<1>4. /\ DOMAIN y = Fields
      /\ y.at = "pension" /\ y.draft = x.draft /\ y.basis = x.basis /\ y.over = x.over
      /\ y.target = x.target /\ y.file = 0 /\ y.to = x.to /\ y.minutes = x.minutes
      /\ y.death = Len(db.deaths)
  BY <1>1, <1>2, <1>3 DEF Onward, Then, Where, Fields
<1> HIDE DEF y
<1>5. Len(db.deaths) \in 1..Len(db.deaths)
  BY <1>1, <1>2 DEF Filed
<1>6. Where(y, k)
  BY <1>3, <1>4 DEF Where, Has
<1>7. ~Drafted(x) /\ ~Drafted(y)
  BY <1>1, <1>2, <1>3, <1>4 DEF Holding, Drafted
<1>8. Holding(y, k, db.characters, db.deaths, tick)
  BY <1>2, <1>3, <1>4, <1>5, <1>7 DEF Holding, Computing, Unheld
<1>9. Copies(y, k, db.characters, db.deaths, author, kind)
  BY <1>1, <1>2, <1>3, <1>4 DEF Copies, Fresh, HasRead, Unheld
<1>10. Good(t, y)
  BY <1>4, <1>6, <1>7, <1>8, <1>9 DEF Good
<1> QED BY <1>1, <1>10, Moved

(* A recruit the holder changes, alive or for the last time.               *)
Changes(t, y, row, files, award) ==
  LET f == tx[t].file
      rows == Seen(t, "characters")
      deaths == Seen(t, "deaths")
  IN  /\ f # 0 /\ tx[t].at # "commit"
      /\ row \in RowSet /\ award \in Nat /\ y.minutes \in Nat
      /\ row.born = rows[f].born /\ row.last <= tick
      /\ row.last = db.characters[f].last + y.minutes
      /\ row.gold + Charge(y, kind[t]) = db.characters[f].gold + y.minutes
      /\ \/ row.alive = rows[f].alive /\ files = deaths
         \/ /\ ~row.alive /\ files = Recorded(deaths, f, award)
            /\ rows[f].alive \/ award = 0
      /\ Drafted(y) /\ y.draft["characters"] = [rows EXCEPT ![f] = row]
      /\ DeathsOf(y, db.deaths) = files

Leaves(t, y) ==
  /\ DOMAIN y = Fields /\ Has(kind[t], y.at)
  /\ y.target = tx[t].target /\ y.file = tx[t].file /\ y.to = tx[t].to
  /\ ~Unheld(kind[t], y.at) /\ y.at \notin Computing /\ kind[t] # "claim"
  /\ y.at = "commit" => kind[t] \in {"state", "desk", "hire"}
  /\ kind[t] = "retire" /\ y.at \in {"pension", "bank", "insert", "commit"} =>
       /\ "deaths" \in DOMAIN y.draft
       /\ y.death = Len(y.draft["deaths"]) /\ y.death > Len(db.deaths)

LEMMA HolderMoved ==
  ASSUME TransInv, NEW t \in Requests, NEW y, Moves(t, y),
         NEW row, NEW files, NEW award, Changes(t, y, row, files, award), Leaves(t, y),
         Copies(y, kind[t], db.characters, db.deaths, author, kind)
  PROVE  TransInv'
<1> DEFINE x == tx[t]
           k == kind[t]
           C == db.characters
           f == x.file
           rows == Seen(t, "characters")
           deaths == Seen(t, "deaths")
           mine == [rows EXCEPT ![f] = row]
<1>0. /\ f # 0 /\ x.at # "commit"
      /\ row \in RowSet /\ award \in Nat /\ y.minutes \in Nat
      /\ row.born = rows[f].born /\ row.last <= tick
      /\ row.last = C[f].last + y.minutes
      /\ row.gold + Charge(y, k) = C[f].gold + y.minutes
      /\ \/ row.alive = rows[f].alive /\ files = deaths
         \/ /\ ~row.alive /\ files = Recorded(deaths, f, award)
            /\ rows[f].alive \/ award = 0
      /\ Drafted(y) /\ y.draft["characters"] = mine
      /\ DeathsOf(y, db.deaths) = files
  BY DEF Changes
<1> HIDE DEF rows, deaths
<1>1. /\ Filed(rows, deaths, tick)
      /\ Len(rows) = Len(C) /\ DOMAIN rows = DOMAIN C
      /\ f = Len(rows) /\ f \in DOMAIN rows
      /\ \A i \in DOMAIN rows : i # f => rows[i] = C[i]
      /\ C[f].alive /\ rows[f].born = C[f].born
      /\ Len(deaths) >= Len(db.deaths)
      /\ \A i \in DOMAIN db.deaths : deaths[i] = db.deaths[i]
      /\ deaths \in Seq(DeathSet) /\ db.deaths \in Seq(DeathSet)
      /\ \A u \in Requests \ {t} : tx[u].file = 0 /\ ~Drafted(tx[u])
  BY <1>0, HolderSees DEF rows, deaths
<1>2. /\ Holding(x, k, C, db.deaths, tick) /\ tick \in Nat
  BY Facts
<1>3. Filed(mine, files, tick)
  <2>1. CASE row.alive = rows[f].alive /\ files = deaths
    BY <1>0, <1>1, <1>2, <2>1, FiledChange
  <2>2. CASE /\ ~row.alive /\ files = Recorded(deaths, f, award)
             /\ rows[f].alive \/ award = 0
    <3>1. Filed(mine, Recorded(deaths, f, award), tick)
      BY <1>0, <1>1, <1>2, <2>2, FiledCloses
    <3>2. files = Recorded(deaths, f, award)
      BY <2>2
    <3> HIDE DEF mine
    <3> QED BY <3>1, <3>2
  <2> QED BY <1>0, <2>1, <2>2
<1>4. /\ Len(mine) = Len(C) /\ mine[f] = row
      /\ \A i \in DOMAIN C : i # f => mine[i] = C[i]
  <2>1. rows \in Seq(RowSet)
    BY <1>1 DEF Filed
  <2> QED BY <1>0, <1>1, <2>1
<1>5. Len(files) >= Len(db.deaths) /\ \A i \in DOMAIN db.deaths : files[i] = db.deaths[i]
  <2>1. CASE files = deaths
    BY <1>1, <2>1
  <2>2. CASE files = Recorded(deaths, f, award)
    <3>1. [of |-> f, award |-> award] \in DeathSet
      BY <1>0, <1>1 DEF DeathSet, Filed
    <3>2. DOMAIN db.deaths \subseteq DOMAIN deaths
      BY <1>1
    <3> QED BY <1>1, <2>2, <3>1, <3>2 DEF Recorded
  <2> QED BY <1>0, <2>1, <2>2
<1> HIDE DEF mine
<1>6. f # 0 /\ Len(mine) # Len(C) + 1
  BY <1>0, <1>1, <1>4 DEF Filed
<1>7. Adds(y, k, C, db.deaths)
  BY <1>0, <1>1, <1>4, <1>5, <1>6 DEF Adds, Leaves
<1>8. Holding(y, k, C, db.deaths, tick)
  BY <1>0, <1>1, <1>2, <1>3, <1>6, <1>7 DEF Holding, Computing, Leaves
<1>9. Good(t, y)
  BY <1>1, <1>8 DEF Good, Where, Leaves
<1> QED BY <1>9, Moved

LEMMA SaveKeeps ==
  ASSUME TransInv, NEW t \in Requests, Save(t)
  PROVE  TransInv'
<1> DEFINE x == tx[t]
           k == kind[t]
           n == Ticks(t)
           i == x.file
           rows == Seen(t, "characters")
           deaths == Seen(t, "deaths")
           row(alive) == [rows[i] EXCEPT !.gold = @ + n, !.last = x.to, !.alive = alive]
           wrote(alive) == Put(x.draft, "characters", [rows EXCEPT ![i] = row(alive)])
           y(alive) == [Onward(t) EXCEPT
                          !.minutes = n,
                          !.draft = IF alive THEN wrote(alive)
                                    ELSE Put(wrote(alive), "deaths",
                                             Recorded(deaths, i, Award))]
<1>1. x.at = "save" /\ x.at \in Computing
  BY DEF Save, Does, At, Computing
<1>2. PICK alive \in BOOLEAN : Moves(t, y(alive))
  BY DEF Save
<1>3. /\ k \in Resolving /\ ~Drafted(x) /\ "deaths" \notin DOMAIN x.draft
      /\ DOMAIN x = Fields /\ x.to \in Nat /\ x.to <= tick /\ tick \in Nat
      /\ i \in DOMAIN db.characters /\ i # 0
      /\ Onwards(Beyond(k), k)
      /\ x.to > db.characters[i].last /\ db.characters[i] \in RowSet
  BY <1>1, InsideIs, Facts DEF Holding
<1>4. /\ rows = db.characters /\ deaths = db.deaths /\ rows[i].alive
  BY <1>1, <1>3, InsideIs DEF Seen, Drafted
<1>5. n = x.to - rows[i].last /\ n \in Nat /\ rows[i].last + n = x.to
  BY <1>3, <1>4 DEF Ticks, RowSet
<1>6. /\ row(alive) \in RowSet
      /\ row(alive).born = rows[i].born /\ row(alive).last = x.to
      /\ row(alive).gold = rows[i].gold + n /\ row(alive).alive = alive
  <2> HIDE DEF rows, n
  <2>1. rows[i] \in RowSet
    BY <1>3, <1>4
  <2>2. DOMAIN rows[i] = {"born", "last", "alive", "gold"} /\ rows[i].gold + n \in Nat
    BY <1>5, <2>1 DEF RowSet
  <2> QED BY <1>3, <2>1, <2>2 DEF RowSet
<1>7. /\ DOMAIN y(alive) = Fields
      /\ y(alive).at = Beyond(k)
      /\ y(alive).basis = x.basis /\ y(alive).over = x.over
      /\ y(alive).target = x.target /\ y(alive).file = i /\ y(alive).to = x.to
      /\ y(alive).minutes = n /\ y(alive).death = x.death
      /\ y(alive).draft = IF alive THEN wrote(alive)
                          ELSE Put(wrote(alive), "deaths", Recorded(deaths, i, Award))
  BY <1>1, <1>3 DEF Onward, Then, Fields, Beyond
<1>8. /\ "characters" \in DOMAIN y(alive).draft
      /\ y(alive).draft["characters"] = [rows EXCEPT ![i] = row(alive)]
      /\ DOMAIN y(alive).draft \subseteq DOMAIN x.draft \cup {"characters", "deaths"}
      /\ DeathsOf(y(alive), db.deaths)
           = IF alive THEN deaths ELSE Recorded(deaths, i, Award)
  <2> HIDE DEF row, y
  <2>1. /\ DOMAIN wrote(alive) = DOMAIN x.draft \cup {"characters"}
        /\ wrote(alive)["characters"] = [rows EXCEPT ![i] = row(alive)]
    BY DEF Put
  <2>2. CASE alive
    BY <1>3, <1>4, <1>7, <2>1, <2>2 DEF DeathsOf
  <2>3. CASE ~alive
    BY <1>3, <1>4, <1>7, <2>1, <2>3 DEF DeathsOf, Put
  <2> QED BY <2>2, <2>3
<1>9. /\ Beyond(k) \in {"commit", "again", "close"} /\ k # "claim"
      /\ Beyond(k) = "commit" => k = "state"
      /\ Beyond(k) = "again" => k # "retire"
      /\ Has(k, Beyond(k)) /\ ~Unheld(k, Beyond(k)) /\ Beyond(k) \notin Computing
  BY <1>3, BeyondIs, KindsAre DEF Resolving, Has, Unheld, Computing
<1> HIDE DEF y, row
<1>10. Charge(y(alive), k) = 0
  BY <1>7, <1>9 DEF Charge
<1>11. Copies(y(alive), k, db.characters, db.deaths, author, kind)
  <2>1. HasRead(y(alive), k)
    BY <1>7, <1>9 DEF HasRead
  <2> QED BY <1>3, <1>7, <1>8, <1>9, <2>1, Facts, DraftsCopies
<1>12. row(alive).gold + Charge(y(alive), k) = db.characters[i].gold + n
  BY <1>3, <1>4, <1>5, <1>6, <1>10 DEF RowSet
<1>13. Award \in Nat /\ row(alive).last <= tick /\ row(alive).last = db.characters[i].last + n
  BY <1>3, <1>4, <1>5, <1>6, Constants
<1> HIDE DEF wrote, rows, deaths, n
<1>14. k # "retire" \/ Beyond(k) = "close"
  BY <1>3, <1>9
<1>15. k = "retire" /\ y(alive).at \in {"pension", "bank", "insert", "commit"} =>
         /\ "deaths" \in DOMAIN y(alive).draft
         /\ y(alive).death = Len(y(alive).draft["deaths"])
         /\ y(alive).death > Len(db.deaths)
  BY <1>7, <1>14
<1> DEFINE files == IF alive THEN deaths ELSE Recorded(deaths, i, Award)
<1>16. /\ x.file # 0 /\ x.at # "commit" /\ y(alive).minutes \in Nat
       /\ row(alive).last = db.characters[i].last + y(alive).minutes
       /\ row(alive).gold + Charge(y(alive), k) = db.characters[i].gold + y(alive).minutes
  BY <1>1, <1>3, <1>5, <1>7, <1>12, <1>13
<1>17. \/ row(alive).alive = rows[i].alive /\ files = deaths
       \/ /\ ~row(alive).alive /\ files = Recorded(deaths, i, Award)
          /\ rows[i].alive \/ Award = 0
  BY <1>4, <1>6
<1>18. DeathsOf(y(alive), db.deaths) = files
  BY <1>8
<1> HIDE DEF files
<1>19. Changes(t, y(alive), row(alive), files, Award)
  BY <1>6, <1>8, <1>13, <1>16, <1>17, <1>18 DEF Changes, Drafted, rows, deaths
<1>20. Leaves(t, y(alive))
  BY <1>7, <1>9, <1>15 DEF Leaves
<1> QED BY <1>2, <1>11, <1>19, <1>20, HolderMoved

LEMMA PayKeeps ==
  ASSUME TransInv, NEW t \in Requests, Pay(t)
  PROVE  TransInv'
<1> DEFINE q == tx[t]
           k == kind[t]
           i == q.file
           rows == Seen(t, "characters")
           deaths == Seen(t, "deaths")
           row == [rows[i] EXCEPT !.gold = @ - Price]
           x == [Onward(t) EXCEPT !.draft = Put(@, "characters", Charged(t))]
<1>1. PICK r \in {"offices", "registries"}, v \in {TRUE, q.copy.registries + 1} :
        /\ Moves(t, Writes(x, t, r, v)) /\ Afford(t)
        /\ \/ q.at = "pay" /\ r = "offices"
           \/ q.at = "appoint" /\ r = "registries"
  BY DEF Pay, Does, At
<1> DEFINE y == Writes(x, t, r, v)
<1>2. /\ k \in Kinds /\ Where(q, k) /\ tick \in Nat
      /\ Holding(q, k, db.characters, db.deaths, tick)
      /\ Copies(q, k, db.characters, db.deaths, author, kind)
  BY Facts
<1>3. /\ k \in {"desk", "hire"} /\ After(k, q.at) = "commit"
      /\ q.at = "pay" => k = "desk"
      /\ q.at = "appoint" => k = "hire"
  BY <1>1, <1>2, Edges DEF Where, Has
<1>4. i # 0 /\ q.at # "commit" /\ rows[i].gold >= Price
  BY <1>1 DEF Afford
<1>5. /\ Filed(rows, deaths, tick) /\ deaths = DeathsOf(q, db.deaths)
      /\ i \in DOMAIN rows
      /\ rows[i] \in RowSet /\ db.characters[i] \in RowSet
      /\ rows[i].last = db.characters[i].last + q.minutes
      /\ rows[i].gold = db.characters[i].gold + q.minutes
  BY <1>4, HolderSees
<1>6. q.minutes \in Nat
  BY <1>2 DEF Holding
<1>7. /\ row \in RowSet /\ row.born = rows[i].born /\ row.last = rows[i].last
      /\ row.alive = rows[i].alive /\ row.gold = rows[i].gold - Price
      /\ Charged(t) = [rows EXCEPT ![i] = row]
      /\ rows[i].gold - Price + Price = rows[i].gold
  <2> HIDE DEF rows
  <2>1. DOMAIN rows[i] = {"born", "last", "alive", "gold"} /\ rows[i].gold - Price \in Nat
    BY <1>4, <1>5, Constants DEF RowSet
  <2> QED BY <1>5, <2>1, Constants DEF RowSet, Charged, rows
<1>8. /\ DOMAIN x = Fields /\ x.at = "commit"
      /\ x.basis = q.basis /\ x.over = q.over /\ x.target = q.target /\ x.file = i
      /\ x.to = q.to /\ x.minutes = q.minutes /\ x.death = q.death
      /\ x.draft = Put(q.draft, "characters", Charged(t))
  BY <1>2, <1>3 DEF Onward, Then, Where, Fields
<1>9. /\ DOMAIN x.draft = DOMAIN q.draft \cup {"characters"}
      /\ x.draft["characters"] = Charged(t)
      /\ \A s \in DOMAIN q.draft : s # "characters" => x.draft[s] = q.draft[s]
  BY <1>8 DEF Put
<1> HIDE DEF x, rows, deaths, row
<1>10. /\ DOMAIN y = Fields
       /\ y.at = x.at /\ y.basis = x.basis /\ y.target = x.target
       /\ y.file = x.file /\ y.to = x.to /\ y.minutes = x.minutes /\ y.death = x.death
       /\ DOMAIN y.draft = DOMAIN x.draft \cup {r}
       /\ \A s \in DOMAIN x.draft : s # r => y.draft[s] = x.draft[s]
       /\ y.over \subseteq x.over
            \cup {[row |-> r, by |-> k, over |-> kind[author[r]], late |-> FALSE]}
       /\ y.over # x.over => r \notin DOMAIN x.draft /\ x.basis[r] # author[r]
  BY <1>8, WritesFields
<1> HIDE DEF y
<1>11. ~Unheld(k, "commit") /\ "commit" \notin Computing /\ Has(k, "commit")
  BY <1>2, <1>3, KindsAre DEF Unheld, Computing, Has
<1>12. Copies(x, k, db.characters, db.deaths, author, kind)
  <2>1. HasRead(x, k)
    BY <1>8 DEF HasRead
  <2> QED BY <1>2, <1>3, <1>8, <1>9, <1>11, <2>1, DraftsCopies
<1>13. Copies(y, k, db.characters, db.deaths, author, kind)
  <2>1. HasRead(y, k)
    BY <1>8, <1>10 DEF HasRead
  <2>2. Guarded(k, r) => r \in DOMAIN x.basis
    BY <1>1, <1>2, <1>3, <1>8 DEF Copies, HasRead, Guarded, Unguarded
  <2>3. r \in Shared
    BY <1>1 DEF Shared
  <2> QED BY <1>3, <1>4, <1>8, <1>10, <1>11, <1>12, <2>1, <2>2, <2>3, WritesCopies
<1>14. /\ Drafted(y) /\ y.draft["characters"] = [rows EXCEPT ![i] = row]
       /\ DeathsOf(y, db.deaths) = deaths
  BY <1>1, <1>5, <1>7, <1>9, <1>10 DEF Drafted, DeathsOf
<1>15. row.gold + Charge(y, k) = db.characters[i].gold + y.minutes
  BY <1>3, <1>5, <1>7, <1>8, <1>10 DEF Charge
<1>16. rows[i].last <= tick
  BY <1>5 DEF Filed
<1>17. Changes(t, y, row, deaths, 0)
  BY <1>4, <1>5, <1>6, <1>7, <1>8, <1>10, <1>14, <1>15, <1>16 DEF Changes, rows, deaths
<1>18. Leaves(t, y)
  BY <1>3, <1>8, <1>10, <1>11 DEF Leaves
<1> QED BY <1>1, <1>13, <1>17, <1>18, HolderMoved DEF y

LEMMA CloseKeeps ==
  ASSUME TransInv, NEW t \in Requests, NEW award \in Nat, Moves(t, Closed(t, award)),
         tx[t].file # 0,
         \/ tx[t].at = "close" /\ Seen(t, "characters")[tx[t].file].alive
         \/ tx[t].at = "separate" /\ award = 0
  PROVE  TransInv'
<1> DEFINE x == tx[t]
           k == kind[t]
           i == x.file
           rows == Seen(t, "characters")
           deaths == Seen(t, "deaths")
           row == [rows[i] EXCEPT !.alive = FALSE]
           files == Recorded(deaths, i, award)
           y == Closed(t, award)
<1>1. /\ k \in Kinds /\ Where(x, k) /\ tick \in Nat
      /\ Holding(x, k, db.characters, db.deaths, tick)
      /\ Copies(x, k, db.characters, db.deaths, author, kind)
  BY Facts
<1>2. /\ x.at = "close" => k = "retire" /\ After(k, x.at) = "pension"
      /\ x.at = "separate" => k = "transfer" /\ After(k, x.at) = "insert"
      /\ x.at # "commit"
  BY <1>1, Edges DEF Where, Has
<1>3. /\ Filed(rows, deaths, tick) /\ deaths = DeathsOf(x, db.deaths)
      /\ i \in DOMAIN rows
      /\ rows[i] \in RowSet /\ db.characters[i] \in RowSet
      /\ rows[i].last = db.characters[i].last + x.minutes
      /\ rows[i].gold = db.characters[i].gold + x.minutes
      /\ Len(deaths) >= Len(db.deaths)
      /\ deaths \in Seq(DeathSet) /\ db.deaths \in Seq(DeathSet)
  BY <1>2, HolderSees
<1>4. /\ row \in RowSet /\ row.born = rows[i].born /\ row.last = rows[i].last
      /\ ~row.alive /\ row.gold = rows[i].gold
      /\ [rows EXCEPT ![i].alive = FALSE] = [rows EXCEPT ![i] = row]
  <2> HIDE DEF rows
  <2>1. DOMAIN rows[i] = {"born", "last", "alive", "gold"}
    BY <1>3 DEF RowSet
  <2> QED BY <1>3, <2>1 DEF RowSet
<1>5. /\ files \in Seq(DeathSet) /\ Len(files) > Len(db.deaths)
  <2>1. [of |-> i, award |-> award] \in DeathSet
    BY <1>3 DEF DeathSet, Filed
  <2> HIDE DEF deaths
  <2> QED BY <1>3, <2>1 DEF Recorded
<1>6. /\ DOMAIN y = Fields /\ y.at = After(k, x.at)
      /\ y.basis = x.basis /\ y.over = x.over /\ y.target = x.target /\ y.file = i
      /\ y.to = x.to /\ y.minutes = x.minutes /\ y.death = Len(files)
      /\ y.draft = Put(Put(x.draft, "characters", [rows EXCEPT ![i].alive = FALSE]),
                       "deaths", files)
  BY <1>1 DEF Closed, Onward, Then, Where, Fields
<1> HIDE DEF y, files
<1>7. /\ DOMAIN y.draft = DOMAIN x.draft \cup {"characters", "deaths"}
      /\ y.draft["characters"] = [rows EXCEPT ![i] = row]
      /\ y.draft["deaths"] = files
  <2> HIDE DEF row, rows
  <2> QED BY <1>4, <1>6 DEF Put
<1> HIDE DEF row, rows, deaths
<1>8. /\ (y.at = "pension" /\ k = "retire") \/ (y.at = "insert" /\ k = "transfer")
      /\ ~Unheld(k, y.at) /\ y.at \notin Computing /\ Has(k, y.at)
  <2>1. (y.at = "pension" /\ k = "retire") \/ (y.at = "insert" /\ k = "transfer")
    BY <1>2, <1>6
  <2> QED BY <2>1 DEF Unheld, Computing, Has
<1>9. Copies(y, k, db.characters, db.deaths, author, kind)
  <2>1. HasRead(y, k)
    BY <1>8 DEF HasRead
  <2> QED BY <1>1, <1>6, <1>7, <1>8, <2>1, DraftsCopies
<1>10. rows[i].last <= tick /\ x.minutes \in Nat
  BY <1>1, <1>3 DEF Filed, Holding
<1>11. row.gold + Charge(y, k) = db.characters[i].gold + y.minutes
  BY <1>3, <1>4, <1>6, <1>8 DEF Charge, RowSet
<1>12. Drafted(y) /\ DeathsOf(y, db.deaths) = files
  BY <1>7 DEF Drafted, DeathsOf
<1>13. rows[i].alive \/ award = 0
  BY DEF rows
<1>14. Changes(t, y, row, files, award)
  BY <1>2, <1>3, <1>4, <1>6, <1>7, <1>10, <1>11, <1>12, <1>13
     DEF Changes, rows, deaths, files
<1>15. Leaves(t, y)
  BY <1>5, <1>6, <1>7, <1>8 DEF Leaves
<1> QED BY <1>9, <1>14, <1>15, HolderMoved DEF y

LEMMA InsertKeeps ==
  ASSUME TransInv, NEW t \in Requests, Insert(t)
  PROVE  TransInv'
<1> DEFINE x == tx[t]
           k == kind[t]
           C == db.characters
           f == x.file
           rows == Seen(t, "characters")
           deaths == Seen(t, "deaths")
           born == IF k = "transfer" THEN rows[f].last ELSE tick
           row == [born |-> born, last |-> born, alive |-> TRUE, gold |-> StartingGold]
           mine == Append(rows, row)
           y == [Onward(t) EXCEPT !.draft = Put(@, "characters", mine)]
<1>1. /\ Moves(t, y) /\ x.at = "insert" /\ ~Anyone(rows)
      /\ \A u \in Requests \ {t} : ~Drafted(tx[u])
  BY DEF Insert, Does, At, Blockers, Waits, Duplicate, Serving, Anyone, Drafted
<1>2. /\ k \in Kinds /\ Where(x, k) /\ tick \in Nat
      /\ Holding(x, k, C, db.deaths, tick) /\ Filed(C, db.deaths, tick)
      /\ Copies(x, k, C, db.deaths, author, kind)
  BY Facts
<1>3. k \in {"claim", "retire", "transfer"} /\ After(k, "insert") = "commit"
  BY <1>1, <1>2, Edges DEF Where, Has
<1>4. /\ k = "claim" => f = 0 /\ ~Drafted(x) /\ x.death \in 1..Len(db.deaths)
      /\ k # "claim" => Drafted(x) /\ f # 0
  BY <1>1, <1>2, <1>3 DEF Holding, Adds
<1>5. /\ Filed(rows, deaths, tick) /\ deaths = DeathsOf(x, db.deaths)
      /\ Len(rows) = Len(C) /\ DOMAIN rows = DOMAIN C
      /\ \A i \in DOMAIN C : i # f => rows[i] = C[i]
      /\ f # 0 => /\ f \in DOMAIN rows /\ rows[f] \in RowSet /\ f = Len(rows)
                  /\ rows[f].born = C[f].born
                  /\ rows[f].last = C[f].last + x.minutes
                  /\ rows[f].gold = C[f].gold + x.minutes
      /\ f = 0 => rows = C
      /\ Len(deaths) >= Len(db.deaths)
      /\ \A i \in DOMAIN db.deaths : deaths[i] = db.deaths[i]
  <2>1. CASE f # 0
    BY <1>1, <2>1, HolderSees
  <2>2. CASE f = 0
    <3>1. ~Drafted(x) /\ "deaths" \notin DOMAIN x.draft
      BY <1>2, <1>4, <2>2 DEF Holding
    <3>2. rows = C /\ deaths = db.deaths /\ deaths = DeathsOf(x, db.deaths)
      BY <3>1 DEF Seen, Drafted, DeathsOf
    <3>3. Len(db.deaths) >= Len(db.deaths)
      BY <1>2 DEF Filed
    <3> QED BY <1>2, <2>2, <3>2, <3>3
  <2> QED BY <2>1, <2>2
<1> HIDE DEF rows, deaths
<1>6. /\ born \in Nat /\ born <= tick
      /\ \A i \in DOMAIN rows : i = Len(rows) => born >= rows[i].last
  <2>1. CASE k = "transfer"
    BY <1>4, <1>5, <2>1 DEF RowSet, Filed
  <2>2. CASE k # "transfer"
    BY <1>2, <1>5, <2>2 DEF Filed, RowSet
  <2> QED BY <2>1, <2>2
<1>7. /\ row \in RowSet /\ row.born = born /\ row.last = born /\ row.alive
      /\ row.gold = StartingGold
  BY <1>6, Constants DEF RowSet
<1> HIDE DEF row, born
<1>8. Filed(mine, deaths, tick)
  BY <1>1, <1>2, <1>5, <1>6, <1>7, FiledJoins
<1>9. rows \in Seq(RowSet) /\ C \in Seq(RowSet)
  BY <1>2, <1>5 DEF Filed
<1>10. /\ Len(mine) = Len(C) + 1 /\ mine[Len(mine)] = row
       /\ \A i \in DOMAIN rows : mine[i] = rows[i]
  BY <1>5, <1>7, <1>9
<1>11. /\ DOMAIN y = Fields /\ y.at = "commit"
       /\ y.basis = x.basis /\ y.over = x.over /\ y.target = x.target /\ y.file = f
       /\ y.to = x.to /\ y.minutes = x.minutes /\ y.death = x.death
       /\ y.draft = Put(x.draft, "characters", mine)
  BY <1>1, <1>2, <1>3 DEF Onward, Then, Where, Fields
<1> HIDE DEF y, mine
<1>12. /\ DOMAIN y.draft = DOMAIN x.draft \cup {"characters"}
       /\ y.draft["characters"] = mine
       /\ "deaths" \in DOMAIN x.draft => y.draft["deaths"] = x.draft["deaths"]
       /\ DeathsOf(y, db.deaths) = deaths
  BY <1>5, <1>11 DEF Put, DeathsOf
<1>13. Where(y, k) /\ ~Unheld(k, y.at) /\ y.at \notin Computing
  BY <1>2, <1>3, <1>11, KindsAre DEF Where, Has, Unheld, Computing
<1>14. Copies(y, k, C, db.deaths, author, kind)
  <2>1. HasRead(y, k)
    BY <1>11 DEF HasRead
  <2> QED BY <1>2, <1>11, <1>12, <1>13, <2>1, DraftsCopies
<1>15. Charge(y, k) = 0
  BY <1>3 DEF Charge
<1>16. f = 0 => k = "claim" /\ ~Anyone(C) /\ x.minutes = 0
  BY <1>1, <1>2, <1>4, <1>5 DEF Holding
<1>17. f # 0 => /\ mine[f].born = C[f].born
                /\ mine[f].last = C[f].last + y.minutes
                /\ mine[f].gold + Charge(y, k) = C[f].gold + y.minutes
  BY <1>5, <1>10, <1>11, <1>15 DEF RowSet
<1>18. \A i \in DOMAIN C : i # f => mine[i] = C[i]
  BY <1>5, <1>10
<1>19. Adds(y, k, C, db.deaths)
  BY <1>5, <1>7, <1>10, <1>11, <1>12, <1>16, <1>17, <1>18 DEF Adds
<1>20. Drafted(y) /\ Filed(y.draft["characters"], DeathsOf(y, db.deaths), tick)
  BY <1>8, <1>12 DEF Drafted
<1>21. k = "retire" => /\ "deaths" \in DOMAIN y.draft
                       /\ y.death = Len(y.draft["deaths"]) /\ y.death > Len(db.deaths)
  BY <1>1, <1>2, <1>11, <1>12 DEF Holding
<1>22. Holding(y, k, C, db.deaths, tick)
  BY <1>2, <1>4, <1>11, <1>13, <1>19, <1>20, <1>21 DEF Holding
<1>23. Good(t, y)
  BY <1>1, <1>11, <1>13, <1>14, <1>22, Facts DEF Good
<1> QED BY <1>1, <1>23, Moved DEF y, mine, row, born, rows

-----------------------------------------------------------------------------
(* Ends *)

LEMMA IdleFields ==
  /\ DOMAIN Idle = Fields /\ Idle.at = "done" /\ Idle.draft = <<>> /\ Idle.basis = <<>>
  /\ Idle.over = {} /\ Idle.target = 0 /\ Idle.file = 0 /\ Idle.to = 0
  /\ Idle.minutes = 0 /\ Idle.death = 0
  /\ DOMAIN Idle.draft = {} /\ DOMAIN Idle.basis = {} /\ ~Drafted(Idle)
BY DEF Idle, Fields, Drafted

LEMMA IdleIsGood ==
  ASSUME NEW k, NEW rows, NEW deaths, NEW until \in Nat, NEW wrote, NEW by
  PROVE  /\ Where(Idle, k) /\ Holding(Idle, k, rows, deaths, until)
         /\ Copies(Idle, k, rows, deaths, wrote, by)
<1>1. Where(Idle, k)
  BY IdleFields DEF Where, Has
<1>2. Holding(Idle, k, rows, deaths, until)
  BY IdleFields DEF Holding, Computing
<1>3. Copies(Idle, k, rows, deaths, wrote, by)
  BY IdleFields DEF Copies, HasRead, Fresh
<1> QED BY <1>1, <1>2, <1>3

LEMMA RollBackKeeps ==
  ASSUME TransInv, NEW t \in Requests, RollBack(t)
  PROVE  TransInv'
<1>1. tick \in Nat
  BY Facts
<1>2. Good(t, Idle)
  BY <1>1, IdleFields, IdleIsGood DEF Good
<1> QED BY <1>2, Moved DEF RollBack

LEMMA CountedIs ==
  ASSUME NEW n \in Nat, NEW counts, NEW i, NEW k \in Nat,
         \E m \in Nat : m <= n /\ counts \in [1..m -> Nat],
         NEW sum, sum = Counted(counts, n, i, k)
  PROVE  /\ sum \in [1..n -> Nat]
         /\ \A j \in 1..n :
              /\ j \in DOMAIN counts /\ (j # i \/ k = 0) => sum[j] = counts[j]
              /\ j \notin DOMAIN counts /\ (j # i \/ k = 0) => sum[j] = 0
              /\ j \in DOMAIN counts /\ j = i => sum[j] = counts[j] + k
              /\ j \notin DOMAIN counts /\ j = i => sum[j] = k
<1> PICK m \in Nat : m <= n /\ counts \in [1..m -> Nat]
  OBVIOUS
<1>1. sum = [j \in 1..n |-> (IF j \in DOMAIN counts THEN counts[j] ELSE 0)
                             + (IF j = i THEN k ELSE 0)]
  BY DEF Counted
<1>2. \A j \in 1..n : /\ (IF j \in DOMAIN counts THEN counts[j] ELSE 0) \in Nat
                     /\ (IF j = i THEN k ELSE 0) \in Nat
  OBVIOUS
<1>3. sum \in [1..n -> Nat]
  BY <1>1, <1>2
<1>4. ASSUME NEW j \in 1..n
      PROVE  /\ j \in DOMAIN counts /\ (j # i \/ k = 0) => sum[j] = counts[j]
             /\ j \notin DOMAIN counts /\ (j # i \/ k = 0) => sum[j] = 0
             /\ j \in DOMAIN counts /\ j = i => sum[j] = counts[j] + k
             /\ j \notin DOMAIN counts /\ j = i => sum[j] = k
  BY <1>1
<1> QED BY <1>3, <1>4

(* What a commit makes of the committed rows.                              *)
Installs(t, C, X, D, Y) ==
  LET x == tx[t]
      k == kind[t]
  IN  /\ Filed(D, Y, tick) /\ Y = DeathsOf(x, X)
      /\ ~Drafted(x) =>
           /\ D = C /\ Y = X /\ x.minutes = 0
           /\ k \notin {"desk", "hire", "claim", "retire", "transfer"}
      /\ Drafted(x) =>
           /\ D = x.draft["characters"] /\ Adds(x, k, C, X)
           /\ Anyone(D) \/ Len(Y) > Len(X)
           /\ k \in {"claim", "retire", "transfer"} => Anyone(D)

LEMMA CommitInstalls ==
  ASSUME TransInv, NEW t \in Requests, Commit(t)
  PROVE  Installs(t, db.characters, db.deaths, db'.characters, db'.deaths)
<1> DEFINE x == tx[t]
           k == kind[t]
           C == db.characters
           X == db.deaths
           D == db'.characters
           Y == db'.deaths
<1>1. /\ x.at = "commit" /\ db' = [r \in Tables |-> Seen(t, r)]
  BY DEF Commit, Does, At
<1>2. /\ Holding(x, k, C, X, tick) /\ Filed(C, X, tick)
  BY Facts
<1>3. D = Seen(t, "characters") /\ Y = Seen(t, "deaths")
  BY <1>1 DEF Tables
<1>4. Y = DeathsOf(x, X)
  BY <1>3 DEF Seen, DeathsOf
<1> HIDE DEF D, Y
<1>5. CASE ~Drafted(x)
  <2>1. D = C /\ Y = X
    BY <1>2, <1>3, <1>5 DEF Holding, Seen, Drafted
  <2> QED BY <1>1, <1>2, <1>4, <1>5, <2>1 DEF Holding, Installs, D, Y
<1>6. CASE Drafted(x)
  <2>1. D = x.draft["characters"]
    BY <1>3, <1>6 DEF Seen, Drafted
  <2>2. Filed(D, Y, tick) /\ Adds(x, k, C, X)
    BY <1>2, <1>4, <1>6, <2>1 DEF Holding
  <2>3. /\ D \in Seq(RowSet) /\ Y \in Seq(DeathSet) /\ X \in Seq(DeathSet)
        /\ C \in Seq(RowSet)
    BY <1>2, <2>2 DEF Filed
  <2>4. CASE Len(D) = Len(C) + 1
    <3>1. D[Len(D)].alive /\ Len(D) \in DOMAIN D
      BY <2>1, <2>2, <2>3, <2>4 DEF Adds
    <3>2. Anyone(D)
      BY <3>1 DEF Anyone
    <3> QED BY <1>4, <1>6, <2>1, <2>2, <3>2 DEF Installs, D, Y
  <2>5. CASE Len(D) # Len(C) + 1
    <3>1. Len(D) = Len(C) /\ x.file # 0
      BY <2>1, <2>2, <2>5 DEF Adds
    <3>2. x.file \in DOMAIN C /\ C[x.file].alive /\ x.file \in DOMAIN D
      BY <1>2, <2>3, <3>1 DEF Holding
    <3>3. CASE D[x.file].alive
      <4>1. Anyone(D)
        BY <3>2, <3>3 DEF Anyone
      <4> QED BY <1>4, <1>6, <2>1, <2>2, <4>1 DEF Installs, D, Y
    <3>4. CASE ~D[x.file].alive
      <4>1. PICK m \in DOMAIN Y : Y[m].of = x.file
        BY <2>2, <3>2, <3>4 DEF Filed
      <4>2. \A l \in DOMAIN X : X[l].of # x.file
        BY <1>2, <3>2 DEF Filed
      <4>3. \A l \in DOMAIN X : Y[l] = X[l]
        BY <1>4, <2>2 DEF Adds
      <4>4. m \notin DOMAIN X
        BY <4>1, <4>2, <4>3
      <4>5. Len(Y) > Len(X)
        BY <2>3, <4>1, <4>4
      <4> QED BY <1>1, <1>4, <1>6, <2>1, <2>2, <2>5, <4>5 DEF Installs, Adds, D, Y
    <3> QED BY <3>3, <3>4
  <2> QED BY <2>4, <2>5
<1> QED BY <1>5, <1>6

LEMMA Distributes == \A p \in Nat : Price * (p + 1) = Price * p + Price /\ Price * (p + 0) = Price * p
BY Constants

LEMMA CommitKeepsCommitted ==
  ASSUME TransInv, NEW t \in Requests, Commit(t)
  PROVE  Committed'
<1> DEFINE x == tx[t]
           k == kind[t]
           f == x.file
           C == db.characters
           X == db.deaths
           D == db'.characters
           Y == db'.deaths
           one == IF k \in {"desk", "hire"} THEN 1 ELSE 0
           fee == IF k \in {"claim", "retire"} THEN 1 ELSE 0
<1>1. /\ x.at = "commit" /\ tick' = tick
      /\ served' = Counted(served, Len(D), f, x.minutes)
      /\ paid' = Counted(paid, Len(D), f, one)
      /\ banked' = Counted(banked, Len(Y), x.death, fee)
  BY DEF Commit, Does, At
<1>2. Installs(t, C, X, D, Y)
  BY CommitInstalls
<1>3. Committed /\ Holding(x, k, C, X, tick) /\ k \in Kinds /\ Filed(C, X, tick)
  BY Facts DEF TransInv, LockInv
<1>a. one \in Nat /\ fee \in Nat
  OBVIOUS
<1>b. /\ k \in {"desk", "hire"} => one = 1
      /\ k \notin {"desk", "hire"} => one = 0
      /\ k \in {"claim", "retire"} => fee = 1
      /\ k \notin {"claim", "retire"} => fee = 0
  OBVIOUS
<1> HIDE DEF D, Y, C, X, x, k, f, one, fee
<1>4. /\ Filed(D, Y, tick) /\ x.minutes \in Nat /\ one \in Nat /\ fee \in Nat
      /\ D \in Seq(RowSet) /\ Y \in Seq(DeathSet) /\ C \in Seq(RowSet) /\ X \in Seq(DeathSet)
      /\ DOMAIN D = 1..Len(D) /\ DOMAIN Y = 1..Len(Y)
      /\ DOMAIN C = 1..Len(C) /\ DOMAIN X = 1..Len(X)
      /\ Len(D) \in Nat /\ Len(Y) \in Nat /\ Len(C) \in Nat /\ Len(X) \in Nat
      /\ Len(C) <= Len(D) /\ Len(X) <= Len(Y)
  <2>1. Filed(D, Y, tick) /\ x.minutes \in Nat
    BY <1>2, <1>3 DEF Installs, Holding, C, X, x, k
  <2>2. /\ D \in Seq(RowSet) /\ Y \in Seq(DeathSet)
        /\ C \in Seq(RowSet) /\ X \in Seq(DeathSet)
    BY <1>3, <2>1 DEF Filed
  <2>3. Len(C) <= Len(D) /\ Len(X) <= Len(Y)
    BY <1>2, <2>2 DEF Installs, Adds, x, k
  <2> QED BY <1>a, <2>1, <2>2, <2>3
<1>5. /\ served \in [1..Len(C) -> Nat] /\ paid \in [1..Len(C) -> Nat]
      /\ banked \in [1..Len(X) -> Nat]
      /\ \A i \in DOMAIN C :
           /\ C[i].last = C[i].born + served[i]
           /\ C[i].gold + Price * paid[i] = StartingGold + served[i]
      /\ \A i \in DOMAIN X : banked[i] > 1 => i < Len(X)
      /\ ~Anyone(C) /\ X # <<>> => banked[Len(X)] = 0
  BY <1>3, <1>4 DEF Committed, C, X
<1>6. /\ served' \in [1..Len(D) -> Nat] /\ paid' \in [1..Len(D) -> Nat]
      /\ banked' \in [1..Len(Y) -> Nat]
  BY <1>1, <1>4, <1>5, CountedIs
<1>c. ASSUME NEW i \in DOMAIN D
      PROVE  /\ i \in DOMAIN C /\ (i # f \/ (x.minutes = 0 /\ one = 0)) =>
                  served'[i] = served[i] /\ paid'[i] = paid[i]
             /\ i \notin DOMAIN C /\ i # f => served'[i] = 0 /\ paid'[i] = 0
             /\ i \in DOMAIN C /\ i = f =>
                  served'[i] = served[i] + x.minutes /\ paid'[i] = paid[i] + one
  <2>1. DOMAIN served = DOMAIN C /\ DOMAIN paid = DOMAIN C /\ i \in 1..Len(D)
    BY <1>4, <1>5
  <2>2. \E m \in Nat : m <= Len(D) /\ served \in [1..m -> Nat]
    BY <1>4, <1>5
  <2>3. \E m \in Nat : m <= Len(D) /\ paid \in [1..m -> Nat]
    BY <1>4, <1>5
  <2>4. Len(D) \in Nat /\ x.minutes \in Nat /\ one \in Nat
    BY <1>4
  <2>5. /\ i \in DOMAIN served /\ (i # f \/ x.minutes = 0) => served'[i] = served[i]
        /\ i \notin DOMAIN served /\ (i # f \/ x.minutes = 0) => served'[i] = 0
        /\ i \in DOMAIN served /\ i = f => served'[i] = served[i] + x.minutes
    <3>1. served' = Counted(served, Len(D), f, x.minutes)
      BY <1>1
    <3>2. \A j \in 1..Len(D) :
            /\ j \in DOMAIN served /\ (j # f \/ x.minutes = 0) => served'[j] = served[j]
            /\ j \notin DOMAIN served /\ (j # f \/ x.minutes = 0) => served'[j] = 0
            /\ j \in DOMAIN served /\ j = f => served'[j] = served[j] + x.minutes
      BY <2>2, <2>4, <3>1, CountedIs
    <3> QED BY <2>1, <3>2
  <2>6. /\ i \in DOMAIN paid /\ (i # f \/ one = 0) => paid'[i] = paid[i]
        /\ i \notin DOMAIN paid /\ (i # f \/ one = 0) => paid'[i] = 0
        /\ i \in DOMAIN paid /\ i = f => paid'[i] = paid[i] + one
    <3>1. paid' = Counted(paid, Len(D), f, one)
      BY <1>1
    <3>2. \A j \in 1..Len(D) :
            /\ j \in DOMAIN paid /\ (j # f \/ one = 0) => paid'[j] = paid[j]
            /\ j \notin DOMAIN paid /\ (j # f \/ one = 0) => paid'[j] = 0
            /\ j \in DOMAIN paid /\ j = f => paid'[j] = paid[j] + one
      BY <2>3, <2>4, <3>1, CountedIs
    <3> QED BY <2>1, <3>2
  <2> QED BY <2>1, <2>5, <2>6
<1>d. ASSUME NEW i \in DOMAIN Y
      PROVE  /\ i \in DOMAIN X /\ (i # x.death \/ fee = 0) => banked'[i] = banked[i]
             /\ i \notin DOMAIN X /\ (i # x.death \/ fee = 0) => banked'[i] = 0
             /\ i \in DOMAIN X /\ i = x.death => banked'[i] = banked[i] + fee
             /\ i \notin DOMAIN X /\ i = x.death => banked'[i] = fee
  <2>1. DOMAIN banked = DOMAIN X /\ i \in 1..Len(Y) /\ Len(Y) \in Nat /\ fee \in Nat
    BY <1>4, <1>5
  <2>2. \E m \in Nat : m <= Len(Y) /\ banked \in [1..m -> Nat]
    BY <1>4, <1>5
  <2>3. /\ i \in DOMAIN banked /\ (i # x.death \/ fee = 0) => banked'[i] = banked[i]
        /\ i \notin DOMAIN banked /\ (i # x.death \/ fee = 0) => banked'[i] = 0
        /\ i \in DOMAIN banked /\ i = x.death => banked'[i] = banked[i] + fee
        /\ i \notin DOMAIN banked /\ i = x.death => banked'[i] = fee
    BY <1>1, <2>1, <2>2, CountedIs
  <2> QED BY <2>1, <2>3
<1>7. ASSUME NEW i \in DOMAIN D
      PROVE  /\ D[i].last = D[i].born + served'[i]
             /\ D[i].gold + Price * paid'[i] = StartingGold + served'[i]
  <2>1. /\ i \in DOMAIN C => C[i] \in RowSet /\ served[i] \in Nat /\ paid[i] \in Nat
        /\ D[i] \in RowSet /\ StartingGold \in Nat /\ Price \in Nat
        /\ f = 0 \/ f \in DOMAIN C
    BY <1>3, <1>4, <1>5, Constants DEF Holding, C, x, f, k, X
  <2>2. CASE ~Drafted(x)
    <3>1. D = C /\ x.minutes = 0 /\ one = 0
      BY <1>2, <2>2, <1>b DEF Installs, x, k
    <3>2. served'[i] = served[i] /\ paid'[i] = paid[i]
      BY <1>c, <3>1
    <3> QED BY <1>5, <3>1, <3>2
  <2>3. CASE Drafted(x) /\ i \in DOMAIN C /\ i # f
    <3>1. D[i] = C[i]
      BY <1>2, <2>3 DEF Installs, Adds, x, k, f
    <3>2. served'[i] = served[i] /\ paid'[i] = paid[i]
      BY <1>c, <2>3
    <3> QED BY <1>5, <2>3, <3>1, <3>2
  <2>4. CASE Drafted(x) /\ i \in DOMAIN C /\ i = f
    <3>1. /\ D[f].born = C[f].born /\ D[f].last = C[f].last + x.minutes
          /\ D[f].gold + Charge(x, k) = C[f].gold + x.minutes
      BY <1>2, <1>4, <2>4 DEF Installs, Adds, x, k, f
    <3>2. served'[f] = served[f] + x.minutes /\ paid'[f] = paid[f] + one
      BY <1>c, <2>4
    <3>3. Price * paid'[f] = Price * paid[f] + Charge(x, k)
      BY <1>1, <1>b, <2>1, <2>4, <3>2, Distributes DEF Charge
    <3>4. C[f].last = C[f].born + served[f] /\ C[f].gold + Price * paid[f] = StartingGold + served[f]
      BY <1>5, <2>4
    <3>5. Price * paid[f] \in Nat /\ Charge(x, k) \in Nat /\ f \in DOMAIN C
      BY <2>1, <2>4 DEF Charge
    <3>6. /\ D[f].gold \in Nat /\ C[f].gold \in Nat /\ x.minutes \in Nat
          /\ D[f].born \in Nat /\ C[f].born \in Nat /\ served[f] \in Nat
      BY <1>4, <2>1, <2>4 DEF RowSet
    <3>7. D[f].last = D[f].born + (served[f] + x.minutes)
      BY <3>1, <3>4, <3>6
    <3>8. D[f].gold + Price * paid'[f] = StartingGold + (served[f] + x.minutes)
      BY <2>1, <2>4, <3>1, <3>3, <3>4, <3>5, <3>6
    <3> QED BY <2>4, <3>2, <3>7, <3>8
  <2>5. CASE Drafted(x) /\ i \notin DOMAIN C
    <3>0. Len(D) = Len(C) \/ Len(D) = Len(C) + 1
      BY <1>2, <2>5 DEF Installs, Adds, x, k
    <3>a. i \in 1..Len(D) /\ i \notin 1..Len(C) /\ Len(C) \in Nat /\ Len(D) \in Nat
      BY <1>4, <2>5
    <3>b. i = Len(D) /\ Len(D) = Len(C) + 1 /\ i # 0
      BY <3>a, <3>0
    <3>1. i = Len(D) /\ Len(D) = Len(C) + 1 /\ i # f
      BY <2>1, <2>5, <3>b
    <3>2. D[i].born = D[i].last /\ D[i].gold = StartingGold
      BY <1>2, <2>5, <3>1 DEF Installs, Adds, x, k, f
    <3>3. served'[i] = 0 /\ paid'[i] = 0 /\ Price * 0 = 0
      BY <1>c, <2>1, <2>5, <3>1
    <3> QED BY <2>1, <3>2, <3>3 DEF RowSet
  <2> QED BY <2>2, <2>3, <2>4, <2>5
<1>8. \A i \in DOMAIN Y : banked'[i] > 1 => i < Len(Y)
  <2> SUFFICES ASSUME NEW i \in DOMAIN Y, banked'[i] > 1, i = Len(Y) PROVE FALSE
    BY <1>4
  <2>1. CASE k \notin {"claim", "retire"}
    <3>1. i \in DOMAIN X /\ banked[i] > 1
      BY <1>b, <1>d, <1>4, <1>5, <2>1
    <3> QED BY <1>4, <1>5, <3>1
  <2>2. CASE k = "claim"
    <3>1. f = 0 /\ x.death \in 1..Len(X) /\ Drafted(x)
      BY <1>1, <1>3, <2>2 DEF Holding, x, k, C, X, f
    <3>2. ~Anyone(C)
      BY <1>2, <3>1 DEF Installs, Adds, x, k, f
    <3>3. i \in DOMAIN X => i = Len(X) /\ banked[i] = 0
      BY <1>4, <1>5, <3>1, <3>2
    <3> QED BY <1>b, <1>d, <1>4, <1>5, <2>2, <3>3
  <2>3. CASE k = "retire"
    <3>1. "deaths" \in DOMAIN x.draft /\ x.death = Len(x.draft["deaths"]) /\ x.death > Len(X)
      BY <1>1, <1>3, <2>3 DEF Holding, x, k, C, X, f
    <3>2. i \notin DOMAIN X
      BY <1>2, <1>4, <3>1 DEF Installs, DeathsOf, x, k
    <3> QED BY <1>b, <1>d, <1>4, <1>5, <2>3, <3>2
  <2> QED BY <2>1, <2>2, <2>3
<1>9. ASSUME ~Anyone(D), Y # <<>> PROVE banked'[Len(Y)] = 0
  <2>0. Len(Y) \in DOMAIN Y
    BY <1>4, <1>9
  <2>1. k \notin {"claim", "retire"}
    <3>1. CASE k = "claim"
      <4>1. f = 0 /\ Drafted(x)
        BY <1>1, <1>3, <3>1 DEF Holding, x, k, C, X, f
      <4> QED BY <1>2, <1>9, <4>1 DEF Installs, x, k, f
    <3>2. CASE k = "retire"
      <4>1. Drafted(x) /\ x.file # 0
        BY <1>1, <1>3, <3>2 DEF Holding, Adds, x, k, C, X, f
      <4> QED BY <1>2, <1>9, <3>2, <4>1 DEF Installs, x, k, f
    <3> QED BY <3>1, <3>2
  <2>2. CASE ~Drafted(x)
    <3>1. D = C /\ Y = X
      BY <1>2, <2>2, <1>b DEF Installs, x, k
    <3> QED BY <1>b, <1>d, <1>4, <1>5, <1>9, <2>0, <2>1, <3>1
  <2>3. CASE Drafted(x)
    <3>1. Len(Y) > Len(X)
      BY <1>2, <1>9, <2>3 DEF Installs, x, k, f
    <3>2. Len(Y) \notin DOMAIN X
      BY <1>4, <3>1
    <3>3. fee = 0
      BY <1>b, <2>1
    <3> QED BY <1>d, <2>0, <3>2, <3>3
  <2> QED BY <2>2, <2>3
<1> QED BY <1>1, <1>4, <1>6, <1>7, <1>8, <1>9 DEF Committed, D, Y, C, X

(* A commit of recruits finds nobody else with the recruit, and overtakes  *)
(* every claim that has begun.                                             *)
LEMMA CommitKeepsOthers ==
  ASSUME TransInv, NEW t \in Requests, Commit(t), NEW u \in Requests, u # t
  PROVE  /\ Where(tx[u], kind[u])
         /\ Holding(tx[u], kind[u], db'.characters, db'.deaths, tick)
         /\ Copies(tx[u], kind[u], db'.characters, db'.deaths, author', kind)
<1> DEFINE x == tx[t]
           y == tx[u]
           k == kind[t]
           l == kind[u]
           C == db.characters
           X == db.deaths
           D == db'.characters
           Y == db'.deaths
<1>1. /\ x.at = "commit"
      /\ author' = [r \in Shared |-> IF r \in DOMAIN x.draft THEN t ELSE author[r]]
  BY DEF Commit, Does, At
<1>2. Installs(t, C, X, D, Y)
  BY CommitInstalls
<1>3. /\ Holding(x, k, C, X, tick) /\ Copies(x, k, C, X, author, kind)
      /\ Where(y, l) /\ Holding(y, l, C, X, tick) /\ Copies(y, l, C, X, author, kind)
      /\ x.file = 0 \/ y.file = 0
      /\ ~Drafted(x) \/ ~Drafted(y)
      /\ Filed(C, X, tick)
  BY Facts
<1> HIDE DEF x, y, k, l, C, X, D, Y
<1>4. CASE Drafted(x)
  <2>1. /\ D = x.draft["characters"] /\ Adds(x, k, C, X)
        /\ Anyone(D) \/ Len(Y) > Len(X)
        /\ Filed(D, Y, tick) /\ Y = DeathsOf(x, X)
    BY <1>2, <1>4 DEF Installs, x, k
  <2>2. /\ DOMAIN D = 1..Len(D) /\ DOMAIN C = 1..Len(C)
        /\ Len(C) \in Nat /\ Len(D) \in Nat /\ Len(X) \in Nat /\ Len(Y) \in Nat
        /\ Len(D) >= Len(C) /\ Len(Y) >= Len(X)
    <3>1. /\ D \in Seq(RowSet) /\ C \in Seq(RowSet)
          /\ X \in Seq(DeathSet) /\ Y \in Seq(DeathSet)
      BY <1>3, <2>1 DEF Filed
    <3>2. /\ Len(D) = Len(C) \/ Len(D) = Len(C) + 1
          /\ Len(Y) >= Len(X)
      BY <2>1 DEF Adds
    <3> QED BY <3>1, <3>2
  <2>3. y.file = 0 /\ ~Drafted(y)
    <3>1. CASE x.file = 0
      <4>1. ~Anyone(C)
        BY <2>1, <3>1 DEF Adds
      <4> QED BY <1>3, <1>4, <4>1 DEF Holding, Anyone
    <3> QED BY <1>3, <1>4, <3>1
  <2>4. Holding(y, l, D, Y, tick)
    <3>1. y.target \in {0} \cup DOMAIN D
      BY <1>3, <2>2 DEF Holding
    <3>2. y.at \notin Computing /\ y.at \notin {"save", "surrender", "separate"}
      BY <1>3, <2>3 DEF Holding, Computing
    <3>3. /\ "deaths" \notin DOMAIN y.draft /\ y.minutes = 0
          /\ y.at = "commit" => l \notin {"desk", "hire", "claim", "retire", "transfer"}
      BY <1>3, <2>3 DEF Holding
    <3>4. l = "claim" /\ y.at \in {"pension", "bank", "insert", "commit"} =>
            y.death \in 1..Len(Y)
      BY <1>3, <2>2 DEF Holding
    <3>5. ~(l = "retire" /\ y.at \in {"pension", "bank", "insert", "commit"})
      BY <1>3, <3>3 DEF Holding
    <3>6. ~(l \in {"retire", "transfer"} /\ y.at = "insert")
      BY <1>3, <2>3 DEF Holding
    <3>7. y.minutes \in Nat /\ y.to \in Nat /\ y.to <= tick
      BY <1>3 DEF Holding
    <3> QED BY <2>3, <3>1, <3>2, <3>3, <3>4, <3>5, <3>6, <3>7 DEF Holding
  <2>5. l = "claim" /\ y.at \notin {"done", "find", "hold", "death"} => Overtaken(y, D, Y)
    <3> SUFFICES ASSUME l = "claim", y.at \notin {"done", "find", "hold", "death"}
                 PROVE  Overtaken(y, D, Y)
      OBVIOUS
    <3>1. y.at \in {"pension", "bank", "insert", "commit"}
      BY <1>3 DEF Where, Has, Resolving
    <3>2. y.death \in 1..Len(X)
      BY <1>3, <3>1 DEF Holding
    <3>3. Len(Y) > Len(X) => y.death < Len(Y)
      BY <2>2, <3>2
    <3> QED BY <2>1, <3>3 DEF Overtaken
  <2>6. Fresh(y, l, D, Y, author', kind)
    <3> SUFFICES ASSUME NEW r \in DOMAIN y.basis, l = "claim" PROVE Overtaken(y, D, Y)
      BY <2>3 DEF Fresh
    <3>1. y.at \notin {"done", "find", "hold", "death"}
      BY <1>3 DEF Copies
    <3> QED BY <2>5, <3>1
  <2>7. \A c \in y.over :
          /\ DOMAIN c = {"row", "by", "over", "late"}
          /\ \/ {c.by, c.over} \cap Unguarded[c.row] # {}
             \/ l = "claim" /\ Overtaken(y, D, Y)
    <3> SUFFICES ASSUME NEW c \in y.over
                 PROVE  /\ DOMAIN c = {"row", "by", "over", "late"}
                        /\ \/ {c.by, c.over} \cap Unguarded[c.row] # {}
                           \/ l = "claim" /\ Overtaken(y, D, Y)
      OBVIOUS
    <3>1. /\ DOMAIN c = {"row", "by", "over", "late"}
          /\ \/ {c.by, c.over} \cap Unguarded[c.row] # {}
             \/ l = "claim"
          /\ ~(l = "claim" /\ y.at \in {"done", "find", "hold", "death"})
      BY <1>3 DEF Copies
    <3> QED BY <2>5, <3>1
  <2>8. Copies(y, l, D, Y, author', kind)
    BY <1>3, <2>6, <2>7 DEF Copies
  <2> QED BY <1>3, <2>4, <2>8 DEF y, l, D, Y
<1>5. CASE ~Drafted(x)
  <2>1. D = C /\ Y = X /\ k # "claim"
    BY <1>2, <1>5 DEF Installs, x, k
  <2>2. Fresh(y, l, D, Y, author', kind)
    <3> SUFFICES ASSUME NEW r \in DOMAIN y.basis, Guarded(l, r)
                 PROVE  \/ y.basis[r] = author'[r] \/ ~Guarded(kind[author'[r]], r)
                        \/ y.file = 0 /\ (l = "claim" => Overtaken(y, D, Y))
      BY DEF Fresh
    <3>1. r \in Shared
      BY <1>3 DEF Copies
    <3>2. CASE r \notin DOMAIN x.draft
      <4>1. author'[r] = author[r]
        BY <1>1, <3>1, <3>2
      <4>2. \/ y.basis[r] = author[r] \/ ~Guarded(kind[author[r]], r)
            \/ y.file = 0 /\ (l = "claim" => Overtaken(y, C, X))
        BY <1>3 DEF Copies, Fresh
      <4> QED BY <2>1, <4>1, <4>2
    <3>3. CASE r \in DOMAIN x.draft
      <4>1. author'[r] = t
        BY <1>1, <3>1, <3>3
      <4>2. CASE ~Guarded(k, r)
        BY <4>1, <4>2 DEF k
      <4>3. CASE Guarded(k, r)
        <5>1. x.file # 0
          BY <1>3, <2>1, <3>1, <3>3, <4>3 DEF Copies
        <5>2. y.file = 0 /\ Anyone(C)
          BY <1>3, <5>1 DEF Holding, Anyone
        <5> QED BY <2>1, <5>2 DEF Overtaken
      <4> QED BY <4>2, <4>3
    <3> QED BY <3>2, <3>3
  <2>3. Copies(y, l, D, Y, author', kind)
    BY <1>3, <2>1, <2>2 DEF Copies
  <2> QED BY <1>3, <2>1, <2>3 DEF y, l, D, Y
<1> QED BY <1>4, <1>5

LEMMA CommitKeeps ==
  ASSUME TransInv, NEW t \in Requests, Commit(t)
  PROVE  TransInv'
<1>1. /\ tick' = tick /\ kind' = kind /\ tx[t].at = "commit"
      /\ tx' = [tx EXCEPT ![t] = Idle] /\ DOMAIN tx = Requests
      /\ crossed' = crossed \cup {[c EXCEPT !.late = Late(t)] : c \in tx[t].over}
      /\ tick \in Nat /\ kind \in [Requests -> Kinds]
  BY DEF Commit, Does, At, TransInv, LockInv
<1>2. DOMAIN tx' = Requests /\ tx'[t] = Idle /\ \A u \in Requests \ {t} : tx'[u] = tx[u]
  BY <1>1
<1>3. Committed'
  BY CommitKeepsCommitted
<1>4. ASSUME NEW u \in Requests PROVE TxOK(u)' /\ Reading(u)'
  <2>1. CASE u = t
    BY <1>1, <1>2, <2>1, IdleIsGood DEF TxOK, Reading
  <2>2. CASE u # t
    <3>1. /\ Where(tx[u], kind[u])
          /\ Holding(tx[u], kind[u], db'.characters, db'.deaths, tick)
          /\ Copies(tx[u], kind[u], db'.characters, db'.deaths, author', kind)
      BY <2>2, CommitKeepsOthers
    <3> QED BY <1>1, <1>2, <2>2, <3>1 DEF TxOK, Reading
  <2> QED BY <2>1, <2>2
<1>5. Alone'
  BY <1>2, IdleFields DEF TransInv, LockInv, Alone
<1>6. ASSUME NEW c \in tx[t].over, NEW d, d = [c EXCEPT !.late = Late(t)]
      PROVE  d.late \/ {d.by, d.over} \cap Unguarded[d.row] # {}
  <2>1. /\ DOMAIN c = {"row", "by", "over", "late"}
        /\ \/ {c.by, c.over} \cap Unguarded[c.row] # {}
           \/ kind[t] = "claim" /\ Overtaken(tx[t], db.characters, db.deaths)
    BY Facts DEF Copies
  <2>2. d.late = Late(t) /\ d.by = c.by /\ d.over = c.over /\ d.row = c.row
    BY <1>6, <2>1
  <2>3. ASSUME kind[t] = "claim", Overtaken(tx[t], db.characters, db.deaths)
        PROVE  Late(t)
    <3>1. Drafted(tx[t]) /\ tx[t].file = 0
      BY <1>1, <2>3, Facts DEF Holding
    <3>2. ~Anyone(db.characters)
      BY <3>1, CommitInstalls DEF Installs, Adds
    <3> QED BY <2>3, <3>2 DEF Overtaken, Late
  <2> QED BY <2>1, <2>2, <2>3
<1>7. OnlyUnguardedCross'
  <2> SUFFICES ASSUME NEW d \in crossed' PROVE d.late \/ {d.by, d.over} \cap Unguarded[d.row] # {}
    BY DEF OnlyUnguardedCross
  <2>1. CASE d \in crossed
    BY <2>1 DEF TransInv, CrossInv, OnlyUnguardedCross
  <2>2. CASE d \notin crossed
    BY <1>1, <1>6, <2>2
  <2> QED BY <2>1, <2>2
<1> QED BY <1>1, <1>2, <1>3, <1>4, <1>5, <1>7 DEF TransInv, LockInv, CrossInv

-----------------------------------------------------------------------------
(* Every step *)

LEMMA FiledLater ==
  ASSUME NEW rows, NEW deaths, NEW m \in Nat, NEW n \in Nat, m <= n,
         Filed(rows, deaths, m)
  PROVE  Filed(rows, deaths, n)
<1>1. rows \in Seq(RowSet) /\ \A i \in DOMAIN rows : rows[i] \in RowSet
  BY DEF Filed
<1>2. ASSUME NEW i \in DOMAIN rows PROVE rows[i].last <= n
  <2>1. rows[i].last \in Nat /\ rows[i].last <= m
    BY <1>1 DEF Filed, RowSet
  <2> QED BY <2>1
<1> QED BY <1>2 DEF Filed

LEMMA HoldingLater ==
  ASSUME NEW x, NEW k, NEW rows, NEW deaths, NEW m \in Nat, NEW n \in Nat, m <= n,
         Holding(x, k, rows, deaths, m)
  PROVE  Holding(x, k, rows, deaths, n)
<1>1. x.to \in Nat /\ x.to <= n
  BY DEF Holding
<1>2. Drafted(x) => Filed(x.draft["characters"], DeathsOf(x, deaths), n)
  BY FiledLater DEF Holding
<1> QED BY <1>1, <1>2 DEF Holding

LEMMA TickKeeps ==
  ASSUME TransInv, Tick
  PROVE  TransInv'
<1>1. /\ tick \in Nat /\ tick' = tick + 1 /\ kind' = kind /\ db' = db /\ author' = author
      /\ tx' = tx /\ served' = served /\ paid' = paid /\ banked' = banked
      /\ crossed' = crossed
  BY DEF Tick, TransInv, LockInv
<1>2. tick' \in Nat /\ tick <= tick'
  BY <1>1
<1>3. Committed'
  <2>1. Filed(db.characters, db.deaths, tick')
    BY <1>1, <1>2, FiledLater DEF TransInv, LockInv, Committed
  <2> QED BY <1>1, <2>1 DEF TransInv, LockInv, Committed
<1>4. ASSUME NEW t \in Requests PROVE TxOK(t)' /\ Reading(t)'
  <2>1. /\ Where(tx[t], kind[t])
        /\ Holding(tx[t], kind[t], db.characters, db.deaths, tick)
        /\ Copies(tx[t], kind[t], db.characters, db.deaths, author, kind)
    BY Facts
  <2>2. Holding(tx[t], kind[t], db.characters, db.deaths, tick')
    BY <1>1, <1>2, <2>1, HoldingLater
  <2> QED BY <1>1, <2>1, <2>2 DEF TxOK, Reading
<1>5. Alone' /\ OnlyUnguardedCross'
  BY <1>1 DEF TransInv, LockInv, CrossInv, Alone, OnlyUnguardedCross
<1> QED BY <1>1, <1>2, <1>3, <1>4, <1>5 DEF TransInv, LockInv, CrossInv

LEMMA StatementKeeps ==
  ASSUME TransInv, NEW t \in Requests, Statement(t)
  PROVE  TransInv'
<1>1. CASE Find(t) \/ Hold(t)
  BY <1>1, FindKeeps, HoldKeeps
<1>2. CASE Consult(t) \/ Registry(t) \/ Assignment(t)
  BY <1>2, ConsultKeeps, RegistryKeeps, AssignmentKeeps
<1>3. CASE Payroll(t) \/ Redeem(t) \/ Progress(t) \/ Finish(t) \/ Reward(t)
  BY <1>3, ResolutionWrites
<1>4. CASE Save(t) \/ Look(t) \/ Again(t) \/ Pay(t)
  BY <1>4, SaveKeeps, LookKeeps, AgainKeeps, PayKeeps
<1>5. CASE Amend(t) \/ Buy(t) \/ Handback(t) \/ Spend(t) \/ Bank(t) \/ Enter(t) \/ Surrender(t)
  BY <1>5, OutsideWrites
<1>6. CASE Death(t) \/ Insert(t) \/ Commit(t)
  BY <1>6, DeathKeeps, InsertKeeps, CommitKeeps
<1>7. CASE Close(t)
  <2>1. /\ tx[t].at = "close" /\ tx[t].file # 0 /\ Moves(t, Closed(t, Award))
        /\ Seen(t, "characters")[tx[t].file].alive
    BY <1>7 DEF Close, FitToRetire, Does, At
  <2> QED BY <2>1, Constants, CloseKeeps
<1>8. CASE Separate(t)
  <2>1. tx[t].at = "separate" /\ Moves(t, Closed(t, 0))
    BY <1>8 DEF Separate, Does, At
  <2>2. tx[t].file # 0
    BY <2>1, Facts DEF Holding
  <2> QED BY <2>1, <2>2, CloseKeeps
<1>9. CASE Refuse(t) \/ Victim(t)
  BY <1>9, RollBackKeeps DEF Refuse, Victim
<1> QED BY <1>1, <1>2, <1>3, <1>4, <1>5, <1>6, <1>7, <1>8, <1>9 DEF Statement

LEMMA TransStep ==
  ASSUME TransInv, [Next]_vars
  PROVE  TransInv'
<1>1. CASE UNCHANGED vars
  BY <1>1 DEF vars, TransInv, LockInv, CrossInv, Committed, TxOK, Reading, Alone,
             OnlyUnguardedCross
<1>2. CASE \E t \in Requests : Statement(t) \/ Fail(t)
  <2> PICK t \in Requests : Statement(t) \/ Fail(t)
    BY <1>2
  <2> QED BY StatementKeeps, RollBackKeeps DEF Fail
<1>3. CASE Tick
  BY <1>3, TickKeeps
<1>4. CASE AllDone
  BY <1>1, <1>4 DEF AllDone
<1> QED BY <1>1, <1>2, <1>3, <1>4 DEF Next

LEMMA BegunIs ==
  ASSUME NEW k \in Kinds, NEW x, x = Begun(k)
  PROVE  /\ DOMAIN x = Fields /\ Has(k, x.at) /\ Unheld(k, x.at)
         /\ x.at \in {"done", "find", "office", "posts", "pension", "file", "record"}
         /\ x.draft = <<>> /\ x.basis = <<>> /\ x.over = {}
         /\ x.target = 0 /\ x.file = 0 /\ x.to = 0 /\ x.minutes = 0
<1>1. x = [Idle EXCEPT !.at = After(k, "begin")] /\ x.at = After(k, "begin")
  BY IdleFields DEF Begun, Fields
<1>2. /\ DOMAIN x = Fields /\ x.draft = <<>> /\ x.basis = <<>> /\ x.over = {}
      /\ x.target = 0 /\ x.file = 0 /\ x.to = 0 /\ x.minutes = 0
  BY <1>1, IdleFields DEF Fields
<1>3. /\ Has(k, x.at) /\ Unheld(k, x.at)
      /\ x.at \in {"done", "find", "office", "posts", "pension", "file", "record"}
  BY <1>1, Edges, KindsAre DEF Has, Unheld
<1> QED BY <1>2, <1>3

LEMMA InitIsGood ==
  ASSUME Init
  PROVE  TransInv
<1> PICK alive \in BOOLEAN :
      /\ db = [characters |-> <<[born |-> 0, last |-> 0, alive |-> alive,
                                 gold |-> StartingGold]>>,
               deaths |-> IF alive THEN <<>> ELSE Recorded(<<>>, 1, Award),
               pensions |-> [total |-> StartingPension, spent |-> 0],
               offices |-> FALSE, registries |-> 1, assignments |-> TRUE,
               transfers |-> 1]
      /\ banked = IF alive THEN <<>> ELSE <<0>>
  BY DEF Init
<1> DEFINE row == [born |-> 0, last |-> 0, alive |-> alive, gold |-> StartingGold]
           C == db.characters
           X == db.deaths
<1>1. C = <<row>> /\ X = IF alive THEN <<>> ELSE Recorded(<<>>, 1, Award)
  OBVIOUS
<1>2. /\ tick = 0 /\ kind \in [Requests -> Kinds] /\ DOMAIN tx = Requests
      /\ \A t \in Requests : tx[t] = Begun(kind[t])
      /\ served = <<0>> /\ paid = <<0>> /\ crossed = {}
  BY Constants DEF Init
<1>3. /\ row \in RowSet /\ row.last = 0 /\ row.born = 0 /\ row.alive = alive
      /\ row.gold = StartingGold
  BY Constants DEF RowSet
<1> HIDE DEF row
<1>4. C \in Seq(RowSet) /\ Len(C) = 1 /\ DOMAIN C = {1} /\ C[1] = row
  BY <1>1, <1>3
<1>5. alive => X = <<>> /\ DOMAIN X = {} /\ X \in Seq(DeathSet) /\ Len(X) = 0
  BY <1>1
<1>6. ~alive => /\ X \in Seq(DeathSet) /\ Len(X) = 1 /\ DOMAIN X = {1} /\ X[1].of = 1
  BY <1>1, Constants DEF Recorded, DeathSet
<1> HIDE DEF C, X
<1>7. Filed(C, X, 0)
  BY <1>3, <1>4, <1>5, <1>6 DEF Filed
<1>8. banked \in [DOMAIN X -> Nat] /\ \A i \in DOMAIN X : banked[i] = 0
  BY <1>5, <1>6
<1>9. Committed
  <2>1. served \in [DOMAIN C -> Nat] /\ paid \in [DOMAIN C -> Nat]
    BY <1>2, <1>4
  <2>2. served[1] = 0 /\ paid[1] = 0 /\ Price * 0 = 0 /\ StartingGold \in Nat
    BY <1>2, Constants
  <2>3. \A i \in DOMAIN C : /\ C[i].last = C[i].born + served[i]
                            /\ C[i].gold + Price * paid[i] = StartingGold + served[i]
    BY <1>3, <1>4, <2>2
  <2>4. X # <<>> => banked[Len(X)] = 0
    BY <1>5, <1>6, <1>8
  <2>5. \A i \in DOMAIN X : ~(banked[i] > 1)
    BY <1>8
  <2>6. Filed(C, X, tick)
    BY <1>2, <1>7
  <2> QED BY <1>8, <2>1, <2>3, <2>4, <2>5, <2>6 DEF Committed, C, X
<1>10. ASSUME NEW t \in Requests PROVE TxOK(t) /\ Reading(t) /\ tx[t].file = 0 /\ ~Drafted(tx[t])
  <2> DEFINE x == tx[t]
             k == kind[t]
  <2>1. x = Begun(k) /\ k \in Kinds
    BY <1>2
  <2> HIDE DEF x, k
  <2>2. /\ DOMAIN x = Fields /\ Has(k, x.at) /\ Unheld(k, x.at)
        /\ x.at \in {"done", "find", "office", "posts", "pension", "file", "record"}
        /\ x.draft = <<>> /\ x.basis = <<>> /\ x.over = {}
        /\ x.target = 0 /\ x.file = 0 /\ x.to = 0 /\ x.minutes = 0
    BY <2>1, BegunIs
  <2>3. DOMAIN x.draft = {} /\ DOMAIN x.basis = {} /\ ~Drafted(x)
    BY <2>2 DEF Drafted
  <2>4. ~(k \in {"retire", "claim"} /\ x.at \in {"pension", "bank", "insert", "commit"})
    BY <2>2 DEF Unheld
  <2>5. Holding(x, k, C, X, tick)
    BY <1>2, <2>2, <2>3, <2>4 DEF Holding, Computing
  <2>6. HasRead(x, k)
    BY <2>2 DEF HasRead, Unheld
  <2>7. Copies(x, k, C, X, author, kind)
    BY <2>2, <2>3, <2>6 DEF Copies, Fresh
  <2> QED BY <2>2, <2>3, <2>5, <2>7 DEF TxOK, Reading, Where, x, k, C, X
<1>11. Alone
  BY <1>10 DEF Alone
<1>12. OnlyUnguardedCross
  BY <1>2 DEF OnlyUnguardedCross
<1> QED BY <1>2, <1>9, <1>10, <1>11, <1>12 DEF TransInv, LockInv, CrossInv

LEMMA TransInvHolds == Spec => []TransInv
<1>1. Init => TransInv
  BY InitIsGood
<1>2. TransInv /\ [Next]_vars => TransInv'
  BY TransStep
<1> QED BY <1>1, <1>2, PTL DEF Spec

-----------------------------------------------------------------------------
(* The theorems *)

(* However the requests of an account interleave, fail and deadlock, every *)
(* minute is resolved once and every charge stands (loadStateInside,       *)
(* purchaseRequisition and hireStaff under the recruit's row lock).        *)
THEOREM EveryMinuteOnce == Spec => []MinutesServedOnce
<1>1. TransInv => MinutesServedOnce
  <2> SUFFICES ASSUME TransInv, NEW i \in DOMAIN db.characters
               PROVE  /\ served[i] = db.characters[i].last - db.characters[i].born
                      /\ db.characters[i].gold + Price * paid[i] = StartingGold + served[i]
                      /\ db.characters[i].gold >= 0
                      /\ i > 1 => db.characters[i].born >= db.characters[i - 1].last
    BY DEF MinutesServedOnce
  <2>1. /\ db.characters[i].last = db.characters[i].born + served[i]
        /\ db.characters[i].gold + Price * paid[i] = StartingGold + served[i]
        /\ i > 1 => db.characters[i].born >= db.characters[i - 1].last
        /\ db.characters \in Seq(RowSet) /\ served[i] \in Nat
    BY DEF TransInv, LockInv, Committed, Filed
  <2>2. db.characters[i] \in RowSet
    BY <2>1
  <2>3. db.characters[i].born \in Nat /\ db.characters[i].gold \in Nat
    BY <2>2 DEF RowSet
  <2> QED BY <2>1, <2>3
<1> QED BY <1>1, TransInvHolds, PTL

LEMMA AtMostOne ==
  ASSUME NEW S, \A k, l \in S : k = l
  PROVE  Cardinality(S) <= 1
<1>1. CASE S = {}
  <2>1. Cardinality({}) = 0
    BY FS_EmptySet
  <2> QED BY <1>1, <2>1
<1>2. CASE S # {}
  <2> PICK k \in S : S = {k}
    BY <1>2
  <2>1. Cardinality({k}) = 1
    BY FS_Singleton
  <2> QED BY <2>1
<1> QED BY <1>1, <1>2

(* A recruit is lost to one request only, and the award on the overlay is  *)
(* banked once (the conditional updates of retire, claimSuccessor and the  *)
(* resolver's save, whoever waits for whom).                               *)
THEOREM OneLossOneAward == Spec => []LostOnce
<1>1. TransInv => LostOnce
  <2> SUFFICES ASSUME TransInv PROVE LostOnce
    OBVIOUS
  <2> DEFINE files(i) == {k \in DOMAIN db.deaths : db.deaths[k].of = i}
             paying(i) == {k \in files(i) : db.deaths[k].award > 0}
  <2>1. /\ Filed(db.characters, db.deaths, tick)
        /\ banked \in [DOMAIN db.deaths -> Nat]
        /\ \A k \in DOMAIN db.deaths : banked[k] > 1 => k < Len(db.deaths)
    BY DEF TransInv, LockInv, Committed
  <2>2. ASSUME NEW i \in DOMAIN db.characters
        PROVE  /\ Cardinality(paying(i)) <= 1
               /\ files(i) = {} <=> db.characters[i].alive
    <3>1. \A k, l \in paying(i) : k = l
      BY <2>1 DEF Filed
    <3>4. files(i) = {} <=> db.characters[i].alive
      BY <2>1 DEF Filed
    <3>5. Cardinality(paying(i)) <= 1
      BY <3>1, AtMostOne
    <3> QED BY <3>4, <3>5
  <2>3. Len(banked) = Len(db.deaths) /\ DOMAIN banked = DOMAIN db.deaths
    <3>1. /\ db.deaths \in Seq(DeathSet) /\ DOMAIN db.deaths = 1..Len(db.deaths)
          /\ Len(db.deaths) \in Nat
      BY <2>1 DEF Filed
    <3>2. banked \in Seq(Nat) /\ Len(banked) = Len(db.deaths)
      BY <2>1, <3>1
    <3> QED BY <2>1, <3>2
  <2> QED BY <2>1, <2>2, <2>3 DEF LostOnce
<1> QED BY <1>1, TransInvHolds, PTL

(* Outside the rows a handler reads or writes without the recruit's lock,  *)
(* and a claim that has been overtaken, no version of a row is overwritten *)
(* unread: those handlers are one step to one another, as Career takes     *)
(* them to be.                                                             *)
THEOREM GuardedAreAtomic == Spec => []OnlyUnguardedCross
<1>1. TransInv => OnlyUnguardedCross
  BY DEF TransInv, CrossInv
<1> QED BY <1>1, TransInvHolds, PTL
=============================================================================
