----------------------------- MODULE Sweep_proofs -----------------------------
(***************************************************************************)
(* Theorems about Sweep, for any accounts, devices, passes and fates.      *)
(*                                                                         *)
(* The primary key of push_sends makes one pass the holder of a death; it  *)
(* rings each of the tokens it has listed once, and whoever comes later    *)
(* finds the claim.                                                        *)
(***************************************************************************)
EXTENDS Sweep, TLAPS

(* A pass that has claimed a death and is not done with it.                *)
Holding(s) == at[s] \in {"listing", "sending", "pruning"}

(* The death it is about.                                                  *)
About(s, a, n) == Subject(s) = a /\ copy[s].num = n

(* It has yet to ring this token.                                          *)
StillToRing(s, t) == at[s] = "listing" \/ (at[s] = "sending" /\ t \in rest[s])

SweepTypeOK ==
  /\ at \in [Sweepers -> Steps]
  /\ DOMAIN queue = Sweepers /\ DOMAIN copy = Sweepers
  /\ DOMAIN rest = Sweepers /\ DOMAIN stale = Sweepers
  /\ rung \in [Tokens \X Accounts \X Recruits -> 0..2]

(* Who was rung for is claimed, and was rung once.                         *)
RungWasClaimed ==
  \A t \in Tokens, a \in Accounts, n \in Recruits :
    rung[<<t, a, n>>] <= 1 /\ (rung[<<t, a, n>>] = 1 => Claimed(a, n))

(* A death has one holder, who has claimed it.                             *)
OneHolder ==
  \A s \in Sweepers : Holding(s) =>
    /\ Claimed(Subject(s), copy[s].num)
    /\ \A r \in Sweepers \ {s} : Holding(r) => ~About(r, Subject(s), copy[s].num)

(* What the holder has yet to ring has not been rung by anyone.            *)
NotYetRung ==
  \A s \in Sweepers, t \in Tokens, a \in Accounts, n \in Recruits :
    About(s, a, n) /\ StillToRing(s, t) => rung[<<t, a, n>>] = 0

SweepInv == SweepTypeOK /\ RungWasClaimed /\ OneHolder /\ NotYetRung

LEMMA InitSweepInv == Init => SweepInv
<1> SUFFICES ASSUME Init PROVE SweepInv
  OBVIOUS
<1>1. /\ at = [s \in Sweepers |-> "idle"] /\ queue = [s \in Sweepers |-> <<>>]
      /\ copy = [s \in Sweepers |-> NoRecord]
      /\ rest = [s \in Sweepers |-> {}] /\ stale = [s \in Sweepers |-> {}]
      /\ rung = [x \in Tokens \X Accounts \X Recruits |-> 0]
  BY DEF Init
<1>2. SweepTypeOK
  BY <1>1 DEF SweepTypeOK, Steps
<1>3. RungWasClaimed
  BY <1>1 DEF RungWasClaimed
<1>4. OneHolder
  BY <1>1 DEF OneHolder, Holding
<1>5. NotYetRung
  BY <1>1 DEF NotYetRung, StillToRing
<1> QED BY <1>2, <1>3, <1>4, <1>5 DEF SweepInv

-----------------------------------------------------------------------------
(* Steps that ring nobody *)

(* A step of one pass leaves the others where they are.                    *)
OthersWait(s) ==
  /\ DOMAIN queue' = Sweepers /\ DOMAIN copy' = Sweepers
  /\ DOMAIN rest' = Sweepers /\ DOMAIN stale' = Sweepers
  /\ at' \in [Sweepers -> Steps]
  /\ \A r \in Sweepers \ {s} :
       at'[r] = at[r] /\ queue'[r] = queue[r] /\ copy'[r] = copy[r] /\ rest'[r] = rest[r]

LEMMA GoOnLetsGo ==
  ASSUME SweepTypeOK, NEW s \in Sweepers, NEW q, GoOn(s, q)
  PROVE  OthersWait(s) /\ ~Holding(s)'
  BY DEF SweepTypeOK, GoOn, OthersWait, Holding, Steps

(* A pass that holds nothing after its step disturbs nothing.              *)
LEMMA LettingGoKeepsInv ==
  ASSUME SweepInv, NEW s \in Sweepers, OthersWait(s), ~Holding(s)', UNCHANGED <<sends, rung>>
  PROVE  SweepInv'
<1>1. SweepTypeOK /\ RungWasClaimed /\ OneHolder /\ NotYetRung
  BY DEF SweepInv
<1>2. sends' = sends /\ rung' = rung
  OBVIOUS
<1>3. \A r \in Sweepers \ {s} :
        at'[r] = at[r] /\ queue'[r] = queue[r] /\ copy'[r] = copy[r] /\ rest'[r] = rest[r]
  BY DEF OthersWait
<1>4. SweepTypeOK'
  BY <1>1, <1>2 DEF SweepTypeOK, OthersWait
<1>5. RungWasClaimed'
  <2>1. \A a \in Accounts, n \in Recruits : Claimed(a, n)' <=> Claimed(a, n)
    BY <1>2 DEF Claimed
  <2> QED BY <1>1, <1>2, <2>1 DEF RungWasClaimed
<1>6. OneHolder'
  BY <1>1, <1>2, <1>3 DEF OneHolder, Holding, About, Subject, Claimed
<1>7. NotYetRung'
  BY <1>1, <1>2, <1>3 DEF NotYetRung, StillToRing, Holding, About, Subject
<1> QED BY <1>4, <1>5, <1>6, <1>7 DEF SweepInv

LEMMA QuietStepsKeepInv ==
  ASSUME SweepInv, NEW s \in Sweepers,
         \/ Begin(s) \/ Fail(s) \/ ReadRecruit(s) \/ Peek(s) \/ Count(s)
         \/ SendThrows(s) \/ Prune(s) \/ Crash(s)
  PROVE  SweepInv'
<1>1. SweepTypeOK
  BY DEF SweepInv
<1>2. CASE Begin(s)
  BY <1>1, <1>2, GoOnLetsGo, LettingGoKeepsInv DEF Begin
<1>3. CASE Fail(s)
  BY <1>1, <1>3, GoOnLetsGo, LettingGoKeepsInv DEF Fail
<1>4. CASE ReadRecruit(s)
  <2>1. CASE recruit[Subject(s)].alive
    <3>1. OthersWait(s) /\ ~Holding(s)'
      BY <1>1, <1>4, <2>1 DEF ReadRecruit, SweepTypeOK, OthersWait, Holding, Steps
    <3> QED BY <1>4, <3>1, LettingGoKeepsInv DEF ReadRecruit
  <2>2. CASE ~recruit[Subject(s)].alive
    BY <1>1, <1>4, <2>2, GoOnLetsGo, LettingGoKeepsInv DEF ReadRecruit
  <2> QED BY <2>1, <2>2
<1>5. CASE Peek(s)
  <2>1. CASE Deaths(copy[s], orders[Subject(s)], Bare) # {}
    <3>1. OthersWait(s) /\ ~Holding(s)'
      BY <1>1, <1>5, <2>1 DEF Peek, SweepTypeOK, OthersWait, Holding, Steps
    <3> QED BY <1>5, <3>1, LettingGoKeepsInv DEF Peek
  <2>2. CASE Deaths(copy[s], orders[Subject(s)], Bare) = {}
    BY <1>1, <1>5, <2>2, GoOnLetsGo, LettingGoKeepsInv DEF Peek
  <2> QED BY <2>1, <2>2
<1>6. CASE Count(s)
  <2>1. CASE Cardinality(Recent(Subject(s))) < Cap
    <3>1. OthersWait(s) /\ ~Holding(s)'
      BY <1>1, <1>6, <2>1 DEF Count, SweepTypeOK, OthersWait, Holding, Steps
    <3> QED BY <1>6, <3>1, LettingGoKeepsInv DEF Count
  <2>2. CASE ~(Cardinality(Recent(Subject(s))) < Cap)
    BY <1>1, <1>6, <2>2, GoOnLetsGo, LettingGoKeepsInv DEF Count
  <2> QED BY <2>1, <2>2
<1>7. CASE SendThrows(s)
  BY <1>1, <1>7, GoOnLetsGo, LettingGoKeepsInv DEF SendThrows
<1>8. CASE Prune(s)
  BY <1>1, <1>8, GoOnLetsGo, LettingGoKeepsInv DEF Prune
<1>9. CASE Crash(s)
  <2>1. OthersWait(s) /\ ~Holding(s)'
    BY <1>1, <1>9 DEF Crash, SweepTypeOK, OthersWait, Holding, Steps
  <2> QED BY <1>9, <2>1, LettingGoKeepsInv DEF Crash
<1> QED BY <1>2, <1>3, <1>4, <1>5, <1>6, <1>7, <1>8, <1>9

-----------------------------------------------------------------------------
(* Claiming, listing, ringing *)

(* Only a death that nobody has claimed gets a new holder.                 *)
LEMMA InsertKeepsInv ==
  ASSUME SweepInv, NEW s \in Sweepers, Insert(s)
  PROVE  SweepInv'
<1>1. SweepTypeOK /\ RungWasClaimed /\ OneHolder /\ NotYetRung
  BY DEF SweepInv
<1>2. CASE Claimed(Subject(s), copy[s].num)
  BY <1>1, <1>2, GoOnLetsGo, LettingGoKeepsInv DEF Insert
<1>3. CASE ~Claimed(Subject(s), copy[s].num)
  <2>1. /\ sends' = sends \cup {[account |-> Subject(s), num |-> copy[s].num, at |-> now]}
        /\ at' = [at EXCEPT ![s] = "listing"]
        /\ queue' = queue /\ copy' = copy /\ rest' = rest /\ stale' = stale /\ rung' = rung
    BY <1>3 DEF Insert
  <2>2. \A a, n : Claimed(a, n)' <=> Claimed(a, n) \/ (a = Subject(s) /\ n = copy[s].num)
    <3> DEFINE row == [account |-> Subject(s), num |-> copy[s].num, at |-> now]
    <3>1. row.account = Subject(s) /\ row.num = copy[s].num
      OBVIOUS
    <3>2. sends' = sends \cup {row}
      BY <2>1
    <3> HIDE DEF row
    <3>3. \A c : c \in sends' <=> c \in sends \/ c = row
      BY <3>2
    <3>4. TAKE a, n
    <3>5. Claimed(a, n)' <=> \E c \in sends' : c.account = a /\ c.num = n
      BY DEF Claimed
    <3> QED BY <3>1, <3>3, <3>5 DEF Claimed
  <2>3. at'[s] = "listing" /\ \A r \in Sweepers \ {s} : at'[r] = at[r]
    BY <1>1, <2>1 DEF SweepTypeOK
  <2>4. SweepTypeOK'
    BY <1>1, <2>1 DEF SweepTypeOK, Steps
  <2>5. RungWasClaimed'
    BY <1>1, <2>1, <2>2 DEF RungWasClaimed
  <2>6. OneHolder'
    <3> SUFFICES ASSUME NEW r \in Sweepers, Holding(r)'
                 PROVE  /\ Claimed(Subject(r), copy[r].num)'
                        /\ \A q \in Sweepers \ {r} : Holding(q)' => ~About(q, Subject(r), copy[r].num)'
      BY DEF OneHolder
    <3>1. \A q \in Sweepers \ {s} : Holding(q)' => Holding(q) /\ Claimed(Subject(q), copy[q].num)
      BY <1>1, <2>3 DEF OneHolder, Holding
    <3>2. \A q \in Sweepers \ {s} : Holding(q)' => ~About(q, Subject(s), copy[s].num)
      BY <1>3, <3>1 DEF About
    <3>3. CASE r = s
      BY <2>1, <2>2, <3>2, <3>3 DEF About, Subject
    <3>4. CASE r # s
      <4>1. Claimed(Subject(r), copy[r].num)'
        BY <2>1, <2>2, <3>1, <3>4 DEF Subject
      <4>2. ASSUME NEW q \in Sweepers \ {r}, Holding(q)'
            PROVE  ~About(q, Subject(r), copy[r].num)'
        <5>1. CASE q = s
          BY <2>1, <3>2, <3>4, <5>1 DEF About, Subject
        <5>2. CASE q # s
          BY <1>1, <2>1, <3>1, <3>4, <4>2, <5>2 DEF About, Subject, OneHolder
        <5> QED BY <5>1, <5>2
      <4> QED BY <4>1, <4>2
    <3> QED BY <3>3, <3>4
  <2>7. NotYetRung'
    <3> SUFFICES ASSUME NEW r \in Sweepers, NEW t \in Tokens, NEW a \in Accounts, NEW n \in Recruits,
                        About(r, a, n)', StillToRing(r, t)'
                 PROVE  rung'[<<t, a, n>>] = 0
      BY DEF NotYetRung
    <3>1. CASE r = s
      <4>1. ~Claimed(a, n)
        BY <1>3, <2>1, <3>1 DEF About, Subject
      <4>2. rung[<<t, a, n>>] \in 0..2 /\ rung[<<t, a, n>>] <= 1 /\ rung[<<t, a, n>>] # 1
        BY <1>1, <4>1 DEF RungWasClaimed, SweepTypeOK
      <4> QED BY <2>1, <4>2
    <3>2. CASE r # s
      BY <1>1, <2>1, <2>3, <3>2 DEF NotYetRung, About, StillToRing, Subject
    <3> QED BY <3>1, <3>2
  <2> QED BY <2>4, <2>5, <2>6, <2>7 DEF SweepInv
<1> QED BY <1>2, <1>3

LEMMA ListTokensKeepsInv ==
  ASSUME SweepInv, NEW s \in Sweepers, ListTokens(s)
  PROVE  SweepInv'
<1>1. SweepTypeOK /\ RungWasClaimed /\ OneHolder /\ NotYetRung
  BY DEF SweepInv
<1>2. CASE Held(Subject(s)) = {}
  BY <1>1, <1>2, GoOnLetsGo, LettingGoKeepsInv DEF ListTokens
<1>3. CASE Held(Subject(s)) # {}
  <2>1. /\ rest' = [rest EXCEPT ![s] = Held(Subject(s))]
        /\ at' = [at EXCEPT ![s] = "sending"] /\ at[s] = "listing"
        /\ queue' = queue /\ copy' = copy /\ stale' = stale /\ rung' = rung /\ sends' = sends
    BY <1>3 DEF ListTokens
  <2>2. at'[s] = "sending" /\ \A r \in Sweepers \ {s} : at'[r] = at[r] /\ rest'[r] = rest[r]
    BY <1>1, <2>1 DEF SweepTypeOK
  <2>3. \A r \in Sweepers : Holding(r)' <=> Holding(r)
    BY <2>1, <2>2 DEF Holding
  <2>4. SweepTypeOK'
    BY <1>1, <2>1 DEF SweepTypeOK, Steps
  <2>5. RungWasClaimed'
    <3>1. \A a \in Accounts, n \in Recruits : Claimed(a, n)' <=> Claimed(a, n)
      BY <2>1 DEF Claimed
    <3> QED BY <1>1, <2>1, <3>1 DEF RungWasClaimed
  <2>6. OneHolder'
    BY <1>1, <2>1, <2>3 DEF OneHolder, About, Subject, Claimed
  <2>7. NotYetRung'
    BY <1>1, <2>1, <2>2 DEF NotYetRung, About, StillToRing, Subject
  <2> QED BY <2>4, <2>5, <2>6, <2>7 DEF SweepInv
<1> QED BY <1>2, <1>3

(* The one step that rings: a token its holder had yet to ring.            *)
LEMMA SendOneKeepsInv ==
  ASSUME SweepInv, NEW s \in Sweepers, NEW t \in Tokens, NEW answer, SendOne(s, t, answer)
  PROVE  SweepInv'
<1> DEFINE x == <<t, Subject(s), copy[s].num>>
<1>1. SweepTypeOK /\ RungWasClaimed /\ OneHolder /\ NotYetRung
  BY DEF SweepInv
<1>2. at[s] = "sending" /\ t \in rest[s] /\ sends' = sends
  BY DEF SendOne
<1>3. rung' = IF answer = "ok" THEN [rung EXCEPT ![x] = IF @ < 2 THEN @ + 1 ELSE 2] ELSE rung
  BY DEF SendOne
<1>4. OthersWait(s) /\ (Holding(s)' => /\ queue' = queue /\ copy' = copy
                                       /\ StillToRing(s, t)' = FALSE
                                       /\ \A u \in Tokens : StillToRing(s, u)' => StillToRing(s, u))
  <2> DEFINE left == rest[s] \ {t}
             bad == stale[s] \cup (IF Condemned(t, answer) THEN {t} ELSE {})
  <2>1. CASE left = {} /\ bad = {}
    <3>1. GoOn(s, Tail(queue[s]))
      BY <2>1 DEF SendOne
    <3> QED BY <1>1, <3>1, GoOnLetsGo
  <2>2. CASE ~(left = {} /\ bad = {})
    <3>1. /\ rest' = [rest EXCEPT ![s] = left] /\ stale' = [stale EXCEPT ![s] = bad]
          /\ at' = [at EXCEPT ![s] = IF left = {} THEN "pruning" ELSE "sending"]
          /\ queue' = queue /\ copy' = copy
      BY <2>2 DEF SendOne
    <3>2. OthersWait(s)
      BY <1>1, <3>1 DEF SweepTypeOK, OthersWait, Steps
    <3>3. rest'[s] = left /\ at'[s] \in {"pruning", "sending"}
      BY <1>1, <3>1 DEF SweepTypeOK
    <3>4. ~StillToRing(s, t)' /\ \A u \in Tokens : StillToRing(s, u)' => StillToRing(s, u)
      BY <1>2, <3>3 DEF StillToRing
    <3> QED BY <3>1, <3>2, <3>4
  <2> QED BY <2>1, <2>2
<1>5. \A r \in Sweepers \ {s} :
        /\ at'[r] = at[r] /\ queue'[r] = queue[r] /\ copy'[r] = copy[r] /\ rest'[r] = rest[r]
        /\ Holding(r)' <=> Holding(r)
        /\ \A a, n : About(r, a, n)' <=> About(r, a, n)
        /\ \A u \in Tokens : StillToRing(r, u)' <=> StillToRing(r, u)
  BY <1>4 DEF OthersWait, Holding, About, StillToRing, Subject
<1>6. Holding(s)
  BY <1>2 DEF Holding
<1>7. \A a, n : Claimed(a, n)' <=> Claimed(a, n)
  BY <1>2 DEF Claimed
<1>8. SweepTypeOK'
  <2>1. rung' \in [Tokens \X Accounts \X Recruits -> 0..2]
    <3> DEFINE D == Tokens \X Accounts \X Recruits
    <3> HIDE DEF D, x
    <3>1. rung \in [D -> 0..2]
      BY <1>1 DEF SweepTypeOK, D
    <3>2. CASE answer = "ok" /\ x \in D
      <4>1. rung[x] \in 0..2
        BY <3>1, <3>2
      <4>2. (IF rung[x] < 2 THEN rung[x] + 1 ELSE 2) \in 0..2
        BY <4>1
      <4>3. rung' = [rung EXCEPT ![x] = IF rung[x] < 2 THEN rung[x] + 1 ELSE 2]
        BY <1>3, <3>2
      <4> QED BY <3>1, <4>2, <4>3 DEF D
    <3>3. CASE ~(answer = "ok" /\ x \in D)
      <4>1. rung' = rung
        BY <1>3, <3>1, <3>3
      <4> QED BY <3>1, <4>1 DEF D
    <3> QED BY <3>2, <3>3
  <2> QED BY <1>4, <2>1 DEF SweepTypeOK, OthersWait
<1>9. ASSUME NEW u \in Tokens, NEW a \in Accounts, NEW n \in Recruits, rung'[<<u, a, n>>] # rung[<<u, a, n>>]
      PROVE  u = t /\ About(s, a, n) /\ rung[<<u, a, n>>] = 0 /\ rung'[<<u, a, n>>] = 1
  <2>1. <<u, a, n>> = x
    BY <1>1, <1>3, <1>9 DEF SweepTypeOK
  <2>2. u = t /\ About(s, a, n)
    BY <2>1 DEF About
  <2>3. rung[<<u, a, n>>] = 0
    BY <1>1, <1>2, <2>2 DEF NotYetRung, StillToRing
  <2>4. rung'[<<u, a, n>>] = 1
    BY <1>1, <1>3, <1>9, <2>1, <2>3 DEF SweepTypeOK
  <2> QED BY <2>2, <2>3, <2>4
<1>10. RungWasClaimed'
  <2> SUFFICES ASSUME NEW u \in Tokens, NEW a \in Accounts, NEW n \in Recruits
               PROVE  rung'[<<u, a, n>>] <= 1 /\ (rung'[<<u, a, n>>] = 1 => Claimed(a, n)')
    BY DEF RungWasClaimed
  <2>1. CASE rung'[<<u, a, n>>] = rung[<<u, a, n>>]
    BY <1>1, <1>7, <2>1 DEF RungWasClaimed
  <2>2. CASE rung'[<<u, a, n>>] # rung[<<u, a, n>>]
    BY <1>1, <1>6, <1>7, <1>9, <2>2 DEF OneHolder, About
  <2> QED BY <2>1, <2>2
<1>11. OneHolder'
  <2>1. CASE Holding(s)'
    <3>1. queue' = queue /\ copy' = copy
      BY <1>4, <2>1
    <3>2. \A r \in Sweepers : Holding(r)' <=> Holding(r)
      BY <1>5, <1>6, <2>1
    <3> QED BY <1>1, <1>7, <3>1, <3>2 DEF OneHolder, About, Subject
  <2>2. CASE ~Holding(s)'
    BY <1>1, <1>5, <1>7, <2>2 DEF OneHolder, About, Subject
  <2> QED BY <2>1, <2>2
<1>12. NotYetRung'
  <2> SUFFICES ASSUME NEW r \in Sweepers, NEW u \in Tokens, NEW a \in Accounts, NEW n \in Recruits,
                      About(r, a, n)', StillToRing(r, u)'
               PROVE  rung'[<<u, a, n>>] = 0
    BY DEF NotYetRung
  <2>1. Holding(r)'
    BY DEF StillToRing, Holding
  <2>2. CASE r = s
    <3>1. About(s, a, n) /\ StillToRing(s, u) /\ u # t
      BY <1>4, <2>1, <2>2 DEF About, Subject
    <3> QED BY <1>1, <1>9, <3>1 DEF NotYetRung
  <2>3. CASE r # s
    <3>1. About(r, a, n) /\ StillToRing(r, u) /\ Holding(r)
      BY <1>5, <2>1, <2>3
    <3>2. ~About(s, a, n)
      BY <1>1, <1>6, <2>3, <3>1 DEF OneHolder, About
    <3> QED BY <1>1, <1>9, <3>1, <3>2 DEF NotYetRung
  <2> QED BY <2>2, <2>3
<1> QED BY <1>8, <1>10, <1>11, <1>12 DEF SweepInv

LEMMA NextSweepInv == SweepInv /\ [Next]_vars => SweepInv'
<1> SUFFICES ASSUME SweepInv, [Next]_vars PROVE SweepInv'
  OBVIOUS
<1>1. CASE UNCHANGED <<sweeps, sends, rung>>
  <2>1. /\ at' = at /\ queue' = queue /\ copy' = copy /\ rest' = rest /\ stale' = stale
        /\ sends' = sends /\ rung' = rung
    BY <1>1 DEF sweeps
  <2> QED BY <2>1 DEF SweepInv, SweepTypeOK, RungWasClaimed, OneHolder, NotYetRung,
                      Holding, About, StillToRing, Subject, Claimed
<1>2. ASSUME NEW s \in Sweepers, Pass(s) \/ Crash(s) PROVE SweepInv'
  BY <1>2, QuietStepsKeepInv, InsertKeepsInv, ListTokensKeepsInv, SendOneKeepsInv DEF Pass
<1>3. ASSUME Clock \/ (\E a \in Accounts :
               \/ Read(a) \/ Succeed(a)
               \/ \E o \in Orders, f \in Files : Act(a, o, f)
               \/ \E t \in Tokens : Register(a, t))
             \/ \E t \in Tokens : Unregister(t) \/ Uninstall(t)
      PROVE  UNCHANGED <<sweeps, sends, rung>>
  BY <1>3 DEF Clock, Read, Succeed, Act, Register, Unregister, Uninstall
<1>4. CASE UNCHANGED vars
  BY <1>1, <1>4 DEF vars
<1> QED BY <1>1, <1>2, <1>3, <1>4 DEF Next

-----------------------------------------------------------------------------
(* Theorems *)

(* No device is rung twice for one death (sweep.ts:116), however many      *)
(* passes overlap, die or are repeated, and wherever its token moves.      *)
THEOREM OneRing == Spec => []RungOnce
<1>1. Init => SweepInv
  BY InitSweepInv
<1>2. SweepInv /\ [Next]_vars => SweepInv'
  BY NextSweepInv
<1>3. SweepInv => RungOnce
  <2> SUFFICES ASSUME SweepInv, NEW x \in DOMAIN rung PROVE rung[x] <= 1
    BY DEF RungOnce
  <2>1. x \in Tokens \X Accounts \X Recruits
    BY DEF SweepInv, SweepTypeOK
  <2>2. PICK t \in Tokens, a \in Accounts, n \in Recruits : x = <<t, a, n>>
    BY <2>1
  <2> QED BY <2>2 DEF SweepInv, RungWasClaimed
<1> QED BY <1>1, <1>2, <1>3, PTL DEF Spec
=============================================================================
