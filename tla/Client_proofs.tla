---------------------------- MODULE Client_proofs ----------------------------
(***************************************************************************)
(* Theorems about Client, for any form, window and page, any orders on     *)
(* file and any number of losses and new signing keys.                     *)
(*                                                                         *)
(* Callers share one token and one sign-in.  A call that has been sent     *)
(* outlives the sign-in it waited for, so whatever sign-in is under way    *)
(* began after it was made and brings a token at least as new (NotBehind): *)
(* that is why a second refusal means a key that changed meanwhile.  One   *)
(* refresh is out at a time, and what it brings is no older than what the  *)
(* screen shows while it is under way (InStep).                            *)
(***************************************************************************)
EXTENDS Client, TLAPS

-----------------------------------------------------------------------------
(* The invariant *)

Ops == {"orders", "retire", "advance", "sell", "file", "state", "ledger", "journal"}

FileFields == {"ver", "orders", "recruit", "journal", "key"}

FileOK(f) ==
  /\ f = [x \in FileFields |-> f[x]]
  /\ f.ver \in Nat /\ f.key \in Nat

(* A sign-in under way brings no token older than the call.                *)
NotBehind(k, auth) == auth.phase = "answered" => auth.token >= k.since

(* What every call knows: a token, and when it was made.                   *)
Made(k, key) ==
  /\ k.req.op \in Ops
  /\ k.again \in BOOLEAN
  /\ k.since \in Nat /\ k.since <= key
  /\ k.token \in Int /\ k.token <= key

WaitingOK(k, auth) ==
  /\ k = Call(k.req, "auth", k.token, k.again, k.since)
  /\ k.again => NotBehind(k, auth)

SentOK(k, auth) ==
  /\ k = Call(k.req, "sent", k.token, k.again, k.since)
  /\ NotBehind(k, auth)
  /\ k.again => k.token >= k.since

AnsweredOK(k, auth, key) ==
  /\ k = Answered(k, k.ans)
  /\ k.ans = Unauthorised => NotBehind(k, auth) /\ (k.again => key > k.since)

CallOK(k, auth, key) ==
  \/ k = Quiet
  \/ Made(k, key) /\ (WaitingOK(k, auth) \/ SentOK(k, auth) \/ AnsweredOK(k, auth, key))

AuthOK(auth, key) ==
  \/ auth = SignedOut
  \/ auth = [phase |-> "sent"]
  \/ auth = [phase |-> "answered", token |-> auth.token] /\ auth.token \in Nat /\ auth.token <= key

NetOK(n, key) ==
  /\ n = [token |-> n.token, auth |-> n.auth, call |-> n.call]
  /\ n.call = [c \in Callers |-> n.call[c]]
  /\ n.token \in Int /\ n.token <= key
  /\ AuthOK(n.auth, key)
  /\ n.auth # SignedOut => n.token = NoToken
  /\ \A c \in Callers : CallOK(n.call[c], n.auth, key)

AppFields == {"screen", "link", "inFlight", "awaited", "busy", "draft", "script", "older", "more", "paging", "promised"}

AppShape(a) ==
  /\ a = [x \in AppFields |-> a[x]]
  /\ a.inFlight \in BOOLEAN
  /\ a.script \in {<<>>, <<[op |-> "sell"]>>}

(* The refresh that is out, and what it has brought.                       *)
InStep(k, screen, f) ==
  /\ k # Quiet => k.req.op = "state"
  /\ k.phase = "answered" /\ ~Fault(k.ans) =>
       k.ans.ver \in Nat /\ screen.ver <= k.ans.ver /\ k.ans.ver <= f.ver

AppOK(n, a, f) ==
  /\ AppShape(a)
  /\ a.screen.ver \in Nat /\ a.screen.ver <= f.ver
  /\ a.inFlight <=> n.call["refresh"] # Quiet
  /\ n.call["second"] = Quiet
  /\ InStep(n.call["refresh"], a.screen, f)

ClientInv == FileOK(file) /\ NetOK(net, file.key) /\ AppOK(net, app, file)

-----------------------------------------------------------------------------
(* Calls *)

LEMMA Sharing == Callers = {"refresh", "second", "form", "another", "bar", "pager"}
BY DEF Callers, Refreshes, Forms, Writers

Put(n, c, k) == [n EXCEPT !.call[c] = k]

LEMMA PutIs ==
  ASSUME NEW n, NEW key, NetOK(n, key), NEW c \in Callers, NEW k
  PROVE  /\ Put(n, c, k) = [token |-> n.token, auth |-> n.auth, call |-> Put(n, c, k).call]
         /\ Put(n, c, k).call = [d \in Callers |-> IF d = c THEN k ELSE n.call[d]]
BY DEF Put, NetOK

LEMMA CallsDiffer ==
  ASSUME NEW q, NEW t, NEW again, NEW since, NEW ans, NEW k
  PROVE  /\ Call(q, "auth", t, again, since) # Quiet
         /\ Call(q, "sent", t, again, since) # Quiet
         /\ Answered(k, ans) # Quiet
         /\ Call(q, "auth", t, again, since).phase = "auth"
         /\ Call(q, "sent", t, again, since).phase = "sent"
         /\ Answered(k, ans).phase = "answered"
BY DEF Call, Answered, Quiet

LEMMA PutKeeps ==
  ASSUME NEW n, NEW key \in Nat, NetOK(n, key), NEW c \in Callers, NEW k, CallOK(k, n.auth, key)
  PROVE  NetOK(Put(n, c, k), key)
<1> DEFINE m == Put(n, c, k)
<1>1. m = [token |-> n.token, auth |-> n.auth, call |-> m.call]
  BY PutIs
<1>2. m.call = [d \in Callers |-> IF d = c THEN k ELSE n.call[d]]
  BY PutIs
<1> HIDE DEF m
<1>3. m.token = n.token /\ m.auth = n.auth
  BY <1>1
<1>4. \A d \in Callers : CallOK(m.call[d], m.auth, key)
  BY <1>2, <1>3 DEF NetOK
<1>5. NetOK(m, key)
  BY <1>1, <1>2, <1>3, <1>4 DEF NetOK
<1> QED BY <1>5 DEF m

Turned(n, t, u) == [n EXCEPT !.token = t, !.auth = u]

LEMMA TurnedIs ==
  ASSUME NEW n, n = [token |-> n.token, auth |-> n.auth, call |-> n.call], NEW t, NEW u
  PROVE  Turned(n, t, u) = [token |-> t, auth |-> u, call |-> n.call]
<1> DEFINE m == [n EXCEPT !.token = t]
<1>1. m = [token |-> t, auth |-> n.auth, call |-> n.call]
  OBVIOUS
<1>2. Turned(n, t, u) = [m EXCEPT !.auth = u]
  BY DEF Turned
<1>3. m.token = t /\ m.call = n.call
  BY <1>1
<1> HIDE DEF m
<1>4. [m EXCEPT !.auth = u] = [token |-> t, auth |-> u, call |-> n.call]
  BY <1>1, <1>3
<1> QED BY <1>2, <1>4

(* A sign-in that starts brings nobody an old token.                       *)
LEMMA SignInStarts ==
  ASSUME NEW auth, NEW key \in Nat, AuthOK(auth, key), NEW k, CallOK(k, auth, key)
  PROVE  AuthOK(SignIn(auth), key) /\ CallOK(k, SignIn(auth), key) /\ SignIn(auth) # SignedOut
<1>1. CASE auth = SignedOut
  <2>1. SignIn(auth) = [phase |-> "sent"]
    BY <1>1 DEF SignIn, SignedOut
  <2> QED BY <2>1 DEF AuthOK, SignedOut, CallOK, WaitingOK, SentOK, AnsweredOK, NotBehind
<1>2. CASE auth # SignedOut
  <2>1. auth.phase # "idle"
    BY <1>2 DEF AuthOK
  <2>2. SignIn(auth) = auth
    BY <2>1 DEF SignIn
  <2> QED BY <1>2, <2>2
<1> QED BY <1>1, <1>2

(* Request sends the call with the token there is, or joins the sign-in.   *)
LEMMA RequestKeeps ==
  ASSUME FileOK(file), NEW n, NetOK(n, file.key), NEW c \in Callers, NEW q, q.op \in Ops
  PROVE  /\ NetOK(Request(n, c, q), file.key)
         /\ \A d \in Callers \ {c} : Request(n, c, q).call[d] = n.call[d]
         /\ Request(n, c, q).call[c] # Quiet
         /\ Request(n, c, q).call[c].req = q
         /\ Request(n, c, q).call[c].phase \in {"auth", "sent"}
<1> DEFINE key == file.key
<1>1. key \in Nat
  BY DEF FileOK
<1>2. CASE n.token = NoToken
  <2> DEFINE k == Call(q, "auth", NoToken, FALSE, key)
             m == [n EXCEPT !.auth = SignIn(n.auth)]
  <2>1. Made(k, key) /\ WaitingOK(k, SignIn(n.auth))
    BY <1>1 DEF Made, WaitingOK, Call, NoToken
  <2>2. NetOK(m, key)
    <3>1. /\ m = [token |-> n.token, auth |-> SignIn(n.auth), call |-> n.call]
          /\ AuthOK(n.auth, key)
      BY DEF NetOK
    <3>2. /\ \A d \in Callers : CallOK(n.call[d], SignIn(n.auth), key)
          /\ AuthOK(SignIn(n.auth), key)
      BY <1>1, SignInStarts DEF NetOK
    <3> HIDE DEF m
    <3> QED BY <1>2, <3>1, <3>2 DEF NetOK
  <2>3. m.auth = SignIn(n.auth) /\ m.call = n.call
    BY DEF NetOK
  <2>4. Request(n, c, q) = Put(m, c, k)
    BY <1>2 DEF Request, Put, NetOK
  <2> HIDE DEF k, m
  <2>5. CallOK(k, m.auth, key)
    BY <2>1, <2>3 DEF CallOK
  <2>6. NetOK(Put(m, c, k), key)
    BY <1>1, <2>2, <2>5, PutKeeps
  <2>7. Put(m, c, k).call = [d \in Callers |-> IF d = c THEN k ELSE m.call[d]]
    BY <2>2, PutIs
  <2>8. k # Quiet /\ k.req = q /\ k.phase = "auth"
    BY DEF k, Call, Quiet
  <2> QED BY <2>3, <2>4, <2>6, <2>7, <2>8
<1>3. CASE n.token # NoToken
  <2> DEFINE k == Call(q, "sent", n.token, FALSE, key)
  <2>1. n.auth = SignedOut /\ n.token \in Int /\ n.token <= key
    BY <1>3 DEF NetOK
  <2>2. Made(k, key) /\ SentOK(k, n.auth)
    BY <1>1, <2>1 DEF Made, SentOK, Call, NotBehind, SignedOut
  <2>3. Request(n, c, q) = Put(n, c, k)
    BY <1>3 DEF Request, Put
  <2>4. k # Quiet /\ k.req = q /\ k.phase = "sent"
    BY DEF k, Call, Quiet
  <2> HIDE DEF k
  <2>5. NetOK(Put(n, c, k), key)
    BY <1>1, <2>2, PutKeeps DEF CallOK
  <2>6. Put(n, c, k).call = [d \in Callers |-> IF d = c THEN k ELSE n.call[d]]
    BY PutIs
  <2> QED BY <2>3, <2>4, <2>5, <2>6
<1> QED BY <1>2, <1>3

(* A call that has ended.                                                  *)
LEMMA EndedKeeps ==
  ASSUME NEW n, NEW key \in Nat, NetOK(n, key), NEW c \in Callers
  PROVE  /\ NetOK(Put(n, c, Quiet), key)
         /\ \A d \in Callers \ {c} : Put(n, c, Quiet).call[d] = n.call[d]
         /\ Put(n, c, Quiet).call[c] = Quiet
<1>1. CallOK(Quiet, n.auth, key)
  BY DEF CallOK
<1>2. NetOK(Put(n, c, Quiet), key)
  BY <1>1, PutKeeps
<1>3. Put(n, c, Quiet).call = [d \in Callers |-> IF d = c THEN Quiet ELSE n.call[d]]
  BY PutIs
<1> QED BY <1>2, <1>3

-----------------------------------------------------------------------------
(* The provider *)

(* What a change of the app that leaves the screen and the refresh alone   *)
(* preserves.                                                              *)
LEMMA AppChanges ==
  ASSUME NEW n, NEW m, NEW f, NEW a, NEW b, AppOK(n, a, f), AppShape(b),
         b.screen = a.screen, b.inFlight = a.inFlight,
         m.call["refresh"] = n.call["refresh"], m.call["second"] = n.call["second"]
  PROVE  AppOK(m, b, f)
BY DEF AppOK

LEMMA RefreshKeeps ==
  ASSUME FileOK(file), NEW n, NetOK(n, file.key), NEW a, AppOK(n, a, file), NEW bar \in BOOLEAN
  PROVE  /\ NetOK(Refresh(n, a, bar).net, file.key)
         /\ AppOK(Refresh(n, a, bar).net, Refresh(n, a, bar).app, file)
         /\ Refresh(n, a, bar).app.screen = a.screen
<1>1. CASE a.inFlight
  <2> DEFINE b == [a EXCEPT !.busy = @ /\ ~bar]
  <2>1. Refresh(n, a, bar) = [net |-> n, app |-> b]
    BY <1>1 DEF Refresh
  <2>2. AppShape(b) /\ b.screen = a.screen /\ b.inFlight = a.inFlight
    BY DEF AppOK, AppShape, AppFields
  <2> HIDE DEF b
  <2>3. AppOK(n, b, file)
    BY <2>2, AppChanges
  <2> QED BY <2>1, <2>2, <2>3
<1>2. CASE ~a.inFlight
  <2> DEFINE b == [a EXCEPT !.inFlight = TRUE, !.awaited = bar]
             m == Request(n, "refresh", [op |-> "state"])
  <2>1. n.call["refresh"] = Quiet /\ n.call["second"] = Quiet
    BY <1>2 DEF AppOK
  <2>2. Slot(n) = "refresh"
    BY <2>1 DEF Slot, Refreshes
  <2>3. Refresh(n, a, bar) = [net |-> m, app |-> b]
    BY <1>2, <2>2 DEF Refresh
  <2>4. AppShape(b) /\ b.screen = a.screen /\ b.inFlight = TRUE
    BY DEF AppOK, AppShape, AppFields
  <2>5. /\ NetOK(m, file.key)
        /\ \A d \in Callers \ {"refresh"} : m.call[d] = n.call[d]
        /\ m.call["refresh"] # Quiet /\ m.call["refresh"].req = [op |-> "state"]
        /\ m.call["refresh"].phase # "answered"
    <3>1. "refresh" \in Callers /\ [op |-> "state"].op \in Ops
      BY Sharing DEF Ops
    <3> HIDE DEF m
    <3> QED BY <3>1, RequestKeeps DEF m
  <2>6. m.call["second"] = Quiet
    BY <2>1, <2>5, Sharing
  <2> HIDE DEF b, m
  <2>7. AppOK(m, b, file)
    BY <2>4, <2>5, <2>6 DEF AppOK, InStep
  <2> QED BY <2>3, <2>4, <2>5, <2>7
<1> QED BY <1>1, <1>2 DEF AppOK, AppShape

(* What a caller other than the refreshes does leaves the refresh alone.   *)
LEMMA OthersRequest ==
  ASSUME FileOK(file), NEW n, NetOK(n, file.key), NEW a, NEW b, AppOK(n, a, file), AppShape(b),
         b.screen = a.screen, b.inFlight = a.inFlight,
         NEW c \in Callers \ Refreshes, NEW q, q.op \in Ops
  PROVE  NetOK(Request(n, c, q), file.key) /\ AppOK(Request(n, c, q), b, file)
<1> DEFINE m == Request(n, c, q)
<1>1. NetOK(m, file.key) /\ \A d \in Callers \ {c} : m.call[d] = n.call[d]
  BY RequestKeeps
<1>2. m.call["refresh"] = n.call["refresh"] /\ m.call["second"] = n.call["second"]
  BY <1>1, Sharing DEF Refreshes
<1> HIDE DEF m
<1>3. AppOK(m, b, file)
  BY <1>2, AppChanges
<1> QED BY <1>1, <1>3 DEF m

(* A command's requests, each of which the server knows; after the first   *)
(* of a sale its second is left.                                           *)
LEMMA Scripts ==
  ASSUME NEW cmd \in Commands
  PROVE  /\ Head(Script(cmd)).op \in Ops
         /\ Tail(Script(cmd)) \in {<<>>, <<[op |-> "sell"]>>}
<1>1. cmd.name \in {"amend", "sell", "retire", "advance"}
  BY DEF Commands
<1>2. CASE cmd.name = "amend"
  <2> DEFINE q == [op |-> "orders", orders |-> [app.screen.orders EXCEPT ![cmd.field] = cmd.value],
                   field |-> cmd.field]
  <2>1. Script(cmd) = <<q>>
    BY <1>2 DEF Script
  <2>2. q.op = "orders"
    OBVIOUS
  <2> HIDE DEF q
  <2> QED BY <2>1, <2>2 DEF Ops
<1>3. CASE cmd.name = "sell"
  BY <1>3 DEF Script, Ops
<1>4. CASE cmd.name = "retire"
  BY <1>4 DEF Script, Ops
<1>5. CASE cmd.name = "advance"
  BY <1>5 DEF Script, Ops
<1> QED BY <1>1, <1>2, <1>3, <1>4, <1>5

-----------------------------------------------------------------------------
(* The actions *)

LEMMA InitClientInv == ClientInit => ClientInv
<1> SUFFICES ASSUME ClientInit PROVE ClientInv
  OBVIOUS
<1>1. FileOK(file) /\ file.key = 0 /\ file.ver = 0
  BY DEF ClientInit, FileOK, FileFields
<1>2. /\ net.token \in {NoToken, 0} /\ net.auth = SignedOut /\ net.call = [c \in Callers |-> Quiet]
      /\ net = [token |-> net.token, auth |-> net.auth, call |-> net.call]
  BY DEF ClientInit
<1>3. \A c \in Callers : net.call[c] = Quiet
  BY <1>2
<1>4. NetOK(net, file.key)
  BY <1>1, <1>2, <1>3 DEF NetOK, AuthOK, CallOK, NoToken
<1>5. AppShape(app) /\ app.screen.ver = 0 /\ app.inFlight = FALSE
  BY DEF ClientInit, AppShape, AppFields, NoScreen
<1>6. net.call["refresh"] = Quiet /\ net.call["second"] = Quiet
  BY <1>3, Sharing
<1>7. AppOK(net, app, file)
  BY <1>1, <1>5, <1>6 DEF AppOK, InStep, Quiet
<1> QED BY <1>1, <1>4, <1>7 DEF ClientInv

(* A write raises the number of changes, a new key its own.                *)
LEMMA FileWritten ==
  ASSUME NEW f, FileOK(f), NEW g, g = [x \in FileFields |-> g[x]],
         \/ g.ver = f.ver + 1 /\ g.key = f.key
         \/ g.ver = f.ver /\ g.key = f.key + 1
  PROVE  FileOK(g) /\ f.ver <= g.ver /\ f.key <= g.key
BY DEF FileOK

(* The file only moves on: the invariant knows nothing else of it.         *)
LEMMA FileMovesOn ==
  ASSUME NEW f, NEW g, NEW n, NEW a, FileOK(f), FileOK(g), f.ver <= g.ver, f.key <= g.key,
         NetOK(n, f.key), AppOK(n, a, f)
  PROVE  NetOK(n, g.key) /\ AppOK(n, a, g)
<1>1. f.ver \in Nat /\ g.ver \in Nat /\ f.key \in Nat /\ g.key \in Nat
  BY DEF FileOK
<1>2. AuthOK(n.auth, g.key)
  BY <1>1 DEF NetOK, AuthOK
<1>3. ASSUME NEW c \in Callers PROVE CallOK(n.call[c], n.auth, g.key)
  <2>1. CallOK(n.call[c], n.auth, f.key)
    BY DEF NetOK
  <2>2. Made(n.call[c], f.key) => Made(n.call[c], g.key)
    BY <1>1 DEF Made
  <2>3. Made(n.call[c], f.key) /\ AnsweredOK(n.call[c], n.auth, f.key) => AnsweredOK(n.call[c], n.auth, g.key)
    BY <1>1 DEF Made, AnsweredOK
  <2> QED BY <2>1, <2>2, <2>3 DEF CallOK
<1>4. NetOK(n, g.key)
  BY <1>1, <1>2, <1>3 DEF NetOK
<1>5. AppOK(n, a, g)
  BY <1>1 DEF AppOK, InStep
<1> QED BY <1>4, <1>5

LEMMA WorldKeeps ==
  ASSUME ClientInv, Tick \/ TurnKey
  PROVE  ClientInv' /\ app' = app
<1>1. FileOK(file) /\ NetOK(net, file.key) /\ AppOK(net, app, file)
  BY DEF ClientInv
<1>2. FileOK(file') /\ file.ver <= file'.ver /\ file.key <= file'.key /\ net' = net /\ app' = app
  <2>1. net' = net /\ app' = app
    BY DEF Tick, TurnKey
  <2>2. CASE Tick
    <3>1. file' = [x \in FileFields |-> file'[x]] /\ file'.ver = file.ver + 1 /\ file'.key = file.key
      BY <1>1, <2>2 DEF Tick, Noted, FileOK, FileFields
    <3> QED BY <1>1, <2>1, <3>1, FileWritten
  <2>3. CASE TurnKey
    <3>1. file' = [x \in FileFields |-> file'[x]] /\ file'.ver = file.ver /\ file'.key = file.key + 1
      BY <1>1, <2>3 DEF TurnKey, FileOK, FileFields
    <3> QED BY <1>1, <2>1, <3>1, FileWritten
  <2> QED BY <2>2, <2>3
<1>3. NetOK(net, file'.key) /\ AppOK(net, app, file')
  BY <1>1, <1>2, FileMovesOn
<1> QED BY <1>2, <1>3 DEF ClientInv

LEMMA OfficerKeeps ==
  ASSUME ClientInv,
         Poll \/ FileForm \/ Contest \/ Sync \/ LoadEarlier \/ NoMatch
           \/ (\E f \in Fields, v \in Values : Edit(f, v)) \/ \E cmd \in Commands : Submit(cmd)
  PROVE  ClientInv' /\ app'.screen = app.screen
<1>1. FileOK(file) /\ NetOK(net, file.key) /\ AppOK(net, app, file) /\ AppShape(app)
  BY DEF ClientInv, AppOK
<1>2. file' = file
  BY DEF Poll, FileForm, Contest, Sync, LoadEarlier, NoMatch, Edit, Submit, Post
<1> SUFFICES NetOK(net', file.key) /\ AppOK(net', app', file) /\ app'.screen = app.screen
  BY <1>1, <1>2 DEF ClientInv
<1>3. CASE Poll
  BY <1>1, <1>3, RefreshKeeps DEF Poll
<1>4. CASE Sync
  <2> DEFINE b == [app EXCEPT !.busy = TRUE]
  <2>1. AppShape(b) /\ b.screen = app.screen /\ b.inFlight = app.inFlight
    BY <1>1 DEF AppShape, AppFields
  <2>2. net' = Refresh(net, b, TRUE).net /\ app' = Refresh(net, b, TRUE).app
    BY <1>4 DEF Sync
  <2> HIDE DEF b
  <2>3. AppOK(net, b, file)
    BY <1>1, <2>1, AppChanges
  <2> QED BY <1>1, <2>1, <2>2, <2>3, RefreshKeeps
<1>5. CASE (\E f \in Fields, v \in Values : Edit(f, v)) \/ NoMatch
  <2>1. AppShape(app') /\ app'.screen = app.screen /\ app'.inFlight = app.inFlight
    BY <1>1, <1>5 DEF AppShape, AppFields, Edit, NoMatch, Freed
  <2>2. CASE net' = net
    BY <1>1, <2>1, <2>2, AppChanges
  <2>3. CASE net' = Put(net, "bar", Quiet)
    <3>1. "bar" \in Callers /\ file.key \in Nat
      BY <1>1, Sharing DEF FileOK
    <3>2. NetOK(net', file.key) /\ \A d \in Callers \ {"bar"} : net'.call[d] = net.call[d]
      BY <1>1, <2>3, <3>1, EndedKeeps
    <3>3. net'.call["refresh"] = net.call["refresh"] /\ net'.call["second"] = net.call["second"]
      BY <3>2, Sharing
    <3>4. AppOK(net', app', file)
      BY <1>1, <2>1, <3>3, AppChanges
    <3> QED BY <2>1, <3>2, <3>4
  <2> QED BY <1>5, <2>2, <2>3 DEF Edit, NoMatch, Put
<1>6. ASSUME NEW c \in Callers \ Refreshes, NEW q, q.op \in Ops, net' = Request(net, c, q),
             AppShape(app'), app'.screen = app.screen, app'.inFlight = app.inFlight
      PROVE  NetOK(net', file.key) /\ AppOK(net', app', file)
  BY <1>1, <1>6, OthersRequest
<1>7. Forms \cup {"bar", "pager"} \subseteq Callers \ Refreshes
  BY Sharing DEF Refreshes, Forms
<1>8. CASE FileForm \/ Contest
  <2>1. AppShape(app') /\ app' = app
    BY <1>1, <1>8 DEF FileForm, Contest, Post
  <2>2. PICK c \in Forms, q \in {[op |-> "orders", orders |-> app.draft], [op |-> "file"]} : net' = Request(net, c, q)
    BY <1>8 DEF FileForm, Contest, Post
  <2>3. q.op \in Ops
    BY DEF Ops
  <2> QED BY <1>6, <1>7, <2>1, <2>2, <2>3
<1>9. CASE LoadEarlier
  <2> DEFINE q == [op |-> "journal", before |-> Min(Shown(app))]
  <2>1. AppShape(app') /\ app'.screen = app.screen /\ app'.inFlight = app.inFlight
    BY <1>1, <1>9 DEF LoadEarlier, AppShape, AppFields
  <2>2. net' = Request(net, "pager", q) /\ q.op \in Ops
    BY <1>9 DEF LoadEarlier, Ops
  <2> HIDE DEF q
  <2> QED BY <1>6, <1>7, <2>1, <2>2
<1>10. ASSUME NEW cmd \in Commands, Submit(cmd)
       PROVE  NetOK(net', file.key) /\ AppOK(net', app', file) /\ app'.screen = app.screen
  <2>1. app' = [app EXCEPT !.busy = TRUE, !.script = Tail(Script(cmd))]
    BY <1>10 DEF Submit
  <2>2. AppShape(app') /\ app'.screen = app.screen /\ app'.inFlight = app.inFlight
    BY <1>1, <2>1, Scripts DEF AppShape, AppFields
  <2>3. net' = Request(net, "bar", Head(Script(cmd)))
    BY <1>10 DEF Submit
  <2> QED BY <1>6, <1>7, <2>2, <2>3, Scripts
<1> QED BY <1>3, <1>4, <1>5, <1>8, <1>9, <1>10

(* What the server does to the file, and what it answers.                  *)
LEMMA ServerAnswers ==
  ASSUME NEW f, FileOK(f), NEW q, q.op \in Ops
  PROVE  /\ FileOK(Changed(f, q)) /\ f.ver <= Changed(f, q).ver /\ Changed(f, q).key = f.key
         /\ Answer(f, q) # Unauthorised
         /\ q.op = "state" => ~Fault(Answer(f, q)) /\ Answer(f, q).ver = f.ver
<1>1. FileOK(Changed(f, q)) /\ f.ver <= Changed(f, q).ver /\ Changed(f, q).key = f.key
  <2> DEFINE g == Changed(f, q)
  <2>1. CASE q.op \in {"orders", "retire", "advance", "sell", "file"}
    <3>1. PICK o, r, j : g = [f EXCEPT !.ver = @ + 1, !.orders = o, !.recruit = r, !.journal = j]
      <4> DEFINE With(o, r, j) == [f EXCEPT !.ver = @ + 1, !.orders = o, !.recruit = r, !.journal = j]
      <4>1. CASE q.op = "orders"
        <5>1. g = With(q.orders, f.recruit, f.journal)
          BY <4>1 DEF Changed, Amended, FileOK, FileFields
        <5> QED BY <5>1
      <4>2. CASE q.op = "retire"
        <5>1. g = With(f.orders, f.recruit + 1, f.journal \o <<f.recruit, f.recruit + 1>>)
          BY <4>2 DEF Changed, Delivered, FileOK, FileFields
        <5> QED BY <5>1
      <4>3. CASE q.op \in {"advance", "sell", "file"}
        <5>1. g = With(f.orders, f.recruit, Append(f.journal, f.recruit))
          BY <4>3 DEF Changed, Noted, FileOK, FileFields
        <5> QED BY <5>1
      <4> QED BY <2>1, <4>1, <4>2, <4>3
    <3> HIDE DEF g
    <3>2. g = [x \in FileFields |-> g[x]] /\ g.ver = f.ver + 1 /\ g.key = f.key
      BY <3>1 DEF FileOK, FileFields
    <3> QED BY <3>2, FileWritten DEF g
  <2>2. CASE q.op \in {"state", "ledger", "journal"}
    <3>1. Changed(f, q) = f
      BY <2>2 DEF Changed
    <3> QED BY <3>1 DEF FileOK
  <2> QED BY <2>1, <2>2 DEF Ops
<1>2. Answer(f, q) # Unauthorised
  <2>1. DOMAIN Unauthorised = {"fault"}
    BY DEF Unauthorised
  <2>2. CASE q.op = "state"
    <3>1. DOMAIN Answer(f, q) = {"ver", "orders", "recruit", "lines"}
      BY <2>2 DEF Answer, Snapshot
    <3> QED BY <2>1, <3>1
  <2>3. CASE q.op = "journal"
    <3>1. DOMAIN Answer(f, q) = {"lines", "more"}
      BY <2>3 DEF Answer, JournalBefore
    <3> QED BY <2>1, <3>1
  <2>4. CASE q.op \notin {"state", "journal"}
    <3>1. DOMAIN Answer(f, q) = {"ver"}
      BY <2>4 DEF Answer
    <3> QED BY <2>1, <3>1
  <2> QED BY <2>2, <2>3, <2>4
<1>3. ASSUME q.op = "state" PROVE ~Fault(Answer(f, q)) /\ Answer(f, q).ver = f.ver
  BY <1>3 DEF Answer, Snapshot, Fault
<1> QED BY <1>1, <1>2, <1>3

(* A call is answered: by the server, or by nobody.                        *)
LEMMA AnswerKeeps ==
  ASSUME FileOK(file), NEW n, NetOK(n, file.key), NEW a, AppOK(n, a, file), NEW c \in Callers, n.call[c] # Quiet,
         NEW ans, ans = Unauthorised => n.call[c].phase = "sent" /\ n.call[c].token # file.key,
         c = "refresh" /\ ~Fault(ans) => ans.ver = file.ver
  PROVE  NetOK(Put(n, c, Answered(n.call[c], ans)), file.key) /\ AppOK(Put(n, c, Answered(n.call[c], ans)), a, file)
<1> DEFINE old == n.call[c]
           k   == Answered(old, ans)
           m   == Put(n, c, k)
<1>1. file.key \in Nat /\ file.ver \in Nat
  BY DEF FileOK
<1>2. Made(old, file.key) /\ CallOK(old, n.auth, file.key)
  BY DEF NetOK, CallOK
<1>3. Made(k, file.key) /\ k = Answered(k, k.ans) /\ k.ans = ans /\ k.again = old.again /\ k.since = old.since
      /\ k.req = old.req /\ k.phase = "answered"
  BY <1>2 DEF Made, Answered
<1>4. ASSUME ans = Unauthorised PROVE NotBehind(k, n.auth) /\ (k.again => file.key > k.since)
  <2>1. old.phase = "sent" /\ old.token # file.key
    BY <1>4
  <2>2. SentOK(old, n.auth)
    BY <1>2, <2>1, CallsDiffer DEF CallOK, WaitingOK, AnsweredOK
  <2> HIDE DEF old, k
  <2> QED BY <1>1, <1>2, <1>3, <2>1, <2>2 DEF SentOK, Made, NotBehind
<1> HIDE DEF old, k
<1>5. CallOK(k, n.auth, file.key)
  BY <1>3, <1>4 DEF CallOK, AnsweredOK
<1>6. NetOK(m, file.key)
  BY <1>1, <1>5, PutKeeps
<1>7. m.call = [d \in Callers |-> IF d = c THEN k ELSE n.call[d]]
  BY PutIs
<1>8. AppOK(m, a, file)
  <2>1. CASE c = "refresh"
    <3>1. m.call["refresh"] = k /\ m.call["second"] = n.call["second"]
      BY <1>7, <2>1, Sharing
    <3>2. k # Quiet /\ InStep(k, a.screen, file)
      BY <1>1, <1>3, <2>1, CallsDiffer DEF AppOK, InStep, old
    <3> HIDE DEF m
    <3> QED BY <2>1, <3>1, <3>2 DEF AppOK, old
  <2>2. CASE c # "refresh"
    <3>1. m.call["refresh"] = n.call["refresh"] /\ c # "second"
      BY <1>7, <2>2, Sharing DEF AppOK
    <3>2. m.call["second"] = n.call["second"]
      BY <1>7, <3>1, Sharing
    <3> HIDE DEF m
    <3> QED BY <3>1, <3>2, AppChanges DEF AppOK
  <2> QED BY <2>1, <2>2
<1> QED BY <1>6, <1>8 DEF k, old

LEMMA NetworkKeeps ==
  ASSUME ClientInv, NEW c \in Callers, ServeCall(c) \/ Lose(c) \/ Retry(c)
  PROVE  ClientInv' /\ app' = app
<1>1. FileOK(file) /\ NetOK(net, file.key) /\ AppOK(net, app, file) /\ file.key \in Nat /\ file.ver \in Nat
  BY DEF ClientInv, FileOK
<1> DEFINE k == net.call[c]
<1>2. app' = app /\ k # Quiet /\ k.phase \in {"sent", "answered"}
  BY DEF ServeCall, Lose, Retry, Quiet
<1>3. Made(k, file.key) /\ CallOK(k, net.auth, file.key)
  BY <1>1, <1>2 DEF NetOK, CallOK
<1>4. ASSUME NEW ans, net' = Put(net, c, Answered(k, ans)),
             ans = Unauthorised => k.phase = "sent" /\ k.token # file.key,
             c = "refresh" /\ ~Fault(ans) => ans.ver = file.ver
      PROVE  NetOK(net', file.key) /\ AppOK(net', app, file)
  <2> HIDE DEF k
  <2>1. NetOK(Put(net, c, Answered(net.call[c], ans)), file.key)
        /\ AppOK(Put(net, c, Answered(net.call[c], ans)), app, file)
    BY <1>1, <1>2, <1>4, AnswerKeeps DEF k
  <2> QED BY <1>4, <2>1 DEF k
<1>5. CASE ServeCall(c)
  <2>1. CASE file' = Changed(file, k.req) /\ net' = Put(net, c, Answered(k, Answer(file, k.req)))
    <3>1. FileOK(file') /\ file.ver <= file'.ver /\ file'.key = file.key /\ Answer(file, k.req) # Unauthorised
          /\ (k.req.op = "state" => Answer(file, k.req).ver = file.ver)
      BY <1>1, <1>3, <2>1, ServerAnswers DEF Made
    <3>2. c = "refresh" => k.req.op = "state"
      BY <1>1, <1>2 DEF AppOK, InStep
    <3> HIDE DEF k
    <3>3. NetOK(net', file.key) /\ AppOK(net', app, file)
      BY <1>4, <2>1, <3>1, <3>2
    <3>4. file.key <= file'.key
      BY <1>1, <3>1
    <3>5. NetOK(net', file'.key) /\ AppOK(net', app, file')
      BY <1>1, <3>1, <3>3, <3>4, FileMovesOn
    <3> QED BY <1>2, <3>1, <3>5 DEF ClientInv
  <2>2. CASE file' = file /\ net' = Put(net, c, Answered(k, Declined))
    <3>1. Declined # Unauthorised /\ Fault(Declined)
      BY DEF Declined, Unauthorised, Fault
    <3> HIDE DEF k
    <3> QED BY <1>1, <1>2, <1>4, <2>2, <3>1 DEF ClientInv
  <2>3. CASE file' = file /\ net' = Put(net, c, Answered(k, Unauthorised)) /\ ~Verifies(k)
    <3>1. k.phase = "sent" /\ k.token # file.key /\ Fault(Unauthorised)
      BY <1>5, <2>3 DEF ServeCall, Verifies, Unauthorised, Fault
    <3> HIDE DEF k
    <3> QED BY <1>1, <1>2, <1>4, <2>3, <3>1 DEF ClientInv
  <2> QED BY <1>5, <2>1, <2>2, <2>3 DEF ServeCall, Put
<1>6. CASE Lose(c)
  <2>1. file' = file /\ net' = Put(net, c, Answered(k, Lost))
    BY <1>1, <1>6 DEF Lose, Put, NetOK
  <2>2. Lost # Unauthorised /\ Fault(Lost)
    BY DEF Lost, Unauthorised, Fault
  <2> HIDE DEF k
  <2> QED BY <1>1, <1>2, <1>4, <2>1, <2>2 DEF ClientInv
<1>7. CASE Retry(c)
  <2> DEFINE n == Turned(net, NoToken, SignIn(net.auth))
             w == Call(k.req, "auth", k.token, TRUE, k.since)
  <2>1. k.phase = "answered" /\ k.ans = Unauthorised /\ file' = file /\ net' = Retried(net, c)
    BY <1>7 DEF Retry
  <2>2. net' = Put(n, c, w)
    BY <1>1, <2>1 DEF Retried, Put, Turned, NetOK
  <2>3. n = [token |-> NoToken, auth |-> SignIn(net.auth), call |-> net.call]
    <3>1. net = [token |-> net.token, auth |-> net.auth, call |-> net.call]
      BY <1>1 DEF NetOK
    <3> QED BY <3>1, TurnedIs
  <2>4. /\ \A d \in Callers : CallOK(net.call[d], SignIn(net.auth), file.key)
        /\ AuthOK(SignIn(net.auth), file.key)
    BY <1>1, SignInStarts DEF NetOK
  <2>5. NetOK(n, file.key)
    <3> HIDE DEF n
    <3>1. n.token = NoToken /\ n.auth = SignIn(net.auth) /\ n.call = net.call
      BY <2>3
    <3>2. n.token \in Int /\ n.token <= file.key
      BY <1>1, <3>1 DEF NoToken
    <3> QED BY <1>1, <2>3, <2>4, <3>1, <3>2 DEF NetOK
  <2>6. AnsweredOK(k, SignIn(net.auth), file.key)
    BY <2>1, <2>4, CallsDiffer DEF CallOK, WaitingOK, SentOK, Quiet
  <2>7. Made(w, file.key) /\ WaitingOK(w, SignIn(net.auth))
    BY <1>3, <2>1, <2>6 DEF Made, WaitingOK, AnsweredOK, Call, NotBehind
  <2>8. n.auth = SignIn(net.auth) /\ n.call = net.call
    BY <2>3
  <2>9. w # Quiet /\ w.phase = "auth" /\ w.req = k.req
    BY DEF Call, Quiet
  <2> HIDE DEF n, w, k
  <2>10. NetOK(net', file.key) /\ net'.call = [d \in Callers |-> IF d = c THEN w ELSE net.call[d]]
    <3>1. CallOK(w, n.auth, file.key)
      BY <2>7, <2>8 DEF CallOK
    <3>2. NetOK(Put(n, c, w), file.key)
      BY <1>1, <2>5, <3>1, PutKeeps
    <3>3. Put(n, c, w).call = [d \in Callers |-> IF d = c THEN w ELSE n.call[d]]
      BY <2>5, PutIs
    <3> QED BY <2>2, <2>8, <3>2, <3>3
  <2>11. AppOK(net', app, file)
    <3>1. c # "second"
      BY <1>1, <1>2 DEF AppOK, k
    <3>2. net'.call["second"] = Quiet
      BY <1>1, <2>10, <3>1, Sharing DEF AppOK
    <3>3. net'.call["refresh"] = IF c = "refresh" THEN w ELSE net.call["refresh"]
      BY <2>10, Sharing
    <3>4. CASE c = "refresh"
      <4>1. app.inFlight /\ w.req.op = "state"
        BY <1>1, <1>2, <2>9, <3>4 DEF AppOK, InStep, k
      <4> QED BY <1>1, <2>9, <3>2, <3>3, <3>4, <4>1 DEF AppOK, InStep
    <3>5. CASE c # "refresh"
      BY <1>1, <3>2, <3>3, <3>5 DEF AppOK
    <3> QED BY <3>4, <3>5
  <2> QED BY <1>1, <1>2, <2>1, <2>10, <2>11 DEF ClientInv
<1> QED BY <1>5, <1>6, <1>7

LEMMA SignInKeeps ==
  ASSUME ClientInv, SignInMoves \/ LoseSignIn
  PROVE  ClientInv' /\ app' = app
<1>1. FileOK(file) /\ NetOK(net, file.key) /\ AppOK(net, app, file) /\ file.key \in Nat
  BY DEF ClientInv, FileOK
<1>2. file' = file /\ app' = app
  BY DEF SignInMoves, ServeSignIn, ReceiveSignIn, LoseSignIn
<1>3. \A c \in Callers : CallOK(net.call[c], net.auth, file.key)
  BY <1>1 DEF NetOK
(* The refreshes that were waiting still are out.                          *)
<1>4. ASSUME NetOK(net', file.key),
             \A c \in Callers : \/ net'.call[c] = net.call[c]
                               \/ /\ net.call[c] # Quiet /\ net'.call[c] # Quiet
                                  /\ net'.call[c].req = net.call[c].req
                                  /\ net'.call[c].phase # "answered" \/ Fault(net'.call[c].ans)
      PROVE  ClientInv'
  <2>1. "refresh" \in Callers /\ "second" \in Callers
    BY Sharing
  <2>2. net'.call["second"] = Quiet
    BY <1>1, <1>4, <2>1 DEF AppOK
  <2>3. AppOK(net', app, file)
    BY <1>1, <1>4, <2>1, <2>2 DEF AppOK, InStep
  <2> QED BY <1>1, <1>2, <1>4, <2>3 DEF ClientInv
<1>5. CASE ServeSignIn
  <2> DEFINE u == [phase |-> "answered", token |-> file.key]
  <2>1. net' = [net EXCEPT !.auth = u] /\ net.auth # SignedOut
    BY <1>5 DEF ServeSignIn, SignedOut
  <2>2. AuthOK(u, file.key) /\ u.token = file.key
    BY <1>1 DEF AuthOK
  <2> HIDE DEF u
  <2>3. net' = [token |-> net.token, auth |-> u, call |-> net.call]
    BY <1>1, <2>1 DEF NetOK
  <2>4. ASSUME NEW c \in Callers PROVE CallOK(net.call[c], u, file.key)
    <3> DEFINE k == net.call[c]
    <3>1. CallOK(k, net.auth, file.key)
      BY <1>3
    <3> HIDE DEF k
    <3>2. Made(k, file.key) => NotBehind(k, u)
      BY <1>1, <2>2 DEF Made, NotBehind
    <3>3. CallOK(k, u, file.key)
      BY <3>1, <3>2 DEF CallOK, WaitingOK, SentOK, AnsweredOK
    <3> QED BY <3>3 DEF k
  <2>5. net'.token = net.token /\ net'.auth = u /\ net'.call = net.call
    BY <2>3
  <2>6. NetOK(net', file.key)
    BY <1>1, <2>1, <2>2, <2>3, <2>4, <2>5 DEF NetOK
  <2> QED BY <1>2, <1>4, <2>5, <2>6
<1>6. CASE ReceiveSignIn
  <2> DEFINE t == net.auth.token
             call == [c \in Callers |-> IF net.call[c].phase = "auth" THEN Resent(net.call[c], t) ELSE net.call[c]]
  <2>1. net' = [token |-> t, auth |-> SignedOut, call |-> call] /\ net.auth.phase = "answered"
    BY <1>6 DEF ReceiveSignIn, SignedIn
  <2>2. t \in Nat /\ t <= file.key
    BY <1>1, <2>1 DEF NetOK, AuthOK, SignedOut
  <2> HIDE DEF t
  <2>3. ASSUME NEW c \in Callers
        PROVE  /\ CallOK(call[c], SignedOut, file.key)
               /\ \/ call[c] = net.call[c]
                  \/ /\ net.call[c] # Quiet /\ call[c] # Quiet
                     /\ call[c].req = net.call[c].req
                     /\ call[c].phase # "answered"
    <3> DEFINE k == net.call[c]
               r == Resent(k, t)
    <3>1. CallOK(k, net.auth, file.key)
      BY <1>3
    <3>2. call[c] = IF k.phase = "auth" THEN r ELSE k
      OBVIOUS
    <3> HIDE DEF k, call
    <3>3. CASE k.phase = "auth"
      <4>1. Made(k, file.key) /\ WaitingOK(k, net.auth) /\ k # Quiet
        BY <3>1, <3>3, CallsDiffer DEF CallOK, SentOK, AnsweredOK, Quiet
      <4>2. r = Call(k.req, "sent", t, k.again, k.since)
        BY DEF Resent
      <4>3. Made(r, file.key) /\ SentOK(r, SignedOut)
        BY <2>1, <2>2, <4>1, <4>2 DEF Made, SentOK, WaitingOK, NotBehind, Call, SignedOut, t
      <4>4. r # Quiet /\ r.req = k.req /\ r.phase = "sent"
        BY <4>2 DEF Call, Quiet
      <4> QED BY <3>2, <3>3, <4>1, <4>3, <4>4 DEF CallOK, k
    <3>4. CASE k.phase # "auth"
      <4>1. CallOK(k, SignedOut, file.key)
        BY <3>1, <3>4, CallsDiffer DEF CallOK, WaitingOK, SentOK, AnsweredOK, NotBehind, SignedOut
      <4> QED BY <3>2, <3>4, <4>1 DEF k
    <3> QED BY <3>3, <3>4
  <2>4. call = [c \in Callers |-> call[c]]
    OBVIOUS
  <2> HIDE DEF call
  <2>5. net'.token = t /\ net'.auth = SignedOut /\ net'.call = call
    BY <2>1
  <2>6. NetOK(net', file.key)
    BY <1>1, <2>1, <2>2, <2>3, <2>4, <2>5 DEF NetOK, AuthOK
  <2> QED BY <1>2, <1>4, <2>3, <2>4, <2>5, <2>6
<1>7. CASE LoseSignIn
  <2> DEFINE call == [c \in Callers |-> IF net.call[c].phase = "auth" THEN Answered(net.call[c], Lost) ELSE net.call[c]]
  <2>1. net' = [net EXCEPT !.auth = SignedOut, !.call = call]
    BY <1>1, <1>7 DEF LoseSignIn, SignInFailed, NetOK
  <2>2. ASSUME NEW c \in Callers
        PROVE  /\ CallOK(call[c], SignedOut, file.key)
               /\ \/ call[c] = net.call[c]
                  \/ /\ net.call[c] # Quiet /\ call[c] # Quiet
                     /\ call[c].req = net.call[c].req
                     /\ Fault(call[c].ans)
    <3> DEFINE k == net.call[c]
               r == Answered(k, Lost)
    <3>1. CallOK(k, net.auth, file.key)
      BY <1>3
    <3>2. call[c] = IF k.phase = "auth" THEN r ELSE k
      OBVIOUS
    <3> HIDE DEF k, call
    <3>3. CASE k.phase = "auth"
      <4>1. Made(k, file.key) /\ k # Quiet
        BY <3>1, <3>3 DEF CallOK, Quiet
      <4>2. Made(r, file.key) /\ r = Answered(r, r.ans) /\ r.ans = Lost /\ r # Quiet /\ r.req = k.req
        BY <4>1 DEF Made, Answered, Quiet
      <4>3. Lost # Unauthorised /\ Fault(Lost)
        BY DEF Lost, Unauthorised, Fault
      <4> HIDE DEF r
      <4> QED BY <3>2, <3>3, <4>1, <4>2, <4>3 DEF CallOK, AnsweredOK, k
    <3>4. CASE k.phase # "auth"
      <4>1. CallOK(k, SignedOut, file.key)
        BY <3>1, <3>4, CallsDiffer DEF CallOK, WaitingOK, SentOK, AnsweredOK, NotBehind, SignedOut
      <4> QED BY <3>2, <3>4, <4>1 DEF k
    <3> QED BY <3>3, <3>4
  <2>3. call = [c \in Callers |-> call[c]]
    OBVIOUS
  <2> HIDE DEF call
  <2>4. net' = [token |-> net.token, auth |-> SignedOut, call |-> call]
    BY <1>1, <2>1 DEF NetOK
  <2>5. net'.token = net.token /\ net'.auth = SignedOut /\ net'.call = call
    BY <2>4
  <2>6. NetOK(net', file.key)
    BY <1>1, <2>2, <2>3, <2>4, <2>5 DEF NetOK, AuthOK
  <2> QED BY <1>2, <1>4, <2>2, <2>3, <2>5, <2>6
<1> QED BY <1>5, <1>6, <1>7 DEF SignInMoves

LEMMA ReceiveKeeps ==
  ASSUME ClientInv, NEW c \in Callers, Receive(c)
  PROVE  ClientInv' /\ app'.screen.ver >= app.screen.ver
<1>1. /\ FileOK(file) /\ NetOK(net, file.key) /\ AppOK(net, app, file) /\ AppShape(app)
      /\ file.key \in Nat /\ file.ver \in Nat /\ app.screen.ver \in Nat
  BY DEF ClientInv, FileOK, AppOK
<1> DEFINE n   == Put(net, c, Quiet)
           ans == net.call[c].ans
<1>2. file' = file /\ net.call[c].phase = "answered" /\ Ended(c) = n
  BY DEF Receive, Ended, Put
<1>3. NetOK(n, file.key) /\ (\A d \in Callers \ {c} : n.call[d] = net.call[d]) /\ n.call[c] = Quiet
  BY <1>1, EndedKeeps
<1>4. c # "second"
  BY <1>1, <1>2 DEF AppOK, Quiet
<1>5. CASE c \in Refreshes
  <2>1. c = "refresh"
    BY <1>4, <1>5 DEF Refreshes
  <2> DEFINE a == IF Fault(ans) THEN Unlinked(app) ELSE Rendered(app, ans)
  <2>2. net' = n /\ app' = Settled(a)
    BY <1>2, <2>1 DEF Receive, Ended, Put, RefreshAnswered, Forms, Writers
  <2>3. AppShape(a) /\ a.screen.ver \in Nat /\ app.screen.ver <= a.screen.ver /\ a.screen.ver <= file.ver
    <3>1. CASE Fault(ans)
      <4>1. AppShape(Unlinked(app)) /\ Unlinked(app).screen = app.screen
        BY <1>1 DEF Unlinked, AppShape, AppFields
      <4> QED BY <1>1, <3>1, <4>1 DEF AppOK
    <3>2. CASE ~Fault(ans)
      <4>1. AppShape(Rendered(app, ans)) /\ Rendered(app, ans).screen = ans
        BY <1>1 DEF Rendered, AppShape, AppFields
      <4>2. ans.ver \in Nat /\ app.screen.ver <= ans.ver /\ ans.ver <= file.ver
        BY <1>1, <1>2, <2>1, <3>2 DEF AppOK, InStep
      <4> QED BY <3>2, <4>1, <4>2
    <3> QED BY <3>1, <3>2
  <2> HIDE DEF a
  <2>4. AppShape(Settled(a)) /\ Settled(a).screen = a.screen /\ Settled(a).inFlight = FALSE
    BY <2>3 DEF Settled, AppShape, AppFields
  <2>5. n.call["refresh"] = Quiet /\ n.call["second"] = Quiet
    BY <1>1, <1>3, <2>1, Sharing DEF AppOK
  <2>6. AppOK(n, Settled(a), file)
    <3> HIDE DEF n
    <3>1. InStep(Quiet, Settled(a).screen, file)
      BY DEF InStep, Quiet
    <3> QED BY <2>3, <2>4, <2>5, <3>1 DEF AppOK
  <2> QED BY <1>1, <1>2, <1>3, <2>2, <2>3, <2>4, <2>6 DEF ClientInv
<1>6. ASSUME c \notin Refreshes PROVE n.call["refresh"] = net.call["refresh"] /\ n.call["second"] = net.call["second"]
  BY <1>3, <1>6, Sharing DEF Refreshes
<1>7. CASE c \in Writers
  <2> DEFINE r == WriteAnswered(n, app, c, ans)
  <2>1. net' = r.net /\ app' = r.app /\ c \notin Refreshes
    BY <1>2, <1>7 DEF Receive, Ended, Put, Refreshes, Forms, Writers
  <2>2. NetOK(r.net, file.key) /\ AppOK(r.net, r.app, file) /\ r.app.screen = app.screen
    <3> HIDE DEF n, ans
    <3>1. CASE Fault(ans)
      <4> DEFINE b == IF c = "bar" THEN Freed(app) ELSE app
      <4>1. AppShape(b) /\ b.screen = app.screen /\ b.inFlight = app.inFlight
        BY <1>1 DEF Freed, AppShape, AppFields
      <4>2. r = [net |-> n, app |-> b]
        BY <3>1 DEF WriteAnswered
      <4> HIDE DEF b, r
      <4>3. AppOK(n, b, file)
        BY <1>1, <1>6, <2>1, <4>1, AppChanges
      <4> QED BY <1>3, <4>1, <4>2, <4>3
    <3>2. CASE ~Fault(ans)
      <4> DEFINE b == [app EXCEPT !.promised = Max({@, ans.ver})]
      <4>1. AppShape(b) /\ b.screen = app.screen /\ b.inFlight = app.inFlight
        BY <1>1 DEF AppShape, AppFields
      <4>2. AppOK(n, b, file)
        <5> HIDE DEF b
        <5> QED BY <1>1, <1>6, <2>1, <4>1, AppChanges
      <4>3. CASE c = "bar" /\ app.script # <<>>
        <5> DEFINE d == [b EXCEPT !.script = Tail(@)]
        <5>1. r = [net |-> Request(n, c, Head(app.script)), app |-> d]
          BY <3>2, <4>3 DEF WriteAnswered
        <5>2. app.script = <<[op |-> "sell"]>>
          BY <1>1, <4>3 DEF AppShape
        <5>3. Head(app.script).op \in Ops /\ Tail(app.script) = <<>> /\ b.script = app.script
          <6>1. b.script = app.script
            BY <1>1 DEF AppShape, AppFields
          <6>2. Head(app.script) = [op |-> "sell"] /\ Tail(app.script) = <<>>
            BY <5>2
          <6> QED BY <6>1, <6>2 DEF Ops
        <5> HIDE DEF b
        <5>4. AppShape(d) /\ d.screen = b.screen /\ d.inFlight = b.inFlight
          BY <4>1, <5>3 DEF AppShape, AppFields
        <5> HIDE DEF d, r
        <5>5. c \in Callers \ Refreshes
          BY <2>1
        <5>6. NetOK(Request(n, c, Head(app.script)), file.key) /\ AppOK(Request(n, c, Head(app.script)), d, file)
          BY <1>1, <1>3, <4>2, <5>3, <5>4, <5>5, OthersRequest
        <5> QED BY <4>1, <5>1, <5>4, <5>6
      <4>4. CASE ~(c = "bar" /\ app.script # <<>>)
        <5> DEFINE bar == c = "bar"
        <5>1. r = Refresh(n, b, bar) /\ bar \in BOOLEAN
          BY <3>2, <4>4 DEF WriteAnswered
        <5> HIDE DEF b, r, bar
        <5> QED BY <1>1, <1>3, <4>1, <4>2, <5>1, RefreshKeeps
      <4> QED BY <4>3, <4>4
    <3> QED BY <3>1, <3>2
  <2> HIDE DEF r, n
  <2> QED BY <1>1, <1>2, <2>1, <2>2 DEF ClientInv
<1>8. CASE c = "pager"
  <2>1. net' = n /\ app' = PageAnswered(app, ans) /\ c \notin Refreshes
    BY <1>2, <1>8 DEF Receive, Ended, Put, Refreshes, Forms, Writers
  <2>2. AppShape(app') /\ app'.screen = app.screen /\ app'.inFlight = app.inFlight
    BY <1>1, <2>1 DEF PageAnswered, AppShape, AppFields
  <2> HIDE DEF n
  <2>3. AppOK(net', app', file)
    BY <1>1, <1>6, <2>1, <2>2, AppChanges
  <2> QED BY <1>1, <1>2, <1>3, <2>1, <2>2, <2>3 DEF ClientInv
<1> QED BY <1>5, <1>7, <1>8, Sharing DEF Refreshes, Forms, Writers

LEMMA NextClientInv ==
  ClientInv /\ [ClientNext]_clientVars => ClientInv' /\ app'.screen.ver >= app.screen.ver
<1> SUFFICES ASSUME ClientInv, [ClientNext]_clientVars PROVE ClientInv' /\ app'.screen.ver >= app.screen.ver
  OBVIOUS
<1>1. app.screen.ver \in Nat
  BY DEF ClientInv, AppOK
<1>2. CASE UNCHANGED clientVars
  BY <1>1, <1>2 DEF clientVars, ClientInv
<1>3. CASE Tick \/ TurnKey
  BY <1>1, <1>3, WorldKeeps
<1>4. CASE Poll \/ FileForm \/ Contest \/ Sync \/ LoadEarlier \/ NoMatch
             \/ (\E f \in Fields, v \in Values : Edit(f, v)) \/ \E cmd \in Commands : Submit(cmd)
  BY <1>1, <1>4, OfficerKeeps
<1>5. CASE SignInMoves \/ LoseSignIn
  BY <1>1, <1>5, SignInKeeps
<1>6. ASSUME NEW c \in Callers, Lose(c) \/ CallMoves(c) PROVE ClientInv' /\ app'.screen.ver >= app.screen.ver
  BY <1>1, <1>6, NetworkKeeps, ReceiveKeeps DEF CallMoves
<1> QED BY <1>2, <1>3, <1>4, <1>5, <1>6 DEF ClientNext

-----------------------------------------------------------------------------
(* Theorems *)

(* A caller is refused for want of a good token, after the one retry the   *)
(* client makes, only when the signing key changed since it asked          *)
(* (client/src/api/client.ts), however many callers share the sign-in and  *)
(* whatever is lost on the way.                                            *)
THEOREM NobodyLockedOut == ClientSpec => []LockedOutByANewKey
<1>1. ClientInit => ClientInv
  BY InitClientInv
<1>2. ClientInv /\ [ClientNext]_clientVars => ClientInv'
  BY NextClientInv
<1>3. ClientInv => LockedOutByANewKey
  <2> SUFFICES ASSUME ClientInv, NEW c \in Callers, net.call[c].phase = "answered",
                      net.call[c].ans = Unauthorised, net.call[c].again
               PROVE  file.key > net.call[c].since
    BY DEF LockedOutByANewKey
  <2>1. CallOK(net.call[c], net.auth, file.key)
    BY DEF ClientInv, NetOK
  <2> DEFINE k == net.call[c]
  <2>2. k.phase = "answered" /\ CallOK(k, net.auth, file.key)
    BY <2>1
  <2> HIDE DEF k
  <2>3. AnsweredOK(k, net.auth, file.key)
    BY <2>2, CallsDiffer DEF CallOK, WaitingOK, SentOK, Quiet
  <2> QED BY <2>3 DEF AnsweredOK, k
<1> QED BY <1>1, <1>2, <1>3, PTL DEF ClientSpec

(* The screen never goes back to an older snapshot (the provider's one     *)
(* refresh at a time): whoever asks for a refresh, and however late the    *)
(* answer of the one that is out.                                          *)
THEOREM ScreensMoveOn == ClientSpec => SnapshotsNeverGoBack
<1>1. ClientInit => ClientInv
  BY InitClientInv
<1>2. ClientInv /\ [ClientNext]_clientVars => ClientInv'
  BY NextClientInv
<1>3. ClientInv /\ [ClientNext]_clientVars => [app'.screen.ver >= app.screen.ver]_app
  BY NextClientInv
<1> QED BY <1>1, <1>2, <1>3, PTL DEF ClientSpec, SnapshotsNeverGoBack
=============================================================================
