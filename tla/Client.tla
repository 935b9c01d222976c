------------------------------- MODULE Client --------------------------------
(***************************************************************************)
(* One client and the office's file: the API client's token and retry, the *)
(* provider's single refresh, Form SO-1, the command line, and the journal *)
(* paged in behind the window.                                             *)
(*                                                                         *)
(* A request is sent, served and received in three steps; until received   *)
(* it may be lost, either way.  What runs between two awaits of the        *)
(* client is one step, the render and the effects it causes included.      *)
(* The file is what the server answers from: a number of its changes, the  *)
(* orders, the recruit on duty and the journal, a line being the number of *)
(* the recruit it is about.                                                *)
(***************************************************************************)
EXTENDS Integers, Sequences, FiniteSets, FiniteSetsExt

CONSTANTS Fields,                        \* the fields of Form SO-1
          Values,                        \* what a field may hold
          Window,                        \* lines the state response carries
          PageSize,                      \* JOURNAL_PAGE_SIZE
          Filed,                         \* the orders on file at first
          Budgets                        \* bounds: the officer's actions, minutes, losses and new signing keys of a behaviour

ASSUME ClientAssumption ==
  /\ Budgets \subseteq [acts: Nat, ticks: Nat, lost: Nat, turns: Nat] /\ Filed \in [Fields -> Values]
  /\ {Window, PageSize} \subseteq Nat \ {0} /\ IsFiniteSet(Fields) /\ Values # {}

Refreshes == {"refresh", "second"}       \* a second one only if two could run at once
Forms == {"form", "another"}             \* bound: two filings from the screens out at once
Writers == Forms \cup {"bar"}
Callers == Refreshes \cup Writers \cup {"pager"}
NoToken == -1
NoOrders == [f \in Fields |-> 0]
NoScreen == [ver |-> 0, orders |-> NoOrders, recruit |-> 0, lines |-> {}]

VARIABLES file, net, app, left

clientVars == <<file, net, app, left>>

-----------------------------------------------------------------------------
(* The server, as the client meets it. *)

Lines(f) == {i \in DOMAIN f.journal : f.journal[i] = f.recruit}
Newest(S, n) == {i \in S : Cardinality({j \in S : j > i}) < n}

Snapshot(f) == [ver |-> f.ver, orders |-> f.orders, recruit |-> f.recruit, lines |-> Newest(Lines(f), Window)]

JournalBefore(f, id) ==
  LET earlier == {i \in Lines(f) : i < id}
  IN [lines |-> Newest(earlier, PageSize), more |-> Cardinality(earlier) > PageSize]

Amended(f, orders) == [f EXCEPT !.ver = @ + 1, !.orders = orders]

\* A change with its line about the recruit on duty: a sale, a form, a stretch of time.
Noted(f) == [f EXCEPT !.ver = @ + 1, !.journal = Append(@, f.recruit)]

\* A line for the one who leaves, and a line for the replacement.
Delivered(f) == [f EXCEPT !.ver = @ + 1, !.recruit = @ + 1, !.journal = @ \o <<f.recruit, f.recruit + 1>>]

\* "file" stands for every write whose answer the screen does not keep.
Changed(f, q) ==
  CASE q.op = "orders"                         -> Amended(f, q.orders)
    [] q.op = "retire"                         -> Delivered(f)
    [] q.op \in {"advance", "sell", "file"}    -> Noted(f)
    [] q.op \in {"state", "ledger", "journal"} -> f

Answer(f, q) ==
  CASE q.op = "state"   -> Snapshot(f)
    [] q.op = "journal" -> JournalBefore(f, q.before)
    [] OTHER            -> [ver |-> Changed(f, q).ver]

-----------------------------------------------------------------------------
(* The API client. *)

Quiet == [phase |-> "idle"]
SignedOut == [phase |-> "idle"]

SignIn(auth) == IF auth.phase = "idle" THEN [phase |-> "sent"] ELSE auth

\* `since' is history: the signing key when the caller asked.
Call(q, phase, token, again, since) ==
  [phase |-> phase, req |-> q, token |-> token, again |-> again, since |-> since]

Request(n, c, q) ==
  IF n.token = NoToken
  THEN [n EXCEPT !.call[c] = Call(q, "auth", NoToken, FALSE, file.key), !.auth = SignIn(n.auth)]
  ELSE [n EXCEPT !.call[c] = Call(q, "sent", n.token, FALSE, file.key)]

Answered(k, ans) == [phase |-> "answered", req |-> k.req, token |-> k.token, again |-> k.again,
                     since |-> k.since, ans |-> ans]

Lost == [fault |-> "network"]
Unauthorised == [fault |-> "unauthorized"]
Declined == [fault |-> "declined"]
Fault(ans) == "fault" \in DOMAIN ans

\* The call goes out with the token it had.
ResentAsItWas(k, token) == Call(k.req, "sent", IF k.token = NoToken THEN token ELSE k.token, k.again, k.since)

\* The call goes out with the token a sign-in brought.
Resent(k, token) == Call(k.req, "sent", token, k.again, k.since)

Retried(n, c) ==
  [n EXCEPT !.token = NoToken, !.auth = SignIn(n.auth),
            !.call[c] = Call(@.req, "auth", @.token, TRUE, @.since)]

SignedIn(n, token) ==
  [token |-> token, auth |-> SignedOut,
   call |-> [c \in Callers |-> IF n.call[c].phase = "auth" THEN Resent(n.call[c], token) ELSE n.call[c]]]

SignInFailed(n) ==
  [n EXCEPT !.auth = SignedOut,
            !.call = [c \in Callers |-> IF @[c].phase = "auth" THEN Answered(@[c], Lost) ELSE @[c]]]

-----------------------------------------------------------------------------
(* The provider. *)

Slot(n) == CHOOSE c \in Refreshes : n.call[c] = Quiet /\ (c = "refresh" \/ n.call["refresh"] # Quiet)

\* A refresh that did not ask whether one is in flight.
RefreshAnyway(n, a, bar) ==
  IF n.call["second"] # Quiet
  THEN [net |-> n, app |-> [a EXCEPT !.busy = @ /\ ~bar]]
  ELSE [net |-> Request(n, Slot(n), [op |-> "state"]),
        app |-> [a EXCEPT !.inFlight = TRUE, !.awaited = bar]]

\* refresh(), awaited by the command line or not: skipped while one is in flight.
Refresh(n, a, bar) ==
  IF a.inFlight
  THEN [net |-> n, app |-> [a EXCEPT !.busy = @ /\ ~bar]]
  ELSE [net |-> Request(n, Slot(n), [op |-> "state"]),
        app |-> [a EXCEPT !.inFlight = TRUE, !.awaited = bar]]

\* The snapshot is rendered: a draft there is stays, a successor's journal starts afresh.
Rendered(a, s) ==
  LET other == a.screen.recruit # s.recruit
  IN [a EXCEPT !.screen = s, !.link = "online",
               !.draft = IF @ = NoOrders THEN s.orders ELSE @,
               !.older = IF other THEN {} ELSE @,
               !.more = IF other THEN Cardinality(s.lines) >= Window ELSE @]

Unlinked(a) == [a EXCEPT !.link = IF @ = "connecting" THEN "offline" ELSE "degraded"]

Settled(a) == [a EXCEPT !.inFlight = FALSE, !.busy = @ /\ ~a.awaited, !.awaited = FALSE]

\* The mark is taken away only when the request succeeds.
SettledOnSuccess(a, ans) == IF Fault(ans) THEN Unlinked(a) ELSE Settled(Rendered(a, ans))

RefreshAnswered(a, ans) == Settled(IF Fault(ans) THEN Unlinked(a) ELSE Rendered(a, ans))

-----------------------------------------------------------------------------
(* The screens and the command line. *)

\* What a command asks of the server, one request after the other.
Script(cmd) ==
  CASE cmd.name = "amend"   -> <<[op |-> "orders", orders |-> [app.screen.orders EXCEPT ![cmd.field] = cmd.value],
                                  field |-> cmd.field]>>
    [] cmd.name = "sell"    -> <<[op |-> "ledger"], [op |-> "sell"]>>
    [] cmd.name = "retire"  -> <<[op |-> "retire"]>>
    [] cmd.name = "advance" -> <<[op |-> "advance"]>>

\* Those that ask the server for anything; `sync' is Sync, and the others only speak or turn the page.
Commands == [name: {"amend"}, field: Fields, value: Values] \cup [name: {"sell", "retire", "advance"}]

\* A command that is over: the line takes the next.
Freed(a) == [a EXCEPT !.busy = FALSE, !.script = <<>>]

\* A write was answered: what is left of the command, then the refresh it waits for.
WriteAnswered(n, a, c, ans) ==
  IF Fault(ans) THEN [net |-> n, app |-> IF c = "bar" THEN Freed(a) ELSE a]
  ELSE LET heard == [a EXCEPT !.promised = Max({@, ans.ver})]
       IN IF c = "bar" /\ a.script # <<>>
          THEN [net |-> Request(n, c, Head(a.script)), app |-> [heard EXCEPT !.script = Tail(@)]]
          ELSE Refresh(n, heard, c = "bar")

PageAnswered(a, ans) ==
  IF Fault(ans) THEN [a EXCEPT !.paging = FALSE]
  ELSE [a EXCEPT !.paging = FALSE, !.more = ans.more, !.older = @ \cup ans.lines]

Shown(a) == a.older \cup a.screen.lines

-----------------------------------------------------------------------------

ClientInit ==
  /\ file = [ver |-> 0, orders |-> Filed, recruit |-> 1, journal |-> <<1>>, key |-> 0]
  /\ \E t \in {NoToken, 0} : net = [token |-> t, auth |-> SignedOut, call |-> [c \in Callers |-> Quiet]]
  /\ app = [screen |-> NoScreen, link |-> "connecting", inFlight |-> FALSE, awaited |-> FALSE, busy |-> FALSE,
            draft |-> NoOrders, script |-> <<>>, older |-> {}, more |-> FALSE, paging |-> FALSE, promised |-> 0]
  /\ left \in Budgets

\* Spends one of a bound.
Spend(what) == left[what] > 0 /\ left' = [left EXCEPT ![what] = @ - 1]

\* A minute of the world reaches the file; its line is about the recruit on duty.
Tick ==
  /\ Spend("ticks")
  /\ file' = Noted(file)
  /\ UNCHANGED <<net, app>>

\* The server comes back with another signing key: no token issued before verifies.
TurnKey ==
  /\ Spend("turns")
  /\ file' = [file EXCEPT !.key = @ + 1]
  /\ UNCHANGED <<net, app>>

\* Mount, the poll, focus, visibility and the app's return all call refresh; while one is in flight nothing changes.
Poll ==
  /\ LET r == Refresh(net, app, FALSE) IN net' = r.net /\ app' = r.app
  /\ UNCHANGED <<file, left>>

\* The fields of the form are open whether or not a filing of it is under way.
Edit(f, v) ==
  /\ app.draft # NoOrders /\ app.draft[f] # v
  /\ Spend("acts")
  /\ app' = [app EXCEPT !.draft[f] = v]
  /\ UNCHANGED <<file, net>>

\* A screen sends what it was asked to, however many filings are under way: neither the button nor handleFile asks.
Post(c, q) ==
  /\ app.screen # NoScreen
  /\ net.call[c] = Quiet /\ (c = "another" => net.call["form"] # Quiet)
  /\ Spend("acts")
  /\ net' = Request(net, c, q)
  /\ UNCHANGED <<file, app>>

FileForm == \E c \in Forms : Post(c, [op |-> "orders", orders |-> app.draft])

\* A form from the Armoury, whose own `busy' ends when its screen is left.
Contest == \E c \in Forms : Post(c, [op |-> "file"])

\* The command line is disabled while a command runs; the turn to portrait that unmounts it is left out.
Submit(cmd) ==
  /\ app.screen # NoScreen /\ ~app.busy /\ Spend("acts")
  /\ net' = Request(net, "bar", Head(Script(cmd)))
  /\ app' = [app EXCEPT !.busy = TRUE, !.script = Tail(Script(cmd))]
  /\ UNCHANGED file

Sync ==
  /\ app.screen # NoScreen /\ ~app.busy /\ Spend("acts")
  /\ LET r == Refresh(net, [app EXCEPT !.busy = TRUE], TRUE) IN net' = r.net /\ app' = r.app
  /\ UNCHANGED file

LoadEarlier ==
  /\ app.screen # NoScreen /\ app.more /\ ~app.paging /\ Shown(app) # {}
  /\ Spend("acts")
  /\ net' = Request(net, "pager", [op |-> "journal", before |-> Min(Shown(app))])
  /\ app' = [app EXCEPT !.paging = TRUE]
  /\ UNCHANGED file

\* The ledger names no stack, or more than one: the sale is not made.
NoMatch ==
  /\ net.call["bar"].phase = "answered" /\ net.call["bar"].req.op = "ledger" /\ ~Fault(net.call["bar"].ans)
  /\ net' = [net EXCEPT !.call["bar"] = Quiet]
  /\ app' = Freed(app)
  /\ UNCHANGED <<file, left>>

-----------------------------------------------------------------------------
(* The network. *)

Verifies(k) == k.token = file.key

\* The route runs, or declines and changes nothing.
ServeCall(c) ==
  /\ net.call[c].phase = "sent"
  /\ LET k == net.call[c]
     IN \/ /\ Verifies(k)
           /\ file' = Changed(file, k.req)
           /\ net' = [net EXCEPT !.call[c] = Answered(k, Answer(file, k.req))]
        \/ /\ Verifies(k) /\ c \in Writers
           /\ net' = [net EXCEPT !.call[c] = Answered(k, Declined)]
           /\ UNCHANGED file
        \/ /\ ~Verifies(k)
           /\ net' = [net EXCEPT !.call[c] = Answered(k, Unauthorised)]
           /\ UNCHANGED file
  /\ UNCHANGED <<app, left>>

\* The request never arrives, or its answer does not.
Lose(c) ==
  /\ net.call[c].phase = "sent" \/ (net.call[c].phase = "answered" /\ net.call[c].ans # Lost)
  /\ Spend("lost")
  /\ net' = [net EXCEPT !.call[c] = Answered(@, Lost)]
  /\ UNCHANGED <<file, app>>

\* A 401 on the first try: forget the token, sign in, send again.
Retry(c) ==
  /\ net.call[c].phase = "answered" /\ net.call[c].ans = Unauthorised /\ ~net.call[c].again
  /\ net' = Retried(net, c)
  /\ UNCHANGED <<file, app, left>>

Ended(c) == [net EXCEPT !.call[c] = Quiet]

Receive(c) ==
  /\ net.call[c].phase = "answered"
  /\ LET k == net.call[c]
     IN /\ k.ans = Unauthorised => k.again
        /\ \/ /\ c \in Refreshes
              /\ net' = Ended(c) /\ app' = RefreshAnswered(app, k.ans)
           \/ /\ c \in Writers
              /\ LET r == WriteAnswered(Ended(c), app, c, k.ans) IN net' = r.net /\ app' = r.app
           \/ /\ c = "pager"
              /\ net' = Ended(c) /\ app' = PageAnswered(app, k.ans)
  /\ UNCHANGED <<file, left>>

ServeSignIn ==
  /\ net.auth.phase = "sent"
  /\ net' = [net EXCEPT !.auth = [phase |-> "answered", token |-> file.key]]
  /\ UNCHANGED <<file, app, left>>

LoseSignIn ==
  /\ net.auth.phase # "idle"
  /\ Spend("lost")
  /\ net' = SignInFailed(net)
  /\ UNCHANGED <<file, app>>

ReceiveSignIn ==
  /\ net.auth.phase = "answered"
  /\ net' = SignedIn(net, net.auth.token)
  /\ UNCHANGED <<file, app, left>>

SignInMoves == ServeSignIn \/ ReceiveSignIn
CallMoves(c) == ServeCall(c) \/ Retry(c) \/ Receive(c)

ClientNext ==
  \/ Tick \/ TurnKey \/ Poll \/ FileForm \/ Contest \/ Sync \/ LoadEarlier \/ NoMatch \/ LoseSignIn
  \/ \E f \in Fields, v \in Values : Edit(f, v)
  \/ \E cmd \in Commands : Submit(cmd)
  \/ \E c \in Callers : Lose(c) \/ CallMoves(c)
  \/ SignInMoves

\* The timer goes on, and the platform ends every fetch, with an answer or without.
ClientFairness == WF_clientVars(Poll) /\ WF_clientVars(SignInMoves) /\ \A c \in Callers : WF_clientVars(CallMoves(c))

ClientSpec == ClientInit /\ [][ClientNext]_clientVars /\ ClientFairness

-----------------------------------------------------------------------------

\* A snapshot on screen is never replaced by an older one, however slow a request is and whoever asks for another
\* while it is out ("One refresh at a time: a slow request must not queue up behind a poll").
SnapshotsNeverGoBack ==
  [][app'.screen.ver >= app.screen.ver]_app

\* A request fails for want of a good token only if the signing key was changed while it was under way: callers that
\* share a sign-in, or forget a token another has just brought, do not lock one another out.
LockedOutByANewKey ==
  \A c \in Callers :
    (net.call[c].phase = "answered" /\ net.call[c].ans = Unauthorised /\ net.call[c].again)
      => file.key > net.call[c].since

\* What the officer was told is filed comes to be on screen, whether or not the refresh after it was skipped or failed.
WritesShow ==
  \A v \in 1..Max({b.acts + b.ticks : b \in Budgets}) : app.promised = v ~> (app.screen.ver >= v)
=============================================================================
