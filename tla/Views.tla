-------------------------------- MODULE Views --------------------------------
(***************************************************************************)
(* What the server derives from an account and never stores: the offers of *)
(* the three ladders, the screens an officer is cleared for, and the one   *)
(* piece of advice on the Terminal.                                        *)
(*                                                                         *)
(* Levels, unpaid staff, filed orders and a permit in flight are not kept  *)
(* by Career; a property about a view holds for all of them.               *)
(***************************************************************************)
EXTENDS Career

(* The three catalogues are ladders, and one tick of service is worth a    *)
(* point of pension after rounding, whatever Service Credit is held.       *)
ASSUME ViewsAssumption ==
  /\ \A catalogue \in {Rungs, Requisitions, Commendations} : IsLadder(catalogue)
  /\ \A tier \in 0..TopTier : ServiceRate * 100 * Credit[tier] >= 500000

(* The levels clearance tells apart.                                       *)
Levels == {1, 2, 4}

(* The recruit of GET /v1/state: the living one, else the latest by number. *)
Shown == {recruits[i] : i \in IF Active # {} THEN Active ELSE LatestIn(recruits)}

-----------------------------------------------------------------------------
(* Offers *)

(* Mutation: the licence rule left to the handler.                         *)
UnlockBlockedNever(owned, entry) == FALSE

(* Why a rung of the pension ladder is unbuyable whatever is banked.       *)
UnlockBlocked(owned, entry) == LicenceBlocked(Licences, owned, entry)

(* The next unbought rung of every track: one offer per track.             *)
OnOffer(catalogue, owned) ==
  {e \in catalogue \ owned :
     \A f \in catalogue \ owned : f.track = e.track => e.tier <= f.tier}

(* The offers an officer may press: priced, and for unlocks, licensed.     *)
UnlockOffers == {e \in OnOffer(Rungs, pension.unlocks) :
                   ~UnlockBlocked(pension.unlocks, e) /\ pension.total >= e.cost}

LadderOffers(catalogue, owned, available) ==
  {e \in OnOffer(catalogue, owned) : available >= e.cost}

-----------------------------------------------------------------------------
(* Clearance *)

(* Mutation: the permit alone, which a successor inherits a tier lower.    *)
ClearedByPermit(r, level, p) ==
  {"terminal", "orders"}
  \cup (IF level >= 2 \/ p.total + p.spent > 0 THEN {"ledger"} ELSE {})
  \cup (IF r.permit >= 2 THEN {"bulletin"} ELSE {})
  \cup (IF level >= 4 \/ r.num > 1 THEN {"tavern"} ELSE {})
  \cup (IF r.permit >= 3 THEN {"armoury"} ELSE {})

Cleared(r, level, p) ==
  {"terminal", "orders"}
  \cup (IF level >= 2 \/ p.total + p.spent > 0 THEN {"ledger"} ELSE {})
  \cup (IF r.permit >= 2 \/ r.num > 1 THEN {"bulletin"} ELSE {})
  \cup (IF level >= 4 \/ r.num > 1 THEN {"tavern"} ELSE {})
  \cup (IF r.permit >= 3 \/ r.num > 1 THEN {"armoury"} ELSE {})

-----------------------------------------------------------------------------
(* Advice *)

NoEntry == [track |-> "none", tier |-> 0, cost |-> 0]

Advice(kind, screen, entry) == [kind |-> kind, screen |-> screen, entry |-> entry]

(* The first of the cheapest: a catalogue lists the tiers of a track in    *)
(* order, and ties between tracks go by its order too, which is left open. *)
FirstCheapest(entries) ==
  {e \in CheapestOf(entries) :
     \A f \in CheapestOf(entries) : f.track = e.track => e.tier <= f.tier}

(* Mutation: the cheapest of the catalogue, owned or not.                  *)
CheapestEver(catalogue, owned) == FirstCheapest(catalogue)

CheapestUnbought(catalogue, owned) == FirstCheapest(catalogue \ owned)

(* The rules speak in order: the next one only when this one is silent.    *)
Else(advice, next) == IF advice # {} THEN advice ELSE next

When(condition, advice) == IF condition THEN advice ELSE {}

File == {Advice("file", "orders", NoEntry)}

(* The three steps of the tutorial; silent once they are done, and while   *)
(* the Ledger they point at is not cleared.                                *)
TutorialStep(filed, screens) ==
  Else(When(~filed, File),
  When("ledger" \in screens,
    Else(When(office = {}, {Advice("sell", "ledger", e) : e \in FirstCheapest(Requisitions)}),
    When(pension.unlocks = {},
         {Advice("redeem", "ledger", e) :
            e \in {u \in FirstCheapest(Rungs) : pension.total >= u.cost}}))))

(* actionFor: what costs most to miss comes first.                         *)
Situation(filed, unpaid, mayExpedite, gold, screens) ==
  Else(When(~filed, File),
  Else(When("ledger" \in screens,
    Else(When(unpaid, {Advice("pay", "ledger", NoEntry)}),
    Else({Advice("redeem", "ledger", e) :
            e \in {u \in CheapestUnbought(Rungs, pension.unlocks) : pension.total >= u.cost}},
         {Advice("requisition", "ledger", e) :
            e \in {k \in CheapestUnbought(Requisitions, office) : gold >= k.cost}}))),
  When(mayExpedite /\ gold >= Fee, {Advice("expedite", "terminal", NoEntry)})))

(* guidanceFor: staff who have stopped work outrank the tutorial, and the  *)
(* tutorial everything else.                                               *)
Guidance(filed, unpaid, mayExpedite, gold, screens) ==
  Else(When(~(unpaid /\ "ledger" \in screens), TutorialStep(filed, screens)),
       Situation(filed, unpaid, mayExpedite, gold, screens))

-----------------------------------------------------------------------------
(* Safety *)

(* What a screen offers as affordable is what the handler would accept, on *)
(* all three ladders: the screens find the next rung by looking for one    *)
(* not owned, the handlers by counting tiers.                              *)
OffersAreHonoured ==
  /\ UnlockOffers = Affordable(Rungs, pension.unlocks, Licences, pension.total)
  /\ \A r \in Shown :
       LadderOffers(Requisitions, office, r.gold) =
         {e \in Requisitions : NextOnLadder(office, e) /\ r.gold >= e.cost}
  /\ LadderOffers(Commendations, transfer.unlocks, transfer.total) =
       {e \in Commendations : NextOnLadder(transfer.unlocks, e) /\ transfer.total >= e.cost}

(* Advice can be taken: it names a screen the officer is cleared for, and  *)
(* what it says can be afforded is accepted, except by the rule guidance   *)
(* does not know: a Tier III rung with no licence left.  (The purse is     *)
(* that of a recruit still alive to spend it.)                             *)
AdviceCanBeTaken ==
  \A filed, unpaid, mayExpedite \in BOOLEAN, level \in Levels, r \in Shown :
    LET screens == Cleared(r, level, pension)
    IN  \A a \in Guidance(filed, unpaid, mayExpedite, r.gold, screens) :
          /\ a.screen \in screens
          /\ a.kind = "redeem" =>
               \/ a.entry \in Affordable(Rungs, pension.unlocks, Licences, pension.total)
               \/ LicenceBlocked(Licences, pension.unlocks, a.entry)
          /\ (a.kind = "requisition" /\ r.alive) => NextOnLadder(office, a.entry)

-----------------------------------------------------------------------------
(* What a step may never do *)

(* A screen never disappears after a funeral: whatever level a recruit had *)
(* served its way to, its successor at level 1 opens as much.  (Until a    *)
(* Form T-1, which takes the pension and restarts the numbers.)            *)
ScreensSurviveFunerals ==
  [][transfer'.careers = 0 =>
       \A r \in Shown, s \in Shown', level \in Levels :
         (level = 1 \/ r.last > r.born) =>
           Cleared(r, level, pension) \subseteq
             Cleared(s, IF s.num = r.num THEN level ELSE 1, pension')]_vars
=============================================================================
