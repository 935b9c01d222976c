------------------------------- MODULE Ladders -------------------------------
(***************************************************************************)
(* The catalogues an officer buys from: pension rungs, requisitions and    *)
(* Commendations.  An entry is a record [track, tier, cost]; what an       *)
(* officer owns is a set of entries.                                       *)
(***************************************************************************)
EXTENDS Integers, FiniteSetsExt

TopTier == 3

Entry == [track: STRING, tier: 1..TopTier, cost: Nat]

(* A catalogue written as ladders: the tiers of a track are numbered from 1 *)
(* without a gap, each once, and a rung costs no less than those below it. *)
IsLadder(catalogue) ==
  \A e \in catalogue :
    /\ \A t \in 1..(e.tier - 1) : \E x \in catalogue : x.track = e.track /\ x.tier = t
    /\ \A f \in catalogue : f.track = e.track /\ f.tier <= e.tier =>
         f.cost <= e.cost /\ (f.tier = e.tier => f = e)

(* The highest tier of a track among the entries owned; 0 when none is.    *)
OwnedTier(owned, track) ==
  Max({0} \cup {e.tier : e \in {x \in owned : x.track = track}})

(* The next rung of its track: what every purchase checks before the price. *)
NextOnLadder(owned, entry) ==
  /\ entry \notin owned
  /\ OwnedTier(owned, entry.track) = entry.tier - 1

(* Tracks already carried to their top tier: each spends one licence.      *)
LicencesSpent(owned) ==
  Cardinality({e.track : e \in {x \in owned : x.tier = TopTier}})

(* Mutation: one licence more than there are.                              *)
LicenceBlockedLate(licences, owned, entry) ==
  /\ entry.tier >= TopTier
  /\ \A e \in owned : ~(e.tier = TopTier /\ e.track = entry.track)
  /\ LicencesSpent(owned) > licences

(* A Tier III rung on a track not yet licensed, with no licence left.      *)
LicenceBlocked(licences, owned, entry) ==
  /\ entry.tier >= TopTier
  /\ \A e \in owned : ~(e.tier = TopTier /\ e.track = entry.track)
  /\ LicencesSpent(owned) >= licences

(* Mutation: the price not looked at.                                      *)
Unpriced(catalogue, owned, licences, total) ==
  {e \in catalogue : NextOnLadder(owned, e) /\ ~LicenceBlocked(licences, owned, e)}

(* Entries an officer with this much to spend may buy next.                *)
Affordable(catalogue, owned, licences, total) ==
  {e \in catalogue : /\ NextOnLadder(owned, e)
                     /\ ~LicenceBlocked(licences, owned, e)
                     /\ total >= e.cost}

(* The cheapest of a set of entries: what the Junior Officer redeems.      *)
CheapestOf(entries) ==
  {e \in entries : \A f \in entries : e.cost <= f.cost}
=============================================================================
