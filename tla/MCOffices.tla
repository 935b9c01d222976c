------------------------------ MODULE MCOffices ------------------------------
(* Three offices that share nothing modelled here, checked side by side:   *)
(* the panel with a recruit's drawer and the forms before it, the regional *)
(* effort of two officers, and the records office, which keeps every row   *)
(* twice, as the two adapters do.  The initial state says which of them    *)
(* moves, so that the states add up instead of multiplying; the others     *)
(* stay where they start, the records office in the area with no rows.     *)
(* The drawer holds two, with three clauses on grades of one and two slots *)
(* and forms of one and two ticks, or one and three (MCLongForms); the     *)
(* guild has two short objectives in rotation.                             *)
EXTENDS Guild, Casework, Storage, TLC

VARIABLE office

MCTargets == <<2, 3>>
MCRestrictions == {NoSite, "annexe"}

MCClauses == {"e1", "e3", "r"}
MCRiders == {"r"}
MCMinGrade == [c \in MCClauses |-> IF c = "e3" THEN 2 ELSE 1]
MCClauseSlots == <<1, 2>>
MCWorth == [p \in Policies |-> [e1 |-> 1, e3 |-> 2, r |-> -1]]
MCFormTicks == [f \in Forms |-> IF f = "19" THEN 2 ELSE 1]
MCLongForms == [f \in Forms |-> IF f = "19" THEN 3 ELSE 1]
MCFormGold == [f \in Forms |-> 1]
MCFormStanding == [f \in Forms |-> IF f = "19" THEN 0 ELSE 2]

OfficesInit ==
  /\ office \in {"guild", "panel", "records"}
  /\ Init /\ DrawerInit /\ StorageInit
  /\ office # "records" => area = "careers"

OfficesNext ==
  /\ UNCHANGED office
  /\ \/ office = "guild" /\ Next /\ UNCHANGED <<drawerVars, storageVars>>
     \/ office = "panel" /\ DrawerNext /\ UNCHANGED <<vars, storageVars>>
     \/ office = "records" /\ StorageNext /\ UNCHANGED <<vars, drawerVars>>

OfficesSpec == OfficesInit /\ [][OfficesNext]_<<office, vars, drawerVars, storageVars>>
=============================================================================
