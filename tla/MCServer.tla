------------------------------ MODULE MCServer ------------------------------
(* Two servers and a deploy: in production, on a laptop, of both, and with *)
(* a server that has no database or may not start.                         *)
EXTENDS Server, TLC

CONSTANTS s1, s2, d

Production == [production |-> TRUE, secret |-> "long", database |-> TRUE, origins |-> TRUE,
               autoMigrate |-> "unset", devTools |-> TRUE]
Laptop == [Production EXCEPT !.production = FALSE, !.secret = "default"]
InMemory == [Laptop EXCEPT !.database = FALSE]
Forgetful == [Production EXCEPT !.secret = "default"]

MCEnv == {Production, Laptop, InMemory, Forgetful}
MCHosts == {s1 :> x[1] @@ s2 :> x[2] @@ d :> Production :
            x \in {<<Production, Laptop>>, <<Laptop, Laptop>>,
                   <<Production, InMemory>>, <<Laptop, Forgetful>>}}
MCBuild == [p \in Processes |-> LastMigration]
=============================================================================
