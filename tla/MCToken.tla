-------------------------------- MODULE MCToken --------------------------------
(***************************************************************************)
(* Model-checking instance of the modules about PKCS#11 tokens.  A         *)
(* behaviour is about threads that share the session pool (more of them    *)
(* than sessions), about the names that clients ask for, or about the keys *)
(* and signatures of a server.                                             *)
(***************************************************************************)
EXTENDS SessionPool, MCTokenServer

CONSTANTS a, b, c, d, s1, s2, s3
MCThread  == {a, b, c, d}
MCSession == {s1, s2, s3}

VARIABLE scene  \* "pool", "names" or "keys"

MCInit ==
    /\ scene \in {"pool", "names", "keys"}
    /\ Init
    /\ TokenInit

MCNext ==
    \/ scene = "pool" /\ Next /\ UNCHANGED <<scene, tokenVars>>
    \/ scene = "names" /\ TokenNext /\ NamesOnly /\ UNCHANGED <<scene, vars>>
    \/ scene = "keys" /\ TokenNext /\ KeysOnly /\ UNCHANGED <<scene, vars>>

MCSpec == MCInit /\ [][MCNext]_<<scene, vars, tokenVars>> /\ (scene = "pool" => Fairness)
=============================================================================
