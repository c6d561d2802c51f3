---------------------------- MODULE MCDeployment ----------------------------
(* Values of the constants of Deployment for TLC.                           *)
EXTENDS Deployment, TLC

CONSTANTS k1, k2, alice, bob

Env(management, viewer, in_memory, encryption) ==
  [management |-> management, viewer |-> viewer, strategy |-> TRUE,
   in_memory |-> in_memory, database_url |-> TRUE, encryption |-> encryption]

\* The database with either key and with none, the second time with the tokens
\* exchanged; the in-memory storage; a setting main rejects.
Settings5 ==
  {Env(alice, bob, FALSE, k1), Env(bob, alice, FALSE, k2), Env(alice, Unset, FALSE, Unset),
   Env(alice, Unset, TRUE, k1), Env(alice, Unset, FALSE, "invalid")}

Masks == [t \in Token |-> IF t = alice THEN "token:alicexyz" ELSE "token:********"]
Symmetry == Permutations(Call)
=============================================================================
