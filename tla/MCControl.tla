------------------------------ MODULE MCControl -------------------------------
(* Small instances of RepoRegistry, of Orgs and of Accounts. They share no  *)
(* state, so a behaviour moves one of them and leaves the others in their   *)
(* initial states: the states explored are their sum, not their product.    *)
EXTENDS RepoRegistry, Orgs, Accounts, TLC

VARIABLE part   \* the one that moves

(* Two spellings of one mailbox, besides the administrator's. *)
MCFold(e) == IF e = "Ann" THEN "ann" ELSE e

ASSUME RegistryAssumption /\ OrgsAssumption /\ AccountsAssumption

ControlInit ==
    /\ Init /\ OrgsInit /\ AccountsInit
    /\ part \in {"orgs", "accounts", "registry"}
    /\ part # "registry" => disk = {}
ControlNext ==
    /\ \/ part = "orgs"     /\ OrgsNext     /\ UNCHANGED <<vars, accountVars>>
       \/ part = "accounts" /\ AccountsNext /\ UNCHANGED <<vars, orgVars>>
       \/ part = "registry" /\ Next         /\ UNCHANGED <<orgVars, accountVars>>
    /\ UNCHANGED part
ControlSpec == ControlInit /\ [][ControlNext]_<<vars, orgVars, accountVars, part>>

Symmetry == Permutations(Users) \cup Permutations(Slugs)
=============================================================================
