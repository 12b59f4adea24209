----------------------------- MODULE MCAccounts -----------------------------
(* Accounts for TLC: one new and one old account, two addresses, two tabs.   *)
(* Tabs are alike, and addresses are: symmetry is sound for invariants.      *)
EXTENDS Accounts, TLC

TabsAndAddressesAlike == Permutations(Tabs) \cup Permutations(Addresses)
=============================================================================
