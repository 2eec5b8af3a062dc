------------------------------ MODULE MCWallet ------------------------------
(***************************************************************************)
(* Small instances of Wallet.  Tenants are interchangeable, and so one of  *)
(* them is taken for the first that a wallet or a cost entry names.        *)
(***************************************************************************)
EXTENDS Wallet

Named == {wallets[w].tenant : w \in Open} \cup ({costs[c].tenant : c \in CostIds} \ {None})
FirstTenant == CHOOSE t \in Tenants : TRUE

MCNext == Next /\ (Named = {} => Named' \subseteq {FirstTenant})

\* FairSpec with this choice.
MCSpec == Init /\ [][MCNext]_vars /\ WF_vars(DeductWallets) /\ WF_vars(Restart)
=============================================================================
