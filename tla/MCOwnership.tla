---------------------------- MODULE MCOwnership ----------------------------
(***************************************************************************)
(* Small instances of Ownership for TLC: two accounts, one of them with    *)
(* code, and the NFT contract.  The number of ids is the only bound; call  *)
(* sequences of every length are explored.                                 *)
(***************************************************************************)
EXTENDS Ownership

CONSTANTS alice, bob    \* two accounts; bob has code

Accounts == {alice, bob, Nft}
BobOnly  == {bob}
BobOrNft == {bob, Nft}
OnePool  == {0}

\* The NFT contract is the manager; the council is another account than the
\* admin, or the admin itself.
OneDeployment == {<<alice, Nft, bob>>}
AdminCouncil  == {<<alice, Nft, alice>>}

=============================================================================
