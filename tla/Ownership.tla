----------------------------- MODULE Ownership -----------------------------
(***************************************************************************)
(* Who owns a position and who may do what: the ownership tables and roles *)
(* of the Pools contract (pkg/seawater/src/lib.rs) composed with the       *)
(* ERC-721 front end that moves positions through it                       *)
(* (pkg/sol/OwnershipNFTs.sol).                                            *)
(*                                                                         *)
(* The two contracts share no storage.  Pools trusts one address, its      *)
(* nft_manager, to move any position; OwnershipNFTs keeps the approvals    *)
(* and is meant to be that address.  Each call is one transaction; a call  *)
(* whose checks fail reverts and is no step.                               *)
(***************************************************************************)
EXTENDS Integers, FiniteSets

CONSTANTS
    Address,        \* the accounts that can call or own, contracts included
    Zero,           \* Address::ZERO, the owner of no position
    Nft,            \* the address of the OwnershipNFTs contract
    Contract,       \* the addresses with code, which get onERC721Received
    Acking,         \* the contracts that answer it with its selector
    Pool,           \* the pools
    Deployments,    \* arguments of ctor: <<admin, nft manager, council>>
    Appointees,     \* arguments of update_nft_manager and update_emergency_council
    Delegates,      \* arguments of setApprovalForAll and authorise_enabler
    MaxPositions,   \* bound: the number of position ids
    U256            \* the number of values of a 256-bit word

Id      == 0 .. MaxPositions - 1
Account == Address \cup {Zero}

ASSUME OwnershipAssumption ==
    /\ Zero \notin Address
    /\ Nft \in Address
    /\ Acking \subseteq Contract /\ Contract \subseteq Address
    /\ Deployments \subseteq Address \X Address \X Address
    /\ Appointees \subseteq Address /\ Delegates \subseteq Address
    /\ MaxPositions \in Nat
    /\ U256 \in Nat /\ MaxPositions < U256

VARIABLES
    seawater_admin, nft_manager, emergency_council,
    authorised_enablers,    \* the addresses whose entry is true
    enabled,                \* the pools whose `enabled' is true
    next_position_id,
    position_owners,        \* id -> owner
    owned_positions,        \* owner -> count
    getApproved,            \* OwnershipNFTs: id -> approved spender
    isApprovedForAll,       \* OwnershipNFTs: owner -> set of operators
    caller,                 \* history: the msg.sender of the last call
    approver,               \* history: id -> the account that gave the approval in force
    named_council           \* history: the account last named as the council

roles     == <<seawater_admin, nft_manager, emergency_council, named_council>>
tables    == <<position_owners, owned_positions>>
approvals == <<getApproved, isApprovedForAll, approver>>
vars == <<roles, authorised_enablers, enabled, next_position_id, tables, approvals, caller>>

Init ==
    /\ seawater_admin = Zero /\ nft_manager = Zero /\ emergency_council = Zero
    /\ authorised_enablers = {}
    /\ enabled = {}
    /\ next_position_id = 0
    /\ position_owners = [id \in Id |-> Zero]
    /\ owned_positions = [a \in Account |-> 0]
    /\ getApproved = [id \in Id |-> Zero]
    /\ isApprovedForAll = [a \in Address |-> {}]
    /\ caller = Zero
    /\ approver = [id \in Id |-> Zero]
    /\ named_council = Zero

-----------------------------------------------------------------------------
(* Roles *)

\* ctor, called once by the proxy's constructor
Ctor(sender, admin, manager, council) ==
    /\ seawater_admin = Zero
    /\ seawater_admin' = admin
    /\ nft_manager' = manager
    /\ emergency_council' = council
    /\ caller' = sender /\ named_council' = council
    /\ UNCHANGED <<authorised_enablers, enabled, next_position_id, tables, approvals>>

UpdateNftManager(sender, manager) ==
    /\ sender = seawater_admin
    /\ nft_manager' = manager
    /\ caller' = sender
    /\ UNCHANGED <<seawater_admin, emergency_council, authorised_enablers, enabled,
                   next_position_id, tables, approvals, named_council>>

\* update_emergency_council writes the nft_manager slot.
UpdateEmergencyCouncil(sender, council) ==
    /\ sender = seawater_admin
    /\ nft_manager' = council
    /\ caller' = sender /\ named_council' = council
    /\ UNCHANGED <<seawater_admin, emergency_council, authorised_enablers, enabled,
                   next_position_id, tables, approvals>>

AuthoriseEnabler(sender, enabler, on) ==
    /\ sender = seawater_admin
    /\ authorised_enablers' = IF on THEN authorised_enablers \cup {enabler}
                                    ELSE authorised_enablers \ {enabler}
    /\ caller' = sender
    /\ UNCHANGED <<roles, enabled, next_position_id, tables, approvals>>

\* The admin, the council and the enablers; the council can only disable,
\* unless it is the admin.
may_enable(sender, on) ==
    /\ sender \in {seawater_admin, emergency_council} \cup authorised_enablers
    /\ ~(sender = emergency_council /\ sender # seawater_admin /\ on)

EnablePool(sender, pool, on) ==
    /\ may_enable(sender, on)
    /\ enabled' = IF on THEN enabled \cup {pool} ELSE enabled \ {pool}
    /\ caller' = sender
    /\ UNCHANGED <<roles, authorised_enablers, next_position_id, tables, approvals>>

\* disable_pools, of the migrations build
DisablePools(sender, pools) ==
    /\ sender = seawater_admin
    /\ enabled' = enabled \ pools
    /\ caller' = sender
    /\ UNCHANGED <<roles, authorised_enablers, next_position_id, tables, approvals>>

-----------------------------------------------------------------------------
(* Positions, in Pools *)

\* The counting half of grant_position, on U256.
count_up(counts, owner) == [counts EXCEPT ![owner] = (@ + 1) % U256]

\* Mutant of count_down: the subtraction leaves the word.
count_down_signed(counts, owner) == [counts EXCEPT ![owner] = @ - 1]

\* The counting half of remove_position, on U256.
count_down(counts, owner) == [counts EXCEPT ![owner] = (@ - 1) % U256]

\* mint_position: the id is the counter's, the owner the sender.
MintPosition(sender, pool) ==
    /\ pool \in enabled
    /\ next_position_id \in Id
    /\ next_position_id' = next_position_id + 1
    /\ position_owners' = [position_owners EXCEPT ![next_position_id] = sender]
    /\ owned_positions' = count_up(owned_positions, sender)
    /\ caller' = sender
    /\ UNCHANGED <<roles, authorised_enablers, enabled, approvals>>

\* Mutant of BurnPosition: anyone may burn.
BurnPositionByAnyone(sender, id) ==
    /\ position_owners[id] # Zero
    /\ position_owners' = [position_owners EXCEPT ![id] = Zero]
    /\ owned_positions' = count_down(owned_positions, position_owners[id])
    /\ caller' = sender
    /\ UNCHANGED <<roles, authorised_enablers, enabled, next_position_id, approvals>>

\* burn_position: nothing but the owner is checked, and the approval stays.
BurnPosition(sender, id) ==
    /\ position_owners[id] = sender
    /\ position_owners' = [position_owners EXCEPT ![id] = Zero]
    /\ owned_positions' = count_down(owned_positions, sender)
    /\ caller' = sender
    /\ UNCHANGED <<roles, authorised_enablers, enabled, next_position_id, approvals>>

\* Mutant of transfer_position: the sender's count is not decremented.
transfer_position_grant_only(id, from, to) ==
    /\ position_owners' = [position_owners EXCEPT ![id] = to]
    /\ owned_positions' = count_up(owned_positions, to)

\* transfer_position: remove_position(from), then grant_position(to).
transfer_position(id, from, to) ==
    /\ position_owners' = [position_owners EXCEPT ![id] = to]
    /\ owned_positions' = count_up(count_down(owned_positions, from), to)

\* A direct call by an nft_manager that is an ordinary account; `from' is
\* compared with nothing.
TransferPosition(sender, id, from, to) ==
    /\ sender = nft_manager
    /\ transfer_position(id, from, to)
    /\ caller' = sender
    /\ UNCHANGED <<roles, authorised_enablers, enabled, next_position_id, approvals>>

-----------------------------------------------------------------------------
(* OwnershipNFTs *)

\* Mutant of _requireAuthorised: the owner is not compared with `from'.
requireAllowed(sender, from, id) ==
    \/ sender = from
    \/ from \in Address /\ sender \in isApprovedForAll[from]
    \/ sender = getApproved[id]

\* _requireAuthorised
requireAuthorised(sender, from, id) ==
    /\ \/ sender = from
       \/ from \in Address /\ sender \in isApprovedForAll[from]
       \/ sender = getApproved[id]
    /\ position_owners[id] = from

\* transferFrom: Pools accepts the call only from its nft_manager.
TransferFrom(sender, from, to, id) ==
    /\ requireAuthorised(sender, from, id)
    /\ nft_manager = Nft
    /\ transfer_position(id, from, to)
    /\ caller' = sender
    /\ UNCHANGED <<roles, authorised_enablers, enabled, next_position_id, approvals>>

\* _onTransferReceived passes: an account without code, or a contract whose
\* answer differs from the selector.
onTransferReceived(to) == to \in Contract => to \notin Acking

SafeTransferFrom(sender, from, to, id) ==
    /\ onTransferReceived(to)
    /\ TransferFrom(sender, from, to, id)

\* approve: only the owner passes _requireAuthorised(msg.sender, id).
Approve(sender, approved, id) ==
    /\ requireAuthorised(sender, sender, id)
    /\ getApproved' = [getApproved EXCEPT ![id] = approved]
    /\ caller' = sender
    /\ approver' = [approver EXCEPT ![id] = IF approved = Zero THEN Zero ELSE sender]
    /\ UNCHANGED <<roles, authorised_enablers, enabled, next_position_id, tables,
                   isApprovedForAll>>

SetApprovalForAll(sender, operator, approved) ==
    /\ isApprovedForAll' = [isApprovedForAll EXCEPT
           ![sender] = IF approved THEN @ \cup {operator} ELSE @ \ {operator}]
    /\ caller' = sender
    /\ UNCHANGED <<roles, authorised_enablers, enabled, next_position_id, tables,
                   getApproved, approver>>

-----------------------------------------------------------------------------
Govern(sender) ==
    \/ \E d \in Deployments : Ctor(sender, d[1], d[2], d[3])
    \/ \E manager \in Appointees : UpdateNftManager(sender, manager)
    \/ \E council \in Appointees : UpdateEmergencyCouncil(sender, council)
    \/ \E a \in Delegates, on \in BOOLEAN : AuthoriseEnabler(sender, a, on)
    \/ \E pool \in Pool, on \in BOOLEAN : EnablePool(sender, pool, on)
    \/ \E pools \in SUBSET Pool : DisablePools(sender, pools)

\* "Requires that the `from' address is the current owner of the position":
\* what transfer_position asks of a caller other than OwnershipNFTs.
CallingRequirement(id, from) == from \in Address /\ from = position_owners[id]

Own(sender) ==
    \/ \E pool \in Pool : MintPosition(sender, pool)
    \/ \E id \in Id : BurnPosition(sender, id)
    \/ \E id \in Id, from, to \in Account :
           CallingRequirement(id, from) /\ TransferPosition(sender, id, from, to)

Trade(sender) ==
    \/ \E from, to \in Account, id \in Id : TransferFrom(sender, from, to, id)
    \/ \E from, to \in Account, id \in Id : SafeTransferFrom(sender, from, to, id)
    \/ \E a \in Account, id \in Id : Approve(sender, a, id)
    \/ \E a \in Delegates, on \in BOOLEAN : SetApprovalForAll(sender, a, on)

\* OwnershipNFTs calls Pools only from within transferFrom and safeTransferFrom.
Next == \E sender \in Address \ {Nft} : Govern(sender) \/ Own(sender) \/ Trade(sender)

Spec == Init /\ [][Next]_vars

-----------------------------------------------------------------------------
(* Properties *)

\* The tables keep their types; position counts stay within a 256-bit word.
TypeOK ==
    /\ seawater_admin \in Account /\ nft_manager \in Account /\ emergency_council \in Account
    /\ authorised_enablers \subseteq Address
    /\ enabled \subseteq Pool
    /\ next_position_id \in 0 .. MaxPositions
    /\ position_owners \in [Id -> Account]
    /\ owned_positions \in [Account -> 0 .. U256 - 1]
    /\ getApproved \in [Id -> Account]
    /\ isApprovedForAll \in [Address -> SUBSET Address]
    /\ caller \in Account /\ named_council \in Account
    /\ approver \in [Id -> Account]

Owned(a) == {id \in Id : position_owners[id] = a}

\* positionBalance (balanceOf of the NFT) of every account is the number of
\* positions that positionOwner (ownerOf) says it owns, whatever sequence of
\* mints, burns, approvals and transfers through either contract came before.
BalancesMatchOwners ==
    \A a \in Address : owned_positions[a] = Cardinality(Owned(a))

\* An id that the counter has not reached has no owner and no approval, so a
\* mint never takes over a position.
UnmintedIsFree ==
    \A id \in Id : id >= next_position_id =>
        position_owners[id] = Zero /\ getApproved[id] = Zero

\* The position leaves an owner in this step.
Leaves(id) == position_owners[id] # Zero /\ position_owners'[id] # position_owners[id]

\* The caller of this step is the owner of the position, an operator of that
\* owner, or the NFT manager.
CallerIsOwners(id) ==
    \/ caller' \in {position_owners[id], nft_manager}
    \/ caller' \in isApprovedForAll[position_owners[id]]

\* A position leaves its owner only in a call by the owner, by an operator of the
\* owner, by the nft_manager itself or by the spender that the owner approved.  Of
\* a position whose approval was left behind by an earlier owner nothing is said.
MovesByConsent ==
    [][\A id \in Id :
          (Leaves(id) /\ (getApproved[id] = Zero \/ approver[id] = position_owners[id])) =>
              CallerIsOwners(id) \/ caller' = getApproved[id]]_vars

\* "Only the owner can modify their positions": a position never leaves its owner
\* in a call by a spender to which that owner has given no approval.
OnlyOwnerConsents ==
    [][\A id \in Id :
          Leaves(id) =>
              \/ CallerIsOwners(id)
              \/ caller' = getApproved[id] /\ approver[id] = position_owners[id]]_vars

\* Burning "leaves any liquidity or fees left in the position inaccessible": an id
\* that has been handed out and has no owner never has one again.
BurntIsGone ==
    [][\A id \in Id :
          (id < next_position_id /\ position_owners[id] = Zero) =>
              position_owners'[id] = Zero]_vars

\* update_emergency_council updates "the emergency council that can disable the
\* pools": the account last named as the council may disable a pool.
NamedCouncilCanDisable == named_council # Zero => may_enable(named_council, FALSE)

=============================================================================
