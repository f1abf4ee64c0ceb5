-------------------------- MODULE OwnershipProofs --------------------------
(***************************************************************************)
(* Proofs of the safety properties of Ownership for every set of accounts, *)
(* every number of positions and every sequence of calls.                  *)
(***************************************************************************)
EXTENDS Ownership, FiniteSetTheorems, TLAPS

-----------------------------------------------------------------------------
(* Counting *)

\* A count that stays below the word size does not wrap, and one that wraps is
\* again a word.
LEMMA ModType ==
    ASSUME NEW n \in Int, NEW m \in Nat \ {0}
    PROVE  n % m \in 0 .. m - 1
OBVIOUS

\* The remainder of a count that fits the word is the count itself.
LEMMA ModSmall ==
    ASSUME NEW n \in Nat, NEW m \in Nat \ {0}, n < m
    PROVE  n % m = n
OBVIOUS

\* The tables of counts stay tables of words.
LEMMA CountType ==
    ASSUME NEW counts \in [Account -> 0 .. U256 - 1], NEW owner \in Account
    PROVE  /\ count_up(counts, owner) \in [Account -> 0 .. U256 - 1]
           /\ count_down(counts, owner) \in [Account -> 0 .. U256 - 1]
<1>1. U256 \in Nat \ {0} /\ counts[owner] \in Int
  BY OwnershipAssumption
<1>2. counts[owner] + 1 \in Int /\ counts[owner] - 1 \in Int
  BY <1>1
<1>3. (counts[owner] + 1) % U256 \in 0 .. U256 - 1 /\ (counts[owner] - 1) % U256 \in 0 .. U256 - 1
  BY <1>1, <1>2, ModType
<1> QED  BY <1>3 DEF count_up, count_down

Held(owners, a) == {id \in Id : owners[id] = a}

\* A set of position ids is finite, and no larger than the number of ids.
LEMMA HeldFinite ==
    ASSUME NEW owners, NEW a
    PROVE  /\ IsFiniteSet(Held(owners, a))
           /\ Cardinality(Held(owners, a)) \in Nat
           /\ Cardinality(Held(owners, a)) <= MaxPositions
<1>1. IsFiniteSet(Id) /\ Cardinality(Id) = MaxPositions
  <2>1. 0 \in Int /\ MaxPositions - 1 \in Int
    BY OwnershipAssumption
  <2>2. IsFiniteSet(0 .. MaxPositions - 1)
        /\ Cardinality(0 .. MaxPositions - 1) =
             IF 0 > MaxPositions - 1 THEN 0 ELSE MaxPositions - 1 - 0 + 1
    BY <2>1, FS_Interval
  <2> QED  BY <2>2, OwnershipAssumption DEF Id
<1>2. Held(owners, a) \subseteq Id
  BY DEF Held
<1> QED  BY <1>1, <1>2, FS_Subset, FS_CardinalityType

\* Giving position id to `to' changes the number of positions of an account by
\* one, up or down, or not at all.
LEMMA Reowned ==
    ASSUME NEW owners \in [Id -> Account], NEW id \in Id, NEW to \in Account,
           NEW new, \A i \in Id : new[i] = IF i = id THEN to ELSE owners[i], NEW a \in Account
    PROVE  /\ (a = to /\ owners[id] # a) =>
                  Cardinality(Held(new, a)) = Cardinality(Held(owners, a)) + 1
           /\ (a # to /\ owners[id] = a) =>
                  /\ Cardinality(Held(new, a)) = Cardinality(Held(owners, a)) - 1
                  /\ Cardinality(Held(owners, a)) > 0
           /\ ((a = to) <=> (owners[id] = a)) =>
                  Cardinality(Held(new, a)) = Cardinality(Held(owners, a))
<1>1. IsFiniteSet(Held(owners, a)) /\ Cardinality(Held(owners, a)) \in Nat
  BY HeldFinite
<1>2. CASE a = to /\ owners[id] # a
  <2>1. Held(new, a) = Held(owners, a) \cup {id} /\ id \notin Held(owners, a)
    BY <1>2 DEF Held
  <2> QED  BY <1>1, <1>2, <2>1, FS_AddElement
<1>3. CASE a # to /\ owners[id] = a
  <2>1. Held(new, a) = Held(owners, a) \ {id} /\ id \in Held(owners, a)
    BY <1>3 DEF Held
  <2>2. IsFiniteSet(Held(new, a)) /\ Cardinality(Held(new, a)) \in Nat
    BY HeldFinite
  <2>3. Cardinality(Held(new, a)) = Cardinality(Held(owners, a)) - 1
    BY <1>1, <2>1, FS_RemoveElement
  <2> QED  BY <1>1, <1>3, <2>2, <2>3
<1>4. CASE (a = to) <=> (owners[id] = a)
  <2>1. Held(new, a) = Held(owners, a)
    BY <1>4 DEF Held
  <2> QED  BY <1>4, <2>1
<1> QED  BY <1>2, <1>3, <1>4

\* mint_position counts right: the new owner of an unowned position has one more.
LEMMA CountedGrant ==
    ASSUME TypeOK, BalancesMatchOwners, NEW id \in Id, NEW to \in Address,
           position_owners[id] = Zero,
           \A i \in Id : position_owners'[i] = IF i = id THEN to ELSE position_owners[i],
           owned_positions' = count_up(owned_positions, to)
    PROVE  BalancesMatchOwners' /\ owned_positions' \in [Account -> 0 .. U256 - 1]
<1>1. owned_positions' \in [Account -> 0 .. U256 - 1]
  BY CountType DEF TypeOK, Account
<1>2. ASSUME NEW a \in Address
      PROVE  owned_positions'[a] = Cardinality(Held(position_owners', a))
  <2> DEFINE before == Cardinality(Held(position_owners, a))
             after  == Cardinality(Held(position_owners', a))
  <2>1. owned_positions[a] = before /\ a \in Account /\ a # Zero
    BY OwnershipAssumption DEF BalancesMatchOwners, Owned, Held, Account
  <2>2. before \in Nat /\ after \in Nat /\ before <= MaxPositions /\ after <= MaxPositions
    BY HeldFinite
  <2>3. IF a = to THEN after = before + 1 ELSE after = before
    <3>1. position_owners \in [Id -> Account] /\ to \in Account
      BY <2>1 DEF TypeOK, Account
    <3> QED  BY <2>1, <3>1, Reowned
  <2>4. CASE a = to
    <3>1. owned_positions'[a] = (before + 1) % U256
      BY <2>1, <2>4 DEF TypeOK, count_up
    <3>2. (before + 1) % U256 = before + 1
      BY <2>2, <2>3, <2>4, OwnershipAssumption, ModSmall
    <3> QED  BY <2>3, <2>4, <3>1, <3>2
  <2>5. CASE a # to
    BY <2>1, <2>3, <2>5 DEF TypeOK, count_up
  <2> QED  BY <2>4, <2>5
<1> QED  BY <1>1, <1>2 DEF BalancesMatchOwners, Owned, Held

\* burn_position counts right: the owner has one position less.
LEMMA CountedRemoval ==
    ASSUME TypeOK, BalancesMatchOwners, NEW id \in Id, NEW from \in Address,
           position_owners[id] = from,
           \A i \in Id : position_owners'[i] = IF i = id THEN Zero ELSE position_owners[i],
           owned_positions' = count_down(owned_positions, from)
    PROVE  BalancesMatchOwners' /\ owned_positions' \in [Account -> 0 .. U256 - 1]
<1>1. owned_positions' \in [Account -> 0 .. U256 - 1]
  BY CountType DEF TypeOK, Account
<1>2. ASSUME NEW a \in Address
      PROVE  owned_positions'[a] = Cardinality(Held(position_owners', a))
  <2> DEFINE before == Cardinality(Held(position_owners, a))
             after  == Cardinality(Held(position_owners', a))
  <2>1. owned_positions[a] = before /\ a \in Account /\ a # Zero /\ Zero \in Account
    BY OwnershipAssumption DEF BalancesMatchOwners, Owned, Held, Account
  <2>2. before \in Nat /\ after \in Nat /\ before <= MaxPositions
    BY HeldFinite
  <2>3. IF a = from THEN after = before - 1 /\ before > 0 ELSE after = before
    <3>1. position_owners \in [Id -> Account] /\ Zero \in Account
      BY <2>1 DEF TypeOK, Account
    <3> QED  BY <2>1, <3>1, Reowned
  <2>4. CASE a = from
    <3>1. owned_positions'[a] = (before - 1) % U256
      BY <2>1, <2>4 DEF TypeOK, count_down
    <3>2. (before - 1) % U256 = before - 1
      BY <2>2, <2>3, <2>4, OwnershipAssumption, ModSmall
    <3> QED  BY <2>3, <2>4, <3>1, <3>2
  <2>5. CASE a # from
    BY <2>1, <2>3, <2>5 DEF TypeOK, count_down
  <2> QED  BY <2>4, <2>5
<1> QED  BY <1>1, <1>2 DEF BalancesMatchOwners, Owned, Held

\* transfer_position counts right when `from' is the recorded owner, also when it
\* is the new owner, and when either is the zero address.
LEMMA CountedTransfer ==
    ASSUME TypeOK, BalancesMatchOwners, NEW id \in Id, NEW from \in Account, NEW to \in Account,
           position_owners[id] = from,
           transfer_position(id, from, to)
    PROVE  BalancesMatchOwners' /\ owned_positions' \in [Account -> 0 .. U256 - 1]
<1>0. U256 \in Nat \ {0}
  BY OwnershipAssumption
<1> DEFINE mid == count_down(owned_positions, from)
<1>m. mid \in [Account -> 0 .. U256 - 1]
  BY CountType DEF TypeOK
<1>u. owned_positions' = count_up(mid, to)
      /\ position_owners' = [position_owners EXCEPT ![id] = to]
  BY DEF transfer_position
<1> HIDE DEF mid
<1>1. owned_positions' \in [Account -> 0 .. U256 - 1]
  BY <1>m, <1>u, CountType
<1>2. ASSUME NEW a \in Address
      PROVE  owned_positions'[a] = Cardinality(Held(position_owners', a))
  <2> DEFINE before == Cardinality(Held(position_owners, a))
             after  == Cardinality(Held(position_owners', a))
  <2>1. owned_positions[a] = before /\ a \in Account
    BY OwnershipAssumption DEF BalancesMatchOwners, Owned, Held, Account
  <2>2. before \in Nat /\ after \in Nat /\ before <= MaxPositions /\ after <= MaxPositions
    BY HeldFinite
  <2>3. /\ (a = to /\ a # from) => after = before + 1
        /\ (a # to /\ a = from) => after = before - 1 /\ before > 0
        /\ ((a = to) <=> (a = from)) => after = before
    <3>1. position_owners \in [Id -> Account]
      BY DEF TypeOK
    <3>2. \A i \in Id : position_owners'[i] = IF i = id THEN to ELSE position_owners[i]
      BY <3>1, <1>u
    <3> QED  BY <2>1, <3>1, <3>2, Reowned
  <2>4. IF a = from THEN before > 0 /\ mid[a] = before - 1 ELSE mid[a] = before
    <3>1. CASE a = from
      <4>1. mid[a] = (before - 1) % U256
        BY <2>1, <3>1 DEF TypeOK, count_down, mid
      <4>2. before > 0
        <5>1. id \in Held(position_owners, a)
          BY <3>1 DEF Held
        <5> QED  BY <5>1, <2>2, HeldFinite, FS_EmptySet
      <4>3. (before - 1) % U256 = before - 1
        BY <2>2, <4>2, <1>0, OwnershipAssumption, ModSmall
      <4> QED  BY <3>1, <4>1, <4>2, <4>3
    <3>2. CASE a # from
      BY <2>1, <3>2 DEF TypeOK, count_down, mid
    <3> QED  BY <3>1, <3>2
  <2>5. IF a = to THEN owned_positions'[a] = (mid[a] + 1) % U256
                  ELSE owned_positions'[a] = mid[a]
    BY <1>m, <1>u, <2>1 DEF count_up
  <2>6. a = to => (mid[a] + 1) % U256 = mid[a] + 1
    <3>1. ASSUME a = to PROVE mid[a] + 1 \in Nat /\ mid[a] + 1 < U256
      BY <3>1, <2>2, <2>3, <2>4, OwnershipAssumption
    <3> QED  BY <3>1, <1>0, ModSmall
  <2>7. a = to => after = mid[a] + 1
    BY <2>2, <2>3, <2>4
  <2>8. a # to => after = mid[a]
    BY <2>2, <2>3, <2>4
  <2> QED  BY <2>5, <2>6, <2>7, <2>8
<1> QED  BY <1>1, <1>2 DEF BalancesMatchOwners, Owned, Held

-----------------------------------------------------------------------------
(* The invariant *)

OwnershipInv == TypeOK /\ UnmintedIsFree /\ BalancesMatchOwners

\* Before ctor no position has an owner and every count is zero.
LEMMA OwnershipInit == Init => OwnershipInv
<1> SUFFICES ASSUME Init PROVE OwnershipInv
  OBVIOUS
<1>1. TypeOK
  BY OwnershipAssumption DEF Init, TypeOK, Account
<1>2. UnmintedIsFree
  BY DEF Init, UnmintedIsFree
<1>3. ASSUME NEW a \in Address PROVE owned_positions[a] = Cardinality(Owned(a))
  <2>1. Owned(a) = {}
    BY OwnershipAssumption DEF Init, Owned
  <2>2. owned_positions[a] = 0
    BY DEF Init, Account
  <2> QED  BY <2>1, <2>2, FS_EmptySet
<1> QED  BY <1>1, <1>2, <1>3 DEF OwnershipInv, BalancesMatchOwners

\* Calls that leave the tables of owners and the approvals alone.
LEMMA TablesKept ==
    ASSUME OwnershipInv, TypeOK', UNCHANGED <<next_position_id, tables, getApproved>>
    PROVE  OwnershipInv'
<1>1. UnmintedIsFree'
  BY DEF OwnershipInv, UnmintedIsFree, tables
<1>2. BalancesMatchOwners'
  BY DEF OwnershipInv, BalancesMatchOwners, Owned, tables
<1> QED  BY <1>1, <1>2 DEF OwnershipInv

\* The calls on roles and on the pools' switches keep the invariant: they touch
\* neither the tables nor the approvals of single positions.
LEMMA GovernKeeps ==
    ASSUME OwnershipInv, NEW sender \in Address, Govern(sender)
    PROVE  OwnershipInv'
<1>1. TypeOK' /\ UNCHANGED <<next_position_id, tables, getApproved>>
  <2> USE DEF approvals, tables, roles, Account
  <2>1. ASSUME NEW d \in Deployments, Ctor(sender, d[1], d[2], d[3])
        PROVE  TypeOK' /\ UNCHANGED <<next_position_id, tables, getApproved>>
    <3>1. d[1] \in Address /\ d[2] \in Address /\ d[3] \in Address
      BY OwnershipAssumption
    <3> QED  BY <2>1, <3>1 DEF OwnershipInv, TypeOK, Ctor
  <2>2. ASSUME NEW m \in Appointees, UpdateNftManager(sender, m) \/ UpdateEmergencyCouncil(sender, m)
        PROVE  TypeOK' /\ UNCHANGED <<next_position_id, tables, getApproved>>
    BY <2>2, OwnershipAssumption
       DEF OwnershipInv, TypeOK, UpdateNftManager, UpdateEmergencyCouncil
  <2>3. ASSUME NEW a \in Delegates, NEW on \in BOOLEAN, AuthoriseEnabler(sender, a, on)
        PROVE  TypeOK' /\ UNCHANGED <<next_position_id, tables, getApproved>>
    BY <2>3, OwnershipAssumption DEF OwnershipInv, TypeOK, AuthoriseEnabler
  <2>4. ASSUME NEW p \in Pool, NEW on \in BOOLEAN, EnablePool(sender, p, on)
        PROVE  TypeOK' /\ UNCHANGED <<next_position_id, tables, getApproved>>
    BY <2>4 DEF OwnershipInv, TypeOK, EnablePool
  <2>5. ASSUME NEW ps \in SUBSET Pool, DisablePools(sender, ps)
        PROVE  TypeOK' /\ UNCHANGED <<next_position_id, tables, getApproved>>
    BY <2>5 DEF OwnershipInv, TypeOK, DisablePools
  <2> QED  BY <2>1, <2>2, <2>3, <2>4, <2>5 DEF Govern
<1> QED  BY <1>1, TablesKept

\* Only a minted position changes hands, because the approvals of the others are
\* the zero address, which never calls.
LEMMA TransferKeeps ==
    ASSUME OwnershipInv, NEW id \in Id, NEW from \in Account, NEW to \in Account,
           id < next_position_id, position_owners[id] = from,
           transfer_position(id, from, to), caller' \in Address,
           UNCHANGED <<roles, authorised_enablers, enabled, next_position_id, approvals>>
    PROVE  OwnershipInv'
<1>1. BalancesMatchOwners' /\ owned_positions' \in [Account -> 0 .. U256 - 1]
  BY CountedTransfer DEF OwnershipInv
<1>2. position_owners' = [position_owners EXCEPT ![id] = to]
  BY DEF transfer_position
<1>3. TypeOK'
  BY <1>1, <1>2 DEF OwnershipInv, TypeOK, roles, approvals, Account
<1>4. UnmintedIsFree'
  BY <1>2 DEF OwnershipInv, TypeOK, UnmintedIsFree, approvals, Id
<1> QED  BY <1>1, <1>3, <1>4 DEF OwnershipInv

\* An id that passes _requireAuthorised has been minted.
LEMMA AuthorisedIsMinted ==
    ASSUME OwnershipInv, NEW sender \in Address, NEW from \in Account, NEW id \in Id,
           requireAuthorised(sender, from, id)
    PROVE  id < next_position_id
<1>1. sender # Zero
  BY OwnershipAssumption
<1>2. position_owners[id] = Zero => getApproved[id] # Zero
  BY <1>1, OwnershipAssumption DEF requireAuthorised
<1> QED  BY <1>2, OwnershipAssumption DEF OwnershipInv, TypeOK, UnmintedIsFree, Id

\* mint_position, burn_position and a direct transfer_position keep the invariant.
LEMMA OwnKeeps ==
    ASSUME OwnershipInv, NEW sender \in Address, Own(sender)
    PROVE  OwnershipInv'
<1>1. ASSUME NEW pool \in Pool, MintPosition(sender, pool) PROVE OwnershipInv'
  <2>1. next_position_id \in Id /\ position_owners[next_position_id] = Zero
    BY <1>1, OwnershipAssumption DEF MintPosition, OwnershipInv, UnmintedIsFree, Id
  <2>2. \A i \in Id : position_owners'[i] = IF i = next_position_id THEN sender
                                                                   ELSE position_owners[i]
    BY <1>1, <2>1 DEF MintPosition, OwnershipInv, TypeOK
  <2>3. BalancesMatchOwners' /\ owned_positions' \in [Account -> 0 .. U256 - 1]
    BY <1>1, <2>1, <2>2, CountedGrant DEF MintPosition, OwnershipInv
  <2>4. TypeOK'
    <3>1. next_position_id' \in 0 .. MaxPositions
      BY <1>1, <2>1, OwnershipAssumption DEF MintPosition, Id
    <3>2. position_owners' \in [Id -> Account] /\ caller' \in Account
      BY <1>1 DEF MintPosition, OwnershipInv, TypeOK, Account
    <3> QED  BY <1>1, <2>3, <3>1, <3>2
             DEF MintPosition, OwnershipInv, TypeOK, roles, approvals
  <2>5. UnmintedIsFree'
    BY <1>1, <2>1, <2>2 DEF MintPosition, OwnershipInv, TypeOK, UnmintedIsFree, approvals, Id
  <2> QED  BY <2>3, <2>4, <2>5 DEF OwnershipInv
<1>2. ASSUME NEW id \in Id, BurnPosition(sender, id) PROVE OwnershipInv'
  <2>1. \A i \in Id : position_owners'[i] = IF i = id THEN Zero ELSE position_owners[i]
    BY <1>2 DEF BurnPosition, OwnershipInv, TypeOK
  <2>2. BalancesMatchOwners' /\ owned_positions' \in [Account -> 0 .. U256 - 1]
    BY <1>2, <2>1, CountedRemoval DEF BurnPosition, OwnershipInv
  <2>3. TypeOK'
    BY <1>2, <2>2 DEF BurnPosition, OwnershipInv, TypeOK, roles, approvals, Account
  <2>4. UnmintedIsFree'
    BY <1>2, <2>1 DEF BurnPosition, OwnershipInv, UnmintedIsFree, approvals
  <2> QED  BY <2>2, <2>3, <2>4 DEF OwnershipInv
<1>3. ASSUME NEW id \in Id, NEW from \in Account, NEW to \in Account,
             CallingRequirement(id, from), TransferPosition(sender, id, from, to)
      PROVE  OwnershipInv'
  <2>1. id < next_position_id
    BY <1>3, OwnershipAssumption
       DEF CallingRequirement, OwnershipInv, TypeOK, UnmintedIsFree, Id
  <2> QED  BY <1>3, <2>1, TransferKeeps DEF TransferPosition, CallingRequirement
<1> QED  BY <1>1, <1>2, <1>3 DEF Own

\* The calls of OwnershipNFTs keep the invariant.
LEMMA TradeKeeps ==
    ASSUME OwnershipInv, NEW sender \in Address, Trade(sender)
    PROVE  OwnershipInv'
<1>1. ASSUME NEW from \in Account, NEW to \in Account, NEW id \in Id,
             TransferFrom(sender, from, to, id)
      PROVE  OwnershipInv'
  <2>1. id < next_position_id
    BY <1>1, AuthorisedIsMinted DEF TransferFrom
  <2>2. position_owners[id] = from
    BY <1>1 DEF TransferFrom, requireAuthorised
  <2> QED  BY <1>1, <2>1, <2>2, TransferKeeps DEF TransferFrom
<1>2. ASSUME NEW a \in Account, NEW id \in Id, Approve(sender, a, id) PROVE OwnershipInv'
  <2>1. id < next_position_id
    BY <1>2, AuthorisedIsMinted DEF Approve, Account
  <2>2. TypeOK'
    BY <1>2 DEF Approve, OwnershipInv, TypeOK, roles, tables, Account
  <2>3. UnmintedIsFree'
    BY <1>2, <2>1 DEF Approve, OwnershipInv, TypeOK, UnmintedIsFree, tables, Id
  <2>4. BalancesMatchOwners'
    BY <1>2 DEF Approve, OwnershipInv, BalancesMatchOwners, Owned, tables
  <2> QED  BY <2>2, <2>3, <2>4 DEF OwnershipInv
<1>3. ASSUME NEW a \in Delegates, NEW on \in BOOLEAN, SetApprovalForAll(sender, a, on)
      PROVE  OwnershipInv'
  <2>1. TypeOK'
    BY <1>3, OwnershipAssumption
       DEF SetApprovalForAll, OwnershipInv, TypeOK, roles, tables, Account
  <2> QED  BY <1>3, <2>1, TablesKept DEF SetApprovalForAll
<1> QED  BY <1>1, <1>2, <1>3 DEF Trade, SafeTransferFrom

\* Every call on either contract keeps the invariant.
LEMMA OwnershipNext == OwnershipInv /\ [Next]_vars => OwnershipInv'
<1> SUFFICES ASSUME OwnershipInv, [Next]_vars PROVE OwnershipInv'
  OBVIOUS
<1>1. CASE Next
  BY <1>1, GovernKeeps, OwnKeeps, TradeKeeps DEF Next
<1>2. CASE UNCHANGED vars
  <2>1. TypeOK'
    BY <1>2 DEF vars, roles, tables, approvals, OwnershipInv, TypeOK
  <2> QED  BY <1>2, <2>1, TablesKept DEF vars, approvals
<1> QED  BY <1>1, <1>2

\* The inductive invariant holds in every state of the two contracts.
LEMMA OwnershipInvariant == Spec => []OwnershipInv
BY OwnershipInit, OwnershipNext, PTL DEF Spec

-----------------------------------------------------------------------------
(* Theorems *)

\* The ownership tables and roles of Pools and the approvals of OwnershipNFTs
\* keep their types.
THEOREM OwnershipTypeOK == Spec => []TypeOK
BY OwnershipInvariant, PTL DEF OwnershipInv

\* positionBalance always is the number of positions whose owner positionOwner
\* says the account is.
THEOREM BalancesAlwaysMatch == Spec => []BalancesMatchOwners
BY OwnershipInvariant, PTL DEF OwnershipInv

\* mint_position never hands out an id that has an owner or an approval.
THEOREM MintsAreFresh == Spec => []UnmintedIsFree
BY OwnershipInvariant, PTL DEF OwnershipInv

Consent ==
    \A id \in Id :
        (Leaves(id) /\ (getApproved[id] = Zero \/ approver[id] = position_owners[id])) =>
            CallerIsOwners(id) \/ caller' = getApproved[id]

\* A position leaves its owner only in a call by the owner, an operator of the
\* owner, the NFT manager or the spender this owner approved, unless an approval by
\* an earlier owner was left behind.
THEOREM PositionsMoveByConsent == Spec => MovesByConsent
<1>1. OwnershipInv /\ [Next]_vars => [Consent]_vars
  <2> USE DEF Leaves, CallerIsOwners
  <2> SUFFICES ASSUME OwnershipInv, NEW sender \in Address,
                      Govern(sender) \/ Own(sender) \/ Trade(sender)
               PROVE  Consent
    BY DEF Next, vars
  <2>1. CASE UNCHANGED position_owners
    BY <2>1 DEF Consent
  <2>2. ASSUME Govern(sender) PROVE UNCHANGED position_owners
    BY <2>2 DEF Govern, Ctor, UpdateNftManager, UpdateEmergencyCouncil, AuthoriseEnabler,
                EnablePool, DisablePools, tables
  <2>3. ASSUME NEW pool \in Pool, MintPosition(sender, pool) PROVE Consent
    BY <2>3 DEF MintPosition, Consent, OwnershipInv, TypeOK, UnmintedIsFree, Id
  <2>4. ASSUME NEW id \in Id, BurnPosition(sender, id) PROVE Consent
    BY <2>4 DEF BurnPosition, Consent, OwnershipInv, TypeOK
  <2>5. ASSUME NEW id \in Id, NEW from, NEW to \in Account,
               TransferPosition(sender, id, from, to)
        PROVE  Consent
    BY <2>5 DEF TransferPosition, transfer_position, Consent, OwnershipInv, TypeOK
  <2>6. ASSUME NEW from \in Account, NEW to \in Account, NEW id \in Id,
               TransferFrom(sender, from, to, id)
        PROVE  Consent
    BY <2>6 DEF TransferFrom, requireAuthorised, transfer_position, Consent,
                OwnershipInv, TypeOK
  <2>7. ASSUME NEW a, NEW id \in Id, Approve(sender, a, id) PROVE UNCHANGED position_owners
    BY <2>7 DEF Approve, tables
  <2>8. ASSUME NEW a, NEW on, SetApprovalForAll(sender, a, on) PROVE UNCHANGED position_owners
    BY <2>8 DEF SetApprovalForAll, tables
  <2> QED  BY <2>1, <2>2, <2>3, <2>4, <2>5, <2>6, <2>7, <2>8 DEF Own, Trade, SafeTransferFrom
<1> QED  BY <1>1, OwnershipInvariant, PTL DEF Spec, MovesByConsent, Consent

=============================================================================
