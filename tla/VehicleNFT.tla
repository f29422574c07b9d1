---------------------------- MODULE VehicleNFT ----------------------------
(***************************************************************************)
(* The vehicle token (chain/src/VehicleNFT.sol): an ERC-721 collection     *)
(* whose only addition is that, once the escrow is bound, a token enters   *)
(* the escrow only when the escrow itself is the authorised operator.      *)
(*                                                                         *)
(* The model starts after bootstrap has bound the escrow, before the first *)
(* mint.  Of all ERC-721 approvals only those given to the escrow are      *)
(* kept: a transfer by another approved operator has the effect of one by  *)
(* the owner.                                                              *)
(***************************************************************************)
EXTENDS Naturals

CONSTANTS
    Users,          \* accounts other than the escrow
    EscrowAddress,  \* the account bound by setEscrow
    Nobody,         \* address(0)
    MaxTokens,      \* bound: tokens that are ever minted
    OperatorUsers   \* bound: users who use blanket approvals

ASSUME NftAssumption ==
    /\ EscrowAddress \notin Users
    /\ Nobody \notin Users \cup {EscrowAddress}
    /\ MaxTokens \in Nat
    /\ OperatorUsers \subseteq Users

VARIABLES
    ownerOf,         \* owner of every token, Nobody before it is minted
    getApproved,     \* the tokens whose single approval is the escrow
    approvedForAll,  \* the users for whom the escrow is an operator
    nextTokenId

nftVars == <<ownerOf, getApproved, approvedForAll, nextTokenId>>

TokenIds == 1..MaxTokens
Holders == Users \cup {EscrowAddress}

NftInit ==
    /\ ownerOf = [t \in TokenIds |-> Nobody]
    /\ getApproved = {}
    /\ approvedForAll = {}
    /\ nextTokenId = 1

\* ERC721._isAuthorized, for the two operators that matter.
IsAuthorized(operator, tokenId) ==
    \/ ownerOf[tokenId] = operator
    \/ /\ operator = EscrowAddress
       /\ tokenId \in getApproved \/ ownerOf[tokenId] \in approvedForAll

\* Fault: an ERC-721 without the escrow-only rule.
PlainUpdate(to, tokenId, auth) ==
    /\ ownerOf' = [ownerOf EXCEPT ![tokenId] = to]
    /\ getApproved' = getApproved \ {tokenId}

\* _update: the escrow-only rule, then the move, which clears the approval.
Update(to, tokenId, auth) ==
    /\ to = EscrowAddress => auth = EscrowAddress
    /\ ownerOf' = [ownerOf EXCEPT ![tokenId] = to]
    /\ getApproved' = getApproved \ {tokenId}

Mint(recipient) ==
    /\ nextTokenId \in TokenIds
    /\ Update(recipient, nextTokenId, Nobody)
    /\ nextTokenId' = nextTokenId + 1
    /\ UNCHANGED approvedForAll

TransferFrom(operator, tokenId, to) ==
    /\ IsAuthorized(operator, tokenId)
    /\ Update(to, tokenId, operator)
    /\ UNCHANGED <<approvedForAll, nextTokenId>>

\* approve(escrow, tokenId), or approve(address(0), tokenId) when given.
Approve(owner, tokenId) ==
    /\ ownerOf[tokenId] = owner
    /\ getApproved' = IF tokenId \in getApproved THEN getApproved \ {tokenId}
                                                 ELSE getApproved \cup {tokenId}
    /\ UNCHANGED <<ownerOf, approvedForAll, nextTokenId>>

\* setApprovalForAll(escrow, true), or false when already given.
SetApprovalForAll(owner) ==
    /\ owner \in OperatorUsers
    /\ approvedForAll' = IF owner \in approvedForAll THEN approvedForAll \ {owner}
                                                     ELSE approvedForAll \cup {owner}
    /\ UNCHANGED <<ownerOf, getApproved, nextTokenId>>

NftTypeOK ==
    /\ ownerOf \in [TokenIds -> Holders \cup {Nobody}]
    /\ getApproved \subseteq TokenIds
    /\ approvedForAll \subseteq Users
    /\ nextTokenId \in 1..(MaxTokens + 1)
===========================================================================
