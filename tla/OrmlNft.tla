------------------------------ MODULE OrmlNft -------------------------------
(***************************************************************************)
(* The part of the orml_nft pallet the kitties pallet calls: mint and      *)
(* transfer within the one class that genesis creates                      *)
(* (pallets/kitties/src/lib.rs:99).  The pallet is external code; its      *)
(* behaviour is the one its callers and their tests rely on.  The runtime  *)
(* exposes no calls of orml_nft (runtime/src/lib.rs:330), so the kitties   *)
(* pallet is the only writer of this state.                                *)
(***************************************************************************)
EXTENDS Frame

CONSTANTS
  MaxTokenId,   \* largest value of T::TokenId, u32::MAX in the runtime
  TokenData     \* T::TokenData, the kitty

ASSUME MaxTokenIdAssumption == MaxTokenId \in Nat

VARIABLES
  tokens,        \* Tokens: token id -> [owner, data]
  tokensByOwner, \* TokensByOwner: the keys <<owner, token id>>
  nextTokenId,   \* NextTokenId of the class
  totalIssuance  \* ClassInfo.total_issuance of the class

nftVars == <<tokens, tokensByOwner, nextTokenId, totalIssuance>>

TokenIds == 0 .. MaxTokenId

TokenInfo == [owner : Accounts, data : TokenData]

\* An empty class.
NftInit ==
  /\ tokens = [t \in {} |-> {}]
  /\ tokensByOwner = {}
  /\ nextTokenId = 0
  /\ totalIssuance = 0

\* Fault: the id is handed out without checked_add.
MintResultUnchecked == Ok

\* Why mint would fail: both counters are advanced with checked_add.
MintResult ==
  IF nextTokenId = MaxTokenId THEN "NoAvailableTokenId"
  ELSE IF totalIssuance = MaxTokenId THEN "Overflow"
  ELSE Ok

\* Fault: the counter is read but not advanced.
AdvancedNot(counter) == counter

\* A counter advanced by checked_add, once MintResult has ruled out overflow.
Advanced(counter) == counter + 1

\* The effect of a successful mint.
Mint(owner, data) ==
  /\ tokens' = Insert(tokens, nextTokenId, [owner |-> owner, data |-> data])
  /\ tokensByOwner' = tokensByOwner \cup {<<owner, nextTokenId>>}
  /\ nextTokenId' = Advanced(nextTokenId)
  /\ totalIssuance' = totalIssuance + 1

\* Why transfer would fail.
NftTransferResult(from, k) ==
  IF k \notin DOMAIN tokens THEN "TokenNotFound"
  ELSE IF tokens[k].owner # from THEN "NoPermission"
  ELSE Ok

\* Fault: the old owner keeps its entry in TokensByOwner.
IndexAfterTransferStale(from, to, k) == tokensByOwner \cup {<<to, k>>}

\* TokensByOwner after a transfer.
IndexAfterTransfer(from, to, k) == (tokensByOwner \ {<<from, k>>}) \cup {<<to, k>>}

\* The effect of a successful transfer; nothing changes when from = to.
NftTransfer(from, to, k) ==
  /\ tokens' = [tokens EXCEPT ![k].owner = to]
  /\ tokensByOwner' = IF from = to
                      THEN tokensByOwner
                      ELSE IndexAfterTransfer(from, to, k)
  /\ UNCHANGED <<nextTokenId, totalIssuance>>

=============================================================================
