------------------------------- MODULE Frame --------------------------------
(***************************************************************************)
(* What every pallet of the runtime shares: accounts, the origin of a      *)
(* call, storage maps and dispatch results (frame_system, frame_support).  *)
(***************************************************************************)
EXTENDS Integers

CONSTANTS
  Accounts,    \* T::AccountId
  NoneOrigin,  \* the origin of an unsigned extrinsic
  RootOrigin   \* the origin of a call dispatched by pallet_sudo

ASSUME OriginAssumption ==
  /\ NoneOrigin \notin Accounts
  /\ RootOrigin \notin Accounts
  /\ NoneOrigin # RootOrigin

\* A dispatch that returned no error.
Ok == "Ok"

\* A StorageMap with OptionQuery is a function whose domain is the set of
\* keys present; this is the map with v stored under k.
Insert(map, k, v) ==
  [x \in DOMAIN map \cup {k} |-> IF x = k THEN v ELSE map[x]]

\* The map without the key k; nothing happens when it is absent.
Remove(map, k) == [x \in DOMAIN map \ {k} |-> map[x]]

=============================================================================
