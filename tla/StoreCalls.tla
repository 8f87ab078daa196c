----------------------------- MODULE StoreCalls -----------------------------
(***************************************************************************)
(* What the models of the state stores without scripts have in common: the *)
(* concurrent calls of a store's methods, and the keys they are about.     *)
(***************************************************************************)
CONSTANTS
  Calls,      \* calls of the store's methods
  Keys,       \* keys
  Nothing,    \* stands for a key that does not exist
  Foreign     \* data that was in the store before

\* A method returns with an error or without one.
Returned == {"ok", "err"}
=============================================================================
