------------------------------ MODULE MCKeyApi ------------------------------
(***************************************************************************)
(* Small instances of KeyApi: one model name that an LLMModel and a        *)
(* PassthroughModel can share.                                             *)
(***************************************************************************)
EXTENDS KeyApi, TLC

CONSTANTS alice, bob, staff, guests, chat, r1, r2

MCUsers == {alice, bob}
MCGroups == {staff, guests}
MCOneGroup == {staff}
MCNames == {chat}
MCRequests == {r1, r2}

Symmetric ==
  Permutations(MCUsers) \cup Permutations(MCGroups) \cup Permutations(MCRequests)
=============================================================================
