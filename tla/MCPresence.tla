----------------------------- MODULE MCPresence -----------------------------
(***************************************************************************)
(* Instances of PresenceSync for TLC.                                      *)
(***************************************************************************)
EXTENDS PresenceSync, TLC

(* Keys are alike, and so are join references.                             *)
Alike == Permutations(Key) \cup Permutations(Ref)
=============================================================================
