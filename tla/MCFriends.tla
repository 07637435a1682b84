----------------------------- MODULE MCFriends -----------------------------
(* Friends, with the values of MCFriends.cfg and MCFriendsBlocked.cfg. *)
EXTENDS Friends
============================================================================
