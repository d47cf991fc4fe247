---------------------------- MODULE MCChatCache ----------------------------
(* Model-checking instances of ChatCache.                                  *)
EXTENDS ChatCache, TLC

CONSTANTS u1, c1, c2

UsersOne   == {u1}
ClientsTwo == {c1, c2}
============================================================================
