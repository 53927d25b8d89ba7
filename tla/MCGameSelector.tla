--------------------------- MODULE MCGameSelector ---------------------------
(* A user without games, and one with a game made at second 0 and an       *)
(* account made in the app.                                                *)
EXTENDS GameSelector, TLC

MCSavedGames == {{}, {0, Stray}}

(* The users are alike. *)
Alike == Permutations(Users)
=============================================================================
