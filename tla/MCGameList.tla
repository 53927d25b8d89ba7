----------------------------- MODULE MCGameList -----------------------------
(* Values for the constants of GameList. *)
EXTENDS GameList

(* Of accounts that were not made in the app, and of one that was. *)
MCSavedGames == {{}, {0, 1}, {0, LastSelectedGame}}

(* Of accounts that were not: what remains is a game's data. *)
MCOnlyGames == {{}, {0, 1}}
=============================================================================
