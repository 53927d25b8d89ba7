----------------------------- MODULE ShotWrites -----------------------------
(***************************************************************************)
(* The writes the app makes to a game's data node, as records: they wait   *)
(* in queues before they are applied, on the device and on the server.     *)
(***************************************************************************)
EXTENDS Pucks

SetValue(k, p) == [op |-> "set", key |-> k, puck |-> p]
RemoveValue(k) == [op |-> "remove", key |-> k]
UpdateChildValues(k, t) == [op |-> "update", key |-> k, shotType |-> t]

Writes == [op : {"set"}, key : Keys, puck : PuckModel]
            \cup [op : {"remove"}, key : Keys]
            \cup [op : {"update"}, key : Keys, shotType : ShotTypes]

Apply(d, w) ==
    CASE w.op = "set"    -> SetChild(d, w.key, w.puck)
      [] w.op = "remove" -> RemoveChild(d, w.key)
      [] w.op = "update" -> UpdateType(d, w.key, w.shotType)
=============================================================================
