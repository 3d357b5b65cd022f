-------------------------- MODULE MCLateStatements --------------------------
(***************************************************************************)
(* A small instance of LateStatements: two migrations, the second without  *)
(* a transaction both ways.  The branch that is baselined rolls it back in *)
(* a transaction instead.                                                  *)
(***************************************************************************)
EXTENDS LateStatements

MCIds == 1..2

Main == 1 :> [up |-> "tx", down |-> "tx"] @@ 2 :> [up |-> "notx", down |-> "notx"]
Branch == 1 :> [up |-> "tx", down |-> "tx"] @@ 2 :> [up |-> "notx", down |-> "tx"]

Call(op, src, opts, count) ==
  [op |-> op, src |-> src, opts |-> opts, count |-> count, id |-> 2]

MCCalls ==
  {Call("up", Main, {}, 0), Call("down", [m \in {} |-> m], {}, 1),
   Call("baseline", Branch, {}, 0), Call("forget", Main, {}, 0)}

NoLegacy == {{}}
=============================================================================
