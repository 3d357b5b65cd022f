-------------------------- MODULE MCOverlappingRuns --------------------------
(***************************************************************************)
(* Small instances of OverlappingRuns.                                     *)
(***************************************************************************)
EXTENDS OverlappingRuns

MCIds == 1..2
S(up, down) == [up |-> up, down |-> down]
Call(op, src, opts, count, id) ==
  [op |-> op, src |-> src, opts |-> opts, count |-> count, id |-> id]
Empty == [m \in {} |-> m]

\* A strict migration beside one of which each branch has another version: without a
\* transaction and irreversible, or in a transaction that may do nothing.
Main == 1 :> S("tx", "tx") @@ 2 :> S("notx", "irreversible")
Branch == 2 :> S("tx", "tx")
MCStrict == {1}
MCCalls ==
  {Call("up", Main, {}, 0, 1), Call("reconcile", Branch, Options, 0, 1),
   Call("down", Empty, {}, 1, 1), Call("forget", Empty, {}, 0, 1),
   Call("baseline", Main, {}, 0, 2), Call("plan", Main, {}, 0, 1)}

\* Applying and undoing in transactions.
UpAndDown ==
  {Call("up", [m \in MCIds |-> S("tx", "tx")], {}, 0, 1), Call("down", Empty, {}, 1, 1)}

NoLegacy == {{}}
Symmetry == Permutations(Runners)
=============================================================================
