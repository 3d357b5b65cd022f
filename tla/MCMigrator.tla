----------------------------- MODULE MCMigrator -----------------------------
(***************************************************************************)
(* Small instances of Migrator.  A Call names the arguments its operation  *)
(* reads; the others have one value each.                                  *)
(***************************************************************************)
EXTENDS Migrator

MCIds == 1..3

S(up, down) == [up |-> up, down |-> down]

\* The main branch, a branch that replaced migration 2 and one without it.
Main == 1 :> S("tx", "tx") @@ 2 :> S("notx", "notx") @@ 3 :> S("tx", "irreversible")
Branch == 1 :> S("tx", "tx") @@ 3 :> S("notx", "tx")
Empty == [m \in {} |-> m]
First == CHOOSE m \in MCIds : \A k \in MCIds : m <= k

Call(op, src, opts, count, id) ==
  [op |-> op, src |-> src, opts |-> opts, count |-> count, id |-> id]

UpCalls(srcs) == {Call("up", s, {}, 0, First) : s \in srcs}
ReconcileCalls(srcs, optss) == {Call("reconcile", s, o, 0, First) : s \in srcs, o \in optss}
DownCalls(counts) == {Call("down", Empty, {}, n, First) : n \in counts}
ForgetCalls == {Call("forget", Empty, {}, 0, m) : m \in MCIds}
BaselineCalls(srcs, ids) == {Call("baseline", s, {}, 0, m) : s \in srcs, m \in ids}
PlanCalls(srcs, optss) == {Call("plan", s, o, 0, First) : s \in srcs, o \in optss}

\* Every operation, every combination of Reconcile's switches that tells two plans
\* apart.
AllCalls ==
  UpCalls({Main, Branch})
    \cup ReconcileCalls({Main, Branch, Empty},
                        {{}, {"rollback"}, {"rollback", "interleaved"}, Options})
    \cup DownCalls({0, 1, 2, 4})
    \cup ForgetCalls
    \cup BaselineCalls({Main}, {2, 3}) \cup BaselineCalls({Branch}, {2})
    \cup PlanCalls({Branch}, {{}})

\* Fewer arguments, and more of them for Plan.
FewCalls ==
  UpCalls({Main}) \cup ReconcileCalls({Branch}, {{"rollback"}}) \cup DownCalls({1})
    \cup ForgetCalls \cup BaselineCalls({Main}, {2})
    \cup PlanCalls({Branch}, {{}, {"rollback"}})

MCLegacies == {{}, {1}}
NoLegacy == {{}}
Symmetry == Permutations(Runners)
=============================================================================
