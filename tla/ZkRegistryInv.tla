--------------------------- MODULE ZkRegistryInv ---------------------------
(***************************************************************************)
(* The inductive invariant of ZkRegistry, in the parts its proofs need.    *)
(***************************************************************************)
EXTENDS ZkRegistry

RunsNow(p) == pc[p] \in {"exists", "create", "serve"}

\* The indices of the paths that Run has been at before the current one.
Behind(p) == { i \in DOMAIN Plan[p] : i < at[p] }

\* The index stays in the plan, and server.start() is reached past its end only.
PlaceInv(p) ==
  /\ pc[p] \in {"exists", "create"} => at[p] \in DOMAIN Plan[p]
  /\ pc[p] = "serve" => at[p] = Len(Plan[p]) + 1

\* Every path behind p was created by p or passed over, and a live session's
\* node is not lost.
VisitedInv(p) ==
  RunsNow(p) => \A i \in Behind(p) :
    Plan[p][i] \in Methods =>
      \/ node[Plan[p][i]] = Session(p)
      \/ Session(p) \notin live
      \/ Plan[p][i] \in passed[p]

\* Without a failure a process has its session, the permanent nodes behind it
\* are there, and only p itself can make the node it is about to create its own.
CalmInv(p) ==
  calm /\ RunsNow(p) =>
    /\ Session(p) \in live
    /\ \A i \in Behind(p) : Plan[p][i] \in Services => node[Plan[p][i]] # NoNode
    /\ pc[p] = "create" => node[Current(p)] # Session(p)

\* p has checked, and another process has created the node since: p will exit.
Threatened(p) == pc[p] = "create" /\ node[Current(p)] # NoNode

\* Whoever threatens a process by creating its node is not threatened itself:
\* it has just finished a create.
SurvivorInv ==
  calm /\ (\E p \in Providers : pc[p] = "exited" \/ Threatened(p)) =>
    \E q \in Providers : RunsNow(q) /\ ~Threatened(q)

\* The inductive invariant: where each provider is in its plan, what became of
\* the paths behind it (rpc_provider.cc:81-96, zookeeper_client.cc:83-112), and
\* that a lost race leaves the winner.
RegistryInv ==
  /\ TypeOK
  /\ \A p \in Providers : PlaceInv(p) /\ VisitedInv(p) /\ CalmInv(p)
  /\ SurvivorInv
=============================================================================
