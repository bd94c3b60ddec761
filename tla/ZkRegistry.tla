----------------------------- MODULE ZkRegistry -----------------------------
(***************************************************************************)
(* How a method becomes visible to callers, and stops being: provider      *)
(* processes publish their services in ZooKeeper before they listen        *)
(* (RpcProvider::Run), through ZkClient::Create, which is two requests, a  *)
(* check and a create.  Any number of providers may publish the same       *)
(* method; its znode holds the address of one of them.                     *)
(*                                                                         *)
(* A process's ZooKeeper session outlives it until the server times it     *)
(* out, and may time out under a process that is still there.  A session   *)
(* is named by its provider and the number of the process start it belongs *)
(* to; the address in a znode is that of the provider whose session        *)
(* created it, and does not change when the provider is started again.     *)
(***************************************************************************)
EXTENDS Integers, Sequences

CONSTANTS
  Providers,
  Services,      \* paths /service, permanent znodes
  Methods,       \* paths /service/method, ephemeral znodes
  ServiceOf,     \* ServiceOf[m]: the parent of m
  Plan,          \* Plan[p]: the paths p creates, in the order of Run's loops
  MaxStarts,     \* bound: how often each provider is started
  Faults         \* the faults that happen

Paths == Services \union Methods

\* A request that fails, a process that is killed, and a session that expires
\* under its process.
FaultKinds == {"request", "kill", "expiry"}

ASSUME RegistryAssumption ==
  /\ Services \intersect Methods = {}
  /\ ServiceOf \in [Methods -> Services]
  /\ Plan \in [Providers -> Seq(Paths)]
  /\ \A p \in Providers : \A i \in DOMAIN Plan[p] :
       Plan[p][i] \in Methods =>
         \E j \in 1 .. (i - 1) : Plan[p][j] = ServiceOf[Plan[p][i]]
  /\ MaxStarts \in Nat
  /\ Faults \subseteq FaultKinds

Sessions == Providers \X (1 .. MaxStarts)

NoNode    == <<"none">>
Permanent == <<"permanent">>

VARIABLES
  node,    \* what ZooKeeper holds at a path: nothing, a permanent node, or the
           \* session whose ephemeral node it is
  live,    \* the sessions the server has not timed out
  pc,      \* where RpcProvider::Run is
  starts,  \* how often the provider was started
  at,      \* index in Plan of the path being created
  passed,  \* paths that Create left alone since this start (history)
  calm     \* no process, session or request has failed (history)

vars == <<node, live, pc, starts, at, passed, calm>>

TypeOK ==
  /\ node \in [Paths -> {NoNode, Permanent} \union Sessions]
  /\ \A x \in Services : node[x] \in {NoNode, Permanent}
  /\ \A m \in Methods : node[m] # Permanent
  /\ live \subseteq Sessions
  /\ pc \in [Providers -> {"down", "exists", "create", "serve", "exited"}]
  /\ starts \in [Providers -> 0 .. MaxStarts]
  /\ at \in [Providers -> Nat \ {0}]
  /\ passed \in [Providers -> SUBSET Paths]
  /\ calm \in BOOLEAN

Init ==
  /\ node = [x \in Paths |-> NoNode]
  /\ live = {}
  /\ pc = [p \in Providers |-> "down"]
  /\ starts = [p \in Providers |-> 0]
  /\ at = [p \in Providers |-> 1]
  /\ passed = [p \in Providers |-> {}]
  /\ calm = TRUE

Session(p) == <<p, starts[p]>>
Current(p) == Plan[p][at[p]]
Goto(p, to) == pc' = [pc EXCEPT ![p] = to]

\* A fault that is no fault of the protocol.
Fault(kind) == kind \in Faults /\ calm' = FALSE

-----------------------------------------------------------------------------
(***************************************************************************)
(* RpcProvider::Run and ZkClient.                                          *)
(***************************************************************************)

\* The process starts and ZkClient::Start connects: a new session.  A provider
\* without services goes straight to server.start().
Start(p) ==
  /\ pc[p] \in {"down", "exited"}
  /\ starts[p] < MaxStarts
  /\ starts' = [starts EXCEPT ![p] = @ + 1]
  /\ live' = live \union {<<p, starts[p] + 1>>}
  /\ at' = [at EXCEPT ![p] = 1]
  /\ passed' = [passed EXCEPT ![p] = {}]
  /\ Goto(p, IF Plan[p] = <<>> THEN "serve" ELSE "exists")
  /\ UNCHANGED <<node, calm>>

\* Mutant: the loop over the methods starts at the second one.
AdvanceTwice(p) ==
  /\ at' = [at EXCEPT ![p] = @ + 2]
  /\ Goto(p, IF at[p] + 1 < Len(Plan[p]) THEN "exists" ELSE "serve")

\* To the next Create; after the last one, server.start() listens.
Advance(p) ==
  /\ at' = [at EXCEPT ![p] = @ + 1]
  /\ Goto(p, IF at[p] < Len(Plan[p]) THEN "exists" ELSE "serve")

\* Create returns without having created: the node is there, or the check
\* failed, which is only logged.
PassesOver(p) ==
  /\ passed' = [passed EXCEPT ![p] = @ \union {Current(p)}]
  /\ Advance(p)
  /\ UNCHANGED <<node, live, starts>>

\* Mutant: a missing service node is left missing.
FindsNoMethod(p) ==
  /\ pc[p] = "exists" /\ Session(p) \in live
  /\ node[Current(p)] = NoNode
  /\ IF Current(p) \in Methods
     THEN Goto(p, "create") /\ UNCHANGED <<node, live, starts, at, passed>>
     ELSE PassesOver(p)
  /\ UNCHANGED calm

\* zoo_exists: ZNONODE.
FindsNothing(p) ==
  /\ pc[p] = "exists" /\ Session(p) \in live
  /\ node[Current(p)] = NoNode
  /\ Goto(p, "create")
  /\ UNCHANGED <<node, live, starts, at, passed, calm>>

\* Mutant: an existing node ends the process too.
FindsNodeAndExits(p) ==
  /\ pc[p] = "exists" /\ Session(p) \in live
  /\ node[Current(p)] # NoNode
  /\ Goto(p, "exited")
  /\ UNCHANGED <<node, live, starts, at, passed, calm>>

\* zoo_exists: ZOK.
FindsNode(p) ==
  /\ pc[p] = "exists" /\ Session(p) \in live
  /\ node[Current(p)] # NoNode
  /\ PassesOver(p)
  /\ UNCHANGED calm

\* zoo_exists: any other result, a lost connection or an expired session.
CheckFails(p) ==
  /\ pc[p] = "exists"
  /\ Session(p) \in live => "request" \in Faults
  /\ calm' = FALSE
  /\ PassesOver(p)

\* Mutant: an existing node is deleted and made again.
Overwrites(p) == Session(p) \in live

\* What the server does with zoo_create.
CanCreate(p) ==
  /\ Session(p) \in live
  /\ node[Current(p)] = NoNode
  /\ Current(p) \in Methods => node[ServiceOf[Current(p)]] # NoNode

\* Mutant: ZOO_EPHEMERAL is forgotten.
AddPermanent(p) == node' = [node EXCEPT ![Current(p)] = Permanent]

AddNode(p) ==
  node' = [node EXCEPT ![Current(p)] =
             IF Current(p) \in Methods THEN Session(p) ELSE Permanent]

\* zoo_create: ZOK.
Creates(p) ==
  /\ pc[p] = "create"
  /\ CanCreate(p)
  /\ AddNode(p)
  /\ Advance(p)
  /\ UNCHANGED <<live, starts, passed, calm>>

\* Mutant: a refused create is tried again, and again.
CreateRetries(p) ==
  /\ pc[p] = "create"
  /\ ~CanCreate(p)
  /\ UNCHANGED vars

\* zoo_create refused: another process was faster, or the session is gone.
CreateRefused(p) ==
  /\ pc[p] = "create"
  /\ ~CanCreate(p)
  /\ Goto(p, "exited")
  /\ UNCHANGED <<node, live, starts, at, passed, calm>>

\* The connection is lost before the answer, with or without the node made.
CreateFails(p) ==
  /\ pc[p] = "create"
  /\ Fault("request")
  /\ (CanCreate(p) /\ AddNode(p)) \/ UNCHANGED node
  /\ Goto(p, "exited")
  /\ UNCHANGED <<live, starts, at, passed>>

\* The process is killed.
Dies(p) ==
  /\ pc[p] \in {"exists", "create", "serve"}
  /\ Fault("kill")
  /\ Goto(p, "down")
  /\ UNCHANGED <<node, live, starts, at, passed>>

-----------------------------------------------------------------------------
(***************************************************************************)
(* The ZooKeeper server.                                                   *)
(***************************************************************************)
Alive(s) == Session(s[1]) = s /\ pc[s[1]] \in {"exists", "create", "serve"}

\* A session times out and its ephemeral nodes go.  A process that still has
\* it logs the event and does nothing else (global_watcher).
Expires(s) ==
  /\ s \in live
  /\ IF Alive(s) THEN Fault("expiry") ELSE UNCHANGED calm
  /\ live' = live \ {s}
  /\ node' = [x \in Paths |-> IF node[x] = s THEN NoNode ELSE node[x]]
  /\ UNCHANGED <<pc, starts, at, passed>>

-----------------------------------------------------------------------------
Registers(p) ==
  \/ FindsNothing(p) \/ FindsNode(p) \/ CheckFails(p)
  \/ Creates(p) \/ CreateRefused(p) \/ CreateFails(p)

Next ==
  \/ \E p \in Providers : Start(p) \/ Registers(p) \/ Dies(p)
  \/ \E s \in Sessions : Expires(s)

Spec == Init /\ [][Next]_vars

(***************************************************************************)
(* The server answers, or the client library reports the expired session,  *)
(* so a process that is registering goes on; and the server times out the  *)
(* session of a process that is gone.  Nothing starts a process, and no    *)
(* other failure need ever happen.                                         *)
(***************************************************************************)
Answers(p) ==
  \/ FindsNothing(p) \/ FindsNode(p) \/ Creates(p) \/ CreateRefused(p)
  \/ Session(p) \notin live /\ CheckFails(p)

FairSpec ==
  /\ Spec
  /\ \A p \in Providers : WF_vars(Answers(p))
  /\ \A s \in Sessions : WF_vars(~Alive(s) /\ Expires(s))

-----------------------------------------------------------------------------
(***************************************************************************)
(* Properties.                                                             *)
(***************************************************************************)
MethodsOf(p) == { Plan[p][i] : i \in DOMAIN Plan[p] } \intersect Methods

\* A provider that serves a method without having its node lost its session
\* or let Create pass over the node (zookeeper_client.cc:105-112): the loops of
\* Run miss no method, and no other process takes a node away.
MissingOnlyIfPassed ==
  \A p \in Providers : \A m \in MethodsOf(p) :
    pc[p] = "serve" /\ node[m] # Session(p) =>
      Session(p) \notin live \/ m \in passed[p]

\* exit() in Create means that another process created the node between the
\* check and the create, unless something failed: never that the parent was
\* missing (rpc_provider.cc:82-96).
ExitMeansRace ==
  [][\A p \in Providers :
       calm' /\ pc[p] = "create" /\ pc'[p] = "exited"
         => node[Current(p)] \notin {NoNode, Session(p)}]_vars

\* The race between check and create never takes all providers with it:
\* whatever their services and orders, one of those started is left.
SomeoneSurvives ==
  calm => \A p \in Providers :
    pc[p] = "exited" => \E q \in Providers : pc[q] \in {"exists", "create", "serve"}

\* A published method keeps its address as long as the session that published
\* it lives: no provider overwrites or withdraws the node of another.
AddressStays ==
  [][\A m \in Methods : node[m] \in live' => node'[m] = node[m]]_vars

\* Methods are published before their provider listens.  Such an address, or
\* that of a dead provider, is not kept for ever: the provider comes to serve
\* or the node goes.
AdvertsSettle ==
  \A s \in Sessions : \A m \in Methods :
    node[m] = s ~> node[m] # s \/ pc[s[1]] = "serve"

\* What NotifyService and Run are said to do ("registers the service's methods
\* with the framework and publishes them", rpc_provider.h:17-21): a provider
\* that serves can be found under each of its methods.
ServingIsPublished ==
  \A p \in Providers : \A m \in MethodsOf(p) : pc[p] = "serve" => node[m] # NoNode
=============================================================================
